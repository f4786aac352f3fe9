------------------------------ MODULE MCServices -----------------------------
(***************************************************************************)
(* Two services over one database that never run at once: three builds set *)
(* up the schema, and two clients ask a set-up process for statistics.     *)
(***************************************************************************)
EXTENDS StatsCache, SchemaSetup

CONSTANTS b1, b2, b3, c1, c2

MCBuilds == {b1, b2, b3}
MCClients == {c1, c2}

VARIABLE explored  \* the one of the two this behaviour is about

allVars == <<vars, schemaVars, explored>>

ServicesInit ==
  /\ Init /\ SchemaInit
  /\ \/ explored = "schema"
     \/ explored = "statistics" /\ build = b1 /\ noAutoUpdate

SchemaStep(A) == explored = "schema" /\ A /\ UNCHANGED <<vars, explored>>
StatsStep(A) == explored = "statistics" /\ A /\ UNCHANGED <<schemaVars, explored>>

ServicesNext == SchemaStep(SchemaNext) \/ StatsStep(Next)

\* The fairness of both.
ServicesSpec ==
  /\ ServicesInit /\ [][ServicesNext]_allVars
  /\ SF_allVars(SchemaStep(Launch)) /\ SF_allVars(SchemaStep(Rebuild))
  /\ SF_allVars(SchemaStep(Apply)) /\ SF_allVars(SchemaStep(Stamp))
  /\ \A c \in Clients : WF_allVars(StatsStep(Request(c)))

=============================================================================
