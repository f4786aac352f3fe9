------------------------------ MODULE SchemaSetup ----------------------------
(***************************************************************************)
(* Schema creation and versioning (midgard-db/src/ddl.rs) over a series of *)
(* deployments: builds with different DDL come and go in any order, with   *)
(* and without no_auto_update_ddl, and every step may fail or be the last  *)
(* one of its process.  A process at a time.                               *)
(*                                                                         *)
(* A fingerprint is the build it belongs to.  Of the tables only the       *)
(* number of indexed blocks is kept.                                       *)
(***************************************************************************)
EXTENDS Integers

CONSTANTS
  Builds,    \* the DDL fingerprints of the builds deployed
  NoStamp,   \* no fingerprint row (or no constants table)
  NoSchema, HalfBuilt,
  MaxBlocks  \* bound: blocks indexed

ASSUME SchemaAssumption ==
  /\ {NoStamp, NoSchema, HalfBuilt} \cap Builds = {}
  /\ NoSchema # HalfBuilt
  /\ MaxBlocks \in Nat

VARIABLES
  build, noAutoUpdate,  \* of the process: its fingerprint, no_auto_update_ddl
  pc,      \* "down", "checking", "applying", "stamping", "syncing"
  schema,  \* whose DDL the schema is of
  stamp,   \* the fingerprint stored in it
  blocks   \* blocks indexed in it

schemaVars == <<build, noAutoUpdate, pc, schema, stamp, blocks>>

\* An empty database.
SchemaInit ==
  /\ build \in Builds /\ noAutoUpdate \in BOOLEAN
  /\ pc = "down"
  /\ schema = NoSchema /\ stamp = NoStamp /\ blocks = 0

\* A deployment or a restart of the same one.
Launch ==
  /\ pc = "down"
  /\ pc' = "checking"
  /\ build' \in Builds /\ noAutoUpdate' \in BOOLEAN
  /\ UNCHANGED <<schema, stamp, blocks>>

\* ensure_schema: the stored fingerprint is the one of this build.
Matches == stamp = build

UpToDate ==
  /\ pc = "checking" /\ Matches
  /\ pc' = "syncing"
  /\ UNCHANGED <<build, noAutoUpdate, schema, stamp, blocks>>

\* Mutant: a missing fingerprint is a mismatch like any other.
RefusesMissing == noAutoUpdate

\* ... it is another one, and the operator does not want it replaced.
Refuses == stamp # NoStamp /\ noAutoUpdate

Refuse ==
  /\ pc = "checking" /\ ~Matches /\ Refuses
  /\ pc' = "down"
  /\ UNCHANGED <<build, noAutoUpdate, schema, stamp, blocks>>

\* ... otherwise apply.
Rebuild ==
  /\ pc = "checking" /\ ~Matches /\ ~Refuses
  /\ pc' = "applying"
  /\ UNCHANGED <<build, noAutoUpdate, schema, stamp, blocks>>

\* The schema is dropped, with the fingerprint and every block.
Drop == stamp' = NoStamp /\ blocks' = 0

\* Mutant: the sync loop starts before the fingerprint is stored.
ApplyUnstamped ==
  /\ pc = "applying"
  /\ Drop /\ schema' = build
  /\ pc' = "syncing"
  /\ UNCHANGED <<build, noAutoUpdate>>

\* The DDL batch runs to its end.
Apply ==
  /\ pc = "applying"
  /\ Drop /\ schema' = build
  /\ pc' = "stamping"
  /\ UNCHANGED <<build, noAutoUpdate>>

\* Mutant: the fingerprint survives the failure.
ApplyFailsStamped ==
  /\ pc = "applying"
  /\ blocks' = 0 /\ schema' = HalfBuilt
  /\ pc' = "down"
  /\ UNCHANGED <<build, noAutoUpdate, stamp>>

\* It fails: before the drop, part way, or after the end with its answer lost.
ApplyFails ==
  /\ pc = "applying"
  /\ \/ UNCHANGED <<schema, stamp, blocks>>
     \/ Drop /\ schema' \in {HalfBuilt, build}
  /\ pc' = "down"
  /\ UNCHANGED <<build, noAutoUpdate>>

\* INSERT INTO constants.
Stamp ==
  /\ pc = "stamping"
  /\ stamp' = build
  /\ pc' = "syncing"
  /\ UNCHANGED <<build, noAutoUpdate, schema, blocks>>

\* INSERT fails, or took effect and its answer is lost.
StampFails ==
  /\ pc = "stamping"
  /\ stamp' \in {NoStamp, build}
  /\ pc' = "down"
  /\ UNCHANGED <<build, noAutoUpdate, schema, blocks>>

\* The sync loop indexes a block.
IndexBlock ==
  /\ pc = "syncing" /\ blocks < MaxBlocks
  /\ blocks' = blocks + 1
  /\ UNCHANGED <<build, noAutoUpdate, pc, schema, stamp>>

\* The process ends, wherever it is between two statements.
Exit ==
  /\ pc # "down"
  /\ pc' = "down"
  /\ UNCHANGED <<build, noAutoUpdate, schema, stamp, blocks>>

SchemaNext ==
  \/ Launch \/ UpToDate \/ Refuse \/ Rebuild
  \/ Apply \/ ApplyFails \/ Stamp \/ StampFails
  \/ IndexBlock \/ Exit

SchemaSpec == SchemaInit /\ [][SchemaNext]_schemaVars

\* A supervisor restarts the process, and no step fails every time.
SchemaFairSpec ==
  /\ SchemaSpec
  /\ SF_schemaVars(Launch) /\ SF_schemaVars(Rebuild) /\ SF_schemaVars(Apply) /\ SF_schemaVars(Stamp)

------------------------------------------------------------------------------
\* Types; blocks are only ever in a schema whose fingerprint is stored.
SchemaTypeOK ==
  /\ build \in Builds /\ noAutoUpdate \in BOOLEAN
  /\ pc \in {"down", "checking", "applying", "stamping", "syncing"}
  /\ schema \in Builds \cup {NoSchema, HalfBuilt}
  /\ stamp \in Builds \cup {NoStamp}
  /\ blocks \in 0 .. MaxBlocks
  /\ blocks > 0 => stamp # NoStamp

\* A process that syncs does so on a complete schema of its own DDL, whatever
\* builds ran and failed before it (ddl.rs:57-61).
SyncsOnItsOwnSchema == pc = "syncing" => schema = build /\ stamp = build

\* A process with no_auto_update_ddl never drops an indexed block (ddl.rs:8-10),
\* although it does create a missing schema: none with blocks ever looks missing.
CarefulKeepsBlocks == [][noAutoUpdate /\ pc # "down" => blocks' >= blocks]_schemaVars

\* A half-built schema is detected by a later start and replaced by a complete
\* one (ddl.rs:59-61), no_auto_update_ddl or not.
HalfBuiltIsRepaired == schema = HalfBuilt ~> (stamp # NoStamp /\ schema = stamp)

=============================================================================
