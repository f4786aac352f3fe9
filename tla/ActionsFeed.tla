------------------------------ MODULE ActionsFeed ----------------------------
(***************************************************************************)
(* GET /v2/actions (midgard-api/src/handlers/actions.rs): a client walks   *)
(* the feed page by page while the indexer commits blocks.                 *)
(*                                                                         *)
(* A page merges one query per action kind, and every query reads its own  *)
(* snapshot.  Requests keep no state in the server and change none, so one *)
(* client stands for any number of them.  An event is its event_id; the    *)
(* rows of the three tables and the filter by address and asset are        *)
(* abstracted to the kind of an event, "other" being in no table or not    *)
(* matching the filter.                                                    *)
(***************************************************************************)
EXTENDS Indexer, FiniteSets

CONSTANTS
  Slots,     \* bound: events per block
  MaxLimit   \* action_params.max_limit

ASSUME FeedAssumption == Slots \in Nat \ {0} /\ MaxLimit \in Nat \ {0}

VARIABLES
  kindOf,   \* what each event of the chain is
  walking,  \* a walk is under way
  wanted,   \* its filter by type
  began,    \* newest committed height when it began
  token,    \* its nextPageToken
  served,   \* the events it has got
  asking,   \* a request of it is under way
  limit,    \* of that request
  todo,     \* the kinds it has still to query
  rows      \* what its queries have returned

walk == <<walking, wanted, began, token, served>>
request == <<asking, limit, todo, rows>>
vars == <<serving, committed, published, kindOf, walking, wanted, began, token,
          served, asking, limit, todo, rows>>

\* The order in which the kinds are queried.
Place == [swap |-> 1, addLiquidity |-> 2, withdraw |-> 3]
Kinds == DOMAIN Place

EventIds == FirstHeight * Slots .. (MaxTip + 1) * Slots - 1
HeightOf(e) == e \div Slots

\* No page token was given.
NoToken == -1

FeedInit ==
  /\ kindOf \in [EventIds -> Kinds \cup {"other"}]
  /\ walking = FALSE /\ wanted = {} /\ began = 0 /\ token = NoToken /\ served = {}
  /\ asking = FALSE /\ limit = 1 /\ todo = {} /\ rows = {}

Init == IndexerInit /\ FeedInit

\* The n newest events of a set.
Newest(S, n) == {e \in S : Cardinality({f \in S : f > e}) < n}

\* The legal page sizes; the default is one of them.
Limits == 1 .. MaxLimit

\* Mutant: the token is part of the next page.
OlderOrSame(e) == token = NoToken \/ e <= token

Older(e) == token = NoToken \/ e < token

\* Mutant: the tables share the limit.
TableLimitShared == (limit + 1) \div 2

TableLimit == limit

\* ORDER BY event_id DESC LIMIT over one table.
TableRows(kind) ==
  Newest({e \in EventIds : HeightOf(e) <= committed /\ kindOf[e] = kind /\ Older(e)}, TableLimit)

\* A client begins a walk at the top of the feed.
Begin ==
  /\ ~walking
  /\ walking' = TRUE
  /\ \E W \in SUBSET Kinds : wanted' = W
  /\ began' = committed
  /\ token' = NoToken
  /\ served' = {}
  /\ UNCHANGED <<indexerVars, kindOf, request>>

\* It asks for a page.
Ask ==
  /\ serving /\ walking /\ ~asking
  /\ asking' = TRUE
  /\ \E n \in Limits : limit' = n
  /\ todo' = wanted
  /\ rows' = {}
  /\ UNCHANGED <<indexerVars, kindOf, walk>>

\* The query of one kind.
Query(kind) ==
  /\ asking /\ kind \in todo /\ \A k \in todo : Place[kind] <= Place[k]
  /\ rows' = rows \cup TableRows(kind)
  /\ todo' = todo \ {kind}
  /\ UNCHANGED <<indexerVars, kindOf, walk, asking, limit>>

\* Mutant: trimmed before the sort: whole tables first, in the order queried.
PageUnsorted ==
  {e \in rows : Cardinality({f \in rows : \/ f > e /\ kindOf[f] = kindOf[e]
                                          \/ Place[kindOf[f]] < Place[kindOf[e]]}) < limit}

\* Sorted newest first, then trimmed.
Page == Newest(rows, limit)

\* nextPageToken: the last event of the page, 0 for an empty page.
NextToken(page) == IF page = {} THEN 0 ELSE CHOOSE e \in page : \A f \in page : e <= f

\* The page is returned; the client stops at an empty one.
Answer ==
  /\ asking /\ todo = {}
  /\ served' = served \cup Page
  /\ token' = NextToken(Page)
  /\ walking' = (Page # {})
  /\ asking' = FALSE /\ limit' = 1 /\ rows' = {}
  /\ UNCHANGED <<indexerVars, kindOf, wanted, began, todo>>

\* A query fails: the client asks again with the token it has.
Fail ==
  /\ asking
  /\ asking' = FALSE /\ limit' = 1 /\ todo' = {} /\ rows' = {}
  /\ UNCHANGED <<indexerVars, kindOf, walk>>

\* The process ends and takes the request with it, not the walk.
StopServing ==
  /\ Stop
  /\ asking' = FALSE /\ limit' = 1 /\ todo' = {} /\ rows' = {}
  /\ UNCHANGED <<kindOf, walk>>

StartServing == Start /\ UNCHANGED <<kindOf, walk, request>>

Index == (Commit \/ Publish) /\ UNCHANGED <<kindOf, walk, request>>

Next ==
  \/ StartServing \/ Index \/ StopServing
  \/ Begin \/ Ask \/ (\E kind \in Kinds : Query(kind)) \/ Answer \/ Fail

Spec == Init /\ [][Next]_vars

\* The client goes on walking and the process is restarted; neither the
\* process nor the database fails the same step of every request.
FairSpec ==
  /\ Spec
  /\ WF_vars(StartServing) /\ SF_vars(Ask) /\ SF_vars(Answer)
  /\ \A kind \in Kinds : SF_vars(Query(kind))

------------------------------------------------------------------------------
\* Types; the token of a walk is the last event it served.
TypeOK ==
  /\ serving \in BOOLEAN /\ committed \in 0 .. MaxTip /\ published \in 0 .. MaxTip
  /\ kindOf \in [EventIds -> Kinds \cup {"other"}]
  /\ walking \in BOOLEAN /\ wanted \in SUBSET Kinds /\ began \in 0 .. MaxTip
  /\ token \in EventIds \cup {0, NoToken}
  /\ served \in SUBSET EventIds
  /\ walking /\ token # NoToken => token \in served /\ \A e \in served : token <= e
  /\ asking \in BOOLEAN /\ limit \in Limits /\ todo \in SUBSET Kinds /\ rows \in SUBSET EventIds

Wanted == {e \in EventIds : kindOf[e] \in wanted}

\* Whatever is committed, fails or restarts between two requests, a request
\* collects only events older than all those served before it: no event is
\* served twice and the feed stays newest first (actions.rs:6-10).
PagesDescend == asking => \A e \in rows, f \in served : e < f

\* Every wanted event that was committed when the walk began and is not older
\* than the token has been served.
NothingOldLost ==
  \A e \in Wanted : walking /\ token # NoToken /\ HeightOf(e) <= began /\ e >= token => e \in served

\* A page shorter than its limit is the end of the feed: the limited queries
\* return enough rows to fill a page whichever kind dominates (actions.rs:41-43).
ShortPageIsTheEnd ==
  [][asking /\ todo = {} /\ ~asking' /\ token' # token
       /\ Cardinality(served') < Cardinality(served) + limit =>
          \A e \in Wanted : HeightOf(e) <= began => e \in served']_vars

\* Every walk ends although blocks keep arriving.
WalksEnd == walking ~> ~walking

=============================================================================
