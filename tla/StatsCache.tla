------------------------------ MODULE StatsCache -----------------------------
(***************************************************************************)
(* GET /v2/stats: concurrent requests over the height-keyed cache          *)
(* (midgard-api/src/cache.rs, handlers/stats.rs) while the indexer runs.   *)
(*                                                                         *)
(* An answer is made by several queries, each on its own snapshot of the   *)
(* database.  Of the snapshots only the committed height matters, and of   *)
(* the queries the first and the last: the others lie between them.        *)
(*                                                                         *)
(* phase of a request                                                      *)
(* idle    none                      asking  has read the cursor           *)
(* queued  in the queue of the mutex                                       *)
(* first   holds the mutex, before its first query                         *)
(* last    before its last query                                           *)
(***************************************************************************)
EXTENDS Indexer, SequencesExt

CONSTANTS Clients

VARIABLES
  phase, asked,  \* asked[c]: the cursor height read by request c
  queue,         \* requests holding (head) and waiting for the mutex, in order
  computing,     \* snapshot of the first query of the computation under way
  entry,         \* HeightCache::inner: at most one entry
  answer         \* answer[c]: the value last returned to c

cacheVars == <<phase, asked, queue, computing, entry, answer>>
vars == <<serving, committed, published, phase, asked, queue, computing, entry, answer>>

\* What a computation saw: the committed height at its first and last query.
Value == [first : 0 .. MaxTip, last : 0 .. MaxTip]
NoEntry == {}

CacheInit ==
  /\ phase = [c \in Clients |-> "idle"]
  /\ asked = [c \in Clients |-> 0]
  /\ queue = <<>>
  /\ computing = 0
  /\ entry = NoEntry
  /\ answer = [c \in Clients |-> [first |-> 0, last |-> 0]]

Init == IndexerInit /\ CacheInit

Holds(c) == queue # <<>> /\ Head(queue) = c

\* stats: the height is read first, the mutex is asked for afterwards.
Ask(c) ==
  /\ serving /\ phase[c] = "idle"
  /\ asked' = [asked EXCEPT ![c] = published]
  /\ phase' = [phase EXCEPT ![c] = "asking"]
  /\ UNCHANGED <<indexerVars, queue, computing, entry, answer>>

\* tokio's mutex is fair: requests get it in the order they ask.
Enqueue(c) ==
  /\ phase[c] = "asking"
  /\ phase' = [phase EXCEPT ![c] = "queued"]
  /\ queue' = Append(queue, c)
  /\ UNCHANGED <<indexerVars, asked, computing, entry, answer>>

\* Mutant: whatever is cached is served.
HitsAny(c) == entry

Hits(c) == {e \in entry : e.height = asked[c]}

\* get_or_compute with an entry for the height.
ServeCached(c) ==
  /\ phase[c] = "queued" /\ Holds(c)
  /\ \E e \in Hits(c) : answer' = [answer EXCEPT ![c] = e.value]
  /\ phase' = [phase EXCEPT ![c] = "idle"]
  /\ queue' = Tail(queue)
  /\ UNCHANGED <<indexerVars, asked, computing, entry>>

\* ... without one: compute starts, the mutex stays held.
Miss(c) ==
  /\ phase[c] = "queued" /\ Holds(c)
  /\ Hits(c) = {}
  /\ phase' = [phase EXCEPT ![c] = "first"]
  /\ UNCHANGED <<indexerVars, asked, queue, computing, entry, answer>>

FirstQuery(c) ==
  /\ phase[c] = "first"
  /\ computing' = committed
  /\ phase' = [phase EXCEPT ![c] = "last"]
  /\ UNCHANGED <<indexerVars, asked, queue, entry, answer>>

\* Mutant: an entry is only replaced by one for a newer height.
StoredIfNewer(c, v) ==
  IF \E e \in entry : e.height > asked[c] THEN entry ELSE {[height |-> asked[c], value |-> v]}

Stored(c, v) == {[height |-> asked[c], value |-> v]}

\* The last query answers: the entry is replaced and the mutex released.
LastQuery(c) ==
  /\ phase[c] = "last"
  /\ LET v == [first |-> computing, last |-> committed]
     IN  /\ entry' = Stored(c, v)
         /\ answer' = [answer EXCEPT ![c] = v]
  /\ phase' = [phase EXCEPT ![c] = "idle"]
  /\ queue' = Tail(queue)
  /\ UNCHANGED <<indexerVars, asked, computing>>

\* Mutant: the mutex is not released when the request is dropped.
GiveUpLocked(c) ==
  /\ phase[c] # "idle"
  /\ phase' = [phase EXCEPT ![c] = "idle"]
  /\ UNCHANGED <<indexerVars, asked, queue, computing, entry, answer>>

\* A query fails, or the client disconnects and the request is dropped at its
\* await: the guard releases the mutex and nothing is stored.
GiveUp(c) ==
  /\ phase[c] # "idle"
  /\ phase' = [phase EXCEPT ![c] = "idle"]
  /\ \/ phase[c] = "asking" /\ UNCHANGED queue
     \/ \E i \in DOMAIN queue : queue[i] = c /\ queue' = RemoveAt(queue, i)
  /\ UNCHANGED <<indexerVars, asked, computing, entry, answer>>

Request(c) == Enqueue(c) \/ ServeCached(c) \/ Miss(c) \/ FirstQuery(c) \/ LastQuery(c)

\* The process ends and takes the cache and every request with it.
StopServing ==
  /\ Stop
  /\ phase' = [c \in Clients |-> "idle"]
  /\ asked' = [c \in Clients |-> 0]
  /\ queue' = <<>> /\ computing' = 0 /\ entry' = NoEntry
  /\ UNCHANGED answer

Index == (Start \/ Commit \/ Publish) /\ UNCHANGED cacheVars

Next == Index \/ StopServing \/ \E c \in Clients : Ask(c) \/ Request(c) \/ GiveUp(c)

Spec == Init /\ [][Next]_vars

\* Requests make progress as long as the process runs: a query ends in an
\* answer or in an error.
FairSpec == Spec /\ \A c \in Clients : WF_vars(Request(c))

------------------------------------------------------------------------------
\* Types; the queue holds exactly the requests that asked for the mutex, once
\* each (tokio's Mutex, cache.rs:58).
TypeOK ==
  /\ serving \in BOOLEAN /\ committed \in 0 .. MaxTip /\ published \in 0 .. MaxTip
  /\ phase \in [Clients -> {"idle", "asking", "queued", "first", "last"}]
  /\ asked \in [Clients -> 0 .. MaxTip]
  /\ queue \in Seq(Clients) /\ IsInjective(queue)
  /\ Range(queue) = {c \in Clients : phase[c] \in {"queued", "first", "last"}}
  /\ computing \in 0 .. MaxTip
  /\ entry \in SUBSET [height : 0 .. MaxTip, value : Value]
  /\ answer \in [Clients -> Value]

\* An answer misses less than one batch of the blocks up to the height its
\* request read, whichever request computed it and however long ago: the
\* cursor may lead the database and the height is read before the mutex, but
\* no older entry is served for it.
AnswerMissesLessThanABatch ==
  [][\A c \in Clients : answer'[c] # answer[c] =>
       Between(answer'[c].first, asked[c]) < CommitBatch]_vars

\* No answer is older than one completed before it: a request that computes
\* sees the present database, and one that hits finds the newest computation,
\* although a request for an older height may replace a newer entry.
AnswersNeverGoBack ==
  [][\A c \in Clients : answer'[c] # answer[c] =>
       \A d \in Clients : answer'[c].first >= answer[d].first]_vars

\* Every request ends unless the process does: whatever ends one, an answer,
\* an error or a dropped connection, passes the mutex on.
RequestsEnd == \A c \in Clients : phase[c] # "idle" ~> phase[c] = "idle"

=============================================================================
