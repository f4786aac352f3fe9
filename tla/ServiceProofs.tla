---------------------------- MODULE ServiceProofs ----------------------------
(***************************************************************************)
(* For any clients, chain length and batch size: how much an answer of the *)
(* statistics may miss, and that answers never go back.  For any set of    *)
(* builds: the sync loop runs on a schema of its own, and                  *)
(* no_auto_update_ddl never drops an indexed block.  For any settings,     *)
(* files and variables: each setting has the value of the highest layer    *)
(* that sets it.                                                           *)
(***************************************************************************)
EXTENDS StatsCache, SchemaSetup, ConfigLoad, TLAPS

\* What the mutex protects: only its holder computes.
MutexInv == \A c \in Clients : phase[c] \in {"first", "last"} => Holds(c)

\* What is not yet seen by a request that waits, by the computation under way
\* and by the entry is less than a batch of what was announced to it.
LeadInv ==
  /\ Lead(published) < CommitBatch
  /\ \A c \in Clients :
       /\ phase[c] \in {"asking", "queued", "first"} => Lead(asked[c]) < CommitBatch
       /\ phase[c] = "last" => Between(computing, asked[c]) < CommitBatch
  /\ \A e \in entry : Between(e.value.first, e.height) < CommitBatch

\* There is one entry at most, and no answer given is newer than the entry, the
\* computation or the database.
AgeInv ==
  /\ \A e, f \in entry : e = f
  /\ \A d \in Clients : answer[d].first <= committed
  /\ \A c \in Clients : phase[c] = "last" =>
       computing <= committed /\ \A d \in Clients : answer[d].first <= computing
  /\ \A e \in entry :
       e.value.first <= committed /\ \A d \in Clients : answer[d].first <= e.value.first

StatsInv == TypeOK /\ MutexInv /\ LeadInv /\ AgeInv

\* A later height lacks less, and one that is as high lacks nothing.
LEMMA LacksLess ==
  ASSUME NEW low \in Int, NEW later \in Int, low <= later, NEW high \in Int
  PROVE  /\ Between(low, high) < CommitBatch => Between(later, high) < CommitBatch
         /\ high <= later => Between(later, high) < CommitBatch
BY IndexerAssumption DEF Between, After

\* A queue without one of its members, each being in it once.
LEMMA QueueWithout ==
  ASSUME NEW q \in Seq(Clients), IsInjective(q), NEW i \in DOMAIN q
  PROVE  /\ RemoveAt(q, i) \in Seq(Clients) /\ IsInjective(RemoveAt(q, i))
         /\ Range(RemoveAt(q, i)) = Range(q) \ {q[i]}
         /\ i # 1 => RemoveAt(q, i) # <<>> /\ Head(RemoveAt(q, i)) = Head(q)
<1> DEFINE r == RemoveAt(q, i)
           before == SubSeq(q, 1, i - 1)
           after == SubSeq(q, i + 1, Len(q))
<1>1. /\ r \in Seq(Clients) /\ Len(r) = Len(q) - 1
      /\ \A j \in 1 .. Len(r) : r[j] = IF j < i THEN q[j] ELSE q[j + 1]
  <2>1. /\ before \in Seq(Clients) /\ Len(before) = i - 1
        /\ \A j \in 1 .. i - 1 : before[j] = q[j]
    OBVIOUS
  <2>2. /\ after \in Seq(Clients) /\ Len(after) = Len(q) - i
        /\ \A j \in 1 .. Len(q) - i : after[j] = q[j + i]
    OBVIOUS
  <2>3. r = before \o after
    BY DEF RemoveAt
  <2> HIDE DEF r, before, after
  <2> QED
    BY <2>1, <2>2, <2>3
<1> HIDE DEF r
<1>2. IsInjective(r)
  <2> SUFFICES ASSUME NEW j \in 1 .. Len(r), NEW k \in 1 .. Len(r), r[j] = r[k] PROVE j = k
    BY <1>1 DEF IsInjective
  <2>1. \A m, n \in 1 .. Len(q) : q[m] = q[n] => m = n
    BY DEF IsInjective
  <2> QED
    BY <1>1, <2>1
<1>3. Range(r) \subseteq Range(q) \ {q[i]}
  BY <1>1 DEF IsInjective, Range
<1>4. ASSUME NEW j \in DOMAIN q, j # i PROVE q[j] \in Range(r)
  <2>1. CASE j < i
    BY <1>1, <2>1 DEF Range
  <2>2. CASE j > i
    <3>1. j - 1 \in 1 .. Len(r) /\ r[j - 1] = q[j]
      BY <1>1, <2>2
    <3> QED
      BY <3>1, <1>1 DEF Range
  <2> QED
    BY <1>4, <2>1, <2>2
<1>5. Range(r) = Range(q) \ {q[i]}
  BY <1>3, <1>4 DEF Range
<1>6. i # 1 => r # <<>> /\ Head(r) = Head(q)
  BY <1>1
<1> QED
  BY <1>1, <1>2, <1>5, <1>6 DEF r

LEMMA QueueTail ==
  ASSUME NEW q \in Seq(Clients), IsInjective(q), q # <<>>
  PROVE  /\ Tail(q) \in Seq(Clients) /\ IsInjective(Tail(q))
         /\ Range(Tail(q)) = Range(q) \ {Head(q)}
<1>1. 1 \in DOMAIN q /\ q[1] = Head(q)
  OBVIOUS
<1>2. RemoveAt(q, 1) = Tail(q)
  BY DEF RemoveAt
<1> QED
  BY <1>1, <1>2, QueueWithout

LEMMA QueueAppend ==
  ASSUME NEW q \in Seq(Clients), IsInjective(q), NEW c \in Clients \ Range(q)
  PROVE  /\ Append(q, c) \in Seq(Clients) /\ IsInjective(Append(q, c))
         /\ Range(Append(q, c)) = Range(q) \cup {c}
         /\ q # <<>> => Append(q, c) # <<>> /\ Head(Append(q, c)) = Head(q)
<1> DEFINE r == Append(q, c)
<1>1. /\ r \in Seq(Clients) /\ Len(r) = Len(q) + 1 /\ r[Len(r)] = c
      /\ \A j \in 1 .. Len(q) : r[j] = q[j]
  OBVIOUS
<1> HIDE DEF r
<1>2. IsInjective(r)
  BY <1>1 DEF IsInjective, Range
<1>3. Range(r) = Range(q) \cup {c}
  BY <1>1 DEF Range
<1>4. q # <<>> => r # <<>> /\ Head(r) = Head(q)
  BY <1>1
<1> QED
  BY <1>1, <1>2, <1>3, <1>4 DEF r

LEMMA StatsInitInv == Init => StatsInv
<1> SUFFICES ASSUME Init PROVE StatsInv
  OBVIOUS
<1> USE IndexerAssumption DEF Init, IndexerInit, CacheInit, NoEntry
<1>1. TypeOK
  <2>1. Range(queue) = {} /\ IsInjective(queue)
    BY DEF Range, IsInjective
  <2>2. queue \in Seq(Clients) /\ 0 \in 0 .. MaxTip
    OBVIOUS
  <2> QED
    BY <2>1, <2>2 DEF TypeOK, Value
<1>2. MutexInv /\ AgeInv
  BY DEF MutexInv, AgeInv
<1>3. LeadInv
  BY DEF LeadInv, Lead, Between, After
<1> QED
  BY <1>1, <1>2, <1>3 DEF StatsInv

\* The indexer only ever moves on.
LEMMA IndexerStep ==
  ASSUME committed \in 0 .. MaxTip, published \in 0 .. MaxTip, Lead(published) < CommitBatch,
         Start \/ Commit \/ Publish \/ Stop
  PROVE  /\ committed' \in 0 .. MaxTip /\ published' \in 0 .. MaxTip
         /\ committed <= committed' /\ Lead(published)' < CommitBatch
<1>1. Lead(published)' = Between(committed', published')
  BY DEF Lead
<1>2. Between(committed, published) < CommitBatch /\ MaxTip \in Int
  BY IndexerAssumption DEF Lead
<1>3. CASE Start
  BY <1>1, <1>2, <1>3, LacksLess DEF Start
<1>4. CASE Commit
  <2>1. PICK n \in After(committed) .. After(published) : n <= MaxTip /\ committed' = n
    BY <1>4 DEF Commit
  <2>2. published' = published /\ committed' \in 0 .. MaxTip /\ committed <= committed'
    BY <2>1, <1>2, <1>4, IndexerAssumption DEF Commit, After
  <2> QED
    BY <2>2, <1>1, <1>2, LacksLess
<1>5. CASE Publish
  <2>1. After(published) \in 0 .. MaxTip
    BY <1>5, IndexerAssumption DEF Publish, After
  <2> QED
    BY <2>1, <1>1, <1>5 DEF Publish, Lead
<1>6. CASE Stop
  BY <1>1, <1>2, <1>6, LacksLess DEF Stop
<1> QED
  BY <1>3, <1>4, <1>5, <1>6

\* The indexer, seen by a cache that stays as it is.
LEMMA IndexKeeps == StatsInv /\ Index => StatsInv'
<1> SUFFICES ASSUME StatsInv, Index PROVE StatsInv'
  OBVIOUS
<1> USE DEF StatsInv, Index
<1>1. /\ committed' \in 0 .. MaxTip /\ published' \in 0 .. MaxTip
      /\ committed \in 0 .. MaxTip /\ committed <= committed' /\ Lead(published)' < CommitBatch
  BY IndexerStep DEF TypeOK, LeadInv
<1>2. serving' \in BOOLEAN
  BY DEF TypeOK, Start, Commit, Publish
<1>3. TypeOK'
  BY <1>1, <1>2 DEF TypeOK, cacheVars
<1>4. MutexInv'
  BY DEF MutexInv, Holds, cacheVars
<1>5. LeadInv'
  <2>1. ASSUME NEW h \in 0 .. MaxTip, Lead(h) < CommitBatch PROVE Lead(h)' < CommitBatch
    BY <1>1, <2>1, LacksLess, IndexerAssumption DEF Lead
  <2>2. ASSUME NEW c \in Clients
        PROVE  /\ phase'[c] \in {"asking", "queued", "first"} => Lead(asked[c])' < CommitBatch
               /\ phase'[c] = "last" => Between(computing', asked'[c]) < CommitBatch
    BY <2>1 DEF LeadInv, TypeOK, cacheVars
  <2>3. \A e \in entry' : Between(e.value.first, e.height) < CommitBatch
    BY DEF LeadInv, cacheVars
  <2> QED
    BY <1>1, <2>2, <2>3 DEF LeadInv, cacheVars
<1>6. AgeInv'
  BY <1>1, IndexerAssumption DEF AgeInv, TypeOK, Value, cacheVars
<1> QED
  BY <1>3, <1>4, <1>5, <1>6

\* What no request changes about another.
LEMMA OthersKept ==
  ASSUME NEW c \in Clients, NEW p, StatsInv, phase' = [phase EXCEPT ![c] = p]
  PROVE  \A d \in Clients \ {c} : phase'[d] = phase[d]
BY DEF StatsInv, TypeOK

LEMMA AskKeeps == ASSUME NEW c \in Clients, StatsInv, Ask(c) PROVE StatsInv'
<1> USE DEF StatsInv, Ask, indexerVars
<1>1. TypeOK'
  BY DEF TypeOK
<1>2. MutexInv'
  BY DEF MutexInv, TypeOK, Holds
<1>3. LeadInv'
  <2>1. Between(committed, published) < CommitBatch /\ asked'[c] = published /\ phase'[c] = "asking"
    BY DEF TypeOK, LeadInv, Lead
  <2>2. ASSUME NEW d \in Clients
        PROVE  /\ phase'[d] \in {"asking", "queued", "first"}
                    => Between(committed, asked'[d]) < CommitBatch
               /\ phase'[d] = "last" => Between(computing, asked'[d]) < CommitBatch
    <3>1. CASE d = c
      BY <2>1, <3>1
    <3>2. CASE d # c
      BY <3>2 DEF LeadInv, TypeOK, Lead
    <3> QED
      BY <3>1, <3>2
  <2> QED
    BY <2>2 DEF LeadInv, Lead
<1>4. AgeInv'
  BY DEF AgeInv, TypeOK
<1> QED
  BY <1>1, <1>2, <1>3, <1>4

LEMMA EnqueueKeeps == ASSUME NEW c \in Clients, StatsInv, Enqueue(c) PROVE StatsInv'
<1> USE DEF StatsInv, Enqueue, indexerVars
<1>1. c \notin Range(queue)
  BY DEF TypeOK
<1>2. TypeOK'
  <2>1. /\ queue' \in Seq(Clients) /\ IsInjective(queue') /\ Range(queue') = Range(queue) \cup {c}
    BY <1>1, QueueAppend DEF TypeOK
  <2>2. phase' \in [Clients -> {"idle", "asking", "queued", "first", "last"}]
    BY DEF TypeOK
  <2>3. Range(queue') = {d \in Clients : phase'[d] \in {"queued", "first", "last"}}
    BY <2>1 DEF TypeOK
  <2> QED
    BY <2>1, <2>2, <2>3 DEF TypeOK
<1>3. MutexInv'
  BY <1>1, QueueAppend DEF MutexInv, TypeOK, Holds
<1>4. LeadInv'
  BY DEF LeadInv, TypeOK, Lead
<1>5. AgeInv'
  BY DEF AgeInv, TypeOK
<1> QED
  BY <1>2, <1>3, <1>4, <1>5

LEMMA ServeCachedKeeps == ASSUME NEW c \in Clients, StatsInv, ServeCached(c) PROVE StatsInv'
<1> USE DEF StatsInv, ServeCached, indexerVars
<1>1. PICK e \in entry : e.height = asked[c] /\ answer' = [answer EXCEPT ![c] = e.value]
  BY DEF Hits
<1>2. e.value \in Value /\ queue # <<>> /\ Head(queue) = c
  BY DEF TypeOK, Holds
<1>3. TypeOK'
  BY <1>1, <1>2, QueueTail DEF TypeOK
<1>4. \A d \in Clients : phase[d] \notin {"first", "last"}
  BY <1>2 DEF MutexInv, TypeOK, Holds
<1>5. MutexInv'
  BY <1>4 DEF MutexInv, TypeOK
<1>6. LeadInv'
  BY DEF LeadInv, TypeOK, Lead
<1>7. AgeInv'
  <2>1. /\ e.value.first <= committed /\ \A d \in Clients : answer[d].first <= e.value.first
        /\ \A f \in entry' : f = e
    BY <1>1 DEF AgeInv
  <2>2. \A d \in Clients : answer'[d].first <= e.value.first
    <3>1. answer'[c] = e.value /\ \A d \in Clients \ {c} : answer'[d] = answer[d]
      BY <1>1 DEF TypeOK
    <3>2. e.value.first <= e.value.first
      BY <1>2 DEF Value
    <3> QED
      BY <2>1, <3>1, <3>2
  <2>3. \A d \in Clients : answer'[d].first <= committed'
    <3>1. e.value.first \in Int /\ committed \in Int /\ \A d \in Clients : answer'[d].first \in Int
      BY <1>2, <1>3, IndexerAssumption DEF TypeOK, Value
    <3> QED
      BY <2>1, <2>2, <3>1
  <2>4. \A d \in Clients : phase'[d] # "last"
    BY <1>4 DEF TypeOK
  <2> QED
    BY <2>1, <2>2, <2>3, <2>4 DEF AgeInv
<1> QED
  BY <1>3, <1>5, <1>6, <1>7

LEMMA MissKeeps == ASSUME NEW c \in Clients, StatsInv, Miss(c) PROVE StatsInv'
<1> USE DEF StatsInv, Miss, indexerVars
<1>1. TypeOK'
  BY DEF TypeOK
<1>2. MutexInv'
  BY DEF MutexInv, TypeOK, Holds
<1>3. LeadInv'
  BY DEF LeadInv, TypeOK, Lead
<1>4. AgeInv'
  BY DEF AgeInv, TypeOK
<1> QED
  BY <1>1, <1>2, <1>3, <1>4

LEMMA FirstQueryKeeps == ASSUME NEW c \in Clients, StatsInv, FirstQuery(c) PROVE StatsInv'
<1> USE DEF StatsInv, FirstQuery, indexerVars
<1>1. TypeOK'
  BY DEF TypeOK
<1>2. MutexInv'
  BY DEF MutexInv, TypeOK, Holds
<1>3. \A d \in Clients \ {c} : phase[d] # "last"
  BY DEF MutexInv, Holds
<1>4. LeadInv'
  BY <1>3 DEF LeadInv, TypeOK, Lead
<1>5. AgeInv'
  BY <1>3 DEF AgeInv, TypeOK
<1> QED
  BY <1>1, <1>2, <1>4, <1>5

LEMMA LastQueryKeeps == ASSUME NEW c \in Clients, StatsInv, LastQuery(c) PROVE StatsInv'
<1> USE DEF StatsInv, LastQuery, indexerVars
<1> DEFINE v == [first |-> computing, last |-> committed]
<1>1. /\ queue # <<>> /\ Head(queue) = c /\ v \in Value /\ v.first = computing
      /\ answer' = [answer EXCEPT ![c] = v]
      /\ entry' = {[height |-> asked[c], value |-> v]}
  BY DEF MutexInv, Holds, TypeOK, Value, Stored
<1> HIDE DEF v
<1>2. TypeOK'
  BY <1>1, QueueTail DEF TypeOK
<1>3. \A d \in Clients \ {c} : phase[d] \notin {"first", "last"}
  BY <1>1 DEF MutexInv, Holds
<1>4. MutexInv'
  BY <1>3 DEF MutexInv, TypeOK
<1>5. LeadInv'
  BY <1>1, <1>3 DEF LeadInv, TypeOK, Lead
<1>6. AgeInv'
  BY <1>1, <1>3 DEF AgeInv, TypeOK
<1> QED
  BY <1>2, <1>4, <1>5, <1>6

LEMMA GiveUpKeeps == ASSUME NEW c \in Clients, StatsInv, GiveUp(c) PROVE StatsInv'
<1> USE DEF StatsInv, GiveUp, indexerVars
<1>1. TypeOK' /\ MutexInv'
  <2>1. CASE phase[c] = "asking" /\ UNCHANGED queue
    BY <2>1 DEF TypeOK, MutexInv, Holds
  <2>2. ASSUME NEW i \in DOMAIN queue, queue[i] = c, queue' = RemoveAt(queue, i)
        PROVE  TypeOK' /\ MutexInv'
    <3>1. /\ queue' \in Seq(Clients) /\ IsInjective(queue') /\ Range(queue') = Range(queue) \ {c}
          /\ i # 1 => queue' # <<>> /\ Head(queue') = Head(queue)
      BY <2>2, QueueWithout DEF TypeOK
    <3>2. i = 1 => Head(queue) = c
      BY <2>2 DEF TypeOK
    <3>3. TypeOK'
      BY <3>1 DEF TypeOK
    <3>4. MutexInv'
      BY <3>1, <3>2 DEF MutexInv, TypeOK, Holds
    <3> QED
      BY <3>3, <3>4
  <2> QED
    BY <2>1, <2>2
<1>2. LeadInv'
  BY DEF LeadInv, TypeOK, Lead
<1>3. AgeInv'
  BY DEF AgeInv, TypeOK
<1> QED
  BY <1>1, <1>2, <1>3

LEMMA StopKeeps == StatsInv /\ StopServing => StatsInv'
<1> SUFFICES ASSUME StatsInv, StopServing PROVE StatsInv'
  OBVIOUS
<1> USE DEF StatsInv, StopServing
<1>1. /\ committed' = committed /\ published' \in 0 .. MaxTip /\ Lead(published)' < CommitBatch
  BY IndexerStep DEF TypeOK, LeadInv, Stop
<1>2. Range(queue') = {} /\ IsInjective(queue') /\ 0 \in 0 .. MaxTip
  BY IndexerAssumption DEF Range, IsInjective
<1>3. TypeOK'
  <2>1. {d \in Clients : phase'[d] \in {"queued", "first", "last"}} = {}
    OBVIOUS
  <2>2. serving' \in BOOLEAN
    BY DEF Stop
  <2>3. queue' \in Seq(Clients)
    OBVIOUS
  <2> QED
    BY <1>1, <1>2, <2>1, <2>2, <2>3 DEF TypeOK, NoEntry
<1>4. MutexInv' /\ LeadInv'
  BY <1>1 DEF MutexInv, LeadInv, NoEntry
<1>5. AgeInv'
  BY <1>1 DEF AgeInv, NoEntry
<1> QED
  BY <1>3, <1>4, <1>5

LEMMA StatsStepInv == StatsInv /\ [Next]_vars => StatsInv'
<1> SUFFICES ASSUME StatsInv, [Next]_vars PROVE StatsInv'
  OBVIOUS
<1>1. CASE Index
  BY <1>1, IndexKeeps
<1>2. CASE StopServing
  BY <1>2, StopKeeps
<1>3. ASSUME NEW c \in Clients, Ask(c) \/ Request(c) \/ GiveUp(c) PROVE StatsInv'
  BY <1>3, AskKeeps, EnqueueKeeps, ServeCachedKeeps, MissKeeps, FirstQueryKeeps, LastQueryKeeps,
     GiveUpKeeps DEF Request
<1>4. CASE UNCHANGED vars
  BY <1>4 DEF vars, StatsInv, TypeOK, MutexInv, LeadInv, AgeInv, Holds, Lead, Between
<1> QED
  BY <1>1, <1>2, <1>3, <1>4 DEF Next

LEMMA StatsAlways == Spec => []StatsInv
BY StatsInitInv, StatsStepInv, PTL DEF Spec

\* The state always has its shape, and the queue holds those who asked for the
\* mutex, once each.
THEOREM StatsTypes == Spec => []TypeOK
BY StatsAlways, PTL DEF StatsInv

\* Only a hit or the last query answers, with what the entry or the computation saw.
LEMMA WhoAnswers ==
  ASSUME NEW c \in Clients, StatsInv, [Next]_vars, answer'[c] # answer[c]
  PROVE  \/ \E e \in entry : e.height = asked[c] /\ answer'[c] = e.value
         \/ phase[c] = "last" /\ answer'[c].first = computing
<1>1. CASE Index \/ StopServing \/ UNCHANGED vars
  BY <1>1 DEF Index, StopServing, cacheVars, vars
<1>2. ASSUME NEW d \in Clients, Ask(d) \/ Request(d) \/ GiveUp(d)
      PROVE  \/ \E e \in entry : e.height = asked[c] /\ answer'[c] = e.value
             \/ phase[c] = "last" /\ answer'[c].first = computing
  <2>1. CASE ServeCached(d)
    BY <2>1 DEF ServeCached, Hits, StatsInv, TypeOK
  <2>2. CASE LastQuery(d)
    BY <2>2 DEF LastQuery, StatsInv, TypeOK
  <2>3. CASE Ask(d) \/ Enqueue(d) \/ Miss(d) \/ FirstQuery(d) \/ GiveUp(d)
    BY <2>3 DEF Ask, Enqueue, Miss, FirstQuery, GiveUp
  <2> QED
    BY <1>2, <2>1, <2>2, <2>3 DEF Request
<1> QED
  BY <1>1, <1>2 DEF Next

\* An answer of the statistics misses less than a batch of the blocks that were
\* announced when it was asked for.
THEOREM StatsMissLessThanABatch == Spec => AnswerMissesLessThanABatch
<1>1. StatsInv /\ [Next]_vars =>
        \A c \in Clients : answer'[c] # answer[c] =>
          Between(answer'[c].first, asked[c]) < CommitBatch
  BY WhoAnswers DEF StatsInv, LeadInv
<1> QED
  BY <1>1, StatsAlways, PTL DEF Spec, AnswerMissesLessThanABatch

\* No answer is older than one that was given before it, to whomever.
THEOREM StatsNeverGoBack == Spec => AnswersNeverGoBack
<1>1. StatsInv /\ [Next]_vars =>
        \A c \in Clients : answer'[c] # answer[c] =>
          \A d \in Clients : answer'[c].first >= answer[d].first
  <2> SUFFICES ASSUME StatsInv, [Next]_vars, NEW c \in Clients, answer'[c] # answer[c],
                      NEW d \in Clients
               PROVE  answer[d].first <= answer'[c].first
    BY DEF StatsInv, TypeOK, Value
  <2> QED
    BY WhoAnswers DEF StatsInv, AgeInv
<1> QED
  BY <1>1, StatsAlways, PTL DEF Spec, AnswersNeverGoBack

------------------------------------------------------------------------------
\* A stored fingerprint vouches for the schema around it, a schema about to be
\* stamped is complete and empty, and a careful process that rebuilds finds
\* nothing to lose.
SchemaInv ==
  /\ SchemaTypeOK
  /\ stamp # NoStamp => schema = stamp
  /\ pc = "syncing" => stamp = build
  /\ pc = "stamping" => schema = build /\ stamp = NoStamp
  /\ pc = "applying" /\ noAutoUpdate => stamp = NoStamp

LEMMA SchemaInitInv == SchemaInit => SchemaInv
BY SchemaAssumption DEF SchemaInit, SchemaInv, SchemaTypeOK

\* Every step preserves SchemaInv.
LEMMA SchemaStepInv == SchemaInv /\ [SchemaNext]_schemaVars => SchemaInv'
<1> SUFFICES ASSUME SchemaInv, [SchemaNext]_schemaVars PROVE SchemaInv'
  OBVIOUS
<1> USE SchemaAssumption DEF SchemaInv, SchemaTypeOK
<1>1. CASE Launch
  BY <1>1 DEF Launch
<1>2. CASE UpToDate
  BY <1>2 DEF UpToDate, Matches
<1>3. CASE Refuse
  BY <1>3 DEF Refuse
<1>4. CASE Rebuild
  BY <1>4 DEF Rebuild, Refuses
<1>5. CASE Apply
  BY <1>5 DEF Apply, Drop
<1>6. CASE ApplyFails
  BY <1>6 DEF ApplyFails, Drop
<1>7. CASE Stamp
  BY <1>7 DEF Stamp
<1>8. CASE StampFails
  BY <1>8 DEF StampFails
<1>9. CASE IndexBlock
  BY <1>9 DEF IndexBlock
<1>10. CASE Exit
  BY <1>10 DEF Exit
<1>11. CASE UNCHANGED schemaVars
  BY <1>11 DEF schemaVars
<1> QED
  BY <1>1, <1>2, <1>3, <1>4, <1>5, <1>6, <1>7, <1>8, <1>9, <1>10, <1>11 DEF SchemaNext

LEMMA SchemaAlways == SchemaSpec => []SchemaInv
BY SchemaInitInv, SchemaStepInv, PTL DEF SchemaSpec

\* The state always has its shape, and there are blocks only in a schema whose
\* fingerprint is stored.
THEOREM SchemaTypes == SchemaSpec => []SchemaTypeOK
BY SchemaAlways, PTL DEF SchemaInv

\* Whatever builds ran and failed before it, a process syncs on a complete
\* schema of its own DDL.
THEOREM SyncsOnItsOwn == SchemaSpec => []SyncsOnItsOwnSchema
<1>1. SchemaInv => SyncsOnItsOwnSchema
  BY SchemaAssumption DEF SchemaInv, SchemaTypeOK, SyncsOnItsOwnSchema
<1> QED
  BY <1>1, SchemaAlways, PTL

\* Whatever builds ran and failed before it, a process with no_auto_update_ddl
\* drops no indexed block.
THEOREM CarefulKeeps == SchemaSpec => CarefulKeepsBlocks
<1> DEFINE Kept == noAutoUpdate /\ pc # "down" => blocks' >= blocks
<1>1. ASSUME SchemaInv, SchemaNext PROVE Kept
  <2> USE SchemaAssumption DEF SchemaInv, SchemaTypeOK
  <2>1. CASE Apply
    BY <1>1, <2>1 DEF Apply, Drop
  <2>2. CASE ApplyFails
    BY <1>1, <2>2 DEF ApplyFails, Drop
  <2>3. CASE IndexBlock
    BY <1>1, <2>3 DEF IndexBlock
  <2>4. CASE Launch \/ UpToDate \/ Refuse \/ Rebuild \/ Stamp \/ StampFails \/ Exit
    <3>1. blocks' = blocks
      BY <2>4 DEF Launch, UpToDate, Refuse, Rebuild, Stamp, StampFails, Exit
    <3> QED
      BY <1>1, <3>1
  <2> QED
    BY <1>1, <2>1, <2>2, <2>3, <2>4 DEF SchemaNext
<1>2. SchemaInv /\ [SchemaNext]_schemaVars => [Kept]_schemaVars
  BY <1>1
<1> QED
  BY <1>2, SchemaAlways, PTL DEF SchemaSpec, CarefulKeepsBlocks

\* A path begins with its prefixes, and two of one length are the same.
LEMMA PrefixIs ==
  ASSUME NEW p \in Seq(KeyNames), NEW q \in Seq(KeyNames)
  PROVE  /\ IsPrefix(q, p) <=> Len(q) <= Len(p) /\ \A i \in 1 .. Len(q) : q[i] = p[i]
         /\ IsPrefix(q, p) /\ Len(q) = Len(p) => q = p
<1>1. ASSUME IsPrefix(q, p), NEW i \in 1 .. Len(q) PROVE q[i] = p[i]
  <2>1. SubSeq(q, 1, Len(q))[i] = q[i] /\ SubSeq(p, 1, Len(q))[i] = p[i]
    BY <1>1 DEF IsPrefix
  <2> QED
    BY <1>1, <2>1 DEF IsPrefix
<1>2. ASSUME Len(q) <= Len(p), \A i \in 1 .. Len(q) : q[i] = p[i] PROVE IsPrefix(q, p)
  BY <1>2 DEF IsPrefix
<1>3. ASSUME IsPrefix(q, p), Len(q) = Len(p) PROVE q = p
  BY <1>1, <1>3
<1> QED
  BY <1>1, <1>2, <1>3 DEF IsPrefix

\* Of two prefixes of a path, one is a prefix of the other.
LEMMA PrefixesCompare ==
  ASSUME NEW p \in Seq(KeyNames), NEW q \in Seq(KeyNames), NEW r \in Seq(KeyNames),
         IsPrefix(q, p), IsPrefix(r, p)
  PROVE  IsPrefix(q, r) \/ IsPrefix(r, q)
BY PrefixIs

\* A sequence with an element more, and one without its last.
LEMMA AppendIn == ASSUME NEW S, NEW s \in Seq(S), NEW e \in S PROVE Append(s, e) \in Seq(S)
OBVIOUS

LEMMA AppendAt ==
  ASSUME NEW S, NEW s \in Seq(S), NEW e \in S
  PROVE  /\ Len(Append(s, e)) = Len(s) + 1 /\ Append(s, e)[Len(s) + 1] = e
         /\ \A i \in 1 .. Len(s) : Append(s, e)[i] = s[i]
OBVIOUS

LEMMA FrontLength ==
  ASSUME NEW S, NEW s \in Seq(S), s # <<>>
  PROVE  Len(SubSeq(s, 1, Len(s) - 1)) = Len(s) - 1
<1>1. Len(s) \in Nat \ {0}
  OBVIOUS
<1>2. PICK m \in Nat : m = Len(s) - 1
  BY <1>1
<1>3. Len(SubSeq(s, 1, m)) = m
  BY <1>2
<1> QED
  BY <1>2, <1>3

\* A path with a key more, and a path without its last.
LEMMA EntryIs ==
  ASSUME NEW p \in Seq(KeyNames), NEW k \in KeyNames
  PROVE  /\ Append(p, k) \in Seq(KeyNames) \ {<<>>} /\ Append(p, k) # p
         /\ Front(Append(p, k)) = p /\ Last(Append(p, k)) = k
         /\ IsPrefix(p, Append(p, k)) /\ Len(Append(p, k)) = Len(p) + 1
<1> DEFINE q == Append(p, k)
<1>1. Len(p) \in Nat
  OBVIOUS
<1>a. /\ q \in Seq(KeyNames) /\ Len(q) = Len(p) + 1
      /\ q[Len(p) + 1] = k /\ \A i \in 1 .. Len(p) : q[i] = p[i]
  BY AppendIn, AppendAt
<1> HIDE DEF q
<1>2. q # <<>> /\ q # p
  BY <1>1, <1>a
<1>3. Front(q) = p
  BY <1>1, <1>a DEF Front
<1>4. IsPrefix(p, q)
  BY <1>1, <1>a, PrefixIs
<1> QED
  BY <1>1, <1>a, <1>2, <1>3, <1>4 DEF q, Last

LEMMA FrontIs ==
  ASSUME NEW p \in Seq(KeyNames), p # <<>>
  PROVE  /\ Front(p) \in Seq(KeyNames) /\ Last(p) \in KeyNames /\ p = Append(Front(p), Last(p))
         /\ IsPrefix(Front(p), p) /\ Front(p) # p /\ Len(p) = Len(Front(p)) + 1
<1>1. Len(p) \in Nat \ {0}
  OBVIOUS
<1>2. Front(p) \in Seq(KeyNames)
  BY <1>1 DEF Front
<1>3. Len(Front(p)) = Len(p) - 1 /\ \A i \in 1 .. Len(p) - 1 : Front(p)[i] = p[i]
  <2>1. Len(SubSeq(p, 1, Len(p) - 1)) = Len(p) - 1
    BY FrontLength
  <2>2. \A i \in 1 .. Len(p) - 1 : SubSeq(p, 1, Len(p) - 1)[i] = p[i]
    BY <1>1
  <2> QED
    BY <1>1, <2>1, <2>2 DEF Front
<1>4. Last(p) \in KeyNames /\ Last(p) = p[Len(p)]
  BY <1>1 DEF Last
<1> DEFINE q == Append(Front(p), Last(p))
<1>5. /\ q \in Seq(KeyNames) /\ Len(q) = Len(p) /\ q[Len(p)] = p[Len(p)]
      /\ \A i \in 1 .. Len(p) - 1 : q[i] = p[i]
  BY <1>1, <1>2, <1>3, <1>4, AppendIn, AppendAt
<1> HIDE DEF q
<1>6. q = p
  BY <1>1, <1>5
<1> QED
  BY <1>1, <1>2, <1>3, <1>4, <1>6, PrefixIs DEF q

LEMMA PrefixSelf ==
  ASSUME NEW p \in Seq(KeyNames) PROVE IsPrefix(p, p) /\ IsPrefix(<<>>, p)
<1>1. IsPrefix(p, p)
  BY PrefixIs
<1>2. <<>> \in Seq(KeyNames) /\ Len(<<>>) = 0 /\ Len(p) \in Nat
  OBVIOUS
<1>3. Len(<<>>) <= Len(p) /\ \A i \in 1 .. Len(<<>>) : (<<>>)[i] = p[i]
  BY <1>2
<1>4. IsPrefix(<<>>, p)
  BY <1>2, <1>3, PrefixIs
<1> QED
  BY <1>1, <1>4

\* An entry of a map of scalars.
IsEntry(p) == p # <<>> /\ Front(p) \in ScalarMaps

\* A path that the schema knows.
KnownPath(p) == p \in DOMAIN Fields \/ p \in Sections \cup {<<>>} \/ IsEntry(p)

LEMMA SettingsFacts ==
  /\ DOMAIN Fields \subseteq Seq(KeyNames) \ {<<>>} /\ ScalarMaps \subseteq DOMAIN Fields
  /\ \A p, q \in DOMAIN Fields : IsPrefix(p, q) => p = q
BY SettingsAssumption DEF Paths

\* A section is above a field.
LEMMA SectionIs ==
  ASSUME NEW p \in Sections \cup {<<>>}
  PROVE  /\ p \in Seq(KeyNames)
         /\ p # <<>> => \E f \in DOMAIN Fields : IsPrefix(p, f) /\ Len(p) < Len(f)
<1>1. CASE p \in Sections
  <2>1. PICK f \in DOMAIN Fields : p \in {SubSeq(f, 1, n) : n \in 0 .. Len(f) - 1}
    BY <1>1 DEF Sections, Above
  <2>2. PICK n \in 0 .. Len(f) - 1 : p = SubSeq(f, 1, n)
    BY <2>1
  <2>3. f \in Seq(KeyNames)
    BY SettingsFacts
  <2>4. p \in Seq(KeyNames) /\ Len(p) = n /\ \A i \in 1 .. n : p[i] = f[i]
    BY <2>2, <2>3
  <2>5. Len(p) < Len(f)
    BY <2>3, <2>4
  <2>6. IsPrefix(p, f)
    BY <2>3, <2>4, <2>5, PrefixIs
  <2> QED
    BY <2>4, <2>5, <2>6
<1>2. CASE p = <<>>
  BY <1>2
<1> QED
  BY <1>1, <1>2

\* A field, a section and an entry are different things.
LEMMA KindsApart ==
  ASSUME NEW p
  PROVE  /\ ~(p \in DOMAIN Fields /\ p \in Sections \cup {<<>>})
         /\ p \in Seq(KeyNames) => ~(p \in DOMAIN Fields /\ IsEntry(p))
         /\ p \in Seq(KeyNames) => ~(p \in Sections \cup {<<>>} /\ IsEntry(p))
<1>1. ASSUME p \in DOMAIN Fields, p \in Sections \cup {<<>>} PROVE FALSE
  <2>1. PICK f \in DOMAIN Fields : IsPrefix(p, f) /\ Len(p) < Len(f)
    BY <1>1, SectionIs, SettingsFacts
  <2>2. p = f
    BY <1>1, <2>1, SettingsFacts
  <2>3. Len(f) \in Nat
    BY SettingsFacts
  <2> QED
    BY <2>1, <2>2, <2>3
<1>2. ASSUME p \in Seq(KeyNames), IsEntry(p)
      PROVE  Front(p) \in DOMAIN Fields /\ IsPrefix(Front(p), p) /\ Front(p) # p /\ Front(p) \in Seq(KeyNames)
  BY <1>2, FrontIs, SettingsFacts DEF IsEntry
<1>3. ASSUME p \in Seq(KeyNames), p \in DOMAIN Fields, IsEntry(p) PROVE FALSE
  BY <1>2, <1>3, SettingsFacts
<1>4. ASSUME p \in Seq(KeyNames), p \in Sections \cup {<<>>}, IsEntry(p) PROVE FALSE
  <2>1. PICK f \in DOMAIN Fields : IsPrefix(p, f) /\ Len(p) < Len(f)
    BY <1>4, SectionIs DEF IsEntry
  <2>2. IsPrefix(Front(p), f) /\ f \in Seq(KeyNames)
    BY <1>2, <1>4, <2>1, PrefixIs, SettingsFacts
  <2>3. Front(p) = f
    BY <1>2, <1>4, <2>2, SettingsFacts
  <2> QED
    BY <1>2, <1>4, <2>1, <2>2, <2>3, PrefixIs
<1> QED
  BY <1>1, <1>3, <1>4

\* Nothing that the schema knows lies below a value.
LEMMA NothingBelow ==
  ASSUME NEW p \in Seq(KeyNames), NEW q \in Seq(KeyNames), KnownPath(p), IsPrefix(q, p),
         (q \in DOMAIN Fields /\ q \notin ScalarMaps) \/ IsEntry(q)
  PROVE  q = p
<1> DEFINE root == IF IsEntry(q) THEN Front(q) ELSE q
<1>1. root \in DOMAIN Fields /\ root \in Seq(KeyNames) /\ IsPrefix(root, q) /\ IsPrefix(root, p)
  <2>1. CASE IsEntry(q)
    <3>1. root \in DOMAIN Fields /\ root \in Seq(KeyNames) /\ IsPrefix(root, q)
      BY <2>1, FrontIs, SettingsFacts DEF IsEntry
    <3> HIDE DEF root
    <3> QED
      BY <3>1, PrefixIs
  <2>2. CASE ~IsEntry(q)
    BY <2>2, PrefixSelf
  <2> QED
    BY <2>1, <2>2
<1>2. CASE p \in DOMAIN Fields
  <2>1. root = p
    BY <1>1, <1>2, SettingsFacts
  <2> QED
    BY <1>1, <2>1, PrefixIs
<1>3. CASE p \in Sections \cup {<<>>}
  <2>1. q # <<>>
    BY SettingsFacts DEF IsEntry
  <2>2. p # <<>>
    BY <2>1, PrefixIs
  <2>3. PICK f \in DOMAIN Fields : IsPrefix(p, f) /\ Len(p) < Len(f)
    BY <1>3, <2>2, SectionIs
  <2>4. f \in Seq(KeyNames) /\ IsPrefix(root, f)
    BY <1>1, <2>3, PrefixIs, SettingsFacts
  <2>5. root = f
    BY <1>1, <2>4, SettingsFacts
  <2> QED
    BY <1>1, <2>3, <2>4, <2>5, PrefixIs
<1>4. CASE IsEntry(p)
  <2>1. Front(p) \in DOMAIN Fields /\ Front(p) \in Seq(KeyNames) /\ IsPrefix(Front(p), p)
        /\ Len(p) = Len(Front(p)) + 1
    BY <1>4, FrontIs, SettingsFacts DEF IsEntry
  <2>2. root = Front(p)
    BY <1>1, <2>1, PrefixesCompare, SettingsFacts
  <2>3. IsEntry(q)
    BY <1>4, <2>2 DEF IsEntry
  <2>4. Len(q) = Len(root) + 1
    BY <2>3, FrontIs DEF IsEntry
  <2> QED
    BY <2>1, <2>2, <2>4, PrefixIs
<1> QED
  BY <1>2, <1>3, <1>4 DEF KnownPath

------------------------------------------------------------------------------
(* Trees *)

LEMMA LayerTree ==
  ASSUME NEW tree, IsTree(tree)
  PROVE  /\ DOMAIN tree \subseteq Seq(KeyNames) /\ <<>> \in DOMAIN tree
         /\ \A p \in DOMAIN tree \ {<<>>} : Front(p) \in DOMAIN tree
BY DEF IsTree

\* The keys of a path are those of its entries.
LEMMA KeysIs ==
  ASSUME NEW tree, DOMAIN tree \subseteq Seq(KeyNames), NEW path \in Seq(KeyNames)
  PROVE  /\ Keys(tree, path) \subseteq KeyNames
         /\ \A k \in KeyNames : k \in Keys(tree, path) <=> Append(path, k) \in DOMAIN tree
<1>1. ASSUME NEW k \in Keys(tree, path)
      PROVE  k \in KeyNames /\ Append(path, k) \in DOMAIN tree
  <2>1. PICK p \in DOMAIN tree \ {<<>>} : Front(p) = path /\ k = Last(p)
    BY <1>1 DEF Keys
  <2> QED
    BY <2>1, FrontIs
<1>2. ASSUME NEW k \in KeyNames, Append(path, k) \in DOMAIN tree PROVE k \in Keys(tree, path)
  BY <1>2, EntryIs DEF Keys
<1> QED
  BY <1>1, <1>2

\* A tree that fits has a value where the schema has one, and what the schema
\* knows elsewhere.
LEMMA FitsIs ==
  ASSUME NEW tree, DOMAIN tree \subseteq Seq(KeyNames), Fits(tree), NEW p \in DOMAIN tree
  PROVE  /\ KnownPath(p)
         /\ p \in DOMAIN Fields => Typed(Fields[p], tree, p)
         /\ p \in Sections \cup {<<>>} => IsObject(tree[p])
         /\ ~IsObject(tree[p]) => (p \in DOMAIN Fields /\ p \notin ScalarMaps) \/ IsEntry(p)
         /\ p \in DOMAIN Fields => (IsObject(tree[p]) <=> p \in ScalarMaps)
<1>1. \/ p \in DOMAIN Fields /\ Typed(Fields[p], tree, p)
      \/ p \in Sections \cup {<<>>} /\ IsObject(tree[p])
      \/ IsEntry(p)
  BY DEF Fits, IsEntry
<1>2. p \in DOMAIN Fields => Typed(Fields[p], tree, p)
  BY <1>1, KindsApart
<1>3. p \in Sections \cup {<<>>} => IsObject(tree[p])
  BY <1>1, KindsApart
<1>4. ASSUME p \in DOMAIN Fields PROVE IsObject(tree[p]) <=> p \in ScalarMaps
  <2>1. Fields[p] \in FieldTypes /\ (p \in ScalarMaps <=> Fields[p] = "map")
    BY <1>4, SettingsAssumption
  <2> QED
    BY <1>2, <1>4, <2>1 DEF Typed, IsObject, FieldTypes
<1> QED
  BY <1>1, <1>2, <1>3, <1>4 DEF KnownPath

\* Of two trees that fit, the one is laid over the other path by path.
LEMMA MergeIs ==
  ASSUME NEW base, NEW overlay, DOMAIN base \subseteq Seq(KeyNames),
         DOMAIN overlay \subseteq Seq(KeyNames), Fits(base), Fits(overlay)
  PROVE  /\ DOMAIN Merge(base, overlay) = DOMAIN base \cup DOMAIN overlay
         /\ \A p \in DOMAIN base \cup DOMAIN overlay :
              Merge(base, overlay)[p] = IF p \in DOMAIN overlay THEN overlay[p] ELSE base[p]
<1> DEFINE kept == {p \in DOMAIN base : \A q \in DOMAIN overlay : IsPrefix(q, p) => IsObject(overlay[q])}
<1>1. ASSUME NEW p \in DOMAIN base, p \notin DOMAIN overlay PROVE p \in kept
  <2>1. SUFFICES ASSUME NEW q \in DOMAIN overlay, IsPrefix(q, p), ~IsObject(overlay[q]) PROVE FALSE
    BY <1>1
  <2>2. (q \in DOMAIN Fields /\ q \notin ScalarMaps) \/ IsEntry(q)
    BY <2>1, FitsIs
  <2>3. KnownPath(p)
    BY <1>1, FitsIs
  <2>4. q = p
    BY <1>1, <2>1, <2>2, <2>3, NothingBelow
  <2> QED
    BY <1>1, <2>4
<1>2. kept \cup DOMAIN overlay = DOMAIN base \cup DOMAIN overlay
  BY <1>1
<1>3. Merge(base, overlay)
        = [p \in kept \cup DOMAIN overlay |-> IF p \in DOMAIN overlay THEN overlay[p] ELSE base[p]]
  BY DEF Merge
<1> HIDE DEF kept
<1> QED
  BY <1>2, <1>3

------------------------------------------------------------------------------
(* Layers *)

\* The first files are objects that would do alone.
SoundTo(n) == \A i \in 1 .. n : files[i] # NotAnObject /\ Fits(files[i])

FilesOK == files \in Seq(Contents \cup {NotAnObject})

\* Every path of a tree is as in the last of the first layers that has it.
MergedIs(tree, n) ==
  /\ \A p : p \in DOMAIN tree <=> \E i \in 0 .. n : p \in DOMAIN Layer(i)
  /\ \A p \in DOMAIN tree : \E i \in 0 .. n :
       /\ p \in DOMAIN Layer(i) /\ \A j \in i + 1 .. n : p \notin DOMAIN Layer(j)
       /\ tree[p] = Layer(i)[p]

\* The layers below a point of the list are trees that fit.
LEMMA LayersFit ==
  ASSUME FilesOK, NEW n \in 0 .. Len(files), SoundTo(n), NEW i \in 0 .. n
  PROVE  IsTree(Layer(i)) /\ Fits(Layer(i))
<1>1. CASE i = 0
  BY <1>1, DefaultsAssumption DEF Layer
<1>2. CASE i # 0
  <2>1. i \in 1 .. n /\ files[i] \in Contents
    BY <1>2 DEF SoundTo, FilesOK
  <2> QED
    BY <1>2, <2>1, ConfigAssumption DEF SoundTo, Layer
<1> QED
  BY <1>1, <1>2

LEMMA MergedFits ==
  ASSUME FilesOK, NEW n \in 0 .. Len(files), SoundTo(n), NEW tree, MergedIs(tree, n)
  PROVE  DOMAIN tree \subseteq Seq(KeyNames) /\ Fits(tree) /\ DOMAIN Fields \subseteq DOMAIN tree
<1>1. \A i \in 0 .. n : IsTree(Layer(i)) /\ Fits(Layer(i))
  BY LayersFit
<1>2. ASSUME NEW i \in 0 .. n
      PROVE  DOMAIN Layer(i) \subseteq Seq(KeyNames)
             /\ \A p \in DOMAIN Layer(i) \ {<<>>} : Front(p) \in DOMAIN Layer(i)
  BY <1>1, LayerTree
<1>3. DOMAIN tree \subseteq Seq(KeyNames)
  BY <1>2 DEF MergedIs
<1>4. DOMAIN Fields \subseteq DOMAIN tree
  <2>1. DOMAIN Fields \subseteq DOMAIN Layer(0) /\ 0 \in 0 .. n
    BY DefaultsAssumption DEF Layer
  <2> QED
    BY <2>1 DEF MergedIs
<1>5. ASSUME NEW p \in DOMAIN tree
      PROVE  \/ p \in DOMAIN Fields /\ Typed(Fields[p], tree, p)
             \/ p \in Sections \cup {<<>>} /\ IsObject(tree[p])
             \/ IsEntry(p)
  <2>1. PICK i \in 0 .. n : p \in DOMAIN Layer(i) /\ tree[p] = Layer(i)[p]
    BY DEF MergedIs
  <2>2. /\ KnownPath(p)
        /\ p \in DOMAIN Fields => Typed(Fields[p], Layer(i), p)
        /\ p \in Sections \cup {<<>>} => IsObject(Layer(i)[p])
    BY <1>1, <1>2, <2>1, FitsIs
  <2>3. ASSUME p \in DOMAIN Fields PROVE Typed(Fields[p], tree, p)
    <3>1. Fields[p] \in FieldTypes /\ Typed(Fields[p], Layer(i), p)
      BY <2>2, <2>3, SettingsAssumption
    <3>2. CASE Fields[p] # "map"
      BY <2>1, <3>1, <3>2 DEF Typed, FieldTypes
    <3>3. CASE Fields[p] = "map"
      <4>1. ASSUME NEW k \in Keys(tree, p) PROVE tree[Append(p, k)][1] = "bool"
        <5>1. k \in KeyNames /\ Append(p, k) \in DOMAIN tree
          BY <1>3, <4>1, KeysIs
        <5>2. PICK j \in 0 .. n : Append(p, k) \in DOMAIN Layer(j) /\ tree[Append(p, k)] = Layer(j)[Append(p, k)]
          BY <5>1 DEF MergedIs
        <5>3. p \in DOMAIN Layer(j)
          <6>1. Append(p, k) # <<>> /\ Front(Append(p, k)) = p
            BY <1>3, <5>1, EntryIs
          <6>2. \A q \in DOMAIN Layer(j) \ {<<>>} : Front(q) \in DOMAIN Layer(j)
            BY <1>2
          <6> QED
            BY <5>2, <6>1, <6>2
        <5>4. Typed("map", Layer(j), p)
          BY <1>1, <1>2, <2>3, <3>3, <5>3, FitsIs
        <5>5. k \in Keys(Layer(j), p)
          BY <1>2, <1>3, <5>1, <5>2, KeysIs
        <5> QED
          BY <5>2, <5>4, <5>5 DEF Typed
      <4> QED
        BY <2>1, <3>1, <3>3, <4>1 DEF Typed
    <3> QED
      BY <3>2, <3>3
  <2> QED
    BY <2>1, <2>2, <2>3 DEF KnownPath
<1>6. Fits(tree)
  BY <1>5 DEF Fits, IsEntry
<1> QED
  BY <1>3, <1>4, <1>6

\* The next file that would do alone is one layer more.
LEMMA MergedNext ==
  ASSUME FilesOK, NEW n \in 0 .. Len(files) - 1, SoundTo(n + 1), NEW tree, MergedIs(tree, n)
  PROVE  MergedIs(Merge(tree, files[n + 1]), n + 1)
<1> DEFINE overlay == files[n + 1]
<1>1. n \in 0 .. Len(files) /\ n + 1 \in 0 .. Len(files) /\ SoundTo(n) /\ Len(files) \in Nat
  BY DEF FilesOK, SoundTo
<1>2. DOMAIN tree \subseteq Seq(KeyNames) /\ Fits(tree)
  BY <1>1, MergedFits
<1>3. overlay = Layer(n + 1)
  BY <1>1 DEF Layer
<1>4. IsTree(overlay) /\ Fits(overlay)
  BY <1>1, <1>3, LayersFit
<1>5. DOMAIN overlay \subseteq Seq(KeyNames)
  BY <1>4, LayerTree
<1> HIDE DEF overlay
<1> DEFINE over == Merge(tree, overlay)
<1>6. /\ DOMAIN over = DOMAIN tree \cup DOMAIN overlay
      /\ \A p \in DOMAIN tree \cup DOMAIN overlay :
           over[p] = IF p \in DOMAIN overlay THEN overlay[p] ELSE tree[p]
  BY <1>2, <1>4, <1>5, MergeIs
<1> HIDE DEF over
<1>7. \A p : p \in DOMAIN over <=> \E i \in 0 .. n + 1 : p \in DOMAIN Layer(i)
  <2>1. \A i : i \in 0 .. n + 1 <=> i \in 0 .. n \/ i = n + 1
    BY <1>1
  <2> QED
    BY <1>3, <1>6, <2>1 DEF MergedIs
<1>8. ASSUME NEW p \in DOMAIN over
      PROVE  \E i \in 0 .. n + 1 : /\ p \in DOMAIN Layer(i)
                                   /\ \A j \in i + 1 .. n + 1 : p \notin DOMAIN Layer(j)
                                   /\ over[p] = Layer(i)[p]
  <2>1. CASE p \in DOMAIN overlay
    <3>1. n + 1 \in 0 .. n + 1 /\ \A j \in (n + 1) + 1 .. n + 1 : FALSE
      BY <1>1
    <3> QED
      BY <1>3, <1>6, <2>1, <3>1
  <2>2. CASE p \notin DOMAIN overlay
    <3>1. PICK i \in 0 .. n : /\ p \in DOMAIN Layer(i) /\ \A j \in i + 1 .. n : p \notin DOMAIN Layer(j)
                              /\ tree[p] = Layer(i)[p]
      BY <1>6, <2>2 DEF MergedIs
    <3>2. i \in 0 .. n + 1 /\ \A j \in i + 1 .. n + 1 : j \in i + 1 .. n \/ j = n + 1
      BY <1>1
    <3> QED
      BY <1>3, <1>6, <2>2, <3>1, <3>2
  <2> QED
    BY <2>1, <2>2
<1> QED
  BY <1>7, <1>8 DEF MergedIs, over, overlay

------------------------------------------------------------------------------
(* Variables *)

\* In a tree that has all settings, the leaves with a variable are the settings with one.
LEMMA CollectIs ==
  ASSUME NEW tree, DOMAIN tree \subseteq Seq(KeyNames), Fits(tree), DOMAIN Fields \subseteq DOMAIN tree
  PROVE  Collect(tree) = DOMAIN Fields \cap DOMAIN environment
<1>1. ASSUME NEW p \in Collect(tree), p \notin DOMAIN Fields PROVE FALSE
  <2>1. /\ p \in DOMAIN tree
        /\ p \in ScalarMaps \/ ~IsObject(tree[p])
        /\ \A m \in ScalarMaps : IsPrefix(m, p) => m = p
    BY <1>1 DEF Collect
  <2>2. ~IsObject(tree[p])
    BY <1>1, <2>1, SettingsFacts
  <2>3. IsEntry(p)
    BY <1>1, <2>1, <2>2, FitsIs
  <2>4. p \in Seq(KeyNames) /\ p # <<>> /\ Front(p) \in ScalarMaps
    BY <2>1, <2>3 DEF IsEntry
  <2>5. IsPrefix(Front(p), p) /\ Front(p) # p
    BY <2>4, FrontIs
  <2> QED
    BY <2>1, <2>4, <2>5
<1>2. ASSUME NEW p \in DOMAIN Fields, p \in DOMAIN environment PROVE p \in Collect(tree)
  <2>1. p \in DOMAIN tree /\ (p \in ScalarMaps \/ ~IsObject(tree[p]))
    BY FitsIs
  <2>2. \A m \in ScalarMaps : IsPrefix(m, p) => m = p
    BY SettingsFacts
  <2> QED
    BY <1>2, <2>1, <2>2 DEF Collect
<1>3. Collect(tree) \subseteq DOMAIN environment
  BY DEF Collect
<1> QED
  BY <1>1, <1>2, <1>3

\* What a variable may spell.
LEMMA SpelledMaps ==
  ASSUME NEW raw \in DOMAIN AsMap
  PROVE  DOMAIN AsMap[raw] \subseteq KeyNames /\ AsMap[raw] = [k \in DOMAIN AsMap[raw] |-> AsMap[raw][k]]
<1>1. AsMap[raw] = [k \in {"BSC"} |-> TRUE]
  BY DEF AsMap
<1>2. DOMAIN AsMap[raw] \subseteq KeyNames
  BY ConfigAssumption
<1>3. AsMap[raw] = [k \in DOMAIN AsMap[raw] |-> AsMap[raw][k]]
  BY <1>1
<1> QED
  BY <1>2, <1>3

\* A tree that the environment can be applied to.
Appliable(tree) ==
  /\ DOMAIN tree \subseteq Seq(KeyNames) /\ Fits(tree) /\ DOMAIN Fields \subseteq DOMAIN tree
  /\ \A p \in DOMAIN Fields \cap DOMAIN environment : Coercible(p, tree[p], environment[p])

\* The settings that a variable sets, and what is written for one.
Assigned == DOMAIN Fields \cap DOMAIN environment
Written(tree, p) == Coerce(p, tree[p], environment[p])

\* What is written for a setting lies at it, and for a map at its entries.
LEMMA WrittenIs ==
  ASSUME NEW tree, Appliable(tree), NEW p \in Assigned
  PROVE  /\ p \notin ScalarMaps => DOMAIN Written(tree, p) = {p}
         /\ p \in ScalarMaps =>
              /\ environment[p] \in DOMAIN AsMap
              /\ DOMAIN Written(tree, p) = {p} \cup {Append(p, k) : k \in DOMAIN AsMap[environment[p]]}
              /\ Written(tree, p)[p] = Object
              /\ \A k \in DOMAIN AsMap[environment[p]] :
                   Written(tree, p)[Append(p, k)] = Bool(AsMap[environment[p]][k])
<1>1. p \in DOMAIN Fields /\ p \in Seq(KeyNames) /\ Coercible(p, tree[p], environment[p])
  BY SettingsFacts DEF Assigned, Appliable
<1>2. ASSUME p \notin ScalarMaps PROVE DOMAIN Written(tree, p) = {p}
  BY <1>2 DEF Written, Coerce
<1>3. ASSUME p \in ScalarMaps
      PROVE  /\ environment[p] \in DOMAIN AsMap
             /\ DOMAIN Written(tree, p) = {p} \cup {Append(p, k) : k \in DOMAIN AsMap[environment[p]]}
             /\ Written(tree, p)[p] = Object
             /\ \A k \in DOMAIN AsMap[environment[p]] :
                  Written(tree, p)[Append(p, k)] = Bool(AsMap[environment[p]][k])
  <2> DEFINE map == AsMap[environment[p]]
             at == {p} \cup {Append(p, k) : k \in DOMAIN map}
  <2>1. environment[p] \in DOMAIN AsMap
    BY <1>1, <1>3 DEF Coercible
  <2>2. Written(tree, p) = [q \in at |-> IF q = p THEN Object ELSE Bool(map[Last(q)])]
    BY <1>3 DEF Written, Coerce
  <2>3. DOMAIN map \subseteq KeyNames
    BY <2>1, SpelledMaps
  <2> HIDE DEF map
  <2>4. ASSUME NEW k \in DOMAIN map PROVE Written(tree, p)[Append(p, k)] = Bool(map[k])
    <3>1. Append(p, k) # p /\ Last(Append(p, k)) = k /\ Append(p, k) \in at
      BY <1>1, <2>3, EntryIs
    <3> QED
      BY <2>2, <3>1
  <2>5. DOMAIN Written(tree, p) = at /\ Written(tree, p)[p] = Object
    BY <2>2
  <2> QED
    BY <2>1, <2>4, <2>5 DEF map
<1> QED
  BY <1>2, <1>3

LEMMA WrittenBelow ==
  ASSUME NEW tree, Appliable(tree), NEW p \in Assigned, NEW q \in DOMAIN Written(tree, p)
  PROVE  /\ q \in Seq(KeyNames) /\ IsPrefix(p, q) /\ p \in DOMAIN Written(tree, p)
         /\ q = p \/ (IsEntry(q) /\ Front(q) = p /\ p \in ScalarMaps)
<1>1. p \in Seq(KeyNames)
  BY SettingsFacts DEF Assigned
<1>2. CASE p \notin ScalarMaps
  <2>1. DOMAIN Written(tree, p) = {p}
    BY <1>2, WrittenIs
  <2> QED
    BY <1>1, <2>1, PrefixSelf
<1>3. CASE p \in ScalarMaps
  <2>1. /\ environment[p] \in DOMAIN AsMap
        /\ DOMAIN Written(tree, p) = {p} \cup {Append(p, k) : k \in DOMAIN AsMap[environment[p]]}
    BY <1>3, WrittenIs
  <2>2. CASE q = p
    BY <1>1, <2>1, <2>2, PrefixSelf
  <2>3. ASSUME NEW k \in DOMAIN AsMap[environment[p]], q = Append(p, k)
        PROVE  q \in Seq(KeyNames) /\ IsPrefix(p, q) /\ IsEntry(q) /\ Front(q) = p
    <3>1. k \in KeyNames
      BY <2>1, SpelledMaps
    <3> QED
      BY <1>1, <1>3, <2>3, <3>1, EntryIs DEF IsEntry
  <2> QED
    BY <1>3, <2>1, <2>2, <2>3
<1> QED
  BY <1>2, <1>3

\* One setting at most is above a path.
LEMMA OneAbove ==
  ASSUME NEW q \in Seq(KeyNames), NEW p \in DOMAIN Fields, NEW r \in DOMAIN Fields,
         IsPrefix(p, q), IsPrefix(r, q)
  PROVE  p = r
BY PrefixesCompare, SettingsFacts

\* The tree with the variables applied: what is written, and what lies under none of it.
LEMMA OverriddenIs ==
  ASSUME NEW tree, Appliable(tree), NEW over, over = Overridden(tree, Assigned)
  PROVE  /\ \A q \in DOMAIN over : \/ q \in DOMAIN tree /\ \A p \in Assigned : ~IsPrefix(p, q)
                                   \/ \E p \in Assigned : q \in DOMAIN Written(tree, p)
         /\ \A q \in DOMAIN tree : (\A p \in Assigned : ~IsPrefix(p, q)) => q \in DOMAIN over /\ over[q] = tree[q]
         /\ \A p \in Assigned : \A q \in DOMAIN Written(tree, p) :
              q \in DOMAIN over /\ over[q] = Written(tree, p)[q]
         /\ DOMAIN over \subseteq Seq(KeyNames)
<1> DEFINE written == [p \in Assigned |-> Written(tree, p)]
           kept == {q \in DOMAIN tree : \A p \in Assigned : ~IsPrefix(p, q)}
           above(q) == CHOOSE p \in Assigned : IsPrefix(p, q)
           all == kept \cup UNION {DOMAIN written[p] : p \in Assigned}
<1>1. over = [q \in all |-> IF q \in kept THEN tree[q] ELSE written[above(q)][q]]
  BY DEF Overridden, Written
<1>2. \A p \in Assigned : DOMAIN written[p] = DOMAIN Written(tree, p)
  OBVIOUS
<1>3. \A q : q \in all <=> q \in kept \/ \E p \in Assigned : q \in DOMAIN Written(tree, p)
  <2>1. \A q : q \in UNION {DOMAIN written[p] : p \in Assigned} <=> \E p \in Assigned : q \in DOMAIN written[p]
    OBVIOUS
  <2> QED
    BY <1>2, <2>1
<1>4. ASSUME NEW p \in Assigned, NEW q \in DOMAIN Written(tree, p)
      PROVE  q \in Seq(KeyNames) /\ q \in all /\ over[q] = Written(tree, p)[q]
  <2>1. q \in Seq(KeyNames) /\ IsPrefix(p, q)
    BY WrittenBelow
  <2>2. q \notin kept /\ q \in all
    BY <1>3, <2>1
  <2>3. above(q) \in Assigned /\ IsPrefix(above(q), q)
    BY <2>1
  <2>4. above(q) = p
    BY <2>1, <2>3, OneAbove DEF Assigned
  <2> QED
    BY <1>1, <2>1, <2>2, <2>4
<1>5. \A q \in kept : q \in all /\ over[q] = tree[q] /\ q \in Seq(KeyNames)
  BY <1>1 DEF Appliable
<1>6. DOMAIN over = all
  BY <1>1
<1> HIDE DEF all
<1>7. DOMAIN over \subseteq Seq(KeyNames)
  BY <1>3, <1>4, <1>5, <1>6
<1> QED
  BY <1>3, <1>4, <1>5, <1>6, <1>7

\* Where no variable is set, a setting is what it was.
LEMMA UnsetStays ==
  ASSUME NEW tree, Appliable(tree), NEW over, over = Overridden(tree, Assigned),
         NEW p \in DOMAIN Fields \ Assigned
  PROVE  /\ p \in DOMAIN over
         /\ Typed(Fields[p], over, p)
         /\ Decoded(Fields[p], over, p) = Decoded(Fields[p], tree, p)
<1>1. p \in DOMAIN tree /\ p \in Seq(KeyNames) /\ Typed(Fields[p], tree, p) /\ Fields[p] \in FieldTypes
  BY FitsIs, SettingsFacts, SettingsAssumption DEF Appliable
<1>2. \A r \in Assigned : ~IsPrefix(r, p)
  BY SettingsFacts DEF Assigned
<1>3. p \in DOMAIN over /\ over[p] = tree[p] /\ DOMAIN over \subseteq Seq(KeyNames)
  BY <1>1, <1>2, OverriddenIs
<1>4. ASSUME NEW k \in KeyNames
      PROVE  /\ Append(p, k) \in DOMAIN over <=> Append(p, k) \in DOMAIN tree
             /\ Append(p, k) \in DOMAIN tree => over[Append(p, k)] = tree[Append(p, k)]
  <2> DEFINE q == Append(p, k)
  <2>1. q \in Seq(KeyNames) /\ IsPrefix(p, q)
    BY <1>1, EntryIs
  <2> HIDE DEF q
  <2>2. \A r \in Assigned : ~IsPrefix(r, q)
    BY <2>1, OneAbove DEF Assigned
  <2>3. \A r \in Assigned : q \notin DOMAIN Written(tree, r)
    BY <2>2, WrittenBelow
  <2> QED
    BY <2>2, <2>3, OverriddenIs DEF q
<1>5. DOMAIN tree \subseteq Seq(KeyNames)
  BY DEF Appliable
<1>6. Keys(over, p) = Keys(tree, p) /\ Keys(tree, p) \subseteq KeyNames
  <2>1. Keys(over, p) \subseteq KeyNames /\ \A k \in KeyNames : k \in Keys(over, p) <=> Append(p, k) \in DOMAIN over
    BY <1>1, <1>3, KeysIs
  <2>2. Keys(tree, p) \subseteq KeyNames /\ \A k \in KeyNames : k \in Keys(tree, p) <=> Append(p, k) \in DOMAIN tree
    BY <1>1, <1>5, KeysIs
  <2> QED
    BY <1>4, <2>1, <2>2
<1>7. \A k \in Keys(tree, p) : over[Append(p, k)] = tree[Append(p, k)]
  BY <1>1, <1>4, <1>5, <1>6, KeysIs
<1>8. Typed(Fields[p], over, p)
  BY <1>1, <1>3, <1>6, <1>7 DEF Typed, FieldTypes
<1>9. Decoded(Fields[p], over, p) = Decoded(Fields[p], tree, p)
  BY <1>1, <1>3, <1>6, <1>7 DEF Decoded, FieldTypes
<1> QED
  BY <1>3, <1>8, <1>9

\* Where a variable is set, the setting can be read just when the variable can, and
\* says what it says.
LEMMA SetSays ==
  ASSUME NEW tree, Appliable(tree), NEW over, over = Overridden(tree, Assigned), NEW p \in Assigned
  PROVE  /\ p \in DOMAIN over
         /\ Typed(Fields[p], over, p) <=> CanBeRead(Fields[p], environment[p])
         /\ CanBeRead(Fields[p], environment[p]) =>
              Decoded(Fields[p], over, p) = Meant(Fields[p], environment[p])
<1> DEFINE raw == environment[p]
<1>1. /\ p \in DOMAIN Fields /\ p \in Seq(KeyNames) /\ Fields[p] \in FieldTypes
      /\ p \in ScalarMaps <=> Fields[p] = "map"
  BY SettingsFacts, SettingsAssumption DEF Assigned
<1>2. p \in DOMAIN tree /\ Typed(Fields[p], tree, p) /\ Coercible(p, tree[p], raw)
  BY <1>1, FitsIs DEF Appliable, Assigned
<1>3. p \in DOMAIN over /\ over[p] = Written(tree, p)[p] /\ DOMAIN over \subseteq Seq(KeyNames)
  <2>1. p \in DOMAIN Written(tree, p)
    BY WrittenIs
  <2> QED
    BY <2>1, OverriddenIs
<1>4. CASE Fields[p] # "map"
  <2>1. over[p] = CASE Fields[p] = "number" -> Num(AsNumber[raw])
                    [] Fields[p] = "bool" -> Bool(AsBool[raw])
                    [] Fields[p] = "list" -> List(<<raw>>)
                    [] Fields[p] = "text" -> Str(raw)
                    [] Fields[p] = "duration" -> Str(raw)
    BY <1>1, <1>2, <1>3, <1>4 DEF Written, Coerce, Typed, FieldTypes
  <2>2. /\ Fields[p] = "number" => raw \in DOMAIN AsNumber
        /\ Fields[p] = "bool" => raw \in DOMAIN AsBool
    BY <1>1, <1>2, <1>4 DEF Coercible, Typed
  <2> USE DEF Typed, Decoded, CanBeRead, Meant, Num, Str, Bool, List
  <2>3. CASE Fields[p] = "number"
    BY <1>3, <2>1, <2>2, <2>3
  <2>4. CASE Fields[p] = "bool"
    BY <1>3, <2>1, <2>2, <2>4
  <2>5. CASE Fields[p] = "list"
    BY <1>3, <2>1, <2>5
  <2>6. CASE Fields[p] = "text"
    BY <1>3, <2>1, <2>6
  <2>7. CASE Fields[p] = "duration"
    BY <1>3, <2>1, <2>7
  <2> QED
    BY <1>1, <1>4, <2>3, <2>4, <2>5, <2>6, <2>7 DEF FieldTypes
<1>5. CASE Fields[p] = "map"
  <2> DEFINE map == AsMap[raw]
  <2>0. /\ raw \in DOMAIN AsMap /\ Written(tree, p)[p] = Object
        /\ DOMAIN Written(tree, p) = {p} \cup {Append(p, k) : k \in DOMAIN map}
        /\ \A k \in DOMAIN map : Written(tree, p)[Append(p, k)] = Bool(map[k])
    BY <1>1, <1>5, WrittenIs
  <2>1. /\ raw \in DOMAIN AsMap /\ over[p] = Object
        /\ DOMAIN Written(tree, p) = {p} \cup {Append(p, k) : k \in DOMAIN map}
        /\ \A k \in DOMAIN map : Written(tree, p)[Append(p, k)] = Bool(map[k])
    BY <1>3, <2>0
  <2>2. DOMAIN map \subseteq KeyNames /\ map = [k \in DOMAIN map |-> map[k]]
    BY <2>1, SpelledMaps
  <2>3. ASSUME NEW k \in DOMAIN map
        PROVE  Append(p, k) \in DOMAIN over /\ over[Append(p, k)] = Bool(map[k])
    <3>1. Append(p, k) \in DOMAIN Written(tree, p) /\ Written(tree, p)[Append(p, k)] = Bool(map[k])
      BY <2>1
    <3> QED
      BY <3>1, OverriddenIs
  <2>4. ASSUME NEW k \in KeyNames, Append(p, k) \in DOMAIN over PROVE k \in DOMAIN map
    <3> DEFINE q == Append(p, k)
    <3>1. q \in Seq(KeyNames) /\ IsPrefix(p, q) /\ q # p /\ Last(q) = k
      BY <1>1, EntryIs
    <3> HIDE DEF q
    <3>2. PICK r \in Assigned : q \in DOMAIN Written(tree, r)
      BY <2>4, <3>1, OverriddenIs DEF q
    <3>3. IsPrefix(r, q)
      BY <3>2, WrittenBelow
    <3>4. r = p
      BY <3>1, <3>3, OneAbove DEF Assigned
    <3>5. PICK m \in DOMAIN map : q = Append(p, m)
      BY <2>1, <3>1, <3>2, <3>4
    <3>6. Last(q) = m
      BY <1>1, <2>2, <3>5, EntryIs
    <3> QED
      BY <3>1, <3>5, <3>6
  <2>5. Keys(over, p) = DOMAIN map
    BY <1>1, <1>3, <2>2, <2>3, <2>4, KeysIs
  <2> HIDE DEF map
  <2>6. Typed("map", over, p)
    <3>1. IsObject(over[p])
      <4>1. over[p] = Object
        BY <2>1
      <4> QED
        BY <4>1 DEF IsObject, Object
    <3>2. \A k \in Keys(over, p) : over[Append(p, k)][1] = "bool"
      BY <2>3, <2>5 DEF Bool
    <3> QED
      BY <3>1, <3>2 DEF Typed
  <2>7. Decoded("map", over, p) = map
    BY <2>2, <2>3, <2>5 DEF Decoded, Bool
  <2> QED
    BY <1>3, <1>5, <2>1, <2>6, <2>7 DEF CanBeRead, Meant, map
<1> QED
  BY <1>4, <1>5

\* The tree with the variables applied fits just when every variable can be read.
LEMMA OverriddenFits ==
  ASSUME NEW tree, Appliable(tree), NEW over, over = Overridden(tree, Assigned)
  PROVE  Fits(over) <=> \A p \in Assigned : CanBeRead(Fields[p], environment[p])
<1>1. DOMAIN over \subseteq Seq(KeyNames)
  BY OverriddenIs
<1>2. ASSUME Fits(over), NEW p \in Assigned PROVE CanBeRead(Fields[p], environment[p])
  <2>1. p \in DOMAIN over /\ p \in DOMAIN Fields
    BY SetSays DEF Assigned
  <2>2. Typed(Fields[p], over, p)
    BY <1>1, <1>2, <2>1, FitsIs
  <2> QED
    BY <2>2, SetSays
<1>3. ASSUME \A p \in Assigned : CanBeRead(Fields[p], environment[p]), NEW q \in DOMAIN over
      PROVE  \/ q \in DOMAIN Fields /\ Typed(Fields[q], over, q)
             \/ q \in Sections \cup {<<>>} /\ IsObject(over[q])
             \/ IsEntry(q)
  <2>1. CASE q \in DOMAIN Fields
    BY <1>3, <2>1, UnsetStays, SetSays
  <2>2. CASE q \notin DOMAIN Fields /\ q \in DOMAIN tree /\ \A p \in Assigned : ~IsPrefix(p, q)
    <3>1. over[q] = tree[q]
      BY <2>2, OverriddenIs
    <3>2. KnownPath(q) /\ (q \in Sections \cup {<<>>} => IsObject(tree[q]))
      BY <2>2, FitsIs DEF Appliable
    <3> QED
      BY <2>2, <3>1, <3>2 DEF KnownPath
  <2>3. ASSUME q \notin DOMAIN Fields, NEW p \in Assigned, q \in DOMAIN Written(tree, p) PROVE IsEntry(q)
    BY <2>3, WrittenBelow DEF Assigned
  <2> QED
    BY <2>1, <2>2, <2>3, OverriddenIs
<1> QED
  BY <1>2, <1>3 DEF Fits, IsEntry

------------------------------------------------------------------------------
(* The configuration *)

\* What a tree says once the environment is over it.
Unread == \E p \in Assigned : ~CanBeRead(Fields[p], environment[p])
Answers(tree) ==
  [p \in DOMAIN Fields |->
     IF p \in DOMAIN environment THEN Meant(Fields[p], environment[p])
     ELSE Decoded(Fields[p], tree, p)]

\* While files are merged, what is merged is the layers so far; and what comes of
\* it is read from a tree of all layers.
ConfigInv ==
  /\ FilesOK /\ rest \in 0 .. Len(files)
  /\ config = Loading /\ SoundTo(rest) => MergedIs(merged, rest)
  /\ config # Loading /\ SoundTo(Len(files)) =>
       IF Unread THEN config = RefusedConfig
       ELSE \E tree : MergedIs(tree, Len(files)) /\ config = Config(Answers(tree))

\* A variable that can be read can be parsed.
LEMMA ReadableCoercible ==
  ASSUME NEW tree, DOMAIN tree \subseteq Seq(KeyNames), Fits(tree), DOMAIN Fields \subseteq DOMAIN tree,
         NEW p \in Assigned, CanBeRead(Fields[p], environment[p])
  PROVE  Coercible(p, tree[p], environment[p])
<1>1. /\ p \in DOMAIN Fields /\ Fields[p] \in FieldTypes
      /\ p \in ScalarMaps <=> Fields[p] = "map"
  BY SettingsAssumption DEF Assigned
<1>2. Typed(Fields[p], tree, p)
  BY <1>1, FitsIs
<1>3. CASE p \in ScalarMaps
  BY <1>1, <1>3 DEF CanBeRead, Coercible
<1>4. CASE p \notin ScalarMaps
  BY <1>1, <1>2, <1>4 DEF CanBeRead, Coercible, Typed, FieldTypes
<1> QED
  BY <1>3, <1>4

\* The last step of a loading whose files would do alone.
LEMMA Applied ==
  ASSUME FilesOK, SoundTo(Len(files)), MergedIs(merged, Len(files)), ApplyEnvironment
  PROVE  config' = IF Unread THEN RefusedConfig ELSE Config(Answers(merged))
<1>1. Len(files) \in 0 .. Len(files)
  BY DEF FilesOK
<1>2. DOMAIN merged \subseteq Seq(KeyNames) /\ Fits(merged) /\ DOMAIN Fields \subseteq DOMAIN merged
  BY <1>1, MergedFits
<1>3. Collect(merged) = Assigned
  BY <1>2, CollectIs DEF Assigned
<1>4. CASE \E p \in Assigned : ~Coercible(p, merged[p], environment[p])
  <2>1. Unread
    BY <1>2, <1>4, ReadableCoercible DEF Unread
  <2>2. config' = RefusedConfig
    BY <1>3, <1>4 DEF ApplyEnvironment
  <2> QED
    BY <2>1, <2>2
<1>5. CASE \A p \in Assigned : Coercible(p, merged[p], environment[p])
  <2>1. Appliable(merged)
    BY <1>2, <1>5 DEF Appliable, Assigned
  <2> DEFINE over == Overridden(merged, Assigned)
  <2>2. config' = IF Fits(over) THEN Config(FromValue(over)) ELSE RefusedConfig
    BY <1>3, <1>5 DEF ApplyEnvironment
  <2>3. Fits(over) <=> ~Unread
    BY <2>1, OverriddenFits DEF Unread
  <2>4. ASSUME ~Unread, NEW p \in DOMAIN Fields
        PROVE  /\ p \in DOMAIN over
               /\ Decoded(Fields[p], over, p)
                    = IF p \in DOMAIN environment THEN Meant(Fields[p], environment[p])
                      ELSE Decoded(Fields[p], merged, p)
    <3>1. CASE p \in Assigned
      BY <2>1, <2>4, <3>1, SetSays DEF Unread, Assigned
    <3>2. CASE p \notin Assigned
      BY <2>1, <3>2, UnsetStays DEF Assigned
    <3> QED
      BY <3>1, <3>2
  <2> HIDE DEF over
  <2>5. ~Unread => FromValue(over) = Answers(merged)
    BY <2>4 DEF FromValue, Answers
  <2> QED
    BY <2>2, <2>3, <2>5
<1> QED
  BY <1>4, <1>5

LEMMA ConfigStarts == ConfigInit => ConfigInv
<1> SUFFICES ASSUME ConfigInit PROVE ConfigInv
  OBVIOUS
<1>1. PICK n \in 0 .. MaxFiles : files \in [1 .. n -> Contents \cup {NotAnObject}]
  BY DEF ConfigInit
<1>2. FilesOK /\ rest \in 0 .. Len(files)
  BY <1>1, ConfigAssumption DEF FilesOK, ConfigInit
<1>3. MergedIs(merged, rest)
  <2>1. merged = Layer(0) /\ rest = 0
    BY DEF ConfigInit, Layer
  <2>2. \A i : i \in 0 .. 0 <=> i = 0
    OBVIOUS
  <2>3. \A j \in 0 + 1 .. 0 : FALSE
    OBVIOUS
  <2> QED
    BY <2>1, <2>2, <2>3 DEF MergedIs
<1> QED
  BY <1>2, <1>3 DEF ConfigInit, ConfigInv

LEMMA ConfigKeeps == ConfigInv /\ [ConfigNext]_configVars => ConfigInv'
<1> SUFFICES ASSUME ConfigInv, [ConfigNext]_configVars PROVE ConfigInv'
  OBVIOUS
<1>1. files' = files /\ environment' = environment
  BY DEF ConfigNext, MergeFile, ApplyEnvironment, configVars
<1>2. /\ FilesOK' = FilesOK /\ Unread' = Unread
      /\ \A n : SoundTo(n)' = SoundTo(n)
      /\ \A tree, n : MergedIs(tree, n)' = MergedIs(tree, n)
      /\ \A tree : Answers(tree)' = Answers(tree)
  BY <1>1 DEF FilesOK, Unread, Assigned, SoundTo, MergedIs, Layer, Answers
<1>3. CASE MergeFile
  <2>1. config = Loading /\ rest \in 0 .. Len(files) - 1 /\ rest' = rest + 1 /\ Len(files) \in Nat
    BY <1>3 DEF MergeFile, ConfigInv, FilesOK
  <2>2. CASE files[rest + 1] = NotAnObject
    BY <1>1, <1>2, <1>3, <2>1, <2>2 DEF MergeFile, ConfigInv, SoundTo
  <2>3. CASE files[rest + 1] # NotAnObject
    <3>1. config' = Loading /\ merged' = Merge(merged, files[rest + 1])
      BY <1>3, <2>1, <2>3 DEF MergeFile
    <3>2. ASSUME SoundTo(rest + 1) PROVE MergedIs(merged', rest + 1)
      <4>1. SoundTo(rest)
        BY <2>1, <3>2 DEF SoundTo
      <4> QED
        BY <2>1, <3>1, <3>2, <4>1, MergedNext DEF ConfigInv
    <3> QED
      BY <1>1, <1>2, <2>1, <3>1, <3>2 DEF ConfigInv
  <2> QED
    BY <2>2, <2>3
<1>4. CASE ApplyEnvironment
  <2>1. config = Loading /\ rest = Len(files) /\ rest' = rest /\ FilesOK
    BY <1>4 DEF ApplyEnvironment, ConfigInv
  <2>2. config' # Loading
    BY <1>4 DEF ApplyEnvironment, Loading, RefusedConfig, Config
  <2>3. ASSUME SoundTo(Len(files))
        PROVE  IF Unread THEN config' = RefusedConfig
               ELSE \E tree : MergedIs(tree, Len(files)) /\ config' = Config(Answers(tree))
    <3>1. MergedIs(merged, Len(files))
      BY <2>1, <2>3 DEF ConfigInv
    <3> QED
      BY <1>4, <2>1, <2>3, <3>1, Applied
  <2> QED
    BY <1>1, <1>2, <2>1, <2>2, <2>3 DEF ConfigInv
<1>5. CASE UNCHANGED configVars
  <2>1. config' = config /\ merged' = merged /\ rest' = rest
    BY <1>5 DEF configVars
  <2> QED
    BY <1>1, <1>2, <2>1 DEF ConfigInv
<1> QED
  BY <1>3, <1>4, <1>5 DEF ConfigNext

\* The last layer that has a path is one layer.
LEMMA LastLayerIs ==
  ASSUME FilesOK, NEW path, NEW i \in 0 .. Len(files), path \in DOMAIN Layer(i),
         \A j \in i + 1 .. Len(files) : path \notin DOMAIN Layer(j)
  PROVE  LastLayer(path) = i
<1> DEFINE IsLast(l) == path \in DOMAIN Layer(l) /\ \A j \in l + 1 .. Len(files) : path \notin DOMAIN Layer(j)
<1>1. Len(files) \in Nat
  BY DEF FilesOK
<1>2. ASSUME NEW l \in 0 .. Len(files), IsLast(l) PROVE l = i
  <2>1. ~(l < i)
    BY <1>1, <1>2
  <2>2. ~(i < l)
    BY <1>1, <1>2
  <2> QED
    BY <1>1, <2>1, <2>2
<1>3. IsLast(i)
  OBVIOUS
<1>4. LastLayer(path) = CHOOSE l \in 0 .. Len(files) : IsLast(l)
  BY DEF LastLayer
<1> HIDE DEF IsLast
<1> QED
  BY <1>2, <1>3, <1>4

\* What a tree of all layers says of a setting is what the highest layer says.
LEMMA HighestIs ==
  ASSUME FilesOK, SoundTo(Len(files)), NEW tree, MergedIs(tree, Len(files)), NEW p \in DOMAIN Fields
  PROVE  Answers(tree)[p] = Highest(p)
<1> DEFINE n == Len(files)
<1>1. n \in 0 .. n /\ n \in Nat
  BY DEF FilesOK
<1>2. DOMAIN tree \subseteq Seq(KeyNames) /\ p \in DOMAIN tree /\ p \in Seq(KeyNames)
  BY <1>1, MergedFits, SettingsFacts
<1>3. ASSUME NEW q \in DOMAIN tree PROVE tree[q] = Layer(LastLayer(q))[q]
  <2>1. PICK i \in 0 .. n : /\ q \in DOMAIN Layer(i) /\ \A j \in i + 1 .. n : q \notin DOMAIN Layer(j)
                            /\ tree[q] = Layer(i)[q]
    BY DEF MergedIs
  <2>2. LastLayer(q) = i
    BY <2>1, LastLayerIs
  <2> QED
    BY <2>1, <2>2
<1>4. CASE p \in DOMAIN environment
  BY <1>4 DEF Answers, Highest
<1>5. CASE p \notin DOMAIN environment /\ Fields[p] = "map"
  <2>1. ASSUME NEW i \in 0 .. n PROVE DOMAIN Layer(i) \subseteq Seq(KeyNames)
    BY <1>1, LayersFit, LayerTree
  <2> DEFINE keys == UNION {Keys(Layer(i), p) : i \in 0 .. n}
  <2>2. \A k : k \in keys <=> \E i \in 0 .. n : k \in Keys(Layer(i), p)
    OBVIOUS
  <2>3. ASSUME NEW k PROVE k \in keys <=> k \in Keys(tree, p)
    <3>1. ASSUME k \in KeyNames
          PROVE  /\ k \in Keys(tree, p) <=> Append(p, k) \in DOMAIN tree
                 /\ \A i \in 0 .. n : k \in Keys(Layer(i), p) <=> Append(p, k) \in DOMAIN Layer(i)
      BY <1>2, <2>1, <3>1, KeysIs
    <3>2. /\ k \in Keys(tree, p) => k \in KeyNames
          /\ \A i \in 0 .. n : k \in Keys(Layer(i), p) => k \in KeyNames
      BY <1>2, <2>1, KeysIs
    <3> QED
      BY <2>2, <3>1, <3>2 DEF MergedIs
  <2>4. ASSUME NEW k \in keys PROVE tree[Append(p, k)] = Layer(LastLayer(Append(p, k)))[Append(p, k)]
    <3>1. Append(p, k) \in DOMAIN tree
      BY <1>2, <2>3, KeysIs
    <3> QED
      BY <1>3, <3>1
  <2>5. Highest(p) = [k \in keys |-> Layer(LastLayer(Append(p, k)))[Append(p, k)][2]]
    BY <1>5 DEF Highest
  <2>6. Answers(tree)[p] = [k \in Keys(tree, p) |-> tree[Append(p, k)][2]]
    BY <1>5 DEF Answers, Decoded
  <2> HIDE DEF keys
  <2>7. keys = Keys(tree, p)
    BY <2>3
  <2> QED
    BY <2>4, <2>5, <2>6, <2>7
<1>6. CASE p \notin DOMAIN environment /\ Fields[p] # "map"
  <2>1. tree[p] = Layer(LastLayer(p))[p]
    BY <1>2, <1>3
  <2> QED
    BY <1>6, <2>1 DEF Answers, Highest, Decoded
<1> QED
  BY <1>4, <1>5, <1>6

LEMMA ConfigOverrides == ConfigInv => LayersOverride
<1> SUFFICES ASSUME ConfigInv, config # Loading,
                    \A i \in DOMAIN files : files[i] # NotAnObject /\ Fits(files[i])
             PROVE  IF \E p \in DOMAIN environment \cap DOMAIN Fields : ~CanBeRead(Fields[p], environment[p])
                    THEN config = RefusedConfig
                    ELSE config = Config([p \in DOMAIN Fields |-> Highest(p)])
  BY DEF LayersOverride
<1>1. FilesOK /\ SoundTo(Len(files))
  BY DEF ConfigInv, FilesOK, SoundTo
<1>2. Unread <=> \E p \in DOMAIN environment \cap DOMAIN Fields : ~CanBeRead(Fields[p], environment[p])
  BY DEF Unread, Assigned
<1>3. CASE Unread
  BY <1>1, <1>2, <1>3 DEF ConfigInv
<1>4. CASE ~Unread
  <2>1. PICK tree : MergedIs(tree, Len(files)) /\ config = Config(Answers(tree))
    BY <1>1, <1>4 DEF ConfigInv
  <2>2. \A p \in DOMAIN Fields : Answers(tree)[p] = Highest(p)
    BY <1>1, <2>1, HighestIs
  <2>3. Answers(tree) = [p \in DOMAIN Fields |-> Answers(tree)[p]]
    BY DEF Answers
  <2>4. Answers(tree) = [p \in DOMAIN Fields |-> Highest(p)]
    BY <2>2, <2>3
  <2> QED
    BY <1>2, <1>4, <2>1, <2>4
<1> QED
  BY <1>3, <1>4

\* Layers override each other, setting by setting: for any schema whose maps are
\* listed, any files, and any variables, LayersOverride holds of what load_from
\* returns.
THEOREM LayersAlwaysOverride == ConfigSpec => []LayersOverride
<1>1. ConfigSpec => []ConfigInv
  <2>1. ConfigInit => ConfigInv
    BY ConfigStarts
  <2>2. ConfigInv /\ [ConfigNext]_configVars => ConfigInv'
    BY ConfigKeeps
  <2> QED
    BY <2>1, <2>2, PTL DEF ConfigSpec
<1> QED
  BY <1>1, ConfigOverrides, PTL

=============================================================================
