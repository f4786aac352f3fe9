------------------------------ MODULE RangeFetch -----------------------------
(***************************************************************************)
(* fetch_range (midgard-chain/src/client.rs, rpc.rs): one range of blocks  *)
(* fetched by concurrent batches, each a JSON-RPC batch of "block" and one *)
(* of "block_results", behind nodes that answer in any order, for the      *)
(* wrong height, with a wrong id, or not at all.  The module ChainClient   *)
(* is built on what this one promises.                                     *)
(*                                                                         *)
(* A block or its results are represented by the height they are of.       *)
(***************************************************************************)
EXTENDS Integers, Sequences, FiniteSets

CONSTANTS
  From,         \* the first height asked for
  Counts,       \* bound: how many blocks are asked for
  Parallelism,  \* config: batches a range may be split into
  Pending, Error

ASSUME RangeAssumption ==
  From \in Nat /\ Counts \subseteq Nat \ {0} /\ Parallelism \in Nat \ {0}

Methods == {"block", "block_results"}

VARIABLES
  count,   \* how many are asked for this time
  calls,   \* calls[i][m]: heights answered to the call of chunk i, by position
  parts,   \* parts[i]: the blocks of chunk i
  result,  \* of fetch_range: the blocks by position
  honest   \* every answer so far was complete and of the heights asked for

fetchVars == <<count, calls, parts, result, honest>>

\* Chunks of equal size, or one.
Chunks == IF count > 1 /\ Parallelism > 1 /\ count % Parallelism = 0 THEN Parallelism ELSE 1

PerChunk == count \div Chunks

ChunkIds == 0 .. Chunks - 1
Positions == 0 .. PerChunk - 1

\* The height that position j of chunk i asks for.
Requested(i, j) == From + i * PerChunk + j

FetchInit ==
  /\ count \in Counts
  /\ calls = [i \in ChunkIds |-> [m \in Methods |-> Pending]]
  /\ parts = [i \in ChunkIds |-> Pending]
  /\ result = Pending
  /\ honest = TRUE

\* What a node may send for chunk i: an entry per position, each with an id
\* and of a height, its own or the next one's.
Entries(i) == [Positions -> [id : Positions, wrong : BOOLEAN]]
EntryHeight(i, entry) == Requested(i, entry.id) + IF entry.wrong THEN 1 ELSE 0

Usable(entries) == \A j \in Positions : \E k \in Positions : entries[k].id = j

\* call_batch: put in the order of the ids.
ById(i, entries) ==
  [j \in Positions |-> EntryHeight(i, entries[CHOOSE k \in Positions : entries[k].id = j])]

\* A call is answered; an id that is missing is an error of the whole range.
Answer(i, m) ==
  /\ result = Pending /\ calls[i][m] = Pending
  /\ \E entries \in Entries(i) :
       /\ honest' = (honest /\ Usable(entries) /\ \A j \in Positions : ~entries[j].wrong)
       /\ IF Usable(entries)
          THEN /\ calls' = [calls EXCEPT ![i][m] = ById(i, entries)]
               /\ UNCHANGED result
          ELSE result' = Error /\ UNCHANGED calls
  /\ UNCHANGED <<count, parts>>

\* It fails: HTTP, a status, a timeout, an error entry, a bare object, the wrong
\* number of entries.
Fail(i, m) ==
  /\ result = Pending /\ calls[i][m] = Pending
  /\ result' = Error /\ honest' = FALSE
  /\ UNCHANGED <<count, calls, parts>>

\* Mutant: only the block is checked.
MatchesBlock(i, j) == calls[i]["block"][j] = Requested(i, j)

\* assemble: both halves are of the height asked for.
Matches(i, j) == \A m \in Methods : calls[i][m][j] = Requested(i, j)

\* Both calls of a chunk have been answered.
Assemble(i) ==
  /\ result = Pending /\ parts[i] = Pending
  /\ \A m \in Methods : calls[i][m] # Pending
  /\ IF \A j \in Positions : Matches(i, j)
     THEN /\ parts' = [parts EXCEPT ![i] =
                         [j \in Positions |-> [block |-> calls[i]["block"][j],
                                               results |-> calls[i]["block_results"][j]]]]
          /\ UNCHANGED result
     ELSE result' = Error /\ UNCHANGED parts
  /\ UNCHANGED <<count, calls, honest>>

\* try_join_all: the chunks in the order they were asked for.
Join ==
  /\ result = Pending
  /\ \A i \in ChunkIds : parts[i] # Pending
  /\ result' = [n \in 0 .. Chunks * PerChunk - 1 |-> parts[n \div PerChunk][n % PerChunk]]
  /\ UNCHANGED <<count, calls, parts, honest>>

FetchNext ==
  \/ \E i \in ChunkIds : Assemble(i) \/ \E m \in Methods : Answer(i, m) \/ Fail(i, m)
  \/ Join

FetchSpec == FetchInit /\ [][FetchNext]_fetchVars

------------------------------------------------------------------------------
\* Types; a chunk is assembled from answers.
AnswerHeights == From .. From + count
FetchTypeOK ==
  /\ count \in Counts /\ honest \in BOOLEAN
  /\ \A i \in ChunkIds :
       /\ \A m \in Methods : calls[i][m] = Pending \/ calls[i][m] \in [Positions -> AnswerHeights]
       /\ parts[i] # Pending => \A m \in Methods : calls[i][m] # Pending
  /\ DOMAIN calls = ChunkIds /\ DOMAIN parts = ChunkIds

\* The blocks asked for, in order, each with its own results.
TheRange == [n \in 0 .. count - 1 |-> [block |-> From + n, results |-> From + n]]

\* A range is answered with exactly the blocks asked for, in order, and with
\* each block its own results (client.rs:118-120, 182-186), or with an error; and
\* nodes that answer every call with the heights asked for, in whatever order,
\* never make it fail (rpc.rs:98-99).
RangeAnswered ==
  /\ result \notin {Pending, Error} => result = TheRange
  /\ honest => result \in {Pending, TheRange}

=============================================================================
