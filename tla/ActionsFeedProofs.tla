-------------------------- MODULE ActionsFeedProofs --------------------------
(***************************************************************************)
(* A walk of the feed descends and loses nothing, for chains, blocks and   *)
(* pages of any size, whatever is committed, fails or restarts meanwhile.  *)
(***************************************************************************)
EXTENDS ActionsFeed, FiniteSetTheorems, WellFoundedInduction, TLAPS

------------------------------------------------------------------------------
\* Finite sets of events.

\* The events of S after e, and those before it.
NewerIn(S, e) == {f \in S : f > e}
OlderIn(S, e) == {f \in S : f < e}

\* A set of events is finite.
LEMMA EventsAreFinite ==
  ASSUME NEW S \in SUBSET EventIds
  PROVE  IsFiniteSet(S) /\ (\A e \in S : e \in Int) /\ Cardinality(S) \in Nat
<1>1. FirstHeight * Slots \in Int /\ (MaxTip + 1) * Slots - 1 \in Int
  BY IndexerAssumption, FeedAssumption
<1>2. \A e \in EventIds : e \in Int
  BY <1>1 DEF EventIds
<1>3. IsFiniteSet(EventIds)
  BY <1>1, FS_Interval DEF EventIds
<1> QED
  BY <1>2, <1>3, FS_Subset, FS_CardinalityType

\* A set of events that is not empty has an oldest event: of the sets of the
\* events older than one of it, a smallest is empty.
LEMMA OldestExists ==
  ASSUME NEW S \in SUBSET EventIds, S # {}
  PROVE  \E e \in S : \A f \in S : e <= f
<1> DEFINE Below == {OlderIn(S, e) : e \in S}
<1>1. Below \subseteq FiniteSubsetsOf(S)
  BY EventsAreFinite, FS_Subset DEF FiniteSubsetsOf, OlderIn
<1>2. PICK X \in Below : \A Y \in Below : ~(<<Y, X>> \in StrictSubsetOrdering(S))
  <2>1. Below # {}
    OBVIOUS
  <2> QED
    BY <1>1, <2>1, FS_StrictSubsetOrderingWellFounded, WFMin
<1>3. PICK e \in S : X = OlderIn(S, e)
  BY <1>2
<1>4. ASSUME NEW f \in S, f < e
      PROVE  FALSE
  <2>1. \A x \in S : x \in Int
    BY EventsAreFinite
  <2>2. OlderIn(S, f) \subseteq X /\ f \in X /\ f \notin OlderIn(S, f)
    BY <1>3, <1>4, <2>1 DEF OlderIn
  <2>3. <<OlderIn(S, f), X>> \in StrictSubsetOrdering(S)
    BY <1>3, <2>2 DEF StrictSubsetOrdering, OlderIn
  <2> QED
    BY <1>2, <2>3
<1> QED
  BY <1>4, EventsAreFinite

\* It has a newest event as well.
LEMMA NewestExists ==
  ASSUME NEW S \in SUBSET EventIds, S # {}
  PROVE  \E e \in S : \A f \in S : f <= e
<1> DEFINE Above == {NewerIn(S, e) : e \in S}
<1>1. Above \subseteq FiniteSubsetsOf(S)
  BY EventsAreFinite, FS_Subset DEF FiniteSubsetsOf, NewerIn
<1>2. PICK X \in Above : \A Y \in Above : ~(<<Y, X>> \in StrictSubsetOrdering(S))
  <2>1. Above # {}
    OBVIOUS
  <2> QED
    BY <1>1, <2>1, FS_StrictSubsetOrderingWellFounded, WFMin
<1>3. PICK e \in S : X = NewerIn(S, e)
  BY <1>2
<1>4. ASSUME NEW f \in S, f > e
      PROVE  FALSE
  <2>1. \A x \in S : x \in Int
    BY EventsAreFinite
  <2>2. NewerIn(S, f) \subseteq X /\ f \in X /\ f \notin NewerIn(S, f)
    BY <1>3, <1>4, <2>1 DEF NewerIn
  <2>3. <<NewerIn(S, f), X>> \in StrictSubsetOrdering(S)
    BY <1>3, <2>2 DEF StrictSubsetOrdering, NewerIn
  <2> QED
    BY <1>2, <2>3
<1> QED
  BY <1>4, EventsAreFinite

\* A larger set has at least as many newer events.
LEMMA NewerGrows ==
  ASSUME NEW S \in SUBSET EventIds, NEW T \in SUBSET S, NEW e \in Int, NEW f \in Int, e <= f
  PROVE  /\ Cardinality(NewerIn(T, f)) <= Cardinality(NewerIn(S, e))
         /\ Cardinality(NewerIn(T, f)) \in Nat /\ Cardinality(NewerIn(S, e)) \in Nat
<1>1. \A x \in S : x \in Int
  BY EventsAreFinite
<1>2. NewerIn(T, f) \in SUBSET NewerIn(S, e)
  BY <1>1 DEF NewerIn
<1>3. NewerIn(S, e) \in SUBSET EventIds /\ NewerIn(T, f) \in SUBSET EventIds
  BY DEF NewerIn
<1> QED
  BY <1>2, <1>3, EventsAreFinite, FS_Subset

\* ORDER BY ... LIMIT leaves an event out only for a full set of newer ones.
LEMMA LeftOutForNewer ==
  ASSUME NEW S \in SUBSET EventIds, NEW n \in Nat, NEW e \in S, e \notin Newest(S, n)
  PROVE  Cardinality(NewerIn(Newest(S, n), e)) >= n
<1> DEFINE Out == S \ Newest(S, n)
<1>1. PICK g \in Out : \A f \in Out : f <= g
  BY NewestExists
<1>2. e <= g /\ e \in Int /\ g \in Int
  BY <1>1, EventsAreFinite
<1>3. Cardinality(NewerIn(S, g)) >= n
  <2>1. ~(Cardinality(NewerIn(S, g)) < n)
    BY <1>1 DEF Newest, NewerIn
  <2>2. NewerIn(S, g) \in SUBSET EventIds
    BY DEF NewerIn
  <2> QED
    BY <2>1, <2>2, EventsAreFinite
<1>4. NewerIn(S, g) = NewerIn(Newest(S, n), g)
  <2>1. Newest(S, n) \subseteq S /\ \A x \in S : x \in Int
    BY EventsAreFinite DEF Newest
  <2> QED
    BY <1>1, <2>1 DEF NewerIn
<1>5. Newest(S, n) \in SUBSET S /\ Newest(S, n) \in SUBSET EventIds
  BY DEF Newest
<1>6. Cardinality(NewerIn(Newest(S, n), g)) <= Cardinality(NewerIn(Newest(S, n), e))
  BY <1>2, <1>5, NewerGrows
<1>7. Cardinality(NewerIn(Newest(S, n), e)) \in Nat /\ Cardinality(NewerIn(Newest(S, n), g)) \in Nat
  BY <1>2, <1>5, NewerGrows
<1> QED
  BY <1>3, <1>4, <1>6, <1>7

\* The token of a page that is not empty is its oldest event.
LEMMA TokenIsOldest ==
  ASSUME NEW page \in SUBSET EventIds, page # {}
  PROVE  NextToken(page) \in page /\ \A f \in page : NextToken(page) <= f
BY OldestExists DEF NextToken

------------------------------------------------------------------------------
\* The inductive invariant.

\* Only an unfinished walk has a request, and what was committed when it began
\* still is.
AskingInv == asking => walking /\ (token = NoToken => served = {})

\* A request has only events older than the token.
RowsInv == asking => \A e \in rows : Older(e)

\* A wanted event of a kind that has been queried is in the answer, or there
\* are enough newer ones to fill the page.
CompleteInv ==
  asking =>
    \A e \in Wanted :
      kindOf[e] \notin todo /\ HeightOf(e) <= began /\ Older(e) =>
        e \in rows \/ Cardinality(NewerIn(rows, e)) >= limit

FeedInv ==
  /\ TypeOK
  /\ walking => began <= committed /\ (token = NoToken => served = {})
  /\ AskingInv /\ RowsInv /\ CompleteInv /\ NothingOldLost

LEMMA EventTypes ==
  ASSUME NEW e \in EventIds
  PROVE  e \in Nat /\ HeightOf(e) \in Nat
<1>1. FirstHeight \in Nat \ {0} /\ Slots \in Nat \ {0} /\ MaxTip \in Nat
  BY IndexerAssumption, FeedAssumption
<1>2. FirstHeight * Slots \in Nat
  BY <1>1
<1>3. e \in Nat
  BY <1>1, <1>2 DEF EventIds
<1> QED
  BY <1>1, <1>3 DEF HeightOf

LEMMA InitHolds == Init => FeedInv
<1>1. 0 \in 0 .. MaxTip /\ 1 \in Limits
  BY IndexerAssumption, FeedAssumption DEF Limits
<1> QED
  BY <1>1 DEF Init, IndexerInit, FeedInit, FeedInv, TypeOK, AskingInv, RowsInv, CompleteInv,
              NothingOldLost, NoToken

\* The indexer only ever adds to what is committed.
LEMMA IndexerGrows ==
  ASSUME TypeOK, IndexerNext
  PROVE  /\ serving' \in BOOLEAN /\ committed' \in 0 .. MaxTip /\ published' \in 0 .. MaxTip
         /\ committed <= committed'
<1>0. /\ serving \in BOOLEAN /\ committed \in 0 .. MaxTip /\ published \in 0 .. MaxTip
      /\ MaxTip \in Nat
  BY IndexerAssumption DEF TypeOK
<1>1. CASE Start
  BY <1>0, <1>1 DEF Start
<1>2. CASE Commit
  BY <1>0, <1>2, IndexerAssumption DEF Commit, After
<1>3. CASE Publish
  BY <1>0, <1>3, IndexerAssumption DEF Publish, After
<1>4. CASE Stop
  <2>1. serving' = FALSE /\ published' = 0 /\ committed' = committed
    BY <1>4 DEF Stop
  <2>2. serving' \in BOOLEAN
    BY <2>1
  <2>3. committed' \in 0 .. MaxTip /\ published' \in 0 .. MaxTip /\ committed <= committed'
    BY <1>0, <2>1
  <2> QED
    BY <2>2, <2>3
<1> QED
  BY <1>1, <1>2, <1>3, <1>4 DEF IndexerNext

\* Steps of the indexer that leave the walk and its request, or end the request.
LEMMA IndexerStep ==
  ASSUME FeedInv, IndexerNext, UNCHANGED <<kindOf, walk>>,
         UNCHANGED request \/ (asking' = FALSE /\ limit' = 1 /\ todo' = {} /\ rows' = {})
  PROVE  FeedInv'
<1> USE DEF FeedInv, walk
<1>1. committed <= committed' /\ committed \in Int /\ committed' \in Int
  BY IndexerGrows, IndexerAssumption DEF TypeOK
<1>2. 1 \in Limits
  BY FeedAssumption DEF Limits
<1>3. /\ asking' \in BOOLEAN /\ limit' \in Limits
      /\ todo' \in SUBSET Kinds /\ rows' \in SUBSET EventIds
  <2>1. CASE UNCHANGED request
    BY <2>1 DEF TypeOK, request
  <2>2. CASE asking' = FALSE /\ limit' = 1 /\ todo' = {} /\ rows' = {}
    BY <1>2, <2>2
  <2> QED
    BY <2>1, <2>2
<1>4. TypeOK'
  BY <1>3, IndexerGrows DEF TypeOK
<1>5. (walking => began <= committed /\ (token = NoToken => served = {}))'
  BY <1>1, IndexerAssumption DEF TypeOK
<1>6. NothingOldLost'
  BY DEF NothingOldLost, Wanted
<1>7. (AskingInv /\ RowsInv /\ CompleteInv)'
  <2>1. CASE UNCHANGED request
    BY <2>1 DEF request, AskingInv, RowsInv, CompleteInv, Wanted, Older
  <2>2. CASE asking' = FALSE
    BY <2>2 DEF AskingInv, RowsInv, CompleteInv
  <2> QED
    BY <2>1, <2>2
<1> QED
  BY <1>4, <1>5, <1>6, <1>7

LEMMA BeginStep == FeedInv /\ Begin => FeedInv'
<1> SUFFICES ASSUME FeedInv, Begin PROVE FeedInv'
  OBVIOUS
<1> USE DEF FeedInv, Begin, indexerVars, request
<1>1. ~asking' /\ token' = NoToken /\ served' = {}
  BY DEF AskingInv, TypeOK
<1>2. TypeOK'
  BY <1>1 DEF TypeOK
<1>3. began' <= committed'
  BY IndexerAssumption DEF TypeOK
<1> QED
  BY <1>1, <1>2, <1>3 DEF AskingInv, RowsInv, CompleteInv, NothingOldLost

LEMMA AskStep == FeedInv /\ Ask => FeedInv'
<1> SUFFICES ASSUME FeedInv, Ask PROVE FeedInv'
  OBVIOUS
<1> USE DEF FeedInv, Ask, indexerVars, walk
<1>1. TypeOK'
  BY DEF TypeOK
<1>2. CompleteInv'
  BY DEF CompleteInv, Wanted
<1>3. NothingOldLost'
  BY DEF NothingOldLost, Wanted
<1> QED
  BY <1>1, <1>2, <1>3 DEF AskingInv, RowsInv

LEMMA FailStep == FeedInv /\ Fail => FeedInv'
<1> SUFFICES ASSUME FeedInv, Fail PROVE FeedInv'
  OBVIOUS
<1> USE DEF FeedInv, Fail, indexerVars, walk
<1>1. 1 \in Limits
  BY FeedAssumption DEF Limits
<1>2. TypeOK'
  BY <1>1 DEF TypeOK
<1>3. NothingOldLost'
  BY DEF NothingOldLost, Wanted
<1> QED
  BY <1>2, <1>3 DEF AskingInv, RowsInv, CompleteInv

\* What a query adds is older than the token, and an event of its kind is left
\* out only for as many newer ones as the page holds.
LEMMA QueryStep ==
  ASSUME FeedInv, NEW kind \in Kinds, Query(kind)
  PROVE  FeedInv'
<1> USE DEF FeedInv, Query, indexerVars, walk
<1> DEFINE All == {e \in EventIds : HeightOf(e) <= committed /\ kindOf[e] = kind /\ Older(e)}
<1>1. TableRows(kind) = Newest(All, limit)
  BY DEF TableRows, TableLimit
<1>2. All \in SUBSET EventIds /\ TableRows(kind) \in SUBSET All
  BY <1>1 DEF Newest
<1>3. rows' = rows \cup TableRows(kind) /\ rows' \in SUBSET EventIds
  BY <1>2 DEF TypeOK
<1>4. TypeOK'
  BY <1>3 DEF TypeOK
<1>5. RowsInv'
  BY <1>2 DEF RowsInv, Older
<1>6. NothingOldLost'
  BY DEF NothingOldLost, Wanted
<1>7. CompleteInv'
  <2> SUFFICES ASSUME NEW e \in Wanted, kindOf[e] \notin todo', HeightOf(e) <= began, Older(e),
                      e \notin rows'
               PROVE  Cardinality(NewerIn(rows', e)) >= limit
    BY DEF CompleteInv, Wanted, Older
  <2>1. e \in EventIds /\ e \in Int /\ limit \in Nat
    BY EventTypes DEF Wanted, TypeOK, Limits
  <2>2. PICK some \in SUBSET rows' : Cardinality(NewerIn(some, e)) >= limit
    <3>1. CASE kindOf[e] = kind
      <4>1. began <= committed /\ asking
        BY DEF AskingInv
      <4>2. e \in All
        BY <2>1, <3>1, <4>1, EventTypes, IndexerAssumption DEF TypeOK
      <4>3. Cardinality(NewerIn(TableRows(kind), e)) >= limit
        BY <1>1, <1>2, <1>3, <2>1, <4>2, LeftOutForNewer
      <4> QED
        BY <1>3, <4>3
    <3>2. CASE kindOf[e] # kind
      BY <1>3, <3>2 DEF CompleteInv
    <3> QED
      BY <3>1, <3>2
  <2> QED
    <3>1. some \in SUBSET EventIds
      BY <1>3
    <3>2. /\ Cardinality(NewerIn(some, e)) <= Cardinality(NewerIn(rows', e))
          /\ Cardinality(NewerIn(some, e)) \in Nat /\ Cardinality(NewerIn(rows', e)) \in Nat
      BY <1>3, <2>1, NewerGrows
    <3> QED
      BY <2>1, <2>2, <3>2
<1> QED
  BY <1>4, <1>5, <1>6, <1>7 DEF AskingInv

\* A page that is not empty holds every wanted event down to its oldest.
LEMMA PageIsComplete ==
  ASSUME FeedInv, asking, todo = {}, Page # {},
         NEW e \in Wanted, HeightOf(e) <= began, Older(e), NextToken(Page) <= e
  PROVE  e \in Page
<1> DEFINE oldest == NextToken(Page)
<1> USE DEF FeedInv
<1>1. rows \in SUBSET EventIds /\ Page \in SUBSET rows /\ Page \in SUBSET EventIds
  BY DEF TypeOK, Page, Newest
<1>2. oldest \in Page
  BY <1>1, TokenIsOldest
<1>3. e \in Int /\ oldest \in Int /\ limit \in Int
  BY <1>1, <1>2, EventTypes DEF Wanted, TypeOK, Limits
<1>4. Cardinality(NewerIn(rows, oldest)) < limit
  BY <1>2 DEF Page, Newest, NewerIn
<1>5. /\ Cardinality(NewerIn(rows, e)) <= Cardinality(NewerIn(rows, oldest))
      /\ Cardinality(NewerIn(rows, e)) \in Nat /\ Cardinality(NewerIn(rows, oldest)) \in Nat
  BY <1>1, <1>3, NewerGrows
<1>6. Cardinality(NewerIn(rows, e)) < limit
  BY <1>3, <1>4, <1>5
<1>7. e \in rows
  BY <1>3, <1>5, <1>6 DEF CompleteInv
<1> QED
  BY <1>6, <1>7 DEF Page, Newest, NewerIn

LEMMA AnswerStep == FeedInv /\ Answer => FeedInv'
<1> SUFFICES ASSUME FeedInv, Answer PROVE FeedInv'
  OBVIOUS
<1> USE DEF FeedInv, Answer, indexerVars
<1>1. 1 \in Limits
  BY FeedAssumption DEF Limits
<1>2. Page \in SUBSET EventIds /\ Page \in SUBSET rows
  BY DEF TypeOK, Page, Newest
<1>3. asking /\ walking /\ ~asking' /\ (walking' <=> Page # {})
  BY DEF AskingInv
<1>4. CASE Page = {}
  <2>1. token' = 0 /\ ~walking' /\ served' = served
    BY <1>4 DEF NextToken
  <2>2. TypeOK'
    BY <1>1, <2>1 DEF TypeOK
  <2> QED
    BY <1>3, <2>1, <2>2 DEF AskingInv, RowsInv, CompleteInv, NothingOldLost
<1>5. CASE Page # {}
  <2> DEFINE oldest == NextToken(Page)
  <2>1. oldest \in Page /\ oldest \in EventIds /\ oldest \in Nat /\ \A f \in Page : oldest <= f
    BY <1>2, <1>5, TokenIsOldest, EventTypes
  <2>2. token' = oldest /\ token' # NoToken /\ oldest \in served'
    BY <2>1 DEF NoToken
  <2>3. \A f \in served' : oldest <= f
    <3>1. ASSUME NEW f \in served
          PROVE  oldest <= f
      <4>1. token # NoToken /\ token <= f
        BY <1>3 DEF AskingInv, TypeOK
      <4>2. oldest < token
        BY <1>2, <1>3, <2>1, <4>1 DEF RowsInv, Older
      <4>3. token \in Int /\ f \in Int
        BY EventTypes DEF TypeOK, NoToken
      <4> QED
        BY <2>1, <4>1, <4>2, <4>3
    <3> QED
      BY <2>1, <3>1
  <2>4. TypeOK'
    BY <1>1, <1>2, <2>1, <2>2, <2>3 DEF TypeOK
  <2>5. NothingOldLost'
    <3> SUFFICES ASSUME NEW e \in Wanted, HeightOf(e) <= began, e >= oldest
                 PROVE  e \in served'
      BY <2>2 DEF NothingOldLost, Wanted
    <3>1. CASE Older(e)
      BY <1>3, <1>5, <3>1, PageIsComplete
    <3>2. CASE ~Older(e)
      <4>1. e >= token /\ token # NoToken
        BY <3>2, EventTypes DEF Older, Wanted, TypeOK, NoToken
      <4> QED
        BY <1>3, <4>1 DEF NothingOldLost
    <3> QED
      BY <3>1, <3>2
  <2>6. (walking => began <= committed /\ (token = NoToken => served = {}))'
    BY <1>3, <2>2
  <2> QED
    BY <1>3, <2>4, <2>5, <2>6 DEF AskingInv, RowsInv, CompleteInv
<1> QED
  BY <1>4, <1>5

LEMMA StepHolds == FeedInv /\ [Next]_vars => FeedInv'
<1> SUFFICES ASSUME FeedInv, [Next]_vars PROVE FeedInv'
  OBVIOUS
<1>1. CASE StartServing
  BY <1>1, IndexerStep DEF StartServing, IndexerNext
<1>2. CASE Index
  BY <1>2, IndexerStep DEF Index, IndexerNext
<1>3. CASE StopServing
  BY <1>3, IndexerStep DEF StopServing, IndexerNext
<1>4. CASE \E kind \in Kinds : Query(kind)
  BY <1>4, QueryStep
<1>5. CASE UNCHANGED vars
  BY <1>5 DEF vars, FeedInv, TypeOK, AskingInv, RowsInv, CompleteInv, NothingOldLost, Wanted, Older
<1> QED
  BY <1>1, <1>2, <1>3, <1>4, <1>5, BeginStep, AskStep, AnswerStep, FailStep DEF Next

LEMMA FeedInvHolds == Spec => []FeedInv
BY InitHolds, StepHolds, PTL DEF Spec

------------------------------------------------------------------------------
\* Every state of a walk has its type, and its token is the oldest event that
\* it was served (actions.rs:86).
THEOREM FeedTypes == Spec => []TypeOK
<1>1. FeedInv => TypeOK
  BY DEF FeedInv
<1> QED
  BY <1>1, FeedInvHolds, PTL

\* No page repeats an event or steps back to a newer one (actions.rs:8-10),
\* whatever the sizes of the pages and the blocks that arrive between them.
THEOREM FeedDescends == Spec => []PagesDescend
<1>1. FeedInv => PagesDescend
  <2> SUFFICES ASSUME FeedInv, asking, NEW e \in rows, NEW f \in served
               PROVE  e < f
    BY DEF PagesDescend
  <2>1. token # NoToken /\ token <= f
    BY DEF FeedInv, AskingInv, TypeOK
  <2>2. e < token
    BY <2>1 DEF FeedInv, RowsInv, Older
  <2>3. e \in Int /\ f \in Int /\ token \in Int
    BY EventTypes DEF FeedInv, TypeOK, NoToken
  <2> QED
    BY <2>1, <2>2, <2>3
<1> QED
  BY <1>1, FeedInvHolds, PTL

\* No page skips an event that was committed when the walk began, whichever
\* kind dominates (actions.rs:41-43).
THEOREM FeedLosesNothing == Spec => []NothingOldLost
<1>1. FeedInv => NothingOldLost
  BY DEF FeedInv
<1> QED
  BY <1>1, FeedInvHolds, PTL

\* A page that is not full holds all that the queries returned.
LEMMA ShortPageIsAll ==
  ASSUME TypeOK, Cardinality(Page) < limit
  PROVE  Page = rows
<1>1. rows \in SUBSET EventIds /\ Page \in SUBSET EventIds /\ limit \in Nat
  BY DEF TypeOK, Page, Newest, Limits
<1>2. ASSUME NEW e \in rows, e \notin Page
      PROVE  FALSE
  <2>1. Cardinality(NewerIn(Page, e)) >= limit
    BY <1>1, <1>2, LeftOutForNewer DEF Page
  <2>2. IsFiniteSet(Page) /\ Cardinality(Page) \in Nat
    BY <1>1, EventsAreFinite
  <2>3. NewerIn(Page, e) \in SUBSET Page
    BY DEF NewerIn
  <2>4. Cardinality(NewerIn(Page, e)) <= Cardinality(Page) /\ Cardinality(NewerIn(Page, e)) \in Nat
    BY <2>2, <2>3, FS_Subset, FS_CardinalityType
  <2> QED
    BY <1>1, <2>1, <2>2, <2>4
<1> QED
  BY <1>2 DEF Page, Newest

\* The page of a request has nothing that was served before.
LEMMA PageIsNew ==
  ASSUME FeedInv, asking
  PROVE  Cardinality(served \cup Page) = Cardinality(served) + Cardinality(Page)
<1>1. served \in SUBSET EventIds /\ Page \in SUBSET EventIds /\ Page \in SUBSET rows
  BY DEF FeedInv, TypeOK, Page, Newest
<1>2. IsFiniteSet(served) /\ IsFiniteSet(Page) /\ Cardinality(served) \in Nat
      /\ Cardinality(Page) \in Nat
  BY <1>1, EventsAreFinite
<1>3. ASSUME NEW e \in Page, e \in served
      PROVE  FALSE
  <2>1. token # NoToken /\ token <= e
    BY <1>3 DEF FeedInv, AskingInv, TypeOK
  <2>2. e < token
    BY <1>1, <2>1 DEF FeedInv, RowsInv, Older
  <2>3. e \in Int /\ token \in Int
    BY <1>1, EventTypes DEF FeedInv, TypeOK, NoToken
  <2> QED
    BY <2>1, <2>2, <2>3
<1>4. served \cap Page = {}
  BY <1>3
<1>5. Cardinality(served \cap Page) = 0
  BY <1>4, FS_EmptySet
<1>6. Cardinality(served \cup Page)
        = Cardinality(served) + Cardinality(Page) - Cardinality(served \cap Page)
  BY <1>2, FS_Union
<1> QED
  BY <1>2, <1>5, <1>6

\* A page shorter than its limit is the end of the feed, though each kind is
\* queried with the limit of the page and the merge is trimmed
\* (actions.rs:41-43, 84).
THEOREM FeedEndsShort == Spec => ShortPageIsTheEnd
<1>1. ASSUME FeedInv, [Next]_vars, asking, todo = {}, ~asking', token' # token,
             Cardinality(served') < Cardinality(served) + limit,
             NEW e \in Wanted, HeightOf(e) <= began
      PROVE  e \in served'
  <2>1. Answer
    <3>1. walking
      BY <1>1 DEF FeedInv, AskingInv
    <3> QED
      BY <1>1, <3>1 DEF Next, vars, walk, StartServing, Index, StopServing, Begin, Ask, Query,
                        Fail
  <2>2. served' = served \cup Page
    BY <2>1 DEF Answer
  <2>3. /\ rows \in SUBSET EventIds /\ Page \in SUBSET EventIds /\ limit \in Nat
        /\ served \in SUBSET EventIds
    BY <1>1 DEF FeedInv, TypeOK, Page, Newest, Limits
  <2>4. Cardinality(Page) < limit
    <3>1. Cardinality(served \cup Page) = Cardinality(served) + Cardinality(Page)
      BY <1>1, PageIsNew
    <3>2. Cardinality(served) \in Nat /\ Cardinality(Page) \in Nat
      BY <2>3, EventsAreFinite
    <3> QED
      BY <1>1, <2>2, <2>3, <3>1, <3>2
  <2>5. Page = rows
    BY <1>1, <2>4, ShortPageIsAll DEF FeedInv
  <2>6. Cardinality(NewerIn(rows, e)) < limit
    <3>1. IsFiniteSet(rows) /\ Cardinality(rows) \in Nat
      BY <2>3, EventsAreFinite
    <3>2. NewerIn(rows, e) \in SUBSET rows
      BY DEF NewerIn
    <3>3. Cardinality(NewerIn(rows, e)) <= Cardinality(rows) /\ Cardinality(NewerIn(rows, e)) \in Nat
      BY <3>1, <3>2, FS_Subset, FS_CardinalityType
    <3> QED
      BY <2>3, <2>4, <2>5, <3>1, <3>3
  <2>7. CASE Older(e)
    <3>1. ~(Cardinality(NewerIn(rows, e)) >= limit)
      <4>1. Cardinality(NewerIn(rows, e)) \in Nat
        BY <2>3, EventsAreFinite DEF NewerIn
      <4> QED
        BY <2>3, <2>6, <4>1
    <3>2. e \in rows
      BY <1>1, <2>7, <3>1 DEF FeedInv, CompleteInv
    <3> QED
      BY <2>2, <2>5, <3>2
  <2>8. CASE ~Older(e)
    <3>1. token # NoToken /\ e >= token
      BY <1>1, <2>8, EventTypes DEF Older, Wanted, FeedInv, TypeOK, NoToken
    <3>2. walking
      BY <1>1 DEF FeedInv, AskingInv
    <3>3. e \in served
      BY <1>1, <3>1, <3>2 DEF FeedInv, NothingOldLost
    <3> QED
      BY <2>2, <3>3
  <2> QED
    BY <2>7, <2>8
<1>2. FeedInv /\ [Next]_vars =>
        [asking /\ todo = {} /\ ~asking' /\ token' # token
           /\ Cardinality(served') < Cardinality(served) + limit =>
              \A e \in Wanted : HeightOf(e) <= began => e \in served']_vars
  BY <1>1
<1> QED
  BY <1>2, FeedInvHolds, PTL DEF Spec, ShortPageIsTheEnd

=============================================================================
