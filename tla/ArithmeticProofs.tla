--------------------------- MODULE ArithmeticProofs ---------------------------
(***************************************************************************)
(* What the proofs about the modules need of numbers: products and         *)
(* quotients; induction over numbers and finite sets in the form the       *)
(* provers can instantiate, a set that contains everything in place of a   *)
(* predicate that holds; and with it the laws of sums, which the model     *)
(* writes with MapThenSumSet.                                              *)
(***************************************************************************)
EXTENDS Integers, FiniteSetsExt, FiniteSetTheorems, FunctionTheorems, WellFoundedInduction, TLAPS

\* A product grows with its factor.
LEMMA ProductGrows ==
  ASSUME NEW a \in Int, NEW b \in Int, NEW d \in Nat, a <= b
  PROVE  a * d <= b * d
<1>1. PICK c \in Nat : b = a + c
  <2>1. b - a \in Nat /\ b = a + (b - a)
    OBVIOUS
  <2> QED
    BY <2>1
<1>2. (a + c) * d = a * d + c * d /\ c * d \in Nat /\ a * d \in Int
  OBVIOUS
<1> QED
  BY <1>1, <1>2

\* A number lies between its quotient and the next, times the divisor.
LEMMA QuotientBrackets ==
  ASSUME NEW n \in Int, NEW d \in Nat \ {0}
  PROVE  /\ n \div d \in Int /\ (n \div d) * d <= n /\ n < (n \div d + 1) * d
         /\ n \in Nat => n \div d \in Nat
<1> DEFINE q == n \div d
           m == n % d
<1>1. q \in Int /\ m \in 0 .. d - 1 /\ n = d * q + m
  OBVIOUS
<1>2. n \in Nat => q >= 0
  OBVIOUS
<1> HIDE DEF q, m
<1>3. d * q = q * d /\ (q + 1) * d = q * d + d /\ q * d \in Int
  BY <1>1
<1>4. q * d <= n /\ n < (q + 1) * d
  BY <1>1, <1>2, <1>3
<1> QED
  BY <1>1, <1>2, <1>4 DEF q

\* What is between two neighbouring multiples has that quotient.
LEMMA QuotientIs ==
  ASSUME NEW n \in Int, NEW d \in Nat \ {0}, NEW k \in Int
  PROVE  n \div d = k <=> k * d <= n /\ n < (k + 1) * d
<1> DEFINE q == n \div d
<1>1. q \in Int /\ q * d <= n /\ n < (q + 1) * d
  BY QuotientBrackets
<1> HIDE DEF q
<1>2. ASSUME k * d <= n, n < (k + 1) * d
      PROVE  q = k
  <2>1. k * d \in Int /\ q * d \in Int /\ (q + 1) * d \in Int /\ (k + 1) * d \in Int
    BY <1>1
  <2>2. ~(q + 1 <= k)
    <3>1. q + 1 <= k => (q + 1) * d <= k * d
      BY <1>1, ProductGrows
    <3> QED
      BY <1>1, <1>2, <2>1, <3>1
  <2>3. ~(k + 1 <= q)
    <3>1. k + 1 <= q => (k + 1) * d <= q * d
      BY <1>1, ProductGrows
    <3> QED
      BY <1>1, <1>2, <2>1, <3>1
  <2> QED
    BY <1>1, <2>2, <2>3
<1>3. q = k <=> k * d <= n /\ n < (k + 1) * d
  BY <1>1, <1>2
<1> QED
  BY <1>3 DEF q

\* A number is its quotient times the divisor and the remainder.
LEMMA Division ==
  ASSUME NEW n \in Int, NEW d \in Nat \ {0}
  PROVE  /\ n \div d \in Int /\ n % d \in 0 .. d - 1 /\ (n \div d) * d + (n % d) = n
         /\ n \in Nat => n \div d \in Nat
<1> DEFINE q == n \div d
           m == n % d
<1>1. q \in Int /\ m \in 0 .. d - 1 /\ n = d * q + m
  OBVIOUS
<1>2. n \in Nat => q >= 0
  OBVIOUS
<1> HIDE DEF q, m
<1>3. q * d + m = n /\ (n \in Nat => q \in Nat)
  BY <1>1, <1>2
<1> QED
  BY <1>1, <1>3 DEF q, m

\* A quotient and its remainder are those of the division.
LEMMA DivisionOf ==
  ASSUME NEW d \in Nat \ {0}, NEW a \in Int, NEW r \in 0 .. d - 1
  PROVE  (a * d + r) \div d = a /\ (a * d + r) % d = r
<1> DEFINE n == a * d + r
           q == n \div d
           m == n % d
<1>1. a * d \in Int /\ n \in Int
  OBVIOUS
<1>2. q \in Int /\ m \in 0 .. d - 1 /\ n = d * q + m
  BY <1>1
<1> HIDE DEF q, m
<1>3. d * q + m = d * a + r
  BY <1>2
<1>4. q = a
  <2>1. CASE q > a
    <3>1. PICK c \in Nat : q = a + 1 + c
      <4>1. q - a - 1 \in Nat /\ q = a + 1 + (q - a - 1)
        BY <1>2, <2>1
      <4> QED BY <4>1
    <3>2. d * (a + 1 + c) = d * a + d + d * c /\ d * c \in Nat /\ d * a \in Int
      OBVIOUS
    <3> QED BY <1>2, <1>3, <3>1, <3>2
  <2>2. CASE q < a
    <3>1. PICK c \in Nat : a = q + 1 + c
      <4>1. a - q - 1 \in Nat /\ a = q + 1 + (a - q - 1)
        BY <1>2, <2>2
      <4> QED BY <4>1
    <3>2. d * (q + 1 + c) = d * q + d + d * c /\ d * c \in Nat /\ d * q \in Int
      BY <1>2
    <3> QED BY <1>2, <1>3, <3>1, <3>2
  <2> QED BY <1>2, <2>1, <2>2
<1>5. m = r
  BY <1>2, <1>3, <1>4
<1> QED BY <1>4, <1>5 DEF q, m

------------------------------------------------------------------------------
\* Induction.

\* A set of natural numbers has a least one: the members up to n, for every
\* member n, are finite sets, and one of them has no other below it.
LEMMA LeastNatural ==
  ASSUME NEW S \in SUBSET Nat, S # {}
  PROVE  \E n \in S : \A m \in S : n <= m
<1> DEFINE Upto(n) == {m \in S : m <= n}
           All == {Upto(n) : n \in S}
<1>1. All \subseteq FiniteSubsetsOf(S)
  BY FS_BoundedSetOfNaturals DEF FiniteSubsetsOf
<1>2. PICK X \in All : \A Y \in All : ~(<<Y, X>> \in StrictSubsetOrdering(S))
  <2>1. All # {}
    OBVIOUS
  <2> QED
    BY <1>1, <2>1, FS_StrictSubsetOrderingWellFounded, WFMin
<1>3. PICK n \in S : X = Upto(n)
  BY <1>2
<1>4. ASSUME NEW m \in S, m < n
      PROVE  FALSE
  <2>1. Upto(m) \subseteq Upto(n) /\ n \in Upto(n) /\ n \notin Upto(m)
    <3>1. \A x \in S : x <= m => x <= n
      BY <1>4
    <3>2. n <= n /\ ~(n <= m)
      BY <1>4
    <3> QED
      BY <3>1, <3>2
  <2>2. <<Upto(m), X>> \in StrictSubsetOrdering(S)
    BY <1>3, <2>1 DEF StrictSubsetOrdering
  <2> QED
    BY <1>2, <2>2
<1> QED
  BY <1>4

LEMMA NaturalInduction ==
  ASSUME NEW S \in SUBSET Nat, 0 \in S, \A n \in S : n + 1 \in S
  PROVE  \A n \in Nat : n \in S
<1> SUFFICES ASSUME NEW k \in Nat \ S PROVE FALSE
  OBVIOUS
<1>1. PICK n \in Nat \ S : \A m \in Nat \ S : n <= m
  BY LeastNatural
<1>2. n # 0 /\ n - 1 \in Nat
  BY <1>1
<1>3. n - 1 \in S /\ (n - 1) + 1 = n
  BY <1>1, <1>2
<1> QED
  BY <1>1, <1>3

\* A family of subsets of S that has the empty set and, with a subset, that and
\* one more member, has S.
LEMMA FiniteInduction ==
  ASSUME NEW S, IsFiniteSet(S), NEW C, {} \in C,
         \A T \in SUBSET S, x \in S : T \in C /\ x \notin T => T \cup {x} \in C
  PROVE  S \in C
<1> DEFINE Sizes == {n \in Nat : \A T \in SUBSET S : Cardinality(T) = n => T \in C}
<1>1. \A T \in SUBSET S : IsFiniteSet(T) /\ Cardinality(T) \in Nat
  BY FS_Subset, FS_CardinalityType
<1>2. 0 \in Sizes
  BY <1>1, FS_EmptySet
<1>3. ASSUME NEW n \in Sizes PROVE n + 1 \in Sizes
  <2>1. ASSUME NEW T \in SUBSET S, Cardinality(T) = n + 1 PROVE T \in C
    <3>1. PICK x \in T : TRUE
      BY <1>1, <2>1, FS_EmptySet
    <3>2. T \ {x} \in SUBSET S /\ Cardinality(T \ {x}) = n
      <4>1. IsFiniteSet(T) /\ n \in Nat
        BY <1>1
      <4>2. Cardinality(T \ {x}) = Cardinality(T) - 1
        BY <3>1, <4>1, FS_RemoveElement
      <4> QED
        BY <2>1, <4>1, <4>2
    <3>3. T = (T \ {x}) \cup {x}
      OBVIOUS
    <3> QED
      BY <3>2, <3>3
  <2> QED
    BY <2>1
<1> HIDE DEF Sizes
<1>4. Cardinality(S) \in Sizes
  <2>1. Sizes \subseteq Nat
    BY DEF Sizes
  <2> QED
    BY <1>1, <1>2, <1>3, <2>1, NaturalInduction
<1> QED
  BY <1>4 DEF Sizes

------------------------------------------------------------------------------
\* Sums.

\* The sum of a function: any sum of the model is one of these.
Total(f) == MapThenSumSet(LAMBDA x : f[x], DOMAIN f)

\* What MapThenSumSet recurses on: sum has the sums over the subsets of S.
SumsUpTo(f, S, n, sum) ==
  sum = [s \in {s \in SUBSET S : Cardinality(s) <= n} |->
           IF s = {} THEN 0
           ELSE f[CHOOSE x \in s : TRUE] + sum[s \ {CHOOSE x \in s : TRUE}]]

IsSum(f, S, sum) ==
  sum = [s \in SUBSET S |->
           IF s = {} THEN 0 ELSE LET x == CHOOSE x \in s : TRUE IN f[x] + sum[s \ {x}]]

LEMMA TotalIs == ASSUME NEW f
  PROVE Total(f) = (CHOOSE sum : IsSum(f, DOMAIN f, sum))[DOMAIN f]
BY DEF Total, MapThenSumSet, MapThenFoldSet, IsSum

\* There is such a function, built up by the size of the subsets.
LEMMA SumExists ==
  ASSUME NEW S, IsFiniteSet(S), NEW f
  PROVE  \E sum : IsSum(f, S, sum)
<1> DEFINE Some(s) == CHOOSE x \in s : TRUE
           Small(n) == {s \in SUBSET S : Cardinality(s) <= n}
           Good == {n \in Nat : \E sum : SumsUpTo(f, S, n, sum)}
<1>1. \A s \in SUBSET S : IsFiniteSet(s) /\ Cardinality(s) \in Nat
  BY FS_Subset, FS_CardinalityType
<1>2. 0 \in Good
  <2> DEFINE sum == [s \in Small(0) |-> 0]
  <2>1. \A s \in Small(0) : s = {}
    BY <1>1, FS_EmptySet
  <2>2. SumsUpTo(f, S, 0, sum)
    BY <2>1 DEF SumsUpTo
  <2> QED
    BY <2>2
<1>3. ASSUME NEW n \in Good PROVE n + 1 \in Good
  <2>1. PICK sum : SumsUpTo(f, S, n, sum)
    BY <1>3
  <2> DEFINE more == [s \in Small(n + 1) |->
                        IF s = {} THEN 0 ELSE f[Some(s)] + sum[s \ {Some(s)}]]
  <2>2. ASSUME NEW s \in Small(n + 1), s # {}
        PROVE  s \ {Some(s)} \in Small(n)
    <3>1. IsFiniteSet(s) /\ Cardinality(s) \in Nat /\ n \in Nat /\ Some(s) \in s
      BY <1>1, <2>2
    <3>2. Cardinality(s \ {Some(s)}) = Cardinality(s) - 1
      BY <3>1, FS_RemoveElement
    <3> QED
      BY <3>1, <3>2
  <2>3. ASSUME NEW s \in Small(n)
        PROVE  s \in Small(n + 1) /\ more[s] = sum[s]
    <3>1. s \in Small(n + 1)
      BY <1>1, <1>3
    <3>2. sum[s] = IF s = {} THEN 0 ELSE f[Some(s)] + sum[s \ {Some(s)}]
      BY <2>1, <2>3 DEF SumsUpTo
    <3> QED
      BY <3>1, <3>2
  <2>4. more = [s \in Small(n + 1) |->
                  IF s = {} THEN 0 ELSE f[Some(s)] + more[s \ {Some(s)}]]
    <3>1. ASSUME NEW s \in Small(n + 1)
          PROVE  (IF s = {} THEN 0 ELSE f[Some(s)] + sum[s \ {Some(s)}])
                   = (IF s = {} THEN 0 ELSE f[Some(s)] + more[s \ {Some(s)}])
      <4> HIDE DEF more, Small
      <4> QED
        BY <2>2, <2>3
    <3> HIDE DEF Small
    <3> QED
      BY <3>1
  <2> HIDE DEF more
  <2>5. SumsUpTo(f, S, n + 1, more)
    BY <2>4 DEF SumsUpTo
  <2> QED
    BY <1>3, <2>5
<1>4. Cardinality(S) \in Good
  <2>1. Good \subseteq Nat
    OBVIOUS
  <2> HIDE DEF Good
  <2> QED
    BY <1>1, <1>2, <1>3, <2>1, NaturalInduction
<1>5. PICK sum : SumsUpTo(f, S, Cardinality(S), sum)
  BY <1>4
<1>6. Small(Cardinality(S)) = SUBSET S
  BY FS_Subset
<1>7. IsSum(f, S, sum)
  BY <1>5, <1>6 DEF SumsUpTo, IsSum
<1> QED
  BY <1>7

\* The sum over a subset is the total of the function's part.
Part(f, T) == [x \in T |-> f[x]]

LEMMA SumOfPart ==
  ASSUME NEW S, IsFiniteSet(S), NEW f, NEW sum, IsSum(f, S, sum), NEW T \in SUBSET S
  PROVE  Total(Part(f, T)) = sum[T]
<1> DEFINE Some(s) == CHOOSE x \in s : TRUE
           other == CHOOSE r : IsSum(Part(f, T), T, r)
           Same == {s \in SUBSET T : other[s] = sum[s]}
           Sizes == {n \in Nat : \A s \in SUBSET T : Cardinality(s) = n => s \in Same}
<1>1. IsFiniteSet(T) /\ \A s \in SUBSET T : IsFiniteSet(s) /\ Cardinality(s) \in Nat
  BY FS_Subset, FS_CardinalityType
<1>2. DOMAIN Part(f, T) = T /\ \A x \in T : Part(f, T)[x] = f[x]
  BY DEF Part
<1>3. IsSum(Part(f, T), T, other)
  <2>1. \E r : IsSum(Part(f, T), T, r)
    BY <1>1, SumExists
  <2> QED
    BY <2>1
<1>4. \A s \in SUBSET T :
        other[s] = IF s = {} THEN 0 ELSE Part(f, T)[Some(s)] + other[s \ {Some(s)}]
  BY <1>3 DEF IsSum
<1>5. \A s \in SUBSET T :
        sum[s] = IF s = {} THEN 0 ELSE f[Some(s)] + sum[s \ {Some(s)}]
  <2>1. \A s \in SUBSET T : s \in SUBSET S
    OBVIOUS
  <2> QED
    BY <2>1 DEF IsSum
<1> HIDE DEF other
<1>6. 0 \in Sizes
  BY <1>1, <1>4, <1>5, FS_EmptySet
<1>7. ASSUME NEW n \in Sizes PROVE n + 1 \in Sizes
  <2>1. ASSUME NEW s \in SUBSET T, Cardinality(s) = n + 1
        PROVE  other[s] = sum[s]
    <3>1. s # {} /\ Some(s) \in s /\ Some(s) \in T
      BY <1>1, <1>7, <2>1, FS_EmptySet
    <3>2. s \ {Some(s)} \in SUBSET T /\ Cardinality(s \ {Some(s)}) = n
      <4>1. IsFiniteSet(s) /\ n \in Nat
        BY <1>1
      <4>2. Cardinality(s \ {Some(s)}) = Cardinality(s) - 1
        BY <3>1, <4>1, FS_RemoveElement
      <4> QED
        BY <2>1, <4>1, <4>2
    <3>3. other[s \ {Some(s)}] = sum[s \ {Some(s)}]
      BY <1>7, <3>2
    <3> QED
      BY <1>2, <1>4, <1>5, <3>1, <3>3
  <2> QED
    BY <2>1
<1>8. T \in Same
  <2>1. Sizes \subseteq Nat
    OBVIOUS
  <2> HIDE DEF Sizes, Same
  <2>2. Cardinality(T) \in Sizes
    BY <1>1, <1>6, <1>7, <2>1, NaturalInduction
  <2> QED
    BY <2>2 DEF Sizes
<1>9. Total(Part(f, T)) = other[T]
  BY <1>2, TotalIs DEF other
<1> QED
  BY <1>8, <1>9

\* The sum of a function over a subset of its domain.
Over(f, T) == Total(Part(f, T))

LEMMA SumIsInteger ==
  ASSUME NEW S, IsFiniteSet(S), NEW f \in [S -> Int], NEW sum, IsSum(f, S, sum)
  PROVE  \A s \in SUBSET S : sum[s] \in Int
<1> DEFINE Some(s) == CHOOSE x \in s : TRUE
           Sizes == {n \in Nat : \A s \in SUBSET S : Cardinality(s) = n => sum[s] \in Int}
<1>1. \A s \in SUBSET S : IsFiniteSet(s) /\ Cardinality(s) \in Nat
  BY FS_Subset, FS_CardinalityType
<1>2. \A s \in SUBSET S : sum[s] = IF s = {} THEN 0 ELSE f[Some(s)] + sum[s \ {Some(s)}]
  BY DEF IsSum
<1>3. 0 \in Sizes
  BY <1>1, <1>2, FS_EmptySet
<1>4. ASSUME NEW n \in Sizes PROVE n + 1 \in Sizes
  <2>1. ASSUME NEW s \in SUBSET S, Cardinality(s) = n + 1
        PROVE  sum[s] \in Int
    <3> DEFINE c == Some(s)
    <3>1. IsFiniteSet(s) /\ n \in Nat /\ s # {}
      BY <1>1, <2>1, FS_EmptySet
    <3>2. c \in s /\ sum[s] = f[c] + sum[s \ {c}]
      BY <1>2, <3>1
    <3> HIDE DEF c
    <3>3. Cardinality(s \ {c}) = n
      <4>1. Cardinality(s \ {c}) = Cardinality(s) - 1
        BY <3>1, <3>2, FS_RemoveElement
      <4> QED
        BY <2>1, <3>1, <4>1
    <3>4. sum[s \ {c}] \in Int /\ f[c] \in Int
      BY <3>2, <3>3
    <3> QED
      BY <3>2, <3>4
  <2> QED
    BY <2>1
<1>5. Sizes \subseteq Nat
  OBVIOUS
<1> HIDE DEF Sizes
<1>6. \A s \in SUBSET S : Cardinality(s) \in Sizes
  BY <1>1, <1>3, <1>4, <1>5, NaturalInduction
<1> QED
  BY <1>6 DEF Sizes

\* Any member may be added last.
LEMMA SumPicks ==
  ASSUME NEW S, IsFiniteSet(S), NEW f \in [S -> Int], NEW sum, IsSum(f, S, sum)
  PROVE  \A s \in SUBSET S : \A x \in s : sum[s] = f[x] + sum[s \ {x}]
<1> DEFINE Some(s) == CHOOSE x \in s : TRUE
           Fine(s) == \A x \in s : sum[s] = f[x] + sum[s \ {x}]
           Sizes == {n \in Nat : \A s \in SUBSET S : Cardinality(s) = n => Fine(s)}
<1>1. \A s \in SUBSET S : IsFiniteSet(s) /\ Cardinality(s) \in Nat
  BY FS_Subset, FS_CardinalityType
<1>2. \A s \in SUBSET S : sum[s] = IF s = {} THEN 0 ELSE f[Some(s)] + sum[s \ {Some(s)}]
  BY DEF IsSum
<1>3. 0 \in Sizes
  BY <1>1, FS_EmptySet
<1>4. ASSUME NEW n \in Sizes PROVE n + 1 \in Sizes
  <2>1. n \in Nat /\ \A s \in SUBSET S : Cardinality(s) = n => Fine(s)
    OBVIOUS
  <2>2. ASSUME NEW s \in SUBSET S, NEW x \in s, Cardinality(s) = n + 1
        PROVE  s \ {x} \in SUBSET S /\ Cardinality(s \ {x}) = n
    <3>1. Cardinality(s \ {x}) = Cardinality(s) - 1
      BY <1>1, FS_RemoveElement
    <3> QED
      BY <2>1, <2>2, <3>1
  <2>3. ASSUME NEW s \in SUBSET S, Cardinality(s) = n + 1, NEW x \in s
        PROVE  sum[s] = f[x] + sum[s \ {x}]
    <3> DEFINE c == Some(s)
    <3>1. c \in s /\ sum[s] = f[c] + sum[s \ {c}]
      BY <1>2
    <3> HIDE DEF c
    <3>2. CASE x = c
      BY <3>1, <3>2
    <3>3. CASE x # c
      <4>1. Fine(s \ {x}) /\ Fine(s \ {c})
        BY <2>1, <2>2, <2>3, <3>1
      <4> DEFINE u == (s \ {c}) \ {x}
      <4>2. c \in s \ {x} /\ x \in s \ {c} /\ (s \ {x}) \ {c} = u
        BY <3>1, <3>3
      <4>3. sum[s \ {x}] = f[c] + sum[u] /\ sum[s \ {c}] = f[x] + sum[u]
        BY <4>1, <4>2
      <4>4. u \in SUBSET S /\ x \in S /\ c \in S
        BY <3>1
      <4> HIDE DEF u
      <4>5. f[x] \in Int /\ f[c] \in Int /\ sum[u] \in Int
        BY <4>4, SumIsInteger
      <4> QED
        BY <3>1, <4>3, <4>5
    <3> QED
      BY <3>2, <3>3
  <2> HIDE DEF Fine
  <2>4. \A s \in SUBSET S : Cardinality(s) = n + 1 => Fine(s)
    BY <2>3 DEF Fine
  <2> QED
    BY <2>1, <2>4
<1>5. Sizes \subseteq Nat
  OBVIOUS
<1> HIDE DEF Sizes
<1>6. \A s \in SUBSET S : Cardinality(s) \in Sizes
  BY <1>1, <1>3, <1>4, <1>5, NaturalInduction
<1> QED
  BY <1>6 DEF Sizes

LEMMA OverPick ==
  ASSUME NEW S, IsFiniteSet(S), NEW f \in [S -> Int], NEW T \in SUBSET S
  PROVE  /\ Over(f, T) \in Int
         /\ T = {} => Over(f, T) = 0
         /\ \A x \in T : Over(f, T) = f[x] + Over(f, T \ {x})
<1>1. PICK sum : IsSum(f, S, sum)
  BY SumExists
<1>2. Over(f, T) = sum[T] /\ \A x \in T : Over(f, T \ {x}) = sum[T \ {x}]
  BY <1>1, SumOfPart DEF Over
<1>3. T = {} => sum[T] = 0
  BY <1>1 DEF IsSum
<1>4. sum[T] \in Int
  BY <1>1, SumIsInteger
<1>5. \A x \in T : sum[T] = f[x] + sum[T \ {x}]
  BY <1>1, SumPicks
<1> QED
  BY <1>2, <1>3, <1>4, <1>5

LEMMA OverAdd ==
  ASSUME NEW S, IsFiniteSet(S), NEW f \in [S -> Int], NEW T \in SUBSET S, NEW x \in S \ T
  PROVE  Over(f, T \cup {x}) = f[x] + Over(f, T)
<1>1. T \cup {x} \in SUBSET S /\ (T \cup {x}) \ {x} = T
  OBVIOUS
<1>2. Over(f, T \cup {x}) = f[x] + Over(f, (T \cup {x}) \ {x})
  BY <1>1, OverPick
<1> QED
  BY <1>1, <1>2

\* Sums over disjoint sets add up.
LEMMA OverUnion ==
  ASSUME NEW S, IsFiniteSet(S), NEW f \in [S -> Int],
         NEW T \in SUBSET S, NEW U \in SUBSET S, T \cap U = {}
  PROVE  Over(f, T \cup U) = Over(f, T) + Over(f, U)
<1> DEFINE C == {V \in SUBSET U : Over(f, T \cup V) = Over(f, T) + Over(f, V)}
<1>1. IsFiniteSet(U)
  BY FS_Subset
<1>2. {} \in C
  <2>1. T \cup {} = T /\ {} \in SUBSET S
    OBVIOUS
  <2> QED
    BY <2>1, OverPick
<1>3. ASSUME NEW V \in SUBSET U, NEW x \in U, V \in C, x \notin V
      PROVE  V \cup {x} \in C
  <2>1. /\ T \cup V \in SUBSET S /\ V \in SUBSET S /\ x \in S \ (T \cup V) /\ x \in S \ V
        /\ T \cup (V \cup {x}) = (T \cup V) \cup {x}
    BY <1>3
  <2>2. Over(f, T \cup (V \cup {x})) = f[x] + Over(f, T \cup V)
    BY <2>1, OverAdd
  <2>3. Over(f, V \cup {x}) = f[x] + Over(f, V)
    BY <2>1, OverAdd
  <2>4. Over(f, T) \in Int /\ Over(f, V) \in Int /\ f[x] \in Int
    BY <2>1, OverPick
  <2> QED
    BY <1>3, <2>2, <2>3, <2>4
<1> HIDE DEF C
<1>4. U \in C
  BY <1>1, <1>2, <1>3, FiniteInduction
<1> QED
  BY <1>4 DEF C

\* Sums of equal values are equal; a sum of zeros is zero, of ones the number of
\* members, of natural numbers a natural number.
LEMMA OverSame ==
  ASSUME NEW T, NEW f, NEW g, \A x \in T : f[x] = g[x]
  PROVE  Over(f, T) = Over(g, T)
<1>1. Part(f, T) = Part(g, T)
  BY DEF Part
<1> QED
  BY <1>1 DEF Over

LEMMA OverNat ==
  ASSUME NEW S, IsFiniteSet(S), NEW f \in [S -> Nat]
  PROVE  Over(f, S) \in Nat
<1> DEFINE C == {V \in SUBSET S : Over(f, V) \in Nat}
<1>1. f \in [S -> Int]
  OBVIOUS
<1>2. {} \in C
  BY <1>1, OverPick
<1>3. ASSUME NEW V \in SUBSET S, NEW x \in S, V \in C, x \notin V
      PROVE  V \cup {x} \in C
  <2>1. Over(f, V \cup {x}) = f[x] + Over(f, V)
    BY <1>1, <1>3, OverAdd
  <2> QED
    BY <1>3, <2>1
<1> HIDE DEF C
<1>4. S \in C
  BY <1>2, <1>3, FiniteInduction
<1> QED
  BY <1>4 DEF C

LEMMA OverOnes ==
  ASSUME NEW S, IsFiniteSet(S), NEW f \in [S -> {1}]
  PROVE  Over(f, S) = Cardinality(S)
<1> DEFINE C == {V \in SUBSET S : Over(f, V) = Cardinality(V)}
<1>1. f \in [S -> Int]
  OBVIOUS
<1>2. {} \in C
  BY <1>1, OverPick, FS_EmptySet
<1>3. ASSUME NEW V \in SUBSET S, NEW x \in S, V \in C, x \notin V
      PROVE  V \cup {x} \in C
  <2>1. Over(f, V \cup {x}) = 1 + Over(f, V)
    BY <1>1, <1>3, OverAdd
  <2>2. Cardinality(V \cup {x}) = Cardinality(V) + 1 /\ Cardinality(V) \in Nat
    BY <1>3, FS_AddElement, FS_Subset, FS_CardinalityType
  <2> QED
    BY <1>3, <2>1, <2>2
<1> HIDE DEF C
<1>4. S \in C
  BY <1>2, <1>3, FiniteInduction
<1> QED
  BY <1>4 DEF C

\* The sum of sums, and of multiples.
LEMMA OverPlus ==
  ASSUME NEW S, IsFiniteSet(S), NEW f \in [S -> Int], NEW g \in [S -> Int], NEW m \in Int,
         NEW T \in SUBSET S
  PROVE  Over([x \in S |-> f[x] + m * g[x]], T) = Over(f, T) + m * Over(g, T)
<1> DEFINE h == [x \in S |-> f[x] + m * g[x]]
           C == {V \in SUBSET T : Over(h, V) = Over(f, V) + m * Over(g, V)}
<1>1. IsFiniteSet(T) /\ h \in [S -> Int] /\ \A x \in S : h[x] = f[x] + m * g[x]
  BY FS_Subset
<1> HIDE DEF h
<1>2. {} \in C
  <2>1. {} \in SUBSET S
    OBVIOUS
  <2>2. Over(h, {}) = 0 /\ Over(f, {}) = 0 /\ Over(g, {}) = 0
    BY <1>1, <2>1, OverPick
  <2> QED
    BY <2>2
<1>3. ASSUME NEW V \in SUBSET T, NEW x \in T, V \in C, x \notin V
      PROVE  V \cup {x} \in C
  <2>1. V \in SUBSET S /\ x \in S \ V /\ V \cup {x} \in SUBSET T
    BY <1>3
  <2>2. /\ Over(h, V \cup {x}) = h[x] + Over(h, V)
        /\ Over(f, V \cup {x}) = f[x] + Over(f, V)
        /\ Over(g, V \cup {x}) = g[x] + Over(g, V)
    BY <1>1, <2>1, OverAdd
  <2>3. Over(f, V) \in Int /\ Over(g, V) \in Int /\ f[x] \in Int /\ g[x] \in Int
    BY <2>1, OverPick
  <2>4. Over(h, V) = Over(f, V) + m * Over(g, V) /\ h[x] = f[x] + m * g[x]
    BY <1>1, <1>3
  <2>5. Over(h, V \cup {x}) = Over(f, V \cup {x}) + m * Over(g, V \cup {x})
    <3>1. \A a, b, c, d \in Int : (a + m * b) + (c + m * d) = (a + c) + m * (b + d)
      OBVIOUS
    <3> HIDE DEF C
    <3> QED
      BY <2>2, <2>3, <2>4, <3>1
  <2> QED
    BY <2>1, <2>5
<1> HIDE DEF C
<1>4. T \in C
  BY <1>1, <1>2, <1>3, FiniteInduction
<1> QED
  BY <1>4 DEF C, h

\* A sum over disjoint parts is the sum of theirs.
LEMMA OverFamily ==
  ASSUME NEW S, IsFiniteSet(S), NEW f \in [S -> Int],
         NEW I, IsFiniteSet(I), NEW G \in [I -> SUBSET S],
         \A i, j \in I : i # j => G[i] \cap G[j] = {}
  PROVE  Over(f, UNION {G[i] : i \in I}) = Over([i \in I |-> Over(f, G[i])], I)
<1> DEFINE h == [i \in I |-> Over(f, G[i])]
           Of(V) == UNION {G[i] : i \in V}
           C == {V \in SUBSET I : Over(f, Of(V)) = Over(h, V)}
<1>1. h \in [I -> Int] /\ \A i \in I : h[i] = Over(f, G[i])
  BY OverPick
<1> HIDE DEF h
<1>2. {} \in C
  <2>1. Of({}) = {} /\ {} \in SUBSET S /\ {} \in SUBSET I
    OBVIOUS
  <2>2. Over(f, {}) = 0 /\ Over(h, {}) = 0
    BY <1>1, <2>1, OverPick
  <2> QED
    BY <2>1, <2>2
<1>3. ASSUME NEW V \in SUBSET I, NEW i \in I, V \in C, i \notin V
      PROVE  V \cup {i} \in C
  <2>1. Of(V) \in SUBSET S /\ G[i] \in SUBSET S
    OBVIOUS
  <2>2. Of(V \cup {i}) = Of(V) \cup G[i] /\ Of(V) \cap G[i] = {}
    BY <1>3
  <2>3. Over(f, Of(V \cup {i})) = Over(f, Of(V)) + Over(f, G[i])
    <3> DEFINE A == Of(V)
               B == G[i]
    <3> HIDE DEF A, B
    <3>1. A \in SUBSET S /\ B \in SUBSET S /\ A \cap B = {}
      BY <2>1, <2>2 DEF A, B
    <3>2. Over(f, A \cup B) = Over(f, A) + Over(f, B)
      BY <3>1, OverUnion
    <3> QED
      BY <2>2, <3>2 DEF A, B
  <2> HIDE DEF Of
  <2>4. Over(h, V \cup {i}) = h[i] + Over(h, V)
    BY <1>1, <1>3, OverAdd
  <2>5. Over(f, Of(V)) \in Int /\ h[i] \in Int
    BY <1>1, <2>1, OverPick
  <2> QED
    BY <1>1, <1>3, <2>3, <2>4, <2>5
<1> HIDE DEF C
<1>4. I \in C
  BY <1>2, <1>3, FiniteInduction
<1> QED
  BY <1>4 DEF C, h

LEMMA OverZeros ==
  ASSUME NEW S, IsFiniteSet(S), NEW f \in [S -> {0}]
  PROVE  Over(f, S) = 0
<1> DEFINE C == {V \in SUBSET S : Over(f, V) = 0}
<1>1. f \in [S -> Int]
  OBVIOUS
<1>2. {} \in C
  BY <1>1, OverPick
<1>3. ASSUME NEW V \in SUBSET S, NEW x \in S, V \in C, x \notin V
      PROVE  V \cup {x} \in C
  <2>1. Over(f, V \cup {x}) = f[x] + Over(f, V)
    BY <1>1, <1>3, OverAdd
  <2> QED
    BY <1>3, <2>1
<1> HIDE DEF C
<1>4. S \in C
  BY <1>2, <1>3, FiniteInduction
<1> QED
  BY <1>4 DEF C

\* Natural numbers add up to a positive one if one of them is positive.
LEMMA PositiveSum ==
  ASSUME NEW S, IsFiniteSet(S), NEW f \in [S -> Nat]
  PROVE  Over(f, S) > 0 <=> \E x \in S : f[x] > 0
<1>1. f \in [S -> Int] /\ S \in SUBSET S
  OBVIOUS
<1>2. ASSUME \A x \in S : ~(f[x] > 0) PROVE Over(f, S) = 0
  <2>1. f \in [S -> {0}]
    BY <1>2
  <2> QED
    BY <2>1, OverZeros
<1>3. ASSUME NEW x \in S, f[x] > 0 PROVE Over(f, S) > 0
  <2> DEFINE T == S \ {x}
             g == [y \in T |-> f[y]]
  <2>1. IsFiniteSet(T) /\ g \in [T -> Nat]
    BY FS_Subset
  <2>2. Over(g, T) \in Nat
    BY <2>1, OverNat
  <2>3. Over(f, T) = Over(g, T)
    BY OverSame
  <2>4. Over(f, S) = f[x] + Over(f, T)
    BY <1>1, OverPick
  <2> HIDE DEF T, g
  <2> QED
    BY <1>3, <2>2, <2>3, <2>4
<1> QED
  BY <1>2, <1>3

\* What Min chooses.
LEMMA MinIs ==
  ASSUME NEW S \in SUBSET Int, NEW n \in S, \A m \in S : n <= m
  PROVE  Min(S) = n
<1>1. \E x \in S : \A m \in S : x <= m
  OBVIOUS
<1>2. Min(S) \in S /\ \A m \in S : Min(S) <= m
  BY <1>1 DEF Min
<1>3. Min(S) \in Int /\ n \in Int /\ n <= Min(S) /\ Min(S) <= n
  BY <1>2
<1> QED
  BY <1>3

\* One more number adds itself.
LEMMA TotalAppend ==
  ASSUME NEW n \in Nat, NEW f \in [1 .. n -> Int], NEW g \in [1 .. n + 1 -> Int],
         \A i \in 1 .. n : g[i] = f[i]
  PROVE  Total(g) = Total(f) + g[n + 1]
<1>1. IsFiniteSet(1 .. n + 1) /\ 1 .. n + 1 \in SUBSET (1 .. n + 1) /\ n + 1 \in 1 .. n + 1
  BY FS_Interval
<1>2. (1 .. n + 1) \ {n + 1} = 1 .. n
  OBVIOUS
<1>3. Over(g, 1 .. n + 1) = g[n + 1] + Over(g, (1 .. n + 1) \ {n + 1})
  BY <1>1, OverPick
<1>4. Over(g, 1 .. n) = Over(f, 1 .. n) /\ Over(f, 1 .. n) \in Int
  <2>1. IsFiniteSet(1 .. n) /\ 1 .. n \in SUBSET (1 .. n)
    BY FS_Interval
  <2> QED
    BY <2>1, OverPick, OverSame
<1>5. Part(g, 1 .. n + 1) = g /\ Part(f, 1 .. n) = f
  BY DEF Part
<1>6. Total(g) = Over(g, 1 .. n + 1) /\ Total(f) = Over(f, 1 .. n)
  BY <1>5 DEF Over
<1>7. g[n + 1] \in Int
  BY <1>1
<1>8. Over(g, 1 .. n + 1) = g[n + 1] + Over(f, 1 .. n)
  BY <1>2, <1>3, <1>4
<1> QED
  BY <1>4, <1>6, <1>7, <1>8

=============================================================================
