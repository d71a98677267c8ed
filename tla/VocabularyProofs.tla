------------------------ MODULE VocabularyProofs ------------------------
(***************************************************************************)
(* Machine-checked proofs about the counting of samples, for any samples   *)
(* and any sequence of calls: a vocabulary holds of every term how many    *)
(* samples of each label made it, the features of a Vectorize are the most *)
(* frequent terms, and a word that is a feature is found again in as many  *)
(* lines of the training file, and what batch prediction counts is what    *)
(* the model says of the lines of all files.  The modules count with folds *)
(* over sequences and sets; the first parts say what such a fold is, step  *)
(* by step, and what the sums over finite sets are.                        *)
(***************************************************************************)
EXTENDS Predict, FiniteSetTheorems, FunctionTheorems, SequenceTheorems, WellFoundedInduction, TLAPS

-----------------------------------------------------------------------------
(* Sums.                                                                   *)

\* Some element.
First(s) == CHOOSE x \in s : TRUE

\* g is the sum of f over each subset of S, taken element after element: of the
\* first ones, or of any.
Taken(g, f, S) ==
  /\ g \in [SUBSET S -> Int]
  /\ g[{}] = 0
  /\ \A s \in SUBSET S : s # {} => g[s] = f[First(s)] + g[s \ {First(s)}]
Summed(g, f, S) ==
  /\ g \in [SUBSET S -> Int]
  /\ g[{}] = 0
  /\ \A s \in SUBSET S : \A x \in s : g[s] = f[x] + g[s \ {x}]

\* Among sets of elements of a finite set one has no other inside.
LEMMA SmallestSet ==
  ASSUME NEW S, IsFiniteSet(S), NEW B \in SUBSET SUBSET S, B # {}
  PROVE  \E s \in B : \A r \in B : r \subseteq s => r = s
<1>1. B \subseteq FiniteSubsetsOf(S)
  BY FS_Subset DEF FiniteSubsetsOf
<1>2. PICK s \in B : \A r \in B : ~(<<r, s>> \in StrictSubsetOrdering(S))
  BY <1>1, WFMin, FS_StrictSubsetOrderingWellFounded
<1>3. \A r \in B : r \subseteq s => r = s
  BY <1>2 DEF StrictSubsetOrdering
<1> QED
  BY <1>3

\* Among natural numbers one is least.
LEMMA LeastNumber ==
  ASSUME NEW S \in SUBSET Nat, S # {}
  PROVE  \E n \in S : \A m \in S : n <= m
<1>1. PICK k \in S : TRUE
  OBVIOUS
<1> DEFINE K == 0 .. k
           B == {0 .. m : m \in {i \in S : i <= k}}
<1>2. IsFiniteSet(K)
  BY FS_Interval
<1>3. B \in SUBSET SUBSET K /\ B # {}
  <2>1. \A m \in {i \in S : i <= k} : 0 .. m \subseteq K
    OBVIOUS
  <2>2. k \in {i \in S : i <= k}
    OBVIOUS
  <2> QED
    BY <2>1, <2>2
<1>4. PICK s \in B : \A r \in B : r \subseteq s => r = s
  <2> HIDE DEF B, K
  <2> QED
    BY <1>2, <1>3, SmallestSet
<1>5. PICK n \in S : n <= k /\ s = 0 .. n
  BY <1>4
<1>6. \A m \in S : n <= m
  <2> SUFFICES ASSUME NEW m \in S, m < n PROVE FALSE
    OBVIOUS
  <2>1. m <= k
    BY <1>5
  <2>2. 0 .. m \in B
    BY <2>1
  <2>3. 0 .. m \subseteq 0 .. n /\ n \in 0 .. n /\ n \notin 0 .. m
    OBVIOUS
  <2> QED
    BY <1>4, <1>5, <2>2, <2>3
<1> QED
  BY <1>6

\* Every function to the integers has its sums over the subsets of a finite set.
LEMMA SumExists ==
  ASSUME NEW S, IsFiniteSet(S), NEW f, \A x \in S : f[x] \in Int
  PROVE  \E g : Taken(g, f, S)
<1> DEFINE Upto(m, g) ==
             /\ g \in [SUBSET S -> Int] /\ g[{}] = 0
             /\ \A s \in SUBSET S : s # {} /\ Cardinality(s) <= m =>
                  g[s] = f[First(s)] + g[s \ {First(s)}]
           Bad == {m \in Nat : ~\E g : Upto(m, g)}
<1>1. \A s \in SUBSET S : IsFiniteSet(s) /\ Cardinality(s) \in Nat
  BY FS_Subset, FS_CardinalityType
<1>2. \A s \in SUBSET S : s # {} =>
        /\ First(s) \in s /\ s \ {First(s)} \in SUBSET S
        /\ Cardinality(s \ {First(s)}) = Cardinality(s) - 1
  <2> SUFFICES ASSUME NEW s \in SUBSET S, s # {}
               PROVE  First(s) \in s /\ Cardinality(s \ {First(s)}) = Cardinality(s) - 1
    OBVIOUS
  <2>1. First(s) \in s
    BY DEF First
  <2> QED
    BY <1>1, <2>1, FS_RemoveElement
<1>3. 0 \notin Bad
  <2> DEFINE g == [s \in SUBSET S |-> 0]
  <2>1. \A s \in SUBSET S : s # {} => Cardinality(s) > 0
    BY <1>1, FS_EmptySet
  <2>2. Upto(0, g)
    BY <1>1, <2>1
  <2> QED
    BY <2>2
<1>4. ASSUME NEW m \in Nat, m \notin Bad PROVE m + 1 \notin Bad
  <2>1. PICK g : Upto(m, g)
    BY <1>4
  <2> DEFINE h == [s \in SUBSET S |-> IF Cardinality(s) = m + 1
                                       THEN f[First(s)] + g[s \ {First(s)}] ELSE g[s]]
  <2>2. Cardinality({}) = 0
    BY FS_EmptySet
  <2>3. \A s \in SUBSET S : h[s] \in Int
    <3> TAKE s \in SUBSET S
    <3>1. CASE Cardinality(s) = m + 1
      <4>1. s # {}
        BY <2>2, <3>1
      <4>2. f[First(s)] \in Int /\ g[s \ {First(s)}] \in Int
        BY <1>2, <2>1, <4>1
      <4> QED
        BY <3>1, <4>2
    <3>2. CASE Cardinality(s) # m + 1
      BY <2>1, <3>2
    <3> QED
      BY <3>1, <3>2
  <2>4. h[{}] = 0
    BY <2>1, <2>2
  <2>5. ASSUME NEW s \in SUBSET S, s # {}, Cardinality(s) <= m + 1
        PROVE  h[s] = f[First(s)] + h[s \ {First(s)}]
    <3>1. s \ {First(s)} \in SUBSET S /\ Cardinality(s \ {First(s)}) # m + 1
      BY <1>1, <1>2, <2>5
    <3>2. h[s \ {First(s)}] = g[s \ {First(s)}]
      BY <3>1
    <3>3. CASE Cardinality(s) = m + 1
      BY <3>2, <3>3
    <3>4. CASE Cardinality(s) # m + 1
      <4>1. h[s] = g[s] /\ Cardinality(s) <= m
        BY <1>1, <2>5, <3>4
      <4> QED
        BY <2>1, <2>5, <3>2, <4>1
    <3> QED
      BY <3>3, <3>4
  <2> HIDE DEF h
  <2>6. h \in [SUBSET S -> Int]
    <3>1. h = [s \in SUBSET S |-> h[s]]
      BY DEF h
    <3> QED
      BY <2>3, <3>1
  <2>7. Upto(m + 1, h)
    BY <2>4, <2>5, <2>6
  <2> QED
    BY <2>7
<1>5. Bad = {}
  <2> SUFFICES ASSUME Bad # {} PROVE FALSE
    OBVIOUS
  <2>1. PICK n \in Bad : \A m \in Bad : n <= m
    <3>1. Bad \in SUBSET Nat
      OBVIOUS
    <3> HIDE DEF Bad
    <3> QED
      BY <3>1, LeastNumber
  <2>2. n \in Nat /\ n # 0
    BY <1>3
  <2>3. n - 1 \in Nat /\ n - 1 \notin Bad
    <3>1. n - 1 \in Nat /\ ~(n <= n - 1)
      BY <2>2
    <3> HIDE DEF Bad
    <3> QED
      BY <2>1, <3>1
  <2>4. (n - 1) + 1 \notin Bad
    <3> HIDE DEF Bad
    <3> QED
      BY <1>4, <2>3
  <2>5. (n - 1) + 1 = n
    BY <2>2
  <2> HIDE DEF Bad
  <2> QED
    BY <2>1, <2>4, <2>5
<1>6. PICK g : Upto(Cardinality(S), g)
  BY <1>1, <1>5
<1>7. \A s \in SUBSET S : Cardinality(s) <= Cardinality(S)
  BY FS_Subset
<1>8. Taken(g, f, S)
  BY <1>6, <1>7 DEF Taken
<1> QED
  BY <1>8

\* It does not matter which element comes first.
LEMMA SumAny ==
  ASSUME NEW S, IsFiniteSet(S), NEW f, \A x \in S : f[x] \in Int, NEW g, Taken(g, f, S)
  PROVE  Summed(g, f, S)
<1> DEFINE B == {s \in SUBSET S : \E x \in s : g[s] # f[x] + g[s \ {x}]}
<1> SUFFICES ASSUME B # {} PROVE FALSE
  BY DEF Summed, Taken
<1>1. PICK s \in B : \A r \in B : r \subseteq s => r = s
  <2>1. B \in SUBSET SUBSET S
    OBVIOUS
  <2> HIDE DEF B
  <2> QED
    BY <2>1, SmallestSet
<1>2. PICK x \in s : g[s] # f[x] + g[s \ {x}]
  BY <1>1
<1> DEFINE c == First(s)
<1>3. s \in SUBSET S /\ c \in s
  BY <1>2 DEF First
<1>4. g[s] = f[c] + g[s \ {c}]
  BY <1>3 DEF Taken
<1> HIDE DEF c
<1>5. c # x
  BY <1>2, <1>4
<1>6. s \ {c} \notin B /\ s \ {x} \notin B
  <2>1. s \ {c} \subseteq s /\ s \ {c} # s /\ s \ {x} \subseteq s /\ s \ {x} # s
    BY <1>3
  <2> HIDE DEF B
  <2> QED
    BY <1>1, <2>1
<1>7. g[s \ {c}] = f[x] + g[(s \ {c}) \ {x}] /\ g[s \ {x}] = f[c] + g[(s \ {x}) \ {c}]
  BY <1>3, <1>5, <1>6
<1>8. (s \ {c}) \ {x} = (s \ {x}) \ {c}
  OBVIOUS
<1>9. f[x] \in Int /\ f[c] \in Int /\ g[(s \ {x}) \ {c}] \in Int
  BY <1>3 DEF Taken
<1>10. f[c] + (f[x] + g[(s \ {x}) \ {c}]) = f[x] + (f[c] + g[(s \ {x}) \ {c}])
  BY <1>9
<1> QED
  BY <1>2, <1>4, <1>7, <1>8, <1>10

\* What is computed by taking element after element is the sum, since there is one.
LEMMA SumOf ==
  ASSUME NEW S, IsFiniteSet(S), NEW f, \A x \in S : f[x] \in Int, NEW g,
         g = [s \in SUBSET S |-> IF s = {} THEN 0 ELSE f[First(s)] + g[s \ {First(s)}]]
  PROVE  Summed(g, f, S)
<1>1. \A s \in SUBSET S : g[s] = IF s = {} THEN 0 ELSE f[First(s)] + g[s \ {First(s)}]
  OBVIOUS
<1>2. \A s \in SUBSET S : s # {} => First(s) \in s /\ s \ {First(s)} \in SUBSET S
  BY DEF First
<1> DEFINE B == {s \in SUBSET S : g[s] \notin Int}
<1>3. B = {}
  <2> SUFFICES ASSUME B # {} PROVE FALSE
    OBVIOUS
  <2>1. PICK s \in B : \A r \in B : r \subseteq s => r = s
    <3>1. B \in SUBSET SUBSET S
      OBVIOUS
    <3> HIDE DEF B
    <3> QED
      BY <3>1, SmallestSet
  <2>2. s \in SUBSET S /\ s # {}
    BY <1>1
  <2>3. s \ {First(s)} \notin B
    BY <1>2, <2>1, <2>2
  <2>4. g[s \ {First(s)}] \in Int /\ f[First(s)] \in Int
    BY <1>2, <2>2, <2>3
  <2>5. g[s] = f[First(s)] + g[s \ {First(s)}]
    BY <1>1, <2>2
  <2>6. g[s] \in Int
    BY <2>4, <2>5
  <2> QED
    BY <2>6
<1>4. g \in [SUBSET S -> Int]
  <2>1. g = [s \in SUBSET S |-> g[s]]
    <3>1. DOMAIN g = SUBSET S
      OBVIOUS
    <3> QED
      BY <1>1, <3>1
  <2> QED
    BY <1>3, <2>1
<1>5. Taken(g, f, S)
  BY <1>1, <1>4 DEF Taken
<1> QED
  BY <1>5, SumAny

-----------------------------------------------------------------------------
(* Sorting.                                                                *)

\* A relation that orders a set.
Orders(R, S) ==
  /\ \A x \in S : <<x, x>> \notin R
  /\ \A x, y, z \in S : <<x, y>> \in R /\ <<y, z>> \in R => <<x, z>> \in R
  /\ \A x, y \in S : x # y => <<x, y>> \in R \/ <<y, x>> \in R

\* How many elements come before x; the element before which there are i - 1.
Rank(R, S, x) == Cardinality({u \in S : <<u, x>> \in R})
Ranked(R, S) == [i \in 1 .. Cardinality(S) |-> CHOOSE t \in S : Rank(R, S, t) = i - 1]

\* An element has fewer before it than there are, and more than those before it.
LEMMA Ranks ==
  ASSUME NEW S, IsFiniteSet(S), NEW R, Orders(R, S)
  PROVE  /\ \A x \in S : Rank(R, S, x) \in 0 .. Cardinality(S) - 1
         /\ \A x, y \in S : <<x, y>> \in R => Rank(R, S, x) < Rank(R, S, y)
<1>1. Cardinality(S) \in Nat
  BY FS_CardinalityType
<1>2. ASSUME NEW x \in S PROVE Rank(R, S, x) \in 0 .. Cardinality(S) - 1
  <2> DEFINE X == {u \in S : <<u, x>> \in R}
  <2>1. X \subseteq S /\ X # S
    BY DEF Orders
  <2> HIDE DEF X
  <2>2. Cardinality(X) \in Nat /\ Cardinality(X) <= Cardinality(S) /\ Cardinality(X) # Cardinality(S)
    BY <2>1, FS_Subset, FS_CardinalityType
  <2> QED
    BY <1>1, <2>2 DEF Rank, X
<1>3. ASSUME NEW x \in S, NEW y \in S, <<x, y>> \in R
      PROVE  Rank(R, S, x) < Rank(R, S, y)
  <2> DEFINE X == {u \in S : <<u, x>> \in R}
             Y == {u \in S : <<u, y>> \in R}
  <2>1. X \subseteq Y /\ x \in Y /\ x \notin X
    BY <1>3 DEF Orders
  <2>2. IsFiniteSet(Y)
    BY FS_Subset
  <2> HIDE DEF X, Y
  <2>3. /\ Cardinality(X) <= Cardinality(Y) /\ Cardinality(X) # Cardinality(Y)
        /\ Cardinality(X) \in Nat /\ Cardinality(Y) \in Nat
    BY <2>1, <2>2, FS_Subset, FS_CardinalityType
  <2> QED
    BY <2>3 DEF Rank, X, Y
<1> QED
  BY <1>2, <1>3

\* So there is one for each rank: all elements, each once, one after the other.
LEMMA Sorted ==
  ASSUME NEW S, IsFiniteSet(S), NEW R, Orders(R, S), NEW d, d = Ranked(R, S)
  PROVE  /\ Cardinality(S) \in Nat /\ d \in [1 .. Cardinality(S) -> S]
         /\ \A x \in S : \E i \in 1 .. Cardinality(S) : d[i] = x
         /\ \A i, j \in 1 .. Cardinality(S) : i < j => <<d[i], d[j]>> \in R
<1> DEFINE n == Cardinality(S)
           rank == [x \in S |-> Rank(R, S, x)]
<1>1. n \in Nat
  BY FS_CardinalityType
<1>2. /\ \A x \in S : Rank(R, S, x) \in 0 .. n - 1
      /\ \A x, y \in S : <<x, y>> \in R => Rank(R, S, x) < Rank(R, S, y)
  BY Ranks
<1>3. \A x, y \in S : Rank(R, S, x) = Rank(R, S, y) => x = y
  <2> SUFFICES ASSUME NEW x \in S, NEW y \in S, Rank(R, S, x) = Rank(R, S, y), x # y PROVE FALSE
    OBVIOUS
  <2>1. <<x, y>> \in R \/ <<y, x>> \in R
    BY DEF Orders
  <2>2. Rank(R, S, x) \in 0 .. n - 1 /\ Rank(R, S, y) \in 0 .. n - 1
    BY <1>2
  <2>3. Rank(R, S, x) < Rank(R, S, y) \/ Rank(R, S, y) < Rank(R, S, x)
    BY <1>2, <2>1
  <2> HIDE DEF n
  <2> QED
    BY <1>1, <2>2, <2>3
<1>4. rank \in Injection(S, 0 .. n - 1)
  BY <1>2, <1>3 DEF Injection, IsInjective
<1>5. IsFiniteSet(0 .. n - 1) /\ Cardinality(0 .. n - 1) = n
  BY <1>1, FS_Interval
<1>6. rank \in Surjection(S, 0 .. n - 1)
  <2> HIDE DEF rank
  <2> QED
    BY <1>4, <1>5, FS_Injection
<1>7. \A i \in 1 .. n : \E x \in S : Rank(R, S, x) = i - 1
  <2> TAKE i \in 1 .. n
  <2>1. i - 1 \in 0 .. n - 1
    BY <1>1
  <2>2. PICK x \in S : rank[x] = i - 1
    BY <1>6, <2>1 DEF Surjection
  <2> QED
    BY <2>2
<1>8. \A i \in 1 .. n : d[i] \in S /\ Rank(R, S, d[i]) = i - 1
  BY <1>7 DEF Ranked
<1>9. d \in [1 .. n -> S]
  BY <1>8 DEF Ranked
<1>10. \A x \in S : \E i \in 1 .. n : d[i] = x
  <2> TAKE x \in S
  <2>1. Rank(R, S, x) + 1 \in 1 .. n /\ Rank(R, S, x) \in Int
    BY <1>1, <1>2
  <2>2. Rank(R, S, d[Rank(R, S, x) + 1]) = Rank(R, S, x) /\ d[Rank(R, S, x) + 1] \in S
    BY <1>8, <2>1
  <2> QED
    BY <1>3, <2>1, <2>2
<1>11. ASSUME NEW i \in 1 .. n, NEW j \in 1 .. n, i < j PROVE <<d[i], d[j]>> \in R
  <2>1. /\ d[i] \in S /\ Rank(R, S, d[i]) = i - 1
        /\ d[j] \in S /\ Rank(R, S, d[j]) = j - 1
    BY <1>8
  <2>2. i - 1 < j - 1
    BY <1>1, <1>11
  <2>3. d[i] # d[j]
    BY <2>1, <2>2
  <2>4. ~(<<d[j], d[i]>> \in R)
    <3>1. <<d[j], d[i]>> \in R => j - 1 < i - 1
      BY <1>2, <2>1
    <3> QED
      BY <1>1, <1>11, <3>1
  <2> QED
    BY <2>1, <2>3, <2>4 DEF Orders
<1> QED
  BY <1>1, <1>9, <1>10, <1>11

-----------------------------------------------------------------------------
(* The order of the terms.                                                 *)

\* A character is a number; a term is a sequence of them.
Characters == Narrow \cup Wide
Terms == Seq(Characters)

\* The first place at which s and t differ, where s may have ended.
Differ(s, t, i) ==
  /\ i \in 1 .. Len(t) /\ i <= Len(s) + 1
  /\ i <= Len(s) => s[i] < t[i]
  /\ \A j \in 1 .. i - 1 : s[j] = t[j]

\* A term has a length, and its characters are numbers.
LEMMA TermNumbers ==
  ASSUME NEW s \in Terms
  PROVE  Len(s) \in Nat /\ DOMAIN s = 1 .. Len(s) /\ \A i \in 1 .. Len(s) : s[i] \in Nat
<1>1. Characters \subseteq Nat
  BY CharactersAssumption DEF Characters
<1> QED
  BY <1>1, LenProperties, ElementOfSeq DEF Terms

\* A term comes before another one where they differ first.
LEMMA BeforeIs ==
  ASSUME NEW s \in Terms, NEW t \in Terms
  PROVE  Before(s, t) <=> \E i \in 1 .. Len(t) : Differ(s, t, i)
<1>1. /\ Len(s) \in Nat /\ DOMAIN s = 1 .. Len(s) /\ \A i \in 1 .. Len(s) : s[i] \in Nat
      /\ Len(t) \in Nat /\ DOMAIN t = 1 .. Len(t) /\ \A i \in 1 .. Len(t) : t[i] \in Nat
  BY TermNumbers
<1>2. ASSUME NEW i \in DOMAIN s \cap DOMAIN t, s[i] < t[i], \A j \in 1 .. i - 1 : s[j] = t[j]
      PROVE  i \in 1 .. Len(t) /\ Differ(s, t, i)
  BY <1>1, <1>2 DEF Differ
<1>3. ASSUME Len(s) < Len(t) PROVE
        s = SubSeq(t, 1, Len(s)) <=> \A j \in 1 .. Len(s) : s[j] = t[j]
  <2> DEFINE u == SubSeq(t, 1, Len(s))
  <2>1. \A j \in 1 .. Len(s) : t[j] \in Characters
    BY <1>1, <1>3, ElementOfSeq DEF Terms
  <2>2. u \in Seq(Characters) /\ Len(u) = Len(s) - 1 + 1 /\ \A j \in 1 .. Len(s) - 1 + 1 : u[j] = t[1 + j - 1]
    BY <1>1, <2>1, SubSeqProperties
  <2>3. Len(u) = Len(s) /\ \A j \in 1 .. Len(s) : u[j] = t[j]
    BY <1>1, <2>2
  <2> HIDE DEF u
  <2>4. ASSUME \A j \in 1 .. Len(s) : s[j] = t[j] PROVE s = u
    BY <2>2, <2>3, <2>4, SeqEqual DEF Terms
  <2>5. s = u => \A j \in 1 .. Len(s) : s[j] = t[j]
    BY <2>3
  <2> QED
    BY <2>4, <2>5 DEF u
<1>4. ASSUME Len(s) < Len(t), s = SubSeq(t, 1, Len(s))
      PROVE  \E i \in 1 .. Len(t) : Differ(s, t, i)
  <2>1. Len(s) + 1 \in 1 .. Len(t) /\ (Len(s) + 1) - 1 = Len(s) /\ ~(Len(s) + 1 <= Len(s))
    BY <1>1, <1>4
  <2>2. \A j \in 1 .. Len(s) : s[j] = t[j]
    BY <1>3, <1>4
  <2>3. Differ(s, t, Len(s) + 1)
    BY <1>1, <2>1, <2>2 DEF Differ
  <2> QED
    BY <2>1, <2>3
<1>5. ASSUME NEW i \in 1 .. Len(t), Differ(s, t, i), i <= Len(s) PROVE Before(s, t)
  <2>1. i \in DOMAIN s \cap DOMAIN t /\ s[i] < t[i] /\ \A j \in 1 .. i - 1 : s[j] = t[j]
    BY <1>1, <1>5 DEF Differ
  <2> QED
    BY <2>1 DEF Before
<1>6. ASSUME NEW i \in 1 .. Len(t), Differ(s, t, i), ~(i <= Len(s)) PROVE Before(s, t)
  <2>1. i - 1 = Len(s) /\ Len(s) < Len(t)
    BY <1>1, <1>6 DEF Differ
  <2>2. \A j \in 1 .. Len(s) : s[j] = t[j]
    BY <1>6, <2>1 DEF Differ
  <2> QED
    BY <1>3, <2>1, <2>2 DEF Before
<1> QED
  BY <1>2, <1>4, <1>5, <1>6 DEF Before

\* Before among the terms of a set.
Order(S) == {p \in S \X S : Before(p[1], p[2])}

\* It orders them.
LEMMA BeforeOrders ==
  ASSUME NEW S \in SUBSET Terms PROVE Orders(Order(S), S)
<1>1. \A x, y \in S : <<x, y>> \in Order(S) <=> Before(x, y)
  BY DEF Order
<1>2. ASSUME NEW x \in S PROVE ~Before(x, x)
  <2>1. ASSUME NEW i \in 1 .. Len(x), Differ(x, x, i) PROVE FALSE
    BY <2>1, TermNumbers DEF Differ
  <2> QED
    BY <2>1, BeforeIs
<1>3. ASSUME NEW x \in S, NEW y \in S, NEW z \in S, Before(x, y), Before(y, z) PROVE Before(x, z)
  <2>1. PICK i \in 1 .. Len(y) : Differ(x, y, i)
    BY <1>3, BeforeIs
  <2>2. PICK k \in 1 .. Len(z) : Differ(y, z, k)
    BY <1>3, BeforeIs
  <2>3. /\ Len(x) \in Nat /\ \A j \in 1 .. Len(x) : x[j] \in Nat
        /\ Len(y) \in Nat /\ \A j \in 1 .. Len(y) : y[j] \in Nat
        /\ Len(z) \in Nat /\ \A j \in 1 .. Len(z) : z[j] \in Nat
    BY TermNumbers
  <2>4. /\ i <= Len(x) + 1 /\ (i <= Len(x) => x[i] < y[i]) /\ \A j \in 1 .. i - 1 : x[j] = y[j]
        /\ k <= Len(y) + 1 /\ (k <= Len(y) => y[k] < z[k]) /\ \A j \in 1 .. k - 1 : y[j] = z[j]
    BY <2>1, <2>2 DEF Differ
  <2>5. CASE i < k
    <3>1. i \in 1 .. Len(z) /\ i \in 1 .. k - 1
      BY <2>3, <2>5
    <3>2. i <= Len(x) => x[i] < z[i]
      BY <2>4, <3>1
    <3>3. \A j \in 1 .. i - 1 : x[j] = z[j]
      <4>1. \A j \in 1 .. i - 1 : j \in 1 .. k - 1
        BY <2>3, <2>5
      <4> QED
        BY <2>4, <4>1
    <3>4. Differ(x, z, i)
      BY <2>4, <3>1, <3>2, <3>3 DEF Differ
    <3> QED
      BY <3>1, <3>4, BeforeIs
  <2>6. CASE k <= i
    <3>1. k <= Len(y) /\ k <= Len(x) + 1 /\ k \in 1 .. Len(y)
      BY <2>3, <2>4, <2>6
    <3>2. \A j \in 1 .. k - 1 : x[j] = z[j]
      <4>1. \A j \in 1 .. k - 1 : j \in 1 .. i - 1
        BY <2>3, <2>6
      <4> QED
        BY <2>4, <4>1
    <3>3. k <= Len(x) => x[k] < z[k]
      <4>1. CASE k = i
        BY <2>3, <2>4, <3>1, <4>1
      <4>2. CASE k # i
        <5>1. k \in 1 .. i - 1
          BY <2>3, <2>6, <4>2
        <5> QED
          BY <2>4, <3>1, <5>1
      <4> QED
        BY <4>1, <4>2
    <3>4. Differ(x, z, k)
      BY <3>1, <3>2, <3>3 DEF Differ
    <3> QED
      BY <3>4, BeforeIs
  <2> QED
    BY <2>3, <2>5, <2>6
<1>4. ASSUME NEW x \in S, NEW y \in S, x # y PROVE Before(x, y) \/ Before(y, x)
  <2> DEFINE Same(i) == i <= Len(x) /\ i <= Len(y) /\ x[i] = y[i]
             D == {i \in Nat \ {0} : ~Same(i)}
  <2>1. /\ Len(x) \in Nat /\ \A j \in 1 .. Len(x) : x[j] \in Nat
        /\ Len(y) \in Nat /\ \A j \in 1 .. Len(y) : y[j] \in Nat
    BY TermNumbers
  <2>2. Len(x) + 1 \in D
    BY <2>1
  <2>3. PICK i \in D : \A j \in D : i <= j
    <3>1. D \in SUBSET Nat /\ D # {}
      BY <2>2
    <3> HIDE DEF D
    <3> QED
      BY <3>1, LeastNumber
  <2>4. i \in Nat \ {0} /\ ~Same(i)
    OBVIOUS
  <2>5. ASSUME NEW j \in 1 .. i - 1 PROVE Same(j)
    <3>1. j \in Nat \ {0} /\ ~(i <= j)
      BY <2>4, <2>5
    <3> HIDE DEF Same
    <3> QED
      BY <2>3, <3>1
  <2>6. i <= Len(x) + 1 /\ i <= Len(y) + 1
    <3>1. i # 1 => i - 1 \in 1 .. i - 1
      BY <2>4
    <3>2. i # 1 => i - 1 <= Len(x) /\ i - 1 <= Len(y)
      BY <2>5, <3>1
    <3> QED
      BY <2>1, <2>4, <3>2
  <2>7. \A j \in 1 .. i - 1 : x[j] = y[j]
    BY <2>5
  <2>8. CASE i <= Len(y) /\ (i <= Len(x) => x[i] < y[i])
    <3>1. i \in 1 .. Len(y) /\ Differ(x, y, i)
      BY <2>1, <2>4, <2>6, <2>7, <2>8 DEF Differ
    <3> QED
      BY <3>1, BeforeIs
  <2>9. CASE i <= Len(x) /\ (i <= Len(y) => y[i] < x[i])
    <3>1. i \in 1 .. Len(x) /\ Differ(y, x, i)
      BY <2>1, <2>4, <2>6, <2>7, <2>9 DEF Differ
    <3> QED
      BY <3>1, BeforeIs
  <2>10. CASE ~(i <= Len(x)) /\ ~(i <= Len(y))
    <3>1. i - 1 = Len(x) /\ i - 1 = Len(y)
      BY <2>1, <2>4, <2>6, <2>10
    <3>2. Len(x) = Len(y) /\ \A j \in 1 .. Len(x) : x[j] = y[j]
      BY <2>7, <3>1
    <3>3. x \in Seq(Characters) /\ y \in Seq(Characters)
      BY DEF Terms
    <3>4. x = y
      BY <3>2, <3>3, SeqEqual
    <3> QED
      BY <1>4, <3>4
  <2>11. i <= Len(x) /\ i <= Len(y) => x[i] < y[i] \/ y[i] < x[i]
    <3> HAVE i <= Len(x) /\ i <= Len(y)
    <3>1. i \in 1 .. Len(x) /\ i \in 1 .. Len(y) /\ x[i] # y[i]
      BY <2>1, <2>4
    <3>2. x[i] \in Nat /\ y[i] \in Nat
      BY <2>1, <3>1
    <3> QED
      BY <3>1, <3>2
  <2> HIDE DEF D, Same
  <2> QED
    BY <2>8, <2>9, <2>10, <2>11
<1> QED
  BY <1>1, <1>2, <1>3, <1>4 DEF Orders

\* The different elements of a sequence are finitely many.
LEMMA ElementsFinite ==
  ASSUME NEW S, NEW s \in Seq(S)
  PROVE  ToSet(s) \in SUBSET S /\ IsFiniteSet(ToSet(s)) /\ ToSet(s) = {s[i] : i \in 1 .. Len(s)}
<1>1. DOMAIN s = 1 .. Len(s) /\ Len(s) \in Nat /\ \A i \in 1 .. Len(s) : s[i] \in S
  BY LenProperties, ElementOfSeq
<1>2. ToSet(s) = {s[i] : i \in 1 .. Len(s)}
  BY <1>1 DEF ToSet
<1>3. s \in Surjection(1 .. Len(s), ToSet(s))
  BY <1>1, <1>2 DEF Surjection
<1>4. IsFiniteSet(1 .. Len(s))
  BY <1>1, FS_Interval
<1>5. IsFiniteSet(ToSet(s))
  BY <1>3, <1>4, FS_Surjection
<1> QED
  BY <1>1, <1>2, <1>5

\* A sequence of the different terms of words, each after those before it.
Ascending(d, S) ==
  /\ d \in Seq(Terms)
  /\ ToSet(d) = S
  /\ \A i, j \in 1 .. Len(d) : i < j => Before(d[i], d[j])

\* segment hands out the words of a text, each once, in the order of the terms.
LEMMA DedupAscends ==
  ASSUME NEW words \in Seq(Terms) PROVE Ascending(Dedup(words), ToSet(words))
<1> DEFINE S == ToSet(words)
           d == Dedup(words)
<1>1. S \in SUBSET Terms /\ IsFiniteSet(S)
  BY ElementsFinite
<1> HIDE DEF S
<1>2. d = Ranked(Order(S), S)
  <2>1. \A t \in S : {u \in S : <<u, t>> \in Order(S)} = {u \in S : Before(u, t)}
    BY DEF Order
  <2>2. \A t \in S : Rank(Order(S), S, t) = Cardinality({u \in S : Before(u, t)})
    BY <2>1 DEF Rank
  <2>3. \A i \in 1 .. Cardinality(S) :
          (CHOOSE t \in S : Rank(Order(S), S, t) = i - 1)
            = CHOOSE t \in S : Cardinality({u \in S : Before(u, t)}) = i - 1
    BY <2>2
  <2> QED
    BY <2>3 DEF Ranked, Dedup, S
<1> HIDE DEF d
<1>3. /\ Cardinality(S) \in Nat /\ d \in [1 .. Cardinality(S) -> S]
      /\ \A x \in S : \E i \in 1 .. Cardinality(S) : d[i] = x
      /\ \A i, j \in 1 .. Cardinality(S) : i < j => <<d[i], d[j]>> \in Order(S)
  BY <1>1, <1>2, BeforeOrders, Sorted
<1>4. d \in Seq(Terms) /\ Len(d) = Cardinality(S)
  BY <1>1, <1>3
<1>5. ToSet(d) = S
  BY <1>3 DEF ToSet
<1>6. \A i, j \in 1 .. Len(d) : i < j => Before(d[i], d[j])
  BY <1>3, <1>4 DEF Order
<1> QED
  BY <1>4, <1>5, <1>6 DEF Ascending, d, S

-----------------------------------------------------------------------------
(* Folds.                                                                  *)

\* The last of some numbers is one of them; that of the first i is i.
LEMMA LastOf ==
  ASSUME NEW n \in Nat
  PROVE  /\ \A s \in SUBSET (1 .. n) : s # {} => Max(s) \in s /\ \A y \in s : y <= Max(s)
         /\ \A i \in 1 .. n : Max(1 .. i) = i /\ (1 .. i) \ {i} = 1 .. i - 1
<1>1. ASSUME NEW s \in SUBSET (1 .. n), s # {} PROVE Max(s) \in s /\ \A y \in s : y <= Max(s)
  <2> DEFINE B == {n - y : y \in s}
  <2>1. B \in SUBSET Nat /\ B # {}
    <3>1. \A y \in s : n - y \in Nat
      BY <1>1
    <3> QED
      BY <1>1, <3>1
  <2>2. PICK b \in B : \A y \in B : b <= y
    <3> HIDE DEF B
    <3> QED
      BY <2>1, LeastNumber
  <2>3. PICK m \in s : b = n - m
    OBVIOUS
  <2>4. \A y \in s : n - m <= n - y
    BY <2>2, <2>3
  <2>5. \A y \in s : m >= y
    BY <2>4
  <2>6. Max(s) \in s /\ \A y \in s : Max(s) >= y
    BY <2>5 DEF Max
  <2> QED
    BY <2>6
<1>2. ASSUME NEW i \in 1 .. n PROVE Max(1 .. i) = i /\ (1 .. i) \ {i} = 1 .. i - 1
  <2>1. i \in 1 .. i /\ \A y \in 1 .. i : i >= y
    OBVIOUS
  <2>2. Max(1 .. i) \in 1 .. i /\ \A y \in 1 .. i : Max(1 .. i) >= y
    BY <2>1 DEF Max
  <2>3. Max(1 .. i) = i
    BY <2>1, <2>2
  <2> QED
    BY <2>3
<1> QED
  BY <1>1, <1>2

\* From b on, op takes one value in V to the next, at each of n places; h has the value
\* for every set of places.
Folded(h, op, b, n, V) ==
  /\ h \in [SUBSET (1 .. n) -> V]
  /\ \A s \in SUBSET (1 .. n) :
       h[s] = IF s = {} THEN b ELSE op[<<h[s \ {Max(s)}], Max(s)>>]

\* There is such a function.
LEMMA FoldExists ==
  ASSUME NEW V, NEW b \in V, NEW n \in Nat, NEW op,
         \A v \in V, i \in 1 .. n : op[<<v, i>>] \in V
  PROVE  \E h : Folded(h, op, b, n, V)
<1> DEFINE N == 1 .. n
           Upto(m, h) ==
             /\ h \in [SUBSET N -> V] /\ h[{}] = b
             /\ \A s \in SUBSET N : s # {} /\ Cardinality(s) <= m =>
                  h[s] = op[<<h[s \ {Max(s)}], Max(s)>>]
           Bad == {m \in Nat : ~\E h : Upto(m, h)}
<1>0. IsFiniteSet(N) /\ Cardinality(N) = n
  BY FS_Interval
<1> HIDE DEF N
<1>1. \A s \in SUBSET N : IsFiniteSet(s) /\ Cardinality(s) \in Nat
  BY <1>0, FS_Subset, FS_CardinalityType
<1>2. \A s \in SUBSET N : s # {} =>
        /\ Max(s) \in s /\ Max(s) \in N /\ s \ {Max(s)} \in SUBSET N
        /\ Cardinality(s \ {Max(s)}) = Cardinality(s) - 1
  <2> SUFFICES ASSUME NEW s \in SUBSET N, s # {}
               PROVE  Max(s) \in s /\ Cardinality(s \ {Max(s)}) = Cardinality(s) - 1
    OBVIOUS
  <2>1. Max(s) \in s
    BY LastOf DEF N
  <2> QED
    BY <1>1, <2>1, FS_RemoveElement
<1>3. 0 \notin Bad
  <2> DEFINE g == [s \in SUBSET N |-> b]
  <2>1. \A s \in SUBSET N : s # {} => Cardinality(s) > 0
    BY <1>1, FS_EmptySet
  <2>2. Upto(0, g)
    BY <1>1, <2>1
  <2> QED
    BY <2>2
<1>4. ASSUME NEW m \in Nat, m \notin Bad PROVE m + 1 \notin Bad
  <2>1. PICK g : Upto(m, g)
    BY <1>4
  <2> DEFINE h == [s \in SUBSET N |-> IF Cardinality(s) = m + 1
                                       THEN op[<<g[s \ {Max(s)}], Max(s)>>] ELSE g[s]]
  <2>2. Cardinality({}) = 0
    BY FS_EmptySet
  <2>3. \A s \in SUBSET N : h[s] \in V
    <3> TAKE s \in SUBSET N
    <3>1. CASE Cardinality(s) = m + 1
      <4>1. s # {}
        BY <2>2, <3>1
      <4>2. Max(s) \in N /\ g[s \ {Max(s)}] \in V
        BY <1>2, <2>1, <4>1
      <4>3. op[<<g[s \ {Max(s)}], Max(s)>>] \in V
        BY <4>2 DEF N
      <4> QED
        BY <3>1, <4>3
    <3>2. CASE Cardinality(s) # m + 1
      BY <2>1, <3>2
    <3> QED
      BY <3>1, <3>2
  <2>4. h[{}] = b
    BY <2>1, <2>2
  <2>5. ASSUME NEW s \in SUBSET N, s # {}, Cardinality(s) <= m + 1
        PROVE  h[s] = op[<<h[s \ {Max(s)}], Max(s)>>]
    <3>1. s \ {Max(s)} \in SUBSET N /\ Cardinality(s \ {Max(s)}) # m + 1
      BY <1>1, <1>2, <2>5
    <3>2. h[s \ {Max(s)}] = g[s \ {Max(s)}]
      BY <3>1
    <3>3. CASE Cardinality(s) = m + 1
      BY <3>2, <3>3
    <3>4. CASE Cardinality(s) # m + 1
      <4>1. h[s] = g[s] /\ Cardinality(s) <= m
        BY <1>1, <2>5, <3>4
      <4> QED
        BY <2>1, <2>5, <3>2, <4>1
    <3> QED
      BY <3>3, <3>4
  <2> HIDE DEF h
  <2>6. h \in [SUBSET N -> V]
    <3>1. h = [s \in SUBSET N |-> h[s]]
      BY DEF h
    <3> QED
      BY <2>3, <3>1
  <2>7. Upto(m + 1, h)
    BY <2>4, <2>5, <2>6
  <2> QED
    BY <2>7
<1>5. Bad = {}
  <2> SUFFICES ASSUME Bad # {} PROVE FALSE
    OBVIOUS
  <2>1. PICK k \in Bad : \A m \in Bad : k <= m
    <3>1. Bad \in SUBSET Nat
      OBVIOUS
    <3> HIDE DEF Bad
    <3> QED
      BY <3>1, LeastNumber
  <2>2. k \in Nat /\ k # 0
    BY <1>3
  <2>3. k - 1 \in Nat /\ k - 1 \notin Bad
    <3>1. k - 1 \in Nat /\ ~(k <= k - 1)
      BY <2>2
    <3> HIDE DEF Bad
    <3> QED
      BY <2>1, <3>1
  <2>4. (k - 1) + 1 \notin Bad
    <3> HIDE DEF Bad
    <3> QED
      BY <1>4, <2>3
  <2>5. (k - 1) + 1 = k
    BY <2>2
  <2> HIDE DEF Bad
  <2> QED
    BY <2>1, <2>4, <2>5
<1>6. PICK h : Upto(n, h)
  BY <1>5
<1>7. \A s \in SUBSET N : Cardinality(s) <= n
  BY <1>0, FS_Subset
<1>8. Folded(h, op, b, n, V)
  BY <1>6, <1>7 DEF Folded, N
<1> QED
  BY <1>8

\* Step by step: f[i] is what the first i places make of b.
Steps(f, op, b, n, V) ==
  /\ f \in [0 .. n -> V] /\ f[0] = b
  /\ \A i \in 1 .. n : f[i] = op[<<f[i - 1], i>>]

\* A function on the sets of places that is computed in that way, as far as its values
\* stay in V, has the values step by step.
Grows(h, op, b, n, V) ==
  /\ n \in Nat /\ b \in V /\ \A v \in V, i \in 1 .. n : op[<<v, i>>] \in V
  /\ h[{}] = b
  /\ \A s \in SUBSET (1 .. n) :
       s # {} /\ h[s \ {Max(s)}] \in V => h[s] = op[<<h[s \ {Max(s)}], Max(s)>>]

\* So it has the values of steps from the first place to the last.
LEMMA FoldSteps ==
  ASSUME NEW V, NEW b, NEW n, NEW op, NEW h, Grows(h, op, b, n, V)
  PROVE  \E f : Steps(f, op, b, n, V) /\ h[1 .. n] = f[n]
<1> USE DEF Grows
<1> DEFINE f == [i \in 0 .. n |-> h[1 .. i]]
<1>2. f[0] = b /\ h[1 .. n] = f[n]
  <2>1. 1 .. 0 = {}
    OBVIOUS
  <2> QED
    BY <2>1
<1>3. ASSUME NEW i \in 1 .. n, f[i - 1] \in V PROVE f[i] = op[<<f[i - 1], i>>]
  <2>1. 1 .. i \in SUBSET (1 .. n) /\ 1 .. i # {} /\ i - 1 \in 0 .. n /\ i \in 0 .. n
    OBVIOUS
  <2>2. Max(1 .. i) = i /\ (1 .. i) \ {i} = 1 .. i - 1
    BY LastOf
  <2>3. h[(1 .. i) \ {Max(1 .. i)}] = f[i - 1]
    BY <2>1, <2>2
  <2>4. h[1 .. i] = op[<<h[(1 .. i) \ {Max(1 .. i)}], Max(1 .. i)>>]
    BY <1>3, <2>1, <2>3
  <2> QED
    BY <2>1, <2>2, <2>3, <2>4
<1>4. f = [i \in 0 .. n |-> f[i]]
  OBVIOUS
<1> HIDE DEF f
<1> DEFINE Bad == {i \in 0 .. n : f[i] \notin V}
<1>5. Bad = {}
  <2> SUFFICES ASSUME Bad # {} PROVE FALSE
    OBVIOUS
  <2>1. PICK i \in Bad : \A m \in Bad : i <= m
    <3>1. Bad \in SUBSET Nat
      OBVIOUS
    <3> HIDE DEF Bad
    <3> QED
      BY <3>1, LeastNumber
  <2>2. i \in 1 .. n
    BY <1>2
  <2>3. i - 1 \in 0 .. n /\ ~(i <= i - 1)
    BY <2>2
  <2>4. f[i - 1] \in V
    BY <2>1, <2>3
  <2>5. f[i] \in V
    BY <1>3, <2>2, <2>4
  <2> QED
    BY <2>5
<1>6. f \in [0 .. n -> V]
  BY <1>4, <1>5
<1>7. \A i \in 1 .. n : f[i] = op[<<f[i - 1], i>>]
  <2>1. \A i \in 1 .. n : i - 1 \in 0 .. n
    OBVIOUS
  <2> QED
    BY <1>3, <1>6, <2>1
<1>8. Steps(f, op, b, n, V)
  BY <1>2, <1>6, <1>7 DEF Steps
<1> QED
  BY <1>2, <1>8

\* A property of the values step by step, given for each step, is one of the last value.
LEMMA StepsHold ==
  ASSUME NEW n \in Nat, NEW G \in SUBSET (0 .. n), 0 \in G,
         \A i \in 1 .. n : i - 1 \in G => i \in G
  PROVE  n \in G
<1> DEFINE Bad == (0 .. n) \ G
<1> SUFFICES ASSUME Bad # {} PROVE FALSE
  OBVIOUS
<1>1. PICK i \in Bad : \A m \in Bad : i <= m
  <2>1. Bad \in SUBSET Nat
    OBVIOUS
  <2> HIDE DEF Bad
  <2> QED
    BY <2>1, LeastNumber
<1>2. i \in 1 .. n /\ i - 1 \in 0 .. n /\ ~(i <= i - 1)
  OBVIOUS
<1>3. i - 1 \in G
  BY <1>1, <1>2
<1> QED
  BY <1>2, <1>3

-----------------------------------------------------------------------------
(* Passing.                                                                *)

\* p has the elements of s at the places I; at are these places, in their order.
Picks(at, p, s, I, S) ==
  /\ p \in Seq(S) /\ Len(p) = Cardinality(I) /\ Len(p) \in Nat /\ I \subseteq Nat
  /\ at \in [1 .. Len(p) -> I]
  /\ \A k \in 1 .. Len(p) : p[k] = s[at[k]]
  /\ \A i \in I : \E k \in 1 .. Len(p) : at[k] = i
  /\ \A j, k \in 1 .. Len(p) : j < k => at[j] < at[k]

\* Passing picks the elements.
LEMMA PassingIs ==
  ASSUME NEW S, NEW s \in Seq(S), NEW I \in SUBSET (1 .. Len(s))
  PROVE  \E at : Picks(at, Passing(s, I), s, I, S)
<1> DEFINE R == {q \in I \X I : q[1] < q[2]}
           at == Ranked(R, I)
           n == Cardinality(I)
           p == Passing(s, I)
<1>1. Len(s) \in Nat /\ \A i \in 1 .. Len(s) : s[i] \in S
  BY LenProperties, ElementOfSeq
<1>2. IsFiniteSet(I) /\ \A i \in I : i \in Int /\ s[i] \in S
  <2>1. IsFiniteSet(1 .. Len(s))
    BY <1>1, FS_Interval
  <2>2. IsFiniteSet(I)
    BY <2>1, FS_Subset
  <2>3. \A i \in I : i \in Int /\ s[i] \in S
    BY <1>1
  <2> QED
    BY <2>2, <2>3
<1>3. Orders(R, I)
  BY <1>2 DEF Orders
<1>4. /\ n \in Nat /\ at \in [1 .. n -> I]
      /\ \A x \in I : \E i \in 1 .. n : at[i] = x
      /\ \A i, j \in 1 .. n : i < j => <<at[i], at[j]>> \in R
  <2> HIDE DEF R
  <2> QED
    BY <1>2, <1>3, Sorted
<1>5. p = [k \in 1 .. n |-> s[at[k]]]
  <2>1. \A i \in I : {j \in I : <<j, i>> \in R} = {j \in I : j < i}
    OBVIOUS
  <2>2. \A i \in I : Rank(R, I, i) = Cardinality({j \in I : j < i})
    BY <2>1 DEF Rank
  <2> HIDE DEF R
  <2>3. \A k \in 1 .. n : at[k] = CHOOSE i \in I : Cardinality({j \in I : j < i}) = k - 1
    BY <2>2 DEF Ranked
  <2>4. /\ p = [k \in 1 .. n |-> p[k]]
        /\ \A k \in 1 .. n : p[k] = s[CHOOSE i \in I : Cardinality({j \in I : j < i}) = k - 1]
    BY DEF Passing
  <2> HIDE DEF at, p, n
  <2>5. \A k \in 1 .. n : p[k] = s[at[k]]
    BY <2>3, <2>4
  <2> QED
    BY <2>4, <2>5
<1>6. \A i, j \in 1 .. n : i < j => at[i] < at[j]
  BY <1>4
<1> HIDE DEF at, p, n
<1>7. p \in Seq(S) /\ Len(p) = n
  <2>1. p \in [1 .. n -> S]
    BY <1>2, <1>4, <1>5
  <2> QED
    BY <1>4, <2>1, IsASeq
<1>8. \A k \in 1 .. n : p[k] = s[at[k]]
  BY <1>5
<1>9. I \subseteq Nat
  BY <1>1
<1> QED
  BY <1>4, <1>6, <1>7, <1>8, <1>9 DEF Picks, p, n

\* The elements of a sequence with one more.
LEMMA AppendedSet ==
  ASSUME NEW S, NEW t \in Seq(S), NEW x \in S
  PROVE  /\ Append(t, x) \in Seq(S) /\ Len(Append(t, x)) = Len(t) + 1
         /\ ToSet(Append(t, x)) = ToSet(t) \cup {x}
         /\ \A i \in 1 .. Len(t) : Append(t, x)[i] = t[i]
         /\ Append(t, x)[Len(t) + 1] = x
<1> DEFINE u == Append(t, x)
<1>1. u \in Seq(S) /\ Len(u) = Len(t) + 1 /\ (\A i \in 1 .. Len(t) : u[i] = t[i]) /\ u[Len(t) + 1] = x
  BY AppendProperties
<1> HIDE DEF u
<1>2. Len(t) \in Nat
  BY LenProperties
<1>3. ToSet(u) = {u[i] : i \in 1 .. Len(u)} /\ ToSet(t) = {t[i] : i \in 1 .. Len(t)}
  BY <1>1, ElementsFinite
<1>4. ToSet(u) = ToSet(t) \cup {x}
  <2>1. ASSUME NEW y \in ToSet(u) PROVE y \in ToSet(t) \cup {x}
    <3>1. PICK i \in 1 .. Len(u) : y = u[i]
      BY <1>3
    <3>2. i \in 1 .. Len(t) \/ i = Len(t) + 1
      BY <1>1, <1>2
    <3> QED
      BY <1>1, <1>3, <3>1, <3>2
  <2>2. ASSUME NEW y \in ToSet(t) PROVE y \in ToSet(u)
    <3>1. PICK i \in 1 .. Len(t) : y = t[i]
      BY <1>3
    <3>2. i \in 1 .. Len(u) /\ y = u[i]
      BY <1>1, <1>2, <3>1
    <3> QED
      BY <1>3, <3>2
  <2>3. x \in ToSet(u)
    <3>1. Len(t) + 1 \in 1 .. Len(u)
      BY <1>1, <1>2
    <3> QED
      BY <1>1, <1>3, <3>1
  <2> QED
    BY <2>1, <2>2, <2>3
<1> QED
  BY <1>1, <1>4 DEF u

\* A line of a sample file: its label, or "none", and its words.
Line == [label : {"pos", "neg", "other", "none"}, words : Seq(Terms)]

\* The lines of a file are those with a label.
LEMMA LinesPicked ==
  ASSUME NEW file \in Seq(Line), file # Missing
  PROVE  \E at : Picks(at, Lines(file), file, {i \in 1 .. Len(file) : file[i].label # "none"}, Line)
<1>1. DOMAIN file = 1 .. Len(file)
  BY LenProperties
<1>2. Lines(file) = Passing(file, {i \in 1 .. Len(file) : file[i].label # "none"})
  BY <1>1 DEF Lines
<1> QED
  BY <1>2, PassingIs

-----------------------------------------------------------------------------
(* The terms of a text.                                                    *)

\* The least of some numbers is one of them.
LEMMA MinOf ==
  ASSUME NEW S \in SUBSET Nat, S # {}
  PROVE  Min(S) \in S /\ \A y \in S : Min(S) <= y
<1>1. PICK n \in S : \A m \in S : n <= m
  BY LeastNumber
<1> QED
  BY <1>1 DEF Min

\* f[i] is the concatenation of the first i sequences of s.
Sums(s, S) ==
  {f \in [1 .. Len(s) -> Seq(S)] :
     \A i \in 1 .. Len(s) : f[i] = IF i = 1 THEN s[i] ELSE f[i - 1] \o s[i]}

\* There are such concatenations: the least number of sequences without them would be
\* one more than a number with.
LEMMA SumsExist == ASSUME NEW S, NEW s \in Seq(Seq(S)) PROVE Sums(s, S) # {}
<1> DEFINE G(m) == {f \in [1 .. m -> Seq(S)] :
                      \A i \in 1 .. m : f[i] = IF i = 1 THEN s[i] ELSE f[i - 1] \o s[i]}
           Bad == {m \in 0 .. Len(s) : G(m) = {}}
<1>1. Len(s) \in Nat /\ \A i \in 1 .. Len(s) : s[i] \in Seq(S)
  BY LenProperties, ElementOfSeq
<1>2. CASE Bad = {}
  <2>1. Len(s) \in 0 .. Len(s)
    BY <1>1
  <2> HIDE DEF G
  <2>2. G(Len(s)) # {}
    BY <1>2, <2>1
  <2> QED
    BY <2>2 DEF G, Sums
<1>3. CASE Bad # {}
  <2> DEFINE m == Min(Bad)
  <2>1. Bad \in SUBSET Nat
    BY <1>1
  <2>2. m \in Bad /\ \A y \in Bad : m <= y
    BY <1>3, <2>1, MinOf
  <2> HIDE DEF m
  <2>3. m \in 0 .. Len(s) /\ G(m) = {}
    BY <2>2
  <2>4. m # 0
    <3>1. CASE m = 0
      <4> DEFINE f == [i \in 1 .. 0 |-> <<>>]
      <4>1. f \in G(0)
        OBVIOUS
      <4> QED
        BY <2>3, <3>1, <4>1
    <3> QED
      BY <3>1
  <2>5. m - 1 \in 0 .. Len(s) /\ ~(m <= m - 1)
    BY <1>1, <2>3, <2>4
  <2>6. m - 1 \notin Bad
    BY <2>2, <2>5
  <2>7. PICK f \in [1 .. m - 1 -> Seq(S)] :
          \A i \in 1 .. m - 1 : f[i] = IF i = 1 THEN s[i] ELSE f[i - 1] \o s[i]
    BY <2>5, <2>6
  <2> DEFINE last == IF m = 1 THEN s[m] ELSE f[m - 1] \o s[m]
             g == [i \in 1 .. m |-> IF i = m THEN last ELSE f[i]]
  <2>8. last \in Seq(S)
    <3>1. s[m] \in Seq(S)
      BY <1>1, <2>3, <2>4
    <3>2. CASE m # 1
      <4>1. f[m - 1] \in Seq(S)
        BY <2>3, <2>4, <3>2
      <4> QED
        BY <3>1, <3>2, <4>1, ConcatProperties
    <3> QED
      BY <3>1, <3>2
  <2> HIDE DEF last
  <2>9. g \in [1 .. m -> Seq(S)]
    BY <2>3, <2>8
  <2>10. ASSUME NEW i \in 1 .. m
         PROVE  g[i] = IF i = 1 THEN s[i] ELSE g[i - 1] \o s[i]
    <3>1. CASE i = m
      <4>1. m # 1 => g[m - 1] = f[m - 1]
        BY <2>3, <2>4
      <4> QED
        BY <2>3, <2>4, <3>1, <4>1 DEF last
    <3>2. CASE i # m
      <4>1. i \in 1 .. m - 1 /\ g[i] = f[i]
        BY <2>3, <3>2
      <4>2. i # 1 => i - 1 \in 1 .. m /\ i - 1 # m
        BY <2>3, <4>1
      <4>3. i # 1 => g[i - 1] = f[i - 1]
        BY <4>2
      <4> QED
        BY <2>7, <4>1, <4>3
    <3> QED
      BY <3>1, <3>2
  <2>11. g \in G(m)
    BY <2>9, <2>10
  <2> QED
    BY <2>3, <2>11
<1> QED
  BY <1>2, <1>3

\* They are what FlattenSeq is.
LEMMA SumsFlatten ==
  ASSUME NEW S, NEW s \in Seq(Seq(S)), NEW f \in Sums(s, S)
  PROVE  FlattenSeq(s) = IF s = <<>> THEN <<>> ELSE f[Len(s)]
<1> DEFINE Eq(g) == g = [i \in 1 .. Len(s) |-> IF i = 1 THEN s[i] ELSE g[i - 1] \o s[i]]
           g == CHOOSE h : Eq(h)
<1>1. Len(s) \in Nat /\ (s # <<>> => Len(s) # 0)
  BY LenProperties, EmptySeq
<1>2. CASE s = <<>>
  BY <1>2, EmptySeq DEF FlattenSeq
<1>3. CASE s # <<>>
  <2>1. FlattenSeq(s) = g[Len(s)]
    BY <1>1, <1>3 DEF FlattenSeq
  <2>2. Eq(f)
    BY DEF Sums
  <2>3. Eq(g)
    BY <2>2
  <2> HIDE DEF g
  <2>4. \A i \in 1 .. Len(s) : /\ f[i] = IF i = 1 THEN s[i] ELSE f[i - 1] \o s[i]
                              /\ g[i] = IF i = 1 THEN s[i] ELSE g[i - 1] \o s[i]
    BY <2>3 DEF Sums
  <2> DEFINE Bad == {i \in 1 .. Len(s) : f[i] # g[i]}
  <2>5. Bad = {}
    <3> SUFFICES ASSUME Bad # {} PROVE FALSE
      OBVIOUS
    <3> DEFINE m == Min(Bad)
    <3>1. Bad \in SUBSET Nat
      BY <1>1
    <3>2. m \in Bad /\ \A y \in Bad : m <= y
      BY <3>1, MinOf
    <3> HIDE DEF m
    <3>3. m \in 1 .. Len(s) /\ f[m] # g[m]
      BY <3>2
    <3>4. m # 1
      BY <2>4, <3>3
    <3>5. m - 1 \in 1 .. Len(s) /\ ~(m <= m - 1)
      BY <3>3, <3>4
    <3>6. f[m - 1] = g[m - 1]
      BY <3>2, <3>5
    <3> QED
      BY <2>4, <3>3, <3>6
  <2>6. f[Len(s)] = g[Len(s)]
    <3>1. Len(s) \in 1 .. Len(s)
      BY <1>1, <1>3
    <3> QED
      BY <2>5, <3>1
  <2> QED
    BY <1>3, <2>1, <2>6
<1> QED
  BY <1>2, <1>3

\* How many of the first i numbers are in P: one more than of those before if i is.
LEMMA CountUpto ==
  ASSUME NEW P, NEW i \in Nat
  PROVE  /\ Cardinality(P \cap 1 .. i) \in Nat
         /\ i # 0 => Cardinality(P \cap 1 .. i)
                       = Cardinality(P \cap 1 .. i - 1) + IF i \in P THEN 1 ELSE 0
         /\ Cardinality(P \cap 1 .. 0) = 0
<1>1. \A j \in Int : IsFiniteSet(P \cap 1 .. j) /\ Cardinality(P \cap 1 .. j) \in Nat
  <2> TAKE j \in Int
  <2>1. IsFiniteSet(1 .. j)
    BY FS_Interval
  <2>2. IsFiniteSet(P \cap 1 .. j)
    BY <2>1, FS_Subset
  <2> QED
    BY <2>2, FS_CardinalityType
<1>2. Cardinality(P \cap 1 .. 0) = 0
  <2>1. P \cap 1 .. 0 = {}
    OBVIOUS
  <2> QED
    BY <2>1, FS_EmptySet
<1>3. ASSUME i # 0
      PROVE  Cardinality(P \cap 1 .. i) = Cardinality(P \cap 1 .. i - 1) + IF i \in P THEN 1 ELSE 0
  <2> DEFINE Q == P \cap 1 .. i - 1
  <2>1. IsFiniteSet(Q) /\ Cardinality(Q) \in Nat /\ i \notin Q
    BY <1>1
  <2>2. 1 .. i = (1 .. i - 1) \cup {i}
    BY <1>3
  <2>3. CASE i \in P
    <3>1. P \cap 1 .. i = Q \cup {i}
      BY <2>2, <2>3
    <3> HIDE DEF Q
    <3>2. Cardinality(Q \cup {i}) = Cardinality(Q) + 1
      BY <2>1, FS_AddElement
    <3> QED
      BY <2>3, <3>1, <3>2 DEF Q
  <2>4. CASE i \notin P
    <3>1. P \cap 1 .. i = Q
      BY <2>2, <2>4
    <3> QED
      BY <2>1, <2>4, <3>1
  <2> QED
    BY <2>3, <2>4
<1>4. Cardinality(P \cap 1 .. i) \in Nat
  BY <1>1
<1> QED
  BY <1>2, <1>3, <1>4

\* How often x is in a sequence.
Times(s, x) == Cardinality({i \in 1 .. Len(s) : s[i] = x})

\* One more with one more.
LEMMA TimesAppend ==
  ASSUME NEW S, NEW s \in Seq(S), NEW y \in S, NEW x
  PROVE  /\ Times(s, x) \in Nat /\ Times(<<>>, x) = 0
         /\ Times(Append(s, y), x) = Times(s, x) + IF y = x THEN 1 ELSE 0
<1> DEFINE u == Append(s, y)
           P == {i \in Nat : u[i] = x}
<1>1. /\ Len(s) \in Nat /\ Len(u) = Len(s) + 1
      /\ (\A i \in 1 .. Len(s) : u[i] = s[i]) /\ u[Len(s) + 1] = y
  BY AppendedSet, LenProperties
<1> HIDE DEF u
<1>2. {i \in 1 .. Len(s) : s[i] = x} = P \cap 1 .. Len(s)
  BY <1>1
<1>3. {i \in 1 .. Len(u) : u[i] = x} = P \cap 1 .. Len(s) + 1
  BY <1>1
<1>4. Len(s) + 1 \in P <=> y = x
  BY <1>1
<1> HIDE DEF P
<1>5. Len(s) + 1 \in Nat \ {0} /\ (Len(s) + 1) - 1 = Len(s)
  BY <1>1
<1>6. /\ Cardinality(P \cap 1 .. Len(s)) \in Nat
      /\ Cardinality(P \cap 1 .. Len(s) + 1)
           = Cardinality(P \cap 1 .. Len(s)) + IF Len(s) + 1 \in P THEN 1 ELSE 0
  <2>1. Cardinality(P \cap 1 .. Len(s)) \in Nat
    BY <1>1, CountUpto
  <2> DEFINE k == Len(s) + 1
  <2>2. k \in Nat /\ k # 0 /\ k - 1 = Len(s)
    BY <1>5
  <2> HIDE DEF k
  <2>3. Cardinality(P \cap 1 .. k) = Cardinality(P \cap 1 .. k - 1) + IF k \in P THEN 1 ELSE 0
    BY <2>2, CountUpto
  <2> QED
    BY <2>1, <2>2, <2>3 DEF k
<1>7. Times(<<>>, x) = 0
  <2>1. {i \in 1 .. Len(<<>>) : <<>>[i] = x} = {}
    OBVIOUS
  <2> QED
    BY <2>1, FS_EmptySet DEF Times
<1> QED
  BY <1>2, <1>3, <1>4, <1>6, <1>7 DEF Times, u

\* A sequence with one more element, or with two.
LEMMA OneOrTwo ==
  ASSUME NEW S, NEW s \in Seq(S), NEW x \in S, NEW y \in S
  PROVE  /\ <<x>> \in Seq(S) /\ <<x, y>> \in Seq(S)
         /\ s \o <<x>> = Append(s, x)
         /\ s \o <<x, y>> = Append(Append(s, x), y)
<1>1. <<x>> \in Seq(S) /\ <<y>> \in Seq(S) /\ <<x, y>> \in Seq(S)
  OBVIOUS
<1>2. s \o <<x>> = Append(s, x)
  BY AppendIsConcat
<1>3. <<x, y>> = <<x>> \o <<y>>
  <2>1. Append(<<x>>, y) = <<x, y>>
    <3> DEFINE one == <<x>>
               u == Append(one, y)
               v == <<x, y>>
    <3>1. one \in Seq(S) /\ Len(one) = 1 /\ one[1] = x
      OBVIOUS
    <3>2. v \in Seq(S) /\ Len(v) = 2 /\ v[1] = x /\ v[2] = y
      OBVIOUS
    <3> HIDE DEF one, v
    <3>3. u \in Seq(S) /\ Len(u) = 2 /\ u[1] = x /\ u[2] = y
      <4>1. /\ u \in Seq(S) /\ Len(u) = Len(one) + 1 /\ u[Len(one) + 1] = y
            /\ \A i \in 1 .. Len(one) : u[i] = one[i]
        <5>1. one \in Seq(S)
          BY <3>1
        <5> QED
          BY ONLY <5>1, y \in S, AppendProperties
      <4> HIDE DEF u
      <4>2. 1 \in 1 .. Len(one) /\ Len(one) + 1 = 2
        BY <3>1
      <4> QED
        BY <3>1, <4>1, <4>2
    <3> HIDE DEF u
    <3>4. \A i \in 1 .. 2 : u[i] = v[i]
      BY <3>2, <3>3
    <3>5. u = v
      BY <3>2, <3>3, <3>4, SeqEqual
    <3> QED
      BY <3>5 DEF u, v, one
  <2> QED
    BY <1>1, <2>1, AppendIsConcat
<1>4. s \o (<<x>> \o <<y>>) = (s \o <<x>>) \o <<y>>
  BY <1>1, ConcatAssociative
<1>5. Append(s, x) \in Seq(S)
  BY AppendProperties
<1>6. Append(s, x) \o <<y>> = Append(Append(s, x), y)
  BY <1>5, AppendIsConcat
<1> QED
  BY <1>1, <1>2, <1>3, <1>4, <1>6

\* The terms of the words that are kept.
Pairs(kept) ==
  [i \in DOMAIN kept |->
    IF i = Len(kept) THEN <<kept[i]>> ELSE <<kept[i], kept[i] \o kept[i + 1]>>]

\* The places of a word that is t, and of a word that is t with the next one.
AloneAt(t, kept) == {i \in 1 .. Len(kept) : kept[i] = t}
JoinedAt(t, kept) == {i \in 1 .. Len(kept) - 1 : kept[i] \o kept[i + 1] = t}

\* A term is there as often as a word is the same, and as two words that follow each
\* other are.
LEMMA BigramTimes ==
  ASSUME NEW kept \in Seq(Terms), NEW t
  PROVE  /\ FlattenSeq(Pairs(kept)) \in Seq(Terms)
         /\ Times(FlattenSeq(Pairs(kept)), t)
              = Cardinality(AloneAt(t, kept)) + Cardinality(JoinedAt(t, kept))
<1> DEFINE n == Len(kept)
           F == Pairs(kept)
           P == {i \in Nat : kept[i] = t}
           Q == {i \in 1 .. n - 1 : kept[i] \o kept[i + 1] = t}
<1>1. n \in Nat /\ DOMAIN kept = 1 .. n /\ \A i \in 1 .. n : kept[i] \in Terms
  BY LenProperties, ElementOfSeq
<1>2. ASSUME NEW i \in 1 .. n
      PROVE  /\ F[i] = IF i = n THEN <<kept[i]>> ELSE <<kept[i], kept[i] \o kept[i + 1]>>
             /\ F[i] \in Seq(Terms)
             /\ i # n => kept[i] \o kept[i + 1] \in Terms
  <2>1. F[i] = IF i = n THEN <<kept[i]>> ELSE <<kept[i], kept[i] \o kept[i + 1]>>
    BY <1>1 DEF Pairs
  <2>2. i # n => kept[i] \o kept[i + 1] \in Terms
    <3> HAVE i # n
    <3>1. i + 1 \in 1 .. n
      <4> HIDE DEF n
      <4> QED
        BY <1>1
    <3>2. kept[i] \in Seq(Characters) /\ kept[i + 1] \in Seq(Characters)
      BY <1>1, <3>1 DEF Terms
    <3> QED
      BY <3>2, ConcatProperties DEF Terms
  <2>3. CASE i = n
    BY <1>1, <2>1, <2>3, OneOrTwo
  <2>4. CASE i # n
    <3> DEFINE y == kept[i] \o kept[i + 1]
    <3>1. kept[i] \in Terms /\ y \in Terms
      BY <1>1, <2>2, <2>4
    <3> HIDE DEF y
    <3>2. <<kept[i], y>> \in Seq(Terms)
      BY <3>1
    <3>3. <<kept[i], kept[i] \o kept[i + 1]>> \in Seq(Terms)
      BY <3>2 DEF y
    <3> QED
      BY <2>1, <2>2, <2>4, <3>3
  <2> QED
    BY <2>1, <2>2, <2>3, <2>4
<1>3. F \in Seq(Seq(Terms)) /\ Len(F) = n
  <2>1. F = [i \in 1 .. n |-> F[i]]
    BY <1>1 DEF Pairs
  <2>2. F \in [1 .. n -> Seq(Terms)]
    <3> HIDE DEF F
    <3> QED
      BY <1>2, <2>1
  <2> HIDE DEF F
  <2> QED
    BY <1>1, <2>2
<1> HIDE DEF F
<1>4. PICK f \in Sums(F, Terms) : TRUE
  BY <1>3, SumsExist
<1>5. FlattenSeq(F) = IF F = <<>> THEN <<>> ELSE f[n]
  BY <1>3, SumsFlatten
<1> DEFINE g == [i \in 0 .. n |-> IF i = 0 THEN <<>> ELSE f[i]]
<1>6. FlattenSeq(F) = g[n]
  <2>1. F = <<>> <=> n = 0
    BY <1>3, EmptySeq
  <2> QED
    BY <1>1, <1>5, <2>1
<1>7. g[0] = <<>> /\ \A i \in 1 .. n : g[i] = g[i - 1] \o F[i]
  <2>1. f \in [1 .. n -> Seq(Terms)] /\ \A i \in 1 .. n : f[i] = IF i = 1 THEN F[i] ELSE f[i - 1] \o F[i]
    BY <1>3 DEF Sums
  <2>2. ASSUME NEW i \in 1 .. n PROVE g[i] = g[i - 1] \o F[i]
    <3>1. i \in 0 .. n /\ i # 0 /\ i - 1 \in 0 .. n
      BY <1>1
    <3>2. g[i] = f[i]
      BY <3>1
    <3>3. CASE i = 1
      <4>1. f[i] = F[i] /\ F[i] \in Seq(Terms)
        BY <1>2, <2>1, <3>3
      <4>3. g[i - 1] = <<>>
        BY <1>1, <3>3
      <4>2. <<>> \o F[i] = F[i]
        BY <4>1, ConcatEmptySeq
      <4> QED
        BY <3>2, <4>1, <4>2, <4>3
    <3>4. CASE i # 1
      <4>1. i - 1 # 0
        BY <3>4
      <4>2. g[i - 1] = f[i - 1]
        BY <3>1, <4>1
      <4> QED
        BY <2>1, <3>2, <3>4, <4>2
    <3> QED
      BY <3>3, <3>4
  <2>3. g[0] = <<>>
    BY <1>1
  <2> HIDE DEF g
  <2> QED
    BY <2>2, <2>3
<1> HIDE DEF g, n
<1> DEFINE Ok(i) == /\ g[i] \in Seq(Terms)
                    /\ Times(g[i], t) = Cardinality(P \cap 1 .. i) + Cardinality(Q \cap 1 .. i)
           G == {i \in 0 .. n : Ok(i)}
<1>8. Ok(0)
  <2>1. Cardinality(P \cap 1 .. 0) = 0 /\ Cardinality(Q \cap 1 .. 0) = 0
    <3> HIDE DEF P, Q
    <3> QED
      BY CountUpto
  <2>2. Times(<<>>, t) = 0
    <3>1. {i \in 1 .. Len(<<>>) : <<>>[i] = t} = {}
      OBVIOUS
    <3> QED
      BY <3>1, FS_EmptySet DEF Times
  <2> HIDE DEF P, Q
  <2> QED
    BY <1>7, <2>1, <2>2
<1>9. ASSUME NEW i \in 1 .. n, Ok(i - 1) PROVE Ok(i)
  <2> DEFINE s == g[i - 1]
             x == kept[i]
             y == kept[i] \o kept[i + 1]
             p == Cardinality(P \cap 1 .. i - 1)
             q == Cardinality(Q \cap 1 .. i - 1)
  <2>1. i \in Nat /\ i # 0 /\ i - 1 \in Nat
    BY <1>1
  <2>2. s \in Seq(Terms) /\ Times(s, t) = p + q
    BY <1>9
  <2>3. /\ p \in Nat /\ q \in Nat
        /\ Cardinality(P \cap 1 .. i) = p + IF i \in P THEN 1 ELSE 0
        /\ Cardinality(Q \cap 1 .. i) = q + IF i \in Q THEN 1 ELSE 0
    <3> HIDE DEF P, Q
    <3>1. p \in Nat /\ q \in Nat
      BY <2>1, CountUpto
    <3>2. /\ Cardinality(P \cap 1 .. i) = p + IF i \in P THEN 1 ELSE 0
          /\ Cardinality(Q \cap 1 .. i) = q + IF i \in Q THEN 1 ELSE 0
      BY <2>1, CountUpto
    <3> QED
      BY <3>1, <3>2
  <2>4. i \in P <=> x = t
    BY <2>1
  <2>5. i \in Q <=> i # n /\ y = t
    BY <1>1
  <2>6. x \in Terms /\ (i # n => y \in Terms)
    BY <1>1, <1>2 DEF n
  <2>7. g[i] = IF i = n THEN s \o <<x>> ELSE s \o <<x, y>>
    BY <1>2, <1>7 DEF n
  <2> HIDE DEF s, x, y, p, q, P, Q
  <2>8. CASE i = n
    <3>1. g[i] = Append(s, x)
      BY <2>2, <2>6, <2>7, <2>8, OneOrTwo
    <3>2. Append(s, x) \in Seq(Terms) /\ Times(Append(s, x), t) = Times(s, t) + IF x = t THEN 1 ELSE 0
      BY <2>2, <2>6, TimesAppend, AppendProperties
    <3>3. p + q + (IF x = t THEN 1 ELSE 0) = (p + IF i \in P THEN 1 ELSE 0) + (q + IF i \in Q THEN 1 ELSE 0)
      BY <2>3, <2>4, <2>5, <2>8
    <3> QED
      BY <2>2, <2>3, <3>1, <3>2, <3>3
  <2>9. CASE i # n
    <3>1. g[i] = Append(Append(s, x), y)
      BY <2>2, <2>6, <2>7, <2>9, OneOrTwo
    <3>2. Append(s, x) \in Seq(Terms) /\ Times(Append(s, x), t) = Times(s, t) + IF x = t THEN 1 ELSE 0
      BY <2>2, <2>6, TimesAppend, AppendProperties
    <3> DEFINE u == Append(s, x)
    <3>3. u \in Seq(Terms) /\ y \in Terms
      BY <2>6, <2>9, <3>2
    <3> HIDE DEF u
    <3>4. Append(u, y) \in Seq(Terms) /\ Times(Append(u, y), t) = Times(u, t) + IF y = t THEN 1 ELSE 0
      BY <3>3, TimesAppend, AppendProperties
    <3>5. p + q + (IF x = t THEN 1 ELSE 0) + (IF y = t THEN 1 ELSE 0)
            = (p + IF i \in P THEN 1 ELSE 0) + (q + IF i \in Q THEN 1 ELSE 0)
      BY <2>3, <2>4, <2>5, <2>9
    <3> QED
      BY <2>2, <2>3, <3>1, <3>2, <3>4, <3>5 DEF u
  <2> QED
    BY <2>8, <2>9
<1> HIDE DEF Ok
<1>10. n \in G
  <2>1. G \in SUBSET (0 .. n) /\ 0 \in G /\ \A i \in 1 .. n : i - 1 \in G => i \in G
    BY <1>1, <1>8, <1>9
  <2> HIDE DEF G
  <2> QED
    BY <1>1, <2>1, StepsHold
<1>11. P \cap 1 .. n = {i \in 1 .. n : kept[i] = t} /\ Q \cap 1 .. n = Q
  <2>1. \A i \in 1 .. n : i \in Nat
    OBVIOUS
  <2>2. Q \subseteq 1 .. n
    <3>1. \A i \in 1 .. n - 1 : i \in 1 .. n
      BY <1>1
    <3> QED
      BY <3>1
  <2> QED
    BY <2>1, <2>2
<1>12. /\ g[n] \in Seq(Terms)
       /\ Times(g[n], t) = Cardinality(P \cap 1 .. n) + Cardinality(Q \cap 1 .. n)
  BY <1>10 DEF Ok
<1> QED
  BY <1>6, <1>11, <1>12 DEF n, F, AloneAt, JoinedAt

\* The words that are kept, each after those before it.
LEMMA KeptAscends ==
  ASSUME NEW words \in Seq(Terms)
  PROVE  \E kept : /\ bigramModel(Dedup(words)) = FlattenSeq(Pairs(kept))
                   /\ Ascending(kept, {w \in ToSet(words) : ~isNeedClean(w)})
<1> DEFINE d == Dedup(words)
           n == Len(d)
           I == {i \in 1 .. n : ~isNeedClean(d[i])}
           kept == Passing(d, I)
<1>1. d \in Seq(Terms) /\ ToSet(d) = ToSet(words) /\ \A i, j \in 1 .. n : i < j => Before(d[i], d[j])
  BY DedupAscends DEF Ascending
<1>2. bigramModel(d) = FlattenSeq(Pairs(kept))
  <2> HIDE DEF d
  <2>1. DOMAIN d = 1 .. n
    BY <1>1, LenProperties
  <2> QED
    BY <2>1 DEF bigramModel, Pairs
<1> HIDE DEF d
<1>3. PICK at : Picks(at, kept, d, I, Terms)
  BY <1>1, PassingIs
<1>4. n \in Nat /\ ToSet(d) = {d[i] : i \in 1 .. n}
  BY <1>1, ElementsFinite, LenProperties
<1> HIDE DEF kept
<1>5. /\ kept \in Seq(Terms) /\ DOMAIN kept = 1 .. Len(kept)
      /\ at \in [1 .. Len(kept) -> I]
      /\ \A k \in 1 .. Len(kept) : kept[k] = d[at[k]]
      /\ \A i \in I : \E k \in 1 .. Len(kept) : at[k] = i
      /\ \A j, k \in 1 .. Len(kept) : j < k => at[j] < at[k]
  BY <1>3, LenProperties DEF Picks
<1>6. ToSet(kept) = {w \in ToSet(words) : ~isNeedClean(w)}
  <2>1. ToSet(kept) = {kept[k] : k \in 1 .. Len(kept)}
    BY <1>5, ElementsFinite
  <2>2. \A w : w \in ToSet(kept) <=> \E i \in I : w = d[i]
    <3> HIDE DEF I
    <3> QED
      BY <1>5, <2>1
  <2> QED
    BY <1>1, <1>4, <2>2
<1>7. \A i, j \in 1 .. Len(kept) : i < j => Before(kept[i], kept[j])
  <2> TAKE i, j \in 1 .. Len(kept)
  <2>1. \A l \in I : l \in 1 .. n
    OBVIOUS
  <2> HIDE DEF n, I
  <2>2. at[i] \in 1 .. n /\ at[j] \in 1 .. n /\ (i < j => at[i] < at[j])
    BY <1>5, <2>1
  <2>3. kept[i] = d[at[i]] /\ kept[j] = d[at[j]]
    BY <1>5
  <2>4. at[i] < at[j] => Before(d[at[i]], d[at[j]])
    BY <1>1, <2>2 DEF n
  <2> QED
    BY <2>2, <2>3, <2>4
<1> QED
  BY <1>2, <1>5, <1>6, <1>7 DEF Ascending, d

-----------------------------------------------------------------------------
(* The terms of a line.                                                    *)

\* x comes before y and no element of S between them.
Adjacent(x, y, S) == Before(x, y) /\ \A z \in S : ~(Before(x, z) /\ Before(z, y))

\* The elements of S that are t, and the neighbours that are t together.
Alone(t, S) == {x \in S : x = t}
Joined(t, S) == {p \in S \X S : Adjacent(p[1], p[2], S) /\ p[1] \o p[2] = t}

\* An element of an ascending sequence is where it is, and neighbours are where they
\* follow each other.
LEMMA Places ==
  ASSUME NEW S \in SUBSET Terms, NEW kept, Ascending(kept, S), NEW t
  PROVE  /\ Cardinality(Alone(t, S)) = Cardinality(AloneAt(t, kept))
         /\ Cardinality(Joined(t, S)) = Cardinality(JoinedAt(t, kept))
<1> DEFINE n == Len(kept)
           P == {i \in 1 .. n : kept[i] = t}
           Q == {i \in 1 .. n - 1 : kept[i] \o kept[i + 1] = t}
           A == {x \in S : x = t}
           B == {p \in S \X S : Adjacent(p[1], p[2], S) /\ p[1] \o p[2] = t}
           a == [i \in P |-> kept[i]]
           b == [i \in Q |-> <<kept[i], kept[i + 1]>>]
<1>1. kept \in Seq(Terms) /\ n \in Nat /\ (\A i \in 1 .. n : kept[i] \in S) /\ \A x \in S : \E i \in 1 .. n : x = kept[i]
  <2>1. kept \in Seq(Terms) /\ ToSet(kept) = S
    BY DEF Ascending
  <2>2. ToSet(kept) = {kept[i] : i \in 1 .. n} /\ n \in Nat
    BY <2>1, ElementsFinite, LenProperties
  <2> QED
    BY <2>1, <2>2
<1>2. \A i, j \in 1 .. n : i < j => Before(kept[i], kept[j])
  BY DEF Ascending
<1>3. /\ \A x \in S : ~Before(x, x)
      /\ \A x, y \in S : ~(Before(x, y) /\ Before(y, x))
  <2>1. Orders(Order(S), S)
    BY BeforeOrders
  <2>2. \A x, y \in S : <<x, y>> \in Order(S) <=> Before(x, y)
    BY DEF Order
  <2> QED
    BY <2>1, <2>2 DEF Orders
<1> HIDE DEF n
<1>4. \A i, j \in 1 .. n : Before(kept[i], kept[j]) => i < j
  <2> SUFFICES ASSUME NEW i \in 1 .. n, NEW j \in 1 .. n, Before(kept[i], kept[j]), ~(i < j) PROVE FALSE
    OBVIOUS
  <2>1. i = j \/ j < i
    BY <1>1
  <2> QED
    BY <1>1, <1>2, <1>3, <2>1
<1>5. \A i, j \in 1 .. n : kept[i] = kept[j] => i = j
  <2> SUFFICES ASSUME NEW i \in 1 .. n, NEW j \in 1 .. n, kept[i] = kept[j], i # j PROVE FALSE
    OBVIOUS
  <2>1. i < j \/ j < i
    BY <1>1
  <2> QED
    BY <1>1, <1>2, <1>3, <2>1
<1>6. \A i \in 1 .. n - 1 : i \in 1 .. n /\ i + 1 \in 1 .. n /\ i < i + 1
  BY <1>1
<1>7. ASSUME NEW i \in 1 .. n - 1 PROVE Adjacent(kept[i], kept[i + 1], S)
  <2>1. Before(kept[i], kept[i + 1])
    BY <1>2, <1>6
  <2>2. ASSUME NEW z \in S, Before(kept[i], z), Before(z, kept[i + 1]) PROVE FALSE
    <3>1. PICK k \in 1 .. n : z = kept[k]
      BY <1>1
    <3>2. i < k /\ k < i + 1
      BY <1>4, <1>6, <2>2, <3>1
    <3> QED
      BY <1>1, <3>2
  <2> QED
    BY <2>1, <2>2 DEF Adjacent
<1>8. ASSUME NEW x \in S, NEW y \in S, Adjacent(x, y, S)
      PROVE  \E i \in 1 .. n - 1 : x = kept[i] /\ y = kept[i + 1]
  <2>1. PICK i \in 1 .. n : x = kept[i]
    BY <1>1
  <2>2. PICK j \in 1 .. n : y = kept[j]
    BY <1>1
  <2>3. i < j
    BY <1>4, <1>8, <2>1, <2>2 DEF Adjacent
  <2>4. i \in 1 .. n - 1 /\ i + 1 \in 1 .. n /\ (j # i + 1 => i + 1 < j)
    BY <1>1, <2>3
  <2>5. j = i + 1
    <3> SUFFICES ASSUME i + 1 < j PROVE FALSE
      BY <2>4
    <3>1. kept[i + 1] \in S /\ Before(x, kept[i + 1]) /\ Before(kept[i + 1], y)
      BY <1>1, <1>2, <1>6, <2>1, <2>2, <2>4
    <3> QED
      BY <1>8, <3>1 DEF Adjacent
  <2> QED
    BY <2>1, <2>2, <2>4, <2>5
<1>9. IsFiniteSet(P) /\ IsFiniteSet(Q)
  <2>1. IsFiniteSet(1 .. n) /\ IsFiniteSet(1 .. n - 1)
    BY <1>1, FS_Interval
  <2> QED
    BY <2>1, FS_Subset
<1>10. Cardinality(A) = Cardinality(P)
  <2>1. a \in [P -> A]
    BY <1>1
  <2>2. \A x, y \in P : a[x] = a[y] => x = y
    BY <1>5
  <2>3. \A x \in A : \E i \in P : a[i] = x
    BY <1>1
  <2> HIDE DEF a, P, A
  <2>4. a \in Bijection(P, A)
    BY <2>1, <2>2, <2>3 DEF Bijection, Injection, Surjection, IsInjective
  <2> QED
    BY <1>9, <2>4, FS_Bijection DEF ExistsBijection
<1>11. Cardinality(B) = Cardinality(Q)
  <2>1. b \in [Q -> B]
    <3> SUFFICES ASSUME NEW i \in Q PROVE <<kept[i], kept[i + 1]>> \in B
      OBVIOUS
    <3>1. /\ kept[i] \in S /\ kept[i + 1] \in S /\ Adjacent(kept[i], kept[i + 1], S)
          /\ kept[i] \o kept[i + 1] = t
      BY <1>1, <1>6, <1>7
    <3> QED
      BY <3>1
  <2>2. \A x, y \in Q : b[x] = b[y] => x = y
    BY <1>5, <1>6
  <2>3. \A p \in B : \E i \in Q : b[i] = p
    <3> SUFFICES ASSUME NEW p \in B PROVE \E i \in Q : b[i] = p
      OBVIOUS
    <3>1. p[1] \in S /\ p[2] \in S /\ Adjacent(p[1], p[2], S) /\ p[1] \o p[2] = t /\ p = <<p[1], p[2]>>
      OBVIOUS
    <3>2. PICK i \in 1 .. n - 1 : p[1] = kept[i] /\ p[2] = kept[i + 1]
      BY <1>8, <3>1
    <3>3. i \in Q
      BY <3>1, <3>2
    <3>4. b[i] = p
      BY <3>1, <3>2, <3>3
    <3> QED
      BY <3>3, <3>4
  <2> HIDE DEF b, Q, B
  <2>4. b \in Bijection(Q, B)
    BY <2>1, <2>2, <2>3 DEF Bijection, Injection, Surjection, IsInjective
  <2> QED
    BY <1>9, <2>4, FS_Bijection DEF ExistsBijection
<1> QED
  BY <1>10, <1>11 DEF n, Alone, Joined, AloneAt, JoinedAt

\* bigramModel makes a term as often as the words of a text, in the order of their
\* bytes, have it.
LEMMA BigramsOccur ==
  ASSUME NEW words \in Seq(Terms), NEW t
  PROVE  /\ bigramModel(Dedup(words)) \in Seq(Terms)
         /\ Times(bigramModel(Dedup(words)), t) = Occurrences(t, words)
         /\ Occurrences(t, words) \in Nat
<1> DEFINE S == {w \in ToSet(words) : ~isNeedClean(w)}
<1>1. PICK kept : bigramModel(Dedup(words)) = FlattenSeq(Pairs(kept)) /\ Ascending(kept, S)
  BY KeptAscends
<1>2. S \in SUBSET Terms
  BY ElementsFinite
<1> DEFINE A == Alone(t, S)
           B == Joined(t, S)
<1>3. Occurrences(t, words) = Cardinality(A) + Cardinality(B)
  <2>1. B = {p \in S \X S : (Before(p[1], p[2]) /\ \A z \in S : ~(Before(p[1], z) /\ Before(z, p[2])))
                              /\ p[1] \o p[2] = t}
    BY DEF Adjacent, Joined
  <2> QED
    BY <2>1 DEF Alone, Occurrences
<1> HIDE DEF S
<1>4. kept \in Seq(Terms)
  BY <1>1 DEF Ascending
<1>5. Cardinality(A) = Cardinality(AloneAt(t, kept)) /\ Cardinality(B) = Cardinality(JoinedAt(t, kept))
  BY <1>1, <1>2, Places
<1> HIDE DEF A, B
<1>6. /\ FlattenSeq(Pairs(kept)) \in Seq(Terms)
      /\ Times(FlattenSeq(Pairs(kept)), t) = Cardinality(A) + Cardinality(B)
  BY <1>4, <1>5, BigramTimes
<1>7. Times(FlattenSeq(Pairs(kept)), t) \in Nat
  <2> DEFINE u == FlattenSeq(Pairs(kept))
  <2>1. Len(u) \in Nat
    BY <1>6, LenProperties
  <2>2. IsFiniteSet({i \in 1 .. Len(u) : u[i] = t})
    <3>1. IsFiniteSet(1 .. Len(u))
      BY <2>1, FS_Interval
    <3> QED
      BY <3>1, FS_Subset
  <2> HIDE DEF u
  <2>3. Times(u, t) \in Nat
    BY <2>2, FS_CardinalityType DEF Times
  <2> QED
    BY <2>3 DEF u
<1> QED
  BY <1>1, <1>3, <1>6, <1>7

-----------------------------------------------------------------------------
(* Totals.                                                                 *)

\* The sum over a set, and over a subset of it, when one summand is d more.
LEMMA SumMore ==
  ASSUME NEW S, IsFiniteSet(S), NEW f, NEW g, Summed(g, f, S), NEW f2, NEW g2, Summed(g2, f2, S),
         NEW x, NEW d \in Int,
         \A y \in S : f[y] \in Int /\ f2[y] = f[y] + (IF y = x THEN d ELSE 0)
  PROVE  \A s \in SUBSET S : g2[s] = g[s] + (IF x \in s THEN d ELSE 0)
<1> DEFINE B == {s \in SUBSET S : g2[s] # g[s] + (IF x \in s THEN d ELSE 0)}
<1> SUFFICES ASSUME B # {} PROVE FALSE
  OBVIOUS
<1>1. PICK s \in B : \A r \in B : r \subseteq s => r = s
  <2>1. B \in SUBSET SUBSET S
    OBVIOUS
  <2> HIDE DEF B
  <2> QED
    BY <2>1, SmallestSet
<1>2. s \in SUBSET S /\ g2[s] # g[s] + (IF x \in s THEN d ELSE 0)
  OBVIOUS
<1>3. g[{}] = 0 /\ g2[{}] = 0 /\ \A r \in SUBSET S : g[r] \in Int
  BY DEF Summed
<1>4. PICK y \in s : TRUE
  <2>1. ASSUME s = {} PROVE FALSE
    <3>1. g2[s] = 0 /\ g[s] = 0 /\ x \notin s
      BY <1>3, <2>1
    <3> QED
      BY <1>2, <3>1
  <2> QED
    BY <2>1
<1> DEFINE r == s \ {y}
<1>5. g[s] = f[y] + g[r] /\ g2[s] = f2[y] + g2[r]
  BY <1>2 DEF Summed
<1>6. r \in SUBSET S /\ r \notin B
  <2>1. r \subseteq s /\ r # s /\ r \in SUBSET S
    BY <1>2, <1>4
  <2> HIDE DEF B, r
  <2> QED
    BY <1>1, <2>1
<1>7. g2[r] = g[r] + (IF x \in r THEN d ELSE 0)
  BY <1>6
<1>8. f[y] \in Int /\ f2[y] = f[y] + (IF y = x THEN d ELSE 0) /\ g[r] \in Int
  BY <1>2, <1>3, <1>4, <1>6
<1>9. x \in s <=> x \in r \/ y = x
  BY <1>4
<1>10. ~(x \in r /\ y = x)
  OBVIOUS
<1> HIDE DEF r, B
<1>11. f2[y] + g2[r] = (f[y] + g[r]) + (IF x \in s THEN d ELSE 0)
  BY <1>7, <1>8, <1>9, <1>10
<1> QED
  BY <1>2, <1>5, <1>11

\* The sum over S of a function on it.
SumOver(f, S) == (CHOOSE g : Summed(g, f, S))[S]

\* It is the sum that any way of adding gives.
LEMMA SumIs ==
  ASSUME NEW S, IsFiniteSet(S), NEW f, \A y \in S : f[y] \in Int
  PROVE  /\ \E g : Summed(g, f, S) /\ SumOver(f, S) = g[S]
         /\ \A g : Summed(g, f, S) => g[S] = SumOver(f, S)
         /\ SumOver(f, S) \in Int
<1> DEFINE h == CHOOSE g : Summed(g, f, S)
<1>1. \E g : Summed(g, f, S)
  BY SumExists, SumAny
<1>2. Summed(h, f, S)
  BY <1>1
<1>3. SumOver(f, S) = h[S]
  BY DEF SumOver
<1> HIDE DEF h
<1>4. ASSUME NEW g, Summed(g, f, S) PROVE g[S] = h[S]
  <2>1. \A y \in S : f[y] \in Int /\ f[y] = f[y] + (IF y = S THEN 0 ELSE 0)
    OBVIOUS
  <2>2. \A s \in SUBSET S : g[s] = h[s] + (IF S \in s THEN 0 ELSE 0)
    BY <1>2, <1>4, <2>1, SumMore
  <2>3. g[S] = h[S] + (IF S \in S THEN 0 ELSE 0)
    BY <2>2
  <2>4. h[S] \in Int
    BY <1>2 DEF Summed
  <2> QED
    BY <2>3, <2>4
<1>5. h[S] \in Int
  BY <1>2 DEF Summed
<1> QED
  BY <1>2, <1>3, <1>4, <1>5

\* It is d more when one summand is.
LEMMA SumOneMore ==
  ASSUME NEW S, IsFiniteSet(S), NEW f, NEW f2, NEW x \in S, NEW d \in Int,
         \A y \in S : f[y] \in Int /\ f2[y] = f[y] + (IF y = x THEN d ELSE 0)
  PROVE  SumOver(f2, S) = SumOver(f, S) + d
<1>1. \A y \in S : f[y] \in Int /\ f2[y] \in Int
  OBVIOUS
<1>2. PICK g : Summed(g, f, S) /\ SumOver(f, S) = g[S]
  BY <1>1, SumIs
<1>3. PICK g2 : Summed(g2, f2, S) /\ SumOver(f2, S) = g2[S]
  BY <1>1, SumIs
<1>4. \A s \in SUBSET S : g2[s] = g[s] + (IF x \in s THEN d ELSE 0)
  BY <1>2, <1>3, SumMore
<1> QED
  BY <1>2, <1>3, <1>4

\* It is the sum over those elements that count.
LEMMA SumOfPart ==
  ASSUME NEW S, IsFiniteSet(S), NEW f, \A y \in S : f[y] \in Int,
         NEW R \in SUBSET S, \A y \in S \ R : f[y] = 0,
         NEW g, Summed(g, f, R)
  PROVE  SumOver(f, S) = g[R]
<1>1. PICK h : Summed(h, f, S) /\ SumOver(f, S) = h[S]
  BY SumIs
<1> DEFINE B == {s \in SUBSET S : h[s] # g[s \cap R]}
<1>2. B = {}
  <2> SUFFICES ASSUME B # {} PROVE FALSE
    OBVIOUS
  <2>1. PICK s \in B : \A r \in B : r \subseteq s => r = s
    <3>1. B \in SUBSET SUBSET S
      OBVIOUS
    <3> HIDE DEF B
    <3> QED
      BY <3>1, SmallestSet
  <2>2. s \in SUBSET S /\ h[s] # g[s \cap R]
    OBVIOUS
  <2>3. h[{}] = 0 /\ g[{}] = 0 /\ (\A r \in SUBSET S : h[r] \in Int) /\ \A r \in SUBSET R : g[r] \in Int
    BY <1>1 DEF Summed
  <2>4. PICK y \in s : TRUE
    <3>1. {} \cap R = {}
      OBVIOUS
    <3> QED
      BY <2>2, <2>3, <3>1
  <2>5. s \ {y} \notin B /\ s \ {y} \in SUBSET S
    <3>1. s \ {y} \subseteq s /\ s \ {y} # s /\ s \ {y} \in SUBSET S
      BY <2>2, <2>4
    <3> HIDE DEF B
    <3> QED
      BY <2>1, <3>1
  <2>6. h[s \ {y}] = g[(s \ {y}) \cap R]
    BY <2>5
  <2>7. h[s] = f[y] + h[s \ {y}] /\ f[y] \in Int /\ h[s \ {y}] \in Int
    BY <1>1, <2>2, <2>3, <2>5 DEF Summed
  <2>8. CASE y \in R
    <3>1. s \cap R \in SUBSET R /\ y \in s \cap R /\ (s \cap R) \ {y} = (s \ {y}) \cap R
      BY <2>4, <2>8
    <3>2. g[s \cap R] = f[y] + g[(s \cap R) \ {y}]
      BY <3>1 DEF Summed
    <3>3. h[s] = g[s \cap R]
      BY <2>6, <2>7, <3>1, <3>2
    <3> QED
      BY <2>2, <3>3
  <2>9. CASE y \notin R
    <3>1. s \cap R = (s \ {y}) \cap R /\ f[y] = 0
      BY <2>2, <2>4, <2>9
    <3>2. h[s] = h[s \ {y}]
      BY <2>7, <3>1
    <3>3. h[s] = g[s \cap R]
      BY <2>6, <3>1, <3>2
    <3> QED
      BY <2>2, <3>3
  <2> QED
    BY <2>8, <2>9
<1>3. S \cap R = R
  OBVIOUS
<1> QED
  BY <1>1, <1>2, <1>3

\* The lines that are counted, and bags of them.
Counted == {l \in Line : l.label # "none"}
Counting(bag) ==
  /\ DOMAIN bag \in SUBSET Counted /\ IsFiniteSet(DOMAIN bag)
  /\ \A l \in DOMAIN bag : bag[l] \in Nat

\* How often a line is in a bag, and what the lines of D add to a total.
Copies(l, bag) == IF l \in DOMAIN bag THEN bag[l] ELSE 0
Shares(t, bag, labels, D) ==
  [l \in D |-> IF l.label \in labels THEN Copies(l, bag) * Occurrences(t, l.words) ELSE 0]

\* A line that is counted has terms.
LEMMA CountedWords ==
  ASSUME NEW l \in Counted, NEW t
  PROVE  /\ l \in Line /\ l.words \in Seq(Terms) /\ l.label \in Labels
         /\ Occurrences(t, l.words) \in Nat
<1>1. l \in Line /\ l.label # "none"
  BY DEF Counted
<1>2. l.words \in Seq(Terms) /\ l.label \in {"pos", "neg", "other", "none"}
  BY <1>1 DEF Line
<1> QED
  BY <1>1, <1>2, BigramsOccur DEF Labels

\* The shares are numbers.
LEMMA SharesInt ==
  ASSUME NEW bag, Counting(bag), NEW t, NEW labels, NEW D \in SUBSET Counted, NEW l \in D
  PROVE  /\ Copies(l, bag) \in Nat
         /\ Shares(t, bag, labels, D)[l]
              = IF l.label \in labels THEN Copies(l, bag) * Occurrences(t, l.words) ELSE 0
         /\ Shares(t, bag, labels, D)[l] \in Int
<1>1. Copies(l, bag) \in Nat
  BY DEF Copies, Counting
<1>2. Occurrences(t, l.words) \in Nat
  BY CountedWords
<1>3. \A m, n \in Nat : m * n \in Int
  OBVIOUS
<1>4. Shares(t, bag, labels, D)[l]
        = IF l.label \in labels THEN Copies(l, bag) * Occurrences(t, l.words) ELSE 0
  BY DEF Shares
<1> QED
  BY <1>1, <1>2, <1>3, <1>4

\* A total is the sum of the shares, over any lines that have those of the bag.
LEMMA TotalIs ==
  ASSUME NEW bag, Counting(bag), NEW t, NEW labels,
         NEW D \in SUBSET Counted, IsFiniteSet(D), DOMAIN bag \subseteq D
  PROVE  Total(t, bag, labels) = SumOver(Shares(t, bag, labels, D), D)
<1> DEFINE E == {l \in DOMAIN bag : l.label \in labels}
           f == Shares(t, bag, labels, D)
           Value(l) == bag[l] * Occurrences(t, l.words)
           Eq(h) == h = [s \in SUBSET E |->
                      IF s = {} THEN 0 ELSE Value(First(s)) + h[s \ {First(s)}]]
           iter == CHOOSE h : Eq(h)
<1>1. E \in SUBSET D /\ IsFiniteSet(E)
  BY FS_Subset
<1>2. \A l \in D : f[l] \in Int
  BY SharesInt
<1>3. \A l \in E : f[l] = Value(l)
  <2> TAKE l \in E
  <2>1. l \in D /\ l.label \in labels /\ Copies(l, bag) = bag[l]
    BY DEF Copies
  <2> QED
    BY <2>1, SharesInt
<1>4. \A l \in D \ E : f[l] = 0
  <2> TAKE l \in D \ E
  <2>1. l.label \in labels => Copies(l, bag) = 0
    BY DEF Copies
  <2>2. Occurrences(t, l.words) \in Nat
    BY CountedWords
  <2>3. 0 * Occurrences(t, l.words) = 0
    BY <2>2
  <2> QED
    BY <2>1, <2>3, SharesInt
<1>5. Total(t, bag, labels) = iter[E]
  BY DEF Total, MapThenSumSet, MapThenFoldSet, First, BagToSet
<1> HIDE DEF E, f, Value
<1>6. \A s \in SUBSET E : s # {} => First(s) \in E
  BY DEF First
<1>7. \E h : Eq(h)
  <2>1. \A l \in E : f[l] \in Int
    BY <1>1, <1>2
  <2>2. PICK g : Taken(g, f, E)
    BY <1>1, <2>1, SumExists
  <2>3. Eq(g)
    BY <1>3, <1>6, <2>2 DEF Taken
  <2> QED
    BY <2>3
<1>8. Eq(iter)
  <2> HIDE DEF Eq
  <2> QED
    BY <1>7
<1> HIDE DEF iter
<1>9. iter = [s \in SUBSET E |-> IF s = {} THEN 0 ELSE f[First(s)] + iter[s \ {First(s)}]]
  BY <1>3, <1>6, <1>8
<1>10. Summed(iter, f, E)
  <2>1. \A l \in E : f[l] \in Int
    BY <1>1, <1>2
  <2> QED
    BY <1>1, <1>9, <2>1, SumOf
<1>11. SumOver(f, D) = iter[E]
  BY <1>1, <1>2, <1>4, <1>10, SumOfPart
<1> QED
  BY <1>5, <1>11 DEF f

\* f2 is f but for the line x, whose occurrences it has once more.
Adds(f2, f, t, labels, x, D) ==
  \A l \in D :
    /\ f[l] \in Int
    /\ f2[l] = f[l] + (IF l = x /\ l.label \in labels THEN Occurrences(t, l.words) ELSE 0)

\* One more copy of a line adds its occurrences, if it has one of the labels.
LEMMA TotalOneMore ==
  ASSUME NEW t, NEW labels, NEW D \in SUBSET Counted, IsFiniteSet(D), NEW x \in D,
         NEW f, NEW f2, Adds(f2, f, t, labels, x, D)
  PROVE  SumOver(f2, D) = SumOver(f, D) + (IF x.label \in labels THEN Occurrences(t, x.words) ELSE 0)
<1> DEFINE d == IF x.label \in labels THEN Occurrences(t, x.words) ELSE 0
<1>1. d \in Int
  BY CountedWords
<1>2. \A l \in D : f[l] \in Int /\ f2[l] = f[l] + (IF l = x THEN d ELSE 0)
  BY DEF Adds
<1> HIDE DEF d
<1>3. SumOver(f2, D) = SumOver(f, D) + d
  BY <1>1, <1>2, SumOneMore
<1> QED
  BY <1>3 DEF d

-----------------------------------------------------------------------------
(* The vocabulary.                                                         *)

\* What a vocabulary has of a term, and the vocabularies.
Infos == [A : Nat, B : Nat, tf : Nat]
None == [A |-> 0, B |-> 0, tf |-> 0]
InfoOf(v, t) == IF t \in DOMAIN v THEN v[t] ELSE None
Vocabs == {v \in UNION {[S -> Infos] : S \in SUBSET Terms} :
             IsFiniteSet(DOMAIN v) /\ \A t \in DOMAIN v : v[t].tf # 0}

\* w has of u what v has, and a, b and n more.
More(w, v, u, a, b, n) ==
  /\ InfoOf(w, u).A = InfoOf(v, u).A + a
  /\ InfoOf(w, u).B = InfoOf(v, u).B + b
  /\ InfoOf(w, u).tf = InfoOf(v, u).tf + n

\* What a vocabulary has of a term are numbers; none of an occurrence is none at all.
LEMMA InfoIs ==
  ASSUME NEW v \in Vocabs, NEW t
  PROVE  /\ InfoOf(v, t) \in Infos
         /\ InfoOf(v, t).A \in Nat /\ InfoOf(v, t).B \in Nat /\ InfoOf(v, t).tf \in Nat
         /\ t \in DOMAIN v <=> InfoOf(v, t).tf # 0
         /\ DOMAIN v \in SUBSET Terms /\ IsFiniteSet(DOMAIN v)
<1>1. PICK S \in SUBSET Terms : v \in [S -> Infos]
  BY DEF Vocabs
<1>2. DOMAIN v = S /\ IsFiniteSet(S) /\ \A u \in S : v[u] \in Infos /\ v[u].tf # 0
  BY <1>1 DEF Vocabs
<1>3. None \in Infos /\ None.tf = 0
  BY DEF None, Infos
<1>4. InfoOf(v, t) \in Infos
  BY <1>2, <1>3 DEF InfoOf
<1>5. InfoOf(v, t).A \in Nat /\ InfoOf(v, t).B \in Nat /\ InfoOf(v, t).tf \in Nat
  BY <1>4 DEF Infos
<1>6. t \in DOMAIN v <=> InfoOf(v, t).tf # 0
  BY <1>2, <1>3 DEF InfoOf
<1> QED
  BY <1>2, <1>4, <1>5, <1>6

\* insertToVocab counts one occurrence of a term.
LEMMA Inserted ==
  ASSUME NEW v \in Vocabs, NEW t \in Terms, NEW label
  PROVE  /\ insertToVocab(v, t, label) \in Vocabs
         /\ \A u : More(insertToVocab(v, t, label), v, u,
                        IF u = t /\ label = "pos" THEN 1 ELSE 0,
                        IF u = t /\ label = "neg" THEN 1 ELSE 0, IF u = t THEN 1 ELSE 0)
<1> DEFINE old == IF t \in DOMAIN v THEN v[t] ELSE [A |-> 0, B |-> 0, tf |-> 0]
           info == [A  |-> old.A + (IF label = "pos" THEN 1 ELSE 0),
                    B  |-> old.B + (IF label = "neg" THEN 1 ELSE 0),
                    tf |-> old.tf + 1]
           w == [u \in DOMAIN v \cup {t} |-> IF u = t THEN info ELSE v[u]]
<1>1. insertToVocab(v, t, label) = w
  BY DEF insertToVocab
<1>2. old = InfoOf(v, t)
  BY DEF InfoOf, None
<1> HIDE DEF old
<1>3. old.A \in Nat /\ old.B \in Nat /\ old.tf \in Nat
  BY <1>2, InfoIs
<1>4. info.A = old.A + (IF label = "pos" THEN 1 ELSE 0) /\ info.B = old.B + (IF label = "neg" THEN 1 ELSE 0)
      /\ info.tf = old.tf + 1
  OBVIOUS
<1>5. info \in Infos /\ info.tf # 0
  BY <1>3 DEF Infos
<1> HIDE DEF info
<1>6. DOMAIN v \in SUBSET Terms /\ IsFiniteSet(DOMAIN v) /\ \A u \in DOMAIN v : v[u] \in Infos /\ v[u].tf # 0
  <2>1. \A u : InfoOf(v, u) \in Infos /\ (u \in DOMAIN v <=> InfoOf(v, u).tf # 0) /\ DOMAIN v \in SUBSET Terms
    BY InfoIs
  <2>3. IsFiniteSet(DOMAIN v)
    BY InfoIs
  <2>2. \A u \in DOMAIN v : InfoOf(v, u) = v[u]
    BY DEF InfoOf
  <2> QED
    BY <2>1, <2>2, <2>3
<1>7. DOMAIN w = DOMAIN v \cup {t} /\ \A u \in DOMAIN w : w[u] = IF u = t THEN info ELSE v[u]
  OBVIOUS
<1>8. w \in Vocabs
  <2> DEFINE S == DOMAIN v \cup {t}
  <2>1. S \in SUBSET Terms
    BY <1>6
  <2>2. w \in [S -> Infos]
    BY <1>5, <1>6
  <2>3. \A u \in DOMAIN w : w[u].tf # 0
    BY <1>5, <1>6, <1>7
  <2>4. IsFiniteSet(DOMAIN w)
    BY <1>6, <1>7, FS_AddElement
  <2> HIDE DEF S, w
  <2> QED
    BY <2>1, <2>2, <2>3, <2>4 DEF Vocabs
<1> HIDE DEF w
<1>9. ASSUME NEW u
      PROVE  More(w, v, u, IF u = t /\ label = "pos" THEN 1 ELSE 0,
                           IF u = t /\ label = "neg" THEN 1 ELSE 0, IF u = t THEN 1 ELSE 0)
  <2>1. CASE u = t
    <3>1. InfoOf(w, u) = info /\ InfoOf(v, u) = old
      BY <1>2, <1>7, <2>1 DEF InfoOf
    <3> QED
      BY <1>4, <2>1, <3>1 DEF More
  <2>2. CASE u # t
    <3>1. InfoOf(w, u) = InfoOf(v, u)
      BY <1>7, <2>2 DEF InfoOf
    <3>2. InfoOf(v, u).A \in Nat /\ InfoOf(v, u).B \in Nat /\ InfoOf(v, u).tf \in Nat
      BY InfoIs
    <3> QED
      BY <2>2, <3>1, <3>2 DEF More
  <2> QED
    BY <2>1, <2>2
<1> QED
  BY <1>1, <1>8, <1>9

-----------------------------------------------------------------------------
(* The counting of a line.                                                 *)

\* The terms of one line, into a vocabulary.
LineInto(v, l) ==
  FoldLeft(LAMBDA u, t : insertToVocab(u, t, l.label), v, bigramModel(Dedup(l.words)))

\* One step of it.
InsertOp(terms, label) ==
  [p \in Vocabs \X (1 .. Len(terms)) |-> insertToVocab(p[1], terms[p[2]], label)]

\* How many of the first i terms are u.
TimesBefore(terms, u, i) == Cardinality({j \in Nat : terms[j] = u} \cap 1 .. i)

\* Step by step, the first terms are counted.
LEMMA InsertsCount ==
  ASSUME NEW v \in Vocabs, NEW terms \in Seq(Terms), NEW label, NEW f,
         Steps(f, InsertOp(terms, label), v, Len(terms), Vocabs)
  PROVE  /\ f[Len(terms)] \in Vocabs
         /\ \A u : More(f[Len(terms)], v, u,
                        IF label = "pos" THEN Times(terms, u) ELSE 0,
                        IF label = "neg" THEN Times(terms, u) ELSE 0, Times(terms, u))
<1> DEFINE n == Len(terms)
           op == InsertOp(terms, label)
<1>1. n \in Nat /\ \A i \in 1 .. n : terms[i] \in Terms
  BY LenProperties, ElementOfSeq
<1>2. /\ f \in [0 .. n -> Vocabs] /\ f[0] = v
      /\ \A i \in 1 .. n : f[i] = op[<<f[i - 1], i>>]
  BY DEF Steps
<1>3. ASSUME NEW i \in 1 .. n
      PROVE  f[i - 1] \in Vocabs /\ f[i] = insertToVocab(f[i - 1], terms[i], label)
  <2>1. i - 1 \in 0 .. n
    BY <1>1
  <2>2. f[i - 1] \in Vocabs
    BY <1>2, <2>1
  <2>3. op[<<f[i - 1], i>>] = insertToVocab(f[i - 1], terms[i], label)
    BY <2>2 DEF InsertOp
  <2> QED
    BY <1>2, <2>2, <2>3
<1> HIDE DEF op, n
<1>4. ASSUME NEW u
      PROVE  More(f[n], v, u, IF label = "pos" THEN TimesBefore(terms, u, n) ELSE 0,
                  IF label = "neg" THEN TimesBefore(terms, u, n) ELSE 0, TimesBefore(terms, u, n))
  <2> DEFINE k(i) == TimesBefore(terms, u, i)
             Ok(i) == More(f[i], v, u, IF label = "pos" THEN k(i) ELSE 0,
                           IF label = "neg" THEN k(i) ELSE 0, k(i))
             G == {i \in 0 .. n : Ok(i)}
  <2>1. Ok(0)
    <3>1. k(0) = 0
      BY CountUpto DEF TimesBefore
    <3>2. InfoOf(v, u).A \in Nat /\ InfoOf(v, u).B \in Nat /\ InfoOf(v, u).tf \in Nat
      BY InfoIs
    <3> QED
      BY <1>2, <3>1, <3>2 DEF More
  <2>2. ASSUME NEW i \in 1 .. n, Ok(i - 1) PROVE Ok(i)
    <3> DEFINE w == f[i - 1]
               one == IF u = terms[i] THEN 1 ELSE 0
    <3>1. w \in Vocabs /\ terms[i] \in Terms /\ f[i] = insertToVocab(w, terms[i], label)
      BY <1>1, <1>3
    <3>2. k(i - 1) \in Nat /\ k(i) = k(i - 1) + one
      <4> DEFINE P == {j \in Nat : terms[j] = u}
      <4>1. i \in Nat /\ i # 0 /\ i - 1 \in Nat /\ (i \in P <=> u = terms[i])
        BY <1>1
      <4> HIDE DEF P
      <4>2. Cardinality(P \cap 1 .. i) = Cardinality(P \cap 1 .. i - 1) + IF i \in P THEN 1 ELSE 0
        BY <4>1, CountUpto
      <4>3. Cardinality(P \cap 1 .. i - 1) \in Nat
        BY <4>1, CountUpto
      <4> QED
        BY <4>1, <4>2, <4>3 DEF P, TimesBefore
    <3>3. More(f[i], w, u, IF u = terms[i] /\ label = "pos" THEN 1 ELSE 0,
               IF u = terms[i] /\ label = "neg" THEN 1 ELSE 0, IF u = terms[i] THEN 1 ELSE 0)
      BY <3>1, Inserted
    <3>4. InfoOf(v, u).A \in Nat /\ InfoOf(v, u).B \in Nat /\ InfoOf(v, u).tf \in Nat
      BY InfoIs
    <3>5. More(w, v, u, IF label = "pos" THEN k(i - 1) ELSE 0,
                           IF label = "neg" THEN k(i - 1) ELSE 0, k(i - 1))
      BY <2>2
    <3> HIDE DEF w, k
    <3>6. InfoOf(f[i], u).A = InfoOf(v, u).A + IF label = "pos" THEN k(i) ELSE 0
      BY <3>2, <3>3, <3>4, <3>5 DEF More
    <3>7. InfoOf(f[i], u).B = InfoOf(v, u).B + IF label = "neg" THEN k(i) ELSE 0
      BY <3>2, <3>3, <3>4, <3>5 DEF More
    <3>8. InfoOf(f[i], u).tf = InfoOf(v, u).tf + k(i)
      BY <3>2, <3>3, <3>4, <3>5 DEF More
    <3> QED
      BY <3>6, <3>7, <3>8 DEF More
  <2> HIDE DEF Ok
  <2>3. n \in G
    <3>1. G \in SUBSET (0 .. n) /\ 0 \in G /\ \A i \in 1 .. n : i - 1 \in G => i \in G
      BY <1>1, <2>1, <2>2
    <3> HIDE DEF G
    <3> QED
      BY <1>1, <3>1, StepsHold
  <2> QED
    BY <2>3 DEF Ok
<1>5. \A u : TimesBefore(terms, u, n) = Times(terms, u)
  <2> TAKE u
  <2>1. \A j \in 1 .. n : j \in Nat
    OBVIOUS
  <2>2. {j \in Nat : terms[j] = u} \cap 1 .. n = {j \in 1 .. n : terms[j] = u}
    BY <2>1
  <2> QED
    BY <2>2 DEF TimesBefore, Times, n
<1>6. f[n] \in Vocabs
  BY <1>1, <1>2
<1> QED
  BY <1>4, <1>5, <1>6 DEF n

\* A line adds the occurrences of every term.
LEMMA LineCounted ==
  ASSUME NEW v \in Vocabs, NEW l \in Counted
  PROVE  /\ LineInto(v, l) \in Vocabs
         /\ \A u : More(LineInto(v, l), v, u,
                        IF l.label = "pos" THEN Occurrences(u, l.words) ELSE 0,
                        IF l.label = "neg" THEN Occurrences(u, l.words) ELSE 0,
                        Occurrences(u, l.words))
<1> DEFINE terms == bigramModel(Dedup(l.words))
           n == Len(terms)
           label == l.label
           V == Vocabs
           op == InsertOp(terms, label)
           Eq(h) == h = [q \in SUBSET (1 .. n) |->
                      IF q = {} THEN v ELSE insertToVocab(h[q \ {Max(q)}], terms[Max(q)], label)]
           iter == CHOOSE h : Eq(h)
<1>0. terms \in Seq(Terms) /\ \A u : Times(terms, u) = Occurrences(u, l.words)
  BY CountedWords, BigramsOccur
<1>1. n \in Nat /\ DOMAIN terms = 1 .. n /\ v \in V /\ \A i \in 1 .. n : terms[i] \in Terms
  BY <1>0, LenProperties, ElementOfSeq
<1>2. LineInto(v, l) = iter[1 .. n]
  <2>1. DOMAIN terms = 1 .. n
    BY <1>1
  <2>2. LineInto(v, l) = (CHOOSE h : h = [q \in SUBSET DOMAIN terms |->
                      IF q = {} THEN v ELSE insertToVocab(h[q \ {Max(q)}], terms[Max(q)], label)])[DOMAIN terms]
    BY DEF LineInto, FoldLeft, MapThenFoldSet
  <2> HIDE DEF terms
  <2> QED
    BY <2>1, <2>2
<1> HIDE DEF terms, label
<1>3. \A w \in V, i \in 1 .. n : /\ op[<<w, i>>] \in V
                                 /\ op[<<w, i>>] = insertToVocab(w, terms[i], label)
  <2> TAKE w \in V, i \in 1 .. n
  <2>1. op[<<w, i>>] = insertToVocab(w, terms[i], label)
    BY DEF InsertOp
  <2>2. insertToVocab(w, terms[i], label) \in V
    BY <1>1, Inserted
  <2> QED
    BY <2>1, <2>2
<1> HIDE DEF op
<1>4. \A q \in SUBSET (1 .. n) : q # {} => Max(q) \in 1 .. n
  BY <1>1, LastOf
<1> HIDE DEF V, n
<1>6. \E h : Eq(h)
  <2>1. PICK h : Folded(h, op, v, n, V)
    BY <1>1, <1>3, FoldExists
  <2>2. h \in [SUBSET (1 .. n) -> V]
    BY <2>1 DEF Folded
  <2>3. ASSUME NEW q \in SUBSET (1 .. n), q # {}
        PROVE  h[q] = insertToVocab(h[q \ {Max(q)}], terms[Max(q)], label)
    <3>1. h[q] = op[<<h[q \ {Max(q)}], Max(q)>>]
      BY <2>1, <2>3 DEF Folded
    <3>2. Max(q) \in 1 .. n /\ h[q \ {Max(q)}] \in V
      BY <1>4, <2>2, <2>3
    <3> QED
      BY <1>3, <3>1, <3>2
  <2>4. h[{}] = v
    BY <2>1 DEF Folded
  <2>5. Eq(h)
    BY <2>2, <2>3, <2>4
  <2> QED
    BY <2>5
<1>7. Eq(iter)
  <2> HIDE DEF Eq
  <2> QED
    BY <1>6
<1> HIDE DEF iter
<1>8. iter[{}] = v
  BY <1>7
<1>9. \A q \in SUBSET (1 .. n) : q # {} /\ iter[q \ {Max(q)}] \in V =>
        iter[q] = op[<<iter[q \ {Max(q)}], Max(q)>>]
  <2> SUFFICES ASSUME NEW q \in SUBSET (1 .. n), q # {}, iter[q \ {Max(q)}] \in V
               PROVE  iter[q] = op[<<iter[q \ {Max(q)}], Max(q)>>]
    OBVIOUS
  <2>1. iter[q] = insertToVocab(iter[q \ {Max(q)}], terms[Max(q)], label)
    BY <1>7
  <2> QED
    BY <1>3, <1>4, <2>1
<1> HIDE DEF Eq
<1>10. PICK f : Steps(f, op, v, n, V) /\ iter[1 .. n] = f[n]
  <2>1. \A w \in V, i \in 1 .. n : op[<<w, i>>] \in V
    BY <1>3
  <2>2. Grows(iter, op, v, n, V)
    BY <1>1, <1>8, <1>9, <2>1 DEF Grows
  <2> QED
    BY <2>2, FoldSteps
<1>11. /\ f[n] \in Vocabs
       /\ \A u : More(f[n], v, u, IF label = "pos" THEN Times(terms, u) ELSE 0,
                        IF label = "neg" THEN Times(terms, u) ELSE 0, Times(terms, u))
  BY <1>0, <1>10, InsertsCount DEF op, n, V
<1> QED
  BY <1>0, <1>2, <1>10, <1>11 DEF label

-----------------------------------------------------------------------------
(* The counting of lines.                                                  *)

\* Bags with the same copies have the same totals.
LEMMA TotalSame ==
  ASSUME NEW b, Counting(b), NEW b2, Counting(b2), \A l : Copies(l, b2) = Copies(l, b),
         NEW t, NEW labels
  PROVE  Total(t, b2, labels) = Total(t, b, labels)
<1> DEFINE D == DOMAIN b \cup DOMAIN b2
<1>1. D \in SUBSET Counted /\ IsFiniteSet(D) /\ DOMAIN b \subseteq D /\ DOMAIN b2 \subseteq D
  BY FS_Union DEF Counting
<1> HIDE DEF D
<1>2. Shares(t, b2, labels, D) = Shares(t, b, labels, D)
  BY DEF Shares
<1> QED
  BY <1>1, <1>2, TotalIs

\* One more copy of a line.
LEMMA TotalMore ==
  ASSUME NEW b, Counting(b), NEW b2, Counting(b2), DOMAIN b2 = DOMAIN b, NEW x \in DOMAIN b,
         \A l \in DOMAIN b : b2[l] = b[l] + (IF l = x THEN 1 ELSE 0),
         NEW t, NEW labels
  PROVE  /\ Total(t, b, labels) \in Int
         /\ Total(t, b2, labels)
              = Total(t, b, labels) + (IF x.label \in labels THEN Occurrences(t, x.words) ELSE 0)
<1> DEFINE D == DOMAIN b
           f == Shares(t, b, labels, D)
           f2 == Shares(t, b2, labels, D)
<1>1. D \in SUBSET Counted /\ IsFiniteSet(D) /\ x \in D /\ DOMAIN b2 = D
  BY DEF Counting
<1>2. Total(t, b, labels) = SumOver(f, D) /\ Total(t, b2, labels) = SumOver(f2, D)
  BY <1>1, TotalIs
<1>3. ASSUME NEW l \in D
      PROVE  /\ f[l] \in Int
             /\ f2[l] = f[l] + (IF l = x /\ l.label \in labels THEN Occurrences(t, l.words) ELSE 0)
  <2> DEFINE c == b[l]
             o == Occurrences(t, l.words)
  <2>1. o \in Nat /\ c \in Nat
    BY <1>1, CountedWords DEF Counting
  <2>2. Copies(l, b) = c /\ Copies(l, b2) = c + (IF l = x THEN 1 ELSE 0)
    BY <1>1 DEF Copies
  <2>3. /\ f[l] = (IF l.label \in labels THEN Copies(l, b) * o ELSE 0) /\ f[l] \in Int
        /\ f2[l] = (IF l.label \in labels THEN Copies(l, b2) * o ELSE 0)
    <3>1. f[l] = (IF l.label \in labels THEN Copies(l, b) * o ELSE 0) /\ f[l] \in Int
      BY <1>1, SharesInt
    <3>2. f2[l] = (IF l.label \in labels THEN Copies(l, b2) * o ELSE 0)
      BY <1>1, SharesInt
    <3> QED
      BY <3>1, <3>2
  <2> HIDE DEF c, o, f, f2
  <2>4. (c + 1) * o = c * o + o /\ c + 0 = c /\ c * o \in Int /\ c * o + 0 = c * o
    BY <2>1
  <2>5. CASE l.label \in labels
    <3>1. CASE l = x
      <4>1. f[l] = c * o /\ f2[l] = (c + 1) * o
        BY <2>2, <2>3, <2>5, <3>1
      <4> QED
        BY <2>3, <2>4, <2>5, <3>1, <4>1 DEF o
    <3>2. CASE l # x
      <4>1. f[l] = c * o /\ f2[l] = (c + 0) * o
        BY <2>2, <2>3, <2>5, <3>2
      <4>2. f2[l] = f[l] + 0
        BY <2>4, <4>1
      <4> QED
        BY <2>3, <3>2, <4>2
    <3> QED
      BY <3>1, <3>2
  <2>6. CASE l.label \notin labels
    BY <2>3, <2>6
  <2> QED
    BY <2>5, <2>6
<1>4. SumOver(f, D) \in Int
  <2> HIDE DEF f
  <2> QED
    BY <1>1, <1>3, SumIs
<1> HIDE DEF f, f2, D
<1>5. SumOver(f2, D) = SumOver(f, D) + (IF x.label \in labels THEN Occurrences(t, x.words) ELSE 0)
  <2>1. Adds(f2, f, t, labels, x, D)
    BY <1>3 DEF Adds
  <2> QED
    BY <1>1, <2>1, TotalOneMore
<1> QED
  BY <1>2, <1>4, <1>5

\* A vocabulary has of a term what the lines of a bag make.
Holds(v, t, bag) ==
  /\ InfoOf(v, t).A = Total(t, bag, {"pos"})
  /\ InfoOf(v, t).B = Total(t, bag, {"neg"})
  /\ InfoOf(v, t).tf = Total(t, bag, Labels)

\* One step of getWordsInfo.
LineOp(lines) == [p \in Vocabs \X (1 .. Len(lines)) |-> LineInto(p[1], lines[p[2]])]

\* A bag of lines, where D has the others too, and the first i of some lines.
With(bag, lines, D, i) ==
  [l \in D |-> Copies(l, bag) + Cardinality({j \in Nat : lines[j] = l} \cap 1 .. i)]

\* It has one more copy of each line in turn.
LEMMA WithNext ==
  ASSUME NEW bag, Counting(bag), NEW lines \in Seq(Counted), NEW D \in SUBSET Counted, IsFiniteSet(D),
         NEW i \in 0 .. Len(lines)
  PROVE  /\ DOMAIN With(bag, lines, D, i) = D /\ Counting(With(bag, lines, D, i))
         /\ i # 0 => \A l \in D : With(bag, lines, D, i)[l]
                       = With(bag, lines, D, i - 1)[l] + (IF l = lines[i] THEN 1 ELSE 0)
         /\ \A l \in D : With(bag, lines, D, 0)[l] = Copies(l, bag)
<1> DEFINE P(l) == {j \in Nat : lines[j] = l}
           k(l, m) == Cardinality(P(l) \cap 1 .. m)
<1>1. Len(lines) \in Nat /\ i \in Nat /\ (i # 0 => i - 1 \in Nat)
  BY LenProperties
<1>2. \A l \in D : Copies(l, bag) \in Nat
  BY SharesInt
<1>3. \A l \in D, m \in Nat : /\ k(l, m) \in Nat
                              /\ With(bag, lines, D, m)[l] = Copies(l, bag) + k(l, m)
  <2> TAKE l \in D, m \in Nat
  <2>1. k(l, m) \in Nat
    <3> HIDE DEF P
    <3> QED
      BY CountUpto
  <2>2. With(bag, lines, D, m)[l] = Copies(l, bag) + k(l, m)
    BY DEF With
  <2> QED
    BY <2>1, <2>2
<1>4. \A m \in Nat : DOMAIN With(bag, lines, D, m) = D
  BY DEF With
<1>5. \A l \in D : k(l, 0) = 0
  <2> HIDE DEF P
  <2> QED
    BY CountUpto
<1>6. ASSUME i # 0, NEW l \in D PROVE k(l, i) = k(l, i - 1) + (IF l = lines[i] THEN 1 ELSE 0)
  <2>1. i \in P(l) <=> l = lines[i]
    BY <1>1
  <2>2. k(l, i) = k(l, i - 1) + (IF i \in P(l) THEN 1 ELSE 0)
    <3> HIDE DEF P
    <3> QED
      BY <1>1, <1>6, CountUpto
  <2> QED
    BY <2>1, <2>2
<1> HIDE DEF k
<1>7. Counting(With(bag, lines, D, i))
  <2> DEFINE b == With(bag, lines, D, i)
  <2>1. DOMAIN b = D
    BY <1>1, <1>4
  <2>2. ASSUME NEW l \in D PROVE b[l] \in Nat
    <3>1. b[l] = Copies(l, bag) + k(l, i) /\ Copies(l, bag) \in Nat /\ k(l, i) \in Nat
      BY <1>1, <1>2, <1>3
    <3> HIDE DEF b
    <3> QED
      BY <3>1
  <2> HIDE DEF b
  <2>3. Counting(b)
    BY <2>1, <2>2 DEF Counting
  <2> QED
    BY <2>3 DEF b
<1>8. i # 0 => \A l \in D : With(bag, lines, D, i)[l]
                       = With(bag, lines, D, i - 1)[l] + (IF l = lines[i] THEN 1 ELSE 0)
  <2> HAVE i # 0
  <2> TAKE l \in D
  <2>1. /\ With(bag, lines, D, i)[l] = Copies(l, bag) + k(l, i)
        /\ With(bag, lines, D, i - 1)[l] = Copies(l, bag) + k(l, i - 1)
        /\ k(l, i - 1) \in Nat
    BY <1>1, <1>3
  <2>2. k(l, i) = k(l, i - 1) + (IF l = lines[i] THEN 1 ELSE 0)
    BY <1>6
  <2> QED
    BY <1>2, <2>1, <2>2
<1>9. \A l \in D : With(bag, lines, D, 0)[l] = Copies(l, bag)
  <2> TAKE l \in D
  <2>1. With(bag, lines, D, 0)[l] = Copies(l, bag) + k(l, 0) /\ k(l, 0) = 0 /\ Copies(l, bag) \in Nat
    <3>1. 0 \in Nat
      OBVIOUS
    <3> QED
      BY <1>2, <1>3, <1>5, <3>1
  <2> QED
    BY <2>1
<1> QED
  BY <1>1, <1>4, <1>7, <1>8, <1>9

\* Line after line, a vocabulary that has what a bag makes has what the bag with the
\* lines makes.
LEMMA LinesCount ==
  ASSUME NEW v \in Vocabs, NEW t, NEW bag, Counting(bag), Holds(v, t, bag),
         NEW lines \in Seq(Counted), NEW f, Steps(f, LineOp(lines), v, Len(lines), Vocabs),
         NEW D, D = DOMAIN bag \cup ToSet(lines)
  PROVE  /\ f[Len(lines)] \in Vocabs
         /\ Holds(f[Len(lines)], t, With(bag, lines, D, Len(lines)))
<1> DEFINE n == Len(lines)
           W(i) == With(bag, lines, D, i)
           op == LineOp(lines)
<1>1. /\ n \in Nat /\ (\A i \in 1 .. n : lines[i] \in Counted) /\ D \in SUBSET Counted /\ IsFiniteSet(D)
      /\ \A i \in 1 .. n : lines[i] \in D
  <2>1. n \in Nat /\ \A i \in 1 .. n : lines[i] \in Counted
    BY LenProperties, ElementOfSeq
  <2>2. ToSet(lines) \in SUBSET Counted /\ IsFiniteSet(ToSet(lines)) /\ ToSet(lines) = {lines[i] : i \in 1 .. n}
    BY ElementsFinite
  <2>3. DOMAIN bag \in SUBSET Counted /\ IsFiniteSet(DOMAIN bag)
    BY DEF Counting
  <2>4. IsFiniteSet(D)
    BY <2>2, <2>3, FS_Union
  <2> QED
    BY <2>1, <2>2, <2>3, <2>4
<1>2. /\ f \in [0 .. n -> Vocabs] /\ f[0] = v
      /\ \A i \in 1 .. n : f[i] = op[<<f[i - 1], i>>]
  BY DEF Steps
<1>3. ASSUME NEW i \in 1 .. n
      PROVE  f[i - 1] \in Vocabs /\ f[i] = LineInto(f[i - 1], lines[i])
  <2>1. i - 1 \in 0 .. n
    BY <1>1
  <2>2. f[i - 1] \in Vocabs
    BY <1>2, <2>1
  <2>3. op[<<f[i - 1], i>>] = LineInto(f[i - 1], lines[i])
    BY <2>2 DEF LineOp
  <2> QED
    BY <1>2, <2>2, <2>3
<1>4. ASSUME NEW i \in 0 .. n
      PROVE  /\ DOMAIN W(i) = D /\ Counting(W(i))
             /\ i # 0 => \A l \in D : W(i)[l] = W(i - 1)[l] + (IF l = lines[i] THEN 1 ELSE 0)
             /\ \A l \in D : W(0)[l] = Copies(l, bag)
  BY <1>1, WithNext
<1> HIDE DEF op, n, W
<1> DEFINE Ok(i) == Holds(f[i], t, W(i))
           G == {i \in 0 .. n : Ok(i)}
<1>5. Ok(0)
  <2>1. Counting(W(0)) /\ \A l : Copies(l, W(0)) = Copies(l, bag)
    <3>1. 0 \in 0 .. n
      BY <1>1
    <3>2. DOMAIN W(0) = D /\ Counting(W(0)) /\ \A l \in D : W(0)[l] = Copies(l, bag)
      BY <1>4, <3>1
    <3>3. DOMAIN bag \subseteq D
      OBVIOUS
    <3> QED
      BY <3>2, <3>3 DEF Copies
  <2>2. \A labels : Total(t, W(0), labels) = Total(t, bag, labels)
    BY <2>1, TotalSame
  <2> QED
    BY <1>2, <2>2 DEF Holds
<1>6. ASSUME NEW i \in 1 .. n, Ok(i - 1) PROVE Ok(i)
  <2> DEFINE w == f[i - 1]
             l == lines[i]
             b == W(i - 1)
             o == Occurrences(t, l.words)
  <2>1. w \in Vocabs /\ l \in Counted /\ l \in D /\ f[i] = LineInto(w, l) /\ Holds(w, t, b)
    BY <1>1, <1>3, <1>6
  <2>2. More(f[i], w, t, IF l.label = "pos" THEN o ELSE 0, IF l.label = "neg" THEN o ELSE 0, o)
    BY <2>1, LineCounted
  <2>3. i - 1 \in 0 .. n /\ i \in 0 .. n /\ i # 0
    BY <1>1
  <2>4. /\ DOMAIN b = D /\ Counting(b) /\ DOMAIN W(i) = D /\ Counting(W(i))
        /\ \A x \in D : W(i)[x] = b[x] + (IF x = l THEN 1 ELSE 0)
    BY <1>4, <2>3
  <2> HIDE DEF l, b, w
  <2>5. \A labels : /\ Total(t, b, labels) \in Int
                    /\ Total(t, W(i), labels) = Total(t, b, labels) + (IF l.label \in labels THEN o ELSE 0)
    BY <2>1, <2>4, TotalMore
  <2>6. o \in Nat /\ l.label \in Labels
    BY <2>1, CountedWords
  <2> HIDE DEF o
  <2>7. /\ Total(t, W(i), {"pos"}) = Total(t, b, {"pos"}) + (IF l.label = "pos" THEN o ELSE 0)
        /\ Total(t, W(i), {"neg"}) = Total(t, b, {"neg"}) + (IF l.label = "neg" THEN o ELSE 0)
        /\ Total(t, W(i), Labels) = Total(t, b, Labels) + o
    <3>1. /\ l.label \in {"pos"} <=> l.label = "pos"
          /\ l.label \in {"neg"} <=> l.label = "neg"
      OBVIOUS
    <3> QED
      BY <2>5, <2>6, <3>1
  <2> QED
    BY <2>1, <2>2, <2>7 DEF Holds, More
<1> HIDE DEF Ok
<1>7. n \in G
  <2>1. G \in SUBSET (0 .. n) /\ 0 \in G /\ \A i \in 1 .. n : i - 1 \in G => i \in G
    BY <1>1, <1>5, <1>6
  <2> HIDE DEF G
  <2> QED
    BY <1>1, <2>1, StepsHold
<1>8. f[n] \in Vocabs
  BY <1>1, <1>2
<1> QED
  BY <1>7, <1>8 DEF Ok, n, W

-----------------------------------------------------------------------------
(* The counting of a file.                                                 *)

\* The files of the sample directories.
IsFile(file) == file = Missing \/ file \in Seq(Line)

\* The lines of a file are lines that are counted.
LEMMA LinesCounted ==
  ASSUME NEW file, IsFile(file) PROVE Lines(file) \in Seq(Counted)
<1>1. CASE file = Missing
  <2>1. Lines(file) = <<>>
    BY <1>1 DEF Lines
  <2> QED
    BY <2>1
<1>2. CASE file # Missing
  <2> DEFINE p == Lines(file)
             I == {i \in 1 .. Len(file) : file[i].label # "none"}
  <2>1. file \in Seq(Line)
    BY <1>2 DEF IsFile
  <2>2. PICK at : Picks(at, p, file, I, Line)
    BY <1>2, <2>1, LinesPicked
  <2> HIDE DEF p
  <2>3. /\ p \in Seq(Line) /\ DOMAIN p = 1 .. Len(p) /\ Len(p) \in Nat
        /\ \A i \in 1 .. Len(p) : at[i] \in I /\ p[i] = file[at[i]]
    BY <2>2, LenProperties DEF Picks
  <2>4. \A i \in 1 .. Len(p) : p[i] \in Counted
    <3> TAKE i \in 1 .. Len(p)
    <3>1. p[i] \in Line
      BY <2>3, ElementOfSeq
    <3>2. PICK j \in I : p[i] = file[j]
      BY <2>3
    <3> QED
      BY <3>1, <3>2 DEF Counted
  <2>5. p = [i \in 1 .. Len(p) |-> p[i]]
    BY <2>3
  <2>6. p \in [1 .. Len(p) -> Counted]
    BY <2>4, <2>5
  <2>7. p \in Seq(Counted)
    BY <2>3, <2>6, IsASeq
  <2> QED
    BY <2>7 DEF p
<1> QED
  BY <1>1, <1>2

\* The lines of a file are a bag of lines, and those of the bag with them.
LEMMA BagsCount ==
  ASSUME NEW bag, Counting(bag), NEW file, IsFile(file)
  PROVE  /\ Counting(bag (+) BagOf(file))
         /\ \A l : Copies(l, bag (+) BagOf(file)) = Copies(l, bag) + Copies(l, BagOf(file))
         /\ Counting(BagOf(file))
         /\ \A D : D = DOMAIN bag \cup ToSet(Lines(file)) =>
              \A l : Copies(l, bag (+) BagOf(file)) = Copies(l, With(bag, Lines(file), D, Len(Lines(file))))
<1> DEFINE s == Lines(file)
           n == Len(s)
           k(l) == Cardinality({j \in Nat : s[j] = l} \cap 1 .. n)
           b == BagOf(file)
           u == bag (+) b
<1>1. s \in Seq(Counted) /\ n \in Nat /\ DOMAIN s = 1 .. n
  BY LinesCounted, LenProperties
<1>2. ToSet(s) \in SUBSET Counted /\ IsFiniteSet(ToSet(s)) /\ ToSet(s) = {s[i] : i \in 1 .. n}
  BY <1>1, ElementsFinite
<1>3. b = ToBag(s)
  BY DEF BagOf
<1> HIDE DEF s, b
<1>4. \A l : k(l) \in Nat /\ (l \notin ToSet(s) => k(l) = 0)
  <2> TAKE l
  <2>1. k(l) \in Nat
    <3> DEFINE P == {j \in Nat : s[j] = l}
    <3> HIDE DEF P
    <3>1. Cardinality(P \cap 1 .. n) \in Nat
      BY <1>1, CountUpto
    <3> QED
      BY <3>1 DEF P
  <2>2. ASSUME l \notin ToSet(s) PROVE k(l) = 0
    <3>1. {j \in Nat : s[j] = l} \cap 1 .. n = {}
      BY <1>2, <2>2
    <3> QED
      BY <3>1, FS_EmptySet
  <2> QED
    BY <2>1, <2>2
<1>5. DOMAIN b = ToSet(s) /\ \A l \in ToSet(s) : b[l] = k(l)
  <2>1. DOMAIN b = ToSet(s)
    BY <1>1, <1>3 DEF ToBag, ToSet, Range
  <2>2. ASSUME NEW l \in ToSet(s) PROVE b[l] = k(l)
    <3>1. b[l] = Cardinality({j \in 1 .. n : s[j] = l})
      BY <1>1, <1>3 DEF ToBag, ToSet, Range
    <3>2. {j \in 1 .. n : s[j] = l} = {j \in Nat : s[j] = l} \cap 1 .. n
      BY <1>1
    <3> QED
      BY <3>1, <3>2
  <2> QED
    BY <2>1, <2>2
<1>6. DOMAIN u = DOMAIN bag \cup DOMAIN b /\ \A l \in DOMAIN u : u[l] = Copies(l, bag) + Copies(l, b)
  BY DEF (+), Copies
<1> HIDE DEF u, k
<1>7. /\ DOMAIN bag \in SUBSET Counted /\ IsFiniteSet(DOMAIN bag)
      /\ \A l : Copies(l, bag) \in Nat /\ (l \notin DOMAIN bag => Copies(l, bag) = 0)
  BY DEF Counting, Copies
<1>8. \A l : Copies(l, b) = k(l) /\ Copies(l, b) \in Nat
  BY <1>4, <1>5 DEF Copies
<1>9. \A l : Copies(l, u) = Copies(l, bag) + Copies(l, b)
  <2> TAKE l
  <2>1. CASE l \in DOMAIN u
    BY <1>6, <2>1 DEF Copies
  <2>2. CASE l \notin DOMAIN u
    <3>1. l \notin DOMAIN bag /\ l \notin DOMAIN b
      BY <1>6, <2>2
    <3>2. Copies(l, u) = 0 /\ Copies(l, bag) = 0 /\ Copies(l, b) = 0
      BY <2>2, <3>1 DEF Copies
    <3> QED
      BY <3>2
  <2> QED
    BY <2>1, <2>2
<1>10. Counting(u)
  <2>1. DOMAIN u \in SUBSET Counted /\ IsFiniteSet(DOMAIN u)
    <3>1. DOMAIN u = DOMAIN bag \cup ToSet(s)
      BY <1>5, <1>6
    <3>2. IsFiniteSet(DOMAIN bag \cup ToSet(s))
      BY <1>2, <1>7, FS_Union
    <3> QED
      BY <1>2, <1>7, <3>1, <3>2
  <2>2. \A l \in DOMAIN u : u[l] \in Nat
    BY <1>6, <1>7, <1>8
  <2> QED
    BY <2>1, <2>2 DEF Counting
<1>11. Counting(b)
  BY <1>2, <1>4, <1>5 DEF Counting
<1>12. ASSUME NEW D, D = DOMAIN bag \cup ToSet(s)
       PROVE  \A l : Copies(l, u) = Copies(l, With(bag, s, D, n))
  <2> TAKE l
  <2>1. DOMAIN With(bag, s, D, n) = D /\ (l \in D => With(bag, s, D, n)[l] = Copies(l, bag) + k(l))
    BY DEF With, k
  <2>2. Copies(l, u) = Copies(l, bag) + k(l)
    BY <1>8, <1>9
  <2>3. CASE l \in D
    BY <2>1, <2>2, <2>3 DEF Copies
  <2>4. CASE l \notin D
    <3>1. Copies(l, bag) = 0 /\ k(l) = 0
      BY <1>4, <1>7, <1>12, <2>4
    <3>2. Copies(l, With(bag, s, D, n)) = 0
      BY <2>1, <2>4 DEF Copies
    <3> QED
      BY <2>2, <3>1, <3>2
  <2> QED
    BY <2>3, <2>4
<1> QED
  BY <1>9, <1>10, <1>11, <1>12 DEF u, b, s, n

\* getWordsInfo counts the lines of a file: a vocabulary that has what a bag makes has
\* what the bag with the lines of the file makes.
LEMMA FileCounted ==
  ASSUME NEW v \in Vocabs, NEW file, IsFile(file)
  PROVE  /\ getWordsInfo(v, file) \in Vocabs
         /\ \A t, bag : Counting(bag) /\ Holds(v, t, bag)
                          => Holds(getWordsInfo(v, file), t, bag (+) BagOf(file))
<1> DEFINE lines == Lines(file)
           n == Len(lines)
           V == Vocabs
           op == LineOp(lines)
           Eq(h) == h = [q \in SUBSET (1 .. n) |->
                      IF q = {} THEN v ELSE LineInto(h[q \ {Max(q)}], lines[Max(q)])]
           iter == CHOOSE h : Eq(h)
           w == getWordsInfo(v, file)
<1>0. lines \in Seq(Counted)
  BY LinesCounted
<1>1. n \in Nat /\ DOMAIN lines = 1 .. n /\ v \in V /\ \A i \in 1 .. n : lines[i] \in Counted
  BY <1>0, LenProperties, ElementOfSeq
<1>2. w = iter[1 .. n]
  <2>1. DOMAIN lines = 1 .. n
    BY <1>1
  <2>2. w = (CHOOSE h : h = [q \in SUBSET DOMAIN lines |->
                      IF q = {} THEN v ELSE LineInto(h[q \ {Max(q)}], lines[Max(q)])])[DOMAIN lines]
    BY DEF getWordsInfo, LineInto, FoldLeft, MapThenFoldSet
  <2> HIDE DEF lines, w
  <2> QED
    BY <2>1, <2>2
<1> HIDE DEF w, lines
<1>3. \A x \in V, i \in 1 .. n : /\ op[<<x, i>>] \in V
                                 /\ op[<<x, i>>] = LineInto(x, lines[i])
  <2> TAKE x \in V, i \in 1 .. n
  <2>1. op[<<x, i>>] = LineInto(x, lines[i])
    BY DEF LineOp
  <2>2. LineInto(x, lines[i]) \in V
    BY <1>1, LineCounted
  <2> QED
    BY <2>1, <2>2
<1> HIDE DEF op
<1>4. \A q \in SUBSET (1 .. n) : q # {} => Max(q) \in 1 .. n
  BY <1>1, LastOf
<1> HIDE DEF V, n
<1>6. \E h : Eq(h)
  <2>1. PICK h : Folded(h, op, v, n, V)
    BY <1>1, <1>3, FoldExists
  <2>2. h \in [SUBSET (1 .. n) -> V]
    BY <2>1 DEF Folded
  <2>3. ASSUME NEW q \in SUBSET (1 .. n), q # {}
        PROVE  h[q] = LineInto(h[q \ {Max(q)}], lines[Max(q)])
    <3>1. h[q] = op[<<h[q \ {Max(q)}], Max(q)>>]
      BY <2>1, <2>3 DEF Folded
    <3>2. Max(q) \in 1 .. n /\ h[q \ {Max(q)}] \in V
      BY <1>4, <2>2, <2>3
    <3> QED
      BY <1>3, <3>1, <3>2
  <2>4. h[{}] = v
    BY <2>1 DEF Folded
  <2>5. Eq(h)
    BY <2>2, <2>3, <2>4
  <2> QED
    BY <2>5
<1>7. Eq(iter)
  <2> HIDE DEF Eq
  <2> QED
    BY <1>6
<1> HIDE DEF iter
<1>8. iter[{}] = v
  BY <1>7
<1>9. \A q \in SUBSET (1 .. n) : q # {} /\ iter[q \ {Max(q)}] \in V =>
        iter[q] = op[<<iter[q \ {Max(q)}], Max(q)>>]
  <2> SUFFICES ASSUME NEW q \in SUBSET (1 .. n), q # {}, iter[q \ {Max(q)}] \in V
               PROVE  iter[q] = op[<<iter[q \ {Max(q)}], Max(q)>>]
    OBVIOUS
  <2>1. iter[q] = LineInto(iter[q \ {Max(q)}], lines[Max(q)])
    BY <1>7
  <2> QED
    BY <1>3, <1>4, <2>1
<1> HIDE DEF Eq
<1>10. PICK f : Steps(f, op, v, n, V) /\ iter[1 .. n] = f[n]
  <2>1. \A x \in V, i \in 1 .. n : op[<<x, i>>] \in V
    BY <1>3
  <2>2. Grows(iter, op, v, n, V)
    BY <1>1, <1>8, <1>9, <2>1 DEF Grows
  <2> QED
    BY <2>2, FoldSteps
<1>11. w = f[n] /\ w \in Vocabs
  <2>1. f \in [0 .. n -> V]
    BY <1>10 DEF Steps
  <2> QED
    BY <1>1, <1>2, <1>10, <2>1 DEF V
<1>12. ASSUME NEW t, NEW bag, Counting(bag), Holds(v, t, bag)
       PROVE  Holds(w, t, bag (+) BagOf(file))
  <2> DEFINE D == DOMAIN bag \cup ToSet(lines)
             b == With(bag, lines, D, n)
             u == bag (+) BagOf(file)
  <2>1. Holds(f[n], t, b)
    BY <1>0, <1>10, <1>12, LinesCount DEF op, n, V
  <2>2. Counting(u) /\ \A l : Copies(l, u) = Copies(l, b)
    BY <1>12, BagsCount DEF lines, n
  <2>3. Counting(b)
    <3>1. D \in SUBSET Counted /\ IsFiniteSet(D)
      <4>1. ToSet(lines) \in SUBSET Counted /\ IsFiniteSet(ToSet(lines))
        BY <1>0, ElementsFinite
      <4>2. DOMAIN bag \in SUBSET Counted /\ IsFiniteSet(DOMAIN bag)
        BY <1>12 DEF Counting
      <4> QED
        BY <4>1, <4>2, FS_Union
    <3>2. n \in 0 .. Len(lines)
      BY <1>1 DEF n
    <3> HIDE DEF D
    <3> QED
      BY <1>0, <1>12, <3>1, <3>2, WithNext
  <2> HIDE DEF b, u
  <2>4. \A labels : Total(t, u, labels) = Total(t, b, labels)
    BY <2>2, <2>3, TotalSame
  <2>5. Holds(w, t, u)
    BY <1>11, <2>1, <2>4 DEF Holds
  <2> QED
    BY <2>5 DEF u
<1> QED
  BY <1>11, <1>12 DEF w

-----------------------------------------------------------------------------
(* The vocabulary and what it counted.                                     *)

\* The bag of the lines that made a term.
LinesOf(t) == IF isNeedClean(t) THEN sinceClean ELSE counted

\* The inductive invariant: the vocabulary has of every term at all, not only of those
\* that were ever seen, what the lines that are counted make.
VInv ==
  /\ samples \in Samples
  /\ vocab \in Vocabs
  /\ Counting(counted) /\ Counting(sinceClean)
  /\ \A t : Holds(vocab, t, LinesOf(t))

\* The two files of the samples are files.
LEMMA SampleFiles ==
  ASSUME samples \in Samples PROVE IsFile(samples.pos) /\ IsFile(samples.neg)
<1>1. Seq(Line) = Seq([label : {"pos", "neg", "other", "none"}, words : Seq(Seq(Narrow \cup Wide))])
  BY DEF Line, Terms, Characters
<1> QED
  BY <1>1, SamplesAssumption DEF IsFile

\* Without lines there is nothing.
LEMMA Nothing ==
  /\ Counting(EmptyBag) /\ Empty \in Vocabs
  /\ \A t, labels : Total(t, EmptyBag, labels) = 0
  /\ \A t : Holds(Empty, t, EmptyBag)
<1>1. DOMAIN EmptyBag = {} /\ DOMAIN Empty = {}
  BY DEF EmptyBag, SetToBag, Empty
<1>2. IsFiniteSet({}) /\ {} \in SUBSET Counted /\ {} \in SUBSET Terms
  BY FS_EmptySet
<1>3. Counting(EmptyBag)
  BY <1>1, <1>2 DEF Counting
<1>4. Empty \in Vocabs
  <2>1. Empty \in [{} -> Infos]
    BY DEF Empty
  <2> QED
    BY <1>1, <1>2, <2>1 DEF Vocabs
<1>5. ASSUME NEW t, NEW labels PROVE Total(t, EmptyBag, labels) = 0
  <2> DEFINE f == Shares(t, EmptyBag, labels, {})
  <2>1. Total(t, EmptyBag, labels) = SumOver(f, {})
    BY <1>1, <1>2, <1>3, TotalIs
  <2>2. PICK g : Summed(g, f, {}) /\ SumOver(f, {}) = g[{}]
    <3> HIDE DEF f
    <3> QED
      BY <1>2, SumIs
  <2> QED
    BY <2>1, <2>2 DEF Summed
<1>6. ASSUME NEW t PROVE Holds(Empty, t, EmptyBag)
  <2>1. InfoOf(Empty, t) = None
    BY <1>1 DEF InfoOf
  <2> QED
    BY <1>5, <2>1 DEF Holds, None
<1> QED
  BY <1>3, <1>4, <1>5, <1>6

\* The cleaning leaves the terms that need none as they are and nothing of the others.
LEMMA Cleaned ==
  ASSUME NEW v \in Vocabs
  PROVE  /\ termsClean(v) \in Vocabs
         /\ \A t : InfoOf(termsClean(v), t) = IF isNeedClean(t) THEN None ELSE InfoOf(v, t)
<1> DEFINE S == {t \in DOMAIN v : ~isNeedClean(t)}
           w == termsClean(v)
<1>1. DOMAIN v \in SUBSET Terms /\ IsFiniteSet(DOMAIN v)
  BY InfoIs
<1>2. S \in SUBSET Terms /\ IsFiniteSet(S)
  BY <1>1, FS_Subset
<1>3. w = [t \in S |-> v[t]]
  BY DEF termsClean
<1>4. \A t \in S : v[t] \in Infos /\ v[t].tf # 0
  <2> TAKE t \in S
  <2>1. InfoOf(v, t) = v[t] /\ t \in DOMAIN v
    BY DEF InfoOf
  <2> QED
    BY <2>1, InfoIs
<1> HIDE DEF w
<1>5. DOMAIN w = S /\ \A t \in S : w[t] = v[t]
  BY <1>3
<1>6. w \in [S -> Infos]
  BY <1>3, <1>4
<1>7. w \in Vocabs
  <2> HIDE DEF S
  <2> QED
    BY <1>2, <1>4, <1>5, <1>6 DEF Vocabs
<1>8. \A t : InfoOf(w, t) = IF isNeedClean(t) THEN None ELSE InfoOf(v, t)
  BY <1>5 DEF InfoOf
<1> QED
  BY <1>7, <1>8 DEF w

\* Both files into a vocabulary, and the cleaning.
Both(v) == getWordsInfo(getWordsInfo(v, samples.pos), samples.neg)

\* With both files a vocabulary has what their lines make, and after the
\* cleaning nothing of the terms that need it, and the same of the others.
LEMMA BothCounted ==
  ASSUME samples \in Samples, NEW v \in Vocabs
  PROVE  /\ Both(v) \in Vocabs /\ termsClean(Both(v)) \in Vocabs
         /\ \A t, bag : Counting(bag) /\ Holds(v, t, bag) =>
              LET u == bag (+) BagOf(samples.pos) (+) BagOf(samples.neg) IN
              /\ Counting(u) /\ Holds(Both(v), t, u)
              /\ isNeedClean(t) => Holds(termsClean(Both(v)), t, EmptyBag)
              /\ ~isNeedClean(t) => Holds(termsClean(Both(v)), t, u)
<1> DEFINE w == getWordsInfo(v, samples.pos)
           x == getWordsInfo(w, samples.neg)
           y == termsClean(x)
<1>1. IsFile(samples.pos) /\ IsFile(samples.neg)
  BY SampleFiles
<1>2. /\ w \in Vocabs
      /\ \A t, bag : Counting(bag) /\ Holds(v, t, bag) => Holds(w, t, bag (+) BagOf(samples.pos))
  BY <1>1, FileCounted
<1> HIDE DEF w
<1>3. /\ x \in Vocabs
      /\ \A t, bag : Counting(bag) /\ Holds(w, t, bag) => Holds(x, t, bag (+) BagOf(samples.neg))
  BY <1>1, <1>2, FileCounted
<1>4. x = Both(v)
  BY DEF Both, w
<1> HIDE DEF x
<1>5. y \in Vocabs /\ \A t : InfoOf(y, t) = IF isNeedClean(t) THEN None ELSE InfoOf(x, t)
  BY <1>3, Cleaned
<1> HIDE DEF y
<1>6. ASSUME NEW t, NEW bag, Counting(bag), Holds(v, t, bag)
      PROVE  LET u == bag (+) BagOf(samples.pos) (+) BagOf(samples.neg) IN
             /\ Counting(u) /\ Holds(x, t, u)
             /\ isNeedClean(t) => Holds(y, t, EmptyBag)
             /\ ~isNeedClean(t) => Holds(y, t, u)
  <2> DEFINE a == bag (+) BagOf(samples.pos)
             u == a (+) BagOf(samples.neg)
  <2>1. Counting(a) /\ Holds(w, t, a)
    BY <1>1, <1>2, <1>6, BagsCount
  <2> HIDE DEF a
  <2>2. Counting(u) /\ Holds(x, t, u)
    BY <1>1, <1>3, <2>1, BagsCount
  <2> HIDE DEF u
  <2>3. isNeedClean(t) => Holds(y, t, EmptyBag)
    <3> HAVE isNeedClean(t)
    <3>1. InfoOf(y, t) = None
      BY <1>5
    <3> QED
      BY <3>1, Nothing DEF Holds, None
  <2>4. ~isNeedClean(t) => Holds(y, t, u)
    BY <1>5, <2>2 DEF Holds
  <2> QED
    BY <2>2, <2>3, <2>4 DEF u, a
<1> QED
  BY <1>3, <1>4, <1>5, <1>6 DEF y

\* What clear leaves.
LEMMA ClearedInv ==
  ASSUME VInv, Cleared, UNCHANGED samples PROVE VInv'
<1>1. samples' \in Samples
  BY DEF VInv
<1>2. vocab' = Empty /\ counted' = EmptyBag /\ sinceClean' = EmptyBag
  BY DEF Cleared
<1>3. \A t : (LinesOf(t))' = EmptyBag
  BY <1>2 DEF LinesOf
<1>4. vocab' \in Vocabs /\ Counting(counted') /\ Counting(sinceClean')
  BY <1>2, Nothing
<1>5. \A t : Holds(vocab', t, (LinesOf(t))')
  BY <1>2, <1>3, Nothing
<1> QED
  BY <1>1, <1>4, <1>5 DEF VInv

\* Every call on a VocabModel keeps the invariant.
LEMMA VocabStep ==
  ASSUME VInv, VocabNext PROVE VInv'
<1>1. /\ samples \in Samples /\ vocab \in Vocabs /\ Counting(counted) /\ Counting(sinceClean)
      /\ \A t : Holds(vocab, t, LinesOf(t)) /\ Counting(LinesOf(t))
  BY DEF VInv, LinesOf
<1>2. IsFile(samples.pos) /\ IsFile(samples.neg)
  BY <1>1, SampleFiles
<1>3. ASSUME NEW file, IsFile(file), UNCHANGED samples,
             vocab' = getWordsInfo(vocab, file),
             counted' = counted (+) BagOf(file), sinceClean' = sinceClean (+) BagOf(file)
      PROVE  VInv'
  <2>1. vocab' \in Vocabs /\ Counting(counted') /\ Counting(sinceClean') /\ samples' \in Samples
    BY <1>1, <1>3, FileCounted, BagsCount
  <2>2. \A t : (LinesOf(t))' = LinesOf(t) (+) BagOf(file)
    BY <1>3 DEF LinesOf
  <2>3. \A t : Holds(vocab', t, LinesOf(t) (+) BagOf(file))
    BY <1>1, <1>3, FileCounted
  <2>4. \A t : Holds(vocab', t, (LinesOf(t))')
    BY <2>2, <2>3
  <2> QED
    BY <2>1, <2>4 DEF VInv
<1>4. ASSUME genPosVocab PROVE VInv'
  BY <1>2, <1>3, <1>4 DEF genPosVocab
<1>5. ASSUME genNegVocab PROVE VInv'
  BY <1>2, <1>3, <1>5 DEF genNegVocab
<1>6. ASSUME UNCHANGED <<samples, vocab, counted, sinceClean>> PROVE VInv'
  <2>1. \A t : (LinesOf(t))' = LinesOf(t)
    BY <1>6 DEF LinesOf
  <2> QED
    BY <1>1, <1>6, <2>1 DEF VInv
<1>7. ASSUME genVocab PROVE VInv'
  <2> DEFINE v == termsClean(Both(vocab))
  <2>1. \/ UNCHANGED <<samples, vocab, counted, sinceClean>>
        \/ /\ UNCHANGED samples /\ vocab' = v /\ sinceClean' = EmptyBag
           /\ counted' = counted (+) BagOf(samples.pos) (+) BagOf(samples.neg)
    BY <1>7 DEF genVocab, Stop, history, Both
  <2>2. ASSUME UNCHANGED samples, vocab' = v, sinceClean' = EmptyBag,
               counted' = counted (+) BagOf(samples.pos) (+) BagOf(samples.neg)
        PROVE  VInv'
    <3>1. /\ v \in Vocabs
          /\ \A t, bag : Counting(bag) /\ Holds(vocab, t, bag) =>
               LET u == bag (+) BagOf(samples.pos) (+) BagOf(samples.neg) IN
               /\ Counting(u) /\ Holds(Both(vocab), t, u)
               /\ isNeedClean(t) => Holds(v, t, EmptyBag)
               /\ ~isNeedClean(t) => Holds(v, t, u)
      BY <1>1, BothCounted
    <3> HIDE DEF v
    <3>2. Counting(counted')
      <4>1. Counting(counted (+) BagOf(samples.pos))
        BY <1>1, <1>2, BagsCount
      <4> QED
        BY <1>2, <2>2, <4>1, BagsCount
    <3>3. ASSUME NEW t PROVE Holds(vocab', t, (LinesOf(t))')
      <4>1. CASE isNeedClean(t)
        <5>1. (LinesOf(t))' = EmptyBag /\ LinesOf(t) = sinceClean
          BY <2>2, <4>1 DEF LinesOf
        <5>2. Counting(sinceClean) /\ Holds(vocab, t, sinceClean)
          BY <1>1, <5>1
        <5> QED
          BY <2>2, <3>1, <4>1, <5>1, <5>2
      <4>2. CASE ~isNeedClean(t)
        <5>1. (LinesOf(t))' = counted' /\ LinesOf(t) = counted
          BY <4>2 DEF LinesOf
        <5>2. Counting(counted) /\ Holds(vocab, t, counted)
          BY <1>1, <5>1
        <5> QED
          BY <2>2, <3>1, <4>2, <5>1, <5>2
      <4> QED
        BY <4>1, <4>2
    <3>4. samples' \in Samples /\ vocab' \in Vocabs /\ Counting(sinceClean')
      BY <1>1, <2>2, <3>1, Nothing
    <3> QED
      BY <3>2, <3>3, <3>4 DEF VInv
  <2> QED
    BY <1>6, <2>1, <2>2
<1>8. ASSUME clear PROVE VInv'
  BY <1>8, ClearedInv DEF clear
<1>9. ASSUME NEW k \in TopKs, getFeatures(k) PROVE VInv'
  <2>1. \/ UNCHANGED <<samples, vocab, counted, sinceClean>>
        \/ Cleared /\ UNCHANGED samples
    BY <1>9 DEF getFeatures, Stop, history
  <2> QED
    BY <1>6, <2>1, ClearedInv
<1> QED
  BY <1>4, <1>5, <1>7, <1>8, <1>9 DEF VocabNext

\* So do the steps of a Vectorize.
LEMMA VectorizeStep ==
  ASSUME VInv, [Next]_vars PROVE VInv'
<1>1. ASSUME UNCHANGED <<samples, vocab, counted, sinceClean>> PROVE VInv'
  <2>1. \A t : (LinesOf(t))' = LinesOf(t)
    BY <1>1 DEF LinesOf
  <2> QED
    BY <1>1, <2>1 DEF VInv
<1>2. ASSUME Program PROVE VInv'
  BY <1>2, VocabStep DEF Program
<1>3. ASSUME NEW k \in TopKs, getfeatures(k) PROVE VInv'
  <2>1. VocabNext
    BY <1>3 DEF getfeatures, VocabNext
  <2> QED
    BY <2>1, VocabStep
<1>4. ASSUME loadFeature PROVE VInv'
  BY <1>1, <1>4 DEF loadFeature, vocabVars, history
<1>5. ASSUME vectorize PROVE VInv'
  BY <1>1, <1>5 DEF vectorize, vocabVars, history
<1>6. ASSUME Again PROVE VInv'
  BY <1>6, ClearedInv DEF Again, Restart
<1>7. ASSUME UNCHANGED vars PROVE VInv'
  BY <1>1, <1>7 DEF vars, vocabVars, history
<1> QED
  BY <1>2, <1>3, <1>4, <1>5, <1>6, <1>7 DEF Next

\* Every step of the two programs keeps the invariant.
LEMMA PredictStep ==
  ASSUME VInv, [PredictNext]_<<vars, predictVars>> PROVE VInv'
<1>1. [Next]_vars
  BY DEF PredictNext, Load, BatchPredict, Leave
<1> QED
  BY <1>1, VectorizeStep

\* The invariant holds at the start.
LEMMA VocabInitially == Init => VInv
<1> SUFFICES ASSUME Init PROVE VInv
  OBVIOUS
<1>1. samples \in Samples /\ vocab = Empty /\ counted = EmptyBag /\ sinceClean = EmptyBag
  BY DEF Init, VocabInit, Construct
<1>2. \A t : LinesOf(t) = EmptyBag
  BY <1>1 DEF LinesOf
<1> QED
  BY <1>1, <1>2, Nothing DEF VInv

\* What the invariant says of the terms that were seen.
LEMMA VocabCounts == VInv => CountsOfSamples
<1> SUFFICES ASSUME VInv, NEW t
             PROVE  LET bag  == IF isNeedClean(t) THEN sinceClean ELSE counted
                        info == [A  |-> Total(t, bag, {"pos"}), B |-> Total(t, bag, {"neg"}),
                                 tf |-> Total(t, bag, Labels)]
                    IN  IF info.tf = 0 THEN t \notin DOMAIN vocab
                        ELSE t \in DOMAIN vocab /\ vocab[t] = info
  BY DEF CountsOfSamples
<1> DEFINE bag == LinesOf(t)
           info == [A  |-> Total(t, bag, {"pos"}), B |-> Total(t, bag, {"neg"}),
                    tf |-> Total(t, bag, Labels)]
           i == InfoOf(vocab, t)
<1>1. vocab \in Vocabs /\ Holds(vocab, t, bag)
  BY DEF VInv
<1>2. i \in Infos /\ (t \in DOMAIN vocab <=> i.tf # 0)
  BY <1>1, InfoIs
<1>3. i = [A |-> i.A, B |-> i.B, tf |-> i.tf]
  BY <1>2 DEF Infos
<1>4. i = info
  BY <1>1, <1>3 DEF Holds
<1>5. info.tf = i.tf
  BY <1>4
<1>6. t \in DOMAIN vocab => vocab[t] = i
  BY DEF InfoOf
<1>7. IF info.tf = 0 THEN t \notin DOMAIN vocab ELSE t \in DOMAIN vocab /\ vocab[t] = info
  BY <1>2, <1>4, <1>5, <1>6
<1> QED
  BY <1>7 DEF LinesOf

\* The vocabulary holds of every term how often samples of each label made it.
THEOREM VocabularyCounts == PredictSpec => []CountsOfSamples
<1>1. PredictInit => VInv
  BY VocabInitially DEF PredictInit
<1>2. VInv /\ [PredictNext]_<<vars, predictVars>> => VInv'
  BY PredictStep
<1> QED
  BY <1>1, <1>2, VocabCounts, PTL DEF PredictSpec

-----------------------------------------------------------------------------
(* The features.                                                           *)

\* A vector that begins with the n terms counted most often, in k places.
TopsOf(F, bag, k, n) ==
  LET tf(t) == Total(t, bag, Labels)
  IN
  /\ \A i \in 1 .. n :
       /\ ~isNeedClean(F[i].term)
       /\ F[i].weight[1] = tf(F[i].term) /\ F[i].weight[1] > 0
  /\ \A i, j \in 1 .. n :
       i < j => F[i].term # F[j].term /\ F[j].weight[1] <= F[i].weight[1]
  /\ \A t :
       /\ ~isNeedClean(t) /\ tf(t) > 0
       /\ \A i \in 1 .. n : F[i].term # t
       => n = k /\ \A i \in 1 .. n : tf(t) <= F[i].weight[1]

\* What getFeatures may have put into a vector, by the frequency of the terms.
Tops(F, bag) ==
  /\ Len(F) \in Nat
  /\ \E n \in 0 .. Len(F) : TopsOf(F, bag, Len(F), n)

\* The inductive invariant of a Vectorize: between the calls its vocabulary is empty.
TInv ==
  /\ VInv
  /\ owner = "Vectorize" =>
       /\ vocab = Empty /\ counted = EmptyBag /\ sinceClean = EmptyBag
       /\ Tops(featVec, SampleBag)

\* A ranking has every term, each once, and none after a less frequent one.
LEMMA Ranking ==
  ASSUME NEW v \in Vocabs, NEW order \in Rankings(v), NEW n, n = Cardinality(DOMAIN v)
  PROVE  /\ n \in Nat /\ order \in [1 .. n -> DOMAIN v]
         /\ \A i, j \in 1 .. n : i # j => order[i] # order[j]
         /\ \A t \in DOMAIN v : \E i \in 1 .. n : order[i] = t
         /\ \A i, j \in 1 .. n : i < j => ~(v[order[j]].tf > v[order[i]].tf)
<1> DEFINE S == DOMAIN v
<1>1. IsFiniteSet(S) /\ n \in Nat
  BY InfoIs, FS_CardinalityType
<1>2. /\ order \in [1 .. n -> S] /\ \A i, j \in 1 .. n : i # j => order[i] # order[j]
      /\ \A i, j \in DOMAIN order : i < j => ~(v[order[j]].tf > v[order[i]].tf)
  BY DEF Rankings, SetToSeqs, sortDescendBySecond
<1>3. order \in Injection(1 .. n, S)
  BY <1>2 DEF Injection, IsInjective
<1>4. IsFiniteSet(1 .. n) /\ Cardinality(1 .. n) = n
  BY <1>1, FS_Interval
<1>5. order \in Surjection(1 .. n, S)
  <2> HIDE DEF S
  <2>1. Cardinality(1 .. n) = Cardinality(S)
    BY <1>4 DEF S
  <2> QED
    BY <1>1, <1>3, <2>1, FS_Injection
<1>6. \A t \in S : \E i \in 1 .. n : order[i] = t
  BY <1>5 DEF Surjection
<1>7. DOMAIN order = 1 .. n
  BY <1>2
<1> QED
  BY <1>1, <1>2, <1>6, <1>7

\* The bag of both files.
LEMMA SampleTotals ==
  ASSUME samples \in Samples
  PROVE  /\ Counting(SampleBag)
         /\ \A t, labels : Total(t, EmptyBag (+) BagOf(samples.pos) (+) BagOf(samples.neg), labels)
                             = Total(t, SampleBag, labels)
<1> DEFINE a == EmptyBag (+) BagOf(samples.pos)
           u == a (+) BagOf(samples.neg)
           p == BagOf(samples.pos)
           q == BagOf(samples.neg)
<1>1. IsFile(samples.pos) /\ IsFile(samples.neg) /\ Counting(EmptyBag)
  BY SampleFiles, Nothing
<1>2. /\ Counting(a) /\ Counting(p)
      /\ \A l : Copies(l, a) = Copies(l, EmptyBag) + Copies(l, p)
  BY <1>1, BagsCount
<1>3. Counting(u) /\ \A l : Copies(l, u) = Copies(l, a) + Copies(l, q)
  <2> HIDE DEF a
  <2> QED
    BY <1>1, <1>2, BagsCount
<1>4. Counting(p (+) q) /\ \A l : Copies(l, p (+) q) = Copies(l, p) + Copies(l, q)
  <2> HIDE DEF p
  <2> QED
    BY <1>1, <1>2, BagsCount
<1>5. \A l : Copies(l, EmptyBag) = 0 /\ Copies(l, p) \in Nat
  <2>1. DOMAIN EmptyBag = {}
    BY DEF EmptyBag, SetToBag
  <2> HIDE DEF p
  <2> QED
    BY <1>2, <2>1 DEF Copies, Counting
<1>6. SampleBag = p (+) q
  BY DEF SampleBag
<1> HIDE DEF a, u, p, q
<1>7. \A l : Copies(l, u) = Copies(l, SampleBag)
  BY <1>2, <1>3, <1>4, <1>5, <1>6
<1>8. Counting(SampleBag)
  BY <1>4, <1>6
<1>9. \A t, labels : Total(t, u, labels) = Total(t, SampleBag, labels)
  BY <1>3, <1>7, <1>8, TotalSame
<1> QED
  BY <1>8, <1>9 DEF u, a, p, q

\* What the cleaned vocabulary of both files has of a term.
LEMMA SampleFrequency ==
  ASSUME samples \in Samples, NEW v, v = termsClean(Both(Empty))
  PROVE  /\ v \in Vocabs
         /\ \A t \in DOMAIN v : /\ v[t].tf = Total(t, SampleBag, Labels)
                                /\ v[t].tf \in Nat /\ v[t].tf # 0 /\ ~isNeedClean(t)
         /\ \A t : ~isNeedClean(t) /\ t \notin DOMAIN v => Total(t, SampleBag, Labels) = 0
<1> DEFINE u == EmptyBag (+) BagOf(samples.pos) (+) BagOf(samples.neg)
<1>1. /\ v \in Vocabs
      /\ \A t, bag : Counting(bag) /\ Holds(Empty, t, bag) =>
              LET w == bag (+) BagOf(samples.pos) (+) BagOf(samples.neg) IN
              /\ Counting(w) /\ Holds(Both(Empty), t, w)
              /\ isNeedClean(t) => Holds(v, t, EmptyBag)
              /\ ~isNeedClean(t) => Holds(v, t, w)
  BY Nothing, BothCounted
<1>2. \A t : /\ isNeedClean(t) => Holds(v, t, EmptyBag)
             /\ ~isNeedClean(t) => Holds(v, t, u)
  <2> TAKE t
  <2>1. Counting(EmptyBag) /\ Holds(Empty, t, EmptyBag)
    BY Nothing
  <2> QED
    BY <1>1, <2>1
<1>3. \A t : ~isNeedClean(t) => InfoOf(v, t).tf = Total(t, SampleBag, Labels)
  <2> TAKE t
  <2> HAVE ~isNeedClean(t)
  <2>1. Holds(v, t, u)
    BY <1>2
  <2> QED
    BY <2>1, SampleTotals DEF Holds
<1>4. \A t : isNeedClean(t) => InfoOf(v, t).tf = 0
  BY <1>2, Nothing DEF Holds
<1>5. \A t : (t \in DOMAIN v <=> InfoOf(v, t).tf # 0) /\ InfoOf(v, t).tf \in Nat
  BY <1>1, InfoIs
<1>6. \A t \in DOMAIN v : v[t] = InfoOf(v, t)
  BY DEF InfoOf
<1>7. \A t \in DOMAIN v : ~isNeedClean(t)
  BY <1>4, <1>5
<1> QED
  BY <1>1, <1>3, <1>5, <1>6, <1>7

\* What getFeatures puts into the vector of a Vectorize are the most frequent terms.
LEMMA FeaturesTop ==
  ASSUME samples \in Samples, NEW v, v = termsClean(Both(Empty)), NEW order \in Rankings(v),
         NEW pos, NEW neg, NEW k \in Nat, NEW r, r = featureSelection(v, order, pos, neg),
         NEW F \in FirstOf(r, k)
  PROVE  Tops(F, SampleBag)
<1> DEFINE m == Cardinality(DOMAIN v)
           n == IF m <= k THEN m ELSE k
           tf(t) == Total(t, SampleBag, Labels)
<1>1. /\ v \in Vocabs
      /\ \A t \in DOMAIN v : v[t].tf = tf(t) /\ v[t].tf \in Nat /\ v[t].tf # 0 /\ ~isNeedClean(t)
      /\ \A t : ~isNeedClean(t) /\ t \notin DOMAIN v => tf(t) = 0
  BY SampleFrequency
<1>2. /\ m \in Nat /\ order \in [1 .. m -> DOMAIN v]
      /\ \A i, j \in 1 .. m : i # j => order[i] # order[j]
      /\ \A t \in DOMAIN v : \E i \in 1 .. m : order[i] = t
      /\ \A i, j \in 1 .. m : i < j => ~(v[order[j]].tf > v[order[i]].tf)
  BY <1>1, Ranking
<1> HIDE DEF m, tf
<1>3. DOMAIN r = 1 .. m /\ \A i \in 1 .. m : r[i].term = order[i] /\ r[i].weight[1] = v[order[i]].tf
  BY <1>2 DEF featureSelection, Weight
<1>4. n \in 0 .. k /\ 1 .. n \subseteq 1 .. m /\ (n = k \/ n = m)
  BY <1>2
<1> HIDE DEF n
<1>4a. PICK behind : F = [i \in 1 .. k |-> IF i \in DOMAIN r THEN r[i] ELSE behind[i]]
  BY DEF FirstOf
<1>5. \A i \in 1 .. n : /\ F[i].term = order[i] /\ F[i].weight[1] = v[order[i]].tf
                        /\ order[i] \in DOMAIN v
  BY <1>2, <1>3, <1>4, <1>4a
<1>6. \A i \in 1 .. n : /\ ~isNeedClean(F[i].term)
                        /\ F[i].weight[1] = tf(F[i].term) /\ F[i].weight[1] > 0
  <2> TAKE i \in 1 .. n
  <2> DEFINE t == order[i]
  <2>1. F[i].term = t /\ F[i].weight[1] = v[t].tf /\ t \in DOMAIN v
    BY <1>5
  <2> HIDE DEF t
  <2>2. v[t].tf = tf(t) /\ v[t].tf \in Nat /\ v[t].tf # 0 /\ ~isNeedClean(t)
    BY <1>1, <2>1
  <2> QED
    BY <2>1, <2>2
<1>7. ASSUME NEW i \in 1 .. n, NEW j \in 1 .. n, i < j
      PROVE  F[i].term # F[j].term /\ F[j].weight[1] <= F[i].weight[1]
  <2>1. i \in 1 .. m /\ j \in 1 .. m /\ i # j
    BY <1>4, <1>7
  <2>2. order[i] # order[j] /\ ~(v[order[j]].tf > v[order[i]].tf)
    BY <1>2, <1>7, <2>1
  <2>3. v[order[i]].tf \in Nat /\ v[order[j]].tf \in Nat
    BY <1>1, <1>5
  <2> QED
    BY <1>5, <2>2, <2>3
<1>8. ASSUME NEW t, ~isNeedClean(t), tf(t) > 0, \A i \in 1 .. n : F[i].term # t
      PROVE  n = k /\ \A i \in 1 .. n : tf(t) <= F[i].weight[1]
  <2>1. t \in DOMAIN v
    BY <1>1, <1>8
  <2>2. PICK j \in 1 .. m : order[j] = t
    BY <1>2, <2>1
  <2>3. j \notin 1 .. n
    BY <1>5, <1>8, <2>2
  <2>4. n = k
    BY <1>4, <2>2, <2>3
  <2>5. ASSUME NEW i \in 1 .. n PROVE tf(t) <= F[i].weight[1]
    <3>1. i \in 1 .. m /\ i < j
      BY <1>2, <1>4, <2>2, <2>3
    <3>2. ~(v[order[j]].tf > v[order[i]].tf)
      BY <1>2, <2>2, <3>1
    <3>3. v[order[i]].tf \in Nat /\ F[i].weight[1] = v[order[i]].tf
      BY <1>1, <1>5
    <3>4. v[order[j]].tf = tf(t) /\ v[order[j]].tf \in Nat
      BY <1>1, <2>1, <2>2
    <3> QED
      BY <3>2, <3>3, <3>4
  <2> QED
    BY <2>4, <2>5
<1>9. Len(F) = k
  <2>1. F \in Seq({F[i] : i \in 1 .. k})
    BY <1>4a, IsASeq
  <2> QED
    BY <1>4a, <2>1, LenProperties
<1>10. TopsOf(F, SampleBag, k, n)
  BY <1>6, <1>7, <1>8 DEF TopsOf, tf
<1> QED
  BY <1>4, <1>9, <1>10 DEF Tops

\* An empty vector has none of them.
LEMMA NoTops == \A bag : Tops(<<>>, bag)
<1> TAKE bag
<1>1. Len(<<>>) = 0 /\ 1 .. 0 = {}
  OBVIOUS
<1>2. TopsOf(<<>>, bag, 0, 0)
  BY <1>1 DEF TopsOf
<1> QED
  BY <1>1, <1>2 DEF Tops

\* It holds at the start.
LEMMA TopInitially == Init => TInv
<1> SUFFICES ASSUME Init PROVE TInv
  OBVIOUS
<1>1. VInv
  BY VocabInitially
<1>2. vocab = Empty /\ counted = EmptyBag /\ sinceClean = EmptyBag /\ featVec = <<>>
  BY DEF Init, VocabInit, Construct
<1>3. Tops(<<>>, SampleBag)
  BY NoTops
<1> QED
  BY <1>1, <1>2, <1>3 DEF TInv

\* Every step of a Vectorize keeps it.
LEMMA TopStep ==
  ASSUME TInv, [Next]_vars PROVE TInv'
<1>1. VInv /\ VInv'
  BY VectorizeStep DEF TInv
<1>2. samples' = samples /\ owner' = owner
  BY DEF Next, Program, VocabNext, genPosVocab, genNegVocab, genVocab, clear, getFeatures, Stop,
         getfeatures, loadFeature, vectorize, Again, Restart, vars, vocabVars, history
<1>3. SampleBag' = SampleBag
  BY <1>2 DEF SampleBag
<1>4. ASSUME owner = "Vectorize"
      PROVE  /\ vocab' = Empty /\ counted' = EmptyBag /\ sinceClean' = EmptyBag
             /\ Tops(featVec', SampleBag)
  <2>1. /\ vocab = Empty /\ counted = EmptyBag /\ sinceClean = EmptyBag
        /\ Tops(featVec, SampleBag)
    BY <1>4 DEF TInv
  <2>2. ~Program
    BY <1>4 DEF Program
  <2>3. ASSUME UNCHANGED <<vocab, counted, sinceClean, featVec>>
        PROVE  /\ vocab' = Empty /\ counted' = EmptyBag /\ sinceClean' = EmptyBag
               /\ Tops(featVec', SampleBag)
    BY <2>1, <2>3
  <2>4. ASSUME Cleared
        PROVE  vocab' = Empty /\ counted' = EmptyBag /\ sinceClean' = EmptyBag
    BY <2>4 DEF Cleared
  <2>5. ASSUME NEW k \in TopKs, getfeatures(k)
        PROVE  /\ vocab' = Empty /\ counted' = EmptyBag /\ sinceClean' = EmptyBag
               /\ Tops(featVec', SampleBag)
    <3> DEFINE v == termsClean(Both(Empty))
               pos == Len(Lines(samples.neg))
    <3>1. k \in Nat /\ samples \in Samples
      BY <1>1, NumbersAssumption DEF VInv
    <3>2. \/ UNCHANGED <<vocab, counted, sinceClean, featVec>>
          \/ /\ Cleared
             /\ \E order \in Rankings(v) :
                  featVec' \in FirstOf(featureSelection(v, order, pos, negDocCnt), k)
      BY <2>1, <2>5 DEF getfeatures, getFeatures, Stop, history, Both
    <3>3. ASSUME NEW order \in Rankings(v),
                 featVec' \in FirstOf(featureSelection(v, order, pos, negDocCnt), k)
          PROVE  Tops(featVec', SampleBag)
      <4> DEFINE r == featureSelection(v, order, pos, negDocCnt)
      <4> HIDE DEF v, r
      <4>1. v = termsClean(Both(Empty)) /\ r = featureSelection(v, order, pos, negDocCnt)
        BY DEF v, r
      <4>2. featVec' \in FirstOf(r, k)
        BY <3>3, <4>1
      <4> QED
        BY <3>1, <3>3, <4>1, <4>2, FeaturesTop
    <3> HIDE DEF v, pos
    <3> QED
      BY <2>3, <2>4, <3>2, <3>3
  <2>6. ASSUME loadFeature \/ vectorize \/ UNCHANGED vars
        PROVE  UNCHANGED <<vocab, counted, sinceClean, featVec>>
    BY <2>6 DEF loadFeature, vectorize, vars, vocabVars, history
  <2>7. ASSUME Again
        PROVE  Cleared /\ featVec' = <<>>
    BY <2>7 DEF Again, Restart
  <2>8. Tops(<<>>, SampleBag)
    BY NoTops
  <2> QED
    BY <2>2, <2>3, <2>4, <2>5, <2>6, <2>7, <2>8 DEF Next
<1>5. owner' = "Vectorize" =>
        /\ vocab' = Empty /\ counted' = EmptyBag /\ sinceClean' = EmptyBag
        /\ Tops(featVec', SampleBag')
  BY <1>2, <1>3, <1>4
<1> QED
  BY <1>1, <1>5 DEF TInv

\* The features of a Vectorize begin with the terms of both files that are counted most
\* often, with their counts, whatever lies behind the last of them and however often they
\* were asked for.
THEOREM FeaturesByFrequency == PredictSpec => []TopByFrequency
<1>1. PredictInit => TInv
  BY TopInitially DEF PredictInit
<1>2. ASSUME TInv, [PredictNext]_<<vars, predictVars>> PROVE TInv'
  <2>1. [Next]_vars
    BY <1>2 DEF PredictNext, Load, BatchPredict, Leave
  <2> QED
    BY <1>2, <2>1, TopStep
<1>3. TInv => TopByFrequency
  BY DEF TInv, Tops, TopsOf, TopByFrequency
<1> QED
  BY <1>1, <1>2, <1>3, PTL DEF PredictSpec

-----------------------------------------------------------------------------
(* Counting places.                                                        *)

\* Sets whose elements belong together one by one have equally many.
LEMMA OneToOne ==
  ASSUME NEW S, IsFiniteSet(S), NEW T, NEW f,
         \A x \in S : f[x] \in T, \A x, y \in S : f[x] = f[y] => x = y,
         \A y \in T : \E x \in S : f[x] = y
  PROVE  IsFiniteSet(T) /\ Cardinality(T) = Cardinality(S)
<1> DEFINE g == [x \in S |-> f[x]]
<1>1. g \in [S -> T] /\ \A x \in S : g[x] = f[x]
  OBVIOUS
<1> HIDE DEF g
<1>2. g \in Bijection(S, T)
  <2>1. g \in Injection(S, T)
    BY <1>1 DEF Injection, IsInjective
  <2>2. g \in Surjection(S, T)
    BY <1>1 DEF Surjection
  <2> QED
    BY <2>1, <2>2 DEF Bijection
<1>3. ExistsBijection(S, T)
  BY <1>2 DEF ExistsBijection
<1> QED
  BY <1>3, FS_Bijection

\* How many elements of a sequence are in P, of all and of those at the places I.
CountIn(s, P) == Cardinality({i \in 1 .. Len(s) : s[i] \in P})
CountAt(s, I, P) == Cardinality({i \in I : s[i] \in P})

\* Of what was picked, as much is in P as at the places it comes from.
LEMMA PickedCount ==
  ASSUME NEW S, NEW s, NEW I, NEW p, NEW at, Picks(at, p, s, I, S), NEW P
  PROVE  CountAt(s, I, P) = CountIn(p, P)
<1> DEFINE K == {k \in 1 .. Len(p) : p[k] \in P}
           J == {i \in I : s[i] \in P}
<1>1. /\ Len(p) \in Nat /\ (\A i \in I : i \in Int) /\ \A k \in 1 .. Len(p) : at[k] \in I /\ p[k] = s[at[k]]
      /\ \A i \in I : \E k \in 1 .. Len(p) : at[k] = i
      /\ \A j, k \in 1 .. Len(p) : j < k => at[j] < at[k]
  BY DEF Picks
<1>2. IsFiniteSet(K)
  <2>1. IsFiniteSet(1 .. Len(p))
    BY <1>1, FS_Interval
  <2> QED
    BY <2>1, FS_Subset
<1>3. \A k \in K : at[k] \in J
  BY <1>1
<1>4. ASSUME NEW j \in K, NEW k \in K, at[j] = at[k] PROVE j = k
  <2>1. j \in 1 .. Len(p) /\ k \in 1 .. Len(p) /\ at[j] \in Int /\ at[k] \in Int
    BY <1>1
  <2>2. ~(j < k) /\ ~(k < j)
    BY <1>1, <1>4, <2>1
  <2> QED
    BY <1>1, <2>1, <2>2
<1>5. \A i \in J : \E k \in K : at[k] = i
  BY <1>1
<1> HIDE DEF J, K
<1>6. Cardinality(J) = Cardinality(K)
  BY <1>2, <1>3, <1>4, <1>5, OneToOne
<1> QED
  BY <1>6 DEF J, K, CountAt, CountIn

\* Of two sequences, one after the other, as much is in P as of both.
LEMMA CountConcat ==
  ASSUME NEW S, NEW s \in Seq(S), NEW t \in Seq(S), NEW P
  PROVE  /\ CountIn(s, P) \in Nat /\ CountIn(t, P) \in Nat
         /\ CountIn(s \o t, P) = CountIn(s, P) + CountIn(t, P)
<1> DEFINE u == s \o t
           m == Len(s)
           n == Len(t)
           A == {i \in 1 .. m : s[i] \in P}
           B == {i \in 1 .. n : t[i] \in P}
           C == {i \in m + 1 .. m + n : u[i] \in P}
           f == [i \in 1 .. n |-> m + i]
<1>1. m \in Nat /\ n \in Nat
  BY LenProperties
<1>2. /\ Len(u) = m + n /\ \A i \in 1 .. m : u[i] = s[i]
      /\ \A i \in m + 1 .. m + n : u[i] = t[i - m]
  <2>1. Len(u) = m + n /\ \A i \in 1 .. m + n : u[i] = IF i <= m THEN s[i] ELSE t[i - m]
    BY ConcatProperties
  <2> HIDE DEF u, m, n
  <2> QED
    BY <1>1, <2>1
<1> HIDE DEF u, m, n
<1>3. IsFiniteSet(A) /\ IsFiniteSet(B)
  <2>1. IsFiniteSet(1 .. m) /\ IsFiniteSet(1 .. n)
    BY <1>1, FS_Interval
  <2> QED
    BY <2>1, FS_Subset
<1>4. \A i \in 1 .. n : f[i] = m + i /\ f[i] \in m + 1 .. m + n /\ f[i] - m = i
  BY <1>1
<1>5. IsFiniteSet(C) /\ Cardinality(C) = Cardinality(B)
  <2>1. \A i \in B : f[i] \in C
    BY <1>2, <1>4
  <2>2. \A i, j \in B : f[i] = f[j] => i = j
    BY <1>1, <1>4
  <2>3. \A c \in C : \E i \in B : f[i] = c
    <3> TAKE c \in C
    <3>1. c - m \in 1 .. n /\ c \in m + 1 .. m + n /\ u[c] \in P
      BY <1>1
    <3>2. f[c - m] = c
      BY <1>1, <1>4, <3>1
    <3>3. c - m \in B
      BY <1>2, <3>1
    <3> QED
      BY <3>2, <3>3
  <2> HIDE DEF B, C, f
  <2> QED
    BY <1>3, <2>1, <2>2, <2>3, OneToOne
<1>6. {i \in 1 .. Len(u) : u[i] \in P} = A \cup C
  <2>1. \A i : i \in 1 .. m + n <=> i \in 1 .. m \/ i \in m + 1 .. m + n
    BY <1>1
  <2> QED
    BY <1>2, <2>1
<1>7. A \cap C = {}
  BY <1>1
<1> HIDE DEF A, B, C
<1>8. Cardinality(A \cup C) = Cardinality(A) + Cardinality(C) - Cardinality({})
  BY <1>3, <1>5, <1>7, FS_Union
<1>9. Cardinality(A) \in Nat /\ Cardinality(B) \in Nat /\ Cardinality({}) = 0
  BY <1>3, FS_CardinalityType, FS_EmptySet
<1>10. Cardinality(A \cup C) = Cardinality(A) + Cardinality(B)
  BY <1>5, <1>8, <1>9
<1> QED
  BY <1>6, <1>9, <1>10 DEF CountIn, A, B, u, m, n

\* What is in a sequence is there at least once.
LEMMA TimesIn ==
  ASSUME NEW S, NEW s \in Seq(S), NEW x
  PROVE  x \in ToSet(s) <=> Times(s, x) # 0
<1> DEFINE J == {i \in 1 .. Len(s) : s[i] = x}
<1>1. Len(s) \in Nat /\ ToSet(s) = {s[i] : i \in 1 .. Len(s)}
  BY ElementsFinite, LenProperties
<1>2. IsFiniteSet(J)
  <2>1. IsFiniteSet(1 .. Len(s))
    BY <1>1, FS_Interval
  <2> QED
    BY <2>1, FS_Subset
<1>3. Cardinality(J) = 0 <=> J = {}
  <2> HIDE DEF J
  <2> QED
    BY <1>2, FS_EmptySet
<1>4. x \in ToSet(s) <=> J # {}
  BY <1>1
<1> QED
  BY <1>3, <1>4 DEF Times

\* bigramModel joins what is left of a text after the cleaning.
LEMMA BigramPicks ==
  ASSUME NEW words \in Seq(Terms)
  PROVE  \E kept, at :
           /\ bigramModel(words) = FlattenSeq(Pairs(kept))
           /\ Picks(at, kept, words, {i \in 1 .. Len(words) : ~isNeedClean(words[i])}, Terms)
           /\ ToSet(kept) = {w \in ToSet(words) : ~isNeedClean(w)}
<1> DEFINE n == Len(words)
           I == {i \in 1 .. n : ~isNeedClean(words[i])}
           kept == Passing(words, I)
<1>1. n \in Nat /\ DOMAIN words = 1 .. n /\ ToSet(words) = {words[i] : i \in 1 .. n}
  BY ElementsFinite, LenProperties
<1>2. bigramModel(words) = FlattenSeq(Pairs(kept))
  BY <1>1 DEF bigramModel, Pairs
<1>3. PICK at : Picks(at, kept, words, I, Terms)
  BY PassingIs
<1> HIDE DEF kept
<1>4. /\ kept \in Seq(Terms)
      /\ \A k \in 1 .. Len(kept) : at[k] \in I /\ kept[k] = words[at[k]]
      /\ \A i \in I : \E k \in 1 .. Len(kept) : at[k] = i
  BY <1>3 DEF Picks
<1>5. ToSet(kept) = {w \in ToSet(words) : ~isNeedClean(w)}
  <2>1. ToSet(kept) = {kept[k] : k \in 1 .. Len(kept)}
    BY <1>4, ElementsFinite
  <2>2. \A w : w \in ToSet(kept) <=> \E i \in I : w = words[i]
    <3> HIDE DEF I
    <3> QED
      BY <1>4, <2>1
  <2> QED
    BY <1>1, <2>2
<1> QED
  BY <1>2, <1>3, <1>5

\* A term that is not two words together.
Single(t, W) == \A x, y \in W : x \o y # t

\* A term that is not two words together is made by a text that has it as a word.
LEMMA BigramSingle ==
  ASSUME NEW words \in Seq(Terms), NEW W, ToSet(words) \subseteq W, NEW t, Single(t, W)
  PROVE  /\ bigramModel(words) \in Seq(Terms)
         /\ t \in ToSet(bigramModel(words)) <=> t \in ToSet(words) /\ ~isNeedClean(t)
<1>1. PICK kept, at :
           /\ bigramModel(words) = FlattenSeq(Pairs(kept))
           /\ Picks(at, kept, words, {i \in 1 .. Len(words) : ~isNeedClean(words[i])}, Terms)
           /\ ToSet(kept) = {w \in ToSet(words) : ~isNeedClean(w)}
  BY BigramPicks
<1> DEFINE b == FlattenSeq(Pairs(kept))
<1>2. kept \in Seq(Terms)
  BY <1>1 DEF Picks
<1>3. /\ b \in Seq(Terms)
      /\ Times(b, t) = Cardinality(AloneAt(t, kept)) + Cardinality(JoinedAt(t, kept))
  BY <1>2, BigramTimes
<1>4. ToSet(kept) = {kept[i] : i \in 1 .. Len(kept)} /\ Len(kept) \in Nat
  BY <1>2, ElementsFinite, LenProperties
<1>5. JoinedAt(t, kept) = {}
  <2>1. ASSUME NEW i \in 1 .. Len(kept) - 1 PROVE kept[i] \o kept[i + 1] # t
    <3>1. i \in 1 .. Len(kept) /\ i + 1 \in 1 .. Len(kept)
      BY <1>4
    <3>2. kept[i] \in W /\ kept[i + 1] \in W
      BY <1>1, <1>4, <3>1
    <3>3. \A x, y \in W : x \o y # t
      BY DEF Single
    <3> QED
      BY <3>2, <3>3
  <2> QED
    BY <2>1 DEF JoinedAt
<1>6. Times(kept, t) = Cardinality(AloneAt(t, kept))
  BY DEF Times, AloneAt
<1>7. Times(b, t) = Times(kept, t)
  <2>1. Times(kept, t) \in Nat /\ Cardinality(JoinedAt(t, kept)) = 0
    <3>1. Times(kept, t) \in Nat
      <4>1. IsFiniteSet(1 .. Len(kept))
        BY <1>4, FS_Interval
      <4>2. IsFiniteSet({i \in 1 .. Len(kept) : kept[i] = t})
        BY <4>1, FS_Subset
      <4> QED
        BY <4>2, FS_CardinalityType DEF Times
    <3> QED
      BY <1>5, <3>1, FS_EmptySet
  <2> HIDE DEF b
  <2> QED
    BY <1>3, <1>6, <2>1
<1> HIDE DEF b
<1>8. t \in ToSet(b) <=> t \in ToSet(kept)
  BY <1>2, <1>3, <1>7, TimesIn
<1> QED
  BY <1>1, <1>3, <1>8 DEF b

\* And it occurs once in a sample that has it.
LEMMA OccursOnce ==
  ASSUME NEW words, NEW W, ToSet(words) \subseteq W, NEW t, Single(t, W)
  PROVE  Occurrences(t, words) = IF t \in ToSet(words) /\ ~isNeedClean(t) THEN 1 ELSE 0
<1> DEFINE S == {w \in ToSet(words) : ~isNeedClean(w)}
           A == {x \in S : x = t}
           J == {p \in S \X S : (Before(p[1], p[2]) /\ \A z \in S : ~(Before(p[1], z) /\ Before(z, p[2])))
                                  /\ p[1] \o p[2] = t}
<1>1. Occurrences(t, words) = Cardinality(A) + Cardinality(J)
  BY DEF Occurrences
<1>2. J = {}
  <2>1. ASSUME NEW p \in S \X S PROVE p[1] \o p[2] # t
    <3>1. p[1] \in W /\ p[2] \in W
      OBVIOUS
    <3> QED
      BY <3>1 DEF Single
  <2> QED
    BY <2>1
<1>3. A = IF t \in S THEN {t} ELSE {}
  OBVIOUS
<1>4. Cardinality(A) = IF t \in S THEN 1 ELSE 0
  <2> HIDE DEF A, S
  <2> QED
    BY <1>3, FS_Singleton, FS_EmptySet
<1>5. Cardinality(J) = 0
  <2> HIDE DEF J
  <2> QED
    BY <1>2, FS_EmptySet
<1> HIDE DEF A, J
<1> QED
  BY <1>1, <1>4, <1>5

-----------------------------------------------------------------------------
(* The elements of a line.                                                 *)

\* e has the numbers in I, each once, in ascending order.
Numbers(e, I) ==
  \E n \in Nat :
    /\ DOMAIN e = 1 .. n
    /\ \A j \in 1 .. n : e[j][1] \in I
    /\ \A i \in I : \E j \in 1 .. n : e[j][1] = i
    /\ \A j, k \in 1 .. n : j < k => e[j][1] < e[k][1]

\* The features of positive weight that a text has.
Positive(words, feats) ==
  {i \in DOMAIN feats : feats[i].term \in ToSet(bigramModel(words)) /\ feats[i].weight[1] > 0}

\* The elements of a line are the numbers of the features that its text has.
LEMMA ElementsAre ==
  ASSUME NEW words, NEW feats, NEW m \in Nat, DOMAIN feats = 1 .. m
  PROVE  Numbers(elements(words, feats), Positive(words, feats))
<1> DEFINE tf == termProcess(words)
           I == Positive(words, feats)
           s == [i \in 1 .. m |-> i]
           p == Passing(s, I)
           e == elements(words, feats)
<1>1. I = {i \in 1 .. m : feats[i].term \in DOMAIN tf /\ feats[i].weight[1] > 0}
  BY DEF Positive, termProcess, ToBag, ToSet, Range
<1>2. Present(tf, feats) = p
  BY <1>1 DEF Present
<1>3. s \in Seq(Nat) /\ Len(s) = m /\ \A i \in 1 .. m : s[i] = i
  OBVIOUS
<1>4. I \in SUBSET (1 .. m)
  BY <1>1
<1>5. e = [j \in DOMAIN p |-> <<p[j], tf[feats[p[j]].term]>>]
  BY <1>2 DEF elements
<1> HIDE DEF I, s, p, e, tf
<1>6. PICK at : Picks(at, Passing(s, I), s, I, Nat)
  BY <1>3, <1>4, PassingIs
<1>7. /\ Len(p) \in Nat /\ DOMAIN p = 1 .. Len(p)
      /\ \A k \in 1 .. Len(p) : at[k] \in I /\ p[k] = at[k]
      /\ \A i \in I : \E k \in 1 .. Len(p) : at[k] = i
      /\ \A j, k \in 1 .. Len(p) : j < k => at[j] < at[k]
  <2>1. p = Passing(s, I)
    BY DEF p
  <2>2. p \in Seq(Nat)
    BY <1>6, <2>1 DEF Picks
  <2>3. Len(p) \in Nat /\ DOMAIN p = 1 .. Len(p)
    BY <2>2, LenProperties
  <2> QED
    BY <1>3, <1>4, <1>6, <2>1, <2>3 DEF Picks
<1>8. DOMAIN e = 1 .. Len(p) /\ \A j \in 1 .. Len(p) : e[j][1] = at[j]
  BY <1>5, <1>7
<1>9. Numbers(e, I)
  <2>1. /\ \A j \in 1 .. Len(p) : e[j][1] \in I
        /\ \A i \in I : \E j \in 1 .. Len(p) : e[j][1] = i
        /\ \A j, k \in 1 .. Len(p) : j < k => e[j][1] < e[k][1]
    BY <1>7, <1>8
  <2> DEFINE n == Len(p)
  <2>2. n \in Nat /\ DOMAIN e = 1 .. n
    BY <1>7, <1>8
  <2> HIDE DEF n
  <2>3. /\ \A j \in 1 .. n : e[j][1] \in I
        /\ \A i \in I : \E j \in 1 .. n : e[j][1] = i
        /\ \A j, k \in 1 .. n : j < k => e[j][1] < e[k][1]
    BY <2>1 DEF n
  <2> QED
    BY <2>2, <2>3 DEF Numbers
<1> QED
  BY <1>9 DEF e, I

-----------------------------------------------------------------------------
(* The samples that have a term.                                           *)

\* The lines in P are those that add one to a total; no other line adds to it.
AddsOne(t, labels, lines, P) ==
  \A i \in 1 .. Len(lines) :
    (IF lines[i].label \in labels THEN Occurrences(t, lines[i].words) ELSE 0)
      = IF lines[i] \in P THEN 1 ELSE 0

\* With lines, a total is as much more as lines are in P.
LEMMA LinesTotal ==
  ASSUME NEW bag, Counting(bag), NEW lines \in Seq(Counted), NEW D, D = DOMAIN bag \cup ToSet(lines),
         NEW t, NEW labels, NEW P, AddsOne(t, labels, lines, P)
  PROVE  /\ Total(t, bag, labels) \in Int
         /\ Total(t, With(bag, lines, D, Len(lines)), labels)
              = Total(t, bag, labels) + CountIn(lines, P)
<1> DEFINE n == Len(lines)
           W(i) == With(bag, lines, D, i)
           N == {i \in Nat : lines[i] \in P}
           k(i) == Cardinality(N \cap 1 .. i)
           T(b) == Total(t, b, labels)
<1>1. /\ n \in Nat /\ (\A i \in 1 .. n : lines[i] \in Counted) /\ D \in SUBSET Counted /\ IsFiniteSet(D)
      /\ \A i \in 1 .. n : lines[i] \in D
  <2>1. n \in Nat /\ \A i \in 1 .. n : lines[i] \in Counted
    BY LenProperties, ElementOfSeq
  <2>2. ToSet(lines) \in SUBSET Counted /\ IsFiniteSet(ToSet(lines)) /\ ToSet(lines) = {lines[i] : i \in 1 .. n}
    BY ElementsFinite
  <2>3. DOMAIN bag \in SUBSET Counted /\ IsFiniteSet(DOMAIN bag)
    BY DEF Counting
  <2>4. IsFiniteSet(D)
    BY <2>2, <2>3, FS_Union
  <2> QED
    BY <2>1, <2>2, <2>3, <2>4
<1>2. ASSUME NEW i \in 0 .. n
      PROVE  /\ DOMAIN W(i) = D /\ Counting(W(i))
             /\ i # 0 => \A l \in D : W(i)[l] = W(i - 1)[l] + (IF l = lines[i] THEN 1 ELSE 0)
             /\ \A l \in D : W(0)[l] = Copies(l, bag)
  BY <1>1, WithNext
<1>3. \A i \in 0 .. n : /\ k(i) \in Nat /\ k(0) = 0
                        /\ i # 0 => k(i) = k(i - 1) + IF i \in N THEN 1 ELSE 0
  <2> HIDE DEF N
  <2> TAKE i \in 0 .. n
  <2>1. i \in Nat
    BY <1>1
  <2>2. /\ Cardinality(N \cap 1 .. i) \in Nat
        /\ i # 0 => Cardinality(N \cap 1 .. i)
                      = Cardinality(N \cap 1 .. i - 1) + IF i \in N THEN 1 ELSE 0
        /\ Cardinality(N \cap 1 .. 0) = 0
    BY <2>1, CountUpto
  <2> QED
    BY <2>2
<1>4. {i \in 1 .. n : lines[i] \in P} = N \cap 1 .. n
  BY <1>1
<1>5. \A i \in 1 .. n : i \in N <=> lines[i] \in P
  BY <1>1
<1> HIDE DEF W, N, k
<1>6. T(W(0)) = T(bag) /\ T(W(0)) \in Int
  <2>1. 0 \in 0 .. n
    BY <1>1
  <2>2. DOMAIN W(0) = D /\ Counting(W(0)) /\ \A l \in D : W(0)[l] = Copies(l, bag)
    BY <1>2, <2>1
  <2>3. DOMAIN bag \subseteq D
    OBVIOUS
  <2>4. \A l : Copies(l, W(0)) = Copies(l, bag)
    BY <2>2, <2>3 DEF Copies
  <2>5. T(W(0)) = T(bag)
    BY <2>2, <2>4, TotalSame
  <2>6. T(W(0)) \in Int
    <3>1. T(W(0)) = SumOver(Shares(t, W(0), labels, D), D)
      BY <1>1, <2>2, TotalIs
    <3>2. \A l \in D : Shares(t, W(0), labels, D)[l] \in Int
      BY <1>1, <2>2, SharesInt
    <3> QED
      BY <1>1, <3>1, <3>2, SumIs
  <2> QED
    BY <2>5, <2>6
<1> DEFINE Ok(i) == T(W(i)) = T(bag) + k(i)
           G == {i \in 0 .. n : Ok(i)}
<1>7. Ok(0)
  BY <1>1, <1>3, <1>6
<1>8. ASSUME NEW i \in 1 .. n, Ok(i - 1) PROVE Ok(i)
  <2> DEFINE l == lines[i]
             b == W(i - 1)
             o == Occurrences(t, l.words)
  <2>1. l \in Counted /\ l \in D /\ i - 1 \in 0 .. n /\ i \in 0 .. n /\ i # 0
    BY <1>1
  <2>2. /\ DOMAIN b = D /\ Counting(b) /\ DOMAIN W(i) = D /\ Counting(W(i))
        /\ \A x \in D : W(i)[x] = b[x] + (IF x = l THEN 1 ELSE 0)
    BY <1>2, <2>1
  <2>3. (IF l.label \in labels THEN o ELSE 0) = IF l \in P THEN 1 ELSE 0
    BY DEF AddsOne
  <2>4. k(i) = k(i - 1) + IF l \in P THEN 1 ELSE 0
    BY <1>3, <1>5, <2>1
  <2> HIDE DEF l, b, o
  <2>5. Total(t, W(i), labels) = Total(t, b, labels) + (IF l.label \in labels THEN o ELSE 0)
    BY <2>1, <2>2, TotalMore DEF o
  <2>6. T(b) = T(bag) + k(i - 1)
    BY <1>8 DEF b
  <2>7. k(i - 1) \in Nat /\ T(bag) \in Int
    BY <1>3, <1>6, <2>1
  <2> QED
    BY <2>3, <2>4, <2>5, <2>6, <2>7
<1> HIDE DEF Ok
<1>9. n \in G
  <2>1. G \in SUBSET (0 .. n) /\ 0 \in G /\ \A i \in 1 .. n : i - 1 \in G => i \in G
    BY <1>1, <1>7, <1>8
  <2> HIDE DEF G
  <2> QED
    BY <1>1, <2>1, StepsHold
<1> QED
  BY <1>4, <1>6, <1>9 DEF Ok, n, W, k, CountIn

\* With a file, a total is as much more as lines of it are in P.
LEMMA FileTotal ==
  ASSUME NEW bag, Counting(bag), NEW file, IsFile(file),
         NEW t, NEW labels, NEW P, AddsOne(t, labels, Lines(file), P)
  PROVE  /\ Counting(bag (+) BagOf(file)) /\ Total(t, bag, labels) \in Int
         /\ Total(t, bag (+) BagOf(file), labels)
              = Total(t, bag, labels)
                  + CountIn(Lines(file), P)
<1> DEFINE s == Lines(file)
           D == DOMAIN bag \cup ToSet(s)
           w == With(bag, s, D, Len(s))
           u == bag (+) BagOf(file)
<1>1. s \in Seq(Counted)
  BY LinesCounted
<1>2. Counting(u) /\ \A l : Copies(l, u) = Copies(l, w)
  BY BagsCount
<1>3. Counting(w)
  <2>1. Len(s) \in Nat /\ D \in SUBSET Counted /\ IsFiniteSet(D) /\ \A i \in 1 .. Len(s) : s[i] \in D
    <3>1. ToSet(s) \in SUBSET Counted /\ IsFiniteSet(ToSet(s)) /\ ToSet(s) = {s[i] : i \in 1 .. Len(s)}
      BY <1>1, ElementsFinite
    <3>2. DOMAIN bag \in SUBSET Counted /\ IsFiniteSet(DOMAIN bag)
      BY DEF Counting
    <3>3. IsFiniteSet(D)
      BY <3>1, <3>2, FS_Union
    <3>4. Len(s) \in Nat
      BY <1>1, LenProperties
    <3> HIDE DEF s
    <3> QED
      BY <3>1, <3>2, <3>3, <3>4
  <2>2. Len(s) \in 0 .. Len(s)
    BY <2>1
  <2> HIDE DEF D, s
  <2> QED
    BY <1>1, <2>1, <2>2, WithNext
<1> HIDE DEF w, u
<1>4. Total(t, u, labels) = Total(t, w, labels)
  BY <1>2, <1>3, TotalSame
<1>5. /\ Total(t, bag, labels) \in Int
      /\ Total(t, w, labels) = Total(t, bag, labels) + CountIn(s, P)
  BY <1>1, LinesTotal DEF w
<1> QED
  BY <1>2, <1>4, <1>5 DEF u

\* What both files have in P is the total over them.
LEMMA SampleTotal ==
  ASSUME samples \in Samples, NEW lines, lines = Lines(samples.pos) \o Lines(samples.neg),
         NEW t, NEW labels, NEW P, AddsOne(t, labels, lines, P)
  PROVE  Total(t, SampleBag, labels) = CountIn(lines, P)
<1> DEFINE r == Lines(samples.pos)
           s == Lines(samples.neg)
           a == EmptyBag (+) BagOf(samples.pos)
           u == a (+) BagOf(samples.neg)
<1>1. IsFile(samples.pos) /\ IsFile(samples.neg) /\ Counting(EmptyBag)
  BY SampleFiles, Nothing
<1>2. r \in Seq(Counted) /\ s \in Seq(Counted)
  BY <1>1, LinesCounted
<1>3. lines = r \o s
  OBVIOUS
<1>4. /\ Len(r) \in Nat /\ Len(s) \in Nat /\ Len(lines) = Len(r) + Len(s)
      /\ \A i \in 1 .. Len(lines) : lines[i] = IF i <= Len(r) THEN r[i] ELSE s[i - Len(r)]
  <2> HIDE DEF r, s
  <2>1. Len(r) \in Nat /\ Len(s) \in Nat
    BY <1>2, LenProperties
  <2> QED
    BY <1>2, <1>3, <2>1, ConcatProperties
<1>5. AddsOne(t, labels, r, P) /\ AddsOne(t, labels, s, P)
  <2> HIDE DEF r, s
  <2>1. ASSUME NEW i \in 1 .. Len(r) PROVE i \in 1 .. Len(lines) /\ lines[i] = r[i]
    BY <1>4
  <2>2. ASSUME NEW i \in 1 .. Len(s) PROVE Len(r) + i \in 1 .. Len(lines) /\ lines[Len(r) + i] = s[i]
    <3>1. Len(r) + i \in 1 .. Len(lines) /\ ~(Len(r) + i <= Len(r)) /\ Len(r) + i - Len(r) = i
      BY <1>4
    <3> QED
      BY <1>4, <3>1
  <2>3. AddsOne(t, labels, r, P)
    BY <2>1 DEF AddsOne
  <2>4. AddsOne(t, labels, s, P)
    BY <2>2 DEF AddsOne
  <2> QED
    BY <2>3, <2>4
<1>6. /\ Counting(a) /\ Total(t, EmptyBag, labels) \in Int
      /\ Total(t, a, labels) = Total(t, EmptyBag, labels) + CountIn(r, P)
  BY <1>1, <1>5, FileTotal
<1>7. Total(t, u, labels) = Total(t, a, labels) + CountIn(s, P)
  <2> HIDE DEF a
  <2> QED
    BY <1>1, <1>5, <1>6, FileTotal
<1>8. Total(t, EmptyBag, labels) = 0
  BY Nothing
<1>9. Total(t, SampleBag, labels) = Total(t, u, labels)
  BY SampleTotals
<1> HIDE DEF r, s, a, u
<1>10. /\ CountIn(r, P) \in Nat /\ CountIn(s, P) \in Nat
       /\ CountIn(lines, P) = CountIn(r, P) + CountIn(s, P)
  BY <1>2, <1>3, CountConcat
<1> DEFINE x == CountIn(r, P)
           y == CountIn(s, P)
<1>11. x \in Nat /\ y \in Nat
  BY <1>10
<1>12. Total(t, SampleBag, labels) = (0 + x) + y
  BY <1>6, <1>7, <1>8, <1>9
<1>13. CountIn(lines, P) = x + y
  BY <1>10
<1> HIDE DEF x, y
<1>14. (0 + x) + y = x + y
  BY <1>11
<1> QED
  BY <1>12, <1>13, <1>14

-----------------------------------------------------------------------------
(* The training file.                                                      *)

\* The lines of both files.
AllLines == Lines(samples.pos) \o Lines(samples.neg)

\* What is written for a line, if it is, and the lines it is written for.
Records(lines, feats, junk) ==
  [i \in DOMAIN lines |-> [label |-> Label(lines[i].label, junk[i]),
                           elements |-> elements(lines[i].words, feats)]]
Written(lines, feats) == {i \in DOMAIN lines : elements(lines[i].words, feats) # <<>>}

\* The training file has the records of the lines that have an element.
LEMMA ScaledPicks ==
  ASSUME NEW lines, NEW n \in Nat, DOMAIN lines = 1 .. n, NEW feats, NEW junk
  PROVE  \E at, S : Picks(at, Scaled(lines, feats, junk), Records(lines, feats, junk),
                          Written(lines, feats), S)
<1> DEFINE s == Records(lines, feats, junk)
           I == Written(lines, feats)
           S == {s[i] : i \in 1 .. n}
<1>1. DOMAIN s = 1 .. n /\ s = [i \in 1 .. n |-> s[i]]
  BY DEF Records
<1>2. I \in SUBSET (1 .. n)
  BY DEF Written
<1>3. Scaled(lines, feats, junk) = Passing(s, I)
  BY DEF Scaled, Records, Written
<1> HIDE DEF s, I
<1>4. s \in Seq(S) /\ Len(s) = n
  <2>1. s \in [1 .. n -> S]
    BY <1>1
  <2> HIDE DEF S
  <2> QED
    BY <2>1, IsASeq
<1> HIDE DEF S
<1>5. \E at : Picks(at, Passing(s, I), s, I, S)
  BY <1>2, <1>4, PassingIs
<1> QED
  BY <1>3, <1>5 DEF s, I

\* The lines of the file that have an element are those of the samples that have the
\* feature.
LEMMA HavingIs ==
  ASSUME NEW lines, NEW n \in Nat, DOMAIN lines = 1 .. n, NEW feats, NEW m \in Nat,
         DOMAIN feats = 1 .. m, NEW junk, scale = Scaled(lines, feats, junk), NEW i, NEW label
  PROVE  Cardinality(Having(i, label))
           = Cardinality({x \in 1 .. n : /\ Label(lines[x].label, junk[x]) = label
                                         /\ i \in Positive(lines[x].words, feats)})
<1> DEFINE s == Records(lines, feats, junk)
           I == Written(lines, feats)
           has(r) == r.label = label /\ \E j \in DOMAIN r.elements : r.elements[j][1] = i
           P == {r \in {s[x] : x \in 1 .. n} \cup {scale[k] : k \in 1 .. Len(scale)} : has(r)}
           J == {x \in 1 .. n : /\ Label(lines[x].label, junk[x]) = label
                                /\ i \in Positive(lines[x].words, feats)}
<1>1. PICK at, S : Picks(at, scale, s, I, S)
  BY ScaledPicks
<1>2. /\ I \subseteq 1 .. n /\ \A x \in 1 .. n : x \in I <=> elements(lines[x].words, feats) # <<>>
  BY DEF Written
<1>3. \A x \in 1 .. n : /\ s[x].label = Label(lines[x].label, junk[x])
                        /\ s[x].elements = elements(lines[x].words, feats)
  BY DEF Records
<1>4. ASSUME NEW x \in 1 .. n
      PROVE  /\ (\E j \in DOMAIN s[x].elements : s[x].elements[j][1] = i)
                  <=> i \in Positive(lines[x].words, feats)
             /\ i \in Positive(lines[x].words, feats) => x \in I
  <2> DEFINE e == elements(lines[x].words, feats)
             Q == Positive(lines[x].words, feats)
  <2>1. Numbers(e, Q)
    BY ElementsAre
  <2> HIDE DEF e, Q
  <2>2. PICK l \in Nat : /\ DOMAIN e = 1 .. l
                         /\ \A j \in 1 .. l : e[j][1] \in Q
                         /\ \A q \in Q : \E j \in 1 .. l : e[j][1] = q
    BY <2>1 DEF Numbers
  <2>3. i \in Q => e # <<>>
    <3>1. DOMAIN <<>> = {}
      OBVIOUS
    <3>2. i \in Q => DOMAIN e # {}
      BY <2>2
    <3> QED
      BY <3>1, <3>2
  <2>4. (\E j \in DOMAIN e : e[j][1] = i) <=> i \in Q
    BY <2>2
  <2> QED
    BY <1>2, <1>3, <2>3, <2>4 DEF e, Q
<1> HIDE DEF s, I
<1>5. DOMAIN scale = 1 .. Len(scale)
  BY <1>1, LenProperties DEF Picks
<1>6. Having(i, label) = {k \in 1 .. Len(scale) : scale[k] \in P}
  <2>1. Having(i, label) = {k \in 1 .. Len(scale) : has(scale[k])}
    BY <1>5 DEF Having
  <2>2. \A k \in 1 .. Len(scale) : has(scale[k]) <=> scale[k] \in P
    OBVIOUS
  <2> HIDE DEF has, P
  <2> QED
    BY <2>1, <2>2
<1>7. J = {x \in I : s[x] \in P}
  <2>1. \A x \in 1 .. n : s[x] \in P <=> has(s[x])
    OBVIOUS
  <2>2. \A x \in 1 .. n : has(s[x]) <=> x \in J
    BY <1>3, <1>4
  <2>3. \A x \in 1 .. n : x \in J => x \in I
    BY <1>4
  <2>4. \A x \in J : x \in 1 .. n
    OBVIOUS
  <2> HIDE DEF has, P, J
  <2> QED
    BY <1>2, <2>1, <2>2, <2>3, <2>4
<1> HIDE DEF P, J
<1>8. CountAt(s, I, P) = CountIn(scale, P)
  BY <1>1, PickedCount
<1> QED
  BY <1>6, <1>7, <1>8 DEF J, CountAt, CountIn

\* The lines of both files are sequences of words of the samples.
LEMMA SampleWords ==
  ASSUME samples \in Samples
  PROVE  /\ AllLines \in Seq(Counted) /\ Len(AllLines) \in Nat /\ DOMAIN AllLines = 1 .. Len(AllLines)
         /\ \A x \in 1 .. Len(AllLines) :
              /\ AllLines[x] \in Counted /\ AllLines[x] \in SampleLines
              /\ AllLines[x].words \in Seq(Terms) /\ ToSet(AllLines[x].words) \subseteq Words
<1> DEFINE r == Lines(samples.pos)
           s == Lines(samples.neg)
           u == r \o s
<1>1. r \in Seq(Counted) /\ s \in Seq(Counted)
  BY SampleFiles, LinesCounted
<1>2. ToSet(r) = {r[i] : i \in 1 .. Len(r)} /\ ToSet(s) = {s[i] : i \in 1 .. Len(s)}
  BY <1>1, ElementsFinite
<1>3. SampleLines = ToSet(r) \cup ToSet(s)
  BY DEF SampleLines
<1> HIDE DEF r, s
<1>4. Len(r) \in Nat /\ Len(s) \in Nat
  BY <1>1, LenProperties
<1>5. /\ u \in Seq(Counted) /\ Len(u) = Len(r) + Len(s)
      /\ \A i \in 1 .. Len(r) + Len(s) : u[i] = IF i <= Len(r) THEN r[i] ELSE s[i - Len(r)]
  BY <1>1, ConcatProperties
<1>6. Len(u) \in Nat /\ DOMAIN u = 1 .. Len(u) /\ \A x \in 1 .. Len(u) : u[x] \in Counted
  BY <1>5, LenProperties, ElementOfSeq
<1> HIDE DEF u
<1>7. \A x \in 1 .. Len(u) : u[x] \in SampleLines
  <2> TAKE x \in 1 .. Len(u)
  <2>1. CASE x <= Len(r)
    <3>1. x \in 1 .. Len(r) /\ u[x] = r[x]
      BY <1>4, <1>5, <2>1
    <3> QED
      BY <1>2, <1>3, <3>1
  <2>2. CASE ~(x <= Len(r))
    <3>1. x - Len(r) \in 1 .. Len(s) /\ u[x] = s[x - Len(r)]
      BY <1>4, <1>5, <2>2
    <3> QED
      BY <1>2, <1>3, <3>1
  <2> QED
    BY <2>1, <2>2
<1>8. \A l \in SampleLines : ToSet(l.words) \subseteq Words
  BY DEF Words
<1>9. \A x \in 1 .. Len(u) : u[x].words \in Seq(Terms)
  BY <1>6, CountedWords
<1>10. u = AllLines
  BY DEF u, r, s, AllLines
<1> QED
  BY <1>5, <1>6, <1>7, <1>8, <1>9, <1>10

\* The feature i is the word t, and the lines are those of the samples, of which each
\* has one of the two labels.
TwoLabels == \A l \in SampleLines : l.label # "other"
FeatureIs(i, t, feats, junk) ==
  /\ \E m \in Nat : DOMAIN feats = 1 .. m /\ i \in 1 .. m
  /\ t = feats[i].term /\ feats[i].weight[1] > 0 /\ ~isNeedClean(t) /\ Single(t, Words)
  /\ scale = Scaled(AllLines, feats, junk)

\* A word that is a feature is in as many lines of the file as of the samples.
LEMMA FeatureFound ==
  ASSUME samples \in Samples, TwoLabels, NEW i, NEW t, NEW feats, NEW junk,
         FeatureIs(i, t, feats, junk),
         NEW label, NEW name, (label = 1 /\ name = "pos") \/ (label = -1 /\ name = "neg")
  PROVE  Cardinality(Having(i, label)) = Total(t, SampleBag, {name})
<1> PICK m \in Nat : DOMAIN feats = 1 .. m /\ i \in 1 .. m
  BY DEF FeatureIs
<1>0. /\ t = feats[i].term /\ feats[i].weight[1] > 0 /\ ~isNeedClean(t) /\ Single(t, Words)
      /\ scale = Scaled(AllLines, feats, junk)
  BY DEF FeatureIs
<1> DEFINE lines == AllLines
           n == Len(AllLines)
           P == {l \in Counted : l.label = name /\ t \in ToSet(l.words)}
           J == {x \in 1 .. n : /\ Label(lines[x].label, junk[x]) = label
                                /\ i \in Positive(lines[x].words, feats)}
<1>1. /\ lines \in Seq(Counted) /\ n \in Nat /\ DOMAIN lines = 1 .. n
      /\ \A x \in 1 .. n : /\ lines[x] \in Counted /\ lines[x] \in SampleLines
                           /\ lines[x].words \in Seq(Terms) /\ ToSet(lines[x].words) \subseteq Words
  BY SampleWords
<1>2. lines = Lines(samples.pos) \o Lines(samples.neg)
  BY DEF AllLines
<1> HIDE DEF lines, n
<1>3. Cardinality(Having(i, label)) = Cardinality(J)
  <2>1. scale = Scaled(lines, feats, junk)
    BY <1>0 DEF lines
  <2> QED
    BY <1>1, <2>1, HavingIs
<1>4. ASSUME NEW x \in 1 .. n
      PROVE  /\ lines[x].label \in {"pos", "neg"}
             /\ Label(lines[x].label, junk[x]) = label <=> lines[x].label = name
  <2>1. lines[x].label \in Labels /\ lines[x].label # "other"
    BY <1>1, CountedWords DEF TwoLabels
  <2>2. lines[x].label \in {"pos", "neg"}
    BY <2>1 DEF Labels
  <2> QED
    BY <2>2 DEF Label
<1>5. ASSUME NEW x \in 1 .. n
      PROVE  i \in Positive(lines[x].words, feats) <=> t \in ToSet(lines[x].words)
  <2>1. t \in ToSet(bigramModel(lines[x].words)) <=> t \in ToSet(lines[x].words)
    BY <1>0, <1>1, BigramSingle
  <2>2. i \in Positive(lines[x].words, feats) <=> t \in ToSet(bigramModel(lines[x].words))
    BY <1>0 DEF Positive
  <2> QED
    BY <2>1, <2>2
<1>6. \A x \in 1 .. n : x \in J <=> lines[x] \in P
  BY <1>1, <1>4, <1>5
<1>7. AddsOne(t, {name}, lines, P)
  <2>1. ASSUME NEW x \in 1 .. n
        PROVE  (IF lines[x].label \in {name} THEN Occurrences(t, lines[x].words) ELSE 0)
                 = IF lines[x] \in P THEN 1 ELSE 0
    <3>1. Occurrences(t, lines[x].words) = IF t \in ToSet(lines[x].words) /\ ~isNeedClean(t) THEN 1 ELSE 0
      BY <1>0, <1>1, OccursOnce
    <3> QED
      BY <1>0, <1>1, <3>1
  <2> QED
    BY <2>1 DEF AddsOne, n, lines
<1>8. J = {x \in 1 .. n : lines[x] \in P}
  <2>1. \A x \in J : x \in 1 .. n
    OBVIOUS
  <2> HIDE DEF J, P
  <2> QED
    BY <1>6, <2>1
<1> HIDE DEF J, P
<1>9. Total(t, SampleBag, {name}) = CountIn(lines, P)
  BY <1>2, <1>7, SampleTotal
<1>10. CountIn(lines, P) = Cardinality(J)
  BY <1>8 DEF CountIn, n, lines
<1> QED
  BY <1>3, <1>9, <1>10

-----------------------------------------------------------------------------
(* Features and the training file.                                         *)

\* A sequence.
Listed(F) == \E S : F \in Seq(S)

\* feats are the features F, and perhaps more.
Begins(F, feats) ==
  \E n \in Nat : \E m \in Nat :
    /\ n <= m /\ DOMAIN F = 1 .. n /\ DOMAIN feats = 1 .. m
    /\ \A i \in 1 .. n : feats[i] = F[i]

\* The training file is the samples by some features that begin with those that were
\* used.
Trained == \E feats, junk : Begins(used, feats) /\ scale = Scaled(AllLines, feats, junk)

\* The inductive invariant of the training file.
FInv ==
  /\ VInv
  /\ Listed(featVec) /\ Listed(loaded)
  /\ (scale = <<>> /\ used = <<>>) \/ Trained

\* What getFeatures hands out is a sequence.
LEMMA FeaturesListed ==
  ASSUME NEW k \in Nat, NEW r, NEW F \in FirstOf(r, k)
  PROVE  Listed(F)
<1> DEFINE S == {F[i] : i \in 1 .. k}
<1>1. F \in [1 .. k -> S]
  BY DEF FirstOf
<1> HIDE DEF S
<1>2. F \in Seq(S)
  BY <1>1, IsASeq
<1> QED
  BY <1>2 DEF Listed

\* One list after another is one that begins with it.
LEMMA ListsJoined ==
  ASSUME NEW F, Listed(F), NEW G, Listed(G)
  PROVE  Listed(F \o G) /\ Begins(F, F \o G)
<1>1. PICK S : F \in Seq(S)
  BY DEF Listed
<1>2. PICK T : G \in Seq(T)
  BY DEF Listed
<1> DEFINE U == S \cup T
<1>3. F \in Seq(U) /\ G \in Seq(U)
  <2>1. /\ Len(F) \in Nat /\ F \in [1 .. Len(F) -> S]
        /\ Len(G) \in Nat /\ G \in [1 .. Len(G) -> T]
    BY <1>1, <1>2, LenProperties
  <2>2. F \in [1 .. Len(F) -> U] /\ G \in [1 .. Len(G) -> U]
    BY <2>1
  <2> HIDE DEF U
  <2> QED
    BY <2>1, <2>2, IsASeq
<1> HIDE DEF U
<1> DEFINE H == F \o G
           n == Len(F)
           m == Len(F) + Len(G)
<1>4. n \in Nat /\ m \in Nat /\ n <= m /\ DOMAIN F = 1 .. n
  <2>1. Len(F) \in Nat /\ DOMAIN F = 1 .. Len(F) /\ Len(G) \in Nat
    BY <1>3, LenProperties
  <2> QED
    BY <2>1
<1>5. /\ H \in Seq(U) /\ Len(H) = m
      /\ \A i \in 1 .. m : H[i] = IF i <= n THEN F[i] ELSE G[i - n]
  BY <1>3, ConcatProperties
<1>6. DOMAIN H = 1 .. m
  <2> HIDE DEF H
  <2> QED
    BY <1>5, LenProperties
<1> HIDE DEF H, n, m
<1>7. \A i \in 1 .. n : H[i] = F[i]
  BY <1>4, <1>5
<1>8. Begins(F, H)
  BY <1>4, <1>6, <1>7 DEF Begins
<1>9. Listed(H)
  BY <1>5 DEF Listed
<1> QED
  BY <1>8, <1>9 DEF H

\* It holds at the start.
LEMMA FileInitially == Init => FInv
<1> SUFFICES ASSUME Init PROVE FInv
  OBVIOUS
<1>1. VInv
  BY VocabInitially
<1>2. featVec = <<>> /\ loaded = <<>> /\ scale = <<>> /\ used = <<>>
  BY DEF Init, VocabInit, Construct
<1>3. Listed(<<>>)
  <2>1. <<>> \in Seq({}) /\ DOMAIN <<>> = {}
    OBVIOUS
  <2> QED
    BY <2>1 DEF Listed
<1> QED
  BY <1>1, <1>2, <1>3 DEF FInv

\* Every step of a Vectorize, or of a program with a VocabModel, keeps it.
LEMMA FileStep ==
  ASSUME FInv, [Next]_vars PROVE FInv'
<1>1. VInv /\ VInv'
  BY VectorizeStep DEF FInv
<1>2. samples' = samples /\ AllLines' = AllLines
  BY DEF Next, Program, VocabNext, genPosVocab, genNegVocab, genVocab, clear, getFeatures, Stop,
         getfeatures, loadFeature, vectorize, Again, Restart, vars, vocabVars, history, AllLines
<1>3. /\ Listed(featVec) /\ Listed(loaded)
      /\ (scale = <<>> /\ used = <<>>) \/ Trained
  BY DEF FInv
<1>4. Listed(<<>>)
  <2>1. <<>> \in Seq({}) /\ DOMAIN <<>> = {}
    OBVIOUS
  <2> QED
    BY <2>1 DEF Listed
<1>5. ASSUME NEW k \in TopKs, getFeatures(k)
      PROVE  Listed(featVec')
  <2>1. k \in Nat
    BY NumbersAssumption
  <2>2. \/ UNCHANGED featVec
        \/ \E r : featVec' \in FirstOf(r, k)
    BY <1>5 DEF getFeatures, Stop
  <2> QED
    BY <1>3, <2>1, <2>2, FeaturesListed
<1>6. ASSUME UNCHANGED <<loaded, scale, used>>, Listed(featVec')
      PROVE  FInv'
  BY <1>1, <1>2, <1>3, <1>6 DEF FInv, Trained
<1>7. ASSUME Program PROVE FInv'
  <2>1. UNCHANGED <<loaded, scale, used>>
    BY <1>7 DEF Program
  <2>2. UNCHANGED featVec \/ \E k \in TopKs : getFeatures(k)
    BY <1>7 DEF Program, VocabNext, genPosVocab, genNegVocab, genVocab, clear, Stop
  <2> QED
    BY <1>3, <1>5, <1>6, <2>1, <2>2
<1>8. ASSUME NEW k \in TopKs, getfeatures(k) PROVE FInv'
  <2>1. UNCHANGED <<scale, used>> /\ loaded' = <<>> /\ getFeatures(k)
    BY <1>8 DEF getfeatures
  <2> QED
    BY <1>1, <1>2, <1>3, <1>4, <1>5, <2>1 DEF FInv, Trained
<1>9. ASSUME loadFeature PROVE FInv'
  <2>1. UNCHANGED <<featVec, scale, used>> /\ loaded' = loaded \o FeatureFile /\ FeatureFile # Missing
    BY <1>9 DEF loadFeature, vocabVars
  <2>2. Listed(FeatureFile)
    BY <2>1, FeatureFileAssumption DEF Listed
  <2>3. Listed(loaded')
    BY <1>3, <2>1, <2>2, ListsJoined
  <2> QED
    BY <1>1, <1>2, <1>3, <2>1, <2>3 DEF FInv, Trained
<1>10. ASSUME vectorize PROVE FInv'
  <2>1. UNCHANGED <<featVec, loaded>> /\ used' = featVec
    BY <1>10 DEF vectorize, vocabVars
  <2>2. PICK junk : scale' = Scaled(AllLines, featVec \o loaded, junk)
    BY <1>10 DEF vectorize, AllLines
  <2>3. Begins(featVec, featVec \o loaded)
    BY <1>3, ListsJoined
  <2> DEFINE feats == featVec \o loaded
  <2>4. Begins(used', feats) /\ scale' = Scaled(AllLines', feats, junk)
    BY <1>2, <2>1, <2>2, <2>3
  <2> HIDE DEF feats
  <2>5. Trained'
    BY <2>4 DEF Trained
  <2> QED
    BY <1>1, <1>3, <2>1, <2>5 DEF FInv
<1>11. ASSUME Again PROVE FInv'
  <2>1. UNCHANGED <<scale, used>> /\ loaded' = <<>> /\ featVec' = <<>>
    BY <1>11 DEF Again, Restart
  <2> QED
    BY <1>1, <1>2, <1>3, <1>4, <2>1 DEF FInv, Trained
<1>12. ASSUME UNCHANGED vars PROVE FInv'
  BY <1>3, <1>6, <1>12 DEF vars, vocabVars
<1> QED
  BY <1>7, <1>8, <1>9, <1>10, <1>11, <1>12 DEF Next

\* Two words make a pair.
LEMMA PairsAre == \A x \in Words, y \in Words : x \o y \in WordPairs
BY DEF WordPairs

\* Of the features that were used, the words of the samples are found.
LEMMA FoundAgain == FInv => FeaturesInSamples
<1> SUFFICES ASSUME FInv, NEW i \in DOMAIN used, used[i].term \in Words \ WordPairs,
                    ~isNeedClean(used[i].term), used[i].weight[1] > 0,
                    \A l \in SampleLines : l.label # "other"
             PROVE  /\ Cardinality(Having(i, 1)) = Total(used[i].term, SampleBag, {"pos"})
                    /\ Cardinality(Having(i, -1)) = Total(used[i].term, SampleBag, {"neg"})
  BY DEF FeaturesInSamples
<1> DEFINE t == used[i].term
<1>1. samples \in Samples
  BY DEF FInv, VInv
<1>2. Trained
  <2>1. used # <<>>
    <3>1. DOMAIN <<>> = {}
      OBVIOUS
    <3> QED
      BY <3>1
  <2> QED
    BY <2>1 DEF FInv
<1>3. PICK feats, junk : Begins(used, feats) /\ scale = Scaled(AllLines, feats, junk)
  BY <1>2 DEF Trained
<1>4. PICK n \in Nat, m \in Nat :
        /\ n <= m /\ DOMAIN used = 1 .. n /\ DOMAIN feats = 1 .. m
        /\ \A j \in 1 .. n : feats[j] = used[j]
  BY <1>3 DEF Begins
<1>5. i \in 1 .. m /\ feats[i] = used[i]
  BY <1>4
<1>7. ~isNeedClean(t) /\ feats[i].weight[1] > 0 /\ t = feats[i].term
  BY <1>5
<1>8. Single(t, Words)
  <2>1. t \notin WordPairs
    OBVIOUS
  <2> HIDE DEF t
  <2>2. \A x \in Words, y \in Words : x \o y \in WordPairs
    BY PairsAre
  <2>3. \A x \in Words, y \in Words : x \o y # t
    BY <2>1, <2>2, Zenon
  <2> QED
    BY <2>3, Zenon DEF Single
<1>9. TwoLabels
  BY DEF TwoLabels
<1>10. FeatureIs(i, t, feats, junk)
  <2> HIDE DEF t
  <2> QED
    BY <1>3, <1>4, <1>5, <1>7, <1>8 DEF FeatureIs
<1>11. /\ Cardinality(Having(i, 1)) = Total(t, SampleBag, {"pos"})
       /\ Cardinality(Having(i, -1)) = Total(t, SampleBag, {"neg"})
  <2> HIDE DEF t
  <2> QED
    BY <1>1, <1>9, <1>10, FeatureFound
<1> QED
  BY <1>11

\* A word of the samples that is a feature is found again when they are vectorized: as
\* many lines of each label have it as samples of that label.
THEOREM FeaturesFoundAgain == PredictSpec => []FeaturesInSamples
<1>1. PredictInit => FInv
  BY FileInitially DEF PredictInit
<1>2. ASSUME FInv, [PredictNext]_<<vars, predictVars>> PROVE FInv'
  <2>1. [Next]_vars
    BY <1>2 DEF PredictNext, Load, BatchPredict, Leave
  <2> QED
    BY <1>2, <2>1, FileStep
<1> QED
  BY <1>1, <1>2, FoundAgain, PTL DEF PredictSpec

-----------------------------------------------------------------------------
(* What a model says of a line.                                            *)

\* The features of a line that a model knows, and the bias.
Known(m, l) ==
  ({l.elements[j][1] : j \in DOMAIN l.elements} \cap 1 .. m.nr_feature)
    \cup IF m.bias THEN {m.nr_feature + 1} ELSE {}

\* The weights of a model.
LEMMA WeightsAre ==
  ASSUME NEW m \in Models
  PROVE  /\ m.nr_feature \in Nat /\ m.bias \in BOOLEAN
         /\ DOMAIN m.weight = 1 .. IF m.bias THEN m.nr_feature + 1 ELSE m.nr_feature
         /\ IsFiniteSet(DOMAIN m.weight)
         /\ \A i \in DOMAIN m.weight : m.weight[i] \in Int
<1>1. /\ m.nr_feature \in Nat /\ m.bias \in BOOLEAN
      /\ m.weight \in [1 .. IF m.bias THEN m.nr_feature + 1 ELSE m.nr_feature -> Int]
  BY ModelsAssumption
<1> DEFINE n == IF m.bias THEN m.nr_feature + 1 ELSE m.nr_feature
<1>2. n \in Nat
  BY <1>1
<1>3. IsFiniteSet(1 .. n)
  <2> HIDE DEF n
  <2> QED
    BY <1>2, FS_Interval
<1>4. DOMAIN m.weight = 1 .. n /\ \A i \in 1 .. n : m.weight[i] \in Int
  BY <1>1
<1> QED
  BY <1>1, <1>3, <1>4

LEMMA KnownAre ==
  ASSUME NEW m \in Models, NEW l
  PROVE  /\ Known(m, l) \in SUBSET DOMAIN m.weight /\ IsFiniteSet(Known(m, l))
         /\ \A i \in Known(m, l) : m.weight[i] \in Int
<1>1. Known(m, l) \in SUBSET DOMAIN m.weight
  BY WeightsAre DEF Known
<1> QED
  BY <1>1, WeightsAre, FS_Subset

\* Reference adds the weights of these.
LEMMA ReferenceSum ==
  ASSUME NEW m \in Models, NEW l
  PROVE  Reference(m, l) = m.label[IF SumOver(m.weight, Known(m, l)) > 0 THEN 1 ELSE 2]
<1> DEFINE E == Known(m, l)
           f == m.weight
           Eq(h) == h = [s \in SUBSET E |-> IF s = {} THEN 0 ELSE f[First(s)] + h[s \ {First(s)}]]
           iter == CHOOSE h : Eq(h)
<1>1. IsFiniteSet(E) /\ \A i \in E : f[i] \in Int
  BY KnownAre
<1>2. Reference(m, l) = m.label[IF iter[E] > 0 THEN 1 ELSE 2]
  BY DEF Reference, Known, MapThenSumSet, MapThenFoldSet, First
<1> HIDE DEF E, f
<1>3. \E h : Eq(h)
  <2>1. PICK g : Taken(g, f, E)
    BY <1>1, SumExists
  <2>2. Eq(g)
    BY <2>1 DEF Taken
  <2> QED
    BY <2>2
<1>4. Eq(iter)
  <2> HIDE DEF Eq
  <2> QED
    BY <1>3
<1> HIDE DEF iter
<1>5. Summed(iter, f, E)
  <2>1. iter = [s \in SUBSET E |-> IF s = {} THEN 0 ELSE f[First(s)] + iter[s \ {First(s)}]]
    BY <1>4
  <2> QED
    BY <1>1, <2>1, SumOf
<1>6. iter[E] = SumOver(f, E)
  BY <1>1, <1>5, SumIs
<1> QED
  BY <1>2, <1>6 DEF E, f

\* What predict_probability adds, and one step of it.
Decision(m, x) == FoldLeft(LAMBDA sum, i : sum + WeightOf(m, i), 0, x)
AddOp(m, x) == [p \in Int \X (1 .. Len(x)) |-> p[1] + WeightOf(m, x[p[2]])]

\* It adds from the first entry to the last.
LEMMA DecisionSteps ==
  ASSUME NEW m \in Models, NEW S, NEW x \in Seq(S)
  PROVE  \E f : Steps(f, AddOp(m, x), 0, Len(x), Int) /\ Decision(m, x) = f[Len(x)]
<1> DEFINE n == Len(x)
           V == Int
           op == AddOp(m, x)
           Eq(h) == h = [q \in SUBSET (1 .. n) |->
                      IF q = {} THEN 0 ELSE h[q \ {Max(q)}] + WeightOf(m, x[Max(q)])]
           iter == CHOOSE h : Eq(h)
<1>1. n \in Nat /\ DOMAIN x = 1 .. n
  BY LenProperties
<1>2. Decision(m, x) = iter[1 .. n]
  <2>1. Decision(m, x) = (CHOOSE h : h = [q \in SUBSET DOMAIN x |->
                      IF q = {} THEN 0 ELSE h[q \ {Max(q)}] + WeightOf(m, x[Max(q)])])[DOMAIN x]
    BY DEF Decision, FoldLeft, MapThenFoldSet
  <2> QED
    BY <1>1, <2>1
<1>3. \A w \in V, i \in 1 .. n : op[<<w, i>>] \in V /\ op[<<w, i>>] = w + WeightOf(m, x[i])
  <2> TAKE w \in V, i \in 1 .. n
  <2>1. op[<<w, i>>] = w + WeightOf(m, x[i])
    BY DEF AddOp
  <2>2. WeightOf(m, x[i]) \in Int
    BY WeightsAre DEF WeightOf
  <2> QED
    BY <2>1, <2>2
<1> HIDE DEF op
<1>4. \A q \in SUBSET (1 .. n) : q # {} => Max(q) \in 1 .. n
  BY <1>1, LastOf
<1>5. 0 \in V
  OBVIOUS
<1> HIDE DEF V, n
<1>6. \E h : Eq(h)
  <2>1. PICK h : Folded(h, op, 0, n, V)
    BY <1>1, <1>3, <1>5, FoldExists
  <2>2. h \in [SUBSET (1 .. n) -> V]
    BY <2>1 DEF Folded
  <2>3. ASSUME NEW q \in SUBSET (1 .. n), q # {}
        PROVE  h[q] = h[q \ {Max(q)}] + WeightOf(m, x[Max(q)])
    <3>1. h[q] = op[<<h[q \ {Max(q)}], Max(q)>>]
      BY <2>1, <2>3 DEF Folded
    <3>2. Max(q) \in 1 .. n /\ h[q \ {Max(q)}] \in V
      BY <1>4, <2>2, <2>3
    <3> QED
      BY <1>3, <3>1, <3>2
  <2>4. h[{}] = 0
    BY <2>1 DEF Folded
  <2>5. Eq(h)
    BY <2>2, <2>3, <2>4
  <2> QED
    BY <2>5
<1>7. Eq(iter)
  <2> HIDE DEF Eq
  <2> QED
    BY <1>6
<1> HIDE DEF iter
<1>8. iter[{}] = 0
  BY <1>7
<1>9. \A q \in SUBSET (1 .. n) : q # {} /\ iter[q \ {Max(q)}] \in V =>
        iter[q] = op[<<iter[q \ {Max(q)}], Max(q)>>]
  <2> SUFFICES ASSUME NEW q \in SUBSET (1 .. n), q # {}, iter[q \ {Max(q)}] \in V
               PROVE  iter[q] = op[<<iter[q \ {Max(q)}], Max(q)>>]
    OBVIOUS
  <2>1. iter[q] = iter[q \ {Max(q)}] + WeightOf(m, x[Max(q)])
    BY <1>7
  <2> QED
    BY <1>3, <1>4, <2>1
<1> HIDE DEF Eq
<1>10. Grows(iter, op, 0, n, V)
  <2>1. \A w \in V, i \in 1 .. n : op[<<w, i>>] \in V
    BY <1>3
  <2> QED
    BY <1>1, <1>5, <1>8, <1>9, <2>1 DEF Grows
<1>11. \E f : Steps(f, op, 0, n, V) /\ iter[1 .. n] = f[n]
  BY <1>10, FoldSteps
<1> QED
  BY <1>2, <1>11 DEF op, n, V

\* Of the entries, those with a weight are the numbers in K, each once.
Entries(m, x, K) ==
  /\ \A i \in 1 .. Len(x) : x[i] \in DOMAIN m.weight => x[i] \in K
  /\ \A k \in K : \E i \in 1 .. Len(x) : x[i] = k
  /\ \A i, j \in 1 .. Len(x) : i < j => x[i] # x[j]

\* Then their weights are added.
LEMMA DecisionIs ==
  ASSUME NEW m \in Models, NEW S, NEW x \in Seq(S), NEW K \in SUBSET DOMAIN m.weight, Entries(m, x, K)
  PROVE  Decision(m, x) = SumOver(m.weight, K)
<1> DEFINE n == Len(x)
           w == m.weight
           D == DOMAIN m.weight
           P(i) == {k \in K : \E j \in 1 .. i : x[j] = k}
<1>1. n \in Nat /\ IsFiniteSet(K) /\ \A k \in D : w[k] \in Int
  BY LenProperties, WeightsAre, FS_Subset
<1>2. PICK f : Steps(f, AddOp(m, x), 0, n, Int) /\ Decision(m, x) = f[n]
  BY DecisionSteps
<1>3. PICK g : Summed(g, w, K) /\ SumOver(w, K) = g[K]
  BY <1>1, SumIs
<1>4. /\ \A i \in 1 .. n : x[i] \in D => x[i] \in K
      /\ \A k \in K : \E i \in 1 .. n : x[i] = k
      /\ \A i, j \in 1 .. n : i < j => x[i] # x[j]
  BY DEF Entries
<1>5. ASSUME NEW i \in 1 .. n
      PROVE  f[i] = f[i - 1] + IF x[i] \in D THEN w[x[i]] ELSE 0
  <2>1. f[i - 1] \in Int /\ f[i] = AddOp(m, x)[<<f[i - 1], i>>]
    BY <1>1, <1>2 DEF Steps
  <2> QED
    BY <2>1 DEF AddOp, WeightOf
<1>6. f[0] = 0 /\ g[{}] = 0 /\ \A q \in SUBSET K : g[q] \in Int /\ \A k \in q : g[q] = w[k] + g[q \ {k}]
  BY <1>2, <1>3 DEF Steps, Summed
<1> HIDE DEF n, w, D
<1> DEFINE G == {i \in 0 .. n : f[i] = g[P(i)]}
<1>7. 0 \in G
  <2>1. P(0) = {}
    OBVIOUS
  <2> HIDE DEF P
  <2>2. f[0] = 0 /\ g[{}] = 0
    BY <1>6
  <2>3. g[P(0)] = g[{}]
    BY <2>1
  <2>4. 0 \in 0 .. n
    BY <1>1
  <2> QED
    BY <2>2, <2>3, <2>4
<1>8. ASSUME NEW i \in 1 .. n, i - 1 \in G PROVE i \in G
  <2>1. f[i - 1] = g[P(i - 1)] /\ i \in 0 .. n /\ i - 1 \in Nat
    BY <1>1, <1>8
  <2>2. \A j \in 1 .. i : j \in 1 .. i - 1 \/ j = i
    BY <1>1
  <2>3. \A j \in 1 .. i - 1 : j \in 1 .. i /\ j \in 1 .. n /\ j < i
    BY <1>1
  <2>4. i \in 1 .. i
    BY <1>1
  <2>5. CASE x[i] \in D
    <3>1. x[i] \in P(i) /\ P(i) \in SUBSET K
      BY <1>4, <2>4, <2>5
    <3>2. P(i) \ {x[i]} = P(i - 1)
      <4>1. ASSUME NEW k \in P(i) \ {x[i]} PROVE k \in P(i - 1)
        BY <2>2
      <4>2. ASSUME NEW k \in P(i - 1) PROVE k \in P(i) \ {x[i]}
        BY <1>4, <2>3
      <4> HIDE DEF P
      <4> QED
        BY <4>1, <4>2
    <3>3. P(i - 1) \in SUBSET K /\ w[x[i]] \in Int
      BY <1>1, <2>5
    <3> HIDE DEF P
    <3>4. g[P(i)] = w[x[i]] + g[P(i - 1)] /\ g[P(i - 1)] \in Int
      BY <1>6, <3>1, <3>2, <3>3
    <3>5. f[i] = g[P(i)]
      BY <1>5, <2>1, <2>5, <3>3, <3>4
    <3> QED
      BY <2>1, <3>5
  <2>6. CASE x[i] \notin D
    <3>1. P(i) = P(i - 1)
      <4>1. ASSUME NEW k \in P(i) PROVE k \in P(i - 1)
        <5>1. k \in D
          BY DEF D
        <5> QED
          BY <2>2, <2>6, <5>1
      <4>2. ASSUME NEW k \in P(i - 1) PROVE k \in P(i)
        BY <2>3
      <4> HIDE DEF P
      <4> QED
        BY <4>1, <4>2
    <3>2. g[P(i - 1)] \in Int
      BY <1>6
    <3> HIDE DEF P
    <3>3. f[i] = g[P(i)]
      BY <1>5, <2>1, <2>6, <3>1, <3>2
    <3> QED
      BY <2>1, <3>3
  <2> QED
    BY <2>5, <2>6
<1>9. P(n) = K
  BY <1>4
<1>10. n \in G
  <2>1. G \in SUBSET (0 .. n)
    OBVIOUS
  <2> HIDE DEF G
  <2> QED
    BY <1>1, <1>7, <1>8, <2>1, StepsHold
<1> QED
  BY <1>2, <1>3, <1>9, <1>10 DEF w

-----------------------------------------------------------------------------
(* A sample in its block.                                                  *)

\* The state of the loop over the elements of a line, at its start, after all
\* elements, and one step.
Blocks == [x : Seq(Int), size : Nat, over : BOOLEAN]
Start(size) == [x |-> <<>>, size |-> size, over |-> FALSE]
Filled(m, e, size) == FoldLeft(LAMBDA t, q : Entered(m, t, q), Start(size), e)
EnterOp(m, e, n) == [p \in Blocks \X (1 .. n) |-> Entered(m, p[1], e[p[2]])]

LEMMA EnteredIs ==
  ASSUME NEW m \in Models, NEW s \in Blocks, NEW e, e[1] \in Int
  PROVE  Entered(m, s, e) \in Blocks
<1> DEFINE larger == IF Short(s.x, s.size) THEN 2 * s.size ELSE s.size
<1>1. s.x \in Seq(Int) /\ s.size \in Nat /\ s = [x |-> s.x, size |-> s.size, over |-> s.over]
  BY DEF Blocks
<1>2. larger \in Nat /\ Append(s.x, e[1]) \in Seq(Int)
  BY <1>1, AppendProperties
<1>3. \/ Entered(m, s, e) = s
      \/ Entered(m, s, e) = [s EXCEPT !.x = Append(@, e[1]), !.size = larger]
      \/ Entered(m, s, e) = [s EXCEPT !.over = TRUE, !.size = larger]
  BY DEF Entered
<1> HIDE DEF larger
<1> QED
  BY <1>1, <1>2, <1>3 DEF Blocks

LEMMA FilledSteps ==
  ASSUME NEW m \in Models, NEW size \in Nat, NEW n \in Nat, NEW e, DOMAIN e = 1 .. n,
         \A j \in 1 .. n : e[j][1] \in Int
  PROVE  \E f : Steps(f, EnterOp(m, e, n), Start(size), n, Blocks) /\ Filled(m, e, size) = f[n]
<1> DEFINE b == Start(size)
           V == Blocks
           op == EnterOp(m, e, n)
           Eq(h) == h = [q \in SUBSET (1 .. n) |->
                      IF q = {} THEN b ELSE Entered(m, h[q \ {Max(q)}], e[Max(q)])]
           iter == CHOOSE h : Eq(h)
<1>1. b \in V
  BY DEF Start, Blocks
<1>2. Filled(m, e, size) = iter[1 .. n]
  <2>1. Filled(m, e, size) = (CHOOSE h : h = [q \in SUBSET DOMAIN e |->
                      IF q = {} THEN b ELSE Entered(m, h[q \ {Max(q)}], e[Max(q)])])[DOMAIN e]
    BY DEF Filled, FoldLeft, MapThenFoldSet
  <2> QED
    BY <2>1
<1>3. \A w \in V, i \in 1 .. n : op[<<w, i>>] \in V /\ op[<<w, i>>] = Entered(m, w, e[i])
  <2> TAKE w \in V, i \in 1 .. n
  <2>1. op[<<w, i>>] = Entered(m, w, e[i])
    BY DEF EnterOp
  <2>2. Entered(m, w, e[i]) \in V
    BY EnteredIs
  <2> QED
    BY <2>1, <2>2
<1> HIDE DEF op, b
<1>4. \A q \in SUBSET (1 .. n) : q # {} => Max(q) \in 1 .. n
  BY LastOf
<1> HIDE DEF V
<1>6. \E h : Eq(h)
  <2>1. PICK h : Folded(h, op, b, n, V)
    BY <1>1, <1>3, FoldExists
  <2>2. h \in [SUBSET (1 .. n) -> V]
    BY <2>1 DEF Folded
  <2>3. ASSUME NEW q \in SUBSET (1 .. n), q # {}
        PROVE  h[q] = Entered(m, h[q \ {Max(q)}], e[Max(q)])
    <3>1. h[q] = op[<<h[q \ {Max(q)}], Max(q)>>]
      BY <2>1, <2>3 DEF Folded
    <3>2. Max(q) \in 1 .. n /\ h[q \ {Max(q)}] \in V
      BY <1>4, <2>2, <2>3
    <3> QED
      BY <1>3, <3>1, <3>2
  <2>4. h[{}] = b
    BY <2>1 DEF Folded
  <2>5. Eq(h)
    BY <2>2, <2>3, <2>4
  <2> QED
    BY <2>5
<1>7. Eq(iter)
  <2> HIDE DEF Eq
  <2> QED
    BY <1>6
<1> HIDE DEF iter
<1>8. iter[{}] = b
  BY <1>7
<1>9. \A q \in SUBSET (1 .. n) : q # {} /\ iter[q \ {Max(q)}] \in V =>
        iter[q] = op[<<iter[q \ {Max(q)}], Max(q)>>]
  <2> SUFFICES ASSUME NEW q \in SUBSET (1 .. n), q # {}, iter[q \ {Max(q)}] \in V
               PROVE  iter[q] = op[<<iter[q \ {Max(q)}], Max(q)>>]
    OBVIOUS
  <2>1. iter[q] = Entered(m, iter[q \ {Max(q)}], e[Max(q)])
    BY <1>7
  <2> QED
    BY <1>3, <1>4, <2>1
<1> HIDE DEF Eq
<1>10. Grows(iter, op, b, n, V)
  <2>1. \A w \in V, i \in 1 .. n : op[<<w, i>>] \in V
    BY <1>3
  <2> QED
    BY <1>1, <1>8, <1>9, <2>1 DEF Grows
<1>11. \E f : Steps(f, op, b, n, V) /\ iter[1 .. n] = f[n]
  BY <1>10, FoldSteps
<1> QED
  BY <1>2, <1>11 DEF op, V, b

\* After j elements the block has the numbers of the first k of them, all those the
\* model knows, and room for two more.
Entering(m, e, s, j) ==
  \E k \in 0 .. j :
    /\ Len(s.x) = k /\ \A i \in 1 .. k : s.x[i] = e[i][1] /\ e[i][1] <= m.nr_feature
    /\ IF s.over THEN k < j /\ m.nr_feature < e[k + 1][1] ELSE k = j
    /\ 2 <= s.size /\ k <= s.size - 2

LEMMA EnteredNext ==
  ASSUME NEW m \in Models, NEW n \in Nat, NEW e, \A j \in 1 .. n : e[j][1] \in Int,
         NEW j \in 1 .. n, NEW s \in Blocks, Entering(m, e, s, j - 1)
  PROVE  Entering(m, e, Entered(m, s, e[j]), j)
<1> DEFINE larger == IF Short(s.x, s.size) THEN 2 * s.size ELSE s.size
           r == Entered(m, s, e[j])
<1>1. /\ s.x \in Seq(Int) /\ s.size \in Nat /\ s.over \in BOOLEAN
      /\ s = [x |-> s.x, size |-> s.size, over |-> s.over] /\ m.nr_feature \in Nat
  BY WeightsAre DEF Blocks
<1>2. PICK k \in 0 .. j - 1 :
        /\ Len(s.x) = k /\ \A i \in 1 .. k : s.x[i] = e[i][1] /\ e[i][1] <= m.nr_feature
        /\ IF s.over THEN k < j - 1 /\ m.nr_feature < e[k + 1][1] ELSE k = j - 1
        /\ 2 <= s.size /\ k <= s.size - 2
  BY DEF Entering
<1>3. k \in 0 .. j /\ k \in Nat /\ j \in Nat
  OBVIOUS
<1>4. larger \in Nat /\ 2 <= larger /\ k + 1 <= larger - 2
  <2>1. CASE Short(s.x, s.size)
    BY <1>1, <1>2, <2>1 DEF Short
  <2>2. CASE ~Short(s.x, s.size)
    BY <1>1, <1>2, <2>2 DEF Short
  <2> QED
    BY <2>1, <2>2
<1>5. CASE s.over
  <2>1. r = s
    BY <1>5 DEF Entered
  <2> HIDE DEF r
  <2>2. k < j
    BY <1>2, <1>3, <1>5
  <2>3. Entering(m, e, r, j)
    BY <1>2, <1>3, <1>5, <2>1, <2>2 DEF Entering
  <2> QED
    BY <2>3 DEF r
<1>6. CASE ~s.over /\ e[j][1] <= m.nr_feature
  <2>1. r = [s EXCEPT !.x = Append(@, e[j][1]), !.size = larger]
    BY <1>6 DEF Entered
  <2> HIDE DEF r, larger
  <2>2. r.x = Append(s.x, e[j][1]) /\ r.size = larger /\ r.over = s.over
    BY <1>1, <2>1
  <2>3. k + 1 = j
    BY <1>2, <1>6
  <2>4. Len(r.x) = j /\ \A i \in 1 .. j : r.x[i] = IF i = j THEN e[j][1] ELSE s.x[i]
    BY <1>1, <1>2, <2>2, <2>3, AppendProperties
  <2>5. \A i \in 1 .. j : i = j \/ i \in 1 .. k
    BY <2>3
  <2>6. \A i \in 1 .. j : r.x[i] = e[i][1] /\ e[i][1] <= m.nr_feature
    BY <1>2, <1>6, <2>4, <2>5
  <2>7. j \in 0 .. j /\ 2 <= r.size /\ j <= r.size - 2 /\ ~r.over
    BY <1>3, <1>4, <1>6, <2>2, <2>3
  <2>8. Entering(m, e, r, j)
    BY <2>4, <2>6, <2>7 DEF Entering
  <2> QED
    BY <2>8 DEF r
<1>7. CASE ~s.over /\ ~(e[j][1] <= m.nr_feature)
  <2>1. r = [s EXCEPT !.over = TRUE, !.size = larger]
    BY <1>7 DEF Entered
  <2> HIDE DEF r, larger
  <2>2. r.x = s.x /\ r.size = larger /\ r.over
    BY <1>1, <2>1
  <2>3. k + 1 = j
    BY <1>2, <1>7
  <2>4. k < j /\ m.nr_feature < e[k + 1][1]
    BY <1>1, <1>3, <1>7, <2>3
  <2>5. 2 <= r.size /\ k <= r.size - 2
    BY <1>3, <1>4, <2>2
  <2>6. Entering(m, e, r, j)
    BY <1>2, <1>3, <2>2, <2>4, <2>5 DEF Entering
  <2> QED
    BY <2>6 DEF r
<1> QED
  BY <1>5, <1>6, <1>7

\* So when all have been entered.
LEMMA FilledIs ==
  ASSUME NEW m \in Models, NEW size \in Nat, 2 <= size, NEW n \in Nat, NEW e, DOMAIN e = 1 .. n,
         \A j \in 1 .. n : e[j][1] \in Int
  PROVE  Filled(m, e, size) \in Blocks /\ Entering(m, e, Filled(m, e, size), n)
<1>1. PICK f : Steps(f, EnterOp(m, e, n), Start(size), n, Blocks) /\ Filled(m, e, size) = f[n]
  BY FilledSteps
<1>2. /\ f[0] = Start(size)
      /\ \A j \in 1 .. n : f[j - 1] \in Blocks /\ f[j] = Entered(m, f[j - 1], e[j])
  <2>1. ASSUME NEW j \in 1 .. n PROVE f[j - 1] \in Blocks /\ f[j] = Entered(m, f[j - 1], e[j])
    <3>1. f[j - 1] \in Blocks /\ f[j] = EnterOp(m, e, n)[<<f[j - 1], j>>]
      BY <1>1 DEF Steps
    <3> QED
      BY <3>1 DEF EnterOp
  <2> QED
    BY <1>1, <2>1 DEF Steps
<1> DEFINE G == {j \in 0 .. n : Entering(m, e, f[j], j)}
<1>3. 0 \in G
  <2>1. f[0].x = <<>> /\ f[0].size = size /\ f[0].over = FALSE
    BY <1>2 DEF Start
  <2>2. Len(<<>>) = 0 /\ 0 \in 0 .. 0 /\ 0 <= size - 2
    OBVIOUS
  <2>3. \A i \in 1 .. 0 : FALSE
    OBVIOUS
  <2>4. Entering(m, e, f[0], 0)
    BY <2>1, <2>2, <2>3 DEF Entering
  <2> QED
    BY <2>4
<1>4. ASSUME NEW j \in 1 .. n, j - 1 \in G PROVE j \in G
  <2>1. Entering(m, e, f[j - 1], j - 1)
    BY <1>4
  <2>2. Entering(m, e, f[j], j)
    BY <1>2, <2>1, EnteredNext
  <2> QED
    BY <2>2
<1>5. n \in G
  <2>1. G \in SUBSET (0 .. n)
    OBVIOUS
  <2> HIDE DEF G
  <2> QED
    BY <1>3, <1>4, <2>1, StepsHold
<1>6. f[n] \in Blocks
  BY <1>1 DEF Steps
<1> QED
  BY <1>1, <1>5, <1>6

\* A sample fits its block, and the model says of it what it says of the line.
LEMMA SampleIs ==
  ASSUME NEW m \in Models, NEW l, NEW I \in SUBSET (Nat \ {0}), Numbers(l.elements, I),
         NEW size \in Nat, 2 <= size
  PROVE  /\ SampleOf(m, l, size).size \in Nat /\ 2 <= SampleOf(m, l, size).size
         /\ ~(Len(SampleOf(m, l, size).x) > SampleOf(m, l, size).size)
         /\ predict_probability(m, SampleOf(m, l, size).x) = Reference(m, l)
<1> DEFINE e == l.elements
           nr == m.nr_feature
           s == Filled(m, e, size)
           tail == IF m.bias THEN <<nr + 1, End>> ELSE <<End>>
           y == s.x \o tail
           K == Known(m, l)
           r == SampleOf(m, l, size)
<1>1. PICK n \in Nat :
        /\ DOMAIN e = 1 .. n /\ \A j \in 1 .. n : e[j][1] \in I
        /\ \A j, k \in 1 .. n : j < k => e[j][1] < e[k][1]
  BY DEF Numbers
<1>2. nr \in Nat /\ m.bias \in BOOLEAN /\ DOMAIN m.weight = 1 .. IF m.bias THEN nr + 1 ELSE nr
  BY WeightsAre
<1>3. s \in Blocks /\ Entering(m, e, s, n)
  <2> HIDE DEF e
  <2>1. \A j \in 1 .. n : e[j][1] \in Int
    <3>1. \A i \in I : i \in Int
      OBVIOUS
    <3> QED
      BY <1>1, <3>1
  <2> QED
    BY <1>1, <2>1, FilledIs
<1>4. s.x \in Seq(Int) /\ s.size \in Nat
  BY <1>3 DEF Blocks
<1>5. r = [s EXCEPT !.x = @ \o tail]
  BY DEF SampleOf, Filled, Start
<1> HIDE DEF s, r, e
<1>6. r.x = y /\ r.size = s.size
  <2>1. s = [x |-> s.x, size |-> s.size, over |-> s.over]
    BY <1>3 DEF Blocks
  <2> HIDE DEF tail
  <2> QED
    BY <1>5, <2>1
<1>7. PICK k \in 0 .. n :
        /\ Len(s.x) = k /\ \A i \in 1 .. k : s.x[i] = e[i][1] /\ e[i][1] <= nr
        /\ IF s.over THEN k < n /\ nr < e[k + 1][1] ELSE k = n
        /\ 2 <= s.size /\ k <= s.size - 2
  BY <1>3 DEF Entering
<1> DEFINE q == Len(tail)
<1>8. /\ tail \in Seq(Int) /\ q \in 1 .. 2 /\ tail[q] = -1 /\ (m.bias => q = 2 /\ tail[1] = nr + 1)
      /\ (~m.bias => q = 1)
  BY <1>2 DEF End
<1> HIDE DEF tail, nr
<1>9. y \in Seq(Int) /\ Len(y) = k + q /\ \A i \in 1 .. k + q : y[i] = IF i <= k THEN s.x[i] ELSE tail[i - k]
  <2>1. /\ y \in Seq(Int) /\ Len(y) = Len(s.x) + Len(tail)
        /\ \A i \in 1 .. Len(s.x) + Len(tail) : y[i] = IF i <= Len(s.x) THEN s.x[i] ELSE tail[i - Len(s.x)]
    BY <1>4, <1>8, ConcatProperties
  <2> HIDE DEF y
  <2> QED
    BY <1>7, <2>1
<1> HIDE DEF y, q
<1>10. \A i \in 1 .. k : y[i] = e[i][1] /\ y[i] \in 1 .. nr
  <2> TAKE i \in 1 .. k
  <2>1. i \in 1 .. k + q /\ i <= k /\ i \in 1 .. n
    BY <1>8
  <2>2. y[i] = e[i][1] /\ e[i][1] <= nr /\ e[i][1] \in Nat \ {0}
    BY <1>1, <1>7, <1>9, <2>1
  <2> QED
    BY <1>2, <2>2
<1>11. y[k + q] = -1 /\ (m.bias => y[k + 1] = nr + 1)
  <2>1. k \in Nat /\ q \in 1 .. 2
    BY <1>8
  <2>2. \A i \in 1 .. q : k + i \in 1 .. k + q /\ ~(k + i <= k) /\ (k + i) - k = i
    BY <2>1
  <2>3. \A i \in 1 .. q : y[k + i] = tail[i]
    BY <1>9, <2>2
  <2>4. 1 \in 1 .. q /\ q \in 1 .. q
    BY <2>1
  <2> QED
    BY <1>8, <2>3, <2>4
<1>12. \A i \in 1 .. k + q : i \in 1 .. k \/ (m.bias /\ i = k + 1 /\ i < k + q) \/ i = k + q
  BY <1>2, <1>7, <1>8
<1>13. \A i \in 1 .. nr : i \in K <=> \E j \in 1 .. n : e[j][1] = i
  <2>1. K = ({e[j][1] : j \in 1 .. n} \cap 1 .. nr) \cup IF m.bias THEN {nr + 1} ELSE {}
    BY <1>1 DEF Known, e, nr
  <2>2. \A i \in 1 .. nr : i # nr + 1
    BY <1>2
  <2> HIDE DEF K
  <2> QED
    BY <2>1, <2>2
<1>14. (m.bias <=> nr + 1 \in K) /\ \A i \in K : i \in 1 .. nr \/ (m.bias /\ i = nr + 1)
  <2>1. nr + 1 \notin 1 .. nr
    BY <1>2
  <2> QED
    BY <1>1, <2>1 DEF Known, e, nr
<1>15. K \in SUBSET DOMAIN m.weight
  BY KnownAre
<1> HIDE DEF K
<1>16. Entries(m, y, K)
  <2>1. ASSUME NEW i \in 1 .. k + q, y[i] \in DOMAIN m.weight PROVE y[i] \in K
    <3>1. CASE i \in 1 .. k
      BY <1>7, <1>10, <1>13, <3>1
    <3>2. CASE m.bias /\ i = k + 1
      BY <1>11, <1>14, <3>2
    <3>3. CASE i = k + q
      BY <1>2, <1>11, <2>1, <3>3
    <3> QED
      BY <1>12, <3>1, <3>2, <3>3
  <2>2. ASSUME NEW h \in K PROVE \E i \in 1 .. k + q : y[i] = h
    <3>1. CASE h \in 1 .. nr
      <4>1. PICK j \in 1 .. n : e[j][1] = h
        BY <1>13, <3>1
      <4>2. h <= nr /\ h \in Nat
        BY <1>2, <3>1
      <4>3. j <= k
        <5>1. ASSUME k < j PROVE FALSE
          <6>1. s.over /\ nr < e[k + 1][1] /\ k + 1 \in 1 .. n
            BY <1>7, <5>1
          <6>2. e[k + 1][1] \in Nat /\ e[k + 1][1] <= h
            <7>1. e[k + 1][1] \in Nat
              BY <1>1, <6>1
            <7>2. k + 1 = j \/ k + 1 < j
              BY <5>1
            <7> QED
              BY <1>1, <4>1, <4>2, <6>1, <7>1, <7>2
          <6> QED
            BY <1>2, <4>2, <6>1, <6>2
        <5> QED
          BY <5>1
      <4>4. j \in 1 .. k /\ j \in 1 .. k + q
        BY <1>8, <4>3
      <4> QED
        BY <1>10, <4>1, <4>4
    <3>2. CASE m.bias /\ h = nr + 1
      <4>1. k + 1 \in 1 .. k + q
        BY <1>8
      <4> QED
        BY <1>11, <3>2, <4>1
    <3> QED
      BY <1>14, <3>1, <3>2
  <2>3. ASSUME NEW i \in 1 .. k + q, NEW j \in 1 .. k + q, i < j PROVE y[i] # y[j]
    <3>1. CASE j \in 1 .. k
      <4>1. i \in 1 .. k /\ i \in 1 .. n /\ j \in 1 .. n
        BY <2>3, <3>1
      <4>2. y[i] < y[j] /\ y[i] \in 1 .. nr
        BY <1>1, <1>10, <2>3, <3>1, <4>1
      <4> QED
        BY <1>2, <4>2
    <3>2. CASE m.bias /\ j = k + 1 /\ j < k + q
      <4>1. i \in 1 .. k
        BY <2>3, <3>2
      <4> QED
        BY <1>2, <1>10, <1>11, <3>2, <4>1
    <3>3. CASE j = k + q
      <4>1. i # k + q
        BY <1>8, <2>3, <3>3
      <4>2. y[i] \in 1 .. nr \/ y[i] = nr + 1
        BY <1>10, <1>11, <1>12, <4>1
      <4> QED
        BY <1>2, <1>11, <3>3, <4>2
    <3> QED
      BY <1>12, <3>1, <3>2, <3>3
  <2> QED
    BY <1>9, <2>1, <2>2, <2>3 DEF Entries
<1>17. Decision(m, y) = SumOver(m.weight, K)
  BY <1>9, <1>15, <1>16, DecisionIs
<1>18. predict_probability(m, y) = Reference(m, l)
  <2>1. predict_probability(m, y) = m.label[IF Decision(m, y) > 0 THEN 1 ELSE 2]
    BY DEF predict_probability, Decision
  <2> QED
    BY <1>17, <2>1, ReferenceSum DEF K
<1>19. ~(Len(y) > s.size)
  BY <1>4, <1>7, <1>8, <1>9
<1> QED
  BY <1>4, <1>6, <1>7, <1>18, <1>19 DEF r

-----------------------------------------------------------------------------
(* The lines of a file.                                                    *)

\* A line has numbers in ascending order.
Lined(l) == \E I \in SUBSET (Nat \ {0}) : Numbers(l.elements, I)

\* The state of the loop over lines, at its start, and one step.
Tallies == [size : Nat \ {0, 1}, overrun : BOOLEAN, correct : Nat]
NoTally == [size |-> max_nr_attr, overrun |-> FALSE, correct |-> 0]
TallyOp(m, lines) == [p \in Tallies \X (1 .. Len(lines)) |-> LinePredicted(m, p[1], lines[p[2]])]

\* A line is counted when the model says of it the label it has.
LEMMA TalliedIs ==
  ASSUME NEW m \in Models, NEW l, Lined(l), NEW s \in Tallies
  PROVE  /\ LinePredicted(m, s, l) \in Tallies
         /\ LinePredicted(m, s, l).overrun = s.overrun
         /\ LinePredicted(m, s, l).correct = s.correct + IF Reference(m, l) = l.label THEN 1 ELSE 0
<1> DEFINE y == SampleOf(m, l, s.size)
           c == s.correct + IF predict_probability(m, y.x) = l.label THEN 1 ELSE 0
           o == s.overrun \/ Len(y.x) > y.size
           r == LinePredicted(m, s, l)
<1>1. s.size \in Nat /\ 2 <= s.size /\ s.overrun \in BOOLEAN /\ s.correct \in Nat
  BY DEF Tallies
<1>2. PICK I \in SUBSET (Nat \ {0}) : Numbers(l.elements, I)
  BY DEF Lined
<1>3. /\ y.size \in Nat /\ 2 <= y.size /\ ~(Len(y.x) > y.size)
      /\ predict_probability(m, y.x) = Reference(m, l)
  BY <1>1, <1>2, SampleIs
<1>4. r = [size |-> y.size, overrun |-> o, correct |-> c]
  BY DEF LinePredicted
<1> HIDE DEF y, r
<1>5. o = s.overrun /\ c = s.correct + (IF Reference(m, l) = l.label THEN 1 ELSE 0)
  BY <1>1, <1>3
<1> HIDE DEF o, c
<1>6. c \in Nat /\ o \in BOOLEAN /\ y.size \in Nat \ {0, 1}
  BY <1>1, <1>3, <1>5
<1>7. r \in Tallies /\ r.overrun = o /\ r.correct = c
  BY <1>4, <1>6 DEF Tallies
<1> QED
  BY <1>5, <1>7 DEF r

LEMMA PredictedSteps ==
  ASSUME NEW m \in Models, NEW S, NEW lines \in Seq(S), \A i \in 1 .. Len(lines) : Lined(lines[i])
  PROVE  \E f : Steps(f, TallyOp(m, lines), NoTally, Len(lines), Tallies)
                 /\ Predicted(m, lines) = f[Len(lines)]
<1> DEFINE n == Len(lines)
           b == NoTally
           V == Tallies
           op == TallyOp(m, lines)
           Eq(h) == h = [q \in SUBSET (1 .. n) |->
                      IF q = {} THEN b ELSE LinePredicted(m, h[q \ {Max(q)}], lines[Max(q)])]
           iter == CHOOSE h : Eq(h)
<1>1. b \in V /\ n \in Nat /\ DOMAIN lines = 1 .. n
  BY LenProperties, ModelsAssumption DEF NoTally, Tallies
<1>2. Predicted(m, lines) = iter[1 .. n]
  <2>1. Predicted(m, lines) = (CHOOSE h : h = [q \in SUBSET DOMAIN lines |->
                      IF q = {} THEN b ELSE LinePredicted(m, h[q \ {Max(q)}], lines[Max(q)])])[DOMAIN lines]
    BY DEF Predicted, NoTally, FoldLeft, MapThenFoldSet
  <2> QED
    BY <1>1, <2>1
<1>3. \A w \in V, i \in 1 .. n : op[<<w, i>>] \in V /\ op[<<w, i>>] = LinePredicted(m, w, lines[i])
  <2> TAKE w \in V, i \in 1 .. n
  <2>1. op[<<w, i>>] = LinePredicted(m, w, lines[i])
    BY DEF TallyOp
  <2>2. LinePredicted(m, w, lines[i]) \in V
    BY TalliedIs
  <2> QED
    BY <2>1, <2>2
<1> HIDE DEF op, b, n
<1>4. \A q \in SUBSET (1 .. n) : q # {} => Max(q) \in 1 .. n
  BY <1>1, LastOf
<1> HIDE DEF V
<1>6. \E h : Eq(h)
  <2>1. PICK h : Folded(h, op, b, n, V)
    BY <1>1, <1>3, FoldExists
  <2>2. h \in [SUBSET (1 .. n) -> V]
    BY <2>1 DEF Folded
  <2>3. ASSUME NEW q \in SUBSET (1 .. n), q # {}
        PROVE  h[q] = LinePredicted(m, h[q \ {Max(q)}], lines[Max(q)])
    <3>1. h[q] = op[<<h[q \ {Max(q)}], Max(q)>>]
      BY <2>1, <2>3 DEF Folded
    <3>2. Max(q) \in 1 .. n /\ h[q \ {Max(q)}] \in V
      BY <1>4, <2>2, <2>3
    <3> QED
      BY <1>3, <3>1, <3>2
  <2>4. h[{}] = b
    BY <2>1 DEF Folded
  <2>5. Eq(h)
    BY <2>2, <2>3, <2>4
  <2> QED
    BY <2>5
<1>7. Eq(iter)
  <2> HIDE DEF Eq
  <2> QED
    BY <1>6
<1> HIDE DEF iter
<1>8. iter[{}] = b
  BY <1>7
<1>9. \A q \in SUBSET (1 .. n) : q # {} /\ iter[q \ {Max(q)}] \in V =>
        iter[q] = op[<<iter[q \ {Max(q)}], Max(q)>>]
  <2> SUFFICES ASSUME NEW q \in SUBSET (1 .. n), q # {}, iter[q \ {Max(q)}] \in V
               PROVE  iter[q] = op[<<iter[q \ {Max(q)}], Max(q)>>]
    OBVIOUS
  <2>1. iter[q] = LinePredicted(m, iter[q \ {Max(q)}], lines[Max(q)])
    BY <1>7
  <2> QED
    BY <1>3, <1>4, <2>1
<1> HIDE DEF Eq
<1>10. Grows(iter, op, b, n, V)
  <2>1. \A w \in V, i \in 1 .. n : op[<<w, i>>] \in V
    BY <1>3
  <2> QED
    BY <1>1, <1>8, <1>9, <2>1 DEF Grows
<1>11. \E f : Steps(f, op, b, n, V) /\ iter[1 .. n] = f[n]
  BY <1>10, FoldSteps
<1> QED
  BY <1>2, <1>11 DEF op, V, b, n

\* The lines of a file of which the model says the label they have.
Right(m, lines) == {i \in 1 .. Len(lines) : Reference(m, lines[i]) = lines[i].label}

\* These are counted, and no sample is written behind its block.
LEMMA PredictedIs ==
  ASSUME NEW m \in Models, NEW S, NEW lines \in Seq(S), \A i \in 1 .. Len(lines) : Lined(lines[i])
  PROVE  ~Predicted(m, lines).overrun /\ Predicted(m, lines).correct = Cardinality(Right(m, lines))
<1> DEFINE n == Len(lines)
           N == {i \in Nat : Reference(m, lines[i]) = lines[i].label}
           k(i) == Cardinality(N \cap 1 .. i)
<1>1. n \in Nat
  BY LenProperties
<1>2. PICK f : Steps(f, TallyOp(m, lines), NoTally, n, Tallies) /\ Predicted(m, lines) = f[n]
  BY PredictedSteps
<1>3. /\ f[0] = NoTally
      /\ \A i \in 1 .. n : f[i - 1] \in Tallies /\ f[i] = LinePredicted(m, f[i - 1], lines[i])
  <2>1. ASSUME NEW i \in 1 .. n
        PROVE  f[i - 1] \in Tallies /\ f[i] = LinePredicted(m, f[i - 1], lines[i])
    <3>1. f[i - 1] \in Tallies /\ f[i] = TallyOp(m, lines)[<<f[i - 1], i>>]
      <4>1. i - 1 \in 0 .. n
        BY <1>1
      <4> HIDE DEF n
      <4> QED
        BY <1>2, <4>1 DEF Steps
    <3> QED
      BY <3>1 DEF TallyOp
  <2> QED
    BY <1>2, <2>1 DEF Steps
<1> DEFINE Ok(i) == f[i].overrun = FALSE /\ f[i].correct = k(i)
           G == {i \in 0 .. n : Ok(i)}
<1>4. Ok(0)
  <2>1. k(0) = 0
    <3> HIDE DEF N
    <3> QED
      BY CountUpto
  <2> HIDE DEF k
  <2> QED
    BY <1>3, <2>1 DEF NoTally
<1>5. ASSUME NEW i \in 1 .. n, Ok(i - 1) PROVE Ok(i)
  <2>1. /\ f[i].overrun = f[i - 1].overrun
        /\ f[i].correct = f[i - 1].correct + IF Reference(m, lines[i]) = lines[i].label THEN 1 ELSE 0
    BY <1>3, TalliedIs
  <2>2. k(i) = k(i - 1) + IF i \in N THEN 1 ELSE 0
    <3>1. i \in Nat /\ i # 0
      BY <1>1
    <3> HIDE DEF N
    <3> QED
      BY <3>1, CountUpto
  <2>3. i \in N <=> Reference(m, lines[i]) = lines[i].label
    OBVIOUS
  <2> HIDE DEF k, N
  <2> QED
    BY <1>5, <2>1, <2>2, <2>3
<1>6. n \in G
  <2> HIDE DEF Ok
  <2>1. G \in SUBSET (0 .. n) /\ 0 \in G /\ \A i \in 1 .. n : i - 1 \in G => i \in G
    BY <1>1, <1>4, <1>5
  <2> HIDE DEF G
  <2> QED
    BY <1>1, <2>1, StepsHold
<1>7. N \cap 1 .. n = Right(m, lines)
  <2>1. \A i \in 1 .. n : i \in Nat
    OBVIOUS
  <2> QED
    BY <2>1 DEF Right
<1> HIDE DEF N
<1> QED
  BY <1>2, <1>6, <1>7

-----------------------------------------------------------------------------
(* Batches.                                                                *)

\* A file that was written for the samples, by some features.
Training(b) ==
  \E n \in Nat : \E feats, junk : DOMAIN feats = 1 .. n /\ b = Scaled(AllLines, feats, junk)

\* Lines of it whose label nobody set.
Unset(b) == {i \in DOMAIN b : b[i].label \notin {1, -1}}

\* Its lines have their numbers in ascending order, and no more have such a label than
\* samples have another one than the two.
LEMMA TrainingIs ==
  ASSUME samples \in Samples, NEW b, Training(b)
  PROVE  /\ \E S : b \in Seq(S)
         /\ \A i \in 1 .. Len(b) : Lined(b[i])
         /\ Cardinality(Unset(b))
              <= Cardinality({i \in DOMAIN AllLines : AllLines[i].label \notin {"pos", "neg"}})
<1>0. PICK m \in Nat : \E feats, junk : DOMAIN feats = 1 .. m /\ b = Scaled(AllLines, feats, junk)
  BY DEF Training
<1>1. PICK feats, junk : DOMAIN feats = 1 .. m /\ b = Scaled(AllLines, feats, junk)
  BY <1>0
<1> DEFINE lines == AllLines
           n == Len(AllLines)
           s == Records(lines, feats, junk)
           I == Written(lines, feats)
           P == {r \in {s[x] : x \in 1 .. n} \cup {b[k] : k \in 1 .. Len(b)} : r.label \notin {1, -1}}
           J == {i \in 1 .. n : lines[i].label \notin {"pos", "neg"}}
<1>2. n \in Nat /\ DOMAIN lines = 1 .. n
  BY SampleWords
<1>3. PICK at, S : Picks(at, b, s, I, S)
  BY <1>1, <1>2, ScaledPicks
<1>4. b \in Seq(S) /\ DOMAIN b = 1 .. Len(b) /\ \A k \in 1 .. Len(b) : at[k] \in I /\ b[k] = s[at[k]]
  BY <1>3, LenProperties DEF Picks
<1>5. I \subseteq 1 .. n
  BY <1>2 DEF Written
<1>6. \A x \in 1 .. n : /\ s[x].label = Label(lines[x].label, junk[x])
                        /\ s[x].elements = elements(lines[x].words, feats)
  BY <1>2 DEF Records
<1> HIDE DEF s, I, lines, n
<1>7. ASSUME NEW k \in 1 .. Len(b) PROVE Lined(b[k])
  <2>1. at[k] \in 1 .. n /\ b[k] = s[at[k]]
    BY <1>4, <1>5
  <2> DEFINE w == lines[at[k]].words
  <2>2. b[k].elements = elements(w, feats)
    BY <1>6, <2>1
  <2> HIDE DEF w
  <2>3. Numbers(b[k].elements, Positive(w, feats))
    BY <1>1, <2>2, ElementsAre
  <2>4. Positive(w, feats) \in SUBSET (Nat \ {0})
    BY <1>1 DEF Positive
  <2> QED
    BY <2>3, <2>4 DEF Lined
<1>8. CountAt(s, I, P) = CountIn(b, P)
  BY <1>3, PickedCount
<1>9. Unset(b) = {k \in 1 .. Len(b) : b[k] \in P}
  BY <1>4 DEF Unset
<1>10. {x \in I : s[x] \in P} \in SUBSET J
  <2>1. ASSUME NEW x \in I, s[x] \in P PROVE x \in J
    <3>1. x \in 1 .. n /\ Label(lines[x].label, junk[x]) \notin {1, -1}
      BY <1>5, <1>6, <2>1
    <3> QED
      BY <3>1 DEF Label
  <2> HIDE DEF J, P
  <2> QED
    BY <2>1
<1> HIDE DEF P
<1>11. IsFiniteSet(J)
  <2>1. IsFiniteSet(1 .. n)
    BY <1>2, FS_Interval
  <2> QED
    BY <2>1, FS_Subset
<1> HIDE DEF J
<1>12. Cardinality({x \in I : s[x] \in P}) <= Cardinality(J)
  BY <1>10, <1>11, FS_Subset
<1>13. Cardinality(Unset(b)) <= Cardinality(J)
  BY <1>8, <1>9, <1>12 DEF CountAt, CountIn
<1> QED
  BY <1>2, <1>4, <1>7, <1>13 DEF J, lines

\* Some places, and some of one more file.
LEMMA MorePlaces ==
  ASSUME NEW Q, IsFiniteSet(Q), NEW k, \A p \in Q : p[1] # k, NEW J, IsFiniteSet(J)
  PROVE  /\ IsFiniteSet(Q \cup ({k} \X J))
         /\ Cardinality(Q \cup ({k} \X J)) = Cardinality(Q) + Cardinality(J)
<1> DEFINE R == {k} \X J
           f == [j \in J |-> <<k, j>>]
<1>1. IsFiniteSet(R) /\ Cardinality(R) = Cardinality(J)
  <2>1. \A j \in J : f[j] \in R
    OBVIOUS
  <2>2. \A i, j \in J : f[i] = f[j] => i = j
    OBVIOUS
  <2>3. \A r \in R : \E j \in J : f[j] = r
    OBVIOUS
  <2> HIDE DEF R, f
  <2> QED
    BY <2>1, <2>2, <2>3, OneToOne
<1>2. Q \cap R = {}
  OBVIOUS
<1> HIDE DEF R
<1>3. IsFiniteSet(Q \cup R) /\ Cardinality(Q \cup R) = Cardinality(Q) + Cardinality(R) - Cardinality(Q \cap R)
  BY <1>1, FS_Union
<1>4. Cardinality(Q) \in Nat /\ Cardinality(R) \in Nat /\ Cardinality({}) = 0
  BY <1>1, FS_CardinalityType, FS_EmptySet
<1>5. IsFiniteSet(Q \cup R) /\ Cardinality(Q \cup R) = Cardinality(Q) + Cardinality(J)
  <2> DEFINE x == Cardinality(Q \cap R)
             q == Cardinality(Q)
             r == Cardinality(R)
  <2>1. x = 0 /\ q \in Nat /\ r \in Nat /\ r = Cardinality(J)
    BY <1>1, <1>2, <1>4
  <2>2. Cardinality(Q \cup R) = q + r - x
    BY <1>3
  <2> HIDE DEF x, q, r
  <2>3. q + r - x = q + r
    BY <2>1
  <2> QED
    BY <1>3, <2>1, <2>2, <2>3 DEF q
<1> QED
  BY <1>5 DEF R

\* The places of some files, and those of lines of which the model says their label.
PlacesIn(bs) == UNION {{k} \X DOMAIN bs[k] : k \in DOMAIN bs}
RightIn(m, bs) == {p \in PlacesIn(bs) : Reference(m, bs[p[1]][p[2]]) = bs[p[1]][p[2]].label}

\* One more file comes behind the others.
LEMMA AppendIs ==
  ASSUME NEW S, NEW bs \in Seq(S), NEW b
  PROVE  /\ Len(bs) \in Nat /\ DOMAIN bs = 1 .. Len(bs) /\ DOMAIN Append(bs, b) = 1 .. Len(bs) + 1
         /\ Append(bs, b)[Len(bs) + 1] = b /\ \A j \in 1 .. Len(bs) : Append(bs, b)[j] = bs[j]
<1> DEFINE n == Len(bs)
<1>1. n \in Nat /\ DOMAIN bs = 1 .. n
  BY LenProperties
<1>2. bs \in Seq(S \cup {b})
  <2>1. \A j \in 1 .. n : bs[j] \in S \cup {b}
    BY <1>1, ElementOfSeq
  <2>2. bs = [j \in 1 .. n |-> bs[j]]
    BY <1>1
  <2> HIDE DEF n
  <2> QED
    BY <1>1, <2>1, <2>2, IsASeq
<1> QED
  BY <1>1, <1>2, AppendProperties

\* One more file has its lines.
LEMMA BatchMore ==
  ASSUME NEW m, NEW S, NEW bs \in Seq(S), NEW T, NEW b \in Seq(T), IsFiniteSet(PlacesIn(bs))
  PROVE  /\ IsFiniteSet(PlacesIn(Append(bs, b)))
         /\ Cardinality(PlacesIn(Append(bs, b))) = Cardinality(PlacesIn(bs)) + Len(b)
         /\ Cardinality(RightIn(m, Append(bs, b)))
              = Cardinality(RightIn(m, bs)) + Cardinality(Right(m, b))
<1> DEFINE n == Len(bs)
           cs == Append(bs, b)
           k == n + 1
           D == 1 .. Len(b)
           Rb == Right(m, b)
           Q == PlacesIn(bs)
           Qc == PlacesIn(cs)
           R == RightIn(m, bs)
           Rc == RightIn(m, cs)
<1>1. n \in Nat /\ DOMAIN bs = 1 .. n /\ DOMAIN b = D /\ Len(b) \in Nat
  BY LenProperties
<1>2. DOMAIN cs = 1 .. k /\ cs[k] = b /\ \A j \in 1 .. n : cs[j] = bs[j]
  BY AppendIs
<1> HIDE DEF cs, n
<1>3. 1 .. k = 1 .. n \cup {k} /\ \A j \in 1 .. n : j # k
  BY <1>1
<1> HIDE DEF k
<1>4. /\ \A p : p \in Q <=> \E j \in 1 .. n : p \in {j} \X DOMAIN bs[j]
      /\ \A p : p \in Qc <=> \E j \in 1 .. k : p \in {j} \X DOMAIN cs[j]
  BY <1>1, <1>2 DEF PlacesIn
<1>5. /\ \A p \in R : p \in Q
      /\ \A p \in Q : p \in R <=> Reference(m, bs[p[1]][p[2]]) = bs[p[1]][p[2]].label
      /\ \A p \in Rc : p \in Qc
      /\ \A p \in Qc : p \in Rc <=> Reference(m, cs[p[1]][p[2]]) = cs[p[1]][p[2]].label
  BY DEF RightIn
<1>6. Rb \in SUBSET D /\ \A i \in D : i \in Rb <=> Reference(m, b[i]) = b[i].label
  BY DEF Right
<1> HIDE DEF Q, Qc, R, Rc, Rb
<1>7. \A p \in Q : p[1] \in 1 .. n /\ p[1] # k
  BY <1>3, <1>4
<1>8. Qc = Q \cup ({k} \X D)
  <2>1. \A p : p \in Qc <=> p \in Q \/ p \in {k} \X D
    <3> TAKE p
    <3>1. (\E j \in 1 .. k : p \in {j} \X DOMAIN cs[j])
            <=> (\E j \in 1 .. n : p \in {j} \X DOMAIN cs[j]) \/ p \in {k} \X DOMAIN cs[k]
      BY <1>3
    <3>2. (\E j \in 1 .. n : p \in {j} \X DOMAIN cs[j]) <=> (\E j \in 1 .. n : p \in {j} \X DOMAIN bs[j])
      BY <1>2
    <3>3. DOMAIN cs[k] = D
      BY <1>1, <1>2
    <3> QED
      BY <1>4, <3>1, <3>2, <3>3
  <2> QED
    BY <2>1
<1>9. Rc = R \cup ({k} \X Rb)
  <2>1. ASSUME NEW p \in Q PROVE p \in Rc <=> p \in R
    <3>1. p \in Qc /\ cs[p[1]] = bs[p[1]]
      BY <1>2, <1>7, <1>8
    <3> QED
      BY <1>5, <3>1
  <2>2. ASSUME NEW i \in D PROVE <<k, i>> \in Rc <=> i \in Rb
    <3>1. <<k, i>> \in Qc /\ <<k, i>>[1] = k /\ <<k, i>>[2] = i /\ cs[k] = b
      BY <1>2, <1>8
    <3>2. <<k, i>> \in Rc <=> Reference(m, b[i]) = b[i].label
      BY <1>5, <3>1
    <3> QED
      BY <1>6, <3>2
  <2>3. ASSUME NEW p \in Rc PROVE p \in R \cup ({k} \X Rb)
    <3>1. p \in Q \/ p \in {k} \X D
      BY <1>5, <1>8
    <3>2. CASE p \in Q
      BY <2>1, <3>2
    <3>3. CASE p \in {k} \X D
      <4>1. PICK i \in D : p = <<k, i>>
        BY <3>3
      <4> QED
        BY <2>2, <4>1
    <3> QED
      BY <3>1, <3>2, <3>3
  <2>4. ASSUME NEW p \in R PROVE p \in Rc
    BY <1>5, <2>1
  <2>5. ASSUME NEW p \in {k} \X Rb PROVE p \in Rc
    <3>1. PICK i \in Rb : p = <<k, i>>
      OBVIOUS
    <3> QED
      BY <1>6, <2>2, <3>1
  <2> QED
    BY <2>3, <2>4, <2>5
<1>10. IsFiniteSet(D) /\ Cardinality(D) = Len(b)
  <2> DEFINE l == Len(b)
  <2>1. l \in Nat
    BY <1>1
  <2> HIDE DEF l
  <2>2. IsFiniteSet(1 .. l) /\ Cardinality(1 .. l) = l
    BY <2>1, FS_Interval
  <2> QED
    BY <2>2 DEF l
<1>11. IsFiniteSet(Q)
  BY DEF Q
<1> HIDE DEF D
<1>12. IsFiniteSet(Rb) /\ IsFiniteSet(R) /\ \A p \in R : p[1] # k
  <2>1. R \in SUBSET Q
    BY <1>5
  <2> QED
    BY <1>5, <1>6, <1>7, <1>10, <1>11, <2>1, FS_Subset
<1>13. IsFiniteSet(Qc) /\ Cardinality(Qc) = Cardinality(Q) + Cardinality(D)
  BY <1>7, <1>8, <1>10, <1>11, MorePlaces
<1>14. Cardinality(Rc) = Cardinality(R) + Cardinality(Rb)
  BY <1>9, <1>12, MorePlaces
<1> QED
  BY <1>10, <1>13, <1>14 DEF Q, Qc, R, Rc, Rb, cs

\* The inductive invariant of the batches.
BInv ==
  /\ FInv
  /\ predictor \in {"none", "ready"}
  /\ model # Missing => model \in Models
  /\ predictor = "none" => model = Missing
  /\ model = Missing => batches = <<>> /\ correct = 0
  /\ Listed(batches) /\ \A k \in DOMAIN batches : Training(batches[k])
  /\ IsFiniteSet(PlacesIn(batches)) /\ total = Cardinality(PlacesIn(batches))
  /\ model # Missing => correct = Cardinality(RightIn(model, batches))

LEMMA NoPlaces ==
  /\ PlacesIn(<<>>) = {} /\ IsFiniteSet(PlacesIn(<<>>)) /\ Cardinality(PlacesIn(<<>>)) = 0
  /\ \A m : Cardinality(RightIn(m, <<>>)) = 0
  /\ Listed(<<>>) /\ \A k \in DOMAIN <<>> : FALSE
<1>1. DOMAIN <<>> = {} /\ <<>> \in Seq({})
  OBVIOUS
<1>2. PlacesIn(<<>>) = {} /\ \A m : RightIn(m, <<>>) = {}
  BY <1>1 DEF PlacesIn, RightIn
<1>3. IsFiniteSet({}) /\ Cardinality({}) = 0
  BY FS_EmptySet
<1> QED
  BY <1>1, <1>2, <1>3 DEF Listed

\* Of a program without batches.
LEMMA NoBatches ==
  ASSUME FInv, predictor \in {"none", "ready"}, model # Missing => model \in Models,
         predictor = "none" => model = Missing, batches = <<>>, correct = 0, total = 0
  PROVE  BInv
BY NoPlaces DEF BInv

\* The files of the program, and what it has counted, stay while it does something else.
LEMMA BatchesStay ==
  ASSUME BInv, FInv', [Next]_vars, UNCHANGED predictVars PROVE BInv'
<1>1. AllLines' = AllLines
  BY DEF Next, Program, VocabNext, genPosVocab, genNegVocab, genVocab, clear, getFeatures, Stop,
         getfeatures, loadFeature, vectorize, Again, Restart, vars, vocabVars, history, AllLines
<1>2. UNCHANGED <<predictor, model, batches, correct, total>>
  BY DEF predictVars
<1>3. ASSUME NEW b, Training(b) PROVE Training(b)'
  BY <1>1, <1>3 DEF Training
<1> QED
  BY <1>2, <1>3 DEF BInv

\* A file is predicted.
LEMMA BatchStep ==
  ASSUME BInv, FInv', BatchPredict PROVE BInv'
<1>1. /\ UNCHANGED <<vars, model>> /\ predictor = "ready" /\ scale # <<>> /\ model # Missing
      /\ predictor' = IF Predicted(model, scale).overrun THEN "written behind the block" ELSE "ready"
      /\ correct' = correct + Predicted(model, scale).correct
      /\ total' = total + Len(scale)
      /\ batches' = Append(batches, scale)
  BY DEF BatchPredict
<1>2. /\ samples \in Samples /\ model \in Models /\ FInv
      /\ Listed(batches) /\ \A k \in DOMAIN batches : Training(batches[k])
      /\ IsFiniteSet(PlacesIn(batches)) /\ total = Cardinality(PlacesIn(batches))
      /\ correct = Cardinality(RightIn(model, batches))
  BY <1>1 DEF BInv, FInv, VInv
<1>3. Training(scale)
  <2>1. Trained
    BY <1>1, <1>2 DEF FInv
  <2> QED
    BY <2>1 DEF Trained, Begins, Training
<1>4. PICK T : scale \in Seq(T)
  BY <1>2, <1>3, TrainingIs
<1>5. \A i \in 1 .. Len(scale) : Lined(scale[i])
  BY <1>2, <1>3, TrainingIs
<1>6. PICK S : batches \in Seq(S)
  BY <1>2 DEF Listed
<1>7. predictor' = "ready" /\ correct' = correct + Cardinality(Right(model, scale))
  BY <1>1, <1>2, <1>4, <1>5, PredictedIs
<1>8. /\ IsFiniteSet(PlacesIn(batches')) /\ total' = Cardinality(PlacesIn(batches'))
      /\ correct' = Cardinality(RightIn(model, batches'))
  BY <1>1, <1>2, <1>4, <1>6, <1>7, BatchMore
<1>9. Listed(batches')
  <2>1. Listed(<<scale>>)
    <3>1. <<scale>> \in Seq({scale})
      OBVIOUS
    <3> QED
      BY <3>1 DEF Listed
  <2>2. Append(batches, scale) = batches \o <<scale>>
    BY <1>6
  <2> QED
    BY <1>1, <1>2, <2>1, <2>2, ListsJoined
<1>10. \A k \in DOMAIN batches' : Training(batches'[k])
  <2>1. \A k \in DOMAIN batches' : batches'[k] = scale \/ (k \in DOMAIN batches /\ batches'[k] = batches[k])
    <3> DEFINE n == Len(batches)
               cs == Append(batches, scale)
    <3>1. /\ n \in Nat /\ DOMAIN batches = 1 .. n /\ DOMAIN cs = 1 .. n + 1
          /\ cs[n + 1] = scale /\ \A j \in 1 .. n : cs[j] = batches[j]
      BY <1>6, AppendIs
    <3>2. batches' = cs
      BY <1>1
    <3> HIDE DEF n, cs
    <3>3. \A k \in 1 .. n + 1 : k = n + 1 \/ k \in 1 .. n
      BY <3>1
    <3> QED
      BY <3>1, <3>2, <3>3
  <2> QED
    BY <1>2, <1>3, <2>1
<1>11. ASSUME NEW b, Training(b) PROVE Training(b)'
  <2>1. AllLines' = AllLines
    BY <1>1 DEF AllLines, vars, vocabVars
  <2> QED
    BY <1>11, <2>1 DEF Training
<1> QED
  BY <1>1, <1>2, <1>7, <1>8, <1>9, <1>10, <1>11 DEF BInv

LEMMA BatchesStep ==
  ASSUME BInv, [PredictNext]_<<vars, predictVars>> PROVE BInv'
<1>1. [Next]_vars
  BY DEF PredictNext, Load, BatchPredict, Leave
<1>2. FInv /\ FInv'
  BY <1>1, FileStep DEF BInv
<1>3. CASE Load
  <2>1. predictor = "none" /\ predictor' = "ready" /\ model' \in Models \cup {Missing}
        /\ UNCHANGED <<correct, total, batches>>
    BY <1>3 DEF Load
  <2>2. batches = <<>> /\ correct = 0 /\ total = 0
    BY <2>1, NoPlaces DEF BInv
  <2> QED
    BY <1>2, <2>1, <2>2, NoPlaces DEF BInv
<1>4. CASE BatchPredict
  BY <1>2, <1>4, BatchStep
<1>5. CASE Leave
  BY <1>2, <1>5, NoPlaces DEF Leave, BInv
<1>6. CASE [Next]_vars /\ UNCHANGED predictVars
  BY <1>2, <1>6, BatchesStay
<1> QED
  BY <1>3, <1>4, <1>5, <1>6 DEF PredictNext

\* What a program has counted is what its files have.
LEMMA BatchesCounted == BInv => BatchCounted
<1> SUFFICES ASSUME BInv PROVE BatchCounted
  OBVIOUS
<1>1. /\ samples \in Samples /\ predictor \in {"none", "ready"}
      /\ Listed(batches) /\ \A k \in DOMAIN batches : Training(batches[k])
      /\ total = Cardinality(PlacesIn(batches))
      /\ model # Missing => correct = Cardinality(RightIn(model, batches))
  BY DEF BInv, FInv, VInv
<1>2. Predictions = PlacesIn(batches)
      /\ RightIn(model, batches) = {p \in Predictions : Reference(model, LineAt(p)) = LineAt(p).label}
  BY DEF Predictions, PlacesIn, RightIn, LineAt
<1>3. ASSUME NEW b \in ToSet(batches)
      PROVE  Cardinality(Unset(b)) <= Cardinality({i \in DOMAIN AllLines : AllLines[i].label \notin {"pos", "neg"}})
  <2>1. PICK k \in DOMAIN batches : b = batches[k]
    BY DEF ToSet, Range
  <2> QED
    BY <1>1, <2>1, TrainingIs
<1> QED
  BY <1>1, <1>2, <1>3 DEF BatchCounted, Unset, AllLines

\* No sample is written behind its block, whatever its file and the model; and what a
\* program counts is, for all its files, the lines that the model says its label of.
THEOREM BatchesAreCounted == PredictSpec => []BatchCounted
<1>1. PredictInit => BInv
  BY FileInitially, NoBatches DEF PredictInit
<1>2. BInv /\ [PredictNext]_<<vars, predictVars>> => BInv'
  BY BatchesStep
<1> QED
  BY <1>1, <1>2, BatchesCounted, PTL DEF PredictSpec
=============================================================================
