---------------------------- MODULE RatingProofs ----------------------------
(***************************************************************************)
(* Machine-checked proofs about Rating, for any number of threads, blocks  *)
(* and features and any weights: the threads share the heap without losing *)
(* or mixing samples, and a text is answered with the sum of its weights.  *)
(***************************************************************************)
EXTENDS Rating, FiniteSetTheorems, FunctionTheorems, SequenceTheorems, WellFoundedInduction, TLAPS

-----------------------------------------------------------------------------
(* Sums.                                                                   *)

First(s) == CHOOSE x \in s : TRUE

\* g is the sum of f over each subset of S, taken element after element: of the
\* first ones, or of any.
Taken(g, f, S) ==
  /\ g \in [SUBSET S -> Int]
  /\ g[{}] = 0
  /\ \A s \in SUBSET S : s # {} => g[s] = f[First(s)] + g[s \ {First(s)}]
Summed(g, f, S) ==
  /\ g \in [SUBSET S -> Int]
  /\ g[{}] = 0
  /\ \A s \in SUBSET S : \A x \in s : g[s] = f[x] + g[s \ {x}]

\* Among sets of elements of a finite set one has no other inside.
LEMMA SmallestSet ==
  ASSUME NEW S, IsFiniteSet(S), NEW B \in SUBSET SUBSET S, B # {}
  PROVE  \E s \in B : \A r \in B : r \subseteq s => r = s
<1>1. B \subseteq FiniteSubsetsOf(S)
  BY FS_Subset DEF FiniteSubsetsOf
<1>2. PICK s \in B : \A r \in B : ~(<<r, s>> \in StrictSubsetOrdering(S))
  BY <1>1, WFMin, FS_StrictSubsetOrderingWellFounded
<1>3. \A r \in B : r \subseteq s => r = s
  BY <1>2 DEF StrictSubsetOrdering
<1> QED
  BY <1>3

\* Among natural numbers one is least.
LEMMA LeastNumber ==
  ASSUME NEW S \in SUBSET Nat, S # {}
  PROVE  \E n \in S : \A m \in S : n <= m
<1>1. PICK k \in S : TRUE
  OBVIOUS
<1> DEFINE K == 0 .. k
           B == {0 .. m : m \in {i \in S : i <= k}}
<1>2. IsFiniteSet(K)
  BY FS_Interval
<1>3. B \in SUBSET SUBSET K /\ B # {}
  <2>1. \A m \in {i \in S : i <= k} : 0 .. m \subseteq K
    OBVIOUS
  <2>2. k \in {i \in S : i <= k}
    OBVIOUS
  <2> QED
    BY <2>1, <2>2
<1>4. PICK s \in B : \A r \in B : r \subseteq s => r = s
  <2> HIDE DEF B, K
  <2> QED
    BY <1>2, <1>3, SmallestSet
<1>5. PICK n \in S : n <= k /\ s = 0 .. n
  BY <1>4
<1>6. \A m \in S : n <= m
  <2> SUFFICES ASSUME NEW m \in S, m < n PROVE FALSE
    OBVIOUS
  <2>1. m <= k
    BY <1>5
  <2>2. 0 .. m \in B
    BY <2>1
  <2>3. 0 .. m \subseteq 0 .. n /\ n \in 0 .. n /\ n \notin 0 .. m
    OBVIOUS
  <2> QED
    BY <1>4, <1>5, <2>2, <2>3
<1> QED
  BY <1>6

\* Every function to the integers has its sums over the subsets of a finite set.
LEMMA SumExists ==
  ASSUME NEW S, IsFiniteSet(S), NEW f, \A x \in S : f[x] \in Int
  PROVE  \E g : Taken(g, f, S)
<1> DEFINE Upto(m, g) ==
             /\ g \in [SUBSET S -> Int] /\ g[{}] = 0
             /\ \A s \in SUBSET S : s # {} /\ Cardinality(s) <= m =>
                  g[s] = f[First(s)] + g[s \ {First(s)}]
           Bad == {m \in Nat : ~\E g : Upto(m, g)}
<1>1. \A s \in SUBSET S : IsFiniteSet(s) /\ Cardinality(s) \in Nat
  BY FS_Subset, FS_CardinalityType
<1>2. \A s \in SUBSET S : s # {} =>
        /\ First(s) \in s /\ s \ {First(s)} \in SUBSET S
        /\ Cardinality(s \ {First(s)}) = Cardinality(s) - 1
  <2> SUFFICES ASSUME NEW s \in SUBSET S, s # {}
               PROVE  First(s) \in s /\ Cardinality(s \ {First(s)}) = Cardinality(s) - 1
    OBVIOUS
  <2>1. First(s) \in s
    BY DEF First
  <2> QED
    BY <1>1, <2>1, FS_RemoveElement
<1>3. 0 \notin Bad
  <2> DEFINE g == [s \in SUBSET S |-> 0]
  <2>1. \A s \in SUBSET S : s # {} => Cardinality(s) > 0
    BY <1>1, FS_EmptySet
  <2>2. Upto(0, g)
    BY <1>1, <2>1
  <2> QED
    BY <2>2
<1>4. ASSUME NEW m \in Nat, m \notin Bad PROVE m + 1 \notin Bad
  <2>1. PICK g : Upto(m, g)
    BY <1>4
  <2> DEFINE h == [s \in SUBSET S |-> IF Cardinality(s) = m + 1
                                       THEN f[First(s)] + g[s \ {First(s)}] ELSE g[s]]
  <2>2. Cardinality({}) = 0
    BY FS_EmptySet
  <2>3. \A s \in SUBSET S : h[s] \in Int
    <3> TAKE s \in SUBSET S
    <3>1. CASE Cardinality(s) = m + 1
      <4>1. s # {}
        BY <2>2, <3>1
      <4>2. f[First(s)] \in Int /\ g[s \ {First(s)}] \in Int
        BY <1>2, <2>1, <4>1
      <4> QED
        BY <3>1, <4>2
    <3>2. CASE Cardinality(s) # m + 1
      BY <2>1, <3>2
    <3> QED
      BY <3>1, <3>2
  <2>4. h[{}] = 0
    BY <2>1, <2>2
  <2>5. ASSUME NEW s \in SUBSET S, s # {}, Cardinality(s) <= m + 1
        PROVE  h[s] = f[First(s)] + h[s \ {First(s)}]
    <3>1. s \ {First(s)} \in SUBSET S /\ Cardinality(s \ {First(s)}) # m + 1
      BY <1>1, <1>2, <2>5
    <3>2. h[s \ {First(s)}] = g[s \ {First(s)}]
      BY <3>1
    <3>3. CASE Cardinality(s) = m + 1
      BY <3>2, <3>3
    <3>4. CASE Cardinality(s) # m + 1
      <4>1. h[s] = g[s] /\ Cardinality(s) <= m
        BY <1>1, <2>5, <3>4
      <4> QED
        BY <2>1, <2>5, <3>2, <4>1
    <3> QED
      BY <3>3, <3>4
  <2> HIDE DEF h
  <2>6. h \in [SUBSET S -> Int]
    <3>1. h = [s \in SUBSET S |-> h[s]]
      BY DEF h
    <3> QED
      BY <2>3, <3>1
  <2>7. Upto(m + 1, h)
    BY <2>4, <2>5, <2>6
  <2> QED
    BY <2>7
<1>5. Bad = {}
  <2> SUFFICES ASSUME Bad # {} PROVE FALSE
    OBVIOUS
  <2>1. PICK n \in Bad : \A m \in Bad : n <= m
    <3>1. Bad \in SUBSET Nat
      OBVIOUS
    <3> HIDE DEF Bad
    <3> QED
      BY <3>1, LeastNumber
  <2>2. n \in Nat /\ n # 0
    BY <1>3
  <2>3. n - 1 \in Nat /\ n - 1 \notin Bad
    <3>1. n - 1 \in Nat /\ ~(n <= n - 1)
      BY <2>2
    <3> HIDE DEF Bad
    <3> QED
      BY <2>1, <3>1
  <2>4. (n - 1) + 1 \notin Bad
    <3> HIDE DEF Bad
    <3> QED
      BY <1>4, <2>3
  <2>5. (n - 1) + 1 = n
    BY <2>2
  <2> HIDE DEF Bad
  <2> QED
    BY <2>1, <2>4, <2>5
<1>6. PICK g : Upto(Cardinality(S), g)
  BY <1>1, <1>5
<1>7. \A s \in SUBSET S : Cardinality(s) <= Cardinality(S)
  BY FS_Subset
<1>8. Taken(g, f, S)
  BY <1>6, <1>7 DEF Taken
<1> QED
  BY <1>8

\* It does not matter which element comes first.
LEMMA SumAny ==
  ASSUME NEW S, IsFiniteSet(S), NEW f, \A x \in S : f[x] \in Int, NEW g, Taken(g, f, S)
  PROVE  Summed(g, f, S)
<1> DEFINE B == {s \in SUBSET S : \E x \in s : g[s] # f[x] + g[s \ {x}]}
<1> SUFFICES ASSUME B # {} PROVE FALSE
  BY DEF Summed, Taken
<1>1. PICK s \in B : \A r \in B : r \subseteq s => r = s
  <2>1. B \in SUBSET SUBSET S
    OBVIOUS
  <2> HIDE DEF B
  <2> QED
    BY <2>1, SmallestSet
<1>2. PICK x \in s : g[s] # f[x] + g[s \ {x}]
  BY <1>1
<1> DEFINE c == First(s)
<1>3. s \in SUBSET S /\ c \in s
  BY <1>2 DEF First
<1>4. g[s] = f[c] + g[s \ {c}]
  BY <1>3 DEF Taken
<1> HIDE DEF c
<1>5. c # x
  BY <1>2, <1>4
<1>6. s \ {c} \notin B /\ s \ {x} \notin B
  <2>1. s \ {c} \subseteq s /\ s \ {c} # s /\ s \ {x} \subseteq s /\ s \ {x} # s
    BY <1>3
  <2> HIDE DEF B
  <2> QED
    BY <1>1, <2>1
<1>7. g[s \ {c}] = f[x] + g[(s \ {c}) \ {x}] /\ g[s \ {x}] = f[c] + g[(s \ {x}) \ {c}]
  BY <1>3, <1>5, <1>6
<1>8. (s \ {c}) \ {x} = (s \ {x}) \ {c}
  OBVIOUS
<1>9. f[x] \in Int /\ f[c] \in Int /\ g[(s \ {x}) \ {c}] \in Int
  BY <1>3 DEF Taken
<1>10. f[c] + (f[x] + g[(s \ {x}) \ {c}]) = f[x] + (f[c] + g[(s \ {x}) \ {c}])
  BY <1>9
<1> QED
  BY <1>2, <1>4, <1>7, <1>8, <1>10

\* What is computed by taking element after element is the sum, since there is one.
LEMMA SumOf ==
  ASSUME NEW S, IsFiniteSet(S), NEW f, \A x \in S : f[x] \in Int, NEW g,
         g = [s \in SUBSET S |-> IF s = {} THEN 0 ELSE f[First(s)] + g[s \ {First(s)}]]
  PROVE  Summed(g, f, S)
<1>1. \A s \in SUBSET S : g[s] = IF s = {} THEN 0 ELSE f[First(s)] + g[s \ {First(s)}]
  OBVIOUS
<1>2. \A s \in SUBSET S : s # {} => First(s) \in s /\ s \ {First(s)} \in SUBSET S
  BY DEF First
<1> DEFINE B == {s \in SUBSET S : g[s] \notin Int}
<1>3. B = {}
  <2> SUFFICES ASSUME B # {} PROVE FALSE
    OBVIOUS
  <2>1. PICK s \in B : \A r \in B : r \subseteq s => r = s
    <3>1. B \in SUBSET SUBSET S
      OBVIOUS
    <3> HIDE DEF B
    <3> QED
      BY <3>1, SmallestSet
  <2>2. s \in SUBSET S /\ s # {}
    BY <1>1
  <2>3. s \ {First(s)} \notin B
    BY <1>2, <2>1, <2>2
  <2>4. g[s \ {First(s)}] \in Int /\ f[First(s)] \in Int
    BY <1>2, <2>2, <2>3
  <2>5. g[s] = f[First(s)] + g[s \ {First(s)}]
    BY <1>1, <2>2
  <2>6. g[s] \in Int
    BY <2>4, <2>5
  <2> QED
    BY <2>6
<1>4. g \in [SUBSET S -> Int]
  <2>1. g = [s \in SUBSET S |-> g[s]]
    <3>1. DOMAIN g = SUBSET S
      OBVIOUS
    <3> QED
      BY <1>1, <3>1
  <2> QED
    BY <1>3, <2>1
<1>5. Taken(g, f, S)
  BY <1>1, <1>4 DEF Taken
<1> QED
  BY <1>5, SumAny

\* The elements of S that count, those that e takes to T, are those of T: each counts
\* what its image does, and no two have the same.
Carried(e, f, S, w, T) ==
  /\ \A i \in S : f[i] \in Int /\ f[i] = IF e[i] \in T THEN w[e[i]] ELSE 0
  /\ \A x \in T : w[x] \in Int
  /\ \A i, j \in S : e[i] \in T /\ e[i] = e[j] => i = j

Image(e, S, T) == {e[i] : i \in S} \cap T

\* Then their sums are the same.
LEMMA SumImage ==
  ASSUME NEW S, IsFiniteSet(S), NEW f, NEW g, Summed(g, f, S),
         NEW T, IsFiniteSet(T), NEW w, NEW h, Summed(h, w, T),
         NEW e, Carried(e, f, S, w, T)
  PROVE  g[S] = h[Image(e, S, T)]
<1>0. /\ \A i \in S : f[i] \in Int /\ f[i] = IF e[i] \in T THEN w[e[i]] ELSE 0
      /\ \A x \in T : w[x] \in Int
      /\ \A i, j \in S : e[i] \in T /\ e[i] = e[j] => i = j
  BY DEF Carried
<1> DEFINE Into(s) == {e[i] : i \in s} \cap T
           B == {s \in SUBSET S : g[s] # h[Into(s)]}
<1> SUFFICES ASSUME B # {} PROVE FALSE
  <2>1. S \in SUBSET S /\ Into(S) = Image(e, S, T)
    BY DEF Image
  <2> QED
    BY <2>1
<1>1. PICK s \in B : \A r \in B : r \subseteq s => r = s
  <2>1. B \in SUBSET SUBSET S
    OBVIOUS
  <2> HIDE DEF B
  <2> QED
    BY <2>1, SmallestSet
<1>2. s \in SUBSET S /\ g[s] # h[Into(s)]
  OBVIOUS
<1>3. s # {}
  <2>1. Into({}) = {} /\ h[{}] = 0 /\ g[{}] = 0
    BY DEF Summed
  <2> HIDE DEF Into
  <2> QED
    BY <1>2, <2>1
<1>4. PICK i \in s : TRUE
  BY <1>3
<1> DEFINE r == s \ {i}
<1>5. r \in SUBSET S /\ g[s] = f[i] + g[r]
  BY <1>2 DEF Summed
<1>6. g[r] = h[Into(r)]
  <2>1. r \notin B
    <3>1. r \subseteq s /\ r # s
      OBVIOUS
    <3> HIDE DEF B, r
    <3> QED
      BY <1>1, <3>1
  <2> QED
    BY <1>5, <2>1
<1>7. Into(r) \in SUBSET T /\ Into(s) \in SUBSET T
  OBVIOUS
<1>8. f[i] = IF e[i] \in T THEN w[e[i]] ELSE 0
  BY <1>0, <1>2
<1>9. h[Into(s)] = f[i] + h[Into(r)]
  <2>1. CASE e[i] \in T
    <3>1. e[i] \in Into(s)
      BY <2>1
    <3>2. Into(r) = Into(s) \ {e[i]}
      BY <1>0, <1>2, <2>1
    <3>3. h[Into(s)] = w[e[i]] + h[Into(s) \ {e[i]}]
      <4> HIDE DEF Into
      <4> QED
        BY <1>7, <3>1 DEF Summed
    <3>4. f[i] = w[e[i]]
      BY <1>8, <2>1
    <3> HIDE DEF Into, r
    <3> QED
      BY <3>2, <3>3, <3>4
  <2>2. CASE e[i] \notin T
    <3>1. Into(r) = Into(s) /\ f[i] = 0
      BY <1>2, <1>8, <2>2
    <3>2. h[Into(r)] \in Int
      BY <1>7 DEF Summed
    <3> HIDE DEF Into, r
    <3> QED
      BY <3>1, <3>2
  <2> QED
    BY <2>1, <2>2
<1> QED
  BY <1>2, <1>5, <1>6, <1>9

\* What the model says of a sample is the sum of the weights of the entries it
\* knows.
LEMMA DecisionSum ==
  ASSUME NEW entries \in Seq(Int), nr_feature \in 1 .. Loaded
  PROVE  \E f, g :
           /\ f = [i \in DOMAIN entries |->
                     IF entries[i] \in 1 .. Known THEN Weight[entries[i]] ELSE 0]
           /\ Summed(g, f, DOMAIN entries) /\ \A i \in DOMAIN entries : f[i] \in Int
           /\ Decision(entries) = g[DOMAIN entries] /\ Decision(entries) \in Int
<1> DEFINE D == DOMAIN entries
           f == [i \in D |-> IF entries[i] \in 1 .. Known THEN Weight[entries[i]] ELSE 0]
           iter == CHOOSE h : h = [s \in SUBSET D |->
                     IF s = {} THEN 0
                     ELSE (IF entries[First(s)] \in 1 .. Known THEN Weight[entries[First(s)]]
                           ELSE 0) + h[s \ {First(s)}]]
<1>1. IsFiniteSet(D)
  BY FS_Interval
<1>2. \A i \in D : f[i] \in Int
  BY SizesAssumption, WeightAssumption DEF Known
<1>3. PICK g : Taken(g, f, D)
  <2> HIDE DEF D, f
  <2> QED
    BY <1>1, <1>2, SumExists
<1>4. \A s \in SUBSET D : s # {} => First(s) \in D
  BY DEF First
<1>5. g = [s \in SUBSET D |->
             IF s = {} THEN 0
             ELSE (IF entries[First(s)] \in 1 .. Known THEN Weight[entries[First(s)]]
                   ELSE 0) + g[s \ {First(s)}]]
  <2>1. g = [s \in SUBSET D |-> g[s]]
    BY <1>3 DEF Taken
  <2>2. \A s \in SUBSET D :
          g[s] = IF s = {} THEN 0
                 ELSE (IF entries[First(s)] \in 1 .. Known THEN Weight[entries[First(s)]]
                       ELSE 0) + g[s \ {First(s)}]
    BY <1>3, <1>4 DEF Taken
  <2> HIDE DEF D
  <2> QED
    BY <2>1, <2>2
<1>6. iter = [s \in SUBSET D |->
                IF s = {} THEN 0
                ELSE (IF entries[First(s)] \in 1 .. Known THEN Weight[entries[First(s)]]
                      ELSE 0) + iter[s \ {First(s)}]]
  <2> HIDE DEF D
  <2> QED
    BY <1>5
<1>7. Decision(entries) = iter[D]
  BY DEF Decision, FoldSeq, FoldFunction, FoldFunctionOnSet, MapThenFoldSet, First
<1> HIDE DEF iter
<1>8. iter = [s \in SUBSET D |-> IF s = {} THEN 0 ELSE f[First(s)] + iter[s \ {First(s)}]]
  BY <1>4, <1>6
<1>9. Summed(iter, f, D)
  <2> HIDE DEF D, f
  <2> QED
    BY <1>1, <1>2, <1>8, SumOf
<1>10. iter[D] \in Int
  BY <1>9 DEF Summed
<1> QED
  BY <1>2, <1>7, <1>9, <1>10

\* So is the sum over a set of features.
LEMMA WeightSum ==
  ASSUME NEW R \in SUBSET (1 .. Loaded + 1)
  PROVE  \E h : /\ Summed(h, Weight, R) /\ Total(R) = h[R]
                /\ IsFiniteSet(R) /\ \A i \in R : Weight[i] \in Int
<1> DEFINE iter == CHOOSE h : h = [s \in SUBSET R |->
                     IF s = {} THEN 0 ELSE Weight[First(s)] + h[s \ {First(s)}]]
<1>1. IsFiniteSet(R) /\ \A i \in R : Weight[i] \in Int
  <2>1. IsFiniteSet(1 .. Loaded + 1)
    BY SizesAssumption, FS_Interval
  <2>2. IsFiniteSet(R)
    BY <2>1, FS_Subset
  <2> QED
    BY <2>2, WeightAssumption
<1>2. PICK g : Taken(g, Weight, R)
  BY <1>1, SumExists
<1>3. g = [s \in SUBSET R |-> IF s = {} THEN 0 ELSE Weight[First(s)] + g[s \ {First(s)}]]
  <2>1. g = [s \in SUBSET R |-> g[s]]
    BY <1>2 DEF Taken
  <2>2. \A s \in SUBSET R :
          g[s] = IF s = {} THEN 0 ELSE Weight[First(s)] + g[s \ {First(s)}]
    BY <1>2 DEF Taken
  <2> QED
    BY <2>1, <2>2
<1>4. iter = [s \in SUBSET R |-> IF s = {} THEN 0 ELSE Weight[First(s)] + iter[s \ {First(s)}]]
  BY <1>3
<1>5. Total(R) = iter[R]
  BY DEF Total, MapThenSumSet, MapThenFoldSet, First
<1> HIDE DEF iter
<1>6. Summed(iter, Weight, R)
  BY <1>1, <1>4, SumOf
<1> QED
  BY <1>1, <1>5, <1>6

\* The largest that unknown entries may amount to is a number.
LEMMA LargestInt == Largest \in Int
<1> DEFINE size == [i \in DOMAIN Weight |-> IF Weight[i] < 0 THEN -Weight[i] ELSE Weight[i]]
           R == {IF Weight[i] < 0 THEN -Weight[i] ELSE Weight[i] : i \in DOMAIN Weight}
           iter == CHOOSE h : h = [s \in SUBSET R |->
                     IF s = {} THEN 0 ELSE First(s) + h[s \ {First(s)}]]
           same == [x \in R |-> x]
<1>1. DOMAIN Weight = 1 .. Loaded + 1 /\ IsFiniteSet(1 .. Loaded + 1)
  BY SizesAssumption, WeightAssumption, FS_Interval
<1>2. size \in Surjection(DOMAIN Weight, R)
  BY DEF Surjection
<1>3. IsFiniteSet(R)
  <2> HIDE DEF size, R
  <2> QED
    BY <1>1, <1>2, FS_Surjection
<1>4. R \subseteq Int /\ \A x \in R : same[x] \in Int
  BY WeightAssumption
<1>5. PICK g : Taken(g, same, R)
  <2> HIDE DEF same, R
  <2> QED
    BY <1>3, <1>4, SumExists
<1>6. \A s \in SUBSET R : s # {} => same[First(s)] = First(s)
  BY DEF First
<1> HIDE DEF R, same, size
<1>7. g = [s \in SUBSET R |-> IF s = {} THEN 0 ELSE First(s) + g[s \ {First(s)}]]
  <2>1. g = [s \in SUBSET R |-> g[s]]
    BY <1>5 DEF Taken
  <2>2. \A s \in SUBSET R : g[s] = IF s = {} THEN 0 ELSE First(s) + g[s \ {First(s)}]
    BY <1>5, <1>6 DEF Taken
  <2> QED
    BY <2>1, <2>2
<1>8. iter = [s \in SUBSET R |-> IF s = {} THEN 0 ELSE First(s) + iter[s \ {First(s)}]]
  BY <1>7
<1>9. Largest = iter[R]
  BY DEF Largest, SumSet, FoldSet, MapThenFoldSet, First, R
<1> HIDE DEF iter
<1>10. iter = [s \in SUBSET R |-> IF s = {} THEN 0 ELSE same[First(s)] + iter[s \ {First(s)}]]
  BY <1>6, <1>8
<1>11. Summed(iter, same, R)
  BY <1>3, <1>4, <1>10, SumOf
<1> QED
  BY <1>9, <1>11 DEF Summed

-----------------------------------------------------------------------------
(* The order of the features.                                              *)

\* How many numbers of a set come before n.
Rank(s, n) == Cardinality({m \in s : m < n})

\* The numbers of a set in their order are all of them, in their order.
LEMMA Ascends ==
  ASSUME NEW s \in SUBSET (1 .. Loaded)
  PROVE  /\ IsFiniteSet(s) /\ Cardinality(s) \in Nat /\ Cardinality(s) <= Loaded
         /\ Ascending(s) \in [1 .. Cardinality(s) -> s]
         /\ Ascending(s) \in Seq(1 .. Loaded) /\ Len(Ascending(s)) = Cardinality(s)
         /\ \A k \in s : \E i \in 1 .. Cardinality(s) : Ascending(s)[i] = k
         /\ \A i, j \in 1 .. Cardinality(s) : Ascending(s)[i] = Ascending(s)[j] => i = j
         /\ \A i \in 1 .. Cardinality(s) : i <= Ascending(s)[i]
<1> DEFINE n == Cardinality(s)
           rank == [k \in s |-> Rank(s, k)]
<1> DEFINE L == 1 .. Loaded
<1>0. s \subseteq Nat \ {0}
  BY SizesAssumption
<1>1. IsFiniteSet(s) /\ n \in Nat /\ n <= Loaded
  <2>1. IsFiniteSet(L) /\ Cardinality(L) = Loaded /\ s \in SUBSET L
    BY SizesAssumption, FS_Interval
  <2> HIDE DEF L
  <2> QED
    BY <2>1, FS_Subset, FS_CardinalityType
<1>2. \A k \in s : Rank(s, k) \in 0 .. n - 1 /\ Rank(s, k) <= k - 1
  <2> TAKE k \in s
  <2> DEFINE K == {m \in s : m < k}
  <2>1. K \subseteq s /\ k \notin K
    BY <1>0
  <2>2. K # s
    BY <2>1
  <2>3. K \subseteq 1 .. k - 1 /\ IsFiniteSet(1 .. k - 1) /\ Cardinality(1 .. k - 1) = k - 1
    <3>1. k \in Nat /\ k # 0 /\ s \subseteq Nat \ {0}
      BY <1>0
    <3>2. K \subseteq 1 .. k - 1
      <4> SUFFICES ASSUME NEW m \in s, m < k PROVE m \in 1 .. k - 1
        OBVIOUS
      <4>1. m \in Nat /\ m # 0
        BY <1>0
      <4> QED
        BY <3>1, <4>1
    <3>3. IsFiniteSet(1 .. k - 1) /\ Cardinality(1 .. k - 1) = k - 1
      BY <3>1, FS_Interval
    <3> QED
      BY <3>2, <3>3
  <2> HIDE DEF K
  <2>4. Cardinality(K) \in Nat /\ Cardinality(K) <= n /\ (n = Cardinality(K) => s = K)
    BY <1>1, <2>1, FS_Subset, FS_CardinalityType
  <2>5. Cardinality(K) <= k - 1
    BY <2>3, FS_Subset
  <2>6. Rank(s, k) = Cardinality(K)
    BY DEF K, Rank
  <2> QED
    BY <1>1, <2>2, <2>4, <2>5, <2>6
<1>3. ASSUME NEW j \in s, NEW k \in s, j < k
      PROVE  Rank(s, j) < Rank(s, k)
  <2> DEFINE J == {i \in s : i < j}
             K == {i \in s : i < k}
  <2>1. J \subseteq K /\ j \in K /\ j \notin J
    <3>1. j \in Int /\ k \in Int
      BY <1>0
    <3>2. ASSUME NEW i \in s, i < j PROVE i < k
      <4>1. i \in Int
        BY <1>0
      <4> QED
        BY <1>3, <3>1, <3>2, <4>1
    <3>3. J \subseteq K
      BY <3>2
    <3>4. j \in K
      BY <1>3
    <3>5. j \notin J
      BY <3>1
    <3> QED
      BY <3>3, <3>4, <3>5
  <2>2. IsFiniteSet(K)
    BY <1>1, FS_Subset
  <2> HIDE DEF J, K
  <2>3. Cardinality(J) <= Cardinality(K) /\ (Cardinality(J) = Cardinality(K) => J = K)
    BY <2>1, <2>2, FS_Subset
  <2>4. IsFiniteSet(J) /\ Cardinality(J) \in Nat /\ Cardinality(K) \in Nat
    BY <2>1, <2>2, FS_Subset, FS_CardinalityType
  <2>5. Cardinality(J) < Cardinality(K)
    BY <2>1, <2>3, <2>4
  <2> QED
    BY <2>5 DEF J, K, Rank
<1>4. \A j, k \in s : Rank(s, j) = Rank(s, k) => j = k
  <2> SUFFICES ASSUME NEW j \in s, NEW k \in s, Rank(s, j) = Rank(s, k), j # k PROVE FALSE
    OBVIOUS
  <2>1. j < k \/ k < j
    BY <1>0
  <2>2. Rank(s, j) \in Int
    BY <1>1, <1>2
  <2> QED
    BY <1>3, <2>1, <2>2
<1>5. rank \in Injection(s, 0 .. n - 1)
  BY <1>2, <1>4 DEF Injection, IsInjective
<1>6. IsFiniteSet(0 .. n - 1) /\ Cardinality(0 .. n - 1) = n
  BY <1>1, FS_Interval
<1>7. rank \in Surjection(s, 0 .. n - 1)
  <2> HIDE DEF rank
  <2> QED
    BY <1>5, <1>6, FS_Injection
<1>8. \A i \in 1 .. n : \E k \in s : Rank(s, k) = i - 1
  <2> TAKE i \in 1 .. n
  <2>1. i - 1 \in 0 .. n - 1
    BY <1>1
  <2>2. PICK k \in s : rank[k] = i - 1
    BY <1>7, <2>1 DEF Surjection
  <2> QED
    BY <2>2
<1>9. \A i \in 1 .. n : Ascending(s)[i] \in s /\ Rank(s, Ascending(s)[i]) = i - 1
  BY <1>8 DEF Ascending, Rank
<1>10. \A k \in s : Rank(s, k) + 1 \in 1 .. n /\ Ascending(s)[Rank(s, k) + 1] = k
  <2> TAKE k \in s
  <2>1. Rank(s, k) + 1 \in 1 .. n /\ Rank(s, k) \in Int
    BY <1>1, <1>2
  <2>2. Rank(s, Ascending(s)[Rank(s, k) + 1]) = Rank(s, k)
    BY <1>9, <2>1
  <2> QED
    BY <1>4, <1>9, <2>1, <2>2
<1>11. Ascending(s) \in [1 .. n -> s]
  BY <1>9 DEF Ascending
<1>12. Ascending(s) \in Seq(1 .. Loaded) /\ Len(Ascending(s)) = n
  <2>1. Ascending(s) \in [1 .. n -> L]
    BY <1>11
  <2> HIDE DEF n, L
  <2>2. Ascending(s) \in Seq(L) /\ Len(Ascending(s)) = n
    BY <1>1, <2>1
  <2> QED
    BY <2>2 DEF L, n
<1>13. \A i, j \in 1 .. n : Ascending(s)[i] = Ascending(s)[j] => i = j
  <2> TAKE i, j \in 1 .. n
  <2> HAVE Ascending(s)[i] = Ascending(s)[j]
  <2>1. i - 1 = j - 1
    BY <1>9
  <2> QED
    BY <1>1, <2>1
<1>14. \A i \in 1 .. n : i <= Ascending(s)[i]
  <2> TAKE i \in 1 .. n
  <2>1. PICK k \in s : k = Ascending(s)[i] /\ Rank(s, k) = i - 1
    BY <1>9
  <2>2. k \in Nat /\ i - 1 <= k - 1
    BY <1>0, <1>2, <2>1
  <2>3. i <= k
    BY <1>1, <2>2
  <2> QED
    BY <2>1, <2>3
<1> QED
  BY <1>1, <1>10, <1>11, <1>12, <1>13, <1>14

-----------------------------------------------------------------------------
(* Samples.                                                                *)

\* The conversion of n features may stop after k of them when it has all, or,
\* without a bias, one more than the model has.
Enough(k, n) == k = n \/ (~bias /\ k = nr_feature + 1)

\* The front of a sequence, and what is put behind it.
LEMMA Beginning ==
  ASSUME NEW A, NEW q \in Seq(A), NEW k \in 0 .. Len(q)
  PROVE  /\ SubSeq(q, 1, k) \in Seq(A) /\ Len(SubSeq(q, 1, k)) = k
         /\ \A i \in 1 .. k : SubSeq(q, 1, k)[i] = q[i]
<1>1. Len(q) \in Nat /\ k \in Nat
  BY LenProperties
<1>2. \A i \in 1 .. k : q[i] \in A
  <2> TAKE i \in 1 .. k
  <2>1. i \in 1 .. Len(q)
    BY <1>1
  <2> QED
    BY <2>1, ElementOfSeq
<1>3. /\ SubSeq(q, 1, k) \in Seq(A)
      /\ Len(SubSeq(q, 1, k)) = IF 1 <= k THEN k - 1 + 1 ELSE 0
      /\ \A i \in 1 .. k - 1 + 1 : SubSeq(q, 1, k)[i] = q[1 + i - 1]
  BY <1>1, <1>2, SubSeqProperties
<1>4. \A i \in 1 .. k : SubSeq(q, 1, k)[i] = q[i]
  <2> TAKE i \in 1 .. k
  <2>1. i \in 1 .. k - 1 + 1 /\ 1 + i - 1 = i
    BY <1>1
  <2> QED
    BY <1>3, <2>1
<1> QED
  BY <1>1, <1>3, <1>4

LEMMA Behind ==
  ASSUME NEW p \in Seq(Int), NEW q \in Seq(Int)
  PROVE  /\ p \o q \in Seq(Int) /\ Len(p \o q) = Len(p) + Len(q)
         /\ \A i \in 1 .. Len(p) : (p \o q)[i] = p[i]
         /\ \A i \in 1 .. Len(q) : (p \o q)[Len(p) + i] = q[i]
<1>1. Len(p) \in Nat /\ Len(q) \in Nat
  BY LenProperties
<1>2. /\ p \o q \in Seq(Int) /\ Len(p \o q) = Len(p) + Len(q)
      /\ \A i \in 1 .. Len(p) + Len(q) :
           (p \o q)[i] = IF i <= Len(p) THEN p[i] ELSE q[i - Len(p)]
  BY ConcatProperties
<1>3. \A i \in 1 .. Len(p) : (p \o q)[i] = p[i]
  BY <1>1, <1>2
<1>4. \A i \in 1 .. Len(q) : (p \o q)[Len(p) + i] = q[i]
  <2> TAKE i \in 1 .. Len(q)
  <2>1. /\ Len(p) + i \in 1 .. Len(p) + Len(q) /\ ~(Len(p) + i <= Len(p))
        /\ (Len(p) + i) - Len(p) = i
    BY <1>1
  <2> QED
    BY <1>2, <2>1
<1> QED
  BY <1>2, <1>3, <1>4

\* What may be in a sample.
Numbers == 1 .. Loaded + 1 \cup {End}

LEMMA ClosingNumbers ==
  ASSUME nr_feature \in 1 .. Loaded
  PROVE  /\ Closing \in Seq(Numbers)
         /\ Len(Closing) = IF bias THEN 2 ELSE 1
         /\ Closing[1] = IF bias THEN nr_feature + 1 ELSE End
         /\ Closing[Len(Closing)] = End
<1>1. nr_feature + 1 \in Numbers /\ End \in Numbers
  BY SizesAssumption DEF Numbers
<1> QED
  BY <1>1 DEF Closing

\* The entries of a sample.
LEMMA SampleEntries ==
  ASSUME NEW s \in SUBSET (1 .. Loaded), nr_feature \in 1 .. Loaded, bias \in BOOLEAN,
         NEW k \in 0 .. Cardinality(s),
         NEW e, e = SubSeq(Ascending(s), 1, k) \o Closing
  PROVE  /\ e \in Seq(Int)
         /\ DOMAIN e = IF bias THEN 1 .. k + 2 ELSE 1 .. k + 1
         /\ Len(e) = IF bias THEN k + 2 ELSE k + 1
         /\ \A i \in 1 .. k : e[i] = Ascending(s)[i] /\ e[i] \in s
         /\ e[k + 1] = IF bias THEN nr_feature + 1 ELSE End
         /\ bias => e[k + 2] = End
         /\ e[Len(e)] = End
<1> DEFINE q == Ascending(s)
           p == SubSeq(q, 1, k)
<1>1. q \in Seq(1 .. Loaded) /\ Len(q) = Cardinality(s) /\ k \in 0 .. Len(q) /\ k \in Nat
  BY Ascends
<1>2. \A i \in 1 .. k : q[i] \in s
  BY <1>1, Ascends
<1>3. 1 .. Loaded \subseteq Int /\ Numbers \subseteq Int
  BY SizesAssumption DEF Numbers, End
<1> HIDE DEF q
<1>4. p \in Seq(1 .. Loaded) /\ Len(p) = k /\ \A i \in 1 .. k : p[i] = q[i]
  BY <1>1, Beginning
<1> HIDE DEF p
<1>5. p \in Seq(Int)
  BY <1>3, <1>4, SeqMonotonic
<1>6. /\ Closing \in Seq(Int) /\ Len(Closing) = IF bias THEN 2 ELSE 1
      /\ Closing[1] = IF bias THEN nr_feature + 1 ELSE End
      /\ Closing[Len(Closing)] = End
  BY <1>3, ClosingNumbers, SeqMonotonic
<1>7. e = p \o Closing
  BY DEF p, q
<1>8. /\ e \in Seq(Int) /\ Len(e) = k + Len(Closing)
      /\ \A i \in 1 .. k : e[i] = p[i]
      /\ \A i \in 1 .. Len(Closing) : e[k + i] = Closing[i]
  <2>1. PICK b, c : b = p /\ c = Closing
    OBVIOUS
  <2>2. b \in Seq(Int) /\ c \in Seq(Int)
    BY <1>5, <1>6, <2>1
  <2>3. /\ b \o c \in Seq(Int) /\ Len(b \o c) = Len(b) + Len(c)
        /\ \A i \in 1 .. Len(b) : (b \o c)[i] = b[i]
        /\ \A i \in 1 .. Len(c) : (b \o c)[Len(b) + i] = c[i]
    BY <2>2, Behind
  <2> QED
    BY <1>4, <1>7, <2>1, <2>3
<1>9. DOMAIN e = 1 .. Len(e)
  BY <1>8, LenProperties
<1>10. e[k + 1] = Closing[1] /\ e[Len(e)] = Closing[Len(Closing)]
  BY <1>6, <1>8
<1>11. bias => e[k + 2] = End
  BY <1>6, <1>8, <1>10
<1>12. \A i \in 1 .. k : e[i] = Ascending(s)[i] /\ e[i] \in s
  BY <1>2, <1>4, <1>8 DEF q
<1>13. Len(e) = IF bias THEN k + 2 ELSE k + 1
  BY <1>6, <1>8
<1> QED
  BY <1>6, <1>8, <1>9, <1>10, <1>11, <1>12, <1>13

\* The model says of the sample of a text what it says of the text.
LEMMA SampleSum ==
  ASSUME NEW s \in SUBSET (1 .. Loaded), nr_feature \in 1 .. Loaded, bias \in BOOLEAN,
         bias => Loaded <= nr_feature,
         NEW k \in 0 .. Cardinality(s), Enough(k, Cardinality(s)),
         NEW e, e = SubSeq(Ascending(s), 1, k) \o Closing
  PROVE  Decision(e) = Reference(s) /\ Decision(e) \in Int
<1> DEFINE D == DOMAIN e
           R == (s \cap 1 .. nr_feature) \cup IF bias THEN {nr_feature + 1} ELSE {}
<1>1. /\ e \in Seq(Int) /\ D = IF bias THEN 1 .. k + 2 ELSE 1 .. k + 1
      /\ \A i \in 1 .. k : e[i] = Ascending(s)[i] /\ e[i] \in s
      /\ e[k + 1] = IF bias THEN nr_feature + 1 ELSE End
      /\ bias => e[k + 2] = End
  BY SampleEntries
<1>2. /\ k \in Nat /\ Cardinality(s) \in Nat /\ k <= Cardinality(s)
      /\ nr_feature \in Nat /\ Loaded \in Nat /\ nr_feature <= Loaded
      /\ \A x \in s : x \in Nat /\ x # 0 /\ x <= Loaded
  BY SizesAssumption, Ascends
<1>2a. \A l \in D : l \in 1 .. k \/ l = k + 1 \/ (bias /\ l = k + 2)
  <2>1. CASE bias
    <3>1. D = 1 .. k + 2
      BY <1>1, <2>1
    <3> QED
      BY <1>2, <2>1, <3>1
  <2>2. CASE ~bias
    <3>1. D = 1 .. k + 1
      BY <1>1, <2>2
    <3> QED
      BY <1>2, <3>1
  <2> QED
    BY <2>1, <2>2
<1>3. \A i \in D : e[i] \in 1 .. Known <=> e[i] \in R
  <2> TAKE i \in D
  <2>1. CASE i \in 1 .. k
    <3>1. e[i] \in s /\ e[i] \in Nat /\ e[i] # 0 /\ e[i] <= Loaded
      BY <1>1, <1>2, <2>1
    <3> QED
      BY <1>2, <3>1 DEF Known
  <2>2. CASE i = k + 1
    BY <1>1, <1>2, <2>2 DEF Known, End
  <2>3. CASE bias /\ i = k + 2
    BY <1>1, <1>2, <2>3 DEF Known, End
  <2> QED
    BY <1>2a, <2>1, <2>2, <2>3
<1>4. \A i, j \in D : e[i] \in R /\ e[i] = e[j] => i = j
  <2> SUFFICES ASSUME NEW i \in D, NEW j \in D, e[i] \in R, e[i] = e[j] PROVE i = j
    OBVIOUS
  <2>2. End \notin R
    BY <1>2 DEF End
  <2>3. \A l \in 1 .. k : bias => e[l] # nr_feature + 1
    <3> TAKE l \in 1 .. k
    <3>1. e[l] \in Nat /\ e[l] <= Loaded
      BY <1>1, <1>2
    <3> QED
      BY <1>2, <3>1
  <2>4. CASE i \in 1 .. k /\ j \in 1 .. k
    <3>1. Ascending(s)[i] = Ascending(s)[j]
      BY <1>1, <2>4
    <3>2. i \in 1 .. Cardinality(s) /\ j \in 1 .. Cardinality(s)
      BY <1>2, <2>4
    <3> QED
      BY <3>1, <3>2, Ascends
  <2> HIDE DEF R, D
  <2>5. CASE i = k + 1
    BY <1>1, <1>2, <1>2a, <2>2, <2>3, <2>5
  <2>6. CASE j = k + 1
    BY <1>1, <1>2, <1>2a, <2>2, <2>3, <2>6
  <2>7. CASE bias /\ (i = k + 2 \/ j = k + 2)
    BY <1>1, <2>2, <2>7
  <2> QED
    BY <1>2a, <2>4, <2>5, <2>6, <2>7
<1>5. {e[i] : i \in D} \cap R = R
  <2> SUFFICES ASSUME NEW x \in R PROVE \E i \in D : e[i] = x
    OBVIOUS
  <2>1. CASE x \in s /\ x \in 1 .. nr_feature
    <3>1. PICK i \in 1 .. Cardinality(s) : Ascending(s)[i] = x
      BY <2>1, Ascends
    <3>2. i <= x /\ i \in Nat /\ x \in Nat /\ x <= nr_feature
      BY <1>2, <2>1, <3>1, Ascends
    <3>3. i \in 1 .. k
      BY <1>2, <3>1, <3>2 DEF Enough
    <3>4. i \in D
      BY <1>1, <1>2, <3>3
    <3> QED
      BY <1>1, <3>1, <3>3, <3>4
  <2>2. CASE bias /\ x = nr_feature + 1
    <3>1. k + 1 \in D
      BY <1>1, <1>2
    <3> QED
      BY <1>1, <2>2, <3>1
  <2> QED
    BY <2>1, <2>2
<1>6. PICK f, g :
        /\ f = [i \in D |-> IF e[i] \in 1 .. Known THEN Weight[e[i]] ELSE 0]
        /\ Summed(g, f, D) /\ \A i \in D : f[i] \in Int
        /\ Decision(e) = g[D] /\ Decision(e) \in Int
  BY <1>1, DecisionSum
<1>7. R \in SUBSET (1 .. Loaded + 1)
  BY <1>2
<1>8. PICK h : /\ Summed(h, Weight, R) /\ Total(R) = h[R]
               /\ IsFiniteSet(R) /\ \A i \in R : Weight[i] \in Int
  <2> HIDE DEF R
  <2> QED
    BY <1>7, WeightSum
<1>9. IsFiniteSet(D)
  <2>1. k + 1 \in Int /\ k + 2 \in Int
    BY <1>2
  <2>2. IsFiniteSet(1 .. k + 1) /\ IsFiniteSet(1 .. k + 2)
    BY <2>1, FS_Interval
  <2> QED
    BY <1>1, <2>2
<1>10. \A i \in D : f[i] = IF e[i] \in R THEN Weight[e[i]] ELSE 0
  BY <1>3, <1>6
<1>11. Reference(s) = h[R]
  BY <1>8 DEF Reference
<1> HIDE DEF D, R
<1>12. g[D] = h[{e[i] : i \in D} \cap R]
  <2>1. PICK S, T : S = D /\ T = R
    OBVIOUS
  <2>2. IsFiniteSet(S) /\ Summed(g, f, S) /\ IsFiniteSet(T) /\ Summed(h, Weight, T)
    BY <1>6, <1>8, <1>9, <2>1
  <2>3. Carried(e, f, S, Weight, T)
    BY <1>4, <1>6, <1>8, <1>10, <2>1 DEF Carried
  <2>4. g[S] = h[Image(e, S, T)]
    BY <2>2, <2>3, SumImage
  <2> QED
    BY <2>1, <2>4 DEF Image
<1> QED
  BY <1>5, <1>6, <1>11, <1>12

-----------------------------------------------------------------------------
(* The inductive invariant.                                                *)

Records == [size : Nat, entries : Seq(Numbers)]
Used == {b \in Blocks : heap[b] # Null}
Waiting == {t \in Threads : pc[t] = "malloc"}
Holding == {"convert", "predict"}

\* The block that a thread fills, or is about to read, is allocated, and no other
\* thread fills or reads it.
Own ==
  /\ \A t \in Threads : pc[t] \in Holding => local[t] \in Used /\ sample[t] \in Blocks
  /\ \A t, u \in Threads :
       pc[t] \in Holding /\ pc[u] \in Holding /\ local[t] = local[u] => t = u

\* A sample that is not closed has room for one entry; without a bias that is
\* enough, and all entries stay inside.
Room ==
  /\ ~bias => \A b \in Used : Len(heap[b].entries) <= heap[b].size
  /\ \A t \in Threads :
       pc[t] = "convert" => Len(heap[local[t]].entries) < heap[local[t]].size

\* Every request with a text has its block, but for those that wait for it.
Counted ==
  /\ IsFiniteSet(Used) /\ IsFiniteSet(Waiting)
  /\ Cardinality(Used) = requests - Cardinality(Waiting)

\* A text AnswerOfText is about.
Simple(s) == Inside /\ s # NoText /\ features # {} /\ (bias => Loaded <= nr_feature) /\ Fits(s)

\* A block has the first features of s and e those that follow, if they matter;
\* and it has all that matter, and is closed.
Partly(s, r, e) ==
  /\ r.size = InitialSize
  /\ \E k \in 0 .. Cardinality(s) :
       /\ r.entries = SubSeq(Ascending(s), 1, k) /\ k <= nr_feature + 1
       /\ \/ e = SubSeq(Ascending(s), k + 1, Cardinality(s))
          \/ e = <<>> /\ Enough(k, Cardinality(s))
Wholly(s, r) ==
  /\ r.size = InitialSize
  /\ \E k \in 0 .. Cardinality(s) :
       Enough(k, Cardinality(s)) /\ r.entries = SubSeq(Ascending(s), 1, k) \o Closing

Said(s) == [emotion |-> Emotion(Reference(s)), confidence |-> Confidence(Reference(s))]

\* How far a request is.
Handled(t) ==
  Simple(text[t]) =>
    /\ pc[t] = "convert" => sample[t] = local[t] /\ Partly(text[t], heap[local[t]], element[t])
    /\ pc[t] = "predict" => sample[t] = local[t] /\ Wholly(text[t], heap[local[t]])
    /\ pc[t] = "answer" => odds[t] = Reference(text[t])
    /\ answer[t] # NoAnswer => pc[t] = "idle" /\ answer[t] = Said(text[t])

Refused == \A t \in Threads : pc[t] = "refuse" => text[t] = NoText

RInv ==
  /\ TypeOK /\ DOMAIN answer = Threads /\ Own /\ Room /\ Counted /\ Refused
  /\ \A t \in Threads : Handled(t)

\* A record is not null.
LEMMA NullApart == Null \notin Blocks /\ Null \notin Records /\ Numbers \subseteq Int
<1>1. Numbers \subseteq Int
  BY SizesAssumption DEF Numbers, End
<1>2. \A r \in Records : r \in [size : Nat, entries : Seq(Int)]
  <2> TAKE r \in Records
  <2>1. r.entries \in Seq(Int)
    BY <1>1, SeqMonotonic DEF Records
  <2> QED
    BY <2>1 DEF Records
<1> QED
  BY <1>1, <1>2, NullAssumption

\* What never changes.
LEMMA SameModel ==
  ASSUME UNCHANGED model, Inside' => Inside, NEW s
  PROVE  /\ Closing' = Closing /\ (Simple(s)' => Simple(s)) /\ Reference(s)' = Reference(s)
         /\ Said(s)' = Said(s)
         /\ \A k, n : Enough(k, n)' <=> Enough(k, n)
         /\ \A r, e : Partly(s, r, e)' <=> Partly(s, r, e)
         /\ \A r : Wholly(s, r)' <=> Wholly(s, r)
<1>1. features' = features /\ nr_feature' = nr_feature /\ bias' = bias /\ label' = label
  BY DEF model
<1>2. Closing' = Closing
  BY <1>1 DEF Closing
<1>3. Simple(s)' => Simple(s)
  BY <1>1 DEF Simple, Fits
<1>4. Reference(s)' = Reference(s)
  BY <1>1 DEF Reference
<1>5. Said(s)' = Said(s)
  BY <1>1, <1>4 DEF Said, Emotion, Confidence
<1>6. \A k, n : Enough(k, n)' <=> Enough(k, n)
  BY <1>1 DEF Enough
<1>7. \A r, e : Partly(s, r, e)' <=> Partly(s, r, e)
  BY <1>1 DEF Partly, Enough
<1>8. \A r : Wholly(s, r)' <=> Wholly(s, r)
  BY <1>1 DEF Wholly, Enough, Closing
<1> QED
  BY <1>2, <1>3, <1>4, <1>5, <1>6, <1>7, <1>8

\* The block of another thread: as it was, or written into from behind the end of
\* a third one.
Alike(b) ==
  \/ heap'[b] = heap[b]
  \/ /\ ~Inside'
     /\ heap[b] # Null /\ heap'[b] \in Records
     /\ heap'[b].size = heap[b].size
     /\ Len(heap'[b].entries) = Len(heap[b].entries)

\* One thread steps: the others have their blocks as they were, unless something is
\* written behind a block.
LEMMA StepKeeps ==
  ASSUME RInv, NEW t \in Threads, UNCHANGED model, Inside' => Inside,
         TypeOK', Counted', DOMAIN answer' = Threads, Handled(t)',
         pc'[t] = "refuse" => text'[t] = NoText,
         \A u \in Threads \ {t} :
           /\ pc'[u] = pc[u] /\ text'[u] = text[u] /\ element'[u] = element[u]
           /\ sample'[u] = sample[u] /\ local'[u] = local[u] /\ odds'[u] = odds[u]
           /\ answer'[u] = answer[u]
           /\ pc[u] \in Holding => Alike(local[u])
                                   /\ (pc'[t] \in Holding => local'[t] # local[u]),
         pc'[t] \in Holding =>
           local'[t] \in Blocks /\ heap'[local'[t]] # Null /\ sample'[t] \in Blocks,
         ~bias => \A b \in Blocks : heap'[b] # Null => Len(heap'[b].entries) <= heap'[b].size,
         pc'[t] = "convert" => Len(heap'[local'[t]].entries) < heap'[local'[t]].size
  PROVE  RInv'
<1>0. Null \notin Records
  BY NullApart
<1>1. Own'
  <2>1. \A u \in Threads : pc'[u] \in Holding => local'[u] \in Used' /\ sample'[u] \in Blocks
    BY <1>0 DEF RInv, Own, Used, Alike
  <2>2. \A u, w \in Threads :
          pc'[u] \in Holding /\ pc'[w] \in Holding /\ local'[u] = local'[w] => u = w
    BY DEF RInv, Own
  <2> QED
    BY <2>1, <2>2 DEF Own, Holding
<1>2. Room'
  <2>1. bias' = bias
    BY DEF model
  <2>2. \A u \in Threads \ {t} : pc'[u] = "convert" =>
          Len(heap'[local'[u]].entries) < heap'[local'[u]].size
    BY DEF RInv, Room, Holding, Alike
  <2> QED
    BY <2>1, <2>2 DEF Room, Used
<1>3. \A u \in Threads : Handled(u)'
  <2> SUFFICES ASSUME NEW u \in Threads \ {t} PROVE Handled(u)'
    OBVIOUS
  <2>1. Handled(u)
    BY DEF RInv
  <2>2. PICK s : s = text[u]
    OBVIOUS
  <2>3. /\ Simple(s)' => Simple(s) /\ Inside'
        /\ Reference(s)' = Reference(s)
        /\ Said(s)' = Said(s)
        /\ \A r, e : Partly(s, r, e)' <=> Partly(s, r, e)
        /\ \A r : Wholly(s, r)' <=> Wholly(s, r)
    BY SameModel DEF Simple
  <2>4. text'[u] = s
    BY <2>2
  <2>5. pc[u] \in Holding /\ Inside' => heap'[local[u]] = heap[local[u]]
    BY DEF Alike
  <2> QED
    BY <2>1, <2>2, <2>3, <2>4, <2>5 DEF Handled, Holding
<1>4. Refused'
  BY DEF RInv, Refused
<1> QED
  BY <1>1, <1>2, <1>3, <1>4 DEF RInv

\* What was inside stays there while the blocks that are written behind stay.
LEMMA InsideStays ==
  ASSUME \A b \in Blocks : Overrun(b) => heap'[b] = heap[b]
  PROVE  Inside' => Inside
BY DEF Inside, Overrun, Entries

\* The types with the names used here.
LEMMA Types ==
  ASSUME TypeOK
  PROVE  /\ heap \in [Blocks -> Records \cup {Null}]
         /\ \A b \in Used : heap[b] \in Records /\ Len(heap[b].entries) \in Nat
         /\ \A b \in Blocks : heap[b] # Null <=> heap[b] \in Records
<1>1. heap \in [Blocks -> Records \cup {Null}]
  BY DEF TypeOK, Records, Numbers
<1>2. \A r \in Records : Len(r.entries) \in Nat
  BY LenProperties DEF Records
<1> QED
  BY <1>1, <1>2, NullApart DEF Used

LEMMA InitHolds == Init => RInv
<1> SUFFICES ASSUME Init PROVE RInv
  OBVIOUS
<1>1. TypeOK
  <2>1. element \in [Threads -> Seq(1 .. Loaded)]
    BY DEF Init
  <2> QED
    BY <2>1, SizesAssumption DEF Init, TypeOK, PCs
<1>2. Used = {} /\ Waiting = {}
  BY DEF Init, Used, Waiting
<1>3. Counted
  BY <1>2, FS_EmptySet DEF Init, Counted
<1>4. Own /\ Room /\ Refused
  BY <1>2 DEF Init, Own, Room, Refused, Holding
<1>5. \A t \in Threads : Handled(t)
  BY DEF Init, Handled
<1>6. DOMAIN answer = Threads
  BY DEF Init
<1> QED
  BY <1>1, <1>3, <1>4, <1>5, <1>6 DEF RInv

\* Steps that allocate and free nothing, of no thread that waits or will wait.
LEMMA CountSame ==
  ASSUME RInv, NEW t \in Threads, requests' = requests,
         pc[t] # "malloc", pc'[t] # "malloc", \A u \in Threads \ {t} : pc'[u] = pc[u],
         \A b \in Blocks : heap'[b] = Null <=> heap[b] = Null
  PROVE  Counted'
<1>1. Used' = Used /\ Waiting' = Waiting
  BY DEF Used, Waiting
<1> QED
  BY <1>1 DEF RInv, Counted

\* A request arrives.
LEMMA RequestKeeps == ASSUME RInv, NEW t \in Threads, Request(t) PROVE RInv'
<1> USE DEF RInv
<1>1. /\ pc[t] = "idle" /\ UNCHANGED <<model, element, sample, local, odds, heap>>
      /\ answer' = [answer EXCEPT ![t] = NoAnswer]
      /\ \/ /\ pc' = [pc EXCEPT ![t] = "malloc"] /\ requests < MaxRequests
            /\ requests' = requests + 1 /\ \E s \in Texts : text' = [text EXCEPT ![t] = s]
         \/ /\ pc' = [pc EXCEPT ![t] = "refuse"] /\ requests' = requests
            /\ text' = [text EXCEPT ![t] = NoText]
  BY DEF Request, Goto
<1>2. pc'[t] \in {"malloc", "refuse"} /\ (pc'[t] = "refuse" => text'[t] = NoText)
      /\ \A u \in Threads \ {t} : pc'[u] = pc[u] /\ text'[u] = text[u]
  BY <1>1 DEF TypeOK
<1>3. answer'[t] = NoAnswer /\ \A u \in Threads \ {t} : answer'[u] = answer[u]
  BY <1>1
<1>4. TypeOK'
  <2>1. pc' \in [Threads -> PCs]
    BY <1>1 DEF TypeOK, PCs
  <2>2. text' \in [Threads -> Texts \cup {NoText}]
    <3>1. text \in [Threads -> Texts \cup {NoText}]
      BY DEF TypeOK
    <3>2. \E s \in Texts \cup {NoText} : text' = [text EXCEPT ![t] = s]
      BY <1>1
    <3> QED
      BY <3>1, <3>2
  <2>3. requests' \in 0 .. MaxRequests
    BY <1>1, SizesAssumption DEF TypeOK
  <2> QED
    BY <1>1, <2>1, <2>2, <2>3 DEF TypeOK, model
<1>5. Counted'
  <2>1. Used' = Used
    BY <1>1 DEF Used
  <2>2. CASE pc'[t] = "malloc"
    <3>1. Waiting' = Waiting \cup {t} /\ t \notin Waiting
      BY <1>1, <1>2, <2>2 DEF Waiting
    <3>2. requests' = requests + 1 /\ requests \in Nat
      BY <1>1, <2>2, SizesAssumption DEF TypeOK
    <3>3. IsFiniteSet(Waiting) /\ Cardinality(Waiting) \in Nat /\ Cardinality(Used) \in Nat
      BY FS_CardinalityType DEF Counted
    <3>4. IsFiniteSet(Waiting') /\ Cardinality(Waiting') = Cardinality(Waiting) + 1
      BY <3>1, <3>3, FS_AddElement
    <3>5. Cardinality(Used) = requests - Cardinality(Waiting) /\ IsFiniteSet(Used)
      BY DEF Counted
    <3>6. Cardinality(Used) = (requests + 1) - (Cardinality(Waiting) + 1)
      BY <3>2, <3>3, <3>5
    <3> QED
      BY <2>1, <3>2, <3>4, <3>5, <3>6 DEF Counted
  <2>3. CASE pc'[t] = "refuse"
    <3>1. requests' = requests
      BY <1>1, <2>3 DEF TypeOK
    <3> QED
      BY <1>1, <1>2, <2>3, <3>1, CountSame
  <2> QED
    BY <1>2, <2>2, <2>3
<1>5a. Inside' => Inside
  BY <1>1, InsideStays
<1>6. Handled(t)'
  BY <1>2, <1>3 DEF Handled
<1>7. /\ UNCHANGED model /\ DOMAIN answer' = Threads /\ pc'[t] \notin Holding /\ pc'[t] # "convert"
      /\ \A u \in Threads \ {t} :
           /\ element'[u] = element[u] /\ sample'[u] = sample[u] /\ local'[u] = local[u]
           /\ odds'[u] = odds[u] /\ Alike(local[u])
  BY <1>1, <1>2 DEF Holding, Alike
<1>8. ~bias => \A b \in Blocks : heap'[b] # Null => Len(heap'[b].entries) <= heap'[b].size
  BY <1>1 DEF Room, Used
<1> QED
  BY <1>2, <1>3, <1>4, <1>5, <1>5a, <1>6, <1>7, <1>8, StepKeeps

\* A block for the sample.
LEMMA AllocateKeeps == ASSUME RInv, NEW t \in Threads, Allocate(t) PROVE RInv'
<1> USE DEF RInv
<1>1. PICK b \in Blocks :
        /\ pc[t] = "malloc" /\ heap[b] = Null
        /\ pc' = [pc EXCEPT ![t] = IF features = {} THEN "predict" ELSE "convert"]
        /\ heap' = [heap EXCEPT ![b] = [size |-> InitialSize, entries |-> <<>>]]
        /\ sample' = [sample EXCEPT ![t] = b] /\ local' = [local EXCEPT ![t] = b]
        /\ element' = [element EXCEPT ![t] = Ascending(text[t] \cap features)]
        /\ UNCHANGED <<model, text, odds, answer, requests>>
  BY DEF Allocate, Goto, Free
<1> DEFINE r == [size |-> InitialSize, entries |-> <<>>]
<1>2. r \in Records /\ r # Null /\ Len(r.entries) = 0 /\ InitialSize \in Nat /\ InitialSize > 0
  <2>1. <<>> \in Seq(Numbers) /\ Len(<<>>) = 0
    BY EmptySeq
  <2>2. InitialSize \in Nat /\ InitialSize > 0
    BY SizesAssumption
  <2>3. r \in Records
    BY <2>1, <2>2 DEF Records
  <2> QED
    BY <2>1, <2>2, <2>3, NullApart
<1> HIDE DEF r
<1>3. /\ pc'[t] \in Holding /\ sample'[t] = b /\ local'[t] = b /\ heap'[b] = r
      /\ \A u \in Threads \ {t} :
           /\ pc'[u] = pc[u] /\ element'[u] = element[u] /\ sample'[u] = sample[u]
           /\ local'[u] = local[u]
      /\ \A c \in Blocks \ {b} : heap'[c] = heap[c]
  BY <1>1, Types DEF TypeOK, Holding, r
<1>4. Ascending(text[t] \cap features) \in Seq(1 .. Loaded)
  <2>1. PICK s : s = text[t] \cap features
    OBVIOUS
  <2>2. s \in SUBSET (1 .. Loaded)
    BY <2>1 DEF TypeOK
  <2> QED
    BY <2>1, <2>2, Ascends
<1>5. TypeOK'
  <2>1. pc' \in [Threads -> PCs] /\ element' \in [Threads -> Seq(1 .. Loaded)]
    BY <1>1, <1>4 DEF TypeOK, PCs
  <2>2. sample' \in [Threads -> Blocks \cup {Null}] /\ local' \in [Threads -> Blocks \cup {Null}]
    BY <1>1 DEF TypeOK
  <2>3. heap' \in [Blocks -> Records \cup {Null}]
    BY <1>1, <1>2, Types DEF r
  <2> QED
    BY <1>1, <2>1, <2>2, <2>3 DEF TypeOK, model, Records, Numbers
<1>6. Counted'
  <2>1. Used' = Used \cup {b} /\ b \notin Used
    BY <1>1, <1>2, <1>3 DEF Used
  <2>2. Waiting' = Waiting \ {t} /\ t \in Waiting
    BY <1>1, <1>3 DEF Waiting, Holding
  <2>3. /\ IsFiniteSet(Used) /\ IsFiniteSet(Waiting)
        /\ Cardinality(Waiting) \in Nat /\ Cardinality(Used) \in Nat
    BY FS_CardinalityType DEF Counted
  <2>4. IsFiniteSet(Used') /\ Cardinality(Used') = Cardinality(Used) + 1
    BY <2>1, <2>3, FS_AddElement
  <2>5. IsFiniteSet(Waiting') /\ Cardinality(Waiting') = Cardinality(Waiting) - 1
    BY <2>2, <2>3, FS_RemoveElement
  <2>6. Cardinality(Used) = requests - Cardinality(Waiting) /\ requests \in Nat /\ requests' = requests
    BY <1>1, SizesAssumption DEF Counted, TypeOK
  <2>7. Cardinality(Used) + 1 = requests - (Cardinality(Waiting) - 1)
    BY <2>3, <2>6
  <2> QED
    BY <2>4, <2>5, <2>6, <2>7 DEF Counted
<1>6a. Inside' => Inside
  <2>1. \A c \in Blocks : Overrun(c) => heap'[c] = heap[c]
    BY <1>1, <1>3 DEF Overrun
  <2> QED
    BY <2>1, InsideStays
<1>7. Handled(t)'
  <2>1. PICK s : s = text[t]
    OBVIOUS
  <2> SUFFICES ASSUME Simple(s)
               PROVE  Handled(t)'
    <3>1. Simple(text[t])' => Simple(s)
      <4>1. text'[t] = s
        BY <1>1, <2>1
      <4> QED
        BY <1>1, <1>6a, <2>1, <4>1, SameModel
    <3> QED
      BY <3>1 DEF Handled
  <2>2. features = 1 .. Loaded /\ s \in SUBSET (1 .. Loaded) /\ nr_feature \in Nat
    BY <2>1, SizesAssumption DEF Simple, TypeOK, Texts
  <2>3. pc'[t] = "convert"
    BY <1>1, <2>2, SizesAssumption DEF TypeOK
  <2>4. element'[t] = Ascending(s)
    <3>1. text[t] \cap features = s
      BY <2>1, <2>2
    <3> QED
      BY <1>1, <3>1 DEF TypeOK
  <2>5. Partly(s, r, Ascending(s))
    <3>1. /\ Ascending(s) \in Seq(1 .. Loaded) /\ Len(Ascending(s)) = Cardinality(s)
          /\ Cardinality(s) \in Nat
      BY <2>2, Ascends
    <3>2. SubSeq(Ascending(s), 1, 0) = <<>>
      BY SubSeqEmpty
    <3>3. SubSeq(Ascending(s), 0 + 1, Cardinality(s)) = Ascending(s)
      BY <3>1, SubSeqFull
    <3> QED
      BY <2>2, <3>1, <3>2, <3>3 DEF Partly, r
  <2>6. Partly(s, r, Ascending(s))'
    BY <1>1, <1>6a, <2>5, SameModel
  <2>7. answer[t] = NoAnswer
    BY <1>1, <2>1 DEF Handled
  <2> QED
    BY <1>1, <1>3, <2>1, <2>3, <2>4, <2>6, <2>7 DEF Handled
<1>8. \A u \in Threads \ {t} : pc[u] \in Holding =>
        Alike(local[u]) /\ local'[t] # local[u]
  BY <1>1, <1>3 DEF Own, Used, Alike
<1>9. /\ ~bias => \A c \in Blocks : heap'[c] # Null => Len(heap'[c].entries) <= heap'[c].size
      /\ pc'[t] = "convert" => Len(heap'[local'[t]].entries) < heap'[local'[t]].size
  BY <1>1, <1>2, <1>3 DEF Room, Used, r
<1>10. UNCHANGED model /\ DOMAIN answer' = Threads /\ pc'[t] # "refuse"
       /\ \A u \in Threads : text'[u] = text[u] /\ odds'[u] = odds[u] /\ answer'[u] = answer[u]
  BY <1>1, <1>3 DEF Holding
<1> QED
  BY <1>2, <1>3, <1>5, <1>6, <1>6a, <1>7, <1>8, <1>9, <1>10, StepKeeps

\* While features follow, the block of a simple text has those before them, and
\* room for two more entries.
LEMMA Unfinished ==
  ASSUME TypeOK, NEW s, s \in Texts, Simple(s), NEW r, NEW e, Partly(s, r, e), e # <<>>
  PROVE  /\ Cardinality(s) \in Nat /\ ~(Len(r.entries) > r.size - 2)
         /\ \E k \in 0 .. Cardinality(s) - 1 :
              /\ k = Len(r.entries) /\ k <= nr_feature + 1
              /\ r.entries = SubSeq(Ascending(s), 1, k)
              /\ e = SubSeq(Ascending(s), k + 1, Cardinality(s))
<1>1. /\ s \in SUBSET (1 .. Loaded) /\ Ascending(s) \in Seq(1 .. Loaded)
      /\ Len(Ascending(s)) = Cardinality(s) /\ Cardinality(s) \in Nat
  BY Ascends DEF Texts
<1>2. PICK k \in 0 .. Cardinality(s) :
        /\ r.entries = SubSeq(Ascending(s), 1, k) /\ k <= nr_feature + 1
        /\ e = SubSeq(Ascending(s), k + 1, Cardinality(s))
  BY DEF Partly
<1>3. Len(r.entries) = k /\ k \in Nat
  BY <1>1, <1>2, Beginning
<1>4. k # Cardinality(s)
  <2> SUFFICES ASSUME k = Cardinality(s) PROVE FALSE
    OBVIOUS
  <2>1. Cardinality(s) < k + 1 /\ k + 1 \in Int
    BY <1>1
  <2> QED
    BY <1>1, <1>2, <2>1, SubSeqEmpty
<1>5. Cardinality(s) + (IF bias THEN 2 ELSE 1) <= InitialSize /\ r.size = InitialSize
      /\ InitialSize \in Nat
  BY SizesAssumption DEF Simple, Fits, Partly
<1>6. k \in 0 .. Cardinality(s) - 1 /\ k <= InitialSize - 2
  BY <1>1, <1>3, <1>4, <1>5
<1> QED
  BY <1>1, <1>2, <1>3, <1>5, <1>6

\* The text of a handled request.
LEMMA TextOf ==
  ASSUME RInv, NEW t \in Threads, Simple(text[t])
  PROVE  text[t] \in Texts /\ text[t] \in SUBSET (1 .. Loaded)
BY DEF RInv, TypeOK, Simple, Texts

\* The block grows, and moves or stays.
LEMMA ReallocKeeps == ASSUME RInv, NEW t \in Threads, Realloc(t) PROVE RInv'
<1> USE DEF RInv
<1>1. PICK l : l = local[t]
  OBVIOUS
<1>2. PICK b \in Free \cup {l} :
        /\ heap' = [[heap EXCEPT ![l] = Null] EXCEPT ![b] = [heap[l] EXCEPT !.size = 2 * @]]
        /\ local' = [local EXCEPT ![t] = b]
        /\ pc[t] = "convert" /\ element[t] # <<>> /\ Full(t)
        /\ UNCHANGED <<model, pc, text, element, sample, odds, answer, requests>>
  BY <1>1 DEF Realloc
<1> DEFINE r == [heap[l] EXCEPT !.size = 2 * @]
<1>3. l \in Used /\ l \in Blocks /\ heap[l] \in Records
  BY <1>1, <1>2, Types DEF Own, Holding, Used
<1>4. /\ r \in Records /\ r # Null /\ r.entries = heap[l].entries /\ r.size = 2 * heap[l].size
      /\ heap[l].size \in Nat /\ Len(heap[l].entries) \in Nat
  <2>1. r \in Records /\ r.entries = heap[l].entries /\ r.size = 2 * heap[l].size
        /\ heap[l].size \in Nat
    BY <1>3 DEF Records
  <2> QED
    BY <1>3, <2>1, NullApart, Types
<1> HIDE DEF r
<1>5. /\ b \in Blocks /\ heap \in [Blocks -> Records \cup {Null}]
      /\ b = l \/ heap[b] = Null
  BY <1>3, Types DEF Free
<1>6. /\ heap' \in [Blocks -> Records \cup {Null}] /\ heap'[b] = r
      /\ \A c \in Blocks \ {b, l} : heap'[c] = heap[c]
      /\ b # l => heap'[l] = Null
  BY <1>2, <1>3, <1>4, <1>5 DEF r
<1>7. local'[t] = b /\ \A u \in Threads \ {t} : local'[u] = local[u]
  BY <1>2 DEF TypeOK
<1>8. TypeOK'
  <2>1. local' \in [Threads -> Blocks \cup {Null}]
    BY <1>2, <1>5 DEF TypeOK
  <2> QED
    BY <1>2, <1>6, <2>1 DEF TypeOK, model, Records, Numbers
<1>9. Counted'
  <2>1. Waiting' = Waiting /\ requests' = requests
    BY <1>2 DEF Waiting
  <2>2. CASE b = l
    <3>1. Used' = Used
      BY <1>3, <1>4, <1>6, <2>2 DEF Used
    <3> QED
      BY <2>1, <3>1 DEF Counted
  <2>3. CASE b # l
    <3>1. Used' = (Used \ {l}) \cup {b} /\ b \notin Used \ {l}
      BY <1>3, <1>4, <1>5, <1>6, <2>3 DEF Used
    <3>2. IsFiniteSet(Used) /\ Cardinality(Used) \in Nat
      BY FS_CardinalityType DEF Counted
    <3>3. IsFiniteSet(Used \ {l}) /\ Cardinality(Used \ {l}) = Cardinality(Used) - 1
      BY <1>3, <3>2, FS_RemoveElement
    <3>4. IsFiniteSet(Used') /\ Cardinality(Used') = (Cardinality(Used) - 1) + 1
      BY <3>1, <3>3, FS_AddElement
    <3>5. Cardinality(Used') = Cardinality(Used)
      BY <3>2, <3>4
    <3> QED
      BY <2>1, <3>4, <3>5 DEF Counted
  <2> QED
    BY <2>2, <2>3
<1>9a. Len(heap[l].entries) < heap[l].size
  BY <1>1, <1>2 DEF Room
<1>9b. Inside' => Inside
  <2>1. \A c \in Blocks : Overrun(c) => heap'[c] = heap[c]
    BY <1>4, <1>5, <1>6, <1>9a DEF Overrun, Entries
  <2> QED
    BY <2>1, InsideStays
<1>10. Handled(t)'
  <2>1. PICK s : s = text[t]
    OBVIOUS
  <2>2. ~Simple(s)
    <3> SUFFICES ASSUME Simple(s) PROVE FALSE
      OBVIOUS
    <3>1. Partly(s, heap[l], element[t]) /\ s \in Texts
      BY <1>1, <1>2, <2>1, TextOf DEF Handled
    <3>2. PICK h, e : h = heap[l] /\ e = element[t]
      OBVIOUS
    <3>3. ~(Len(h.entries) > h.size - 2)
      BY <1>2, <3>1, <3>2, Unfinished
    <3> QED
      BY <1>1, <1>2, <3>2, <3>3 DEF Full, Entries
  <2>3. ~Simple(s)' /\ text'[t] = s
    BY <1>2, <1>9b, <2>1, <2>2, SameModel
  <2> QED
    BY <2>3 DEF Handled
<1>11. \A u \in Threads \ {t} : pc[u] \in Holding =>
         Alike(local[u]) /\ local'[t] # local[u]
  <2> SUFFICES ASSUME NEW u \in Threads \ {t}, pc[u] \in Holding
               PROVE  heap'[local[u]] = heap[local[u]] /\ local'[t] # local[u]
    BY DEF Alike
  <2>1. local[u] \in Used /\ local[u] # l
    BY <1>1, <1>2 DEF Own, Holding
  <2> QED
    BY <1>5, <1>6, <1>7, <2>1 DEF Used
<1>12. /\ ~bias => \A c \in Blocks : heap'[c] # Null => Len(heap'[c].entries) <= heap'[c].size
       /\ Len(heap'[local'[t]].entries) < heap'[local'[t]].size
  <2>1. Len(r.entries) < r.size
    BY <1>4, <1>9a
  <2>2. Len(r.entries) \in Nat /\ r.size \in Nat
    BY <1>4
  <2> QED
    BY <1>5, <1>6, <1>7, <2>1, <2>2 DEF Room, Used
<1>13. /\ UNCHANGED model /\ DOMAIN answer' = Threads /\ pc'[t] # "refuse"
       /\ local'[t] \in Blocks /\ heap'[local'[t]] # Null /\ sample'[t] \in Blocks
       /\ \A u \in Threads : /\ pc'[u] = pc[u] /\ text'[u] = text[u] /\ element'[u] = element[u]
                             /\ sample'[u] = sample[u] /\ odds'[u] = odds[u]
                             /\ answer'[u] = answer[u]
  BY <1>2, <1>4, <1>5, <1>6, <1>7 DEF Own, Holding
<1> QED
  BY <1>7, <1>8, <1>9, <1>9b, <1>10, <1>11, <1>12, <1>13, StepKeeps

\* A block that is written, by its thread alone: what the steps of the conversion
\* have in common.
LEMMA WriteKeeps ==
  ASSUME RInv, NEW t \in Threads, pc[t] = "convert", pc'[t] \in Holding,
         NEW l, l = local[t], NEW r, r \in Records,
         heap' \in [Blocks -> Records \cup {Null}], heap'[l] = r,
         \A c \in Blocks \ {l} : Alike(c),
         ~bias => \A b \in Blocks : heap'[b] # Null => Len(heap'[b].entries) <= heap'[b].size,
         pc'[t] = "convert" => Len(r.entries) < r.size,
         pc' \in [Threads -> PCs], \A u \in Threads \ {t} : pc'[u] = pc[u],
         element' \in [Threads -> Seq(1 .. Loaded)],
         \A u \in Threads \ {t} : element'[u] = element[u],
         UNCHANGED <<model, text, sample, local, odds, answer, requests>>,
         Handled(t)', Inside' => Inside
  PROVE  RInv'
<1> USE DEF RInv
<1>1. l \in Used /\ l \in Blocks /\ heap[l] # Null /\ r # Null
  BY NullApart DEF Own, Holding, Used
<1>3. TypeOK'
  BY DEF TypeOK, model, Records, Numbers
<1>4. Counted'
  <2>1. \A c \in Blocks : heap'[c] = Null <=> heap[c] = Null
    BY <1>1, NullApart DEF Alike
  <2> QED
    BY <2>1, CountSame DEF Holding
<1>5. \A u \in Threads \ {t} : pc[u] \in Holding => Alike(local[u]) /\ local'[t] # local[u]
  <2> SUFFICES ASSUME NEW u \in Threads \ {t}, pc[u] \in Holding
               PROVE  Alike(local[u]) /\ local'[t] # local[u]
    OBVIOUS
  <2>1. local[u] \in Used /\ local[u] # l
    BY DEF Own, Holding
  <2> QED
    BY <2>1 DEF Used
<1>7. /\ UNCHANGED model /\ DOMAIN answer' = Threads /\ pc'[t] # "refuse"
      /\ local'[t] = l /\ heap'[local'[t]] # Null /\ sample'[t] \in Blocks
      /\ \A u \in Threads : /\ text'[u] = text[u] /\ sample'[u] = sample[u]
                            /\ odds'[u] = odds[u] /\ local'[u] = local[u]
                            /\ answer'[u] = answer[u]
  BY <1>1 DEF Own, Holding
<1> QED
  BY <1>1, <1>3, <1>4, <1>5, <1>7, StepKeeps

\* An element is stored, or the loop ends.
LEMMA StoreKeeps == ASSUME RInv, NEW t \in Threads, Store(t) PROVE RInv'
<1> USE DEF RInv
<1>1. PICK l, h, e, s : l = local[t] /\ h = heap[l] /\ e = element[t] /\ s = text[t]
  OBVIOUS
<1>2. /\ pc[t] = "convert" /\ e # <<>> /\ ~(Len(h.entries) > h.size - 2)
      /\ UNCHANGED <<model, pc, text, sample, local, odds, answer, requests>>
      /\ \/ /\ Len(h.entries) <= nr_feature
            /\ heap' = [heap EXCEPT ![l] = [h EXCEPT !.entries = Append(@, Head(e))]]
            /\ element' = [element EXCEPT ![t] = Tail(e)]
         \/ /\ ~(Len(h.entries) <= nr_feature)
            /\ element' = [element EXCEPT ![t] = <<>>] /\ heap' = heap
  BY <1>1 DEF Store, Full, Entries
<1>3. l \in Blocks /\ h \in Records /\ l \in Used
  BY <1>1, <1>2, Types DEF Own, Holding, Used
<1>4. /\ h.entries \in Seq(Numbers) /\ h.size \in Nat /\ Len(h.entries) \in Nat
      /\ h = [size |-> h.size, entries |-> h.entries]
  BY <1>3, LenProperties DEF Records
<1>5. e \in Seq(1 .. Loaded) /\ Head(e) \in Numbers /\ Tail(e) \in Seq(1 .. Loaded)
  <2>1. e \in Seq(1 .. Loaded)
    BY <1>1 DEF TypeOK
  <2>2. Head(e) \in 1 .. Loaded /\ Tail(e) \in Seq(1 .. Loaded)
    BY <1>2, <2>1, HeadTailProperties
  <2> QED
    BY <2>1, <2>2, SizesAssumption DEF Numbers
<1>5a. Len(h.entries) < h.size
  BY <1>2, <1>4
<1>5b. ASSUME NEW r \in Records, heap' = [heap EXCEPT ![l] = r], Len(r.entries) < r.size
       PROVE  /\ heap' \in [Blocks -> Records \cup {Null}] /\ heap'[l] = r
              /\ \A c \in Blocks \ {l} : Alike(c)
              /\ Inside' => Inside
              /\ ~bias => \A b \in Blocks : heap'[b] # Null =>
                            Len(heap'[b].entries) <= heap'[b].size
  <2>1. /\ heap' \in [Blocks -> Records \cup {Null}] /\ heap'[l] = r
        /\ \A c \in Blocks \ {l} : heap'[c] = heap[c]
    BY <1>3, <1>5b, Types
  <2>2. \A c \in Blocks : Overrun(c) => heap'[c] = heap[c]
    BY <1>1, <1>4, <1>5a, <2>1 DEF Overrun, Entries
  <2>3. Len(r.entries) \in Nat /\ r.size \in Nat
    BY LenProperties DEF Records
  <2> QED
    BY <1>5b, <2>1, <2>2, <2>3, InsideStays DEF Alike, Room, Used
<1>6. pc'[t] = "convert" /\ pc' \in [Threads -> PCs] /\ \A u \in Threads : pc'[u] = pc[u]
  BY <1>2 DEF TypeOK
<1>7. Simple(s) => Partly(s, h, e) /\ s \in SUBSET (1 .. Loaded) /\ s \in Texts
                   /\ sample[t] = l /\ answer[t] = NoAnswer
  BY <1>1, <1>2, TextOf DEF Handled
<1>8. Simple(s) =>
        \E k \in 0 .. Cardinality(s) - 1 :
          /\ Cardinality(s) \in Nat /\ k = Len(h.entries) /\ k <= nr_feature + 1
          /\ h.size = InitialSize
          /\ h.entries = SubSeq(Ascending(s), 1, k)
          /\ e = SubSeq(Ascending(s), k + 1, Cardinality(s))
  <2> SUFFICES ASSUME Simple(s)
               PROVE  \E k \in 0 .. Cardinality(s) - 1 :
                        /\ Cardinality(s) \in Nat /\ k = Len(h.entries) /\ k <= nr_feature + 1
                        /\ h.size = InitialSize
                        /\ h.entries = SubSeq(Ascending(s), 1, k)
                        /\ e = SubSeq(Ascending(s), k + 1, Cardinality(s))
    OBVIOUS
  <2>1. Partly(s, h, e) /\ s \in Texts /\ e # <<>>
    BY <1>2, <1>7
  <2>2. /\ Cardinality(s) \in Nat
        /\ \E k \in 0 .. Cardinality(s) - 1 :
              /\ k = Len(h.entries) /\ k <= nr_feature + 1
              /\ h.entries = SubSeq(Ascending(s), 1, k)
              /\ e = SubSeq(Ascending(s), k + 1, Cardinality(s))
    BY <2>1, Unfinished
  <2>3. h.size = InitialSize
    BY <2>1 DEF Partly
  <2> QED
    BY <2>2, <2>3
<1>9. nr_feature \in Nat /\ nr_feature <= Loaded /\ Loaded \in Nat
  BY SizesAssumption DEF TypeOK
<1>10. ASSUME NEW r, NEW f, Inside' => Inside, heap'[l] = r, element'[t] = f, Simple(s) => Partly(s, r, f)
       PROVE  Handled(t)'
  <2>1. Simple(s)' => Partly(s, r, f)'
    BY <1>2, <1>10, SameModel
  <2>2. text'[t] = s /\ local'[t] = l /\ sample'[t] = sample[t] /\ answer'[t] = answer[t]
    BY <1>1, <1>2
  <2>3. Simple(s)' => sample[t] = l /\ answer[t] = NoAnswer
    BY <1>2, <1>7, <1>10, SameModel
  <2> QED
    BY <1>6, <1>10, <2>1, <2>2, <2>3 DEF Handled
<1>11. CASE Len(h.entries) <= nr_feature
  <2> DEFINE r == [size |-> h.size, entries |-> Append(h.entries, Head(e))]
  <2>1. heap' = [heap EXCEPT ![l] = r] /\ element' = [element EXCEPT ![t] = Tail(e)]
    BY <1>2, <1>4, <1>11
  <2>2. Append(h.entries, Head(e)) \in Seq(Numbers)
        /\ Len(Append(h.entries, Head(e))) = Len(h.entries) + 1
    BY <1>4, <1>5, AppendProperties
  <2>3. r \in Records /\ Len(r.entries) < r.size
    BY <1>2, <1>4, <2>2 DEF Records
  <2>4. Simple(s) => Partly(s, r, Tail(e))
    <3> SUFFICES ASSUME Simple(s) PROVE Partly(s, r, Tail(e))
      OBVIOUS
    <3>1. PICK k \in 0 .. Cardinality(s) - 1 :
            /\ Cardinality(s) \in Nat /\ k = Len(h.entries) /\ h.size = InitialSize
            /\ h.entries = SubSeq(Ascending(s), 1, k)
            /\ e = SubSeq(Ascending(s), k + 1, Cardinality(s))
      BY <1>8
    <3> DEFINE a == Ascending(s)
    <3>2. a \in Seq(1 .. Loaded) /\ Len(a) = Cardinality(s)
      BY <1>7, Ascends
    <3> HIDE DEF a
    <3>3. k + 1 \in 1 .. Len(a) /\ Len(a) \in k + 1 .. Len(a) /\ 1 \in 1 .. Len(a)
          /\ k + 1 \in 1 .. k + 1
      BY <3>1, <3>2
    <3>4. Head(e) = a[k + 1] /\ Tail(e) = SubSeq(a, k + 1 + 1, Len(a))
      BY <3>1, <3>2, <3>3, HeadTailOfSubSeq DEF a
    <3>5. SubSeq(a, 1, k + 1) = SubSeq(a, 1, k + 1 - 1) \o <<a[k + 1]>>
      BY <3>2, <3>3, SubSeqRecursiveSecond
    <3>6. k + 1 - 1 = k /\ k + 1 \in 0 .. Cardinality(s) /\ k + 1 <= nr_feature + 1
      BY <1>9, <1>11, <3>1
    <3>7. Append(h.entries, Head(e)) = h.entries \o <<Head(e)>>
      BY <1>4, <1>5, AppendIsConcat
    <3>8. r.entries = SubSeq(a, 1, k + 1)
      BY <3>1, <3>4, <3>5, <3>6, <3>7 DEF a
    <3> HIDE DEF r
    <3>9. r.size = InitialSize
      BY <3>1 DEF r
    <3> QED
      BY <3>2, <3>4, <3>6, <3>8, <3>9 DEF Partly, a
  <2> HIDE DEF r
  <2>5. heap'[l] = r /\ element'[t] = Tail(e) /\ (Inside' => Inside)
    BY <1>5b, <2>1, <2>3 DEF TypeOK
  <2>6. Handled(t)'
    BY <1>10, <2>4, <2>5
  <2>7. element' \in [Threads -> Seq(1 .. Loaded)]
        /\ \A u \in Threads \ {t} : element'[u] = element[u]
    BY <1>5, <2>1 DEF TypeOK
  <2>8. /\ heap' \in [Blocks -> Records \cup {Null}]
        /\ \A c \in Blocks \ {l} : Alike(c)
        /\ ~bias => \A b \in Blocks : heap'[b] # Null => Len(heap'[b].entries) <= heap'[b].size
    BY <1>5b, <2>1, <2>3
  <2> QED
    BY <1>1, <1>2, <1>6, <2>3, <2>5, <2>6, <2>7, <2>8, WriteKeeps DEF Holding
<1>12. CASE ~(Len(h.entries) <= nr_feature)
  <2>1. heap' = heap /\ element' = [element EXCEPT ![t] = <<>>]
    BY <1>2, <1>12
  <2>2. heap' = [heap EXCEPT ![l] = h]
    BY <1>1, <1>3, <2>1, Types
  <2>3. Simple(s) => Partly(s, h, <<>>)
    <3> SUFFICES ASSUME Simple(s) PROVE Partly(s, h, <<>>)
      OBVIOUS
    <3>1. PICK k \in 0 .. Cardinality(s) - 1 :
            /\ Cardinality(s) \in Nat /\ k = Len(h.entries) /\ k <= nr_feature + 1
            /\ h.size = InitialSize /\ h.entries = SubSeq(Ascending(s), 1, k)
      BY <1>8
    <3>2. k = nr_feature + 1 /\ Cardinality(s) <= Loaded /\ k \in 0 .. Cardinality(s)
      BY <1>7, <1>9, <1>12, <3>1, Ascends
    <3>3. ~bias
      BY <1>9, <3>1, <3>2 DEF Simple
    <3> QED
      BY <3>1, <3>2, <3>3 DEF Partly, Enough
  <2>4. heap'[l] = h /\ element'[t] = <<>> /\ (Inside' => Inside)
    BY <1>1, <1>3, <1>5a, <1>5b, <2>1, <2>2 DEF TypeOK
  <2>5. Handled(t)'
    BY <1>10, <2>3, <2>4
  <2>6. element' \in [Threads -> Seq(1 .. Loaded)]
        /\ \A u \in Threads \ {t} : element'[u] = element[u]
    BY <2>1 DEF TypeOK
  <2>7. /\ heap' \in [Blocks -> Records \cup {Null}]
        /\ \A c \in Blocks \ {l} : Alike(c)
        /\ ~bias => \A b \in Blocks : heap'[b] # Null => Len(heap'[b].entries) <= heap'[b].size
    BY <1>3, <1>5a, <1>5b, <2>2
  <2> QED
    BY <1>1, <1>2, <1>3, <1>5a, <1>6, <2>4, <2>5, <2>6, <2>7, WriteKeeps DEF Holding
<1> QED
  BY <1>11, <1>12

\* The sample is closed.
LEMMA CloseKeeps == ASSUME RInv, NEW t \in Threads, Close(t) PROVE RInv'
<1> USE DEF RInv
<1>1. PICK l, h, s : l = local[t] /\ h = heap[l] /\ s = text[t]
  OBVIOUS
<1>1a. PICK r : r = [size |-> h.size, entries |-> h.entries \o Closing]
  OBVIOUS
<1>2. /\ pc[t] = "convert" /\ element[t] = <<>>
      /\ UNCHANGED <<model, text, element, sample, local, odds, answer, requests>>
      /\ pc' = [pc EXCEPT ![t] = "predict"]
  BY DEF Close, Goto
<1>2a. PICK g : g = [heap EXCEPT ![l] = [h EXCEPT !.entries = h.entries \o Closing]]
  OBVIOUS
<1>2b. \/ heap' = g
       \/ /\ Len(g[l].entries) > h.size
          /\ \E b \in Blocks \ {l} : /\ heap[b] # Null /\ heap[b].entries # <<>>
                                     /\ heap' = [g EXCEPT ![b].entries[1] = End]
  BY <1>1, <1>2a DEF Close, Entries, Free
<1>3. l \in Blocks /\ h \in Records /\ l \in Used
  BY <1>1, <1>2, Types DEF Own, Holding, Used
<1>4. /\ h.entries \in Seq(Numbers) /\ h.size \in Nat /\ Len(h.entries) \in Nat
      /\ h = [size |-> h.size, entries |-> h.entries]
  BY <1>3, LenProperties DEF Records
<1>5. Closing \in Seq(Numbers) /\ Len(Closing) = IF bias THEN 2 ELSE 1
  BY ClosingNumbers DEF TypeOK
<1>6. g = [heap EXCEPT ![l] = r]
  <2>1. PICK c : c = h.entries \o Closing
    OBVIOUS
  <2>2. [h EXCEPT !.entries = c] = [size |-> h.size, entries |-> c]
    BY <1>3 DEF Records
  <2> QED
    BY <1>1a, <1>2a, <2>1, <2>2
<1>7. h.entries \o Closing \in Seq(Numbers)
      /\ Len(h.entries \o Closing) = Len(h.entries) + Len(Closing)
  BY <1>4, <1>5, ConcatProperties
<1>8. r \in Records /\ (~bias => Len(r.entries) <= r.size)
  <2>1. ~bias => Len(h.entries) < h.size
    BY <1>1, <1>2 DEF Room
  <2> QED
    BY <1>1a, <1>4, <1>5, <1>7, <2>1 DEF Records
<1>9. Simple(s) => Wholly(s, r)
  <2> SUFFICES ASSUME Simple(s) PROVE Wholly(s, r)
    OBVIOUS
  <2>1. Partly(s, h, <<>>) /\ s \in SUBSET (1 .. Loaded)
    BY <1>1, <1>2, TextOf DEF Handled
  <2> DEFINE a == Ascending(s)
             n == Cardinality(s)
  <2>2. a \in Seq(1 .. Loaded) /\ Len(a) = n /\ n \in Nat
    BY <2>1, Ascends
  <2>3. PICK k \in 0 .. n :
          /\ h.entries = SubSeq(a, 1, k)
          /\ \/ <<>> = SubSeq(a, k + 1, n)
             \/ Enough(k, n)
    BY <2>1 DEF Partly
  <2>4. Enough(k, n)
    <3> SUFFICES ASSUME k # n, <<>> = SubSeq(a, k + 1, n) PROVE FALSE
      BY <2>3 DEF Enough
    <3> HIDE DEF a, n
    <3>1. k + 1 \in 1 .. Len(a) /\ n \in k + 1 .. Len(a)
      BY <2>2, <2>3
    <3>2. \A i \in k + 1 .. n : a[i] \in 1 .. Loaded
      <4> TAKE i \in k + 1 .. n
      <4>1. i \in 1 .. Len(a)
        BY <2>2, <3>1
      <4> QED
        BY <2>2, <4>1, ElementOfSeq
    <3>3. Len(SubSeq(a, k + 1, n)) = IF k + 1 <= n THEN n - (k + 1) + 1 ELSE 0
      <4>1. k + 1 \in Int /\ n \in Int
        BY <2>2, <2>3
      <4> QED
        BY <3>2, <4>1, SubSeqProperties
    <3>4. Len(<<>>) = 0
      BY EmptySeq
    <3> QED
      BY <2>2, <2>3, <3>1, <3>3, <3>4
  <2>5. r.size = InitialSize /\ r.entries = SubSeq(a, 1, k) \o Closing
    BY <1>1a, <2>1, <2>3 DEF Partly
  <2> QED
    BY <2>3, <2>4, <2>5 DEF Wholly
<1>10. /\ heap' \in [Blocks -> Records \cup {Null}] /\ heap'[l] = r
       /\ \A c \in Blocks \ {l} : Alike(c)
       /\ Inside' => Inside
       /\ ~bias => \A b \in Blocks : heap'[b] # Null => Len(heap'[b].entries) <= heap'[b].size
  <2>1. /\ g \in [Blocks -> Records \cup {Null}] /\ g[l] = r
        /\ \A c \in Blocks \ {l} : g[c] = heap[c]
    BY <1>3, <1>6, <1>8, Types
  <2>2. Len(h.entries) < h.size
    BY <1>1, <1>2 DEF Room
  <2>3. r # Null /\ r.size = h.size /\ Len(r.entries) = Len(h.entries) + Len(Closing)
    BY <1>1a, <1>7, <1>8, NullApart
  <2>4. CASE heap' = g
    <3>1. \A c \in Blocks : Overrun(c) => heap'[c] = heap[c]
      BY <1>1, <1>4, <2>1, <2>2, <2>4 DEF Overrun, Entries
    <3> QED
      BY <1>8, <2>1, <2>4, <3>1, InsideStays DEF Alike, Room, Used
  <2>5. CASE heap' # g
    <3>1. Len(r.entries) > r.size
      BY <1>2b, <2>1, <2>3, <2>5
    <3>2. PICK b \in Blocks \ {l} : /\ heap[b] # Null /\ heap[b].entries # <<>>
                                    /\ heap' = [g EXCEPT ![b].entries[1] = End]
      BY <1>2b, <2>5
    <3>3. PICK o : o = heap[b]
      OBVIOUS
    <3>4. PICK q : q = o.entries
      OBVIOUS
    <3>5. o \in Records /\ q \in Seq(Numbers) /\ q # <<>> /\ o.size \in Nat
      BY <3>2, <3>3, <3>4, Types DEF Records
    <3>6. 1 \in 1 .. Len(q) /\ End \in Numbers
      BY <3>5, EmptySeq, LenProperties DEF Numbers
    <3>7. PICK p : p = [q EXCEPT ![1] = End]
      OBVIOUS
    <3>8. p \in Seq(Numbers) /\ Len(p) = Len(q)
      BY <3>5, <3>6, <3>7, ExceptSeq
    <3>9. PICK m : m = [o EXCEPT !.entries = p]
      OBVIOUS
    <3>10. m \in Records /\ m.size = o.size /\ m.entries = p
      BY <3>5, <3>8, <3>9 DEF Records
    <3>11. heap' = [g EXCEPT ![b] = m]
      BY <2>1, <3>2, <3>3, <3>4, <3>7, <3>9
    <3>12. /\ heap' \in [Blocks -> Records \cup {Null}] /\ heap'[l] = r /\ heap'[b] = m
           /\ \A c \in Blocks \ {l, b} : heap'[c] = heap[c]
      BY <1>3, <2>1, <3>2, <3>10, <3>11
    <3>13. ~Inside'
      BY <1>3, <2>3, <3>1, <3>12 DEF Inside, Overrun, Entries
    <3>14. Alike(b)
      BY <3>2, <3>3, <3>4, <3>8, <3>10, <3>12, <3>13 DEF Alike
    <3>15. bias
      BY <1>8, <2>3, <3>1, <1>4, <1>5, <2>2
    <3> QED
      BY <3>12, <3>13, <3>14, <3>15 DEF Alike
  <2> QED
    BY <2>4, <2>5
<1>11. pc'[t] = "predict" /\ pc' \in [Threads -> PCs] /\ \A u \in Threads \ {t} : pc'[u] = pc[u]
  BY <1>2 DEF TypeOK, PCs
<1>12. Handled(t)'
  <2>1. Simple(s)' => Simple(s) /\ Wholly(s, r)'
    <3>1. (Simple(s)' => Simple(s)) /\ (Wholly(s, r)' <=> Wholly(s, r))
      BY <1>2, <1>10, SameModel
    <3> QED
      BY <1>9, <3>1
  <2>2. text'[t] = s /\ local'[t] = l /\ sample'[t] = sample[t] /\ answer'[t] = answer[t]
    BY <1>1, <1>2
  <2>3. Simple(s)' => sample[t] = l /\ answer[t] = NoAnswer
    BY <1>1, <1>2, <1>10, SameModel DEF Handled
  <2> QED
    BY <1>10, <1>11, <2>1, <2>2, <2>3 DEF Handled
<1>13. element' \in [Threads -> Seq(1 .. Loaded)]
  BY <1>2 DEF TypeOK
<1>14. /\ pc[t] = "convert" /\ pc'[t] \in Holding
       /\ UNCHANGED <<model, text, sample, local, odds, answer, requests>>
       /\ \A u \in Threads \ {t} : element'[u] = element[u]
       /\ pc'[t] = "convert" => Len(r.entries) < r.size
  BY <1>2, <1>11 DEF Holding
<1>15. l = local[t]
  BY <1>1
<1> QED
  BY <1>8, <1>10, <1>11, <1>12, <1>13, <1>14, <1>15, WriteKeeps

\* What is read of a sequence with a terminator is its front.
LEMMA ReadFront ==
  ASSUME NEW e \in Seq(Int), e # <<>>, e[Len(e)] = End
  PROVE  Read(e) \in Seq(Int)
<1> DEFINE N == {i \in 1 .. Len(e) : e[i] = End}
<1>1. DOMAIN e = 1 .. Len(e) /\ Len(e) \in Nat /\ Len(e) # 0
  BY EmptySeq, LenProperties
<1>2. N \in SUBSET Nat /\ Len(e) \in N
  BY <1>1
<1>3. PICK n \in N : \A m \in N : n <= m
  <2> HIDE DEF N
  <2> QED
    BY <1>2, LeastNumber
<1>4. e[n] = End /\ n \in DOMAIN e /\ \A j \in 1 .. n - 1 : e[j] # End
  <2> SUFFICES ASSUME NEW j \in 1 .. n - 1, e[j] = End PROVE FALSE
    BY <1>1
  <2>1. n \in 1 .. Len(e)
    OBVIOUS
  <2>2. j \in N /\ ~(n <= j)
    BY <1>1, <2>1
  <2> QED
    BY <1>3, <2>2
<1> HIDE DEF N
<1>5. PICK c : c = CHOOSE i \in DOMAIN e : e[i] = End /\ \A j \in 1 .. i - 1 : e[j] # End
  OBVIOUS
<1>6. c \in 0 .. Len(e)
  BY <1>1, <1>4, <1>5
<1>7. SubSeq(e, 1, c) \in Seq(Int)
  BY <1>6, Beginning
<1> QED
  BY <1>5, <1>7 DEF Read

\* A whole sample is complete, and the model says of it what it says of the text.
LEMMA WholeSample ==
  ASSUME TypeOK, NEW s \in SUBSET (1 .. Loaded), Simple(s),
         NEW b \in Used, Wholly(s, heap[b])
  PROVE  Complete(b) /\ Decision(Read(Entries(b))) = Reference(s)
<1>1. PICK e : e = heap[b].entries
  OBVIOUS
<1>2. PICK k \in 0 .. Cardinality(s) :
        Enough(k, Cardinality(s)) /\ e = SubSeq(Ascending(s), 1, k) \o Closing
  BY <1>1 DEF Wholly
<1>3. nr_feature \in 1 .. Loaded /\ bias \in BOOLEAN /\ (bias => Loaded <= nr_feature)
  BY DEF TypeOK, Simple
<1>4. e \in Seq(Int) /\ Len(e) = (IF bias THEN k + 2 ELSE k + 1) /\ e[Len(e)] = End
  BY <1>2, <1>3, SampleEntries
<1>5. Decision(e) = Reference(s)
  BY <1>2, <1>3, SampleSum
<1>6. Cardinality(s) + (IF bias THEN 2 ELSE 1) <= InitialSize /\ heap[b].size = InitialSize
      /\ InitialSize \in Nat /\ Cardinality(s) \in Nat
  BY SizesAssumption, Ascends DEF Simple, Fits, Wholly
<1>7. Len(e) <= heap[b].size /\ Len(e) > 0
  BY <1>2, <1>4, <1>6
<1>8. e # <<>>
  BY <1>7, EmptySeq
<1>9. Read(e) = e
  <2>1. DOMAIN e = 1 .. Len(e) /\ Len(e) \in Nat /\ Len(e) \in DOMAIN e
    BY <1>4, <1>7, LenProperties
  <2>2. \A j \in 1 .. Len(e) - 1 : e[j] # End
    <3> SUFFICES ASSUME NEW j \in 1 .. Len(e) - 1 PROVE e[j] # End
      OBVIOUS
    <3>1. /\ \A i \in 1 .. k : e[i] \in s
          /\ e[k + 1] = IF bias THEN nr_feature + 1 ELSE End
      BY <1>2, <1>3, SampleEntries
    <3>2. k \in Nat /\ \A x \in s : x \in Nat
      BY <1>2, <1>6, SizesAssumption
    <3>3. j \in 1 .. k \/ (bias /\ j = k + 1)
      BY <1>4, <3>2
    <3>4. nr_feature + 1 # End /\ \A x \in Nat : x # End
      BY <1>3, SizesAssumption DEF End
    <3> QED
      BY <3>1, <3>2, <3>3, <3>4
  <2>3. \A i \in DOMAIN e : i = Len(e) \/ i \in 1 .. Len(e) - 1
    BY <2>1
  <2>4. \A i \in DOMAIN e :
          e[i] = End /\ (\A j \in 1 .. i - 1 : e[j] # End) <=> i = Len(e)
    BY <1>4, <2>1, <2>2, <2>3
  <2>5. (CHOOSE i \in DOMAIN e : e[i] = End /\ \A j \in 1 .. i - 1 : e[j] # End) = Len(e)
    BY <2>1, <2>4
  <2> QED
    BY <1>4, <2>5, SubSeqFull DEF Read
<1> QED
  BY <1>1, <1>4, <1>5, <1>7, <1>8, <1>9 DEF Complete, Entries, Last, Used

\* The prediction.
LEMMA PredictKeeps == ASSUME RInv, NEW t \in Threads, Predict(t) PROVE RInv'
<1> USE DEF RInv
<1>1. PICK b, s : b = sample[t] /\ s = text[t]
  OBVIOUS
<1>2. PICK d \in IF Complete(b) THEN {Decision(Read(Entries(b)))} ELSE {-Largest, Largest} :
        /\ pc[t] = "predict" /\ pc' = [pc EXCEPT ![t] = "answer"]
        /\ odds' = [odds EXCEPT ![t] = d]
        /\ local' = [local EXCEPT ![t] = Null] /\ sample' = [sample EXCEPT ![t] = Null]
        /\ UNCHANGED <<model, text, element, answer, heap, requests>>
  BY <1>1 DEF Predict, Goto
<1>3. pc'[t] = "answer" /\ odds'[t] = d
      /\ \A u \in Threads \ {t} : /\ pc'[u] = pc[u] /\ odds'[u] = odds[u]
                                  /\ local'[u] = local[u] /\ sample'[u] = sample[u]
  BY <1>2 DEF TypeOK
<1>4. b \in Blocks /\ nr_feature \in 1 .. Loaded
  BY <1>1, <1>2 DEF Own, Holding, TypeOK
<1>5. d \in Int
  <2>1. CASE Complete(b)
    <3>1. PICK e : e = Entries(b)
      OBVIOUS
    <3>2. e \in Seq(Numbers)
      BY <1>4, <2>1, <3>1, Types DEF Complete, Entries, Used, Records
    <3>3. e \in Seq(Int)
      BY <3>2, NullApart, SeqMonotonic
    <3>4. e # <<>> /\ e[Len(e)] = End
      BY <2>1, <3>1 DEF Complete, Last
    <3>5. Read(e) \in Seq(Int)
      BY <3>3, <3>4, ReadFront
    <3>6. Decision(Read(e)) \in Int
      BY <1>4, <3>5, DecisionSum
    <3> QED
      BY <1>2, <2>1, <3>1, <3>6
  <2>2. CASE ~Complete(b)
    <3>1. PICK x : x = Largest
      OBVIOUS
    <3>2. x \in Int /\ d \in {-x, x}
      BY <1>2, <2>2, <3>1, LargestInt
    <3> QED
      BY <3>2
  <2> QED
    BY <2>1, <2>2
<1>6. TypeOK'
  <2>1. pc' \in [Threads -> PCs] /\ odds' \in [Threads -> Int]
    BY <1>2, <1>5 DEF TypeOK, PCs
  <2>2. sample' \in [Threads -> Blocks \cup {Null}] /\ local' \in [Threads -> Blocks \cup {Null}]
    BY <1>2 DEF TypeOK
  <2> QED
    BY <1>2, <2>1, <2>2 DEF TypeOK, model
<1>7. Counted'
  BY <1>2, <1>3, CountSame
<1>7a. Inside' => Inside
  BY <1>2, InsideStays
<1>8. Handled(t)'
  <2>1. Simple(s) => d = Reference(s)
    <3> SUFFICES ASSUME Simple(s) PROVE d = Reference(s)
      OBVIOUS
    <3>1. Wholly(s, heap[b]) /\ s \in SUBSET (1 .. Loaded) /\ b \in Used
      BY <1>1, <1>2, TextOf DEF Handled, Own, Holding
    <3>2. Complete(b) /\ Decision(Read(Entries(b))) = Reference(s)
      BY <3>1, WholeSample
    <3> QED
      BY <1>2, <3>2
  <2>2. Simple(s)' => Simple(s) /\ d = Reference(s)'
    BY <1>2, <1>7a, <2>1, SameModel
  <2>3. Simple(s) => answer[t] = NoAnswer
    BY <1>1, <1>2 DEF Handled
  <2>4. text'[t] = s /\ answer'[t] = answer[t]
    BY <1>1, <1>2
  <2> QED
    BY <1>3, <2>2, <2>3, <2>4 DEF Handled
<1>9. /\ UNCHANGED model /\ DOMAIN answer' = Threads /\ pc'[t] \notin Holding /\ pc'[t] # "refuse"
      /\ \A u \in Threads : /\ text'[u] = text[u] /\ element'[u] = element[u]
                            /\ answer'[u] = answer[u] /\ Alike(local[u])
  BY <1>2, <1>3 DEF Holding, Alike
<1>10. ~bias => \A c \in Blocks : heap'[c] # Null => Len(heap'[c].entries) <= heap'[c].size
  BY <1>2 DEF Room, Used
<1>11. pc'[t] = "convert" => FALSE
  BY <1>3
<1> QED
  BY <1>3, <1>6, <1>7, <1>7a, <1>8, <1>9, <1>10, <1>11, StepKeeps

\* The answer, and the refusal of a request without a text.
LEMMA AnswerKeeps ==
  ASSUME RInv, NEW t \in Threads, Answer(t) \/ Refuse(t)
  PROVE  RInv'
<1> USE DEF RInv
<1>1. PICK s, d, a : /\ s = text[t] /\ d = odds[t]
                     /\ a = [emotion |-> Emotion(d), confidence |-> Confidence(d)]
  OBVIOUS
<1>2. /\ pc[t] \in {"answer", "refuse"} /\ pc' = [pc EXCEPT ![t] = "idle"]
      /\ UNCHANGED <<model, text, element, sample, local, heap, requests>>
      /\ \/ /\ pc[t] = "answer" /\ odds' = [odds EXCEPT ![t] = 0]
            /\ answer' = [answer EXCEPT ![t] = a]
         \/ /\ pc[t] = "refuse" /\ odds' = odds
            /\ \E r : answer' = [answer EXCEPT ![t] = r]
  BY <1>1 DEF Answer, Refuse, Goto
<1>3. pc'[t] = "idle" /\ \A u \in Threads \ {t} : /\ pc'[u] = pc[u] /\ odds'[u] = odds[u]
                                                 /\ answer'[u] = answer[u]
  BY <1>2 DEF TypeOK
<1>4. TypeOK'
  <2>1. pc' \in [Threads -> PCs] /\ odds' \in [Threads -> Int]
    BY <1>2 DEF TypeOK, PCs
  <2> QED
    BY <1>2, <2>1 DEF TypeOK, model
<1>5. Counted'
  BY <1>2, <1>3, CountSame
<1>5a. Inside' => Inside
  BY <1>2, InsideStays
<1>6. Handled(t)'
  <2>1. text'[t] = s
    BY <1>1, <1>2
  <2>2. (Simple(s)' => Simple(s)) /\ Said(s)' = Said(s)
    BY <1>2, <1>5a, SameModel
  <2>3. Simple(s) => pc[t] = "answer" /\ a = Said(s)
    BY <1>1, <1>2 DEF Handled, Refused, Simple, Said
  <2>4. pc[t] = "answer" => answer'[t] = a
    BY <1>2
  <2> QED
    BY <1>3, <2>1, <2>2, <2>3, <2>4 DEF Handled
<1>7. /\ UNCHANGED model /\ DOMAIN answer' = Threads /\ pc'[t] \notin Holding /\ pc'[t] # "refuse"
      /\ \A u \in Threads : /\ text'[u] = text[u] /\ element'[u] = element[u]
                            /\ sample'[u] = sample[u] /\ local'[u] = local[u]
                            /\ Alike(local[u])
  BY <1>2, <1>3 DEF Holding, Alike
<1>8. ~bias => \A c \in Blocks : heap'[c] # Null => Len(heap'[c].entries) <= heap'[c].size
  BY <1>2 DEF Room, Used
<1>9. pc'[t] = "convert" => FALSE
  BY <1>3
<1> QED
  BY <1>3, <1>4, <1>5, <1>5a, <1>6, <1>7, <1>8, <1>9, StepKeeps

LEMMA NextKeeps == RInv /\ [Next]_vars => RInv'
<1> SUFFICES ASSUME RInv, [Next]_vars PROVE RInv'
  OBVIOUS
<1>1. CASE UNCHANGED vars
  <2>1. \A t \in Threads : Handled(t)'
    <3> TAKE t \in Threads
    <3>1. PICK s : s = text[t]
      OBVIOUS
    <3>2. UNCHANGED model
      BY <1>1 DEF vars, model
    <3>2a. Inside' => Inside
      BY <1>1, InsideStays DEF vars
    <3>3. /\ (Simple(s)' => Simple(s)) /\ Reference(s)' = Reference(s) /\ Said(s)' = Said(s)
          /\ \A r, e : Partly(s, r, e)' <=> Partly(s, r, e)
          /\ \A r : Wholly(s, r)' <=> Wholly(s, r)
      BY <3>2, <3>2a, SameModel
    <3> QED
      BY <1>1, <3>1, <3>3 DEF RInv, Handled, vars
  <2> QED
    BY <1>1, <2>1
       DEF RInv, vars, model, TypeOK, Own, Room, Counted, Refused, Used, Waiting
<1>2. CASE Next
  <2>1. PICK t \in Threads :
          \/ Request(t) \/ Allocate(t) \/ Realloc(t) \/ Store(t) \/ Close(t)
          \/ Predict(t) \/ Answer(t) \/ Refuse(t)
    BY <1>2 DEF Next
  <2> QED
    BY <2>1, RequestKeeps, AllocateKeeps, ReallocKeeps, StoreKeeps, CloseKeeps,
       PredictKeeps, AnswerKeeps
<1> QED
  BY <1>1, <1>2

\* In every execution.
THEOREM Invariance == Spec => []RInv
BY InitHolds, NextKeeps, PTL DEF Spec

\* Without a bias no entry is written behind its block, and each prediction leaves
\* one block behind: the requests that arrived are the blocks that malloc gave, but
\* for those that still wait for theirs.
THEOREM BlocksAccounted == Spec => []BlocksOfRequests
<1>1. RInv => BlocksOfRequests
  <2> SUFFICES ASSUME RInv PROVE BlocksOfRequests
    OBVIOUS
  <2>1. Blocks \ Free = Used
    BY DEF Free, Used
  <2>2. Cardinality(Blocks \ Free) = requests - Cardinality({t \in Threads : pc[t] = "malloc"})
    BY <2>1 DEF RInv, Counted, Waiting
  <2>3. \A b \in Blocks : heap[b] # Null => Len(heap[b].entries) \in Nat /\ heap[b].size \in Nat
    BY Types DEF RInv, Records, Used
  <2>4. ~bias => Inside
    BY <2>3 DEF RInv, Room, Used, Inside, Overrun, Entries
  <2> QED
    BY <2>2, <2>4 DEF RInv, BlocksOfRequests
<1> QED
  BY <1>1, Invariance, PTL

\* A text is answered with what the model says of it.
THEOREM AnswersOwnText == Spec => []AnswerOfText
<1>1. RInv => AnswerOfText
  BY DEF RInv, AnswerOfText, Handled, Simple, Said
<1> QED
  BY <1>1, Invariance, PTL
=============================================================================
