----------------------- MODULE IntegerHashTableProofs -----------------------
(***************************************************************************)
(* Machine-checked proofs about IntegerHashTable, for any number of keys,  *)
(* entries and nodes: no node is lost or in two lists, the table is a map, *)
(* and an iteration meets each of its keys once and ends.                  *)
(***************************************************************************)
EXTENDS IntegerHashTable, FiniteSetTheorems, FunctionTheorems, WellFoundedInduction, TLAPS

-----------------------------------------------------------------------------
(* Numbers.                                                                *)

\* Among natural numbers one is least: a smallest initial interval has no other
\* inside.
LEMMA LeastNumber ==
  ASSUME NEW S \in SUBSET Nat, S # {}
  PROVE  \E n \in S : \A m \in S : n <= m
<1>1. PICK k \in S : TRUE
  OBVIOUS
<1> DEFINE K == 0 .. k
           B == {0 .. m : m \in {i \in S : i <= k}}
<1>2. IsFiniteSet(K)
  BY FS_Interval
<1>3. B \subseteq FiniteSubsetsOf(K) /\ B # {}
  <2>1. \A m \in {i \in S : i <= k} : 0 .. m \in SUBSET K
    OBVIOUS
  <2>2. k \in {i \in S : i <= k}
    OBVIOUS
  <2> HIDE DEF K
  <2>3. \A s \in SUBSET K : IsFiniteSet(s)
    BY <1>2, FS_Subset
  <2> QED
    BY <2>1, <2>2, <2>3 DEF FiniteSubsetsOf
<1>4. PICK s \in B : \A r \in B : ~(<<r, s>> \in StrictSubsetOrdering(K))
  <2> HIDE DEF B, K
  <2> QED
    BY <1>3, WFMin, FS_StrictSubsetOrderingWellFounded
<1>5. \A r \in B : r \subseteq s => r = s
  BY <1>3, <1>4 DEF StrictSubsetOrdering, FiniteSubsetsOf
<1>6. PICK n \in S : n <= k /\ s = 0 .. n
  BY <1>4
<1>7. \A m \in S : n <= m
  <2> SUFFICES ASSUME NEW m \in S, m < n PROVE FALSE
    OBVIOUS
  <2>1. m <= k
    BY <1>6
  <2>2. 0 .. m \in B
    BY <2>1
  <2>3. 0 .. m \subseteq 0 .. n /\ n \in 0 .. n /\ n \notin 0 .. m
    OBVIOUS
  <2> QED
    BY <1>5, <1>6, <2>2, <2>3
<1> QED
  BY <1>7

\* What holds of 0 and, up to n, of every number whose predecessor has it, holds up
\* to n.
LEMMA Upwards ==
  ASSUME NEW n \in Nat, NEW S, 0 \in S, \A j \in 0 .. n - 1 : j \in S => j + 1 \in S
  PROVE  0 .. n \subseteq S
<1> SUFFICES ASSUME NEW m \in 0 .. n, m \notin S PROVE FALSE
  OBVIOUS
<1> DEFINE B == {i \in 0 .. n : i \notin S}
<1>1. B \in SUBSET Nat /\ B # {}
  OBVIOUS
<1>2. PICK b \in B : \A i \in B : b <= i
  <2> HIDE DEF B
  <2> QED
    BY <1>1, LeastNumber
<1>3. b # 0 /\ b \in 0 .. n /\ b \notin S
  OBVIOUS
<1>4. b - 1 \in 0 .. n - 1 /\ b - 1 \notin B /\ b - 1 + 1 = b
  BY <1>2, <1>3
<1> QED
  BY <1>3, <1>4

-----------------------------------------------------------------------------
(* Lists.  The lemmas are about any next fields nx of n nodes.             *)

Links(nx, n) == nx \in [0 .. n - 1 -> 0 .. n - 1 \cup {None}]

\* w is what is met on the way from h on.
Walked(w, nx, n, h) ==
  w = [j \in 0 .. n |-> IF j = 0 THEN h
                        ELSE IF w[j - 1] = None THEN None ELSE nx[w[j - 1]]]

\* Path, of any next fields.
PathOf(nx, n, h) ==
  LET step[j \in 0 .. n] == IF j = 0 THEN h
                            ELSE IF step[j - 1] = None THEN None ELSE nx[step[j - 1]]
      w == [j \in 0 .. n |-> step[j]]
  IN  {w[j] : j \in DOMAIN w} \ {None}

\* P is the list from h on: the least set that has h and the next of each of its
\* nodes, and only one of them is the last.
List(P, nx, h) ==
  /\ h = None => P = {}
  /\ h # None => h \in P
  /\ None \notin P
  /\ \A i \in P : nx[i] # None => nx[i] \in P
  /\ \A C : (h # None => h \in C) /\ (\A i \in C \cap P : nx[i] # None => nx[i] \in C) => P \subseteq C
  /\ \A i, j \in P : nx[i] = None /\ nx[j] = None => i = j

LEMMA WalkExists ==
  ASSUME NEW n \in Nat, NEW nx, NEW h
  PROVE  \E w : Walked(w, nx, n, h)
<1> DEFINE S == {m \in Nat : \E w : Walked(w, nx, m, h)}
<1>1. 0 \in S
  <2>1. Walked([j \in 0 .. 0 |-> h], nx, 0, h)
    BY DEF Walked
  <2> QED
    BY <2>1
<1>2. ASSUME NEW m \in Nat, m \in S PROVE m + 1 \in S
  <2>1. PICK w : Walked(w, nx, m, h)
    BY <1>2
  <2> DEFINE last == IF w[m] = None THEN None ELSE nx[w[m]]
             v == [j \in 0 .. m + 1 |-> IF j = m + 1 THEN last ELSE w[j]]
  <2>2. \A j \in 0 .. m + 1 : v[j] = IF j = 0 THEN h
                                     ELSE IF v[j - 1] = None THEN None ELSE nx[v[j - 1]]
    <3> TAKE j \in 0 .. m + 1
    <3>1. CASE j = m + 1
      <4>1. j # 0 /\ j - 1 = m /\ m \in 0 .. m + 1 /\ m # m + 1
        BY <3>1
      <4> QED
        BY <3>1, <4>1
    <3>2. CASE j # m + 1
      <4>1. j \in 0 .. m /\ (j # 0 => j - 1 \in 0 .. m /\ j - 1 \in 0 .. m + 1 /\ j - 1 # m + 1)
        BY <3>2
      <4>2. w[j] = IF j = 0 THEN h ELSE IF w[j - 1] = None THEN None ELSE nx[w[j - 1]]
        BY <2>1, <4>1 DEF Walked
      <4> QED
        BY <3>2, <4>1, <4>2
    <3> QED
      BY <3>1, <3>2
  <2>3. Walked(v, nx, m + 1, h)
    <3> HIDE DEF last
    <3>1. v = [j \in 0 .. m + 1 |-> v[j]]
      OBVIOUS
    <3> HIDE DEF v
    <3> QED
      BY <2>2, <3>1 DEF Walked
  <2> QED
    BY <2>3
<1> HIDE DEF S
<1>3. 0 .. n \subseteq S
  BY <1>1, <1>2, Upwards
<1> QED
  BY <1>3 DEF S

\* The walk of n steps meets the whole list.
LEMMA WalkIsList ==
  ASSUME NEW n \in Nat \ {0}, NEW nx, Links(nx, n), NEW h \in 0 .. n - 1 \cup {None},
         NEW w, Walked(w, nx, n, h)
  PROVE  /\ List({w[j] : j \in 0 .. n} \ {None}, nx, h)
         /\ {w[j] : j \in 0 .. n} \ {None} \subseteq 0 .. n - 1
<1> DEFINE N == 0 .. n - 1
           P == {w[j] : j \in 0 .. n} \ {None}
<1>1. w[0] = h /\ \A j \in 0 .. n - 1 : w[j + 1] = IF w[j] = None THEN None ELSE nx[w[j]]
  <2>1. w[0] = h
    BY DEF Walked
  <2>2. ASSUME NEW j \in 0 .. n - 1 PROVE w[j + 1] = IF w[j] = None THEN None ELSE nx[w[j]]
    <3>1. j + 1 \in 0 .. n /\ j + 1 # 0 /\ j + 1 - 1 = j
      OBVIOUS
    <3> QED
      BY <3>1 DEF Walked
  <2> QED
    BY <2>1, <2>2
<1>2. None \notin N
  BY DEF None
<1> HIDE DEF None
<1>3. \A j \in 0 .. n : w[j] \in N \cup {None}
  <2> DEFINE S == {j \in 0 .. n : w[j] \in N \cup {None}}
  <2>1. 0 \in S
    BY <1>1
  <2>2. ASSUME NEW j \in 0 .. n - 1, j \in S PROVE j + 1 \in S
    <3>1. w[j] \in N \cup {None} /\ j + 1 \in 0 .. n
      BY <2>2
    <3>2. w[j + 1] = None \/ (w[j] \in N /\ w[j + 1] = nx[w[j]])
      BY <1>1, <3>1
    <3> QED
      BY <3>1, <3>2 DEF Links
  <2> HIDE DEF S
  <2>3. 0 .. n \subseteq S
    BY <2>1, <2>2, Upwards
  <2> QED
    BY <2>3 DEF S
<1>4. \A j \in 0 .. n : w[j] = None => \A l \in j .. n : w[l] = None
  <2> SUFFICES ASSUME NEW j \in 0 .. n, w[j] = None PROVE \A l \in j .. n : w[l] = None
    OBVIOUS
  <2> DEFINE S == {l \in 0 .. n : l >= j => w[l] = None}
  <2>1. 0 \in S
    OBVIOUS
  <2>2. ASSUME NEW l \in 0 .. n - 1, l \in S PROVE l + 1 \in S
    BY <1>1, <2>2
  <2> HIDE DEF S
  <2>3. 0 .. n \subseteq S
    BY <2>1, <2>2, Upwards
  <2> QED
    BY <2>3 DEF S
<1>5. P \subseteq N
  BY <1>3
<1>6. \A i \in P : nx[i] # None => nx[i] \in P
  <2> SUFFICES ASSUME NEW a \in 0 .. n, w[a] # None, nx[w[a]] # None PROVE nx[w[a]] \in P
    OBVIOUS
  <2>1. CASE a # n
    <3>1. a + 1 \in 0 .. n /\ a \in 0 .. n - 1
      BY <2>1
    <3> QED
      BY <1>1, <3>1
  <2>2. CASE a = n
    <3> DEFINE S == {b \in 0 .. n : \A l \in 0 .. b - 1 : w[l] # w[b]}
    <3>1. n \notin S
      <4> SUFFICES ASSUME n \in S PROVE FALSE
        OBVIOUS
      <4>1. \A b \in 0 .. n : b \in S
        <5> DEFINE B == {m \in Nat : n - m \in 0 .. n /\ n - m \notin S}
        <5>1. CASE B = {}
          <6> TAKE b \in 0 .. n
          <6>1. n - b \in Nat /\ n - (n - b) = b
            OBVIOUS
          <6> QED
            BY <5>1, <6>1
        <5>2. CASE B # {}
          <6>1. PICK m \in B : \A q \in B : m <= q
            <7>1. B \in SUBSET Nat
              OBVIOUS
            <7> HIDE DEF B
            <7> QED
              BY <5>2, <7>1, LeastNumber
          <6>2. m # 0 /\ m \in 1 .. n
            BY <6>1
          <6>3. m - 1 \in Nat /\ m - 1 \notin B
            BY <6>1, <6>2
          <6>4. n - (m - 1) \in 0 .. n /\ n - (m - 1) \in S /\ n - m \in 0 .. n - 1
                /\ n - (m - 1) = (n - m) + 1
            BY <6>2, <6>3
          <6>5. PICK l \in 0 .. (n - m) - 1 : w[l] = w[n - m]
            BY <6>1, <6>4
          <6>6. w[l + 1] = w[(n - m) + 1]
            BY <1>1, <6>4, <6>5
          <6>7. l + 1 \in 0 .. (n - (m - 1)) - 1
            BY <6>4, <6>5
          <6> QED
            BY <6>4, <6>6, <6>7
        <5> QED
          BY <5>1, <5>2
      <4>2. \A b \in 0 .. n : w[b] \in N
        BY <1>3, <1>4, <2>2
      <4> DEFINE f == [b \in 0 .. n |-> w[b]]
      <4>3. \A x, y \in 0 .. n : x # y => f[x] # f[y]
        <5> SUFFICES ASSUME NEW x \in 0 .. n, NEW y \in 0 .. n, x < y PROVE w[x] # w[y]
          OBVIOUS
        <5>1. x \in 0 .. y - 1
          OBVIOUS
        <5> QED
          BY <4>1, <5>1
      <4>4. f \in [0 .. n -> N]
        BY <4>2
      <4>5. /\ IsFiniteSet(0 .. n) /\ IsFiniteSet(N)
            /\ Cardinality(0 .. n) = n + 1 /\ Cardinality(N) = n
        <5>1. /\ IsFiniteSet(0 .. n) /\ Cardinality(0 .. n) = IF 0 > n THEN 0 ELSE n - 0 + 1
              /\ IsFiniteSet(N)
              /\ Cardinality(N) = IF 0 > n - 1 THEN 0 ELSE (n - 1) - 0 + 1
          BY FS_Interval
        <5> QED
          BY <5>1
      <4>6. Cardinality(N) < Cardinality(0 .. n)
        BY <4>5
      <4>7. \E x, y \in 0 .. n : x # y /\ f[x] = f[y]
        <5> HIDE DEF f, N
        <5> QED
          BY <4>4, <4>5, <4>6, FS_PigeonHole
      <4> QED
        BY <4>3, <4>7
    <3>2. PICK l \in 0 .. n - 1 : w[l] = w[n]
      BY <3>1
    <3>3. w[l + 1] = nx[w[a]] /\ l + 1 \in 0 .. n
      BY <1>1, <2>2, <3>2
    <3> QED
      BY <3>3
  <2> QED
    BY <2>1, <2>2
<1>7. ASSUME NEW C, h # None => h \in C, \A i \in C \cap P : nx[i] # None => nx[i] \in C
      PROVE  P \subseteq C
  <2> DEFINE S == {j \in 0 .. n : w[j] # None => w[j] \in C}
  <2>1. 0 \in S
    BY <1>1, <1>7
  <2>2. ASSUME NEW j \in 0 .. n - 1, j \in S PROVE j + 1 \in S
    <3> SUFFICES ASSUME w[j + 1] # None PROVE w[j + 1] \in C
      OBVIOUS
    <3>1. w[j] # None /\ w[j + 1] = nx[w[j]] /\ j \in 0 .. n
      BY <1>1
    <3>2. w[j] \in C \cap P
      BY <2>2, <3>1
    <3> QED
      BY <1>7, <3>1, <3>2
  <2> HIDE DEF S
  <2>3. 0 .. n \subseteq S
    BY <2>1, <2>2, Upwards
  <2> QED
    BY <2>3 DEF S
<1>8. \A i, j \in P : nx[i] = None /\ nx[j] = None => i = j
  <2>1. ASSUME NEW a \in 0 .. n, NEW b \in 0 .. n, a < b, w[a] # None, nx[w[a]] = None
        PROVE  w[b] = None
    <3>1. a \in 0 .. n - 1 /\ w[a + 1] = None /\ a + 1 \in 0 .. n /\ b \in a + 1 .. n
      BY <1>1, <2>1
    <3> QED
      BY <1>4, <3>1
  <2> QED
    BY <2>1
<1>9. h = None => P = {}
  <2>1. h = None => \A j \in 0 .. n : w[j] = None
    BY <1>1, <1>4
  <2> QED
    BY <2>1
<1>10. h # None => h \in P
  BY <1>1
<1> QED
  BY <1>5, <1>6, <1>7, <1>8, <1>9, <1>10 DEF List

LEMMA PathIsList ==
  ASSUME NEW n \in Nat \ {0}, NEW nx, Links(nx, n), NEW h \in 0 .. n - 1 \cup {None}
  PROVE  List(PathOf(nx, n, h), nx, h) /\ PathOf(nx, n, h) \subseteq 0 .. n - 1
<1> DEFINE step == CHOOSE w : w = [j \in 0 .. n |->
                     IF j = 0 THEN h ELSE IF w[j - 1] = None THEN None ELSE nx[w[j - 1]]]
<1>1. PICK v : Walked(v, nx, n, h)
  BY WalkExists
<1>2. Walked(step, nx, n, h)
  BY <1>1 DEF Walked
<1>3. PathOf(nx, n, h) = {step[j] : j \in 0 .. n} \ {None}
  BY DEF PathOf
<1> HIDE DEF step
<1>4. List({step[j] : j \in 0 .. n} \ {None}, nx, h)
      /\ {step[j] : j \in 0 .. n} \ {None} \subseteq 0 .. n - 1
  BY <1>2, WalkIsList
<1> QED
  BY <1>3, <1>4

\* A set that has the start of a list, and the next of each of its nodes in the
\* list, has the whole list.
LEMMA Least ==
  ASSUME NEW P, NEW nx, NEW h, List(P, nx, h), NEW C, h # None => h \in C,
         \A i \in P : i \in C /\ nx[i] # None => nx[i] \in C
  PROVE  P \subseteq C
BY DEF List

\* Other next fields, but not in the list.
LEMMA SameList ==
  ASSUME NEW P, NEW nx, NEW h, List(P, nx, h), NEW Q, NEW ny, List(Q, ny, h),
         \A i \in P : ny[i] = nx[i]
  PROVE  Q = P
<1>1. Q \subseteq P
  <2>1. h # None => h \in P
    BY DEF List
  <2>2. \A i \in Q : i \in P /\ ny[i] # None => ny[i] \in P
    BY DEF List
  <2> QED
    BY <2>1, <2>2, Least
<1>2. P \subseteq Q
  <2>1. h # None => h \in Q
    BY DEF List
  <2>2. \A i \in P : i \in Q /\ nx[i] # None => nx[i] \in Q
    BY DEF List
  <2> QED
    BY <2>1, <2>2, Least
<1> QED
  BY <1>1, <1>2

\* The list without its first node.
LEMMA Beheaded ==
  ASSUME NEW P, NEW nx, NEW h, List(P, nx, h), h # None, \A i \in P : nx[i] # h,
         NEW Q, NEW ny, NEW g, g = nx[h], List(Q, ny, g),
         \A i \in P \ {h} : ny[i] = nx[i]
  PROVE  Q = P \ {h}
<1>1. Q \subseteq P \ {h}
  <2>1. g # None => g \in P \ {h}
    BY DEF List
  <2>2. \A i \in Q : i \in P \ {h} /\ ny[i] # None => ny[i] \in P \ {h}
    BY DEF List
  <2>3. PICK C : C = P \ {h}
    OBVIOUS
  <2>4. Q \subseteq C
    BY <2>1, <2>2, <2>3, Least
  <2> QED
    BY <2>3, <2>4
<1>2. P \subseteq Q \cup {h}
  <2>1. \A i \in P : i \in Q \cup {h} /\ nx[i] # None => nx[i] \in Q \cup {h}
    BY DEF List
  <2>2. PICK C : C = Q \cup {h}
    OBVIOUS
  <2>3. P \subseteq C
    BY <2>1, <2>2, Least
  <2> QED
    BY <2>2, <2>3
<1> QED
  BY <1>1, <1>2

\* The list with a node behind its last.
LEMMA Appended ==
  ASSUME NEW P, NEW nx, NEW h, List(P, nx, h), h # None, NEW z \in P, nx[z] = None,
         NEW a, a \notin P, a # None,
         NEW Q, NEW ny, List(Q, ny, h), ny[z] = a, ny[a] = None,
         \A i \in P \ {z} : ny[i] = nx[i]
  PROVE  Q = P \cup {a}
<1>1. Q \subseteq P \cup {a}
  <2>1. h \in P \cup {a}
    BY DEF List
  <2>2. \A i \in Q : i \in P \cup {a} /\ ny[i] # None => ny[i] \in P \cup {a}
    BY DEF List
  <2>3. PICK C : C = P \cup {a}
    OBVIOUS
  <2>4. Q \subseteq C
    BY <2>1, <2>2, <2>3, Least
  <2> QED
    BY <2>3, <2>4
<1>2. P \subseteq Q
  <2>1. h \in Q
    BY DEF List
  <2>2. \A i \in P : i \in Q /\ nx[i] # None => nx[i] \in Q
    BY DEF List
  <2> QED
    BY <2>1, <2>2, Least
<1>3. a \in Q
  BY <1>2 DEF List
<1> QED
  BY <1>1, <1>2, <1>3

\* The list of one node.
LEMMA Alone ==
  ASSUME NEW a, a # None, NEW Q, NEW ny, List(Q, ny, a), ny[a] = None
  PROVE  Q = {a}
<1>1. a \in Q
  BY DEF List
<1>2. Q \subseteq {a}
  <2>1. \A i \in Q : i \in {a} /\ ny[i] # None => ny[i] \in {a}
    OBVIOUS
  <2> QED
    BY <2>1, Least
<1> QED
  BY <1>1, <1>2

\* The list past one of its nodes.
LEMMA Cut ==
  ASSUME NEW P, NEW nx, NEW h, List(P, nx, h), NEW i \in P, i # h,
         \A j, l \in P : nx[j] = nx[l] /\ nx[j] # None => j = l,
         NEW Q, NEW ny, List(Q, ny, h),
         \A j \in P \ {i} : ny[j] = IF nx[j] = i THEN nx[i] ELSE nx[j]
  PROVE  Q = P \ {i}
<1>1. Q \subseteq P \ {i}
  <2>1. h # None => h \in P \ {i}
    BY DEF List
  <2>2. \A j \in Q : j \in P \ {i} /\ ny[j] # None => ny[j] \in P \ {i}
    <3> SUFFICES ASSUME NEW j \in P \ {i}, ny[j] # None PROVE ny[j] \in P \ {i}
      OBVIOUS
    <3>1. CASE nx[j] = i
      <4>1. ny[j] = nx[i] /\ nx[i] \in P
        BY <3>1 DEF List
      <4>2. i # None
        BY DEF List
      <4> QED
        BY <3>1, <4>1, <4>2
    <3>2. CASE nx[j] # i
      BY <3>2 DEF List
    <3> QED
      BY <3>1, <3>2
  <2>3. PICK C : C = P \ {i}
    OBVIOUS
  <2>4. Q \subseteq C
    BY <2>1, <2>2, <2>3, Least
  <2> QED
    BY <2>3, <2>4
<1>2. P \subseteq Q \cup {i}
  <2> DEFINE C == {j \in Q \cup {i} : j # i \/ nx[i] = None \/ nx[i] \in Q}
  <2>1. h # None => h \in C
    BY DEF List
  <2>2. \A j \in P : j \in C /\ nx[j] # None => nx[j] \in C
    <3> SUFFICES ASSUME NEW j \in P, j \in C, nx[j] # None PROVE nx[j] \in C
      OBVIOUS
    <3>1. CASE j = i
      <4>1. nx[i] \in Q
        BY <3>1
      <4> QED
        BY <3>1, <4>1
    <3>2. CASE j # i /\ nx[j] = i
      <4>1. j \in Q /\ ny[j] = nx[i] /\ (ny[j] # None => ny[j] \in Q)
        BY <3>2 DEF List
      <4> QED
        BY <3>2, <4>1
    <3>3. CASE j # i /\ nx[j] # i
      <4>1. j \in Q /\ ny[j] = nx[j] /\ nx[j] \in Q
        BY <3>3 DEF List
      <4> QED
        BY <3>3, <4>1
    <3> QED
      BY <3>1, <3>2, <3>3
  <2> HIDE DEF C
  <2>3. P \subseteq C
    BY <2>1, <2>2, Least
  <2> QED
    BY <2>3 DEF C
<1> QED
  BY <1>1, <1>2

\* The list with a node before its first.
LEMMA Pushed ==
  ASSUME NEW P, NEW nx, NEW h, List(P, nx, h), NEW i, i \notin P, i # None,
         NEW Q, NEW ny, List(Q, ny, i), ny[i] = h, \A j \in P : ny[j] = nx[j]
  PROVE  Q = P \cup {i}
<1>1. i \in Q
  BY DEF List
<1>2. Q \subseteq P \cup {i}
  <2>1. \A j \in Q : j \in P \cup {i} /\ ny[j] # None => ny[j] \in P \cup {i}
    BY DEF List
  <2>2. PICK C : C = P \cup {i}
    OBVIOUS
  <2>3. Q \subseteq C
    BY <2>1, <2>2, Least
  <2> QED
    BY <2>2, <2>3
<1>3. P \subseteq Q
  <2>1. h # None => h \in Q
    BY <1>1 DEF List
  <2>2. \A j \in P : j \in Q /\ nx[j] # None => nx[j] \in Q
    BY DEF List
  <2> QED
    BY <2>1, <2>2, Least
<1> QED
  BY <1>1, <1>2, <1>3

\* The list goes on from its last node through new ones to the last of these.
LEMMA Prolonged ==
  ASSUME NEW n \in Nat \ {0}, NEW m \in Nat, m > n,
         NEW P \in SUBSET (0 .. n - 1), NEW nx, NEW h, List(P, nx, h),
         n - 1 \in P, nx[n - 1] = None,
         NEW Q, NEW ny, List(Q, ny, h),
         \A i \in P : i # n - 1 => ny[i] = nx[i],
         \A i \in n - 1 .. m - 1 : ny[i] = IF i < m - 1 THEN i + 1 ELSE None
  PROVE  Q = P \cup n .. m - 1
<1>1. h # None
  BY DEF List
<1>2. Q \subseteq P \cup n .. m - 1
  <2>1. h \in P \cup n .. m - 1
    BY <1>1 DEF List
  <2>2. \A i \in P \cup n .. m - 1 : ny[i] # None => ny[i] \in P \cup n .. m - 1
    <3> TAKE i \in P \cup n .. m - 1
    <3>1. CASE i \in P /\ i # n - 1
      BY <3>1 DEF List
    <3>2. CASE i \in n - 1 .. m - 1
      <4>1. i < m - 1 => i + 1 \in n .. m - 1
        BY <3>2
      <4> QED
        BY <3>2, <4>1
    <3> QED
      BY <3>1, <3>2
  <2>3. PICK C : C = P \cup n .. m - 1
    OBVIOUS
  <2>4. h \in C /\ \A i \in Q : i \in C /\ ny[i] # None => ny[i] \in C
    BY <2>1, <2>2, <2>3
  <2>5. Q \subseteq C
    BY <2>4, Least
  <2> QED
    BY <2>3, <2>5
<1>3. P \subseteq Q
  <2>1. \A i \in P : i \in Q /\ nx[i] # None => nx[i] \in Q
    BY DEF List
  <2> QED
    BY <1>1, <2>1, Least DEF List
<1>4. n .. m - 1 \subseteq Q
  <2> DEFINE S == {j \in 0 .. m - n : n - 1 + j \in Q}
  <2>1. 0 \in S
    BY <1>3
  <2>2. ASSUME NEW j \in 0 .. (m - n) - 1, j \in S PROVE j + 1 \in S
    <3>1. n - 1 + j \in Q /\ n - 1 + j \in n - 1 .. m - 1 /\ n - 1 + j < m - 1
      BY <2>2
    <3>2. ny[n - 1 + j] = n - 1 + j + 1 /\ n - 1 + j + 1 # None
      BY <3>1 DEF None
    <3>3. n - 1 + j + 1 \in Q
      BY <3>1, <3>2 DEF List
    <3>4. n - 1 + (j + 1) = n - 1 + j + 1 /\ j + 1 \in 0 .. m - n
      OBVIOUS
    <3> QED
      BY <3>3, <3>4
  <2>3. m - n \in Nat
    OBVIOUS
  <2> HIDE DEF S
  <2>4. 0 .. m - n \subseteq S
    BY <2>1, <2>2, <2>3, Upwards
  <2> SUFFICES ASSUME NEW i \in n .. m - 1 PROVE i \in Q
    OBVIOUS
  <2>5. i - (n - 1) \in 0 .. m - n /\ n - 1 + (i - (n - 1)) = i
    OBVIOUS
  <2> QED
    BY <2>4, <2>5 DEF S
<1> QED
  BY <1>2, <1>3, <1>4

\* A finite list that nothing leads back into has a last node.
LEMMA Ended ==
  ASSUME NEW P, IsFiniteSet(P), NEW nx, NEW h, List(P, nx, h), h # None,
         \A i \in P : nx[i] # h,
         \A j, l \in P : nx[j] = nx[l] /\ nx[j] # None => j = l
  PROVE  \E z \in P : nx[z] = None
<1> SUFFICES ASSUME \A z \in P : nx[z] # None PROVE FALSE
  OBVIOUS
<1> DEFINE f == [i \in P |-> nx[i]]
           T == P \ {h}
<1>1. h \in P /\ f \in [P -> T]
  BY DEF List
<1>2. IsFiniteSet(T) /\ Cardinality(T) = Cardinality(P) - 1 /\ Cardinality(P) \in Nat
  BY <1>1, FS_RemoveElement, FS_CardinalityType
<1>3. Cardinality(T) < Cardinality(P)
  BY <1>2
<1>4. \A x, y \in P : f[x] = f[y] => x = y
  OBVIOUS
<1>5. \E x, y \in P : x # y /\ f[x] = f[y]
  <2> HIDE DEF f, T
  <2> QED
    BY <1>1, <1>2, <1>3, FS_PigeonHole
<1> QED
  BY <1>4, <1>5

-----------------------------------------------------------------------------
(* Tables.  F are the free nodes of a table and C[e] those of the chain of *)
(* entry e; en, ky, nx, n, av and sz are what the variables entry, key,    *)
(* next, nodes_num, avai and size are.                                     *)

Used(C) == UNION {C[e] : e \in Places}

Ranged(en, ky, nx, n, av, sz) ==
  /\ n \in Nat \ {0} /\ av \in 0 .. n - 1 /\ sz \in Nat
  /\ en \in [Places -> 0 .. n - 1 \cup {None}]
  /\ ky \in [0 .. n - 1 -> Nat]
  /\ Links(nx, n)

\* No two nodes lead to the same, and none to the start of a list.
Threaded(en, nx, n, av) ==
  /\ \A i, j \in 0 .. n - 1 : nx[i] = nx[j] /\ nx[i] # None => i = j
  /\ \A i \in 0 .. n - 1 : nx[i] # None => nx[i] # av /\ \A e \in Places : nx[i] # en[e]

Listed(F, C, en, nx, av) ==
  /\ List(F, nx, av)
  /\ C \in [Places -> SUBSET Nat] /\ \A e \in Places : List(C[e], nx, en[e])

ChainsOf(nx, n, en) == [e \in Places |-> PathOf(nx, n, en[e])]

\* All lists of next fields and starts that are in range.
LEMMA AllLists ==
  ASSUME NEW n \in Nat \ {0}, NEW nx, Links(nx, n), NEW av \in 0 .. n - 1,
         NEW en \in [Places -> 0 .. n - 1 \cup {None}],
         NEW G, G = PathOf(nx, n, av), NEW D, D = ChainsOf(nx, n, en)
  PROVE  Listed(G, D, en, nx, av)
<1>1. List(PathOf(nx, n, av), nx, av)
  BY PathIsList
<1>2. \A e \in Places : /\ List(PathOf(nx, n, en[e]), nx, en[e])
                        /\ PathOf(nx, n, en[e]) \in SUBSET Nat
  <2> TAKE e \in Places
  <2>1. PICK h \in 0 .. n - 1 \cup {None} : h = en[e]
    OBVIOUS
  <2>2. List(PathOf(nx, n, h), nx, h) /\ PathOf(nx, n, h) \subseteq 0 .. n - 1
    BY PathIsList
  <2> QED
    BY <2>1, <2>2
<1>3. D \in [Places -> SUBSET Nat] /\ \A e \in Places : D[e] = PathOf(nx, n, en[e])
  BY <1>2 DEF ChainsOf
<1>4. \A e \in Places : List(D[e], nx, en[e])
  BY <1>2, <1>3
<1> QED
  BY <1>1, <1>3, <1>4 DEF Listed

Parted(F, C, n) ==
  /\ F \subseteq 0 .. n - 1 /\ \A e \in Places : C[e] \subseteq 0 .. n - 1
  /\ \A i \in 0 .. n - 1 : i \in F \/ \E e \in Places : i \in C[e]
  /\ \A e \in Places : C[e] \cap F = {}
  /\ \A e, f \in Places : e # f => C[e] \cap C[f] = {}

Keyed(C, ky) ==
  /\ \A e \in Places : \A i \in C[e] : Place(ky[i]) = e
  /\ \A e \in Places : \A i, j \in C[e] : ky[i] = ky[j] => i = j

Table(F, C, en, ky, nx, n, av, sz) ==
  /\ Ranged(en, ky, nx, n, av, sz) /\ Threaded(en, nx, n, av) /\ Listed(F, C, en, nx, av)
  /\ Parted(F, C, n) /\ Keyed(C, ky)
  /\ sz = Cardinality(Used(C))
  /\ n - 1 \in F /\ nx[n - 1] = None

LEMMA PlaceOfKey == \A k \in Nat : Place(k) \in Places
BY SizesAssumption DEF Place, Places

LEMMA NoneApart == None \notin Nat
BY DEF None

\* The nodes in chains and the free ones together are all.
LEMMA UsedNodes ==
  ASSUME NEW n \in Nat, NEW F, NEW C, Parted(F, C, n)
  PROVE  /\ IsFiniteSet(F) /\ IsFiniteSet(Used(C)) /\ Used(C) \subseteq 0 .. n - 1
         /\ F \cap Used(C) = {} /\ Cardinality(F) + Cardinality(Used(C)) = n
         /\ Cardinality(F) \in Nat /\ Cardinality(Used(C)) \in Nat
         /\ \A e \in Places : IsFiniteSet(C[e])
<1>1. IsFiniteSet(0 .. n - 1) /\ Cardinality(0 .. n - 1) = n
  <2>1. /\ IsFiniteSet(0 .. n - 1)
        /\ Cardinality(0 .. n - 1) = IF 0 > n - 1 THEN 0 ELSE (n - 1) - 0 + 1
    BY FS_Interval
  <2> QED
    BY <2>1
<1>2. Used(C) \subseteq 0 .. n - 1 /\ F \cap Used(C) = {} /\ F \cup Used(C) = 0 .. n - 1
  <2>1. \A i : i \in Used(C) <=> \E e \in Places : i \in C[e]
    BY DEF Used
  <2> QED
    BY <2>1 DEF Parted
<1>3. PICK U : U = Used(C)
  OBVIOUS
<1>4. IsFiniteSet(F) /\ IsFiniteSet(U)
  BY <1>1, <1>2, <1>3, FS_Subset
<1>5. Cardinality(F) \in Nat /\ Cardinality(U) \in Nat
  BY <1>4, FS_CardinalityType
<1>6. Cardinality(F \cup U) = Cardinality(F) + Cardinality(U) - Cardinality(F \cap U)
  BY <1>4, FS_Union
<1>7. Cardinality({}) = 0
  BY FS_EmptySet
<1>8. \A e \in Places : IsFiniteSet(C[e])
  BY <1>1, FS_Subset DEF Parted
<1>9. Cardinality(F) + Cardinality(U) = n
  <2>1. F \cup U = 0 .. n - 1 /\ F \cap U = {}
    BY <1>2, <1>3
  <2>2. n = Cardinality(F) + Cardinality(U) - 0
    BY <1>1, <1>6, <1>7, <2>1
  <2> QED
    BY <1>5, <2>2
<1> QED
  BY <1>2, <1>3, <1>4, <1>5, <1>8, <1>9

\* Growth.
NextGrown(nx, n, m) == [i \in 0 .. m - 1 |-> IF i < n - 1 THEN nx[i] ELSE Fill(i, m)]
KeyGrown(ky, n, m) == [i \in 0 .. m - 1 |-> IF i \in 0 .. n - 1 THEN ky[i] ELSE 0]

LEMMA Grows ==
  ASSUME NEW F, NEW C, NEW en, NEW ky, NEW nx, NEW n, NEW av, NEW sz,
         Table(F, C, en, ky, nx, n, av, sz), NEW m \in Nat, m > n,
         NEW ny, ny = NextGrown(nx, n, m), NEW kz, kz = KeyGrown(ky, n, m),
         NEW G, G = PathOf(ny, m, av), NEW D, D = ChainsOf(ny, m, en)
  PROVE  Table(G, D, en, kz, ny, m, av, sz) /\ D = C /\ G = F \cup n .. m - 1
<1> DEFINE N == 0 .. n - 1
           M == 0 .. m - 1
<1>1. /\ n \in Nat \ {0} /\ av \in N /\ en \in [Places -> N \cup {None}] /\ ky \in [N -> Nat]
      /\ nx \in [N -> N \cup {None}] /\ sz \in Nat
  BY DEF Table, Ranged, Links
<1>2. N \subseteq M /\ n - 1 \in N
  BY <1>1
<1>3. /\ \A i \in N : i # n - 1 => ny[i] = nx[i]
      /\ \A i \in n - 1 .. m - 1 : ny[i] = IF i < m - 1 THEN i + 1 ELSE None
      /\ \A i \in M : i \in N \/ i \in n - 1 .. m - 1
  <2>1. \A i \in N : i \in M /\ (i # n - 1 => i < n - 1)
    BY <1>1
  <2>2. \A i \in n - 1 .. m - 1 : i \in M /\ ~(i < n - 1)
    BY <1>1
  <2>3. \A i \in M : i \in N \/ i \in n - 1 .. m - 1
    BY <1>1
  <2> QED
    BY <2>1, <2>2, <2>3 DEF Fill, NextGrown
<1>4. /\ n - 1 \in F /\ nx[n - 1] = None /\ F \subseteq N
      /\ \A e \in Places : C[e] \subseteq N /\ n - 1 \notin C[e]
  BY <1>1 DEF Table, Parted
<1>4a. Ranged(en, kz, ny, m, av, sz)
  <2>1. kz \in [M -> Nat] /\ en \in [Places -> M \cup {None}]
    BY <1>1, <1>2 DEF KeyGrown
  <2>2. \A i \in M : ny[i] \in M \cup {None}
    <3> TAKE i \in M
    <3>1. CASE i \in N /\ i # n - 1
      BY <1>1, <1>2, <1>3, <3>1
    <3>2. CASE i \in n - 1 .. m - 1
      <4>1. i < m - 1 => i + 1 \in M
        BY <1>1, <3>2
      <4> QED
        BY <1>3, <3>2, <4>1
    <3> QED
      BY <1>1, <1>3, <3>1, <3>2
  <2>3. ny \in [M -> M \cup {None}]
    BY <2>2 DEF NextGrown
  <2>4. m \in Nat \ {0} /\ av \in M /\ sz \in Nat
    BY <1>1, <1>2
  <2> QED
    BY <2>1, <2>3, <2>4 DEF Ranged, Links
<1>4b. Listed(G, D, en, ny, av)
  BY <1>4a, AllLists DEF Ranged
<1>5. D = C
  <2>1. \A e \in Places : D[e] = C[e]
    <3> TAKE e \in Places
    <3>1. List(C[e], nx, en[e]) /\ List(D[e], ny, en[e])
      BY <1>4b DEF Table, Listed
    <3>2. PICK P, Q, h : P = C[e] /\ Q = D[e] /\ h = en[e]
      OBVIOUS
    <3>3. \A i \in P : ny[i] = nx[i]
      BY <1>3, <1>4, <3>2
    <3>4. List(P, nx, h) /\ List(Q, ny, h)
      BY <3>1, <3>2
    <3>5. Q = P
      BY <3>3, <3>4, SameList
    <3> QED
      BY <3>2, <3>5
  <2> QED
    BY <1>4b, <2>1 DEF Table, Listed
<1>6. G = F \cup n .. m - 1
  <2>1. List(F, nx, av) /\ List(G, ny, av)
    BY <1>4b DEF Table, Listed
  <2>2. \A i \in F : i # n - 1 => ny[i] = nx[i]
    BY <1>3, <1>4
  <2>3. F \in SUBSET (0 .. n - 1) /\ n - 1 \in F /\ nx[n - 1] = None
    BY <1>4
  <2>4. n \in Nat \ {0}
    BY <1>1
  <2>5. \A i \in n - 1 .. m - 1 : ny[i] = IF i < m - 1 THEN i + 1 ELSE None
    BY <1>3
  <2> HIDE DEF N, M
  <2> QED
    BY <2>1, <2>2, <2>3, <2>4, <2>5, Prolonged
<1>8. Threaded(en, ny, m, av)
  <2>1. \A i, j \in N : nx[i] = nx[j] /\ nx[i] # None => i = j
    BY DEF Table, Threaded
  <2>2. \A i \in N : nx[i] # None => nx[i] # av /\ \A e \in Places : nx[i] # en[e]
    BY DEF Table, Threaded
  <2>3. \A i \in N : i # n - 1 /\ ny[i] # None => ny[i] \in N
    BY <1>1, <1>3
  <2>4. \A i \in n - 1 .. m - 1 : ny[i] # None => ny[i] = i + 1 /\ ny[i] \notin N
    <3> TAKE i \in n - 1 .. m - 1
    <3>1. i + 1 \notin N
      BY <1>1
    <3>2. ny[i] = IF i < m - 1 THEN i + 1 ELSE None
      BY <1>3
    <3> QED
      BY <3>1, <3>2
  <2>5. ASSUME NEW i \in M, NEW j \in M, ny[i] = ny[j], ny[i] # None PROVE i = j
    <3> HIDE DEF M
    <3>1. \A l \in M : l \in n - 1 .. m - 1 \/ (l \in N /\ l # n - 1)
      <4>1. n - 1 \in n - 1 .. m - 1
        BY <1>1
      <4> QED
        BY <1>3, <4>1
    <3>2. CASE i \in N /\ i # n - 1
      <4>1. ny[j] \in N
        BY <2>3, <2>5, <3>2
      <4>2. j \in N /\ j # n - 1
        BY <2>4, <2>5, <3>1, <4>1
      <4> QED
        BY <1>3, <2>1, <2>5, <3>2, <4>2
    <3>3. CASE i \in n - 1 .. m - 1
      <4>1. ny[j] \notin N /\ ny[i] = i + 1
        BY <2>4, <2>5, <3>3
      <4>2. j \in n - 1 .. m - 1
        BY <2>3, <2>5, <3>1, <4>1
      <4>3. i + 1 = j + 1
        BY <2>4, <2>5, <4>1, <4>2
      <4> QED
        BY <1>1, <3>3, <4>2, <4>3
    <3> QED
      BY <3>1, <3>2, <3>3
  <2>6. ASSUME NEW i \in M, ny[i] # None
        PROVE  ny[i] # av /\ \A e \in Places : ny[i] # en[e]
    <3>1. CASE i \in N /\ i # n - 1
      BY <1>3, <2>2, <2>6, <3>1
    <3>2. CASE i \in n - 1 .. m - 1
      BY <1>1, <2>4, <2>6, <3>2
    <3> QED
      BY <1>1, <1>3, <3>1, <3>2
  <2> QED
    BY <2>5, <2>6 DEF Threaded
<1>9. Parted(G, D, m)
  <2>1. \A e \in Places : C[e] \cap (n .. m - 1) = {}
    BY <1>1, <1>4
  <2>2. n .. m - 1 \subseteq M /\ \A i \in M : i \in N \/ i \in n .. m - 1
    BY <1>1
  <2>3. \A i \in M : i \in G \/ \E e \in Places : i \in D[e]
    BY <1>5, <1>6, <2>2 DEF Table, Parted
  <2> QED
    BY <1>2, <1>4, <1>5, <1>6, <2>1, <2>2, <2>3 DEF Table, Parted
<1>10. Keyed(D, kz)
  <2>1. \A e \in Places : \A i \in C[e] : kz[i] = ky[i]
    BY <1>2, <1>4 DEF KeyGrown
  <2>2. Keyed(C, ky)
    BY DEF Table
  <2>3. Keyed(C, kz)
    BY <2>1, <2>2 DEF Keyed
  <2> QED
    BY <1>5, <2>3
<1>11. m - 1 \in G /\ ny[m - 1] = None
  <2>1. m - 1 \in n .. m - 1 /\ m - 1 \in n - 1 .. m - 1 /\ ~(m - 1 < m - 1)
    BY <1>1
  <2> QED
    BY <1>3, <1>6, <2>1
<1>12. sz = Cardinality(Used(D))
  BY <1>5 DEF Table
<1> QED
  BY <1>4a, <1>4b, <1>5, <1>6, <1>8, <1>9, <1>10, <1>11, <1>12 DEF Table

\* The key k goes into node av, behind the nodes of the chain of entry e.
EntryLinked(en, e, av) == IF en[e] = None THEN [en EXCEPT ![e] = av] ELSE en
NextLinked(nx, n, ends, av) ==
  [i \in 0 .. n - 1 |-> IF i = av THEN None ELSE IF i \in ends THEN av ELSE nx[i]]
KeyLinked(ky, av, k) == [ky EXCEPT ![av] = k]
ChainLinked(C, e, av) == [C EXCEPT ![e] = C[e] \cup {av}]

LEMMA Linked ==
  ASSUME NEW F, NEW C, NEW en, NEW ky, NEW nx, NEW n, NEW av, NEW sz,
         Table(F, C, en, ky, nx, n, av, sz),
         NEW k \in Nat, NEW e, e = Place(k), \A i \in C[e] : ky[i] # k,
         NEW b, b = nx[av], b # None,
         NEW ends, \A i : i \in ends <=> i \in C[e] /\ nx[i] = None,
         NEW ew, ew = EntryLinked(en, e, av), NEW ny, ny = NextLinked(nx, n, ends, av),
         NEW kz, kz = KeyLinked(ky, av, k),
         NEW G, G = PathOf(ny, n, b), NEW D, D = ChainsOf(ny, n, ew)
  PROVE  /\ Table(G, D, ew, kz, ny, n, b, sz + 1) /\ G = F \ {av}
         /\ D = ChainLinked(C, e, av)
<1> DEFINE N == 0 .. n - 1
<1>1. /\ n \in Nat \ {0} /\ av \in N /\ en \in [Places -> N \cup {None}] /\ ky \in [N -> Nat]
      /\ nx \in [N -> N \cup {None}] /\ sz \in Nat /\ n - 1 \in N /\ av \in Nat
      /\ e \in Places /\ None \notin N /\ N \subseteq Nat
  BY PlaceOfKey, NoneApart DEF Table, Ranged, Links
<1> HIDE DEF N
<1>2. /\ List(F, nx, av) /\ C \in [Places -> SUBSET Nat]
      /\ \A f \in Places : List(C[f], nx, en[f])
  BY DEF Table, Listed
<1>3. /\ F \subseteq N /\ \A f \in Places : C[f] \subseteq N /\ C[f] \cap F = {}
      /\ \A f, g \in Places : f # g => C[f] \cap C[g] = {}
      /\ \A i \in N : i \in F \/ \E f \in Places : i \in C[f]
  BY DEF Table, Parted, N
<1>4. /\ \A i, j \in N : nx[i] = nx[j] /\ nx[i] # None => i = j
      /\ \A i \in N : nx[i] # None => nx[i] # av /\ \A f \in Places : nx[i] # en[f]
  BY DEF Table, Threaded, N
<1>5. /\ av \in F /\ av \notin ends /\ ends \subseteq N /\ b \in F /\ b # av /\ b \in N
  <2>1. av \in F
    BY <1>1, <1>2 DEF List
  <2>2. b \in F
    BY <1>2, <2>1 DEF List
  <2> QED
    BY <1>1, <1>3, <1>4, <2>1, <2>2
<1>6. /\ DOMAIN ny = N /\ ny[av] = None /\ \A i \in ends : ny[i] = av
      /\ \A i \in N : i # av /\ i \notin ends => ny[i] = nx[i]
  BY <1>1, <1>5 DEF NextLinked, N
<1>7. /\ ew \in [Places -> N \cup {None}] /\ \A f \in Places : f # e => ew[f] = en[f]
      /\ en[e] = None => ew[e] = av
      /\ en[e] # None => ew[e] = en[e]
  BY <1>1 DEF EntryLinked
<1>8. kz \in [N -> Nat] /\ kz[av] = k /\ \A i \in N : i # av => kz[i] = ky[i]
  BY <1>1 DEF KeyLinked
<1>8a. Ranged(ew, kz, ny, n, b, sz + 1)
  <2>1. \A i \in N : ny[i] \in N \cup {None}
    BY <1>1, <1>6
  <2>2. ny \in [N -> N \cup {None}]
    BY <2>1 DEF NextLinked, N
  <2> QED
    BY <1>1, <1>5, <1>7, <1>8, <2>2 DEF Ranged, Links, N
<1>8b. Listed(G, D, ew, ny, b)
  BY <1>8a, AllLists DEF Ranged
<1>8c. /\ List(G, ny, b) /\ D \in [Places -> SUBSET Nat]
       /\ \A f \in Places : List(D[f], ny, ew[f])
  BY <1>8b DEF Listed
<1>9. G = F \ {av}
  <2>1. \A i \in F : nx[i] # av
    BY <1>1, <1>3, <1>4
  <2>2. \A i \in F \ {av} : ny[i] = nx[i]
    BY <1>1, <1>3, <1>6
  <2>3. av # None
    BY <1>1
  <2> QED
    BY <1>2, <1>8c, <2>1, <2>2, <2>3, Beheaded
<1>10. \A f \in Places : f # e => D[f] = C[f]
  <2> TAKE f \in Places
  <2> SUFFICES ASSUME f # e PROVE D[f] = C[f]
    OBVIOUS
  <2>1. PICK P, Q, h : P = C[f] /\ Q = D[f] /\ h = en[f]
    OBVIOUS
  <2>2. List(P, nx, h) /\ List(Q, ny, h)
    BY <1>2, <1>8c, <1>7, <2>1
  <2>3. \A i \in P : ny[i] = nx[i]
    <3> TAKE i \in P
    <3>1. i \in N /\ i # av /\ i \notin C[e]
      BY <1>1, <1>3, <1>5, <2>1
    <3> QED
      BY <1>6, <3>1
  <2>4. Q = P
    BY <2>2, <2>3, SameList
  <2> QED
    BY <2>1, <2>4
<1>11. D[e] = C[e] \cup {av} /\ (en[e] # None => \E z \in ends : TRUE)
  <2>1. PICK P, Q, h : P = C[e] /\ Q = D[e] /\ h = en[e]
    OBVIOUS
  <2>2. List(P, nx, h) /\ av # None
    BY <1>1, <1>2, <1>8c, <2>1
  <2>3. CASE h = None
    <3>1. List(Q, ny, av)
      BY <1>1, <1>2, <1>8c, <1>7, <2>1, <2>3
    <3>2. Q = {av}
      BY <1>6, <2>2, <3>1, Alone
    <3>3. P = {}
      BY <2>2, <2>3 DEF List
    <3> QED
      BY <2>1, <2>3, <3>2, <3>3
  <2>4. CASE h # None
    <3>1. List(Q, ny, h)
      BY <1>1, <1>2, <1>8c, <1>7, <2>1, <2>4
    <3>2. IsFiniteSet(P)
      BY <1>1, <2>1, UsedNodes DEF Table
    <3>3. P \subseteq N
      BY <1>1, <1>3, <2>1
    <3>4. (\A i \in P : nx[i] # h) /\ \A j, l \in P : nx[j] = nx[l] /\ nx[j] # None => j = l
      BY <1>1, <1>4, <2>1, <2>4, <3>3
    <3>5. PICK z \in P : nx[z] = None
      BY <2>2, <2>4, <3>2, <3>4, Ended
    <3>6. z \in ends /\ av \notin P
      BY <1>1, <1>3, <1>5, <2>1, <3>5
    <3>7. \A i \in P \ {z} : ny[i] = nx[i]
      <4> TAKE i \in P \ {z}
      <4>1. i \notin ends
        BY <2>1, <2>2, <3>5 DEF List
      <4> QED
        BY <1>6, <3>3, <3>6, <4>1
    <3>8. Q = P \cup {av}
      BY <1>6, <2>2, <2>4, <3>1, <3>5, <3>6, <3>7, Appended
    <3> QED
      BY <2>1, <3>6, <3>8
  <2> QED
    BY <2>3, <2>4
<1>12. D = ChainLinked(C, e, av)
  BY <1>1, <1>2, <1>8c, <1>10, <1>11 DEF ChainLinked
<1>14. \A i, j \in ends : i = j
  BY <1>1, <1>2 DEF List
<1>15. Threaded(ew, ny, n, b)
  <2>1. ASSUME NEW i \in N, NEW j \in N, ny[i] = ny[j], ny[i] # None PROVE i = j
    <3>1. i # av /\ j # av
      BY <1>6, <2>1
    <3>2. CASE i \in ends
      <4>1. ny[j] = av
        BY <1>6, <2>1, <3>2
      <4>2. j \in ends
        BY <1>1, <1>4, <1>6, <3>1, <4>1
      <4> QED
        BY <1>14, <3>2, <4>2
    <3>3. CASE i \notin ends
      <4>1. ny[i] = nx[i] /\ nx[i] # av
        BY <1>4, <1>6, <2>1, <3>1, <3>3
      <4>2. j \notin ends
        BY <1>6, <2>1, <4>1
      <4> QED
        BY <1>4, <1>6, <2>1, <3>1, <4>1, <4>2
    <3> QED
      BY <3>2, <3>3
  <2>2. ASSUME NEW i \in N, ny[i] # None PROVE ny[i] # b /\ \A f \in Places : ny[i] # ew[f]
    <3>1. i # av
      BY <1>6, <2>2
    <3>2. CASE i \in ends
      <4>1. ny[i] = av
        BY <1>6, <3>2
      <4>2. \A f \in Places : en[f] # av
        BY <1>1, <1>2, <1>3, <1>5 DEF List
      <4>3. en[e] # None
        BY <1>2, <1>1, <3>2 DEF List
      <4> QED
        BY <1>5, <1>7, <4>1, <4>2, <4>3
    <3>3. CASE i \notin ends
      <4>1. ny[i] = nx[i] /\ nx[i] # av
        BY <1>4, <1>6, <2>2, <3>1, <3>3
      <4>2. nx[i] # b
        BY <1>1, <1>4, <2>2, <3>1, <4>1
      <4> QED
        BY <1>1, <1>4, <1>7, <2>2, <4>1, <4>2
    <3> QED
      BY <3>2, <3>3
  <2> QED
    BY <2>1, <2>2 DEF Threaded, N
<1>16. Parted(G, D, n)
  <2>1. G \subseteq N /\ \A f \in Places : D[f] \subseteq N
    BY <1>1, <1>3, <1>9, <1>10, <1>11
  <2>2. \A i \in N : i \in G \/ \E f \in Places : i \in D[f]
    BY <1>1, <1>3, <1>9, <1>10, <1>11
  <2>3. \A f \in Places : D[f] \cap G = {}
    BY <1>3, <1>9, <1>10, <1>11
  <2>4. \A f, g \in Places : f # g => D[f] \cap D[g] = {}
    BY <1>3, <1>5, <1>10, <1>11
  <2> QED
    BY <2>1, <2>2, <2>3, <2>4 DEF Parted, N
<1>17. Keyed(D, kz)
  <2>1. Keyed(C, ky)
    BY DEF Table
  <2>2. \A f \in Places : \A i \in C[f] : kz[i] = ky[i]
    BY <1>3, <1>5, <1>8
  <2>3. Keyed(C, kz)
    BY <2>1, <2>2 DEF Keyed
  <2>4. \A i \in C[e] : kz[i] # k
    BY <1>1, <2>2
  <2> QED
    BY <1>8, <1>10, <1>11, <2>3, <2>4 DEF Keyed
<1>18. sz + 1 = Cardinality(Used(D))
  <2>1. PICK U : U = Used(C)
    OBVIOUS
  <2>2. Used(D) = U \cup {av} /\ av \notin U
    <3>1. \A i : i \in U <=> \E f \in Places : i \in C[f]
      BY <2>1 DEF Used
    <3>2. \A i : i \in Used(D) <=> \E f \in Places : i \in D[f]
      BY DEF Used
    <3>3. av \notin U
      BY <1>3, <1>5, <3>1
    <3>4. \A i : i \in Used(D) <=> i \in U \/ i = av
      BY <1>1, <1>10, <1>11, <3>1, <3>2
    <3> QED
      BY <3>3, <3>4
  <2>3. IsFiniteSet(U)
    BY <1>1, <2>1, UsedNodes DEF Table
  <2>4. Cardinality(U \cup {av}) = Cardinality(U) + 1
    BY <2>2, <2>3, FS_AddElement
  <2>5. sz = Cardinality(U)
    BY <2>1 DEF Table
  <2> QED
    BY <2>2, <2>4, <2>5
<1>19. n - 1 \in G /\ ny[n - 1] = None
  <2>1. n - 1 \in F /\ nx[n - 1] = None
    BY DEF Table
  <2> QED
    BY <1>1, <1>3, <1>6, <1>9, <2>1
<1> QED
  BY <1>8a, <1>8b, <1>9, <1>12, <1>15, <1>16, <1>17, <1>18, <1>19 DEF Table

\* The node i goes from the chain of entry e, where the nodes before it lead past it,
\* to the front of the free list.
EntryUnlinked(en, e, before, nx, i) == IF before = {} THEN [en EXCEPT ![e] = nx[i]] ELSE en
NextUnlinked(nx, n, before, av, i) ==
  [j \in 0 .. n - 1 |-> IF j = i THEN av ELSE IF j \in before THEN nx[i] ELSE nx[j]]
ChainUnlinked(C, e, i) == [C EXCEPT ![e] = C[e] \ {i}]

LEMMA Unlinked ==
  ASSUME NEW F, NEW C, NEW en, NEW ky, NEW nx, NEW n, NEW av, NEW sz,
         Table(F, C, en, ky, nx, n, av, sz),
         NEW e \in Places, NEW i \in C[e],
         NEW before, \A j : j \in before <=> j \in C[e] /\ nx[j] = i,
         NEW ew, ew = EntryUnlinked(en, e, before, nx, i),
         NEW ny, ny = NextUnlinked(nx, n, before, av, i),
         NEW G, G = PathOf(ny, n, i), NEW D, D = ChainsOf(ny, n, ew)
  PROVE  /\ Table(G, D, ew, ky, ny, n, i, sz - 1) /\ G = F \cup {i}
         /\ D = ChainUnlinked(C, e, i)
<1> DEFINE N == 0 .. n - 1
<1>1. /\ n \in Nat \ {0} /\ av \in N /\ en \in [Places -> N \cup {None}] /\ ky \in [N -> Nat]
      /\ nx \in [N -> N \cup {None}] /\ sz \in Nat /\ n - 1 \in N /\ av \in Nat
      /\ None \notin N /\ N \subseteq Nat
  BY NoneApart DEF Table, Ranged, Links
<1> HIDE DEF N
<1>2. /\ List(F, nx, av) /\ C \in [Places -> SUBSET Nat]
      /\ \A f \in Places : List(C[f], nx, en[f])
  BY DEF Table, Listed
<1>3. /\ F \subseteq N /\ \A f \in Places : C[f] \subseteq N /\ C[f] \cap F = {}
      /\ \A f, g \in Places : f # g => C[f] \cap C[g] = {}
      /\ \A j \in N : j \in F \/ \E f \in Places : j \in C[f]
  BY DEF Table, Parted, N
<1>4. /\ \A j, l \in N : nx[j] = nx[l] /\ nx[j] # None => j = l
      /\ \A j \in N : nx[j] # None => nx[j] # av /\ \A f \in Places : nx[j] # en[f]
  BY DEF Table, Threaded, N
<1>5. /\ i \in N /\ i # None /\ i \notin F /\ before \subseteq N /\ av \in F
      /\ \A j, l \in before : j = l
  <2>1. i \in N /\ i # None /\ i \notin F
    BY <1>1, <1>3
  <2>2. before \subseteq N /\ av \in F
    BY <1>1, <1>2, <1>3 DEF List
  <2> QED
    BY <1>4, <2>1, <2>2
<1>6. /\ ny[i] = av /\ \A j \in before : j # i => ny[j] = nx[i]
      /\ \A j \in N : j # i /\ j \notin before => ny[j] = nx[j]
      /\ \A j \in N : ny[j] \in N \cup {None} /\ ny \in [N -> N \cup {None}]
  BY <1>1, <1>5 DEF NextUnlinked, N
<1>7. \A f \in Places : en[f] = i => f = e
  BY <1>2, <1>3, <1>5 DEF List
<1>8. before = {} <=> en[e] = i
  <2>1. ASSUME en[e] = i PROVE before = {}
    BY <1>4, <1>5, <2>1
  <2>2. ASSUME en[e] # i, before = {} PROVE FALSE
    <3>1. PICK P, h, A : P = C[e] /\ h = en[e] /\ A = P \ {i}
      OBVIOUS
    <3>2. List(P, nx, h)
      BY <1>2, <3>1
    <3>3. h # None => h \in A
      BY <2>2, <3>1, <3>2 DEF List
    <3>4. \A j \in P : j \in A /\ nx[j] # None => nx[j] \in A
      BY <2>2, <3>1, <3>2 DEF List
    <3>5. P \subseteq A
      BY <3>2, <3>3, <3>4, Least
    <3> QED
      BY <3>1, <3>5
  <2> QED
    BY <2>1, <2>2
<1>9. /\ ew \in [Places -> N \cup {None}] /\ \A f \in Places : f # e => ew[f] = en[f]
      /\ en[e] = i => ew[e] = nx[i]
      /\ en[e] # i => ew[e] = en[e]
  BY <1>1, <1>5, <1>8 DEF EntryUnlinked
<1>9a. Links(ny, n)
  BY <1>5, <1>6 DEF Links, N
<1>9b. Listed(G, D, ew, ny, i)
  BY <1>1, <1>5, <1>9, <1>9a, AllLists DEF N
<1>9c. /\ List(G, ny, i) /\ D \in [Places -> SUBSET Nat]
       /\ \A f \in Places : List(D[f], ny, ew[f])
  BY <1>9b DEF Listed
<1>10. G = F \cup {i}
  <2>1. \A j \in F : ny[j] = nx[j]
    BY <1>3, <1>5, <1>6
  <2> QED
    BY <1>2, <1>9c, <1>5, <1>6, <2>1, Pushed
<1>11. \A f \in Places : f # e => D[f] = C[f]
  <2> TAKE f \in Places
  <2> SUFFICES ASSUME f # e PROVE D[f] = C[f]
    OBVIOUS
  <2>1. PICK P, Q, h : P = C[f] /\ Q = D[f] /\ h = en[f]
    OBVIOUS
  <2>2. List(P, nx, h) /\ List(Q, ny, h)
    BY <1>2, <1>9c, <1>9, <2>1
  <2>3. \A j \in P : ny[j] = nx[j]
    <3> TAKE j \in P
    <3>1. j \in N /\ j \notin C[e]
      BY <1>3, <2>1
    <3> QED
      BY <1>6, <3>1
  <2>4. Q = P
    BY <2>2, <2>3, SameList
  <2> QED
    BY <2>1, <2>4
<1>12. D[e] = C[e] \ {i}
  <2>1. PICK P, Q, h, g : P = C[e] /\ Q = D[e] /\ h = en[e] /\ g = nx[i]
    OBVIOUS
  <2>2. List(P, nx, h) /\ P \subseteq N /\ i \in P
    BY <1>2, <1>9c, <1>3, <2>1
  <2>3. CASE h = i
    <3>1. List(Q, ny, g) /\ before = {}
      BY <1>2, <1>9c, <1>8, <1>9, <2>1, <2>3
    <3>2. \A j \in P : nx[j] # h
      BY <1>4, <1>5, <2>1, <2>2, <2>3
    <3>3. \A j \in P \ {h} : ny[j] = nx[j]
      BY <1>6, <2>2, <2>3, <3>1
    <3>4. Q = P \ {h}
      BY <1>5, <2>1, <2>2, <2>3, <3>1, <3>2, <3>3, Beheaded
    <3> QED
      BY <2>1, <2>3, <3>4
  <2>4. CASE h # i
    <3>1. List(Q, ny, h)
      BY <1>2, <1>9c, <1>9, <2>1, <2>4
    <3>2. \A j, l \in P : nx[j] = nx[l] /\ nx[j] # None => j = l
      BY <1>4, <2>2
    <3>3. \A j \in P \ {i} : ny[j] = IF nx[j] = i THEN nx[i] ELSE nx[j]
      BY <1>6, <2>1, <2>2
    <3>4. Q = P \ {i}
      BY <2>2, <2>4, <3>1, <3>2, <3>3, Cut
    <3> QED
      BY <2>1, <3>4
  <2> QED
    BY <2>3, <2>4
<1>13. D = ChainUnlinked(C, e, i)
  BY <1>2, <1>9c, <1>11, <1>12 DEF ChainUnlinked
<1>14. sz - 1 = Cardinality(Used(D)) /\ sz - 1 \in Nat
  <2>1. PICK U : U = Used(C)
    OBVIOUS
  <2>2. Used(D) = U \ {i} /\ i \in U
    <3>1. \A j : j \in U <=> \E f \in Places : j \in C[f]
      BY <2>1 DEF Used
    <3>2. \A j : j \in Used(D) <=> \E f \in Places : j \in D[f]
      BY DEF Used
    <3>3. \A f \in Places : f # e => i \notin C[f]
      BY <1>3
    <3>4. \A j : j \in Used(D) <=> j \in U /\ j # i
      BY <1>11, <1>12, <3>1, <3>2, <3>3
    <3> QED
      BY <3>1, <3>4
  <2>3. IsFiniteSet(U)
    BY <1>1, <2>1, UsedNodes DEF Table
  <2>4. IsFiniteSet(U \ {i}) /\ Cardinality(U \ {i}) = Cardinality(U) - 1
    BY <2>2, <2>3, FS_RemoveElement
  <2>5. sz = Cardinality(U)
    BY <2>1 DEF Table
  <2> QED
    BY <2>2, <2>4, <2>5, FS_CardinalityType
<1>15. Ranged(ew, ky, ny, n, i, sz - 1)
  BY <1>1, <1>5, <1>6, <1>9, <1>14 DEF Ranged, Links, N
<1>16. nx[i] # i
  <2> SUFFICES ASSUME nx[i] = i PROVE FALSE
    OBVIOUS
  <2>1. i \in before /\ en[e] # i
    BY <1>8
  <2>2. PICK P, h, A : P = C[e] /\ h = en[e] /\ A = P \ {i}
    OBVIOUS
  <2>3. List(P, nx, h)
    BY <1>2, <2>2
  <2>4. h # None => h \in A
    BY <2>1, <2>2, <2>3 DEF List
  <2>5. \A j \in P : j \in A /\ nx[j] # None => nx[j] \in A
    BY <1>5, <2>1, <2>2, <2>3 DEF List
  <2>6. P \subseteq A
    BY <2>3, <2>4, <2>5, Least
  <2> QED
    BY <2>2, <2>6
<1>17. Threaded(ew, ny, n, i)
  <2>1. \A j \in N : j \in before => nx[j] = i /\ j # i
    BY <1>16
  <2>2. ASSUME NEW j \in N, ny[j] # None PROVE ny[j] # i /\ \A f \in Places : ny[j] # ew[f]
    <3>1. CASE j = i
      <4>1. \A f \in Places : ew[f] # av
        <5> TAKE f \in Places
        <5>1. en[f] # av
          BY <1>2, <1>3, <1>5 DEF List
        <5> QED
          BY <1>1, <1>4, <1>5, <1>9, <5>1
      <4> QED
        BY <1>5, <1>6, <3>1, <4>1
    <3>2. CASE j \in before
      <4>1. ny[j] = nx[i] /\ en[e] # i
        BY <1>6, <1>8, <2>1, <3>2
      <4> QED
        BY <1>4, <1>5, <1>9, <1>16, <2>2, <4>1
    <3>3. CASE j # i /\ j \notin before
      <4>1. ny[j] = nx[j]
        BY <1>6, <3>3
      <4>2. nx[j] # i
        <5>1. ASSUME nx[j] = i PROVE FALSE
          <6>1. j \notin C[e]
            BY <3>3, <5>1
          <6>2. j \notin F
            BY <1>2, <1>5, <5>1 DEF List
          <6>3. PICK f \in Places : j \in C[f]
            BY <1>3, <6>2
          <6>4. i \in C[f] /\ f # e
            BY <1>2, <1>5, <5>1, <6>1, <6>3 DEF List
          <6> QED
            BY <1>3, <6>4
        <5> QED
          BY <5>1
      <4>3. nx[j] # nx[i]
        BY <1>4, <1>5, <2>2, <3>3, <4>1
      <4> QED
        BY <1>4, <1>9, <2>2, <4>1, <4>2, <4>3
    <3> QED
      BY <3>1, <3>2, <3>3
  <2>3. ASSUME NEW j \in N, NEW l \in N, ny[j] = ny[l], ny[j] # None PROVE j = l
    <3>1. \A m \in N : m \notin before /\ m # i /\ ny[m] # None =>
            ny[m] = nx[m] /\ nx[m] # av /\ nx[m] # nx[i]
      BY <1>4, <1>5, <1>6
    <3>2. nx[i] # av \/ nx[i] = None
      BY <1>4, <1>5
    <3>3. av # None
      BY <1>1
    <3> QED
      BY <1>4, <1>5, <1>6, <2>1, <2>3, <3>1, <3>2, <3>3
  <2> QED
    BY <2>2, <2>3 DEF Threaded, N
<1>18. Parted(G, D, n)
  <2>1. G \subseteq N /\ \A f \in Places : D[f] \subseteq N
    BY <1>3, <1>5, <1>10, <1>11, <1>12
  <2>2. \A j \in N : j \in G \/ \E f \in Places : j \in D[f]
    BY <1>3, <1>10, <1>11, <1>12
  <2>3. \A f \in Places : D[f] \cap G = {}
    BY <1>3, <1>10, <1>11, <1>12
  <2>4. \A f, g \in Places : f # g => D[f] \cap D[g] = {}
    BY <1>3, <1>11, <1>12
  <2> QED
    BY <2>1, <2>2, <2>3, <2>4 DEF Parted, N
<1>19. Keyed(D, ky)
  BY <1>11, <1>12 DEF Table, Keyed
<1>20. n - 1 \in G /\ ny[n - 1] = None
  <2>1. n - 1 \in F /\ nx[n - 1] = None
    BY DEF Table
  <2> QED
    BY <1>1, <1>3, <1>5, <1>6, <1>10, <2>1
<1> QED
  BY <1>9b, <1>10, <1>13, <1>14, <1>15, <1>17, <1>18, <1>19, <1>20 DEF Table

-----------------------------------------------------------------------------
(* What a table says of a key.                                             *)

HoldersOf(C, ky, k) == {i \in C[Place(k)] : ky[i] = k}
FoundIn(C, ky, vl, k) ==
  IF HoldersOf(C, ky, k) = {} THEN Absent
  ELSE vl[CHOOSE i \in HoldersOf(C, ky, k) : TRUE]

\* Equal holders with equal values.
LEMMA FoundSame ==
  ASSUME NEW C, NEW ky, NEW vl, NEW D, NEW kz, NEW vw, NEW k,
         HoldersOf(D, kz, k) = HoldersOf(C, ky, k),
         \A i \in HoldersOf(C, ky, k) : vw[i] = vl[i]
  PROVE  FoundIn(D, kz, vw, k) = FoundIn(C, ky, vl, k)
<1>1. PICK H : H = HoldersOf(C, ky, k)
  OBVIOUS
<1>2. H # {} => (CHOOSE i \in H : TRUE) \in H
  OBVIOUS
<1> QED
  BY <1>1, <1>2 DEF FoundIn

LEMMA FoundOne ==
  ASSUME NEW C, NEW ky, NEW vl, NEW k, NEW i, HoldersOf(C, ky, k) = {i}
  PROVE  FoundIn(C, ky, vl, k) = vl[i]
<1>1. (CHOOSE j \in {i} : TRUE) = i
  OBVIOUS
<1> QED
  BY <1>1 DEF FoundIn

\* A key has one holder.
LEMMA OneHolder ==
  ASSUME NEW C, NEW ky, Keyed(C, ky), NEW k, Place(k) \in Places
  PROVE  \A i \in HoldersOf(C, ky, k) : HoldersOf(C, ky, k) = {i}
BY DEF HoldersOf, Keyed

\* The keys and values of the nodes in chains are as they were, but for the value
\* of those in S.
AsBefore(C, ky, vl, kz, vw, S) ==
  \A e \in Places : \A j \in C[e] : kz[j] = ky[j] /\ (j \notin S => vw[j] = vl[j])

NotIn(C, a) == \A e \in Places : a \notin C[e]

\* A key more.
LEMMA FoundLinked ==
  ASSUME NEW C, C \in [Places -> SUBSET Nat], NEW ky, NEW vl, NEW kz, NEW vw, NEW k,
         Place(k) \in Places, HoldersOf(C, ky, k) = {},
         NEW a, NotIn(C, a),
         NEW D, D = ChainLinked(C, Place(k), a),
         kz[a] = k, AsBefore(C, ky, vl, kz, vw, {})
  PROVE  \A q : Place(q) \in Places =>
           FoundIn(D, kz, vw, q) = IF q = k THEN vw[a] ELSE FoundIn(C, ky, vl, q)
<1> SUFFICES ASSUME NEW q, Place(q) \in Places
             PROVE  FoundIn(D, kz, vw, q) = IF q = k THEN vw[a] ELSE FoundIn(C, ky, vl, q)
  OBVIOUS
<1>1. D[Place(k)] = C[Place(k)] \cup {a} /\ \A e \in Places : e # Place(k) => D[e] = C[e]
  BY DEF ChainLinked
<1>1a. /\ \A e \in Places : a \notin C[e]
      /\ \A e \in Places : \A i \in C[e] : kz[i] = ky[i] /\ vw[i] = vl[i]
  BY DEF AsBefore, NotIn
<1>2. CASE q = k
  <2>1. HoldersOf(D, kz, k) = {a}
    BY <1>1, <1>1a DEF HoldersOf
  <2> QED
    BY <1>2, <2>1, FoundOne
<1>3. CASE q # k
  <2>1. HoldersOf(D, kz, q) = HoldersOf(C, ky, q)
    <3>1. CASE Place(q) = Place(k)
      BY <1>1, <1>1a, <1>3, <3>1 DEF HoldersOf
    <3>2. CASE Place(q) # Place(k)
      BY <1>1, <1>1a, <3>2 DEF HoldersOf
    <3> QED
      BY <3>1, <3>2
  <2>2. \A i \in HoldersOf(C, ky, q) : vw[i] = vl[i]
    BY <1>1a DEF HoldersOf
  <2> QED
    BY <1>3, <2>1, <2>2, FoundSame
<1> QED
  BY <1>2, <1>3

\* A key less.
LEMMA FoundUnlinked ==
  ASSUME NEW C, C \in [Places -> SUBSET Nat], NEW ky, NEW vl, Keyed(C, ky), NEW k,
         Place(k) \in Places, NEW i, i \in HoldersOf(C, ky, k),
         NEW D, D = ChainUnlinked(C, Place(k), i)
  PROVE  \A q : Place(q) \in Places =>
           FoundIn(D, ky, vl, q) = IF q = k THEN Absent ELSE FoundIn(C, ky, vl, q)
<1> SUFFICES ASSUME NEW q, Place(q) \in Places
             PROVE  FoundIn(D, ky, vl, q) = IF q = k THEN Absent ELSE FoundIn(C, ky, vl, q)
  OBVIOUS
<1>1. D[Place(k)] = C[Place(k)] \ {i} /\ \A e \in Places : e # Place(k) => D[e] = C[e]
  BY DEF ChainUnlinked
<1>2. CASE q = k
  <2>1. HoldersOf(D, ky, k) = {}
    BY <1>1, OneHolder DEF HoldersOf
  <2> QED
    BY <1>2, <2>1 DEF FoundIn
<1>3. CASE q # k
  <2>1. HoldersOf(D, ky, q) = HoldersOf(C, ky, q)
    <3>1. CASE Place(q) = Place(k)
      <4>1. ky[i] = k
        BY DEF HoldersOf
      <4> QED
        BY <1>1, <1>3, <3>1, <4>1 DEF HoldersOf
    <3>2. CASE Place(q) # Place(k)
      BY <1>1, <3>2 DEF HoldersOf
    <3> QED
      BY <3>1, <3>2
  <2> QED
    BY <1>3, <2>1, FoundSame
<1> QED
  BY <1>2, <1>3

\* A value replaced.
LEMMA FoundUpdated ==
  ASSUME NEW C, NEW ky, Keyed(C, ky), NEW vl, NEW kz, NEW vw, NEW k,
         Place(k) \in Places, NEW i, i \in HoldersOf(C, ky, k),
         AsBefore(C, ky, vl, kz, vw, {i})
  PROVE  \A q : Place(q) \in Places =>
           FoundIn(C, kz, vw, q) = IF q = k THEN vw[i] ELSE FoundIn(C, ky, vl, q)
<1> SUFFICES ASSUME NEW q, Place(q) \in Places
             PROVE  FoundIn(C, kz, vw, q) = IF q = k THEN vw[i] ELSE FoundIn(C, ky, vl, q)
  OBVIOUS
<1>1. HoldersOf(C, kz, q) = HoldersOf(C, ky, q)
  BY DEF HoldersOf, AsBefore
<1>2. CASE q = k
  <2>1. HoldersOf(C, kz, k) = {i}
    BY <1>1, <1>2, OneHolder
  <2> QED
    BY <1>2, <2>1, FoundOne
<1>3. CASE q # k
  <2>1. \A j \in HoldersOf(C, ky, q) : vw[j] = vl[j]
    BY <1>3 DEF HoldersOf, AsBefore
  <2> QED
    BY <1>1, <1>3, <2>1, FoundSame
<1> QED
  BY <1>2, <1>3

-----------------------------------------------------------------------------
(* The inductive invariant.                                                *)

Chains == [e \in Places |-> Path(entry[e])]

\* The state is a table, with keys and values in its chains.
HInv ==
  /\ Table(Path(avai), Chains, entry, key, next, nodes_num, avai, size)
  /\ key \in [Nodes -> Keys \cup {0}] /\ value \in [Nodes -> Values \cup {Absent}]
  /\ \A e \in Places : \A i \in Chains[e] : key[i] \in Keys /\ value[i] \in Values

LEMMA PathNow ==
  /\ Path(avai) = PathOf(next, nodes_num, avai) /\ Chains = ChainsOf(next, nodes_num, entry)
  /\ Path(avai)' = PathOf(next', nodes_num', avai')
  /\ Chains' = ChainsOf(next', nodes_num', entry')
BY DEF Path, Walk, PathOf, Chains, ChainsOf

LEMMA KeyPlaces == \A k \in Keys : k \in Nat /\ Place(k) \in Places
BY SizesAssumption, PlaceOfKey

LEMMA FindNow ==
  ASSUME NEW k, Place(k) \in Places
  PROVE  /\ Holders(k) = HoldersOf(Chains, key, k) /\ Chain(k) = Chains[Place(k)]
         /\ Find(k) = FoundIn(Chains, key, value, k)
         /\ Find(k)' = FoundIn(Chains', key', value', k)
<1>1. Chain(k) = Chains[Place(k)] /\ Chain(k)' = Chains'[Place(k)]
  BY DEF Chain, Chains, Place
<1>2. /\ Holders(k) = HoldersOf(Chains, key, k)
      /\ Holders(k)' = HoldersOf(Chains', key', k)
  BY <1>1 DEF Holders, HoldersOf
<1> QED
  BY <1>1, <1>2 DEF Find, FoundIn

\* What a table has after growth, or without it: the chains are the same.
Kept(kz, vw, ny, m) ==
  /\ m \in Nat \ {0}
  /\ Table(PathOf(ny, m, avai), Chains, entry, kz, ny, m, avai, size)
  /\ kz \in [0 .. m - 1 -> Keys \cup {0}] /\ vw \in [0 .. m - 1 -> Values \cup {Absent}]
  /\ \A e \in Places : \A i \in Chains[e] :
       kz[i] = key[i] /\ vw[i] = value[i] /\ ny[i] = next[i]

LEMMA GrownKeeps ==
  ASSUME HInv, NEW m \in Nat, m > nodes_num
  PROVE  /\ Kept(Grown(m).key, Grown(m).value, Grown(m).next, m)
         /\ Grown(m).next[avai] # None
<1>1. PICK F, C, en, ky, vl, nx, n, av, sz :
        /\ F = Path(avai) /\ C = Chains /\ en = entry /\ ky = key /\ vl = value
        /\ nx = next /\ n = nodes_num /\ av = avai /\ sz = size
  OBVIOUS
<1>2. PICK kz, vw, ny :
        /\ kz = KeyGrown(ky, n, m) /\ ny = NextGrown(nx, n, m)
        /\ vw = [i \in 0 .. m - 1 |-> IF i \in 0 .. n - 1 THEN vl[i] ELSE Absent]
  OBVIOUS
<1>3. /\ Table(F, C, en, ky, nx, n, av, sz)
      /\ ky \in [0 .. n - 1 -> Keys \cup {0}] /\ vl \in [0 .. n - 1 -> Values \cup {Absent}]
  BY <1>1 DEF HInv, Nodes
<1>4. Grown(m).key = kz /\ Grown(m).value = vw /\ Grown(m).next = ny
  BY <1>1, <1>2 DEF Grown, Nodes, KeyGrown, NextGrown
<1>5. PICK G, D : G = PathOf(ny, m, av) /\ D = ChainsOf(ny, m, en)
  OBVIOUS
<1>6. Table(G, D, en, kz, ny, m, av, sz) /\ D = C /\ G = F \cup n .. m - 1
  BY <1>1, <1>2, <1>3, <1>5, Grows
<1>7. /\ n \in Nat \ {0} /\ \A e \in Places : C[e] \subseteq 0 .. n - 1 /\ n - 1 \notin C[e]
      /\ n - 1 \in F /\ nx[n - 1] = None /\ av \in F /\ F \subseteq 0 .. n - 1
      /\ av \in 0 .. n - 1 /\ \A i, j \in F : nx[i] = None /\ nx[j] = None => i = j
  <2>1. n \in Nat \ {0} /\ av \in 0 .. n - 1 /\ av # None
    BY <1>3, NoneApart DEF Table, Ranged
  <2>2. List(F, nx, av)
    BY <1>3 DEF Table, Listed
  <2>3. av \in F /\ \A i, j \in F : nx[i] = None /\ nx[j] = None => i = j
    BY <2>1, <2>2 DEF List
  <2>4. n - 1 \in F /\ nx[n - 1] = None
    BY <1>3 DEF Table
  <2>5. F \subseteq 0 .. n - 1 /\ \A e \in Places : C[e] \subseteq 0 .. n - 1 /\ n - 1 \notin C[e]
    BY <1>3, <2>4 DEF Table, Parted
  <2> QED
    BY <2>1, <2>3, <2>4, <2>5
<1>8. \A i \in 0 .. n - 1 : kz[i] = ky[i] /\ vw[i] = vl[i] /\ (i # n - 1 => ny[i] = nx[i])
  <2>1. m > n
    BY <1>1
  <2>2. \A i \in 0 .. n - 1 : i \in 0 .. m - 1 /\ (i # n - 1 => i < n - 1)
    BY <1>7, <2>1
  <2> QED
    BY <1>2, <2>2 DEF KeyGrown, NextGrown
<1>9. kz \in [0 .. m - 1 -> Keys \cup {0}] /\ vw \in [0 .. m - 1 -> Values \cup {Absent}]
  BY <1>2, <1>3 DEF KeyGrown
<1>10. ny[av] # None
  <2>1. CASE av # n - 1
    BY <1>7, <1>8, <2>1
  <2>2. CASE av = n - 1
    <3>1. n - 1 \in 0 .. m - 1 /\ ~(n - 1 < n - 1) /\ n - 1 < m - 1 /\ n - 1 + 1 # None
      BY <1>1, <1>7, NoneApart
    <3> QED
      BY <1>2, <2>2, <3>1 DEF NextGrown, Fill
  <2> QED
    BY <2>1, <2>2
<1>11. \A e \in Places : \A i \in C[e] : kz[i] = ky[i] /\ vw[i] = vl[i] /\ ny[i] = nx[i]
  BY <1>7, <1>8
<1>12. m \in Nat \ {0}
  BY <1>1, <1>7
<1> QED
  BY <1>1, <1>4, <1>5, <1>6, <1>9, <1>10, <1>11, <1>12 DEF Kept

\* available_: there is a free node behind the first one.
LEMMA AvailableKeeps ==
  ASSUME HInv
  PROVE  /\ Kept(Available.key, Available.value, Available.next, Available.num)
         /\ Available.next[avai] # None
<1>1. /\ nodes_num \in Nat \ {0} /\ size \in Nat /\ avai \in Nodes
      /\ key \in [Nodes -> Keys \cup {0}] /\ value \in [Nodes -> Values \cup {Absent}]
  BY DEF HInv, Table, Ranged, Nodes
<1>2. CASE size + 2 < nodes_num
  <2>1. Available = [key |-> key, value |-> value, next |-> next, num |-> nodes_num]
    BY <1>2 DEF Available, Same
  <2>2. Kept(key, value, next, nodes_num)
    BY <1>1, PathNow DEF Kept, HInv, Nodes
  <2>3. next[avai] # None
    <3> SUFFICES ASSUME next[avai] = None PROVE FALSE
      OBVIOUS
    <3>1. PICK F, C, nx, av, n : F = Path(avai) /\ C = Chains /\ nx = next /\ av = avai
                                 /\ n = nodes_num
      OBVIOUS
    <3>2. List(F, nx, av) /\ Parted(F, C, n) /\ size = Cardinality(Used(C)) /\ av # None
      BY <1>1, <3>1, NoneApart DEF HInv, Table, Listed, Nodes
    <3>3. F = {av}
      BY <3>1, <3>2, Alone
    <3>4. Cardinality(F) = 1
      BY <3>3, FS_Singleton
    <3>5. Cardinality(F) + Cardinality(Used(C)) = n /\ Cardinality(Used(C)) \in Nat
      BY <1>1, <3>1, <3>2, UsedNodes
    <3> QED
      BY <1>1, <1>2, <3>1, <3>2, <3>4, <3>5
  <2> QED
    BY <2>1, <2>2, <2>3
<1>3. CASE ~(size + 2 < nodes_num)
  <2>1. PICK m : m = Expansion(nodes_num)
    OBVIOUS
  <2>2. m \in Nat /\ m > nodes_num
    BY <1>1, <2>1 DEF Expansion
  <2>3. Available = Grown(m) /\ Grown(m).num = m
    BY <1>3, <2>1 DEF Available, Grown
  <2>4. Kept(Grown(m).key, Grown(m).value, Grown(m).next, m) /\ Grown(m).next[avai] # None
    BY <2>2, GrownKeeps
  <2> QED
    BY <2>3, <2>4
<1> QED
  BY <1>2, <1>3

LEMMA InitHolds == Init => HInv /\ \A k \in Keys : Find(k) = Absent
<1> SUFFICES ASSUME Init PROVE HInv /\ \A k \in Keys : Find(k) = Absent
  OBVIOUS
<1>1. PICK F, C, en, ky, vl, nx, n, av, sz :
        /\ F = Path(avai) /\ C = Chains /\ en = entry /\ ky = key /\ vl = value
        /\ nx = next /\ n = nodes_num /\ av = avai /\ sz = size
  OBVIOUS
<1>2. /\ n \in Nat \ {0} /\ av = 0 /\ sz = 0 /\ 0 \in 0 .. n - 1
      /\ en \in [Places -> {None}] /\ ky \in [0 .. n - 1 -> {0}]
      /\ vl \in [0 .. n - 1 -> {Absent}]
      /\ nx \in [0 .. n - 1 -> 0 .. n - 1 \cup {None}]
      /\ \A i \in 0 .. n - 1 : nx[i] = IF i < n - 1 THEN i + 1 ELSE None
  <2>1. n = MinNodes /\ av = 0 /\ sz = 0
    BY <1>1 DEF Init
  <2>2. n \in Nat \ {0} /\ 0 \in 0 .. n - 1
    BY <2>1, SizesAssumption
  <2>3. en = [e \in Places |-> None] /\ ky = [i \in 0 .. n - 1 |-> 0]
        /\ vl = [i \in 0 .. n - 1 |-> Absent]
    BY <1>1 DEF Init, Nodes
  <2>4. nx = [i \in 0 .. n - 1 |-> IF i < n - 1 THEN i + 1 ELSE None]
    BY <1>1, <2>1 DEF Init, Nodes, Fill
  <2>5. \A i \in 0 .. n - 1 : (IF i < n - 1 THEN i + 1 ELSE None) \in 0 .. n - 1 \cup {None}
    BY <2>2
  <2> QED
    BY <2>1, <2>2, <2>3, <2>4, <2>5
<1>3. Links(nx, n) /\ Ranged(en, ky, nx, n, av, sz)
  <2>1. Links(nx, n)
    BY <1>2 DEF Links
  <2> QED
    BY <1>2, <2>1 DEF Ranged
<1>4. Listed(F, C, en, nx, av) /\ F \subseteq 0 .. n - 1
  <2>1. F = PathOf(nx, n, av) /\ C = ChainsOf(nx, n, en)
    BY <1>1, PathNow
  <2>2. Listed(F, C, en, nx, av)
    BY <1>2, <1>3, <2>1, AllLists DEF Ranged
  <2>3. F \subseteq 0 .. n - 1
    BY <1>2, <1>3, <2>1, PathIsList
  <2> QED
    BY <2>2, <2>3
<1>5. \A e \in Places : C[e] = {}
  BY <1>2, <1>4 DEF Listed, List
<1>6. F = 0 .. n - 1
  <2>1. List(F, nx, 0)
    BY <1>2, <1>4 DEF Listed
  <2>2. 0 \in F
    BY <2>1, NoneApart DEF List
  <2>3. \A j \in 0 .. (n - 1) - 1 : j \in F => j + 1 \in F
    <3> TAKE j \in 0 .. (n - 1) - 1
    <3>1. nx[j] = j + 1 /\ nx[j] # None
      BY <1>2, NoneApart
    <3> QED
      BY <2>1, <3>1 DEF List
  <2>4. n - 1 \in Nat
    BY <1>2
  <2>5. 0 .. n - 1 \subseteq F
    BY <2>2, <2>3, <2>4, Upwards
  <2> QED
    BY <1>4, <2>5
<1>7. Parted(F, C, n) /\ Keyed(C, ky)
  BY <1>5, <1>6 DEF Parted, Keyed
<1>8. Threaded(en, nx, n, av)
  <2>1. \A i \in 0 .. n - 1 : nx[i] # None => nx[i] = i + 1 /\ i + 1 # 0
    BY <1>2
  <2>2. \A i, j \in 0 .. n - 1 : nx[i] = nx[j] /\ nx[i] # None => i = j
    BY <2>1
  <2> QED
    BY <1>2, <2>1, <2>2 DEF Threaded
<1>9. sz = Cardinality(Used(C))
  <2>1. Used(C) = {}
    BY <1>5 DEF Used
  <2> QED
    BY <1>2, <2>1, FS_EmptySet
<1>10. n - 1 \in F /\ nx[n - 1] = None
  BY <1>2, <1>6
<1>11. Table(F, C, en, ky, nx, n, av, sz)
  BY <1>3, <1>4, <1>7, <1>8, <1>9, <1>10 DEF Table
<1>12. HInv
  <2>1. key \in [Nodes -> Keys \cup {0}] /\ value \in [Nodes -> Values \cup {Absent}]
    BY <1>1, <1>2 DEF Nodes
  <2>2. \A e \in Places : \A i \in Chains[e] : key[i] \in Keys /\ value[i] \in Values
    BY <1>1, <1>5
  <2> QED
    BY <1>1, <1>11, <2>1, <2>2 DEF HInv
<1>13. ASSUME NEW k \in Keys PROVE Find(k) = Absent
  <2>1. Place(k) \in Places
    BY KeyPlaces
  <2>2. HoldersOf(Chains, key, k) = {}
    BY <1>1, <1>5, <2>1 DEF HoldersOf
  <2> QED
    BY <2>1, <2>2, FindNow DEF FoundIn
<1> QED
  BY <1>12, <1>13

\* insert of a new key.
LEMMA InsertKeeps ==
  ASSUME HInv, NEW k \in Keys, NEW v \in Values, Insert(k, v)
  PROVE  HInv' /\ \A q \in Keys : Find(q)' = IF q = k THEN v ELSE Find(q)
<1>1. PICK C, en, ky, vl, nx, av, sz, m, kz, vw, ny :
        /\ C = Chains /\ en = entry /\ ky = key /\ vl = value /\ nx = next /\ av = avai /\ sz = size
        /\ m = Available.num /\ kz = Available.key /\ vw = Available.value /\ ny = Available.next
  OBVIOUS
<1>2. PICK F : F = PathOf(ny, m, av)
  OBVIOUS
<1>3. /\ m \in Nat \ {0} /\ Table(F, C, en, kz, ny, m, av, sz)
      /\ kz \in [0 .. m - 1 -> Keys \cup {0}] /\ vw \in [0 .. m - 1 -> Values \cup {Absent}]
      /\ \A e \in Places : \A i \in C[e] : kz[i] = ky[i] /\ vw[i] = vl[i] /\ ny[i] = nx[i]
      /\ ny[av] # None
  BY <1>1, <1>2, AvailableKeeps DEF Kept
<1>4. k \in Nat /\ Place(k) \in Places
  BY KeyPlaces
<1>5. PICK e : e = Place(k)
  OBVIOUS
<1>6. HoldersOf(C, ky, k) = {} /\ Chain(k) = C[e]
  BY <1>1, <1>4, <1>5, FindNow DEF Insert
<1>7. PICK ends, b : ends = Before(k, None) /\ b = ny[av]
  OBVIOUS
<1>8. \A i : i \in ends <=> i \in C[e] /\ ny[i] = None
  BY <1>1, <1>3, <1>4, <1>5, <1>6, <1>7 DEF Before
<1>9. PICK ew, nw, kw, ww :
        /\ ew = EntryLinked(en, e, av) /\ nw = NextLinked(ny, m, ends, av)
        /\ kw = KeyLinked(kz, av, k) /\ ww = [vw EXCEPT ![av] = v]
  OBVIOUS
<1>10. DOMAIN ny = 0 .. m - 1
  BY <1>3 DEF Table, Ranged, Links
<1>11. /\ entry' = ew /\ next' = nw /\ key' = kw /\ value' = ww
       /\ nodes_num' = m /\ avai' = b /\ size' = sz + 1
  BY <1>1, <1>5, <1>7, <1>9, <1>10 DEF Insert, EntryLinked, NextLinked, KeyLinked
<1>12. PICK G, D : G = PathOf(nw, m, b) /\ D = ChainsOf(nw, m, ew)
  OBVIOUS
<1>13. \A i \in C[e] : kz[i] # k
  BY <1>3, <1>4, <1>5, <1>6 DEF HoldersOf
<1>14. Table(G, D, ew, kw, nw, m, b, sz + 1) /\ D = ChainLinked(C, e, av)
  BY <1>3, <1>4, <1>5, <1>7, <1>8, <1>9, <1>12, <1>13, Linked
<1>15. Path(avai)' = G /\ Chains' = D
  BY <1>11, <1>12, PathNow
<1>16. /\ av \in 0 .. m - 1 /\ C \in [Places -> SUBSET Nat]
       /\ \A f \in Places : C[f] \subseteq 0 .. m - 1 /\ av \notin C[f]
  <2>1. av \in 0 .. m - 1 /\ List(F, ny, av) /\ C \in [Places -> SUBSET Nat]
    BY <1>3 DEF Table, Ranged, Listed
  <2>2. av \in F
    BY <2>1, NoneApart DEF List
  <2> QED
    BY <1>3, <2>1, <2>2 DEF Table, Parted
<1>17. /\ kw \in [0 .. m - 1 -> Keys \cup {0}] /\ ww \in [0 .. m - 1 -> Values \cup {Absent}]
       /\ kw[av] = k /\ ww[av] = v
       /\ \A i \in 0 .. m - 1 : i # av => kw[i] = kz[i] /\ ww[i] = vw[i]
  BY <1>3, <1>9, <1>16 DEF KeyLinked
<1>18. \A f \in Places : \A i \in C[f] : kw[i] = ky[i] /\ ww[i] = vl[i]
  BY <1>3, <1>16, <1>17
<1>19. \A f \in Places : \A i \in D[f] : i = av \/ i \in C[f]
  BY <1>14, <1>16 DEF ChainLinked
<1>20. HInv'
  <2>1. \A f \in Places : \A i \in C[f] : ky[i] \in Keys /\ vl[i] \in Values
    BY <1>1 DEF HInv
  <2>2. \A f \in Places : \A i \in D[f] : kw[i] \in Keys /\ ww[i] \in Values
    BY <1>17, <1>18, <1>19, <2>1
  <2>3. \A f \in Places : \A i \in Chains'[f] : key'[i] \in Keys /\ value'[i] \in Values
    BY <1>11, <1>15, <2>2
  <2>4. key' \in [Nodes' -> Keys \cup {0}] /\ value' \in [Nodes' -> Values \cup {Absent}]
    BY <1>11, <1>17 DEF Nodes
  <2>5. Table(Path(avai)', Chains', entry', key', next', nodes_num', avai', size')
    BY <1>11, <1>14, <1>15
  <2> QED
    BY <2>3, <2>4, <2>5 DEF HInv, Places
<1>21. \A q : Place(q) \in Places =>
         FoundIn(D, kw, ww, q) = IF q = k THEN v ELSE FoundIn(C, ky, vl, q)
  <2>1. D = ChainLinked(C, Place(k), av) /\ NotIn(C, av) /\ AsBefore(C, ky, vl, kw, ww, {})
    BY <1>5, <1>14, <1>16, <1>18 DEF NotIn, AsBefore
  <2>2. HoldersOf(C, ky, k) = {} /\ C \in [Places -> SUBSET Nat] /\ kw[av] = k /\ ww[av] = v
    BY <1>6, <1>16, <1>17
  <2> QED
    BY <1>4, <2>1, <2>2, FoundLinked
<1>22. ASSUME NEW q \in Keys PROVE Find(q)' = IF q = k THEN v ELSE Find(q)
  <2>1. Find(q)' = FoundIn(D, kw, ww, q) /\ Find(q) = FoundIn(C, ky, vl, q)
    BY <1>1, <1>11, <1>15, KeyPlaces, FindNow
  <2> QED
    BY <1>21, <2>1, KeyPlaces
<1> QED
  BY <1>20, <1>22

\* insert of a key that the table has.
LEMMA UpdateKeeps ==
  ASSUME HInv, NEW k \in Keys, NEW v \in Values, Update(k, v)
  PROVE  HInv' /\ \A q \in Keys : Find(q)' = IF q = k THEN v ELSE Find(q)
<1>1. PICK C, en, ky, vl, nx, av, sz, m, kz, vw, ny :
        /\ C = Chains /\ en = entry /\ ky = key /\ vl = value /\ nx = next /\ av = avai /\ sz = size
        /\ m = Available.num /\ kz = Available.key /\ vw = Available.value /\ ny = Available.next
  OBVIOUS
<1>2. PICK F : F = PathOf(ny, m, av)
  OBVIOUS
<1>3. /\ m \in Nat \ {0} /\ Table(F, C, en, kz, ny, m, av, sz)
      /\ kz \in [0 .. m - 1 -> Keys \cup {0}] /\ vw \in [0 .. m - 1 -> Values \cup {Absent}]
      /\ \A e \in Places : \A i \in C[e] : kz[i] = ky[i] /\ vw[i] = vl[i] /\ ny[i] = nx[i]
  BY <1>1, <1>2, AvailableKeeps DEF Kept
<1>4. k \in Nat /\ Place(k) \in Places
  BY KeyPlaces
<1>5. PICK i \in Holders(k) : value' = [vw EXCEPT ![i] = v]
  BY <1>1 DEF Update
<1>6. i \in HoldersOf(C, ky, k)
  BY <1>1, <1>4, <1>5, FindNow
<1>7. /\ entry' = en /\ next' = ny /\ key' = kz /\ nodes_num' = m /\ avai' = av /\ size' = sz
  BY <1>1 DEF Update
<1>8. PICK ww : ww = [vw EXCEPT ![i] = v]
  OBVIOUS
<1>9. /\ \A e \in Places : C[e] \subseteq 0 .. m - 1
      /\ C \in [Places -> SUBSET Nat] /\ Links(ny, m) /\ av \in 0 .. m - 1
      /\ en \in [Places -> 0 .. m - 1 \cup {None}]
  BY <1>3 DEF Table, Parted, Listed, Ranged
<1>10. i \in C[Place(k)] /\ i \in 0 .. m - 1
  BY <1>4, <1>6, <1>9 DEF HoldersOf
<1>11. /\ ww \in [0 .. m - 1 -> Values \cup {Absent}] /\ ww[i] = v
       /\ \A j \in 0 .. m - 1 : j # i => ww[j] = vw[j]
  BY <1>3, <1>8, <1>10
<1>12. Path(avai)' = F /\ Chains' = C
  <2>1. PICK D : D = ChainsOf(ny, m, en)
    OBVIOUS
  <2>2. Listed(F, D, en, ny, av)
    BY <1>2, <1>3, <1>9, <2>1, AllLists
  <2>3. \A e \in Places : List(D[e], ny, en[e]) /\ List(C[e], ny, en[e])
    BY <1>3, <2>2 DEF Table, Listed
  <2>4. \A e \in Places : D[e] = C[e]
    BY <2>3, SameList
  <2>5. D = C
    <3>1. D \in [Places -> SUBSET Nat]
      BY <2>2 DEF Listed
    <3> QED
      BY <1>9, <2>4, <3>1
  <2> QED
    BY <1>2, <1>7, <2>1, <2>5, PathNow
<1>13. value' = ww
  BY <1>5, <1>8
<1>14. HInv'
  <2>1. \A e \in Places : \A j \in C[e] : ky[j] \in Keys /\ vl[j] \in Values
    BY <1>1 DEF HInv
  <2>2. \A e \in Places : \A j \in C[e] : kz[j] \in Keys /\ ww[j] \in Values
    BY <1>3, <1>9, <1>11, <2>1
  <2>3. \A e \in Places : \A j \in Chains'[e] : key'[j] \in Keys /\ value'[j] \in Values
    BY <1>7, <1>12, <1>13, <2>2
  <2>4. key' \in [Nodes' -> Keys \cup {0}] /\ value' \in [Nodes' -> Values \cup {Absent}]
    BY <1>3, <1>7, <1>11, <1>13 DEF Nodes
  <2>5. Table(Path(avai)', Chains', entry', key', next', nodes_num', avai', size')
    BY <1>3, <1>7, <1>12
  <2> QED
    BY <2>3, <2>4, <2>5 DEF HInv, Places
<1>15. \A q : Place(q) \in Places =>
         FoundIn(C, kz, ww, q) = IF q = k THEN v ELSE FoundIn(C, ky, vl, q)
  <2>1. AsBefore(C, ky, vl, kz, ww, {i})
    BY <1>3, <1>9, <1>11 DEF AsBefore
  <2>2. Keyed(C, ky)
    BY <1>1 DEF HInv, Table
  <2> QED
    <3>1. ww[i] = v
      BY <1>11
    <3> QED
      BY <1>4, <1>6, <2>1, <2>2, <3>1, FoundUpdated
<1>16. ASSUME NEW q \in Keys PROVE Find(q)' = IF q = k THEN v ELSE Find(q)
  <2>1. Find(q)' = FoundIn(C, kz, ww, q) /\ Find(q) = FoundIn(C, ky, vl, q)
    BY <1>1, <1>7, <1>12, <1>13, KeyPlaces, FindNow
  <2> QED
    BY <1>15, <2>1, KeyPlaces
<1> QED
  BY <1>14, <1>16

LEMMA EraseKeeps ==
  ASSUME HInv, NEW k \in Keys, Erase(k)
  PROVE  HInv' /\ \A q \in Keys : Find(q)' = IF q = k THEN Absent ELSE Find(q)
<1>1. PICK F, C, en, ky, vl, nx, n, av, sz :
        /\ F = Path(avai) /\ C = Chains /\ en = entry /\ ky = key /\ vl = value
        /\ nx = next /\ n = nodes_num /\ av = avai /\ sz = size
  OBVIOUS
<1>2. /\ Table(F, C, en, ky, nx, n, av, sz) /\ C \in [Places -> SUBSET Nat] /\ Keyed(C, ky)
      /\ \A e \in Places : \A j \in C[e] : ky[j] \in Keys /\ vl[j] \in Values
  <2>1. Table(F, C, en, ky, nx, n, av, sz)
    BY <1>1 DEF HInv
  <2>2. \A e \in Places : \A j \in C[e] : ky[j] \in Keys /\ vl[j] \in Values
    BY <1>1 DEF HInv
  <2> QED
    BY <2>1, <2>2 DEF Table, Listed
<1>3. k \in Nat /\ Place(k) \in Places
  BY KeyPlaces
<1>4. PICK e : e = Place(k)
  OBVIOUS
<1>5. PICK i \in Holders(k) :
        /\ entry' = IF Before(k, i) = {} THEN [entry EXCEPT ![Place(k)] = next[i]] ELSE entry
        /\ next' = [j \in Nodes |-> IF j = i THEN avai
                                    ELSE IF j \in Before(k, i) THEN next[i] ELSE next[j]]
        /\ avai' = i /\ size' = size - 1 /\ key' = key /\ value' = value
        /\ nodes_num' = nodes_num
  BY DEF Erase
<1>6. i \in HoldersOf(C, ky, k) /\ Chain(k) = C[e] /\ i \in C[e]
  BY <1>1, <1>3, <1>4, <1>5, FindNow DEF HoldersOf
<1>7. PICK before : before = Before(k, i)
  OBVIOUS
<1>8. \A j : j \in before <=> j \in C[e] /\ nx[j] = i
  BY <1>1, <1>6, <1>7 DEF Before
<1>9. PICK ew, nw : ew = EntryUnlinked(en, e, before, nx, i) /\ nw = NextUnlinked(nx, n, before, av, i)
  OBVIOUS
<1>10. /\ entry' = ew /\ next' = nw /\ key' = ky /\ value' = vl
       /\ nodes_num' = n /\ avai' = i /\ size' = sz - 1
  BY <1>1, <1>4, <1>5, <1>7, <1>9 DEF EntryUnlinked, NextUnlinked, Nodes
<1>11. PICK G, D : G = PathOf(nw, n, i) /\ D = ChainsOf(nw, n, ew)
  OBVIOUS
<1>12. Table(G, D, ew, ky, nw, n, i, sz - 1) /\ D = ChainUnlinked(C, e, i)
  BY <1>2, <1>3, <1>4, <1>6, <1>8, <1>9, <1>11, Unlinked
<1>13. Path(avai)' = G /\ Chains' = D
  BY <1>10, <1>11, PathNow
<1>14. HInv'
  <2>1. \A f \in Places : D[f] \subseteq C[f]
    BY <1>2, <1>12 DEF ChainUnlinked
  <2>2. \A f \in Places : \A j \in D[f] : ky[j] \in Keys /\ vl[j] \in Values
    BY <1>2, <2>1
  <2>3. \A f \in Places : \A j \in Chains'[f] : key'[j] \in Keys /\ value'[j] \in Values
    BY <1>10, <1>13, <2>2
  <2>4. key' \in [Nodes' -> Keys \cup {0}] /\ value' \in [Nodes' -> Values \cup {Absent}]
    BY <1>1, <1>10 DEF HInv, Nodes
  <2>5. Table(Path(avai)', Chains', entry', key', next', nodes_num', avai', size')
    BY <1>10, <1>12, <1>13
  <2> QED
    BY <2>3, <2>4, <2>5 DEF HInv, Places
<1>15. \A q : Place(q) \in Places =>
         FoundIn(D, ky, vl, q) = IF q = k THEN Absent ELSE FoundIn(C, ky, vl, q)
  <2>1. D = ChainUnlinked(C, Place(k), i)
    BY <1>4, <1>12
  <2> QED
    BY <1>2, <1>3, <1>6, <2>1, FoundUnlinked
<1>16. ASSUME NEW q \in Keys PROVE Find(q)' = IF q = k THEN Absent ELSE Find(q)
  <2>1. Find(q)' = FoundIn(D, ky, vl, q) /\ Find(q) = FoundIn(C, ky, vl, q)
    BY <1>1, <1>10, <1>13, KeyPlaces, FindNow
  <2> QED
    BY <1>15, <2>1, KeyPlaces
<1> QED
  BY <1>14, <1>16

LEMMA ReserveKeeps ==
  ASSUME HInv, NEW m \in 1 .. MaxNodes, Reserve(m)
  PROVE  HInv' /\ \A q \in Keys : Find(q)' = Find(q)
<1>1. PICK C, en, ky, vl, nx, av, sz, kz, vw, ny :
        /\ C = Chains /\ en = entry /\ ky = key /\ vl = value /\ nx = next /\ av = avai /\ sz = size
        /\ kz = Grown(m).key /\ vw = Grown(m).value /\ ny = Grown(m).next
  OBVIOUS
<1>2. PICK F : F = PathOf(ny, m, av)
  OBVIOUS
<1>3. m \in Nat /\ m > nodes_num
  <2>1. m \in Nat
    BY SizesAssumption
  <2> QED
    BY <2>1 DEF Reserve
<1>4. /\ Table(F, C, en, kz, ny, m, av, sz)
      /\ kz \in [0 .. m - 1 -> Keys \cup {0}] /\ vw \in [0 .. m - 1 -> Values \cup {Absent}]
      /\ \A e \in Places : \A i \in C[e] : kz[i] = ky[i] /\ vw[i] = vl[i] /\ ny[i] = nx[i]
  <2>1. Kept(Grown(m).key, Grown(m).value, Grown(m).next, m)
    BY <1>3, GrownKeeps
  <2> QED
    BY <1>1, <1>2, <2>1 DEF Kept
<1>5. /\ entry' = en /\ next' = ny /\ key' = kz /\ value' = vw
      /\ nodes_num' = m /\ avai' = av /\ size' = sz
  BY <1>1 DEF Reserve
<1>6. Path(avai)' = F /\ Chains' = C
  <2>1. PICK D : D = ChainsOf(ny, m, en)
    OBVIOUS
  <2>2. /\ m \in Nat \ {0} /\ Links(ny, m) /\ av \in 0 .. m - 1
        /\ en \in [Places -> 0 .. m - 1 \cup {None}] /\ C \in [Places -> SUBSET Nat]
    BY <1>4 DEF Table, Listed, Ranged
  <2>3. Listed(F, D, en, ny, av)
    BY <1>2, <2>1, <2>2, AllLists
  <2>4. \A e \in Places : List(D[e], ny, en[e]) /\ List(C[e], ny, en[e])
    BY <1>4, <2>3 DEF Table, Listed
  <2>5. \A e \in Places : D[e] = C[e]
    BY <2>4, SameList
  <2>6. D \in [Places -> SUBSET Nat]
    BY <2>3 DEF Listed
  <2>7. D = C
    BY <2>2, <2>5, <2>6
  <2> QED
    BY <1>2, <1>5, <2>1, <2>7, PathNow
<1>7. HInv'
  <2>1. \A e \in Places : \A j \in C[e] : ky[j] \in Keys /\ vl[j] \in Values
    BY <1>1 DEF HInv
  <2>2. \A e \in Places : \A j \in C[e] : kz[j] \in Keys /\ vw[j] \in Values
    BY <1>4, <2>1
  <2>3. \A e \in Places : \A j \in Chains'[e] : key'[j] \in Keys /\ value'[j] \in Values
    BY <1>5, <1>6, <2>2
  <2>4. key' \in [Nodes' -> Keys \cup {0}] /\ value' \in [Nodes' -> Values \cup {Absent}]
    BY <1>4, <1>5 DEF Nodes
  <2>5. Table(Path(avai)', Chains', entry', key', next', nodes_num', avai', size')
    BY <1>4, <1>5, <1>6
  <2> QED
    BY <2>3, <2>4, <2>5 DEF HInv, Places
<1>8. ASSUME NEW q \in Keys PROVE Find(q)' = Find(q)
  <2>1. Find(q)' = FoundIn(C, kz, vw, q) /\ Find(q) = FoundIn(C, ky, vl, q)
    BY <1>1, <1>5, <1>6, KeyPlaces, FindNow
  <2>2. Place(q) \in Places
    BY KeyPlaces
  <2>3. HoldersOf(C, kz, q) = HoldersOf(C, ky, q) /\ \A i \in HoldersOf(C, ky, q) : vw[i] = vl[i]
    BY <1>4, <2>2 DEF HoldersOf
  <2> QED
    BY <2>1, <2>3, FoundSame
<1> QED
  BY <1>7, <1>8

\* What a step does to the map that find shows.
LEMMA StepKeeps ==
  ASSUME HInv, [Next]_vars
  PROVE  /\ HInv'
         /\ \/ \A q \in Keys : Find(q)' = Find(q)
            \/ \E k \in Keys, v \in Values : \A q \in Keys : Find(q)' = IF q = k THEN v ELSE Find(q)
            \/ \E k \in Keys : \A q \in Keys : Find(q)' = IF q = k THEN Absent ELSE Find(q)
<1>1. CASE \E k \in Keys, v \in Values : Insert(k, v)
  BY <1>1, InsertKeeps
<1>2. CASE \E k \in Keys, v \in Values : Update(k, v)
  BY <1>2, UpdateKeeps
<1>3. CASE \E k \in Keys : Erase(k)
  BY <1>3, EraseKeeps
<1>4. CASE \E n \in 1 .. MaxNodes : Reserve(n)
  BY <1>4, ReserveKeeps
<1>5. CASE UNCHANGED vars
  <2>1. /\ Path(avai)' = Path(avai) /\ Chains' = Chains /\ nodes_num' = nodes_num /\ size' = size
        /\ entry' = entry /\ key' = key /\ value' = value /\ next' = next /\ avai' = avai
    BY <1>5 DEF vars, Path, Walk, Chains
  <2>2. HInv'
    BY <2>1 DEF HInv, Nodes
  <2>3. \A q \in Keys : Find(q)' = Find(q)
    BY <2>1, KeyPlaces, FindNow
  <2> QED
    BY <2>2, <2>3
<1> QED
  BY <1>1, <1>2, <1>3, <1>4, <1>5 DEF Next

\* In every state the nodes form a table.
THEOREM Invariance == Spec => []HInv
<1>1. Init => HInv
  BY InitHolds
<1>2. HInv /\ [Next]_vars => HInv'
  BY StepKeeps
<1> QED
  BY <1>1, <1>2, PTL DEF Spec

\* Every node is free or in one chain, in the chain of its key, and no key is there
\* twice, however the calls of insert, erase and reserve follow each other: links of
\* two lists never cross.
THEOREM NothingLost == Spec => []Partition
<1>1. ASSUME HInv PROVE Partition
  <2>1. PICK F, C, en, ky, nx, n, av, sz :
          /\ F = Path(avai) /\ C = Chains /\ en = entry /\ ky = key
          /\ nx = next /\ n = nodes_num /\ av = avai /\ sz = size
    OBVIOUS
  <2>2. Table(F, C, en, ky, nx, n, av, sz)
    BY <1>1, <2>1 DEF HInv
  <2>3. \A e \in Places : Path(entry[e]) = C[e]
    BY <2>1 DEF Chains
  <2>4. TypeOK
    BY <1>1, <2>1, <2>2 DEF HInv, Table, Ranged, Links, TypeOK, Nodes
  <2>5. /\ F \subseteq Nodes /\ \A e \in Places : C[e] \subseteq Nodes
        /\ \A i \in Nodes : i \in F \/ \E e \in Places : i \in C[e]
        /\ \A e \in Places : C[e] \cap F = {}
        /\ \A e, f \in Places : e # f => C[e] \cap C[f] = {}
    BY <2>1, <2>2 DEF Table, Parted, Nodes
  <2>6. /\ \A e \in Places : \A i \in C[e] : Place(key[i]) = e
        /\ \A e \in Places : \A i, j \in C[e] : key[i] = key[j] => i = j
    BY <2>1, <2>2 DEF Table, Keyed
  <2>7. size = Cardinality(Used(C)) /\ nodes_num - 1 \in F /\ next[nodes_num - 1] = None
    BY <2>1, <2>2 DEF Table
  <2> DEFINE lists == {Path(avai)} \cup {Path(entry[e]) : e \in Places}
             used == UNION {Path(entry[e]) : e \in Places}
  <2>8. \A i : i \in used <=> \E e \in Places : i \in C[e]
    BY <2>3
  <2>9. used = Used(C)
    <3>1. \A i : i \in Used(C) <=> \E e \in Places : i \in C[e]
      BY DEF Used
    <3> HIDE DEF used
    <3> QED
      BY <2>8, <3>1
  <2>10. UNION lists = Nodes
    <3>1. \A i : i \in UNION lists <=> i \in F \/ \E e \in Places : i \in C[e]
      BY <2>1, <2>3
    <3> HIDE DEF lists
    <3> QED
      BY <2>5, <3>1
  <2>11. \A i, j \in used : key[i] = key[j] => i = j
    <3> HIDE DEF used
    <3> QED
      BY <2>6, <2>8
  <2>12. size = Cardinality(used)
    <3> HIDE DEF used
    <3> QED
      BY <2>7, <2>9
  <2>13. /\ \A e \in Places : Path(entry[e]) \cap Path(avai) = {}
         /\ \A e, f \in Places : e # f => Path(entry[e]) \cap Path(entry[f]) = {}
         /\ \A e \in Places : \A i \in Path(entry[e]) : Place(key[i]) = e
    BY <2>1, <2>3, <2>5, <2>6
  <2>14. nodes_num - 1 \in Path(avai) /\ next[nodes_num - 1] = None
    BY <2>1, <2>7
  <2> QED
    BY <2>4, <2>10, <2>11, <2>12, <2>13, <2>14 DEF Partition
<1> QED
  BY <1>1, Invariance, PTL

\* The table is a map: a call of insert or erase changes what find returns for its
\* own key only, and growth, in insert or by reserve, changes it for none.
THEOREM IsMap == Spec => MapSpec
<1>1. Init => TheMap!Init
  BY InitHolds DEF TheMap!Init
<1>2. ASSUME HInv, [Next]_vars PROVE [TheMap!Next]_([k \in Keys |-> Find(k)])
  <2>1. PICK f, g : f = [k \in Keys |-> Find(k)] /\ g = [k \in Keys |-> Find(k)']
    OBVIOUS
  <2>2. DOMAIN f = Keys /\ DOMAIN g = Keys /\ f = [k \in Keys |-> f[k]] /\ g = [k \in Keys |-> g[k]]
        /\ \A q \in Keys : f[q] = Find(q) /\ g[q] = Find(q)'
    BY <2>1
  <2>3. CASE \A q \in Keys : Find(q)' = Find(q)
    BY <2>1, <2>3
  <2>4. ASSUME NEW k \in Keys, NEW v \in Values,
               \A q \in Keys : Find(q)' = IF q = k THEN v ELSE Find(q)
        PROVE  TheMap!Next
    <3>1. g = [f EXCEPT ![k] = v]
      BY <2>2, <2>4
    <3> QED
      BY <2>1, <3>1 DEF TheMap!Next, TheMap!Insert
  <2>5. ASSUME NEW k \in Keys,
               \A q \in Keys : Find(q)' = IF q = k THEN Absent ELSE Find(q)
        PROVE  TheMap!Next
    <3>1. g = [f EXCEPT ![k] = Absent]
      BY <2>2, <2>5
    <3> QED
      BY <2>1, <3>1 DEF TheMap!Next, TheMap!Erase
  <2> QED
    BY <1>2, <2>3, <2>4, <2>5, StepKeeps
<1> QED
  BY <1>1, <1>2, Invariance, PTL DEF Spec, MapSpec, TheMap!Spec

-----------------------------------------------------------------------------
(* The iterator.  What is left for it are the nodes from its own on in the *)
(* chain, and the chains of the entries after it.                          *)

From(e) == UNION {Chains[f] : f \in e .. Entries - 1}

Left(it) == IF it.idx = None THEN {} ELSE Path(it.idx) \cup From(it.ei + 1)

\* The iterator is in the chain of its entry, and the way on does not come back.
InChain(it) ==
  /\ it \in [idx : Nodes \cup {None}, ei : 0 .. Entries]
  /\ it.idx # None =>
       /\ it.ei \in Places /\ it.idx \in Path(it.idx) /\ Path(it.idx) \subseteq Chains[it.ei]
       /\ \A i \in Path(it.idx) : next[i] # it.idx

LEMMA VisitsGo ==
  ASSUME size \in Nat
  PROVE  \A j \in 0 .. size : Visits[j] = IF j = 0 THEN Begin ELSE Advance(Visits[j - 1])
<1> DEFINE Steps(w, m) == w = [j \in 0 .. m |-> IF j = 0 THEN Begin ELSE Advance(w[j - 1])]
           S == {m \in Nat : \E w : Steps(w, m)}
<1>1. 0 \in S
  <2>1. Steps([j \in 0 .. 0 |-> Begin], 0)
    OBVIOUS
  <2> QED
    BY <2>1
<1>2. ASSUME NEW m \in Nat, m \in S PROVE m + 1 \in S
  <2>1. PICK w : Steps(w, m)
    BY <1>2
  <2>2. PICK last : last = Advance(w[m])
    OBVIOUS
  <2> DEFINE v == [j \in 0 .. m + 1 |-> IF j = m + 1 THEN last ELSE w[j]]
  <2>3. \A j \in 0 .. m + 1 : v[j] = IF j = 0 THEN Begin ELSE Advance(v[j - 1])
    <3> TAKE j \in 0 .. m + 1
    <3>1. CASE j = m + 1
      <4>1. j # 0 /\ j - 1 = m /\ m \in 0 .. m + 1 /\ m # m + 1
        BY <3>1
      <4>2. v[j] = last /\ v[j - 1] = w[m]
        BY <3>1, <4>1
      <4> QED
        BY <2>2, <4>1, <4>2
    <3>2. CASE j # m + 1
      <4>1. j \in 0 .. m /\ (j # 0 => j - 1 \in 0 .. m /\ j - 1 \in 0 .. m + 1 /\ j - 1 # m + 1)
        BY <3>2
      <4>2. w[j] = IF j = 0 THEN Begin ELSE Advance(w[j - 1])
        BY <2>1, <4>1
      <4>3. v[j] = w[j] /\ (j # 0 => v[j - 1] = w[j - 1])
        BY <3>2, <4>1
      <4> QED
        BY <4>1, <4>2, <4>3
    <3> QED
      BY <3>1, <3>2
  <2>4. Steps(v, m + 1)
    <3>1. v = [j \in 0 .. m + 1 |-> v[j]]
      OBVIOUS
    <3> HIDE DEF v
    <3> QED
      BY <2>3, <3>1
  <2>5. m + 1 \in Nat /\ \E u : Steps(u, m + 1)
    <3> HIDE DEF Steps, v
    <3> QED
      BY <2>4
  <2> QED
    BY <2>5
<1>3. size \in S
  <2> HIDE DEF S
  <2> QED
    BY <1>1, <1>2, Upwards
<1> DEFINE at == CHOOSE w : w = [j \in 0 .. size |-> IF j = 0 THEN Begin ELSE Advance(w[j - 1])]
<1>4. at = [j \in 0 .. size |-> IF j = 0 THEN Begin ELSE Advance(at[j - 1])]
  BY <1>3
<1>5. Visits = at
  BY DEF Visits
<1> HIDE DEF at
<1> QED
  BY <1>4, <1>5

\* What the invariant says for one moment.
LEMMA ListsNow ==
  ASSUME HInv
  PROVE  /\ \A h \in Nodes \cup {None} : List(Path(h), next, h) /\ Path(h) \subseteq Nodes
         /\ \A e \in Places : /\ Chains[e] = Path(entry[e]) /\ Chains[e] \subseteq Nodes
                              /\ entry[e] \in Nodes \cup {None}
         /\ \A e, f \in Places : e # f => Chains[e] \cap Chains[f] = {}
         /\ \A i, j \in Nodes : next[i] = next[j] /\ next[i] # None => i = j
         /\ \A i \in Nodes : next[i] # None => \A e \in Places : next[i] # entry[e]
         /\ next \in [Nodes -> Nodes \cup {None}] /\ None \notin Nodes
         /\ size \in Nat /\ size = Cardinality(Used(Chains)) /\ IsFiniteSet(Used(Chains))
<1>1. PICK F, C, en, ky, nx, n, av, sz :
        /\ F = Path(avai) /\ C = Chains /\ en = entry /\ ky = key
        /\ nx = next /\ n = nodes_num /\ av = avai /\ sz = size
  OBVIOUS
<1>2. Table(F, C, en, ky, nx, n, av, sz)
  BY <1>1 DEF HInv
<1>3. n \in Nat \ {0} /\ Links(nx, n) /\ en \in [Places -> 0 .. n - 1 \cup {None}] /\ sz \in Nat
  BY <1>2 DEF Table, Ranged
<1>4. ASSUME NEW h \in 0 .. n - 1 \cup {None}
      PROVE  List(Path(h), nx, h) /\ Path(h) \subseteq 0 .. n - 1
  <2>1. Path(h) = PathOf(nx, n, h)
    BY <1>1 DEF Path, Walk, PathOf
  <2> QED
    BY <1>3, <2>1, PathIsList
<1>5. /\ \A e \in Places : C[e] \subseteq 0 .. n - 1
      /\ \A e, f \in Places : e # f => C[e] \cap C[f] = {}
  BY <1>2 DEF Table, Parted
<1>6. /\ \A i, j \in 0 .. n - 1 : nx[i] = nx[j] /\ nx[i] # None => i = j
      /\ \A i \in 0 .. n - 1 : nx[i] # None => \A e \in Places : nx[i] # en[e]
  BY <1>2 DEF Table, Threaded
<1>7. sz = Cardinality(Used(C)) /\ IsFiniteSet(Used(C))
  BY <1>2, <1>3, UsedNodes DEF Table
<1>8. \A e \in Places : C[e] = Path(en[e])
  BY <1>1 DEF Chains
<1>9. None \notin 0 .. n - 1 /\ nx \in [0 .. n - 1 -> 0 .. n - 1 \cup {None}]
  BY <1>3, NoneApart DEF Links
<1>10. Nodes = 0 .. n - 1
  BY <1>1 DEF Nodes
<1> QED
  BY <1>1, <1>3, <1>4, <1>5, <1>6, <1>7, <1>8, <1>9, <1>10

\* The search for a chain from entry e on leaves none out.
LEMMA FromPlace ==
  ASSUME HInv, NEW e \in 0 .. Entries, NEW it, it = AtPlace(NextPlace(e))
  PROVE  InChain(it) /\ Left(it) = From(e)
<1> DEFINE chained == {p \in e .. Entries - 1 : entry[p] # None}
<1>1. Entries \in Nat \ {0} /\ Places = 0 .. Entries - 1
  BY SizesAssumption DEF Places
<1>2. \A f \in e .. Entries - 1 : f \in Places
  BY <1>1
<1>3. \A f \in Places : entry[f] = None => Chains[f] = {}
  BY ListsNow DEF List
<1>4. \A i : i \in From(e) <=> \E f \in e .. Entries - 1 : i \in Chains[f]
  BY DEF From
<1>5. CASE chained = {}
  <2>1. NextPlace(e) = Entries
    BY <1>5 DEF NextPlace
  <2>2. it = [idx |-> None, ei |-> Entries]
    BY <1>1, <2>1 DEF AtPlace
  <2>3. \A f \in e .. Entries - 1 : Chains[f] = {}
    BY <1>2, <1>3, <1>5
  <2>4. From(e) = {}
    BY <1>4, <2>3
  <2>5. it.idx = None /\ it \in [idx : Nodes \cup {None}, ei : 0 .. Entries]
    BY <1>1, <2>2
  <2> QED
    BY <2>4, <2>5 DEF InChain, Left
<1>6. CASE chained # {}
  <2>1. chained \in SUBSET Nat
    BY <1>1
  <2>2. \E p \in chained : \A q \in chained : p <= q
    <3> HIDE DEF chained
    <3> QED
      BY <1>6, <2>1, LeastNumber
  <2>3. PICK p : p = NextPlace(e)
    OBVIOUS
  <2>4. p = CHOOSE x \in chained : \A q \in chained : x <= q
    BY <1>6, <2>3 DEF NextPlace
  <2>5. p \in chained /\ \A q \in chained : p <= q
    <3> HIDE DEF chained
    <3> QED
      BY <2>2, <2>4
  <2>6. p \in e .. Entries - 1 /\ p \in Places /\ entry[p] # None /\ p < Entries
    BY <1>1, <2>5
  <2>7. it = [idx |-> entry[p], ei |-> p]
    BY <2>3, <2>6 DEF AtPlace
  <2>8. it.idx = entry[p] /\ it.ei = p /\ it \in [idx : Nodes \cup {None}, ei : 0 .. Entries]
    BY <1>1, <2>6, <2>7, ListsNow
  <2>9. /\ Path(entry[p]) = Chains[p] /\ entry[p] \in Chains[p]
        /\ \A i \in Chains[p] : next[i] # entry[p]
    BY <2>6, ListsNow DEF List
  <2>10. InChain(it)
    BY <2>6, <2>8, <2>9 DEF InChain
  <2>11. \A f \in e .. Entries - 1 : f < p => Chains[f] = {}
    <3> TAKE f \in e .. Entries - 1
    <3>1. f < p => f \notin chained
      BY <1>1, <2>5, <2>6
    <3> QED
      BY <1>2, <1>3, <3>1
  <2>12. \A i : i \in From(e) <=> i \in Chains[p] \/ \E f \in p + 1 .. Entries - 1 : i \in Chains[f]
    <3>1. \A f \in e .. Entries - 1 : f < p \/ f = p \/ f \in p + 1 .. Entries - 1
      BY <2>6
    <3>2. \A f \in p + 1 .. Entries - 1 : f \in e .. Entries - 1
      BY <2>6
    <3> QED
      BY <1>4, <2>6, <2>11, <3>1, <3>2
  <2>13. \A i : i \in From(p + 1) <=> \E f \in p + 1 .. Entries - 1 : i \in Chains[f]
    BY DEF From
  <2>14. Left(it) = Chains[p] \cup From(p + 1)
    BY <2>6, <2>8, <2>9 DEF Left
  <2> QED
    BY <2>10, <2>12, <2>13, <2>14
<1> QED
  BY <1>5, <1>6

\* A step leaves its own node behind, and no other.
LEMMA AdvanceLeaves ==
  ASSUME HInv, NEW it, InChain(it), it.idx # None, NEW nt, nt = Advance(it)
  PROVE  InChain(nt) /\ it.idx \in Left(it) /\ Left(nt) = Left(it) \ {it.idx}
<1>1. PICK h, e : h = it.idx /\ e = it.ei
  OBVIOUS
<1>2. /\ it \in [idx : Nodes \cup {None}, ei : 0 .. Entries] /\ h \in Nodes
      /\ e \in Places /\ h \in Path(h) /\ Path(h) \subseteq Chains[e]
      /\ \A i \in Path(h) : next[i] # h
  BY <1>1 DEF InChain
<1>3. Entries \in Nat \ {0} /\ Places = 0 .. Entries - 1
  BY SizesAssumption DEF Places
<1>4. Left(it) = Path(h) \cup From(e + 1)
  BY <1>1 DEF Left
<1>5. h \notin From(e + 1)
  <2>1. \A f \in e + 1 .. Entries - 1 : f \in Places /\ f # e
    BY <1>2, <1>3
  <2> QED
    BY <1>2, <2>1, ListsNow DEF From
<1>6. CASE next[h] # None
  <2>1. PICK g : g = next[h]
    OBVIOUS
  <2>2. nt = [it EXCEPT !.idx = g]
    BY <1>1, <1>6, <2>1 DEF Advance
  <2>3. g \in Nodes
    BY <1>2, <1>6, <2>1, ListsNow
  <2>4. nt.idx = g /\ nt.ei = e /\ nt \in [idx : Nodes \cup {None}, ei : 0 .. Entries] /\ g # None
    BY <1>1, <1>2, <1>6, <2>1, <2>2, <2>3
  <2>5. List(Path(h), next, h) /\ List(Path(g), next, g) /\ h # None
    BY <1>2, <2>3, ListsNow
  <2>6. Path(g) = Path(h) \ {h}
    BY <1>2, <2>1, <2>5, Beheaded
  <2>7. g \in Path(g)
    BY <2>4, <2>5 DEF List
  <2>8. \A i \in Path(g) : next[i] # g
    BY <1>2, <1>6, <2>1, <2>6, ListsNow
  <2>9. InChain(nt)
    BY <1>2, <2>4, <2>6, <2>7, <2>8 DEF InChain
  <2>10. Left(nt) = Path(g) \cup From(e + 1)
    BY <2>4 DEF Left
  <2> QED
    BY <1>1, <1>2, <1>4, <1>5, <2>6, <2>9, <2>10
<1>7. CASE next[h] = None
  <2>1. nt = AtPlace(NextPlace(e + 1))
    BY <1>1, <1>7 DEF Advance
  <2>2. e + 1 \in 0 .. Entries
    BY <1>2, <1>3
  <2>3. InChain(nt) /\ Left(nt) = From(e + 1)
    BY <2>1, <2>2, FromPlace
  <2>4. Path(h) = {h}
    BY <1>2, <1>7, ListsNow, Alone
  <2> QED
    BY <1>1, <1>2, <1>4, <1>5, <2>3, <2>4
<1> QED
  BY <1>6, <1>7


\* After j steps the iterator has met j nodes, those which are not left for it.
MetAll(j) ==
  /\ InChain(Visits[j]) /\ Cardinality(Left(Visits[j])) = size - j
  /\ Left(Visits[j]) \subseteq Used(Chains)
  /\ \A i \in Used(Chains) : i \in Left(Visits[j]) \/ \E l \in 0 .. j - 1 : Visits[l].idx = i
  /\ \A l \in 0 .. j - 1 : Visits[l].idx \in Used(Chains)

LEMMA MetStep ==
  ASSUME HInv, NEW j \in 0 .. size - 1, MetAll(j)
  PROVE  Visits[j].idx # None /\ Visits[j].idx \in Used(Chains) /\ MetAll(j + 1)
<1>1. size \in Nat /\ IsFiniteSet(Used(Chains))
  BY ListsNow
<1>2. PICK it, nt : it = Visits[j] /\ nt = Visits[j + 1]
  OBVIOUS
<1>3. nt = Advance(it)
  <2>1. j + 1 \in 0 .. size /\ j + 1 # 0 /\ j + 1 - 1 = j
    BY <1>1
  <2> QED
    BY <1>1, <1>2, <2>1, VisitsGo
<1>4. PICK L, M, U : L = Left(it) /\ M = Left(nt) /\ U = Used(Chains)
  OBVIOUS
<1>5. /\ InChain(it) /\ Cardinality(L) = size - j /\ L \subseteq U
      /\ \A i \in U : i \in L \/ \E l \in 0 .. j - 1 : Visits[l].idx = i
      /\ \A l \in 0 .. j - 1 : Visits[l].idx \in U
  BY <1>2, <1>4 DEF MetAll
<1>6. it.idx # None
  <2>1. ASSUME it.idx = None PROVE L = {}
    BY <1>4, <2>1 DEF Left
  <2>2. L # {}
    BY <1>1, <1>5, FS_EmptySet
  <2> QED
    BY <2>1, <2>2
<1>7. InChain(nt) /\ it.idx \in L /\ M = L \ {it.idx}
  BY <1>3, <1>4, <1>5, <1>6, AdvanceLeaves
<1>8. Cardinality(M) = size - (j + 1)
  <2>1. IsFiniteSet(L)
    BY <1>1, <1>4, <1>5, FS_Subset
  <2>2. Cardinality(M) = Cardinality(L) - 1
    BY <1>7, <2>1, FS_RemoveElement
  <2> QED
    BY <1>1, <1>5, <2>2
<1>9. \A l \in 0 .. (j + 1) - 1 : l = j \/ l \in 0 .. j - 1
  BY <1>1
<1>10. j \in 0 .. (j + 1) - 1 /\ \A l \in 0 .. j - 1 : l \in 0 .. (j + 1) - 1
  BY <1>1
<1>11. it.idx \in U
  BY <1>5, <1>7
<1>12. \A i \in U : i \in M \/ \E l \in 0 .. (j + 1) - 1 : Visits[l].idx = i
  BY <1>2, <1>5, <1>7, <1>10
<1>13. \A l \in 0 .. (j + 1) - 1 : Visits[l].idx \in U
  BY <1>2, <1>5, <1>9, <1>11
<1>14. M \subseteq U
  BY <1>5, <1>7
<1>15. MetAll(j + 1)
  BY <1>2, <1>4, <1>7, <1>8, <1>12, <1>13, <1>14 DEF MetAll
<1> QED
  BY <1>2, <1>4, <1>6, <1>11, <1>15

LEMMA MetFirst == ASSUME HInv PROVE MetAll(0)
<1>1. size \in Nat /\ size = Cardinality(Used(Chains))
  BY ListsNow
<1>2. Visits[0] = AtPlace(NextPlace(0))
  BY <1>1, VisitsGo DEF Begin
<1>3. 0 \in 0 .. Entries
  BY SizesAssumption
<1>4. InChain(Visits[0]) /\ Left(Visits[0]) = From(0)
  BY <1>2, <1>3, FromPlace
<1>5. From(0) = Used(Chains)
  BY DEF From, Used, Places
<1> QED
  BY <1>1, <1>4, <1>5 DEF MetAll

\* An iteration from begin meets every stored key, and size_ of them in all, so each
\* once, and ends then.
THEOREM IterationMeetsAll == Spec => []IterationComplete
<1>1. ASSUME HInv PROVE IterationComplete
  <2>1. size \in Nat /\ IsFiniteSet(Used(Chains))
    BY <1>1, ListsNow
  <2> DEFINE S == {j \in 0 .. size : MetAll(j)}
  <2>2. 0 \in S
    BY <1>1, <2>1, MetFirst
  <2>3. \A j \in 0 .. size - 1 : j \in S => j + 1 \in S
    BY <1>1, <2>1, MetStep
  <2>4. 0 .. size \subseteq S
    <3> HIDE DEF S
    <3> QED
      BY <2>1, <2>2, <2>3, Upwards
  <2>5. \A j \in 0 .. size : MetAll(j)
    BY <2>4
  <2>6. \A j \in 0 .. size - 1 : Visits[j].idx # None /\ Visits[j].idx \in Used(Chains)
    BY <1>1, <2>1, <2>5, MetStep
  <2>7. Left(Visits[size]) = {} /\ InChain(Visits[size])
    <3>1. /\ Cardinality(Left(Visits[size])) = 0 /\ InChain(Visits[size])
          /\ Left(Visits[size]) \subseteq Used(Chains)
      BY <2>1, <2>5 DEF MetAll
    <3>2. IsFiniteSet(Left(Visits[size]))
      BY <2>1, <3>1, FS_Subset
    <3> QED
      BY <3>1, <3>2, FS_EmptySet
  <2>8. Visits[size].idx = None
    BY <2>7 DEF Left, InChain
  <2>9. \A i \in Used(Chains) : \E j \in 0 .. size - 1 : Visits[j].idx = i
    BY <2>1, <2>5, <2>7 DEF MetAll
  <2>10. ASSUME NEW i, i \in Used(Chains)
         PROVE  key[i] \in Keys /\ Find(key[i]) # Absent
    <3>1. PICK e \in Places : i \in Chains[e]
      BY <2>10 DEF Used
    <3>2. key[i] \in Keys /\ Place(key[i]) = e
      BY <1>1, <3>1 DEF HInv, Table, Keyed
    <3>3. i \in HoldersOf(Chains, key, key[i])
      BY <3>1, <3>2 DEF HoldersOf
    <3>4. PICK k : k = key[i]
      OBVIOUS
    <3>5. PICK H : H = HoldersOf(Chains, key, k)
      OBVIOUS
    <3>6. Find(k) = value[CHOOSE l \in H : TRUE]
      BY <3>1, <3>2, <3>3, <3>4, <3>5, FindNow DEF FoundIn
    <3>7. (CHOOSE l \in H : TRUE) \in H
      BY <3>3, <3>4, <3>5
    <3>8. \A l \in H : value[l] \in Values
      BY <1>1, <3>1, <3>2, <3>4, <3>5 DEF HInv, HoldersOf
    <3> QED
      BY <3>2, <3>4, <3>6, <3>7, <3>8, AbsentAssumption
  <2>11. ASSUME NEW k \in Keys, Find(k) # Absent
         PROVE  \E i \in Used(Chains) : key[i] = k
    <3>1. Place(k) \in Places
      BY KeyPlaces
    <3>2. HoldersOf(Chains, key, k) # {}
      BY <2>11, <3>1, FindNow DEF FoundIn
    <3> QED
      BY <3>1, <3>2 DEF HoldersOf, Used
  <2>12. {key[Visits[j].idx] : j \in 0 .. size - 1} = {k \in Keys : Find(k) # Absent}
    <3>1. \A k : k \in {key[Visits[j].idx] : j \in 0 .. size - 1} <=> k \in Keys /\ Find(k) # Absent
      <4>1. ASSUME NEW j \in 0 .. size - 1
            PROVE  key[Visits[j].idx] \in Keys /\ Find(key[Visits[j].idx]) # Absent
        BY <2>6, <2>10
      <4>2. ASSUME NEW k \in Keys, Find(k) # Absent
            PROVE  \E j \in 0 .. size - 1 : k = key[Visits[j].idx]
        BY <2>9, <2>11, <4>2
      <4> QED
        BY <4>1, <4>2
    <3> QED
      BY <3>1
  <2> QED
    BY <2>6, <2>8, <2>12 DEF IterationComplete
<1> QED
  BY <1>1, Invariance, PTL

=============================================================================
