----------------------- MODULE DictionaryCacheProofs -----------------------
(***************************************************************************)
(* Machine-checked proofs about DictionaryCache, for any number of         *)
(* processes, keys and values: what is loaded from the cache is what was   *)
(* loaded from the text.                                                   *)
(***************************************************************************)
EXTENDS DictionaryCache, FiniteSetTheorems, FunctionTheorems, TLAPS

-----------------------------------------------------------------------------
(* The inductive invariant.                                                *)

\* The contents of the text: finitely many, each with a key.
Written == IsFiniteSet(written) /\ \A x \in written : KeysOf(x) # {}

\* What a process that builds the cache has is about the text it read, and the
\* file it is writing exists.
Building ==
  \A p \in Processes :
    /\ source[p] \in written
    /\ pc[p] \in {"bin", "store", "v"} => trie[p] = Sorted(source[p])
    /\ pc[p] \in {"store", "v"} => HasValues(source[p])
    /\ pc[p] = "bin" => bin # Missing
    /\ pc[p] = "v" => v # Missing /\ values[p] = Stored(source[p])

\* The two files are the cache of the text x; and there is none, or that of a
\* content the text has had.
CacheOf(x) == bin = Sorted(x) /\ v = IF HasValues(x) THEN Stored(x) ELSE Missing
Cached == (bin = Missing /\ v = Missing) \/ \E x \in written : CacheOf(x)

\* Without disturbance one process loads at a time, and the files are as far as it
\* is; while nobody loads, they are a cache.
Alone ==
  happened = {} =>
    /\ \A p, q \in Processes : pc[p] \in Loading /\ pc[q] \in Loading => p = q
    /\ (\A p \in Processes : pc[p] \notin Loading \ {"open"}) => Cached
    /\ \A p \in Processes :
         /\ pc[p] \in Loading \ {"v"} => values[p] = <<>>
         /\ pc[p] = "values" => \E x \in written : CacheOf(x) /\ trie[p] = Sorted(x)
         /\ pc[p] = "read" => bin = Missing /\ v = Missing
         /\ pc[p] = "bin" => bin = p /\ v = Missing
         /\ pc[p] = "store" => bin = trie[p] /\ v = Missing
         /\ pc[p] = "v" => bin = trie[p] /\ v = p
         /\ pc[p] = "up" => \E x \in written :
              trie[p] = Sorted(x) /\ values[p] = IF HasValues(x) THEN Stored(x) ELSE <<>>

\* While the text stays as it is, whatever else happens: what is whole is about
\* this text, and without a crash a torn file is one that is being written.
Steady ==
  written = {text} =>
    /\ bin \in {Missing, Torn, Sorted(text)} \cup Processes
    /\ v \in {Missing, Torn} \cup Processes \/ (v = Stored(text) /\ HasValues(text))
    /\ \A p \in Processes :
         /\ pc[p] \in {"values", "up"} => trie[p] \in {Torn, Sorted(text)}
         /\ values[p] = <<>> \/ (values[p] = Stored(text) /\ HasValues(text))
    /\ "crash" \notin happened =>
         /\ IsTorn(bin) => bin \in Processes /\ pc[bin] = "bin"
         /\ IsTorn(v) => v \in Processes /\ pc[v] = "v"

\* Values that can be read back.
Readable ==
  kind = "number" \/ (\A x \in written : NoValue \notin {x[k] : k \in Keys})
       => AssertionsHold

CInv == TypeOK /\ Written /\ Building /\ Alone /\ Steady /\ Readable

-----------------------------------------------------------------------------
(* The order of the keys.                                                  *)

\* How many keys of a text come before k.
Rank(x, k) == Cardinality({j \in KeysOf(x) : j < k})

\* A key has fewer keys before it than there are, and no other key has as many.
LEMMA Ranks ==
  ASSUME NEW x \in Texts
  PROVE  /\ IsFiniteSet(KeysOf(x)) /\ Cardinality(KeysOf(x)) \in Nat
         /\ \A k \in KeysOf(x) : Rank(x, k) \in 0 .. Cardinality(KeysOf(x)) - 1
         /\ \A j, k \in KeysOf(x) : Rank(x, j) = Rank(x, k) => j = k
<1>1. IsFiniteSet(KeysOf(x)) /\ Cardinality(KeysOf(x)) \in Nat /\ KeysOf(x) \subseteq Int
  BY KeysAssumption, FS_Subset, FS_CardinalityType DEF KeysOf
<1>2. \A k \in KeysOf(x) : Rank(x, k) \in 0 .. Cardinality(KeysOf(x)) - 1
  <2> TAKE k \in KeysOf(x)
  <2>1. {j \in KeysOf(x) : j < k} \subseteq KeysOf(x) /\ {j \in KeysOf(x) : j < k} # KeysOf(x)
    BY <1>1
  <2> QED
    BY <1>1, <2>1, FS_Subset, FS_CardinalityType DEF Rank
<1>3. ASSUME NEW j \in KeysOf(x), NEW k \in KeysOf(x), j < k
      PROVE  Rank(x, j) < Rank(x, k)
  <2> DEFINE J == {i \in KeysOf(x) : i < j}
             K == {i \in KeysOf(x) : i < k}
  <2>1. J \subseteq K /\ j \in K /\ j \notin J
    BY <1>1, <1>3
  <2>2. IsFiniteSet(K)
    BY <1>1, FS_Subset
  <2> HIDE DEF J, K
  <2>3. Cardinality(J) <= Cardinality(K) /\ (Cardinality(J) = Cardinality(K) => J = K)
    BY <2>1, <2>2, FS_Subset
  <2>4. IsFiniteSet(J) /\ Cardinality(J) \in Nat /\ Cardinality(K) \in Nat
    BY <2>1, <2>2, FS_Subset, FS_CardinalityType
  <2>5. Cardinality(J) < Cardinality(K)
    BY <2>1, <2>3, <2>4
  <2> QED
    BY <2>5 DEF J, K, Rank
<1>4. \A j, k \in KeysOf(x) : Rank(x, j) = Rank(x, k) => j = k
  <2> SUFFICES ASSUME NEW j \in KeysOf(x), NEW k \in KeysOf(x), Rank(x, j) = Rank(x, k), j # k
               PROVE  FALSE
    OBVIOUS
  <2>1. j < k \/ k < j
    BY <1>1
  <2>2. Rank(x, j) \in Int
    BY <1>1, <1>2
  <2> QED
    BY <1>3, <2>1, <2>2
<1> QED
  BY <1>1, <1>2, <1>4

\* The sorted keys are all of them, each once.
LEMMA SortedKeys ==
  ASSUME NEW x \in Texts
  PROVE  /\ Cardinality(KeysOf(x)) \in Nat
         /\ Sorted(x) \in [1 .. Cardinality(KeysOf(x)) -> KeysOf(x)]
         /\ ToSet(Sorted(x)) = KeysOf(x)
         /\ \A i, j \in 1 .. Cardinality(KeysOf(x)) : Sorted(x)[i] = Sorted(x)[j] => i = j
<1> DEFINE n == Cardinality(KeysOf(x))
           rank == [k \in KeysOf(x) |-> Rank(x, k)]
<1>1. n \in Nat /\ IsFiniteSet(KeysOf(x))
  BY Ranks
<1>2. rank \in Injection(KeysOf(x), 0 .. n - 1)
  BY Ranks DEF Injection, IsInjective
<1>3. IsFiniteSet(0 .. n - 1) /\ Cardinality(0 .. n - 1) = n
  BY <1>1, FS_Interval
<1>4. rank \in Surjection(KeysOf(x), 0 .. n - 1)
  <2> HIDE DEF rank
  <2> QED
    BY <1>2, <1>3, FS_Injection
<1>5. \A i \in 1 .. n : \E k \in KeysOf(x) : Rank(x, k) = i - 1
  <2> TAKE i \in 1 .. n
  <2>1. i - 1 \in 0 .. n - 1
    BY <1>1
  <2>2. PICK k \in KeysOf(x) : rank[k] = i - 1
    BY <1>4, <2>1 DEF Surjection
  <2> QED
    BY <2>2
<1>6. \A i \in 1 .. n : Sorted(x)[i] \in KeysOf(x) /\ Rank(x, Sorted(x)[i]) = i - 1
  BY <1>5 DEF Sorted, Rank
<1>7. \A k \in KeysOf(x) : Rank(x, k) + 1 \in 1 .. n /\ Sorted(x)[Rank(x, k) + 1] = k
  <2> TAKE k \in KeysOf(x)
  <2>1. Rank(x, k) + 1 \in 1 .. n /\ Rank(x, k) \in Int
    BY <1>1, Ranks
  <2>2. Rank(x, Sorted(x)[Rank(x, k) + 1]) = Rank(x, k)
    BY <1>6, <2>1
  <2> QED
    BY <1>6, <2>1, <2>2, Ranks
<1>8. Sorted(x) \in [1 .. n -> KeysOf(x)]
  BY <1>6 DEF Sorted
<1>9. ToSet(Sorted(x)) = KeysOf(x)
  BY <1>6, <1>7, <1>8 DEF ToSet
<1>10. \A i, j \in 1 .. n : Sorted(x)[i] = Sorted(x)[j] => i = j
  <2> TAKE i, j \in 1 .. n
  <2> HAVE Sorted(x)[i] = Sorted(x)[j]
  <2>1. i - 1 = j - 1
    BY <1>6
  <2> QED
    BY <1>1, <2>1
<1> QED
  BY <1>1, <1>8, <1>9, <1>10

\* The values that are stored belong to the keys by position.
LEMMA StoredValues ==
  ASSUME NEW x \in Texts
  PROVE  /\ Stored(x) \in Seq(Values \cup {Default})
         /\ Len(Stored(x)) = Cardinality(KeysOf(x))
         /\ \A i \in 1 .. Cardinality(KeysOf(x)) :
              Stored(x)[i] = IF x[Sorted(x)[i]] = NoValue THEN Default ELSE x[Sorted(x)[i]]
<1> DEFINE n == Cardinality(KeysOf(x))
<1>1. /\ n \in Nat
      /\ DOMAIN Sorted(x) = 1 .. n
      /\ \A i \in 1 .. n : Sorted(x)[i] \in KeysOf(x)
  BY SortedKeys
<1>2. \A i \in 1 .. n : x[Sorted(x)[i]] \in Values \cup {NoValue}
  BY <1>1 DEF Texts, KeysOf
<1>3. /\ Stored(x) \in [1 .. n -> Values \cup {Default}]
      /\ \A i \in 1 .. n :
           Stored(x)[i] = IF x[Sorted(x)[i]] = NoValue THEN Default ELSE x[Sorted(x)[i]]
  BY <1>1, <1>2 DEF Stored
<1> HIDE DEF n
<1>4. Stored(x) \in Seq(Values \cup {Default}) /\ Len(Stored(x)) = n
  BY <1>1, <1>3
<1> QED
  BY <1>3, <1>4 DEF n

\* What value(k) finds when keys and values are those of one text.
LEMMA FoundFresh ==
  ASSUME NEW x \in Texts, NEW p \in Processes, NEW k \in Keys,
         trie[p] = Sorted(x), values[p] = IF HasValues(x) THEN Stored(x) ELSE <<>>
  PROVE  Value(p, k) = Fresh(x, k)
<1> DEFINE n == Cardinality(KeysOf(x))
<1>1. /\ n \in Nat /\ DOMAIN trie[p] = 1 .. n /\ ToSet(trie[p]) = KeysOf(x)
      /\ \A i \in 1 .. n : trie[p][i] = Sorted(x)[i]
  BY SortedKeys
<1>2. CASE x[k] = NoKey
  BY <1>1, <1>2 DEF Value, Fresh, KeysOf
<1>3. CASE x[k] # NoKey
  <2> DEFINE i == CHOOSE j \in DOMAIN trie[p] : trie[p][j] = k
  <2>1. k \in KeysOf(x)
    BY <1>3 DEF KeysOf
  <2>2. i \in 1 .. n /\ trie[p][i] = k
    BY <1>1, <2>1 DEF ToSet
  <2> HIDE DEF i
  <2>3. Value(p, k) = IF i <= Len(values[p]) THEN [code |-> 0, val |-> values[p][i]]
                                              ELSE [code |-> 1, val |-> NoValue]
    BY <1>1, <2>1 DEF Value, i
  <2>4. CASE HasValues(x)
    <3>1. Len(values[p]) = n
      BY <2>4, StoredValues
    <3>2. values[p][i] = IF x[k] = NoValue THEN Default ELSE x[k]
      BY <1>1, <2>2, <2>4, StoredValues
    <3> QED
      BY <1>1, <1>3, <2>2, <2>3, <2>4, <3>1, <3>2 DEF Fresh
  <2>5. CASE ~HasValues(x)
    <3>1. Len(values[p]) = 0
      BY <2>5
    <3> QED
      BY <1>1, <1>3, <2>2, <2>3, <2>5, <3>1 DEF Fresh
  <2> QED
    BY <2>4, <2>5
<1> QED
  BY <1>2, <1>3

\* What it finds when all values are missing.
LEMMA FoundKeys ==
  ASSUME NEW x \in Texts, NEW p \in Processes, NEW k \in Keys,
         trie[p] = Sorted(x), values[p] = <<>>
  PROVE  Value(p, k).code = IF x[k] = NoKey THEN -1 ELSE 1
<1> DEFINE i == CHOOSE j \in DOMAIN trie[p] : trie[p][j] = k
<1>1. /\ Cardinality(KeysOf(x)) \in Nat
      /\ DOMAIN trie[p] = 1 .. Cardinality(KeysOf(x)) /\ ToSet(trie[p]) = KeysOf(x)
  BY SortedKeys
<1>2. k \in KeysOf(x) => i \in 1 .. Cardinality(KeysOf(x))
  BY <1>1 DEF ToSet
<1>3. Len(values[p]) = 0
  OBVIOUS
<1> HIDE DEF i
<1>4. Value(p, k) = IF k \notin KeysOf(x) THEN [code |-> -1, val |-> NoValue]
                    ELSE IF i <= Len(values[p]) THEN [code |-> 0, val |-> values[p][i]]
                                                 ELSE [code |-> 1, val |-> NoValue]
  BY <1>1 DEF Value, i
<1>5. k \in KeysOf(x) => Value(p, k) = [code |-> 1, val |-> NoValue]
  BY <1>1, <1>2, <1>3, <1>4
<1>6. k \in KeysOf(x) <=> x[k] # NoKey
  BY DEF KeysOf
<1> QED
  BY <1>4, <1>5, <1>6

-----------------------------------------------------------------------------
(* The steps.                                                              *)

LEMMA InitHolds == Init => CInv
<1> SUFFICES ASSUME Init PROVE CInv
  OBVIOUS
<1>1. /\ text \in Texts /\ KeysOf(text) # {} /\ <<>> \in Seq(Values \cup {Default})
  BY DEF Init
<1>2. TypeOK
  BY <1>1 DEF Init, TypeOK, PCs, Loading, Tries, Disturbances
<1>3. Written
  BY <1>1, FS_Singleton DEF Init, Written
<1>4. Building
  BY DEF Init, Building
<1>5. Alone
  BY DEF Init, Alone, Loading, Cached
<1>6. Steady
  BY FileAssumption DEF Init, Steady, IsTorn
<1>7. Readable
  BY DEF Init, Readable, AssertionsHold
<1> QED
  BY <1>2, <1>3, <1>4, <1>5, <1>6, <1>7 DEF CInv

\* A process starts: alone, or there is an overlap.
LEMMA StartKeeps == ASSUME CInv, NEW p \in Processes, Start(p) PROVE CInv'
<1>1. /\ pc[p] = "off" /\ pc' = [pc EXCEPT ![p] = "open"]
      /\ trie' = [trie EXCEPT ![p] = <<>>] /\ values' = [values EXCEPT ![p] = <<>>]
      /\ UNCHANGED <<kind, text, bin, v, source, written>>
      /\ happened \subseteq happened' /\ happened' \subseteq Disturbances
      /\ "crash" \in happened' => "crash" \in happened
      /\ happened' = {} => \A q \in Processes : pc[q] \notin Loading
  BY DEF Start, Goto, CInv, TypeOK, Disturbances
<1> USE DEF CInv
<1>2. TypeOK'
  BY <1>1 DEF TypeOK, PCs, Loading, Tries
<1>3. Written'
  BY <1>1 DEF Written
<1>4. Building'
  BY <1>1 DEF TypeOK, Building
<1>5. Alone'
  <2> SUFFICES ASSUME happened' = {} PROVE Alone'
    BY DEF Alone
  <2>1. happened = {}
    BY <1>1
  <2>2. Cached /\ Cached'
    BY <1>1, <2>1 DEF Alone, Loading, Cached, CacheOf
  <2> QED
    BY <1>1, <2>1, <2>2 DEF TypeOK, Alone, Loading, CacheOf
<1>6. Steady'
  BY <1>1 DEF TypeOK, Steady, IsTorn
<1>7. Readable'
  BY <1>1 DEF TypeOK, Readable, AssertionsHold
<1> QED
  BY <1>2, <1>3, <1>4, <1>5, <1>6, <1>7

\* It reads the trie, whatever the file is, or finds none.
LEMMA OpenKeeps == ASSUME CInv, NEW p \in Processes, Open(p) PROVE CInv'
<1>1. /\ pc[p] = "open"
      /\ pc' = [pc EXCEPT ![p] = IF bin = Missing THEN "read" ELSE "values"]
      /\ trie' = [trie EXCEPT ![p] = IF bin = Missing THEN <<>>
                                     ELSE IF IsTorn(bin) THEN Torn ELSE bin]
      /\ UNCHANGED <<kind, text, bin, v, source, values, written, happened>>
  BY DEF Open, Goto
<1> USE DEF CInv
<1>2. TypeOK'
  BY <1>1 DEF TypeOK, PCs, Loading, Tries, IsTorn
<1>3. Written'
  BY <1>1 DEF Written
<1>4. Building'
  BY <1>1 DEF TypeOK, Building
<1>5. Alone'
  <2> SUFFICES ASSUME happened' = {} PROVE Alone'
    BY DEF Alone
  <2>1. happened = {} /\ Cached /\ values[p] = <<>>
    BY <1>1 DEF Alone, Loading
  <2>2. \A q \in Processes \ {p} : pc[q] \notin Loading /\ pc'[q] = pc[q]
    BY <1>1, <2>1 DEF Alone, Loading, TypeOK
  <2>3. \A q \in Processes \ {p} : trie'[q] = trie[q] /\ values'[q] = values[q]
    BY <1>1 DEF TypeOK
  <2>4. CASE bin = Missing
    <3>1. v = Missing
      BY <2>1, <2>4, ContentAssumption DEF Cached, CacheOf, TypeOK
    <3> QED
      BY <1>1, <2>1, <2>2, <2>3, <2>4, <3>1 DEF TypeOK, Alone, Loading
  <2>5. CASE bin # Missing
    <3>1. PICK x \in written : CacheOf(x)
      BY <2>1, <2>5 DEF Cached
    <3>2. ~IsTorn(bin)
      BY <3>1, ContentAssumption DEF CacheOf, IsTorn, TypeOK
    <3>3. CacheOf(x)' /\ trie'[p] = Sorted(x)
      BY <1>1, <2>5, <3>1, <3>2 DEF TypeOK, CacheOf
    <3> QED
      BY <1>1, <2>1, <2>2, <2>3, <2>5, <3>3 DEF TypeOK, Alone, Loading
  <2> QED
    BY <2>4, <2>5
<1>6. Steady'
  BY <1>1 DEF TypeOK, Steady, IsTorn
<1>7. Readable'
  BY <1>1 DEF TypeOK, Readable, AssertionsHold
<1> QED
  BY <1>2, <1>3, <1>4, <1>5, <1>6, <1>7

\* The values are read, unless there are none, or fread fails.
LEMMA LoadValuesKeeps == ASSUME CInv, NEW p \in Processes, LoadValues(p) PROVE CInv'
<1>1. /\ pc[p] = "values"
      /\ pc' = [pc EXCEPT ![p] = IF Unreadable THEN "aborted" ELSE "up"]
      /\ values' = [values EXCEPT ![p] = IF Unreadable \/ v = Missing THEN <<>> ELSE v]
      /\ UNCHANGED <<kind, text, bin, v, source, trie, written, happened>>
  BY DEF LoadValues, Goto
<1>2. ~Unreadable => v \notin Processes \cup {Torn}
  BY DEF Unreadable, IsTorn
<1> USE DEF CInv
<1>3. TypeOK'
  <2>1. values' \in [Processes -> Seq(Values \cup {Default})]
    BY <1>1, <1>2 DEF TypeOK
  <2> QED
    BY <1>1, <2>1 DEF TypeOK, PCs, Loading
<1>4. Written'
  BY <1>1 DEF Written
<1>5. Building'
  BY <1>1 DEF TypeOK, Building
<1>6. happened = {} =>
        \E x \in written : CacheOf(x) /\ trie[p] = Sorted(x) /\ x \in Texts
                           /\ v \notin Processes \cup {Torn}
  <2> SUFFICES ASSUME happened = {}
               PROVE  \E x \in written : CacheOf(x) /\ trie[p] = Sorted(x) /\ x \in Texts
                                         /\ v \notin Processes \cup {Torn}
    OBVIOUS
  <2>1. PICK x \in written : CacheOf(x) /\ trie[p] = Sorted(x)
    BY <1>1 DEF Alone
  <2>2. x \in Texts
    BY DEF TypeOK
  <2> QED
    BY <2>1, <2>2, ContentAssumption, FileAssumption DEF CacheOf
<1>7. Alone'
  <2> SUFFICES ASSUME happened' = {} PROVE Alone'
    BY DEF Alone
  <2>1. happened = {}
    BY <1>1
  <2>2. PICK x \in written : CacheOf(x) /\ trie[p] = Sorted(x) /\ x \in Texts
    BY <1>6, <2>1
  <2>3. \A q \in Processes \ {p} : pc[q] \notin Loading /\ pc'[q] = pc[q]
    BY <1>1, <2>1 DEF Alone, Loading, TypeOK
  <2>4. \A q \in Processes \ {p} : trie'[q] = trie[q] /\ values'[q] = values[q]
    BY <1>1 DEF TypeOK
  <2>5. CacheOf(x)' /\ trie'[p] = Sorted(x) /\ x \in written'
    BY <1>1, <2>2 DEF TypeOK, CacheOf
  <2>6. pc'[p] = "up" => values'[p] = IF HasValues(x) THEN Stored(x) ELSE <<>>
    BY <1>1, <2>2, ContentAssumption DEF TypeOK, CacheOf
  <2>7. pc'[p] \in {"aborted", "up"}
    BY <1>1 DEF TypeOK
  <2> QED
    BY <1>1, <2>1, <2>3, <2>4, <2>5, <2>6, <2>7 DEF Alone, Loading, Cached
<1>8. Steady'
  BY <1>1, <1>2 DEF TypeOK, Steady, IsTorn
<1>9. Readable'
  <2> SUFFICES ASSUME kind = "number" \/ \A x \in written : NoValue \notin {x[k] : k \in Keys},
                      happened = {}
               PROVE  \A q \in Processes : pc'[q] # "aborted"
    BY <1>1 DEF Readable, AssertionsHold
  <2>1. \A q \in Processes : pc[q] # "aborted"
    BY DEF Readable, AssertionsHold
  <2>2. PICK x \in written : CacheOf(x) /\ x \in Texts /\ v \notin Processes \cup {Torn}
    BY <1>6
  <2>3. ASSUME kind = "text", v # Missing PROVE Default \notin ToSet(v)
    <3>1. v = Stored(x) /\ \A k \in Keys : x[k] # NoValue
      BY <2>2, <2>3 DEF CacheOf
    <3>2. \A i \in 1 .. Cardinality(KeysOf(x)) : Sorted(x)[i] \in KeysOf(x)
      BY <2>2, SortedKeys
    <3>3. \A i \in 1 .. Cardinality(KeysOf(x)) : Stored(x)[i] \in Values
      <4> TAKE i \in 1 .. Cardinality(KeysOf(x))
      <4>1. Sorted(x)[i] \in Keys /\ x[Sorted(x)[i]] \in Values
        BY <2>2, <3>1, <3>2 DEF KeysOf, Texts
      <4> QED
        BY <2>2, <3>1, <4>1, StoredValues
    <3>4. DOMAIN Stored(x) = 1 .. Cardinality(KeysOf(x))
      BY <2>2, SortedKeys DEF Stored
    <3> QED
      BY <3>1, <3>3, <3>4, DefaultAssumption DEF ToSet
  <2>4. ~Unreadable
    BY <2>2, <2>3 DEF Unreadable, IsTorn
  <2> QED
    BY <1>1, <2>1, <2>4 DEF TypeOK
<1> QED
  BY <1>3, <1>4, <1>5, <1>7, <1>8, <1>9

\* The text is read and the file of the trie made empty.
LEMMA ReadKeeps == ASSUME CInv, NEW p \in Processes, Read(p) PROVE CInv'
<1>1. /\ pc[p] = "read" /\ pc' = [pc EXCEPT ![p] = "bin"]
      /\ source' = [source EXCEPT ![p] = text] /\ trie' = [trie EXCEPT ![p] = Sorted(text)]
      /\ bin' = p
      /\ UNCHANGED <<kind, text, v, values, written, happened>>
  BY DEF Read, Goto
<1> USE DEF CInv
<1>2. TypeOK'
  BY <1>1 DEF TypeOK, PCs, Loading, Tries
<1>3. Written'
  BY <1>1 DEF Written
<1>4. Building'
  BY <1>1, FileAssumption DEF TypeOK, Building
<1>5. Alone'
  <2> SUFFICES ASSUME happened' = {} PROVE Alone'
    BY DEF Alone
  <2>1. happened = {} /\ values[p] = <<>> /\ v = Missing
    BY <1>1 DEF Alone, Loading
  <2>2. \A q \in Processes \ {p} : pc[q] \notin Loading /\ pc'[q] = pc[q]
    BY <1>1, <2>1 DEF Alone, Loading, TypeOK
  <2>3. \A q \in Processes \ {p} : trie'[q] = trie[q] /\ values'[q] = values[q]
    BY <1>1 DEF TypeOK
  <2> QED
    BY <1>1, <2>1, <2>2, <2>3 DEF TypeOK, Alone, Loading
<1>6. Steady'
  <2> SUFFICES ASSUME written = {text} PROVE Steady'
    BY <1>1 DEF Steady
  <2> QED
    BY <1>1 DEF TypeOK, Steady, IsTorn
<1>7. Readable'
  BY <1>1 DEF TypeOK, Readable, AssertionsHold
<1> QED
  BY <1>2, <1>3, <1>4, <1>5, <1>6, <1>7

\* The trie is written.
LEMMA SaveTrieKeeps == ASSUME CInv, NEW p \in Processes, SaveTrie(p) PROVE CInv'
<1>1. /\ pc[p] = "bin"
      /\ pc' = [pc EXCEPT ![p] = IF HasValues(source[p]) THEN "store" ELSE "up"]
      /\ bin' = Finished(p, bin, trie[p])
      /\ UNCHANGED <<kind, text, v, source, trie, values, written, happened>>
  BY DEF SaveTrie, Goto
<1> USE DEF CInv
<1>2. /\ bin # Missing /\ trie[p] = Sorted(source[p])
      /\ source[p] \in written /\ source[p] \in Texts
  BY <1>1 DEF Building, TypeOK
<1>3. /\ bin' \in {trie[p], Torn} \cup (Processes \ {p})
      /\ bin' \in Processes => bin' = bin
  <2>1. Sorted(source[p]) \notin Processes
    BY <1>2, ContentAssumption
  <2> QED
    BY <1>1, <1>2, <2>1, FileAssumption DEF Finished, IsTorn
<1>4. TypeOK'
  BY <1>1, <1>2, <1>3 DEF TypeOK, PCs, Loading, Tries
<1>5. Written'
  BY <1>1 DEF Written
<1>6. Building'
  <2>1. bin' # Missing
    BY <1>2, <1>3, FileAssumption, ContentAssumption
  <2> QED
    BY <1>1, <2>1 DEF TypeOK, Building
<1>7. Alone'
  <2> SUFFICES ASSUME happened' = {} PROVE Alone'
    BY DEF Alone
  <2>1. happened = {} /\ values[p] = <<>> /\ v = Missing /\ bin = p
    BY <1>1 DEF Alone, Loading
  <2>2. bin' = trie[p]
    BY <1>1, <2>1 DEF Finished
  <2>3. \A q \in Processes \ {p} : pc[q] \notin Loading /\ pc'[q] = pc[q]
    BY <1>1, <2>1 DEF Alone, Loading, TypeOK
  <2>4. CASE HasValues(source[p])
    BY <1>1, <2>1, <2>2, <2>3, <2>4 DEF TypeOK, Alone, Loading
  <2>5. CASE ~HasValues(source[p])
    <3>1. PICK x \in written : x = source[p] /\ trie[p] = Sorted(x) /\ ~HasValues(x)
      BY <1>2, <2>5
    <3>2. CacheOf(x)' /\ x \in written'
      BY <1>1, <2>1, <2>2, <3>1 DEF CacheOf
    <3>3. Cached'
      BY <3>2 DEF Cached
    <3> QED
      BY <1>1, <2>1, <2>3, <2>5, <3>1, <3>2, <3>3 DEF TypeOK, Alone, Loading
  <2> QED
    BY <2>4, <2>5
<1>8. Steady'
  <2> SUFFICES ASSUME written = {text} PROVE Steady'
    BY <1>1 DEF Steady
  <2>1. source[p] = text
    BY <1>2
  <2>2. "crash" \notin happened /\ IsTorn(bin') => bin' \in Processes \ {p} /\ pc[bin'] = "bin"
    <3> SUFFICES ASSUME "crash" \notin happened, IsTorn(bin')
                 PROVE  bin' \in Processes \ {p} /\ pc[bin'] = "bin"
      OBVIOUS
    <3>1. IsTorn(bin) => bin \in Processes /\ pc[bin] = "bin"
      BY DEF Steady
    <3>2. bin \in {Sorted(text)} \cup Processes
      BY <1>2, <3>1 DEF Steady, IsTorn
    <3>3. Sorted(text) \notin Processes \cup {Torn}
      BY ContentAssumption DEF TypeOK
    <3> QED
      BY <1>1, <1>2, <2>1, <3>1, <3>2, <3>3, FileAssumption DEF Finished, IsTorn
  <2> QED
    BY <1>1, <1>2, <1>3, <2>1, <2>2 DEF TypeOK, Steady, IsTorn
<1>9. Readable'
  BY <1>1 DEF TypeOK, Readable, AssertionsHold
<1> QED
  BY <1>4, <1>5, <1>6, <1>7, <1>8, <1>9

\* The values are collected and their file made empty.
LEMMA StoreKeeps == ASSUME CInv, NEW p \in Processes, Store(p) PROVE CInv'
<1>1. /\ pc[p] = "store" /\ pc' = [pc EXCEPT ![p] = "v"]
      /\ values' = [values EXCEPT ![p] = Stored(source[p])] /\ v' = p
      /\ UNCHANGED <<kind, text, bin, source, trie, written, happened>>
  BY DEF Store, Goto
<1> USE DEF CInv
<1>2. /\ trie[p] = Sorted(source[p]) /\ HasValues(source[p])
      /\ source[p] \in written /\ source[p] \in Texts
      /\ Stored(source[p]) \in Seq(Values \cup {Default})
  BY <1>1, StoredValues DEF Building, TypeOK
<1>3. TypeOK'
  BY <1>1, <1>2 DEF TypeOK, PCs, Loading
<1>4. Written'
  BY <1>1 DEF Written
<1>5. Building'
  <2> SUFFICES ASSUME NEW q \in Processes
               PROVE  /\ source[q] \in written
                      /\ pc'[q] \in {"bin", "store", "v"} => trie[q] = Sorted(source[q])
                      /\ pc'[q] \in {"store", "v"} => HasValues(source[q])
                      /\ pc'[q] = "bin" => bin # Missing
                      /\ pc'[q] = "v" => v' # Missing /\ values'[q] = Stored(source[q])
    BY <1>1 DEF Building
  <2>1. v' # Missing
    BY <1>1, FileAssumption
  <2> QED
    BY <1>1, <1>2, <2>1 DEF TypeOK, Building
<1>6. Alone'
  <2> SUFFICES ASSUME happened' = {} PROVE Alone'
    BY DEF Alone
  <2>1. happened = {} /\ bin = trie[p] /\ v = Missing
    BY <1>1 DEF Alone, Loading
  <2>2. \A q \in Processes \ {p} : pc[q] \notin Loading /\ pc'[q] = pc[q]
    BY <1>1, <2>1 DEF Alone, Loading, TypeOK
  <2>3. \A q \in Processes \ {p} : trie'[q] = trie[q] /\ values'[q] = values[q]
    BY <1>1 DEF TypeOK
  <2> QED
    BY <1>1, <2>1, <2>2, <2>3 DEF TypeOK, Alone, Loading
<1>7. Steady'
  <2> SUFFICES ASSUME written = {text} PROVE Steady'
    BY <1>1 DEF Steady
  <2>1. values'[p] = Stored(text) /\ HasValues(text)
    BY <1>1, <1>2 DEF TypeOK
  <2> QED
    BY <1>1, <2>1 DEF TypeOK, Steady, IsTorn
<1>8. Readable'
  BY <1>1 DEF TypeOK, Readable, AssertionsHold
<1> QED
  BY <1>3, <1>4, <1>5, <1>6, <1>7, <1>8

\* The values are written.
LEMMA SaveValuesKeeps == ASSUME CInv, NEW p \in Processes, SaveValues(p) PROVE CInv'
<1>1. /\ pc[p] = "v" /\ pc' = [pc EXCEPT ![p] = "up"] /\ v' = Finished(p, v, values[p])
      /\ UNCHANGED <<kind, text, bin, source, trie, values, written, happened>>
  BY DEF SaveValues, Goto
<1> USE DEF CInv
<1>2. PICK x \in written :
        /\ x = source[p] /\ x \in Texts /\ HasValues(x)
        /\ trie[p] = Sorted(x) /\ values[p] = Stored(x) /\ v # Missing
  BY <1>1 DEF Building, TypeOK
<1>3. Stored(x) \in Seq(Values \cup {Default}) /\ Stored(x) \notin Processes \cup {Missing, Torn}
  BY <1>2, StoredValues, ContentAssumption
<1>4. /\ v' \in {Stored(x), Torn} \cup (Processes \ {p})
      /\ v' \in Processes => v' = v
  BY <1>1, <1>2, <1>3, FileAssumption DEF Finished, IsTorn
<1>5. TypeOK'
  BY <1>1, <1>3, <1>4 DEF TypeOK, PCs, Loading
<1>6. Written'
  BY <1>1 DEF Written
<1>7. Building'
  <2>1. v' # Missing
    BY <1>3, <1>4, FileAssumption
  <2> QED
    BY <1>1, <2>1 DEF TypeOK, Building
<1>8. Alone'
  <2> SUFFICES ASSUME happened' = {} PROVE Alone'
    BY DEF Alone
  <2>1. happened = {} /\ bin = trie[p] /\ v = p
    BY <1>1 DEF Alone, Loading
  <2>2. CacheOf(x)' /\ x \in written'
    BY <1>1, <1>2, <2>1 DEF CacheOf, Finished
  <2>3. Cached'
    BY <2>2 DEF Cached
  <2>4. \A q \in Processes \ {p} : pc[q] \notin Loading /\ pc'[q] = pc[q]
    BY <1>1, <2>1 DEF Alone, Loading, TypeOK
  <2> QED
    BY <1>1, <1>2, <2>1, <2>2, <2>3, <2>4 DEF TypeOK, Alone, Loading
<1>9. Steady'
  <2> SUFFICES ASSUME written = {text} PROVE Steady'
    BY <1>1 DEF Steady
  <2>1. x = text
    BY <1>2
  <2>2. trie[p] = Sorted(text)
    BY <1>2, <2>1
  <2>3. "crash" \notin happened /\ IsTorn(v') => v' \in Processes \ {p} /\ pc[v'] = "v"
    <3> SUFFICES ASSUME "crash" \notin happened, IsTorn(v')
                 PROVE  v' \in Processes \ {p} /\ pc[v'] = "v"
      OBVIOUS
    <3>1. IsTorn(v) => v \in Processes /\ pc[v] = "v"
      BY DEF Steady
    <3>2. v \in {Stored(x)} \cup Processes
      BY <1>2, <2>1, <3>1 DEF Steady, IsTorn
    <3> QED
      BY <1>1, <1>2, <1>3, <3>1, <3>2, FileAssumption DEF Finished, IsTorn
  <2> QED
    BY <1>1, <1>2, <1>4, <2>1, <2>2, <2>3 DEF TypeOK, Steady, IsTorn
<1>10. Readable'
  BY <1>1 DEF TypeOK, Readable, AssertionsHold
<1> QED
  BY <1>5, <1>6, <1>7, <1>8, <1>9, <1>10

\* A process ends, or stops while it loads.
LEMMA StopKeeps == ASSUME CInv, NEW p \in Processes, Stop(p) PROVE CInv'
<1>1. /\ pc' = [pc EXCEPT ![p] = "off"]
      /\ UNCHANGED <<kind, text, bin, v, source, trie, values, written>>
      /\ happened' = happened \cup IF pc[p] \in Loading THEN {"crash"} ELSE {}
  BY DEF Stop
<1> USE DEF CInv
<1>2. TypeOK'
  BY <1>1 DEF TypeOK, PCs, Loading, Disturbances
<1>3. Written'
  BY <1>1 DEF Written
<1>4. Building'
  BY <1>1 DEF TypeOK, Building
<1>5. Alone'
  <2> SUFFICES ASSUME happened' = {} PROVE Alone'
    BY DEF Alone
  <2>1. happened = {} /\ pc[p] \notin Loading
    BY <1>1
  <2>2. \A q \in Processes : pc'[q] \in Loading \cup {"up"} => pc[q] = pc'[q]
    BY <1>1 DEF TypeOK, Loading
  <2>3. (\A q \in Processes : pc'[q] \notin Loading \ {"open"}) => Cached
    <3>1. \A q \in Processes : q # p => pc'[q] = pc[q]
      BY <1>1 DEF TypeOK
    <3> QED
      BY <2>1, <3>1 DEF Alone
  <2>4. Cached => Cached'
    BY <1>1 DEF Cached, CacheOf
  <2> QED
    BY <1>1, <2>1, <2>2, <2>3, <2>4 DEF Alone, Loading, CacheOf
<1>6. Steady'
  BY <1>1 DEF TypeOK, Steady, IsTorn, Loading
<1>7. Readable'
  BY <1>1 DEF TypeOK, Readable, AssertionsHold
<1> QED
  BY <1>2, <1>3, <1>4, <1>5, <1>6, <1>7

\* Somebody edits the text.
LEMMA EditKeeps == ASSUME CInv, Edit PROVE CInv'
<1>1. /\ text' \in Texts /\ KeysOf(text') # {} /\ text' # text
      /\ written' = written \cup {text'}
      /\ UNCHANGED <<kind, bin, v, pc, source, trie, values, happened>>
  BY DEF Edit
<1> USE DEF CInv
<1>2. TypeOK'
  BY <1>1 DEF TypeOK
<1>3. Written'
  BY <1>1, FS_AddElement DEF Written
<1>4. Building'
  BY <1>1 DEF Building
<1>5. Alone'
  <2>1. Cached => Cached'
    BY <1>1 DEF Cached, CacheOf
  <2>2. written \subseteq written'
    BY <1>1
  <2>3. \A x : CacheOf(x) => CacheOf(x)'
    BY <1>1 DEF CacheOf
  <2> QED
    BY <1>1, <2>1, <2>2, <2>3 DEF Alone
<1>6. Steady'
  BY <1>1 DEF TypeOK, Steady
<1>7. Readable'
  BY <1>1 DEF Readable, AssertionsHold
<1> QED
  BY <1>2, <1>3, <1>4, <1>5, <1>6, <1>7

LEMMA NextKeeps == ASSUME CInv, [Next]_vars PROVE CInv'
<1>1. CASE UNCHANGED vars
  BY <1>1 DEF vars, CInv, TypeOK, Written, Building, Alone, Steady, Readable, Cached,
              CacheOf, IsTorn, AssertionsHold
<1>2. CASE Next
  BY <1>2, StartKeeps, OpenKeeps, LoadValuesKeeps, ReadKeeps, SaveTrieKeeps, StoreKeeps,
     SaveValuesKeeps, StopKeeps, EditKeeps DEF Next
<1> QED
  BY <1>1, <1>2

-----------------------------------------------------------------------------
(* The theorems.                                                           *)

\* The invariant holds in every reachable state.
THEOREM Invariance == Spec => []CInv
<1>1. CInv /\ [Next]_vars => CInv'
  BY NextKeeps
<1> QED
  BY <1>1, InitHolds, PTL DEF Spec

\* A dictionary loaded without disturbance is that of one content of the text,
\* from the text and from the cache, and its values can be read back.
THEOREM SameAsText == Spec => []SameFromCache
<1>1. CInv => SameFromCache
  <2> SUFFICES ASSUME CInv PROVE SameFromCache
    OBVIOUS
  <2>1. ASSUME NEW p \in Processes, happened = {}, pc[p] = "up"
        PROVE  \E x \in written : \A k \in Keys : Value(p, k) = Fresh(x, k)
    <3>1. PICK x \in written :
            trie[p] = Sorted(x) /\ values[p] = IF HasValues(x) THEN Stored(x) ELSE <<>>
      BY <2>1 DEF CInv, Alone
    <3>2. x \in Texts
      BY DEF CInv, TypeOK
    <3> QED
      BY <3>1, <3>2, FoundFresh
  <2> QED
    BY <2>1 DEF CInv, Readable, SameFromCache
<1> QED
  BY <1>1, Invariance, PTL

\* While the text stays as it is, keys and values belong together, whatever was
\* stopped and whoever else was loading.
THEOREM KeysWithValues == Spec => []ValuesMatch
<1>1. CInv => ValuesMatch
  <2> SUFFICES ASSUME CInv, NEW p \in Processes, Whole(p), Cardinality(written) = 1,
                      NEW k \in Keys
               PROVE  \/ Value(p, k) = Fresh(text, k)
                      \/ values[p] = <<>> /\ Value(p, k).code = IF text[k] = NoKey THEN -1 ELSE 1
    BY DEF ValuesMatch
  <2>1. written = {text} /\ text \in Texts
    BY FS_Singleton DEF CInv, Written, TypeOK
  <2>2. /\ trie[p] = Sorted(text)
        /\ values[p] = <<>> \/ (values[p] = Stored(text) /\ HasValues(text))
    BY <2>1 DEF CInv, Steady, Whole
  <2>3. CASE values[p] = <<>>
    BY <2>1, <2>2, <2>3, FoundKeys
  <2>4. CASE values[p] = Stored(text) /\ HasValues(text)
    BY <2>1, <2>2, <2>4, FoundFresh
  <2> QED
    BY <2>2, <2>3, <2>4
<1> QED
  BY <1>1, Invariance, PTL

\* Without a crash a torn file is one that is being written.
THEOREM TornByCrash == Spec => []TornOnlyByCrash
<1>1. CInv => TornOnlyByCrash
  <2> SUFFICES ASSUME CInv, "crash" \notin happened, Cardinality(written) = 1
               PROVE  (IsTorn(bin) => pc[bin] = "bin") /\ (IsTorn(v) => pc[v] = "v")
    BY DEF TornOnlyByCrash
  <2>1. written = {text}
    BY FS_Singleton DEF CInv, Written, TypeOK
  <2> QED
    BY <2>1 DEF CInv, Steady
<1> QED
  BY <1>1, Invariance, PTL
=============================================================================
