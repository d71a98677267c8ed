-------------------------- MODULE IntegerHashTable --------------------------
(***************************************************************************)
(* KIntegerHashTable (include/nlp/segment/hash_table.hpp): chains of nodes *)
(* in one array, the unused nodes in a free list through the same next     *)
(* fields, and growth that prolongs the free list at its end.              *)
(*                                                                         *)
(* A node is its index.  The table is used by one thread; a step is a call.*)
(* The number of entries stays what the constructor made it.               *)
(***************************************************************************)
EXTENDS Integers, FiniteSets

CONSTANTS
  Keys,      \* the keys, numbers
  Values,    \* the values
  Entries,   \* entry_size_
  MinNodes,  \* element_num of the constructor
  MaxNodes,  \* bound: how many nodes a table grows to
  Absent     \* what find returns for no value

ASSUME SizesAssumption ==
  Keys \subseteq Nat /\ Entries \in Nat \ {0} /\ MinNodes \in Nat \ {0} /\ MaxNodes \in Nat
ASSUME AbsentAssumption == Absent \notin Values

VARIABLES
  entry,      \* entry_: the first node of each chain
  key, value, \* the key and the value of each node
  next,       \* the node after it in its chain or in the free list
  nodes_num,  \* nodes_num_
  avai,       \* avai_i_: the first free node
  size        \* size_

vars == <<entry, key, value, next, nodes_num, avai, size>>
nodes == <<key, value, next, nodes_num>>

None == -1
Places == 0 .. Entries - 1
Nodes == 0 .. nodes_num - 1

Fill(i, n) == IF i < n - 1 THEN i + 1 ELSE None

Init ==
  /\ entry = [e \in Places |-> None]
  /\ nodes_num = MinNodes
  /\ key = [i \in Nodes |-> 0]
  /\ value = [i \in Nodes |-> Absent]
  /\ next = [i \in Nodes |-> Fill(i, MinNodes)]
  /\ avai = 0
  /\ size = 0

-----------------------------------------------------------------------------
\* The nodes that are met from node i on, in their order.
Walk(i, n) ==
  LET step[j \in 0 .. n] == IF j = 0 THEN i
                            ELSE IF step[j - 1] = None THEN None ELSE next[step[j - 1]]
  IN  [j \in 0 .. n |-> step[j]]

Path(i) == LET w == Walk(i, nodes_num) IN {w[j] : j \in DOMAIN w} \ {None}

Place(k) == k % Entries
Chain(k) == Path(entry[Place(k)])

\* The node that the search of insert, find and erase stops at.
Holders(k) == {i \in Chain(k) : key[i] = k}
Find(k) == IF Holders(k) = {} THEN Absent ELSE value[CHOOSE i \in Holders(k) : TRUE]

\* The node before i in its chain, if any.
Before(k, i) == {j \in Chain(k) : next[j] = i}

-----------------------------------------------------------------------------
(* Growth, by available_ when insert finds less than three free nodes and  *)
(* by reserve: what was the last node leads to the new ones.               *)

\* expansion_ of less than 1000 nodes.
Expansion(n) == 2 * n

Grown(n) ==
  [key   |-> [i \in 0 .. n - 1 |-> IF i \in Nodes THEN key[i] ELSE 0],
   value |-> [i \in 0 .. n - 1 |-> IF i \in Nodes THEN value[i] ELSE Absent],
   next  |-> [i \in 0 .. n - 1 |-> IF i < nodes_num - 1 THEN next[i] ELSE Fill(i, n)],
   num   |-> n]

Same == [key |-> key, value |-> value, next |-> next, num |-> nodes_num]

Available == IF size + 2 < nodes_num THEN Same ELSE Grown(Expansion(nodes_num))

-----------------------------------------------------------------------------
\* insert of a key that the table has: the value is replaced, after available_.
Update(k, v) ==
  LET a == Available IN
  /\ a.num <= MaxNodes
  /\ \E i \in Holders(k) : value' = [a.value EXCEPT ![i] = v]
  /\ key' = a.key /\ next' = a.next /\ nodes_num' = a.num
  /\ UNCHANGED <<entry, avai, size>>

\* MUTANT of Insert: the new node keeps its place in the free list.
InsertOpen(k, v) ==
  LET a == Available IN
  /\ a.num <= MaxNodes
  /\ Holders(k) = {}
  /\ entry' = IF entry[Place(k)] = None THEN [entry EXCEPT ![Place(k)] = avai] ELSE entry
  /\ avai' = a.next[avai]
  /\ key' = [a.key EXCEPT ![avai] = k]
  /\ value' = [a.value EXCEPT ![avai] = v]
  /\ next' = [i \in DOMAIN a.next |-> IF i \in Before(k, None) THEN avai ELSE a.next[i]]
  /\ nodes_num' = a.num
  /\ size' = size + 1

\* insert of a new key: the first free node goes to the end of the chain.
Insert(k, v) ==
  LET a == Available IN
  /\ a.num <= MaxNodes
  /\ Holders(k) = {}
  /\ entry' = IF entry[Place(k)] = None THEN [entry EXCEPT ![Place(k)] = avai] ELSE entry
  /\ avai' = a.next[avai]
  /\ key' = [a.key EXCEPT ![avai] = k]
  /\ value' = [a.value EXCEPT ![avai] = v]
  /\ next' = [i \in DOMAIN a.next |->
                IF i = avai THEN None
                ELSE IF i \in Before(k, None) THEN avai ELSE a.next[i]]
  /\ nodes_num' = a.num
  /\ size' = size + 1

\* MUTANT of Erase: the node before is not linked past the erased one.
EraseHead(k) ==
  \E i \in Holders(k) :
    /\ entry' = [entry EXCEPT ![Place(k)] = next[i]]
    /\ next' = [next EXCEPT ![i] = avai]
    /\ avai' = i
    /\ size' = size - 1
    /\ UNCHANGED <<key, value, nodes_num>>

\* erase: the node leaves its chain for the front of the free list.
Erase(k) ==
  \E i \in Holders(k) :
    /\ entry' = IF Before(k, i) = {} THEN [entry EXCEPT ![Place(k)] = next[i]] ELSE entry
    /\ next' = [j \in Nodes |-> IF j = i THEN avai
                                ELSE IF j \in Before(k, i) THEN next[i] ELSE next[j]]
    /\ avai' = i
    /\ size' = size - 1
    /\ UNCHANGED <<key, value, nodes_num>>

\* reserve of more nodes.
Reserve(n) ==
  /\ n > nodes_num
  /\ key' = Grown(n).key /\ value' = Grown(n).value
  /\ next' = Grown(n).next /\ nodes_num' = n
  /\ UNCHANGED <<entry, avai, size>>

Next ==
  \/ \E k \in Keys, v \in Values : Insert(k, v) \/ Update(k, v)
  \/ \E k \in Keys : Erase(k)
  \/ \E n \in 1 .. MaxNodes : Reserve(n)

Spec == Init /\ [][Next]_vars

-----------------------------------------------------------------------------
(* The iterator: begin, and ++ until its node is None (end).               *)

\* The first entry from e on that has a chain; Entries if there is none.
NextPlace(e) ==
  LET used == {p \in e .. Entries - 1 : entry[p] # None} IN
  IF used = {} THEN Entries ELSE CHOOSE p \in used : \A q \in used : p <= q

AtPlace(e) ==
  IF e < Entries THEN [idx |-> entry[e], ei |-> e] ELSE [idx |-> None, ei |-> e]

Begin == AtPlace(NextPlace(0))

\* MUTANT of Advance: the search for the next chain starts two entries on.
AdvanceFar(it) ==
  IF it.idx = None THEN it
  ELSE IF next[it.idx] # None THEN [it EXCEPT !.idx = next[it.idx]]
  ELSE AtPlace(NextPlace(it.ei + 2))

Advance(it) ==
  IF it.idx = None THEN it
  ELSE IF next[it.idx] # None THEN [it EXCEPT !.idx = next[it.idx]]
  ELSE AtPlace(NextPlace(it.ei + 1))

\* Where the iterator is after 0, 1, 2, ... steps.
Visits ==
  LET at[j \in 0 .. size] == IF j = 0 THEN Begin ELSE Advance(at[j - 1]) IN at

-----------------------------------------------------------------------------
\* The ranges of the variables: no index leads out of the array, which is what
\* the assertions of the code say.
TypeOK ==
  /\ nodes_num \in Nat \ {0}
  /\ entry \in [Places -> Nodes \cup {None}]
  /\ key \in [Nodes -> Keys \cup {0}]
  /\ value \in [Nodes -> Values \cup {Absent}]
  /\ next \in [Nodes -> Nodes \cup {None}]
  /\ avai \in Nodes
  /\ size \in Nat

\* Every node is in the free list or in one chain, never in two of them and
\* never lost; a chain has keys of its own entry only, each once, and size_
\* counts them.  Growth prolongs the list that the last node ends: it must be
\* the free list.
Partition ==
  TypeOK /\
  LET lists == {Path(avai)} \cup {Path(entry[e]) : e \in Places}
      used  == UNION {Path(entry[e]) : e \in Places}
  IN
  /\ UNION lists = Nodes
  /\ \A e \in Places : Path(entry[e]) \cap Path(avai) = {}
  /\ \A e, f \in Places : e # f => Path(entry[e]) \cap Path(entry[f]) = {}
  /\ \A e \in Places : \A i \in Path(entry[e]) : Place(key[i]) = e
  /\ \A i, j \in used : key[i] = key[j] => i = j
  /\ size = Cardinality(used)
  /\ nodes_num - 1 \in Path(avai) /\ next[nodes_num - 1] = None

\* Iteration meets every stored key exactly once and then ends.
IterationComplete ==
  /\ \A j \in 0 .. size - 1 : Visits[j].idx # None
  /\ {key[Visits[j].idx] : j \in 0 .. size - 1} = {k \in Keys : Find(k) # Absent}
  /\ Visits[size].idx = None

\* The table is a map: insert and erase change the value of their key only, and
\* growth changes none.
TheMap == INSTANCE KeyValueMap WITH map <- [k \in Keys |-> Find(k)]
MapSpec == TheMap!Spec
=============================================================================
