-------------------------- MODULE CowStringProofs --------------------------
(***************************************************************************)
(* Machine-checked proofs about CowString, for every set of threads,       *)
(* blocks and texts and every finite set of strings.                       *)
(***************************************************************************)
EXTENDS CowString, FiniteSetTheorems, TLAPS

Sources(t) == Own(t) \cup Shared

\* What a thread works on is its own; past the first step it has a block, and
\* from the malloc until mem_ is set it has a second one.
Labels ==
  \A t \in Threads :
    /\ pc[t] # "idle" => me[t] \in Own(t)
    /\ pc[t] \notin {"idle", "drop"} => mem[me[t]] # Null
    /\ pc[t] = "drop" => from[t] \in Sources(t) \ {me[t]}
    /\ new[t] # Null <=> pc[t] \in {"swap", "regrow"}

\* A string whose refer_ is still to come has a source, which holds the block.
ReferHeld ==
  \A t \in Threads : pc[t] = "refer" =>
    \E o \in Sources(t) \ {me[t]} : mem[o] = mem[me[t]]

\* The copy a thread has made is nobody else's, and holds the same text.
NewApart ==
  \A t \in Threads : new[t] # Null =>
    /\ new[t] \in Heap
    /\ text[new[t]] = text[mem[me[t]]]
    /\ \A s \in Strings : mem[s] # new[t]
    /\ \A u \in Threads \ {t} : new[u] # new[t]

\* The strings that nobody changes keep a block.
SharedThere == \A s \in Shared : mem[s] # Null

\* The invariant the proofs go by.
IInv ==
  /\ TypeOK
  /\ Labels
  /\ ReferHeld
  /\ NewApart
  /\ SharedThere
  /\ BlocksHeld
  /\ CountsExact
  /\ WriterAlone

-----------------------------------------------------------------------------
\* Strings are told apart from null pointers, and no string that a thread may
\* change is one that all of them read.
LEMMA Owned ==
  ASSUME NEW t \in Threads, NEW s \in Own(t)
  PROVE  /\ s \in Strings /\ s # Null /\ s \notin Shared
         /\ \A u \in Threads : s \in Own(u) => u = t
BY OwnerAssumption, NullAssumption DEF Own, Shared

\* A thread in the middle of an operation has a string of its own, and one past
\* its first step has a block there.
LEMMA Working ==
  ASSUME IInv, NEW t \in Threads, pc[t] # "idle"
  PROVE  /\ me[t] \in Own(t) /\ me[t] \in Strings /\ me[t] # Null
         /\ mem[me[t]] \in Blocks \cup {Null}
         /\ pc[t] # "drop" => mem[me[t]] \in Blocks /\ mem[me[t]] \in Heap
<1>1. me[t] \in Own(t)
  BY DEF IInv, Labels
<1> QED
  BY <1>1, Owned DEF IInv, TypeOK, Labels, BlocksHeld

\* Which counts are exact.
LEMMA Exact ==
  /\ CountsExact <=> /\ TypeOK
                     /\ \A c \in Blocks : \A r \in Strings :
                          mem[r] = c => count[c] = Cardinality(Counted(c))
  /\ CountsExact' <=> /\ TypeOK'
                      /\ \A c \in Blocks : \A r \in Strings :
                           mem'[r] = c => count'[c] = Cardinality(Counted(c)')
<1>1. Null \notin Blocks
  BY NullAssumption
<1>2. CountsExact <=> /\ TypeOK
                      /\ \A c \in Blocks : \A r \in Strings :
                           mem[r] = c => count[c] = Cardinality(Counted(c))
  BY <1>1 DEF CountsExact, TypeOK
<1>3. CountsExact' <=> /\ TypeOK'
                       /\ \A c \in Blocks : \A r \in Strings :
                            mem'[r] = c => count'[c] = Cardinality(Counted(c)')
  BY <1>1 DEF CountsExact, TypeOK, Counted
<1> QED
  BY <1>2, <1>3

\* Which blocks are held.
LEMMA Held ==
  /\ BlocksHeld <=> /\ \A r \in Strings : mem[r] # Null => mem[r] \in Heap
                    /\ \A c \in Heap \ lost : \/ \E r \in Strings : mem[r] = c
                                              \/ \E u \in Threads : new[u] = c
                    /\ \A c \in lost : /\ c \in Heap
                                       /\ \A r \in Strings : mem[r] # c
                                       /\ \A u \in Threads : new[u] # c
  /\ BlocksHeld' <=> /\ \A r \in Strings : mem'[r] # Null => mem'[r] \in Heap'
                     /\ \A c \in Heap' \ lost' : \/ \E r \in Strings : mem'[r] = c
                                                 \/ \E u \in Threads : new'[u] = c
                     /\ \A c \in lost' : /\ c \in Heap'
                                         /\ \A r \in Strings : mem'[r] # c
                                         /\ \A u \in Threads : new'[u] # c
BY DEF BlocksHeld, Heap

\* A string that is its thread's and not about to be counted is counted; when
\* the count says one, no other string has the block, not even one whose refer_
\* is still to come.
LEMMA LastHolder ==
  ASSUME IInv, NEW t \in Threads, NEW s \in Own(t), pc[t] # "refer", mem[s] # Null
  PROVE  /\ mem[s] \in Blocks /\ mem[s] \in Heap
         /\ s \in Counted(mem[s])
         /\ count[mem[s]] \in Nat /\ count[mem[s]] >= 1
         /\ count[mem[s]] <= 1 <=> \A r \in Strings \ {s} : mem[r] # mem[s]
         /\ count[mem[s]] - 1 = Cardinality(Counted(mem[s]) \ {s})
<1> DEFINE b == mem[s]
<1>1. s \in Strings /\ s \notin Shared /\ \A u \in Threads : s \in Own(u) => u = t
  BY Owned
<1>2. b \in Blocks /\ b \in Heap
  BY <1>1 DEF IInv, TypeOK, BlocksHeld
<1>3. \A u \in Threads : pc[u] = "refer" => me[u] \in Own(u)
  BY DEF IInv, Labels
<1>4. s \in Counted(b)
  BY <1>1, <1>3 DEF Counted
<1>5. IsFiniteSet(Counted(b))
  BY StringsAssumption, FS_Subset DEF Counted
<1>6. count[b] = Cardinality(Counted(b)) /\ count[b] \in Nat
  BY <1>1, <1>2 DEF IInv, CountsExact, TypeOK
<1>7. count[b] >= 1
  <2>1. Cardinality(Counted(b)) # 0
    BY <1>4, <1>5, FS_EmptySet
  <2> QED
    BY <2>1, <1>6
<1>8. ASSUME count[b] <= 1, NEW r \in Strings \ {s}, mem[r] = b PROVE FALSE
  <2>1. Counted(b) = {s}
    <3>1. Cardinality(Counted(b)) = 1
      BY <1>6, <1>7, <1>8
    <3> QED
      BY <3>1, <1>4, <1>5, FS_Singleton
  <2>2. PICK u \in Threads : pc[u] = "refer" /\ me[u] = r
    BY <2>1, <1>8 DEF Counted
  <2>3. PICK o \in Sources(u) \ {r} : mem[o] = b
    BY <2>2, <1>8 DEF IInv, ReferHeld
  <2>4. u # t
    BY <2>2
  <2>5. o # s
    BY <2>3, <2>4, <1>1 DEF Sources
  <2>6. o \in Strings
    BY <2>3 DEF Sources, Own, Shared
  <2>7. PICK w \in Threads : pc[w] = "refer" /\ me[w] = o
    BY <2>1, <2>3, <2>5, <2>6 DEF Counted
  <2>8. o \in Own(w)
    BY <2>7, <1>3
  <2>9. w = u
    BY <2>3, <2>8, Owned DEF Sources
  <2> QED
    BY <2>2, <2>3, <2>7, <2>9
<1>9. ASSUME \A r \in Strings \ {s} : mem[r] # b PROVE count[b] <= 1
  <2>1. Counted(b) = {s}
    BY <1>4, <1>9 DEF Counted
  <2> QED
    BY <2>1, <1>6, FS_Singleton
<1>10. Cardinality(Counted(b) \ {s}) = count[b] - 1
  BY <1>4, <1>5, <1>6, FS_RemoveElement
<1> QED
  BY <1>2, <1>4, <1>6, <1>7, <1>8, <1>9, <1>10

\* What defer_ of the block of such a string does: the count loses the string,
\* and the block is kept for exactly as long as another string has it.
LEMMA Dropped ==
  ASSUME IInv, NEW t \in Threads, NEW s \in Own(t), pc[t] # "refer", mem[s] # Null
  PROVE  /\ mem[s] \in Blocks /\ mem[s] \in Heap
         /\ Deferred(mem[s]) \in [Blocks -> Nat]
         /\ Remaining(mem[s]) \in [Blocks -> Texts \cup {Null}]
         /\ Deferred(mem[s])[mem[s]] = Cardinality(Counted(mem[s]) \ {s})
         /\ \A c \in Blocks \ {mem[s]} :
              Deferred(mem[s])[c] = count[c] /\ Remaining(mem[s])[c] = text[c]
         /\ IF \E r \in Strings \ {s} : mem[r] = mem[s]
            THEN Remaining(mem[s])[mem[s]] = text[mem[s]]
            ELSE Remaining(mem[s])[mem[s]] = Null
<1> DEFINE b == mem[s]
<1>1. /\ b \in Blocks /\ b \in Heap /\ count[b] \in Nat /\ count[b] >= 1
      /\ count[b] <= 1 <=> \A r \in Strings \ {s} : mem[r] # b
      /\ count[b] - 1 = Cardinality(Counted(b) \ {s})
  BY LastHolder
<1>2. count \in [Blocks -> Nat] /\ text \in [Blocks -> Texts \cup {Null}]
  BY DEF IInv, TypeOK
<1> HIDE DEF b
<1>3. /\ Deferred(b) \in [Blocks -> Nat]
      /\ Deferred(b)[b] = count[b] - 1
      /\ \A c \in Blocks \ {b} : Deferred(b)[c] = count[c]
  BY <1>1, <1>2 DEF Deferred
<1>4. /\ Remaining(b) \in [Blocks -> Texts \cup {Null}]
      /\ Remaining(b)[b] = IF count[b] <= 1 THEN Null ELSE text[b]
      /\ \A c \in Blocks \ {b} : Remaining(b)[c] = text[c]
  BY <1>1, <1>2 DEF Remaining
<1> QED
  BY <1>1, <1>3, <1>4 DEF b

-----------------------------------------------------------------------------
(* Each operation keeps the invariant.                                     *)

\* A new block belongs to the string alone, and is counted once.
LEMMA StepConstruct ==
  ASSUME IInv, NEW t \in Threads, NEW s \in Own(t), Construct(t, s)
  PROVE  IInv'
<1> DEFINE b == mem'[s]
<1>1. PICK n \in Blocks \ Heap, v \in Texts :
        /\ mem' = [mem EXCEPT ![s] = n]
        /\ count' = [count EXCEPT ![n] = 1]
        /\ text' = [text EXCEPT ![n] = v]
  BY DEF Construct
<1>2. s \in Strings /\ s # Null /\ mem[s] = Null /\ n # Null /\ v # Null /\ s \notin Shared
  BY Owned, <1>1, NullAssumption DEF Construct
<1>3. /\ pc' = pc /\ pc[t] = "idle" /\ from' = from /\ new' = new /\ lost' = lost
      /\ me' = [me EXCEPT ![t] = Null]
  BY DEF Construct, Begin, IInv, TypeOK
<1>4. \A r \in Strings : mem[r] # n
  BY <1>1, <1>2 DEF IInv, BlocksHeld
<1>5. \A u \in Threads : new[u] # n
  BY <1>1, <1>2 DEF IInv, NewApart
<1>6. TypeOK'
  BY <1>1, <1>2, <1>3 DEF IInv, TypeOK
<1>7. \A u \in Threads : pc[u] # "idle" => me'[u] = me[u] /\ me[u] # s
  BY <1>3, Owned DEF IInv, TypeOK, Labels
<1>8. Labels'
  BY <1>1, <1>2, <1>3, <1>7 DEF IInv, TypeOK, Labels, Own, Sources, Shared
<1>9. /\ Heap' = Heap \cup {n}
      /\ \A c \in Heap : text'[c] = text[c]
      /\ \A r \in Strings \ {s} : mem'[r] = mem[r]
      /\ mem'[s] = n
  BY <1>1, <1>2 DEF IInv, TypeOK, Heap
<1>10. ReferHeld'
  <2> SUFFICES ASSUME NEW u \in Threads, pc[u] = "refer"
               PROVE  \E o \in Sources(u) \ {me[u]} : mem'[o] = mem'[me[u]]
    BY <1>3, <1>7 DEF ReferHeld
  <2>1. PICK o \in Sources(u) \ {me[u]} : mem[o] = mem[me[u]]
    BY DEF IInv, ReferHeld
  <2>2. /\ mem[me[u]] \in Blocks /\ me[u] \in Strings /\ o \in Strings
        /\ Null \notin Blocks
    <3>1. o \in Strings
      BY <2>1 DEF Sources, Own, Shared
    <3> QED
      BY <3>1, Working, NullAssumption
  <2>3. o # s /\ me[u] # s
    BY <1>2, <2>1, <2>2
  <2> QED
    BY <1>9, <2>1, <2>2, <2>3
<1>11. NewApart'
  BY <1>1, <1>3, <1>5, <1>7, <1>9, Working DEF IInv, TypeOK, Labels, NewApart
<1>12. SharedThere'
  BY <1>2, <1>9 DEF IInv, SharedThere, Shared
<1>13. BlocksHeld'
  <2>1. \A r \in Strings : mem'[r] # Null => mem'[r] \in Heap'
    BY <1>9, Held DEF IInv
  <2>2. \A c \in Heap \ lost : \/ \E r \in Strings : mem'[r] = c
                              \/ \E u \in Threads : new'[u] = c
    BY <1>2, <1>3, <1>9, Held, NullAssumption DEF IInv, Heap
  <2>3. \A c \in lost : /\ c \in Heap'
                        /\ \A r \in Strings : mem'[r] # c
                        /\ \A u \in Threads : new'[u] # c
    BY <1>1, <1>3, <1>9, Held DEF IInv
  <2> QED
    BY <1>2, <1>3, <1>9, <2>1, <2>2, <2>3, Held
<1>14. CountsExact'
  <2>1. Counted(n)' = {s}
    BY <1>2, <1>3, <1>4, <1>7, <1>9 DEF Counted, IInv, Labels
  <2>2. ASSUME NEW c \in Blocks \ {n} PROVE Counted(c)' = Counted(c)
    BY <1>2, <1>3, <1>7, <1>9, NullAssumption DEF Counted, IInv, Labels
  <2>3. ASSUME NEW c \in Blocks \ {n}, NEW r \in Strings, mem'[r] = c
        PROVE  count'[c] = Cardinality(Counted(c)')
    BY <1>1, <1>9, <2>2, <2>3, Exact DEF IInv, TypeOK
  <2>4. count'[n] = Cardinality(Counted(n)')
    BY <1>1, <2>1, FS_Singleton DEF IInv, TypeOK
  <2> QED
    BY <1>6, <2>3, <2>4, Exact
<1>15. WriterAlone'
  BY <1>3, <1>4, <1>7, <1>9, Working DEF IInv, WriterAlone
<1> QED
  BY <1>6, <1>8, <1>10, <1>11, <1>12, <1>13, <1>14, <1>15 DEF IInv

\* The block of a constructor that throws is no string's and no thread's.
LEMMA StepThrows ==
  ASSUME IInv, NEW t \in Threads, NEW s \in Own(t), ConstructThrows(t, s)
  PROVE  IInv'
<1>1. PICK n \in Blocks \ Heap, v \in Texts :
        /\ count' = [count EXCEPT ![n] = 1]
        /\ text' = [text EXCEPT ![n] = v]
        /\ lost' = lost \cup {n}
  BY DEF ConstructThrows
<1>2. UNCHANGED <<mem, pc, me, from, new>> /\ n # Null /\ v # Null
  BY <1>1, NullAssumption DEF ConstructThrows
<1>3. /\ Heap' = Heap \cup {n}
      /\ \A c \in Blocks \ {n} : text'[c] = text[c] /\ count'[c] = count[c]
  BY <1>1, <1>2 DEF IInv, TypeOK, Heap
<1>4. /\ \A r \in Strings : mem[r] # n
      /\ \A u \in Threads : new[u] # n
  BY <1>1, <1>2 DEF IInv, BlocksHeld, NewApart
<1>5. TypeOK'
  BY <1>1, <1>2 DEF IInv, TypeOK
<1>6. Labels' /\ ReferHeld' /\ SharedThere' /\ WriterAlone'
  BY <1>2 DEF IInv, Labels, ReferHeld, SharedThere, WriterAlone
<1>7. NewApart'
  <2> SUFFICES ASSUME NEW u \in Threads, new[u] # Null
               PROVE  /\ new[u] \in Heap'
                      /\ text'[new[u]] = text'[mem[me[u]]]
                      /\ \A r \in Strings : mem[r] # new[u]
                      /\ \A w \in Threads \ {u} : new[w] # new[u]
    BY <1>2 DEF NewApart
  <2>1. pc[u] \in {"swap", "regrow"} /\ new[u] \in Blocks \ {n}
    BY <1>4 DEF IInv, Labels, TypeOK
  <2>2. mem[me[u]] \in Blocks \ {n}
    BY <1>4, <2>1, Working
  <2> QED
    BY <1>3, <2>1, <2>2 DEF IInv, NewApart
<1>8. BlocksHeld'
  <2>1. \A r \in Strings : mem'[r] # Null => mem'[r] \in Heap'
    BY <1>2, <1>3, Held DEF IInv
  <2>2. \A c \in Heap' \ lost' : \/ \E r \in Strings : mem'[r] = c
                                \/ \E u \in Threads : new'[u] = c
    BY <1>1, <1>2, <1>3, Held DEF IInv
  <2>3. \A c \in lost' : /\ c \in Heap'
                         /\ \A r \in Strings : mem'[r] # c
                         /\ \A u \in Threads : new'[u] # c
    BY <1>1, <1>2, <1>3, <1>4, Held DEF IInv
  <2> QED
    BY <2>1, <2>2, <2>3, Held
<1>9. CountsExact'
  <2>1. ASSUME NEW c \in Blocks PROVE Counted(c)' = Counted(c)
    BY <1>2 DEF Counted
  <2>2. ASSUME NEW c \in Blocks, NEW r \in Strings, mem'[r] = c
        PROVE  count'[c] = Cardinality(Counted(c)')
    BY <1>2, <1>3, <1>4, <2>1, <2>2, Exact DEF IInv
  <2> QED
    BY <1>5, <2>2, Exact
<1> QED
  BY <1>5, <1>6, <1>7, <1>8, <1>9 DEF IInv

\* A copy shares the block, which its source holds until the count is up.
LEMMA StepCopy ==
  ASSUME IInv, NEW t \in Threads, NEW s \in Own(t), Copy(t, s)
  PROVE  IInv'
<1>1. PICK o \in Sources(t) \ {s} :
        mem[o] # Null /\ mem' = [mem EXCEPT ![s] = mem[o]]
  BY DEF Copy, Sources
<1>2. /\ s \in Strings /\ s # Null /\ mem[s] = Null /\ s \notin Shared
      /\ o \in Strings /\ mem[o] \in Blocks /\ mem[o] \in Heap /\ Null \notin Blocks
  BY Owned, <1>1, NullAssumption DEF Copy, IInv, TypeOK, BlocksHeld, Sources, Own, Shared
<1>3. /\ pc[t] = "idle" /\ pc'[t] = "refer" /\ me'[t] = s
      /\ \A u \in Threads \ {t} : pc'[u] = pc[u] /\ me'[u] = me[u]
      /\ UNCHANGED <<count, text, from, new, lost>>
  BY DEF Copy, Begin, IInv, TypeOK
<1>4. /\ \A r \in Strings \ {s} : mem'[r] = mem[r]
      /\ mem'[s] = mem[o]
      /\ Heap' = Heap
  BY <1>1, <1>2, <1>3 DEF IInv, TypeOK, Heap
<1>5. TypeOK'
  BY <1>1, <1>2, <1>3 DEF IInv, TypeOK, PCs, Copy, Begin
<1>6. \A u \in Threads \ {t} : pc[u] # "idle" =>
        me[u] \in Strings /\ me[u] # s /\ me[u] # o /\ me[u] \in Own(u)
  BY <1>1, Working, Owned DEF Sources
<1>7. Labels'
  BY <1>2, <1>3, <1>4, <1>6 DEF IInv, Labels
<1>8. ReferHeld'
  <2> SUFFICES ASSUME NEW u \in Threads, pc'[u] = "refer"
               PROVE  \E p \in Sources(u) \ {me'[u]} : mem'[p] = mem'[me'[u]]
    BY DEF ReferHeld
  <2>1. CASE u = t
    BY <2>1, <1>1, <1>2, <1>3, <1>4
  <2>2. CASE u # t
    <3>1. PICK p \in Sources(u) \ {me[u]} : mem[p] = mem[me[u]]
      BY <2>2, <1>3 DEF IInv, ReferHeld
    <3>2. /\ mem[me[u]] # Null /\ me[u] \in Strings /\ me[u] # s
      BY <2>2, <1>2, <1>3, <1>6, Working
    <3>3. p # s /\ p \in Strings
      BY <1>2, <3>1, <3>2 DEF Sources, Own, Shared
    <3> QED
      BY <2>2, <1>3, <1>4, <3>1, <3>2, <3>3
  <2> QED
    BY <2>1, <2>2
<1>9. NewApart'
  <2> SUFFICES ASSUME NEW u \in Threads, new[u] # Null
               PROVE  /\ new[u] \in Heap
                      /\ text[new[u]] = text[mem'[me'[u]]]
                      /\ \A r \in Strings : mem'[r] # new[u]
                      /\ \A w \in Threads \ {u} : new[w] # new[u]
    BY <1>3, <1>4 DEF NewApart
  <2>1. pc[u] # "idle" /\ u # t
    BY <1>3 DEF IInv, Labels
  <2> QED
    BY <1>2, <1>3, <1>4, <1>6, <2>1 DEF IInv, NewApart
<1>10. SharedThere'
  BY <1>2, <1>4 DEF IInv, SharedThere, Shared
<1>11. BlocksHeld'
  <2>1. \A r \in Strings : mem'[r] # Null => mem'[r] \in Heap'
    BY <1>2, <1>4, Held DEF IInv
  <2>2. \A c \in Heap \ lost : \/ \E r \in Strings : mem'[r] = c
                              \/ \E u \in Threads : new'[u] = c
    BY <1>2, <1>3, <1>4, Held, NullAssumption DEF IInv, Heap
  <2>3. \A c \in lost : /\ c \in Heap
                        /\ \A r \in Strings : mem'[r] # c
                        /\ \A u \in Threads : new'[u] # c
    BY <1>2, <1>3, <1>4, Held DEF IInv
  <2> QED
    BY <1>3, <1>4, <2>1, <2>2, <2>3, Held
<1>12. CountsExact'
  <2>1. ASSUME NEW c \in Blocks PROVE Counted(c)' = Counted(c)
    BY <1>2, <1>3, <1>4, <1>6 DEF Counted
  <2>2. ASSUME NEW c \in Blocks, NEW r \in Strings, mem'[r] = c
        PROVE  count'[c] = Cardinality(Counted(c)')
    BY <1>2, <1>3, <1>4, <2>1, <2>2, Exact DEF IInv
  <2> QED
    BY <1>5, <2>2, Exact
<1>13. WriterAlone'
  BY <1>2, <1>3, <1>4, <1>6 DEF IInv, WriterAlone
<1> QED
  BY <1>5, <1>7, <1>8, <1>9, <1>10, <1>11, <1>12, <1>13 DEF IInv

\* A step that only changes what the thread is about keeps the invariant, if a
\* thread that goes on to write has the block to itself.
LEMMA StepQuiet ==
  ASSUME IInv, TypeOK', NEW t \in Threads,
         UNCHANGED <<mem, count, text, new, lost>>,
         pc[t] \notin {"refer", "swap", "regrow"},
         pc'[t] \notin {"refer", "swap", "regrow"},
         pc'[t] # "idle" => me'[t] \in Own(t),
         pc'[t] \notin {"idle", "drop"} => mem[me'[t]] # Null,
         pc'[t] = "drop" => from'[t] \in Sources(t) \ {me'[t]},
         pc'[t] = "write" => \A r \in Strings \ {me'[t]} : mem[r] # mem[me'[t]],
         \A u \in Threads \ {t} : pc'[u] = pc[u] /\ me'[u] = me[u] /\ from'[u] = from[u]
  PROVE  IInv'
<1>1. Heap' = Heap /\ new[t] = Null
  BY DEF Heap, IInv, Labels
<1>2. Labels'
  BY <1>1 DEF IInv, Labels
<1>3. ReferHeld'
  BY DEF IInv, ReferHeld
<1>4. NewApart'
  BY <1>1 DEF IInv, NewApart
<1>5. SharedThere' /\ BlocksHeld'
  BY <1>1, Held DEF IInv, SharedThere
<1>6. CountsExact'
  <2>1. ASSUME NEW c \in Blocks PROVE Counted(c)' = Counted(c)
    BY DEF Counted
  <2> QED
    BY <2>1, Exact DEF IInv
<1>7. WriterAlone'
  BY DEF IInv, WriterAlone
<1> QED
  BY <1>2, <1>3, <1>4, <1>5, <1>6, <1>7 DEF IInv

\* An assignment begins; a mutator begins.
LEMMA StepBegin ==
  ASSUME IInv, NEW t \in Threads, NEW s \in Own(t), Assign(t, s) \/ Mutate(t, s)
  PROVE  IInv'
<1>1. s \in Strings /\ s # Null
  BY Owned
<1>2. CASE Assign(t, s)
  <2>1. PICK o \in Sources(t) \ {s} : from' = [from EXCEPT ![t] = o]
    BY <1>2 DEF Assign, Sources
  <2>2. o \in Strings
    BY <2>1 DEF Sources, Own, Shared
  <2>3. TypeOK'
    BY <1>1, <1>2, <2>1, <2>2 DEF Assign, Begin, IInv, TypeOK, PCs
  <2>4. /\ pc[t] = "idle" /\ pc'[t] = "drop" /\ me'[t] = s /\ from'[t] = o
        /\ \A u \in Threads \ {t} : pc'[u] = pc[u] /\ me'[u] = me[u] /\ from'[u] = from[u]
        /\ UNCHANGED <<mem, count, text, new, lost>>
    BY <1>2, <2>1 DEF Assign, Begin, IInv, TypeOK
  <2> QED
    BY <2>1, <2>3, <2>4, StepQuiet
<1>3. CASE Mutate(t, s)
  <2>1. TypeOK'
    BY <1>1, <1>3 DEF Mutate, Begin, IInv, TypeOK, PCs
  <2>2. /\ pc[t] = "idle" /\ pc'[t] \in {"test", "grow"} /\ me'[t] = s /\ mem[s] # Null
        /\ \A u \in Threads \ {t} : pc'[u] = pc[u] /\ me'[u] = me[u] /\ from'[u] = from[u]
        /\ UNCHANGED <<mem, count, text, new, lost>>
    BY <1>3 DEF Mutate, Begin, IInv, TypeOK
  <2> QED
    BY <2>1, <2>2, StepQuiet
<1> QED
  BY <1>2, <1>3

\* A thread that reads a count of one may write, whatever the others do next.
LEMMA StepTestCount ==
  ASSUME IInv, NEW t \in Threads, TestCount(t)
  PROVE  IInv'
<1>1. /\ pc[t] = "test" /\ pc'[t] \in {"write", "copy"} /\ me' = me
      /\ pc'[t] = "write" => count[mem[me[t]]] = 1
      /\ \A u \in Threads \ {t} : pc'[u] = pc[u]
      /\ UNCHANGED <<mem, count, text, from, new, lost>>
  BY DEF TestCount, Goto, IInv, TypeOK
<1>2. TypeOK'
  BY <1>1 DEF TestCount, Goto, IInv, TypeOK, PCs
<1>3. /\ me[t] \in Own(t) /\ mem[me[t]] # Null
      /\ pc'[t] = "write" => \A r \in Strings \ {me[t]} : mem[r] # mem[me[t]]
  BY <1>1, Working, LastHolder, NullAssumption
<1> QED
  BY <1>1, <1>2, <1>3, StepQuiet

\* refer_: the string is counted from now on.
LEMMA StepRefer ==
  ASSUME IInv, NEW t \in Threads, Refer(t)
  PROVE  IInv'
<1>s. PICK s \in Strings, b \in Blocks : s = me[t] /\ b = mem[s]
  <2>1. pc[t] = "refer"
    BY DEF Refer, Goto
  <2> QED
    BY <2>1, Working
<1>1. /\ pc[t] = "refer" /\ pc'[t] = "idle"
      /\ \A u \in Threads \ {t} : pc'[u] = pc[u] /\ me'[u] = me[u]
      /\ count' = [count EXCEPT ![b] = @ + 1]
      /\ UNCHANGED <<mem, text, from, new, lost>>
  BY <1>s DEF Refer, Goto, IInv, TypeOK
<1>2. /\ s \in Own(t) /\ s \in Strings /\ b \in Blocks /\ Null \notin Blocks /\ b # Null
  BY <1>s, <1>1, Working, NullAssumption
<1>3. TypeOK'
  BY <1>1, <1>2 DEF Refer, Goto, IInv, TypeOK, PCs
<1>4. Heap' = Heap /\ new[t] = Null
  BY <1>1 DEF Heap, IInv, Labels
<1>5. \A u \in Threads \ {t} : pc[u] # "idle" => me[u] # s
  BY <1>2, Working, Owned
<1>6. Labels'
  BY <1>1, <1>4 DEF IInv, Labels
<1>7. ReferHeld'
  BY <1>1 DEF IInv, ReferHeld
<1>8. NewApart'
  BY <1>1, <1>4 DEF IInv, NewApart
<1>9. SharedThere' /\ BlocksHeld'
  BY <1>1, <1>4, Held DEF IInv, SharedThere
<1>10. CountsExact'
  <2>1. Counted(b)' = Counted(b) \cup {s} /\ s \notin Counted(b)
    BY <1>s, <1>1, <1>2, <1>5 DEF Counted
  <2>2. ASSUME NEW c \in Blocks \ {b} PROVE Counted(c)' = Counted(c)
    BY <1>s, <1>1, <1>2, <1>5 DEF Counted
  <2>3. IsFiniteSet(Counted(b))
    BY StringsAssumption, FS_Subset DEF Counted
  <2>4. Cardinality(Counted(b) \cup {s}) = Cardinality(Counted(b)) + 1
    BY <2>1, <2>3, FS_AddElement
  <2>5. count[b] = Cardinality(Counted(b))
    BY <1>s, <1>2, Exact DEF IInv
  <2>6. count'[b] = Cardinality(Counted(b)')
    BY <1>1, <1>2, <2>1, <2>4, <2>5 DEF IInv, TypeOK
  <2>7. ASSUME NEW c \in Blocks \ {b}, NEW r \in Strings, mem'[r] = c
        PROVE  count'[c] = Cardinality(Counted(c)')
    BY <1>1, <2>2, <2>7, Exact DEF IInv, TypeOK
  <2> QED
    BY <1>3, <2>6, <2>7, Exact
<1>11. WriterAlone'
  BY <1>1 DEF IInv, WriterAlone
<1> QED
  BY <1>3, <1>6, <1>7, <1>8, <1>9, <1>10, <1>11 DEF IInv

\* defer_ of a string's block, and another block for it, which is not yet
\* counted, or none: the end of a string and the first half of an assignment.
LEMMA StepDefer ==
  ASSUME IInv, TypeOK', NEW t \in Threads, NEW s \in Own(t),
         pc[t] \in {"idle", "drop"}, pc[t] = "drop" => me[t] = s,
         NEW m, mem' = [mem EXCEPT ![s] = m],
         m = Null => pc'[t] = "idle",
         m # Null => /\ pc'[t] = "refer" /\ me'[t] = s
                     /\ \E o \in Sources(t) \ {s} : mem[o] = m,
         \A u \in Threads \ {t} : pc'[u] = pc[u] /\ me'[u] = me[u] /\ from'[u] = from[u],
         IF mem[s] = Null THEN UNCHANGED <<count, text>>
                          ELSE count' = Deferred(mem[s]) /\ text' = Remaining(mem[s]),
         UNCHANGED <<new, lost>>
  PROVE  IInv'
<1> DEFINE b == mem[s]
<1>1. /\ s \in Strings /\ s # Null /\ s \notin Shared /\ Null \notin Blocks /\ Null \notin Texts
      /\ pc[t] # "refer" /\ new[t] = Null /\ b \in Blocks \cup {Null}
  BY Owned, NullAssumption DEF IInv, Labels, TypeOK
<1>2. /\ \A r \in Strings \ {s} : mem'[r] = mem[r]
      /\ mem'[s] = m
  BY <1>1 DEF IInv, TypeOK
<1>3. m # Null => \E r \in Strings \ {s} : mem[r] = m
  BY DEF Sources, Own, Shared
<1>4. \A c \in Blocks : c # b => count'[c] = count[c] /\ text'[c] = text[c]
  <2>1. CASE b = Null
    BY <2>1
  <2>2. CASE b # Null
    <3>1. count \in [Blocks -> Nat] /\ text \in [Blocks -> Texts \cup {Null}]
      BY DEF IInv, TypeOK
    <3> QED
      BY <1>1, <2>2, <3>1 DEF Deferred, Remaining
  <2> QED
    BY <2>1, <2>2
<1>5. b # Null => /\ b \in Heap
                  /\ count'[b] = Cardinality(Counted(b) \ {s})
                  /\ IF \E r \in Strings \ {s} : mem[r] = b THEN text'[b] = text[b]
                                                            ELSE text'[b] = Null
  BY <1>1, Dropped
<1>6. /\ \A r \in Strings \ {s} : mem[r] # Null => mem[r] \in Heap' /\ text'[mem[r]] = text[mem[r]]
      /\ b # Null /\ b \in Heap' => \E r \in Strings \ {s} : mem[r] = b
      /\ Heap' \subseteq Heap
      /\ \A c \in Heap : c # b => c \in Heap' /\ text'[c] = text[c]
  <2>1. \A c \in Blocks : c \in Heap <=> text[c] # Null
    BY DEF Heap
  <2>2. \A c \in Blocks : c \in Heap' <=> text'[c] # Null
    BY DEF Heap
  <2>3. Heap \subseteq Blocks /\ Heap' \subseteq Blocks
    BY DEF Heap
  <2>4. \A r \in Strings : mem[r] # Null => mem[r] \in Heap
    BY DEF IInv, BlocksHeld
  <2> HIDE DEF b
  <2> QED
    BY <1>1, <1>4, <1>5, <2>1, <2>2, <2>3, <2>4 DEF b
<1>7. \A u \in Threads \ {t} : pc[u] # "idle" =>
        /\ me[u] \in Strings \ {s} /\ me[u] \in Own(u)
        /\ pc[u] # "drop" => mem[me[u]] # Null
  BY <1>1, Working, Owned
<1>8. Labels'
  BY <1>1, <1>2, <1>3, <1>7 DEF IInv, Labels
<1>9. ReferHeld'
  <2> SUFFICES ASSUME NEW u \in Threads, pc'[u] = "refer"
               PROVE  \E p \in Sources(u) \ {me'[u]} : mem'[p] = mem'[me'[u]]
    BY DEF ReferHeld
  <2>1. CASE u = t
    BY <2>1, <1>2 DEF Sources, Own, Shared
  <2>2. CASE u # t
    <3>1. PICK p \in Sources(u) \ {me[u]} : mem[p] = mem[me[u]]
      BY <2>2 DEF IInv, ReferHeld
    <3>2. p # s
      BY <2>2, <3>1, <1>1, Owned DEF Sources
    <3>3. p \in Strings
      BY <3>1 DEF Sources, Own, Shared
    <3> QED
      BY <2>2, <1>2, <1>7, <3>1, <3>2, <3>3
  <2> QED
    BY <2>1, <2>2
<1>10. NewApart'
  <2> SUFFICES ASSUME NEW u \in Threads, new[u] # Null
               PROVE  /\ new[u] \in Heap'
                      /\ text'[new[u]] = text'[mem'[me'[u]]]
                      /\ \A r \in Strings : mem'[r] # new[u]
                      /\ \A w \in Threads \ {u} : new[w] # new[u]
    BY DEF NewApart
  <2>1. pc[u] \in {"swap", "regrow"} /\ u # t
    BY <1>1 DEF IInv, Labels
  <2>2. /\ new[u] \in Heap /\ text[new[u]] = text[mem[me[u]]]
        /\ \A r \in Strings : mem[r] # new[u]
        /\ \A w \in Threads \ {u} : new[w] # new[u]
    BY DEF IInv, NewApart
  <2>3. new[u] # b /\ \A r \in Strings : mem'[r] # new[u]
    BY <1>1, <1>2, <1>3, <2>2
  <2> QED
    BY <1>2, <1>6, <1>7, <2>1, <2>2, <2>3
<1>11. SharedThere'
  BY <1>1, <1>2 DEF IInv, SharedThere, Shared
<1>12. BlocksHeld'
  <2>1. \A r \in Strings : mem'[r] # Null => mem'[r] \in Heap'
    BY <1>2, <1>3, <1>6
  <2>2. ASSUME NEW c \in Heap' \ lost
        PROVE  (\E r \in Strings : mem'[r] = c) \/ (\E u \in Threads : new'[u] = c)
    <3>1. (\E r \in Strings : mem[r] = c) \/ (\E u \in Threads : new[u] = c)
      BY <1>6, Held DEF IInv
    <3>2. c # Null
      BY <1>1 DEF Heap
    <3> QED
      BY <1>2, <1>6, <3>1, <3>2
  <2>3. ASSUME NEW c \in lost
        PROVE  /\ c \in Heap'
               /\ \A r \in Strings : mem'[r] # c
               /\ \A u \in Threads : new'[u] # c
    <3>1. /\ c \in Heap /\ c # Null
          /\ \A r \in Strings : mem[r] # c
          /\ \A u \in Threads : new[u] # c
      BY <1>1, Held DEF IInv, Heap
    <3> QED
      BY <1>1, <1>2, <1>3, <1>6, <3>1
  <2> QED
    BY <2>1, <2>2, <2>3, Held
<1>13. CountsExact'
  <2>1. ASSUME NEW c \in Blocks PROVE Counted(c)' = Counted(c) \ {s}
    BY <1>1, <1>2, <1>7 DEF Counted
  <2>2. ASSUME NEW c \in Blocks \ {b} PROVE Counted(c) \ {s} = Counted(c)
    BY DEF Counted
  <2>3. ASSUME NEW c \in Blocks, NEW r \in Strings, mem'[r] = c
        PROVE  count'[c] = Cardinality(Counted(c)')
    <3>1. CASE c = b
      <4>1. count'[c] = Cardinality(Counted(c) \ {s})
        BY <3>1, <1>1, <1>5
      <4>2. Counted(c)' = Counted(c) \ {s}
        BY <2>1
      <4> QED
        BY <4>1, <4>2
    <3>2. CASE c # b
      <4>1. \E q \in Strings : mem[q] = c
        BY <1>1, <1>2, <1>3, <2>3
      <4>2. count[c] = Cardinality(Counted(c))
        BY <4>1, Exact DEF IInv
      <4>3. Counted(c)' = Counted(c) /\ count'[c] = count[c]
        BY <3>2, <1>4, <2>1, <2>2
      <4> QED
        BY <4>2, <4>3
    <3> QED
      BY <3>1, <3>2
  <2> QED
    BY <2>3, Exact
<1>14. WriterAlone'
  <2> SUFFICES ASSUME NEW u \in Threads, pc'[u] = "write", NEW r \in Strings \ {me'[u]}
               PROVE  mem'[r] # mem'[me'[u]]
    BY DEF WriterAlone
  <2>1. u # t
    OBVIOUS
  <2>2. me'[u] = me[u] /\ me[u] \in Strings \ {s} /\ me[u] \in Own(u) /\ mem[me[u]] # Null
    BY <2>1, <1>7
  <2>3. \A q \in Strings \ {me[u]} : mem[q] # mem[me[u]]
    BY <2>1 DEF IInv, WriterAlone
  <2>4. m # mem[me[u]]
    <3>1. CASE m # Null
      <4>1. PICK o \in Sources(t) \ {s} : mem[o] = m
        BY <3>1
      <4>2. o # me[u] /\ o \in Strings
        BY <2>1, <2>2, <4>1, Owned DEF Sources, Own, Shared
      <4> QED
        BY <2>3, <4>1, <4>2
    <3> QED
      BY <2>2, <3>1
  <2> QED
    BY <1>2, <2>2, <2>3, <2>4
<1> QED
  BY <1>8, <1>9, <1>10, <1>11, <1>12, <1>13, <1>14 DEF IInv

LEMMA StepDestroy ==
  ASSUME IInv, NEW t \in Threads, NEW s \in Own(t), Destroy(t, s)
  PROVE  IInv'
<1>1. /\ pc[t] = "idle" /\ pc' = pc /\ mem[s] # Null
      /\ me' = [me EXCEPT ![t] = Null]
      /\ mem' = [mem EXCEPT ![s] = Null]
      /\ count' = Deferred(mem[s]) /\ text' = Remaining(mem[s])
      /\ UNCHANGED <<from, new, lost>>
  BY DEF Destroy, Begin, IInv, TypeOK
<1>2. count' \in [Blocks -> Nat] /\ text' \in [Blocks -> Texts \cup {Null}]
  BY <1>1, Dropped DEF Deferred, Remaining
<1>3. TypeOK'
  BY <1>1, <1>2 DEF IInv, TypeOK
<1>4. \A u \in Threads \ {t} : me'[u] = me[u]
  BY <1>1 DEF IInv, TypeOK
<1> QED
  BY <1>1, <1>3, <1>4, StepDefer

LEMMA StepDropOld ==
  ASSUME IInv, NEW t \in Threads, DropOld(t)
  PROVE  IInv'
<1>1. pc[t] = "drop"
  BY DEF DropOld, Goto
<1>2. PICK s \in Own(t) : s = me[t] /\ s \in Strings
  BY <1>1, Working
<1>3. PICK o \in Sources(t) \ {s} : o = from[t] /\ o \in Strings
  BY <1>1, <1>2 DEF IInv, Labels, Sources, Own, Shared
<1>4. /\ pc' = [pc EXCEPT ![t] = IF mem[o] = Null THEN "idle" ELSE "refer"]
      /\ me' = [me EXCEPT ![t] = IF mem[o] = Null THEN Null ELSE s]
      /\ mem' = [mem EXCEPT ![s] = mem[o]]
      /\ from' = [from EXCEPT ![t] = Null]
      /\ IF mem[s] = Null THEN UNCHANGED <<count, text>>
                          ELSE count' = Deferred(mem[s]) /\ text' = Remaining(mem[s])
      /\ UNCHANGED <<new, lost>>
  BY <1>2, <1>3 DEF DropOld, Goto, IInv, TypeOK
<1>5. count' \in [Blocks -> Nat] /\ text' \in [Blocks -> Texts \cup {Null}]
  <2>1. CASE mem[s] = Null
    BY <2>1, <1>4 DEF IInv, TypeOK
  <2>2. CASE mem[s] # Null
    <3>1. mem[s] \in Blocks /\ count[mem[s]] \in Nat /\ count[mem[s]] >= 1
      BY <2>2, <1>1, LastHolder
    <3> QED
      BY <2>2, <3>1, <1>4 DEF Deferred, Remaining, IInv, TypeOK
  <2> QED
    BY <2>1, <2>2
<1>6. TypeOK'
  BY <1>2, <1>3, <1>4, <1>5 DEF IInv, TypeOK, PCs
<1>7. /\ \A u \in Threads \ {t} : pc'[u] = pc[u] /\ me'[u] = me[u] /\ from'[u] = from[u]
      /\ mem[o] = Null => pc'[t] = "idle"
      /\ mem[o] # Null => pc'[t] = "refer" /\ me'[t] = s
  BY <1>4 DEF IInv, TypeOK
<1> QED
  BY <1>1, <1>2, <1>3, <1>4, <1>6, <1>7, StepDefer

\* The copy of a block is a new block, which no string has yet.
LEMMA StepDuplicate ==
  ASSUME IInv, NEW t \in Threads, Duplicate(t)
  PROVE  IInv'
<1>1. pc[t] \in {"copy", "grow"}
  BY DEF Duplicate, Goto
<1>2. PICK s \in Own(t), b \in Blocks : s = me[t] /\ b = mem[s] /\ s \in Strings /\ b \in Heap
  BY <1>1, Working
<1>3. PICK n \in Blocks \ Heap :
        /\ new' = [new EXCEPT ![t] = n]
        /\ count' = [count EXCEPT ![n] = count[b]]
        /\ text' = [text EXCEPT ![n] = text[b]]
  BY <1>2 DEF Duplicate
<1>4. /\ pc' = [pc EXCEPT ![t] = IF pc[t] = "copy" THEN "swap" ELSE "regrow"]
      /\ me' = me /\ mem' = mem /\ from' = from /\ lost' = lost
  BY <1>1 DEF Duplicate, Goto, IInv, TypeOK
<1>5. TypeOK'
  BY <1>1, <1>2, <1>3, <1>4 DEF IInv, TypeOK, PCs
<1>6. /\ Null \notin Blocks /\ \A r \in Strings : mem[r] # n
      /\ \A u \in Threads : new[u] # n
      /\ new[t] = Null
  BY <1>1, <1>3, NullAssumption DEF IInv, BlocksHeld, NewApart, Labels
<1>7. /\ Heap' = Heap \cup {n}
      /\ \A c \in Blocks \ {n} : text'[c] = text[c] /\ count'[c] = count[c]
      /\ text'[n] = text[b]
      /\ \A u \in Threads \ {t} : new'[u] = new[u] /\ pc'[u] = pc[u]
      /\ new'[t] = n /\ pc'[t] \in {"swap", "regrow"}
  BY <1>1, <1>2, <1>3, <1>4 DEF IInv, TypeOK, Heap
<1>8. Labels'
  BY <1>1, <1>4, <1>6, <1>7 DEF IInv, Labels
<1>9. ReferHeld'
  BY <1>4, <1>7 DEF IInv, ReferHeld
<1>10. NewApart'
  <2> SUFFICES ASSUME NEW u \in Threads, new'[u] # Null
               PROVE  /\ new'[u] \in Heap'
                      /\ text'[new'[u]] = text'[mem[me[u]]]
                      /\ \A r \in Strings : mem[r] # new'[u]
                      /\ \A w \in Threads \ {u} : new'[w] # new'[u]
    BY <1>4 DEF NewApart
  <2>1. CASE u = t
    BY <2>1, <1>2, <1>3, <1>6, <1>7
  <2>2. CASE u # t
    <3>1. pc[u] \in {"swap", "regrow"}
      BY <2>2, <1>7 DEF IInv, Labels
    <3>2. mem[me[u]] \in Blocks \ {n}
      BY <3>1, <1>6, Working
    <3>3. new[u] \in Blocks \ {n}
      BY <2>2, <1>6, <1>7 DEF IInv, TypeOK
    <3> QED
      BY <2>2, <3>2, <3>3, <1>6, <1>7 DEF IInv, NewApart
  <2> QED
    BY <2>1, <2>2
<1>11. SharedThere'
  BY <1>4 DEF IInv, SharedThere
<1>12. BlocksHeld'
  <2>1. \A c \in Heap \ lost : \/ \E r \in Strings : mem[r] = c
                              \/ \E u \in Threads : new'[u] = c
    BY <1>6, <1>7, Held, NullAssumption DEF IInv, Heap
  <2>2. \A c \in lost : /\ c \in Heap'
                        /\ \A r \in Strings : mem[r] # c
                        /\ \A u \in Threads : new'[u] # c
    BY <1>3, <1>7, Held DEF IInv
  <2> QED
    BY <1>4, <1>7, <2>1, <2>2, Held DEF IInv
<1>13. CountsExact'
  <2>1. ASSUME NEW c \in Blocks PROVE Counted(c)' = Counted(c)
    BY <1>1, <1>4, <1>7 DEF Counted
  <2>2. ASSUME NEW c \in Blocks, NEW r \in Strings, mem'[r] = c
        PROVE  count'[c] = Cardinality(Counted(c)')
    BY <1>4, <1>6, <1>7, <2>1, <2>2, Exact DEF IInv
  <2> QED
    BY <1>5, <2>2, Exact
<1>14. WriterAlone'
  BY <1>4, <1>7 DEF IInv, WriterAlone
<1> QED
  BY <1>5, <1>8, <1>9, <1>10, <1>11, <1>12, <1>13, <1>14 DEF IInv

\* The string leaves its block and takes its copy, which it has to itself.
LEMMA StepSwap ==
  ASSUME IInv, NEW t \in Threads, Swap(t)
  PROVE  IInv'
<1>1. pc[t] \in {"swap", "regrow"}
  BY DEF Swap, Goto
<1>2. PICK s \in Own(t), b \in Blocks, n \in Blocks :
        /\ s = me[t] /\ b = mem[s] /\ n = new[t]
        /\ s \in Strings /\ s \notin Shared /\ b \in Heap /\ n \in Heap /\ b # n
        /\ Null \notin Blocks
        /\ \A r \in Strings : mem[r] # n
        /\ \A u \in Threads \ {t} : new[u] # n
  <2>1. new[t] # Null /\ new[t] \in Blocks
    BY <1>1 DEF IInv, Labels, TypeOK
  <2> QED
    BY <1>1, <2>1, Working, Owned, NullAssumption DEF IInv, NewApart
<1>3. /\ pc' = [pc EXCEPT ![t] = IF pc[t] = "swap" THEN "write" ELSE "test"]
      /\ me' = me /\ from' = from /\ lost' = lost
      /\ mem' = [mem EXCEPT ![s] = n]
      /\ count' = [Deferred(b) EXCEPT ![n] = 1]
      /\ text' = Remaining(b)
      /\ new' = [new EXCEPT ![t] = Null]
  BY <1>1, <1>2 DEF Swap, Goto, IInv, TypeOK
<1>4. /\ count \in [Blocks -> Nat] /\ text \in [Blocks -> Texts \cup {Null}]
      /\ count[b] >= 1
      /\ count[b] <= 1 <=> \A r \in Strings \ {s} : mem[r] # b
      /\ count[b] - 1 = Cardinality(Counted(b) \ {s})
  BY <1>1, <1>2, LastHolder DEF IInv, TypeOK
<1>5. TypeOK'
  <2>1. count' \in [Blocks -> Nat] /\ text' \in [Blocks -> Texts \cup {Null}]
    BY <1>2, <1>3, <1>4 DEF Deferred, Remaining
  <2> QED
    BY <1>2, <1>3, <2>1 DEF IInv, TypeOK, PCs
<1>6. /\ \A r \in Strings \ {s} : mem'[r] = mem[r]
      /\ mem'[s] = n
      /\ count'[n] = 1 /\ count'[b] = count[b] - 1
      /\ \A c \in Blocks \ {b, n} : count'[c] = count[c]
      /\ \A c \in Blocks \ {b} : text'[c] = text[c]
      /\ text'[b] = IF count[b] <= 1 THEN Null ELSE text[b]
      /\ \A u \in Threads \ {t} : pc'[u] = pc[u] /\ new'[u] = new[u]
      /\ new'[t] = Null /\ pc'[t] \in {"write", "test"}
  BY <1>1, <1>2, <1>3, <1>4 DEF Deferred, Remaining, IInv, TypeOK
<1>7. /\ Heap' = IF \E r \in Strings \ {s} : mem[r] = b THEN Heap ELSE Heap \ {b}
      /\ \A c \in Heap' : text'[c] = text[c]
  BY <1>2, <1>4, <1>6 DEF Heap
<1>8. \A u \in Threads \ {t} : pc[u] # "idle" =>
        /\ me[u] \in Strings \ {s} /\ me[u] \in Own(u)
        /\ pc[u] # "drop" => mem[me[u]] # Null
  BY <1>2, Working, Owned
<1>9. Labels'
  BY <1>1, <1>2, <1>3, <1>6, <1>8 DEF IInv, Labels
<1>10. ReferHeld'
  <2> SUFFICES ASSUME NEW u \in Threads \ {t}, pc[u] = "refer"
               PROVE  \E p \in Sources(u) \ {me[u]} : mem'[p] = mem'[me[u]]
    BY <1>3, <1>6 DEF ReferHeld
  <2>1. PICK p \in Sources(u) \ {me[u]} : mem[p] = mem[me[u]]
    BY DEF IInv, ReferHeld
  <2>2. p # s /\ p \in Strings
    BY <2>1, <1>2, Owned DEF Sources, Own, Shared
  <2> QED
    BY <1>6, <1>8, <2>1, <2>2
<1>11. NewApart'
  <2> SUFFICES ASSUME NEW u \in Threads \ {t}, new[u] # Null
               PROVE  /\ new[u] \in Heap'
                      /\ text'[new[u]] = text'[mem'[me[u]]]
                      /\ \A r \in Strings : mem'[r] # new[u]
                      /\ \A w \in Threads \ {u} : new'[w] # new[u]
    BY <1>3, <1>6 DEF NewApart
  <2>1. pc[u] \in {"swap", "regrow"}
    BY DEF IInv, Labels
  <2>2. /\ new[u] \in Heap /\ text[new[u]] = text[mem[me[u]]]
        /\ \A r \in Strings : mem[r] # new[u]
        /\ \A w \in Threads \ {u} : new[w] # new[u]
    BY DEF IInv, NewApart
  <2>3. new[u] \in Heap' /\ \A r \in Strings : mem'[r] # new[u]
    BY <1>2, <1>6, <1>7, <2>2
  <2>4. mem'[me[u]] = mem[me[u]] /\ mem[me[u]] \in Heap'
    <3>1. mem[me[u]] \in Heap
      BY <2>1, Working
    <3> QED
      BY <3>1, <1>6, <1>7, <1>8, <2>1
  <2> QED
    BY <1>6, <1>7, <2>2, <2>3, <2>4
<1>12. SharedThere'
  BY <1>2, <1>6 DEF IInv, SharedThere, Shared
<1>13. BlocksHeld'
  <2>1. \A r \in Strings : mem'[r] # Null => mem'[r] \in Heap'
    BY <1>2, <1>6, <1>7, Held DEF IInv
  <2>2. ASSUME NEW c \in Heap' \ lost
        PROVE  (\E r \in Strings : mem'[r] = c) \/ (\E u \in Threads : new'[u] = c)
    <3>1. (\E r \in Strings : mem[r] = c) \/ (\E u \in Threads : new[u] = c)
      BY <1>7, Held DEF IInv
    <3> QED
      BY <1>2, <1>6, <1>7, <3>1
  <2>3. ASSUME NEW c \in lost
        PROVE  /\ c \in Heap'
               /\ \A r \in Strings : mem'[r] # c
               /\ \A u \in Threads : new'[u] # c
    <3>1. /\ c \in Heap /\ c # Null /\ c # n /\ c # b
          /\ \A r \in Strings : mem[r] # c
          /\ \A u \in Threads : new[u] # c
      BY <1>2, Held DEF IInv, Heap
    <3> QED
      BY <1>6, <1>7, <3>1
  <2> QED
    BY <1>3, <2>1, <2>2, <2>3, Held
<1>14. CountsExact'
  <2>1. ASSUME NEW c \in Blocks \ {n} PROVE Counted(c)' = Counted(c) \ {s}
    BY <1>1, <1>2, <1>3, <1>6 DEF Counted
  <2>2. Counted(n)' = {s}
    BY <1>1, <1>2, <1>3, <1>6, <1>8 DEF Counted
  <2>3. ASSUME NEW c \in Blocks \ {n, b} PROVE Counted(c) \ {s} = Counted(c)
    BY <1>2 DEF Counted
  <2>4. count'[n] = Cardinality(Counted(n)')
    BY <2>2, <1>6, FS_Singleton
  <2>5. count'[b] = Cardinality(Counted(b)')
    <3>1. Counted(b)' = Counted(b) \ {s}
      BY <2>1, <1>2
    <3> QED
      BY <3>1, <1>4, <1>6
  <2>6. ASSUME NEW c \in Blocks \ {n, b}, NEW r \in Strings, mem'[r] = c
        PROVE  count'[c] = Cardinality(Counted(c)')
    <3>1. count[c] = Cardinality(Counted(c))
      BY <1>6, <2>6, Exact DEF IInv
    <3>2. Counted(c)' = Counted(c) /\ count'[c] = count[c]
      BY <1>6, <2>1, <2>3
    <3> QED
      BY <3>1, <3>2
  <2> QED
    BY <1>5, <2>4, <2>5, <2>6, Exact
<1>15. WriterAlone'
  BY <1>2, <1>3, <1>6, <1>8 DEF IInv, WriterAlone
<1> QED
  BY <1>5, <1>9, <1>10, <1>11, <1>12, <1>13, <1>14, <1>15 DEF IInv

\* Writing changes the text of a block that nobody else has.
LEMMA StepWrite ==
  ASSUME IInv, NEW t \in Threads, Write(t)
  PROVE  IInv'
<1>1. pc[t] = "write"
  BY DEF Write, Goto
<1>2. PICK s \in Own(t), b \in Blocks : s = me[t] /\ b = mem[s] /\ s \in Strings /\ b \in Heap
  BY <1>1, Working
<1>3. PICK v \in Texts : text' = [text EXCEPT ![b] = v]
  BY <1>2 DEF Write
<1>4. /\ pc' = [pc EXCEPT ![t] = "idle"] /\ me' = [me EXCEPT ![t] = Null]
      /\ UNCHANGED <<mem, count, from, new, lost>>
  BY DEF Write, Goto, IInv, TypeOK
<1>5. TypeOK'
  BY <1>2, <1>3, <1>4 DEF IInv, TypeOK, PCs
<1>6. /\ Heap' = Heap /\ new[t] = Null
      /\ \A c \in Blocks \ {b} : text'[c] = text[c]
      /\ \A u \in Threads \ {t} : pc'[u] = pc[u] /\ me'[u] = me[u]
      /\ pc'[t] = "idle"
  BY <1>1, <1>2, <1>3, <1>4, NullAssumption DEF IInv, TypeOK, Heap, Labels
<1>7. \A r \in Strings \ {s} : mem[r] # b
  BY <1>1, <1>2 DEF IInv, WriterAlone
<1>8. \A u \in Threads \ {t} : pc[u] # "idle" => me[u] \in Strings \ {s}
  BY <1>2, Working, Owned
<1>9. Labels'
  BY <1>4, <1>6 DEF IInv, Labels
<1>10. ReferHeld'
  BY <1>4, <1>6 DEF IInv, ReferHeld
<1>11. NewApart'
  <2> SUFFICES ASSUME NEW u \in Threads \ {t}, new[u] # Null
               PROVE  /\ new[u] \in Heap
                      /\ text'[new[u]] = text'[mem[me[u]]]
                      /\ \A r \in Strings : mem[r] # new[u]
                      /\ \A w \in Threads \ {u} : new[w] # new[u]
    BY <1>4, <1>6 DEF NewApart
  <2>1. pc[u] \in {"swap", "regrow"} /\ new[u] \in Blocks
    BY DEF IInv, Labels, TypeOK
  <2>2. mem[me[u]] \in Blocks /\ mem[me[u]] # b
    BY <1>7, <1>8, <2>1, Working
  <2> QED
    BY <1>2, <1>6, <2>1, <2>2 DEF IInv, NewApart
<1>12. SharedThere' /\ BlocksHeld'
  BY <1>4, <1>6, Held DEF IInv, SharedThere
<1>13. CountsExact'
  <2>1. ASSUME NEW c \in Blocks PROVE Counted(c)' = Counted(c)
    BY <1>1, <1>4, <1>6 DEF Counted
  <2>2. ASSUME NEW c \in Blocks, NEW r \in Strings, mem'[r] = c
        PROVE  count'[c] = Cardinality(Counted(c)')
    BY <1>4, <2>1, <2>2, Exact DEF IInv
  <2> QED
    BY <1>5, <2>2, Exact
<1>14. WriterAlone'
  BY <1>4, <1>6 DEF IInv, WriterAlone
<1> QED
  BY <1>5, <1>9, <1>10, <1>11, <1>12, <1>13, <1>14 DEF IInv

-----------------------------------------------------------------------------
\* Before the threads start each shared string has a block of its own.
LEMMA InitIInv == Init => IInv
<1> SUFFICES ASSUME Init PROVE IInv
  OBVIOUS
<1>1. Null \notin Blocks /\ Null \notin Texts /\ Null \notin Strings
  BY NullAssumption
<1>2. TypeOK
  BY <1>1 DEF Init, TypeOK, PCs, Heap
<1>3. /\ \A t \in Threads : pc[t] = "idle" /\ new[t] = Null
      /\ lost = {}
      /\ \A c \in Blocks : c \in Heap => count[c] = 1
      /\ \A c \in Heap : \E s \in Shared : mem[s] = c
      /\ \A s \in Shared : mem[s] \in Heap
      /\ \A s, r \in Shared : mem[s] = mem[r] => s = r
      /\ \A s \in Strings : mem[s] # Null <=> s \in Shared
      /\ Shared \subseteq Strings
  BY DEF Init, Shared
<1>4. Labels /\ ReferHeld /\ NewApart /\ WriterAlone
  BY <1>3 DEF Labels, ReferHeld, NewApart, WriterAlone
<1>5. SharedThere
  BY <1>3 DEF SharedThere
<1>6. BlocksHeld
  BY <1>3, Held
<1>7. CountsExact
  <2>1. ASSUME NEW c \in Blocks, NEW r \in Strings, mem[r] = c
        PROVE  count[c] = Cardinality(Counted(c))
    <3>1. r \in Shared /\ c \in Heap
      BY <1>1, <1>3, <2>1
    <3>2. Counted(c) = {r}
      BY <1>1, <1>3, <2>1, <3>1 DEF Counted
    <3> QED
      BY <1>3, <3>1, <3>2, FS_Singleton
  <2> QED
    BY <1>2, <2>1, Exact
<1> QED
  BY <1>2, <1>4, <1>5, <1>6, <1>7 DEF IInv

\* Every step keeps the invariant.
LEMMA StepIInv == IInv /\ [Next]_vars => IInv'
<1> SUFFICES ASSUME IInv, [Next]_vars PROVE IInv'
  OBVIOUS
<1>1. CASE UNCHANGED vars
  BY <1>1, Held, Exact DEF vars, IInv, TypeOK, Labels, ReferHeld, NewApart, SharedThere,
     BlocksHeld, CountsExact, WriterAlone, Heap, Counted
<1>2. CASE Next
  BY <1>2, StepConstruct, StepThrows, StepCopy, StepBegin, StepDestroy, StepDropOld, StepRefer,
     StepTestCount, StepDuplicate, StepSwap, StepWrite DEF Next
<1> QED
  BY <1>1, <1>2

\* Every conjunct of the invariant holds always, for every number of threads,
\* strings and blocks.
THEOREM Invariance == Spec => []IInv
BY InitIInv, StepIInv, PTL DEF Spec

\* The count of a block in use is the number of the strings that have it,
\* whichever threads copy, assign and destroy at once.
THEOREM ExactCounts == Spec => []CountsExact
<1>1. IInv => CountsExact
  BY DEF IInv
<1> QED
  BY <1>1, Invariance, PTL

\* No string points to freed memory, and no block is lost but those of the
\* constructors that threw.
THEOREM HeldBlocks == Spec => []BlocksHeld
<1>1. IInv => BlocksHeld
  BY DEF IInv
<1> QED
  BY <1>1, Invariance, PTL

\* A thread about to write is the only one to see the block, although the test
\* of copy_on_write_ and the write are not one atomic step.
THEOREM LoneWriter == Spec => []WriterAlone
<1>1. IInv => WriterAlone
  BY DEF IInv
<1> QED
  BY <1>1, Invariance, PTL

-----------------------------------------------------------------------------
(* The refinement of PlainStrings: what is seen of the strings changes as  *)
(* if each had a text of its own.                                          *)

\* What is seen of one string.
LEMMA SeenOf ==
  /\ \A r \in Strings : Seen[r] = IF mem[r] = Null THEN Null ELSE text[mem[r]]
  /\ \A r \in Strings : Seen'[r] = IF mem'[r] = Null THEN Null ELSE text'[mem'[r]]
BY DEF Seen

\* When no more than one string of a thread is seen to change, the step is one
\* that plain strings can make.
LEMMA OneSeen ==
  ASSUME NEW t \in Threads, NEW s \in Own(t), NEW v,
         \A r \in Strings \ {s} : Seen'[r] = Seen[r],
         Seen'[s] = v,
         \/ v = Seen[s]
         \/ v \in Texts
         \/ v = Null
         \/ \E o \in Strings : v = Seen[o]
  PROVE  [Values!Next]_Seen
<1>1. s \in Strings /\ s \in Strings \ Shared /\ Null \notin Texts
  BY Owned, NullAssumption
<1>2. Seen' = [Seen EXCEPT ![s] = v]
  BY <1>1 DEF Seen
<1>3. CASE v = Seen[s]
  <2>1. Seen' = Seen
    BY <1>1, <1>2, <1>3 DEF Seen
  <2> QED
    BY <2>1
<1>4. CASE v \in Texts
  <2>1. Values!Put(s, v)
    BY <1>2 DEF Values!Put
  <2>2. Values!Set(s) \/ Values!Build(s)
    BY <1>4, <2>1 DEF Values!Set, Values!Build
  <2> QED
    BY <1>1, <2>2 DEF Values!Next
<1>5. CASE v = Null
  BY <1>1, <1>2, <1>5 DEF Values!Next, Values!Destroy, Values!Put
<1>6. CASE \E o \in Strings : v = Seen[o]
  <2>1. Values!CopyOf(s)
    BY <1>2, <1>6 DEF Values!CopyOf, Values!Put
  <2> QED
    BY <1>1, <2>1 DEF Values!Next
<1> QED
  BY <1>3, <1>4, <1>5, <1>6

\* After defer_ of the block of one string the others see what they saw.
LEMMA OthersKeep ==
  ASSUME IInv, NEW t \in Threads, NEW s \in Own(t), pc[t] # "refer", mem[s] # Null,
         text' = Remaining(mem[s])
  PROVE  /\ \A r \in Strings \ {s} : mem[r] # Null => text'[mem[r]] = text[mem[r]]
         /\ \A c \in Blocks \ {mem[s]} : text'[c] = text[c]
<1>1. /\ mem[s] \in Blocks
      /\ count[mem[s]] <= 1 <=> \A r \in Strings \ {s} : mem[r] # mem[s]
  BY LastHolder
<1>2. /\ text'[mem[s]] = IF count[mem[s]] <= 1 THEN Null ELSE text[mem[s]]
      /\ \A c \in Blocks \ {mem[s]} : text'[c] = text[c]
  BY <1>1 DEF Remaining, IInv, TypeOK
<1>3. \A r \in Strings : mem[r] # Null => mem[r] \in Blocks
  BY DEF IInv, TypeOK
<1> QED
  BY <1>1, <1>2, <1>3

\* Every step is one of the plain strings, or nothing is seen of it.
LEMMA StepSeen == IInv /\ [Next]_vars => [Values!Next]_Seen
<1> SUFFICES ASSUME IInv, [Next]_vars PROVE [Values!Next]_Seen
  OBVIOUS
<1>a. Null \notin Blocks /\ Null \notin Texts
  BY NullAssumption
<1>b. \A r \in Strings : mem[r] # Null => mem[r] \in Blocks /\ mem[r] \in Heap
  BY DEF IInv, TypeOK, BlocksHeld
<1>c. mem \in [Strings -> Blocks \cup {Null}] /\ text \in [Blocks -> Texts \cup {Null}]
  BY DEF IInv, TypeOK
<1>t. ASSUME NEW t \in Threads, NEW s \in Own(t), ConstructThrows(t, s) PROVE Seen' = Seen
  <2>1. PICK n \in Blocks \ Heap, v \in Texts : mem' = mem /\ text' = [text EXCEPT ![n] = v]
    BY <1>t DEF ConstructThrows
  <2>2. \A r \in Strings : mem[r] # Null => text'[mem[r]] = text[mem[r]]
    BY <1>b, <1>c, <2>1
  <2> QED
    BY <2>1, <2>2 DEF Seen
<1>u. ASSUME UNCHANGED <<mem, text>> PROVE Seen' = Seen
  BY <1>u DEF Seen
<1>1. ASSUME NEW t \in Threads, NEW s \in Own(t), Construct(t, s) PROVE [Values!Next]_Seen
  <2>1. PICK n \in Blocks \ Heap, v \in Texts :
          mem' = [mem EXCEPT ![s] = n] /\ text' = [text EXCEPT ![n] = v]
    BY <1>1 DEF Construct
  <2>2. s \in Strings
    BY Owned
  <2>3. \A r \in Strings \ {s} : Seen'[r] = Seen[r]
    BY <1>b, <1>c, <2>1, SeenOf
  <2>4. Seen'[s] = v
    BY <1>a, <1>c, <2>1, <2>2, SeenOf
  <2> QED
    BY <2>3, <2>4, OneSeen
<1>2. ASSUME NEW t \in Threads, NEW s \in Own(t), Copy(t, s) PROVE [Values!Next]_Seen
  <2>1. PICK o \in Sources(t) \ {s} : mem' = [mem EXCEPT ![s] = mem[o]] /\ text' = text
    BY <1>2 DEF Copy, Sources
  <2>2. s \in Strings /\ o \in Strings
    BY <2>1, Owned DEF Sources, Own, Shared
  <2>3. \A r \in Strings \ {s} : Seen'[r] = Seen[r]
    BY <1>c, <2>1, SeenOf
  <2>4. Seen'[s] = Seen[o]
    BY <1>c, <2>1, <2>2, SeenOf
  <2> QED
    BY <2>2, <2>3, <2>4, OneSeen
<1>3. ASSUME NEW t \in Threads, DropOld(t) PROVE [Values!Next]_Seen
  <2>1. pc[t] = "drop"
    BY <1>3 DEF DropOld, Goto
  <2>2. PICK s \in Own(t), o \in Strings : s = me[t] /\ o = from[t] /\ s \in Strings /\ o # s
    BY <2>1, Working DEF IInv, Labels, Sources, Own, Shared
  <2>3. /\ mem' = [mem EXCEPT ![s] = mem[o]]
        /\ mem[s] = Null => text' = text
        /\ mem[s] # Null => text' = Remaining(mem[s])
    BY <1>3, <2>2 DEF DropOld
  <2>4. \A r \in Strings \ {s} : mem[r] # Null => text'[mem[r]] = text[mem[r]]
    BY <2>1, <2>3, OthersKeep
  <2>5. \A r \in Strings \ {s} : Seen'[r] = Seen[r]
    BY <1>c, <2>3, <2>4, SeenOf
  <2>6. Seen'[s] = Seen[o]
    BY <1>c, <2>2, <2>3, <2>4, SeenOf
  <2> QED
    BY <2>5, <2>6, OneSeen
<1>4. ASSUME NEW t \in Threads, NEW s \in Own(t), Destroy(t, s) PROVE [Values!Next]_Seen
  <2>1. /\ pc[t] = "idle" /\ mem[s] # Null /\ s \in Strings
        /\ mem' = [mem EXCEPT ![s] = Null]
        /\ text' = Remaining(mem[s])
    BY <1>4, Owned DEF Destroy, Begin
  <2>2. \A r \in Strings \ {s} : mem[r] # Null => text'[mem[r]] = text[mem[r]]
    BY <2>1, OthersKeep
  <2>3. \A r \in Strings \ {s} : Seen'[r] = Seen[r]
    BY <1>c, <2>1, <2>2, SeenOf
  <2>4. Seen'[s] = Null
    BY <1>c, <2>1, SeenOf
  <2> QED
    BY <2>3, <2>4, OneSeen
<1>5. ASSUME NEW t \in Threads, Duplicate(t) PROVE [Values!Next]_Seen
  <2>1. PICK n \in Blocks \ Heap : text' = [text EXCEPT ![n] = text[mem[me[t]]]] /\ mem' = mem
    BY <1>5 DEF Duplicate
  <2>2. \A r \in Strings : mem[r] # Null => text'[mem[r]] = text[mem[r]]
    BY <1>b, <1>c, <2>1
  <2>3. Seen' = Seen
    BY <2>1, <2>2 DEF Seen
  <2> QED
    BY <2>3
<1>6. ASSUME NEW t \in Threads, Swap(t) PROVE [Values!Next]_Seen
  <2>1. pc[t] \in {"swap", "regrow"}
    BY <1>6 DEF Swap, Goto
  <2>2. PICK s \in Own(t), n \in Blocks :
          /\ s = me[t] /\ n = new[t] /\ s \in Strings
          /\ mem[s] # Null /\ n # mem[s] /\ text[n] = text[mem[s]]
    BY <1>a, <2>1, Working DEF IInv, Labels, NewApart, TypeOK
  <2>3. mem' = [mem EXCEPT ![s] = n] /\ text' = Remaining(mem[s])
    BY <1>6, <2>2 DEF Swap
  <2>4. /\ \A r \in Strings \ {s} : mem[r] # Null => text'[mem[r]] = text[mem[r]]
        /\ text'[n] = text[n]
    BY <2>1, <2>2, <2>3, OthersKeep
  <2>5. \A r \in Strings \ {s} : Seen'[r] = Seen[r]
    BY <1>c, <2>3, <2>4, SeenOf
  <2>6. Seen'[s] = Seen[s]
    BY <1>a, <1>c, <2>2, <2>3, <2>4, SeenOf
  <2> QED
    BY <2>5, <2>6, OneSeen
<1>7. ASSUME NEW t \in Threads, Write(t) PROVE [Values!Next]_Seen
  <2>1. pc[t] = "write"
    BY <1>7 DEF Write, Goto
  <2>2. PICK s \in Own(t), b \in Blocks : s = me[t] /\ b = mem[s] /\ s \in Strings
    BY <2>1, Working
  <2>3. PICK v \in Texts : text' = [text EXCEPT ![b] = v] /\ mem' = mem
    BY <1>7, <2>2 DEF Write
  <2>4. \A r \in Strings \ {s} : mem[r] # b
    BY <2>1, <2>2 DEF IInv, WriterAlone
  <2>5. \A r \in Strings \ {s} : Seen'[r] = Seen[r]
    BY <1>b, <1>c, <2>3, <2>4, SeenOf
  <2>6. Seen'[s] = v
    BY <1>a, <1>c, <2>2, <2>3, SeenOf
  <2> QED
    BY <2>5, <2>6, OneSeen
<1>8. ASSUME NEW t \in Threads, Refer(t) \/ TestCount(t) PROVE Seen' = Seen
  BY <1>8, <1>u DEF Refer, TestCount
<1>9. ASSUME NEW t \in Threads, NEW s \in Own(t), Assign(t, s) \/ Mutate(t, s)
      PROVE  Seen' = Seen
  BY <1>9, <1>u DEF Assign, Mutate
<1> QED
  BY <1>u, <1>t, <1>1, <1>2, <1>3, <1>4, <1>5, <1>6, <1>7, <1>8, <1>9 DEF Next, vars

\* The counted blocks implement strings with value semantics: whatever threads
\* share a block, a step is seen to change the text of one string of its thread at
\* most, and never that of a string which nobody may change.
THEOREM ValuesKept == Spec => ValueSemantics
<1>1. Init => Values!Init
  <2> SUFFICES ASSUME Init PROVE Values!Init
    OBVIOUS
  <2>1. TypeOK
    BY InitIInv DEF IInv
  <2> QED
    BY <2>1 DEF TypeOK, Seen, Values!Init
<1> QED
  BY <1>1, StepSeen, Invariance, PTL DEF Spec, ValueSemantics, Values!Spec
=============================================================================
