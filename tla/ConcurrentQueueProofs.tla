----------------------- MODULE ConcurrentQueueProofs -----------------------
(***************************************************************************)
(* Machine-checked proofs about ConcurrentQueue, for every finite set of   *)
(* threads, every set of capacities and every number of items.             *)
(***************************************************************************)
EXTENDS ConcurrentQueue, FiniteSetTheorems, SequenceTheorems, TLAPS

\* remove_if moves items and loses no place.
LEMMA Removed ==
  ASSUME TypeOK, NEW t \in Threads, RemoveIf(t)
  PROVE  queue' \in Seq(1 .. accepted) /\ Len(queue') = Len(queue)
<1>0. PICK gone : \E at \in Staying(gone) :
        queue' = [i \in DOMAIN queue |-> queue[IF i \in DOMAIN at THEN at[i] ELSE i]]
  BY DEF RemoveIf
<1>1. PICK at \in Staying(gone) :
        queue' = [i \in DOMAIN queue |-> queue[IF i \in DOMAIN at THEN at[i] ELSE i]]
  BY <1>0
<1>2. \A i \in DOMAIN at : at[i] \in DOMAIN queue
  BY DEF Staying
<1>3. DOMAIN queue = 1 .. Len(queue) /\ Len(queue) \in Nat
  BY DEF TypeOK
<1>4. queue' \in [1 .. Len(queue) -> 1 .. accepted]
  BY <1>1, <1>2, <1>3 DEF TypeOK
<1>5. queue' \in Seq(1 .. accepted)
  BY <1>3, <1>4, SeqDef
<1>6. DOMAIN queue' = 1 .. Len(queue') /\ Len(queue') \in Nat
  BY <1>5, LenProperties
<1> QED
  BY <1>3, <1>4, <1>5, <1>6

\* What is left when the front is taken.
LEMMA FrontTaken ==
  ASSUME TypeOK, queue # <<>>
  PROVE  /\ Head(queue) = queue[1] /\ Head(queue) \in 1 .. accepted
         /\ Tail(queue) \in Seq(1 .. accepted) /\ Len(Tail(queue)) = Len(queue) - 1
         /\ \A i \in DOMAIN Tail(queue) :
              i + 1 \in DOMAIN queue /\ Tail(queue)[i] = queue[i + 1]
<1> USE DEF TypeOK
<1>1. queue \in Seq(1 .. accepted) /\ Len(queue) \in Nat \ {0}
  BY EmptySeq
<1>2. DOMAIN Tail(queue) = 1 .. Len(queue) - 1
  BY <1>1, HeadTailProperties
<1> QED
  BY <1>1, <1>2, HeadTailProperties, LenProperties

\* Every step keeps every variable in its type.
LEMMA StepTypeOK == TypeOK /\ [Next]_vars => TypeOK'
<1> SUFFICES ASSUME TypeOK, [Next]_vars PROVE TypeOK'
  OBVIOUS
<1> USE BoundsAssumption DEF TypeOK, PCs, Goto, Troubles
<1>u. CASE UNCHANGED vars
  BY <1>u DEF vars
<1>n. ASSUME NEW t \in Threads, NEW from, NEW waiting, NEW test \in PCs,
             NotifyOne(t, from, waiting, test)
      PROVE  TypeOK'
  BY <1>n DEF NotifyOne, At
<1>1. ASSUME NEW t \in Threads, Call(t) PROVE TypeOK'
  BY <1>1 DEF Call
<1>2. ASSUME NEW t \in Threads, Push(t) PROVE TypeOK'
  <2>1. CASE Len(queue) >= capacity
    BY <1>2, <2>1 DEF Push
  <2>2. CASE ~(Len(queue) >= capacity)
    <3>1. accepted' = accepted + 1 /\ queue' = Append(queue, accepted')
      BY <1>2, <2>2 DEF Push
    <3>2. queue \in Seq(1 .. accepted') /\ accepted' \in 1 .. accepted'
      BY <3>1
    <3>3. queue' \in Seq(1 .. accepted')
      BY <3>1, <3>2
    <3> QED
      BY <1>2, <2>2, <3>1, <3>3 DEF Push
  <2> QED
    BY <2>1, <2>2
<1>3. ASSUME NEW t \in Threads, Pop(t) PROVE TypeOK'
  <2>1. CASE queue = <<>>
    BY <1>3, <2>1 DEF Pop
  <2>2. CASE queue # <<>>
    <3>1. /\ pc' = [pc EXCEPT ![t] = "notifyW"] /\ last' = Head(queue) /\ queue' = Tail(queue)
          /\ UNCHANGED <<capacity, accepted, happened>>
      BY <1>3, <2>2 DEF Pop
    <3> QED
      BY <2>2, <3>1, FrontTaken
  <2> QED
    BY <2>1, <2>2
<1>4. ASSUME NEW t \in Threads, PopThrows(t) PROVE TypeOK'
  BY <1>4, FrontTaken DEF PopThrows
<1>5. ASSUME NEW t \in Threads, Clear(t) PROVE TypeOK'
  BY <1>5 DEF Clear
<1>6. ASSUME NEW t \in Threads, NotifyReader(t) PROVE TypeOK'
  BY <1>6, <1>n DEF NotifyReader
<1>7. ASSUME NEW t \in Threads, NotifyWriter(t) PROVE TypeOK'
  BY <1>7, <1>n DEF NotifyWriter
<1>8. ASSUME NEW t \in Threads, NotifyWriters(t) PROVE TypeOK'
  BY <1>8 DEF NotifyWriters
<1>9. ASSUME NEW t \in Threads, Spurious(t) PROVE TypeOK'
  BY <1>9 DEF Spurious
<1>10. ASSUME NEW t \in Threads, Resize(t) PROVE TypeOK'
  BY <1>10 DEF Resize
<1>11. ASSUME NEW t \in Threads, RemoveIf(t) PROVE TypeOK'
  BY <1>11, Removed DEF RemoveIf
<1> QED
  BY <1>u, <1>1, <1>2, <1>3, <1>4, <1>5, <1>6, <1>7, <1>8, <1>9, <1>10, <1>11 DEF Next

\* The queue's variables keep their types, for every set of threads and capacities.
THEOREM TypeCorrect == Spec => []TypeOK
<1>1. Init => TypeOK
  BY BoundsAssumption, EmptySeq DEF Init, TypeOK, PCs, Troubles
<1> QED
  BY <1>1, StepTypeOK, PTL DEF Spec

-----------------------------------------------------------------------------
\* What a step does to the items: it leaves them, adds one that is new behind
\* them, takes the front, takes all, or removes some.
LEMMA StepItems ==
  ASSUME TypeOK, [Next]_vars
  PROVE  \/ UNCHANGED <<queue, last, accepted>>
         \/ /\ Len(queue) < capacity /\ UNCHANGED <<capacity, last>>
            /\ accepted' = accepted + 1 /\ queue' = Append(queue, accepted')
         \/ /\ queue # <<>> /\ last' = Head(queue) /\ queue' = Tail(queue)
            /\ UNCHANGED capacity
         \/ queue' = <<>> /\ UNCHANGED <<capacity, last>>
         \/ /\ "removed" \in happened' /\ Len(queue') = Len(queue)
            /\ UNCHANGED capacity
<1> USE DEF TypeOK
<1>1. CASE UNCHANGED vars
  BY <1>1 DEF vars
<1>2. ASSUME NEW t \in Threads, Push(t)
      PROVE  \/ UNCHANGED <<queue, last, accepted>>
             \/ /\ Len(queue) < capacity /\ UNCHANGED <<capacity, last>>
                /\ accepted' = accepted + 1 /\ queue' = Append(queue, accepted')
  BY <1>2, LenProperties DEF Push
<1>3. ASSUME NEW t \in Threads, Pop(t) \/ PopThrows(t)
      PROVE  \/ UNCHANGED <<queue, last, accepted>>
             \/ /\ queue # <<>> /\ last' = Head(queue) /\ queue' = Tail(queue)
                /\ UNCHANGED capacity
  BY <1>3 DEF Pop, PopThrows
<1>4. ASSUME NEW t \in Threads, RemoveIf(t)
      PROVE  "removed" \in happened' /\ Len(queue') = Len(queue) /\ UNCHANGED capacity
  BY <1>4, Removed DEF RemoveIf
<1> QED
  BY <1>1, <1>2, <1>3, <1>4 DEF Next, Call, Clear, NotifyReader, NotifyWriter,
    NotifyWriters, NotifyOne, Spurious, Resize

\* Troubles are never forgotten; a capacity that becomes less is one of them.
LEMMA StepTroubles ==
  ASSUME TypeOK, [Next]_vars
  PROVE  /\ happened \subseteq happened'
         /\ "shrunk" \in happened' \/ capacity <= capacity'
         /\ "grown" \in happened' \/ capacity' <= capacity
<1>1. ASSUME NEW t \in Threads, Resize(t)
      PROVE  /\ happened \subseteq happened'
             /\ "shrunk" \in happened' \/ capacity <= capacity'
             /\ "grown" \in happened' \/ capacity' <= capacity
  BY <1>1, BoundsAssumption DEF Resize, TypeOK
<1>2. CASE UNCHANGED vars
  BY <1>2 DEF vars, TypeOK
<1> QED
  BY <1>1, <1>2 DEF TypeOK, Next, Call, Push, Pop, PopThrows, Clear, NotifyReader,
    NotifyWriter, NotifyWriters, NotifyOne, Spurious, RemoveIf

\* Without a shrinking capacity there are never more items than places, whichever
\* threads push between the test and the append of another.
THEOREM CapacityHolds == Spec => []CapacityKept
<1>1. Init => CapacityKept
  BY BoundsAssumption, EmptySeq DEF Init, CapacityKept, TypeOK, PCs, Troubles
<1>2. CapacityKept /\ [Next]_vars => CapacityKept'
  <2> SUFFICES ASSUME CapacityKept, [Next]_vars, "shrunk" \notin happened'
               PROVE  Len(queue') <= capacity'
    BY StepTypeOK DEF CapacityKept
  <2> USE DEF CapacityKept
  <2>1. "shrunk" \notin happened /\ capacity <= capacity'
    BY StepTroubles
  <2>2. capacity' \in Nat /\ capacity \in Nat /\ Len(queue) \in Nat /\ Len(queue) <= capacity
    BY <2>1, StepTypeOK, LenProperties DEF TypeOK
  <2>3. CASE UNCHANGED <<queue, last, accepted>>
    BY <2>1, <2>2, <2>3
  <2>4. CASE Len(queue) < capacity /\ queue' = Append(queue, accepted') /\ UNCHANGED capacity
    BY <2>2, <2>4 DEF TypeOK
  <2>5. CASE queue # <<>> /\ queue' = Tail(queue) /\ UNCHANGED capacity
    BY <2>2, <2>5, FrontTaken
  <2>6. CASE queue' = <<>> /\ UNCHANGED capacity
    BY <2>2, <2>6, EmptySeq
  <2>7. CASE Len(queue') = Len(queue) /\ UNCHANGED capacity
    BY <2>2, <2>7
  <2> QED
    BY <2>3, <2>4, <2>5, <2>6, <2>7, StepItems
<1> QED
  BY <1>1, <1>2, PTL DEF Spec

\* Items leave in the order in which they were accepted, none twice, whatever
\* threads push and pop, as long as nobody calls remove_if.
THEOREM FirstInFirstOut == Spec => []InOrder
<1>1. Init => InOrder
  BY DEF Init, InOrder
<1>2. TypeOK /\ InOrder /\ [Next]_vars => InOrder'
  <2> SUFFICES ASSUME TypeOK, InOrder, [Next]_vars, "removed" \notin happened'
               PROVE  /\ \A i, j \in DOMAIN queue' : i < j => queue'[i] < queue'[j]
                      /\ \A i \in DOMAIN queue' : last' < queue'[i]
    BY DEF InOrder
  <2>1. /\ \A i, j \in DOMAIN queue : i < j => queue[i] < queue[j]
        /\ \A i \in DOMAIN queue : last < queue[i]
    BY StepTroubles DEF InOrder
  <2>2. /\ DOMAIN queue = 1 .. Len(queue) /\ Len(queue) \in Nat
        /\ \A i \in DOMAIN queue : queue[i] \in 1 .. accepted
        /\ accepted \in Nat /\ last \in 0 .. accepted
    BY LenProperties DEF TypeOK
  <2>3. CASE UNCHANGED <<queue, last, accepted>>
    BY <2>1, <2>3
  <2>4. CASE /\ accepted' = accepted + 1 /\ queue' = Append(queue, accepted')
             /\ UNCHANGED last
    <3>1. /\ DOMAIN queue' = 1 .. Len(queue) + 1 /\ queue'[Len(queue) + 1] = accepted + 1
          /\ \A i \in DOMAIN queue : queue'[i] = queue[i]
      BY <2>2, <2>4 DEF TypeOK
    <3>2. ASSUME NEW i \in DOMAIN queue' PROVE i \in DOMAIN queue \/ i = Len(queue) + 1
      BY <2>2, <3>1
    <3> QED
      BY <2>1, <2>2, <2>4, <3>1, <3>2
  <2>5. CASE queue # <<>> /\ last' = Head(queue) /\ queue' = Tail(queue)
    <3>1. /\ queue[1] \in Int /\ 1 \in DOMAIN queue
          /\ \A i \in DOMAIN queue' : i \in Nat /\ i + 1 \in DOMAIN queue /\ queue'[i] = queue[i + 1]
      BY <2>2, <2>5, FrontTaken, HeadTailProperties, LenProperties DEF TypeOK
    <3>2. ASSUME NEW i \in DOMAIN queue', NEW j \in DOMAIN queue', i < j
          PROVE  queue'[i] < queue'[j]
      BY <2>1, <3>1, <3>2
    <3>3. ASSUME NEW i \in DOMAIN queue'
          PROVE  last' < queue'[i]
      <4>1. 1 < i + 1 /\ i + 1 \in DOMAIN queue
        BY <2>2, <2>5, <3>1, FrontTaken, LenProperties DEF TypeOK
      <4> QED
        BY <2>1, <2>5, <3>1, <4>1, FrontTaken
    <3> QED
      BY <3>2, <3>3
  <2>6. CASE queue' = <<>>
    BY <2>6
  <2> QED
    BY <2>3, <2>4, <2>5, <2>6, StepItems
<1> QED
  BY <1>1, <1>2, TypeCorrect, PTL DEF Spec

-----------------------------------------------------------------------------
\* How many threads are at a place.
Count(f, place) == Cardinality({t \in Threads : f[t] = place})
One(p, q) == IF p = q THEN 1 ELSE 0

\* A thread that moves changes the number of threads at the two places.
LEMMA Move ==
  ASSUME NEW f \in [Threads -> PCs], NEW g \in [Threads -> PCs], NEW t \in Threads,
         \A v \in Threads \ {t} : g[v] = f[v],
         NEW place \in PCs
  PROVE  /\ Count(f, place) \in Nat
         /\ Count(g, place) = Count(f, place) + One(place, g[t]) - One(place, f[t])
<1> DEFINE S == {u \in Threads : f[u] = place}
           T == {u \in Threads : g[u] = place}
<1>1. IsFiniteSet(S) /\ Cardinality(S) \in Nat
  BY ThreadsAssumption, FS_Subset, FS_CardinalityType
<1>2. CASE place = g[t]
  <2>1. T = S \cup {t} /\ (t \in S <=> place = f[t])
    BY <1>2
  <2>2. Cardinality(S \cup {t}) = IF t \in S THEN Cardinality(S) ELSE Cardinality(S) + 1
    BY <1>1, FS_AddElement
  <2>3. Cardinality(T) = Cardinality(S \cup {t})
    BY Zenon, <2>1
  <2> QED
    BY <1>1, <1>2, <2>1, <2>2, <2>3 DEF Count, One
<1>3. CASE place # g[t]
  <2>1. T = S \ {t} /\ (t \in S <=> place = f[t])
    BY <1>3
  <2>2. Cardinality(T) = IF t \in S THEN Cardinality(S) - 1 ELSE Cardinality(S)
    BY <1>1, <2>1, FS_RemoveElement
  <2> QED
    BY <1>1, <1>3, <2>1, <2>2 DEF Count, One
<1> QED
  BY <1>2, <1>3

\* So do two threads that move.
LEMMA MoveTwo ==
  ASSUME NEW f \in [Threads -> PCs], NEW g \in [Threads -> PCs],
         NEW t \in Threads, NEW u \in Threads, t # u,
         \A v \in Threads \ {t, u} : g[v] = f[v],
         NEW place \in PCs
  PROVE  Count(g, place) = Count(f, place) + One(place, g[t]) - One(place, f[t])
                                           + One(place, g[u]) - One(place, f[u])
<1>1. PICK h \in [Threads -> PCs] : h = [f EXCEPT ![t] = g[t]]
  OBVIOUS
<1>2. /\ h[t] = g[t] /\ h[u] = f[u]
      /\ \A v \in Threads \ {t} : h[v] = f[v]
      /\ \A v \in Threads \ {u} : g[v] = h[v]
  BY <1>1
<1>3. /\ Count(f, place) \in Nat
      /\ Count(h, place) = Count(f, place) + One(place, h[t]) - One(place, f[t])
  BY <1>2, Move
<1>4. /\ Count(h, place) \in Nat
      /\ Count(g, place) = Count(h, place) + One(place, g[u]) - One(place, h[u])
  BY <1>2, Move
<1> QED
  BY <1>2, <1>3, <1>4 DEF One

\* The size of the set of threads at a place.
LEMMA Counted ==
  ASSUME NEW f \in [Threads -> PCs], NEW place \in PCs
  PROVE  /\ Count(f, place) \in Nat
         /\ Cardinality({t \in Threads : f[t] = place}) = Count(f, place)
         /\ {t \in Threads : f[t] = place} = {} <=> Count(f, place) = 0
<1>1. IsFiniteSet({t \in Threads : f[t] = place})
  BY ThreadsAssumption, FS_Subset
<1> QED
  BY <1>1, FS_EmptySet, FS_CardinalityType DEF Count

-----------------------------------------------------------------------------
\* A lost wakeup of a reader, in numbers of threads.
Readers(f, items) ==
  Count(f, "waitR") = 0 \/ items <= Count(f, "notifyR") + Count(f, "pop")

\* NoLostReader speaks of nothing but these numbers.
LEMMA ReadersCounted ==
  /\ TypeOK => (NoLostReader <=> Readers(pc, Len(queue)))
  /\ TypeOK' => (NoLostReader' <=> Readers(pc', Len(queue')))
<1>1. {"waitR", "notifyR", "pop"} \subseteq PCs
  BY DEF PCs
<1>2. ASSUME NEW f \in [Threads -> PCs], NEW items
      PROVE  Readers(f, items) <=>
               ({t \in Threads : f[t] = "waitR"} # {}
                  => items <= Cardinality({t \in Threads : f[t] = "notifyR"})
                                + Cardinality({t \in Threads : f[t] = "pop"}))
  BY <1>1, Counted DEF Readers
<1> QED
  BY <1>2 DEF TypeOK, NoLostReader, At

\* Moves between other places change nothing for the readers.
LEMMA OtherPlaces ==
  ASSUME NEW f \in [Threads -> PCs], NEW g \in [Threads -> PCs], NEW m, Readers(f, m),
         \A v \in Threads : \A place \in {"waitR", "notifyR", "pop"} :
           g[v] = place <=> f[v] = place
  PROVE  Readers(g, m)
<1>1. ASSUME NEW place \in {"waitR", "notifyR", "pop"}
      PROVE  {v \in Threads : g[v] = place} = {v \in Threads : f[v] = place}
  OBVIOUS
<1>2. ASSUME NEW place \in {"waitR", "notifyR", "pop"} PROVE Count(g, place) = Count(f, place)
  BY Zenon, <1>1 DEF Count
<1> QED
  BY <1>2 DEF Readers

\* What a thread that moves may do to the items without a reader being lost.
LEMMA ReaderMoves ==
  ASSUME NEW f \in [Threads -> PCs], NEW g \in [Threads -> PCs], NEW t \in Threads,
         \A v \in Threads \ {t} : g[v] = f[v],
         NEW m \in Nat, NEW n \in Nat, Readers(f, m),
         \/ n = m /\ f[t] \notin {"notifyR", "pop"} /\ g[t] # "waitR"
         \/ n = m + 1 /\ f[t] = "push" /\ g[t] = "notifyR"
         \/ n = m - 1 /\ f[t] = "pop" /\ g[t] # "waitR"
  PROVE  Readers(g, n)
<1>1. "waitR" \in PCs /\ "notifyR" \in PCs /\ "pop" \in PCs
  BY DEF PCs
<1>2. /\ Count(f, "waitR") \in Nat
      /\ Count(g, "waitR") = Count(f, "waitR") + One("waitR", g[t]) - One("waitR", f[t])
  BY <1>1, Move
<1>3. /\ Count(f, "notifyR") \in Nat
      /\ Count(g, "notifyR") = Count(f, "notifyR") + One("notifyR", g[t]) - One("notifyR", f[t])
  BY <1>1, Move
<1>4. /\ Count(f, "pop") \in Nat
      /\ Count(g, "pop") = Count(f, "pop") + One("pop", g[t]) - One("pop", f[t])
  BY <1>1, Move
<1>5. Count(g, "waitR") \in Nat
  BY <1>1, Counted
<1> QED
  BY <1>2, <1>3, <1>4, <1>5 DEF Readers, One

\* A woken reader takes the place of the notification.
LEMMA ReaderWakes ==
  ASSUME NEW f \in [Threads -> PCs], NEW g \in [Threads -> PCs],
         NEW t \in Threads, NEW u \in Threads,
         \A v \in Threads \ {t, u} : g[v] = f[v],
         NEW m \in Nat, Readers(f, m),
         f[t] = "notifyR" /\ g[t] = "idle" /\ f[u] = "waitR" /\ g[u] = "pop"
  PROVE  Readers(g, m)
<1>1. "waitR" \in PCs /\ "notifyR" \in PCs /\ "pop" \in PCs /\ t # u
  BY DEF PCs
<1>2. /\ Count(f, "waitR") \in Nat
      /\ Count(f, "notifyR") \in Nat
      /\ Count(f, "pop") \in Nat
      /\ Count(g, "waitR") \in Nat
  BY <1>1, Counted
<1>3. /\ Count(g, "notifyR") = Count(f, "notifyR") + One("notifyR", g[t]) - One("notifyR", f[t])
                               + One("notifyR", g[u]) - One("notifyR", f[u])
      /\ Count(g, "waitR") = Count(f, "waitR") + One("waitR", g[t]) - One("waitR", f[t])
                               + One("waitR", g[u]) - One("waitR", f[u])
      /\ Count(g, "pop") = Count(f, "pop") + One("pop", g[t]) - One("pop", f[t])
                               + One("pop", g[u]) - One("pop", f[u])
  BY <1>1, MoveTwo
<1> QED
  BY <1>2, <1>3 DEF Readers, One

\* push notifies after the mutex is released and a woken reader has to take the
\* mutex again; still no reader waits beside an item for which nobody comes.
THEOREM ReadersWoken == Spec => []NoLostReader
<1>1. Init => NoLostReader
  BY DEF Init, NoLostReader, At
<1>2. TypeOK /\ TypeOK' /\ NoLostReader /\ [Next]_vars => NoLostReader'
  <2> SUFFICES ASSUME TypeOK, TypeOK', NoLostReader, [Next]_vars
               PROVE  Readers(pc', Len(queue'))
    BY ReadersCounted
  <2>0. /\ pc \in [Threads -> PCs] /\ pc' \in [Threads -> PCs]
        /\ Len(queue) \in Nat /\ Len(queue') \in Nat
        /\ Readers(pc, Len(queue))
    BY ReadersCounted, LenProperties DEF TypeOK
  <2>z. Len(queue') = 0 => Readers(pc', Len(queue'))
    <3>1. "notifyR" \in PCs /\ "pop" \in PCs
      BY DEF PCs
    <3>2. Count(pc', "notifyR") \in Nat /\ Count(pc', "pop") \in Nat
      BY <2>0, <3>1, Counted
    <3> QED
      BY <3>2 DEF Readers
  <2>u. CASE UNCHANGED <<queue, pc>>
    BY <2>0, <2>u
  <2>1. ASSUME NEW t \in Threads, Call(t) \/ Spurious(t) PROVE Readers(pc', Len(queue'))
    <3>1. /\ UNCHANGED queue /\ \A v \in Threads \ {t} : pc'[v] = pc[v]
          /\ pc[t] \notin {"notifyR", "pop"} /\ pc'[t] # "waitR"
      BY <2>0, <2>1 DEF Call, Spurious, Goto
    <3> QED
      BY <2>0, <3>1, ReaderMoves
  <2>2. ASSUME NEW t \in Threads, Push(t) PROVE Readers(pc', Len(queue'))
    <3>1. /\ \A v \in Threads \ {t} : pc'[v] = pc[v] 
          /\ pc[t] = "push"
          /\ \/ pc'[t] = "waitW" /\ UNCHANGED queue
             \/ pc'[t] = "notifyR" /\ queue' = Append(queue, accepted')
      BY <2>0, <2>2 DEF Push, Goto
    <3>2. queue' = Append(queue, accepted') => Len(queue') = Len(queue) + 1
      BY DEF TypeOK
    <3> QED
      BY <2>0, <3>1, <3>2, ReaderMoves
  <2>3. ASSUME NEW t \in Threads, Pop(t) \/ PopThrows(t) PROVE Readers(pc', Len(queue'))
    <3>1. CASE queue = <<>>
      BY <2>3, <2>z, <3>1, EmptySeq DEF Pop, PopThrows
    <3>2. CASE queue # <<>>
      <4>1. /\ \A v \in Threads \ {t} : pc'[v] = pc[v]
            /\ pc[t] = "pop" /\ pc'[t] # "waitR" /\ queue' = Tail(queue)
        BY <2>0, <2>3, <3>2 DEF Pop, PopThrows, Goto
      <4>2. Len(queue') = Len(queue) - 1
        BY <3>2, <4>1, FrontTaken
      <4> QED
        BY <2>0, <4>1, <4>2, ReaderMoves
    <3> QED
      BY <3>1, <3>2
  <2>4. ASSUME NEW t \in Threads, Clear(t) PROVE Readers(pc', Len(queue'))
    BY <2>4, <2>z, EmptySeq DEF Clear
  <2>5. ASSUME NEW t \in Threads, NotifyReader(t) PROVE Readers(pc', Len(queue'))
    <3>1. pc[t] = "notifyR" /\ UNCHANGED queue
      BY <2>5 DEF NotifyReader, NotifyOne
    <3>2. CASE At("waitR") = {}
      <4>1. \A v \in Threads : pc'[v] # "waitR"
        BY <2>0, <2>5, <3>2 DEF NotifyReader, NotifyOne, At
      <4>2. "waitR" \in PCs /\ {v \in Threads : pc'[v] = "waitR"} = {}
        BY <4>1 DEF PCs
      <4> QED
        BY <2>0, <4>2, Counted DEF Readers
    <3>3. CASE At("waitR") # {}
      <4>1. PICK u \in Threads : pc[u] = "waitR" /\ pc' = [pc EXCEPT ![t] = "idle", ![u] = "pop"]
        BY <2>5, <3>3 DEF NotifyReader, NotifyOne, At
      <4>2. /\ pc'[t] = "idle" /\ pc'[u] = "pop"
            /\ \A v \in Threads \ {t, u} : pc'[v] = pc[v]
        BY <2>0, <3>1, <4>1
      <4> QED
        BY <2>0, <3>1, <4>1, <4>2, ReaderWakes
    <3> QED
      BY <3>2, <3>3
  <2>6. ASSUME NEW t \in Threads, NotifyWriter(t) PROVE Readers(pc', Len(queue'))
    <3>1. CASE At("waitW") = {}
      <4>1. /\ UNCHANGED queue /\ \A v \in Threads \ {t} : pc'[v] = pc[v]
            /\ pc[t] = "notifyW" /\ pc'[t] = "idle"
        BY <2>0, <2>6, <3>1 DEF NotifyWriter, NotifyOne
      <4> QED
        BY <2>0, <4>1, ReaderMoves
    <3>2. CASE At("waitW") # {}
      <4>1. PICK u \in At("waitW") : pc' = [pc EXCEPT ![t] = "idle", ![u] = "push"]
        BY <2>6, <3>2 DEF NotifyWriter, NotifyOne
      <4>2. /\ UNCHANGED queue
            /\ \A v \in Threads : \A place \in {"waitR", "notifyR", "pop"} :
                 pc'[v] = place <=> pc[v] = place
        BY <2>0, <2>6, <4>1 DEF NotifyWriter, NotifyOne, At
      <4> QED
        BY <2>0, <4>2, OtherPlaces
    <3> QED
      BY <3>1, <3>2
  <2>7. ASSUME NEW t \in Threads, NotifyWriters(t) PROVE Readers(pc', Len(queue'))
    <3>1. /\ UNCHANGED queue
          /\ \A v \in Threads : \A place \in {"waitR", "notifyR", "pop"} :
               pc'[v] = place <=> pc[v] = place
      BY <2>0, <2>7 DEF NotifyWriters
    <3> QED
      BY <2>0, <3>1, OtherPlaces
  <2>8. ASSUME NEW t \in Threads, Resize(t) \/ RemoveIf(t) PROVE Readers(pc', Len(queue'))
    <3>1. UNCHANGED pc /\ Len(queue') = Len(queue)
      BY <2>8, Removed DEF Resize, RemoveIf
    <3> QED
      BY <2>0, <3>1
  <2> QED
    BY <2>u, <2>1, <2>2, <2>3, <2>4, <2>5, <2>6, <2>7, <2>8 DEF Next, vars
<1> QED
  BY <1>1, <1>2, TypeCorrect, PTL DEF Spec

-----------------------------------------------------------------------------
\* The same for writers, in numbers of threads and of free places.
Writers(f, places) ==
  Count(f, "waitW") = 0 \/ places <= Count(f, "notifyW") + Count(f, "push")

\* What NoLostWriter excludes.
Excused(f, h) == h \cap {"grown", "threw"} # {} \/ \E t \in Threads : f[t] = "notifyAllW"

\* NoLostWriter speaks of nothing but these numbers.
LEMMA WritersCounted ==
  /\ TypeOK => (NoLostWriter <=> Excused(pc, happened) \/ Writers(pc, capacity - Len(queue)))
  /\ TypeOK' => (NoLostWriter' <=> Excused(pc', happened') \/ Writers(pc', capacity' - Len(queue')))
<1>1. {"waitW", "notifyW", "push"} \subseteq PCs
  BY DEF PCs
<1>2. ASSUME NEW f \in [Threads -> PCs], NEW places
      PROVE  Writers(f, places) <=>
               ({t \in Threads : f[t] = "waitW"} # {}
                  => places <= Cardinality({t \in Threads : f[t] = "notifyW"})
                                + Cardinality({t \in Threads : f[t] = "push"}))
  BY <1>1, Counted DEF Writers
<1> QED
  BY <1>2 DEF TypeOK, NoLostWriter, At, Excused

\* Moves between other places change nothing for the writers.
LEMMA WriterOtherPlaces ==
  ASSUME NEW f \in [Threads -> PCs], NEW g \in [Threads -> PCs], NEW m, Writers(f, m),
         \A v \in Threads : \A place \in {"waitW", "notifyW", "push"} :
           g[v] = place <=> f[v] = place
  PROVE  Writers(g, m)
<1>1. ASSUME NEW place \in {"waitW", "notifyW", "push"}
      PROVE  {v \in Threads : g[v] = place} = {v \in Threads : f[v] = place}
  OBVIOUS
<1>2. ASSUME NEW place \in {"waitW", "notifyW", "push"} PROVE Count(g, place) = Count(f, place)
  BY Zenon, <1>1 DEF Count
<1> QED
  BY <1>2 DEF Writers

\* What a thread that moves may do to the free places without a writer being lost.
LEMMA WriterMoves ==
  ASSUME NEW f \in [Threads -> PCs], NEW g \in [Threads -> PCs], NEW t \in Threads,
         \A v \in Threads \ {t} : g[v] = f[v],
         NEW m \in Int, NEW n \in Int, Writers(f, m),
         \/ n <= m /\ f[t] \notin {"notifyW", "push"} /\ g[t] # "waitW"
         \/ n = m + 1 /\ f[t] = "pop" /\ g[t] = "notifyW"
         \/ n = m - 1 /\ f[t] = "push" /\ g[t] # "waitW"
  PROVE  Writers(g, n)
<1>1. "waitW" \in PCs /\ "notifyW" \in PCs /\ "push" \in PCs
  BY DEF PCs
<1>2. /\ Count(f, "waitW") \in Nat
      /\ Count(g, "waitW") = Count(f, "waitW") + One("waitW", g[t]) - One("waitW", f[t])
  BY <1>1, Move
<1>3. /\ Count(f, "notifyW") \in Nat
      /\ Count(g, "notifyW") = Count(f, "notifyW") + One("notifyW", g[t]) - One("notifyW", f[t])
  BY <1>1, Move
<1>4. /\ Count(f, "push") \in Nat
      /\ Count(g, "push") = Count(f, "push") + One("push", g[t]) - One("push", f[t])
  BY <1>1, Move
<1>5. Count(g, "waitW") \in Nat
  BY <1>1, Counted
<1> QED
  BY <1>2, <1>3, <1>4, <1>5 DEF Writers, One

\* A woken writer takes the place of the notification.
LEMMA WriterWakes ==
  ASSUME NEW f \in [Threads -> PCs], NEW g \in [Threads -> PCs],
         NEW t \in Threads, NEW u \in Threads,
         \A v \in Threads \ {t, u} : g[v] = f[v],
         NEW m \in Int, Writers(f, m),
         f[t] = "notifyW" /\ g[t] = "idle" /\ f[u] = "waitW" /\ g[u] = "push"
  PROVE  Writers(g, m)
<1>1. "waitW" \in PCs /\ "notifyW" \in PCs /\ "push" \in PCs /\ t # u
  BY DEF PCs
<1>2. /\ Count(f, "waitW") \in Nat
      /\ Count(f, "notifyW") \in Nat
      /\ Count(f, "push") \in Nat
      /\ Count(g, "waitW") \in Nat
  BY <1>1, Counted
<1>3. /\ Count(g, "notifyW") = Count(f, "notifyW") + One("notifyW", g[t]) - One("notifyW", f[t])
                               + One("notifyW", g[u]) - One("notifyW", f[u])
      /\ Count(g, "waitW") = Count(f, "waitW") + One("waitW", g[t]) - One("waitW", f[t])
                               + One("waitW", g[u]) - One("waitW", f[u])
      /\ Count(g, "push") = Count(f, "push") + One("push", g[t]) - One("push", f[t])
                               + One("push", g[u]) - One("push", f[u])
  BY <1>1, MoveTwo
<1> QED
  BY <1>2, <1>3 DEF Writers, One

\* No writer waits beside a free place for which nobody comes, unless the queue
\* has grown, a callback has thrown, or clear is about to wake everybody.
THEOREM WritersWoken == Spec => []NoLostWriter
<1>1. Init => NoLostWriter
  BY DEF Init, NoLostWriter, At
<1>2. TypeOK /\ TypeOK' /\ NoLostWriter /\ [Next]_vars => NoLostWriter'
  <2> DEFINE free == capacity - Len(queue)
             Goal == Excused(pc', happened') \/ Writers(pc', capacity' - Len(queue'))
  <2> SUFFICES ASSUME TypeOK, TypeOK', NoLostWriter, [Next]_vars
               PROVE  Goal
    BY WritersCounted
  <2>0. /\ pc \in [Threads -> PCs] /\ pc' \in [Threads -> PCs]
        /\ Len(queue) \in Nat /\ Len(queue') \in Nat
        /\ capacity \in Nat /\ capacity' \in Nat
        /\ Excused(pc, happened) \/ Writers(pc, free)
    BY WritersCounted, LenProperties DEF TypeOK
  <2>h. happened \subseteq happened'
    BY StepTroubles
  <2>e. ASSUME \A v \in Threads : pc[v] = "notifyAllW" => pc'[v] = "notifyAllW",
               ~Writers(pc, free)
        PROVE  Goal
    BY <2>0, <2>h, <2>e DEF Excused
  <2>u. CASE UNCHANGED <<queue, pc, capacity, happened>>
    BY <2>0, <2>u
  <2>1. ASSUME NEW t \in Threads, Call(t) \/ Spurious(t) PROVE Goal
    <3>1. /\ UNCHANGED <<queue, capacity>> /\ \A v \in Threads \ {t} : pc'[v] = pc[v]
          /\ pc[t] \notin {"notifyW", "push", "notifyAllW"} /\ pc'[t] # "waitW"
      BY <2>0, <2>1 DEF Call, Spurious, Goto
    <3>2. free = capacity' - Len(queue') /\ free \in Int
      BY <2>0, <3>1
    <3>3. Writers(pc, free) => Writers(pc', capacity' - Len(queue'))
      BY <2>0, <3>1, <3>2, WriterMoves
    <3> QED
      BY <2>e, <3>1, <3>3
  <2>2. ASSUME NEW t \in Threads, Push(t) PROVE Goal
    <3>0. UNCHANGED capacity /\ pc[t] = "push" /\ \A v \in Threads \ {t} : pc'[v] = pc[v]
      BY <2>0, <2>2 DEF Push, Goto
    <3>1. CASE Len(queue) >= capacity
      <4>1. UNCHANGED queue
        BY <2>2, <3>1 DEF Push
      <4>2. "push" \in PCs /\ "notifyW" \in PCs
        BY DEF PCs
      <4>3. Count(pc', "notifyW") \in Nat /\ Count(pc', "push") \in Nat
        BY <2>0, <4>2, Counted
      <4> QED
        BY <2>0, <3>0, <3>1, <4>1, <4>3 DEF Writers
    <3>2. CASE ~(Len(queue) >= capacity)
      <4>1. pc'[t] = "notifyR" /\ queue' = Append(queue, accepted')
        BY <2>0, <2>2, <3>2 DEF Push, Goto
      <4>2. capacity' - Len(queue') = free - 1 /\ free \in Int
        BY <2>0, <3>0, <4>1 DEF TypeOK
      <4>3. Writers(pc, free) => Writers(pc', capacity' - Len(queue'))
        BY <2>0, <3>0, <4>1, <4>2, WriterMoves
      <4> QED
        BY <2>e, <3>0, <4>3
    <3> QED
      BY <3>1, <3>2
  <2>3. ASSUME NEW t \in Threads, Pop(t) PROVE Goal
    <3>0. UNCHANGED capacity /\ pc[t] = "pop" /\ \A v \in Threads \ {t} : pc'[v] = pc[v]
      BY <2>0, <2>3 DEF Pop, Goto
    <3>1. CASE queue = <<>>
      <4>1. pc'[t] = "waitR" /\ UNCHANGED queue
        BY <2>0, <2>3, <3>1 DEF Pop, Goto
      <4>2. capacity' - Len(queue') = free /\ free \in Int
        BY <2>0, <3>0, <4>1
      <4>3. Writers(pc, free) => Writers(pc', capacity' - Len(queue'))
        BY <2>0, <3>0, <4>1, <4>2, WriterMoves
      <4> QED
        BY <2>e, <3>0, <4>3
    <3>2. CASE queue # <<>>
      <4>1. pc'[t] = "notifyW" /\ queue' = Tail(queue)
        BY <2>0, <2>3, <3>2 DEF Pop, Goto
      <4>2. capacity' - Len(queue') = free + 1 /\ free \in Int
        BY <2>0, <3>0, <3>2, <4>1, FrontTaken
      <4>3. Writers(pc, free) => Writers(pc', capacity' - Len(queue'))
        BY <2>0, <3>0, <4>1, <4>2, WriterMoves
      <4> QED
        BY <2>e, <3>0, <4>3
    <3> QED
      BY <3>1, <3>2
  <2>4. ASSUME NEW t \in Threads, PopThrows(t) PROVE Goal
    BY <2>4 DEF PopThrows, Excused
  <2>5. ASSUME NEW t \in Threads, Clear(t) PROVE Goal
    <3>1. pc'[t] = "notifyAllW"
      BY <2>0, <2>5 DEF Clear, Goto
    <3> QED
      BY <3>1 DEF Excused
  <2>6. ASSUME NEW t \in Threads, NotifyReader(t) PROVE Goal
    <3>0. UNCHANGED <<queue, capacity>> /\ pc[t] = "notifyR"
      BY <2>6 DEF NotifyReader, NotifyOne
    <3>1. /\ \A v \in Threads : pc[v] = "notifyAllW" => pc'[v] = "notifyAllW"
          /\ \A v \in Threads : \A place \in {"waitW", "notifyW", "push"} :
               pc'[v] = place <=> pc[v] = place
      BY <2>0, <2>6, <3>0 DEF NotifyReader, NotifyOne, At
    <3>2. Writers(pc, free) => Writers(pc', free)
      BY <2>0, <3>1, WriterOtherPlaces
    <3> QED
      BY <2>e, <3>0, <3>1, <3>2
  <2>7. ASSUME NEW t \in Threads, NotifyWriter(t) PROVE Goal
    <3>0. UNCHANGED <<queue, capacity>> /\ pc[t] = "notifyW"
      BY <2>7 DEF NotifyWriter, NotifyOne
    <3>1. CASE At("waitW") = {}
      <4>1. \A v \in Threads : pc'[v] # "waitW"
        BY <2>0, <2>7, <3>1 DEF NotifyWriter, NotifyOne, At
      <4>2. "waitW" \in PCs /\ {v \in Threads : pc'[v] = "waitW"} = {}
        BY <4>1 DEF PCs
      <4> QED
        BY <2>0, <4>2, Counted DEF Writers
    <3>2. CASE At("waitW") # {}
      <4>1. PICK u \in Threads : pc[u] = "waitW" /\ pc' = [pc EXCEPT ![t] = "idle", ![u] = "push"]
        BY <2>7, <3>2 DEF NotifyWriter, NotifyOne, At
      <4>2. /\ pc'[t] = "idle" /\ pc'[u] = "push"
            /\ \A v \in Threads \ {t, u} : pc'[v] = pc[v]
        BY <2>0, <3>0, <4>1
      <4>3. free \in Int
        BY <2>0
      <4>4. Writers(pc, free) => Writers(pc', free)
        BY <2>0, <3>0, <4>1, <4>2, <4>3, WriterWakes
      <4>5. \A v \in Threads : pc[v] = "notifyAllW" => pc'[v] = "notifyAllW"
        BY <3>0, <4>1, <4>2
      <4> QED
        BY <2>e, <3>0, <4>4, <4>5
    <3> QED
      BY <3>1, <3>2
  <2>8. ASSUME NEW t \in Threads, NotifyWriters(t) PROVE Goal
    <3>1. \A v \in Threads : pc'[v] # "waitW"
      BY <2>0, <2>8 DEF NotifyWriters
    <3>2. "waitW" \in PCs /\ {v \in Threads : pc'[v] = "waitW"} = {}
      BY <3>1 DEF PCs
    <3> QED
      BY <2>0, <3>2, Counted DEF Writers
  <2>9. ASSUME NEW t \in Threads, Resize(t) PROVE Goal
    <3>1. "grown" \in happened' \/ capacity' <= capacity
      BY <2>9, StepTroubles DEF Resize
    <3>2. UNCHANGED <<queue, pc>> /\ pc[t] = "idle"
      BY <2>9 DEF Resize
    <3>3. CASE "grown" \in happened'
      BY <3>3 DEF Excused
    <3>4. CASE capacity' <= capacity
      <4>1. capacity' - Len(queue') \in Int /\ free \in Int /\ capacity' - Len(queue') <= free
        BY <2>0, <3>2, <3>4
      <4>2. Writers(pc, free) => Writers(pc', capacity' - Len(queue'))
        BY <2>0, <3>2, <4>1, WriterMoves
      <4> QED
        BY <2>e, <3>2, <4>2
    <3> QED
      BY <3>1, <3>3, <3>4
  <2>10. ASSUME NEW t \in Threads, RemoveIf(t) PROVE Goal
    <3>1. UNCHANGED <<pc, capacity>> /\ Len(queue') = Len(queue)
      BY <2>10, Removed DEF RemoveIf
    <3> QED
      BY <2>0, <2>h, <3>1 DEF Excused
  <2> QED
    BY <2>u, <2>1, <2>2, <2>3, <2>4, <2>5, <2>6, <2>7, <2>8, <2>9, <2>10 DEF Next, vars
<1> QED
  BY <1>1, <1>2, TypeCorrect, PTL DEF Spec
=============================================================================
