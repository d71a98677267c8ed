-------------------------- MODULE ConcurrentQueue --------------------------
(***************************************************************************)
(* concurrent_queue (include/common/concurrent_queue.h): a bounded deque,  *)
(* one mutex and two condition variables.                                  *)
(*                                                                         *)
(* A step is one critical section of the mutex or one notification, which  *)
(* the code sends after the mutex is released.  Waiting releases the mutex *)
(* and joins the wait set in one step; a woken thread, also one that woke  *)
(* for no reason, tests its condition again.  An item is the number with   *)
(* which it was accepted.                                                  *)
(***************************************************************************)
EXTENDS Integers, Sequences, FiniteSets

CONSTANTS
  Threads,     \* the threads that use the queue
  Capacities,  \* the capacities a caller may choose
  MaxItems     \* bound: how many items are pushed

ASSUME BoundsAssumption == Capacities \subseteq Nat /\ MaxItems \in Nat
ASSUME ThreadsAssumption == IsFiniteSet(Threads)

VARIABLES
  queue,     \* queue_
  capacity,  \* capacity_
  pc,        \* where a thread is in its operation
  accepted,  \* the number of items pushed so far
  last,      \* the item popped last, 0 before the first
  happened   \* which of Troubles the callers have caused

vars == <<queue, capacity, pc, accepted, last, happened>>

\* A capacity that grows, one that shrinks, a callback of pop that throws, and
\* a remove_if.
Troubles == {"grown", "shrunk", "threw", "removed"}

At(place) == {t \in Threads : pc[t] = place}

Init ==
  /\ queue = <<>>
  /\ capacity \in Capacities
  /\ pc = [t \in Threads |-> "idle"]
  /\ accepted = 0
  /\ last = 0
  /\ happened = {}

Goto(t, from, to) == pc[t] = from /\ pc' = [pc EXCEPT ![t] = to]

-----------------------------------------------------------------------------
\* A caller calls push (not more than MaxItems times) or pop: it is now after
\* the mutex.
Call(t) ==
  /\ \/ /\ Goto(t, "idle", "push")
        /\ accepted + Cardinality(At("push") \cup At("waitW")) < MaxItems
     \/ Goto(t, "idle", "pop")
  /\ UNCHANGED <<queue, capacity, accepted, last, happened>>

\* MUTANT of Push: the capacity is tested off by one.
PushOver(t) ==
  /\ IF Len(queue) > capacity
     THEN /\ Goto(t, "push", "waitW")
          /\ UNCHANGED <<queue, accepted>>
     ELSE /\ Goto(t, "push", "notifyR")
          /\ accepted' = accepted + 1
          /\ queue' = Append(queue, accepted')
  /\ UNCHANGED <<capacity, last, happened>>

\* MUTANT of Push: a reader is notified only when the queue was empty.
PushQuiet(t) ==
  /\ IF Len(queue) >= capacity
     THEN /\ Goto(t, "push", "waitW")
          /\ UNCHANGED <<queue, accepted>>
     ELSE /\ Goto(t, "push", IF queue = <<>> THEN "notifyR" ELSE "idle")
          /\ accepted' = accepted + 1
          /\ queue' = Append(queue, accepted')
  /\ UNCHANGED <<capacity, last, happened>>

\* push under the mutex: wait while full, or append.
Push(t) ==
  /\ IF Len(queue) >= capacity
     THEN /\ Goto(t, "push", "waitW")
          /\ UNCHANGED <<queue, accepted>>
     ELSE /\ Goto(t, "push", "notifyR")
          /\ accepted' = accepted + 1
          /\ queue' = Append(queue, accepted')
  /\ UNCHANGED <<capacity, last, happened>>

\* MUTANT of Pop: the item is taken from the back.
PopBack(t) ==
  /\ IF queue = <<>>
     THEN /\ Goto(t, "pop", "waitR")
          /\ UNCHANGED <<queue, last>>
     ELSE /\ Goto(t, "pop", "notifyW")
          /\ last' = queue[Len(queue)]
          /\ queue' = SubSeq(queue, 1, Len(queue) - 1)
  /\ UNCHANGED <<capacity, accepted, happened>>

\* MUTANT of Pop: a writer is notified only when the queue was full.
PopQuiet(t) ==
  /\ IF queue = <<>>
     THEN /\ Goto(t, "pop", "waitR")
          /\ UNCHANGED <<queue, last>>
     ELSE /\ Goto(t, "pop", IF Len(queue) = capacity THEN "notifyW" ELSE "idle")
          /\ last' = Head(queue)
          /\ queue' = Tail(queue)
  /\ UNCHANGED <<capacity, accepted, happened>>

\* pop under the mutex, with the callback if there is one: wait while empty,
\* or take the front.
Pop(t) ==
  /\ IF queue = <<>>
     THEN /\ Goto(t, "pop", "waitR")
          /\ UNCHANGED <<queue, last>>
     ELSE /\ Goto(t, "pop", "notifyW")
          /\ last' = Head(queue)
          /\ queue' = Tail(queue)
  /\ UNCHANGED <<capacity, accepted, happened>>

\* The callback of pop throws after the front is gone: no writer is notified.
PopThrows(t) ==
  /\ queue # <<>>
  /\ Goto(t, "pop", "idle")
  /\ last' = Head(queue)
  /\ queue' = Tail(queue)
  /\ happened' = happened \cup {"threw"}
  /\ UNCHANGED <<capacity, accepted>>

\* clear under the mutex.
Clear(t) ==
  /\ Goto(t, "idle", "notifyAllW")
  /\ queue' = <<>>
  /\ UNCHANGED <<capacity, accepted, last, happened>>

-----------------------------------------------------------------------------
\* notify_one: some thread of the wait set goes back to its test, if any waits.
NotifyOne(t, from, waiting, test) ==
  /\ pc[t] = from
  /\ IF At(waiting) = {}
     THEN pc' = [pc EXCEPT ![t] = "idle"]
     ELSE \E u \in At(waiting) : pc' = [pc EXCEPT ![t] = "idle", ![u] = test]
  /\ UNCHANGED <<queue, capacity, accepted, last, happened>>

NotifyReader(t) == NotifyOne(t, "notifyR", "waitR", "pop")

\* MUTANT of NotifyWriter: pop notifies the other condition variable.
NotifyWrong(t) == NotifyOne(t, "notifyW", "waitR", "pop")

NotifyWriter(t) == NotifyOne(t, "notifyW", "waitW", "push")

\* The notify_all of clear.
NotifyWriters(t) ==
  /\ pc[t] = "notifyAllW"
  /\ pc' = [u \in Threads |-> IF u = t THEN "idle"
                              ELSE IF pc[u] = "waitW" THEN "push" ELSE pc[u]]
  /\ UNCHANGED <<queue, capacity, accepted, last, happened>>

\* A wait may end without a notification.
Spurious(t) ==
  /\ \/ Goto(t, "waitR", "pop")
     \/ Goto(t, "waitW", "push")
  /\ UNCHANGED <<queue, capacity, accepted, last, happened>>

-----------------------------------------------------------------------------
\* resize takes no mutex and wakes nobody.
Resize(t) ==
  /\ pc[t] = "idle"
  /\ capacity' \in Capacities \ {capacity}
  /\ happened' = happened \cup {IF capacity' > capacity THEN "grown" ELSE "shrunk"}
  /\ UNCHANGED <<queue, pc, accepted, last>>

\* The places of the items that stay, in their order.
Staying(gone) ==
  LET stay == {i \in DOMAIN queue : queue[i] \notin gone} IN
  {at \in UNION {[1 .. n -> stay] : n \in 0 .. Len(queue)} :
     /\ \A i \in stay : \E j \in DOMAIN at : at[j] = i
     /\ \A i, j \in DOMAIN at : i < j => at[i] < at[j]}

\* remove_if and remove_if_when do not erase: what is kept moves to the front,
\* the last places keep what they held.
RemoveIf(t) ==
  /\ pc[t] = "idle"
  /\ \E gone \in SUBSET {queue[i] : i \in DOMAIN queue} \ {{}} : \E at \in Staying(gone) :
       queue' = [i \in DOMAIN queue |-> queue[IF i \in DOMAIN at THEN at[i] ELSE i]]
  /\ happened' = happened \cup {"removed"}
  /\ UNCHANGED <<capacity, pc, accepted, last>>

-----------------------------------------------------------------------------
\* The steps of a thread that is inside an operation and not waiting.
Run(t) == Push(t) \/ Pop(t) \/ NotifyReader(t) \/ NotifyWriter(t) \/ NotifyWriters(t)

Next == \E t \in Threads :
  \/ Call(t) \/ Push(t) \/ Pop(t) \/ PopThrows(t) \/ Clear(t)
  \/ NotifyReader(t) \/ NotifyWriter(t) \/ NotifyWriters(t)
  \/ Spurious(t) \/ Resize(t) \/ RemoveIf(t)

Spec == Init /\ [][Next]_vars

\* A thread that holds or wants the mutex is scheduled, callbacks return.
FairSpec == Spec /\ \A t \in Threads : WF_vars(Run(t))

-----------------------------------------------------------------------------
PCs == {"idle", "push", "pop", "waitW", "waitR", "notifyR", "notifyW", "notifyAllW"}

\* The ranges of the variables; an item carries a number that was given out.
TypeOK ==
  /\ queue \in Seq(1 .. accepted)
  /\ capacity \in Nat
  /\ pc \in [Threads -> PCs]
  /\ accepted \in Nat
  /\ last \in 0 .. accepted
  /\ happened \subseteq Troubles

\* push keeps the capacity whoever else pushes, unless it shrinks meanwhile.
CapacityKept == TypeOK /\ ("shrunk" \notin happened => Len(queue) <= capacity)

\* Items leave in the order in which they were accepted and no item is left
\* behind or delivered twice, as long as nobody calls remove_if.
InOrder ==
  "removed" \notin happened =>
    /\ \A i, j \in DOMAIN queue : i < j => queue[i] < queue[j]
    /\ \A i \in DOMAIN queue : last < queue[i]

\* A reader waits beside items only while as many readers as there are items
\* are on their way to the mutex or will be sent there: no wakeup is lost,
\* although push notifies after it released the mutex.
NoLostReader ==
  At("waitR") # {} => Len(queue) <= Cardinality(At("notifyR")) + Cardinality(At("pop"))

\* The same for writers beside free places.  A capacity that grows and a
\* callback that throws do lose wakeups.
NoLostWriter ==
  /\ happened \cap {"grown", "threw"} = {}
  /\ At("waitW") # {}
  /\ At("notifyAllW") = {}
  => capacity - Len(queue) <= Cardinality(At("notifyW")) + Cardinality(At("push"))

\* Nobody is stranded: readers do not wait beside items for ever, and writers not
\* beside free places, unless somebody grows the queue or a callback throws.
NobodyStranded ==
  /\ (At("waitR") # {} /\ queue # <<>>) ~> (At("waitR") = {} \/ queue = <<>>)
  /\ (At("waitW") # {} /\ Len(queue) < capacity)
       ~> (At("waitW") = {} \/ Len(queue) >= capacity \/ happened \cap {"grown", "threw"} # {})
=============================================================================
