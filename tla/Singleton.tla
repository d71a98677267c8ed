----------------------------- MODULE Singleton -----------------------------
(***************************************************************************)
(* The singleton registry of include/pattern/singleton.hpp: CallOnce and   *)
(* ResetOnce (a portable pthread_once with a busy loop), the finalizer     *)
(* table guarded by g_mutex, and Singleton<T>::get / Finalize on top.      *)
(*                                                                         *)
(* Threads interleave at every access to a shared variable.  Every use of  *)
(* CallOnce (for an instance, for the mutex, for Finalize) goes through    *)
(* the same four steps, told apart by on[t], the once_t it works on.       *)
(* A step with undefined behaviour (a lock through a null g_mutex, a call  *)
(* through an unwritten table entry) takes the thread to "fault", and the  *)
(* process stops.                                                          *)
(***************************************************************************)
EXTENDS Integers

CONSTANTS
  Threads,        \* the threads of the process
  Closers,        \* those among them that call Finalize
  Classes,        \* the types T for which Singleton<T> is used
  Failing,        \* those among them whose constructor may throw
  MaxFinalizers,  \* kMaxFinalizersSize, 256 in the code
  Apart,          \* TRUE: callers run Finalize while no instance is in use
  Last            \* TRUE: callers make no get() once Finalize has begun

Mutex == "g_mutex_once"
Final == "g_singleton_finalize_once"
Onces == Classes \cup {Mutex, Final}
None  == "NULL"
Free  == "free"

ASSUME ThreadsAssumption == Closers \subseteq Threads /\ {None, Free} \cap Threads = {}
ASSUME ClassesAssumption == Failing \subseteq Classes /\ {Mutex, Final, None} \cap Classes = {}
ASSUME MaxAssumption     == MaxFinalizers \in Nat
ASSUME CallersAssumption == Apart \in BOOLEAN /\ Last \in BOOLEAN

VARIABLES
  done,      \* once->state = ONCE_DONE, for every once_t
  taken,     \* once->counter = 1, for every once_t
  pc,        \* where each thread is
  on,        \* the once_t a thread's innermost CallOnce works on
  cls,       \* the T of the get() a thread is in
  instance,  \* Singleton<T>::instance_: 0 for NULL, n for the n-th object
  made,      \* how many objects of type T were constructed
  live,      \* the objects of type T not yet destroyed
  got,       \* what the last get() of a thread returned
  table,     \* g_finalizers: the class whose Delete an entry is
  size,      \* g_finalizers_size
  mutex,     \* g_mutex: NULL, free, or the thread that holds it
  idx        \* a thread's local index into g_finalizers

onceVars == <<done, taken>>
objVars  == <<instance, made, live>>
regVars  == <<table, size, mutex>>
vars     == <<done, taken, pc, on, cls, instance, made, live, got, table,
              size, mutex, idx>>

CallPC  == {"test", "swap", "spin", "finish"}
InitPC  == {"lock", "push", "write", "unlock", "new"}
ClosePC == {"count", "next", "delete", "null", "undone", "untake", "full", "drop"}
PCs     == CallPC \cup InitPC \cup ClosePC \cup
             {"idle", "newMutex", "return", "using", "fault"}

Closing(t) == on[t] = Final /\ pc[t] # "idle"

Init ==
  /\ done     = [o \in Onces |-> FALSE]
  /\ taken    = [o \in Onces |-> FALSE]
  /\ pc       = [t \in Threads |-> "idle"]
  /\ on       = [t \in Threads |-> Mutex]
  /\ cls      \in [Threads -> Classes]
  /\ instance = [c \in Classes |-> 0]
  /\ made     = [c \in Classes |-> 0]
  /\ live     = [c \in Classes |-> {}]
  /\ got      = [t \in Threads |-> 0]
  /\ table    = [i \in 0 .. MaxFinalizers - 1 |-> None]
  /\ size     = 0
  /\ mutex    = None
  /\ idx      = [t \in Threads |-> 0]

\* A thread moves on, in a process that has not crashed.
Crashed == \E t \in Threads : pc[t] = "fault"
Goto(t, from, to) ==
  /\ ~Crashed
  /\ pc[t] = from
  /\ pc' = [pc EXCEPT ![t] = to]

-----------------------------------------------------------------------------
(* CallOnce and ResetOnce.                                                 *)

\* The first step of the function that CallOnce(o, .) runs, for Init of a
\* class the CallOnce of AddFinalizer; and the caller's step after it returns.
Body(o)  == CASE o = Mutex -> "newMutex" [] o = Final -> "count" [] OTHER -> "test"
After(o) == CASE o = Mutex -> "lock" [] o = Final -> "idle" [] OTHER -> "return"

Enter(t, from, o) == Goto(t, from, "test") /\ on' = [on EXCEPT ![t] = o]
Leave(t, from) ==
  /\ Goto(t, from, After(on[t]))
  /\ on' = [on EXCEPT ![t] = IF @ = Mutex THEN cls[t] ELSE @]

\* Mutant: the double check looks at the counter, that is up too early.
TestCounter(t) ==
  /\ IF taken[on[t]] THEN Leave(t, "test")
                     ELSE Goto(t, "test", "swap") /\ UNCHANGED on
  /\ UNCHANGED <<onceVars, cls, objVars, got, regVars, idx>>

\* The double check in front: a once_t that is done is left at once.
Test(t) ==
  /\ IF done[on[t]] THEN Leave(t, "test")
                    ELSE Goto(t, "test", "swap") /\ UNCHANGED on
  /\ UNCHANGED <<onceVars, cls, objVars, got, regVars, idx>>

\* Mutant: the counter is set without a look at its old value.
SwapBlind(t) ==
  /\ taken' = [taken EXCEPT ![on[t]] = TRUE]
  /\ Goto(t, "swap", Body(on[t]))
  /\ on' = [on EXCEPT ![t] = IF @ \in Classes THEN Mutex ELSE @]
  /\ UNCHANGED <<done, cls, objVars, got, regVars, idx>>

\* The compare-and-swap of counter from 0 to 1: its winner runs the function.
Swap(t) ==
  /\ taken' = [taken EXCEPT ![on[t]] = TRUE]
  /\ IF taken[on[t]]
       THEN Goto(t, "swap", "spin") /\ UNCHANGED on
       ELSE /\ Goto(t, "swap", Body(on[t]))
            /\ on' = [on EXCEPT ![t] = IF @ \in Classes THEN Mutex ELSE @]
  /\ UNCHANGED <<done, cls, objVars, got, regVars, idx>>

\* The busy loop of the losers, left when the winner is done.
Spin(t) ==
  /\ done[on[t]]
  /\ Leave(t, "spin")
  /\ UNCHANGED <<onceVars, cls, objVars, got, regVars, idx>>

\* Mutant: the winner forgets to set the state.
FinishSilent(t) ==
  /\ Leave(t, "finish")
  /\ UNCHANGED <<onceVars, cls, objVars, got, regVars, idx>>

\* The winner's compare-and-swap of state from ONCE_INIT to ONCE_DONE.
Finish(t) ==
  /\ done' = [done EXCEPT ![on[t]] = TRUE]
  /\ Leave(t, "finish")
  /\ UNCHANGED <<taken, cls, objVars, got, regVars, idx>>

\* Mutant: ResetOnce resets the counter first.
UndoneSwapped(t) ==
  /\ Goto(t, "undone", "untake")
  /\ taken' = [taken EXCEPT ![table[idx[t]]] = FALSE]
  /\ UNCHANGED <<done, on, cls, objVars, got, regVars, idx>>

\* The two compare-and-swaps of ResetOnce on the class being deleted.
Undone(t) ==
  /\ Goto(t, "undone", "untake")
  /\ done' = [done EXCEPT ![table[idx[t]]] = FALSE]
  /\ UNCHANGED <<taken, on, cls, objVars, got, regVars, idx>>

Untake(t) ==
  /\ Goto(t, "untake", "next")
  /\ taken' = [taken EXCEPT ![table[idx[t]]] = FALSE]
  /\ UNCHANGED <<done, on, cls, objVars, got, regVars, idx>>

-----------------------------------------------------------------------------
(* Singleton<T>::get: CallOnce on the class, whose winner runs Init, that  *)
(* is AddFinalizer and then new T.                                         *)

Get(t) ==
  /\ Apart => \A u \in Threads : ~Closing(u)
  /\ Last  => ~taken[Final]
  /\ \E c \in Classes : cls' = [cls EXCEPT ![t] = c] /\ Enter(t, "idle", c)
  /\ UNCHANGED <<onceVars, objVars, got, regVars, idx>>

NewMutex(t) ==
  /\ Goto(t, "newMutex", "finish")
  /\ mutex' = Free
  /\ UNCHANGED <<onceVars, on, cls, objVars, got, table, size, idx>>

\* scoped_lock l(*g_mutex); nothing tests g_mutex for NULL.
Lock(t) ==
  /\ \/ mutex = Free /\ Goto(t, "lock", "push") /\ mutex' = t
     \/ mutex = None /\ Goto(t, "lock", "fault") /\ UNCHANGED mutex
  /\ UNCHANGED <<onceVars, on, cls, objVars, got, table, size, idx>>

\* Mutant: the index is incremented before it is used.
PushPreIncrement(t) ==
  /\ Goto(t, "push", IF size < MaxFinalizers THEN "write" ELSE "fault")
  /\ idx' = [idx EXCEPT ![t] = size + 1]
  /\ size' = size + 1
  /\ UNCHANGED <<onceVars, on, cls, objVars, got, table, mutex>>

\* g_finalizers[g_finalizers_size++] = func: the index is taken, then the
\* entry is written; nothing tests it against kMaxFinalizersSize.
Push(t) ==
  /\ Goto(t, "push", IF size < MaxFinalizers THEN "write" ELSE "fault")
  /\ idx' = [idx EXCEPT ![t] = size]
  /\ size' = size + 1
  /\ UNCHANGED <<onceVars, on, cls, objVars, got, table, mutex>>

Write(t) ==
  /\ Goto(t, "write", "unlock")
  /\ table' = [table EXCEPT ![idx[t]] = cls[t]]
  /\ UNCHANGED <<onceVars, on, cls, objVars, got, size, mutex, idx>>

Unlock(t) ==
  /\ Goto(t, "unlock", IF mutex = t THEN "new" ELSE "fault")
  /\ mutex' = IF mutex = t THEN Free ELSE mutex
  /\ UNCHANGED <<onceVars, on, cls, objVars, got, table, size, idx>>

\* Mutant: the pointer is published, the object never constructed.
NewUnbuilt(t) ==
  /\ Goto(t, "new", "finish")
  /\ instance' = [instance EXCEPT ![cls[t]] = made[cls[t]] + 1]
  /\ UNCHANGED <<onceVars, on, cls, made, live, got, regVars, idx>>


New(t) ==
  /\ Goto(t, "new", "finish")
  /\ made' = [made EXCEPT ![cls[t]] = @ + 1]
  /\ live' = [live EXCEPT ![cls[t]] = @ \cup {made[cls[t]] + 1}]
  /\ instance' = [instance EXCEPT ![cls[t]] = made[cls[t]] + 1]
  /\ UNCHANGED <<onceVars, on, cls, got, regVars, idx>>

\* The constructor throws: the exception leaves CallOnce with counter at 1
\* and state at ONCE_INIT, and reaches the caller of get().
Throw(t) ==
  /\ cls[t] \in Failing
  /\ Goto(t, "new", "idle")
  /\ UNCHANGED <<onceVars, on, cls, objVars, got, regVars, idx>>

Return(t) ==
  /\ Goto(t, "return", "using")
  /\ got' = [got EXCEPT ![t] = instance[cls[t]]]
  /\ UNCHANGED <<onceVars, on, cls, objVars, regVars, idx>>

\* The caller is through with the pointer it got.
Release(t) ==
  /\ Goto(t, "using", "idle")
  /\ UNCHANGED <<onceVars, on, cls, objVars, got, regVars, idx>>

-----------------------------------------------------------------------------
(* Finalize: CallOnce on DeleteSingleton, which runs the finalizers from   *)
(* the last to the first, and Singleton<T>::Delete.                        *)

Finalize(t) ==
  /\ t \in Closers
  /\ Apart => \A u \in Threads : pc[u] = "idle" \/ Closing(u)
  /\ Enter(t, "idle", Final)
  /\ UNCHANGED <<onceVars, cls, objVars, got, regVars, idx>>

\* Mutant: the loop starts one entry too low.
CountShort(t) ==
  /\ Goto(t, "count", "next")
  /\ idx' = [idx EXCEPT ![t] = size - 1]
  /\ UNCHANGED <<onceVars, on, cls, objVars, got, regVars>>

\* i = g_finalizers_size - 1, read once and without the lock; idx holds i + 1.
Count(t) ==
  /\ Goto(t, "count", "next")
  /\ idx' = [idx EXCEPT ![t] = size]
  /\ UNCHANGED <<onceVars, on, cls, objVars, got, regVars>>

\* Mutant: the loop ends at i > 0, the first entry is left out.
NextShort(t) ==
  /\ IF idx[t] <= 1
       THEN Goto(t, "next", "full") /\ UNCHANGED idx
       ELSE /\ idx' = [idx EXCEPT ![t] = @ - 1]
            /\ Goto(t, "next", IF table[idx[t] - 1] = None THEN "fault" ELSE "delete")
  /\ UNCHANGED <<onceVars, on, cls, objVars, got, regVars>>

\* Mutant: the finalizers run from the first to the last.
NextForward(t) ==
  LET left == {i \in 0 .. size - 1 : instance[table[i]] # 0} IN
  /\ pc[t] = "next"
  /\ IF left = {}
       THEN Goto(t, "next", "full") /\ UNCHANGED idx
       ELSE /\ idx' = [idx EXCEPT ![t] = CHOOSE i \in left : \A j \in left : i <= j]
            /\ Goto(t, "next", "delete")
  /\ UNCHANGED <<onceVars, on, cls, objVars, got, regVars>>


NextFinalizer(t) ==
  /\ IF idx[t] = 0
       THEN Goto(t, "next", "full") /\ UNCHANGED idx
       ELSE /\ idx' = [idx EXCEPT ![t] = @ - 1]
            /\ Goto(t, "next", IF table[idx[t] - 1] = None THEN "fault" ELSE "delete")
  /\ UNCHANGED <<onceVars, on, cls, objVars, got, regVars>>

Delete(t) ==
  LET c == table[idx[t]] IN
  /\ Goto(t, "delete", IF instance[c] \in live[c] \cup {0} THEN "null" ELSE "fault")
  /\ live' = [live EXCEPT ![c] = @ \ {instance[c]}]
  /\ UNCHANGED <<onceVars, on, cls, instance, made, got, regVars, idx>>

Null(t) ==
  /\ Goto(t, "null", "undone")
  /\ instance' = [instance EXCEPT ![table[idx[t]]] = 0]
  /\ UNCHANGED <<onceVars, on, cls, made, live, got, regVars, idx>>

Full(t) ==
  /\ Goto(t, "full", "drop")
  /\ size' = MaxFinalizers
  /\ UNCHANGED <<onceVars, on, cls, objVars, got, table, mutex, idx>>

Drop(t) ==
  /\ Goto(t, "drop", "finish")
  /\ mutex' = None
  /\ UNCHANGED <<onceVars, on, cls, objVars, got, table, size, idx>>

-----------------------------------------------------------------------------
GetStep(t) ==
  \/ Test(t) \/ Swap(t) \/ Spin(t) \/ Finish(t)
  \/ NewMutex(t) \/ Lock(t) \/ Push(t) \/ Write(t) \/ Unlock(t)
  \/ New(t) \/ Throw(t) \/ Return(t) \/ Release(t)

CloseStep(t) ==
  \/ Count(t) \/ NextFinalizer(t) \/ Delete(t) \/ Null(t)
  \/ Undone(t) \/ Untake(t) \/ Full(t) \/ Drop(t)

Next == \E t \in Threads : Get(t) \/ Finalize(t) \/ GetStep(t) \/ CloseStep(t)

\* Threads are scheduled: one inside get() or Finalize() takes its steps.
\* Nobody is obliged to call either.
Spec == Init /\ [][Next]_vars
FairSpec == Spec /\ \A t \in Threads : WF_vars(GetStep(t) \/ CloseStep(t))
-----------------------------------------------------------------------------
(* Properties.                                                             *)

TypeOK ==
  /\ done     \in [Onces -> BOOLEAN]
  /\ taken    \in [Onces -> BOOLEAN]
  /\ pc       \in [Threads -> PCs]
  /\ on       \in [Threads -> Onces]
  /\ cls      \in [Threads -> Classes]
  /\ instance \in [Classes -> Nat]
  /\ made     \in [Classes -> Nat]
  /\ live     \in [Classes -> SUBSET Nat]
  /\ got      \in [Threads -> Nat]
  /\ table    \in [0 .. MaxFinalizers - 1 -> Classes \cup {None}]
  /\ size     \in Nat
  /\ mutex    \in Threads \cup {None, Free}
  /\ idx      \in [Threads -> Nat]

\* Thread t is inside the function that CallOnce runs for once_t o.
Running(t, o) ==
  \/ o = Mutex /\ on[t] = Mutex /\ pc[t] \in {"newMutex", "finish"}
  \/ o = Final /\ on[t] = Final /\ pc[t] \in ClosePC \cup {"finish"}
  \/ /\ o = cls[t]
     /\ \/ on[t] = Mutex /\ pc[t] \in CallPC \cup {"newMutex"}
        \/ on[t] = o /\ pc[t] \in InitPC \cup {"finish"}

\* CallOnce runs its function in one thread at a time, and never again once
\* it is done: the pthread_once contract of the comment above CallOnce.
OneRunner ==
  \A o \in Onces : \A t \in Threads : Running(t, o) =>
    /\ ~done[o]
    /\ \A u \in Threads : Running(u, o) => u = t

\* A pointer that get() returned is neither NULL nor dangling for as long as
\* its caller uses it.
HeldIsLive == \A t \in Threads : pc[t] = "using" => got[t] \in live[cls[t]]

\* No step locks a null mutex, unlocks a mutex that is gone, writes past
\* g_finalizers, calls an empty entry or deletes an object twice.
NoFault == ~Crashed

\* At most one object of a type is ever constructed, and DeleteSingleton leaves
\* none behind: every object that was made had its finalizer in the table by then.
NothingLeaks ==
  \A c \in Classes :
    /\ made[c] <= 1
    /\ done[Final] => live[c] = {} /\ instance[c] = 0

\* "delete instances in reverse order": while a thread runs the finalizers,
\* the object of an entry outlives those of all later entries.
ReverseTeardown ==
  (\E t \in Threads : pc[t] \in ClosePC) =>
    \A i, j \in DOMAIN table :
      (i < j /\ table[i] # None /\ table[j] # None /\ live[table[j]] # {})
        => (live[table[i]] # {} \/ made[table[i]] = 0)

-----------------------------------------------------------------------------
(* The inductive invariant behind OneRunner and HeldIsLive, for callers    *)
(* that keep Finalize apart from the use of instances.                     *)

\* What the label of a thread says of the once_t it works on.
Label(t) ==
  /\ pc[t] \in InitPC \cup {"return", "using"} => on[t] = cls[t]
  /\ pc[t] \in ClosePC => on[t] = Final
  /\ pc[t] = "newMutex" => on[t] = Mutex
  /\ on[t] \in Classes => on[t] = cls[t]
  /\ on[t] = Mutex => pc[t] \in CallPC \cup {"idle", "newMutex"}
Labels == \A t \in Threads : Label(t)

\* Nobody is inside get() or holds an instance while Finalize is in progress.
ClosedApart ==
  \A t \in Threads : Closing(t) => \A u \in Threads : pc[u] = "idle" \/ Closing(u)

\* The counter of a once_t is up from its winner's swap until it is reset.
RunnerTook ==
  /\ \A o \in Onces : done[o] => taken[o]
  /\ \A t \in Threads : \A o \in Onces : Running(t, o) => taken[o]

\* The entry DeleteSingleton works on, and how far the reset of it is.
Entries ==
  /\ Crashed \/ size <= MaxFinalizers
  /\ \A t \in Threads :
       /\ pc[t] = "next" => idx[t] <= MaxFinalizers
       /\ pc[t] \in {"delete", "null", "undone", "untake"} =>
            idx[t] < MaxFinalizers /\ table[idx[t]] \in Classes
       /\ pc[t] = "untake" => ~done[table[idx[t]]]

\* A done instance is there, except while DeleteSingleton is taking it away.
DoneIsLive ==
  \A c \in Classes : done[c] =>
    \/ Crashed
    \/ instance[c] \in live[c]
    \/ \E t \in Threads : pc[t] \in {"null", "undone"} /\ table[idx[t]] = c

\* So is the one a get() is about to return.
ReturnIsLive ==
  \A t \in Threads :
    (pc[t] = "return" \/ (pc[t] = "finish" /\ on[t] \in Classes))
      => instance[cls[t]] \in live[cls[t]]

IInv == /\ TypeOK /\ Labels /\ ClosedApart /\ RunnerTook /\ OneRunner
        /\ Entries /\ DoneIsLive /\ ReturnIsLive /\ HeldIsLive

-----------------------------------------------------------------------------
\* Every get() of a type whose constructor does not throw returns, although
\* the losers of the race wait in a busy loop for the winner; and so does every
\* call of Finalize.
CallsReturn ==
  \A t \in Threads :
    /\ \A c \in Classes \ Failing :
         (on[t] = c /\ pc[t] = "test") ~> (cls[t] = c /\ pc[t] = "using")
    /\ Closing(t) ~> ~Closing(t)

\* The registry implements the shared instances it promises: the types of
\* which an object was made, those whose object exists, and what is held.
Built == {c \in Classes : made[c] > 0}
Alive == {c \in Classes : live[c] # {}}
Held  == [t \in Threads |-> IF pc[t] = "using" /\ got[t] # 0 THEN cls[t] ELSE None]
Shared == INSTANCE SharedInstances WITH
  Nobody <- None, built <- Built, alive <- Alive, held <- Held
SharedSpec == Shared!Spec
=============================================================================
