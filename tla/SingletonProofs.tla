-------------------------- MODULE SingletonProofs --------------------------
(***************************************************************************)
(* Machine-checked proofs about Singleton, for every set of threads and    *)
(* types and every size of the finalizer table: first what is shared is    *)
(* found and kept, then no type gets a second object, the teardown takes   *)
(* them in reverse order and leaves none behind, and callers see the       *)
(* shared instances that SharedInstances promises.  The callers are        *)
(* assumed to run Finalize apart from the use of instances (Apart); they   *)
(* may call get() again afterwards.  The last section is about callers     *)
(* that do not, for whom no step is undefined.                             *)
(***************************************************************************)
EXTENDS Singleton, FiniteSetTheorems, TLAPS

\* The three reserved once_t, and NULL, are no types; a type is none of them.
LEMMA Names ==
  /\ Mutex # Final /\ Mutex \notin Classes /\ Final \notin Classes
  /\ None \notin Classes
  /\ Mutex \in Onces /\ Final \in Onces /\ Classes \subseteq Onces
BY ClassesAssumption DEF Mutex, Final, Onces

\* The labels CallOnce continues with are labels.
LEMMA NextLabels == \A o \in Onces : After(o) \in PCs /\ Body(o) \in PCs
BY Names DEF After, Body, PCs, CallPC, InitPC, ClosePC

\* Every step keeps every variable in its type.
LEMMA StepTypeOK == TypeOK /\ [Next]_vars => TypeOK'
<1> SUFFICES ASSUME TypeOK, [Next]_vars PROVE TypeOK'
  OBVIOUS
<1> USE DEF TypeOK, onceVars, objVars, regVars, Goto, Enter, Leave, After, Body,
            PCs, CallPC, InitPC, ClosePC
<1>u. CASE UNCHANGED vars
  BY <1>u DEF vars
<1>1. ASSUME NEW t \in Threads, Get(t) PROVE TypeOK'
  BY <1>1, Names DEF Get
<1>2. ASSUME NEW t \in Threads, Finalize(t) PROVE TypeOK'
  BY <1>2, Names DEF Finalize
<1>3. ASSUME NEW t \in Threads, GetStep(t) PROVE TypeOK'
  <2>1. CASE Test(t)
    <3>1. CASE done[on[t]]
      <4>1. After(on[t]) \in PCs
        BY NextLabels
      <4>2. cls[t] \in Onces
        BY Names
      <4> HIDE DEF After, PCs, Onces
      <4> QED
        BY ZenonT(60), <2>1, <3>1, <4>1, <4>2 DEF Test
    <3>2. CASE ~done[on[t]]
      BY <2>1, <3>2 DEF Test
    <3> QED
      BY <3>1, <3>2
  <2>2. CASE Swap(t)
    BY ZenonT(60), <2>2, Names DEF Swap
  <2>3. CASE Spin(t)
    BY <2>3, Names DEF Spin
  <2>4. CASE Finish(t)
    BY <2>4, Names DEF Finish
  <2>5. CASE NewMutex(t)
    BY <2>5 DEF NewMutex
  <2>6. CASE Lock(t)
    BY <2>6 DEF Lock
  <2>7. CASE Push(t)
    BY <2>7 DEF Push
  <2>8. CASE Write(t)
    BY <2>8 DEF Write
  <2>9. CASE Unlock(t)
    BY <2>9 DEF Unlock
  <2>10. CASE New(t)
    BY <2>10 DEF New
  <2>11. CASE Throw(t)
    BY <2>11 DEF Throw
  <2>12. CASE Return(t)
    BY <2>12 DEF Return
  <2>13. CASE Release(t)
    BY <2>13 DEF Release
  <2> QED
    BY <1>3, <2>1, <2>2, <2>3, <2>4, <2>5, <2>6, <2>7, <2>8, <2>9, <2>10,
       <2>11, <2>12, <2>13 DEF GetStep
<1>4. ASSUME NEW t \in Threads, CloseStep(t) PROVE TypeOK'
  <2>1. CASE Count(t)
    BY <2>1 DEF Count
  <2>2. CASE NextFinalizer(t)
    <3>1. CASE idx[t] = 0
      BY <2>2, <3>1 DEF NextFinalizer
    <3>2. CASE idx[t] # 0
      <4>1. idx[t] - 1 \in Nat
        BY <3>2
      <4> QED
        BY <2>2, <3>2, <4>1 DEF NextFinalizer
    <3> QED
      BY <3>1, <3>2
  <2>3. CASE Delete(t)
    BY <2>3 DEF Delete
  <2>4. CASE Null(t)
    BY <2>4 DEF Null
  <2>5. CASE Undone(t)
    BY <2>5 DEF Undone
  <2>6. CASE Untake(t)
    BY <2>6 DEF Untake
  <2>7. CASE Full(t)
    BY <2>7, MaxAssumption DEF Full
  <2>8. CASE Drop(t)
    BY <2>8 DEF Drop
  <2> QED
    BY <1>4, <2>1, <2>2, <2>3, <2>4, <2>5, <2>6, <2>7, <2>8 DEF CloseStep
<1> QED
  BY <1>u, <1>1, <1>2, <1>3, <1>4 DEF Next

-----------------------------------------------------------------------------
\* Where leaving CallOnce takes a thread.
LEMMA LeaveLabels ==
  ASSUME NEW t \in Threads, NEW from, TypeOK, Leave(t, from)
  PROVE  /\ pc[t] = from
         /\ \A u \in Threads \ {t} : pc'[u] = pc[u] /\ on'[u] = on[u]
         /\ \/ on[t] = Mutex /\ pc'[t] = "lock" /\ on'[t] = cls[t]
            \/ on[t] = Final /\ pc'[t] = "idle" /\ on'[t] = on[t]
            \/ on[t] \in Classes /\ pc'[t] = "return" /\ on'[t] = on[t]
<1> USE Names DEF TypeOK, Leave, Goto, After
<1>1. CASE on[t] = Mutex
  BY <1>1
<1>2. CASE on[t] = Final
  BY <1>2
<1>3. CASE on[t] \in Classes
  BY <1>3
<1> QED
  BY <1>1, <1>2, <1>3 DEF Onces

\* A step that neither takes an instance away nor marks one done keeps the
\* done instances where they are.
LEMMA KeepsInstances ==
  ASSUME NEW t \in Threads, DoneIsLive, ~Crashed, pc[t] \notin {"null", "undone"},
         UNCHANGED <<instance, live, table>>,
         \A c \in Classes : done'[c] => done[c],
         \A u \in Threads \ {t} : pc'[u] = pc[u] /\ idx'[u] = idx[u]
  PROVE  DoneIsLive'
<1> SUFFICES ASSUME NEW c \in Classes, done'[c], instance[c] \notin live[c]
             PROVE  \E u \in Threads : pc'[u] \in {"null", "undone"} /\ table[idx'[u]] = c
  BY DEF DoneIsLive
<1>1. PICK u \in Threads : pc[u] \in {"null", "undone"} /\ table[idx[u]] = c
  BY DEF DoneIsLive
<1> QED
  BY <1>1

\* A step that starts no function and leaves the once_t alone keeps the runners.
LEMMA FewerRunners ==
  ASSUME RunnerTook, OneRunner, UNCHANGED onceVars,
         \A u \in Threads : \A o \in Onces : Running(u, o)' => Running(u, o)
  PROVE  RunnerTook' /\ OneRunner'
BY DEF RunnerTook, OneRunner, onceVars

\* Leaving CallOnce because the once_t is done, at the double check or from
\* the busy loop.
LEMMA StepLeave ==
  ASSUME Apart, IInv, ~Crashed, NEW t \in Threads, done[on[t]],
         pc[t] \in {"test", "spin"}, Leave(t, pc[t]), TypeOK',
         UNCHANGED <<onceVars, cls, objVars, got, regVars, idx>>
  PROVE  IInv'
<1>0. /\ \A u \in Threads \ {t} : pc'[u] = pc[u] /\ on'[u] = on[u]
      /\ \/ on[t] = Mutex /\ pc'[t] = "lock" /\ on'[t] = cls[t]
         \/ on[t] = Final /\ pc'[t] = "idle" /\ on'[t] = on[t]
         \/ on[t] \in Classes /\ pc'[t] = "return" /\ on'[t] = on[t]
  BY LeaveLabels DEF IInv
<1> USE Names, ThreadsAssumption, ClassesAssumption DEF IInv, TypeOK, Labels, Label,
  Closing, Running, Crashed, onceVars, objVars, regVars, Goto, Enter,
  CallPC, InitPC, ClosePC
<1>1. Labels'
  <2>1. Label(t)'
    BY <1>0
  <2>2. ASSUME NEW u \in Threads \ {t} PROVE Label(u)'
    BY <1>0
  <2> QED
    BY <2>1, <2>2
<1>2. ClosedApart'
  <2>1. ~Closing(t)' /\ (Closing(t) => pc'[t] = "idle")
    BY <1>0
  <2>2. \A u \in Threads \ {t} : Closing(u)' <=> Closing(u)
    BY <1>0
  <2> QED
    BY <1>0, <2>1, <2>2 DEF ClosedApart
<1>r. ASSUME NEW u \in Threads, NEW o \in Onces, Running(u, o)' PROVE Running(u, o)
  <2>1. CASE u = t
    BY <1>0, <1>r, <2>1
  <2>2. CASE u # t
    BY <1>0, <1>r, <2>2
  <2> QED
    BY <2>1, <2>2
<1>3. RunnerTook'
  BY <1>r, FewerRunners
<1>4. OneRunner'
  BY <1>r, FewerRunners
<1>5. Entries'
  BY <1>0 DEF Entries
<1>6. DoneIsLive'
  BY <1>0, KeepsInstances
<1>7. ReturnIsLive'
  <2>1. on[t] \in Classes => \A u \in Threads : pc[u] \notin {"null", "undone"}
    BY DEF ClosedApart
  <2>2. on[t] \in Classes => instance[cls[t]] \in live[cls[t]]
    BY <2>1 DEF DoneIsLive
  <2>3. ASSUME NEW u \in Threads, u # t PROVE pc'[u] = pc[u] /\ on'[u] = on[u]
    BY <1>0, <2>3
  <2>4. pc'[t] # "finish" /\ (pc'[t] = "return" => on[t] \in Classes)
    BY <1>0
  <2> QED
    BY <2>2, <2>3, <2>4 DEF ReturnIsLive
<1>8. HeldIsLive'
  BY <1>0 DEF HeldIsLive
<1> QED
  BY <1>1, <1>2, <1>3, <1>4, <1>5, <1>6, <1>7, <1>8

\* Test keeps the inductive invariant.
LEMMA StepTest ==
  ASSUME Apart, IInv, ~Crashed, NEW t \in Threads, Test(t), TypeOK' PROVE IInv'
<1>a. CASE done[on[t]]
  BY <1>a, StepLeave DEF Test, Leave, Goto
<1>b. CASE ~done[on[t]]
  <2>0. /\ pc[t] = "test" /\ pc'[t] = "swap" /\ on' = on
        /\ \A u \in Threads \ {t} : pc'[u] = pc[u] /\ on'[u] = on[u]
        /\ UNCHANGED <<onceVars, cls, objVars, got, regVars, idx>>
    BY <1>b DEF Test, Goto, IInv, TypeOK
  <2> USE Names DEF IInv, TypeOK,
    Closing, Running, Crashed, onceVars, objVars, regVars, Goto,
    CallPC, InitPC, ClosePC
  <2>1. Labels'
    BY <2>0 DEF Labels, Label
  <2>2. ClosedApart'
    BY <2>0 DEF ClosedApart
  <2>3. RunnerTook'
    BY <2>0 DEF RunnerTook
  <2>4. OneRunner'
    <3>1. \A u \in Threads : \A o \in Onces : Running(u, o)' => Running(u, o)
      BY <2>0
    <3> HIDE DEF Running
    <3> QED
      BY <2>0, <3>1, FewerRunners
  <2>5. Entries'
    BY <2>0 DEF Entries
  <2>6. DoneIsLive'
    BY <2>0, KeepsInstances
  <2>7. ReturnIsLive'
    BY <2>0 DEF ReturnIsLive
  <2>8. HeldIsLive'
    BY <2>0 DEF HeldIsLive
  <2> QED
    BY <2>1, <2>2, <2>3, <2>4, <2>5, <2>6, <2>7, <2>8
<1> QED
  BY <1>a, <1>b

\* Swap keeps the inductive invariant.
LEMMA StepSwap ==
  ASSUME Apart, IInv, ~Crashed, NEW t \in Threads, Swap(t), TypeOK' PROVE IInv'
<1>a. CASE taken[on[t]]
  <2>0. /\ pc[t] = "swap" /\ pc'[t] = "spin" /\ on' = on /\ taken' = taken
        /\ \A u \in Threads \ {t} : pc'[u] = pc[u] /\ on'[u] = on[u]
        /\ UNCHANGED <<done, cls, objVars, got, regVars, idx>>
    BY <1>a DEF Swap, Goto, IInv, TypeOK
  <2> USE Names DEF IInv, TypeOK,
    Closing, Running, Crashed, onceVars, objVars, regVars, Goto,
    CallPC, InitPC, ClosePC
  <2>1. Labels'
    BY <2>0 DEF Labels, Label
  <2>2. ClosedApart'
    BY <2>0 DEF ClosedApart
  <2>3. RunnerTook'
    BY <2>0 DEF RunnerTook
  <2>4. OneRunner'
    <3>1. \A u \in Threads : \A o \in Onces : Running(u, o)' => Running(u, o)
      BY <2>0
    <3> QED
      BY <2>0, <3>1, FewerRunners
  <2>5. Entries'
    BY <2>0 DEF Entries
  <2>6. DoneIsLive'
    BY <2>0, KeepsInstances
  <2>7. ReturnIsLive'
    BY <2>0 DEF ReturnIsLive
  <2>8. HeldIsLive'
    BY <2>0 DEF HeldIsLive
  <2> QED
    BY <2>1, <2>2, <2>3, <2>4, <2>5, <2>6, <2>7, <2>8
<1>b. CASE ~taken[on[t]]
  <2>a. /\ pc[t] = "swap" /\ taken' = [taken EXCEPT ![on[t]] = TRUE]
        /\ UNCHANGED <<done, cls, objVars, got, regVars, idx>>
    BY <1>b DEF Swap, Goto
  <2>b. /\ \A u \in Threads \ {t} : pc'[u] = pc[u] /\ on'[u] = on[u]
        /\ \/ on[t] = Mutex /\ pc'[t] = "newMutex" /\ on'[t] = on[t]
           \/ on[t] = Final /\ pc'[t] = "count" /\ on'[t] = on[t]
           \/ /\ on[t] \in Classes /\ on[t] = cls[t]
              /\ pc'[t] = "test" /\ on'[t] = Mutex
    <3> USE <1>b, Names DEF Swap, Goto, Body, IInv, TypeOK, Labels, Label
    <3>1. CASE on[t] = Mutex
      BY <3>1
    <3>2. CASE on[t] = Final
      BY <3>2
    <3>3. CASE on[t] \in Classes
      <4>1. on[t] # Mutex /\ on[t] # Final
        BY <3>3
      <4> QED
        BY <3>3, <4>1
    <3> QED
      BY <3>1, <3>2, <3>3 DEF Onces
  <2>c. ~done[on[t]] /\ \A u \in Threads : ~Running(u, on[t])
    BY <1>b DEF IInv, RunnerTook, TypeOK
  <2>d. ASSUME NEW u \in Threads, u # t
       PROVE  \A o \in Onces : Running(u, o)' <=> Running(u, o)
    <3>1. pc'[u] = pc[u] /\ on'[u] = on[u] /\ cls'[u] = cls[u]
      BY <2>a, <2>b, <2>d
    <3> QED
      BY <3>1 DEF Running
  <2>e. \A o \in Onces : Running(t, o)' => o = on[t] \/ Running(t, o)
    BY <2>a, <2>b, Names DEF Running, IInv, TypeOK, CallPC, InitPC, ClosePC
  <2> USE Names DEF IInv, TypeOK, Closing, Crashed, onceVars, objVars, regVars,
    CallPC, InitPC, ClosePC
  <2>1. Labels'
    <3>1. Label(t)'
      BY <2>a, <2>b DEF Labels, Label
    <3>2. ASSUME NEW u \in Threads \ {t} PROVE Label(u)'
      BY <2>a, <2>b DEF Labels, Label
    <3> QED
      BY <3>1, <3>2 DEF Labels
  <2>2. ClosedApart'
    <3>1. Closing(t)' <=> Closing(t)
      BY <2>a, <2>b DEF Labels, Label
    <3>2. \A u \in Threads \ {t} : Closing(u)' <=> Closing(u)
      BY <2>a, <2>b
    <3> QED
      BY <2>a, <2>b, <3>1, <3>2 DEF ClosedApart
  <2>3. RunnerTook'
    BY <2>a, <2>c, <2>d, <2>e DEF RunnerTook
  <2>4. OneRunner'
    <3> SUFFICES ASSUME NEW o \in Onces, NEW u \in Threads, NEW v \in Threads,
                        Running(u, o)', Running(v, o)'
                 PROVE  ~done'[o] /\ u = v
      BY DEF OneRunner
    <3>1. CASE o = on[t]
      BY <2>a, <2>c, <2>d, <3>1
    <3>2. CASE o # on[t]
      <4>1. Running(u, o) /\ Running(v, o)
        BY <2>d, <2>e, <3>2
      <4>2. done'[o] = done[o]
        BY <2>a
      <4> QED
        BY <4>1, <4>2 DEF OneRunner
    <3> QED
      BY <3>1, <3>2
  <2>5. Entries'
    BY <2>a, <2>b DEF Entries
  <2>6. DoneIsLive'
    BY <2>a, <2>b, KeepsInstances
  <2>7. ReturnIsLive'
    BY <2>a, <2>b DEF ReturnIsLive
  <2>8. HeldIsLive'
    BY <2>a, <2>b DEF HeldIsLive
  <2> QED
    BY <2>1, <2>2, <2>3, <2>4, <2>5, <2>6, <2>7, <2>8
<1> QED
  BY <1>a, <1>b

\* Spin keeps the inductive invariant.
LEMMA StepSpin ==
  ASSUME Apart, IInv, ~Crashed, NEW t \in Threads, Spin(t), TypeOK' PROVE IInv'
BY StepLeave DEF Spin, Leave, Goto

\* Finish keeps the inductive invariant.
LEMMA StepFinish ==
  ASSUME Apart, IInv, ~Crashed, NEW t \in Threads, Finish(t), TypeOK' PROVE IInv'
<1>a. /\ pc[t] = "finish" /\ done' = [done EXCEPT ![on[t]] = TRUE]
      /\ UNCHANGED <<taken, cls, objVars, got, regVars, idx>>
  BY DEF Finish, Leave, Goto
<1>b. /\ \A u \in Threads \ {t} : pc'[u] = pc[u] /\ on'[u] = on[u]
      /\ \/ on[t] = Mutex /\ pc'[t] = "lock" /\ on'[t] = cls[t]
         \/ on[t] = Final /\ pc'[t] = "idle" /\ on'[t] = on[t]
         \/ on[t] \in Classes /\ pc'[t] = "return" /\ on'[t] = on[t]
  BY LeaveLabels DEF IInv, Finish
<1>r. Running(t, on[t])
  BY <1>a, Names DEF IInv, TypeOK, Labels, Label, Running, Onces
<1>c. /\ on[t] \in Onces /\ taken[on[t]]
      /\ \A u \in Threads : Running(u, on[t]) => u = t
  BY <1>r DEF IInv, TypeOK, RunnerTook, OneRunner
<1>d. ASSUME NEW u \in Threads, u # t
     PROVE  \A o \in Onces : Running(u, o)' <=> Running(u, o)
  <2>1. pc'[u] = pc[u] /\ on'[u] = on[u] /\ cls'[u] = cls[u]
    BY <1>a, <1>b, <1>d
  <2> QED
    BY <2>1 DEF Running
<1>e. \A o \in Onces : Running(t, o)' => o # on[t] /\ Running(t, o)
  BY <1>a, <1>b, Names DEF Running, IInv, TypeOK, CallPC, InitPC, ClosePC
<1> USE Names DEF IInv, TypeOK, Closing, Crashed, onceVars, objVars, regVars,
    CallPC, InitPC, ClosePC
<1>1. Labels'
  <2>1. Label(t)'
    BY <1>a, <1>b DEF Labels, Label
  <2>2. ASSUME NEW u \in Threads \ {t} PROVE Label(u)'
    BY <1>a, <1>b DEF Labels, Label
  <2> QED
    BY <2>1, <2>2 DEF Labels
<1>2. ClosedApart'
  <2>1. ~Closing(t)' /\ (Closing(t) => pc'[t] = "idle")
    BY <1>a, <1>b DEF Labels, Label
  <2>2. \A u \in Threads \ {t} : Closing(u)' <=> Closing(u)
    BY <1>a, <1>b
  <2> QED
    BY <1>a, <1>b, <2>1, <2>2 DEF ClosedApart
<1>3. RunnerTook'
  <2>2. \A u \in Threads : \A o \in Onces : Running(u, o)' => Running(u, o)
    BY <1>d, <1>e
  <2>3. \A o \in Onces : done'[o] => taken[o]
    BY <1>a, <1>c DEF RunnerTook
  <2> QED
    BY <1>a, <2>2, <2>3 DEF RunnerTook
<1>4. OneRunner'
  <2> SUFFICES ASSUME NEW o \in Onces, NEW u \in Threads, NEW v \in Threads,
                      Running(u, o)', Running(v, o)'
               PROVE  ~done'[o] /\ u = v
    BY DEF OneRunner
  <2>1. Running(u, o) /\ Running(v, o) /\ o # on[t]
    BY ZenonT(60), <1>c, <1>d, <1>e
  <2> QED
    BY <1>a, <2>1 DEF OneRunner
<1>5. Entries'
  <2>1. on[t] \in Classes \/ on[t] = Mutex => \A u \in Threads : pc[u] \notin ClosePC
    BY <1>a DEF ClosedApart, Labels, Label
  <2>2. on[t] = Final => \A c \in Classes : done'[c] = done[c]
    BY ZenonT(60), <1>a
  <2> QED
    BY <1>a, <1>b, <2>1, <2>2 DEF Entries, Onces
<1>6. DoneIsLive'
  <2>1. \A c \in Classes : done'[c] => done[c] \/ instance[c] \in live[c]
    BY <1>a, <1>b, <1>c DEF ReturnIsLive, Labels, Label
  <2> SUFFICES ASSUME NEW c \in Classes, done'[c], instance[c] \notin live[c]
               PROVE  \E u \in Threads : pc'[u] \in {"null", "undone"} /\ table[idx'[u]] = c
    BY <1>a DEF DoneIsLive
  <2>2. PICK u \in Threads : pc[u] \in {"null", "undone"} /\ table[idx[u]] = c
    BY <2>1 DEF DoneIsLive
  <2> QED
    BY <1>a, <1>b, <2>2
<1>7. ReturnIsLive'
  BY <1>a, <1>b DEF ReturnIsLive
<1>8. HeldIsLive'
  BY <1>a, <1>b DEF HeldIsLive
<1> QED
  BY <1>1, <1>2, <1>3, <1>4, <1>5, <1>6, <1>7, <1>8

\* NewMutex keeps the inductive invariant.
LEMMA StepNewMutex ==
  ASSUME Apart, IInv, ~Crashed, NEW t \in Threads, NewMutex(t), TypeOK' PROVE IInv'
<1> USE Names, ThreadsAssumption, ClassesAssumption DEF IInv, TypeOK, Labels, Label,
  Closing, Running, Crashed, onceVars, objVars, regVars, Goto, Enter,
  CallPC, InitPC, ClosePC, NewMutex
<1>1. Labels' /\ ClosedApart' /\ HeldIsLive'
  BY SMTT(30) DEF ClosedApart, HeldIsLive, ReturnIsLive
<1>2. RunnerTook' /\ OneRunner'
  BY SMTT(30) DEF RunnerTook, OneRunner, ClosedApart
<1>3. Entries' /\ ReturnIsLive'
  BY DEF Entries, ReturnIsLive, ClosedApart
<1>4. DoneIsLive'
  BY KeepsInstances
<1> QED
  BY <1>1, <1>2, <1>3, <1>4

\* Lock keeps the inductive invariant.
LEMMA StepLock ==
  ASSUME Apart, IInv, ~Crashed, NEW t \in Threads, Lock(t), TypeOK' PROVE IInv'
<1> USE Names, ThreadsAssumption, ClassesAssumption DEF IInv, TypeOK, Labels, Label,
  Closing, Running, Crashed, onceVars, objVars, regVars, Goto, Enter,
  CallPC, InitPC, ClosePC, Lock
<1>1. Labels'
  <2>1. pc'[t] \in {"push", "fault"} /\ pc[t] = "lock"
    OBVIOUS
  <2>2. \A u \in Threads \ {t} : pc'[u] = pc[u]
    OBVIOUS
  <2> QED
    BY <2>1, <2>2 DEF Labels, Label
<1>2. ClosedApart'
  BY DEF ClosedApart
<1>3. RunnerTook'
  BY DEF RunnerTook, OneRunner, ClosedApart, Entries
<1>4. OneRunner'
  BY SMTT(30) DEF OneRunner, RunnerTook, ClosedApart
<1>5. Entries'
  BY DEF Entries, ClosedApart, OneRunner
<1>6. DoneIsLive'
  BY KeepsInstances
<1>7. ReturnIsLive'
  BY DEF ReturnIsLive, ClosedApart, OneRunner, DoneIsLive
<1>8. HeldIsLive'
  BY DEF HeldIsLive, ClosedApart, ReturnIsLive
<1> QED
  BY <1>1, <1>2, <1>3, <1>4, <1>5, <1>6, <1>7, <1>8

\* Push keeps the inductive invariant.
LEMMA StepPush ==
  ASSUME Apart, IInv, ~Crashed, NEW t \in Threads, Push(t), TypeOK' PROVE IInv'
<1> USE Names, ThreadsAssumption, ClassesAssumption DEF IInv, TypeOK, Labels, Label,
  Closing, Running, Crashed, onceVars, objVars, regVars, Goto, Enter,
  CallPC, InitPC, ClosePC, Push
<1>1. Labels'
  BY DEF Labels
<1>2. ClosedApart'
  BY DEF ClosedApart
<1>3. RunnerTook'
  BY DEF RunnerTook, OneRunner, ClosedApart, Entries
<1>4. OneRunner'
  BY SMTT(30) DEF OneRunner, RunnerTook, ClosedApart
<1>5. Entries'
  <2>1. CASE size < MaxFinalizers
    <3>1. size' <= MaxFinalizers
      BY <2>1, MaxAssumption
    <3> QED
      BY <2>1, <3>1 DEF Entries
  <2>2. CASE ~(size < MaxFinalizers)
    <3>1. Crashed'
      BY <2>2
    <3> QED
      BY <2>2, <3>1 DEF Entries
  <2> QED
    BY <2>1, <2>2
<1>6. DoneIsLive'
  BY KeepsInstances
<1>7. ReturnIsLive'
  BY DEF ReturnIsLive, ClosedApart, OneRunner, DoneIsLive
<1>8. HeldIsLive'
  BY DEF HeldIsLive, ClosedApart, ReturnIsLive
<1> QED
  BY <1>1, <1>2, <1>3, <1>4, <1>5, <1>6, <1>7, <1>8

\* Write keeps the inductive invariant.
LEMMA StepWrite ==
  ASSUME Apart, IInv, ~Crashed, NEW t \in Threads, Write(t), TypeOK' PROVE IInv'
<1> USE Names, ThreadsAssumption, ClassesAssumption DEF IInv, TypeOK, Labels, Label,
  Closing, Running, Crashed, onceVars, objVars, regVars, Goto, Enter,
  CallPC, InitPC, ClosePC, Write
<1>1. Labels'
  BY DEF Labels
<1>2. ClosedApart'
  BY DEF ClosedApart
<1>3. RunnerTook'
  BY DEF RunnerTook, OneRunner, ClosedApart, Entries
<1>4. OneRunner'
  BY DEF OneRunner, RunnerTook, ClosedApart
<1>5. Entries'
  BY DEF Entries, ClosedApart, OneRunner
<1>6. DoneIsLive'
  <2>1. \A u \in Threads : pc[u] \notin {"null", "undone"}
    BY ZenonT(60) DEF ClosedApart
  <2> QED
    BY <2>1 DEF DoneIsLive
<1>7. ReturnIsLive'
  BY DEF ReturnIsLive, ClosedApart, OneRunner, DoneIsLive
<1>8. HeldIsLive'
  BY DEF HeldIsLive, ClosedApart, ReturnIsLive
<1> QED
  BY <1>1, <1>2, <1>3, <1>4, <1>5, <1>6, <1>7, <1>8

\* Unlock keeps the inductive invariant.
LEMMA StepUnlock ==
  ASSUME Apart, IInv, ~Crashed, NEW t \in Threads, Unlock(t), TypeOK' PROVE IInv'
<1> USE Names, ThreadsAssumption, ClassesAssumption DEF IInv, TypeOK, Labels, Label,
  Closing, Running, Crashed, onceVars, objVars, regVars, Goto, Enter,
  CallPC, InitPC, ClosePC, Unlock
<1>1. Labels' /\ ClosedApart' /\ HeldIsLive'
  BY DEF ClosedApart, HeldIsLive, ReturnIsLive
<1>2. RunnerTook' /\ OneRunner'
  BY DEF RunnerTook, OneRunner, ClosedApart
<1>3. Entries' /\ ReturnIsLive'
  BY DEF Entries, ReturnIsLive, ClosedApart
<1>4. DoneIsLive'
  BY KeepsInstances
<1> QED
  BY <1>1, <1>2, <1>3, <1>4

\* New keeps the inductive invariant.
LEMMA StepNew ==
  ASSUME Apart, IInv, ~Crashed, NEW t \in Threads, New(t), TypeOK' PROVE IInv'
<1> USE Names, ThreadsAssumption, ClassesAssumption DEF IInv, TypeOK, Labels, Label,
  Closing, Running, Crashed, onceVars, objVars, regVars, Goto, Enter,
  CallPC, InitPC, ClosePC, New
<1>1. Labels'
  BY DEF Labels
<1>2. ClosedApart'
  BY DEF ClosedApart
<1>3. RunnerTook'
  BY DEF RunnerTook, OneRunner, ClosedApart, Entries
<1>4. OneRunner'
  BY SMTT(30) DEF OneRunner, RunnerTook, ClosedApart
<1>5. Entries'
  BY DEF Entries, ClosedApart, OneRunner
<1>6. DoneIsLive'
  BY DEF DoneIsLive, ClosedApart, OneRunner, Entries
<1>7. ReturnIsLive'
  BY DEF ReturnIsLive, ClosedApart, OneRunner, DoneIsLive
<1>8. HeldIsLive'
  BY DEF HeldIsLive, ClosedApart, ReturnIsLive
<1> QED
  BY <1>1, <1>2, <1>3, <1>4, <1>5, <1>6, <1>7, <1>8

\* Throw keeps the inductive invariant.
LEMMA StepThrow ==
  ASSUME Apart, IInv, ~Crashed, NEW t \in Threads, Throw(t), TypeOK' PROVE IInv'
<1> USE Names, ThreadsAssumption, ClassesAssumption DEF IInv, TypeOK, Labels, Label,
  Closing, Running, Crashed, onceVars, objVars, regVars, Goto, Enter,
  CallPC, InitPC, ClosePC, Throw
<1>1. Labels' /\ ClosedApart' /\ HeldIsLive'
  BY DEF ClosedApart, HeldIsLive, ReturnIsLive
<1>2. RunnerTook' /\ OneRunner'
  BY SMTT(30) DEF RunnerTook, OneRunner, ClosedApart
<1>3. Entries' /\ ReturnIsLive'
  BY DEF Entries, ReturnIsLive, ClosedApart
<1>4. DoneIsLive'
  BY KeepsInstances
<1> QED
  BY <1>1, <1>2, <1>3, <1>4

\* Return keeps the inductive invariant.
LEMMA StepReturn ==
  ASSUME Apart, IInv, ~Crashed, NEW t \in Threads, Return(t), TypeOK' PROVE IInv'
<1> USE Names, ThreadsAssumption, ClassesAssumption DEF IInv, TypeOK, Labels, Label,
  Closing, Running, Crashed, onceVars, objVars, regVars, Goto, Enter,
  CallPC, InitPC, ClosePC, Return
<1>1. Labels' /\ ClosedApart' /\ HeldIsLive'
  BY DEF ClosedApart, HeldIsLive, ReturnIsLive
<1>2. RunnerTook' /\ OneRunner'
  BY SMTT(30) DEF RunnerTook, OneRunner, ClosedApart
<1>3. Entries' /\ ReturnIsLive'
  BY DEF Entries, ReturnIsLive, ClosedApart
<1>4. DoneIsLive'
  BY KeepsInstances
<1> QED
  BY <1>1, <1>2, <1>3, <1>4

\* Release keeps the inductive invariant.
LEMMA StepRelease ==
  ASSUME Apart, IInv, ~Crashed, NEW t \in Threads, Release(t), TypeOK' PROVE IInv'
<1> USE Names, ThreadsAssumption, ClassesAssumption DEF IInv, TypeOK, Labels, Label,
  Closing, Running, Crashed, onceVars, objVars, regVars, Goto, Enter,
  CallPC, InitPC, ClosePC, Release
<1>1. Labels' /\ ClosedApart' /\ HeldIsLive'
  BY DEF ClosedApart, HeldIsLive, ReturnIsLive
<1>2. RunnerTook' /\ OneRunner'
  BY SMTT(30) DEF RunnerTook, OneRunner, ClosedApart
<1>3. Entries' /\ ReturnIsLive'
  BY DEF Entries, ReturnIsLive, ClosedApart
<1>4. DoneIsLive'
  BY KeepsInstances
<1> QED
  BY <1>1, <1>2, <1>3, <1>4

\* Count keeps the inductive invariant.
LEMMA StepCount ==
  ASSUME Apart, IInv, ~Crashed, NEW t \in Threads, Count(t), TypeOK' PROVE IInv'
<1> USE Names, ThreadsAssumption, ClassesAssumption DEF IInv, TypeOK, Labels, Label,
  Closing, Running, Crashed, onceVars, objVars, regVars, Goto, Enter,
  CallPC, InitPC, ClosePC, Count
<1>1. Labels' /\ ClosedApart' /\ HeldIsLive'
  BY DEF ClosedApart, HeldIsLive, ReturnIsLive
<1>2. RunnerTook' /\ OneRunner'
  BY SMTT(30) DEF RunnerTook, OneRunner, ClosedApart
<1>3. Entries' /\ ReturnIsLive'
  BY DEF Entries, ReturnIsLive, ClosedApart
<1>4. DoneIsLive'
  BY KeepsInstances
<1> QED
  BY <1>1, <1>2, <1>3, <1>4

\* NextFinalizer keeps the inductive invariant.
LEMMA StepNextFinalizer ==
  ASSUME Apart, IInv, ~Crashed, NEW t \in Threads, NextFinalizer(t), TypeOK' PROVE IInv'
<1>a. /\ pc[t] = "next" /\ on' = on /\ on[t] = Final
      /\ pc'[t] \in {"full", "delete", "fault"}
      /\ \A u \in Threads \ {t} : pc'[u] = pc[u] /\ idx'[u] = idx[u]
      /\ UNCHANGED <<done, taken, cls, instance, made, live, got, table, size, mutex>>
  <2> USE DEF NextFinalizer, Goto, IInv, TypeOK, Labels, Label, ClosePC, onceVars, objVars, regVars
  <2>1. CASE idx[t] = 0
    BY <2>1
  <2>2. CASE idx[t] # 0
    BY <2>2
  <2> QED
    BY <2>1, <2>2
<1>b. pc'[t] = "delete" => idx'[t] < MaxFinalizers /\ table[idx'[t]] \in Classes
  <2> SUFFICES ASSUME pc'[t] = "delete" PROVE idx'[t] < MaxFinalizers /\ table[idx'[t]] \in Classes
    OBVIOUS
  <2>1. idx[t] # 0 /\ idx'[t] = idx[t] - 1 /\ table[idx[t] - 1] # None
    BY DEF NextFinalizer, Goto, IInv, TypeOK
  <2>2. idx[t] \in Nat /\ idx[t] <= MaxFinalizers
    BY <1>a DEF IInv, TypeOK, Entries
  <2>3. idx[t] - 1 \in 0 .. MaxFinalizers - 1
    BY <2>1, <2>2, MaxAssumption
  <2> QED
    BY SMTT(30), <2>1, <2>2, <2>3, MaxAssumption DEF IInv, TypeOK
<1>c. \A u \in Threads : \A o \in Onces : Running(u, o)' => Running(u, o)
  BY <1>a DEF Running, IInv, TypeOK, ClosePC, CallPC, InitPC
<1> USE Names DEF IInv, TypeOK, Closing, Crashed, onceVars, objVars, regVars,
    CallPC, InitPC, ClosePC
<1>1. Labels'
  <2>1. Label(t)'
    BY <1>a DEF Labels, Label
  <2>2. ASSUME NEW u \in Threads \ {t} PROVE Label(u)'
    BY <1>a DEF Labels, Label
  <2> QED
    BY <2>1, <2>2 DEF Labels
<1>2. ClosedApart'
  BY <1>a DEF ClosedApart
<1>3. RunnerTook'
  BY <1>a, <1>c, FewerRunners
<1>4. OneRunner'
  BY <1>a, <1>c, FewerRunners
<1>5. Entries'
  <2>1. ~Crashed => size' <= MaxFinalizers
    BY <1>a DEF Entries
  <2>2. \A u \in Threads \ {t} :
          /\ pc'[u] = "next" => idx'[u] <= MaxFinalizers
          /\ pc'[u] \in {"delete", "null", "undone", "untake"} =>
               idx'[u] < MaxFinalizers /\ table'[idx'[u]] \in Classes
          /\ pc'[u] = "untake" => ~done'[table'[idx'[u]]]
    BY <1>a DEF Entries
  <2> QED
    BY <1>a, <1>b, <2>1, <2>2 DEF Entries
<1>6. DoneIsLive'
  BY <1>a, KeepsInstances
<1>7. ReturnIsLive'
  BY <1>a DEF ReturnIsLive
<1>8. HeldIsLive'
  BY <1>a DEF HeldIsLive
<1> QED
  BY <1>1, <1>2, <1>3, <1>4, <1>5, <1>6, <1>7, <1>8

\* Delete keeps the inductive invariant.
LEMMA StepDelete ==
  ASSUME Apart, IInv, ~Crashed, NEW t \in Threads, Delete(t), TypeOK' PROVE IInv'
<1> USE Names, ThreadsAssumption, ClassesAssumption DEF IInv, TypeOK, Labels, Label,
  Closing, Running, Crashed, onceVars, objVars, regVars, Goto, Enter,
  CallPC, InitPC, ClosePC, Delete
<1>1. Labels'
  BY DEF Labels
<1>2. ClosedApart'
  BY DEF ClosedApart
<1>3. RunnerTook'
  BY SMTT(30) DEF RunnerTook, OneRunner, ClosedApart, Entries
<1>4. OneRunner'
  BY SMTT(30) DEF OneRunner, RunnerTook, ClosedApart
<1>5. Entries'
  BY DEF Entries, ClosedApart, OneRunner
<1>6. DoneIsLive'
  <2>1. \A c \in Classes \ {table[idx[t]]} : instance[c] \in live[c] => instance[c] \in live'[c]
    OBVIOUS
  <2>2. pc'[t] \in {"null", "fault"} /\ table' = table /\ idx' = idx /\ pc[t] = "delete"
    OBVIOUS
  <2>3. \A u \in Threads : u # t => pc'[u] = pc[u]
    OBVIOUS
  <2>4. done' = done /\ instance' = instance
    OBVIOUS
  <2>5. Crashed' \/ pc'[t] = "null"
    BY <2>2
  <2> SUFFICES ASSUME NEW c \in Classes, done[c], ~Crashed', instance[c] \notin live'[c]
               PROVE  \E u \in Threads : pc'[u] \in {"null", "undone"} /\ table[idx[u]] = c
    <3> HIDE DEF Crashed, Delete, IInv, TypeOK, Running, Goto
    <3> QED
      BY <2>2, <2>4 DEF DoneIsLive
  <2>6. CASE c = table[idx[t]]
    BY <2>5, <2>6
  <2>7. CASE c # table[idx[t]]
    <3>1. PICK u \in Threads : pc[u] \in {"null", "undone"} /\ table[idx[u]] = c
      BY <2>1, <2>7 DEF DoneIsLive
    <3> QED
      BY <2>2, <2>3, <3>1
  <2> QED
    BY <2>6, <2>7
<1>7. ReturnIsLive'
  <2>1. pc[t] = "delete" /\ pc'[t] \in {"null", "fault"}
    OBVIOUS
  <2>2. \A u \in Threads \ {t} : pc'[u] = pc[u]
    OBVIOUS
  <2>3. \A u \in Threads : pc[u] = "idle" \/ (on[u] = Final /\ pc[u] # "return")
    <3>1. Closing(t)
      BY <2>1
    <3>2. \A u \in Threads : pc[u] = "idle" \/ Closing(u)
      BY <3>1 DEF ClosedApart
    <3> QED
      BY <3>2
  <2> QED
    BY <2>1, <2>2, <2>3 DEF ReturnIsLive
<1>8. HeldIsLive'
  BY ZenonT(60) DEF HeldIsLive, ClosedApart, ReturnIsLive
<1> QED
  BY <1>1, <1>2, <1>3, <1>4, <1>5, <1>6, <1>7, <1>8

\* Null keeps the inductive invariant.
LEMMA StepNull ==
  ASSUME Apart, IInv, ~Crashed, NEW t \in Threads, Null(t), TypeOK' PROVE IInv'
<1> USE Names, ThreadsAssumption, ClassesAssumption DEF IInv, TypeOK, Labels, Label,
  Closing, Running, Crashed, onceVars, objVars, regVars, Goto, Enter,
  CallPC, InitPC, ClosePC, Null
<1>1. Labels'
  BY DEF Labels
<1>2. ClosedApart'
  BY DEF ClosedApart
<1>3. RunnerTook'
  BY SMTT(30) DEF RunnerTook, OneRunner, ClosedApart, Entries
<1>4. OneRunner'
  BY SMTT(30) DEF OneRunner, RunnerTook, ClosedApart
<1>5. Entries'
  BY DEF Entries, ClosedApart, OneRunner
<1>6. DoneIsLive'
  <2>1. pc[t] = "null" /\ pc'[t] = "undone" /\ table' = table /\ idx' = idx /\ done' = done /\ live' = live
    OBVIOUS
  <2>2. \A u \in Threads \ {t} : pc'[u] = pc[u]
    OBVIOUS
  <2>3. \A c \in Classes \ {table[idx[t]]} : instance'[c] = instance[c]
    OBVIOUS
  <2> QED
    BY <2>1, <2>2, <2>3 DEF DoneIsLive
<1>7. ReturnIsLive'
  BY SMTT(30) DEF ReturnIsLive, ClosedApart, OneRunner, DoneIsLive
<1>8. HeldIsLive'
  BY DEF HeldIsLive, ClosedApart, ReturnIsLive
<1> QED
  BY <1>1, <1>2, <1>3, <1>4, <1>5, <1>6, <1>7, <1>8

\* Undone keeps the inductive invariant.
LEMMA StepUndone ==
  ASSUME Apart, IInv, ~Crashed, NEW t \in Threads, Undone(t), TypeOK' PROVE IInv'
<1> USE Names, ThreadsAssumption, ClassesAssumption DEF IInv, TypeOK, Labels, Label,
  Closing, Running, Crashed, onceVars, objVars, regVars, Goto, Enter,
  CallPC, InitPC, ClosePC, Undone
<1>1. Labels'
  BY DEF Labels
<1>2. ClosedApart'
  BY SMTT(30) DEF ClosedApart
<1>3. RunnerTook'
  BY SMTT(30) DEF RunnerTook, OneRunner, ClosedApart, Entries
<1>4. OneRunner'
  BY DEF OneRunner, RunnerTook, ClosedApart
<1>5. Entries'
  BY SMTT(30) DEF Entries, ClosedApart, OneRunner
<1>6. DoneIsLive'
  <2>1. pc[t] = "undone" /\ pc'[t] = "untake"
    OBVIOUS
  <2>2. UNCHANGED <<table, idx, instance, live>>
    OBVIOUS
  <2>3. \A u \in Threads \ {t} : pc'[u] = pc[u]
    OBVIOUS
  <2>4. table[idx[t]] \in Classes
    BY <2>1 DEF Entries
  <2>5. \A c \in Classes : done'[c] => done[c] /\ c # table[idx[t]]
    BY <2>4
  <2> SUFFICES ASSUME NEW c \in Classes, done'[c], instance[c] \notin live[c]
               PROVE  \E u \in Threads : pc'[u] \in {"null", "undone"} /\ table[idx[u]] = c
    BY <2>2 DEF DoneIsLive
  <2>6. PICK u \in Threads : pc[u] \in {"null", "undone"} /\ table[idx[u]] = c
    BY <2>5 DEF DoneIsLive
  <2> QED
    BY <2>3, <2>5, <2>6
<1>7. ReturnIsLive'
  BY DEF ReturnIsLive, ClosedApart, OneRunner, DoneIsLive
<1>8. HeldIsLive'
  BY DEF HeldIsLive, ClosedApart, ReturnIsLive
<1> QED
  BY <1>1, <1>2, <1>3, <1>4, <1>5, <1>6, <1>7, <1>8

\* Untake keeps the inductive invariant.
LEMMA StepUntake ==
  ASSUME Apart, IInv, ~Crashed, NEW t \in Threads, Untake(t), TypeOK' PROVE IInv'
<1> USE Names, ThreadsAssumption, ClassesAssumption DEF IInv, TypeOK, Labels, Label,
  Closing, Running, Crashed, onceVars, objVars, regVars, Goto, Enter,
  CallPC, InitPC, ClosePC, Untake
<1>1. Labels'
  BY DEF Labels
<1>2. ClosedApart'
  BY SMTT(30) DEF ClosedApart
<1>3. RunnerTook'
  <2>1. pc[t] = "untake" /\ table[idx[t]] \in Classes /\ ~done[table[idx[t]]]
    BY DEF Entries
  <2>2. \A u \in Threads : ~Running(u, table[idx[t]])
    BY ZenonT(60), <2>1 DEF ClosedApart
  <2>3. \A u \in Threads : \A o \in Onces : Running(u, o)' => Running(u, o)
    OBVIOUS
  <2>4. \A o \in Onces : o # table[idx[t]] => taken'[o] = taken[o]
    OBVIOUS
  <2> HIDE DEF Running, Untake
  <2> QED
    BY <2>1, <2>2, <2>3, <2>4 DEF RunnerTook, Untake
<1>4. OneRunner'
  BY DEF OneRunner, RunnerTook, ClosedApart
<1>5. Entries'
  <2>1. pc[t] = "untake" /\ pc'[t] = "next" /\ UNCHANGED <<idx, table, done, size>>
    OBVIOUS
  <2>2. \A u \in Threads \ {t} : pc'[u] = pc[u]
    OBVIOUS
  <2>3. idx[t] < MaxFinalizers
    BY <2>1 DEF Entries
  <2>4. idx[t] <= MaxFinalizers
    BY <2>3, MaxAssumption
  <2> QED
    BY <2>1, <2>2, <2>4 DEF Entries
<1>6. DoneIsLive'
  BY KeepsInstances
<1>7. ReturnIsLive'
  BY DEF ReturnIsLive, ClosedApart, OneRunner, DoneIsLive
<1>8. HeldIsLive'
  BY DEF HeldIsLive, ClosedApart, ReturnIsLive
<1> QED
  BY <1>1, <1>2, <1>3, <1>4, <1>5, <1>6, <1>7, <1>8

\* Full keeps the inductive invariant.
LEMMA StepFull ==
  ASSUME Apart, IInv, ~Crashed, NEW t \in Threads, Full(t), TypeOK' PROVE IInv'
<1> USE Names, ThreadsAssumption, ClassesAssumption DEF IInv, TypeOK, Labels, Label,
  Closing, Running, Crashed, onceVars, objVars, regVars, Goto, Enter,
  CallPC, InitPC, ClosePC, Full
<1>1. Labels' /\ ClosedApart' /\ HeldIsLive'
  BY DEF ClosedApart, HeldIsLive, ReturnIsLive
<1>2. RunnerTook' /\ OneRunner'
  BY SMTT(30) DEF RunnerTook, OneRunner, ClosedApart
<1>3. Entries' /\ ReturnIsLive'
  BY DEF Entries, ReturnIsLive, ClosedApart
<1>4. DoneIsLive'
  BY KeepsInstances
<1> QED
  BY <1>1, <1>2, <1>3, <1>4

\* Drop keeps the inductive invariant.
LEMMA StepDrop ==
  ASSUME Apart, IInv, ~Crashed, NEW t \in Threads, Drop(t), TypeOK' PROVE IInv'
<1> USE Names, ThreadsAssumption, ClassesAssumption DEF IInv, TypeOK, Labels, Label,
  Closing, Running, Crashed, onceVars, objVars, regVars, Goto, Enter,
  CallPC, InitPC, ClosePC, Drop
<1>1. Labels' /\ ClosedApart' /\ HeldIsLive'
  BY SMTT(30) DEF ClosedApart, HeldIsLive, ReturnIsLive
<1>2. RunnerTook' /\ OneRunner'
  BY SMTT(30) DEF RunnerTook, OneRunner, ClosedApart
<1>3. Entries' /\ ReturnIsLive'
  BY DEF Entries, ReturnIsLive, ClosedApart
<1>4. DoneIsLive'
  BY KeepsInstances
<1> QED
  BY <1>1, <1>2, <1>3, <1>4

\* Get keeps the inductive invariant.
LEMMA StepGet ==
  ASSUME Apart, IInv, ~Crashed, NEW t \in Threads, Get(t), TypeOK' PROVE IInv'
<1> USE Names, ThreadsAssumption, ClassesAssumption DEF IInv, TypeOK, Labels, Label,
  Closing, Running, Crashed, onceVars, objVars, regVars, Goto, Enter,
  CallPC, InitPC, ClosePC, Get
<1>1. Labels'
  BY DEF Labels
<1>2. ClosedApart'
  BY DEF ClosedApart
<1>3. RunnerTook'
  BY SMTT(30) DEF RunnerTook, OneRunner, ClosedApart, Entries
<1>4. OneRunner'
  BY DEF OneRunner, RunnerTook, ClosedApart
<1>5. Entries'
  BY DEF Entries, ClosedApart, OneRunner
<1>6. DoneIsLive'
  BY KeepsInstances
<1>7. ReturnIsLive'
  BY DEF ReturnIsLive, ClosedApart, OneRunner, DoneIsLive
<1>8. HeldIsLive'
  BY DEF HeldIsLive, ClosedApart, ReturnIsLive
<1> QED
  BY <1>1, <1>2, <1>3, <1>4, <1>5, <1>6, <1>7, <1>8

\* Finalize keeps the inductive invariant.
LEMMA StepFinalize ==
  ASSUME Apart, IInv, ~Crashed, NEW t \in Threads, Finalize(t), TypeOK' PROVE IInv'
<1> USE Names, ThreadsAssumption, ClassesAssumption DEF IInv, TypeOK, Labels, Label,
  Closing, Running, Crashed, onceVars, objVars, regVars, Goto, Enter,
  CallPC, InitPC, ClosePC, Finalize
<1>1. Labels' /\ ClosedApart' /\ HeldIsLive'
  BY DEF ClosedApart, HeldIsLive, ReturnIsLive
<1>2. RunnerTook' /\ OneRunner'
  BY SMTT(30) DEF RunnerTook, OneRunner, ClosedApart
<1>3. Entries' /\ ReturnIsLive'
  BY DEF Entries, ReturnIsLive, ClosedApart
<1>4. DoneIsLive'
  BY KeepsInstances
<1> QED
  BY <1>1, <1>2, <1>3, <1>4

-----------------------------------------------------------------------------
\* The inductive invariant holds at the start.
LEMMA InitIInv == Init => IInv
<1> SUFFICES ASSUME Init PROVE IInv
  OBVIOUS
<1>1. TypeOK
  BY Names, MaxAssumption DEF Init, TypeOK, PCs
<1> QED
  BY <1>1, Names, MaxAssumption DEF Init, IInv, Labels, Label, ClosedApart, Closing,
     RunnerTook, OneRunner, Running, Entries, DoneIsLive, ReturnIsLive, HeldIsLive,
     Crashed, CallPC, InitPC, ClosePC

\* Every step keeps it, when Finalize is kept apart.
LEMMA StepIInv == ASSUME Apart PROVE IInv /\ [Next]_vars => IInv'
<1> SUFFICES ASSUME IInv, [Next]_vars PROVE IInv'
  OBVIOUS
<1>1. TypeOK'
  BY StepTypeOK DEF IInv
<1>2. CASE UNCHANGED vars
  BY <1>2 DEF vars, IInv, TypeOK, Labels, Label, ClosedApart, Closing, RunnerTook,
     OneRunner, Running, Entries, DoneIsLive, ReturnIsLive, HeldIsLive, Crashed
<1>3. ASSUME NEW t \in Threads, Get(t) \/ Finalize(t) PROVE IInv'
  <2>1. ~Crashed
    BY <1>3 DEF Get, Finalize, Enter, Goto
  <2> QED
    BY <1>1, <1>3, <2>1, StepGet, StepFinalize
<1>4. ASSUME NEW t \in Threads, GetStep(t) PROVE IInv'
  <2>1. ~Crashed
    BY <1>4 DEF GetStep, Test, Swap, Spin, Finish, NewMutex, Lock, Push, Write, Unlock,
       New, Throw, Return, Release, Leave, Goto
  <2> QED
    BY <1>1, <1>4, <2>1, StepTest, StepSwap, StepSpin, StepFinish, StepNewMutex,
       StepLock, StepPush, StepWrite, StepUnlock, StepNew, StepThrow, StepReturn,
       StepRelease DEF GetStep
<1>5. ASSUME NEW t \in Threads, CloseStep(t) PROVE IInv'
  <2>1. ~Crashed
    BY <1>5 DEF CloseStep, Count, NextFinalizer, Delete, Null, Undone, Untake, Full,
       Drop, Goto
  <2> QED
    BY <1>1, <1>5, <2>1, StepCount, StepNextFinalizer, StepDelete, StepNull,
       StepUndone, StepUntake, StepFull, StepDrop DEF CloseStep
<1> QED
  BY <1>2, <1>3, <1>4, <1>5 DEF Next

\* Every variable keeps its type, whatever the callers do.
THEOREM TypeCorrect == Spec => []TypeOK
<1>1. Init => TypeOK
  BY Names, MaxAssumption DEF Init, TypeOK, PCs
<1> QED
  BY <1>1, StepTypeOK, PTL DEF Spec

\* The inductive invariant, of every process that keeps Finalize apart.
THEOREM Invariance == ASSUME Apart PROVE Spec => []IInv
BY InitIInv, StepIInv, PTL DEF Spec

\* CallOnce runs its function in one thread at a time and not when it is done,
\* for any number of threads and types, resets by Finalize included.
THEOREM RunsOnce == ASSUME Apart PROVE Spec => []OneRunner
<1>1. IInv => OneRunner
  BY DEF IInv
<1> QED
  BY <1>1, Invariance, PTL

\* No caller of get() ever works with a null or a destroyed object.
THEOREM NoDanglingInstance == ASSUME Apart PROVE Spec => []HeldIsLive
<1>1. IInv => HeldIsLive
  BY DEF IInv
<1> QED
  BY <1>1, Invariance, PTL

-----------------------------------------------------------------------------
(* The objects and their teardown.                                         *)

\* Who is in the critical section holds the mutex, which is there by then.
Guarded ==
  \A t \in Threads :
    /\ pc[t] \in {"push", "write", "unlock"} => mutex = t
    /\ pc[t] \in InitPC => done[Mutex]

\* The finalizers have run, and the table is being closed or is closed.
Ended == done[Final] \/ \E t \in Threads : on[t] = Final /\ pc[t] \in {"drop", "finish"}

Indices == 0 .. MaxFinalizers - 1
Entered(c) == \E i \in Indices : table[i] = c

\* No entry is used twice and no type has two; one that was taken but is not
\* yet written is that of the thread in the critical section.
Table ==
  /\ \A i \in Indices : i >= size => table[i] = None
  /\ \A i, j \in Indices : table[i] = table[j] /\ table[i] # None => i = j
  /\ \A t \in Threads : pc[t] = "write" =>
       idx[t] = size - 1 /\ idx[t] \in Indices /\ table[idx[t]] = None
  /\ Ended => size >= MaxFinalizers

\* Finalize is at work or over, once it has begun; it leaves no get() in the
\* middle of registering an object.
Closed ==
  taken[Final] =>
    /\ Crashed \/ done[Final] \/ \E t \in Threads : Running(t, Final)
    /\ \A t \in Threads : pc[t] \notin {"write", "unlock", "new"}

\* A type has an entry, and an object, only when its CallOnce was won; the
\* winner makes the first of each.
First ==
  /\ \A c \in Classes :
       /\ Entered(c) \/ made[c] > 0 => taken[c] \/ taken[Final]
       /\ made[c] > 0 => Entered(c)
  /\ \A t \in Threads :
       /\ pc[t] \in {"unlock", "new"} => Entered(cls[t])
       /\ ~taken[Final] /\ Running(t, cls[t]) =>
            /\ ~(on[t] = cls[t] /\ pc[t] = "finish") => made[cls[t]] = 0
            /\ ~(on[t] = cls[t] /\ pc[t] \in {"unlock", "new", "finish"}) => ~Entered(cls[t])

\* The first object of a type is its only one.
Single ==
  \A c \in Classes :
    /\ made[c] <= 1 /\ live[c] \subseteq {1} /\ instance[c] \in {0, made[c]}
    /\ made[c] = 0 => live[c] = {}

There(c) == made[c] = 1 => live[c] = {1} /\ instance[c] = 1
Gone(c)  == live[c] = {} /\ instance[c] = 0

\* The steps of DeleteSingleton before the table is closed.
Tearing == {"count", "next", "delete", "null", "undone", "untake", "full"}

\* What DeleteSingleton has not come to is there, what it has is gone.
Torn(t) ==
  /\ pc[t] = "count" => \A c \in Classes : There(c)
  /\ pc[t] \in Tearing \ {"count", "full"} =>
       \A i \in Indices : table[i] # None =>
         /\ i < idx[t] => There(table[i])
         /\ i > idx[t] => Gone(table[i])
  /\ pc[t] \in {"next", "undone", "untake"} /\ idx[t] \in Indices /\ table[idx[t]] # None =>
       Gone(table[idx[t]])
  /\ pc[t] = "delete" => There(table[idx[t]])
  /\ pc[t] = "null" => live[table[idx[t]]] = {}
  /\ pc[t] = "full" => \A c \in Classes : Gone(c)

\* What was made is there until Finalize begins, and gone when it ends.
Progress ==
  /\ ~taken[Final] => \A c \in Classes : There(c)
  /\ \A t \in Threads : Torn(t)
  /\ Ended => \A c \in Classes : Gone(c)

TInv == Guarded /\ Table /\ Closed /\ First /\ Single /\ Progress

-----------------------------------------------------------------------------
\* Nobody tears down before Finalize has begun, and one thread at a time.
LEMMA OneTears ==
  ASSUME IInv
  PROVE  /\ Ended => taken[Final]
         /\ \A t \in Threads : pc[t] \in ClosePC => /\ taken[Final] /\ ~done[Final] /\ on[t] = Final
                                                    /\ \A u \in Threads \ {t} : pc[u] \notin ClosePC
         /\ \A t \in Threads : on[t] = Final /\ pc[t] = "finish" =>
              \A u \in Threads : pc[u] \notin ClosePC
BY Names DEF IInv, TypeOK, Labels, Label, RunnerTook, OneRunner, Running, Ended, ClosePC

\* Steps that leave the objects and the table alone and are none of
\* DeleteSingleton leave it where it is.
LEMMA ProgressKept ==
  ASSUME Progress, NEW t \in Threads, UNCHANGED <<objVars, table>>,
         taken[Final] => taken'[Final], Ended' => Ended, pc'[t] \notin Tearing,
         \A u \in Threads \ {t} : pc'[u] = pc[u] /\ idx'[u] = idx[u]
  PROVE  Progress'
<1>1. (~taken[Final] => \A c \in Classes : There(c))'
  BY DEF Progress, There, objVars
<1>2. ASSUME NEW u \in Threads PROVE Torn(u)'
  <2>1. CASE u = t
    BY <2>1 DEF Torn, Tearing
  <2>2. CASE u # t
    BY <2>2 DEF Progress, Torn, There, Gone, objVars
  <2> QED
    BY <2>1, <2>2
<1>3. (Ended => \A c \in Classes : Gone(c))'
  BY DEF Progress, Gone, objVars
<1> QED
  BY <1>1, <1>2, <1>3 DEF Progress

-----------------------------------------------------------------------------
(* What the steps of get() and of CallOnce do to the invariant.               *)

\* get() begins.
LEMMA GetKeeps ==
  ASSUME Apart, IInv, IInv', TInv, ~Crashed, NEW t \in Threads, Get(t) PROVE TInv'
<1> USE Names, ThreadsAssumption, ClassesAssumption, MaxAssumption DEF IInv, TInv, TypeOK,
  Labels, Label, Closing, Running, Crashed, onceVars, objVars, regVars, Goto, Enter, Leave,
  After, Body, CallPC, InitPC, ClosePC, ClosedApart, Indices, Get
<1>1. Guarded'
  BY SMTT(60) DEF Guarded, OneRunner
<1>2. Table'
  BY SMTT(60) DEF Table, Ended, Guarded
<1>3. Closed'
  BY SMTT(60) DEF Closed, Table, Ended
<1>4. First'
  BY SMTT(60) DEF First, Entered, Closed, OneRunner, RunnerTook
<1>5. Single'
  BY SMTT(60) DEF Single, First
<1>6. Progress'
  <2>1. Ended' => Ended
    BY DEF Ended
  <2> QED
    BY <2>1, ProgressKept DEF Tearing
<1> QED
  BY <1>1, <1>2, <1>3, <1>4, <1>5, <1>6 DEF TInv

\* Finalize begins.
LEMMA FinalizeKeeps ==
  ASSUME Apart, IInv, IInv', TInv, ~Crashed, NEW t \in Threads, Finalize(t) PROVE TInv'
<1> USE Names, ThreadsAssumption, ClassesAssumption, MaxAssumption DEF IInv, TInv, TypeOK,
  Labels, Label, Closing, Running, Crashed, onceVars, objVars, regVars, Goto, Enter, Leave,
  After, Body, CallPC, InitPC, ClosePC, ClosedApart, Indices, Finalize
<1>1. Guarded'
  BY SMTT(60) DEF Guarded, OneRunner
<1>2. Table'
  BY SMTT(60) DEF Table, Ended, Guarded
<1>3. Closed'
  BY SMTT(60) DEF Closed, Table, Ended
<1>4. First'
  BY SMTT(60) DEF First, Entered, Closed, OneRunner, RunnerTook
<1>5. Single'
  BY SMTT(60) DEF Single, First
<1>6. Progress'
  <2>1. Ended' => Ended
    BY DEF Ended
  <2> QED
    BY <2>1, ProgressKept DEF Tearing
<1> QED
  BY <1>1, <1>2, <1>3, <1>4, <1>5, <1>6 DEF TInv

\* The busy loop is left.
LEMMA SpinKeeps ==
  ASSUME Apart, IInv, IInv', TInv, ~Crashed, NEW t \in Threads, Spin(t) PROVE TInv'
<1> USE Names, ThreadsAssumption, ClassesAssumption, MaxAssumption DEF IInv, TInv, TypeOK,
  Labels, Label, Closing, Running, Crashed, onceVars, objVars, regVars, Goto, Enter, Leave,
  After, Body, CallPC, InitPC, ClosePC, ClosedApart, Indices, Spin
<1>1. Guarded'
  BY SMTT(60) DEF Guarded, OneRunner
<1>2. Table'
  BY SMTT(60) DEF Table, Ended, Guarded
<1>3. Closed'
  BY SMTT(60) DEF Closed, Table, Ended
<1>4. First'
  BY SMTT(60) DEF First, Entered, Closed, OneRunner, RunnerTook
<1>5. Single'
  BY SMTT(60) DEF Single, First
<1>6. Progress'
  <2>1. Ended' => Ended
    BY DEF Ended
  <2> QED
    BY <2>1, ProgressKept DEF Tearing
<1> QED
  BY <1>1, <1>2, <1>3, <1>4, <1>5, <1>6 DEF TInv

\* CallOnce is done.
LEMMA FinishKeeps ==
  ASSUME Apart, IInv, IInv', TInv, ~Crashed, NEW t \in Threads, Finish(t) PROVE TInv'
<1> USE Names, ThreadsAssumption, ClassesAssumption, MaxAssumption DEF IInv, TInv, TypeOK,
  Labels, Label, Closing, Running, Crashed, onceVars, objVars, regVars, Goto, Enter, Leave,
  After, Body, CallPC, InitPC, ClosePC, ClosedApart, Indices, Finish
<1>1. Guarded'
  BY SMTT(60) DEF Guarded, OneRunner
<1>2. Table'
  BY SMTT(60) DEF Table, Ended, Guarded
<1>3. Closed'
  BY SMTT(60) DEF Closed, Table, Ended
<1>4. First'
  BY SMTT(60) DEF First, Entered, Closed, OneRunner, RunnerTook
<1>5. Single'
  BY SMTT(60) DEF Single, First
<1>6. Progress'
  <2>1. Ended' => Ended
    BY DEF Ended
  <2> QED
    BY <2>1, ProgressKept DEF Tearing
<1> QED
  BY <1>1, <1>2, <1>3, <1>4, <1>5, <1>6 DEF TInv

\* The mutex is made before anybody locks it.
LEMMA NewMutexKeeps ==
  ASSUME Apart, IInv, IInv', TInv, ~Crashed, NEW t \in Threads, NewMutex(t) PROVE TInv'
<1> USE Names, ThreadsAssumption, ClassesAssumption, MaxAssumption DEF IInv, TInv, TypeOK,
  Labels, Label, Closing, Running, Crashed, onceVars, objVars, regVars, Goto, Enter, Leave,
  After, Body, CallPC, InitPC, ClosePC, ClosedApart, Indices, NewMutex
<1>1. Guarded'
  BY SMTT(60) DEF Guarded, OneRunner
<1>2. Table'
  BY SMTT(60) DEF Table, Ended, Guarded
<1>3. Closed'
  BY SMTT(60) DEF Closed, Table, Ended
<1>4. First'
  BY SMTT(60) DEF First, Entered, Closed, OneRunner, RunnerTook
<1>5. Single'
  BY SMTT(60) DEF Single, First
<1>6. Progress'
  <2>1. Ended' => Ended
    BY DEF Ended
  <2> QED
    BY <2>1, ProgressKept DEF Tearing
<1> QED
  BY <1>1, <1>2, <1>3, <1>4, <1>5, <1>6 DEF TInv

\* The critical section is left.
LEMMA UnlockKeeps ==
  ASSUME Apart, IInv, IInv', TInv, ~Crashed, NEW t \in Threads, Unlock(t) PROVE TInv'
<1> USE Names, ThreadsAssumption, ClassesAssumption, MaxAssumption DEF IInv, TInv, TypeOK,
  Labels, Label, Closing, Running, Crashed, onceVars, objVars, regVars, Goto, Enter, Leave,
  After, Body, CallPC, InitPC, ClosePC, ClosedApart, Indices, Unlock
<1>1. Guarded'
  BY SMTT(60) DEF Guarded, OneRunner
<1>2. Table'
  BY SMTT(60) DEF Table, Ended, Guarded
<1>3. Closed'
  BY SMTT(60) DEF Closed, Table, Ended
<1>4. First'
  BY SMTT(60) DEF First, Entered, Closed, OneRunner, RunnerTook
<1>5. Single'
  BY SMTT(60) DEF Single, First
<1>6. Progress'
  <2>1. Ended' => Ended
    BY DEF Ended
  <2> QED
    BY <2>1, ProgressKept DEF Tearing
<1> QED
  BY <1>1, <1>2, <1>3, <1>4, <1>5, <1>6 DEF TInv

\* The constructor throws.
LEMMA ThrowKeeps ==
  ASSUME Apart, IInv, IInv', TInv, ~Crashed, NEW t \in Threads, Throw(t) PROVE TInv'
<1> USE Names, ThreadsAssumption, ClassesAssumption, MaxAssumption DEF IInv, TInv, TypeOK,
  Labels, Label, Closing, Running, Crashed, onceVars, objVars, regVars, Goto, Enter, Leave,
  After, Body, CallPC, InitPC, ClosePC, ClosedApart, Indices, Throw
<1>1. Guarded'
  BY SMTT(60) DEF Guarded, OneRunner
<1>2. Table'
  BY SMTT(60) DEF Table, Ended, Guarded
<1>3. Closed'
  BY SMTT(60) DEF Closed, Table, Ended
<1>4. First'
  BY SMTT(60) DEF First, Entered, Closed, OneRunner, RunnerTook
<1>5. Single'
  BY SMTT(60) DEF Single, First
<1>6. Progress'
  <2>1. Ended' => Ended
    BY DEF Ended
  <2> QED
    BY <2>1, ProgressKept DEF Tearing
<1> QED
  BY <1>1, <1>2, <1>3, <1>4, <1>5, <1>6 DEF TInv

\* get() returns.
LEMMA ReturnKeeps ==
  ASSUME Apart, IInv, IInv', TInv, ~Crashed, NEW t \in Threads, Return(t) PROVE TInv'
<1> USE Names, ThreadsAssumption, ClassesAssumption, MaxAssumption DEF IInv, TInv, TypeOK,
  Labels, Label, Closing, Running, Crashed, onceVars, objVars, regVars, Goto, Enter, Leave,
  After, Body, CallPC, InitPC, ClosePC, ClosedApart, Indices, Return
<1>1. Guarded'
  BY SMTT(60) DEF Guarded, OneRunner
<1>2. Table'
  BY SMTT(60) DEF Table, Ended, Guarded
<1>3. Closed'
  BY SMTT(60) DEF Closed, Table, Ended
<1>4. First'
  BY SMTT(60) DEF First, Entered, Closed, OneRunner, RunnerTook
<1>5. Single'
  BY SMTT(60) DEF Single, First
<1>6. Progress'
  <2>1. Ended' => Ended
    BY DEF Ended
  <2> QED
    BY <2>1, ProgressKept DEF Tearing
<1> QED
  BY <1>1, <1>2, <1>3, <1>4, <1>5, <1>6 DEF TInv

\* The caller is through.
LEMMA ReleaseKeeps ==
  ASSUME Apart, IInv, IInv', TInv, ~Crashed, NEW t \in Threads, Release(t) PROVE TInv'
<1> USE Names, ThreadsAssumption, ClassesAssumption, MaxAssumption DEF IInv, TInv, TypeOK,
  Labels, Label, Closing, Running, Crashed, onceVars, objVars, regVars, Goto, Enter, Leave,
  After, Body, CallPC, InitPC, ClosePC, ClosedApart, Indices, Release
<1>1. Guarded'
  BY SMTT(60) DEF Guarded, OneRunner
<1>2. Table'
  BY SMTT(60) DEF Table, Ended, Guarded
<1>3. Closed'
  BY SMTT(60) DEF Closed, Table, Ended
<1>4. First'
  BY SMTT(60) DEF First, Entered, Closed, OneRunner, RunnerTook
<1>5. Single'
  BY SMTT(60) DEF Single, First
<1>6. Progress'
  <2>1. Ended' => Ended
    BY DEF Ended
  <2> QED
    BY <2>1, ProgressKept DEF Tearing
<1> QED
  BY <1>1, <1>2, <1>3, <1>4, <1>5, <1>6 DEF TInv

\* The double check in front.
LEMMA TestKeeps ==
  ASSUME Apart, IInv, IInv', TInv, ~Crashed, NEW t \in Threads, Test(t) PROVE TInv'
<1> USE Names, ThreadsAssumption, ClassesAssumption, MaxAssumption DEF IInv, TInv, TypeOK,
  Labels, Label, Closing, Running, Crashed, onceVars, objVars, regVars, Goto, Enter, Leave,
  After, Body, CallPC, InitPC, ClosePC, ClosedApart, Indices, Test
<1>a. /\ pc[t] = "test" /\ pc'[t] \in {"lock", "idle", "return", "swap"}
      /\ \A u \in Threads \ {t} : pc'[u] = pc[u] /\ on'[u] = on[u]
      /\ pc'[t] = "swap" => on'[t] = on[t]
      /\ UNCHANGED <<done, taken, cls, instance, made, live, table, size, mutex, idx>>
  <2>1. CASE done[on[t]]
    <3>1. Leave(t, "test")
      BY <2>1 DEF Test
    <3> QED
      BY <3>1, LeaveLabels DEF Test
  <2>2. CASE ~done[on[t]]
    BY <2>2 DEF Test
  <2> QED
    BY <2>1, <2>2
<1>1. Guarded'
  BY SMTT(60) DEF Guarded, OneRunner
<1>2. Table'
  BY SMTT(60) DEF Table, Ended, Guarded
<1>3. Closed'
  <2>1. ASSUME NEW u \in Threads, Running(u, Final) PROVE Running(u, Final)'
    BY <1>a, <2>1
  <2> HIDE DEF Running, Crashed
  <2>2. \A u \in Threads : pc'[u] \notin {"write", "unlock", "new"} \/ pc'[u] = pc[u]
    BY <1>a
  <2> QED
    BY <1>a, <2>1, <2>2 DEF Closed
<1>4. First'
  BY SMTT(60) DEF First, Entered, Closed, OneRunner, RunnerTook
<1>5. Single'
  BY SMTT(60) DEF Single, First
<1>6. Progress'
  <2> HIDE DEF Test
  <2>1. ASSUME NEW u \in Threads, on'[u] = Final, pc'[u] \in {"drop", "finish"} PROVE Ended
    BY <1>a, <2>1 DEF Ended
  <2>2. Ended' => Ended
    BY <1>a, <2>1 DEF Ended
  <2> QED
    BY <1>a, <2>2, ProgressKept DEF Tearing
<1> QED
  BY <1>1, <1>2, <1>3, <1>4, <1>5, <1>6 DEF TInv

\* The compare-and-swap on the counter.
LEMMA SwapKeeps ==
  ASSUME Apart, IInv, IInv', TInv, ~Crashed, NEW t \in Threads, Swap(t) PROVE TInv'
<1> USE Names, ThreadsAssumption, ClassesAssumption, MaxAssumption DEF IInv, TInv, TypeOK,
  Labels, Label, Closing, Running, Crashed, onceVars, objVars, regVars, Goto, Enter, Leave,
  After, Body, CallPC, InitPC, ClosePC, ClosedApart, Indices, Swap
<1>a. /\ pc[t] = "swap" /\ on[t] \in Onces
      /\ \A u \in Threads \ {t} : pc'[u] = pc[u] /\ on'[u] = on[u]
      /\ taken' = [taken EXCEPT ![on[t]] = TRUE]
      /\ UNCHANGED <<done, cls, instance, made, live, table, size, mutex, idx>>
      /\ \/ taken[on[t]] /\ pc'[t] = "spin" /\ on'[t] = on[t]
         \/ ~taken[on[t]] /\ on[t] = Mutex /\ pc'[t] = "newMutex" /\ on'[t] = Mutex
         \/ ~taken[on[t]] /\ on[t] = Final /\ pc'[t] = "count" /\ on'[t] = Final
         \/ /\ ~taken[on[t]] /\ on[t] = cls[t] /\ on[t] \in Classes
            /\ pc'[t] = "test" /\ on'[t] = Mutex
  BY DEF Swap, Onces
<1>b. \A o \in Onces : taken'[o] <=> taken[o] \/ o = on[t]
  BY <1>a
<1> HIDE DEF Swap
<1>1. Guarded'
  BY SMTT(60), <1>a DEF Guarded, OneRunner
<1>2. Table'
  <2>1. Ended' => Ended
    BY <1>a DEF Ended
  <2>2. \A u \in Threads : pc'[u] = "write" => pc[u] = "write"
    BY <1>a
  <2> QED
    BY <1>a, <2>1, <2>2 DEF Table
<1>3. Closed'
  <2>1. ASSUME NEW u \in Threads, Running(u, Final) PROVE Running(u, Final)'
    BY <1>a, <2>1
  <2>2. \A u \in Threads : pc'[u] \in {"write", "unlock", "new"} => pc[u] = pc'[u]
    BY <1>a
  <2>3. CASE taken[Final]
    <3> HIDE DEF Running, Crashed
    <3> QED
      BY <1>a, <2>1, <2>2, <2>3 DEF Closed, Crashed
  <2>4. CASE ~taken[Final] /\ taken'[Final]
    <3>1. on'[t] = Final /\ pc'[t] = "count"
      BY <1>a, <1>b, <2>4
    <3>2. Running(t, Final)' /\ Closing(t)'
      BY <3>1
    <3>3. ASSUME NEW u \in Threads, pc'[u] \in {"write", "unlock", "new"} PROVE FALSE
      <4>1. on'[u] = cls'[u] /\ cls'[u] \in Classes
        BY <3>3
      <4>2. Closing(u)'
        BY <3>2, <3>3
      <4> QED
        BY <4>1, <4>2
    <3> QED
      BY <3>2, <3>3 DEF Closed
  <2> QED
    BY <2>3, <2>4 DEF Closed
<1>4. First'
  <2>1. ASSUME NEW c \in Classes
        PROVE  /\ (Entered(c) \/ made[c] > 0 => taken[c] \/ taken[Final])'
               /\ (made[c] > 0 => Entered(c))'
    BY <1>a, <1>b DEF First, Entered
  <2>2. ASSUME NEW u \in Threads, pc'[u] \in {"unlock", "new"} PROVE Entered(cls[u])'
    <3>1. u # t /\ pc[u] \in {"unlock", "new"}
      BY <1>a, <2>2
    <3> QED
      BY <1>a, <3>1 DEF First, Entered
  <2>3. ASSUME NEW u \in Threads, ~taken'[Final], Running(u, cls[u])'
        PROVE  /\ ~(on'[u] = cls[u] /\ pc'[u] = "finish") => made[cls[u]] = 0
               /\ ~(on'[u] = cls[u] /\ pc'[u] \in {"unlock", "new", "finish"}) => ~Entered(cls[u])'
    <3>1. ~taken[Final]
      BY <1>b, <2>3
    <3>2. CASE u # t
      BY <1>a, <2>3, <3>1, <3>2 DEF First, Entered
    <3>3. CASE u = t
      <4>1. CASE Running(t, cls[t])
        BY <1>a, <2>3, <3>1, <3>3, <4>1 DEF First, Entered
      <4>2. CASE ~Running(t, cls[t])
        <5>1. on[t] = cls[t] /\ ~taken[cls[t]]
          BY <1>a, <2>3, <3>3, <4>2
        <5> QED
          BY <1>a, <3>1, <3>3, <5>1 DEF First, Entered
      <4> QED
        BY <4>1, <4>2
    <3> QED
      BY <3>2, <3>3
  <2> QED
    BY <1>a, <2>1, <2>2, <2>3 DEF First
<1>5. Single'
  BY <1>a DEF Single
<1>6. Progress'
  <2>1. Ended' => Ended
    BY <1>a DEF Ended
  <2>2. taken[Final] => taken'[Final]
    BY <1>b
  <2>3. CASE pc'[t] # "count"
    BY <1>a, <2>1, <2>2, <2>3, ProgressKept DEF Tearing
  <2>4. CASE pc'[t] = "count"
    <3>1. ~taken[Final] /\ taken'[Final]
      BY <1>a, <1>b, <2>4
    <3>2. \A c \in Classes : There(c)'
      BY <1>a, <3>1 DEF Progress, There
    <3>3. \A u \in Threads \ {t} : pc'[u] \notin Tearing
      BY <1>a, <3>1, OneTears DEF Tearing
    <3>4. \A u \in Threads : Torn(u)'
      BY <2>4, <3>2, <3>3 DEF Torn, Tearing
    <3>5. ~Ended'
      BY <2>1, <3>1, OneTears
    <3> QED
      BY <3>1, <3>4, <3>5 DEF Progress
  <2> QED
    BY <2>3, <2>4
<1> QED
  BY <1>1, <1>2, <1>3, <1>4, <1>5, <1>6 DEF TInv

\* The mutex is taken, or is not there.
LEMMA LockKeeps ==
  ASSUME Apart, IInv, IInv', TInv, ~Crashed, NEW t \in Threads, Lock(t) PROVE TInv'
<1> USE Names, ThreadsAssumption, ClassesAssumption, MaxAssumption DEF IInv, TInv, TypeOK,
  Labels, Label, Closing, Running, Crashed, onceVars, objVars, regVars, Goto, Enter, Leave,
  After, Body, CallPC, InitPC, ClosePC, ClosedApart, Indices, Lock
<1>a. /\ pc[t] = "lock" /\ on[t] = cls[t] /\ cls[t] \in Classes
      /\ \/ mutex = Free /\ pc'[t] = "push" /\ mutex' = t
         \/ pc'[t] = "fault" /\ mutex' = mutex
      /\ \A u \in Threads \ {t} : pc'[u] = pc[u]
      /\ UNCHANGED <<done, taken, on, cls, instance, made, live, table, size, idx>>
  OBVIOUS
<1>1. Guarded'
  BY SMTT(60) DEF Guarded, OneRunner
<1>2. Table'
  BY SMTT(60) DEF Table, Ended, Guarded
<1>3. Closed'
  BY SMTT(60) DEF Closed, Table, Ended
<1>4. First'
  <2> HIDE DEF Lock
  <2>1. ASSUME NEW u \in Threads, Running(u, cls[u])'
        PROVE  Running(u, cls[u]) /\ (u = t \/ pc'[u] = pc[u])
    BY <1>a, <2>1
  <2>2. \A u \in Threads : pc'[u] \in {"unlock", "new"} => pc[u] = pc'[u]
    BY <1>a
  <2> HIDE DEF Running
  <2>3. ASSUME NEW c \in Classes PROVE Entered(c)' <=> Entered(c)
    BY <1>a DEF Entered
  <2> QED
    BY <1>a, <2>1, <2>2, <2>3 DEF First
<1>5. Single'
  BY SMTT(60) DEF Single, First
<1>6. Progress'
  <2>1. Ended' => Ended
    BY DEF Ended
  <2> QED
    BY <2>1, ProgressKept DEF Tearing
<1> QED
  BY <1>1, <1>2, <1>3, <1>4, <1>5, <1>6 DEF TInv

\* An entry is taken.
LEMMA PushKeeps ==
  ASSUME Apart, IInv, IInv', TInv, ~Crashed, NEW t \in Threads, Push(t) PROVE TInv'
<1> USE Names, ThreadsAssumption, ClassesAssumption, MaxAssumption DEF IInv, TInv, TypeOK,
  Labels, Label, Closing, Running, Crashed, onceVars, objVars, regVars, Goto, Enter, Leave,
  After, Body, CallPC, InitPC, ClosePC, ClosedApart, Indices, Push
<1>a. /\ pc[t] = "push" /\ on[t] = cls[t] /\ cls[t] \in Classes
      /\ \/ size < MaxFinalizers /\ pc'[t] = "write"
         \/ pc'[t] = "fault"
      /\ \A u \in Threads \ {t} : pc'[u] = pc[u]
      /\ UNCHANGED <<done, taken, on, cls, instance, made, live, table, mutex>>
  OBVIOUS
<1>1. Guarded'
  BY SMTT(60) DEF Guarded, OneRunner
<1>2. Table'
  BY SMTT(60) DEF Table, Ended, Guarded
<1>3. Closed'
  <2>1. CASE pc'[t] = "fault"
    BY <1>a, <2>1 DEF Closed
  <2>2. CASE pc'[t] = "write" /\ taken[Final]
    <3>1. ~done[Final]
      BY <1>a, <2>2 DEF Table, Ended
    <3>2. PICK u \in Threads : Running(u, Final)
      BY <2>2, <3>1 DEF Closed
    <3>3. Closing(u) /\ ~Closing(t)
      BY <1>a, <3>2
    <3> QED
      BY <1>a, <3>3
  <2>3. CASE ~taken[Final]
    BY <1>a, <2>3 DEF Closed
  <2> QED
    BY <1>a, <2>1, <2>2, <2>3
<1>4. First'
  BY SMTT(60) DEF First, Entered, Closed, OneRunner, RunnerTook
<1>5. Single'
  BY SMTT(60) DEF Single, First
<1>6. Progress'
  <2>1. Ended' => Ended
    BY <1>a DEF Ended
  <2> QED
    BY <1>a, <2>1, ProgressKept DEF Tearing
<1> QED
  BY <1>1, <1>2, <1>3, <1>4, <1>5, <1>6 DEF TInv

\* The entry is written.
LEMMA WriteKeeps ==
  ASSUME Apart, IInv, IInv', TInv, ~Crashed, NEW t \in Threads, Write(t) PROVE TInv'
<1> USE Names, ThreadsAssumption, ClassesAssumption, MaxAssumption DEF IInv, TInv, TypeOK,
  Labels, Label, Closing, Running, Crashed, onceVars, objVars, regVars, Goto, Enter, Leave,
  After, Body, CallPC, InitPC, ClosePC, ClosedApart, Indices, Write
<1>a. /\ pc[t] = "write" /\ pc'[t] = "unlock" /\ on[t] = cls[t] /\ cls[t] \in Classes
      /\ mutex = t /\ ~taken[Final]
      /\ idx[t] \in Indices /\ idx[t] = size - 1 /\ table[idx[t]] = None
      /\ table'[idx[t]] = cls[t]
      /\ \A i \in Indices : i # idx[t] => table'[i] = table[i]
      /\ \A u \in Threads \ {t} : pc'[u] = pc[u] /\ pc[u] # "write"
      /\ UNCHANGED <<done, taken, on, cls, instance, made, live, size, mutex, idx>>
  BY DEF Table, Guarded, Closed
<1>b. Running(t, cls[t]) /\ ~Entered(cls[t])
  <2>1. Running(t, cls[t])
    BY <1>a
  <2> HIDE DEF Running
  <2> QED
    BY <1>a, <2>1 DEF First
<1>c. \A c \in Classes : Entered(c)' <=> Entered(c) \/ c = cls[t]
  BY <1>a DEF Entered
<1> HIDE DEF Write
<1>1. Guarded'
  BY <1>a DEF Guarded
<1>2. Table'
  <2>1. Ended' => Ended
    BY <1>a DEF Ended
  <2>2. \A i, j \in Indices : table'[i] = table'[j] /\ table'[i] # None => i = j
    BY <1>a, <1>b DEF Table, Entered
  <2>3. \A i \in Indices : i >= size => table'[i] = None
    BY <1>a DEF Table
  <2> HIDE DEF Indices
  <2> QED
    BY <1>a, <2>1, <2>2, <2>3 DEF Table
<1>3. Closed'
  BY <1>a DEF Closed
<1>4. First'
  <2>1. ASSUME NEW c \in Classes
        PROVE  /\ (Entered(c) \/ made[c] > 0 => taken[c] \/ taken[Final])'
               /\ (made[c] > 0 => Entered(c))'
    <3>1. taken[cls[t]]
      BY <1>a, <1>b DEF RunnerTook
    <3> QED
      BY <1>a, <1>c, <3>1 DEF First
  <2>2. ASSUME NEW u \in Threads, pc'[u] \in {"unlock", "new"} PROVE Entered(cls[u])'
    <3>1. Entered(cls[u]) \/ u = t
      BY <1>a, <2>2 DEF First
    <3> QED
      BY <1>a, <1>c, <3>1
  <2>3. ASSUME NEW u \in Threads, Running(u, cls[u])'
        PROVE  /\ ~(on[u] = cls[u] /\ pc'[u] = "finish") => made[cls[u]] = 0
               /\ ~(on[u] = cls[u] /\ pc'[u] \in {"unlock", "new", "finish"}) => ~Entered(cls[u])'
    <3>1. CASE u = t
      <4> HIDE DEF Running
      <4> QED
        BY <1>a, <1>b, <3>1 DEF First
    <3>2. CASE u # t
      <4>1. Running(u, cls[u])
        BY <1>a, <2>3, <3>2
      <4>2. cls[u] # cls[t]
        <5> HIDE DEF Running
        <5> QED
          BY <1>b, <3>2, <4>1 DEF OneRunner, Onces
      <4> HIDE DEF Running
      <4> QED
        BY <1>a, <1>c, <3>2, <4>1, <4>2 DEF First
    <3> QED
      BY <3>1, <3>2
  <2> HIDE DEF Running
  <2> QED
    BY <1>a, <2>1, <2>2, <2>3 DEF First
<1>5. Single'
  BY <1>a DEF Single
<1>6. Progress'
  <2>1. ~Ended' /\ \A u \in Threads : pc'[u] \notin Tearing
    BY <1>a, OneTears DEF Ended, Tearing
  <2> QED
    BY <1>a, <2>1 DEF Progress, Torn, There, Tearing
<1> QED
  BY <1>1, <1>2, <1>3, <1>4, <1>5, <1>6 DEF TInv

\* The first object of a type is made.
LEMMA NewKeeps ==
  ASSUME Apart, IInv, IInv', TInv, ~Crashed, NEW t \in Threads, New(t) PROVE TInv'
<1> USE Names, ThreadsAssumption, ClassesAssumption, MaxAssumption DEF IInv, TInv, TypeOK,
  Labels, Label, Closing, Running, Crashed, onceVars, objVars, regVars, Goto, Enter, Leave,
  After, Body, CallPC, InitPC, ClosePC, ClosedApart, Indices, New
<1>a. /\ pc[t] = "new" /\ pc'[t] = "finish" /\ on[t] = cls[t] /\ cls[t] \in Classes
      /\ ~taken[Final]
      /\ \A u \in Threads \ {t} : pc'[u] = pc[u]
      /\ UNCHANGED <<done, taken, on, cls, table, size, mutex, idx>>
  BY DEF Closed
<1>b. Running(t, cls[t]) /\ made[cls[t]] = 0
  <2>1. Running(t, cls[t])
    BY <1>a
  <2> HIDE DEF Running
  <2> QED
    BY <1>a, <2>1 DEF First
<1>c. /\ made'[cls[t]] = 1 /\ instance'[cls[t]] = 1 /\ live'[cls[t]] = {1}
      /\ \A c \in Classes \ {cls[t]} :
           made'[c] = made[c] /\ instance'[c] = instance[c] /\ live'[c] = live[c]
  <2>1. live[cls[t]] = {}
    BY <1>a, <1>b DEF Single
  <2> HIDE DEF Running
  <2> QED
    BY <1>a, <1>b, <2>1
<1> HIDE DEF New
<1>1. Guarded'
  BY <1>a DEF Guarded
<1>2. Table'
  <2>1. Ended' => Ended
    BY <1>a, Names DEF Ended
  <2> QED
    BY <1>a, <2>1 DEF Table
<1>3. Closed'
  BY <1>a DEF Closed
<1>4. First'
  <2>1. ASSUME NEW c \in Classes
        PROVE  /\ (Entered(c) \/ made[c] > 0 => taken[c] \/ taken[Final])'
               /\ (made[c] > 0 => Entered(c))'
    <3>1. taken[cls[t]] /\ Entered(cls[t])
      BY <1>a, <1>b DEF RunnerTook, First
    <3>2. \A d \in Classes : Entered(d)' <=> Entered(d)
      BY <1>a DEF Entered
    <3>3. made[c] > 0 \/ c = cls[t] => Entered(c)
      BY <1>a, <3>1 DEF First
    <3>4. made'[c] > 0 => made[c] > 0 \/ c = cls[t]
      BY <1>c
    <3>5. Entered(c) => taken[c] \/ taken[Final]
      BY DEF First
    <3> HIDE DEF Running
    <3> QED
      BY <1>a, <3>2, <3>3, <3>4, <3>5
  <2>2. ASSUME NEW u \in Threads, pc'[u] \in {"unlock", "new"} PROVE Entered(cls[u])'
    <3>1. Entered(cls[u])
      BY <1>a, <2>2 DEF First
    <3> QED
      BY <1>a, <3>1 DEF Entered
  <2>3. ASSUME NEW u \in Threads, Running(u, cls[u])'
        PROVE  /\ ~(on[u] = cls[u] /\ pc'[u] = "finish") => made'[cls[u]] = 0
               /\ ~(on[u] = cls[u] /\ pc'[u] \in {"unlock", "new", "finish"}) => ~Entered(cls[u])'
    <3>1. CASE u = t
      BY <1>a, <3>1
    <3>2. CASE u # t
      <4>1. Running(u, cls[u]) /\ pc'[u] = pc[u]
        BY <1>a, <2>3, <3>2
      <4>2. cls[u] # cls[t]
        <5> HIDE DEF Running
        <5> QED
          BY <1>b, <3>2, <4>1 DEF OneRunner, Onces
      <4>3. Entered(cls[u])' <=> Entered(cls[u])
        BY <1>a DEF Entered
      <4> HIDE DEF Running
      <4> QED
        BY <1>a, <1>c, <4>1, <4>2, <4>3 DEF First
    <3> QED
      BY <3>1, <3>2
  <2> HIDE DEF Running
  <2> QED
    BY <1>a, <2>1, <2>2, <2>3 DEF First
<1>5. Single'
  <2>1. ASSUME NEW c \in Classes \ {cls[t]}
        PROVE  /\ made'[c] <= 1 /\ live'[c] \subseteq {1} /\ instance'[c] \in {0, made'[c]}
               /\ made'[c] = 0 => live'[c] = {}
    BY <1>c DEF Single
  <2>2. ASSUME NEW c \in Classes, c = cls[t]
        PROVE  /\ made'[c] <= 1 /\ live'[c] \subseteq {1} /\ instance'[c] \in {0, made'[c]}
               /\ made'[c] = 0 => live'[c] = {}
    BY <1>c, <2>2
  <2> QED
    BY Zenon, <2>1, <2>2 DEF Single
<1>6. Progress'
  <2>1. ~Ended' /\ \A u \in Threads : pc'[u] \notin Tearing
    BY <1>a, OneTears DEF Ended, Tearing
  <2> QED
    BY <1>a, <1>c, <2>1 DEF Progress, Torn, There, Tearing
<1> QED
  BY <1>1, <1>2, <1>3, <1>4, <1>5, <1>6 DEF TInv

-----------------------------------------------------------------------------
(* What the steps of DeleteSingleton do to it.                          *)

\* Where a thread that tears down is, and what it sees in the table.
LEMMA TearingFacts ==
  ASSUME IInv, TInv, NEW t \in Threads, pc[t] \in Tearing, ~Crashed
  PROVE  /\ on[t] = Final /\ taken[Final] /\ ~done[Final]
         /\ \A u \in Threads \ {t} : pc[u] \notin Tearing
         /\ \A u \in Threads : ~(on[u] = Final /\ pc[u] \in {"drop", "finish"})
         /\ idx[t] \in Nat
         /\ pc[t] = "next" => idx[t] <= MaxFinalizers
         /\ pc[t] \in {"delete", "null", "undone", "untake"} =>
              idx[t] \in Indices /\ table[idx[t]] \in Classes
         /\ \A i \in Indices : i \in Nat /\ table[i] \in Classes \cup {None}
         /\ \A i, j \in Indices : table[i] = table[j] /\ table[i] # None => i = j
         /\ \A i \in Indices : table[i] # None => i < size
         /\ None \notin Classes
         /\ Torn(t)
<1>1. on[t] = Final /\ taken[Final] /\ ~done[Final]
  BY OneTears DEF Tearing, ClosePC
<1>2. /\ \A u \in Threads \ {t} : pc[u] \notin Tearing
      /\ \A u \in Threads : ~(on[u] = Final /\ pc[u] \in {"drop", "finish"})
  <2>1. \A u \in Threads \ {t} : pc[u] \notin ClosePC
    BY OneTears DEF Tearing, ClosePC
  <2>2. \A u \in Threads : ~(on[u] = Final /\ pc[u] = "finish")
    BY OneTears DEF Tearing, ClosePC
  <2> QED
    BY <2>1, <2>2 DEF Tearing, ClosePC
<1>3. /\ idx[t] \in Nat /\ size \in Nat
      /\ pc[t] = "next" => idx[t] <= MaxFinalizers
      /\ pc[t] \in {"delete", "null", "undone", "untake"} =>
           idx[t] < MaxFinalizers /\ table[idx[t]] \in Classes
  BY DEF IInv, TypeOK, Entries
<1>4. /\ \A i \in Indices : i \in Nat /\ table[i] \in Classes \cup {None}
      /\ \A i \in Indices : i >= size => table[i] = None
      /\ \A i, j \in Indices : table[i] = table[j] /\ table[i] # None => i = j
  BY MaxAssumption DEF IInv, TypeOK, TInv, Table, Indices
<1>5. Torn(t)
  BY DEF TInv, Progress
<1>6. idx[t] < MaxFinalizers => idx[t] \in Indices
  BY <1>3, MaxAssumption DEF Indices
<1> QED
  BY <1>1, <1>2, <1>3, <1>4, <1>5, <1>6, Names, MaxAssumption DEF Indices

\* A step of DeleteSingleton that leaves the table alone.
LEMMA TearingStep ==
  ASSUME IInv, TInv, ~Crashed, NEW t \in Threads, pc[t] \in Tearing,
         \A u \in Threads \ {t} : pc'[u] = pc[u],
         UNCHANGED on, taken'[Final] = taken[Final], done'[Final] = done[Final],
         Torn(t)', pc'[t] \in {"drop", "finish"} => \A c \in Classes : Gone(c)'
  PROVE  Progress'
<1>1. /\ taken[Final] /\ ~done[Final]
      /\ \A u \in Threads \ {t} : pc[u] \notin Tearing
      /\ \A u \in Threads : ~(on[u] = Final /\ pc[u] \in {"drop", "finish"})
  BY TearingFacts
<1>2. ASSUME NEW u \in Threads PROVE Torn(u)'
  <2>1. CASE u # t
    BY <1>1, <2>1 DEF Torn, Tearing
  <2> QED
    BY <2>1
<1>3. (Ended => \A c \in Classes : Gone(c))'
  BY <1>1 DEF Ended
<1> QED
  BY <1>1, <1>2, <1>3 DEF Progress

\* No entry was reached yet.
LEMMA CountProgress ==
  ASSUME IInv, TInv, ~Crashed, NEW t \in Threads, Count(t) PROVE Progress'
<1>1. /\ pc[t] = "count" /\ pc'[t] = "next" /\ idx'[t] = size
      /\ \A u \in Threads \ {t} : pc'[u] = pc[u]
      /\ UNCHANGED <<done, taken, on, instance, made, live, table>>
  BY DEF Count, Goto, IInv, TypeOK, onceVars, objVars, regVars
<1>2. \A c \in Classes : There(c)
  BY <1>1, TearingFacts DEF Torn, Tearing
<1>3. \A i \in Indices : table[i] # None => i < size /\ i \in Nat /\ table[i] \in Classes
  BY <1>1, TearingFacts DEF Tearing
<1>4. size \in Nat
  BY DEF IInv, TypeOK
<1>5. Torn(t)'
  BY <1>1, <1>2, <1>3, <1>4 DEF Torn, There, Tearing
<1> QED
  BY <1>1, <1>5, TearingStep DEF Tearing

\* The loop goes on to the entry before, whose object is there; when none is left,
\* all objects are gone.
LEMMA NextProgress ==
  ASSUME IInv, TInv, ~Crashed, NEW t \in Threads, NextFinalizer(t) PROVE Progress'
<1>1. /\ pc[t] = "next" /\ idx[t] \in Nat /\ idx[t] <= MaxFinalizers
      /\ \A i \in Indices : i \in Nat /\ table[i] \in Classes \cup {None}
  BY TearingFacts DEF NextFinalizer, Goto, Tearing
<1>2. /\ \/ idx[t] = 0 /\ idx'[t] = idx[t] /\ pc'[t] = "full"
         \/ /\ idx[t] > 0 /\ idx'[t] = idx[t] - 1
            /\ \/ table[idx[t] - 1] # None /\ pc'[t] = "delete"
               \/ pc'[t] = "fault"
      /\ \A u \in Threads \ {t} : pc'[u] = pc[u]
      /\ UNCHANGED <<done, taken, on, instance, made, live, table>>
  BY <1>1 DEF NextFinalizer, Goto, IInv, TypeOK, onceVars, objVars, regVars
<1>3. \A i \in Indices : table[i] # None =>
        /\ i < idx[t] => There(table[i])
        /\ i >= idx[t] => Gone(table[i])
  <2>1. Torn(t)
    BY <1>1, TearingFacts DEF Tearing
  <2> QED
    BY <1>1, <2>1 DEF Torn, Tearing
<1>4. CASE pc'[t] = "full"
  <2>1. ASSUME NEW c \in Classes PROVE Gone(c)
    <3>1. CASE made[c] > 0
      <4>1. PICK i \in Indices : table[i] = c
        BY <3>1 DEF TInv, First, Entered
      <4> QED
        BY <1>1, <1>2, <1>3, <1>4, <4>1, Names
    <3>2. CASE made[c] = 0
      BY <3>2 DEF TInv, Single, Gone
    <3> QED
      BY <3>1, <3>2 DEF IInv, TypeOK
  <2>2. Torn(t)'
    BY <1>2, <1>4, <2>1 DEF Torn, Gone, Tearing
  <2> QED
    BY <1>1, <1>2, <1>4, <2>2, TearingStep DEF Tearing
<1>5. CASE pc'[t] # "full"
  <2>1. idx'[t] = idx[t] - 1 /\ idx[t] - 1 \in Indices /\ pc'[t] \in {"delete", "fault"}
    BY <1>1, <1>2, <1>5, MaxAssumption DEF Indices
  <2>2. \A i \in Indices : table[i] # None =>
          /\ i <= idx'[t] => There(table[i])
          /\ i > idx'[t] => Gone(table[i])
    BY <1>1, <1>3, <2>1
  <2>3. \A i \in Indices : table'[i] # None =>
          /\ i < idx'[t] => There(table[i])'
          /\ i > idx'[t] => Gone(table[i])'
    BY <1>1, <1>2, <2>1, <2>2 DEF There, Gone
  <2>4. pc'[t] = "delete" => There(table[idx[t]])'
    <3> SUFFICES ASSUME pc'[t] = "delete" PROVE There(table[idx[t]])'
      OBVIOUS
    <3>1. PICK i \in Indices : i = idx'[t]
      BY <2>1
    <3>2. i \in Nat /\ i = idx[t] - 1 /\ table[i] # None
      BY <1>1, <1>2, <2>1, <3>1
    <3>3. There(table[i])
      BY <2>2, <3>1, <3>2
    <3>4. There(table[i])'
      BY <1>2, <3>3 DEF There
    <3> QED
      BY <3>1, <3>4 DEF There
  <2>5. Torn(t)'
    BY <2>1, <2>3, <2>4 DEF Torn, Tearing
  <2> QED
    BY <1>1, <1>2, <2>1, <2>5, TearingStep DEF Tearing
<1> QED
  BY <1>4, <1>5

\* The entry t is at is not another one's, and the others are as they were.
LEMMA AtEntry ==
  ASSUME IInv, TInv, ~Crashed, NEW t \in Threads,
         pc[t] \in {"delete", "null", "undone", "untake"}
  PROVE  \E i \in Indices : \E c \in Classes :
           /\ i = idx[t] /\ c = table[i]
           /\ \A j \in Indices \ {i} : table[j] # None =>
                /\ table[j] \in Classes \ {c}
                /\ j < i => There(table[j])
                /\ j > i => Gone(table[j])
<1>1. pc[t] \in Tearing
  BY DEF Tearing
<1>2. idx[t] \in Indices /\ table[idx[t]] \in Classes /\ None \notin Classes
  BY <1>1, TearingFacts
<1>3. \A j \in Indices \ {idx[t]} : table[j] # None => table[j] \in Classes \ {table[idx[t]]}
  BY <1>1, <1>2, TearingFacts
<1>4. \A j \in Indices \ {idx[t]} : table[j] # None =>
                /\ j < idx[t] => There(table[j])
                /\ j > idx[t] => Gone(table[j])
  BY <1>1, TearingFacts DEF Torn, Tearing
<1> QED
  BY <1>2, <1>3, <1>4

\* The object of the entry is the one the pointer is to.
LEMMA DeleteProgress ==
  ASSUME IInv, TInv, ~Crashed, NEW t \in Threads, Delete(t) PROVE Progress'
<1>1. pc[t] = "delete"
  BY DEF Delete, Goto
<1>2. PICK i \in Indices : \E c \in Classes :
           /\ i = idx[t] /\ c = table[i]
           /\ \A j \in Indices \ {i} : table[j] # None =>
                /\ table[j] \in Classes \ {c}
                /\ j < i => There(table[j])
                /\ j > i => Gone(table[j])
  BY <1>1, AtEntry
<1>3. PICK c \in Classes :
           /\ i = idx[t] /\ c = table[i]
           /\ \A j \in Indices \ {i} : table[j] # None =>
                /\ table[j] \in Classes \ {c}
                /\ j < i => There(table[j])
                /\ j > i => Gone(table[j])
  BY <1>2
<1>4. /\ pc'[t] \in {"null", "fault"}
      /\ live'[c] = live[c] \ {instance[c]}
      /\ \A d \in Classes \ {c} : live'[d] = live[d]
      /\ \A u \in Threads \ {t} : pc'[u] = pc[u]
      /\ UNCHANGED <<done, taken, on, instance, made, table, idx>>
  BY <1>3 DEF Delete, Goto, IInv, TypeOK, onceVars, objVars, regVars
<1>5. live'[c] = {}
  <2>1. There(c)
    BY <1>1, <1>3, TearingFacts DEF Torn, Tearing
  <2>2. /\ made[c] \in Nat /\ made[c] <= 1
        /\ made[c] = 0 => live[c] = {}
    BY DEF TInv, Single, IInv, TypeOK
  <2>3. CASE made[c] = 1
    BY <1>4, <2>1, <2>3 DEF There
  <2>4. CASE made[c] = 0
    BY <1>4, <2>2, <2>4
  <2> QED
    BY <2>2, <2>3, <2>4
<1>6. \A j \in Indices \ {i} : table'[j] # None =>
                /\ j < i => There(table[j])'
                /\ j > i => Gone(table[j])'
  BY <1>3, <1>4 DEF There, Gone
<1>7. \A j \in Indices : j < i \/ j > i => j \in Indices \ {i}
  BY DEF Indices
<1>8. Torn(t)'
  BY <1>3, <1>4, <1>5, <1>6, <1>7 DEF Torn, Tearing
<1> QED
  BY <1>1, <1>4, <1>8, TearingStep DEF Tearing

\* After that the entry is done with.
LEMMA NullProgress ==
  ASSUME IInv, TInv, ~Crashed, NEW t \in Threads, Null(t) PROVE Progress'
<1>1. pc[t] = "null"
  BY DEF Null, Goto
<1>2. PICK i \in Indices : \E c \in Classes :
           /\ i = idx[t] /\ c = table[i]
           /\ \A j \in Indices \ {i} : table[j] # None =>
                /\ table[j] \in Classes \ {c}
                /\ j < i => There(table[j])
                /\ j > i => Gone(table[j])
  BY <1>1, AtEntry
<1>3. PICK c \in Classes :
           /\ i = idx[t] /\ c = table[i]
           /\ \A j \in Indices \ {i} : table[j] # None =>
                /\ table[j] \in Classes \ {c}
                /\ j < i => There(table[j])
                /\ j > i => Gone(table[j])
  BY <1>2
<1>4. /\ pc'[t] = "undone"
      /\ instance'[c] = 0
      /\ \A d \in Classes \ {c} : instance'[d] = instance[d]
      /\ \A u \in Threads \ {t} : pc'[u] = pc[u]
      /\ UNCHANGED <<done, taken, on, live, made, table, idx>>
  BY <1>3 DEF Null, Goto, IInv, TypeOK, onceVars, objVars, regVars
<1>5. live[c] = {}
  BY <1>1, <1>3, TearingFacts DEF Torn, Tearing
<1>6. \A j \in Indices \ {i} : table'[j] # None =>
                /\ j < i => There(table[j])'
                /\ j > i => Gone(table[j])'
  BY <1>3, <1>4 DEF There, Gone
<1>7. \A j \in Indices : j < i \/ j > i => j \in Indices \ {i}
  BY DEF Indices
<1>8. Gone(table[idx[t]])'
  BY <1>3, <1>4, <1>5 DEF Gone
<1>9. Torn(t)'
  BY <1>3, <1>4, <1>6, <1>7, <1>8 DEF Torn, Tearing
<1> QED
  BY <1>1, <1>4, <1>9, TearingStep DEF Tearing

\* The two resets change nothing of it.
LEMMA ResetProgress ==
  ASSUME IInv, TInv, ~Crashed, NEW t \in Threads, Undone(t) \/ Untake(t) PROVE Progress'
<1>1. pc[t] \in {"undone", "untake"} /\ pc'[t] \in {"untake", "next"}
  BY DEF Undone, Untake, Goto, IInv, TypeOK
<1>2. table[idx[t]] \in Classes /\ Final \notin Classes
  BY <1>1, TearingFacts, Names DEF Tearing
<1>3. /\ \A u \in Threads \ {t} : pc'[u] = pc[u]
      /\ UNCHANGED <<on, instance, live, made, table, idx>>
  BY DEF Undone, Untake, Goto, IInv, TypeOK, onceVars, objVars, regVars
<1>6. taken'[Final] = taken[Final] /\ done'[Final] = done[Final]
  <2>1. CASE Undone(t)
    BY <1>2, <2>1, Names DEF Undone, Goto, IInv, TypeOK, Onces
  <2>2. CASE Untake(t)
    BY <1>2, <2>2, Names DEF Untake, Goto, IInv, TypeOK, Onces
  <2> QED
    BY <2>1, <2>2
<1>4. Torn(t)
  BY <1>1, TearingFacts DEF Tearing
<1>5. Torn(t)'
  BY <1>1, <1>3, <1>4 DEF Torn, There, Gone, Tearing
<1> QED
  BY <1>1, <1>3, <1>5, <1>6, TearingStep DEF Tearing

\* When the loop is over nothing is left.
LEMMA CloseProgress ==
  ASSUME IInv, TInv, ~Crashed, NEW t \in Threads, Full(t) \/ Drop(t) PROVE Progress'
<1>1. pc[t] \in {"full", "drop"} /\ pc'[t] \in {"drop", "finish"}
  BY DEF Full, Drop, Goto, IInv, TypeOK
<1>2. /\ \A u \in Threads \ {t} : pc'[u] = pc[u]
      /\ UNCHANGED <<done, taken, on, instance, live, made, table, idx>>
  BY DEF Full, Drop, Goto, IInv, TypeOK, onceVars, objVars, regVars
<1>3. /\ on[t] = Final /\ taken[Final]
      /\ \A u \in Threads \ {t} : pc[u] \notin Tearing
  BY <1>1, OneTears DEF Tearing, ClosePC
<1>4. \A c \in Classes : Gone(c)
  BY <1>1, <1>3 DEF TInv, Progress, Torn, Ended
<1> QED
  BY <1>1, <1>2, <1>3, <1>4 DEF Progress, Torn, Gone, Tearing

\* The loop begins behind the last entry.
LEMMA CountKeeps ==
  ASSUME Apart, IInv, IInv', TInv, ~Crashed, NEW t \in Threads, Count(t) PROVE TInv'
<1> USE Names, ThreadsAssumption, ClassesAssumption, MaxAssumption DEF IInv, TInv, TypeOK,
  Labels, Label, Closing, Running, Crashed, onceVars, objVars, regVars, Goto, Enter, Leave,
  After, Body, CallPC, InitPC, ClosePC, ClosedApart, Indices, Count
<1>1. Guarded'
  BY SMTT(60) DEF Guarded, OneRunner
<1>2. Table'
  BY SMTT(60) DEF Table, Ended, Guarded
<1>3. Closed'
  BY SMTT(60) DEF Closed, Table, Ended
<1>4. First'
  BY SMTT(60) DEF First, Entered, Closed, OneRunner, RunnerTook
<1>5. Single'
  BY SMTT(60) DEF Single, First
<1>6. Progress'
  BY CountProgress
<1> QED
  BY <1>1, <1>2, <1>3, <1>4, <1>5, <1>6 DEF TInv

\* The entry before, or none is left.
LEMMA NextFinalizerKeeps ==
  ASSUME Apart, IInv, IInv', TInv, ~Crashed, NEW t \in Threads, NextFinalizer(t) PROVE TInv'
<1> USE Names, ThreadsAssumption, ClassesAssumption, MaxAssumption DEF IInv, TInv, TypeOK,
  Labels, Label, Closing, Running, Crashed, onceVars, objVars, regVars, Goto, Enter, Leave,
  After, Body, CallPC, InitPC, ClosePC, ClosedApart, Indices, NextFinalizer
<1>1. Guarded'
  BY SMTT(60) DEF Guarded, OneRunner
<1>2. Table'
  BY SMTT(60) DEF Table, Ended, Guarded
<1>3. Closed'
  BY SMTT(60) DEF Closed, Table, Ended
<1>4. First'
  BY SMTT(60) DEF First, Entered, Closed, OneRunner, RunnerTook
<1>5. Single'
  BY SMTT(60) DEF Single, First
<1>6. Progress'
  BY NextProgress
<1> QED
  BY <1>1, <1>2, <1>3, <1>4, <1>5, <1>6 DEF TInv

\* The pointer to the object is reset.
LEMMA NullKeeps ==
  ASSUME Apart, IInv, IInv', TInv, ~Crashed, NEW t \in Threads, Null(t) PROVE TInv'
<1> USE Names, ThreadsAssumption, ClassesAssumption, MaxAssumption DEF IInv, TInv, TypeOK,
  Labels, Label, Closing, Running, Crashed, onceVars, objVars, regVars, Goto, Enter, Leave,
  After, Body, CallPC, InitPC, ClosePC, ClosedApart, Indices, Null
<1>1. Guarded'
  BY SMTT(60) DEF Guarded, OneRunner
<1>2. Table'
  BY SMTT(60) DEF Table, Ended, Guarded
<1>3. Closed'
  BY SMTT(60) DEF Closed, Table, Ended
<1>4. First'
  BY SMTT(60) DEF First, Entered, Closed, OneRunner, RunnerTook
<1>5. Single'
  BY SMTT(60) DEF Single, First
<1>6. Progress'
  BY NullProgress
<1> QED
  BY <1>1, <1>2, <1>3, <1>4, <1>5, <1>6 DEF TInv

\* The object of the entry is destroyed.
LEMMA DeleteKeeps ==
  ASSUME Apart, IInv, IInv', TInv, ~Crashed, NEW t \in Threads, Delete(t) PROVE TInv'
<1> USE Names, ThreadsAssumption, ClassesAssumption, MaxAssumption DEF IInv, TInv, TypeOK,
  Labels, Label, Closing, Running, Crashed, onceVars, objVars, regVars, Goto, Enter, Leave,
  After, Body, CallPC, InitPC, ClosePC, ClosedApart, Indices, Delete
<1>1. Guarded'
  BY SMTT(60) DEF Guarded, OneRunner
<1>2. Table'
  BY SMTT(60) DEF Table, Ended, Guarded
<1>3. Closed'
  BY SMTT(60) DEF Closed, Table, Ended
<1>4. First'
  BY SMTT(60) DEF First, Entered, Closed, OneRunner, RunnerTook
<1>5. Single'
  BY SMTT(60) DEF Single, First
<1>6. Progress'
  BY DeleteProgress
<1> QED
  BY <1>1, <1>2, <1>3, <1>4, <1>5, <1>6 DEF TInv

\* The state of the once_t is reset.
LEMMA UndoneKeeps ==
  ASSUME Apart, IInv, IInv', TInv, ~Crashed, NEW t \in Threads, Undone(t) PROVE TInv'
<1> USE Names, ThreadsAssumption, ClassesAssumption, MaxAssumption DEF IInv, TInv, TypeOK,
  Labels, Label, Closing, Running, Crashed, onceVars, objVars, regVars, Goto, Enter, Leave,
  After, Body, CallPC, InitPC, ClosePC, ClosedApart, Indices, Undone
<1>1. Guarded'
  BY SMTT(60) DEF Guarded, OneRunner
<1>2. Table'
  BY SMTT(60) DEF Table, Ended, Guarded
<1>3. Closed'
  BY SMTT(60) DEF Closed, Table, Ended
<1>4. First'
  BY SMTT(60) DEF First, Entered, Closed, OneRunner, RunnerTook
<1>5. Single'
  BY SMTT(60) DEF Single, First
<1>6. Progress'
  BY ResetProgress
<1> QED
  BY <1>1, <1>2, <1>3, <1>4, <1>5, <1>6 DEF TInv

\* Its counter is reset.
LEMMA UntakeKeeps ==
  ASSUME Apart, IInv, IInv', TInv, ~Crashed, NEW t \in Threads, Untake(t) PROVE TInv'
<1> USE Names, ThreadsAssumption, ClassesAssumption, MaxAssumption DEF IInv, TInv, TypeOK,
  Labels, Label, Closing, Running, Crashed, onceVars, objVars, regVars, Goto, Enter, Leave,
  After, Body, CallPC, InitPC, ClosePC, ClosedApart, Indices, Untake
<1>1. Guarded'
  BY SMTT(60) DEF Guarded, OneRunner
<1>2. Table'
  BY SMTT(60) DEF Table, Ended, Guarded
<1>3. Closed'
  BY SMTT(60) DEF Closed, Table, Ended
<1>4. First'
  BY SMTT(60) DEF First, Entered, Closed, OneRunner, RunnerTook
<1>5. Single'
  BY SMTT(60) DEF Single, First
<1>6. Progress'
  BY ResetProgress
<1> QED
  BY <1>1, <1>2, <1>3, <1>4, <1>5, <1>6 DEF TInv

\* The table is closed.
LEMMA FullKeeps ==
  ASSUME Apart, IInv, IInv', TInv, ~Crashed, NEW t \in Threads, Full(t) PROVE TInv'
<1> USE Names, ThreadsAssumption, ClassesAssumption, MaxAssumption DEF IInv, TInv, TypeOK,
  Labels, Label, Closing, Running, Crashed, onceVars, objVars, regVars, Goto, Enter, Leave,
  After, Body, CallPC, InitPC, ClosePC, ClosedApart, Indices, Full
<1>1. Guarded'
  BY SMTT(60) DEF Guarded, OneRunner
<1>2. Table'
  BY SMTT(60) DEF Table, Ended, Guarded
<1>3. Closed'
  BY SMTT(60) DEF Closed, Table, Ended
<1>4. First'
  BY SMTT(60) DEF First, Entered, Closed, OneRunner, RunnerTook
<1>5. Single'
  BY SMTT(60) DEF Single, First
<1>6. Progress'
  BY CloseProgress
<1> QED
  BY <1>1, <1>2, <1>3, <1>4, <1>5, <1>6 DEF TInv

\* The mutex is deleted.
LEMMA DropKeeps ==
  ASSUME Apart, IInv, IInv', TInv, ~Crashed, NEW t \in Threads, Drop(t) PROVE TInv'
<1> USE Names, ThreadsAssumption, ClassesAssumption, MaxAssumption DEF IInv, TInv, TypeOK,
  Labels, Label, Closing, Running, Crashed, onceVars, objVars, regVars, Goto, Enter, Leave,
  After, Body, CallPC, InitPC, ClosePC, ClosedApart, Indices, Drop
<1>1. Guarded'
  BY SMTT(60) DEF Guarded, OneRunner
<1>2. Table'
  BY SMTT(60) DEF Table, Ended, Guarded
<1>3. Closed'
  BY SMTT(60) DEF Closed, Table, Ended
<1>4. First'
  BY SMTT(60) DEF First, Entered, Closed, OneRunner, RunnerTook
<1>5. Single'
  BY SMTT(60) DEF Single, First
<1>6. Progress'
  BY CloseProgress
<1> QED
  BY <1>1, <1>2, <1>3, <1>4, <1>5, <1>6 DEF TInv

-----------------------------------------------------------------------------
(* The invariant of every process that keeps Finalize apart.                *)

\* It holds before anything was called.
LEMMA InitTInv == Init => TInv
<1> SUFFICES ASSUME Init PROVE TInv
  OBVIOUS
<1>1. Guarded
  BY DEF Init, Guarded, InitPC
<1>2. Table
  BY DEF Init, Table, Ended, Indices, Onces
<1>3. Closed
  BY DEF Init, Closed, Onces
<1>4. First
  <2>1. \A c \in Classes : ~Entered(c)
    BY Names DEF Init, Entered, Indices
  <2>2. \A t \in Threads : pc[t] = "idle" /\ on[t] = Mutex
    BY DEF Init
  <2>3. \A t \in Threads : \A c \in Classes : cls[t] = c => ~Running(t, c)
    BY <2>2, Names DEF Running, CallPC
  <2> QED
    BY <2>1, <2>2, <2>3, Names DEF First, Init
<1>5. Single
  BY DEF Init, Single
<1>6. Progress
  BY DEF Init, Progress, There, Torn, Tearing, Ended, Onces
<1> QED
  BY <1>1, <1>2, <1>3, <1>4, <1>5, <1>6 DEF TInv

\* Every step keeps it.
LEMMA StepTInv == ASSUME Apart PROVE IInv /\ TInv /\ [Next]_vars => TInv'
<1> SUFFICES ASSUME IInv, TInv, [Next]_vars PROVE TInv'
  OBVIOUS
<1>1. IInv'
  BY StepIInv
<1>2. CASE UNCHANGED vars
  BY <1>2 DEF vars, TInv, Guarded, Table, Ended, Closed, First, Single, Progress, Entered,
     Crashed, Running, There, Gone, Torn
<1>3. ASSUME NEW t \in Threads, Get(t) \/ Finalize(t) PROVE TInv'
  <2>1. ~Crashed
    BY <1>3 DEF Get, Finalize, Enter, Goto
  <2> QED
    BY <1>1, <1>3, <2>1, GetKeeps, FinalizeKeeps
<1>4. ASSUME NEW t \in Threads, GetStep(t) PROVE TInv'
  <2>1. ~Crashed
    BY <1>4 DEF GetStep, Test, Swap, Spin, Finish, NewMutex, Lock, Push, Write, Unlock,
       New, Throw, Return, Release, Leave, Goto
  <2> QED
    BY <1>1, <1>4, <2>1, TestKeeps, SwapKeeps, SpinKeeps, FinishKeeps, NewMutexKeeps,
       LockKeeps, PushKeeps, WriteKeeps, UnlockKeeps, NewKeeps, ThrowKeeps, ReturnKeeps,
       ReleaseKeeps DEF GetStep
<1>5. ASSUME NEW t \in Threads, CloseStep(t) PROVE TInv'
  <2>1. ~Crashed
    BY <1>5 DEF CloseStep, Count, NextFinalizer, Delete, Null, Undone, Untake, Full,
       Drop, Goto
  <2> QED
    BY <1>1, <1>5, <2>1, CountKeeps, NextFinalizerKeeps, DeleteKeeps, NullKeeps,
       UndoneKeeps, UntakeKeeps, FullKeeps, DropKeeps DEF CloseStep
<1> QED
  BY <1>2, <1>3, <1>4, <1>5 DEF Next

\* Both invariants, in every process that keeps Finalize apart.
LEMMA Teardown == ASSUME Apart PROVE Spec => [](IInv /\ TInv)
<1>1. Init => IInv /\ TInv
  BY InitIInv, InitTInv
<1>2. IInv /\ TInv /\ [Next]_vars => IInv' /\ TInv'
  BY StepIInv, StepTInv
<1> QED
  BY <1>1, <1>2, PTL DEF Spec

\* A type never gets a second object, not even by a get() after Finalize, and
\* when Finalize is over all the objects that were made are destroyed.
THEOREM NeverLeaks == ASSUME Apart PROVE Spec => []NothingLeaks
<1>1. IInv /\ TInv => NothingLeaks
  BY DEF TInv, Single, Progress, Ended, Gone, NothingLeaks
<1> QED
  BY <1>1, Teardown, PTL

\* While a thread runs the finalizers the object of an entry outlives those of
\* all later entries.
THEOREM ReverseOrder == ASSUME Apart PROVE Spec => []ReverseTeardown
<1>1. ASSUME IInv, TInv, NEW t \in Threads, pc[t] \in ClosePC,
             NEW i \in DOMAIN table, NEW j \in DOMAIN table, i < j,
             table[i] # None, table[j] # None, live[table[j]] # {}
      PROVE  live[table[i]] # {} \/ made[table[i]] = 0
  <2>1. /\ i \in Indices /\ j \in Indices /\ i \in Nat /\ j \in Nat
        /\ table[i] \in Classes /\ table[j] \in Classes
    BY <1>1, MaxAssumption DEF IInv, TypeOK, Indices
  <2>2. Torn(t)
    BY <1>1 DEF TInv, Progress
  <2>3. There(table[i]) => live[table[i]] # {} \/ made[table[i]] = 0
    <3>1. made[table[i]] \in Nat /\ made[table[i]] <= 1
      BY <1>1, <2>1 DEF TInv, Single, IInv, TypeOK
    <3>2. made[table[i]] = 1 => live[table[i]] = {1} \/ ~There(table[i])
      BY DEF There
    <3> QED
      BY <3>1, <3>2
  <2>4. CASE pc[t] = "count"
    BY <2>1, <2>2, <2>3, <2>4 DEF Torn
  <2>5. CASE pc[t] \in Tearing \ {"count", "full"}
    <3>1. idx[t] \in Nat
      BY <1>1 DEF IInv, TypeOK
    <3>2. ~ j > idx[t]
      BY <1>1, <2>1, <2>2, <2>5 DEF Torn, Gone
    <3> QED
      BY <1>1, <2>1, <2>2, <2>3, <2>5, <3>1, <3>2 DEF Torn
  <2>6. CASE pc[t] \in {"full", "drop"}
    <3>1. on[t] = Final
      BY <1>1, OneTears
    <3>2. Gone(table[j])
      BY <1>1, <2>1, <2>2, <2>6, <3>1 DEF Torn, TInv, Progress, Ended, Tearing
    <3> QED
      BY <1>1, <3>2 DEF Gone
  <2> QED
    BY <1>1, <2>4, <2>5, <2>6 DEF ClosePC, Tearing
<1>2. IInv /\ TInv => ReverseTeardown
  BY <1>1 DEF ReverseTeardown
<1> QED
  BY <1>2, Teardown, PTL

-----------------------------------------------------------------------------
(* The registry implements the shared instances it promises.                *)

\* Steps that make, destroy, hand out and give back nothing.
LEMMA NothingSeen ==
  ASSUME UNCHANGED <<made, live, got>>, NEW t \in Threads,
         pc[t] # "using", pc'[t] # "using",
         \A u \in Threads \ {t} : pc'[u] = pc[u] /\ cls'[u] = cls[u]
  PROVE  UNCHANGED <<Built, Alive, Held>>
<1>1. \A u \in Threads : (pc'[u] = "using" /\ got'[u] # 0) = (pc[u] = "using" /\ got[u] # 0)
  OBVIOUS
<1>2. \A u \in Threads : pc[u] = "using" => cls'[u] = cls[u]
  OBVIOUS
<1>3. Held' = Held
  BY <1>1, <1>2 DEF Held
<1> QED
  BY <1>3 DEF Built, Alive

\* The pointers to instances that callers hold are none of them NULL.
LEMMA HeldThere ==
  ASSUME IInv, TInv
  PROVE  /\ \A t \in Threads : pc[t] = "using" => got[t] = 1 /\ live[cls[t]] # {}
         /\ \A t \in Threads : pc[t] = "return" => instance[cls[t]] = 1 /\ live[cls[t]] # {}
BY DEF IInv, TypeOK, HeldIsLive, ReturnIsLive, TInv, Single

\* A new object is the first of its type.
LEMMA NewSeen ==
  ASSUME Apart, IInv, TInv, NEW t \in Threads, New(t)
  PROVE  \E c \in Classes : Shared!Make(c)
<1>1. PICK c \in Classes : c = cls[t]
  BY DEF IInv, TypeOK
<1>2. /\ pc[t] = "new" /\ ~Crashed
      /\ pc' = [pc EXCEPT ![t] = "finish"]
      /\ made' = [made EXCEPT ![c] = @ + 1]
      /\ live' = [live EXCEPT ![c] = @ \cup {made[c] + 1}]
      /\ UNCHANGED <<got, cls>>
  BY <1>1 DEF New, Goto
<1>3. made[c] = 0
  <2>1. ~taken[Final]
    BY <1>2 DEF TInv, Closed
  <2>2. on[t] = cls[t]
    BY <1>2 DEF IInv, Labels, Label, InitPC
  <2>3. Running(t, cls[t])
    BY <1>2, <2>2 DEF Running, InitPC
  <2> QED
    BY <1>1, <1>2, <2>1, <2>2, <2>3 DEF TInv, First
<1>4. c \notin Built
  BY <1>3 DEF Built
<1>5. made \in [Classes -> Nat] /\ live \in [Classes -> SUBSET Nat] /\ pc \in [Threads -> PCs]
  BY DEF IInv, TypeOK
<1>6. Built' = Built \cup {c}
  BY <1>2, <1>3, <1>5 DEF Built
<1>7. Alive' = Alive \cup {c}
  BY <1>2, <1>5 DEF Alive
<1>8. Held' = Held
  <2>1. \A u \in Threads : (pc'[u] = "using") = (pc[u] = "using")
    BY <1>2, <1>5
  <2> QED
    BY <1>2, <2>1 DEF Held
<1> QED
  BY <1>4, <1>6, <1>7, <1>8 DEF Shared!Make

\* get() hands out an instance that exists.
LEMMA ReturnSeen ==
  ASSUME IInv, TInv, NEW t \in Threads, Return(t)
  PROVE  \E c \in Classes : Shared!Hold(t, c)
<1>1. PICK c \in Classes : c = cls[t]
  BY DEF IInv, TypeOK
<1>2. /\ pc[t] = "return"
      /\ pc' = [pc EXCEPT ![t] = "using"]
      /\ got' = [got EXCEPT ![t] = instance[c]]
      /\ UNCHANGED <<made, live, cls>>
  BY <1>1 DEF Return, Goto, objVars
<1>3. instance[c] = 1 /\ live[c] # {}
  BY <1>1, <1>2, HeldThere
<1>4. pc \in [Threads -> PCs] /\ got \in [Threads -> Nat]
  BY DEF IInv, TypeOK
<1>5. c \in Alive /\ Held[t] = None
  BY <1>2, <1>3 DEF Alive, Held
<1>6. Held' = [Held EXCEPT ![t] = c]
  <2>1. pc'[t] = "using" /\ got'[t] = 1 /\ cls'[t] = c
    BY <1>1, <1>2, <1>3, <1>4
  <2>2. \A u \in Threads \ {t} : pc'[u] = pc[u] /\ got'[u] = got[u] /\ cls'[u] = cls[u]
    BY <1>2, <1>4
  <2>3. /\ DOMAIN Held' = Threads /\ DOMAIN Held = Threads
        /\ Held = [u \in Threads |-> Held[u]] /\ Held' = [u \in Threads |-> Held'[u]]
    BY DEF Held
  <2>4. Held'[t] = c /\ \A u \in Threads \ {t} : Held'[u] = Held[u]
    BY <2>1, <2>2 DEF Held
  <2> QED
    BY <2>3, <2>4
<1>7. Built' = Built /\ Alive' = Alive
  BY <1>2 DEF Built, Alive
<1> QED
  BY <1>5, <1>6, <1>7 DEF Shared!Hold

\* What the caller is through with it held.
LEMMA ReleaseSeen ==
  ASSUME IInv, TInv, NEW t \in Threads, Release(t) PROVE Shared!Release(t)
<1>1. /\ pc[t] = "using"
      /\ pc' = [pc EXCEPT ![t] = "idle"]
      /\ UNCHANGED <<made, live, cls, got>>
  BY DEF Release, Goto, objVars
<1>2. got[t] # 0 /\ cls[t] \in Classes /\ pc \in [Threads -> PCs]
  BY <1>1, HeldThere DEF IInv, TypeOK
<1>3. Held[t] # None
  BY <1>1, <1>2, ClassesAssumption DEF Held
<1>4. Held' = [Held EXCEPT ![t] = None]
  <2>1. pc'[t] = "idle" /\ \A u \in Threads \ {t} : pc'[u] = pc[u]
    BY <1>1, <1>2
  <2> QED
    BY <1>1, <2>1 DEF Held
<1>5. Built' = Built /\ Alive' = Alive
  BY <1>1 DEF Built, Alive
<1> QED
  BY <1>3, <1>4, <1>5 DEF Shared!Release

\* A finalizer destroys what nobody holds, or finds that there is no object.
LEMMA DeleteSeen ==
  ASSUME Apart, IInv, TInv, NEW t \in Threads, Delete(t)
  PROVE  (\E c \in Classes : Shared!Destroy(c)) \/ UNCHANGED <<Built, Alive, Held>>
<1>1. pc[t] = "delete" /\ ~Crashed
  BY DEF Delete, Goto
<1>2. PICK c \in Classes : c = table[idx[t]]
  BY <1>1, TearingFacts DEF Tearing
<1>3. There(c)
  BY <1>1, <1>2, TearingFacts DEF Tearing, Torn
<1>4. /\ live' = [live EXCEPT ![c] = @ \ {instance[c]}]
      /\ pc'[t] \in {"null", "fault"} /\ \A u \in Threads \ {t} : pc'[u] = pc[u]
      /\ UNCHANGED <<made, got, cls>>
  BY <1>2 DEF Delete, Goto, IInv, TypeOK
<1>5. /\ made[c] \in Nat /\ made[c] <= 1 /\ (made[c] = 0 => live[c] = {})
      /\ live \in [Classes -> SUBSET Nat]
  BY DEF IInv, TypeOK, TInv, Single
<1>6. \A u \in Threads : pc[u] # "using"
  <2>1. on[t] = Final /\ Closing(t)
    BY <1>1, OneTears DEF ClosePC, Closing
  <2>2. ASSUME NEW u \in Threads, pc[u] = "using" PROVE FALSE
    <3>1. on[u] = Final
      BY <2>1, <2>2 DEF IInv, ClosedApart, Closing
    <3> QED
      BY <2>2, <3>1, Names DEF IInv, TypeOK, Labels, Label
  <2> QED
    BY <2>2
<1>7. \A u \in Threads : Held[u] = None
  BY <1>6 DEF Held
<1>8. Held' = Held /\ Built' = Built
  <2>1. \A u \in Threads : pc'[u] # "using"
    BY <1>4, <1>6
  <2>2. Held' = [u \in Threads |-> None] /\ Held = [u \in Threads |-> None]
    BY <1>6, <2>1 DEF Held
  <2> QED
    BY <1>4, <2>2 DEF Built
<1>9. CASE made[c] = 1
  <2>1. live[c] = {1} /\ instance[c] = 1
    BY <1>3, <1>9 DEF There
  <2>2. c \in Alive
    BY <2>1 DEF Alive
  <2>3. Alive' = Alive \ {c}
    BY <1>4, <1>5, <2>1 DEF Alive
  <2> QED
    BY <1>7, <1>8, <2>2, <2>3 DEF Shared!Destroy
<1>10. CASE made[c] = 0
  <2>1. live' = live
    BY <1>4, <1>5, <1>10
  <2> QED
    BY <1>8, <2>1 DEF Alive
<1> QED
  BY <1>5, <1>9, <1>10

\* Every step is one of the shared instances, or is not seen.
LEMMA StepShared ==
  ASSUME Apart PROVE IInv /\ TInv /\ [Next]_vars => [Shared!Next]_Shared!absVars
<1> SUFFICES ASSUME IInv, TInv, [Next]_vars
             PROVE  Shared!Next \/ UNCHANGED <<Built, Alive, Held>>
  BY DEF Shared!absVars
<1>1. CASE UNCHANGED vars
  BY <1>1 DEF vars, Built, Alive, Held
<1>2. ASSUME NEW t \in Threads, Get(t) \/ Finalize(t) \/ Test(t) \/ Swap(t) \/ Spin(t)
               \/ Finish(t) \/ NewMutex(t) \/ Lock(t) \/ Push(t) \/ Write(t) \/ Unlock(t)
               \/ Throw(t)
      PROVE  UNCHANGED <<Built, Alive, Held>>
  <2>1. /\ UNCHANGED <<made, live, got>>
        /\ \A u \in Threads \ {t} : pc'[u] = pc[u] /\ cls'[u] = cls[u]
    BY <1>2 DEF IInv, TypeOK, Get, Finalize, Test, Swap, Spin, Finish, NewMutex, Lock,
       Push, Write, Unlock, Throw, Enter, Leave, Goto, objVars
  <2>2. pc[t] # "using"
    BY <1>2 DEF Get, Finalize, Test, Swap, Spin, Finish, NewMutex, Lock,
       Push, Write, Unlock, Throw, Enter, Leave, Goto
  <2>3. pc'[t] # "using"
    BY <1>2 DEF IInv, TypeOK, Get, Finalize, Test, Swap, Spin, Finish, NewMutex, Lock,
       Push, Write, Unlock, Throw, Enter, Leave, Goto, After, Body
  <2> QED
    BY <2>1, <2>2, <2>3, NothingSeen
<1>3. ASSUME NEW t \in Threads, Count(t) \/ NextFinalizer(t) \/ Null(t) \/ Undone(t)
               \/ Untake(t) \/ Full(t) \/ Drop(t)
      PROVE  UNCHANGED <<Built, Alive, Held>>
  <2>1. /\ UNCHANGED <<made, live, got>>
        /\ pc[t] # "using" /\ pc'[t] # "using"
        /\ \A u \in Threads \ {t} : pc'[u] = pc[u] /\ cls'[u] = cls[u]
    BY <1>3 DEF IInv, TypeOK, Count, NextFinalizer, Null, Undone, Untake, Full, Drop,
       Goto, objVars
  <2> QED
    BY <2>1, NothingSeen
<1>4. ASSUME NEW t \in Threads, New(t) \/ Return(t) \/ Release(t) \/ Delete(t)
      PROVE  Shared!Next \/ UNCHANGED <<Built, Alive, Held>>
  BY <1>4, NewSeen, ReturnSeen, ReleaseSeen, DeleteSeen DEF Shared!Next
<1> QED
  BY <1>1, <1>2, <1>3, <1>4 DEF Next, GetStep, CloseStep

\* Callers of get() see one object for each type, made once, there for as long
\* as somebody holds it and destroyed when nobody does.
THEOREM PromiseKept == ASSUME Apart PROVE Spec => SharedSpec
<1>1. Init => Shared!Init
  BY DEF Init, Shared!Init, Built, Alive, Held
<1> QED
  BY <1>1, StepShared, Teardown, PTL DEF Spec, SharedSpec, Shared!Spec

-----------------------------------------------------------------------------
(* No step has undefined behaviour, when callers make no get() once         *)
(* Finalize has begun and there is an entry for every type.                 *)

\* The mutex is there for whoever comes to lock it.
MutexThere ==
  ~taken[Final] /\ (done[Mutex] \/ \E t \in Threads : on[t] = Mutex /\ pc[t] = "finish")
    => mutex # None

\* Finalize is the last thing that anybody calls.
OnlyClosing == taken[Final] => \A t \in Threads : pc[t] = "idle" \/ on[t] = Final

\* The entries that were taken are written, or a thread is about to.
Filled ==
  ~Ended => \A i \in Indices : i < size =>
    table[i] # None \/ \E t \in Threads : pc[t] = "write" /\ idx[t] = i

\* DeleteSingleton is at an entry that was taken.
Inside ==
  \A t \in Threads : pc[t] \in Tearing \ {"count", "full"} => idx[t] <= size

SInv == ~Crashed /\ MutexThere /\ OnlyClosing /\ Filled /\ Inside

\* A get() is under way only before Finalize has begun.
LEMMA StillOpen ==
  ASSUME IInv, SInv, NEW t \in Threads, pc[t] # "idle", on[t] # Final
  PROVE  ~taken[Final] /\ ~Ended
BY OneTears DEF SInv, OnlyClosing

\* The mutex is there to be locked.
LEMMA LockFinds ==
  ASSUME IInv, TInv, SInv, NEW t \in Threads, pc[t] = "lock" PROVE mutex # None
<1>1. on[t] # Final
  BY Names DEF IInv, TypeOK, Labels, Label, InitPC
<1>2. ~taken[Final]
  BY <1>1, StillOpen
<1>3. done[Mutex]
  BY DEF TInv, Guarded, InitPC
<1> QED
  BY <1>2, <1>3 DEF SInv, MutexThere

\* There is an entry left: each that was taken is of another type than that which
\* is to be entered, and no two of the same.
LEMMA PushFinds ==
  ASSUME IsFiniteSet(Classes), Cardinality(Classes) <= MaxFinalizers,
         IInv, TInv, SInv, NEW t \in Threads, pc[t] = "push"
  PROVE  size < MaxFinalizers
<1>1. on[t] = cls[t] /\ cls[t] \in Classes /\ on[t] # Final
  BY Names DEF IInv, TypeOK, Labels, Label, InitPC
<1>2. ~taken[Final] /\ ~Ended
  BY <1>1, StillOpen
<1>3. \A u \in Threads : pc[u] # "write"
  BY DEF TInv, Guarded
<1>4. \A i \in Indices : i < size => table[i] # None
  BY <1>2, <1>3 DEF SInv, Filled
<1>5. ~Entered(cls[t])
  <2>1. Running(t, cls[t])
    BY <1>1 DEF Running, InitPC
  <2> QED
    BY <1>2, <2>1 DEF TInv, First
<1>6. table \in [Indices -> Classes \cup {None}] /\ size \in Nat
  BY DEF IInv, TypeOK, Indices
<1>7. \A i, j \in Indices : table[i] = table[j] /\ table[i] # None => i = j
  BY DEF TInv, Table
<1>8. IsFiniteSet(Indices) /\ Cardinality(Indices) = MaxFinalizers
  BY FS_Interval, MaxAssumption DEF Indices
<1>9. /\ IsFiniteSet(Classes \ {cls[t]})
      /\ Cardinality(Classes \ {cls[t]}) < MaxFinalizers
  <2>1. Cardinality(Classes) \in Nat
    BY FS_CardinalityType
  <2>2. /\ IsFiniteSet(Classes \ {cls[t]})
        /\ Cardinality(Classes \ {cls[t]}) = Cardinality(Classes) - 1
    BY <1>1, FS_RemoveElement
  <2> QED
    BY <2>1, <2>2, MaxAssumption
<1> SUFFICES ASSUME size >= MaxFinalizers PROVE FALSE
  BY <1>6, MaxAssumption
<1>10. \A i \in Indices : i < size
  BY <1>6, MaxAssumption DEF Indices
<1>11. table \in [Indices -> Classes \ {cls[t]}]
  BY <1>4, <1>5, <1>6, <1>10 DEF Entered
<1>12. \E i, j \in Indices : i # j /\ table[i] = table[j]
  BY <1>8, <1>9, <1>11, FS_PigeonHole
<1> QED
  BY <1>4, <1>7, <1>10, <1>12

\* The entry that DeleteSingleton comes to is written.
LEMMA NextFinds ==
  ASSUME IInv, TInv, SInv, NEW t \in Threads, pc[t] = "next", idx[t] # 0
  PROVE  table[idx[t] - 1] # None
<1>1. /\ taken[Final] /\ ~done[Final] /\ idx[t] \in Nat /\ idx[t] <= MaxFinalizers
      /\ \A u \in Threads : ~(on[u] = Final /\ pc[u] \in {"drop", "finish"})
  BY TearingFacts DEF Tearing, SInv
<1>2. ~Ended
  BY <1>1 DEF Ended
<1>3. \A u \in Threads : pc[u] # "write"
  BY <1>1 DEF TInv, Closed
<1>4. idx[t] - 1 \in Indices /\ idx[t] - 1 < size
  <2>1. idx[t] <= size /\ size \in Nat
    BY DEF SInv, Inside, Tearing, IInv, TypeOK
  <2> QED
    BY <1>1, <2>1, MaxAssumption DEF Indices
<1> QED
  BY <1>2, <1>3, <1>4 DEF SInv, Filled

\* Its object was not destroyed before.
LEMMA DeleteFinds ==
  ASSUME IInv, TInv, SInv, NEW t \in Threads, pc[t] = "delete"
  PROVE  instance[table[idx[t]]] \in live[table[idx[t]]] \cup {0}
<1>1. table[idx[t]] \in Classes /\ There(table[idx[t]])
  BY TearingFacts DEF Tearing, Torn, SInv
<1>2. PICK c \in Classes : c = table[idx[t]] /\ There(c)
  BY <1>1
<1>3. /\ made[c] \in Nat /\ made[c] <= 1
      /\ instance[c] \in {0, made[c]}
  BY DEF IInv, TypeOK, TInv, Single
<1>4. instance[c] \in live[c] \cup {0}
  BY <1>2, <1>3 DEF There
<1> QED
  BY <1>2, <1>4

\* So no step has undefined behaviour.
LEMMA StepNoCrash ==
  ASSUME IsFiniteSet(Classes), Cardinality(Classes) <= MaxFinalizers,
         IInv, TInv, SInv, Next
  PROVE  ~Crashed'
<1>1. \A u \in Threads : pc[u] # "fault"
  BY DEF SInv, Crashed
<1>2. ASSUME NEW t \in Threads, NEW to \in PCs \ {"fault"}, pc' = [pc EXCEPT ![t] = to]
      PROVE  ~Crashed'
  BY <1>1, <1>2 DEF Crashed, IInv, TypeOK
<1>3. ASSUME NEW t \in Threads, Get(t) \/ Finalize(t) \/ NewMutex(t) \/ Write(t) \/ New(t)
               \/ Throw(t) \/ Return(t) \/ Release(t) \/ Count(t) \/ Null(t) \/ Undone(t)
               \/ Untake(t) \/ Full(t) \/ Drop(t)
      PROVE  ~Crashed'
  BY <1>2, <1>3 DEF Get, Finalize, NewMutex, Write, New, Throw, Return, Release, Count,
     Null, Undone, Untake, Full, Drop, Enter, Goto, PCs, CallPC, InitPC, ClosePC
<1>4. ASSUME NEW t \in Threads, Test(t) \/ Swap(t) \/ Spin(t) \/ Finish(t) PROVE ~Crashed'
  <2>1. /\ After(on[t]) \in PCs \ {"fault"}
        /\ Body(on[t]) \in PCs \ {"fault"}
    BY DEF After, Body, PCs, CallPC, InitPC, ClosePC
  <2>2. "swap" \in PCs \ {"fault"} /\ "spin" \in PCs \ {"fault"}
    BY DEF PCs, CallPC
  <2> QED
    BY <1>2, <1>4, <2>1, <2>2 DEF Test, Swap, Spin, Finish, Leave, Goto
<1>5. ASSUME NEW t \in Threads, Lock(t) PROVE ~Crashed'
  BY <1>2, <1>5, LockFinds DEF Lock, Goto, PCs, InitPC
<1>6. ASSUME NEW t \in Threads, Push(t) PROVE ~Crashed'
  BY <1>2, <1>6, PushFinds DEF Push, Goto, PCs, InitPC
<1>7. ASSUME NEW t \in Threads, Unlock(t) PROVE ~Crashed'
  BY <1>2, <1>7 DEF Unlock, Goto, PCs, InitPC, TInv, Guarded
<1>8. ASSUME NEW t \in Threads, NextFinalizer(t) PROVE ~Crashed'
  BY <1>2, <1>8, NextFinds DEF NextFinalizer, Goto, PCs, ClosePC
<1>9. ASSUME NEW t \in Threads, Delete(t) PROVE ~Crashed'
  BY <1>2, <1>9, DeleteFinds DEF Delete, Goto, PCs, ClosePC
<1> QED
  BY <1>3, <1>4, <1>5, <1>6, <1>7, <1>8, <1>9 DEF Next, GetStep, CloseStep


\* Steps that leave the once_t of Finalize, the mutex and its table alone.
LEMMA MutexKept ==
  ASSUME IInv, SInv, Next,
         taken[Final] => taken'[Final]
  PROVE  MutexThere'
<1>1. \A u \in Threads : pc[u] = "idle" \/ on[u] = Final \/ ~taken[Final]
  BY DEF SInv, OnlyClosing
<1>2. ASSUME NEW t \in Threads, Get(t) \/ Finalize(t) \/ Test(t) \/ Swap(t) \/ Spin(t)
      PROVE  MutexThere'
  <2>1. UNCHANGED <<done, mutex>>
    BY <1>2 DEF Get, Finalize, Test, Swap, Spin, onceVars, regVars
  <2>2. ASSUME NEW u \in Threads, on'[u] = Mutex, pc'[u] = "finish"
        PROVE  on[u] = Mutex /\ pc[u] = "finish"
    BY <1>2, <2>2, Names DEF Get, Finalize, Test, Swap, Spin, Enter, Leave, Goto, After, Body,
       IInv, TypeOK
  <2> QED
    BY <2>1, <2>2 DEF SInv, MutexThere
<1>3. ASSUME NEW t \in Threads, Finish(t) PROVE MutexThere'
  <2>1. /\ mutex' = mutex /\ pc[t] = "finish"
        /\ done'[Mutex] => done[Mutex] \/ on[t] = Mutex
    BY <1>3, Names DEF Finish, Leave, Goto, regVars, IInv, TypeOK, Onces
  <2>2. ASSUME NEW u \in Threads, on'[u] = Mutex, pc'[u] = "finish"
        PROVE  on[u] = Mutex /\ pc[u] = "finish"
    BY <1>3, <2>2, Names DEF Finish, Leave, Goto, After, IInv, TypeOK
  <2> QED
    BY <2>1, <2>2 DEF SInv, MutexThere
<1>4. ASSUME NEW t \in Threads, NewMutex(t) \/ Lock(t) \/ Unlock(t) PROVE MutexThere'
  <2>1. CASE NewMutex(t)
    <3>1. mutex' = Free /\ Free # None
      BY <2>1 DEF NewMutex, Free, None
    <3> QED
      BY <3>1 DEF MutexThere
  <2>2. CASE Lock(t) \/ Unlock(t)
    <3>1. /\ UNCHANGED <<done, on>>
          /\ pc'[t] # "finish" /\ \A u \in Threads \ {t} : pc'[u] = pc[u]
      BY <2>2 DEF Lock, Unlock, Goto, onceVars, IInv, TypeOK
    <3>2. mutex' = None => mutex = None
      BY <2>2, ThreadsAssumption DEF Lock, Unlock, Free, None
    <3> QED
      BY <3>1, <3>2 DEF SInv, MutexThere
  <2> QED
    BY <1>4, <2>1, <2>2
<1>5. ASSUME NEW t \in Threads, Push(t) \/ Write(t) \/ New(t) \/ Throw(t) \/ Return(t)
               \/ Release(t) \/ Count(t) \/ NextFinalizer(t) \/ Delete(t) \/ Null(t)
               \/ Untake(t) \/ Full(t)
      PROVE  MutexThere'
  <2>1. /\ UNCHANGED <<done, on, mutex>>
        /\ pc'[t] = "finish" => on[t] # Mutex
        /\ \A u \in Threads \ {t} : pc'[u] = pc[u]
    BY <1>5, Names DEF Push, Write, New, Throw, Return, Release, Count, NextFinalizer,
       Delete, Null, Untake, Full, Goto, onceVars, regVars, IInv, TypeOK, Labels, Label,
       InitPC, CallPC
  <2> QED
    BY <2>1 DEF SInv, MutexThere
<1>6. ASSUME NEW t \in Threads, Undone(t) \/ Drop(t) PROVE MutexThere'
  <2>1. pc[t] \in ClosePC
    BY <1>6 DEF Undone, Drop, Goto, ClosePC
  <2>2. taken[Final]
    BY <2>1, OneTears
  <2> QED
    BY <2>2 DEF MutexThere
<1> QED
  BY <1>2, <1>3, <1>4, <1>5, <1>6 DEF Next, GetStep, CloseStep

\* Nobody begins a get() that Finalize would meet.
LEMMA ClosingKept ==
  ASSUME Last, IInv, SInv, Next PROVE OnlyClosing'
<1>1. ASSUME NEW t \in Threads, Get(t) PROVE OnlyClosing'
  BY <1>1 DEF Get, onceVars, OnlyClosing
<1>2. ASSUME NEW t \in Threads, Finalize(t) PROVE OnlyClosing'
  BY <1>2 DEF Finalize, Enter, Goto, onceVars, OnlyClosing, SInv, IInv, TypeOK
<1>3. ASSUME NEW t \in Threads, Swap(t) PROVE OnlyClosing'
  <2>1. CASE on[t] = Final
    <3>1. \A u \in Threads : pc[u] = "idle" \/ on[u] = Final
      BY <1>3, <2>1 DEF Swap, Goto, IInv, ClosedApart, Closing
    <3> QED
      BY <1>3, <2>1, <3>1, Names DEF Swap, Goto, IInv, TypeOK, OnlyClosing
  <2>2. CASE on[t] # Final
    <3>1. taken'[Final] = taken[Final]
      BY <1>3, <2>2, Names DEF Swap, IInv, TypeOK, Onces
    <3>2. ~taken[Final]
      BY <1>3, <2>2, StillOpen DEF Swap, Goto
    <3> QED
      BY <3>1, <3>2 DEF OnlyClosing
  <2> QED
    BY <2>1, <2>2
<1>4. ASSUME NEW t \in Threads, Test(t) \/ Spin(t) \/ Finish(t) PROVE OnlyClosing'
  <2>1. on[t] = Final => on' = on
    BY <1>4, Names DEF Test, Spin, Finish, Leave, Goto, IInv, TypeOK
  <2>2. pc[t] # "idle" /\ taken' = taken
    BY <1>4 DEF Test, Spin, Finish, Leave, Goto, onceVars
  <2>3. \A u \in Threads \ {t} : pc'[u] = pc[u] /\ on'[u] = on[u]
    BY <1>4 DEF Test, Spin, Finish, Leave, Goto, IInv, TypeOK
  <2> QED
    BY <2>1, <2>2, <2>3 DEF OnlyClosing, SInv
<1>5. ASSUME NEW t \in Threads, NewMutex(t) \/ Lock(t) \/ Push(t) \/ Write(t) \/ Unlock(t)
               \/ New(t) \/ Throw(t) \/ Return(t) \/ Release(t) \/ Count(t)
               \/ NextFinalizer(t) \/ Delete(t) \/ Null(t) \/ Undone(t) \/ Full(t) \/ Drop(t)
      PROVE  OnlyClosing'
  <2>1. pc[t] # "idle" /\ UNCHANGED <<taken, on>> /\ \A u \in Threads \ {t} : pc'[u] = pc[u]
    BY <1>5 DEF NewMutex, Lock, Push, Write, Unlock, New, Throw, Return, Release, Count,
       NextFinalizer, Delete, Null, Undone, Full, Drop, Goto, onceVars, IInv, TypeOK
  <2> QED
    BY <2>1 DEF OnlyClosing, SInv
<1>6. ASSUME NEW t \in Threads, Untake(t) PROVE OnlyClosing'
  <2>1. pc[t] = "untake" /\ on' = on /\ \A u \in Threads \ {t} : pc'[u] = pc[u]
    BY <1>6 DEF Untake, Goto, IInv, TypeOK
  <2>2. taken[Final]
    BY <2>1, OneTears DEF ClosePC
  <2> QED
    BY <2>1, <2>2 DEF OnlyClosing, SInv
<1> QED
  BY <1>1, <1>2, <1>3, <1>4, <1>5, <1>6 DEF Next, GetStep, CloseStep

\* The entries that were taken stay written, and a new one has its writer.
LEMMA FilledKept ==
  ASSUME IInv, TInv, SInv, Next, Ended => Ended' PROVE Filled'
<1>1. CASE Ended
  BY <1>1 DEF Filled
<1>2. CASE ~Ended
  <2>1. \A i \in Indices : i < size =>
          table[i] # None \/ \E t \in Threads : pc[t] = "write" /\ idx[t] = i
    BY <1>2 DEF SInv, Filled
  <2>2. ASSUME NEW t \in Threads, UNCHANGED <<table, size>>, pc[t] # "write",
               \A u \in Threads \ {t} : pc'[u] = pc[u] /\ idx'[u] = idx[u]
        PROVE  Filled'
    BY <2>1, <2>2 DEF Filled
  <2>3. ASSUME NEW t \in Threads, Get(t) \/ Finalize(t) \/ Test(t) \/ Swap(t) \/ Spin(t)
                 \/ Finish(t)
        PROVE  Filled'
    <3>1. /\ UNCHANGED <<table, size>> /\ pc[t] # "write"
          /\ \A u \in Threads \ {t} : pc'[u] = pc[u] /\ idx'[u] = idx[u]
      BY <2>3 DEF Get, Finalize, Test, Swap, Spin, Finish, Enter, Leave, Goto, regVars,
         IInv, TypeOK
    <3> QED
      BY <2>2, <3>1
  <2>4. ASSUME NEW t \in Threads, NewMutex(t) \/ Lock(t) \/ Unlock(t) \/ New(t) \/ Throw(t)
                 \/ Return(t) \/ Release(t) \/ Count(t) \/ NextFinalizer(t) \/ Delete(t)
                 \/ Null(t) \/ Undone(t) \/ Untake(t) \/ Drop(t)
        PROVE  Filled'
    <3>1. /\ UNCHANGED <<table, size>> /\ pc[t] # "write"
          /\ \A u \in Threads \ {t} : pc'[u] = pc[u] /\ idx'[u] = idx[u]
      BY <2>4 DEF NewMutex, Lock, Unlock, New, Throw, Return, Release, Count, NextFinalizer,
         Delete, Null, Undone, Untake, Drop, Goto, regVars, IInv, TypeOK
    <3> QED
      BY <2>2, <3>1
  <2>5. ASSUME NEW t \in Threads, Push(t), pc'[t] # "fault" PROVE Filled'
    <3>1. /\ pc'[t] = "write" /\ idx'[t] = size /\ size' = size + 1 /\ table' = table
          /\ pc[t] = "push"
          /\ \A u \in Threads \ {t} : pc'[u] = pc[u] /\ idx'[u] = idx[u]
      BY <2>5 DEF Push, Goto, IInv, TypeOK
    <3>2. ASSUME NEW i \in Indices, i < size'
          PROVE  table[i] # None \/ \E u \in Threads : pc'[u] = "write" /\ idx'[u] = i
      <4>1. size \in Nat /\ i \in Nat
        BY MaxAssumption DEF IInv, TypeOK, Indices
      <4>2. i < size \/ i = size
        BY <3>1, <3>2, <4>1
      <4>3. CASE i < size
        BY <2>1, <3>1, <4>3
      <4>4. CASE i = size
        BY <3>1, <4>4
      <4> QED
        BY <4>2, <4>3, <4>4
    <3> QED
      BY <3>1, <3>2 DEF Filled
  <2>6. ASSUME NEW t \in Threads, Write(t) PROVE Filled'
    <3>1. /\ pc[t] = "write" /\ size' = size
          /\ \A u \in Threads \ {t} : pc'[u] = pc[u] /\ idx'[u] = idx[u]
          /\ table' = [table EXCEPT ![idx[t]] = cls[t]] /\ cls[t] # None
          /\ table \in [Indices -> Classes \cup {None}]
      BY <2>6, Names DEF Write, Goto, IInv, TypeOK, Indices
    <3>2. idx[t] \in Indices
      BY <3>1 DEF TInv, Table
    <3>3. \A i \in Indices : table'[i] # None \/ (i # idx[t] /\ table'[i] = table[i])
      BY <3>1, <3>2
    <3> QED
      BY <2>1, <3>1, <3>3 DEF Filled
  <2>7. ASSUME NEW t \in Threads, Full(t) PROVE Filled'
    <3>1. on[t] = Final
      BY <2>7, OneTears DEF Full, Goto, ClosePC
    <3>2. pc'[t] = "drop" /\ on'[t] = Final
      BY <2>7, <3>1 DEF Full, Goto, IInv, TypeOK
    <3>3. Ended'
      BY <3>2 DEF Ended
    <3> QED
      BY <3>3 DEF Filled
  <2>8. ASSUME NEW t \in Threads, Push(t), pc'[t] = "fault" PROVE Filled'
    <3>1. size >= MaxFinalizers
      BY <2>8, MaxAssumption DEF Push, Goto, IInv, TypeOK
    <3>2. \A i \in Indices : i < size
      BY <3>1, MaxAssumption DEF Indices, IInv, TypeOK
    <3>3. /\ table' = table /\ pc[t] = "push"
          /\ \A u \in Threads \ {t} : pc'[u] = pc[u] /\ idx'[u] = idx[u]
      BY <2>8 DEF Push, Goto, IInv, TypeOK
    <3> QED
      BY <2>1, <3>2, <3>3 DEF Filled
  <2> QED
    BY <2>3, <2>4, <2>5, <2>6, <2>7, <2>8 DEF Next, GetStep, CloseStep
<1> QED
  BY <1>1, <1>2


\* The loop of DeleteSingleton goes down from the last entry.
LEMMA InsideKept ==
  ASSUME IInv, SInv, Next PROVE Inside'
<1>1. size \in Nat /\ size <= MaxFinalizers
  BY DEF IInv, TypeOK, Entries, SInv
<1>2. ASSUME NEW t \in Threads, size' \in Nat, size' >= size,
             pc'[t] \notin Tearing \ {"count", "full"},
             \A u \in Threads \ {t} : pc'[u] = pc[u] /\ idx'[u] = idx[u]
      PROVE  Inside'
  <2>1. ASSUME NEW u \in Threads, pc'[u] \in Tearing \ {"count", "full"}
        PROVE  idx'[u] <= size'
    <3>1. u # t /\ pc'[u] = pc[u] /\ idx'[u] = idx[u]
      BY <1>2, <2>1
    <3>2. idx[u] \in Nat /\ idx[u] <= size
      BY <2>1, <3>1 DEF SInv, Inside, IInv, TypeOK
    <3> QED
      BY <1>1, <1>2, <3>1, <3>2
  <2> QED
    BY <2>1 DEF Inside
<1>3. ASSUME NEW t \in Threads, Get(t) \/ Finalize(t) \/ Test(t) \/ Swap(t) \/ Spin(t)
               \/ Finish(t)
      PROVE  Inside'
  <2>1. /\ size' = size /\ pc'[t] \notin Tearing \ {"count", "full"}
        /\ \A u \in Threads \ {t} : pc'[u] = pc[u] /\ idx'[u] = idx[u]
    BY <1>3 DEF Get, Finalize, Test, Swap, Spin, Finish, Enter, Leave, Goto, regVars,
       IInv, TypeOK, After, Body, Tearing
  <2> QED
    BY <1>1, <1>2, <2>1
<1>4. ASSUME NEW t \in Threads, NewMutex(t) \/ Lock(t) \/ Write(t) \/ Unlock(t) \/ New(t)
               \/ Throw(t) \/ Return(t) \/ Release(t) \/ Drop(t)
      PROVE  Inside'
  <2>1. /\ size' = size /\ pc'[t] \notin Tearing \ {"count", "full"}
        /\ \A u \in Threads \ {t} : pc'[u] = pc[u] /\ idx'[u] = idx[u]
    BY <1>4 DEF NewMutex, Lock, Write, Unlock, New, Throw, Return, Release, Drop, Goto,
       regVars, IInv, TypeOK, Tearing
  <2> QED
    BY <1>1, <1>2, <2>1
<1>5. ASSUME NEW t \in Threads, Push(t) \/ Full(t) PROVE Inside'
  <2>1. /\ size' \in Nat /\ size' >= size /\ pc'[t] \notin Tearing \ {"count", "full"}
        /\ \A u \in Threads \ {t} : pc'[u] = pc[u] /\ idx'[u] = idx[u]
    BY <1>1, <1>5, MaxAssumption DEF Push, Full, Goto, IInv, TypeOK, Tearing
  <2> QED
    BY <1>2, <2>1
<1>6. ASSUME NEW t \in Threads, Delete(t) \/ Null(t) \/ Undone(t) \/ Untake(t)
      PROVE  Inside'
  <2>1. /\ UNCHANGED <<size, idx>> /\ pc[t] \in Tearing \ {"count", "full"}
        /\ \A u \in Threads \ {t} : pc'[u] = pc[u]
    BY <1>6 DEF Delete, Null, Undone, Untake, Goto, regVars, IInv, TypeOK, Tearing
  <2> QED
    BY <2>1 DEF SInv, Inside
<1>7. ASSUME NEW t \in Threads, Count(t) \/ NextFinalizer(t) PROVE Inside'
  <2>1. /\ size' = size /\ \A u \in Threads \ {t} : pc'[u] = pc[u] /\ idx'[u] = idx[u]
    BY <1>7 DEF Count, NextFinalizer, Goto, regVars, IInv, TypeOK
  <2>2. idx'[t] <= size
    <3>1. CASE Count(t)
      BY <1>1, <3>1 DEF Count, IInv, TypeOK
    <3>2. CASE NextFinalizer(t)
      <4>1. idx[t] \in Nat /\ idx[t] <= size
        BY <3>2 DEF NextFinalizer, Goto, SInv, Inside, Tearing, IInv, TypeOK
      <4>2. idx'[t] = idx[t] \/ idx'[t] = idx[t] - 1
        BY <3>2 DEF NextFinalizer, IInv, TypeOK
      <4> QED
        BY <1>1, <4>1, <4>2
    <3> QED
      BY <1>7, <3>1, <3>2
  <2> QED
    BY <2>1, <2>2 DEF SInv, Inside
<1> QED
  BY <1>3, <1>4, <1>5, <1>6, <1>7 DEF Next, GetStep, CloseStep

\* Finalize that has begun has begun for good, and is over for good.
LEMMA Lasting ==
  ASSUME IInv, SInv, Next PROVE (taken[Final] => taken'[Final]) /\ (Ended => Ended')
<1>1. ASSUME NEW t \in Threads, UNCHANGED onceVars, UNCHANGED on,
             \A u \in Threads \ {t} : pc'[u] = pc[u],
             ~(on[t] = Final /\ pc[t] \in {"drop", "finish"})
      PROVE  (taken[Final] => taken'[Final]) /\ (Ended => Ended')
  BY <1>1 DEF onceVars, Ended
<1>2. ASSUME NEW t \in Threads, NewMutex(t) \/ Lock(t) \/ Push(t) \/ Write(t) \/ Unlock(t)
               \/ New(t) \/ Throw(t) \/ Return(t) \/ Release(t) \/ Count(t)
               \/ NextFinalizer(t) \/ Delete(t) \/ Null(t) \/ Full(t)
      PROVE  (taken[Final] => taken'[Final]) /\ (Ended => Ended')
  <2>1. /\ UNCHANGED onceVars /\ UNCHANGED on /\ \A u \in Threads \ {t} : pc'[u] = pc[u]
        /\ pc[t] \notin {"drop", "finish"}
    BY <1>2 DEF NewMutex, Lock, Push, Write, Unlock, New, Throw, Return, Release, Count,
       NextFinalizer, Delete, Null, Full, Goto, IInv, TypeOK
  <2> QED
    BY <1>1, <2>1
<1>3. ASSUME NEW t \in Threads, Get(t) \/ Finalize(t) \/ Test(t) \/ Spin(t)
      PROVE  (taken[Final] => taken'[Final]) /\ (Ended => Ended')
  <2>1. /\ UNCHANGED onceVars /\ pc[t] \notin {"drop", "finish"}
        /\ \A u \in Threads \ {t} : pc'[u] = pc[u] /\ on'[u] = on[u]
    BY <1>3 DEF Get, Finalize, Test, Spin, Enter, Leave, Goto, IInv, TypeOK
  <2> QED
    BY <2>1 DEF onceVars, Ended
<1>4. ASSUME NEW t \in Threads, Swap(t)
      PROVE  (taken[Final] => taken'[Final]) /\ (Ended => Ended')
  <2>1. /\ done' = done /\ pc[t] \notin {"drop", "finish"}
        /\ \A u \in Threads \ {t} : pc'[u] = pc[u] /\ on'[u] = on[u]
    BY <1>4 DEF Swap, Goto, IInv, TypeOK
  <2>2. taken[Final] => taken'[Final]
    BY <1>4, Names DEF Swap, IInv, TypeOK
  <2> QED
    BY <2>1, <2>2 DEF Ended
<1>5. ASSUME NEW t \in Threads, Finish(t)
      PROVE  (taken[Final] => taken'[Final]) /\ (Ended => Ended')
  <2>1. /\ taken' = taken
        /\ \A u \in Threads \ {t} : pc'[u] = pc[u] /\ on'[u] = on[u]
    BY <1>5 DEF Finish, Leave, Goto, IInv, TypeOK
  <2>2. done[Final] \/ on[t] = Final => done'[Final]
    BY <1>5, Names DEF Finish, IInv, TypeOK
  <2> QED
    BY <2>1, <2>2 DEF Ended
<1>6. ASSUME NEW t \in Threads, Undone(t) \/ Untake(t)
      PROVE  (taken[Final] => taken'[Final]) /\ (Ended => Ended')
  <2>1. pc[t] \in Tearing /\ pc[t] \in {"undone", "untake"}
    BY <1>6 DEF Undone, Untake, Goto, Tearing
  <2>2. table[idx[t]] # Final
    BY <2>1, Names DEF IInv, Entries
  <2>3. taken'[Final] = taken[Final] /\ done'[Final] = done[Final]
    <3>1. CASE Undone(t)
      BY <2>2, <3>1, Names DEF Undone, IInv, TypeOK
    <3>2. CASE Untake(t)
      BY <2>2, <3>2, Names DEF Untake, IInv, TypeOK
    <3> QED
      BY <1>6, <3>1, <3>2
  <2>4. on' = on /\ \A u \in Threads \ {t} : pc'[u] = pc[u]
    BY <1>6 DEF Undone, Untake, Goto, IInv, TypeOK
  <2> QED
    BY <2>1, <2>3, <2>4 DEF Ended
<1>7. ASSUME NEW t \in Threads, Drop(t)
      PROVE  (taken[Final] => taken'[Final]) /\ (Ended => Ended')
  <2>1. /\ UNCHANGED onceVars /\ on' = on /\ pc'[t] = "finish"
        /\ \A u \in Threads \ {t} : pc'[u] = pc[u]
    BY <1>7 DEF Drop, Goto, IInv, TypeOK
  <2> QED
    BY <2>1 DEF onceVars, Ended
<1> QED
  BY <1>2, <1>3, <1>4, <1>5, <1>6, <1>7 DEF Next, GetStep, CloseStep

\* No call locks a mutex that is not there, writes past the table, calls an empty
\* entry or deletes an object twice, when Finalize is the last thing the callers
\* do and the table has an entry for every type.
THEOREM NeverFaults ==
  ASSUME Apart, Last, IsFiniteSet(Classes), Cardinality(Classes) <= MaxFinalizers
  PROVE  Spec => []NoFault
<1>1. Init => SInv
  <2> SUFFICES ASSUME Init PROVE SInv
    OBVIOUS
  <2>1. \A t \in Threads : pc[t] = "idle"
    BY DEF Init
  <2>2. ~done[Mutex] /\ ~taken[Final] /\ size = 0
    BY Names DEF Init
  <2>3. Filled
    BY <2>2, MaxAssumption DEF Filled, Indices
  <2> QED
    BY <2>1, <2>2, <2>3 DEF SInv, Crashed, MutexThere, OnlyClosing, Inside, Tearing
<1>2. IInv /\ TInv /\ SInv /\ [Next]_vars => SInv'
  <2> SUFFICES ASSUME IInv, TInv, SInv, [Next]_vars PROVE SInv'
    OBVIOUS
  <2>1. CASE Next
    <3>1. (taken[Final] => taken'[Final]) /\ (Ended => Ended')
      BY <2>1, Lasting
    <3>2. ~Crashed'
      BY <2>1, StepNoCrash
    <3> QED
      BY <2>1, <3>1, <3>2, MutexKept, ClosingKept, FilledKept, InsideKept DEF SInv
  <2>2. CASE UNCHANGED vars
    BY <2>2 DEF vars, SInv, Crashed, MutexThere, OnlyClosing, Filled, Inside, Ended
  <2> QED
    BY <2>1, <2>2
<1>3. SInv => NoFault
  BY DEF SInv, NoFault
<1> QED
  BY <1>1, <1>2, <1>3, Teardown, PTL DEF Spec
=============================================================================
