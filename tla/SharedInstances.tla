-------------------------- MODULE SharedInstances --------------------------
(***************************************************************************)
(* What Singleton<T> promises its callers, without the way it is done: one *)
(* object for each type, made at the first use, the same for everybody who *)
(* asks, and destroyed once, when nobody holds it any more.                *)
(***************************************************************************)
EXTENDS Naturals

CONSTANTS Threads, Classes, Nobody

VARIABLES
  built,  \* the types whose object was ever made
  alive,  \* the types whose object exists
  held    \* the type whose object a thread holds, or Nobody

absVars == <<built, alive, held>>

Init == built = {} /\ alive = {} /\ held = [t \in Threads |-> Nobody]

Make(c) ==
  /\ c \notin built
  /\ built' = built \cup {c}
  /\ alive' = alive \cup {c}
  /\ UNCHANGED held

Hold(t, c) ==
  /\ c \in alive /\ held[t] = Nobody
  /\ held' = [held EXCEPT ![t] = c]
  /\ UNCHANGED <<built, alive>>

Release(t) ==
  /\ held[t] # Nobody
  /\ held' = [held EXCEPT ![t] = Nobody]
  /\ UNCHANGED <<built, alive>>

Destroy(c) ==
  /\ c \in alive
  /\ \A t \in Threads : held[t] = Nobody
  /\ alive' = alive \ {c}
  /\ UNCHANGED <<built, held>>

Next == \/ \E c \in Classes : Make(c) \/ Destroy(c)
        \/ \E t \in Threads : Release(t) \/ \E c \in Classes : Hold(t, c)

Spec == Init /\ [][Next]_absVars
=============================================================================
