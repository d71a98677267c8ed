---------------------------- MODULE PlainStrings ----------------------------
(***************************************************************************)
(* Strings with value semantics: what a user of KString may believe.  One  *)
(* operation changes one string; the strings of Constants never change.    *)
(***************************************************************************)
CONSTANTS Strings, Fixed, Texts, Empty

VARIABLE val

Init == val \in [Strings -> Texts \cup {Empty}]

Put(s, v)   == val' = [val EXCEPT ![s] = v]
Set(s)      == val[s] # Empty /\ \E v \in Texts : Put(s, v)
Build(s)    == val[s] = Empty /\ \E v \in Texts : Put(s, v)
CopyOf(s)   == \E o \in Strings : Put(s, val[o])
Destroy(s)  == Put(s, Empty)

Next == \E s \in Strings \ Fixed : Set(s) \/ Build(s) \/ CopyOf(s) \/ Destroy(s)

Spec == Init /\ [][Next]_val
=============================================================================
