----------------------------- MODULE CowString -----------------------------
(***************************************************************************)
(* The shared blocks of KString (include/nlp/segment/kstring.hpp): a       *)
(* KString is a pointer mem_ to a counted block, copies share the block,   *)
(* and a mutator that finds the count above one takes a copy first.        *)
(*                                                                         *)
(* A thread changes its own strings and copies from those and from the     *)
(* strings that nobody changes (the values of a loaded dictionary); there  *)
(* is no other synchronisation.  A step is one access to a counter or to a *)
(* block, and what only one thread sees along with it; the text of a block *)
(* is one of Texts.  A string is not assigned to itself.                   *)
(***************************************************************************)
EXTENDS Naturals, FiniteSets

CONSTANTS
  Threads,   \* the threads
  Strings,   \* the KString objects
  Owner,     \* the thread that may change a string, or Nobody
  Nobody,    \* owner of the strings that all threads only read
  Blocks,    \* the addresses malloc may return
  Texts,     \* what a block may hold
  Null,      \* the null mem_, and what a free block holds
  MaxThrows  \* bound: how many constructors throw

ASSUME OwnerAssumption ==
  Owner \in [Strings -> Threads \cup {Nobody}] /\ Nobody \notin Threads
ASSUME StringsAssumption == IsFiniteSet(Strings)
ASSUME NullAssumption == Null \notin Blocks \cup Texts \cup Strings

VARIABLES
  mem,    \* mem_ of each string
  count,  \* the reference count a block holds
  text,   \* the text a block holds, Null when it is free
  pc,     \* where a thread is in its operation
  me,     \* the string the operation of a thread changes
  from,   \* the string it copies from
  new,    \* the block it is about to make its string's own
  lost    \* history: the blocks of constructors that threw

vars == <<mem, count, text, pc, me, from, new, lost>>

Shared == {s \in Strings : Owner[s] = Nobody}
Own(t) == {s \in Strings : Owner[s] = t}
Heap == {b \in Blocks : text[b] # Null}

\* Each string that nobody changes has its block before the threads start.
Init ==
  /\ mem \in [Strings -> Blocks \cup {Null}]
  /\ \A s \in Strings : mem[s] # Null <=> s \in Shared
  /\ \A s, r \in Shared : mem[s] = mem[r] => s = r
  /\ text \in [Blocks -> Texts \cup {Null}]
  /\ Heap = {mem[s] : s \in Shared}
  /\ count = [b \in Blocks |-> IF b \in Heap THEN 1 ELSE 0]
  /\ pc = [t \in Threads |-> "idle"]
  /\ me = [t \in Threads |-> Null] /\ from = me /\ new = me
  /\ lost = {}

\* A thread with nothing to do begins an operation on one of its strings.
Begin(t, to, s) ==
  /\ pc[t] = "idle"
  /\ pc' = [pc EXCEPT ![t] = to]
  /\ me' = [me EXCEPT ![t] = IF to = "idle" THEN Null ELSE s]

Goto(t, at, to) ==
  /\ pc[t] = at
  /\ pc' = [pc EXCEPT ![t] = to]
  /\ me' = [me EXCEPT ![t] = IF to = "idle" THEN Null ELSE @]

\* What defer_ leaves of the counters and the blocks: count down, free at zero.
Deferred(b) == [count EXCEPT ![b] = @ - 1]
Remaining(b) == [text EXCEPT ![b] = IF count[b] <= 1 THEN Null ELSE @]

-----------------------------------------------------------------------------
\* Constructor from text, or an append to a string that has no block.
Construct(t, s) ==
  /\ Begin(t, "idle", s)
  /\ mem[s] = Null
  /\ \E b \in Blocks \ Heap, v \in Texts :
       /\ mem' = [mem EXCEPT ![s] = b]
       /\ count' = [count EXCEPT ![b] = 1]
       /\ text' = [text EXCEPT ![b] = v]
  /\ UNCHANGED <<from, new, lost>>

\* The constructor from bytes throws when iconv_open or iconv fails, after reserve:
\* there is no string then, no destructor runs, and nobody has the block.
ConstructThrows(t, s) ==
  /\ pc[t] = "idle"
  /\ mem[s] = Null
  /\ Cardinality(lost) < MaxThrows
  /\ \E b \in Blocks \ Heap, v \in Texts :
       /\ count' = [count EXCEPT ![b] = 1]
       /\ text' = [text EXCEPT ![b] = v]
       /\ lost' = lost \cup {b}
  /\ UNCHANGED <<mem, pc, me, from, new>>

\* Copy constructor: mem_ = o.mem_, then refer_.
Copy(t, s) ==
  /\ mem[s] = Null
  /\ \E o \in (Own(t) \cup Shared) \ {s} :
       /\ mem[o] # Null
       /\ mem' = [mem EXCEPT ![s] = mem[o]]
  /\ Begin(t, "refer", s)
  /\ UNCHANGED <<count, text, from, new, lost>>

\* operator=: defer_, then mem_ = o.mem_, then refer_.
Assign(t, s) ==
  /\ \E o \in (Own(t) \cup Shared) \ {s} : from' = [from EXCEPT ![t] = o]
  /\ Begin(t, "drop", s)
  /\ UNCHANGED <<mem, count, text, new, lost>>

DropOld(t) ==
  LET s == me[t]
      b == mem[s] IN
  /\ Goto(t, "drop", IF mem[from[t]] = Null THEN "idle" ELSE "refer")
  /\ mem' = [mem EXCEPT ![s] = mem[from[t]]]
  /\ from' = [from EXCEPT ![t] = Null]
  /\ IF b = Null THEN UNCHANGED <<count, text>>
                 ELSE count' = Deferred(b) /\ text' = Remaining(b)
  /\ UNCHANGED <<new, lost>>

\* MUTANT of Refer: the counter is read, not incremented.
ReferNothing(t) ==
  /\ Goto(t, "refer", "idle")
  /\ UNCHANGED <<mem, count, text, from, new, lost>>

\* MUTANT of Refer: refer_ writes one instead of adding it.
ReferOne(t) ==
  /\ Goto(t, "refer", "idle")
  /\ count' = [count EXCEPT ![mem[me[t]]] = 1]
  /\ UNCHANGED <<mem, text, from, new, lost>>

\* The atomic increment of refer_.
Refer(t) ==
  /\ Goto(t, "refer", "idle")
  /\ count' = [count EXCEPT ![mem[me[t]]] = @ + 1]
  /\ UNCHANGED <<mem, text, from, new, lost>>

\* Destructor: defer_.
Destroy(t, s) ==
  /\ Begin(t, "idle", s)
  /\ mem[s] # Null
  /\ mem' = [mem EXCEPT ![s] = Null]
  /\ count' = Deferred(mem[s])
  /\ text' = Remaining(mem[s])
  /\ UNCHANGED <<from, new, lost>>

-----------------------------------------------------------------------------
(* The mutators: copy_on_write_, or reserve first when the text grows, and *)
(* then the write through unicodes_().                                     *)

Mutate(t, s) ==
  /\ mem[s] # Null
  /\ \E to \in {"test", "grow"} : Begin(t, to, s)
  /\ UNCHANGED <<mem, count, text, from, new, lost>>

\* MUTANT of TestCount: the test of copy_on_write_ is off by one.
TestTwo(t) ==
  /\ Goto(t, "test", IF count[mem[me[t]]] <= 2 THEN "write" ELSE "copy")
  /\ UNCHANGED <<mem, count, text, from, new, lost>>

\* copy_on_write_ reads the count, not atomically with what follows.
TestCount(t) ==
  /\ Goto(t, "test", IF count[mem[me[t]]] = 1 THEN "write" ELSE "copy")
  /\ UNCHANGED <<mem, count, text, from, new, lost>>

\* malloc, and memcpy of the whole block, the count included.
Duplicate(t) ==
  LET b == mem[me[t]] IN
  /\ \/ Goto(t, "copy", "swap")
     \/ Goto(t, "grow", "regrow")
  /\ \E m \in Blocks \ Heap :
       /\ new' = [new EXCEPT ![t] = m]
       /\ count' = [count EXCEPT ![m] = count[b]]
       /\ text' = [text EXCEPT ![m] = text[b]]
  /\ UNCHANGED <<mem, from, lost>>

\* MUTANT of Swap: the copied count stays in the copy.
SwapKeepsCount(t) ==
  LET b == mem[me[t]] IN
  /\ \/ Goto(t, "swap", "write")
     \/ Goto(t, "regrow", "test")
  /\ mem' = [mem EXCEPT ![me[t]] = new[t]]
  /\ count' = Deferred(b)
  /\ text' = Remaining(b)
  /\ new' = [new EXCEPT ![t] = Null]
  /\ UNCHANGED <<from, lost>>

\* defer_ of the old block, mem_ = m and a count of one: after reserve
\* copy_on_write_ still follows.
Swap(t) ==
  LET b == mem[me[t]] IN
  /\ \/ Goto(t, "swap", "write")
     \/ Goto(t, "regrow", "test")
  /\ mem' = [mem EXCEPT ![me[t]] = new[t]]
  /\ count' = [Deferred(b) EXCEPT ![new[t]] = 1]
  /\ text' = Remaining(b)
  /\ new' = [new EXCEPT ![t] = Null]
  /\ UNCHANGED <<from, lost>>

Write(t) ==
  /\ Goto(t, "write", "idle")
  /\ \E v \in Texts : text' = [text EXCEPT ![mem[me[t]]] = v]
  /\ UNCHANGED <<mem, count, from, new, lost>>

-----------------------------------------------------------------------------
Next == \E t \in Threads :
  \/ \E s \in Own(t) : \/ Construct(t, s) \/ ConstructThrows(t, s) \/ Copy(t, s)
                       \/ Assign(t, s) \/ Destroy(t, s) \/ Mutate(t, s)
  \/ DropOld(t) \/ Refer(t) \/ TestCount(t) \/ Duplicate(t) \/ Swap(t) \/ Write(t)

Spec == Init /\ [][Next]_vars

-----------------------------------------------------------------------------
PCs == {"idle", "drop", "refer", "test", "grow", "copy", "swap", "regrow", "write"}

\* The ranges of the variables; counts stay natural.
TypeOK ==
  /\ mem \in [Strings -> Blocks \cup {Null}]
  /\ count \in [Blocks -> Nat]
  /\ text \in [Blocks -> Texts \cup {Null}]
  /\ pc \in [Threads -> PCs]
  /\ me \in [Threads -> Strings \cup {Null}]
  /\ from \in [Threads -> Strings \cup {Null}]
  /\ new \in [Threads -> Blocks \cup {Null}]
  /\ lost \subseteq Blocks

\* The strings that point to a block and were counted: all but those whose
\* refer_ is still to come.
Counted(b) == {s \in Strings : mem[s] = b /\ ~\E t \in Threads : pc[t] = "refer" /\ me[t] = s}

\* No string points to a block that was freed, and every allocated block belongs
\* to a string or to an operation in progress, unless its constructor threw: such
\* a block is nobody's, and stays allocated.
BlocksHeld ==
  /\ \A s \in Strings : mem[s] # Null => mem[s] \in Heap
  /\ Heap \ lost \subseteq {mem[s] : s \in Strings} \cup {new[t] : t \in Threads}
  /\ lost \subseteq Heap \ ({mem[s] : s \in Strings} \cup {new[t] : t \in Threads})

\* The count of a block in use is the number of its strings: it never runs
\* ahead (a leak, and copies for nothing) nor behind (a block freed in use).
CountsExact ==
  /\ TypeOK
  /\ \A s \in Strings : mem[s] # Null => count[mem[s]] = Cardinality(Counted(mem[s]))

\* A thread that is about to write is the only one to see the block, although
\* it read the count some steps ago.
WriterAlone ==
  \A t \in Threads : pc[t] = "write" =>
    \A s \in Strings \ {me[t]} : mem[s] # mem[me[t]]

\* The text a user of each string sees.
Seen == [s \in Strings |-> IF mem[s] = Null THEN Null ELSE text[mem[s]]]

\* Seen from outside the strings are independent values: a step changes the
\* text of one string at most, and never of one that nobody may change.
Values == INSTANCE PlainStrings WITH
  Fixed <- Shared, Empty <- Null, val <- Seen
ValueSemantics == Values!Spec
=============================================================================
