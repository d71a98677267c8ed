-------------------------- MODULE DictionaryCache --------------------------
(***************************************************************************)
(* How KDictionary (include/nlp/segment/segment_dict.h) is loaded: from    *)
(* its text file the first time, which leaves the keys in a .bin file (the *)
(* trie) and the values in a .v file, and from these two afterwards.  Keys *)
(* and values belong together by position: the trie gives the index of a   *)
(* key among the sorted keys.                                              *)
(*                                                                         *)
(* Several processes may load the same dictionary, and any of them may     *)
(* stop at any moment.  A file that is not whole is the process that made  *)
(* it empty last, or Torn when two wrote different things into it.  A text *)
(* maps its normalised keys to their values; the first line of a key       *)
(* counts.                                                                 *)
(***************************************************************************)
EXTENDS Integers, Sequences, FiniteSets, SequencesExt

CONSTANTS
  Processes,  \* the processes
  Keys,       \* the keys, numbers in their order
  Values,     \* the values a line may give
  NoValue,    \* a line that gives none
  NoKey,      \* no line for this key
  Default,    \* what is stored for NoValue: 0 or the empty string
  Missing,    \* a file that does not exist
  Torn        \* a file of two writers, and what was read of one not whole

ASSUME KeysAssumption == Keys \subseteq Int /\ IsFiniteSet(Keys)
ASSUME FileAssumption ==
  Missing \notin Processes /\ Torn \notin Processes /\ Missing # Torn
ASSUME DefaultAssumption == Default \notin Values /\ NoValue \notin Values

VARIABLES
  kind,       \* T: "number" (float, uint32_t) or "text" (const char* )
  text,       \* the text file
  bin, v,     \* the files of the cache
  pc,         \* where a process is
  source,     \* what it read from the text file
  trie,       \* trie_: its keys in their order, or Torn
  values,     \* values_
  written,    \* every content the text file has had
  happened    \* which disturbances there were

vars == <<kind, text, bin, v, pc, source, trie, values, written, happened>>

Disturbances == {"crash", "overlap"}
Loading == {"open", "values", "read", "bin", "store", "v"}

Texts == [Keys -> Values \cup {NoValue, NoKey}]
KeysOf(x) == {k \in Keys : x[k] # NoKey}
HasValues(x) == \E k \in Keys : x[k] \in Values

Init ==
  /\ kind \in {"number", "text"}
  /\ text \in {x \in Texts : KeysOf(x) # {}}
  /\ bin = Missing /\ v = Missing
  /\ pc = [p \in Processes |-> "off"]
  /\ source = [p \in Processes |-> text]
  /\ trie = [p \in Processes |-> <<>>]
  /\ values = [p \in Processes |-> <<>>]
  /\ written = {text}
  /\ happened = {}

IsTorn(file) == file \in Processes \cup {Torn}

\* What is in a file when p has written the last of its content: the content,
\* if the file was not emptied by another process meanwhile.
Finished(p, file, content) ==
  IF file \in {p, content} THEN content ELSE IF IsTorn(file) THEN file ELSE Torn

Goto(p, from, to) == pc[p] = from /\ pc' = [pc EXCEPT ![p] = to]

\* The keys of a text in the order of the set they are collected in: the i-th has
\* i - 1 before it.
Sorted(x) ==
  [i \in 1 .. Cardinality(KeysOf(x)) |->
     CHOOSE k \in KeysOf(x) : Cardinality({j \in KeysOf(x) : j < k}) = i - 1]

\* MUTANT of Stored: a line without a value gets no place.
StoredCompact(x) ==
  SelectSeq([i \in DOMAIN Sorted(x) |-> x[Sorted(x)[i]]], LAMBDA y : y # NoValue)

\* store_values_: one value for each key, Default for a line that has none.
Stored(x) ==
  [i \in DOMAIN Sorted(x) |->
     IF x[Sorted(x)[i]] = NoValue THEN Default ELSE x[Sorted(x)[i]]]

\* No content of a file is mistaken for a file that is not whole.
ASSUME ContentAssumption ==
  \A x \in Texts : Sorted(x) \notin Processes \cup {Missing, Torn}
                /\ Stored(x) \notin Processes \cup {Missing, Torn}

-----------------------------------------------------------------------------
\* A process constructs the dictionary.
Start(p) ==
  /\ Goto(p, "off", "open")
  /\ trie' = [trie EXCEPT ![p] = <<>>]
  /\ values' = [values EXCEPT ![p] = <<>>]
  /\ happened' = happened \cup
       IF \E q \in Processes : pc[q] \in Loading THEN {"overlap"} ELSE {}
  /\ UNCHANGED <<kind, text, bin, v, source, written>>

\* trie_.open: any file will do, there is nothing in it to check.
Open(p) ==
  /\ Goto(p, "open", IF bin = Missing THEN "read" ELSE "values")
  /\ trie' = [trie EXCEPT ![p] = IF bin = Missing THEN <<>>
                                  ELSE IF IsTorn(bin) THEN Torn ELSE bin]
  /\ UNCHANGED <<kind, text, bin, v, source, values, written, happened>>

\* An assertion on fread fails: the file is too short, or holds a text of no
\* length, which fread does not count as read.
Unreadable == IsTorn(v) \/ (kind = "text" /\ v # Missing /\ Default \in ToSet(v))

\* load_values_: no file, no values.
LoadValues(p) ==
  /\ Goto(p, "values", IF Unreadable THEN "aborted" ELSE "up")
  /\ values' = [values EXCEPT ![p] = IF Unreadable \/ v = Missing THEN <<>> ELSE v]
  /\ UNCHANGED <<kind, text, bin, v, source, trie, written, happened>>

\* The text file is read and the trie built; save truncates the file first.
Read(p) ==
  /\ Goto(p, "read", "bin")
  /\ source' = [source EXCEPT ![p] = text]
  /\ trie' = [trie EXCEPT ![p] = Sorted(text)]
  /\ bin' = p
  /\ UNCHANGED <<kind, text, v, values, written, happened>>

\* MUTANT of SaveTrie: the values are forgotten.
SaveTrieOnly(p) ==
  /\ Goto(p, "bin", "up")
  /\ bin' = Finished(p, bin, trie[p])
  /\ UNCHANGED <<kind, text, v, source, trie, values, written, happened>>

\* The trie is written; a dictionary in which no line has a value is ready.
SaveTrie(p) ==
  /\ Goto(p, "bin", IF HasValues(source[p]) THEN "store" ELSE "up")
  /\ bin' = Finished(p, bin, trie[p])
  /\ UNCHANGED <<kind, text, v, source, trie, values, written, happened>>

\* store_values_, and the fopen of save_values_.
Store(p) ==
  /\ Goto(p, "store", "v")
  /\ values' = [values EXCEPT ![p] = Stored(source[p])]
  /\ v' = p
  /\ UNCHANGED <<kind, text, bin, source, trie, written, happened>>

\* MUTANT of SaveValues: the file is not closed.
SaveValuesOpen(p) ==
  /\ Goto(p, "v", "up")
  /\ UNCHANGED <<kind, text, bin, v, source, trie, values, written, happened>>

\* The values are written.
SaveValues(p) ==
  /\ Goto(p, "v", "up")
  /\ v' = Finished(p, v, values[p])
  /\ UNCHANGED <<kind, text, bin, source, trie, values, written, happened>>

-----------------------------------------------------------------------------
\* A process ends, or is stopped while it loads; an abort is an end as well.
Stop(p) ==
  /\ pc[p] # "off"
  /\ pc' = [pc EXCEPT ![p] = "off"]
  /\ happened' = happened \cup IF pc[p] \in Loading THEN {"crash"} ELSE {}
  /\ UNCHANGED <<kind, text, bin, v, source, trie, values, written>>

\* Somebody edits the text file while nobody reads it.
Edit ==
  /\ Cardinality(written) = 1
  /\ text' \in {x \in Texts : KeysOf(x) # {}} \ {text}
  /\ written' = written \cup {text'}
  /\ UNCHANGED <<kind, bin, v, pc, source, trie, values, happened>>

Next ==
  \/ \E p \in Processes :
       \/ Start(p) \/ Open(p) \/ LoadValues(p) \/ Read(p)
       \/ SaveTrie(p) \/ Store(p) \/ SaveValues(p) \/ Stop(p)
  \/ Edit

Spec == Init /\ [][Next]_vars

-----------------------------------------------------------------------------
\* value(k): -1 without the key, 1 without a value for it, else 0 and the value.
Value(p, k) ==
  IF k \notin ToSet(trie[p]) THEN [code |-> -1, val |-> NoValue]
  ELSE LET i == CHOOSE j \in DOMAIN trie[p] : trie[p][j] = k IN
       IF i <= Len(values[p]) THEN [code |-> 0, val |-> values[p][i]]
                              ELSE [code |-> 1, val |-> NoValue]

\* What value(k) finds in a dictionary just built from the text x.
Fresh(x, k) ==
  IF x[k] = NoKey THEN [code |-> -1, val |-> NoValue]
  ELSE IF ~HasValues(x) THEN [code |-> 1, val |-> NoValue]
  ELSE [code |-> 0, val |-> IF x[k] = NoValue THEN Default ELSE x[k]]

Whole(p) == pc[p] = "up" /\ trie[p] # Torn

PCs == Loading \cup {"off", "up", "aborted"}
Tries == {<<>>, Torn} \cup {Sorted(x) : x \in Texts}

\* The ranges of the variables.
TypeOK ==
  /\ kind \in {"number", "text"}
  /\ text \in Texts
  /\ bin \in Tries \cup {Missing} \cup Processes
  /\ v \in {Missing, Torn} \cup Processes \/ v \in Seq(Values \cup {Default})
  /\ pc \in [Processes -> PCs]
  /\ source \in [Processes -> Texts]
  /\ trie \in [Processes -> Tries]
  /\ values \in [Processes -> Seq(Values \cup {Default})]
  /\ text \in written /\ written \subseteq Texts
  /\ happened \subseteq Disturbances

\* The assertions on fread hold for a process that loads undisturbed.
AssertionsHold == happened = {} => \A p \in Processes : pc[p] # "aborted"

\* A dictionary that was loaded while nobody else loaded it, and never by a
\* process that was stopped, is the same from the cache as from the text: from
\* one of the contents the text has had, not from a mixture of two.  And it does
\* load, if its values are numbers, or texts of which each has some length.
SameFromCache ==
  /\ TypeOK
  /\ \A p \in Processes : happened = {} /\ pc[p] = "up" =>
       \E x \in written : \A k \in Keys : Value(p, k) = Fresh(x, k)
  /\ kind = "number" \/ (\A x \in written : NoValue \notin {x[k] : k \in Keys})
       => AssertionsHold

\* Whatever was stopped or ran at once: as long as the text stays as it is, a
\* dictionary whose trie was read whole has the right keys, and every value it
\* has belongs to its key.  Only all values together may be missing.
ValuesMatch ==
  \A p \in Processes : Whole(p) /\ Cardinality(written) = 1 =>
    \A k \in Keys : \/ Value(p, k) = Fresh(text, k)
                    \/ values[p] = <<>> /\ Value(p, k).code = IF text[k] = NoKey THEN -1 ELSE 1

\* A file stays torn only if a process was stopped, or different texts were
\* loaded at once: otherwise somebody is still writing it.
TornOnlyByCrash ==
  "crash" \notin happened /\ Cardinality(written) = 1 =>
    /\ IsTorn(bin) => pc[bin] = "bin"
    /\ IsTorn(v) => pc[v] = "v"
=============================================================================
