---------------------------- MODULE KStringText ----------------------------
(***************************************************************************)
(* The operations of KString (include/nlp/segment/kstring.hpp) on its      *)
(* text, and the normalisation of a text (normalize.h) that both sides of  *)
(* every dictionary lookup go through.  Texts are sequences of characters; *)
(* a position is the index in the sequence, 0 where the code has -1.       *)
(* What becomes of the block and its count is the matter of CowString.     *)
(***************************************************************************)
EXTENDS Integers, Sequences, FiniteSets, SequencesExt

CONSTANTS
  Alphabet,   \* the characters of the texts that are checked
  MaxLength,  \* the length of the longest of them
  Patterns    \* what is replaced in them, and by what

Space == " "

\* The classes of characters that are told apart: small, capital and full-width
\* letters, a full-width blank, a traditional character and its simplified form.
Lowered == [c \in {"A"} |-> "a"]
HalfWidth == [c \in {"full A"} |-> "A"]
Simplified == [c \in {"trad"} |-> "simp"]
Mapped(s, table) == [i \in DOMAIN s |-> IF s[i] \in DOMAIN table THEN table[s[i]] ELSE s[i]]

\* The full-width blank is 12288; the code has 1228, so that one stays.
to_dbc(s) == Mapped(s, HalfWidth)
to_lower_case(s) == Mapped(s, Lowered)
transform(s) == Mapped(s, Simplified)

At(s, positions) ==
  LET order == SetToSortSeq(positions, LAMBDA i, j : i < j)
  IN [k \in DOMAIN order |-> s[order[k]]]

\* MUTANT of trim_into_1: every space goes.
trim_into_0(s) == SelectSeq(s, LAMBDA c : c # Space)

\* Of neighbouring spaces the first is kept.  A run of them at the end stays: the
\* length is set only if a character was moved.
trim_into_1(s) ==
  LET kept == {i \in DOMAIN s : ~(s[i] = Space /\ i > 1 /\ s[i - 1] = Space)}
      moved == \E i \in kept : \E j \in DOMAIN s \ kept : j < i
  IN IF moved THEN At(s, kept) ELSE s

trim_head_tail(s) ==
  LET inner == {i \in DOMAIN s : s[i] # Space}
  IN At(s, {i \in DOMAIN s : \E p, q \in inner : p <= i /\ i <= q})

normalize(s) == trim_head_tail(trim_into_1(transform(to_lower_case(to_dbc(s)))))

\* The first place where a stands in s.
find(s, a) ==
  LET places == {p \in 1 .. Len(s) - Len(a) + 1 : SubSeq(s, p, p + Len(a) - 1) = a}
  IN IF s = <<>> \/ a = <<>> \/ places = {} THEN 0
     ELSE CHOOSE p \in places : \A q \in places : p <= q

\* replace: the characters behind a are moved one by one, from the last to the
\* first, in one buffer; then b is written.
replace(s, a, b) ==
  LET p == find(s, a)
      shift == Len(b) - Len(a)
      behind == Len(s) - (p + Len(a) - 1)
      place(j) == Len(s) - j + 1
      buffer == s \o [i \in 1 .. Len(b) |-> Space]
      moved[j \in 0 .. behind] ==
        IF j = 0 THEN buffer
        ELSE [moved[j - 1] EXCEPT ![place(j) + shift] = moved[j - 1][place(j)]]
  IN IF p = 0 THEN s
     ELSE [i \in 1 .. Len(s) + shift |->
             IF i \in p .. p + Len(b) - 1 THEN b[i - p + 1] ELSE moved[behind][i]]

\* split: the pieces between the delimiters; nothing for an empty last one.
split(s, c) ==
  LET ends == {i \in DOMAIN s : s[i] = c}
      from(i) == LET before == {j \in ends : j < i}
                 IN IF before = {} THEN 1 ELSE 1 + CHOOSE j \in before : \A k \in before : k <= j
      stops == ends \cup IF s # <<>> /\ Last(s) # c THEN {Len(s) + 1} ELSE {}
      order == SetToSortSeq(stops, LAMBDA i, j : i < j)
  IN [k \in DOMAIN order |-> SubSeq(s, from(order[k]), order[k] - 1)]

-----------------------------------------------------------------------------
TextsUpTo(n) == UNION {[1 .. k -> Alphabet] : k \in 0 .. n}
Joined(pieces, c) == FlattenSeq([i \in DOMAIN pieces |-> Append(pieces[i], c)])

\* A normalised text does not change when it is normalised again, as tokens of
\* a text are that are looked up; and it has no space that the dictionary's keys,
\* normalised too, could not have: none at its ends and no two together.  Its words
\* are those of the text.
NormalisedForGood(s) ==
  LET n == normalize(s)
  IN /\ normalize(n) = n
     /\ n # <<>> => Head(n) # Space /\ Last(n) # Space
     /\ \A i \in 1 .. Len(n) - 1 : <<n[i], n[i + 1]>> # <<Space, Space>>
     /\ split(n, Space) = SelectSeq(split(transform(to_lower_case(to_dbc(s))), Space),
                                   LAMBDA word : word # <<>>)

\* The text with b for every a, from left to right.
Replaced(s, a, b) ==
  LET from[i \in 1 .. Len(s) + 1] ==
        IF i > Len(s) THEN <<>>
        ELSE IF a # <<>> /\ IsPrefix(a, SubSeq(s, i, Len(s))) THEN b \o from[i + Len(a)]
        ELSE <<s[i]>> \o from[i + 1]
  IN from[1]

\* replace is right for a text that has a just once, if b is not shorter: no
\* character is overwritten before it was moved.  (A comment says "Replace all", but
\* the code replaces the first a only.)
ReplacesOne(s, a, b) ==
  LET p == find(s, a) IN
  Len(b) >= Len(a) /\ (p > 0 => find(SubSeq(s, p + 1, Len(s)), a) = 0)
    => replace(s, a, b) = Replaced(s, a, b)

\* The pieces of a split are the text, but for one delimiter at its end, and
\* hold none.
SplitsAll(s, c) ==
  LET pieces == split(s, c)
  IN /\ \A i \in DOMAIN pieces : c \notin ToSet(pieces[i])
     /\ Joined(pieces, c) = IF s = <<>> \/ Last(s) = c THEN s ELSE Append(s, c)

\* Short texts on which an operation does not give what it stands for.
WrongTexts ==
  {s \in TextsUpTo(MaxLength) :
     ~ /\ NormalisedForGood(s)
       /\ SplitsAll(s, Space)
       /\ \A a, b \in Patterns : ReplacesOne(s, a, b)}
=============================================================================
