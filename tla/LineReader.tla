----------------------------- MODULE LineReader -----------------------------
(***************************************************************************)
(* The reader of lines behind the dictionaries                             *)
(* (include/nlp/segment/line_reader.h).  It reads the file in blocks of    *)
(* bytes_, puts an end of string in the place of each line break, and goes *)
(* back in the file to the last line break of a block, so that the next    *)
(* block begins with the line that was cut.                                *)
(***************************************************************************)
EXTENDS Integers, Sequences, SequencesExt

CONSTANTS
  Letters,    \* the bytes of lines
  Break,      \* the line break
  bytes_,     \* the size of a block
  MaxFile     \* the length of the longest file that is checked

ASSUME BlockAssumption == bytes_ \in Nat \ {0} /\ Break \notin Letters

\* The lines of a file, the last one with or without its line break.
Pieces(data) ==
  LET add(lines, c) ==
        IF c = Break THEN Append(lines, <<>>) ELSE [lines EXCEPT ![Len(lines)] = Append(@, c)]
      all == FoldLeft(add, <<<<>>>>, data)
  IN IF Last(all) = <<>> THEN Front(all) ELSE all

\* MUTANT of Usable: the bytes behind the last line break stay.
UsableAll(data) == data

\* What is left of a full block: up to its last line break.  The code asserts
\* that there is one.
Usable(data) == SubSeq(data, 1, SelectLastInSeq(data, LAMBDA c : c = Break))

\* line, in one block: the first line, and further ones until one is empty: its
\* end of string is taken for the end of the block.
BlockLines(block) ==
  LET pieces == Pieces(block)
      empty == SelectInSeq(Tail(pieces), LAMBDA l : l = <<>>)
  IN IF empty = 0 THEN pieces ELSE SubSeq(pieces, 1, empty)

\* line and next_block_: the lines from position p of the file on.  A block that
\* is not full is the last.
Lines(file) ==
  LET from[p \in 0 .. Len(file)] ==
        LET data == SubSeq(file, p + 1, Min({p + bytes_, Len(file)}))
            back == SelectLastInSeq(data, LAMBDA c : c = Break)
        IN IF data = <<>> THEN <<>>
           ELSE IF p + bytes_ > Len(file) THEN BlockLines(data)
           ELSE BlockLines(Usable(data)) \o from[p + back]
  IN from[0]

-----------------------------------------------------------------------------
Files == {f \in UNION {[1 .. n -> Letters \cup {Break}] : n \in 0 .. MaxFile} :
            \A l \in ToSet(Pieces(f)) : Len(l) < bytes_}

\* Lines that are lines of the file, in order and none twice.
LinesOf(lines, all) ==
  \E kept \in SUBSET DOMAIN all :
    lines = LET order == SetToSortSeq(kept, LAMBDA i, j : i < j)
            IN [k \in DOMAIN order |-> all[order[k]]]

\* Files of which a line is cut, given twice or out of order, or, if none is
\* empty, missing.
Misread ==
  {f \in Files : LET all == Pieces(f)
                 IN ~ /\ LinesOf(Lines(f), all)
                      /\ <<>> \notin ToSet(all) => Lines(f) = all}
=============================================================================
