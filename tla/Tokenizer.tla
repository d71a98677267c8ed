----------------------------- MODULE Tokenizer -----------------------------
(***************************************************************************)
(* How a line is cut into tokens: the longest match of KDictionary         *)
(* (include/nlp/segment/segment_dict.h: fmm, subtokens), what HorseTokenize *)
(* (segment.h) makes of its tokens, and the SegmentWrapper of the word     *)
(* embeddings around it (segmentWrapper.h).                                *)
(*                                                                         *)
(* A dictionary has keys and, if any of its lines gave one, a weight for   *)
(* every key.  A token is a text with its weight.                          *)
(***************************************************************************)
EXTENDS KStringText

CONSTANTS
  Dictionaries,  \* token.dict: [keys, weight], weight a function of the keys or <<>>
  Rewritings,    \* rewrite.dict: the texts to be replaced, and by what
  Uninitialised, \* a weight that nobody set
  Fault          \* an access behind the end of the tokens

ASSUME DictionariesAssumption ==
  \A d \in Dictionaries : d.weight # <<>> => DOMAIN d.weight = d.keys /\ d.keys # {}

Token(word, weight) == [word |-> word, weight |-> weight]
TextsOf(tks) == [i \in DOMAIN tks |-> tks[i].word]
Spelled(tks) == FlattenSeq(TextsOf(tks))

\* min: the constructor sets it if there are values.
min(d) ==
  IF d.weight = <<>> THEN Uninitialised
  ELSE CHOOSE w \in {d.weight[k] : k \in d.keys} : \A k \in d.keys : w <= d.weight[k]

\* The weight of a key: T() without values.
WeightOf(d, k) == IF d.weight = <<>> THEN 0 ELSE d.weight[k]

\* The places where a key ends that begins at j.
Ends(d, line, j) == {e \in j .. Len(line) : SubSeq(line, j, e) \in d.keys}

\* MUTANT of Match: the first key on the path is taken.
MatchFirst(ends) == CHOOSE e \in ends : \A f \in ends : e <= f

\* The walk along the trie goes on to the last key on its path.
Match(ends) == CHOOSE e \in ends : \A f \in ends : f <= e

\* fmm, of a line that is normalised: longest keys from left to right, and single
\* characters where none begins.
fmm(d, line) ==
  LET from[j \in 1 .. Len(line) + 1] ==
        LET ends == Ends(d, line, j)
            e == IF ends = {} THEN j ELSE Match(ends)
            piece == SubSeq(line, j, e)
        IN IF j > Len(line) THEN <<>>
           ELSE <<Token(piece, IF ends = {} THEN min(d) ELSE WeightOf(d, piece))>> \o from[e + 1]
  IN from[1]

\* subtokens of one token: the longest match in all but its last character, then
\* in what is left of it; as it was if nothing but single characters came out.
Cut(d, t) ==
  LET head == fmm(d, Front(t.word))[1]
      rest[n \in 0 .. Len(t.word)] ==
        LET left == SubSeq(t.word, n + 1, Len(t.word))
        IN IF left = <<>> THEN <<>>
           ELSE LET s == fmm(d, left)[1] IN <<s>> \o rest[n + Len(s.word)]
      ss == <<head>> \o rest[Len(head.word)]
  IN IF Len(t.word) <= 2 \/ Len(ss) >= Len(t.word) THEN <<t>> ELSE ss

subtokens(d, tks) == FlattenSeq([i \in DOMAIN tks |-> Cut(d, tks[i])])

-----------------------------------------------------------------------------
(* HorseTokenize.                                                          *)

Puncts == {".", "-", "+", "/", "=", "*", "%", ",", "$", "&", "_"}
Digits == Puncts \cup {"1"}
Small == {"a"}
Wide == {"trad", "simp", "full A"}
Bytes(t) == Len(t) + 2 * Len(SelectSeq(t, LAMBDA c : c \in Wide))

\* A token with a digit or a sign, or of one or two bytes with a small letter.
Flagged(t) ==
  \E i \in DOMAIN t : t[i] \in Digits \/ (t[i] \in Small /\ Bytes(t) <= 2)

\* Neighbours that are flagged become one token; the flag of the first stands
\* for what is joined to it.
merge_(d, tks) ==
  LET join(done, t) ==
        IF done # <<>> /\ Last(done).flag /\ Flagged(t.word)
        THEN Append(Front(done), [Last(done) EXCEPT !.word = @ \o t.word, !.weight = min(d)])
        ELSE Append(done, [word |-> t.word, weight |-> t.weight, flag |-> Flagged(t.word)])
      joined == FoldLeft(join, <<>>, tks)
  IN [i \in DOMAIN joined |-> Token(joined[i].word, joined[i].weight)]

\* token_weight normalises the text once more.
token_weight(d, t) == IF normalize(t) \in d.keys THEN WeightOf(d, normalize(t)) ELSE min(d)

\* The signs at the end go, but not the first character.
Stripped(t) ==
  IF t = <<>> THEN t
  ELSE SubSeq(t, 1, CHOOSE n \in 1 .. Len(t) :
         /\ n > 1 => t[n] \notin Puncts
         /\ \A m \in n + 1 .. Len(t) : t[m] \in Puncts)

\* rewrite_: a space that stands first is erased and the index steps back behind
\* zero, where the next token is looked for.
rewrite_(d, rewriting, tks) ==
  LET replaced == [i \in DOMAIN tks |->
                     IF tks[i].word \in DOMAIN rewriting
                     THEN LET t == rewriting[tks[i].word] IN Token(t, token_weight(d, t))
                     ELSE tks[i]]
      kept == SelectSeq(replaced, LAMBDA t : t.word # <<Space>>)
  IN IF replaced # <<>> /\ Head(replaced).word = <<Space>> THEN Fault
     ELSE [i \in DOMAIN kept |-> Token(Stripped(kept[i].word), kept[i].weight)]

tokenize(d, rewriting, line) == rewrite_(d, rewriting, merge_(d, fmm(d, normalize(line))))

\* boost::split at any of these keeps empty pieces.
Delimiters == {"-", ",", Space, "/"}
Separated(t) ==
  LET add(pieces, c) ==
        IF c \in Delimiters THEN Append(pieces, <<>>)
        ELSE [pieces EXCEPT ![Len(pieces)] = Append(@, c)]
  IN FoldLeft(add, <<<<>>>>, t)

subtokenize(d, tks) ==
  LET subs == subtokens(d, tks)
  IN FlattenSeq([i \in DOMAIN subs |->
       LET pieces == Separated(subs[i].word)
       IN [k \in DOMAIN pieces |-> Token(pieces[k], subs[i].weight)]])

-----------------------------------------------------------------------------
(* SegmentWrapper.                                                         *)

\* subSegment: a token of more than nine bytes is given as its parts.
subSegment(d, rewriting, line) ==
  LET tks == tokenize(d, rewriting, line)
      parts(t) == IF Bytes(t.word) > 9 THEN subtokenize(d, <<Token(t.word, 1)>>) ELSE <<t>>
  IN IF tks = Fault THEN Fault
     ELSE TextsOf(FlattenSeq([i \in DOMAIN tks |-> parts(tks[i])]))

-----------------------------------------------------------------------------
\* Where the tokens end in the line they were made of.
EndsOf(tks) == {Len(Spelled(SubSeq(tks, 1, i))) : i \in DOMAIN tks}

\* What a token stands for: the longest key at its place, or one character where
\* no key begins.
Longest(d, line, tks, i) ==
  LET place == 1 + Len(Spelled(SubSeq(tks, 1, i - 1)))
      ends == Ends(d, line, place)
      e == place + Len(tks[i].word) - 1
  IN IF ends = {} THEN e = place ELSE e \in ends /\ \A f \in ends : f <= e

\* A line with a dictionary and words to rewrite.
Cases == Dictionaries \X Rewritings \X TextsUpTo(MaxLength)

Covered(d, rewriting, s) ==
  LET line == normalize(s)
      tks == fmm(d, line)
      merged == merge_(d, tks)
      between == {i \in 1 .. Len(tks) - 1 : Flagged(tks[i].word) /\ Flagged(tks[i + 1].word)}
      done == tokenize(d, rewriting, s)
  IN /\ Spelled(tks) = line /\ Spelled(merged) = line
     /\ \A i \in DOMAIN tks : Longest(d, line, tks, i)
     /\ EndsOf(merged) = EndsOf(tks) \ {Len(Spelled(SubSeq(tks, 1, i))) : i \in between}
     /\ done = Fault => \E t \in DOMAIN rewriting : rewriting[t] = <<Space>>
     /\ done # Fault /\ d.weight # <<>> => \A i \in DOMAIN done : done[i].weight # Uninitialised

Uncovered == {x \in Cases : ~Covered(x[1], x[2], x[3])}

WithoutDelimiters(t) == SelectSeq(t, LAMBDA c : c \notin Delimiters)

Parted(d, rewriting, s) ==
  LET tks == tokenize(d, rewriting, s)
  IN tks # Fault =>
       /\ WithoutDelimiters(FlattenSeq(subSegment(d, rewriting, s)))
            = WithoutDelimiters(Spelled(tks))
       /\ \A i \in DOMAIN tks :
            LET ss == Cut(d, tks[i])
            IN \/ ss = <<tks[i]>>
               \/ Len(ss) > 1 /\ \E k \in DOMAIN ss : Len(ss[k].word) > 1

Unparted == {x \in Cases : ~Parted(x[1], x[2], x[3])}
=============================================================================
