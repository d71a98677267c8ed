--------------------------- MODULE WordEmbeddings ---------------------------
(***************************************************************************)
(* What the word embeddings are made of: the SegmentWrapper that compares  *)
(* titles by their terms (include/nlp/segment/segmentWrapper.h), and the   *)
(* model of word vectors (include/nlp/w2v/distance.hpp): its words, read   *)
(* into entries of max_w bytes, and the search for the nearest ones.       *)
(*                                                                         *)
(* The cosine of two words is an integer; a model is the words of its file *)
(* and the cosine of each two of them.                                     *)
(***************************************************************************)
EXTENDS Tokenizer

CONSTANTS
  stopWords_,  \* the words of stop_words.utf8
  MaxTitle,    \* the length of the longest title that is compared
  max_w,       \* the bytes of an entry of vocab
  Models,      \* the models that are searched: [words, cosine]
  TopNs        \* how many nearest words are asked for

ASSUME ModelsAssumption ==
  /\ max_w \in Nat \ {0} /\ TopNs \subseteq Nat /\ MaxTitle \in Nat
  /\ \A m \in Models : LET Numbers == DOMAIN m.words IN
       m.cosine \in [Numbers -> [Numbers -> Int]]

-----------------------------------------------------------------------------
(* Titles.                                                                 *)

\* Letters, digits and dots only; the empty term as well.
isAlphaNumberic(t) == ToSet(t) \subseteq {".", "1", "a", "A"}
isNeedClean(t) == t \in stopWords_ \/ isAlphaNumberic(t)
Cleaned(token) == SelectSeq(token, LAMBDA t : ~isNeedClean(t))

\* MUTANT of bigramModel: the last word, which has no neighbour, is forgotten.
bigramModelShort(token) ==
  LET words == Cleaned(token)
  IN FlattenSeq([i \in 1 .. Len(words) - 1 |-> <<words[i], words[i] \o words[i + 1]>>])

\* Each word that stays, and its pair with the next.  (After the erase of the
\* first one the iterator stands before the beginning, from where ++ brings it
\* back.)
bigramModel(token) ==
  LET words == Cleaned(token)
  IN FlattenSeq([i \in DOMAIN words |->
       IF i < Len(words) THEN <<words[i], words[i] \o words[i + 1]>> ELSE <<words[i]>>])

\* The terms of token2 that token1 has, as often as token2 has them.
intersect(token1, token2) == SelectSeq(token2, LAMBDA t : t \in ToSet(token1))

\* The similarity as a fraction <<numerator, denominator>>.
computeContentSim(token1, token2) ==
  LET n == Len(intersect(token1, token2))
  IN IF token1 = <<>> \/ token2 = <<>> THEN <<0, 1>>
     ELSE <<n * n, Len(token1) * Len(token2)>>

\* segment of a title.
Terms(d, rewriting, title) == bigramModel(subSegment(d, rewriting, title))

-----------------------------------------------------------------------------
(* Word vectors.  Numbers begin with 1, and 0 stands for -1.               *)

\* LoadModel_: the characters of a word that do not fit are written over each
\* other in the first byte behind its entry, and so is its end, which the next
\* word overwrites.  What strcmp sees of such a word goes on with the next one.
Entry(m) ==
  LET last == Len(m.words)
      entry[b \in DOMAIN m.words] ==
        IF Len(m.words[b]) < max_w THEN m.words[b]
        ELSE SubSeq(m.words[b], 1, max_w) \o IF b = last THEN <<>> ELSE entry[b + 1]
  IN entry

\* MUTANT of Search: the last word is not looked at.
SearchShort(m, word) ==
  LET b == SelectInSeq(Front(Entry(m)), LAMBDA e : e = word)
  IN IF b = 0 THEN Len(m.words) + 1 ELSE b

\* GetWordVector: the number of the word whose vector it gives, or one behind the
\* last: the test for -1 is never true.  An empty word has no vector, and 0 here.
\* The index of the caller does not change.
Search(m, word) ==
  LET b == SelectInSeq(Entry(m), LAMBDA e : e = word)
  IN IF word = <<>> THEN 0 ELSE IF b = 0 THEN Len(m.words) + 1 ELSE b

\* The vectors GetWordVector may give, as the cosines with the words of the model:
\* behind the matrix lies anything.
Vectors(m, word) ==
  LET w == Search(m, word) IN
  IF w = 0 THEN {<<>>}
  ELSE IF w \in DOMAIN m.words THEN {m.cosine[w]}
  ELSE [DOMAIN m.words -> {-1, 1}]

\* GetNearestTerms of a vector, when index, which nobody set, holds something: an
\* entry moves those behind it, the last of which goes.  There is nothing to read
\* in an empty vector.
Nothing == [at |-> 0, dist |-> 0]
Nearest(m, vec, topN, index) ==
  LET put(best, a) ==
        LET dist == vec[a]
            b == SelectInSeq(best, LAMBDA e : dist > e.dist)
        IN IF a = index \/ b = 0 THEN best
           ELSE SubSeq(best, 1, b - 1) \o <<[at |-> a, dist |-> dist]>> \o SubSeq(best, b, topN - 1)
      none == [b \in 1 .. topN |-> Nothing]
  IN IF index = 0 \/ DOMAIN m.words \subseteq {index} THEN <<>>
     ELSE IF vec = <<>> THEN Fault
     ELSE FoldLeft(put, none, [a \in DOMAIN m.words |-> a])

-----------------------------------------------------------------------------
Once(s) == \A i, j \in DOMAIN s : s[i] = s[j] => i = j

Compared(s, t) ==
  LET sim == computeContentSim(s.terms, t.terms)
  IN /\ s.words \cap t.words # {} => sim[1] > 0
     /\ Once(s.terms) /\ Once(t.terms) =>
          /\ sim = computeContentSim(t.terms, s.terms)
          /\ sim[1] <= sim[2]
          /\ sim[1] = sim[2] <=> s.terms # <<>> /\ ToSet(s.terms) = ToSet(t.terms)

\* The titles of a dictionary: their terms and the words that are not cleaned.
Titles(d, rewriting) ==
  {[terms |-> Terms(d, rewriting, title),
    words |-> ToSet(Cleaned(subSegment(d, rewriting, title)))] :
     title \in {t \in TextsUpTo(MaxTitle) : tokenize(d, rewriting, t) # Fault}}

\* Dictionaries with two titles whose similarity is not what it should be.
Miscompared ==
  {x \in Dictionaries \X Rewritings :
     LET titles == Titles(x[1], x[2])
     IN \E s, t \in titles : ~Compared(s, t)}

\* A word shorter than an entry that is found elsewhere than in its place, or not
\* at all, or found although the model does not have it.
Asked == {<<>>} \cup UNION {ToSet(m.words) : m \in Models}
Misplaced ==
  {x \in Models \X Asked :
     LET m == x[1]
         b == Search(m, x[2])
     IN /\ Len(x[2]) < max_w
        /\ IF x[2] \in ToSet(m.words) THEN b \notin DOMAIN m.words \/ m.words[b] # x[2]
           ELSE b \in DOMAIN m.words}

Ordered(m, vec, topN, index) ==
  LET best == Nearest(m, vec, topN, index)
      listed == {best[i].at : i \in DOMAIN best} \ {0}
      near == {a \in DOMAIN m.words \ {index} : vec[a] > 0}
  IN /\ \A i \in DOMAIN best : i > 1 => best[i].dist <= best[i - 1].dist
     /\ \A i, j \in DOMAIN best : best[i].at = best[j].at => i = j \/ best[i] = Nothing
     /\ \A i \in DOMAIN best : best[i].at # 0 => best[i].dist = vec[best[i].at]
     /\ listed \subseteq near
     /\ \A a \in near \ listed :
          Cardinality(listed) = topN /\ \A e \in listed : vec[e] >= vec[a]

\* A model with a search whose list is not that of the nearest words: whatever
\* index holds, unless it is -1, which gives none.
Misordered ==
  {m \in Models : \E topN \in TopNs, word \in Asked \ {<<>>}, index \in 1 .. Len(m.words) + 1 :
     \E vec \in Vectors(m, word) : ~Ordered(m, vec, topN, index)}
=============================================================================
