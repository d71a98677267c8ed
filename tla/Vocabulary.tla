----------------------------- MODULE Vocabulary -----------------------------
(***************************************************************************)
(* VocabModel (include/nlp/vocabModel.h): counts the terms of two files of *)
(* labelled samples, cleans them, scores them (include/feature/selection)  *)
(* and hands out the most frequent ones as features.                       *)
(*                                                                         *)
(* A term is a sequence of characters, a character is a number in the      *)
(* order of its bytes.  A sample is its label and the words Jieba cuts its *)
(* text into; the label "none" is a line without a tab.  A weight is the   *)
(* fraction <<numerator, denominator>>; the score that is written beside   *)
(* it is kept as the integer chi-square it is made of.  The copy of the    *)
(* weight in vocab_ is never read and is left out.                         *)
(***************************************************************************)
EXTENDS Integers, Sequences, FiniteSets, FiniteSetsExt, Bags, SequencesExt

CONSTANTS
  Narrow,     \* the characters of one byte: letters, digits and the dot
  Wide,       \* the characters of three bytes
  StopWords,  \* stopwords_
  Samples,    \* the sample directories: records of the files pos and neg
  Missing,    \* a file that does not exist
  TopKs,      \* what getFeatures is asked for
  Stray,      \* what may lie behind the end of the ranking: any terms and weights
  SizeT,      \* how many values size_t has (2^64 in the code)
  MaxLines    \* bound: how many samples are counted into one vocabulary

ASSUME CharactersAssumption ==
  Narrow \subseteq Nat /\ Wide \subseteq Nat /\ \A c \in Narrow, d \in Wide : c < d
ASSUME SamplesAssumption ==
  \A directory \in Samples : \A file \in {directory.pos, directory.neg} \ {Missing} :
    file \in Seq([label : {"pos", "neg", "other", "none"}, words : Seq(Seq(Narrow \cup Wide))])
ASSUME StrayAssumption ==
  Stray \subseteq [term : Seq(Narrow \cup Wide), weight : Int \X Int] /\ Stray # {}
ASSUME NumbersAssumption ==
  TopKs \subseteq Nat /\ SizeT \in Nat \ {0} /\ MaxLines \in Nat

VARIABLES
  samples,                 \* the directory, fixed
  status,                  \* "running", or what stopped the process
  posDocCnt, negDocCnt,    \* posDocCnt_, negDocCnt_
  vocab,                   \* vocab_: A, B and tf of each term
  featureVec,              \* featureVec_: terms with their weights, ranked
  termScore,               \* termScore_
  featVec,                 \* the vector getFeatures fills for its caller
  features,                \* the file that flush writes
  \* history, for the properties
  counted,                 \* the lines counted since the last clear
  sinceClean               \* and since the last cleaning of the terms

docs == <<posDocCnt, negDocCnt>>
history == <<counted, sinceClean>>
vocabVars == <<samples, status, docs, vocab, featureVec, termScore, featVec,
               features, history>>

Empty == <<>>     \* the empty function

Construct ==
  /\ posDocCnt = 0 /\ negDocCnt = 0
  /\ vocab = Empty /\ featureVec = <<>> /\ termScore = Empty
  /\ featVec = <<>>
  /\ counted = EmptyBag /\ sinceClean = EmptyBag

VocabInit ==
  /\ samples \in Samples
  /\ status = "running"
  /\ features = <<>>
  /\ Construct

-----------------------------------------------------------------------------
(* Terms.                                                                  *)

Bytes(t) == FoldSeq(LAMBDA c, n : n + (IF c \in Narrow THEN 1 ELSE 3), 0, t)

\* The order of the bytes, which is the order of a std::set.
Before(s, t) ==
  \/ \E i \in DOMAIN s \cap DOMAIN t :
       s[i] < t[i] /\ \A j \in 1 .. i - 1 : s[j] = t[j]
  \/ Len(s) < Len(t) /\ s = SubSeq(t, 1, Len(s))

isAlphaNumeric(t) == \A i \in DOMAIN t : t[i] \in Narrow

isNeedClean(t) ==
  t \in StopWords \/ Bytes(t) < 4 \/ Bytes(t) > 31 \/ isAlphaNumeric(t)

\* The elements of a sequence at some of its places, in their order.
Passing(s, places) ==
  LET at(k) == CHOOSE i \in places : Cardinality({j \in places : j < i}) = k - 1
  IN  [k \in 1 .. Cardinality(places) |-> s[at(k)]]

\* segment with dedup: a set, from its least to its greatest word.
Dedup(words) ==
  LET S == ToSet(words)
  IN  [i \in 1 .. Cardinality(S) |-> CHOOSE t \in S : Cardinality({u \in S : Before(u, t)}) = i - 1]

\* bigramModel: each word that is kept, and before the next one the two together.
bigramModel(words) ==
  LET kept == Passing(words, {i \in DOMAIN words : ~isNeedClean(words[i])}) IN
  FlattenSeq([i \in DOMAIN kept |->
    IF i = Len(kept) THEN <<kept[i]>> ELSE <<kept[i], kept[i] \o kept[i + 1]>>])

-----------------------------------------------------------------------------
(* Counting.                                                               *)

\* MUTANT of insertToVocab: a new term starts with no occurrence.
insertToVocabZero(v, t, label) ==
  LET old  == IF t \in DOMAIN v THEN v[t] ELSE [A |-> 0, B |-> 0, tf |-> -1]
      info == [A  |-> old.A + (IF label = "pos" THEN 1 ELSE 0),
               B  |-> old.B + (IF label = "neg" THEN 1 ELSE 0),
               tf |-> old.tf + 1]
  IN  [u \in DOMAIN v \cup {t} |-> IF u = t THEN info ELSE v[u]]

insertToVocab(v, t, label) ==
  LET old  == IF t \in DOMAIN v THEN v[t] ELSE [A |-> 0, B |-> 0, tf |-> 0]
      info == [A  |-> old.A + (IF label = "pos" THEN 1 ELSE 0),
               B  |-> old.B + (IF label = "neg" THEN 1 ELSE 0),
               tf |-> old.tf + 1]
  IN  [u \in DOMAIN v \cup {t} |-> IF u = t THEN info ELSE v[u]]

\* The lines of a file that have a tab.
Lines(file) ==
  IF file = Missing THEN <<>> ELSE Passing(file, {i \in DOMAIN file : file[i].label # "none"})

getWordsInfo(v, file) ==
  FoldLeft(LAMBDA w, l : FoldLeft(LAMBDA u, t : insertToVocab(u, t, l.label), w,
                                  bigramModel(Dedup(l.words))),
           v, Lines(file))

\* termsClean_: the terms that need no cleaning.
termsClean(v) == [t \in {t \in DOMAIN v : ~isNeedClean(t)} |-> v[t]]

BagOf(file) == ToBag(Lines(file))

\* Room for the lines of the files under the bound.
Room(files) == BagCardinality(counted) + Len(files) <= MaxLines

genPosVocab ==
  /\ status = "running" /\ Room(Lines(samples.pos))
  /\ vocab' = getWordsInfo(vocab, samples.pos)
  /\ posDocCnt' = Len(Lines(samples.pos))
  /\ counted' = counted (+) BagOf(samples.pos)
  /\ sinceClean' = sinceClean (+) BagOf(samples.pos)
  /\ UNCHANGED <<samples, status, negDocCnt, featureVec, termScore, featVec, features>>

genNegVocab ==
  /\ status = "running" /\ Room(Lines(samples.neg))
  /\ vocab' = getWordsInfo(vocab, samples.neg)
  /\ negDocCnt' = Len(Lines(samples.neg))
  /\ counted' = counted (+) BagOf(samples.neg)
  /\ sinceClean' = sinceClean (+) BagOf(samples.neg)
  /\ UNCHANGED <<samples, status, posDocCnt, featureVec, termScore, featVec, features>>

-----------------------------------------------------------------------------
(* Scores, in the arithmetic of size_t.                                    *)

\* C and D of a term among pos positive and neg negative documents.
Cells(info, pos, neg) ==
  [A |-> info.A, B |-> info.B,
   C |-> (pos - info.A) % SizeT, D |-> (neg - info.B) % SizeT]

Divisor(c) == ((c.A + c.B + 1) * (c.C + c.D + 1)) % SizeT

CHiSquare(c) == ((c.A * c.D - c.B * c.C) % SizeT) \div Divisor(c)

\* TFIDF with two arguments: tf over the number of documents plus one.
Weight(info, pos, neg) == <<info.tf, pos + neg + 1>>

\* MUTANT of sortDescendBySecond: the least weight first.
sortAscendBySecond(lhs, rhs) == lhs.tf < rhs.tf

\* The order of the ranking: by weight, which among terms of one selection is
\* by tf.
sortDescendBySecond(lhs, rhs) == lhs.tf > rhs.tf

\* std::sort of the terms of v; equal weights come in any order.
Rankings(v) ==
  {order \in SetToSeqs(DOMAIN v) :
     \A i, j \in DOMAIN order : i < j => ~sortDescendBySecond(v[order[j]], v[order[i]])}

\* featureSelection: the ranking of the terms with their weights.
featureSelection(v, order, pos, neg) ==
  [i \in DOMAIN order |-> [term |-> order[i], weight |-> Weight(v[order[i]], pos, neg)]]

\* A division by zero ends the process.
Divisible(v, pos, neg) == \A t \in DOMAIN v : Divisor(Cells(v[t], pos, neg)) # 0

Scores(v, pos, neg) ==
  [t \in DOMAIN v \cup DOMAIN termScore |->
     IF t \in DOMAIN v THEN CHiSquare(Cells(v[t], pos, neg)) ELSE termScore[t]]

Stop(why) ==
  /\ status' = why
  /\ UNCHANGED <<samples, docs, vocab, featureVec, termScore, featVec, features, history>>

-----------------------------------------------------------------------------
\* flush: the ranking with the scores (0 for a term without one).
flush(ranking, scores) ==
  [i \in DOMAIN ranking |->
    <<ranking[i].term, ranking[i].weight,
      IF ranking[i].term \in DOMAIN scores THEN scores[ranking[i].term] ELSE 0>>]

\* genVocab: both files, the cleaning, the selection and the file, in one call.
genVocab ==
  LET both == getWordsInfo(getWordsInfo(vocab, samples.pos), samples.neg)
      v    == termsClean(both)
      pos  == Len(Lines(samples.pos))
      neg  == Len(Lines(samples.neg))
  IN
  /\ status = "running" /\ Room(Lines(samples.pos) \o Lines(samples.neg))
  /\ IF Divisible(v, pos, neg)
     THEN /\ vocab' = v /\ posDocCnt' = pos /\ negDocCnt' = neg
          /\ \E order \in Rankings(v) : featureVec' = featureSelection(v, order, pos, neg)
          /\ termScore' = Scores(v, pos, neg)
          /\ features' = flush(featureVec', termScore')
          /\ counted' = counted (+) BagOf(samples.pos) (+) BagOf(samples.neg)
          /\ sinceClean' = EmptyBag
          /\ UNCHANGED <<samples, status, featVec>>
     ELSE Stop("division by zero")

\* clear.
Cleared ==
  /\ vocab' = Empty /\ featureVec' = <<>> /\ termScore' = Empty
  /\ counted' = EmptyBag /\ sinceClean' = EmptyBag

clear ==
  /\ status = "running"
  /\ Cleared
  /\ UNCHANGED <<samples, status, docs, featVec, features>>

\* The first TopK elements of a ranking; behind its end lies anything.
FirstOf(ranking, TopK) ==
  {[i \in 1 .. TopK |-> IF i \in DOMAIN ranking THEN ranking[i] ELSE behind[i]] :
     behind \in [1 .. TopK -> Stray]}

\* getFeatures: it counts both files as positive ones, so that posDocCnt_ ends
\* as the number of lines of samples.neg, and it copies TopK elements whether
\* the ranking has them or not.
getFeatures(TopK) ==
  LET both == getWordsInfo(getWordsInfo(vocab, samples.pos), samples.neg)
      v    == termsClean(both)
      pos  == Len(Lines(samples.neg))
  IN
  /\ status = "running" /\ Room(Lines(samples.pos) \o Lines(samples.neg))
  /\ IF ~Divisible(v, pos, negDocCnt) THEN Stop("division by zero")
     ELSE \/ /\ posDocCnt' = pos
             /\ \E order \in Rankings(v) :
                  featVec' \in FirstOf(featureSelection(v, order, pos, negDocCnt), TopK)
             /\ Cleared
             /\ UNCHANGED <<samples, status, negDocCnt, features>>
          \/ TopK > Cardinality(DOMAIN v) /\ Stop("read past the end")

-----------------------------------------------------------------------------
\* A process that was stopped is started again.
Restart ==
  /\ status # "running"
  /\ status' = "running"
  /\ posDocCnt' = 0 /\ negDocCnt' = 0
  /\ featVec' = <<>>
  /\ Cleared
  /\ UNCHANGED <<samples, features>>

\* What a program may call on a VocabModel of its own.
VocabNext ==
  \/ genPosVocab \/ genNegVocab \/ genVocab \/ clear
  \/ \E k \in TopKs : getFeatures(k)

-----------------------------------------------------------------------------
(* What is counted, told by sets.                                          *)

\* How often a text makes a term: as a word, and as two words that follow each
\* other in the order of their bytes.
Occurrences(t, words) ==
  LET S == {w \in ToSet(words) : ~isNeedClean(w)}
      Neighbours(x, y) == Before(x, y) /\ \A z \in S : ~(Before(x, z) /\ Before(z, y))
  IN  Cardinality({x \in S : x = t})
        + Cardinality({p \in S \X S : Neighbours(p[1], p[2]) /\ p[1] \o p[2] = t})

\* The sum over the lines of a bag with one of the labels.
Total(t, bag, labels) ==
  MapThenSumSet(LAMBDA l : bag[l] * Occurrences(t, l.words),
                {l \in BagToSet(bag) : l.label \in labels})

Labels == {"pos", "neg", "other"}

TermsOf(lines) ==
  UNION {LET S == ToSet(l.words) IN S \cup {x \o y : x, y \in S} : l \in lines}

\* Whatever was called in whatever order, the vocabulary holds of every term how
\* often samples of each label made it since the last clear: a sample makes it
\* once as a word, however often it has the word, and once more for two words that
\* are the term together; a file that is counted again counts again.  A pair that
\* the cleaning removes is counted anew after it.  (So A and B are not the numbers of
\* documents, and tf not that of occurrences, that comments of selection.h call them.)
CountsOfSamples ==
  \A t \in DOMAIN vocab \cup TermsOf(BagToSet(counted)) :
    LET bag  == IF isNeedClean(t) THEN sinceClean ELSE counted
        info == [A  |-> Total(t, bag, {"pos"}), B |-> Total(t, bag, {"neg"}),
                 tf |-> Total(t, bag, Labels)]
    IN  IF info.tf = 0 THEN t \notin DOMAIN vocab
        ELSE t \in DOMAIN vocab /\ vocab[t] = info
=============================================================================
