----------------------------- MODULE Vectorize ------------------------------
(***************************************************************************)
(* Vectorize (include/nlp/vectorize.hpp): it takes features from a         *)
(* VocabModel of its own or from a file, and writes every sample as the    *)
(* numbers of the features it has, the input of the training.              *)
(*                                                                         *)
(* featureVec_ is featVec \o loaded: what getFeatures put there, then what *)
(* loadFeature appended.  An element is kept as the number of occurrences  *)
(* of its feature, times its weight over the norm in the code.             *)
(***************************************************************************)
EXTENDS Vocabulary

CONSTANTS
  FeatureFile,  \* the lines of the file "feature": terms with their weights
  MaxLoaded,    \* bound: how many lines loadFeature appends
  Junk          \* what an int that nobody set may hold

ASSUME FeatureFileAssumption ==
  /\ FeatureFile \in {Missing} \cup Seq([term : Seq(Narrow \cup Wide), weight : Int \X Int])
  /\ MaxLoaded \in Nat

VARIABLES
  owner,   \* who has the VocabModel: a program, or a Vectorize
  loaded,  \* the features from the file
  scale,   \* the file comment_scale: labels and elements
  used     \* history: featVec when comment_scale was written

vars == <<vocabVars, owner, loaded, scale, used>>

Init ==
  /\ VocabInit
  /\ owner \in {"program", "Vectorize"}
  /\ loaded = <<>> /\ scale = <<>> /\ used = <<>>

-----------------------------------------------------------------------------
\* A program that has a VocabModel.
Program ==
  /\ owner = "program"
  /\ VocabNext
  /\ UNCHANGED <<owner, loaded, scale, used>>

\* getfeatures: the vector is swapped, what was loaded goes.
getfeatures(k) ==
  /\ owner = "Vectorize"
  /\ getFeatures(k)
  /\ loaded' = <<>>
  /\ UNCHANGED <<owner, scale, used>>

\* loadFeature: it appends to what is there.
loadFeature ==
  /\ owner = "Vectorize" /\ status = "running"
  /\ FeatureFile # Missing
  /\ Len(loaded) + Len(FeatureFile) <= MaxLoaded
  /\ loaded' = loaded \o FeatureFile
  /\ UNCHANGED <<vocabVars, owner, scale, used>>

-----------------------------------------------------------------------------
\* termProcess: how often each term occurs.
termProcess(words) == ToBag(bigramModel(words))

\* The numbers of the features that terms have, in their order.
Present(tf, feats) ==
  Passing([i \in DOMAIN feats |-> i],
          {i \in DOMAIN feats : feats[i].term \in DOMAIN tf /\ feats[i].weight[1] > 0})

\* MUTANT of elements: the numbers start from 0.
elementsZero(words, feats) ==
  LET tf == termProcess(words)
      at == Present(tf, feats)
  IN  [j \in DOMAIN at |-> <<at[j] - 1, tf[feats[at[j]].term]>>]

\* vectorize_ and readLine: the positive elements with their numbers.
elements(words, feats) ==
  LET tf == termProcess(words)
      at == Present(tf, feats)
  IN  [j \in DOMAIN at |-> <<at[j], tf[feats[at[j]].term]>>]

\* readLine: L stays unset when the label is neither of the two.
Label(label, junk) == CASE label = "pos" -> 1 [] label = "neg" -> -1 [] OTHER -> junk

\* The lines of a file that have an element; junk has the labels nobody set.
Scaled(lines, feats, junk) ==
  Passing([i \in DOMAIN lines |-> [label |-> Label(lines[i].label, junk[i]),
                                  elements |-> elements(lines[i].words, feats)]],
          {i \in DOMAIN lines : elements(lines[i].words, feats) # <<>>})

\* vectorize: the lines of both files.
vectorize ==
  LET lines == Lines(samples.pos) \o Lines(samples.neg)
      unset == {i \in DOMAIN lines : lines[i].label \notin {"pos", "neg"}} IN
  /\ owner = "Vectorize" /\ status = "running"
  /\ samples.pos # Missing
  /\ \E junk \in [unset -> Junk] : scale' = Scaled(lines, featVec \o loaded, junk)
  /\ used' = featVec
  /\ UNCHANGED <<vocabVars, owner, loaded>>

Again ==
  /\ Restart
  /\ loaded' = <<>>
  /\ UNCHANGED <<owner, scale, used>>

Next ==
  \/ Program
  \/ \E k \in TopKs : getfeatures(k)
  \/ loadFeature
  \/ vectorize
  \/ Again

Spec == Init /\ [][Next]_vars

-----------------------------------------------------------------------------
SampleLines == ToSet(Lines(samples.pos)) \cup ToSet(Lines(samples.neg))
SampleBag == BagOf(samples.pos) (+) BagOf(samples.neg)
Words == UNION {ToSet(l.words) : l \in SampleLines}
WordPairs == {x \o y : x, y \in Words}

\* The features of a Vectorize begin with the terms of both files that are counted
\* most often, each with its count (a line counts a term once as a word and once
\* for each pair that makes it), ranked, none twice and however often they were
\* asked for.  A term is left out only if TopK others are counted as often.  What
\* comes behind the last term, if TopK is more than there are, lay behind the end of
\* the ranking and may look like a term that is counted, or like none.
TopByFrequency ==
  LET tf(t) == Total(t, SampleBag, Labels)
  IN
  owner = "Vectorize" => \E n \in 0 .. Len(featVec) :
    /\ \A i \in 1 .. n :
         /\ ~isNeedClean(featVec[i].term)
         /\ featVec[i].weight[1] = tf(featVec[i].term) /\ featVec[i].weight[1] > 0
    /\ \A i, j \in 1 .. n :
         i < j => /\ featVec[i].term # featVec[j].term
                  /\ featVec[j].weight[1] <= featVec[i].weight[1]
    /\ \A t \in TermsOf(SampleLines) :
         /\ ~isNeedClean(t) /\ tf(t) > 0
         /\ \A i \in 1 .. n : featVec[i].term # t
         => n = Len(featVec) /\ \A i \in 1 .. n : tf(t) <= featVec[i].weight[1]

\* The lines of comment_scale with a label that have the element i.
Having(i, label) ==
  {n \in DOMAIN scale : /\ scale[n].label = label
                        /\ \E j \in DOMAIN scale[n].elements : scale[n].elements[j][1] = i}

\* A word that is a feature, one with a positive weight and not of a kind that is
\* cleaned away (as all are that getFeatures selects), is found again when the
\* samples are vectorized: as many lines of each label have it as samples of that
\* label have the word.
\* (A pair need not be: it is counted between neighbours in the order of the
\* bytes and looked for between neighbours in the text.)
FeaturesInSamples ==
  \A i \in DOMAIN used :
    LET t == used[i].term IN
    /\ t \in Words \ WordPairs /\ ~isNeedClean(t) /\ used[i].weight[1] > 0
    /\ \A l \in SampleLines : l.label # "other"
    => /\ Cardinality(Having(i, 1)) = Total(t, SampleBag, {"pos"})
       /\ Cardinality(Having(i, -1)) = Total(t, SampleBag, {"neg"})

\* The divisor of the score, (A + B + 1) * (C + D + 1), is never zero.
DivisorPositive == status # "division by zero"
=============================================================================
