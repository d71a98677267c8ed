------------------------------- MODULE Rating -------------------------------
(***************************************************************************)
(* The rating service: the threads of the HTTP server (ev_handler in       *)
(* apps/sentiment-analysis/http-service/rating.cc) share one ml::Rating    *)
(* (include/ml/rating.hpp) over one liblinear model (include/ml/linear).   *)
(*                                                                         *)
(* A text is the set of features that occur in it, so its vector has one   *)
(* non-zero element for each; an element counts as one.  A sample is the   *)
(* block the vector is converted into: a list of feature numbers closed by *)
(* End.  What a freed or unfinished block holds is unknown.  The           *)
(* probability of the first class is told by its log-odds, the sum of the  *)
(* weights (liblinear's decision value): above zero is above one half.     *)
(***************************************************************************)
EXTENDS Integers, Sequences, FiniteSets, FiniteSetsExt, SequencesExt

CONSTANTS
  Threads,      \* the threads of the server
  Blocks,       \* the addresses malloc may return
  Null,         \* the null pointer, and the record of a free block
  NoText,       \* a request without the variable "str"
  Loaded,       \* the number of features in the feature file
  Weight,       \* the weight of a feature and of the bias
  InitialSize,  \* entries of the first block of a sample (64 in the code)
  MaxRequests   \* bound: how many requests with a text arrive

ASSUME SizesAssumption ==
  Loaded \in Nat \ {0} /\ InitialSize \in Nat \ {0} /\ MaxRequests \in Nat
ASSUME WeightAssumption == Weight \in [1 .. Loaded + 1 -> Int]
ASSUME NullAssumption ==
  Null \notin Blocks /\ Null \notin [size : Nat, entries : Seq(Int)]

VARIABLES
  \* fixed once main has loaded the feature file and the model
  features,    \* the features that loadFeature found: none or all
  nr_feature,  \* nr_feature_
  bias,        \* bias_ >= 0
  label,       \* the labels of the model's two classes
  \* of each thread
  pc,          \* where it is in the handling of a request
  text,        \* the text of the request
  element,     \* the elements still to convert
  sample,      \* pSample of PredictClassLabel
  local,       \* pSample of VectorToSampleType
  odds,        \* the log-odds of the first class
  answer,      \* the last answer
  \* of all
  heap,        \* the allocated blocks: size and entries written
  requests     \* the requests with a text so far

model == <<features, nr_feature, bias, label>>
vars == <<features, nr_feature, bias, label, pc, text, element, sample, local,
          odds, answer, heap, requests>>

Texts == SUBSET (1 .. Loaded)
End == -1
Certain == "certain"    \* the confidence 1 - 0.0 of a refusal
NoAnswer == [emotion |-> "none", confidence |-> 0]

\* A model and a feature file of other sizes are loaded without complaint.
Init ==
  /\ features \in {{}, 1 .. Loaded}
  /\ nr_feature \in 1 .. Loaded
  /\ bias \in BOOLEAN
  /\ label \in {<<1, -1>>, <<-1, 1>>}
  /\ pc = [t \in Threads |-> "idle"]
  /\ text = [t \in Threads |-> NoText]
  /\ element = [t \in Threads |-> <<>>]
  /\ sample = [t \in Threads |-> Null] /\ local = sample
  /\ odds = [t \in Threads |-> 0]
  /\ answer = [t \in Threads |-> NoAnswer]
  /\ heap = [b \in Blocks |-> Null]
  /\ requests = 0

Goto(t, from, to) == pc[t] = from /\ pc' = [pc EXCEPT ![t] = to]

\* The numbers of a set in their order: the i-th has i - 1 before it.
Ascending(set) ==
  [i \in 1 .. Cardinality(set) |->
     CHOOSE n \in set : Cardinality({m \in set : m < n}) = i - 1]
Entries(b) == heap[b].entries
Free == {b \in Blocks : heap[b] = Null}

-----------------------------------------------------------------------------
\* MG_REQUEST: without a text the prediction is skipped.
Request(t) ==
  /\ \/ /\ Goto(t, "idle", "malloc")
        /\ requests < MaxRequests
        /\ requests' = requests + 1
        /\ \E s \in Texts : text' = [text EXCEPT ![t] = s]
     \/ /\ Goto(t, "idle", "refuse")
        /\ text' = [text EXCEPT ![t] = NoText]
        /\ UNCHANGED requests
  /\ answer' = [answer EXCEPT ![t] = NoAnswer]
  /\ UNCHANGED <<model, element, sample, local, odds, heap>>

\* PredictClassLabel: a block, and the vector of the text.  Without features
\* the vector is empty and VectorToSampleType returns before it writes.
Allocate(t) ==
  /\ Goto(t, "malloc", IF features = {} THEN "predict" ELSE "convert")
  /\ \E b \in Free :
       /\ heap' = [heap EXCEPT ![b] = [size |-> InitialSize, entries |-> <<>>]]
       /\ sample' = [sample EXCEPT ![t] = b]
       /\ local' = [local EXCEPT ![t] = b]
  /\ element' = [element EXCEPT ![t] = Ascending(text[t] \cap features)]
  /\ UNCHANGED <<model, text, odds, answer, requests>>

-----------------------------------------------------------------------------
(* VectorToSampleType: its pointer is a copy of the caller's.              *)

\* MUTANT of Full: room for the entry but not for the terminator.
FullLate(t) == Len(Entries(local[t])) > heap[local[t]].size - 1

\* The test that reallocates: j > max_size - 2.
Full(t) == Len(Entries(local[t])) > heap[local[t]].size - 2

\* realloc to twice the size: the block grows where it is, or moves and is freed.
Realloc(t) ==
  /\ pc[t] = "convert"
  /\ element[t] # <<>>
  /\ Full(t)
  /\ \E b \in Free \cup {local[t]} :
       /\ heap' = [[heap EXCEPT ![local[t]] = Null]
                     EXCEPT ![b] = [heap[local[t]] EXCEPT !.size = 2 * @]]
       /\ local' = [local EXCEPT ![t] = b]
  /\ UNCHANGED <<model, pc, text, element, sample, odds, answer, requests>>

\* One element: its entry is kept while j <= nr_feature_; after that the loop
\* ends and what follows is written over it.
Store(t) ==
  /\ pc[t] = "convert"
  /\ element[t] # <<>>
  /\ ~Full(t)
  /\ IF Len(Entries(local[t])) <= nr_feature
     THEN /\ heap' = [heap EXCEPT ![local[t]].entries = Append(@, Head(element[t]))]
          /\ element' = [element EXCEPT ![t] = Tail(@)]
     ELSE element' = [element EXCEPT ![t] = <<>>] /\ UNCHANGED heap
  /\ UNCHANGED <<model, pc, text, sample, local, odds, answer, requests>>

\* The bias, if the model has one, and the terminator.
Closing == IF bias THEN <<nr_feature + 1, End>> ELSE <<End>>

\* The terminator may lie behind the end of its block: what it hits there is
\* unused, or the first entry of the block that follows, whichever that is.
Close(t) ==
  LET closed == [heap EXCEPT ![local[t]].entries = @ \o Closing]
      hit == {b \in Blocks \ (Free \cup {local[t]}) : Entries(b) # <<>>} IN
  /\ element[t] = <<>>
  /\ Goto(t, "convert", "predict")
  /\ \/ heap' = closed
     \/ /\ Len(closed[local[t]].entries) > heap[local[t]].size
        /\ \E b \in hit : heap' = [closed EXCEPT ![b].entries[1] = End]
  /\ UNCHANGED <<model, text, element, sample, local, odds, answer, requests>>

-----------------------------------------------------------------------------
\* The largest feature number the model has a weight for.
Known == IF bias THEN nr_feature + 1 ELSE nr_feature

\* MUTANT of Decision: unknown numbers are not skipped.
DecisionAll(entries) ==
  FoldSeq(LAMBDA i, sum : (IF i \in DOMAIN Weight THEN Weight[i] ELSE 0) + sum, 0, entries)

\* predict_values: the sum of the weights, unknown numbers are skipped.
Decision(entries) ==
  FoldSeq(LAMBDA i, sum : (IF i \in 1 .. Known THEN Weight[i] ELSE 0) + sum, 0, entries)

\* What predict_values reads of a block: up to the first terminator.
Read(entries) ==
  SubSeq(entries, 1, CHOOSE i \in DOMAIN entries :
                       entries[i] = End /\ \A j \in 1 .. i - 1 : entries[j] # End)

\* A block with its terminator inside.
Complete(b) ==
  /\ heap[b] # Null
  /\ Len(Entries(b)) <= heap[b].size
  /\ Entries(b) # <<>> /\ Last(Entries(b)) = End

\* What unknown entries may amount to: either class.
Largest == SumSet({IF Weight[i] < 0 THEN -Weight[i] ELSE Weight[i] : i \in DOMAIN Weight})

\* predict_probability on the caller's pointer: the log-odds of the first
\* class.  The block is never freed.
Predict(t) ==
  /\ Goto(t, "predict", "answer")
  /\ \E d \in IF Complete(sample[t]) THEN {Decision(Read(Entries(sample[t])))}
                                     ELSE {-Largest, Largest} :
       odds' = [odds EXCEPT ![t] = d]
  /\ local' = [local EXCEPT ![t] = Null]
  /\ sample' = [sample EXCEPT ![t] = Null]
  /\ UNCHANGED <<model, text, element, answer, heap, requests>>

\* The class that predict_values chooses, as the handler words it.
Emotion(d) == IF label[IF d > 0 THEN 1 ELSE 2] = 1 THEN "positive" ELSE "negative"

\* score, or 1 - score when it is not above one half.
Confidence(d) == IF d > 0 THEN d ELSE -d

\* The handler words the answer and sends it.
Answer(t) ==
  /\ Goto(t, "answer", "idle")
  /\ answer' = [answer EXCEPT ![t] =
       [emotion |-> Emotion(odds[t]), confidence |-> Confidence(odds[t])]]
  /\ odds' = [odds EXCEPT ![t] = 0]
  /\ UNCHANGED <<model, text, element, sample, local, heap, requests>>

Refuse(t) ==
  /\ Goto(t, "refuse", "idle")
  /\ answer' = [answer EXCEPT ![t] = [emotion |-> "comments refused", confidence |-> Certain]]
  /\ UNCHANGED <<model, text, element, sample, local, odds, heap, requests>>

Next == \E t \in Threads :
  \/ Request(t) \/ Allocate(t) \/ Realloc(t) \/ Store(t) \/ Close(t)
  \/ Predict(t) \/ Answer(t) \/ Refuse(t)

Spec == Init /\ [][Next]_vars

-----------------------------------------------------------------------------
PCs == {"idle", "malloc", "convert", "predict", "answer", "refuse"}

\* The ranges of the variables.
TypeOK ==
  /\ features \in {{}, 1 .. Loaded} /\ nr_feature \in 1 .. Loaded
  /\ bias \in BOOLEAN /\ label \in {<<1, -1>>, <<-1, 1>>}
  /\ pc \in [Threads -> PCs]
  /\ text \in [Threads -> Texts \cup {NoText}]
  /\ element \in [Threads -> Seq(1 .. Loaded)]
  /\ sample \in [Threads -> Blocks \cup {Null}]
  /\ local \in [Threads -> Blocks \cup {Null}]
  /\ odds \in [Threads -> Int]
  /\ heap \in [Blocks -> [size : Nat, entries : Seq(1 .. Loaded + 1 \cup {End})] \cup {Null}]
  /\ requests \in 0 .. MaxRequests

\* The entries of a text, with the bias and the terminator, fit into the first
\* block, so that it is never reallocated.
Fits(s) == Cardinality(s) + (IF bias THEN 2 ELSE 1) <= InitialSize

\* What the model says of a text: the weights of its features and the bias.
Total(set) == MapThenSumSet(LAMBDA i : Weight[i], set)
Reference(s) == Total((s \cap 1 .. nr_feature) \cup IF bias THEN {nr_feature + 1} ELSE {})

\* Every entry is inside its block.
Overrun(b) == heap[b] # Null /\ Len(Entries(b)) > heap[b].size
Inside == \A b \in Blocks : ~Overrun(b)

\* A request is answered with what the model says of its own text, whatever the
\* other threads do to the heap meanwhile, as long as none of them wrote behind a
\* block (a model without a bias lets nobody: BlocksOfRequests; with one a longer
\* text of another request may have spoilt this one's sample): for a text that
\* fits, when the feature file was loaded, and, in a model with a bias, has no
\* more features than the model (its next number is the bias).
AnswerOfText ==
  Inside => \A t \in Threads :
    LET s == text[t] IN
    /\ answer[t] # NoAnswer /\ s # NoText
    /\ features # {} /\ (bias => Loaded <= nr_feature)
    /\ Fits(s)
    => answer[t] = [emotion |-> Emotion(Reference(s)),
                               confidence |-> Confidence(Reference(s))]

\* Without a bias no entry is written behind the end of its block: the test
\* that reallocates leaves room for the terminator.  Every prediction leaves
\* exactly one block behind that is never freed, a request that is being handled
\* holds one, and nothing else is allocated.
BlocksOfRequests ==
  /\ TypeOK
  /\ ~bias => Inside
  /\ Cardinality(Blocks \ Free) = requests - Cardinality({t \in Threads : pc[t] = "malloc"})

\* What PredictClassLabel hands to the model is the sample of the text: it has
\* an entry for each of its features the model knows.
SampleOfText ==
  \A t \in Threads :
    pc[t] = "predict" /\ features # {} =>
      /\ heap[sample[t]] # Null
      /\ text[t] \cap 1 .. nr_feature \subseteq ToSet(Entries(sample[t]))
=============================================================================
