------------------------------ MODULE Predict -------------------------------
(***************************************************************************)
(* Batch prediction (ml::Predict in include/ml/predict.hpp, used by        *)
(* t_predict.cc) over the file comment_scale that Vectorize writes, with a *)
(* model of liblinear (include/ml/linear): a program of its own, which may *)
(* predict several times while the file changes.                           *)
(*                                                                         *)
(* Every line that Vectorize writes can be parsed; without the file, or    *)
(* with an empty one, nothing is counted.  An element counts as one.       *)
(***************************************************************************)
EXTENDS Vectorize

CONSTANTS
  Models,      \* [nr_feature, bias, weight, label]
  max_nr_attr, \* entries of the first block of a sample (64 in the code)
  MaxBatches,  \* bound: how often a program predicts
  Directories  \* bound: the sample directories whose file is predicted

ASSUME ModelsAssumption ==
  /\ max_nr_attr \in Nat \ {0, 1} /\ MaxBatches \in Nat
  /\ \A m \in Models :
       /\ m.nr_feature \in Nat /\ m.bias \in BOOLEAN
       /\ m.weight \in [1 .. IF m.bias THEN m.nr_feature + 1 ELSE m.nr_feature -> Int]

VARIABLES
  model,           \* model_, or Missing: it could not be loaded
  predictor,       \* "none", "ready" or what stopped the program
  correct, total,  \* correct_ and total_
  batches          \* history: the files that were predicted

predictVars == <<model, predictor, correct, total, batches>>

PredictInit ==
  /\ Init
  /\ model = Missing /\ predictor = "none"
  /\ correct = 0 /\ total = 0 /\ batches = <<>>

-----------------------------------------------------------------------------
End == -1

\* MUTANT of Short: room for the entry and the terminator, not for the bias.
ShortLate(x, size) == Len(x) >= size - 1

\* The test that doubles the block.
Short(x, size) == Len(x) >= size - 2

\* One element: the loop ends with the first number the model does not have.
Entered(m, s, e) ==
  LET larger == IF Short(s.x, s.size) THEN 2 * s.size ELSE s.size IN
  IF s.over THEN s
  ELSE IF e[1] <= m.nr_feature
  THEN [s EXCEPT !.x = Append(@, e[1]), !.size = larger]
  ELSE [s EXCEPT !.over = TRUE, !.size = larger]

\* The sample x of a line, in a block that is kept from line to line; behind the
\* elements the bias, which is the number n_, and the terminator.
SampleOf(m, line, size) ==
  LET s == FoldLeft(LAMBDA t, e : Entered(m, t, e), [x |-> <<>>, size |-> size, over |-> FALSE],
                    line.elements)
  IN [s EXCEPT !.x = @ \o IF m.bias THEN <<m.nr_feature + 1, End>> ELSE <<End>>]

\* predict_probability, of a model that has probabilities, as logistic regression
\* gives: the class by the sign of the decision value.
WeightOf(m, i) == IF i \in DOMAIN m.weight THEN m.weight[i] ELSE 0
predict_probability(m, x) ==
  LET dec == FoldLeft(LAMBDA sum, i : sum + WeightOf(m, i), 0, x)
  IN m.label[IF dec > 0 THEN 1 ELSE 2]

\* One line, and the lines of a file one after the other.
LinePredicted(m, s, l) ==
  LET sample == SampleOf(m, l, s.size)
  IN [size |-> sample.size,
      overrun |-> s.overrun \/ Len(sample.x) > sample.size,
      correct |-> s.correct + IF predict_probability(m, sample.x) = l.label THEN 1 ELSE 0]
Predicted(m, lines) ==
  FoldLeft(LAMBDA s, l : LinePredicted(m, s, l),
           [size |-> max_nr_attr, overrun |-> FALSE, correct |-> 0], lines)

-----------------------------------------------------------------------------
\* A new Predict with its model; that there is none is only reported.
Load ==
  /\ predictor = "none" /\ scale # <<>> /\ samples \in Directories
  /\ model' \in Models \cup {Missing}
  /\ predictor' = "ready"
  /\ UNCHANGED <<vars, correct, total, batches>>

\* BatchPredict: the counts are not reset.
BatchPredict ==
  LET done == Predicted(model, scale) IN
  /\ predictor = "ready" /\ scale # <<>> /\ Len(batches) < MaxBatches
  /\ model # Missing
  /\ predictor' = IF done.overrun THEN "written behind the block" ELSE "ready"
  /\ correct' = correct + done.correct
  /\ total' = total + Len(scale)
  /\ batches' = Append(batches, scale)
  /\ UNCHANGED <<vars, model>>

\* The program ends; or BatchPredict ends it: without a model at the first line,
\* with one perhaps at the first realloc, which gets a pointer that nobody set.
Leave ==
  /\ predictor # "none"
  /\ model' = Missing /\ predictor' = "none"
  /\ correct' = 0 /\ total' = 0 /\ batches' = <<>>
  /\ UNCHANGED vars

PredictNext ==
  \/ Next /\ UNCHANGED predictVars
  \/ Load
  \/ BatchPredict
  \/ Leave

PredictSpec == PredictInit /\ [][PredictNext]_<<vars, predictVars>>

-----------------------------------------------------------------------------
\* What the model says of a line: the sum over the features it knows.
Reference(m, l) ==
  LET numbers == {l.elements[j][1] : j \in DOMAIN l.elements} \cap 1 .. m.nr_feature
      dec == MapThenSumSet(LAMBDA i : m.weight[i],
                           numbers \cup IF m.bias THEN {m.nr_feature + 1} ELSE {})
  IN m.label[IF dec > 0 THEN 1 ELSE 2]

\* The lines of all files: which file, and where in it.
Predictions == UNION {{k} \X DOMAIN batches[k] : k \in DOMAIN batches}
LineAt(p) == batches[p[1]][p[2]]

\* The accuracy a program prints is that of all lines of all files it has
\* predicted, each by the features of it that the model knows and by the label it
\* has, and no sample is written behind its block, which grows with the lines
\* before it.  No more lines of a training file have a label nobody set than
\* samples have another one than the two.
BatchCounted ==
  /\ predictor # "written behind the block"
  /\ predictor = "ready" /\ model # Missing =>
       /\ total = Cardinality(Predictions)
       /\ correct = Cardinality({p \in Predictions : Reference(model, LineAt(p)) = LineAt(p).label})
  /\ \A b \in ToSet(batches) :
       Cardinality({i \in DOMAIN b : b[i].label \notin {1, -1}})
         <= LET lines == Lines(samples.pos) \o Lines(samples.neg)
            IN  Cardinality({i \in DOMAIN lines : lines[i].label \notin {"pos", "neg"}})
=============================================================================
