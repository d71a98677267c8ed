------------------------------ MODULE MCPredict -----------------------------
(* Instance for TLC of the way from samples to predictions.                *)
EXTENDS MCVectorize, Predict

\* A model that knows six of eight features.
TheModels ==
  {[nr_feature |-> 6, bias |-> TRUE, weight |-> <<1, -1, -1, 2, 1, -2, -1>>, label |-> <<-1, 1>>]}

\* The directory with a label nobody set, which may come out as any.
TheDirectories == {Unlabelled}
=============================================================================
