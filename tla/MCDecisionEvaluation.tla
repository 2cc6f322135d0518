------------------------ MODULE MCDecisionEvaluation ------------------------
(***************************************************************************)
(* Two batches and an operator over two candidates, the first of them with *)
(* incomplete context.  The model says ELIGIBLE or fails.                  *)
(***************************************************************************)
EXTENDS DecisionEvaluation, TLC

CONSTANTS b1, b2, o1

BatchSymmetry == Permutations({b1, b2})

MCSignal ==
    [s \in 1 .. SignalCount |->
        [candidate |-> TRUE, features |-> TRUE, warnings |-> s = 1]]

MCAnswers ==
    {[wellFormed |-> TRUE, own |-> TRUE, sufficient |-> TRUE,
      verdict |-> "ELIGIBLE", confidence |-> 60]}
=============================================================================
