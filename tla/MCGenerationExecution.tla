----------------------- MODULE MCGenerationExecution -----------------------
(* Instances of GenerationExecution for TLC. *)
EXTENDS GenerationExecution

\* The candidate may lose to the baseline, tie with it, or beat it.
TwoScores == {1, 2}
=============================================================================
