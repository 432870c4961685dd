-------------------------- MODULE MCTrainingWorkflow -------------------------
(* Instances of TrainingWorkflow for TLC. *)
EXTENDS TrainingWorkflow, TLC

\* Clients are interchangeable; processes are too, and no property tells
\* two of either apart.
Symmetry == Permutations(Processes) \cup Permutations(Clients)
=============================================================================
