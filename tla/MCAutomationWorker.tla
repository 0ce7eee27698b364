------------------------- MODULE MCAutomationWorker -------------------------
(* Instances of AutomationWorker for the model checker. *)
EXTENDS AutomationWorker, TLC

CONSTANTS j1, j2, w1, w2, w3, a1, a2

\* Processes are interchangeable (safety runs only).
SameWorkers == Permutations(Workers)

SameWorkersAndJobs == Permutations(Workers) \cup Permutations(Jobs)
=============================================================================
