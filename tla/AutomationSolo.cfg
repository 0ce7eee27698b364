\* One process at a time, which may crash and be replaced.
CONSTANTS
  j1 = j1  j2 = j2  w1 = w1  w2 = w2  w3 = w3  a1 = a1  a2 = a2
  NoJob = NoJob  NoWorker = NoWorker
  Jobs = {j1, j2}
  Workers = {w1, w2}
  Lanes = {"poll"}
  Operators = {}
  MaxAttempts = 2
  Batch = 2
  MaxUp = 1
  Adversity = {"crash", "abort", "slow", "fatal"}
  MaxAborts = 1
  MaxExpiries = 1
  MaxReplays = 0
SPECIFICATION Spec
SYMMETRY SameWorkersAndJobs
INVARIANTS AttemptsInOrder AttemptBudget TypeOK
PROPERTIES ClaimedOnlyWhenDue AttemptOutcomeFinal TerminalIsFinal
