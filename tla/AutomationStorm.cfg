\* Two overlapping processes and everything that may go wrong, on one job.
CONSTANTS
  j1 = j1  j2 = j2  w1 = w1  w2 = w2  w3 = w3  a1 = a1  a2 = a2
  NoJob = NoJob  NoWorker = NoWorker
  Jobs = {j1}
  Workers = {w1, w2}
  Lanes = {"poll"}
  Operators = {a1}
  MaxAttempts = 2
  Batch = 1
  MaxUp = 2
  Adversity = {"crash", "slow", "drain", "replay"}
  MaxAborts = 0
  MaxExpiries = 1
  MaxReplays = 1
SPECIFICATION Spec
SYMMETRY SameWorkers
INVARIANTS LockIffRunning SuccessWasEarned
