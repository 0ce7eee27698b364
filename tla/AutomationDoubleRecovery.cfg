\* Two live processes recover the lock of a dead one.
CONSTANTS
  j1 = j1  j2 = j2  w1 = w1  w2 = w2  w3 = w3  a1 = a1  a2 = a2
  NoJob = NoJob  NoWorker = NoWorker
  Jobs = {j1}
  Workers = {w1, w2, w3}
  Lanes = {"poll"}
  Operators = {}
  MaxAttempts = 2
  Batch = 1
  MaxUp = 2
  Adversity = {"crash"}
  MaxAborts = 0
  MaxExpiries = 0
  MaxReplays = 0
SPECIFICATION Spec
INVARIANTS SingleRunner
