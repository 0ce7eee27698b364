\* Two healthy processes, each with a run-once request beside its poll chain: no
\* lock is ever lost.
CONSTANTS
  j1 = j1  j2 = j2  w1 = w1  w2 = w2  w3 = w3  a1 = a1  a2 = a2
  NoJob = NoJob  NoWorker = NoWorker
  Jobs = {j1}
  Workers = {w1, w2}
  Lanes = {"poll", "once"}
  Operators = {}
  MaxAttempts = 2
  Batch = 2
  MaxUp = 2
  Adversity = {"fatal"}
  MaxAborts = 0
  MaxExpiries = 0
  MaxReplays = 0
SPECIFICATION Spec
SYMMETRY SameWorkers
INVARIANTS SingleRunner RunsUnderOwnLock BuriedForCause
PROPERTIES TerminalIsFinal ImplementsLease
