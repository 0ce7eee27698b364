\* Crashes, shutdowns and a rejected statement; a process is always replaced.
CONSTANTS
  j1 = j1  j2 = j2  w1 = w1  w2 = w2  w3 = w3  a1 = a1  a2 = a2
  NoJob = NoJob  NoWorker = NoWorker
  Jobs = {j1}
  Workers = {w1, w2}
  Lanes = {"poll"}
  Operators = {}
  MaxAttempts = 2
  Batch = 1
  MaxUp = 2
  Adversity = {"crash", "abort", "drain"}
  MaxAborts = 1
  MaxExpiries = 0
  MaxReplays = 0
SPECIFICATION FairSpec
PROPERTIES EventuallySettled
