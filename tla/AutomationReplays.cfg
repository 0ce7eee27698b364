SPECIFICATION Spec
CONSTANTS
  c1 = c1
  c2 = c2
  c3 = c3
  k1 = k1
  k2 = k2
  j1 = j1
  j2 = j2
  j3 = j3
  Clients = {c1, c2, c3}
  Keys = {k1, k2}
  NoKey = NoKey
  Jobs = {j1, j2, j3}
  MaxReplays = 2
SYMMETRY Interchangeable
INVARIANT TypeOK
INVARIANT AnsweredWithOwnJob
INVARIANT SecondJobOnlyAfterReplay
