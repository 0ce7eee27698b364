SPECIFICATION Spec
CONSTANTS
  a1 = a1
  a2 = a2
  r1 = r1
  r2 = r2
  r3 = r3
  Actions = {a1}
  Requests = {r1, r2}
  NoAction = NoAction
  Tools = {"internal"}
  Circumstances = {"decide"}
  MaxCalls = 5
  MaxApprovals = 4
  MaxAborts = 0
SYMMETRY SameRequests
INVARIANT SingleHolder
