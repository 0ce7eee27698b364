SPECIFICATION Spec
CONSTANTS
  a1 = a1
  a2 = a2
  r1 = r1
  r2 = r2
  r3 = r3
  Actions = {a1}
  Requests = {r1, r2, r3}
  NoAction = NoAction
  Tools = {"internal", "external", "above", "unknown"}
  Circumstances = {"cancel", "crash"}
  MaxCalls = 5
  MaxApprovals = 4
  MaxAborts = 0
SYMMETRY SameRequests
INVARIANT TypeOK
INVARIANT CancelledNotRunning
INVARIANT ExecutedHasSucceededCall
PROPERTY ImplementsClaim
