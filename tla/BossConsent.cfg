SPECIFICATION Spec
CONSTANTS
  a1 = a1
  a2 = a2
  r1 = r1
  r2 = r2
  r3 = r3
  Actions = {a1}
  Requests = {r1, r2}
  NoAction = NoAction
  Tools = {"internal", "external", "above", "unknown"}
  Circumstances = {"decide", "cancel", "lapse", "abort"}
  MaxCalls = 2
  MaxApprovals = 3
  MaxAborts = 1
SYMMETRY SameRequests
INVARIANT ToolReallyRan
INVARIANT CallsArePermitted
