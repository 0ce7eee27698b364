SPECIFICATION Spec
CONSTANTS
  c1 = c1
  c2 = c2
  model = model
  stub = stub
  ip = ip
  k1 = k1
  d1 = d1
  Clients = {c1, c2}
  Unset = Unset
  CeilingSetting = 4
  OwnerOptIn = FALSE
  Addresses = {ip}
  Limit <- MCLimit
  WindowTicks = 2
  MaxWindows = 1
  MaxTime = 2
  Providers = {model, stub}
  Health <- MCHealth
  DefaultProvider = stub
  Named = {model, Unset}
  Retries <- MCRetries
  MaxInvocations = 2
  Commands = {k1}
  CommandTexts <- MCTexts
  AskedLevels = {Unset, 5}
  AskedStatus = {"archived"}
  Decisions = {d1}
  MaxBoss = 3
  MaxRequests = 3
  MaxRestarts = 1
INVARIANT AuthorityIsCapped
INVARIANT ClampIsAudited
INVARIANT OutcomeOnceUnlessCrossed
INVARIANT SpendIsAccounted
INVARIANT VerifiedIsEarned
INVARIANT WindowBudget
INVARIANT MemoryIsRecent
PROPERTY EventuallyAnswered
CHECK_DEADLOCK FALSE
