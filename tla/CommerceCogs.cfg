SPECIFICATION Spec
CONSTANTS
  c1 = c1
  c2 = c2
  e1 = e1
  e2 = e2
  e3 = e3
  p1 = p1
  s1 = s1
  l1 = l1
  l2 = l2
  camp = camp
  a1 = a1
  a2 = a2
  clean = clean
  dirty = dirty
  sku = sku
  k1 = k1
  r1 = r1
  r2 = r2
  d1 = d1
  Clients = {c1, c2}
  Events = {e1, e2, e3}
  Recorded <- MCRecorded
  Providers = {p1}
  Sources = {s1}
  NoSource = NoSource
  Values = {2}
  Evidence <- MCEvidence
  Links = {l1, l2}
  NoLink = NoLink
  NoEvent = NoEvent
  NoProfit = NoProfit
  MaxRevenue = 0
  Skus = {sku}
  Movements <- MCMovements
  Keys = {k1}
  NoKey = NoKey
  Settlements = {r1, r2}
  Statements <- MCStatements
  Unknown = Unknown
  Listings = {d1}
  NoSettlement = NoSettlement
  StatusTexts = {"live", "another"}
  MaxSeller = 3
  Published = {l1}
  Campaigns = {camp}
  MaxLinkRequests = 0
  Assets = {a1, a2}
  Drafts <- MCDrafts
  NoAsset = NoAsset
  Texts = {clean, dirty}
  CleanTexts = {clean}
  Keep = Keep
  Edits <- MCEdits
  MaxContentRequests = 0
  Views = {"seller"}
  NoReport = NoReport
  MaxReports = 1
  MaxRequests = 3
INVARIANT CogsTotalIsWhole
CHECK_DEADLOCK FALSE
