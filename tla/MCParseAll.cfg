CONSTANTS
  net = net
  doc = doc
  sub = sub
  leaf = leaf
  img = img
  Docs <- MCDocs
  Assets <- MCAssets
  Root = net
  Links <- MCLinks
  Ancestors <- MCAncestors
  Dangling <- MCDangling
  Faulty <- MCFaulty
  MaxReparse = 3
  MaxRuns = 2
  Requests <- MCRequests
SPECIFICATION BatchSpec
INVARIANTS ReportIsCurrent NothingLeftBehind
PROPERTIES ParseAllReturns
CHECK_DEADLOCK FALSE
