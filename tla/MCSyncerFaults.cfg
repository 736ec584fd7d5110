CONSTANTS
  net = net
  doc = doc
  img = img
  Docs <- MCDocs
  Assets <- MCNone
  Root = net
  Links <- MCLinks
  Ancestors <- MCAncestors
  Dangling <- MCNone
  Faulty <- MCDoc
  MaxReparse = 2
  MaxVersion = 2
  MaxSecond = 2
  SameSecond = FALSE
  Edited <- MCDoc
  EditsWhileBusy = TRUE
  Rewrites <- MCNone
  MaxBehind = 0
  ReceiverMayClose = TRUE
  CommitMayFail = TRUE
  ShellMayFail = TRUE
  MaxRestarts = 1
  CrashesWhileBusy = TRUE
  MaxWaits = 0
SPECIFICATION SyncerSpec
INVARIANT MtimesFollowNodes
PROPERTIES ComesToRest
CHECK_DEADLOCK FALSE
