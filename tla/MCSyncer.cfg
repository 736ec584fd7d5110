CONSTANTS
  net = net
  doc = doc
  img = img
  Docs <- MCDocs
  Assets <- MCImages
  Root = net
  Links <- MCLinksImage
  Ancestors <- MCAncestors
  Dangling <- MCNone
  Faulty <- MCNone
  MaxReparse = 2
  MaxVersion = 2
  MaxSecond = 2
  SameSecond = FALSE
  Edited <- MCDoc
  EditsWhileBusy = FALSE
  Rewrites <- MCDoc
  MaxBehind = 0
  ReceiverMayClose = FALSE
  CommitMayFail = FALSE
  ShellMayFail = FALSE
  MaxRestarts = 1
  CrashesWhileBusy = FALSE
  MaxWaits = 1
SPECIFICATION SyncerSpec
INVARIANT NothingLostInFlight
PROPERTIES EditsReachDatabase WaitersAdvance ComesToRest
CHECK_DEADLOCK FALSE
