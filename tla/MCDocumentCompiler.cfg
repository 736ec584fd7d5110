CONSTANTS
  net = net
  doc = doc
  img = img
  Docs <- MCDocs
  Assets <- MCAssets
  Root = net
  Links <- MCLinks
  Ancestors <- MCAncestors
  Dangling <- MCDangling
  Faulty <- MCFaulty
  MaxReparse = 2
SPECIFICATION Spec
INVARIANTS TypeOK QueuesDisjoint AttemptsBounded
PROPERTIES ParseNextProgresses
