CONSTANTS
  one = one
  two = two
  Clients = {one, two}
  Nodes <- MCNodes
  Sections <- MCSections
  Links <- MCLinks
  Changing <- MCChanging
  Networks <- MCNetworks
  Repo = 1
  Stored <- MCStored
  Questions <- MCQuestions
  Offsets <- MCOffsets
  Limit = 3
  Kinds <- MCKinds
  Predicates <- MCPredicates
  RelationSets <- MCRelationSets
  BALANCE_CUTOFF = 4
  MaxStatements = 2
  MaxCalls = 2
SPECIFICATION Spec
INVARIANTS SourcesAgree WholeNodesAreWhole AncestorsFound
PROPERTY CallsEnd
CHECK_DEADLOCK FALSE
