CONSTANTS
  d1 = d1
  d2 = d2
  t = t
  u = u
  v = v
  Docs = {d1, d2}
  Titles = {t, u, v}
  DocTitle <- MCDocTitle
  Written <- MCWritten
  NoId = NoId
  m = m
  n = n
  Notes = {m, n}
  NoNote = NoNote
  MaxHeadings = 3
  MaxNodes = 4
  MaxChanges = 3
SPECIFICATION Spec
INVARIANTS IdsApart SectionsNameNodes
PROPERTIES AnchorsKeepNodes
CHECK_DEADLOCK FALSE
