CONSTANTS
  one = one
  two = two
  Link = {one, two}
  Names = {"docs", "lib", "sub", "guide", "a.md", "b.md", "index.md"}
  Files = {"a.md", "b.md", "index.md"}
  Anchors = {"intro", "usage", "bref"}
  Docs <- MCDocs
  Nets <- MCNets
  Headings <- MCHeadings
  DocOf <- MCDocOf
  Id <- MCId
  Slug <- MCSlug
  NetDir <- MCNetDir
  Places <- MCPlaces
  Titles <- MCTitles
  Owner <- MCOwner
  Written <- MCWritten
  StartPlace <- MCStartPlace
  StartTitle <- MCStartTitle
  MaxChanges = 2
SYMMETRY Symmetry
SPECIFICATION Spec
INVARIANTS UrlsLeadWhereTheyShould RewrittenLinksResolve
PROPERTIES WritingSettles BrefsStay
CHECK_DEADLOCK FALSE
