SPECIFICATION Spec
CONSTANTS
    root = root
    sub = sub
    page = page
    leaf = leaf
    img = img
    pic = pic
    t1 = t1
    t2 = t2
    c1 = c1
    c2 = c2
    Root = root
    Subs = {sub}
    Docs = {page, leaf}
    Assets = {img, pic}
    Home <- MCHome
    Refs <- MCRefs
    Titles = {t1, t2}
    Contents = {c1, c2}
    Absent = Absent
    Sentinel = Sentinel
    Modes = {"build", "watch"}
    MaxEdits = 1
    MaxRuns = 2
SYMMETRY ValueSymmetry
INVARIANTS
    ListingsAreWritten
    LinksLeadToPages
    AssetPagesAreTheirOwn
    AssetsAreUpToDate
CHECK_DEADLOCK FALSE
