CONSTANTS
    Bids = {1, 2, 3, 4, 5, 6}
    Nets = {1}
    Docs = {2, 3, 6}
    Kinds = {"Section", "Epistemic"}
    Section = "Section"
    Link = "Epistemic"
    Owners = {"sink"}
    MaxKey = 4
    File <- MCFile
    Title <- MCTitle
    Home <- MCHome
    DocKey <- MCDocKey
    Texts <- MCTexts
SPECIFICATION Spec
CHECK_DEADLOCK FALSE
INVARIANTS
    OneParent
    OrderAsText
PROPERTIES
    EventsKeepPathsApart
    PathsFollowMaps
