CONSTANTS
    a = a
    b = b
    c = c
    Bids = {a, b, c}
    Section = "Section"
    Kinds = {"Section", "Epistemic"}
    Owners = {"sink"}
    MaxKey = 1
    Related <- MCPairs
SPECIFICATION Spec
INVARIANTS
    BaseTypeOK
    CleanIndexIsExact
    RelationsHaveStates
PROPERTIES
    RemovalsCompact
    ImplementsBeliefGraph
SYMMETRY MCSymmetry
