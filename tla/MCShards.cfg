SPECIFICATION Spec
CONSTANTS
    Graphs <- PageMoves
    Nets <- MCNets
    Api = 8
    System <- MCSystem
    Entry = 1
    SHARD_THRESHOLD = 4
    NodeSize = 1
    MemoryBudget = 8
    Visited = {1, 3}
    Slots = {s1, s2}
    MaxFaults = 1
INVARIANTS
    BaseIsLoadedShards
    ShardsAreTheGraph
SYMMETRY SlotSymmetry
CHECK_DEADLOCK FALSE
