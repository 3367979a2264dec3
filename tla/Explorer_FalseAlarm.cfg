SPECIFICATION Spec
CONSTANTS
    Addresses = {"a", "b"}
    Blocks = {1, 2}
    Slots = {"s"}
    Values = {0, 1}
    Nodes = {"a", "b", "a2", "to a", "to a2", "to b"}
    StorageAt <- TwoBlocks
    PathAt <- TwoPaths
    Fetches = {f1, f2}
    Patches = {p1}
    RpcMay = {}
    MayFetch <- AnyFetch
    ProbeChunks = 2
    Retries = 1
    MaxBlockNumber = 1
    Null = Null
    Latest = Latest
INVARIANTS NoFalseAlarm
CHECK_DEADLOCK FALSE
