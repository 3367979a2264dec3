SPECIFICATION FairSpec
CONSTANTS
    Addresses = {"a", "b"}
    Blocks = {1, 2}
    Slots = {"s", "t"}
    Values = {0, 1}
    Nodes = {"a", "b", "a2", "to a", "to a2", "to b"}
    StorageAt <- TwoBlocks
    PathAt <- TwoPaths
    Fetches = {f1, f2}
    Patches = {p1}
    RpcMay = {"fail", "break"}
    MayFetch <- AnyFetch
    ProbeChunks = 2
    Retries = 1
    MaxBlockNumber = 2
    Null = Null
    Latest = Latest
INVARIANTS OkMeansCoherent LeafFollowsStorage
PROPERTIES  PatchReturns
CHECK_DEADLOCK FALSE
