SPECIFICATION FairSpec
CONSTANTS
    Addrs = {a1}
    Slots = {s1, s2}
    Values = {v}
    Infos = {x}
    EmptyInfo = EmptyInfo
    Zero = Zero
    Nothing = Nothing
    Unnamed = Unnamed
    Blocks <- ChainBlocks
    Parent <- ChainParent
    RequestsMay = {"fail"}
    Attempts = 2
    MaxSpans = 2
INVARIANTS TruthMatches MatchCertifies OkMeansAll
PROPERTIES Answered
CHECK_DEADLOCK FALSE
