SPECIFICATION Spec
CONSTANTS
    x = x
    y = y
    v = v
    Addrs = {a1, a2}
    Slots = {s1}
    Values = {v}
    Infos = {x, y}
    EmptyInfo = EmptyInfo
    Zero = Zero
    Nothing = Nothing
    Ports = {"silt", "reth"}
    Txs = 1
    Others <- FewTries
INVARIANTS MismatchExplained FinalStateKnown MatchMeansAgreement
CHECK_DEADLOCK FALSE
