SPECIFICATION Spec
CONSTANTS
    small = small
    large = large
    NoValue = NoValue
    Value <- MCValue
    ValueLen <- MCValueLen
    Keys <- FewKeys
    Backings <- FewBackings
    ProviderMay = {"miss"}
INVARIANTS
    ConfirmedAbsent
