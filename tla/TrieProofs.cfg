SPECIFICATION Spec
CONSTANTS
    empty = empty
    tiny = tiny
    fits = fits
    over = over
    NoValue = NoValue
    Value <- MCValue
    ValueLen <- MCValueLen
    Keys <- AskedKeys
    Backings <- ProvedBackings
    Empty = {empty}
    MaxSpurious = 2
INVARIANTS
    TypeOK
    Sound
    Complete
    OneProof
    ErrorsTell
    StubsRefused
