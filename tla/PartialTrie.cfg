SPECIFICATION FairSpec
CONSTANTS
    small = small
    large = large
    NoValue = NoValue
    Value <- MCValue
    ValueLen <- MCValueLen
    Keys <- NestedKeys
    Backings <- NestedBackings
    ProviderMay = {"miss", "corrupt"}
INVARIANTS
    TypeOK
    Shape
    StubsInPlace
    OneCollapse
    RootCommits
    AnswersTrue
    ErrNamesNode
PROPERTIES
    ImplementsAuthMap
    CallsReturn
