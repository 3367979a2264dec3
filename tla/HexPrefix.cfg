SPECIFICATION Spec
CONSTANTS
    Paths <- SomePaths
    Strings <- SomeStrings
INVARIANTS
    PathComesBack
    OnePathOneString
CHECK_DEADLOCK FALSE
