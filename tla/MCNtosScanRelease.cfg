CONSTANTS
    AddrBits = 4
    PagesPerWindow = 2
    ScanWindows = 3
    Build = "release"
    Err = Err
    Panic = Panic
    NoPage = NoPage
SPECIFICATION Spec
\* find returns (or panics) and nothing runs after it.
CHECK_DEADLOCK FALSE
INVARIANT FindMatchesReference
