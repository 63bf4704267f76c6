\* A service goes away while a resolver looks it up.
CONSTANTS
    Instance = {printer}
    Inet = {v4a, v4b}
    Inet6 = {v6}
    Path <- MCPath
    Strip <- MCStrip
    PrintPath = "ipp/print"
    Answer <- MCAnswer
    NoUri = NoUri
    MaxAddrs = 2
    MaxFindings = 3
    EarlyRemove = TRUE
SYMMETRY Alike
CHECK_DEADLOCK FALSE
SPECIFICATION Spec
INVARIANTS
    DeviceBeingResolved
