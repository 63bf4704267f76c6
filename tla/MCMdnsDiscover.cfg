\* One printer, announced up to three times by its two service types: room for
\* two of its three addresses.
CONSTANTS
    Instance = {printer}
    Inet = {v4a, v4b}
    Inet6 = {v6}
    Path <- MCPath
    Strip <- MCStrip
    PrintPath = "ipp/print"
    Answer <- MCAnswer
    NoUri = NoUri
    MaxAddrs = 2
    MaxFindings = 3
    EarlyRemove = FALSE
SYMMETRY Alike
CHECK_DEADLOCK FALSE
SPECIFICATION Spec
INVARIANTS
    TypeOK
    DoneExactlyWhenSettled
    UriSuitsTheDevice
