\* The trace file while two devices are open.
CONSTANTS
    Finding <- Findings
    Parsed <- Literals
    LinkLocal = "fe80"
    Ifaces <- OurIfaces
    EnvDevice <- Variable
    Slot = {h1, h2}
    AnyName = AnyName
    ByUri = ByUri
    NoSlot = NoSlot
    OpenName = {1, AnyName}
SPECIFICATION Spec
INVARIANTS
    TraceFollowsTheDevice
