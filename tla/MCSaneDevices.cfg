\* Four findings of two devices, and two handles.
CONSTANTS
    Finding <- Findings
    Parsed <- Literals
    LinkLocal = "fe80"
    Ifaces <- OurIfaces
    EnvDevice <- Variable
    Slot = {h1, h2}
    AnyName = AnyName
    ByUri = ByUri
    NoSlot = NoSlot
    OpenName = {1, AnyName}
SPECIFICATION Spec
INVARIANTS
    TypeOK
    FindingsAreFolded
    OneDevicePerUuid
    BestEndpointFirst
    DevsPointIntoKept
    ListsReleased
    TraceIsOfAnOpenDevice
PROPERTIES
    FailureSaysWhy
SYMMETRY Symmetry
