\* Two lists made of the same findings.
CONSTANTS
    Finding <- Findings
    Parsed <- Literals
    LinkLocal = "fe80"
    Ifaces <- OurIfaces
    EnvDevice <- Variable
    Slot = {h1}
    AnyName = AnyName
    ByUri = ByUri
    NoSlot = NoSlot
    OpenName = {}
SPECIFICATION Spec
PROPERTIES
    ListStaysPut
