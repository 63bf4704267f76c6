\* The frontend gives up a page on a feeder and asks for the next one, and the
\* signal comes while sane_start() is at its first lines.
CONSTANTS
    RowBytes = 1
    Bodies <- SomeBodies
    MaxDocs = 2
    NapSteps = 1
    MaxRead = 2
    Threaded = FALSE
    MidPageStart = TRUE
SPECIFICATION Spec
PROPERTIES
    CancelNotLost
