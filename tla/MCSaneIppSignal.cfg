\* When a cancel counts, and what must happen: sane_cancel() from a signal
\* handler, a frontend that reads a page to its end before it starts another
\* one, and a service that may ask to be polled for ever.
CONSTANTS
    RowBytes = 1
    Bodies <- SomeBodies
    MaxDocs = 2
    NapSteps = 1
    MaxRead = 2
    Threaded = FALSE
    MidPageStart = FALSE
SPECIFICATION FairSpec
INVARIANTS
    CancelHitsItsPage
PROPERTIES
    CancelNotLost
    CancelEndsTheCall
    CallsReturn
