\* Any order of calls: sane_start() in the middle of a page too, sane_cancel() from
\* another thread, its test and its store apart. Up to three images in a job: a body left
\* unread is followed by another one, twice.
CONSTANTS
    RowBytes = 2
    Bodies <- EmptyToo
    MaxDocs = 3
    NapSteps = 1
    MaxRead = 3
    Threaded = TRUE
    MidPageStart = TRUE
SPECIFICATION Spec
INVARIANTS
    TypeOK
    NoNullSession
    FeedNeverStarved
    FinishedJobNotCancelled
    JobTypeOK
    OneExchangeAtATime
    NothingLeftRunning
    NoCancelAfterTheEnd
PROPERTIES
    FeederJobSurvives
    OneJobAtATime
    PagesAreServed
