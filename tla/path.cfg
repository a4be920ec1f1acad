SPECIFICATION MCSpec
CONSTANTS
    Publishers = {p1, p2}
    Readers = {r1, r2, r3}
    Static = Static
    None = None
    SourceKind = "publisher"
    OnDemand = TRUE
    IsRegexp = TRUE
    MaxReaders = 2
    TranscoderMayFail = FALSE
    MayTerminate = FALSE
CHECK_DEADLOCK FALSE
INVARIANTS ReaderLimit StreamOwned NoIdlePath TranscodeFollowsStream
PROPERTY ImplementsSwitch
