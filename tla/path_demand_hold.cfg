SPECIFICATION FairSpec
CONSTANTS
    Publishers = {p1}
    Readers = {r1, r2}
    Static = Static
    None = None
    SourceKind = "publisher"
    OnDemand = TRUE
    IsRegexp = FALSE
    MaxReaders = 0
    TranscoderMayFail = FALSE
    MayTerminate = FALSE
CHECK_DEADLOCK FALSE
PROPERTY HeldRequestAnswered
