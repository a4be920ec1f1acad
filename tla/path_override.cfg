SPECIFICATION Spec
CONSTANTS
    Publishers = {p1, p2}
    Readers = {r1}
    Static = Static
    None = None
    SourceKind = "publisher"
    OnDemand = FALSE
    IsRegexp = FALSE
    MaxReaders = 0
    TranscoderMayFail = FALSE
    MayTerminate = FALSE
CHECK_DEADLOCK FALSE
INVARIANT StreamIsTranscoded
