SPECIFICATION LiveSpec
CONSTANTS
    Publishers = {p1}
    Readers = {r1, r2, r3}
    Static = Static
    None = None
    SourceKind = "static"
    OnDemand = TRUE
    IsRegexp = TRUE
    MaxReaders = 1
    TranscoderMayFail = TRUE
    MayTerminate = TRUE
    PathNames = {"cam", "live"}
    MaxPathObjs = 2
    MaxConfLoads = 2
    SsKinds = {"rtsp", "udp", "srt", "rpicamera"}
    MaxSsReloads = 2
    StReaders = {"a", "b"}
    StFormats = {"v", "s"}
    QueueSize = 1
    MaxUnits = 2
    Jobs = {j1, j2, j3}
    JobsMayFail = FALSE
    MaxCrashes = 1
    MaxBrokerRestarts = 1
    NoDelivery = NoDelivery
CHECK_DEADLOCK FALSE
INVARIANTS LiveTypeOK OnDemandConsistent SourceSound ReadersServedInOrder ChannelSurvives
PROPERTIES HeldRequestAnswered ReloadEnds StopReturns LeavingReaderIsReleased AcceptedJobCompletes
