INIT ServersInit
NEXT ServersNext
CONSTANTS
    PathNames = {"cam", "live"}
    MaxPathObjs = 3
    MaxConfLoads = 2
    MaxMuxers = 3
    RtmpConns = {"r1", "r2"}
    SrtConns = {"s1"}
    MaxSegments = 4
    RtspSessions = {"s1", "s2"}
    WtSessions = {"w1", "w2"}
    Switchable = {"metrics", "rtmps", "hls"}
    Changes <- OneOrTwoOptions
    GlobalPatches = {"g1"}
    PathPatches = {"p1"}
    MaxWrites = 2
    MaxApis = 2
CHECK_DEADLOCK FALSE
INVARIANTS
    ServersTypeOK
    ManagedPathsSound
    MuxersMatchPath
    ClientsLeaveNothing
    SessionAgrees
    ResourcesCurrent
    DivergenceNeedsRace
