INIT MCInit
NEXT MCNext
CONSTANTS
    FpFormats = {"h264", "h265", "av1", "mpeg4video", "mpeg1video", "mpeg4audio", "opus", "generic"}
    SeqRange = 3
    RcFormats = {"fmp4", "mpegts"}
    RcVideo = {"h264"}
    RcAudio = {"opus"}
    MaxDts = 6
    MaxRcFaults = 1
    Retentions = {0, 2, 3}
    MaxNow = 5
    MaxFiles = 2
    ChunkStreams = {"a"}
    MessageStreams = {"1"}
    MsgTypes = {"video"}
    BodyLens = {1, 3}
    MsgTimes = {0, 1, 2, 4, 9}
    ExtTs = 4
    TsMod = 8
    NewChunkSize = 3
    MaxMessages = 4
    MdTracks = {0, 1}
    AnalyzePeriod = 2
    MaxMediaTime = 3
CHECK_DEADLOCK FALSE
INVARIANTS
    MediaTypesOK
    KeyFramesDecodable
    RecordingSound
    
    ReadIsWritten
    OwnWriterUnderstood
PROPERTIES
    RTPFlowUnbroken
    RetentionRespected
