SPECIFICATION Spec
CONSTANTS
    a1 = a1
    a2 = a2
    v = v
    ka = ka
    kv = kv
    Streams <- MCStreams
    Ids <- MCIds
    IdOf <- MCIdOf
    LiveStreams <- OneLiveStream
    VodStreams <- NoVodStreams
    Cmds = {c1, c2}
    NoCmd = NoCmd
    NoStream = NoStream
    Handlers = {h1}
    Consumer = Consumer
    Serial = TRUE
CHECK_DEADLOCK FALSE
INVARIANT ShutdownLeavesNoGhost
