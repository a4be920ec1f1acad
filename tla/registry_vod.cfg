SPECIFICATION Spec
CONSTANTS
    a1 = a1
    a2 = a2
    v = v
    ka = ka
    kv = kv
    Streams <- MCStreams
    Ids <- MCIds
    IdOf <- MCIdOf
    LiveStreams <- MCLiveStreams
    VodStreams <- MCVodStreams
    Cmds = {c1, c2}
    NoCmd = NoCmd
    NoStream = NoStream
    Handlers = {h1}
    Consumer = Consumer
    Serial = TRUE
CHECK_DEADLOCK FALSE
SYMMETRY MCSymmetry
INVARIANTS RegistryConsistent ConsumerFindsItsCmd OutputDirPresent
