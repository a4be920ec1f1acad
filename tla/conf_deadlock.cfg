SPECIFICATION ConfSpec
CONSTANTS
    GlobalPatches = {"g1", "g2"}
    PathPatches = {"p1"}
    MaxWrites = 1
    MaxApis = 2
CHECK_DEADLOCK FALSE
INVARIANT NoMutualWait
