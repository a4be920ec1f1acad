SPECIFICATION Spec
CONSTANTS
    Jobs = {j1, j2, j3}
    JobsMayFail = TRUE
    MaxCrashes = 1
    MaxBrokerRestarts = 1
    NoDelivery = NoDelivery
CHECK_DEADLOCK FALSE
SYMMETRY MCSymmetry
INVARIANTS JobConserved AckCoversProcessed
