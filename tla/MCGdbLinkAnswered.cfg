\* Faults on the way to the stub: requests are answered and stops reported nevertheless.
CONSTANTS
    MAX_REQUEST_SIZE = 7
    RebootWorks = TRUE
    Alphabet = {}
    FifoDepth = 0
    MaxFaults = 1
    FaultyLines = {"rx"}
    GarbleTo = {"#", "X", "+", "-"}
    Commands <- All
SPECIFICATION FairSpec
PROPERTIES RequestAnswered UnattendedBoots StopReported
