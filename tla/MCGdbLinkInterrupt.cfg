\* A perfect line: Ctrl-C right after a resume.
CONSTANTS
    MAX_REQUEST_SIZE = 7
    RebootWorks = TRUE
    Alphabet = {}
    FifoDepth = 0
    MaxFaults = 0
    FaultyLines = {}
    GarbleTo = {"#", "X", "+", "-"}
    Commands <- Control
SPECIFICATION FairSpec
PROPERTY InterruptStops
