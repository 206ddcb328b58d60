\* Two faults anywhere on the line.  A lost stop reply leaves host and stub waiting.
\* No symbol turns into "$" or "-": one "$" breaks all but ExecutedOncePlusFaults, two
\* faults with a "-" break IdleMeansStopped (README, section 3).
CONSTANTS
    MAX_REQUEST_SIZE = 7
    RebootWorks = TRUE
    Alphabet = {}
    FifoDepth = 0
    MaxFaults = 2
    FaultyLines = {"rx", "tx"}
    GarbleTo = {"#", "X", "+"}
    Commands <- AllButMonitor
SPECIFICATION FairSpec
CHECK_DEADLOCK FALSE
INVARIANTS ExecutedOncePlusFaults IdleMeansStopped
PROPERTIES ReplyMatches ExecutesOutstanding
