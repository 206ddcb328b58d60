\* Any input of the alphabet; the shortest packets fill the request buffer.
CONSTANTS
    MAX_REQUEST_SIZE = 5
    RebootWorks = TRUE
    Alphabet <- Input
    FifoDepth = 1
SPECIFICATION OpenSpec
INVARIANTS TypeOK FramingSound RebootBeforeRun
PROPERTY ExecutesFrame
