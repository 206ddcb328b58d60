\* Reads of more than a chunk.
CONSTANTS
    EFI_PAGE_SIZE = 3
    Fanout = 2
    PageCount = 4
    RootLevel = 2
    Hole = {}
    Platforms <- DxeOnly
    Layouts <- PlainLayout
    BigBlocks <- NoBig
    Contents <- Distinct
    Byte <- Bytes
    Requests <- LongReads
    SCRATCH_SIZE = 2
    WindbgWorkarounds = FALSE
    MaxCommands = 1
SPECIFICATION Spec
INVARIANT ReadsMemory
CHECK_DEADLOCK FALSE
