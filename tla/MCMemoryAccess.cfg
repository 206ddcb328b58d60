\* Commands of up to a chunk on every agent, over pages of every kind.
CONSTANTS
    EFI_PAGE_SIZE = 3
    Fanout = 2
    PageCount = 4
    RootLevel = 2
    Hole = {11}
    Platforms <- AllPlatforms
    Layouts <- AllLayouts
    BigBlocks <- AnyBig
    Contents <- Distinct
    Byte <- Bytes
    Requests <- ChunkRequests
    SCRATCH_SIZE = 2
    WindbgWorkarounds = TRUE
    MaxCommands = 2
SPECIFICATION Spec
INVARIANTS TypeOK AttributesKept WritesExactly RefusesOnlyForbidden NoFault ReadsMemory
\* The commands are bounded.
CHECK_DEADLOCK FALSE
