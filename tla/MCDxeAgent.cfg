\* A boot in which drivers and images come in any order, any handler and any event
\* may be refused, and DebugApp may end the debugger early.
CONSTANTS
    ExceptionCount = 2
    Modules = {"A", "B"}
    NoPdb = "nopdb"
    MaxLoads = 3
    AppTerminates = TRUE
    MayFail = TRUE
SPECIFICATION Spec
INVARIANTS TypeOK CatchesExceptions QuietAtRuntime PollerHeld
PROPERTY StopsAtLoad
\* The end of a boot is the end of the agent.
CHECK_DEADLOCK FALSE
