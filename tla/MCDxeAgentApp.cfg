\* The debugger is ended by DebugApp.
CONSTANTS
    ExceptionCount = 2
    Modules = {"A"}
    NoPdb = "nopdb"
    MaxLoads = 1
    AppTerminates = TRUE
    MayFail = FALSE
SPECIFICATION Spec
INVARIANT QuietOnceEnded
CHECK_DEADLOCK FALSE
