\* The agents of MM and of PEI on X64 and on AARCH64.
CONSTANTS
    Builds <- AllBuilds
    mArchExceptionTypes <- ExceptionTypes
    gRegisterOffsets <- Table
    Size = 3
    HardBreaks = {0}
    FaultOps = {1}
    BreakAt = {1, 2}
    Value = {0}
SPECIFICATION Spec
INVARIANTS TypeOK NoInstructionLost StepIsOne StepsAsked ContextValid WatchdogHeld
INVARIANTS BreakCaught RestoreWorks RegistersPlaced
\* An exception that nobody handles ends the behaviour.
CHECK_DEADLOCK FALSE
