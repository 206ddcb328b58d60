\* Five watchpoints for the four registers of X64.
CONSTANTS
    Arch = "X64"
    MAX_WATCHPOINTS = 4
    Requests <- AlignedX64
    Latent <- Leftover
SPECIFICATION Spec
INVARIANTS TypeOK Watched NothingLeftBehind
PROPERTY RefusedOnlyWhenFull
