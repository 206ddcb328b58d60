\* AARCH64 address registers hold multiples of four.
CONSTANTS
    Arch = "AARCH64"
    MAX_WATCHPOINTS = 4
    Requests <- MiddleByte
    Latent <- Leftover
SPECIFICATION Spec
INVARIANT Watched
