\* Two slots for three addresses: the table fills up; one address is unstable.
CONSTANTS
    MAX_BREAKPOINTS = 2
    Addr = {null, s1, s2}
    NullAddr = null
    Value = {zero, bp, other}
    Zero = zero
    BP = bp
    Stable = {s1, s2}
SPECIFICATION Spec
INVARIANTS TypeOK UniqueActive Transparent RefusedOnlyWhenFull
PROPERTY ImplementsBreakpointSet
