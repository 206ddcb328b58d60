---------------------------- MODULE MCExecution ----------------------------
(***************************************************************************)
(* Execution for TLC: the registers of the table.                          *)
(***************************************************************************)
EXTENDS Execution

Reg(n, s, p) == [name |-> n, size |-> s, present |-> p]

\* A general register, the program counter and the flags, and two of the registers
\* at the end of the X64 table that the context does not have.
Table == <<Reg("rax", 1, TRUE), Reg("rip", 1, TRUE), Reg("eflags", 1, TRUE),
           Reg("fctrl", 1, FALSE), Reg("st0", 2, FALSE)>>

AllBuilds == [phase : {"MM", "PEI"}, arch : Architectures]

\* Exceptions with a vector of their own on X64; all come by one on AARCH64.
ExceptionTypes == [X64 |-> <<"step", "fault", "break">>, AARCH64 |-> <<"sync">>]

=============================================================================
