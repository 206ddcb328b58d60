--------------------------- MODULE MCWatchpoint ---------------------------
(***************************************************************************)
(* Watchpoint for TLC: what the debugger asks for in each run.             *)
(***************************************************************************)
EXTENDS Watchpoint

W(a, l, t) == [addr |-> a, len |-> l, type |-> t]

\* Naturally aligned objects, each with its own register contents.
AlignedX64 == {W(8, 8, 2), W(8, 4, 2), W(12, 4, 4), W(13, 1, 2), W(14, 2, 3)}

\* A byte in the middle of a word.
MiddleByte == {W(9, 1, 2), W(12, 4, 2)}

\* Registers that were in use, and not, before the debugger.
Leftover == {[enabled |-> e, addr |-> 8, on |-> {"write"}, size |-> 4] : e \in BOOLEAN}

=============================================================================
