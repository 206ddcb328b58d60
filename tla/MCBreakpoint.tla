--------------------------- MODULE MCBreakpoint ---------------------------
(***************************************************************************)
(* Breakpoint for TLC, with the mutated forms of its operations.           *)
(***************************************************************************)
EXTENDS Breakpoint
=============================================================================
