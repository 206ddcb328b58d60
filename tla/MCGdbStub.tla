----------------------------- MODULE MCGdbStub -----------------------------
(***************************************************************************)
(* GdbStub for TLC under any input.                                        *)
(***************************************************************************)
EXTENDS GdbStub

\* Enough symbols to form the packets "vCont;s" (b8) and "qRcmd,52" (8a), and
\* everything that disturbs them.
Input == {"$", "#", "+", "-", "^C", "8", "a", "b", "vCont;s", "qRcmd,52"}

=============================================================================
