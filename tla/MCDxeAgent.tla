--------------------------- MODULE MCDxeAgent ---------------------------
(***************************************************************************)
(* DxeAgent for TLC; its constants are given in the configurations.        *)
(***************************************************************************)
EXTENDS DxeAgent
=============================================================================
