----------------------------- MODULE MCGdbLink -----------------------------
(***************************************************************************)
(* GdbLink for TLC: the commands of each run.                              *)
(***************************************************************************)
EXTENDS GdbLink

\* A memory write is the longest command: it fills mRequest to the last byte.
Queries == {<<"?">>, <<"m0,1">>, <<"M0,2:", "00", "00">>}

\* Everything but the monitor command, which is answered by two packets.
AllButMonitor == Queries \cup {<<"vCont;c">>, <<"vCont;s">>}
Control == {<<"?">>, <<"vCont;c">>, <<"vCont;s">>, <<"qRcmd,52">>, <<"R">>}

All == Queries \cup Control

=============================================================================
