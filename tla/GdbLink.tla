------------------------------ MODULE GdbLink ------------------------------
(***************************************************************************)
(* A debugging session over a serial line: the stub of GdbStub, the line,  *)
(* which may lose or garble a symbol, and the debugger on the host.  The   *)
(* host is GDB as far as the remote protocol shows it: it sends one packet *)
(* at a time, waits for its acknowledgement and resends the packet when    *)
(* that is negative or does not come; acknowledges and throws away a packet *)
(* that comes instead; asks for a garbled or missing response again; and   *)
(* waits without a limit for a running target to stop, unless the user     *)
(* interrupts it with Ctrl-C.                                              *)
(***************************************************************************)
EXTENDS GdbStub

CONSTANTS Commands,      \* bodies of the commands the user gives
          MaxFaults,     \* bound on the symbols lost or garbled
          FaultyLines,   \* which direction they are lost in: "rx", "tx"
          GarbleTo       \* symbols that a garbled symbol turns into

ASSUME CommandsAssumption == Commands \subseteq Seq(Text)
ASSUME FaultsAssumption == MaxFaults \in Nat /\ FaultyLines \subseteq {"rx", "tx"}
ASSUME GarbleAssumption == GarbleTo \subseteq Symbol

VARIABLES hpc,        \* what the host does, see HostState
          hcmd,       \* the command it is about
          interrupted, \* the user has pressed Ctrl-C in this wait
          faults,     \* faults of the line so far, bounded by MaxFaults
          times       \* how often the stub has executed hcmd (history variable)

hostVars == <<hpc, hcmd, interrupted>>
vars == <<stubVars, hostVars, faults, times>>

\* "off": no debugger attached; "idle": the target is known to be stopped;
\* "ack", "reply": waiting for the acknowledgement of hcmd, for its response;
\* "run": waiting for the target to stop.
HostState == {"off", "idle", "ack", "reply", "run"}

\* Commands that GDB expects no response to, only a later stop.
Resumes(c) == c \in {Continue, Step, Reboot}

\* A packet whose checksum does not match when it reaches the host.
Garbled == Packet("garbled")

\* The stub's variables other than the two ends of the line.
stubRest == <<pc, mRequest, mResponse, mResponseAcknowledged, sessionVars,
              mRebootOnContinue, mConnectionOccurred, stepFlag, executed>>

InitLink == /\ Init
            /\ hpc = "off"
            /\ hcmd = <<>>
            /\ interrupted = FALSE
            /\ faults = 0
            /\ times = 0

-----------------------------------------------------------------------------
\* The user gives a command; the first one, on attaching, asks why the target
\* has stopped.
Give(c) ==
    /\ hpc = "idle" \/ (hpc = "off" /\ c = <<"?">>)
    /\ hpc' = "ack"
    /\ hcmd' = c
    /\ times' = 0
    /\ rx' = rx \o Frame(c)
    /\ UNCHANGED <<stubRest, tx, interrupted, faults>>

\* The user interrupts the running target.
Interrupt ==
    /\ hpc = "run"
    /\ ~interrupted
    /\ interrupted' = TRUE
    /\ rx' = Append(rx, "^C")
    /\ UNCHANGED <<stubRest, tx, hpc, hcmd, faults, times>>

\* Waiting for an acknowledgement, or for nothing (no debugger).
ReadWhileUnacknowledged(m) ==
    \/ /\ hpc = "off"
       /\ UNCHANGED <<hpc, rx>>
    \/ /\ hpc = "ack" /\ m = Ack
       /\ hpc' = IF Resumes(hcmd) THEN "run" ELSE "reply"
       /\ UNCHANGED rx
    \/ /\ hpc = "ack" /\ m = Nak
       /\ rx' = rx \o Frame(hcmd)
       /\ UNCHANGED hpc
    \/ /\ hpc = "ack" /\ m.kind = "$"
       /\ rx' = Append(rx, "+")
       /\ UNCHANGED hpc

\* Waiting for the response to hcmd, or for the target to stop.
ReadWhileWaiting(m) ==
    \/ /\ hpc \in {"reply", "run"} /\ m \in {Ack, Nak}
       /\ UNCHANGED <<hpc, rx>>
    \/ /\ hpc \in {"reply", "run"} /\ m = Garbled
       /\ rx' = Append(rx, "-")
       /\ UNCHANGED hpc
    \/ /\ hpc \in {"reply", "run"} /\ m.kind = "$" /\ m # Garbled
       /\ rx' = Append(rx, "+")
       /\ hpc' = IF \/ hpc = "reply" /\ m # Packet("O")
                    \/ hpc = "run" /\ m = Packet(StopReply)
                 THEN "idle" ELSE hpc

HostReads ==
    /\ tx # <<>>
    /\ tx' = Tail(tx)
    /\ ReadWhileUnacknowledged(Head(tx)) \/ ReadWhileWaiting(Head(tx))
    /\ interrupted' = (interrupted /\ hpc' = "run")
    /\ UNCHANGED <<stubRest, hcmd, faults, times>>

\* Nothing is on its way and the stub waits for input.
LineQuiet == rx = <<>> /\ tx = <<>> /\ pc \in {"drain", "program"}

\* The host's timeout is longer than the stub takes to answer.
HostTimeout ==
    /\ LineQuiet
    /\ \/ hpc = "ack" /\ rx' = Frame(hcmd)
       \/ hpc = "reply" /\ rx' = <<"-">>
    /\ UNCHANGED <<stubRest, tx, hostVars, faults, times>>

-----------------------------------------------------------------------------
\* Without the element at position i.
Without(s, i) == SubSeq(s, 1, i - 1) \o SubSeq(s, i + 1, Len(s))

LineFault ==
    /\ faults < MaxFaults
    /\ faults' = faults + 1
    /\ \/ /\ "rx" \in FaultyLines
          /\ \E i \in DOMAIN rx :
                \/ rx' = Without(rx, i)
                \/ \E g \in GarbleTo \ {rx[i]} : rx' = [rx EXCEPT ![i] = g]
          /\ UNCHANGED tx
       \/ /\ "tx" \in FaultyLines
          /\ \E i \in DOMAIN tx :
                \/ tx' = Without(tx, i)
                \/ tx[i].kind = "$" /\ tx' = [tx EXCEPT ![i] = Garbled]
          /\ UNCHANGED rx
    /\ UNCHANGED <<stubRest, hostVars, times>>

-----------------------------------------------------------------------------
OfTarget(A) == /\ A
               /\ times' = IF Accepts THEN times + 1 ELSE times
               /\ UNCHANGED <<hostVars, faults>>

TargetStep == OfTarget(StubStep) \/ OfTarget(ProgramStep)

Next == \/ TargetStep
        \/ \E c \in Commands : Give(c)
        \/ Interrupt
        \/ HostReads
        \/ HostTimeout
        \/ LineFault

\* The stub runs to completion, the timer keeps firing, the firmware boots and
\* a single instruction ends; the host reads what it gets and uses its timeout.
Fairness == /\ WF_vars(OfTarget(StubStep))
            /\ WF_vars(OfTarget(pc = "boot" /\ ProgramStep))
            /\ WF_vars(OfTarget(StepException))
            /\ WF_vars(HostReads)
            /\ WF_vars(HostTimeout)

Spec == InitLink /\ [][Next]_vars
FairSpec == Spec /\ Fairness

-----------------------------------------------------------------------------
\* The stub executes nothing but the command the host is waiting to have
\* acknowledged: no fragment of a packet, no mixture of two, no command of the past
\* (the framing and the checksum of ProcessInputData and ProcessGdbPacket), as long as
\* the line turns no symbol into "$".  An acknowledgement turned into "$" opens a
\* packet that nobody sends; the "-" with which the stub gives up on it may reach the
\* host after its next command, which the host then sends, and the stub executes, twice.
ExecutesOutstanding == [][Accepts => hpc = "ack" /\ executed' = hcmd]_vars

\* A command is executed once, and once more for each fault of the line at most:
\* without faults the retries on both sides repeat nothing.
ExecutedOncePlusFaults == times <= 1 + faults

\* While the host takes the target to be stopped, it is stopped: no retry,
\* late acknowledgement or timeout of the initial breakpoint lets it run behind
\* the host's back, as long as the line turns no symbol into "$" (see above) or "-": a
\* Ctrl-C turned into "-" makes the stub, just resumed, repeat a stop reply whose
\* acknowledgement was lost.
IdleMeansStopped == hpc = "idle" => Stopped /\ ~gRunning

\* The response the host takes for the answer to its command is the answer to
\* that command, also after losses and retries on either side, as long as the line
\* turns no symbol into "$" (see above).
ReplyMatches ==
    [][hpc = "reply" /\ hpc' = "idle"
         => Head(tx) = Packet(IF hcmd = MonitorR THEN "OK" ELSE Answer(hcmd))]_vars

\* Every command sent to a stopped target is acknowledged and, unless it resumes
\* the target, answered, however the line garbles it on the way.
RequestAnswered ==
    (Stopped /\ ~gRunning /\ hpc \in {"ack", "reply"})
        ~> (hpc \in {"idle", "run"} \/ gRunning)

\* A stop of the target reaches the host that waits for it.
StopReported == (hpc = "run" /\ Stopped /\ ~gRunning) ~> hpc = "idle"

\* An initial breakpoint with a timeout does not hold up an unattended machine.
UnattendedBoots == (Stopped /\ EndTime) ~> (~Stopped \/ hpc # "off")

\* The Readme: "Interrupt break | Supported".  Ctrl-C stops the running target.
InterruptStops == interrupted ~> ~interrupted

=============================================================================
