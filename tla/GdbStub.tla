------------------------------ MODULE GdbStub ------------------------------
(***************************************************************************)
(* The GDB stub of the debug agent (GdbStub/GdbStub.c) and the loops that  *)
(* run it: the session that an exception opens, and the polling of a       *)
(* running target.                                                         *)
(*                                                                         *)
(* The stub reads the transport byte by byte; rx is what has arrived.  A    *)
(* symbol of rx is a framing byte, a hex digit, or a run of command bytes  *)
(* that the stub does not look into while framing ("vCont;c"); Code is its *)
(* byte, or the sum of its bytes, modulo 256.  What the stub writes is the *)
(* sequence tx of acknowledgements and whole packets.                      *)
(*                                                                         *)
(* A timeout of DebugReadByte may strike whenever nothing has arrived.     *)
(***************************************************************************)
EXTENDS Naturals, Sequences

CONSTANTS MAX_REQUEST_SIZE, \* symbols mRequest has room for
          RebootWorks,      \* DebugReboot resets (DXE) or just returns (MM, PEI)
          Alphabet,         \* symbols that arrive in the open system OpenSpec
          FifoDepth         \* bound on the symbols that wait to be read there

ASSUME SizeAssumption == MAX_REQUEST_SIZE \in Nat /\ MAX_REQUEST_SIZE > 4
ASSUME RebootAssumption == RebootWorks \in BOOLEAN

VARIABLES pc,       \* where the target is, see Location
          from,     \* where a session returns to
          rx,       \* symbols that have arrived
          tx,       \* what the stub has sent and the host has not read
          mRequest, \* the part of mRequest that is filled
          mResponse,             \* the last response: what a resend sends
          mResponseAcknowledged,
          gRunning,
          mRebootOnContinue,
          mConnectionOccurred,
          mNextBreakpointTimeout, \* whether a timeout is set for the next break
          EndTime,  \* whether the session has a timeout
          stepFlag, \* TF (X64) or SS (AARCH64) in the interrupted context
          executed  \* last command executed (history variable)

inputVars   == <<rx, mRequest>>
outputVars  == <<tx, mResponse, mResponseAcknowledged>>
sessionVars == <<from, gRunning, mNextBreakpointTimeout, EndTime>>
stubVars == <<pc, inputVars, outputVars, sessionVars, mRebootOnContinue,
              mConnectionOccurred, stepFlag, executed>>

\* "boot": before the debug agent is initialized; "program": the firmware runs;
\* "polling": in DebuggerPollInput; "drain": in the loops of
\* ReportEntryToDebugger; "first", "body": in ProcessInputData, waiting for the
\* first or for a further byte of a packet.
Location == {"boot", "program", "polling", "drain", "first", "body"}

Stopped == pc \in {"drain", "first", "body"}

-----------------------------------------------------------------------------
Digits == <<"0", "1", "2", "3", "4", "5", "6", "7",
            "8", "9", "a", "b", "c", "d", "e", "f">>

Framing == {"$", "#", "+", "-", "^C"}

\* Runs of command bytes: continue, step, stop reason, a memory read, the head
\* and the data bytes of a memory write, monitor R, reboot, an unknown command.
Text == {"vCont;c", "vCont;s", "?", "m0,1", "M0,2:", "00", "qRcmd,52", "R", "X"}

HexDigit == {Digits[i] : i \in 1 .. 16}

Symbol == Framing \cup HexDigit \cup Text

ASSUME OpenAssumption == Alphabet \subseteq Symbol /\ FifoDepth \in Nat

Code == [b \in Symbol |->
    CASE b = "^C" -> 3       [] b = "#" -> 35      [] b = "$" -> 36
      [] b = "+" -> 43       [] b = "-" -> 45      [] b = "?" -> 63
      [] b = "R" -> 82       [] b = "X" -> 88      [] b = "00" -> 96
      [] b = "vCont;c" -> 168  [] b = "vCont;s" -> 184
      [] b = "m0,1" -> 250   [] b = "M0,2:" -> 21  [] b = "qRcmd,52" -> 138
      [] OTHER -> LET i == CHOOSE i \in 1 .. 16 : Digits[i] = b
                  IN  IF i <= 10 THEN 47 + i ELSE 86 + i]

CalculateSum8(s) ==
    LET sum[i \in 0 .. Len(s)] ==
          IF i = 0 THEN 0 ELSE (sum[i - 1] + Code[s[i]]) % 256
    IN  sum[Len(s)]

\* A byte as two hex digits.
HexChars(n) == <<Digits[(n \div 16) + 1], Digits[(n % 16) + 1]>>

\* A packet of the GDB remote protocol: "$", the body, "#", two checksum digits.
Frame(body) == <<"$">> \o body \o <<"#">> \o HexChars(CalculateSum8(body))

Ack == [kind |-> "+"]
Nak == [kind |-> "-"]
Packet(r) == [kind |-> "$", body |-> r]

StopReply == "T05thread:01;"

Response == {StopReply, "OK", "data", "O", "E"}

Message == {Ack, Nak} \cup {Packet(r) : r \in Response}

\* The commands whose execution changes the state of the stub.
Continue  == <<"vCont;c">>
Step      == <<"vCont;s">>
MonitorR  == <<"qRcmd,52">>
Reboot    == <<"R">>

\* The response to every other command, valid or not.  The code looks at the
\* beginning of a command only; GDB sends none that merely begins like another,
\* and one made by faults on the line is answered here as an error.
Answer(body) ==
    CASE body = <<"?">>                 -> StopReply
      [] body = <<"m0,1">>              -> "data"
      [] body = <<"M0,2:", "00", "00">> -> "OK"
      [] OTHER                          -> "E"

-----------------------------------------------------------------------------
\* DebugTransportWrite of one acknowledgement.
SendGdbAck(a) == tx' = Append(tx, a)

\* Mutated form of SendAckAndResponses: the buffer for a resend is not updated.
SendStaleOnResend(a, rs) ==
    /\ tx' = tx \o <<a>> \o [i \in DOMAIN rs |-> Packet(rs[i])]
    /\ mResponseAcknowledged' = IF rs = <<>> THEN mResponseAcknowledged ELSE FALSE
    /\ UNCHANGED mResponse

\* An acknowledgement followed by the responses of a command, each through
\* SendGdbResponse: the last one is what a resend will send.
SendAckAndResponses(a, rs) ==
    /\ tx' = tx \o <<a>> \o [i \in DOMAIN rs |-> Packet(rs[i])]
    /\ mResponse' = IF rs = <<>> THEN mResponse ELSE rs[Len(rs)]
    /\ mResponseAcknowledged' = IF rs = <<>> THEN mResponseAcknowledged ELSE FALSE

\* SendGdbResponse of a new response, outside of a command.
SendGdbResponse(r) ==
    /\ tx' = Append(tx, Packet(r))
    /\ mResponse' = r
    /\ mResponseAcknowledged' = FALSE

\* The state of the stub's static variables at power on.
InitStub ==
    /\ pc = "boot"
    /\ from = "program"
    /\ mRequest = <<>>
    /\ mResponse = ""
    /\ mResponseAcknowledged = FALSE
    /\ gRunning = TRUE
    /\ mRebootOnContinue = FALSE
    /\ mConnectionOccurred = FALSE
    /\ mNextBreakpointTimeout = FALSE
    /\ EndTime = FALSE
    /\ stepFlag = FALSE

Init == /\ InitStub
        /\ rx = <<>>
        /\ tx = <<>>
        /\ executed = <<>>

\* DebugReboot, where it works: every static variable is initialized again.
Reset == /\ pc' = "boot"
         /\ from' = "program"
         /\ mRequest' = <<>>
         /\ mResponse' = ""
         /\ mResponseAcknowledged' = FALSE
         /\ gRunning' = TRUE
         /\ mRebootOnContinue' = FALSE
         /\ mConnectionOccurred' = FALSE
         /\ mNextBreakpointTimeout' = FALSE
         /\ EndTime' = FALSE
         /\ stepFlag' = FALSE

-----------------------------------------------------------------------------
\* Mutated form of ReportEntryToDebugger: the stop is not announced.
EnterSilently(isBreakpoint, timeout, returnTo) ==
    /\ pc' = "drain"
    /\ from' = returnTo
    /\ gRunning' = FALSE
    /\ EndTime' = (isBreakpoint /\ timeout)
    /\ mNextBreakpointTimeout' = (~isBreakpoint /\ timeout)
    /\ UNCHANGED outputVars

\* Entering ReportEntryToDebugger: a new session, announced to the host.  The
\* timeout is taken up by breakpoint exceptions only.
ReportEntryToDebugger(isBreakpoint, timeout, returnTo) ==
    /\ pc' = "drain"
    /\ from' = returnTo
    /\ gRunning' = FALSE
    /\ EndTime' = (isBreakpoint /\ timeout)
    /\ mNextBreakpointTimeout' = (~isBreakpoint /\ timeout)
    /\ SendGdbResponse(StopReply)

\* InitializeDebugAgent ends with the initial breakpoint, if one is configured,
\* with or without a timeout.
DebuggerInitialBreakpoint(timeout) ==
    /\ pc = "boot"
    /\ ReportEntryToDebugger(TRUE, timeout, "program")
    /\ UNCHANGED <<inputVars, mRebootOnContinue, mConnectionOccurred, stepFlag,
                   executed>>

SkipInitialBreakpoint ==
    /\ pc = "boot"
    /\ pc' = "program"
    /\ UNCHANGED <<inputVars, outputVars, sessionVars, mRebootOnContinue,
                   mConnectionOccurred, stepFlag, executed>>

\* The program runs into a breakpoint or a fault.  The step flag of the context
\* stays as it is: DebuggerExceptionHandler clears it for debug exceptions only.
ProgramException(isBreakpoint) ==
    /\ pc = "program"
    /\ ReportEntryToDebugger(isBreakpoint, mNextBreakpointTimeout, "program")
    /\ UNCHANGED <<inputVars, mRebootOnContinue, mConnectionOccurred, stepFlag, executed>>

\* The debug exception after one instruction.  A step out of a session that a Ctrl-C
\* opened is the program's here too: it strikes when DebuggerPollInput is done.
StepException ==
    /\ pc = "program"
    /\ stepFlag
    /\ stepFlag' = FALSE
    /\ ReportEntryToDebugger(FALSE, mNextBreakpointTimeout, "program")
    /\ UNCHANGED <<inputVars, mRebootOnContinue, mConnectionOccurred, executed>>

\* The timer event (or an SMI entry) calls DebuggerPollInput.
DebugAgentTimerRoutine ==
    /\ pc = "program"
    /\ rx # <<>>
    /\ pc' = "polling"
    /\ UNCHANGED <<inputVars, outputVars, sessionVars, mRebootOnContinue,
                   mConnectionOccurred, stepFlag, executed>>

\* DebuggerPollInput eats all that has arrived; Ctrl-C opens a session, after
\* which the loop goes on.
DebuggerPollInput ==
    /\ pc = "polling"
    /\ \/ /\ rx # <<>>
          /\ rx' = Tail(rx)
          /\ \/ /\ Head(rx) = "^C"
                /\ ReportEntryToDebugger(TRUE, mNextBreakpointTimeout, "polling")
             \/ /\ Head(rx) # "^C"
                /\ UNCHANGED <<pc, outputVars, sessionVars>>
       \/ /\ rx = <<>>
          /\ pc' = "program"
          /\ UNCHANGED <<rx, outputVars, sessionVars>>
    /\ UNCHANGED <<mRequest, mRebootOnContinue, mConnectionOccurred, stepFlag,
                   executed>>

-----------------------------------------------------------------------------
\* The inner loop of the session: DebugTransportPoll has something.
EnterProcessInputData ==
    /\ pc = "drain"
    /\ rx # <<>>
    /\ pc' = "first"
    /\ UNCHANGED <<inputVars, outputVars, sessionVars, mRebootOnContinue,
                   mConnectionOccurred, stepFlag, executed>>

\* Mutated forms of LeaveSession: the timeout also ends a session with a
\* debugger; the timeout ends no session.  Both forget the requested reboot.
LeaveEvenIfConnected ==
    /\ pc = "drain"
    /\ rx = <<>>
    /\ gRunning \/ EndTime
    /\ pc' = from
    /\ gRunning' = TRUE
    /\ UNCHANGED <<inputVars, outputVars, from, mNextBreakpointTimeout, EndTime,
                   mRebootOnContinue, mConnectionOccurred, stepFlag, executed>>

LeaveOnlyOnCommand ==
    /\ pc = "drain"
    /\ rx = <<>>
    /\ gRunning
    /\ pc' = from
    /\ UNCHANGED <<inputVars, outputVars, sessionVars, mRebootOnContinue,
                   mConnectionOccurred, stepFlag, executed>>

\* The end of the session, once nothing more arrives: a resume command was
\* executed, or the timeout passed before any packet was accepted.
LeaveSession ==
    /\ pc = "drain"
    /\ rx = <<>>
    /\ gRunning \/ (~mConnectionOccurred /\ EndTime)
    /\ \/ /\ mRebootOnContinue /\ RebootWorks
          /\ Reset
          /\ UNCHANGED <<rx, tx>>
       \/ /\ ~(mRebootOnContinue /\ RebootWorks)
          /\ pc' = from
          /\ gRunning' = TRUE
          /\ UNCHANGED <<inputVars, outputVars, from, mNextBreakpointTimeout, EndTime,
                         mRebootOnContinue, mConnectionOccurred, stepFlag>>
    /\ UNCHANGED executed

\* ProcessInputData, first byte: acknowledgements, the start of a packet, or
\* something to throw away.
ReadFirstByte ==
    /\ pc = "first"
    /\ rx # <<>>
    /\ rx' = Tail(rx)
    /\ \/ /\ Head(rx) = "-" /\ ~mResponseAcknowledged
          /\ SendGdbResponse(mResponse)
          /\ UNCHANGED <<pc, mRequest>>
       \/ /\ Head(rx) = "+"
          /\ mResponseAcknowledged' = TRUE
          /\ UNCHANGED <<pc, mRequest, tx, mResponse>>
       \/ /\ Head(rx) = "$"
          /\ pc' = "body"
          /\ mRequest' = <<"$">>
          /\ UNCHANGED outputVars
       \/ /\ Head(rx) \notin {"+", "$"}
          /\ ~(Head(rx) = "-" /\ ~mResponseAcknowledged)
          /\ UNCHANGED <<pc, mRequest, outputVars>>
    /\ UNCHANGED <<sessionVars, mRebootOnContinue, mConnectionOccurred, stepFlag,
                   executed>>

\* Mutated form of FirstByteTimeout: it sends "-", as BodyByteTimeout does.
FirstByteTimeoutNak ==
    /\ pc = "first"
    /\ rx = <<>>
    /\ pc' = "drain"
    /\ SendGdbAck(Nak)
    /\ UNCHANGED <<inputVars, mResponse, mResponseAcknowledged, sessionVars,
                   mRebootOnContinue, mConnectionOccurred, stepFlag, executed>>

\* ProcessInputData, first byte: nothing within 10 ms.
FirstByteTimeout ==
    /\ pc = "first"
    /\ rx = <<>>
    /\ pc' = "drain"
    /\ UNCHANGED <<inputVars, outputVars, sessionVars, mRebootOnContinue,
                   mConnectionOccurred, stepFlag, executed>>

\* Mutated form of PacketEnds: off by one in the least length.
PacketEndsLate(p) == Len(p) >= 5 /\ p[Len(p) - 2] = "#"

\* "#" in the third place from the end; the packet has at least four bytes.
PacketEnds(p) == Len(p) >= 4 /\ p[Len(p) - 2] = "#"

\* The body of a packet, up to its first "#".
ChecksumIndex(p) == CHOOSE i \in 2 .. Len(p) :
                        p[i] = "#" /\ \A j \in 2 .. i - 1 : p[j] # "#"

Body(p) == SubSeq(p, 2, ChecksumIndex(p) - 1)

\* Mutated form of ChecksumMatches: only the presence of a checksum is tested.
ChecksumPresent(p) == ChecksumIndex(p) + 2 <= Len(p)

\* ProcessGdbPacket accepts a packet: two hex digits that are the sum of the body.
ChecksumMatches(p) ==
    LET i == ChecksumIndex(p)
    IN  /\ i + 2 <= Len(p)
        /\ <<p[i + 1], p[i + 2]>> = HexChars(CalculateSum8(Body(p)))

\* vCont: resumes the target, and is not answered before the next stop.
ProcessVCommand(body) ==
    /\ gRunning' = TRUE
    /\ stepFlag' = (stepFlag \/ body = Step)
    /\ SendAckAndResponses(Ack, <<>>)
    /\ UNCHANGED mRebootOnContinue

\* Two responses, one right after the other.
ProcessMonitorCmd ==
    /\ mRebootOnContinue' = TRUE
    /\ SendAckAndResponses(Ack, <<"O", "OK">>)
    /\ UNCHANGED <<gRunning, stepFlag>>

\* ExecuteGdbCommand, for a command after which the loop of ProcessInputData
\* goes on.
ExecuteGdbCommand(body) ==
    \/ body \in {Continue, Step} /\ ProcessVCommand(body)
    \/ body = MonitorR /\ ProcessMonitorCmd
    \/ /\ body \notin {Continue, Step, MonitorR}
       /\ SendAckAndResponses(Ack, <<Answer(body)>>)
       /\ UNCHANGED <<gRunning, stepFlag, mRebootOnContinue>>

\* ProcessGdbPacket accepts packet p, acknowledges it and executes its command.
AcceptPacket(p) ==
    LET body == Body(p)
    IN  /\ executed' = body
        /\ \/ /\ body = Reboot /\ RebootWorks
              /\ Reset
              /\ SendGdbAck(Ack)
           \/ /\ ~(body = Reboot /\ RebootWorks)
              /\ pc' = "first"
              /\ mRequest' = <<>>
              /\ mConnectionOccurred' = TRUE
              /\ ExecuteGdbCommand(body)
              /\ UNCHANGED <<from, mNextBreakpointTimeout, EndTime>>

\* ProcessGdbPacket refuses packet p.
RefusePacket ==
    /\ SendGdbAck(Nak)
    /\ pc' = "first"
    /\ mRequest' = <<>>
    /\ UNCHANGED <<mResponse, mResponseAcknowledged, sessionVars, mRebootOnContinue,
                   mConnectionOccurred, stepFlag, executed>>

\* Mutated forms of RequestFull: one byte too early, and one too late.
RequestAlmostFull == Len(mRequest) + 1 >= MAX_REQUEST_SIZE
RequestOverfull == Len(mRequest) > MAX_REQUEST_SIZE

\* mRequest has no room for another byte.
RequestFull == Len(mRequest) >= MAX_REQUEST_SIZE

\* ProcessInputData, a further byte: no room, or one more byte and, if that
\* completes the packet, ProcessGdbPacket.
ReadBodyByte ==
    /\ pc = "body"
    /\ \/ /\ RequestFull
          /\ SendGdbAck(Nak)
          /\ pc' = "drain"
          /\ mRequest' = <<>>
          /\ UNCHANGED <<rx, mResponse, mResponseAcknowledged, sessionVars,
                         mRebootOnContinue, mConnectionOccurred, stepFlag, executed>>
       \/ /\ ~RequestFull
          /\ rx # <<>>
          /\ rx' = Tail(rx)
          /\ LET p == Append(mRequest, Head(rx))
             IN  \/ /\ ~PacketEnds(p)
                    /\ mRequest' = p
                    /\ UNCHANGED <<pc, outputVars, sessionVars, mRebootOnContinue,
                                   mConnectionOccurred, stepFlag, executed>>
                 \/ PacketEnds(p) /\ ~ChecksumMatches(p) /\ RefusePacket
                 \/ PacketEnds(p) /\ ChecksumMatches(p) /\ AcceptPacket(p)

\* ProcessInputData, a further byte: nothing within one second.
BodyByteTimeout ==
    /\ pc = "body"
    /\ rx = <<>>
    /\ ~RequestFull
    /\ SendGdbAck(Nak)
    /\ pc' = "drain"
    /\ mRequest' = <<>>
    /\ UNCHANGED <<rx, mResponse, mResponseAcknowledged, sessionVars,
                   mRebootOnContinue, mConnectionOccurred, stepFlag, executed>>

-----------------------------------------------------------------------------
SessionStep == \/ EnterProcessInputData
               \/ ReadFirstByte
               \/ FirstByteTimeout
               \/ ReadBodyByte
               \/ BodyByteTimeout

ProgramStep == \/ SkipInitialBreakpoint
               \/ \E t \in BOOLEAN : DebuggerInitialBreakpoint(t)
               \/ \E b \in BOOLEAN : ProgramException(b)
               \/ StepException

StubStep == \/ SessionStep
            \/ LeaveSession
            \/ DebuggerPollInput
            \/ DebugAgentTimerRoutine

-----------------------------------------------------------------------------
\* The open system: any symbols arrive at any time, and the output is taken away.
Arrive(b) ==
    /\ Len(rx) < FifoDepth
    /\ tx = <<>>
    /\ rx' = Append(rx, b)
    /\ UNCHANGED <<pc, mRequest, outputVars, sessionVars, mRebootOnContinue,
                   mConnectionOccurred, stepFlag, executed>>

Transmit ==
    /\ tx # <<>>
    /\ tx' = <<>>
    /\ UNCHANGED <<pc, inputVars, mResponse, mResponseAcknowledged, sessionVars,
                   mRebootOnContinue, mConnectionOccurred, stepFlag, executed>>

OpenNext == StubStep \/ ProgramStep \/ Transmit \/ \E b \in Alphabet : Arrive(b)

OpenSpec == Init /\ [][OpenNext]_stubVars

TypeOK == /\ pc \in Location
          /\ from \in {"program", "polling"}
          /\ rx \in Seq(Symbol)
          /\ tx \in Seq(Message)
          /\ mRequest \in Seq(Symbol) /\ Len(mRequest) <= MAX_REQUEST_SIZE
          /\ mResponse \in Response \cup {""}
          /\ Stopped => mResponse # ""
          /\ mResponseAcknowledged \in BOOLEAN
          /\ gRunning \in BOOLEAN
          /\ mRebootOnContinue \in BOOLEAN
          /\ mConnectionOccurred \in BOOLEAN
          /\ mNextBreakpointTimeout \in BOOLEAN
          /\ EndTime \in BOOLEAN
          /\ stepFlag \in BOOLEAN
          /\ executed \in Seq(Symbol)

\* Whatever arrives, the loop of ProcessInputData never runs past a "#": the
\* first "#" of the packet handed to ProcessGdbPacket is the third symbol from
\* its end, so that the checksum is always complete.
FramingSound ==
    pc = "body" => /\ mRequest # <<>>
                   /\ mRequest[1] = "$"
                   /\ \A i \in 2 .. Len(mRequest) - 2 : mRequest[i] # "#"

\* After "monitor R" the program does not run again before the reboot, however
\* the session ends, and the reboot forgets the request.
RebootBeforeRun == mRebootOnContinue /\ RebootWorks => Stopped

\* The stub acknowledges a packet, and executes it.
Accepts == Len(tx') > Len(tx) /\ tx'[Len(tx) + 1] = Ack

\* Whatever arrives, ProcessGdbPacket executes a command only when the symbols
\* read since the last "$" are, one after the other, exactly the packet of that
\* command: nothing is skipped, joined or left over, and the body holds no "#".
ExecutesFrame ==
    [][Accepts => /\ rx # <<>>
                  /\ Append(mRequest, Head(rx)) = Frame(executed')
                  /\ \A i \in DOMAIN executed' : executed'[i] # "#"]_stubVars

=============================================================================
