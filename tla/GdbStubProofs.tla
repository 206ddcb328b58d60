--------------------------- MODULE GdbStubProofs ---------------------------
(***************************************************************************)
(* Proofs about GdbStub: what holds of the stub whatever arrives on the    *)
(* transport, for any size of the request buffer and any alphabet.         *)
(***************************************************************************)
EXTENDS GdbStub, SequenceTheorems, TLAPS

\* The program runs only while gRunning says so: no session is left behind open.
RunningWhenReleased == pc \in {"boot", "program", "polling"} => gRunning

\* The inductive invariant.  Each part is inductive given the types; the framing
\* is needed for the type of the command that is executed.
StubInv == TypeOK /\ FramingSound /\ RebootBeforeRun /\ RunningWhenReleased

USE SizeAssumption, RebootAssumption, OpenAssumption

LEMMA InitStubInv == Init => StubInv
<1> SUFFICES ASSUME Init PROVE StubInv
    OBVIOUS
<1>1. TypeOK
  <2>1. \A S : <<>> \in Seq(S) /\ Len(<<>>) <= MAX_REQUEST_SIZE
      OBVIOUS
  <2> QED
      BY <2>1 DEF Init, InitStub, TypeOK, Location, Stopped
<1>2. FramingSound /\ RebootBeforeRun /\ RunningWhenReleased
    BY DEF Init, InitStub, FramingSound, RebootBeforeRun, RunningWhenReleased
<1> QED
    BY <1>1, <1>2 DEF StubInv

\* What SendGdbAck, SendGdbResponse and SendAckAndResponses put on the line.
LEMMA SendAckType ==
    ASSUME tx \in Seq(Message), NEW a \in {Ack, Nak}, SendGdbAck(a)
    PROVE  tx' \in Seq(Message)
<1>1. a \in Message
    BY DEF Message
<1> QED
    BY <1>1 DEF SendGdbAck

LEMMA SendResponseType ==
    ASSUME tx \in Seq(Message), NEW r \in Response, SendGdbResponse(r)
    PROVE  /\ tx' \in Seq(Message)
           /\ mResponse' = r
           /\ mResponseAcknowledged' = FALSE
<1>1. Packet(r) \in Message
    BY DEF Message
<1> QED
    BY <1>1 DEF SendGdbResponse

LEMMA ResponsesType ==
    ASSUME tx \in Seq(Message), NEW rs \in Seq(Response),
           SendAckAndResponses(Ack, rs)
    PROVE  /\ tx' \in Seq(Message)
           /\ mResponse' \in Response \cup {mResponse}
           /\ mResponseAcknowledged' \in {FALSE, mResponseAcknowledged}
<1> DEFINE ps == [i \in DOMAIN rs |-> Packet(rs[i])]
<1>1. \A i \in 1 .. Len(rs) : Packet(rs[i]) \in Message
    BY DEF Message
<1>2. DOMAIN rs = 1 .. Len(rs) /\ Len(rs) \in Nat
    OBVIOUS
<1>3. ps \in Seq(Message)
    BY <1>1, <1>2
<1>4. Ack \in Message
    BY DEF Message
<1>5. <<Ack>> \in Seq(Message)
    BY <1>4
<1> HIDE DEF ps
<1>6. tx' = tx \o <<Ack>> \o ps
    BY DEF SendAckAndResponses, ps
<1>7. tx' \in Seq(Message)
    BY <1>3, <1>5, <1>6
<1>8. mResponse' \in Response \cup {mResponse}
    BY <1>2 DEF SendAckAndResponses
<1> QED
    BY <1>7, <1>8 DEF SendAckAndResponses

\* The loop of ProcessInputData stops at the first "#": there ProcessGdbPacket
\* finds the end of the body.
LEMMA BodyType ==
    ASSUME NEW p \in Seq(Symbol), PacketEnds(p),
           \A i \in 2 .. Len(p) - 3 : p[i] # "#"
    PROVE  ChecksumIndex(p) = Len(p) - 2 /\ Body(p) \in Seq(Symbol)
<1> DEFINE Q(i) == p[i] = "#" /\ \A j \in 2 .. i - 1 : p[j] # "#"
<1>0. Len(p) \in Nat /\ Len(p) >= 4 /\ p[Len(p) - 2] = "#"
    BY DEF PacketEnds
<1>1. Len(p) - 2 \in 2 .. Len(p) /\ Q(Len(p) - 2)
    BY <1>0
<1>2. \A i \in 2 .. Len(p) : Q(i) => i = Len(p) - 2
    BY <1>0
<1>3. ChecksumIndex(p) = CHOOSE i \in 2 .. Len(p) : Q(i)
    BY DEF ChecksumIndex
<1> HIDE DEF Q
<1>4. ChecksumIndex(p) = Len(p) - 2
    BY <1>1, <1>2, <1>3
<1>5. SubSeq(p, 2, Len(p) - 3) \in Seq(Symbol)
    BY <1>0
<1>6. ChecksumIndex(p) - 1 = Len(p) - 3
    BY <1>4, <1>0
<1> QED
    BY <1>4, <1>5, <1>6 DEF Body

\* A new session is consistent, wherever it was opened from.
LEMMA EntryInv ==
    ASSUME StubInv, NEW b \in BOOLEAN, NEW t \in BOOLEAN,
           NEW w \in {"program", "polling"},
           ReportEntryToDebugger(b, t, w),
           rx' \in Seq(Symbol), stepFlag' \in BOOLEAN,
           UNCHANGED <<mRequest, mRebootOnContinue, mConnectionOccurred, executed>>
    PROVE  StubInv'
<1>1. StopReply \in Response /\ StopReply # ""
    BY DEF Response, StopReply
<1>2. /\ tx' \in Seq(Message) /\ mResponse' = StopReply
      /\ mResponseAcknowledged' = FALSE
    BY <1>1, SendResponseType DEF ReportEntryToDebugger, StubInv, TypeOK
<1>3. TypeOK'
    BY <1>1, <1>2 DEF ReportEntryToDebugger, StubInv, TypeOK, Location
<1>4. FramingSound' /\ RebootBeforeRun' /\ RunningWhenReleased'
    BY DEF ReportEntryToDebugger, FramingSound, RebootBeforeRun, RunningWhenReleased, Stopped
<1> QED
    BY <1>3, <1>4 DEF StubInv

\* A reset is as good as a power on.
LEMMA ResetInv ==
    ASSUME StubInv, Reset, rx' \in Seq(Symbol), tx' \in Seq(Message),
           executed' \in Seq(Symbol)
    PROVE  StubInv'
<1>1. \A S : <<>> \in Seq(S) /\ Len(<<>>) <= MAX_REQUEST_SIZE
    OBVIOUS
<1>2. TypeOK'
    BY <1>1 DEF Reset, TypeOK, Location, Stopped
<1>3. FramingSound' /\ RebootBeforeRun' /\ RunningWhenReleased'
    BY DEF Reset, FramingSound, RebootBeforeRun, RunningWhenReleased
<1> QED
    BY <1>2, <1>3 DEF StubInv

LEMMA AcceptInv ==
    ASSUME StubInv, pc = "body", NEW p \in Seq(Symbol), PacketEnds(p),
           \A i \in 2 .. Len(p) - 3 : p[i] # "#",
           AcceptPacket(p), rx' \in Seq(Symbol)
    PROVE  StubInv'
<1> DEFINE body == Body(p)
<1>1. body \in Seq(Symbol) /\ executed' = body
    BY BodyType DEF AcceptPacket
<1>2. CASE body = Reboot /\ RebootWorks
  <2>1. Reset /\ SendGdbAck(Ack)
      BY <1>2 DEF AcceptPacket
  <2>2. tx' \in Seq(Message)
      BY <2>1, SendAckType DEF StubInv, TypeOK
  <2> QED
      BY <2>1, <2>2, <1>1, ResetInv
<1>3. CASE ~(body = Reboot /\ RebootWorks)
  <2>1. /\ pc' = "first"
        /\ mRequest' = <<>>
        /\ mConnectionOccurred' = TRUE
        /\ ExecuteGdbCommand(body)
        /\ UNCHANGED <<from, mNextBreakpointTimeout, EndTime>>
      BY <1>3 DEF AcceptPacket
  <2>2. Answer(body) \in Response /\ "" \notin Response
      BY DEF Answer, Response, StopReply
  <2>3. /\ <<>> \in Seq(Response) /\ <<"O", "OK">> \in Seq(Response)
        /\ <<Answer(body)>> \in Seq(Response)
    <3>1. \A S : \A u, v \in S : <<>> \in Seq(S) /\ <<u>> \in Seq(S) /\ <<u, v>> \in Seq(S)
        OBVIOUS
    <3>2. "O" \in Response /\ "OK" \in Response
        BY DEF Response
    <3> QED
        BY <2>2, <3>1, <3>2
  <2>4. PICK rs \in Seq(Response) : SendAckAndResponses(Ack, rs)
      BY <2>1, <2>3 DEF ExecuteGdbCommand, ProcessVCommand, ProcessMonitorCmd
  <2>5. /\ tx' \in Seq(Message)
        /\ mResponse' \in Response \cup {mResponse}
        /\ mResponseAcknowledged' \in {FALSE, mResponseAcknowledged}
      BY <2>4, ResponsesType DEF StubInv, TypeOK
  <2>6. /\ gRunning' \in BOOLEAN
        /\ stepFlag' \in BOOLEAN
        /\ mRebootOnContinue' \in BOOLEAN
    <3>0. /\ gRunning \in BOOLEAN /\ stepFlag \in BOOLEAN
          /\ mRebootOnContinue \in BOOLEAN
        BY DEF StubInv, TypeOK
    <3>1. CASE ProcessVCommand(body)
        BY <3>0, <3>1, Zenon DEF ProcessVCommand
    <3>2. CASE ProcessMonitorCmd
        BY <3>0, <3>2 DEF ProcessMonitorCmd
    <3>3. CASE UNCHANGED <<gRunning, stepFlag, mRebootOnContinue>>
        BY <3>0, <3>3
    <3>4. \/ ProcessVCommand(body)
          \/ ProcessMonitorCmd
          \/ UNCHANGED <<gRunning, stepFlag, mRebootOnContinue>>
        BY <2>1, Zenon DEF ExecuteGdbCommand
    <3> QED
        BY <3>1, <3>2, <3>3, <3>4
  <2>7. \A S : <<>> \in Seq(S) /\ Len(<<>>) <= MAX_REQUEST_SIZE
      OBVIOUS
  <2>8. mResponse' \in Response \cup {""} /\ mResponse' # ""
      BY <2>2, <2>5 DEF StubInv, TypeOK, Stopped
  <2>9. TypeOK'
      BY <1>1, <2>1, <2>5, <2>6, <2>7, <2>8 DEF StubInv, TypeOK, Location
  <2>10. FramingSound' /\ RebootBeforeRun' /\ RunningWhenReleased'
      BY <2>1 DEF FramingSound, RebootBeforeRun, RunningWhenReleased, Stopped
  <2> QED
      BY <2>9, <2>10 DEF StubInv
<1> QED
    BY <1>2, <1>3

\* A step within a session that touches the request, the line and the last
\* response only.
LEMMA WithinSessionInv ==
    ASSUME StubInv, Stopped, pc' \in {"drain", "first", "body"}, FramingSound',
           rx' \in Seq(Symbol), tx' \in Seq(Message),
           mRequest' \in Seq(Symbol), Len(mRequest') <= MAX_REQUEST_SIZE,
           mResponse' = mResponse, mResponseAcknowledged' \in BOOLEAN,
           UNCHANGED <<sessionVars, mRebootOnContinue, mConnectionOccurred,
                       stepFlag, executed>>
    PROVE  StubInv'
<1>1. mResponse' \in Response \cup {""} /\ mResponse' # ""
    BY DEF StubInv, TypeOK
<1>2. TypeOK'
    BY <1>1 DEF StubInv, TypeOK, Location, sessionVars
<1>3. RebootBeforeRun' /\ RunningWhenReleased'
    BY DEF RebootBeforeRun, RunningWhenReleased, Stopped
<1> QED
    BY <1>2, <1>3 DEF StubInv

LEMMA EmptyRequest == <<>> \in Seq(Symbol) /\ Len(<<>>) <= MAX_REQUEST_SIZE
<1>1. \A S : <<>> \in Seq(S) /\ Len(<<>>) <= MAX_REQUEST_SIZE
    OBVIOUS
<1> QED
    BY <1>1

\* A negative acknowledgement gives up the request.
LEMMA NakInv ==
    ASSUME StubInv, Stopped, pc' \in {"drain", "first"}, rx' \in Seq(Symbol),
           SendGdbAck(Nak), mRequest' = <<>>,
           UNCHANGED <<mResponse, mResponseAcknowledged, sessionVars,
                       mRebootOnContinue, mConnectionOccurred, stepFlag, executed>>
    PROVE  StubInv'
<1>1. tx' \in Seq(Message)
    BY SendAckType DEF StubInv, TypeOK
<1>2. mRequest' \in Seq(Symbol) /\ Len(mRequest') <= MAX_REQUEST_SIZE
    BY EmptyRequest
<1>3. mResponseAcknowledged' \in BOOLEAN
    BY DEF StubInv, TypeOK
<1>4. FramingSound'
    BY DEF FramingSound
<1> QED
    BY <1>1, <1>2, <1>3, <1>4, WithinSessionInv

LEMMA ReadFirstByteInv == ASSUME StubInv, ReadFirstByte PROVE StubInv'
<1>0. /\ pc = "first" /\ Stopped /\ rx' = Tail(rx)
      /\ UNCHANGED <<sessionVars, mRebootOnContinue, mConnectionOccurred,
                     stepFlag, executed>>
    BY DEF ReadFirstByte, Stopped
<1>1. rx' \in Seq(Symbol)
  <2>1. rx \in Seq(Symbol) /\ rx # <<>>
      BY DEF ReadFirstByte, StubInv, TypeOK
  <2> QED
      BY <1>0, <2>1
<1>2. /\ tx \in Seq(Message) /\ mResponse \in Response
      /\ mResponseAcknowledged \in BOOLEAN
      /\ mRequest \in Seq(Symbol) /\ Len(mRequest) <= MAX_REQUEST_SIZE
    BY <1>0 DEF StubInv, TypeOK
<1>3. /\ tx' \in Seq(Message) /\ mResponse' = mResponse
      /\ mResponseAcknowledged' \in BOOLEAN
  <2>1. CASE SendGdbResponse(mResponse)
      BY <1>2, <2>1, SendResponseType
  <2>2. CASE mResponseAcknowledged' = TRUE /\ UNCHANGED <<tx, mResponse>>
      BY <1>2, <2>2
  <2>3. CASE UNCHANGED outputVars
      BY <1>2, <2>3 DEF outputVars
  <2>4. \/ SendGdbResponse(mResponse)
        \/ mResponseAcknowledged' = TRUE /\ UNCHANGED <<tx, mResponse>>
        \/ UNCHANGED outputVars
      BY DEF ReadFirstByte, outputVars
  <2> QED
      BY <2>1, <2>2, <2>3, <2>4
<1>4. CASE UNCHANGED <<pc, mRequest>>
  <2>1. FramingSound'
      BY <1>0, <1>4 DEF FramingSound
  <2> QED
      BY <1>0, <1>1, <1>2, <1>3, <1>4, <2>1, WithinSessionInv
<1>5. CASE pc' = "body" /\ mRequest' = <<"$">>
  <2>1. "$" \in Symbol
      BY DEF Symbol, Framing
  <2>2. \A b : /\ b \in Symbol => <<b>> \in Seq(Symbol)
               /\ Len(<<b>>) = 1 /\ <<b>>[1] = b /\ <<b>> # <<>>
      OBVIOUS
  <2>3. mRequest' \in Seq(Symbol) /\ Len(mRequest') <= MAX_REQUEST_SIZE
      BY <1>5, <2>1, <2>2
  <2>4. FramingSound'
    <3>1. mRequest' # <<>> /\ mRequest'[1] = "$" /\ Len(mRequest') = 1
        BY <1>5, <2>2
    <3> QED
        BY <3>1 DEF FramingSound
  <2> QED
      BY <1>0, <1>1, <1>3, <1>5, <2>3, <2>4, WithinSessionInv
<1>6. UNCHANGED <<pc, mRequest>> \/ (pc' = "body" /\ mRequest' = <<"$">>)
    BY DEF ReadFirstByte
<1> QED
    BY <1>4, <1>5, <1>6

LEMMA ReadBodyByteInv == ASSUME StubInv, ReadBodyByte PROVE StubInv'
<1>0. pc = "body" /\ Stopped
    BY DEF ReadBodyByte, Stopped
<1>1. /\ rx \in Seq(Symbol) /\ mRequest \in Seq(Symbol)
      /\ Len(mRequest) <= MAX_REQUEST_SIZE /\ tx \in Seq(Message)
      /\ mResponseAcknowledged \in BOOLEAN
    BY DEF StubInv, TypeOK
<1>2. /\ mRequest # <<>> /\ mRequest[1] = "$"
      /\ \A i \in 2 .. Len(mRequest) - 2 : mRequest[i] # "#"
    BY <1>0 DEF StubInv, FramingSound
<1>3. CASE RequestFull
    BY <1>0, <1>1, <1>3, NakInv DEF ReadBodyByte
<1>4. CASE ~RequestFull
  <2> DEFINE p == Append(mRequest, Head(rx))
  <2>1. rx # <<>> /\ rx' = Tail(rx)
      BY <1>4 DEF ReadBodyByte
  <2>2. Head(rx) \in Symbol /\ rx' \in Seq(Symbol)
      BY <1>1, <2>1
  <2>3. Len(mRequest) \in Nat /\ Len(mRequest) >= 1 /\ Len(mRequest) < MAX_REQUEST_SIZE
      BY <1>1, <1>2, <1>4 DEF RequestFull
  <2>4. /\ p \in Seq(Symbol) /\ Len(p) = Len(mRequest) + 1
        /\ \A i \in 1 .. Len(mRequest) : p[i] = mRequest[i]
      BY <1>1, <2>2
  <2> HIDE DEF p
  <2>5. p # <<>> /\ p[1] = "$" /\ \A i \in 2 .. Len(p) - 3 : p[i] # "#"
      BY <1>2, <2>3, <2>4
  <2>6. CASE /\ ~PacketEnds(p)
             /\ mRequest' = p
             /\ UNCHANGED <<pc, outputVars, sessionVars, mRebootOnContinue,
                            mConnectionOccurred, stepFlag, executed>>
    <3>1. \A i \in 2 .. Len(p) - 2 : p[i] # "#"
        BY <2>3, <2>4, <2>5, <2>6 DEF PacketEnds
    <3>2. FramingSound'
        BY <2>5, <2>6, <3>1 DEF FramingSound
    <3>3. mRequest' \in Seq(Symbol) /\ Len(mRequest') <= MAX_REQUEST_SIZE
        BY <2>3, <2>4, <2>6
    <3>4. /\ tx' \in Seq(Message) /\ mResponse' = mResponse
          /\ mResponseAcknowledged' \in BOOLEAN
        BY <1>1, <2>6 DEF outputVars
    <3> QED
        BY <1>0, <2>2, <2>6, <3>2, <3>3, <3>4, WithinSessionInv
  <2>7. CASE RefusePacket
      BY <1>0, <2>2, <2>7, NakInv DEF RefusePacket
  <2>8. CASE PacketEnds(p) /\ AcceptPacket(p)
      BY <1>0, <2>2, <2>4, <2>5, <2>8, AcceptInv
  <2> QED
      BY <1>4, <2>6, <2>7, <2>8 DEF ReadBodyByte, p
<1> QED
    BY <1>3, <1>4

LEMMA SessionStepInv == ASSUME StubInv, SessionStep PROVE StubInv'
<1>0. /\ rx \in Seq(Symbol) /\ mRequest \in Seq(Symbol)
      /\ Len(mRequest) <= MAX_REQUEST_SIZE /\ tx \in Seq(Message)
      /\ mResponseAcknowledged \in BOOLEAN
    BY DEF StubInv, TypeOK
<1>1. CASE EnterProcessInputData \/ FirstByteTimeout
  <2>1. /\ Stopped /\ pc' \in {"drain", "first"}
        /\ UNCHANGED <<rx, mRequest, tx, mResponse, mResponseAcknowledged>>
        /\ UNCHANGED <<sessionVars, mRebootOnContinue, mConnectionOccurred,
                       stepFlag, executed>>
      BY <1>1 DEF EnterProcessInputData, FirstByteTimeout, Stopped, inputVars, outputVars
  <2>2. FramingSound'
      BY <2>1 DEF FramingSound
  <2> QED
      BY <1>0, <2>1, <2>2, WithinSessionInv
<1>2. CASE BodyByteTimeout
    BY <1>0, <1>2, NakInv DEF BodyByteTimeout, Stopped
<1> QED
    BY <1>1, <1>2, ReadFirstByteInv, ReadBodyByteInv DEF SessionStep

\* Nothing changes but where the program is, and what waits on the line.
LEMMA OutsideInv ==
    ASSUME StubInv, pc' \in {"program", "polling"}, ~(mRebootOnContinue /\ RebootWorks),
           gRunning' = TRUE, rx' \in Seq(Symbol),
           UNCHANGED <<mRequest, outputVars, from, mNextBreakpointTimeout, EndTime,
                       mRebootOnContinue, mConnectionOccurred, stepFlag, executed>>
    PROVE  StubInv'
<1>1. TypeOK'
    BY DEF StubInv, TypeOK, Location, Stopped, outputVars
<1>2. FramingSound' /\ RebootBeforeRun' /\ RunningWhenReleased'
    BY DEF FramingSound, RebootBeforeRun, RunningWhenReleased
<1> QED
    BY <1>1, <1>2 DEF StubInv

LEMMA LeaveSessionInv == ASSUME StubInv, LeaveSession PROVE StubInv'
<1>0. /\ rx \in Seq(Symbol) /\ tx \in Seq(Message) /\ executed \in Seq(Symbol)
      /\ from \in {"program", "polling"}
    BY DEF StubInv, TypeOK
<1>1. CASE mRebootOnContinue /\ RebootWorks
  <2>1. Reset /\ UNCHANGED <<rx, tx, executed>>
      BY <1>1 DEF LeaveSession
  <2> QED
      BY <1>0, <2>1, ResetInv
<1>2. CASE ~(mRebootOnContinue /\ RebootWorks)
    BY <1>0, <1>2, OutsideInv DEF LeaveSession, inputVars
<1> QED
    BY <1>1, <1>2

LEMMA PollInv == ASSUME StubInv, DebuggerPollInput \/ DebugAgentTimerRoutine PROVE StubInv'
<1>0. /\ rx \in Seq(Symbol) /\ stepFlag \in BOOLEAN
      /\ mNextBreakpointTimeout \in BOOLEAN
    BY DEF StubInv, TypeOK
<1>1. CASE DebuggerPollInput
  <2>1. rx' \in Seq(Symbol)
    <3>1. (rx # <<>> /\ rx' = Tail(rx)) \/ rx' = rx
        BY <1>1 DEF DebuggerPollInput
    <3> QED
        BY <1>0, <3>1
  <2>2. CASE ReportEntryToDebugger(TRUE, mNextBreakpointTimeout, "polling")
      BY <1>0, <1>1, <2>1, <2>2, EntryInv DEF DebuggerPollInput
  <2>3. CASE pc' \in {"polling", "program"} /\ UNCHANGED <<outputVars, sessionVars>>
    <3>1. gRunning /\ ~(mRebootOnContinue /\ RebootWorks)
        BY <1>1 DEF DebuggerPollInput, StubInv, RunningWhenReleased, RebootBeforeRun, Stopped
    <3>2. gRunning' = TRUE
        BY <2>3, <3>1 DEF sessionVars, StubInv, TypeOK
    <3> QED
        BY <1>1, <2>1, <2>3, <3>1, <3>2, OutsideInv DEF DebuggerPollInput, sessionVars
  <2> QED
      BY <1>1, <2>2, <2>3 DEF DebuggerPollInput
<1>2. CASE DebugAgentTimerRoutine
  <2>1. gRunning /\ ~(mRebootOnContinue /\ RebootWorks)
      BY <1>2 DEF DebugAgentTimerRoutine, StubInv, RunningWhenReleased, RebootBeforeRun, Stopped
  <2>2. gRunning' = TRUE
      BY <1>2, <2>1 DEF DebugAgentTimerRoutine, sessionVars, StubInv, TypeOK
  <2> QED
      BY <1>0, <1>2, <2>1, <2>2, OutsideInv
      DEF DebugAgentTimerRoutine, sessionVars, inputVars
<1> QED
    BY <1>1, <1>2

LEMMA ProgramStepInv == ASSUME StubInv, ProgramStep PROVE StubInv'
<1>0. /\ rx \in Seq(Symbol) /\ stepFlag \in BOOLEAN
      /\ mNextBreakpointTimeout \in BOOLEAN
    BY DEF StubInv, TypeOK
<1>1. CASE SkipInitialBreakpoint
  <2>1. gRunning /\ ~(mRebootOnContinue /\ RebootWorks)
      BY <1>1 DEF SkipInitialBreakpoint, StubInv, RunningWhenReleased, RebootBeforeRun, Stopped
  <2>2. gRunning' = TRUE
      BY <1>1, <2>1 DEF SkipInitialBreakpoint, sessionVars, StubInv, TypeOK
  <2> QED
      BY <1>0, <1>1, <2>1, <2>2, OutsideInv
      DEF SkipInitialBreakpoint, sessionVars, inputVars
<1>2. ASSUME NEW t \in BOOLEAN, DebuggerInitialBreakpoint(t) PROVE StubInv'
    BY <1>0, <1>2, EntryInv DEF DebuggerInitialBreakpoint, inputVars
<1>3. ASSUME NEW b \in BOOLEAN, ProgramException(b) PROVE StubInv'
    BY <1>0, <1>3, EntryInv DEF ProgramException, inputVars
<1>4. CASE StepException
    BY <1>0, <1>4, EntryInv DEF StepException, inputVars
<1> QED
    BY <1>1, <1>2, <1>3, <1>4 DEF ProgramStep

\* What the other end does to the line.
LEMMA LineInv == ASSUME StubInv, Transmit \/ \E b \in Alphabet : Arrive(b) PROVE StubInv'
<1>0. rx \in Seq(Symbol) /\ tx \in Seq(Message)
    BY DEF StubInv, TypeOK
<1>1. /\ UNCHANGED <<pc, mRequest, mResponse, mResponseAcknowledged, sessionVars>>
      /\ UNCHANGED <<mRebootOnContinue, mConnectionOccurred, stepFlag, executed>>
    BY DEF Transmit, Arrive, inputVars, outputVars
<1>2. rx' \in Seq(Symbol) /\ tx' \in Seq(Message)
  <2>1. CASE Transmit
    <3>1. \A S : <<>> \in Seq(S)
        OBVIOUS
    <3> QED
        BY <1>0, <2>1, <3>1 DEF Transmit, inputVars
  <2>2. ASSUME NEW b \in Alphabet, Arrive(b) PROVE rx' \in Seq(Symbol) /\ tx' \in Seq(Message)
      BY <1>0, <2>2 DEF Arrive, outputVars
  <2> QED
      BY <2>1, <2>2
<1>3. TypeOK'
    BY <1>1, <1>2 DEF StubInv, TypeOK, Stopped, sessionVars
<1>4. FramingSound' /\ RebootBeforeRun' /\ RunningWhenReleased'
    BY <1>1 DEF StubInv, FramingSound, RebootBeforeRun, RunningWhenReleased, Stopped, sessionVars
<1> QED
    BY <1>3, <1>4 DEF StubInv

LEMMA StubNextInv == ASSUME StubInv, [OpenNext]_stubVars PROVE StubInv'
<1>1. CASE UNCHANGED stubVars
    BY <1>1 DEF stubVars, inputVars, outputVars, sessionVars, StubInv, TypeOK, Stopped,
                FramingSound, RebootBeforeRun, RunningWhenReleased
<1> QED
    BY <1>1, SessionStepInv, LeaveSessionInv, PollInv, ProgramStepInv, LineInv
    DEF OpenNext, StubStep

-----------------------------------------------------------------------------
\* The stub keeps its invariant whatever arrives on the transport.
THEOREM StubInvariance == OpenSpec => []StubInv
<1>1. Init => StubInv
    BY InitStubInv
<1>2. StubInv /\ [OpenNext]_stubVars => StubInv'
    BY StubNextInv
<1> QED
    BY <1>1, <1>2, PTL DEF OpenSpec

\* The variables of the stub keep their types; in particular ProcessInputData
\* never writes past mRequest, and there is always a response to resend.
THEOREM StubTypeCorrect == OpenSpec => []TypeOK
<1>1. StubInv => TypeOK
    BY DEF StubInv
<1> QED
    BY <1>1, StubInvariance, PTL

\* The loop of ProcessInputData never runs past a "#".
THEOREM StubFraming == OpenSpec => []FramingSound
<1>1. StubInv => FramingSound
    BY DEF StubInv
<1> QED
    BY <1>1, StubInvariance, PTL

\* After "monitor R" the program does not run before the reboot.
THEOREM StubRebootBeforeRun == OpenSpec => []RebootBeforeRun
<1>1. StubInv => RebootBeforeRun
    BY DEF StubInv
<1> QED
    BY <1>1, StubInvariance, PTL

-----------------------------------------------------------------------------
\* A packet that passes the tests of ProcessInputData and ProcessGdbPacket is
\* the packet of its body.
LEMMA AcceptedIsFrame ==
    ASSUME NEW p \in Seq(Symbol), PacketEnds(p), ChecksumMatches(p), p[1] = "$",
           \A i \in 2 .. Len(p) - 3 : p[i] # "#"
    PROVE  p = Frame(Body(p)) /\ \A i \in DOMAIN Body(p) : Body(p)[i] # "#"
<1>0. Len(p) \in Nat /\ Len(p) >= 4 /\ p[Len(p) - 2] = "#"
    BY DEF PacketEnds
<1>1. ChecksumIndex(p) = Len(p) - 2
    BY BodyType
<1> DEFINE n == Len(p) - 4
           b == SubSeq(p, 2, Len(p) - 3)
           x == Digits[(CalculateSum8(b) \div 16) + 1]
           y == Digits[(CalculateSum8(b) % 16) + 1]
<1>2. Body(p) = b
  <2>1. ChecksumIndex(p) - 1 = Len(p) - 3
      BY <1>0, <1>1
  <2> QED
      BY <2>1 DEF Body
<1>3. b \in Seq(Symbol) /\ Len(b) = n /\ \A i \in 1 .. n : b[i] = p[i + 1]
  <2>1. \A i \in 2 .. Len(p) - 3 : p[i] \in Symbol
      BY <1>0
  <2>2. 2 \in Int /\ Len(p) - 3 \in Int
      BY <1>0
  <2>3. b \in Seq(Symbol)
      BY <2>1, <2>2, SubSeqProperties
  <2>4. Len(b) = n
    <3>1. Len(b) = IF 2 <= Len(p) - 3 THEN Len(p) - 3 - 2 + 1 ELSE 0
        BY <2>1, <2>2, SubSeqProperties
    <3> HIDE DEF b
    <3>2. CASE Len(p) = 4
        BY <3>1, <3>2
    <3>3. CASE Len(p) > 4
      <4>1. 2 <= Len(p) - 3 /\ Len(p) - 3 - 2 + 1 = Len(p) - 4
          BY <1>0, <3>3
      <4> QED
          BY <3>1, <4>1
    <3>4. Len(p) = 4 \/ Len(p) > 4
      <4>1. \A k \in Nat : k >= 4 => k = 4 \/ k > 4
          OBVIOUS
      <4> QED
          BY <1>0, <4>1
    <3> QED
        BY <3>2, <3>3, <3>4
  <2>5. ASSUME NEW i \in 1 .. n PROVE b[i] = p[i + 1]
    <3>1. i + 1 = 2 + i - 1 /\ i \in 1 .. Len(p) - 3 - 2 + 1
        BY <1>0
    <3>2. b[i] = p[2 + i - 1]
        BY <2>1, <2>2, <3>1, SubSeqProperties
    <3> QED
        BY <3>1, <3>2
  <2> QED
      BY <2>3, <2>4, <2>5
<1>4. <<p[Len(p) - 1], p[Len(p)]>> = <<x, y>>
  <2>1. /\ ChecksumIndex(p) + 1 = Len(p) - 1
        /\ ChecksumIndex(p) + 2 = Len(p)
      BY <1>0, <1>1
  <2> QED
      BY <1>2, <2>1 DEF ChecksumMatches, HexChars
<1>5. Frame(b) = <<"$">> \o b \o <<"#">> \o <<x, y>>
    BY DEF Frame, HexChars
<1>6. p[Len(p) - 1] = x /\ p[Len(p)] = y
    BY <1>4
<1> HIDE DEF b, x, y
<1>7. p = <<"$">> \o b \o <<"#">> \o <<x, y>>
  <2> DEFINE q == <<"$">> \o b \o <<"#">> \o <<x, y>>
  <2>1. x \in Symbol /\ y \in Symbol /\ "$" \in Symbol /\ "#" \in Symbol
    <3>1. Len(p) - 1 \in 1 .. Len(p) /\ Len(p) \in 1 .. Len(p)
        BY <1>0
    <3> QED
        BY <1>6, <3>1 DEF Symbol, Framing
  <2>2. /\ q \in Seq(Symbol) /\ Len(q) = n + 4 /\ q[1] = "$"
        /\ \A i \in 2 .. n + 1 : q[i] = b[i - 1]
        /\ q[n + 2] = "#" /\ q[n + 3] = x /\ q[n + 4] = y
      BY <1>0, <1>3, <2>1
  <2> HIDE DEF q
  <2>3. \A i \in 1 .. Len(p) : p[i] = q[i]
    <3> SUFFICES ASSUME NEW i \in 1 .. Len(p) PROVE p[i] = q[i]
        OBVIOUS
    <3>1. CASE i \in 2 .. n + 1
      <4>1. q[i] = b[i - 1] /\ i - 1 \in 1 .. n
          BY <2>2, <3>1, <1>0
      <4>2. b[i - 1] = p[(i - 1) + 1] /\ (i - 1) + 1 = i
          BY <1>3, <4>1
      <4> QED
          BY <4>1, <4>2
    <3>2. CASE i \in {1, n + 2, n + 3, n + 4}
        BY <1>0, <1>6, <2>2, <3>2
    <3> QED
        BY <3>1, <3>2, <1>0
  <2>4. Len(p) = Len(q)
      BY <1>0, <2>2
  <2>5. p = q
      BY <2>2, <2>3, <2>4
  <2> QED
      BY <2>5 DEF q
<1>8. \A i \in DOMAIN b : b[i] # "#"
    BY <1>0, <1>3
<1> QED
    BY <1>2, <1>5, <1>7, <1>8

\* Only ReadBodyByte sends a positive acknowledgement.
LEMMA NoAck ==
    ASSUME tx \in Seq(Message),
           \/ tx' = tx \/ tx' = <<>>
           \/ SendGdbAck(Nak)
           \/ \E r \in Response : SendGdbResponse(r)
    PROVE  ~Accepts
<1>1. Ack # Nak /\ \A r : Ack # Packet(r)
    BY DEF Ack, Nak, Packet
<1>2. Len(tx) \in Nat /\ Len(<<>>) = 0
    OBVIOUS
<1>3. CASE tx' = tx \/ tx' = <<>>
    BY <1>2, <1>3 DEF Accepts
<1>4. ASSUME NEW m, tx' = Append(tx, m), m # Ack PROVE ~Accepts
    BY <1>2, <1>4 DEF Accepts
<1> QED
    BY <1>1, <1>3, <1>4 DEF SendGdbAck, SendGdbResponse

LEMMA AcceptingStep ==
    ASSUME StubInv, OpenNext, Accepts
    PROVE  /\ rx # <<>>
           /\ Append(mRequest, Head(rx)) = Frame(executed')
           /\ \A i \in DOMAIN executed' : executed'[i] # "#"
<1>0. /\ tx \in Seq(Message) /\ rx \in Seq(Symbol) /\ mRequest \in Seq(Symbol)
      /\ Stopped => mResponse \in Response
    BY DEF StubInv, TypeOK
<1>1. StopReply \in Response
    BY DEF Response
<1>2. ~(tx' = tx) /\ ~(tx' = <<>>) /\ ~SendGdbAck(Nak)
      /\ \A r \in Response : ~SendGdbResponse(r)
    BY <1>0, NoAck
<1>3. \A b, t, w : ~ReportEntryToDebugger(b, t, w)
    BY <1>1, <1>2 DEF ReportEntryToDebugger
<1>4. ReadBodyByte
  <2>1. ~EnterProcessInputData /\ ~FirstByteTimeout /\ ~BodyByteTimeout
      BY <1>2 DEF EnterProcessInputData, FirstByteTimeout, BodyByteTimeout, outputVars
  <2>2. ~ReadFirstByte
      BY <1>0, <1>2 DEF ReadFirstByte, outputVars, Stopped
  <2>3. ~LeaveSession /\ ~DebugAgentTimerRoutine /\ ~Transmit
        /\ ~\E b \in Alphabet : Arrive(b)
      BY <1>2 DEF LeaveSession, DebugAgentTimerRoutine, Transmit, Arrive, outputVars
  <2>4. ~DebuggerPollInput /\ ~ProgramStep
      BY <1>2, <1>3 DEF DebuggerPollInput, ProgramStep, SkipInitialBreakpoint,
           DebuggerInitialBreakpoint, ProgramException, StepException, outputVars
  <2> QED
      BY <2>1, <2>2, <2>3, <2>4 DEF OpenNext, StubStep, SessionStep
<1> DEFINE p == Append(mRequest, Head(rx))
<1>5. pc = "body" /\ ~RequestFull /\ rx # <<>>
    BY <1>2, <1>4 DEF ReadBodyByte
<1>6. PacketEnds(p) /\ ChecksumMatches(p) /\ AcceptPacket(p)
    BY <1>2, <1>4, <1>5 DEF ReadBodyByte, RefusePacket, outputVars
<1>7. /\ mRequest # <<>> /\ mRequest[1] = "$"
      /\ \A i \in 2 .. Len(mRequest) - 2 : mRequest[i] # "#"
    BY <1>5 DEF StubInv, FramingSound
<1>8. /\ p \in Seq(Symbol) /\ Len(p) = Len(mRequest) + 1
      /\ Len(mRequest) \in Nat /\ Len(mRequest) >= 1
      /\ \A i \in 1 .. Len(mRequest) : p[i] = mRequest[i]
  <2>1. Head(rx) \in Symbol
      BY <1>0, <1>5
  <2> QED
      BY <1>0, <1>7, <2>1
<1> HIDE DEF p
<1>9. p[1] = "$" /\ \A i \in 2 .. Len(p) - 3 : p[i] # "#"
    BY <1>7, <1>8
<1>10. p = Frame(Body(p)) /\ \A i \in DOMAIN Body(p) : Body(p)[i] # "#"
    BY <1>6, <1>8, <1>9, AcceptedIsFrame
<1>11. executed' = Body(p)
    BY <1>6 DEF AcceptPacket
<1> QED
    BY <1>5, <1>10, <1>11 DEF p

\* Whatever arrives, the stub executes complete, intact packets only.
THEOREM StubExecutesFrame == OpenSpec => ExecutesFrame
<1>1. StubInv /\ [OpenNext]_stubVars
        => [Accepts => /\ rx # <<>>
                       /\ Append(mRequest, Head(rx)) = Frame(executed')
                       /\ \A i \in DOMAIN executed' : executed'[i] # "#"]_stubVars
    BY AcceptingStep
<1> QED
    BY <1>1, StubInvariance, PTL DEF OpenSpec, ExecutesFrame

=============================================================================
