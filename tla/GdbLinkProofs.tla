--------------------------- MODULE GdbLinkProofs ---------------------------
(***************************************************************************)
(* Proofs about GdbLink: host and stub on a line that delivers whatever    *)
(* the host sends, and loses or garbles as much as it likes of what the    *)
(* stub sends.                                                             *)
(***************************************************************************)
EXTENDS GdbLink, GdbStubProofs, LeastElement

\* The hypotheses of the theorems: nothing is lost on the way to the stub; every
\* packet fits into mRequest; no command resets the target.
HostIsHeard == "rx" \notin FaultyLines
CommandsFit == \A c \in Commands : Len(c) + 4 <= MAX_REQUEST_SIZE
NoReset == RebootWorks => Commands \cap {MonitorR, Reboot} = {}

Setting == HostIsHeard /\ CommandsFit /\ NoReset

-----------------------------------------------------------------------------
\* What CalculateSum8 adds at position i.  The recursive function it uses exists.
AddSymbol(v, s, i) == (v + Code[s[i]]) % 256

IsSum(g, s, n) == g = [i \in 0 .. n |-> IF i = 0 THEN 0 ELSE AddSymbol(g[i - 1], s, i)]

LEMMA SumExists ==
    ASSUME NEW s, NEW n \in Nat
    PROVE  \E g : IsSum(g, s, n)
<1> DEFINE Sum(m, g) == IsSum(g, s, m)
           T == {m \in Nat : ~\E g : Sum(m, g)}
<1> SUFFICES ASSUME T # {} PROVE FALSE
  OBVIOUS
<1> USE DEF IsSum
<1>1. PICK m \in T : \A k \in T : m <= k
  <2>1. T \in SUBSET Nat
    OBVIOUS
  <2> HIDE DEF T
  <2> QED BY <2>1, LeastNat
<1>2. m \in Nat /\ ~\E g : Sum(m, g)
  BY <1>1
<1>3. CASE m = 0
  <2> DEFINE g == [i \in 0 .. 0 |-> 0]
  <2>1. Sum(0, g)
    OBVIOUS
  <2> QED BY <1>2, <1>3, <2>1
<1>4. CASE m # 0
  <2>1. m - 1 \in Nat /\ m - 1 \notin T
    <3>1. m \in Nat
      BY <1>2
    <3> HIDE DEF T
    <3> QED BY <1>1, <1>4, <3>1
  <2>2. PICK h : Sum(m - 1, h)
    BY <2>1
  <2> DEFINE g == [i \in 0 .. m |-> IF i < m THEN h[i] ELSE AddSymbol(h[m - 1], s, m)]
  <2>3. ASSUME NEW i \in 0 .. m
        PROVE  g[i] = IF i = 0 THEN 0 ELSE AddSymbol(g[i - 1], s, i)
    <3>1. CASE i = m
      <4>1. m \in 0 .. m /\ m - 1 \in 0 .. m /\ ~(m < m) /\ m - 1 < m
        BY <1>2, <2>1
      <4>2. g[m - 1] = h[m - 1] /\ g[m] = AddSymbol(h[m - 1], s, m)
        BY <4>1
      <4> HIDE DEF g
      <4> QED BY <1>4, <3>1, <4>2
    <3>2. CASE i # m
      <4>1. i \in 0 .. m - 1 /\ i < m /\ (i # 0 => i - 1 < m /\ i - 1 \in 0 .. m)
        BY <1>2, <1>4, <3>2
      <4>2. h[i] = IF i = 0 THEN 0 ELSE AddSymbol(h[i - 1], s, i)
        BY <2>2, <4>1
      <4> QED BY <4>1, <4>2
    <3> QED BY <3>1, <3>2
  <2>4. g = [i \in 0 .. m |-> g[i]]
    OBVIOUS
  <2> HIDE DEF g
  <2>5. Sum(m, g)
    BY <2>3, <2>4
  <2> QED BY <1>2, <2>5
<1> QED BY <1>3, <1>4

LEMMA SumRecursion ==
    ASSUME NEW s, NEW n \in Nat, Len(s) = n
    PROVE  \E f : IsSum(f, s, n) /\ CalculateSum8(s) = f[n]
<1> DEFINE F == CHOOSE f : IsSum(f, s, n)
<1>1. IsSum(F, s, n)
  BY SumExists, Zenon
<1>2. CalculateSum8(s) = F[n]
  BY DEF CalculateSum8, IsSum, AddSymbol
<1> HIDE DEF F
<1> QED BY <1>1, <1>2

LEMMA TextCodes == \A b \in Text : b \in Symbol /\ Code[b] \in Nat
<1> SUFFICES ASSUME NEW b \in Text PROVE b \in Symbol /\ Code[b] \in Nat
  OBVIOUS
<1>1. b \in Symbol
  BY DEF Symbol
<1>2. /\ b = "?" => Code[b] = 63
      /\ b = "R" => Code[b] = 82
      /\ b = "X" => Code[b] = 88
      /\ b = "00" => Code[b] = 96
      /\ b = "vCont;c" => Code[b] = 168
      /\ b = "vCont;s" => Code[b] = 184
      /\ b = "m0,1" => Code[b] = 250
      /\ b = "M0,2:" => Code[b] = 21
      /\ b = "qRcmd,52" => Code[b] = 138
  BY <1>1 DEF Code
<1>3. Code[b] \in {63, 82, 88, 96, 168, 184, 250, 21, 138}
  BY <1>2 DEF Text
<1>4. {63, 82, 88, 96, 168, 184, 250, 21, 138} \subseteq Nat
  OBVIOUS
<1> QED BY <1>1, <1>3, <1>4

LEMMA SumIsByte == ASSUME NEW c \in Seq(Text) PROVE CalculateSum8(c) \in 0 .. 255
<1>0. PICK n \in Nat : n = Len(c)
  OBVIOUS
<1>1. PICK f : IsSum(f, c, n) /\ CalculateSum8(c) = f[n]
  BY <1>0, SumRecursion
<1>2. /\ f[0] = 0
      /\ \A i \in 1 .. n : f[i] = AddSymbol(f[i - 1], c, i)
  <2>1. \A i \in 0 .. n : f[i] = IF i = 0 THEN 0 ELSE AddSymbol(f[i - 1], c, i)
    BY <1>1, Zenon DEF IsSum
  <2>2. 0 \in 0 .. n /\ \A i \in 1 .. n : i \in 0 .. n /\ i # 0
    OBVIOUS
  <2> QED BY <2>1, <2>2, Zenon
<1>3. ASSUME NEW v \in 0 .. 255, NEW i \in 1 .. n PROVE AddSymbol(v, c, i) \in 0 .. 255
  <2>1. Code[c[i]] \in Nat
    BY <1>0, TextCodes
  <2>2. v + Code[c[i]] \in Nat
    <3>1. \A x \in 0 .. 255, y \in Nat : x + y \in Nat
      OBVIOUS
    <3> QED BY <2>1, <3>1, Zenon
  <2>3. \A x \in Nat : x % 256 \in 0 .. 255
    OBVIOUS
  <2> QED BY <2>2, <2>3 DEF AddSymbol
<1> DEFINE T == {i \in 0 .. n : f[i] \notin 0 .. 255}
<1>4. T = {}
  <2> SUFFICES ASSUME T # {} PROVE FALSE
    OBVIOUS
  <2>1. PICK m \in T : \A k \in T : m <= k
    <3>1. T \in SUBSET Nat
      OBVIOUS
    <3> HIDE DEF T
    <3> QED BY <3>1, LeastNat
  <2>2. m \in 0 .. n /\ f[m] \notin 0 .. 255
    BY <2>1, Zenon
  <2>3. m # 0
    <3>1. 0 \in 0 .. 255
      OBVIOUS
    <3> QED BY <1>2, <2>2, <3>1, Zenon
  <2>4. m - 1 \in 0 .. n /\ m - 1 < m /\ m \in 1 .. n
    <3> HIDE DEF T
    <3> QED BY <2>2, <2>3
  <2>5. m - 1 \notin T
    <3> HIDE DEF T
    <3> QED BY <2>1, <2>2, <2>4
  <2>6. f[m - 1] \in 0 .. 255
    BY <2>4, <2>5, Zenon
  <2> QED BY <1>2, <1>3, <2>2, <2>4, <2>6, Zenon
<1>5. n \in 0 .. n
  OBVIOUS
<1>6. n \notin T
  <2> HIDE DEF T
  <2> QED BY <1>4
<1>7. f[n] \in 0 .. 255
  BY <1>5, <1>6, Zenon
<1> QED BY <1>1, <1>7, Zenon

LEMMA HexCharsDigits ==
    ASSUME NEW v \in 0 .. 255
    PROVE  \E x, y \in HexDigit : HexChars(v) = <<x, y>>
<1>1. (v \div 16) + 1 \in 1 .. 16 /\ (v % 16) + 1 \in 1 .. 16
  OBVIOUS
<1>2. \A i \in 1 .. 16 : Digits[i] \in HexDigit
  BY Zenon DEF HexDigit
<1> QED BY <1>1, <1>2, Zenon DEF HexChars

LEMMA HexSymbols == /\ HexDigit \subseteq Symbol
                    /\ HexDigit \cap Framing = {}
                    /\ Text \cap Framing = {}
<1>1. \A i \in 1 .. 16 : Digits[i] \notin Framing
  BY DEF Digits, Framing
<1>2. HexDigit \cap Framing = {}
  BY <1>1 DEF HexDigit
<1>3. Text \cap Framing = {}
  BY DEF Text, Framing
<1>4. HexDigit \subseteq Symbol
  BY DEF Symbol
<1> QED BY <1>2, <1>3, <1>4

\* The packet of a command: framing symbols at its start and before the checksum only.
LEMMA FrameShape ==
    ASSUME NEW c \in Seq(Text)
    PROVE  /\ Frame(c) \in Seq(Symbol)
           /\ Len(Frame(c)) = Len(c) + 4
           /\ Frame(c)[1] = "$"
           /\ \A i \in 1 .. Len(c) : Frame(c)[i + 1] = c[i]
           /\ Frame(c)[Len(c) + 2] = "#"
           /\ <<Frame(c)[Len(c) + 3], Frame(c)[Len(c) + 4]>> = HexChars(CalculateSum8(c))
           /\ \A i \in 1 .. Len(c) + 4 : i # Len(c) + 2 => Frame(c)[i] # "#"
           /\ \A i \in 1 .. Len(c) + 4 : Frame(c)[i] \notin {"^C", "-"}
<1>1. PICK x \in HexDigit, y \in HexDigit : HexChars(CalculateSum8(c)) = <<x, y>>
  BY SumIsByte, HexCharsDigits
<1> DEFINE F == <<"$">> \o c \o <<"#">> \o <<x, y>>
           n == Len(c)
<1>2. Frame(c) = F
  BY <1>1 DEF Frame
<1>3. /\ c \in Seq(Symbol) /\ n \in Nat
      /\ x \in Symbol /\ y \in Symbol /\ "$" \in Symbol /\ "#" \in Symbol
  <2>1. \A i \in 1 .. n : c[i] \in Symbol
    BY TextCodes
  <2> QED BY <2>1, HexSymbols DEF Symbol, Framing
<1>4. /\ F \in Seq(Symbol) /\ Len(F) = n + 4 /\ F[1] = "$"
      /\ \A i \in 2 .. n + 1 : F[i] = c[i - 1]
      /\ F[n + 2] = "#" /\ F[n + 3] = x /\ F[n + 4] = y
  BY <1>3
<1> HIDE DEF F
<1>5. \A i \in 1 .. n : c[i] \notin {"#", "^C", "-"}
  BY HexSymbols DEF Framing
<1>6. x \notin {"#", "^C", "-"} /\ y \notin {"#", "^C", "-"}
  BY HexSymbols DEF Framing
<1>7. \A i \in 1 .. n : F[i + 1] = c[i]
  <2> TAKE i \in 1 .. n
  <2>1. i + 1 \in 2 .. n + 1 /\ (i + 1) - 1 = i
    BY <1>3
  <2> QED BY <1>4, <2>1
<1>8. ASSUME NEW i \in 1 .. n + 4 PROVE (i # n + 2 => F[i] # "#") /\ F[i] \notin {"^C", "-"}
  <2>1. CASE i \in 2 .. n + 1
    <3>1. i - 1 \in 1 .. n /\ F[i] = c[i - 1]
      BY <1>3, <1>4, <2>1
    <3> QED BY <1>5, <3>1
  <2>2. CASE i \in {1, n + 2, n + 3, n + 4}
    BY <1>4, <1>6, <2>2
  <2> QED BY <1>3, <2>1, <2>2
<1> QED BY <1>1, <1>2, <1>4, <1>7, <1>8

-----------------------------------------------------------------------------
\* What the host sends besides packets.
Noise == {"+", "-", "^C"}

\* Packets the host may read, and all it may read: the stub never refuses a packet.
Packets == {Packet(r) : r \in Response \cup {"garbled"}}
Heard == {Ack} \cup Packets

\* The symbols since the start of the packet that is being read.
wire == IF pc = "body" THEN mRequest \o rx ELSE rx

\* w is packet f, with noise before it and acknowledgements behind it.
Carries(w, k, f) ==
    /\ k + Len(f) <= Len(w)
    /\ \A j \in 1 .. Len(f) : w[k + j] = f[j]
    /\ \A j \in 1 .. k : w[j] \in Noise
    /\ \A j \in k + Len(f) + 1 .. Len(w) : w[j] = "+"

\* The host's packet is on its way, or partly read.
InFlight == \E k \in Nat : /\ Carries(wire, k, Frame(hcmd))
                           /\ pc = "body" => k = 0 /\ Len(mRequest) < Len(Frame(hcmd))

\* No packet is on its way.
Clean == pc # "body" /\ rx \in Seq(Noise)

\* No Ctrl-C is on its way.
NoBreak == rx \in Seq(Symbol \ {"^C"})

Halted == Stopped /\ ~gRunning

\* hcmd is on its way, or lost: eaten by DebuggerPollInput, or executed and its
\* acknowledgement lost.
Pending == /\ tx \in Seq(Packets)
           /\ times <= faults
           /\ \/ Clean
              \/ InFlight /\ pc # "polling" /\ (~Stopped => NoBreak)
              \/ pc = "polling" /\ NoBreak

\* The response to a command that does not resume the target, the responses that
\* follow its acknowledgement, and what the host may read of them.
ReplyTo(c) == IF c = MonitorR THEN "OK" ELSE Answer(c)

RepliesTo(c) == IF Resumes(c) THEN {StopReply, "E"}
                ELSE IF c = MonitorR THEN {"O", "OK"} ELSE {Answer(c)}

AnswersTo(c) == {Garbled} \cup {Packet(r) : r \in RepliesTo(c)}

\* The k-th message to the host is the acknowledgement of hcmd (k = 0: the host has
\* read it), and responses to hcmd come after it.
Acknowledged(k) ==
    /\ k <= Len(tx)
    /\ \A j \in 1 .. k - 1 : tx[j] \in Packets
    /\ k > 0 => tx[k] = Ack
    /\ \A j \in k + 1 .. Len(tx) : tx[j] \in AnswersTo(hcmd)

\* hcmd has been executed.
Answered(k) ==
    /\ Acknowledged(k)
    /\ Clean
    /\ mConnectionOccurred
    /\ times <= 1 + faults
    /\ Resumes(hcmd) => /\ Len(tx) > k => Halted
                        /\ Halted => mResponse \in {StopReply, "E"}
    /\ ~Resumes(hcmd) => Halted /\ mResponse = ReplyTo(hcmd)

LinkTypes == /\ pc \in Location
             /\ from \in {"program", "polling"}
             /\ rx \in Seq(Symbol)
             /\ tx \in Seq(Heard)
             /\ mRequest \in Seq(Symbol)
             /\ Stopped => mResponse \in Response
             /\ gRunning \in BOOLEAN
             /\ mRebootOnContinue \in BOOLEAN
             /\ mConnectionOccurred \in BOOLEAN
             /\ hpc \in HostState
             /\ faults \in Nat
             /\ times \in Nat

\* Who runs: outside of a session the target does, and then the host has nothing to
\* ask for again; within a session only a command that resumes it lets it run.
Release == /\ gRunning => rx \in Seq(Symbol \ {"-"})
           /\ Stopped /\ gRunning => hpc \in {"ack", "run"} /\ hcmd \in {Continue, Step}
           /\ ~Stopped => gRunning
           /\ RebootWorks => ~mRebootOnContinue
           /\ hpc # "off" => hcmd \in Commands

OffOK == rx = <<>> /\ pc # "body" /\ tx \in Seq(Packets) /\ times = 0

IdleOK == /\ Halted /\ mConnectionOccurred /\ Clean
          /\ tx \in Seq(Packets)
          /\ times <= 1 + faults

\* What the host waits for and what the line and the stub hold go together.
Agreement == /\ hpc = "off" => OffOK
             /\ hpc = "idle" => IdleOK
             /\ hpc = "ack" => Pending \/ \E k \in Nat \ {0} : Answered(k)
             /\ hpc = "reply" => ~Resumes(hcmd) /\ Answered(0)
             /\ hpc = "run" => Resumes(hcmd) /\ Answered(0)

LinkInv == LinkTypes /\ Release /\ Agreement

-----------------------------------------------------------------------------
\* The steps of the target, by what they do to the line and to the session.
Ordinary == /\ from' \in {"program", "polling"}
            /\ UNCHANGED <<mRebootOnContinue, mConnectionOccurred, hpc, hcmd, faults, times>>

\* A session opens.
Enters == /\ Ordinary /\ ~Stopped
          /\ pc' = "drain" /\ gRunning' = FALSE
          /\ tx' = Append(tx, Packet(StopReply)) /\ mResponse' = StopReply
          /\ \/ pc # "polling" /\ rx' = rx
             \/ pc = "polling" /\ rx # <<>> /\ Head(rx) = "^C" /\ rx' = Tail(rx)
          /\ UNCHANGED mRequest

\* Only the place changes.
Moves == /\ Ordinary
         /\ \/ pc \in {"boot", "program"} /\ pc' \in {"program", "polling"}
            \/ pc = "polling" /\ rx = <<>> /\ pc' = "program"
            \/ pc = "drain" /\ pc' = "first"
            \/ pc = "first" /\ pc' = "drain"
         /\ UNCHANGED <<rx, mRequest, tx, mResponse, gRunning>>

\* The running target throws a symbol away.
Eats == /\ Ordinary /\ pc = "polling" /\ pc' = "polling"
        /\ rx # <<>> /\ Head(rx) # "^C" /\ rx' = Tail(rx)
        /\ UNCHANGED <<mRequest, tx, mResponse, gRunning>>

\* The session ends.
Leaves == /\ Ordinary /\ pc = "drain" /\ rx = <<>>
          /\ gRunning \/ ~mConnectionOccurred
          /\ pc' \in {"program", "polling"} /\ gRunning' = TRUE
          /\ UNCHANGED <<rx, mRequest, tx, mResponse>>

\* The stub reads an acknowledgement, or something it throws away.
Skips == /\ Ordinary /\ pc = "first" /\ pc' = "first"
         /\ rx # <<>> /\ rx' = Tail(rx) /\ Head(rx) # "$"
         /\ tx' = tx \/ (Head(rx) = "-" /\ tx' = Append(tx, Packet(mResponse)))
         /\ UNCHANGED <<mRequest, mResponse, gRunning>>

\* The stub reads the start of a packet, and more of it.
Starts == /\ Ordinary /\ pc = "first" /\ pc' = "body"
          /\ rx # <<>> /\ rx' = Tail(rx) /\ Head(rx) = "$" /\ mRequest' = <<"$">>
          /\ UNCHANGED <<tx, mResponse, gRunning>>

Gathers == /\ Ordinary /\ pc = "body" /\ pc' = "body"
           /\ rx # <<>> /\ rx' = Tail(rx) /\ mRequest' = Append(mRequest, Head(rx))
           /\ Len(mRequest') < Len(Frame(hcmd))
           /\ UNCHANGED <<tx, mResponse, gRunning>>

\* The responses to the commands, after their acknowledgement.
Responses(c) == IF c \in {Continue, Step} THEN <<>>
                ELSE IF c = MonitorR THEN <<"O", "OK">> ELSE <<Answer(c)>>

\* The stub has read the packet of hcmd, and executes it.
Executes == /\ pc = "body" /\ pc' = "first" /\ executed' = hcmd
            /\ rx' \in Seq({"+"}) /\ mRequest' = <<>>
            /\ tx' = tx \o <<Ack>> \o [i \in DOMAIN Responses(hcmd) |-> Packet(Responses(hcmd)[i])]
            /\ mResponse' = IF hcmd \in {Continue, Step} THEN mResponse ELSE ReplyTo(hcmd)
            /\ gRunning' = (gRunning \/ hcmd \in {Continue, Step})
            /\ mRebootOnContinue' = (mRebootOnContinue \/ hcmd = MonitorR)
            /\ mConnectionOccurred' = TRUE
            /\ times' = times + 1
            /\ UNCHANGED <<from, hpc, hcmd, faults>>

\* A step that sends nothing, or one packet, executes nothing.
LEMMA NothingExecuted ==
    ASSUME NEW P, tx \in Seq(P), tx' = tx \/ \E r : tx' = Append(tx, Packet(r))
    PROVE  ~Accepts
<1>1. Len(tx) \in Nat
  OBVIOUS
<1>2. CASE tx' = tx
  BY <1>1, <1>2 DEF Accepts
<1>3. ASSUME NEW r, tx' = Append(tx, Packet(r)) PROVE ~Accepts
  <2>1. tx'[Len(tx) + 1] = Packet(r)
    BY <1>3
  <2>2. Packet(r) # Ack
    BY DEF Packet, Ack
  <2> QED BY <2>1, <2>2 DEF Accepts
<1> QED BY <1>2, <1>3

LEMMA EntryEffect ==
    ASSUME LinkInv, NEW b, NEW t, NEW w \in {"program", "polling"},
           ReportEntryToDebugger(b, t, w), ~Stopped,
           \/ pc # "polling" /\ rx' = rx
           \/ pc = "polling" /\ rx # <<>> /\ Head(rx) = "^C" /\ rx' = Tail(rx),
           times' = (IF Accepts THEN times + 1 ELSE times),
           UNCHANGED <<mRequest, mRebootOnContinue, mConnectionOccurred, hpc, hcmd, faults>>
    PROVE  Enters
<1>1. /\ pc' = "drain" /\ from' = w /\ gRunning' = FALSE
      /\ tx' = Append(tx, Packet(StopReply)) /\ mResponse' = StopReply
  BY DEF ReportEntryToDebugger, SendGdbResponse
<1>2. ~Accepts
  BY <1>1, NothingExecuted DEF LinkInv, LinkTypes
<1> QED BY <1>1, <1>2 DEF Enters, Ordinary

LEMMA ProgramEffect ==
    ASSUME LinkInv, OfTarget(ProgramStep)
    PROVE  Enters \/ Moves
<1>0. /\ times' = IF Accepts THEN times + 1 ELSE times
      /\ UNCHANGED <<hpc, hcmd, faults>>
  BY DEF OfTarget, hostVars
<1>1. CASE SkipInitialBreakpoint
  <2>1. /\ pc = "boot" /\ pc' = "program"
        /\ UNCHANGED <<rx, mRequest, tx, mResponse, gRunning, from>>
        /\ UNCHANGED <<mRebootOnContinue, mConnectionOccurred>>
    BY <1>1 DEF SkipInitialBreakpoint, inputVars, outputVars, sessionVars
  <2>2. ~Accepts
    BY <2>1, NothingExecuted DEF LinkInv, LinkTypes
  <2> QED BY <1>0, <2>1, <2>2 DEF Moves, Ordinary, LinkInv, LinkTypes
<1>2. ASSUME NEW b, NEW t, ReportEntryToDebugger(b, t, "program"), pc \in {"boot", "program"},
             UNCHANGED <<inputVars, mRebootOnContinue, mConnectionOccurred>>
      PROVE  Enters
  BY <1>0, <1>2, EntryEffect DEF Stopped, inputVars
<1>3. \/ SkipInitialBreakpoint
      \/ /\ pc \in {"boot", "program"}
         /\ \E b, t : ReportEntryToDebugger(b, t, "program")
         /\ UNCHANGED <<inputVars, mRebootOnContinue, mConnectionOccurred>>
  BY Zenon DEF OfTarget, ProgramStep, DebuggerInitialBreakpoint, ProgramException, StepException
<1> QED BY <1>1, <1>2, <1>3

LEMMA OutsideEffect ==
    ASSUME LinkInv, OfTarget(DebuggerPollInput \/ DebugAgentTimerRoutine)
    PROVE  Enters \/ Moves \/ Eats
<1>0. /\ times' = IF Accepts THEN times + 1 ELSE times
      /\ UNCHANGED <<hpc, hcmd, faults>>
      /\ DebuggerPollInput \/ DebugAgentTimerRoutine
  BY DEF OfTarget, hostVars
<1>1. ASSUME UNCHANGED <<outputVars, sessionVars>>
      PROVE  ~Accepts /\ UNCHANGED <<tx, mResponse, gRunning, from>>
  BY <1>1, NothingExecuted DEF outputVars, sessionVars, LinkInv, LinkTypes
<1>2. CASE DebugAgentTimerRoutine
  BY <1>0, <1>1, <1>2
  DEF DebugAgentTimerRoutine, Moves, Ordinary, inputVars, LinkInv, LinkTypes
<1>3. CASE DebuggerPollInput
  <2>0. pc = "polling" /\ UNCHANGED <<mRequest, mRebootOnContinue, mConnectionOccurred>>
    BY <1>3 DEF DebuggerPollInput
  <2>1. CASE /\ rx # <<>> /\ rx' = Tail(rx) /\ Head(rx) = "^C"
             /\ ReportEntryToDebugger(TRUE, mNextBreakpointTimeout, "polling")
    BY <1>0, <2>0, <2>1, EntryEffect DEF Stopped
  <2>2. CASE /\ rx # <<>> /\ rx' = Tail(rx) /\ Head(rx) # "^C"
             /\ UNCHANGED <<pc, outputVars, sessionVars>>
    BY <1>0, <1>1, <2>0, <2>2 DEF Eats, Ordinary, LinkInv, LinkTypes
  <2>3. CASE rx = <<>> /\ pc' = "program" /\ UNCHANGED <<rx, outputVars, sessionVars>>
    BY <1>0, <1>1, <2>0, <2>3 DEF Moves, Ordinary, LinkInv, LinkTypes
  <2> QED BY <1>3, <2>1, <2>2, <2>3 DEF DebuggerPollInput
<1> QED BY <1>0, <1>2, <1>3

LEMMA LeaveEffect == ASSUME LinkInv, OfTarget(LeaveSession) PROVE Leaves
<1>0. /\ times' = IF Accepts THEN times + 1 ELSE times
      /\ UNCHANGED <<hpc, hcmd, faults>> /\ LeaveSession
  BY DEF OfTarget, hostVars
<1>1. ~(mRebootOnContinue /\ RebootWorks)
  BY DEF LinkInv, Release
<1>2. /\ pc = "drain" /\ rx = <<>>
      /\ gRunning \/ ~mConnectionOccurred
      /\ pc' = from /\ gRunning' = TRUE
      /\ UNCHANGED <<rx, mRequest, tx, mResponse, from, mRebootOnContinue, mConnectionOccurred>>
  BY <1>0, <1>1 DEF LeaveSession, inputVars, outputVars
<1>3. ~Accepts
  BY <1>2, NothingExecuted DEF LinkInv, LinkTypes
<1> QED BY <1>0, <1>2, <1>3 DEF Leaves, Ordinary, LinkInv, LinkTypes

LEMMA FirstEffect ==
    ASSUME LinkInv, OfTarget(EnterProcessInputData \/ FirstByteTimeout \/ ReadFirstByte)
    PROVE  Moves \/ Skips \/ Starts
<1>0. /\ times' = IF Accepts THEN times + 1 ELSE times
      /\ UNCHANGED <<hpc, hcmd, faults>>
      /\ EnterProcessInputData \/ FirstByteTimeout \/ ReadFirstByte
  BY DEF OfTarget, hostVars
<1>1. CASE EnterProcessInputData \/ FirstByteTimeout
  <2>1. /\ (pc = "drain" /\ pc' = "first") \/ (pc = "first" /\ pc' = "drain")
        /\ UNCHANGED <<rx, mRequest, tx, mResponse, gRunning, from>>
        /\ UNCHANGED <<mRebootOnContinue, mConnectionOccurred>>
    BY <1>1 DEF EnterProcessInputData, FirstByteTimeout, inputVars, outputVars, sessionVars
  <2>2. ~Accepts
    BY <2>1, NothingExecuted DEF LinkInv, LinkTypes
  <2> QED BY <1>0, <2>1, <2>2 DEF Moves, Ordinary, LinkInv, LinkTypes
<1>2. CASE ReadFirstByte
  <2>1. /\ pc = "first" /\ rx # <<>> /\ rx' = Tail(rx)
        /\ UNCHANGED <<gRunning, from, mRebootOnContinue, mConnectionOccurred>>
    BY <1>2 DEF ReadFirstByte, sessionVars
  <2>2. \/ Head(rx) = "$" /\ pc' = "body" /\ mRequest' = <<"$">> /\ UNCHANGED <<tx, mResponse>>
        \/ Head(rx) # "$" /\ UNCHANGED <<pc, mRequest, tx, mResponse>>
        \/ /\ Head(rx) = "-" /\ tx' = Append(tx, Packet(mResponse))
           /\ UNCHANGED <<pc, mRequest, mResponse>>
    BY <1>2 DEF ReadFirstByte, SendGdbResponse, outputVars
  <2>3. ~Accepts
    <3>1. tx' = tx \/ \E r : tx' = Append(tx, Packet(r))
      BY <2>2
    <3> QED BY <3>1, NothingExecuted DEF LinkInv, LinkTypes
  <2> QED BY <1>0, <2>1, <2>2, <2>3 DEF Skips, Starts, Ordinary, LinkInv, LinkTypes
<1> QED BY <1>0, <1>1, <1>2

-----------------------------------------------------------------------------
LEMMA SeqOfWhole ==
    ASSUME NEW P, NEW S, NEW s \in Seq(P), \A j \in 1 .. Len(s) : s[j] \in S
    PROVE  s \in Seq(S)
OBVIOUS

\* ProcessGdbPacket finds in a packet the command that the host has put there.
LEMMA FrameParsed ==
    ASSUME NEW c \in Seq(Text)
    PROVE  PacketEnds(Frame(c)) /\ ChecksumMatches(Frame(c)) /\ Body(Frame(c)) = c
<1> DEFINE F == Frame(c)
           n == Len(c)
<1>0. n \in Nat
  OBVIOUS
<1>1. /\ F \in Seq(Symbol) /\ Len(F) = n + 4 /\ F[n + 2] = "#"
      /\ \A i \in 1 .. n : F[i + 1] = c[i]
      /\ <<F[n + 3], F[n + 4]>> = HexChars(CalculateSum8(c))
      /\ \A i \in 1 .. n + 4 : i # n + 2 => F[i] # "#"
  BY FrameShape
<1> HIDE DEF F
<1>2. PacketEnds(F)
  <2>1. Len(F) >= 4 /\ Len(F) - 2 = n + 2
    BY <1>0, <1>1
  <2> QED BY <1>1, <2>1 DEF PacketEnds
<1>3. ChecksumIndex(F) = n + 2
  <2>1. \A i \in 2 .. Len(F) - 3 : F[i] # "#"
    BY <1>0, <1>1
  <2>2. ChecksumIndex(F) = Len(F) - 2
    BY <1>1, <1>2, <2>1, BodyType
  <2> QED BY <1>0, <1>1, <2>2
<1>4. Body(F) = c
  <2>1. Body(F) = SubSeq(F, 2, n + 1)
    BY <1>0, <1>3 DEF Body
  <2> DEFINE b == SubSeq(F, 2, n + 1)
  <2>2. b \in Seq(Symbol) /\ Len(b) = n /\ \A i \in 1 .. n : b[i] = F[i + 1]
    <3>1. \A i \in 2 .. n + 1 : F[i] \in Symbol
      BY <1>0, <1>1
    <3>2. 2 \in Int /\ n + 1 \in Int
      BY <1>0
    <3>3. b \in Seq(Symbol)
      BY <3>1, <3>2, SubSeqProperties
    <3>4. Len(b) = IF 2 <= n + 1 THEN n + 1 - 2 + 1 ELSE 0
      BY <3>1, <3>2, SubSeqProperties
    <3>5. Len(b) = n
      <4> HIDE DEF b
      <4>1. \A m \in Nat : (IF 2 <= m + 1 THEN m + 1 - 2 + 1 ELSE 0) = m
        OBVIOUS
      <4> QED BY <1>0, <3>4, <4>1
    <3>6. ASSUME NEW i \in 1 .. n PROVE b[i] = F[i + 1]
      <4>1. i + 1 = 2 + i - 1 /\ i \in 1 .. n + 1 - 2 + 1
        BY <1>0
      <4>2. b[i] = F[2 + i - 1]
        BY <3>1, <3>2, <4>1, SubSeqProperties
      <4> QED BY <4>1, <4>2
    <3> QED BY <3>3, <3>5, <3>6
  <2> HIDE DEF b
  <2>3. \A i \in 1 .. n : b[i] = c[i]
    BY <1>1, <2>2
  <2>4. b = c
    BY <2>2, <2>3
  <2> QED BY <2>1, <2>4 DEF b
<1>5. ChecksumMatches(F)
  <2>1. /\ ChecksumIndex(F) + 1 = n + 3 /\ ChecksumIndex(F) + 2 = n + 4
        /\ n + 4 <= Len(F)
    BY <1>0, <1>1, <1>3
  <2> QED BY <1>1, <1>4, <2>1 DEF ChecksumMatches
<1> QED BY <1>2, <1>4, <1>5 DEF F

\* While the stub reads a packet, it is that of the host's command, and it is all there.
LEMMA BodyState ==
    ASSUME Setting, LinkInv, pc = "body"
    PROVE  /\ hpc = "ack" /\ hcmd \in Commands /\ hcmd \in Seq(Text)
           /\ tx \in Seq(Packets) /\ times <= faults
           /\ Carries(mRequest \o rx, 0, Frame(hcmd))
           /\ Len(mRequest) < Len(Frame(hcmd))
           /\ Len(Frame(hcmd)) = Len(hcmd) + 4 /\ Len(Frame(hcmd)) <= MAX_REQUEST_SIZE
<1>1. ~Clean /\ ~OffOK /\ ~IdleOK /\ \A k : ~Answered(k)
  BY DEF Clean, OffOK, IdleOK, Answered
<1>2. hpc = "ack" /\ Pending /\ InFlight
  <2>1. hpc \in HostState
    BY DEF LinkInv, LinkTypes
  <2>2. hpc = "ack" /\ Pending
    BY <1>1, <2>1 DEF LinkInv, Agreement, HostState
  <2> QED BY <1>1, <2>2 DEF Pending
<1>3. hcmd \in Commands /\ hcmd \in Seq(Text)
  BY <1>2, CommandsAssumption DEF LinkInv, Release
<1>4. Len(Frame(hcmd)) = Len(hcmd) + 4 /\ Len(Frame(hcmd)) <= MAX_REQUEST_SIZE
  <2>1. Len(hcmd) + 4 <= MAX_REQUEST_SIZE
    BY <1>3 DEF Setting, CommandsFit
  <2>2. Len(Frame(hcmd)) = Len(hcmd) + 4
    BY <1>3, FrameShape
  <2> QED BY <2>1, <2>2
<1>5. Carries(mRequest \o rx, 0, Frame(hcmd)) /\ Len(mRequest) < Len(Frame(hcmd))
  BY <1>2 DEF InFlight, wire
<1> QED BY <1>2, <1>3, <1>4, <1>5 DEF Pending

\* The next symbol is that of the packet, and the packet ends where it ought to.
LEMMA NextSymbol ==
    ASSUME Setting, LinkInv, pc = "body"
    PROVE  LET p == Append(mRequest, Head(rx))
           IN  /\ rx # <<>>
               /\ ~PacketEnds(p) => Len(p) < Len(Frame(hcmd))
               /\ PacketEnds(p) => p = Frame(hcmd) /\ Tail(rx) \in Seq({"+"})
<1> DEFINE F == Frame(hcmd)
           w == mRequest \o rx
           n == Len(hcmd)
           m == Len(mRequest)
           p == Append(mRequest, Head(rx))
<1>0. rx \in Seq(Symbol) /\ mRequest \in Seq(Symbol) /\ Len(rx) \in Nat /\ m \in Nat
  BY DEF LinkInv, LinkTypes
<1>1. hcmd \in Seq(Text) /\ Carries(w, 0, F) /\ m < Len(F)
  BY BodyState
<1>2. /\ F \in Seq(Symbol) /\ Len(F) = n + 4 /\ F[n + 2] = "#" /\ n \in Nat
      /\ \A i \in 1 .. n + 4 : i # n + 2 => F[i] # "#"
  BY <1>1, FrameShape
<1>3. /\ w \in Seq(Symbol) /\ Len(w) = m + Len(rx)
      /\ \A j \in 1 .. m : w[j] = mRequest[j]
      /\ \A j \in 1 .. Len(rx) : w[m + j] = rx[j]
  BY <1>0
<1> HIDE DEF F, w, m, n
<1>4. /\ Len(F) <= Len(w)
      /\ \A j \in 1 .. Len(F) : w[j] = F[j]
      /\ \A j \in Len(F) + 1 .. Len(w) : w[j] = "+"
  BY <1>1, <1>2 DEF Carries
<1>5. Len(rx) >= 1 /\ rx # <<>>
  BY <1>0, <1>1, <1>2, <1>3, <1>4
<1>6. Head(rx) = rx[1] /\ Head(rx) \in Symbol
  BY <1>0, <1>5
<1>7. /\ p \in Seq(Symbol) /\ Len(p) = m + 1 /\ p[m + 1] = Head(rx)
      /\ \A j \in 1 .. m : p[j] = mRequest[j]
  BY <1>0, <1>6 DEF m
<1> HIDE DEF p
<1>8. \A j \in 1 .. m + 1 : p[j] = F[j]
  <2> TAKE j \in 1 .. m + 1
  <2>1. j \in 1 .. Len(F) /\ w[j] = F[j]
    BY <1>0, <1>1, <1>2, <1>4
  <2>2. CASE j = m + 1
    <3>1. w[m + 1] = rx[1]
      BY <1>0, <1>3, <1>5
    <3> QED BY <1>6, <1>7, <2>1, <2>2, <3>1
  <2>3. CASE j \in 1 .. m
    BY <1>3, <1>7, <2>1, <2>3
  <2> QED BY <1>0, <2>2, <2>3
<1>9. CASE m + 1 = Len(F)
  <2>1. p = F
    BY <1>2, <1>7, <1>8, <1>9
  <2>2. PacketEnds(p)
    BY <1>1, <2>1, FrameParsed DEF F
  <2>3. \A j \in 1 .. Len(Tail(rx)) : Tail(rx)[j] = "+"
    <3>1. Len(Tail(rx)) = Len(rx) - 1 /\ \A j \in 1 .. Len(rx) - 1 : Tail(rx)[j] = rx[j + 1]
      BY <1>0, <1>5
    <3>2. ASSUME NEW j \in 1 .. Len(rx) - 1 PROVE rx[j + 1] = "+"
      <4>1. j + 1 \in 1 .. Len(rx) /\ m + (j + 1) \in Len(F) + 1 .. Len(w)
        BY <1>0, <1>3, <1>9
      <4> QED BY <1>3, <1>4, <4>1
    <3> QED BY <3>1, <3>2
  <2>4. Tail(rx) \in Seq({"+"})
    <3>1. Tail(rx) \in Seq(Symbol)
      BY <1>0, <1>5
    <3>2. \A j \in 1 .. Len(Tail(rx)) : Tail(rx)[j] \in {"+"}
      BY <2>3
    <3> QED BY <3>1, <3>2, SeqOfWhole
  <2> QED BY <1>5, <2>1, <2>2, <2>4 DEF F, p
<1>10. CASE m + 1 # Len(F)
  <2>1. Len(p) < Len(F)
    BY <1>0, <1>1, <1>2, <1>7, <1>10
  <2>2. ~PacketEnds(p)
    <3> SUFFICES ASSUME PacketEnds(p) PROVE FALSE
      OBVIOUS
    <3>1. Len(p) - 2 \in 1 .. m + 1 /\ p[Len(p) - 2] = "#"
      BY <1>0, <1>7 DEF PacketEnds
    <3>2. F[Len(p) - 2] = "#" /\ Len(p) - 2 \in 1 .. n + 4 /\ Len(p) - 2 # n + 2
      BY <1>0, <1>2, <1>7, <1>8, <2>1, <3>1
    <3> QED BY <1>2, <3>2
  <2> QED BY <1>5, <2>1, <2>2 DEF F, p
<1> QED BY <1>9, <1>10

LEMMA ExecuteEffect ==
    ASSUME Setting, LinkInv, hcmd \in Commands, ExecuteGdbCommand(hcmd)
    PROVE  /\ tx' = tx \o <<Ack>> \o [i \in DOMAIN Responses(hcmd) |-> Packet(Responses(hcmd)[i])]
           /\ mResponse' = IF hcmd \in {Continue, Step} THEN mResponse ELSE ReplyTo(hcmd)
           /\ gRunning' = (gRunning \/ hcmd \in {Continue, Step})
           /\ mRebootOnContinue' = (mRebootOnContinue \/ hcmd = MonitorR)
<1>0. gRunning \in BOOLEAN /\ mRebootOnContinue \in BOOLEAN
  BY DEF LinkInv, LinkTypes
<1>1. MonitorR \notin {Continue, Step}
  BY DEF MonitorR, Continue, Step
<1>2. \A u, v : /\ Len(<<u>>) = 1 /\ <<u>>[1] = u /\ <<u>> # <<>>
                /\ Len(<<u, v>>) = 2 /\ <<u, v>>[2] = v /\ <<u, v>> # <<>>
  OBVIOUS
<1>3. CASE hcmd \in {Continue, Step}
  <2>1. gRunning' = TRUE /\ SendAckAndResponses(Ack, <<>>) /\ UNCHANGED mRebootOnContinue
    BY <1>1, <1>3 DEF ExecuteGdbCommand, ProcessVCommand
  <2>2. Responses(hcmd) = <<>> /\ hcmd # MonitorR
    BY <1>1, <1>3 DEF Responses
  <2>3. /\ tx' = tx \o <<Ack>> \o [i \in DOMAIN Responses(hcmd) |-> Packet(Responses(hcmd)[i])]
        /\ mResponse' = mResponse
    BY <2>1, <2>2, Zenon DEF SendAckAndResponses
  <2> QED BY <1>0, <1>3, <2>1, <2>2, <2>3
<1>4. CASE hcmd = MonitorR
  <2>1. /\ mRebootOnContinue' = TRUE /\ SendAckAndResponses(Ack, <<"O", "OK">>)
        /\ UNCHANGED gRunning
    BY <1>1, <1>4 DEF ExecuteGdbCommand, ProcessMonitorCmd
  <2>2. Responses(hcmd) = <<"O", "OK">> /\ hcmd \notin {Continue, Step} /\ ReplyTo(hcmd) = "OK"
    BY <1>1, <1>4, Zenon DEF Responses, ReplyTo
  <2>3. tx' = tx \o <<Ack>> \o [i \in DOMAIN Responses(hcmd) |-> Packet(Responses(hcmd)[i])]
    BY <2>1, <2>2, Zenon DEF SendAckAndResponses
  <2>4. mResponse' = "OK"
    BY <1>2, <2>1, Zenon DEF SendAckAndResponses
  <2> QED BY <1>0, <1>4, <2>1, <2>2, <2>3, <2>4
<1>5. CASE hcmd \notin {Continue, Step, MonitorR}
  <2>1. /\ SendAckAndResponses(Ack, <<Answer(hcmd)>>)
        /\ UNCHANGED <<gRunning, mRebootOnContinue>>
    BY <1>5 DEF ExecuteGdbCommand
  <2>2. Responses(hcmd) = <<Answer(hcmd)>> /\ ReplyTo(hcmd) = Answer(hcmd)
    BY <1>5, Zenon DEF Responses, ReplyTo
  <2>3. tx' = tx \o <<Ack>> \o [i \in DOMAIN Responses(hcmd) |-> Packet(Responses(hcmd)[i])]
    BY <2>1, <2>2, Zenon DEF SendAckAndResponses
  <2>4. mResponse' = Answer(hcmd)
    BY <1>2, <2>1, Zenon DEF SendAckAndResponses
  <2> QED BY <1>0, <1>5, <2>1, <2>2, <2>3, <2>4
<1> QED BY <1>3, <1>4, <1>5

\* The acknowledgement is what counts an execution.
LEMMA ExecutionCounted ==
    ASSUME NEW P, tx \in Seq(P), NEW R, NEW rs \in Seq(R), tx' = tx \o <<Ack>> \o rs
    PROVE  Accepts
<1> DEFINE t == tx \o <<Ack>>
<1>1. /\ t \in Seq(P \cup {Ack}) /\ Len(t) = Len(tx) + 1 /\ t[Len(tx) + 1] = Ack
      /\ Len(tx) \in Nat
  OBVIOUS
<1> HIDE DEF t
<1>2. tx' = t \o rs
  BY DEF t
<1>3. Len(rs) \in Nat /\ Len(tx') = Len(t) + Len(rs) /\ \A j \in 1 .. Len(t) : tx'[j] = t[j]
  BY <1>1, <1>2
<1> QED BY <1>1, <1>3 DEF Accepts

LEMMA BodyEffect ==
    ASSUME Setting, LinkInv, OfTarget(ReadBodyByte \/ BodyByteTimeout)
    PROVE  Gathers \/ Executes
<1> DEFINE p == Append(mRequest, Head(rx))
<1>0. /\ times' = IF Accepts THEN times + 1 ELSE times
      /\ UNCHANGED <<hpc, hcmd, faults>>
      /\ ReadBodyByte \/ BodyByteTimeout
  BY DEF OfTarget, hostVars
<1>1. pc = "body"
  BY <1>0 DEF ReadBodyByte, BodyByteTimeout
<1>2. /\ hcmd \in Commands /\ hcmd \in Seq(Text) /\ tx \in Seq(Packets)
      /\ Len(mRequest) < Len(Frame(hcmd)) /\ Len(Frame(hcmd)) <= MAX_REQUEST_SIZE
      /\ Len(Frame(hcmd)) = Len(hcmd) + 4
  BY <1>1, BodyState
<1>3. /\ rx # <<>>
      /\ ~PacketEnds(p) => Len(p) < Len(Frame(hcmd))
      /\ PacketEnds(p) => p = Frame(hcmd) /\ Tail(rx) \in Seq({"+"})
  BY <1>1, NextSymbol
<1> HIDE DEF p
<1>4. ~RequestFull
  <2>1. Len(mRequest) \in Nat /\ Len(hcmd) \in Nat
    BY <1>2 DEF LinkInv, LinkTypes
  <2> QED BY <1>2, <2>1, SizeAssumption DEF RequestFull
<1>5. /\ rx' = Tail(rx)
      /\ \/ /\ ~PacketEnds(p)
            /\ mRequest' = p
            /\ UNCHANGED <<pc, outputVars, sessionVars, mRebootOnContinue,
                           mConnectionOccurred, stepFlag, executed>>
         \/ PacketEnds(p) /\ ~ChecksumMatches(p) /\ RefusePacket
         \/ PacketEnds(p) /\ ChecksumMatches(p) /\ AcceptPacket(p)
  BY <1>0, <1>3, <1>4 DEF ReadBodyByte, BodyByteTimeout, p
<1>6. CASE ~PacketEnds(p)
  <2>1. /\ mRequest' = p
        /\ UNCHANGED <<pc, tx, mResponse, gRunning, from, mRebootOnContinue, mConnectionOccurred>>
    BY <1>5, <1>6 DEF outputVars, sessionVars
  <2>2. ~Accepts
    BY <1>2, <2>1, NothingExecuted
  <2>3. Len(mRequest') < Len(Frame(hcmd))
    BY <1>3, <1>6, <2>1
  <2>4. Gathers
    BY <1>0, <1>1, <1>3, <1>5, <2>1, <2>2, <2>3 DEF Gathers, Ordinary, LinkInv, LinkTypes, p
  <2> QED BY <2>4
<1>7. CASE PacketEnds(p)
  <2>1. p = Frame(hcmd) /\ rx' \in Seq({"+"})
    BY <1>3, <1>5, <1>7
  <2>2. ChecksumMatches(p) /\ Body(p) = hcmd
    BY <1>2, <2>1, FrameParsed
  <2>3. AcceptPacket(p)
    BY <1>5, <1>7, <2>2
  <2>4. ~(hcmd = Reboot /\ RebootWorks)
    BY <1>2 DEF Setting, NoReset
  <2>5. /\ executed' = hcmd /\ pc' = "first" /\ mRequest' = <<>>
        /\ mConnectionOccurred' = TRUE /\ from' = from
        /\ ExecuteGdbCommand(hcmd)
    BY <2>2, <2>3, <2>4 DEF AcceptPacket
  <2>6. /\ tx' = tx \o <<Ack>> \o [i \in DOMAIN Responses(hcmd) |-> Packet(Responses(hcmd)[i])]
        /\ mResponse' = IF hcmd \in {Continue, Step} THEN mResponse ELSE ReplyTo(hcmd)
        /\ gRunning' = (gRunning \/ hcmd \in {Continue, Step})
        /\ mRebootOnContinue' = (mRebootOnContinue \/ hcmd = MonitorR)
    BY <1>2, <2>5, ExecuteEffect
  <2>7. Accepts
    <3> DEFINE rs == [i \in DOMAIN Responses(hcmd) |-> Packet(Responses(hcmd)[i])]
    <3>1. \E m \in Nat : DOMAIN Responses(hcmd) = 1 .. m
      <4>1. Responses(hcmd) \in {<<>>, <<"O", "OK">>, <<Answer(hcmd)>>}
        BY DEF Responses
      <4>2. /\ DOMAIN <<>> = 1 .. 0
            /\ \A u, v : DOMAIN <<u>> = 1 .. 1 /\ DOMAIN <<u, v>> = 1 .. 2
        OBVIOUS
      <4>3. 0 \in Nat /\ 1 \in Nat /\ 2 \in Nat
        OBVIOUS
      <4> QED BY <4>1, <4>2, <4>3, Zenon
    <3>2. rs \in Seq({Packet(Responses(hcmd)[i]) : i \in DOMAIN Responses(hcmd)})
      BY <3>1
    <3> HIDE DEF rs
    <3>3. tx' = tx \o <<Ack>> \o rs
      BY <2>6 DEF rs
    <3> QED BY <1>2, <3>2, <3>3, ExecutionCounted
  <2>8. times' = times + 1
    BY <1>0, <2>7
  <2>9. Executes
    BY <1>0, <1>1, <2>1, <2>5, <2>6, <2>8, Zenon DEF Executes
  <2> QED BY <2>9
<1> QED BY <1>6, <1>7

LEMMA TargetEffect ==
    ASSUME Setting, LinkInv, TargetStep
    PROVE  Enters \/ Moves \/ Eats \/ Leaves \/ Skips \/ Starts \/ Gathers \/ Executes
<1>1. \/ OfTarget(ProgramStep)
      \/ OfTarget(LeaveSession)
      \/ OfTarget(DebuggerPollInput \/ DebugAgentTimerRoutine)
      \/ OfTarget(EnterProcessInputData \/ FirstByteTimeout \/ ReadFirstByte)
      \/ OfTarget(ReadBodyByte \/ BodyByteTimeout)
  BY Zenon DEF TargetStep, OfTarget, StubStep, SessionStep
<1> QED
  BY <1>1, ProgramEffect, LeaveEffect, OutsideEffect, FirstEffect, BodyEffect, Zenon

-----------------------------------------------------------------------------
\* The line towards the stub.
LEMMA CarriesTail ==
    ASSUME NEW w \in Seq(Symbol), NEW f \in Seq(Symbol), NEW k \in Nat, k > 0, Carries(w, k, f)
    PROVE  k - 1 \in Nat /\ w # <<>> /\ Head(w) \in Noise /\ Carries(Tail(w), k - 1, f)
<1>0. Len(w) \in Nat /\ Len(f) \in Nat /\ Len(w) >= 1 /\ w # <<>> /\ k - 1 \in Nat
  BY DEF Carries
<1>1. Len(Tail(w)) = Len(w) - 1 /\ \A j \in 1 .. Len(w) - 1 : Tail(w)[j] = w[j + 1]
  BY <1>0
<1>2. Head(w) \in Noise
  BY <1>0 DEF Carries
<1> DEFINE t == Tail(w)
<1> HIDE DEF t
<1>3. Len(t) = Len(w) - 1 /\ \A j \in 1 .. Len(w) - 1 : t[j] = w[j + 1]
  BY <1>1 DEF t
<1>4. k - 1 + Len(f) <= Len(t)
  BY <1>0, <1>3 DEF Carries
<1>5. ASSUME NEW j \in 1 .. Len(f) PROVE t[k - 1 + j] = f[j]
  <2>1. k - 1 + j \in 1 .. Len(w) - 1 /\ (k - 1 + j) + 1 = k + j
    BY <1>0, <1>3, <1>4
  <2> QED BY <1>3, <2>1 DEF Carries
<1>6. ASSUME NEW j \in 1 .. k - 1 PROVE t[j] \in Noise
  <2>1. j \in 1 .. Len(w) - 1 /\ j + 1 \in 1 .. k
    BY <1>0, <1>3, <1>4
  <2> QED BY <1>3, <2>1 DEF Carries
<1>7. ASSUME NEW j \in k - 1 + Len(f) + 1 .. Len(t) PROVE t[j] = "+"
  <2>1. j \in 1 .. Len(w) - 1 /\ j + 1 \in k + Len(f) + 1 .. Len(w)
    BY <1>0, <1>3
  <2> QED BY <1>3, <2>1 DEF Carries
<1>8. Carries(t, k - 1, f)
  BY <1>4, <1>5, <1>6, <1>7 DEF Carries
<1> QED BY <1>0, <1>2, <1>8 DEF t

LEMMA CarriesAppend ==
    ASSUME NEW w \in Seq(Symbol), NEW f \in Seq(Symbol), NEW k \in Nat, Carries(w, k, f)
    PROVE  Carries(Append(w, "+"), k, f)
<1> DEFINE t == Append(w, "+")
<1>0. Len(w) \in Nat /\ Len(f) \in Nat /\ k + Len(f) <= Len(w)
  BY DEF Carries
<1>1. /\ Len(t) = Len(w) + 1 /\ t[Len(w) + 1] = "+"
      /\ \A j \in 1 .. Len(w) : t[j] = w[j]
  OBVIOUS
<1> HIDE DEF t
<1>2. \A j \in 1 .. Len(f) : t[k + j] = f[j]
  <2> TAKE j \in 1 .. Len(f)
  <2>1. k + j \in 1 .. Len(w)
    BY <1>0
  <2> QED BY <1>1, <2>1 DEF Carries
<1>3. \A j \in 1 .. k : t[j] \in Noise
  <2> TAKE j \in 1 .. k
  <2>1. j \in 1 .. Len(w)
    BY <1>0
  <2> QED BY <1>1, <2>1 DEF Carries
<1>4. \A j \in k + Len(f) + 1 .. Len(t) : t[j] = "+"
  <2> TAKE j \in k + Len(f) + 1 .. Len(t)
  <2>1. j = Len(w) + 1 \/ (j \in 1 .. Len(w) /\ j \in k + Len(f) + 1 .. Len(w))
    BY <1>0, <1>1
  <2> QED BY <1>1, <2>1 DEF Carries
<1>5. k + Len(f) <= Len(t)
  BY <1>0, <1>1
<1> QED BY <1>2, <1>3, <1>4, <1>5 DEF Carries, t

LEMMA CarriesNew ==
    ASSUME NEW w \in Seq(Symbol), NEW f \in Seq(Symbol), w \in Seq(Noise)
    PROVE  Len(w) \in Nat /\ Carries(w \o f, Len(w), f)
<1> DEFINE t == w \o f
<1>0. Len(w) \in Nat /\ Len(f) \in Nat /\ \A j \in 1 .. Len(w) : w[j] \in Noise
  OBVIOUS
<1>1. /\ Len(t) = Len(w) + Len(f)
      /\ \A j \in 1 .. Len(w) : t[j] = w[j]
      /\ \A j \in 1 .. Len(f) : t[Len(w) + j] = f[j]
  OBVIOUS
<1> HIDE DEF t
<1>2. \A j \in Len(w) + Len(f) + 1 .. Len(t) : t[j] = "+"
  BY <1>0, <1>1
<1>3. Len(w) + Len(f) <= Len(t)
  BY <1>0, <1>1
<1>4. \A j \in 1 .. Len(w) : t[j] \in Noise
  BY <1>0, <1>1
<1> QED BY <1>0, <1>1, <1>2, <1>3, <1>4 DEF Carries, t

\* Reading a symbol of the body leaves the wire as it is.
LEMMA WireRead ==
    ASSUME NEW r \in Seq(Symbol), NEW s \in Seq(Symbol), s # <<>>
    PROVE  Append(r, Head(s)) \o Tail(s) = r \o s
<1> DEFINE a == Append(r, Head(s))
           t == Tail(s)
           u == a \o t
           v == r \o s
<1>0. Len(r) \in Nat /\ Len(s) \in Nat /\ Len(s) >= 1 /\ Head(s) = s[1] /\ Head(s) \in Symbol
  OBVIOUS
<1>1. /\ a \in Seq(Symbol) /\ Len(a) = Len(r) + 1 /\ a[Len(r) + 1] = s[1]
      /\ \A j \in 1 .. Len(r) : a[j] = r[j]
  BY <1>0
<1>2. /\ t \in Seq(Symbol) /\ Len(t) = Len(s) - 1
      /\ \A j \in 1 .. Len(s) - 1 : t[j] = s[j + 1]
  BY <1>0
<1> HIDE DEF a, t
<1>3. /\ u \in Seq(Symbol) /\ Len(u) = Len(a) + Len(t)
      /\ \A j \in 1 .. Len(a) : u[j] = a[j]
      /\ \A j \in 1 .. Len(t) : u[Len(a) + j] = t[j]
  <2>1. a \in Seq(Symbol) /\ t \in Seq(Symbol)
    BY <1>1, <1>2
  <2> QED BY <2>1
<1>4. /\ v \in Seq(Symbol) /\ Len(v) = Len(r) + Len(s)
      /\ \A j \in 1 .. Len(r) : v[j] = r[j]
      /\ \A j \in 1 .. Len(s) : v[Len(r) + j] = s[j]
  OBVIOUS
<1> HIDE DEF u, v
<1>5. Len(u) = Len(v)
  BY <1>0, <1>1, <1>2, <1>3, <1>4
<1>6. ASSUME NEW j \in 1 .. Len(v) PROVE u[j] = v[j]
  <2>1. CASE j \in 1 .. Len(r)
    <3>1. j \in 1 .. Len(a)
      BY <1>0, <1>1, <2>1
    <3> QED BY <1>1, <1>3, <1>4, <2>1, <3>1
  <2>2. CASE j = Len(r) + 1
    <3>1. Len(r) + 1 \in 1 .. Len(a) /\ 1 \in 1 .. Len(s)
      BY <1>0, <1>1
    <3> QED BY <1>1, <1>3, <1>4, <2>2, <3>1
  <2>3. CASE j \in Len(r) + 2 .. Len(v)
    <3> DEFINE i == j - Len(r) - 1
    <3>1. /\ i \in 1 .. Len(t) /\ i \in 1 .. Len(s) - 1 /\ i + 1 \in 1 .. Len(s)
          /\ j = Len(a) + i /\ j = Len(r) + (i + 1)
      BY <1>0, <1>1, <1>2, <1>4, <2>3
    <3> HIDE DEF i
    <3>2. u[j] = t[i] /\ t[i] = s[i + 1] /\ v[j] = s[i + 1]
      BY <1>2, <1>3, <1>4, <3>1
    <3> QED BY <3>2
  <2> QED BY <1>0, <1>4, <2>1, <2>2, <2>3
<1>7. u = v
  BY <1>3, <1>4, <1>5, <1>6
<1> QED BY <1>7 DEF u, v, a, t

LEMMA WireAppend ==
    ASSUME NEW r \in Seq(Symbol), NEW s \in Seq(Symbol), NEW b \in Symbol
    PROVE  r \o Append(s, b) = Append(r \o s, b)
OBVIOUS

-----------------------------------------------------------------------------
\* The line towards the host.
LEMMA MessageFacts ==
    /\ Ack \notin Packets /\ Nak \notin Packets /\ Ack # Nak
    /\ Garbled \in Packets
    /\ \A r \in Response : Packet(r) \in Packets
    /\ \A m \in Packets : m.kind = "$"
    /\ Ack.kind # "$" /\ Ack \in Heard /\ Packets \subseteq Heard /\ Nak \notin Heard
<1>1. Ack.kind = "+" /\ Nak.kind = "-" /\ \A r : Packet(r).kind = "$"
  BY DEF Ack, Nak, Packet
<1>2. \A m \in Packets : m.kind = "$"
  BY <1>1 DEF Packets
<1>3. Ack \notin Packets /\ Nak \notin Packets /\ Ack # Nak
  BY <1>1, <1>2
<1> QED BY <1>1, <1>2, <1>3 DEF Packets, Garbled, Heard

LEMMA AnswersArePackets ==
    ASSUME NEW c
    PROVE  /\ AnswersTo(c) \subseteq Packets
           /\ RepliesTo(c) \subseteq Response
           /\ ~Resumes(c) => ReplyTo(c) \in RepliesTo(c)
           /\ ReplyTo(c) \in Response
<1>1. Answer(c) \in Response
  BY DEF Answer, Response, StopReply
<1>2. RepliesTo(c) \subseteq Response
  BY <1>1 DEF RepliesTo, Response
<1>3. AnswersTo(c) \subseteq Packets
  BY <1>2, MessageFacts DEF AnswersTo
<1>4. ~Resumes(c) => ReplyTo(c) \in RepliesTo(c)
  BY Zenon DEF RepliesTo, ReplyTo
<1>5. ReplyTo(c) \in Response
  <2>1. "OK" \in Response
    BY DEF Response
  <2> QED BY <1>1, <2>1, Zenon DEF ReplyTo
<1> QED BY <1>2, <1>3, <1>4, <1>5

LEMMA AckSame ==
    ASSUME NEW k, Acknowledged(k), UNCHANGED <<tx, hcmd>>
    PROVE  Acknowledged(k)'
BY DEF Acknowledged

LEMMA AckAppend ==
    ASSUME LinkTypes, NEW k \in Nat, Acknowledged(k), hcmd' = hcmd,
           NEW m \in AnswersTo(hcmd), tx' = Append(tx, m)
    PROVE  Acknowledged(k)'
<1>0. tx \in Seq(Heard) /\ Len(tx) \in Nat
  BY DEF LinkTypes
<1>1. /\ Len(tx') = Len(tx) + 1 /\ tx'[Len(tx) + 1] = m
      /\ \A j \in 1 .. Len(tx) : tx'[j] = tx[j]
  BY <1>0
<1>2. k <= Len(tx) /\ k <= Len(tx')
  BY <1>0, <1>1 DEF Acknowledged
<1>3. \A j \in 1 .. k - 1 : tx'[j] \in Packets
  <2> TAKE j \in 1 .. k - 1
  <2>1. j \in 1 .. Len(tx)
    BY <1>0, <1>2
  <2> QED BY <1>1, <2>1 DEF Acknowledged
<1>4. k > 0 => tx'[k] = Ack
  <2>1. k > 0 => k \in 1 .. Len(tx)
    BY <1>0, <1>2
  <2> QED BY <1>1, <2>1 DEF Acknowledged
<1>5. \A j \in k + 1 .. Len(tx') : tx'[j] \in AnswersTo(hcmd)
  <2> TAKE j \in k + 1 .. Len(tx')
  <2>1. j = Len(tx) + 1 \/ (j \in 1 .. Len(tx) /\ j \in k + 1 .. Len(tx))
    BY <1>0, <1>1, <1>2
  <2> QED BY <1>1, <2>1 DEF Acknowledged
<1> QED BY <1>2, <1>3, <1>4, <1>5 DEF Acknowledged

\* The host reads a message: one before the acknowledgement, or the
\* acknowledgement, or an answer.
LEMMA AckTail ==
    ASSUME LinkTypes, NEW k \in Nat, Acknowledged(k), UNCHANGED hcmd,
           tx # <<>>, tx' = Tail(tx)
    PROVE  Acknowledged(IF k = 0 THEN 0 ELSE k - 1)'
<1> DEFINE i == IF k = 0 THEN 0 ELSE k - 1
<1>0. tx \in Seq(Heard) /\ Len(tx) \in Nat /\ Len(tx) >= 1
  BY DEF LinkTypes
<1>1. Len(tx') = Len(tx) - 1 /\ \A j \in 1 .. Len(tx) - 1 : tx'[j] = tx[j + 1]
  BY <1>0
<1>2. /\ i \in Nat /\ i <= k /\ k <= i + 1 /\ k <= Len(tx) /\ i <= Len(tx')
      /\ i > 0 => i + 1 = k
  BY <1>0, <1>1 DEF Acknowledged
<1> HIDE DEF i
<1>3. \A j \in 1 .. i - 1 : tx'[j] \in Packets
  <2> TAKE j \in 1 .. i - 1
  <2>1. j \in 1 .. Len(tx) - 1 /\ j + 1 \in 1 .. k - 1
    BY <1>0, <1>1, <1>2
  <2> QED BY <1>1, <2>1 DEF Acknowledged
<1>4. i > 0 => tx'[i] = Ack
  <2>1. i > 0 => i \in 1 .. Len(tx) - 1 /\ i + 1 = k /\ k > 0
    BY <1>0, <1>1, <1>2
  <2> QED BY <1>1, <2>1 DEF Acknowledged
<1>5. \A j \in i + 1 .. Len(tx') : tx'[j] \in AnswersTo(hcmd)
  <2> TAKE j \in i + 1 .. Len(tx')
  <2>1. j \in 1 .. Len(tx) - 1 /\ j + 1 \in k + 1 .. Len(tx)
    BY <1>0, <1>1, <1>2
  <2> QED BY <1>1, <2>1 DEF Acknowledged
<1>6. Acknowledged(i)'
  BY <1>2, <1>3, <1>4, <1>5 DEF Acknowledged
<1> QED BY <1>6 DEF i

-----------------------------------------------------------------------------
\* What a step that leaves the host waiting for the same must preserve.
LEMMA AgreementKept ==
    ASSUME LinkInv, UNCHANGED <<hpc, hcmd>>,
           hpc = "off" /\ OffOK => OffOK',
           hpc = "idle" /\ IdleOK => IdleOK',
           hpc = "ack" /\ Pending => Pending' \/ \E k \in Nat \ {0} : Answered(k)',
           \A k \in Nat : Answered(k) => Answered(k)'
    PROVE  Agreement'
<1>1. Resumes(hcmd)' = Resumes(hcmd)
  BY DEF Resumes
<1>2. 0 \in Nat /\ \A k \in Nat \ {0} : k \in Nat
  OBVIOUS
<1> QED BY <1>1, <1>2, Zenon DEF LinkInv, Agreement

LEMMA TailSeq ==
    ASSUME NEW S, NEW s \in Seq(S), s # <<>>
    PROVE  Head(s) \in S /\ Tail(s) \in Seq(S)
OBVIOUS

LEMMA EmptyInSeq == \A S : <<>> \in Seq(S)
OBVIOUS

LEMMA EntersInv == ASSUME Setting, LinkInv, Enters PROVE LinkInv'
<1>0. /\ Ordinary /\ ~Stopped /\ pc' = "drain" /\ gRunning' = FALSE
      /\ tx' = Append(tx, Packet(StopReply)) /\ mResponse' = StopReply
      /\ mRequest' = mRequest
  BY DEF Enters
<1>1. LinkTypes /\ Release /\ Agreement /\ gRunning /\ pc # "body"
  BY <1>0 DEF LinkInv, Release, Stopped
<1>2. \A S : rx \in Seq(S) => rx' \in Seq(S)
  BY TailSeq DEF Enters
<1>3. Packet(StopReply) \in Packets /\ Packet(StopReply) \in Heard /\ StopReply \in Response
  BY MessageFacts DEF Response
<1>4. \A S : tx \in Seq(S) /\ Packet(StopReply) \in S => tx' \in Seq(S)
  BY <1>0
<1>5. Stopped' /\ Halted'
  BY <1>0 DEF Stopped, Halted
<1>6. LinkTypes'
  <2>1. rx' \in Seq(Symbol) /\ tx' \in Seq(Heard)
    BY <1>1, <1>2, <1>3, <1>4 DEF LinkTypes
  <2> QED BY <1>0, <1>1, <1>3, <2>1 DEF LinkTypes, Ordinary, Location
<1>7. Release'
  BY <1>0, <1>1, <1>5 DEF Release, Ordinary, Stopped
<1>8. hpc = "off" /\ OffOK => OffOK'
  BY <1>0, <1>3, <1>4 DEF OffOK, Enters, Ordinary
<1>9. ~IdleOK
  BY <1>0 DEF IdleOK, Halted
<1>10. ASSUME Pending PROVE Pending'
  <2>1. tx' \in Seq(Packets) /\ times' <= faults'
    BY <1>0, <1>3, <1>4, <1>10 DEF Pending, Ordinary
  <2>2. CASE Clean
    BY <1>0, <1>2, <2>1, <2>2 DEF Pending, Clean
  <2>3. CASE InFlight /\ pc # "polling"
    <3>1. rx' = rx /\ wire' = wire /\ Frame(hcmd)' = Frame(hcmd)
      BY <1>0, <1>1, <2>3 DEF Enters, wire, Ordinary
    <3>2. InFlight'
      BY <1>0, <1>1, <2>3, <3>1 DEF InFlight
    <3> QED BY <1>0, <1>5, <2>1, <3>2 DEF Pending
  <2>4. CASE pc = "polling" /\ NoBreak
    <3>1. Head(rx) \in Symbol \ {"^C"} /\ Head(rx) = "^C"
      BY <2>4, TailSeq DEF NoBreak, Enters
    <3> QED BY <3>1
  <2> QED BY <1>10, <2>2, <2>3, <2>4 DEF Pending
<1>11. ASSUME NEW k \in Nat, Answered(k) PROVE Answered(k)'
  <2>1. Resumes(hcmd) /\ hcmd' = hcmd
    BY <1>0, <1>11 DEF Answered, Halted, Ordinary
  <2>2. Packet(StopReply) \in AnswersTo(hcmd)
    BY <2>1 DEF AnswersTo, RepliesTo
  <2>3. Acknowledged(k)'
    BY <1>0, <1>1, <1>11, <2>1, <2>2, AckAppend DEF Answered
  <2>4. Clean'
    BY <1>0, <1>2, <1>11 DEF Answered, Clean
  <2>5. Resumes(hcmd)'
    BY <2>1 DEF Resumes
  <2>6. mConnectionOccurred' /\ times' <= 1 + faults'
    BY <1>0, <1>11 DEF Answered, Ordinary
  <2> QED BY <1>0, <1>5, <2>3, <2>4, <2>5, <2>6 DEF Answered
<1>12. Agreement'
  BY <1>0, <1>8, <1>9, <1>10, <1>11, AgreementKept DEF Ordinary
<1> QED BY <1>6, <1>7, <1>12 DEF LinkInv

LEMMA MovesInv == ASSUME Setting, LinkInv, Moves PROVE LinkInv'
<1>0. /\ Ordinary /\ pc # "body" /\ pc' # "body"
      /\ UNCHANGED <<rx, mRequest, tx, mResponse, gRunning>>
  BY DEF Moves
<1>1. LinkTypes /\ Release /\ Agreement
  BY DEF LinkInv
<1>2. Stopped' = Stopped /\ pc' \in Location
  BY DEF Moves, Stopped, Location
<1>3. Halted' = Halted /\ (Clean => Clean') /\ (Resumes(hcmd)' = Resumes(hcmd))
      /\ ReplyTo(hcmd)' = ReplyTo(hcmd)
  BY <1>0, <1>2 DEF Halted, Clean, Resumes, ReplyTo, Ordinary
<1>4. LinkTypes'
  BY <1>0, <1>1, <1>2 DEF LinkTypes, Ordinary
<1>5. Release'
  BY <1>0, <1>1, <1>2 DEF Release, Ordinary
<1>6. OffOK => OffOK'
  BY <1>0 DEF OffOK, Ordinary
<1>7. IdleOK => IdleOK'
  BY <1>0, <1>3 DEF IdleOK, Ordinary
<1>8. ASSUME Pending PROVE Pending'
  <2>1. tx' \in Seq(Packets) /\ times' <= faults'
    BY <1>0, <1>8 DEF Pending, Ordinary
  <2>2. CASE Clean
    BY <1>3, <2>1, <2>2 DEF Pending
  <2>3. CASE InFlight /\ pc # "polling" /\ (~Stopped => NoBreak)
    <3>1. wire' = wire /\ Frame(hcmd)' = Frame(hcmd)
      BY <1>0 DEF wire, Ordinary
    <3>2. InFlight'
      BY <1>0, <2>3, <3>1 DEF InFlight
    <3>3. NoBreak' = NoBreak
      BY <1>0 DEF NoBreak
    <3>4. CASE pc' # "polling"
      BY <1>2, <2>1, <2>3, <3>2, <3>3, <3>4 DEF Pending
    <3>5. CASE pc' = "polling"
      <4>1. ~Stopped
        BY <3>5 DEF Moves, Stopped
      <4> QED BY <2>1, <2>3, <3>3, <3>5, <4>1 DEF Pending
    <3> QED BY <3>4, <3>5
  <2>4. CASE pc = "polling" /\ NoBreak
    <3>1. pc' = "program" /\ rx' = <<>>
      BY <1>0, <2>4 DEF Moves
    <3> QED BY <2>1, <3>1, EmptyInSeq DEF Pending, Clean
  <2> QED BY <1>8, <2>2, <2>3, <2>4 DEF Pending
<1>9. ASSUME NEW k \in Nat, Answered(k) PROVE Answered(k)'
  <2>1. Acknowledged(k)'
    BY <1>0, <1>9, AckSame DEF Answered, Ordinary
  <2> QED BY <1>0, <1>3, <1>9, <2>1 DEF Answered, Ordinary
<1>10. Agreement'
  BY <1>0, <1>6, <1>7, <1>8, <1>9, AgreementKept DEF Ordinary
<1> QED BY <1>4, <1>5, <1>10 DEF LinkInv

LEMMA EatsInv == ASSUME Setting, LinkInv, Eats PROVE LinkInv'
<1>0. /\ Ordinary /\ pc = "polling" /\ pc' = "polling" /\ rx # <<>> /\ rx' = Tail(rx)
      /\ UNCHANGED <<mRequest, tx, mResponse, gRunning>>
  BY DEF Eats
<1>1. LinkTypes /\ Release /\ Agreement
  BY DEF LinkInv
<1>2. ~Stopped /\ ~Stopped' /\ ~Halted /\ ~Halted'
  BY <1>0 DEF Stopped, Halted
<1>3. \A S : rx \in Seq(S) => rx' \in Seq(S)
  BY <1>0, TailSeq
<1>4. LinkTypes'
  <2>1. rx' \in Seq(Symbol)
    BY <1>1, <1>3 DEF LinkTypes
  <2> QED BY <1>0, <1>1, <1>2, <2>1 DEF LinkTypes, Ordinary
<1>5. Release'
  BY <1>0, <1>1, <1>2, <1>3 DEF Release, Ordinary
<1>6. ~OffOK /\ ~IdleOK
  BY <1>0, <1>2 DEF OffOK, IdleOK
<1>7. ASSUME Pending PROVE Pending'
  BY <1>0, <1>3, <1>7 DEF Pending, Clean, NoBreak, Ordinary
<1>8. ASSUME NEW k \in Nat, Answered(k) PROVE Answered(k)'
  <2>1. Acknowledged(k)'
    BY <1>0, <1>8, AckSame DEF Answered, Ordinary
  <2>2. Clean'
    BY <1>0, <1>3, <1>8 DEF Answered, Clean
  <2>3. Resumes(hcmd)' = Resumes(hcmd) /\ Resumes(hcmd)
    BY <1>0, <1>2, <1>8 DEF Answered, Resumes, Ordinary
  <2> QED BY <1>0, <1>2, <1>8, <2>1, <2>2, <2>3 DEF Answered, Ordinary
<1>9. Agreement'
  BY <1>0, <1>6, <1>7, <1>8, AgreementKept DEF Ordinary
<1> QED BY <1>4, <1>5, <1>9 DEF LinkInv

LEMMA CommandFrame ==
    ASSUME LinkInv, hpc # "off"
    PROVE  /\ hcmd \in Commands /\ hcmd \in Seq(Text) /\ Frame(hcmd) \in Seq(Symbol)
           /\ Len(Frame(hcmd)) \in Nat /\ Len(Frame(hcmd)) >= 4 /\ Frame(hcmd)[1] = "$"
<1>1. hcmd \in Commands /\ hcmd \in Seq(Text) /\ Len(hcmd) \in Nat
  BY CommandsAssumption DEF LinkInv, Release
<1>2. Frame(hcmd) \in Seq(Symbol) /\ Len(Frame(hcmd)) = Len(hcmd) + 4 /\ Frame(hcmd)[1] = "$"
  BY <1>1, FrameShape
<1> QED BY <1>1, <1>2

LEMMA LeavesInv == ASSUME Setting, LinkInv, Leaves PROVE LinkInv'
<1>0. /\ Ordinary /\ pc = "drain" /\ rx = <<>> /\ pc' \in {"program", "polling"}
      /\ gRunning' = TRUE /\ UNCHANGED <<rx, mRequest, tx, mResponse>>
  BY DEF Leaves
<1>1. LinkTypes /\ Release /\ Agreement
  BY DEF LinkInv
<1>2. ~Stopped' /\ ~Halted' /\ Stopped
  BY <1>0 DEF Stopped, Halted
<1>3. LinkTypes'
  BY <1>0, <1>1, <1>2 DEF LinkTypes, Ordinary, Location
<1>4. Release'
  BY <1>0, <1>1, <1>2, EmptyInSeq DEF Release, Ordinary
<1>5. OffOK => OffOK'
  BY <1>0 DEF OffOK, Ordinary
<1>6. ~IdleOK
  BY DEF IdleOK, Halted, Leaves
<1>7. Clean'
  BY <1>0, EmptyInSeq DEF Clean
<1>8. ASSUME hpc = "ack", Pending PROVE Pending'
  BY <1>0, <1>7, <1>8 DEF Pending, Ordinary
<1>9. ASSUME NEW k \in Nat, Answered(k) PROVE Answered(k)'
  <2>1. Acknowledged(k)'
    BY <1>0, <1>9, AckSame DEF Answered, Ordinary
  <2>2. gRunning /\ Resumes(hcmd)
    BY <1>9 DEF Answered, Halted, Leaves
  <2>3. ~(Len(tx) > k)
    BY <1>9, <2>2 DEF Answered, Halted
  <2>4. Resumes(hcmd)'
    BY <1>0, <2>2 DEF Resumes, Ordinary
  <2> QED BY <1>0, <1>2, <1>7, <1>9, <2>1, <2>3, <2>4 DEF Answered, Ordinary
<1>10. Agreement'
  BY <1>0, <1>5, <1>6, <1>8, <1>9, AgreementKept DEF Ordinary
<1> QED BY <1>3, <1>4, <1>10 DEF LinkInv

LEMMA SkipsInv == ASSUME Setting, LinkInv, Skips PROVE LinkInv'
<1>0. /\ Ordinary /\ pc = "first" /\ pc' = "first" /\ rx # <<>> /\ rx' = Tail(rx)
      /\ Head(rx) # "$" /\ UNCHANGED <<mRequest, mResponse, gRunning>>
      /\ tx' = tx \/ (Head(rx) = "-" /\ tx' = Append(tx, Packet(mResponse)))
  BY DEF Skips
<1>1. LinkTypes /\ Release /\ Agreement
  BY DEF LinkInv
<1>2. Stopped /\ Stopped' /\ Halted' = Halted /\ mResponse \in Response
  BY <1>0, <1>1 DEF Stopped, Halted, LinkTypes
<1>3. \A S : rx \in Seq(S) => rx' \in Seq(S) /\ Head(rx) \in S
  BY <1>0, TailSeq
<1>4. Packet(mResponse) \in Packets /\ Packet(mResponse) \in Heard
  BY <1>2, MessageFacts
<1>5. \A S : tx \in Seq(S) /\ Packet(mResponse) \in S => tx' \in Seq(S)
  BY <1>0
<1>6. LinkTypes'
  <2>1. rx' \in Seq(Symbol) /\ tx' \in Seq(Heard)
    BY <1>1, <1>3, <1>4, <1>5 DEF LinkTypes
  <2> QED BY <1>0, <1>1, <1>2, <2>1 DEF LinkTypes, Ordinary
<1>7. Release'
  BY <1>0, <1>1, <1>2, <1>3 DEF Release, Ordinary
<1>8. ~OffOK
  BY <1>0 DEF OffOK
<1>9. IdleOK => IdleOK'
  BY <1>0, <1>2, <1>3, <1>4, <1>5 DEF IdleOK, Clean, Ordinary
<1>10. ASSUME hpc = "ack", Pending PROVE Pending'
  <2>1. tx' \in Seq(Packets) /\ times' <= faults'
    BY <1>0, <1>4, <1>5, <1>10 DEF Pending, Ordinary
  <2>2. CASE Clean
    BY <1>0, <1>3, <2>1, <2>2 DEF Pending, Clean
  <2>3. CASE InFlight
    <3>0. /\ Frame(hcmd) \in Seq(Symbol) /\ Len(Frame(hcmd)) \in Nat
          /\ Len(Frame(hcmd)) >= 4 /\ Frame(hcmd)[1] = "$" /\ rx \in Seq(Symbol)
      BY <1>1, <1>10, CommandFrame DEF LinkTypes
    <3>1. PICK k \in Nat : Carries(rx, k, Frame(hcmd))
      BY <1>0, <2>3 DEF InFlight, wire
    <3>2. k > 0
      <4> SUFFICES ASSUME k = 0 PROVE FALSE
        OBVIOUS
      <4>1. 1 \in 1 .. Len(Frame(hcmd)) /\ 0 + 1 = 1
        BY <3>0
      <4>2. rx[1] = "$"
        BY <3>0, <3>1, <4>1 DEF Carries
      <4>3. Head(rx) = rx[1]
        BY <1>0
      <4> QED BY <1>0, <4>2, <4>3
    <3>3. k - 1 \in Nat /\ Carries(rx', k - 1, Frame(hcmd))
      BY <1>0, <3>0, <3>1, <3>2, CarriesTail
    <3>4. wire' = rx' /\ Frame(hcmd)' = Frame(hcmd)
      BY <1>0 DEF wire, Ordinary
    <3>5. InFlight'
      BY <1>0, <3>3, <3>4 DEF InFlight
    <3> QED BY <1>0, <1>2, <2>1, <3>5 DEF Pending
  <2> QED BY <1>0, <1>10, <2>2, <2>3 DEF Pending
<1>11. ASSUME NEW k \in Nat, Answered(k) PROVE Answered(k)'
  <2>0. hcmd' = hcmd /\ Resumes(hcmd)' = Resumes(hcmd) /\ ReplyTo(hcmd)' = ReplyTo(hcmd)
    BY <1>0 DEF Ordinary, Resumes, ReplyTo
  <2>1. Clean'
    BY <1>0, <1>3, <1>11 DEF Answered, Clean
  <2>2. CASE tx' = tx
    <3>1. Acknowledged(k)'
      BY <1>11, <2>0, <2>2, AckSame DEF Answered
    <3> QED BY <1>0, <1>2, <1>11, <2>0, <2>1, <2>2, <3>1 DEF Answered, Ordinary
  <2>3. CASE Head(rx) = "-" /\ tx' = Append(tx, Packet(mResponse))
    <3>1. ~gRunning
      <4>1. gRunning => Head(rx) \in Symbol \ {"-"}
        BY <1>1, <1>3 DEF Release
      <4> QED BY <2>3, <4>1
    <3>2. Halted
      BY <1>2, <3>1 DEF Halted
    <3>3. mResponse \in RepliesTo(hcmd)
      <4>1. CASE Resumes(hcmd)
        BY <1>11, <3>2, <4>1 DEF Answered, RepliesTo
      <4>2. CASE ~Resumes(hcmd)
        BY <1>11, <4>2, AnswersArePackets DEF Answered
      <4> QED BY <4>1, <4>2
    <3>4. Packet(mResponse) \in AnswersTo(hcmd)
      BY <3>3 DEF AnswersTo
    <3>5. Acknowledged(k)'
      BY <1>1, <1>11, <2>0, <2>3, <3>4, AckAppend DEF Answered
    <3> QED BY <1>0, <1>2, <1>11, <2>0, <2>1, <3>2, <3>5 DEF Answered, Ordinary
  <2> QED BY <1>0, <2>2, <2>3
<1>12. Agreement'
  BY <1>0, <1>8, <1>9, <1>10, <1>11, AgreementKept DEF Ordinary
<1> QED BY <1>6, <1>7, <1>12 DEF LinkInv

LEMMA StartsInv == ASSUME Setting, LinkInv, Starts PROVE LinkInv'
<1>0. /\ Ordinary /\ pc = "first" /\ pc' = "body" /\ rx # <<>> /\ rx' = Tail(rx)
      /\ Head(rx) = "$" /\ mRequest' = <<"$">> /\ UNCHANGED <<tx, mResponse, gRunning>>
  BY DEF Starts
<1>1. LinkTypes /\ Release /\ Agreement /\ rx \in Seq(Symbol)
  BY DEF LinkInv, LinkTypes
<1>2. Stopped /\ Stopped'
  BY <1>0 DEF Stopped
<1>3. \A S : rx \in Seq(S) => rx' \in Seq(S) /\ Head(rx) \in S
  BY <1>0, TailSeq
<1>4. "$" \in Symbol /\ "$" \notin Noise
  BY DEF Symbol, Framing, Noise
<1>5. LinkTypes'
  <2>1. \A b \in Symbol : <<b>> \in Seq(Symbol)
    OBVIOUS
  <2>2. rx' \in Seq(Symbol) /\ mRequest' \in Seq(Symbol)
    BY <1>0, <1>1, <1>3, <1>4, <2>1
  <2> QED BY <1>0, <1>1, <1>2, <2>2 DEF LinkTypes, Ordinary, Location
<1>6. Release'
  BY <1>0, <1>1, <1>2, <1>3 DEF Release, Ordinary
<1>7. ~Clean
  BY <1>0, <1>3, <1>4 DEF Clean
<1>8. ~OffOK /\ ~IdleOK /\ \A k : ~Answered(k)
  BY <1>0, <1>7 DEF OffOK, IdleOK, Answered
<1>9. ASSUME hpc = "ack", Pending PROVE Pending'
  <2>0. /\ Frame(hcmd) \in Seq(Symbol) /\ Len(Frame(hcmd)) \in Nat
        /\ Len(Frame(hcmd)) >= 4
    BY <1>9, CommandFrame
  <2>1. InFlight
    BY <1>0, <1>7, <1>9 DEF Pending
  <2>2. PICK k \in Nat : Carries(rx, k, Frame(hcmd))
    BY <1>0, <2>1 DEF InFlight, wire
  <2>3. k = 0
    <3> SUFFICES ASSUME k > 0 PROVE FALSE
      OBVIOUS
    <3>1. Head(rx) \in Noise
      BY <1>1, <2>0, <2>2, CarriesTail
    <3> QED BY <1>0, <1>4, <3>1
  <2>4. wire' = rx
    <3>1. Append(<<>>, Head(rx)) \o Tail(rx) = <<>> \o rx
      BY <1>0, <1>1, EmptyInSeq, WireRead
    <3>2. Append(<<>>, "$") = <<"$">> /\ <<>> \o rx = rx
      BY <1>1
    <3>3. wire' = <<"$">> \o Tail(rx)
      BY <1>0 DEF wire
    <3> QED BY <1>0, <3>1, <3>2, <3>3
  <2>5. Len(mRequest') < Len(Frame(hcmd))
    <3>1. Len(<<"$">>) = 1
      OBVIOUS
    <3> QED BY <1>0, <2>0, <3>1
  <2>6. InFlight'
    <3>1. Frame(hcmd)' = Frame(hcmd)
      BY <1>0 DEF Ordinary
    <3> QED BY <2>2, <2>3, <2>4, <2>5, <3>1 DEF InFlight
  <2> QED BY <1>0, <1>2, <1>9, <2>6 DEF Pending, Ordinary
<1>10. Agreement'
  BY <1>0, <1>8, <1>9, AgreementKept DEF Ordinary
<1> QED BY <1>5, <1>6, <1>10 DEF LinkInv

LEMMA GathersInv == ASSUME Setting, LinkInv, Gathers PROVE LinkInv'
<1>0. /\ Ordinary /\ pc = "body" /\ pc' = "body" /\ rx # <<>> /\ rx' = Tail(rx)
      /\ mRequest' = Append(mRequest, Head(rx)) /\ Len(mRequest') < Len(Frame(hcmd))
      /\ UNCHANGED <<tx, mResponse, gRunning>>
  BY DEF Gathers
<1>1. LinkTypes /\ Release /\ Agreement /\ rx \in Seq(Symbol) /\ mRequest \in Seq(Symbol)
  BY DEF LinkInv, LinkTypes
<1>2. Stopped /\ Stopped'
  BY <1>0 DEF Stopped
<1>3. \A S : rx \in Seq(S) => rx' \in Seq(S) /\ Head(rx) \in S
  BY <1>0, TailSeq
<1>4. LinkTypes'
  <2>1. rx' \in Seq(Symbol) /\ mRequest' \in Seq(Symbol)
    BY <1>0, <1>1, <1>3
  <2> QED BY <1>0, <1>1, <1>2, <2>1 DEF LinkTypes, Ordinary
<1>5. Release'
  BY <1>0, <1>1, <1>2, <1>3 DEF Release, Ordinary
<1>6. ~OffOK /\ ~IdleOK /\ \A k : ~Answered(k)
  BY <1>0 DEF OffOK, IdleOK, Answered, Clean
<1>7. ASSUME Pending PROVE Pending'
  <2>1. Carries(mRequest \o rx, 0, Frame(hcmd))
    BY <1>0, BodyState
  <2>2. wire' = mRequest \o rx
    <3>1. wire' = Append(mRequest, Head(rx)) \o Tail(rx)
      BY <1>0 DEF wire
    <3> QED BY <1>0, <1>1, <3>1, WireRead
  <2>3. InFlight'
    <3>1. Frame(hcmd)' = Frame(hcmd)
      BY <1>0 DEF Ordinary
    <3> QED BY <1>0, <2>1, <2>2, <3>1 DEF InFlight
  <2> QED BY <1>0, <1>2, <1>7, <2>3 DEF Pending, Ordinary
<1>8. Agreement'
  BY <1>0, <1>6, <1>7, AgreementKept DEF Ordinary
<1> QED BY <1>4, <1>5, <1>8 DEF LinkInv

\* The acknowledgement and the responses of a command go out in one piece.
LEMMA AckSent ==
    ASSUME NEW t \in Seq(Packets), NEW S, NEW rs \in Seq(S), NEW u,
           u = t \o <<Ack>> \o rs
    PROVE  /\ u \in Seq(Packets \cup {Ack} \cup S)
           /\ Len(u) = Len(t) + 1 + Len(rs)
           /\ \A j \in 1 .. Len(t) : u[j] = t[j]
           /\ u[Len(t) + 1] = Ack
           /\ \A j \in Len(t) + 2 .. Len(u) : u[j] \in S
<1> DEFINE a == t \o <<Ack>>
<1>0. Len(t) \in Nat /\ Len(rs) \in Nat
  OBVIOUS
<1>1. /\ a \in Seq(Packets \cup {Ack}) /\ Len(a) = Len(t) + 1 /\ a[Len(t) + 1] = Ack
      /\ \A j \in 1 .. Len(t) : a[j] = t[j]
  OBVIOUS
<1> HIDE DEF a
<1>2. u = a \o rs
  BY DEF a
<1>3. a \in Seq(Packets \cup {Ack} \cup S) /\ rs \in Seq(Packets \cup {Ack} \cup S)
  <2>1. a \in Seq(Packets \cup {Ack})
    BY <1>1
  <2> QED BY <2>1
<1>4. /\ u \in Seq(Packets \cup {Ack} \cup S) /\ Len(u) = Len(a) + Len(rs)
      /\ \A j \in 1 .. Len(a) : u[j] = a[j]
      /\ \A j \in 1 .. Len(rs) : u[Len(a) + j] = rs[j]
  <2> DEFINE P == Packets \cup {Ack} \cup S
  <2>1. a \in Seq(P) /\ rs \in Seq(P)
    BY <1>3
  <2> HIDE DEF P
  <2>2. /\ u \in Seq(P) /\ Len(u) = Len(a) + Len(rs)
        /\ \A j \in 1 .. Len(a) : u[j] = a[j]
        /\ \A j \in 1 .. Len(rs) : u[Len(a) + j] = rs[j]
    <3>1. /\ a \o rs \in Seq(P) /\ Len(a \o rs) = Len(a) + Len(rs)
          /\ \A j \in 1 .. Len(a) : (a \o rs)[j] = a[j]
          /\ \A j \in 1 .. Len(rs) : (a \o rs)[Len(a) + j] = rs[j]
      BY <2>1
    <3> QED BY <1>2, <3>1, Zenon
  <2> QED BY <2>2 DEF P
<1>5. Len(u) = Len(t) + 1 + Len(rs)
  BY <1>1, <1>4
<1>6. \A j \in 1 .. Len(t) : u[j] = t[j]
  BY <1>0, <1>1, <1>4
<1>7. u[Len(t) + 1] = Ack
  BY <1>0, <1>1, <1>4
<1>8. \A j \in Len(t) + 2 .. Len(u) : u[j] \in S
  <2> TAKE j \in Len(t) + 2 .. Len(u)
  <2> DEFINE i == j - Len(t) - 1
  <2>1. i \in 1 .. Len(rs) /\ j = Len(a) + i
    <3>1. \A x, y \in Nat : \A l \in x + 2 .. x + 1 + y :
              l - x - 1 \in 1 .. y /\ l = x + 1 + (l - x - 1)
      OBVIOUS
    <3>2. Len(a) = Len(t) + 1
      BY <1>1
    <3> QED BY <1>0, <1>5, <3>1, <3>2, Zenon
  <2> HIDE DEF i
  <2>2. rs[i] \in S
    BY <2>1
  <2> QED BY <1>4, <2>1, <2>2
<1> QED BY <1>4, <1>5, <1>6, <1>7, <1>8

LEMMA ResponsesFit ==
    ASSUME NEW c
    PROVE  /\ [i \in DOMAIN Responses(c) |-> Packet(Responses(c)[i])] \in Seq(AnswersTo(c))
           /\ c \in {Continue, Step} => [i \in DOMAIN Responses(c) |-> Packet(Responses(c)[i])] = <<>>
<1>1. CASE c \in {Continue, Step}
  <2>1. Responses(c) = <<>>
    BY <1>1 DEF Responses
  <2>2. [i \in DOMAIN <<>> |-> Packet(<<>>[i])] = <<>>
    OBVIOUS
  <2> QED BY <2>1, <2>2, EmptyInSeq
<1>2. CASE c \notin {Continue, Step} /\ c = MonitorR
  <2>1. Responses(c) = <<"O", "OK">>
    BY <1>2 DEF Responses
  <2>2. [i \in DOMAIN <<"O", "OK">> |-> Packet(<<"O", "OK">>[i])] = <<Packet("O"), Packet("OK")>>
    OBVIOUS
  <2>3. ~Resumes(c)
    BY <1>2 DEF Resumes, MonitorR, Continue, Step, Reboot
  <2>4. Packet("O") \in AnswersTo(c) /\ Packet("OK") \in AnswersTo(c)
    BY <1>2, <2>3 DEF AnswersTo, RepliesTo
  <2>5. \A S : \A u, v \in S : <<u, v>> \in Seq(S)
    OBVIOUS
  <2>6. <<Packet("O"), Packet("OK")>> \in Seq(AnswersTo(c)) /\ c \notin {Continue, Step}
    BY <1>2, <2>4, <2>5
  <2> QED BY <2>1, <2>2, <2>6, Zenon
<1>3. CASE c \notin {Continue, Step, MonitorR}
  <2>1. Responses(c) = <<Answer(c)>>
    BY <1>3 DEF Responses
  <2>2. [i \in DOMAIN <<Answer(c)>> |-> Packet(<<Answer(c)>>[i])] = <<Packet(Answer(c))>>
    OBVIOUS
  <2>3. Answer(c) \in RepliesTo(c)
    <3>1. Answer(Reboot) = "E"
      BY DEF Answer, Reboot
    <3>2. Resumes(c) => c = Reboot
      BY <1>3 DEF Resumes
    <3> QED BY <1>3, <3>1, <3>2 DEF RepliesTo
  <2>4. Packet(Answer(c)) \in AnswersTo(c)
    BY <2>3 DEF AnswersTo
  <2>5. \A S : \A u \in S : <<u>> \in Seq(S)
    OBVIOUS
  <2> QED BY <1>3, <2>1, <2>2, <2>4, <2>5, Zenon
<1> QED BY <1>1, <1>2, <1>3

LEMMA ExecutesInv == ASSUME Setting, LinkInv, Executes PROVE LinkInv'
<1> DEFINE rs == [i \in DOMAIN Responses(hcmd) |-> Packet(Responses(hcmd)[i])]
<1>k. PICK k \in Nat : k = Len(tx) + 1
  BY DEF LinkInv, LinkTypes
<1>0. /\ pc = "body" /\ pc' = "first" /\ rx' \in Seq({"+"}) /\ mRequest' = <<>>
      /\ tx' = tx \o <<Ack>> \o rs
      /\ mResponse' = IF hcmd \in {Continue, Step} THEN mResponse ELSE ReplyTo(hcmd)
      /\ gRunning' = (gRunning \/ hcmd \in {Continue, Step})
      /\ mRebootOnContinue' = (mRebootOnContinue \/ hcmd = MonitorR)
      /\ mConnectionOccurred' = TRUE /\ times' = times + 1
      /\ UNCHANGED <<from, hpc, hcmd, faults>>
  BY DEF Executes
<1>1. LinkTypes /\ Release /\ Agreement
  BY DEF LinkInv
<1>2. hpc = "ack" /\ hcmd \in Commands /\ tx \in Seq(Packets) /\ times <= faults
  BY <1>0, BodyState
<1>3. rs \in Seq(AnswersTo(hcmd)) /\ (hcmd \in {Continue, Step} => rs = <<>>)
  BY ResponsesFit
<1> HIDE DEF rs
<1>4. Stopped /\ Stopped' /\ mResponse \in Response
  BY <1>0, <1>1 DEF Stopped, LinkTypes
<1>5. /\ tx' \in Seq(Packets \cup {Ack} \cup AnswersTo(hcmd))
      /\ Len(tx') = Len(tx) + 1 + Len(rs) /\ Len(tx) \in Nat /\ Len(rs) \in Nat
      /\ \A j \in 1 .. Len(tx) : tx'[j] = tx[j]
      /\ tx'[k] = Ack
      /\ \A j \in Len(tx) + 2 .. Len(tx') : tx'[j] \in AnswersTo(hcmd)
  BY <1>k, <1>0, <1>2, <1>3, AckSent
<1>6. rx' \in Seq(Symbol) /\ rx' \in Seq(Noise) /\ rx' \in Seq(Symbol \ {"-"})
  <2>1. "+" \in Symbol /\ "+" \in Noise /\ "+" \in Symbol \ {"-"}
    BY DEF Symbol, Framing, Noise
  <2>2. \A S : "+" \in S => rx' \in Seq(S)
    BY <1>0
  <2> QED BY <2>1, <2>2
<1>7. LinkTypes'
  <2>1. tx' \in Seq(Heard)
    <3>1. Packets \cup {Ack} \cup AnswersTo(hcmd) = Heard
      BY AnswersArePackets DEF Heard
    <3> QED BY <1>5, <3>1
  <2>2. mResponse' \in Response
    BY <1>0, <1>4, AnswersArePackets
  <2>3. gRunning' \in BOOLEAN /\ mRebootOnContinue' \in BOOLEAN
    BY <1>0, <1>1, Zenon DEF LinkTypes
  <2>4. times' \in Nat /\ faults' \in Nat
    BY <1>0, <1>1 DEF LinkTypes
  <2> QED BY <1>0, <1>1, <1>6, <2>1, <2>2, <2>3, <2>4, EmptyInSeq DEF LinkTypes, Location
<1>8. gRunning' => hcmd \in {Continue, Step}
  BY <1>0, <1>1, <1>4, Zenon DEF Release
<1>9. Release'
  <2>1. RebootWorks => ~mRebootOnContinue'
    <3>1. RebootWorks => hcmd # MonitorR
      BY <1>2 DEF Setting, NoReset
    <3> QED BY <1>0, <1>1, <3>1, Zenon DEF Release
  <2> QED BY <1>0, <1>2, <1>4, <1>6, <1>8, <2>1 DEF Release
<1>10. Acknowledged(k)'
  <2>1. \A j \in 1 .. k - 1 : tx'[j] \in Packets
    BY <1>k, <1>2, <1>5
  <2>2. k <= Len(tx')
    BY <1>k, <1>5
  <2>3. \A j \in k + 1 .. Len(tx') : tx'[j] \in AnswersTo(hcmd)'
    BY <1>k, <1>0, <1>5 DEF AnswersTo, RepliesTo, Resumes
  <2>4. tx'[k] = Ack
    BY <1>5
  <2> QED BY <1>0, <2>1, <2>2, <2>3, <2>4 DEF Acknowledged
<1>11. Answered(k)'
  <2>1. Clean'
    BY <1>0, <1>6 DEF Clean
  <2>2. times' <= 1 + faults'
    BY <1>0, <1>1, <1>2 DEF LinkTypes
  <2>3. ReplyTo(hcmd)' = ReplyTo(hcmd) /\ Resumes(hcmd)' = Resumes(hcmd)
    BY <1>0 DEF ReplyTo, Resumes
  <2>4. CASE hcmd \in {Continue, Step}
    <3>1. ~Halted' /\ Resumes(hcmd)
      BY <1>0, <2>4, Zenon DEF Halted, Resumes
    <3>2. ~(Len(tx') > k)
      <4>1. Len(rs) = 0
        <5>1. Len(<<>>) = 0
          OBVIOUS
        <5> QED BY <1>3, <2>4, <5>1
      <4> QED BY <1>k, <1>5, <4>1
    <3> QED BY <1>0, <1>10, <2>1, <2>2, <2>3, <3>1, <3>2 DEF Answered
  <2>5. CASE hcmd \notin {Continue, Step}
    <3>1. Halted'
      BY <1>4, <1>8, <2>5 DEF Halted
    <3>2. mResponse' = ReplyTo(hcmd)
      BY <1>0, <2>5
    <3>3. Resumes(hcmd) => ReplyTo(hcmd) = "E"
      <4>1. Resumes(hcmd) => hcmd = Reboot
        BY <2>5 DEF Resumes
      <4>2. ReplyTo(Reboot) = "E"
        BY DEF ReplyTo, Answer, Reboot, MonitorR
      <4> QED BY <4>1, <4>2
    <3> QED BY <1>0, <1>10, <2>1, <2>2, <2>3, <3>1, <3>2, <3>3 DEF Answered
  <2> QED BY <2>4, <2>5
<1>12. Agreement'
  <2>1. k \in Nat \ {0}
    BY <1>k, <1>5
  <2>2. hpc' = "ack"
    BY <1>0, <1>2
  <2> QED BY <1>11, <2>1, <2>2 DEF Agreement
<1> QED BY <1>7, <1>9, <1>12 DEF LinkInv

-----------------------------------------------------------------------------
\* The steps of the host leave the stub alone.
StubKept == UNCHANGED <<pc, from, mRequest, mResponse, gRunning, mRebootOnContinue,
                        mConnectionOccurred>>

LEMMA StubKeptFacts ==
    ASSUME UNCHANGED stubRest
    PROVE  StubKept /\ Stopped' = Stopped /\ Halted' = Halted
BY DEF stubRest, sessionVars, StubKept, Stopped, Halted

\* Another acknowledgement on its way disturbs no packet.
LEMMA PendingAfterPlus ==
    ASSUME LinkInv, Pending, hpc # "off", StubKept, Stopped' = Stopped,
           rx' = Append(rx, "+"), tx' \in Seq(Packets), UNCHANGED <<hcmd, times, faults>>
    PROVE  Pending'
<1>0. rx \in Seq(Symbol) /\ mRequest \in Seq(Symbol) /\ "+" \in Symbol /\ "+" \in Noise
      /\ "+" \in Symbol \ {"^C"}
  BY DEF LinkInv, LinkTypes, Symbol, Framing, Noise
<1>1. \A S : rx \in Seq(S) /\ "+" \in S => rx' \in Seq(S)
  OBVIOUS
<1>2. tx' \in Seq(Packets) /\ times' <= faults'
  BY DEF Pending
<1>3. CASE Clean
  BY <1>0, <1>1, <1>2, <1>3 DEF Clean, Pending, StubKept
<1>4. CASE pc = "polling" /\ NoBreak
  BY <1>0, <1>1, <1>2, <1>4 DEF NoBreak, Pending, StubKept
<1>5. CASE InFlight /\ pc # "polling" /\ (~Stopped => NoBreak)
  <2>0. Frame(hcmd) \in Seq(Symbol) /\ Frame(hcmd)' = Frame(hcmd)
    BY CommandFrame
  <2>1. PICK k \in Nat : /\ Carries(wire, k, Frame(hcmd))
                         /\ pc = "body" => k = 0 /\ Len(mRequest) < Len(Frame(hcmd))
    BY <1>5 DEF InFlight
  <2>2. wire \in Seq(Symbol) /\ wire' = Append(wire, "+")
    <3>1. CASE pc = "body"
      <4>1. wire = mRequest \o rx /\ wire' = mRequest \o Append(rx, "+")
        BY <3>1 DEF wire, StubKept
      <4>2. mRequest \o rx \in Seq(Symbol)
        BY <1>0
      <4> QED BY <1>0, <4>1, <4>2, WireAppend
    <3>2. CASE pc # "body"
      BY <1>0, <3>2 DEF wire, StubKept
    <3> QED BY <3>1, <3>2
  <2>3. Carries(wire', k, Frame(hcmd))
    BY <2>0, <2>1, <2>2, CarriesAppend
  <2>4. InFlight'
    BY <2>0, <2>1, <2>3 DEF InFlight, StubKept
  <2>5. NoBreak => NoBreak'
    BY <1>0, <1>1 DEF NoBreak
  <2> QED BY <1>2, <1>5, <2>4, <2>5 DEF Pending, StubKept
<1> QED BY <1>3, <1>4, <1>5 DEF Pending

\* The host reads a message after, or at, the acknowledgement, and adds noise of its own.
LEMMA AnsweredReads ==
    ASSUME LinkInv, NEW k \in Nat, NEW i \in Nat, Answered(k), Acknowledged(i)',
           i = (IF k = 0 THEN 0 ELSE k - 1),
           StubKept, Halted' = Halted, tx # <<>>, tx' = Tail(tx),
           rx' = rx \/ \E b \in Noise : rx' = Append(rx, b),
           UNCHANGED <<hcmd, times, faults>>
    PROVE  Answered(i)'
<1>1. Clean'
  <2>1. rx \in Seq(Noise) /\ pc # "body"
    BY DEF Answered, Clean
  <2>2. rx' \in Seq(Noise)
    BY <2>1
  <2> QED BY <2>1, <2>2 DEF Clean, StubKept
<1>2. Resumes(hcmd)' = Resumes(hcmd) /\ ReplyTo(hcmd)' = ReplyTo(hcmd)
  BY DEF Resumes, ReplyTo
<1>3. Len(tx') > i => Len(tx) > k
  <2>1. Len(tx) \in Nat /\ Len(tx') = Len(tx) - 1
    BY DEF LinkInv, LinkTypes
  <2> QED BY <2>1
<1>4. mConnectionOccurred' /\ times' <= 1 + faults' /\ mResponse' = mResponse
  BY DEF Answered, StubKept
<1> QED BY <1>1, <1>2, <1>3, <1>4 DEF Answered

LEMMA HostReadsInv == ASSUME Setting, LinkInv, HostReads PROVE LinkInv'
<1> DEFINE m == Head(tx)
<1>0. /\ tx # <<>> /\ tx' = Tail(tx) /\ UNCHANGED <<hcmd, faults, times>>
      /\ ReadWhileUnacknowledged(m) \/ ReadWhileWaiting(m)
      /\ UNCHANGED stubRest
  BY DEF HostReads
<1>1. StubKept /\ Stopped' = Stopped /\ Halted' = Halted
  BY <1>0, StubKeptFacts
<1>2. LinkTypes /\ Release /\ Agreement /\ tx \in Seq(Heard) /\ rx \in Seq(Symbol)
  BY DEF LinkInv, LinkTypes
<1>3. m \in Heard /\ m = tx[1] /\ tx' \in Seq(Heard) /\ Len(tx) \in Nat /\ Len(tx) >= 1
  BY <1>0, <1>2
<1>4. m # Nak /\ (m.kind = "$" => m # Ack) /\ (m # Ack => m \in Packets)
  BY <1>3, MessageFacts DEF Heard
<1>5. \A S : tx \in Seq(S) => m \in S /\ tx' \in Seq(S)
  BY <1>0, TailSeq
<1> HIDE DEF m
<1>6. Resumes(hcmd)' = Resumes(hcmd)
  BY <1>0 DEF Resumes
<1>7. \A k \in Nat : Answered(k) => Acknowledged(IF k = 0 THEN 0 ELSE k - 1)'
  BY <1>0, <1>2, AckTail DEF Answered
\* All but where the host is, and what it has added.
<1>8. ASSUME hpc' \in HostState,
             rx' = rx \/ rx' = Append(rx, "+") \/ (rx' = Append(rx, "-") /\ ~gRunning),
             Stopped /\ gRunning => hpc' \in {"ack", "run"},
             hpc' # "off" => hpc # "off"
      PROVE  LinkTypes' /\ Release'
  <2>1. "+" \in Symbol /\ "-" \in Symbol /\ "+" \in Symbol \ {"-"}
    BY DEF Symbol, Framing
  <2>2. rx' \in Seq(Symbol) /\ (gRunning => rx' \in Seq(Symbol \ {"-"}))
    <3>1. \A S : \A b \in S : rx \in Seq(S) => Append(rx, b) \in Seq(S)
      OBVIOUS
    <3>2. rx' \in Seq(Symbol)
      BY <1>2, <1>8, <2>1, <3>1, Zenon
    <3>3. gRunning => rx' \in Seq(Symbol \ {"-"})
      BY <1>2, <1>8, <2>1, <3>1, Zenon DEF Release
    <3> QED BY <3>2, <3>3
  <2>3. LinkTypes'
    BY <1>0, <1>1, <1>2, <1>3, <1>8, <2>2 DEF LinkTypes, StubKept
  <2>4. Release'
    BY <1>0, <1>1, <1>2, <1>8, <2>2 DEF Release, StubKept
  <2> QED BY <2>3, <2>4
<1>9. CASE hpc = "off"
  <2>1. hpc' = "off" /\ rx' = rx
    BY <1>0, <1>9 DEF ReadWhileUnacknowledged, ReadWhileWaiting
  <2>2. OffOK'
    BY <1>0, <1>1, <1>2, <1>5, <1>9, <2>1 DEF Agreement, OffOK, StubKept
  <2>3. ~(Stopped /\ gRunning)
    BY <1>2, <1>9 DEF Release
  <2>4. LinkTypes' /\ Release'
    BY <1>8, <2>1, <2>3 DEF HostState
  <2> QED BY <2>1, <2>2, <2>4 DEF LinkInv, Agreement
<1>10. CASE hpc = "ack" /\ m = Ack
  <2>1. hpc' = (IF Resumes(hcmd) THEN "run" ELSE "reply") /\ rx' = rx
    BY <1>0, <1>4, <1>10, MessageFacts DEF ReadWhileUnacknowledged, ReadWhileWaiting
  <2>2. ~Pending
    BY <1>5, <1>10, MessageFacts DEF Pending
  <2>3. PICK k \in Nat \ {0} : Answered(k)
    BY <1>2, <1>10, <2>2 DEF Agreement
  <2>4. k = 1
    <3> SUFFICES ASSUME k # 1 PROVE FALSE
      OBVIOUS
    <3>1. 1 \in 1 .. k - 1
      OBVIOUS
    <3>2. tx[1] \in Packets
      BY <2>3, <3>1 DEF Answered, Acknowledged
    <3> QED BY <1>3, <1>10, <3>2, MessageFacts
  <2>5. Acknowledged(0)'
    <3>1. (IF k = 0 THEN 0 ELSE k - 1) = 0
      BY <2>4
    <3> QED BY <1>7, <2>3, <3>1
  <2>6. Answered(0)'
    <3>1. k \in Nat /\ 0 \in Nat /\ 0 = (IF k = 0 THEN 0 ELSE k - 1)
      BY <2>4
    <3> QED BY <1>0, <1>1, <2>1, <2>3, <2>5, <3>1, AnsweredReads
  <2>7. Stopped /\ gRunning => Resumes(hcmd)
    BY <1>2 DEF Release, Resumes
  <2>8. LinkTypes' /\ Release'
    BY <1>8, <1>10, <2>1, <2>7 DEF HostState
  <2> QED BY <1>6, <2>1, <2>6, <2>8 DEF LinkInv, Agreement
<1>11. CASE hpc = "ack" /\ m # Ack
  <2>1. hpc' = "ack" /\ rx' = Append(rx, "+") /\ m.kind = "$"
    BY <1>0, <1>4, <1>11 DEF ReadWhileUnacknowledged, ReadWhileWaiting
  <2>2. LinkTypes' /\ Release'
    BY <1>8, <1>11, <2>1 DEF HostState
  <2>3. CASE Pending
    <3>1. Pending'
      BY <1>0, <1>1, <1>5, <1>11, <2>1, <2>3, PendingAfterPlus DEF Pending
    <3> QED BY <2>1, <2>2, <3>1 DEF LinkInv, Agreement
  <2>4. CASE \E k \in Nat \ {0} : Answered(k)
    <3>1. PICK k \in Nat \ {0} : Answered(k)
      BY <2>4
    <3>2. k # 1
      BY <1>3, <1>11, <3>1 DEF Answered, Acknowledged
    <3>3. PICK i \in Nat \ {0} : i = (IF k = 0 THEN 0 ELSE k - 1)
      BY <3>2
    <3>4. Acknowledged(i)'
      BY <1>7, <3>1, <3>3
    <3>5. Answered(i)'
      <4>1. "+" \in Noise /\ k \in Nat /\ i \in Nat
        BY DEF Noise
      <4> QED BY <1>0, <1>1, <2>1, <3>1, <3>3, <3>4, <4>1, AnsweredReads
    <3> QED BY <2>1, <2>2, <3>5 DEF LinkInv, Agreement
  <2> QED BY <1>2, <1>11, <2>3, <2>4 DEF Agreement
<1>12. CASE hpc \in {"reply", "run"}
  <2>1. Answered(0) /\ (hpc = "run" <=> Resumes(hcmd))
    BY <1>2, <1>12 DEF Agreement
  <2>2. m \in AnswersTo(hcmd) /\ m \in Packets /\ m # Ack
    <3>1. 1 \in 0 + 1 .. Len(tx)
      BY <1>3
    <3>2. m \in AnswersTo(hcmd)
      BY <1>3, <2>1, <3>1 DEF Answered, Acknowledged
    <3> QED BY <3>2, AnswersArePackets, MessageFacts
  <2>3. Halted /\ ~gRunning
    <3>1. Len(tx) > 0
      BY <1>3
    <3> QED BY <2>1, <3>1 DEF Answered, Halted
  <2>4. Acknowledged(0)'
    <3>1. (IF 0 = 0 THEN 0 ELSE 0 - 1) = 0 /\ 0 \in Nat
      OBVIOUS
    <3> QED BY <1>7, <2>1, <3>1
  <2>5. \E b \in {"+", "-"} : rx' = Append(rx, b)
    BY <1>0, <1>4, <1>12, <2>2 DEF ReadWhileUnacknowledged, ReadWhileWaiting
  <2>6. Answered(0)'
    <3>1. 0 \in Nat /\ 0 = (IF 0 = 0 THEN 0 ELSE 0 - 1)
      OBVIOUS
    <3>2. \E b \in Noise : rx' = Append(rx, b)
      BY <2>5 DEF Noise
    <3> QED BY <1>0, <1>1, <2>1, <2>4, <3>1, <3>2, AnsweredReads
  <2>7. hpc' = hpc \/ hpc' = "idle"
    BY <1>0, <1>4, <1>12, <2>2 DEF ReadWhileUnacknowledged, ReadWhileWaiting
  <2>8. LinkTypes' /\ Release'
    BY <1>8, <1>12, <2>3, <2>5, <2>7 DEF HostState
  <2>9. CASE hpc' = hpc
    BY <1>6, <1>12, <2>1, <2>6, <2>8, <2>9 DEF LinkInv, Agreement
  <2>10. CASE hpc' = "idle"
    <3>1. tx' \in Seq(Packets)
      <4>1. \A j \in 1 .. Len(tx') : tx'[j] \in Packets
        <5>1. \A j \in 0 + 1 .. Len(tx') : tx'[j] \in AnswersTo(hcmd)'
          BY <2>4 DEF Acknowledged
        <5>2. AnswersTo(hcmd)' \subseteq Packets
          BY <1>0, AnswersArePackets DEF AnswersTo, RepliesTo, Resumes
        <5>3. 0 + 1 = 1
          OBVIOUS
        <5> QED BY <5>1, <5>2, <5>3
      <4> QED BY <1>3, <4>1, SeqOfWhole
    <3>2. IdleOK'
      BY <1>1, <2>3, <2>6, <3>1 DEF IdleOK, Answered
    <3> QED BY <2>8, <2>10, <3>2 DEF LinkInv, Agreement
  <2> QED BY <2>7, <2>9, <2>10
<1>13. CASE hpc = "idle"
  BY <1>0, <1>13 DEF ReadWhileUnacknowledged, ReadWhileWaiting
<1>14. hpc \in HostState
  BY <1>2 DEF LinkTypes
<1> QED BY <1>9, <1>10, <1>11, <1>12, <1>13, <1>14 DEF HostState

\* A whole packet arrives where no other one is.
LEMMA PacketSent ==
    ASSUME Setting, LinkInv, NEW c \in Commands, Clean, rx' = rx \o Frame(c), hcmd' = c,
           StubKept, Stopped' = Stopped, tx' = tx, tx \in Seq(Packets), times' <= faults',
           Stopped \/ rx = <<>>
    PROVE  Pending' /\ rx' \in Seq(Symbol) /\ (rx = <<>> => rx' \in Seq(Symbol \ {"-"}))
<1>0. c \in Seq(Text) /\ rx \in Seq(Symbol) /\ rx \in Seq(Noise) /\ pc # "body"
  BY CommandsAssumption DEF LinkInv, LinkTypes, Clean
<1> DEFINE f == Frame(c)
<1>1. /\ f \in Seq(Symbol) /\ Len(f) = Len(c) + 4 /\ Len(c) \in Nat
      /\ \A i \in 1 .. Len(c) + 4 : f[i] \notin {"^C", "-"}
  BY <1>0, FrameShape
<1> HIDE DEF f
<1>2. rx' = rx \o f
  BY DEF f
<1>3. rx' \in Seq(Symbol)
  BY <1>0, <1>1, <1>2
<1>4. Len(rx) \in Nat /\ Carries(rx', Len(rx), f)
  BY <1>0, <1>1, <1>2, CarriesNew
<1>5. InFlight'
  <2>1. wire' = rx' /\ Frame(hcmd)' = f
    BY <1>0 DEF wire, StubKept, f
  <2> QED BY <1>0, <1>4, <2>1 DEF InFlight, StubKept
<1>6. ASSUME rx = <<>> PROVE NoBreak' /\ rx' \in Seq(Symbol \ {"-"})
  <2>1. rx' = f
    BY <1>1, <1>2, <1>6
  <2>2. \A i \in 1 .. Len(f) : f[i] \in Symbol \ {"-"} /\ f[i] \in Symbol \ {"^C"}
    BY <1>1
  <2>3. f \in Seq(Symbol \ {"-"}) /\ f \in Seq(Symbol \ {"^C"})
    BY <1>1, <2>2, SeqOfWhole
  <2> QED BY <2>1, <2>3 DEF NoBreak
<1>7. Pending'
  <2>1. CASE pc # "polling"
    BY <1>5, <1>6, <2>1 DEF Pending, StubKept
  <2>2. CASE pc = "polling"
    <3>1. rx = <<>>
      BY <2>2 DEF Stopped
    <3> QED BY <1>6, <2>2, <3>1 DEF Pending, StubKept
  <2> QED BY <2>1, <2>2
<1> QED BY <1>3, <1>6, <1>7

LEMMA GiveInv == ASSUME Setting, LinkInv, NEW c \in Commands, Give(c) PROVE LinkInv'
<1>0. /\ hpc \in {"idle", "off"} /\ hpc' = "ack" /\ hcmd' = c /\ times' = 0
      /\ rx' = rx \o Frame(c) /\ UNCHANGED <<stubRest, tx, faults>>
  BY DEF Give
<1>1. StubKept /\ Stopped' = Stopped /\ Halted' = Halted
  BY <1>0, StubKeptFacts
<1>2. LinkTypes /\ Release /\ Agreement
  BY DEF LinkInv
<1>3. Clean /\ tx \in Seq(Packets) /\ (Stopped \/ rx = <<>>) /\ (gRunning => rx = <<>>)
  <2>1. CASE hpc = "idle"
    BY <1>2, <2>1 DEF Agreement, IdleOK, Halted
  <2>2. CASE hpc = "off"
    BY <1>2, <2>2, EmptyInSeq DEF Agreement, OffOK, Clean
  <2> QED BY <1>0, <2>1, <2>2
<1>4. times' <= faults' /\ times' \in Nat
  BY <1>0, <1>2 DEF LinkTypes
<1>5. Pending' /\ rx' \in Seq(Symbol) /\ (gRunning => rx' \in Seq(Symbol \ {"-"}))
  BY <1>0, <1>1, <1>3, <1>4, PacketSent
<1>6. LinkTypes'
  BY <1>0, <1>1, <1>2, <1>4, <1>5 DEF LinkTypes, StubKept, HostState
<1>7. ~(Stopped /\ gRunning)
  BY <1>0, <1>2 DEF Release
<1>8. Release'
  BY <1>0, <1>1, <1>2, <1>5, <1>7 DEF Release, StubKept
<1>9. Agreement'
  BY <1>0, <1>5 DEF Agreement
<1> QED BY <1>6, <1>8, <1>9 DEF LinkInv

\* The host adds noise while it waits for a response or a stop.
LEMMA NoiseInv ==
    ASSUME LinkInv, hpc \in {"reply", "run"}, UNCHANGED <<stubRest, tx, hpc, hcmd, faults, times>>,
           NEW b \in Noise, rx' = Append(rx, b), gRunning => b # "-"
    PROVE  LinkInv'
<1>1. StubKept /\ Stopped' = Stopped /\ Halted' = Halted
  BY StubKeptFacts
<1>2. LinkTypes /\ Release /\ Agreement /\ Answered(0) /\ rx \in Seq(Symbol)
  BY DEF LinkInv, LinkTypes, Agreement
<1>3. \A S : b \in S /\ rx \in Seq(S) => rx' \in Seq(S)
  OBVIOUS
<1>4. b \in Symbol /\ (gRunning => b \in Symbol \ {"-"})
  BY DEF Noise, Symbol, Framing
<1>5. rx' \in Seq(Symbol) /\ (gRunning => rx' \in Seq(Symbol \ {"-"}))
  BY <1>2, <1>3, <1>4, Zenon DEF Release
<1>6. LinkTypes'
  BY <1>1, <1>2, <1>5 DEF LinkTypes, StubKept
<1>7. Release'
  BY <1>1, <1>2, <1>5 DEF Release, StubKept
<1>8. Clean'
  BY <1>1, <1>2, <1>3 DEF Answered, Clean, StubKept
<1>9. Resumes(hcmd)' = Resumes(hcmd) /\ ReplyTo(hcmd)' = ReplyTo(hcmd)
  BY DEF Resumes, ReplyTo
<1>10. Acknowledged(0)'
  BY <1>2, AckSame DEF Answered
<1>11. Answered(0)'
  BY <1>1, <1>2, <1>8, <1>9, <1>10 DEF Answered, StubKept
<1>12. Agreement'
  BY <1>2, <1>9, <1>11 DEF Agreement
<1> QED BY <1>6, <1>7, <1>12 DEF LinkInv

LEMMA InterruptInv == ASSUME LinkInv, Interrupt PROVE LinkInv'
<1>1. "^C" \in Noise /\ "^C" # "-"
  BY DEF Noise
<1> QED BY <1>1, NoiseInv DEF Interrupt

LEMMA HostTimeoutInv == ASSUME Setting, LinkInv, HostTimeout PROVE LinkInv'
<1>0. /\ rx = <<>> /\ tx = <<>> /\ pc \in {"drain", "program"}
      /\ UNCHANGED <<stubRest, tx, hpc, hcmd, faults, times>>
  BY DEF HostTimeout, LineQuiet, hostVars
<1>1. StubKept /\ Stopped' = Stopped /\ Halted' = Halted
  BY <1>0, StubKeptFacts
<1>2. LinkTypes /\ Release /\ Agreement
  BY DEF LinkInv
<1>3. CASE hpc = "ack" /\ rx' = Frame(hcmd)
  <2>1. Pending
    <3>1. \A k \in Nat \ {0} : ~(k <= Len(<<>>))
      OBVIOUS
    <3>2. \A k \in Nat \ {0} : ~Answered(k)
      BY <1>0, <3>1 DEF Answered, Acknowledged
    <3> QED BY <1>2, <1>3, <3>2 DEF Agreement
  <2>2. hcmd \in Commands /\ Frame(hcmd) \in Seq(Symbol)
    BY <1>3, CommandFrame
  <2>3. rx' = rx \o Frame(hcmd)
    BY <1>0, <1>3, <2>2
  <2>4. Clean
    BY <1>0, EmptyInSeq DEF Clean
  <2>5. tx \in Seq(Packets) /\ times' <= faults'
    BY <1>0, <2>1 DEF Pending
  <2>6. Pending' /\ rx' \in Seq(Symbol) /\ rx' \in Seq(Symbol \ {"-"})
    BY <1>0, <1>1, <2>2, <2>3, <2>4, <2>5, PacketSent
  <2>7. LinkTypes'
    BY <1>0, <1>1, <1>2, <2>6 DEF LinkTypes, StubKept
  <2>8. Release'
    BY <1>0, <1>1, <1>2, <2>6 DEF Release, StubKept
  <2>9. Agreement'
    BY <1>0, <1>3, <2>6 DEF Agreement
  <2> QED BY <2>7, <2>8, <2>9 DEF LinkInv
<1>4. CASE hpc = "reply" /\ rx' = <<"-">>
  <2>1. ~gRunning
    BY <1>2, <1>4 DEF Agreement, Answered, Halted
  <2>2. rx' = Append(rx, "-") /\ "-" \in Noise
    BY <1>0, <1>4 DEF Noise
  <2> QED BY <1>0, <1>4, <2>1, <2>2, NoiseInv
<1> QED BY <1>3, <1>4 DEF HostTimeout

-----------------------------------------------------------------------------
\* What the line does to the messages to the host.
LEMMA ConcatFacts ==
    ASSUME NEW S, NEW a \in Seq(S), NEW b \in Seq(S)
    PROVE  /\ a \o b \in Seq(S) /\ Len(a \o b) = Len(a) + Len(b)
           /\ \A j \in 1 .. Len(a) : (a \o b)[j] = a[j]
           /\ \A j \in 1 .. Len(b) : (a \o b)[Len(a) + j] = b[j]
<1>1. a \o b \in Seq(S) /\ Len(a \o b) = Len(a) + Len(b)
  OBVIOUS
<1>2. \A j \in 1 .. Len(a) : (a \o b)[j] = a[j]
  OBVIOUS
<1>3. \A j \in 1 .. Len(b) : (a \o b)[Len(a) + j] = b[j]
  OBVIOUS
<1> QED BY <1>1, <1>2, <1>3

LEMMA WithoutFacts ==
    ASSUME NEW S, NEW s \in Seq(S), NEW i \in 1 .. Len(s)
    PROVE  /\ Without(s, i) \in Seq(S)
           /\ Len(Without(s, i)) = Len(s) - 1
           /\ \A j \in 1 .. i - 1 : Without(s, i)[j] = s[j]
           /\ \A j \in i .. Len(s) - 1 : Without(s, i)[j] = s[j + 1]
<1> DEFINE a == SubSeq(s, 1, i - 1)
           b == SubSeq(s, i + 1, Len(s))
<1>0. Len(s) \in Nat /\ i \in Nat /\ 1 <= i /\ i <= Len(s)
  OBVIOUS
<1>1. a \in Seq(S) /\ Len(a) = i - 1 /\ \A j \in 1 .. i - 1 : a[j] = s[j]
  BY <1>0
<1>2. b \in Seq(S) /\ Len(b) = Len(s) - i /\ \A j \in 1 .. Len(s) - i : b[j] = s[i + j]
  BY <1>0
<1> HIDE DEF a, b
<1>3. /\ a \o b \in Seq(S) /\ Len(a \o b) = Len(a) + Len(b)
      /\ \A j \in 1 .. Len(a) : (a \o b)[j] = a[j]
      /\ \A j \in 1 .. Len(b) : (a \o b)[Len(a) + j] = b[j]
  <2>1. a \in Seq(S) /\ b \in Seq(S)
    BY <1>1, <1>2
  <2> QED BY <2>1, ConcatFacts
<1>4. Without(s, i) = a \o b
  BY DEF Without, a, b
<1>5. Len(a \o b) = Len(s) - 1
  BY <1>0, <1>1, <1>2, <1>3
<1>6. \A j \in 1 .. i - 1 : (a \o b)[j] = s[j]
  BY <1>1, <1>3
<1>7. ASSUME NEW j \in i .. Len(s) - 1 PROVE (a \o b)[j] = s[j + 1]
  <2>1. PICK l \in 1 .. Len(s) - i : l = j - (i - 1)
    BY <1>0
  <2>2. (i - 1) + l = j /\ i + l = j + 1
    BY <1>0, <2>1
  <2>3. (a \o b)[(i - 1) + l] = b[l] /\ b[l] = s[i + l]
    BY <1>1, <1>2, <1>3, <2>1
  <2> QED BY <2>2, <2>3
<1> QED BY <1>3, <1>4, <1>5, <1>6, <1>7, Zenon

LEMMA GarbledSeq ==
    ASSUME NEW S, NEW s \in Seq(S), NEW i \in 1 .. Len(s), NEW g \in S
    PROVE  /\ [s EXCEPT ![i] = g] \in Seq(S)
           /\ Len([s EXCEPT ![i] = g]) = Len(s)
           /\ \A j \in 1 .. Len(s) : [s EXCEPT ![i] = g][j] = IF j = i THEN g ELSE s[j]
OBVIOUS

\* The acknowledgement survives the loss of another message,
LEMMA AckOtherLost ==
    ASSUME LinkTypes, NEW k \in Nat, Acknowledged(k), hcmd' = hcmd,
           NEW i \in 1 .. Len(tx), i # k, tx' = Without(tx, i)
    PROVE  Acknowledged(IF i < k THEN k - 1 ELSE k)'
<1> DEFINE l == IF i < k THEN k - 1 ELSE k
<1>0. tx \in Seq(Heard) /\ Len(tx) \in Nat /\ i \in Nat
  BY DEF LinkTypes
<1>1. /\ Len(tx') = Len(tx) - 1
      /\ \A j \in 1 .. i - 1 : tx'[j] = tx[j]
      /\ \A j \in i .. Len(tx) - 1 : tx'[j] = tx[j + 1]
  BY <1>0, WithoutFacts
<1>2. /\ l \in Nat /\ k <= Len(tx) /\ l <= Len(tx')
      /\ (i < k /\ k = l + 1) \/ (k < i /\ l = k)
  BY <1>0, <1>1 DEF Acknowledged
<1> HIDE DEF l
<1>3. \A j \in 1 .. l - 1 : tx'[j] \in Packets
  <2> TAKE j \in 1 .. l - 1
  <2>1. \/ j \in 1 .. i - 1 /\ j \in 1 .. k - 1
        \/ j \in i .. Len(tx) - 1 /\ j + 1 \in 1 .. k - 1
    BY <1>0, <1>2
  <2> QED BY <1>1, <2>1 DEF Acknowledged
<1>4. l > 0 => tx'[l] = Ack
  <2>1. l > 0 => k > 0 /\ ((l \in 1 .. i - 1 /\ l = k) \/ (l \in i .. Len(tx) - 1 /\ l + 1 = k))
    BY <1>0, <1>2
  <2> QED BY <1>1, <2>1 DEF Acknowledged
<1>5. \A j \in l + 1 .. Len(tx') : tx'[j] \in AnswersTo(hcmd)
  <2> TAKE j \in l + 1 .. Len(tx')
  <2>1. \/ j \in 1 .. i - 1 /\ j \in k + 1 .. Len(tx)
        \/ j \in i .. Len(tx) - 1 /\ j + 1 \in k + 1 .. Len(tx)
    BY <1>0, <1>1, <1>2
  <2> QED BY <1>1, <2>1 DEF Acknowledged
<1>6. Acknowledged(l)'
  BY <1>2, <1>3, <1>4, <1>5 DEF Acknowledged
<1> QED BY <1>6 DEF l

\* and the garbling of a packet.
LEMMA AckGarbled ==
    ASSUME LinkTypes, NEW k \in Nat, Acknowledged(k), hcmd' = hcmd,
           NEW i \in 1 .. Len(tx), i # k, tx' = [tx EXCEPT ![i] = Garbled]
    PROVE  Acknowledged(k)'
<1>0. tx \in Seq(Heard) /\ Len(tx) \in Nat /\ Garbled \in Heard /\ Garbled \in Packets
      /\ Garbled \in AnswersTo(hcmd)
  BY MessageFacts DEF LinkTypes, AnswersTo
<1>1. /\ Len(tx') = Len(tx)
      /\ \A j \in 1 .. Len(tx) : tx'[j] = IF j = i THEN Garbled ELSE tx[j]
  BY <1>0, GarbledSeq
<1>2. k <= Len(tx) /\ k <= Len(tx')
  BY <1>1 DEF Acknowledged
<1>3. \A j \in 1 .. k - 1 : tx'[j] \in Packets
  <2> TAKE j \in 1 .. k - 1
  <2>1. j \in 1 .. Len(tx)
    BY <1>0, <1>2
  <2> QED BY <1>0, <1>1, <2>1 DEF Acknowledged
<1>4. k > 0 => tx'[k] = Ack
  <2>1. k > 0 => k \in 1 .. Len(tx)
    BY <1>0, <1>2
  <2> QED BY <1>1, <2>1 DEF Acknowledged
<1>5. \A j \in k + 1 .. Len(tx') : tx'[j] \in AnswersTo(hcmd)
  <2> TAKE j \in k + 1 .. Len(tx')
  <2>1. j \in 1 .. Len(tx) /\ j \in k + 1 .. Len(tx)
    BY <1>0, <1>1, <1>2
  <2> QED BY <1>0, <1>1, <2>1 DEF Acknowledged
<1> QED BY <1>2, <1>3, <1>4, <1>5 DEF Acknowledged

\* When the acknowledgement itself is lost, only packets are left.
LEMMA AckLost ==
    ASSUME LinkTypes, NEW k \in Nat \ {0}, Acknowledged(k), tx' = Without(tx, k)
    PROVE  tx' \in Seq(Packets)
<1>0. tx \in Seq(Heard) /\ Len(tx) \in Nat /\ k \in 1 .. Len(tx)
  BY DEF LinkTypes, Acknowledged
<1>1. /\ tx' \in Seq(Heard) /\ Len(tx') = Len(tx) - 1
      /\ \A j \in 1 .. k - 1 : tx'[j] = tx[j]
      /\ \A j \in k .. Len(tx) - 1 : tx'[j] = tx[j + 1]
  BY <1>0, WithoutFacts
<1>2. ASSUME NEW j \in 1 .. Len(tx') PROVE tx'[j] \in Packets
  <2>1. j \in 1 .. k - 1 \/ (j \in k .. Len(tx) - 1 /\ j + 1 \in k + 1 .. Len(tx))
    BY <1>0, <1>1
  <2> QED BY <1>1, <2>1, AnswersArePackets DEF Acknowledged
<1> QED BY <1>1, <1>2

\* A command that has been executed stays so, unless its acknowledgement is lost.
LEMMA AnsweredFault ==
    ASSUME LinkInv, NEW k \in Nat, NEW l \in Nat, Answered(k), Acknowledged(l)',
           StubKept, Halted' = Halted, UNCHANGED <<rx, hcmd, times>>,
           faults' = faults + 1, Len(tx') > l => Len(tx) > k
    PROVE  Answered(l)'
<1>1. Clean'
  BY DEF Answered, Clean, StubKept
<1>2. Resumes(hcmd)' = Resumes(hcmd) /\ ReplyTo(hcmd)' = ReplyTo(hcmd)
  BY DEF Resumes, ReplyTo
<1>3. times' <= 1 + faults'
  BY DEF Answered, LinkInv, LinkTypes
<1>4. mConnectionOccurred' /\ mResponse' = mResponse
  BY DEF Answered, StubKept
<1> QED BY <1>1, <1>2, <1>3, <1>4 DEF Answered

\* The line spoils a message to the host.
Spoils(i) == tx' = Without(tx, i) \/ (tx[i].kind = "$" /\ tx' = [tx EXCEPT ![i] = Garbled])

LEMMA SpoiltSeq ==
    ASSUME NEW i \in 1 .. Len(tx), Spoils(i), NEW S, Packets \subseteq S, tx \in Seq(S)
    PROVE  tx' \in Seq(S)
<1>1. Garbled \in S
  BY MessageFacts
<1>2. Without(tx, i) \in Seq(S)
  BY WithoutFacts
<1>3. [tx EXCEPT ![i] = Garbled] \in Seq(S)
  BY <1>1, GarbledSeq
<1> QED BY <1>2, <1>3 DEF Spoils

LEMMA LineFaultInv == ASSUME Setting, LinkInv, LineFault PROVE LinkInv'
<1>0. /\ rx' = rx /\ faults' = faults + 1 /\ UNCHANGED <<stubRest, hpc, hcmd, times>>
      /\ \E i \in DOMAIN tx : Spoils(i)
  BY DEF LineFault, Setting, HostIsHeard, hostVars, Spoils
<1>1. StubKept /\ Stopped' = Stopped /\ Halted' = Halted
  BY <1>0, StubKeptFacts
<1>2. LinkTypes /\ Release /\ Agreement
  BY DEF LinkInv
<1>3. tx \in Seq(Heard) /\ Len(tx) \in Nat /\ DOMAIN tx = 1 .. Len(tx)
  BY <1>2 DEF LinkTypes
<1>4. PICK i \in 1 .. Len(tx) : Spoils(i)
  BY <1>0, <1>3
<1>5. tx' \in Seq(Heard) /\ (tx \in Seq(Packets) => tx' \in Seq(Packets))
  BY <1>3, <1>4, SpoiltSeq, MessageFacts
<1>6. faults' \in Nat /\ times' \in Nat /\ faults <= faults'
  BY <1>0, <1>2 DEF LinkTypes
<1>7. LinkTypes'
  BY <1>0, <1>1, <1>2, <1>5, <1>6 DEF LinkTypes, StubKept
<1>8. Release'
  BY <1>0, <1>1, <1>2 DEF Release, StubKept
<1>9. Resumes(hcmd)' = Resumes(hcmd)
  BY <1>0 DEF Resumes
<1>10. ASSUME NEW k \in Nat, Answered(k), i # k \/ tx' # Without(tx, i)
       PROVE  \E l \in Nat : Answered(l)' /\ (l = 0 <=> k = 0)
  <2>1. Acknowledged(k)
    BY <1>10 DEF Answered
  <2>2. k > 0 => tx[k] = Ack
    BY <2>1 DEF Acknowledged
  <2>3. i # k
    BY <1>4, <1>10, <2>2, MessageFacts DEF Spoils
  <2>4. CASE tx' = Without(tx, i)
    <3>1. PICK l \in Nat : l = IF i < k THEN k - 1 ELSE k
      <4>1. i < k => k - 1 \in Nat
        OBVIOUS
      <4> QED BY <4>1
    <3>2. Acknowledged(l)'
      BY <1>0, <1>2, <2>1, <2>3, <2>4, <3>1, AckOtherLost
    <3>3. Len(tx') = Len(tx) - 1
      BY <1>3, <2>4, WithoutFacts
    <3>4. Len(tx') > l => Len(tx) > k
      BY <1>3, <3>1, <3>3
    <3>5. l = 0 <=> k = 0
      BY <3>1
    <3>6. Answered(l)'
      BY <1>0, <1>1, <1>10, <3>2, <3>4, AnsweredFault
    <3> QED BY <3>5, <3>6
  <2>5. CASE tx' = [tx EXCEPT ![i] = Garbled]
    <3>1. Acknowledged(k)'
      BY <1>0, <1>2, <2>1, <2>3, <2>5, AckGarbled
    <3>2. Len(tx') = Len(tx)
      BY <1>3, <2>5
    <3>3. Len(tx') > k => Len(tx) > k
      BY <3>2
    <3>4. Answered(k)'
      BY <1>0, <1>1, <1>10, <3>1, <3>3, AnsweredFault
    <3> QED BY <3>4
  <2> QED BY <1>4, <2>4, <2>5 DEF Spoils
<1>11. Answered(0) => Answered(0)'
  <2>1. i # 0
    OBVIOUS
  <2> QED BY <1>10, <2>1
<1>12. ASSUME NEW k \in Nat \ {0}, Answered(k), i = k, tx' = Without(tx, i)
       PROVE  Pending'
  <2>1. tx' \in Seq(Packets)
    BY <1>2, <1>12, AckLost DEF Answered
  <2>2. times' <= faults'
    BY <1>0, <1>2, <1>12 DEF Answered, LinkTypes
  <2>3. Clean'
    BY <1>0, <1>1, <1>12 DEF Answered, Clean, StubKept
  <2> QED BY <2>1, <2>2, <2>3 DEF Pending
<1>13. Pending => Pending'
  <2>1. InFlight' = InFlight
    <3>1. wire' = wire
      BY <1>0, <1>1 DEF wire, StubKept
    <3> QED BY <1>0, <1>1, <3>1 DEF InFlight, StubKept
  <2>2. Clean' = Clean /\ NoBreak' = NoBreak
    BY <1>0, <1>1 DEF Clean, NoBreak, StubKept
  <2>3. Pending => times' <= faults'
    BY <1>0, <1>2 DEF Pending, LinkTypes
  <2> QED BY <1>1, <1>5, <2>1, <2>2, <2>3 DEF Pending, StubKept
<1>14. OffOK => OffOK'
  BY <1>0, <1>1, <1>5 DEF OffOK, StubKept
<1>15. IdleOK => IdleOK'
  <2>1. IdleOK => times' <= 1 + faults'
    BY <1>0, <1>2 DEF IdleOK, LinkTypes
  <2> QED BY <1>0, <1>1, <1>5, <2>1 DEF IdleOK, StubKept, Clean
<1>16. hpc = "ack" => Pending' \/ \E k \in Nat \ {0} : Answered(k)'
  <2>1. \A l \in Nat : ~(l = 0) => l \in Nat \ {0}
    OBVIOUS
  <2> QED BY <1>2, <1>10, <1>12, <1>13, <2>1, Zenon DEF Agreement
<1>17. Agreement'
  BY <1>0, <1>2, <1>9, <1>11, <1>14, <1>15, <1>16 DEF Agreement
<1> QED BY <1>7, <1>8, <1>17 DEF LinkInv

-----------------------------------------------------------------------------
LEMMA LinkInit == InitLink => LinkInv
<1> SUFFICES ASSUME InitLink PROVE LinkInv
  OBVIOUS
<1>1. /\ pc = "boot" /\ from = "program" /\ rx = <<>> /\ tx = <<>> /\ mRequest = <<>>
      /\ gRunning = TRUE /\ mRebootOnContinue = FALSE /\ mConnectionOccurred = FALSE
      /\ hpc = "off" /\ faults = 0 /\ times = 0
  BY DEF InitLink, Init, InitStub
<1>2. ~Stopped
  BY <1>1 DEF Stopped
<1>3. /\ rx \in Seq(Symbol) /\ tx \in Seq(Heard) /\ mRequest \in Seq(Symbol)
      /\ rx \in Seq(Symbol \ {"-"}) /\ tx \in Seq(Packets)
  BY <1>1, EmptyInSeq
<1>4. LinkTypes
  BY <1>1, <1>2, <1>3 DEF LinkTypes, Location, HostState
<1>5. Release
  BY <1>1, <1>2, <1>3 DEF Release
<1>6. Agreement
  BY <1>1, <1>3 DEF Agreement, OffOK
<1> QED BY <1>4, <1>5, <1>6 DEF LinkInv

LEMMA LinkUnchanged == ASSUME LinkInv, UNCHANGED vars PROVE LinkInv'
<1>1. UNCHANGED <<pc, from, rx, tx, mRequest, mResponse, gRunning, mRebootOnContinue,
                  mConnectionOccurred, hpc, hcmd, faults, times>>
  BY DEF vars, stubVars, hostVars, sessionVars, inputVars, outputVars
<1>2. Stopped' = Stopped /\ Halted' = Halted
  BY <1>1 DEF Stopped, Halted
<1>3. LinkTypes'
  BY <1>1, <1>2 DEF LinkInv, LinkTypes
<1>4. Release'
  BY <1>1, <1>2 DEF LinkInv, Release
<1>5. Clean' = Clean /\ NoBreak' = NoBreak /\ wire' = wire
  BY <1>1 DEF Clean, NoBreak, wire
<1>6. InFlight' = InFlight
  BY <1>1, <1>5 DEF InFlight
<1>7. Pending => Pending'
  BY <1>1, <1>2, <1>5, <1>6 DEF Pending
<1>8. \A k \in Nat : Answered(k) => Answered(k)'
  <2> TAKE k \in Nat
  <2>1. Acknowledged(k) => Acknowledged(k)'
    BY <1>1, AckSame
  <2> QED BY <1>1, <1>2, <1>5, <2>1 DEF Answered, Resumes, ReplyTo
<1>9. (OffOK => OffOK') /\ (IdleOK => IdleOK')
  BY <1>1, <1>2, <1>5 DEF OffOK, IdleOK
<1>10. Agreement'
  BY <1>1, <1>7, <1>8, <1>9, AgreementKept
<1> QED BY <1>3, <1>4, <1>10 DEF LinkInv

LEMMA LinkStep == ASSUME Setting, LinkInv, [Next]_vars PROVE LinkInv'
<1>1. CASE TargetStep
  BY <1>1, TargetEffect, EntersInv, MovesInv, EatsInv, LeavesInv, SkipsInv, StartsInv,
     GathersInv, ExecutesInv, Zenon
<1>2. ASSUME NEW c \in Commands, Give(c) PROVE LinkInv'
  BY <1>2, GiveInv
<1>3. CASE Interrupt
  BY <1>3, InterruptInv
<1>4. CASE HostReads
  BY <1>4, HostReadsInv
<1>5. CASE HostTimeout
  BY <1>5, HostTimeoutInv
<1>6. CASE LineFault
  BY <1>6, LineFaultInv
<1>7. CASE UNCHANGED vars
  BY <1>7, LinkUnchanged
<1> QED BY <1>1, <1>2, <1>3, <1>4, <1>5, <1>6, <1>7 DEF Next

\* The invariant holds on a line that loses whatever it likes of what the stub sends.
LEMMA LinkAlways == ASSUME Setting PROVE Spec => []LinkInv
<1>1. LinkInv /\ [Next]_vars => LinkInv'
  BY LinkStep
<1> QED BY <1>1, LinkInit, PTL DEF Spec

-----------------------------------------------------------------------------
\* However often the acknowledgement of a command is lost, and the command sent
\* again, the stub has executed it once more for each loss at most: the
\* host's resending and the stub's own answers to repeated requests never add to it.
THEOREM ExecutedOnce == ASSUME Setting PROVE Spec => []ExecutedOncePlusFaults
<1>1. LinkInv => ExecutedOncePlusFaults
  <2> SUFFICES ASSUME LinkInv PROVE times <= 1 + faults
    BY DEF ExecutedOncePlusFaults
  <2>1. Agreement /\ hpc \in HostState /\ faults \in Nat /\ times \in Nat
    BY DEF LinkInv, LinkTypes
  <2>2. \A k : Answered(k) => times <= 1 + faults
    BY DEF Answered
  <2>3. Pending \/ OffOK \/ IdleOK => times <= 1 + faults
    BY <2>1 DEF Pending, OffOK, IdleOK
  <2> QED BY <2>1, <2>2, <2>3 DEF Agreement, HostState
<1> QED BY <1>1, LinkAlways, PTL

\* While the host takes the target to be stopped, the target is in the loop of
\* ProcessInputData and does not leave it: no late acknowledgement, repeated
\* response or timeout of the initial breakpoint lets it run.
THEOREM IdleStopped == ASSUME Setting PROVE Spec => []IdleMeansStopped
<1>1. LinkInv => IdleMeansStopped
  BY DEF LinkInv, Agreement, IdleOK, Halted, IdleMeansStopped
<1> QED BY <1>1, LinkAlways, PTL

\* The host's wait for a response ends with a step of its own, on reading a packet.
LEMMA ReplyRead ==
    ASSUME Setting, LinkInv, [Next]_vars, hpc = "reply", hpc' = "idle"
    PROVE  Head(tx) = Packet(ReplyTo(hcmd))
<1>0. "reply" # "idle" /\ "reply" # "off" /\ "reply" # "ack"
  OBVIOUS
<1>1. HostReads
  <2>1. ~TargetStep /\ ~Interrupt /\ ~HostTimeout /\ ~LineFault /\ ~(UNCHANGED vars)
    BY <1>0 DEF TargetStep, OfTarget, Interrupt, HostTimeout, LineFault, hostVars, vars
  <2>2. \A c : ~Give(c)
    BY <1>0 DEF Give
  <2> QED BY <2>1, <2>2 DEF Next
<1> DEFINE m == Head(tx)
<1>2. tx # <<>> /\ m # Garbled /\ m # Packet("O")
  <2>1. tx # <<>> /\ ReadWhileWaiting(m)
    BY <1>0, <1>1 DEF HostReads, ReadWhileUnacknowledged
  <2> HIDE DEF m
  <2> QED BY <1>0, <2>1 DEF ReadWhileWaiting
<1>3. ~Resumes(hcmd) /\ Acknowledged(0)
  BY DEF LinkInv, Agreement, Answered
<1>4. m \in AnswersTo(hcmd)
  <2>1. tx \in Seq(Heard)
    BY DEF LinkInv, LinkTypes
  <2>2. 1 \in 0 + 1 .. Len(tx) /\ m = tx[1]
    BY <1>2, <2>1
  <2> HIDE DEF m
  <2> QED BY <1>3, <2>2 DEF Acknowledged
<1>5. PICK r \in RepliesTo(hcmd) : m = Packet(r)
  BY <1>2, <1>4 DEF AnswersTo
<1>6. r # "O"
  BY <1>2, <1>5
<1>7. r = ReplyTo(hcmd)
  BY <1>3, <1>5, <1>6, Zenon DEF RepliesTo, ReplyTo
<1> QED BY <1>5, <1>7

\* What the host takes for the response to a command is the response to that
\* command: no response the stub has repeated for an earlier command, and no
\* stop reply or console output, is taken for it.
THEOREM RepliesMatch == ASSUME Setting PROVE Spec => ReplyMatches
<1>1. LinkInv /\ [Next]_vars
        => [hpc = "reply" /\ hpc' = "idle"
              => Head(tx) = Packet(IF hcmd = MonitorR THEN "OK" ELSE Answer(hcmd))]_vars
  BY ReplyRead DEF ReplyTo
<1> QED BY <1>1, LinkAlways, PTL DEF Spec, ReplyMatches

\* A step other than Executes acknowledges nothing.
LEMMA AcceptingLinkStep ==
    ASSUME Setting, LinkInv, Next, Accepts
    PROVE  hpc = "ack" /\ executed' = hcmd
<1>0. tx \in Seq(Heard) /\ Len(tx) \in Nat
  BY DEF LinkInv, LinkTypes
<1>1. ~(tx' = tx)
  BY <1>0, NothingExecuted
<1>2. \A r : tx' # Append(tx, Packet(r))
  BY <1>0, NothingExecuted
<1>3. CASE TargetStep
  <2>1. ~Enters /\ ~Moves /\ ~Eats /\ ~Leaves /\ ~Skips /\ ~Starts /\ ~Gathers
    BY <1>1, <1>2 DEF Enters, Moves, Eats, Leaves, Skips, Starts, Gathers
  <2>2. Executes
    BY <1>3, <2>1, TargetEffect, Zenon
  <2>3. pc = "body" /\ executed' = hcmd
    BY <2>2 DEF Executes
  <2> QED BY <2>3, BodyState
<1>4. ~Interrupt /\ ~HostTimeout /\ \A c : ~Give(c)
  BY <1>1 DEF Interrupt, HostTimeout, Give
<1>5. ~HostReads
  <2> SUFFICES ASSUME HostReads PROVE FALSE
    OBVIOUS
  <2>1. tx # <<>> /\ tx' = Tail(tx)
    BY DEF HostReads
  <2>2. Len(tx') < Len(tx)
    BY <1>0, <2>1
  <2>3. Len(tx') \in Nat
    BY <1>0, <2>1
  <2> QED BY <1>0, <2>2, <2>3 DEF Accepts
<1>6. ~LineFault
  <2> SUFFICES ASSUME LineFault PROVE FALSE
    OBVIOUS
  <2>1. PICK i \in 1 .. Len(tx) : Spoils(i)
    BY <1>0 DEF LineFault, Setting, HostIsHeard, Spoils
  <2>2. Len(Without(tx, i)) = Len(tx) - 1 /\ Len([tx EXCEPT ![i] = Garbled]) = Len(tx)
    BY <1>0, WithoutFacts
  <2>3. Len(tx') \in Int /\ Len(tx') <= Len(tx)
    BY <1>0, <2>1, <2>2 DEF Spoils
  <2> QED BY <1>0, <2>3 DEF Accepts
<1> QED BY <1>3, <1>4, <1>5, <1>6, Zenon DEF Next

\* The stub executes nothing but the command the host is waiting to have
\* acknowledged: no fragment of it, whatever DebuggerPollInput has eaten of the
\* packet, and no command of the past.
THEOREM OutstandingExecuted == ASSUME Setting PROVE Spec => ExecutesOutstanding
<1>1. LinkInv /\ [Next]_vars => [Accepts => hpc = "ack" /\ executed' = hcmd]_vars
  BY AcceptingLinkStep
<1> QED BY <1>1, LinkAlways, PTL DEF Spec, ExecutesOutstanding

=============================================================================
