----------------------------- MODULE Execution -----------------------------
(***************************************************************************)
(* A program under the debugger: the processor that runs it and raises     *)
(* exceptions, DebuggerExceptionHandler of X64 and of AARCH64, and the      *)
(* session that a handler opens, in which the debugger sets breakpoints,   *)
(* writes registers and resumes.  The agent is that of MM or of PEI.        *)
(*                                                                         *)
(* The program is a loop over the addresses 0 .. Size - 1.  Some of its    *)
(* instructions are breakpoints, some may fault.  Above it is the agent's  *)
(* own code: DebuggerBreak, and an instruction of a command that faults.   *)
(*                                                                         *)
(* The debugger is GDB: it sends nothing after a resume until the target   *)
(* stops, and it resumes at the address of an inserted breakpoint only     *)
(* after removing it.  The stub does not insist on the first: for 10 ms    *)
(* after a resume ProcessInputData would execute further commands.         *)
(***************************************************************************)
EXTENDS PhaseAgent, Registers, Integers

CONSTANTS Size,
          HardBreaks, \* addresses of the breakpoints in the program
          FaultOps,   \* addresses of instructions that may fault
          BreakAt,    \* addresses at which the debugger sets breakpoints
          Value       \* values of the general register

Program == 0 .. Size - 1
Break   == Size          \* CpuBreakpoint in DebuggerBreak
Return  == Size + 1      \* what follows it returns to the caller
Faulty  == Size + 2      \* RDMSR of a register that does not exist
After   == Size + 3

ASSUME ProgramAssumption ==
    /\ Size \in Nat \ {0}
    /\ HardBreaks \subseteq 0 .. Size - 2
    /\ \A a \in HardBreaks : a + 1 \notin HardBreaks
    /\ FaultOps \subseteq Program
    /\ BreakAt \subseteq Program \ HardBreaks
ASSUME ValueAssumption == 0 \in Value /\ Value \subseteq Nat
ASSUME ContextAssumption == \* the registers that the saved context has
    \A i \in 1 .. gRegisterCount :
        gRegisterOffsets[i].present => gRegisterOffsets[i].name \in {"rip", "eflags", "rax"}

VARIABLES cpu,      \* the registers while no exception is handled
          MDSCR_SS, \* the step bit of AARCH64
          stack,    \* the handlers that have not returned, innermost last
          gRunning, gSystemContext, \* the latter as a position in stack
          inserted, \* addresses that hold a breakpoint of the debugger
          watchdog, \* whether the watchdog timer runs
          caller,   \* where DebuggerBreak returns to
          dead,     \* an exception that nobody handles has stopped the machine
          expect,   \* history: where the program was, or was put, when it lost control
          mode, ran,\* history: last resume, instructions executed since
          owed      \* history: handler depths with a step asked for and not made

session == <<stack, gRunning, gSystemContext, watchdog>>
history == <<expect, mode, ran, owed>>
vars == <<agentVars, cpu, MDSCR_SS, session, inserted, caller, dead, history>>

Context == [rip : 0 .. After + 1, eflags : {0, 1}, rax : Value]

Running == called /\ stack = <<>> /\ ~dead
Stopped == stack # <<>> /\ ~gRunning
Top     == stack[Len(stack)]

\* The byte 0xCC, or the BRK instruction.
IsBreak(a) == a \in inserted \cup HardBreaks \cup {Break}

\* TF is in the saved flags; MDSCR.SS is a register of the processor.
Stepping(ctx) == IF Arch = "X64" THEN ctx.eflags = 1 ELSE MDSCR_SS

NextAddress(a) == IF a = Return THEN caller ELSE IF a = Size - 1 THEN 0 ELSE a + 1

Init == /\ AgentInit
        /\ cpu = [rip |-> 0, eflags |-> 0, rax |-> 0]
        /\ MDSCR_SS = FALSE
        /\ stack = <<>> /\ gRunning = TRUE /\ gSystemContext = 0
        /\ inserted = {}
        /\ watchdog = TRUE /\ caller = 0 /\ dead = FALSE
        /\ expect = 0 /\ mode = "continue" /\ ran = 0 /\ owed = {}

-----------------------------------------------------------------------------
\* Each exception of X64 has a vector of its own; AARCH64 has one for all, and ESR
\* tells them apart.
Vector(type) == IF Arch = "X64" THEN type ELSE "sync"

\* The exceptions of this module are in the lists of the code.
ASSUME ExceptionAssumption ==
    /\ {"step", "break", "fault"} \subseteq Range(mArchExceptionTypes["X64"])
    /\ "sync" \in Range(mArchExceptionTypes["AARCH64"])

\* What the processor saves for a breakpoint at a: X64 the address after it.
SavedAt(a) == IF Arch = "X64" THEN a + 1 ELSE a

\* Mutated form of Entered: the step flag is left alone.
EnteredStepping(type, ctx) ==
    IF Arch = "X64" /\ type = "break" THEN [ctx EXCEPT !.rip = @ - 1] ELSE ctx

\* Before the session: a step exception clears the step flag, any other leaves it;
\* X64 goes back to the breakpoint instruction.
Entered(type, ctx) ==
    IF Arch = "AARCH64" THEN ctx
    ELSE CASE type = "step"  -> [ctx EXCEPT !.eflags = 0]
           [] type = "break" -> [ctx EXCEPT !.rip = @ - 1]
           [] OTHER          -> ctx

\* Mutated form of Left: the program goes on two instructions later.
LeftTwice(type, ctx) ==
    IF type = "break" /\ IsBreak(ctx.rip) THEN [ctx EXCEPT !.rip = @ + 2] ELSE ctx

\* Mutated form of Left: whatever is there is stepped past.
LeftAlways(type, ctx) == IF type = "break" THEN [ctx EXCEPT !.rip = @ + 1] ELSE ctx

\* After the session: step past the breakpoint instruction that is at the program
\* counter now, wherever the debugger has put that.
Left(type, ctx) ==
    IF type = "break" /\ IsBreak(ctx.rip) THEN [ctx EXCEPT !.rip = @ + 1] ELSE ctx

\* DebuggerExceptionHandler up to the session that ReportEntryToDebugger opens, on
\* top of the handlers below.
Handle(below, type, ctx) ==
    /\ stack' = Append(below, [type |-> type, ctx |-> Entered(type, ctx),
                               WatchdogState |-> watchdog])
    /\ watchdog' = FALSE
    /\ gRunning' = FALSE
    /\ gSystemContext' = Len(below) + 1
    /\ MDSCR_SS' = (MDSCR_SS /\ type # "step")

\* An exception in the program.
Exception(type, ctx) ==
    IF Vector(type) \in hooked
    THEN Handle(<<>>, type, ctx) /\ UNCHANGED dead
    ELSE dead' = TRUE /\ UNCHANGED <<session, MDSCR_SS>>

-----------------------------------------------------------------------------
\* The program executes an instruction.
ExecuteOp ==
    /\ Running
    /\ ~IsBreak(cpu.rip)
    /\ LET next == [cpu EXCEPT !.rip = NextAddress(@)]
       IN  /\ expect' = next.rip
           /\ cpu' = next
           /\ IF Stepping(cpu)
              THEN Exception("step", next) /\ owed' = owed \ {1}
              ELSE UNCHANGED <<session, MDSCR_SS, dead, owed>>
    /\ ran' = IF ran = 0 THEN 1 ELSE ran
    /\ UNCHANGED <<agentVars, inserted, caller, mode>>

OpFaults ==
    /\ Running
    /\ cpu.rip \in FaultOps \ inserted
    /\ Exception("fault", cpu)
    /\ expect' = cpu.rip
    /\ UNCHANGED <<agentVars, cpu, inserted, caller, mode, ran, owed>>

ExecuteBreak ==
    /\ Running
    /\ IsBreak(cpu.rip)
    /\ Exception("break", [cpu EXCEPT !.rip = SavedAt(@)])
    /\ expect' = cpu.rip
    /\ UNCHANGED <<agentVars, cpu, inserted, caller, mode, ran, owed>>

\* DebuggerBreak, called from the program or from the code that initializes the
\* agent.
DebuggerBreak ==
    /\ caller' = cpu.rip
    /\ cpu' = [cpu EXCEPT !.rip = Break]
    /\ expect' = Break

-----------------------------------------------------------------------------
\* InitializeDebugAgent.  MM breaks when the configuration says so, PEI always.
InitializeAgent ==
    /\ \/ (StaysOff \/ InitializeRefused) /\ UNCHANGED <<cpu, caller, expect>>
       \/ InitializeDone /\ DebuggerBreak
       \/ InitializeDone /\ Phase = "MM" /\ UNCHANGED <<cpu, caller, expect>>
    /\ UNCHANGED <<MDSCR_SS, session, inserted, dead, mode, ran, owed>>

\* An SMI, with CTRL-C waiting on the line.  The call is not an instruction of its
\* own here: a pending step strikes before it.
PollInput ==
    /\ Running /\ ~Stepping(cpu)
    /\ cpu.rip \in Program
    /\ Polls
    /\ DebuggerBreak
    /\ UNCHANGED <<agentVars, MDSCR_SS, session, inserted, dead, mode, ran, owed>>

EndAgent ==
    /\ Running
    /\ InitializeZero
    /\ UNCHANGED <<cpu, MDSCR_SS, session, inserted, caller, dead, history>>

-----------------------------------------------------------------------------
\* Z0 and z0.
ProcessBreakpoint ==
    /\ Stopped
    /\ \E a \in BreakAt : \/ a \notin inserted /\ inserted' = inserted \cup {a}
                          \/ a \in inserted /\ inserted' = inserted \ {a}
    /\ UNCHANGED <<agentVars, cpu, MDSCR_SS, session, caller, dead, history>>

\* A register command leaves ctx in the context gSystemContext points to.
WriteContext(ctx) ==
    /\ stack' = [stack EXCEPT ![gSystemContext].ctx = ctx]
    /\ expect' = IF gSystemContext = 1 /\ ctx.rip # stack[1].ctx.rip
                 THEN ctx.rip ELSE expect
    /\ owed' = IF ctx.eflags = 1 THEN owed \cup {gSystemContext} ELSE owed
    /\ UNCHANGED <<agentVars, cpu, MDSCR_SS, gRunning, gSystemContext, watchdog, inserted,
                   caller, dead, mode, ran>>

\* In its own session the debugger moves within the program; in one inside a command,
\* past the instruction that faults.
Targets == IF gSystemContext = 1 THEN Program \ inserted ELSE {After}

\* The registers as the debugger has read them, one of them changed.
Edits(ctx) == {ctx} \cup {[ctx EXCEPT !.rip = a] : a \in Targets}
              \cup {[ctx EXCEPT !.rax = v] : v \in Value}

\* What the debugger sends: such registers, or any beginning of them.  HexToByte makes
\* a number of anything.
Packets(ctx) ==
    {SubSeq(ReadGeneralRegisters(edit), 1, n) :
         edit \in Edits(ctx), n \in 0 .. Len(ReadGeneralRegisters(ctx))} \cap Seq(Nat)

WriteRegisters ==
    /\ Stopped
    /\ \E d \in Packets(stack[gSystemContext].ctx) :
           WriteContext(WriteGeneralRegisters(stack[gSystemContext].ctx, d).ctx)

\* P of the program counter, of the flags (TF of X64), and of a register that does not
\* exist.
WriteOneRegister ==
    /\ Stopped
    /\ \E i \in 1 .. gRegisterCount + 1 :
       \E v \in IF i > gRegisterCount THEN {0}
                ELSE CASE gRegisterOffsets[i].name = "rip"    -> Targets
                       [] gRegisterOffsets[i].name = "eflags" -> IF Arch = "X64" THEN {0, 1} ELSE {0}
                       [] OTHER                               -> {0} :
           WriteContext(WriteRegister(stack[gSystemContext].ctx, i - 1, <<v>>).ctx)

\* Mutated form of AddSingleStep: the flag is set nowhere.
AddNoStep(ctx) == ctx

\* TF on X64.  AARCH64 sets MDSCR.SS, see Resume.
AddSingleStep(ctx) == IF Arch = "X64" THEN [ctx EXCEPT !.eflags = 1] ELSE ctx

\* vCont;c and vCont;s.
Resume(m) ==
    /\ Stopped
    /\ stack[gSystemContext].ctx.rip \notin inserted
    /\ gRunning' = TRUE
    /\ mode' = m
    /\ ran' = 0
    /\ IF m = "step"
       THEN /\ stack' = [stack EXCEPT ![gSystemContext].ctx = AddSingleStep(@)]
            /\ MDSCR_SS' = (MDSCR_SS \/ Arch = "AARCH64")
            /\ owed' = owed \cup {gSystemContext}
       ELSE UNCHANGED <<stack, MDSCR_SS, owed>>
    /\ UNCHANGED <<agentVars, cpu, gSystemContext, watchdog, inserted, caller, dead,
                   expect>>

\* A command faults: a session inside the session.  A command of that session does not
\* fault again: the sessions are two deep at most.
CommandFaults ==
    /\ Stopped
    /\ Arch = "X64" /\ Len(stack) = 1
    /\ Handle(stack, "fault", [rip |-> Faulty, eflags |-> 0, rax |-> 0])
    /\ UNCHANGED <<agentVars, cpu, inserted, caller, dead, history>>

-----------------------------------------------------------------------------
\* Mutated form of Resumed: the timer is started in any case.
ResumedAlways(f) == TRUE

\* WatchdogResume.
Resumed(f) == watchdog \/ f.WatchdogState

\* The end of DebuggerExceptionHandler, back in the program.  After a session inside
\* a command the program goes on though the debugger has only resumed the command.
LeaveSession ==
    /\ Len(stack) = 1 /\ gRunning
    /\ cpu' = Left(Top.type, Top.ctx)
    /\ stack' = <<>>
    /\ watchdog' = Resumed(Top)
    /\ UNCHANGED <<agentVars, MDSCR_SS, gRunning, gSystemContext, inserted, caller, dead,
                   history>>

\* Mutated form of KeepsRunning: the outer session goes on.
KeepsRunningOnlyInside == gRunning' = FALSE

\* gRunning, set for the session inside, holds for the one outside as well.
KeepsRunning == UNCHANGED gRunning

\* The end of a handler inside a command: the instruction is tried again, or
\* stepped, or the command is completed.  gSystemContext is not set back.
LeaveNested ==
    /\ Len(stack) = 2 /\ gRunning
    /\ LET ctx == Left(Top.type, Top.ctx)
           below == <<stack[1]>>
       IN  \/ /\ ctx.rip = Faulty
              /\ Handle(below, "fault", ctx)
              /\ UNCHANGED owed
           \/ /\ ctx.rip # Faulty /\ ctx.eflags = 1
              /\ Handle(below, "step", ctx)
              /\ owed' = owed \ {2}
           \/ /\ ctx.rip # Faulty /\ ctx.eflags = 0
              /\ stack' = below
              /\ watchdog' = Resumed(Top)
              /\ KeepsRunning
              /\ owed' = owed \ {2}
              /\ UNCHANGED <<MDSCR_SS, gSystemContext>>
    /\ UNCHANGED <<agentVars, cpu, inserted, caller, dead, expect, mode, ran>>

Next == \/ ExecuteOp \/ OpFaults \/ ExecuteBreak
        \/ InitializeAgent \/ PollInput \/ EndAgent
        \/ ProcessBreakpoint \/ WriteRegisters \/ WriteOneRegister \/ CommandFaults
        \/ \E m \in {"continue", "step"} : Resume(m)
        \/ LeaveSession \/ LeaveNested

Spec == Init /\ [][Next]_vars

-----------------------------------------------------------------------------
\* The variables have their types.
TypeOK == /\ build \in Builds
          /\ called \in BOOLEAN /\ mDebuggerInitialized \in BOOLEAN /\ ended \in BOOLEAN
          /\ hooked \subseteq Vectors
          /\ cpu \in Context /\ MDSCR_SS \in BOOLEAN
          /\ stack \in Seq([type : {"step", "break", "fault"}, ctx : Context,
                            WatchdogState : BOOLEAN])
          /\ Len(stack) <= 2
          /\ gRunning \in BOOLEAN /\ gSystemContext \in 0 .. 2
          /\ inserted \subseteq BreakAt
          /\ watchdog \in BOOLEAN /\ dead \in BOOLEAN /\ caller \in Program
          /\ expect \in 0 .. After /\ mode \in {"continue", "step"} /\ ran \in {0, 1}
          /\ owed \subseteq {1, 2}

\* The instruction at or after address a that is not a breakpoint of the program.
NextOp(a) == IF a \in HardBreaks \cup {Break} THEN a + 1 ELSE a

\* The program has gone on past the debugger's breakpoint at which it was: the session
\* inside a command was resumed, which ended the outer session too, and the handler
\* stepped over the byte 0xCC though its instruction had not been executed.
Skipped == gSystemContext = 2 /\ expect \in inserted /\ cpu.rip = expect + 1

\* Debugging does not change what the program executes: after a breakpoint of its
\* own, of the debugger or of DebuggerBreak, after a step or a fault, it goes on with
\* the instruction it was about to execute, or the one the debugger has chosen.  The
\* only instruction ever lost is the one under a breakpoint at which the program was
\* when a session inside a command was resumed (DebuggerExceptionHandler's last switch).
NoInstructionLost == Running => NextOp(cpu.rip) = NextOp(expect) \/ Skipped

\* A step executes one instruction: the program does not get past it before the
\* debugger has control again (AddSingleStep and the handlers).
StepIsOne == (Running /\ mode = "step" /\ hooked = Vectors) => ran = 0

\* A step flag is never set but for a step that was asked for and has not been made:
\* each request makes at most one step.  (A step that meets a breakpoint or a fault
\* is made after the next resume: only a step exception clears the flag.)
StepsAsked ==
    /\ stack = <<>> /\ ~dead /\ Stepping(cpu) => 1 \in owed
    /\ Arch = "X64" => \A d \in 1 .. Len(stack) : stack[d].ctx.eflags = 1 => d \in owed

\* The registers that the debugger reads and writes are those of the innermost
\* exception, also after a session inside a command: one resume ends both
\* (gSystemContext points into a stack frame that is gone by then).
ContextValid == Stopped => gSystemContext = Len(stack)

\* The watchdog does not strike while the debugger has control, and runs again when
\* the program does.
WatchdogHeld == IF stack = <<>> THEN watchdog ELSE ~watchdog

\* An exception of an agent's own making is handled, until InitializeDebugAgent (0)
\* has ended the MM agent, which goes on polling for CTRL-C.
BreakCaught == (dead /\ cpu.rip = Break) => ended

\* The bytes of a register in a packet.
Offset(i) == LET upTo[j \in 0 .. i] == IF j = 0 THEN 0 ELSE upTo[j - 1] + gRegisterOffsets[j].size
             IN  upTo[i - 1]

\* G with the data d makes of each register what d says at its place, or leaves it
\* and answers with an error.
Placed(ctx, d) ==
    LET w == WriteGeneralRegisters(ctx, d)
    IN  \A i \in 1 .. gRegisterCount :
            LET r == gRegisterOffsets[i]
            IN  r.present => \/ Offset(i) < Len(d) /\ w.ctx[r.name] = d[Offset(i) + 1]
                             \/ ~w.ok /\ w.ctx[r.name] = ctx[r.name]

\* What G does to a register is what the packet says of it at its place, or nothing;
\* OK means that all of them are written (WriteGeneralRegisters).
RegistersPlaced ==
    Stopped => \A d \in Packets(stack[gSystemContext].ctx) : Placed(stack[gSystemContext].ctx, d)

\* Writing back what was read, all of it or one register, is accepted and changes
\* nothing: this is how GDB returns from a call it makes in the program.
RestoreWorks ==
    Stopped => LET ctx == stack[gSystemContext].ctx
                   back == WriteGeneralRegisters(ctx, ReadGeneralRegisters(ctx))
               IN  /\ back.ok /\ back.ctx = ctx
                   /\ \A i \in 0 .. gRegisterCount - 1 :
                          WriteRegister(ctx, i, ReadRegister(ctx, i).data) = [ok |-> TRUE, ctx |-> ctx]

=============================================================================
