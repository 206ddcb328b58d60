# A TLA+ model of the UEFI debugger (DebuggerFeaturePkg)

DebuggerFeaturePkg adds a debug agent to UEFI firmware: exception handlers that
hand a stopped processor to a GDB remote-protocol stub, and a timer that polls
the serial port for a break request while the firmware runs.  This directory
holds TLA+ modules for its core, TLC configurations that check them on small
instances, and proofs (TLAPS) of the properties that hold for every instance.

## 1. The system

| Part | State | Operations | Talks to |
|---|---|---|---|
| GDB stub, `GdbStub/GdbStub.c` | `mRequest`, `mResponseFull`, `mResponseAcknowledged`, `gRunning`, `mRebootOnContinue`, `mConnectionOccurred`, `mNextBreakpointTimeout` | `ReportEntryToDebugger` (a session), `ProcessInputData`, `ProcessGdbPacket`, `ExecuteGdbCommand` and its commands, `DebuggerPollInput`, `DebuggerInitialBreakpoint` | transport, breakpoints, watchpoints, memory access, reboot |
| Software breakpoints, `Breakpoint.c` | `mBreakpoints[64]`, the code they displace | `AddSoftwareBreakpoint`, `RemoveSoftwareBreakpoint`, `DebuggerBreak` | `DbgReadMemory`, `DbgWriteMemory` |
| Watchpoints, `X64/DebugX64.c`, `AARCH64/DebugAarch64.c` | four debug registers | `AddWatchpoint`, `RemoveWatchpoint`, `DebugArchInit` | the processor |
| Exception handlers, same files | the saved context, step flags, the watchdog's state | `DebuggerExceptionHandler`, `AddSingleStep` | the stub |
| Memory access, `DebugAgentDxe.c`, `X64/AddressCheck.c`, `AARCH64/DebugAarch64.c` | page attributes | `AccessMemory`, `IsPageReadable`, `IsPageWritable` | memory attribute protocol, page tables |
| DXE agent, `DebugAgentDxe.c` | events, `gCpu`, `gTimer`, `mMemoryAttributeProtocol`, break-on-load name | `InitializeDebugAgent`, protocol notifications, timer, exit of boot services | all of the above |
| Registers, `GdbStub.c`, `GdbStubX64.c`, `GdbStubAarch64.c` | the table of offsets into the context | g, G, p, P | the saved context |
| MM agent, PEI agent, `DebugAgentMm.c`, `DebugAgentPeiLib.c` | exception handlers, `mDebuggerInitialized` | `InitializeDebugAgent`, SMI entry, memory routines | transport, page attributes or page tables |
| Transport, `DebugTransportSerialLib.c` | serial FIFOs | read, write, poll | the host |
| Host scripts, `Scripts/*.py` | caches of symbols and tables | GDB commands | the remote protocol |

What is hard: the stub and the host retry independently over a line without
delivery guarantees; a timeout may race a late byte at every read; a session
is left while input is still on its way; breakpoints live in memory that the
firmware remaps, protects and overwrites; commands come in any order, and
tables have limits.  `PROJECT.json` lists these hazards at the lines where they
bite.

What makes each part correct: a breakpoint must displace exactly one
instruction and give it back; a packet must be executed exactly when it arrived
whole, and once; a response must reach the host that waits for it; a stopped
target must stay stopped until it is told to run; an unattended machine must
boot; a requested reboot must precede everything else; a memory command must
access the range and nothing else, and leave the firmware's protection as it
was; a stopped program must go on with the instruction it was about to execute.

## 2. Modules

`BreakpointSet` is what software breakpoints promise: a set of addresses, and a
processor that fetches a breakpoint there and the program's code elsewhere.
`Breakpoint` is the table of `Breakpoint.c`: `mBreakpoints` slot by slot, the
memory, what each page grants, whether the memory attribute protocol is known.
Its actions are the two routines, the debugger's memory write, the protocol's
notification, and the firmware (external) that loads code and remaps pages.
`reply` is the routine's result; `code` is a history variable, what the program
put at an address.  The firmware may do anything at any address; correctness is
claimed for the addresses of `Stable`, where it does not pull the page or the
code from under an active breakpoint.  A full table also runs into
`ASSERT (FALSE)`; the model is of a build without assertions.

`GdbStub` is the stub.  `pc` says where the code is: running, in
`DebuggerPollInput`, in the loops of `ReportEntryToDebugger` (`"drain"`), or in
`ProcessInputData` waiting for the first or a further byte of a packet.  Every
read of `DebugReadByte` is an action of its own and has a timeout action next to
it, so that bytes arrive between any two of them.  A symbol of the input is a
framing byte, a hex digit, or a whole run of command bytes that the framing
does not look into, with its checksum; the checksum arithmetic is that of the
code.  Commands that change the state of the stub (vCont, monitor R, R) are
modelled by their effect, each other command by its response.  `executed` is a
history variable.  `OpenSpec` feeds it any symbols at any time.

`GdbLink` adds the other end (external): GDB as its protocol shows it, one
command at a time with acknowledgement, resend and timeout, and a serial line
that loses or garbles symbols in either direction.  `times` (history) counts the
executions of the current command.

`Watchpoint` is the bank of debug registers of either architecture (`Arch`).
The code keeps no table beside the registers: `Matches` is its comparison of
address, kind and size with what a request would write, `Disabled` what
`DebugArchInit` and a removal leave of a register.  What the registers keep of an
address and which bytes they watch is the processor's part (external, from the
architecture manuals).  `outstanding` is a history variable: what the debugger
added and did not remove, by the replies it got.

`DxeAgent` is the life of the DXE agent: the calls of `InitializeDebugAgent`, the
exception handlers (`hooked`, one table of the DXE core and one of the CPU
driver), the events and which of them are signaled, `mTimerEvent`, and the break
on module load.  `unseen` is what `LocateHandle (ByRegisterNotify)` has still to
return (external).  Each notification function is one action, since functions at
TPL_CALLBACK do not interrupt each other.  `fresh`, `stop` and `ended` are history
variables.

`PageTable` has the two page table walks: `GetPageIs` of X64 and
`ParsePageTableLevel` with `CheckPageAccess` of AARCH64, over tables that the
firmware (external) builds from the attributes of its pages, on AARCH64 with every
combination of access permissions and access flag (`user` tells RW_RW from RW_NO
and RO_RO from RO_NO).  What the processor permits (`CpuReads`, `CpuWrites`) is the
reference the walks are checked against.

`MemoryAccess` is the commands m and M over the memory routines of four agents:
DXE with and without the memory attribute protocol, MM, PEI.  The loop over the
chunks of `mScratch` and the loop of `AccessMemory` over the pages of a chunk
are followed step by step, because the processor may refuse each copy (`fault`),
the attribute service each lifting, and the command then ends in the middle.
`layout` (the pages as the firmware left them) and `before` (the memory when the
request came) are history variables.  A write fits one chunk: `mRequest` has 2048
characters and `mScratch` 1024 bytes.  `SetMemoryAttributes` does not fail when
it restores; the code ignores its result.

`Registers` is the register table and the four commands over it as operators.  A
register that the context does not have reads as zeros and does not advance the
input of G.  A byte of the model stands for the bytes of one register.

`PhaseAgent` is the life of the MM and of the PEI agent: which exception vectors
have the debugger's handler after each call of `InitializeDebugAgent`.

`Execution` puts these two around a program: a loop of instructions, some of
them breakpoints, some faulting, on a processor (external) that raises
exceptions.  `stack` is the handlers that have not returned, each with its
context and what `WatchdogSuspend` returned.  On top of a session, a command that
faults (RDMSR) opens another, on X64; AARCH64 has no such command.  Actions are
the instructions, the calls of the agent, the commands Z0, z0, G, P, vCont, and
the returns of a handler.  `expect` (where the program is to go on), `mode`, `ran`
and `owed` (steps asked for and not made) are history variables.  The debugger is
GDB: it sends nothing between a resume and the next stop, and it resumes at an
address only after removing its breakpoint there.  The resume that ends an inner
session also resumes the outer program, without GDB having prepared it: its handler
may step past a breakpoint of the debugger under which an instruction waits
(`Skipped`).  GDB's silence is an assumption, the stub would execute a command
within 10 ms of a resume.  Sessions nest to a depth of two.  `CpuBreakpoint` (external) is taken to be the
instruction in `mArchBreakpointInstruction`.  On AARCH64 the step bits of SPSR
and MDSCR are one bit; what GDB writes to the flags is TF, on X64 only.

The modules ending in `Proofs` hold the theorems; `LeastElement` has the one
lemma that several of them share, that a set of naturals has a least element, by
which inductions over data are made as arguments about a smallest counterexample.
`MC*` modules and configurations give the constants their values for TLC.

## 3. Runs

| Run | Asks | Bounds |
|---|---|---|
| `breakpoints` | unique slots, displaced code kept, refusal only when full, refinement of `BreakpointSet` | 2 slots and 3 addresses (one unstable): full table, reuse of slots, stale slots; 3 cell values, so that code may itself be a breakpoint |
| `stub_any_input` | buffer bounds, framing, only whole packets executed, reboot before run | 10 input symbols, one waiting; a buffer of 5, which the shortest packets fill exactly |
| `link_two_faults` | duplicates, mixed up answers, stale commands, release behind the host's back | two faults anywhere, on queries, memory writes that fill the buffer, continue, step |
| `link_answered` | liveness of requests, of stop replies and of the unattended boot | one fault towards the stub; queries, continue, step, monitor R, R, Ctrl-C |
| `link_interrupt` (violation) | does Ctrl-C stop a running target | no faults |
| `watch_x64` | everything asked for traps, nothing else stays enabled, refusal only when full | the four registers of the code, five requests that the registers can express and tell apart (overlapping, of one address and several sizes or kinds), each register in use or not before the agent |
| `watch_aarch64_byte` (violation) | does everything asked for trap where the address does not fit the register | a byte inside a word |
| `dxe_boot` | every exception type caught until the end; no handler and no timer left to the operating system; the timer can be closed; a requested module stops when loaded | 3 loads, 2 module names and images without one, 2 exception types; any handler and any event refused, ended early by DebugApp |
| `dxe_app_terminates` (violation) | does `OnExitBootServices` terminate the debugger | InitFlag 0 at any time |
| `memory_commands` | protection kept, exact writes, no refusal without cause, which accesses fault, exact reads | 4 pages of 3 bytes, chunks of 2, so that a range lies in a page or crosses one; pages of every protection (on AARCH64 every AP and AF), unmapped or of device memory; tables with and without a large page; two commands, so that one meets what the other left |
| `memory_large_read` (violation) | is the answer to a read the memory | reads of up to two chunks |
| `execution` | the instructions executed, steps, the context, the watchdog, the agent's own breaks, the register commands | 3 instructions: a breakpoint of the program, one that may fault, both of the others with or without a breakpoint of the debugger; one session inside another; 5 registers, two of them absent; all four builds |

Two faults are the smallest number that makes a retry of a retry; the symbols a
fault turns into are those the stub reacts to, but for two.  A `+` garbled into `$`
opens a packet that nobody sends; the `-` that ends it may reach the host after its
next command, which is then sent and executed twice: one such fault violates
`ExecutesOutstanding`, `ReplyMatches` and `IdleMeansStopped`.  A Ctrl-C garbled into
`-` within the 10 ms after a resume makes the stub repeat its stop reply if the
acknowledgement of that was lost too: such a pair of faults violates
`IdleMeansStopped`, and only that.  The three properties are claimed for a line
without these garblings; `ExecutedOncePlusFaults` holds with either, the `$` tried
with one fault and the `-` with two.  A lost stop reply leaves both ends waiting
(neither has a timeout there), hence no deadlock check in `link_two_faults`, and
faults only towards the stub where answers and stops must arrive.  `watch_x64` runs on X64; the theorems
about the same properties are for both architectures.

`memory_commands` and `execution` have no deadlock check: the commands are
bounded in the first, and an unhandled exception ends the second.  In `execution`
the general register has one value, so that the program counter and the flags
are what varies; a packet of G may end after any of its values.

Fairness: the stub's loops run on (weak fairness of its steps, with the timer as
one of them), booting and single instructions end, the host reads and uses its
timeout.  No fairness for the program's exceptions, the user or the line.

## 4. Where the code departs from what it says

Shown by the violation runs:

* Ctrl-C within the 10 ms that `ProcessInputData` goes on reading after a resume
  is thrown away; the target runs and the host waits (`link_interrupt`).
* AARCH64 address registers hold multiples of four.  A watchpoint on another
  address is reported as set, watches other bytes, and cannot be removed: the
  comparison with `Address` never succeeds again, and the register stays taken
  (`watch_aarch64_byte`).
* `DebugAgentExceptionDestroy` does nothing while `gCpu` is NULL (its branch for
  that case is inside the test), so an early end leaves the handlers
  (`dxe_app_terminates`).
* The loop that prints a chunk of a memory read runs to the end of the request.
  A read of more than `mScratch` is answered with what lies behind it
  (`memory_large_read`).  GDB sends such reads: the announced `PacketSize=1000` is
  hexadecimal.

Met while modelling, visible in the definitions named, without a run:

* `AddSoftwareBreakpoint` ignores both memory results: it returns TRUE without a
  breakpoint in memory when the page refuses the write (`Breakpoint!FillSlot`).
* Any `+` acknowledges the latest response, including one that was still on its
  way when the `+` was sent; a `-` for it is then ignored (`GdbStub!ReadFirstByte`).
* Image notifications that come while no break on load is set are not taken.
  They are looked at first once one is set: the debugger stops for a module
  that has been loaded, and perhaps has run, long before
  (`DxeAgent!OnLoadedImageNotification`).
* PEI looks at the first page of a range only; a range that ends in a forbidden
  page faults inside the handler.  `CheckPageAccess` of AARCH64 takes AP = RO_RO
  for writable and ignores the access flag of a page to be written (a comment there
  calls the walk insufficient); such a write faults too.  `NoFault` names both.
* An event that `DxeDebugSetupCallbacks` cannot create is only logged.  Without that
  of the exit of boot services, handlers and timer stay under the operating system;
  without that of the CPU driver, its table has no handlers of the debugger.
  `QuietAtRuntime` and `CatchesExceptions` name these exceptions.
* A session inside a command, when it is resumed, ends the session around it too.
  If the program was at a breakpoint of the debugger, its handler steps past the
  byte 0xCC and the instruction under it is not executed.  `NoInstructionLost` names
  this exception, `Skipped`.
* A step that ends in a breakpoint or a fault leaves the step flag set; the step
  is made after the next resume, whatever that was.  `StepsAsked` is as strong as
  the code allows.
* MM goes on polling after `InitializeDebugAgent (0)`, and a Ctrl-C is then a
  breakpoint that nobody handles.  `BreakCaught` names this exception.
* A reboot by `R`, or by monitor R and a resume, clears `mConnectionOccurred`.
  With a timed initial breakpoint the target then stops, GDB takes the stop reply
  and shows it as stopped, and the timeout lets it run all the same; a packet from
  GDB before the timeout prevents it.  `link_two_faults` and its theorems leave
  the two commands out.
* The X64 walk adds the index of the PML4 in bytes, which is harmless below
  512 GB.  `ADDRESS_BITS` drops the bits from 36 on of a table's address, which is
  harmless while the tables lie below 64 GB.

## 5. Proofs

`BreakpointProofs` (any number of slots, addresses, values): the inductive
invariant is the types, `UniqueActive` and `Transparent`; the two depend on each
other, for a slot's saved value is the program's only if no other slot has
patched the address before.  From it follow the listed properties, and the
refinement: each routine is a step of `BreakpointSet` on the stable addresses
(insert, refuse, remove, rewrite, elsewhere) or a stutter.  `RefusesWhenFull` adds
`NoneFree` (after a refusal every slot is active) and counts: the slots and the
inserted addresses are in bijection.

`GdbStubProofs` (any buffer size above four, any input alphabet): the invariant
is the types, the framing (no `#` before the last two symbols while a packet is
being read), the reboot, and that `gRunning` holds outside sessions.  The
framing makes the first `#` of a complete packet the third symbol from its end,
and thus the executed body exactly the one between `$` and `#`
(`StubExecutesFrame`).

`WatchpointProofs` (any bank, any requests, any leftovers): the invariant is the
types, that enabled registers differ in contents (`Distinct`), that each is owned
(`NothingLeftBehind`), and that everything outstanding is found (`Held`).
`Distinct` is what makes a removal exact.  Two conditions on the requests appear
as hypotheses: `Expressible`, the registers can hold and watch them, and
`Distinguishable`, no two have the same contents.  The code checks neither.  The
violation run lacks the first; on X64 a read and an access watchpoint at one
address lack the second.  `WatchRefusesWhenFull` is again a bijection, between the
registers of a full bank and what is outstanding.

`MemoryAccessProofs` (any page and chunk size, layout, memory and requests that
fit `mRequest`): `Progress` relates the two loops to the request (`Address` +
`Length` is its end, `at` + `left` the end of the chunk); with it the types hold.
`ProtectionKept` adds `Lifting`, what a page looks like between the lifting of its
attributes and their restoration.  `WritesExact` adds `Writing`: between two pages
the memory is the old one overlaid with the bytes before `at`, and `mScratch`
holds the chunk.  `CopiesPermitted` and `RefusalsJustified` rest on lemmas about
the table walks of both architectures: the entry a walk ends in is the one whose
block holds the address, and its bits are the page's.  `CopiesPermitted` has the two
exceptions of `NoFault`, `RefusalsJustified` those of each architecture's walk
(address 0 and holes on X64, device memory on AARCH64).  `TablesReach`, a hypothesis
of both, says that the address space lies within one root entry (below 512 GB on
X64), where the indices of the code are right.  `ReadsExact` has the hypothesis
`ChunkReads`, that no read is longer than `mScratch`: longer ones are the violation
`memory_large_read`.  `MCMemoryAccess` evaluates `TablesReach` on the run's layouts.

`DxeAgentProofs` (any exceptions, modules and images): `AgentInv` says which
events exist in which stage, that `gCpu` is set once the CPU driver's notification
has run (`CpuKnown`), that the handlers are then in the CPU driver's table
(`Hooked`), and that without that notification neither happens (`Unnoticed`).
`QuietAtRuntime` needs these: the exit removes handlers only if `gCpu` is known, and
only if it is heard (`ExitHeard`, the event of `OnExitBootServices` exists).  `ImageInv` adds the types of the image queue and that an image whose
load has not been seen by the debugger is still queued; `LoadStops` follows.

`ExecutionProofs` (any program, breakpoints, register table, list of
exceptions): `ExecInv` says that the handlers are all registered or none
(`Hooks`), that `gRunning` is clear only in the innermost session (`Sessions`,
whence the stale `gSystemContext` is never used), that only the outermost handler
found the watchdog running (`Suspended`), and that after vCont;s whatever runs
next has the step flag (`StepPending`).  `InstructionsKept` adds `GoesOn`: the
frame of the program's handler holds the address the program is to go on at, with
no breakpoint of the debugger there once it has resumed, unless it was resumed with
an inner session; as no breakpoint of the program follows another, stepping past
one loses nothing, and past the debugger's only what `Skipped` says.  `Typed` says what the
handlers on the stack may have stopped at, the program in the outermost frame and
the faulting command or the instruction after it in an inner one; `TypeCorrect`
follows.

`DataPlaced`, `WritesPlaced` and `RestoreAccepted` are about the register commands on
every register table that has the absent registers last, as `GdbStubX64.c:56` and
`GdbStubAarch64.c` have them.  `DataPlaced` is for any context with the table's
registers and any data; the other two are for the contexts and packets of the
model, three registers (`ContextAssumption`) and packets cut off anywhere.  What G writes is shown, register by register,
to be the part of the packet at the offset where g has printed that register
(`WrittenFrom`); the flattened packet is a recursive function whose value is found
by the smallest length at which it would differ.

`GdbLinkProofs` (any commands, any number of messages lost or garbled on the way
to the host, any number of interrupts) has three hypotheses, together `Setting`.
`HostIsHeard`: nothing is lost on the way to the stub.  `CommandsFit`: the packets
fit `mRequest`; the code announces twice its size, and a longer packet is refused
each time it is sent.  `NoReset`: where `DebugReboot` works, no command asks for
one (section 4 says why).  The inductive invariant `LinkInv` adds to the types who
runs (`Release`: the target runs outside of sessions, and only a command that
resumes it lets it run within one) and how the two ends fit together
(`Agreement`, one conjunct for each thing the host waits for).  While the host
waits for an acknowledgement, its packet is in one piece between noise and
acknowledgements (`Carries`, partly on the line and partly in `mRequest`), or has
been eaten by `DebuggerPollInput`, or has been executed and its acknowledgement
is lost (`Pending`); or the k-th message to the host is the acknowledgement and
everything behind it answers this command (`Answered`).  `Pending` holds
`times <= faults`, which is where `ExecutedOnce` comes from: only losing an
acknowledgement takes the system from `Answered` back to it.  The steps of the
target are first reduced to eight effects (`TargetEffect`), and each of them and
each step of the host and of the line is shown to keep the invariant.  That the
stub accepts the packet of any command whatever its length needs the checksum to
be a byte; it is a recursive function, and the smallest position at which it
would not exist or not be a byte is refuted.

Only model-checked: the four properties of the link with faults on the way to the
stub, up to the two of `link_two_faults` and without those that make a `$` or a `-`.  `ExecutesOutstanding` cannot hold there
for arbitrarily many faults: enough garbled symbols make the valid packet of
another command.  And the liveness properties
(`RequestAnswered`, `StopReported`, `UnattendedBoots`), which are beyond this
prover.

## 6. Not modelled

* MM and DXE sharing a serial port and the debug registers (the MM agent's
  `DebugArchInit` runs after the DXE agent's).  To the DXE session a byte that MM
  takes is a byte lost on the line, as in `GdbLink`.
* Five-level paging, blocks of 1 GB, address spaces above 512 GB and X64 page tables
  at or above 64 GB.
* The PEIM that builds the configuration HOB from PCDs: one pass, no state.
* Text: target description, monitor messages, the dump of system registers and
  the value of an MSR; logs and their suspension.
* Assembly accessors and the null libraries, which keep no state.
* The scripts `efi_debugging.py` and `efi_gdb.py`: they read and print firmware
  tables on the host and change nothing in the target.

Worth adding: the
composition of `Execution` with `Breakpoint`, so that a breakpoint that the page
refused meets the handlers.
