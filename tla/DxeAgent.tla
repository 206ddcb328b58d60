----------------------------- MODULE DxeAgent -----------------------------
(***************************************************************************)
(* The life of the DXE debug agent (DebugAgentDxe.c), from the DXE core's  *)
(* first call to the exit of boot services: the exception handlers, the    *)
(* polling timer, the notifications that set them up again once the CPU    *)
(* and timer drivers are there, and the break on module load.              *)
(*                                                                         *)
(* A notification function runs at TPL_CALLBACK and is not interrupted by  *)
(* another one: each is one action.  Between the signal of its event and    *)
(* its run anything else may happen.                                       *)
(***************************************************************************)
EXTENDS Naturals, Sequences, SequencesExt

CONSTANTS ExceptionCount,   \* entries of mArchExceptionTypes
          Modules,          \* names of images, shorter than the 64 bytes kept
          NoPdb,            \* an image without a PDB name
          MaxLoads,         \* bound on the images loaded
          AppTerminates,    \* InitializeDebugAgent (0) is called
          MayFail           \* handlers and events may be refused

VARIABLES
    stage,                \* the DXE core's calls: "reset", "core", "late", "exited"
    mDebuggerInitialized, mDisablePolling,
    gCpu, gTimer,         \* the pointer is not NULL
    installed,            \* which of the protocols "cpu" and "timer" exist
    hooked,               \* exception types the debugger handles, per table
    mTimerEvent,          \* the event it holds, or "null"
    events,               \* open events of the agent
    signaled,             \* open events whose notification is to run
    mDbgBreakOnModuleLoadString,
    unseen,               \* images LocateHandle (ByRegisterNotify) has to return
    fresh,                \* history: images loaded since the last notification
    stop,                 \* history: image that the last notification stopped for
    ended,                \* history: OnExitBootServices has run
    loads                 \* images loaded so far

agent == <<mDebuggerInitialized, mDisablePolling>>
timer == <<gTimer, mTimerEvent>>
images == <<mDbgBreakOnModuleLoadString, unseen, fresh, stop, loads>>
vars == <<stage, agent, gCpu, timer, installed, hooked, events, signaled, images, ended>>

Types == 1 .. ExceptionCount
Names == Modules \cup {NoPdb}
Notifications == {"cpuNotify", "timerNotify", "loadNotify"}
Events == Notifications \cup {"exitNotify", "poll"}

ASSUME CountAssumption == ExceptionCount \in Nat \ {0} /\ MaxLoads \in Nat
ASSUME NameAssumption == NoPdb \notin Modules /\ "" \notin Names /\ "none" \notin Names
ASSUME FlagAssumption == AppTerminates \in BOOLEAN /\ MayFail \in BOOLEAN

-----------------------------------------------------------------------------
\* The processor uses the handlers of the DXE core until the CPU driver comes.
Table == IF "cpu" \in installed THEN "cpu" ELSE "core"

\* DebugAgentExceptionDestroy.  Without gCpu it does nothing: the branch for that
\* case is inside the test of gCpu.
Destroyed(h, cpu) == IF cpu THEN [h EXCEPT !["cpu"] = {}] ELSE h

\* Mutated form of Registered: the last type is left out.
RegisteredButLast(h, cpu) ==
    [h EXCEPT ![IF cpu THEN "cpu" ELSE "core"] = 1 .. ExceptionCount - 1]

\* DebugAgentExceptionInitialize, successful: all handlers.
Registered(h, cpu) == [Destroyed(h, cpu) EXCEPT ![IF cpu THEN "cpu" ELSE "core"] = Types]

\* DebugAgentExceptionInitialize, when type k is refused: those before k were
\* registered, then DebugAgentExceptionDestroy is called.
Refused(h, cpu, k) ==
    Destroyed([Destroyed(h, cpu) EXCEPT ![IF cpu THEN "cpu" ELSE "core"] = @ \cup 1 .. k - 1],
              cpu)

\* Mutated form of TimerDestroyed: the polling timer is forgotten.
TimerNotDestroyed(open) == open

\* DebugAgentTimerDestroy: CloseEvent on what mTimerEvent holds.
TimerDestroyed(open) == open \ {mTimerEvent}

-----------------------------------------------------------------------------
Init == /\ stage = "reset"
        /\ mDebuggerInitialized = FALSE /\ mDisablePolling = FALSE
        /\ gCpu = FALSE /\ gTimer = FALSE
        /\ installed = {}
        /\ hooked = [t \in {"core", "cpu"} |-> {}]
        /\ mTimerEvent = "null"
        /\ events = {} /\ signaled = {}
        /\ mDbgBreakOnModuleLoadString = "" /\ unseen = <<>>
        /\ fresh = {} /\ stop = "none" /\ loads = 0
        /\ ended = FALSE

\* DEBUG_AGENT_INIT_DXE_CORE: the configuration may disable the debugger, the
\* transport or the handlers may fail.
InitializeCore ==
    /\ stage = "reset"
    /\ stage' = "core"
    /\ \/ /\ UNCHANGED <<hooked, agent>>
       \/ /\ hooked' = Registered(hooked, gCpu)
          /\ mDisablePolling' \in BOOLEAN
          /\ mDebuggerInitialized' = TRUE
       \/ /\ MayFail
          /\ \E k \in Types : hooked' = Refused(hooked, gCpu, k)
          /\ UNCHANGED agent
    /\ UNCHANGED <<gCpu, timer, installed, events, signaled, images, ended>>

\* Mutated form of CreatedSignaled: the exit event is created like the others.
AllCreatedSignaled(new) == new

\* EfiCreateProtocolNotifyEvent signals the event it creates.
CreatedSignaled(new) == new \cap Notifications

\* The events of DxeDebugSetupCallbacks.
Wanted == {"loadNotify", "exitNotify"}
          \cup (IF ~gCpu THEN {"cpuNotify"} ELSE {})
          \cup (IF ~mDisablePolling /\ ~gTimer THEN {"timerNotify"} ELSE {})

\* DEBUG_AGENT_INIT_DXE_CORE_LATE and DxeDebugSetupCallbacks.  An event that cannot
\* be created is logged, and the agent goes on without it.
InitializeLate ==
    /\ stage = "core"
    /\ stage' = "late"
    /\ IF mDebuggerInitialized
       THEN \E new \in SUBSET Wanted :
                /\ MayFail \/ new = Wanted
                /\ events' = events \cup new
                /\ signaled' = signaled \cup CreatedSignaled(new)
                /\ mTimerEvent' = IF "timerNotify" \in new THEN "timerNotify"
                                  ELSE IF "timerNotify" \in Wanted THEN "null"
                                  ELSE mTimerEvent
       ELSE UNCHANGED <<events, signaled, mTimerEvent>>
    /\ UNCHANGED <<agent, gCpu, gTimer, installed, hooked, images, ended>>

\* OnExitBootServices for the CPU pointer cpu and the handlers h.
Terminate(h, cpu) == /\ events' = TimerDestroyed(events)
                     /\ hooked' = Destroyed(h, cpu)
                     /\ ended' = TRUE

\* InitializeDebugAgent (0), "DebugApp is terminating".
InitializeZero ==
    /\ AppTerminates
    /\ stage = "late"
    /\ mDebuggerInitialized
    /\ Terminate(hooked, gCpu)
    /\ signaled' = signaled \cap events'
    /\ UNCHANGED <<stage, agent, gCpu, timer, installed, images>>

\* The boot loader exits boot services; the DXE core has all architectural
\* protocols by then, and runs at TPL_APPLICATION, so that nothing is pending.
ExitBootServices ==
    /\ stage = "late"
    /\ installed = {"cpu", "timer"}
    /\ signaled = {}
    /\ stage' = "exited"
    /\ IF "exitNotify" \in events THEN Terminate(hooked, gCpu)
       ELSE UNCHANGED <<events, hooked, ended>>
    /\ UNCHANGED <<agent, gCpu, timer, installed, signaled, images>>

-----------------------------------------------------------------------------
\* A driver installs its protocol.  The CPU driver brings its own handler table.
InstallProtocol(p) ==
    /\ stage = "late"
    /\ p \notin installed
    /\ installed' = installed \cup {p}
    /\ signaled' = signaled \cup ({IF p = "cpu" THEN "cpuNotify" ELSE "timerNotify"}
                                  \cap events)
    /\ UNCHANGED <<stage, agent, gCpu, timer, hooked, events, images, ended>>

OnCpuArchProtocolNotification ==
    /\ "cpuNotify" \in signaled
    /\ gCpu' = ("cpu" \in installed)
    /\ \/ /\ ~gCpu'
          /\ UNCHANGED <<hooked, events, ended>>
          /\ signaled' = signaled \ {"cpuNotify"}
       \/ /\ gCpu'
          /\ hooked' = Registered(hooked, TRUE)
          /\ UNCHANGED <<events, ended>>
          /\ signaled' = signaled \ {"cpuNotify"}
       \/ /\ gCpu' /\ MayFail
          /\ \E k \in Types : Terminate(Refused(hooked, TRUE, k), TRUE)
          /\ signaled' = (signaled \ {"cpuNotify"}) \cap events'
    /\ UNCHANGED <<stage, agent, timer, installed, images>>

\* Mutated form of DebugAgentInitializeTimer: the new event is not kept.
TimerEventDropped == events' = events \cup {"poll"} /\ UNCHANGED mTimerEvent

\* Errors of CreateEvent are ignored on purpose.
DebugAgentInitializeTimer ==
    \/ events' = events \cup {"poll"} /\ mTimerEvent' = "poll"
    \/ MayFail /\ UNCHANGED <<events, mTimerEvent>>

OnTimerArchProtocolNotification ==
    /\ "timerNotify" \in signaled
    /\ signaled' = signaled \ {"timerNotify"}
    /\ gTimer' = ("timer" \in installed)
    /\ IF gTimer' THEN DebugAgentInitializeTimer ELSE UNCHANGED <<events, mTimerEvent>>
    /\ UNCHANGED <<stage, agent, gCpu, installed, hooked, images, ended>>

-----------------------------------------------------------------------------
\* monitor b, in a session; an empty name clears the request.
DbgSetBreakOnModuleLoad(m) ==
    /\ stage # "exited"
    /\ hooked[Table] # {}
    /\ mDbgBreakOnModuleLoadString' = m
    /\ UNCHANGED <<stage, agent, gCpu, timer, installed, hooked, events, signaled,
                   unseen, fresh, stop, ended, loads>>

\* The DXE core loads an image.
LoadImage(m) ==
    /\ stage = "late"
    /\ loads < MaxLoads
    /\ loads' = loads + 1
    /\ IF "loadNotify" \in events
       THEN /\ unseen' = Append(unseen, m)
            /\ fresh' = fresh \cup {m}
            /\ signaled' = signaled \cup {"loadNotify"}
       ELSE UNCHANGED <<unseen, fresh, signaled>>
    /\ UNCHANGED <<stage, agent, gCpu, timer, installed, hooked, events,
                   mDbgBreakOnModuleLoadString, stop, ended>>

\* Mutated form of AfterFirst: the search stops at an image without a name.
AfterFirstStopsAtNoPdb(s, m) ==
    LET ends == {i \in DOMAIN s : s[i] \in {m, NoPdb}}
    IN  IF ends = {} THEN [found |-> FALSE, rest |-> <<>>]
        ELSE LET n == CHOOSE i \in ends : \A j \in ends : i <= j
             IN  [found |-> s[n] = m, rest |-> SubSeq(s, n + 1, Len(s))]

\* Images are taken up to the first of the name.
AfterFirst(s, m) ==
    IF m \in ToSet(s)
    THEN [found |-> TRUE, rest |-> SubSeq(s, SelectInSeq(s, LAMBDA n : n = m) + 1, Len(s))]
    ELSE [found |-> FALSE, rest |-> <<>>]

\* With no request the notification returns at once and takes no image.  HandleProtocol
\* does not fail on a handle that LocateHandle has just returned for this protocol.
OnLoadedImageNotification ==
    /\ "loadNotify" \in signaled
    /\ signaled' = signaled \ {"loadNotify"}
    /\ IF mDbgBreakOnModuleLoadString = ""
       THEN stop' = "none" /\ UNCHANGED unseen
       ELSE LET taken == AfterFirst(unseen, mDbgBreakOnModuleLoadString)
            IN  /\ unseen' = taken.rest
                /\ stop' = IF taken.found THEN mDbgBreakOnModuleLoadString ELSE "none"
    /\ fresh' = {}
    /\ UNCHANGED <<stage, agent, gCpu, timer, installed, hooked, events,
                   mDbgBreakOnModuleLoadString, ended, loads>>

Next == \/ InitializeCore \/ InitializeLate \/ InitializeZero \/ ExitBootServices
        \/ \E p \in {"cpu", "timer"} : InstallProtocol(p)
        \/ OnCpuArchProtocolNotification
        \/ OnTimerArchProtocolNotification
        \/ \E m \in Modules \cup {""} : DbgSetBreakOnModuleLoad(m)
        \/ \E m \in Names : LoadImage(m)
        \/ OnLoadedImageNotification

Spec == Init /\ [][Next]_vars

-----------------------------------------------------------------------------
\* The variables have their types.
TypeOK == /\ stage \in {"reset", "core", "late", "exited"}
          /\ mDebuggerInitialized \in BOOLEAN /\ mDisablePolling \in BOOLEAN
          /\ gCpu \in BOOLEAN /\ gTimer \in BOOLEAN
          /\ installed \subseteq {"cpu", "timer"}
          /\ hooked \in [{"core", "cpu"} -> SUBSET Types]
          /\ mTimerEvent \in Events \cup {"null"}
          /\ events \subseteq Events
          /\ signaled \subseteq events \cap Notifications
          /\ mDbgBreakOnModuleLoadString \in Modules \cup {""}
          /\ unseen \in Seq(Names) /\ fresh \subseteq Names
          /\ stop \in Modules \cup {"none"}
          /\ ended \in BOOLEAN /\ loads \in 0 .. MaxLoads

\* Once initialized, the agent catches every exception type until it is ended,
\* also after the CPU driver has replaced the handlers, as soon as
\* OnCpuArchProtocolNotification has run; unless DxeDebugSetupCallbacks could not
\* create the event of that notification, which it only logs.
CatchesExceptions ==
    (mDebuggerInitialized /\ ~ended /\ "cpuNotify" \notin signaled)
        => hooked[Table] = Types \/ (Table = "cpu" /\ "cpuNotify" \notin events)

\* OnExitBootServices "terminates the debugger": no exception reaches it
\* afterwards, and the timer does not poll.
QuietOnceEnded == ended => hooked[Table] = {} /\ "poll" \notin events

\* The operating system never meets the debugger, whichever handler or other event
\* was refused during the boot and whoever ended the debugger before; unless
\* DxeDebugSetupCallbacks could not create the event of OnExitBootServices, which it
\* only logs: then handlers and timer stay.
QuietAtRuntime ==
    (stage = "exited" /\ (mDebuggerInitialized => "exitNotify" \in events))
        => hooked[Table] = {} /\ "poll" \notin events

\* The polling timer can always be closed: mTimerEvent holds it, though the same
\* variable held the event of the timer protocol's notification before.
PollerHeld == "poll" \in events => mTimerEvent = "poll"

\* The notification of a load stops for the requested module, whatever images
\* earlier notifications have left to be looked at.
StopsAtLoad ==
    [][(OnLoadedImageNotification /\ mDbgBreakOnModuleLoadString \in fresh)
           => stop' = mDbgBreakOnModuleLoadString]_vars

=============================================================================
