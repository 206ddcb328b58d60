--------------------------- MODULE DxeAgentProofs ---------------------------
(***************************************************************************)
(* Theorems about DxeAgent, for any number of exceptions, modules and      *)
(* images.                                                                 *)
(***************************************************************************)
EXTENDS DxeAgent, LeastElement, TLAPS

Tables == {"core", "cpu"}

\* What the variables hold, as far as the theorems need it.
Shape == /\ stage \in {"reset", "core", "late", "exited"}
         /\ mDebuggerInitialized \in BOOLEAN /\ gCpu \in BOOLEAN /\ ended \in BOOLEAN
         /\ installed \subseteq {"cpu", "timer"}
         /\ hooked \in [Tables -> SUBSET Types]
         /\ mTimerEvent \in {"null", "timerNotify", "poll"}
         /\ events \subseteq Events /\ signaled \subseteq events

\* Nothing happens before InitializeLate, nor ever if the debugger is not initialized.
Early == stage \in {"reset", "core"} =>
             /\ installed = {} /\ ~gCpu /\ events = {} /\ signaled = {} /\ ~ended
             /\ stage = "reset" => ~mDebuggerInitialized
Off   == ~mDebuggerInitialized =>
             events = {} /\ signaled = {} /\ hooked["cpu"] = {} /\ ~gCpu

\* Without the event that brings the CPU driver to the agent's notice, the agent
\* leaves the driver alone.
Unnoticed == "cpuNotify" \notin events => ~gCpu /\ hooked["cpu"] = {}

\* The CPU driver is there, and its notification has run.
CpuNoticed == "cpu" \in installed /\ "cpuNotify" \in events \ signaled

\* gCpu tells whether the CPU driver is there, once the notification has run.
CpuKnown == /\ gCpu => "cpu" \in installed
            /\ mDebuggerInitialized /\ CpuNoticed => gCpu

\* Before the CPU driver and after its notification all types are registered.
Hooked == (mDebuggerInitialized /\ ~ended) =>
              /\ "cpu" \notin installed => hooked["core"] = Types
              /\ CpuNoticed => hooked["cpu"] = Types

\* OnExitBootServices is called, if there is something for it to do.
ExitHeard == mDebuggerInitialized => "exitNotify" \in events

Exited == stage = "exited" =>
              /\ signaled = {} /\ "cpu" \in installed
              /\ ExitHeard => hooked["cpu"] = {} /\ "poll" \notin events

AgentInv == Shape /\ Early /\ Off /\ Unnoticed /\ CpuKnown /\ Hooked /\ PollerHeld /\ Exited

-----------------------------------------------------------------------------
\* What the registrations and the termination do to the tables.

LEMMA TablesAfter ==
    ASSUME NEW h \in [Tables -> SUBSET Types], NEW cpu \in BOOLEAN, NEW k \in Types
    PROVE  /\ Destroyed(h, cpu) \in [Tables -> SUBSET Types]
           /\ cpu => Destroyed(h, cpu)["cpu"] = {}
           /\ Registered(h, cpu) \in [Tables -> SUBSET Types]
           /\ cpu => Registered(h, cpu)["cpu"] = Types
           /\ ~cpu => Registered(h, cpu)["core"] = Types
           /\ ~cpu => Registered(h, cpu)["cpu"] = h["cpu"]
           /\ Refused(h, cpu, k) \in [Tables -> SUBSET Types]
           /\ cpu => Refused(h, cpu, k)["cpu"] = {}
           /\ ~cpu => Refused(h, cpu, k)["cpu"] = h["cpu"]
<1>1. 1 .. k - 1 \subseteq Types
  BY CountAssumption DEF Types
<1>2. CASE cpu
  <2>1. Destroyed(h, cpu) \in [Tables -> SUBSET Types] /\ Destroyed(h, cpu)["cpu"] = {}
    BY <1>2 DEF Destroyed, Tables
  <2>2. /\ Registered(h, cpu) \in [Tables -> SUBSET Types]
        /\ Registered(h, cpu)["cpu"] = Types
    BY <1>2, <2>1 DEF Registered, Tables
  <2>3. /\ Refused(h, cpu, k) \in [Tables -> SUBSET Types]
        /\ Refused(h, cpu, k)["cpu"] = {}
    BY <1>1, <1>2 DEF Refused, Destroyed, Tables
  <2> QED BY <1>2, <2>1, <2>2, <2>3
<1>3. CASE ~cpu
  <2>1. Destroyed(h, cpu) = h
    BY <1>3 DEF Destroyed
  <2>2. Registered(h, cpu) = [h EXCEPT !["core"] = Types]
    BY <1>3, <2>1 DEF Registered
  <2>3. Refused(h, cpu, k) = [h EXCEPT !["core"] = @ \cup 1 .. k - 1]
    BY <1>3, <2>1 DEF Refused, Destroyed
  <2> QED BY <1>1, <1>3, <2>1, <2>2, <2>3 DEF Tables
<1> QED BY <1>2, <1>3

LEMMA AgentInit == Init => AgentInv
  BY DEF Init, AgentInv, Shape, Early, Off, Unnoticed, CpuNoticed, CpuKnown,
     Hooked, PollerHeld, Exited, ExitHeard, Tables

-----------------------------------------------------------------------------
\* One lemma for each action.

LEMMA AgentInitializeCore == ASSUME AgentInv, InitializeCore PROVE AgentInv'
<1> USE DEF AgentInv
<1>1. /\ stage = "reset" /\ stage' = "core" /\ installed = {} /\ ~gCpu
      /\ events = {} /\ signaled = {} /\ ~ended /\ ~mDebuggerInitialized
      /\ hooked \in [Tables -> SUBSET Types] /\ hooked["cpu"] = {}
      /\ UNCHANGED <<gCpu, mTimerEvent, installed, events, signaled, ended>>
  BY DEF InitializeCore, Early, Off, Shape, timer
<1>2. /\ mDebuggerInitialized' \in BOOLEAN
      /\ hooked' \in [Tables -> SUBSET Types] /\ hooked'["cpu"] = {}
      /\ mDebuggerInitialized' => hooked'["core"] = Types
  <2>1. mDebuggerInitialized = FALSE /\ gCpu = FALSE /\ 1 \in Types
    BY <1>1, CountAssumption DEF Shape, Types
  <2>2. CASE UNCHANGED <<hooked, agent>>
    <3>1. hooked' = hooked /\ mDebuggerInitialized' = mDebuggerInitialized
      BY <2>2 DEF agent
    <3> QED BY <1>1, <2>1, <3>1
  <2>3. CASE hooked' = Registered(hooked, gCpu) /\ mDebuggerInitialized' = TRUE
    <3>1. /\ hooked' \in [Tables -> SUBSET Types] /\ hooked'["cpu"] = {}
          /\ hooked'["core"] = Types
      BY <1>1, <2>1, <2>3, TablesAfter
    <3> QED BY <2>3, <3>1
  <2>4. CASE (\E k \in Types : hooked' = Refused(hooked, gCpu, k)) /\ UNCHANGED agent
    <3>1. PICK k \in Types : hooked' = Refused(hooked, gCpu, k)
      BY <2>4
    <3>2. hooked' \in [Tables -> SUBSET Types] /\ hooked'["cpu"] = {}
      BY <1>1, <2>1, <3>1, TablesAfter
    <3>3. mDebuggerInitialized' = mDebuggerInitialized
      BY <2>4 DEF agent
    <3> QED BY <2>1, <3>2, <3>3
  <2> QED BY <2>2, <2>3, <2>4 DEF InitializeCore
<1>3. Shape' /\ Early' /\ Off'
  BY <1>1, <1>2 DEF Shape, Early, Off
<1>4. Unnoticed' /\ CpuKnown' /\ Hooked' /\ PollerHeld' /\ Exited'
  BY <1>1, <1>2 DEF Unnoticed, CpuNoticed, CpuKnown, Hooked,
     ExitHeard, PollerHeld, Exited
<1> QED BY <1>3, <1>4

LEMMA AgentInitializeLate == ASSUME AgentInv, InitializeLate PROVE AgentInv'
<1> USE DEF AgentInv
<1>1. /\ stage = "core" /\ stage' = "late" /\ installed = {} /\ ~gCpu
      /\ events = {} /\ signaled = {} /\ ~ended
      /\ UNCHANGED <<mDebuggerInitialized, gCpu, installed, hooked, ended>>
  BY DEF InitializeLate, Early, agent
<1>2. CASE mDebuggerInitialized
  <2>0. PICK new \in SUBSET Wanted :
              /\ events' = events \cup new
              /\ signaled' = signaled \cup CreatedSignaled(new)
              /\ mTimerEvent' \in {"timerNotify", "null", mTimerEvent}
    BY <1>2 DEF InitializeLate
  <2>1. /\ "poll" \notin events' /\ hooked["cpu"] = {}
        /\ events' \subseteq Events /\ signaled' \subseteq events'
        /\ mTimerEvent' \in {"null", "timerNotify", "poll"}
    BY <1>1, <2>0 DEF Wanted, CreatedSignaled, Events, Notifications, Shape, Unnoticed
  <2>2. Shape' /\ Early' /\ Off'
    BY <1>1, <1>2, <2>1 DEF Shape, Early, Off
  <2>3. Unnoticed' /\ CpuKnown' /\ Hooked' /\ PollerHeld' /\ Exited'
    BY <1>1, <1>2, <2>1 DEF Unnoticed, CpuNoticed, CpuKnown, Hooked,
     ExitHeard, PollerHeld, Exited
  <2> QED BY <2>2, <2>3
<1>3. CASE ~mDebuggerInitialized
  <2>1. UNCHANGED <<events, signaled, mTimerEvent>>
    BY <1>3 DEF InitializeLate
  <2>2. Shape' /\ Early' /\ Off'
    BY <1>1, <1>3, <2>1 DEF Shape, Early, Off
  <2>3. Unnoticed' /\ CpuKnown' /\ Hooked' /\ PollerHeld' /\ Exited'
    BY <1>1, <1>3, <2>1 DEF Unnoticed, CpuNoticed, CpuKnown, Hooked,
     ExitHeard, PollerHeld, Exited
  <2> QED BY <2>2, <2>3
<1> QED BY <1>2, <1>3

LEMMA AgentInitializeZero == ASSUME AgentInv, InitializeZero PROVE AgentInv'
<1> USE DEF AgentInv
<1>1. /\ stage = "late" /\ mDebuggerInitialized /\ ended' = TRUE
      /\ events' = events \ {mTimerEvent} /\ signaled' = signaled \cap events'
      /\ hooked' = Destroyed(hooked, gCpu)
      /\ UNCHANGED <<stage, mDebuggerInitialized, gCpu, installed, mTimerEvent>>
  BY DEF InitializeZero, Terminate, TimerDestroyed, agent, timer
<1>2. hooked' \in [Tables -> SUBSET Types]
  <2>1. 1 \in Types
    BY CountAssumption DEF Types
  <2> QED BY <1>1, <2>1, TablesAfter DEF Shape
<1>3. ("cpuNotify" \in events' <=> "cpuNotify" \in events)
      /\ (~gCpu => hooked' = hooked)
  BY <1>1 DEF Shape, Destroyed
<1>4. Shape' /\ Early' /\ Off'
  BY <1>1, <1>2 DEF Shape, Early, Off
<1>5. CpuKnown'
  BY <1>1, <1>3 DEF CpuKnown, CpuNoticed, Shape
<1>6. Unnoticed' /\ Hooked' /\ PollerHeld' /\ Exited'
  BY <1>1, <1>3 DEF Unnoticed, CpuNoticed, Hooked, ExitHeard, PollerHeld, Exited
<1> QED BY <1>4, <1>5, <1>6

LEMMA AgentExitBootServices == ASSUME AgentInv, ExitBootServices PROVE AgentInv'
<1> USE DEF AgentInv
<1>1. /\ stage = "late" /\ stage' = "exited" /\ installed = {"cpu", "timer"} /\ signaled = {}
      /\ UNCHANGED <<mDebuggerInitialized, gCpu, installed, signaled, mTimerEvent>>
      /\ hooked \in [Tables -> SUBSET Types]
  BY DEF ExitBootServices, agent, timer, Shape
<1>2. CASE mDebuggerInitialized
  <2>1. CASE "exitNotify" \in events
    <3>1. /\ events' = events \ {mTimerEvent} /\ hooked' = Destroyed(hooked, gCpu)
          /\ ended' = TRUE
      BY <2>1 DEF ExitBootServices, Terminate, TimerDestroyed
    <3>2. 1 \in Types /\ gCpu \in BOOLEAN
      BY CountAssumption DEF Types, Shape
    <3>3. hooked' \in [Tables -> SUBSET Types] /\ (gCpu => hooked'["cpu"] = {})
      BY <1>1, <3>1, <3>2, TablesAfter
    <3>4. ~gCpu => hooked["cpu"] = {} /\ hooked' = hooked
      BY <1>1, <1>2, <3>1 DEF CpuKnown, CpuNoticed, Unnoticed, Destroyed
    <3>5. /\ "poll" \notin events' /\ hooked'["cpu"] = {}
          /\ "cpuNotify" \in events' <=> "cpuNotify" \in events
      BY <3>1, <3>3, <3>4 DEF PollerHeld, Shape
    <3>6. Shape' /\ Early' /\ Off'
      BY <1>1, <1>2, <3>1, <3>3 DEF Shape, Early, Off
    <3>7. Unnoticed' /\ CpuKnown' /\ Hooked' /\ PollerHeld' /\ Exited'
      BY <1>1, <3>1, <3>5 DEF Unnoticed, CpuNoticed, CpuKnown, Hooked, PollerHeld, Exited
    <3> QED BY <3>6, <3>7
  <2>2. CASE "exitNotify" \notin events
    <3>1. UNCHANGED <<events, hooked, ended>>
      BY <2>2 DEF ExitBootServices
    <3>2. Shape' /\ Early' /\ Off'
      BY <1>1, <1>2, <3>1 DEF Shape, Early, Off
    <3>3. ~ExitHeard'
      BY <1>1, <1>2, <2>2, <3>1 DEF ExitHeard
    <3>4. Unnoticed' /\ CpuKnown' /\ Hooked' /\ PollerHeld' /\ Exited'
      BY <1>1, <3>1, <3>3 DEF Unnoticed, CpuNoticed, CpuKnown, Hooked, PollerHeld, Exited
    <3> QED BY <3>2, <3>4
  <2> QED BY <2>1, <2>2
<1>3. CASE ~mDebuggerInitialized
  <2>1. events = {} /\ hooked["cpu"] = {} /\ UNCHANGED <<events, hooked, ended>>
    BY <1>3 DEF Off, ExitBootServices
  <2>2. Shape' /\ Early' /\ Off'
    BY <1>1, <1>3, <2>1 DEF Shape, Early, Off
  <2>3. Unnoticed' /\ CpuKnown' /\ Hooked' /\ PollerHeld' /\ Exited'
    BY <1>1, <1>3, <2>1 DEF Unnoticed, CpuNoticed, CpuKnown, Hooked,
     ExitHeard, PollerHeld, Exited
  <2> QED BY <2>2, <2>3
<1> QED BY <1>2, <1>3

LEMMA AgentInstallProtocol ==
    ASSUME AgentInv, NEW p \in {"cpu", "timer"}, InstallProtocol(p) PROVE AgentInv'
<1> USE DEF AgentInv
<1>1. /\ stage = "late" /\ p \notin installed /\ installed' = installed \cup {p}
      /\ signaled \subseteq signaled' /\ signaled' \subseteq events
      /\ (p = "cpu" /\ "cpuNotify" \in events) => "cpuNotify" \in signaled'
      /\ UNCHANGED <<stage, mDebuggerInitialized, gCpu, mTimerEvent, hooked, events, ended>>
  BY DEF InstallProtocol, agent, timer, Shape
<1>2. p = "cpu" => ~CpuNoticed'
  BY <1>1 DEF CpuNoticed
<1>3. Shape' /\ Early' /\ Off'
  BY <1>1 DEF Shape, Early, Off
<1>4. CpuKnown' /\ Hooked'
  BY <1>1, <1>2 DEF CpuKnown, CpuNoticed, Hooked
<1>5. Unnoticed' /\ PollerHeld' /\ Exited'
  BY <1>1 DEF Unnoticed, PollerHeld, ExitHeard, Exited
<1> QED BY <1>3, <1>4, <1>5

LEMMA AgentOnCpu == ASSUME AgentInv, OnCpuArchProtocolNotification PROVE AgentInv'
<1> USE DEF AgentInv
<1>1. /\ "cpuNotify" \in signaled /\ gCpu' = ("cpu" \in installed)
      /\ UNCHANGED <<stage, mDebuggerInitialized, installed, mTimerEvent>>
      /\ hooked \in [Tables -> SUBSET Types]
  BY DEF OnCpuArchProtocolNotification, agent, timer, Shape
<1>2. mDebuggerInitialized /\ stage = "late"
  BY <1>1 DEF Off, Early, Exited, Shape
<1>3. "cpuNotify" \in events
  BY <1>1 DEF Shape
<1>4. 1 \in Types
  BY CountAssumption DEF Types
<1>5. CASE ~gCpu' /\ UNCHANGED <<hooked, events, ended>> /\ signaled' = signaled \ {"cpuNotify"}
  <2>1. Shape' /\ Early' /\ Off'
    BY <1>1, <1>2, <1>5 DEF Shape, Early, Off
  <2>2. Unnoticed' /\ CpuKnown' /\ Hooked' /\ PollerHeld' /\ Exited'
    BY <1>1, <1>2, <1>3, <1>5 DEF Unnoticed, CpuNoticed, CpuKnown, Hooked,
     ExitHeard, PollerHeld, Exited
  <2> QED BY <2>1, <2>2
<1>6. CASE /\ gCpu' /\ hooked' = Registered(hooked, TRUE) /\ UNCHANGED <<events, ended>>
           /\ signaled' = signaled \ {"cpuNotify"}
  <2>1. hooked' \in [Tables -> SUBSET Types] /\ hooked'["cpu"] = Types
    BY <1>1, <1>4, <1>6, TablesAfter
  <2>2. Shape' /\ Early' /\ Off'
    BY <1>1, <1>2, <1>6, <2>1 DEF Shape, Early, Off
  <2>3. Unnoticed' /\ CpuKnown' /\ Hooked' /\ PollerHeld' /\ Exited'
    BY <1>1, <1>2, <1>3, <1>6, <2>1 DEF Unnoticed, CpuNoticed, CpuKnown, Hooked,
     ExitHeard, PollerHeld, Exited
  <2> QED BY <2>2, <2>3
<1>7. CASE /\ gCpu'
           /\ \E k \in Types : Terminate(Refused(hooked, TRUE, k), TRUE)
           /\ signaled' = (signaled \ {"cpuNotify"}) \cap events'
  <2>1. PICK k \in Types : Terminate(Refused(hooked, TRUE, k), TRUE)
    BY <1>7
  <2>2. /\ Refused(hooked, TRUE, k) \in [Tables -> SUBSET Types]
    BY <1>1, TablesAfter
  <2>3. hooked' \in [Tables -> SUBSET Types]
    BY <1>4, <2>1, <2>2, TablesAfter DEF Terminate
  <2>4. events' = events \ {mTimerEvent} /\ ended' = TRUE
    BY <2>1 DEF Terminate, TimerDestroyed
  <2>5. "cpuNotify" \in events'
    BY <1>3, <2>4 DEF Shape
  <2>6. Shape' /\ Early' /\ Off'
    BY <1>1, <1>2, <1>7, <2>3, <2>4 DEF Shape, Early, Off
  <2>7. Unnoticed' /\ CpuKnown' /\ Hooked' /\ PollerHeld' /\ Exited'
    BY <1>1, <1>2, <1>7, <2>4, <2>5 DEF Unnoticed, CpuNoticed, CpuKnown, Hooked,
     ExitHeard, PollerHeld, Exited
  <2> QED BY <2>6, <2>7
<1> QED BY <1>5, <1>6, <1>7 DEF OnCpuArchProtocolNotification

LEMMA AgentOnTimer == ASSUME AgentInv, OnTimerArchProtocolNotification PROVE AgentInv'
<1> USE DEF AgentInv
<1>1. /\ "timerNotify" \in signaled /\ signaled' = signaled \ {"timerNotify"}
      /\ UNCHANGED <<stage, mDebuggerInitialized, gCpu, installed, hooked, ended>>
      /\ \/ events' = events \cup {"poll"} /\ mTimerEvent' = "poll"
         \/ UNCHANGED <<events, mTimerEvent>>
  BY DEF OnTimerArchProtocolNotification, DebugAgentInitializeTimer, agent
<1>2. mDebuggerInitialized /\ stage = "late"
  BY <1>1 DEF Off, Early, Exited, Shape
<1>3. Shape' /\ Early' /\ Off'
  BY <1>1, <1>2 DEF Shape, Early, Off, Events
<1>4. Unnoticed' /\ CpuKnown' /\ Hooked' /\ PollerHeld' /\ Exited'
  BY <1>1, <1>2 DEF Unnoticed, CpuNoticed, CpuKnown, Hooked,
     ExitHeard, PollerHeld, Exited
<1> QED BY <1>3, <1>4

\* The requests for a break on load and the loads touch none of this.
LEMMA AgentImages ==
    ASSUME AgentInv,
           \/ \E m \in Modules \cup {""} : DbgSetBreakOnModuleLoad(m)
           \/ \E m \in Names : LoadImage(m)
           \/ OnLoadedImageNotification
    PROVE  AgentInv'
<1> USE DEF AgentInv
<1>1. /\ UNCHANGED <<stage, mDebuggerInitialized, gCpu, installed, hooked, events, ended,
                     mTimerEvent>>
      /\ signaled' \subseteq events
      /\ "cpuNotify" \in signaled <=> "cpuNotify" \in signaled'
      /\ signaled' = {} \/ stage = "late" \/ signaled' \subseteq signaled
  BY DEF DbgSetBreakOnModuleLoad, LoadImage, OnLoadedImageNotification, agent, timer, Shape
<1>2. Shape' /\ Early' /\ Off'
  BY <1>1 DEF Shape, Early, Off
<1>3. Unnoticed' /\ CpuKnown' /\ Hooked' /\ PollerHeld' /\ Exited'
  BY <1>1 DEF Unnoticed, CpuNoticed, CpuKnown, Hooked,
     ExitHeard, PollerHeld, Exited
<1> QED BY <1>2, <1>3

LEMMA AgentStep == AgentInv /\ [Next]_vars => AgentInv'
<1> SUFFICES ASSUME AgentInv, [Next]_vars PROVE AgentInv'
    OBVIOUS
<1>1. CASE UNCHANGED vars
  BY <1>1 DEF vars, agent, timer, images, AgentInv, Shape, Early, Off, Unnoticed, CpuNoticed,
              CpuKnown, Hooked, ExitHeard, PollerHeld, Exited
<1>2. CASE Next
  BY <1>2, AgentInitializeCore, AgentInitializeLate, AgentInitializeZero,
     AgentExitBootServices, AgentInstallProtocol, AgentOnCpu, AgentOnTimer, AgentImages
     DEF Next
<1> QED BY <1>1, <1>2

LEMMA AgentAlways == Spec => []AgentInv
  BY AgentInit, AgentStep, PTL DEF Spec

\* Once initialized and until it is ended, the agent catches every exception type,
\* whichever of the two handler tables the processor uses (OnCpuArchProtocolNotification),
\* unless the event of the CPU driver's notification could not be created.
THEOREM ExceptionsCaught == Spec => []CatchesExceptions
<1>1. AgentInv => CatchesExceptions
  BY DEF AgentInv, Hooked, CpuNoticed, CatchesExceptions, Table
<1> QED BY <1>1, AgentAlways, PTL

\* The polling timer can always be closed (DebugAgentInitializeTimer and
\* DxeDebugSetupCallbacks share mTimerEvent).
THEOREM PollerAlwaysHeld == Spec => []PollerHeld
<1>1. AgentInv => PollerHeld
  BY DEF AgentInv
<1> QED BY <1>1, AgentAlways, PTL

\* Whichever handlers and other events were refused during the boot and whoever ended
\* the debugger before, the operating system meets no handler and no timer of it
\* (OnExitBootServices), as long as the event that calls OnExitBootServices exists.
THEOREM RuntimeQuiet == Spec => []QuietAtRuntime
<1>1. AgentInv => QuietAtRuntime
  BY DEF AgentInv, Exited, ExitHeard, QuietAtRuntime, Table
<1> QED BY <1>1, AgentAlways, PTL

-----------------------------------------------------------------------------
\* The break on module load.

ImageTypes == /\ mDisablePolling \in BOOLEAN /\ gTimer \in BOOLEAN
              /\ signaled \subseteq Notifications
              /\ mDbgBreakOnModuleLoadString \in Modules \cup {""}
              /\ unseen \in Seq(Names) /\ fresh \subseteq Names
              /\ stop \in Modules \cup {"none"} /\ loads \in 0 .. MaxLoads

\* No image leaves the list of a notification that has not run since its load.
FreshUnseen == fresh \subseteq ToSet(unseen)

ImageInv == ImageTypes /\ FreshUnseen

\* Taking the images up to the first of a name leaves a list of names.
LEMMA AfterFirstRest ==
    ASSUME NEW S, NEW s \in Seq(S), NEW m
    PROVE  /\ AfterFirst(s, m).rest \in Seq(S)
           /\ m \in ToSet(s) => AfterFirst(s, m).found = TRUE
<1>1. CASE m \in ToSet(s)
  <2> DEFINE I == {i \in 1 .. Len(s) : s[i] = m}
             n == SelectInSeq(s, LAMBDA e : e = m)
  <2>1. I \in SUBSET Nat /\ I # {}
    BY <1>1 DEF ToSet
  <2>2. n = Min(I)
    BY <2>1 DEF SelectInSeq
  <2> HIDE DEF I
  <2>3. Min(I) \in I
    BY <2>1, LeastNat, Zenon DEF Min
  <2>4. n \in 1 .. Len(s)
    BY <2>2, <2>3 DEF I
  <2>5. AfterFirst(s, m) = [found |-> TRUE, rest |-> SubSeq(s, n + 1, Len(s))]
    BY <1>1 DEF AfterFirst
  <2> HIDE DEF n
  <2>6. SubSeq(s, n + 1, Len(s)) \in Seq(S)
    BY <2>4
  <2> QED BY <1>1, <2>5, <2>6
<1>2. CASE m \notin ToSet(s)
  <2>1. AfterFirst(s, m) = [found |-> FALSE, rest |-> <<>>]
    BY <1>2 DEF AfterFirst
  <2>2. <<>> \in Seq(S)
    OBVIOUS
  <2> QED BY <1>2, <2>1, <2>2
<1> QED BY <1>1, <1>2

LEMMA AppendSet ==
    ASSUME NEW S, NEW s \in Seq(S), NEW m \in S
    PROVE  ToSet(s) \cup {m} \subseteq ToSet(Append(s, m))
<1>1. /\ DOMAIN Append(s, m) = 1 .. Len(s) + 1
      /\ Append(s, m)[Len(s) + 1] = m
      /\ \A i \in 1 .. Len(s) : Append(s, m)[i] = s[i]
  OBVIOUS
<1>2. Len(s) + 1 \in DOMAIN Append(s, m) /\ DOMAIN s = 1 .. Len(s)
  BY <1>1
<1>3. \A i \in DOMAIN s : i \in DOMAIN Append(s, m) /\ Append(s, m)[i] = s[i]
  BY <1>1
<1> QED BY <1>1, <1>2, <1>3, Zenon DEF ToSet

LEMMA ImageInit == Init => ImageInv
<1>1. <<>> \in Seq(Names)
  OBVIOUS
<1>2. 0 \in 0 .. MaxLoads
  BY CountAssumption
<1> QED BY <1>1, <1>2 DEF Init, ImageInv, ImageTypes, FreshUnseen

LEMMA ImageStep == AgentInv /\ ImageInv /\ [Next]_vars => ImageInv'
<1> SUFFICES ASSUME AgentInv, ImageInv, [Next]_vars PROVE ImageInv'
    OBVIOUS
<1> USE DEF ImageInv
<1>1. CASE \E m \in Names : LoadImage(m)
  <2>1. PICK m \in Names : LoadImage(m)
    BY <1>1
  <2>2. /\ loads' \in 0 .. MaxLoads
        /\ unseen \in Seq(Names)
    <3>1. loads \in 0 .. MaxLoads
      BY DEF ImageTypes
    <3>2. loads < MaxLoads /\ loads' = loads + 1
      BY <2>1 DEF LoadImage
    <3>3. unseen \in Seq(Names)
      BY DEF ImageTypes
    <3> QED BY <3>1, <3>2, <3>3, CountAssumption
  <2>3. CASE "loadNotify" \in events
    <3>1. /\ unseen' = Append(unseen, m) /\ fresh' = fresh \cup {m}
          /\ signaled' = signaled \cup {"loadNotify"}
          /\ UNCHANGED <<mDisablePolling, gTimer, mDbgBreakOnModuleLoadString, stop>>
      BY <2>1, <2>3 DEF LoadImage, agent, timer
    <3>2. unseen' \in Seq(Names)
      BY <2>2, <3>1
    <3>3. ToSet(unseen) \cup {m} \subseteq ToSet(unseen')
      BY <3>1, AppendSet DEF ImageTypes
    <3>4. ImageTypes'
      BY <2>2, <3>1, <3>2 DEF ImageTypes, Notifications
    <3> QED BY <3>1, <3>3, <3>4 DEF FreshUnseen
  <2>4. CASE "loadNotify" \notin events
    BY <2>1, <2>2, <2>4 DEF LoadImage, agent, timer, ImageTypes, FreshUnseen
  <2> QED BY <2>3, <2>4
<1>2. CASE OnLoadedImageNotification
  <2>1. fresh' = {} /\ signaled' \subseteq signaled
        /\ UNCHANGED <<mDisablePolling, gTimer, mDbgBreakOnModuleLoadString, loads>>
    BY <1>2 DEF OnLoadedImageNotification, agent, timer
  <2>2. unseen' \in Seq(Names) /\ stop' \in Modules \cup {"none"}
    <3>1. CASE mDbgBreakOnModuleLoadString = ""
      BY <1>2, <3>1 DEF OnLoadedImageNotification, ImageTypes
    <3>2. CASE mDbgBreakOnModuleLoadString # ""
      BY <1>2, <3>2, AfterFirstRest DEF OnLoadedImageNotification, ImageTypes
    <3> QED BY <3>1, <3>2
  <2> QED BY <2>1, <2>2 DEF ImageTypes, FreshUnseen
<1>3. CASE \E m \in Modules \cup {""} : DbgSetBreakOnModuleLoad(m)
  BY <1>3 DEF DbgSetBreakOnModuleLoad, agent, timer, ImageTypes, FreshUnseen
<1>4. ASSUME UNCHANGED images, mDisablePolling' \in BOOLEAN, gTimer' \in BOOLEAN,
             signaled' \subseteq Notifications
      PROVE  ImageInv'
  BY <1>4 DEF images, ImageTypes, FreshUnseen
<1>5. CASE InitializeCore
  BY <1>4, <1>5 DEF InitializeCore, agent, timer, ImageTypes
<1>6. CASE InitializeLate
  BY <1>4, <1>6 DEF InitializeLate, CreatedSignaled, agent, ImageTypes
<1>7. CASE InitializeZero \/ ExitBootServices
  BY <1>4, <1>7 DEF InitializeZero, ExitBootServices, agent, timer, ImageTypes
<1>8. CASE \E p \in {"cpu", "timer"} : InstallProtocol(p)
  BY <1>4, <1>8 DEF InstallProtocol, Notifications, agent, timer, ImageTypes
<1>9. CASE OnCpuArchProtocolNotification
  BY <1>4, <1>9 DEF OnCpuArchProtocolNotification, agent, timer, ImageTypes
<1>10. CASE OnTimerArchProtocolNotification
  <2>1. gTimer' \in BOOLEAN
    BY <1>10 DEF OnTimerArchProtocolNotification
  <2> QED BY <1>4, <1>10, <2>1 DEF OnTimerArchProtocolNotification, agent, ImageTypes
<1>11. CASE UNCHANGED vars
  BY <1>4, <1>11 DEF vars, agent, timer, ImageTypes
<1> QED BY <1>1, <1>2, <1>3, <1>5, <1>6, <1>7, <1>8, <1>9, <1>10, <1>11 DEF Next

LEMMA ImageAlways == Spec => []ImageInv
  BY ImageInit, ImageStep, AgentAlways, PTL DEF Spec

\* The variables keep their types; in particular the notification that takes images
\* up to the requested one leaves a list of images (OnLoadedImageNotification).
THEOREM TypeCorrect == Spec => []TypeOK
<1>1. AgentInv /\ ImageInv => TypeOK
  BY DEF AgentInv, Shape, Tables, ImageInv, ImageTypes, TypeOK, Events, Notifications
<1> QED BY <1>1, AgentAlways, ImageAlways, PTL

\* The notification of a load stops for the requested module, whatever images earlier
\* notifications have left to be looked at, and whenever the request was made
\* (OnLoadedImageNotification).
THEOREM LoadStops == Spec => StopsAtLoad
<1>1. ImageInv /\ [Next]_vars =>
          [(OnLoadedImageNotification /\ mDbgBreakOnModuleLoadString \in fresh)
               => stop' = mDbgBreakOnModuleLoadString]_vars
  <2> SUFFICES ASSUME ImageInv, OnLoadedImageNotification,
                      mDbgBreakOnModuleLoadString \in fresh
               PROVE  stop' = mDbgBreakOnModuleLoadString
      OBVIOUS
  <2>1. /\ mDbgBreakOnModuleLoadString # ""
        /\ mDbgBreakOnModuleLoadString \in ToSet(unseen)
        /\ unseen \in Seq(Names)
    BY NameAssumption DEF ImageInv, ImageTypes, FreshUnseen
  <2>2. AfterFirst(unseen, mDbgBreakOnModuleLoadString).found
    BY <2>1, AfterFirstRest
  <2> QED BY <2>1, <2>2 DEF OnLoadedImageNotification
<1> QED BY <1>1, ImageAlways, PTL DEF Spec, StopsAtLoad

=============================================================================
