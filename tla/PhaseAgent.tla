---------------------------- MODULE PhaseAgent ----------------------------
(***************************************************************************)
(* The life of the debug agent of MM (DebugAgentMm.c) and of PEI           *)
(* (DebugAgentPeiLib.c): one module each, linked into the core of its      *)
(* phase, which calls InitializeDebugAgent.                                *)
(*                                                                         *)
(* Each call is one action: nothing interrupts it but the break it may end *)
(* in, which the module Execution adds.                                    *)
(***************************************************************************)
EXTENDS Naturals, Sequences

CONSTANTS Builds,             \* the builds to consider: records [phase, arch]
          mArchExceptionTypes \* for each architecture the sequence of exceptions handled

VARIABLES build,      \* the one that runs; it never changes
          called,     \* the core has made its first call
          mDebuggerInitialized,
          hooked,     \* exceptions that have DebuggerExceptionHandler
          ended       \* history: InitializeDebugAgent (0) was called

agentVars == <<build, called, mDebuggerInitialized, hooked, ended>>

Phase == build.phase
Arch  == build.arch
Types == mArchExceptionTypes[Arch]

Architectures == {"X64", "AARCH64"}

ASSUME BuildAssumption ==
    /\ Builds \subseteq [phase : {"MM", "PEI"}, arch : Architectures] /\ Builds # {}
    /\ mArchExceptionTypes \in [Architectures -> Seq(STRING) \ {<<>>}]

\* The first n exceptions of the list, and all of them.
FirstTypes(n) == {Types[i] : i \in 1 .. n}
Vectors       == FirstTypes(Len(Types))

AgentInit == /\ build \in Builds
             /\ called = FALSE
             /\ mDebuggerInitialized = FALSE
             /\ hooked = {}
             /\ ended = FALSE

DebugAgentExceptionDestroy(h) == h \ Vectors

\* Mutated form of DebugAgentExceptionInitialize: the last one is missed.
ExceptionInitializeButLast(h, refused) ==
    FirstTypes(Len(Types) - 1)

\* The handlers up to the one that is refused are registered, then all are removed;
\* refused = 0 when none is.  MM first removes the handlers that are there; PEI
\* first sets up the processor's exception table.
DebugAgentExceptionInitialize(h, refused) ==
    IF refused = 0 THEN DebugAgentExceptionDestroy(h) \cup Vectors
    ELSE DebugAgentExceptionDestroy(h \cup FirstTypes(refused - 1))

\* The debugger is not enabled, its transport fails, or (PEI) the exception table.
StaysOff == /\ ~called
            /\ called' = TRUE
            /\ UNCHANGED <<build, mDebuggerInitialized, hooked, ended>>

\* DEBUG_AGENT_INIT_SMM, or any call in PEI, up to a refused handler.
InitializeRefused ==
    /\ ~called
    /\ called' = TRUE
    /\ \E k \in 1 .. Len(Types) :
           hooked' = DebugAgentExceptionInitialize(hooked, k)
    /\ UNCHANGED <<build, mDebuggerInitialized, ended>>

\* The same, successful.  Only MM keeps a flag.
InitializeDone ==
    /\ ~called
    /\ called' = TRUE
    /\ hooked' = DebugAgentExceptionInitialize(hooked, 0)
    /\ mDebuggerInitialized' = (Phase = "MM")
    /\ UNCHANGED <<build, ended>>

\* DEBUG_AGENT_INIT_ENTER_SMI calls DebuggerPollInput.
Polls == Phase = "MM" /\ mDebuggerInitialized

\* InitializeDebugAgent (0) in MM; mDebuggerInitialized stays set.
InitializeZero ==
    /\ Phase = "MM"
    /\ mDebuggerInitialized
    /\ hooked' = DebugAgentExceptionDestroy(hooked)
    /\ ended' = TRUE
    /\ UNCHANGED <<build, called, mDebuggerInitialized>>

=============================================================================
