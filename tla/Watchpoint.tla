---------------------------- MODULE Watchpoint ----------------------------
(***************************************************************************)
(* The hardware watchpoints of X64 (DebugX64.c) and of AARCH64             *)
(* (DebugAarch64.c): a bank of debug registers that the stub's Z and z      *)
(* commands fill and clear.                                                *)
(*                                                                         *)
(* The registers are the only state: both routines recognise a watchpoint   *)
(* by comparing what they would write with what the registers hold.  What   *)
(* the debugger believes to be watched is the history variable outstanding. *)
(***************************************************************************)
EXTENDS Integers, FiniteSets

CONSTANTS Arch,            \* "X64" or "AARCH64"
          MAX_WATCHPOINTS, \* registers of the bank (4 in the source)
          Requests,        \* watchpoints the debugger asks for
          Latent           \* what the registers may hold before DebugArchInit

VARIABLES regs,        \* the debug registers
          initialized, \* DebugArchInit has run
          reply,       \* result of the last routine
          outstanding  \* added and not removed, as the debugger was told

vars == <<regs, initialized, reply, outstanding>>

Slots == 0 .. MAX_WATCHPOINTS - 1

\* A Z command: type 2 watches writes, 3 reads, 4 both.
Request == [addr : Nat, len : Nat, type : {2, 3, 4}]

Kinds(w) == (IF w.type \in {3, 4} THEN {"read"} ELSE {})
            \cup (IF w.type \in {2, 4} THEN {"write"} ELSE {})

\* A latent register may be enabled by DR7.L or by DR7.G: DebugArchInit clears
\* both, and nothing sets G again.
\* DR7.L, DR, DR7.RW and DR7.LEN, or WCR.E, WVR, WCR.LSC and WCR.BAS; size is
\* the number of bytes that LEN or BAS stands for.
Register == [enabled : BOOLEAN, addr : Nat, on : SUBSET {"read", "write"},
             size : 0 .. 8]

ASSUME ArchAssumption == Arch \in {"X64", "AARCH64"}
ASSUME BankAssumption == MAX_WATCHPOINTS \in Nat
ASSUME RequestAssumption == Requests \subseteq Request
ASSUME LatentAssumption == Latent \subseteq Register

-----------------------------------------------------------------------------
\* Mutated form of LengthToDebugRegLen: twice the bytes.
LengthTwice(len) == 2 * len

\* A length that X64 cannot express counts as one byte.
LengthToDebugRegLen(len) == IF len \in {1, 2, 4, 8} THEN len ELSE 1

\* The bits of BAS: at most eight bytes.
Bas(len) == IF len > 8 THEN 8 ELSE len

SizeOf(w) == IF Arch = "X64" THEN LengthToDebugRegLen(w.len) ELSE Bas(w.len)

\* X64 cannot watch reads alone; Lsc has a bit for each.
KindOf(w) == IF Arch = "X64" /\ "read" \in Kinds(w) THEN {"read", "write"}
             ELSE Kinds(w)

\* What an address register holds after a write: bits 0 and 1 of WVR are zero.
Stored(addr) == IF Arch = "X64" THEN addr ELSE addr - (addr % 4)

\* The test of both routines.
Matches(i, w) == /\ regs[i].enabled
                 /\ regs[i].on = KindOf(w)
                 /\ regs[i].size = SizeOf(w)
                 /\ regs[i].addr = w.addr

Found(w) == \E i \in Slots : Matches(i, w)

-----------------------------------------------------------------------------
Init == /\ regs \in [Slots -> Latent]
        /\ initialized = FALSE
        /\ reply = "none"
        /\ outstanding = {}

\* Mutated form of Disabled: the latent configuration stays.
StillEnabled(r) == r

\* X64 clears the enable bit, AARCH64 the whole control register.
Disabled(r) == IF Arch = "X64" THEN [r EXCEPT !.enabled = FALSE]
               ELSE [r EXCEPT !.enabled = FALSE, !.on = {}, !.size = 0]

DebugArchInit ==
    /\ ~initialized
    /\ initialized' = TRUE
    /\ regs' = [i \in Slots |-> Disabled(regs[i])]
    /\ UNCHANGED <<reply, outstanding>>

FirstFree(i) == /\ ~regs[i].enabled
                /\ \A j \in Slots : j < i => regs[j].enabled

\* Mutated form of Full: the last register is not looked at.
FullButLast == \A i \in Slots \ {MAX_WATCHPOINTS - 1} : regs[i].enabled

Full == \A i \in Slots : regs[i].enabled

Contents(w) == [enabled |-> TRUE, addr |-> Stored(w.addr),
                on |-> KindOf(w), size |-> SizeOf(w)]

Fill(i, w) == regs' = [regs EXCEPT ![i] = Contents(w)]

\* Only AARCH64 refuses an empty range.
Refuses(w) == Arch = "AARCH64" /\ w.len = 0

AddWatchpoint(w) ==
    /\ initialized
    /\ \/ /\ ~Refuses(w)
          /\ \/ Found(w) /\ UNCHANGED regs
             \/ ~Found(w) /\ \E i \in Slots : FirstFree(i) /\ Fill(i, w)
          /\ reply' = "ok"
          /\ outstanding' = outstanding \cup {w}
       \/ /\ Refuses(w) \/ (~Found(w) /\ Full)
          /\ reply' = "error"
          /\ UNCHANGED <<regs, outstanding>>
    /\ UNCHANGED initialized

\* Mutated form of FirstMatch: the length is not compared.
FirstMatchAnyLength(i, w) ==
    LET M(j) == regs[j].enabled /\ regs[j].on = KindOf(w) /\ regs[j].addr = w.addr
    IN  M(i) /\ \A j \in Slots : j < i => ~M(j)

FirstMatch(i, w) == Matches(i, w) /\ \A j \in Slots : j < i => ~Matches(j, w)

RemoveWatchpoint(w) ==
    /\ initialized
    /\ \/ /\ ~Refuses(w)
          /\ \E i \in Slots :
                FirstMatch(i, w) /\ regs' = [regs EXCEPT ![i] = Disabled(@)]
          /\ reply' = "ok"
          /\ outstanding' = outstanding \ {w}
       \/ /\ Refuses(w) \/ ~Found(w)
          /\ reply' = "error"
          /\ UNCHANGED <<regs, outstanding>>
    /\ UNCHANGED initialized

Next == \/ DebugArchInit
        \/ \E w \in Requests : AddWatchpoint(w) \/ RemoveWatchpoint(w)

Spec == Init /\ [][Next]_vars

-----------------------------------------------------------------------------
\* The bytes an enabled register watches.  X64 ignores the address bits below
\* the length; AARCH64 has only the lower half of BAS in an odd word.
BytesOf(r) == IF Arch = "X64"
              THEN LET base == r.addr - (r.addr % r.size)
                   IN  base .. base + r.size - 1
              ELSE r.addr .. r.addr + (IF r.addr % 8 >= 4 /\ r.size > 4
                                         THEN 4 ELSE r.size) - 1

Traps(b, k) == \E i \in Slots : /\ regs[i].enabled
                                /\ b \in BytesOf(regs[i])
                                /\ k \in regs[i].on

\* What the registers can express: the watched bytes include the bytes of w.
Expressible(w) == /\ Stored(w.addr) = w.addr
                  /\ w.addr .. w.addr + w.len - 1 \subseteq BytesOf(Contents(w))

\* No two requests have the same register contents.
Distinguishable ==
    \A v, w \in Requests :
        KindOf(v) = KindOf(w) /\ SizeOf(v) = SizeOf(w) /\ v.addr = w.addr => v = w

-----------------------------------------------------------------------------
\* The registers, the flag, the reply and the history have their types.
TypeOK == /\ regs \in [Slots -> Register]
          /\ initialized \in BOOLEAN
          /\ reply \in {"none", "ok", "error"}
          /\ outstanding \subseteq Requests

\* AddWatchpoint: "@retval  TRUE   The watch point was successfully set."  Until
\* it is removed, every byte the debugger asked for traps every access it asked
\* for, whatever is added and removed beside it.
Watched == \A w \in outstanding :
               \A b \in w.addr .. w.addr + w.len - 1, k \in Kinds(w) : Traps(b, k)

\* No register stays behind: after a removal, and after DebugArchInit whatever
\* was configured before, only what the debugger asked for can trap.  A watchpoint
\* with two registers would leave one of them.
NothingLeftBehind ==
    initialized => \A i \in Slots : regs[i].enabled
                                      => \E w \in outstanding : Matches(i, w)

\* AddWatchpoint returns FALSE for a range that is not empty only when the
\* debugger holds as many watchpoints as there are registers: none leaked.
RefusedOnlyWhenFull ==
    [][\A w \in Requests :
          (AddWatchpoint(w) /\ reply' = "error" /\ w.len # 0)
              => Cardinality(outstanding) = MAX_WATCHPOINTS]_vars

=============================================================================
