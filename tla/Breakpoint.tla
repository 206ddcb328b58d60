---------------------------- MODULE Breakpoint ----------------------------
(***************************************************************************)
(* The software breakpoints of the debug agent (Breakpoint.c): a table of  *)
(* MAX_BREAKPOINTS slots and the memory that the breakpoint instructions    *)
(* are written to.  A memory cell is the span of one breakpoint            *)
(* instruction (1 byte on X64, 4 on AARCH64).                              *)
(*                                                                         *)
(* Memory is reached through DbgReadMemory and DbgWriteMemory of the DXE   *)
(* agent, which may refuse, and whose result both breakpoint routines      *)
(* ignore.  Which access a page grants changes while the firmware runs, and *)
(* images are loaded over old code.  The addresses of Stable are those     *)
(* where neither happens under a breakpoint; the correctness of the table  *)
(* is stated for them, whatever happens at all the others.                 *)
(***************************************************************************)
EXTENDS Integers, FiniteSets

CONSTANTS MAX_BREAKPOINTS, \* slots of the table (64 in the source)
          Addr,            \* addresses a breakpoint may be set at
          NullAddr,        \* address 0: what a slot holds before its first use
          Value,           \* contents of a memory cell
          Zero,            \* a cell of zero bytes
          BP,              \* mArchBreakpointInstruction
          Stable           \* addresses that stay writable and are not
                           \* overwritten while they hold a breakpoint

ASSUME SlotAssumption == MAX_BREAKPOINTS \in Nat
ASSUME AddrAssumption == NullAddr \in Addr /\ Stable \subseteq Addr
ASSUME ValueAssumption == Zero \in Value /\ BP \in Value

VARIABLES mBreakpoints, \* the table
          mem,          \* mem[a]: the cell at address a
          access,       \* access[a]: what the page of a grants
          mMemoryAttributeProtocol, \* whether the protocol has been found
          reply,        \* result of the last breakpoint routine
          code          \* code[a]: what the program, or the debugger on its
                        \* behalf, last put at a (history variable)

vars == <<mBreakpoints, mem, access, mMemoryAttributeProtocol, reply, code>>

Slots == 0 .. MAX_BREAKPOINTS - 1

\* "none": not present or read protected; "ro": read only; "rw": writable.
Access == {"none", "ro", "rw"}

BREAKPOINT_INFO == [Active : BOOLEAN, Address : Addr, OriginalValue : Value]

Quiet == [op |-> "none"]

Replies == {Quiet} \cup [op : {"add", "remove"}, addr : Addr, ok : BOOLEAN]

TypeOK == /\ mBreakpoints \in [Slots -> BREAKPOINT_INFO]
          /\ mem \in [Addr -> Value]
          /\ access \in [Addr -> Access]
          /\ mMemoryAttributeProtocol \in BOOLEAN
          /\ reply \in Replies
          /\ code \in [Addr -> Value]

-----------------------------------------------------------------------------
\* AccessMemory on one page: reads need a readable page; writes need a writable
\* one, or a read-only one and the protocol that lifts the restriction.
CanRead(a) == access[a] # "none"

CanWrite(a) == \/ access[a] = "rw"
               \/ access[a] = "ro" /\ mMemoryAttributeProtocol

\* The slots that satisfy the test "Active and Address == a".
Holds(i, a) == mBreakpoints[i].Active /\ mBreakpoints[i].Address = a

Inserted == {a \in Addr : \E i \in Slots : Holds(i, a)}

Init ==
    /\ mBreakpoints = [i \in Slots |-> [Active |-> FALSE, Address |-> NullAddr,
                                        OriginalValue |-> Zero]]
    /\ code \in [Addr -> Value]
    /\ mem = code
    /\ access \in [Addr -> Access]
    /\ \A a \in Stable : access[a] = "rw"
    /\ mMemoryAttributeProtocol = FALSE
    /\ reply = Quiet

\* The first free slot, as the loop over the table remembers it.
FirstFree(i) == /\ ~mBreakpoints[i].Active
                /\ \A j \in Slots : j < i => mBreakpoints[j].Active

\* Mutated form of FillSlot: the breakpoint is written before the cell is saved.
FillSlotWriteFirst(i, a) ==
    /\ mBreakpoints' = [mBreakpoints EXCEPT ![i] =
                          [Active |-> TRUE, Address |-> a, OriginalValue |-> BP]]
    /\ mem' = IF CanWrite(a) THEN [mem EXCEPT ![a] = BP] ELSE mem

\* The results of DbgReadMemory and DbgWriteMemory are ignored: a refused read
\* leaves the slot's old OriginalValue, a refused write leaves the memory.
FillSlot(i, a) ==
    /\ mBreakpoints' =
         [mBreakpoints EXCEPT ![i] =
            [Active        |-> TRUE,
             Address       |-> a,
             OriginalValue |-> IF CanRead(a) THEN mem[a] ELSE @.OriginalValue]]
    /\ mem' = IF CanWrite(a) THEN [mem EXCEPT ![a] = BP] ELSE mem

\* Mutated form of AddSoftwareBreakpoint: no duplicate test.
AddWithoutDuplicateTest(a) ==
    /\ \/ /\ \A i \in Slots : mBreakpoints[i].Active
          /\ reply' = [op |-> "add", addr |-> a, ok |-> FALSE]
          /\ UNCHANGED <<mBreakpoints, mem>>
       \/ /\ \E i \in Slots : FirstFree(i) /\ FillSlot(i, a)
          /\ reply' = [op |-> "add", addr |-> a, ok |-> TRUE]
    /\ UNCHANGED <<access, mMemoryAttributeProtocol, code>>

\* Mutated form of AddSoftwareBreakpoint: a full table is written past its end.
AddPastEnd(a) ==
    /\ a \notin Inserted
    /\ mBreakpoints' =
         IF \E i \in Slots : ~mBreakpoints[i].Active
           THEN [i \in Slots |->
                   IF FirstFree(i)
                     THEN [Active |-> TRUE, Address |-> a, OriginalValue |-> mem[a]]
                     ELSE mBreakpoints[i]]
           ELSE [i \in 0 .. MAX_BREAKPOINTS |->
                   IF i = MAX_BREAKPOINTS
                     THEN [Active |-> TRUE, Address |-> a, OriginalValue |-> mem[a]]
                     ELSE mBreakpoints[i]]
    /\ mem' = [mem EXCEPT ![a] = BP]
    /\ reply' = [op |-> "add", addr |-> a, ok |-> TRUE]
    /\ UNCHANGED <<access, mMemoryAttributeProtocol, code>>

AddSoftwareBreakpoint(a) ==
    /\ \/ /\ a \in Inserted                                    \* duplicate
          /\ reply' = [op |-> "add", addr |-> a, ok |-> TRUE]
          /\ UNCHANGED <<mBreakpoints, mem>>
       \/ /\ a \notin Inserted
          /\ \A i \in Slots : mBreakpoints[i].Active           \* table full
          /\ reply' = [op |-> "add", addr |-> a, ok |-> FALSE]
          /\ UNCHANGED <<mBreakpoints, mem>>
       \/ /\ a \notin Inserted
          /\ \E i \in Slots : FirstFree(i) /\ FillSlot(i, a)
          /\ reply' = [op |-> "add", addr |-> a, ok |-> TRUE]
    /\ UNCHANGED <<access, mMemoryAttributeProtocol, code>>

\* Mutated form of ClearSlot: the slot is freed, the memory is not restored.
ClearSlotOnly(i, a) ==
    /\ mBreakpoints' = [mBreakpoints EXCEPT ![i].Active = FALSE]
    /\ UNCHANGED mem

ClearSlot(i, a) ==
    /\ mem' = IF CanWrite(a)
                THEN [mem EXCEPT ![a] = mBreakpoints[i].OriginalValue]
                ELSE mem
    /\ mBreakpoints' = [mBreakpoints EXCEPT ![i].Active = FALSE]

RemoveSoftwareBreakpoint(a) ==
    /\ \/ \E i \in Slots :
             /\ Holds(i, a)
             /\ \A j \in Slots : j < i => ~Holds(j, a)
             /\ ClearSlot(i, a)
             /\ reply' = [op |-> "remove", addr |-> a, ok |-> TRUE]
       \/ /\ a \notin Inserted                                 \* not found
          /\ reply' = [op |-> "remove", addr |-> a, ok |-> FALSE]
          /\ UNCHANGED <<mBreakpoints, mem>>
    /\ UNCHANGED <<access, mMemoryAttributeProtocol, code>>

\* The debugger's M command: it knows nothing of the table, and answers with an
\* error when the page cannot be written.
WriteMemoryCommand(a, v) ==
    /\ a \in Stable => a \notin Inserted
    /\ mem' = IF CanWrite(a) THEN [mem EXCEPT ![a] = v] ELSE mem
    /\ code' = IF CanWrite(a) THEN [code EXCEPT ![a] = v] ELSE code
    /\ reply' = Quiet
    /\ UNCHANGED <<mBreakpoints, access, mMemoryAttributeProtocol>>

\* OnMemoryAttributeProtocolNotification.
OnMemoryAttributeProtocolNotification ==
    /\ ~mMemoryAttributeProtocol
    /\ mMemoryAttributeProtocol' = TRUE
    /\ reply' = Quiet
    /\ UNCHANGED <<mBreakpoints, mem, access, code>>

-----------------------------------------------------------------------------
\* The firmware loads an image over a: its own code may be a breakpoint
\* instruction (CpuBreakpoint).
LoadCode(a, v) ==
    /\ a \in Stable => a \notin Inserted
    /\ mem' = [mem EXCEPT ![a] = v]
    /\ code' = [code EXCEPT ![a] = v]
    /\ reply' = Quiet
    /\ UNCHANGED <<mBreakpoints, access, mMemoryAttributeProtocol>>

\* The firmware maps, unmaps or protects a page.
SetAccess(a, x) ==
    /\ a \notin Stable
    /\ x # access[a]
    /\ access' = [access EXCEPT ![a] = x]
    /\ reply' = Quiet
    /\ UNCHANGED <<mBreakpoints, mem, mMemoryAttributeProtocol, code>>

Next == \/ OnMemoryAttributeProtocolNotification
        \/ \E a \in Addr : \/ AddSoftwareBreakpoint(a)
                           \/ RemoveSoftwareBreakpoint(a)
                           \/ \E v \in Value : \/ WriteMemoryCommand(a, v)
                                               \/ LoadCode(a, v)
                           \/ \E x \in Access : SetAccess(a, x)

Spec == Init /\ [][Next]_vars

-----------------------------------------------------------------------------
\* No address is held by two active slots, so that the value one of them has
\* saved is never the breakpoint instruction another one has written
\* (the duplicate test of AddSoftwareBreakpoint).
UniqueActive ==
    \A i, j \in Slots :
        /\ mBreakpoints[i].Active
        /\ mBreakpoints[j].Active
        /\ mBreakpoints[i].Address = mBreakpoints[j].Address
        => i = j

\* Whatever was added, removed, refused or overwritten before, and in which
\* slots: a stable address reads as a breakpoint exactly while it is in the
\* table, reads as the program left it otherwise, and the slot that holds it
\* has the program's instruction to put back.
Transparent ==
    \A a \in Stable :
        /\ a \notin Inserted => mem[a] = code[a]
        /\ a \in Inserted => mem[a] = BP
        /\ \A i \in Slots : Holds(i, a) => mBreakpoints[i].OriginalValue = code[a]

\* A refused insertion means that MAX_BREAKPOINTS different addresses have a
\* breakpoint: no sequence of insertions and removals fills the table with
\* duplicates or with leftovers of removed breakpoints.
RefusedOnlyWhenFull ==
    (reply.op = "add" /\ ~reply.ok) => Cardinality(Inserted) = MAX_BREAKPOINTS

\* The table implements the set of breakpoints at the stable addresses.
OnStable(f) == [a \in Stable |-> f[a]]

StableReply == IF reply # Quiet /\ reply.addr \in Stable THEN reply ELSE Quiet

Abstract == INSTANCE BreakpointSet
              WITH Addr     <- Stable,
                   code     <- OnStable(code),
                   inserted <- Inserted \cap Stable,
                   fetch    <- OnStable(mem),
                   reply    <- StableReply

\* Every behaviour of the table is a behaviour of BreakpointSet over the stable
\* addresses (Breakpoint.c as the debugger and the program see it).
ImplementsBreakpointSet == Abstract!Spec

=============================================================================
