------------------------- MODULE BreakpointProofs -------------------------
(***************************************************************************)
(* Proofs about Breakpoint, for any number of slots, any addresses and any *)
(* set Stable.                                                             *)
(***************************************************************************)
EXTENDS Breakpoint, FiniteSetTheorems, TLAPS

\* A stable address is always writable: SetAccess leaves it alone.
StableAccess == \A a \in Stable : access[a] = "rw"

\* The inductive invariant.  Transparent needs the access of the stable
\* addresses (a read or a write there succeeds) and the uniqueness of the slots
\* (freeing one slot takes its address out of the table).
IInv == TypeOK /\ StableAccess /\ UniqueActive /\ Transparent

USE SlotAssumption, AddrAssumption, ValueAssumption

LEMMA InitIInv == Init => IInv
<1> SUFFICES ASSUME Init PROVE IInv
    OBVIOUS
<1>1. TypeOK
    BY DEF Init, TypeOK, BREAKPOINT_INFO, Access, Replies, Quiet
<1>2. StableAccess
    BY DEF Init, StableAccess
<1>3. UniqueActive
    BY DEF Init, UniqueActive
<1>4. Transparent
    BY DEF Init, Transparent, Inserted, Holds
<1> QED
    BY <1>1, <1>2, <1>3, <1>4 DEF IInv

\* Saving and patching the cell of a fresh address in a free slot.
LEMMA FillSlotIInv ==
    ASSUME IInv, NEW a \in Addr, a \notin Inserted,
           NEW i \in Slots, ~mBreakpoints[i].Active, FillSlot(i, a),
           UNCHANGED <<access, mMemoryAttributeProtocol, code>>,
           reply' = [op |-> "add", addr |-> a, ok |-> TRUE]
    PROVE  IInv' /\ Inserted' = Inserted \cup {a}
<1> DEFINE saved == IF CanRead(a) THEN mem[a] ELSE mBreakpoints[i].OriginalValue
           entry == [Active |-> TRUE, Address |-> a, OriginalValue |-> saved]
<1>1. saved \in Value
    BY DEF IInv, TypeOK, BREAKPOINT_INFO
<1>2. mBreakpoints' = [mBreakpoints EXCEPT ![i] = entry]
    BY DEF FillSlot
<1>3. mBreakpoints \in [Slots -> BREAKPOINT_INFO] /\ entry \in BREAKPOINT_INFO
    BY <1>1 DEF IInv, TypeOK, BREAKPOINT_INFO
<1> HIDE DEF entry
<1>4. /\ mBreakpoints' \in [Slots -> BREAKPOINT_INFO]
      /\ mBreakpoints'[i] = entry
      /\ \A j \in Slots : j # i => mBreakpoints'[j] = mBreakpoints[j]
    BY <1>2, <1>3
<1>5. entry.Active /\ entry.Address = a /\ entry.OriginalValue = saved
    BY DEF entry
<1>6. mem \in [Addr -> Value] /\ mem' = IF CanWrite(a) THEN [mem EXCEPT ![a] = BP] ELSE mem
    BY DEF FillSlot, IInv, TypeOK
<1>7. TypeOK'
    BY <1>4, <1>6 DEF IInv, TypeOK, Replies
<1>8. Inserted' = Inserted \cup {a}
    BY <1>4, <1>5 DEF Inserted, Holds
<1>9. UniqueActive'
    BY <1>4, <1>5 DEF UniqueActive, IInv, Inserted, Holds
<1>10. StableAccess'
    BY DEF IInv, StableAccess
<1>11. ASSUME NEW b \in Stable PROVE Transparent!(b)'
  <2>1. b # a => mem'[b] = mem[b]
      BY <1>6
  <2>2. b = a => mem'[b] = BP /\ saved = code[b]
      BY <1>6 DEF CanWrite, CanRead, IInv, StableAccess, Transparent
  <2>3. \A j \in Slots : Holds(j, b)' =>
            mBreakpoints'[j].OriginalValue = code[b]
      BY <1>4, <1>5, <2>2 DEF Holds, IInv, Transparent, Inserted
  <2> QED
      BY <2>1, <2>2, <2>3, <1>8 DEF IInv, Transparent
<1> QED
    BY <1>7, <1>8, <1>9, <1>10, <1>11 DEF IInv, Transparent

\* Restoring the cell of a breakpoint and freeing its slot.
LEMMA ClearSlotIInv ==
    ASSUME IInv, NEW a \in Addr, NEW i \in Slots, Holds(i, a), ClearSlot(i, a),
           UNCHANGED <<access, mMemoryAttributeProtocol, code>>,
           reply' = [op |-> "remove", addr |-> a, ok |-> TRUE]
    PROVE  IInv' /\ Inserted' = Inserted \ {a}
<1> DEFINE entry == [mBreakpoints[i] EXCEPT !.Active = FALSE]
<1>1. mBreakpoints' = [mBreakpoints EXCEPT ![i] = entry]
    BY DEF ClearSlot, IInv, TypeOK
<1>2. /\ mBreakpoints \in [Slots -> BREAKPOINT_INFO]
      /\ entry \in BREAKPOINT_INFO
      /\ ~entry.Active
    BY DEF IInv, TypeOK, BREAKPOINT_INFO
<1> HIDE DEF entry
<1>3. /\ mBreakpoints' \in [Slots -> BREAKPOINT_INFO]
      /\ ~mBreakpoints'[i].Active
      /\ \A j \in Slots : j # i => mBreakpoints'[j] = mBreakpoints[j]
    BY <1>1, <1>2
<1>4. /\ mem \in [Addr -> Value]
      /\ mBreakpoints[i].OriginalValue \in Value
      /\ mem' = IF CanWrite(a)
                  THEN [mem EXCEPT ![a] = mBreakpoints[i].OriginalValue] ELSE mem
    BY DEF ClearSlot, IInv, TypeOK, BREAKPOINT_INFO
<1>5. TypeOK'
    BY <1>3, <1>4 DEF IInv, TypeOK, Replies
<1>6. Inserted' = Inserted \ {a}
    BY <1>3 DEF Inserted, Holds, IInv, UniqueActive
<1>7. UniqueActive'
    BY <1>3 DEF UniqueActive, IInv
<1>8. StableAccess'
    BY DEF IInv, StableAccess
<1>9. ASSUME NEW b \in Stable PROVE Transparent!(b)'
  <2>1. b # a => mem'[b] = mem[b]
      BY <1>4
  <2>2. b = a => mem'[b] = code[b]
      BY <1>4 DEF CanWrite, IInv, StableAccess, Transparent
  <2>3. \A j \in Slots : Holds(j, b)' =>
            mBreakpoints'[j].OriginalValue = code[b]
      BY <1>3 DEF Holds, IInv, Transparent
  <2> QED
      BY <2>1, <2>2, <2>3, <1>6 DEF IInv, Transparent
<1> QED
    BY <1>5, <1>6, <1>7, <1>8, <1>9 DEF IInv, Transparent

\* A step that leaves the table alone and changes at most the cell of an address
\* that has no breakpoint, or that is not stable.
LEMMA RewriteIInv ==
    ASSUME IInv, NEW a \in Addr, NEW v \in Value,
           a \in Stable => a \notin Inserted,
           \/ mem' = [mem EXCEPT ![a] = v] /\ code' = [code EXCEPT ![a] = v]
           \/ UNCHANGED <<mem, code>>,
           UNCHANGED <<mBreakpoints, access, mMemoryAttributeProtocol>>,
           reply' = Quiet
    PROVE  IInv' /\ Inserted' = Inserted
<1>1. Inserted' = Inserted
    BY DEF Inserted, Holds
<1>2. TypeOK'
    BY DEF IInv, TypeOK, Replies
<1>3. UniqueActive' /\ StableAccess'
    BY DEF IInv, UniqueActive, StableAccess
<1>4. ASSUME NEW b \in Stable PROVE Transparent!(b)'
  <2>1. b # a => mem'[b] = mem[b] /\ code'[b] = code[b]
      BY DEF IInv, TypeOK
  <2>2. b = a => mem'[b] = code'[b] /\ b \notin Inserted
      BY DEF IInv, TypeOK, Transparent
  <2>3. \A j \in Slots : Holds(j, b)' <=> Holds(j, b)
      BY DEF Holds
  <2> QED
      BY <2>1, <2>2, <2>3, <1>1 DEF IInv, Transparent, Inserted
<1> QED
    BY <1>1, <1>2, <1>3, <1>4 DEF IInv, Transparent

\* A step that changes neither the table nor a cell nor a stable page.
LEMMA OtherIInv ==
    ASSUME IInv, TypeOK', StableAccess', UNCHANGED <<mBreakpoints, mem, code>>
    PROVE  IInv' /\ Inserted' = Inserted
BY DEF IInv, UniqueActive, Transparent, Inserted, Holds

LEMMA NextIInv == IInv /\ [Next]_vars => IInv'
<1> SUFFICES ASSUME IInv, [Next]_vars PROVE IInv'
    OBVIOUS
<1>1. ASSUME NEW a \in Addr, AddSoftwareBreakpoint(a) PROVE IInv'
  <2>1. CASE UNCHANGED <<mBreakpoints, mem>>
    <3>1. PICK r \in BOOLEAN : reply' = [op |-> "add", addr |-> a, ok |-> r]
        BY <1>1 DEF AddSoftwareBreakpoint
    <3>2. UNCHANGED <<access, mMemoryAttributeProtocol, code>>
        BY <1>1 DEF AddSoftwareBreakpoint
    <3>3. TypeOK' /\ StableAccess'
        BY <3>1, <3>2, <2>1 DEF IInv, TypeOK, Replies, StableAccess
    <3> QED
        BY <3>2, <3>3, <2>1, OtherIInv
  <2>2. CASE /\ a \notin Inserted
             /\ \E i \in Slots : FirstFree(i) /\ FillSlot(i, a)
             /\ reply' = [op |-> "add", addr |-> a, ok |-> TRUE]
      BY <2>2, <1>1, FillSlotIInv DEF FirstFree, AddSoftwareBreakpoint
  <2> QED
      BY <1>1, <2>1, <2>2 DEF AddSoftwareBreakpoint
<1>2. ASSUME NEW a \in Addr, RemoveSoftwareBreakpoint(a) PROVE IInv'
  <2>1. CASE UNCHANGED <<mBreakpoints, mem>> /\ reply' = [op |-> "remove", addr |-> a, ok |-> FALSE]
    <3>1. TypeOK' /\ StableAccess'
        BY <1>2, <2>1 DEF RemoveSoftwareBreakpoint, IInv, TypeOK, Replies, StableAccess
    <3> QED
        BY <3>1, <2>1, <1>2, OtherIInv DEF RemoveSoftwareBreakpoint
  <2>2. CASE \E i \in Slots : Holds(i, a) /\ ClearSlot(i, a)
                              /\ reply' = [op |-> "remove", addr |-> a, ok |-> TRUE]
      BY <2>2, <1>2, ClearSlotIInv DEF RemoveSoftwareBreakpoint
  <2> QED
      BY <1>2, <2>1, <2>2 DEF RemoveSoftwareBreakpoint
<1>3. ASSUME NEW a \in Addr, NEW v \in Value, WriteMemoryCommand(a, v) PROVE IInv'
    BY <1>3, RewriteIInv DEF WriteMemoryCommand
<1>4. ASSUME NEW a \in Addr, NEW v \in Value, LoadCode(a, v) PROVE IInv'
    BY <1>4, RewriteIInv DEF LoadCode
<1>5. ASSUME NEW a \in Addr, NEW x \in Access, SetAccess(a, x) PROVE IInv'
  <2>1. TypeOK' /\ StableAccess'
      BY <1>5 DEF SetAccess, IInv, TypeOK, Replies, StableAccess
  <2> QED
      BY <1>5, <2>1, OtherIInv DEF SetAccess
<1>6. CASE OnMemoryAttributeProtocolNotification
  <2>1. TypeOK' /\ StableAccess'
      BY <1>6 DEF OnMemoryAttributeProtocolNotification, IInv, TypeOK, Replies, StableAccess
  <2> QED
      BY <1>6, <2>1, OtherIInv DEF OnMemoryAttributeProtocolNotification
<1>7. CASE UNCHANGED vars
  <2>1. TypeOK' /\ StableAccess'
      BY <1>7 DEF vars, IInv, TypeOK, StableAccess
  <2> QED
      BY <1>7, <2>1, OtherIInv DEF vars
<1> QED
    BY <1>1, <1>2, <1>3, <1>4, <1>5, <1>6, <1>7 DEF Next

\* The inductive invariant holds in every reachable state of the breakpoint table
\* and the memory it patches.
THEOREM Invariance == Spec => []IInv
BY InitIInv, NextIInv, PTL DEF Spec

\* The table, the memory and the answers of Breakpoint.c are always well formed.
THEOREM TypeCorrect == Spec => []TypeOK
<1>1. IInv => TypeOK
    BY DEF IInv
<1> QED
    BY <1>1, Invariance, PTL

\* However many breakpoints there are, no address is held by two active slots of
\* mBreakpoints.
THEOREM UniqueSlots == Spec => []UniqueActive
<1>1. IInv => UniqueActive
    BY DEF IInv
<1> QED
    BY <1>1, Invariance, PTL

\* AddSoftwareBreakpoint and RemoveSoftwareBreakpoint never lose or mix up an
\* instruction of a stable address, whatever happens at the other addresses.
THEOREM Transparency == Spec => []Transparent
<1>1. IInv => Transparent
    BY DEF IInv
<1> QED
    BY <1>1, Invariance, PTL

\* An insertion was refused because no slot was free, and the table has not changed
\* since.
NoneFree == (reply.op = "add" /\ ~reply.ok) => \A i \in Slots : mBreakpoints[i].Active

LEMMA NoneFreeStep == ASSUME NoneFree, [Next]_vars PROVE NoneFree'
<1>1. ASSUME NEW a \in Addr, AddSoftwareBreakpoint(a) PROVE NoneFree'
    BY <1>1 DEF AddSoftwareBreakpoint, NoneFree
<1>2. ASSUME NEW a \in Addr, RemoveSoftwareBreakpoint(a) PROVE NoneFree'
  <2>1. reply'.op = "remove"
      BY <1>2 DEF RemoveSoftwareBreakpoint
  <2> QED
      BY <2>1 DEF NoneFree
<1>3. CASE reply' = Quiet
  <2>1. reply'.op = "none"
      BY <1>3 DEF Quiet
  <2> QED
      BY <2>1 DEF NoneFree
<1>4. CASE UNCHANGED vars
    BY <1>4 DEF NoneFree, vars
<1> QED
    BY <1>1, <1>2, <1>3, <1>4 DEF Next, WriteMemoryCommand, LoadCode, SetAccess,
       OnMemoryAttributeProtocolNotification

\* With every slot active, the addresses are as many as the slots.
LEMMA FullTable ==
    ASSUME TypeOK, UniqueActive, \A i \in Slots : mBreakpoints[i].Active
    PROVE  Cardinality(Inserted) = MAX_BREAKPOINTS
<1> DEFINE f == [i \in Slots |-> mBreakpoints[i].Address]
<1>1. \A i \in Slots : f[i] = mBreakpoints[i].Address /\ f[i] \in Addr
    BY DEF TypeOK, BREAKPOINT_INFO
<1>2. f \in [Slots -> Inserted]
    BY <1>1 DEF Inserted, Holds
<1>3. \A i, j \in Slots : f[i] = f[j] => i = j
    BY <1>1 DEF UniqueActive, Holds
<1>4. \A a \in Inserted : \E i \in Slots : f[i] = a
    BY <1>1 DEF Inserted, Holds
<1> HIDE DEF f
<1>5. f \in Bijection(Slots, Inserted)
    BY <1>2, <1>3, <1>4 DEF Bijection, Injection, Surjection, IsInjective
<1>6. ExistsBijection(Slots, Inserted)
    BY <1>5 DEF ExistsBijection
<1>7. IsFiniteSet(Slots) /\ Cardinality(Slots) = MAX_BREAKPOINTS
  <2>1. /\ IsFiniteSet(0 .. MAX_BREAKPOINTS - 1)
        /\ Cardinality(0 .. MAX_BREAKPOINTS - 1) =
             IF 0 > MAX_BREAKPOINTS - 1 THEN 0 ELSE MAX_BREAKPOINTS - 1 - 0 + 1
      BY FS_Interval
  <2> QED
      BY <2>1 DEF Slots
<1> QED
    BY <1>6, <1>7, FS_Bijection

\* AddSoftwareBreakpoint gives up only when MAX_BREAKPOINTS different addresses are in
\* the table, for any size of it: no slot is lost to duplicates or leftovers.
THEOREM RefusesWhenFull == Spec => []RefusedOnlyWhenFull
<1>1. Init => NoneFree
    BY DEF Init, NoneFree, Quiet
<1>2. NoneFree /\ [Next]_vars => NoneFree'
    BY NoneFreeStep
<1>3. IInv /\ NoneFree => RefusedOnlyWhenFull
    BY FullTable DEF IInv, NoneFree, RefusedOnlyWhenFull
<1> QED
    BY <1>1, <1>2, <1>3, Invariance, PTL DEF Spec

-----------------------------------------------------------------------------
\* Under the invariant the memory at the stable addresses is the program patched
\* at the inserted ones.
LEMMA MemoryIsPatched ==
    ASSUME Transparent
    PROVE  OnStable(mem) = Abstract!Patched(OnStable(code), Inserted \cap Stable)
BY DEF Transparent, OnStable, Abstract!Patched

\* An answer about an address that is not stable is invisible.
LEMMA ReplyOfStable ==
    ASSUME NEW a \in Addr, NEW r, r = [op |-> "add", addr |-> a, ok |-> TRUE]
                               \/ r = [op |-> "add", addr |-> a, ok |-> FALSE]
                               \/ r = [op |-> "remove", addr |-> a, ok |-> TRUE]
                               \/ r = [op |-> "remove", addr |-> a, ok |-> FALSE]
    PROVE  r # Quiet /\ r.addr = a
<1>1. r.op # "none" /\ r.addr = a
    OBVIOUS
<1>2. Quiet.op = "none"
    BY DEF Quiet
<1> QED
    BY <1>1, <1>2

LEMMA AddRefines ==
    ASSUME IInv, IInv', NEW a \in Addr, AddSoftwareBreakpoint(a)
    PROVE  Abstract!Next
<1>0. UNCHANGED OnStable(code)
    BY DEF AddSoftwareBreakpoint, OnStable
<1>1. OnStable(mem)' = Abstract!Patched(OnStable(code), Inserted' \cap Stable)
    BY <1>0, MemoryIsPatched DEF IInv, OnStable, Transparent, Abstract!Patched, AddSoftwareBreakpoint
<1>2. /\ Inserted' = Inserted \cup {a}
      /\ reply' = [op |-> "add", addr |-> a, ok |-> TRUE]
      \/ /\ a \notin Inserted /\ Inserted' = Inserted /\ mem' = mem
         /\ reply' = [op |-> "add", addr |-> a, ok |-> FALSE]
  <2>1. CASE UNCHANGED <<mBreakpoints, mem>>
    <3>1. Inserted' = Inserted
        BY <2>1 DEF Inserted, Holds
    <3> QED
        BY <2>1, <3>1, FillSlotIInv DEF AddSoftwareBreakpoint, FirstFree
  <2>2. CASE /\ a \notin Inserted
             /\ \E i \in Slots : FirstFree(i) /\ FillSlot(i, a)
             /\ reply' = [op |-> "add", addr |-> a, ok |-> TRUE]
      BY <2>2, FillSlotIInv DEF AddSoftwareBreakpoint, FirstFree
  <2> QED
      BY <2>1, <2>2 DEF AddSoftwareBreakpoint
<1>3. CASE a \in Stable
  <2>1. StableReply' = reply'
      BY <1>2, <1>3, ReplyOfStable DEF StableReply
  <2>2. CASE Inserted' = Inserted \cup {a}
             /\ reply' = [op |-> "add", addr |-> a, ok |-> TRUE]
    <3>1. Inserted' \cap Stable = (Inserted \cap Stable) \cup {a}
        BY <2>2, <1>3
    <3>2. Abstract!Insert(a)
        BY <3>1, <2>1, <2>2, <1>0, <1>1 DEF Abstract!Insert
    <3> QED
        BY <3>2, <1>3 DEF Abstract!Next
  <2>3. CASE /\ a \notin Inserted /\ Inserted' = Inserted /\ mem' = mem
             /\ reply' = [op |-> "add", addr |-> a, ok |-> FALSE]
    <3>1. Abstract!RefuseInsert(a)
        BY <2>1, <2>3, <1>0 DEF Abstract!RefuseInsert, OnStable
    <3> QED
        BY <3>1, <1>3 DEF Abstract!Next
  <2> QED
      BY <1>2, <2>2, <2>3
<1>4. CASE a \notin Stable
  <2>1. StableReply' = Quiet
      BY <1>2, <1>4, ReplyOfStable DEF StableReply, Quiet
  <2>2. Inserted' \cap Stable = Inserted \cap Stable
      BY <1>2, <1>4
  <2>3. OnStable(mem)' = OnStable(mem)
      BY <1>1, <2>2, MemoryIsPatched DEF IInv
  <2>4. Abstract!Elsewhere
      BY <1>0, <2>1, <2>2, <2>3 DEF Abstract!Elsewhere, Quiet, Abstract!Quiet
  <2> QED
      BY <2>4 DEF Abstract!Next
<1> QED
    BY <1>3, <1>4

LEMMA RemoveRefines ==
    ASSUME IInv, IInv', NEW a \in Addr, RemoveSoftwareBreakpoint(a)
    PROVE  Abstract!Next
<1>0. UNCHANGED OnStable(code)
    BY DEF RemoveSoftwareBreakpoint, OnStable
<1>1. OnStable(mem)' = Abstract!Patched(OnStable(code), Inserted' \cap Stable)
    BY <1>0 DEF IInv, OnStable, Transparent, Abstract!Patched, RemoveSoftwareBreakpoint
<1>2. /\ Inserted' = Inserted \ {a}
      /\ \/ a \in Inserted /\ reply' = [op |-> "remove", addr |-> a, ok |-> TRUE]
         \/ a \notin Inserted /\ reply' = [op |-> "remove", addr |-> a, ok |-> FALSE]
  <2>1. CASE /\ a \notin Inserted
             /\ reply' = [op |-> "remove", addr |-> a, ok |-> FALSE]
             /\ UNCHANGED <<mBreakpoints, mem>>
      BY <2>1 DEF Inserted, Holds
  <2>2. CASE \E i \in Slots : Holds(i, a) /\ ClearSlot(i, a)
                              /\ reply' = [op |-> "remove", addr |-> a, ok |-> TRUE]
    <3>1. a \in Inserted
        BY <2>2 DEF Inserted
    <3> QED
        BY <2>2, <3>1, ClearSlotIInv DEF RemoveSoftwareBreakpoint
  <2> QED
      BY <2>1, <2>2 DEF RemoveSoftwareBreakpoint
<1>3. CASE a \in Stable
  <2>1. StableReply' = reply'
      BY <1>2, <1>3, ReplyOfStable DEF StableReply
  <2>2. Inserted' \cap Stable = (Inserted \cap Stable) \ {a}
      BY <1>2
  <2>3. reply' = [op |-> "remove", addr |-> a, ok |-> a \in Inserted \cap Stable]
    <3>1. CASE a \in Inserted
      <4>1. (a \in Inserted \cap Stable) = TRUE
          BY <3>1, <1>3
      <4>2. reply' = [op |-> "remove", addr |-> a, ok |-> TRUE]
          BY <3>1, <1>2
      <4> QED
          BY <4>1, <4>2, Zenon
    <3>2. CASE a \notin Inserted
      <4>1. (a \in Inserted \cap Stable) = FALSE
          BY <3>2
      <4>2. reply' = [op |-> "remove", addr |-> a, ok |-> FALSE]
          BY <3>2, <1>2
      <4> QED
          BY <4>1, <4>2, Zenon
    <3> QED
        BY <3>1, <3>2
  <2>4. Abstract!Remove(a)
      BY <1>0, <1>1, <2>1, <2>2, <2>3 DEF Abstract!Remove
  <2> QED
      BY <2>4, <1>3 DEF Abstract!Next
<1>4. CASE a \notin Stable
  <2>1. StableReply' = Quiet
      BY <1>2, <1>4, ReplyOfStable DEF StableReply, Quiet
  <2>2. Inserted' \cap Stable = Inserted \cap Stable
      BY <1>2, <1>4
  <2>3. OnStable(mem)' = OnStable(mem)
      BY <1>1, <2>2, MemoryIsPatched DEF IInv
  <2>4. Abstract!Elsewhere
      BY <1>0, <2>1, <2>2, <2>3 DEF Abstract!Elsewhere, Quiet, Abstract!Quiet
  <2> QED
      BY <2>4 DEF Abstract!Next
<1> QED
    BY <1>3, <1>4

LEMMA RewriteRefines ==
    ASSUME IInv, NEW a \in Addr, NEW v \in Value,
           a \in Stable => a \notin Inserted,
           \/ mem' = [mem EXCEPT ![a] = v] /\ code' = [code EXCEPT ![a] = v]
           \/ UNCHANGED <<mem, code>>,
           UNCHANGED <<mBreakpoints, access, mMemoryAttributeProtocol>>,
           reply' = Quiet
    PROVE  Abstract!Next
<1>1. Inserted' = Inserted
    BY DEF Inserted, Holds
<1>2. StableReply' = Abstract!Quiet
    BY DEF StableReply, Quiet, Abstract!Quiet
<1>3. CASE a \in Stable /\ ~UNCHANGED <<mem, code>>
  <2>1. /\ OnStable(mem)' = [OnStable(mem) EXCEPT ![a] = v]
        /\ OnStable(code)' = [OnStable(code) EXCEPT ![a] = v]
      BY <1>3 DEF OnStable, IInv, TypeOK
  <2>2. Abstract!Rewrite(a, v)
      BY <1>1, <1>2, <1>3, <2>1 DEF Abstract!Rewrite
  <2> QED
      BY <2>2, <1>3 DEF Abstract!Next
<1>4. CASE a \notin Stable \/ UNCHANGED <<mem, code>>
  <2>1. OnStable(mem)' = OnStable(mem) /\ OnStable(code)' = OnStable(code)
      BY <1>4 DEF OnStable, IInv, TypeOK
  <2>2. Abstract!Elsewhere
      BY <1>1, <1>2, <2>1 DEF Abstract!Elsewhere
  <2> QED
      BY <2>2 DEF Abstract!Next
<1> QED
    BY <1>3, <1>4

\* A step that only changes what the abstract specification does not show.
LEMMA OtherRefines ==
    ASSUME UNCHANGED <<mBreakpoints, mem, code>>, reply' = Quiet
    PROVE  Abstract!Next
<1>1. Abstract!Elsewhere
    BY DEF Abstract!Elsewhere, Abstract!Quiet, Quiet, StableReply, OnStable, Inserted, Holds
<1> QED
    BY <1>1 DEF Abstract!Next

\* Breakpoint.c implements a set of breakpoints at the stable addresses: what is
\* fetched there, and what each routine answers, depend only on which breakpoints
\* were inserted and removed.
THEOREM Refinement == Spec => ImplementsBreakpointSet
<1>1. Init => Abstract!Init
    BY DEF Init, Abstract!Init, OnStable, StableReply, Quiet, Abstract!Quiet, Inserted, Holds
<1>2. IInv /\ IInv' /\ [Next]_vars => [Abstract!Next]_(Abstract!vars)
  <2> SUFFICES ASSUME IInv, IInv', [Next]_vars
               PROVE  Abstract!Next \/ UNCHANGED Abstract!vars
      OBVIOUS
  <2>1. ASSUME NEW a \in Addr, AddSoftwareBreakpoint(a) PROVE Abstract!Next
      BY <2>1, AddRefines
  <2>2. ASSUME NEW a \in Addr, RemoveSoftwareBreakpoint(a) PROVE Abstract!Next
      BY <2>2, RemoveRefines
  <2>3. ASSUME NEW a \in Addr, NEW v \in Value,
               WriteMemoryCommand(a, v) \/ LoadCode(a, v)
        PROVE  Abstract!Next
      BY <2>3, RewriteRefines DEF WriteMemoryCommand, LoadCode
  <2>4. ASSUME NEW a \in Addr, NEW x \in Access, SetAccess(a, x) PROVE Abstract!Next
      BY <2>4, OtherRefines DEF SetAccess
  <2>5. CASE OnMemoryAttributeProtocolNotification
      BY <2>5, OtherRefines DEF OnMemoryAttributeProtocolNotification
  <2>6. CASE UNCHANGED vars
      BY <2>6 DEF vars, Abstract!vars, OnStable, StableReply, Inserted, Holds
  <2> QED
      BY <2>1, <2>2, <2>3, <2>4, <2>5, <2>6 DEF Next
<1> QED
    BY <1>1, <1>2, Invariance, PTL DEF Spec, ImplementsBreakpointSet, Abstract!Spec

=============================================================================
