------------------------- MODULE WatchpointProofs -------------------------
(***************************************************************************)
(* The watchpoints of any bank size, any requests and any configuration    *)
(* left in the registers.  The routines keep no table, so everything rests *)
(* on the contents of enabled registers being different (Distinct).        *)
(***************************************************************************)
EXTENDS Watchpoint, FiniteSetTheorems, TLAPS

\* Two enabled registers differ in address, kind or size.
Distinct ==
    initialized =>
        \A i, j \in Slots :
            /\ regs[i].enabled /\ regs[j].enabled
            /\ regs[i].addr = regs[j].addr
            /\ regs[i].on = regs[j].on
            /\ regs[i].size = regs[j].size
            => i = j

\* Every watchpoint the debugger holds can be found in a register.
Held == \A w \in outstanding : Found(w)

NothingBeforeInit == ~initialized => outstanding = {}

BankInv == TypeOK /\ NothingBeforeInit /\ Distinct /\ NothingLeftBehind

\* What KindOf, SizeOf and Stored write fits the register.
LEMMA ContentsType ==
    ASSUME NEW w \in Requests
    PROVE  Contents(w) \in Register
<1>1. w \in Request
  BY RequestAssumption
<1>2. Stored(w.addr) \in Nat
  BY <1>1 DEF Stored, Request
<1>3. KindOf(w) \in SUBSET {"read", "write"}
  BY DEF KindOf, Kinds
<1>4. SizeOf(w) \in 0 .. 8
  BY <1>1 DEF SizeOf, LengthToDebugRegLen, Bas, Request
<1> QED
  BY <1>2, <1>3, <1>4 DEF Contents, Register

\* Disabling a register keeps its type and clears its enable bit.
LEMMA DisabledType ==
    ASSUME NEW r \in Register
    PROVE  Disabled(r) \in Register /\ Disabled(r).enabled = FALSE
<1>1. CASE Arch = "X64"
  <2>1. Disabled(r) = [r EXCEPT !.enabled = FALSE]
    BY <1>1 DEF Disabled
  <2> QED
    BY <2>1 DEF Register
<1>2. CASE Arch # "X64"
  <2>1. Disabled(r) = [enabled |-> FALSE, addr |-> r.addr, on |-> {}, size |-> 0]
    BY <1>2 DEF Disabled, Register
  <2> QED
    BY <2>1 DEF Register
<1> QED
  BY <1>1, <1>2

\* The bank is well typed before DebugArchInit, whatever it holds.
LEMMA BankInit == Init => BankInv
<1> SUFFICES ASSUME Init PROVE BankInv
  OBVIOUS
<1>1. regs \in [Slots -> Register]
  BY LatentAssumption DEF Init
<1> QED
  BY <1>1 DEF Init, BankInv, TypeOK, NothingBeforeInit, Distinct, NothingLeftBehind

\* One step keeps the types.
LEMMA TypeStep == TypeOK /\ [Next]_vars => TypeOK'
<1> SUFFICES ASSUME TypeOK, [Next]_vars PROVE TypeOK'
  OBVIOUS
<1>1. CASE DebugArchInit
  <2>1. regs' \in [Slots -> Register]
    BY <1>1, DisabledType DEF DebugArchInit, TypeOK
  <2> QED
    BY <1>1, <2>1 DEF DebugArchInit, TypeOK
<1>2. ASSUME NEW w \in Requests, AddWatchpoint(w) PROVE TypeOK'
  <2>1. regs' \in [Slots -> Register]
    BY <1>2, ContentsType DEF AddWatchpoint, Fill, TypeOK
  <2> QED
    BY <1>2, <2>1 DEF AddWatchpoint, TypeOK
<1>3. ASSUME NEW w \in Requests, RemoveWatchpoint(w) PROVE TypeOK'
  <2>1. regs' \in [Slots -> Register]
    BY <1>3, DisabledType DEF RemoveWatchpoint, TypeOK
  <2> QED
    BY <1>3, <2>1 DEF RemoveWatchpoint, TypeOK
<1>4. CASE UNCHANGED vars
  BY <1>4 DEF vars, TypeOK
<1> QED
  BY <1>1, <1>2, <1>3, <1>4 DEF Next

\* A register that a request fills matches it, when the address fits.
LEMMA FilledMatches ==
    ASSUME NEW w \in Requests, NEW i \in Slots, TypeOK, Fill(i, w),
           Stored(w.addr) = w.addr
    PROVE  Matches(i, w)'
BY DEF TypeOK, Fill, Contents, Matches

\* One step keeps the contents of enabled registers different and owned.
LEMMA BankStep ==
    ASSUME \A w \in Requests : Stored(w.addr) = w.addr
    PROVE  BankInv /\ [Next]_vars => BankInv'
<1> SUFFICES ASSUME BankInv, [Next]_vars PROVE BankInv'
  OBVIOUS
<1>t. TypeOK /\ TypeOK'
  BY TypeStep DEF BankInv
<1>1. CASE DebugArchInit
  <2>1. \A i \in Slots : regs'[i].enabled = FALSE
    BY <1>1, <1>t, DisabledType DEF DebugArchInit, TypeOK
  <2>2. initialized' /\ outstanding' = {}
    BY <1>1 DEF DebugArchInit, BankInv, NothingBeforeInit
  <2> QED
    BY <1>t, <2>1, <2>2 DEF BankInv, NothingBeforeInit, Distinct, NothingLeftBehind
<1>2. ASSUME NEW w \in Requests, AddWatchpoint(w) PROVE BankInv'
  <2>1. CASE UNCHANGED regs
    BY <1>2, <1>t, <2>1 DEF AddWatchpoint, BankInv, NothingBeforeInit, Distinct,
       NothingLeftBehind, Matches
  <2>2. CASE ~UNCHANGED regs
    <3>1. PICK k \in Slots : FirstFree(k) /\ Fill(k, w)
      BY <1>2, <2>2 DEF AddWatchpoint
    <3>2. ~Found(w) /\ initialized /\ initialized' /\ w \in outstanding'
          /\ outstanding \subseteq outstanding'
      BY <1>2, <2>2 DEF AddWatchpoint
    <3>3. regs'[k] = Contents(w) /\ \A i \in Slots \ {k} : regs'[i] = regs[i]
      BY <3>1, <1>t DEF Fill, TypeOK
    <3>4. Matches(k, w)'
      BY <3>1, <1>t, FilledMatches
    <3>5. NothingLeftBehind'
      BY <3>2, <3>3, <3>4 DEF NothingLeftBehind, BankInv, Matches
    <3>6. \A i \in Slots \ {k} : ~Matches(i, w)'
      BY <3>2, <3>3 DEF Found, Matches
    <3>7. Distinct'
      BY <3>2, <3>3, <3>4, <3>6 DEF Distinct, BankInv, Matches
    <3> QED
      BY <1>t, <3>2, <3>5, <3>7 DEF BankInv, NothingBeforeInit
  <2> QED
    BY <2>1, <2>2
<1>3. ASSUME NEW w \in Requests, RemoveWatchpoint(w) PROVE BankInv'
  <2>1. CASE UNCHANGED <<regs, outstanding>>
    BY <1>3, <1>t, <2>1 DEF RemoveWatchpoint, BankInv, NothingBeforeInit, Distinct,
       NothingLeftBehind, Matches
  <2>2. CASE ~UNCHANGED <<regs, outstanding>>
    <3>1. PICK k \in Slots : /\ FirstMatch(k, w)
                             /\ regs' = [regs EXCEPT ![k] = Disabled(@)]
      BY <1>3, <2>2 DEF RemoveWatchpoint
    <3>2. outstanding' = outstanding \ {w} /\ initialized /\ initialized'
      BY <1>3, <2>2 DEF RemoveWatchpoint
    <3>3. regs'[k] = Disabled(regs[k]) /\ \A i \in Slots \ {k} : regs'[i] = regs[i]
      BY <3>1, <1>t DEF TypeOK
    <3>4. regs'[k].enabled = FALSE
      <4>1. regs[k] \in Register
        BY <1>t DEF TypeOK
      <4> QED
        BY <3>3, <4>1, DisabledType
    <3>5. \A i \in Slots \ {k} : ~Matches(i, w)
      BY <3>1, <3>2 DEF FirstMatch, Matches, Distinct, BankInv
    <3>6. NothingLeftBehind'
      BY <3>2, <3>3, <3>4, <3>5 DEF NothingLeftBehind, BankInv, Matches
    <3>7. Distinct'
      BY <3>2, <3>3, <3>4 DEF Distinct, BankInv
    <3> QED
      BY <1>t, <3>2, <3>6, <3>7 DEF BankInv, NothingBeforeInit
  <2> QED
    BY <2>1, <2>2
<1>4. CASE UNCHANGED vars
  BY <1>4, <1>t DEF vars, BankInv, NothingBeforeInit, Distinct, NothingLeftBehind, Matches
<1> QED
  BY <1>1, <1>2, <1>3, <1>4 DEF Next

\* The registers always hold what the hardware can hold (AddWatchpoint writes no
\* size or kind outside the fields of DR7 and WCR).
THEOREM WatchTypeCorrect == Spec => []TypeOK
<1>1. Init => TypeOK
  BY BankInit DEF BankInv
<1> QED
  BY <1>1, TypeStep, PTL DEF Spec

\* If every address fits the address register, DebugArchInit and the removals
\* leave no register enabled that the debugger does not own.
THEOREM WatchNothingLeftBehind ==
    ASSUME \A w \in Requests : Stored(w.addr) = w.addr
    PROVE  Spec => []NothingLeftBehind
<1>1. BankInv => NothingLeftBehind
  BY DEF BankInv
<1> QED
  BY <1>1, BankInit, BankStep, PTL DEF Spec

\* A watchpoint keeps its register until it is removed itself.
LEMMA HeldStep ==
    ASSUME \A w \in Requests : Stored(w.addr) = w.addr, Distinguishable
    PROVE  BankInv /\ Held /\ [Next]_vars => Held'
<1> SUFFICES ASSUME BankInv, Held, [Next]_vars, NEW v \in outstanding'
             PROVE  Found(v)'
  BY DEF Held
<1>t. TypeOK
  BY DEF BankInv
<1>1. CASE DebugArchInit
  BY <1>1 DEF DebugArchInit, BankInv, NothingBeforeInit
<1>2. ASSUME NEW w \in Requests, AddWatchpoint(w) PROVE Found(v)'
  <2>1. CASE UNCHANGED regs
    <3>1. ASSUME NEW i \in Slots, FirstFree(i), Fill(i, w) PROVE FALSE
      <4>1. regs'[i].enabled
        BY <3>1, <1>t DEF Fill, Contents, TypeOK
      <4> QED
        BY <2>1, <3>1, <4>1 DEF FirstFree
    <3>2. Found(v)
      BY <1>2, <3>1 DEF AddWatchpoint, Held
    <3> QED
      BY <2>1, <3>2 DEF Found, Matches
  <2>2. CASE ~UNCHANGED regs
    <3>1. PICK k \in Slots : FirstFree(k) /\ Fill(k, w)
      BY <1>2, <2>2 DEF AddWatchpoint
    <3>2. \A i \in Slots \ {k} : regs'[i] = regs[i]
      BY <3>1, <1>t DEF Fill, TypeOK
    <3>3. CASE v = w
      BY <3>1, <3>3, <1>t, FilledMatches DEF Found
    <3>4. CASE v # w
      <4>1. PICK i \in Slots : Matches(i, v)
        BY <1>2, <3>4 DEF AddWatchpoint, Held, Found
      <4>2. i # k
        BY <3>1, <4>1 DEF FirstFree, Matches
      <4> QED
        BY <3>2, <4>1, <4>2 DEF Found, Matches
    <3> QED
      BY <3>3, <3>4
  <2> QED
    BY <2>1, <2>2
<1>3. ASSUME NEW w \in Requests, RemoveWatchpoint(w) PROVE Found(v)'
  <2>1. CASE UNCHANGED <<regs, outstanding>>
    BY <2>1 DEF Held, Found, Matches
  <2>2. CASE ~UNCHANGED <<regs, outstanding>>
    <3>1. PICK k \in Slots : /\ FirstMatch(k, w)
                             /\ regs' = [regs EXCEPT ![k] = Disabled(@)]
      BY <1>3, <2>2 DEF RemoveWatchpoint
    <3>2. v \in outstanding /\ v # w /\ v \in Requests
      BY <1>3, <2>2, <1>t DEF RemoveWatchpoint, TypeOK
    <3>3. PICK i \in Slots : Matches(i, v)
      BY <3>2 DEF Held, Found
    <3>4. i # k
      BY <3>1, <3>2, <3>3 DEF FirstMatch, Matches, Distinguishable
    <3>5. regs'[i] = regs[i]
      BY <3>1, <3>4, <1>t DEF TypeOK
    <3> QED
      BY <3>3, <3>5 DEF Found, Matches
  <2> QED
    BY <2>1, <2>2
<1>4. CASE UNCHANGED vars
  BY <1>4 DEF vars, Held, Found, Matches
<1> QED
  BY <1>1, <1>2, <1>3, <1>4 DEF Next

\* A register with the contents of w traps every access w asks for.
LEMMA FoundTraps ==
    ASSUME TypeOK, NEW w \in Requests, Found(w), Expressible(w),
           NEW b \in w.addr .. w.addr + w.len - 1, NEW k \in Kinds(w)
    PROVE  Traps(b, k)
<1>1. PICK i \in Slots : Matches(i, w)
  BY DEF Found
<1>2. regs[i] = Contents(w)
  <2>1. regs[i] \in Register
    BY DEF TypeOK
  <2> QED
    BY <1>1, <2>1 DEF Matches, Contents, Register, Expressible
<1>3. b \in BytesOf(regs[i])
  BY <1>2 DEF Expressible
<1>4. k \in regs[i].on
  BY <1>1 DEF Matches, KindOf, Kinds
<1> QED
  BY <1>1, <1>3, <1>4 DEF Traps, Matches

\* AddWatchpoint's "successfully set" holds until RemoveWatchpoint of the same
\* request, for any bank, when the registers can express each request and tell
\* any two apart.  Without these conditions the code does not keep its word: a
\* read and an access watchpoint share an X64 register, and an AARCH64 register
\* does not keep the low bits of an address.
THEOREM WatchTraps ==
    ASSUME \A w \in Requests : Expressible(w), Distinguishable
    PROVE  Spec => []Watched
<1>a. \A w \in Requests : Stored(w.addr) = w.addr
  BY DEF Expressible
<1>1. Init => BankInv /\ Held
  BY BankInit DEF Init, Held
<1>2. BankInv /\ Held /\ [Next]_vars => (BankInv /\ Held)'
  BY <1>a, BankStep, HeldStep
<1>3. BankInv /\ Held => Watched
  BY FoundTraps DEF BankInv, TypeOK, Held, Watched
<1> QED
  BY <1>1, <1>2, <1>3, PTL DEF Spec

\* A full bank holds as many watchpoints as it has registers.
LEMMA FullBank ==
    ASSUME BankInv, Held, Full, initialized, Distinguishable
    PROVE  Cardinality(outstanding) = MAX_WATCHPOINTS
<1>t. outstanding \subseteq Requests
  BY DEF BankInv, TypeOK
<1> DEFINE f == [i \in Slots |-> CHOOSE w \in outstanding : Matches(i, w)]
<1>1. \A i \in Slots : \E w \in outstanding : Matches(i, w)
  BY DEF BankInv, NothingLeftBehind, Full
<1>2. \A i \in Slots : f[i] \in outstanding /\ Matches(i, f[i])
  BY <1>1
<1>3. f \in [Slots -> outstanding]
  BY <1>2
<1> HIDE DEF f
<1>4. \A i, j \in Slots : f[i] = f[j] => i = j
  BY <1>2 DEF BankInv, Distinct, Matches
<1>5. ASSUME NEW w \in outstanding PROVE \E i \in Slots : f[i] = w
  <2>1. PICK i \in Slots : Matches(i, w)
    BY DEF Held, Found
  <2>2. f[i] = w
    BY <1>t, <1>2, <2>1 DEF Matches, Distinguishable
  <2> QED
    BY <2>2
<1>6. f \in Bijection(Slots, outstanding)
  BY <1>3, <1>4, <1>5 DEF Bijection, Injection, Surjection, IsInjective
<1>7. ExistsBijection(Slots, outstanding)
  BY <1>6 DEF ExistsBijection
<1>8. IsFiniteSet(Slots) /\ Cardinality(Slots) = MAX_WATCHPOINTS
  <2>1. /\ IsFiniteSet(0 .. MAX_WATCHPOINTS - 1)
        /\ Cardinality(0 .. MAX_WATCHPOINTS - 1) =
             IF 0 > MAX_WATCHPOINTS - 1 THEN 0 ELSE MAX_WATCHPOINTS - 1 - 0 + 1
    BY BankAssumption, FS_Interval
  <2> QED
    BY <2>1, BankAssumption DEF Slots
<1> QED
  BY <1>7, <1>8, FS_Bijection

\* AddWatchpoint gives up on a range that is not empty only when every register serves
\* a watchpoint of the debugger, for any bank: no register leaks, and none serves two
\* requests, as long as the address registers hold the addresses and the requests can be
\* told apart.
THEOREM WatchRefusesWhenFull ==
    ASSUME \A w \in Requests : Stored(w.addr) = w.addr, Distinguishable
    PROVE  Spec => RefusedOnlyWhenFull
<1> DEFINE Refusal == \A w \in Requests : (AddWatchpoint(w) /\ reply' = "error" /\ w.len # 0)
                          => Cardinality(outstanding) = MAX_WATCHPOINTS
<1>1. Init => BankInv /\ Held
  BY BankInit DEF Init, Held
<1>2. BankInv /\ Held /\ [Next]_vars => (BankInv /\ Held)'
  BY BankStep, HeldStep
<1>3. BankInv /\ Held => Refusal
  <2> SUFFICES ASSUME BankInv, Held, NEW w \in Requests, AddWatchpoint(w),
                      reply' = "error", w.len # 0
               PROVE  Cardinality(outstanding) = MAX_WATCHPOINTS
    OBVIOUS
  <2>1. initialized /\ Full
    BY DEF AddWatchpoint, Refuses
  <2> QED
    BY <2>1, FullBank
<1>4. BankInv /\ Held => [Refusal]_vars
  BY <1>3
<1> QED
  BY <1>1, <1>2, <1>4, PTL DEF Spec, RefusedOnlyWhenFull

=============================================================================
