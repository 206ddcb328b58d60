-------------------------- MODULE ExecutionProofs --------------------------
(***************************************************************************)
(* Theorems about Execution, for any program, any breakpoints, any register *)
(* table and any list of exceptions.                                       *)
(***************************************************************************)
EXTENDS Execution, FiniteSetTheorems, SequenceTheorems, LeastElement, TLAPS

Ctx   == [rip : Int, eflags : Int, rax : Int]
Frame == [type : {"step", "break", "fault"}, ctx : Ctx, WatchdogState : BOOLEAN]

\* What the variables hold, as far as the theorems need it.
Shape == /\ build \in Builds
         /\ called \in BOOLEAN /\ mDebuggerInitialized \in BOOLEAN /\ ended \in BOOLEAN
         /\ cpu \in Ctx /\ caller \in Int /\ MDSCR_SS \in BOOLEAN
         /\ stack \in Seq(Frame) /\ Len(stack) \in 0 .. 2
         /\ gRunning \in BOOLEAN /\ watchdog \in BOOLEAN /\ dead \in BOOLEAN
         /\ gSystemContext \in 0 .. 2

\* All exceptions are handled or none, and none only before the call, after a failed
\* one, or after the end.
Hooks == /\ hooked \in {{}, Vectors}
         /\ ~called => hooked = {} /\ ~mDebuggerInitialized
         /\ mDebuggerInitialized /\ ~ended => hooked = Vectors
         /\ dead => hooked = {} /\ called

\* An agent that handles nothing leaves the program alone.
Untouched == /\ hooked = {} /\ ~ended => stack = <<>> /\ cpu.rip \in Program
             /\ ~called => mode = "continue" /\ stack = <<>>

\* gRunning is clear in the innermost session only, and a session inside a command
\* is one of X64.
Sessions == /\ stack = <<>> => gRunning
            /\ ContextValid
            /\ Len(stack) = 2 => Arch = "X64"

\* The outermost handler has stopped the watchdog; one inside found it stopped.
Suspended == /\ Len(stack) >= 1 => stack[1].WatchdogState
             /\ Len(stack) = 2 => ~stack[2].WatchdogState

\* The step bit of AARCH64 has been asked for, in a session or out of it.
BitAsked == MDSCR_SS => Arch = "AARCH64" /\ (~dead => 1 \in owed)

\* After vCont;s the next thing to run does so with the step flag.
StepPending ==
    (mode = "step" /\ hooked = Vectors /\ gRunning) =>
        /\ ran = 0
        /\ IF stack = <<>> THEN Stepping(cpu) ELSE Stepping(Top.ctx)

ExecInv == /\ Shape /\ Hooks /\ Untouched
           /\ Sessions
           /\ Suspended /\ WatchdogHeld
           /\ BitAsked /\ StepsAsked
           /\ StepPending

-----------------------------------------------------------------------------
\* The exceptions of the program are among those the agent registers.
LEMMA AllHandled ==
    ASSUME Shape
    PROVE  /\ Vectors # {}
           /\ \A type \in {"step", "break", "fault"} : Vector(type) \in Vectors
<1>1. Arch \in Architectures
  BY BuildAssumption DEF Shape, Arch
<1>2. Arch = "X64" \/ Arch = "AARCH64"
  BY <1>1 DEF Architectures
<1>3. Types \in Seq(STRING)
  BY <1>1, BuildAssumption DEF Types
<1>4. Vectors = Range(Types)
  BY <1>3 DEF Vectors, FirstTypes, Range
<1>5. CASE Arch = "X64"
  BY <1>4, <1>5, ExceptionAssumption DEF Types, Vector
<1>6. CASE Arch = "AARCH64"
  BY <1>4, <1>6, ExceptionAssumption DEF Types, Vector
<1> QED BY <1>2, <1>5, <1>6

\* What a handler does to the context before and after its session.
LEMMA HandlerContext ==
    ASSUME NEW type \in {"step", "break", "fault"}, NEW ctx \in Ctx
    PROVE  /\ Entered(type, ctx) \in Ctx
           /\ Arch = "X64" => Entered(type, ctx).eflags = IF type = "step" THEN 0 ELSE ctx.eflags
           /\ Arch = "AARCH64" => Entered(type, ctx) = ctx
           /\ Left(type, ctx) \in Ctx /\ Left(type, ctx).eflags = ctx.eflags
<1>1. Entered(type, ctx) \in Ctx
  BY DEF Entered, Ctx
<1>2. Left(type, ctx) \in Ctx /\ Left(type, ctx).eflags = ctx.eflags
  BY DEF Left, Ctx
<1>3. Arch = "X64" => Entered(type, ctx).eflags = IF type = "step" THEN 0 ELSE ctx.eflags
  BY DEF Entered, Ctx
<1>4. Arch = "AARCH64" => Entered(type, ctx) = ctx
  BY DEF Entered
<1> QED BY <1>1, <1>2, <1>3, <1>4

LEMMA NotEmpty == ASSUME NEW s, Len(s) = 1 \/ Len(s) = 2 PROVE s # <<>>
<1> SUFFICES ASSUME s = <<>> PROVE FALSE
  OBVIOUS
<1>1. Len(<<>>) = 0
  OBVIOUS
<1>2. Len(s) = 0
  BY <1>1
<1> QED BY <1>2

\* A new session, in the program or in a command.
LEMMA HandleOpens ==
    ASSUME Shape, NEW below \in Seq(Frame),
           below = <<>> \/ (Len(stack) >= 1 /\ below = <<stack[1]>>),
           NEW type \in {"step", "break", "fault"}, NEW ctx \in Ctx,
           Handle(below, type, ctx)
    PROVE  /\ stack' \in Seq(Frame)
           /\ Len(stack') = (IF below = <<>> THEN 1 ELSE 2) /\ stack' # <<>>
           /\ below # <<>> => stack'[1] = stack[1]
           /\ stack'[Len(stack')].ctx = Entered(type, ctx)
           /\ stack'[Len(stack')].WatchdogState = watchdog
           /\ ~watchdog' /\ ~gRunning' /\ gSystemContext' = Len(stack')
           /\ MDSCR_SS' \in BOOLEAN /\ (MDSCR_SS' <=> MDSCR_SS /\ type # "step")
           /\ watchdog' \in BOOLEAN /\ gRunning' \in BOOLEAN
<1> DEFINE f == [type |-> type, ctx |-> Entered(type, ctx), WatchdogState |-> watchdog]
<1>1. f \in Frame
  BY HandlerContext DEF Frame, Shape
<1>2. stack' = Append(below, f) /\ gSystemContext' = Len(below) + 1
  BY DEF Handle
<1>3. Len(below) = IF below = <<>> THEN 0 ELSE 1
  OBVIOUS
<1>4. /\ f.ctx = Entered(type, ctx) /\ f.WatchdogState = watchdog
  OBVIOUS
<1> HIDE DEF f
<1>5. /\ stack' \in Seq(Frame) /\ Len(stack') = Len(below) + 1
      /\ stack'[Len(below) + 1] = f
  BY <1>1, <1>2
<1>6. below # <<>> => stack'[1] = stack[1]
  BY <1>1, <1>2
<1>7. /\ ~watchdog' /\ ~gRunning' /\ watchdog' \in BOOLEAN /\ gRunning' \in BOOLEAN
  BY DEF Handle
<1>8. MDSCR_SS' \in BOOLEAN /\ (MDSCR_SS' <=> MDSCR_SS /\ type # "step")
  BY DEF Handle, Shape
<1>9. Len(stack') = 1 \/ Len(stack') = 2
  BY <1>3, <1>5
<1>10. stack' # <<>>
  BY <1>9, NotEmpty
<1> QED BY <1>2, <1>3, <1>4, <1>5, <1>6, <1>7, <1>8, <1>10

-----------------------------------------------------------------------------
\* Flattening is the recursion that FlattenSeq writes down: the function exists.
LEMMA FlattenExists ==
    ASSUME NEW s, NEW n \in Nat \ {0}
    PROVE  \E g : g = [i \in 1 .. n |-> IF i = 1 THEN s[i] ELSE g[i - 1] \o s[i]]
<1> DEFINE Good(m, g) == g = [i \in 1 .. m |-> IF i = 1 THEN s[i] ELSE g[i - 1] \o s[i]]
           T == {m \in Nat \ {0} : ~\E g : Good(m, g)}
<1> SUFFICES ASSUME T # {} PROVE FALSE
  OBVIOUS
<1>1. PICK m \in T : \A k \in T : m <= k
  <2>1. T \in SUBSET Nat
    OBVIOUS
  <2> HIDE DEF T
  <2> QED BY <2>1, LeastNat
<1>2. m \in Nat \ {0} /\ ~\E g : Good(m, g)
  BY <1>1
<1>3. CASE m = 1
  <2> DEFINE g == [i \in 1 .. 1 |-> s[1]]
  <2>1. Good(1, g)
    OBVIOUS
  <2> QED BY <1>2, <1>3, <2>1
<1>4. CASE m # 1
  <2>1. m - 1 \in Nat \ {0} /\ m - 1 \notin T
    <3>1. m \in Nat \ {0}
      BY <1>2
    <3> HIDE DEF T
    <3> QED BY <1>1, <1>4, <3>1
  <2>2. PICK h : Good(m - 1, h)
    BY <2>1
  <2> DEFINE g == [i \in 1 .. m |-> IF i < m THEN h[i] ELSE h[m - 1] \o s[m]]
  <2>3. ASSUME NEW i \in 1 .. m
        PROVE  g[i] = IF i = 1 THEN s[i] ELSE g[i - 1] \o s[i]
    <3>1. CASE i = m
      <4>1. m \in 1 .. m /\ m - 1 \in 1 .. m /\ ~(m < m) /\ m - 1 < m
        BY <1>2, <2>1
      <4>2. g[m - 1] = h[m - 1] /\ g[m] = h[m - 1] \o s[m]
        BY <4>1
      <4> HIDE DEF g
      <4> QED BY <1>4, <3>1, <4>2
    <3>2. CASE i # m
      <4>1. i \in 1 .. m - 1 /\ i < m /\ (i # 1 => i - 1 < m /\ i - 1 \in 1 .. m)
        BY <1>2, <1>4, <3>2
      <4>2. h[i] = IF i = 1 THEN s[i] ELSE h[i - 1] \o s[i]
        BY <2>2, <4>1
      <4> QED BY <4>1, <4>2
    <3> QED BY <3>1, <3>2
  <2>4. g = [i \in 1 .. m |-> g[i]]
    OBVIOUS
  <2> HIDE DEF g
  <2>5. Good(m, g)
    BY <2>3, <2>4
  <2> QED BY <1>2, <2>5
<1> QED BY <1>3, <1>4

LEMMA Flattened ==
    ASSUME NEW s, NEW n \in Nat \ {0}, Len(s) = n
    PROVE  \E f : /\ f = [i \in 1 .. n |-> IF i = 1 THEN s[i] ELSE f[i - 1] \o s[i]]
                  /\ FlattenSeq(s) = f[n]
<1> DEFINE F == CHOOSE f : f = [i \in 1 .. n |-> IF i = 1 THEN s[i] ELSE f[i - 1] \o s[i]]
<1>1. F = [i \in 1 .. n |-> IF i = 1 THEN s[i] ELSE F[i - 1] \o s[i]]
  BY FlattenExists, Zenon
<1>2. FlattenSeq(s) = F[n]
  BY DEF FlattenSeq
<1> HIDE DEF F
<1> QED BY <1>1, <1>2

LEMMA TakenIsNat == ASSUME NEW i \in Nat PROVE Taken(i) \in Nat
<1>1. IsFiniteSet({j \in 1 .. i - 1 : gRegisterOffsets[j].present})
  <2>1. IsFiniteSet(1 .. i - 1)
    BY FS_Interval
  <2>2. {j \in 1 .. i - 1 : gRegisterOffsets[j].present} \subseteq 1 .. i - 1
    OBVIOUS
  <2> QED BY <2>1, <2>2, FS_Subset
<1> QED BY <1>1, FS_CardinalityType DEF Taken

\* The entries of the table.
LEMMA TableEntries ==
    /\ gRegisterCount \in Nat
    /\ \A i \in 1 .. gRegisterCount :
           /\ gRegisterOffsets[i].size \in Nat /\ gRegisterOffsets[i].present \in BOOLEAN
           /\ gRegisterOffsets[i].present => gRegisterOffsets[i].size = 1
<1>1. gRegisterOffsets \in Seq([name : STRING, size : Nat, present : BOOLEAN])
  BY RegisterAssumption
<1>2. gRegisterCount \in Nat
  BY <1>1 DEF gRegisterCount
<1>3. \A i \in 1 .. gRegisterCount :
          gRegisterOffsets[i] \in [name : STRING, size : Nat, present : BOOLEAN]
  <2>1. \A E : gRegisterOffsets \in Seq(E) => \A i \in 1 .. Len(gRegisterOffsets) : gRegisterOffsets[i] \in E
    OBVIOUS
  <2> QED BY <1>1, <2>1, Zenon DEF gRegisterCount
<1> QED BY <1>2, <1>3, RegisterAssumption

\* G advances its input by the bytes of the registers that have a place.
LEMMA TakenSteps ==
    ASSUME NEW i \in Nat \ {0}
    PROVE  /\ Taken(1) = 0
           /\ Taken(i + 1) = Taken(i) + (IF gRegisterOffsets[i].present THEN 1 ELSE 0)
<1> DEFINE S(k) == {j \in 1 .. k - 1 : gRegisterOffsets[j].present}
<1>1. Taken(1) = 0
  <2>1. S(1) = {}
    OBVIOUS
  <2> QED BY <2>1, FS_EmptySet DEF Taken
<1>2. IsFiniteSet(S(i))
  <2>1. IsFiniteSet(1 .. i - 1)
    BY FS_Interval
  <2> QED BY <2>1, FS_Subset
<1>3. i \notin S(i)
  OBVIOUS
<1>4. S(i + 1) = IF gRegisterOffsets[i].present THEN S(i) \cup {i} ELSE S(i)
  OBVIOUS
<1>5. Taken(i) = Cardinality(S(i)) /\ Taken(i + 1) = Cardinality(S(i + 1))
  BY DEF Taken
<1>6. Cardinality(S(i)) \in Nat
  BY <1>2, FS_CardinalityType
<1> HIDE DEF S
<1>7. Cardinality(S(i) \cup {i}) = Cardinality(S(i)) + 1
  BY <1>2, <1>3, FS_AddElement
<1> QED BY <1>1, <1>4, <1>5, <1>6, <1>7

\* A register that has a place comes after such registers only.
LEMMA TakenBefore ==
    ASSUME NEW i \in 1 .. gRegisterCount, gRegisterOffsets[i].present
    PROVE  Taken(i) = i - 1
<1>1. i \in Nat /\ i >= 1
  BY TableEntries
<1>2. {j \in 1 .. i - 1 : gRegisterOffsets[j].present} = 1 .. i - 1
  <2> SUFFICES ASSUME NEW j \in 1 .. i - 1 PROVE gRegisterOffsets[j].present
    OBVIOUS
  <2>1. j \in 1 .. gRegisterCount /\ j < i
    BY TableEntries
  <2> QED BY <2>1, RegisterAssumption
<1>3. Cardinality(1 .. i - 1) = i - 1
  <2>1. 1 \in Int /\ i - 1 \in Int
    BY <1>1
  <2>2. Cardinality(1 .. i - 1) = IF 1 > i - 1 THEN 0 ELSE i - 1 - 1 + 1
    BY <2>1, FS_Interval
  <2> QED BY <1>1, <2>2
<1> QED BY <1>2, <1>3 DEF Taken

\* Its place in the packet is the number of registers before it.
LEMMA OffsetBefore ==
    ASSUME NEW i \in 1 .. gRegisterCount, gRegisterOffsets[i].present
    PROVE  Offset(i) = i - 1
<1> DEFINE U == CHOOSE u : u = [j \in 0 .. i |-> IF j = 0 THEN 0 ELSE u[j - 1] + gRegisterOffsets[j].size]
           id == [j \in 0 .. i |-> j]
<1>1. i \in Nat /\ i >= 1
  BY TableEntries
<1>2. \A j \in 1 .. i : gRegisterOffsets[j].size = 1
  <2> SUFFICES ASSUME NEW j \in 1 .. i PROVE gRegisterOffsets[j].size = 1
    OBVIOUS
  <2>1. j \in 1 .. gRegisterCount /\ (j < i \/ j = i)
    BY TableEntries
  <2> QED BY <2>1, RegisterAssumption
<1>3. id = [j \in 0 .. i |-> IF j = 0 THEN 0 ELSE id[j - 1] + gRegisterOffsets[j].size]
  <2>1. ASSUME NEW j \in 0 .. i
        PROVE  j = IF j = 0 THEN 0 ELSE id[j - 1] + gRegisterOffsets[j].size
    <3>1. CASE j # 0
      <4>1. j - 1 \in 0 .. i /\ j \in 1 .. i
        BY <1>1, <3>1
      <4>2. id[j - 1] = j - 1 /\ gRegisterOffsets[j].size = 1
        BY <1>2, <4>1
      <4> HIDE DEF id
      <4> QED BY <3>1, <4>1, <4>2
    <3> QED BY <3>1
  <2> QED BY <2>1
<1>4. U = [j \in 0 .. i |-> IF j = 0 THEN 0 ELSE U[j - 1] + gRegisterOffsets[j].size]
  <2> HIDE DEF id
  <2> QED BY <1>3, Zenon
<1>5. Offset(i) = U[i - 1]
  BY DEF Offset
<1> HIDE DEF U, id
<1> DEFINE T == {j \in 0 .. i : U[j] # j}
<1>6. T = {}
  <2> SUFFICES ASSUME T # {} PROVE FALSE
    OBVIOUS
  <2>1. T \in SUBSET Nat
    BY <1>1
  <2>2. PICK m \in T : \A k \in T : m <= k
    <3> HIDE DEF T
    <3> QED BY <2>1, LeastNat
  <2>3. m \in 0 .. i /\ U[m] # m
    BY <2>2
  <2>4. m # 0
    BY <1>1, <1>4, <2>3
  <2>5. m - 1 \in 0 .. i /\ m \in 1 .. i /\ ~(m <= m - 1)
    BY <1>1, <2>3, <2>4
  <2>6. U[m - 1] = m - 1
    BY <2>2, <2>5
  <2>7. U[m] = U[m - 1] + gRegisterOffsets[m].size
    BY <1>4, <2>3, <2>4
  <2> QED BY <1>2, <2>3, <2>5, <2>6, <2>7
<1>7. i - 1 \in 0 .. i
  BY <1>1
<1> QED BY <1>5, <1>6, <1>7

\* What g sends: every register that has a place at its place, and enough bytes for
\* all of the table.
LEMMA PacketRead ==
    ASSUME NEW S, 0 \in S, NEW ctx,
           \A i \in 1 .. gRegisterCount :
               gRegisterOffsets[i].present => ctx[gRegisterOffsets[i].name] \in S
    PROVE  /\ ReadGeneralRegisters(ctx) \in Seq(S)
           /\ \A i \in 1 .. gRegisterCount :
                  /\ Len(ReadGeneralRegisters(ctx)) >= Taken(i) + gRegisterOffsets[i].size
                  /\ gRegisterOffsets[i].present =>
                         /\ i <= Len(ReadGeneralRegisters(ctx))
                         /\ ReadGeneralRegisters(ctx)[i] = ctx[gRegisterOffsets[i].name]
<1> DEFINE N == gRegisterCount
           s == [i \in 1 .. N |-> ReadRegisterFromContext(ctx, i)]
           Present(i) == gRegisterOffsets[i].present
           Size1(i) == gRegisterOffsets[i].size
           Val(i) == ctx[gRegisterOffsets[i].name]
<1>1. /\ N \in Nat
      /\ \A i \in 1 .. N : Size1(i) \in Nat /\ Present(i) \in BOOLEAN /\ (Present(i) => Size1(i) = 1)
  BY TableEntries
<1>2. ReadGeneralRegisters(ctx) = FlattenSeq(s)
  BY DEF ReadGeneralRegisters
<1>3. \A i \in 1 .. N : /\ s[i] \in Seq(S) /\ Len(s[i]) = Size1(i)
                        /\ Present(i) => s[i][1] = Val(i)
  <2> SUFFICES ASSUME NEW i \in 1 .. N
               PROVE  /\ s[i] \in Seq(S) /\ Len(s[i]) = Size1(i)
                      /\ Present(i) => s[i][1] = Val(i)
    OBVIOUS
  <2>0. s[i] = ReadRegisterFromContext(ctx, i)
    OBVIOUS
  <2>1. CASE Present(i)
    <3>1. s[i] = <<Val(i)>>
      BY <2>0, <2>1 DEF ReadRegisterFromContext
    <3>2. Val(i) \in S
      BY <2>1
    <3> HIDE DEF s, Val, Size1, Present
    <3> QED BY <1>1, <2>1, <3>1, <3>2
  <2>2. CASE ~Present(i)
    <3>1. s[i] = [j \in 1 .. Size1(i) |-> 0]
      BY <2>0, <2>2 DEF ReadRegisterFromContext
    <3> HIDE DEF s, Val, Size1, Present
    <3> QED BY <1>1, <2>2, <3>1
  <2> QED BY <2>1, <2>2
<1>4. \A i, j \in 1 .. N : i < j /\ Present(j) => Present(i)
  BY RegisterAssumption
<1>5. Len(s) = N
  BY <1>1
<1>6. CASE N = 0
  <2>1. ReadGeneralRegisters(ctx) = <<>>
    BY <1>2, <1>5, <1>6 DEF FlattenSeq
  <2> QED BY <1>6, <2>1
<1>7. CASE N # 0
  <2>1. N \in Nat \ {0}
    BY <1>1, <1>7
  <2>2. PICK f : /\ f = [i \in 1 .. N |-> IF i = 1 THEN s[i] ELSE f[i - 1] \o s[i]]
                 /\ FlattenSeq(s) = f[N]
    <3> HIDE DEF s, N
    <3> QED BY <1>5, <2>1, Flattened, Zenon
  <2>3. \A i \in 1 .. N : f[i] = IF i = 1 THEN s[i] ELSE f[i - 1] \o s[i]
    <3> HIDE DEF s, N
    <3> QED BY <2>2
  <2> DEFINE Right(i) == /\ f[i] \in Seq(S)
                         /\ Present(i) => Len(f[i]) = i
                         /\ \A j \in 1 .. i : /\ Len(f[i]) >= Taken(j) + Size1(j)
                                              /\ Present(j) => j <= Len(f[i]) /\ f[i][j] = Val(j)
  <2> HIDE DEF s, N, Val, Size1, Present
  <2>4. Right(1)
    <3>1. f[1] = s[1] /\ 1 \in 1 .. N
      BY <2>1, <2>3
    <3>2. f[1] \in Seq(S) /\ Len(f[1]) = Size1(1) /\ (Present(1) => f[1][1] = Val(1))
      BY <1>3, <3>1
    <3>3. Taken(1) = 0
      BY TakenSteps
    <3>4. Size1(1) \in Nat /\ (Present(1) => Size1(1) = 1)
      BY <1>1, <3>1
    <3>5. \A j \in 1 .. 1 : j = 1
      OBVIOUS
    <3> QED BY <3>2, <3>3, <3>4, <3>5
  <2>5. ASSUME NEW i \in 2 .. N, Right(i - 1) PROVE Right(i)
    <3> DEFINE k == i - 1
    <3>1. /\ i \in Nat /\ i >= 2 /\ k \in Nat \ {0} /\ i = k + 1 /\ k \in 1 .. N /\ i \in 1 .. N
          /\ k < i
      BY <1>1
    <3>2. f[i] = f[k] \o s[i]
      <4>1. i # 1 /\ i \in 1 .. N
        BY <3>1
      <4> QED BY <2>3, <4>1, Zenon
    <3>3. f[k] \in Seq(S) /\ s[i] \in Seq(S) /\ Len(s[i]) = Size1(i)
      BY <1>3, <2>5, <3>1
    <3>4. Size1(i) \in Nat /\ Len(f[k]) \in Nat
      BY <1>1, <3>1, <3>3
    <3>0. /\ f[i] \in Seq(S) /\ Len(f[i]) = Len(f[k]) + Len(s[i])
          /\ \A j \in 1 .. Len(f[k]) + Len(s[i]) :
                 f[i][j] = IF j <= Len(f[k]) THEN f[k][j] ELSE s[i][j - Len(f[k])]
      <4> HIDE DEF k
      <4> DEFINE c == f[k] \o s[i]
      <4>1. /\ c \in Seq(S) /\ Len(c) = Len(f[k]) + Len(s[i])
            /\ \A j \in 1 .. Len(f[k]) + Len(s[i]) :
                   c[j] = IF j <= Len(f[k]) THEN f[k][j] ELSE s[i][j - Len(f[k])]
        BY <3>3, ConcatProperties
      <4>2. f[i] = c
        BY <3>2
      <4> HIDE DEF c
      <4> QED BY <4>1, <4>2
    <3>5. f[i] \in Seq(S) /\ Len(f[i]) = Len(f[k]) + Size1(i)
      <4> HIDE DEF k
      <4> QED BY <3>0, <3>3
    <3>6. \A j \in 1 .. Len(f[k]) : f[i][j] = f[k][j]
      <4> HIDE DEF k
      <4>1. \A j \in 1 .. Len(f[k]) : j \in 1 .. Len(f[k]) + Len(s[i]) /\ j <= Len(f[k])
        BY <3>3, <3>4
      <4> QED BY <3>0, <4>1
    <3>7. Present(i) => f[i][Len(f[k]) + 1] = Val(i)
      <4> SUFFICES ASSUME Present(i) PROVE f[i][Len(f[k]) + 1] = Val(i)
        OBVIOUS
      <4>1. s[i][1] = Val(i) /\ Len(s[i]) = 1
        BY <1>1, <1>3, <3>1
      <4> HIDE DEF k
      <4>2. /\ Len(f[k]) + 1 \in 1 .. Len(f[k]) + Len(s[i]) /\ ~(Len(f[k]) + 1 <= Len(f[k]))
            /\ Len(f[k]) + 1 - Len(f[k]) = 1
        BY <3>4, <4>1
      <4>3. f[i][Len(f[k]) + 1] = s[i][Len(f[k]) + 1 - Len(f[k])]
        <5> DEFINE p == Len(f[k]) + 1
        <5>1. p \in 1 .. Len(f[k]) + Len(s[i]) /\ ~(p <= Len(f[k]))
          BY <4>2
        <5> HIDE DEF p
        <5>2. f[i][p] = s[i][p - Len(f[k])]
          BY <3>0, <5>1
        <5> QED BY <5>2 DEF p
      <4> QED BY <4>1, <4>2, <4>3
    <3>8. Present(i) => Present(k) /\ Len(f[k]) = k /\ Size1(i) = 1
      BY <1>1, <1>4, <2>5, <3>1
    <3>9. Present(i) => Len(f[i]) = i
      BY <3>1, <3>5, <3>8
    <3>10. Taken(i) <= Len(f[k])
      <4>1. k \in 1 .. k
        BY <3>1
      <4>2. Len(f[k]) >= Taken(k) + Size1(k)
        BY <2>5, <4>1
      <4>3. Taken(i) = Taken(k) + (IF Present(k) THEN 1 ELSE 0)
        BY <3>1, TakenSteps DEF Present
      <4>4. Taken(k) \in Nat /\ Size1(k) \in Nat /\ (Present(k) => Size1(k) = 1)
        BY <1>1, <3>1, TakenIsNat
      <4> HIDE DEF k
      <4> QED BY <3>4, <4>2, <4>3, <4>4
    <3>11. Taken(i) \in Nat
      BY <3>1, TakenIsNat
    <3>12. ASSUME NEW j \in 1 .. i
           PROVE  /\ Len(f[i]) >= Taken(j) + Size1(j)
                  /\ Present(j) => j <= Len(f[i]) /\ f[i][j] = Val(j)
      <4>1. CASE j = i
        <5>1. Len(f[i]) >= Taken(i) + Size1(i)
          <6> HIDE DEF k
          <6> QED BY <3>4, <3>5, <3>10, <3>11
        <5>2. Present(i) => i <= Len(f[i]) /\ f[i][i] = Val(i)
          BY <3>1, <3>7, <3>8, <3>9
        <5> QED BY <4>1, <5>1, <5>2
      <4>2. CASE j # i
        <5>1. j \in 1 .. k /\ j \in Nat /\ j \in 1 .. N /\ j >= 1
          BY <1>1, <3>1, <4>2
        <5>2. /\ Len(f[k]) >= Taken(j) + Size1(j)
              /\ Present(j) => j <= Len(f[k]) /\ f[k][j] = Val(j)
          BY <2>5, <5>1
        <5>3. Taken(j) \in Nat /\ Size1(j) \in Nat
          BY <1>1, <5>1, TakenIsNat
        <5>4. Len(f[i]) >= Taken(j) + Size1(j)
          <6> HIDE DEF k
          <6> QED BY <3>4, <3>5, <5>2, <5>3
        <5>5. Present(j) => j <= Len(f[i]) /\ f[i][j] = Val(j)
          <6> HIDE DEF k
          <6> SUFFICES ASSUME Present(j) PROVE j <= Len(f[i]) /\ f[i][j] = Val(j)
            OBVIOUS
          <6>1. j \in 1 .. Len(f[k])
            BY <3>4, <5>1, <5>2
          <6>2. f[i][j] = f[k][j]
            BY <3>6, <6>1
          <6> QED BY <3>4, <3>5, <5>1, <5>2, <6>2
        <5> QED BY <5>4, <5>5
      <4> QED BY <4>1, <4>2
    <3> QED BY <3>5, <3>9, <3>12
  <2>6. Right(N)
    <3> DEFINE T == {i \in 1 .. N : ~Right(i)}
    <3> SUFFICES ASSUME T # {} PROVE FALSE
      BY <2>1
    <3> HIDE DEF Right
    <3>1. T \in SUBSET Nat
      OBVIOUS
    <3>2. PICK m \in T : \A k \in T : m <= k
      <4> HIDE DEF T
      <4> QED BY <3>1, LeastNat
    <3>3. m \in 1 .. N /\ ~Right(m) /\ m # 1
      BY <2>4, <3>2
    <3>4. m \in 2 .. N /\ m - 1 \in 1 .. N /\ ~(m <= m - 1)
      BY <2>1, <3>3
    <3>5. Right(m - 1)
      BY <3>2, <3>4
    <3> QED BY <2>5, <3>3, <3>4, <3>5
  <2> DEFINE d == ReadGeneralRegisters(ctx)
  <2>7. d = f[N]
    BY <1>2, <2>2
  <2>8. /\ d \in Seq(S)
        /\ \A j \in 1 .. N : /\ Len(d) >= Taken(j) + Size1(j)
                             /\ Present(j) => j <= Len(d) /\ d[j] = Val(j)
    <3> HIDE DEF d
    <3> QED BY <2>6, <2>7
  <2> HIDE DEF d
  <2> QED BY <2>8 DEF d, N, Size1, Present, Val
<1> QED BY <1>6, <1>7

\* The result w of G with the packet d: a register that has a place becomes what the
\* packet says there, or the packet is too short and the register is left alone.
WrittenFrom(ctx, d, w) ==
    /\ w.ctx = [n \in DOMAIN ctx |-> w.ctx[n]]
    /\ \A n \in DOMAIN ctx :
           \/ w.ctx[n] = ctx[n]
           \/ \E i \in 1 .. gRegisterCount :
                  /\ gRegisterOffsets[i].present /\ gRegisterOffsets[i].name = n
                  /\ i <= Len(d) /\ w.ctx[n] = d[i]
    /\ \A i \in 1 .. gRegisterCount :
           (gRegisterOffsets[i].present /\ gRegisterOffsets[i].name \in DOMAIN ctx) =>
               \/ i <= Len(d) /\ w.ctx[gRegisterOffsets[i].name] = d[i]
               \/ ~w.ok /\ w.ctx[gRegisterOffsets[i].name] = ctx[gRegisterOffsets[i].name]
    /\ (\A i \in 1 .. gRegisterCount : Len(d) >= Taken(i) + gRegisterOffsets[i].size) => w.ok

LEMMA WrittenAt ==
    ASSUME NEW ctx, NEW S, NEW d \in Seq(S)
    PROVE  WrittenFrom(ctx, d, WriteGeneralRegisters(ctx, d))
<1> DEFINE written == {i \in 1 .. gRegisterCount :
                         \A j \in 1 .. i : Len(d) >= Taken(j) + gRegisterOffsets[j].size}
           sources == [n \in DOMAIN ctx |->
                         {i \in written : gRegisterOffsets[i].present /\ gRegisterOffsets[i].name = n}]
           new == [n \in DOMAIN ctx |->
                     IF sources[n] = {} THEN ctx[n]
                     ELSE d[Taken(CHOOSE i \in sources[n] : TRUE) + 1]]
           w == WriteGeneralRegisters(ctx, d)
<1>1. w.ctx = new /\ w.ok = (written = 1 .. gRegisterCount)
  BY DEF WriteGeneralRegisters
<1>2. ASSUME NEW i \in written, gRegisterOffsets[i].present
      PROVE  i <= Len(d) /\ d[Taken(i) + 1] = d[i]
  <2>1. i \in 1 .. gRegisterCount /\ i \in Nat /\ i \in 1 .. i
    BY TableEntries
  <2>2. gRegisterOffsets[i].size = 1 /\ Taken(i) = i - 1
    BY <1>2, <2>1, TableEntries, TakenBefore
  <2>3. Len(d) >= i - 1 + 1 /\ i - 1 + 1 = i
    BY <2>1, <2>2
  <2> QED BY <2>2, <2>3
<1>3. ASSUME NEW n \in DOMAIN ctx, sources[n] # {}
      PROVE  \E i \in sources[n] : i <= Len(d) /\ new[n] = d[i]
  <2>1. PICK i : i = CHOOSE k \in sources[n] : TRUE
    OBVIOUS
  <2>2. i \in sources[n]
    BY <1>3, <2>1
  <2>3. i \in written /\ gRegisterOffsets[i].present
    BY <2>2
  <2>4. new[n] = d[Taken(i) + 1]
    BY <1>3, <2>1
  <2>5. i <= Len(d) /\ d[Taken(i) + 1] = d[i]
    BY <1>2, <2>3
  <2> HIDE DEF new, sources, written
  <2> QED BY <2>2, <2>4, <2>5
<1>4. \A n \in DOMAIN ctx : sources[n] = {} => new[n] = ctx[n]
  OBVIOUS
<1>5. new = [n \in DOMAIN ctx |-> new[n]]
  OBVIOUS
<1> HIDE DEF new, w
<1>6. \A n \in DOMAIN ctx :
          \/ new[n] = ctx[n]
          \/ \E i \in 1 .. gRegisterCount :
                 /\ gRegisterOffsets[i].present /\ gRegisterOffsets[i].name = n
                 /\ i <= Len(d) /\ new[n] = d[i]
  <2> SUFFICES ASSUME NEW n \in DOMAIN ctx, sources[n] # {}
               PROVE  \E i \in 1 .. gRegisterCount :
                          /\ gRegisterOffsets[i].present /\ gRegisterOffsets[i].name = n
                          /\ i <= Len(d) /\ new[n] = d[i]
    BY <1>4
  <2>1. PICK i \in sources[n] : i <= Len(d) /\ new[n] = d[i]
    BY <1>3
  <2>2. i \in 1 .. gRegisterCount /\ gRegisterOffsets[i].present /\ gRegisterOffsets[i].name = n
    BY <2>1
  <2> QED BY <2>1, <2>2
<1>7. ASSUME NEW i \in 1 .. gRegisterCount, gRegisterOffsets[i].present,
             NEW n \in DOMAIN ctx, n = gRegisterOffsets[i].name
      PROVE  \/ i <= Len(d) /\ new[n] = d[i]
             \/ ~(written = 1 .. gRegisterCount) /\ new[n] = ctx[n]
  <2>1. \A k \in sources[n] : k = i
    BY <1>7, RegisterAssumption
  <2>2. CASE sources[n] # {}
    BY <1>3, <2>1, <2>2
  <2>3. CASE sources[n] = {}
    <3>1. i \notin written
      BY <1>7, <2>3
    <3> QED BY <1>4, <2>3, <3>1
  <2> QED BY <2>2, <2>3
<1>8. (\A i \in 1 .. gRegisterCount : Len(d) >= Taken(i) + gRegisterOffsets[i].size)
          => written = 1 .. gRegisterCount
  <2> SUFFICES ASSUME \A i \in 1 .. gRegisterCount : Len(d) >= Taken(i) + gRegisterOffsets[i].size,
                      NEW i \in 1 .. gRegisterCount
               PROVE  \A j \in 1 .. i : Len(d) >= Taken(j) + gRegisterOffsets[j].size
    OBVIOUS
  <2>1. \A j \in 1 .. i : j \in 1 .. gRegisterCount
    BY TableEntries
  <2> QED BY <2>1
<1> HIDE DEF written
<1>9. \A i \in 1 .. gRegisterCount :
          (gRegisterOffsets[i].present /\ gRegisterOffsets[i].name \in DOMAIN ctx) =>
              \/ i <= Len(d) /\ w.ctx[gRegisterOffsets[i].name] = d[i]
              \/ ~w.ok /\ w.ctx[gRegisterOffsets[i].name] = ctx[gRegisterOffsets[i].name]
  BY <1>1, <1>7
<1>10. w.ctx = [n \in DOMAIN ctx |-> w.ctx[n]]
  BY <1>1, <1>5
<1>11. \A n \in DOMAIN ctx :
           \/ w.ctx[n] = ctx[n]
           \/ \E i \in 1 .. gRegisterCount :
                  /\ gRegisterOffsets[i].present /\ gRegisterOffsets[i].name = n
                  /\ i <= Len(d) /\ w.ctx[n] = d[i]
  BY <1>1, <1>6
<1>12. (\A i \in 1 .. gRegisterCount : Len(d) >= Taken(i) + gRegisterOffsets[i].size) => w.ok
  BY <1>1, <1>8
<1>13. WrittenFrom(ctx, d, w)
  BY <1>9, <1>10, <1>11, <1>12, Zenon DEF WrittenFrom
<1> QED BY <1>13 DEF w

\* Whatever a register command writes, a context stays one.
LEMMA GeneralRegistersWritten ==
    ASSUME NEW ctx \in Ctx, NEW d \in Seq(Nat)
    PROVE  WriteGeneralRegisters(ctx, d).ctx \in Ctx
<1> DEFINE w == WriteGeneralRegisters(ctx, d)
           new == w.ctx
<1>0. WrittenFrom(ctx, d, w)
  BY WrittenAt
<1> HIDE DEF w
<1>1. /\ new = [n \in DOMAIN ctx |-> new[n]]
      /\ \A n \in DOMAIN ctx :
             new[n] = ctx[n] \/ \E i \in 1 .. gRegisterCount : i <= Len(d) /\ new[n] = d[i]
  BY <1>0 DEF WrittenFrom
<1> HIDE DEF new
<1>2. \A n \in DOMAIN ctx : new[n] = ctx[n] \/ new[n] \in Nat
  BY <1>1, TableEntries
<1>3. /\ DOMAIN ctx = {"rip", "eflags", "rax"}
      /\ ctx["rip"] \in Int /\ ctx["eflags"] \in Int /\ ctx["rax"] \in Int
  BY DEF Ctx
<1>4. new = [rip |-> new["rip"], eflags |-> new["eflags"], rax |-> new["rax"]]
  BY <1>1, <1>3
<1>5. new["rip"] \in Int /\ new["eflags"] \in Int /\ new["rax"] \in Int
  BY <1>2, <1>3
<1>6. new \in Ctx
  BY <1>4, <1>5 DEF Ctx
<1> QED BY <1>6 DEF new, w

LEMMA OneRegisterWritten ==
    ASSUME NEW ctx \in Ctx, NEW i \in Nat, NEW v \in Int
    PROVE  WriteRegister(ctx, i, <<v>>).ctx \in Ctx
<1>1. <<v>>[1] \in Int
  OBVIOUS
<1>2. \A name : [ctx EXCEPT ![name] = <<v>>[1]] \in Ctx
  BY <1>1 DEF Ctx
<1> QED BY <1>2 DEF WriteRegister, WriteRegisterToContext

-----------------------------------------------------------------------------
LEMMA ExecInit == Init => ExecInv
<1> SUFFICES ASSUME Init PROVE ExecInv
  OBVIOUS
<1>1. stack = <<>> /\ stack \in Seq(Frame) /\ Len(stack) = 0
  BY DEF Init
<1>2. /\ build \in Builds /\ called = FALSE /\ mDebuggerInitialized = FALSE
      /\ hooked = {} /\ ended = FALSE
  BY DEF Init, AgentInit
<1>3. cpu \in Ctx /\ cpu.rip = 0 /\ cpu.eflags = 0 /\ 0 \in Program
  BY ProgramAssumption DEF Init, Ctx, Program
<1>4. /\ MDSCR_SS = FALSE /\ gRunning = TRUE /\ gSystemContext = 0 /\ watchdog = TRUE
      /\ caller = 0 /\ dead = FALSE /\ mode = "continue"
  BY DEF Init
<1>5. Shape
  <2>1. stack \in Seq(Frame) /\ Len(stack) \in 0 .. 2
    BY <1>1
  <2>2. caller \in Int /\ gSystemContext \in 0 .. 2
    BY <1>4
  <2> QED BY <1>2, <1>3, <1>4, <2>1, <2>2 DEF Shape
<1>6. Hooks /\ Untouched
  BY <1>1, <1>2, <1>3, <1>4 DEF Hooks, Untouched
<1>7. Sessions /\ Suspended /\ WatchdogHeld
  BY <1>1, <1>4 DEF Sessions, ContextValid, Stopped, Suspended, WatchdogHeld
<1>8. BitAsked /\ StepsAsked
  BY <1>1, <1>3, <1>4 DEF BitAsked, StepsAsked, Stepping
<1>9. StepPending
  BY <1>4 DEF StepPending
<1> QED BY <1>5, <1>6, <1>7, <1>8, <1>9 DEF ExecInv

\* An exception of the program opens a session, or stops a machine that has no
\* handler for it.
LEMMA ProgramException ==
    ASSUME ExecInv, Running,
           NEW type \in {"step", "break", "fault"}, NEW ctx \in Ctx,
           Exception(type, ctx),
           UNCHANGED <<agentVars, caller, mode>>,
           cpu' \in Ctx, hooked = {} /\ ~ended => cpu'.rip \in Program,
           Arch = "X64" /\ type # "step" /\ ctx.eflags = 1 => 1 \in owed',
           MDSCR_SS /\ type # "step" => 1 \in owed'
    PROVE  ExecInv'
<1>1. /\ Shape /\ Hooks /\ Sessions /\ Suspended /\ WatchdogHeld /\ BitAsked
      /\ called /\ stack = <<>> /\ ~dead
  BY DEF ExecInv, Running
<1>2. /\ build' = build /\ called' = called /\ mDebuggerInitialized' = mDebuggerInitialized
      /\ hooked' = hooked /\ ended' = ended /\ caller' = caller /\ mode' = mode
      /\ Arch' = Arch /\ Vectors' = Vectors
  BY DEF agentVars, Arch, Vectors, FirstTypes, Types
<1>3. Vectors # {} /\ Vector(type) \in Vectors
  BY <1>1, AllHandled
<1>4. CASE hooked = {}
  <2>1. dead' = TRUE /\ UNCHANGED <<session, MDSCR_SS>>
    BY <1>4 DEF Exception
  <2>2. /\ stack' = <<>> /\ Len(stack') = 0 /\ gRunning' = gRunning
        /\ gSystemContext' = gSystemContext /\ watchdog' = watchdog /\ MDSCR_SS' = MDSCR_SS
    BY <1>1, <2>1 DEF session
  <2>3. Shape'
    BY <1>1, <1>2, <2>1, <2>2 DEF Shape
  <2>4. Hooks' /\ Untouched'
    BY <1>1, <1>2, <1>4, <2>1, <2>2 DEF Hooks, Untouched, Program
  <2>5. Sessions' /\ Suspended' /\ WatchdogHeld'
    BY <1>1, <2>2 DEF Sessions, ContextValid, Stopped, Suspended, WatchdogHeld
  <2>6. BitAsked' /\ StepsAsked'
    BY <1>1, <1>2, <2>1, <2>2 DEF BitAsked, StepsAsked
  <2>7. StepPending'
    BY <1>2, <1>3, <1>4 DEF StepPending
  <2> QED BY <2>3, <2>4, <2>5, <2>6, <2>7 DEF ExecInv
<1>5. CASE hooked = Vectors
  <2>1. Handle(<<>>, type, ctx) /\ dead' = dead
    BY <1>3, <1>5 DEF Exception
  <2>2. /\ stack' \in Seq(Frame) /\ Len(stack') = 1 /\ stack' # <<>>
        /\ stack'[1].ctx = Entered(type, ctx) /\ stack'[1].WatchdogState = watchdog
        /\ ~watchdog' /\ ~gRunning' /\ gSystemContext' = 1
        /\ MDSCR_SS' \in BOOLEAN /\ (MDSCR_SS' <=> MDSCR_SS /\ type # "step")
        /\ watchdog' \in BOOLEAN /\ gRunning' \in BOOLEAN
    <3>1. <<>> \in Seq(Frame)
      OBVIOUS
    <3> QED BY <1>1, <2>1, <3>1, HandleOpens
  <2>3. watchdog
    BY <1>1 DEF WatchdogHeld
  <2>4. Shape'
    BY <1>1, <1>2, <2>1, <2>2 DEF Shape
  <2>5. Hooks' /\ Untouched'
    BY <1>1, <1>2, <1>3, <1>5, <2>1, <2>2 DEF Hooks, Untouched
  <2>6. Sessions' /\ Suspended' /\ WatchdogHeld'
    BY <2>2, <2>3 DEF Sessions, ContextValid, Stopped, Suspended, WatchdogHeld
  <2>7. BitAsked'
    <3>1. MDSCR_SS' = TRUE => MDSCR_SS = TRUE /\ type # "step"
      BY <1>1, <2>2 DEF Shape
    <3>2. MDSCR_SS' = TRUE => Arch = "AARCH64" /\ 1 \in owed'
      BY <1>1, <3>1 DEF BitAsked
    <3> QED BY <1>2, <2>2, <3>2 DEF BitAsked
  <2>8. StepsAsked'
    <3>1. Arch = "X64" /\ stack'[1].ctx.eflags = 1 => 1 \in owed'
      BY <2>2, HandlerContext
    <3>2. stack' # <<>> /\ 1 .. Len(stack') = {1}
      BY <2>2
    <3>3. Arch' = "X64" => \A d \in 1 .. Len(stack') : stack'[d].ctx.eflags = 1 => d \in owed'
      BY <1>2, <3>1, <3>2
    <3> QED BY <3>2, <3>3 DEF StepsAsked
  <2>9. StepPending'
    BY <2>2 DEF StepPending
  <2> QED BY <2>4, <2>5, <2>6, <2>7, <2>8, <2>9 DEF ExecInv
<1> QED BY <1>1, <1>4, <1>5 DEF Hooks

-----------------------------------------------------------------------------
\* One lemma for each action.

LEMMA ExecExecuteOp == ASSUME ExecInv, ExecuteOp PROVE ExecInv'
<1> DEFINE next == [cpu EXCEPT !.rip = NextAddress(@)]
<1>1. /\ Shape /\ Hooks /\ Untouched /\ Sessions /\ Suspended /\ WatchdogHeld
      /\ BitAsked /\ StepsAsked /\ StepPending
      /\ Running /\ called /\ stack = <<>> /\ ~dead
      /\ cpu' = next /\ UNCHANGED <<agentVars, caller, mode>>
  BY DEF ExecInv, ExecuteOp, Running
<1>2. /\ build' = build /\ called' = called /\ mDebuggerInitialized' = mDebuggerInitialized
      /\ hooked' = hooked /\ ended' = ended /\ caller' = caller /\ mode' = mode
      /\ Arch' = Arch /\ Vectors' = Vectors
  BY <1>1 DEF agentVars, Arch, Vectors, FirstTypes, Types
<1>3. \A a \in Int : NextAddress(a) \in Int
  BY <1>1 DEF NextAddress, Shape
<1>4. next \in Ctx /\ next.eflags = cpu.eflags /\ next.rip = NextAddress(cpu.rip)
  BY <1>1, <1>3 DEF Shape, Ctx
<1>5. hooked = {} /\ ~ended => next.rip \in Program
  BY <1>1, <1>4, ProgramAssumption DEF Untouched, NextAddress, Program, Return
<1> HIDE DEF next
<1>6. CASE Stepping(cpu)
  <2>1. Exception("step", next)
    BY <1>6 DEF ExecuteOp, next
  <2> QED BY <1>1, <1>4, <1>5, <2>1, ProgramException
<1>7. CASE ~Stepping(cpu)
  <2>1. UNCHANGED <<session, MDSCR_SS, dead, owed>>
    BY <1>7 DEF ExecuteOp
  <2>2. /\ stack' = stack /\ gRunning' = gRunning /\ gSystemContext' = gSystemContext
        /\ watchdog' = watchdog /\ MDSCR_SS' = MDSCR_SS /\ dead' = dead /\ owed' = owed
    BY <2>1 DEF session
  <2>3. Shape' /\ Hooks'
    BY <1>1, <1>2, <1>4, <2>2 DEF Shape, Hooks
  <2>4. Untouched'
    BY <1>1, <1>2, <1>5, <2>2 DEF Untouched, Program
  <2>5. Sessions' /\ Suspended' /\ WatchdogHeld'
    BY <1>1, <1>2, <2>2 DEF Sessions, ContextValid, Stopped, Suspended, WatchdogHeld
  <2>6. BitAsked'
    BY <1>1, <1>2, <2>2 DEF BitAsked
  <2>7. StepsAsked'
    BY <1>1, <1>2, <1>4, <2>2 DEF StepsAsked, Stepping
  <2>8. StepPending'
    BY <1>1, <1>2, <1>7, <2>2 DEF StepPending
  <2> QED BY <2>3, <2>4, <2>5, <2>6, <2>7, <2>8 DEF ExecInv
<1> QED BY <1>6, <1>7

LEMMA ExecException == ASSUME ExecInv, OpFaults \/ ExecuteBreak PROVE ExecInv'
<1>1. /\ Shape /\ Untouched /\ BitAsked /\ StepsAsked
      /\ Running /\ stack = <<>> /\ ~dead
      /\ cpu' = cpu /\ owed' = owed /\ UNCHANGED <<agentVars, caller, mode>>
  BY DEF ExecInv, OpFaults, ExecuteBreak, Running, history
<1>2. cpu \in Ctx /\ (hooked = {} /\ ~ended => cpu.rip \in Program)
  BY <1>1 DEF Shape, Untouched
<1>3. /\ MDSCR_SS => 1 \in owed'
      /\ Arch = "X64" /\ cpu.eflags = 1 => 1 \in owed'
  BY <1>1 DEF BitAsked, StepsAsked, Stepping
<1>4. CASE OpFaults
  <2>1. Exception("fault", cpu)
    BY <1>4 DEF OpFaults
  <2> QED BY <1>1, <1>2, <1>3, <2>1, ProgramException
<1>5. CASE ExecuteBreak
  <2> DEFINE saved == [cpu EXCEPT !.rip = SavedAt(@)]
  <2>1. Exception("break", saved)
    BY <1>5 DEF ExecuteBreak
  <2>2. saved \in Ctx /\ saved.eflags = cpu.eflags
    BY <1>2 DEF Ctx, SavedAt
  <2> HIDE DEF saved
  <2> QED BY <1>1, <1>2, <1>3, <2>1, <2>2, ProgramException
<1> QED BY <1>4, <1>5

LEMMA ExecInitializeAgent == ASSUME ExecInv, InitializeAgent PROVE ExecInv'
<1>1. /\ Shape /\ Hooks /\ Untouched /\ Sessions /\ Suspended /\ WatchdogHeld
      /\ BitAsked /\ StepsAsked
      /\ UNCHANGED <<MDSCR_SS, session, inserted, dead, mode, ran, owed>>
  BY DEF ExecInv, InitializeAgent
<1>2. ~called /\ called' = TRUE /\ UNCHANGED <<build, ended>>
  BY DEF InitializeAgent, StaysOff, InitializeRefused, InitializeDone
<1>3. /\ hooked = {} /\ stack = <<>> /\ mode = "continue" /\ ~dead /\ ~mDebuggerInitialized
  BY <1>1, <1>2 DEF Hooks, Untouched
<1>4. /\ build' = build /\ ended' = ended /\ Arch' = Arch /\ Vectors' = Vectors
      /\ stack' = <<>> /\ gRunning' = gRunning /\ gSystemContext' = gSystemContext
      /\ watchdog' = watchdog /\ MDSCR_SS' = MDSCR_SS /\ dead' = dead /\ owed' = owed
      /\ mode' = mode
  BY <1>1, <1>2, <1>3 DEF Arch, Vectors, FirstTypes, Types, session
<1>5. /\ cpu' \in Ctx /\ cpu'.eflags = cpu.eflags /\ caller' \in Int
  <2>1. CASE UNCHANGED <<cpu, caller, expect>>
    BY <1>1, <2>1 DEF Shape
  <2>2. CASE DebuggerBreak
    <3>1. Break \in Int /\ cpu \in Ctx
      BY <1>1, ProgramAssumption DEF Break, Shape
    <3> QED BY <2>2, <3>1 DEF DebuggerBreak, Ctx
  <2> QED BY <2>1, <2>2 DEF InitializeAgent
<1>6. /\ mDebuggerInitialized' \in BOOLEAN
      /\ \/ hooked' = {} /\ ~mDebuggerInitialized' /\ cpu' = cpu
         \/ hooked' = Vectors
  <2>1. CASE StaysOff /\ UNCHANGED <<cpu, caller, expect>>
    BY <1>1, <1>3, <2>1 DEF StaysOff, Shape
  <2>2. CASE InitializeRefused /\ UNCHANGED <<cpu, caller, expect>>
    <3>1. PICK k \in 1 .. Len(Types) : hooked' = DebugAgentExceptionInitialize(hooked, k)
      BY <2>2 DEF InitializeRefused
    <3>2. k # 0 /\ k - 1 \in Int /\ 1 .. k - 1 \subseteq 1 .. Len(Types)
      <4>1. Len(Types) \in Nat
        <5>1. Arch \in Architectures
          BY <1>1, BuildAssumption DEF Shape, Arch
        <5> QED BY <5>1, BuildAssumption DEF Types
      <4> QED BY <4>1
    <3>3. FirstTypes(k - 1) \subseteq Vectors
      BY <3>2 DEF FirstTypes, Vectors
    <3>4. hooked' = {}
      BY <1>3, <3>1, <3>2, <3>3 DEF DebugAgentExceptionInitialize, DebugAgentExceptionDestroy
    <3> QED BY <1>1, <1>3, <2>2, <3>4 DEF InitializeRefused, Shape
  <2>3. CASE InitializeDone
    <3>1. hooked' = Vectors
      BY <1>3, <2>3 DEF InitializeDone, DebugAgentExceptionInitialize, DebugAgentExceptionDestroy
    <3> QED BY <2>3, <3>1 DEF InitializeDone
  <2> QED BY <2>1, <2>2, <2>3 DEF InitializeAgent
<1>7. Shape'
  <2>1. stack' \in Seq(Frame) /\ Len(stack') \in 0 .. 2
    BY <1>1, <1>3, <1>4 DEF Shape
  <2> QED BY <1>1, <1>2, <1>4, <1>5, <1>6, <2>1 DEF Shape
<1>8. Hooks'
  BY <1>1, <1>2, <1>3, <1>4, <1>6 DEF Hooks
<1>9. Vectors # {}
  BY <1>1, AllHandled
<1>10. Untouched'
  BY <1>1, <1>2, <1>3, <1>4, <1>6, <1>9 DEF Untouched, Program
<1>11. Sessions' /\ Suspended' /\ WatchdogHeld'
  BY <1>1, <1>3, <1>4 DEF Sessions, ContextValid, Stopped, Suspended, WatchdogHeld
<1>12. BitAsked' /\ StepsAsked'
  BY <1>1, <1>3, <1>4, <1>5 DEF BitAsked, StepsAsked, Stepping
<1>13. StepPending'
  BY <1>3, <1>4 DEF StepPending
<1> QED BY <1>7, <1>8, <1>10, <1>11, <1>12, <1>13 DEF ExecInv

LEMMA ExecPollInput == ASSUME ExecInv, PollInput PROVE ExecInv'
<1>1. /\ Shape /\ Hooks /\ Untouched /\ Sessions /\ Suspended /\ WatchdogHeld
      /\ BitAsked /\ StepsAsked /\ StepPending
      /\ Running /\ called /\ stack = <<>> /\ ~Stepping(cpu) /\ mDebuggerInitialized
      /\ UNCHANGED <<agentVars, MDSCR_SS, session, inserted, dead, mode, ran, owed>>
  BY DEF ExecInv, PollInput, Running, Polls
<1>2. /\ build' = build /\ called' = called /\ mDebuggerInitialized' = mDebuggerInitialized
      /\ hooked' = hooked /\ ended' = ended /\ mode' = mode
      /\ Arch' = Arch /\ Vectors' = Vectors
      /\ stack' = stack /\ gRunning' = gRunning /\ gSystemContext' = gSystemContext
      /\ watchdog' = watchdog /\ MDSCR_SS' = MDSCR_SS /\ dead' = dead /\ owed' = owed
      /\ ran' = ran
  BY <1>1 DEF agentVars, Arch, Vectors, FirstTypes, Types, session
<1>3. cpu' \in Ctx /\ cpu'.eflags = cpu.eflags /\ caller' \in Int
  <2>1. Break \in Int /\ cpu \in Ctx
    BY <1>1, ProgramAssumption DEF Break, Shape
  <2> QED BY <2>1 DEF PollInput, DebuggerBreak, Ctx
<1>4. Shape' /\ Hooks'
  BY <1>1, <1>2, <1>3 DEF Shape, Hooks
<1>5. Vectors # {}
  BY <1>1, AllHandled
<1>6. Untouched'
  BY <1>1, <1>2, <1>5 DEF Untouched, Hooks
<1>7. Sessions' /\ Suspended' /\ WatchdogHeld'
  BY <1>1, <1>2 DEF Sessions, ContextValid, Stopped, Suspended, WatchdogHeld
<1>8. BitAsked' /\ StepsAsked'
  BY <1>1, <1>2, <1>3 DEF BitAsked, StepsAsked, Stepping
<1>9. StepPending'
  BY <1>1, <1>2 DEF StepPending
<1> QED BY <1>4, <1>6, <1>7, <1>8, <1>9 DEF ExecInv

LEMMA ExecEndAgent == ASSUME ExecInv, EndAgent PROVE ExecInv'
<1>1. /\ Shape /\ Hooks /\ Untouched /\ Sessions /\ Suspended /\ WatchdogHeld
      /\ BitAsked /\ StepsAsked
      /\ called /\ stack = <<>> /\ ended' = TRUE
      /\ UNCHANGED <<build, called, mDebuggerInitialized>>
      /\ UNCHANGED <<cpu, MDSCR_SS, session, inserted, caller, dead, history>>
  BY DEF ExecInv, EndAgent, InitializeZero, Running
<1>2. /\ build' = build /\ called' = called /\ mDebuggerInitialized' = mDebuggerInitialized
      /\ mode' = mode /\ cpu' = cpu /\ caller' = caller
      /\ Arch' = Arch /\ Vectors' = Vectors
      /\ stack' = stack /\ gRunning' = gRunning /\ gSystemContext' = gSystemContext
      /\ watchdog' = watchdog /\ MDSCR_SS' = MDSCR_SS /\ dead' = dead /\ owed' = owed
  BY <1>1 DEF history, Arch, Vectors, FirstTypes, Types, session
<1>3. hooked' = {}
  BY <1>1 DEF EndAgent, InitializeZero, DebugAgentExceptionDestroy, Hooks
<1>4. Vectors # {}
  BY <1>1, AllHandled
<1>5. Shape'
  BY <1>1, <1>2 DEF Shape
<1>6. Hooks' /\ Untouched'
  BY <1>1, <1>2, <1>3 DEF Hooks, Untouched
<1>7. Sessions' /\ Suspended' /\ WatchdogHeld'
  BY <1>1, <1>2 DEF Sessions, ContextValid, Stopped, Suspended, WatchdogHeld
<1>8. BitAsked' /\ StepsAsked'
  BY <1>1, <1>2 DEF BitAsked, StepsAsked, Stepping
<1>9. StepPending'
  BY <1>2, <1>3, <1>4 DEF StepPending
<1> QED BY <1>5, <1>6, <1>7, <1>8, <1>9 DEF ExecInv

LEMMA ExecProcessBreakpoint == ASSUME ExecInv, ProcessBreakpoint PROVE ExecInv'
<1>1. /\ Shape /\ Hooks /\ Untouched /\ Sessions /\ Suspended /\ WatchdogHeld
      /\ BitAsked /\ StepsAsked /\ Stopped
      /\ UNCHANGED <<agentVars, cpu, MDSCR_SS, session, caller, dead, history>>
  BY DEF ExecInv, ProcessBreakpoint
<1>2. /\ build' = build /\ called' = called /\ mDebuggerInitialized' = mDebuggerInitialized
      /\ hooked' = hooked /\ ended' = ended
      /\ mode' = mode /\ cpu' = cpu /\ caller' = caller
      /\ Arch' = Arch /\ Vectors' = Vectors
      /\ stack' = stack /\ gRunning' = gRunning /\ gSystemContext' = gSystemContext
      /\ watchdog' = watchdog /\ MDSCR_SS' = MDSCR_SS /\ dead' = dead /\ owed' = owed
  BY <1>1 DEF agentVars, history, Arch, Vectors, FirstTypes, Types, session
<1>3. Shape' /\ Hooks'
  BY <1>1, <1>2 DEF Shape, Hooks
<1>4. Untouched'
  BY <1>1, <1>2 DEF Untouched, Program
<1>5. Sessions' /\ Suspended' /\ WatchdogHeld'
  BY <1>1, <1>2 DEF Sessions, ContextValid, Stopped, Suspended, WatchdogHeld
<1>6. BitAsked' /\ StepsAsked'
  BY <1>1, <1>2 DEF BitAsked, StepsAsked, Stepping
<1>7. StepPending'
  BY <1>1, <1>2 DEF StepPending, Stopped
<1> QED BY <1>3, <1>4, <1>5, <1>6, <1>7 DEF ExecInv

\* A context replaced within the innermost frame.
LEMMA FrameChanged ==
    ASSUME Shape, NEW g \in 1 .. Len(stack), NEW ctx \in Ctx,
           stack' = [stack EXCEPT ![g].ctx = ctx]
    PROVE  /\ stack' \in Seq(Frame) /\ Len(stack') = Len(stack) /\ stack' # <<>>
           /\ stack'[g].ctx = ctx
           /\ \A d \in 1 .. Len(stack) : d # g => stack'[d].ctx = stack[d].ctx
           /\ \A d \in 1 .. Len(stack) : stack'[d].WatchdogState = stack[d].WatchdogState
<1>1. stack \in Seq(Frame) /\ Len(stack) \in 0 .. 2
  BY DEF Shape
<1>2. /\ [stack[g] EXCEPT !.ctx = ctx] \in Frame
      /\ [stack[g] EXCEPT !.ctx = ctx].ctx = ctx
      /\ [stack[g] EXCEPT !.ctx = ctx].WatchdogState = stack[g].WatchdogState
  <2>1. stack[g] \in Frame
    BY <1>1
  <2> QED BY <2>1 DEF Frame
<1>3. PICK f \in Frame : /\ stack' = [stack EXCEPT ![g] = f]
                         /\ f.ctx = ctx /\ f.WatchdogState = stack[g].WatchdogState
  BY <1>2
<1>4. stack' \in Seq(Frame) /\ Len(stack') = Len(stack)
  BY <1>1, <1>3
<1>5. stack'[g] = f /\ \A d \in 1 .. Len(stack) : d # g => stack'[d] = stack[d]
  BY <1>1, <1>3
<1>6. stack' # <<>>
  <2>1. Len(stack') = 1 \/ Len(stack') = 2
    BY <1>1, <1>4
  <2> QED BY <2>1, NotEmpty
<1> QED BY <1>3, <1>4, <1>5, <1>6

LEMMA ExecWriteContext ==
    ASSUME ExecInv, Stopped, NEW ctx \in Ctx, WriteContext(ctx)
    PROVE  ExecInv'
<1>1. /\ Shape /\ Hooks /\ Untouched /\ Sessions /\ Suspended /\ WatchdogHeld
      /\ BitAsked /\ StepsAsked /\ stack # <<>> /\ ~gRunning
      /\ stack' = [stack EXCEPT ![gSystemContext].ctx = ctx]
      /\ owed' = IF ctx.eflags = 1 THEN owed \cup {gSystemContext} ELSE owed
      /\ UNCHANGED <<agentVars, cpu, MDSCR_SS, gRunning, gSystemContext, watchdog, inserted,
                     caller, dead, mode, ran>>
  BY DEF ExecInv, WriteContext, Stopped
<1>2. /\ build' = build /\ called' = called /\ mDebuggerInitialized' = mDebuggerInitialized
      /\ hooked' = hooked /\ ended' = ended
      /\ mode' = mode /\ cpu' = cpu /\ caller' = caller
      /\ Arch' = Arch /\ Vectors' = Vectors
      /\ gRunning' = gRunning /\ gSystemContext' = gSystemContext
      /\ watchdog' = watchdog /\ MDSCR_SS' = MDSCR_SS /\ dead' = dead
  BY <1>1 DEF agentVars, Arch, Vectors, FirstTypes, Types
<1>3. gSystemContext = Len(stack) /\ gSystemContext \in 1 .. Len(stack)
  <2>1. gSystemContext = Len(stack)
    BY DEF ExecInv, Sessions, ContextValid
  <2>2. Len(stack) # 0
    BY <1>1 DEF Shape
  <2> QED BY <1>1, <2>1, <2>2 DEF Shape
<1>4. /\ stack' \in Seq(Frame) /\ Len(stack') = Len(stack) /\ stack' # <<>>
      /\ stack'[gSystemContext].ctx = ctx
      /\ \A d \in 1 .. Len(stack) : d # gSystemContext => stack'[d].ctx = stack[d].ctx
      /\ \A d \in 1 .. Len(stack) : stack'[d].WatchdogState = stack[d].WatchdogState
  BY <1>1, <1>3, FrameChanged
<1>5. Shape' /\ Hooks'
  BY <1>1, <1>2, <1>4 DEF Shape, Hooks
<1>6. Untouched'
  BY <1>1, <1>2, <1>4 DEF Untouched, Program
<1>7. Sessions'
  BY <1>1, <1>2, <1>3, <1>4 DEF Sessions, ContextValid, Stopped
<1>8. Suspended' /\ WatchdogHeld'
  BY <1>1, <1>2, <1>4 DEF Suspended, WatchdogHeld, Shape
<1>9. owed \subseteq owed' /\ (ctx.eflags = 1 => gSystemContext \in owed')
  BY <1>1
<1>10. BitAsked'
  BY <1>1, <1>2, <1>9 DEF BitAsked
<1>11. StepsAsked'
  <2> SUFFICES ASSUME Arch = "X64", NEW d \in 1 .. Len(stack), stack'[d].ctx.eflags = 1
               PROVE  d \in owed'
    BY <1>2, <1>4 DEF StepsAsked
  <2>1. CASE d = gSystemContext
    BY <1>4, <1>9, <2>1
  <2>2. CASE d # gSystemContext
    BY <1>1, <1>4, <1>9, <2>2 DEF StepsAsked
  <2> QED BY <2>1, <2>2
<1>12. StepPending'
  BY <1>1, <1>2 DEF StepPending
<1> QED BY <1>5, <1>6, <1>7, <1>8, <1>10, <1>11, <1>12 DEF ExecInv

\* Whatever a packet holds, G and P leave a context of integers.
LEMMA RegistersWrite ==
    ASSUME ExecInv, WriteRegisters \/ WriteOneRegister
    PROVE  Stopped /\ \E ctx \in Ctx : WriteContext(ctx)
<1>1. Stopped
  BY DEF WriteRegisters, WriteOneRegister
<1>2. Shape /\ gSystemContext = Len(stack) /\ Len(stack) \in 1 .. 2
  <2>1. stack # <<>> /\ Shape /\ gSystemContext = Len(stack)
    BY <1>1 DEF ExecInv, Sessions, ContextValid, Stopped
  <2>2. Len(stack) # 0
    BY <2>1 DEF Shape
  <2> QED BY <2>1, <2>2 DEF Shape
<1>3. stack[gSystemContext].ctx \in Ctx
  <2>1. stack[gSystemContext] \in Frame
    BY <1>2 DEF Shape
  <2> QED BY <2>1 DEF Frame
<1>4. CASE WriteRegisters
  <2>1. PICK d \in Packets(stack[gSystemContext].ctx) :
             WriteContext(WriteGeneralRegisters(stack[gSystemContext].ctx, d).ctx)
    BY <1>4 DEF WriteRegisters
  <2>2. d \in Seq(Nat)
    BY <2>1 DEF Packets
  <2>3. WriteGeneralRegisters(stack[gSystemContext].ctx, d).ctx \in Ctx
    BY <1>3, <2>2, GeneralRegistersWritten
  <2> QED BY <1>1, <2>1, <2>3
<1>5. CASE WriteOneRegister
  <2> DEFINE Values(i) == IF i > gRegisterCount THEN {0}
                          ELSE CASE gRegisterOffsets[i].name = "rip"    -> Targets
                                 [] gRegisterOffsets[i].name = "eflags" -> IF Arch = "X64" THEN {0, 1} ELSE {0}
                                 [] OTHER                               -> {0}
  <2>1. PICK i \in 1 .. gRegisterCount + 1 : \E v \in Values(i) :
             WriteContext(WriteRegister(stack[gSystemContext].ctx, i - 1, <<v>>).ctx)
    BY <1>5 DEF WriteOneRegister
  <2>2. PICK v \in Values(i) :
             WriteContext(WriteRegister(stack[gSystemContext].ctx, i - 1, <<v>>).ctx)
    BY <2>1
  <2>3. Targets \subseteq Int
    BY ProgramAssumption DEF Targets, Program, After
  <2>4. v \in Int
    BY <2>2, <2>3
  <2>5. gRegisterCount \in Nat /\ i - 1 \in Nat
    BY <2>1, RegisterAssumption DEF gRegisterCount
  <2>6. WriteRegister(stack[gSystemContext].ctx, i - 1, <<v>>).ctx \in Ctx
    BY <1>3, <2>4, <2>5, OneRegisterWritten
  <2> QED BY <1>1, <2>2, <2>6
<1> QED BY <1>1, <1>4, <1>5

LEMMA ExecWriteRegisters == ASSUME ExecInv, WriteRegisters \/ WriteOneRegister PROVE ExecInv'
<1>1. PICK ctx \in Ctx : Stopped /\ WriteContext(ctx)
  BY RegistersWrite
<1> QED BY <1>1, ExecWriteContext

LEMMA ExecResume == ASSUME ExecInv, NEW m \in {"continue", "step"}, Resume(m) PROVE ExecInv'
<1>1. /\ Shape /\ Hooks /\ Untouched /\ Sessions /\ Suspended /\ WatchdogHeld
      /\ BitAsked /\ StepsAsked /\ stack # <<>> /\ ~gRunning
      /\ gRunning' = TRUE /\ mode' = m /\ ran' = 0
      /\ UNCHANGED <<agentVars, cpu, gSystemContext, watchdog, inserted, caller, dead, expect>>
  BY DEF ExecInv, Resume, Stopped
<1>2. /\ build' = build /\ called' = called /\ mDebuggerInitialized' = mDebuggerInitialized
      /\ hooked' = hooked /\ ended' = ended /\ cpu' = cpu /\ caller' = caller
      /\ Arch' = Arch /\ Vectors' = Vectors
      /\ gSystemContext' = gSystemContext /\ watchdog' = watchdog /\ dead' = dead
  BY <1>1 DEF agentVars, Arch, Vectors, FirstTypes, Types
<1>3. gSystemContext = Len(stack) /\ gSystemContext \in 1 .. Len(stack)
  <2>1. gSystemContext = Len(stack)
    BY DEF ExecInv, Sessions, ContextValid, Resume
  <2>2. Len(stack) # 0
    BY <1>1 DEF Shape
  <2> QED BY <1>1, <2>1, <2>2 DEF Shape
<1>4. CASE m = "continue"
  <2>1. stack' = stack /\ MDSCR_SS' = MDSCR_SS /\ owed' = owed
    BY <1>4 DEF Resume
  <2>2. Shape' /\ Hooks'
    BY <1>1, <1>2, <2>1 DEF Shape, Hooks
  <2>3. Untouched'
    BY <1>1, <1>2, <2>1 DEF Untouched, Program
  <2>4. Sessions' /\ Suspended' /\ WatchdogHeld'
    BY <1>1, <1>2, <2>1 DEF Sessions, ContextValid, Stopped, Suspended, WatchdogHeld
  <2>5. BitAsked' /\ StepsAsked'
    BY <1>1, <1>2, <2>1 DEF BitAsked, StepsAsked
  <2>6. StepPending'
    BY <1>1, <1>4 DEF StepPending
  <2> QED BY <2>2, <2>3, <2>4, <2>5, <2>6 DEF ExecInv
<1>5. CASE m = "step"
  <2> DEFINE old == stack[gSystemContext].ctx
  <2>1. old \in Ctx
    <3>1. stack[gSystemContext] \in Frame
      BY <1>1, <1>3 DEF Shape
    <3> QED BY <3>1 DEF Frame
  <2>2. /\ stack' = [stack EXCEPT ![gSystemContext].ctx = AddSingleStep(old)]
        /\ MDSCR_SS' = (MDSCR_SS \/ Arch = "AARCH64")
        /\ owed' = owed \cup {gSystemContext}
    BY <1>5 DEF Resume
  <2>3. /\ AddSingleStep(old) \in Ctx
        /\ Arch = "X64" => AddSingleStep(old).eflags = 1
    BY <2>1 DEF AddSingleStep, Ctx
  <2>4. PICK new \in Ctx : /\ new = AddSingleStep(old)
                           /\ stack' = [stack EXCEPT ![gSystemContext].ctx = new]
                           /\ Arch = "X64" => new.eflags = 1
    BY <2>2, <2>3
  <2>5. /\ stack' \in Seq(Frame) /\ Len(stack') = Len(stack) /\ stack' # <<>>
        /\ stack'[gSystemContext].ctx = new
        /\ \A d \in 1 .. Len(stack) : d # gSystemContext => stack'[d].ctx = stack[d].ctx
        /\ \A d \in 1 .. Len(stack) : stack'[d].WatchdogState = stack[d].WatchdogState
    BY <1>1, <1>3, <2>4, FrameChanged
  <2> HIDE DEF old
  <2>6. MDSCR_SS' \in BOOLEAN
    BY <2>2
  <2>7. Shape' /\ Hooks'
    BY <1>1, <1>2, <2>5, <2>6 DEF Shape, Hooks
  <2>8. Untouched'
    <3>1. called /\ (hooked = {} => ended)
      BY <1>1 DEF Untouched
    <3> QED BY <1>2, <3>1 DEF Untouched
  <2>9. Sessions' /\ Suspended' /\ WatchdogHeld'
    <3>1. Sessions'
      BY <1>1, <1>2, <1>3, <2>5 DEF Sessions, ContextValid, Stopped
    <3>2. Suspended' /\ WatchdogHeld'
      BY <1>1, <1>2, <2>5 DEF Suspended, WatchdogHeld, Shape
    <3> QED BY <3>1, <3>2
  <2>10. Arch = "AARCH64" => gSystemContext = 1
    BY <1>1, <1>3 DEF Sessions, Shape
  <2>11. Arch = "X64" \/ Arch = "AARCH64"
    BY <1>1, BuildAssumption DEF Shape, Arch, Architectures
  <2>12. BitAsked'
    BY <1>1, <1>2, <2>2, <2>10, <2>11 DEF BitAsked, Shape
  <2>13. StepsAsked'
    <3> SUFFICES ASSUME Arch = "X64", NEW d \in 1 .. Len(stack), stack'[d].ctx.eflags = 1
                 PROVE  d \in owed'
      BY <1>2, <2>5 DEF StepsAsked
    <3>1. CASE d = gSystemContext
      BY <2>2, <3>1
    <3>2. CASE d # gSystemContext
      BY <1>1, <2>2, <2>5, <3>2 DEF StepsAsked
    <3> QED BY <3>1, <3>2
  <2>14. StepPending'
    <3>1. Top'.ctx = new
      BY <1>3, <2>5 DEF Top
    <3>2. (Stepping(Top.ctx))'
      BY <1>2, <2>2, <2>4, <2>11, <3>1 DEF Stepping
    <3> QED BY <1>1, <2>5, <3>2 DEF StepPending
  <2> QED BY <2>7, <2>8, <2>9, <2>12, <2>13, <2>14 DEF ExecInv
<1> QED BY <1>4, <1>5

LEMMA ExecCommandFaults == ASSUME ExecInv, CommandFaults PROVE ExecInv'
<1> DEFINE ctx == [rip |-> Faulty, eflags |-> 0, rax |-> 0]
<1>1. /\ Shape /\ Hooks /\ Untouched /\ Sessions /\ Suspended /\ WatchdogHeld
      /\ BitAsked /\ StepsAsked /\ stack # <<>> /\ ~gRunning
      /\ Arch = "X64" /\ Len(stack) = 1 /\ Handle(stack, "fault", ctx)
      /\ UNCHANGED <<agentVars, cpu, inserted, caller, dead, history>>
  BY DEF ExecInv, CommandFaults, Stopped
<1>2. /\ build' = build /\ called' = called /\ mDebuggerInitialized' = mDebuggerInitialized
      /\ hooked' = hooked /\ ended' = ended
      /\ mode' = mode /\ cpu' = cpu /\ caller' = caller
      /\ Arch' = Arch /\ Vectors' = Vectors /\ dead' = dead /\ owed' = owed
  BY <1>1 DEF agentVars, history, Arch, Vectors, FirstTypes, Types
<1>3. ctx \in Ctx /\ ctx.eflags = 0
  BY ProgramAssumption DEF Ctx, Faulty
<1> HIDE DEF ctx
<1>4. stack \in Seq(Frame) /\ stack = <<stack[1]>>
  BY <1>1 DEF Shape
<1>5. /\ stack' \in Seq(Frame) /\ Len(stack') = 2 /\ stack' # <<>>
      /\ stack'[1] = stack[1] /\ stack'[2].ctx = Entered("fault", ctx)
      /\ stack'[2].WatchdogState = watchdog
      /\ ~watchdog' /\ ~gRunning' /\ gSystemContext' = 2
      /\ MDSCR_SS' \in BOOLEAN /\ (MDSCR_SS' <=> MDSCR_SS)
      /\ watchdog' \in BOOLEAN /\ gRunning' \in BOOLEAN
  BY <1>1, <1>3, <1>4, HandleOpens
<1>6. ~watchdog
  BY <1>1 DEF WatchdogHeld
<1>7. Shape'
  BY <1>1, <1>2, <1>5 DEF Shape
<1>8. Hooks' /\ Untouched'
  BY <1>1, <1>2 DEF Hooks, Untouched
<1>9. Sessions' /\ Suspended' /\ WatchdogHeld'
  BY <1>1, <1>2, <1>5, <1>6 DEF Sessions, ContextValid, Stopped, Suspended, WatchdogHeld
<1>10. BitAsked'
  BY <1>1, <1>2, <1>5 DEF BitAsked
<1>11. StepsAsked'
  <2>1. stack'[2].ctx.eflags = 0
    BY <1>1, <1>3, <1>5, HandlerContext
  <2>2. stack[1].ctx.eflags = 1 => 1 \in owed
    BY <1>1 DEF StepsAsked
  <2>3. 1 .. Len(stack') = {1, 2}
    BY <1>5
  <2>4. \A d \in 1 .. Len(stack') : stack'[d].ctx.eflags = 1 => d \in owed'
    BY <1>2, <1>5, <2>1, <2>2, <2>3
  <2> QED BY <1>5, <2>4 DEF StepsAsked
<1>12. StepPending'
  BY <1>5 DEF StepPending
<1> QED BY <1>7, <1>8, <1>9, <1>10, <1>11, <1>12 DEF ExecInv

LEMMA ExecLeaveSession == ASSUME ExecInv, LeaveSession PROVE ExecInv'
<1>1. /\ Shape /\ Hooks /\ Untouched /\ Sessions /\ Suspended /\ WatchdogHeld
      /\ BitAsked /\ StepsAsked /\ StepPending /\ Len(stack) = 1 /\ gRunning
      /\ cpu' = Left(Top.type, Top.ctx) /\ stack' = <<>> /\ watchdog' = Resumed(Top)
      /\ UNCHANGED <<agentVars, MDSCR_SS, gRunning, gSystemContext, inserted, caller, dead,
                     mode, ran, owed>>
  BY DEF ExecInv, LeaveSession, history
<1>2. /\ build' = build /\ called' = called /\ mDebuggerInitialized' = mDebuggerInitialized
      /\ hooked' = hooked /\ ended' = ended
      /\ mode' = mode /\ ran' = ran /\ caller' = caller
      /\ Arch' = Arch /\ Vectors' = Vectors /\ dead' = dead /\ owed' = owed
      /\ MDSCR_SS' = MDSCR_SS /\ gRunning' = gRunning /\ gSystemContext' = gSystemContext
  BY <1>1 DEF agentVars, Arch, Vectors, FirstTypes, Types
<1>3. Top = stack[1] /\ Top \in Frame /\ stack # <<>>
  BY <1>1, NotEmpty DEF Top, Shape
<1>4. Top.type \in {"step", "break", "fault"} /\ Top.ctx \in Ctx
  BY <1>3 DEF Frame
<1>5. cpu' \in Ctx /\ cpu'.eflags = stack[1].ctx.eflags
  BY <1>1, <1>3, <1>4, HandlerContext
<1>6. watchdog' = TRUE
  BY <1>1, <1>3 DEF Resumed, Suspended, Frame
<1>7. stack' \in Seq(Frame) /\ Len(stack') = 0
  BY <1>1
<1>8. Shape'
  BY <1>1, <1>2, <1>5, <1>6, <1>7 DEF Shape
<1>9. Hooks' /\ Untouched'
  BY <1>1, <1>2, <1>3 DEF Hooks, Untouched
<1>10. Sessions' /\ Suspended' /\ WatchdogHeld'
  BY <1>1, <1>2, <1>6, <1>7 DEF Sessions, ContextValid, Stopped, Suspended, WatchdogHeld
<1>11. BitAsked'
  BY <1>1, <1>2 DEF BitAsked
<1>12. Arch = "X64" \/ Arch = "AARCH64"
  BY <1>1, BuildAssumption DEF Shape, Arch, Architectures
<1>13. StepsAsked'
  <2>1. Arch = "X64" /\ cpu'.eflags = 1 => 1 \in owed
    <3>1. 1 \in 1 .. Len(stack)
      BY <1>1
    <3> QED BY <1>1, <1>5, <3>1 DEF StepsAsked
  <2>2. Arch = "AARCH64" /\ MDSCR_SS /\ ~dead => 1 \in owed
    BY <1>1 DEF BitAsked
  <2> QED BY <1>2, <1>7, <1>12, <2>1, <2>2 DEF StepsAsked, Stepping
<1>14. StepPending'
  <2>1. mode = "step" /\ hooked = Vectors => ran = 0 /\ Stepping(Top.ctx)
    BY <1>1, <1>3 DEF StepPending
  <2>2. Stepping(Top.ctx) => Stepping(cpu)'
    BY <1>2, <1>3, <1>5 DEF Stepping
  <2> QED BY <1>1, <1>2, <2>1, <2>2 DEF StepPending
<1> QED BY <1>8, <1>9, <1>10, <1>11, <1>13, <1>14 DEF ExecInv

LEMMA ExecLeaveNested == ASSUME ExecInv, LeaveNested PROVE ExecInv'
<1> DEFINE ctx == Left(Top.type, Top.ctx)
           below == <<stack[1]>>
<1>1. /\ Shape /\ Hooks /\ Untouched /\ Sessions /\ Suspended /\ WatchdogHeld
      /\ BitAsked /\ StepsAsked /\ StepPending /\ Len(stack) = 2 /\ gRunning
      /\ UNCHANGED <<agentVars, cpu, inserted, caller, dead, expect, mode, ran>>
  BY DEF ExecInv, LeaveNested
<1>2. /\ build' = build /\ called' = called /\ mDebuggerInitialized' = mDebuggerInitialized
      /\ hooked' = hooked /\ ended' = ended
      /\ mode' = mode /\ ran' = ran /\ caller' = caller /\ cpu' = cpu
      /\ Arch' = Arch /\ Vectors' = Vectors /\ dead' = dead
  BY <1>1 DEF agentVars, Arch, Vectors, FirstTypes, Types
<1>3. Top = stack[2] /\ Top \in Frame /\ stack[1] \in Frame /\ stack # <<>>
  BY <1>1, NotEmpty DEF Top, Shape
<1>4. Top.type \in {"step", "break", "fault"} /\ Top.ctx \in Ctx
  BY <1>3 DEF Frame
<1>5. ctx \in Ctx /\ ctx.eflags = stack[2].ctx.eflags
  BY <1>3, <1>4, HandlerContext
<1>6. Arch = "X64" /\ ~watchdog /\ ~stack[2].WatchdogState /\ stack[1].WatchdogState
  BY <1>1, <1>3 DEF Sessions, WatchdogHeld, Suspended
<1>7. /\ stack[1].ctx.eflags = 1 => 1 \in owed
      /\ stack[2].ctx.eflags = 1 => 2 \in owed
  BY <1>1, <1>6 DEF StepsAsked
<1>8. /\ below \in Seq(Frame) /\ below # <<>> /\ Len(below) = 1 /\ below[1] = stack[1]
  BY <1>3
<1>9. Hooks'
  BY <1>1, <1>2 DEF Hooks
<1>10. Untouched'
  BY <1>1, <1>2, <1>3 DEF Untouched
<1>11. ~MDSCR_SS
  BY <1>1, <1>6 DEF BitAsked
<1>12. ASSUME NEW type \in {"fault", "step"}, Handle(below, type, ctx),
              1 \in owed => 1 \in owed',
              type = "fault" => owed' = owed
       PROVE  ExecInv'
  <2>1. /\ stack' \in Seq(Frame) /\ Len(stack') = 2 /\ stack' # <<>>
        /\ stack'[1] = stack[1] /\ stack'[2].ctx = Entered(type, ctx)
        /\ stack'[2].WatchdogState = watchdog
        /\ ~watchdog' /\ ~gRunning' /\ gSystemContext' = 2
        /\ MDSCR_SS' \in BOOLEAN /\ (MDSCR_SS' <=> MDSCR_SS /\ type # "step")
        /\ watchdog' \in BOOLEAN /\ gRunning' \in BOOLEAN
    <3> HIDE DEF ctx
    <3>1. below = <<>> \/ (Len(stack) >= 1 /\ below = <<stack[1]>>)
      BY <1>1
    <3> HIDE DEF below
    <3> QED BY <1>1, <1>5, <1>8, <1>12, <3>1, HandleOpens
  <2>2. Shape'
    BY <1>1, <1>2, <2>1 DEF Shape
  <2>3. Sessions' /\ Suspended' /\ WatchdogHeld'
    BY <1>2, <1>6, <2>1 DEF Sessions, ContextValid, Stopped, Suspended, WatchdogHeld
  <2>4. BitAsked'
    BY <1>11, <2>1 DEF BitAsked
  <2>5. StepsAsked'
    <3> HIDE DEF ctx
    <3>1. stack'[2].ctx.eflags = 1 => 2 \in owed'
      BY <1>5, <1>6, <1>7, <1>12, <2>1, HandlerContext
    <3>2. stack'[1].ctx.eflags = 1 => 1 \in owed'
      BY <1>7, <1>12, <2>1
    <3>3. 1 .. Len(stack') = {1, 2}
      BY <2>1
    <3>4. \A d \in 1 .. Len(stack') : stack'[d].ctx.eflags = 1 => d \in owed'
      BY <3>1, <3>2, <3>3
    <3> QED BY <2>1, <3>4 DEF StepsAsked
  <2>6. StepPending'
    BY <2>1 DEF StepPending
  <2> QED BY <1>9, <1>10, <2>2, <2>3, <2>4, <2>5, <2>6 DEF ExecInv
<1>13. CASE ctx.rip = Faulty /\ Handle(below, "fault", ctx) /\ UNCHANGED owed
  BY <1>12, <1>13
<1>14. CASE ctx.rip # Faulty /\ ctx.eflags = 1 /\ Handle(below, "step", ctx)
            /\ owed' = owed \ {2}
  BY <1>12, <1>14
<1>15. CASE /\ ctx.rip # Faulty /\ ctx.eflags = 0 /\ stack' = below
            /\ watchdog' = Resumed(Top) /\ KeepsRunning /\ owed' = owed \ {2}
            /\ UNCHANGED <<MDSCR_SS, gSystemContext>>
  <2>1. watchdog' = FALSE /\ gRunning' = gRunning /\ stack' # <<>>
    BY <1>3, <1>6, <1>8, <1>15 DEF Resumed, KeepsRunning, Frame
  <2>2. stack' \in Seq(Frame) /\ Len(stack') = 1 /\ stack'[1] = stack[1]
    BY <1>8, <1>15
  <2>3. Shape'
    <3>1. MDSCR_SS' = MDSCR_SS /\ gSystemContext' = gSystemContext
      BY <1>15
    <3>2. Len(stack') \in 0 .. 2
      BY <2>2
    <3> HIDE DEF ctx, below
    <3> QED BY <1>1, <1>2, <2>1, <2>2, <3>1, <3>2 DEF Shape
  <2>4. Sessions' /\ Suspended' /\ WatchdogHeld'
    BY <1>1, <1>2, <1>6, <2>1, <2>2 DEF Sessions, ContextValid, Stopped, Suspended, WatchdogHeld
  <2>5. BitAsked'
    BY <1>11, <1>15 DEF BitAsked
  <2>6. StepsAsked'
    <3>1. 1 .. Len(stack') = {1}
      BY <2>2
    <3>2. \A d \in 1 .. Len(stack') : stack'[d].ctx.eflags = 1 => d \in owed'
      BY <1>7, <1>15, <2>2, <3>1
    <3> QED BY <2>1, <3>2 DEF StepsAsked
  <2>7. StepPending'
    <3>1. ~(mode = "step" /\ hooked = Vectors)
      BY <1>1, <1>3, <1>5, <1>6, <1>15 DEF StepPending, Stepping
    <3> QED BY <1>2, <3>1 DEF StepPending
  <2> QED BY <1>9, <1>10, <2>3, <2>4, <2>5, <2>6, <2>7 DEF ExecInv
<1> QED BY <1>13, <1>14, <1>15 DEF LeaveNested

LEMMA ExecStutter == ASSUME ExecInv, UNCHANGED vars PROVE ExecInv'
  BY DEF vars, agentVars, session, history, ExecInv, Shape, Hooks, Untouched, Sessions,
         ContextValid, Stopped, Suspended, WatchdogHeld, BitAsked, StepsAsked, StepPending,
         Stepping, Top, Arch, Vectors, FirstTypes, Types, Program

-----------------------------------------------------------------------------
\* Where the program goes on: while it runs, and from the frame of its handler, also
\* during and after a session inside a command.  Unless there was such a session, no
\* breakpoint of the debugger is there.
GoesOn ==
    /\ (stack = <<>> /\ ~dead) => NextOp(cpu.rip) = NextOp(expect) \/ Skipped
    /\ stack # <<>> => stack[1].ctx.rip = expect /\ gSystemContext # 0
    /\ (Len(stack) = 1 /\ gSystemContext = 1 /\ gRunning) => expect \notin inserted
    /\ Len(stack) = 2 => gSystemContext = 2

\* Stepping past a breakpoint of the program loses nothing.
LEMMA LeftGoesOn ==
    ASSUME NEW type \in {"step", "break", "fault"}, NEW ctx \in Ctx, ctx.rip \notin inserted
    PROVE  NextOp(Left(type, ctx).rip) = NextOp(ctx.rip)
<1>1. CASE type = "break" /\ IsBreak(ctx.rip)
  <2>1. Left(type, ctx).rip = ctx.rip + 1
    BY <1>1 DEF Left, Ctx
  <2>2. ctx.rip \in HardBreaks \cup {Break}
    BY <1>1 DEF IsBreak
  <2>3. ctx.rip + 1 \notin HardBreaks \cup {Break}
    <3>1. Size \in Nat /\ HardBreaks \subseteq 0 .. Size - 2
      BY ProgramAssumption
    <3>2. CASE ctx.rip \in HardBreaks
      <4>1. ctx.rip + 1 \notin HardBreaks
        BY <3>2, ProgramAssumption
      <4>2. ctx.rip + 1 # Size
        <5>1. ctx.rip \in 0 .. Size - 2
          BY <3>1, <3>2
        <5> QED BY <3>1, <5>1
      <4> QED BY <4>1, <4>2 DEF Break
    <3>3. CASE ctx.rip = Break
      <4>1. ctx.rip + 1 \notin HardBreaks /\ ctx.rip + 1 # Size
        BY <3>1, <3>3 DEF Break
      <4> QED BY <4>1 DEF Break
    <3> QED BY <2>2, <3>2, <3>3
  <2> QED BY <2>1, <2>2, <2>3 DEF NextOp
<1>2. CASE ~(type = "break" /\ IsBreak(ctx.rip))
  BY <1>2 DEF Left
<1> QED BY <1>1, <1>2

\* An exception of the program: its handler has the address it was raised at.
LEMMA ExceptionGoesOn ==
    ASSUME ExecInv, Running, NEW type \in {"step", "break", "fault"}, NEW ctx \in Ctx,
           Exception(type, ctx), Entered(type, ctx).rip = expect'
    PROVE  GoesOn'
<1>1. Shape /\ stack = <<>> /\ Len(stack) = 0
  BY DEF ExecInv, Running
<1>2. CASE Vector(type) \in hooked
  <2>1. Handle(<<>>, type, ctx)
    BY <1>2 DEF Exception
  <2>2. /\ Len(stack') = 1 /\ stack' # <<>>
        /\ stack'[1].ctx = Entered(type, ctx) /\ ~gRunning' /\ gSystemContext' = 1
    <3>1. <<>> \in Seq(Frame)
      OBVIOUS
    <3> QED BY <1>1, <2>1, <3>1, HandleOpens
  <2> QED BY <2>2 DEF GoesOn, NextOp
<1>3. CASE Vector(type) \notin hooked
  <2>1. dead' = TRUE /\ stack' = <<>> /\ Len(stack') = 0
    BY <1>1, <1>3 DEF Exception, session
  <2> QED BY <2>1 DEF GoesOn
<1> QED BY <1>2, <1>3

LEMMA ExecuteOpGoesOn == ASSUME ExecInv, GoesOn, ExecuteOp PROVE GoesOn'
<1> DEFINE next == [cpu EXCEPT !.rip = NextAddress(@)]
<1>1. /\ Shape /\ Running /\ stack = <<>> /\ ~dead /\ cpu' = next /\ expect' = next.rip
  BY DEF ExecInv, ExecuteOp, Running
<1>2. next \in Ctx
  BY <1>1, ProgramAssumption DEF Shape, Ctx, NextAddress, Return
<1>3. Entered("step", next).rip = next.rip
  BY <1>2 DEF Entered, Ctx
<1> HIDE DEF next
<1>4. CASE Stepping(cpu)
  <2>1. Exception("step", next)
    BY <1>4 DEF ExecuteOp, next
  <2> QED BY <1>1, <1>2, <1>3, <2>1, ExceptionGoesOn
<1>5. CASE ~Stepping(cpu)
  <2>1. stack' = <<>> /\ Len(stack') = 0
    BY <1>1, <1>5 DEF ExecuteOp, session
  <2> QED BY <1>1, <2>1 DEF GoesOn, NextOp
<1> QED BY <1>4, <1>5

LEMMA FaultsGoOn == ASSUME ExecInv, GoesOn, OpFaults \/ ExecuteBreak PROVE GoesOn'
<1>1. Shape /\ Running /\ stack = <<>> /\ ~dead /\ cpu \in Ctx /\ expect' = cpu.rip
  BY DEF ExecInv, Shape, OpFaults, ExecuteBreak, Running
<1>2. CASE OpFaults
  <2>1. Exception("fault", cpu) /\ Entered("fault", cpu).rip = cpu.rip
    BY <1>2 DEF OpFaults, Entered
  <2> QED BY <1>1, <2>1, ExceptionGoesOn
<1>3. CASE ExecuteBreak
  <2> DEFINE ctx == [cpu EXCEPT !.rip = SavedAt(@)]
  <2>1. ctx \in Ctx
    BY <1>1 DEF Ctx, SavedAt
  <2>2. Arch = "X64" \/ Arch = "AARCH64"
    BY <1>1, BuildAssumption DEF Shape, Arch, Architectures
  <2>3. ctx.rip = SavedAt(cpu.rip)
    BY <1>1 DEF Ctx
  <2>4. Entered("break", ctx).rip = cpu.rip
    <3>1. CASE Arch = "X64"
      <4>1. Entered("break", ctx) = [ctx EXCEPT !.rip = @ - 1]
        BY <3>1 DEF Entered
      <4>2. ctx.rip = cpu.rip + 1 /\ cpu.rip \in Int
        BY <1>1, <2>3, <3>1 DEF SavedAt, Ctx
      <4> HIDE DEF ctx
      <4> QED BY <2>1, <4>1, <4>2 DEF Ctx
    <3>2. CASE Arch = "AARCH64"
      BY <2>3, <3>2 DEF Entered, SavedAt
    <3> QED BY <2>2, <3>1, <3>2
  <2>5. Exception("break", ctx)
    BY <1>3 DEF ExecuteBreak
  <2> HIDE DEF ctx
  <2> QED BY <1>1, <2>1, <2>4, <2>5, ExceptionGoesOn
<1> QED BY <1>2, <1>3

\* The actions that leave the handlers alone.
LEMMA AgentGoesOn ==
    ASSUME ExecInv, GoesOn,
           InitializeAgent \/ PollInput \/ EndAgent \/ ProcessBreakpoint \/ UNCHANGED vars
    PROVE  GoesOn'
<1>1. /\ stack' = stack /\ gRunning' = gRunning /\ gSystemContext' = gSystemContext
      /\ dead' = dead
  BY DEF InitializeAgent, PollInput, EndAgent, ProcessBreakpoint, vars, session
<1>2. CASE InitializeAgent \/ PollInput
  <2>1. stack = <<>> /\ Len(stack) = 0
    BY <1>2 DEF ExecInv, Untouched, InitializeAgent, StaysOff, InitializeRefused,
       InitializeDone, PollInput, Running
  <2>2. /\ inserted' = inserted
        /\ \/ cpu' = cpu /\ expect' = expect
           \/ cpu' = [cpu EXCEPT !.rip = Break] /\ expect' = Break
    BY <1>2 DEF InitializeAgent, PollInput, DebuggerBreak
  <2>3. cpu \in Ctx
    BY DEF ExecInv, Shape
  <2>4. [cpu EXCEPT !.rip = Break].rip = Break
    BY <2>3 DEF Ctx
  <2>5. (cpu' = cpu /\ expect' = expect) \/ cpu'.rip = expect'
    BY <2>2, <2>4
  <2> QED BY <1>1, <2>1, <2>2, <2>5 DEF GoesOn, NextOp, Skipped
<1>3. CASE EndAgent \/ ProcessBreakpoint \/ UNCHANGED vars
  <2>1. cpu' = cpu /\ expect' = expect
    BY <1>3 DEF EndAgent, ProcessBreakpoint, vars, history
  <2>2. inserted' = inserted \/ (~gRunning /\ stack # <<>>)
    BY <1>3 DEF EndAgent, ProcessBreakpoint, vars, Stopped
  <2> QED BY <1>1, <2>1, <2>2 DEF GoesOn, NextOp, Skipped
<1> QED BY <1>2, <1>3

LEMMA WriteGoesOn ==
    ASSUME ExecInv, GoesOn, Stopped, NEW ctx \in Ctx, WriteContext(ctx)
    PROVE  GoesOn'
<1>1. /\ Shape /\ ContextValid /\ stack # <<>> /\ ~gRunning
      /\ stack' = [stack EXCEPT ![gSystemContext].ctx = ctx]
      /\ gSystemContext' = gSystemContext /\ gRunning' = gRunning
      /\ expect' = IF gSystemContext = 1 /\ ctx.rip # stack[1].ctx.rip THEN ctx.rip ELSE expect
  BY DEF ExecInv, Sessions, Stopped, WriteContext
<1>2. gSystemContext = Len(stack) /\ gSystemContext \in 1 .. Len(stack)
  <2>1. gSystemContext = Len(stack)
    BY <1>1 DEF ContextValid
  <2>2. Len(stack) # 0
    BY <1>1 DEF Shape
  <2> QED BY <1>1, <2>1, <2>2 DEF Shape
<1>3. /\ Len(stack') = Len(stack) /\ stack' # <<>> /\ stack'[gSystemContext].ctx = ctx
      /\ gSystemContext # 1 => stack'[1] = stack[1]
  BY <1>1, <1>2, FrameChanged DEF Shape
<1>4. CASE gSystemContext = 1
  BY <1>1, <1>2, <1>3, <1>4 DEF GoesOn
<1>5. CASE gSystemContext # 1
  BY <1>1, <1>2, <1>3, <1>5 DEF GoesOn
<1> QED BY <1>4, <1>5

LEMMA ResumeGoesOn ==
    ASSUME ExecInv, GoesOn, NEW m \in {"continue", "step"}, Resume(m) PROVE GoesOn'
<1> DEFINE old == stack[gSystemContext].ctx
<1>1. /\ Shape /\ ContextValid /\ Stopped /\ stack # <<>> /\ old.rip \notin inserted
      /\ gSystemContext' = gSystemContext /\ inserted' = inserted /\ expect' = expect
  BY DEF ExecInv, Sessions, Resume, Stopped
<1>2. gSystemContext = Len(stack) /\ gSystemContext \in 1 .. Len(stack)
  <2>1. gSystemContext = Len(stack)
    BY <1>1 DEF ContextValid
  <2>2. Len(stack) # 0
    BY <1>1 DEF Shape
  <2> QED BY <1>1, <2>1, <2>2 DEF Shape
<1>3. old \in Ctx
  <2>1. stack[gSystemContext] \in Frame
    BY <1>1, <1>2 DEF Shape
  <2> QED BY <2>1 DEF Frame
<1>4. /\ Len(stack') = Len(stack) /\ stack' # <<>>
      /\ stack'[gSystemContext].ctx.rip = old.rip
      /\ gSystemContext # 1 => stack'[1] = stack[1]
  <2>1. CASE m = "continue"
    BY <1>1, <2>1 DEF Resume
  <2>2. CASE m = "step"
    <3>1. stack' = [stack EXCEPT ![gSystemContext].ctx = AddSingleStep(old)]
      BY <2>2 DEF Resume
    <3>2. AddSingleStep(old) \in Ctx /\ AddSingleStep(old).rip = old.rip
      BY <1>3 DEF AddSingleStep, Ctx
    <3>3. PICK new \in Ctx : /\ stack' = [stack EXCEPT ![gSystemContext].ctx = new]
                             /\ new.rip = old.rip
      BY <3>1, <3>2
    <3> HIDE DEF old
    <3> QED BY <1>1, <1>2, <3>3, FrameChanged DEF Shape
  <2> QED BY <2>1, <2>2
<1>5. CASE gSystemContext = 1
  BY <1>1, <1>2, <1>4, <1>5 DEF GoesOn
<1>6. CASE gSystemContext # 1
  BY <1>1, <1>2, <1>4, <1>6 DEF GoesOn
<1> QED BY <1>5, <1>6

\* The end of a session: back to the program, or to the command it is inside.
LEMMA LeaveGoesOn == ASSUME ExecInv, GoesOn, LeaveSession PROVE GoesOn'
<1>1. /\ Shape /\ Len(stack) = 1 /\ gRunning /\ stack' = <<>>
      /\ cpu' = Left(Top.type, Top.ctx)
      /\ UNCHANGED <<expect, inserted, gSystemContext>>
  BY DEF ExecInv, LeaveSession, history
<1>2. Top = stack[1] /\ Top \in Frame
  BY <1>1, NotEmpty DEF Top, Shape
<1>3. Top.type \in {"step", "break", "fault"} /\ Top.ctx \in Ctx
  BY <1>2 DEF Frame
<1>4. Len(stack') = 0
  BY <1>1
<1>5. /\ Top.ctx.rip = expect
      /\ gSystemContext = 1 => expect \notin inserted
      /\ gSystemContext \in {1, 2}
  BY <1>1, <1>2, NotEmpty DEF GoesOn, ExecInv, Sessions, Shape
<1>6. NextOp(cpu'.rip) = NextOp(expect) \/ Skipped'
  <2>1. CASE expect \notin inserted
    BY <1>1, <1>3, <1>5, <2>1, LeftGoesOn
  <2>2. CASE expect \in inserted /\ Top.type = "break"
    <3>1. cpu'.rip = expect + 1
      BY <1>1, <1>3, <1>5, <2>2 DEF Left, IsBreak, Ctx
    <3>2. gSystemContext' = 2 /\ expect' \in inserted' /\ expect' = expect
      BY <1>1, <1>5, <2>2
    <3> QED BY <3>1, <3>2 DEF Skipped
  <2>3. CASE Top.type # "break"
    BY <1>1, <1>5, <2>3 DEF Left
  <2> QED BY <2>1, <2>2, <2>3
<1> QED BY <1>1, <1>4, <1>6 DEF GoesOn, NextOp

LEMMA CommandGoesOn == ASSUME ExecInv, GoesOn, CommandFaults \/ LeaveNested PROVE GoesOn'
<1>1. /\ Shape /\ (Len(stack) = 1 \/ Len(stack) = 2)
      /\ stack \in Seq(Frame) /\ stack[1] \in Frame
  BY DEF ExecInv, Shape, CommandFaults, LeaveNested
<1>0. expect' = expect /\ stack[1].ctx.rip = expect
  BY <1>1 DEF CommandFaults, LeaveNested, history, GoesOn
<1>2. ASSUME NEW below \in Seq(Frame), below = <<stack[1]>>,
             NEW type \in {"step", "fault"}, NEW ctx \in Ctx, Handle(below, type, ctx)
      PROVE  GoesOn'
  <2>1. below # <<>> /\ Len(stack) >= 1
    BY <1>1, <1>2
  <2>2. /\ type \in {"step", "break", "fault"}
        /\ below = <<>> \/ (Len(stack) >= 1 /\ below = <<stack[1]>>)
    BY <1>2, <2>1
  <2>3. Len(stack') = 2 /\ stack' # <<>> /\ gSystemContext' = 2 /\ stack'[1] = stack[1]
    BY <1>1, <1>2, <2>1, <2>2, HandleOpens
  <2> QED BY <1>0, <2>3 DEF GoesOn
<1>3. CASE CommandFaults
  <2>1. stack = <<stack[1]>>
    BY <1>1, <1>3 DEF CommandFaults
  <2>2. [rip |-> Faulty, eflags |-> 0, rax |-> 0] \in Ctx
    BY ProgramAssumption DEF Ctx, Faulty
  <2> QED BY <1>1, <1>2, <1>3, <2>1, <2>2 DEF CommandFaults
<1>4. CASE LeaveNested
  <2> DEFINE ctx == Left(Top.type, Top.ctx)
             below == <<stack[1]>>
  <2>1. Len(stack) = 2 /\ Top = stack[2] /\ Top \in Frame
    <3>1. Len(stack) = 2
      BY <1>4 DEF LeaveNested
    <3> QED BY <1>1, <3>1 DEF Top
  <2>2. Top.type \in {"step", "break", "fault"} /\ Top.ctx \in Ctx
    BY <2>1 DEF Frame
  <2>3. ctx \in Ctx
    BY <2>2, HandlerContext
  <2>4. below \in Seq(Frame) /\ Len(below) = 1 /\ below # <<>>
    BY <1>1
  <2>5. \/ \E type \in {"step", "fault"} : Handle(below, type, ctx)
        \/ stack' = below /\ gSystemContext' = gSystemContext
    BY <1>4 DEF LeaveNested
  <2>6. gSystemContext = 2
    BY <2>1 DEF GoesOn
  <2>7. CASE \E type \in {"step", "fault"} : Handle(below, type, ctx)
    <3> HIDE DEF ctx
    <3> QED BY <1>2, <2>3, <2>4, <2>7
  <2>8. CASE stack' = below /\ gSystemContext' = gSystemContext
    <3>1. Len(stack') = 1 /\ stack' # <<>> /\ stack'[1] = stack[1]
      BY <2>4, <2>8
    <3> QED BY <1>0, <2>6, <2>8, <3>1 DEF GoesOn
  <2> QED BY <2>5, <2>7, <2>8
<1> QED BY <1>3, <1>4

-----------------------------------------------------------------------------
LEMMA ExecInductive == Spec => []ExecInv
<1>1. ExecInv /\ [Next]_vars => ExecInv'
  BY ExecExecuteOp, ExecException, ExecInitializeAgent, ExecPollInput, ExecEndAgent,
     ExecProcessBreakpoint, ExecWriteRegisters, ExecResume, ExecCommandFaults,
     ExecLeaveSession, ExecLeaveNested, ExecStutter DEF Next
<1> QED BY ExecInit, <1>1, PTL DEF Spec

\* gSystemContext, a pointer into the stack, is never used after the handler that it
\* belongs to has returned (ReportEntryToDebugger, nested).
THEOREM ContextNeverStale == Spec => []ContextValid
<1>1. ExecInv => ContextValid
  BY DEF ExecInv, Sessions
<1> QED BY ExecInductive, <1>1, PTL

\* WatchdogSuspend and WatchdogResume nest: the watchdog is stopped in every session
\* and runs whenever the program does.
THEOREM WatchdogNests == Spec => []WatchdogHeld
<1>1. ExecInv => WatchdogHeld
  BY DEF ExecInv
<1> QED BY ExecInductive, <1>1, PTL

\* No step flag is set but for a step that was asked for and not made, in TF of any
\* saved context and in MDSCR (DebuggerExceptionHandler, AddSingleStep).
THEOREM StepsAreAsked == Spec => []StepsAsked
<1>1. ExecInv => StepsAsked
  BY DEF ExecInv
<1> QED BY ExecInductive, <1>1, PTL

\* After vCont;s the program executes at most one instruction before the debugger has
\* control, also if the step is made in a session inside a command.
THEOREM StepsOne == Spec => []StepIsOne
<1>1. ExecInv => StepIsOne
  BY DEF ExecInv, StepIsOne, StepPending, Sessions, Running
<1> QED BY ExecInductive, <1>1, PTL

\* A break of the agent's own making never meets a processor without the agent's
\* handlers, unless InitializeDebugAgent (0) has removed them (InitializeDebugAgent of
\* MM and of PEI).
THEOREM BreaksAreCaught == Spec => []BreakCaught
<1>1. ExecInv => BreakCaught
  <2> SUFFICES ASSUME ExecInv, dead, ~ended PROVE cpu.rip # Break
    BY DEF BreakCaught
  <2>1. cpu.rip \in Program
    BY DEF ExecInv, Hooks, Untouched
  <2> QED BY <2>1, ProgramAssumption DEF Program, Break
<1> QED BY ExecInductive, <1>1, PTL

\* Debugging does not change what the program executes, for any program, breakpoints
\* and sequence of commands: after every session it goes on with the instruction that
\* was next or the one the debugger chose (DebuggerExceptionHandler's corrections of
\* the program counter before and after the session).  The one exception is Skipped: a
\* breakpoint of the debugger at which a session inside a command has ended.
THEOREM InstructionsKept == Spec => []NoInstructionLost
<1>1. Init => GoesOn
  <2> SUFFICES ASSUME Init PROVE GoesOn
    OBVIOUS
  <2>1. stack = <<>> /\ Len(stack) = 0 /\ cpu.rip = 0 /\ expect = 0
    BY DEF Init
  <2> QED BY <2>1 DEF GoesOn, NextOp
<1>2. ASSUME ExecInv, GoesOn, [Next]_vars PROVE GoesOn'
  <2>1. CASE WriteRegisters \/ WriteOneRegister
    <3>1. PICK ctx \in Ctx : Stopped /\ WriteContext(ctx)
      BY <1>2, <2>1, RegistersWrite
    <3> QED BY <1>2, <3>1, WriteGoesOn
  <2> QED BY <1>2, <2>1, ExecuteOpGoesOn, FaultsGoOn, AgentGoesOn, ResumeGoesOn,
             LeaveGoesOn, CommandGoesOn DEF Next
<1>3. GoesOn => NoInstructionLost
  BY DEF GoesOn, NoInstructionLost, Running
<1> QED BY ExecInductive, <1>1, <1>2, <1>3, PTL DEF Spec

\* The context of a session, which has the registers of the table.
LEMMA SessionContext ==
    ASSUME ExecInv, Stopped
    PROVE  /\ stack[gSystemContext].ctx \in Ctx
           /\ \A i \in 1 .. gRegisterCount : gRegisterOffsets[i].present =>
                  /\ gRegisterOffsets[i].name \in DOMAIN stack[gSystemContext].ctx
                  /\ stack[gSystemContext].ctx[gRegisterOffsets[i].name] \in Int
<1> DEFINE ctx == stack[gSystemContext].ctx
<1>1. Shape /\ gSystemContext = Len(stack) /\ stack # <<>>
  BY DEF ExecInv, Sessions, ContextValid, Stopped
<1>2. Len(stack) # 0
  BY <1>1 DEF Shape
<1>3. gSystemContext \in 1 .. Len(stack) /\ stack \in Seq(Frame)
  BY <1>1, <1>2 DEF Shape
<1>4. stack[gSystemContext] \in Frame
  BY <1>3
<1>5. ctx \in Ctx
  BY <1>4 DEF Frame
<1> HIDE DEF ctx
<1>6. \A n \in {"rip", "eflags", "rax"} : n \in DOMAIN ctx /\ ctx[n] \in Int
  BY <1>5 DEF Ctx
<1> QED BY <1>5, <1>6, ContextAssumption DEF ctx

\* Whatever the data of a G is, complete, cut off or too long, and whatever the context
\* has besides the registers of the table: a register becomes what the data says at its
\* place, or stays and the answer is an error (WriteGeneralRegisters).
THEOREM DataPlaced ==
    ASSUME NEW S, NEW d \in Seq(S), NEW ctx,
           \A i \in 1 .. gRegisterCount :
               gRegisterOffsets[i].present => gRegisterOffsets[i].name \in DOMAIN ctx
    PROVE  Placed(ctx, d)
<1> DEFINE w == WriteGeneralRegisters(ctx, d)
<1>1. WrittenFrom(ctx, d, w)
  BY WrittenAt
<1> HIDE DEF w
<1>2. ASSUME NEW i \in 1 .. gRegisterCount, gRegisterOffsets[i].present
      PROVE  LET n == gRegisterOffsets[i].name
             IN  \/ Offset(i) < Len(d) /\ w.ctx[n] = d[Offset(i) + 1]
                 \/ ~w.ok /\ w.ctx[n] = ctx[n]
  <2> DEFINE n == gRegisterOffsets[i].name
  <2>1. \/ i <= Len(d) /\ w.ctx[n] = d[i]
        \/ ~w.ok /\ w.ctx[n] = ctx[n]
    BY <1>1, <1>2 DEF WrittenFrom
  <2>2. Offset(i) = i - 1 /\ i \in Nat /\ Len(d) \in Nat
    BY <1>2, OffsetBefore, TableEntries
  <2>3. Offset(i) + 1 = i /\ (i <= Len(d) => Offset(i) < Len(d))
    BY <2>2
  <2> QED BY <2>1, <2>3
<1> QED BY <1>2 DEF Placed, w

\* In every session, each G that carries the registers of its context with one of them
\* changed, or any beginning of that, is placed (WriteGeneralRegisters).
THEOREM WritesPlaced == Spec => []RegistersPlaced
<1>1. ASSUME ExecInv PROVE RegistersPlaced
  <2> SUFFICES ASSUME Stopped, NEW d \in Packets(stack[gSystemContext].ctx)
               PROVE  Placed(stack[gSystemContext].ctx, d)
    BY DEF RegistersPlaced
  <2>1. \A i \in 1 .. gRegisterCount : gRegisterOffsets[i].present =>
            gRegisterOffsets[i].name \in DOMAIN stack[gSystemContext].ctx
    BY <1>1, SessionContext
  <2>2. d \in Seq(Nat)
    BY DEF Packets
  <2> QED BY <2>1, <2>2, DataPlaced
<1> QED BY ExecInductive, <1>1, PTL

\* Writing back what was read with g or p is accepted and changes nothing, with any
\* table whose registers without a place are the last ones (ReadGeneralRegisters and
\* WriteGeneralRegisters, ReadRegister and WriteRegister).
THEOREM RestoreAccepted == Spec => []RestoreWorks
<1>1. ASSUME ExecInv PROVE RestoreWorks
  <2> SUFFICES ASSUME Stopped PROVE RestoreWorks
    BY DEF RestoreWorks
  <2> DEFINE ctx == stack[gSystemContext].ctx
             d == ReadGeneralRegisters(ctx)
             w == WriteGeneralRegisters(ctx, d)
  <2>1. /\ ctx \in Ctx
        /\ \A i \in 1 .. gRegisterCount : gRegisterOffsets[i].present =>
               /\ gRegisterOffsets[i].name \in DOMAIN ctx
               /\ ctx[gRegisterOffsets[i].name] \in Int
    BY <1>1, SessionContext
  <2> HIDE DEF ctx
  <2>2. /\ d \in Seq(Int)
        /\ \A i \in 1 .. gRegisterCount :
               /\ Len(d) >= Taken(i) + gRegisterOffsets[i].size
               /\ gRegisterOffsets[i].present => d[i] = ctx[gRegisterOffsets[i].name]
    <3>1. 0 \in Int
      OBVIOUS
    <3> QED BY <2>1, <3>1, PacketRead
  <2> HIDE DEF d
  <2>0. WrittenFrom(ctx, d, w)
    BY <2>2, WrittenAt
  <2> HIDE DEF w
  <2>3. /\ w.ok
        /\ w.ctx = [n \in DOMAIN ctx |-> w.ctx[n]]
        /\ \A n \in DOMAIN ctx :
               \/ w.ctx[n] = ctx[n]
               \/ \E i \in 1 .. gRegisterCount :
                      /\ gRegisterOffsets[i].present /\ gRegisterOffsets[i].name = n
                      /\ w.ctx[n] = d[i]
    BY <2>0, <2>2 DEF WrittenFrom
  <2>4. w.ctx = ctx
    <3>1. \A n \in DOMAIN ctx : w.ctx[n] = ctx[n]
      BY <2>2, <2>3
    <3>2. ctx = [n \in DOMAIN ctx |-> ctx[n]]
      BY <2>1 DEF Ctx
    <3> QED BY <2>3, <3>1, <3>2
  <2>5. ASSUME NEW i \in 0 .. gRegisterCount - 1
        PROVE  WriteRegister(ctx, i, ReadRegister(ctx, i).data) = [ok |-> TRUE, ctx |-> ctx]
    <3> DEFINE k == i + 1
               r == gRegisterOffsets[k]
               data == ReadRegisterFromContext(ctx, k)
    <3>1. k \in 1 .. gRegisterCount /\ ~(i >= gRegisterCount)
      BY TableEntries
    <3>2. ReadRegister(ctx, i).data = data
      BY <3>1 DEF ReadRegister
    <3>3. WriteRegister(ctx, i, data) = WriteRegisterToContext(ctx, k, data)
      BY <3>1 DEF WriteRegister
    <3>4. r.size \in Nat /\ (r.present => r.size = 1)
      BY <3>1, TableEntries
    <3>5. CASE r.present
      <4>1. data = <<ctx[r.name]>> /\ Len(data) = 1 /\ data[1] = ctx[r.name]
        BY <3>5 DEF ReadRegisterFromContext
      <4>2. [ctx EXCEPT ![r.name] = data[1]] = ctx
        BY <2>1, <3>1, <3>5, <4>1 DEF Ctx
      <4> HIDE DEF data, k
      <4>3. Len(data) >= r.size
        BY <3>4, <3>5, <4>1
      <4> HIDE DEF r
      <4>4. WriteRegisterToContext(ctx, k, data) = [ok |-> TRUE, ctx |-> ctx]
        BY <3>5, <4>2, <4>3 DEF WriteRegisterToContext, r
      <4> QED BY <3>2, <3>3, <4>4
    <3>6. CASE ~r.present
      <4>1. data = [j \in 1 .. r.size |-> 0]
        BY <3>6 DEF ReadRegisterFromContext
      <4> HIDE DEF data, k
      <4>2. Len(data) = r.size
        BY <3>4, <4>1
      <4>3. Len(data) >= r.size
        BY <3>4, <4>2
      <4> HIDE DEF r
      <4>4. WriteRegisterToContext(ctx, k, data) = [ok |-> TRUE, ctx |-> ctx]
        BY <3>6, <4>3 DEF WriteRegisterToContext, r
      <4> QED BY <3>2, <3>3, <4>4
    <3> QED BY <3>5, <3>6
  <2> QED BY <2>3, <2>4, <2>5 DEF RestoreWorks, ctx, d, w
<1> QED BY ExecInductive, <1>1, PTL

-----------------------------------------------------------------------------
\* The addresses that the program or a command can be at, and the contexts of a frame:
\* the handler of the program, or one inside a command.
Places(d)   == IF d = 1 THEN 0 .. Return ELSE {Faulty, After}
Contexts(d) == [rip : Places(d), eflags : {0, 1}, rax : Value]

FramesTyped == \A d \in 1 .. Len(stack) : stack[d].ctx \in Contexts(d)
RestTyped   == /\ caller \in Program /\ inserted \subseteq BreakAt
               /\ expect \in 0 .. After /\ mode \in {"continue", "step"} /\ ran \in {0, 1}
               /\ owed \subseteq {1, 2}
               /\ ~called => cpu.rip \in Program
Typed       == cpu \in Contexts(1) /\ FramesTyped /\ RestTyped

LEMMA Constants ==
    /\ Size \in Nat /\ Size >= 1 /\ Break = Size /\ Return = Size + 1
    /\ Faulty = Size + 2 /\ After = Size + 3
    /\ Program = 0 .. Size - 1 /\ 0 \in Program /\ Program \subseteq 0 .. Return
    /\ 0 \in Value /\ Value \subseteq Int
    /\ BreakAt \subseteq Program /\ HardBreaks \subseteq Program
<1>1. Size \in Nat /\ Size >= 1 /\ Program = 0 .. Size - 1
  BY ProgramAssumption DEF Program
<1>2. HardBreaks \subseteq 0 .. Size - 2
  BY ProgramAssumption
<1>3. 0 .. Size - 2 \subseteq 0 .. Size - 1
  BY <1>1
<1>4. BreakAt \subseteq Program
  BY ProgramAssumption
<1>5. Value \subseteq Int /\ 0 \in Value
  BY ValueAssumption
<1> QED BY <1>1, <1>2, <1>3, <1>4, <1>5 DEF Break, Return, Faulty, After

LEMMA ContextTypes ==
    ASSUME NEW d \in {1, 2}, NEW ctx \in Contexts(d)
    PROVE  /\ ctx \in Ctx /\ ctx \in Context
           /\ ctx.rip \in Places(d) /\ ctx.eflags \in {0, 1} /\ ctx.rax \in Value
<1>1. Places(d) \subseteq 0 .. After + 1 /\ Places(d) \subseteq Int
  BY Constants DEF Places
<1>2. ctx.rip \in Places(d) /\ ctx.eflags \in {0, 1} /\ ctx.rax \in Value
  BY DEF Contexts
<1>3. ctx = [rip |-> ctx.rip, eflags |-> ctx.eflags, rax |-> ctx.rax]
  BY DEF Contexts
<1>4. ctx.rip \in 0 .. After + 1 /\ ctx.rip \in Int /\ ctx.rax \in Int /\ ctx.eflags \in Int
  <2>1. Value \subseteq Int
    BY Constants
  <2>2. ctx.rip \in 0 .. After + 1 /\ ctx.rip \in Int /\ ctx.rax \in Int
    BY <1>1, <1>2, <2>1, Zenon
  <2>3. {0, 1} \subseteq Int
    OBVIOUS
  <2>4. ctx.eflags \in Int
    BY <1>2, <2>3, Zenon
  <2> QED BY <2>2, <2>4
<1>5. ctx \in Ctx
  BY <1>3, <1>4 DEF Ctx
<1>6. ctx \in Context
  BY <1>2, <1>3, <1>4 DEF Context
<1> QED BY <1>2, <1>5, <1>6

\* A context with one register replaced.
LEMMA ContextChanged ==
    ASSUME NEW d \in {1, 2}, NEW ctx \in Contexts(d)
    PROVE  /\ \A a \in Places(d) : [ctx EXCEPT !.rip = a] \in Contexts(d)
           /\ \A v \in {0, 1} : [ctx EXCEPT !.eflags = v] \in Contexts(d)
           /\ \A v \in Value : [ctx EXCEPT !.rax = v] \in Contexts(d)
  BY DEF Contexts

\* Stepping past a breakpoint stays within the code.
LEMMA LeftTyped ==
    ASSUME Typed, NEW type, NEW d \in {1, 2}, NEW ctx \in Contexts(d)
    PROVE  Left(type, ctx) \in Contexts(d)
<1>1. CASE ~(type = "break" /\ IsBreak(ctx.rip))
  BY <1>1 DEF Left
<1>2. CASE type = "break" /\ IsBreak(ctx.rip)
  <2>1. ctx.rip \in 0 .. Size
    <3>1. inserted \subseteq Program /\ HardBreaks \subseteq Program
      BY Constants DEF Typed, RestTyped
    <3>2. ctx.rip \in Program \cup {Break}
      BY <1>2, <3>1 DEF IsBreak
    <3> QED BY <3>2, Constants
  <2>2. ctx.rip \in Places(d)
    BY ContextTypes
  <2>3. d = 1
    BY <2>1, <2>2, Constants DEF Places
  <2>4. ctx.rip + 1 \in Places(d)
    BY <2>1, <2>3, Constants DEF Places
  <2>5. Left(type, ctx) = [ctx EXCEPT !.rip = ctx.rip + 1]
    BY <1>2 DEF Left
  <2>6. PICK a \in Places(d) : Left(type, ctx) = [ctx EXCEPT !.rip = a]
    BY <2>4, <2>5
  <2>7. [ctx EXCEPT !.rip = a] \in Contexts(d)
    BY ContextChanged, Zenon
  <2> QED BY <2>6, <2>7, Zenon
<1> QED BY <1>1, <1>2

\* Only the innermost frame is new.
LEMMA HandleTyped ==
    ASSUME Shape, FramesTyped, NEW below \in Seq(Frame),
           below = <<>> \/ (Len(stack) >= 1 /\ below = <<stack[1]>>),
           NEW type \in {"step", "break", "fault"}, NEW ctx \in Ctx,
           Handle(below, type, ctx),
           Entered(type, ctx) \in Contexts(IF below = <<>> THEN 1 ELSE 2)
    PROVE  FramesTyped'
<1>1. /\ Len(stack') = (IF below = <<>> THEN 1 ELSE 2)
      /\ below # <<>> => stack'[1] = stack[1]
      /\ stack'[Len(stack')].ctx = Entered(type, ctx)
  BY HandleOpens
<1>2. CASE below = <<>>
  <2>1. Len(stack') = 1 /\ stack'[1].ctx \in Contexts(1) /\ 1 .. 1 = {1}
    BY <1>1, <1>2
  <2> QED BY <2>1 DEF FramesTyped, Contexts, Places
<1>3. CASE below # <<>>
  <2>1. Len(stack') = 2 /\ stack'[2].ctx \in Contexts(2) /\ stack'[1] = stack[1]
    BY <1>1, <1>3
  <2>2. 1 \in 1 .. Len(stack)
    BY <1>3 DEF Shape
  <2>3. stack[1].ctx \in Contexts(1)
    BY <2>2 DEF FramesTyped
  <2>4. \A d \in 1 .. 2 : d = 1 \/ d = 2
    OBVIOUS
  <2> QED BY <2>1, <2>3, <2>4 DEF FramesTyped, Contexts, Places
<1> QED BY <1>2, <1>3

LEMMA ExceptionTyped ==
    ASSUME Shape, FramesTyped, Running, NEW type \in {"step", "break", "fault"}, NEW ctx \in Ctx,
           Exception(type, ctx), Entered(type, ctx) \in Contexts(1)
    PROVE  FramesTyped'
<1>1. stack = <<>> /\ <<>> \in Seq(Frame)
  BY DEF Running
<1>2. CASE Vector(type) \in hooked
  <2>1. Handle(<<>>, type, ctx)
    BY <1>2 DEF Exception
  <2> QED BY <1>1, <2>1, HandleTyped
<1>3. CASE Vector(type) \notin hooked
  <2>1. stack' = <<>>
    BY <1>1, <1>3 DEF Exception, session
  <2>2. 1 .. Len(stack') = {}
    BY <2>1
  <2> QED BY <2>2 DEF FramesTyped
<1> QED BY <1>2, <1>3

-----------------------------------------------------------------------------
LEMMA ExecuteOpTyped == ASSUME ExecInv, Typed, ExecuteOp PROVE Typed'
<1> DEFINE next == [cpu EXCEPT !.rip = NextAddress(cpu.rip)]
<1>1. /\ Shape /\ Running /\ called /\ stack = <<>>
      /\ cpu' = next /\ expect' = next.rip /\ ran' = (IF ran = 0 THEN 1 ELSE ran)
      /\ called' = called /\ caller' = caller /\ inserted' = inserted /\ mode' = mode
  BY DEF ExecInv, ExecuteOp, Running, agentVars
<1>2. cpu \in Contexts(1) /\ FramesTyped /\ RestTyped /\ cpu.rip \in 0 .. Return
  BY ContextTypes DEF Typed, Places
<1>3. NextAddress(cpu.rip) \in 0 .. Return
  <2>1. caller \in Program
    BY <1>2 DEF RestTyped
  <2> QED BY <1>2, <2>1, Constants DEF NextAddress
<1>4. next \in Contexts(1) /\ next.rip = NextAddress(cpu.rip)
  BY <1>2, <1>3, ContextChanged DEF Contexts, Places
<1>5. expect' \in 0 .. After
  BY <1>1, <1>3, <1>4, Constants
<1> HIDE DEF next
<1>6. FramesTyped' /\ owed' \subseteq {1, 2}
  <2>1. CASE Stepping(cpu)
    <3>1. Exception("step", next) /\ owed' = owed \ {1}
      BY <2>1 DEF ExecuteOp, next
    <3>2. Entered("step", next) \in Contexts(1)
      BY <1>4, ContextChanged DEF Entered
    <3>3. next \in Ctx
      BY <1>4, ContextTypes
    <3>4. FramesTyped'
      BY <1>1, <1>2, <3>1, <3>2, <3>3, ExceptionTyped
    <3> QED BY <1>2, <3>1, <3>4 DEF RestTyped
  <2>2. CASE ~Stepping(cpu)
    <3>1. stack' = stack /\ owed' = owed
      BY <2>2 DEF ExecuteOp, session
    <3> QED BY <1>2, <3>1 DEF FramesTyped, RestTyped, Contexts, Places
  <2> QED BY <2>1, <2>2
<1>7. RestTyped'
  BY <1>1, <1>2, <1>5, <1>6 DEF RestTyped
<1>8. cpu' \in Contexts(1)
  BY <1>1, <1>4
<1> QED BY <1>6, <1>7, <1>8 DEF Typed, Contexts, Places

LEMMA FaultsTyped == ASSUME ExecInv, Typed, OpFaults \/ ExecuteBreak PROVE Typed'
<1>1. /\ Shape /\ Running /\ called /\ cpu' = cpu
      /\ called' = called /\ caller' = caller /\ inserted' = inserted
      /\ expect' = cpu.rip /\ mode' = mode /\ ran' = ran /\ owed' = owed
  BY DEF ExecInv, OpFaults, ExecuteBreak, Running, agentVars
<1>2. cpu \in Contexts(1) /\ FramesTyped /\ RestTyped /\ cpu \in Ctx
  BY ContextTypes DEF Typed
<1>3. FramesTyped'
  <2>1. CASE OpFaults
    <3>1. Exception("fault", cpu) /\ Entered("fault", cpu) = cpu
      BY <2>1 DEF OpFaults, Entered
    <3> QED BY <1>1, <1>2, <3>1, ExceptionTyped
  <2>2. CASE ExecuteBreak
    <3> DEFINE saved == [cpu EXCEPT !.rip = SavedAt(cpu.rip)]
    <3>1. saved \in Ctx /\ saved.rip = SavedAt(cpu.rip) /\ cpu.rip \in Int
      BY <1>2 DEF Ctx, SavedAt
    <3>2. Exception("break", saved)
      BY <2>2 DEF ExecuteBreak
    <3>3. Entered("break", saved) = cpu
      <4>1. Arch = "X64" \/ Arch = "AARCH64"
        BY <1>1, BuildAssumption DEF Shape, Arch, Architectures
      <4>2. CASE Arch = "X64"
        <5>1. Entered("break", saved) = [saved EXCEPT !.rip = saved.rip - 1]
          BY <4>2 DEF Entered
        <5>2. saved.rip - 1 = cpu.rip
          BY <3>1, <4>2 DEF SavedAt
        <5>3. [saved EXCEPT !.rip = cpu.rip] = cpu
          BY <1>2 DEF Ctx
        <5> QED BY <5>1, <5>2, <5>3
      <4>3. CASE Arch = "AARCH64"
        <5>1. Entered("break", saved) = saved /\ SavedAt(cpu.rip) = cpu.rip
          BY <4>3 DEF Entered, SavedAt
        <5>2. [cpu EXCEPT !.rip = cpu.rip] = cpu
          BY <1>2 DEF Ctx
        <5> QED BY <5>1, <5>2
      <4> QED BY <4>1, <4>2, <4>3
    <3> HIDE DEF saved
    <3> QED BY <1>1, <1>2, <3>1, <3>2, <3>3, ExceptionTyped
  <2> QED BY <2>1, <2>2
<1>4. expect' \in 0 .. After
  <2>1. cpu.rip \in Places(1) /\ Places(1) = 0 .. Return
    BY <1>2, ContextTypes DEF Places
  <2> QED BY <1>1, <2>1, Constants
<1>5. RestTyped'
  BY <1>1, <1>2, <1>4 DEF RestTyped
<1> QED BY <1>1, <1>2, <1>3, <1>5 DEF Typed, Contexts, Places

\* The actions that leave the handlers alone.
LEMMA AgentTyped ==
    ASSUME ExecInv, Typed,
           InitializeAgent \/ PollInput \/ EndAgent \/ ProcessBreakpoint \/ UNCHANGED vars
    PROVE  Typed'
<1>1. stack' = stack /\ mode' = mode /\ ran' = ran /\ owed' = owed
  BY DEF InitializeAgent, PollInput, EndAgent, ProcessBreakpoint, vars, session, history
<1>2. cpu \in Contexts(1) /\ FramesTyped /\ RestTyped
  BY DEF Typed
<1>3. FramesTyped'
  BY <1>1, <1>2 DEF FramesTyped, Contexts, Places
<1>4. CASE InitializeAgent \/ PollInput
  <2>1. inserted' = inserted /\ called' /\ cpu.rip \in Program
    <3>1. inserted' = inserted
      BY <1>4 DEF InitializeAgent, PollInput
    <3>2. CASE InitializeAgent
      BY <1>2, <3>1, <3>2 DEF InitializeAgent, StaysOff, InitializeRefused, InitializeDone, RestTyped
    <3>3. CASE PollInput
      BY <3>1, <3>3 DEF PollInput, Running, agentVars
    <3> QED BY <1>4, <3>2, <3>3
  <2>2. CASE cpu' = cpu /\ caller' = caller /\ expect' = expect
    BY <1>1, <1>2, <1>3, <2>1, <2>2 DEF Typed, RestTyped, Contexts, Places
  <2>3. CASE DebuggerBreak
    <3>1. cpu' = [cpu EXCEPT !.rip = Break] /\ caller' = cpu.rip /\ expect' = Break
      BY <2>3 DEF DebuggerBreak
    <3>2. Break \in Places(1) /\ Break \in 0 .. After
      BY Constants DEF Places
    <3>3. [cpu EXCEPT !.rip = Break] \in Contexts(1)
      BY <1>2, <3>2, ContextChanged, Zenon
    <3>4. cpu' \in Contexts(1)
      BY <3>1, <3>3, Zenon
    <3>5. RestTyped'
      BY <1>1, <1>2, <2>1, <3>1, <3>2 DEF RestTyped
    <3> QED BY <1>3, <3>4, <3>5 DEF Typed, Contexts, Places
  <2> QED BY <1>4, <2>2, <2>3 DEF InitializeAgent, PollInput
<1>5. CASE EndAgent \/ ProcessBreakpoint \/ UNCHANGED vars
  <2>1. cpu' = cpu /\ caller' = caller /\ expect' = expect /\ called' = called
    BY <1>5 DEF EndAgent, InitializeZero, ProcessBreakpoint, vars, history, agentVars
  <2>2. inserted' \subseteq BreakAt
    <3>1. inserted \subseteq BreakAt
      BY <1>2 DEF RestTyped
    <3>2. inserted' = inserted \/ \E a \in BreakAt : inserted' = inserted \cup {a} \/ inserted' = inserted \ {a}
      BY <1>5 DEF EndAgent, ProcessBreakpoint, vars
    <3> QED BY <3>1, <3>2
  <2> QED BY <1>1, <1>2, <1>3, <2>1, <2>2 DEF Typed, RestTyped, Contexts, Places
<1> QED BY <1>4, <1>5

\* The innermost frame with another context.
LEMMA ChangedTyped ==
    ASSUME Shape, FramesTyped, NEW g \in 1 .. Len(stack), NEW ctx \in Contexts(g),
           stack' = [stack EXCEPT ![g].ctx = ctx]
    PROVE  FramesTyped'
<1>1. g \in {1, 2}
  BY DEF Shape
<1>2. ctx \in Ctx
  BY <1>1, ContextTypes
<1>3. /\ Len(stack') = Len(stack) /\ stack'[g].ctx = ctx
      /\ \A d \in 1 .. Len(stack) : d # g => stack'[d].ctx = stack[d].ctx
  BY <1>2, FrameChanged
<1>4. \A d \in 1 .. Len(stack') : stack'[d].ctx \in Contexts(d)
  BY <1>3 DEF FramesTyped
<1> QED BY <1>4 DEF FramesTyped, Contexts, Places

LEMMA WriteTyped ==
    ASSUME ExecInv, Typed, Stopped, NEW ctx \in Contexts(gSystemContext), WriteContext(ctx)
    PROVE  Typed'
<1>1. /\ Shape /\ stack # <<>>
      /\ stack' = [stack EXCEPT ![gSystemContext].ctx = ctx]
      /\ expect' = (IF gSystemContext = 1 /\ ctx.rip # stack[1].ctx.rip THEN ctx.rip ELSE expect)
      /\ owed' = (IF ctx.eflags = 1 THEN owed \cup {gSystemContext} ELSE owed)
      /\ cpu' = cpu /\ caller' = caller /\ inserted' = inserted /\ called' = called
      /\ mode' = mode /\ ran' = ran
  BY DEF ExecInv, WriteContext, Stopped, agentVars
<1>2. gSystemContext \in 1 .. Len(stack) /\ gSystemContext \in {1, 2}
  <2>1. gSystemContext = Len(stack)
    BY DEF ExecInv, Sessions, ContextValid
  <2>2. Len(stack) # 0
    BY <1>1 DEF Shape
  <2> QED BY <1>1, <2>1, <2>2 DEF Shape
<1>3. cpu \in Contexts(1) /\ FramesTyped /\ RestTyped
  BY DEF Typed
<1>4. FramesTyped'
  BY <1>1, <1>2, <1>3, ChangedTyped
<1>5. gSystemContext = 1 => ctx.rip \in 0 .. Return
  BY <1>2, ContextTypes DEF Places
<1>6. expect' \in 0 .. After
  <2>1. expect \in 0 .. After
    BY <1>3 DEF RestTyped
  <2>2. gSystemContext = 1 => ctx.rip \in 0 .. After
    BY <1>5, Constants
  <2> QED BY <1>1, <2>1, <2>2
<1>7. owed' \subseteq {1, 2}
  <2>1. owed \subseteq {1, 2}
    BY <1>3 DEF RestTyped
  <2> QED BY <1>1, <1>2, <2>1
<1>8. RestTyped'
  BY <1>1, <1>3, <1>6, <1>7 DEF RestTyped
<1> QED BY <1>1, <1>3, <1>4, <1>8 DEF Typed, Contexts, Places

LEMMA ResumeTyped ==
    ASSUME ExecInv, Typed, NEW m \in {"continue", "step"}, Resume(m) PROVE Typed'
<1>1. /\ Shape /\ Stopped /\ stack # <<>> /\ mode' = m /\ ran' = 0
      /\ cpu' = cpu /\ caller' = caller /\ inserted' = inserted /\ called' = called
      /\ expect' = expect
  BY DEF ExecInv, Resume, Stopped, agentVars
<1>2. gSystemContext \in 1 .. Len(stack) /\ gSystemContext \in {1, 2}
  <2>1. gSystemContext = Len(stack)
    BY <1>1 DEF ExecInv, Sessions, ContextValid
  <2>2. Len(stack) # 0
    BY <1>1 DEF Shape
  <2> QED BY <1>1, <2>1, <2>2 DEF Shape
<1>3. cpu \in Contexts(1) /\ FramesTyped /\ RestTyped
  BY DEF Typed
<1>4. FramesTyped' /\ owed' \subseteq {1, 2}
  <2>1. CASE m = "continue"
    <3>1. stack' = stack /\ owed' = owed
      BY <2>1 DEF Resume
    <3> QED BY <1>3, <3>1 DEF FramesTyped, RestTyped, Contexts, Places
  <2>2. CASE m = "step"
    <3> DEFINE old == stack[gSystemContext].ctx
    <3>1. /\ stack' = [stack EXCEPT ![gSystemContext].ctx = AddSingleStep(old)]
          /\ owed' = owed \cup {gSystemContext}
      BY <2>2 DEF Resume
    <3>2. old \in Contexts(gSystemContext)
      BY <1>2, <1>3 DEF FramesTyped
    <3>3. AddSingleStep(old) \in Contexts(gSystemContext)
      <4> HIDE DEF old
      <4> QED BY <1>2, <3>2, ContextChanged DEF AddSingleStep
    <3>4. PICK new \in Contexts(gSystemContext) :
               stack' = [stack EXCEPT ![gSystemContext].ctx = new]
      BY <3>1, <3>3
    <3> HIDE DEF old
    <3>5. FramesTyped'
      BY <1>1, <1>2, <1>3, <3>4, ChangedTyped
    <3>6. owed \subseteq {1, 2}
      BY <1>3 DEF RestTyped
    <3> QED BY <1>2, <3>1, <3>5, <3>6
  <2> QED BY <2>1, <2>2
<1>5. RestTyped'
  BY <1>1, <1>3, <1>4 DEF RestTyped
<1> QED BY <1>1, <1>3, <1>4, <1>5 DEF Typed, Contexts, Places

\* The end of a session, and sessions inside a command.
LEMMA LeaveTyped == ASSUME ExecInv, Typed, LeaveSession PROVE Typed'
<1>1. /\ Shape /\ Untouched /\ Len(stack) = 1
      /\ cpu' = Left(Top.type, Top.ctx) /\ stack' = <<>>
      /\ caller' = caller /\ inserted' = inserted /\ called' = called
      /\ expect' = expect /\ mode' = mode /\ ran' = ran /\ owed' = owed
  BY DEF ExecInv, LeaveSession, agentVars, history
<1>2. FramesTyped /\ RestTyped
  BY DEF Typed
<1>3. Top = stack[1] /\ 1 \in 1 .. Len(stack) /\ called
  BY <1>1, NotEmpty DEF Top, Shape, Untouched
<1>4. Top.ctx \in Contexts(1)
  BY <1>2, <1>3 DEF FramesTyped
<1>5. cpu' \in Contexts(1)
  BY <1>1, <1>4, LeftTyped
<1>6. FramesTyped'
  <2>1. 1 .. Len(stack') = {}
    BY <1>1
  <2> QED BY <2>1 DEF FramesTyped
<1>7. RestTyped'
  BY <1>1, <1>2, <1>3 DEF RestTyped
<1> QED BY <1>5, <1>6, <1>7 DEF Typed, Contexts, Places

LEMMA CommandTyped == ASSUME ExecInv, Typed, CommandFaults \/ LeaveNested PROVE Typed'
<1>1. /\ Shape /\ (Len(stack) = 1 \/ Len(stack) = 2)
      /\ stack \in Seq(Frame) /\ stack[1] \in Frame
      /\ cpu' = cpu /\ caller' = caller /\ inserted' = inserted /\ called' = called
      /\ expect' = expect /\ mode' = mode /\ ran' = ran
  BY DEF ExecInv, Shape, CommandFaults, LeaveNested, agentVars, history
<1>2. cpu \in Contexts(1) /\ FramesTyped /\ RestTyped
  BY DEF Typed
<1> DEFINE below == <<stack[1]>>
<1>3. /\ below \in Seq(Frame) /\ below # <<>> /\ Len(below) = 1 /\ below[1] = stack[1]
      /\ below = <<>> \/ (Len(stack) >= 1 /\ below = <<stack[1]>>)
  BY <1>1
<1>4. ASSUME NEW type \in {"step", "fault"}, NEW ctx \in Contexts(2), Handle(below, type, ctx)
      PROVE  FramesTyped'
  <2>1. type \in {"step", "break", "fault"} /\ ctx \in Ctx
    BY <1>4, ContextTypes
  <2>2. Entered(type, ctx) \in Contexts(2)
    BY <1>4, ContextChanged DEF Entered
  <2> HIDE DEF below
  <2> QED BY <1>1, <1>2, <1>3, <1>4, <2>1, <2>2, HandleTyped
<1>5. FramesTyped' /\ owed' \subseteq {1, 2}
  <2>1. owed \subseteq {1, 2}
    BY <1>2 DEF RestTyped
  <2>2. CASE CommandFaults
    <3> DEFINE ctx == [rip |-> Faulty, eflags |-> 0, rax |-> 0]
    <3>1. stack = below /\ owed' = owed
      BY <1>1, <2>2 DEF CommandFaults, history
    <3>2. Handle(stack, "fault", ctx)
      BY <2>2 DEF CommandFaults
    <3>3. ctx \in Contexts(2)
      BY Constants DEF Contexts, Places
    <3> HIDE DEF ctx, below
    <3>4. Handle(below, "fault", ctx)
      BY <3>1, <3>2
    <3> QED BY <1>4, <2>1, <3>1, <3>3, <3>4
  <2>3. CASE LeaveNested
    <3> DEFINE ctx == Left(Top.type, Top.ctx)
    <3>1. Len(stack) = 2 /\ Top = stack[2] /\ 2 \in 1 .. Len(stack) /\ 1 \in 1 .. Len(stack)
      BY <1>1, <2>3 DEF LeaveNested, Top
    <3>2. Top.ctx \in Contexts(2)
      BY <1>2, <3>1 DEF FramesTyped
    <3>3. ctx \in Contexts(2)
      BY <3>2, LeftTyped
    <3>4. /\ owed' = owed \/ owed' = owed \ {2}
          /\ \/ \E type \in {"step", "fault"} : Handle(below, type, ctx)
             \/ stack' = below
      BY <2>3 DEF LeaveNested
    <3>5. CASE stack' = below
      <4>1. Len(stack') = 1 /\ stack'[1].ctx = stack[1].ctx /\ 1 .. 1 = {1}
        BY <1>3, <3>5
      <4>2. stack[1].ctx \in Contexts(1)
        BY <1>2, <3>1 DEF FramesTyped
      <4>3. \A d \in 1 .. Len(stack') : stack'[d].ctx \in Contexts(d)
        BY <4>1, <4>2
      <4>4. FramesTyped'
        BY <4>3 DEF FramesTyped, Contexts, Places
      <4> QED BY <2>1, <3>4, <4>4
    <3>6. CASE \E type \in {"step", "fault"} : Handle(below, type, ctx)
      <4> HIDE DEF ctx, below
      <4> QED BY <1>4, <2>1, <3>3, <3>4, <3>6
    <3> QED BY <3>4, <3>5, <3>6
  <2> QED BY <2>2, <2>3
<1>6. RestTyped'
  BY <1>1, <1>2, <1>5 DEF RestTyped
<1> QED BY <1>1, <1>2, <1>5, <1>6 DEF Typed, Contexts, Places

\* A packet of G is cut from the registers of a context of the frame, so what it writes
\* is one again.
LEMMA PacketTyped ==
    ASSUME NEW g \in {1, 2}, g = gSystemContext, NEW ctx \in Contexts(g), NEW d \in Packets(ctx)
    PROVE  WriteGeneralRegisters(ctx, d).ctx \in Contexts(g)
<1> DEFINE w == WriteGeneralRegisters(ctx, d)
           new == w.ctx
<1>1. PICK from \in Contexts(g), n \in Nat : d = SubSeq(ReadGeneralRegisters(from), 1, n)
  <2> DEFINE all == ReadGeneralRegisters(ctx)
  <2>1. Targets \subseteq Places(g)
    BY Constants DEF Targets, Places
  <2>2. ASSUME NEW edit \in Edits(ctx) PROVE edit \in Contexts(g)
    <3>1. \/ edit = ctx
          \/ \E a \in Targets : edit = [ctx EXCEPT !.rip = a]
          \/ \E v \in Value : edit = [ctx EXCEPT !.rax = v]
      BY Zenon DEF Edits
    <3>2. CASE \E a \in Targets : edit = [ctx EXCEPT !.rip = a]
      <4>1. PICK a \in Places(g) : edit = [ctx EXCEPT !.rip = a]
        BY <2>1, <3>2, Zenon
      <4>2. [ctx EXCEPT !.rip = a] \in Contexts(g)
        BY ContextChanged, Zenon
      <4> QED BY <4>1, <4>2, Zenon
    <3>3. CASE \E v \in Value : edit = [ctx EXCEPT !.rax = v]
      <4>1. PICK v \in Value : edit = [ctx EXCEPT !.rax = v]
        BY <3>3, Zenon
      <4>2. [ctx EXCEPT !.rax = v] \in Contexts(g)
        BY ContextChanged, Zenon
      <4> QED BY <4>1, <4>2, Zenon
    <3> QED BY <3>1, <3>2, <3>3
  <2>3. PICK edit \in Edits(ctx), n \in 0 .. Len(all) :
             d = SubSeq(ReadGeneralRegisters(edit), 1, n)
    BY DEF Packets
  <2>4. Len(all) \in Nat
    <3>1. \A i \in 1 .. gRegisterCount :
              gRegisterOffsets[i].present => ctx[gRegisterOffsets[i].name] \in Int
      <4>1. ctx \in Ctx
        BY ContextTypes
      <4>2. \A name \in {"rip", "eflags", "rax"} : ctx[name] \in Int
        BY <4>1 DEF Ctx
      <4> QED BY <4>2, ContextAssumption
    <3>2. all \in Seq(Int)
      BY <3>1, PacketRead
    <3> HIDE DEF all
    <3> QED BY <3>2
  <2> HIDE DEF all
  <2>5. n \in Nat
    BY <2>3, <2>4
  <2> QED BY <2>2, <2>3, <2>5
<1> DEFINE e == ReadGeneralRegisters(from)
<1>2. /\ from["rip"] \in Places(g) /\ from["eflags"] \in {0, 1} /\ from["rax"] \in Value
      /\ ctx["rip"] \in Places(g) /\ ctx["eflags"] \in {0, 1} /\ ctx["rax"] \in Value
      /\ DOMAIN ctx = {"rip", "eflags", "rax"}
  BY DEF Contexts
<1>3. /\ e \in Seq(Int)
      /\ \A i \in 1 .. gRegisterCount :
             gRegisterOffsets[i].present => e[i] = from[gRegisterOffsets[i].name]
  <2>1. from \in Ctx
    BY ContextTypes
  <2>2. \A name \in {"rip", "eflags", "rax"} : from[name] \in Int
    BY <2>1 DEF Ctx
  <2>3. \A i \in 1 .. gRegisterCount :
            gRegisterOffsets[i].present => from[gRegisterOffsets[i].name] \in Int
    BY <2>2, ContextAssumption
  <2> QED BY <2>3, PacketRead
<1> HIDE DEF e
<1>4. /\ Len(d) = n /\ \A i \in 1 .. n : d[i] = e[i]
  <2>1. d = SubSeq(e, 1, n)
    BY <1>1 DEF e
  <2> QED BY <1>3, <2>1
<1>5. d \in Seq(Nat)
  BY DEF Packets
<1>6. WrittenFrom(ctx, d, w)
  BY <1>5, WrittenAt
<1> HIDE DEF w
<1>7. \A name \in DOMAIN ctx : new[name] = ctx[name] \/ new[name] = from[name]
  <2> SUFFICES ASSUME NEW name \in DOMAIN ctx, new[name] # ctx[name]
               PROVE  new[name] = from[name]
    OBVIOUS
  <2>1. PICK i \in 1 .. gRegisterCount :
            /\ gRegisterOffsets[i].present /\ gRegisterOffsets[i].name = name
            /\ i <= Len(d) /\ new[name] = d[i]
    BY <1>6 DEF WrittenFrom
  <2>2. i \in 1 .. n
    BY <1>4, <2>1, TableEntries
  <2> QED BY <1>3, <1>4, <2>1, <2>2
<1>8. new = [name \in DOMAIN ctx |-> new[name]]
  BY <1>6 DEF WrittenFrom
<1> HIDE DEF new
<1>9. new = [rip |-> new["rip"], eflags |-> new["eflags"], rax |-> new["rax"]]
  BY <1>2, <1>8
<1>10. new["rip"] \in Places(g) /\ new["eflags"] \in {0, 1} /\ new["rax"] \in Value
  BY <1>2, <1>7
<1>11. new \in Contexts(g)
  BY <1>9, <1>10 DEF Contexts
<1> QED BY <1>11 DEF new, w

LEMMA RegistersTyped ==
    ASSUME ExecInv, Typed, WriteRegisters \/ WriteOneRegister
    PROVE  Stopped /\ \E ctx \in Contexts(gSystemContext) : WriteContext(ctx)
<1> DEFINE old == stack[gSystemContext].ctx
<1>1. Stopped
  BY DEF WriteRegisters, WriteOneRegister
<1>2. gSystemContext \in 1 .. Len(stack) /\ gSystemContext \in {1, 2}
  <2>1. Shape /\ gSystemContext = Len(stack) /\ stack # <<>>
    BY <1>1 DEF ExecInv, Sessions, ContextValid, Stopped
  <2>2. Len(stack) # 0
    BY <2>1 DEF Shape
  <2> QED BY <2>1, <2>2 DEF Shape
<1>3. old \in Contexts(gSystemContext)
  BY <1>2 DEF Typed, FramesTyped
<1>4. CASE WriteRegisters
  <2>1. PICK d \in Packets(old) : WriteContext(WriteGeneralRegisters(old, d).ctx)
    BY <1>4 DEF WriteRegisters
  <2> HIDE DEF old
  <2>2. WriteGeneralRegisters(old, d).ctx \in Contexts(gSystemContext)
    BY <1>2, <1>3, PacketTyped
  <2> QED BY <1>1, <2>1, <2>2
<1>5. CASE WriteOneRegister
  <2> DEFINE Values(i) == IF i > gRegisterCount THEN {0}
                          ELSE CASE gRegisterOffsets[i].name = "rip"    -> Targets
                                 [] gRegisterOffsets[i].name = "eflags" -> IF Arch = "X64" THEN {0, 1} ELSE {0}
                                 [] OTHER                               -> {0}
  <2>1. PICK i \in 1 .. gRegisterCount + 1 : \E v \in Values(i) :
             WriteContext(WriteRegister(old, i - 1, <<v>>).ctx)
    BY <1>5 DEF WriteOneRegister
  <2>2. PICK v \in Values(i) : WriteContext(WriteRegister(old, i - 1, <<v>>).ctx)
    BY <2>1
  <2> DEFINE new == WriteRegister(old, i - 1, <<v>>).ctx
             name == gRegisterOffsets[i].name
  <2>3. i - 1 + 1 = i /\ (i - 1 >= gRegisterCount \/ i \in 1 .. gRegisterCount) /\ <<v>>[1] = v
    BY TableEntries
  <2>4. \/ new = old
        \/ /\ i \in 1 .. gRegisterCount /\ gRegisterOffsets[i].present
           /\ new = [old EXCEPT ![name] = v]
    <3> HIDE DEF old
    <3> QED BY <2>3 DEF WriteRegister, WriteRegisterToContext
  <2>5. new \in Contexts(gSystemContext)
    <3> SUFFICES ASSUME i \in 1 .. gRegisterCount, gRegisterOffsets[i].present,
                        new = [old EXCEPT ![name] = v]
                 PROVE  new \in Contexts(gSystemContext)
      BY <1>3, <2>4
    <3>1. Targets \subseteq Places(gSystemContext)
      BY <1>2, Constants DEF Targets, Places
    <3>2. name \in {"rip", "eflags", "rax"}
      BY ContextAssumption
    <3>3. ~(i > gRegisterCount)
      BY TableEntries
    <3>4. CASE name = "rip"
      <4>1. v \in Places(gSystemContext)
        BY <2>2, <3>1, <3>3, <3>4
      <4>2. new = [old EXCEPT !.rip = v]
        BY <3>4
      <4> HIDE DEF old, new
      <4>3. [old EXCEPT !.rip = v] \in Contexts(gSystemContext)
        BY <1>2, <1>3, <4>1, ContextChanged, Zenon
      <4> QED BY <4>2, <4>3, Zenon
    <3>5. CASE name = "eflags"
      <4>1. v \in {0, 1}
        BY <2>2, <3>3, <3>5
      <4>2. new = [old EXCEPT !.eflags = v]
        BY <3>5
      <4> HIDE DEF old, new
      <4>3. [old EXCEPT !.eflags = v] \in Contexts(gSystemContext)
        BY <1>2, <1>3, <4>1, ContextChanged, Zenon
      <4> QED BY <4>2, <4>3, Zenon
    <3>6. CASE name = "rax"
      <4>1. v \in Value
        BY <2>2, <3>3, <3>6, Constants
      <4>2. new = [old EXCEPT !.rax = v]
        BY <3>6
      <4> HIDE DEF old, new
      <4>3. [old EXCEPT !.rax = v] \in Contexts(gSystemContext)
        BY <1>2, <1>3, <4>1, ContextChanged, Zenon
      <4> QED BY <4>2, <4>3, Zenon
    <3> QED BY <3>2, <3>4, <3>5, <3>6
  <2> QED BY <1>1, <2>2, <2>5
<1> QED BY <1>1, <1>4, <1>5

LEMMA TypedInit == Init => Typed
<1> SUFFICES ASSUME Init PROVE Typed
  OBVIOUS
<1>1. cpu = [rip |-> 0, eflags |-> 0, rax |-> 0] /\ cpu.rip = 0
  BY DEF Init
<1>2. 0 \in Program /\ 0 \in 0 .. After /\ 0 \in Places(1) /\ 0 \in Value
  BY Constants DEF Places
<1>3. cpu \in Contexts(1)
  BY <1>1, <1>2 DEF Contexts
<1>4. 1 .. Len(stack) = {}
  BY DEF Init
<1>5. RestTyped
  BY <1>1, <1>2 DEF Init, RestTyped
<1> QED BY <1>3, <1>4, <1>5 DEF Typed, FramesTyped

\* The variables have their types: whatever the debugger writes, at any depth, every
\* saved context stays one of the program or of a command.
THEOREM TypeCorrect == Spec => []TypeOK
<1>1. ASSUME ExecInv, Typed, [Next]_vars PROVE Typed'
  <2>1. CASE WriteRegisters \/ WriteOneRegister
    <3>1. PICK ctx \in Contexts(gSystemContext) : Stopped /\ WriteContext(ctx)
      BY <1>1, <2>1, RegistersTyped
    <3> QED BY <1>1, <3>1, WriteTyped
  <2> QED BY <1>1, <2>1, ExecuteOpTyped, FaultsTyped, AgentTyped, ResumeTyped,
             LeaveTyped, CommandTyped DEF Next
<1>2. ASSUME ExecInv, Typed PROVE TypeOK
  <2>1. Shape /\ Hooks /\ cpu \in Contexts(1) /\ FramesTyped /\ RestTyped
    BY <1>2 DEF ExecInv, Typed
  <2>2. cpu \in Context
    BY <2>1, ContextTypes
  <2> DEFINE F == [type : {"step", "break", "fault"}, ctx : Context, WatchdogState : BOOLEAN]
  <2>3. stack \in Seq(F)
    <3>1. stack \in Seq(Frame) /\ Len(stack) \in 0 .. 2
      BY <2>1 DEF Shape
    <3>2. ASSUME NEW d \in 1 .. Len(stack) PROVE stack[d] \in F
      <4>1. stack[d] \in Frame /\ d \in {1, 2}
        BY <3>1
      <4>2. stack[d].ctx \in Contexts(d)
        BY <2>1 DEF FramesTyped
      <4>3. stack[d].ctx \in Context
        BY <4>1, <4>2, ContextTypes
      <4> QED BY <4>1, <4>3 DEF Frame
    <3> HIDE DEF F
    <3>3. stack = [d \in 1 .. Len(stack) |-> stack[d]] /\ Len(stack) \in Nat
      BY <3>1
    <3>4. stack \in [1 .. Len(stack) -> F]
      BY <3>2, <3>3
    <3> QED BY <3>3, <3>4, SeqDef
  <2>4. hooked \subseteq Vectors
    BY <2>1, Zenon DEF Hooks
  <2>5. Len(stack) <= 2
    <3>1. Len(stack) \in 0 .. 2
      BY <2>1 DEF Shape
    <3>2. \A n \in 0 .. 2 : n <= 2
      OBVIOUS
    <3> QED BY <3>1, <3>2, Zenon
  <2> QED BY <2>1, <2>2, <2>3, <2>4, <2>5 DEF TypeOK, Shape, RestTyped
<1> QED BY ExecInductive, TypedInit, <1>1, <1>2, PTL DEF Spec

=============================================================================
