------------------------ MODULE MemoryAccessProofs ------------------------
(***************************************************************************)
(* Theorems about MemoryAccess, for pages and chunks of any size.          *)
(***************************************************************************)
EXTENDS MemoryAccess, TLAPS

\* Where the stub is in the request, and AccessMemory in the chunk.
Progress ==
    /\ step # "idle" =>
           /\ req \in Requests
           /\ req.addr <= Address
           /\ Address + Length = req.addr + req.len
           /\ req.write => Len(req.data) = req.len
    /\ step \in {"page", "copy", "restore"} =>
           /\ Length > 0
           /\ Address <= at
           /\ at + left = Address + RangeLength
    /\ step \in {"copy", "restore"} => left > 0
    /\ step = "emit" => Length > 0

TypeInv == TypeOK /\ Progress

-----------------------------------------------------------------------------
\* Facts about the constants and the helpers.

LEMMA ScratchFact == SCRATCH_SIZE \in Nat /\ SCRATCH_SIZE > 0
  BY ScratchAssumption

LEMMA PageFact == EFI_PAGE_SIZE \in Nat /\ EFI_PAGE_SIZE > 0 /\ PageCount \in Nat
  BY PageAssumption

LEMMA MinimumFact == ASSUME NEW m \in Nat, NEW n \in Nat
                     PROVE  /\ Minimum(m, n) \in Nat
                            /\ Minimum(m, n) <= m /\ Minimum(m, n) <= n
                            /\ (m > 0 /\ n > 0) => Minimum(m, n) > 0
  BY DEF Minimum

LEMMA RangeFact == ASSUME Length \in Nat
                   PROVE  /\ RangeLength \in Nat /\ RangeLength <= Length
                          /\ RangeLength <= SCRATCH_SIZE
                          /\ Length > 0 => RangeLength > 0
  BY MinimumFact, ScratchFact DEF RangeLength

LEMMA RestFact == ASSUME at \in Nat
                  PROVE  /\ EFI_PAGE_SIZE - (at % EFI_PAGE_SIZE) \in Nat
                         /\ EFI_PAGE_SIZE - (at % EFI_PAGE_SIZE) > 0
  BY PageFact

LEMMA InPageFact == ASSUME at \in Nat, left \in Nat, left > 0
                    PROVE  /\ LengthInPage \in Nat
                           /\ LengthInPage > 0 /\ LengthInPage <= left
  BY MinimumFact, RestFact DEF LengthInPage

\* The total of the address space.
Total == PageCount * EFI_PAGE_SIZE

LEMMA TotalFact == Total \in Nat /\ Addr = 0 .. Total - 1
  BY PageFact DEF Total, Addr

LEMMA RequestFact ==
    ASSUME NEW r \in Requests
    PROVE  /\ r.write \in BOOLEAN /\ r.addr \in Addr /\ r.addr \in Nat /\ r.len \in Nat
           /\ r.data \in Seq(Byte)
           /\ r.addr + r.len <= Total
           /\ (r.write /\ Len(r.data) = r.len) => r.len <= SCRATCH_SIZE
  BY RequestAssumption, TotalFact DEF Request, Total

-----------------------------------------------------------------------------
\* The types and the progress of a request.

LEMMA TypeInit == Init => TypeInv
<1> SUFFICES ASSUME Init PROVE TypeInv
    OBVIOUS
<1>1. mScratch \in [0 .. SCRATCH_SIZE - 1 -> Byte]
  BY ContentAssumption DEF Init
<1>2. pages \in [Page -> PageState] /\ layout \in Layouts /\ big \in BigBlocks
  BY LayoutAssumption DEF Init
<1>3. mem \in [Addr -> Byte] /\ before \in [Addr -> Byte]
  BY ContentAssumption DEF Init
<1>4. mResponse \in Seq(Byte \cup {-1})
  BY DEF Init
<1>5. count \in 0 .. MaxCommands /\ left \in 0 .. SCRATCH_SIZE
  BY BoundAssumption, ScratchFact DEF Init
<1>6. TypeOK
  BY <1>1, <1>2, <1>3, <1>4, <1>5 DEF Init, TypeOK, Steps
<1>7. Progress
  BY DEF Init, Progress
<1> QED BY <1>6, <1>7 DEF TypeInv

LEMMA TypeReceive == ASSUME TypeInv, NEW r \in Requests, Receive(r) PROVE TypeInv'
<1> USE DEF TypeInv
<1>1. count' \in 0 .. MaxCommands
  BY BoundAssumption DEF TypeOK, Receive
<1>2. /\ mResponse' \in Seq(Byte \cup {-1})
      /\ before' \in [Addr -> Byte] /\ mem' \in [Addr -> Byte]
      /\ Address' \in Nat /\ Length' \in Nat
      /\ step' \in Steps /\ reply' \in {"none", "OK", "data", "E"}
  BY RequestFact DEF TypeOK, Receive, Steps
<1>3. TypeOK'
  BY <1>1, <1>2 DEF TypeOK, Receive, fixed
<1>4. Progress'
  <2>1. CASE r.write /\ Len(r.data) # r.len
    BY <2>1 DEF Receive, Progress
  <2>2. CASE ~(r.write /\ Len(r.data) # r.len)
    BY <2>2, RequestFact DEF Receive, Progress
  <2> QED BY <2>1, <2>2
<1> QED BY <1>3, <1>4

LEMMA ScratchWritten ==
    ASSUME TypeInv, step = "chunk", Length > 0, req.write, NEW i \in 0 .. SCRATCH_SIZE - 1,
           i < RangeLength
    PROVE  req.data[Address - req.addr + i + 1] \in Byte
<1>1. /\ req \in Requests /\ Len(req.data) = req.len
      /\ req.addr <= Address /\ Address + Length = req.addr + req.len
      /\ Address \in Nat /\ Length \in Nat
  BY DEF TypeInv, TypeOK, Progress
<1>2. RangeLength \in Nat /\ RangeLength <= Length
  BY <1>1, RangeFact
<1>3. req.data \in Seq(Byte) /\ req.addr \in Nat /\ req.len \in Nat
  BY <1>1, RequestFact
<1>4. Address - req.addr + i + 1 \in 1 .. req.len
  BY <1>1, <1>2, <1>3
<1> QED BY <1>1, <1>3, <1>4

LEMMA TypeStartChunk == ASSUME TypeInv, StartChunk PROVE TypeInv'
<1> USE DEF TypeInv
<1>1. Length \in Nat /\ Address \in Nat /\ Length > 0
  BY DEF TypeOK, StartChunk
<1>2. /\ RangeLength \in Nat /\ RangeLength <= SCRATCH_SIZE /\ RangeLength <= Length
      /\ RangeLength > 0
  BY <1>1, RangeFact
<1>3. left' \in 0 .. SCRATCH_SIZE /\ at' \in Nat /\ step' \in Steps
  BY <1>1, <1>2, ScratchFact DEF StartChunk, Steps
<1>4. mScratch' \in [0 .. SCRATCH_SIZE - 1 -> Byte]
  <2>1. CASE req.write
    BY <2>1, <1>1, ScratchWritten DEF StartChunk, TypeOK
  <2>2. CASE ~req.write /\ ZeroPage
    BY <2>2, ContentAssumption DEF StartChunk, TypeOK
  <2>3. CASE ~req.write /\ ~ZeroPage
    BY <2>3 DEF StartChunk, TypeOK
  <2> QED BY <2>1, <2>2, <2>3
<1>5. TypeOK'
  BY <1>3, <1>4 DEF TypeOK, StartChunk, fixed, stub
<1>6. RangeLength' = RangeLength
  BY DEF StartChunk, stub, RangeLength
<1>7. Progress'
  BY <1>1, <1>2, <1>6 DEF Progress, StartChunk, stub
<1> QED BY <1>5, <1>7

LEMMA TypeFinish == ASSUME TypeInv, Finish PROVE TypeInv'
<1>1. TypeOK'
  BY DEF TypeInv, TypeOK, Finish, fixed, stub, Steps
<1>2. Progress'
  BY DEF Finish, Progress
<1> QED BY <1>1, <1>2 DEF TypeInv

LEMMA TypeEmitChunk == ASSUME TypeInv, EmitChunk PROVE TypeInv'
<1> USE DEF TypeInv
<1>1. Length \in Nat /\ Address \in Nat /\ Length > 0
  BY DEF TypeOK, EmitChunk, Progress
<1>2. RangeLength \in Nat /\ RangeLength <= Length
  BY <1>1, RangeFact
<1>3. Emitted(Length) \in Seq(Byte \cup {-1})
  <2> DEFINE e == Emitted(Length)
  <2>1. ASSUME NEW i \in 1 .. Length
        PROVE  (IF i <= SCRATCH_SIZE THEN mScratch[i - 1] ELSE -1) \in Byte \cup {-1}
    <3>1. CASE i <= SCRATCH_SIZE
      <4>1. i - 1 \in 0 .. SCRATCH_SIZE - 1
        BY <3>1, <1>1, ScratchFact
      <4> QED BY <4>1, <3>1 DEF TypeOK
    <3>2. CASE ~(i <= SCRATCH_SIZE)
      BY <3>2
    <3> QED BY <3>1, <3>2
  <2>2. e \in [1 .. Length -> Byte \cup {-1}]
    BY <2>1 DEF Emitted
  <2> HIDE DEF e
  <2> QED BY <2>2, <1>1 DEF e
<1>4. mResponse' \in Seq(Byte \cup {-1})
  BY <1>3 DEF EmitChunk, TypeOK, ReadResponse
<1>5. Address' \in Nat /\ Length' \in Nat /\ step' \in Steps
  BY <1>1, <1>2 DEF EmitChunk, Steps
<1>6. TypeOK'
  BY <1>4, <1>5 DEF TypeOK, EmitChunk, fixed
<1>7. Progress'
  <2>1. req \in Requests /\ req.addr \in Nat /\ req.len \in Nat
    BY RequestFact DEF EmitChunk, Progress
  <2> QED BY <1>1, <1>2, <2>1 DEF EmitChunk, Progress
<1> QED BY <1>6, <1>7

LEMMA TypePreparePage == ASSUME TypeInv, PreparePage PROVE TypeInv'
<1> USE DEF TypeInv
<1>1. pages' \in [Page -> PageState]
  <2> DEFINE p == PageOf(at)
             clear == Lifted(platform.agent, req.write, pages[p].attr)
  <2>1. pages' = pages \/ pages' = [pages EXCEPT ![p].attr = @ \ clear]
    BY DEF PreparePage
  <2> HIDE DEF p, clear
  <2>2. CASE p \in Page /\ pages' = [pages EXCEPT ![p].attr = @ \ clear]
    <3>1. pages[p] \in PageState
      BY <2>2 DEF TypeOK
    <3>2. [pages[p] EXCEPT !.attr = @ \ clear] \in PageState
      BY <3>1 DEF PageState
    <3> QED BY <2>2, <3>2 DEF TypeOK
  <2>3. CASE p \notin Page /\ pages' = [pages EXCEPT ![p].attr = @ \ clear]
    BY <2>3 DEF TypeOK
  <2> QED BY <2>1, <2>2, <2>3 DEF TypeOK
<1>2. /\ step' \in Steps /\ reply' \in {"none", "OK", "data", "E"}
      /\ AttributesChanged' \in BOOLEAN /\ refused' \in BOOLEAN
  BY DEF PreparePage, Fail, Steps, TypeOK
<1>3. TypeOK'
  BY <1>1, <1>2 DEF TypeOK, PreparePage, fixed, stub
<1>4. Progress'
  <2>1. step' \in {"copy", "idle"}
    BY DEF PreparePage, Fail
  <2>2. step = "page" /\ left > 0 /\ RangeLength' = RangeLength
    BY DEF PreparePage, stub, RangeLength
  <2> QED BY <2>1, <2>2 DEF PreparePage, Progress, stub
<1> QED BY <1>3, <1>4

LEMMA TypeCheckPage == ASSUME TypeInv, CheckPage PROVE TypeInv'
<1> USE DEF TypeInv
<1>1. step' \in {"copy", "idle"} /\ reply' \in {"none", "OK", "data", "E"}
  BY DEF CheckPage, Fail, TypeOK
<1>2. TypeOK'
  BY <1>1 DEF TypeOK, CheckPage, fixed, stub, Steps
<1>3. step = "page" /\ left > 0 /\ RangeLength' = RangeLength
  BY DEF CheckPage, stub, RangeLength
<1>4. Progress'
  BY <1>1, <1>3 DEF CheckPage, Progress, stub
<1> QED BY <1>2, <1>4

\* A copy stays inside the chunk, in memory and in mScratch.
LEMMA TypeCopyMem ==
    ASSUME TypeInv, step \in {"page", "copy"}, NEW n \in Nat, n <= left, CopyMem(n)
    PROVE  mem' \in [Addr -> Byte] /\ mScratch' \in [0 .. SCRATCH_SIZE - 1 -> Byte]
<1> USE DEF TypeInv
<1>1. /\ Address \in Nat /\ Length \in Nat /\ at \in Nat /\ left \in Nat
      /\ Address <= at /\ at + left = Address + RangeLength
      /\ Address + Length = req.addr + req.len /\ req \in Requests
  BY ScratchFact DEF TypeOK, Progress
<1>2. RangeLength \in Nat /\ RangeLength <= SCRATCH_SIZE /\ RangeLength <= Length
  BY <1>1, RangeFact
<1>3. CASE req.write
  <2>1. ASSUME NEW a \in at .. at + n - 1
        PROVE  mScratch[Offset(a)] \in Byte
    <3>1. Offset(a) \in 0 .. SCRATCH_SIZE - 1
      BY <1>1, <1>2, ScratchFact DEF Offset
    <3> QED BY <3>1 DEF TypeOK
  <2> QED BY <1>3, <2>1 DEF CopyMem, TypeOK
<1>4. CASE ~req.write
  <2>1. ASSUME NEW i \in 0 .. SCRATCH_SIZE - 1, Address + i \in at .. at + n - 1
        PROVE  mem[Address + i] \in Byte
    <3>1. Address + i \in Addr
      BY <2>1, <1>1, <1>2, RequestFact, TotalFact
    <3> QED BY <3>1 DEF TypeOK
  <2> QED BY <1>4, <2>1 DEF CopyMem, TypeOK
<1> QED BY <1>3, <1>4

LEMMA TypeCopyPage == ASSUME TypeInv, CopyPage PROVE TypeInv'
<1> USE DEF TypeInv
<1>1. /\ step = "copy" /\ step' \in {"restore", "fault"} /\ left > 0
      /\ at \in Nat /\ left \in Nat
  BY ScratchFact DEF CopyPage, Progress, TypeOK
<1>2. mem' \in [Addr -> Byte] /\ mScratch' \in [0 .. SCRATCH_SIZE - 1 -> Byte]
  <2>1. CASE CopyMem(LengthInPage)
    BY <2>1, <1>1, InPageFact, TypeCopyMem
  <2>2. CASE UNCHANGED <<mem, mScratch>>
    BY <2>2 DEF TypeOK
  <2> QED BY <2>1, <2>2 DEF CopyPage
<1>3. TypeOK'
  BY <1>1, <1>2 DEF TypeOK, CopyPage, fixed, stub, Steps
<1>4. RangeLength' = RangeLength
  BY DEF CopyPage, stub, RangeLength
<1>5. Progress'
  BY <1>1, <1>4 DEF CopyPage, Progress, stub
<1> QED BY <1>3, <1>5

LEMMA TypeRestorePage == ASSUME TypeInv, RestorePage PROVE TypeInv'
<1> USE DEF TypeInv
<1>1. /\ at \in Nat /\ left \in Nat /\ left > 0 /\ left <= SCRATCH_SIZE
  BY ScratchFact DEF RestorePage, Progress, TypeOK
<1>2. LengthInPage \in Nat /\ LengthInPage <= left
  BY <1>1, InPageFact
<1>3. pages' \in [Page -> PageState]
  <2> DEFINE p == PageOf(at)
  <2>1. pages' = pages \/ pages' = [pages EXCEPT ![p].attr = @ \cup layout[p].attr]
    BY DEF RestorePage, Restored
  <2>2. layout \in [Page -> PageState]
    BY LayoutAssumption DEF TypeOK
  <2> HIDE DEF p
  <2>3. CASE p \in Page /\ pages' = [pages EXCEPT ![p].attr = @ \cup layout[p].attr]
    <3>1. [pages[p] EXCEPT !.attr = @ \cup layout[p].attr] \in PageState
      BY <2>2, <2>3 DEF PageState, TypeOK
    <3> QED BY <2>3, <3>1 DEF TypeOK
  <2>4. CASE p \notin Page /\ pages' = [pages EXCEPT ![p].attr = @ \cup layout[p].attr]
    BY <2>4 DEF TypeOK
  <2> QED BY <2>1, <2>3, <2>4 DEF TypeOK
<1>4. at' \in Nat /\ left' \in 0 .. SCRATCH_SIZE
  BY <1>1, <1>2, ScratchFact DEF RestorePage
<1>5. TypeOK'
  BY <1>3, <1>4 DEF TypeOK, RestorePage, fixed, stub, Steps
<1>6. RangeLength' = RangeLength
  BY DEF RestorePage, stub, RangeLength
<1>7. at' + left' = at + left /\ at' >= at
  BY <1>1, <1>2 DEF RestorePage
<1>8. Address \in Nat
  BY DEF TypeOK
<1>9. Progress'
  BY <1>1, <1>4, <1>6, <1>7, <1>8 DEF RestorePage, Progress, stub
<1> QED BY <1>5, <1>9

LEMMA TypePeiAccess == ASSUME TypeInv, PeiAccess PROVE TypeInv'
<1> USE DEF TypeInv
<1>1. /\ at \in Nat /\ left \in Nat /\ left <= SCRATCH_SIZE /\ step = "page"
      /\ Address \in Nat
  BY ScratchFact DEF PeiAccess, TypeOK
<1>2. /\ step' \in {"page", "fault", "idle"} /\ reply' \in {"none", "OK", "data", "E"}
      /\ at' \in Nat /\ left' \in 0 .. SCRATCH_SIZE
      /\ at' + left' = at + left /\ at' >= at
  BY <1>1, ScratchFact DEF PeiAccess, Fail, TypeOK
<1>3. mem' \in [Addr -> Byte] /\ mScratch' \in [0 .. SCRATCH_SIZE - 1 -> Byte]
  <2>1. CASE CopyMem(left)
    BY <2>1, <1>1, TypeCopyMem
  <2>2. CASE UNCHANGED <<mem, mScratch>>
    BY <2>2 DEF TypeOK
  <2> QED BY <2>1, <2>2 DEF PeiAccess
<1>4. TypeOK'
  BY <1>2, <1>3 DEF TypeOK, PeiAccess, fixed, stub, Steps
<1>5. RangeLength' = RangeLength
  BY DEF PeiAccess, stub, RangeLength
<1>6. Progress'
  BY <1>1, <1>2, <1>5 DEF PeiAccess, Progress, stub
<1> QED BY <1>4, <1>6

LEMMA TypeEndAccess == ASSUME TypeInv, EndAccess PROVE TypeInv'
<1> USE DEF TypeInv
<1>1. Length \in Nat /\ Address \in Nat /\ Length > 0
  BY DEF TypeOK, EndAccess, Progress
<1>2. RangeLength \in Nat /\ RangeLength <= Length
  BY <1>1, RangeFact
<1>3. Address' \in Nat /\ Length' \in Nat /\ step' \in {"chunk", "emit"}
  BY <1>1, <1>2 DEF EndAccess
<1>4. TypeOK'
  BY <1>3 DEF TypeOK, EndAccess, fixed, Steps
<1>5. Progress'
  <2>1. req \in Requests /\ req.addr \in Nat /\ req.len \in Nat
    BY RequestFact DEF EndAccess, Progress
  <2> QED BY <1>1, <1>2, <2>1 DEF EndAccess, Progress
<1> QED BY <1>4, <1>5

LEMMA TypeStep == TypeInv /\ [Next]_vars => TypeInv'
<1> SUFFICES ASSUME TypeInv, [Next]_vars PROVE TypeInv'
    OBVIOUS
<1>1. CASE UNCHANGED vars
  BY <1>1 DEF TypeInv, TypeOK, Progress, RangeLength, vars, fixed, stub
<1>2. CASE Next
  BY <1>2, TypeReceive, TypeStartChunk, TypeFinish, TypeEmitChunk, TypePreparePage,
     TypeCheckPage, TypeCopyPage, TypeRestorePage, TypePeiAccess, TypeEndAccess DEF Next
<1> QED BY <1>1, <1>2

\* Whatever is asked for, the stub stays inside mScratch and inside the request: Length
\* is never counted below zero (the loop of ProcessMemoryCommand is left when it is 0),
\* nor is AccessMemory's count.
THEOREM MemoryTypeCorrect == Spec => []TypeOK
<1>1. Spec => []TypeInv
  BY TypeInit, TypeStep, PTL DEF Spec
<1> QED BY <1>1, PTL DEF TypeInv

-----------------------------------------------------------------------------
\* The attributes of the pages.

\* Nothing is added to a page, and a page whose attributes were lifted can be copied.
Lifting ==
    /\ \A p \in Page : /\ pages[p].mapped = layout[p].mapped
                        /\ pages[p].device = layout[p].device
                        /\ pages[p].user = layout[p].user
                        /\ pages[p].attr \subseteq layout[p].attr
    /\ (step = "copy" /\ AttributesChanged /\ PageOf(at) \in Page) =>
           IF req.write THEN CpuWrites(pages[PageOf(at)]) ELSE CpuReads(pages[PageOf(at)])
    /\ (platform.agent \notin {"dxe", "mm"} \/ step \notin {"copy", "restore", "fault"})
           => ~AttributesChanged

AttributeInv == TypeInv /\ AttributesKept /\ Lifting

\* A multiple of s that is less than s away from zero is zero.
LEMMA SmallMultiple ==
    ASSUME NEW s \in Nat, s > 0, NEW x \in Int, s * x < s, s * x > -s
    PROVE  x = 0
<1>1. CASE x >= 1
  <2>1. s * x >= s * 1
    BY <1>1
  <2> QED BY <2>1
<1>2. CASE x <= -1
  <2>1. s * x <= s * (-1)
    BY <1>2
  <2> QED BY <2>1
<1> QED BY <1>1, <1>2

\* A copy of LengthInPage bytes stays in one page.
LEMMA SamePage ==
    ASSUME at \in Nat, left \in Nat, left > 0, NEW a \in at .. at + LengthInPage - 1
    PROVE  PageOf(a) = PageOf(at)
<1> DEFINE s == EFI_PAGE_SIZE
           r == at % s
           q == at \div s
           u == a \div s
           v == a % s
<1>1. LengthInPage <= s - r /\ LengthInPage \in Nat
  BY MinimumFact, RestFact, InPageFact DEF LengthInPage
<1>2. a \in Nat /\ s \in Nat /\ s > 0
  BY <1>1, PageFact
<1>3. at = s * q + r /\ r \in 0 .. s - 1 /\ q \in Int
  BY <1>2
<1>4. a = s * u + v /\ v \in 0 .. s - 1 /\ u \in Int
  BY <1>2
<1>5. s * (u - q) = s * u - s * q
  BY <1>2, <1>3, <1>4
<1> HIDE DEF s, r, q, u, v
<1>6. s * u \in Int /\ s * q \in Int
  BY <1>2, <1>3, <1>4
<1>7. s * (u - q) < s /\ s * (u - q) > -s
  <2> DEFINE x == s * u
             y == s * q
  <2>1. a = x + v /\ at = y + r /\ x \in Int /\ y \in Int
    BY <1>3, <1>4, <1>6
  <2>2. a >= at /\ a <= at + s - r - 1
    BY <1>1, <1>2, <1>3
  <2> HIDE DEF x, y
  <2>3. x - y < s /\ x - y > -s
    BY <2>1, <2>2, <1>2, <1>3, <1>4
  <2> QED BY <2>3, <1>5 DEF x, y
<1>8. u - q = 0
  BY <1>2, <1>3, <1>4, <1>7, SmallMultiple
<1> QED BY <1>3, <1>4, <1>8 DEF PageOf, u, q, s

LEMMA AttributeInit == Init => AttributeInv
<1> SUFFICES ASSUME Init PROVE AttributeInv
    OBVIOUS
<1>1. pages = layout /\ ~AttributesChanged /\ step = "idle"
  BY DEF Init
<1>2. AttributesKept /\ Lifting
  BY <1>1 DEF AttributesKept, Lifting
<1> QED BY <1>2, TypeInit DEF AttributeInv

\* A step that touches no page: it may begin none either.
LEMMA AttributeUntouched ==
    ASSUME AttributeInv, ~AttributesChanged, ~AttributesChanged', UNCHANGED <<pages, layout>>
    PROVE  AttributesKept' /\ Lifting'
<1>1. AttributesKept'
  BY DEF AttributeInv, AttributesKept, Page
<1>2. Lifting'
  BY DEF AttributeInv, Lifting, Page
<1> QED BY <1>1, <1>2

LEMMA AttributePreparePage == ASSUME AttributeInv, PreparePage PROVE AttributesKept' /\ Lifting'
<1> DEFINE p == PageOf(at)
           attr == pages[p].attr
           clear == Lifted(platform.agent, req.write, attr)
<1>1. /\ step = "page" /\ platform.agent \in {"dxe", "mm"} /\ ~AttributesChanged
      /\ \A q \in Page : pages[q] = layout[q]
      /\ UNCHANGED <<layout, platform, req, at>>
  BY DEF PreparePage, AttributeInv, AttributesKept, Lifting, fixed, stub
<1>2. CASE pages' = pages /\ ~AttributesChanged'
  BY <1>1, <1>2, AttributeUntouched
<1>3. CASE /\ pages[p].mapped /\ ~(platform.agent = "dxe" /\ DxeRefuses(attr))
           /\ step' = "copy"
           /\ pages' = [pages EXCEPT ![p].attr = @ \ clear]
           /\ AttributesChanged' = (clear # {})
  <2>1. \A q \in Page : q # p => pages'[q] = layout[q]
    BY <1>1, <1>3 DEF AttributeInv, TypeInv, TypeOK
  <2>2. CASE p \in Page
    <3>1. /\ pages'[p] = [pages[p] EXCEPT !.attr = @ \ clear]
          /\ pages[p] = layout[p] /\ pages[p] \in PageState
      BY <2>2, <1>1, <1>3 DEF AttributeInv, TypeInv, TypeOK
    <3> HIDE DEF p
    <3>2. /\ pages'[p].mapped = layout[p].mapped /\ pages'[p].device = layout[p].device
          /\ pages'[p].user = layout[p].user /\ pages'[p].attr = layout[p].attr \ clear
      BY <3>1 DEF PageState
    <3>3. clear = {} => pages'[p] = layout[p]
      BY <3>1 DEF PageState
    <3>4. clear # {} => IF req.write THEN CpuWrites(pages'[p]) ELSE CpuReads(pages'[p])
      BY <1>1, <1>3, <3>1, <3>2 DEF Lifted, DxeRefuses, CpuWrites, CpuReads, PageState
    <3>5. p = PageOf(at)'
      BY <1>1 DEF p, PageOf
    <3>6. AttributesKept'
      <4> HIDE DEF clear, attr
      <4> QED BY <1>1, <1>3, <2>1, <3>3, <3>5 DEF AttributesKept, Page
    <3>7. Lifting'
      <4>1. \A q \in Page : /\ pages'[q].mapped = layout[q].mapped
                            /\ pages'[q].device = layout[q].device
                            /\ pages'[q].user = layout[q].user
                            /\ pages'[q].attr \subseteq layout[q].attr
        BY <2>1, <3>2
      <4> HIDE DEF clear, attr
      <4>2. (step' = "copy" /\ AttributesChanged') =>
               IF req.write THEN CpuWrites(pages'[p]) ELSE CpuReads(pages'[p])
        BY <1>3, <3>4
      <4> QED BY <4>1, <4>2, <1>1, <1>3, <3>5 DEF Lifting, Page
    <3> QED BY <3>6, <3>7
  <2>3. CASE p \notin Page
    <3>1. \A q \in Page : pages'[q] = layout[q]
      BY <2>1, <2>3
    <3>2. PageOf(at)' \notin Page
      BY <1>1, <2>3 DEF PageOf
    <3>3. AttributesKept'
      BY <1>1, <3>1 DEF AttributesKept, Page
    <3> HIDE DEF p, clear, attr
    <3>4. Lifting'
      BY <1>1, <1>3, <3>1, <3>2 DEF Lifting, Page
    <3> QED BY <3>3, <3>4
  <2> QED BY <2>2, <2>3
<1> QED BY <1>1, <1>2, <1>3 DEF PreparePage, Fail

LEMMA AttributeCopyPage == ASSUME AttributeInv, CopyPage PROVE AttributesKept' /\ Lifting'
<1>1. /\ step = "copy" /\ UNCHANGED <<pages, layout, platform, req, at, AttributesChanged>>
      /\ at \in Nat /\ left \in Nat /\ left > 0
  BY ScratchFact DEF CopyPage, AttributeInv, TypeInv, TypeOK, Progress, fixed, stub
<1>2. CASE ~AttributesChanged
  BY <1>1, <1>2, AttributeUntouched
<1>3. CASE AttributesChanged /\ step' = "restore"
  <2>1. PageOf(at)' = PageOf(at)
    BY <1>1 DEF PageOf
  <2>2. AttributesKept'
    BY <1>1, <1>3, <2>1 DEF AttributeInv, AttributesKept, Page
  <2>3. Lifting'
    BY <1>1, <1>3 DEF AttributeInv, Lifting, Page
  <2> QED BY <2>2, <2>3
<1>4. CASE AttributesChanged /\ ~Permitted(LengthInPage)
  \* The page cannot be one of the address space, and nothing was lifted.
  <2>1. PICK a \in at .. at + LengthInPage - 1 :
               ~(IF req.write THEN CpuWrites(pages[PageOf(a)]) ELSE CpuReads(pages[PageOf(a)]))
    BY <1>4 DEF Permitted
  <2>2. PageOf(a) = PageOf(at)
    BY <1>1, SamePage
  <2>3. PageOf(at) \notin Page
    BY <1>1, <1>4, <2>1, <2>2 DEF AttributeInv, Lifting
  <2>4. \A q \in Page : pages[q] = layout[q]
    BY <2>3 DEF AttributeInv, AttributesKept
  <2>5. step' = "fault"
    BY <1>4 DEF CopyPage
  <2>6. AttributesKept'
    BY <1>1, <2>4 DEF AttributesKept, Page
  <2>7. Lifting'
    BY <1>1, <2>5 DEF AttributeInv, Lifting, Page
  <2> QED BY <2>6, <2>7
<1> QED BY <1>2, <1>3, <1>4 DEF CopyPage

LEMMA AttributeRestorePage == ASSUME AttributeInv, RestorePage PROVE AttributesKept' /\ Lifting'
<1> DEFINE p == PageOf(at)
<1>1. /\ step = "restore" /\ step' = "page" /\ ~AttributesChanged' /\ layout' = layout
      /\ pages \in [Page -> PageState] /\ layout \in [Page -> PageState]
  BY LayoutAssumption DEF RestorePage, AttributeInv, TypeInv, TypeOK, fixed
<1>2. CASE ~AttributesChanged
  BY <1>1, <1>2, AttributeUntouched DEF RestorePage
<1>3. CASE AttributesChanged
  <2>1. pages' = [pages EXCEPT ![p].attr = @ \cup layout[p].attr]
    BY <1>3 DEF RestorePage, Restored
  <2>2. \A q \in Page : q # p => pages[q] = layout[q]
    BY DEF AttributeInv, AttributesKept
  <2> HIDE DEF p
  <2>3. ASSUME NEW q \in Page PROVE pages'[q] = layout[q]
    <3>1. CASE q # p
      BY <1>1, <2>1, <2>2, <3>1
    <3>2. CASE q = p
      <4>1. /\ pages[p].mapped = layout[p].mapped /\ pages[p].device = layout[p].device
            /\ pages[p].user = layout[p].user /\ pages[p].attr \subseteq layout[p].attr
        BY <3>2 DEF AttributeInv, Lifting
      <4>2. pages'[p] = [pages[p] EXCEPT !.attr = @ \cup layout[p].attr]
        BY <1>1, <2>1, <3>2
      <4>3. pages[p].attr \cup layout[p].attr = layout[p].attr
        BY <4>1
      <4>4. pages[p] \in PageState /\ layout[p] \in PageState
        BY <1>1, <3>2
      <4> QED BY <3>2, <4>1, <4>2, <4>3, <4>4 DEF PageState
    <3> QED BY <3>1, <3>2
  <2>4. AttributesKept' /\ Lifting'
    BY <1>1, <2>3 DEF AttributesKept, Lifting, Page
  <2> QED BY <2>4
<1> QED BY <1>2, <1>3

\* The other actions leave the attributes alone.
LEMMA AttributeOthers ==
    ASSUME AttributeInv,
           \/ \E r \in Requests : Receive(r)
           \/ StartChunk \/ EmitChunk \/ Finish \/ CheckPage \/ PeiAccess \/ EndAccess
    PROVE  AttributesKept' /\ Lifting'
<1>1. UNCHANGED <<pages, layout>>
  BY DEF Receive, StartChunk, EmitChunk, Finish, CheckPage, PeiAccess, EndAccess, fixed
<1>2. step \in {"idle", "chunk", "emit", "page"}
  BY DEF Receive, StartChunk, EmitChunk, Finish, CheckPage, PeiAccess, EndAccess
<1>3. ~AttributesChanged
  BY <1>2 DEF AttributeInv, Lifting
<1>4. ~AttributesChanged'
  BY <1>3 DEF Receive, StartChunk, EmitChunk, Finish, CheckPage, PeiAccess, EndAccess
<1> QED BY <1>1, <1>3, <1>4, AttributeUntouched

LEMMA AttributeStep == AttributeInv /\ [Next]_vars => AttributeInv'
<1> SUFFICES ASSUME AttributeInv, [Next]_vars PROVE AttributeInv'
    OBVIOUS
<1>1. TypeInv'
  BY TypeStep DEF AttributeInv
<1>2. CASE UNCHANGED vars
  <2>1. UNCHANGED <<pages, layout, step, at, AttributesChanged, platform, req>>
    BY <1>2 DEF vars, fixed, stub
  <2>2. UNCHANGED PageOf(at)
    BY <2>1 DEF PageOf
  <2>3. AttributesKept'
    BY <2>1, <2>2 DEF AttributeInv, AttributesKept, Page
  <2>4. Lifting'
    BY <2>1, <2>2 DEF AttributeInv, Lifting, Page, CpuReads, CpuWrites
  <2> QED BY <1>1, <2>3, <2>4 DEF AttributeInv
<1>3. CASE Next
  <2>1. AttributesKept' /\ Lifting'
    BY <1>3, AttributePreparePage, AttributeCopyPage, AttributeRestorePage, AttributeOthers
       DEF Next
  <2> QED BY <1>1, <2>1 DEF AttributeInv
<1> QED BY <1>2, <1>3

\* The protection of the firmware survives the debugger (AccessMemory of DXE and of MM),
\* whatever it asks for and whatever the attribute service refuses.
THEOREM ProtectionKept == Spec => []AttributesKept
<1>1. Spec => []AttributeInv
  BY AttributeInit, AttributeStep, PTL DEF Spec
<1> QED BY <1>1, PTL DEF AttributeInv

-----------------------------------------------------------------------------
\* What a write has written.

\* A write is one chunk; what is before at, and at the end of a page also the bytes just
\* copied, has been written from mScratch, which has the data of the request.
Writing ==
    /\ step = "emit" => ~req.write
    /\ (step # "idle" /\ ~req.write) => mem = before
    /\ (step = "chunk" /\ req.write) =>
           /\ mem = Overlay(Address - req.addr)
           /\ Address = req.addr \/ Length = 0
    /\ (step \in {"page", "copy", "restore"} /\ req.write) =>
           /\ Address = req.addr /\ RangeLength = req.len
           /\ \A i \in 0 .. req.len - 1 : mScratch[i] = req.data[i + 1]
    /\ (step \in {"page", "copy"} /\ req.write) => mem = Overlay(at - req.addr)
    /\ (step = "restore" /\ req.write) => mem = Overlay(at + LengthInPage - req.addr)
    /\ (step = "page" /\ req.write) => at = req.addr \/ at % EFI_PAGE_SIZE = 0 \/ left = 0

WriteInv == TypeInv /\ Writing /\ WritesExactly

\* A copy of n bytes writes the n bytes of the request that come next.
LEMMA OverlayNext ==
    ASSUME TypeInv, Writing, step \in {"page", "copy"}, req.write,
           NEW n \in Nat, n <= left, CopyMem(n)
    PROVE  mem' = Overlay(at + n - req.addr)
<1>1. /\ Address = req.addr /\ RangeLength = req.len /\ mem = Overlay(at - req.addr)
      /\ \A i \in 0 .. req.len - 1 : mScratch[i] = req.data[i + 1]
      /\ at \in Nat /\ left \in Nat /\ Address <= at /\ at + left = Address + RangeLength
      /\ req \in Requests
  BY ScratchFact DEF TypeInv, TypeOK, Progress, Writing
<1>2. req.addr \in Nat /\ req.len \in Nat
  BY <1>1, RequestFact
<1>3. mem' = [a \in Addr |-> IF a \in at .. at + n - 1 THEN mScratch[a - Address] ELSE mem[a]]
  BY DEF CopyMem, Offset
<1>4. ASSUME NEW a \in Addr
      PROVE  (IF a \in at .. at + n - 1 THEN mScratch[a - Address] ELSE mem[a])
                = IF a \in req.addr .. req.addr + (at + n - req.addr) - 1
                  THEN req.data[a - req.addr + 1] ELSE before[a]
  <2>1. a \in Nat
    BY TotalFact
  <2>2. mem[a] = IF a \in req.addr .. req.addr + (at - req.addr) - 1
                 THEN req.data[a - req.addr + 1] ELSE before[a]
    BY <1>1 DEF Overlay
  <2>3. CASE a \in at .. at + n - 1
    <3>1. a - Address \in 0 .. req.len - 1
      BY <1>1, <1>2, <2>1, <2>3
    <3>2. a \in req.addr .. req.addr + (at + n - req.addr) - 1
      BY <1>1, <1>2, <2>1, <2>3
    <3> QED BY <1>1, <2>3, <3>1, <3>2
  <2>4. CASE a \notin at .. at + n - 1
    <3>1. a \in req.addr .. req.addr + (at + n - req.addr) - 1
             <=> a \in req.addr .. req.addr + (at - req.addr) - 1
      BY <1>1, <1>2, <2>1, <2>4
    <3> QED BY <2>2, <2>4, <3>1
  <2> QED BY <2>3, <2>4
<1> QED BY <1>3, <1>4 DEF Overlay

\* What follows the rest of a page is the beginning of one.
LEMMA PageEnd ==
    ASSUME at \in Nat
    PROVE  (at + (EFI_PAGE_SIZE - (at % EFI_PAGE_SIZE))) % EFI_PAGE_SIZE = 0
<1> DEFINE s == EFI_PAGE_SIZE
           r == at % s
           q == at \div s
           e == at + (s - r)
           x == e \div s
           y == e % s
<1>1. s \in Nat /\ s > 0
  BY PageFact
<1>2. at = s * q + r /\ r \in 0 .. s - 1 /\ q \in Int
  BY <1>1
<1>3. e \in Nat
  BY <1>1, <1>2
<1>4. e = s * x + y /\ y \in 0 .. s - 1 /\ x \in Int
  BY <1>1, <1>3
<1>5. s * (q + 1 - x) = s * q + s - s * x
  BY <1>1, <1>2, <1>4
<1>6. e = s * q + s /\ s * q \in Int /\ s * x \in Int
  BY <1>1, <1>2, <1>4
<1> HIDE DEF s, r, q, e, x, y
<1>7. s * (q + 1 - x) = y
  <2> DEFINE m == s * q
             n == s * x
  <2>1. e = m + s /\ e = n + y /\ m \in Int /\ n \in Int
    BY <1>4, <1>6
  <2> HIDE DEF m, n
  <2>2. m + s - n = y
    BY <2>1, <1>1, <1>4
  <2> QED BY <2>2, <1>5 DEF m, n
<1>8. q + 1 - x = 0
  BY <1>1, <1>2, <1>4, <1>7, SmallMultiple
<1>9. y = 0
  BY <1>1, <1>7, <1>8
<1> QED BY <1>9 DEF y, e, r, s

LEMMA WriteInit == Init => WriteInv
<1> SUFFICES ASSUME Init PROVE WriteInv
    OBVIOUS
<1>1. step = "idle" /\ reply = "none" /\ mem = before
  BY DEF Init
<1>2. Writing
  BY <1>1 DEF Writing
<1>3. WritesExactly
  BY <1>1 DEF WritesExactly
<1> QED BY <1>2, <1>3, TypeInit DEF WriteInv

LEMMA WriteReceive ==
    ASSUME WriteInv, NEW r \in Requests, Receive(r) PROVE Writing' /\ WritesExactly'
<1>2. req' = r /\ before' = mem /\ mem' = mem
  BY DEF Receive
<1>3. r.write \in BOOLEAN /\ r.addr \in Nat /\ r.len \in Nat
  BY RequestFact
<1>4. Overlay(0)' = before'
  <2>1. mem \in [Addr -> Byte]
    BY DEF WriteInv, TypeInv, TypeOK
  <2>2. \A a \in Addr : a \notin r.addr .. r.addr + 0 - 1
    BY <1>3, TotalFact
  <2> QED BY <1>2, <2>1, <2>2 DEF Overlay, Addr
<1>5. CASE r.write /\ Len(r.data) # r.len
  <2>1. step' = "idle" /\ reply' = "E"
    BY <1>5 DEF Receive
  <2>2. mem' = Overlay(0)' /\ 0 \in 0 .. req'.len
    BY <1>2, <1>3, <1>4
  <2>3. Writing'
    BY <2>1 DEF Writing
  <2>4. WritesExactly'
    BY <1>2, <1>5, <2>1, <2>2 DEF WritesExactly
  <2> QED BY <2>3, <2>4
<1>6. CASE ~(r.write /\ Len(r.data) # r.len)
  <2>1. step' = "chunk" /\ Address' = r.addr
    BY <1>6 DEF Receive
  <2>2. Address' - req'.addr = 0
    BY <1>2, <1>3, <2>1
  <2>3. mem' = Overlay(Address - req.addr)'
    BY <1>2, <1>4, <2>2 DEF Overlay
  <2>4. Writing'
    BY <1>2, <2>1, <2>3 DEF Writing
  <2>5. WritesExactly'
    BY <2>1 DEF WritesExactly
  <2> QED BY <2>4, <2>5
<1> QED BY <1>5, <1>6

LEMMA WriteStartChunk == ASSUME WriteInv, StartChunk PROVE Writing' /\ WritesExactly'
<1>1. /\ step = "chunk" /\ Length > 0 /\ Length \in Nat /\ Address \in Nat
      /\ UNCHANGED <<req, before, mem, Address, Length>>
      /\ at' = Address /\ left' = RangeLength
      /\ req \in Requests /\ Address + Length = req.addr + req.len
  BY DEF StartChunk, fixed, stub, WriteInv, TypeInv, TypeOK, Progress
<1>2. step' \in {"page", "emit"} /\ (step' = "emit" => ~req.write)
  BY DEF StartChunk
<1>3. WritesExactly'
  BY <1>2 DEF WritesExactly
<1>4. CASE ~req.write
  <2>1. mem' = before' /\ ~req'.write
    BY <1>1, <1>4 DEF WriteInv, Writing
  <2>2. Writing'
    BY <1>2, <2>1 DEF Writing
  <2> QED BY <1>3, <2>2
<1>5. CASE req.write
  <2>1. req.addr \in Nat /\ req.len \in Nat /\ req.len <= SCRATCH_SIZE
    BY <1>1, <1>5, RequestFact DEF WriteInv, TypeInv, Progress
  <2>2. Address = req.addr /\ Length = req.len
    BY <1>1, <1>5, <2>1 DEF WriteInv, Writing
  <2>3. RangeLength = req.len /\ RangeLength' = req.len
    BY <1>1, <2>1, <2>2, ScratchFact DEF RangeLength, Minimum
  <2>4. \A i \in 0 .. req.len - 1 : mScratch'[i] = req.data[i + 1]
    <3>1. mScratch' = [i \in DOMAIN mScratch |->
                         IF i < RangeLength THEN req.data[Address - req.addr + i + 1]
                         ELSE mScratch[i]]
      BY <1>5 DEF StartChunk
    <3>2. DOMAIN mScratch = 0 .. SCRATCH_SIZE - 1
      BY DEF WriteInv, TypeInv, TypeOK
    <3>3. ASSUME NEW i \in 0 .. req.len - 1
          PROVE  /\ i \in 0 .. SCRATCH_SIZE - 1 /\ i < req.len
                 /\ Address - req.addr + i + 1 = i + 1
      BY <2>1, <2>2, ScratchFact
    <3> QED BY <2>3, <3>1, <3>2, <3>3
  <2>5. mem = Overlay(Address - req.addr)
    BY <1>1, <1>5 DEF WriteInv, Writing
  <2>6. mem' = Overlay(at - req.addr)'
    BY <1>1, <2>5 DEF Overlay, Addr
  <2>7. step' = "page"
    BY <1>5 DEF StartChunk
  <2> QED BY <1>1, <1>3, <1>5, <2>2, <2>3, <2>4, <2>6, <2>7 DEF Writing
<1> QED BY <1>3, <1>4, <1>5

LEMMA WriteFinish == ASSUME WriteInv, Finish PROVE Writing' /\ WritesExactly'
<1>1. /\ step = "chunk" /\ Length = 0 /\ Address \in Nat /\ step' = "idle"
      /\ UNCHANGED <<req, before, mem>>
      /\ reply' = IF req.write THEN "OK" ELSE "data"
      /\ req \in Requests /\ Address + Length = req.addr + req.len
  BY DEF Finish, fixed, stub, WriteInv, TypeInv, TypeOK, Progress
<1>2. Writing'
  BY <1>1 DEF Writing
<1>3. CASE req.write
  <2>1. Address - req.addr = req.len
    BY <1>1, RequestFact
  <2>2. mem = Overlay(req.len)
    BY <1>1, <1>3, <2>1 DEF WriteInv, Writing
  <2>3. mem' = Overlay(req.len)'
    BY <1>1, <2>2 DEF Overlay, Addr
  <2> QED BY <1>1, <1>2, <1>3, <2>3 DEF WritesExactly
<1>4. CASE ~req.write
  <2>1. mem = before
    BY <1>1, <1>4 DEF WriteInv, Writing
  <2> QED BY <1>1, <1>2, <1>4, <2>1 DEF WritesExactly
<1> QED BY <1>3, <1>4

LEMMA WriteEmitChunk == ASSUME WriteInv, EmitChunk PROVE Writing' /\ WritesExactly'
<1>1. /\ step = "emit" /\ step' = "chunk" /\ UNCHANGED <<req, before, mem>>
      /\ ~req.write /\ mem = before
  BY DEF EmitChunk, fixed, WriteInv, Writing
<1> QED BY <1>1 DEF Writing, WritesExactly

\* An access that is refused leaves a prefix that ends where a page begins, or nothing.
LEMMA WriteFail ==
    ASSUME WriteInv, step = "page", left > 0, Fail, UNCHANGED <<req, before, mem>>
    PROVE  Writing' /\ WritesExactly'
<1>1. /\ step' = "idle" /\ reply' = "E" /\ req \in Requests
      /\ at \in Nat /\ left \in Nat /\ Address <= at /\ at + left = Address + RangeLength
  BY ScratchFact DEF Fail, WriteInv, TypeInv, TypeOK, Progress
<1>2. Writing'
  BY <1>1 DEF Writing
<1>3. CASE ~req.write
  BY <1>1, <1>2, <1>3 DEF WriteInv, Writing, WritesExactly
<1>4. CASE req.write
  <2>1. /\ Address = req.addr /\ RangeLength = req.len /\ mem = Overlay(at - req.addr)
        /\ at = req.addr \/ at % EFI_PAGE_SIZE = 0
    BY <1>1, <1>4 DEF WriteInv, Writing
  <2>2. req.addr \in Nat /\ req.len \in Nat
    BY <1>1, RequestFact
  <2>3. PICK k \in 0 .. req.len : k = at - req.addr
    BY <1>1, <2>1, <2>2
  <2>4. mem' = Overlay(k)'
    BY <2>1, <2>3 DEF Overlay, Addr
  <2>5. k > 0 => (req.addr + k) % EFI_PAGE_SIZE = 0
    BY <1>1, <2>1, <2>2, <2>3
  <2>6. WritesExactly'
    BY <1>1, <1>4, <2>3, <2>4, <2>5 DEF WritesExactly
  <2> QED BY <1>2, <2>6
<1> QED BY <1>3, <1>4

\* An access that may go on.
LEMMA WriteBegin ==
    ASSUME WriteInv, step = "page", step' = "copy",
           UNCHANGED <<req, before, mem, Address, Length, at, mScratch>>
    PROVE  Writing' /\ WritesExactly'
<1>1. WritesExactly'
  BY DEF WritesExactly
<1>2. RangeLength' = RangeLength
  BY DEF RangeLength
<1>3. Overlay(at - req.addr)' = Overlay(at - req.addr)
  BY DEF Overlay, Addr
<1>4. Writing'
  BY <1>2, <1>3 DEF WriteInv, Writing
<1> QED BY <1>1, <1>4

LEMMA WriteChecked ==
    ASSUME WriteInv, PreparePage \/ CheckPage PROVE Writing' /\ WritesExactly'
<1>1. /\ step = "page" /\ left > 0
      /\ UNCHANGED <<req, before, mem, Address, Length, at, mScratch>>
      /\ step' = "copy" \/ Fail
  BY DEF PreparePage, CheckPage, stub
<1> QED BY <1>1, WriteFail, WriteBegin

LEMMA WriteCopyPage == ASSUME WriteInv, CopyPage PROVE Writing' /\ WritesExactly'
<1>1. /\ step = "copy" /\ step' \in {"restore", "fault"} /\ left > 0
      /\ at \in Nat /\ left \in Nat
      /\ UNCHANGED <<req, before, Address, Length, at, left>>
      /\ step' = "restore" => CopyMem(LengthInPage)
      /\ step' = "fault" => mem' = mem
  BY ScratchFact DEF CopyPage, WriteInv, TypeInv, TypeOK, Progress, stub
<1>2. WritesExactly'
  BY <1>1 DEF WritesExactly
<1>3. CASE ~req.write
  <2>1. mem' = before' /\ ~req'.write
    BY <1>1, <1>3 DEF CopyMem, WriteInv, Writing
  <2> QED BY <1>1, <1>2, <2>1 DEF Writing
<1>4. CASE req.write /\ step' = "fault"
  BY <1>1, <1>2, <1>4 DEF Writing
<1>5. CASE req.write /\ step' = "restore"
  <2>1. mem' = Overlay(at + LengthInPage - req.addr)
    BY <1>1, <1>5, InPageFact, OverlayNext DEF WriteInv
  <2>2. LengthInPage' = LengthInPage /\ RangeLength' = RangeLength
    BY <1>1 DEF LengthInPage, RangeLength
  <2>3. Overlay(at + LengthInPage - req.addr)' = Overlay(at + LengthInPage - req.addr)
    BY <1>1, <2>2 DEF Overlay, Addr
  <2>4. mScratch' = mScratch
    BY <1>1, <1>5 DEF CopyMem
  <2>5. Writing'
    BY <1>1, <1>5, <2>1, <2>2, <2>3, <2>4 DEF WriteInv, Writing
  <2> QED BY <1>2, <2>5
<1> QED BY <1>1, <1>3, <1>4, <1>5

LEMMA WriteRestorePage == ASSUME WriteInv, RestorePage PROVE Writing' /\ WritesExactly'
<1>1. /\ step = "restore" /\ step' = "page" /\ left > 0
      /\ at \in Nat /\ left \in Nat
      /\ UNCHANGED <<req, before, mem, Address, Length, mScratch>>
      /\ at' = at + LengthInPage /\ left' = left - LengthInPage /\ req \in Requests
  BY ScratchFact DEF RestorePage, WriteInv, TypeInv, TypeOK, Progress, stub
<1>2. WritesExactly'
  BY <1>1 DEF WritesExactly
<1>3. RangeLength' = RangeLength
  BY <1>1 DEF RangeLength
<1>4. at' % EFI_PAGE_SIZE = 0 \/ left' = 0
  <2>1. CASE LengthInPage = left
    BY <1>1, <2>1
  <2>2. CASE LengthInPage = EFI_PAGE_SIZE - (at % EFI_PAGE_SIZE)
    BY <1>1, <2>2, PageEnd
  <2> QED BY <2>1, <2>2 DEF LengthInPage, Minimum
<1>5. Overlay(at - req.addr)' = Overlay(at + LengthInPage - req.addr)
  <2>1. at' - req'.addr = at + LengthInPage - req.addr /\ req' = req /\ before' = before
    BY <1>1, InPageFact, RequestFact
  <2> QED BY ONLY <2>1 DEF Overlay, Addr
<1>6. Writing'
  BY <1>1, <1>3, <1>4, <1>5 DEF WriteInv, Writing
<1> QED BY <1>2, <1>6

LEMMA WritePeiAccess == ASSUME WriteInv, PeiAccess PROVE Writing' /\ WritesExactly'
<1>1. /\ step = "page" /\ left > 0 /\ at \in Nat /\ left \in Nat
      /\ UNCHANGED <<req, before, Address, Length>> /\ req \in Requests
  BY ScratchFact DEF PeiAccess, WriteInv, TypeInv, TypeOK, Progress, stub
<1>2. CASE Fail /\ UNCHANGED <<mem, mScratch, at, left>>
  BY <1>1, <1>2, WriteFail
<1>3. CASE step' = "fault" /\ UNCHANGED <<mem, mScratch, at, left>>
  BY <1>1, <1>3 DEF WriteInv, Writing, WritesExactly
<1>4. CASE CopyMem(left) /\ step' = "page" /\ at' = at + left /\ left' = 0
  <2>1. WritesExactly'
    BY <1>4 DEF WritesExactly
  <2>2. CASE ~req.write
    <3>1. mem' = before' /\ ~req'.write
      BY <1>1, <1>4, <2>2 DEF CopyMem, WriteInv, Writing
    <3> QED BY <1>4, <2>1, <3>1 DEF Writing
  <2>3. CASE req.write
    <3>1. mem' = Overlay(at + left - req.addr)
      BY <1>1, <1>4, <2>3, OverlayNext DEF WriteInv
    <3>2. Overlay(at - req.addr)' = Overlay(at + left - req.addr)
      <4>1. at' - req'.addr = at + left - req.addr /\ req' = req /\ before' = before
        BY <1>1, <1>4, RequestFact
      <4> QED BY ONLY <4>1 DEF Overlay, Addr
    <3>3. RangeLength' = RangeLength /\ mScratch' = mScratch
      BY <1>1, <1>4, <2>3 DEF RangeLength, CopyMem
    <3>4. Writing'
      BY <1>1, <1>4, <2>3, <3>1, <3>2, <3>3 DEF WriteInv, Writing
    <3> QED BY <2>1, <3>4
  <2> QED BY <2>2, <2>3
<1> QED BY <1>2, <1>3, <1>4 DEF PeiAccess

LEMMA WriteEndAccess == ASSUME WriteInv, EndAccess PROVE Writing' /\ WritesExactly'
<1>1. /\ step = "page" /\ left = 0 /\ Address \in Nat /\ Length \in Nat /\ at \in Nat
      /\ Length > 0 /\ at + left = Address + RangeLength
      /\ UNCHANGED <<req, before, mem>> /\ req \in Requests
      /\ Address + Length = req.addr + req.len
  BY DEF EndAccess, WriteInv, TypeInv, TypeOK, Progress
<1>2. step' \in {"chunk", "emit"}
  BY DEF EndAccess
<1>3. WritesExactly'
  BY <1>2 DEF WritesExactly
<1>4. CASE ~req.write
  <2>1. mem' = before' /\ ~req'.write
    BY <1>1, <1>4 DEF WriteInv, Writing
  <2> QED BY <1>2, <1>3, <2>1 DEF Writing
<1>5. CASE req.write
  <2>1. step' = "chunk" /\ Address' = Address + RangeLength /\ Length' = Length - RangeLength
    BY <1>5 DEF EndAccess
  <2>2. /\ Address = req.addr /\ RangeLength = req.len /\ mem = Overlay(at - req.addr)
    BY <1>1, <1>5 DEF WriteInv, Writing
  <2>3. req.addr \in Nat /\ req.len \in Nat
    BY <1>1, RequestFact
  <2>4. Length' = 0 /\ Address' = at
    BY <1>1, <2>1, <2>2, <2>3
  <2>5. mem' = Overlay(Address - req.addr)'
    BY <1>1, <2>2, <2>4 DEF Overlay, Addr
  <2>6. Writing'
    BY <1>1, <1>5, <2>1, <2>4, <2>5 DEF Writing
  <2> QED BY <1>3, <2>6
<1> QED BY <1>4, <1>5

LEMMA WriteStep == WriteInv /\ [Next]_vars => WriteInv'
<1> SUFFICES ASSUME WriteInv, [Next]_vars PROVE WriteInv'
    OBVIOUS
<1>1. TypeInv'
  BY TypeStep DEF WriteInv
<1>2. CASE UNCHANGED vars
  <2>1. /\ UNCHANGED <<step, req, before, mem, Address, Length, at, left, mScratch, reply>>
    BY <1>2 DEF vars, fixed, stub
  <2>2. Writing'
    BY <2>1 DEF WriteInv, Writing, Overlay, Addr, RangeLength, LengthInPage
  <2>3. WritesExactly'
    BY <2>1 DEF WriteInv, WritesExactly, Overlay, Addr
  <2> QED BY <1>1, <2>2, <2>3 DEF WriteInv
<1>3. CASE Next
  <2>1. Writing' /\ WritesExactly'
    BY <1>3, WriteReceive, WriteStartChunk, WriteFinish, WriteEmitChunk, WriteChecked,
       WriteCopyPage, WriteRestorePage, WritePeiAccess, WriteEndAccess DEF Next
  <2> QED BY <1>1, <2>1 DEF WriteInv
<1> QED BY <1>2, <1>3

\* A write changes the bytes that were asked for and no others, and OK means all of them
\* (ProcessMemoryCommand over AccessMemory, and over DbgWriteMemory of PEI).
THEOREM WritesExact == Spec => []WritesExactly
<1>1. Spec => []WriteInv
  BY WriteInit, WriteStep, PTL DEF Spec
<1> QED BY <1>1, PTL DEF WriteInv

-----------------------------------------------------------------------------
\* What the walks find out about a page, for tables of any size.

\* Division by s, with its remainder.
LEMMA Division ==
    ASSUME NEW s \in Nat, s > 0, NEW a \in Nat
    PROVE  /\ a \div s \in Nat /\ a % s \in 0 .. s - 1
           /\ s * (a \div s) \in Nat
           /\ a = s * (a \div s) + (a % s)
<1> DEFINE q == a \div s
           r == a % s
           m == s * q
<1>1. a = s * q + r /\ r \in 0 .. s - 1 /\ q \in Int
  OBVIOUS
<1>2. m \in Int /\ a = m + r
  BY <1>1
<1>3. q < 0 => m <= -s
  <2>1. q < 0 => s * q <= s * (-1)
    BY <1>1
  <2> QED BY <2>1
<1> HIDE DEF q, r, m
<1>4. q >= 0
  BY <1>1, <1>2, <1>3
<1>5. q >= 0 => m >= 0
  <2>1. q >= 0 => s * q >= 0
    BY <1>1
  <2> QED BY <2>1 DEF m
<1>6. q \in Nat /\ m \in Nat
  BY <1>1, <1>2, <1>4, <1>5
<1>7. a \div s \in Nat
  BY <1>6 DEF q
<1>8. s * (a \div s) \in Nat
  BY <1>6 DEF q, m
<1>9. a % s \in 0 .. s - 1
  BY <1>1 DEF r
<1>10. a = s * (a \div s) + (a % s)
  OBVIOUS
<1> QED BY <1>7, <1>8, <1>9, <1>10

LEMMA Multiples ==
    ASSUME NEW s \in Nat, NEW x \in Int, NEW y \in Int, x < y
    PROVE  s * x + s <= s * y
<1>1. s * (x + 1) <= s * y
  OBVIOUS
<1>2. s * (x + 1) = s * x + s
  OBVIOUS
<1> QED BY <1>1, <1>2

\* Division is monotone.
LEMMA DivMonotone ==
    ASSUME NEW s \in Nat, s > 0, NEW a \in Nat, NEW b \in Nat, a <= b
    PROVE  a \div s <= b \div s
<1> DEFINE q == a \div s
           r == a % s
           u == b \div s
           v == b % s
           m == s * q
           n == s * u
<1>1. /\ q \in Nat /\ r \in 0 .. s - 1 /\ m \in Nat /\ a = m + r
      /\ u \in Nat /\ v \in 0 .. s - 1 /\ n \in Nat /\ b = n + v
  BY Division
<1>2. u < q => n + s <= m
  BY <1>1, Multiples
<1> HIDE DEF q, r, u, v, m, n
<1>3. ~(u < q)
  BY <1>1, <1>2
<1> QED BY <1>1, <1>3 DEF q, u

LEMMA DivBound ==
    ASSUME NEW s \in Nat, s > 0, NEW c \in Nat, NEW a \in Nat, a < s * c
    PROVE  a \div s < c
<1> DEFINE q == a \div s
           r == a % s
           m == s * q
           n == s * c
<1>1. q \in Nat /\ r \in 0 .. s - 1 /\ m \in Nat /\ a = m + r /\ n \in Nat /\ a < n
  BY Division
<1>2. c < q => n + s <= m
  BY <1>1, Multiples
<1>3. c = q => n = m
  OBVIOUS
<1> HIDE DEF q, r, m, n
<1>4. ~(c < q) /\ c # q
  BY <1>1, <1>2, <1>3
<1> QED BY <1>1, <1>4 DEF q

LEMMA PageOfAddr == ASSUME NEW a \in Addr PROVE PageOf(a) \in Page /\ a \in Nat
<1>1. /\ EFI_PAGE_SIZE \in Nat /\ EFI_PAGE_SIZE > 0 /\ PageCount \in Nat
      /\ PageCount * EFI_PAGE_SIZE = EFI_PAGE_SIZE * PageCount
  BY PageAssumption
<1>2. a \in Nat /\ a < EFI_PAGE_SIZE * PageCount
  BY <1>1 DEF Addr
<1>3. PageOf(a) \in Nat /\ PageOf(a) < PageCount
  BY <1>1, <1>2, Division, DivBound DEF PageOf
<1> QED BY <1>1, <1>2, <1>3 DEF Page

\* The entry that an index selects in the table of a block is the one of the page.
LEMMA EntryOfBlock ==
    ASSUME NEW b \in Nat
    PROVE  /\ (b \div Fanout) * Fanout + (b % Fanout) = b
           /\ b \div Fanout \in Nat /\ b % Fanout \in Nat
           /\ b < Fanout => b \div Fanout = 0 /\ b % Fanout = b
<1>1. Fanout \in Nat /\ Fanout > 0
  BY TableAssumption
<1> DEFINE d == b \div Fanout
           m == b % Fanout
           n == Fanout * d
<1>2. d \in Nat /\ m \in 0 .. Fanout - 1 /\ n \in Nat /\ b = n + m
  BY <1>1, Division
<1>3. d * Fanout = n
  BY <1>1, <1>2
<1>4. ASSUME b < Fanout PROVE d = 0 /\ n = 0
  <2>1. b < Fanout * 1
    BY <1>1, <1>4
  <2>2. d < 1
    BY <1>1, <2>1, DivBound
  <2>3. d = 0
    BY <1>2, <2>2
  <2> QED BY <1>1, <2>3
<1> HIDE DEF d, m, n
<1>5. d * Fanout + m = b /\ d \in Nat /\ m \in Nat /\ (b < Fanout => d = 0 /\ m = b)
  BY <1>1, <1>2, <1>3, <1>4
<1>6. (b \div Fanout) * Fanout + (b % Fanout) = b
  BY <1>1
<1>7. b \div Fanout \in Nat /\ b % Fanout \in Nat
  BY <1>5 DEF d, m
<1>8. b < Fanout => b \div Fanout = 0 /\ b % Fanout = b
  BY <1>5 DEF d, m
<1> QED BY <1>6, <1>7, <1>8

\* The blocks in which a page lies, and the entries that the walks select for it.
LEMMA PageBlocks ==
    ASSUME TablesReach, NEW p \in Page
    PROVE  /\ Block(p, 3) = p /\ Block(p, 2) = p \div Fanout
           /\ 0 * Fanout + Pml4Entry(p) = 0
           /\ 0 * Fanout + Index(p, 1) = Block(p, 1)
           /\ 0 * Fanout + Index(p, RootLevel) = Block(p, RootLevel)
           /\ Block(p, 0) * Fanout + Index(p, 1) = Block(p, 1)
           /\ Block(p, 1) * Fanout + Index(p, 2) = Block(p, 2)
           /\ Block(p, 2) * Fanout + Index(p, 3) = Block(p, 3)
<1>1. Fanout \in Nat /\ RootLevel \in 0 .. 2 /\ p \in Nat
  BY TableAssumption, PageAssumption DEF Page
<1>2. /\ Block(p, 3) = p
      /\ Block(p, 2) = Block(p, 3) \div Fanout
      /\ Block(p, 1) = Block(p, 2) \div Fanout
      /\ Block(p, 0) = Block(p, 1) \div Fanout
  BY DEF Block
<1>3. Block(p, 3) \in Nat /\ Block(p, 2) \in Nat /\ Block(p, 1) \in Nat /\ Block(p, 0) \in Nat
  BY <1>1, <1>2, EntryOfBlock
<1>4. Block(p, 1) < Fanout /\ Block(p, RootLevel) < Fanout
  BY DEF TablesReach
<1>5. /\ Index(p, 1) = Block(p, 1) /\ Block(p, 0) = 0
      /\ Index(p, RootLevel) = Block(p, RootLevel)
  BY <1>1, <1>2, <1>3, <1>4, EntryOfBlock DEF Index
<1>6. /\ Block(p, 0) * Fanout + Index(p, 1) = Block(p, 1)
      /\ Block(p, 1) * Fanout + Index(p, 2) = Block(p, 2)
      /\ Block(p, 2) * Fanout + Index(p, 3) = Block(p, 3)
  BY <1>2, <1>3, EntryOfBlock DEF Index
<1>7. Index(p, 0) = 0
  <2>1. Index(p, 0) = 0 % Fanout /\ 0 < Fanout
    BY <1>5, TableAssumption DEF Index
  <2> QED BY <2>1, EntryOfBlock
<1>8. 0 * Fanout = 0 /\ 0 * Fanout + Pml4Entry(p) = 0
  BY <1>1, <1>7 DEF Pml4Entry
<1>9. Block(p, RootLevel) \in Nat
  BY <1>1, <1>3, <1>5
<1>10. /\ 0 * Fanout + Index(p, 1) = Block(p, 1)
       /\ 0 * Fanout + Index(p, RootLevel) = Block(p, RootLevel)
  BY <1>3, <1>5, <1>8, <1>9
<1> QED BY <1>2, <1>6, <1>8, <1>10

\* A block with one entry has the attributes of each of its pages.
LEMMA BigPages ==
    ASSUME TablesReach, NEW l, NEW b, BigOK(l, b), NEW p \in Page, Block(p, 2) \in b
    PROVE  l[Block(p, 2) * Fanout] = l[p]
  BY PageBlocks DEF BigOK

\* The entry of a large page.
LEMMA BigEntryX64 ==
    ASSUME NEW l, NEW b, NEW t, NEW i, t * Fanout + i \in b
    PROVE  /\ X64Entry(l, b, 2, t, i).MustBe1
           /\ X64Entry(l, b, 2, t, i).Present = CpuReads(l[(t * Fanout + i) * Fanout])
           /\ X64Entry(l, b, 2, t, i).ReadWrite
                  = ("RO" \notin l[(t * Fanout + i) * Fanout].attr)
<1>1. X64Entry(l, b, 2, t, i).MustBe1
  BY DEF X64Entry
<1>2. X64Entry(l, b, 2, t, i).Present = CpuReads(l[(t * Fanout + i) * Fanout])
  BY DEF X64Entry
<1>3. X64Entry(l, b, 2, t, i).ReadWrite = ("RO" \notin l[(t * Fanout + i) * Fanout].attr)
  BY DEF X64Entry
<1> QED BY <1>1, <1>2, <1>3

\* GetPageIs finds the attributes of the page.
LEMMA WalkX64 ==
    ASSUME TablesReach, NEW l \in [Page -> PageState], NEW b, BigOK(l, b), NEW a \in Addr
    PROVE  GetPageIs(l, b, a) =
               IF a = 0 \/ a \in Hole \/ ~CpuReads(l[PageOf(a)]) THEN "NOT_VALID"
               ELSE IF "RO" \in l[PageOf(a)].attr THEN "READ_ONLY" ELSE "READ_WRITE"
<1> DEFINE p     == PageOf(a)
           Pml4  == X64Entry(l, b, 0, 0, Pml4Entry(p))
           Pte1G == X64Entry(l, b, 1, Pml4.next, Index(p, 1))
           Pte2M == X64Entry(l, b, 2, Pte1G.next, Index(p, 2))
           Pte4K == X64Entry(l, b, 3, Pte2M.next, Index(p, 3))
           result == IF Pte1G.MustBe1 THEN PageIs(Pte1G)
                     ELSE IF ~Pte2M.Present THEN "NOT_VALID"
                     ELSE IF Pte2M.MustBe1 THEN PageIs(Pte2M)
                     ELSE IF ~Pte4K.Present THEN "NOT_VALID" ELSE PageIs(Pte4K)
<1>1. p \in Page
  BY PageOfAddr
<1>2. GetPageIs(l, b, a) =
          IF a = 0 \/ a \in Hole \/ ~Pml4.Present \/ ~Pte1G.Present THEN "NOT_VALID"
          ELSE result
  BY DEF GetPageIs
<1> HIDE DEF p
<1>3. Pml4.Present /\ Pml4.next = 0
  BY <1>1, PageBlocks DEF X64Entry
<1> HIDE DEF Pml4
<1>4. Pte1G.Present /\ ~Pte1G.MustBe1 /\ Pte1G.next = Block(p, 1)
  BY <1>1, <1>3, PageBlocks DEF X64Entry
<1> HIDE DEF Pte1G
<1>5. CASE Block(p, 2) \in b
  <2>1. /\ Pte2M.Present = CpuReads(l[p]) /\ Pte2M.ReadWrite = ("RO" \notin l[p].attr)
        /\ Pte2M.MustBe1
    <3> DEFINE k == Pte1G.next * Fanout + Index(p, 2)
    <3>1. k = Block(p, 2)
      BY <1>1, <1>4, PageBlocks
    <3>2. l[k * Fanout] = l[p]
      BY <1>1, <1>5, <3>1, BigPages
    <3>3. k \in b
      BY <1>5, <3>1
    <3>4. /\ Pte2M.Present = CpuReads(l[k * Fanout])
          /\ Pte2M.ReadWrite = ("RO" \notin l[k * Fanout].attr)
          /\ Pte2M.MustBe1
      BY <3>3, BigEntryX64
    <3> HIDE DEF k, Pte2M
    <3> QED BY <3>2, <3>4
  <2> HIDE DEF Pte2M, Pte4K
  <2> QED BY <1>2, <1>3, <1>4, <2>1 DEF p, PageIs
<1>6. CASE Block(p, 2) \notin b
  <2>1. Pte2M.Present /\ ~Pte2M.MustBe1 /\ Pte2M.next = Block(p, 2)
    BY <1>1, <1>4, <1>6, PageBlocks DEF X64Entry
  <2> HIDE DEF Pte2M
  <2>2. Pte4K.Present = CpuReads(l[p]) /\ Pte4K.ReadWrite = ("RO" \notin l[p].attr)
    BY <1>1, <2>1, PageBlocks DEF X64Entry
  <2> HIDE DEF Pte4K
  <2> QED BY <1>2, <1>3, <1>4, <2>1, <2>2 DEF p, PageIs
<1> QED BY <1>5, <1>6

\* What the walk is to find: the attributes of a page in the state s, if it is mapped.
Describes(e, s) ==
    /\ e.type # 0 <=> s.mapped
    /\ s.mapped => /\ e.AP = (IF "RO" \in s.attr THEN 2 ELSE 0) + (IF s.user THEN 1 ELSE 0)
                   /\ e.AF = ("RP" \notin s.attr)
                   /\ e.device = s.device

\* Entries of the AARCH64 tables: of a block of level 2, of a page, of a table.
LEMMA BlockEntryArm ==
    ASSUME NEW l, NEW b, NEW t, NEW i, t * Fanout + i \in b, NEW below
    PROVE  Describes(ParseEntry(2, ArmEntry(l, b, 2, t, i), below),
                     l[(t * Fanout + i) * Fanout])
<1> DEFINE s == l[(t * Fanout + i) * Fanout]
           e == ArmEntry(l, b, 2, t, i)
<1>1. e = [type   |-> IF ~s.mapped THEN 0 ELSE IF 2 = 3 THEN 3 ELSE 1,
           AP     |-> (IF "RO" \in s.attr THEN 2 ELSE 0) + (IF s.user THEN 1 ELSE 0),
           AF     |-> "RP" \notin s.attr,
           device |-> s.device,
           next   |-> t * Fanout + i]
  BY DEF ArmEntry
<1> HIDE DEF s, e
<1>2. s.mapped => ParseEntry(2, e, below) = e
  BY <1>1 DEF ParseEntry
<1>3. ~s.mapped => ParseEntry(2, e, below).type = 0
  BY <1>1 DEF ParseEntry
<1>4. Describes(ParseEntry(2, e, below), s)
  BY <1>1, <1>2, <1>3 DEF Describes
<1> QED BY <1>4 DEF s, e

LEMMA PageEntryArm ==
    ASSUME NEW l, NEW b, NEW t, NEW i, NEW below
    PROVE  Describes(ParseEntry(3, ArmEntry(l, b, 3, t, i), below), l[t * Fanout + i])
<1> DEFINE s == l[t * Fanout + i]
           e == ArmEntry(l, b, 3, t, i)
<1>1. e = [type   |-> IF ~s.mapped THEN 0 ELSE IF 3 = 3 THEN 3 ELSE 1,
           AP     |-> (IF "RO" \in s.attr THEN 2 ELSE 0) + (IF s.user THEN 1 ELSE 0),
           AF     |-> "RP" \notin s.attr,
           device |-> s.device,
           next   |-> t * Fanout + i]
  BY DEF ArmEntry
<1> HIDE DEF s, e
<1>2. s.mapped => ParseEntry(3, e, below) = e
  BY <1>1 DEF ParseEntry
<1>3. ~s.mapped => ParseEntry(3, e, below).type = 0
  BY <1>1 DEF ParseEntry
<1>4. Describes(ParseEntry(3, e, below), s)
  BY <1>1, <1>2, <1>3 DEF Describes
<1> QED BY <1>4 DEF s, e

LEMMA TableEntryArm ==
    ASSUME NEW l, NEW b, NEW t, NEW i, NEW level \in {0, 1, 2}, NEW below,
           level = 2 => t * Fanout + i \notin b
    PROVE  /\ ParseEntry(level, ArmEntry(l, b, level, t, i), below) = below
           /\ ArmEntry(l, b, level, t, i).next = t * Fanout + i
<1>1. /\ ArmEntry(l, b, level, t, i).type = 3
      /\ ArmEntry(l, b, level, t, i).next = t * Fanout + i
  BY DEF ArmEntry
<1> QED BY <1>1 DEF ParseEntry

\* ParsePageTableLevel finds the attributes of the page, from whatever level it starts.
LEMMA WalkArm ==
    ASSUME TablesReach, NEW l \in [Page -> PageState], NEW b, BigOK(l, b), NEW p \in Page
    PROVE  Describes(ParsePageTableLevel(l, b, p), l[p])
<1> DEFINE Entry(level, t) == ArmEntry(l, b, level, t, Index(p, level))
           Level3(t) == ParseEntry(3, Entry(3, t), Entry(3, t))
           Level2(t) == ParseEntry(2, Entry(2, t), Level3(Entry(2, t).next))
           Level1(t) == ParseEntry(1, Entry(1, t), Level2(Entry(1, t).next))
           Level0(t) == ParseEntry(0, Entry(0, t), Level1(Entry(0, t).next))
<1>1. ParsePageTableLevel(l, b, p) = CASE RootLevel = 0 -> Level0(0)
                                       [] RootLevel = 1 -> Level1(0)
                                       [] RootLevel = 2 -> Level2(0)
  BY DEF ParsePageTableLevel
<1>2. ASSUME NEW t, t * Fanout + Index(p, 2) = Block(p, 2)
      PROVE  Describes(Level2(t), l[p])
  <2>1. CASE Block(p, 2) \in b
    <3>1. l[(t * Fanout + Index(p, 2)) * Fanout] = l[p]
      BY <1>2, <2>1, BigPages
    <3> HIDE DEF Level3
    <3> QED BY <1>2, <2>1, <3>1, BlockEntryArm
  <2>2. CASE Block(p, 2) \notin b
    <3>1. Level2(t) = Level3(Block(p, 2))
      BY <1>2, <2>2, TableEntryArm
    <3>2. l[Block(p, 2) * Fanout + Index(p, 3)] = l[p]
      BY PageBlocks
    <3> QED BY <3>1, <3>2, PageEntryArm
  <2> QED BY <2>1, <2>2
<1> HIDE DEF Level2
<1>3. ASSUME NEW t, t * Fanout + Index(p, 1) = Block(p, 1)
      PROVE  Describes(Level1(t), l[p])
  <2>1. Level1(t) = Level2(Block(p, 1))
    BY <1>3, TableEntryArm
  <2> QED BY <1>2, <2>1, PageBlocks
<1> HIDE DEF Level1
<1>4. ASSUME NEW t, t * Fanout + Index(p, 0) = Block(p, 0)
      PROVE  Describes(Level0(t), l[p])
  <2>1. Level0(t) = Level1(Block(p, 0))
    BY <1>4, TableEntryArm
  <2> QED BY <1>3, <2>1, PageBlocks
<1> HIDE DEF Level0
<1>5. RootLevel \in {0, 1, 2} /\ 0 * Fanout + Index(p, RootLevel) = Block(p, RootLevel)
  BY TableAssumption, PageBlocks
<1>6. CASE RootLevel = 0
  BY <1>1, <1>4, <1>5, <1>6
<1>7. CASE RootLevel = 1
  BY <1>1, <1>3, <1>5, <1>7
<1>8. CASE RootLevel = 2
  BY <1>1, <1>2, <1>5, <1>8
<1> QED BY <1>5, <1>6, <1>7, <1>8

\* The checks of both architectures, in terms of what the firmware did with the page.
LEMMA ReadCheck ==
    ASSUME TablesReach, NEW l \in [Page -> PageState], NEW b, BigOK(l, b), NEW a \in Addr,
           NEW arch \in {"X64", "AARCH64"}
    PROVE  LET s == l[PageOf(a)]
           IN  /\ IsPageReadable(arch, l, b, a) => CpuReads(s)
               /\ ~IsPageReadable(arch, l, b, a) =>
                      ~CpuReads(s) \/ IF arch = "X64" THEN a = 0 \/ a \in Hole ELSE s.device
<1> DEFINE s == l[PageOf(a)]
           e == ParsePageTableLevel(l, b, PageOf(a))
<1>1. PageOf(a) \in Page /\ s \in PageState
  BY PageOfAddr
<1>2. CASE arch = "X64"
  BY <1>2, WalkX64 DEF IsPageReadable
<1>3. CASE arch = "AARCH64"
  <2>1. IsPageReadable(arch, l, b, a) = (e.type # 0 /\ ~e.device /\ e.AF)
    BY <1>3 DEF IsPageReadable, CheckPageAccess
  <2>2. Describes(e, s)
    BY <1>1, WalkArm
  <2> HIDE DEF e, s
  <2>3. /\ e.type # 0 <=> s.mapped
        /\ s.mapped => e.AF = ("RP" \notin s.attr) /\ e.device = s.device
    BY <2>2 DEF Describes
  <2> QED BY <1>1, <1>3, <2>1, <2>3 DEF CpuReads, PageState, s
<1> QED BY <1>2, <1>3

LEMMA WriteCheck ==
    ASSUME TablesReach, NEW l \in [Page -> PageState], NEW b, BigOK(l, b), NEW a \in Addr,
           NEW arch \in {"X64", "AARCH64"}
    PROVE  LET s == l[PageOf(a)]
           IN  /\ IsPageWritable(arch, l, b, a) =>
                      \/ CpuWrites(s)
                      \/ arch = "AARCH64" /\ s.attr # {} /\ ("RO" \in s.attr => s.user)
               /\ ~IsPageWritable(arch, l, b, a) =>
                      ~CpuWrites(s) \/ IF arch = "X64" THEN a = 0 \/ a \in Hole ELSE s.device
<1> DEFINE s == l[PageOf(a)]
           e == ParsePageTableLevel(l, b, PageOf(a))
<1>1. PageOf(a) \in Page /\ s \in PageState
  BY PageOfAddr
<1>2. CASE arch = "X64"
  BY <1>2, WalkX64 DEF IsPageWritable, CpuWrites
<1>3. CASE arch = "AARCH64"
  <2>1. IsPageWritable(arch, l, b, a) = (e.type # 0 /\ ~e.device /\ (e.AP % 2 # 0 \/ e.AP = 0))
    BY <1>3 DEF IsPageWritable, CheckPageAccess
  <2>2. Describes(e, s)
    BY <1>1, WalkArm
  <2> HIDE DEF e, s
  <2>3. s.mapped => (e.AP % 2 # 0 \/ e.AP = 0 <=> ("RO" \in s.attr => s.user))
    BY <1>1, <2>2 DEF Describes, PageState, s
  <2>4. /\ e.type # 0 <=> s.mapped
        /\ s.mapped => e.device = s.device
    BY <2>2 DEF Describes
  <2> QED BY <1>1, <1>3, <2>1, <2>3, <2>4 DEF CpuReads, CpuWrites, PageState, s
<1> QED BY <1>2, <1>3

-----------------------------------------------------------------------------
\* Which accesses go wrong, and which are refused.

\* The tables say what the firmware did, and a copy begins only in a page that permits it
\* or that AARCH64 misjudges.
Checked ==
    /\ BigOK(layout, big)
    /\ step = "copy" => \/ IF req.write THEN CpuWrites(pages[PageOf(at)])
                           ELSE CpuReads(pages[PageOf(at)])
                        \/ Misjudged(pages[PageOf(at)])

AccessInv == AttributeInv /\ Checked /\ NoFault /\ RefusesOnlyForbidden

\* Where AccessMemory is in the request, once it was called.
LEMMA InRequest ==
    ASSUME TypeInv, step \in {"page", "copy", "restore"}, left > 0
    PROVE  /\ at \in req.addr .. req.addr + req.len - 1
           /\ at \in Addr /\ PageOf(at) \in Page
           /\ req \in Requests /\ left \in Nat /\ at \in Nat
           /\ \A a \in at .. at + left - 1 : a \in Addr
<1>1. /\ Address \in Nat /\ Length \in Nat /\ at \in Nat /\ left \in Nat
      /\ Address <= at /\ at + left = Address + RangeLength
      /\ req.addr <= Address /\ Address + Length = req.addr + req.len /\ req \in Requests
  BY ScratchFact DEF TypeInv, TypeOK, Progress
<1>2. RangeLength \in Nat /\ RangeLength <= Length
  BY <1>1, RangeFact
<1>3. req.addr \in Nat /\ req.len \in Nat /\ req.addr + req.len <= Total
  BY <1>1, RequestFact
<1>4. at \in req.addr .. req.addr + req.len - 1
  BY <1>1, <1>2, <1>3
<1>5. \A a \in at .. at + left - 1 : a \in Addr
  BY <1>1, <1>2, <1>3, TotalFact
<1>6. at \in Addr
  BY <1>1, <1>5
<1> QED BY <1>1, <1>4, <1>5, <1>6, PageOfAddr

\* Outside a copy the pages are as the firmware left them.
LEMMA PagesAsLeft ==
    ASSUME AttributeInv, step \notin {"copy", "restore"}
    PROVE  pages = layout /\ layout \in [Page -> PageState]
<1>1. pages \in [Page -> PageState] /\ layout \in [Page -> PageState]
  BY LayoutAssumption DEF AttributeInv, TypeInv, TypeOK
<1>2. \A p \in Page : pages[p] = layout[p]
  BY DEF AttributeInv, AttributesKept
<1> QED BY <1>1, <1>2

\* The checks, at the step that asks them.
LEMMA AccessChecks ==
    ASSUME TablesReach, AccessInv, step = "page", left > 0,
           platform.agent \in {"tables", "pei"}
    PROVE  LET s  == layout[PageOf(at)]
               ok == IF req.write THEN IsPageWritable(platform.arch, pages, big, at)
                     ELSE IsPageReadable(platform.arch, pages, big, at)
           IN  /\ ok => \/ IF req.write THEN CpuWrites(pages[PageOf(at)])
                           ELSE CpuReads(pages[PageOf(at)])
                        \/ Misjudged(pages[PageOf(at)])
               /\ ~ok => \/ ~CpuReads(s)
                         \/ req.write /\ ~CpuWrites(s)
                         \/ IF platform.arch = "X64" THEN at = 0 \/ at \in Hole ELSE s.device
<1>1. pages = layout /\ layout \in [Page -> PageState]
  BY PagesAsLeft DEF AccessInv
<1>2. at \in Addr /\ PageOf(at) \in Page
  BY InRequest DEF AccessInv, AttributeInv
<1>3. BigOK(layout, big)
  BY DEF AccessInv, Checked
<1>4. platform.arch \in {"X64", "AARCH64"}
  BY PlatformAssumption DEF AccessInv, AttributeInv, TypeInv, TypeOK, Platform
<1>5. CASE req.write
  BY <1>1, <1>2, <1>3, <1>4, <1>5, WriteCheck DEF Misjudged
<1>6. CASE ~req.write
  BY <1>1, <1>2, <1>3, <1>4, <1>6, ReadCheck
<1> QED BY <1>5, <1>6

\* A refusal, at the address where it happens.
LEMMA AccessRefused ==
    ASSUME AccessInv, step = "page", left > 0, Fail,
           UNCHANGED <<req, layout, platform>>,
           LET s == layout[PageOf(at)]
           IN  \/ ~s.mapped
               \/ platform.agent # "mm" /\ ~CpuReads(s)
               \/ /\ platform.agent \in {"tables", "pei"}
                  /\ \/ req.write /\ ~CpuWrites(s)
                     \/ IF platform.arch = "X64" THEN at = 0 \/ at \in Hole ELSE s.device
    PROVE  NoFault' /\ RefusesOnlyForbidden'
<1>1. step' = "idle"
  BY DEF Fail
<1>2. at \in req'.addr .. req'.addr + req'.len - 1
  BY InRequest DEF AccessInv, AttributeInv
<1>3. RefusesOnlyForbidden'
  BY <1>2 DEF RefusesOnlyForbidden, PageOf, CpuReads, CpuWrites
<1>4. NoFault'
  BY <1>1 DEF NoFault
<1> QED BY <1>3, <1>4

LEMMA AccessInit == Init => AccessInv
<1> SUFFICES ASSUME Init PROVE AccessInv
    OBVIOUS
<1>1. step = "idle" /\ reply = "none" /\ BigOK(layout, big)
  BY DEF Init
<1>2. Checked /\ NoFault /\ RefusesOnlyForbidden
  BY <1>1 DEF Checked, NoFault, RefusesOnlyForbidden
<1> QED BY <1>2, AttributeInit DEF AccessInv

\* The tables are fixed.
LEMMA TablesFixed ==
    ASSUME AccessInv, UNCHANGED fixed
    PROVE  BigOK(layout, big)'
<1>1. UNCHANGED <<platform, big, layout>>
  BY DEF fixed
<1>2. BigOK(layout, big)
  BY DEF AccessInv, Checked
<1> QED BY <1>1, <1>2 DEF BigOK, Page

LEMMA AccessPreparePage ==
    ASSUME AccessInv, PreparePage PROVE Checked' /\ NoFault' /\ RefusesOnlyForbidden'
<1> DEFINE p == PageOf(at)
           attr == pages[p].attr
           clear == Lifted(platform.agent, req.write, attr)
<1>1. /\ step = "page" /\ left > 0 /\ platform.agent \in {"dxe", "mm"}
      /\ UNCHANGED <<fixed, layout, platform, req, at>>
  BY DEF PreparePage, fixed, stub
<1>2. pages = layout /\ pages \in [Page -> PageState] /\ p \in Page
  BY <1>1, PagesAsLeft, InRequest DEF AccessInv, AttributeInv
<1>3. BigOK(layout, big)'
  BY <1>1, TablesFixed
<1>4. CASE /\ ~pages[p].mapped \/ (platform.agent = "dxe" /\ DxeRefuses(attr))
           /\ Fail
  <2>1. ~layout[p].mapped \/ (platform.agent # "mm" /\ ~CpuReads(layout[p]))
    BY <1>2, <1>4 DEF DxeRefuses, CpuReads
  <2>2. NoFault' /\ RefusesOnlyForbidden'
    BY <1>1, <1>4, <2>1, AccessRefused
  <2>3. step' = "idle"
    BY <1>4 DEF Fail
  <2> QED BY <1>3, <2>2, <2>3 DEF Checked
<1>5. CASE Fail /\ refused' = TRUE
  <2>1. step' = "idle"
    BY <1>5 DEF Fail
  <2> QED BY <1>3, <1>5, <2>1 DEF Checked, NoFault, RefusesOnlyForbidden
<1>6. CASE /\ pages[p].mapped /\ ~(platform.agent = "dxe" /\ DxeRefuses(attr))
           /\ step' = "copy"
           /\ pages' = [pages EXCEPT ![p].attr = @ \ clear]
  <2>1. pages'[p] = [pages[p] EXCEPT !.attr = @ \ clear] /\ pages[p] \in PageState
    BY <1>2, <1>6
  <2> HIDE DEF p
  <2>2. pages'[p].mapped = pages[p].mapped /\ pages'[p].attr = attr \ clear
    BY <2>1 DEF PageState
  <2>3. IF req.write THEN CpuWrites(pages'[p]) ELSE CpuReads(pages'[p])
    BY <1>1, <1>6, <2>1, <2>2 DEF Lifted, DxeRefuses, CpuWrites, CpuReads, PageState
  <2>4. PageOf(at)' = p
    BY <1>1 DEF p, PageOf
  <2>5. Checked'
    BY <1>1, <1>3, <2>3, <2>4 DEF Checked
  <2>6. NoFault' /\ RefusesOnlyForbidden'
    BY <1>6 DEF NoFault, RefusesOnlyForbidden
  <2> QED BY <2>5, <2>6
<1> QED BY <1>4, <1>5, <1>6 DEF PreparePage

LEMMA AccessCheckPage ==
    ASSUME TablesReach, AccessInv, CheckPage
    PROVE  Checked' /\ NoFault' /\ RefusesOnlyForbidden'
<1> DEFINE ok == IF req.write THEN IsPageWritable(platform.arch, pages, big, at)
                 ELSE IsPageReadable(platform.arch, pages, big, at)
<1>1. /\ step = "page" /\ left > 0 /\ platform.agent = "tables"
      /\ UNCHANGED <<fixed, layout, platform, req, at, pages>>
      /\ IF ok THEN step' = "copy" ELSE Fail
  BY DEF CheckPage, fixed, stub
<1>2. /\ ok => \/ IF req.write THEN CpuWrites(pages[PageOf(at)])
                  ELSE CpuReads(pages[PageOf(at)])
               \/ Misjudged(pages[PageOf(at)])
      /\ ~ok => LET s == layout[PageOf(at)]
                IN  \/ ~CpuReads(s)
                    \/ req.write /\ ~CpuWrites(s)
                    \/ IF platform.arch = "X64" THEN at = 0 \/ at \in Hole ELSE s.device
  BY <1>1, AccessChecks
<1>3. BigOK(layout, big)'
  BY <1>1, TablesFixed
<1> HIDE DEF ok
<1>4. CASE ok
  <2>1. step' = "copy"
    BY <1>1, <1>4
  <2>2. \/ IF req'.write THEN CpuWrites(pages'[PageOf(at)']) ELSE CpuReads(pages'[PageOf(at)'])
        \/ Misjudged(pages[PageOf(at)])'
    BY <1>1, <1>2, <1>4 DEF PageOf, Misjudged
  <2> QED BY <1>3, <2>1, <2>2 DEF Checked, NoFault, RefusesOnlyForbidden
<1>5. CASE ~ok
  <2>1. Fail /\ step' = "idle"
    BY <1>1, <1>5 DEF Fail
  <2>2. NoFault' /\ RefusesOnlyForbidden'
    BY <1>1, <1>2, <1>5, <2>1, AccessRefused
  <2> QED BY <1>3, <2>1, <2>2 DEF Checked
<1> QED BY <1>4, <1>5

\* The copy of a page that was checked, or lifted, is permitted, unless it is misjudged.
LEMMA AccessCopyPage ==
    ASSUME AccessInv, CopyPage PROVE Checked' /\ NoFault' /\ RefusesOnlyForbidden'
<1>1. /\ step = "copy" /\ left > 0 /\ left \in Nat /\ at \in Nat
      /\ UNCHANGED <<fixed, platform, req, pages, at>>
      /\ step' \in {"restore", "fault"}
  BY ScratchFact
     DEF CopyPage, fixed, stub, AccessInv, AttributeInv, TypeInv, TypeOK, Progress
<1>2. BigOK(layout, big)'
  BY <1>1, TablesFixed
<1>3. Checked' /\ RefusesOnlyForbidden'
  BY <1>1, <1>2 DEF Checked, RefusesOnlyForbidden
<1>4. CASE IF req.write THEN CpuWrites(pages[PageOf(at)]) ELSE CpuReads(pages[PageOf(at)])
  <2>1. \A a \in at .. at + LengthInPage - 1 : PageOf(a) = PageOf(at)
    BY <1>1, SamePage
  <2>2. Permitted(LengthInPage)
    BY <1>4, <2>1 DEF Permitted
  <2>3. step' = "restore"
    BY <2>2 DEF CopyPage
  <2> QED BY <1>3, <2>3 DEF NoFault
<1>5. CASE Misjudged(pages[PageOf(at)])
  <2>1. Misjudged(pages[PageOf(at)])'
    BY <1>1, <1>5 DEF Misjudged, PageOf
  <2> QED BY <1>3, <2>1 DEF NoFault
<1> QED BY <1>1, <1>4, <1>5 DEF AccessInv, Checked

LEMMA AccessPeiAccess ==
    ASSUME TablesReach, AccessInv, PeiAccess
    PROVE  Checked' /\ NoFault' /\ RefusesOnlyForbidden'
<1> DEFINE ok == IF req.write THEN IsPageWritable(platform.arch, pages, big, at)
                 ELSE IsPageReadable(platform.arch, pages, big, at)
<1>1. /\ step = "page" /\ left > 0 /\ platform.agent = "pei"
      /\ UNCHANGED <<fixed, layout, platform, req, pages>>
      /\ \/ ok /\ Permitted(left) /\ step' = "page"
         \/ ok /\ ~Permitted(left) /\ step' = "fault" /\ UNCHANGED <<at, left>>
         \/ ~ok /\ Fail
  BY DEF PeiAccess, fixed, stub
<1>2. /\ ok => \/ IF req.write THEN CpuWrites(pages[PageOf(at)])
                  ELSE CpuReads(pages[PageOf(at)])
               \/ Misjudged(pages[PageOf(at)])
      /\ ~ok => LET s == layout[PageOf(at)]
                IN  \/ ~CpuReads(s)
                    \/ req.write /\ ~CpuWrites(s)
                    \/ IF platform.arch = "X64" THEN at = 0 \/ at \in Hole ELSE s.device
  BY <1>1, AccessChecks
<1>3. BigOK(layout, big)'
  BY <1>1, TablesFixed
<1> HIDE DEF ok
<1>4. CASE step' = "page"
  BY <1>3, <1>4 DEF Checked, NoFault, RefusesOnlyForbidden
<1>5. CASE /\ ok /\ ~Permitted(left) /\ step' = "fault" /\ UNCHANGED <<at, left>>
           /\ ~Misjudged(pages[PageOf(at)])
  <2>1. PICK a \in at .. at + left - 1 :
               ~(IF req.write THEN CpuWrites(pages[PageOf(a)]) ELSE CpuReads(pages[PageOf(a)]))
    BY <1>5 DEF Permitted
  <2>2. PageOf(a) # PageOf(at)
    BY <1>2, <1>5, <2>1
  <2>3. at \in Nat /\ left \in Nat
    BY <1>1, InRequest DEF AccessInv, AttributeInv
  <2>4. /\ a \in Nat /\ at <= a /\ a <= at + left - 1 /\ at + left - 1 \in Nat
    BY <1>1, <2>3
  <2>5. PageOf(at) <= PageOf(a) /\ PageOf(a) <= PageOf(at + left - 1)
    BY <2>3, <2>4, PageFact, DivMonotone DEF PageOf
  <2>6. PageOf(at) \in Nat /\ PageOf(a) \in Nat /\ PageOf(at + left - 1) \in Nat
    BY <2>3, <2>4, PageFact, Division DEF PageOf
  <2>7. PageOf(at + left - 1) # PageOf(at)
    BY <2>2, <2>5, <2>6
  <2>8. NoFault'
    BY <1>1, <1>5, <2>7 DEF NoFault, PageOf
  <2> QED BY <1>3, <1>5, <2>8 DEF Checked, RefusesOnlyForbidden
<1>6. CASE step' = "fault" /\ UNCHANGED <<at, left>> /\ Misjudged(pages[PageOf(at)])
  <2>1. Misjudged(pages[PageOf(at)])'
    BY <1>1, <1>6 DEF Misjudged, PageOf
  <2> QED BY <1>3, <1>6, <2>1 DEF Checked, NoFault, RefusesOnlyForbidden
<1>7. CASE ~ok /\ Fail
  <2>1. step' = "idle"
    BY <1>7 DEF Fail
  <2>2. NoFault' /\ RefusesOnlyForbidden'
    BY <1>1, <1>2, <1>7, AccessRefused
  <2> QED BY <1>3, <2>1, <2>2 DEF Checked
<1> QED BY <1>1, <1>4, <1>5, <1>6, <1>7

\* The other actions begin no copy, refuse nothing but a malformed request and cannot fault.
LEMMA AccessOthers ==
    ASSUME AccessInv,
           \/ \E r \in Requests : Receive(r)
           \/ StartChunk \/ EmitChunk \/ Finish \/ RestorePage \/ EndAccess
    PROVE  Checked' /\ NoFault' /\ RefusesOnlyForbidden'
<1>1. BigOK(layout, big)'
  <2>1. UNCHANGED fixed
    BY DEF Receive, StartChunk, EmitChunk, Finish, RestorePage, EndAccess
  <2> QED BY <2>1, TablesFixed
<1>2. step' \notin {"copy", "fault"}
  BY DEF Receive, StartChunk, EmitChunk, Finish, RestorePage, EndAccess
<1>3. Checked' /\ NoFault'
  BY <1>1, <1>2 DEF Checked, NoFault
<1>4. CASE \E r \in Requests : Receive(r)
  <2>1. PICK r \in Requests : Receive(r)
    BY <1>4
  <2>2. CASE r.write /\ Len(r.data) # r.len
    <3>1. req' = r
      BY <2>1 DEF Receive
    <3> QED BY <1>3, <2>2, <3>1 DEF RefusesOnlyForbidden
  <2>3. CASE ~(r.write /\ Len(r.data) # r.len)
    <3>1. step' = "chunk"
      BY <2>1, <2>3 DEF Receive
    <3> QED BY <1>3, <3>1 DEF RefusesOnlyForbidden
  <2> QED BY <2>2, <2>3
<1>5. CASE Finish
  BY <1>3, <1>5 DEF Finish, RefusesOnlyForbidden
<1>6. CASE StartChunk \/ EmitChunk \/ RestorePage \/ EndAccess
  <2>1. step' # "idle"
    BY <1>6 DEF StartChunk, EmitChunk, RestorePage, EndAccess
  <2> QED BY <1>3, <2>1 DEF RefusesOnlyForbidden
<1> QED BY <1>4, <1>5, <1>6

LEMMA AccessStep == ASSUME TablesReach PROVE AccessInv /\ [Next]_vars => AccessInv'
<1> SUFFICES ASSUME AccessInv, [Next]_vars PROVE AccessInv'
    OBVIOUS
<1>1. AttributeInv'
  BY AttributeStep DEF AccessInv
<1>2. CASE UNCHANGED vars
  <2>1. UNCHANGED <<fixed, platform, big, layout, pages, step, req, at, left, reply, refused>>
    BY <1>2 DEF vars, fixed, stub
  <2>2. BigOK(layout, big)'
    BY <2>1, TablesFixed
  <2>3. Checked' /\ NoFault'
    BY <2>1, <2>2 DEF AccessInv, Checked, NoFault, Misjudged, PageOf, CpuReads, CpuWrites
  <2>4. RefusesOnlyForbidden'
    BY <2>1 DEF AccessInv, RefusesOnlyForbidden, PageOf, CpuReads, CpuWrites
  <2> QED BY <1>1, <2>3, <2>4 DEF AccessInv
<1>3. CASE Next
  <2>1. Checked' /\ NoFault' /\ RefusesOnlyForbidden'
    BY <1>3, AccessPreparePage, AccessCheckPage, AccessCopyPage, AccessPeiAccess, AccessOthers
       DEF Next
  <2> QED BY <1>1, <2>1 DEF AccessInv
<1> QED BY <1>2, <1>3

LEMMA AccessAlways == ASSUME TablesReach PROVE Spec => []AccessInv
  BY AccessInit, AccessStep, PTL DEF Spec

\* A copy is one that the processor permits, whatever the firmware did with its pages:
\* the page that was checked, or lifted, is the page that is copied.  What can fault is a
\* range of several pages in PEI, and the write to a page that CheckPageAccess of AARCH64
\* misjudges: access flag clear, or RO_RO.  The tables must reach the address space:
\* GetPageIs looks up addresses from 512 GB on in the wrong entry.
THEOREM CopiesPermitted == ASSUME TablesReach PROVE Spec => []NoFault
  BY AccessAlways, PTL DEF AccessInv

\* A memory error is never the answer to an access that was permitted: AccessMemory of all
\* agents, over the attribute protocol and over the page tables of both architectures.
THEOREM RefusalsJustified == ASSUME TablesReach PROVE Spec => []RefusesOnlyForbidden
  BY AccessAlways, PTL DEF AccessInv

-----------------------------------------------------------------------------
\* What a read answers.

\* Reads of at most a chunk, which is shorter than a page (1024 and 4096 bytes).  The
\* PacketSize that the stub announces lets a debugger ask for two chunks: such a read is
\* answered wrongly, as the run of long reads shows.
ChunkReads == /\ \A r \in Requests : ~r.write => r.len <= SCRATCH_SIZE
              /\ SCRATCH_SIZE < EFI_PAGE_SIZE

\* Byte i of the answer.
Answer(i) == IF WindbgWorkarounds /\ req.addr < EFI_PAGE_SIZE THEN 0
             ELSE mem[req.addr + i - 1]

\* A read is one chunk; the bytes before at, and after a copy also those just copied, are
\* in mScratch.
Reading ==
    /\ (step = "chunk" /\ ~req.write) =>
           \/ /\ Length = 0 /\ mResponse = [i \in 1 .. req.len |-> Answer(i)]
           \/ /\ Address = req.addr /\ Length = req.len /\ mResponse = <<>>
    /\ (step \in {"page", "copy", "restore", "emit"} /\ ~req.write) =>
           Address = req.addr /\ Length = req.len /\ mResponse = <<>>
    /\ (step \in {"page", "copy", "restore"} /\ ~req.write) =>
           ~(WindbgWorkarounds /\ req.addr < EFI_PAGE_SIZE)
    /\ (step \in {"page", "copy"} /\ ~req.write) =>
           \A i \in 1 .. req.len : req.addr + i - 1 < at => mScratch[i - 1] = Answer(i)
    /\ (step = "restore" /\ ~req.write) =>
           \A i \in 1 .. req.len :
               req.addr + i - 1 < at + LengthInPage => mScratch[i - 1] = Answer(i)
    /\ (step = "emit" /\ ~req.write) =>
           \A i \in 1 .. req.len : mScratch[i - 1] = Answer(i)

ReadInv == WriteInv /\ Reading /\ ReadsMemory

\* The request of a read that is being served.
LEMMA ReadRequest ==
    ASSUME ChunkReads, TypeInv, step # "idle", ~req.write
    PROVE  /\ req \in Requests /\ req.addr \in Nat /\ req.len \in Nat
           /\ req.len <= SCRATCH_SIZE /\ req.len < EFI_PAGE_SIZE
           /\ Address \in Nat /\ Length \in Nat /\ at \in Nat
           /\ left \in Nat
           /\ mScratch \in [0 .. SCRATCH_SIZE - 1 -> Byte]
           /\ WindbgWorkarounds \in BOOLEAN
<1>1. /\ req \in Requests
      /\ Address \in Nat /\ Length \in Nat /\ at \in Nat /\ left \in 0 .. SCRATCH_SIZE
      /\ mScratch \in [0 .. SCRATCH_SIZE - 1 -> Byte]
  BY DEF TypeInv, TypeOK, Progress
<1>2. req.addr \in Nat /\ req.len \in Nat
  BY <1>1, RequestFact
<1>3. req.len <= SCRATCH_SIZE /\ SCRATCH_SIZE < EFI_PAGE_SIZE
  BY <1>1 DEF ChunkReads
<1>4. req.len < EFI_PAGE_SIZE
  BY <1>2, <1>3, ScratchFact, PageFact
<1> QED BY <1>1, <1>2, <1>3, <1>4, ScratchFact, BoundAssumption

LEMMA ReadInit == Init => ReadInv
<1> SUFFICES ASSUME Init PROVE ReadInv
    OBVIOUS
<1>1. step = "idle" /\ reply = "none"
  BY DEF Init
<1>2. Reading /\ ReadsMemory
  BY <1>1 DEF Reading, ReadsMemory
<1> QED BY <1>2, WriteInit DEF ReadInv

LEMMA ReadReceive ==
    ASSUME ReadInv, NEW r \in Requests, Receive(r) PROVE Reading' /\ ReadsMemory'
<1>1. req' = r /\ mResponse' = <<>>
  BY DEF Receive
<1>2. CASE r.write /\ Len(r.data) # r.len
  <2>1. step' = "idle" /\ reply' = "E"
    BY <1>2 DEF Receive
  <2> QED BY <2>1 DEF Reading, ReadsMemory
<1>3. CASE ~(r.write /\ Len(r.data) # r.len)
  <2>1. step' = "chunk" /\ Address' = r.addr /\ Length' = r.len
    BY <1>3 DEF Receive
  <2> QED BY <1>1, <2>1 DEF Reading, ReadsMemory
<1> QED BY <1>2, <1>3

LEMMA ReadStartChunk ==
    ASSUME ChunkReads, ReadInv, StartChunk PROVE Reading' /\ ReadsMemory'
<1>1. /\ step = "chunk" /\ Length > 0
      /\ UNCHANGED <<req, mem, Address, Length, mResponse>>
      /\ at' = Address
  BY DEF StartChunk, fixed, stub
<1>2. step' \in {"page", "emit"}
  BY DEF StartChunk
<1>3. ReadsMemory'
  BY <1>2 DEF ReadsMemory
<1>4. CASE req.write
  <2>1. req'.write
    BY <1>1, <1>4
  <2> QED BY <1>3, <2>1 DEF Reading
<1>5. CASE ~req.write
  <2>1. /\ req.addr \in Nat /\ req.len \in Nat /\ req.len <= SCRATCH_SIZE
        /\ req.len < EFI_PAGE_SIZE /\ Length \in Nat
        /\ mScratch \in [0 .. SCRATCH_SIZE - 1 -> Byte]
    BY <1>1, <1>5, ReadRequest DEF ReadInv, WriteInv
  <2>2. Address = req.addr /\ Length = req.len /\ mResponse = <<>>
    BY <1>1, <1>5, <2>1 DEF ReadInv, Reading
  <2>3. RangeLength = req.len
    BY <2>1, <2>2, ScratchFact DEF RangeLength, Minimum
  <2>4. ZeroPage <=> (WindbgWorkarounds /\ req.addr < EFI_PAGE_SIZE)
    BY <2>1, <2>2, <2>3 DEF ZeroPage
  <2>5. CASE ZeroPage
    <3>1. /\ step' = "emit"
          /\ mScratch' = [i \in DOMAIN mScratch |->
                            IF i < RangeLength THEN 0 ELSE mScratch[i]]
      BY <1>5, <2>5 DEF StartChunk
    <3>2. ASSUME NEW i \in 1 .. req.len PROVE mScratch'[i - 1] = 0
      <4>1. i - 1 \in 0 .. SCRATCH_SIZE - 1 /\ i - 1 < req.len
        BY <2>1, ScratchFact
      <4>2. DOMAIN mScratch = 0 .. SCRATCH_SIZE - 1
        BY <2>1
      <4> QED BY <2>3, <3>1, <4>1, <4>2
    <3>3. \A i \in 1 .. req'.len : mScratch'[i - 1] = Answer(i)'
      BY <1>1, <2>4, <2>5, <3>2 DEF Answer
    <3> QED BY <1>1, <1>3, <1>5, <2>2, <3>1, <3>3 DEF Reading
  <2>6. CASE ~ZeroPage
    <3>1. step' = "page"
      BY <1>5, <2>6 DEF StartChunk
    <3>2. ~(WindbgWorkarounds /\ req'.addr < EFI_PAGE_SIZE)
      BY <1>1, <2>4, <2>6
    <3>3. \A i \in 1 .. req'.len : ~(req'.addr + i - 1 < at')
      BY <1>1, <2>1, <2>2
    <3> QED BY <1>1, <1>3, <1>5, <2>2, <3>1, <3>2, <3>3 DEF Reading
  <2> QED BY <2>5, <2>6
<1> QED BY <1>4, <1>5

LEMMA ReadEmitChunk ==
    ASSUME ChunkReads, ReadInv, EmitChunk PROVE Reading' /\ ReadsMemory'
<1>1. /\ step = "emit" /\ step' = "chunk" /\ ~req.write
      /\ UNCHANGED <<req, mem>>
      /\ mResponse' = mResponse \o Emitted(Length)
      /\ Length' = Length - RangeLength
  BY DEF EmitChunk, ReadResponse, ReadInv, WriteInv, Writing
<1>2. /\ req.addr \in Nat /\ req.len \in Nat /\ req.len <= SCRATCH_SIZE
      /\ mScratch \in [0 .. SCRATCH_SIZE - 1 -> Byte]
  BY <1>1, ReadRequest DEF ReadInv, WriteInv
<1>3. /\ Address = req.addr /\ Length = req.len /\ mResponse = <<>>
      /\ \A i \in 1 .. req.len : mScratch[i - 1] = Answer(i)
  BY <1>1 DEF ReadInv, Reading
<1>4. Length' = 0
  BY <1>1, <1>2, <1>3, ScratchFact DEF RangeLength, Minimum
<1>5. Emitted(Length) = [i \in 1 .. req.len |-> Answer(i)]
  <2>1. ASSUME NEW i \in 1 .. req.len
        PROVE  (IF i <= SCRATCH_SIZE THEN mScratch[i - 1] ELSE -1) = Answer(i)
    BY <1>2, <1>3, ScratchFact
  <2> QED BY <1>3, <2>1 DEF Emitted
<1>6. mResponse' = Emitted(Length)
  <2> DEFINE e == Emitted(Length)
  <2>1. e \in Seq(Byte \cup {-1, 0})
    <3>1. ASSUME NEW i \in 1 .. req.len
          PROVE  (IF i <= SCRATCH_SIZE THEN mScratch[i - 1] ELSE -1) \in Byte \cup {-1, 0}
      <4>1. i - 1 \in 0 .. SCRATCH_SIZE - 1
        BY <1>2, ScratchFact
      <4> QED BY <1>2, <4>1
    <3>2. e \in [1 .. req.len -> Byte \cup {-1, 0}]
      BY <1>3, <3>1 DEF Emitted
    <3> HIDE DEF e
    <3> QED BY <1>2, <3>2
  <2> HIDE DEF e
  <2>2. <<>> \o e = e
    BY <2>1
  <2> QED BY <1>1, <1>3, <2>2 DEF e
<1>7. mResponse' = [i \in 1 .. req'.len |-> Answer(i)']
  BY <1>1, <1>5, <1>6 DEF Answer
<1> QED BY <1>1, <1>4, <1>7 DEF Reading, ReadsMemory

LEMMA ReadFinish == ASSUME ChunkReads, ReadInv, Finish PROVE Reading' /\ ReadsMemory'
<1>1. /\ step = "chunk" /\ Length = 0 /\ step' = "idle"
      /\ UNCHANGED <<req, mem, mResponse>>
      /\ reply' = IF req.write THEN "OK" ELSE "data"
  BY DEF Finish, stub
<1>2. Reading'
  BY <1>1 DEF Reading
<1>3. CASE req.write
  BY <1>1, <1>2, <1>3 DEF ReadsMemory
<1>4. CASE ~req.write
  <2>1. req.len \in Nat
    BY <1>1, <1>4, ReadRequest DEF ReadInv, WriteInv
  <2>2. mResponse = [i \in 1 .. req.len |-> Answer(i)]
    <3>1. CASE mResponse = <<>> /\ req.len = 0
      <4>1. 1 .. req.len = {}
        BY <3>1
      <4>2. [i \in 1 .. req.len |-> Answer(i)] = <<>>
        BY <4>1
      <4> QED BY <3>1, <4>2
    <3> QED BY <1>1, <1>4, <3>1 DEF ReadInv, Reading
  <2>3. ReadsMemory'
    BY <1>1, <2>2 DEF ReadsMemory, Answer
  <2> QED BY <1>2, <2>3
<1> QED BY <1>3, <1>4

\* A step that gives up, or that is the processor's.
LEMMA ReadGivenUp ==
    ASSUME Fail \/ step' = "fault"
    PROVE  Reading' /\ ReadsMemory'
  BY DEF Fail, Reading, ReadsMemory

LEMMA ReadChecked ==
    ASSUME ReadInv, PreparePage \/ CheckPage PROVE Reading' /\ ReadsMemory'
<1>1. /\ step = "page"
      /\ UNCHANGED <<req, mem, Address, Length, mResponse, at, left, mScratch>>
      /\ step' = "copy" \/ Fail
  BY DEF PreparePage, CheckPage, stub
<1>2. CASE Fail
  BY <1>2, ReadGivenUp
<1>3. CASE step' = "copy"
  <2>1. ReadsMemory'
    BY <1>3 DEF ReadsMemory
  <2>2. Reading'
    BY <1>1, <1>3 DEF ReadInv, Reading, Answer
  <2> QED BY <2>1, <2>2
<1> QED BY <1>1, <1>2, <1>3

\* A copy of n bytes puts the n bytes that come next into mScratch.
LEMMA ReadNext ==
    ASSUME ChunkReads, ReadInv, step \in {"page", "copy"}, ~req.write,
           NEW n \in Nat, CopyMem(n), UNCHANGED req
    PROVE  /\ mem' = mem
           /\ \A i \in 1 .. req.len :
                  req.addr + i - 1 < at + n => mScratch'[i - 1] = Answer(i)'
<1>1. /\ mem' = mem
      /\ mScratch' = [i \in DOMAIN mScratch |->
                         IF Address + i \in at .. at + n - 1 THEN mem[Address + i]
                         ELSE mScratch[i]]
  BY DEF CopyMem
<1>2. /\ req.addr \in Nat /\ req.len \in Nat /\ req.len <= SCRATCH_SIZE /\ at \in Nat
      /\ DOMAIN mScratch = 0 .. SCRATCH_SIZE - 1
  BY ReadRequest DEF ReadInv, WriteInv
<1>3. /\ Address = req.addr
      /\ ~(WindbgWorkarounds /\ req.addr < EFI_PAGE_SIZE)
      /\ \A i \in 1 .. req.len : req.addr + i - 1 < at => mScratch[i - 1] = Answer(i)
  BY DEF ReadInv, Reading
<1>4. ASSUME NEW i \in 1 .. req.len, req.addr + i - 1 < at + n
      PROVE  mScratch'[i - 1] = Answer(i)'
  <2>1. i - 1 \in 0 .. SCRATCH_SIZE - 1 /\ Address + (i - 1) = req.addr + i - 1
    BY <1>2, <1>3, ScratchFact
  <2>2. Answer(i)' = mem[req.addr + i - 1] /\ Answer(i) = mem[req.addr + i - 1]
    BY <1>1, <1>3 DEF Answer
  <2>3. mScratch'[i - 1] = IF req.addr + i - 1 \in at .. at + n - 1
                           THEN mem[req.addr + i - 1] ELSE mScratch[i - 1]
    BY <1>1, <1>2, <2>1
  <2>4. req.addr + i - 1 \in at .. at + n - 1 \/ req.addr + i - 1 < at
    BY <1>2, <1>4
  <2> QED BY <1>3, <2>2, <2>3, <2>4
<1> QED BY <1>1, <1>4

LEMMA ReadCopyPage ==
    ASSUME ChunkReads, ReadInv, CopyPage PROVE Reading' /\ ReadsMemory'
<1>1. /\ step = "copy" /\ left > 0 /\ at \in Nat /\ left \in Nat
      /\ UNCHANGED <<req, Address, Length, mResponse, at, left>>
      /\ \/ step' = "fault"
         \/ step' = "restore" /\ CopyMem(LengthInPage)
  BY ScratchFact DEF CopyPage, ReadInv, WriteInv, TypeInv, TypeOK, Progress, stub
<1>2. CASE step' = "fault"
  BY <1>2, ReadGivenUp
<1>3. CASE step' = "restore" /\ CopyMem(LengthInPage)
  <2>1. ReadsMemory'
    BY <1>3 DEF ReadsMemory
  <2>2. CASE req.write
    BY <1>1, <1>3, <2>1, <2>2 DEF Reading
  <2>3. CASE ~req.write
    <3>1. LengthInPage \in Nat /\ LengthInPage' = LengthInPage
      BY <1>1, InPageFact DEF LengthInPage
    <3>2. \A i \in 1 .. req'.len :
              req'.addr + i - 1 < (at + LengthInPage)' => mScratch'[i - 1] = Answer(i)'
      BY <1>1, <1>3, <2>3, <3>1, ReadNext
    <3>3. Reading'
      BY <1>1, <1>3, <2>3, <3>2 DEF ReadInv, Reading
    <3> QED BY <2>1, <3>3
  <2> QED BY <2>2, <2>3
<1> QED BY <1>1, <1>2, <1>3

LEMMA ReadRestorePage == ASSUME ReadInv, RestorePage PROVE Reading' /\ ReadsMemory'
<1>1. /\ step = "restore" /\ step' = "page"
      /\ UNCHANGED <<req, mem, Address, Length, mResponse, mScratch>>
      /\ at' = at + LengthInPage
  BY DEF RestorePage, stub
<1>2. ReadsMemory'
  BY <1>1 DEF ReadsMemory
<1>3. Reading'
  BY <1>1 DEF ReadInv, Reading, Answer
<1> QED BY <1>2, <1>3

LEMMA ReadPeiAccess ==
    ASSUME ChunkReads, ReadInv, PeiAccess PROVE Reading' /\ ReadsMemory'
<1>1. /\ step = "page" /\ left \in Nat
      /\ UNCHANGED <<req, Address, Length, mResponse>>
      /\ \/ Fail \/ step' = "fault"
         \/ step' = "page" /\ CopyMem(left) /\ at' = at + left
  BY ScratchFact DEF PeiAccess, ReadInv, WriteInv, TypeInv, TypeOK, stub
<1>2. CASE Fail \/ step' = "fault"
  BY <1>2, ReadGivenUp
<1>3. CASE step' = "page" /\ CopyMem(left) /\ at' = at + left
  <2>1. ReadsMemory'
    BY <1>3 DEF ReadsMemory
  <2>2. CASE req.write
    BY <1>1, <1>3, <2>1, <2>2 DEF Reading
  <2>3. CASE ~req.write
    <3>1. \A i \in 1 .. req'.len :
              req'.addr + i - 1 < at' => mScratch'[i - 1] = Answer(i)'
      BY <1>1, <1>3, <2>3, ReadNext
    <3>2. Reading'
      BY <1>1, <1>3, <2>3, <3>1 DEF ReadInv, Reading
    <3> QED BY <2>1, <3>2
  <2> QED BY <2>2, <2>3
<1> QED BY <1>1, <1>2, <1>3

LEMMA ReadEndAccess ==
    ASSUME ChunkReads, ReadInv, EndAccess PROVE Reading' /\ ReadsMemory'
<1>1. /\ step = "page" /\ left = 0 /\ step' \in {"chunk", "emit"}
      /\ UNCHANGED <<req, mem, mResponse, mScratch>>
      /\ ~req.write => step' = "emit" /\ UNCHANGED <<Address, Length>>
      /\ at + left = Address + RangeLength
  BY DEF EndAccess, ReadInv, WriteInv, TypeInv, Progress
<1>2. ReadsMemory'
  BY <1>1 DEF ReadsMemory
<1>3. CASE req.write
  <2>1. step' = "chunk" /\ req'.write
    BY <1>1, <1>3 DEF EndAccess
  <2> QED BY <1>2, <2>1 DEF Reading
<1>4. CASE ~req.write
  <2>1. /\ req.addr \in Nat /\ req.len \in Nat /\ req.len <= SCRATCH_SIZE /\ at \in Nat
    BY <1>1, <1>4, ReadRequest DEF ReadInv, WriteInv
  <2>2. /\ Address = req.addr /\ Length = req.len /\ mResponse = <<>>
        /\ \A i \in 1 .. req.len : req.addr + i - 1 < at => mScratch[i - 1] = Answer(i)
    BY <1>1, <1>4 DEF ReadInv, Reading
  <2>3. at = req.addr + req.len
    BY <1>1, <2>1, <2>2, ScratchFact DEF RangeLength, Minimum
  <2>4. \A i \in 1 .. req.len : req.addr + i - 1 < at
    BY <2>1, <2>3
  <2>5. \A i \in 1 .. req'.len : mScratch'[i - 1] = Answer(i)'
    BY <1>1, <2>2, <2>4 DEF Answer
  <2> QED BY <1>1, <1>2, <1>4, <2>2, <2>5 DEF Reading
<1> QED BY <1>3, <1>4

LEMMA ReadStep == ASSUME ChunkReads PROVE ReadInv /\ [Next]_vars => ReadInv'
<1> SUFFICES ASSUME ReadInv, [Next]_vars PROVE ReadInv'
    OBVIOUS
<1>1. WriteInv'
  BY WriteStep DEF ReadInv
<1>2. CASE UNCHANGED vars
  <2>1. UNCHANGED <<step, req, mem, Address, Length, mResponse, at, left, mScratch, reply>>
    BY <1>2 DEF vars, fixed, stub
  <2>2. Reading'
    BY <2>1 DEF ReadInv, Reading, Answer, LengthInPage
  <2>3. ReadsMemory'
    BY <2>1 DEF ReadInv, ReadsMemory
  <2> QED BY <1>1, <2>2, <2>3 DEF ReadInv
<1>3. CASE Next
  <2>1. Reading' /\ ReadsMemory'
    BY <1>3, ReadReceive, ReadStartChunk, ReadEmitChunk, ReadFinish, ReadChecked,
       ReadCopyPage, ReadRestorePage, ReadPeiAccess, ReadEndAccess DEF Next
  <2> QED BY <1>1, <2>1 DEF ReadInv
<1> QED BY <1>2, <1>3

\* The answer to a read of at most a chunk is the memory, byte for byte, however the range
\* lies across pages (ProcessMemoryCommand over AccessMemory, and over DbgReadMemory of
\* PEI).  For longer reads it is not: see the run of long reads.
THEOREM ReadsExact == ASSUME ChunkReads PROVE Spec => []ReadsMemory
<1>1. Spec => []ReadInv
  BY ReadInit, ReadStep, PTL DEF Spec
<1> QED BY <1>1, PTL DEF ReadInv

=============================================================================
