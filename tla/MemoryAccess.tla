--------------------------- MODULE MemoryAccess ---------------------------
(***************************************************************************)
(* The commands m and M of the stub (ProcessMemoryCommand, GdbStub.c) and  *)
(* the agents' routines below them: AccessMemory of DXE and of MM, which    *)
(* lift the attributes of a page for the time of the copy, page by page;   *)
(* AccessMemory of a DXE agent that has no attribute protocol yet, which    *)
(* asks the page tables; DbgReadMemory and DbgWriteMemory of PEI, which ask *)
(* them for the first page of the range.                                   *)
(*                                                                         *)
(* A request is worked through in chunks of mScratch.  Nothing interrupts   *)
(* the stub, but a copy that the processor refuses is an exception within   *)
(* the exception: fault.                                                   *)
(***************************************************************************)
EXTENDS PageTable, Sequences

CONSTANTS Platforms,    \* agents and architectures: see Platform
          Layouts,      \* what the firmware may have done with its pages
          BigBlocks,    \* sets of blocks of level 2 that have one entry
          Contents,     \* memory at the first command
          Byte,
          Requests,     \* what the debugger asks for
          SCRATCH_SIZE, \* bytes of mScratch
          WindbgWorkarounds, \* PcdEnableWindbgWorkarounds
          MaxCommands   \* bound on the commands of a behaviour

\* "tables" is the DXE agent while mMemoryAttributeProtocol is NULL.
Platform == [agent : {"dxe", "tables", "mm", "pei"}, arch : {"X64", "AARCH64"}]

\* A well-formed M has Length bytes of data, an m none.
Request == [write : BOOLEAN, addr : Addr, len : Nat, data : Seq(Byte)]

\* A block with one entry is of one kind.
BigOK(layout, big) ==
    \A b \in big : \A q \in Page : q \div Fanout = b => layout[q] = layout[b * Fanout]

ASSUME PlatformAssumption == Platforms \subseteq Platform
ASSUME LayoutAssumption == Layouts \subseteq [Page -> PageState]
ASSUME ContentAssumption == Contents \subseteq [Addr -> Byte] /\ 0 \in Byte
ASSUME ScratchAssumption == SCRATCH_SIZE \in Nat \ {0}
\* An M of more than a chunk does not fit mRequest, which has two characters for every
\* byte of mScratch.
ASSUME RequestAssumption ==
    /\ Requests \subseteq Request
    /\ \A r \in Requests : /\ r.addr + r.len <= PageCount * EFI_PAGE_SIZE
                           /\ (r.write /\ Len(r.data) = r.len) => r.len <= SCRATCH_SIZE
ASSUME BoundAssumption == MaxCommands \in Nat /\ WindbgWorkarounds \in BOOLEAN

VARIABLES platform, big,
          pages,     \* the pages as the processor sees them
          mem,
          step,      \* where the stub is: see Steps
          req,       \* the request
          Address, Length,     \* locals of ProcessMemoryCommand
          mScratch, mResponse,
          at, left,  \* Address and Length of AccessMemory
          AttributesChanged,
          reply,     \* last response: "OK", "data", "E"
          layout,    \* history: the pages as the firmware left them
          before,    \* history: mem when the request came
          refused,   \* history: the attribute service failed in this command
          count      \* commands so far

fixed == <<platform, big, layout>>
stub  == <<req, Address, Length, mResponse, before, count>>
vars  == <<fixed, pages, mem, step, stub, mScratch, at, left, AttributesChanged, reply,
           refused>>

Steps == {"idle", "chunk", "page", "copy", "restore", "emit", "fault"}

Minimum(m, n) == IF m <= n THEN m ELSE n

NoRequest == [write |-> FALSE, addr |-> 0, len |-> 0, data |-> <<>>]

Init == /\ platform \in Platforms
        /\ layout \in Layouts
        /\ big \in {b \in BigBlocks : BigOK(layout, b)}
        /\ pages = layout
        /\ mem \in Contents /\ before = mem
        /\ step = "idle" /\ req = NoRequest /\ reply = "none"
        /\ Address = 0 /\ Length = 0 /\ at = 0 /\ left = 0
        /\ mScratch = [i \in 0 .. SCRATCH_SIZE - 1 |-> 0]
        /\ mResponse = <<>>
        /\ AttributesChanged = FALSE /\ refused = FALSE /\ count = 0

-----------------------------------------------------------------------------
\* Parsing: an M whose data is not twice Length digits long is refused.
Receive(r) ==
    /\ step = "idle"
    /\ count < MaxCommands
    /\ count' = count + 1
    /\ req' = r
    /\ before' = mem
    /\ refused' = FALSE
    /\ mResponse' = <<>>
    /\ IF r.write /\ Len(r.data) # r.len
       THEN reply' = "E" /\ UNCHANGED <<step, Address, Length>>
       ELSE /\ step' = "chunk"
            /\ Address' = r.addr
            /\ Length' = r.len
            /\ reply' = "none"
    /\ UNCHANGED <<fixed, pages, mem, mScratch, at, left, AttributesChanged>>

RangeLength == Minimum(Length, SCRATCH_SIZE)

\* Windbg reads page 0, and a page far above Addr: the stub answers with zeros.  A
\* chunk that starts in page 0 is answered with zeros to its end.
ZeroPage == WindbgWorkarounds /\ Address < EFI_PAGE_SIZE /\ RangeLength < EFI_PAGE_SIZE

\* One round of the loop, up to the call of DbgReadMemory or DbgWriteMemory.
StartChunk ==
    /\ step = "chunk"
    /\ Length > 0
    /\ IF req.write
       THEN /\ mScratch' = [i \in DOMAIN mScratch |->
                              IF i < RangeLength
                              THEN req.data[Address - req.addr + i + 1] ELSE mScratch[i]]
            /\ step' = "page"
       ELSE IF ZeroPage
       THEN /\ mScratch' = [i \in DOMAIN mScratch |->
                              IF i < RangeLength THEN 0 ELSE mScratch[i]]
            /\ step' = "emit"
       ELSE step' = "page" /\ UNCHANGED mScratch
    /\ at' = Address
    /\ left' = RangeLength
    /\ UNCHANGED <<fixed, pages, mem, stub, AttributesChanged, reply, refused>>

\* The loop is done.
Finish ==
    /\ step = "chunk"
    /\ Length = 0
    /\ step' = "idle"
    /\ reply' = IF req.write THEN "OK" ELSE "data"
    /\ UNCHANGED <<fixed, pages, mem, stub, mScratch, at, left, AttributesChanged, refused>>

\* The copy loop runs to Length, the rest of the request, not to RangeLength: a
\* byte beyond mScratch is whatever the linker has put there.
Emitted(n) == [i \in 1 .. n |-> IF i <= SCRATCH_SIZE THEN mScratch[i - 1] ELSE -1]

\* Mutated form of ReadResponse: only what has been read is emitted, but a byte
\* short.
ReadResponseShort == Emitted(RangeLength - 1)

ReadResponse == Emitted(Length)

\* After a successful DbgReadMemory.
EmitChunk ==
    /\ step = "emit"
    /\ mResponse' = mResponse \o ReadResponse
    /\ Address' = Address + RangeLength
    /\ Length' = Length - RangeLength
    /\ step' = "chunk"
    /\ UNCHANGED <<fixed, pages, mem, req, before, count, mScratch, at, left,
                   AttributesChanged, reply, refused>>

-----------------------------------------------------------------------------
\* AccessMemory returns FALSE: GDB_ERROR_BAD_MEM_ADDRESS.
Fail == /\ step' = "idle"
        /\ reply' = "E"

LengthInPage == Minimum(left, EFI_PAGE_SIZE - (at % EFI_PAGE_SIZE))

\* Attributes that ClearMemoryAttributes is called with: DXE treats read-protected
\* memory as invalid, MM lifts that too.
Lifted(agent, write, attr) ==
    IF write /\ "RO" \in attr THEN (IF agent = "mm" THEN {"RO", "RP"} ELSE {"RO"})
    ELSE IF agent = "mm" THEN attr \cap {"RP"} ELSE {}

\* Mutated form of DxeRefuses: read-only pages are refused as well.
DxeRefusesReadOnly(attr) == attr # {}

DxeRefuses(attr) == "RP" \in attr

\* GetMemoryAttributes fails on unmapped memory; ClearMemoryAttributes may fail
\* for want of memory to split a large page.
PreparePage ==
    /\ step = "page" /\ platform.agent \in {"dxe", "mm"} /\ left > 0
    /\ LET p == PageOf(at)
           attr == pages[p].attr
           clear == Lifted(platform.agent, req.write, attr)
       IN  \/ /\ ~pages[p].mapped \/ (platform.agent = "dxe" /\ DxeRefuses(attr))
              /\ Fail
              /\ UNCHANGED <<pages, AttributesChanged, refused>>
           \/ /\ pages[p].mapped /\ ~(platform.agent = "dxe" /\ DxeRefuses(attr))
              /\ step' = "copy"
              /\ pages' = [pages EXCEPT ![p].attr = @ \ clear]
              /\ AttributesChanged' = (clear # {})
              /\ UNCHANGED <<reply, refused>>
           \/ /\ pages[p].mapped /\ ~(platform.agent = "dxe" /\ DxeRefuses(attr))
              /\ clear # {}
              /\ Fail
              /\ refused' = TRUE
              /\ AttributesChanged' = FALSE
              /\ UNCHANGED pages
    /\ UNCHANGED <<fixed, mem, stub, mScratch, at, left>>

\* Without the protocol: IsPageReadable or IsPageWritable.
CheckPage ==
    /\ step = "page" /\ platform.agent = "tables" /\ left > 0
    /\ IF IF req.write THEN IsPageWritable(platform.arch, pages, big, at)
                       ELSE IsPageReadable(platform.arch, pages, big, at)
       THEN step' = "copy" /\ UNCHANGED reply
       ELSE Fail
    /\ AttributesChanged' = FALSE
    /\ UNCHANGED <<fixed, pages, mem, stub, mScratch, at, left, refused>>

\* Mutated form of Offset: Data is not advanced from one page to the next.
OffsetInPage(a) == a - at

\* Where a byte of this access is in mScratch.
Offset(a) == a - Address

\* Whether the processor permits the copy of n bytes.
Permitted(n) ==
    \A a \in at .. at + n - 1 : IF req.write THEN CpuWrites(pages[PageOf(a)])
                                ELSE CpuReads(pages[PageOf(a)])

\* CopyMem of n bytes at address at.
CopyMem(n) ==
    IF req.write
    THEN /\ mem' = [a \in Addr |-> IF a \in at .. at + n - 1 THEN mScratch[Offset(a)]
                                   ELSE mem[a]]
         /\ UNCHANGED mScratch
    ELSE /\ mScratch' = [i \in DOMAIN mScratch |->
                           IF Address + i \in at .. at + n - 1 THEN mem[Address + i]
                           ELSE mScratch[i]]
         /\ UNCHANGED mem

CopyPage ==
    /\ step = "copy"
    /\ IF Permitted(LengthInPage) THEN CopyMem(LengthInPage) /\ step' = "restore"
       ELSE step' = "fault" /\ UNCHANGED <<mem, mScratch>>
    /\ UNCHANGED <<fixed, pages, stub, at, left, AttributesChanged, reply, refused>>

\* Mutated form of Restored: only a cleared RO is set again.
RestoredOnlyRO(p) == [pages EXCEPT ![p].attr = @ \cup (layout[p].attr \cap {"RO"})]

\* SetMemoryAttributes adds the attributes that the page had.  It does not fail:
\* the entry of the page exists since ClearMemoryAttributes.
Restored(p) == [pages EXCEPT ![p].attr = @ \cup layout[p].attr]

RestorePage ==
    /\ step = "restore"
    /\ pages' = IF AttributesChanged THEN Restored(PageOf(at)) ELSE pages
    /\ at' = at + LengthInPage
    /\ left' = left - LengthInPage
    /\ step' = "page"
    /\ AttributesChanged' = FALSE
    /\ UNCHANGED <<fixed, mem, stub, mScratch, reply, refused>>

\* PEI: the page of the first byte is checked, then the whole range is copied.
PeiAccess ==
    /\ step = "page" /\ platform.agent = "pei" /\ left > 0
    /\ IF IF req.write THEN IsPageWritable(platform.arch, pages, big, at)
                       ELSE IsPageReadable(platform.arch, pages, big, at)
       THEN /\ IF Permitted(left)
               THEN /\ CopyMem(left)
                    /\ step' = "page"
                    /\ at' = at + left
                    /\ left' = 0
               ELSE step' = "fault" /\ UNCHANGED <<mem, mScratch, at, left>>
            /\ UNCHANGED reply
       ELSE Fail /\ UNCHANGED <<mem, mScratch, at, left>>
    /\ UNCHANGED <<fixed, pages, stub, AttributesChanged, refused>>

\* Mutated form of EndAccess: every chunk counts as a full one.
EndFullAccess ==
    /\ step = "page" /\ left = 0
    /\ IF req.write
       THEN /\ Address' = Address + SCRATCH_SIZE
            /\ Length' = Length - SCRATCH_SIZE
            /\ step' = "chunk"
       ELSE step' = "emit" /\ UNCHANGED <<Address, Length>>
    /\ UNCHANGED <<fixed, pages, mem, req, mResponse, before, count, mScratch, at, left,
                   AttributesChanged, reply, refused>>

\* AccessMemory returns TRUE.
EndAccess ==
    /\ step = "page" /\ left = 0
    /\ IF req.write
       THEN /\ Address' = Address + RangeLength
            /\ Length' = Length - RangeLength
            /\ step' = "chunk"
       ELSE step' = "emit" /\ UNCHANGED <<Address, Length>>
    /\ UNCHANGED <<fixed, pages, mem, req, mResponse, before, count, mScratch, at, left,
                   AttributesChanged, reply, refused>>

Next == \/ \E r \in Requests : Receive(r)
        \/ StartChunk \/ EmitChunk \/ Finish
        \/ PreparePage \/ CheckPage \/ CopyPage \/ RestorePage \/ PeiAccess \/ EndAccess

Spec == Init /\ [][Next]_vars

-----------------------------------------------------------------------------
\* The memory once the first k bytes of the request are written.
Overlay(k) ==
    [a \in Addr |-> IF a \in req.addr .. req.addr + k - 1 THEN req.data[a - req.addr + 1]
                    ELSE before[a]]

\* The variables have their types.
TypeOK == /\ platform \in Platforms /\ layout \in Layouts /\ big \in BigBlocks
          /\ pages \in [Page -> PageState]
          /\ mem \in [Addr -> Byte] /\ before \in [Addr -> Byte]
          /\ step \in Steps /\ reply \in {"none", "OK", "data", "E"}
          /\ req \in Requests \cup {NoRequest}
          /\ Address \in Nat /\ Length \in Nat /\ at \in Nat
          /\ left \in 0 .. SCRATCH_SIZE
          /\ mScratch \in [0 .. SCRATCH_SIZE - 1 -> Byte]
          /\ mResponse \in Seq(Byte \cup {-1})
          /\ AttributesChanged \in BOOLEAN /\ refused \in BOOLEAN
          /\ count \in 0 .. MaxCommands

\* The firmware's protection survives the debugger: whatever a command does, and
\* wherever it gives up, no page but the one being copied differs from how the
\* firmware left it, and none after the command (AccessMemory, DXE and MM).
AttributesKept ==
    \A p \in Page : pages[p] # layout[p] =>
        AttributesChanged /\ p = PageOf(at) /\ step \in {"copy", "restore"}

\* A write touches the requested range and nothing else, in order: OK means all of
\* it is written; an error, a prefix that ends where a page begins, or nothing
\* (ProcessMemoryCommand over AccessMemory).
WritesExactly ==
    step = "idle" =>
        CASE reply = "OK" -> mem = Overlay(req.len)
          [] reply = "E" /\ req.write ->
                 \E k \in 0 .. req.len :
                     /\ mem = Overlay(k)
                     /\ k > 0 => (req.addr + k) % EFI_PAGE_SIZE = 0
          [] OTHER -> mem = before

\* A memory error is not an answer to a permitted access: some page of the range
\* may not be accessed so, or has attributes that could not be lifted, or is one
\* the walk refuses on purpose: address 0 and the hole on X64, device memory on AARCH64.
RefusesOnlyForbidden ==
    (step = "idle" /\ reply = "E" /\ Len(req.data) = (IF req.write THEN req.len ELSE 0))
        => \/ refused
           \/ \E a \in req.addr .. req.addr + req.len - 1 :
                  LET s == layout[PageOf(a)]
                  IN  \/ ~s.mapped
                      \/ platform.agent # "mm" /\ ~CpuReads(s)
                      \/ /\ platform.agent \in {"tables", "pei"}
                         /\ \/ req.write /\ ~CpuWrites(s)
                            \/ IF platform.arch = "X64" THEN a = 0 \/ a \in Hole
                               ELSE s.device

\* A page in the state s that CheckPageAccess of AARCH64 takes to be writable though it
\* is not: its access flag is clear, or it is read-only for everyone (RO_RO).
Misjudged(s) ==
    /\ platform.arch = "AARCH64" /\ platform.agent \in {"tables", "pei"} /\ req.write
    /\ s.attr # {} /\ ("RO" \in s.attr => s.user)

\* No command makes the processor raise an exception in the middle of a session, but
\* in two cases: PEI looks at the first page of a range only, and AARCH64 without the
\* attribute protocol writes to a page whose access flag it does not look at or whose
\* RO_RO it takes for RW_RW (CheckPageAccess).
NoFault ==
    step = "fault" => \/ platform.agent = "pei" /\ PageOf(at + left - 1) # PageOf(at)
                      \/ Misjudged(pages[PageOf(at)])

\* The answer to a read is the memory, byte for byte; a read that starts in page 0
\* is answered with zeros for the sake of Windbg ("Copy into or out of a buffer
\* and operate on it from there").
ReadsMemory ==
    (step = "idle" /\ reply = "data") =>
        mResponse = [i \in 1 .. req.len |->
                        IF WindbgWorkarounds /\ req.addr < EFI_PAGE_SIZE THEN 0
                        ELSE mem[req.addr + i - 1]]

=============================================================================
