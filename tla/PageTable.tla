----------------------------- MODULE PageTable -----------------------------
(***************************************************************************)
(* The page table walks by which the agent decides whether it may touch an *)
(* address: GetPageIs (X64/AddressCheck.c) and ParsePageTableLevel with    *)
(* CheckPageAccess (AARCH64/DebugAarch64.c), over the tables that the      *)
(* firmware builds from the attributes of its pages.                       *)
(*                                                                         *)
(* Levels are numbered as in AArch64Mmu.h: 3 holds the pages, 0 is the     *)
(* PML4 of X64.  An entry of level l describes a block of Fanout^(3 - l)   *)
(* pages; a table is named by the number of the block it divides.          *)
(***************************************************************************)
EXTENDS Integers

CONSTANTS EFI_PAGE_SIZE, \* bytes of a page
          Fanout,        \* entries of a table (512)
          PageCount,     \* pages of the address space
          RootLevel,     \* first level of an AARCH64 walk, from TCR.T0SZ
          Hole           \* addresses that GetPageIs refuses unseen

ASSUME PageAssumption == EFI_PAGE_SIZE \in Nat \ {0} /\ PageCount \in Nat
ASSUME TableAssumption == Fanout \in Nat \ {0} /\ RootLevel \in 0 .. 2

Page == 0 .. PageCount - 1
Addr == 0 .. PageCount * EFI_PAGE_SIZE - 1

PageOf(a) == a \div EFI_PAGE_SIZE

\* What the firmware has done with a page.  EFI_MEMORY_RP is the cleared present
\* bit of X64 and the cleared access flag of AARCH64; user tells whether programs
\* less privileged than the firmware may use the page too.
PageState == [mapped : BOOLEAN, attr : SUBSET {"RO", "RP"}, user : BOOLEAN,
              device : BOOLEAN]

\* What the processor permits the firmware.
CpuReads(s)  == s.mapped /\ "RP" \notin s.attr
CpuWrites(s) == CpuReads(s) /\ "RO" \notin s.attr

-----------------------------------------------------------------------------
\* Entry i of table t at a level.  The blocks of level 2 in big are mapped by one
\* entry, a large page or block; every upper entry permits writes, as the
\* firmware's tables do.
X64Entry(layout, big, level, t, i) ==
    LET block == t * Fanout + i
        leaf  == level = 3 \/ (level = 2 /\ block \in big)
        first == IF level = 3 THEN block ELSE block * Fanout
    IN  IF leaf
        THEN [Present   |-> CpuReads(layout[first]),
              ReadWrite |-> "RO" \notin layout[first].attr,
              MustBe1   |-> level = 2,
              next      |-> block]
        ELSE [Present |-> TRUE, ReadWrite |-> TRUE, MustBe1 |-> FALSE, next |-> block]

\* AP: 0 NO_RW, 1 RW_RW, 2 NO_RO, 3 RO_RO.
ArmEntry(layout, big, level, t, i) ==
    LET block == t * Fanout + i
        leaf  == level = 3 \/ (level = 2 /\ block \in big)
        first == IF level = 3 THEN block ELSE block * Fanout
        s     == layout[first]
    IN  IF leaf
        THEN [type   |-> IF ~s.mapped THEN 0 ELSE IF level = 3 THEN 3 ELSE 1,
              AP     |-> (IF "RO" \in s.attr THEN 2 ELSE 0) + (IF s.user THEN 1 ELSE 0),
              AF     |-> "RP" \notin s.attr,
              device |-> s.device,
              next   |-> block]
        ELSE [type |-> 3, AP |-> 0, AF |-> FALSE, device |-> FALSE, next |-> block]

-----------------------------------------------------------------------------
\* The block of a level in which a page lies.
Block(page, level) ==
    CASE level = 3 -> page
      [] level = 2 -> page \div Fanout
      [] level = 1 -> (page \div Fanout) \div Fanout
      [] level = 0 -> ((page \div Fanout) \div Fanout) \div Fanout

\* PdpteIndex, PdeIndex, PteIndex; TT_GET_ENTRY_FOR_ADDRESS.
Index(page, level) == Block(page, level) % Fanout

\* Pml4Index is added to the table's address as a number of bytes: it selects an
\* entry of 8 bytes only when it is a multiple of 8.  It is 0 below 512 GB.
Pml4Entry(page) == Index(page, 0) \div 8

\* The address space lies below 512 GB, and TCR.T0SZ covers it.
TablesReach == \A p \in Page : Block(p, 1) < Fanout /\ Block(p, RootLevel) < Fanout

\* PAGE_IS of the entry that maps the page.
PageIs(e) == IF e.ReadWrite THEN "READ_WRITE" ELSE "READ_ONLY"

\* CR3 and the entries are masked with ADDRESS_BITS, which drops the bits from 36 on:
\* the tables are taken to lie below 64 GB, where next is what the mask leaves.
GetPageIs(layout, big, address) ==
    LET page  == PageOf(address)
        Pml4  == X64Entry(layout, big, 0, 0, Pml4Entry(page))
        Pte1G == X64Entry(layout, big, 1, Pml4.next, Index(page, 1))
        Pte2M == X64Entry(layout, big, 2, Pte1G.next, Index(page, 2))
        Pte4K == X64Entry(layout, big, 3, Pte2M.next, Index(page, 3))
    IN  IF address = 0 \/ address \in Hole \/ ~Pml4.Present \/ ~Pte1G.Present
        THEN "NOT_VALID"
        ELSE IF Pte1G.MustBe1 THEN PageIs(Pte1G)
        ELSE IF ~Pte2M.Present THEN "NOT_VALID"
        ELSE IF Pte2M.MustBe1 THEN PageIs(Pte2M)
        ELSE IF ~Pte4K.Present THEN "NOT_VALID" ELSE PageIs(Pte4K)

\* ParsePageTableLevel at a level, for the entry e of the page; below is what the walk
\* of the next level finds.
ParseEntry(level, e, below) ==
    IF level < 3 /\ e.type = 3 THEN below
    ELSE IF e.type = (IF level = 3 THEN 3 ELSE 1) THEN e
    ELSE [e EXCEPT !.type = 0]

\* The entry of the page, or an entry of type 0 when the page is not mapped.
ParsePageTableLevel(layout, big, page) ==
    LET Entry(level, t) == ArmEntry(layout, big, level, t, Index(page, level))
        Level3(t) == ParseEntry(3, Entry(3, t), Entry(3, t))
        Level2(t) == ParseEntry(2, Entry(2, t), Level3(Entry(2, t).next))
        Level1(t) == ParseEntry(1, Entry(1, t), Level2(Entry(1, t).next))
        Level0(t) == ParseEntry(0, Entry(0, t), Level1(Entry(0, t).next))
    IN  CASE RootLevel = 0 -> Level0(0)
          [] RootLevel = 1 -> Level1(0)
          [] RootLevel = 2 -> Level2(0)

\* Addresses from 0xfffff00000000000 on, refused at once, are not among Addr.  Device
\* memory is refused.  A write looks at AP only, which has bit 0 set (RW_RW, but also
\* RO_RO) or is 0; a read looks at AF only.
CheckPageAccess(layout, big, address, write) ==
    LET e == ParsePageTableLevel(layout, big, PageOf(address))
    IN  /\ e.type # 0
        /\ ~e.device
        /\ IF write THEN e.AP % 2 # 0 \/ e.AP = 0 ELSE e.AF

IsPageReadable(arch, layout, big, address) ==
    IF arch = "X64" THEN GetPageIs(layout, big, address) \in {"READ_ONLY", "READ_WRITE"}
    ELSE CheckPageAccess(layout, big, address, FALSE)

\* Mutated form of IsPageWritable: a page that can be read can be written.
IsPageWritableAlike(arch, layout, big, address) ==
    IsPageReadable(arch, layout, big, address)

IsPageWritable(arch, layout, big, address) ==
    IF arch = "X64" THEN GetPageIs(layout, big, address) = "READ_WRITE"
    ELSE CheckPageAccess(layout, big, address, TRUE)

=============================================================================
