-------------------------------- MODULE Pmm --------------------------------
(***************************************************************************)
(* kernel/pmm.c: the physical page allocator, a bitmap with a counter and  *)
(* a next-free hint.  Every operation is one section under pmm_lock.       *)
(*                                                                         *)
(* Addresses and lengths are counted in units, PAGE_SIZE to a page; the    *)
(* bitmap is the set of the pages whose bit is set.  memmap and held are   *)
(* history: the boot loader's map, and the pages handed out and not yet    *)
(* given back.  Definitions whose name starts with Mut are slips of the    *)
(* code, used by no specification.                                         *)
(***************************************************************************)
EXTENDS Integers, Sequences, FiniteSets

CONSTANTS
  PAGE_SIZE,
  KERNEL_ZONE,   \* 0x4800000, below which no page is ever allocated
  Memmaps,       \* the memory maps the boot loader may pass
  Sizes          \* arguments of pmm_set_total_ram

VARIABLES
  memmap, bitmap, bitmap_pages, total_pages, used_pages, next_free_hint, held

vars ==
  <<memmap, bitmap, bitmap_pages, total_pages, used_pages, next_free_hint, held>>

-----------------------------------------------------------------------------
(* pmm_init_dynamic *)

Usable(m) == {m[i] : i \in {j \in DOMAIN m : m[j].usable}}
End(e)    == e.base + e.length
RoundUp(a) == ((a + PAGE_SIZE - 1) \div PAGE_SIZE) * PAGE_SIZE

\* Phase 1.
HighestAddr(m) ==
  CHOOSE a \in {End(e) : e \in Usable(m)} : \A e \in Usable(m) : End(e) <= a
PagesNeeded(m) == HighestAddr(m) \div PAGE_SIZE

\* Phase 2: the bitmap lies at the start of the first usable region, above the
\* kernel zone, that is large enough.
AllocBytes(m) == RoundUp((PagesNeeded(m) + 7) \div 8)
RegionBase(e) == IF RoundUp(e.base) < KERNEL_ZONE THEN KERNEL_ZONE ELSE RoundUp(e.base)
HasRoom(m, i) ==
  m[i].usable /\ RegionBase(m[i]) < End(m[i])
              /\ End(m[i]) - RegionBase(m[i]) >= AllocBytes(m)
FirstRoom(m, i) == HasRoom(m, i) /\ \A j \in 1 .. i - 1 : ~HasRoom(m, j)
BitmapBase(m) == RegionBase(m[CHOOSE i \in DOMAIN m : FirstRoom(m, i)])

\* Phase 3: the pages of the usable regions are free, save those of the kernel
\* zone and of the bitmap itself.
UsablePages(m) ==
  {p \in 0 .. PagesNeeded(m) - 1 :
     \E e \in Usable(m) : RoundUp(e.base) <= p * PAGE_SIZE /\ p * PAGE_SIZE < End(e)}
KernelLockPages == KERNEL_ZONE \div PAGE_SIZE
MutBitmapPages(m) == {}
BitmapPages(m) ==
  LET first == BitmapBase(m) \div PAGE_SIZE
  IN  first .. first + (AllocBytes(m) \div PAGE_SIZE) - 1
Reserved(m) ==
  (0 .. PagesNeeded(m) - 1)
    \ (UsablePages(m) \ ((0 .. KernelLockPages - 1) \cup BitmapPages(m)))

\* pmm_init_dynamic panics on a map with no usable memory or no room.  The boot
\* loader ends a usable region on a page boundary.
ASSUME PmmAssumption ==
  /\ PAGE_SIZE \in Nat \ {0}
  /\ KERNEL_ZONE \in Nat \ {0} /\ KERNEL_ZONE % PAGE_SIZE = 0
  /\ Sizes \subseteq Nat
  /\ \A m \in Memmaps :
       /\ \A e \in Usable(m) :
            e.base \in Nat /\ e.length \in Nat /\ End(e) % PAGE_SIZE = 0
       /\ \E e \in Usable(m) : \A f \in Usable(m) : End(f) <= End(e)
       /\ \E i \in DOMAIN m : FirstRoom(m, i)

Init ==
  /\ memmap \in Memmaps
  /\ bitmap_pages = PagesNeeded(memmap)
  /\ total_pages = bitmap_pages
  /\ bitmap = Reserved(memmap)
  /\ used_pages = Cardinality(bitmap)
  /\ next_free_hint = KernelLockPages
  /\ held = {}

-----------------------------------------------------------------------------
FreeIn(lo, hi) == {p \in lo .. hi - 1 : p \notin bitmap}

\* The two scans of pmm_alloc_page: from the hint up, then below the hint.
MutScanned == next_free_hint .. total_pages - 1
Scanned ==
  IF FreeIn(next_free_hint, total_pages) # {}
  THEN FreeIn(next_free_hint, total_pages)
  ELSE FreeIn(0, IF next_free_hint < total_pages THEN next_free_hint ELSE total_pages)

\* pmm_alloc_page; it returns PHYS_NULL and changes nothing when Scanned is empty.
AllocPage ==
  \E p \in Scanned :
    /\ \A q \in Scanned : p <= q
    /\ bitmap' = bitmap \cup {p}
    /\ used_pages' = used_pages + 1
    /\ next_free_hint' = p + 1
    /\ held' = held \cup {p}
    /\ UNCHANGED <<memmap, bitmap_pages, total_pages>>

\* What pmm_free_page does not reject: unaligned, out of range, in the kernel
\* zone (PHYS_NULL with it), or free already.
MutAccepts(addr) ==
  /\ addr % PAGE_SIZE = 0
  /\ addr \div PAGE_SIZE < bitmap_pages
  /\ addr >= KERNEL_ZONE
Accepts(addr) ==
  /\ addr % PAGE_SIZE = 0
  /\ addr \div PAGE_SIZE < bitmap_pages
  /\ addr >= KERNEL_ZONE
  /\ addr \div PAGE_SIZE \in bitmap

HintAfterFree(p) == IF p < next_free_hint THEN p ELSE next_free_hint

\* pmm_free_page(addr).  A caller frees no page that others hold or that was
\* never allocated; it may free twice, or pass an address that is rejected.
FreePage(addr) ==
  LET p == addr \div PAGE_SIZE
  IN  /\ Accepts(addr)
      /\ p \in bitmap => p \in held
      /\ bitmap' = bitmap \ {p}
      /\ used_pages' = IF used_pages > 0 THEN used_pages - 1 ELSE used_pages
      /\ next_free_hint' = HintAfterFree(p)
      /\ held' = held \ {p}
      /\ UNCHANGED <<memmap, bitmap_pages, total_pages>>

\* pmm_set_total_ram
SetTotalRam(size) ==
  /\ total_pages' = IF size \div PAGE_SIZE > bitmap_pages THEN bitmap_pages
                    ELSE size \div PAGE_SIZE
  /\ UNCHANGED <<memmap, bitmap, bitmap_pages, used_pages, next_free_hint, held>>

Next ==
  \/ AllocPage
  \/ \E addr \in 0 .. bitmap_pages * PAGE_SIZE : FreePage(addr)
  \/ \E size \in Sizes : SetTotalRam(size)

Spec == Init /\ [][Next]_vars

-----------------------------------------------------------------------------
(* Properties *)

\* The bitmap covers the pages up to the highest usable address, and the counts
\* and the hint stay within them.
TypeOK ==
  /\ memmap \in Memmaps
  /\ bitmap_pages = PagesNeeded(memmap)
  /\ bitmap_pages \in Nat
  /\ total_pages \in 0 .. bitmap_pages
  /\ bitmap \subseteq 0 .. bitmap_pages - 1
  /\ held \subseteq bitmap
  /\ used_pages \in Nat
  /\ next_free_hint \in Nat

\* The O(1) statistic is exact: used_pages is the number of bits set, whatever
\* the order of allocations, frees and rejected frees.
CountExact == used_pages = Cardinality(bitmap)

\* Nothing below the hint is free, so the scan from the hint sees every free
\* page: the wrap-around scan never finds one.
HintIsLow == \A p \in 0 .. bitmap_pages - 1 : p < next_free_hint => p \in bitmap

\* Every page is free, held by one caller, or reserved since boot; no page of the
\* kernel zone, of the bitmap or outside the usable regions is handed out.
Conservation ==
  LET reserved == Reserved(memmap)
  IN  bitmap = held \cup reserved /\ held \cap reserved = {}

\* A free page lies wholly in one usable region, clear of the bitmap's bytes and
\* of the kernel zone: what pmm_init_dynamic made of the memory map.
FreeIsUsable ==
  LET base == BitmapBase(memmap)
  IN  \A p \in FreeIn(0, bitmap_pages) :
        LET a == p * PAGE_SIZE
        IN  /\ \E e \in Usable(memmap) : e.base <= a /\ a + PAGE_SIZE <= End(e)
            /\ a >= KERNEL_ZONE
            /\ a + PAGE_SIZE <= base \/ a >= base + (bitmap_pages + 7) \div 8

\* The page allocator's bitmap, statistic and hint agree, and the pages it gives out
\* are usable memory that is nobody else's.
PoolSound == TypeOK /\ Conservation /\ FreeIsUsable /\ CountExact /\ HintIsLow

\* pmm_alloc_page hands out the lowest free page there is.
LowestFirst ==
  [][\A p \in held' \ held : \A q \in 0 .. p - 1 : q \in bitmap]_vars

\* The allocator implements PagePool, whose pool is what boot left free.
Pool == INSTANCE PagePool
          WITH pool <- (0 .. PagesNeeded(memmap) - 1) \ Reserved(memmap)
PoolSpec == Pool!Spec

=============================================================================
