---------------------------- MODULE CountProofs -----------------------------
(***************************************************************************)
(* Two components that keep a count, for every value of their constants:   *)
(* the pool of page frames counts its used pages, and ping counts the      *)
(* echoes that were answered.                                              *)
(***************************************************************************)
EXTENDS Pmm, Ping, FiniteSetTheorems, TLAPS

\* The inductive invariant: the hint is low only because frees rewind it, and the
\* counter is exact only because the pages freed are known to be used.
IInv == TypeOK /\ CountExact /\ HintIsLow /\ Conservation

\* The number of pages pmm_init_dynamic tracks is a natural number.
LEMMA PagesAreNat ==
  ASSUME NEW m \in Memmaps
  PROVE  PagesNeeded(m) \in Nat /\ KernelLockPages \in Nat
<1>1. HighestAddr(m) \in {End(e) : e \in Usable(m)}
  <2>1. PICK e \in Usable(m) : \A f \in Usable(m) : End(f) <= End(e)
    BY PmmAssumption, Zenon
  <2>. QED  BY <2>1, Zenon DEF HighestAddr
<1>2. HighestAddr(m) \in Nat
  BY <1>1, PmmAssumption DEF End
<1>3. \A a \in Nat : a \div PAGE_SIZE \in Nat
  BY PmmAssumption
<1>4. KERNEL_ZONE \in Nat
  BY PmmAssumption, Zenon
<1>. QED  BY ONLY <1>2, <1>3, <1>4 DEF PagesNeeded, KernelLockPages

\* Taking or giving back one page moves the number of bits by exactly one.
LEMMA BitCount ==
  ASSUME NEW n \in Nat, NEW B \in SUBSET (0 .. n - 1), NEW p
  PROVE  /\ IsFiniteSet(B) /\ Cardinality(B) \in Nat
         /\ p \notin B => Cardinality(B \cup {p}) = Cardinality(B) + 1
         /\ p \in B => Cardinality(B) > 0 /\ Cardinality(B \ {p}) = Cardinality(B) - 1
<1>1. IsFiniteSet(B)
  <2>1. IsFiniteSet(0 .. n - 1)
    BY FS_Interval
  <2>. QED  BY <2>1, FS_Subset, Zenon
<1>2. Cardinality(B) \in Nat
  BY <1>1, FS_CardinalityType, Zenon
<1>3. p \notin B => Cardinality(B \cup {p}) = Cardinality(B) + 1
  BY <1>1, FS_AddElement, Zenon
<1>4. ASSUME p \in B
      PROVE  Cardinality(B) > 0 /\ Cardinality(B \ {p}) = Cardinality(B) - 1
  <2>1. Cardinality(B \ {p}) = Cardinality(B) - 1
    BY <1>1, <1>4, FS_RemoveElement, Zenon
  <2>2. IsFiniteSet(B \ {p})
    BY <1>1, FS_Subset, Zenon
  <2>3. Cardinality(B \ {p}) \in Nat
    BY <2>2, FS_CardinalityType, Zenon
  <2>. QED  BY <1>2, <2>1, <2>3
<1>. QED  BY <1>1, <1>2, <1>3, <1>4, Zenon

\* pmm_init_dynamic establishes the invariant.
LEMMA InitInv == Init => IInv
<1>. SUFFICES ASSUME Init PROVE IInv
  BY Zenon
<1>1. PagesNeeded(memmap) \in Nat /\ KernelLockPages \in Nat
  BY PagesAreNat, Zenon DEF Init
<1>2. Reserved(memmap) \subseteq 0 .. PagesNeeded(memmap) - 1
  BY Zenon DEF Reserved
<1>3. Cardinality(Reserved(memmap)) \in Nat
  BY <1>1, <1>2, BitCount, Zenon
<1>4. TypeOK
  BY <1>1, <1>2, <1>3 DEF Init, TypeOK
<1>5. HintIsLow
  BY <1>1 DEF Init, HintIsLow, Reserved
<1>. QED  BY <1>4, <1>5, Zenon DEF Init, IInv, CountExact, Conservation

\* pmm_alloc_page takes a free page, and the hint it leaves is low again.
LEMMA AllocInv == IInv /\ AllocPage => IInv' /\ \A p \in held' \ held : \A q \in 0 .. p - 1 : q \in bitmap
<1>. SUFFICES ASSUME IInv, AllocPage
              PROVE  IInv' /\ \A p \in held' \ held : \A q \in 0 .. p - 1 : q \in bitmap
  BY Zenon
<1>1. PICK p \in Scanned :
        /\ \A q \in Scanned : p <= q
        /\ bitmap' = bitmap \cup {p}
        /\ used_pages' = used_pages + 1
        /\ next_free_hint' = p + 1
        /\ held' = held \cup {p}
        /\ UNCHANGED <<memmap, bitmap_pages, total_pages>>
  BY Zenon DEF AllocPage
<1>2. total_pages \in Nat /\ next_free_hint \in Nat /\ bitmap_pages \in Nat
        /\ total_pages <= bitmap_pages
  BY DEF IInv, TypeOK
<1>3. p \in 0 .. total_pages - 1 /\ p \notin bitmap
  BY <1>1, <1>2 DEF Scanned, FreeIn
<1>4. p \notin held /\ p \notin Reserved(memmap)
  BY <1>3, Zenon DEF IInv, Conservation
<1>5. next_free_hint <= p
  BY <1>2, <1>3 DEF IInv, HintIsLow
<1>6. FreeIn(next_free_hint, total_pages) # {}
  BY <1>2, <1>3, <1>5 DEF FreeIn
<1>7. \A q \in 0 .. p - 1 : q \in bitmap
  <2>. SUFFICES ASSUME NEW q \in 0 .. p - 1, q \notin bitmap PROVE FALSE
    BY Zenon
  <2>1. q \in 0 .. total_pages - 1 /\ q < p
    BY <1>2, <1>3
  <2>2. next_free_hint <= q
    BY <1>2, <2>1 DEF IInv, HintIsLow
  <2>3. q \in Scanned
    BY <1>2, <1>6, <2>1, <2>2 DEF Scanned, FreeIn
  <2>. QED  BY <1>1, <1>3, <2>1, <2>3
<1>8. TypeOK'
  BY <1>1, <1>2, <1>3 DEF IInv, TypeOK
<1>9. CountExact'
  BY <1>1, <1>2, <1>3, BitCount, Zenon DEF IInv, TypeOK, CountExact
<1>10. HintIsLow'
  BY <1>1, <1>2, <1>3, <1>7 DEF HintIsLow
<1>11. Conservation'
  BY <1>1, <1>4, Zenon DEF IInv, Conservation
<1>. QED  BY <1>1, <1>7, <1>8, <1>9, <1>10, <1>11, Zenon DEF IInv

\* pmm_free_page gives back a page that was held, and rewinds the hint to it.
LEMMA FreeInv ==
  ASSUME NEW addr, IInv, FreePage(addr)
  PROVE  IInv' /\ held' \subseteq held
<1>. DEFINE p == addr \div PAGE_SIZE
<1>1. p \in bitmap /\ p \in held
  BY Zenon DEF FreePage, Accepts
<1>2. /\ bitmap' = bitmap \ {p}
      /\ used_pages' = IF used_pages > 0 THEN used_pages - 1 ELSE used_pages
      /\ next_free_hint' = IF p < next_free_hint THEN p ELSE next_free_hint
      /\ held' = held \ {p}
      /\ UNCHANGED <<memmap, bitmap_pages, total_pages>>
  BY Zenon DEF FreePage, HintAfterFree
<1>. HIDE DEF p
<1>3. total_pages \in Nat /\ next_free_hint \in Nat /\ bitmap_pages \in Nat /\ p \in Nat
  BY <1>1 DEF IInv, TypeOK
<1>4. used_pages > 0 /\ Cardinality(bitmap \ {p}) = used_pages - 1 /\ used_pages \in Nat
  BY <1>1, <1>3, BitCount, Zenon DEF IInv, TypeOK, CountExact
<1>5. TypeOK'
  BY <1>2, <1>3, <1>4 DEF IInv, TypeOK
<1>6. CountExact'
  BY <1>2, <1>4, Zenon DEF CountExact
<1>7. HintIsLow'
  BY <1>2, <1>3 DEF IInv, HintIsLow
<1>8. Conservation'
  BY <1>1, <1>2, Zenon DEF IInv, Conservation
<1>. QED  BY <1>2, <1>5, <1>6, <1>7, <1>8, Zenon DEF IInv

\* pmm_set_total_ram changes how far the scans go, never beyond the bitmap.
LEMMA SetTotalRamInv ==
  ASSUME NEW size \in Sizes, IInv, SetTotalRam(size)
  PROVE  IInv' /\ held' = held
<1>1. size \div PAGE_SIZE \in Nat
  BY PmmAssumption
<1>2. bitmap_pages \in Nat /\ total_pages' \in 0 .. bitmap_pages
  BY <1>1 DEF IInv, TypeOK, SetTotalRam
<1>3. UNCHANGED <<memmap, bitmap, bitmap_pages, used_pages, next_free_hint, held>>
  BY Zenon DEF SetTotalRam
<1>4. HintIsLow'
  BY <1>3, Zenon DEF IInv, HintIsLow
<1>. QED  BY <1>2, <1>3, <1>4, Zenon DEF IInv, TypeOK, CountExact, Conservation

\* Every step of the allocator preserves the invariant.
LEMMA NextInv == IInv /\ [Next]_vars => IInv'
<1>. SUFFICES ASSUME IInv, [Next]_vars PROVE IInv'
  BY Zenon
<1>1. CASE AllocPage
  BY <1>1, AllocInv, Zenon
<1>2. ASSUME NEW addr \in 0 .. bitmap_pages * PAGE_SIZE, FreePage(addr) PROVE IInv'
  BY <1>2, FreeInv, Zenon
<1>3. ASSUME NEW size \in Sizes, SetTotalRam(size) PROVE IInv'
  BY <1>3, SetTotalRamInv, Zenon
<1>4. CASE UNCHANGED vars
  BY <1>4, Zenon DEF vars, IInv, TypeOK, CountExact, HintIsLow, Conservation
<1>. QED  BY <1>1, <1>2, <1>3, <1>4, Zenon DEF Next

\* The invariant holds throughout.
THEOREM Inductive == Spec => []IInv
BY InitInv, NextInv, PTL DEF Spec

\* The bitmap, the counts and the hint of pmm.c keep their ranges.
THEOREM TypeCorrect == Spec => []TypeOK
<1>1. IInv => TypeOK
  BY Zenon DEF IInv
<1>. QED  BY <1>1, Inductive, PTL

\* used_pages, which pmm_get_used_ram reports, is exactly the number of bits set.
THEOREM Counted == Spec => []CountExact
<1>1. IInv => CountExact
  BY Zenon DEF IInv
<1>. QED  BY <1>1, Inductive, PTL

\* No page below next_free_hint is free.
THEOREM HintLow == Spec => []HintIsLow
<1>1. IInv => HintIsLow
  BY Zenon DEF IInv
<1>. QED  BY <1>1, Inductive, PTL

\* Used pages are the reserved ones and the held ones, and never both.
THEOREM Conserved == Spec => []Conservation
<1>1. IInv => Conservation
  BY Zenon DEF IInv
<1>. QED  BY <1>1, Inductive, PTL

\* pmm_alloc_page hands out the lowest free page.
THEOREM AllocatesLowest == Spec => LowestFirst
<1>. DEFINE Lowest == \A p \in held' \ held : \A q \in 0 .. p - 1 : q \in bitmap
<1>1. IInv /\ [Next]_vars => [Lowest]_vars
  <2>. SUFFICES ASSUME IInv, Next PROVE Lowest
    BY Zenon
  <2>1. CASE AllocPage
    BY <2>1, AllocInv, Zenon
  <2>2. ASSUME NEW addr \in 0 .. bitmap_pages * PAGE_SIZE, FreePage(addr) PROVE Lowest
    BY <2>2, FreeInv, Zenon
  <2>3. ASSUME NEW size \in Sizes, SetTotalRam(size) PROVE Lowest
    BY <2>3, SetTotalRamInv, Zenon
  <2>. QED  BY <2>1, <2>2, <2>3, Zenon DEF Next
<1>. QED  BY <1>1, Inductive, PTL DEF Spec, LowestFirst

\* pmm.c implements a pool of pages in which nothing is handed out twice.
THEOREM ImplementsPool == Spec => PoolSpec
<1>1. Init => Pool!Init
  BY Zenon DEF Init, Pool!Init
<1>2. IInv /\ [Next]_vars => [Pool!Next]_<<(0 .. PagesNeeded(memmap) - 1) \ Reserved(memmap), held>>
  <2>. DEFINE pool == (0 .. PagesNeeded(memmap) - 1) \ Reserved(memmap)
  <2>. SUFFICES ASSUME IInv, [Next]_vars PROVE [Pool!Next]_<<pool, held>>
    BY Zenon
  <2>1. CASE AllocPage
    <3>1. PICK p \in Scanned : held' = held \cup {p} /\ bitmap' = bitmap \cup {p} /\ memmap' = memmap
      BY <2>1, Zenon DEF AllocPage
    <3>2. p \in 0 .. PagesNeeded(memmap) - 1 /\ p \notin bitmap
      BY DEF Scanned, FreeIn, IInv, TypeOK
    <3>3. p \in pool \ held
      BY <3>2, Zenon DEF IInv, Conservation
    <3>4. pool' = pool
      BY <3>1 DEF PagesNeeded, HighestAddr, Usable, Reserved, UsablePages, BitmapPages
    <3>. QED  BY <3>1, <3>3, <3>4, Zenon DEF Pool!Next, Pool!Alloc
  <2>2. ASSUME NEW addr \in 0 .. bitmap_pages * PAGE_SIZE, FreePage(addr)
        PROVE  Pool!Next
    <3>1. PICK p \in held : held' = held \ {p} /\ memmap' = memmap
      BY <2>2, Zenon DEF FreePage, Accepts
    <3>2. pool' = pool
      BY <3>1, Zenon
    <3>. QED  BY <3>1, <3>2, Zenon DEF Pool!Next, Pool!Free
  <2>3. ASSUME NEW size \in Sizes, SetTotalRam(size) PROVE UNCHANGED <<pool, held>>
    BY <2>3, Zenon DEF SetTotalRam
  <2>4. CASE UNCHANGED vars
    BY <2>4, Zenon DEF vars
  <2>. QED  BY <2>1, <2>2, <2>3, <2>4, Zenon DEF Next
<1>. QED  BY <1>1, <1>2, Inductive, PTL DEF Spec, PoolSpec, Pool!Spec

-----------------------------------------------------------------------------
(* What pmm_init_dynamic makes of the memory map *)

LEMMA TimesMonotone ==
  ASSUME NEW n \in Nat, NEW x \in Nat, NEW y \in Nat, x < y
  PROVE  x * n + n <= y * n /\ x * n \in Nat
<1>1. PICK d \in Nat : y = x + 1 + d
  BY y - x - 1 \in Nat /\ y = x + 1 + (y - x - 1), Zenon
<1>2. y * n = x * n + n + d * n /\ d * n \in Nat /\ x * n \in Nat
  BY <1>1
<1>. QED  BY <1>2

LEMMA Division ==
  ASSUME NEW b \in Nat
  PROVE  /\ b \div PAGE_SIZE \in Nat /\ b % PAGE_SIZE \in Nat /\ b % PAGE_SIZE < PAGE_SIZE
         /\ b = PAGE_SIZE * (b \div PAGE_SIZE) + (b % PAGE_SIZE)
<1>1. PAGE_SIZE \in Nat /\ PAGE_SIZE > 0
  BY PmmAssumption
<1>2. b \div PAGE_SIZE \in Nat
  BY ONLY <1>1, b \in Nat
<1>3. b % PAGE_SIZE \in 0 .. PAGE_SIZE - 1
  BY ONLY <1>1, b \in Nat
<1>4. b = PAGE_SIZE * (b \div PAGE_SIZE) + (b % PAGE_SIZE)
  <2>1. b % PAGE_SIZE = b - PAGE_SIZE * (b \div PAGE_SIZE)
    BY ONLY <1>1, b \in Nat
  <2>2. b \in Int /\ b % PAGE_SIZE \in Int /\ PAGE_SIZE * (b \div PAGE_SIZE) \in Int
    BY <1>1, <1>2, <1>3
  <2>3. \A x, y, z \in Int : y = x - z => x = z + y
    OBVIOUS
  <2>. QED  BY <2>1, <2>2, <2>3, Zenon
<1>. QED  BY <1>1, <1>2, <1>3, <1>4

\* Rounding up reaches the next multiple of the page size.
LEMMA RoundsUp ==
  ASSUME NEW a \in Nat
  PROVE  \E q \in Nat : RoundUp(a) = q * PAGE_SIZE /\ a <= q * PAGE_SIZE
<1>. DEFINE b == a + PAGE_SIZE - 1
            q == b \div PAGE_SIZE
<1>0. b \in Nat
  BY PmmAssumption
<1>1. b \in Nat /\ q \in Nat /\ b = PAGE_SIZE * q + (b % PAGE_SIZE) /\ b % PAGE_SIZE < PAGE_SIZE
        /\ b % PAGE_SIZE \in Nat
  BY <1>0, Division, Zenon
<1>2. PAGE_SIZE * q = q * PAGE_SIZE /\ q * PAGE_SIZE \in Nat
  BY <1>1, PmmAssumption
<1>3. a <= q * PAGE_SIZE
  <2>. HIDE DEF q
  <2>. QED  BY <1>1, <1>2, PmmAssumption
<1>. QED  BY <1>1, <1>3, Zenon DEF RoundUp

\* A whole number of pages, divided by the page size.
LEMMA PagesIn ==
  ASSUME NEW q \in Nat PROVE (q * PAGE_SIZE) \div PAGE_SIZE = q
<1>. DEFINE b == q * PAGE_SIZE
            r == b \div PAGE_SIZE
<1>0. b \in Nat
  BY PmmAssumption
<1>1. b \in Nat /\ r \in Nat /\ b = PAGE_SIZE * r + (b % PAGE_SIZE) /\ b % PAGE_SIZE < PAGE_SIZE
        /\ b % PAGE_SIZE \in Nat
  BY <1>0, Division, Zenon
<1>2. PAGE_SIZE * r = r * PAGE_SIZE /\ r * PAGE_SIZE \in Nat
  BY <1>1, PmmAssumption
<1>3. r * PAGE_SIZE <= q * PAGE_SIZE /\ q * PAGE_SIZE < r * PAGE_SIZE + PAGE_SIZE
  BY <1>1, <1>2, PmmAssumption
<1>. HIDE DEF r, b
<1>4. ~(r < q)
  BY <1>1, <1>2, <1>3, TimesMonotone, PmmAssumption
<1>5. ~(q < r)
  BY <1>1, <1>2, <1>3, TimesMonotone, PmmAssumption
<1>. QED  BY <1>1, <1>4, <1>5 DEF r, b

\* What divides evenly is a whole number of pages.
LEMMA Whole ==
  ASSUME NEW a \in Nat, a % PAGE_SIZE = 0
  PROVE  \E q \in Nat : a = q * PAGE_SIZE
<1>1. a = PAGE_SIZE * (a \div PAGE_SIZE) + (a % PAGE_SIZE) /\ a \div PAGE_SIZE \in Nat
  BY Division, Zenon
<1>2. a = (a \div PAGE_SIZE) * PAGE_SIZE
  BY <1>1, PmmAssumption
<1>. QED  BY <1>1, <1>2, Zenon

\* The bitmap starts on a page boundary.
LEMMA BitmapAligned ==
  ASSUME NEW m \in Memmaps PROVE \E q \in Nat : BitmapBase(m) = q * PAGE_SIZE
<1>1. PICK k \in DOMAIN m : HasRoom(m, k) /\ BitmapBase(m) = RegionBase(m[k])
  <2>1. \E k \in DOMAIN m : FirstRoom(m, k)
    BY PmmAssumption, Zenon
  <2>. QED  BY <2>1, Zenon DEF BitmapBase, FirstRoom
<1>2. m[k] \in Usable(m)
  BY <1>1, Zenon DEF HasRoom, Usable
<1>3. m[k].base \in Nat
  BY <1>2, PmmAssumption, Zenon
<1>4. \E q \in Nat : RoundUp(m[k].base) = q * PAGE_SIZE
  BY <1>3, RoundsUp, Zenon
<1>5. \E q \in Nat : KERNEL_ZONE = q * PAGE_SIZE
  BY Whole, PmmAssumption, Zenon
<1>. QED  BY <1>1, <1>4, <1>5, Zenon DEF RegionBase

\* A page that boot left free lies wholly in a usable region, above the kernel zone
\* and clear of the bitmap.
LEMMA BootLeavesUsable ==
  ASSUME NEW m \in Memmaps, NEW p \in 0 .. PagesNeeded(m) - 1, p \notin Reserved(m)
  PROVE  /\ \E e \in Usable(m) : e.base <= p * PAGE_SIZE /\ p * PAGE_SIZE + PAGE_SIZE <= End(e)
         /\ p * PAGE_SIZE >= KERNEL_ZONE
         /\ \/ p * PAGE_SIZE + PAGE_SIZE <= BitmapBase(m)
            \/ p * PAGE_SIZE >= BitmapBase(m) + (PagesNeeded(m) + 7) \div 8
<1>0. p \in Nat /\ PagesNeeded(m) \in Nat /\ KernelLockPages \in Nat /\ p * PAGE_SIZE \in Nat
  BY PagesAreNat, PmmAssumption
<1>1. p \in UsablePages(m) /\ p \notin 0 .. KernelLockPages - 1 /\ p \notin BitmapPages(m)
  BY Zenon DEF Reserved
<1>2. \E e \in Usable(m) : e.base <= p * PAGE_SIZE /\ p * PAGE_SIZE + PAGE_SIZE <= End(e)
  <2>1. PICK e \in Usable(m) : RoundUp(e.base) <= p * PAGE_SIZE /\ p * PAGE_SIZE < End(e)
    BY <1>1, Zenon DEF UsablePages
  <2>2. e.base \in Nat /\ End(e) \in Nat /\ End(e) % PAGE_SIZE = 0
    BY PmmAssumption DEF End
  <2>3. PICK q \in Nat : RoundUp(e.base) = q * PAGE_SIZE /\ e.base <= q * PAGE_SIZE
    BY <2>2, RoundsUp, Zenon
  <2>4. e.base <= p * PAGE_SIZE
    BY <1>0, <2>1, <2>2, <2>3, PmmAssumption
  <2>5. PICK r \in Nat : End(e) = r * PAGE_SIZE
    BY <2>2, Whole, Zenon
  <2>6. p < r
    <3>1. r <= p => r * PAGE_SIZE <= p * PAGE_SIZE
      BY <1>0, TimesMonotone, PmmAssumption
    <3>. QED  BY <1>0, <2>1, <2>2, <2>5, <3>1
  <2>7. p * PAGE_SIZE + PAGE_SIZE <= End(e)
    BY <1>0, <2>5, <2>6, TimesMonotone, PmmAssumption
  <2>. QED  BY <2>4, <2>7, Zenon
<1>3. p * PAGE_SIZE >= KERNEL_ZONE
  <2>1. PICK z \in Nat : KERNEL_ZONE = z * PAGE_SIZE
    BY Whole, PmmAssumption, Zenon
  <2>2. z <= p
    BY <1>0, <1>1, <2>1, PagesIn DEF KernelLockPages
  <2>3. z = p \/ z < p
    BY <1>0, <2>2
  <2>. QED  BY <1>0, <2>1, <2>3, TimesMonotone, PmmAssumption
<1>4. \/ p * PAGE_SIZE + PAGE_SIZE <= BitmapBase(m)
      \/ p * PAGE_SIZE >= BitmapBase(m) + (PagesNeeded(m) + 7) \div 8
  <2>1. PICK q \in Nat : BitmapBase(m) = q * PAGE_SIZE
    BY BitmapAligned, Zenon
  <2>2. (PagesNeeded(m) + 7) \div 8 \in Nat
    BY <1>0
  <2>3. PICK r \in Nat : AllocBytes(m) = r * PAGE_SIZE /\ (PagesNeeded(m) + 7) \div 8 <= r * PAGE_SIZE
    BY <2>2, RoundsUp, Zenon DEF AllocBytes
  <2>4. BitmapPages(m) = q .. q + r - 1
    BY <2>1, <2>3, PagesIn, Zenon DEF BitmapPages
  <2>5. p < q \/ q + r <= p
    BY <1>0, <1>1, <2>4
  <2>6. CASE p < q
    BY <1>0, <2>1, <2>6, TimesMonotone, PmmAssumption
  <2>7. CASE q + r <= p
    <3>1. (q + r) * PAGE_SIZE <= p * PAGE_SIZE
      BY <1>0, <2>7, TimesMonotone, PmmAssumption
    <3>2. (q + r) * PAGE_SIZE = q * PAGE_SIZE + r * PAGE_SIZE /\ q * PAGE_SIZE \in Nat /\ r * PAGE_SIZE \in Nat
      BY PmmAssumption
    <3>. QED  BY <1>0, <2>1, <2>2, <2>3, <3>1, <3>2
  <2>. QED  BY <2>5, <2>6, <2>7, Zenon
<1>. QED  BY <1>2, <1>3, <1>4, Zenon

\* For every memory map with page-aligned ends: bitmap, statistic and hint agree, every
\* page is free, held or reserved, and what can be handed out is usable memory.
THEOREM PoolIsSound == Spec => []PoolSound
<1>1. IInv => FreeIsUsable
  <2>. SUFFICES ASSUME IInv, NEW p \in FreeIn(0, bitmap_pages)
                PROVE  /\ \E e \in Usable(memmap) :
                            e.base <= p * PAGE_SIZE /\ p * PAGE_SIZE + PAGE_SIZE <= End(e)
                       /\ p * PAGE_SIZE >= KERNEL_ZONE
                       /\ \/ p * PAGE_SIZE + PAGE_SIZE <= BitmapBase(memmap)
                          \/ p * PAGE_SIZE >= BitmapBase(memmap) + (bitmap_pages + 7) \div 8
    BY Zenon DEF FreeIsUsable
  <2>1. memmap \in Memmaps /\ bitmap_pages = PagesNeeded(memmap)
    BY Zenon DEF IInv, TypeOK
  <2>2. p \in 0 .. PagesNeeded(memmap) - 1 /\ p \notin Reserved(memmap)
    BY <2>1, Zenon DEF FreeIn, IInv, Conservation
  <2>. QED  BY <2>1, <2>2, BootLeavesUsable, Zenon
<1>2. IInv => PoolSound
  BY <1>1, Zenon DEF IInv, PoolSound
<1>. QED  BY <1>2, Inductive, PTL

-----------------------------------------------------------------------------
(* Echo requests: kernel/net_ping.c.  The call that holds ping_busy is the   *)
(* only one past its first step.                                            *)

PingStages == {"spin", "resolve", "resolved", "echo", "wait", "unsent", "removed", "next"}
Addresses == Hosts \cup {NOBODY}
PingCalls ==
  [at : PingStages, host : Hosts, dest : Addresses, late : BOOLEAN, seqs : SUBSET Nat,
   i : Nat, success : Nat]
PingTypeOK ==
  /\ ping \in [PTASKS -> SUBSET PingCalls]
  /\ ping_busy \subseteq PTASKS /\ ping_pcb \subseteq PTASKS
  /\ ping_seq \in Nat /\ ping_done \in BOOLEAN
  /\ dns_result \in Addresses /\ queries \subseteq Hosts
  /\ echoes \subseteq 1 .. ping_seq /\ answered \subseteq 1 .. ping_seq

Holds(t) ==
  /\ \A c, d \in ping[t] : c = d
  /\ \A c \in ping[t] : t \in ping_busy <=> c.at # "spin"
  /\ ping[t] = {} => t \notin ping_busy
  /\ t \in ping_pcb <=> \E c \in ping[t] : c.at \in {"wait", "unsent"}
Alone ==
  /\ \A t, u \in ping_busy : t = u
  /\ \A t \in PTASKS : Holds(t)

\* What a call has counted.  The request it waits for is not counted yet; ping_done says
\* whether that one was answered.
Tallied(c) ==
  /\ c.seqs \subseteq 1 .. ping_seq
  /\ c.at \in {"spin", "resolve", "resolved"} => c.seqs = {} /\ c.success = 0
  /\ c.at \in {"next", "echo"} => c.success = Cardinality(c.seqs \cap answered)
  /\ c.at \in {"wait", "unsent", "removed"} =>
       /\ ping_seq \in c.seqs
       /\ c.success = Cardinality((c.seqs \ {ping_seq}) \cap answered)
       /\ ping_done <=> ping_seq \in answered
  /\ c.at = "unsent" => ping_seq \notin echoes \cup answered

\* Where a call's answers go.
Directed(c) ==
  /\ c.at \in {"spin", "resolve"} => c.dest = NOBODY
  /\ c.dest \in {c.host, NOBODY} \/ c.late
  /\ c.at = "resolved" /\ ~c.late => queries \subseteq {c.host} /\ dns_result \in {c.host, NOBODY}

PingInv ==
  /\ PingTypeOK /\ Alone
  /\ \A t \in PTASKS : \A c \in ping[t] : Tallied(c) /\ Directed(c)

\* A step of the call that holds the lock leaves the calls that spin as they are.
LEMMA HolderStep ==
  ASSUME PingInv, PingTypeOK', NEW t \in ping_busy, NEW d \in PingCalls, d.at # "spin",
         ping' = [ping EXCEPT ![t] = {d}], ping_busy' = ping_busy,
         d.at \in {"wait", "unsent"} => ping_pcb' = {t},
         d.at \notin {"wait", "unsent"} => ping_pcb' = {},
         Tallied(d)', Directed(d)'
  PROVE  PingInv'
<1>1. /\ ping \in [PTASKS -> SUBSET PingCalls] /\ t \in PTASKS
      /\ ping'[t] = {d} /\ \A u \in PTASKS \ {t} : ping'[u] = ping[u] /\ u \notin ping_busy
  BY Zenon DEF PingInv, PingTypeOK, Alone
<1>2. Alone'
  <2>1. ASSUME NEW u \in PTASKS PROVE Holds(u)'
    <3>1. CASE u = t
      BY <1>1, <3>1, Zenon DEF Holds
    <3>2. CASE u # t
      <4>1. u \notin ping_busy' /\ u \notin ping_pcb' /\ ping'[u] = ping[u] /\ u \notin ping_busy
        BY <1>1, <3>2, Zenon
      <4>2. \A c \in ping[u] : c.at = "spin"
        BY <4>1, Zenon DEF PingInv, Alone, Holds
      <4>3. \A c, e \in ping[u] : c = e
        BY Zenon DEF PingInv, Alone, Holds
      <4>. QED  BY <4>1, <4>2, <4>3, Zenon DEF Holds
    <3>. QED  BY <3>1, <3>2, Zenon
  <2>. QED  BY <2>1, Zenon DEF PingInv, Alone
<1>3. ASSUME NEW u \in PTASKS, NEW c \in ping'[u] PROVE Tallied(c)' /\ Directed(c)'
  <2>1. CASE u = t
    BY <1>1, <1>3, <2>1, Zenon
  <2>2. CASE u # t
    <3>1. c \in ping[u] /\ u \notin ping_busy
      BY <1>1, <1>3, <2>2, Zenon
    <3>2. c.at = "spin" /\ Tallied(c) /\ Directed(c)
      BY <3>1, Zenon DEF PingInv, Alone, Holds
    <3>. QED  BY <3>2, Zenon DEF Tallied, Directed
  <2>. QED  BY <2>1, <2>2, Zenon
<1>. QED  BY <1>2, <1>3, Zenon DEF PingInv

\* So does its return.
LEMMA ReturnStep ==
  ASSUME PingInv, NEW t \in ping_busy, ping_pcb = {}, PingReturns(t),
         UNCHANGED <<ping_pcb, dnsState, echo>>
  PROVE  PingInv'
<1>1. /\ ping \in [PTASKS -> SUBSET PingCalls] /\ t \in PTASKS
      /\ ping'[t] = {} /\ \A u \in PTASKS \ {t} : ping'[u] = ping[u] /\ u \notin ping_busy
      /\ ping_busy' = {} /\ ping' \in [PTASKS -> SUBSET PingCalls]
  BY Zenon DEF PingInv, PingTypeOK, Alone, PingReturns
<1>2. /\ ping_pcb' = ping_pcb /\ ping_seq' = ping_seq /\ ping_done' = ping_done
      /\ dns_result' = dns_result /\ queries' = queries /\ echoes' = echoes /\ answered' = answered
  BY Zenon DEF dnsState, echo
<1>3. PingTypeOK'
  BY <1>1, <1>2, Zenon DEF PingInv, PingTypeOK
<1>4. Alone'
  <2>1. ASSUME NEW u \in PTASKS PROVE Holds(u)'
    <3>1. CASE u = t
      BY <1>1, <1>2, <3>1, Zenon DEF Holds
    <3>2. CASE u # t
      <4>1. \A c \in ping[u] : c.at = "spin"
        BY <1>1, <3>2, Zenon DEF PingInv, Alone, Holds
      <4>2. \A c, e \in ping[u] : c = e
        BY Zenon DEF PingInv, Alone, Holds
      <4>. QED  BY <1>1, <1>2, <3>2, <4>1, <4>2, Zenon DEF Holds
    <3>. QED  BY <3>1, <3>2, Zenon
  <2>. QED  BY <1>1, <2>1, Zenon DEF Alone
<1>5. ASSUME NEW u \in PTASKS, NEW c \in ping'[u] PROVE Tallied(c)' /\ Directed(c)'
  <2>1. c \in ping[u]
    BY <1>1, <1>5, Zenon
  <2>. QED  BY <1>2, <2>1, Zenon DEF PingInv, Tallied, Directed
<1>. QED  BY <1>3, <1>4, <1>5, Zenon DEF PingInv

\* The call a step is of.
LEMMA StageOf ==
  ASSUME PingInv, NEW t \in PTASKS, NEW at, NEW c \in Stage(t, at)
  PROVE  /\ c \in ping[t] /\ c \in PingCalls /\ c.at = at /\ Tallied(c) /\ Directed(c)
         /\ at # "spin" => t \in ping_busy
         /\ at \notin {"spin", "wait", "unsent"} => ping_pcb = {}
<1>1. c \in ping[t] /\ c.at = at /\ c \in PingCalls
  BY Zenon DEF Stage, PingInv, PingTypeOK
<1>2. Tallied(c) /\ Directed(c) /\ (at # "spin" => t \in ping_busy)
  BY <1>1, Zenon DEF PingInv, Alone, Holds
<1>3. ASSUME at \notin {"spin", "wait", "unsent"}, NEW u \in ping_pcb PROVE FALSE
  <2>1. u \in PTASKS
    BY <1>3, Zenon DEF PingInv, PingTypeOK
  <2>2. PICK e \in ping[u] : e.at \in {"wait", "unsent"}
    BY <1>3, <2>1, Zenon DEF PingInv, Alone, Holds
  <2>3. u \in ping_busy
    BY <2>1, <2>2, Zenon DEF PingInv, Alone, Holds
  <2>4. u = t
    BY <1>2, <1>3, <2>3, Zenon DEF PingInv, Alone
  <2>. QED  BY <1>1, <1>3, <2>1, <2>2, <2>4, Zenon DEF PingInv, Alone, Holds
<1>. QED  BY <1>1, <1>2, <1>3, Zenon

\* A request more, and its answer.
LEMMA CountOne ==
  ASSUME NEW n \in Nat, NEW S \in SUBSET (1 .. n), NEW A, NEW k \in S
  PROVE  Cardinality(S \cap A) = Cardinality((S \ {k}) \cap A) + (IF k \in A THEN 1 ELSE 0)
<1>1. IsFiniteSet(S)
  <2>1. IsFiniteSet(1 .. n)
    BY FS_Interval
  <2>. QED  BY <2>1, FS_Subset, Zenon
<1>2. IsFiniteSet((S \ {k}) \cap A) /\ Cardinality((S \ {k}) \cap A) \in Nat
  BY <1>1, FS_Subset, FS_CardinalityType, Zenon
<1>3. CASE k \in A
  <2>1. S \cap A = ((S \ {k}) \cap A) \cup {k} /\ k \notin (S \ {k}) \cap A
    BY <1>3, Zenon
  <2>. QED  BY <1>2, <1>3, <2>1, FS_AddElement, Zenon
<1>4. CASE k \notin A
  <2>1. S \cap A = (S \ {k}) \cap A
    BY <1>4, Zenon
  <2>2. Cardinality((S \ {k}) \cap A) + 0 = Cardinality((S \ {k}) \cap A)
    BY <1>2
  <2>. QED  BY <1>4, <2>1, <2>2, Zenon
<1>. QED  BY <1>3, <1>4, Zenon

\* A record with its stage changed, and another field.
Becomes(d, at, host, dest, lt, q, n) ==
  /\ d \in PingCalls /\ d.at = at /\ d.host = host /\ d.dest = dest /\ d.late = lt
  /\ d.seqs = q /\ d.success = n
LEMMA CallMoved ==
  ASSUME NEW c \in PingCalls, NEW d, NEW at \in PingStages, NEW dest \in Addresses,
         NEW lt \in BOOLEAN, NEW n \in Nat, NEW q \in SUBSET Nat
  PROVE  /\ d = [c EXCEPT !.at = at] => Becomes(d, at, c.host, c.dest, c.late, c.seqs, c.success)
         /\ d = [c EXCEPT !.at = at, !.late = lt] => Becomes(d, at, c.host, c.dest, lt, c.seqs, c.success)
         /\ d = [c EXCEPT !.at = at, !.dest = dest] => Becomes(d, at, c.host, dest, c.late, c.seqs, c.success)
         /\ d = [c EXCEPT !.at = at, !.success = n] => Becomes(d, at, c.host, c.dest, c.late, c.seqs, n)
         /\ d = [c EXCEPT !.at = at, !.i = n] => Becomes(d, at, c.host, c.dest, c.late, c.seqs, c.success)
         /\ d = [c EXCEPT !.at = at, !.seqs = q] => Becomes(d, at, c.host, c.dest, c.late, q, c.success)
<1>1. d = [c EXCEPT !.at = at] => Becomes(d, at, c.host, c.dest, c.late, c.seqs, c.success)
  BY Zenon DEF PingCalls, Becomes
<1>2. d = [c EXCEPT !.at = at, !.late = lt] => Becomes(d, at, c.host, c.dest, lt, c.seqs, c.success)
  BY Zenon DEF PingCalls, Becomes
<1>3. d = [c EXCEPT !.at = at, !.dest = dest] => Becomes(d, at, c.host, dest, c.late, c.seqs, c.success)
  BY Zenon DEF PingCalls, Becomes
<1>4. d = [c EXCEPT !.at = at, !.success = n] => Becomes(d, at, c.host, c.dest, c.late, c.seqs, n)
  BY Zenon DEF PingCalls, Becomes
<1>5. d = [c EXCEPT !.at = at, !.i = n] => Becomes(d, at, c.host, c.dest, c.late, c.seqs, c.success)
  BY Zenon DEF PingCalls, Becomes
<1>6. d = [c EXCEPT !.at = at, !.seqs = q] => Becomes(d, at, c.host, c.dest, c.late, q, c.success)
  BY Zenon DEF PingCalls, Becomes
<1>. QED  BY <1>1, <1>2, <1>3, <1>4, <1>5, <1>6, Zenon

\* A call begins, and takes the lock.
LEMMA BeginStep ==
  ASSUME PingInv, NEW t \in PTASKS, NEW d \in PingCalls, ping' = [ping EXCEPT ![t] = {d}],
         \A c \in ping[t] : c.at = "spin",
         \/ d.at = "spin" /\ ping[t] = {} /\ UNCHANGED ping_busy
         \/ d.at = "resolve" /\ ping[t] # {} /\ ping_busy = {} /\ ping_busy' = {t},
         d.seqs = {} /\ d.success = 0 /\ d.dest = NOBODY,
         UNCHANGED <<ping_pcb, dnsState, echo>>
  PROVE  PingInv'
<1>1. /\ ping \in [PTASKS -> SUBSET PingCalls] /\ ping' \in [PTASKS -> SUBSET PingCalls]
      /\ ping'[t] = {d} /\ \A u \in PTASKS \ {t} : ping'[u] = ping[u]
  BY Zenon DEF PingInv, PingTypeOK
<1>2. /\ ping_pcb' = ping_pcb /\ ping_seq' = ping_seq /\ ping_done' = ping_done
      /\ dns_result' = dns_result /\ queries' = queries /\ echoes' = echoes /\ answered' = answered
  BY Zenon DEF dnsState, echo
<1>3. PingTypeOK'
  BY <1>1, <1>2, Zenon DEF PingInv, PingTypeOK
<1>4. t \notin ping_busy /\ t \notin ping_pcb
  BY Zenon DEF PingInv, Alone, Holds
<1>5. Alone'
  <2>1. ASSUME NEW u \in PTASKS PROVE Holds(u)'
    <3>1. CASE u = t
      BY <1>1, <1>2, <1>4, <3>1, Zenon DEF Holds
    <3>2. CASE u # t
      <4>1. Holds(u) /\ ping'[u] = ping[u] /\ (u \in ping_busy' <=> u \in ping_busy)
        BY <1>1, <3>2, Zenon DEF PingInv, Alone
      <4>. QED  BY <1>2, <4>1, Zenon DEF Holds
    <3>. QED  BY <3>1, <3>2, Zenon
  <2>. QED  BY <2>1, Zenon DEF PingInv, Alone
<1>6. ASSUME NEW u \in PTASKS, NEW c \in ping'[u] PROVE Tallied(c)' /\ Directed(c)'
  <2>1. CASE u = t
    <3>1. c = d
      BY <1>1, <1>6, <2>1, Zenon
    <3>. QED  BY <3>1, Zenon DEF Tallied, Directed
  <2>2. CASE u # t
    <3>1. Tallied(c) /\ Directed(c)
      BY <1>1, <1>6, <2>2, Zenon DEF PingInv
    <3>. QED  BY <1>2, <3>1, Zenon DEF Tallied, Directed
  <2>. QED  BY <2>1, <2>2, Zenon
<1>. QED  BY <1>3, <1>5, <1>6, Zenon DEF PingInv

\* The steps of a call before it has an address.
LEMMA NameStep ==
  ASSUME PingInv, NEW t \in PTASKS,
         \/ \E host \in Hosts : kernel_ping(t, host)
         \/ TakesBusy(t) \/ NoAddress(t) \/ Resolve(t) \/ HostNotFound(t) \/ HostFound(t)
  PROVE  PingInv'
<1>0. /\ NOBODY \in Addresses /\ 0 \in Nat /\ {} \in SUBSET Nat /\ FALSE \in BOOLEAN
      /\ \A st \in {"spin", "resolve", "resolved", "echo"} : st \in PingStages
  BY Zenon DEF Addresses, PingStages
<1>1. ASSUME NEW host \in Hosts, kernel_ping(t, host) PROVE PingInv'
  <2>1. PICK d : d = [at |-> "spin", host |-> host, dest |-> NOBODY, late |-> FALSE, seqs |-> {},
                      i |-> 0, success |-> 0]
    BY Zenon
  <2>2. /\ d \in PingCalls /\ d.at = "spin" /\ d.seqs = {} /\ d.success = 0 /\ d.dest = NOBODY
    BY <1>0, <2>1, Zenon DEF PingCalls
  <2>3. /\ ping' = [ping EXCEPT ![t] = {d}] /\ ping[t] = {}
        /\ UNCHANGED <<ping_busy, ping_pcb, dnsState, echo>>
    BY <1>1, <2>1, Zenon DEF kernel_ping
  <2>. QED  BY <2>2, <2>3, BeginStep, Zenon
<1>2. CASE TakesBusy(t)
  <2>1. PICK c \in Stage(t, "spin") :
          /\ ping_busy = {} /\ ping_busy' = {t} /\ To(t, c, "resolve")
          /\ UNCHANGED <<ping_pcb, dnsState, echo>>
    BY <1>2, Zenon DEF TakesBusy
  <2>2. /\ c \in ping[t] /\ c \in PingCalls /\ c.at = "spin" /\ Tallied(c) /\ Directed(c)
    BY StageOf, Zenon
  <2>3. \A e \in ping[t] : e.at = "spin"
    BY <2>2, Zenon DEF PingInv, Alone, Holds
  <2>4. PICK d : d = [c EXCEPT !.at = "resolve"]
    BY Zenon
  <2>5. Becomes(d, "resolve", c.host, c.dest, c.late, c.seqs, c.success)
    BY <1>0, <2>2, <2>4, CallMoved, Zenon
  <2>6. d \in PingCalls /\ d.at = "resolve" /\ d.seqs = {} /\ d.success = 0 /\ d.dest = NOBODY
    BY <2>2, <2>5, Zenon DEF Becomes, Tallied, Directed
  <2>7. ping' = [ping EXCEPT ![t] = {d}]
    BY <2>1, <2>4, Zenon DEF To
  <2>. QED  BY <2>1, <2>2, <2>3, <2>6, <2>7, BeginStep, Zenon
<1>3. CASE NoAddress(t) \/ HostNotFound(t)
  <2>1. PICK at \in {"resolve", "resolved"} : Stage(t, at) # {}
    BY <1>3, Zenon DEF NoAddress, HostNotFound
  <2>2. PICK c : c \in Stage(t, at)
    BY <2>1, Zenon
  <2>3. t \in ping_busy /\ ping_pcb = {}
    BY <2>2, StageOf, Zenon
  <2>4. PingReturns(t) /\ UNCHANGED <<ping_pcb, dnsState, echo>>
    BY <1>3, Zenon DEF NoAddress, HostNotFound
  <2>. QED  BY <2>3, <2>4, ReturnStep, Zenon
<1>4. CASE Resolve(t)
  <2>1. PICK c \in Stage(t, "resolve") :
          /\ ping' = [ping EXCEPT ![t] = {[c EXCEPT !.at = "resolved", !.late = queries # {}]}]
          /\ \/ dns_done' = TRUE /\ dns_result' = c.host /\ UNCHANGED queries
             \/ dns_done' = FALSE /\ dns_result' = NOBODY /\ queries' = queries \cup {c.host}
             \/ dns_done' = FALSE /\ dns_result' = NOBODY /\ UNCHANGED queries
          /\ UNCHANGED <<ping_busy, ping_pcb, echo>>
    BY <1>4, Zenon DEF Resolve
  <2>2. /\ c \in ping[t] /\ c \in PingCalls /\ Tallied(c) /\ Directed(c) /\ c.at = "resolve"
        /\ t \in ping_busy /\ ping_pcb = {}
    BY StageOf
  <2>3. PICK lt \in BOOLEAN : lt = (queries # {})
    BY Zenon
  <2>4. PICK d : d = [c EXCEPT !.at = "resolved", !.late = lt]
    BY Zenon
  <2>5. Becomes(d, "resolved", c.host, c.dest, lt, c.seqs, c.success)
    BY <1>0, <2>2, <2>4, CallMoved, Zenon
  <2>6. ping' = [ping EXCEPT ![t] = {d}]
    BY <2>1, <2>3, <2>4, Zenon
  <2>7. /\ ping_busy' = ping_busy /\ ping_pcb' = {} /\ ping_seq' = ping_seq /\ ping_done' = ping_done
        /\ echoes' = echoes /\ answered' = answered
    BY <2>1, <2>2, Zenon DEF echo
  <2>8. d \in PingCalls /\ c.host \in Hosts
    BY <2>2, <2>5, Zenon DEF Becomes, PingCalls
  <2>9. PingTypeOK'
    <3>1. queries' \subseteq Hosts /\ dns_result' \in Addresses
      BY <1>0, <2>1, <2>8, Zenon DEF PingInv, PingTypeOK, Addresses
    <3>2. ping' \in [PTASKS -> SUBSET PingCalls]
      BY <2>6, <2>8, Zenon DEF PingInv, PingTypeOK
    <3>. QED  BY <2>7, <3>1, <3>2, Zenon DEF PingInv, PingTypeOK
  <2>10. Tallied(d)'
    BY <2>2, <2>5, <2>7, Zenon DEF Tallied, Becomes
  <2>11. Directed(d)'
    <3>1. d.host = c.host /\ d.dest = c.dest /\ d.late = lt
      BY <2>5, Zenon DEF Becomes
    <3>2. c.dest \in {c.host, NOBODY} \/ queries # {}
      BY <2>2, Zenon DEF Directed
    <3>3. queries = {} => queries' \subseteq {c.host} /\ dns_result' \in {c.host, NOBODY}
      BY <2>1, Zenon
    <3>4. d.at = "resolved"
      BY <2>5, Zenon DEF Becomes
    <3>5. CASE queries = {}
      BY <3>1, <3>2, <3>3, <3>4, <3>5, Zenon DEF Directed
    <3>6. CASE queries # {}
      BY <2>3, <3>1, <3>4, <3>6, Zenon DEF Directed
    <3>. QED  BY <3>5, <3>6, Zenon
  <2>. QED  BY <2>2, <2>5, <2>6, <2>7, <2>8, <2>9, <2>10, <2>11, HolderStep, Zenon DEF Becomes
<1>5. CASE HostFound(t)
  <2>1. PICK c \in Stage(t, "resolved") :
          /\ ping' = [ping EXCEPT ![t] = {[c EXCEPT !.at = "echo", !.dest = dns_result]}]
          /\ UNCHANGED <<ping_busy, ping_pcb, dnsState, echo>>
    BY <1>5, Zenon DEF HostFound
  <2>2. /\ c \in ping[t] /\ c \in PingCalls /\ Tallied(c) /\ Directed(c) /\ c.at = "resolved"
        /\ t \in ping_busy /\ ping_pcb = {} /\ dns_result \in Addresses
    BY StageOf DEF PingInv, PingTypeOK
  <2>3. PICK d : d = [c EXCEPT !.at = "echo", !.dest = dns_result]
    BY Zenon
  <2>4. Becomes(d, "echo", c.host, dns_result, c.late, c.seqs, c.success)
    BY <1>0, <2>2, <2>3, CallMoved, Zenon
  <2>5. /\ ping_busy' = ping_busy /\ ping_pcb' = {} /\ ping_seq' = ping_seq /\ ping_done' = ping_done
        /\ echoes' = echoes /\ answered' = answered /\ dns_result' = dns_result /\ queries' = queries
        /\ ping' = [ping EXCEPT ![t] = {d}]
    BY <2>1, <2>2, <2>3, Zenon DEF echo, dnsState
  <2>6. d \in PingCalls
    BY <2>4, Zenon DEF Becomes
  <2>7. PingTypeOK'
    BY <2>5, <2>6, Zenon DEF PingInv, PingTypeOK
  <2>8. Tallied(d)'
    <3>1. c.seqs \cap answered = {} /\ c.success = 0
      BY <2>2, Zenon DEF Tallied
    <3>2. Cardinality({}) = 0
      BY FS_EmptySet, Zenon
    <3>. QED  BY <2>2, <2>4, <2>5, <3>1, <3>2, Zenon DEF Tallied, Becomes
  <2>9. Directed(d)'
    BY <2>2, <2>4, Zenon DEF Directed, Becomes, PingCalls
  <2>. QED  BY <2>2, <2>4, <2>5, <2>6, <2>7, <2>8, <2>9, HolderStep, Zenon DEF Becomes
<1>. QED  BY <1>1, <1>2, <1>3, <1>4, <1>5, Zenon

\* The steps of a call that only move it on.
MovesOn(t, d) ==
  /\ ping' = [ping EXCEPT ![t] = {d}] /\ ping_pcb' = {}
  /\ UNCHANGED ping_busy /\ UNCHANGED dnsState /\ UNCHANGED echo
LEMMA MoveStep ==
  ASSUME PingInv, NEW t \in ping_busy, NEW c \in ping[t], NEW d, NEW st \in {"echo", "removed", "next"},
         NEW n, Becomes(d, st, c.host, c.dest, c.late, c.seqs, n), MovesOn(t, d), Tallied(d)
  PROVE  PingInv'
<1>1. Directed(c)
  BY Zenon DEF PingInv, PingTypeOK
<1>2. /\ ping_busy' = ping_busy /\ ping_seq' = ping_seq /\ ping_done' = ping_done
      /\ dns_result' = dns_result /\ queries' = queries /\ echoes' = echoes /\ answered' = answered
      /\ ping_pcb' = {} /\ ping' = [ping EXCEPT ![t] = {d}]
  BY Zenon DEF echo, dnsState, MovesOn
<1>3. /\ d \in PingCalls /\ d.at = st /\ d.dest = c.dest /\ d.host = c.host /\ d.late = c.late
  BY Zenon DEF Becomes
<1>4. PingTypeOK'
  BY <1>2, <1>3, Zenon DEF PingInv, PingTypeOK
<1>5. Tallied(d)'
  BY <1>2, Zenon DEF Tallied
<1>6. Directed(d)'
  BY <1>1, <1>2, <1>3, Zenon DEF Directed
<1>. QED  BY <1>2, <1>3, <1>4, <1>5, <1>6, HolderStep, Zenon

LEMMA EchoStep ==
  ASSUME PingInv, NEW t \in PTASKS,
         NoPcb(t) \/ SendFailed(t) \/ RawRemove(t) \/ Count(t) \/ NextEcho(t)
  PROVE  PingInv'
<1>0. /\ \A st \in {"echo", "removed", "next"} : st \in PingStages
      /\ NOBODY \in Addresses /\ 0 \in Nat /\ {} \in SUBSET Nat /\ FALSE \in BOOLEAN
  BY Zenon DEF PingStages, Addresses
<1>1. CASE NoPcb(t)
  <2>1. PICK c \in Stage(t, "echo") : To(t, c, "next") /\ UNCHANGED <<ping_busy, ping_pcb, dnsState, echo>>
    BY <1>1, Zenon DEF NoPcb
  <2>2. c \in ping[t] /\ t \in ping_busy /\ c \in PingCalls /\ Tallied(c) /\ c.at = "echo" /\ ping_pcb = {} /\ c.success \in Nat
    BY StageOf DEF PingCalls
  <2>3. PICK d : d = [c EXCEPT !.at = "next"]
    BY Zenon
  <2>4. Becomes(d, "next", c.host, c.dest, c.late, c.seqs, c.success)
    BY <1>0, <2>2, <2>3, CallMoved, Zenon
  <2>5. Tallied(d)
    BY <2>2, <2>4, Zenon DEF Tallied, Becomes
  <2>6. MovesOn(t, d)
    BY <2>1, <2>2, <2>3, Zenon DEF To, MovesOn
  <2>. QED  BY <2>2, <2>4, <2>5, <2>6, MoveStep, Zenon
<1>2. CASE SendFailed(t)
  <2>1. PICK c \in Stage(t, "unsent") :
          ping_pcb' = {} /\ To(t, c, "next") /\ UNCHANGED <<ping_busy, dnsState, echo>>
    BY <1>2, Zenon DEF SendFailed
  <2>2. c \in ping[t] /\ t \in ping_busy /\ c \in PingCalls /\ Tallied(c) /\ c.at = "unsent" /\ c.success \in Nat
    BY StageOf DEF PingCalls
  <2>3. PICK d : d = [c EXCEPT !.at = "next"]
    BY Zenon
  <2>4. Becomes(d, "next", c.host, c.dest, c.late, c.seqs, c.success)
    BY <1>0, <2>2, <2>3, CallMoved, Zenon
  <2>5. Tallied(d)
    <3>1. (c.seqs \ {ping_seq}) \cap answered = c.seqs \cap answered
      BY <2>2, Zenon DEF Tallied
    <3>. QED  BY <2>2, <2>4, <3>1, SMTT(30) DEF Tallied, Becomes
  <2>6. MovesOn(t, d)
    BY <2>1, <2>3, Zenon DEF To, MovesOn
  <2>. QED  BY <2>2, <2>4, <2>5, <2>6, MoveStep, Zenon
<1>3. CASE RawRemove(t)
  <2>1. PICK c \in Stage(t, "wait") :
          ping_pcb' = {} /\ To(t, c, "removed") /\ UNCHANGED <<ping_busy, dnsState, echo>>
    BY <1>3, Zenon DEF RawRemove, Removed
  <2>2. c \in ping[t] /\ t \in ping_busy /\ c \in PingCalls /\ Tallied(c) /\ c.at = "wait" /\ c.success \in Nat
    BY StageOf DEF PingCalls
  <2>3. PICK d : d = [c EXCEPT !.at = "removed"]
    BY Zenon
  <2>4. Becomes(d, "removed", c.host, c.dest, c.late, c.seqs, c.success)
    BY <1>0, <2>2, <2>3, CallMoved, Zenon
  <2>5. Tallied(d)
    BY <2>2, <2>4, Zenon DEF Tallied, Becomes
  <2>6. MovesOn(t, d)
    BY <2>1, <2>3, Zenon DEF To, MovesOn
  <2>. QED  BY <2>2, <2>4, <2>5, <2>6, MoveStep, SMTT(30)
<1>4. CASE Count(t)
  <2>1. PICK c \in Stage(t, "removed") :
          /\ ping' = [ping EXCEPT ![t] =
               {[c EXCEPT !.at = "next", !.success = @ + (IF ping_done THEN 1 ELSE 0)]}]
          /\ UNCHANGED <<ping_busy, ping_pcb, dnsState, echo>>
    BY <1>4, Zenon DEF Count
  <2>2. /\ c \in ping[t] /\ t \in ping_busy /\ c \in PingCalls /\ Tallied(c) /\ c.at = "removed" /\ c.success \in Nat /\ ping_pcb = {}
        /\ ping_seq \in Nat /\ ping_done \in BOOLEAN
    BY StageOf DEF PingCalls, PingInv, PingTypeOK
  <2>3. PICK n \in Nat : n = c.success + (IF ping_done THEN 1 ELSE 0)
    BY <2>2
  <2>4. PICK d : d = [c EXCEPT !.at = "next", !.success = n]
    BY Zenon
  <2>5. Becomes(d, "next", c.host, c.dest, c.late, c.seqs, n)
    BY <1>0, <2>2, <2>4, CallMoved, Zenon
  <2>6. Tallied(d)
    <3>1. /\ c.seqs \in SUBSET (1 .. ping_seq) /\ ping_seq \in c.seqs
          /\ c.success = Cardinality((c.seqs \ {ping_seq}) \cap answered)
          /\ ping_done <=> ping_seq \in answered
      BY <2>2, Zenon DEF Tallied
    <3>2. n = Cardinality(c.seqs \cap answered)
      <4>1. Cardinality(c.seqs \cap answered)
              = Cardinality((c.seqs \ {ping_seq}) \cap answered) + (IF ping_seq \in answered THEN 1 ELSE 0)
        <5>1. PICK S \in SUBSET (1 .. ping_seq) : S = c.seqs
          BY <3>1, Zenon
        <5>2. PICK k \in S : k = ping_seq
          BY <3>1, <5>1, Zenon
        <5>3. Cardinality(S \cap answered)
                = Cardinality((S \ {k}) \cap answered) + (IF k \in answered THEN 1 ELSE 0)
          <6>1. ping_seq \in Nat
            BY <2>2, Zenon
          <6>. QED  BY ONLY <6>1, S \in SUBSET (1 .. ping_seq), k \in S, CountOne
        <5>. QED  BY <5>1, <5>2, <5>3, Zenon
      <4>2. CASE ping_done
        BY <2>3, <3>1, <4>1, <4>2, Zenon
      <4>3. CASE ~ping_done
        BY <2>3, <3>1, <4>1, <4>3, Zenon
      <4>. QED  BY <4>2, <4>3, Zenon
    <3>. QED  BY <2>5, <3>1, <3>2, Zenon DEF Tallied, Becomes
  <2>7. MovesOn(t, d)
    BY <2>1, <2>2, <2>3, <2>4, Zenon DEF PingCalls, MovesOn
  <2>. QED  BY <2>2, <2>5, <2>6, <2>7, MoveStep, Zenon
<1>5. CASE NextEcho(t)
  <2>1. PICK c \in Stage(t, "next") :
          /\ ping' = [ping EXCEPT ![t] = {[c EXCEPT !.at = "echo", !.i = @ + 1]}]
          /\ UNCHANGED <<ping_busy, ping_pcb, dnsState, echo>>
    BY <1>5, Zenon DEF NextEcho
  <2>2. c \in ping[t] /\ t \in ping_busy /\ c \in PingCalls /\ Tallied(c) /\ c.at = "next" /\ ping_pcb = {} /\ c.success \in Nat /\ c.i \in Nat
    BY StageOf DEF PingCalls
  <2>3. PICK n \in Nat : n = c.i + 1
    BY <2>2
  <2>4. PICK d : d = [c EXCEPT !.at = "echo", !.i = n]
    BY Zenon
  <2>5. Becomes(d, "echo", c.host, c.dest, c.late, c.seqs, c.success)
    BY <1>0, <2>2, <2>4, CallMoved, Zenon
  <2>6. Tallied(d)
    BY <2>2, <2>5, Zenon DEF Tallied, Becomes
  <2>7. MovesOn(t, d)
    BY <2>1, <2>2, <2>3, <2>4, Zenon DEF PingCalls, MovesOn
  <2>. QED  BY <2>2, <2>5, <2>6, <2>7, MoveStep, SMTT(30)
<1>. QED  BY <1>1, <1>2, <1>3, <1>4, <1>5, Zenon

\* A request goes out, or fails to.
LEMMA SendStep ==
  ASSUME PingInv, NEW t \in PTASKS, NEW ok \in BOOLEAN, Send(t, ok) PROVE PingInv'
<1>1. PICK c \in Stage(t, "echo") :
        /\ ping_pcb' = {t} /\ ping_seq' = ping_seq + 1 /\ ping_done' = FALSE
        /\ echoes' = IF ok THEN echoes \cup {ping_seq + 1} ELSE echoes
        /\ ping' = [ping EXCEPT ![t] = {[c EXCEPT !.at = IF ok THEN "wait" ELSE "unsent",
                                                  !.seqs = @ \cup {ping_seq + 1}]}]
        /\ UNCHANGED <<ping_busy, dnsState, answered, frees>>
  BY Zenon DEF Send
<1>2. /\ c \in ping[t] /\ t \in ping_busy /\ c \in PingCalls /\ Tallied(c) /\ Directed(c)
      /\ c.at = "echo" /\ ping_seq \in Nat /\ c.seqs \in SUBSET Nat /\ c.success \in Nat
      /\ echoes \subseteq 1 .. ping_seq /\ answered \subseteq 1 .. ping_seq /\ c.seqs \subseteq 1 .. ping_seq
  <2>1. /\ c \in ping[t] /\ t \in ping_busy /\ c \in PingCalls /\ Tallied(c) /\ Directed(c)
        /\ c.at = "echo"
    BY StageOf, Zenon
  <2>2. ping_seq \in Nat /\ echoes \subseteq 1 .. ping_seq /\ answered \subseteq 1 .. ping_seq
    BY Zenon DEF PingInv, PingTypeOK
  <2>3. c.seqs \in SUBSET Nat /\ c.success \in Nat
    BY <2>1, Zenon DEF PingCalls
  <2>4. c.seqs \subseteq 1 .. ping_seq
    BY <2>1, Zenon DEF Tallied
  <2>. QED  BY <2>1, <2>2, <2>3, <2>4, Zenon
<1>3. PICK m \in Nat : m = ping_seq + 1
  BY <1>2
<1>4. /\ m \notin 1 .. ping_seq /\ m \in 1 .. m /\ 1 .. ping_seq \subseteq 1 .. m
  BY <1>2, <1>3
<1>5. PICK st \in {"wait", "unsent"} : st = (IF ok THEN "wait" ELSE "unsent") /\ (st = "unsent" <=> ~ok)
  BY Zenon
<1>6. PICK q \in SUBSET Nat : q = c.seqs \cup {m}
  BY <1>2, Zenon
<1>7. PICK d : d = [c EXCEPT !.at = st, !.seqs = q]
  BY Zenon
<1>8. Becomes(d, st, c.host, c.dest, c.late, q, c.success)
  <2>1. /\ st \in PingStages
        /\ NOBODY \in Addresses /\ 0 \in Nat /\ FALSE \in BOOLEAN
    BY Zenon DEF PingStages, Addresses
  <2>. QED  BY <1>2, <1>7, <2>1, CallMoved, Zenon
<1>9. ping' = [ping EXCEPT ![t] = {d}]
  BY <1>1, <1>2, <1>3, <1>5, <1>6, <1>7, Zenon DEF PingCalls
<1>10. /\ d \in PingCalls /\ d.at = st /\ d.host = c.host /\ d.dest = c.dest /\ d.late = c.late
       /\ d.seqs = q /\ d.success = c.success
  BY <1>8, Zenon DEF Becomes
<1>11. /\ ping_busy' = ping_busy /\ dns_result' = dns_result /\ queries' = queries
       /\ answered' = answered /\ ping_seq' = m /\ ping_done' = FALSE /\ ping_pcb' = {t}
       /\ echoes' \subseteq echoes \cup {m} /\ (~ok => echoes' = echoes)
  BY <1>1, <1>3, Zenon DEF dnsState
<1>12. PingTypeOK'
  <2>1. ping' \in [PTASKS -> SUBSET PingCalls]
    BY <1>9, <1>10, Zenon DEF PingInv, PingTypeOK
  <2>2. echoes' \subseteq 1 .. m /\ answered' \subseteq 1 .. m
    BY <1>2, <1>4, <1>11, Zenon
  <2>. QED  BY <1>2, <1>11, <2>1, <2>2, Zenon DEF PingInv, PingTypeOK
<1>13. Tallied(d)'
  <2>1. (q \ {m}) \cap answered = c.seqs \cap answered /\ m \in q /\ m \notin answered /\ q \subseteq 1 .. m
    BY <1>2, <1>4, <1>6, Zenon
  <2>2. c.success = Cardinality(c.seqs \cap answered)
    BY <1>2, Zenon DEF Tallied
  <2>3. st = "unsent" => m \notin echoes' \cup answered
    BY <1>2, <1>4, <1>5, <1>11, Zenon
  <2>. QED  BY <1>5, <1>10, <1>11, <2>1, <2>2, <2>3, SMTT(30) DEF Tallied
<1>14. Directed(d)'
  BY <1>2, <1>5, <1>10, <1>11, Zenon DEF Directed
<1>. QED  BY <1>2, <1>5, <1>9, <1>10, <1>11, <1>12, <1>13, <1>14, HolderStep, Zenon

LEMMA EndStep ==
  ASSUME PingInv, NEW t \in PTASKS, Statistics(t) PROVE PingInv'
<1>1. PICK c \in Stage(t, "next") : PingReturns(t) /\ UNCHANGED <<ping_pcb, dnsState, echo>>
  BY Zenon DEF Statistics
<1>2. t \in ping_busy /\ ping_pcb = {}
  BY StageOf
<1>. QED  BY <1>1, <1>2, ReturnStep, Zenon

\* The poll: an answer of the resolver, an echo reply, another packet.
LEMMA PollStep ==
  ASSUME PingInv, UNCHANGED <<ping_busy, ping, ping_pcb, ping_seq>>,
         \/ \E host \in Hosts : \E addr \in {host, NOBODY} : dns_found_cb(host, addr)
         \/ \E seq \in echoes : EchoReply(seq)
         \/ OtherIcmp
  PROVE  PingInv'
<1>0. /\ ping_busy' = ping_busy /\ ping' = ping /\ ping_pcb' = ping_pcb /\ ping_seq' = ping_seq
      /\ Alone' /\ ping_seq \in Nat /\ ping_done \in BOOLEAN
  BY Zenon DEF PingInv, PingTypeOK, Alone, Holds
<1>1. ASSUME NEW host \in Hosts, NEW addr \in {host, NOBODY}, dns_found_cb(host, addr) PROVE PingInv'
  <2>1. /\ host \in queries /\ queries' = queries \ {host} /\ dns_result' = addr
        /\ ping_done' = ping_done /\ echoes' = echoes /\ answered' = answered
    BY <1>1, Zenon DEF dns_found_cb, echo
  <2>2. PingTypeOK'
    BY <1>0, <1>1, <2>1, Zenon DEF PingInv, PingTypeOK, Addresses
  <2>3. ASSUME NEW t \in PTASKS, NEW c \in ping[t] PROVE Tallied(c)' /\ Directed(c)'
    <3>1. Tallied(c) /\ Directed(c)
      BY Zenon DEF PingInv
    <3>. QED  BY <1>0, <1>1, <2>1, <3>1, Zenon DEF Tallied, Directed
  <2>. QED  BY <1>0, <2>2, <2>3, Zenon DEF PingInv
<1>2. ASSUME dns_result' = dns_result, queries' = queries, echoes' \subseteq echoes,
             \/ ping_done' = ping_done /\ answered' = answered
             \/ /\ ping_done' = TRUE /\ answered' = answered \cup {ping_seq}
                /\ ping_pcb # {} /\ ping_seq \in echoes
      PROVE  PingInv'
  <2>1. PingTypeOK'
    BY <1>0, <1>2, Zenon DEF PingInv, PingTypeOK
  <2>2. ASSUME NEW t \in PTASKS, NEW c \in ping[t] PROVE Tallied(c)' /\ Directed(c)'
    <3>1. Tallied(c) /\ Directed(c)
      BY Zenon DEF PingInv
    <3>2. Directed(c)'
      BY <1>2, <3>1, SMTT(30) DEF Directed
    <3>3. CASE ping_done' = ping_done /\ answered' = answered
      <4>1. answered' = answered /\ (ping_done' <=> ping_done)
        BY <3>3, SMTT(30)
      <4>. QED  BY <1>0, <1>2, <3>1, <3>2, <4>1, Zenon DEF Tallied
    <3>4. CASE /\ ping_done' = TRUE /\ answered' = answered \cup {ping_seq}
               /\ ping_pcb # {} /\ ping_seq \in echoes
      <4>1. c.at \in {"spin", "wait", "unsent"}
        <5>1. PICK u \in ping_pcb : u \in PTASKS
          BY <3>4, SMTT(30) DEF PingInv, PingTypeOK
        <5>2. PICK e \in ping[u] : e.at \in {"wait", "unsent"}
          BY <5>1, Zenon DEF PingInv, Alone, Holds
        <5>3. u \in ping_busy
          BY <5>1, <5>2, Zenon DEF PingInv, Alone, Holds
        <5>4. CASE t = u
          BY <5>1, <5>2, <5>4, Zenon DEF PingInv, Alone, Holds
        <5>5. CASE t # u
          BY <5>3, <5>5, Zenon DEF PingInv, Alone, Holds
        <5>. QED  BY <5>4, <5>5, Zenon
      <4>2. c.at # "unsent"
        BY <3>1, <3>4, Zenon DEF Tallied
      <4>3. (c.seqs \ {ping_seq}) \cap answered' = (c.seqs \ {ping_seq}) \cap answered
        BY <3>4, Zenon
      <4>. QED  BY <1>0, <1>2, <3>1, <3>2, <3>4, <4>1, <4>2, <4>3, Zenon DEF Tallied
    <3>. QED  BY <1>2, <3>2, <3>3, <3>4, Zenon
  <2>. QED  BY <1>0, <2>1, <2>2, Zenon DEF PingInv
<1>3. ASSUME NEW seq \in echoes, EchoReply(seq) PROVE PingInv'
  <2>1. /\ dns_result' = dns_result /\ queries' = queries /\ echoes' \subseteq echoes
        /\ ping_done' = (ping_done \/ (ping_pcb # {} /\ seq = ping_seq))
        /\ answered' = IF ping_pcb # {} /\ seq = ping_seq THEN answered \cup {seq} ELSE answered
    BY <1>3, Zenon DEF EchoReply, ping_recv_cb, Matches, dnsState
  <2>2. CASE ping_pcb # {} /\ seq = ping_seq
    BY <1>0, <1>2, <1>3, <2>1, <2>2, Zenon
  <2>3. CASE ~(ping_pcb # {} /\ seq = ping_seq)
    <3>1. ping_done' = ping_done
      BY <1>0, <2>1, <2>3, Zenon
    <3>. QED  BY <1>2, <2>1, <2>3, <3>1, Zenon
  <2>. QED  BY <2>2, <2>3, Zenon
<1>4. CASE OtherIcmp
  <2>1. /\ dns_result' = dns_result /\ queries' = queries /\ echoes' = echoes /\ answered' = answered
        /\ ping_done' = (ping_done \/ FALSE)
    BY <1>4, Zenon DEF OtherIcmp, ping_recv_cb, dnsState
  <2>2. ping_done' = ping_done
    BY <1>0, <2>1, Zenon
  <2>. QED  BY <1>2, <2>1, <2>2, Zenon
<1>. QED  BY <1>1, <1>3, <1>4, Zenon

LEMMA PingStarts == PingInit => PingInv
<1>. SUFFICES ASSUME PingInit PROVE PingInv
  BY Zenon
<1>1. \A t \in PTASKS : ping[t] = {}
  BY Zenon DEF PingInit
<1>2. PingTypeOK
  BY Zenon DEF PingInit, PingTypeOK, Addresses
<1>3. Alone
  BY <1>1, Zenon DEF PingInit, Alone, Holds
<1>. QED  BY <1>1, <1>2, <1>3, Zenon DEF PingInv

LEMMA PingSteps == PingInv /\ [PingNext]_pingVars => PingInv'
<1>. SUFFICES ASSUME PingInv, [PingNext]_pingVars PROVE PingInv'
  BY Zenon
<1>1. ASSUME NEW t \in PTASKS, PingStep(t) PROVE PingInv'
  BY <1>1, NameStep, EchoStep, SendStep, EndStep, Zenon DEF PingStep
<1>2. CASE \/ \E host \in Hosts : \E addr \in {host, NOBODY} : dns_found_cb(host, addr)
           \/ \E seq \in echoes : EchoReply(seq)
           \/ OtherIcmp
  <2>1. UNCHANGED <<ping_busy, ping, ping_pcb, ping_seq>>
    BY <1>2, Zenon DEF dns_found_cb, EchoReply, OtherIcmp, echo
  <2>. QED  BY <1>2, <2>1, PollStep, Zenon
<1>3. CASE UNCHANGED pingVars
  <2>1. PingTypeOK' /\ Alone'
    BY <1>3, Zenon DEF pingVars, PingInv, PingTypeOK, Alone, Holds
  <2>2. ASSUME NEW t \in PTASKS, NEW c \in ping[t] PROVE Tallied(c)' /\ Directed(c)'
    <3>1. Tallied(c) /\ Directed(c)
      BY Zenon DEF PingInv
    <3>2. /\ answered' = answered /\ (ping_done' <=> ping_done) /\ ping_seq' = ping_seq
          /\ echoes' = echoes /\ queries' = queries /\ dns_result' = dns_result
      BY <1>3, Zenon DEF pingVars
    <3>. QED  BY <3>1, <3>2, Zenon DEF Tallied, Directed
  <2>. QED  BY <1>3, <2>1, <2>2, Zenon DEF PingInv, pingVars
<1>. QED  BY <1>1, <1>2, <1>3, Zenon DEF PingNext

\* For any tasks, CPUs and hosts and any number of echo requests: a ping counts exactly
\* the requests of its own that were answered while it waited, its raw pcb is with lwIP
\* exactly while it waits, and it pings the host it was asked to ping unless the
\* resolver still owed an answer to an earlier call when it began.
THEOREM PingsCounted == PingSpec => []PingExact
<1>1. PingSpec => []PingInv
  BY PingStarts, PingSteps, PTL DEF PingSpec
<1>2. PingInv => PingExact
  <2>. SUFFICES ASSUME PingInv, NEW t \in PTASKS, NEW c \in ping[t]
                PROVE  /\ c.at \in {"next", "echo"} => c.success = Cardinality(c.seqs \cap answered)
                       /\ (t \in ping_pcb) = (c.at \in {"wait", "unsent"})
                       /\ c.dest \in {c.host, NOBODY} \/ c.late
    BY Zenon DEF PingExact
  <2>1. Tallied(c) /\ Directed(c) /\ Holds(t)
    BY Zenon DEF PingInv, Alone
  <2>2. t \in ping_pcb <=> c.at \in {"wait", "unsent"}
    BY <2>1, Zenon DEF Holds
  <2>3. (t \in ping_pcb) = (c.at \in {"wait", "unsent"})
    BY <2>2
  <2>. QED  BY <2>1, <2>3, Zenon DEF Tallied, Directed
<1>. QED  BY <1>1, <1>2, PTL

=============================================================================
