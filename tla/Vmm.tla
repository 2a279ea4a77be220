-------------------------------- MODULE Vmm --------------------------------
(***************************************************************************)
(* kernel/paging.c, kernel/uheap.c, kernel/elf.c and the system calls of   *)
(* kernel/syscall.c that build, replace and destroy address spaces.        *)
(*                                                                         *)
(* Memory is seen as its page tables: ent maps a slot <<table, index>> to  *)
(* the frame its entry points at, for the present entries.  An address is  *)
(* the sequence of its LEVELS table indexes (PML4_IDX .. PT_IDX), so that  *)
(* the PML4 of an address space, its inner tables and its pages are all    *)
(* frames of one pool, free[].  pmm_alloc_page is the lowest free frame.   *)
(*                                                                         *)
(* A system call runs with interrupts off (int 0x80 is an interrupt gate), *)
(* so a CPU finishes it before it schedules; the CPUs interleave at the    *)
(* sections under paging_lock and pmm_lock.  op[c] is what CPU c is doing. *)
(***************************************************************************)
EXTENDS Integers, Sequences, FiniteSets, TLC, SequencesExt

CONSTANTS
  CPUS, TASKS,
  Shell,        \* the kernel task that runs the shell, and the apps it execs
  NFRAMES,      \* frames of RAM
  LEVELS,       \* page-table levels (4 in the code)
  KernelIdx,    \* indexes of the higher half in a PML4 (256 .. 511)
  Images,       \* the ELF files: the pages of their PT_LOAD segments, in order
  StackPages,   \* the pages below USER_STACK_TOP, in order
  UserHeap,     \* the pages from UHEAP_BASE to UHEAP_END
  KernelHeap,   \* the pages from HEAP_START_VADDR on
  MaxAlloc,     \* the largest request, in pages
  MaxCalls      \* bound on the calls of a behaviour

ASSUME VmmAssumption ==
  /\ LEVELS \in Nat \ {0} /\ NFRAMES \in Nat /\ Shell \in TASKS
  /\ \A img \in Images : \A i \in DOMAIN img : Len(img[i]) = LEVELS

VARIABLES
  ent,        \* page-table entries
  free,       \* the frames of pmm.c that are free
  pml4_phys,  \* task_t.pml4_phys, 0 for the kernel's
  ring,       \* the ring a task runs in, -1 for a slot that is TASK_DEAD
  regions,    \* task_t.uheap_regions: sequence of records of base and pages
  brk,        \* task_t.uheap_brk, as an index into UserHeap
  cur,        \* cpu_current_task, 0 when idle
  cr3,        \* the PML4 in CR3 (percpu_t.current_cr3)
  tlb,        \* translations CPU c may have cached since CR3 was last loaded
  op,         \* the call CPU c is in
  calls,      \* the calls begun so far
  heap_pages  \* pages of the kernel heap (current_heap_end)

vmmVars ==
  <<ent, free, pml4_phys, ring, regions, brk, cur, cr3, tlb, op, calls, heap_pages>>

NoOp == [k |-> "none"]
Field(o, f) == IF f \in DOMAIN o THEN {o[f]} ELSE {}
NULL == 0
KROOT == 1      \* kernel_pml4_phys

Least(S) == CHOOSE x \in S : \A y \in S : x <= y

-----------------------------------------------------------------------------
(* Page tables *)

Present(e, t, i) == <<t, i>> \in DOMAIN e
Cleared(e, t)    == [s \in {x \in DOMAIN e : x[1] # t} |-> e[s]]
Without(e, s)    == [x \in DOMAIN e \ {s} |-> e[x]]

\* The table that holds the last-level entry of va, NULL if a level is missing.
WalkStep(e, t, i) == IF t # NULL /\ Present(e, t, i) THEN e[<<t, i>>] ELSE NULL
LeafTable(e, root, va) ==
  FoldLeft(LAMBDA t, i : WalkStep(e, t, i), root, Front(va))

\* What the MMU, and paging_is_mapped_into, find at va.
Translate(e, root, va) == WalkStep(e, LeafTable(e, root, va), Last(va))
paging_is_mapped_into(va, root) == Translate(ent, root, va) # NULL

\* alloc_page_virt: a zeroed frame, or NULL; s carries the entries, the free
\* frames and the table reached.
TableStep(s, i) ==
  IF s.t = NULL \/ Present(s.e, s.t, i) THEN [s EXCEPT !.t = WalkStep(s.e, s.t, i)]
  ELSE IF s.f = {} THEN [s EXCEPT !.t = NULL]
  ELSE LET p == Least(s.f)
       IN  [e |-> (<<s.t, i>> :> p) @@ Cleared(s.e, p), f |-> s.f \ {p}, t |-> p]

\* vmm_map_page_into: the tables that were missing are allocated and stay, even
\* when a later level finds no frame; then the entry is installed.
MapInto(e, f, va, pa, root) ==
  LET s == FoldLeft(TableStep, [e |-> e, f |-> f, t |-> root], Front(va))
  IN  [ok |-> s.t # NULL, f |-> s.f,
       e |-> IF s.t = NULL THEN s.e ELSE (<<s.t, Last(va)>> :> pa) @@ s.e]
vmm_map_page_into(va, pa, root) == MapInto(ent, free, va, pa, root)

\* vmm_create_address_space: a zeroed PML4 with the kernel's higher half.
Cloned(e, root) ==
  [s \in {<<root, i>> : i \in {j \in KernelIdx : Present(e, KROOT, j)}} |->
     e[<<KROOT, s[2]>>]] @@ Cleared(e, root)
NewSpace(root) == Cloned(ent, root)

\* vmm_destroy_address_space walks the user half only.
Children(e, T) == {e[s] : s \in {x \in DOMAIN e : x[1] \in T}}
UserTops(e, root) ==
  {e[s] : s \in {x \in DOMAIN e : x[1] = root /\ x[2] \notin KernelIdx}}
Below(e, root) ==
  LET a == FoldLeft(
             LAMBDA a, l : [all |-> a.all \cup a.last, last |-> Children(e, a.last)],
             [all |-> {}, last |-> UserTops(e, root)],
             [l \in 1 .. LEVELS - 1 |-> l])
  IN  a.all \cup a.last
DestroyedEnt(root) ==
  [s \in {x \in DOMAIN ent : ~(\/ x[1] \in Below(ent, root)
                               \/ x[1] = root /\ x[2] \notin KernelIdx)} |-> ent[s]]
FreedBy(root) == Below(ent, root) \cup {root}

-----------------------------------------------------------------------------
(* init_paging and boot: every absent entry of the higher half gets an empty *)
(* table, shared by all the address spaces cloned later.                     *)

MutPrepopulated == <<>>
Prepopulated ==
  LET idx == SetToSeq(KernelIdx)
  IN  [s \in {<<KROOT, i>> : i \in KernelIdx} |->
         CHOOSE f \in 2 .. Len(idx) + 1 : idx[f - 1] = s[2]]

\* A behaviour starts at the shell's prompt, or in an app the shell has exec'd.
AtBoot ==
  [e |-> Prepopulated,
   f |-> (1 .. NFRAMES) \ ({KROOT} \cup {Prepopulated[s] : s \in DOMAIN Prepopulated}),
   root |-> NULL]
LoadPage(s, va) ==
  IF Translate(s.e, s.root, va) # NULL THEN s
  ELSE LET m == MapInto(s.e, s.f \ {Least(s.f)}, va, Least(s.f), s.root)
       IN  [s EXCEPT !.e = m.e, !.f = m.f]
InApp(img) ==
  LET r == Least(AtBoot.f)
  IN  FoldLeft(LoadPage, [e |-> Cloned(AtBoot.e, r), f |-> AtBoot.f \ {r}, root |-> r],
               img \o StackPages)

VmmInit ==
  \E s \in {AtBoot} \cup {InApp(img) : img \in Images} :
    /\ ent = s.e /\ free = s.f
    /\ pml4_phys = [t \in TASKS |-> IF t = Shell THEN s.root ELSE NULL]
    /\ ring = [t \in TASKS |-> IF t # Shell THEN -1 ELSE IF s.root = NULL THEN 0 ELSE 3]
    /\ regions = [t \in TASKS |-> <<>>]
    /\ brk = [t \in TASKS |-> 1]
    /\ \E boot \in CPUS :
         /\ cur = [c \in CPUS |-> IF c = boot THEN Shell ELSE 0]
         /\ cr3 = [c \in CPUS |-> IF c = boot /\ s.root # NULL THEN s.root ELSE KROOT]
    /\ tlb = [c \in CPUS |-> {}]
    /\ op = [c \in CPUS |-> NoOp]
    /\ calls = 0
    /\ heap_pages = 0

\* vmm_switch_pml4 and the CR3 writes: without PCID they flush the TLB.
LoadCr3(c, root) ==
  /\ cr3' = [cr3 EXCEPT ![c] = root]
  /\ tlb' = [tlb EXCEPT ![c] = {}]
Goto(c, o) == op' = [op EXCEPT ![c] = o] /\ UNCHANGED calls
Call(c, o) ==
  calls < MaxCalls /\ calls' = calls + 1 /\ op' = [op EXCEPT ![c] = o]

-----------------------------------------------------------------------------
(* schedule_on_cpu, as far as CR3 is concerned *)

SpaceOf(t) == IF t = 0 \/ pml4_phys[t] = NULL THEN KROOT ELSE pml4_phys[t]

\* A task leaves its CPU only for another one; a CPU is idle until its first
\* task and after task_exit.
Runnable == {t \in TASKS : ring[t] >= 0 /\ \A c \in CPUS : cur[c] # t}
Schedule(c) ==
  /\ op[c] = NoOp
  /\ \E t \in Runnable :
       /\ cur' = [cur EXCEPT ![c] = t]
       /\ IF cr3[c] = SpaceOf(t) THEN UNCHANGED <<cr3, tlb>>
                                 ELSE LoadCr3(c, SpaceOf(t))
  /\ UNCHANGED <<ent, free, pml4_phys, ring, regions, brk, op, calls, heap_pages>>

\* An application runs: its CPU may cache every translation of its heap.
Touch(c) ==
  /\ op[c] = NoOp /\ cur[c] # 0 /\ ring[cur[c]] = 3
  /\ tlb' = [tlb EXCEPT ![c] =
               {x \in Range(UserHeap) \X (1 .. NFRAMES) : Translate(ent, cr3[c], x[1]) = x[2]}]
  /\ UNCHANGED <<ent, free, pml4_phys, ring, regions, brk, cur, cr3, op, calls, heap_pages>>

-----------------------------------------------------------------------------
(* Pages are mapped one at a time: pmm_alloc_page, then vmm_map_page_into,   *)
(* which takes its own frames; on failure the frame goes back and the call   *)
(* gives up.  o.todo are the pages to come, o.done those mapped, o.pa the    *)
(* frame in hand.                                                            *)

Mapping == {"exec", "load", "spawn", "ualloc", "urealloc", "expand"}
Loading == {"exec", "load", "spawn"}

\* elf_load_file leaves what it mapped to the owner of the address space;
\* uheap_alloc and expand_heap unmap it.
GiveUp(o) ==
  IF o.k \in Loading THEN [o EXCEPT !.todo = <<>>, !.ok = FALSE, !.pa = NULL]
  ELSE [k |-> "unmap", t |-> o.t, root |-> o.root, todo |-> o.done, base |-> 0]

\* A page two segments share is mapped once.
PageTaken(c) ==
  /\ op[c].k \in Mapping /\ op[c].todo # <<>> /\ op[c].pa = NULL
  /\ IF op[c].k \in Loading /\ paging_is_mapped_into(Head(op[c].todo), op[c].root)
     THEN Goto(c, [op[c] EXCEPT !.todo = Tail(@)]) /\ UNCHANGED free
     ELSE IF free = {} THEN Goto(c, GiveUp(op[c])) /\ UNCHANGED free
     ELSE /\ Goto(c, [op[c] EXCEPT !.pa = Least(free)])
          /\ free' = free \ {Least(free)}
  /\ UNCHANGED <<ent, pml4_phys, ring, regions, brk, cur, cr3, tlb, heap_pages>>

\* The loader writes through the mapping it has just made.
PageMapped(c) ==
  /\ op[c].k \in Mapping /\ op[c].todo # <<>> /\ op[c].pa # NULL
  /\ \E m \in {vmm_map_page_into(Head(op[c].todo), op[c].pa, op[c].root)} :
       /\ ent' = m.e
       /\ IF m.ok THEN /\ free' = m.f
                       /\ Goto(c, [op[c] EXCEPT !.todo = Tail(@), !.pa = NULL,
                                                !.done = Append(@, Head(op[c].todo))])
          ELSE free' = m.f \cup {op[c].pa} /\ Goto(c, GiveUp(op[c]))
       /\ IF m.ok /\ op[c].k \in Loading
          THEN tlb' = [tlb EXCEPT ![c] = @ \cup {<<Head(op[c].todo), op[c].pa>>}]
          ELSE UNCHANGED tlb
  /\ UNCHANGED <<pml4_phys, ring, regions, brk, cur, cr3, heap_pages>>

\* uheap_unmap_range, and the rollback of expand_heap: unmap a page, flush it
\* from this CPU's TLB, free its frame; at the end uheap_free drops the region.
PageUnmapped(c) ==
  /\ op[c].k = "unmap" /\ op[c].todo # <<>>
  /\ \E va \in {Head(op[c].todo)} :
     \E slot \in {<<LeafTable(ent, op[c].root, va), Last(va)>>} :
       /\ ent' = Without(ent, slot)
       /\ free' = free \cup {ent[slot]}
       /\ tlb' = [tlb EXCEPT ![c] = {x \in @ : x[1] # va}]
  /\ Goto(c, [op[c] EXCEPT !.todo = Tail(@)])
  /\ UNCHANGED <<pml4_phys, ring, regions, brk, cur, cr3, heap_pages>>

Unmapped(c) ==
  /\ op[c].k = "unmap" /\ op[c].todo = <<>>
  /\ Goto(c, NoOp)
  /\ regions' = [regions EXCEPT ![op[c].t] = SelectSeq(@, LAMBDA r : r.base # op[c].base)]
  /\ UNCHANGED <<ent, free, pml4_phys, ring, brk, cur, cr3, tlb, heap_pages>>

-----------------------------------------------------------------------------
(* kernel/uheap.c and the kernel heap's expand_heap *)

Pages(base, n) == SubSeq(UserHeap, base, base + n - 1)
Request(k, t, root, pages) ==
  [k |-> k, t |-> t, root |-> root, todo |-> pages, done |-> <<>>, pa |-> NULL,
   base |-> brk[t], pages |-> Len(pages), old |-> 0]
App(c) == op[c] = NoOp /\ cur[c] # 0 /\ ring[cur[c]] = 3 /\ pml4_phys[cur[c]] # NULL

\* One page after the region is left unmapped.
Fits(t, n) == brk[t] + n <= Len(UserHeap)

uheap_alloc(c) ==
  /\ App(c)
  /\ \E n \in 1 .. MaxAlloc :
       /\ Fits(cur[c], n)
       /\ Call(c, Request("ualloc", cur[c], pml4_phys[cur[c]], Pages(brk[cur[c]], n)))
  /\ UNCHANGED <<ent, free, pml4_phys, ring, regions, brk, cur, cr3, tlb, heap_pages>>

\* A request that fits in the mapped pages changes no page.
uheap_realloc(c) ==
  /\ App(c)
  /\ \E r \in Range(regions[cur[c]]), n \in 1 .. MaxAlloc :
       /\ n > r.pages /\ Fits(cur[c], n)
       /\ Call(c, [Request("urealloc", cur[c], pml4_phys[cur[c]], Pages(brk[cur[c]], n))
                     EXCEPT !.old = r.base])
  /\ UNCHANGED <<ent, free, pml4_phys, ring, regions, brk, cur, cr3, tlb, heap_pages>>

UnmapRegion(o, base) ==
  LET r == SelectSeq(regions[o.t], LAMBDA x : x.base = base)[1]
  IN  [k |-> "unmap", t |-> o.t, root |-> o.root, todo |-> Pages(base, r.pages), base |-> base]

uheap_free(c) ==
  /\ App(c)
  /\ \E r \in Range(regions[cur[c]]) :
       Call(c, UnmapRegion([t |-> cur[c], root |-> pml4_phys[cur[c]]], r.base))
  /\ UNCHANGED <<ent, free, pml4_phys, ring, regions, brk, cur, cr3, tlb, heap_pages>>

\* The break only moves up, so no address is used twice.
Allocated(c) ==
  /\ op[c].k \in {"ualloc", "urealloc"} /\ op[c].todo = <<>>
  /\ regions' = [regions EXCEPT ![op[c].t] =
                   <<[base |-> op[c].base, pages |-> op[c].pages]>> \o @]
  /\ brk' = [brk EXCEPT ![op[c].t] = @ + op[c].pages + 1]
  /\ Goto(c, IF op[c].k = "ualloc" THEN NoOp ELSE UnmapRegion(op[c], op[c].old))
  /\ UNCHANGED <<ent, free, pml4_phys, ring, cur, cr3, tlb, heap_pages>>

\* Any kernel code may need a larger heap; heap_lock is held throughout.
expand_heap(c) ==
  /\ op[c] = NoOp
  /\ \A d \in CPUS : KROOT \notin Field(op[d], "root")
  /\ \E n \in 1 .. MaxAlloc :
       /\ heap_pages + n <= Len(KernelHeap)
       /\ Call(c, Request("expand", Shell, KROOT,
                          SubSeq(KernelHeap, heap_pages + 1, heap_pages + n)))
  /\ UNCHANGED <<ent, free, pml4_phys, ring, regions, brk, cur, cr3, tlb, heap_pages>>
Expanded(c) ==
  /\ op[c].k = "expand" /\ op[c].todo = <<>>
  /\ heap_pages' = heap_pages + op[c].pages
  /\ Goto(c, NoOp)
  /\ UNCHANGED <<ent, free, pml4_phys, ring, regions, brk, cur, cr3, tlb>>

-----------------------------------------------------------------------------
(* The system calls that make and destroy address spaces.  A file that is    *)
(* missing, unreadable or no ELF64 loads no page and fails.                  *)

NoFile == <<>>
Load(k, t, root, img) ==
  [k |-> k, t |-> t, root |-> root, done |-> <<>>, pa |-> NULL,
   todo |-> IF img = NoFile THEN <<>> ELSE img \o StackPages,
   ok |-> img # NoFile, saved |-> NULL, cr3 |-> NULL]
NewHeap(t) == regions' = [regions EXCEPT ![t] = <<>>] /\ brk' = [brk EXCEPT ![t] = 1]
Idle(c) == op[c] = NoOp /\ cur[c] # 0

\* The caller borrows the child's address space while it loads it.
sys_spawn(c) ==
  /\ Idle(c) /\ free # {}
  /\ \E root \in {Least(free)}, img \in Images \cup {NoFile} :
       /\ ent' = NewSpace(root)
       /\ free' = free \ {root}
       /\ pml4_phys' = [pml4_phys EXCEPT ![cur[c]] = root]
       /\ LoadCr3(c, root)
       /\ Call(c, [Load("spawn", cur[c], root, img)
                     EXCEPT !.saved = pml4_phys[cur[c]], !.cr3 = cr3[c]])
  /\ UNCHANGED <<ring, regions, brk, cur, heap_pages>>

\* create_user_task may find no slot or no stack.
Spawned(c) ==
  /\ op[c].k = "spawn" /\ op[c].todo = <<>>
  /\ LoadCr3(c, op[c].cr3)
  /\ \/ \E u \in TASKS :
          /\ op[c].ok /\ ring[u] = -1
          /\ pml4_phys' = [pml4_phys EXCEPT ![op[c].t] = op[c].saved, ![u] = op[c].root]
          /\ ring' = [ring EXCEPT ![u] = 3]
          /\ NewHeap(u)
          /\ Goto(c, NoOp)
     \/ /\ pml4_phys' = [pml4_phys EXCEPT ![op[c].t] = op[c].saved]
        /\ Goto(c, [k |-> "destroy", root |-> op[c].root])
        /\ UNCHANGED <<ring, regions, brk>>
  /\ UNCHANGED <<ent, free, cur, heap_pages>>

\* vmm_destroy_task_as: to the kernel's address space, then destroy.
MutDestroy(c, root) ==
  /\ LoadCr3(c, KROOT)
  /\ ent' = DestroyedEnt(root) /\ free' = free \cup Below(ent, root)
Destroy(c, root) ==
  /\ LoadCr3(c, KROOT)
  /\ IF root = NULL THEN UNCHANGED <<ent, free>>
     ELSE ent' = DestroyedEnt(root) /\ free' = free \cup FreedBy(root)

Destroyed(c) ==
  /\ op[c].k = "destroy"
  /\ Destroy(c, op[c].root)
  /\ Goto(c, NoOp)
  /\ UNCHANGED <<pml4_phys, ring, regions, brk, cur, heap_pages>>

sys_exec(c) ==
  /\ Idle(c)
  /\ IF pml4_phys[cur[c]] = NULL THEN UNCHANGED <<ent, free, cr3, tlb>>
                                ELSE Destroy(c, pml4_phys[cur[c]])
  /\ pml4_phys' = [pml4_phys EXCEPT ![cur[c]] = NULL]
  /\ NewHeap(cur[c])
  /\ \E img \in Images \cup {NoFile} : Call(c, [k |-> "create", t |-> cur[c], img |-> img])
  /\ UNCHANGED <<ring, cur, heap_pages>>
ExecCreates(c) ==
  /\ op[c].k = "create"
  /\ IF free = {} THEN Goto(c, NoOp) /\ UNCHANGED <<ent, free, pml4_phys, cr3, tlb>>
     ELSE \E root \in {Least(free)} :
            /\ ent' = NewSpace(root)
            /\ free' = free \ {root}
            /\ pml4_phys' = [pml4_phys EXCEPT ![op[c].t] = root]
            /\ LoadCr3(c, root)
            /\ Goto(c, Load("exec", op[c].t, root, op[c].img))
  /\ UNCHANGED <<ring, regions, brk, cur, heap_pages>>

\* sys_load_elf makes the new address space before it destroys the old one; an
\* ELF loaded with no address space of its own is refused.
sys_load_elf(c) ==
  /\ Idle(c) /\ free # {}
  /\ \E root \in {Least(free)}, img \in Images \cup {NoFile} :
       /\ ent' = NewSpace(root)
       /\ free' = free \ {root}
       /\ Call(c, [k |-> "replace", t |-> cur[c], root |-> root, img |-> img])
  /\ UNCHANGED <<pml4_phys, ring, regions, brk, cur, cr3, tlb, heap_pages>>
Replaces(c) ==
  /\ op[c].k = "replace"
  /\ \E old \in {pml4_phys[op[c].t]}, root \in {op[c].root} :
       /\ IF old = NULL THEN UNCHANGED <<ent, free>>
          ELSE ent' = DestroyedEnt(old) /\ free' = free \cup FreedBy(old)
       /\ pml4_phys' = [pml4_phys EXCEPT ![op[c].t] = root]
       /\ LoadCr3(c, root)
       /\ Goto(c, Load("load", op[c].t, root, op[c].img))
  /\ NewHeap(op[c].t)
  /\ UNCHANGED <<ring, cur, heap_pages>>

\* After exec the task returns to ring 3 at the new entry point, or where it was.
Loaded(c) ==
  /\ op[c].k \in {"exec", "load"} /\ op[c].todo = <<>>
  /\ ring' = [ring EXCEPT ![op[c].t] = IF op[c].k = "exec" /\ op[c].ok THEN 3 ELSE @]
  /\ Goto(c, NoOp)
  /\ UNCHANGED <<ent, free, pml4_phys, regions, brk, cur, cr3, tlb, heap_pages>>

\* An app the shell exec'd goes back to the shell; a spawned one ends in
\* task_exit, which destroys the address space once the slot is dead.
sys_exit(c) ==
  /\ Idle(c) /\ ring[cur[c]] = 3
  /\ NewHeap(cur[c])
  /\ pml4_phys' = [pml4_phys EXCEPT ![cur[c]] = NULL]
  /\ IF cur[c] = Shell
     THEN /\ Destroy(c, pml4_phys[cur[c]])
          /\ ring' = [ring EXCEPT ![Shell] = 0]
          /\ Call(c, NoOp) /\ UNCHANGED cur
     ELSE /\ LoadCr3(c, KROOT)
          /\ ring' = [ring EXCEPT ![cur[c]] = -1]
          /\ cur' = [cur EXCEPT ![c] = 0]
          /\ Call(c, [k |-> "destroy", root |-> pml4_phys[cur[c]]])
          /\ UNCHANGED <<ent, free>>
  /\ UNCHANGED heap_pages

VmmStep(c) ==
  \/ Schedule(c) \/ Touch(c)
  \/ PageTaken(c) \/ PageMapped(c) \/ PageUnmapped(c) \/ Unmapped(c)
  \/ uheap_alloc(c) \/ uheap_realloc(c) \/ uheap_free(c) \/ Allocated(c)
  \/ expand_heap(c) \/ Expanded(c)
  \/ sys_spawn(c) \/ Spawned(c) \/ Destroyed(c)
  \/ sys_exec(c) \/ ExecCreates(c) \/ sys_load_elf(c) \/ Replaces(c) \/ Loaded(c)
  \/ sys_exit(c)
VmmNext == \E c \in CPUS : VmmStep(c)
VmmSpec == VmmInit /\ [][VmmNext]_vmmVars

-----------------------------------------------------------------------------
(* Properties *)

LiveRoots ==
  ({KROOT} \cup {pml4_phys[t] : t \in TASKS}
           \cup UNION {Field(op[c], "root") \cup Field(op[c], "saved") : c \in CPUS})
  \ {NULL}
Holders(f) ==
  {r \in LiveRoots : r = f}
  \cup {s \in DOMAIN ent : ent[s] = f /\ (s[1] = KROOT \/ s[2] \notin KernelIdx)}
  \cup {<<"hand", c>> : c \in {d \in CPUS : f \in Field(op[d], "pa")}}

\* Every frame is free or has exactly one holder: a PML4 in use, one table entry,
\* or a call that has just taken it.  So no path through the loader, the user heap
\* and the kernel heap, out of memory at any point, leaks a frame or frees one
\* that is in use (rollback in uheap_alloc and expand_heap, and
\* vmm_destroy_address_space).
FrameOwnership ==
  \A f \in 1 .. NFRAMES : Cardinality(Holders(f)) = IF f \in free THEN 0 ELSE 1

\* A kernel heap address means the same frame in every address space, whenever
\* that space was cloned (the tables init_paging installs up front).
SameKernelHalf ==
  \A r \in LiveRoots : \A va \in Range(KernelHeap) :
    Translate(ent, r, va) = Translate(ent, KROOT, va)

\* No CPU keeps a translation that the page tables in its CR3 no longer hold,
\* although vmm_tlb_shootdown flushes the calling CPU only and schedule_on_cpu
\* skips the CR3 load when the value is the same.
TlbTrue ==
  \A c \in CPUS : \A x \in tlb[c] : Translate(ent, cr3[c], x[1]) = x[2]

\* Between calls, the mapped pages of a task's heap are those of its regions: the
\* guard pages and the freed regions are unmapped.
HeapIsRegions ==
  \A t \in TASKS :
    pml4_phys[t] # NULL /\ (\A c \in CPUS : t \notin Field(op[c], "t")) =>
      {i \in DOMAIN UserHeap : Translate(ent, pml4_phys[t], UserHeap[i]) # NULL} =
        UNION {r.base .. r.base + r.pages - 1 : r \in Range(regions[t])}

\* include/userlib.h:102-104 of sys_spawn: the caller keeps running, and -1 is
\* returned when the spawn fails.  So a CPU that goes on in ring 3 does so in the
\* address space of the task it runs.
CallerKeepsRunning ==
  \A c \in CPUS :
    op[c] = NoOp /\ cur[c] # 0 /\ ring[cur[c]] = 3 /\ pml4_phys[cur[c]] # NULL =>
      cr3[c] = pml4_phys[cur[c]]

=============================================================================
