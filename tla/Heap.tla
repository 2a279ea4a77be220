-------------------------------- MODULE Heap --------------------------------
(***************************************************************************)
(* kernel/heap.c: the kernel heap, a first-fit list of blocks that grows   *)
(* by whole pages.  Sizes and addresses are in bytes, HEAP_START is 0.     *)
(* Each operation is one section under heap_lock, except that kmalloc      *)
(* gives the lock up between the expansion and its second attempt, and     *)
(* krealloc between the allocation and the kfree.  own is history: the     *)
(* pointers a thread holds, with the size it asked for.  The page mapping  *)
(* of expand_heap, which may fail at any page and is undone, is in Vmm.    *)
(***************************************************************************)
EXTENDS Integers, Sequences, FiniteSets, SequencesExt

CONSTANTS
  Threads,
  HDR,         \* sizeof(heap_block_t)
  HEAP_PAGE,   \* bytes of a page
  Requests,    \* sizes asked for
  HEAP_MAX,    \* bound on current_heap_end
  MaxOwned     \* bound on the pointers a thread holds

ASSUME HeapAssumption ==
  /\ HDR \in Nat \ {0} /\ HDR % 16 = 0 /\ HEAP_PAGE % 16 = 0 /\ HEAP_PAGE > HDR
  /\ Requests \subseteq Nat

VARIABLES
  blocks,            \* the list from heap_head: records of a, size, is_free
  current_heap_end,
  pending,           \* what thread p is in the middle of
  own

heapVars == <<blocks, current_heap_end, pending, own>>

None == [k |-> "none"]
Block(a, size, is_free) == [a |-> a, size |-> size, is_free |-> is_free]
Ptr(b) == b.a + HDR
EndOf(b) == b.a + HDR + b.size
Rounded(n) == ((n + 15) \div 16) * 16

HeapInit ==
  /\ blocks = <<>> /\ current_heap_end = 0
  /\ pending = [p \in Threads |-> None]
  /\ own = [p \in Threads |-> {}]

-----------------------------------------------------------------------------
(* kmalloc *)

FitsIn(b, n) == b.is_free /\ b.size >= n
Candidates(n) == {i \in DOMAIN blocks : FitsIn(blocks[i], n)}

\* First fit, split when the rest can hold a header and more.
MutTaken(i, n) ==
  LET b == blocks[i]
  IN  IF b.size > n + 1
      THEN SubSeq(blocks, 1, i - 1)
           \o << Block(b.a, n, FALSE), Block(b.a + HDR + n, b.size - n - HDR, TRUE) >>
           \o SubSeq(blocks, i + 1, Len(blocks))
      ELSE [blocks EXCEPT ![i].is_free = FALSE]
TakenBlock(i, n) ==
  LET b == blocks[i]
  IN  IF b.size > n + HDR + 1
      THEN SubSeq(blocks, 1, i - 1)
           \o << Block(b.a, n, FALSE), Block(b.a + HDR + n, b.size - n - HDR, TRUE) >>
           \o SubSeq(blocks, i + 1, Len(blocks))
      ELSE [blocks EXCEPT ![i].is_free = FALSE]

\* expand_heap: whole pages, one free block at the end of the list.
ExpansionPages(n) == (n + HDR + HEAP_PAGE - 1) \div HEAP_PAGE
ExpandedBy(n) ==
  Append(blocks, Block(current_heap_end, ExpansionPages(n) * HEAP_PAGE - HDR, TRUE))

\* One attempt of thread p to get n bytes, for a krealloc of old if old # 0.
Attempt(p, req, old) ==
  \E n \in {Rounded(req)} :
    IF Candidates(n) # {}
    THEN \E i \in {Min(Candidates(n))} :
           /\ blocks' = TakenBlock(i, n)
           /\ own' = [own EXCEPT ![p] = @ \cup {[ptr |-> Ptr(blocks[i]), n |-> req]}]
           /\ pending' = [pending EXCEPT ![p] =
                            IF old = 0 THEN None ELSE [k |-> "free", ptr |-> old]]
           /\ UNCHANGED current_heap_end
    ELSE \/ /\ current_heap_end + ExpansionPages(n) * HEAP_PAGE <= HEAP_MAX
            /\ blocks' = ExpandedBy(n)
            /\ current_heap_end' = current_heap_end + ExpansionPages(n) * HEAP_PAGE
            /\ pending' = [pending EXCEPT ![p] = [k |-> "retry", n |-> req, old |-> old]]
            /\ UNCHANGED own
         \/ /\ pending' = [pending EXCEPT ![p] = None]     \* no memory: NULL
            /\ UNCHANGED <<blocks, current_heap_end, own>>

kmalloc(p) ==
  /\ pending[p] = None /\ Cardinality(own[p]) < MaxOwned
  /\ \E n \in Requests \ {0} : Attempt(p, n, 0)

\* The recursive call: another thread may have taken the fresh block meanwhile.
Retry(p) ==
  pending[p].k = "retry" /\ Attempt(p, pending[p].n, pending[p].old)

-----------------------------------------------------------------------------
(* kfree and krealloc *)

\* The coalescing loop: a free block absorbs the free block that follows it, and
\* is looked at again.
Mergeable(b, c) == b.is_free /\ c.is_free /\ EndOf(b) = c.a
Coalesced(bs) ==
  FoldLeft(LAMBDA done, b :
             IF done # <<>> /\ Mergeable(Last(done), b)
             THEN [done EXCEPT ![Len(done)].size = @ + b.size + HDR]
             ELSE Append(done, b),
           <<>>, bs)

FreedBlocks(ptr) ==
  Coalesced([i \in DOMAIN blocks |->
               IF Ptr(blocks[i]) = ptr THEN [blocks[i] EXCEPT !.is_free = TRUE]
                                       ELSE blocks[i]])

Release(p, ptr) ==
  /\ blocks' = FreedBlocks(ptr)
  /\ own' = [own EXCEPT ![p] = {x \in @ : x.ptr # ptr}]
  /\ pending' = [pending EXCEPT ![p] = None]
  /\ UNCHANGED current_heap_end

kfree(p) == pending[p] = None /\ \E x \in own[p] : Release(p, x.ptr)

\* krealloc of size 0 is kfree, of NULL is kmalloc.
krealloc(p) ==
  /\ pending[p] = None
  /\ \E x \in own[p], n \in Requests \ {0} : Attempt(p, n, x.ptr)
FreesOld(p) == pending[p].k = "free" /\ Release(p, pending[p].ptr)

HeapNext ==
  \E p \in Threads : kmalloc(p) \/ Retry(p) \/ kfree(p) \/ krealloc(p) \/ FreesOld(p)

HeapSpec == HeapInit /\ [][HeapNext]_heapVars

-----------------------------------------------------------------------------
(* Properties *)

\* The blocks tile the heap from its start to current_heap_end with no gap and no
\* overlap, so no header is ever written inside another block; and the blocks in
\* use are exactly those some thread holds, each at least as large as was asked.
HeapSound ==
  /\ \A i \in DOMAIN blocks :
       /\ blocks[i].size > 0
       /\ blocks[i].a = (IF i = 1 THEN 0 ELSE EndOf(blocks[i - 1]))
  /\ current_heap_end = (IF blocks = <<>> THEN 0 ELSE EndOf(Last(blocks)))
  /\ \A i \in DOMAIN blocks :
       Cardinality({<<p, x>> \in UNION {{p} \X own[p] : p \in Threads} :
                      x.ptr = Ptr(blocks[i]) /\ x.n <= blocks[i].size})
         = (IF blocks[i].is_free THEN 0 ELSE 1)
  /\ \A p \in Threads : \A x \in own[p] : \E i \in DOMAIN blocks : Ptr(blocks[i]) = x.ptr

=============================================================================
