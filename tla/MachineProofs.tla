--------------------------- MODULE MachineProofs ---------------------------
(***************************************************************************)
(* Four parts of the machine layer for every value of their constants:     *)
(* the panic report, the reschedule interrupt, the copies across the user  *)
(* boundary and the clock.                                                 *)
(***************************************************************************)
EXTENDS Panic, Doorbell, UserCopy, Clock, TLAPS

-----------------------------------------------------------------------------
(* Panic: kernel/panic.c *)

\* Types, and who may hold a lock: a running CPU, a reporting one that looks something
\* up under it, or one that failed with it.
PanicInv ==
  /\ mode \in [PCPUS -> {"running", "reporting", "halted"}]
  /\ kind \in [PCPUS -> {"page fault", "exception", "kernel_panic"}]
  /\ DOMAIN doing = PCPUS
  /\ locked_by \in [LOCKS -> PCPUS \cup {NOCPU}]
  /\ kept \subseteq LOCKS
  /\ \A l \in LOCKS : locked_by[l] # NOCPU =>
       mode[locked_by[l]] = "running" \/ Doing(locked_by[l], l) \/ l \in kept

\* A CPU that reports is at one step: at most one lock's look-up.
LEMMA OneStep ==
  ASSUME NEW c, NEW x, NEW y, Doing(c, x), Doing(c, y) PROVE x = y
BY Zenon DEF Doing

\* A step of the report of c, and how it leaves the other CPUs.
LEMMA OthersDoing ==
  ASSUME NEW c \in PCPUS, NEW d \in PCPUS \ {c}, NEW l, DOMAIN mode = PCPUS, DOMAIN doing = PCPUS,
         \/ doing' = doing \/ doing' = [doing EXCEPT ![c] = @ + 1],
         \/ mode' = mode \/ \E m : mode' = [mode EXCEPT ![c] = m],
         \/ kind' = kind \/ \E k : kind' = [kind EXCEPT ![c] = k] /\ DOMAIN kind = PCPUS
  PROVE  /\ mode'[d] = mode[d] /\ (Doing(d, l) <=> Doing(d, l)')
<1>1. doing'[d] = doing[d] /\ mode'[d] = mode[d] /\ kind'[d] = kind[d]
  BY Zenon
<1>. QED  BY <1>1, Zenon DEF Doing

\* Every step of panic.c and of the CPUs that still run keeps the invariant.
LEMMA PanicStep == PanicInv /\ [PanicNext]_panicVars => PanicInv'
<1>. SUFFICES ASSUME PanicInv, [PanicNext]_panicVars PROVE PanicInv'
  BY Zenon
<1>0. CASE UNCHANGED panicVars
  BY <1>0, Zenon DEF panicVars, PanicInv, Doing
<1>1. ASSUME NEW c \in PCPUS, NEW l \in LOCKS, Enter(c, l) \/ Leave(c, l) PROVE PanicInv'
  BY <1>1, PanicAssumption, Zenon DEF Enter, Leave, PanicInv, Doing
<1>2. ASSUME NEW c \in PCPUS, Compose(c) PROVE PanicInv'
  BY <1>2, Zenon DEF Compose, PanicInv, Doing
<1>3. ASSUME NEW c \in PCPUS, NEW k \in {"page fault", "exception", "kernel_panic"}, Fails(c, k)
      PROVE  PanicInv'
  BY <1>3, OthersDoing, Zenon DEF Fails, PanicInv
<1>4. ASSUME NEW c \in PCPUS, Prints(c) \/ Paints(c) \/ Halts(c) PROVE PanicInv'
  <2>1. /\ \E what \in {"serial", "paint", "text"} : Doing(c, what)
        /\ doing' = doing \/ doing' = [doing EXCEPT ![c] = @ + 1]
        /\ mode' = mode \/ mode' = [mode EXCEPT ![c] = "halted"]
        /\ UNCHANGED <<kind, locked_by, kept>>
    BY <1>4, Zenon DEF Prints, Paints, Halts, Onward
  <2>2. \A l \in LOCKS : locked_by[l] = c => l \in kept
    BY <2>1, PanicAssumption, Zenon DEF PanicInv, Doing, LOCKS
  <2>3. \A l \in LOCKS : locked_by[l] \notin {NOCPU, c} =>
          mode'[locked_by[l]] = "running" \/ Doing(locked_by[l], l)' \/ l \in kept
    <3>. SUFFICES ASSUME NEW l \in LOCKS, locked_by[l] \in PCPUS \ {c}
                  PROVE  mode'[locked_by[l]] = "running" \/ Doing(locked_by[l], l)' \/ l \in kept
      BY Zenon DEF PanicInv
    <3>1. doing'[locked_by[l]] = doing[locked_by[l]] /\ mode'[locked_by[l]] = mode[locked_by[l]]
      BY <2>1, Zenon DEF PanicInv
    <3>. QED  BY <2>1, <3>1, PanicAssumption, Zenon DEF PanicInv, Doing
  <2>4. mode' \in [PCPUS -> {"running", "reporting", "halted"}] /\ DOMAIN doing' = PCPUS
    BY <2>1, Zenon DEF PanicInv
  <2>. QED  BY <2>1, <2>2, <2>3, <2>4, Zenon DEF PanicInv
<1>6. ASSUME NEW c \in PCPUS, NEW l \in LOCKS, Acquires(c, l) PROVE PanicInv'
  <2>1. /\ Doing(c, l) /\ locked_by' = [locked_by EXCEPT ![l] = c]
        /\ UNCHANGED <<mode, kind, doing, kept>>
    BY <1>6, Zenon DEF Acquires
  <2>2. \A d, m : Doing(d, m)' <=> Doing(d, m)
    BY <2>1, Zenon DEF Doing
  <2>. QED  BY <2>1, <2>2, Zenon DEF PanicInv
<1>7. ASSUME NEW c \in PCPUS, NEW l \in LOCKS, LooksUp(c, l) PROVE PanicInv'
  BY <1>7, OthersDoing, OneStep, Zenon DEF LooksUp, Unlocked, Onward, PanicInv, LOCKS
<1>. QED  BY <1>0, <1>1, <1>2, <1>3, <1>4, <1>6, <1>7, Zenon DEF PanicNext, Reports

\* A CPU that fails gets its report out, however many CPUs there are and fail, unless one
\* failed inside paging_lock or pmm_lock.
THEOREM PanicReports == PanicSpec => []PanicShown
<1>1. PanicInit => PanicInv
  BY Zenon DEF PanicInit, PanicInv
<1>2. PanicInv => PanicShown
  BY PanicAssumption, Zenon DEF PanicInv, PanicShown, Spinning, GivesBack, Doing
<1>. QED  BY <1>1, <1>2, PanicStep, PTL DEF PanicSpec

-----------------------------------------------------------------------------
(* The reschedule interrupt: arch/x86/lapic.c, kernel/smp/smp.c *)

\* A caller of unblock_task has named an online processor, once.
DoorTypeOK ==
  /\ 0 \in dOnline /\ dOnline \subseteq DCPUS
  /\ reschedule_pending \in [DCPUS -> BOOLEAN]
  /\ irr \subseteq dOnline /\ fresh \subseteq dOnline
  /\ dAt \in [DCPUS -> 0 .. 2]
  /\ waker \in [WAKERS -> SUBSET [cpu : dOnline, at : {"mark", "ring"}]]
  /\ \A w \in WAKERS : \A k, m \in waker[w] : k = m

\* Before the handler of c can dismiss the request of a caller that rings, the flag
\* stands: schedule_on_cpu clears it only on the way to the queue.
Told(c) ==
  \/ dAt[c] \in {1, 2}
  \/ reschedule_pending[c] /\ c \in irr
  \/ \E w \in WAKERS : \E k \in waker[w] :
       k.cpu = c /\ (k.at = "mark" \/ reschedule_pending[c])

DoorInv == DoorTypeOK /\ \A c \in fresh : Told(c)

\* The two steps of schedule_on_cpu, in their order.
LEMMA Steps ==
  /\ DOMAIN StepsOf = {1, 2} /\ Len(StepsOf) = 2
  /\ StepsOf[1] = "clear" /\ StepsOf[2] = "look"
BY DEF StepsOf

\* Queueing a task, marking its processor and ringing for it.
LEMMA CallerStep ==
  ASSUME DoorInv, NEW w \in WAKERS,
         (\E c \in DCPUS : Queue(w, c)) \/ smp_mark_reschedule(w) \/ lapic_send_reschedule(w)
  PROVE  DoorInv'
<1>1. ASSUME NEW c \in DCPUS, Queue(w, c) PROVE DoorInv'
  <2>1. DoorTypeOK'
    BY <1>1 DEF DoorInv, DoorTypeOK, Queue
  <2>2. ASSUME NEW d \in fresh', d # c PROVE Told(d)'
    <3>1. Told(d)
      BY <1>1, <2>2, Zenon DEF DoorInv, Queue
    <3>2. CASE dAt[d] \in {1, 2} \/ (reschedule_pending[d] /\ d \in irr)
      BY <1>1, <3>2, Zenon DEF Told, Queue
    <3>3. CASE \E v \in WAKERS : \E k \in waker[v] :
                 k.cpu = d /\ (k.at = "mark" \/ reschedule_pending[d])
      <4>1. PICK v \in WAKERS : \E k \in waker[v] :
                   k.cpu = d /\ (k.at = "mark" \/ reschedule_pending[d])
        BY <3>3, Zenon
      <4>2. v # w /\ waker'[v] = waker[v] /\ reschedule_pending' = reschedule_pending
        BY <1>1, <4>1, Zenon DEF Queue, DoorInv, DoorTypeOK
      <4>. QED  BY <4>1, <4>2, Zenon DEF Told
    <3>. QED  BY <3>1, <3>2, <3>3, Zenon DEF Told
  <2>3. Told(c)'
    <3>1. waker'[w] = {[cpu |-> c, at |-> "mark"]}
      BY <1>1, Zenon DEF Queue, DoorInv, DoorTypeOK
    <3>2. \E k \in waker'[w] : k.cpu = c /\ k.at = "mark"
      BY <3>1
    <3>. QED  BY <3>2, Zenon DEF Told
  <2>. QED  BY <2>1, <2>2, <2>3, Zenon DEF DoorInv
<1>2. ASSUME smp_mark_reschedule(w) PROVE DoorInv'
  <2>1. PICK k \in waker[w] :
          /\ k.at = "mark"
          /\ reschedule_pending' = [reschedule_pending EXCEPT ![k.cpu] = TRUE]
          /\ waker' = [waker EXCEPT ![w] = {[k EXCEPT !.at = "ring"]}]
          /\ UNCHANGED <<dOnline, irr, dAt, fresh>>
    BY <1>2, Zenon DEF smp_mark_reschedule
  <2>2. k.cpu \in dOnline /\ k.cpu \in DCPUS /\ k \in [cpu : dOnline, at : {"mark", "ring"}]
    BY DEF DoorInv, DoorTypeOK
  <2>3. /\ waker'[w] = {[cpu |-> k.cpu, at |-> "ring"]}
        /\ \A v \in WAKERS \ {w} : waker'[v] = waker[v]
        /\ reschedule_pending'[k.cpu] = TRUE
        /\ \A d \in DCPUS : reschedule_pending[d] => reschedule_pending'[d]
    BY <2>1, <2>2 DEF DoorInv, DoorTypeOK
  <2>4. DoorTypeOK'
    BY <2>1, <2>2, <2>3 DEF DoorInv, DoorTypeOK
  <2>5. ASSUME NEW d \in fresh' PROVE Told(d)'
    <3>1. Told(d) /\ d \in DCPUS
      BY <2>1, Zenon DEF DoorInv, DoorTypeOK
    <3>2. CASE dAt[d] \in {1, 2} \/ (reschedule_pending[d] /\ d \in irr)
      BY <2>1, <2>3, <3>1, <3>2, Zenon DEF Told
    <3>3. CASE \E v \in WAKERS : \E m \in waker[v] :
                 m.cpu = d /\ (m.at = "mark" \/ reschedule_pending[d])
      <4>1. PICK v \in WAKERS : \E m \in waker[v] :
                   m.cpu = d /\ (m.at = "mark" \/ reschedule_pending[d])
        BY <3>3, Zenon
      <4>2. CASE v = w
        <5>1. d = k.cpu
          BY <4>1, <4>2, Zenon DEF DoorInv, DoorTypeOK
        <5>. QED  BY <5>1, <2>3, Zenon DEF Told
      <4>3. CASE v # w
        BY <4>1, <4>3, <2>3, <3>1, Zenon DEF Told
      <4>. QED  BY <4>2, <4>3, Zenon
    <3>. QED  BY <3>1, <3>2, <3>3, Zenon DEF Told
  <2>. QED  BY <2>4, <2>5, Zenon DEF DoorInv
<1>3. ASSUME lapic_send_reschedule(w) PROVE DoorInv'
  <2>1. PICK k \in waker[w] :
          /\ k.at = "ring"
          /\ irr' = irr \cup ({k.cpu} \cap dOnline)
          /\ waker' = [waker EXCEPT ![w] = {}]
          /\ UNCHANGED <<dOnline, reschedule_pending, dAt, fresh>>
    BY <1>3, Zenon DEF lapic_send_reschedule
  <2>2. k.cpu \in dOnline /\ irr' = irr \cup {k.cpu}
    BY <2>1 DEF DoorInv, DoorTypeOK
  <2>3. waker'[w] = {} /\ \A v \in WAKERS \ {w} : waker'[v] = waker[v]
    BY <2>1, Zenon DEF DoorInv, DoorTypeOK
  <2>4. DoorTypeOK'
    BY <2>1, <2>2, <2>3, Zenon DEF DoorInv, DoorTypeOK
  <2>5. ASSUME NEW d \in fresh' PROVE Told(d)'
    <3>1. Told(d)
      BY <2>1, Zenon DEF DoorInv
    <3>2. CASE dAt[d] \in {1, 2} \/ (reschedule_pending[d] /\ d \in irr)
      BY <2>1, <2>2, <3>2, Zenon DEF Told
    <3>3. CASE \E v \in WAKERS : \E m \in waker[v] :
                 m.cpu = d /\ (m.at = "mark" \/ reschedule_pending[d])
      <4>1. PICK v \in WAKERS : \E m \in waker[v] :
                   m.cpu = d /\ (m.at = "mark" \/ reschedule_pending[d])
        BY <3>3, Zenon
      <4>2. CASE v = w
        <5>1. d = k.cpu /\ reschedule_pending[d]
          BY <2>1, <4>1, <4>2, Zenon DEF DoorInv, DoorTypeOK
        <5>. QED  BY <5>1, <2>1, <2>2, Zenon DEF Told
      <4>3. CASE v # w
        BY <4>1, <4>3, <2>1, <2>3, Zenon DEF Told
      <4>. QED  BY <4>2, <4>3, Zenon
    <3>. QED  BY <3>1, <3>2, <3>3, Zenon DEF Told
  <2>. QED  BY <2>4, <2>5, Zenon DEF DoorInv
<1>. QED  BY <1>1, <1>2, <1>3, Zenon

\* The interrupts of a processor and the two steps of schedule_on_cpu.
LEMMA ProcessorStep ==
  ASSUME DoorInv, NEW c \in DCPUS,
         \/ ComesOnline(c) \/ lapic_timer_handler(c) \/ lapic_reschedule_handler(c)
         \/ smp_clear_reschedule(c) \/ LooksAtQueue(c) \/ (c = 0 /\ PitQuantum)
  PROVE  DoorInv'
<1>1. CASE ComesOnline(c)
  <2>1. DoorTypeOK'
    BY <1>1 DEF DoorInv, DoorTypeOK, ComesOnline
  <2>. QED  BY <1>1, <2>1 DEF DoorInv, Told, ComesOnline
<1>2. CASE lapic_timer_handler(c) \/ (c = 0 /\ PitQuantum)
  <2>1. /\ dAt[c] = 0 /\ dAt' \in [DCPUS -> 0 .. 2]
        /\ \A d \in DCPUS : dAt[d] \in {1, 2} => dAt'[d] = dAt[d]
        /\ UNCHANGED <<dOnline, reschedule_pending, irr, waker, fresh>>
    BY <1>2 DEF DoorInv, DoorTypeOK, lapic_timer_handler, PitQuantum, Answer, Interruptible
  <2>. QED  BY <2>1 DEF DoorInv, DoorTypeOK, Told
<1>3. CASE lapic_reschedule_handler(c)
  <2>1. /\ dAt[c] = 0 /\ dAt' \in [DCPUS -> 0 .. 2]
        /\ \A d \in DCPUS : dAt[d] \in {1, 2} => dAt'[d] = dAt[d]
        /\ reschedule_pending[c] => dAt'[c] = 1
        /\ irr' = irr \ {c}
        /\ UNCHANGED <<dOnline, reschedule_pending, waker, fresh>>
    BY <1>3 DEF DoorInv, DoorTypeOK, lapic_reschedule_handler, Answer, Interruptible
  <2>2. DoorTypeOK'
    BY <2>1, Zenon DEF DoorInv, DoorTypeOK
  <2>3. ASSUME NEW d \in fresh' PROVE Told(d)'
    BY <2>1 DEF DoorInv, DoorTypeOK, Told
  <2>. QED  BY <2>2, <2>3, Zenon DEF DoorInv
<1>4. CASE smp_clear_reschedule(c)
  <2>1. /\ dAt[c] = 1 /\ dAt' = [dAt EXCEPT ![c] = 2]
        /\ reschedule_pending' = [reschedule_pending EXCEPT ![c] = FALSE]
        /\ UNCHANGED <<dOnline, irr, waker, fresh>>
    <3>1. dAt[c] \in DOMAIN StepsOf /\ StepsOf[dAt[c]] = "clear"
      BY <1>4, Zenon DEF smp_clear_reschedule, DoorStep
    <3>2. dAt[c] = 1
      BY <3>1, Steps, Zenon
    <3>. QED  BY <1>4, <3>2, Steps DEF smp_clear_reschedule, DoorStep
  <2>2. DoorTypeOK'
    BY <2>1 DEF DoorInv, DoorTypeOK
  <2>3. \A d \in DCPUS \ {c} : dAt'[d] = dAt[d] /\ reschedule_pending'[d] = reschedule_pending[d]
    BY <2>1, Zenon DEF DoorInv, DoorTypeOK
  <2>4. dAt'[c] = 2
    BY <2>1, Zenon DEF DoorInv, DoorTypeOK
  <2>5. ASSUME NEW d \in fresh', d # c PROVE Told(d)'
    <3>1. Told(d) /\ d \in DCPUS \ {c}
      BY <2>1, <2>5, Zenon DEF DoorInv, DoorTypeOK
    <3>. QED  BY <2>1, <2>3, <3>1, Zenon DEF Told
  <2>. QED  BY <2>2, <2>4, <2>5, Zenon DEF DoorInv, Told
<1>5. CASE LooksAtQueue(c)
  <2>1. /\ dAt[c] = 2 /\ dAt' = [dAt EXCEPT ![c] = 0] /\ fresh' = fresh \ {c}
        /\ UNCHANGED <<dOnline, reschedule_pending, irr, waker>>
    BY <1>5, Steps, Zenon DEF DoorInv, DoorTypeOK, LooksAtQueue, DoorStep
  <2>2. DoorTypeOK'
    BY <2>1 DEF DoorInv, DoorTypeOK
  <2>3. ASSUME NEW d \in fresh' PROVE Told(d)'
    <3>1. Told(d) /\ dAt'[d] = dAt[d]
      BY <2>1, Zenon DEF DoorInv, DoorTypeOK
    <3>. QED  BY <2>1, <3>1, Zenon DEF Told
  <2>. QED  BY <2>2, <2>3, Zenon DEF DoorInv
<1>. QED  BY <1>1, <1>2, <1>3, <1>4, <1>5, Zenon

\* A processor that another one queued a task for is told, for any number of processors
\* and of callers that ring at once.
THEOREM DoorbellRings == DoorSpec => []DoorbellHeard
<1>1. DoorInit => DoorInv
  BY DoorAssumption DEF DoorInit, DoorInv, DoorTypeOK
<1>2. DoorInv /\ [DoorNext]_doorVars => DoorInv'
  <2>. SUFFICES ASSUME DoorInv, [DoorNext]_doorVars PROVE DoorInv'
    BY Zenon
  <2>1. CASE UNCHANGED doorVars
    BY <2>1 DEF doorVars, DoorInv, DoorTypeOK, Told
  <2>2. CASE DoorNext
    BY <2>2, CallerStep, ProcessorStep, DoorAssumption, Zenon DEF DoorNext
  <2>. QED  BY <2>1, <2>2, Zenon
<1>3. DoorInv => DoorbellHeard
  BY Steps DEF DoorInv, DoorTypeOK, Told, DoorbellHeard
<1>. QED  BY <1>1, <1>2, <1>3, PTL DEF DoorSpec

-----------------------------------------------------------------------------
(* Copies across the user boundary: kernel/usercopy.c *)

\* A page is a multiple of its size, and holds the addresses from its first to the next.
LEMMA PageBounds ==
  ASSUME NEW a \in Nat
  PROVE  /\ PageOf(a) \in Nat /\ PageOf(a) <= a /\ a < PageOf(a) + PG
         /\ \E q \in Nat : PageOf(a) = PG * q
<1>1. PG \in Nat /\ PG > 0
  BY CopyAssumption
<1>2. a \div PG \in Nat /\ a % PG \in 0 .. PG - 1
  BY ONLY <1>1, a \in Nat
<1>3. PageOf(a) = PG * (a \div PG)
  <2>1. a % PG = a - PG * (a \div PG)
    BY ONLY <1>1, a \in Nat
  <2>2. a \in Int /\ a % PG \in Int /\ PG * (a \div PG) \in Int
    BY <1>1, <1>2
  <2>3. \A x, y, z \in Int : y = x - z => x - y = z
    OBVIOUS
  <2>. QED  BY <2>1, <2>2, <2>3, Zenon DEF PageOf
<1>4. PageOf(a) <= a /\ a < PageOf(a) + PG
  BY <1>1, <1>2 DEF PageOf
<1>. QED  BY <1>1, <1>2, <1>3, <1>4

LEMMA TimesMonotone ==
  ASSUME NEW n \in Nat, NEW x \in Nat, NEW y \in Nat, x < y PROVE n * x + n <= n * y
<1>1. PICK d \in Nat : y = x + 1 + d
  BY y - x - 1 \in Nat /\ y = x + 1 + (y - x - 1), Zenon
<1>2. n * y = n * x + n + n * d /\ n * d \in Nat /\ n * x \in Nat
  BY <1>1
<1>. QED  BY <1>2

LEMMA PageMonotone ==
  ASSUME NEW a \in Nat, NEW b \in Nat, a <= b PROVE PageOf(a) <= PageOf(b)
<1>1. PICK q \in Nat : PageOf(a) = PG * q
  BY PageBounds, Zenon
<1>2. PICK r \in Nat : PageOf(b) = PG * r
  BY PageBounds, Zenon
<1>3. CASE r < q
  <2>1. PageOf(b) + PG <= PageOf(a)
    BY <1>1, <1>2, <1>3, TimesMonotone, CopyAssumption, Zenon
  <2>. QED  BY <2>1, PageBounds, CopyAssumption
<1>4. CASE q < r
  BY <1>1, <1>2, <1>4, TimesMonotone, PageBounds, CopyAssumption
<1>5. CASE q = r
  <2>1. PageOf(a) = PageOf(b) /\ PageOf(a) \in Nat
    BY <1>1, <1>2, <1>5, PageBounds, Zenon
  <2>. QED  BY <2>1
<1>. QED  BY <1>3, <1>4, <1>5

\* The page of a page's address is itself; no page starts at 1, which checked_page holds
\* before the first look-up.
LEMMA PageOfPage ==
  ASSUME NEW q \in Nat PROVE PageOf(PG * q) = PG * q /\ PG * q # 1
<1>0. PG * q \in Nat
  BY CopyAssumption
<1>1. PICK r \in Nat : PageOf(PG * q) = PG * r
  BY <1>0, PageBounds, Zenon
<1>2. CASE r < q
  BY <1>0, <1>1, <1>2, TimesMonotone, PageBounds, CopyAssumption
<1>3. CASE q < r
  BY <1>0, <1>1, <1>3, TimesMonotone, PageBounds, CopyAssumption
<1>4. PG * q # 1
  <2>1. CASE q = 0
    BY <2>1, CopyAssumption
  <2>2. CASE q > 0
    BY <2>2, TimesMonotone, CopyAssumption, PG * 0 = 0
  <2>. QED  BY <2>1, <2>2
<1>. QED  BY <1>1, <1>2, <1>3, <1>4

LEMMA PageTwice ==
  ASSUME NEW a \in Nat PROVE PageOf(PageOf(a)) = PageOf(a) /\ PageOf(a) # 1
BY PageBounds, PageOfPage, Zenon

\* The user range is whole pages.
LEMMA UserRange ==
  ASSUME NEW a \in Nat
  PROVE  (PageOf(a) < USER_MAX <=> a < USER_MAX) /\ (PageOf(a) >= USER_MAX <=> ~(a < USER_MAX))
<1>1. PageOf(USER_MAX) = USER_MAX
  BY CopyAssumption DEF PageOf
<1>2. a >= USER_MAX => PageOf(a) >= USER_MAX
  BY <1>1, PageMonotone, CopyAssumption, Zenon
<1>3. PageOf(a) \in Nat /\ PageOf(a) <= a
  BY PageBounds, Zenon
<1>. QED  BY <1>2, <1>3, CopyAssumption

\* No byte below the end of the address space wraps.
LEMMA NoWrap ==
  ASSUME NEW a \in Nat, a < VA PROVE a % VA = a
BY CopyAssumption

\* Types, and where strncpy_from_user is: every byte it has passed lies in the user
\* range and is no terminator, and the page it looked up last is that of the last byte.
CopyInv ==
  /\ nul \in 0 .. VA - 1
  /\ req \in [fn : {"copy", "strncpy"}, from_user : BOOLEAN, uaddr : 0 .. VA - 1, len : Nat]
  /\ i \in Nat
  /\ req.from_user => \A a \in touched : UserByte(a)
  /\ result = "pending" /\ req.from_user /\ req.fn = "strncpy" =>
       /\ \A k \in 0 .. i - 1 : /\ UserByte(req.uaddr + k) /\ req.uaddr + k # nul
                                /\ k + 1 < req.len
       /\ checked_page = IF i = 0 THEN 1 ELSE PageOf(req.uaddr + i - 1)
  /\ result # "pending" => CopySound

\* The whole range: user_range_ok lets a copy from ring 3 through exactly when every byte
\* of it is the caller's.
LEMMA RangeExact ==
  ASSUME CopyInv, req.fn = "copy", req.from_user
  PROVE  user_range_ok <=>
           /\ req.uaddr # 0 /\ req.len <= MAX_RANGE
           /\ \A a \in 0 .. VA - 1 : req.uaddr <= a /\ a < req.uaddr + req.len => UserByte(a)
           /\ req.uaddr + req.len <= VA
<1>. DEFINE u == req.uaddr
            n == req.len
<1>0. u \in Nat /\ u < VA /\ n \in Nat
  BY CopyAssumption DEF CopyInv
<1>1. CASE n = 0
  BY <1>0, <1>1, CopyAssumption DEF user_range_ok
<1>2. CASE n # 0 /\ u < USER_MAX /\ n <= USER_MAX - u
  <2>0. /\ (u + n) - 1 \in Nat /\ (u + n) - 1 < USER_MAX /\ u + n < VA /\ u + n \in Nat
        /\ (u + n) % VA = u + n
    BY <1>0, <1>2, NoWrap, CopyAssumption
  <2>1. ASSUME \A p \in UserPages : PageOf(u) <= p /\ p <= PageOf((u + n) - 1) => p \in mapped,
               NEW a \in 0 .. VA - 1, u <= a, a < u + n
        PROVE  UserByte(a)
    <3>1. a \in Nat /\ a <= (u + n) - 1 /\ a \in 0 .. USER_MAX - 1
      BY <1>0, <2>0, <2>1, CopyAssumption
    <3>2. PageOf(u) <= PageOf(a) /\ PageOf(a) <= PageOf((u + n) - 1) /\ PageOf(a) \in UserPages
      BY <1>0, <2>0, <2>1, <3>1, PageMonotone, Zenon DEF UserPages
    <3>. QED  BY <2>1, <3>1, <3>2, CopyAssumption DEF UserByte
  <2>2. ASSUME \A a \in 0 .. VA - 1 : u <= a /\ a < u + n => UserByte(a),
               NEW p \in UserPages, PageOf(u) <= p, p <= PageOf((u + n) - 1)
        PROVE  p \in mapped
    <3>1. PICK b \in 0 .. USER_MAX - 1 : p = PageOf(b)
      BY Zenon DEF UserPages
    <3>2. b \in Nat /\ p \in Nat /\ PageOf(p) = p
      BY <3>1, PageBounds, PageTwice, CopyAssumption
    <3>3. CASE p <= u
      <4>1. PageOf(p) <= PageOf(u)
        BY <1>0, <3>2, <3>3, PageMonotone, Zenon
      <4>2. PageOf(u) \in Nat
        BY <1>0, PageBounds, Zenon
      <4>3. p = PageOf(u)
        BY <2>2, <3>2, <4>1, <4>2
      <4>. QED  BY <1>0, <1>2, <2>2, <4>3, CopyAssumption DEF UserByte
    <3>4. CASE u < p
      <4>1. PageOf((u + n) - 1) \in Nat /\ PageOf((u + n) - 1) <= (u + n) - 1
        BY <2>0, PageBounds, Zenon
      <4>2. p \in 0 .. VA - 1 /\ u <= p /\ p < u + n
        BY <1>0, <2>0, <2>2, <3>2, <3>4, <4>1, CopyAssumption
      <4>. QED  BY <2>2, <3>2, <4>2, Zenon DEF UserByte
    <3>. QED  BY <1>0, <3>2, <3>3, <3>4
  <2>3. (\A p \in UserPages : PageOf(u) <= p /\ p <= PageOf((u + n) - 1) => p \in mapped)
        <=> (\A a \in 0 .. VA - 1 : u <= a /\ a < u + n => UserByte(a))
    BY <2>1, <2>2, Zenon
  <2>4. (u + n) % VA >= u /\ u + n <= VA
    BY <1>0, <2>0, CopyAssumption
  <2>5. user_range_ok <=> /\ u # 0 /\ n <= MAX_RANGE
                          /\ \A p \in UserPages : PageOf(u) <= p /\ p <= PageOf((u + n) - 1) => p \in mapped
    BY <1>2, <2>4, Zenon DEF user_range_ok, LastPage
  <2>. QED  BY <2>3, <2>4, <2>5, Zenon
<1>3. CASE n # 0 /\ ~(u < USER_MAX /\ n <= USER_MAX - u)
  <2>1. ~user_range_ok
    BY <1>3, Zenon DEF user_range_ok
  <2>2. ASSUME u + n <= VA PROVE \E a \in 0 .. VA - 1 : u <= a /\ a < u + n /\ ~UserByte(a)
    <3>1. (u + n) - 1 \in 0 .. VA - 1 /\ u <= (u + n) - 1 /\ (u + n) - 1 < u + n
      BY <1>0, <1>3, <2>2, CopyAssumption
    <3>2. ~((u + n) - 1 < USER_MAX)
      BY <1>0, <1>3, CopyAssumption
    <3>. QED  BY <3>1, <3>2, Zenon DEF UserByte
  <2>. QED  BY <2>1, <2>2, Zenon
<1>. QED  BY <1>1, <1>2, <1>3, Zenon

\* What copy_from_user and copy_to_user need and touch.
LEMMA CopyStep == ASSUME CopyInv, Copy PROVE CopyInv'
<1>. DEFINE u == req.uaddr
            n == req.len
<1>0. u \in Nat /\ u < VA /\ n \in Nat /\ UNCHANGED <<mapped, nul, req, i, checked_page>>
  BY CopyAssumption DEF CopyInv, Copy
<1>1. CASE ~req.from_user
  BY <1>0, <1>1, Zenon DEF CopyInv, Copy, CopySound
<1>2. CASE req.from_user
  <2>1. Needed = {a \in Nat : u <= a /\ a < u + n}
    <3>1. Needed = {u + k : k \in 0 .. n} \ {u + n}
      BY Zenon DEF Copy, Needed
    <3>2. ASSUME NEW a \in Needed PROVE a \in Nat /\ u <= a /\ a < u + n
      BY <1>0, <3>1
    <3>3. ASSUME NEW a \in Nat, u <= a, a < u + n PROVE a \in Needed
      <4>1. a - u \in 0 .. n /\ a = u + (a - u)
        BY <1>0, <3>3
      <4>. QED  BY <1>0, <3>1, <3>3, <4>1
    <3>. QED  BY <3>2, <3>3, Zenon
  <2>2. (\A a \in Needed : UserByte(a)) <=>
          /\ \A a \in 0 .. VA - 1 : u <= a /\ a < u + n => UserByte(a)
          /\ u + n <= VA
    <3>1. ASSUME \A a \in Needed : UserByte(a) PROVE u + n <= VA
      <4>1. CASE n = 0
        BY <1>0, <4>1, CopyAssumption
      <4>2. CASE n # 0
        <5>1. (u + n) - 1 \in Needed
          BY <1>0, <2>1, <4>2
        <5>. QED  BY <1>0, <3>1, <5>1, CopyAssumption DEF UserByte
      <4>. QED  BY <4>1, <4>2, Zenon
    <3>. QED  BY <1>0, <2>1, <3>1, CopyAssumption
  <2>3. user_range_ok <=> /\ u # 0 /\ n <= MAX_RANGE /\ \A a \in Needed : UserByte(a)
    BY <1>2, <2>2, RangeExact, Zenon DEF Copy
  <2>4. /\ result' = IF user_range_ok THEN "ok" ELSE "refused"
        /\ touched' = IF user_range_ok THEN {a \in 0 .. VA - 1 : u <= a /\ a < u + n} ELSE {}
        /\ req.fn = "copy"
    BY Zenon DEF Copy
  <2>5. \A a \in touched' : UserByte(a)
    BY <2>2, <2>3, <2>4, Zenon
  <2>6. Needed' = Needed /\ \A a : UserByte(a)' <=> UserByte(a)
    BY <1>0, Zenon DEF Needed, UserByte
  <2>7. CopySound'
    BY <1>0, <2>3, <2>4, <2>5, <2>6, Zenon DEF CopySound
  <2>. QED  BY <1>0, <2>4, <2>5, <2>6, <2>7, Zenon DEF CopyInv
<1>. QED  BY <1>1, <1>2, Zenon

\* strncpy_from_user, one byte: refused exactly when the byte is not the caller's.
LEMMA ByteExact ==
  ASSUME CopyInv, req.from_user, req.fn = "strncpy", result = "pending"
  PROVE  /\ (req.uaddr + i) % VA = req.uaddr + i
         /\ req.uaddr + i \in Nat
         /\ Refused(req.uaddr + i) <=> ~UserByte(req.uaddr + i)
<1>. DEFINE u == req.uaddr
            a == req.uaddr + i
<1>0. u \in Nat /\ u < VA /\ a \in Nat /\ i \in Nat /\ u <= a
  BY CopyAssumption DEF CopyInv
<1>1. CASE i = 0
  <2>1. a = u /\ checked_page = 1
    BY <1>0, <1>1 DEF CopyInv
  <2>2. PageOf(a) # checked_page /\ (PageOf(a) >= USER_MAX <=> ~(a < USER_MAX)) /\ ~(a < u)
    BY <1>0, <2>1, PageTwice, UserRange
  <2>. QED  BY <1>0, <2>1, <2>2, NoWrap, Zenon DEF Refused, UserByte
<1>2. CASE i # 0
  <2>1. i - 1 \in 0 .. i - 1 /\ u + (i - 1) = a - 1 /\ a - 1 \in Nat
    BY <1>0, <1>2
  <2>2. UserByte(a - 1) /\ checked_page = PageOf(a - 1)
    BY <1>0, <1>2, <2>1, Zenon DEF CopyInv
  <2>3. a < VA /\ ~(a < u)
    BY <1>0, <2>1, <2>2, CopyAssumption DEF UserByte
  <2>4. PageOf(a - 1) < USER_MAX /\ PageOf(a - 1) \in mapped
    BY <2>1, <2>2, UserRange, Zenon DEF UserByte
  <2>5. PageOf(a) >= USER_MAX <=> ~(a < USER_MAX)
    BY <1>0, UserRange, Zenon
  <2>6. PageOf(a) = checked_page => UserByte(a)
    BY <1>0, <2>2, <2>4, UserRange, Zenon DEF UserByte
  <2>. QED  BY <1>0, <2>3, <2>5, <2>6, NoWrap, Zenon DEF Refused, UserByte
<1>. QED  BY <1>1, <1>2, Zenon

\* The string: each step of the loop, and what is settled when it ends.
LEMMA StringStep == ASSUME CopyInv, strncpy_from_user PROVE CopyInv'
<1>. DEFINE u == req.uaddr
            n == req.len
            a == req.uaddr + i
<1>0. /\ u \in Nat /\ u < VA /\ n \in Nat /\ i \in Nat /\ UNCHANGED <<mapped, nul, req>>
      /\ result = "pending" /\ req.fn = "strncpy"
  BY CopyAssumption DEF CopyInv, strncpy_from_user, Finish
<1>00. Needed' = Needed /\ \A b : UserByte(b)' <=> UserByte(b)
  BY <1>0, Zenon DEF Needed, UserByte
<1>1. CASE ~req.from_user
  <2>1. i' \in Nat
    BY <1>0 DEF strncpy_from_user, Finish
  <2>. QED  BY <1>0, <1>1, <2>1, Zenon DEF CopyInv, CopySound
<1>2. CASE req.from_user
  <2>0. /\ \A k \in 0 .. i - 1 : UserByte(u + k) /\ u + k # nul /\ k + 1 < n
        /\ \A b \in touched : UserByte(b)
    BY <1>0, <1>2, Zenon DEF CopyInv
  <2>1. a % VA = a /\ a \in Nat /\ (Refused(a) <=> ~UserByte(a))
    BY <1>0, <1>2, ByteExact, Zenon
  <2>2. \A k \in 0 .. i - 1 : (u + k) % VA = u + k
    BY <1>0, <2>0, NoWrap, CopyAssumption DEF UserByte
  <2>3. Needed = {(u + k) % VA : k \in {k \in 0 .. n :
                    k + 1 < n /\ \A j \in 0 .. n : j < k => (u + j) % VA # nul}}
    BY <1>0, Zenon DEF Needed
  <2>4. CASE u = 0 \/ n = 0
    <3>1. result' = "refused" /\ UNCHANGED <<i, checked_page, touched>>
      BY <1>0, <2>4, Zenon DEF strncpy_from_user, Finish
    <3>2. CopySound'
      BY <1>0, <1>00, <2>0, <2>4, <3>1 DEF CopySound
    <3>. QED  BY <1>0, <1>00, <2>0, <3>1, <3>2, Zenon DEF CopyInv
  <2>5. CASE u # 0 /\ n # 0 /\ i >= n - 1
    <3>1. result' = "ok" /\ UNCHANGED <<i, checked_page, touched>>
      BY <1>0, <2>5, Zenon DEF strncpy_from_user, Finish
    <3>2. ASSUME NEW b \in Needed PROVE UserByte(b)
      <4>1. PICK k \in 0 .. n : k + 1 < n /\ b = (u + k) % VA
        BY <2>3, Zenon
      <4>2. k \in 0 .. i - 1
        BY <1>0, <2>5, <4>1
      <4>. QED  BY <2>0, <2>2, <4>1, <4>2, Zenon
    <3>3. CopySound'
      BY <1>0, <1>00, <2>0, <2>5, <3>1, <3>2 DEF CopySound
    <3>. QED  BY <1>0, <1>00, <2>0, <3>1, <3>3, Zenon DEF CopyInv
  <2>6. CASE u # 0 /\ n # 0 /\ ~(i >= n - 1) /\ Refused(a)
    <3>1. result' = "refused" /\ UNCHANGED <<i, checked_page, touched>>
      BY <1>0, <2>1, <2>6, Zenon DEF strncpy_from_user, Finish
    <3>2. a \in Needed
      <4>1. i \in 0 .. n /\ i + 1 < n
        BY <1>0, <2>6
      <4>2. \A j \in 0 .. n : j < i => (u + j) % VA # nul
        BY <1>0, <2>0, <2>2
      <4>. QED  BY <2>1, <2>3, <4>1, <4>2, Zenon
    <3>3. CopySound'
      BY <1>0, <1>00, <2>0, <2>1, <2>6, <3>1, <3>2, Zenon DEF CopySound
    <3>. QED  BY <1>0, <1>00, <2>0, <3>1, <3>3, Zenon DEF CopyInv
  <2>7. CASE u # 0 /\ n # 0 /\ ~(i >= n - 1) /\ ~Refused(a) /\ a = nul
    <3>1. result' = "ok" /\ UNCHANGED <<i, checked_page>> /\ touched' = touched \cup {a}
      BY <1>0, <2>1, <2>7, Zenon DEF strncpy_from_user, Finish
    <3>2. ASSUME NEW b \in Needed PROVE UserByte(b)
      <4>1. PICK k \in 0 .. n : /\ k + 1 < n /\ b = (u + k) % VA
                                /\ \A j \in 0 .. n : j < k => (u + j) % VA # nul
        BY <2>3, Zenon
      <4>2. k <= i
        BY <1>0, <2>1, <2>7, <4>1
      <4>3. CASE k = i
        BY <2>1, <2>7, <4>1, <4>3, Zenon
      <4>4. CASE k < i
        <5>1. k \in 0 .. i - 1
          BY <1>0, <4>4
        <5>. QED  BY <2>0, <2>2, <4>1, <5>1, Zenon
      <4>. QED  BY <1>0, <4>2, <4>3, <4>4
    <3>3. CopySound'
      BY <1>0, <1>00, <2>0, <2>1, <2>7, <3>1, <3>2 DEF CopySound
    <3>. QED  BY <1>0, <1>00, <2>0, <2>1, <2>7, <3>1, <3>3, Zenon DEF CopyInv
  <2>8. CASE u # 0 /\ n # 0 /\ ~(i >= n - 1) /\ ~Refused(a) /\ a # nul
    <3>1. /\ i' = i + 1 /\ checked_page' = PageOf(a) /\ touched' = touched \cup {a}
          /\ result' = "pending"
      BY <1>0, <2>1, <2>8, Zenon DEF strncpy_from_user
    <3>2. ASSUME NEW k \in 0 .. i' - 1 PROVE UserByte(u + k) /\ u + k # nul /\ k + 1 < n
      <4>1. CASE k = i
        BY <1>0, <2>1, <2>8, <4>1
      <4>2. CASE k # i
        <5>1. k \in 0 .. i - 1
          BY <1>0, <3>1, <4>2
        <5>. QED  BY <2>0, <5>1, Zenon
      <4>. QED  BY <4>1, <4>2, Zenon
    <3>3. i' \in Nat /\ i' # 0 /\ u + i' - 1 = a
      BY <1>0, <3>1
    <3>4. \A b \in touched' : UserByte(b)
      BY <2>0, <2>1, <2>8, <3>1, Zenon
    <3>5. checked_page' = PageOf(u + i' - 1)
      BY <3>1, <3>3, Zenon
    <3>. QED  BY <1>0, <1>00, <3>1, <3>2, <3>3, <3>4, <3>5, Zenon DEF CopyInv, PageOf
  <2>. QED  BY <2>4, <2>5, <2>6, <2>7, <2>8, Zenon
<1>. QED  BY <1>1, <1>2, Zenon

\* For every address space, page size, pointer and length: a call from ring 3 touches only
\* its caller's mapped user bytes and is refused exactly when it needs another.
THEOREM CopyGuards == CopySpec => []CopySound
<1>1. CopyInit => CopyInv
  <2>. SUFFICES ASSUME CopyInit PROVE CopyInv
    BY Zenon
  <2>1. /\ nul \in 0 .. VA - 1
        /\ req \in [fn : {"copy", "strncpy"}, from_user : BOOLEAN, uaddr : 0 .. VA - 1, len : Nat]
    BY CopyAssumption, Zenon DEF CopyInit
  <2>2. /\ i = 0 /\ checked_page = 1 /\ touched = {} /\ result = "pending"
        /\ \A k \in 0 .. i - 1 : FALSE
    BY DEF CopyInit
  <2>. QED  BY <2>1, <2>2, Zenon DEF CopyInv
<1>2. CopyInv /\ [CopyNext]_copyVars => CopyInv'
  <2>. SUFFICES ASSUME CopyInv, [CopyNext]_copyVars PROVE CopyInv'
    BY Zenon
  <2>1. CASE UNCHANGED copyVars
    BY <2>1, Zenon DEF copyVars, CopyInv, CopySound, UserByte, Needed, PageOf
  <2>. QED  BY <2>1, CopyStep, StringStep, Zenon DEF CopyNext
<1>3. CopyInv => CopySound
  BY Zenon DEF CopyInv, CopySound
<1>. QED  BY <1>1, <1>2, <1>3, PTL DEF CopySpec

-----------------------------------------------------------------------------
(* Clock: drivers/timer.c and kernel/timer_callbacks.c *)

\* What the clock has gained since the rate was set, times the rate, and the remainder
\* make up the milliseconds of the ticks since then, times the rate: nothing is lost.
Exact ==
  /\ timer_ms \in Nat /\ timer_ticks \in Nat /\ since \in [ms : Nat, tick : Nat]
  /\ since.tick <= timer_ticks /\ since.ms <= timer_ms
  /\ timer_current_hz \in Rates
  /\ timer_ms_remainder \in Nat /\ timer_ms_remainder < timer_current_hz
  /\ (timer_ms - since.ms) * timer_current_hz + timer_ms_remainder =
       Second * (timer_ticks - since.tick)

Sampled ==
  /\ cpu_total_ticks \in Nat /\ cpu_idle_ticks \in Nat /\ cpu_idle_ticks <= cpu_total_ticks
  /\ current_cpu_usage \in 0 .. 100 /\ yielded \in BOOLEAN

\* A deadline is met at the tick that reaches it: it was met now, or is still ahead,
\* and never further ahead than its period after the last time.
Timely ==
  /\ timer_callbacks = timer_callbacks_init
  /\ nextAt \in [DOMAIN Period -> Nat] /\ ranAt \in [DOMAIN Period -> Nat]
  /\ \A d \in DOMAIN Period :
       /\ nextAt[d] <= ranAt[d] + Period[d]
       /\ timer_ms = ranAt[d] \/ timer_ms < nextAt[d]

Asleep ==
  /\ sleeper \subseteq [target : Nat, at : {"check", "halt"}]
  /\ \A z \in sleeper : z.at = "halt" => timer_ticks < z.target

ClockInv == Exact /\ Sampled /\ Timely /\ Asleep

\* The whole part of a quotient whose dividend is given with its remainder.
LEMMA Quotient ==
  ASSUME NEW a \in Nat, NEW h \in Nat \ {0}, NEW r \in Nat, r < h
  PROVE  (a * h + r) \div h = a
<1>. DEFINE x == a * h + r
            q == x \div h
            m == x % h
<1>1. x \in Nat /\ q \in Int /\ m \in Int /\ x = h * q + m /\ 0 <= m /\ m < h
  BY SMTT(30)
<1>2. q \in Int /\ m \in Int /\ a * h + r = h * q + m /\ 0 <= m /\ m < h  BY <1>1, Zenon
<1>. HIDE DEF x, q, m
<1>3. ~(q >= a + 1)
  <2>. SUFFICES ASSUME q >= a + 1 PROVE FALSE  BY Zenon
  <2>1. PICK k \in Nat : q = a + 1 + k  BY <1>2
  <2>2. h * q = a * h + h + h * k  BY <2>1, SMTT(30)
  <2>3. h * k >= 0  BY SMTT(30)
  <2>4. h * k \in Int /\ a * h \in Int  OBVIOUS
  <2>. QED  BY <1>2, <2>2, <2>3, <2>4
<1>4. ~(q <= a - 1)
  <2>. SUFFICES ASSUME q <= a - 1 PROVE FALSE  BY Zenon
  <2>1. PICK k \in Nat : q = a - 1 - k  BY <1>2
  <2>2. h * q = a * h - h - h * k  BY <2>1, SMTT(30)
  <2>3. h * k >= 0  BY SMTT(30)
  <2>4. h * k \in Int /\ a * h \in Int  OBVIOUS
  <2>. QED  BY <1>2, <2>2, <2>3, <2>4
<1>5. q = a  BY <1>2, <1>3, <1>4
<1>. QED  BY <1>5, Zenon DEF q, x

\* timer_accumulate_ms: the fraction of a millisecond that a tick adds is carried.
LEMMA Carried ==
  ASSUME NEW g \in Nat, NEW h \in Nat \ {0}, NEW r \in Nat, r < h, NEW S \in Nat, NEW t \in Nat,
         g * h + r = S * t, NEW c \in {0, 1}, c = 1 <=> r + (S % h) >= h
  PROVE  /\ r + (S % h) - c * h \in Nat /\ r + (S % h) - c * h < h
         /\ (g + (S \div h) + c) * h + (r + (S % h) - c * h) = S * (t + 1)
         /\ S \div h \in Nat
<1>. DEFINE q == S \div h
            m == S % h
<1>1. q \in Nat /\ m \in Nat /\ m < h /\ S = h * q + m  BY SMTT(30)
<1>. HIDE DEF q, m
<1>2. S * (t + 1) = S * t + S  BY SMTT(30)
<1>3. (g + q + c) * h = g * h + h * q + c * h  BY <1>1, SMTT(30)
<1>4. c * h = IF c = 1 THEN h ELSE 0  OBVIOUS
<1>5. g * h \in Int /\ h * q \in Int /\ S * t \in Int  BY <1>1
<1>6. r + m - c * h \in Nat /\ r + m - c * h < h
  <2>1. c = 1 <=> r + m >= h  BY Zenon DEF m
  <2>2. CASE c = 0  BY <1>1, <2>1, <2>2
  <2>3. CASE c = 1  BY <1>1, <2>1, <2>3
  <2>. QED  BY <2>2, <2>3, Zenon
<1>7. (g + q + c) * h + (r + m - c * h) = S * (t + 1)
  <2>. DEFINE u == g * h
              v == h * q
              w == c * h
              y == S * t
              z == (g + q + c) * h
              n == S * (t + 1)
  <2>1. u \in Int /\ v \in Int /\ w \in Int /\ y \in Int /\ u + r = y /\ S = v + m /\ n = y + S /\ z = u + v + w
    BY <1>1, <1>2, <1>3, <1>5
  <2>. HIDE DEF u, v, w, y, z, n
  <2>2. z + (r + m - w) = n  BY <1>1, <2>1
  <2>. QED  BY <2>2, Zenon DEF w, z, n
<1>. QED  BY <1>1, <1>6, <1>7, Zenon DEF q, m

\* r is s and one more.
Longer(s, cb, r, T) ==
  /\ r \in Seq(T) /\ Len(r) = Len(s) + 1 /\ r[Len(s) + 1] = cb
  /\ \A k \in 1 .. Len(s) : r[k] = s[k]

\* timer_register takes the next slot while there is one.
LEMMA Registered ==
  ASSUME NEW T, NEW s \in Seq(T), NEW cb \in T, Len(s) < 4
  PROVE  Longer(s, cb, timer_register(s, cb), T)
<1>. DEFINE r == timer_register(s, cb)
<1>1. TIMER_MAX_CALLBACKS \in Nat /\ TIMER_MAX_CALLBACKS >= 4  BY ClockAssumption, Zenon
<1>2. Len(s) \in Nat  OBVIOUS
<1>3. r = Append(s, cb)
  <2>1. Len(s) < TIMER_MAX_CALLBACKS  BY <1>1, <1>2
  <2>. QED  BY <2>1, Zenon DEF timer_register
<1>4. Append(s, cb) \in Seq(T)  OBVIOUS
<1>5. Len(Append(s, cb)) = Len(s) + 1  OBVIOUS
<1>6. Append(s, cb)[Len(s) + 1] = cb  OBVIOUS
<1>7. \A k \in 1 .. Len(s) : Append(s, cb)[k] = s[k]  OBVIOUS
<1>. QED  BY <1>3, <1>4, <1>5, <1>6, <1>7, Zenon DEF Longer

\* timer_callbacks_init finds a slot for each of its four, so a tick looks at every deadline.
LEMMA AllCalled == ASSUME timer_callbacks = timer_callbacks_init PROVE Called = DOMAIN Period
<1>. DEFINE Names == {"cb_visual", "cb_cursor", "cb_flush", "cb_network"}
            a == timer_register(<<>>, "cb_visual")
            b == timer_register(a, "cb_cursor")
            c == timer_register(b, "cb_flush")
            e == timer_register(c, "cb_network")
<1>0. timer_callbacks = e  BY Zenon DEF timer_callbacks_init
<1>n. "cb_visual" \in Names /\ "cb_cursor" \in Names /\ "cb_flush" \in Names /\ "cb_network" \in Names
  BY Zenon
<1>. HIDE DEF Names
<1>1. a \in Seq(Names) /\ Len(a) = 1 /\ a[1] = "cb_visual"
  <2>1. <<>> \in Seq(Names) /\ Len(<<>>) = 0  OBVIOUS
  <2>2. Longer(<<>>, "cb_visual", a, Names)
    <3>1. Len(<<>>) < 4  BY <2>1
    <3>. QED  BY <1>n, <2>1, <3>1, Registered, Zenon
  <2>. QED  BY <2>1, <2>2 DEF Longer
<1>. HIDE DEF a
<1>2. b \in Seq(Names) /\ Len(b) = 2 /\ b[1] = "cb_visual" /\ b[2] = "cb_cursor"
  <2>1. Longer(a, "cb_cursor", b, Names)
    <3>1. Len(a) < 4  BY <1>1
    <3>. QED  BY <1>n, <1>1, <3>1, Registered, Zenon
  <2>. QED  BY <1>1, <2>1 DEF Longer
<1>. HIDE DEF b
<1>3. c \in Seq(Names) /\ Len(c) = 3 /\ c[1] = "cb_visual" /\ c[2] = "cb_cursor" /\ c[3] = "cb_flush"
  <2>1. Longer(b, "cb_flush", c, Names)
    <3>1. Len(b) < 4  BY <1>2
    <3>. QED  BY <1>n, <1>2, <3>1, Registered, Zenon
  <2>. QED  BY <1>2, <2>1 DEF Longer
<1>. HIDE DEF c
<1>4. /\ e \in Seq(Names) /\ Len(e) = 4 /\ e[1] = "cb_visual" /\ e[2] = "cb_cursor"
      /\ e[3] = "cb_flush" /\ e[4] = "cb_network"
  <2>1. Longer(c, "cb_network", e, Names)
    <3>1. Len(c) < 4  BY <1>3
    <3>. QED  BY <1>n, <1>3, <3>1, Registered, Zenon
  <2>. QED  BY <1>3, <2>1 DEF Longer
<1>. HIDE DEF e
<1>5. DOMAIN timer_callbacks = 1 .. 4  BY <1>0, <1>4
<1>6. \A d : d \in Called <=> d \in {"schedule", "spinner", "uptime", "cursor", "lwip"}
  BY <1>0, <1>4, <1>5 DEF Called, Keeps
<1>. QED  BY <1>6, Zenon DEF Period

LEMMA Periods == \A d \in DOMAIN Period : Period[d] \in Nat
BY ClockAssumption DEF Period

LEMMA TickExact == ASSUME ClockInv, timer_handler PROVE Exact' /\ timer_ms <= timer_ms'
<1>. DEFINE g == timer_ms - since.ms
            t == timer_ticks - since.tick
            c == IF Carry THEN 1 ELSE 0
<1>1. /\ g \in Nat /\ t \in Nat /\ timer_current_hz \in Nat \ {0} /\ Second \in Nat
      /\ c \in {0, 1} /\ timer_ms_remainder \in Nat /\ timer_ms_remainder < timer_current_hz
      /\ g * timer_current_hz + timer_ms_remainder = Second * t
  BY ClockAssumption DEF ClockInv, Exact
<1>2. c = 1 <=> timer_ms_remainder + (Second % timer_current_hz) >= timer_current_hz  BY DEF Carry
<1>3. /\ timer_ms' = timer_ms + ((Second \div timer_current_hz) + c) /\ timer_ticks' = timer_ticks + 1
      /\ since' = since /\ timer_current_hz' = timer_current_hz
  BY Zenon DEF timer_handler, timer_accumulate_ms, Advance
<1>4. timer_ms_remainder' =
        timer_ms_remainder + (Second % timer_current_hz) - (IF Carry THEN timer_current_hz ELSE 0)
  BY Zenon DEF timer_handler, timer_accumulate_ms
<1>5. c * timer_current_hz = IF Carry THEN timer_current_hz ELSE 0  BY <1>1
<1>. HIDE DEF g, t, c
<1>6. /\ timer_ms_remainder' \in Nat /\ timer_ms_remainder' < timer_current_hz
      /\ (g + (Second \div timer_current_hz) + c) * timer_current_hz + timer_ms_remainder' = Second * (t + 1)
      /\ Second \div timer_current_hz \in Nat
  BY <1>1, <1>2, <1>4, <1>5, Carried
<1>7. /\ timer_ms' - since'.ms = g + (Second \div timer_current_hz) + c
      /\ timer_ticks' - since'.tick = t + 1
      /\ timer_ms' \in Nat /\ timer_ms <= timer_ms' /\ since.ms <= timer_ms'
      /\ timer_ticks' \in Nat /\ since.tick <= timer_ticks'
  <2>1. /\ timer_ms \in Nat /\ timer_ticks \in Nat /\ since.ms \in Nat /\ since.tick \in Nat
        /\ since.tick <= timer_ticks /\ since.ms <= timer_ms
    BY Zenon DEF ClockInv, Exact
  <2>2. g = timer_ms - since.ms /\ t = timer_ticks - since.tick  BY Zenon DEF g, t
  <2>. DEFINE q == Second \div timer_current_hz
  <2>3. q \in Nat /\ timer_ms' = timer_ms + (q + c)  BY <1>3, <1>6, Zenon
  <2>. HIDE DEF q
  <2>4. /\ timer_ms' - since.ms = g + q + c /\ timer_ms' \in Nat /\ timer_ms <= timer_ms'
        /\ since.ms <= timer_ms'
    <3>1. g \in Nat /\ c \in Nat  BY <1>1
    <3>. QED  BY <2>1, <2>2, <2>3, <3>1
  <2>. QED  BY <1>1, <1>3, <2>1, <2>2, <2>4 DEF q
<1>. QED  BY <1>3, <1>6, <1>7, Zenon DEF Exact, ClockInv

\* The share of idle ticks, in per cent of the ticks, is at most a hundred.
LEMMA Share ==
  ASSUME NEW j \in Nat, NEW n \in Nat \ {0}, j <= n PROVE 100 - ((j * 100) \div n) \in 0 .. 100
<1>. DEFINE q == (j * 100) \div n
<1>1. q \in Nat /\ n * q <= j * 100  BY SMTT(30)
<1>. HIDE DEF q
<1>2. ~(q > 100)
  <2>. SUFFICES ASSUME q > 100 PROVE FALSE  BY Zenon
  <2>1. PICK k \in Nat : q = 101 + k  BY <1>1
  <2>2. n * q = n * 101 + n * k  BY <2>1, SMTT(30)
  <2>3. n * k >= 0 /\ n * k \in Int  BY SMTT(30)
  <2>. QED  BY <1>1, <2>2, <2>3
<1>3. 100 - q \in 0 .. 100  BY <1>1, <1>2
<1>. QED  BY <1>3, Zenon DEF q

LEMMA TickSampled == ASSUME ClockInv, timer_handler PROVE Sampled'
<1>. DEFINE total == cpu_total_ticks + 1
            idle == cpu_idle_ticks + (IF yielded THEN 1 ELSE 0)
            full == total >= timer_current_hz
<1>1. /\ cpu_total_ticks' = (IF full THEN 0 ELSE total) /\ cpu_idle_ticks' = (IF full THEN 0 ELSE idle)
      /\ current_cpu_usage' = (IF full THEN 100 - ((idle * 100) \div total) ELSE current_cpu_usage)
      /\ yielded' = FALSE
  BY Zenon DEF timer_handler, CpuUsage
<1>2. total \in Nat \ {0} /\ idle \in Nat /\ idle <= total /\ current_cpu_usage \in 0 .. 100
  BY DEF ClockInv, Sampled
<1>3. 100 - ((idle * 100) \div total) \in 0 .. 100  BY <1>2, Share, Zenon
<1>. HIDE DEF total, idle, full
<1>4. yielded' \in BOOLEAN  BY <1>1, Zenon
<1>. QED  BY <1>1, <1>2, <1>3, <1>4 DEF Sampled

LEMMA TickTimely == ASSUME ClockInv, timer_handler PROVE Timely'
<1>0. timer_ms' \in Nat /\ timer_ms <= timer_ms'  BY TickExact, Zenon DEF Exact
<1>1. timer_callbacks' = timer_callbacks_init  BY Zenon DEF timer_handler, ClockInv, Timely
<1>2. Called = DOMAIN Period  BY AllCalled, Zenon DEF ClockInv, Timely
<1>3. DOMAIN nextAt = DOMAIN Period /\ DOMAIN ranAt = DOMAIN Period  BY Zenon DEF ClockInv, Timely
<1>4. /\ nextAt' = [d \in DOMAIN Period |-> IF timer_ms' >= nextAt[d] THEN timer_ms' + Period[d] ELSE nextAt[d]]
      /\ ranAt' = [d \in DOMAIN Period |-> IF timer_ms' >= nextAt[d] THEN timer_ms' ELSE ranAt[d]]
  BY <1>2, <1>3, Zenon DEF timer_handler, Served, Due
<1>5. ASSUME NEW d \in DOMAIN Period
      PROVE  /\ nextAt'[d] \in Nat /\ ranAt'[d] \in Nat
             /\ nextAt'[d] <= ranAt'[d] + Period[d]
             /\ timer_ms' = ranAt'[d] \/ timer_ms' < nextAt'[d]
  <2>1. /\ Period[d] \in Nat /\ nextAt[d] \in Nat /\ ranAt[d] \in Nat
        /\ nextAt[d] <= ranAt[d] + Period[d]
    BY Periods, Zenon DEF ClockInv, Timely
  <2>2. CASE timer_ms' >= nextAt[d]
    BY <1>0, <1>4, <2>1, <2>2
  <2>3. CASE ~(timer_ms' >= nextAt[d])
    BY <1>0, <1>4, <2>1, <2>3
  <2>. QED  BY <2>2, <2>3, Zenon
<1>6. nextAt' \in [DOMAIN Period -> Nat] /\ ranAt' \in [DOMAIN Period -> Nat]
  BY <1>4, <1>5, Zenon
<1>. QED  BY <1>1, <1>5, <1>6, Zenon DEF Timely, Period

LEMMA TickAsleep == ASSUME ClockInv, timer_handler PROVE Asleep'
<1>1. \A z \in sleeper' : z \in [target : Nat, at : {"check"}]
  BY Zenon DEF timer_handler, Woken, ClockInv, Asleep
<1>. QED  BY <1>1, Zenon DEF Asleep

\* Every step of the timer keeps the invariant.
LEMMA ClockStep == ClockInv /\ [ClockNext]_clockVars => ClockInv'
<1>. SUFFICES ASSUME ClockInv, [ClockNext]_clockVars PROVE ClockInv'  BY Zenon
<1>1. CASE timer_handler
  BY <1>1, TickExact, TickSampled, TickTimely, TickAsleep, Zenon DEF ClockInv
<1>2. CASE UNCHANGED clockVars
  BY <1>2, Zenon DEF clockVars, ClockInv, Exact, Sampled, Timely, Asleep
<1>3. CASE Yield
  BY <1>3, Zenon DEF Yield, deadlines, ClockInv, Exact, Sampled, Timely, Asleep
<1>4. ASSUME NEW hz \in Rates, timer_set_refresh_rate(hz) PROVE ClockInv'
  <2>1. Exact'
    <3>1. /\ timer_ms' = timer_ms /\ timer_ticks' = timer_ticks /\ timer_current_hz' = hz
          /\ timer_ms_remainder' = 0 /\ since' = [ms |-> timer_ms, tick |-> timer_ticks]
      BY <1>4, Zenon DEF timer_set_refresh_rate
    <3>2. hz \in Nat \ {0} /\ Second \in Nat /\ timer_ms \in Nat /\ timer_ticks \in Nat
      BY ClockAssumption, Zenon DEF ClockInv, Exact
    <3>3. (timer_ms - timer_ms) * hz + 0 = Second * (timer_ticks - timer_ticks)  BY <3>2, SMTT(30)
    <3>. QED  BY <3>1, <3>2, <3>3 DEF Exact
  <2>2. Sampled'
    <3>1. yielded' \in BOOLEAN  BY <1>4, Zenon DEF timer_set_refresh_rate
    <3>. QED  BY <1>4, <3>1 DEF timer_set_refresh_rate, ClockInv, Sampled
  <2>. QED  BY <1>4, <2>1, <2>2, Zenon DEF timer_set_refresh_rate, deadlines, ClockInv, Timely, Asleep
<1>5. ASSUME UNCHANGED others, Asleep' PROVE ClockInv'
  BY <1>5, Zenon DEF others, deadlines, ClockInv, Exact, Sampled, Timely
<1>6. ASSUME NEW n \in Sleeps, timer_sleep_ticks(n) PROVE ClockInv'
  <2>1. timer_ticks + n \in Nat  BY ClockAssumption DEF ClockInv, Exact
  <2>. QED  BY <1>5, <1>6, <2>1 DEF timer_sleep_ticks, Asleep
<1>7. ASSUME NEW z \in sleeper, SleepEnds(z) \/ SleepHalts(z) PROVE ClockInv'
  <2>1. CASE SleepEnds(z)  BY <1>5, <2>1, Zenon DEF SleepEnds, Asleep
  <2>2. CASE SleepHalts(z)
    <3>1. z \in [target : Nat, at : {"check", "halt"}]  BY Zenon DEF ClockInv, Asleep
    <3>2. sleeper' = {[z EXCEPT !.at = "halt"]} /\ timer_ticks' = timer_ticks
      BY <2>2, Zenon DEF SleepHalts, SleepHalt, others
    <3>3. timer_ticks < z.target
      BY <2>2, Zenon DEF SleepHalts, ClockInv, Asleep
    <3>. QED  BY <1>5, <2>2, <3>1, <3>2, <3>3, Zenon DEF SleepHalts, Asleep
  <2>. QED  BY <1>7, <2>1, <2>2, Zenon
<1>. QED  BY <1>1, <1>2, <1>3, <1>4, <1>6, <1>7, Zenon DEF ClockNext

\* The timer's tick, its subscribers and timer_sleep_ticks keep time at every rate:
\* no drift of timer_ms, no callback later than its period and a tick, the usage a
\* percentage, and no task halted past the tick it asked to sleep to.
THEOREM ClockKeepsTime == ClockSpec => []ClockExact
<1>1. ClockInit => ClockInv
  <2>. SUFFICES ASSUME ClockInit PROVE ClockInv  BY Zenon
  <2>1. Exact  BY ClockAssumption, SMTT(30) DEF ClockInit, Exact
  <2>2. Sampled
    <3>1. yielded \in BOOLEAN  BY Zenon DEF ClockInit
    <3>. QED  BY <3>1 DEF ClockInit, Sampled
  <2>3. Timely  BY Periods DEF ClockInit, Timely
  <2>4. Asleep  BY Zenon DEF ClockInit, Asleep
  <2>. QED  BY <2>1, <2>2, <2>3, <2>4, Zenon DEF ClockInv
<1>2. ClockInv => ClockExact
  <2>. SUFFICES ASSUME ClockInv PROVE ClockExact  BY Zenon
  <2>1. timer_ms - since.ms = (Second * (timer_ticks - since.tick)) \div timer_current_hz
    <3>1. /\ timer_ms - since.ms \in Nat /\ timer_current_hz \in Nat \ {0} /\ timer_ms_remainder \in Nat
          /\ timer_ms_remainder < timer_current_hz
      BY ClockAssumption DEF ClockInv, Exact
    <3>2. ((timer_ms - since.ms) * timer_current_hz + timer_ms_remainder) \div timer_current_hz
            = timer_ms - since.ms
      BY <3>1, Quotient, Zenon
    <3>. QED  BY <3>2, Zenon DEF ClockInv, Exact
  <2>2. ASSUME NEW d \in DOMAIN Period
        PROVE  \E hz \in Rates : timer_ms - ranAt[d] < Period[d] + (Second \div hz) + 1
    <3>1. /\ timer_current_hz \in Rates /\ timer_current_hz \in Nat \ {0} /\ Second \in Nat /\ timer_ms \in Nat
          /\ Period[d] \in Nat /\ nextAt[d] \in Nat /\ ranAt[d] \in Nat
          /\ nextAt[d] <= ranAt[d] + Period[d] /\ (timer_ms = ranAt[d] \/ timer_ms < nextAt[d])
      BY ClockAssumption, Periods, Zenon DEF ClockInv, Exact, Timely
    <3>2. Second \div timer_current_hz \in Nat  BY <3>1
    <3>3. timer_ms - ranAt[d] < Period[d] + (Second \div timer_current_hz) + 1  BY <3>1, <3>2
    <3>. QED  BY <3>1, <3>3, Zenon
  <2>. QED  BY <2>1, <2>2, Zenon DEF ClockExact, ClockInv, Sampled, Asleep
<1>. QED  BY <1>1, <1>2, ClockStep, PTL DEF ClockSpec

=============================================================================
