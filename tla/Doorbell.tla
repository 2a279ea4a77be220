------------------------------ MODULE Doorbell ------------------------------
(***************************************************************************)
(* The interrupts by which a processor learns that it has work: the timer  *)
(* and reschedule handlers of arch/x86/lapic.c, the flags and counters of  *)
(* kernel/smp/smp.c, the first steps of schedule_on_cpu                    *)
(* (kernel/sched/core.c) and the callers that put a task on a queue and    *)
(* ring (kernel/sched/block.c, lifecycle.c).                               *)
(*                                                                         *)
(* A local APIC keeps one request per vector, so that two reschedule       *)
(* interrupts that were not served yet are one; a timer interrupt may come *)
(* whenever a processor takes one.  A handler runs with interrupts off.    *)
(* A caller lets the scheduler's lock go before it rings, and anything may *)
(* happen between its three steps.                                         *)
(***************************************************************************)
EXTENDS Integers, Sequences

CONSTANTS
  DCPUS,           \* slots; 0 is the boot processor
  WAKERS           \* callers that may be putting a task on a queue at once

ASSUME DoorAssumption == 0 \in DCPUS

VARIABLES
  dOnline,         \* processors that are online
  reschedule_pending,
  irr,             \* processors whose APIC holds a reschedule request
  dAt,             \* per processor: "run", or the steps of schedule_on_cpu still to do
  waker,           \* per caller: {} or the processor it rings for and its next step
  fresh            \* history: processors another one queued a task for since they last looked

doorVars == <<dOnline, reschedule_pending, irr, dAt, waker, fresh>>

\* schedule_on_cpu clears the flag before it takes the lock and looks at the queues.
MutStepsOf == <<"look", "clear">>
StepsOf == <<"clear", "look">>

DoorInit ==
  /\ dOnline = {0}
  /\ reschedule_pending = [c \in DCPUS |-> FALSE]
  /\ irr = {}
  /\ dAt = [c \in DCPUS |-> 0]
  /\ waker = [w \in WAKERS |-> {}]
  /\ fresh = {}

\* smp_set_cpu_online
ComesOnline(c) ==
  /\ c \notin dOnline
  /\ dOnline' = dOnline \cup {c}
  /\ UNCHANGED <<reschedule_pending, irr, dAt, waker, fresh>>

-----------------------------------------------------------------------------
(* unblock_task, task_create and its like: queue, mark, ring *)

\* The caller runs on another processor than the one it queues the task for; where they
\* are the same it does not ring, and its own next tick finds the task.
Queue(w, c) ==
  /\ waker[w] = {} /\ c \in dOnline
  /\ fresh' = fresh \cup {c}
  /\ waker' = [waker EXCEPT ![w] = {[cpu |-> c, at |-> "mark"]}]
  /\ UNCHANGED <<dOnline, reschedule_pending, irr, dAt>>

smp_mark_reschedule(w) ==
  \E k \in waker[w] :
    /\ k.at = "mark"
    /\ reschedule_pending' = [reschedule_pending EXCEPT ![k.cpu] = TRUE]
    /\ waker' = [waker EXCEPT ![w] = {[k EXCEPT !.at = "ring"]}]
    /\ UNCHANGED <<dOnline, irr, dAt, fresh>>

\* The wait for an earlier IPI of the sender is left out: the APIC takes it at once.
lapic_send_reschedule(w) ==
  \E k \in waker[w] :
    /\ k.at = "ring"
    /\ irr' = irr \cup ({k.cpu} \cap dOnline)
    /\ waker' = [waker EXCEPT ![w] = {}]
    /\ UNCHANGED <<dOnline, reschedule_pending, dAt, fresh>>

-----------------------------------------------------------------------------
(* The interrupts of a processor *)

Interruptible(c) == c \in dOnline /\ dAt[c] = 0
Answer(c, schedules) == dAt' = [dAt EXCEPT ![c] = IF schedules THEN 1 ELSE 0]

\* The boot processor schedules on the tick of the PIT instead.
lapic_timer_handler(c) ==
  /\ Interruptible(c)
  /\ Answer(c, c # 0)
  /\ UNCHANGED <<dOnline, reschedule_pending, irr, waker, fresh>>

lapic_reschedule_handler(c) ==
  /\ Interruptible(c) /\ c \in irr
  /\ irr' = irr \ {c}
  /\ Answer(c, reschedule_pending[c])
  /\ UNCHANGED <<dOnline, reschedule_pending, waker, fresh>>

PitQuantum ==
  /\ Interruptible(0)
  /\ Answer(0, TRUE)
  /\ UNCHANGED <<dOnline, reschedule_pending, irr, waker, fresh>>

DoorStep(c, step) ==
  /\ dAt[c] \in DOMAIN StepsOf /\ StepsOf[dAt[c]] = step
  /\ dAt' = [dAt EXCEPT ![c] = IF dAt[c] = Len(StepsOf) THEN 0 ELSE @ + 1]

smp_clear_reschedule(c) ==
  /\ DoorStep(c, "clear")
  /\ reschedule_pending' = [reschedule_pending EXCEPT ![c] = FALSE]
  /\ UNCHANGED <<dOnline, irr, waker, fresh>>

\* Under scheduler_lock: the queue is looked at.
LooksAtQueue(c) ==
  /\ DoorStep(c, "look")
  /\ fresh' = fresh \ {c}
  /\ UNCHANGED <<dOnline, reschedule_pending, irr, waker>>

DoorNext ==
  \/ \E c \in DCPUS :
       \/ ComesOnline(c)
       \/ lapic_timer_handler(c) \/ lapic_reschedule_handler(c)
       \/ smp_clear_reschedule(c) \/ LooksAtQueue(c)
       \/ \E w \in WAKERS : Queue(w, c)
  \/ \E w \in WAKERS : smp_mark_reschedule(w) \/ lapic_send_reschedule(w)
  \/ PitQuantum
DoorSpec == DoorInit /\ [][DoorNext]_doorVars

-----------------------------------------------------------------------------
(* Properties *)

\* Work never waits for a tick unannounced: while a processor has a task it has not
\* looked for, it is about to look, or a request that its handler will not dismiss is
\* on its way, or the caller that queued the task has yet to ring.
DoorbellHeard ==
  \A c \in fresh :
    \/ \E i \in DOMAIN StepsOf : dAt[c] \in 1 .. i /\ StepsOf[i] = "look"
    \/ reschedule_pending[c] /\ c \in irr
    \/ \E w \in WAKERS : \E k \in waker[w] : k.cpu = c

=============================================================================
