------------------------------ MODULE RunQueue ------------------------------
(***************************************************************************)
(* kernel/sched/runqueue.c: which queued task runs next, on which CPU a    *)
(* task that becomes ready is queued, and whom an idle CPU steals from.    *)
(* Sched leaves these choices open and models what surrounds them; here    *)
(* contexts, stacks and task slots are left out.                           *)
(*                                                                         *)
(* Time is counted in timer ticks.  age[t] is now - enqueue_ms of a queued *)
(* task.  Beyond the age of the largest bonus only the order of ages       *)
(* matters, so Tick keeps their order and forgets by how much they differ. *)
(* Definitions whose name starts with Mut are slips of the code, used by   *)
(* no specification.                                                       *)
(***************************************************************************)
EXTENDS Integers, Sequences, FiniteSets, SequencesExt

CONSTANTS
  RUNQ_CPUS,       \* 0 .. online - 1
  RUNQ_TASKS, NOTHING,
  Priority,        \* tasks[t].priority
  AGE_STEP,        \* AGE_STEP_MS in ticks
  AGE_MAX_BONUS

ASSUME RunQueueAssumption ==
  /\ RUNQ_CPUS = 0 .. Cardinality(RUNQ_CPUS) - 1 /\ RUNQ_CPUS # {}
  /\ NOTHING \notin RUNQ_TASKS
  /\ Priority \in [RUNQ_TASKS -> Nat]
  /\ AGE_STEP \in Nat \ {0}
  /\ AGE_MAX_BONUS \in Nat

VARIABLES
  entries,     \* cpu_runqueues[c].entries, its length the count
  current,     \* cpu_current_task
  runq_state,       \* tasks[t].state
  age,
  target,      \* the CPU picked for a task that is about to be pushed, or NoTask
  due          \* CPUs that owe a call of schedule_on_cpu

runqVars == <<entries, current, runq_state, age, target, due>>

MaxAge == AGE_STEP * AGE_MAX_BONUS

\* Every variable keeps its type, and an age is no larger than its order needs.
RunqTypeOK ==
  /\ entries \in [RUNQ_CPUS -> Seq(RUNQ_TASKS)]
  /\ current \in [RUNQ_CPUS -> RUNQ_TASKS \cup {NOTHING}]
  /\ runq_state \in [RUNQ_TASKS -> {"READY", "RUNNING", "BLOCKED"}]
  /\ age \in [RUNQ_TASKS -> 0 .. MaxAge + Cardinality(RUNQ_TASKS)]
  /\ target \in [RUNQ_TASKS -> RUNQ_CPUS \cup {NOTHING}]
  /\ due \subseteq RUNQ_CPUS

RunqInit ==
  /\ entries = [c \in RUNQ_CPUS |-> <<>>]
  /\ current = [c \in RUNQ_CPUS |-> NOTHING]
  /\ runq_state = [t \in RUNQ_TASKS |-> "BLOCKED"]
  /\ age = [t \in RUNQ_TASKS |-> 0]
  /\ target = [t \in RUNQ_TASKS |-> NOTHING]
  /\ due = {}

-----------------------------------------------------------------------------
\* effective_prio
MutEffectivePrio(t) == Priority[t]
EffectivePrio(t) ==
  LET bonus == age[t] \div AGE_STEP
  IN  Priority[t] + IF bonus > AGE_MAX_BONUS THEN AGE_MAX_BONUS ELSE bonus

\* The test in the scan of runq_pop.
MutBetter(t, u) == EffectivePrio(t) >= EffectivePrio(u)
Better(t, u) ==
  \/ EffectivePrio(t) > EffectivePrio(u)
  \/ EffectivePrio(t) = EffectivePrio(u) /\ age[t] > age[u]

\* runq_pop: scan for the best entry, fill its place with the last one.
BestIndex(q) ==
  FoldLeft(LAMBDA best, i : IF Better(q[i], q[best]) THEN i ELSE best,
           1, [i \in 1 .. Len(q) |-> i])
Compacted(q, i) ==
  [k \in 1 .. Len(q) - 1 |-> IF k = i THEN q[Len(q)] ELSE q[k]]

\* pick_target_cpu: the first CPU with nothing at all, else the first with the
\* least load.
QueueLoad(c) == Len(entries[c]) + IF current[c] # NOTHING THEN 1 ELSE 0
PickTargetCpu ==
  CHOOSE c \in RUNQ_CPUS :
    /\ \A d \in RUNQ_CPUS : QueueLoad(c) <= QueueLoad(d)
    /\ \A d \in RUNQ_CPUS : d < c => QueueLoad(d) > QueueLoad(c)

\* steal_task: the first among the longest of the other queues.
Busiest(c) ==
  {d \in RUNQ_CPUS \ {c} :
    /\ entries[d] # <<>>
    /\ \A e \in RUNQ_CPUS \ {c} : /\ Len(entries[e]) <= Len(entries[d])
                             /\ e < d => Len(entries[e]) < Len(entries[d])}
Victims(c) == IF entries[c] # <<>> THEN {c} ELSE Busiest(c)

\* schedule_on_cpu: pop, or steal; then push the outgoing task.
Dispatch(c) ==
  LET cur == current[c]
      out == cur # NOTHING /\ runq_state[cur] = "RUNNING"
  IN
  \/ /\ Victims(c) = {}
     /\ due' = due \ {c}
     /\ UNCHANGED <<entries, current, runq_state, age, target>>
  \/ \E v \in Victims(c) :
       LET i    == BestIndex(entries[v])
           next == entries[v][i]
           left == [entries EXCEPT ![v] = Compacted(@, i)]
       IN
       /\ entries' = IF out THEN [left EXCEPT ![c] = Append(@, cur)] ELSE left
       /\ current' = [current EXCEPT ![c] = next]
       /\ runq_state' = [t \in RUNQ_TASKS |-> IF t = next THEN "RUNNING"
                                    ELSE IF out /\ t = cur THEN "READY" ELSE runq_state[t]]
       /\ age' = [t \in RUNQ_TASKS |-> IF t \in {next, cur} THEN 0 ELSE age[t]]
       /\ due' = due \ {c}
       /\ UNCHANGED target

schedule_on_cpu(c) == c \in due /\ Dispatch(c)

\* block_prepare and the reschedule that block_park asks for.
block_task(c) ==
  /\ current[c] # NOTHING /\ runq_state[current[c]] = "RUNNING"
  /\ runq_state' = [runq_state EXCEPT ![current[c]] = "BLOCKED"]
  /\ due' = due \cup {c}
  /\ UNCHANGED <<entries, current, age, target>>

\* unblock_task: a task still on its CPU goes on there, another one is given a
\* CPU; the choice is made without a lock, and the push is a later step.
unblock_task(t) ==
  /\ runq_state[t] = "BLOCKED"
  /\ IF \E c \in RUNQ_CPUS : current[c] = t
     THEN /\ runq_state' = [runq_state EXCEPT ![t] = "RUNNING"]
          /\ due' = due \cup {c \in RUNQ_CPUS : current[c] = t}
          /\ UNCHANGED target
     ELSE /\ runq_state' = [runq_state EXCEPT ![t] = "READY"]
          /\ target' = [target EXCEPT ![t] = PickTargetCpu]
          /\ UNCHANGED due
  /\ UNCHANGED <<entries, current, age>>

runq_push(t) ==
  /\ target[t] # NOTHING
  /\ entries' = [entries EXCEPT ![target[t]] = Append(@, t)]
  /\ age' = [age EXCEPT ![t] = 0]
  /\ due' = due \cup {target[t]}
  /\ target' = [target EXCEPT ![t] = NOTHING]
  /\ UNCHANGED <<current, runq_state>>

\* The timer interrupt comes to every CPU once it has served the last one.
Older(a) == IF a <= MaxAge THEN a
            ELSE MaxAge + Cardinality({age[u] + 1 : u \in RUNQ_TASKS} \cap MaxAge + 1 .. a)
Tick ==
  /\ due = {}
  /\ age' = [t \in RUNQ_TASKS |->
              IF \E c \in RUNQ_CPUS : t \in ToSet(entries[c]) THEN Older(age[t] + 1) ELSE 0]
  /\ due' = RUNQ_CPUS
  /\ UNCHANGED <<entries, current, runq_state, target>>

RunqNext ==
  \/ Tick
  \/ \E c \in RUNQ_CPUS : schedule_on_cpu(c) \/ block_task(c)
  \/ \E t \in RUNQ_TASKS : unblock_task(t) \/ runq_push(t)

RunqSpec == RunqInit /\ [][RunqNext]_runqVars

-----------------------------------------------------------------------------
(* Properties *)

\* runqueue.c:79: whoever is dispatched, by a pop or by a steal, had the highest
\* effective priority of its queue, and the longest wait among those.
PopsBest ==
  [][\A c, d \in RUNQ_CPUS, t \in RUNQ_TASKS :
       (current[c] # t /\ current'[c] = t /\ t \in ToSet(entries[d])) =>
         \A u \in ToSet(entries[d]) :
           /\ EffectivePrio(u) <= EffectivePrio(t)
           /\ EffectivePrio(u) = EffectivePrio(t) => age[u] <= age[t]]_runqVars

=============================================================================
