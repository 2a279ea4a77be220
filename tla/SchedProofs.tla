---------------------------- MODULE SchedProofs ----------------------------
(***************************************************************************)
(* Proofs about Sched for every number of CPUs, slots and stacks, for      *)
(* every set IrqOnCalls of calls made with interrupts enabled, and with or *)
(* without HandoffRace: whatever the calling context, the scheduler lock   *)
(* and the queue locks alone keep a task in at most one place and on at    *)
(* most one CPU.                                                           *)
(***************************************************************************)
EXTENDS SchedLemmas

-----------------------------------------------------------------------------
(* The timer interrupt *)

\* sleepq_check_wakeups works on one collected task at a time.
LEMMA FirstWakeUnique ==
  ASSUME TypeOK, NEW t, NEW u, FirstWake(t), FirstWake(u)
  PROVE  t = u /\ t \in TaskIds
<1>1. t \in TaskIds /\ u \in TaskIds  BY Zenon DEF FirstWake, TypeOK
<1>2. t \in Int /\ u \in Int  BY <1>1, SchedAssumption DEF TaskIds
<1>3. t <= u /\ u <= t  BY Zenon DEF FirstWake
<1> QED  BY <1>1, <1>2, <1>3

\* unblock_task from the timer handler.
LEMMA SleepqUnblockInv ==
  ASSUME IInv, SleepqUnblock
  PROVE  IInv'
<1> USE SchedAssumption
<1>1. NoTwo /\ OneCpuPerTask /\ Aux /\ TypeOK  BY NoTwoIsNeverTwice, Zenon DEF IInv
<1>2. PICK t \in wake :
        /\ isr[0] = "wake"
        /\ FirstWake(t)
        /\ IF state[t] \in Blocked
           THEN /\ state' = UnblockState(t)
                /\ wake_at' = UnblockWakeAt(t)
           ELSE UNCHANGED <<state, wake_at>>
        /\ IF state[t] \in Blocked /\ ~OnCpu(t)
           THEN isr' = [isr EXCEPT ![0] = "push"] /\ UNCHANGED wake
           ELSE wake' = wake \ {t} /\ UNCHANGED isr
  BY Zenon DEF SleepqUnblock
<1>3. UNCHANGED <<rsp, stack_base, pml4, task_count, cpu_current_task, runq, hw,
                  resume, heap, thread>>
  BY Zenon DEF SleepqUnblock
<1>4. t \in TaskIds  BY <1>1, <1>2, Zenon DEF TypeOK
<1>5. \A u \in TaskIds : ~IsrPushes(u)  BY <1>2, Zenon DEF IsrPushes
<1>6. \A s \in AllStacks, u \in TaskIds : Pushes(s, u)' <=> Pushes(s, u)
  BY <1>3, Zenon DEF Pushes, thread
<1>7. CASE state[t] \notin Blocked
  <2>1. UNCHANGED <<state, wake_at, isr>> /\ wake' = wake \ {t}  BY <1>2, <1>7, Zenon
  <2>2. TypeOK'  BY <1>1, <1>3, <2>1, Zenon DEF TypeOK, hw, heap, thread
  <2>3. \A u \in TaskIds : IsrPushes(u)' => IsrPushes(u)
    BY <1>2, <2>1, Zenon DEF IsrPushes
  <2>4. /\ UNCHANGED <<state, runq, task_count, pc, self>>
        /\ \A d \in CPUS : cpu_current_task'[d] \in {cpu_current_task[d], NoTask}
        /\ \A d \in CPUS : isr'[d] = "iret" => resume'[d] # Null
    BY <1>1, <1>3, <2>1, Zenon DEF thread, Aux
  <2> QED  BY <2>2, <2>3, <2>4, QuietStep, Zenon
<1>8. CASE state[t] \in Blocked
  <2>1. /\ state' = [state EXCEPT ![t] = IF OnCpu(t) THEN "RUNNING" ELSE "READY"]
        /\ wake_at' = [wake_at EXCEPT ![t] = "none"]
    BY <1>2, <1>8, Zenon DEF UnblockState, UnblockWakeAt
  <2>2. ~InQ(runq, t) /\ \A s \in AllStacks : ~Pushes(s, t)
    BY <1>1, <1>4, <1>8, Zenon DEF NoTwo, OnePlace, Blocked
  <2>6. /\ \A u \in TaskIds : u # t => state'[u] = state[u]
        /\ state'[t] = IF OnCpu(t) THEN "RUNNING" ELSE "READY"
    BY <1>1, <1>4, <2>1, Zenon DEF TypeOK
  <2>7. runq' = runq /\ Unique(runq')  BY <1>1, <1>3, Zenon DEF NoTwo
  <2>3. Aux'
    <3>1. \A c \in CPUS : isr'[c] = "iret" => isr[c] = "iret"
      BY <1>1, <1>2 DEF TypeOK
    <3> QED  BY <1>1, <1>3, <1>4, <1>8, <2>1, <3>1, Zenon DEF Aux, TypeOK, thread, Blocked
  <2>4. CASE OnCpu(t)
    <3>1. wake' = wake \ {t} /\ isr' = isr  BY <1>2, <2>4, Zenon
    <3>2. TypeOK'
      BY <1>1, <1>3, <1>4, <2>1, <2>4, <3>1, Zenon DEF TypeOK, States, hw, heap, thread
    <3>3. \A u \in TaskIds : ~IsrPushes(u)'  BY <1>2, <3>1, Zenon DEF IsrPushes
    <3>4. NoTwo'
      <4>1. OnePlace(t)'  BY <1>4, <1>6, <2>2, <2>7, <3>3, Zenon DEF OnePlace
      <4> QED  BY <1>1, <1>4, <1>6, <2>6, <2>7, <3>3, <4>1, MoveOne, Zenon
    <3>5. OneCpuPerTask'
      BY <1>1, <1>3, <2>1, <2>4 DEF OneCpuPerTask, TypeOK
    <3> QED  BY <2>3, <3>2, <3>4, <3>5, NoTwoIsNeverTwice, Zenon DEF IInv
  <2>5. CASE ~OnCpu(t)
    <3>1. isr' = [isr EXCEPT ![0] = "push"] /\ wake' = wake  BY <1>2, <1>8, <2>5, Zenon
    <3>2. TypeOK'
      BY <1>1, <1>3, <1>4, <2>1, <2>5, <3>1, Zenon DEF TypeOK, States, hw, heap, thread
    <3>3. \A u \in TaskIds : IsrPushes(u)' => u = t
      BY <1>1, <1>2, <3>1, FirstWakeUnique, Zenon DEF IsrPushes, FirstWake
    <3>4. NoTwo'
      <4>1. OnePlace(t)'  BY <1>4, <1>6, <2>2, <2>5, <2>6, <2>7, Zenon DEF OnePlace
      <4> QED  BY <1>1, <1>4, <1>6, <2>6, <2>7, <3>3, <4>1, MoveOne, Zenon
    <3>5. OneCpuPerTask'
      BY <1>1, <1>3, <2>1, <2>5 DEF OneCpuPerTask, OnCpu, TypeOK
    <3> QED  BY <2>3, <3>2, <3>4, <3>5, NoTwoIsNeverTwice, Zenon DEF IInv
  <2> QED  BY <2>4, <2>5, Zenon
<1> QED  BY <1>7, <1>8, Zenon

\* Its runq_push after the unlock.
LEMMA SleepqPushInv ==
  ASSUME IInv, SleepqPush
  PROVE  IInv'
<1> USE SchedAssumption
<1>1. NoTwo /\ OneCpuPerTask /\ Aux /\ TypeOK  BY NoTwoIsNeverTwice, Zenon DEF IInv
<1>2. PICK t \in wake, d \in CPUS :
        /\ isr[0] = "push"
        /\ FirstWake(t)
        /\ runq' = [runq EXCEPT ![d] = RunqPush(@, t)]
        /\ state' = IF RunqFull(runq[d]) /\ state[t] = "READY"
                    THEN [state EXCEPT ![t] = "BLOCKED"] ELSE state
        /\ wake' = wake \ {t}
        /\ isr' = [isr EXCEPT ![0] = "wake"]
  BY Zenon DEF SleepqPush
<1>3. UNCHANGED <<rsp, stack_base, pml4, wake_at, task_count,
                  cpu_current_task, hw, resume, heap, thread>>
  BY Zenon DEF SleepqPush
<1>4. t \in TaskIds /\ IsrPushes(t)  BY <1>1, <1>2, Zenon DEF TypeOK, IsrPushes
<1>5. /\ state[t] = "READY" /\ ~InQ(runq, t)
      /\ \A u \in AllStacks : ~Pushes(u, t)
  BY <1>1, <1>4, Zenon DEF NoTwo, OnePlace
<1>6. /\ runq' \in [CPUS -> Seq(TaskIds)]
      /\ Unique(runq')
      /\ \A u : InQ(runq', u) => InQ(runq, u) \/ u = t
  <2>1. runq \in [CPUS -> Seq(TaskIds)] /\ Unique(runq)
    BY <1>1, Zenon DEF TypeOK, NoTwo
  <2>2. runq' = PushAt(runq, d, t)  BY <1>2, SMTT(30) DEF PushAt
  <2> QED  BY ONLY <2>1, <2>2, <1>4, <1>5, d \in CPUS, PushLemma
<1>7. TypeOK'
  BY <1>1, <1>2, <1>3, <1>4, <1>6, Zenon DEF TypeOK, States, Blocked, hw, heap, thread
<1>8. \A u \in TaskIds : ~IsrPushes(u)'
  BY <1>1, <1>2, Zenon DEF IsrPushes, TypeOK
<1>9. \A s \in AllStacks, u \in TaskIds : Pushes(s, u)' <=> Pushes(s, u)
  BY <1>3, Zenon DEF Pushes, thread
<1>10. NoTwo'
  <2>1. CASE RunqFull(runq[d])
    <3>1. state' = [state EXCEPT ![t] = "BLOCKED"]  BY <1>2, <1>5, <2>1, Zenon
    <3>2. runq' = runq  BY <1>1, <1>2, <2>1, Zenon DEF RunqPush, TypeOK
    <3>3. \A u \in TaskIds : u # t => state'[u] = state[u]
      BY <1>1, <3>1, Zenon DEF TypeOK
    <3>4. OnePlace(t)'  BY <1>4, <1>5, <1>8, <1>9, <3>2, Zenon DEF OnePlace
    <3> QED  BY <1>1, <1>4, <1>6, <1>8, <1>9, <3>3, <3>4, MoveOne, Zenon
  <2>2. CASE ~RunqFull(runq[d])
    <3>1. state' = state  BY <1>2, <2>2, Zenon
    <3>2. OnePlace(t)'  BY <1>4, <1>5, <1>8, <1>9, <3>1, Zenon DEF OnePlace
    <3> QED  BY <1>1, <1>4, <1>6, <1>8, <1>9, <3>1, <3>2, MoveOne, Zenon
  <2> QED  BY <2>1, <2>2, Zenon
<1>11. OneCpuPerTask'
  BY <1>1, <1>2, <1>3, <1>5 DEF OneCpuPerTask, TypeOK, Blocked
<1>12. Aux'
  <2>1. \A c \in CPUS : isr'[c] = "iret" => isr[c] = "iret"
    BY <1>1, <1>2, Zenon DEF TypeOK
  <2> QED  BY <1>1, <1>2, <1>3, <1>5, <2>1, Zenon DEF Aux, TypeOK, thread
<1> QED  BY <1>7, <1>10, <1>11, <1>12, NoTwoIsNeverTwice, Zenon DEF IInv

-----------------------------------------------------------------------------
(* Creation: the slot was DEAD, so it had no place and no CPU *)

\* create_task_prio and create_user_task fill a slot nobody refers to.
LEMMA CreateTaskInv ==
  ASSUME IInv, NEW c \in CPUS, NEW t \in TaskIds, NEW n \in Stacks,
         NEW user \in BOOLEAN, CreateTask(c, t, n, user)
  PROVE  IInv'
<1> USE SchedAssumption
<1> DEFINE s == exec[c]
<1>1. NoTwo /\ OneCpuPerTask /\ Aux /\ TypeOK  BY NoTwoIsNeverTwice, Zenon DEF IInv
<1>2. s \in AllStacks /\ n \in AllStacks /\ pc[s] = "run"
  BY Zenon DEF CreateTask, At, AllStacks
<1>3. /\ alloc' = (alloc \cup {n}) \ {stack_base[t]}
      /\ as_live' = IF user THEN as_live \cup {n} ELSE as_live
      /\ state' = [state EXCEPT ![t] = "READY"]
      /\ rsp' = [rsp EXCEPT ![t] = n]
      /\ stack_base' = [stack_base EXCEPT ![t] = n]
      /\ pml4' = [pml4 EXCEPT ![t] = IF user THEN n ELSE Null]
      /\ wake_at' = [wake_at EXCEPT ![t] = "none"]
      /\ task_count' = IF t = task_count THEN task_count + 1 ELSE task_count
      /\ owner' = [owner EXCEPT ![n] = t]
      /\ self' = [self EXCEPT ![s] = t, ![n] = NoTask]
  BY Zenon DEF CreateTask, CountWith
<1>4. PICK on \in BOOLEAN :
        /\ irq' = [irq EXCEPT ![s] = on, ![n] = FALSE]
        /\ pc' = [pc EXCEPT ![s] = "push_new", ![n] = "run"]
  BY Zenon DEF CreateTask
<1>5. UNCHANGED <<cpu_current_task, runq, hw, ints, cpu_id, old>>
  BY Zenon DEF CreateTask
<1>6. /\ state[t] = "DEAD"
      /\ task_count' \in 1 .. MAX_TASKS
      /\ t < task_count'
      /\ task_count' >= task_count
  <2>1. task_count \in 1 .. MAX_TASKS  BY <1>1, Zenon DEF TypeOK
  <2>2. CASE DeadSlots # {}
    <3>1. t \in 1 .. task_count - 1 /\ state[t] = "DEAD"
      BY <2>2, Zenon DEF CreateTask, FreeSlot, DeadSlots
    <3> QED  BY <1>3, <2>1, <3>1
  <2>3. CASE DeadSlots = {}
    <3>1. t = task_count /\ task_count < MAX_TASKS
      BY <2>3, Zenon DEF CreateTask, FreeSlot
    <3>2. state[t] = "DEAD"  BY <1>1, <2>1, <3>1 DEF Aux
    <3> QED  BY <1>3, <2>1, <3>1, <3>2
  <2> QED  BY <2>2, <2>3, Zenon
<1>7. TypeOK'
  <2>1. /\ state' \in [TaskIds -> States]
        /\ rsp' \in [TaskIds -> AllStacks \cup CPUS \cup {Null}]
        /\ stack_base' \in [TaskIds -> Stacks \cup {Null}]
        /\ pml4' \in [TaskIds -> Stacks \cup {Null}]
        /\ wake_at' \in [TaskIds -> {"none", "set", "due"}]
        /\ task_count' \in 1 .. MAX_TASKS
    BY <1>1, <1>2, <1>3, <1>6, Zenon DEF TypeOK, States
  <2>2. /\ alloc' \subseteq Stacks /\ as_live' \subseteq Stacks
        /\ owner' \in [AllStacks -> TaskIds]
        /\ pc' \in [AllStacks -> PCs]
        /\ irq' \in [AllStacks -> BOOLEAN]
        /\ self' \in [AllStacks -> TaskIds \cup {NoTask}]
    <3>1. /\ pc \in [AllStacks -> PCs] /\ irq \in [AllStacks -> BOOLEAN]
          /\ owner \in [AllStacks -> TaskIds]
          /\ self \in [AllStacks -> TaskIds \cup {NoTask}]
          /\ alloc \subseteq Stacks /\ as_live \subseteq Stacks
      BY <1>1, Zenon DEF TypeOK
    <3>2. pc' \in [AllStacks -> PCs]  BY <1>4, <3>1, Zenon DEF PCs
    <3>3. irq' \in [AllStacks -> BOOLEAN]  BY <1>4, <3>1, Zenon
    <3> QED  BY <1>3, <3>1, <3>2, <3>3, Zenon
  <2> QED  BY <1>1, <1>5, <2>1, <2>2, Zenon DEF TypeOK, hw, ints
<1>8. \A u \in AllStacks, v \in TaskIds :
        Pushes(u, v)' => (u = s /\ v = t) \/ (u # s /\ Pushes(u, v))
  BY <1>1, <1>2, <1>3, <1>4, Zenon DEF Pushes, TypeOK
<1>9. \A u \in TaskIds : IsrPushes(u)' <=> IsrPushes(u)
  BY <1>5, Zenon DEF IsrPushes, FirstWake, ints
<1>10. ~InQ(runq, t) /\ ~IsrPushes(t) /\ \A u \in AllStacks : ~Pushes(u, t)
  BY <1>1, <1>6, Zenon DEF NoTwo, OnePlace
<1>11. NoTwo'
  <2>1. /\ \A u \in TaskIds : u # t => state'[u] = state[u]
        /\ state'[t] = "READY"
    BY <1>1, <1>3, Zenon DEF TypeOK
  <2>2. runq' = runq /\ Unique(runq')  BY <1>1, <1>5, Zenon DEF NoTwo
  <2>3. OnePlace(t)'  BY <1>8, <1>9, <1>10, <2>1, <2>2, Zenon DEF OnePlace
  <2> QED  BY <1>1, <1>8, <1>9, <2>1, <2>2, <2>3, MoveOne, Zenon
<1>12. OneCpuPerTask'
  BY <1>1, <1>3, <1>5, <1>6 DEF OneCpuPerTask, TypeOK, Blocked
<1>13. Aux'
  <2>1. \A u \in TaskIds : u >= task_count' => state'[u] = "DEAD"
    <3> SUFFICES ASSUME NEW u \in TaskIds, u >= task_count' PROVE state'[u] = "DEAD"
      BY Zenon
    <3>1. u # t /\ u >= task_count
      BY <1>1, <1>6 DEF TaskIds, TypeOK
    <3> QED  BY <1>1, <1>3, <3>1, Zenon DEF Aux, TypeOK
  <2>2. \A u \in AllStacks : pc'[u] \in {"push", "push_new"} => self'[u] \in TaskIds
    <3>1. /\ pc \in [AllStacks -> PCs]
          /\ self \in [AllStacks -> TaskIds \cup {NoTask}]
      BY <1>1, Zenon DEF TypeOK
    <3> QED  BY <1>1, <1>2, <1>3, <1>4, <3>1, Zenon DEF Aux
  <2> QED  BY <1>1, <1>5, <2>1, <2>2, Zenon DEF Aux, ints
<1> QED  BY <1>7, <1>11, <1>12, <1>13, NoTwoIsNeverTwice, Zenon DEF IInv

-----------------------------------------------------------------------------
(* schedule_on_cpu *)

\* What runq_pop or steal_task returns is an entry of a real queue.
LEMMA PopChoicesType ==
  ASSUME NEW c \in CPUS, NEW p \in PopChoices(c)
  PROVE  p[1] \in CPUS /\ p[2] \in 1 .. Len(runq[p[1]])
  BY DEF PopChoices

\* An entry of a run queue is a task, and is queued.
LEMMA EntryFacts ==
  ASSUME NEW q \in [CPUS -> Seq(TaskIds)], NEW c \in CPUS, NEW i \in 1 .. Len(q[c])
  PROVE  q[c][i] \in TaskIds /\ InQ(q, q[c][i])
<1>1. q[c] \in Seq(TaskIds)  BY Zenon
<1>2. q[c][i] \in TaskIds  BY <1>1
<1>3. InQ(q, q[c][i])  BY Zenon DEF InQ
<1> QED  BY <1>2, <1>3, Zenon

\* The current task that schedule_on_cpu keeps is RUNNING or blocked.
LEMMA CurTaskFacts ==
  ASSUME TypeOK, NEW c \in CPUS
  PROVE  /\ CurTask(c) \in TaskIds \cup {NoTask}
         /\ CurTask(c) \in {cpu_current_task[c], NoTask}
         /\ SaveFrame(c) \in [TaskIds -> AllStacks \cup CPUS \cup {Null}]
         /\ CurRunning(c) => /\ CurTask(c) = cpu_current_task[c]
                             /\ CurTask(c) \in TaskIds
                             /\ CurTask(c) # NoTask
                             /\ state[CurTask(c)] = "RUNNING"
<1>1. cpu_current_task[c] \in TaskIds \cup {NoTask}  BY Zenon DEF TypeOK
<1>2. CurTask(c) \in {cpu_current_task[c], NoTask}  BY Zenon DEF CurTask
<1>3. SaveFrame(c) \in [TaskIds -> AllStacks \cup CPUS \cup {Null}]
  <2>1. rsp \in [TaskIds -> AllStacks \cup CPUS \cup {Null}] /\ exec[c] \in AllStacks \cup CPUS
    BY Zenon DEF TypeOK
  <2>2. SaveFrame(c) \in {rsp, [rsp EXCEPT ![CurTask(c)] = exec[c]]}  BY Zenon DEF SaveFrame
  <2> QED  BY <2>1, <2>2, Zenon
<1>4. CurRunning(c) => /\ CurTask(c) = cpu_current_task[c]
                       /\ CurTask(c) # NoTask
                       /\ state[CurTask(c)] = "RUNNING"
  BY DEF CurTask, CurRunning, CurLive, NoTask, TypeOK
<1> QED  BY <1>1, <1>2, <1>3, <1>4, Zenon

\* schedule_on_cpu with every queue empty keeps or gives up the current task.
LEMMA ScheduleNoneInv ==
  ASSUME IInv, NEW c \in CPUS, ScheduleNone(c)
  PROVE  IInv'
<1> USE SchedAssumption
<1>1. TypeOK /\ Aux  BY Zenon DEF IInv
<1>6. /\ CurTask(c) \in TaskIds \cup {NoTask}
      /\ CurTask(c) \in {cpu_current_task[c], NoTask}
      /\ SaveFrame(c) \in [TaskIds -> AllStacks \cup CPUS \cup {Null}]
  BY <1>1, CurTaskFacts, Zenon
<1>8. /\ cpu_current_task' \in [CPUS -> TaskIds \cup {NoTask}]
      /\ rsp' \in [TaskIds -> AllStacks \cup CPUS \cup {Null}]
      /\ resume' \in [CPUS -> AllStacks \cup CPUS \cup {Null}]
      /\ isr' \in [CPUS -> {"none", "wake", "push", "iret"}]
  <2>1. /\ cpu_current_task \in [CPUS -> TaskIds \cup {NoTask}]
        /\ rsp \in [TaskIds -> AllStacks \cup CPUS \cup {Null}]
        /\ resume \in [CPUS -> AllStacks \cup CPUS \cup {Null}]
        /\ exec[c] \in AllStacks \cup CPUS
        /\ isr \in [CPUS -> {"none", "wake", "push", "iret"}]
    BY <1>1, Zenon DEF TypeOK
  <2>2. rsp' \in {SaveFrame(c), rsp}  BY Zenon DEF ScheduleNone
  <2> QED  BY <1>6, <2>1, <2>2, Zenon DEF ScheduleNone
<1>9. UNCHANGED <<state, stack_base, pml4, wake_at, task_count, runq, exec, cr3, rsp0,
                  wake, alloc, as_live, owner, pc, irq, cpu_id, self, old>>
  BY SMTT(30) DEF ScheduleNone, hw, heap, thread
<1>2. TypeOK'  BY <1>1, <1>8, <1>9, Zenon DEF TypeOK
<1>3. \A u \in TaskIds : IsrPushes(u)' => IsrPushes(u)
  BY <1>1, Zenon DEF ScheduleNone, IsrPushes, FirstWake, TypeOK
<1>4. \A d \in CPUS : isr'[d] = "iret" => resume'[d] # Null
  BY <1>1, SMTT(30) DEF ScheduleNone, Aux, TypeOK
<1>5. \A d \in CPUS : cpu_current_task'[d] \in {cpu_current_task[d], NoTask}
  BY <1>1, <1>6, Zenon DEF ScheduleNone, TypeOK
<1>7. UNCHANGED <<state, runq, task_count, pc, self>>
  BY Zenon DEF ScheduleNone, thread
<1> QED  BY <1>2, <1>3, <1>4, <1>5, <1>7, QuietStep, Zenon

\* schedule_on_cpu with a popped task: the popped entry leaves its queue, the
\* outgoing task enters one only when it was RUNNING (so it was in none), and
\* the next task was READY (so it was current nowhere).
LEMMA ScheduleNextInv ==
  ASSUME IInv, NEW c \in CPUS, ScheduleNext(c)
  PROVE  IInv'
<1> USE SchedAssumption
<1>1. TypeOK /\ NoTwo /\ OneCpuPerTask /\ Aux  BY NoTwoIsNeverTwice, Zenon DEF IInv
<1>2. PICK p \in PopChoices(c) :
        LET next == runq[p[1]][p[2]]
            q    == [runq EXCEPT ![p[1]] = RunqPop(@, p[2])]
        IN IF StaleEntry(next) THEN ScheduleDrop(c, p)
           ELSE IF CurRunning(c) /\ RunqFull(q[c]) THEN ScheduleFull(c, next, q)
           ELSE ScheduleSwitch(c, next, q)
  BY Zenon DEF ScheduleNext
<1> DEFINE q == PopAt(runq, p[1], p[2])
<1>3. p[1] \in CPUS /\ p[2] \in 1 .. Len(runq[p[1]])  BY PopChoicesType, SMTT(30)
<1>4. runq \in [CPUS -> Seq(TaskIds)] /\ Unique(runq)  BY <1>1, Zenon DEF TypeOK, NoTwo
<1>17. runq[p[1]][p[2]] \in TaskIds /\ InQ(runq, runq[p[1]][p[2]])
  BY ONLY <1>3, <1>4, EntryFacts
<1>18. PICK next \in TaskIds : next = runq[p[1]][p[2]]  BY <1>17, Zenon
<1>5. next \in TaskIds /\ InQ(runq, next)  BY <1>17, <1>18, Zenon
<1>6. /\ q \in [CPUS -> Seq(TaskIds)]
      /\ Unique(q)
      /\ \A t : InQ(q, t) => InQ(runq, t)
      /\ ~InQ(q, next)
  BY ONLY <1>3, <1>4, <1>18, PopLemma
<1>7. IF StaleEntry(next) THEN ScheduleDrop(c, p)
      ELSE IF CurRunning(c) /\ RunqFull(q[c]) THEN ScheduleFull(c, next, q)
      ELSE ScheduleSwitch(c, next, q)
  BY <1>2, <1>18, Zenon DEF PopAt
<1>8. /\ isr' = [isr EXCEPT ![c] = "iret"]
      /\ UNCHANGED <<exec, wake, alloc, as_live, owner, pc, irq, cpu_id, self, old>>
  BY SMTT(30) DEF ScheduleNext, heap, thread
<1>9. \A t \in TaskIds : IsrPushes(t)' => IsrPushes(t)
  BY <1>1, <1>8, Zenon DEF IsrPushes, FirstWake, TypeOK
<1>10. \A u \in AllStacks, t \in TaskIds : Pushes(u, t)' <=> Pushes(u, t)
  BY <1>8, Zenon DEF Pushes
<1>19. PICK cur \in TaskIds \cup {NoTask} : cur = CurTask(c)
  BY <1>1, CurTaskFacts, Zenon
<1>11. /\ cur \in TaskIds \cup {NoTask}
       /\ cur \in {cpu_current_task[c], NoTask}
       /\ SaveFrame(c) \in [TaskIds -> AllStacks \cup CPUS \cup {Null}]
       /\ CurRunning(c) => /\ cur = cpu_current_task[c]
                           /\ cur \in TaskIds
                           /\ cur # NoTask
                           /\ state[cur] = "RUNNING"
  BY <1>1, <1>19, CurTaskFacts, Zenon
<1>12. exec[c] \in AllStacks \cup CPUS /\ exec[c] # Null
  BY <1>1, SMTT(30) DEF TypeOK
<1>13. isr' \in [CPUS -> {"none", "wake", "push", "iret"}]  BY <1>1, <1>8, Zenon DEF TypeOK
<1> HIDE DEF q
<1>14. CASE StaleEntry(next)
  <2>1. /\ runq' = q
        /\ cpu_current_task' = [cpu_current_task EXCEPT ![c] = cur]
        /\ resume' = [resume EXCEPT ![c] = exec[c]]
        /\ UNCHANGED <<state, rsp, stack_base, pml4, wake_at, task_count, cr3, rsp0>>
    BY <1>7, <1>14, <1>19, SMTT(30) DEF ScheduleDrop, PopAt, tcb, q
  <2>2. TypeOK'  BY <1>1, <1>6, <1>8, <1>11, <1>12, <1>13, <2>1, SMTT(30) DEF TypeOK
  <2>3. NoTwo'
    <3>1. Unique(runq') /\ state' = state /\ \A u : InQ(runq', u) => InQ(runq, u)
      BY <1>6, <2>1, SMTT(30)
    <3> QED  BY <1>1, <1>9, <1>10, <3>1, ShrinkStep, Zenon
  <2>4. OneCpuPerTask'  BY <1>1, <1>11, <2>1, SMTT(30) DEF OneCpuPerTask, TypeOK
  <2>5. Aux'  BY <1>1, <1>8, <1>12, <2>1, Zenon DEF Aux, TypeOK
  <2> QED  BY <2>2, <2>3, <2>4, <2>5, NoTwoIsNeverTwice, Zenon DEF IInv
<1>15. CASE ~StaleEntry(next) /\ CurRunning(c) /\ RunqFull(q[c])
  <2>1. /\ runq' = PushAt(q, c, next)
        /\ cpu_current_task' = [cpu_current_task EXCEPT ![c] = cur]
        /\ resume' = [resume EXCEPT ![c] = exec[c]]
        /\ rsp' = SaveFrame(c)
        /\ UNCHANGED <<state, stack_base, pml4, wake_at, task_count, cr3, rsp0>>
    BY <1>7, <1>15, <1>19, Zenon DEF ScheduleFull, PushAt
  <2>2. /\ PushAt(q, c, next) \in [CPUS -> Seq(TaskIds)]
        /\ Unique(PushAt(q, c, next))
        /\ \A u : InQ(PushAt(q, c, next), u) => InQ(q, u) \/ u = next
    BY ONLY <1>5, <1>6, c \in CPUS, PushLemma
  <2>3. \A u : InQ(runq', u) => InQ(runq, u)  BY <1>5, <1>6, <2>1, <2>2, SMTT(30)
  <2>4. TypeOK'
    <3>1. /\ cpu_current_task' \in [CPUS -> TaskIds \cup {NoTask}]
          /\ resume' \in [CPUS -> AllStacks \cup CPUS \cup {Null}]
      BY <1>1, <1>11, <1>12, <2>1, Zenon DEF TypeOK
    <3> QED  BY <1>1, <1>8, <1>11, <1>13, <2>1, <2>2, <3>1, SMTT(30) DEF TypeOK
  <2>5. NoTwo'
    <3>1. Unique(runq') /\ state' = state  BY <2>1, <2>2, Zenon
    <3> QED  BY <1>1, <1>9, <1>10, <2>3, <3>1, ShrinkStep, Zenon
  <2>6. OneCpuPerTask'  BY <1>1, <1>11, <2>1, SMTT(30) DEF OneCpuPerTask, TypeOK
  <2>7. Aux'  BY <1>1, <1>8, <1>12, <2>1, SMTT(30) DEF Aux, TypeOK
  <2> QED  BY <2>4, <2>5, <2>6, <2>7, NoTwoIsNeverTwice, Zenon DEF IInv
<1>16. CASE ~StaleEntry(next) /\ ~(CurRunning(c) /\ RunqFull(q[c]))
  <2>1. /\ runq' = IF CurRunning(c) THEN PushAt(q, c, cur) ELSE q
        /\ state' = [t \in TaskIds |->
                       IF t = next THEN "RUNNING"
                       ELSE IF CurRunning(c) /\ t = cur THEN "READY"
                       ELSE state[t]]
        /\ rsp' = SaveFrame(c)
        /\ cpu_current_task' = [cpu_current_task EXCEPT ![c] = next]
        /\ rsp0' = [rsp0 EXCEPT ![c] = stack_base[next]]
        /\ cr3' = [cr3 EXCEPT ![c] = pml4[next]]
        /\ resume' = [resume EXCEPT ![c] = rsp[next]]
        /\ UNCHANGED <<stack_base, pml4, wake_at, task_count>>
    BY <1>7, <1>16, <1>19, Zenon DEF ScheduleSwitch, SwitchCr3, PushAt
  <2>2. state[next] = "READY" /\ rsp[next] # Null /\ ~(next >= task_count)
    BY <1>16, Zenon DEF StaleEntry
  <2>3. CurRunning(c) => cur # next /\ ~InQ(runq, cur) /\ ~InQ(q, cur)
    <3>1. CurRunning(c) => OnePlace(cur)  BY <1>1, <1>11, Zenon DEF NoTwo
    <3> QED  BY <1>6, <1>11, <2>2, <3>1, SMTT(30) DEF OnePlace
  <2>4. /\ runq' \in [CPUS -> Seq(TaskIds)]
        /\ Unique(runq')
        /\ \A u : InQ(runq', u) => InQ(q, u) \/ (CurRunning(c) /\ u = cur)
    <3>1. CASE CurRunning(c)
      <4>1. cur \in TaskIds /\ ~InQ(q, cur)  BY <1>11, <2>3, <3>1, Zenon
      <4>2. /\ PushAt(q, c, cur) \in [CPUS -> Seq(TaskIds)]
            /\ Unique(PushAt(q, c, cur))
            /\ \A u : InQ(PushAt(q, c, cur), u) => InQ(q, u) \/ u = cur
        BY ONLY <1>6, <4>1, c \in CPUS, PushLemma, SMTT(30)
      <4> QED  BY <2>1, <3>1, <4>2, SMTT(30)
    <3>2. CASE ~CurRunning(c)  BY <1>6, <2>1, <3>2, SMTT(30)
    <3> QED  BY <3>1, <3>2, SMTT(30)
  <2>5. TypeOK'
    <3>1. /\ state' \in [TaskIds -> States]
          /\ cpu_current_task' \in [CPUS -> TaskIds \cup {NoTask}]
          /\ rsp0' \in [CPUS -> Stacks \cup {Null}]
          /\ cr3' \in [CPUS -> Stacks \cup {Null}]
          /\ resume' \in [CPUS -> AllStacks \cup CPUS \cup {Null}]
      BY <1>1, <1>5, <2>1, Zenon DEF TypeOK, States
    <3> QED  BY <1>1, <1>8, <1>11, <1>13, <2>1, <2>4, <3>1, SMTT(30) DEF TypeOK
  <2>6. \A t \in TaskIds : t # next /\ state[t] = "READY" => state'[t] = "READY"
    BY <2>1, Zenon
  <2>7. NoTwo'
    <3> DEFINE X == {t \in TaskIds : t = next \/ (CurRunning(c) /\ t = cur)}
    <3>1. /\ \A t \in TaskIds \ X : state[t] = "READY" => state'[t] = "READY"
          /\ \A t \in TaskIds \ X : InQ(runq', t) => InQ(runq, t)
          /\ \A t \in TaskIds \ X : \A s \in AllStacks : Pushes(s, t)' => Pushes(s, t)
          /\ \A t \in TaskIds \ X : IsrPushes(t)' => IsrPushes(t)
      BY <1>6, <1>9, <1>10, <2>4, <2>6, Zenon
    <3>2. OnePlace(next)'
      <4>1. OnePlace(next)  BY <1>1, <1>5, Zenon DEF NoTwo
      <4>2. ~InQ(runq', next)  BY <1>6, <2>3, <2>4, Zenon
      <4>3. ~IsrPushes(next)' /\ \A u \in AllStacks : ~Pushes(u, next)'
        BY <1>5, <1>9, <1>10, <4>1, Zenon DEF OnePlace
      <4> QED  BY <4>2, <4>3, Zenon DEF OnePlace
    <3>3. ASSUME CurRunning(c) PROVE OnePlace(cur)'
      <4>1. cur \in TaskIds /\ state[cur] = "RUNNING" /\ cur # next
        BY <1>11, <2>3, <3>3, Zenon
      <4>2. OnePlace(cur)  BY <1>1, <4>1, Zenon DEF NoTwo
      <4>3. ~IsrPushes(cur)' /\ \A u \in AllStacks : ~Pushes(u, cur)'
        BY <1>9, <1>10, <4>1, <4>2, Zenon DEF OnePlace
      <4>4. state'[cur] = "READY"  BY <2>1, <3>3, <4>1, Zenon
      <4> QED  BY <4>3, <4>4, Zenon DEF OnePlace
    <3>4. X \in SUBSET TaskIds /\ \A t \in X : OnePlace(t)'
      BY <3>2, <3>3, Zenon
    <3> HIDE DEF X
    <3> QED  BY <1>1, <2>4, <3>1, <3>4, MoveStep, Zenon
  <2>8. OneCpuPerTask'
    <3>0. next # NoTask  BY <1>5 DEF TaskIds, NoTask
    <3>1. \A d \in CPUS : cpu_current_task[d] # next
      BY <1>1, <2>2, <3>0, SMTT(30) DEF OneCpuPerTask, Blocked
    <3>2. \A d \in CPUS \ {c} : cpu_current_task'[d] = cpu_current_task[d]
      BY <1>1, <2>1, Zenon DEF TypeOK
    <3>3. cpu_current_task'[c] = next /\ state'[next] = "RUNNING"
      BY <1>1, <1>5, <2>1, Zenon DEF TypeOK
    <3>4. \A d \in CPUS \ {c} : cpu_current_task[d] # NoTask
             => state'[cpu_current_task[d]] = state[cpu_current_task[d]]
      <4> SUFFICES ASSUME NEW d \in CPUS \ {c}, cpu_current_task[d] # NoTask
                   PROVE  state'[cpu_current_task[d]] = state[cpu_current_task[d]]
        BY SMTT(30)
      <4>1. cpu_current_task[d] \in TaskIds  BY <1>1 DEF TypeOK
      <4>2. CurRunning(c) => cpu_current_task[d] # cur
        BY <1>1, <1>11, SMTT(30) DEF OneCpuPerTask
      <4> QED  BY <2>1, <3>1, <4>1, <4>2, SMTT(30)
    <3> QED  BY <1>1, <3>1, <3>2, <3>3, <3>4 DEF OneCpuPerTask
  <2>9. Aux'
    <3>1. \A t \in TaskIds : t >= task_count' => state'[t] = "DEAD"
      BY <1>1, <1>5, <1>11, <2>1, <2>2, SMTT(30) DEF Aux
    <3>2. resume'[c] # Null  BY <1>1, <2>1, <2>2, Zenon DEF TypeOK
    <3> QED  BY <1>1, <1>8, <2>1, <3>1, <3>2, Zenon DEF Aux, TypeOK
  <2> QED  BY <2>5, <2>7, <2>8, <2>9, NoTwoIsNeverTwice, Zenon DEF IInv
<1> QED  BY <1>14, <1>15, <1>16, Zenon

-----------------------------------------------------------------------------
(* The theorems *)

\* tasking_init establishes the inductive invariant.
LEMMA InitInv ==
  ASSUME Init
  PROVE  IInv
<1> USE SchedAssumption
<1>1. 0 \in TaskIds /\ BootStack \in AllStacks  BY SMTT(30) DEF TaskIds, AllStacks
<1>2. TypeOK
  BY <1>1 DEF Init, TypeOK, States, PCs, NoOld, NoTask, AllStacks
<1>3. NeverTwice
  <2>1. \A t \in TaskIds : ~Queued(t) /\ ~IsrPushes(t)
    BY DEF Init, Queued, IsrPushes
  <2>2. \A t \in TaskIds, s \in AllStacks : ~Pushes(s, t)
    BY Zenon DEF Init, Pushes
  <2> QED  BY <2>1, <2>2 DEF NeverTwice, Init
<1>4. OneCpuPerTask  BY <1>1, Zenon DEF Init, OneCpuPerTask
<1>5. Aux  BY <1>1 DEF Init, Aux, TaskIds
<1> QED  BY <1>2, <1>3, <1>4, <1>5, Zenon DEF IInv

\* Every step of every CPU, and the clock, preserve it.
LEMMA NextInv ==
  ASSUME IInv, [Next]_vars
  PROVE  IInv'
<1>1. CASE UNCHANGED vars
  <2>1. UNCHANGED <<state, runq, task_count, cpu_current_task, pc, self, isr, resume>>
    BY <1>1, Zenon DEF vars, tcb, hw, ints, thread
  <2>2. TypeOK'
    BY <1>1, Zenon DEF vars, tcb, hw, ints, heap, thread, IInv, TypeOK
  <2>3. \A t \in TaskIds : IsrPushes(t)' => IsrPushes(t)
    BY <1>1, Zenon DEF vars, ints, IsrPushes, FirstWake
  <2>4. \A c \in CPUS : isr'[c] = "iret" => resume'[c] # Null
    BY <2>1, Zenon DEF IInv, Aux
  <2> QED  BY <2>1, <2>2, <2>3, <2>4, QuietStep, Zenon
<1>2. ASSUME NEW t \in TaskIds, TimePasses(t) PROVE IInv'  BY <1>2, TimePassesInv, Zenon
<1>3. ASSUME NEW c \in CPUS, CpuStep(c) PROVE IInv'
  <2>1. CASE CallStep(c)
    <3>1. CASE \/ SleepArm(c) \/ BlockPark(c) \/ ExitTeardown(c) \/ ExitLeave(c)
      BY <3>1, LocalInv, Zenon
    <3>2. CASE SleepPrepare(c) \/ WaitPrepare(c)
      BY <3>2, BlockPrepareInv, Zenon DEF SleepPrepare, WaitPrepare, Blocked
    <3>3. ASSUME NEW d \in CPUS, UnblockPush(c, d) PROVE IInv'
      BY <3>3, UnblockPushInv, Zenon
    <3>4. ASSUME NEW d \in CPUS, CreatePush(c, d) PROVE IInv'
      BY <3>4, CreatePushInv, Zenon
    <3>5. CASE ExitLocked(c)  BY <3>5, ExitLockedInv, Zenon
    <3> QED  BY <2>1, <3>1, <3>2, <3>3, <3>4, <3>5, Zenon DEF CallStep
  <2>2. CASE NewCall(c)
    <3>1. CASE SleepRead(c) \/ BlockRead(c) \/ ExitRead(c)  BY <3>1, LocalInv, Zenon
    <3>2. ASSUME NEW t \in TaskIds, Unblock(c, t) PROVE IInv'  BY <3>2, UnblockInv, Zenon
    <3>3. ASSUME NEW t \in TaskIds, NEW n \in Stacks, CreateKernelTask(c, t, n)
          PROVE  IInv'
      BY <3>3, CreateTaskInv, Zenon DEF CreateKernelTask
    <3>4. ASSUME NEW t \in TaskIds, NEW n \in Stacks, CreateUserTask(c, t, n)
          PROVE  IInv'
      BY <3>4, CreateTaskInv, Zenon DEF CreateUserTask
    <3> QED  BY <2>2, <3>1, <3>2, <3>3, <3>4, Zenon DEF NewCall
  <2>3. CASE Schedule(c)
    BY <2>3, ScheduleNoneInv, ScheduleNextInv, Zenon DEF Schedule
  <2>4. CASE Iret(c)  BY <2>4, IretInv, Zenon
  <2>5. CASE IdleLoop(c)  BY <2>5, IdleLoopInv, Zenon
  <2>6. CASE TimerTick \/ SleepqUnblock \/ SleepqPush
    BY <2>6, TimerTickInv, SleepqUnblockInv, SleepqPushInv, Zenon
  <2> QED  BY <1>3, <2>1, <2>2, <2>3, <2>4, <2>5, <2>6, Zenon DEF CpuStep
<1> QED  BY <1>1, <1>2, <1>3, SMTT(30) DEF Next

\* IInv holds in every reachable state.
LEMMA Inductive == Spec => []IInv
<1>1. Init => IInv  BY InitInv, Zenon
<1>2. IInv /\ [Next]_vars => IInv'  BY NextInv, Zenon
<1> QED  BY <1>1, <1>2, PTL DEF Spec

\* The scheduler's data keep their types: in particular the handler never
\* returns to a frame that is no stack, and no queue holds a slot that does
\* not exist.
THEOREM TypeCorrect == Spec => []TypeOK
<1>1. IInv => TypeOK  BY Zenon DEF IInv
<1> QED  BY <1>1, Inductive, PTL

\* runqueue.c:4-8: a task is never in two run queues, nor in one while an
\* unblock_task or a creation still owes it a push, and whatever is queued is
\* READY.
THEOREM QueuedOnce == Spec => []NeverTwice
<1>1. IInv => NeverTwice  BY Zenon DEF IInv
<1> QED  BY <1>1, Inductive, PTL

\* core.c:113-115: no task is the current task of two CPUs.
THEOREM RunsOnce == Spec => []OneCpuPerTask
<1>1. IInv => OneCpuPerTask  BY Zenon DEF IInv
<1> QED  BY <1>1, Inductive, PTL

=============================================================================
