------------------------------- MODULE Sched -------------------------------
(***************************************************************************)
(* The preemptive SMP scheduler: kernel/sched/core.c (schedule_on_cpu, the *)
(* idle loop), block.c (blocking, wake-up, sleep queue), runqueue.c (the   *)
(* per-CPU queues) and lifecycle.c (task creation and exit).               *)
(*                                                                         *)
(* A thread of control is named by the kernel stack it runs on, not by its *)
(* TCB slot: a slot is reused while the thread that gave it up is still    *)
(* leaving its stack.  exec[c] is the stack CPU c physically executes on;  *)
(* cpu_current_task[c] is what the kernel believes.  The idle stack of CPU *)
(* c is named c.                                                           *)
(*                                                                         *)
(* Every section under scheduler_lock is one step.  runq_push from         *)
(* unblock_task and create_task runs after the unlock and is a step of its *)
(* own, as is the stack change of the interrupt stub ("mov rsp, rax")      *)
(* after schedule_on_cpu returns.                                          *)
(*                                                                         *)
(* Abstractions.  Which queued task has the highest effective priority is  *)
(* data of module RunQueue: any entry may be popped here.  The load that   *)
(* pick_target_cpu and steal_task read without a lock is advisory: any CPU *)
(* may win.  Time is the three-valued wake_at_ms.  Event queues, user-heap *)
(* metadata and file descriptors, which create and exit also reset, belong *)
(* to other modules.  An address space is named by the stack created with  *)
(* it.                                                                     *)
(*                                                                         *)
(* A definition Mut* is a slip in the one that follows it; no specification*)
(* uses it.  It shows which property notices the slip.                     *)
(***************************************************************************)
EXTENDS Integers, Sequences, FiniteSets, TLC

CONSTANTS CPUS,         \* indexes of the online CPUs; 0 is the BSP
          MAX_TASKS,    \* TCB slots
          Stacks,       \* the stacks kmalloc can hand out
          BootStack,    \* the stack of kmain, task 0; never freed
          Null,         \* no stack / the kernel's own address space
          IrqOnCalls,   \* calls some thread makes with interrupts enabled
          HandoffRace   \* may a CPU resume a stack another CPU has not left?

TaskIds   == 0 .. MAX_TASKS - 1
NoTask    == -1
AllStacks == Stacks \cup {BootStack}
Calls     == {"create", "unblock", "sleep", "exit"}

ASSUME SchedAssumption ==
  /\ MAX_TASKS \in Nat /\ MAX_TASKS > 0
  /\ CPUS \subseteq Nat /\ 0 \in CPUS
  /\ BootStack \notin Stacks
  /\ Null \notin AllStacks
  /\ CPUS \cap AllStacks = {}
  /\ Null \notin CPUS
  /\ IrqOnCalls \subseteq Calls
  /\ HandoffRace \in BOOLEAN

\* The task stacks are alike: any permutation of them is a symmetry.
StackSymmetry == Permutations(Stacks)

VARIABLES
  state,             \* tasks[t].state
  rsp,               \* tasks[t].rsp: the stack the saved frame lies on
  stack_base,        \* tasks[t].stack_base
  pml4,              \* tasks[t].pml4_phys
  wake_at,           \* tasks[t].wake_at_ms: none (0), set (future), due
  task_count,
  cpu_current_task,
  runq,              \* cpu_runqueues[c].entries[0 .. count - 1]
  exec,              \* the stack CPU c executes on
  cr3,               \* the address space in CPU c's CR3
  rsp0,              \* RSP0 in CPU c's TSS; Null is the per-CPU syscall stack
  isr,               \* what the interrupt handler on CPU c is doing
  resume,            \* the frame schedule_on_cpu returned on CPU c
  wake,              \* wake[] of sleepq_check_wakeups, on the BSP
  alloc,             \* stacks not given back with kfree
  as_live,           \* address spaces not yet destroyed
  owner,             \* the task a stack was created for
  pc,                \* where the thread on a stack is
  irq,               \* are interrupts enabled in the thread's current call?
  cpu_id,            \* its local: smp_current_cpu_index(), read at entry
  self,              \* its local: the task the call is about
  old                \* its locals old_stack and dead_pml4 in task_exit

tcb    == <<state, rsp, stack_base, pml4, wake_at, task_count>>
hw     == <<exec, cr3, rsp0>>
ints   == <<isr, resume, wake>>
heap   == <<alloc, as_live>>
thread == <<owner, pc, irq, cpu_id, self, old>>
vars   == <<tcb, cpu_current_task, runq, hw, ints, heap, thread>>

Blocked == {"SLEEPING", "BLOCKED"}
States  == {"READY", "RUNNING", "DEAD"} \cup Blocked
PCs     == {"free", "run", "arm", "prep_sleep", "prep_block", "park",
            "push_new", "push", "exit", "teardown", "leave"}

\* Every field of the TCBs, the per-CPU data and the threads' locals stays in
\* its range; the slot count stays within tasks[MAX_TASKS].
TypeOK ==
  /\ state \in [TaskIds -> States]
  /\ rsp \in [TaskIds -> AllStacks \cup CPUS \cup {Null}]
  /\ stack_base \in [TaskIds -> Stacks \cup {Null}]
  /\ pml4 \in [TaskIds -> Stacks \cup {Null}]
  /\ wake_at \in [TaskIds -> {"none", "set", "due"}]
  /\ task_count \in 1 .. MAX_TASKS
  /\ cpu_current_task \in [CPUS -> TaskIds \cup {NoTask}]
  /\ runq \in [CPUS -> Seq(TaskIds)]
  /\ exec \in [CPUS -> AllStacks \cup CPUS]
  /\ cr3 \in [CPUS -> Stacks \cup {Null}]
  /\ rsp0 \in [CPUS -> Stacks \cup {Null}]
  /\ isr \in [CPUS -> {"none", "wake", "push", "iret"}]
  /\ resume \in [CPUS -> AllStacks \cup CPUS \cup {Null}]
  /\ wake \subseteq TaskIds
  /\ alloc \subseteq Stacks
  /\ as_live \subseteq Stacks
  /\ owner \in [AllStacks -> TaskIds]
  /\ pc \in [AllStacks -> PCs]
  /\ irq \in [AllStacks -> BOOLEAN]
  /\ cpu_id \in [AllStacks -> CPUS]
  /\ self \in [AllStacks -> TaskIds \cup {NoTask}]
  /\ old \in [AllStacks -> [stack : Stacks \cup {Null}, as : Stacks \cup {Null}]]

NoOld == [stack |-> Null, as |-> Null]

\* tasking_init, with every AP already parked on its idle stack.
Init ==
  /\ state = [t \in TaskIds |-> IF t = 0 THEN "RUNNING" ELSE "DEAD"]
  /\ rsp = [t \in TaskIds |-> Null]
  /\ stack_base = [t \in TaskIds |-> Null]
  /\ pml4 = [t \in TaskIds |-> Null]
  /\ wake_at = [t \in TaskIds |-> "none"]
  /\ task_count = 1
  /\ cpu_current_task = [c \in CPUS |-> IF c = 0 THEN 0 ELSE NoTask]
  /\ runq = [c \in CPUS |-> <<>>]
  /\ exec = [c \in CPUS |-> IF c = 0 THEN BootStack ELSE c]
  /\ cr3 = [c \in CPUS |-> Null]
  /\ rsp0 = [c \in CPUS |-> Null]
  /\ isr = [c \in CPUS |-> "none"]
  /\ resume = [c \in CPUS |-> Null]
  /\ wake = {}
  /\ alloc = {}
  /\ as_live = {}
  /\ owner = [s \in AllStacks |-> 0]
  /\ pc = [s \in AllStacks |-> IF s = BootStack THEN "run" ELSE "free"]
  /\ irq = [s \in AllStacks |-> FALSE]
  /\ cpu_id = [s \in AllStacks |-> 0]
  /\ self = [s \in AllStacks |-> NoTask]
  /\ old = [s \in AllStacks |-> NoOld]

-----------------------------------------------------------------------------
(* Run queues *)

\* runq_push / runq_pop on one queue: append; fill the gap with the last entry.
RunqFull(q)   == Len(q) >= MAX_TASKS
RunqPush(q, t) == IF RunqFull(q) THEN q ELSE Append(q, t)
MutRunqPopKeeps(q, i) == q
RunqPop(q, i) == [j \in 1 .. Len(q) - 1 |-> IF j = i THEN q[Len(q)] ELSE q[j]]

\* The entries schedule_on_cpu may take: its own queue's, or, when that is
\* empty, those of a remote queue (steal_task).
PopChoices(c) ==
  IF runq[c] # <<>>
  THEN {<<c, i>> : i \in 1 .. Len(runq[c])}
  ELSE UNION {{<<d, i>> : i \in 1 .. Len(runq[d])} : d \in CPUS \ {c}}

-----------------------------------------------------------------------------
(* Interrupts *)

\* IF is 1 on CPU c: idle, in task code, parked in sti;hlt, or inside a call
\* that was entered with interrupts enabled.
Interruptible(c) ==
  /\ isr[c] = "none"
  /\ exec[c] \in AllStacks =>
        pc[exec[c]] \in {"run", "park"} \/ irq[exec[c]]

\* The clock passes tasks[t].wake_at_ms.
TimePasses(t) ==
  /\ wake_at[t] = "set"
  /\ wake_at' = [wake_at EXCEPT ![t] = "due"]
  /\ UNCHANGED <<state, rsp, stack_base, pml4, task_count, cpu_current_task,
                 runq, hw, ints, heap, thread>>

\* PIT interrupt on the BSP: sleepq_check_wakeups collects the due sleepers.
Due(t) == state[t] = "SLEEPING" /\ wake_at[t] = "due"
MutDueSleepers == {t \in TaskIds : t < task_count - 1 /\ Due(t)}
DueSleepers    == {t \in TaskIds : t < task_count /\ Due(t)}

TimerTick ==
  /\ Interruptible(0)
  /\ isr' = [isr EXCEPT ![0] = "wake"]
  /\ wake' = DueSleepers
  /\ UNCHANGED <<tcb, cpu_current_task, runq, hw, resume, heap, thread>>

FirstWake(t) == t \in wake /\ \A u \in wake : t <= u

MutOnCpu(t) == FALSE
OnCpu(t) == \E d \in CPUS : cpu_current_task[d] = t

\* The locked part of unblock_task for a task that is asleep or blocked.
MutUnblockState(t) == [state EXCEPT ![t] = "RUNNING"]
UnblockState(t) ==
  [state EXCEPT ![t] = IF OnCpu(t) THEN "RUNNING" ELSE "READY"]
UnblockWakeAt(t) == [wake_at EXCEPT ![t] = "none"]

\* sleepq_check_wakeups unblocks the collected tasks outside the lock; each
\* one is validated again by unblock_task.
SleepqUnblock ==
  \E t \in wake :
    /\ isr[0] = "wake"
    /\ FirstWake(t)
    /\ IF state[t] \in Blocked
       THEN /\ state' = UnblockState(t)
            /\ wake_at' = UnblockWakeAt(t)
       ELSE UNCHANGED <<state, wake_at>>
    /\ IF state[t] \in Blocked /\ ~OnCpu(t)
       THEN isr' = [isr EXCEPT ![0] = "push"] /\ UNCHANGED wake
       ELSE wake' = wake \ {t} /\ UNCHANGED isr
    /\ UNCHANGED <<rsp, stack_base, pml4, task_count, cpu_current_task, runq,
                   hw, resume, heap, thread>>

\* The runq_push of that unblock_task; a full queue parks the task again.
SleepqPush ==
  \E t \in wake, d \in CPUS :
    /\ isr[0] = "push"
    /\ FirstWake(t)
    /\ runq' = [runq EXCEPT ![d] = RunqPush(@, t)]
    /\ state' = IF RunqFull(runq[d]) /\ state[t] = "READY"
                THEN [state EXCEPT ![t] = "BLOCKED"] ELSE state
    /\ wake' = wake \ {t}
    /\ isr' = [isr EXCEPT ![0] = "wake"]
    /\ UNCHANGED <<rsp, stack_base, pml4, wake_at, task_count,
                   cpu_current_task, hw, resume, heap, thread>>

\* The timer or reschedule interrupt reaches schedule_on_cpu.
EntersSchedule(c) ==
  \/ Interruptible(c)
  \/ c = 0 /\ isr[0] = "wake" /\ wake = {}

CurLive(c)    == cpu_current_task[c] \in 0 .. task_count - 1
CurRunning(c) == CurLive(c) /\ state[cpu_current_task[c]] = "RUNNING"
CurBlocked(c) == CurLive(c) /\ state[cpu_current_task[c]] \in Blocked

\* cur after a dead or invalid current task has been relinquished.
CurTask(c) == IF CurRunning(c) \/ CurBlocked(c) THEN cpu_current_task[c]
                                                 ELSE NoTask

\* tasks[] with the interrupted frame saved in the outgoing task.
MutSaveFrame(c) ==
  IF CurRunning(c) THEN [rsp EXCEPT ![CurTask(c)] = exec[c]] ELSE rsp
SaveFrame(c) ==
  IF CurTask(c) # NoTask THEN [rsp EXCEPT ![CurTask(c)] = exec[c]] ELSE rsp

\* schedule_on_cpu finds nothing runnable: the current task stays, a blocked
\* one with its frame saved.
ScheduleNone(c) ==
  /\ EntersSchedule(c)
  /\ PopChoices(c) = {}
  /\ cpu_current_task' = [cpu_current_task EXCEPT ![c] = CurTask(c)]
  /\ rsp' = IF CurBlocked(c) THEN SaveFrame(c) ELSE rsp
  /\ resume' = [resume EXCEPT ![c] = exec[c]]
  /\ isr' = [isr EXCEPT ![c] = "iret"]
  /\ UNCHANGED <<state, stack_base, pml4, wake_at, task_count, runq, hw, wake,
                 heap, thread>>

StaleEntry(t) == t >= task_count \/ state[t] # "READY" \/ rsp[t] = Null

\* schedule_on_cpu pops entry p; a stale one is dropped.
ScheduleDrop(c, p) ==
  /\ runq' = [runq EXCEPT ![p[1]] = RunqPop(@, p[2])]
  /\ cpu_current_task' = [cpu_current_task EXCEPT ![c] = CurTask(c)]
  /\ resume' = [resume EXCEPT ![c] = exec[c]]
  /\ UNCHANGED <<tcb, cr3, rsp0>>

\* The outgoing task does not fit its queue: it keeps the CPU and the popped
\* task goes back.
ScheduleFull(c, next, q) ==
  /\ runq' = [q EXCEPT ![c] = RunqPush(@, next)]
  /\ cpu_current_task' = [cpu_current_task EXCEPT ![c] = CurTask(c)]
  /\ resume' = [resume EXCEPT ![c] = exec[c]]
  /\ rsp' = SaveFrame(c)
  /\ UNCHANGED <<state, stack_base, pml4, wake_at, task_count, cr3, rsp0>>

\* CR3 after the switch: the task's own address space or the kernel's.
SwitchCr3(c, next) == [cr3 EXCEPT ![c] = pml4[next]]

\* The switch: save and requeue the outgoing task, mark the next one running,
\* point RSP0 and CR3 at it, return its frame.
ScheduleSwitch(c, next, q) ==
  /\ runq' = IF CurRunning(c) THEN [q EXCEPT ![c] = RunqPush(@, CurTask(c))]
                              ELSE q
  /\ state' = [t \in TaskIds |->
                 IF t = next THEN "RUNNING"
                 ELSE IF CurRunning(c) /\ t = CurTask(c) THEN "READY"
                 ELSE state[t]]
  /\ rsp' = SaveFrame(c)
  /\ cpu_current_task' = [cpu_current_task EXCEPT ![c] = next]
  /\ rsp0' = [rsp0 EXCEPT ![c] = stack_base[next]]
  /\ cr3' = SwitchCr3(c, next)
  /\ resume' = [resume EXCEPT ![c] = rsp[next]]
  /\ UNCHANGED <<stack_base, pml4, wake_at, task_count>>

\* schedule_on_cpu when a task could be popped.
ScheduleNext(c) ==
  /\ EntersSchedule(c)
  /\ isr' = [isr EXCEPT ![c] = "iret"]
  /\ \E p \in PopChoices(c) :
       LET next == runq[p[1]][p[2]]
           q    == [runq EXCEPT ![p[1]] = RunqPop(@, p[2])]
       IN IF StaleEntry(next) THEN ScheduleDrop(c, p)
          ELSE IF CurRunning(c) /\ RunqFull(q[c]) THEN ScheduleFull(c, next, q)
          ELSE ScheduleSwitch(c, next, q)
  /\ UNCHANGED <<exec, wake, heap, thread>>

\* The interrupt stub moves RSP to the returned frame and executes IRETQ.
\* scheduler_lock is already released: nothing in the code makes this CPU wait
\* until another one has left that stack.  With HandoffRace FALSE the model
\* lets the leaving CPU win that race.
Iret(c) ==
  /\ isr[c] = "iret"
  /\ HandoffRace \/ \A d \in CPUS \ {c} : exec[d] # resume[c]
  /\ exec' = [exec EXCEPT ![c] = resume[c]]
  /\ isr' = [isr EXCEPT ![c] = "none"]
  /\ resume' = [resume EXCEPT ![c] = Null]
  /\ UNCHANGED <<tcb, cpu_current_task, runq, cr3, rsp0, wake, heap, thread>>

\* scheduler_idle_loop.
IdleLoop(c) ==
  /\ isr[c] = "none"
  /\ exec[c] \in CPUS
  /\ cpu_current_task' = [cpu_current_task EXCEPT ![c] = NoTask]
  /\ UNCHANGED <<tcb, runq, hw, ints, heap, thread>>

-----------------------------------------------------------------------------
(* Threads: what the code running on stack exec[c] does on CPU c *)

At(c, label) == isr[c] = "none" /\ exec[c] \in AllStacks /\ pc[exec[c]] = label

\* Enter a call: from a system call (interrupts off) or, for the calls in
\* IrqOnCalls, from a kernel thread with interrupts on.
Enter(c, call, label) ==
  \E on \in BOOLEAN :
    /\ on => call \in IrqOnCalls
    /\ irq' = [irq EXCEPT ![exec[c]] = on]
    /\ pc' = [pc EXCEPT ![exec[c]] = label]

Return(s) ==
  /\ pc' = [pc EXCEPT ![s] = "run"]
  /\ irq' = [irq EXCEPT ![s] = FALSE]
  /\ self' = [self EXCEPT ![s] = NoTask]
  /\ cpu_id' = [cpu_id EXCEPT ![s] = 0]

\* The task a call that read the CPU index on entry takes itself for.
MutMe(s) == cpu_current_task[0]
Me(s) == cpu_current_task[cpu_id[s]]

\* task_sleep_ms reads the CPU index.
SleepRead(c) ==
  /\ At(c, "run")
  /\ cpu_id' = [cpu_id EXCEPT ![exec[c]] = c]
  /\ Enter(c, "sleep", "arm")
  /\ UNCHANGED <<tcb, cpu_current_task, runq, hw, ints, heap, owner, self, old>>

\* task_sleep_ms stores wake_at_ms under the lock, then block_prepare reads
\* the CPU index again.  Without a task it only halts until the deadline.
SleepArm(c) ==
  LET s == exec[c] IN
  /\ At(c, "arm")
  /\ IF Me(s) \in 0 .. task_count - 1
     THEN /\ wake_at' = [wake_at EXCEPT ![Me(s)] = "set"]
          /\ cpu_id' = [cpu_id EXCEPT ![s] = c]
          /\ pc' = [pc EXCEPT ![s] = "prep_sleep"]
          /\ UNCHANGED <<irq, self>>
     ELSE Return(s) /\ UNCHANGED wake_at
  /\ UNCHANGED <<state, rsp, stack_base, pml4, task_count, cpu_current_task,
                 runq, hw, ints, heap, owner, old>>

\* A wait queue calls block_prepare(TASK_BLOCKED) with interrupts disabled.
BlockRead(c) ==
  LET s == exec[c] IN
  /\ At(c, "run")
  /\ cpu_id' = [cpu_id EXCEPT ![s] = c]
  /\ pc' = [pc EXCEPT ![s] = "prep_block"]
  /\ UNCHANGED <<tcb, cpu_current_task, runq, hw, ints, heap, owner, irq, self,
                 old>>

\* The locked part of block_prepare.  The code reads the CPU index and then
\* cpu_current_task before it takes the lock; a preemption between the lock and
\* the second read changes nothing (the task is RUNNING whenever it executes),
\* so the model keeps the one between the two reads.  A task that is not RUNNING does not park.
BlockPrepare(c, label, new_state) ==
  LET s == exec[c] IN
  /\ At(c, label)
  /\ IF Me(s) \in 0 .. task_count - 1 /\ state[Me(s)] = "RUNNING"
     THEN /\ state' = [state EXCEPT ![Me(s)] = new_state]
          /\ self' = [self EXCEPT ![s] = Me(s)]
          /\ pc' = [pc EXCEPT ![s] = "park"]
          /\ irq' = [irq EXCEPT ![s] = FALSE]
          /\ cpu_id' = [cpu_id EXCEPT ![s] = 0]
     ELSE Return(s) /\ UNCHANGED state
  /\ UNCHANGED <<rsp, stack_base, pml4, wake_at, task_count, cpu_current_task,
                 runq, hw, ints, heap, owner, old>>

\* block_park leaves its sti;hlt loop once the task is RUNNING again.
BlockPark(c) ==
  LET s == exec[c] IN
  /\ At(c, "park")
  /\ state[self[s]] = "RUNNING"
  /\ Return(s)
  /\ UNCHANGED <<tcb, cpu_current_task, runq, hw, ints, heap, owner, old>>

\* unblock_task(t) called by a thread (a wait queue waking its waiter).
Unblock(c, t) ==
  LET s == exec[c] IN
  /\ At(c, "run")
  /\ state[t] \in Blocked
  /\ state' = UnblockState(t)
  /\ wake_at' = UnblockWakeAt(t)
  /\ IF OnCpu(t)
     THEN UNCHANGED <<pc, irq, self>>
     ELSE /\ Enter(c, "unblock", "push")
          /\ self' = [self EXCEPT ![s] = t]
  /\ UNCHANGED <<rsp, stack_base, pml4, task_count, cpu_current_task, runq, hw,
                 ints, heap, owner, cpu_id, old>>

\* Its runq_push; a full queue parks the task again.
UnblockPush(c, d) ==
  LET s == exec[c] t == self[s] IN
  /\ At(c, "push")
  /\ runq' = [runq EXCEPT ![d] = RunqPush(@, t)]
  /\ state' = IF RunqFull(runq[d]) /\ state[t] = "READY"
              THEN [state EXCEPT ![t] = "BLOCKED"] ELSE state
  /\ Return(s)
  /\ UNCHANGED <<rsp, stack_base, pml4, wake_at, task_count, cpu_current_task,
                 hw, ints, heap, owner, old>>

DeadSlots == {t \in 1 .. task_count - 1 : state[t] = "DEAD"}

\* The first DEAD slot, or a new one at task_count.
FreeSlot(t) ==
  IF DeadSlots # {} THEN t \in DeadSlots /\ \A u \in DeadSlots : t <= u
                    ELSE t = task_count /\ task_count < MAX_TASKS

CountWith(t)    == IF t = task_count THEN task_count + 1 ELSE task_count

\* A new stack with a fake interrupt frame, the TCB filled in under the lock.
CreateTask(c, t, n, user) ==
  LET s == exec[c] IN
  /\ At(c, "run")
  /\ FreeSlot(t)
  /\ n \notin alloc
  /\ alloc' = (alloc \cup {n}) \ {stack_base[t]}
  /\ as_live' = IF user THEN as_live \cup {n} ELSE as_live
  /\ state' = [state EXCEPT ![t] = "READY"]
  /\ rsp' = [rsp EXCEPT ![t] = n]
  /\ stack_base' = [stack_base EXCEPT ![t] = n]
  /\ pml4' = [pml4 EXCEPT ![t] = IF user THEN n ELSE Null]
  /\ wake_at' = [wake_at EXCEPT ![t] = "none"]
  /\ task_count' = CountWith(t)
  /\ owner' = [owner EXCEPT ![n] = t]
  /\ self' = [self EXCEPT ![s] = t, ![n] = NoTask]
  /\ \E on \in BOOLEAN :
       /\ on => "create" \in IrqOnCalls
       /\ irq' = [irq EXCEPT ![s] = on, ![n] = FALSE]
       /\ pc' = [pc EXCEPT ![s] = "push_new", ![n] = "run"]
  /\ UNCHANGED <<cpu_current_task, runq, hw, ints, cpu_id, old>>

\* create_task_prio and create_user_task.
CreateKernelTask(c, t, n) == CreateTask(c, t, n, FALSE)
CreateUserTask(c, t, n)   == CreateTask(c, t, n, TRUE)

\* The runq_push of a creation; a full queue gives slot and stack back, and
\* only create_user_task forgets stack_base; sys_spawn then destroys the
\* address space.
CreatePush(c, d) ==
  LET s == exec[c] t == self[s] IN
  /\ At(c, "push_new")
  /\ runq' = [runq EXCEPT ![d] = RunqPush(@, t)]
  /\ IF RunqFull(runq[d])
     THEN /\ state' = [state EXCEPT ![t] = "DEAD"]
          /\ rsp' = [rsp EXCEPT ![t] = Null]
          /\ alloc' = alloc \ {stack_base[t]}
          /\ as_live' = as_live \ {pml4[t]}
          /\ stack_base' = IF pml4[t] # Null
                           THEN [stack_base EXCEPT ![t] = Null] ELSE stack_base
     ELSE UNCHANGED <<state, rsp, heap, stack_base>>
  /\ Return(s)
  /\ UNCHANGED <<pml4, wake_at, task_count, cpu_current_task, hw, ints,
                 owner, old>>

\* task_exit reads the CPU index on entry.
ExitRead(c) ==
  /\ At(c, "run")
  /\ owner[exec[c]] # 0
  /\ cpu_id' = [cpu_id EXCEPT ![exec[c]] = c]
  /\ Enter(c, "exit", "exit")
  /\ UNCHANGED <<tcb, cpu_current_task, runq, hw, ints, heap, owner, self, old>>

\* What the locked part of task_exit takes over from the slot, and the
\* cpu_current_task it leaves.
MutExitTakes(cur) == [stack |-> Null, as |-> pml4[cur]]
ExitTakes(cur)    == [stack |-> stack_base[cur], as |-> pml4[cur]]
MutExitCurrentBsp(s) == [cpu_current_task EXCEPT ![0] = NoTask]
ExitCurrent(s)       == [cpu_current_task EXCEPT ![cpu_id[s]] = NoTask]

\* The locked part of task_exit: stack and address space move to locals, the
\* slot becomes DEAD, the CPU read on entry has no current task any more.
ExitLocked(c) ==
  LET s   == exec[c]
      cur == cpu_current_task[cpu_id[s]]
  IN
  /\ At(c, "exit")
  /\ IF cur > 0 /\ cur < task_count
     THEN /\ old' = [old EXCEPT ![s] = ExitTakes(cur)]
          /\ stack_base' = [stack_base EXCEPT ![cur] = Null]
          /\ pml4' = [pml4 EXCEPT ![cur] = Null]
          /\ cr3' = IF pml4[cur] # Null THEN [cr3 EXCEPT ![c] = Null] ELSE cr3
          /\ state' = [state EXCEPT ![cur] = "DEAD"]
          /\ rsp' = [rsp EXCEPT ![cur] = Null]
     ELSE UNCHANGED <<old, stack_base, pml4, cr3, state, rsp>>
  /\ cpu_current_task' = ExitCurrent(s)
  /\ pc' = [pc EXCEPT ![s] = "teardown"]
  /\ UNCHANGED <<wake_at, task_count, runq, exec, rsp0, ints, heap, owner, irq,
                 cpu_id, self>>

\* vmm_destroy_address_space(dead_pml4), still on the old stack.
ExitTeardown(c) ==
  LET s == exec[c] IN
  /\ At(c, "teardown")
  /\ as_live' = as_live \ {old[s].as}
  /\ pc' = [pc EXCEPT ![s] = "leave"]
  /\ UNCHANGED <<tcb, cpu_current_task, runq, hw, ints, alloc, owner, irq,
                 cpu_id, self, old>>

\* task_exit_via_idle: RSP moves to the idle stack of the CPU read on entry,
\* task_exit_finish_on_idle frees the old stack there.
ExitLeave(c) ==
  LET s == exec[c] IN
  /\ At(c, "leave")
  /\ exec' = [exec EXCEPT ![c] = cpu_id[s]]
  /\ alloc' = alloc \ {old[s].stack}
  /\ pc' = [pc EXCEPT ![s] = "free"]
  /\ irq' = [irq EXCEPT ![s] = FALSE]
  /\ cpu_id' = [cpu_id EXCEPT ![s] = 0]
  /\ old' = [old EXCEPT ![s] = NoOld]
  /\ UNCHANGED <<tcb, cpu_current_task, runq, cr3, rsp0, ints, as_live, owner, self>>

-----------------------------------------------------------------------------
SleepPrepare(c) == BlockPrepare(c, "prep_sleep", "SLEEPING")
WaitPrepare(c)  == BlockPrepare(c, "prep_block", "BLOCKED")

\* Steps a thread takes inside a call, without the choice of a new call.
CallStep(c) ==
  \/ SleepArm(c)
  \/ SleepPrepare(c)
  \/ WaitPrepare(c)
  \/ BlockPark(c)
  \/ \E d \in CPUS : UnblockPush(c, d)
  \/ \E d \in CPUS : CreatePush(c, d)
  \/ ExitLocked(c)
  \/ ExitTeardown(c)
  \/ ExitLeave(c)

NewCall(c) ==
  \/ SleepRead(c)
  \/ BlockRead(c)
  \/ \E t \in TaskIds : Unblock(c, t)
  \/ \E t \in TaskIds, n \in Stacks : \/ CreateKernelTask(c, t, n)
                                      \/ CreateUserTask(c, t, n)
  \/ ExitRead(c)

Schedule(c) == ScheduleNone(c) \/ ScheduleNext(c)

\* Everything CPU c does.
CpuStep(c) ==
  \/ CallStep(c)
  \/ NewCall(c)
  \/ Schedule(c)
  \/ Iret(c)
  \/ IdleLoop(c)
  \/ c = 0 /\ (TimerTick \/ SleepqUnblock \/ SleepqPush)

Next ==
  \/ \E c \in CPUS : CpuStep(c)
  \/ \E t \in TaskIds : TimePasses(t)

Spec == Init /\ [][Next]_vars

\* Fairness.  A thread on a CPU keeps executing; a handler runs to its end; a
\* timer interrupt stays latched until interrupts are enabled, so it is taken
\* if they are enabled again and again; the clock advances.
Fairness ==
  /\ \A c \in CPUS : WF_vars(CallStep(c)) /\ WF_vars(Iret(c))
  /\ \A c \in CPUS : SF_vars(Schedule(c))
  /\ SF_vars(TimerTick)
  /\ WF_vars(SleepqUnblock) /\ WF_vars(SleepqPush)
  /\ \A t \in TaskIds : WF_vars(TimePasses(t))

FairSpec == Spec /\ Fairness

-----------------------------------------------------------------------------
(* Properties *)

\* Where a READY task can be: a run-queue entry, or the runq_push that an
\* unblock_task or a creation has still to do after releasing scheduler_lock.
Queued(t)    == \E c \in CPUS : \E i \in 1 .. Len(runq[c]) : runq[c][i] = t
Pushes(s, t) == pc[s] \in {"push", "push_new"} /\ self[s] = t
IsrPushes(t) == isr[0] = "push" /\ FirstWake(t)
IsCurrent(t) == \E c \in CPUS : cpu_current_task[c] = t

\* runqueue.c:4-8 "present in EXACTLY ONE run queue; a RUNNING task is in
\* none", with the pushes in flight made explicit: a task that has a place is
\* READY, and no task has two places.
NeverTwice ==
  /\ \A t \in TaskIds :
       Queued(t) \/ (\E s \in AllStacks : Pushes(s, t)) \/ IsrPushes(t)
         => state[t] = "READY"
  /\ \A c, d \in CPUS : \A i \in 1 .. Len(runq[c]), j \in 1 .. Len(runq[d]) :
       runq[c][i] = runq[d][j] => c = d /\ i = j
  /\ \A t \in TaskIds, s \in AllStacks :
       Pushes(s, t) =>
         /\ ~Queued(t)
         /\ ~IsrPushes(t)
         /\ \A u \in AllStacks : Pushes(u, t) => u = s
  /\ \A t \in TaskIds : IsrPushes(t) => ~Queued(t)

\* A task is the current task of at most one CPU, and it is RUNNING, asleep or
\* blocked there.  (core.c:113-115 "it can never run on two cores at once", as
\* far as the TCBs tell.)
OneCpuPerTask ==
  /\ \A c, d \in CPUS : cpu_current_task[c] = cpu_current_task[d] /\ c # d
                          => cpu_current_task[c] = NoTask
  /\ \A c \in CPUS : cpu_current_task[c] # NoTask
                       => state[cpu_current_task[c]] \in {"RUNNING"} \cup Blocked

\* The other half of runqueue.c:4-8: no task is lost.  A READY task is queued
\* or about to be, a RUNNING task is the current task of some CPU.
NoTaskLost ==
  \A t \in TaskIds :
    /\ state[t] = "READY" =>
         Queued(t) \/ (\E s \in AllStacks : Pushes(s, t)) \/ IsrPushes(t)
    /\ state[t] = "RUNNING" => IsCurrent(t)

\* The stack CPU c is on once its interrupt handler has returned.
StackOf(c) == IF isr[c] = "iret" THEN resume[c] ELSE exec[c]

\* core.c:35-37: what cpu_current_task says of a CPU is what the CPU executes;
\* it says "idle" on the idle stack and from the moment task_exit gave up the
\* slot.
CurrentIsTrue ==
  \A c \in CPUS :
    LET s == StackOf(c) IN
    IF s \in CPUS
    THEN s = c /\ cpu_current_task[c] = NoTask
    ELSE cpu_current_task[c] =
           IF pc[s] \in {"teardown", "leave"} THEN NoTask ELSE owner[s]

\* core.c:113-115 taken at its word: no two CPUs execute on one stack.
OneCpuPerStack ==
  \A c, d \in CPUS : exec[c] = exec[d] => c = d

\* The same of the frames the handlers have chosen: no two CPUs return to one
\* stack, and none returns to a stack another CPU is not about to leave.
OneReturnPerStack ==
  \A c, d \in CPUS : StackOf(c) = StackOf(d) => c = d

\* The stack of a live task.
TaskStack(t) == IF t = 0 THEN BootStack ELSE stack_base[t]

\* FIX_001 (lifecycle.c:45-51, 430-435): a CPU never executes on a freed
\* stack, no stack has two owners, none is leaked: it belongs to a live TCB or
\* to the exiting thread that will free it.
StackOwnership ==
  /\ \A c \in CPUS : exec[c] \in Stacks => exec[c] \in alloc
  /\ \A t \in TaskIds : state[t] # "DEAD" => TaskStack(t) \in alloc \cup {BootStack}
  /\ \A t, u \in TaskIds : stack_base[t] = stack_base[u] /\ t # u => stack_base[t] = Null
  /\ \A n \in alloc :
       \/ \E t \in TaskIds : stack_base[t] = n /\ state[t] # "DEAD" /\ owner[n] = t
       \/ pc[n] \in {"teardown", "leave"} /\ old[n].stack = n

\* A READY or blocked task that is on no CPU resumes on its own stack, inside
\* its own call: the frame saved last is the one of that stack.
FrameOnOwnStack ==
  \A t \in TaskIds :
    state[t] # "DEAD" /\ ~IsCurrent(t) => rsp[t] = TaskStack(t)

\* The switch carries the whole context (core.c:164-201): the task a CPU runs
\* has its own address space in CR3 and its own kernel stack in RSP0, and no
\* CPU keeps a destroyed address space in CR3.
ContextFollowsTask ==
  \A c \in CPUS :
    /\ cpu_current_task[c] # NoTask =>
         /\ cr3[c] = pml4[cpu_current_task[c]]
         /\ rsp0[c] = stack_base[cpu_current_task[c]]
    /\ cr3[c] # Null => cr3[c] \in as_live

\* Every task is somewhere it can be found, and a CPU's current task is the one whose
\* code it executes.
TasksKept == TypeOK /\ NoTaskLost /\ CurrentIsTrue

\* A stack has one owner and one way back into it, the frame saved for a task lies on
\* the stack of that task, and CR3 and RSP0 are those of the task that runs.
StacksSound == OneReturnPerStack /\ StackOwnership /\ FrameOnOwnStack /\ ContextFollowsTask

\* core.c:35-37 "Each entry is written only by its own CPU".
OwnEntryOnly ==
  [][\A c \in CPUS : cpu_current_task'[c] # cpu_current_task[c] => CpuStep(c)]_vars

\* block.c:33-34: block_prepare puts to sleep the task that called it.
BlocksOnlyItself ==
  [][\A s \in AllStacks :
       pc[s] # "park" /\ pc'[s] = "park" => self'[s] = owner[s]]_vars

\* A sleeper is woken (block.c:160-180), whatever else the CPUs do.
SleeperWakes ==
  \A t \in TaskIds : state[t] = "SLEEPING" ~> state[t] # "SLEEPING"

\* A thread that enters task_exit gives its stack back.
ExitReclaims ==
  \A s \in Stacks : pc[s] = "exit" ~> s \notin alloc

=============================================================================
