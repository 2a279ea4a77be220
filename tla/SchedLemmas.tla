---------------------------- MODULE SchedLemmas ----------------------------
(***************************************************************************)
(* The inductive invariant of Sched, the lemmas about the run queues, the  *)
(* steps that move no task, and the calls a thread makes into the          *)
(* scheduler.                                                              *)
(***************************************************************************)
EXTENDS Sched, TLAPS

\* Membership and uniqueness, as predicates of a set of queues.
InQ(q, t) == \E c \in CPUS : \E i \in 1 .. Len(q[c]) : q[c][i] = t
Unique(q) ==
  \A c, d \in CPUS : \A i \in 1 .. Len(q[c]), j \in 1 .. Len(q[d]) :
    q[c][i] = q[d][j] => c = d /\ i = j

\* The queues after a push to, or a pop from, the queue of CPU c.
PushAt(q, c, t) == [q EXCEPT ![c] = RunqPush(@, t)]
PopAt(q, c, i)  == [q EXCEPT ![c] = RunqPop(@, i)]

\* What NeverTwice and OneCpuPerTask need to be inductive: slots that were
\* never used are DEAD, a push in flight is of a real task, and a handler that
\* is about to return has a frame.
Aux ==
  /\ \A t \in TaskIds : t >= task_count => state[t] = "DEAD"
  /\ \A s \in AllStacks : pc[s] \in {"push", "push_new"} => self[s] \in TaskIds
  /\ \A c \in CPUS : isr[c] = "iret" => resume[c] # Null

IInv == TypeOK /\ NeverTwice /\ OneCpuPerTask /\ Aux

-----------------------------------------------------------------------------
(* The queue operations *)

\* runq_pop: the popped sequence is one shorter, with the gap filled by the
\* last entry.
LEMMA PopOne ==
  ASSUME NEW T, NEW q \in Seq(T), NEW i \in 1 .. Len(q)
  PROVE  /\ RunqPop(q, i) \in Seq(T)
         /\ Len(RunqPop(q, i)) = Len(q) - 1
         /\ \A j \in 1 .. Len(q) - 1 :
              RunqPop(q, i)[j] = IF j = i THEN q[Len(q)] ELSE q[j]
<1>1. Len(q) \in Nat /\ Len(q) - 1 \in Nat  OBVIOUS
<1>2. \A j \in 1 .. Len(q) - 1 : (IF j = i THEN q[Len(q)] ELSE q[j]) \in T
  OBVIOUS
<1>3. RunqPop(q, i) \in [1 .. Len(q) - 1 -> T]  BY <1>2, Zenon DEF RunqPop
<1>4. QED  BY <1>1, <1>3 DEF RunqPop

\* Popping entry i of queue c removes that task and nothing else.
LEMMA PopLemma ==
  ASSUME NEW q \in [CPUS -> Seq(TaskIds)], Unique(q),
         NEW c \in CPUS, NEW i \in 1 .. Len(q[c])
  PROVE  /\ PopAt(q, c, i) \in [CPUS -> Seq(TaskIds)]
         /\ Unique(PopAt(q, c, i))
         /\ \A t : InQ(PopAt(q, c, i), t) => InQ(q, t)
         /\ ~InQ(PopAt(q, c, i), q[c][i])
<1> DEFINE r == PopAt(q, c, i)
<1>0. q[c] \in Seq(TaskIds)  BY Zenon
<1>1. /\ r[c] = RunqPop(q[c], i)
      /\ \A d \in CPUS : d # c => r[d] = q[d]
  BY Zenon DEF PopAt
<1>2. /\ r[c] \in Seq(TaskIds)
      /\ Len(r[c]) = Len(q[c]) - 1
      /\ \A j \in 1 .. Len(q[c]) - 1 :
           r[c][j] = IF j = i THEN q[c][Len(q[c])] ELSE q[c][j]
  <2>1. /\ RunqPop(q[c], i) \in Seq(TaskIds)
        /\ Len(RunqPop(q[c], i)) = Len(q[c]) - 1
        /\ \A j \in 1 .. Len(q[c]) - 1 :
             RunqPop(q[c], i)[j] = IF j = i THEN q[c][Len(q[c])] ELSE q[c][j]
    BY ONLY <1>0, i \in 1 .. Len(q[c]), PopOne, Zenon
  <2> QED  BY <2>1, <1>1, Zenon
<1>3. r \in [CPUS -> Seq(TaskIds)]  BY <1>1, <1>2, Zenon DEF PopAt
<1> HIDE DEF r
<1> DEFINE src(d, j) == IF d = c /\ j = i THEN Len(q[c]) ELSE j
<1>4. \A d \in CPUS : \A j \in 1 .. Len(r[d]) :
        /\ src(d, j) \in 1 .. Len(q[d])
        /\ r[d][j] = q[d][src(d, j)]
        /\ ~(d = c /\ src(d, j) = i)
  <2> SUFFICES ASSUME NEW d \in CPUS, NEW j \in 1 .. Len(r[d])
               PROVE  /\ src(d, j) \in 1 .. Len(q[d])
                      /\ r[d][j] = q[d][src(d, j)]
                      /\ ~(d = c /\ src(d, j) = i)
    BY Zenon
  <2>1. CASE d = c  BY <2>1, <1>0, <1>2
  <2>2. CASE d # c  BY <2>2, <1>1, Zenon
  <2> QED  BY <2>1, <2>2, Zenon
<1>5. \A d \in CPUS : \A j, k \in 1 .. Len(r[d]) : src(d, j) = src(d, k) => j = k
  <2> SUFFICES ASSUME NEW d \in CPUS, NEW j \in 1 .. Len(r[d]),
                      NEW k \in 1 .. Len(r[d]), src(d, j) = src(d, k)
               PROVE  j = k
    BY Zenon
  <2>1. CASE d = c  BY <2>1, <1>0, <1>2
  <2>2. CASE d # c  BY <2>2, Zenon
  <2> QED  BY <2>1, <2>2, Zenon
<1>6. Unique(r)
  <2> SUFFICES ASSUME NEW d \in CPUS, NEW e \in CPUS,
                      NEW j \in 1 .. Len(r[d]), NEW k \in 1 .. Len(r[e]),
                      r[d][j] = r[e][k]
               PROVE  d = e /\ j = k
    BY Zenon DEF Unique
  <2>1. PICK m \in 1 .. Len(q[d]) : m = src(d, j) /\ r[d][j] = q[d][m]  BY <1>4, Zenon
  <2>2. PICK n \in 1 .. Len(q[e]) : n = src(e, k) /\ r[e][k] = q[e][n]  BY <1>4, Zenon
  <2>3. q[d][m] = q[e][n]  BY <2>1, <2>2, Zenon
  <2>4. d = e /\ m = n  BY <2>3 DEF Unique
  <2> QED  BY <2>1, <2>2, <2>4, <1>5, Zenon
<1>7. \A t : InQ(r, t) => InQ(q, t)
  <2> SUFFICES ASSUME NEW t, NEW d \in CPUS, NEW j \in 1 .. Len(r[d]), r[d][j] = t
               PROVE  \E e \in CPUS : \E k \in 1 .. Len(q[e]) : q[e][k] = t
    BY Zenon DEF InQ
  <2>1. PICK m \in 1 .. Len(q[d]) : r[d][j] = q[d][m]  BY <1>4, Zenon
  <2> QED  BY <2>1, Zenon
<1>8. ~InQ(r, q[c][i])
  <2> SUFFICES ASSUME NEW d \in CPUS, NEW j \in 1 .. Len(r[d]), r[d][j] = q[c][i]
               PROVE  FALSE
    BY Zenon DEF InQ
  <2>1. PICK m \in 1 .. Len(q[d]) : r[d][j] = q[d][m] /\ ~(d = c /\ m = i)  BY <1>4
  <2>2. q[d][m] = q[c][i]  BY <2>1, Zenon
  <2>3. d = c /\ m = i  BY <2>2 DEF Unique
  <2> QED  BY <2>1, <2>3, Zenon
<1> QED  BY <1>3, <1>6, <1>7, <1>8, Zenon DEF r

\* Pushing a task that is in no queue keeps the queues free of duplicates.
LEMMA PushLemma ==
  ASSUME NEW q \in [CPUS -> Seq(TaskIds)], Unique(q),
         NEW c \in CPUS, NEW t \in TaskIds, ~InQ(q, t)
  PROVE  /\ PushAt(q, c, t) \in [CPUS -> Seq(TaskIds)]
         /\ Unique(PushAt(q, c, t))
         /\ \A u : InQ(PushAt(q, c, t), u) => InQ(q, u) \/ u = t
<1> DEFINE r == PushAt(q, c, t)
<1>0. q[c] \in Seq(TaskIds)  BY Zenon
<1>1. /\ r[c] = RunqPush(q[c], t)
      /\ \A d \in CPUS : d # c => r[d] = q[d]
  BY Zenon DEF PushAt
<1>2. /\ r[c] \in Seq(TaskIds)
      /\ Len(r[c]) \in {Len(q[c]), Len(q[c]) + 1}
      /\ \A j \in 1 .. Len(q[c]) : r[c][j] = q[c][j]
      /\ Len(r[c]) = Len(q[c]) + 1 => r[c][Len(q[c]) + 1] = t
  <2>1. /\ RunqPush(q[c], t) \in Seq(TaskIds)
        /\ Len(RunqPush(q[c], t)) \in {Len(q[c]), Len(q[c]) + 1}
        /\ \A j \in 1 .. Len(q[c]) : RunqPush(q[c], t)[j] = q[c][j]
        /\ Len(RunqPush(q[c], t)) = Len(q[c]) + 1
             => RunqPush(q[c], t)[Len(q[c]) + 1] = t
    BY <1>0 DEF RunqPush
  <2> QED  BY <2>1, <1>1, Zenon
<1>3. r \in [CPUS -> Seq(TaskIds)]  BY <1>1, <1>2, Zenon DEF PushAt
<1> HIDE DEF r
<1>4. \A d \in CPUS : \A j \in 1 .. Len(r[d]) :
        \/ j \in 1 .. Len(q[d]) /\ r[d][j] = q[d][j]
        \/ d = c /\ j = Len(q[c]) + 1 /\ r[d][j] = t
  <2> SUFFICES ASSUME NEW d \in CPUS, NEW j \in 1 .. Len(r[d])
               PROVE  \/ j \in 1 .. Len(q[d]) /\ r[d][j] = q[d][j]
                      \/ d = c /\ j = Len(q[c]) + 1 /\ r[d][j] = t
    BY Zenon
  <2>1. CASE d = c  BY <2>1, <1>0, <1>2
  <2>2. CASE d # c  BY <2>2, <1>1, Zenon
  <2> QED  BY <2>1, <2>2, Zenon
<1>5. \A d \in CPUS : \A j \in 1 .. Len(q[d]) : q[d][j] # t  BY Zenon DEF InQ
<1>6. Unique(r)
  <2> SUFFICES ASSUME NEW d \in CPUS, NEW e \in CPUS,
                      NEW j \in 1 .. Len(r[d]), NEW k \in 1 .. Len(r[e]),
                      r[d][j] = r[e][k]
               PROVE  d = e /\ j = k
    BY Zenon DEF Unique
  <2>1. CASE r[d][j] = t
    <3>1. d = c /\ j = Len(q[c]) + 1  BY <1>4, <1>5, <2>1, Zenon
    <3>2. e = c /\ k = Len(q[c]) + 1  BY <1>4, <1>5, <2>1, Zenon
    <3> QED  BY <3>1, <3>2, Zenon
  <2>2. CASE r[d][j] # t
    <3>1. j \in 1 .. Len(q[d]) /\ r[d][j] = q[d][j]  BY <1>4, <2>2, Zenon
    <3>2. k \in 1 .. Len(q[e]) /\ r[e][k] = q[e][k]  BY <1>4, <2>2, Zenon
    <3>3. q[d][j] = q[e][k]  BY <3>1, <3>2, Zenon
    <3> QED  BY <3>1, <3>2, <3>3 DEF Unique
  <2> QED  BY <2>1, <2>2, Zenon
<1>7. \A u : InQ(r, u) => InQ(q, u) \/ u = t  BY <1>4, Zenon DEF InQ
<1> QED  BY <1>3, <1>6, <1>7, Zenon DEF r

-----------------------------------------------------------------------------
(* The inductive invariant *)

\* NeverTwice, with the queues seen through InQ and Unique.
OnePlace(t) ==
  /\ InQ(runq, t) => state[t] = "READY"
  /\ \A s \in AllStacks :
       Pushes(s, t) => /\ state[t] = "READY"
                       /\ ~InQ(runq, t)
                       /\ ~IsrPushes(t)
                       /\ \A u \in AllStacks : Pushes(u, t) => u = s
  /\ IsrPushes(t) => state[t] = "READY" /\ ~InQ(runq, t)
NoTwo == Unique(runq) /\ \A t \in TaskIds : OnePlace(t)

\* NoTwo is NeverTwice, the invariant of runqueue.c:4-8, in terms of InQ and
\* Unique; also of the next state.
LEMMA NoTwoIsNeverTwice == (NeverTwice <=> NoTwo) /\ (NeverTwice' <=> NoTwo')
<1>1. NeverTwice <=> NoTwo
  BY Zenon DEF NeverTwice, NoTwo, OnePlace, Queued, InQ, Unique
<1>2. NeverTwice' <=> NoTwo'
  BY Zenon DEF NeverTwice, NoTwo, OnePlace, Queued, InQ, Unique
<1> QED  BY <1>1, <1>2, Zenon

\* A step preserves NoTwo if it gives no new place to, and takes READY from,
\* no task outside X, and the tasks in X have at most one place afterwards.
LEMMA MoveStep ==
  ASSUME NoTwo, Unique(runq'), NEW X \in SUBSET TaskIds,
         \A t \in TaskIds \ X : state[t] = "READY" => state'[t] = "READY",
         \A t \in TaskIds \ X : InQ(runq', t) => InQ(runq, t),
         \A t \in TaskIds \ X : \A s \in AllStacks : Pushes(s, t)' => Pushes(s, t),
         \A t \in TaskIds \ X : IsrPushes(t)' => IsrPushes(t),
         \A t \in X : OnePlace(t)'
  PROVE  NoTwo'
<1> SUFFICES ASSUME NEW t \in TaskIds PROVE OnePlace(t)'  BY Zenon DEF NoTwo
<1>1. CASE t \in X  BY <1>1, Zenon
<1>2. CASE t \in TaskIds \ X
  <2>1. OnePlace(t)  BY Zenon DEF NoTwo
  <2>2. /\ InQ(runq', t) => InQ(runq, t)
        /\ \A s \in AllStacks : Pushes(s, t)' => Pushes(s, t)
        /\ IsrPushes(t)' => IsrPushes(t)
        /\ state[t] = "READY" => state'[t] = "READY"
    BY <1>2, Zenon
  <2> QED  BY <2>1, <2>2, Zenon DEF OnePlace
<1> QED  BY <1>1, <1>2, Zenon

\* The same for a step about one task.
LEMMA MoveOne ==
  ASSUME NoTwo, Unique(runq'), NEW x \in TaskIds,
         \A t \in TaskIds : t # x /\ state[t] = "READY" => state'[t] = "READY",
         \A t \in TaskIds : t # x /\ InQ(runq', t) => InQ(runq, t),
         \A t \in TaskIds : \A s \in AllStacks : t # x /\ Pushes(s, t)' => Pushes(s, t),
         \A t \in TaskIds : t # x /\ IsrPushes(t)' => IsrPushes(t),
         OnePlace(x)'
  PROVE  NoTwo'
<1> DEFINE X == {x}
<1>1. X \in SUBSET TaskIds /\ \A t \in X : OnePlace(t)'  BY Zenon
<1>2. /\ \A t \in TaskIds \ X : state[t] = "READY" => state'[t] = "READY"
      /\ \A t \in TaskIds \ X : InQ(runq', t) => InQ(runq, t)
      /\ \A t \in TaskIds \ X : \A s \in AllStacks : Pushes(s, t)' => Pushes(s, t)
      /\ \A t \in TaskIds \ X : IsrPushes(t)' => IsrPushes(t)
  BY Zenon
<1> HIDE DEF X
<1> QED  BY <1>1, <1>2, MoveStep, Zenon

\* A step that leaves task states alone and adds neither an entry nor a push.
LEMMA ShrinkStep ==
  ASSUME NoTwo, Unique(runq'), state' = state,
         \A t \in TaskIds : InQ(runq', t) => InQ(runq, t),
         \A t \in TaskIds : \A s \in AllStacks : Pushes(s, t)' => Pushes(s, t),
         \A t \in TaskIds : IsrPushes(t)' => IsrPushes(t)
  PROVE  NoTwo'
<1> DEFINE X == {}
<1>1. X \in SUBSET TaskIds /\ \A t \in X : OnePlace(t)'  BY Zenon
<1>2. /\ \A t \in TaskIds \ X : state[t] = "READY" => state'[t] = "READY"
      /\ \A t \in TaskIds \ X : InQ(runq', t) => InQ(runq, t)
      /\ \A t \in TaskIds \ X : \A s \in AllStacks : Pushes(s, t)' => Pushes(s, t)
      /\ \A t \in TaskIds \ X : IsrPushes(t)' => IsrPushes(t)
  BY Zenon
<1> HIDE DEF X
<1> QED  BY <1>1, <1>2, MoveStep, Zenon

\* A step that leaves task states and queues alone, starts no push, and gives
\* no CPU a current task, preserves the invariant.
LEMMA QuietStep ==
  ASSUME IInv, TypeOK',
         UNCHANGED <<state, runq, task_count>>,
         \A c \in CPUS : cpu_current_task'[c] \in {cpu_current_task[c], NoTask},
         \A t \in TaskIds : IsrPushes(t)' => IsrPushes(t),
         \A s \in AllStacks : pc'[s] \in {"push", "push_new"} =>
            pc[s] \in {"push", "push_new"} /\ self'[s] = self[s],
         \A c \in CPUS : isr'[c] = "iret" => resume'[c] # Null
  PROVE  IInv'
<1>1. \A t \in TaskIds : \A s \in AllStacks : Pushes(s, t)' => Pushes(s, t)
  BY Zenon DEF Pushes
<1>2. NoTwo /\ OneCpuPerTask /\ Aux  BY NoTwoIsNeverTwice, Zenon DEF IInv
<1>3. NoTwo'
  <2>1. runq' = runq /\ state' = state /\ Unique(runq')  BY <1>2, Zenon DEF NoTwo
  <2> QED  BY <1>1, <1>2, <2>1, ShrinkStep, Zenon
<1>4. OneCpuPerTask'  BY <1>2, Zenon DEF OneCpuPerTask
<1>5. Aux'  BY <1>2, Zenon DEF Aux
<1> QED  BY <1>3, <1>4, <1>5, NoTwoIsNeverTwice, Zenon DEF IInv

-----------------------------------------------------------------------------
(* Steps that touch neither task states nor queues *)

\* The clock passing a deadline disturbs no queue.
LEMMA TimePassesInv ==
  ASSUME IInv, NEW t \in TaskIds, TimePasses(t)
  PROVE  IInv'
<1>1. TypeOK'
  BY Zenon DEF TimePasses, IInv, TypeOK, hw, ints, heap, thread
<1>2. \A u \in TaskIds : IsrPushes(u)' => IsrPushes(u)
  BY Zenon DEF TimePasses, IsrPushes, FirstWake, ints
<1>3. /\ UNCHANGED <<state, runq, task_count, cpu_current_task, pc, self>>
      /\ \A c \in CPUS : isr'[c] = "iret" => resume'[c] # Null
  BY Zenon DEF TimePasses, ints, thread, IInv, Aux
<1> QED  BY <1>1, <1>2, <1>3, QuietStep, Zenon

\* Collecting the due sleepers (sleepq_check_wakeups) starts no push yet.
LEMMA TimerTickInv ==
  ASSUME IInv, TimerTick
  PROVE  IInv'
<1> USE SchedAssumption
<1>1. TypeOK'
  BY Zenon DEF TimerTick, DueSleepers, IInv, TypeOK, tcb, hw, heap, thread
<1>2. isr'[0] = "wake"  BY Zenon DEF TimerTick, IInv, TypeOK
<1>3. \A u \in TaskIds : IsrPushes(u)' => IsrPushes(u)  BY <1>2, Zenon DEF IsrPushes
<1>4. \A c \in CPUS : isr'[c] = "iret" => resume'[c] # Null
  BY <1>2, Zenon DEF TimerTick, IInv, Aux, TypeOK
<1>5. UNCHANGED <<state, runq, task_count, cpu_current_task, pc, self>>
  BY Zenon DEF TimerTick, tcb, thread
<1> QED  BY <1>1, <1>3, <1>4, <1>5, QuietStep, Zenon

\* The stack change of the interrupt stub touches no task.
LEMMA IretInv ==
  ASSUME IInv, NEW c \in CPUS, Iret(c)
  PROVE  IInv'
<1> USE SchedAssumption
<1>1. TypeOK'
  BY DEF Iret, IInv, TypeOK, Aux, tcb, hw, heap, thread
<1>2. \A u \in TaskIds : IsrPushes(u)' => IsrPushes(u)
  BY Zenon DEF Iret, IsrPushes, FirstWake, IInv, TypeOK
<1>3. \A d \in CPUS : isr'[d] = "iret" => resume'[d] # Null
  BY Zenon DEF Iret, IInv, Aux, TypeOK
<1>4. UNCHANGED <<state, runq, task_count, cpu_current_task, pc, self>>
  BY Zenon DEF Iret, tcb, thread
<1> QED  BY <1>1, <1>2, <1>3, <1>4, QuietStep, Zenon

\* scheduler_idle_loop only gives up a current task.
LEMMA IdleLoopInv ==
  ASSUME IInv, NEW c \in CPUS, IdleLoop(c)
  PROVE  IInv'
<1>1. TypeOK'
  BY Zenon DEF IdleLoop, IInv, TypeOK, tcb, hw, ints, heap, thread
<1>2. \A u \in TaskIds : IsrPushes(u)' => IsrPushes(u)
  BY SMTT(30) DEF IdleLoop, IsrPushes, FirstWake, ints
<1>3. /\ UNCHANGED <<state, runq, task_count, pc, self>>
      /\ \A d \in CPUS : isr'[d] = "iret" => resume'[d] # Null
  BY Zenon DEF IdleLoop, tcb, ints, thread, IInv, Aux
<1>4. \A d \in CPUS : cpu_current_task'[d] \in {cpu_current_task[d], NoTask}
  BY Zenon DEF IdleLoop, IInv, TypeOK
<1> QED  BY <1>1, <1>2, <1>3, <1>4, QuietStep, Zenon

\* Calls that only move the program counter and locals of one thread.
LEMMA LocalInv ==
  ASSUME IInv, NEW c \in CPUS,
         \/ SleepRead(c) \/ SleepArm(c) \/ BlockRead(c) \/ BlockPark(c)
         \/ ExitRead(c) \/ ExitTeardown(c) \/ ExitLeave(c)
  PROVE  IInv'
<1> USE SchedAssumption
<1>1. TypeOK'
  <2>1. CASE SleepRead(c)
    BY <2>1, SMTT(30) DEF SleepRead, Enter, At, IInv, TypeOK, PCs, tcb, hw, ints, heap
  <2>2. CASE SleepArm(c)
    <3>1. /\ exec[c] \in AllStacks
          /\ wake_at' \in [TaskIds -> {"none", "set", "due"}]
          /\ cpu_id' \in [AllStacks -> CPUS]
          /\ pc' \in [AllStacks -> PCs]
          /\ irq' \in [AllStacks -> BOOLEAN]
          /\ self' \in [AllStacks -> TaskIds \cup {NoTask}]
      <4>0. /\ exec[c] \in AllStacks
            /\ wake_at \in [TaskIds -> {"none", "set", "due"}]
            /\ cpu_id \in [AllStacks -> CPUS]
            /\ pc \in [AllStacks -> PCs]
            /\ irq \in [AllStacks -> BOOLEAN]
            /\ self \in [AllStacks -> TaskIds \cup {NoTask}]
        BY <2>2, Zenon DEF SleepArm, At, IInv, TypeOK
      <4>1. CASE Me(exec[c]) \in 0 .. task_count - 1
        BY <2>2, <4>0, <4>1 DEF SleepArm, PCs
      <4>2. CASE Me(exec[c]) \notin 0 .. task_count - 1
        <5>1. Return(exec[c]) /\ UNCHANGED wake_at  BY <2>2, <4>2, SMTT(30) DEF SleepArm
        <5> QED  BY <4>0, <5>1, Zenon DEF Return, PCs
      <4> QED  BY <4>0, <4>1, <4>2, Zenon
    <3> QED  BY <2>2, <3>1, Zenon DEF SleepArm, IInv, TypeOK, hw, ints, heap
  <2>3. CASE BlockRead(c)
    BY <2>3, SMTT(30) DEF BlockRead, At, IInv, TypeOK, PCs, tcb, hw, ints, heap
  <2>4. CASE BlockPark(c)
    BY <2>4, SMTT(30) DEF BlockPark, Return, At, IInv, TypeOK, PCs, tcb, hw, ints, heap
  <2>5. CASE ExitRead(c)
    BY <2>5, SMTT(30) DEF ExitRead, Enter, At, IInv, TypeOK, PCs, tcb, hw, ints, heap
  <2>6. CASE ExitTeardown(c)
    BY <2>6, SMTT(30) DEF ExitTeardown, At, IInv, TypeOK, PCs, tcb, hw, ints
  <2>7. CASE ExitLeave(c)
    BY <2>7, SMTT(30) DEF ExitLeave, At, IInv, TypeOK, PCs, tcb, ints, NoOld
  <2> QED  BY <2>1, <2>2, <2>3, <2>4, <2>5, <2>6, <2>7, SMTT(30)
<1>2. UNCHANGED <<state, runq, task_count, cpu_current_task, isr, resume, wake>>
  BY Zenon DEF SleepRead, SleepArm, BlockRead, BlockPark, ExitRead, ExitTeardown,
         ExitLeave, tcb, ints
<1>3. \A s \in AllStacks : pc'[s] \in {"push", "push_new"} =>
        pc[s] \in {"push", "push_new"} /\ self'[s] = self[s]
  <2>1. /\ exec[c] \in AllStacks
        /\ pc \in [AllStacks -> PCs]
        /\ self \in [AllStacks -> TaskIds \cup {NoTask}]
    BY Zenon DEF SleepRead, SleepArm, BlockRead, BlockPark, ExitRead, ExitTeardown,
           ExitLeave, At, IInv, TypeOK
  <2>2. \/ SleepArm(c) /\ Return(exec[c])
        \/ BlockPark(c)
        \/ /\ self' = self
           /\ \E label \in {"arm", "prep_sleep", "prep_block", "exit", "leave", "free"} :
                pc' = [pc EXCEPT ![exec[c]] = label]
    BY Zenon DEF SleepRead, SleepArm, BlockRead, ExitRead, ExitTeardown, ExitLeave, Enter
  <2>3. \A s \in AllStacks : s # exec[c] => pc'[s] = pc[s] /\ self'[s] = self[s]
    BY <2>1, <2>2, Zenon DEF BlockPark, Return
  <2>4. pc'[exec[c]] \notin {"push", "push_new"}
    BY <2>1, <2>2, Zenon DEF BlockPark, Return
  <2> QED  BY <2>3, <2>4, SMTT(30)
<1>4. \A u \in TaskIds : IsrPushes(u)' => IsrPushes(u)
  BY <1>2, Zenon DEF IsrPushes, FirstWake
<1>5. \A d \in CPUS : isr'[d] = "iret" => resume'[d] # Null
  BY <1>2, Zenon DEF IInv, Aux
<1> QED  BY <1>1, <1>2, <1>3, <1>4, <1>5, QuietStep, Zenon


-----------------------------------------------------------------------------
(* Blocking, waking, exiting *)

\* block_prepare turns a RUNNING task into a blocked one: it had no place.
LEMMA BlockPrepareInv ==
  ASSUME IInv, NEW c \in CPUS, NEW label,
         label \in {"prep_sleep", "prep_block"},
         NEW new_state \in Blocked, BlockPrepare(c, label, new_state)
  PROVE  IInv'
<1> USE SchedAssumption
<1> DEFINE s == exec[c]
<1>0. s \in AllStacks /\ pc[s] = label  BY Zenon DEF BlockPrepare, At
<1>1. CASE Me(s) \in 0 .. task_count - 1 /\ state[Me(s)] = "RUNNING"
  <2>0. PICK me \in TaskIds : me = Me(s)  BY <1>1 DEF IInv, TypeOK, TaskIds
  <2>1. /\ state' = [state EXCEPT ![me] = new_state]
        /\ self' = [self EXCEPT ![s] = me]
        /\ pc' = [pc EXCEPT ![s] = "park"]
        /\ irq' = [irq EXCEPT ![s] = FALSE]
        /\ cpu_id' = [cpu_id EXCEPT ![s] = 0]
    BY <1>1, <2>0, Zenon DEF BlockPrepare
  <2>10. state[me] = "RUNNING" /\ me < task_count  BY <1>1, <2>0 DEF IInv, TypeOK
  <2>2. UNCHANGED <<rsp, stack_base, pml4, wake_at, task_count, cpu_current_task,
                    runq, hw, ints, heap, owner, old>>
    BY Zenon DEF BlockPrepare
  <2>3. TypeOK'
    BY <1>0, <2>0, <2>1, <2>2, Zenon
    DEF IInv, TypeOK, PCs, States, Blocked, hw, ints, heap
  <2>4. NoTwo /\ OneCpuPerTask /\ Aux  BY NoTwoIsNeverTwice, Zenon DEF IInv
  <2>5. \A t \in TaskIds, u \in AllStacks : Pushes(u, t)' => Pushes(u, t) /\ t # me
    <3>1. \A t \in TaskIds, u \in AllStacks : Pushes(u, t)' => Pushes(u, t)
      BY <1>0, <2>1, Zenon DEF Pushes, IInv, TypeOK
    <3>2. \A u \in AllStacks : ~Pushes(u, me)
      BY <2>10, <2>4, Zenon DEF NoTwo, OnePlace
    <3> QED  BY <3>1, <3>2, Zenon
  <2>6. \A t \in TaskIds : IsrPushes(t)' => IsrPushes(t) /\ t # me
    <3>1. \A t \in TaskIds : IsrPushes(t)' => IsrPushes(t)
      BY <2>2, Zenon DEF IsrPushes, FirstWake, ints
    <3>2. ~IsrPushes(me)  BY <2>10, <2>4, Zenon DEF NoTwo, OnePlace
    <3> QED  BY <3>1, <3>2, Zenon
  <2>7. NoTwo'
    <3>1. \A t \in TaskIds : t # me => state'[t] = state[t]
      BY <2>1, Zenon DEF IInv, TypeOK
    <3>2. runq' = runq /\ Unique(runq') /\ ~InQ(runq, me)
      BY <2>10, <2>2, <2>4, Zenon DEF NoTwo, OnePlace
    <3>3. OnePlace(me)'  BY <2>5, <2>6, <3>2, Zenon DEF OnePlace
    <3> QED  BY <2>4, <2>5, <2>6, <3>1, <3>2, <3>3, MoveOne, Zenon
  <2>8. OneCpuPerTask'
    BY <2>10, <2>1, <2>2, <2>4, Zenon DEF OneCpuPerTask, IInv, TypeOK, Blocked
  <2>9. Aux'
    BY <1>0, <2>10, <2>1, <2>2, <2>4 DEF Aux, IInv, TypeOK, ints, TaskIds
  <2> QED  BY <2>3, <2>7, <2>8, <2>9, NoTwoIsNeverTwice, Zenon DEF IInv
<1>2. CASE ~(Me(s) \in 0 .. task_count - 1 /\ state[Me(s)] = "RUNNING")
  <2>1. Return(s) /\ UNCHANGED state  BY <1>2, Zenon DEF BlockPrepare
  <2>2. UNCHANGED <<rsp, stack_base, pml4, wake_at, task_count, cpu_current_task,
                    runq, hw, ints, heap, owner, old>>
    BY Zenon DEF BlockPrepare
  <2>3. TypeOK'
    BY <1>0, <2>1, <2>2, Zenon DEF Return, IInv, TypeOK, PCs, hw, ints, heap
  <2>4. \A u \in TaskIds : IsrPushes(u)' => IsrPushes(u)
    BY <2>2, Zenon DEF IsrPushes, FirstWake, ints
  <2>5. \A u \in AllStacks : pc'[u] \in {"push", "push_new"} =>
          pc[u] \in {"push", "push_new"} /\ self'[u] = self[u]
    BY <1>0, <2>1, Zenon DEF Return, IInv, TypeOK
  <2>6. /\ UNCHANGED <<state, runq, task_count>>
        /\ \A d \in CPUS : cpu_current_task'[d] \in {cpu_current_task[d], NoTask}
        /\ \A d \in CPUS : isr'[d] = "iret" => resume'[d] # Null
    BY <2>1, <2>2, Zenon DEF IInv, Aux, ints
  <2> QED  BY <2>3, <2>4, <2>5, <2>6, QuietStep, Zenon
<1> QED  BY <1>1, <1>2, Zenon

\* unblock_task from a thread: the woken task was blocked, so it had no place;
\* it gets the push of this thread, or stays the current task of its CPU.
LEMMA UnblockInv ==
  ASSUME IInv, NEW c \in CPUS, NEW t \in TaskIds, Unblock(c, t)
  PROVE  IInv'
<1> USE SchedAssumption
<1> DEFINE s == exec[c]
<1>0. s \in AllStacks /\ pc[s] = "run" /\ state[t] \in Blocked
  BY Zenon DEF Unblock, At
<1>1. NoTwo /\ OneCpuPerTask /\ Aux  BY NoTwoIsNeverTwice, Zenon DEF IInv
<1>2. UNCHANGED <<rsp, stack_base, pml4, task_count, cpu_current_task, runq, hw,
                  ints, heap, owner, cpu_id, old>>
  BY Zenon DEF Unblock
<1>3. /\ state' = [state EXCEPT ![t] = IF OnCpu(t) THEN "RUNNING" ELSE "READY"]
      /\ wake_at' = [wake_at EXCEPT ![t] = "none"]
  BY Zenon DEF Unblock, UnblockState, UnblockWakeAt
<1>4. ~InQ(runq, t) /\ ~IsrPushes(t) /\ \A u \in AllStacks : ~Pushes(u, t)
  BY <1>0, <1>1, Zenon DEF NoTwo, OnePlace, Blocked
<1>5. \A u \in TaskIds : IsrPushes(u)' <=> IsrPushes(u)
  BY <1>2, Zenon DEF IsrPushes, FirstWake, ints
<1>8. /\ \A u \in TaskIds : u # t => state'[u] = state[u]
      /\ state'[t] = IF OnCpu(t) THEN "RUNNING" ELSE "READY"
  BY <1>3, Zenon DEF IInv, TypeOK
<1>9. runq' = runq /\ Unique(runq')  BY <1>1, <1>2, Zenon DEF NoTwo
<1>6. CASE OnCpu(t)
  <2>1. UNCHANGED <<pc, irq, self>>  BY <1>6, Zenon DEF Unblock
  <2>2. TypeOK'
    BY <1>0, <1>2, <1>3, <1>6, <2>1, Zenon
    DEF IInv, TypeOK, States, hw, ints, heap
  <2>3. NoTwo'
    <3>1. \A u \in AllStacks, v \in TaskIds : Pushes(u, v)' <=> Pushes(u, v)
      BY <2>1, Zenon DEF Pushes
    <3>2. OnePlace(t)'  BY <1>4, <1>5, <1>9, <3>1, Zenon DEF OnePlace
    <3> QED  BY <1>1, <1>5, <1>8, <1>9, <3>1, <3>2, MoveOne, Zenon
  <2>4. OneCpuPerTask'
    BY <1>1, <1>2, <1>3, <1>6, Zenon DEF OneCpuPerTask, IInv, TypeOK
  <2>5. Aux'
    BY <1>0, <1>1, <1>2, <1>3, <2>1, Zenon DEF Aux, IInv, TypeOK, ints, Blocked
  <2> QED  BY <2>2, <2>3, <2>4, <2>5, NoTwoIsNeverTwice, Zenon DEF IInv
<1>7. CASE ~OnCpu(t)
  <2>1. /\ self' = [self EXCEPT ![s] = t]
        /\ pc' = [pc EXCEPT ![s] = "push"]
        /\ \E on \in BOOLEAN : irq' = [irq EXCEPT ![s] = on]
    BY <1>7, Zenon DEF Unblock, Enter
  <2>2. TypeOK'
    BY <1>0, <1>2, <1>3, <1>7, <2>1
    DEF IInv, TypeOK, States, PCs, hw, ints, heap
  <2>3. \A u \in AllStacks, v \in TaskIds :
          Pushes(u, v)' <=> (u = s /\ v = t) \/ (u # s /\ Pushes(u, v))
    BY <1>0, <2>1, Zenon DEF Pushes, IInv, TypeOK
  <2>4. NoTwo'
    <3>1. OnePlace(t)'  BY <1>4, <1>5, <1>7, <1>8, <1>9, <2>3, Zenon DEF OnePlace
    <3> QED  BY <1>1, <1>5, <1>8, <1>9, <2>3, <3>1, MoveOne, Zenon
  <2>5. OneCpuPerTask'
    BY <1>1, <1>2, <1>3, <1>7, Zenon DEF OneCpuPerTask, OnCpu, IInv, TypeOK
  <2>6. Aux'
    BY <1>0, <1>1, <1>2, <1>3, <2>1, Zenon DEF Aux, IInv, TypeOK, ints, Blocked
  <2> QED  BY <2>2, <2>4, <2>5, <2>6, NoTwoIsNeverTwice, Zenon DEF IInv
<1> QED  BY <1>6, <1>7, Zenon

\* Facts shared by the three pushes after an unlock: the task is READY and in
\* no queue, so pushing it keeps the queues unique, and it stops being in
\* flight.
LEMMA UnblockPushInv ==
  ASSUME IInv, NEW c \in CPUS, NEW d \in CPUS, UnblockPush(c, d)
  PROVE  IInv'
<1> USE SchedAssumption
<1> DEFINE s == exec[c]
<1>20. s \in AllStacks /\ pc[s] = "push" /\ self[s] \in TaskIds
  BY Zenon DEF UnblockPush, At, IInv, Aux
<1>21. PICK t \in TaskIds : t = self[s]  BY <1>20, Zenon
<1>0. s \in AllStacks /\ pc[s] = "push" /\ Pushes(s, t)
  BY <1>20, <1>21, Zenon DEF Pushes
<1>1. NoTwo /\ OneCpuPerTask /\ Aux  BY NoTwoIsNeverTwice, Zenon DEF IInv
<1>2. UNCHANGED <<rsp, stack_base, pml4, wake_at, task_count, cpu_current_task,
                  hw, ints, heap, owner, old>>
  BY Zenon DEF UnblockPush
<1>3. /\ runq' = [runq EXCEPT ![d] = RunqPush(@, t)]
      /\ state' = IF RunqFull(runq[d]) /\ state[t] = "READY"
                  THEN [state EXCEPT ![t] = "BLOCKED"] ELSE state
      /\ Return(s)
  BY <1>21, Zenon DEF UnblockPush
<1>4. /\ state[t] = "READY" /\ ~InQ(runq, t) /\ ~IsrPushes(t)
      /\ \A u \in AllStacks : Pushes(u, t) => u = s
  BY <1>0, <1>1, Zenon DEF NoTwo, OnePlace
<1>5. /\ runq' \in [CPUS -> Seq(TaskIds)]
      /\ Unique(runq')
      /\ \A u : InQ(runq', u) => InQ(runq, u) \/ u = t
  <2>1. runq \in [CPUS -> Seq(TaskIds)] /\ Unique(runq)
    BY <1>1, Zenon DEF IInv, TypeOK, NoTwo
  <2>2. t \in TaskIds /\ ~InQ(runq, t) /\ runq' = PushAt(runq, d, t)
    BY <1>0, <1>3, <1>4, SMTT(30) DEF PushAt
  <2> QED  BY ONLY <2>1, <2>2, d \in CPUS, PushLemma
<1>6. TypeOK'
  BY <1>0, <1>2, <1>3, <1>5, Zenon
  DEF Return, IInv, TypeOK, States, Blocked, PCs, hw, ints, heap
<1>7. \A u \in TaskIds : IsrPushes(u)' <=> IsrPushes(u)
  BY <1>2, Zenon DEF IsrPushes, FirstWake, ints
<1>8. \A u \in AllStacks, v \in TaskIds : Pushes(u, v)' <=> u # s /\ Pushes(u, v)
  BY <1>0, <1>3, Zenon DEF Return, Pushes, IInv, TypeOK
<1>9. RunqFull(runq[d]) => runq' = runq
  BY <1>3, Zenon DEF RunqPush, IInv, TypeOK
<1>10. NoTwo'
  <2>1. CASE RunqFull(runq[d])
    <3>1. state' = [state EXCEPT ![t] = "BLOCKED"]  BY <1>3, <1>4, <2>1, Zenon
    <3>2. \A u \in TaskIds : u # t => state'[u] = state[u]
      BY <3>1, Zenon DEF IInv, TypeOK
    <3>3. ~InQ(runq', t)  BY <1>4, <1>9, <2>1, Zenon
    <3>4. OnePlace(t)'  BY <1>0, <1>4, <1>7, <1>8, <3>3, Zenon DEF OnePlace
    <3> QED  BY <1>0, <1>1, <1>5, <1>7, <1>8, <3>2, <3>4, MoveOne, Zenon
  <2>2. CASE ~RunqFull(runq[d])
    <3>1. state' = state  BY <1>3, <2>2, Zenon
    <3>2. OnePlace(t)'  BY <1>0, <1>4, <1>7, <1>8, <3>1, SMTT(30) DEF OnePlace
    <3> QED  BY <1>0, <1>1, <1>5, <1>7, <1>8, <3>1, <3>2, MoveOne, Zenon
  <2> QED  BY <2>1, <2>2, SMTT(30)
<1>11. OneCpuPerTask'
  BY <1>1, <1>2, <1>3, <1>4, Zenon DEF OneCpuPerTask, IInv, TypeOK, Blocked
<1>12. Aux'
  BY <1>0, <1>1, <1>2, <1>3, <1>4, Zenon DEF Return, Aux, IInv, TypeOK, ints
<1> QED  BY <1>6, <1>10, <1>11, <1>12, NoTwoIsNeverTwice, Zenon DEF IInv

\* The push of a creation, and its rollback when the queue is full.
LEMMA CreatePushInv ==
  ASSUME IInv, NEW c \in CPUS, NEW d \in CPUS, CreatePush(c, d)
  PROVE  IInv'
<1> USE SchedAssumption
<1> DEFINE s == exec[c]
<1>20. s \in AllStacks /\ pc[s] = "push_new" /\ self[s] \in TaskIds
  BY Zenon DEF CreatePush, At, IInv, Aux
<1>21. PICK t \in TaskIds : t = self[s]  BY <1>20, Zenon
<1>0. s \in AllStacks /\ pc[s] = "push_new" /\ Pushes(s, t)
  BY <1>20, <1>21, Zenon DEF Pushes
<1>1. NoTwo /\ OneCpuPerTask /\ Aux  BY NoTwoIsNeverTwice, Zenon DEF IInv
<1>2. UNCHANGED <<pml4, wake_at, task_count, cpu_current_task, hw, ints, owner, old>>
  BY Zenon DEF CreatePush
<1>3. /\ runq' = [runq EXCEPT ![d] = RunqPush(@, t)]
      /\ Return(s)
  BY <1>21, Zenon DEF CreatePush
<1>4. /\ state[t] = "READY" /\ ~InQ(runq, t) /\ ~IsrPushes(t)
      /\ \A u \in AllStacks : Pushes(u, t) => u = s
  BY <1>0, <1>1, Zenon DEF NoTwo, OnePlace
<1>5. /\ runq' \in [CPUS -> Seq(TaskIds)]
      /\ Unique(runq')
      /\ \A u : InQ(runq', u) => InQ(runq, u) \/ u = t
  <2>1. runq \in [CPUS -> Seq(TaskIds)] /\ Unique(runq)
    BY <1>1, Zenon DEF IInv, TypeOK, NoTwo
  <2>2. t \in TaskIds /\ ~InQ(runq, t) /\ runq' = PushAt(runq, d, t)
    BY <1>0, <1>3, <1>4, SMTT(30) DEF PushAt
  <2> QED  BY ONLY <2>1, <2>2, d \in CPUS, PushLemma
<1>6. \/ /\ RunqFull(runq[d])
         /\ state' = [state EXCEPT ![t] = "DEAD"]
         /\ rsp' = [rsp EXCEPT ![t] = Null]
         /\ alloc' = alloc \ {stack_base[t]}
         /\ as_live' = as_live \ {pml4[t]}
         /\ stack_base' \in {stack_base, [stack_base EXCEPT ![t] = Null]}
      \/ ~RunqFull(runq[d]) /\ UNCHANGED <<state, rsp, alloc, as_live, stack_base>>
  BY <1>21, SMTT(30) DEF CreatePush, heap
<1>7. TypeOK'
  <2>1. /\ state' \in [TaskIds -> States]
        /\ rsp' \in [TaskIds -> AllStacks \cup CPUS \cup {Null}]
        /\ stack_base' \in [TaskIds -> Stacks \cup {Null}]
        /\ alloc' \subseteq Stacks /\ as_live' \subseteq Stacks
    BY <1>6, Zenon DEF IInv, TypeOK, States
  <2>2. /\ pc' \in [AllStacks -> PCs]
        /\ irq' \in [AllStacks -> BOOLEAN]
        /\ self' \in [AllStacks -> TaskIds \cup {NoTask}]
        /\ cpu_id' \in [AllStacks -> CPUS]
    BY <1>0, <1>3, Zenon DEF Return, IInv, TypeOK, PCs
  <2> QED  BY <1>2, <1>5, <2>1, <2>2, Zenon DEF IInv, TypeOK, hw, ints
<1>8. \A u \in TaskIds : IsrPushes(u)' <=> IsrPushes(u)
  BY <1>2, Zenon DEF IsrPushes, FirstWake, ints
<1>9. \A u \in AllStacks, v \in TaskIds : Pushes(u, v)' <=> u # s /\ Pushes(u, v)
  BY <1>0, <1>3, Zenon DEF Return, Pushes, IInv, TypeOK
<1>10. RunqFull(runq[d]) => runq' = runq
  BY <1>3, Zenon DEF RunqPush, IInv, TypeOK
<1>11. NoTwo'
  <2>1. CASE RunqFull(runq[d])
    <3>1. state' = [state EXCEPT ![t] = "DEAD"]  BY <1>6, <2>1, Zenon
    <3>2. \A u \in TaskIds : u # t => state'[u] = state[u]
      BY <3>1, Zenon DEF IInv, TypeOK
    <3>3. ~InQ(runq', t)  BY <1>4, <1>10, <2>1, Zenon
    <3>4. OnePlace(t)'  BY <1>0, <1>4, <1>8, <1>9, <3>3, Zenon DEF OnePlace
    <3> QED  BY <1>0, <1>1, <1>5, <1>8, <1>9, <3>2, <3>4, MoveOne, Zenon
  <2>2. CASE ~RunqFull(runq[d])
    <3>1. state' = state  BY <1>6, <2>2, Zenon
    <3>2. OnePlace(t)'  BY <1>0, <1>4, <1>8, <1>9, <3>1, Zenon DEF OnePlace
    <3> QED  BY <1>0, <1>1, <1>5, <1>8, <1>9, <3>1, <3>2, MoveOne, Zenon
  <2> QED  BY <2>1, <2>2, Zenon
<1>12. OneCpuPerTask'
  <2>1. \A e \in CPUS : cpu_current_task[e] # NoTask => cpu_current_task[e] # t
    BY <1>1, <1>4, Zenon DEF OneCpuPerTask, Blocked
  <2>2. \A u \in TaskIds : u # t => state'[u] = state[u]
    BY <1>6, Zenon DEF IInv, TypeOK
  <2>3. \A e \in CPUS : cpu_current_task[e] # NoTask => cpu_current_task[e] \in TaskIds
    BY SMTT(30) DEF IInv, TypeOK
  <2> QED  BY <1>1, <1>2, <2>1, <2>2, <2>3, Zenon DEF OneCpuPerTask
<1>13. Aux'
  BY <1>0, <1>1, <1>2, <1>3, <1>6, Zenon DEF Return, Aux, IInv, TypeOK, ints
<1> QED  BY <1>7, <1>11, <1>12, <1>13, NoTwoIsNeverTwice, Zenon DEF IInv

\* The locked part of task_exit kills a current task, which has no place.
LEMMA ExitLockedInv ==
  ASSUME IInv, NEW c \in CPUS, ExitLocked(c)
  PROVE  IInv'
<1> USE SchedAssumption
<1> DEFINE s == exec[c]
           e == cpu_id[s]
<1>0. s \in AllStacks /\ pc[s] = "exit" /\ e \in CPUS
  BY Zenon DEF ExitLocked, At, IInv, TypeOK
<1>9. cpu_current_task[e] \in TaskIds \cup {NoTask}  BY <1>0, Zenon DEF IInv, TypeOK
<1>8. PICK cur \in TaskIds \cup {NoTask} : cur = cpu_current_task[e]  BY <1>9, Zenon
<1>1. NoTwo /\ OneCpuPerTask /\ Aux  BY NoTwoIsNeverTwice, Zenon DEF IInv
<1>2. UNCHANGED <<wake_at, task_count, runq, exec, rsp0, ints, heap, owner, irq,
                  cpu_id, self>>
  BY Zenon DEF ExitLocked
<1>3. /\ cpu_current_task' = [cpu_current_task EXCEPT ![e] = NoTask]
      /\ pc' = [pc EXCEPT ![s] = "teardown"]
  BY Zenon DEF ExitLocked, ExitCurrent
<1>4. \A u \in TaskIds : IsrPushes(u)' <=> IsrPushes(u)
  BY <1>2, Zenon DEF IsrPushes, FirstWake, ints
<1>5. \A u \in AllStacks, v \in TaskIds : Pushes(u, v)' => Pushes(u, v)
  BY <1>0, <1>2, <1>3, Zenon DEF Pushes, IInv, TypeOK
<1>6. CASE cur > 0 /\ cur < task_count
  <2>0. cur \in TaskIds /\ cur # NoTask
    BY <1>6, SMTT(30) DEF NoTask
  <2>1. /\ old' = [old EXCEPT ![s] = [stack |-> stack_base[cur], as |-> pml4[cur]]]
        /\ stack_base' = [stack_base EXCEPT ![cur] = Null]
        /\ pml4' = [pml4 EXCEPT ![cur] = Null]
        /\ cr3' \in {cr3, [cr3 EXCEPT ![c] = Null]}
        /\ state' = [state EXCEPT ![cur] = "DEAD"]
        /\ rsp' = [rsp EXCEPT ![cur] = Null]
    BY <1>6, <1>8, Zenon DEF ExitLocked, ExitTakes
  <2>2. TypeOK'
    BY <1>0, <1>2, <1>3, <2>0, <2>1, Zenon
    DEF IInv, TypeOK, States, PCs, ints, heap, NoTask
  <2>3. state[cur] # "READY"
    BY <1>0, <1>1, <1>8, <2>0, Zenon DEF OneCpuPerTask, Blocked
  <2>4. NoTwo'
    <3>1. \A u \in TaskIds : u # cur => state'[u] = state[u]
      BY <2>1, Zenon DEF IInv, TypeOK
    <3>2. runq' = runq /\ Unique(runq')  BY <1>1, <1>2, Zenon DEF NoTwo
    <3>3. /\ ~InQ(runq, cur) /\ ~IsrPushes(cur)
          /\ \A u \in AllStacks : ~Pushes(u, cur)
      BY <1>1, <2>0, <2>3, Zenon DEF NoTwo, OnePlace
    <3>4. OnePlace(cur)'  BY <1>4, <1>5, <2>0, <3>2, <3>3, Zenon DEF OnePlace
    <3> QED  BY <1>1, <1>4, <1>5, <2>0, <3>1, <3>2, <3>4, MoveOne, SMTT(30)
  <2>5. OneCpuPerTask'
    <3>1. /\ cpu_current_task'[e] = NoTask
          /\ \A d \in CPUS : d # e => cpu_current_task'[d] = cpu_current_task[d]
      BY <1>0, <1>3, SMTT(30) DEF IInv, TypeOK
    <3>2. \A u \in TaskIds : u # cur => state'[u] = state[u]
      BY <2>1, Zenon DEF IInv, TypeOK
    <3>3. \A d \in CPUS : d # e /\ cpu_current_task[d] # NoTask =>
             cpu_current_task[d] # cur /\ cpu_current_task[d] \in TaskIds
      <4>1. \A d \in CPUS : cpu_current_task[d] # NoTask => cpu_current_task[d] \in TaskIds
        BY SMTT(30) DEF IInv, TypeOK
      <4> QED  BY <1>0, <1>1, <1>8, <2>0, <4>1, Zenon DEF OneCpuPerTask
    <3> HIDE DEF e
    <3> QED  BY <1>1, <3>1, <3>2, <3>3 DEF OneCpuPerTask
  <2>6. Aux'
    BY <1>0, <1>1, <1>2, <1>3, <2>1, SMTT(30) DEF Aux, IInv, TypeOK, ints
  <2> QED  BY <2>2, <2>4, <2>5, <2>6, NoTwoIsNeverTwice, Zenon DEF IInv
<1>7. CASE ~(cur > 0 /\ cur < task_count)
  <2>1. UNCHANGED <<old, stack_base, pml4, cr3, state, rsp>>
    BY <1>7, <1>8, Zenon DEF ExitLocked
  <2>2. TypeOK'
    BY <1>0, <1>2, <1>3, <2>1, Zenon DEF IInv, TypeOK, PCs, ints, heap, NoTask
  <2>3. \A u \in AllStacks : pc'[u] \in {"push", "push_new"} =>
          pc[u] \in {"push", "push_new"} /\ self'[u] = self[u]
    BY <1>0, <1>2, <1>3, Zenon DEF IInv, TypeOK
  <2>4. \A d \in CPUS : cpu_current_task'[d] \in {cpu_current_task[d], NoTask}
    BY <1>0, <1>3, Zenon DEF IInv, TypeOK
  <2>5. /\ UNCHANGED <<state, runq, task_count>>
        /\ \A d \in CPUS : isr'[d] = "iret" => resume'[d] # Null
    BY <1>2, <2>1, Zenon DEF IInv, Aux, ints
  <2> QED  BY <1>4, <2>2, <2>3, <2>4, <2>5, QuietStep, Zenon
<1> QED  BY <1>6, <1>7, SMTT(30)

=============================================================================
