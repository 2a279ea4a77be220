------------------------------ MODULE WaitSync ------------------------------
(***************************************************************************)
(* kernel/wait.c and kernel/sync.c: wait queues, and one mutex, one        *)
(* semaphore and one condition variable built on them, used by tasks that  *)
(* call them in any order a caller may.                                    *)
(*                                                                         *)
(* A section under one wait queue's spinlock (interrupts off) is one step. *)
(* condvar_wait holds the condition variable's lock while it releases the  *)
(* mutex and blocks, so the locks are a variable.  The scheduler is used   *)
(* through its two promises: a task marked by block_prepare runs no        *)
(* further than block_park until unblock_task, and then runs again.        *)
(*                                                                         *)
(* Definitions whose name starts with Mut are slips of the code, used by   *)
(* no specification.                                                       *)
(***************************************************************************)
EXTENDS Integers, Sequences, FiniteSets, Functions

CONSTANTS
  Tasks, NoOne,
  WAIT_QUEUE_CAPACITY,
  MaxCount,            \* bound on the semaphore's count
  InitCount,           \* semaphore_init(initial)
  Aborts,              \* does a task call wait_abort?
  LateAbort            \* may its victim have moved on before it takes the lock?

ASSUME WaitSyncAssumption ==
  /\ IsFiniteSet(Tasks) /\ NoOne \notin Tasks
  /\ WAIT_QUEUE_CAPACITY \in Nat \ {0}
  /\ MaxCount \in Nat /\ InitCount \in 0 .. MaxCount
  /\ {Aborts, LateAbort} \subseteq BOOLEAN

VARIABLES
  wq,           \* waiters of the mutex "m", the semaphore "s", the condvar "c"
  sync_state,   \* TASK_RUNNING (or READY) or TASK_BLOCKED
  locked,       \* mutex_t.locked
  mutex_owner,  \* mutex_t.owner
  count,        \* semaphore_t.count
  lock,         \* who holds a wait queue's lock between two steps
  call_pc,      \* where a task is in its call
  victim,       \* whose wait a task is about to abort, and in which queue
  inside        \* the tasks that acquired the mutex and have not released it

syncVars == <<wq, sync_state, locked, mutex_owner, count, lock, call_pc, victim, inside>>

Queues == {"m", "s", "c"}
Park   == [q \in Queues |-> CASE q = "m" -> "park_m" [] q = "s" -> "park_s" [] q = "c" -> "park_c"]
NoWait == [task |-> NoOne, queue |-> "m"]

\* Every object keeps its type and no wait queue outgrows waiters[].
SyncTypeOK ==
  /\ wq \in [Queues -> Seq(Tasks)]
  /\ \A q \in Queues : Len(wq[q]) <= WAIT_QUEUE_CAPACITY
  /\ sync_state \in [Tasks -> {"RUNNING", "BLOCKED"}]
  /\ locked \in BOOLEAN
  /\ mutex_owner \in Tasks \cup {NoOne}
  /\ count \in 0 .. MaxCount
  /\ lock \in [Queues -> Tasks \cup {NoOne}]
  /\ call_pc \in [Tasks -> {"user", "lock", "sem", "cv_unlock", "cv_block", "abort"}
                      \cup {Park[q] : q \in Queues}]
  /\ victim \in [Tasks -> [task : Tasks \cup {NoOne}, queue : Queues]]
  /\ inside \subseteq Tasks

SyncInit ==
  /\ wq = [q \in Queues |-> <<>>]
  /\ sync_state = [t \in Tasks |-> "RUNNING"]
  /\ locked = FALSE
  /\ mutex_owner = NoOne
  /\ count = InitCount
  /\ lock = [q \in Queues |-> NoOne]
  /\ call_pc = [t \in Tasks |-> "user"]
  /\ victim = [t \in Tasks |-> NoWait]
  /\ inside = {}

-----------------------------------------------------------------------------
(* wait.c *)

\* wait_enqueue, and the states after unblock_task of every task in a set.
WaitEnqueue(q, t) == [wq EXCEPT ![q] = Append(@, t)]
UnblockTasks(T)   == [t \in Tasks |-> IF t \in T THEN "RUNNING" ELSE sync_state[t]]

\* May t take q's lock, or has it already?
Locks(t, q) == lock[q] \in {NoOne, t}
Full(q)     == Len(wq[q]) >= WAIT_QUEUE_CAPACITY

\* wait_block_locked: block_prepare, wait_enqueue, unlock, park.  When the queue
\* is full it undoes the block and returns with the lock still held, and the
\* loops of mutex_lock and semaphore_wait go round again without letting go.
WaitBlockLocked(t, q) ==
  IF Full(q)
  THEN lock' = [lock EXCEPT ![q] = t] /\ UNCHANGED <<wq, sync_state, call_pc>>
  ELSE /\ sync_state' = [sync_state EXCEPT ![t] = "BLOCKED"]
       /\ wq' = WaitEnqueue(q, t)
       /\ lock' = [lock EXCEPT ![q] = NoOne]
       /\ call_pc' = [call_pc EXCEPT ![t] = Park[q]]

\* wait_wake_one: dequeue the head and unblock it.
MutWaitWakeOne(q) ==
  IF wq[q] = <<>> THEN UNCHANGED <<wq, sync_state>>
  ELSE sync_state' = UnblockTasks({Head(wq[q])}) /\ UNCHANGED wq
MutWaitWakeNone(q) == UNCHANGED <<wq, sync_state>>
WaitWakeOne(q) ==
  IF wq[q] = <<>> THEN UNCHANGED <<wq, sync_state>>
  ELSE /\ sync_state' = UnblockTasks({Head(wq[q])})
       /\ wq' = [wq EXCEPT ![q] = Tail(@)]

\* wait_wake_all.
WaitWakeAll(q) ==
  /\ sync_state' = UnblockTasks(Range(wq[q]))
  /\ wq' = [wq EXCEPT ![q] = <<>>]

\* wait_remove: the first entry of the task goes, those behind it move up.
WaitRemove(s, t) ==
  LET i == CHOOSE i \in 1 .. Len(s) : s[i] = t /\ \A j \in 1 .. i - 1 : s[j] # t
  IN  IF \E j \in 1 .. Len(s) : s[j] = t
      THEN [j \in 1 .. Len(s) - 1 |-> IF j < i THEN s[j] ELSE s[j + 1]]
      ELSE s

\* wait_abort removes the task if it is there, and unblocks it in any case.
WaitAbort(q, t) ==
  /\ wq' = [wq EXCEPT ![q] = WaitRemove(@, t)]
  /\ sync_state' = UnblockTasks({t})

-----------------------------------------------------------------------------
(* sync.c.  A call starts at "user"; t is then at the label it waits at. *)

Go(t, from, to) == call_pc[t] = from /\ call_pc' = [call_pc EXCEPT ![t] = to]

MutexLock(t) ==
  /\ t \notin inside
  /\ Go(t, "user", "lock")
  /\ UNCHANGED <<wq, sync_state, locked, mutex_owner, count, lock, victim, inside>>

Acquire(t) ==
  /\ locked' = TRUE
  /\ mutex_owner' = t
  /\ inside' = inside \cup {t}

\* One turn of the while loop of mutex_lock, under the mutex's queue lock.
MutMutexLockTest(t) ==
  /\ Go(t, "lock", "user")
  /\ Acquire(t)
  /\ UNCHANGED <<wq, sync_state, count, lock, victim>>
MutexLockTest(t) ==
  /\ call_pc[t] = "lock" /\ Locks(t, "m")
  /\ IF locked
     THEN WaitBlockLocked(t, "m") /\ UNCHANGED <<locked, mutex_owner, inside>>
     ELSE /\ Go(t, "lock", "user")
          /\ Acquire(t)
          /\ lock' = [lock EXCEPT !["m"] = NoOne]
          /\ UNCHANGED <<wq, sync_state>>
  /\ UNCHANGED <<count, victim>>

MutexTrylock(t) ==
  /\ call_pc[t] = "user" /\ t \notin inside /\ Locks(t, "m")
  /\ ~locked
  /\ Acquire(t)
  /\ UNCHANGED <<wq, sync_state, count, lock, call_pc, victim>>

\* The locked section of mutex_unlock.
Release(t) ==
  /\ Locks(t, "m")
  /\ locked' = FALSE
  /\ mutex_owner' = NoOne
  /\ inside' = inside \ {t}
  /\ WaitWakeOne("m")

MutexUnlock(t) ==
  /\ call_pc[t] = "user" /\ t \in inside
  /\ Release(t)
  /\ UNCHANGED <<count, lock, call_pc, victim>>

SemaphoreWait(t) ==
  /\ Go(t, "user", "sem")
  /\ UNCHANGED <<wq, sync_state, locked, mutex_owner, count, lock, victim, inside>>

SemaphoreWaitTest(t) ==
  /\ call_pc[t] = "sem" /\ Locks(t, "s")
  /\ IF count <= 0
     THEN WaitBlockLocked(t, "s") /\ UNCHANGED count
     ELSE /\ Go(t, "sem", "user")
          /\ count' = count - 1
          /\ lock' = [lock EXCEPT !["s"] = NoOne]
          /\ UNCHANGED <<wq, sync_state>>
  /\ UNCHANGED <<locked, mutex_owner, victim, inside>>

SemaphoreTrywait(t) ==
  /\ call_pc[t] = "user" /\ Locks(t, "s")
  /\ count > 0
  /\ count' = count - 1
  /\ UNCHANGED <<wq, sync_state, locked, mutex_owner, lock, call_pc, victim, inside>>

SemaphorePost(t) ==
  /\ call_pc[t] = "user" /\ Locks(t, "s")
  /\ count < MaxCount
  /\ count' = count + 1
  /\ WaitWakeOne("s")
  /\ UNCHANGED <<locked, mutex_owner, lock, call_pc, victim, inside>>

\* condvar_wait takes the condvar's lock, releases the mutex, blocks.
MutCondvarWait(t) ==
  /\ t \in inside
  /\ Locks(t, "c")
  /\ Go(t, "user", "cv_unlock")
  /\ UNCHANGED <<wq, sync_state, locked, mutex_owner, count, lock, victim, inside>>
CondvarWait(t) ==
  /\ t \in inside
  /\ Locks(t, "c")
  /\ Go(t, "user", "cv_unlock")
  /\ lock' = [lock EXCEPT !["c"] = t]
  /\ UNCHANGED <<wq, sync_state, locked, mutex_owner, count, victim, inside>>

CondvarUnlockMutex(t) ==
  /\ Go(t, "cv_unlock", "cv_block")
  /\ Release(t)
  /\ UNCHANGED <<count, lock, victim>>

CondvarBlock(t) ==
  /\ call_pc[t] = "cv_block"
  /\ IF Full("c")
     THEN /\ Go(t, "cv_block", "lock")
          /\ lock' = [lock EXCEPT !["c"] = NoOne]
          /\ UNCHANGED <<wq, sync_state>>
     ELSE WaitBlockLocked(t, "c")
  /\ UNCHANGED <<locked, mutex_owner, count, victim, inside>>

\* block_park returns once the task runs again; the caller's loop resumes.  A
\* condvar waiter retakes and drops the condvar's lock, then calls mutex_lock.
Resume(t, q, label) ==
  /\ Go(t, Park[q], label)
  /\ sync_state[t] = "RUNNING"
  /\ q = "c" => Locks(t, "c")
  /\ UNCHANGED <<wq, sync_state, locked, mutex_owner, count, lock, victim, inside>>

CondvarSignal(t) ==
  /\ call_pc[t] = "user"
  /\ Locks(t, "c")
  /\ WaitWakeOne("c")
  /\ UNCHANGED <<locked, mutex_owner, count, lock, call_pc, victim, inside>>

CondvarBroadcast(t) ==
  /\ call_pc[t] = "user"
  /\ Locks(t, "c")
  /\ WaitWakeAll("c")
  /\ UNCHANGED <<locked, mutex_owner, count, lock, call_pc, victim, inside>>

\* A task decides to abort the wait of u in q, and calls wait_abort.
AbortDecide(t, u, q) ==
  /\ Aborts
  /\ call_pc[u] = Park[q] /\ sync_state[u] = "BLOCKED"
  /\ Go(t, "user", "abort")
  /\ victim' = [victim EXCEPT ![t] = [task |-> u, queue |-> q]]
  /\ UNCHANGED <<wq, sync_state, locked, mutex_owner, count, lock, inside>>

Abort(t) ==
  LET u == victim[t].task
      q == victim[t].queue
  IN
  /\ Go(t, "abort", "user")
  /\ LateAbort \/ call_pc[u] = Park[q] \/ sync_state[u] = "RUNNING"
  /\ Locks(t, q)
  /\ WaitAbort(q, u)
  /\ victim' = [victim EXCEPT ![t] = NoWait]
  /\ UNCHANGED <<locked, mutex_owner, count, lock, inside>>

-----------------------------------------------------------------------------
\* The steps inside a call.
Step(t) ==
  \/ MutexLockTest(t)
  \/ SemaphoreWaitTest(t)
  \/ CondvarUnlockMutex(t)
  \/ CondvarBlock(t)
  \/ Resume(t, "m", "lock")
  \/ Resume(t, "s", "sem")
  \/ Resume(t, "c", "lock")

Call(t) ==
  \/ MutexLock(t) \/ MutexTrylock(t)
  \/ SemaphoreWait(t) \/ SemaphoreTrywait(t) \/ SemaphorePost(t)
  \/ CondvarSignal(t) \/ CondvarBroadcast(t)
  \/ \E u \in Tasks, q \in Queues : AbortDecide(t, u, q)
  \/ Abort(t)

\* What the holder of the mutex does to let go of it.
LetGo(t) == MutexUnlock(t) \/ CondvarWait(t)

SyncNext(callers) == \E t \in callers : Step(t) \/ Call(t) \/ LetGo(t)

SyncSpec == SyncInit /\ [][SyncNext(Tasks)]_syncVars

-----------------------------------------------------------------------------
(* Properties *)

\* mutex_lock, mutex_trylock and the re-lock in condvar_wait together let one
\* task in at a time, and the mutex knows which.
MutualExclusion ==
  /\ \A t \in inside : locked /\ mutex_owner = t
  /\ locked => \E t \in Tasks : inside = {t}

Entries(t) == {e \in Queues \X (1 .. WAIT_QUEUE_CAPACITY) :
                 e[2] <= Len(wq[e[1]]) /\ wq[e[1]][e[2]] = t}

\* wait.h:28-30: a task waits in at most one queue, and is not runnable while
\* it does: the blocked tasks are exactly the queued ones, each once, each
\* parked on the queue that holds it.  So no blocked task is out of every
\* waker's reach, and no wake is spent on a task that is not waiting.
OneWait ==
  \A t \in Tasks :
    IF sync_state[t] = "BLOCKED"
    THEN \E q \in Queues, i \in 1 .. WAIT_QUEUE_CAPACITY :
           Entries(t) = {<<q, i>>} /\ call_pc[t] = Park[q]
    ELSE Entries(t) = {}

Retrying(q, label) ==
  {t \in Tasks : call_pc[t] = label \/ (call_pc[t] = Park[q] /\ sync_state[t] = "RUNNING")}

\* wait.c:7-16, lost wakeup: a free mutex with tasks queued, or a positive
\* count with tasks queued, only while as many woken tasks are on their way
\* to take it.
NoLostWakeup ==
  /\ ~locked /\ wq["m"] # <<>> => Retrying("m", "lock") # {}
  /\ wq["s"] # <<>> => count <= Cardinality(Retrying("s", "sem"))

\* The promises of the wait queues, the mutex and the semaphore together.
SyncSound == SyncTypeOK /\ MutualExclusion /\ OneWait /\ NoLostWakeup

\* A mutex that is free and wanted is taken: the wake of mutex_unlock always
\* reaches somebody who takes it, even when a mutex_trylock gets in between.
MutexMoves ==
  (~locked /\ \E t \in Tasks : call_pc[t] \in {"lock", Park["m"]}) ~> locked

=============================================================================
