------------------------------- MODULE MCLive -------------------------------
(* Scheduling and synchronisation under fairness, for TLC: the scheduler,   *)
(* the run queues with aging, the wait queues with a mutex, a semaphore and *)
(* a condition variable under arbitrary callers, and the tests of           *)
(* conc_test.c on them.  Side by side: unit is the one that moves in a      *)
(* behaviour, the others stay as they were.                                 *)
EXTENDS Sched, RunQueue, ConcTest

CONSTANTS low, high1, high2, w1, w2, m, c   \* tasks of the run queues and of the test

VARIABLE unit

-----------------------------------------------------------------------------
(* Instances *)

MCRunqTasks == {low, high1, high2}
MCPriority  == [t \in MCRunqTasks |-> IF t = low THEN 0 ELSE 2]
MCWorkers   == {w1, w2}
MCTasks     == {w1, w2, m, c}

\* The callers of the wait queues outside the test.
Callers == {w1, w2, m}

-----------------------------------------------------------------------------
MCInit ==
  /\ unit \in {"sched", "runq", "sync", "test"}
  /\ Init /\ RunqInit /\ TestInit
MCNext ==
  \/ unit = "sched" /\ Next
       /\ UNCHANGED <<unit, runqVars, syncVars, client>>
  \/ unit = "runq" /\ RunqNext
       /\ UNCHANGED <<unit, vars, syncVars, client>>
  \/ unit = "sync" /\ SyncNext(Callers)
       /\ UNCHANGED <<unit, vars, runqVars, client>>
  \/ unit = "test" /\ TestNext
       /\ UNCHANGED <<unit, vars, runqVars>>

\* Fairness of the unit that moves: Fairness of Sched; time passes, interrupts are
\* served and a waker finishes its call; the scheduler lets every task that is not
\* blocked run, and a holder of the mutex lets go of it.
MCFairness ==
  /\ \A p \in CPUS :
       /\ WF_vars(unit = "sched" /\ CallStep(p)) /\ WF_vars(unit = "sched" /\ Iret(p))
       /\ SF_vars(unit = "sched" /\ Schedule(p))
  /\ SF_vars(unit = "sched" /\ TimerTick)
  /\ WF_vars(unit = "sched" /\ SleepqUnblock) /\ WF_vars(unit = "sched" /\ SleepqPush)
  /\ \A t \in TaskIds : WF_vars(unit = "sched" /\ TimePasses(t))
  /\ SF_runqVars(unit = "runq" /\ Tick)
  /\ \A p \in RUNQ_CPUS : WF_runqVars(unit = "runq" /\ schedule_on_cpu(p))
  /\ \A t \in RUNQ_TASKS : WF_runqVars(unit = "runq" /\ runq_push(t))
  /\ \A t \in Callers :
       WF_syncVars(unit = "sync" /\ Step(t)) /\ WF_syncVars(unit = "sync" /\ LetGo(t))
  /\ \A t \in MCTasks : WF_testvars(unit = "test" /\ TestStep(t))

MCSpec == MCInit /\ [][MCNext]_<<unit, vars, runqVars, testvars>> /\ MCFairness

-----------------------------------------------------------------------------
(* Properties *)

\* runqueue.c:38-39 "so low-priority tasks cannot starve": a ready task runs,
\* whatever the others do, and the queues keep their shape meanwhile.
NoStarvation ==
  []RunqTypeOK /\ \A t \in RUNQ_TASKS :
    (unit = "runq" /\ runq_state[t] = "READY") ~> runq_state[t] = "RUNNING"

\* conc_test.c:94 "hangs if signal was lost", and the joins of test_mutex: every
\* schedule of the two tests comes to its end, and no increment is lost (conc_test.c:55).
TestsFinish == []CounterExact /\ (unit = "test" ~> Finished)

=============================================================================
