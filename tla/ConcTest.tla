------------------------------ MODULE ConcTest ------------------------------
(***************************************************************************)
(* test/conc_test.c: the mutex test and the condition variable test, run   *)
(* by the main task one after the other on the objects of WaitSync, with   *)
(* every interleaving of the tasks.                                        *)
(***************************************************************************)
EXTENDS WaitSync

CONSTANTS Main, Waiter, Workers, MUTEX_INCS

ASSUME ConcTestAssumption ==
  /\ Tasks = {Main, Waiter} \cup Workers
  /\ MUTEX_INCS \in Nat \ {0}
  /\ InitCount = 0

VARIABLES
  at,        \* where a task is in its test function
  left,      \* increments a worker has still to do; joins for Main
  tmp,       \* the value a worker read for counter++
  counter,
  ready

client   == <<at, left, tmp, counter, ready>>
testvars == <<syncVars, client>>

TestInit ==
  /\ SyncInit
  /\ at = [t \in Tasks |-> IF t = Waiter THEN "unborn" ELSE "start"]
  /\ left = [t \in Tasks |-> IF t = Main THEN Cardinality(Workers) ELSE MUTEX_INCS]
  /\ tmp = [t \in Workers |-> 0]
  /\ counter = 0
  /\ ready = FALSE

Ready(t, label) == call_pc[t] = "user" /\ at[t] = label
To(t, label)    == at' = [at EXCEPT ![t] = label]

\* mutex_worker: lock, counter++ as a load and a store, unlock; then post.
WorkerStep(t) ==
  \/ /\ Ready(t, "start") /\ left[t] > 0
     /\ MutexLock(t) /\ To(t, "load") /\ UNCHANGED <<left, tmp, counter, ready>>
  \/ /\ Ready(t, "load")
     /\ tmp' = [tmp EXCEPT ![t] = counter]
     /\ To(t, "store") /\ UNCHANGED <<syncVars, left, counter, ready>>
  \/ /\ Ready(t, "store")
     /\ counter' = tmp[t] + 1
     /\ To(t, "unlock") /\ UNCHANGED <<syncVars, left, tmp, ready>>
  \/ /\ Ready(t, "unlock")
     /\ MutexUnlock(t)
     /\ left' = [left EXCEPT ![t] = @ - 1]
     /\ To(t, "start") /\ UNCHANGED <<tmp, counter, ready>>
  \/ /\ Ready(t, "start") /\ left[t] = 0
     /\ SemaphorePost(t) /\ To(t, "exit") /\ UNCHANGED <<left, tmp, counter, ready>>

\* cv_waiter.
WaiterStep(t) ==
  /\ \/ Ready(t, "start") /\ MutexLock(t) /\ To(t, "loop")
     \/ Ready(t, "loop") /\ ~ready /\ CondvarWait(t) /\ To(t, "loop")
     \/ Ready(t, "loop") /\ ready /\ MutexUnlock(t) /\ To(t, "post")
     \/ Ready(t, "post") /\ SemaphorePost(t) /\ To(t, "exit")
  /\ UNCHANGED <<left, tmp, counter, ready>>

\* test_mutex, then test_condvar.
MainStep(t) ==
  \/ /\ Ready(t, "start") /\ left[t] > 0
     /\ SemaphoreWait(t)
     /\ left' = [left EXCEPT ![t] = @ - 1]
     /\ UNCHANGED <<at, tmp, counter, ready>>
  \/ /\ Ready(t, "start") /\ left[t] = 0
     /\ at' = [at EXCEPT ![t] = "lock", ![Waiter] = "start"]
     /\ UNCHANGED <<syncVars, left, tmp, counter, ready>>
  \/ /\ Ready(t, "lock")
     /\ MutexLock(t) /\ To(t, "set") /\ UNCHANGED <<left, tmp, counter, ready>>
  \/ /\ Ready(t, "set")
     /\ ready' = TRUE
     /\ To(t, "signal") /\ UNCHANGED <<syncVars, left, tmp, counter>>
  \/ /\ Ready(t, "signal")
     /\ CondvarSignal(t) /\ To(t, "unlock") /\ UNCHANGED <<left, tmp, counter, ready>>
  \/ /\ Ready(t, "unlock")
     /\ MutexUnlock(t) /\ To(t, "join") /\ UNCHANGED <<left, tmp, counter, ready>>
  \/ /\ Ready(t, "join")
     /\ SemaphoreWait(t) /\ To(t, "joined") /\ UNCHANGED <<left, tmp, counter, ready>>
  \/ /\ Ready(t, "joined")
     /\ To(t, "exit") /\ UNCHANGED <<syncVars, left, tmp, counter, ready>>

TestStep(t) ==
  \/ Step(t) /\ UNCHANGED client
  \/ t \in Workers /\ WorkerStep(t)
  \/ t = Waiter /\ WaiterStep(t)
  \/ t = Main /\ MainStep(t)

Finished == \A t \in Tasks : at[t] = "exit"

TestNext == \E t \in Tasks : TestStep(t)

-----------------------------------------------------------------------------
\* conc_test.c:55: no increment is lost.
CounterExact ==
  at[Main] # "start" => counter = Cardinality(Workers) * MUTEX_INCS

=============================================================================
