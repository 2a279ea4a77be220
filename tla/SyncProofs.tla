---------------------------- MODULE SyncProofs ----------------------------
(***************************************************************************)
(* Wait queues, mutex, semaphore and condition variable for any number of  *)
(* tasks and any capacity: mutual exclusion, one wait per task, no lost    *)
(* wakeup.                                                                 *)
(***************************************************************************)
EXTENDS WaitSync, FiniteSetTheorems, TLAPS

\* No entry of a queue is there twice.
NoRepeats(s) == \A i, j \in 1 .. Len(s) : s[i] = s[j] => i = j

\* The wait queues entry by entry: who is queued is blocked and parked on that queue,
\* nobody is queued twice, and who is blocked is queued.
Waiting ==
  /\ \A q \in Queues : \A i \in 1 .. Len(wq[q]) :
       sync_state[wq[q][i]] = "BLOCKED" /\ call_pc[wq[q][i]] = Park[q]
  /\ \A q \in Queues : NoRepeats(wq[q])
  /\ \A t \in Tasks : sync_state[t] = "BLOCKED" =>
       \E q \in Queues : \E i \in 1 .. Len(wq[q]) : wq[q][i] = t

\* condvar_wait releases a mutex its caller holds.
HoldsOnWait == \A t \in Tasks : call_pc[t] = "cv_unlock" => t \in inside

\* The inductive invariant: mutual exclusion needs the mutex to be held where
\* condvar_wait releases it, and the wakeups need every queued task to be blocked.
SyncInv == SyncTypeOK /\ MutualExclusion /\ HoldsOnWait /\ Waiting /\ NoLostWakeup

-----------------------------------------------------------------------------
(* The operators *)

\* The labels of the three queues differ from each other and from those of the code.
LEMMA Labels ==
  /\ Park["m"] = "park_m" /\ Park["s"] = "park_s" /\ Park["c"] = "park_c"
  /\ \A q \in Queues : Park[q] \notin {"user", "lock", "sem", "cv_unlock", "cv_block", "abort"}
  /\ \A q, r \in Queues : Park[q] = Park[r] => q = r
BY Zenon DEF Park, Queues

\* A queue after the tasks of T were taken out: the others are there, each once.
Without(new, old, T) ==
  /\ new \in Seq(Tasks) /\ Len(new) <= Len(old) /\ NoRepeats(new)
  /\ \A i \in 1 .. Len(new) : new[i] \notin T /\ \E j \in 1 .. Len(old) : new[i] = old[j]
  /\ \A j \in 1 .. Len(old) : old[j] \notin T => \E i \in 1 .. Len(new) : new[i] = old[j]

\* wait_dequeue takes out the head and moves the others up by one.
LEMMA DequeueTakesHead ==
  ASSUME NEW s \in Seq(Tasks), s # <<>>, NoRepeats(s)
  PROVE  /\ Without(Tail(s), s, {Head(s)})
         /\ Len(s) \in Nat /\ 1 \in 1 .. Len(s) /\ Head(s) = s[1] /\ Head(s) \in Tasks
<1>1. /\ Tail(s) \in Seq(Tasks) /\ Len(s) \in Nat /\ Len(Tail(s)) = Len(s) - 1
      /\ \A i \in 1 .. Len(s) - 1 : Tail(s)[i] = s[i + 1] /\ i + 1 \in 1 .. Len(s)
      /\ 1 \in 1 .. Len(s) /\ Head(s) = s[1] /\ Head(s) \in Tasks
  OBVIOUS
<1>. DEFINE r == Tail(s)
<1>. HIDE DEF r
<1>2. /\ Len(r) = Len(s) - 1 /\ r \in Seq(Tasks)
      /\ \A i \in 1 .. Len(s) - 1 : r[i] = s[i + 1] /\ i + 1 \in 1 .. Len(s)
  BY <1>1, Zenon DEF r
<1>3. \A i \in 1 .. Len(r) : r[i] \notin {s[1]} /\ \E j \in 1 .. Len(s) : r[i] = s[j]
  BY <1>1, <1>2 DEF NoRepeats
<1>4. NoRepeats(r)
  BY <1>1, <1>2 DEF NoRepeats
<1>5. ASSUME NEW j \in 1 .. Len(s), s[j] \notin {s[1]} PROVE \E i \in 1 .. Len(r) : r[i] = s[j]
  <2>1. j - 1 \in 1 .. Len(r) /\ r[j - 1] = s[j]
    BY <1>1, <1>2, <1>5
  <2>. QED  BY <2>1, Zenon
<1>6. Len(r) <= Len(s)
  BY <1>1, <1>2
<1>7. Without(r, s, {s[1]})
  BY <1>2, <1>3, <1>4, <1>5, <1>6, Zenon DEF Without
<1>. QED  BY <1>1, <1>7, Zenon DEF r

\* wait_remove takes out one task, if it is there.
LEMMA RemoveTakesOne ==
  ASSUME NEW s \in Seq(Tasks), NEW t, NoRepeats(s)
  PROVE  Without(WaitRemove(s, t), s, {t})
<1>0. Len(s) \in Nat
  OBVIOUS
<1>1. CASE ~ \E j \in 1 .. Len(s) : s[j] = t
  <2>1. WaitRemove(s, t) = s
    BY <1>1, Zenon DEF WaitRemove
  <2>. QED  BY <1>0, <1>1, <2>1 DEF Without
<1>2. CASE \E j \in 1 .. Len(s) : s[j] = t
  <2>. DEFINE k == CHOOSE i \in 1 .. Len(s) : s[i] = t /\ \A j \in 1 .. i - 1 : s[j] # t
              r == [j \in 1 .. Len(s) - 1 |-> IF j < k THEN s[j] ELSE s[j + 1]]
  <2>1. PICK n \in 1 .. Len(s) : s[n] = t
    BY <1>2, Zenon
  <2>2. \A j \in 1 .. n - 1 : s[j] # t
    BY <1>0, <2>1 DEF NoRepeats
  <2>3. k \in 1 .. Len(s) /\ s[k] = t
    BY <2>1, <2>2, Zenon
  <2>4. WaitRemove(s, t) = r
    BY <1>2, Zenon DEF WaitRemove
  <2>. HIDE DEF k
  <2>5. /\ r \in Seq(Tasks) /\ Len(r) = Len(s) - 1
        /\ \A i \in 1 .. Len(s) - 1 : r[i] = IF i < k THEN s[i] ELSE s[i + 1]
    BY <1>0, <2>3
  <2>. HIDE DEF r
  <2>. DEFINE at(i) == IF i < k THEN i ELSE i + 1
  <2>a. \A i \in 1 .. Len(r) : at(i) \in 1 .. Len(s) /\ at(i) # k /\ r[i] = s[at(i)]
    BY <1>0, <2>3, <2>5
  <2>b. \A i, j \in 1 .. Len(r) : at(i) = at(j) => i = j
    BY <1>0, <2>3, <2>5
  <2>. HIDE DEF at
  <2>6. \A i \in 1 .. Len(r) : r[i] \notin {t} /\ \E j \in 1 .. Len(s) : r[i] = s[j]
    BY <2>3, <2>a, Zenon DEF NoRepeats
  <2>7. NoRepeats(r)
    BY <2>a, <2>b, Zenon DEF NoRepeats
  <2>8. ASSUME NEW j \in 1 .. Len(s), s[j] \notin {t} PROVE \E i \in 1 .. Len(r) : r[i] = s[j]
    <3>1. CASE j < k
      BY <1>0, <2>3, <2>5, <3>1
    <3>2. CASE j > k
      <4>1. j - 1 \in 1 .. Len(r) /\ r[j - 1] = s[j]
        BY <1>0, <2>3, <2>5, <3>2
      <4>. QED  BY <4>1, Zenon
    <3>. QED  BY <2>3, <2>8, <3>1, <3>2
  <2>9. Len(r) <= Len(s)
    BY <1>0, <2>5
  <2>10. Without(r, s, {t})
    BY <2>5, <2>6, <2>7, <2>8, <2>9, Zenon DEF Without
  <2>. QED  BY <2>4, <2>10, Zenon
<1>. QED  BY <1>1, <1>2, Zenon

\* A queue that holds none of T is as it was; an emptied one holds nobody.
LEMMA OthersStay ==
  ASSUME NEW s \in Seq(Tasks), NEW T, NoRepeats(s)
  PROVE  /\ (\A i \in 1 .. Len(s) : s[i] \notin T) => Without(s, s, T)
         /\ (\A i \in 1 .. Len(s) : s[i] \in T) => Without(<<>>, s, T)
<1>1. Len(s) \in Nat /\ Len(<<>>) = 0 /\ <<>> \in Seq(Tasks)
  OBVIOUS
<1>2. NoRepeats(<<>>)
  BY DEF NoRepeats
<1>. QED  BY <1>1, <1>2 DEF Without

\* Sets of tasks are finite, and one task more or less is one more or less.
LEMMA TaskCount ==
  ASSUME NEW R \in SUBSET Tasks, NEW S \in SUBSET Tasks, NEW x
  PROVE  /\ Cardinality(R) \in Nat
         /\ R \subseteq S => Cardinality(R) <= Cardinality(S)
         /\ R \cup {x} \subseteq S /\ x \notin R => Cardinality(R) + 1 <= Cardinality(S)
         /\ R \subseteq S \cup {x} => Cardinality(R) - 1 <= Cardinality(S)
<1>1. IsFiniteSet(R) /\ IsFiniteSet(S)
  BY FS_Subset, WaitSyncAssumption, Zenon
<1>2. Cardinality(R) \in Nat /\ Cardinality(S) \in Nat
  BY <1>1, FS_CardinalityType, Zenon
<1>3. R \subseteq S => Cardinality(R) <= Cardinality(S)
  BY <1>1, FS_Subset, Zenon
<1>4. ASSUME R \cup {x} \subseteq S, x \notin R PROVE Cardinality(R) + 1 <= Cardinality(S)
  <2>1. Cardinality(R \cup {x}) = Cardinality(R) + 1
    BY <1>1, <1>4, FS_AddElement, Zenon
  <2>. QED  BY <1>1, <1>4, <2>1, FS_Subset, Zenon
<1>5. ASSUME R \subseteq S \cup {x} PROVE Cardinality(R) - 1 <= Cardinality(S)
  <2>1. Cardinality(S \cup {x}) <= Cardinality(S) + 1 /\ IsFiniteSet(S \cup {x})
    <3>1. CASE x \in S
      <4>1. S \cup {x} = S
        BY <3>1, Zenon
      <4>2. Cardinality(S) <= Cardinality(S) + 1
        BY <1>2
      <4>. QED  BY <1>1, <4>1, <4>2, Zenon
    <3>2. CASE x \notin S
      <4>1. IsFiniteSet(S \cup {x}) /\ Cardinality(S \cup {x}) = Cardinality(S) + 1
        BY <1>1, <3>2, FS_AddElement, Zenon
      <4>. QED  BY <1>2, <4>1
    <3>. QED  BY <3>1, <3>2, Zenon
  <2>2. Cardinality(R) <= Cardinality(S \cup {x})
    BY <1>5, <2>1, FS_Subset, Zenon
  <2>3. Cardinality(S \cup {x}) \in Nat
    BY <2>1, FS_CardinalityType, Zenon
  <2>. QED  BY <1>2, <2>1, <2>2, <2>3
<1>. QED  BY <1>2, <1>3, <1>4, <1>5, Zenon

-----------------------------------------------------------------------------
(* What the steps do to the queues *)

\* The parts of the invariant that the steps use.
LEMMA Parts ==
  ASSUME SyncInv
  PROVE  /\ wq \in [Queues -> Seq(Tasks)]
         /\ \A q \in Queues : /\ wq[q] \in Seq(Tasks) /\ Len(wq[q]) \in Nat /\ NoRepeats(wq[q])
                              /\ Len(wq[q]) <= WAIT_QUEUE_CAPACITY
         /\ \A q \in Queues : \A i \in 1 .. Len(wq[q]) :
              /\ wq[q][i] \in Tasks
              /\ sync_state[wq[q][i]] = "BLOCKED" /\ call_pc[wq[q][i]] = Park[q]
         /\ \A t \in Tasks : sync_state[t] = "BLOCKED" =>
              \E q \in Queues : \E i \in 1 .. Len(wq[q]) : wq[q][i] = t
         /\ sync_state \in [Tasks -> {"RUNNING", "BLOCKED"}]
         /\ DOMAIN call_pc = Tasks
<1>1. wq \in [Queues -> Seq(Tasks)] /\ sync_state \in [Tasks -> {"RUNNING", "BLOCKED"}]
        /\ DOMAIN call_pc = Tasks /\ \A q \in Queues : Len(wq[q]) <= WAIT_QUEUE_CAPACITY
  BY Zenon DEF SyncInv, SyncTypeOK
<1>2. \A q \in Queues : wq[q] \in Seq(Tasks) /\ Len(wq[q]) \in Nat
  BY <1>1
<1>3. \A q \in Queues : \A i \in 1 .. Len(wq[q]) : wq[q][i] \in Tasks
  BY <1>2
<1>. QED  BY <1>1, <1>2, <1>3, Zenon DEF SyncInv, Waiting

\* A task is awake at every label but the three of block_park.
LEMMA AwakeAtLabel ==
  ASSUME SyncInv, NEW t \in Tasks,
         call_pc[t] \in {"user", "lock", "sem", "cv_unlock", "cv_block", "abort"}
  PROVE  sync_state[t] = "RUNNING"
<1>1. \A q \in Queues : \A i \in 1 .. Len(wq[q]) : wq[q][i] # t
  BY Parts, Labels
<1>. QED  BY <1>1, Parts

\* A task that is awake may move to another label.
LEMMA Moves ==
  ASSUME SyncInv, NEW t \in Tasks, NEW l, sync_state[t] = "RUNNING",
         UNCHANGED <<wq, sync_state>>, call_pc' = [call_pc EXCEPT ![t] = l]
  PROVE  Waiting'
<1>1. \A q \in Queues : \A i \in 1 .. Len(wq[q]) : wq[q][i] \in Tasks \ {t}
  BY Parts
<1>2. \A u \in Tasks \ {t} : call_pc'[u] = call_pc[u]
  BY Parts, Zenon
<1>. QED  BY <1>1, <1>2, Parts DEF Waiting

\* wait_block_locked queues its caller, which was awake and so in no queue.
LEMMA Blocks ==
  ASSUME SyncInv, NEW t \in Tasks, NEW q \in Queues, sync_state[t] = "RUNNING", ~Full(q),
         sync_state' = [sync_state EXCEPT ![t] = "BLOCKED"],
         wq' = WaitEnqueue(q, t),
         call_pc' = [call_pc EXCEPT ![t] = Park[q]]
  PROVE  /\ Waiting'
         /\ wq' \in [Queues -> Seq(Tasks)]
         /\ \A r \in Queues : Len(wq'[r]) <= WAIT_QUEUE_CAPACITY
         /\ \A r \in Queues \ {q} : wq'[r] = wq[r]
<1>. DEFINE s == wq[q]
            r == Append(s, t)
<1>1. s \in Seq(Tasks) /\ Len(s) \in Nat /\ NoRepeats(s)
  BY Parts, Zenon
<1>2. \A p \in Queues : \A i \in 1 .. Len(wq[p]) : wq[p][i] \in Tasks \ {t}
  BY Parts
<1>3. (\A p \in Queues \ {q} : wq'[p] = wq[p]) /\ wq'[q] = r /\ wq' \in [Queues -> Seq(Tasks)]
  BY <1>1, Parts DEF WaitEnqueue
<1>4. /\ Len(r) = Len(s) + 1
      /\ \A i \in 1 .. Len(s) : r[i] = s[i]
      /\ r[Len(s) + 1] = t
  BY <1>1
<1>. HIDE DEF r
<1>5. \A i \in 1 .. Len(r) : i \in 1 .. Len(s) \/ i = Len(s) + 1
  BY <1>1, <1>4
<1>6. NoRepeats(r)
  <2>. SUFFICES ASSUME NEW i \in 1 .. Len(r), NEW j \in 1 .. Len(r), r[i] = r[j] PROVE i = j
    BY Zenon DEF NoRepeats
  <2>1. CASE i \in 1 .. Len(s) /\ j \in 1 .. Len(s)
    BY <1>1, <1>4, <2>1, Zenon DEF NoRepeats
  <2>2. CASE i \in 1 .. Len(s) /\ j = Len(s) + 1
    BY <1>2, <1>4, <2>2, Zenon
  <2>3. CASE i = Len(s) + 1 /\ j \in 1 .. Len(s)
    BY <1>2, <1>4, <2>3, Zenon
  <2>. QED  BY <1>5, <2>1, <2>2, <2>3, Zenon
<1>7. \A p \in Queues : Len(wq'[p]) <= WAIT_QUEUE_CAPACITY
  <2>1. Len(s) + 1 <= WAIT_QUEUE_CAPACITY
    BY <1>1, WaitSyncAssumption DEF Full
  <2>. QED  BY <1>3, <1>4, <2>1, Parts, Zenon
<1>8. /\ sync_state'[t] = "BLOCKED" /\ call_pc'[t] = Park[q]
      /\ \A u \in Tasks \ {t} : sync_state'[u] = sync_state[u] /\ call_pc'[u] = call_pc[u]
  BY Parts, Zenon
<1>9. \A p \in Queues : \A i \in 1 .. Len(wq'[p]) :
        sync_state'[wq'[p][i]] = "BLOCKED" /\ call_pc'[wq'[p][i]] = Park[p]
  <2>. SUFFICES ASSUME NEW p \in Queues, NEW i \in 1 .. Len(wq'[p])
                PROVE  sync_state'[wq'[p][i]] = "BLOCKED" /\ call_pc'[wq'[p][i]] = Park[p]
    BY Zenon
  <2>1. CASE p # q
    BY <1>2, <1>3, <1>8, <2>1, Parts
  <2>2. CASE p = q
    BY <1>2, <1>3, <1>4, <1>5, <1>8, <2>2, Parts
  <2>. QED  BY <2>1, <2>2, Zenon
<1>10. \A u \in Tasks : sync_state'[u] = "BLOCKED" =>
        \E p \in Queues : \E i \in 1 .. Len(wq'[p]) : wq'[p][i] = u
  <2>. SUFFICES ASSUME NEW u \in Tasks, sync_state'[u] = "BLOCKED"
                PROVE  \E p \in Queues : \E i \in 1 .. Len(wq'[p]) : wq'[p][i] = u
    BY Zenon
  <2>1. CASE u = t
    <3>1. Len(s) + 1 \in 1 .. Len(r)
      BY <1>1, <1>4
    <3>. QED  BY <1>3, <1>4, <2>1, <3>1, Zenon
  <2>2. CASE u # t
    <3>1. PICK p \in Queues : \E i \in 1 .. Len(wq[p]) : wq[p][i] = u
      BY <1>8, <2>2, Parts, Zenon
    <3>2. PICK i \in 1 .. Len(wq[p]) : wq[p][i] = u
      BY <3>1, Zenon
    <3>3. CASE p # q
      BY <1>3, <3>2, <3>3, Zenon
    <3>4. CASE p = q
      <4>1. i \in 1 .. Len(r) /\ r[i] = u
        BY <1>1, <1>4, <3>2, <3>4
      <4>. QED  BY <1>3, <4>1, Zenon
    <3>. QED  BY <3>3, <3>4, Zenon
  <2>. QED  BY <2>1, <2>2, Zenon
<1>11. \A p \in Queues : NoRepeats(wq'[p])
  BY <1>3, <1>6, Parts, Zenon
<1>. QED  BY <1>3, <1>7, <1>9, <1>10, <1>11, Zenon DEF Waiting

\* The queues after the tasks of T were taken out of them.
Removed(T) ==
  DOMAIN wq' = Queues /\ wq' = [q \in Queues |-> wq'[q]] /\ \A q \in Queues : Without(wq'[q], wq[q], T)

\* Tasks that are taken out and unblocked leave the others as they waited.
LEMMA Wakes ==
  ASSUME SyncInv, NEW T, Removed(T), sync_state' = UnblockTasks(T),
         \A u \in Tasks : sync_state[u] = "BLOCKED" => call_pc'[u] = call_pc[u]
  PROVE  /\ Waiting'
         /\ wq' \in [Queues -> Seq(Tasks)]
         /\ sync_state' \in [Tasks -> {"RUNNING", "BLOCKED"}]
         /\ \A q \in Queues : Len(wq'[q]) <= WAIT_QUEUE_CAPACITY
         /\ \A q \in Queues : wq'[q] # <<>> => wq[q] # <<>>
<1>1. wq' \in [Queues -> Seq(Tasks)]
  BY Zenon DEF Removed, Without
<1>2. \A u \in Tasks : sync_state'[u] = IF u \in T THEN "RUNNING" ELSE sync_state[u]
  BY Zenon DEF UnblockTasks
<1>3. \A q \in Queues : \A i \in 1 .. Len(wq'[q]) :
        sync_state'[wq'[q][i]] = "BLOCKED" /\ call_pc'[wq'[q][i]] = Park[q]
  <2>. SUFFICES ASSUME NEW q \in Queues, NEW i \in 1 .. Len(wq'[q])
                PROVE  sync_state'[wq'[q][i]] = "BLOCKED" /\ call_pc'[wq'[q][i]] = Park[q]
    BY Zenon
  <2>1. PICK j \in 1 .. Len(wq[q]) : wq'[q][i] = wq[q][j]
    BY Zenon DEF Removed, Without
  <2>2. wq[q][j] \notin T
    BY <2>1 DEF Removed, Without
  <2>. QED  BY <1>2, <2>1, <2>2, Parts
<1>4. \A u \in Tasks : sync_state'[u] = "BLOCKED" =>
        \E q \in Queues : \E i \in 1 .. Len(wq'[q]) : wq'[q][i] = u
  <2>. SUFFICES ASSUME NEW u \in Tasks, sync_state'[u] = "BLOCKED"
                PROVE  \E q \in Queues : \E i \in 1 .. Len(wq'[q]) : wq'[q][i] = u
    BY Zenon
  <2>1. u \notin T /\ sync_state[u] = "BLOCKED"
    BY <1>2, Zenon
  <2>2. PICK q \in Queues : \E j \in 1 .. Len(wq[q]) : wq[q][j] = u
    BY <2>1, Parts, Zenon
  <2>. QED  BY <2>1, <2>2 DEF Removed, Without
<1>5. \A q \in Queues : NoRepeats(wq'[q])
  BY Zenon DEF Removed, Without
<1>6. \A q \in Queues : Len(wq'[q]) <= WAIT_QUEUE_CAPACITY /\ (wq'[q] # <<>> => wq[q] # <<>>)
  <2>. SUFFICES ASSUME NEW q \in Queues
                PROVE  Len(wq'[q]) <= WAIT_QUEUE_CAPACITY /\ (wq'[q] # <<>> => wq[q] # <<>>)
    BY Zenon
  <2>1. Len(wq'[q]) \in Nat /\ Len(wq'[q]) <= Len(wq[q]) /\ (wq'[q] # <<>> => Len(wq'[q]) > 0)
    BY <1>1 DEF Removed, Without
  <2>2. Len(wq[q]) \in Nat /\ Len(wq[q]) <= WAIT_QUEUE_CAPACITY /\ (wq[q] = <<>> => Len(wq[q]) = 0)
    BY Parts
  <2>. QED  BY <2>1, <2>2, WaitSyncAssumption
<1>7. sync_state' \in [Tasks -> {"RUNNING", "BLOCKED"}]
  BY Parts, Zenon DEF UnblockTasks
<1>. QED  BY <1>1, <1>3, <1>4, <1>5, <1>6, <1>7, Zenon DEF Waiting

\* A task is queued in one queue: the one it is parked on.
LEMMA OneQueue ==
  ASSUME SyncInv, NEW q \in Queues, NEW r \in Queues \ {q},
         NEW i \in 1 .. Len(wq[q]), NEW j \in 1 .. Len(wq[r])
  PROVE  wq[q][i] # wq[r][j]
<1>1. call_pc[wq[q][i]] = Park[q] /\ call_pc[wq[r][j]] = Park[r]
  BY Parts, Zenon
<1>2. Park[q] # Park[r]
  BY Labels, Zenon
<1>. QED  BY <1>1, <1>2, Zenon

\* One queue changed, and none of the others held what it lost.
LEMMA OneChanged ==
  ASSUME SyncInv, NEW q \in Queues, NEW s, NEW T, wq' = [wq EXCEPT ![q] = s],
         Without(s, wq[q], T),
         \A r \in Queues \ {q} : \A i \in 1 .. Len(wq[r]) : wq[r][i] \notin T
  PROVE  Removed(T)
<1>1. \A r \in Queues \ {q} : wq'[r] = wq[r] /\ Without(wq[r], wq[r], T)
  BY Parts, OthersStay, Zenon
<1>2. wq'[q] = s /\ DOMAIN wq' = Queues /\ wq' = [r \in Queues |-> wq'[r]]
  BY Parts, Zenon
<1>. QED  BY <1>1, <1>2, Zenon DEF Removed

\* wait_wake_one takes out and wakes a task that was parked on its queue, if there is one.
LEMMA WakesOne ==
  ASSUME SyncInv, NEW q \in Queues, WaitWakeOne(q)
  PROVE  \/ wq[q] = <<>> /\ UNCHANGED <<wq, sync_state>>
         \/ \E h \in Tasks : /\ Removed({h}) /\ sync_state' = UnblockTasks({h})
                             /\ sync_state[h] = "BLOCKED" /\ call_pc[h] = Park[q]
<1>1. CASE wq[q] = <<>>
  BY <1>1, Zenon DEF WaitWakeOne
<1>2. CASE wq[q] # <<>>
  <2>. DEFINE h == Head(wq[q])
  <2>1. sync_state' = UnblockTasks({h}) /\ wq' = [wq EXCEPT ![q] = Tail(wq[q])]
    BY <1>2, Zenon DEF WaitWakeOne
  <2>2. Without(Tail(wq[q]), wq[q], {h}) /\ 1 \in 1 .. Len(wq[q]) /\ h = wq[q][1] /\ h \in Tasks
    BY <1>2, Parts, DequeueTakesHead, Zenon
  <2>. HIDE DEF h
  <2>3. sync_state[h] = "BLOCKED" /\ call_pc[h] = Park[q]
    BY <2>2, Parts, Zenon
  <2>4. \A r \in Queues \ {q} : \A i \in 1 .. Len(wq[r]) : wq[r][i] \notin {h}
    BY <2>2, OneQueue, Zenon
  <2>5. Removed({h})
    BY <2>1, <2>2, <2>4, OneChanged, Zenon
  <2>. QED  BY <2>1, <2>2, <2>3, <2>5, Zenon
<1>. QED  BY <1>1, <1>2, Zenon

\* wait_wake_all empties its queue.
LEMMA WakesAll ==
  ASSUME SyncInv, NEW q \in Queues, WaitWakeAll(q)
  PROVE  Removed(Range(wq[q])) /\ sync_state' = UnblockTasks(Range(wq[q]))
<1>1. sync_state' = UnblockTasks(Range(wq[q])) /\ wq' = [wq EXCEPT ![q] = <<>>]
  BY Zenon DEF WaitWakeAll
<1>2. Range(wq[q]) = {wq[q][i] : i \in 1 .. Len(wq[q])}
  BY Parts DEF Range
<1>3. \A r \in Queues \ {q} : \A i \in 1 .. Len(wq[r]) : wq[r][i] \notin Range(wq[q])
  BY <1>2, OneQueue, Zenon
<1>4. \A i \in 1 .. Len(wq[q]) : wq[q][i] \in Range(wq[q])
  BY <1>2, Zenon
<1>5. Without(<<>>, wq[q], Range(wq[q]))
  BY <1>4, Parts, OthersStay, Zenon
<1>. QED  BY <1>1, <1>3, <1>5, OneChanged, Zenon

\* wait_abort takes out the task it unblocks, wherever that task was queued.
LEMMA WakesAborted ==
  ASSUME SyncInv, NEW q \in Queues, NEW u, WaitAbort(q, u),
         u \in Tasks => call_pc[u] = Park[q] \/ sync_state[u] = "RUNNING"
  PROVE  Removed({u}) /\ sync_state' = UnblockTasks({u})
<1>1. sync_state' = UnblockTasks({u}) /\ wq' = [wq EXCEPT ![q] = WaitRemove(wq[q], u)]
  BY Zenon DEF WaitAbort
<1>2. Without(WaitRemove(wq[q], u), wq[q], {u})
  BY Parts, RemoveTakesOne, Zenon
<1>3. \A p \in Queues \ {q} : \A i \in 1 .. Len(wq[p]) : wq[p][i] \notin {u}
  <2>. SUFFICES ASSUME NEW p \in Queues \ {q}, NEW i \in 1 .. Len(wq[p]), wq[p][i] = u PROVE FALSE
    BY Zenon
  <2>1. u \in Tasks /\ sync_state[u] = "BLOCKED" /\ call_pc[u] = Park[p]
    BY Parts, Zenon
  <2>. QED  BY <2>1, Labels, Zenon
<1>. QED  BY <1>1, <1>2, <1>3, OneChanged, Zenon

-----------------------------------------------------------------------------
(* No lost wakeup *)

\* The tasks about to test the mutex and the semaphore again.
Lockers == Retrying("m", "lock")
Takers  == Retrying("s", "sem")

\* Who retries goes on retrying, and nobody is queued behind a free mutex or a positive
\* count: no wakeup is lost by a step that frees nothing.
LEMMA StillAwake ==
  ASSUME SyncInv, Lockers \subseteq Lockers', Takers \subseteq Takers',
         count' \in Nat, count' <= count, locked' = locked,
         wq'["m"] # <<>> => wq["m"] # <<>>, wq'["s"] # <<>> => wq["s"] # <<>>
  PROVE  NoLostWakeup'
<1>1. count \in Nat
  BY WaitSyncAssumption DEF SyncInv, SyncTypeOK
<1>2. /\ ~locked /\ wq["m"] # <<>> => Lockers # {}
      /\ wq["s"] # <<>> => count <= Cardinality(Takers)
  BY Zenon DEF SyncInv, NoLostWakeup, Lockers, Takers
<1>3. Takers \in SUBSET Tasks /\ Takers' \in SUBSET Tasks
  BY Zenon DEF Takers, Retrying
<1>4. Cardinality(Takers) \in Nat /\ Cardinality(Takers') \in Nat
        /\ Cardinality(Takers) <= Cardinality(Takers')
  BY <1>3, TaskCount, Zenon
<1>5. ~locked' /\ wq'["m"] # <<>> => Lockers' # {}
  BY <1>2, Zenon
<1>6. wq'["s"] # <<>> => count' <= Cardinality(Takers')
  BY <1>1, <1>2, <1>4
<1>. QED  BY <1>5, <1>6, Zenon DEF NoLostWakeup, Lockers, Takers

\* Who moves between labels, and who is awake, decides who retries.
LEMMA RetryingIs ==
  /\ Lockers = {t \in Tasks : call_pc[t] = "lock" \/ (call_pc[t] = "park_m" /\ sync_state[t] = "RUNNING")}
  /\ Takers = {t \in Tasks : call_pc[t] = "sem" \/ (call_pc[t] = "park_s" /\ sync_state[t] = "RUNNING")}
  /\ Lockers' = {t \in Tasks : call_pc'[t] = "lock" \/ (call_pc'[t] = "park_m" /\ sync_state'[t] = "RUNNING")}
  /\ Takers' = {t \in Tasks : call_pc'[t] = "sem" \/ (call_pc'[t] = "park_s" /\ sync_state'[t] = "RUNNING")}
BY Labels, Zenon DEF Lockers, Takers, Retrying

\* The mutex and the labels of the tasks between two steps.
LEMMA More ==
  ASSUME SyncInv
  PROVE  /\ call_pc \in [Tasks -> {"user", "lock", "sem", "cv_unlock", "cv_block", "abort",
                                   "park_m", "park_s", "park_c"}]
         /\ lock \in [Queues -> Tasks \cup {NoOne}]
         /\ victim \in [Tasks -> [task : Tasks \cup {NoOne}, queue : Queues]]
         /\ locked \in BOOLEAN /\ mutex_owner \in Tasks \cup {NoOne} /\ inside \subseteq Tasks
         /\ count \in Nat /\ count <= MaxCount /\ MaxCount \in Nat
         /\ MutualExclusion /\ HoldsOnWait
<1>1. {Park[q] : q \in Queues} = {"park_m", "park_s", "park_c"}
  BY Labels, Zenon DEF Queues
<1>2. call_pc \in [Tasks -> {"user", "lock", "sem", "cv_unlock", "cv_block", "abort"}
                              \cup {"park_m", "park_s", "park_c"}]
  BY <1>1, Zenon DEF SyncInv, SyncTypeOK
<1>3. count \in Nat /\ count <= MaxCount /\ MaxCount \in Nat
  BY WaitSyncAssumption DEF SyncInv, SyncTypeOK
<1>. QED  BY <1>2, <1>3, Zenon DEF SyncInv, SyncTypeOK

\* The invariant from its parts.
LEMMA Together ==
  ASSUME SyncInv,
         wq' \in [Queues -> Seq(Tasks)], \A q \in Queues : Len(wq'[q]) <= WAIT_QUEUE_CAPACITY,
         sync_state' \in [Tasks -> {"RUNNING", "BLOCKED"}],
         call_pc' \in [Tasks -> {"user", "lock", "sem", "cv_unlock", "cv_block", "abort",
                                 "park_m", "park_s", "park_c"}],
         lock' \in [Queues -> Tasks \cup {NoOne}],
         victim' \in [Tasks -> [task : Tasks \cup {NoOne}, queue : Queues]],
         locked' \in BOOLEAN, mutex_owner' \in Tasks \cup {NoOne}, inside' \subseteq Tasks,
         count' \in Nat, count' <= MaxCount,
         MutualExclusion', HoldsOnWait', Waiting', NoLostWakeup'
  PROVE  SyncInv'
<1>1. {Park[q] : q \in Queues} = {"park_m", "park_s", "park_c"}
  BY Labels DEF Queues
<1>2. call_pc' \in [Tasks -> {"user", "lock", "sem", "cv_unlock", "cv_block", "abort"}
                               \cup {Park[q] : q \in Queues}]
  BY <1>1, Zenon
<1>3. count' \in 0 .. MaxCount
  BY WaitSyncAssumption
<1>4. SyncTypeOK'
  BY <1>2, <1>3, Zenon DEF SyncTypeOK
<1>. QED  BY <1>4, Zenon DEF SyncInv

-----------------------------------------------------------------------------
(* The steps, by kind *)

\* A task that is awake moves on, and stops no retry.
LEMMA StepMoves ==
  ASSUME SyncInv, NEW t \in Tasks, NEW l \in {"user", "lock", "sem", "cv_unlock", "cv_block", "abort"},
         sync_state[t] = "RUNNING",
         UNCHANGED <<wq, sync_state, locked, mutex_owner, count, inside>>,
         call_pc' = [call_pc EXCEPT ![t] = l],
         lock' \in [Queues -> Tasks \cup {NoOne}],
         victim' \in [Tasks -> [task : Tasks \cup {NoOne}, queue : Queues]],
         l = "cv_unlock" => t \in inside,
         call_pc[t] \in {"lock", "park_m"} => l = "lock",
         call_pc[t] \in {"sem", "park_s"} => l = "sem"
  PROVE  SyncInv'
<1>1. Waiting'
  BY Moves, Zenon
<1>2. call_pc'[t] = l /\ \A u \in Tasks \ {t} : call_pc'[u] = call_pc[u]
  BY More, Zenon
<1>3. Lockers \subseteq Lockers' /\ Takers \subseteq Takers'
  BY <1>2, RetryingIs, Zenon
<1>4. NoLostWakeup'
  BY <1>3, More, StillAwake
<1>5. HoldsOnWait' /\ MutualExclusion'
  BY <1>2, More, Zenon DEF HoldsOnWait, MutualExclusion
<1>6. call_pc' \in [Tasks -> {"user", "lock", "sem", "cv_unlock", "cv_block", "abort",
                              "park_m", "park_s", "park_c"}]
  BY More, Zenon
<1>. QED  BY <1>1, <1>4, <1>5, <1>6, Parts, More, Together, Zenon

\* A task that finds the mutex taken or the count zero waits, and so may who retries.
LEMMA StepBlocks ==
  ASSUME SyncInv, NEW t \in Tasks, NEW q \in Queues, ~Full(q),
         sync_state' = [sync_state EXCEPT ![t] = "BLOCKED"],
         wq' = WaitEnqueue(q, t),
         call_pc' = [call_pc EXCEPT ![t] = Park[q]],
         lock' = [lock EXCEPT ![q] = NoOne],
         UNCHANGED <<locked, mutex_owner, count, victim, inside>>,
         \/ q = "m" /\ call_pc[t] = "lock" /\ locked
         \/ q = "s" /\ call_pc[t] = "sem" /\ count = 0
         \/ q = "c" /\ call_pc[t] = "cv_block"
  PROVE  SyncInv'
<1>1. sync_state[t] = "RUNNING"
  BY AwakeAtLabel, Zenon
<1>2. /\ Waiting' /\ wq' \in [Queues -> Seq(Tasks)]
      /\ \A r \in Queues : Len(wq'[r]) <= WAIT_QUEUE_CAPACITY
      /\ \A r \in Queues \ {q} : wq'[r] = wq[r]
  BY <1>1, Blocks, Zenon
<1>3. Park[q] \in {"park_m", "park_s", "park_c"}
  BY Labels, Zenon DEF Queues
<1>4. /\ call_pc'[t] = Park[q] /\ sync_state'[t] = "BLOCKED"
      /\ \A u \in Tasks \ {t} : call_pc'[u] = call_pc[u] /\ sync_state'[u] = sync_state[u]
  BY More, Parts, Zenon
<1>5. (q # "m" => Lockers \subseteq Lockers') /\ (q # "s" => Takers \subseteq Takers')
  BY <1>1, <1>4, RetryingIs
<1>6. NoLostWakeup'
  <2>1. /\ ~locked /\ wq["m"] # <<>> => Lockers # {}
        /\ wq["s"] # <<>> => count <= Cardinality(Takers)
    BY Zenon DEF SyncInv, NoLostWakeup, Lockers, Takers
  <2>2. ~locked' /\ wq'["m"] # <<>> => Lockers' # {}
    BY <1>2, <1>5, <2>1, Zenon DEF Queues
  <2>3. Takers \in SUBSET Tasks /\ Takers' \in SUBSET Tasks
    BY Zenon DEF Takers, Retrying
  <2>4. /\ Cardinality(Takers) \in Nat /\ Cardinality(Takers') \in Nat
        /\ Takers \subseteq Takers' => Cardinality(Takers) <= Cardinality(Takers')
    BY <2>3, TaskCount, Zenon
  <2>5. wq'["s"] # <<>> => count' <= Cardinality(Takers')
    BY <1>2, <1>5, <2>1, <2>4, More DEF Queues
  <2>. QED  BY <2>2, <2>5, Zenon DEF NoLostWakeup, Lockers, Takers
<1>7. HoldsOnWait' /\ MutualExclusion'
  BY <1>3, <1>4, More, Zenon DEF HoldsOnWait, MutualExclusion
<1>8. call_pc' \in [Tasks -> {"user", "lock", "sem", "cv_unlock", "cv_block", "abort",
                              "park_m", "park_s", "park_c"}]
  BY <1>3, More, Zenon
<1>9. sync_state' \in [Tasks -> {"RUNNING", "BLOCKED"}] /\ lock' \in [Queues -> Tasks \cup {NoOne}]
  BY Parts, More, Zenon
<1>. QED  BY <1>2, <1>6, <1>7, <1>8, <1>9, More, Together, Zenon

\* Waking tasks stops no retry: who is woken retries as well.
LEMMA WakesKeepRetries ==
  ASSUME SyncInv, NEW T, sync_state' = UnblockTasks(T), NEW t \in Tasks,
         call_pc[t] \in {"user", "cv_unlock", "abort"},
         \A u \in Tasks \ {t} : call_pc'[u] = call_pc[u]
  PROVE  /\ Lockers \subseteq Lockers' /\ Takers \subseteq Takers'
         /\ \A u \in Tasks : sync_state[u] = "BLOCKED" => call_pc'[u] = call_pc[u]
         /\ \A u \in T \cap Tasks : /\ call_pc[u] = "park_m" => u \in Lockers'
                                    /\ call_pc[u] = "park_s" => u \in Takers'
<1>1. sync_state[t] = "RUNNING"
  BY AwakeAtLabel, Zenon
<1>2. \A u \in Tasks : sync_state'[u] = IF u \in T THEN "RUNNING" ELSE sync_state[u]
  BY Zenon DEF UnblockTasks
<1>. QED  BY <1>1, <1>2, RetryingIs, Zenon

\* wait_wake_one, wait_wake_all or wait_abort in a call that leaves mutex and count alone.
LEMMA StepWakes ==
  ASSUME SyncInv, NEW T, Removed(T), sync_state' = UnblockTasks(T), NEW t \in Tasks,
         call_pc[t] \in {"user", "abort"}, call_pc' = [call_pc EXCEPT ![t] = "user"],
         victim' \in [Tasks -> [task : Tasks \cup {NoOne}, queue : Queues]],
         UNCHANGED <<locked, mutex_owner, count, lock, inside>>
  PROVE  SyncInv'
<1>1. call_pc'[t] = "user" /\ \A u \in Tasks \ {t} : call_pc'[u] = call_pc[u]
  BY More, Zenon
<1>2. /\ Lockers \subseteq Lockers' /\ Takers \subseteq Takers'
      /\ \A u \in Tasks : sync_state[u] = "BLOCKED" => call_pc'[u] = call_pc[u]
  BY <1>1, WakesKeepRetries, Zenon
<1>3. /\ Waiting' /\ wq' \in [Queues -> Seq(Tasks)]
      /\ sync_state' \in [Tasks -> {"RUNNING", "BLOCKED"}]
      /\ \A q \in Queues : Len(wq'[q]) <= WAIT_QUEUE_CAPACITY
      /\ \A q \in Queues : wq'[q] # <<>> => wq[q] # <<>>
  BY <1>2, Wakes, Zenon
<1>4. "m" \in Queues /\ "s" \in Queues
  BY Zenon DEF Queues
<1>5. NoLostWakeup'
  BY <1>2, <1>3, <1>4, More, StillAwake
<1>6. HoldsOnWait' /\ MutualExclusion'
  BY <1>1, More, Zenon DEF HoldsOnWait, MutualExclusion
<1>7. call_pc' \in [Tasks -> {"user", "lock", "sem", "cv_unlock", "cv_block", "abort",
                              "park_m", "park_s", "park_c"}]
  BY More, Zenon
<1>. QED  BY <1>3, <1>5, <1>6, <1>7, More, Together, Zenon

\* mutex_unlock, by itself or in condvar_wait: the mutex is free, and if somebody was
\* queued for it the one that was woken is on its way.
LEMMA StepReleases ==
  ASSUME SyncInv, NEW t \in Tasks, t \in inside, Release(t),
         call_pc[t] \in {"user", "cv_unlock"}, NEW l \in {"user", "cv_block"},
         call_pc' = [call_pc EXCEPT ![t] = l],
         UNCHANGED <<count, lock, victim>>
  PROVE  SyncInv'
<1>1. call_pc'[t] = l /\ \A u \in Tasks \ {t} : call_pc'[u] = call_pc[u]
  BY More, Zenon
<1>2. locked' = FALSE /\ mutex_owner' = NoOne /\ inside' = inside \ {t} /\ WaitWakeOne("m")
  BY Zenon DEF Release
<1>3. inside = {t} /\ inside' = {}
  BY <1>2, More, Zenon DEF MutualExclusion
<1>4. MutualExclusion' /\ HoldsOnWait'
  BY <1>1, <1>2, <1>3, More, Zenon DEF MutualExclusion, HoldsOnWait
<1>5. call_pc' \in [Tasks -> {"user", "lock", "sem", "cv_unlock", "cv_block", "abort",
                              "park_m", "park_s", "park_c"}]
  BY More, Zenon
<1>6. "m" \in Queues /\ "s" \in Queues /\ Park["m"] = "park_m"
  BY Labels, Zenon DEF Queues
<1>7. /\ wq["s"] # <<>> => count <= Cardinality(Takers)
      /\ Takers \in SUBSET Tasks /\ Takers' \in SUBSET Tasks
  BY Zenon DEF SyncInv, NoLostWakeup, Takers, Retrying
<1>8. /\ Cardinality(Takers) \in Nat /\ Cardinality(Takers') \in Nat
      /\ Takers \subseteq Takers' => Cardinality(Takers) <= Cardinality(Takers')
  BY <1>7, TaskCount, Zenon
<1>9. CASE wq["m"] = <<>> /\ UNCHANGED <<wq, sync_state>>
  <2>1. sync_state[t] = "RUNNING"
    BY AwakeAtLabel, Zenon
  <2>2. Waiting'
    BY <1>9, <2>1, Moves, Zenon
  <2>3. Takers \subseteq Takers'
    BY <1>1, <1>9, RetryingIs, Zenon
  <2>4. NoLostWakeup'
    BY <1>7, <1>8, <1>9, <2>3, More DEF NoLostWakeup, Takers
  <2>. QED  BY <1>2, <1>3, <1>4, <1>5, <1>9, <2>2, <2>4, Parts, More, Together, Zenon
<1>10. ASSUME NEW h \in Tasks, Removed({h}), sync_state' = UnblockTasks({h}), call_pc[h] = "park_m"
       PROVE  SyncInv'
  <2>1. /\ Takers \subseteq Takers' /\ h \in Lockers'
        /\ \A u \in Tasks : sync_state[u] = "BLOCKED" => call_pc'[u] = call_pc[u]
    BY <1>1, <1>10, WakesKeepRetries, Zenon
  <2>2. /\ Waiting' /\ wq' \in [Queues -> Seq(Tasks)]
        /\ sync_state' \in [Tasks -> {"RUNNING", "BLOCKED"}]
        /\ \A q \in Queues : Len(wq'[q]) <= WAIT_QUEUE_CAPACITY
        /\ \A q \in Queues : wq'[q] # <<>> => wq[q] # <<>>
    BY <1>10, <2>1, Wakes, Zenon
  <2>3. wq'["s"] # <<>> => count' <= Cardinality(Takers')
    BY <1>6, <1>7, <1>8, <2>1, <2>2, More
  <2>4. NoLostWakeup'
    BY <2>1, <2>3, Zenon DEF NoLostWakeup, Takers, Lockers
  <2>. QED  BY <1>2, <1>3, <1>4, <1>5, <2>2, <2>4, More, Together, Zenon
<1>. QED  BY <1>2, <1>6, <1>9, <1>10, WakesOne, Zenon

-----------------------------------------------------------------------------
(* The operations *)

\* A task takes the mutex: only when it was free, so when nobody was inside.
LEMMA StepAcquires ==
  ASSUME SyncInv, NEW t \in Tasks, ~locked, Acquire(t),
         call_pc[t] \in {"lock", "user"}, call_pc' = [call_pc EXCEPT ![t] = "user"],
         lock' \in [Queues -> Tasks \cup {NoOne}], UNCHANGED <<wq, sync_state, count, victim>>
  PROVE  SyncInv'
<1>1. call_pc'[t] = "user" /\ \A u \in Tasks \ {t} : call_pc'[u] = call_pc[u]
  BY More, Zenon
<1>2. locked' = TRUE /\ mutex_owner' = t /\ inside' = inside \cup {t}
  BY Zenon DEF Acquire
<1>3. inside = {} /\ inside' = {t}
  BY <1>2, More, Zenon DEF MutualExclusion
<1>4. MutualExclusion' /\ HoldsOnWait'
  BY <1>1, <1>2, <1>3, More, Zenon DEF MutualExclusion, HoldsOnWait
<1>5. sync_state[t] = "RUNNING"
  BY AwakeAtLabel, Zenon
<1>6. Waiting'
  BY <1>5, Moves, Zenon
<1>7. Takers' = Takers
  BY <1>1, RetryingIs, Zenon
<1>8. NoLostWakeup'
  BY <1>2, <1>7, Zenon DEF SyncInv, NoLostWakeup, Takers
<1>9. call_pc' \in [Tasks -> {"user", "lock", "sem", "cv_unlock", "cv_block", "abort",
                              "park_m", "park_s", "park_c"}]
  BY More, Zenon
<1>. QED  BY <1>2, <1>3, <1>4, <1>6, <1>8, <1>9, Parts, More, Together

\* mutex_lock spins with the queue's lock when the queue is full: nothing else changes.
LEMMA StepSpins ==
  ASSUME SyncInv, lock' \in [Queues -> Tasks \cup {NoOne}],
         UNCHANGED <<wq, sync_state, locked, mutex_owner, count, call_pc, victim, inside>>
  PROVE  SyncInv'
<1>1. Waiting' /\ NoLostWakeup' /\ MutualExclusion' /\ HoldsOnWait'
  BY DEF SyncInv, Waiting, NoLostWakeup, MutualExclusion, HoldsOnWait, Retrying
<1>. QED  BY <1>1, Parts, More, Together, Zenon

\* A task takes one from the count: a queued task keeps one retrying task for each unit left.
LEMMA StepTakes ==
  ASSUME SyncInv, NEW t \in Tasks, count > 0, count' = count - 1,
         call_pc[t] \in {"sem", "user"}, call_pc' = [call_pc EXCEPT ![t] = "user"],
         lock' \in [Queues -> Tasks \cup {NoOne}],
         UNCHANGED <<wq, sync_state, locked, mutex_owner, victim, inside>>
  PROVE  SyncInv'
<1>1. call_pc'[t] = "user" /\ \A u \in Tasks \ {t} : call_pc'[u] = call_pc[u]
  BY More, Zenon
<1>2. Lockers' = Lockers /\ Takers \subseteq Takers' \cup {t}
  BY <1>1, RetryingIs, Zenon
<1>3. /\ ~locked /\ wq["m"] # <<>> => Lockers # {}
      /\ wq["s"] # <<>> => count <= Cardinality(Takers)
      /\ Takers \in SUBSET Tasks /\ Takers' \in SUBSET Tasks
  BY Zenon DEF SyncInv, NoLostWakeup, Lockers, Takers, Retrying
<1>4. Cardinality(Takers) \in Nat /\ Cardinality(Takers') \in Nat
        /\ Cardinality(Takers) - 1 <= Cardinality(Takers')
  BY <1>2, <1>3, TaskCount, Zenon
<1>5. wq'["s"] # <<>> => count' <= Cardinality(Takers')
  BY <1>3, <1>4, More
<1>6. NoLostWakeup'
  BY <1>2, <1>3, <1>5, Zenon DEF NoLostWakeup, Lockers, Takers
<1>7. MutualExclusion' /\ HoldsOnWait'
  BY <1>1, More, Zenon DEF MutualExclusion, HoldsOnWait
<1>8. sync_state[t] = "RUNNING"
  BY AwakeAtLabel, Zenon
<1>9. Waiting'
  BY <1>8, Moves, Zenon
<1>10. call_pc' \in [Tasks -> {"user", "lock", "sem", "cv_unlock", "cv_block", "abort",
                               "park_m", "park_s", "park_c"}]
  BY More, Zenon
<1>11. count' \in Nat /\ count' <= MaxCount
  BY More
<1>. QED  BY <1>6, <1>7, <1>9, <1>10, <1>11, Parts, More, Together, Zenon

\* semaphore_post adds one to the count and one to the tasks that retry, if any waits.
LEMMA StepPosts ==
  ASSUME SyncInv, NEW t \in Tasks, SemaphorePost(t)
  PROVE  SyncInv'
<1>1. /\ count < MaxCount /\ count' = count + 1 /\ WaitWakeOne("s") /\ call_pc[t] = "user"
      /\ UNCHANGED <<locked, mutex_owner, lock, call_pc, victim, inside>>
  BY Zenon DEF SemaphorePost
<1>2. "m" \in Queues /\ "s" \in Queues /\ Park["s"] = "park_s"
  BY Labels, Zenon DEF Queues
<1>3. /\ ~locked /\ wq["m"] # <<>> => Lockers # {}
      /\ wq["s"] # <<>> => count <= Cardinality(Takers)
      /\ Takers \in SUBSET Tasks /\ Takers' \in SUBSET Tasks
  BY Zenon DEF SyncInv, NoLostWakeup, Lockers, Takers, Retrying
<1>4. count' \in Nat /\ count' <= MaxCount
  BY <1>1, More
<1>5. MutualExclusion' /\ HoldsOnWait'
  BY <1>1, More, Zenon DEF MutualExclusion, HoldsOnWait
<1>6. CASE wq["s"] = <<>> /\ UNCHANGED <<wq, sync_state>>
  <2>1. Waiting'
    BY <1>1, <1>6 DEF SyncInv, Waiting
  <2>2. Lockers' = Lockers
    BY <1>1, <1>6, RetryingIs, Zenon
  <2>3. NoLostWakeup'
    BY <1>1, <1>3, <1>6, <2>2, Zenon DEF NoLostWakeup, Lockers
  <2>. QED  BY <1>1, <1>4, <1>5, <1>6, <2>1, <2>3, Parts, More, Together, SMTT(30)
<1>7. ASSUME NEW h \in Tasks, Removed({h}), sync_state' = UnblockTasks({h}),
             sync_state[h] = "BLOCKED", call_pc[h] = "park_s"
      PROVE  SyncInv'
  <2>1. /\ Lockers \subseteq Lockers' /\ Takers \subseteq Takers' /\ h \in Takers'
        /\ \A u \in Tasks : sync_state[u] = "BLOCKED" => call_pc'[u] = call_pc[u]
    BY <1>1, <1>7, WakesKeepRetries, Zenon
  <2>2. /\ Waiting' /\ wq' \in [Queues -> Seq(Tasks)]
        /\ sync_state' \in [Tasks -> {"RUNNING", "BLOCKED"}]
        /\ \A q \in Queues : Len(wq'[q]) <= WAIT_QUEUE_CAPACITY
        /\ \A q \in Queues : wq'[q] # <<>> => wq[q] # <<>>
    BY <1>7, <2>1, Wakes, Zenon
  <2>3. h \notin Takers
    BY <1>7, RetryingIs, Zenon
  <2>4. Cardinality(Takers) \in Nat /\ Cardinality(Takers') \in Nat
          /\ Cardinality(Takers) + 1 <= Cardinality(Takers')
    BY <1>3, <2>1, <2>3, TaskCount
  <2>5. wq'["s"] # <<>> => count' <= Cardinality(Takers')
    BY <1>1, <1>2, <1>3, <2>2, <2>4, More
  <2>6. NoLostWakeup'
    BY <1>1, <1>2, <1>3, <2>1, <2>2, <2>5, Zenon DEF NoLostWakeup, Lockers, Takers
  <2>. QED  BY <1>1, <1>4, <1>5, <2>2, <2>6, More, Together, SMTT(30)
<1>. QED  BY <1>1, <1>2, <1>6, <1>7, WakesOne, Zenon

\* condvar_signal, condvar_broadcast and wait_abort.
LEMMA StepSignals ==
  ASSUME SyncInv, ~LateAbort, NEW t \in Tasks, CondvarSignal(t) \/ CondvarBroadcast(t) \/ Abort(t)
  PROVE  SyncInv'
<1>0. "c" \in Queues /\ call_pc = [call_pc EXCEPT ![t] = call_pc[t]]
  BY More, Zenon DEF Queues
<1>1. CASE CondvarSignal(t)
  <2>1. /\ call_pc[t] = "user" /\ WaitWakeOne("c")
        /\ UNCHANGED <<locked, mutex_owner, count, lock, call_pc, victim, inside>>
    BY <1>1, Zenon DEF CondvarSignal
  <2>2. CASE UNCHANGED <<wq, sync_state>>
    BY <2>1, <2>2, More, StepSpins, Zenon
  <2>3. ASSUME NEW h \in Tasks, Removed({h}), sync_state' = UnblockTasks({h}) PROVE SyncInv'
    BY <1>0, <2>1, <2>3, More, StepWakes, Zenon
  <2>. QED  BY <1>0, <2>1, <2>2, <2>3, WakesOne, Zenon
<1>2. CASE CondvarBroadcast(t)
  <2>1. /\ call_pc[t] = "user" /\ WaitWakeAll("c")
        /\ UNCHANGED <<locked, mutex_owner, count, lock, call_pc, victim, inside>>
    BY <1>2, Zenon DEF CondvarBroadcast
  <2>2. Removed(Range(wq["c"])) /\ sync_state' = UnblockTasks(Range(wq["c"]))
    BY <1>0, <2>1, WakesAll, Zenon
  <2>. QED  BY <1>0, <2>1, <2>2, More, StepWakes, Zenon
<1>3. CASE Abort(t)
  <2>. DEFINE u == victim[t].task
              q == victim[t].queue
  <2>1. /\ call_pc[t] = "abort" /\ call_pc' = [call_pc EXCEPT ![t] = "user"]
        /\ call_pc[u] = Park[q] \/ sync_state[u] = "RUNNING"
        /\ WaitAbort(q, u)
        /\ victim' = [victim EXCEPT ![t] = NoWait]
        /\ UNCHANGED <<locked, mutex_owner, count, lock, inside>>
    BY <1>3, Zenon DEF Abort, Go
  <2>2. q \in Queues
    BY More, Zenon
  <2>. HIDE DEF u, q
  <2>3. Removed({u}) /\ sync_state' = UnblockTasks({u})
    BY <2>1, <2>2, WakesAborted, Zenon
  <2>4. NoWait \in [task : Tasks \cup {NoOne}, queue : Queues]
    BY Zenon DEF NoWait, Queues
  <2>5. victim' \in [Tasks -> [task : Tasks \cup {NoOne}, queue : Queues]]
    BY <2>1, <2>4, More, Zenon
  <2>. QED  BY <2>1, <2>3, <2>5, StepWakes, Zenon
<1>. QED  BY <1>1, <1>2, <1>3, Zenon

\* The steps inside mutex_lock, semaphore_wait and condvar_wait.
LEMMA StepInside ==
  ASSUME SyncInv, NEW t \in Tasks, Step(t)
  PROVE  SyncInv'
<1>0. /\ \A q \in Queues, x \in Tasks \cup {NoOne} : [lock EXCEPT ![q] = x] \in [Queues -> Tasks \cup {NoOne}]
      /\ "m" \in Queues /\ "s" \in Queues /\ "c" \in Queues
  BY More, Zenon DEF Queues
<1>1. CASE MutexLockTest(t)
  <2>1. CASE locked /\ Full("m")
    BY <1>0, <1>1, <2>1, StepSpins, SMTT(30) DEF MutexLockTest, WaitBlockLocked
  <2>2. CASE locked /\ ~Full("m")
    BY <1>0, <1>1, <2>2, StepBlocks, Zenon DEF MutexLockTest, WaitBlockLocked
  <2>3. CASE ~locked
    BY <1>0, <1>1, <2>3, StepAcquires DEF MutexLockTest, Go
  <2>. QED  BY <2>1, <2>2, <2>3, Zenon
<1>2. CASE SemaphoreWaitTest(t)
  <2>1. CASE count <= 0 /\ Full("s")
    BY <1>0, <1>2, <2>1, StepSpins, SMTT(30) DEF SemaphoreWaitTest, WaitBlockLocked
  <2>2. CASE count <= 0 /\ ~Full("s")
    <3>1. count = 0
      BY <2>2, More
    <3>. QED  BY <1>0, <1>2, <2>2, <3>1, StepBlocks, Zenon DEF SemaphoreWaitTest, WaitBlockLocked
  <2>3. CASE ~ (count <= 0)
    <3>1. count > 0
      BY <2>3, More
    <3>. QED  BY <1>0, <1>2, <2>3, <3>1, StepTakes DEF SemaphoreWaitTest, Go
  <2>. QED  BY <2>1, <2>2, <2>3, Zenon
<1>3. CASE CondvarUnlockMutex(t)
  <2>1. t \in inside
    BY <1>3, More, Zenon DEF CondvarUnlockMutex, Go, HoldsOnWait
  <2>. QED  BY <1>3, <2>1, StepReleases, Zenon DEF CondvarUnlockMutex, Go
<1>4. CASE CondvarBlock(t)
  <2>1. CASE Full("c")
    <3>1. sync_state[t] = "RUNNING" /\ call_pc[t] = "cv_block"
      BY <1>4, AwakeAtLabel, Zenon DEF CondvarBlock
    <3>. QED  BY <1>0, <1>4, <2>1, <3>1, More, StepMoves, SMTT(30) DEF CondvarBlock, Go
  <2>2. CASE ~Full("c")
    BY <1>0, <1>4, <2>2, StepBlocks, Zenon DEF CondvarBlock, WaitBlockLocked
  <2>. QED  BY <2>1, <2>2, SMTT(30)
<1>5. ASSUME NEW q \in Queues, NEW l \in {"lock", "sem"}, Resume(t, q, l), q = "s" <=> l = "sem"
      PROVE  SyncInv'
  <2>1. /\ call_pc[t] = Park[q] /\ call_pc' = [call_pc EXCEPT ![t] = l] /\ sync_state[t] = "RUNNING"
        /\ UNCHANGED <<wq, sync_state, locked, mutex_owner, count, lock, victim, inside>>
    BY <1>5, Zenon DEF Resume, Go
  <2>2. /\ call_pc[t] \in {"lock", "park_m"} => l = "lock"
        /\ call_pc[t] \in {"sem", "park_s"} => l = "sem"
    BY <1>5, <2>1, Labels, Zenon DEF Queues
  <2>3. l \in {"user", "lock", "sem", "cv_unlock", "cv_block", "abort"} /\ l # "cv_unlock"
    BY <1>5, Zenon
  <2>. QED  BY <2>1, <2>2, <2>3, More, StepMoves, Zenon
<1>6. CASE Resume(t, "m", "lock")
  BY <1>0, <1>5, <1>6, Zenon
<1>7. CASE Resume(t, "s", "sem")
  BY <1>0, <1>5, <1>7, Zenon
<1>8. CASE Resume(t, "c", "lock")
  BY <1>0, <1>5, <1>8, Zenon
<1>. QED  BY <1>1, <1>2, <1>3, <1>4, <1>6, <1>7, <1>8, Zenon DEF Step

\* The calls, and the holder of the mutex letting go of it.
LEMMA StepCalls ==
  ASSUME SyncInv, ~LateAbort, NEW t \in Tasks, Call(t) \/ LetGo(t)
  PROVE  SyncInv'
<1>0. /\ \A q \in Queues, x \in Tasks \cup {NoOne} : [lock EXCEPT ![q] = x] \in [Queues -> Tasks \cup {NoOne}]
      /\ "c" \in Queues
      /\ call_pc[t] = "user" => sync_state[t] = "RUNNING" /\ call_pc = [call_pc EXCEPT ![t] = "user"]
  BY More, AwakeAtLabel, Zenon DEF Queues
<1>1. CASE MutexLock(t) \/ SemaphoreWait(t)
  BY <1>0, <1>1, More, StepMoves, Zenon DEF MutexLock, SemaphoreWait, Go
<1>2. CASE MutexTrylock(t)
  BY <1>0, <1>2, More, StepAcquires, Zenon DEF MutexTrylock
<1>3. CASE SemaphoreTrywait(t)
  BY <1>0, <1>3, More, StepTakes, Zenon DEF SemaphoreTrywait
<1>4. CASE SemaphorePost(t)
  BY <1>4, StepPosts, Zenon
<1>5. CASE CondvarSignal(t) \/ CondvarBroadcast(t) \/ Abort(t)
  BY <1>5, StepSignals, Zenon
<1>6. ASSUME NEW u \in Tasks, NEW q \in Queues, AbortDecide(t, u, q) PROVE SyncInv'
  <2>1. [task |-> u, queue |-> q] \in [task : Tasks \cup {NoOne}, queue : Queues]
    BY Zenon
  <2>2. victim' \in [Tasks -> [task : Tasks \cup {NoOne}, queue : Queues]]
    BY <1>6, <2>1, More, Zenon DEF AbortDecide
  <2>. QED  BY <1>0, <1>6, <2>2, More, StepMoves, Zenon DEF AbortDecide, Go
<1>7. CASE MutexUnlock(t)
  BY <1>0, <1>7, StepReleases, Zenon DEF MutexUnlock
<1>8. CASE CondvarWait(t)
  BY <1>0, <1>8, More, StepMoves, Zenon DEF CondvarWait, Go
<1>. QED  BY <1>1, <1>2, <1>3, <1>4, <1>5, <1>6, <1>7, <1>8, Zenon DEF Call, LetGo

\* The initial state, and a step of any task or of none.
LEMMA SyncInitInv == SyncInit => SyncInv
<1>. SUFFICES ASSUME SyncInit PROVE SyncInv
  BY Zenon
<1>1. \A q \in Queues : wq[q] = <<>> /\ Len(wq[q]) = 0
  BY Zenon DEF SyncInit
<1>2. NoWait \in [task : Tasks \cup {NoOne}, queue : Queues]
  BY Zenon DEF NoWait, Queues
<1>3. SyncTypeOK
  <2>1. /\ wq \in [Queues -> Seq(Tasks)]
        /\ sync_state \in [Tasks -> {"RUNNING", "BLOCKED"}]
        /\ lock \in [Queues -> Tasks \cup {NoOne}]
    BY DEF SyncInit
  <2>2. \A q \in Queues : Len(wq[q]) <= WAIT_QUEUE_CAPACITY
    BY <1>1, WaitSyncAssumption
  <2>3. locked \in BOOLEAN /\ mutex_owner \in Tasks \cup {NoOne} /\ inside \subseteq Tasks
          /\ count \in 0 .. MaxCount
    BY WaitSyncAssumption, Zenon DEF SyncInit
  <2>4. call_pc \in [Tasks -> {"user", "lock", "sem", "cv_unlock", "cv_block", "abort"}
                                 \cup {Park[q] : q \in Queues}]
    BY Zenon DEF SyncInit
  <2>5. victim \in [Tasks -> [task : Tasks \cup {NoOne}, queue : Queues]]
    BY <1>2, Zenon DEF SyncInit
  <2>. QED  BY <2>1, <2>2, <2>3, <2>4, <2>5, Zenon DEF SyncTypeOK
<1>4. Waiting
  BY <1>1 DEF SyncInit, Waiting, NoRepeats
<1>5. NoLostWakeup
  BY <1>1, Zenon DEF NoLostWakeup, Queues
<1>. QED  BY <1>3, <1>4, <1>5, Zenon DEF SyncInit, SyncInv, MutualExclusion, HoldsOnWait

LEMMA SyncNextInv == SyncInv /\ ~LateAbort /\ [SyncNext(Tasks)]_syncVars => SyncInv'
<1>. SUFFICES ASSUME SyncInv, ~LateAbort, [SyncNext(Tasks)]_syncVars PROVE SyncInv'
  BY Zenon
<1>1. ASSUME NEW t \in Tasks, Step(t) \/ Call(t) \/ LetGo(t) PROVE SyncInv'
  BY <1>1, StepInside, StepCalls, Zenon
<1>2. CASE UNCHANGED syncVars
  BY <1>2, More, StepSpins, SMTT(30) DEF syncVars
<1>. QED  BY <1>1, <1>2, Zenon DEF SyncNext

\* The invariant says what OneWait says: a blocked task has exactly one entry.
LEMMA OneEntry == SyncInv => OneWait
<1>. SUFFICES ASSUME SyncInv, NEW t \in Tasks
              PROVE  IF sync_state[t] = "BLOCKED"
                     THEN \E q \in Queues, i \in 1 .. WAIT_QUEUE_CAPACITY :
                            Entries(t) = {<<q, i>>} /\ call_pc[t] = Park[q]
                     ELSE Entries(t) = {}
  BY Zenon DEF OneWait
<1>1. \A e \in Entries(t) : e[1] \in Queues /\ e[2] \in 1 .. Len(wq[e[1]]) /\ wq[e[1]][e[2]] = t
                              /\ e = <<e[1], e[2]>>
  BY WaitSyncAssumption, Parts DEF Entries
<1>2. CASE sync_state[t] = "BLOCKED"
  <2>1. PICK q \in Queues : \E i \in 1 .. Len(wq[q]) : wq[q][i] = t
    BY <1>2, Parts, Zenon
  <2>2. PICK i \in 1 .. Len(wq[q]) : wq[q][i] = t
    BY <2>1, Zenon
  <2>3. i \in 1 .. WAIT_QUEUE_CAPACITY /\ i <= Len(wq[q])
    BY Parts, WaitSyncAssumption
  <2>4. <<q, i>> \in Entries(t)
    BY <2>2, <2>3, Zenon DEF Entries
  <2>5. \A e \in Entries(t) : e = <<q, i>>
    <3>. SUFFICES ASSUME NEW e \in Entries(t) PROVE e[1] = q /\ e[2] = i
      BY <1>1, Zenon
    <3>1. e[1] = q
      BY <1>1, <2>2, OneQueue
    <3>. QED  BY <1>1, <2>2, <3>1, Parts DEF NoRepeats
  <2>6. call_pc[t] = Park[q]
    BY <2>2, Parts, Zenon
  <2>. QED  BY <1>2, <2>3, <2>4, <2>5, <2>6, Zenon
<1>3. CASE sync_state[t] # "BLOCKED"
  BY <1>1, <1>3, Parts
<1>. QED  BY <1>2, <1>3, Zenon

\* kernel/wait.c and kernel/sync.c, for any number of tasks, any capacity and any order
\* of calls: at most one task is inside the mutex, a task waits in one queue and only
\* while it is blocked, and no wakeup is lost, as long as no wait_abort reaches its
\* victim after the victim went on to another wait.
THEOREM SyncCorrect == ~LateAbort => (SyncSpec => []SyncSound)
<1>. SUFFICES ASSUME ~LateAbort PROVE SyncSpec => []SyncSound
  BY Zenon
<1>1. SyncInv /\ [SyncNext(Tasks)]_syncVars => SyncInv'
  BY SyncNextInv, Zenon
<1>2. SyncInv => SyncSound
  BY OneEntry, Zenon DEF SyncInv, SyncSound
<1>. QED  BY <1>1, <1>2, SyncInitInv, PTL DEF SyncSpec

=============================================================================
