------------------------------ MODULE LocksProofs ------------------------------
(***************************************************************************)
(* Proofs about the locks that are built on the mutexes: the thread pool   *)
(* (ThreadPool) and the monitor of an object (Monitor), for any number of  *)
(* threads, tasks, monitors and calls.                                     *)
(***************************************************************************)
EXTENDS ThreadPool, Monitor, FiniteSetTheorems, TLAPS

----------------------------------------------------------------------------
(* The thread pool. *)

TpPcs == {"get", "asleep", "awake", "run", "exit"}

TpTypeInv ==
    /\ tpQueue \in Seq(TpTasks)
    /\ tpStarted \in BOOLEAN
    /\ tpShutDown \in BOOLEAN
    /\ tpWaiting \in Int
    /\ tpMax \in Nat
    /\ tpAsleep \in SUBSET TpWorkers
    /\ tpPc \in [TpWorkers -> TpPcs]
    /\ tpTask \in [TpWorkers -> TpTasks \union {TpNoTask}]
    /\ tpOwner \in {"idle", "returned", "work", "wait", "asleep", "join", "gone"}
    /\ tpOwnTask \in TpTasks \union {TpNoTask}
    /\ tpRuns \in [TpTasks -> Nat]

\* A worker has a task exactly while it runs, the owner has one only in Wait, and the pool is
\* shut down only by the destructor.
TpPlaces ==
    /\ \A w \in TpWorkers : tpPc[w] = "asleep" <=> w \in tpAsleep
    /\ \A w \in TpWorkers : tpPc[w] = "run" <=> tpTask[w] /= TpNoTask
    /\ tpOwnTask /= TpNoTask => tpOwner = "work"
    /\ tpShutDown => tpOwner \in {"join", "gone"}

\* waiting_count_ counts the workers inside Wait of task_queue_condition_.
TpWaiters == {w \in TpWorkers : tpPc[w] \in {"asleep", "awake"}}
TpCounted == tpWaiting = Cardinality(TpWaiters)

\* A task is in one place at a time, and one that is still somewhere has not been run.
TpOnePlace ==
    /\ \A i, j \in DOMAIN tpQueue : tpQueue[i] = tpQueue[j] => i = j
    /\ \A i \in DOMAIN tpQueue :
          tpRuns[tpQueue[i]] = 0 /\ tpQueue[i] /= tpOwnTask
          /\ \A w \in TpWorkers : tpTask[w] /= tpQueue[i]
    /\ \A w \in TpWorkers :
          tpTask[w] /= TpNoTask =>
              /\ tpRuns[tpTask[w]] = 0 /\ tpTask[w] /= tpOwnTask
              /\ \A v \in TpWorkers : tpTask[v] = tpTask[w] => v = w
    /\ tpOwnTask /= TpNoTask => tpRuns[tpOwnTask] = 0
    /\ \A x \in TpTasks : tpRuns[x] =< 1

\* After Wait every worker waits, so that nobody can add a task but the owner.
TpQuiet ==
    tpOwner = "returned" =>
        tpQueue = <<>> /\ \A w \in TpWorkers : tpPc[w] \in {"asleep", "awake"}

TpInv == TpTypeInv /\ TpPlaces /\ TpCounted /\ TpOnePlace /\ TpQuiet

\* Sets of workers are finite, and one with as many members as threads_ has all of them.
LEMMA TpFinite ==
    ASSUME NEW S \in SUBSET TpWorkers
    PROVE  IsFiniteSet(S) /\ Cardinality(S) \in Nat
           /\ (Cardinality(S) = TpCount => S = TpWorkers)
BY ThreadPoolAssumption, FS_Subset, FS_CardinalityType DEF TpCount

\* A new pool: no task anywhere, no worker in Wait.
LEMMA TpInvInit == TpInit => TpInv
<1> SUFFICES ASSUME TpInit PROVE TpInv
  OBVIOUS
<1>1. TpWaiters = {}
  BY DEF TpInit, TpWaiters
<1>2. TpCounted
  BY <1>1, FS_EmptySet DEF TpInit, TpCounted
<1>3. TpCount \in Nat
  BY ThreadPoolAssumption, FS_CardinalityType DEF TpCount
<1>4. TpTypeInv
  <2>1. tpQueue \in Seq(TpTasks) /\ tpRuns \in [TpTasks -> Nat]
    BY DEF TpInit
  <2>2. tpPc \in [TpWorkers -> TpPcs] /\ tpTask \in [TpWorkers -> TpTasks \union {TpNoTask}]
    BY DEF TpInit, TpPcs
  <2>3. tpMax \in Nat /\ tpWaiting \in Int
    BY <1>3 DEF TpInit
  <2>4. /\ tpStarted \in BOOLEAN /\ tpShutDown \in BOOLEAN
        /\ tpAsleep \in SUBSET TpWorkers /\ tpOwnTask \in TpTasks \union {TpNoTask}
        /\ tpOwner = "idle"
    BY DEF TpInit
  <2> QED BY <2>1, <2>2, <2>3, <2>4 DEF TpTypeInv
<1>5. TpPlaces
  BY ThreadPoolAssumption DEF TpInit, TpPlaces
<1>6. TpOnePlace /\ TpQuiet
  BY ThreadPoolAssumption DEF TpInit, TpOnePlace, TpQuiet
<1> QED BY <1>2, <1>4, <1>5, <1>6 DEF TpInv

\* Counting a worker into Wait or out of it.
LEMMA TpCounting ==
    ASSUME NEW S \in SUBSET TpWorkers, NEW w \in TpWorkers
    PROVE  /\ w \notin S => Cardinality(S \union {w}) = Cardinality(S) + 1
           /\ w \in S => Cardinality(S \ {w}) = Cardinality(S) - 1
BY TpFinite, FS_AddElement, FS_RemoveElement

\* AddTask puts a task that is nowhere at the end of the queue, and may wake a worker.
LEMMA TpAddTask ==
    ASSUME TpInv, NEW x \in TpTasks, AddTask(x),
           \/ tpOwner \in {"idle", "returned"} /\ tpOwner' = "idle"
           \/ tpOwner' = tpOwner /\ \E w \in TpWorkers : tpPc[w] = "run"
    PROVE  TpInv'
<1> USE DEF TpInv
<1>1. TpTypeInv'
  <2>1. tpQueue' \in Seq(TpTasks) /\ tpOwner' \in {tpOwner, "idle"}
    BY DEF AddTask, TpTypeInv
  <2>2. tpAsleep' \in SUBSET TpWorkers /\ tpPc' \in [TpWorkers -> TpPcs]
    BY DEF AddTask, TpTypeInv, TpPcs
  <2> QED BY <2>1, <2>2 DEF AddTask, TpTypeInv
<1>2. TpPlaces'
  BY DEF AddTask, TpTypeInv, TpPlaces
<1>3. TpWaiters' = TpWaiters
  BY DEF AddTask, TpTypeInv, TpPlaces, TpWaiters
<1>4. TpCounted'
  BY <1>3 DEF AddTask, TpCounted
<1>5. /\ x /= TpNoTask /\ tpRuns[x] = 0 /\ x /= tpOwnTask
      /\ \A i \in DOMAIN tpQueue : tpQueue[i] /= x
      /\ \A w \in TpWorkers : tpTask[w] /= x
  BY ThreadPoolAssumption DEF AddTask, TpFresh, TpRunning, TpPlaces, ToSet
<1>6. TpOnePlace'
  BY <1>5 DEF AddTask, TpTypeInv, TpOnePlace
<1>7. TpQuiet'
  BY DEF AddTask, TpTypeInv, TpQuiet
<1> QED BY <1>1, <1>2, <1>4, <1>6, <1>7

\* Taking the first task off the queue.
LEMMA TpTail ==
    ASSUME NEW q \in Seq(TpTasks), q /= <<>>
    PROVE  /\ Tail(q) \in Seq(TpTasks) /\ Head(q) \in TpTasks
           /\ Head(q) = q[1] /\ 1 \in DOMAIN q
           /\ \A i \in DOMAIN Tail(q) : i + 1 \in DOMAIN q /\ i + 1 /= 1 /\ Tail(q)[i] = q[i + 1]
           /\ DOMAIN Tail(q) \subseteq Int
OBVIOUS

\* TryGetTask moves the first task of the queue to the worker, or to the owner in Wait.
LEMMA TpGetTask ==
    ASSUME TpInv, NEW w \in TpWorkers, NEW waiting \in Int,
           tpPc[w] \in {"get", "awake"},
           waiting = IF tpPc[w] = "get" THEN tpWaiting ELSE tpWaiting - 1,
           GetTaskLocked(w, waiting),
           UNCHANGED <<tpStarted, tpShutDown, tpMax, tpOwnTask, tpRuns, tpLeft>>
    PROVE  TpInv'
<1> USE DEF TpInv
<1>1. waiting = Cardinality(TpWaiters \ {w})
  BY TpCounting DEF TpCounted, TpWaiters
<1>2. TpWaiters \subseteq TpWorkers
  BY DEF TpWaiters
<1>3. CASE tpShutDown
  <2>1. TpTypeInv' /\ TpPlaces' /\ TpQuiet' /\ TpOnePlace'
    BY <1>3 DEF GetTaskLocked, TpTypeInv, TpPlaces, TpQuiet, TpOnePlace, TpPcs
  <2>2. TpWaiters' = TpWaiters \ {w}
    BY <1>3 DEF GetTaskLocked, TpTypeInv, TpWaiters
  <2> QED BY <1>1, <1>3, <2>1, <2>2 DEF GetTaskLocked, TpCounted
<1>4. CASE ~tpShutDown /\ TpActive(waiting) =< tpMax /\ tpStarted /\ tpQueue /= <<>>
  <2>1. /\ tpTask' = [tpTask EXCEPT ![w] = Head(tpQueue)]
        /\ tpQueue' = Tail(tpQueue)
        /\ tpPc' = [tpPc EXCEPT ![w] = "run"]
        /\ tpWaiting' = waiting
        /\ UNCHANGED <<tpAsleep, tpOwner>>
    BY <1>4 DEF GetTaskLocked
  <2>2. TpTypeInv'
    BY <1>4, <2>1, TpTail DEF TpTypeInv, TpPcs
  <2>3. TpPlaces'
    BY <1>4, <2>1, TpTail, ThreadPoolAssumption DEF TpTypeInv, TpPlaces
  <2>4. TpWaiters' = TpWaiters \ {w}
    BY <2>1 DEF TpTypeInv, TpWaiters
  <2>5. TpCounted'
    BY <1>1, <2>1, <2>4 DEF TpCounted
  <2>6. TpQuiet'
    BY <1>4, <2>1 DEF TpTypeInv, TpQuiet
  <2>7. TpOnePlace'
    BY <1>4, <2>1, TpTail DEF TpTypeInv, TpPlaces, TpOnePlace
  <2> QED BY <2>2, <2>3, <2>5, <2>6, <2>7
<1>5. CASE ~tpShutDown /\ ~(TpActive(waiting) =< tpMax /\ tpStarted /\ tpQueue /= <<>>)
  <2>1. /\ tpWaiting' = waiting + 1
        /\ tpOwner' \in {tpOwner, "wait"} /\ (tpOwner' /= tpOwner => tpOwner = "asleep")
        /\ tpAsleep' = tpAsleep \union {w}
        /\ tpPc' = [tpPc EXCEPT ![w] = "asleep"]
        /\ UNCHANGED <<tpQueue, tpTask>>
    BY <1>5 DEF GetTaskLocked, WakeOwner
  <2>2. TpTypeInv' /\ TpPlaces' /\ TpQuiet'
    BY <1>5, <2>1 DEF TpTypeInv, TpPlaces, TpQuiet, TpPcs
  <2>3. TpWaiters' = (TpWaiters \ {w}) \union {w}
    BY <2>1 DEF TpTypeInv, TpWaiters
  <2>4. TpCounted'
    BY <1>1, <1>2, <2>1, <2>3, TpCounting, TpFinite DEF TpCounted
  <2>5. TpOnePlace'
    BY <2>1 DEF TpOnePlace
  <2> QED BY <2>2, <2>4, <2>5
<1> QED BY <1>3, <1>4, <1>5

\* Broadcast on task_queue_condition_ moves the workers asleep there, and counts none of them.
LEMMA TpWakeWorkers ==
    ASSUME TpInv, WakeWorkers
    PROVE  /\ tpAsleep' \in SUBSET TpWorkers /\ tpPc' \in [TpWorkers -> TpPcs]
           /\ TpWaiters' = TpWaiters
           /\ \A w \in TpWorkers : tpPc'[w] = "asleep" <=> w \in tpAsleep'
           /\ \A w \in TpWorkers : tpPc'[w] = "run" <=> tpPc[w] = "run"
BY DEF TpInv, TpTypeInv, TpPlaces, WakeWorkers, TpWaiters, TpPcs

\* Every step of the owner, of the workers and of the tasks keeps the invariant.
LEMMA TpInvStep == TpInv /\ [TpNext]_tpVars => TpInv'
<1> SUFFICES ASSUME TpInv, [TpNext]_tpVars PROVE TpInv'
  OBVIOUS
<1> USE DEF TpInv, OwnerCalls
<1>1. ASSUME UNCHANGED tpVars PROVE TpInv'
  BY <1>1 DEF tpVars, TpTypeInv, TpPlaces, TpCounted, TpWaiters, TpOnePlace, TpQuiet
<1>2. ASSUME OwnerAddsTask PROVE TpInv'
  BY <1>2, TpAddTask DEF OwnerAddsTask
<1>3. ASSUME StartWorkers PROVE TpInv'
  BY <1>3, TpWakeWorkers DEF StartWorkers, TpTypeInv, TpPlaces, TpCounted, TpOnePlace, TpQuiet
<1>4. ASSUME StopWorkers PROVE TpInv'
  BY <1>4 DEF StopWorkers, TpTypeInv, TpPlaces, TpCounted, TpWaiters, TpOnePlace, TpQuiet
<1>5. ASSUME SetMaxActiveWorkers PROVE TpInv'
  BY <1>5, ThreadPoolAssumption, FS_CardinalityType
  DEF SetMaxActiveWorkers, TpCount, TpTypeInv, TpPlaces, TpCounted, TpWaiters, TpOnePlace, TpQuiet
<1>6. ASSUME TpWait PROVE TpInv'
  BY <1>6 DEF TpWait, TpTypeInv, TpPlaces, TpCounted, TpWaiters, TpOnePlace, TpQuiet
<1>7. ASSUME Destroy PROVE TpInv'
  BY <1>7, TpWakeWorkers DEF Destroy, TpTypeInv, TpPlaces, TpCounted, TpOnePlace, TpQuiet
<1>8. ASSUME OwnerTakesTask PROVE TpInv'
  <2>1. CASE tpStarted /\ tpQueue /= <<>>
    <3>1. /\ tpOwnTask' = Head(tpQueue) /\ tpQueue' = Tail(tpQueue)
          /\ tpOwner = "work" /\ tpOwnTask = TpNoTask
          /\ UNCHANGED <<tpOwner, tpStarted, tpShutDown, tpWaiting, tpMax, tpAsleep, tpPc,
                         tpTask, tpRuns>>
      BY <1>8, <2>1 DEF OwnerTakesTask
    <3>2. TpTypeInv' /\ TpPlaces' /\ TpQuiet'
      BY <2>1, <3>1, TpTail DEF TpTypeInv, TpPlaces, TpQuiet
    <3>3. TpCounted'
      BY <3>1 DEF TpCounted, TpWaiters
    <3>4. TpOnePlace'
      BY <2>1, <3>1, TpTail DEF TpTypeInv, TpPlaces, TpOnePlace
    <3> QED BY <3>2, <3>3, <3>4
  <2>2. CASE ~(tpStarted /\ tpQueue /= <<>>)
    BY <1>8, <2>2 DEF OwnerTakesTask, TpTypeInv, TpPlaces, TpCounted, TpWaiters, TpOnePlace, TpQuiet
  <2> QED BY <2>1, <2>2
<1>9. ASSUME OwnerRunsTask PROVE TpInv'
  <2>1. TpTypeInv' /\ TpPlaces' /\ TpQuiet' /\ TpCounted'
    BY <1>9 DEF OwnerRunsTask, TpTypeInv, TpPlaces, TpCounted, TpWaiters, TpQuiet
  <2>2. TpOnePlace'
    BY <1>9, ThreadPoolAssumption DEF OwnerRunsTask, TpTypeInv, TpPlaces, TpOnePlace
  <2> QED BY <2>1, <2>2
<1>10. ASSUME WaitTest PROVE TpInv'
  <2>1. TpTypeInv' /\ TpPlaces' /\ TpOnePlace' /\ TpCounted'
    BY <1>10 DEF WaitTest, TpTypeInv, TpPlaces, TpCounted, TpWaiters, TpOnePlace
  <2>2. ASSUME tpOwner' = "returned" PROVE tpQueue = <<>> /\ TpWaiters = TpWorkers
    BY <1>10, <2>2, TpFinite DEF WaitTest, TpPlaces, TpCounted, TpWaiters
  <2>3. TpQuiet'
    BY <1>10, <2>2 DEF WaitTest, TpQuiet, TpWaiters
  <2> QED BY <2>1, <2>3
<1>11. ASSUME TpJoined PROVE TpInv'
  BY <1>11 DEF TpJoined, TpTypeInv, TpPlaces, TpCounted, TpWaiters, TpOnePlace, TpQuiet
<1>12. ASSUME NEW w \in TpWorkers, GetTask(w) PROVE TpInv'
  BY <1>12, TpGetTask DEF GetTask, TpTypeInv
<1>13. ASSUME NEW w \in TpWorkers, RunTask(w) PROVE TpInv'
  <2>1. TpTypeInv'
    BY <1>13 DEF RunTask, TpTypeInv, TpPlaces, TpPcs
  <2>2. TpPlaces' /\ TpQuiet'
    BY <1>13 DEF RunTask, TpTypeInv, TpPlaces, TpQuiet
  <2>3. TpCounted'
    <3>1. TpWaiters' = TpWaiters
      BY <1>13 DEF RunTask, TpTypeInv, TpWaiters
    <3> QED BY <1>13, <3>1 DEF RunTask, TpCounted
  <2>4. TpOnePlace'
    BY <1>13, ThreadPoolAssumption DEF RunTask, TpTypeInv, TpPlaces, TpOnePlace
  <2> QED BY <2>1, <2>2, <2>3, <2>4
<1>14. ASSUME NEW w \in TpWorkers, TaskAddsTask(w) PROVE TpInv'
  BY <1>14, TpAddTask DEF TaskAddsTask
<1>15. ASSUME NEW w \in TpWorkers, TpSpurious(w) PROVE TpInv'
  <2>1. TpTypeInv' /\ TpPlaces' /\ TpQuiet' /\ TpOnePlace'
    BY <1>15 DEF TpSpurious, TpTypeInv, TpPlaces, TpQuiet, TpOnePlace, TpPcs
  <2>2. TpWaiters' = TpWaiters
    BY <1>15 DEF TpSpurious, TpTypeInv, TpWaiters
  <2> QED BY <1>15, <2>1, <2>2 DEF TpSpurious, TpCounted
<1> QED
  BY <1>1, <1>2, <1>3, <1>4, <1>5, <1>6, <1>7, <1>8, <1>9, <1>10, <1>11, <1>12, <1>13, <1>14,
     <1>15 DEF TpNext, TpOwnerStep, TpWorkerStep

\* For any number of workers and tasks: when Wait has returned, every task ever added has been
\* run, once, and no worker is about to add another.
THEOREM TpWaitMeansDoneHolds == TpSpec => []TpWaitMeansDone
<1>1. TpInv => TpWaitMeansDone
  BY DEF TpInv, TpPlaces, TpOnePlace, TpQuiet, TpWaitMeansDone, TpRunning
<1> QED BY <1>1, TpInvInit, TpInvStep, PTL DEF TpSpec

----------------------------------------------------------------------------
(* The monitor. *)

\* Where a thread can be in the monitor code.
MonPcs == {"run", "enter", "enterStore", "inflateOwn", "inflateHash", "suspend", "inflating",
           "lock", "blocked", "contending", "back", "exitStore", "exitFat", "wait", "waitRead",
           "waiting", "signalled", "woken", "rewait", "throw", "hash"}

\* The words that a lock word can hold.
MonIsWord(w) ==
    \/ w = Unlocked
    \/ \E t \in MonThreads, n \in Nat : w = Thin(t, n)
    \/ \E m \in MonIds : w = Fat(m)
    \/ \E h \in MonHashes : w = HashWord(h)

MonFields == {"owner", "count", "hash", "waiters", "contenders", "waitSet"}

MonTypeInv ==
    /\ MonIsWord(monWord)
    /\ DOMAIN monitors = MonIds
    /\ \A m \in MonIds :
          /\ DOMAIN monitors[m] = MonFields
          /\ monitors[m].owner \in MonThreads \union {MonNone}
          /\ monitors[m].count \in Nat
          /\ monitors[m].hash \in MonHashes \union {0}
          /\ monitors[m].contenders \in SUBSET MonThreads
    /\ monFree \in SUBSET MonIds
    /\ monPc \in [MonThreads -> MonPcs]
    /\ monAt = [t \in MonThreads |-> monAt[t]]
    /\ \A t \in MonThreads : MonIsWord(monAt[t])
    /\ monBack \in [MonThreads -> {"run", "enter", "hash", "waitRead", "rewait"}]
    /\ monKeep \in [MonThreads -> Nat]
    /\ monDepth \in [MonThreads -> Nat]
    /\ DOMAIN monSuspenders = MonThreads

\* Where a thread goes on when it has inflated or locked the monitor.
MonReturns ==
    \A t \in MonThreads :
        /\ monPc[t] \in {"enter", "inflateHash"} => monBack[t] = "enter"
        /\ monPc[t] = "hash" => monBack[t] = "hash"
        /\ monPc[t] \in {"suspend", "inflating"} => monBack[t] \in {"enter", "hash"}
        /\ monPc[t] = "inflateOwn" => monBack[t] \in {"enter", "hash", "waitRead"}
        /\ monPc[t] \in {"lock", "blocked", "contending", "back"} =>
               monBack[t] \in {"enter", "rewait"}
        /\ monPc[t] \in {"waiting", "signalled", "woken", "rewait"} => monBack[t] = "rewait"

\* Where a thread has read a lock word that is still there: nobody takes a thin lock from a
\* Runnable owner, and nobody deflates a monitor under a Runnable thread or one that the
\* monitor counts.
MonFatPcs == {"lock", "blocked", "contending", "back", "exitFat", "wait", "waiting",
              "signalled", "woken", "rewait"}

MonReadIsCurrent ==
    \A t \in MonThreads :
        /\ monPc[t] \in MonFatPcs => monWord = monAt[t] /\ monWord.kind = "fat"
        /\ monPc[t] \in {"enterStore", "exitStore"} => monWord = monAt[t]
        /\ monPc[t] \in {"enterStore", "exitStore", "inflateOwn"} =>
               monWord.kind = "thin" /\ monWord.owner = t
        /\ monPc[t] = "waitRead" => monWord.kind = "fat" /\ monitors[monWord.monitor].owner = t
        /\ monPc[t] = "inflateHash" =>
               monAt[t].kind = "hash" /\ (monWord = monAt[t] \/ monWord.kind = "fat")
        /\ monPc[t] \in {"suspend", "inflating"} => monAt[t].kind = "thin"

\* num_waiters_ counts the threads in Monitor::Lock that gave up mutator_lock_, and those in
\* Object.wait.
MonBlocked == {t \in MonThreads : monPc[t] \in {"blocked", "contending", "back"}}
MonWaiters == {t \in MonThreads : MonInWait(t)}

MonCounted ==
    /\ IsFiniteSet(MonBlocked) /\ IsFiniteSet(MonWaiters)
    /\ \A m \in MonIds : monWord = Fat(m) =>
          monitors[m].waiters = Cardinality(MonBlocked) + Cardinality(MonWaiters)
    /\ \A m \in MonIds : \A c \in monitors[m].contenders : monPc[c] = "contending" /\ monWord = Fat(m)

\* The thread that has the lock, and how often: in Object.wait it has given all levels up.
MonHolds(t) == (monDepth[t] > 0 /\ ~MonInWait(t)) \/ monPc[t] = "rewait"

MonOwnership ==
    /\ \A t \in MonThreads :
          /\ MonHolds(t) <=> MonOwner = t
          /\ monDepth[t] > 0 /\ ~MonInWait(t) => MonCount = monDepth[t] - 1
          /\ MonInWait(t) => monDepth[t] > 0 /\ monKeep[t] = monDepth[t] - 1
    /\ \A m \in MonIds : monitors[m].owner = MonNone => monitors[m].count = 0

\* The identity hash code, if the object has one.
MonHashNow ==
    IF monWord.kind = "hash" THEN monWord.hash
    ELSE IF monWord.kind = "fat" THEN monitors[monWord.monitor].hash ELSE 0

MonHashKept == \A h \in monHashed : h = MonHashNow /\ h \in MonHashes

MonInv ==
    /\ ~monAborted
    /\ MonTypeInv
    /\ MonReturns
    /\ MonReadIsCurrent
    /\ MonCounted
    /\ MonOwnership
    /\ MonHashKept

\* An object that nobody has locked or hashed.
LEMMA MonInvInit == MonInit => MonInv
<1> SUFFICES ASSUME MonInit PROVE MonInv
  OBVIOUS
<1>1. MonTypeInv
  BY DEF MonInit, MonTypeInv, MonPcs, MonIsWord, Unlocked, NewMonitor, MonFields
<1>2. MonReturns /\ MonReadIsCurrent /\ MonHashKept /\ ~monAborted
  BY DEF MonInit, MonReturns, MonReadIsCurrent, MonFatPcs, MonHashKept
<1>3. MonBlocked = {} /\ MonWaiters = {}
  BY DEF MonInit, MonBlocked, MonWaiters, MonInWait
<1>4. MonCounted
  BY <1>3, FS_EmptySet DEF MonInit, MonCounted, Unlocked, Fat, NewMonitor
<1>5. MonOwnership
  BY MonitorAssumption DEF MonInit, MonOwnership, MonHolds, MonOwner, MonInWait, Unlocked, NewMonitor
<1> QED BY <1>1, <1>2, <1>4, <1>5 DEF MonInv

\* The facts about the words that every step uses.
MonWordIs(w) ==
    /\ w.kind \in {"unlocked", "thin", "fat", "hash"}
    /\ w.kind = "unlocked" <=> w = Unlocked
    /\ w.kind = "thin" => w.owner \in MonThreads /\ w.count \in Nat /\ w = Thin(w.owner, w.count)
    /\ w.kind = "fat" => w.monitor \in MonIds /\ w = Fat(w.monitor)
    /\ w.kind = "hash" => w.hash \in MonHashes /\ w = HashWord(w.hash)

\* The shape of a lock word, by its kind.
LEMMA MonWordFacts ==
  ASSUME NEW w, MonIsWord(w)
  PROVE  MonWordIs(w)
<1>1. CASE w = Unlocked
  BY <1>1 DEF Unlocked, MonWordIs
<1>2. ASSUME NEW t \in MonThreads, NEW n \in Nat, w = Thin(t, n)
      PROVE  w.kind = "thin" /\ w.owner = t /\ w.count = n
  BY <1>2 DEF Thin
<1>3. ASSUME NEW m \in MonIds, w = Fat(m)
      PROVE  w.kind = "fat" /\ w.monitor = m
  BY <1>3 DEF Fat
<1>4. ASSUME NEW h \in MonHashes, w = HashWord(h)
      PROVE  w.kind = "hash" /\ w.hash = h
  BY <1>4 DEF HashWord
<1>5. w = Unlocked => w.kind = "unlocked"
  BY DEF Unlocked
<1> QED BY <1>1, <1>2, <1>3, <1>4, <1>5 DEF MonIsWord, MonWordIs

\* The words that the code makes.
LEMMA MonWordKinds ==
  /\ Unlocked.kind = "unlocked" /\ MonIsWord(Unlocked)
  /\ \A t \in MonThreads, n \in Nat :
        /\ Thin(t, n).kind = "thin" /\ Thin(t, n).owner = t /\ Thin(t, n).count = n
        /\ MonIsWord(Thin(t, n))
  /\ \A m \in MonIds : Fat(m).kind = "fat" /\ Fat(m).monitor = m /\ MonIsWord(Fat(m))
  /\ \A h \in MonHashes : HashWord(h).kind = "hash" /\ HashWord(h).hash = h /\ MonIsWord(HashWord(h))
  BY DEF MonIsWord, Unlocked, Thin, Fat, HashWord

\* What a step may use of the words it reads.
LEMMA MonWords ==
  ASSUME MonInv
  PROVE  /\ MonIsWord(monWord) /\ MonWordIs(monWord)
         /\ \A t \in MonThreads : MonIsWord(monAt[t]) /\ MonWordIs(monAt[t])
  BY MonWordFacts DEF MonInv, MonTypeInv

\* Counting a thread into a queue or out of it.
LEMMA MonCardinality ==
  ASSUME NEW S, IsFiniteSet(S), NEW x
  PROVE  /\ Cardinality(S) \in Nat
         /\ IsFiniteSet(S \union {x}) /\ IsFiniteSet(S \ {x})
         /\ x \notin S => Cardinality(S \union {x}) = Cardinality(S) + 1
         /\ x \in S => Cardinality(S \ {x}) = Cardinality(S) - 1
  BY FS_CardinalityType, FS_AddElement, FS_RemoveElement

\* Monitor M becomes a monitor with these fields, and the others stay as they are.
MonBecomes(M, owner, count, hash, waiters, contenders) ==
    /\ M \in MonIds
    /\ DOMAIN monitors' = MonIds
    /\ \A m \in MonIds \ {M} : monitors'[m] = monitors[m]
    /\ DOMAIN monitors'[M] = MonFields
    /\ monitors'[M].owner = owner
    /\ monitors'[M].count = count
    /\ monitors'[M].hash = hash
    /\ monitors'[M].waiters = waiters
    /\ monitors'[M].contenders = contenders

\* One turn of the loop in Monitor::Lock.
LEMMA MonTryLockKeeps ==
  ASSUME MonInv, NEW t \in MonThreads, NEW from \in {"lock", "back"}, MonTryLock(t, from, IF from = "lock" THEN 0 ELSE 1)
  PROVE  MonInv'
<1> DEFINE M == monAt[t].monitor
           old == monitors[M]
           gone == IF from = "lock" THEN 0 ELSE 1
           own == old.owner \in {MonNone, t}
           again == monBack[t] = "rewait"
<1>1. monPc[t] = from /\ monPc[t] \in MonFatPcs /\ ~monAborted
  BY DEF MonTryLock, MonFatPcs, MonGo
<1>2. /\ monWord = monAt[t] /\ monWord.kind = "fat" /\ M \in MonIds /\ monWord = Fat(M)
      /\ MonOwner = old.owner /\ MonCount = old.count
  BY <1>1, MonWords DEF MonInv, MonReadIsCurrent, MonWordIs, MonOwner, MonCount
<1>3. /\ DOMAIN monitors = MonIds /\ DOMAIN old = MonFields /\ old.count \in Nat
      /\ old.owner = MonNone => old.count = 0
      /\ monPc \in [MonThreads -> MonPcs] /\ monDepth \in [MonThreads -> Nat]
  BY <1>2 DEF MonInv, MonTypeInv, MonOwnership
<1>4. ~ again => ~ MonInWait(t) /\ monBack[t] = "enter"
  BY <1>1 DEF MonInv, MonReturns, MonInWait
<1>5. again => MonInWait(t) /\ old.owner # t /\ monDepth[t] > 0 /\ monKeep[t] = monDepth[t] - 1
  BY <1>1, <1>2 DEF MonInv, MonOwnership, MonInWait, MonHolds
<1>6. /\ MonBecomes(M, IF own THEN t ELSE old.owner, IF old.owner = t THEN old.count + 1 ELSE old.count,
                    old.hash, IF own THEN old.waiters - gone ELSE old.waiters - gone + 1, old.contenders)
      /\ monPc' = [monPc EXCEPT ![t] = IF own THEN (IF again THEN "rewait" ELSE "run") ELSE "blocked"]
      /\ monDepth' = IF own /\ ~again THEN [monDepth EXCEPT ![t] = @ + 1] ELSE monDepth
      /\ ~monAborted'
  <2>1. CASE own
    <3>1. /\ monitors' = [monitors EXCEPT ![M].owner = t,
                     ![M].count = IF old.owner = t THEN @ + 1 ELSE @,
                     ![M].waiters = @ - gone]
          /\ monPc' = [monPc EXCEPT ![t] = MonLocked(t)]
          /\ monAborted' = (old.owner = MonNone /\ old.count /= 0)
          /\ MonDeeper(t, IF monBack[t] = "rewait" THEN 0 ELSE 1)
      BY <2>1 DEF MonTryLock, MonGo
    <3>2. MonBecomes(M, t, IF old.owner = t THEN old.count + 1 ELSE old.count,
                    old.hash, old.waiters - gone, old.contenders)
      BY <3>1, <1>2, <1>3 DEF MonBecomes, MonFields
    <3>3. ~monAborted'
      BY <3>1, <1>3
    <3>4. monDepth' = IF ~again THEN [monDepth EXCEPT ![t] = @ + 1] ELSE monDepth
      <4>1. CASE again
        <5>1. monDepth' = [monDepth EXCEPT ![t] = @ + 0]
          BY <3>1, <4>1 DEF MonDeeper
        <5>2. monDepth[t] + 0 = monDepth[t]
          BY <1>3
        <5> QED BY <5>1, <5>2, <4>1, <1>3
      <4>2. CASE ~again
        BY <3>1, <4>2 DEF MonDeeper
      <4> QED BY <4>1, <4>2
    <3>5. monPc' = [monPc EXCEPT ![t] = IF again THEN "rewait" ELSE "run"]
      BY <3>1 DEF MonLocked
    <3> QED BY <2>1, <3>2, <3>3, <3>4, <3>5
  <2>2. CASE ~own
    <3>1. /\ monitors' = [monitors EXCEPT ![M].waiters = @ - gone + 1]
          /\ monPc' = [monPc EXCEPT ![t] = "blocked"] /\ UNCHANGED <<monDepth, monAborted>>
      BY <2>2 DEF MonTryLock, MonGo
    <3>2. MonBecomes(M, old.owner, old.count,
                    old.hash, old.waiters - gone + 1, old.contenders)
      BY <3>1, <1>2, <1>3 DEF MonBecomes, MonFields
    <3> QED BY <2>2, <3>1, <3>2, <1>1
  <2> QED BY <2>1, <2>2
<1>7. UNCHANGED <<monWord, monFree, monAt, monBack, monKeep, monSuspenders, monHashed>>
  BY DEF MonTryLock, monWaiting
<1> HIDE DEF own, gone, again
<1>11. MonTypeInv'
  BY <1>2, <1>3, <1>6, <1>7 DEF MonInv, MonTypeInv, MonBecomes, MonPcs, MonIsWord
<1>12. MonReturns'
  BY <1>1, <1>3, <1>6, <1>7 DEF MonInv, MonReturns, again
<1>8. \A u \in MonThreads \ {t} : monPc'[u] = monPc[u] /\ monDepth'[u] = monDepth[u]
  BY <1>3, <1>6
<1>9. monPc'[t] = (IF own THEN (IF again THEN "rewait" ELSE "run") ELSE "blocked")
  BY <1>3, <1>6
<1>10. MonReadIsCurrent'
  <2>1. \A u \in MonThreads \ {t} : monPc[u] = "waitRead" => ~own /\ monitors'[M].owner = u
    BY <1>2, <1>6, MonitorAssumption DEF MonInv, MonReadIsCurrent, MonBecomes, own
  <2> QED BY <2>1, <1>2, <1>7, <1>8, <1>9 DEF MonInv, MonReadIsCurrent, MonFatPcs
<1>13. MonHashKept'
  BY <1>2, <1>6, <1>7 DEF MonInv, MonHashKept, MonHashNow, MonBecomes
<1>14. MonOwnership'
  <2>1. monWord' = monWord /\ monWord'.kind = "fat" /\ MonOwner' = monitors'[M].owner /\ MonCount' = monitors'[M].count
    BY <1>2, <1>7 DEF MonOwner, MonCount
  <2>3. \A u \in MonThreads : MonInWait(u)' <=> IF u = t THEN again ELSE MonInWait(u)
    BY <1>8, <1>9, <1>3, <1>4, <1>7 DEF MonInWait, again
  <2>4. \A u \in MonThreads : MonHolds(u) => old.owner = u
    BY <1>2 DEF MonInv, MonOwnership
  <2>5. \A u \in MonThreads : MonHolds(u)' <=> IF u = t THEN own ELSE MonHolds(u)
    <3>1. \A u \in MonThreads \ {t} : MonHolds(u)' <=> MonHolds(u)
      BY <2>3, <1>8 DEF MonHolds
    <3>2. MonHolds(t)' <=> own
      <4>1. CASE own
        <5>1. again => monPc'[t] = "rewait"
          BY <4>1, <1>9
        <5>2. ~again => monDepth'[t] > 0
          BY <4>1, <1>3, <1>6
        <5> QED BY <4>1, <5>1, <5>2, <2>3 DEF MonHolds
      <4>2. CASE ~own
        <5>1. monPc'[t] = "blocked" /\ monDepth'[t] = monDepth[t]
          BY <4>2, <1>6, <1>9
        <5>2. ~ MonHolds(t)
          BY <4>2, <1>2 DEF MonInv, MonOwnership, own
        <5> QED BY <4>2, <5>1, <5>2, <2>3, <1>4 DEF MonHolds
      <4> QED BY <4>1, <4>2
    <3> QED BY <3>1, <3>2
  <2>6. \A u \in MonThreads : MonHolds(u)' <=> MonOwner' = u
    <3>1. \A u \in MonThreads : MonHolds(u) <=> old.owner = u
      BY <1>2 DEF MonInv, MonOwnership
    <3>2. MonOwner' = IF own THEN t ELSE old.owner
      BY <2>1, <1>6 DEF MonBecomes
    <3> QED BY <2>5, <3>1, <3>2, MonitorAssumption DEF own
  <2>7. ASSUME NEW u \in MonThreads, monDepth'[u] > 0, ~MonInWait(u)'
        PROVE  MonCount' = monDepth'[u] - 1
    <3>1. CASE u = t
      <4>1. ~again
        BY <2>3, <2>7, <3>1
      <4>2. own
        BY <2>5, <2>7, <3>1 DEF MonHolds
      <4>3. monDepth'[t] = monDepth[t] + 1 /\ MonCount' = IF old.owner = t THEN old.count + 1 ELSE old.count
        BY <4>1, <4>2, <1>3, <1>6, <2>1 DEF MonBecomes
      <4>4. CASE old.owner = t
        <5>1. MonHolds(t) /\ ~MonInWait(t)
          BY <4>4, <1>2, <4>1, <1>4 DEF MonInv, MonOwnership
        <5>2. monDepth[t] > 0
          BY <5>1, <1>1 DEF MonHolds
        <5>3. old.count = monDepth[t] - 1
          BY <5>1, <5>2, <1>2 DEF MonInv, MonOwnership
        <5> QED BY <5>3, <4>3, <4>4, <1>3, <3>1
      <4>5. CASE old.owner # t
        <5>1. old.owner = MonNone /\ old.count = 0
          BY <4>5, <4>2, <1>3 DEF own
        <5>2. ~ (monDepth[t] > 0)
          BY <4>1, <4>5, <1>2, <1>4 DEF MonInv, MonOwnership, MonHolds
        <5> QED BY <5>1, <5>2, <4>3, <4>5, <1>3, <3>1
      <4> QED BY <4>4, <4>5
    <3>2. CASE u # t
      <4>1. MonHolds(u) /\ old.owner = u /\ monDepth[u] = monDepth'[u] /\ MonCount = monDepth[u] - 1
        BY <3>2, <2>3, <2>4, <2>7, <1>8 DEF MonInv, MonOwnership, MonHolds
      <4> QED BY <4>1, <3>2, <2>1, <1>2, <1>6 DEF MonBecomes
    <3> QED BY <3>1, <3>2
  <2>8. ASSUME NEW u \in MonThreads, MonInWait(u)'
        PROVE  monDepth'[u] > 0 /\ monKeep'[u] = monDepth'[u] - 1
    BY <2>8, <2>3, <1>3, <1>5, <1>6, <1>7, <1>8 DEF MonInv, MonOwnership
  <2>9. \A m \in MonIds : monitors'[m].owner = MonNone => monitors'[m].count = 0
    BY <1>2, <1>3, <1>6, MonitorAssumption DEF MonInv, MonOwnership, MonBecomes, own
  <2> QED BY <2>6, <2>7, <2>8, <2>9 DEF MonOwnership
<1>15. MonCounted'
  <2>1. MonBlocked' = IF own THEN MonBlocked \ {t} ELSE MonBlocked \union {t}
    BY <1>1, <1>3, <1>6, <1>7 DEF MonBlocked
  <2>2. MonWaiters' = MonWaiters
    BY <1>1, <1>3, <1>4, <1>5, <1>6, <1>7 DEF MonWaiters, MonInWait, again
  <2>3. t \in MonBlocked <=> from = "back"
    BY <1>1 DEF MonBlocked
  <2>4. old.waiters = Cardinality(MonBlocked) + Cardinality(MonWaiters)
    BY <1>2 DEF MonInv, MonCounted
  <2>5. IsFiniteSet(MonBlocked') /\ IsFiniteSet(MonWaiters')
    BY <2>1, <2>2, MonCardinality DEF MonInv, MonCounted
  <2>6. monitors'[M].waiters = Cardinality(MonBlocked') + Cardinality(MonWaiters')
    <3>1. Cardinality(MonBlocked') = IF own THEN Cardinality(MonBlocked) - gone ELSE Cardinality(MonBlocked) - gone + 1
      <4>1. CASE from = "back"
        <5>1. t \in MonBlocked /\ gone = 1 /\ (MonBlocked \union {t} = MonBlocked)
          BY <4>1, <2>3 DEF gone
        <5>2. Cardinality(MonBlocked) \in Nat /\ Cardinality(MonBlocked \ {t}) = Cardinality(MonBlocked) - 1
          BY <5>1, MonCardinality DEF MonInv, MonCounted
        <5>3. CASE own
          BY <5>1, <5>2, <5>3, <2>1
        <5>4. CASE ~own
          <6>1. MonBlocked' = MonBlocked
            BY <5>1, <5>4, <2>1
          <6>2. Cardinality(MonBlocked') = Cardinality(MonBlocked)
            BY <6>1
          <6> QED BY <6>2, <5>1, <5>2, <5>4
        <5> QED BY <5>3, <5>4
      <4>2. CASE from # "back"
        <5>1. t \notin MonBlocked /\ gone = 0 /\ (MonBlocked \ {t} = MonBlocked)
          BY <4>2, <2>3 DEF gone
        <5>2. Cardinality(MonBlocked) \in Nat /\ Cardinality(MonBlocked \union {t}) = Cardinality(MonBlocked) + 1
          BY <5>1, MonCardinality DEF MonInv, MonCounted
        <5>3. CASE own
          <6>1. MonBlocked' = MonBlocked
            BY <5>1, <5>3, <2>1
          <6>2. Cardinality(MonBlocked') = Cardinality(MonBlocked)
            BY <6>1
          <6> QED BY <6>2, <5>1, <5>2, <5>3
        <5>4. CASE ~own
          BY <5>1, <5>2, <5>4, <2>1
        <5> QED BY <5>3, <5>4
      <4> QED BY <4>1, <4>2
    <3>2. Cardinality(MonBlocked) \in Nat /\ Cardinality(MonWaiters) \in Nat /\ gone \in Nat
      BY MonCardinality DEF MonInv, MonCounted, gone
    <3> QED BY <3>1, <3>2, <2>2, <2>4, <1>6 DEF MonBecomes
  <2>7. \A m \in MonIds : monWord' = Fat(m) => m = M
    BY <1>2, <1>7, MonWordKinds
  <2>8. \A m \in MonIds : \A c \in monitors'[m].contenders : monPc'[c] = "contending" /\ monWord' = Fat(m)
    BY <1>1, <1>2, <1>3, <1>6, <1>7 DEF MonInv, MonCounted, MonBecomes, MonTypeInv
  <2> QED BY <2>5, <2>6, <2>7, <2>8 DEF MonCounted
<1> QED BY <1>6, <1>10, <1>11, <1>12, <1>13, <1>14, <1>15 DEF MonInv

\* A thread in a Monitor is in the monitor of the lock word.
LEMMA MonFatFacts ==
  ASSUME MonInv, NEW t \in MonThreads, monPc[t] \in MonFatPcs
  PROVE  /\ monWord = monAt[t] /\ monWord.kind = "fat"
         /\ monAt[t].monitor \in MonIds /\ monWord = Fat(monAt[t].monitor)
         /\ \A m \in MonIds : monWord = Fat(m) => m = monAt[t].monitor
         /\ MonOwner = monitors[monAt[t].monitor].owner
         /\ MonCount = monitors[monAt[t].monitor].count
<1>1. monWord = monAt[t] /\ monWord.kind = "fat"
  BY DEF MonInv, MonReadIsCurrent
<1> QED BY <1>1, MonWords, MonWordKinds DEF MonWordIs, MonOwner, MonCount

\* The steps that leave the lock, its owner and everybody's place in its queues alone.
MonMoves == {<<"blocked", "contending">>, <<"blocked", "back">>, <<"contending", "back">>,
             <<"waiting", "signalled">>, <<"signalled", "woken">>, <<"woken", "lock">>,
             <<"exitFat", "run">>, <<"wait", "run">>, <<"throw", "run">>}

\* They keep the invariant.
LEMMA MonMovesKeep ==
  ASSUME MonInv,
         UNCHANGED <<monWord, monFree, monAt, monBack, monKeep, monDepth, monHashed, monAborted,
                     monSuspenders>>,
         monPc' \in [MonThreads -> MonPcs],
         \A u \in MonThreads : monPc'[u] = monPc[u] \/ <<monPc[u], monPc'[u]>> \in MonMoves,
         DOMAIN monitors' = MonIds,
         \A m \in MonIds :
            /\ DOMAIN monitors'[m] = MonFields
            /\ monitors'[m].owner = monitors[m].owner
            /\ monitors'[m].count = monitors[m].count
            /\ monitors'[m].hash = monitors[m].hash
            /\ monitors'[m].waiters = monitors[m].waiters
            /\ monitors'[m].contenders \in SUBSET MonThreads
            /\ \A c \in monitors'[m].contenders : monPc'[c] = "contending" /\ monWord' = Fat(m)
  PROVE  MonInv'
<1>1. MonTypeInv' /\ ~monAborted'
  BY DEF MonInv, MonTypeInv, MonIsWord
<1>2. MonReturns'
  BY DEF MonInv, MonReturns, MonMoves
<1>3. MonReadIsCurrent'
  BY MonWords DEF MonInv, MonReadIsCurrent, MonFatPcs, MonMoves, MonWordIs
<1>4. MonBlocked' = MonBlocked
  BY DEF MonBlocked, MonMoves
<1>5. \A u \in MonThreads : MonInWait(u)' <=> MonInWait(u)
  BY DEF MonInWait, MonMoves, MonInv, MonReturns
<1>6. MonWaiters' = MonWaiters
  BY <1>5 DEF MonWaiters
<1>7. /\ Cardinality(MonBlocked') = Cardinality(MonBlocked)
      /\ Cardinality(MonWaiters') = Cardinality(MonWaiters)
      /\ IsFiniteSet(MonBlocked') /\ IsFiniteSet(MonWaiters')
  BY <1>4, <1>6 DEF MonInv, MonCounted
<1>8. MonCounted'
  BY <1>7 DEF MonInv, MonCounted, Fat
<1>9. MonOwner' = MonOwner /\ (MonOwner \in MonThreads => MonCount' = MonCount)
  BY MonWords, MonitorAssumption DEF MonOwner, MonCount, MonWordIs
<1>10. \A u \in MonThreads : MonHolds(u)' <=> MonHolds(u)
  BY <1>5 DEF MonHolds, MonMoves
<1>11. MonOwnership'
  <2>1. ASSUME NEW u \in MonThreads, monDepth'[u] > 0, ~MonInWait(u)'
        PROVE  MonCount' = monDepth'[u] - 1
    <3>1. MonHolds(u) /\ MonOwner = u /\ MonCount = monDepth[u] - 1
      BY <2>1, <1>5 DEF MonInv, MonOwnership, MonHolds
    <3> QED BY <3>1, <1>9
  <2> QED BY <2>1, <1>5, <1>9, <1>10 DEF MonInv, MonOwnership
<1>12. MonHashKept'
  BY MonWords DEF MonInv, MonHashKept, MonHashNow, MonWordIs
<1> QED BY <1>1, <1>2, <1>3, <1>8, <1>11, <1>12 DEF MonInv

\* The steps of a thread that changes neither the word nor a Monitor and stays out of the queues.
LEMMA MonOutsideKeeps ==
  ASSUME MonInv, NEW t \in MonThreads,
         UNCHANGED <<monWord, monitors, monFree, monKeep, monDepth, monHashed, monAborted>>,
         DOMAIN monSuspenders' = MonThreads,
         NEW pc \in MonPcs, monPc' = [monPc EXCEPT ![t] = pc],
         NEW at, MonIsWord(at), monAt' = [monAt EXCEPT ![t] = at],
         NEW back \in {"run", "enter", "hash", "waitRead", "rewait"},
         monBack' = [monBack EXCEPT ![t] = back],
         ~MonInWait(t), ~MonInWait(t)', monPc[t] # "contending",
         t \notin MonBlocked, pc \notin {"blocked", "contending", "back", "rewait"},
         MonReturns', MonReadIsCurrent'
  PROVE  MonInv'
<1>1. MonTypeInv' /\ ~monAborted'
  BY DEF MonInv, MonTypeInv, MonIsWord
<1>4. MonBlocked' = MonBlocked
  BY DEF MonBlocked, MonInv, MonTypeInv
<1>5. \A u \in MonThreads : MonInWait(u)' <=> MonInWait(u)
  BY DEF MonInWait, MonInv, MonTypeInv
<1>6. MonWaiters' = MonWaiters
  BY <1>5 DEF MonWaiters
<1>7. /\ Cardinality(MonBlocked') = Cardinality(MonBlocked)
      /\ Cardinality(MonWaiters') = Cardinality(MonWaiters)
      /\ IsFiniteSet(MonBlocked') /\ IsFiniteSet(MonWaiters')
  BY <1>4, <1>6 DEF MonInv, MonCounted
<1>8. MonCounted'
  BY <1>7 DEF MonInv, MonCounted, Fat, MonTypeInv
<1>11. MonOwnership'
  BY <1>5, MonWords DEF MonInv, MonTypeInv, MonOwnership, MonReturns, MonHolds, MonInWait, MonOwner, MonCount, MonWordIs
<1>12. MonHashKept'
  BY DEF MonInv, MonHashKept, MonHashNow
<1> QED BY <1>1, <1>8, <1>11, <1>12 DEF MonInv

\* The calls and the reads of the lock word.
LEMMA MonOutsideSteps ==
  ASSUME MonInv, NEW t \in MonThreads,
         \/ MonEnter(t) \/ MonExit(t) \/ MonWait(t) \/ MonHash(t) \/ MonSuspendOwner(t)
         \/ MonEnterRead(t) \/ MonWaitRead(t)
         \/ MonHashRead(t) /\ monWord.kind = "thin"
  PROVE  MonInv'
<1> DEFINE Common ==
             UNCHANGED <<monWord, monitors, monFree, monKeep, monDepth, monHashed, monAborted>>
<1>t. MonInv /\ MonTypeInv /\ monPc \in [MonThreads -> MonPcs] 
  BY DEF MonInv, MonTypeInv
<1>1. ASSUME NEW pc \in MonPcs, NEW at, MonIsWord(at), NEW back \in {"run", "enter", "hash", "waitRead", "rewait"},
             monPc[t] \in {"run", "suspend", "enter", "waitRead", "hash"},
             pc \in {"run", "enter", "exitStore", "exitFat", "inflateOwn", "wait", "hash", "inflating",
                     "inflateHash", "enterStore", "suspend"} \/ (pc = "lock" /\ back = "enter"),
             monPc' = [monPc EXCEPT ![t] = pc],
             monAt' = [monAt EXCEPT ![t] = at],
             monBack' = [monBack EXCEPT ![t] = back],
             DOMAIN monSuspenders' = MonThreads,
             UNCHANGED <<monWord, monitors, monFree, monKeep, monDepth, monHashed, monAborted>>,
             pc \in {"enter", "inflateHash"} => back = "enter",
             pc = "hash" => back = "hash",
             pc \in {"suspend", "inflating"} => back \in {"enter", "hash"},
             pc = "inflateOwn" => back \in {"enter", "hash", "waitRead"},
             pc \in {"exitFat", "wait", "lock"} => at = monWord /\ monWord.kind = "fat",
             pc \in {"enterStore", "exitStore"} => at = monWord,
             pc \in {"enterStore", "exitStore", "inflateOwn"} => monWord.kind = "thin" /\ monWord.owner = t,
             pc = "inflateHash" => at = monWord /\ at.kind = "hash",
             pc \in {"suspend", "inflating"} => at.kind = "thin"
      PROVE  MonInv'
  <2>1. monPc'[t] = pc /\ monAt'[t] = at /\ monBack'[t] = back
    BY <1>1, <1>t DEF MonTypeInv
  <2>2. \A u \in MonThreads \ {t} : monPc'[u] = monPc[u] /\ monAt'[u] = monAt[u] /\ monBack'[u] = monBack[u]
    BY <1>1, <1>t DEF MonTypeInv
  <2>3. MonReturns'
    BY <1>1, <2>1, <2>2 DEF MonInv, MonReturns
  <2>4. MonReadIsCurrent'
    BY <1>1, <2>1, <2>2 DEF MonInv, MonReadIsCurrent, MonFatPcs
  <2>5. ~MonInWait(t) /\ ~MonInWait(t)' /\ t \notin MonBlocked /\ pc \notin {"blocked", "contending", "back", "rewait"}
    BY <1>1, <2>1 DEF MonInWait, MonBlocked
  <2> QED BY <1>1, <2>3, <2>4, <2>5, MonOutsideKeeps
<1>2. monAt = [monAt EXCEPT ![t] = monAt[t]] /\ monBack = [monBack EXCEPT ![t] = monBack[t]]
  BY DEF MonInv, MonTypeInv
<1>3. MonIsWord(monAt[t]) /\ MonIsWord(monWord) /\ monBack[t] \in {"run", "enter", "hash", "waitRead", "rewait"}
      /\ DOMAIN monSuspenders = MonThreads
  BY DEF MonInv, MonTypeInv
<1>4. CASE MonEnter(t)
  <2>1. monPc[t] = "run" /\ monPc' = [monPc EXCEPT ![t] = "enter"] /\ monBack' = [monBack EXCEPT ![t] = "enter"]
        /\ UNCHANGED <<monAt, monSuspenders>> /\ Common
    BY <1>4 DEF MonEnter, MonBegin, MonLeave, MonGo, monShared, monWaiting, monHistory
  <2> QED BY <2>1, <1>1, <1>2, <1>3 DEF MonPcs
<1>5. CASE MonHash(t)
  <2>1. monPc[t] = "run" /\ monPc' = [monPc EXCEPT ![t] = "hash"] /\ monBack' = [monBack EXCEPT ![t] = "hash"]
        /\ UNCHANGED <<monAt, monSuspenders>> /\ Common
    BY <1>5 DEF MonHash, MonBegin, MonLeave, MonGo, monShared, monWaiting, monHistory
  <2> QED BY <2>1, <1>1, <1>2, <1>3 DEF MonPcs
<1>6. CASE MonExit(t)
  <2> DEFINE pc == CASE monWord.kind = "thin" /\ monWord.owner = t -> "exitStore"
                     [] monWord.kind = "fat" -> "exitFat"
                     [] OTHER -> "run"
  <2>1. monPc[t] = "run" /\ monPc' = [monPc EXCEPT ![t] = pc] /\ monAt' = [monAt EXCEPT ![t] = monWord]
        /\ UNCHANGED <<monBack, monSuspenders>> /\ Common
    BY <1>6 DEF MonExit, MonLeave, MonGo, MonRead, monShared, monWaiting, monHistory
  <2>2. /\ pc \in {"exitStore", "exitFat", "run"}
        /\ pc = "exitStore" => monWord.kind = "thin" /\ monWord.owner = t
        /\ pc = "exitFat" => monWord.kind = "fat"
    OBVIOUS
  <2> HIDE DEF pc
  <2> QED BY <2>1, <2>2, <1>1, <1>2, <1>3 DEF MonPcs
<1>7. CASE MonWait(t)
  <2> DEFINE pc == CASE monWord.kind = "thin" /\ monWord.owner = t -> "inflateOwn"
                     [] monWord.kind = "fat" -> "wait"
                     [] OTHER -> "run"
  <2>1. monPc[t] = "run" /\ monPc' = [monPc EXCEPT ![t] = pc] /\ monAt' = [monAt EXCEPT ![t] = monWord]
        /\ monBack' = [monBack EXCEPT ![t] = "waitRead"] /\ UNCHANGED monSuspenders /\ Common
    BY <1>7 DEF MonWait, MonBegin, MonLeave, MonGo, MonRead, monShared, monWaiting, monHistory
  <2>2. /\ pc \in {"inflateOwn", "wait", "run"}
        /\ pc = "inflateOwn" => monWord.kind = "thin" /\ monWord.owner = t
        /\ pc = "wait" => monWord.kind = "fat"
    OBVIOUS
  <2> HIDE DEF pc
  <2> QED BY <2>1, <2>2, <1>1, <1>2, <1>3 DEF MonPcs
<1>8. CASE MonSuspendOwner(t)
  <2>1. monPc[t] = "suspend" /\ monPc' = [monPc EXCEPT ![t] = "inflating"] /\ DOMAIN monSuspenders' = MonThreads
        /\ UNCHANGED <<monAt, monBack>> /\ Common
    BY <1>8, <1>3 DEF MonSuspendOwner, MonLeave, MonGo, monShared, monWaiting, monHistory
  <2>2. monBack[t] \in {"enter", "hash"} /\ monAt[t].kind = "thin"
    BY <2>1 DEF MonInv, MonReturns, MonReadIsCurrent
  <2> QED BY <2>1, <2>2, <1>1, <1>2, <1>3 DEF MonPcs
<1>9. CASE MonEnterRead(t)
  <2> DEFINE pc == CASE monWord.kind = "fat" -> "lock"
                     [] monWord.kind = "hash" -> "inflateHash"
                     [] monWord.kind = "thin" /\ monWord.owner = t /\ monWord.count < MonMaxThin
                          -> "enterStore"
                     [] OTHER -> MonToInflate(t)
  <2>1. monPc[t] = "enter" /\ monPc' = [monPc EXCEPT ![t] = pc] /\ monAt' = [monAt EXCEPT ![t] = monWord]
        /\ monWord.kind # "unlocked" /\ UNCHANGED <<monBack, monSuspenders>> /\ Common
    BY <1>9 DEF MonEnterRead, MonGo, MonRead, monShared, monWaiting, monHistory
  <2>2. /\ pc \in {"lock", "inflateHash", "enterStore", "inflateOwn", "suspend"}
        /\ pc = "lock" => monWord.kind = "fat"
        /\ pc = "inflateHash" => monWord.kind = "hash"
        /\ pc \in {"enterStore", "inflateOwn"} => monWord.kind = "thin" /\ monWord.owner = t
        /\ pc = "suspend" => monWord.kind = "thin"
    BY <2>1, MonWords DEF MonToInflate, MonWordIs
  <2>3. monBack[t] = "enter"
    BY <2>1 DEF MonInv, MonReturns
  <2> HIDE DEF pc
  <2> QED BY <2>1, <2>2, <2>3, <1>1, <1>2, <1>3 DEF MonPcs
<1>10. CASE MonWaitRead(t)
  <2>1. monPc[t] = "waitRead" /\ monPc' = [monPc EXCEPT ![t] = IF monWord.kind = "fat" THEN "wait" ELSE "inflateOwn"]
        /\ monAt' = [monAt EXCEPT ![t] = monWord] /\ UNCHANGED <<monBack, monSuspenders>> /\ Common
    BY <1>10 DEF MonWaitRead, MonGo, MonRead, monShared, monWaiting, monHistory
  <2>2. monWord.kind = "fat"
    BY <2>1 DEF MonInv, MonReadIsCurrent
  <2>3. monPc' = [monPc EXCEPT ![t] = "wait"]
    BY <2>1, <2>2
  <2> QED BY <2>1, <2>2, <2>3, <1>1, <1>2, <1>3 DEF MonPcs
<1>11. CASE MonHashRead(t) /\ monWord.kind = "thin"
  <2>1. monPc[t] = "hash" /\ monPc' = [monPc EXCEPT ![t] = MonToInflate(t)] /\ monAt' = [monAt EXCEPT ![t] = monWord]
        /\ UNCHANGED <<monBack, monSuspenders>> /\ Common
    BY <1>11 DEF MonHashRead, MonGo, MonRead, monWaiting
  <2>2. /\ MonToInflate(t) \in {"inflateOwn", "suspend"}
        /\ MonToInflate(t) = "inflateOwn" => monWord.owner = t
    BY DEF MonToInflate
  <2>3. monBack[t] \in {"enter", "hash"}
    BY <2>1 DEF MonInv, MonReturns
  <2> QED BY <2>1, <2>2, <2>3, <1>1, <1>2, <1>3, <1>11 DEF MonPcs
<1> QED BY <1>4, <1>5, <1>6, <1>7, <1>8, <1>9, <1>10, <1>11

\* Blocking, waking up and leaving by an exception.
LEMMA MonMovesSteps ==
  ASSUME MonInv, NEW t \in MonThreads,
         \/ MonBlock(t) \/ MonNotify(t) \/ MonNotifyAll(t) \/ MonInterrupt(t) \/ MonTimeout(t)
         \/ MonWoken(t) \/ MonUnwait(t) \/ MonThrow(t)
         \/ MonExitFat(t) /\ monitors[monAt[t].monitor].owner # t
         \/ MonWaitFat(t) /\ monitors[monAt[t].monitor].owner # t
  PROVE  MonInv'
<1> DEFINE Common == UNCHANGED <<monWord, monFree, monAt, monBack, monKeep, monDepth, monHashed,
                                 monAborted, monSuspenders>>
           Quiet == \A u \in MonThreads : monPc'[u] = monPc[u] \/ <<monPc[u], monPc'[u]>> \in MonMoves
           Same(m) == /\ DOMAIN monitors'[m] = MonFields
                      /\ monitors'[m].owner = monitors[m].owner
                      /\ monitors'[m].count = monitors[m].count
                      /\ monitors'[m].hash = monitors[m].hash
                      /\ monitors'[m].waiters = monitors[m].waiters
<1>0. /\ monPc \in [MonThreads -> MonPcs] /\ DOMAIN monitors = MonIds
      /\ \A m \in MonIds : DOMAIN monitors[m] = MonFields /\ monitors[m].contenders \in SUBSET MonThreads
      /\ \A m \in MonIds : \A c \in monitors[m].contenders : monPc[c] = "contending" /\ monWord = Fat(m)
  BY DEF MonInv, MonTypeInv, MonCounted
\* A thread moves on by itself and the Monitors stay as they are.
<1>1. ASSUME Common, NEW pc \in MonPcs, monPc' = [monPc EXCEPT ![t] = pc],
             <<monPc[t], pc>> \in MonMoves, monPc[t] # "contending", UNCHANGED monitors
      PROVE  MonInv'
  <2>1. monPc' \in [MonThreads -> MonPcs] /\ Quiet
    BY <1>0, <1>1
  <2>2. \A m \in MonIds : \A c \in monitors'[m].contenders : monPc'[c] = "contending" /\ monWord' = Fat(m)
    BY <1>0, <1>1
  <2> QED BY <2>1, <2>2, <1>0, <1>1, MonMovesKeep
\* Threads asleep in Object.wait are signalled, and the wait set of the monitor may shrink.
<1>2. ASSUME Common, NEW us, monPc' = monPc \/ monPc' = Signalled(monPc, us),
             DOMAIN monitors' = MonIds,
             \A m \in MonIds : Same(m) /\ monitors'[m].contenders = monitors[m].contenders
      PROVE  MonInv'
  <2>1. /\ monPc' \in [MonThreads -> MonPcs] /\ Quiet
        /\ \A u \in MonThreads : monPc[u] = "contending" => monPc'[u] = "contending"
    BY <1>0, <1>2 DEF Signalled, MonMoves, MonPcs
  <2>2. \A m \in MonIds : \A c \in monitors'[m].contenders : monPc'[c] = "contending" /\ monWord' = Fat(m)
    BY <1>0, <1>2, <2>1
  <2> QED BY <2>1, <2>2, <1>0, <1>2, MonMovesKeep
<1>3. CASE MonBlock(t)
  <2> DEFINE M == monAt[t].monitor
  <2>1. monPc[t] = "blocked" /\ M \in MonIds /\ monWord = Fat(M) /\ Common
    BY <1>3, MonFatFacts DEF MonBlock, MonFatPcs, monWaiting, monHistory
  <2>2. CASE monitors[M].owner # MonNone
    <3>1. /\ monPc' = [monPc EXCEPT ![t] = "contending"]
          /\ monitors' = [monitors EXCEPT ![M].contenders = @ \union {t}]
      BY <1>3, <2>2 DEF MonBlock, MonGo
    <3>2. monPc' \in [MonThreads -> MonPcs] /\ Quiet
      BY <1>0, <2>1, <3>1 DEF MonMoves, MonPcs
    <3>3. /\ DOMAIN monitors' = MonIds
          /\ \A m \in MonIds : Same(m) /\ monitors'[m].contenders \in SUBSET MonThreads
      BY <1>0, <2>1, <3>1 DEF MonFields
    <3>4. \A m \in MonIds : \A c \in monitors'[m].contenders : (c = t /\ m = M) \/ c \in monitors[m].contenders
      BY <1>0, <2>1, <3>1 DEF MonFields
    <3>5. \A m \in MonIds : \A c \in monitors'[m].contenders : monPc'[c] = "contending" /\ monWord' = Fat(m)
      BY <1>0, <2>1, <3>1, <3>4
    <3> QED BY <2>1, <3>2, <3>3, <3>5, MonMovesKeep
  <2>3. CASE monitors[M].owner = MonNone
    <3>1. monPc' = [monPc EXCEPT ![t] = "back"] /\ UNCHANGED monitors
      BY <1>3, <2>3 DEF MonBlock, MonGo
    <3> QED BY <2>1, <3>1, <1>1 DEF MonMoves, MonPcs
  <2> QED BY <2>2, <2>3
<1>4. CASE MonNotify(t)
  <2> DEFINE M == monWord.monitor
             set == monitors[M].waitSet
             still == {i \in DOMAIN set : monWaits[set[i]]}
             first == IF still = {} THEN Len(set) ELSE CHOOSE i \in still : \A j \in still : i =< j
  <2>1. Common
    BY <1>4 DEF MonNotify, monWaiting
  <2>2. CASE MonOwnsFat(t)
    <3>1. M \in MonIds
      BY <2>2, MonWords DEF MonOwnsFat, MonWordIs
    <3>2. /\ monitors' = [monitors EXCEPT ![M].waitSet = SubSeq(@, first + 1, Len(@))]
          /\ monPc' = IF still = {} THEN monPc ELSE Signalled(monPc, {set[first]})
      BY <1>4, <2>2 DEF MonNotify
    <3> HIDE DEF first, still, set
    <3>3. /\ DOMAIN monitors' = MonIds
          /\ \A m \in MonIds : Same(m) /\ monitors'[m].contenders = monitors[m].contenders
      BY <1>0, <3>1, <3>2 DEF MonFields
    <3>4. monPc' = monPc \/ monPc' = Signalled(monPc, {set[first]})
      BY <3>2
    <3> QED BY <2>1, <3>3, <3>4, <1>2
  <2>3. CASE ~MonOwnsFat(t)
    <3>1. UNCHANGED <<monitors, monPc>>
      BY <1>4, <2>3 DEF MonNotify
    <3> QED BY <2>1, <3>1, <1>0, <1>2
  <2> QED BY <2>2, <2>3
<1>5. CASE MonNotifyAll(t)
  <2> DEFINE M == monWord.monitor
             us == {u \in ToSet(monitors[M].waitSet) : monWaits[u]}
  <2>1. Common
    BY <1>5 DEF MonNotifyAll, monWaiting, monHistory
  <2>2. CASE MonOwnsFat(t)
    <3>1. M \in MonIds
      BY <2>2, MonWords DEF MonOwnsFat, MonWordIs
    <3>2. monitors' = [monitors EXCEPT ![M].waitSet = <<>>] /\ monPc' = Signalled(monPc, us)
      BY <1>5, <2>2 DEF MonNotifyAll
    <3> HIDE DEF us
    <3>3. /\ DOMAIN monitors' = MonIds
          /\ \A m \in MonIds : Same(m) /\ monitors'[m].contenders = monitors[m].contenders
      BY <1>0, <3>1, <3>2 DEF MonFields
    <3> QED BY <2>1, <3>2, <3>3, <1>2
  <2>3. CASE ~MonOwnsFat(t)
    <3>1. UNCHANGED <<monitors, monPc>>
      BY <1>5, <2>3 DEF MonNotifyAll
    <3> QED BY <2>1, <3>1, <1>0, <1>2
  <2> QED BY <2>2, <2>3
<1>6. CASE MonInterrupt(t)
  <2>1. Common /\ UNCHANGED monitors /\ (monPc' = monPc \/ monPc' = Signalled(monPc, {t}))
    BY <1>6 DEF MonInterrupt, monShared, monHistory
  <2> QED BY <2>1, <1>0, <1>2
<1>7. CASE MonTimeout(t)
  BY <1>1, <1>7 DEF MonTimeout, MonGo, MonMoves, MonPcs, monShared, monWaiting, monHistory
<1>8. CASE MonWoken(t)
  BY <1>1, <1>8 DEF MonWoken, MonGo, MonMoves, MonPcs, monShared, monHistory
<1>9. CASE MonUnwait(t)
  BY <1>1, <1>9 DEF MonUnwait, MonLeave, MonGo, MonMoves, MonPcs, monShared, monHistory
<1>10. CASE MonThrow(t)
  BY <1>1, <1>10 DEF MonThrow, MonGo, MonMoves, MonPcs, monShared, monHistory
<1>11. CASE MonExitFat(t) /\ monitors[monAt[t].monitor].owner # t
  BY <1>1, <1>11 DEF MonExitFat, MonMoves, MonPcs, monWaiting
<1>12. CASE MonWaitFat(t) /\ monitors[monAt[t].monitor].owner # t
  BY <1>1, <1>12 DEF MonWaitFat, MonMoves, MonPcs, monHistory
<1> QED BY <1>3, <1>4, <1>5, <1>6, <1>7, <1>8, <1>9, <1>10, <1>11, <1>12

\* num_waiters_ after a step that leaves the queues alone.
LEMMA MonCountedFrame ==
  ASSUME MonInv, MonBlocked' = MonBlocked, MonWaiters' = MonWaiters,
         \A m \in MonIds : /\ monWord' = Fat(m) => monWord = Fat(m) /\ monitors'[m].waiters = monitors[m].waiters
                           /\ \A c \in monitors'[m].contenders : monPc'[c] = "contending" /\ monWord' = Fat(m)
  PROVE  MonCounted'
<1>1. /\ Cardinality(MonBlocked') = Cardinality(MonBlocked)
      /\ Cardinality(MonWaiters') = Cardinality(MonWaiters)
      /\ IsFiniteSet(MonBlocked') /\ IsFiniteSet(MonWaiters')
  BY DEF MonInv, MonCounted
<1> QED BY <1>1 DEF MonInv, MonCounted

\* The thin lock's plain stores and CASes.
LEMMA MonThinSteps ==
  ASSUME MonInv, NEW t \in MonThreads, MonEnterUnlocked(t) \/ MonEnterStore(t) \/ MonExitStore(t)
  PROVE  MonInv'
<1>0. /\ MonTypeInv /\ MonReturns /\ MonReadIsCurrent /\ MonOwnership /\ MonHashKept /\ ~monAborted
      /\ monDepth \in [MonThreads -> Nat] /\ monPc \in [MonThreads -> MonPcs]
  BY DEF MonInv, MonTypeInv
\* The word before and after, in terms of how deep the thread is in the lock.
<1>1. /\ monWord.kind # "fat" /\ monWord.kind # "hash"
      /\ monWord.kind = "thin" => monWord = Thin(t, monDepth[t] - 1) /\ monDepth[t] > 0
      /\ monWord.kind = "unlocked" => monWord = Unlocked /\ monDepth[t] = 0
      /\ \A u \in MonThreads \ {t} : monDepth[u] = 0
      /\ \A u \in MonThreads : ~MonInWait(u) /\ monPc[u] \notin MonFatPcs
      /\ \A u \in MonThreads \ {t} : monPc[u] \notin {"enterStore", "exitStore", "inflateOwn", "waitRead", "inflateHash"}
  <2>1. monWord.kind = "unlocked" \/ (monWord.kind = "thin" /\ monWord.owner = t)
    BY <1>0 DEF MonEnterUnlocked, MonEnterStore, MonExitStore, MonGo, MonReadIsCurrent
  <2>2. \A u \in MonThreads : monPc[u] \notin MonFatPcs
    BY <2>1, <1>0 DEF MonReadIsCurrent
  <2>3. \A u \in MonThreads : ~MonInWait(u)
    BY <2>2 DEF MonInWait, MonFatPcs
  <2>4. \A u \in MonThreads : monDepth[u] > 0 <=> MonOwner = u
    BY <2>2, <2>3, <1>0 DEF MonOwnership, MonHolds, MonFatPcs
  <2>5. monWord.kind = "thin" => MonOwner = t /\ MonCount = monWord.count
    BY <2>1 DEF MonOwner, MonCount
  <2>6. monWord.kind = "unlocked" => MonOwner = MonNone
    BY DEF MonOwner
  <2>7. monWord.kind = "thin" => monDepth[t] > 0 /\ monWord.count = monDepth[t] - 1
    BY <2>3, <2>4, <2>5, <1>0 DEF MonOwnership
  <2>8. \A u \in MonThreads \ {t} : monDepth[u] = 0
    BY <2>1, <2>4, <2>5, <2>6, <1>0, MonitorAssumption
  <2>9. monWord.kind = "unlocked" => monDepth[t] = 0
    BY <2>4, <2>6, <1>0, MonitorAssumption
  <2>10. \A u \in MonThreads \ {t} : monPc[u] \notin {"enterStore", "exitStore", "inflateOwn", "waitRead", "inflateHash"}
    BY <2>1, <1>0 DEF MonReadIsCurrent
  <2> QED BY <2>1, <2>2, <2>3, <2>7, <2>8, <2>9, <2>10, MonWords DEF MonWordIs
<1>2. /\ \/ monDepth' = [monDepth EXCEPT ![t] = @ + 1] /\ monWord' = Thin(t, monDepth[t])
         \/ /\ monDepth' = [monDepth EXCEPT ![t] = @ - 1]  /\ monDepth[t] > 0
            /\ monWord' = IF monDepth[t] = 1 THEN Unlocked ELSE Thin(t, monDepth[t] - 2)
      /\ monPc' = [monPc EXCEPT ![t] = "run"]
      /\ UNCHANGED <<monitors, monFree, monAt, monBack, monKeep, monSuspenders, monAborted, monHashed>>
  <2>1. CASE MonEnterUnlocked(t)
    BY <2>1, <1>1 DEF MonEnterUnlocked, MonGo, MonDeeper, monWaiting
  <2>2. CASE MonEnterStore(t)
    <3>1. monWord = monAt[t] /\ monWord.kind = "thin"
      BY <2>2, <1>0 DEF MonEnterStore, MonGo, MonReadIsCurrent
    <3>2. monAt[t].count + 1 = monDepth[t]
      BY <3>1, <1>0, <1>1 DEF Thin
    <3> QED BY <2>2, <3>2 DEF MonEnterStore, MonGo, MonDeeper, monWaiting
  <2>3. CASE MonExitStore(t)
    <3>1. monWord = monAt[t] /\ monWord.kind = "thin"
      BY <2>3, <1>0 DEF MonExitStore, MonGo, MonReadIsCurrent
    <3>2. monAt[t].count = monDepth[t] - 1 /\ monDepth[t] > 0 /\ monDepth[t] \in Nat
      BY <3>1, <1>0, <1>1 DEF Thin
    <3>3. monWord' = IF monDepth[t] = 1 THEN Unlocked ELSE Thin(t, monDepth[t] - 2)
      <4>1. monAt[t].count = 0 <=> monDepth[t] = 1
        BY <3>2
      <4>2. monAt[t].count - 1 = monDepth[t] - 2
        BY <3>2
      <4> QED BY <4>1, <4>2, <2>3 DEF MonExitStore
    <3>4. monDepth' = [monDepth EXCEPT ![t] = @ - 1]
      <4>1. monDepth' = [monDepth EXCEPT ![t] = @ + (-1)]
        BY <2>3 DEF MonExitStore, MonDeeper
      <4>2. monDepth[t] + (-1) = monDepth[t] - 1
        BY <3>2
      <4> QED BY <4>1, <4>2
    <3> QED BY <2>3, <3>2, <3>3, <3>4 DEF MonExitStore, MonGo, monWaiting
  <2> QED BY <2>1, <2>2, <2>3
<1>3. /\ monDepth' \in [MonThreads -> Nat]
      /\ \A u \in MonThreads \ {t} : monDepth'[u] = 0 /\ monPc'[u] = monPc[u]
      /\ monPc'[t] = "run"
      /\ MonIsWord(monWord') /\ monWord'.kind \in {"thin", "unlocked"}
      /\ monWord'.kind = "thin" => monWord'.owner = t /\ monWord'.count = monDepth'[t] - 1 /\ monDepth'[t] > 0
      /\ monWord'.kind = "unlocked" => monDepth'[t] = 0
  <2>1. CASE monDepth' = [monDepth EXCEPT ![t] = @ + 1] /\ monWord' = Thin(t, monDepth[t])
    BY <2>1, <1>0, <1>1, <1>2, MonWordKinds
  <2>2. CASE /\ monDepth' = [monDepth EXCEPT ![t] = @ - 1]  /\ monDepth[t] > 0
             /\ monWord' = IF monDepth[t] = 1 THEN Unlocked ELSE Thin(t, monDepth[t] - 2)
    <3>1. CASE monDepth[t] = 1
      BY <2>2, <3>1, <1>0, <1>1, <1>2, MonWordKinds
    <3>2. CASE monDepth[t] # 1
      <4>1. monDepth[t] - 2 \in Nat
        BY <2>2, <3>2, <1>0
      <4> QED BY <2>2, <3>2, <4>1, <1>0, <1>1, <1>2, MonWordKinds
    <3> QED BY <3>1, <3>2
  <2> QED BY <2>1, <2>2, <1>2
<1>4. \A u \in MonThreads : ~MonInWait(u)' /\ monPc'[u] \notin MonFatPcs
  BY <1>1, <1>2, <1>3 DEF MonInWait, MonFatPcs
<1>5. MonTypeInv' /\ ~monAborted'
  BY <1>0, <1>2, <1>3 DEF MonTypeInv, MonPcs, MonIsWord
<1>6. MonReturns'
  BY <1>0, <1>2, <1>3 DEF MonReturns
<1>7. MonReadIsCurrent'
  BY <1>0, <1>1, <1>2, <1>3, <1>4 DEF MonReadIsCurrent
<1>8. MonOwnership'
  BY <1>0, <1>2, <1>3, <1>4, MonitorAssumption DEF MonOwnership, MonHolds, MonOwner, MonCount, MonFatPcs
<1>9. MonHashKept'
  BY <1>0, <1>1, <1>2, <1>3, MonitorAssumption DEF MonHashKept, MonHashNow
<1>10. MonCounted'
  <2>1. MonBlocked' = {} /\ MonWaiters' = {} /\ MonBlocked = {} /\ MonWaiters = {}
    BY <1>1, <1>4 DEF MonBlocked, MonWaiters, MonFatPcs
  <2>2. \A m \in MonIds : monWord' # Fat(m)
    BY <1>3, MonWordKinds
  <2>3. \A m \in MonIds : \A c \in monitors'[m].contenders : monPc'[c] = "contending" /\ monWord' = Fat(m)
    BY <1>1, <1>2, MonWordKinds DEF MonInv, MonCounted
  <2> QED BY <2>1, <2>2, <2>3, MonCountedFrame
<1> QED BY <1>5, <1>6, <1>7, <1>8, <1>9, <1>10 DEF MonInv

\* Inflation: the new Monitor is owned by whom the word says, as often, with the hash code the
\* word holds; nobody is queued in it.
LEMMA MonInstallKeeps ==
  ASSUME MonInv, NEW t \in MonThreads, NEW owner, NEW hash \in MonHashes \union {0},
         Install(owner, hash) \/ UNCHANGED <<monShared, monAborted>>,
         monPc[t] \in {"inflateOwn", "inflateHash", "inflating"},
         NEW to \in {"enter", "hash", "waitRead"}, monPc' = [monPc EXCEPT ![t] = to],
         UNCHANGED <<monAt, monBack, monKeep, monDepth, monHashed>>,
         DOMAIN monSuspenders' = MonThreads,
         to = monBack[t],
         to = "waitRead" => Install(owner, hash) /\ monWord.kind = "thin" /\ owner = t,
         Install(owner, hash) =>
           /\ monWord.kind = "thin" =>
                /\ owner = monWord.owner
                /\ \A u \in MonThreads \ {t} : monPc[u] \notin {"enterStore", "exitStore", "inflateOwn"}
           /\ monWord.kind = "hash" => owner = MonNone /\ hash = monWord.hash
           /\ monWord.kind # "unlocked"
  PROVE  MonInv'
<1>0. /\ MonTypeInv /\ MonReturns /\ MonReadIsCurrent /\ MonOwnership /\ MonHashKept /\ ~monAborted
      /\ monPc \in [MonThreads -> MonPcs]
  BY DEF MonInv, MonTypeInv
<1>1. monPc'[t] = to /\ \A u \in MonThreads \ {t} : monPc'[u] = monPc[u]
  BY <1>0
<1>2. MonReturns'
  BY <1>0, <1>1 DEF MonReturns
<1>3. CASE UNCHANGED <<monShared, monAborted>>
  <2>1. to # "waitRead"
    BY <1>3, MonWordKinds, MonWords DEF Install, monShared, MonInv, MonTypeInv, MonWordIs
  <2>2. MonReadIsCurrent'
    BY <1>0, <1>1, <1>3, <2>1 DEF MonReadIsCurrent, MonFatPcs, monShared
  <2>3. ~MonInWait(t) /\ ~MonInWait(t)' /\ t \notin MonBlocked
    BY <1>1 DEF MonInWait, MonBlocked
  <2>4. monAt = [monAt EXCEPT ![t] = monAt[t]] /\ monBack = [monBack EXCEPT ![t] = monBack[t]]
    BY <1>0 DEF MonTypeInv
  <2>5. MonIsWord(monAt[t]) /\ monBack[t] \in {"run", "enter", "hash", "waitRead", "rewait"} /\ to \in MonPcs
    BY <1>0 DEF MonTypeInv, MonPcs
  <2> QED BY <1>2, <1>3, <2>2, <2>3, <2>4, <2>5, MonOutsideKeeps DEF monShared
<1>4. CASE Install(owner, hash) /\ ~ UNCHANGED <<monShared, monAborted>>
  <2>1. /\ monWord.kind \in {"thin", "hash"}
        /\ monAborted' = IF monWord.kind = "thin" THEN owner /= monWord.owner ELSE hash /= monWord.hash
    BY <1>4 DEF Install
  <2>2. PICK M \in monFree :
            /\ monFree' = monFree \ {M}
            /\ monitors' = [monitors EXCEPT ![M] =
                  NewMonitor(owner, IF monWord.kind = "thin" THEN monWord.count ELSE 0, hash)]
            /\ monWord' = Fat(M)
    BY <1>4 DEF Install
  <2> DEFINE count == IF monWord.kind = "thin" THEN monWord.count ELSE 0
  <2>3. M \in MonIds /\ count \in Nat /\ owner \in MonThreads \union {MonNone} /\ (owner = MonNone => count = 0)
        /\ (owner = MonNone <=> monWord.kind = "hash")
    BY <1>0, <1>4, <2>1, <2>2, MonWords, MonitorAssumption DEF MonTypeInv, MonWordIs
  <2>4. MonBecomes(M, owner, count, hash, 0, {})
    BY <1>0, <2>2, <2>3 DEF MonBecomes, MonFields, NewMonitor, MonTypeInv
  <2>5. ~monAborted'
    BY <1>4, <2>1
  <2>6. monWord'.kind = "fat" /\ monWord'.monitor = M /\ MonIsWord(monWord')
    BY <2>2, <2>3, MonWordKinds
  <2> HIDE DEF count
  <2>7. MonTypeInv'
    BY <1>0, <2>2, <2>3, <2>4, <2>6 DEF MonTypeInv, MonBecomes, MonPcs, MonIsWord
  <2>8. \A u \in MonThreads : monPc[u] \notin MonFatPcs /\ monPc[u] # "waitRead"
    BY <1>0, <2>1 DEF MonReadIsCurrent
  <2>9. MonReadIsCurrent'
    <3>1. ASSUME NEW u \in MonThreads, monPc'[u] = "waitRead"
          PROVE  monitors'[M].owner = u
      BY <3>1, <1>1, <2>4, <2>8 DEF MonBecomes
    <3>2. \A u \in MonThreads \ {t} : monPc[u] \notin {"enterStore", "exitStore", "inflateOwn"}
      BY <1>0, <1>4, <2>1 DEF MonReadIsCurrent
    <3> QED BY <1>0, <1>1, <2>6, <2>8, <3>1, <3>2 DEF MonReadIsCurrent, MonFatPcs
  <2>10. /\ \A u \in MonThreads : ~MonInWait(u) /\ ~MonInWait(u)'
         /\ MonBlocked = {} /\ MonBlocked' = {} /\ MonWaiters = {} /\ MonWaiters' = {}
    BY <1>1, <2>8 DEF MonInWait, MonFatPcs, MonBlocked, MonWaiters
  <2>11. MonCounted'
    <3>1. /\ IsFiniteSet(MonBlocked') /\ IsFiniteSet(MonWaiters')
          /\ Cardinality(MonBlocked') = 0 /\ Cardinality(MonWaiters') = 0
      BY <2>10, FS_EmptySet
    <3>2. \A m \in MonIds : monWord' = Fat(m) => m = M
      BY <2>6 DEF Fat
    <3>3. \A m \in MonIds : \A c \in monitors'[m].contenders : monPc'[c] = "contending" /\ monWord' = Fat(m)
      BY <2>1, <2>4, MonWordKinds DEF MonBecomes, MonInv, MonCounted
    <3> QED BY <2>4, <3>1, <3>2, <3>3 DEF MonCounted, MonBecomes
  <2>12. MonOwner' = MonOwner /\ MonOwner = owner /\ (owner # MonNone => MonCount' = MonCount)
    BY <1>4, <2>1, <2>3, <2>4, <2>6 DEF MonOwner, MonCount, MonBecomes, count
  <2>13. \A u \in MonThreads : MonHolds(u)' <=> MonHolds(u)
    BY <1>1, <2>8, <2>10 DEF MonHolds, MonFatPcs
  <2>14. MonOwnership'
    <3>1. ASSUME NEW u \in MonThreads, monDepth'[u] > 0, ~MonInWait(u)'
          PROVE  MonCount' = monDepth'[u] - 1
      <4>1. MonHolds(u) /\ MonOwner = u /\ MonCount = monDepth[u] - 1
        BY <3>1, <1>0, <2>10 DEF MonHolds, MonOwnership
      <4> QED BY <4>1, <2>12, MonitorAssumption
    <3>2. \A m \in MonIds : monitors'[m].owner = MonNone => monitors'[m].count = 0
      BY <1>0, <2>3, <2>4 DEF MonOwnership, MonBecomes
    <3> QED BY <3>1, <3>2, <1>0, <2>10, <2>12, <2>13 DEF MonOwnership
  <2>15. MonHashKept'
    BY <1>0, <1>4, <2>1, <2>4, <2>6, MonitorAssumption DEF MonHashKept, MonHashNow, MonBecomes
  <2> QED BY <1>2, <2>5, <2>7, <2>9, <2>11, <2>14, <2>15 DEF MonInv
<1> QED BY <1>3, <1>4

\* The three ways to inflate.
LEMMA MonInflateSteps ==
  ASSUME MonInv, NEW t \in MonThreads, MonInflateOwn(t) \/ MonInflateHash(t) \/ MonInflateOther(t)
  PROVE  MonInv'
<1>0. /\ MonTypeInv /\ MonReturns /\ MonReadIsCurrent /\ DOMAIN monSuspenders = MonThreads
  BY DEF MonInv, MonTypeInv
<1>1. CASE MonInflateOwn(t)
  <2>1. PICK h \in (IF monBack[t] = "hash" THEN MonHashes ELSE {0}) : Install(t, h)
    BY <1>1 DEF MonInflateOwn
  <2>2. /\ monPc[t] = "inflateOwn" /\ monPc' = [monPc EXCEPT ![t] = monBack[t]]
        /\ UNCHANGED <<monAt, monBack, monKeep, monDepth, monHashed, monSuspenders>>
    BY <1>1 DEF MonInflateOwn, MonGo, monWaiting, monHistory
  <2>3. monBack[t] \in {"enter", "hash", "waitRead"} /\ monWord.kind = "thin" /\ monWord.owner = t
    BY <1>0, <2>2 DEF MonReturns, MonReadIsCurrent
  <2>4. \A u \in MonThreads \ {t} : monPc[u] \notin {"enterStore", "exitStore", "inflateOwn"}
    BY <1>0, <2>3 DEF MonReadIsCurrent
  <2>5. h \in MonHashes \union {0}
    BY <2>1
  <2> QED BY <1>0, <2>1, <2>2, <2>3, <2>4, <2>5, MonInstallKeeps
<1>2. CASE MonInflateHash(t)
  <2>1. /\ monPc[t] = "inflateHash" /\ monPc' = [monPc EXCEPT ![t] = "enter"]
        /\ UNCHANGED <<monAt, monBack, monKeep, monDepth, monHashed, monSuspenders>>
        /\ Install(MonNone, monAt[t].hash)
    BY <1>2 DEF MonInflateHash, MonGo, monWaiting, monHistory
  <2>2. monBack[t] = "enter" /\ monAt[t].kind = "hash" /\ (monWord = monAt[t] \/ monWord.kind = "fat")
    BY <1>0, <2>1 DEF MonReturns, MonReadIsCurrent
  <2>3. monAt[t].hash \in MonHashes \union {0}
    BY <2>2, MonWords DEF MonWordIs
  <2>4. monWord.kind # "thin" /\ monWord.kind # "unlocked" /\ (monWord.kind = "hash" => monAt[t].hash = monWord.hash)
    BY <2>2
  <2> QED BY <1>0, <2>1, <2>2, <2>3, <2>4, MonInstallKeeps
<1>3. CASE MonInflateOther(t)
  <2> DEFINE owner == monAt[t].owner
  <2>1. /\ monPc[t] = "inflating" /\ monPc' = [monPc EXCEPT ![t] = monBack[t]]
        /\ monPc[owner] \in MonSafe
        /\ UNCHANGED <<monAt, monBack, monKeep, monDepth, monHashed>>
        /\ DOMAIN monSuspenders' = MonThreads
    BY <1>0, <1>3 DEF MonInflateOther, MonLeave, MonGo, monWaiting, monHistory
  <2>2. monBack[t] \in {"enter", "hash"}
    BY <1>0, <2>1 DEF MonReturns
  <2>3. CASE monWord.kind = "thin" /\ monWord.owner = owner
    <3>1. PICK h \in (IF monBack[t] = "hash" THEN MonHashes ELSE {0}) : Install(owner, h)
      BY <1>3, <2>3 DEF MonInflateOther
    <3>2. \A u \in MonThreads \ {t} : monPc[u] \notin {"enterStore", "exitStore", "inflateOwn"}
      BY <1>0, <2>1, <2>3 DEF MonReadIsCurrent, MonSafe
    <3>3. h \in MonHashes \union {0}
      BY <3>1
    <3> HIDE DEF owner
    <3> QED BY <2>1, <2>2, <2>3, <3>1, <3>2, <3>3, MonInstallKeeps
  <2>4. CASE ~(monWord.kind = "thin" /\ monWord.owner = owner)
    <3>1. UNCHANGED <<monShared, monAborted>>
      BY <1>3, <2>4 DEF MonInflateOther
    <3>2. CASE Install(owner, 0)
      <4>1. monWord.kind = "fat"
        BY <3>1, <3>2, MonWords, MonWordKinds DEF Install, monShared, MonWordIs, MonInv, MonTypeInv
      <4> HIDE DEF owner
      <4> QED BY <2>1, <2>2, <3>1, <4>1, MonInstallKeeps
    <3>3. CASE ~Install(owner, 0)
      <4> HIDE DEF owner
      <4> QED BY <2>1, <2>2, <3>1, <3>3, MonInstallKeeps
    <3> QED BY <3>2, <3>3
  <2> QED BY <2>3, <2>4
<1> QED BY <1>1, <1>2, <1>3

\* Deflation finds nobody in the monitor: every thread that gave up mutator_lock_ inside it is
\* counted by num_waiters_.
LEMMA MonDeflateKeeps ==
  ASSUME MonInv, MonDeflate
  PROVE  MonInv'
<1> DEFINE M == monWord.monitor
           old == monitors[M]
<1>0. /\ MonTypeInv /\ MonReturns /\ MonReadIsCurrent /\ MonOwnership /\ MonHashKept /\ ~monAborted
  BY DEF MonInv
<1>1. /\ \A t \in MonThreads : monPc[t] \in MonSafe
      /\ monWord.kind = "fat" /\ Deflatable(old) /\ monWord' = DeflatedWord(old)
      /\ monFree' = monFree \union {M}
      /\ monitors' = [monitors EXCEPT ![M] = NewMonitor(MonNone, 0, 0)]
      /\ UNCHANGED <<monPc, monAt, monBack, monKeep, monSuspenders, monAborted, monDepth, monHashed>>
  BY DEF MonDeflate, monWaiting, monHistory
<1>2. M \in MonIds /\ monWord = Fat(M)
  BY <1>1, MonWords DEF MonWordIs
<1>3. /\ DOMAIN old = MonFields /\ old.owner \in MonThreads \union {MonNone} /\ old.count \in Nat
      /\ old.hash \in MonHashes \union {0} /\ (old.owner = MonNone => old.count = 0)
      /\ MonOwner = old.owner /\ MonCount = old.count
  BY <1>0, <1>1, <1>2 DEF MonTypeInv, MonOwnership, MonOwner, MonCount
<1>4. MonBlocked = {} /\ MonWaiters = {}
  <2>1. Cardinality(MonBlocked) + Cardinality(MonWaiters) = 0
    BY <1>1, <1>2 DEF MonInv, MonCounted, Deflatable
  <2>2. Cardinality(MonBlocked) = 0 /\ Cardinality(MonWaiters) = 0
    BY <2>1, FS_CardinalityType DEF MonInv, MonCounted
  <2> QED BY <2>2, FS_EmptySet DEF MonInv, MonCounted
<1>5. \A t \in MonThreads : monPc[t] \in {"run", "suspend", "inflating"} /\ ~MonInWait(t)
  BY <1>0, <1>1, <1>4 DEF MonSafe, MonBlocked, MonWaiters, MonInWait, MonReturns
<1>6. MonBecomes(M, MonNone, 0, 0, 0, {})
  BY <1>0, <1>1, <1>2 DEF MonBecomes, MonFields, NewMonitor, MonTypeInv
<1>7. /\ old.owner # MonNone => /\ monWord'.kind = "thin" /\ monWord'.owner = old.owner /\ monWord'.count = old.count
                                /\ MonIsWord(monWord') /\ old.hash = 0
      /\ old.owner = MonNone /\ old.hash # 0 => monWord'.kind = "hash" /\ monWord'.hash = old.hash /\ MonIsWord(monWord')
      /\ old.owner = MonNone /\ old.hash = 0 => monWord'.kind = "unlocked" /\ MonIsWord(monWord')
  BY <1>1, <1>3, MonWordKinds DEF DeflatedWord, Deflatable
<1> HIDE DEF M, old
<1>8. MonTypeInv' /\ ~monAborted'
  <2>1. MonIsWord(monWord')
    BY <1>7
  <2>2. /\ monFree' \in SUBSET MonIds
        /\ \A t \in MonThreads : MonIsWord(monAt[t])'
    BY <1>0, <1>1, <1>2 DEF MonTypeInv, MonIsWord
  <2> QED BY <1>0, <1>1, <1>2, <1>6, <2>1, <2>2 DEF MonTypeInv, MonBecomes
<1>9. MonReturns' /\ MonReadIsCurrent'
  BY <1>0, <1>1, <1>5 DEF MonReturns, MonReadIsCurrent, MonFatPcs
<1>10. \A t \in MonThreads : ~MonInWait(t)' /\ (MonHolds(t)' <=> MonHolds(t))
  BY <1>1, <1>5 DEF MonInWait, MonHolds
<1>11. MonOwner' = MonOwner /\ (MonOwner # MonNone => MonCount' = MonCount)
  BY <1>3, <1>7 DEF MonOwner, MonCount
<1>12. MonOwnership'
  <2>1. ASSUME NEW u \in MonThreads, monDepth'[u] > 0
        PROVE  MonCount' = monDepth'[u] - 1
    <3>1. MonHolds(u) /\ MonOwner = u /\ MonCount = monDepth[u] - 1
      BY <2>1, <1>0, <1>1, <1>5 DEF MonHolds, MonOwnership
    <3> QED BY <3>1, <1>1, <1>11, MonitorAssumption
  <2>2. \A m \in MonIds : monitors'[m].owner = MonNone => monitors'[m].count = 0
    BY <1>0, <1>6 DEF MonOwnership, MonBecomes
  <2> QED BY <2>1, <2>2, <1>0, <1>10, <1>11 DEF MonOwnership
<1>13. MonHashKept'
  BY <1>0, <1>1, <1>3, <1>7, MonitorAssumption DEF MonHashKept, MonHashNow, old, M
<1>14. MonCounted'
  <2>1. MonBlocked' = MonBlocked /\ MonWaiters' = MonWaiters
    BY <1>1 DEF MonBlocked, MonWaiters, MonInWait
  <2>2. \A m \in MonIds : monWord' # Fat(m)
    BY <1>7, MonWordKinds
  <2>3. \A m \in MonIds : \A c \in monitors'[m].contenders : monPc'[c] = "contending" /\ monWord' = Fat(m)
    BY <1>2, <1>6, MonWordKinds DEF MonInv, MonCounted, MonBecomes
  <2> QED BY <2>1, <2>2, <2>3, MonCountedFrame
<1> QED BY <1>8, <1>9, <1>12, <1>13, <1>14 DEF MonInv

\* IdentityHashCode finds the code in the word or the monitor, or puts it there.
LEMMA MonHashReadKeeps ==
  ASSUME MonInv, NEW t \in MonThreads, MonHashRead(t), monWord.kind # "thin"
  PROVE  MonInv'
<1>0. /\ MonTypeInv /\ MonReturns /\ MonReadIsCurrent /\ MonOwnership /\ MonHashKept /\ ~monAborted
      /\ monPc \in [MonThreads -> MonPcs]
  BY DEF MonInv, MonTypeInv
<1>1. /\ monPc[t] = "hash" /\ monPc' = [monPc EXCEPT ![t] = "run"] /\ monAt' = [monAt EXCEPT ![t] = monWord]
      /\ UNCHANGED <<monFree, monBack, monKeep, monSuspenders, monAborted, monDepth>>
  BY DEF MonHashRead, MonGo, MonRead, monWaiting
<1>2. monPc'[t] = "run" /\ \A u \in MonThreads \ {t} : monPc'[u] = monPc[u] /\ monAt'[u] = monAt[u]
  BY <1>0, <1>1 DEF MonTypeInv
\* The hash code h is the object's from now on; the owner and the queues stay.
<1>3. \E h \in MonHashes :
        /\ monHashed' = monHashed \union {h} /\ MonHashNow' = h /\ (monHashed # {} => h = MonHashNow)
        /\ MonIsWord(monWord')
        /\ monWord' = monWord \/ (monWord.kind = "unlocked" /\ monWord'.kind = "hash")
        /\ DOMAIN monitors' = MonIds
        /\ \A m \in MonIds : /\ DOMAIN monitors'[m] = MonFields
                             /\ monitors'[m].owner = monitors[m].owner
                             /\ monitors'[m].count = monitors[m].count
                             /\ monitors'[m].waiters = monitors[m].waiters
                             /\ monitors'[m].contenders = monitors[m].contenders
                             /\ monitors'[m].hash \in MonHashes \union {0}
  <2>0. \A g \in monHashed : g = MonHashNow /\ g # 0
    BY <1>0, MonitorAssumption DEF MonHashKept
  <2>1. CASE monWord.kind = "unlocked"
    <3>1. PICK h \in MonHashes : monWord' = HashWord(h) /\ monHashed' = monHashed \union {h} /\ UNCHANGED monitors
      BY <2>1 DEF MonHashRead
    <3>2. monWord'.kind = "hash" /\ monWord'.hash = h /\ MonIsWord(monWord')
      BY <3>1, MonWordKinds
    <3>3. MonHashNow' = h /\ monHashed = {}
      BY <2>0, <2>1, <3>2 DEF MonHashNow
    <3> QED BY <2>1, <3>1, <3>2, <3>3, <1>0 DEF MonTypeInv
  <2>2. CASE monWord.kind = "hash"
    <3>1. monHashed' = monHashed \union {monWord.hash} /\ UNCHANGED <<monWord, monitors>>
      BY <2>2 DEF MonHashRead
    <3>2. monWord.hash \in MonHashes /\ MonIsWord(monWord)
      BY <2>2, MonWords DEF MonWordIs
    <3>3. MonHashNow' = monWord.hash /\ MonHashNow = monWord.hash
      BY <2>2, <3>1 DEF MonHashNow
    <3>4. MonIsWord(monWord')
      BY <3>1, <3>2
    <3> QED BY <3>1, <3>2, <3>3, <3>4, <1>0 DEF MonTypeInv
  <2>3. CASE monWord.kind = "fat"
    <3> DEFINE M == monWord.monitor
    <3>1. PICK g \in MonHashes :
             /\ monitors' = [monitors EXCEPT ![M].hash = IF monitors[M].hash = 0 THEN g ELSE monitors[M].hash]
             /\ monHashed' = monHashed \union {IF monitors[M].hash = 0 THEN g ELSE monitors[M].hash}
             /\ UNCHANGED monWord
      BY <2>3 DEF MonHashRead
    <3> DEFINE h == IF monitors[M].hash = 0 THEN g ELSE monitors[M].hash
    <3>2. M \in MonIds /\ MonIsWord(monWord)
      BY <2>3, MonWords DEF MonWordIs
    <3>3. h \in MonHashes
      BY <1>0, <3>2 DEF MonTypeInv
    <3>4. MonBecomes(M, monitors[M].owner, monitors[M].count, h, monitors[M].waiters, monitors[M].contenders)
      BY <1>0, <3>1, <3>2 DEF MonTypeInv, MonFields, MonBecomes
    <3>5. MonHashNow = monitors[M].hash /\ MonHashNow' = h /\ (monHashed # {} => h = MonHashNow)
      <4>1. MonHashNow = monitors[M].hash
        BY <2>3 DEF MonHashNow
      <4>2. MonHashNow' = monitors'[M].hash
        BY <2>3, <3>1 DEF MonHashNow
      <4> QED BY <4>1, <4>2, <3>4, <2>0 DEF MonBecomes
    <3>6. MonIsWord(monWord')
      BY <3>1, <3>2
    <3>7. monHashed' = monHashed \union {h}
      BY <3>1
    <3> HIDE DEF h
    <3>8. \A m \in MonIds : /\ DOMAIN monitors'[m] = MonFields
                             /\ monitors'[m].owner = monitors[m].owner
                             /\ monitors'[m].count = monitors[m].count
                             /\ monitors'[m].waiters = monitors[m].waiters
                             /\ monitors'[m].contenders = monitors[m].contenders
                             /\ monitors'[m].hash \in MonHashes \union {0}
      BY <1>0, <3>3, <3>4 DEF MonBecomes, MonTypeInv
    <3> QED BY <3>1, <3>3, <3>4, <3>5, <3>6, <3>7, <3>8 DEF MonBecomes
  <2> QED BY <2>1, <2>2, <2>3, MonWords DEF MonWordIs
<1>4. MonTypeInv' /\ ~monAborted'
  <2>0. \A u \in MonThreads : MonIsWord(monAt'[u])
    BY <1>0, <1>1, <1>2, MonWords DEF MonTypeInv
  <2>1. \A u \in MonThreads : MonIsWord(monAt[u])'
    BY <2>0 DEF MonIsWord
  <2>2. monPc' \in [MonThreads -> MonPcs] /\ monAt' = [u \in MonThreads |-> monAt'[u]]
    BY <1>0, <1>1 DEF MonTypeInv, MonPcs
  <2> QED BY <1>0, <1>1, <1>3, <2>1, <2>2 DEF MonTypeInv
<1>5. MonReturns'
  BY <1>0, <1>1, <1>2 DEF MonReturns
<1>6. MonReadIsCurrent'
  <2>1. CASE monWord' = monWord
    BY <2>1, <1>0, <1>2, <1>3, MonWords DEF MonReadIsCurrent, MonFatPcs, MonWordIs
  <2>2. CASE monWord.kind = "unlocked"
    <3>1. \A u \in MonThreads : monPc[u] \notin MonFatPcs \union {"enterStore", "exitStore", "inflateOwn", "waitRead", "inflateHash"}
      BY <2>2, <1>0 DEF MonReadIsCurrent
    <3> QED BY <3>1, <1>0, <1>2 DEF MonReadIsCurrent, MonFatPcs
  <2> QED BY <2>1, <2>2, <1>3
<1>7. \A u \in MonThreads : (MonInWait(u)' <=> MonInWait(u)) /\ (MonHolds(u)' <=> MonHolds(u))
  BY <1>1, <1>2 DEF MonInWait, MonHolds
<1>8. MonOwner' = MonOwner /\ (MonOwner # MonNone => MonCount' = MonCount)
  BY <1>3, MonWords DEF MonOwner, MonCount, MonWordIs
<1>9. MonOwnership'
  <2>1. ASSUME NEW u \in MonThreads, monDepth'[u] > 0, ~MonInWait(u)'
        PROVE  MonCount' = monDepth'[u] - 1
    <3>1. MonHolds(u) /\ MonOwner = u /\ MonCount = monDepth[u] - 1
      BY <2>1, <1>0, <1>1, <1>7 DEF MonHolds, MonOwnership
    <3> QED BY <3>1, <1>1, <1>8, MonitorAssumption
  <2> QED BY <2>1, <1>0, <1>1, <1>3, <1>7, <1>8 DEF MonOwnership
<1>10. MonHashKept'
  BY <1>0, <1>3 DEF MonHashKept
<1>11. MonCounted'
  <2>1. MonBlocked' = MonBlocked /\ MonWaiters' = MonWaiters
    BY <1>1, <1>2, <1>7 DEF MonBlocked, MonWaiters
  <2>2. \A m \in MonIds : monWord' = Fat(m) => monWord = Fat(m) /\ monitors'[m].waiters = monitors[m].waiters
    BY <1>3, MonWordKinds
  <2>3. \A m \in MonIds : \A c \in monitors'[m].contenders : monPc'[c] = "contending" /\ monWord' = Fat(m)
    BY <1>0, <1>1, <1>2, <1>3, MonWordKinds DEF MonInv, MonCounted, MonTypeInv
  <2> QED BY <2>1, <2>2, <2>3, MonCountedFrame
<1> QED BY <1>4, <1>5, <1>6, <1>9, <1>10, <1>11 DEF MonInv

\* The owner goes on with the monitor's count lowered, or leaves it and signals a contender.
LEMMA MonExitFatKeeps ==
  ASSUME MonInv, NEW t \in MonThreads, MonExitFat(t), monitors[monAt[t].monitor].owner = t
  PROVE  MonInv'
<1> DEFINE M == monAt[t].monitor
           old == monitors[M]
           last == old.count = 0
<1>0. /\ MonTypeInv /\ MonReturns /\ MonReadIsCurrent /\ MonOwnership /\ MonHashKept /\ ~monAborted
      /\ monPc \in [MonThreads -> MonPcs] /\ monDepth \in [MonThreads -> Nat]
  BY DEF MonInv, MonTypeInv
<1>1. /\ monPc[t] = "exitFat" /\ MonDeeper(t, -1)
      /\ UNCHANGED <<monWord, monFree, monAt, monBack, monKeep, monSuspenders, monAborted, monHashed>>
  BY DEF MonExitFat, monWaiting
<1>2. /\ monWord.kind = "fat" /\ M \in MonIds /\ monWord = Fat(M) /\ monWord.monitor = M
      /\ MonOwner = old.owner /\ MonCount = old.count
      /\ \A m \in MonIds : monWord = Fat(m) => m = M
  BY <1>1, MonFatFacts DEF MonFatPcs
<1>3. /\ DOMAIN monitors = MonIds /\ DOMAIN old = MonFields /\ old.owner = t /\ old.count \in Nat
      /\ old.contenders \in SUBSET MonThreads
      /\ \A m \in MonIds : \A c \in monitors[m].contenders : monPc[c] = "contending" /\ monWord = Fat(m)
  BY <1>0, <1>2 DEF MonTypeInv, MonInv, MonCounted
<1>4. MonHolds(t) /\ ~MonInWait(t) /\ monDepth[t] > 0 /\ old.count = monDepth[t] - 1
  BY <1>0, <1>1, <1>2 DEF MonOwnership, MonHolds, MonInWait
<1>5. monDepth' = [monDepth EXCEPT ![t] = @ - 1] /\ monDepth' \in [MonThreads -> Nat]
  <2>1. monDepth[t] + (-1) = monDepth[t] - 1 /\ monDepth[t] - 1 \in Nat
    BY <1>0, <1>4
  <2> QED BY <1>0, <1>1, <2>1 DEF MonDeeper
\* The contender that goes on, if any.
<1>6. \E sig \in SUBSET old.contenders :
         /\ MonBecomes(M, IF last THEN MonNone ELSE t, IF last THEN 0 ELSE old.count - 1, old.hash, old.waiters,
                       old.contenders \ sig)
         /\ monPc' \in [MonThreads -> MonPcs] /\ monPc'[t] = "run"
         /\ \A u \in MonThreads \ {t} : monPc'[u] = IF u \in sig THEN "back" ELSE monPc[u]
  <2>1. CASE last
    <3>1. SignalContender(M, [old EXCEPT !.owner = MonNone], [monPc EXCEPT ![t] = "run"])
      BY <2>1, <1>3 DEF MonExitFat
    <3>2. CASE /\ monitors' = [monitors EXCEPT ![M] = [old EXCEPT !.owner = MonNone]]
               /\ monPc' = [monPc EXCEPT ![t] = "run"]
      <4>1. MonBecomes(M, MonNone, 0, old.hash, old.waiters, old.contenders \ {})
        BY <2>1, <3>2, <1>2, <1>3 DEF MonBecomes, MonFields
      <4>2. /\ monPc' \in [MonThreads -> MonPcs] /\ monPc'[t] = "run"
            /\ \A u \in MonThreads \ {t} : monPc'[u] = IF u \in {} THEN "back" ELSE monPc[u]
        BY <3>2, <1>0 DEF MonPcs
      <4>3. {} \in SUBSET old.contenders
        OBVIOUS
      <4> QED BY <2>1, <4>1, <4>2, <4>3
    <3>3. ASSUME NEW c \in [old EXCEPT !.owner = MonNone].contenders,
                 monitors' = [monitors EXCEPT ![M] = [[old EXCEPT !.owner = MonNone] EXCEPT !.contenders = @ \ {c}]],
                 monPc' = [[monPc EXCEPT ![t] = "run"] EXCEPT ![c] = "back"]
          PROVE  \E sig \in SUBSET old.contenders :
                    /\ MonBecomes(M, MonNone, 0, old.hash, old.waiters, old.contenders \ sig)
                    /\ monPc' \in [MonThreads -> MonPcs] /\ monPc'[t] = "run"
                    /\ \A u \in MonThreads \ {t} : monPc'[u] = IF u \in sig THEN "back" ELSE monPc[u]
      <4>0. c \in old.contenders /\ c \in MonThreads /\ c # t
        BY <3>3, <1>1, <1>2, <1>3 DEF MonFields
      <4>1. MonBecomes(M, MonNone, 0, old.hash, old.waiters, old.contenders \ {c})
        BY <2>1, <3>3, <1>2, <1>3 DEF MonBecomes, MonFields
      <4>2. /\ monPc' \in [MonThreads -> MonPcs] /\ monPc'[t] = "run"
            /\ \A u \in MonThreads \ {t} : monPc'[u] = IF u \in {c} THEN "back" ELSE monPc[u]
        BY <3>3, <4>0, <1>0 DEF MonPcs
      <4> QED BY <4>0, <4>1, <4>2
    <3> QED BY <2>1, <3>1, <3>2, <3>3 DEF SignalContender
  <2>2. CASE ~last
    <3>1. /\ monitors' = [monitors EXCEPT ![M].count = @ - 1]
          /\ monPc' = [monPc EXCEPT ![t] = "run"]
      BY <2>2, <1>3 DEF MonExitFat
    <3>2. MonBecomes(M, t, old.count - 1, old.hash, old.waiters, old.contenders \ {})
      BY <3>1, <1>2, <1>3 DEF MonBecomes, MonFields
    <3>3. /\ monPc' \in [MonThreads -> MonPcs] /\ monPc'[t] = "run"
          /\ \A u \in MonThreads \ {t} : monPc'[u] = IF u \in {} THEN "back" ELSE monPc[u]
      BY <3>1, <1>0 DEF MonPcs
    <3>4. {} \in SUBSET old.contenders
      OBVIOUS
    <3> QED BY <2>2, <3>2, <3>3, <3>4
  <2> QED BY <2>1, <2>2
<1>7. PICK sig \in SUBSET old.contenders :
         /\ MonBecomes(M, IF last THEN MonNone ELSE t, IF last THEN 0 ELSE old.count - 1, old.hash, old.waiters,
                       old.contenders \ sig)
         /\ monPc' \in [MonThreads -> MonPcs] /\ monPc'[t] = "run"
         /\ \A u \in MonThreads \ {t} : monPc'[u] = IF u \in sig THEN "back" ELSE monPc[u]
  BY <1>6
<1>8. \A u \in MonThreads \ {t} : monPc'[u] = monPc[u] \/ (monPc[u] = "contending" /\ monPc'[u] = "back")
  BY <1>2, <1>3, <1>7
<1>9. MonTypeInv' /\ ~monAborted'
  <2>1. \A u \in MonThreads : MonIsWord(monAt[u])'
    BY <1>0, <1>1 DEF MonTypeInv, MonIsWord
  <2>2. MonIsWord(monWord)'
    BY <1>0, <1>1 DEF MonTypeInv, MonIsWord
  <2>3. \A m \in MonIds :
          /\ DOMAIN monitors'[m] = MonFields
          /\ monitors'[m].owner \in MonThreads \union {MonNone}
          /\ monitors'[m].count \in Nat
          /\ monitors'[m].hash \in MonHashes \union {0}
          /\ monitors'[m].contenders \in SUBSET MonThreads
    BY <1>0, <1>2, <1>3, <1>7 DEF MonTypeInv, MonBecomes
  <2> QED BY <1>0, <1>1, <1>5, <1>7, <2>1, <2>2, <2>3 DEF MonTypeInv, MonBecomes
<1>10. MonReturns'
  BY <1>0, <1>1, <1>7, <1>8 DEF MonReturns
<1>11. MonReadIsCurrent'
  <2>1. \A u \in MonThreads \ {t} : monPc[u] # "waitRead"
    BY <1>0, <1>2, <1>3 DEF MonReadIsCurrent
  <2> QED BY <2>1, <1>0, <1>1, <1>2, <1>7, <1>8 DEF MonReadIsCurrent, MonFatPcs
<1>12. \A u \in MonThreads : MonInWait(u)' <=> MonInWait(u)
  BY <1>1, <1>7, <1>8 DEF MonInWait
<1>13. MonOwner' = (IF last THEN MonNone ELSE t) /\ MonCount' = (IF last THEN 0 ELSE old.count - 1)
  BY <1>1, <1>2, <1>7 DEF MonOwner, MonCount, MonBecomes
<1>14. MonOwnership'
  <2>1. \A u \in MonThreads \ {t} : MonHolds(u)' <=> MonHolds(u)
    BY <1>5, <1>8, <1>12 DEF MonHolds
  <2>2. \A u \in MonThreads \ {t} : ~MonHolds(u)
    BY <1>0, <1>2, <1>3 DEF MonOwnership
  <2>3. MonHolds(t)' <=> ~last
    BY <1>0, <1>4, <1>5, <1>7, <1>12 DEF MonHolds
  <2>4. \A u \in MonThreads : MonHolds(u)' <=> MonOwner' = u
    BY <2>1, <2>2, <2>3, <1>13, MonitorAssumption
  <2>5. ASSUME NEW u \in MonThreads, monDepth'[u] > 0, ~MonInWait(u)'
        PROVE  MonCount' = monDepth'[u] - 1
    <3>1. u = t /\ ~last
      BY <2>1, <2>2, <2>3, <2>5 DEF MonHolds
    <3> QED BY <3>1, <1>0, <1>4, <1>5, <1>13
  <2>6. ASSUME NEW u \in MonThreads, MonInWait(u)'
        PROVE  monDepth'[u] > 0 /\ monKeep'[u] = monDepth'[u] - 1
    BY <2>6, <1>0, <1>1, <1>4, <1>5, <1>12 DEF MonOwnership
  <2>7. \A m \in MonIds : monitors'[m].owner = MonNone => monitors'[m].count = 0
    BY <1>0, <1>7, MonitorAssumption DEF MonOwnership, MonBecomes
  <2> QED BY <2>4, <2>5, <2>6, <2>7 DEF MonOwnership
<1>15. MonHashKept'
  BY <1>0, <1>1, <1>2, <1>7 DEF MonHashKept, MonHashNow, MonBecomes
<1>16. MonCounted'
  <2>1. MonBlocked' = MonBlocked /\ MonWaiters' = MonWaiters
    BY <1>1, <1>7, <1>8, <1>12 DEF MonBlocked, MonWaiters
  <2>2. \A m \in MonIds : monWord' = Fat(m) => monWord = Fat(m) /\ monitors'[m].waiters = monitors[m].waiters
    BY <1>1, <1>2, <1>7 DEF MonBecomes
  <2>3. ASSUME NEW m \in MonIds, NEW c \in monitors'[m].contenders
        PROVE  monPc'[c] = "contending" /\ monWord' = Fat(m)
    <3>1. m = M /\ c \in old.contenders \ sig
      BY <1>2, <1>3, <1>7, <2>3 DEF MonBecomes
    <3> QED BY <3>1, <1>1, <1>2, <1>3, <1>7
  <2> QED BY <2>1, <2>2, <2>3, MonCountedFrame
<1> QED BY <1>9, <1>10, <1>11, <1>14, <1>15, <1>16 DEF MonInv

\* Object.wait: the owner gives the monitor up with all its levels.
LEMMA MonWaitFatKeeps ==
  ASSUME MonInv, NEW t \in MonThreads, MonWaitFat(t), monitors[monAt[t].monitor].owner = t
  PROVE  MonInv'
<1> DEFINE M == monAt[t].monitor
           old == monitors[M]
           pc == IF monInterrupted[t] THEN "woken" ELSE "waiting"
           new == [old EXCEPT !.owner = MonNone, !.count = 0, !.waiters = @ + 1,
                              !.waitSet = Append(@, t)]
<1>0. /\ MonTypeInv /\ MonReturns /\ MonReadIsCurrent /\ MonOwnership /\ MonHashKept /\ ~monAborted
      /\ monPc \in [MonThreads -> MonPcs] /\ monDepth \in [MonThreads -> Nat]
  BY DEF MonInv, MonTypeInv
<1>1. /\ monPc[t] = "wait" /\ pc \in {"woken", "waiting"}
      /\ SignalContender(M, new, [monPc EXCEPT ![t] = pc])
      /\ monKeep' = [monKeep EXCEPT ![t] = old.count]
      /\ monBack' = [monBack EXCEPT ![t] = "rewait"]
      /\ UNCHANGED <<monWord, monFree, monAt, monSuspenders, monAborted, monDepth, monHashed>>
  BY DEF MonWaitFat, monHistory
<1>2. /\ monWord.kind = "fat" /\ M \in MonIds /\ monWord = Fat(M) /\ monWord.monitor = M
      /\ MonOwner = old.owner /\ MonCount = old.count
      /\ \A m \in MonIds : monWord = Fat(m) => m = M
  BY <1>1, MonFatFacts DEF MonFatPcs
<1>3. /\ DOMAIN monitors = MonIds /\ DOMAIN old = MonFields /\ old.owner = t /\ old.count \in Nat
      /\ old.contenders \in SUBSET MonThreads
      /\ \A m \in MonIds : \A c \in monitors[m].contenders : monPc[c] = "contending" /\ monWord = Fat(m)
  BY <1>0, <1>2 DEF MonTypeInv, MonInv, MonCounted
<1>4. MonHolds(t) /\ ~MonInWait(t) /\ monDepth[t] > 0 /\ old.count = monDepth[t] - 1
  BY <1>0, <1>1, <1>2 DEF MonOwnership, MonHolds, MonInWait
<1>5. /\ DOMAIN new = MonFields /\ new.owner = MonNone /\ new.count = 0 /\ new.hash = old.hash
      /\ new.waiters = old.waiters + 1 /\ new.contenders = old.contenders
  BY <1>3 DEF MonFields
<1> HIDE DEF new, pc
<1>6. \E sig \in SUBSET old.contenders :
         /\ MonBecomes(M, MonNone, 0, old.hash, old.waiters + 1, old.contenders \ sig)
         /\ monPc' \in [MonThreads -> MonPcs] /\ monPc'[t] = pc
         /\ \A u \in MonThreads \ {t} : monPc'[u] = IF u \in sig THEN "back" ELSE monPc[u]
  <2>1. CASE monitors' = [monitors EXCEPT ![M] = new] /\ monPc' = [monPc EXCEPT ![t] = pc]
    <3>1. MonBecomes(M, MonNone, 0, old.hash, old.waiters + 1, old.contenders \ {})
      BY <2>1, <1>2, <1>3, <1>5 DEF MonBecomes
    <3>2. /\ monPc' \in [MonThreads -> MonPcs] /\ monPc'[t] = pc
          /\ \A u \in MonThreads \ {t} : monPc'[u] = IF u \in {} THEN "back" ELSE monPc[u]
      BY <2>1, <1>0, <1>1 DEF MonPcs
    <3>3. {} \in SUBSET old.contenders
      OBVIOUS
    <3> QED BY <3>1, <3>2, <3>3
  <2>2. ASSUME NEW c \in new.contenders,
               monitors' = [monitors EXCEPT ![M] = [new EXCEPT !.contenders = @ \ {c}]],
               monPc' = [[monPc EXCEPT ![t] = pc] EXCEPT ![c] = "back"]
        PROVE  \E sig \in SUBSET old.contenders :
                  /\ MonBecomes(M, MonNone, 0, old.hash, old.waiters + 1, old.contenders \ sig)
                  /\ monPc' \in [MonThreads -> MonPcs] /\ monPc'[t] = pc
                  /\ \A u \in MonThreads \ {t} : monPc'[u] = IF u \in sig THEN "back" ELSE monPc[u]
    <3>1. c \in old.contenders /\ c \in MonThreads /\ c # t
      BY <2>2, <1>1, <1>2, <1>3, <1>5
    <3>2. MonBecomes(M, MonNone, 0, old.hash, old.waiters + 1, old.contenders \ {c})
      BY <2>2, <1>2, <1>3, <1>5 DEF MonBecomes, MonFields
    <3>3. /\ monPc' \in [MonThreads -> MonPcs] /\ monPc'[t] = pc
          /\ \A u \in MonThreads \ {t} : monPc'[u] = IF u \in {c} THEN "back" ELSE monPc[u]
      BY <2>2, <3>1, <1>0, <1>1 DEF MonPcs
    <3> QED BY <3>1, <3>2, <3>3
  <2> QED BY <1>1, <2>1, <2>2 DEF SignalContender
<1>7. PICK sig \in SUBSET old.contenders :
         /\ MonBecomes(M, MonNone, 0, old.hash, old.waiters + 1, old.contenders \ sig)
         /\ monPc' \in [MonThreads -> MonPcs] /\ monPc'[t] = pc
         /\ \A u \in MonThreads \ {t} : monPc'[u] = IF u \in sig THEN "back" ELSE monPc[u]
  BY <1>6
<1>8. \A u \in MonThreads \ {t} : /\ monPc'[u] = monPc[u] \/ (monPc[u] = "contending" /\ monPc'[u] = "back")
                                  /\ monBack'[u] = monBack[u] /\ monKeep'[u] = monKeep[u]
  BY <1>0, <1>1, <1>2, <1>3, <1>7 DEF MonTypeInv
<1>9. /\ monBack'[t] = "rewait" /\ monKeep'[t] = monDepth[t] - 1
      /\ monKeep' \in [MonThreads -> Nat] /\ monBack' \in [MonThreads -> {"run", "enter", "hash", "waitRead", "rewait"}]
  BY <1>0, <1>1, <1>3, <1>4 DEF MonTypeInv
<1>10. MonTypeInv' /\ ~monAborted'
  <2>1. \A u \in MonThreads : MonIsWord(monAt[u])'
    BY <1>0, <1>1 DEF MonTypeInv, MonIsWord
  <2>2. MonIsWord(monWord)'
    BY <1>0, <1>1 DEF MonTypeInv, MonIsWord
  <2>3. \A m \in MonIds :
          /\ DOMAIN monitors'[m] = MonFields
          /\ monitors'[m].owner \in MonThreads \union {MonNone}
          /\ monitors'[m].count \in Nat
          /\ monitors'[m].hash \in MonHashes \union {0}
          /\ monitors'[m].contenders \in SUBSET MonThreads
    BY <1>0, <1>2, <1>3, <1>7 DEF MonTypeInv, MonBecomes
  <2> QED BY <1>0, <1>1, <1>7, <1>9, <2>1, <2>2, <2>3 DEF MonTypeInv, MonBecomes
<1>11. MonReturns'
  BY <1>0, <1>1, <1>7, <1>8, <1>9 DEF MonReturns
<1>12. MonReadIsCurrent'
  <2>1. \A u \in MonThreads \ {t} : monPc[u] # "waitRead"
    BY <1>0, <1>2, <1>3 DEF MonReadIsCurrent
  <2> QED BY <2>1, <1>0, <1>1, <1>2, <1>7, <1>8 DEF MonReadIsCurrent, MonFatPcs
<1>13. (\A u \in MonThreads \ {t} : MonInWait(u)' <=> MonInWait(u)) /\ MonInWait(t)'
  BY <1>1, <1>7, <1>8, <1>9 DEF MonInWait
<1>14. MonOwner' = MonNone
  BY <1>1, <1>2, <1>7 DEF MonOwner, MonBecomes
<1>15. MonOwnership'
  <2>1. \A u \in MonThreads \ {t} : (MonHolds(u)' <=> MonHolds(u)) /\ ~MonHolds(u)
    BY <1>0, <1>1, <1>2, <1>3, <1>8, <1>13 DEF MonHolds, MonOwnership
  <2>2. ~MonHolds(t)'
    BY <1>1, <1>7, <1>13 DEF MonHolds
  <2>3. \A u \in MonThreads : ~MonHolds(u)'
    BY <2>1, <2>2
  <2>4. \A u \in MonThreads : MonHolds(u)' <=> MonOwner' = u
    BY <2>3, <1>14, MonitorAssumption
  <2>5. \A u \in MonThreads : ~(monDepth'[u] > 0 /\ ~MonInWait(u)')
    BY <2>3 DEF MonHolds
  <2>6. ASSUME NEW u \in MonThreads, MonInWait(u)'
        PROVE  monDepth'[u] > 0 /\ monKeep'[u] = monDepth'[u] - 1
    BY <2>6, <1>0, <1>1, <1>4, <1>8, <1>9, <1>13 DEF MonOwnership
  <2>7. \A m \in MonIds : monitors'[m].owner = MonNone => monitors'[m].count = 0
    BY <1>0, <1>7, MonitorAssumption DEF MonOwnership, MonBecomes
  <2> QED BY <2>4, <2>5, <2>6, <2>7 DEF MonOwnership
<1>16. MonHashKept'
  BY <1>0, <1>1, <1>2, <1>7 DEF MonHashKept, MonHashNow, MonBecomes
<1>17. MonCounted'
  <2>1. MonBlocked' = MonBlocked /\ MonWaiters' = MonWaiters \union {t} /\ t \notin MonWaiters
    BY <1>1, <1>4, <1>7, <1>8, <1>13 DEF MonBlocked, MonWaiters
  <2>2. /\ IsFiniteSet(MonBlocked') /\ IsFiniteSet(MonWaiters')
        /\ Cardinality(MonBlocked') = Cardinality(MonBlocked)
    BY <2>1, MonCardinality DEF MonInv, MonCounted
  <2>3. Cardinality(MonWaiters') = Cardinality(MonWaiters) + 1
    BY <2>1, MonCardinality DEF MonInv, MonCounted
  <2>4. /\ Cardinality(MonBlocked) \in Nat /\ Cardinality(MonWaiters) \in Nat
        /\ old.waiters = Cardinality(MonBlocked) + Cardinality(MonWaiters)
    BY <1>2, MonCardinality DEF MonInv, MonCounted
  <2>5. \A m \in MonIds : monWord' = Fat(m) => monitors'[m].waiters = Cardinality(MonBlocked') + Cardinality(MonWaiters')
    BY <1>1, <1>2, <1>7, <2>2, <2>3, <2>4 DEF MonBecomes
  <2>6. ASSUME NEW m \in MonIds, NEW c \in monitors'[m].contenders
        PROVE  monPc'[c] = "contending" /\ monWord' = Fat(m)
    <3>1. m = M /\ c \in old.contenders \ sig
      BY <1>2, <1>3, <1>7, <2>6 DEF MonBecomes
    <3> QED BY <3>1, <1>1, <1>2, <1>3, <1>7
  <2> QED BY <2>2, <2>5, <2>6 DEF MonCounted
<1> QED BY <1>10, <1>11, <1>12, <1>15, <1>16, <1>17 DEF MonInv

\* The end of Object.wait: the old count is back.
LEMMA MonRewaitKeeps ==
  ASSUME MonInv, NEW t \in MonThreads, MonRewait(t)
  PROVE  MonInv'
<1> DEFINE M == monAt[t].monitor
           old == monitors[M]
           pc == IF monWas[t] THEN "throw" ELSE "run"
<1>0. /\ MonTypeInv /\ MonReturns /\ MonReadIsCurrent /\ MonOwnership /\ MonHashKept /\ ~monAborted
      /\ monPc \in [MonThreads -> MonPcs] /\ monDepth \in [MonThreads -> Nat] /\ monKeep \in [MonThreads -> Nat]
  BY DEF MonInv, MonTypeInv
<1>1. /\ monPc[t] = "rewait" /\ pc \in {"throw", "run"} /\ monPc' = [monPc EXCEPT ![t] = pc]
      /\ monitors' = [monitors EXCEPT
            ![M].count = monKeep[t],
            ![M].waiters = @ - 1,
            ![M].waitSet = SelectSeq(@, LAMBDA u : u /= t)]
      /\ UNCHANGED <<monWord, monFree, monAt, monBack, monKeep, monSuspenders, monAborted, monDepth, monHashed>>
  BY DEF MonRewait, MonGo, monWaiting, monHistory
<1>2. /\ monWord.kind = "fat" /\ M \in MonIds /\ monWord = Fat(M) /\ monWord.monitor = M
      /\ MonOwner = old.owner /\ MonCount = old.count
      /\ \A m \in MonIds : monWord = Fat(m) => m = M
  BY <1>1, MonFatFacts DEF MonFatPcs
<1>3. /\ DOMAIN monitors = MonIds /\ DOMAIN old = MonFields
      /\ \A m \in MonIds : \A c \in monitors[m].contenders : monPc[c] = "contending" /\ monWord = Fat(m)
  BY <1>0, <1>2 DEF MonTypeInv, MonInv, MonCounted
<1>4. MonInWait(t) /\ old.owner = t /\ monDepth[t] > 0 /\ monKeep[t] = monDepth[t] - 1
  BY <1>0, <1>1, <1>2 DEF MonOwnership, MonHolds, MonInWait, MonReturns
<1>5. MonBecomes(M, old.owner, monKeep[t], old.hash, old.waiters - 1, old.contenders)
  BY <1>1, <1>2, <1>3 DEF MonBecomes, MonFields
<1> HIDE DEF pc
<1>6. monPc'[t] = pc /\ \A u \in MonThreads \ {t} : monPc'[u] = monPc[u]
  BY <1>0, <1>1
<1>7. MonTypeInv' /\ ~monAborted'
  <2>1. \A u \in MonThreads : MonIsWord(monAt[u])'
    BY <1>0, <1>1 DEF MonTypeInv, MonIsWord
  <2>2. MonIsWord(monWord)'
    BY <1>0, <1>1 DEF MonTypeInv, MonIsWord
  <2>3. monPc' \in [MonThreads -> MonPcs]
    BY <1>0, <1>1 DEF MonPcs
  <2>4. \A m \in MonIds :
          /\ DOMAIN monitors'[m] = MonFields
          /\ monitors'[m].owner \in MonThreads \union {MonNone}
          /\ monitors'[m].count \in Nat
          /\ monitors'[m].hash \in MonHashes \union {0}
          /\ monitors'[m].contenders \in SUBSET MonThreads
    BY <1>0, <1>2, <1>5 DEF MonTypeInv, MonBecomes
  <2> QED BY <1>0, <1>1, <1>5, <2>1, <2>2, <2>3, <2>4 DEF MonTypeInv, MonBecomes
<1>8. MonReturns'
  BY <1>0, <1>1, <1>6 DEF MonReturns
<1>9. MonReadIsCurrent'
  BY <1>0, <1>1, <1>2, <1>5, <1>6 DEF MonReadIsCurrent, MonFatPcs, MonBecomes
<1>10. (\A u \in MonThreads \ {t} : MonInWait(u)' <=> MonInWait(u)) /\ ~MonInWait(t)'
  BY <1>1, <1>6 DEF MonInWait
<1>11. MonOwner' = t /\ MonCount' = monKeep[t]
  BY <1>1, <1>2, <1>4, <1>5 DEF MonOwner, MonCount, MonBecomes
<1>12. MonOwnership'
  <2>1. \A u \in MonThreads \ {t} : (MonHolds(u)' <=> MonHolds(u)) /\ ~MonHolds(u)
    BY <1>0, <1>1, <1>2, <1>4, <1>6, <1>10 DEF MonHolds, MonOwnership
  <2>2. MonHolds(t)'
    BY <1>1, <1>4, <1>10 DEF MonHolds
  <2>3. \A u \in MonThreads : monDepth'[u] > 0 /\ ~MonInWait(u)' => u = t
    BY <2>1 DEF MonHolds
  <2>4. \A m \in MonIds : monitors'[m].owner = MonNone => monitors'[m].count = 0
    BY <1>0, <1>4, <1>5, MonitorAssumption DEF MonOwnership, MonBecomes
  <2>5. \A u \in MonThreads : MonInWait(u)' => monDepth'[u] > 0 /\ monKeep'[u] = monDepth'[u] - 1
    BY <1>0, <1>1, <1>10 DEF MonOwnership
  <2> QED BY <2>1, <2>2, <2>3, <2>4, <2>5, <1>1, <1>4, <1>11 DEF MonOwnership
<1>13. MonHashKept'
  BY <1>0, <1>1, <1>2, <1>5 DEF MonHashKept, MonHashNow, MonBecomes
<1>14. MonCounted'
  <2>1. MonBlocked' = MonBlocked /\ MonWaiters' = MonWaiters \ {t} /\ t \in MonWaiters
    BY <1>1, <1>4, <1>6, <1>10 DEF MonBlocked, MonWaiters
  <2>2. /\ IsFiniteSet(MonBlocked') /\ IsFiniteSet(MonWaiters')
        /\ Cardinality(MonBlocked') = Cardinality(MonBlocked)
    BY <2>1, MonCardinality DEF MonInv, MonCounted
  <2>3. Cardinality(MonWaiters') = Cardinality(MonWaiters) - 1
    BY <2>1, MonCardinality DEF MonInv, MonCounted
  <2>4. /\ Cardinality(MonBlocked) \in Nat /\ Cardinality(MonWaiters) \in Nat
        /\ old.waiters = Cardinality(MonBlocked) + Cardinality(MonWaiters)
    BY <1>2, MonCardinality DEF MonInv, MonCounted
  <2>5. \A m \in MonIds : monWord' = Fat(m) => monitors'[m].waiters = Cardinality(MonBlocked') + Cardinality(MonWaiters')
    BY <1>1, <1>2, <1>5, <2>2, <2>3, <2>4 DEF MonBecomes
  <2>6. \A m \in MonIds : \A c \in monitors'[m].contenders : monPc'[c] = "contending" /\ monWord' = Fat(m)
    BY <1>0, <1>1, <1>3, <1>5, <1>6 DEF MonBecomes, MonTypeInv
  <2> QED BY <2>2, <2>5, <2>6 DEF MonCounted
<1> QED BY <1>7, <1>8, <1>9, <1>12, <1>13, <1>14 DEF MonInv

\* Every step of the specification keeps the invariant.
LEMMA MonInvStep == MonInv /\ [MonNext]_monVars => MonInv'
<1> SUFFICES ASSUME MonInv, [MonNext]_monVars PROVE MonInv'
  OBVIOUS
<1>1. CASE UNCHANGED monVars
  <2>1. MonBlocked' = MonBlocked /\ MonWaiters' = MonWaiters
    BY <1>1 DEF monVars, MonBlocked, MonWaiters, MonInWait
  <2>2. MonCounted'
    BY <1>1, <2>1, MonCountedFrame DEF monVars, MonInv, MonCounted
  <2>3. MonTypeInv' /\ MonReturns' /\ MonReadIsCurrent' /\ ~monAborted'
    BY <1>1 DEF monVars, MonInv, MonTypeInv, MonIsWord, MonReturns, MonReadIsCurrent
  <2>4. MonOwnership' /\ MonHashKept'
    BY <1>1 DEF monVars, MonInv, MonOwnership, MonHolds, MonOwner, MonCount, MonInWait, MonHashKept, MonHashNow
  <2> QED BY <2>2, <2>3, <2>4 DEF MonInv
<1>2. CASE MonDeflate
  BY <1>2, MonDeflateKeeps
<1>3. ASSUME NEW t \in MonThreads, MonCall(t) \/ MonStep(t) \/ MonTimeout(t)
      PROVE  MonInv'
  <2>1. MonLock(t) \/ MonRelock(t) => MonInv'
    BY MonTryLockKeeps DEF MonLock, MonRelock
  <2>2. MonExitFat(t) \/ MonWaitFat(t) => MonInv'
    BY MonExitFatKeeps, MonWaitFatKeeps, MonMovesSteps
  <2>3. MonHashRead(t) => MonInv'
    BY MonHashReadKeeps, MonOutsideSteps
  <2> QED BY <1>3, <2>1, <2>2, <2>3, MonOutsideSteps, MonMovesSteps, MonThinSteps, MonInflateSteps,
             MonRewaitKeeps DEF MonCall, MonStep
<1> QED BY <1>1, <1>2, <1>3 DEF MonNext

\* A thread that has entered the monitor more often than it has left it owns it with exactly that
\* recursion count, in a Monitor that no deflation took away (Monitor::Lock, Unlock, Wait, Deflate
\* and InflateThinLocked together): for any number of threads, monitors and calls.
THEOREM MonHolderIsOwnerHolds == MonSpec => []MonHolderIsOwner
<1>1. MonInv => MonHolderIsOwner
  BY DEF MonInv, MonHolderIsOwner, MonNoStaleMonitor, MonReadIsCurrent, MonFatPcs, MonOwnership, MonHolds
<1> QED BY <1>1, MonInvInit, MonInvStep, PTL DEF MonSpec

\* All calls of IdentityHashCode return the same code, whatever inflates and deflates meanwhile.
THEOREM MonHashIsStableHolds == MonSpec => []MonHashIsStable
<1>1. MonInv => MonHashIsStable
  <2> SUFFICES ASSUME MonInv PROVE Cardinality(monHashed) =< 1
    BY DEF MonHashIsStable
  <2>1. monHashed = {} \/ monHashed = {MonHashNow}
    BY DEF MonInv, MonHashKept
  <2>2. monHashed = {} => Cardinality(monHashed) = 0
    BY FS_EmptySet
  <2>3. monHashed = {MonHashNow} => Cardinality(monHashed) = 1
    BY FS_Singleton
  <2> QED BY <2>1, <2>2, <2>3
<1> QED BY <1>1, MonInvInit, MonInvStep, PTL DEF MonSpec
================================================================================
