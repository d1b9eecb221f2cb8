------------------------------- MODULE ThreadPool -------------------------------
(***************************************************************************)
(* thread_pool.cc: workers that take tasks from a queue, and the thread    *)
(* that owns the pool.  A critical section of task_queue_lock_ is one      *)
(* step; a worker signalled on task_queue_condition_ stays in              *)
(* waiting_count_ until it has the lock again.                             *)
(***************************************************************************)
EXTENDS Integers, Sequences, SequencesExt, FiniteSets

CONSTANTS TpWorkers,     \* threads_
          TpTasks,       \* the tasks that may be added, each once
          TpNoTask,      \* null
          TpCalls        \* bound: calls of the owner

ASSUME ThreadPoolAssumption ==
    /\ IsFiniteSet(TpWorkers) /\ TpWorkers /= {}
    /\ TpNoTask \notin TpTasks
    /\ TpCalls \in Nat

VARIABLES tpQueue,       \* tasks_
          tpStarted,     \* started_
          tpShutDown,    \* shutting_down_
          tpWaiting,     \* waiting_count_
          tpMax,         \* max_active_workers_
          tpAsleep,      \* the workers asleep on task_queue_condition_
          tpPc,          \* where each worker is: "get", "asleep", "awake", "run" or "exit"
          tpTask,        \* the task a worker runs
          tpOwner,       \* where the owner is
          tpOwnTask,     \* the task the owner runs in Wait
          tpRuns,        \* history: how often each task has been completed
          tpLeft         \* calls left to the owner

tpVars == <<tpQueue, tpStarted, tpShutDown, tpWaiting, tpMax, tpAsleep, tpPc, tpTask,
            tpOwner, tpOwnTask, tpRuns, tpLeft>>

TpCount == Cardinality(TpWorkers)

TpInit ==
    /\ tpQueue = <<>>
    /\ tpStarted = FALSE
    /\ tpShutDown = FALSE
    /\ tpWaiting = 0
    /\ tpMax = TpCount
    /\ tpAsleep = {}
    /\ tpPc = [w \in TpWorkers |-> "get"]
    /\ tpTask = [w \in TpWorkers |-> TpNoTask]
    /\ tpOwner = "idle"
    /\ tpOwnTask = TpNoTask
    /\ tpRuns = [x \in TpTasks |-> 0]
    /\ tpLeft = TpCalls

TpRunning == {tpTask[w] : w \in {v \in TpWorkers : tpPc[v] = "run"}} \union ({tpOwnTask} \ {TpNoTask})

TpFresh == {x \in TpTasks : tpRuns[x] = 0} \ (ToSet(tpQueue) \union TpRunning)

\* AddTask, by the owner or by a task that a worker runs.
AddTask(x) ==
    /\ x \in TpFresh
    /\ tpQueue' = Append(tpQueue, x)
    /\ IF tpStarted /\ tpWaiting /= 0 /\ tpAsleep /= {}
       THEN \E w \in tpAsleep :
               /\ tpAsleep' = tpAsleep \ {w}
               /\ tpPc' = [tpPc EXCEPT ![w] = "awake"]
       ELSE UNCHANGED <<tpAsleep, tpPc>>
    /\ UNCHANGED <<tpStarted, tpShutDown, tpWaiting, tpMax, tpTask, tpRuns, tpOwnTask>>

\* Broadcast on task_queue_condition_.
WakeWorkers ==
    /\ tpAsleep' = {}
    /\ tpPc' = [w \in TpWorkers |-> IF w \in tpAsleep THEN "awake" ELSE tpPc[w]]

\* Mutant of WakeOwner: the owner sleeps on.
WakeOwnerNever == UNCHANGED tpOwner

\* Broadcast on completion_condition_.
WakeOwner == tpOwner' = IF tpOwner = "asleep" THEN "wait" ELSE tpOwner

----------------------------------------------------------------------------
(* The workers: GetTask and Run. *)

TpActive(waiting) == TpCount - waiting

\* The body of the loop in GetTask, with waiting the count after the worker's own decrement.
GetTaskLocked(w, waiting) ==
    IF tpShutDown
    THEN /\ tpPc' = [tpPc EXCEPT ![w] = "exit"]
         /\ tpWaiting' = waiting
         /\ UNCHANGED <<tpQueue, tpAsleep, tpTask, tpOwner>>
    ELSE IF TpActive(waiting) =< tpMax /\ tpStarted /\ tpQueue /= <<>>
    THEN /\ tpTask' = [tpTask EXCEPT ![w] = Head(tpQueue)]
         /\ tpQueue' = Tail(tpQueue)
         /\ tpPc' = [tpPc EXCEPT ![w] = "run"]
         /\ tpWaiting' = waiting
         /\ UNCHANGED <<tpAsleep, tpOwner>>
    ELSE /\ tpWaiting' = waiting + 1
         /\ IF waiting + 1 = TpCount /\ tpQueue = <<>> THEN WakeOwner ELSE UNCHANGED tpOwner
         /\ tpAsleep' = tpAsleep \union {w}
         /\ tpPc' = [tpPc EXCEPT ![w] = "asleep"]
         /\ UNCHANGED <<tpQueue, tpTask>>

GetTask(w) ==
    /\ \/ tpPc[w] = "get" /\ GetTaskLocked(w, tpWaiting)
       \/ tpPc[w] = "awake" /\ GetTaskLocked(w, tpWaiting - 1)
    /\ UNCHANGED <<tpStarted, tpShutDown, tpMax, tpOwnTask, tpRuns, tpLeft>>

\* The condition variable returns without a signal.
TpSpurious(w) ==
    /\ tpPc[w] = "asleep"
    /\ tpPc' = [tpPc EXCEPT ![w] = "awake"]
    /\ tpAsleep' = tpAsleep \ {w}
    /\ UNCHANGED <<tpQueue, tpStarted, tpShutDown, tpWaiting, tpMax, tpTask, tpOwner, tpOwnTask,
                   tpRuns, tpLeft>>

\* Run and Finalize of the task.
RunTask(w) ==
    /\ tpPc[w] = "run"
    /\ tpPc' = [tpPc EXCEPT ![w] = "get"]
    /\ tpRuns' = [tpRuns EXCEPT ![tpTask[w]] = @ + 1]
    /\ tpTask' = [tpTask EXCEPT ![w] = TpNoTask]
    /\ UNCHANGED <<tpQueue, tpStarted, tpShutDown, tpWaiting, tpMax, tpAsleep, tpOwner,
                   tpOwnTask, tpLeft>>

\* A task adds another one.
TaskAddsTask(w) ==
    /\ tpPc[w] = "run"
    /\ \E x \in TpTasks : AddTask(x)
    /\ UNCHANGED <<tpOwner, tpLeft>>

----------------------------------------------------------------------------
(* The owner of the pool. *)

OwnerCalls(to) ==
    /\ tpOwner \in {"idle", "returned"}
    /\ tpLeft > 0
    /\ tpLeft' = tpLeft - 1
    /\ tpOwner' = to

OwnerAddsTask ==
    /\ OwnerCalls("idle")
    /\ \E x \in TpTasks : AddTask(x)

StartWorkers ==
    /\ OwnerCalls("idle")
    /\ tpStarted' = TRUE
    /\ WakeWorkers
    /\ UNCHANGED <<tpQueue, tpShutDown, tpWaiting, tpMax, tpTask, tpOwnTask, tpRuns>>

StopWorkers ==
    /\ OwnerCalls("idle")
    /\ tpStarted' = FALSE
    /\ UNCHANGED <<tpQueue, tpShutDown, tpWaiting, tpMax, tpAsleep, tpPc, tpTask, tpOwnTask, tpRuns>>

SetMaxActiveWorkers ==
    /\ OwnerCalls("idle")
    /\ tpMax' \in 1 .. TpCount
    /\ UNCHANGED <<tpQueue, tpStarted, tpShutDown, tpWaiting, tpAsleep, tpPc, tpTask, tpOwnTask,
                   tpRuns>>

\* Wait, with and without do_work.
TpWait ==
    /\ \E to \in {"work", "wait"} : OwnerCalls(to)
    /\ UNCHANGED <<tpQueue, tpStarted, tpShutDown, tpWaiting, tpMax, tpAsleep, tpPc, tpTask,
                   tpOwnTask, tpRuns>>

\* TryGetTask of the owner, and the run of what it gets.
OwnerTakesTask ==
    /\ tpOwner = "work"
    /\ tpOwnTask = TpNoTask
    /\ IF tpStarted /\ tpQueue /= <<>>
       THEN /\ tpOwnTask' = Head(tpQueue)
            /\ tpQueue' = Tail(tpQueue)
            /\ UNCHANGED tpOwner
       ELSE /\ tpOwner' = "wait"
            /\ UNCHANGED <<tpQueue, tpOwnTask>>
    /\ UNCHANGED <<tpStarted, tpShutDown, tpWaiting, tpMax, tpAsleep, tpPc, tpTask, tpRuns, tpLeft>>

OwnerRunsTask ==
    /\ tpOwnTask /= TpNoTask
    /\ tpRuns' = [tpRuns EXCEPT ![tpOwnTask] = @ + 1]
    /\ tpOwnTask' = TpNoTask
    /\ UNCHANGED <<tpQueue, tpStarted, tpShutDown, tpWaiting, tpMax, tpAsleep, tpPc, tpTask,
                   tpOwner, tpLeft>>

\* Mutant of WaitTest: an empty queue is enough.
WaitTestQueue ==
    /\ tpOwner = "wait"
    /\ tpOwner' = IF ~tpShutDown /\ tpQueue /= <<>> THEN "asleep" ELSE "returned"
    /\ UNCHANGED <<tpQueue, tpStarted, tpShutDown, tpWaiting, tpMax, tpAsleep, tpPc, tpTask,
                   tpOwnTask, tpRuns, tpLeft>>

\* The loop of Wait on completion_condition_.
WaitTest ==
    /\ tpOwner = "wait"
    /\ tpOwner' = IF ~tpShutDown /\ (tpWaiting /= TpCount \/ tpQueue /= <<>>)
                  THEN "asleep" ELSE "returned"
    /\ UNCHANGED <<tpQueue, tpStarted, tpShutDown, tpWaiting, tpMax, tpAsleep, tpPc, tpTask,
                   tpOwnTask, tpRuns, tpLeft>>

\* ~ThreadPool: the workers are told to stop; the owner joins them.
Destroy ==
    /\ OwnerCalls("join")
    /\ tpShutDown' = TRUE
    /\ WakeWorkers
    /\ UNCHANGED <<tpQueue, tpStarted, tpWaiting, tpMax, tpTask, tpOwnTask, tpRuns>>

TpJoined ==
    /\ tpOwner = "join"
    /\ \A w \in TpWorkers : tpPc[w] = "exit"
    /\ tpOwner' = "gone"
    /\ UNCHANGED <<tpQueue, tpStarted, tpShutDown, tpWaiting, tpMax, tpAsleep, tpPc, tpTask,
                   tpOwnTask, tpRuns, tpLeft>>

----------------------------------------------------------------------------

TpOwnerStep == OwnerTakesTask \/ OwnerRunsTask \/ WaitTest \/ TpJoined

TpWorkerStep(w) == GetTask(w) \/ RunTask(w)

TpNext ==
    \/ OwnerAddsTask \/ StartWorkers \/ StopWorkers \/ SetMaxActiveWorkers \/ TpWait \/ Destroy
    \/ TpOwnerStep
    \/ \E w \in TpWorkers : TpWorkerStep(w) \/ TaskAddsTask(w) \/ TpSpurious(w)

TpSpec == TpInit /\ [][TpNext]_tpVars

\* "Wait for all tasks currently on queue to get completed" (thread_pool.h): when Wait has
\* returned, every task that was ever added has been run, once, those that tasks added too.
TpWaitMeansDone ==
    (tpOwner = "returned") =>
        /\ tpQueue = <<>>
        /\ TpRunning = {}
        /\ \A x \in TpTasks : tpRuns[x] =< 1

\* The owner is in Wait on a started pool, or in the destructor.
TpPending == (tpOwner \in {"work", "wait", "asleep"} /\ tpStarted) \/ tpOwner = "join"
================================================================================
