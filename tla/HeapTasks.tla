------------------------------- MODULE HeapTasks -------------------------------
(***************************************************************************)
(* How collections are asked for and kept apart (gc/task_processor.cc and  *)
(* gc/heap.cc): the queue of heap tasks with its daemon, the requests that *)
(* fill it, collector_type_running_ with gc_complete_cond_, and the        *)
(* threads that forbid moving collections (GetPrimitiveArrayCritical).     *)
(*                                                                         *)
(* There is at most one task of each kind.  Its target time is "due" or    *)
(* "later"; time passes by HtTick.  A loop that waits on a condition under *)
(* its lock is the guard of the step that follows it.                      *)
(***************************************************************************)
EXTENDS Integers, FiniteSets

CONSTANTS HtThreads,     \* the threads of the application
          HtDaemon,      \* the heap task daemon
          HtRequests     \* bound: requests and stops

ASSUME HeapTasksAssumption ==
    /\ HtDaemon \notin HtThreads
    /\ HtRequests \in Nat

VARIABLES htTasks,       \* tasks_: by kind, "none", "later" or "due"
          htOn,          \* is_running_
          htPc,          \* where each thread and the daemon are
          htKind,        \* the kind of the task the daemon runs
          htType,        \* desired_collector_type as a thread has read it
          htPending,     \* concurrent_gc_pending_, pending_collector_transition_, pending_heap_trim_
          htJank,        \* process_state_ is kProcessStateJankPerceptible
          htBackground,  \* background_collector_type_
          htDesired,     \* desired_collector_type_
          htCollector,   \* collector_type_
          htRunning,     \* collector_type_running_
          htDisabled,    \* disable_moving_gc_count_
          htLeft         \* requests left

htVars == <<htTasks, htOn, htPc, htKind, htType, htPending, htJank, htBackground, htDesired,
            htCollector, htRunning, htDisabled, htLeft>>

htQueue == <<htTasks, htOn, htKind, htPending>>
htState == <<htJank, htBackground, htDesired>>
htGc == <<htState, htCollector, htRunning, htDisabled>>

HtKinds == {"gc", "transition", "trim"}

\* The foreground collector is CMS.  In the background it is SS, or it stays CMS and the space is
\* compacted once (HSC, kCollectorTypeHomogeneousSpaceCompact).
HtTypes == {"CMS", "SS", "HSC"}

HtAll == HtThreads \union {HtDaemon}

HtInit ==
    /\ htTasks = [k \in HtKinds |-> "none"]
    /\ htOn = TRUE
    /\ htPc = [t \in HtAll |-> IF t = HtDaemon THEN "get" ELSE "idle"]
    /\ htKind = "gc"
    /\ htType = [t \in HtAll |-> "CMS"]
    /\ htPending = {}
    /\ htJank = TRUE
    /\ htBackground \in {"SS", "HSC"}
    /\ htDesired = "CMS"
    /\ htCollector = "CMS"
    /\ htRunning = "none"
    /\ htDisabled = 0
    /\ htLeft = HtRequests

HtGo(t, from, to) ==
    /\ htPc[t] = from
    /\ htPc' = [htPc EXCEPT ![t] = to]

HtRequest(t, to) ==
    /\ t \in HtThreads
    /\ htLeft > 0
    /\ htLeft' = htLeft - 1
    /\ HtGo(t, "idle", to)

\* The daemon asleep in GetTask; a signal wakes it.
HtAsleep(pc) == pc \in {"empty", "timed"}

\* Mutant of HtSignal: nobody is woken.
HtSignalNobody(pc) == pc

HtSignal(pc) == [pc EXCEPT ![HtDaemon] = IF HtAsleep(@) THEN "get" ELSE @]

HtMoving(type) == type \in {"SS", "GSS", "CC", "MC", "HSC"}

----------------------------------------------------------------------------
(* Requests. *)

\* RequestConcurrentGC: the CAS on concurrent_gc_pending_.
HtRequestGc(t) ==
    /\ HtRequest(t, IF "gc" \in htPending THEN "idle" ELSE "addGc")
    /\ htPending' = htPending \union {"gc"}
    /\ UNCHANGED <<htTasks, htOn, htKind, htType, htGc>>

\* RequestTrim: ignored if there is one.
HtRequestTrim(t) ==
    /\ HtRequest(t, IF "trim" \in htPending THEN "idle" ELSE "addTrim")
    /\ htPending' = htPending \union {"trim"}
    /\ UNCHANGED <<htTasks, htOn, htKind, htType, htGc>>

\* UpdateProcessState stores another process_state_, without a lock.
HtUpdateState(t) ==
    /\ HtRequest(t, "state")
    /\ htJank' = ~htJank
    /\ UNCHANGED <<htQueue, htType, htBackground, htDesired, htCollector, htRunning, htDisabled>>

\* RequestCollectorTransition for the process_state_ that it finds: the desired type is written
\* first, again without a lock.
HtRequestTransition(t) ==
    LET type == IF htJank THEN "CMS" ELSE htBackground IN
    /\ HtGo(t, "state", IF type = htCollector THEN "idle" ELSE "pend")
    /\ htDesired' = type
    /\ htType' = [htType EXCEPT ![t] = type]
    /\ UNCHANGED <<htQueue, htJank, htBackground, htCollector, htRunning, htDisabled, htLeft>>

\* The foreground collector is wanted at once, the background one after a while.
HtTargetTime(t) == IF htType[t] = "CMS" THEN "due" ELSE "later"

\* Under pending_task_lock_: UpdateTargetRunTime of the pending task, if the queue has it and
\* the time is another one; it may be the first now.
HtPend(t) ==
    /\ IF "transition" \in htPending
       THEN LET changed == htTasks["transition"] \notin {"none", HtTargetTime(t)}
                pc == [htPc EXCEPT ![t] = "idle"]
            IN  /\ htPc[t] = "pend"
                /\ htTasks' = IF changed THEN [htTasks EXCEPT !["transition"] = HtTargetTime(t)]
                                         ELSE htTasks
                /\ \/ htPc' = IF changed THEN HtSignal(pc) ELSE pc
                   \/ /\ \E k \in HtKinds \ {"transition"} : htTasks[k] /= "none"
                      /\ htPc' = pc
                /\ UNCHANGED htPending
       ELSE /\ HtGo(t, "pend", "addTransition")
            /\ htPending' = htPending \union {"transition"}
            /\ UNCHANGED htTasks
    /\ UNCHANGED <<htOn, htKind, htType, htGc, htLeft>>

\* Mutant of HtAddTask: a processor that is being stopped takes no tasks.
HtAddTaskIfOn(t, from, kind, time) ==
    /\ htPc[t] = from
    /\ htTasks' = IF htOn THEN [htTasks EXCEPT ![kind] = time] ELSE htTasks
    /\ htPc' = HtSignal([htPc EXCEPT ![t] = "idle"])
    /\ UNCHANGED <<htOn, htKind, htType, htPending, htGc, htLeft>>

\* TaskProcessor::AddTask, after the other lock has been released.
HtAddTask(t, from, kind, time) ==
    /\ htPc[t] = from
    /\ htTasks' = [htTasks EXCEPT ![kind] = time]
    /\ htPc' = HtSignal([htPc EXCEPT ![t] = "idle"])
    /\ UNCHANGED <<htOn, htKind, htType, htPending, htGc, htLeft>>

HtAdd(t) ==
    \/ HtAddTask(t, "addGc", "gc", "due")
    \/ HtAddTask(t, "addTrim", "trim", "later")
    \/ HtAddTask(t, "addTransition", "transition", HtTargetTime(t))

\* TaskProcessor::Stop.
HtStop(t) ==
    /\ HtRequest(t, "idle") /\ htOn
    /\ UNCHANGED <<htTasks, htKind, htType, htPending, htGc>>
    /\ htOn' = FALSE

----------------------------------------------------------------------------
(* The daemon: GetTask and RunAllTasks. *)

\* The first task by target time, if it may run now: due, or the processor is being stopped.
HtFirst ==
    LET due == {k \in HtKinds : htTasks[k] = "due"}
        later == {k \in HtKinds : htTasks[k] = "later"}
    IN  IF due /= {} THEN due ELSE IF htOn THEN {} ELSE later

HtGetTask ==
    /\ htPc[HtDaemon] = "get" \/ (HtAsleep(htPc[HtDaemon]) /\ ~htOn)
    /\ \/ \E k \in HtFirst :
             /\ htTasks' = [htTasks EXCEPT ![k] = "none"]
             /\ htKind' = k
             /\ htPc' = [htPc EXCEPT ![HtDaemon] = k]
       \/ /\ HtFirst = {}
          /\ htPc' = [htPc EXCEPT ![HtDaemon] =
                IF ~htOn THEN "stopped"
                ELSE IF \A k \in HtKinds : htTasks[k] = "none" THEN "empty" ELSE "timed"]
          /\ UNCHANGED <<htTasks, htKind>>
    /\ UNCHANGED <<htOn, htType, htPending, htGc, htLeft>>

\* TimedWait ends at the target time of the first task.
HtTimedOut ==
    /\ HtGo(HtDaemon, "timed", "get")
    /\ \E k \in HtKinds : htTasks[k] = "due"
    /\ UNCHANGED <<htQueue, htType, htGc, htLeft>>

\* Time passes.
HtTick ==
    /\ \E k \in HtKinds : htTasks[k] = "later"
    /\ htTasks' = [k \in HtKinds |-> IF htTasks[k] = "later" THEN "due" ELSE htTasks[k]]
    /\ UNCHANGED <<htOn, htPc, htKind, htType, htPending, htGc, htLeft>>

\* The daemon is started again after a stop.
HtStart ==
    /\ HtGo(HtDaemon, "stopped", "get")
    /\ htOn' = TRUE
    /\ UNCHANGED <<htTasks, htKind, htType, htPending, htGc, htLeft>>

\* Heap::Trim changes nothing that is modelled here.
HtTrim ==
    /\ HtGo(HtDaemon, "trim", "clear")
    /\ UNCHANGED <<htQueue, htType, htGc, htLeft>>

\* ConcurrentGC: if a collection is running, its end is enough.
HtConcurrentGc ==
    /\ HtGo(HtDaemon, "gc", IF htRunning = "none" THEN "collect" ELSE "await")
    /\ UNCHANGED <<htQueue, htType, htGc, htLeft>>

HtAwait ==
    /\ htRunning = "none"
    /\ HtGo(HtDaemon, "await", "clear")
    /\ UNCHANGED <<htQueue, htType, htGc, htLeft>>

\* DoPendingCollectorTransition reads the desired type: a compaction, or a transition if the
\* collector is not there yet.
HtReadDesired ==
    /\ HtGo(HtDaemon, "transition",
            IF htDesired = "HSC" THEN "care"
            ELSE IF htDesired = htCollector THEN "clear" ELSE "change")
    /\ htType' = [htType EXCEPT ![HtDaemon] = htDesired]
    /\ UNCHANGED <<htQueue, htGc, htLeft>>

\* CareAboutPauseTimes: a compaction that was asked for in the background is ignored when the
\* process is in the foreground again.
HtCare ==
    /\ HtGo(HtDaemon, "care", IF htJank THEN "clear" ELSE "compact")
    /\ UNCHANGED <<htQueue, htType, htGc, htLeft>>

\* TransitionCollector claims the collector; a copying transition waits for critical sections.
HtClaimTransition ==
    LET type == htType[HtDaemon]
        copying == HtMoving(type) /= HtMoving(htCollector) IN
    /\ htRunning = "none"
    /\ copying => htDisabled = 0
    /\ IF type = htCollector
       THEN HtGo(HtDaemon, "change", "clear") /\ UNCHANGED htRunning
       ELSE HtGo(HtDaemon, "change", "changing") /\ htRunning' = IF copying THEN "SS" ELSE type
    /\ UNCHANGED <<htQueue, htType, htState, htCollector, htDisabled, htLeft>>

\* ChangeCollector, with all threads suspended; nothing is changed if the runtime shuts down.
HtChangeCollector ==
    /\ HtGo(HtDaemon, "changing", "finish")
    /\ htCollector' \in {htType[HtDaemon], htCollector}
    /\ UNCHANGED <<htQueue, htType, htState, htRunning, htDisabled, htLeft>>

\* ClearConcurrentGCRequest, ClearPendingCollectorTransition, ClearPendingTrim.
HtClear ==
    /\ HtGo(HtDaemon, "clear", "get")
    /\ htPending' = htPending \ {htKind}
    /\ UNCHANGED <<htTasks, htOn, htKind, htType, htGc, htLeft>>

----------------------------------------------------------------------------
(* Collections and those who forbid them. *)

HtCollect(t) ==
    /\ HtRequest(t, "collect")
    /\ UNCHANGED <<htQueue, htType, htGc>>

HtAfterGc(t) == IF t = HtDaemon THEN "clear" ELSE "idle"

\* Mutant of HtClaimGc: without the wait for a collection that runs.
HtClaimGcAtOnce(t) ==
    /\ IF HtMoving(htCollector) /\ htDisabled /= 0
       THEN HtGo(t, "collect", HtAfterGc(t)) /\ UNCHANGED htRunning
       ELSE HtGo(t, "collect", "finish") /\ htRunning' = htCollector
    /\ UNCHANGED <<htQueue, htType, htState, htCollector, htDisabled, htLeft>>

\* CollectGarbageInternal waits for its turn; a moving collection that is forbidden is skipped.
HtClaimGc(t) ==
    /\ htRunning = "none"
    /\ IF HtMoving(htCollector) /\ htDisabled /= 0
       THEN HtGo(t, "collect", HtAfterGc(t)) /\ UNCHANGED htRunning
       ELSE HtGo(t, "collect", "finish") /\ htRunning' = htCollector
    /\ UNCHANGED <<htQueue, htType, htState, htCollector, htDisabled, htLeft>>

\* Heap::AllocateInternalWithGc compacts the space before it gives up.
HtCompactForAlloc(t) ==
    /\ HtRequest(t, "compact")
    /\ UNCHANGED <<htQueue, htType, htGc>>

\* Mutant of HtCompact: forgets that moving may be off.
HtCompactAnyway(t) ==
    /\ htRunning = "none"
    /\ IF HtMoving(htCollector)
       THEN HtGo(t, "compact", HtAfterGc(t)) /\ UNCHANGED htRunning
       ELSE HtGo(t, "compact", "finish") /\ htRunning' = "HSC"
    /\ UNCHANGED <<htQueue, htType, htState, htCollector, htDisabled, htLeft>>

\* PerformHomogeneousSpaceCompact waits for its turn; it is rejected where moving is off, and
\* where the collector moves objects anyway (main_space_ can be moved: it has a backup).  A runtime
\* that shuts down finishes at once.
HtCompact(t) ==
    /\ htRunning = "none"
    /\ IF htDisabled /= 0 \/ HtMoving(htCollector)
       THEN HtGo(t, "compact", HtAfterGc(t)) /\ UNCHANGED htRunning
       ELSE HtGo(t, "compact", "finish") /\ htRunning' = "HSC"
    /\ UNCHANGED <<htQueue, htType, htState, htCollector, htDisabled, htLeft>>

\* FinishGC.
HtFinish(t) ==
    /\ HtGo(t, "finish", HtAfterGc(t))
    /\ htRunning' = "none"
    /\ UNCHANGED <<htQueue, htType, htState, htCollector, htDisabled, htLeft>>

\* Mutant of HtDisableMoving: without the wait for a moving collection that runs.
HtDisableMovingAtOnce(t) ==
    /\ HtRequest(t, "critical")
    /\ htDisabled' = htDisabled + 1
    /\ UNCHANGED <<htQueue, htType, htState, htCollector, htRunning>>

\* IncrementDisableMovingGC: the count goes up first, then a moving collection is waited for.
HtDisableMoving(t) ==
    /\ HtRequest(t, IF HtMoving(htRunning) THEN "quiet" ELSE "critical")
    /\ htDisabled' = htDisabled + 1
    /\ UNCHANGED <<htQueue, htType, htState, htCollector, htRunning>>

HtQuiet(t) ==
    /\ htRunning = "none"
    /\ HtGo(t, "quiet", "critical")
    /\ UNCHANGED <<htQueue, htType, htGc, htLeft>>

\* DecrementDisableMovingGC.
HtEnableMoving(t) ==
    /\ HtGo(t, "critical", "idle")
    /\ htDisabled' = htDisabled - 1
    /\ UNCHANGED <<htQueue, htType, htState, htCollector, htRunning, htLeft>>

----------------------------------------------------------------------------

HtDaemonStep ==
    \/ HtGetTask \/ HtTimedOut \/ HtStart \/ HtTrim \/ HtConcurrentGc \/ HtAwait
    \/ HtReadDesired \/ HtCare \/ HtClaimTransition \/ HtChangeCollector \/ HtClear

HtStep(t) ==
    \/ HtRequestTransition(t) \/ HtPend(t) \/ HtAdd(t) \/ HtClaimGc(t) \/ HtCompact(t)
    \/ HtFinish(t) \/ HtQuiet(t) \/ HtEnableMoving(t)

HtNext ==
    \/ HtTick
    \/ HtDaemonStep
    \/ \E t \in HtAll : HtStep(t)
    \/ \E t \in HtThreads :
          HtRequestGc(t) \/ HtRequestTrim(t) \/ HtUpdateState(t) \/ HtStop(t)
          \/ HtCollect(t) \/ HtCompactForAlloc(t) \/ HtDisableMoving(t)

HtSpec == HtInit /\ [][HtNext]_htVars

\* No object moves under a thread that has been told that moving is off: no moving collection,
\* no transition that copies and no homogeneous space compaction runs beside a critical section,
\* although each of the three tests disable_moving_gc_count_ in its own way.
HtNoMoveInCritical ==
    (\E t \in HtThreads : htPc[t] = "critical") => ~HtMoving(htRunning)

\* "Ensure there is only one GC at a time" (heap.cc): collections of different threads and
\* transitions never overlap, and collector_type_running_ says when one runs.
HtOneGcAtATime ==
    /\ Cardinality({t \in HtAll : htPc[t] \in {"changing", "finish"}}) =< 1
    /\ htRunning /= "none" <=> \E t \in HtAll : htPc[t] \in {"changing", "finish"}

\* A pending mark always has its task: in the queue, about to be added or being run.  A mark
\* without a task would make the heap ignore every later request of that kind.
HtPendingHasTask ==
    \A k \in htPending :
        \/ htTasks[k] /= "none"
        \/ htKind = k /\ htPc[HtDaemon] \in {k, "collect", "await", "care", "compact", "change",
                                             "changing", "finish", "clear"}
        \/ \E t \in HtThreads :
              htPc[t] = CASE k = "gc" -> "addGc" [] k = "trim" -> "addTrim"
                          [] OTHER -> "addTransition"

\* A thread in a request, in CollectGarbageInternal or in IncrementDisableMovingGC.
HtPending(t) == htPc[t] \notin {"idle", "critical"}

\* Tasks that the daemon has not taken.
HtBacklog == \E k \in HtKinds : htTasks[k] /= "none"
================================================================================
