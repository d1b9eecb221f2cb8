------------------------------- MODULE GcProofs -------------------------------
(***************************************************************************)
(* Proofs about the collector's surroundings.                              *)
(*                                                                         *)
(* HeapTasks, for any set of threads and any number of requests:           *)
(* collections do not overlap, nothing moves under a critical section, and *)
(* a pending mark always has its task.                                     *)
(*                                                                         *)
(* ReferenceProcessor, for any threads, objects, references and shape of   *)
(* the heap: the queues stay rings of exactly the references put on them,  *)
(* and neither GetReferent nor a reference leads to what has been freed.   *)
(***************************************************************************)
EXTENDS HeapTasks, ReferenceProcessor, FiniteSetTheorems, WellFoundedInduction, TLAPS

-----------------------------------------------------------------------------
(***************************************************************************)
(* Heap tasks                                                              *)
(***************************************************************************)

\* Where a thread or the daemon can be.
HtPcs == {"idle", "addGc", "addTrim", "addTransition", "pend", "collect", "finish", "quiet",
          "critical", "state", "get", "empty", "timed", "gc", "transition", "trim", "stopped",
          "await", "care", "compact", "change", "changing", "clear"}

\* The types of the variables.
HtTypeInv ==
    /\ htTasks \in [HtKinds -> {"none", "later", "due"}]
    /\ htPc \in [HtAll -> HtPcs]
    /\ htKind \in HtKinds
    /\ htType \in [HtAll -> HtTypes]
    /\ htPending \in SUBSET HtKinds
    /\ htJank \in BOOLEAN
    /\ htBackground \in {"SS", "HSC"}
    /\ htDesired \in HtTypes
    /\ htCollector \in {"CMS", "SS"}
    /\ htRunning \in HtTypes \union {"none"}
    /\ htDisabled \in Int

\* The threads that have forbidden moving collections, whether they wait for one or not.
HtForbidding == {t \in HtThreads : htPc[t] \in {"quiet", "critical"}}

(***************************************************************************)
(* The daemon is never in a place of the application's threads: it has     *)
(* no request and no critical section.  A compaction is not a collector to *)
(* change to.                                                              *)
(***************************************************************************)
HtDaemonPlaces ==
    /\ htPc[HtDaemon] \notin {"idle", "addGc", "addTrim", "addTransition", "state", "pend", "quiet",
                              "critical"}
    /\ htPc[HtDaemon] \in {"change", "changing"} => htType[HtDaemon] /= "HSC"

\* At most one thread runs a collection or a transition, and htRunning tells whether one does.
HtRunnerInv ==
    /\ \A t, u \in HtAll :
          htPc[t] \in {"changing", "finish"} /\ htPc[u] \in {"changing", "finish"} => t = u
    /\ htRunning /= "none" <=> \E t \in HtAll : htPc[t] \in {"changing", "finish"}

\* Types and places together.
HtControlInv == HtTypeInv /\ HtDaemonPlaces

\* The steps, by the thread that takes them.
HtThreadRequest(t) ==
    \/ HtRequestGc(t) \/ HtRequestTrim(t) \/ HtUpdateState(t) \/ HtStop(t)
    \/ HtCollect(t) \/ HtCompactForAlloc(t) \/ HtDisableMoving(t)

\* The steps of the heap tasks, by the threads that take them.
LEMMA HtNextCases ==
    HtNext <=> \/ HtTick \/ HtDaemonStep
               \/ \E t \in HtAll : HtStep(t)
               \/ \E t \in HtThreads : HtThreadRequest(t)
BY DEF HtNext, HtThreadRequest

\* Every step keeps types and the daemon's places.
LEMMA HtControlStep == HtControlInv /\ [HtNext]_htVars => HtControlInv'
<1> SUFFICES ASSUME HtControlInv, [HtNext]_htVars PROVE HtControlInv'
  OBVIOUS
<1>0. HtDaemon \in HtAll /\ HtDaemon \notin HtThreads /\ HtThreads \subseteq HtAll
  BY HeapTasksAssumption DEF HtAll
<1> USE <1>0 DEF HtControlInv, HtTypeInv, HtDaemonPlaces, HtPcs, HtKinds, HtTypes, HtGo, htQueue,
            htGc, htState
<1>1. ASSUME HtTick PROVE HtControlInv'
  <2>1. htTasks' \in [HtKinds -> {"none", "later", "due"}]
    BY <1>1 DEF HtTick
  <2> QED BY <1>1, <2>1 DEF HtTick
<1>18. ASSUME UNCHANGED htVars PROVE HtControlInv'
  BY <1>18 DEF htVars
<1>2. ASSUME HtGetTask PROVE HtControlInv'
  <2>1. HtFirst \subseteq HtKinds
    BY DEF HtFirst
  <2>2. ASSUME NEW k \in HtFirst, htTasks' = [htTasks EXCEPT ![k] = "none"], htKind' = k,
               htPc' = [htPc EXCEPT ![HtDaemon] = k]
        PROVE  HtControlInv'
    BY <1>2, <2>1, <2>2 DEF HtGetTask
  <2>3. ASSUME NEW pc \in {"stopped", "empty", "timed"}, htPc' = [htPc EXCEPT ![HtDaemon] = pc],
               UNCHANGED <<htTasks, htKind>>
        PROVE  HtControlInv'
    BY <1>2, <2>3 DEF HtGetTask
  <2> QED BY <1>2, <2>2, <2>3 DEF HtGetTask
<1>3. ASSUME HtTimedOut \/ HtStart \/ HtTrim \/ HtConcurrentGc \/ HtAwait PROVE HtControlInv'
  <2>1. CASE HtTimedOut
    BY <2>1 DEF HtTimedOut
  <2>2. CASE HtStart
    BY <2>2 DEF HtStart
  <2>3. CASE HtTrim
    BY <2>3 DEF HtTrim
  <2>4. CASE HtConcurrentGc
    BY <2>4 DEF HtConcurrentGc
  <2>5. CASE HtAwait
    BY <2>5 DEF HtAwait
  <2> QED BY <1>3, <2>1, <2>2, <2>3, <2>4, <2>5
<1>4. ASSUME HtReadDesired \/ HtCare \/ HtChangeCollector \/ HtClear PROVE HtControlInv'
  <2>1. CASE HtReadDesired
    BY <2>1 DEF HtReadDesired
  <2>2. CASE HtCare
    BY <2>2 DEF HtCare
  <2>3. CASE HtChangeCollector
    BY <2>3 DEF HtChangeCollector
  <2>4. CASE HtClear
    BY <2>4 DEF HtClear
  <2> QED BY <1>4, <2>1, <2>2, <2>3, <2>4
<1>5. ASSUME HtClaimTransition PROVE HtControlInv'
  BY <1>5 DEF HtClaimTransition, HtMoving
<1>6. ASSUME NEW t \in HtAll, HtPend(t) PROVE HtControlInv'
  <2>1. t /= HtDaemon /\ HtTargetTime(t) \in {"due", "later"}
    BY <1>6 DEF HtPend, HtTargetTime
  <2>2. htTasks' = htTasks \/ htTasks' = [htTasks EXCEPT !["transition"] = HtTargetTime(t)]
    BY <1>6 DEF HtPend
  <2>5. htPending' \in SUBSET HtKinds
    BY <1>6 DEF HtPend
  <2>3. \/ \E pc \in {"idle", "addTransition"} : htPc' = [htPc EXCEPT ![t] = pc]
        \/ htPc' = HtSignal([htPc EXCEPT ![t] = "idle"])
    BY <1>6 DEF HtPend
  <2>8. htType' = htType
    BY <1>6 DEF HtPend
  <2>4. htPc' \in [HtAll -> HtPcs] /\ HtDaemonPlaces'
    BY <2>1, <2>3, <2>8 DEF HtSignal, HtAsleep
  <2>6. htTasks' \in [HtKinds -> {"none", "later", "due"}]
    BY <2>1, <2>2
  <2>7. UNCHANGED <<htKind, htType, htJank, htBackground, htDesired, htCollector, htRunning,
                    htDisabled>>
    BY <1>6 DEF HtPend
  <2> QED BY <2>4, <2>5, <2>6, <2>7
<1>7. ASSUME NEW t \in HtAll, HtAdd(t) PROVE HtControlInv'
  <2>1. PICK from \in {"addGc", "addTrim", "addTransition"}, kind \in HtKinds,
             time \in {"due", "later"} : HtAddTask(t, from, kind, time)
    BY <1>7 DEF HtAdd, HtTargetTime
  <2>2. t /= HtDaemon
    BY <2>1 DEF HtAddTask
  <2>3. htPc' \in [HtAll -> HtPcs] /\ HtDaemonPlaces'
    BY <2>1, <2>2 DEF HtAddTask, HtSignal, HtAsleep
  <2>4. htTasks' \in [HtKinds -> {"none", "later", "due"}]
    BY <2>1 DEF HtAddTask
  <2> QED BY <2>1, <2>3, <2>4 DEF HtAddTask
<1>8. ASSUME NEW t \in HtAll, HtClaimGc(t) PROVE HtControlInv'
  BY <1>8 DEF HtClaimGc, HtAfterGc
<1>9. ASSUME NEW t \in HtAll, HtFinish(t) PROVE HtControlInv'
  BY <1>9 DEF HtFinish, HtAfterGc
<1>10. ASSUME NEW t \in HtAll, HtQuiet(t) PROVE HtControlInv'
  BY <1>10 DEF HtQuiet
<1>11. ASSUME NEW t \in HtAll, HtEnableMoving(t) PROVE HtControlInv'
  BY <1>11 DEF HtEnableMoving
<1>12. ASSUME NEW t \in HtThreads, HtRequestGc(t) PROVE HtControlInv'
  BY <1>12 DEF HtRequestGc, HtRequest
<1>13. ASSUME NEW t \in HtThreads, HtRequestTrim(t) PROVE HtControlInv'
  BY <1>13 DEF HtRequestTrim, HtRequest
<1>14. ASSUME NEW t \in HtAll, HtRequestTransition(t) PROVE HtControlInv'
  BY <1>14 DEF HtRequestTransition
<1>19. ASSUME NEW t \in HtThreads, HtUpdateState(t) PROVE HtControlInv'
  BY <1>19 DEF HtUpdateState, HtRequest
<1>20. ASSUME NEW t \in HtAll, HtCompact(t) PROVE HtControlInv'
  BY <1>20 DEF HtCompact, HtAfterGc
<1>21. ASSUME NEW t \in HtThreads, HtCompactForAlloc(t) PROVE HtControlInv'
  BY <1>21 DEF HtCompactForAlloc, HtRequest
<1>15. ASSUME NEW t \in HtThreads, HtStop(t) PROVE HtControlInv'
  BY <1>15 DEF HtStop, HtRequest
<1>16. ASSUME NEW t \in HtThreads, HtCollect(t) PROVE HtControlInv'
  BY <1>16 DEF HtCollect, HtRequest
<1>17. ASSUME NEW t \in HtThreads, HtDisableMoving(t) PROVE HtControlInv'
  BY <1>17 DEF HtDisableMoving, HtRequest
<1> HIDE DEF HtControlInv
<1> QED BY <1>1, <1>2, <1>3, <1>4, <1>5, <1>6, <1>7, <1>8, <1>9, <1>10, <1>11, <1>12, <1>13,
           <1>14, <1>15, <1>16, <1>17, <1>18, <1>19, <1>20, <1>21, HtNextCases
        DEF HtDaemonStep, HtStep, HtThreadRequest

(***************************************************************************)
(* Collections and critical sections.  Eight actions change who collects   *)
(* or who forbids moving; the others leave both alone.                     *)
(***************************************************************************)
HtGcStep ==
    \/ HtClaimTransition \/ HtChangeCollector
    \/ \E t \in HtAll : HtClaimGc(t) \/ HtCompact(t) \/ HtFinish(t) \/ HtQuiet(t)
                         \/ HtEnableMoving(t)
    \/ \E t \in HtThreads : HtDisableMoving(t)

HtSameGc ==
    /\ \A u \in HtAll : htPc'[u] \in {"changing", "finish"} <=> htPc[u] \in {"changing", "finish"}
    /\ \A u \in HtAll : htPc'[u] = "critical" <=> htPc[u] = "critical"
    /\ \A u \in HtAll : htPc'[u] = "quiet" <=> htPc[u] = "quiet"
    /\ htRunning' = htRunning /\ htDisabled' = htDisabled

\* Requests, the queue and the daemon's waits leave collections and critical sections alone.
LEMMA HtOtherSteps == HtControlInv /\ [HtNext]_htVars => HtGcStep \/ HtSameGc
<1> SUFFICES ASSUME HtControlInv, [HtNext]_htVars, ~HtGcStep PROVE HtSameGc
  OBVIOUS
<1>0. HtDaemon \in HtAll /\ HtDaemon \notin HtThreads /\ HtThreads \subseteq HtAll
  BY HeapTasksAssumption DEF HtAll
<1> USE <1>0 DEF HtControlInv, HtTypeInv, HtDaemonPlaces, HtKinds, HtGo, htQueue, htGc, htState,
            HtSameGc
<1>1. ASSUME HtTick \/ UNCHANGED htVars PROVE HtSameGc
  BY <1>1 DEF HtTick, htVars
<1>2. ASSUME HtGetTask PROVE HtSameGc
  <2>1. HtFirst \subseteq HtKinds
    BY DEF HtFirst
  <2>2. /\ htPc[HtDaemon] \in {"get", "empty", "timed"}
        /\ \E pc \in HtKinds \union {"stopped", "empty", "timed"} :
              htPc' = [htPc EXCEPT ![HtDaemon] = pc]
    BY <1>2, <2>1 DEF HtGetTask, HtAsleep
  <2> QED BY <1>2, <2>2 DEF HtGetTask
<1>3. ASSUME HtTimedOut \/ HtStart \/ HtTrim \/ HtConcurrentGc \/ HtAwait PROVE HtSameGc
  BY <1>3 DEF HtTimedOut, HtStart, HtTrim, HtConcurrentGc, HtAwait
<1>4. ASSUME HtReadDesired \/ HtCare \/ HtClear PROVE HtSameGc
  BY <1>4 DEF HtReadDesired, HtCare, HtClear
<1>5. ASSUME NEW t \in HtAll, HtPend(t) PROVE HtSameGc
  <2>1. htPc[t] = "pend" /\ htRunning' = htRunning /\ htDisabled' = htDisabled
    BY <1>5 DEF HtPend
  <2>2. \/ \E pc \in {"idle", "addTransition"} : htPc' = [htPc EXCEPT ![t] = pc]
        \/ htPc' = HtSignal([htPc EXCEPT ![t] = "idle"])
    BY <1>5 DEF HtPend
  <2> QED BY <2>1, <2>2 DEF HtSignal, HtAsleep
<1>6. ASSUME NEW t \in HtAll, HtAdd(t) PROVE HtSameGc
  <2>1. /\ htPc[t] \in {"addGc", "addTrim", "addTransition"}
        /\ htRunning' = htRunning /\ htDisabled' = htDisabled
        /\ htPc' = HtSignal([htPc EXCEPT ![t] = "idle"])
    BY <1>6 DEF HtAdd, HtAddTask
  <2> QED BY <2>1 DEF HtSignal, HtAsleep
<1>7. ASSUME NEW t \in HtThreads, HtRequestGc(t) \/ HtRequestTrim(t) PROVE HtSameGc
  BY <1>7 DEF HtRequestGc, HtRequestTrim, HtRequest
<1>8. ASSUME NEW t \in HtAll, HtRequestTransition(t) PROVE HtSameGc
  BY <1>8 DEF HtRequestTransition
<1>9. ASSUME NEW t \in HtThreads, HtStop(t) \/ HtCollect(t) PROVE HtSameGc
  BY <1>9 DEF HtStop, HtCollect, HtRequest
<1>10. ASSUME NEW t \in HtThreads, HtUpdateState(t) \/ HtCompactForAlloc(t) PROVE HtSameGc
  BY <1>10 DEF HtUpdateState, HtCompactForAlloc, HtRequest
<1> HIDE DEF HtControlInv, HtSameGc
<1> QED BY <1>1, <1>2, <1>3, <1>4, <1>5, <1>6, <1>7, <1>8, <1>9, <1>10, HtNextCases
        DEF HtDaemonStep, HtStep, HtThreadRequest, HtGcStep

\* Whoever collects has found collector_type_running_ to be none.
LEMMA HtRunnerStep == HtControlInv /\ HtRunnerInv /\ [HtNext]_htVars => HtRunnerInv'
<1> SUFFICES ASSUME HtControlInv, HtRunnerInv, [HtNext]_htVars PROVE HtRunnerInv'
  OBVIOUS
<1>0. HtDaemon \in HtAll /\ HtDaemon \notin HtThreads /\ HtThreads \subseteq HtAll
  BY HeapTasksAssumption DEF HtAll
<1> USE <1>0 DEF HtControlInv, HtTypeInv, HtTypes, HtRunnerInv, HtGo
<1>1. ASSUME HtClaimTransition PROVE HtRunnerInv'
  BY <1>1 DEF HtClaimTransition, HtMoving
<1>2. ASSUME HtChangeCollector PROVE HtRunnerInv'
  BY <1>2 DEF HtChangeCollector
<1>3. ASSUME NEW t \in HtAll, HtClaimGc(t) PROVE HtRunnerInv'
  BY <1>3 DEF HtClaimGc, HtAfterGc
<1>4. ASSUME NEW t \in HtAll, HtFinish(t) PROVE HtRunnerInv'
  BY <1>4 DEF HtFinish, HtAfterGc
<1>5. ASSUME NEW t \in HtAll, HtQuiet(t) \/ HtEnableMoving(t) PROVE HtRunnerInv'
  BY <1>5 DEF HtQuiet, HtEnableMoving, htGc
<1>6. ASSUME NEW t \in HtThreads, HtDisableMoving(t) PROVE HtRunnerInv'
  BY <1>6 DEF HtDisableMoving, HtRequest
<1>7. ASSUME HtSameGc PROVE HtRunnerInv'
  BY <1>7 DEF HtSameGc
<1>8. ASSUME NEW t \in HtAll, HtCompact(t) PROVE HtRunnerInv'
  BY <1>8 DEF HtCompact, HtAfterGc
<1> HIDE DEF HtControlInv, HtRunnerInv
<1> QED BY <1>1, <1>2, <1>3, <1>4, <1>5, <1>6, <1>7, <1>8, HtOtherSteps DEF HtGcStep

\* disable_moving_gc_count_ counts the threads that have forbidden moving collections.
HtCountInv == IsFiniteSet(HtForbidding) /\ htDisabled = Cardinality(HtForbidding)

\* disable_moving_gc_count_ stays the number of threads in critical sections.
LEMMA HtCountStep == HtControlInv /\ HtCountInv /\ [HtNext]_htVars => HtCountInv'
<1> SUFFICES ASSUME HtControlInv, HtCountInv, [HtNext]_htVars PROVE HtCountInv'
  OBVIOUS
<1>0. /\ HtDaemon \in HtAll /\ HtDaemon \notin HtThreads /\ HtThreads \subseteq HtAll
      /\ \A t \in HtAll : t /= HtDaemon => t \in HtThreads
      /\ IsFiniteSet(HtForbidding)
  BY HeapTasksAssumption DEF HtAll, HtCountInv
<1> USE <1>0 DEF HtControlInv, HtTypeInv, HtDaemonPlaces, HtGo
<1>1. ASSUME HtClaimTransition \/ HtChangeCollector
      PROVE  HtForbidding' = HtForbidding /\ htDisabled' = htDisabled
  BY <1>1 DEF HtClaimTransition, HtChangeCollector, HtForbidding
<1>2. ASSUME NEW t \in HtAll, HtClaimGc(t) \/ HtCompact(t) \/ HtFinish(t) \/ HtQuiet(t)
      PROVE  HtForbidding' = HtForbidding /\ htDisabled' = htDisabled
  BY <1>2 DEF HtClaimGc, HtCompact, HtFinish, HtQuiet, HtAfterGc, HtForbidding, htGc
<1>3. ASSUME NEW t \in HtAll, HtEnableMoving(t) PROVE HtCountInv'
  <2>1. t \in HtForbidding /\ HtForbidding' = HtForbidding \ {t} /\ htDisabled' = htDisabled - 1
    BY <1>3 DEF HtEnableMoving, HtForbidding
  <2>2. IsFiniteSet(HtForbidding') /\ Cardinality(HtForbidding') = Cardinality(HtForbidding) - 1
    BY <2>1, FS_RemoveElement
  <2> QED BY <2>1, <2>2 DEF HtCountInv
<1>4. ASSUME NEW t \in HtThreads, HtDisableMoving(t) PROVE HtCountInv'
  <2>1. /\ t \notin HtForbidding /\ HtForbidding' = HtForbidding \union {t}
        /\ htDisabled' = htDisabled + 1
    BY <1>4 DEF HtDisableMoving, HtRequest, HtForbidding
  <2>2. IsFiniteSet(HtForbidding') /\ Cardinality(HtForbidding') = Cardinality(HtForbidding) + 1
    BY <2>1, FS_AddElement
  <2> QED BY <2>1, <2>2 DEF HtCountInv
<1>5. ASSUME HtSameGc PROVE HtForbidding' = HtForbidding /\ htDisabled' = htDisabled
  BY <1>5 DEF HtSameGc, HtForbidding
<1>6. ASSUME HtForbidding' = HtForbidding /\ htDisabled' = htDisabled PROVE HtCountInv'
  BY <1>6 DEF HtCountInv
<1> HIDE DEF HtControlInv
<1> QED BY <1>1, <1>2, <1>3, <1>4, <1>5, <1>6, HtOtherSteps DEF HtGcStep

\* A count of zero means that nobody is in a critical section.
LEMMA HtZeroMeansNobody ==
    ASSUME HtCountInv, htDisabled = 0
    PROVE  \A t \in HtThreads : htPc[t] /= "critical"
<1>1. HtForbidding = {}
  BY FS_EmptySet DEF HtCountInv
<1> QED BY <1>1 DEF HtForbidding

\* A moving collection starts only without critical sections, and a critical section only
\* without a moving collection.
LEMMA HtNoMoveStep ==
    HtControlInv /\ HtCountInv /\ HtNoMoveInCritical /\ [HtNext]_htVars => HtNoMoveInCritical'
<1> SUFFICES ASSUME HtControlInv, HtCountInv, HtNoMoveInCritical, [HtNext]_htVars
             PROVE  HtNoMoveInCritical'
  OBVIOUS
<1>0. HtDaemon \in HtAll /\ HtDaemon \notin HtThreads /\ HtThreads \subseteq HtAll
  BY HeapTasksAssumption DEF HtAll
<1> USE <1>0 DEF HtControlInv, HtTypeInv, HtDaemonPlaces, HtTypes, HtNoMoveInCritical,
            HtMoving, HtGo
<1>1. ASSUME HtClaimTransition PROVE HtNoMoveInCritical'
  <2>1. CASE htDisabled = 0
    BY <1>1, <2>1, HtZeroMeansNobody DEF HtClaimTransition
  <2>2. CASE htDisabled /= 0
    BY <1>1, <2>2 DEF HtClaimTransition
  <2> QED BY <2>1, <2>2
<1>2. ASSUME HtChangeCollector PROVE HtNoMoveInCritical'
  BY <1>2 DEF HtChangeCollector
<1>3. ASSUME NEW t \in HtAll, HtClaimGc(t) PROVE HtNoMoveInCritical'
  <2>1. CASE htDisabled = 0
    BY <1>3, <2>1, HtZeroMeansNobody DEF HtClaimGc, HtAfterGc
  <2>2. CASE htDisabled /= 0
    BY <1>3, <2>2 DEF HtClaimGc, HtAfterGc
  <2> QED BY <2>1, <2>2
<1>4. ASSUME NEW t \in HtAll, HtFinish(t) PROVE HtNoMoveInCritical'
  BY <1>4 DEF HtFinish
<1>5. ASSUME NEW t \in HtAll, HtQuiet(t) \/ HtEnableMoving(t) PROVE HtNoMoveInCritical'
  BY <1>5 DEF HtQuiet, HtEnableMoving, htGc
<1>6. ASSUME NEW t \in HtThreads, HtDisableMoving(t) PROVE HtNoMoveInCritical'
  BY <1>6 DEF HtDisableMoving, HtRequest
<1>7. ASSUME HtSameGc PROVE HtNoMoveInCritical'
  BY <1>7 DEF HtSameGc
<1>8. ASSUME NEW t \in HtAll, HtCompact(t) PROVE HtNoMoveInCritical'
  <2>1. CASE htDisabled = 0
    BY <1>8, <2>1, HtZeroMeansNobody DEF HtCompact, HtAfterGc
  <2>2. CASE htDisabled /= 0
    BY <1>8, <2>2 DEF HtCompact, HtAfterGc
  <2> QED BY <2>1, <2>2
<1> HIDE DEF HtControlInv, HtNoMoveInCritical
<1> QED BY <1>1, <1>2, <1>3, <1>4, <1>5, <1>6, <1>7, <1>8, HtOtherSteps DEF HtGcStep

(***************************************************************************)
(* Pending marks.                                                          *)
(***************************************************************************)
HtRunPcs == {"collect", "await", "care", "compact", "change", "changing", "finish", "clear"}

HtAddPc(k) == CASE k = "gc" -> "addGc" [] k = "trim" -> "addTrim" [] OTHER -> "addTransition"

\* The mark of kind k is covered by a task that is queued, run, or about to be queued.
HtCovered(k) ==
    \/ htTasks[k] /= "none"
    \/ htKind = k /\ htPc[HtDaemon] \in HtRunPcs \union {k}
    \/ \E t \in HtThreads : htPc[t] = HtAddPc(k)

\* A task leaves the queue into the daemon's hands; the daemon takes the mark away when it is
\* done with it; a request sets the mark only if it is going to add the task.
LEMMA HtPendingStep ==
    HtControlInv /\ HtPendingHasTask /\ [HtNext]_htVars => HtPendingHasTask'
<1> SUFFICES ASSUME HtControlInv, \A k \in htPending : HtCovered(k), [HtNext]_htVars,
                    NEW k \in htPending'
             PROVE  HtCovered(k)'
  BY DEF HtPendingHasTask, HtCovered, HtRunPcs, HtAddPc
<1>0. /\ HtDaemon \in HtAll /\ HtDaemon \notin HtThreads /\ HtThreads \subseteq HtAll
      /\ \A t \in HtAll : t /= HtDaemon => t \in HtThreads
  BY HeapTasksAssumption DEF HtAll
<1> USE <1>0 DEF HtControlInv, HtTypeInv, HtDaemonPlaces, HtKinds, HtCovered, HtRunPcs, HtAddPc,
            HtGo, htQueue, htGc, htState
<1>1. ASSUME HtTick \/ UNCHANGED htVars PROVE HtCovered(k)'
  BY <1>1 DEF HtTick, htVars
<1>2. ASSUME HtGetTask PROVE HtCovered(k)'
  <2>1. htPc[HtDaemon] \in {"get", "empty", "timed"} /\ htPending' = htPending
    BY <1>2 DEF HtGetTask, HtAsleep
  <2>2. htTasks[k] /= "none" \/ \E t \in HtThreads : htPc[t] = HtAddPc(k)
    BY <2>1
  <2>3. \A t \in HtThreads : htPc'[t] = htPc[t]
    BY <1>2 DEF HtGetTask
  <2>4. \/ htTasks'[k] = htTasks[k]
        \/ htKind' = k /\ htPc'[HtDaemon] = k
    BY <1>2, <2>1 DEF HtGetTask, HtFirst
  <2> QED BY <2>2, <2>3, <2>4
<1>3. ASSUME HtTimedOut \/ HtStart \/ HtTrim PROVE HtCovered(k)'
  BY <1>3 DEF HtTimedOut, HtStart, HtTrim
<1>4. ASSUME HtConcurrentGc \/ HtAwait PROVE HtCovered(k)'
  BY <1>4 DEF HtConcurrentGc, HtAwait
<1>5. ASSUME HtReadDesired \/ HtCare \/ HtChangeCollector PROVE HtCovered(k)'
  BY <1>5 DEF HtReadDesired, HtCare, HtChangeCollector
<1>6. ASSUME HtClaimTransition PROVE HtCovered(k)'
  BY <1>6 DEF HtClaimTransition
<1>7. ASSUME HtClear PROVE HtCovered(k)'
  BY <1>7 DEF HtClear
<1>8. ASSUME NEW t \in HtAll, HtPend(t) PROVE HtCovered(k)'
  <2>1. /\ htPc[t] = "pend" /\ htKind' = htKind
        /\ k \in htPending \/ (k = "transition" /\ htPc' = [htPc EXCEPT ![t] = "addTransition"])
    BY <1>8 DEF HtPend
  <2>2. \/ \E pc \in {"idle", "addTransition"} : htPc' = [htPc EXCEPT ![t] = pc]
        \/ htPc' = HtSignal([htPc EXCEPT ![t] = "idle"])
    BY <1>8 DEF HtPend
  <2>3. /\ \A u \in HtThreads \ {t} : htPc'[u] = htPc[u]
        /\ htPc[HtDaemon] \in {"empty", "timed"} \/ htPc'[HtDaemon] = htPc[HtDaemon]
    BY <2>1, <2>2 DEF HtSignal, HtAsleep
  <2>4. htTasks[k] /= "none" => htTasks'[k] /= "none"
    BY <1>8 DEF HtPend, HtTargetTime
  <2>5. t \in HtThreads
    BY <2>1
  <2> QED BY <2>1, <2>3, <2>4, <2>5
<1>9. ASSUME NEW t \in HtAll, HtAdd(t) PROVE HtCovered(k)'
  <2>1. /\ htPc' = HtSignal([htPc EXCEPT ![t] = "idle"]) /\ htKind' = htKind
        /\ htPending' = htPending /\ htPc[t] \in {"addGc", "addTrim", "addTransition"}
        /\ htTasks[k] /= "none" => htTasks'[k] /= "none"
        /\ htPc[t] = HtAddPc(k) => htTasks'[k] /= "none"
    BY <1>9 DEF HtAdd, HtAddTask, HtTargetTime
  <2>2. /\ \A u \in HtThreads \ {t} : htPc'[u] = htPc[u]
        /\ htPc[HtDaemon] \in {"empty", "timed"} \/ htPc'[HtDaemon] = htPc[HtDaemon]
    BY <2>1 DEF HtSignal, HtAsleep
  <2>3. CASE htTasks[k] /= "none"
    BY <2>1, <2>3
  <2>4. CASE htKind = k /\ htPc[HtDaemon] \in HtRunPcs \union {k}
    BY <2>1, <2>2, <2>4
  <2>5. ASSUME NEW u \in HtThreads, htPc[u] = HtAddPc(k) PROVE HtCovered(k)'
    <3>1. CASE u = t
      BY <2>1, <2>5, <3>1
    <3>2. CASE u /= t
      BY <2>2, <2>5, <3>2
    <3> QED BY <3>1, <3>2
  <2>6. k \in htPending
    BY <2>1
  <2> HIDE DEF HtAddPc, HtRunPcs
  <2>7. \/ htTasks[k] /= "none"
        \/ htKind = k /\ htPc[HtDaemon] \in HtRunPcs \union {k}
        \/ \E u \in HtThreads : htPc[u] = HtAddPc(k)
    BY <2>6
  <2> HIDE DEF HtCovered, HtControlInv
  <2> QED BY <2>3, <2>4, <2>5, <2>7
<1>10. ASSUME NEW t \in HtAll, HtClaimGc(t) PROVE HtCovered(k)'
  BY <1>10 DEF HtClaimGc, HtAfterGc
<1>11. ASSUME NEW t \in HtAll, HtFinish(t) PROVE HtCovered(k)'
  BY <1>11 DEF HtFinish, HtAfterGc
<1>12. ASSUME NEW t \in HtAll, HtQuiet(t) \/ HtEnableMoving(t) PROVE HtCovered(k)'
  BY <1>12 DEF HtQuiet, HtEnableMoving
<1>13. ASSUME NEW t \in HtThreads, HtRequestGc(t) PROVE HtCovered(k)'
  BY <1>13 DEF HtRequestGc, HtRequest
<1>14. ASSUME NEW t \in HtThreads, HtRequestTrim(t) PROVE HtCovered(k)'
  BY <1>14 DEF HtRequestTrim, HtRequest
<1>15. ASSUME NEW t \in HtAll, HtRequestTransition(t) PROVE HtCovered(k)'
  BY <1>15 DEF HtRequestTransition
<1>16. ASSUME NEW t \in HtThreads, HtStop(t) \/ HtCollect(t) PROVE HtCovered(k)'
  BY <1>16 DEF HtStop, HtCollect, HtRequest
<1>17. ASSUME NEW t \in HtThreads, HtDisableMoving(t) PROVE HtCovered(k)'
  BY <1>17 DEF HtDisableMoving, HtRequest
<1>18. ASSUME NEW t \in HtThreads, HtUpdateState(t) \/ HtCompactForAlloc(t) PROVE HtCovered(k)'
  BY <1>18 DEF HtUpdateState, HtCompactForAlloc, HtRequest
<1>19. ASSUME NEW t \in HtAll, HtCompact(t) PROVE HtCovered(k)'
  BY <1>19 DEF HtCompact, HtAfterGc
<1> HIDE DEF HtControlInv, HtCovered
<1> QED BY <1>1, <1>2, <1>3, <1>4, <1>5, <1>6, <1>7, <1>8, <1>9, <1>10, <1>11, <1>12, <1>13,
           <1>14, <1>15, <1>16, <1>17, <1>18, <1>19, HtNextCases
        DEF HtDaemonStep, HtStep, HtThreadRequest

HtInv == HtControlInv /\ HtRunnerInv /\ HtCountInv /\ HtNoMoveInCritical /\ HtPendingHasTask

\* A heap without tasks satisfies the inductive invariant.
LEMMA HtInvInit == HtInit => HtInv
<1> SUFFICES ASSUME HtInit PROVE HtInv
  OBVIOUS
<1>1. HtDaemon \in HtAll /\ HtDaemon \notin HtThreads /\ HtThreads \subseteq HtAll
  BY HeapTasksAssumption DEF HtAll
<1>2. HtControlInv /\ HtRunnerInv
  BY <1>1 DEF HtInit, HtControlInv, HtTypeInv, HtDaemonPlaces, HtRunnerInv, HtPcs, HtKinds, HtTypes
<1>3. HtForbidding = {}
  BY <1>1 DEF HtInit, HtForbidding
<1>4. HtCountInv
  BY <1>3, FS_EmptySet DEF HtInit, HtCountInv
<1>5. HtNoMoveInCritical /\ HtPendingHasTask
  BY <1>1 DEF HtInit, HtNoMoveInCritical, HtMoving, HtPendingHasTask
<1> QED BY <1>2, <1>4, <1>5 DEF HtInv

\* The inductive invariant of the heap tasks holds in every behaviour.
LEMMA HtInvHolds == HtSpec => []HtInv
<1>1. HtInv /\ [HtNext]_htVars => HtInv'
  BY HtControlStep, HtRunnerStep, HtCountStep, HtNoMoveStep, HtPendingStep DEF HtInv
<1> QED BY HtInvInit, <1>1, PTL DEF HtSpec

\* "Ensure there is only one GC at a time": collections of any number of threads and the
\* transitions of the daemon never overlap, and collector_type_running_ tells when one runs.
THEOREM HtOneGcAtATimeHolds == HtSpec => []HtOneGcAtATime
<1>1. HtRunnerInv => HtOneGcAtATime
  <2> SUFFICES ASSUME HtRunnerInv PROVE HtOneGcAtATime
    OBVIOUS
  <2> DEFINE Runners == {t \in HtAll : htPc[t] \in {"changing", "finish"}}
  <2>1. Runners = {} \/ \E t \in HtAll : Runners = {t}
    BY DEF HtRunnerInv
  <2>2. CASE Runners = {}
    BY <2>2, FS_EmptySet DEF HtRunnerInv, HtOneGcAtATime
  <2>3. ASSUME NEW t \in HtAll, Runners = {t} PROVE HtOneGcAtATime
    <3>1. Cardinality(Runners) = 1
      BY <2>3, FS_Singleton
    <3> QED BY <3>1 DEF HtRunnerInv, HtOneGcAtATime
  <2> QED BY <2>1, <2>2, <2>3
<1> QED BY <1>1, HtInvHolds, PTL DEF HtInv

\* GetPrimitiveArrayCritical: neither a moving collection nor a copying transition nor a
\* homogeneous space compaction runs beside a thread that IncrementDisableMovingGC has let go on.
THEOREM HtNoMoveInCriticalHolds == HtSpec => []HtNoMoveInCritical
BY HtInvHolds, PTL DEF HtInv

\* concurrent_gc_pending_, pending_collector_transition_ and pending_heap_trim_ never stay set
\* without a task that will clear them.
THEOREM HtPendingHasTaskHolds == HtSpec => []HtPendingHasTask
BY HtInvHolds, PTL DEF HtInv

-----------------------------------------------------------------------------
(***************************************************************************)
(* Reference processing                                                    *)
(***************************************************************************)

\* Where the collector can be.
RpPhases == {"idle", "mark", "args", "soft", "forward", "clear_soft", "finalizer",
             "enqueue_finalizer", "clear_phantom", "done", "sweep", "enqueue"}

\* Where a thread can be in GetReferent, Clear or the enqueueing of a reference.
RpPcs == {"out", "test", "loop", "wait", "circular", "wait_circular"}

\* The reference queues of the processor: one for each kind, and the cleared references.
RpQueueNames == RpKinds \union {"cleared"}

\* The phases in which GetReferent takes the slow path.
RpSlowPhases == {"args", "soft", "forward", "clear_soft", "finalizer", "enqueue_finalizer",
                 "clear_phantom", "done"}

\* Those of them that preserve references.
RpPreservingPhases == {"forward", "enqueue_finalizer"}

\* The types of the variables, and which flag is set in which phase.
RpTypeInv ==
    /\ rpReferent \in [RpAll -> RpObjects \union {RpNull}]
    /\ rpZombie \in [RpAll -> RpObjects \union {RpNull}]
    /\ rpNext \in [RpAll -> RpAll \union {RpNull}]
    /\ rpList \in [RpQueueNames -> RpAll \union {RpNull}]
    /\ rpQueued \in [RpAll -> RpQueueNames \union {"none"}]
    /\ rpFields \in [RpObjects -> SUBSET RpObjects]
    /\ rpMarked \in SUBSET RpObjects /\ rpGrey \in SUBSET rpMarked /\ rpScan \in SUBSET RpAll
    /\ rpSwept \in SUBSET RpObjects
    /\ rpPhase \in RpPhases
    /\ rpSlow <=> rpPhase \in RpSlowPhases
    /\ rpCallback <=> rpPhase \in RpSlowPhases \ {"args"}
    /\ rpPreserving <=> rpPhase \in RpPreservingPhases
    /\ rpCursor \in RpAll \union {RpNull}
    /\ rpPc \in [RpThreads -> RpPcs]
    /\ rpRef \in [RpThreads -> RpAll \union {RpNull}]
    /\ \A t \in RpThreads : rpPc[t] # "out" => rpRef[t] \in RpAll
    /\ rpSeen \in [RpThreads -> RpObjects \union {RpNull}]
    /\ rpHeld \in [RpThreads -> RpObjects \union {RpNull}]
    /\ rpSlowly \in [RpThreads -> BOOLEAN]

\* Through next, the references in on are one cycle, entered at last.
RpRing(next, last, on) ==
    IF last = RpNull THEN on = {}
    ELSE \E n \in Nat \ {0} : \E s \in [1 .. n -> on] :
            /\ s[1] = last
            /\ \A r \in on : \E i \in 1 .. n : s[i] = r
            /\ \A i, j \in 1 .. n : s[i] = s[j] => i = j
            /\ \A i \in 1 .. (n - 1) : next[s[i]] = s[i + 1]
            /\ next[s[n]] = last

\* The references on a queue.
RpOn(queued, q) == {r \in RpAll : queued[r] = q}

\* Every queue is a ring of exactly the references on it.
RpRings(next, list, queued) == \A q \in RpQueueNames : RpRing(next, list[q], RpOn(queued, q))

\* A reference is on the queue of its kind or has been cleared; one that is linked without being
\* on a queue is a sentinel, whose referent has been taken away.
RpQueueInv ==
    /\ RpRings(rpNext, rpList, rpQueued)
    /\ \A r \in RpAll : /\ rpQueued[r] \in {"none", "cleared", RpRefs[r]}
                        /\ rpQueued[r] = "cleared" => rpReferent[r] = RpNull
                        /\ rpQueued[r] = "none" /\ rpNext[r] # RpNull => rpReferent[r] = RpNull
    /\ \A t \in RpThreads : rpPc[t] \in {"circular", "wait_circular"} => rpReferent[rpRef[t]] = RpNull
    /\ rpPhase \in {"clear_phantom", "done", "sweep"} => rpList["finalizer"] = RpNull
    /\ rpPhase \in {"done", "sweep"} => \A q \in {"soft", "weak", "phantom"} : rpList[q] = RpNull

\* Nothing leads to what has been freed, or from what is marked to it.
RpSweptInv ==
    /\ \A o \in RpObjects \ rpSwept : rpFields[o] \intersect rpSwept = {}
    /\ rpMarked \intersect rpSwept = {}
    /\ \A r \in RpAll : rpReferent[r] \notin rpSwept /\ rpZombie[r] \notin rpSwept
    /\ RpSlowPathIsSafe

\* The collector has come to reference r, and has scanned it.
RpScanned(r) == RpReached(r) /\ RpHolder[r] \notin rpGrey /\ r \notin rpScan

\* From the pause to the sweep, a reference that has been scanned and whose referent is not
\* marked is on a queue; only grey objects lead to white ones or have references that are still
\* to be scanned, and only while references are preserved.
RpColourInv ==
    /\ rpPhase \in RpSlowPhases \union {"sweep"} =>
          /\ \A r \in RpAll :
                /\ ~RpWhite(rpZombie[r])
                /\ RpScanned(r) /\ RpWhite(rpReferent[r]) => rpQueued[r] = RpRefs[r]
          /\ \A o \in rpMarked \ rpGrey : rpFields[o] \subseteq rpMarked
    /\ rpPhase \notin RpPreservingPhases => rpGrey = {} /\ rpScan = {}

\* The objects in black were reachable before references were preserved: mutators hold these only,
\* call only the references in them, and find in references that are on no queue these only.
RpBlack(black) ==
    /\ black \subseteq rpMarked /\ RpClosed(black)
    /\ \A t \in RpThreads : rpHeld[t] \in black \union {RpNull}
    /\ \A t \in RpThreads : rpPc[t] # "out" => RpHolder[rpRef[t]] \in black \union {RpNull}
    /\ \A r \in RpAll :
          rpNext[r] = RpNull /\ RpRefs[r] # "finalizer" /\ RpHolder[r] \in black \union {RpNull} =>
              rpReferent[r] \in black \union {RpNull}

\* No mutator holds a white object while GetReferent takes the slow path.
RpHeldInv ==
    /\ rpPhase \in RpPreservingPhases => \E black \in SUBSET RpObjects : RpBlack(black)
    /\ rpPhase \in RpSlowPhases => \A t \in RpThreads : ~RpWhite(rpHeld[t])
    /\ rpPhase = "sweep" => \A t \in RpThreads : rpSlowly[t] => ~RpWhite(rpHeld[t])

\* Mutators call only references that the collector has come to.
RpCallInv ==
    \A t \in RpThreads :
        (rpPhase \in RpSlowPhases /\ rpPc[t] # "out") \/
        (rpPhase = "sweep" /\ rpPc[t] \in {"loop", "wait"}) => RpReached(rpRef[t])

\* The inductive invariant.
RpInv == RpTypeInv /\ RpQueueInv /\ RpSweptInv /\ RpColourInv /\ RpHeldInv /\ RpCallInv

----------------------------------------------------------------------------
(* Rings *)

\* A nonempty set of naturals has a smallest element.
LEMMA NatHasMin ==
    ASSUME NEW T \in SUBSET Nat, T # {}
    PROVE  \E x \in T : \A y \in T : x <= y
<1>1. PICK x \in T : \A y \in T : ~(<<y, x>> \in OpToRel(<, Nat))
  BY NatLessThanWellFounded, WFMin
<1>2. \A y \in T : ~(y < x)
  BY <1>1 DEF OpToRel
<1> QED BY <1>2

\* A ring depends on the links of its own elements only.
LEMMA RpRingFrame ==
    ASSUME NEW next, NEW next2, NEW last, NEW on, RpRing(next, last, on), \A r \in on : next2[r] = next[r]
    PROVE  RpRing(next2, last, on)
<1>1. CASE last = RpNull
  BY <1>1 DEF RpRing
<1>2. CASE last # RpNull
  <2>1. PICK n \in Nat \ {0} : \E s \in [1 .. n -> on] :
            /\ s[1] = last
            /\ \A r \in on : \E i \in 1 .. n : s[i] = r
            /\ \A i, j \in 1 .. n : s[i] = s[j] => i = j
            /\ \A i \in 1 .. (n - 1) : next[s[i]] = s[i + 1]
            /\ next[s[n]] = last
    BY <1>2 DEF RpRing
  <2>2. PICK s \in [1 .. n -> on] :
            /\ s[1] = last
            /\ \A r \in on : \E i \in 1 .. n : s[i] = r
            /\ \A i, j \in 1 .. n : s[i] = s[j] => i = j
            /\ \A i \in 1 .. (n - 1) : next[s[i]] = s[i + 1]
            /\ next[s[n]] = last
    BY <2>1
  <2>3. \A i \in 1 .. (n - 1) : next2[s[i]] = s[i + 1]
    BY <2>2
  <2>4. next2[s[n]] = last
    BY <2>2
  <2>5. \E t \in [1 .. n -> on] :
            /\ t[1] = last
            /\ \A r \in on : \E i \in 1 .. n : t[i] = r
            /\ \A i, j \in 1 .. n : t[i] = t[j] => i = j
            /\ \A i \in 1 .. (n - 1) : next2[t[i]] = t[i + 1]
            /\ next2[t[n]] = last
    BY <2>2, <2>3, <2>4
  <2> QED BY <1>2, <2>5 DEF RpRing
<1> QED BY <1>1, <1>2

\* The links of a ring's elements lead to its elements.
LEMMA RpRingInside ==
    ASSUME NEW next, NEW last, NEW on, RpRing(next, last, on)
    PROVE  (last # RpNull => last \in on) /\ \A r \in on : last # RpNull /\ next[r] \in on
<1>1. CASE last = RpNull
  BY <1>1 DEF RpRing
<1>2. CASE last # RpNull
  <2>1. PICK n \in Nat \ {0} : \E s \in [1 .. n -> on] :
            /\ s[1] = last
            /\ \A r \in on : \E i \in 1 .. n : s[i] = r
            /\ \A i, j \in 1 .. n : s[i] = s[j] => i = j
            /\ \A i \in 1 .. (n - 1) : next[s[i]] = s[i + 1]
            /\ next[s[n]] = last
    BY <1>2 DEF RpRing
  <2>2. PICK s \in [1 .. n -> on] :
            /\ s[1] = last
            /\ \A r \in on : \E i \in 1 .. n : s[i] = r
            /\ \A i \in 1 .. (n - 1) : next[s[i]] = s[i + 1]
            /\ next[s[n]] = last
    BY <2>1
  <2>3. last \in on
    BY <2>2
  <2>4. ASSUME NEW r \in on PROVE next[r] \in on
    <3>1. PICK i \in 1 .. n : s[i] = r
      BY <2>2
    <3>2. CASE i = n
      BY <2>2, <2>3, <3>1, <3>2
    <3>3. CASE i # n
      <4>1. i \in 1 .. (n - 1) /\ i + 1 \in 1 .. n
        BY <3>3
      <4> QED BY <2>2, <3>1, <4>1
    <3> QED BY <3>2, <3>3
  <2> QED BY <1>2, <2>3, <2>4
<1> QED BY <1>1, <1>2

\* EnqueuePendingReference: the new element comes behind the last.
LEMMA RpRingEnqueue ==
    ASSUME NEW next, NEW last, NEW on \in SUBSET RpAll, RpRing(next, last, on), NEW r \in RpAll, r \notin on,
           r # RpNull, NEW next2, NEW last2,
           last = RpNull => next2[r] = r /\ last2 = r,
           last # RpNull => /\ last2 = last /\ next2[r] = next[last] /\ next2[last] = r
                            /\ \A x \in on : x # last => next2[x] = next[x]
    PROVE  RpRing(next2, last2, on \union {r})
<1>1. CASE last = RpNull
  <2>1. on = {} /\ last2 = r /\ next2[r] = r
    BY <1>1 DEF RpRing
  <2> DEFINE s == [i \in 1 .. 1 |-> r]
  <2>2. /\ s \in [1 .. 1 -> on \union {r}] /\ s[1] = last2
        /\ \A x \in on \union {r} : \E i \in 1 .. 1 : s[i] = x
        /\ \A i, j \in 1 .. 1 : s[i] = s[j] => i = j
        /\ \A i \in 1 .. (1 - 1) : next2[s[i]] = s[i + 1]
        /\ next2[s[1]] = last2
    BY <2>1
  <2> HIDE DEF s
  <2>3. last2 # RpNull
    BY <2>1
  <2>4. \E n \in Nat \ {0} : \E u \in [1 .. n -> on \union {r}] :
            /\ u[1] = last2
            /\ \A x \in on \union {r} : \E i \in 1 .. n : u[i] = x
            /\ \A i, j \in 1 .. n : u[i] = u[j] => i = j
            /\ \A i \in 1 .. (n - 1) : next2[u[i]] = u[i + 1]
            /\ next2[u[n]] = last2
    <3> WITNESS 1 \in Nat \ {0}
    <3> QED BY <2>2
  <2> QED BY <2>3, <2>4 DEF RpRing
<1>2. CASE last # RpNull
  <2>1. PICK n \in Nat \ {0} : \E s \in [1 .. n -> on] :
            /\ s[1] = last
            /\ \A x \in on : \E i \in 1 .. n : s[i] = x
            /\ \A i, j \in 1 .. n : s[i] = s[j] => i = j
            /\ \A i \in 1 .. (n - 1) : next[s[i]] = s[i + 1]
            /\ next[s[n]] = last
    BY <1>2 DEF RpRing
  <2>2. PICK s \in [1 .. n -> on] :
            /\ s[1] = last
            /\ \A x \in on : \E i \in 1 .. n : s[i] = x
            /\ \A i, j \in 1 .. n : s[i] = s[j] => i = j
            /\ \A i \in 1 .. (n - 1) : next[s[i]] = s[i + 1]
            /\ next[s[n]] = last
    BY <2>1
  <2> DEFINE m == n + 1
             t == [i \in 1 .. m |-> IF i = 1 THEN s[1] ELSE IF i = 2 THEN r ELSE s[i - 1]]
  <2>3. m \in Nat \ {0} /\ m > 1 /\ n = m - 1
    OBVIOUS
  <2>4. /\ t[1] = s[1] /\ t[2] = r
        /\ \A i \in 3 .. m : t[i] = s[i - 1] /\ i - 1 \in 2 .. n
        /\ DOMAIN t = 1 .. m
    OBVIOUS
  <2>5. t \in [1 .. m -> on \union {r}]
    BY <2>2
  <2> HIDE DEF t
  <2>6. \A i \in 1 .. m : i = 1 \/ i = 2 \/ i \in 3 .. m
    OBVIOUS
  <2>7. \A i \in 2 .. n : s[i] # last /\ s[i] \in on
    BY <2>2
  <2>8. \A x \in on \union {r} : \E i \in 1 .. m : t[i] = x
    <3> TAKE x \in on \union {r}
    <3>1. CASE x = r
      BY <2>3, <2>4, <3>1
    <3>2. CASE x \in on
      <4>1. PICK i \in 1 .. n : s[i] = x
        BY <2>2, <3>2
      <4>2. CASE i = 1
        BY <2>4, <4>1, <4>2
      <4>3. CASE i # 1
        <5>1. i + 1 \in 3 .. m /\ (i + 1) - 1 = i /\ i + 1 \in 1 .. m
          BY <4>3
        <5> QED BY <2>4, <4>1, <5>1
      <4> QED BY <4>2, <4>3
    <3> QED BY <3>1, <3>2
  <2>9. \A i, j \in 1 .. m : t[i] = t[j] => i = j
    <3> SUFFICES ASSUME NEW i \in 1 .. m, NEW j \in 1 .. m, t[i] = t[j]
                 PROVE  i = j
      OBVIOUS
    <3>1. CASE i \in 3 .. m /\ j \in 3 .. m
      <4>1. i - 1 \in 1 .. n /\ j - 1 \in 1 .. n /\ s[i - 1] = s[j - 1]
        BY <2>4, <3>1
      <4>2. i - 1 = j - 1
        BY <2>2, <4>1
      <4> QED BY <4>2
    <3>2. CASE i \in 3 .. m /\ j \in 1 .. 2
      BY <2>2, <2>4, <2>7, <3>2
    <3>3. CASE i \in 1 .. 2 /\ j \in 3 .. m
      BY <2>2, <2>4, <2>7, <3>3
    <3>4. CASE i \in 1 .. 2 /\ j \in 1 .. 2
      <4>1. s[1] # r
        BY <2>2
      <4> QED BY <2>4, <3>4, <4>1
    <3> QED BY <3>1, <3>2, <3>3, <3>4
  <2>10. \A i \in 1 .. (m - 1) : next2[t[i]] = t[i + 1]
    <3> TAKE i \in 1 .. (m - 1)
    <3>1. CASE i = 1
      BY <1>2, <2>2, <2>4, <3>1
    <3>2. CASE i = 2
      <4>1. 2 \in 1 .. n /\ 3 \in 3 .. m /\ t[3] = s[2]
        BY <2>4, <3>2
      <4>2. 1 \in 1 .. (n - 1) /\ next[s[1]] = s[1 + 1]
        BY <2>2, <4>1
      <4> QED BY <1>2, <2>2, <2>4, <3>2, <4>1, <4>2
    <3>3. CASE i > 2
      <4>1. i \in 3 .. m /\ i + 1 \in 3 .. m /\ i - 1 \in 2 .. n /\ i - 1 \in 1 .. (n - 1)
        BY <3>3
      <4>2. t[i] = s[i - 1] /\ t[i + 1] = s[i] /\ next[s[i - 1]] = s[i]
        BY <2>2, <2>4, <4>1
      <4> QED BY <1>2, <2>7, <4>1, <4>2
    <3> QED BY <3>1, <3>2, <3>3
  <2>11. next2[t[m]] = last2
    <3>1. CASE n = 1
      BY <1>2, <2>2, <2>4, <3>1
    <3>2. CASE n > 1
      <4>1. m \in 3 .. m /\ t[m] = s[n] /\ n \in 2 .. n
        BY <2>4, <3>2
      <4> QED BY <1>2, <2>2, <2>7, <4>1
    <3> QED BY <3>1, <3>2
  <2>12. t[1] = last2 /\ last2 # RpNull
    BY <1>2, <2>2, <2>4
  <2> HIDE DEF m
  <2>13. \E u \in [1 .. m -> on \union {r}] :
            /\ u[1] = last2
            /\ \A x \in on \union {r} : \E i \in 1 .. m : u[i] = x
            /\ \A i, j \in 1 .. m : u[i] = u[j] => i = j
            /\ \A i \in 1 .. (m - 1) : next2[u[i]] = u[i + 1]
            /\ next2[u[m]] = last2
    BY <2>5, <2>8, <2>9, <2>10, <2>11, <2>12
  <2> QED BY <2>3, <2>12, <2>13 DEF RpRing
<1> QED BY <1>1, <1>2

\* DequeuePendingReference: the first element, behind the last, is taken out.
LEMMA RpRingDequeue ==
    ASSUME NEW next, NEW last, NEW on \in SUBSET RpAll, RpRing(next, last, on), last # RpNull,
           NEW next2, NEW last2,
           last = next[last] => last2 = RpNull,
           last # next[last] => /\ last2 = last /\ next2[last] = next[next[last]]
                                /\ \A x \in on \ {last, next[last]} : next2[x] = next[x]
    PROVE  next[last] \in on /\ last \in on /\ RpRing(next2, last2, on \ {next[last]})
<1>1. PICK n \in Nat \ {0} : \E s \in [1 .. n -> on] :
            /\ s[1] = last
            /\ \A x \in on : \E i \in 1 .. n : s[i] = x
            /\ \A i, j \in 1 .. n : s[i] = s[j] => i = j
            /\ \A i \in 1 .. (n - 1) : next[s[i]] = s[i + 1]
            /\ next[s[n]] = last
  BY DEF RpRing
<1>2. PICK s \in [1 .. n -> on] :
            /\ s[1] = last
            /\ \A x \in on : \E i \in 1 .. n : s[i] = x
            /\ \A i, j \in 1 .. n : s[i] = s[j] => i = j
            /\ \A i \in 1 .. (n - 1) : next[s[i]] = s[i + 1]
            /\ next[s[n]] = last
  BY <1>1
<1>3. CASE n = 1
  <2>1. last \in on /\ next[last] = last /\ on = {last}
    BY <1>2, <1>3
  <2> QED BY <2>1 DEF RpRing
<1>4. CASE n > 1
  <2> DEFINE m == n - 1
             first == next[last]
             t == [i \in 1 .. m |-> IF i = 1 THEN s[1] ELSE s[i + 1]]
  <2>1. 1 \in 1 .. n /\ 2 \in 1 .. n /\ 1 \in 1 .. (n - 1) /\ first = s[2] /\ first # last /\ first \in on /\ last \in on
    BY <1>2, <1>4
  <2>2. m \in Nat \ {0} /\ n = m + 1 /\ \A i \in 2 .. m : i + 1 \in 3 .. n
    BY <1>4
  <2>3. t[1] = s[1] /\ \A i \in 2 .. m : t[i] = s[i + 1]
    BY <1>4
  <2>4. \A i \in 3 .. n : s[i] \in on /\ s[i] # first /\ s[i] # last
    BY <1>2, <2>1
  <2>5. t \in [1 .. m -> on \ {first}]
    <3>1. \A i \in 1 .. m : (IF i = 1 THEN s[1] ELSE s[i + 1]) \in on \ {first}
      BY <1>2, <2>1, <2>2, <2>4
    <3> QED BY <3>1
  <2> HIDE DEF t, first
  <2>6. \A x \in on \ {first} : \E i \in 1 .. m : t[i] = x
    <3> TAKE x \in on \ {first}
    <3>1. PICK i \in 1 .. n : s[i] = x
      BY <1>2
    <3>2. CASE i = 1
      BY <2>2, <2>3, <3>1, <3>2
    <3>3. CASE i # 1
      <4>1. i # 2
        BY <2>1, <3>1
      <4>2. i - 1 \in 2 .. m /\ (i - 1) + 1 = i /\ i - 1 \in 1 .. m
        BY <3>3, <4>1
      <4> QED BY <2>3, <3>1, <4>2
    <3> QED BY <3>2, <3>3
  <2>7. \A i, j \in 1 .. m : t[i] = t[j] => i = j
    <3> SUFFICES ASSUME NEW i \in 1 .. m, NEW j \in 1 .. m, t[i] = t[j]
                 PROVE  i = j
      OBVIOUS
    <3>1. CASE i \in 2 .. m /\ j \in 2 .. m
      <4>1. i + 1 \in 1 .. n /\ j + 1 \in 1 .. n /\ s[i + 1] = s[j + 1]
        BY <2>3, <3>1
      <4>2. i + 1 = j + 1
        BY <1>2, <4>1
      <4> QED BY <4>2
    <3>2. CASE i \in 2 .. m /\ j = 1
      BY <1>2, <2>2, <2>3, <2>4, <3>2
    <3>3. CASE i = 1 /\ j \in 2 .. m
      BY <1>2, <2>2, <2>3, <2>4, <3>3
    <3> QED BY <3>1, <3>2, <3>3
  <2>8. /\ last2 = last /\ next2[last] = next[first]
        /\ \A x \in on \ {last, first} : next2[x] = next[x]
    BY <2>1 DEF first
  <2>9. \A i \in 1 .. (m - 1) : next2[t[i]] = t[i + 1]
    <3> TAKE i \in 1 .. (m - 1)
    <3>1. CASE i = 1
      <4>1. 2 \in 1 .. (n - 1) /\ 2 \in 2 .. m
        BY <3>1
      <4>2. next[s[2]] = s[2 + 1] /\ t[2] = s[2 + 1]
        BY <1>2, <2>3, <4>1
      <4> QED BY <1>2, <2>1, <2>3, <2>8, <3>1, <4>2
    <3>2. CASE i > 1
      <4>1. i \in 2 .. m /\ i + 1 \in 2 .. m /\ i + 1 \in 1 .. (n - 1) /\ i + 1 \in 3 .. n
        BY <3>2
      <4>2. t[i] = s[i + 1] /\ t[i + 1] = s[(i + 1) + 1] /\ next[s[i + 1]] = s[(i + 1) + 1]
        BY <1>2, <2>3, <4>1
      <4> QED BY <2>4, <2>8, <4>1, <4>2
    <3> QED BY <3>1, <3>2
  <2>10. next2[t[m]] = last2
    <3>1. CASE m = 1
      BY <1>2, <2>1, <2>2, <2>3, <2>8, <3>1
    <3>2. CASE m > 1
      <4>1. m \in 2 .. m /\ t[m] = s[n] /\ n \in 3 .. n
        BY <2>2, <2>3, <3>2
      <4> QED BY <1>2, <2>4, <2>8, <4>1
    <3> QED BY <2>2, <3>1, <3>2
  <2>11. t[1] = last2 /\ last2 # RpNull
    BY <1>2, <2>3, <2>8
  <2> HIDE DEF m
  <2>12. \E u \in [1 .. m -> on \ {first}] :
            /\ u[1] = last2
            /\ \A x \in on \ {first} : \E i \in 1 .. m : u[i] = x
            /\ \A i, j \in 1 .. m : u[i] = u[j] => i = j
            /\ \A i \in 1 .. (m - 1) : next2[u[i]] = u[i + 1]
            /\ next2[u[m]] = last2
    BY <2>5, <2>6, <2>7, <2>9, <2>10, <2>11
  <2>13. RpRing(next2, last2, on \ {first})
    BY <2>2, <2>11, <2>12 DEF RpRing
  <2> QED BY <2>1, <2>13 DEF first
<1> QED BY <1>3, <1>4

\* w is the walk of N steps along the links, from last.
RpIsWalk(w, next, last, N) ==
    w = [i \in 0 .. N |-> IF i = 0 THEN last ELSE
                          IF w[i - 1] = RpNull THEN RpNull ELSE next[w[i - 1]]]

\* The walk along a ring, of any length, exists: what follows an element is an element.
LEMMA RpWalkExists ==
    ASSUME NEW next, NEW last, NEW on \in SUBSET RpAll, RpNull \notin RpAll, last \in on,
           \A r \in on : next[r] \in on, NEW N \in Nat
    PROVE  \E w : RpIsWalk(w, next, last, N)
<1> DEFINE P(i) == \E w \in [0 .. i -> on] : w[0] = last /\ \A j \in 1 .. i : w[j] = next[w[j - 1]]
           T == {i \in Nat : ~P(i)}
<1>1. ASSUME T # {} PROVE FALSE
  <2>1. PICK i \in T : \A y \in T : i <= y
    BY <1>1, NatHasMin
  <2>2. i \in Nat /\ ~P(i)
    BY <2>1
  <2>3. CASE i = 0
    <3> DEFINE w == [j \in 0 .. 0 |-> last]
    <3>1. w \in [0 .. 0 -> on] /\ w[0] = last /\ \A j \in 1 .. 0 : w[j] = next[w[j - 1]]
      OBVIOUS
    <3> HIDE DEF w
    <3>2. P(0)
      BY <3>1
    <3> QED BY <2>2, <2>3, <3>2
  <2>4. CASE i # 0
    <3>1. i - 1 \in Nat /\ ~(i <= i - 1)
      BY <2>2, <2>4
    <3>2. P(i - 1)
      <4>1. i - 1 \notin T
        BY <2>1, <3>1, Zenon
      <4> HIDE DEF P
      <4> QED BY <3>1, <4>1
    <3>3. PICK v \in [0 .. (i - 1) -> on] : v[0] = last /\ \A j \in 1 .. (i - 1) : v[j] = next[v[j - 1]]
      BY <3>2
    <3> DEFINE w == [j \in 0 .. i |-> IF j = i THEN next[v[i - 1]] ELSE v[j]]
    <3>4. v[i - 1] \in on /\ \A j \in 0 .. i : j # i => j \in 0 .. (i - 1)
      BY <2>2, <3>1
    <3>5. w \in [0 .. i -> on]
      BY <3>4
    <3>6. w[0] = last
      BY <2>2, <2>4, <3>3
    <3>7. ASSUME NEW j \in 1 .. i PROVE w[j] = next[w[j - 1]]
      <4>1. j - 1 \in 0 .. (i - 1) /\ j - 1 # i /\ j - 1 \in 0 .. i /\ j \in 0 .. i
        BY <2>2
      <4>2. w[j - 1] = v[j - 1]
        BY <4>1
      <4>3. CASE j = i
        BY <4>1, <4>2, <4>3
      <4>4. CASE j # i
        <5>1. j \in 1 .. (i - 1) /\ w[j] = v[j]
          BY <4>1, <4>4
        <5> QED BY <3>3, <4>2, <5>1
      <4> QED BY <4>3, <4>4
    <3> HIDE DEF w
    <3>8. P(i)
      BY <3>5, <3>6, <3>7
    <3> QED BY <2>2, <3>8
  <2> QED BY <2>3, <2>4
<1>2. P(N)
  BY <1>1
<1>3. PICK w \in [0 .. N -> on] : w[0] = last /\ \A j \in 1 .. N : w[j] = next[w[j - 1]]
  BY <1>2
<1>4. \A i \in 0 .. N : w[i] = IF i = 0 THEN last ELSE IF w[i - 1] = RpNull THEN RpNull ELSE next[w[i - 1]]
  <2> TAKE i \in 0 .. N
  <2>1. CASE i = 0
    BY <1>3, <2>1
  <2>2. CASE i # 0
    <3>1. i \in 1 .. N /\ i - 1 \in 0 .. N
      BY <2>2
    <3>2. w[i - 1] \in on /\ w[i] = next[w[i - 1]]
      BY <1>3, <3>1
    <3> QED BY <2>2, <3>2
  <2> QED BY <2>1, <2>2
<1>5. RpIsWalk(w, next, last, N)
  BY <1>4 DEF RpIsWalk
<1> QED BY <1>5

\* The walk meets every element of the ring, and is back at the start when it has.
LEMMA RpWalkIsRing ==
    ASSUME NEW next, NEW last, last # RpNull, NEW on \in SUBSET RpAll, RpNull \notin RpAll,
           RpRing(next, last, on), IsFiniteSet(RpAll), NEW walk,
           RpIsWalk(walk, next, last, Cardinality(RpAll))
    PROVE  /\ {walk[i] : i \in 0 .. Cardinality(RpAll)} = on
           /\ walk[Cardinality(on)] = last
<1> DEFINE N == Cardinality(RpAll)
<1>0. N \in Nat
  BY FS_CardinalityType
<1>1. last \in on /\ \A r \in on : next[r] \in on
  BY RpRingInside
<1>2. PICK n \in Nat \ {0} : \E s \in [1 .. n -> on] :
            /\ s[1] = last
            /\ \A x \in on : \E i \in 1 .. n : s[i] = x
            /\ \A i, j \in 1 .. n : s[i] = s[j] => i = j
            /\ \A i \in 1 .. (n - 1) : next[s[i]] = s[i + 1]
            /\ next[s[n]] = last
  BY DEF RpRing
<1>3. PICK s \in [1 .. n -> on] :
            /\ s[1] = last
            /\ \A x \in on : \E i \in 1 .. n : s[i] = x
            /\ \A i, j \in 1 .. n : s[i] = s[j] => i = j
            /\ \A i \in 1 .. (n - 1) : next[s[i]] = s[i + 1]
            /\ next[s[n]] = last
  BY <1>2
<1>4. Cardinality(on) = n
  <2>1. s \in Bijection(1 .. n, on)
    BY <1>3 DEF Bijection, Injection, IsInjective, Surjection
  <2>2. ExistsBijection(1 .. n, on)
    BY <2>1 DEF ExistsBijection
  <2> QED BY <2>2, FS_CountingElements
<1>5. n <= N
  BY <1>4, FS_Subset
<1> HIDE DEF N
<1>6. walk[0] = last /\ \A i \in 1 .. N : i - 1 \in 0 .. N /\
          walk[i] = IF walk[i - 1] = RpNull THEN RpNull ELSE next[walk[i - 1]]
  BY <1>0 DEF N, RpIsWalk
<1>7. \A i \in 0 .. N : walk[i] \in on
  <2> DEFINE T == {i \in 0 .. N : walk[i] \notin on}
  <2>1. ASSUME T # {} PROVE FALSE
    <3>1. T \in SUBSET Nat
      BY <1>0
    <3> HIDE DEF T
    <3>2. PICK i \in T : \A y \in T : i <= y
      BY <2>1, <3>1, NatHasMin
    <3>3. i \in 0 .. N /\ walk[i] \notin on
      BY <3>2 DEF T
    <3>4. i # 0
      BY <1>1, <1>6, <3>3
    <3>5. i \in 1 .. N /\ i - 1 \in 0 .. N
      BY <1>0, <3>3, <3>4
    <3>6. i - 1 \notin T
      BY <3>1, <3>2, <3>5
    <3>7. walk[i - 1] \in on
      BY <3>5, <3>6 DEF T
    <3> QED BY <1>1, <1>6, <3>3, <3>5, <3>7
  <2> QED BY <2>1
<1>8. \A i \in 1 .. N : walk[i] = next[walk[i - 1]]
  BY <1>6, <1>7
<1>9. \A i \in 0 .. (n - 1) : walk[i] = s[i + 1]
  <2> DEFINE T == {i \in 0 .. (n - 1) : walk[i] # s[i + 1]}
  <2>1. ASSUME T # {} PROVE FALSE
    <3>1. T \in SUBSET Nat
      OBVIOUS
    <3> HIDE DEF T
    <3>2. PICK i \in T : \A y \in T : i <= y
      BY <2>1, <3>1, NatHasMin
    <3>3. i \in 0 .. (n - 1) /\ walk[i] # s[i + 1]
      BY <3>2 DEF T
    <3>4. i # 0
      BY <1>3, <1>6, <3>3
    <3>5. i \in 1 .. N /\ i - 1 \in 0 .. (n - 1) /\ i \in 1 .. (n - 1)
      BY <1>0, <1>5, <3>3, <3>4
    <3>6. i - 1 \notin T
      BY <3>1, <3>2, <3>5
    <3>7. walk[i - 1] = s[(i - 1) + 1] /\ (i - 1) + 1 = i
      BY <3>5, <3>6 DEF T
    <3>8. walk[i] = next[s[i]] /\ next[s[i]] = s[i + 1]
      BY <1>3, <1>8, <3>5, <3>7
    <3> QED BY <3>3, <3>8
  <2> QED BY <2>1
<1>10. walk[n] = last
  <2>1. n \in 1 .. N /\ n - 1 \in 0 .. (n - 1) /\ (n - 1) + 1 = n
    BY <1>0, <1>5
  <2>2. walk[n - 1] = s[n]
    BY <1>9, <2>1
  <2> QED BY <1>3, <1>8, <2>1, <2>2
<1>11. \A x \in on : \E i \in 0 .. N : walk[i] = x
  <2> TAKE x \in on
  <2>1. PICK i \in 1 .. n : s[i] = x
    BY <1>3
  <2>2. i - 1 \in 0 .. (n - 1) /\ (i - 1) + 1 = i /\ i - 1 \in 0 .. N
    BY <1>0, <1>5
  <2>3. walk[i - 1] = x
    BY <1>9, <2>1, <2>2
  <2> QED BY <2>2, <2>3
<1>12. {walk[i] : i \in 0 .. N} = on
  BY <1>7, <1>11
<1> QED BY <1>4, <1>10, <1>12 DEF N

\* Rings are what the walks along the queues show.
LEMMA RpRingsAreCycles ==
    ASSUME ReferenceProcessorAssumption, RpTypeInv, RpRings(rpNext, rpList, rpQueued)
    PROVE  RpQueuesAreCycles
<1>0. RpNull \notin RpAll /\ IsFiniteSet(RpAll) /\ DOMAIN rpList = RpQueueNames
  BY DEF ReferenceProcessorAssumption, RpAll, RpTypeInv
<1> SUFFICES ASSUME NEW q \in RpQueueNames
             PROVE  LET on == {r \in RpAll : rpQueued[r] = q}
                        walk[i \in 0 .. Cardinality(RpAll)] ==
                            IF i = 0 THEN rpList[q] ELSE
                            IF walk[i - 1] = RpNull THEN RpNull ELSE rpNext[walk[i - 1]]
                    IN  IF rpList[q] = RpNull THEN on = {}
                        ELSE /\ {walk[i] : i \in 0 .. Cardinality(RpAll)} = on
                             /\ walk[Cardinality(on)] = rpList[q]
  BY <1>0 DEF RpQueuesAreCycles
<1> DEFINE on == {r \in RpAll : rpQueued[r] = q}
           N == Cardinality(RpAll)
           walk[i \in 0 .. Cardinality(RpAll)] ==
                 IF i = 0 THEN rpList[q] ELSE
                 IF walk[i - 1] = RpNull THEN RpNull ELSE rpNext[walk[i - 1]]
<1>1. RpRing(rpNext, rpList[q], on) /\ on \in SUBSET RpAll
  BY DEF RpRings, RpOn
<1>2. CASE rpList[q] = RpNull
  BY <1>1, <1>2 DEF RpRing
<1>3. CASE rpList[q] # RpNull
  <2>1. rpList[q] \in on /\ \A r \in on : rpNext[r] \in on
    <3> HIDE DEF on
    <3> QED BY <1>1, <1>3, RpRingInside
  <2>2. N \in Nat
    BY <1>0, FS_CardinalityType
  <2>3. \E w : RpIsWalk(w, rpNext, rpList[q], N)
    <3> HIDE DEF on, N
    <3> QED BY <1>0, <1>1, <2>1, <2>2, RpWalkExists
  <2>4. walk = [i \in 0 .. N |-> IF i = 0 THEN rpList[q] ELSE
                                 IF walk[i - 1] = RpNull THEN RpNull ELSE rpNext[walk[i - 1]]]
    BY <2>3, Zenon DEF RpIsWalk
  <2> HIDE DEF walk
  <2>5. RpIsWalk(walk, rpNext, rpList[q], Cardinality(RpAll))
    BY <2>4, Zenon DEF RpIsWalk
  <2>6. {walk[i] : i \in 0 .. Cardinality(RpAll)} = on /\ walk[Cardinality(on)] = rpList[q]
    <3> HIDE DEF on
    <3> QED BY <1>0, <1>1, <1>3, <2>5, RpWalkIsRing
  <2> QED BY <1>3, <2>6, Zenon DEF walk
<1> QED BY <1>2, <1>3

----------------------------------------------------------------------------
(* Queues *)

\* The types of the links.
RpNextTypes == [RpAll -> RpAll \union {RpNull}]

\* The types of the lists.
RpListTypes == [RpQueueNames -> RpAll \union {RpNull}]

\* The types of what is on which queue.
RpQueuedTypes == [RpAll -> RpQueueNames \union {"none"}]

\* The names of the queues are not "none", and no reference is the null one.
LEMMA RpNames ==
    ASSUME ReferenceProcessorAssumption
    PROVE  /\ "none" \notin RpQueueNames /\ "cleared" \in RpQueueNames /\ RpKinds \subseteq RpQueueNames
           /\ "cleared" \notin RpKinds /\ RpNull \notin RpAll
           /\ \A r \in RpAll : RpRefs[r] \in RpKinds
BY DEF RpQueueNames, RpKinds, ReferenceProcessorAssumption, RpAll

\* What is on a queue is linked to what is on it.
LEMMA RpOnIsLinked ==
    ASSUME ReferenceProcessorAssumption, NEW next, NEW list, NEW queued, RpRings(next, list, queued),
           NEW x \in RpAll, queued[x] \in RpQueueNames
    PROVE  /\ next[x] \in RpAll /\ next[x] # RpNull /\ queued[next[x]] = queued[x]
           /\ list[queued[x]] # RpNull
<1>1. RpRing(next, list[queued[x]], RpOn(queued, queued[x])) /\ x \in RpOn(queued, queued[x])
  BY DEF RpRings, RpOn
<1>2. next[x] \in RpOn(queued, queued[x]) /\ list[queued[x]] # RpNull
  BY <1>1, RpRingInside
<1> QED BY <1>2, RpNames DEF RpOn

\* EnqueuePendingReference, of a reference that is on no queue.
LEMMA RpEnqueueRings ==
    ASSUME ReferenceProcessorAssumption, NEW next \in RpNextTypes, NEW list \in RpListTypes,
           NEW queued \in RpQueuedTypes, RpRings(next, list, queued), NEW q \in RpQueueNames,
           NEW r \in RpAll, queued[r] = "none", RpEnqueue(q, r, next, list)
    PROVE  /\ rpNext' \in RpNextTypes /\ rpList' \in RpListTypes
           /\ RpRings(rpNext', rpList', [queued EXCEPT ![r] = q])
           /\ \A x \in RpAll : x # r /\ queued[x] = "none" => rpNext'[x] = next[x]
           /\ \A p \in RpQueueNames \ {q} : rpList'[p] = list[p]
<1> DEFINE queued2 == [queued EXCEPT ![r] = q]
           last == list[q]
<1>0. /\ "none" \notin RpQueueNames /\ RpNull \notin RpAll
      /\ next \in [RpAll -> RpAll \union {RpNull}] /\ list \in [RpQueueNames -> RpAll \union {RpNull}]
      /\ queued \in [RpAll -> RpQueueNames \union {"none"}]
  BY RpNames DEF RpNextTypes, RpListTypes, RpQueuedTypes
<1>1. RpOn(queued2, q) = RpOn(queued, q) \union {r} /\ r \notin RpOn(queued, q) /\ RpOn(queued, q) \in SUBSET RpAll
      /\ \A p \in RpQueueNames \ {q} : RpOn(queued2, p) = RpOn(queued, p) /\ r \notin RpOn(queued, p)
  BY <1>0 DEF RpOn
<1>2. \A p \in RpQueueNames : RpRing(next, list[p], RpOn(queued, p))
  BY DEF RpRings
<1>3. last # RpNull => last \in RpOn(queued, q) /\ next[last] \in RpOn(queued, q)
  BY <1>2, RpRingInside
<1>4. /\ last = RpNull => rpNext' = [next EXCEPT ![r] = r] /\ rpList' = [list EXCEPT ![q] = r]
      /\ last # RpNull => rpNext' = [next EXCEPT ![r] = next[last], ![last] = r] /\ rpList' = list
  BY DEF RpEnqueue
<1>5. last # RpNull => last # r /\ last \in RpAll /\ next[last] \in RpAll
  BY <1>1, <1>3 DEF RpOn
<1> HIDE DEF last
<1>6. /\ last = RpNull => rpNext'[r] = r /\ rpList'[q] = r
      /\ last # RpNull => /\ rpList'[q] = last /\ rpNext'[r] = next[last] /\ rpNext'[last] = r
                          /\ \A x \in RpAll : x # last /\ x # r => rpNext'[x] = next[x]
      /\ last = RpNull => \A x \in RpAll : x # r => rpNext'[x] = next[x]
      /\ \A p \in RpQueueNames \ {q} : rpList'[p] = list[p]
      /\ rpNext' \in [RpAll -> RpAll \union {RpNull}]
      /\ rpList' \in [RpQueueNames -> RpAll \union {RpNull}]
  <2>1. CASE last = RpNull
    BY <1>0, <1>4, <2>1
  <2>2. CASE last # RpNull
    <3>1. rpNext' = [next EXCEPT ![r] = next[last], ![last] = r] /\ rpList' = list
      BY <1>4, <2>2
    <3>2. /\ rpNext'[r] = next[last] /\ rpNext'[last] = r
          /\ \A x \in RpAll : x # last /\ x # r => rpNext'[x] = next[x]
          /\ rpNext' \in [RpAll -> RpAll \union {RpNull}]
      BY <1>0, <1>5, <2>2, <3>1
    <3> QED BY <1>0, <2>2, <3>1, <3>2 DEF last
  <2> QED BY <2>1, <2>2
<1>7. RpRing(rpNext', rpList'[q], RpOn(queued2, q))
  <2> DEFINE on == RpOn(queued, q)
             next2 == rpNext'
             last2 == rpList'[q]
  <2>1. /\ on \in SUBSET RpAll /\ RpRing(next, last, on) /\ r \notin on /\ r # RpNull
        /\ last = RpNull => next2[r] = r /\ last2 = r
        /\ last # RpNull => /\ last2 = last /\ next2[r] = next[last] /\ next2[last] = r
                            /\ \A x \in on : x # last => next2[x] = next[x]
    BY <1>0, <1>1, <1>2, <1>6 DEF last, RpOn
  <2> HIDE DEF on, next2, last2
  <2>2. RpRing(next2, last2, on \union {r})
    BY <2>1, RpRingEnqueue
  <2> QED BY <1>1, <2>2 DEF on, next2, last2
<1>8. ASSUME NEW p \in RpQueueNames \ {q}
      PROVE  RpRing(rpNext', rpList'[p], RpOn(queued2, p))
  <2>1. \A x \in RpOn(queued, p) : rpNext'[x] = next[x]
    <3> SUFFICES ASSUME NEW x \in RpOn(queued, p) PROVE rpNext'[x] = next[x]
      OBVIOUS
    <3>1. x \in RpAll /\ x # r /\ x \notin RpOn(queued, q)
      BY <1>1 DEF RpOn
    <3>2. last # RpNull => x # last
      BY <1>3, <3>1 DEF last
    <3> QED BY <1>6, <3>1, <3>2
  <2> DEFINE next2 == rpNext'
  <2> HIDE DEF next2
  <2>2. RpRing(next, list[p], RpOn(queued, p)) /\ \A x \in RpOn(queued, p) : next2[x] = next[x]
    BY <1>2, <2>1 DEF next2
  <2>3. RpRing(next2, list[p], RpOn(queued, p))
    BY <2>2, RpRingFrame
  <2> QED BY <1>1, <1>6, <2>3 DEF next2
<1>9. RpRings(rpNext', rpList', queued2)
  BY <1>7, <1>8 DEF RpRings
<1>10. \A x \in RpAll : x # r /\ queued[x] = "none" => rpNext'[x] = next[x]
  <2> SUFFICES ASSUME NEW x \in RpAll, x # r, queued[x] = "none" PROVE rpNext'[x] = next[x]
    OBVIOUS
  <2>1. last # RpNull => x # last
    BY <1>0, <1>3 DEF last, RpOn
  <2> QED BY <1>6, <2>1
<1> QED BY <1>6, <1>9, <1>10 DEF RpNextTypes, RpListTypes

\* DequeuePendingReference: the first is on no queue and not linked afterwards.
LEMMA RpDequeueRings ==
    ASSUME ReferenceProcessorAssumption, RpTypeInv, RpRings(rpNext, rpList, rpQueued), NEW q \in RpQueueNames,
           rpList[q] # RpNull
    PROVE  /\ RpFirst(q) \in RpAll /\ rpQueued[RpFirst(q)] = q
           /\ RpDequeuedNext(q) \in RpNextTypes /\ RpDequeuedList(q) \in RpListTypes
           /\ RpRings(RpDequeuedNext(q), RpDequeuedList(q), [rpQueued EXCEPT ![RpFirst(q)] = "none"])
           /\ RpDequeuedNext(q)[RpFirst(q)] = RpNull
           /\ \A x \in RpAll : rpQueued[x] = "none" => RpDequeuedNext(q)[x] = rpNext[x]
           /\ \A p \in RpQueueNames \ {q} : RpDequeuedList(q)[p] = rpList[p]
<1> DEFINE last == rpList[q]
           first == rpNext[rpList[q]]
           next2 == RpDequeuedNext(q)
           list2 == RpDequeuedList(q)
           queued2 == [rpQueued EXCEPT ![first] = "none"]
           on == RpOn(rpQueued, q)
<1>0. /\ "none" \notin RpQueueNames /\ RpNull \notin RpAll
      /\ rpNext \in [RpAll -> RpAll \union {RpNull}] /\ rpList \in [RpQueueNames -> RpAll \union {RpNull}]
      /\ rpQueued \in [RpAll -> RpQueueNames \union {"none"}]
  BY RpNames DEF RpTypeInv
<1>1. \A p \in RpQueueNames : RpRing(rpNext, rpList[p], RpOn(rpQueued, p))
  BY DEF RpRings
<1>2. last \in on /\ first \in on
  BY <1>1, RpRingInside
<1>3. last \in RpAll /\ first \in RpAll /\ rpQueued[first] = q /\ rpQueued[last] = q /\ rpNext[first] \in RpAll
  <2>1. rpNext[first] \in on
    BY <1>1, <1>2, RpRingInside
  <2> QED BY <1>2, <2>1 DEF RpOn
<1>4. /\ last = first => next2 = [rpNext EXCEPT ![first] = RpNull] /\ list2 = [rpList EXCEPT ![q] = RpNull]
      /\ last # first => /\ next2 = [rpNext EXCEPT ![last] = rpNext[first], ![first] = RpNull]
                         /\ list2 = rpList
  BY DEF RpDequeuedNext, RpDequeuedList, RpFirst
<1>5. RpFirst(q) = first
  BY DEF RpFirst
<1> HIDE DEF first, next2, list2
<1>6. /\ next2 \in [RpAll -> RpAll \union {RpNull}] /\ list2 \in [RpQueueNames -> RpAll \union {RpNull}]
      /\ next2[first] = RpNull
      /\ \A x \in RpAll \ {last, first} : next2[x] = rpNext[x]
      /\ \A p \in RpQueueNames \ {q} : list2[p] = rpList[p]
      /\ last = first => list2[q] = RpNull
      /\ last # first => list2[q] = last /\ next2[last] = rpNext[first]
  <2>1. CASE last = first
    <3>1. next2 = [rpNext EXCEPT ![first] = RpNull] /\ list2 = [rpList EXCEPT ![q] = RpNull]
      BY <1>4, <2>1
    <3> QED BY <1>0, <1>3, <2>1, <3>1
  <2>2. CASE last # first
    <3>1. next2 = [rpNext EXCEPT ![last] = rpNext[first], ![first] = RpNull] /\ list2 = rpList
      BY <1>4, <2>2
    <3> QED BY <1>0, <1>3, <2>2, <3>1
  <2> QED BY <2>1, <2>2
<1>7. RpOn(queued2, q) = on \ {first} /\ on \in SUBSET RpAll
      /\ \A p \in RpQueueNames \ {q} : RpOn(queued2, p) = RpOn(rpQueued, p)
  BY <1>0, <1>3 DEF RpOn
<1>8. RpRing(next2, list2[q], RpOn(queued2, q))
  <2> DEFINE last2 == list2[q]
  <2> HIDE DEF last, on
  <2>1. /\ RpRing(rpNext, last, on) /\ last # RpNull /\ on \in SUBSET RpAll
        /\ last = rpNext[last] => last2 = RpNull
        /\ last # rpNext[last] => /\ last2 = last /\ next2[last] = rpNext[rpNext[last]]
                                  /\ \A x \in on \ {last, rpNext[last]} : next2[x] = rpNext[x]
    BY <1>1, <1>6, <1>7 DEF last, first, on
  <2> HIDE DEF last2
  <2>2. RpRing(next2, last2, on \ {rpNext[last]})
    BY <2>1, RpRingDequeue
  <2> QED BY <1>7, <2>2 DEF last2, last, first
<1>9. ASSUME NEW p \in RpQueueNames \ {q}
      PROVE  RpRing(next2, list2[p], RpOn(queued2, p))
  <2>1. \A x \in RpOn(rpQueued, p) : next2[x] = rpNext[x]
    BY <1>3, <1>6 DEF RpOn
  <2>2. RpRing(next2, rpList[p], RpOn(rpQueued, p))
    BY <1>1, <2>1, RpRingFrame
  <2> QED BY <1>6, <1>7, <2>2
<1>10. RpRings(next2, list2, queued2)
  BY <1>8, <1>9 DEF RpRings
<1>11. \A x \in RpAll : rpQueued[x] = "none" => next2[x] = rpNext[x]
  BY <1>0, <1>3, <1>6
<1> QED BY <1>3, <1>5, <1>6, <1>10, <1>11 DEF RpNextTypes, RpListTypes, next2, list2

\* The first of a queue goes to cleared_references_, or to no queue.
LEMMA RpMoveRings ==
    ASSUME ReferenceProcessorAssumption, RpTypeInv, RpRings(rpNext, rpList, rpQueued), NEW q \in RpKinds,
           rpList[q] # RpNull, NEW cleared \in BOOLEAN, RpMove(q, cleared), NEW f, f = RpFirst(q)
    PROVE  /\ f \in RpAll /\ rpQueued[f] = q
           /\ rpNext' \in RpNextTypes /\ rpList' \in RpListTypes /\ rpQueued' \in RpQueuedTypes
           /\ RpRings(rpNext', rpList', rpQueued')
           /\ rpQueued'[f] = IF cleared THEN "cleared" ELSE "none"
           /\ ~cleared => rpNext'[f] = RpNull
           /\ \A x \in RpAll : x # f => /\ rpQueued'[x] = rpQueued[x]
                                        /\ rpQueued[x] = "none" => rpNext'[x] = rpNext[x]
           /\ \A p \in RpKinds \ {q} : rpList'[p] = rpList[p]
<1> DEFINE next == RpDequeuedNext(q)
           list == RpDequeuedList(q)
           queued == [rpQueued EXCEPT ![f] = "none"]
<1>0. /\ "none" \notin RpQueueNames /\ RpNull \notin RpAll /\ "cleared" \in RpQueueNames
      /\ RpKinds \subseteq RpQueueNames /\ "cleared" \notin RpKinds
      /\ rpQueued \in [RpAll -> RpQueueNames \union {"none"}]
  BY RpNames DEF RpTypeInv
<1>1. /\ f \in RpAll /\ rpQueued[f] = q
      /\ next \in RpNextTypes /\ list \in RpListTypes /\ RpRings(next, list, queued)
      /\ next[f] = RpNull /\ \A x \in RpAll : rpQueued[x] = "none" => next[x] = rpNext[x]
      /\ \A p \in RpQueueNames \ {q} : list[p] = rpList[p]
  <2>1. q \in RpQueueNames
    BY <1>0
  <2> QED BY <2>1, RpDequeueRings
<1>2. queued \in RpQueuedTypes /\ queued[f] = "none" /\ \A x \in RpAll : x # f => queued[x] = rpQueued[x]
  BY <1>0, <1>1 DEF RpQueuedTypes
<1>3. rpQueued' = [rpQueued EXCEPT ![f] = IF cleared THEN "cleared" ELSE "none"]
  BY DEF RpMove
<1>4. CASE cleared
  <2>1. RpEnqueue("cleared", f, next, list)
    BY <1>4 DEF RpMove
  <2>2. rpQueued' = [queued EXCEPT ![f] = "cleared"]
    BY <1>0, <1>1, <1>3, <1>4
  <2> HIDE DEF next, list, queued
  <2>3. /\ rpNext' \in RpNextTypes /\ rpList' \in RpListTypes
        /\ RpRings(rpNext', rpList', [queued EXCEPT ![f] = "cleared"])
        /\ \A x \in RpAll : x # f /\ queued[x] = "none" => rpNext'[x] = next[x]
        /\ \A p \in RpQueueNames \ {"cleared"} : rpList'[p] = list[p]
    BY <1>0, <1>1, <1>2, <2>1, RpEnqueueRings
  <2>4. rpQueued'[f] = "cleared" /\ rpQueued' \in RpQueuedTypes /\ \A x \in RpAll : x # f => rpQueued'[x] = rpQueued[x]
    BY <1>0, <1>1, <1>3, <1>4 DEF RpQueuedTypes
  <2> QED BY <1>0, <1>1, <1>2, <1>4, <2>2, <2>3, <2>4
<1>5. CASE ~cleared
  <2>1. rpNext' = next /\ rpList' = list /\ rpQueued' = queued
    BY <1>3, <1>5 DEF RpMove
  <2> HIDE DEF next, list, queued
  <2> QED BY <1>0, <1>1, <1>2, <1>5, <2>1
<1> QED BY <1>4, <1>5

----------------------------------------------------------------------------
(* Steps *)

\* What the invariant says, part by part.
LEMMA RpInvParts ==
    RpInv => RpTypeInv /\ RpQueueInv /\ RpSweptInv /\ RpColourInv /\ RpHeldInv /\ RpCallInv
BY DEF RpInv

\* When the queues have been worked off, no referent of a reference that is kept is white.
LEMMA RpNothingWhite ==
    ASSUME ReferenceProcessorAssumption, RpTypeInv, RpQueueInv, RpColourInv, rpPhase = "sweep",
           NEW r \in RpAll, RpReached(r)
    PROVE  ~RpWhite(rpReferent[r])
<1>0. RpScanned(r)
  BY DEF RpScanned, RpColourInv, RpPreservingPhases
<1>1. RpWhite(rpReferent[r]) => rpQueued[r] = RpRefs[r] /\ rpQueued[r] \in RpQueueNames
  BY <1>0, RpNames DEF RpColourInv
<1>2. RpWhite(rpReferent[r]) => rpList[RpRefs[r]] # RpNull
  BY <1>1, RpOnIsLinked DEF RpQueueInv
<1>3. \A q \in RpKinds : rpList[q] = RpNull
  BY DEF RpQueueInv, RpKinds
<1> QED BY <1>2, <1>3, RpNames

\* A collection begins.
LEMMA RpStartMarkingKeeps ==
    ASSUME ReferenceProcessorAssumption, RpInv, RpStartMarking
    PROVE  RpInv'
<1>1. /\ rpPhase = "idle" /\ rpPhase' = "mark" /\ rpMarked' = {}
      /\ UNCHANGED <<rpReferent, rpZombie, rpNext, rpList, rpQueued, rpFields, rpGrey, rpScan, rpSwept,
                      rpSlow, rpCallback, rpPreserving, rpCursor, rpPc, rpRef, rpSeen, rpHeld,
                      rpSlowly>>
  BY RpInvParts DEF RpStartMarking, rpHeap, rpQueues, rpColours, rpFlags, rpMutators
<1>2. RpTypeInv /\ RpQueueInv /\ RpSweptInv /\ RpColourInv /\ RpHeldInv /\ RpCallInv
  BY DEF RpInv
<1>3. RpTypeInv'
  BY <1>1, <1>2 DEF RpTypeInv, RpColourInv, RpPhases, RpSlowPhases, RpPreservingPhases
<1>4. RpQueueInv'
  BY <1>1, <1>2 DEF RpQueueInv, RpTypeInv, RpPhases, RpSlowPhases, RpPreservingPhases, RpBroadcast
<1>5. RpSweptInv'
  BY <1>1, <1>2 DEF RpSweptInv, RpSlowPathIsSafe, RpTypeInv, RpColourInv, RpHeldInv, RpWhite, RpPhases, RpSlowPhases, RpPreservingPhases
<1>6. RpColourInv'
  BY <1>1, <1>2 DEF RpColourInv, RpScanned, RpReached, RpTypeInv, RpWhite, RpPhases, RpSlowPhases, RpPreservingPhases
<1>7. RpHeldInv'
  BY <1>1, <1>2 DEF RpHeldInv, RpBlack, RpClosed, RpTypeInv, RpColourInv, RpScanned, RpReached, RpWhite, RpPhases, RpSlowPhases, RpPreservingPhases
<1>8. RpCallInv'
  BY <1>1, <1>2 DEF RpCallInv, RpReached, RpTypeInv, RpSlowPhases, RpBroadcast, RpHeldInv, RpWhite
<1> QED BY <1>3, <1>4, <1>5, <1>6, <1>7, <1>8 DEF RpInv

\* Marking gets ahead, to nothing that was freed.
LEMMA RpMarkKeeps ==
    ASSUME ReferenceProcessorAssumption, RpInv, NEW s \in SUBSET RpObjects, RpMark(s)
    PROVE  RpInv'
<1>1. /\ rpPhase = "mark" /\ rpMarked' = rpMarked \union s /\ s \intersect rpSwept = {}
      /\ UNCHANGED <<rpReferent, rpZombie, rpNext, rpList, rpQueued, rpFields, rpGrey, rpScan, rpSwept,
                      rpSlow, rpCallback, rpPreserving, rpPhase, rpCursor, rpPc, rpRef, rpSeen,
                      rpHeld, rpSlowly>>
  BY RpInvParts DEF RpMark, rpHeap, rpQueues, rpColours, rpFlags, rpMutators
<1>2. RpTypeInv /\ RpQueueInv /\ RpSweptInv /\ RpColourInv /\ RpHeldInv /\ RpCallInv
  BY DEF RpInv
<1>3. RpTypeInv'
  BY <1>1, <1>2 DEF RpTypeInv, RpPhases, RpSlowPhases, RpPreservingPhases, RpPcs, RpBroadcast, RpWhite
<1>4. RpQueueInv'
  BY <1>1, <1>2 DEF RpQueueInv, RpTypeInv, RpPhases, RpSlowPhases, RpPreservingPhases, RpBroadcast
<1>5. RpSweptInv'
  BY <1>1, <1>2 DEF RpSweptInv, RpSlowPathIsSafe, RpTypeInv, RpColourInv, RpHeldInv, RpWhite, RpPhases, RpSlowPhases, RpPreservingPhases
<1>6. RpColourInv'
  BY <1>1, <1>2 DEF RpColourInv, RpScanned, RpReached, RpTypeInv, RpWhite, RpPhases, RpSlowPhases, RpPreservingPhases
<1>7. RpHeldInv'
  BY <1>1, <1>2 DEF RpHeldInv, RpBlack, RpClosed, RpTypeInv, RpColourInv, RpScanned, RpReached, RpWhite, RpPhases, RpSlowPhases, RpPreservingPhases
<1>8. RpCallInv'
  BY <1>1, <1>2 DEF RpCallInv, RpReached, RpTypeInv, RpSlowPhases, RpBroadcast, RpHeldInv, RpWhite
<1> QED BY <1>3, <1>4, <1>5, <1>6, <1>7, <1>8 DEF RpInv

\* The pause: what is white hangs on a queue, and what mutators hold is marked.
LEMMA RpPauseKeeps ==
    ASSUME ReferenceProcessorAssumption, RpInv, RpPause
    PROVE  RpInv'
<1>1. /\ rpPhase = "mark" /\ rpPhase' = "args" /\ rpSlow' = TRUE /\ RpClosed(rpMarked)
      /\ \A t \in RpThreads : rpPc[t] = "out" /\ (rpHeld[t] = RpNull \/ rpHeld[t] \in rpMarked)
      /\ \A r \in RpAll : ~RpWhite(rpZombie[r]) /\ (RpReached(r) /\ RpWhite(rpReferent[r]) => RpEnqueued(r))
      /\ UNCHANGED <<rpReferent, rpZombie, rpNext, rpList, rpQueued, rpFields, rpMarked, rpGrey,
                      rpScan, rpSwept, rpCallback, rpPreserving, rpCursor, rpPc, rpRef, rpSeen, rpHeld,
                      rpSlowly>>
  BY RpInvParts DEF RpPause, rpHeap, rpQueues, rpColours, rpFlags, rpMutators
<1>2. RpTypeInv /\ RpQueueInv /\ RpSweptInv /\ RpColourInv /\ RpHeldInv /\ RpCallInv
  BY DEF RpInv
<1>3. RpTypeInv'
  BY <1>1, <1>2 DEF RpTypeInv, RpPhases, RpSlowPhases, RpPreservingPhases, RpPcs, RpBroadcast, RpWhite
<1>4. RpQueueInv'
  BY <1>1, <1>2 DEF RpQueueInv, RpTypeInv, RpPhases, RpSlowPhases, RpPreservingPhases, RpBroadcast
<1>5. RpSweptInv'
  BY <1>1, <1>2 DEF RpSweptInv, RpSlowPathIsSafe, RpTypeInv, RpColourInv, RpHeldInv, RpWhite, RpPhases, RpSlowPhases, RpPreservingPhases
<1>6. RpColourInv'
  <2>1. rpGrey = {} /\ rpScan = {} /\ \A o \in rpMarked : rpFields[o] \subseteq rpMarked
    BY <1>1, <1>2 DEF RpColourInv, RpPreservingPhases, RpClosed
  <2>2. \A r \in RpAll : RpReached(r) /\ RpWhite(rpReferent[r]) => rpQueued[r] = RpRefs[r]
    BY <1>1, <1>2 DEF RpQueueInv, RpEnqueued, RpWhite
  <2> QED BY <1>1, <2>1, <2>2 DEF RpColourInv, RpScanned, RpReached, RpWhite, RpPreservingPhases
<1>7. RpHeldInv'
  BY <1>1, <1>2 DEF RpHeldInv, RpBlack, RpClosed, RpTypeInv, RpColourInv, RpScanned, RpReached, RpWhite, RpPhases, RpSlowPhases, RpPreservingPhases
<1>8. RpCallInv'
  BY <1>1, <1>2 DEF RpCallInv, RpReached, RpTypeInv, RpSlowPhases, RpBroadcast, RpHeldInv, RpWhite
<1> QED BY <1>3, <1>4, <1>5, <1>6, <1>7, <1>8 DEF RpInv

\* ProcessReferences begins.
LEMMA RpSetArgsKeeps ==
    ASSUME ReferenceProcessorAssumption, RpInv, NEW clear \in BOOLEAN, RpSetArgs(clear)
    PROVE  RpInv'
<1>1. /\ rpPhase = "args" /\ rpPhase' \in {"clear_soft", "soft"} /\ rpCallback' = TRUE
      /\ UNCHANGED <<rpReferent, rpZombie, rpNext, rpList, rpQueued, rpFields, rpMarked, rpGrey,
                      rpScan, rpSwept, rpSlow, rpPreserving, rpCursor, rpPc, rpRef, rpSeen, rpHeld,
                      rpSlowly>>
  BY RpInvParts DEF RpSetArgs, RpGo, rpHeap, rpQueues, rpColours, rpFlags, rpMutators
<1>2. RpTypeInv /\ RpQueueInv /\ RpSweptInv /\ RpColourInv /\ RpHeldInv /\ RpCallInv
  BY DEF RpInv
<1>3. RpTypeInv'
  BY <1>1, <1>2 DEF RpTypeInv, RpPhases, RpSlowPhases, RpPreservingPhases, RpPcs, RpBroadcast, RpWhite
<1>4. RpQueueInv'
  BY <1>1, <1>2 DEF RpQueueInv, RpTypeInv, RpPhases, RpSlowPhases, RpPreservingPhases, RpBroadcast
<1>5. RpSweptInv'
  BY <1>1, <1>2 DEF RpSweptInv, RpSlowPathIsSafe, RpTypeInv, RpColourInv, RpHeldInv, RpWhite, RpPhases, RpSlowPhases, RpPreservingPhases
<1>6. RpColourInv'
  BY <1>1, <1>2 DEF RpColourInv, RpScanned, RpReached, RpTypeInv, RpWhite, RpPhases, RpSlowPhases, RpPreservingPhases
<1>7. RpHeldInv'
  BY <1>1, <1>2 DEF RpHeldInv, RpBlack, RpClosed, RpTypeInv, RpColourInv, RpScanned, RpReached, RpWhite, RpPhases, RpSlowPhases, RpPreservingPhases
<1>8. RpCallInv'
  BY <1>1, <1>2 DEF RpCallInv, RpReached, RpTypeInv, RpSlowPhases, RpBroadcast, RpHeldInv, RpWhite
<1> QED BY <1>3, <1>4, <1>5, <1>6, <1>7, <1>8 DEF RpInv

\* StartPreservingReferences: all that is marked is black.
LEMMA RpStartPreservingKeeps ==
    ASSUME ReferenceProcessorAssumption, RpInv, StartPreservingReferences
    PROVE  RpInv'
<1>1. /\ \/ rpPhase = "soft" /\ rpPhase' = "forward"
         \/ rpPhase = "finalizer" /\ rpPhase' = "enqueue_finalizer"
      /\ rpPreserving' = TRUE /\ rpCursor' \in RpAll \union {RpNull}
      /\ UNCHANGED <<rpReferent, rpZombie, rpNext, rpList, rpQueued, rpFields, rpMarked, rpGrey,
                      rpScan, rpSwept, rpSlow, rpCallback, rpPc, rpRef, rpSeen, rpHeld, rpSlowly>>
  <2>1. rpList["soft"] \in RpAll \union {RpNull}
    BY RpInvParts DEF RpTypeInv, RpQueueNames, RpKinds
  <2> QED BY <2>1 DEF StartPreservingReferences, RpGo, rpHeap, rpQueues, rpColours, rpFlags, rpMutators
<1>2. RpTypeInv /\ RpQueueInv /\ RpSweptInv /\ RpColourInv /\ RpHeldInv /\ RpCallInv
  BY DEF RpInv
<1>3. RpTypeInv'
  BY <1>1, <1>2 DEF RpTypeInv, RpPhases, RpSlowPhases, RpPreservingPhases, RpPcs, RpBroadcast, RpWhite
<1>4. RpQueueInv'
  BY <1>1, <1>2 DEF RpQueueInv, RpTypeInv, RpPhases, RpSlowPhases, RpPreservingPhases, RpBroadcast
<1>5. RpSweptInv'
  BY <1>1, <1>2 DEF RpSweptInv, RpSlowPathIsSafe, RpTypeInv, RpColourInv, RpHeldInv, RpWhite, RpPhases, RpSlowPhases, RpPreservingPhases
<1>6. RpColourInv'
  BY <1>1, <1>2 DEF RpColourInv, RpScanned, RpReached, RpTypeInv, RpWhite, RpPhases, RpSlowPhases, RpPreservingPhases
<1>7. RpHeldInv'
  <2>1. rpPhase \in RpSlowPhases /\ rpPhase \notin RpPreservingPhases
    BY <1>1 DEF RpSlowPhases, RpPreservingPhases
  <2>2. rpGrey = {} /\ rpScan = {} /\ RpClosed(rpMarked) /\ \A t \in RpThreads : ~RpWhite(rpHeld[t])
    BY <1>2, <2>1 DEF RpColourInv, RpHeldInv, RpClosed
  <2>3. ASSUME NEW r \in RpAll, rpNext[r] = RpNull, RpReached(r)
        PROVE  ~RpWhite(rpReferent[r])
    <3>1. RpWhite(rpReferent[r]) => rpQueued[r] \in RpQueueNames
      BY <1>2, <2>1, <2>2, <2>3, RpNames DEF RpColourInv, RpScanned
    <3> QED BY <1>2, <2>3, <3>1, RpOnIsLinked DEF RpQueueInv
  <2>4. RpBlack(rpMarked)
    BY <1>2, <2>1, <2>2, <2>3 DEF RpBlack, RpWhite, RpTypeInv, RpReached, RpCallInv
  <2>5. \E black \in SUBSET RpObjects : RpBlack(black)
    BY <1>2, <2>4 DEF RpTypeInv
  <2>6. \A black : RpBlack(black) => RpBlack(black)'
    BY <1>1 DEF RpBlack, RpClosed
  <2> QED BY <1>1, <2>2, <2>5, <2>6 DEF RpHeldInv, RpWhite, RpSlowPhases
<1>8. RpCallInv'
  BY <1>1, <1>2 DEF RpCallInv, RpReached, RpTypeInv, RpSlowPhases, RpBroadcast, RpHeldInv, RpWhite
<1> QED BY <1>3, <1>4, <1>5, <1>6, <1>7, <1>8 DEF RpInv

\* ForwardSoftReferences greys a referent.
LEMMA RpForwardKeeps ==
    ASSUME ReferenceProcessorAssumption, RpInv, RpForward
    PROVE  RpInv'
<1>1. /\ rpPhase = "forward" /\ rpCursor \in RpAll /\ rpCursor' \in RpAll \union {RpNull}
      /\ \E o : /\ o = rpReferent[rpCursor]
                /\ rpMarked' = IF RpWhite(o) THEN rpMarked \union {o} ELSE rpMarked
                /\ rpGrey' = IF RpWhite(o) THEN rpGrey \union {o} ELSE rpGrey
      /\ UNCHANGED <<rpReferent, rpZombie, rpNext, rpList, rpQueued, rpFields, rpScan, rpSwept, rpSlow,
                      rpCallback, rpPreserving, rpPhase, rpPc, rpRef, rpSeen, rpHeld, rpSlowly>>
  BY RpInvParts DEF RpForward, rpHeap, rpQueues, rpColours, rpFlags, rpMutators, RpTypeInv
<1>2. RpTypeInv /\ RpQueueInv /\ RpSweptInv /\ RpColourInv /\ RpHeldInv /\ RpCallInv
  BY DEF RpInv
<1>3. RpTypeInv'
  BY <1>1, <1>2 DEF RpTypeInv, RpPhases, RpSlowPhases, RpPreservingPhases, RpPcs, RpBroadcast, RpWhite
<1>4. RpQueueInv'
  BY <1>1, <1>2 DEF RpQueueInv, RpTypeInv, RpPhases, RpSlowPhases, RpPreservingPhases, RpBroadcast
<1>5. RpSweptInv'
  BY <1>1, <1>2 DEF RpSweptInv, RpSlowPathIsSafe, RpTypeInv, RpColourInv, RpHeldInv, RpWhite, RpPhases, RpSlowPhases, RpPreservingPhases
<1>6. RpColourInv'
  BY <1>1, <1>2 DEF RpColourInv, RpScanned, RpReached, RpTypeInv, RpWhite, RpPhases, RpSlowPhases, RpPreservingPhases
<1>7. RpHeldInv'
  BY <1>1, <1>2 DEF RpHeldInv, RpBlack, RpClosed, RpTypeInv, RpColourInv, RpScanned, RpReached, RpWhite, RpPhases, RpSlowPhases, RpPreservingPhases
<1>8. RpCallInv'
  BY <1>1, <1>2 DEF RpCallInv, RpReached, RpTypeInv, RpSlowPhases, RpBroadcast, RpHeldInv, RpWhite
<1> QED BY <1>3, <1>4, <1>5, <1>6, <1>7, <1>8 DEF RpInv

\* process_mark_stack_callback blackens a grey object, and has its references to scan.
LEMMA RpProcessMarkStackKeeps ==
    ASSUME ReferenceProcessorAssumption, RpInv, RpProcessMarkStack
    PROVE  RpInv'
<1>1. /\ rpPhase \in RpPreservingPhases
      /\ \E o \in rpGrey : /\ rpMarked' = rpMarked \union rpFields[o]
                         /\ rpGrey' = (rpGrey \ {o}) \union (rpFields[o] \ rpMarked)
                         /\ rpScan' = rpScan \union {r \in RpAll : RpHolder[r] = o}
      /\ UNCHANGED <<rpReferent, rpZombie, rpNext, rpList, rpQueued, rpFields, rpSwept, rpSlow,
                      rpCallback, rpPreserving, rpPhase, rpCursor, rpPc, rpRef, rpSeen, rpHeld,
                      rpSlowly>>
  BY RpInvParts DEF RpProcessMarkStack, RpDraining, RpPreservingPhases, rpHeap, rpQueues, rpColours, rpFlags, rpMutators
<1>2. RpTypeInv /\ RpQueueInv /\ RpSweptInv /\ RpColourInv /\ RpHeldInv /\ RpCallInv
  BY DEF RpInv
<1>3. RpTypeInv'
  BY <1>1, <1>2 DEF RpTypeInv, RpPhases, RpSlowPhases, RpPreservingPhases, RpPcs, RpBroadcast, RpWhite
<1>4. RpQueueInv'
  BY <1>1, <1>2 DEF RpQueueInv, RpTypeInv, RpPhases, RpSlowPhases, RpPreservingPhases, RpBroadcast
<1>5. RpSweptInv'
  BY <1>1, <1>2 DEF RpSweptInv, RpSlowPathIsSafe, RpTypeInv, RpColourInv, RpHeldInv, RpWhite, RpPhases, RpSlowPhases, RpPreservingPhases
<1>6. RpColourInv'
  BY <1>1, <1>2 DEF RpColourInv, RpScanned, RpReached, RpTypeInv, RpWhite, RpPhases, RpSlowPhases, RpPreservingPhases
<1>7. RpHeldInv'
  BY <1>1, <1>2 DEF RpHeldInv, RpBlack, RpClosed, RpTypeInv, RpColourInv, RpScanned, RpReached, RpWhite, RpPhases, RpSlowPhases, RpPreservingPhases
<1>8. RpCallInv'
  BY <1>1, <1>2 DEF RpCallInv, RpReached, RpTypeInv, RpSlowPhases, RpBroadcast, RpHeldInv, RpWhite
<1> QED BY <1>3, <1>4, <1>5, <1>6, <1>7, <1>8 DEF RpInv

\* StopPreservingReferences: nothing is grey any more.
LEMMA RpStopPreservingKeeps ==
    ASSUME ReferenceProcessorAssumption, RpInv, StopPreservingReferences
    PROVE  RpInv'
<1>1. /\ rpGrey = {} /\ rpScan = {} /\ rpPreserving' = FALSE /\ RpBroadcast
      /\ \/ rpPhase = "forward" /\ rpPhase' = "clear_soft"
         \/ rpPhase = "enqueue_finalizer" /\ rpPhase' = "clear_phantom" /\ rpList["finalizer"] = RpNull
      /\ UNCHANGED <<rpReferent, rpZombie, rpNext, rpList, rpQueued, rpFields, rpMarked, rpGrey,
                      rpScan, rpSwept, rpSlow, rpCallback, rpCursor, rpRef, rpSeen, rpHeld, rpSlowly>>
  BY RpInvParts DEF StopPreservingReferences, RpGo, rpHeap, rpQueues, rpColours, rpFlags, rpMutators
<1>2. RpTypeInv /\ RpQueueInv /\ RpSweptInv /\ RpColourInv /\ RpHeldInv /\ RpCallInv
  BY DEF RpInv
<1>3. RpTypeInv'
  BY <1>1, <1>2 DEF RpTypeInv, RpPhases, RpSlowPhases, RpPreservingPhases, RpPcs, RpBroadcast, RpWhite
<1>4. RpQueueInv'
  BY <1>1, <1>2 DEF RpQueueInv, RpTypeInv, RpPhases, RpSlowPhases, RpPreservingPhases, RpBroadcast
<1>5. RpSweptInv'
  BY <1>1, <1>2 DEF RpSweptInv, RpSlowPathIsSafe, RpTypeInv, RpColourInv, RpHeldInv, RpWhite, RpPhases, RpSlowPhases, RpPreservingPhases
<1>6. RpColourInv'
  BY <1>1, <1>2 DEF RpColourInv, RpScanned, RpReached, RpTypeInv, RpWhite, RpPhases, RpSlowPhases, RpPreservingPhases
<1>7. RpHeldInv'
  BY <1>1, <1>2 DEF RpHeldInv, RpBlack, RpClosed, RpTypeInv, RpColourInv, RpScanned, RpReached, RpWhite, RpPhases, RpSlowPhases, RpPreservingPhases
<1>8. RpCallInv'
  BY <1>1, <1>2 DEF RpCallInv, RpReached, RpTypeInv, RpSlowPhases, RpBroadcast, RpHeldInv, RpWhite
<1> QED BY <1>3, <1>4, <1>5, <1>6, <1>7, <1>8 DEF RpInv

\* The queues that were to be cleared are empty.
LEMMA RpClearedAllKeeps ==
    ASSUME ReferenceProcessorAssumption, RpInv, RpClearedAll
    PROVE  RpInv'
<1>1. /\ \/ rpPhase = "clear_soft" /\ rpPhase' = "finalizer"
         \/ /\ rpPhase = "clear_phantom" /\ rpPhase' = "done"
            /\ \A q \in {"soft", "weak", "phantom"} : rpList[q] = RpNull
      /\ UNCHANGED <<rpReferent, rpZombie, rpNext, rpList, rpQueued, rpFields, rpMarked, rpGrey,
                      rpScan, rpSwept, rpSlow, rpCallback, rpPreserving, rpCursor, rpPc, rpRef, rpSeen,
                      rpHeld, rpSlowly>>
  BY RpInvParts DEF RpClearedAll, RpGo, RpClearing, rpHeap, rpQueues, rpColours, rpFlags, rpMutators
<1>2. RpTypeInv /\ RpQueueInv /\ RpSweptInv /\ RpColourInv /\ RpHeldInv /\ RpCallInv
  BY DEF RpInv
<1>3. RpTypeInv'
  BY <1>1, <1>2 DEF RpTypeInv, RpPhases, RpSlowPhases, RpPreservingPhases, RpPcs, RpBroadcast, RpWhite
<1>4. RpQueueInv'
  BY <1>1, <1>2 DEF RpQueueInv, RpTypeInv, RpPhases, RpSlowPhases, RpPreservingPhases, RpBroadcast
<1>5. RpSweptInv'
  BY <1>1, <1>2 DEF RpSweptInv, RpSlowPathIsSafe, RpTypeInv, RpColourInv, RpHeldInv, RpWhite, RpPhases, RpSlowPhases, RpPreservingPhases
<1>6. RpColourInv'
  BY <1>1, <1>2 DEF RpColourInv, RpScanned, RpReached, RpTypeInv, RpWhite, RpPhases, RpSlowPhases, RpPreservingPhases
<1>7. RpHeldInv'
  BY <1>1, <1>2 DEF RpHeldInv, RpBlack, RpClosed, RpTypeInv, RpColourInv, RpScanned, RpReached, RpWhite, RpPhases, RpSlowPhases, RpPreservingPhases
<1>8. RpCallInv'
  BY <1>1, <1>2 DEF RpCallInv, RpReached, RpTypeInv, RpSlowPhases, RpBroadcast, RpHeldInv, RpWhite
<1> QED BY <1>3, <1>4, <1>5, <1>6, <1>7, <1>8 DEF RpInv

\* DisableSlowPath: nothing that references lead to is white.
LEMMA RpDisableSlowPathKeeps ==
    ASSUME ReferenceProcessorAssumption, RpInv, DisableSlowPath
    PROVE  RpInv'
<1>1. /\ rpPhase = "done" /\ rpPhase' = "sweep" /\ rpCallback' = FALSE /\ rpSlow' = FALSE /\ RpBroadcast
      /\ UNCHANGED <<rpReferent, rpZombie, rpNext, rpList, rpQueued, rpFields, rpMarked, rpGrey,
                      rpScan, rpSwept, rpPreserving, rpCursor, rpRef, rpSeen, rpHeld, rpSlowly>>
  BY RpInvParts DEF DisableSlowPath, RpGo, rpHeap, rpQueues, rpColours, rpFlags, rpMutators
<1>2. RpTypeInv /\ RpQueueInv /\ RpSweptInv /\ RpColourInv /\ RpHeldInv /\ RpCallInv
  BY DEF RpInv
<1>3. RpTypeInv'
  BY <1>1, <1>2 DEF RpTypeInv, RpPhases, RpSlowPhases, RpPreservingPhases, RpPcs, RpBroadcast, RpWhite
<1>4. RpQueueInv'
  BY <1>1, <1>2 DEF RpQueueInv, RpTypeInv, RpPhases, RpSlowPhases, RpPreservingPhases, RpBroadcast
<1>5. RpSweptInv'
  BY <1>1, <1>2 DEF RpSweptInv, RpSlowPathIsSafe, RpTypeInv, RpColourInv, RpHeldInv, RpWhite, RpPhases, RpSlowPhases, RpPreservingPhases
<1>6. RpColourInv'
  BY <1>1, <1>2 DEF RpColourInv, RpScanned, RpReached, RpTypeInv, RpWhite, RpPhases, RpSlowPhases, RpPreservingPhases
<1>7. RpHeldInv'
  BY <1>1, <1>2 DEF RpHeldInv, RpBlack, RpClosed, RpTypeInv, RpColourInv, RpScanned, RpReached, RpWhite, RpPhases, RpSlowPhases, RpPreservingPhases
<1>8. RpCallInv'
  BY <1>1, <1>2 DEF RpCallInv, RpReached, RpTypeInv, RpSlowPhases, RpBroadcast, RpHeldInv, RpWhite
<1> QED BY <1>3, <1>4, <1>5, <1>6, <1>7, <1>8 DEF RpInv

\* The sweep frees what is white.
LEMMA RpSweepKeeps ==
    ASSUME ReferenceProcessorAssumption, RpInv, RpSweep
    PROVE  RpInv'
<1>1. /\ rpPhase = "sweep" /\ rpPhase' = "enqueue" /\ rpSwept' = RpObjects \ rpMarked
      /\ rpReferent' = [r \in RpAll |-> IF RpReached(r) THEN rpReferent[r] ELSE RpNull]
      /\ UNCHANGED <<rpZombie, rpNext, rpList, rpQueued, rpFields, rpMarked, rpGrey, rpScan,
                      rpSlow, rpCallback, rpPreserving, rpCursor, rpPc, rpRef, rpSeen, rpHeld,
                      rpSlowly>>
  BY RpInvParts DEF RpSweep, RpGo, rpHeap, rpQueues, rpColours, rpFlags, rpMutators
<1>2. RpTypeInv /\ RpQueueInv /\ RpSweptInv /\ RpColourInv /\ RpHeldInv /\ RpCallInv
  BY DEF RpInv
<1>3. RpTypeInv'
  BY <1>1, <1>2 DEF RpTypeInv, RpPhases, RpSlowPhases, RpPreservingPhases, RpPcs, RpBroadcast, RpWhite
<1>4. RpQueueInv'
  BY <1>1, <1>2 DEF RpQueueInv, RpTypeInv, RpPhases, RpSlowPhases, RpPreservingPhases, RpBroadcast
<1>5. RpSweptInv'
  <2>1. \A o \in rpMarked : rpFields[o] \subseteq rpMarked
    BY <1>1, <1>2 DEF RpColourInv, RpPreservingPhases
  <2>2. ASSUME NEW r \in RpAll PROVE ~RpWhite(rpReferent'[r])
    <3>1. RpReached(r) => ~RpWhite(rpReferent[r])
      BY <1>1, <1>2, RpNothingWhite
    <3> QED BY <1>1, <3>1 DEF RpWhite
  <2>3. \A r \in RpAll : ~RpWhite(rpZombie[r])
    BY <1>1, <1>2 DEF RpColourInv
  <2>4. \A t \in RpThreads : rpSlowly[t] => ~RpWhite(rpHeld[t])
    BY <1>1, <1>2 DEF RpHeldInv
  <2>5. RpNull \notin RpObjects
    BY DEF ReferenceProcessorAssumption
  <2>6. \A t \in RpThreads : rpSlowly[t] => rpHeld[t] \notin rpSwept'
    BY <1>1, <2>4, <2>5 DEF RpWhite
  <2>7. \A r \in RpAll : rpReferent'[r] \notin rpSwept' /\ rpZombie[r] \notin rpSwept'
    BY <1>1, <2>2, <2>3, <2>5 DEF RpWhite
  <2>8. \A o \in RpObjects \ rpSwept' : rpFields[o] \intersect rpSwept' = {}
    BY <1>1, <2>1
  <2> QED BY <1>1, <2>6, <2>7, <2>8 DEF RpSweptInv, RpSlowPathIsSafe
<1>6. RpColourInv'
  BY <1>1, <1>2 DEF RpColourInv, RpScanned, RpReached, RpTypeInv, RpWhite, RpPhases, RpSlowPhases, RpPreservingPhases
<1>7. RpHeldInv'
  BY <1>1, <1>2 DEF RpHeldInv, RpBlack, RpClosed, RpTypeInv, RpColourInv, RpScanned, RpReached, RpWhite, RpPhases, RpSlowPhases, RpPreservingPhases
<1>8. RpCallInv'
  BY <1>1, <1>2 DEF RpCallInv, RpReached, RpTypeInv, RpSlowPhases, RpBroadcast, RpHeldInv, RpWhite
<1> QED BY <1>3, <1>4, <1>5, <1>6, <1>7, <1>8 DEF RpInv

\* GetReferent reads the referent.
LEMMA RpGetReferentKeeps ==
    ASSUME ReferenceProcessorAssumption, RpInv, NEW t \in RpThreads, NEW r \in RpAll, GetReferent(t, r)
    PROVE  RpInv'
<1>1. /\ RpFinds(t, r) /\ rpPc[t] = "out" /\ rpPc' = [rpPc EXCEPT ![t] = "test"] /\ rpRef' = [rpRef EXCEPT ![t] = r]
      /\ rpSeen' = [rpSeen EXCEPT ![t] = rpReferent[r]]
      /\ UNCHANGED <<rpReferent, rpZombie, rpNext, rpList, rpQueued, rpFields, rpMarked, rpGrey,
                      rpScan, rpSwept, rpSlow, rpCallback, rpPreserving, rpPhase, rpCursor, rpHeld,
                      rpSlowly>>
  BY RpInvParts DEF GetReferent, RpCall, rpHeap, rpQueues, rpColours, rpFlags, rpMutators
<1>2. RpTypeInv /\ RpQueueInv /\ RpSweptInv /\ RpColourInv /\ RpHeldInv /\ RpCallInv
  BY DEF RpInv
<1>3. RpTypeInv'
  BY <1>1, <1>2 DEF RpTypeInv, RpPhases, RpSlowPhases, RpPreservingPhases, RpPcs, RpBroadcast, RpWhite
<1>4. RpQueueInv'
  BY <1>1, <1>2 DEF RpQueueInv, RpTypeInv, RpPhases, RpSlowPhases, RpPreservingPhases, RpBroadcast
<1>5. RpSweptInv'
  BY <1>1, <1>2 DEF RpSweptInv, RpSlowPathIsSafe, RpTypeInv, RpColourInv, RpHeldInv, RpWhite, RpPhases, RpSlowPhases, RpPreservingPhases
<1>6. RpColourInv'
  BY <1>1, <1>2 DEF RpColourInv, RpScanned, RpReached, RpTypeInv, RpWhite, RpPhases, RpSlowPhases, RpPreservingPhases
<1>7. /\ RpPreservingPhases \subseteq RpSlowPhases
      /\ \A u \in RpThreads : rpPc'[u] # "out" => u = t \/ (rpPc[u] # "out" /\ rpRef'[u] = rpRef[u])
      /\ \A u \in RpThreads : rpPc'[u] \in {"loop", "wait"} => u # t
      /\ rpRef'[t] = r
  BY <1>1, <1>2 DEF RpTypeInv, RpPreservingPhases, RpSlowPhases
<1>8. RpHeldInv'
  <2>1. ASSUME NEW black, RpBlack(black) PROVE RpBlack(black)'
    <3>1. RpHolder[r] \in black \union {RpNull}
      BY <1>1, <2>1 DEF RpFinds, RpBlack
    <3> QED BY <1>1, <1>7, <2>1, <3>1 DEF RpBlack, RpClosed
  <2> QED BY <1>1, <1>2, <2>1 DEF RpHeldInv, RpWhite
<1>9. RpCallInv'
  <2>1. rpPhase \in RpSlowPhases => RpReached(r)
    BY <1>1, <1>2 DEF RpFinds, RpHeldInv, RpWhite, RpReached
  <2> QED BY <1>1, <1>2, <1>7, <2>1 DEF RpCallInv, RpReached
<1> QED BY <1>3, <1>4, <1>5, <1>6, <1>8, <1>9 DEF RpInv

\* GetReferent without the slow path.
LEMMA RpTestKeeps ==
    ASSUME ReferenceProcessorAssumption, RpInv, NEW t \in RpThreads, RpTest(t)
    PROVE  RpInv'
<1>1. /\ rpPc[t] = "test"
      /\ \/ /\ ~rpSlow \/ rpSeen[t] = RpNull
            /\ rpPc' = [rpPc EXCEPT ![t] = "out"] /\ rpHeld' = [rpHeld EXCEPT ![t] = rpSeen[t]]
            /\ rpSlowly' = [rpSlowly EXCEPT ![t] = FALSE]
         \/ rpSlow /\ rpPc' = [rpPc EXCEPT ![t] = "loop"] /\ rpHeld' = rpHeld /\ rpSlowly' = rpSlowly
      /\ UNCHANGED <<rpReferent, rpZombie, rpNext, rpList, rpQueued, rpFields, rpMarked, rpGrey,
                      rpScan, rpSwept, rpSlow, rpCallback, rpPreserving, rpPhase, rpCursor, rpRef,
                      rpSeen>>
  BY RpInvParts DEF RpTest, RpReturn, rpHeap, rpQueues, rpColours, rpFlags, rpMutators
<1>2. RpTypeInv /\ RpQueueInv /\ RpSweptInv /\ RpColourInv /\ RpHeldInv /\ RpCallInv
  BY DEF RpInv
<1>3. RpTypeInv'
  BY <1>1, <1>2 DEF RpTypeInv, RpPhases, RpSlowPhases, RpPreservingPhases, RpPcs, RpBroadcast, RpWhite
<1>4. RpQueueInv'
  BY <1>1, <1>2 DEF RpQueueInv, RpTypeInv, RpPhases, RpSlowPhases, RpPreservingPhases, RpBroadcast
<1>5. RpSweptInv'
  BY <1>1, <1>2 DEF RpSweptInv, RpSlowPathIsSafe, RpTypeInv, RpColourInv, RpHeldInv, RpWhite, RpPhases, RpSlowPhases, RpPreservingPhases
<1>6. RpColourInv'
  BY <1>1, <1>2 DEF RpColourInv, RpScanned, RpReached, RpTypeInv, RpWhite, RpPhases, RpSlowPhases, RpPreservingPhases
<1>7. RpHeldInv'
  <2>1. CASE rpHeld' = rpHeld /\ rpSlowly' = rpSlowly
    <3>0. \A u \in RpThreads : rpPc'[u] # "out" => rpPc[u] # "out"
      BY <1>1, <1>2 DEF RpTypeInv
    <3>1. \A black : RpBlack(black) => RpBlack(black)'
      BY <1>1, <2>1, <3>0 DEF RpBlack, RpClosed
    <3> QED BY <1>1, <1>2, <2>1, <3>1 DEF RpHeldInv, RpWhite
  <2>2. CASE /\ ~rpSlow \/ rpSeen[t] = RpNull
             /\ rpHeld' = [rpHeld EXCEPT ![t] = rpSeen[t]] /\ rpSlowly' = [rpSlowly EXCEPT ![t] = FALSE]
    <3>1. rpHeld \in [RpThreads -> RpObjects \union {RpNull}] /\ rpSlowly \in [RpThreads -> BOOLEAN]
      BY <1>2 DEF RpTypeInv
    <3>2. rpPhase \in RpSlowPhases => rpSeen[t] = RpNull
      BY <1>2, <2>2 DEF RpTypeInv
    <3>3. rpPhase \in RpSlowPhases => \A u \in RpThreads : rpHeld'[u] = rpHeld[u] \/ rpHeld'[u] = RpNull
      BY <2>2, <3>1, <3>2
    <3>4. \A u \in RpThreads : rpSlowly'[u] => rpSlowly[u] /\ rpHeld'[u] = rpHeld[u]
      BY <2>2, <3>1
    <3>5. rpPhase \in RpSlowPhases => \A black : RpBlack(black) => RpBlack(black)'
      <4>1. \A u \in RpThreads : rpPc'[u] # "out" => rpPc[u] # "out"
        BY <1>1, <1>2 DEF RpTypeInv
      <4> QED BY <1>1, <3>3, <4>1 DEF RpBlack, RpClosed
    <3>6. RpPreservingPhases \subseteq RpSlowPhases
      BY DEF RpPreservingPhases, RpSlowPhases
    <3> QED BY <1>1, <1>2, <3>3, <3>4, <3>5, <3>6 DEF RpHeldInv, RpWhite
  <2> QED BY <1>1, <2>1, <2>2
<1>8. RpCallInv'
  BY <1>1, <1>2 DEF RpCallInv, RpReached, RpTypeInv, RpSlowPhases, RpBroadcast, RpHeldInv, RpWhite
<1> QED BY <1>3, <1>4, <1>5, <1>6, <1>7, <1>8 DEF RpInv

\* GetReferent on the slow path.
LEMMA RpLoopKeeps ==
    ASSUME ReferenceProcessorAssumption, RpInv, NEW t \in RpThreads, RpLoop(t)
    PROVE  RpInv'
<1>1. /\ rpPc[t] = "loop"
      /\ \/ /\ ~rpSlow \/ rpReferent[rpRef[t]] = RpNull \/ RpMayReturn(rpRef[t])
            /\ rpPc' = [rpPc EXCEPT ![t] = "out"] /\ rpHeld' = [rpHeld EXCEPT ![t] = rpReferent[rpRef[t]]]
            /\ rpSlowly' = [rpSlowly EXCEPT ![t] = TRUE]
         \/ rpPc' = [rpPc EXCEPT ![t] = "wait"] /\ rpHeld' = rpHeld /\ rpSlowly' = rpSlowly
      /\ UNCHANGED <<rpReferent, rpZombie, rpNext, rpList, rpQueued, rpFields, rpMarked, rpGrey,
                      rpScan, rpSwept, rpSlow, rpCallback, rpPreserving, rpPhase, rpCursor, rpRef,
                      rpSeen>>
  BY RpInvParts DEF RpLoop, RpReturn, rpHeap, rpQueues, rpColours, rpFlags, rpMutators
<1>2. RpTypeInv /\ RpQueueInv /\ RpSweptInv /\ RpColourInv /\ RpHeldInv /\ RpCallInv
  BY DEF RpInv
<1>3. RpTypeInv'
  BY <1>1, <1>2 DEF RpTypeInv, RpPhases, RpSlowPhases, RpPreservingPhases, RpPcs, RpBroadcast, RpWhite
<1>4. RpQueueInv'
  BY <1>1, <1>2 DEF RpQueueInv, RpTypeInv, RpPhases, RpSlowPhases, RpPreservingPhases, RpBroadcast
<1>5. RpSweptInv'
  BY <1>1, <1>2 DEF RpSweptInv, RpSlowPathIsSafe, RpTypeInv, RpColourInv, RpHeldInv, RpWhite, RpPhases, RpSlowPhases, RpPreservingPhases
<1>6. RpColourInv'
  BY <1>1, <1>2 DEF RpColourInv, RpScanned, RpReached, RpTypeInv, RpWhite, RpPhases, RpSlowPhases, RpPreservingPhases
<1>7. RpHeldInv'
  <2>0. RpPreservingPhases \subseteq RpSlowPhases
    BY DEF RpPreservingPhases, RpSlowPhases
  <2>1. CASE rpHeld' = rpHeld /\ rpSlowly' = rpSlowly
    <3>0. \A u \in RpThreads : rpPc'[u] # "out" => rpPc[u] # "out"
      BY <1>1, <1>2 DEF RpTypeInv
    <3>1. \A black : RpBlack(black) => RpBlack(black)'
      BY <1>1, <2>1, <3>0 DEF RpBlack, RpClosed
    <3> QED BY <1>1, <1>2, <2>1, <3>1 DEF RpHeldInv, RpWhite
  <2>2. CASE /\ ~rpSlow \/ rpReferent[rpRef[t]] = RpNull \/ RpMayReturn(rpRef[t])
             /\ rpHeld' = [rpHeld EXCEPT ![t] = rpReferent[rpRef[t]]]
             /\ rpSlowly' = [rpSlowly EXCEPT ![t] = TRUE]
    <3>1. PICK r \in RpAll : r = rpRef[t]
      BY <1>1, <1>2 DEF RpTypeInv
    <3>2. rpHeld \in [RpThreads -> RpObjects \union {RpNull}] /\ rpSlowly \in [RpThreads -> BOOLEAN]
      BY <1>2 DEF RpTypeInv
    <3>3. /\ rpHeld'[t] = rpReferent[r]
          /\ \A u \in RpThreads : u # t => rpHeld'[u] = rpHeld[u] /\ rpSlowly'[u] = rpSlowly[u]
      BY <2>2, <3>1, <3>2
    <3>4. rpPhase \in RpSlowPhases => rpReferent[r] = RpNull \/ RpMayReturn(r)
      BY <1>2, <2>2, <3>1 DEF RpTypeInv
    <3>5. rpPhase \in RpSlowPhases => ~RpWhite(rpReferent[r])
      BY <3>4 DEF RpMayReturn, RpWhite
    <3>6. rpPhase = "sweep" => ~RpWhite(rpReferent[r])
      BY <1>1, <1>2, <3>1, RpNothingWhite DEF RpCallInv
    <3>7. ASSUME rpPhase \in RpPreservingPhases, NEW black, RpBlack(black)
          PROVE  RpBlack(black)'
      <4>1. rpPreserving
        BY <1>2, <3>7 DEF RpTypeInv
      <4>2. rpReferent[r] \in black \union {RpNull}
        BY <1>1, <2>0, <3>1, <3>4, <3>7, <4>1 DEF RpMayReturn, RpBlack, RpEnqueued
      <4>3. \A u \in RpThreads : rpHeld'[u] \in black \union {RpNull}
        BY <3>3, <3>7, <4>2 DEF RpBlack
      <4>4. \A u \in RpThreads : rpPc'[u] # "out" => rpPc[u] # "out"
        BY <1>1, <1>2 DEF RpTypeInv
      <4> QED BY <1>1, <3>7, <4>3, <4>4 DEF RpBlack, RpClosed
    <3>8. rpPhase \in RpSlowPhases => \A u \in RpThreads : ~RpWhite(rpHeld'[u])
      BY <1>2, <3>3, <3>5 DEF RpHeldInv, RpWhite
    <3>9. rpPhase = "sweep" => \A u \in RpThreads : rpSlowly'[u] => ~RpWhite(rpHeld'[u])
      BY <1>2, <3>3, <3>6 DEF RpHeldInv
    <3>10. \A x : RpWhite(x)' <=> RpWhite(x)
      BY <1>1 DEF RpWhite
    <3> QED BY <1>1, <1>2, <3>7, <3>8, <3>9 DEF RpHeldInv, RpWhite
  <2> QED BY <1>1, <2>1, <2>2
<1>8. RpCallInv'
  BY <1>1, <1>2 DEF RpCallInv, RpReached, RpTypeInv, RpSlowPhases, RpBroadcast, RpHeldInv, RpWhite
<1> QED BY <1>3, <1>4, <1>5, <1>6, <1>7, <1>8 DEF RpInv

\* The sentinel is moved to the zombie.
LEMMA RpCallCircularKeeps ==
    ASSUME ReferenceProcessorAssumption, RpInv, NEW t \in RpThreads, NEW r \in RpAll, RpCallCircular(t, r)
    PROVE  RpInv'
<1>1. /\ RpHolder[r] = RpNull /\ rpHeld[t] # RpNull /\ rpHeld[t] = rpReferent[r]
      /\ rpPc[t] = "out" /\ rpPc' = [rpPc EXCEPT ![t] = "circular"] /\ rpRef' = [rpRef EXCEPT ![t] = r]
      /\ rpReferent' = [rpReferent EXCEPT ![r] = RpNull] /\ rpZombie' = [rpZombie EXCEPT ![r] = rpHeld[t]]
      /\ UNCHANGED <<rpNext, rpList, rpQueued, rpFields, rpMarked, rpGrey, rpScan, rpSwept, rpSlow,
                      rpCallback, rpPreserving, rpPhase, rpCursor, rpSeen, rpHeld, rpSlowly>>
  BY RpInvParts DEF RpCallCircular, RpCall, ReferenceProcessorAssumption, RpAll, rpHeap, rpQueues, rpColours, rpFlags, rpMutators
<1>2. RpTypeInv /\ RpQueueInv /\ RpSweptInv /\ RpColourInv /\ RpHeldInv /\ RpCallInv
  BY DEF RpInv
<1>3. RpTypeInv'
  BY <1>1, <1>2 DEF RpTypeInv, RpPhases, RpSlowPhases, RpPreservingPhases, RpPcs, RpBroadcast, RpWhite
<1>4. RpQueueInv'
  BY <1>1, <1>2 DEF RpQueueInv, RpTypeInv, RpPhases, RpSlowPhases, RpPreservingPhases, RpBroadcast
<1>5. RpSweptInv'
  BY <1>1, <1>2 DEF RpSweptInv, RpSlowPathIsSafe, RpTypeInv, RpColourInv, RpHeldInv, RpWhite, RpPhases, RpSlowPhases, RpPreservingPhases
<1>6. RpColourInv'
  <2>1. rpPhase \in RpSlowPhases \union {"sweep"} => ~RpWhite(rpHeld[t])
    <3>1. rpPhase = "sweep" => ~RpWhite(rpReferent[r])
      BY <1>1, <1>2, RpNothingWhite DEF RpReached
    <3> QED BY <1>1, <1>2, <3>1 DEF RpHeldInv
  <2>2. \A x \in RpAll : /\ rpReferent'[x] = rpReferent[x] \/ rpReferent'[x] = RpNull
                         /\ rpZombie'[x] = rpZombie[x] \/ rpZombie'[x] = rpHeld[t]
    BY <1>1, <1>2 DEF RpTypeInv
  <2> QED BY <1>1, <1>2, <2>1, <2>2 DEF RpColourInv, RpScanned, RpReached, RpWhite
<1>7. RpHeldInv'
  BY <1>1, <1>2 DEF RpHeldInv, RpBlack, RpClosed, RpTypeInv, RpColourInv, RpScanned, RpReached, RpWhite, RpPhases, RpSlowPhases, RpPreservingPhases
<1>8. RpCallInv'
  BY <1>1, <1>2 DEF RpCallInv, RpReached, RpTypeInv, RpSlowPhases, RpBroadcast, RpHeldInv, RpWhite
<1> QED BY <1>3, <1>4, <1>5, <1>6, <1>7, <1>8 DEF RpInv

\* A mutator takes an object out of a field.
LEMMA RpTakeKeeps ==
    ASSUME ReferenceProcessorAssumption, RpInv, NEW t \in RpThreads, NEW o \in RpObjects, RpTake(t, o)
    PROVE  RpInv'
<1>1. /\ rpPc[t] = "out" /\ rpHeld[t] # RpNull /\ o \in rpFields[rpHeld[t]]
      /\ rpHeld' = [rpHeld EXCEPT ![t] = o] /\ rpFields' = [rpFields EXCEPT ![rpHeld[t]] = rpFields[rpHeld[t]] \ {o}]
      /\ UNCHANGED <<rpReferent, rpZombie, rpNext, rpList, rpQueued, rpMarked, rpGrey, rpScan, rpSwept,
                      rpSlow, rpCallback, rpPreserving, rpPhase, rpCursor, rpPc, rpRef, rpSeen,
                      rpSlowly>>
  BY RpInvParts DEF RpTake, rpHeap, rpQueues, rpColours, rpFlags, rpMutators
<1>2. RpTypeInv /\ RpQueueInv /\ RpSweptInv /\ RpColourInv /\ RpHeldInv /\ RpCallInv
  BY DEF RpInv
<1>3. RpTypeInv'
  BY <1>1, <1>2 DEF RpTypeInv, RpPhases, RpSlowPhases, RpPreservingPhases, RpPcs, RpBroadcast, RpWhite
<1>4. RpQueueInv'
  BY <1>1, <1>2 DEF RpQueueInv, RpTypeInv, RpPhases, RpSlowPhases, RpPreservingPhases, RpBroadcast
<1>5. RpSweptInv'
  BY <1>1, <1>2 DEF RpSweptInv, RpSlowPathIsSafe, RpTypeInv, RpColourInv, RpHeldInv, RpWhite, RpPhases, RpSlowPhases, RpPreservingPhases
<1>6. RpColourInv'
  BY <1>1, <1>2 DEF RpColourInv, RpScanned, RpReached, RpTypeInv, RpWhite, RpPhases, RpSlowPhases, RpPreservingPhases
<1>7. RpHeldInv'
  BY <1>1, <1>2 DEF RpHeldInv, RpBlack, RpClosed, RpTypeInv, RpColourInv, RpScanned, RpReached, RpWhite, RpPhases, RpSlowPhases, RpPreservingPhases
<1>8. RpCallInv'
  BY <1>1, <1>2 DEF RpCallInv, RpReached, RpTypeInv, RpSlowPhases, RpBroadcast, RpHeldInv, RpWhite
<1> QED BY <1>3, <1>4, <1>5, <1>6, <1>7, <1>8 DEF RpInv

\* A mutator drops what it holds.
LEMMA RpDropKeeps ==
    ASSUME ReferenceProcessorAssumption, RpInv, NEW t \in RpThreads, RpDrop(t)
    PROVE  RpInv'
<1>1. /\ rpHeld' = [rpHeld EXCEPT ![t] = RpNull]
      /\ UNCHANGED <<rpReferent, rpZombie, rpNext, rpList, rpQueued, rpFields, rpMarked, rpGrey,
                      rpScan, rpSwept, rpSlow, rpCallback, rpPreserving, rpPhase, rpCursor, rpPc, rpRef,
                      rpSeen, rpSlowly>>
  BY RpInvParts DEF RpDrop, rpHeap, rpQueues, rpColours, rpFlags, rpMutators
<1>2. RpTypeInv /\ RpQueueInv /\ RpSweptInv /\ RpColourInv /\ RpHeldInv /\ RpCallInv
  BY DEF RpInv
<1>3. RpTypeInv'
  BY <1>1, <1>2 DEF RpTypeInv, RpPhases, RpSlowPhases, RpPreservingPhases, RpPcs, RpBroadcast, RpWhite
<1>4. RpQueueInv'
  BY <1>1, <1>2 DEF RpQueueInv, RpTypeInv, RpPhases, RpSlowPhases, RpPreservingPhases, RpBroadcast
<1>5. RpSweptInv'
  BY <1>1, <1>2 DEF RpSweptInv, RpSlowPathIsSafe, RpTypeInv, RpColourInv, RpHeldInv, RpWhite, RpPhases, RpSlowPhases, RpPreservingPhases
<1>6. RpColourInv'
  BY <1>1, <1>2 DEF RpColourInv, RpScanned, RpReached, RpTypeInv, RpWhite, RpPhases, RpSlowPhases, RpPreservingPhases
<1>7. RpHeldInv'
  <2>1. \A u \in RpThreads : rpHeld'[u] = rpHeld[u] \/ rpHeld'[u] = RpNull
    BY <1>1, <1>2 DEF RpTypeInv
  <2>2. \A black : RpBlack(black) => RpBlack(black)'
    BY <1>1, <2>1 DEF RpBlack, RpClosed
  <2> QED BY <1>1, <1>2, <2>1, <2>2 DEF RpHeldInv, RpWhite
<1>8. RpCallInv'
  BY <1>1, <1>2 DEF RpCallInv, RpReached, RpTypeInv, RpSlowPhases, RpBroadcast, RpHeldInv, RpWhite
<1> QED BY <1>3, <1>4, <1>5, <1>6, <1>7, <1>8 DEF RpInv

\* A mutator clears a reference.
LEMMA RpClearKeeps ==
    ASSUME ReferenceProcessorAssumption, RpInv, NEW t \in RpThreads, NEW r \in RpAll, RpClear(t, r)
    PROVE  RpInv'
<1>1. /\ rpReferent' = [rpReferent EXCEPT ![r] = RpNull]
      /\ UNCHANGED <<rpZombie, rpNext, rpList, rpQueued, rpFields, rpMarked, rpGrey, rpScan, rpSwept,
                      rpSlow, rpCallback, rpPreserving, rpPhase, rpCursor, rpPc, rpRef, rpSeen,
                      rpHeld, rpSlowly>>
  BY RpInvParts DEF RpClear, rpHeap, rpQueues, rpColours, rpFlags, rpMutators
<1>2. RpTypeInv /\ RpQueueInv /\ RpSweptInv /\ RpColourInv /\ RpHeldInv /\ RpCallInv
  BY DEF RpInv
<1>3. RpTypeInv'
  BY <1>1, <1>2 DEF RpTypeInv, RpPhases, RpSlowPhases, RpPreservingPhases, RpPcs, RpBroadcast, RpWhite
<1>4. RpQueueInv'
  BY <1>1, <1>2 DEF RpQueueInv, RpTypeInv, RpPhases, RpSlowPhases, RpPreservingPhases, RpBroadcast
<1>5. RpSweptInv'
  BY <1>1, <1>2 DEF RpSweptInv, RpSlowPathIsSafe, RpTypeInv, RpColourInv, RpHeldInv, RpWhite, RpPhases, RpSlowPhases, RpPreservingPhases
<1>6. RpColourInv'
  BY <1>1, <1>2 DEF RpColourInv, RpScanned, RpReached, RpTypeInv, RpWhite, RpPhases, RpSlowPhases, RpPreservingPhases
<1>7. RpHeldInv'
  <2>1. \A x \in RpAll : rpReferent'[x] = rpReferent[x] \/ rpReferent'[x] = RpNull
    BY <1>1, <1>2 DEF RpTypeInv
  <2>2. \A black : RpBlack(black) => RpBlack(black)'
    BY <1>1, <2>1 DEF RpBlack, RpClosed
  <2> QED BY <1>1, <1>2, <2>2 DEF RpHeldInv, RpWhite
<1>8. RpCallInv'
  BY <1>1, <1>2 DEF RpCallInv, RpReached, RpTypeInv, RpSlowPhases, RpBroadcast, RpHeldInv, RpWhite
<1> QED BY <1>3, <1>4, <1>5, <1>6, <1>7, <1>8 DEF RpInv

\* DelayReferenceReferent puts a reference that is on no queue on the queue of its kind.
LEMMA RpDelayKeeps ==
    ASSUME ReferenceProcessorAssumption, RpInv, NEW r \in RpAll, DelayReferenceReferent(r)
    PROVE  RpInv'
<1>1. /\ rpPhase = "mark" /\ ~RpEnqueued(r) /\ RpEnqueue(RpRefs[r], r, rpNext, rpList)
      /\ rpQueued' = [rpQueued EXCEPT ![r] = RpRefs[r]]
      /\ UNCHANGED <<rpReferent, rpZombie, rpFields, rpMarked, rpGrey, rpScan, rpSwept, rpSlow, rpCallback,
                      rpPreserving, rpPhase, rpCursor, rpPc, rpRef, rpSeen, rpHeld, rpSlowly>>
  BY DEF DelayReferenceReferent, rpHeap, rpColours, rpFlags, rpMutators
<1>2. RpTypeInv /\ RpQueueInv /\ RpSweptInv /\ RpColourInv /\ RpHeldInv /\ RpCallInv
  BY DEF RpInv
<1>3. /\ rpNext \in RpNextTypes /\ rpList \in RpListTypes /\ rpQueued \in RpQueuedTypes
      /\ RpRings(rpNext, rpList, rpQueued) /\ RpRefs[r] \in RpQueueNames
  BY <1>2, RpNames DEF RpTypeInv, RpNextTypes, RpListTypes, RpQueuedTypes, RpQueueInv
<1>4. rpQueued[r] = "none"
  <2>1. rpQueued[r] \in RpQueueNames => rpNext[r] # RpNull
    BY <1>3, RpOnIsLinked
  <2> QED BY <1>1, <1>3, <2>1 DEF RpEnqueued, RpQueuedTypes
<1>5. /\ rpNext' \in RpNextTypes /\ rpList' \in RpListTypes
      /\ RpRings(rpNext', rpList', rpQueued')
      /\ \A x \in RpAll : x # r /\ rpQueued[x] = "none" => rpNext'[x] = rpNext[x]
  <2>1. PICK q \in RpQueueNames : q = RpRefs[r]
    BY <1>3
  <2>2. RpEnqueue(q, r, rpNext, rpList)
    BY <1>1, <2>1
  <2>3. /\ rpNext' \in RpNextTypes /\ rpList' \in RpListTypes
        /\ RpRings(rpNext', rpList', [rpQueued EXCEPT ![r] = q])
        /\ \A x \in RpAll : x # r /\ rpQueued[x] = "none" => rpNext'[x] = rpNext[x]
    BY <1>3, <1>4, <2>2, RpEnqueueRings
  <2>4. rpQueued' = [rpQueued EXCEPT ![r] = q]
    BY <1>1, <2>1
  <2> QED BY <2>3, <2>4
<1>6. /\ rpQueued' \in RpQueuedTypes /\ rpQueued'[r] = RpRefs[r]
      /\ \A x \in RpAll : x # r => rpQueued'[x] = rpQueued[x]
  BY <1>1, <1>3 DEF RpQueuedTypes
<1>7. RpTypeInv'
  BY <1>1, <1>2, <1>5, <1>6 DEF RpTypeInv, RpNextTypes, RpListTypes, RpQueuedTypes
<1>8. RpQueueInv'
  <2>1. \A x \in RpAll : /\ rpQueued'[x] \in {"none", "cleared", RpRefs[x]}
                         /\ rpQueued'[x] = "cleared" => rpReferent[x] = RpNull
                         /\ rpQueued'[x] = "none" /\ rpNext'[x] # RpNull => rpReferent[x] = RpNull
    <3> TAKE x \in RpAll
    <3>1. CASE x = r
      BY <1>6, <3>1, RpNames DEF RpQueueNames
    <3>2. CASE x # r
      BY <1>2, <1>5, <1>6, <3>2 DEF RpQueueInv
    <3> QED BY <3>1, <3>2
  <2> QED BY <1>1, <1>2, <1>5, <2>1 DEF RpQueueInv
<1>9. RpSweptInv'
  BY <1>1, <1>2 DEF RpSweptInv, RpSlowPathIsSafe
<1>10. RpColourInv'
  BY <1>1, <1>2 DEF RpColourInv, RpSlowPhases, RpPreservingPhases
<1>11. RpHeldInv'
  BY <1>1, <1>2 DEF RpHeldInv, RpSlowPhases, RpPreservingPhases
<1>12. RpCallInv'
  BY <1>1 DEF RpCallInv, RpSlowPhases
<1> QED BY <1>7, <1>8, <1>9, <1>10, <1>11, <1>12 DEF RpInv

\* The mark stack's scan of a reference delays it, unless its referent is marked or it is delayed
\* already.
LEMMA RpScanReferenceKeeps ==
    ASSUME ReferenceProcessorAssumption, RpInv, NEW r \in RpAll, RpScanReference(r)
    PROVE  RpInv'
<1>1. /\ rpPhase \in RpPreservingPhases /\ rpScan' = rpScan \ {r}
      /\ \/ /\ RpWhite(rpReferent[r]) /\ ~RpEnqueued(r) /\ RpEnqueue(RpRefs[r], r, rpNext, rpList)
            /\ rpQueued' = [rpQueued EXCEPT ![r] = RpRefs[r]]
         \/ (~RpWhite(rpReferent[r]) \/ RpEnqueued(r)) /\ UNCHANGED <<rpNext, rpList, rpQueued>>
      /\ UNCHANGED <<rpReferent, rpZombie, rpFields, rpMarked, rpGrey, rpSwept, rpSlow, rpCallback,
                      rpPreserving, rpPhase, rpCursor, rpPc, rpRef, rpSeen, rpHeld, rpSlowly>>
  BY DEF RpScanReference, RpDraining, RpPreservingPhases, rpHeap, rpQueues, rpFlags, rpMutators
<1>2. RpTypeInv /\ RpQueueInv /\ RpSweptInv /\ RpColourInv /\ RpHeldInv /\ RpCallInv
  BY DEF RpInv
<1>3. /\ rpNext \in RpNextTypes /\ rpList \in RpListTypes /\ rpQueued \in RpQueuedTypes
      /\ RpRings(rpNext, rpList, rpQueued) /\ RpRefs[r] \in RpQueueNames
  BY <1>2, RpNames DEF RpTypeInv, RpNextTypes, RpListTypes, RpQueuedTypes, RpQueueInv
<1>4. ~RpEnqueued(r) => rpQueued[r] = "none"
  <2>1. rpQueued[r] \in RpQueueNames => rpNext[r] # RpNull
    BY <1>3, RpOnIsLinked
  <2> QED BY <1>3, <2>1 DEF RpEnqueued, RpQueuedTypes
<1>5. /\ rpNext' \in RpNextTypes /\ rpList' \in RpListTypes /\ rpQueued' \in RpQueuedTypes
      /\ RpRings(rpNext', rpList', rpQueued')
      /\ rpQueued'[r] = RpRefs[r] \/ UNCHANGED <<rpNext, rpQueued>>
      /\ \A x \in RpAll : x # r /\ rpQueued[x] = "none" => rpNext'[x] = rpNext[x]
      /\ \A x \in RpAll : x # r => rpQueued'[x] = rpQueued[x]
  <2>1. CASE RpEnqueue(RpRefs[r], r, rpNext, rpList) /\ ~RpEnqueued(r)
             /\ rpQueued' = [rpQueued EXCEPT ![r] = RpRefs[r]]
    <3>1. PICK q \in RpQueueNames : q = RpRefs[r]
      BY <1>3
    <3>2. RpEnqueue(q, r, rpNext, rpList) /\ rpQueued[r] = "none"
      BY <1>4, <2>1, <3>1
    <3>3. /\ rpNext' \in RpNextTypes /\ rpList' \in RpListTypes
          /\ RpRings(rpNext', rpList', [rpQueued EXCEPT ![r] = q])
          /\ \A x \in RpAll : x # r /\ rpQueued[x] = "none" => rpNext'[x] = rpNext[x]
      BY <1>3, <3>2, RpEnqueueRings
    <3>4. rpQueued' = [rpQueued EXCEPT ![r] = q]
      BY <2>1, <3>1
    <3>5. /\ rpQueued' \in RpQueuedTypes /\ rpQueued'[r] = RpRefs[r]
          /\ \A x \in RpAll : x # r => rpQueued'[x] = rpQueued[x]
      BY <1>3, <3>1, <3>4 DEF RpQueuedTypes
    <3> QED BY <3>3, <3>4, <3>5
  <2>2. CASE UNCHANGED <<rpNext, rpList, rpQueued>>
    BY <1>3, <2>2
  <2> QED BY <1>1, <2>1, <2>2
<1>6. RpTypeInv'
  BY <1>1, <1>2, <1>5 DEF RpTypeInv, RpNextTypes, RpListTypes, RpQueuedTypes
<1>7. RpQueueInv'
  <2>1. \A x \in RpAll : /\ rpQueued'[x] \in {"none", "cleared", RpRefs[x]}
                         /\ rpQueued'[x] = "cleared" => rpReferent[x] = RpNull
                         /\ rpQueued'[x] = "none" /\ rpNext'[x] # RpNull => rpReferent[x] = RpNull
    <3> TAKE x \in RpAll
    <3>1. CASE x = r /\ rpQueued'[r] = RpRefs[r]
      BY <3>1, RpNames DEF RpKinds
    <3>2. CASE x # r \/ UNCHANGED <<rpNext, rpQueued>>
      BY <1>2, <1>5, <3>2 DEF RpQueueInv
    <3> QED BY <1>5, <3>1, <3>2
  <2> QED BY <1>1, <1>2, <1>5, <2>1 DEF RpQueueInv, RpPreservingPhases
<1>8. RpSweptInv'
  BY <1>1, <1>2 DEF RpSweptInv, RpSlowPathIsSafe
<1>9. rpPhase \in RpSlowPhases
  BY <1>1 DEF RpSlowPhases, RpPreservingPhases
<1>10. RpColourInv'
  <2>1. ASSUME NEW x \in RpAll, RpScanned(x)', RpWhite(rpReferent[x]) PROVE rpQueued'[x] = RpRefs[x]
    <3>1. CASE x # r
      BY <1>1, <1>2, <1>5, <1>9, <2>1, <3>1 DEF RpColourInv, RpScanned, RpReached
    <3>2. CASE x = r
      BY <1>1, <1>2, <1>3, <2>1, <3>2 DEF RpQueueInv, RpEnqueued, RpWhite, RpQueuedTypes
    <3> QED BY <3>1, <3>2
  <2> QED BY <1>1, <1>2, <1>9, <2>1 DEF RpColourInv, RpWhite
<1>11. RpHeldInv'
  <2>1. \A x \in RpAll : rpNext'[x] = RpNull => rpNext[x] = RpNull
    <3> SUFFICES ASSUME NEW x \in RpAll, rpNext'[x] = RpNull PROVE rpNext[x] = RpNull
      OBVIOUS
    <3>1. rpQueued'[x] = "none"
      BY <1>5, RpOnIsLinked DEF RpQueuedTypes
    <3> QED BY <1>3, <1>5, <3>1, RpNames
  <2>2. \A black : RpBlack(black) => RpBlack(black)'
    BY <1>1, <2>1 DEF RpBlack, RpClosed
  <2> QED BY <1>1, <1>2, <2>2 DEF RpHeldInv, RpWhite
<1>12. RpCallInv'
  BY <1>1, <1>2 DEF RpCallInv, RpReached
<1> QED BY <1>6, <1>7, <1>8, <1>10, <1>11, <1>12 DEF RpInv

\* What moving the first of a queue, with its referent taken away if it is cleared, leaves of the
\* queues' invariant.
LEMMA RpMoveKeeps ==
    ASSUME ReferenceProcessorAssumption, RpTypeInv, RpQueueInv, NEW q \in RpKinds, rpList[q] # RpNull,
           NEW cleared \in BOOLEAN, RpMove(q, cleared), NEW f, f = RpFirst(q),
           rpPhase' = rpPhase, rpPc' = rpPc, rpRef' = rpRef,
           \A x \in RpAll : rpReferent'[x] = rpReferent[x] \/ rpReferent'[x] = RpNull,
           cleared => rpReferent'[f] = RpNull
    PROVE  /\ RpQueueInv' /\ f \in RpAll /\ RpRefs[f] = q
           /\ rpNext' \in RpNextTypes /\ rpList' \in RpListTypes /\ rpQueued' \in RpQueuedTypes
           /\ \A x \in RpAll : x # f => /\ rpQueued'[x] = rpQueued[x]
                                        /\ rpNext'[x] = RpNull => rpNext[x] = RpNull
<1>0. RpRings(rpNext, rpList, rpQueued) /\ rpQueued \in RpQueuedTypes
  BY DEF RpQueueInv, RpTypeInv, RpQueuedTypes
<1>1. /\ f \in RpAll /\ rpQueued[f] = q
      /\ rpNext' \in RpNextTypes /\ rpList' \in RpListTypes /\ rpQueued' \in RpQueuedTypes
      /\ RpRings(rpNext', rpList', rpQueued')
      /\ rpQueued'[f] = IF cleared THEN "cleared" ELSE "none"
      /\ ~cleared => rpNext'[f] = RpNull
      /\ \A x \in RpAll : x # f => /\ rpQueued'[x] = rpQueued[x]
                                   /\ rpQueued[x] = "none" => rpNext'[x] = rpNext[x]
      /\ \A p \in RpKinds \ {q} : rpList'[p] = rpList[p]
  BY <1>0, RpMoveRings
<1>2. q # "none" /\ q # "cleared"
  BY DEF RpKinds
<1>3. RpRefs[f] = q
  BY <1>1, <1>2 DEF RpQueueInv
<1>4. ASSUME NEW x \in RpAll, x # f, rpNext'[x] = RpNull
      PROVE  rpNext[x] = RpNull
  <2>1. rpQueued'[x] \notin RpQueueNames
    BY <1>1, <1>4, RpOnIsLinked
  <2>2. rpQueued[x] = "none"
    BY <1>0, <1>1, <1>4, <2>1 DEF RpQueuedTypes
  <2> QED BY <1>1, <1>4, <2>2
<1>5. \A x \in RpAll : /\ rpQueued'[x] \in {"none", "cleared", RpRefs[x]}
                       /\ rpQueued'[x] = "cleared" => rpReferent'[x] = RpNull
                       /\ rpQueued'[x] = "none" /\ rpNext'[x] # RpNull => rpReferent'[x] = RpNull
  <2> TAKE x \in RpAll
  <2>1. CASE x = f
    BY <1>1, <2>1
  <2>2. CASE x # f
    <3>1. /\ rpQueued[x] \in {"none", "cleared", RpRefs[x]}
          /\ rpQueued[x] = "cleared" => rpReferent[x] = RpNull
          /\ rpQueued[x] = "none" /\ rpNext[x] # RpNull => rpReferent[x] = RpNull
          /\ rpReferent'[x] = rpReferent[x] \/ rpReferent'[x] = RpNull
      BY DEF RpQueueInv
    <3> QED BY <1>1, <2>2, <3>1
  <2> QED BY <2>1, <2>2
<1>6. \A t \in RpThreads : rpPc'[t] \in {"circular", "wait_circular"} => rpReferent'[rpRef'[t]] = RpNull
  <2> SUFFICES ASSUME NEW t \in RpThreads, rpPc[t] \in {"circular", "wait_circular"}
               PROVE  rpReferent'[rpRef[t]] = RpNull
    OBVIOUS
  <2>1. rpRef[t] \in RpAll /\ rpReferent[rpRef[t]] = RpNull
    BY DEF RpTypeInv, RpQueueInv
  <2> QED BY <2>1
<1>7. /\ rpPhase' \in {"clear_phantom", "done", "sweep"} => rpList'["finalizer"] = RpNull
      /\ rpPhase' \in {"done", "sweep"} => \A p \in {"soft", "weak", "phantom"} : rpList'[p] = RpNull
  BY <1>1 DEF RpQueueInv, RpKinds
<1>8. RpQueueInv'
  BY <1>1, <1>5, <1>6, <1>7 DEF RpQueueInv
<1> QED BY <1>1, <1>3, <1>4, <1>8

\* ClearWhiteReferences takes the first of a queue, whose referent is marked, or is taken away.
LEMMA RpClearWhiteKeeps ==
    ASSUME ReferenceProcessorAssumption, RpInv, NEW q \in RpKinds, ClearWhiteReferences(q)
    PROVE  RpInv'
<1>0. PICK f : f = RpFirst(q)
  OBVIOUS
<1>1. /\ q \in RpClearing /\ rpList[q] # RpNull
      /\ \/ /\ RpWhite(rpReferent[f]) /\ rpReferent' = [rpReferent EXCEPT ![f] = RpNull]
            /\ \E enqueuable \in BOOLEAN : RpMove(q, enqueuable)
         \/ ~RpWhite(rpReferent[f]) /\ RpMove(q, FALSE) /\ rpReferent' = rpReferent
      /\ UNCHANGED <<rpZombie, rpFields, rpMarked, rpGrey, rpScan, rpSwept, rpSlow, rpCallback, rpPreserving,
                     rpPhase, rpCursor, rpPc, rpRef, rpSeen, rpHeld, rpSlowly>>
  BY <1>0 DEF ClearWhiteReferences, rpColours, rpFlags, rpMutators
<1>2. RpTypeInv /\ RpQueueInv /\ RpSweptInv /\ RpColourInv /\ RpHeldInv /\ RpCallInv
  BY DEF RpInv
<1>3. rpPhase \in {"clear_soft", "clear_phantom"} /\ q \in {"soft", "weak", "phantom"}
  BY <1>1 DEF RpClearing
<1>4. PICK cleared \in BOOLEAN : RpMove(q, cleared) /\ (cleared => RpWhite(rpReferent[f]))
  BY <1>1
<1>5. f \in RpAll
  <2>1. q \in RpQueueNames
    BY RpNames
  <2> QED BY <1>0, <1>1, <1>2, <2>1, RpDequeueRings DEF RpQueueInv
<1>6. /\ \A x \in RpAll : rpReferent'[x] = rpReferent[x] \/ rpReferent'[x] = RpNull
      /\ RpWhite(rpReferent[f]) => rpReferent'[f] = RpNull
      /\ ~RpWhite(rpReferent[f]) => rpReferent' = rpReferent
      /\ rpReferent' \in [RpAll -> RpObjects \union {RpNull}]
  BY <1>1, <1>2, <1>5 DEF RpTypeInv
<1>7. /\ RpQueueInv' /\ RpRefs[f] = q
      /\ rpNext' \in RpNextTypes /\ rpList' \in RpListTypes /\ rpQueued' \in RpQueuedTypes
      /\ \A x \in RpAll : x # f => rpQueued'[x] = rpQueued[x]
  BY <1>0, <1>1, <1>2, <1>4, <1>6, RpMoveKeeps
<1>8. RpTypeInv'
  BY <1>1, <1>2, <1>6, <1>7 DEF RpTypeInv, RpNextTypes, RpListTypes, RpQueuedTypes
<1>9. RpSweptInv'
  <2>1. RpNull \notin rpSwept
    BY <1>2 DEF RpTypeInv, ReferenceProcessorAssumption
  <2> QED BY <1>1, <1>2, <1>6, <2>1 DEF RpSweptInv, RpSlowPathIsSafe
<1>10. RpColourInv'
  <2>1. \A x \in RpAll : RpWhite(rpReferent'[x]) => x # f /\ rpReferent'[x] = rpReferent[x]
    BY <1>6 DEF RpWhite
  <2>2. \A x \in RpAll : RpScanned(x) /\ RpWhite(rpReferent'[x]) => rpQueued'[x] = RpRefs[x]
    BY <1>2, <1>3, <1>7, <2>1 DEF RpColourInv, RpSlowPhases
  <2> QED BY <1>1, <1>2, <2>2 DEF RpColourInv, RpScanned, RpReached, RpWhite
<1>11. RpHeldInv'
  BY <1>1, <1>2, <1>3 DEF RpHeldInv, RpWhite, RpPreservingPhases
<1>12. RpCallInv'
  BY <1>1, <1>2 DEF RpCallInv, RpReached
<1> QED BY <1>7, <1>8, <1>9, <1>10, <1>11, <1>12 DEF RpInv

\* EnqueueFinalizerReferences greys a white referent, which becomes the zombie.
LEMMA RpEnqueueFinalizerKeeps ==
    ASSUME ReferenceProcessorAssumption, RpInv, RpEnqueueFinalizer
    PROVE  RpInv'
<1>0. PICK f, o : f = RpFirst("finalizer") /\ o = rpReferent[f]
  OBVIOUS
<1>1. /\ rpPhase = "enqueue_finalizer" /\ rpList["finalizer"] # RpNull /\ RpMove("finalizer", RpWhite(o))
      /\ \/ /\ RpWhite(o) /\ rpMarked' = rpMarked \union {o} /\ rpGrey' = rpGrey \union {o}
            /\ rpZombie' = [rpZombie EXCEPT ![f] = o] /\ rpReferent' = [rpReferent EXCEPT ![f] = RpNull]
         \/ ~RpWhite(o) /\ UNCHANGED <<rpMarked, rpGrey, rpZombie, rpReferent>>
      /\ UNCHANGED <<rpFields, rpScan, rpSwept, rpSlow, rpCallback, rpPreserving, rpPhase, rpCursor, rpPc,
                     rpRef, rpSeen, rpHeld, rpSlowly>>
  BY <1>0 DEF RpEnqueueFinalizer, rpFlags, rpMutators
<1>2. RpTypeInv /\ RpQueueInv /\ RpSweptInv /\ RpColourInv /\ RpHeldInv /\ RpCallInv
  BY DEF RpInv
<1>3. "finalizer" \in RpKinds /\ "finalizer" \in RpQueueNames
  BY DEF RpKinds, RpQueueNames
<1>4. f \in RpAll /\ o \in RpObjects \union {RpNull}
  <2>1. f \in RpAll
    BY <1>0, <1>1, <1>2, <1>3, RpDequeueRings DEF RpQueueInv
  <2> QED BY <1>0, <1>2, <2>1 DEF RpTypeInv
<1>5. PICK cleared \in BOOLEAN : (cleared <=> RpWhite(o)) /\ RpMove("finalizer", cleared)
  BY <1>1 DEF RpWhite
<1>6. /\ \A x \in RpAll : rpReferent'[x] = rpReferent[x] \/ rpReferent'[x] = RpNull
      /\ RpWhite(o) => rpReferent'[f] = RpNull
      /\ \A x \in RpAll : rpZombie'[x] = rpZombie[x] \/ (rpZombie'[x] = o /\ RpWhite(o))
      /\ rpReferent' \in [RpAll -> RpObjects \union {RpNull}]
      /\ rpZombie' \in [RpAll -> RpObjects \union {RpNull}]
  BY <1>1, <1>2, <1>4 DEF RpTypeInv
<1>7. /\ rpMarked \subseteq rpMarked' /\ rpMarked' \subseteq rpMarked \union {o} /\ rpMarked' \in SUBSET RpObjects
      /\ rpGrey' \in SUBSET rpMarked' /\ (RpWhite(o) => o \in rpMarked')
      /\ rpMarked' \ rpGrey' \subseteq rpMarked \ rpGrey
  BY <1>1, <1>2, <1>4 DEF RpTypeInv, RpWhite
<1>8. /\ RpQueueInv' /\ RpRefs[f] = "finalizer"
      /\ rpNext' \in RpNextTypes /\ rpList' \in RpListTypes /\ rpQueued' \in RpQueuedTypes
      /\ \A x \in RpAll : x # f => /\ rpQueued'[x] = rpQueued[x]
                                   /\ rpNext'[x] = RpNull => rpNext[x] = RpNull
  BY <1>0, <1>1, <1>2, <1>3, <1>5, <1>6, RpMoveKeeps
<1>9. RpTypeInv'
  BY <1>1, <1>2, <1>6, <1>7, <1>8 DEF RpTypeInv, RpNextTypes, RpListTypes, RpQueuedTypes
<1>10. o \notin rpSwept /\ RpNull \notin rpSwept
  BY <1>0, <1>2, <1>4 DEF RpSweptInv, RpTypeInv, ReferenceProcessorAssumption
<1>11. RpSweptInv'
  <2>1. rpMarked' \intersect rpSwept = {}
    BY <1>2, <1>7, <1>10 DEF RpSweptInv
  <2>2. \A x \in RpAll : rpReferent'[x] \notin rpSwept /\ rpZombie'[x] \notin rpSwept
    BY <1>2, <1>6, <1>10 DEF RpSweptInv
  <2> QED BY <1>1, <1>2, <2>1, <2>2 DEF RpSweptInv, RpSlowPathIsSafe
<1>12. rpPhase \in RpSlowPhases /\ rpPhase \in RpPreservingPhases
  BY <1>1 DEF RpSlowPhases, RpPreservingPhases
<1>13. RpColourInv'
  <2>1. ASSUME NEW x \in RpAll PROVE rpZombie'[x] = RpNull \/ rpZombie'[x] \in rpMarked'
    BY <1>2, <1>6, <1>7, <1>12 DEF RpColourInv, RpWhite
  <2>2. ASSUME NEW x \in RpAll, RpScanned(x)', rpReferent'[x] # RpNull, rpReferent'[x] \notin rpMarked'
        PROVE  rpQueued'[x] = RpRefs[x]
    <3>0. RpScanned(x)
      BY <1>1, <1>2, <1>7, <2>2 DEF RpScanned, RpReached, RpTypeInv
    <3>1. rpReferent'[x] = rpReferent[x] /\ RpWhite(rpReferent[x])
      BY <1>6, <1>7, <2>2 DEF RpWhite
    <3>2. x # f
      BY <1>0, <1>6, <2>2, <3>1
    <3> QED BY <1>2, <1>8, <1>12, <3>0, <3>1, <3>2 DEF RpColourInv
  <2>3. \A y \in rpMarked' \ rpGrey' : rpFields[y] \subseteq rpMarked'
    BY <1>2, <1>7, <1>12 DEF RpColourInv
  <2> QED BY <1>1, <1>12, <2>1, <2>2, <2>3 DEF RpColourInv, RpWhite
<1>14. RpHeldInv'
  <2>1. PICK black \in SUBSET RpObjects : RpBlack(black)
    BY <1>2, <1>12 DEF RpHeldInv
  <2>2. /\ black \subseteq rpMarked' /\ RpClosed(black)'
        /\ \A t \in RpThreads : rpHeld'[t] \in black \union {RpNull}
        /\ \A t \in RpThreads : rpPc'[t] # "out" => RpHolder[rpRef'[t]] \in black \union {RpNull}
    BY <1>1, <1>7, <2>1 DEF RpBlack, RpClosed
  <2>3. ASSUME NEW x \in RpAll, rpNext'[x] = RpNull, RpRefs[x] # "finalizer",
               RpHolder[x] \in black \union {RpNull}
        PROVE  rpReferent'[x] \in black \union {RpNull}
    <3>1. x # f
      BY <1>8, <2>3
    <3>2. rpNext[x] = RpNull
      BY <1>8, <2>3, <3>1
    <3>3. rpReferent[x] \in black \union {RpNull}
      BY <2>1, <2>3, <3>2 DEF RpBlack
    <3> QED BY <1>6, <3>3
  <2>4. RpBlack(black)'
    BY <2>2, <2>3 DEF RpBlack
  <2>5. \A t \in RpThreads : rpHeld'[t] = RpNull \/ rpHeld'[t] \in rpMarked'
    BY <1>1, <1>2, <1>7, <1>12 DEF RpHeldInv, RpWhite
  <2> QED BY <1>1, <2>4, <2>5 DEF RpHeldInv, RpWhite
<1>15. RpCallInv'
  BY <1>1, <1>2, <1>7 DEF RpCallInv, RpReached
<1> QED BY <1>8, <1>9, <1>11, <1>13, <1>14, <1>15 DEF RpInv

\* EnqueueClearedReferences empties cleared_references_ and leaves the other queues alone.
LEMMA RpEnqueueClearedKeeps ==
    ASSUME ReferenceProcessorAssumption, RpInv, EnqueueClearedReferences
    PROVE  RpInv'
<1>1. /\ rpPhase = "enqueue" /\ rpPhase' = "idle"
      /\ rpNext' = [r \in RpAll |-> IF rpQueued[r] = "cleared" THEN RpNull ELSE rpNext[r]]
      /\ rpQueued' = [r \in RpAll |-> IF rpQueued[r] = "cleared" THEN "none" ELSE rpQueued[r]]
      /\ rpList' = [rpList EXCEPT !["cleared"] = RpNull]
      /\ rpZombie' = [r \in RpAll |-> IF rpQueued[r] = "cleared" THEN RpNull ELSE rpZombie[r]]
      /\ UNCHANGED <<rpReferent, rpFields, rpMarked, rpGrey, rpScan, rpSwept, rpSlow, rpCallback, rpPreserving,
                     rpCursor, rpPc, rpRef, rpSeen, rpHeld, rpSlowly>>
  BY DEF EnqueueClearedReferences, RpGo, rpColours, rpFlags, rpMutators
<1>2. RpTypeInv /\ RpQueueInv /\ RpSweptInv /\ RpColourInv /\ RpHeldInv /\ RpCallInv
  BY DEF RpInv
<1>3. /\ rpNext \in RpNextTypes /\ rpList \in RpListTypes /\ rpQueued \in RpQueuedTypes
      /\ RpRings(rpNext, rpList, rpQueued) /\ "cleared" \in RpQueueNames /\ "none" \notin RpQueueNames
  BY <1>2, RpNames DEF RpTypeInv, RpNextTypes, RpListTypes, RpQueuedTypes, RpQueueInv
<1>4. rpNext' \in RpNextTypes /\ rpList' \in RpListTypes /\ rpQueued' \in RpQueuedTypes
      /\ rpZombie' \in [RpAll -> RpObjects \union {RpNull}]
  BY <1>1, <1>2, <1>3 DEF RpTypeInv, RpNextTypes, RpListTypes, RpQueuedTypes
<1>5. RpRings(rpNext', rpList', rpQueued')
  <2>1. ASSUME NEW q \in RpQueueNames, q # "cleared"
        PROVE  RpRing(rpNext', rpList'[q], RpOn(rpQueued', q))
    <3>1. RpOn(rpQueued', q) = RpOn(rpQueued, q)
      BY <1>1, <1>3, <2>1 DEF RpOn
    <3>2. \A x \in RpOn(rpQueued, q) : rpNext'[x] = rpNext[x]
      BY <1>1, <2>1 DEF RpOn
    <3>3. RpRing(rpNext, rpList[q], RpOn(rpQueued, q))
      BY <1>3, <2>1 DEF RpRings
    <3> DEFINE next2 == rpNext'
    <3> HIDE DEF next2
    <3>4. RpRing(next2, rpList[q], RpOn(rpQueued, q))
      BY <3>2, <3>3, RpRingFrame DEF next2
    <3>5. rpList'[q] = rpList[q]
      BY <1>1, <1>3, <2>1 DEF RpListTypes
    <3> QED BY <3>1, <3>4, <3>5 DEF next2
  <2>2. RpOn(rpQueued', "cleared") = {} /\ rpList'["cleared"] = RpNull
    BY <1>1, <1>3 DEF RpOn, RpListTypes
  <2>3. RpRing(rpNext', rpList'["cleared"], RpOn(rpQueued', "cleared"))
    BY <2>2 DEF RpRing
  <2> QED BY <2>1, <2>3 DEF RpRings
<1>6. RpTypeInv'
  BY <1>1, <1>2, <1>4 DEF RpTypeInv, RpNextTypes, RpListTypes, RpQueuedTypes, RpPhases, RpSlowPhases,
                          RpPreservingPhases
<1>7. RpQueueInv'
  <2>1. \A x \in RpAll : /\ rpQueued'[x] \in {"none", "cleared", RpRefs[x]}
                         /\ rpQueued'[x] = "cleared" => rpReferent[x] = RpNull
                         /\ rpQueued'[x] = "none" /\ rpNext'[x] # RpNull => rpReferent[x] = RpNull
    BY <1>1, <1>2 DEF RpQueueInv
  <2> QED BY <1>1, <1>2, <1>5, <2>1 DEF RpQueueInv
<1>8. RpSweptInv'
  <2>1. RpNull \notin rpSwept
    BY <1>2 DEF RpTypeInv, ReferenceProcessorAssumption
  <2> QED BY <1>1, <1>2, <2>1 DEF RpSweptInv, RpSlowPathIsSafe
<1>9. RpColourInv'
  BY <1>1, <1>2 DEF RpColourInv, RpSlowPhases, RpPreservingPhases
<1>10. RpHeldInv'
  BY <1>1, <1>2 DEF RpHeldInv, RpSlowPhases, RpPreservingPhases
<1>11. RpCallInv'
  BY <1>1 DEF RpCallInv, RpSlowPhases
<1> QED BY <1>6, <1>7, <1>8, <1>9, <1>10, <1>11 DEF RpInv

\* MakeCircularListIfUnenqueued links a reference that is on no queue to itself.
LEMMA RpMakeCircularKeeps ==
    ASSUME ReferenceProcessorAssumption, RpInv, NEW t \in RpThreads, MakeCircularListIfUnenqueued(t)
    PROVE  RpInv'
<1>0. PICK r : r = rpRef[t]
  OBVIOUS
<1>1. /\ rpPc[t] = "circular"
      /\ \/ rpSlow /\ rpPc' = [rpPc EXCEPT ![t] = "wait_circular"] /\ rpNext' = rpNext
         \/ /\ ~rpSlow /\ rpPc' = [rpPc EXCEPT ![t] = "out"]
            /\ rpNext' = IF RpEnqueued(r) THEN rpNext ELSE [rpNext EXCEPT ![r] = r]
      /\ UNCHANGED <<rpReferent, rpZombie, rpList, rpQueued, rpFields, rpMarked, rpGrey, rpScan, rpSwept, rpSlow,
                     rpCallback, rpPreserving, rpPhase, rpCursor, rpRef, rpSeen, rpHeld, rpSlowly>>
  BY <1>0 DEF MakeCircularListIfUnenqueued, rpHeap, rpColours, rpFlags
<1>2. RpTypeInv /\ RpQueueInv /\ RpSweptInv /\ RpColourInv /\ RpHeldInv /\ RpCallInv
  BY DEF RpInv
<1>3. r \in RpAll /\ rpReferent[r] = RpNull
  BY <1>0, <1>1, <1>2 DEF RpTypeInv, RpQueueInv
<1>4. rpNext \in RpNextTypes /\ RpRings(rpNext, rpList, rpQueued)
  BY <1>2 DEF RpTypeInv, RpNextTypes, RpQueueInv
<1>5. /\ rpNext' \in RpNextTypes
      /\ rpNext' = rpNext \/ (rpNext[r] = RpNull /\ \A x \in RpAll : x # r => rpNext'[x] = rpNext[x])
      /\ rpNext' = rpNext \/ rpPhase \notin RpSlowPhases
  BY <1>1, <1>2, <1>3, <1>4 DEF RpNextTypes, RpEnqueued, RpTypeInv
<1>6. RpRings(rpNext', rpList, rpQueued)
  <2>1. CASE rpNext' = rpNext
    BY <1>4, <2>1
  <2>2. CASE rpNext[r] = RpNull /\ \A x \in RpAll : x # r => rpNext'[x] = rpNext[x]
    <3>1. rpQueued[r] \notin RpQueueNames
      BY <1>3, <1>4, <2>2, RpOnIsLinked
    <3>2. ASSUME NEW q \in RpQueueNames PROVE RpRing(rpNext', rpList[q], RpOn(rpQueued, q))
      <4>1. \A x \in RpOn(rpQueued, q) : rpNext'[x] = rpNext[x]
        BY <2>2, <3>1 DEF RpOn
      <4>2. RpRing(rpNext, rpList[q], RpOn(rpQueued, q))
        BY <1>4 DEF RpRings
      <4> DEFINE next2 == rpNext'
      <4> HIDE DEF next2
      <4>3. RpRing(next2, rpList[q], RpOn(rpQueued, q))
        BY <4>1, <4>2, RpRingFrame DEF next2
      <4> QED BY <4>3 DEF next2
    <3> QED BY <3>2 DEF RpRings
  <2> QED BY <1>5, <2>1, <2>2
<1>7. RpTypeInv'
  <2>1. rpPc' \in [RpThreads -> RpPcs] /\ \A u \in RpThreads : rpPc'[u] # "out" => rpPc[u] # "out"
    BY <1>1, <1>2 DEF RpTypeInv, RpPcs
  <2> QED BY <1>1, <1>2, <1>5, <2>1 DEF RpTypeInv, RpNextTypes
<1>8. RpQueueInv'
  <2>1. \A x \in RpAll : rpQueued[x] = "none" /\ rpNext'[x] # RpNull => rpReferent[x] = RpNull
    BY <1>2, <1>3, <1>5 DEF RpQueueInv
  <2>2. \A u \in RpThreads : rpPc'[u] \in {"circular", "wait_circular"} => rpPc[u] \in {"circular", "wait_circular"}
    BY <1>1, <1>2 DEF RpTypeInv
  <2> QED BY <1>1, <1>2, <1>6, <2>1, <2>2 DEF RpQueueInv
<1>9. RpSweptInv'
  BY <1>1, <1>2 DEF RpSweptInv, RpSlowPathIsSafe
<1>10. RpColourInv'
  BY <1>1, <1>2 DEF RpColourInv, RpScanned, RpReached, RpWhite
<1>11. RpHeldInv'
  <2>1. rpPhase \in RpPreservingPhases => rpNext' = rpNext
    BY <1>5 DEF RpSlowPhases, RpPreservingPhases
  <2>2. rpPhase \in RpPreservingPhases => \A black : RpBlack(black) => RpBlack(black)'
    <3>1. \A u \in RpThreads : rpPc'[u] # "out" => rpPc[u] # "out"
      BY <1>1, <1>2 DEF RpTypeInv
    <3> QED BY <1>1, <2>1, <3>1 DEF RpBlack, RpClosed
  <2> QED BY <1>1, <1>2, <2>2 DEF RpHeldInv, RpWhite
<1>12. RpCallInv'
  BY <1>1, <1>2 DEF RpCallInv, RpReached, RpTypeInv
<1> QED BY <1>7, <1>8, <1>9, <1>10, <1>11, <1>12 DEF RpInv

\* Before the first collection.
LEMMA RpInitHolds ==
    ASSUME ReferenceProcessorAssumption, RpInit
    PROVE  RpInv
<1>1. RpTypeInv
  BY DEF RpInit, RpTypeInv, RpPhases, RpSlowPhases, RpPreservingPhases, RpPcs, RpQueueNames,
         ReferenceProcessorAssumption
<1>2. RpRings(rpNext, rpList, rpQueued)
  <2>1. \A q \in RpQueueNames : rpList[q] = RpNull /\ RpOn(rpQueued, q) = {}
    BY RpNames DEF RpInit, RpOn, RpQueueNames
  <2> QED BY <2>1 DEF RpRings, RpRing
<1>3. RpQueueInv
  BY <1>2 DEF RpInit, RpQueueInv
<1>4. RpSweptInv /\ RpColourInv /\ RpHeldInv /\ RpCallInv
  BY DEF RpInit, RpSweptInv, RpSlowPathIsSafe, RpColourInv, RpHeldInv, RpCallInv, RpSlowPhases, RpPreservingPhases
<1> QED BY <1>1, <1>3, <1>4 DEF RpInv

\* Every step of the collector and of the mutators keeps the invariant.
LEMMA RpStepKeeps ==
    ASSUME ReferenceProcessorAssumption, RpInv, RpNextStep
    PROVE  RpInv'
<1>1. CASE RpCollect
  BY <1>1, RpPauseKeeps, RpSetArgsKeeps, RpStartPreservingKeeps, RpForwardKeeps, RpEnqueueFinalizerKeeps,
     RpProcessMarkStackKeeps, RpScanReferenceKeeps, RpStopPreservingKeeps, RpClearWhiteKeeps, RpClearedAllKeeps,
     RpDisableSlowPathKeeps, RpSweepKeeps, RpEnqueueClearedKeeps DEF RpCollect
<1>2. ASSUME NEW t \in RpThreads,
             \/ RpMutate(t) \/ RpDrop(t)
             \/ \E r \in RpAll : GetReferent(t, r) \/ RpCallCircular(t, r) \/ RpClear(t, r)
             \/ \E o \in RpObjects : RpTake(t, o)
      PROVE  RpInv'
  BY <1>2, RpTestKeeps, RpLoopKeeps, RpMakeCircularKeeps, RpDropKeeps, RpGetReferentKeeps,
     RpCallCircularKeeps, RpClearKeeps, RpTakeKeeps DEF RpMutate
<1> QED BY <1>1, <1>2, RpStartMarkingKeeps, RpMarkKeeps, RpDelayKeeps DEF RpNextStep

\* The invariant of reference processing: the queues are rings, from the pause to the sweep what
\* is white hangs on them, and mutators hold black objects only.
THEOREM RpInvHolds == RpSpec => []RpInv
<1>1. RpInit => RpInv
  BY ReferenceProcessorAssumption, RpInitHolds
<1>2. RpInv /\ [RpNextStep]_rpVars => RpInv'
  <2>1. ASSUME RpInv, UNCHANGED rpVars PROVE RpInv'
    <3>1. UNCHANGED <<rpReferent, rpZombie, rpNext, rpList, rpQueued, rpFields, rpMarked, rpGrey, rpScan, rpSwept,
                      rpSlow, rpCallback, rpPreserving, rpPhase, rpCursor, rpPc, rpRef, rpSeen, rpHeld,
                      rpSlowly>>
      BY <2>1 DEF rpVars, rpHeap, rpQueues, rpColours, rpFlags, rpMutators
    <3>2. RpTypeInv' /\ RpQueueInv' /\ RpSweptInv'
      BY <2>1, <3>1 DEF RpInv, RpTypeInv, RpQueueInv, RpSweptInv, RpSlowPathIsSafe
    <3>3. \A black : RpBlack(black) => RpBlack(black)'
      BY <3>1 DEF RpBlack, RpClosed
    <3>4. RpColourInv' /\ RpHeldInv' /\ RpCallInv'
      BY <2>1, <3>1, <3>3 DEF RpInv, RpColourInv, RpHeldInv, RpCallInv, RpScanned, RpReached, RpWhite
    <3> QED BY <3>2, <3>4 DEF RpInv
  <2> QED BY <2>1, ReferenceProcessorAssumption, RpStepKeeps
<1> QED BY <1>1, <1>2, PTL DEF RpSpec

\* GetReferent on the slow path gives out only what the collection keeps, for any number of
\* threads, objects and references and any shape of the heap.
THEOREM RpSlowPathIsSafeHolds == RpSpec => []RpSlowPathIsSafe
<1>1. RpInv => RpSlowPathIsSafe
  BY DEF RpInv, RpSweptInv
<1> QED BY <1>1, RpInvHolds, PTL

\* The queues stay cycles of exactly the references put on them, and no reference leads to what
\* has been freed.
THEOREM RpNoDanglingReferenceHolds == RpSpec => []RpNoDanglingReference
<1>1. RpInv => RpNoDanglingReference
  <2> SUFFICES ASSUME RpInv PROVE RpNoDanglingReference
    OBVIOUS
  <2>1. RpTypeInv /\ RpRings(rpNext, rpList, rpQueued)
    BY DEF RpInv, RpQueueInv
  <2>2. RpQueuesAreCycles
    BY <2>1, ReferenceProcessorAssumption, RpRingsAreCycles
  <2>3. \A r \in RpAll : rpReferent[r] \notin rpSwept /\ rpZombie[r] \notin rpSwept
    BY DEF RpInv, RpSweptInv
  <2> QED BY <2>2, <2>3 DEF RpNoDanglingReference
<1> QED BY <1>1, RpInvHolds, PTL

=============================================================================
