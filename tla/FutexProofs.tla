------------------------------ MODULE FutexProofs ------------------------------
(***************************************************************************)
(* Proofs about the mutexes on futexes.  FutexMutex, for any set of        *)
(* threads and any number of calls: Mutex implements the abstract lock,    *)
(* the owner field is right, and no wake-up of the mutex or of its         *)
(* condition variable is lost.  FutexRWMutex, for any finite set of        *)
(* threads: ReaderWriterMutex implements the abstract lock, state_ counts  *)
(* its holders, and no wake-up is lost.                                    *)
(***************************************************************************)
EXTENDS FutexMutex, FutexRWMutex, FiniteSetTheorems, TLAPS

(***************************************************************************)
(* Control.  Where a thread is determines where it goes next; the kernel's *)
(* queues hold threads that are asleep; the word is 1 while it has a       *)
(* holder, and there is one holder at most.                                *)
(***************************************************************************)
MuThens == {"out", "in", "cvWait", "cvReturn"}

MuTypeInv ==
    /\ muState \in {0, 1}
    /\ muCount \in Nat
    /\ muContenders \in Int
    /\ muQueue \in SUBSET MuThreads
    /\ cvSequence \in Nat
    /\ cvWaiters \in Int
    /\ cvQueue \in SUBSET MuThreads
    /\ muPc \in [MuThreads -> MuPcs]
    /\ muThen \in [MuThreads -> MuThens]
    /\ muSaved \in [MuThreads -> Nat]
    /\ muSeen \in [MuThreads -> Nat]
    /\ muLeft \in Nat
    /\ cvLast \in Nat

MuPlaces ==
    \A t \in MuThreads :
        /\ muPc[t] \in {"load", "contend", "sleep", "asleep", "awake", "own"} =>
               muThen[t] \in {"in", "cvReturn"}
        /\ muPc[t] \in {"release", "check", "wake"} => muThen[t] \in {"out", "cvWait"}
        /\ muPc[t] = "cvWait" => muThen[t] = "cvWait"
        /\ muPc[t] \in {"cvAsleep", "cvReturn"} => muThen[t] = "cvReturn"
        /\ muPc[t] = "out" => muThen[t] = "out"
        /\ muThen[t] \in {"cvWait", "cvReturn"} => muSaved[t] > 0

MuQueues ==
    /\ \A t \in muQueue : muPc[t] \in {"asleep", "cvAsleep"}
    /\ \A t \in cvQueue : muPc[t] = "cvAsleep" /\ t \notin muQueue

MuExclusion ==
    \A t \in MuThreads :
        muPc[t] \in MuHolding =>
            /\ muState = 1
            /\ \A u \in MuThreads : muPc[u] \in MuHolding => u = t

MuOwnership ==
    \A t \in MuThreads :
        muPc[t] \in {"in", "signal", "broadcast", "cvReturn"} => muOwner = t /\ muCount > 0

MuControlInv == MuTypeInv /\ MuPlaces /\ MuQueues /\ MuExclusion /\ MuOwnership

\* At the start nobody is in a call and the mutex is free.
LEMMA MuControlInit == MuInit => MuControlInv
BY FutexMutexAssumption
DEF MuInit, MuControlInv, MuTypeInv, MuPlaces, MuQueues, MuExclusion, MuOwnership, MuPcs, MuThens,
    MuHolding

\* Every step keeps the control invariant.
LEMMA MuControlStep == MuControlInv /\ [MuNext]_muVars => MuControlInv'
<1> SUFFICES ASSUME MuControlInv, [MuNext]_muVars
             PROVE  MuControlInv'
  OBVIOUS
<1> USE DEF MuControlInv, MuTypeInv, MuPlaces, MuQueues, MuExclusion, MuOwnership, MuPcs, MuThens,
            MuHolding, MuGo, muWords, muCond, muLocals
<1>1. ASSUME UNCHANGED muVars PROVE MuControlInv'
  BY <1>1 DEF muVars
<1>2. ASSUME NEW t \in MuThreads, MuLock(t) PROVE MuControlInv'
  BY <1>2 DEF MuLock, MuBegin
<1>3. ASSUME NEW t \in MuThreads, MuRelock(t) PROVE MuControlInv'
  BY <1>3 DEF MuRelock, MuBegin, MuHeld
<1>4. ASSUME NEW t \in MuThreads, MuTryLock(t) PROVE MuControlInv'
  BY <1>4 DEF MuTryLock, MuBegin
<1>5. ASSUME NEW t \in MuThreads, MuWait(t) PROVE MuControlInv'
  BY <1>5 DEF MuWait, MuBegin
<1>6. ASSUME NEW t \in MuThreads, MuSignal(t) PROVE MuControlInv'
  BY <1>6 DEF MuSignal, MuNotify, MuBegin
<1>7. ASSUME NEW t \in MuThreads, MuBroadcast(t) PROVE MuControlInv'
  BY <1>7 DEF MuBroadcast, MuNotify, MuBegin
<1>8. ASSUME NEW t \in MuThreads, MuAcquire(t) PROVE MuControlInv'
  BY <1>8 DEF MuAcquire
<1>9. ASSUME NEW t \in MuThreads, MuLoadTaken(t) PROVE MuControlInv'
  BY <1>9 DEF MuLoadTaken
<1>10. ASSUME NEW t \in MuThreads, MuContend(t) PROVE MuControlInv'
  BY <1>10 DEF MuContend
<1>11. ASSUME NEW t \in MuThreads, MuSleep(t) PROVE MuControlInv'
  BY <1>11 DEF MuSleep
<1>12. ASSUME NEW t \in MuThreads, MuRetry(t) PROVE MuControlInv'
  BY <1>12 DEF MuRetry
<1>13. ASSUME NEW t \in MuThreads, MuOwn(t) PROVE MuControlInv'
  BY <1>13 DEF MuOwn
<1>14. ASSUME NEW t \in MuThreads, MuUnlock(t) PROVE MuControlInv'
  BY <1>14 DEF MuUnlock
<1>15. ASSUME NEW t \in MuThreads, MuRelease(t) PROVE MuControlInv'
  BY <1>15 DEF MuRelease
<1>16. ASSUME NEW t \in MuThreads, MuCheck(t) PROVE MuControlInv'
  BY <1>16 DEF MuCheck
<1>17. ASSUME NEW t \in MuThreads, MuWake(t) PROVE MuControlInv'
  BY <1>17 DEF MuWake, MuWoken
<1>18. ASSUME NEW t \in MuThreads, MuCvWait(t) PROVE MuControlInv'
  BY <1>18 DEF MuCvWait
<1>19. ASSUME NEW t \in MuThreads, MuCvReturn(t) PROVE MuControlInv'
  BY <1>19 DEF MuCvReturn
<1>20. ASSUME NEW t \in MuThreads, MuSignalWake(t) PROVE MuControlInv'
  BY <1>20 DEF MuSignalWake
<1>21. ASSUME NEW t \in MuThreads, MuRequeue(t) PROVE MuControlInv'
  BY <1>21 DEF MuRequeue
<1>22. ASSUME NEW t \in MuThreads, MuInterrupt(t) PROVE MuControlInv'
  BY <1>22 DEF MuInterrupt
<1>23. ASSUME NEW t \in MuThreads, MuCvInterrupt(t) PROVE MuControlInv'
  BY <1>23 DEF MuCvInterrupt
<1> QED
  BY <1>1, <1>2, <1>3, <1>4, <1>5, <1>6, <1>7, <1>8, <1>9, <1>10, <1>11, <1>12, <1>13, <1>14,
     <1>15, <1>16, <1>17, <1>18, <1>19, <1>20, <1>21, <1>22, <1>23
  DEF MuNext, MuCall, MuStep

\* Every state that ExclusiveLock, Wait and their companions reach satisfies the control
\* invariant.
LEMMA MuControlHolds == MuSpec => []MuControlInv
BY MuControlInit, MuControlStep, PTL DEF MuSpec

\* The assertions of AssertExclusiveHeld: whoever is inside the lock is the recorded owner of
\* a locked mutex with a positive recursion count, also after ConditionVariable::Wait.
THEOREM MuOwnerIsHolderHolds == MuSpec => []MuOwnerIsHolder
<1>1. MuControlInv => MuOwnerIsHolder
  BY DEF MuControlInv, MuExclusion, MuOwnership, MuHolding, MuOwnerIsHolder
<1> QED BY <1>1, MuControlHolds, PTL

(***************************************************************************)
(* Refinement.  The CAS that takes the word takes the abstract lock, the   *)
(* CAS that clears it gives it back, and every other step leaves the set   *)
(* of holders alone.                                                       *)
(***************************************************************************)

\* A CAS from 0 finds no holder and makes t the only one.
LEMMA MuAcquireIsAbstract ==
    ASSUME MuControlInv, NEW t \in MuThreads, NEW pc \in MuPcs, pc \notin MuHolding,
           muState = 0, MuGo(t, pc, "own")
    PROVE  MuLockSpec!AcquireExclusive(t)
<1>1. MuHolders = {}
  BY DEF MuControlInv, MuExclusion, MuHolders
<1>2. muPc' = [muPc EXCEPT ![t] = "own"] /\ muPc \in [MuThreads -> MuPcs]
  BY DEF MuGo, MuControlInv, MuTypeInv
<1>3. MuHolders' = {t}
  BY <1>1, <1>2 DEF MuHolders, MuHolding
<1> QED BY <1>1, <1>3 DEF MuLockSpec!AcquireExclusive

\* The CAS back to 0 takes t out of the holders.
LEMMA MuReleaseIsAbstract ==
    ASSUME MuControlInv, NEW t \in MuThreads, MuRelease(t)
    PROVE  MuLockSpec!ReleaseExclusive(t)
<1>1. /\ muPc[t] = "release" /\ muPc \in [MuThreads -> MuPcs]
      /\ muPc' = [muPc EXCEPT ![t] = "check"]
  BY DEF MuRelease, MuGo, MuControlInv, MuTypeInv
<1>2. t \in MuHolders /\ MuHolders' = MuHolders \ {t}
  BY <1>1 DEF MuHolders, MuHolding
<1> QED BY <1>2 DEF MuLockSpec!ReleaseExclusive

\* A step after which the same threads hold the lock is a stutter of the abstract lock.
LEMMA MuSameHolders ==
    ASSUME MuControlInv, NEW t \in MuThreads,
           MuCall(t) \/ MuStep(t) \/ MuInterrupt(t) \/ MuCvInterrupt(t),
           ~MuAcquire(t), ~MuRelease(t), ~(MuTryLock(t) /\ muState = 0)
    PROVE  MuHolders' = MuHolders
<1> DEFINE Same == \A u \in MuThreads : muPc'[u] \in MuHolding <=> muPc[u] \in MuHolding
<1> USE DEF MuControlInv, MuTypeInv, MuPlaces, MuQueues, MuHolding, MuGo, MuBegin
<1>1. ASSUME MuLock(t) \/ MuRelock(t) \/ MuWait(t) PROVE Same
  BY <1>1 DEF MuLock, MuRelock, MuWait
<1>2. ASSUME MuTryLock(t), muState /= 0 PROVE Same
  BY <1>2 DEF MuTryLock
<1>3. ASSUME MuSignal(t) \/ MuBroadcast(t) PROVE Same
  BY <1>3 DEF MuSignal, MuBroadcast, MuNotify
<1>4. ASSUME MuLoadTaken(t) \/ MuContend(t) \/ MuSleep(t) \/ MuRetry(t) PROVE Same
  BY <1>4 DEF MuLoadTaken, MuContend, MuSleep, MuRetry
<1>5. ASSUME MuOwn(t) \/ MuCheck(t) PROVE Same
  BY <1>5 DEF MuOwn, MuCheck
<1>6. ASSUME MuUnlock(t) \/ MuCvWait(t) \/ MuCvReturn(t) PROVE Same
  BY <1>6 DEF MuUnlock, MuCvWait, MuCvReturn
<1>7. ASSUME MuWake(t) PROVE Same
  BY <1>7 DEF MuWake, MuWoken
<1>8. ASSUME MuSignalWake(t) PROVE Same
  BY <1>8 DEF MuSignalWake
<1>9. ASSUME MuRequeue(t) \/ MuInterrupt(t) \/ MuCvInterrupt(t) PROVE Same
  BY <1>9 DEF MuRequeue, MuInterrupt, MuCvInterrupt
<1>10. Same
  <2> HIDE DEF Same, MuControlInv
  <2> QED BY <1>1, <1>2, <1>3, <1>4, <1>5, <1>6, <1>7, <1>8, <1>9 DEF MuCall, MuStep
<1> QED BY <1>10 DEF MuHolders

\* Mutex implements the abstract lock: ExclusiveLock, ExclusiveTryLock and the re-acquisition
\* in WaitHoldingLocks take it only when it is free, for any number of threads and calls.
THEOREM MuImplementsLockHolds == MuSpec => MuImplementsLock
<1>1. MuInit => MuLockSpec!Init
  BY DEF MuInit, MuLockSpec!Init, MuHolders, MuHolding
<1>2. MuControlInv /\ MuControlInv' /\ [MuNext]_muVars => [MuLockSpec!Next]_(MuLockSpec!lockVars)
  <2> SUFFICES ASSUME MuControlInv, MuControlInv', [MuNext]_muVars
               PROVE  MuLockSpec!Next \/ MuHolders' = MuHolders
    BY DEF MuLockSpec!lockVars
  <2>1. CASE UNCHANGED muVars
    BY <2>1 DEF muVars, MuHolders
  <2>2. ASSUME NEW t \in MuThreads, MuAcquire(t) PROVE MuLockSpec!Next
    <3>1. MuLockSpec!AcquireExclusive(t)
      BY <2>2, MuAcquireIsAbstract DEF MuAcquire, MuPcs, MuHolding
    <3> QED BY <3>1 DEF MuLockSpec!Next
  <2>3. ASSUME NEW t \in MuThreads, MuTryLock(t), muState = 0 PROVE MuLockSpec!Next
    <3>1. MuLockSpec!AcquireExclusive(t)
      BY <2>3, MuAcquireIsAbstract DEF MuTryLock, MuBegin, MuPcs, MuHolding
    <3> QED BY <3>1 DEF MuLockSpec!Next
  <2>4. ASSUME NEW t \in MuThreads, MuRelease(t) PROVE MuLockSpec!Next
    BY <2>4, MuReleaseIsAbstract DEF MuLockSpec!Next
  <2> QED BY <2>1, <2>2, <2>3, <2>4, MuSameHolders DEF MuNext, MuCall, MuStep
<1> QED BY <1>1, <1>2, MuControlHolds, PTL DEF MuSpec, MuImplementsLock, MuLockSpec!Spec

(***************************************************************************)
(* Counting.  num_contenders_ counts the threads in the contended part of  *)
(* ExclusiveLock and, once more, the threads in Wait; num_waiters_ counts  *)
(* the latter.                                                             *)
(***************************************************************************)
MuContending == {t \in MuThreads : muPc[t] \in {"sleep", "asleep", "awake"}}

MuWaiting == {t \in MuThreads : MuInWait(t)}

MuCounts ==
    /\ IsFiniteSet(MuContending)
    /\ IsFiniteSet(MuWaiting)
    /\ muContenders = Cardinality(MuContending) + Cardinality(MuWaiting)
    /\ cvWaiters = Cardinality(MuWaiting)

\* At the start both sets are empty.
LEMMA MuCountsInit == MuInit => MuCounts
<1> SUFFICES ASSUME MuInit PROVE MuCounts
  OBVIOUS
<1>1. MuContending = {} /\ MuWaiting = {}
  BY DEF MuInit, MuContending, MuWaiting, MuInWait
<1> QED BY <1>1, FS_EmptySet DEF MuInit, MuCounts

\* Only four actions change the two counters or the sets they count.
LEMMA MuSameCounts ==
    ASSUME MuControlInv, NEW t \in MuThreads,
           MuCall(t) \/ MuStep(t) \/ MuInterrupt(t) \/ MuCvInterrupt(t),
           ~MuContend(t), ~MuRetry(t), ~MuWait(t), ~MuCvReturn(t)
    PROVE  /\ MuContending' = MuContending
           /\ MuWaiting' = MuWaiting
           /\ muContenders' = muContenders
           /\ cvWaiters' = cvWaiters
<1> DEFINE Same ==
        /\ \A u \in MuThreads :
              /\ muPc'[u] \in {"sleep", "asleep", "awake"}
                    <=> muPc[u] \in {"sleep", "asleep", "awake"}
              /\ MuInWait(u)' <=> MuInWait(u)
        /\ muContenders' = muContenders
        /\ cvWaiters' = cvWaiters
<1> USE DEF MuControlInv, MuTypeInv, MuPlaces, MuQueues, MuInWait, MuGo, MuBegin,
            muWords, muCond, muLocals
<1>1. ASSUME MuLock(t) \/ MuRelock(t) PROVE Same
  BY <1>1 DEF MuLock, MuRelock
<1>2. ASSUME MuTryLock(t) PROVE Same
  BY <1>2 DEF MuTryLock
<1>3. ASSUME MuSignal(t) \/ MuBroadcast(t) PROVE Same
  BY <1>3 DEF MuSignal, MuBroadcast, MuNotify
<1>4. ASSUME MuAcquire(t) \/ MuLoadTaken(t) \/ MuSleep(t) PROVE Same
  BY <1>4 DEF MuAcquire, MuLoadTaken, MuSleep
<1>5. ASSUME MuOwn(t) \/ MuRelease(t) \/ MuCheck(t) PROVE Same
  BY <1>5 DEF MuOwn, MuRelease, MuCheck
<1>6. ASSUME MuUnlock(t) \/ MuCvWait(t) PROVE Same
  BY <1>6 DEF MuUnlock, MuCvWait
<1>7. ASSUME MuWake(t) PROVE Same
  BY <1>7 DEF MuWake, MuWoken
<1>8. ASSUME MuSignalWake(t) PROVE Same
  BY <1>8 DEF MuSignalWake
<1>9. ASSUME MuRequeue(t) \/ MuInterrupt(t) \/ MuCvInterrupt(t) PROVE Same
  BY <1>9 DEF MuRequeue, MuInterrupt, MuCvInterrupt
<1>10. Same
  <2> HIDE DEF Same, MuControlInv
  <2> QED BY <1>1, <1>2, <1>3, <1>4, <1>5, <1>6, <1>7, <1>8, <1>9 DEF MuCall, MuStep
<1>11. MuContending' = MuContending /\ MuWaiting' = MuWaiting
  <2> HIDE DEF MuControlInv, MuInWait
  <2> QED BY <1>10 DEF MuContending, MuWaiting
<1> QED BY <1>10, <1>11

\* Every step keeps the counters right.
LEMMA MuCountsStep == MuControlInv /\ MuCounts /\ [MuNext]_muVars => MuCounts'
<1> SUFFICES ASSUME MuControlInv, MuCounts, [MuNext]_muVars PROVE MuCounts'
  OBVIOUS
<1>0. /\ IsFiniteSet(MuContending) /\ Cardinality(MuContending) \in Nat
      /\ IsFiniteSet(MuWaiting) /\ Cardinality(MuWaiting) \in Nat
  BY FS_CardinalityType DEF MuCounts
<1> USE DEF MuControlInv, MuTypeInv, MuPlaces, MuGo, MuInWait
<1>1. CASE UNCHANGED muVars
  BY <1>1 DEF muVars, MuCounts, MuContending, MuWaiting
<1>2. ASSUME NEW t \in MuThreads, MuContend(t) PROVE MuCounts'
  <2>1. /\ MuContending' = MuContending \union {t} /\ t \notin MuContending
        /\ MuWaiting' = MuWaiting
    BY <1>2 DEF MuContend, MuContending, MuWaiting, muLocals
  <2>2. muContenders' = muContenders + 1 /\ cvWaiters' = cvWaiters
    BY <1>2 DEF MuContend, muCond
  <2>3. IsFiniteSet(MuContending') /\ Cardinality(MuContending') = Cardinality(MuContending) + 1
    BY <1>0, <2>1, FS_AddElement
  <2> QED BY <1>0, <2>1, <2>2, <2>3 DEF MuCounts
<1>3. ASSUME NEW t \in MuThreads, MuRetry(t) PROVE MuCounts'
  <2>1. /\ MuContending' = MuContending \ {t} /\ t \in MuContending
        /\ MuWaiting' = MuWaiting
    BY <1>3 DEF MuRetry, MuContending, MuWaiting, muLocals
  <2>2. muContenders' = muContenders - 1 /\ cvWaiters' = cvWaiters
    BY <1>3 DEF MuRetry, muCond
  <2>3. IsFiniteSet(MuContending') /\ Cardinality(MuContending') = Cardinality(MuContending) - 1
    BY <1>0, <2>1, FS_RemoveElement
  <2> QED BY <1>0, <2>1, <2>2, <2>3 DEF MuCounts
<1>4. ASSUME NEW t \in MuThreads, MuWait(t) PROVE MuCounts'
  <2>1. /\ MuWaiting' = MuWaiting \union {t} /\ t \notin MuWaiting
        /\ MuContending' = MuContending
    BY <1>4 DEF MuWait, MuBegin, MuContending, MuWaiting
  <2>2. muContenders' = muContenders + 1 /\ cvWaiters' = cvWaiters + 1
    BY <1>4 DEF MuWait
  <2>3. IsFiniteSet(MuWaiting') /\ Cardinality(MuWaiting') = Cardinality(MuWaiting) + 1
    BY <1>0, <2>1, FS_AddElement
  <2> QED BY <1>0, <2>1, <2>2, <2>3 DEF MuCounts
<1>5. ASSUME NEW t \in MuThreads, MuCvReturn(t) PROVE MuCounts'
  <2>1. /\ MuWaiting' = MuWaiting \ {t} /\ t \in MuWaiting
        /\ MuContending' = MuContending
    BY <1>5 DEF MuCvReturn, MuContending, MuWaiting, muLocals
  <2>2. muContenders' = muContenders - 1 /\ cvWaiters' = cvWaiters - 1
    BY <1>5 DEF MuCvReturn
  <2>3. IsFiniteSet(MuWaiting') /\ Cardinality(MuWaiting') = Cardinality(MuWaiting) - 1
    BY <1>0, <2>1, FS_RemoveElement
  <2> QED BY <1>0, <2>1, <2>2, <2>3 DEF MuCounts
<1>6. ASSUME NEW t \in MuThreads,
             MuCall(t) \/ MuStep(t) \/ MuInterrupt(t) \/ MuCvInterrupt(t),
             ~MuContend(t), ~MuRetry(t), ~MuWait(t), ~MuCvReturn(t)
      PROVE  MuCounts'
  <2> HIDE DEF MuControlInv
  <2> QED BY <1>6, MuSameCounts DEF MuCounts
<1> HIDE DEF MuControlInv
<1> QED BY <1>1, <1>2, <1>3, <1>4, <1>5, <1>6 DEF MuNext

\* The queues hold only counted threads, so the counters bound them.
LEMMA MuQueuesCounted ==
    ASSUME MuControlInv, MuCounts
    PROVE  /\ Cardinality(muQueue) + Cardinality(cvQueue) =< muContenders
           /\ muQueue /= {} => muContenders > 0
           /\ cvQueue \subseteq MuWaiting
           /\ cvWaiters > 0 <=> MuWaiting /= {}
<1>1. cvQueue \subseteq MuWaiting /\ muQueue \subseteq MuContending \union MuWaiting
  BY DEF MuControlInv, MuTypeInv, MuPlaces, MuQueues, MuContending, MuWaiting, MuInWait
<1> DEFINE Asleep == muQueue \union cvQueue
           Counted == MuContending \union MuWaiting
           Both == MuContending \intersect MuWaiting
<1>2. IsFiniteSet(MuContending) /\ IsFiniteSet(MuWaiting)
  BY DEF MuCounts
<1>3. /\ IsFiniteSet(Counted)
      /\ Cardinality(Counted) =
            Cardinality(MuContending) + Cardinality(MuWaiting) - Cardinality(Both)
  BY <1>2, FS_Union
<1>4. IsFiniteSet(Both)
  BY <1>2, FS_Subset
<1>5. /\ Asleep \subseteq Counted /\ muQueue \subseteq Counted /\ cvQueue \subseteq Counted
      /\ muQueue \intersect cvQueue = {}
  BY <1>1 DEF MuControlInv, MuQueues
<1>6. /\ IsFiniteSet(Asleep) /\ Cardinality(Asleep) =< Cardinality(Counted)
      /\ IsFiniteSet(muQueue) /\ IsFiniteSet(cvQueue)
  BY <1>3, <1>5, FS_Subset
<1>7. Cardinality(Asleep) =
        Cardinality(muQueue) + Cardinality(cvQueue) - Cardinality(muQueue \intersect cvQueue)
  BY <1>6, FS_Union
<1>8. /\ Cardinality(Both) \in Nat /\ Cardinality(Counted) \in Nat /\ Cardinality(Asleep) \in Nat
      /\ Cardinality(muQueue) \in Nat /\ Cardinality(cvQueue) \in Nat
      /\ Cardinality(MuContending) \in Nat /\ Cardinality(MuWaiting) \in Nat
  BY <1>2, <1>3, <1>4, <1>6, FS_CardinalityType
<1>9. Cardinality(muQueue \intersect cvQueue) = 0
  BY <1>5, FS_EmptySet
<1>10. /\ Cardinality(muQueue) = 0 <=> muQueue = {}
       /\ Cardinality(MuWaiting) = 0 <=> MuWaiting = {}
  BY <1>2, <1>6, FS_EmptySet
<1> HIDE DEF Asleep, Counted, Both
<1>11. Cardinality(muQueue) + Cardinality(cvQueue) =< muContenders
  BY <1>3, <1>6, <1>7, <1>8, <1>9 DEF MuCounts
<1>12. muQueue /= {} => muContenders > 0
  BY <1>8, <1>10, <1>11 DEF MuControlInv, MuTypeInv
<1>13. cvWaiters > 0 <=> MuWaiting /= {}
  BY <1>8, <1>10 DEF MuCounts
<1> QED BY <1>1, <1>11, <1>12, <1>13

\* ExclusiveUnlock, which reads num_contenders_, does not overlook a sleeper.
MuSleepersCount == muQueue /= {} => muContenders > 0

\* If a thread sleeps on the mutex, num_contenders_ is positive.
LEMMA MuSleepersAreCounted == MuControlInv /\ MuCounts => MuSleepersCount
BY MuQueuesCounted DEF MuSleepersCount

(***************************************************************************)
(* Wake-ups.  The values of sequence_ that waiters and broadcasts have     *)
(* seen are not newer than sequence_.                                      *)
(***************************************************************************)
MuSequences == cvLast =< cvSequence /\ \A t \in MuThreads : muSeen[t] =< cvSequence

MuNobodyOlder ==
    (\A t \in MuThreads : muPc[t] /= "broadcast") => \A w \in cvQueue : muSeen[w] >= cvLast

MuInv == MuControlInv /\ MuCounts /\ MuSequences /\ MuNoLostWakeup /\ MuSignalIsHeard
         /\ MuNobodyOlder

\* sequence_ only grows.
LEMMA MuSequencesStep == MuControlInv /\ MuSequences /\ [MuNext]_muVars => MuSequences'
<1> SUFFICES ASSUME MuControlInv, MuSequences, [MuNext]_muVars PROVE MuSequences'
  OBVIOUS
<1> USE DEF MuControlInv, MuTypeInv, MuSequences
<1>1. ASSUME NEW t \in MuThreads, MuWait(t) PROVE MuSequences'
  BY <1>1 DEF MuWait
<1>2. ASSUME NEW t \in MuThreads, MuSignal(t) \/ MuBroadcast(t) PROVE MuSequences'
  BY <1>2 DEF MuSignal, MuBroadcast, MuNotify, muLocals
<1>3. ASSUME NEW t \in MuThreads, MuCall(t), ~MuWait(t), ~MuSignal(t), ~MuBroadcast(t)
      PROVE  UNCHANGED <<cvSequence, cvLast, muSeen>>
  BY <1>3 DEF MuCall, MuLock, MuRelock, MuTryLock, muCond, muLocals
<1>4. ASSUME NEW t \in MuThreads, MuStep(t) PROVE UNCHANGED <<cvSequence, cvLast, muSeen>>
  BY <1>4 DEF MuStep, MuAcquire, MuLoadTaken, MuContend, MuSleep, MuRetry, MuOwn, MuUnlock,
              MuRelease, MuCheck, MuWake, MuCvWait, MuCvReturn, MuSignalWake, MuRequeue,
              muCond, muLocals
<1>5. ASSUME NEW t \in MuThreads, MuInterrupt(t) \/ MuCvInterrupt(t)
      PROVE  UNCHANGED <<cvSequence, cvLast, muSeen>>
  BY <1>5 DEF MuInterrupt, MuCvInterrupt, muCond, muLocals
<1>6. ASSUME UNCHANGED muVars PROVE UNCHANGED <<cvSequence, cvLast, muSeen>>
  BY <1>6 DEF muVars
<1>7. ASSUME UNCHANGED <<cvSequence, cvLast, muSeen>> PROVE MuSequences'
  BY <1>7
<1> QED BY <1>1, <1>2, <1>3, <1>4, <1>5, <1>6, <1>7 DEF MuNext

\* Whoever leaves the mutex free with sleepers is on the way to wake one, and whoever gives
\* that duty up leaves it to a thread that is on the way to the mutex.
LEMMA MuNoLostWakeupStep ==
    MuControlInv /\ MuControlInv' /\ MuCounts' /\ MuNoLostWakeup /\ [MuNext]_muVars
        => MuNoLostWakeup'
<1> SUFFICES ASSUME MuControlInv, MuControlInv', MuCounts', MuNoLostWakeup, [MuNext]_muVars
             PROVE  MuNoLostWakeup'
  OBVIOUS
<1>0. MuSleepersCount'
  BY MuSleepersAreCounted, PTL
<1> USE DEF MuControlInv, MuTypeInv, MuPlaces, MuQueues, MuExclusion, MuHolding, MuNoLostWakeup,
            MuGo, MuBegin, muWords
<1>1. ASSUME UNCHANGED muVars PROVE MuNoLostWakeup'
  BY <1>1 DEF muVars
<1>2. ASSUME NEW t \in MuThreads, MuLock(t) \/ MuRelock(t) \/ MuTryLock(t) PROVE MuNoLostWakeup'
  BY <1>2 DEF MuLock, MuRelock, MuTryLock
<1>3. ASSUME NEW t \in MuThreads, MuWait(t) PROVE MuNoLostWakeup'
  BY <1>3 DEF MuWait
<1>4. ASSUME NEW t \in MuThreads, MuSignal(t) \/ MuBroadcast(t) PROVE MuNoLostWakeup'
  BY <1>4 DEF MuSignal, MuBroadcast, MuNotify
<1>5. ASSUME NEW t \in MuThreads, MuAcquire(t) \/ MuLoadTaken(t) \/ MuContend(t)
      PROVE  MuNoLostWakeup'
  BY <1>5 DEF MuAcquire, MuLoadTaken, MuContend
<1>6. ASSUME NEW t \in MuThreads, MuSleep(t) \/ MuRetry(t) \/ MuInterrupt(t)
      PROVE  MuNoLostWakeup'
  BY <1>6 DEF MuSleep, MuRetry, MuInterrupt
<1>7. ASSUME NEW t \in MuThreads, MuOwn(t) \/ MuUnlock(t) PROVE MuNoLostWakeup'
  BY <1>7 DEF MuOwn, MuUnlock
<1>8. ASSUME NEW t \in MuThreads, MuRelease(t) PROVE MuNoLostWakeup'
  BY <1>0, <1>8 DEF MuRelease, MuSleepersCount
<1>9. ASSUME NEW t \in MuThreads, MuCheck(t) PROVE MuNoLostWakeup'
  BY <1>0, <1>9 DEF MuCheck, MuSleepersCount
<1>10. ASSUME NEW t \in MuThreads, MuWake(t) PROVE MuNoLostWakeup'
  BY <1>10 DEF MuWake, MuWoken
<1>11. ASSUME NEW t \in MuThreads, MuCvWait(t) \/ MuCvReturn(t) PROVE MuNoLostWakeup'
  BY <1>11 DEF MuCvWait, MuCvReturn
<1>12. ASSUME NEW t \in MuThreads, MuSignalWake(t) PROVE MuNoLostWakeup'
  BY <1>12 DEF MuSignalWake
<1>13. ASSUME NEW t \in MuThreads, MuRequeue(t) \/ MuCvInterrupt(t) PROVE MuNoLostWakeup'
  BY <1>13 DEF MuRequeue, MuCvInterrupt
<1> HIDE DEF MuControlInv, MuNoLostWakeup
<1> QED BY <1>1, <1>2, <1>3, <1>4, <1>5, <1>6, <1>7, <1>8, <1>9, <1>10, <1>11, <1>12, <1>13
        DEF MuNext, MuCall, MuStep

\* While a thread signals, nobody else holds the mutex: sequence_ stays as it is and nobody
\* ends a Wait.
LEMMA MuSignalIsHeardStep ==
    MuControlInv /\ MuControlInv' /\ MuCounts /\ MuSequences /\ MuSignalIsHeard
        /\ [MuNext]_muVars => MuSignalIsHeard'
<1> SUFFICES ASSUME MuControlInv, MuControlInv', MuCounts, MuSequences, MuSignalIsHeard,
                    [MuNext]_muVars
             PROVE  MuSignalIsHeard'
  OBVIOUS
<1> USE DEF MuControlInv, MuTypeInv, MuPlaces, MuQueues, MuExclusion, MuHolding, MuSignalIsHeard,
            MuInWait, MuGo, MuBegin, muWords, muCond, muLocals
<1>1. ASSUME UNCHANGED muVars PROVE MuSignalIsHeard'
  BY <1>1 DEF muVars
<1>2. ASSUME NEW t \in MuThreads, MuLock(t) \/ MuRelock(t) PROVE MuSignalIsHeard'
  BY <1>2 DEF MuLock, MuRelock
<1>3. ASSUME NEW t \in MuThreads, MuTryLock(t) PROVE MuSignalIsHeard'
  BY <1>3 DEF MuTryLock
<1>4. ASSUME NEW t \in MuThreads, MuWait(t) PROVE MuSignalIsHeard'
  BY <1>4 DEF MuWait
<1>5. ASSUME NEW t \in MuThreads, MuSignal(t) PROVE MuSignalIsHeard'
  <2>1. CASE cvWaiters > 0
    <3>1. PICK w \in MuThreads : MuInWait(w)
      BY <2>1, MuQueuesCounted DEF MuWaiting
    <3>2. w /= t /\ muSeen[w] < cvSequence'
      BY <1>5, <2>1, <3>1 DEF MuSignal, MuNotify, MuSequences
    <3>3. \A u \in MuThreads : muPc'[u] = "signal" => u = t
      BY <1>5 DEF MuSignal, MuNotify
    <3>4. MuInWait(w)'
      BY <1>5, <3>1, <3>2 DEF MuSignal, MuNotify
    <3> QED BY <1>5, <3>2, <3>3, <3>4 DEF MuSignal, MuNotify
  <2>2. CASE ~(cvWaiters > 0)
    BY <1>5, <2>2 DEF MuSignal, MuNotify
  <2> QED BY <2>1, <2>2
<1>6. ASSUME NEW t \in MuThreads, MuBroadcast(t) PROVE MuSignalIsHeard'
  BY <1>6 DEF MuBroadcast, MuNotify
<1>7. ASSUME NEW t \in MuThreads, MuAcquire(t) \/ MuLoadTaken(t) \/ MuContend(t)
      PROVE  MuSignalIsHeard'
  BY <1>7 DEF MuAcquire, MuLoadTaken, MuContend
<1>8. ASSUME NEW t \in MuThreads, MuSleep(t) \/ MuRetry(t) \/ MuInterrupt(t)
      PROVE  MuSignalIsHeard'
  BY <1>8 DEF MuSleep, MuRetry, MuInterrupt
<1>9. ASSUME NEW t \in MuThreads, MuOwn(t) \/ MuUnlock(t) PROVE MuSignalIsHeard'
  BY <1>9 DEF MuOwn, MuUnlock
<1>10. ASSUME NEW t \in MuThreads, MuRelease(t) \/ MuCheck(t) PROVE MuSignalIsHeard'
  BY <1>10 DEF MuRelease, MuCheck
<1>11. ASSUME NEW t \in MuThreads, MuWake(t) PROVE MuSignalIsHeard'
  BY <1>11 DEF MuWake, MuWoken
<1>12. ASSUME NEW t \in MuThreads, MuCvWait(t) PROVE MuSignalIsHeard'
  BY <1>12 DEF MuCvWait
<1>13. ASSUME NEW t \in MuThreads, MuCvReturn(t) PROVE MuSignalIsHeard'
  BY <1>13 DEF MuCvReturn
<1>14. ASSUME NEW t \in MuThreads, MuSignalWake(t) PROVE MuSignalIsHeard'
  BY <1>14 DEF MuSignalWake
<1>15. ASSUME NEW t \in MuThreads, MuRequeue(t) \/ MuCvInterrupt(t) PROVE MuSignalIsHeard'
  BY <1>15 DEF MuRequeue, MuCvInterrupt
<1> HIDE DEF MuControlInv, MuSignalIsHeard
<1> QED BY <1>1, <1>2, <1>3, <1>4, <1>5, <1>6, <1>7, <1>8, <1>9, <1>10, <1>11, <1>12, <1>13,
           <1>14, <1>15 DEF MuNext, MuCall, MuStep

\* A broadcast that finds waiters moves all of them; one that finds none has nobody asleep.
LEMMA MuNobodyOlderStep ==
    MuControlInv /\ MuCounts /\ MuSequences /\ MuNobodyOlder /\ [MuNext]_muVars
        => MuNobodyOlder'
<1> SUFFICES ASSUME MuControlInv, MuCounts, MuSequences, MuNobodyOlder, [MuNext]_muVars
             PROVE  MuNobodyOlder'
  OBVIOUS
<1> USE DEF MuControlInv, MuTypeInv, MuQueues, MuSequences, MuNobodyOlder, MuGo, MuBegin,
            muWords, muCond, muLocals
<1>1. ASSUME UNCHANGED muVars PROVE MuNobodyOlder'
  BY <1>1 DEF muVars
<1>2. ASSUME NEW t \in MuThreads, MuLock(t) \/ MuRelock(t) \/ MuTryLock(t) PROVE MuNobodyOlder'
  BY <1>2 DEF MuLock, MuRelock, MuTryLock
<1>3. ASSUME NEW t \in MuThreads, MuWait(t) PROVE MuNobodyOlder'
  BY <1>3 DEF MuWait
<1>4. ASSUME NEW t \in MuThreads, MuSignal(t) PROVE MuNobodyOlder'
  BY <1>4 DEF MuSignal, MuNotify
<1>5. ASSUME NEW t \in MuThreads, MuBroadcast(t) PROVE MuNobodyOlder'
  <2>1. CASE cvWaiters > 0
    BY <1>5, <2>1 DEF MuBroadcast, MuNotify
  <2>2. CASE ~(cvWaiters > 0)
    <3>1. cvQueue = {}
      BY <2>2, MuQueuesCounted
    <3> QED BY <1>5, <3>1 DEF MuBroadcast, MuNotify
  <2> QED BY <2>1, <2>2
<1>6. ASSUME NEW t \in MuThreads, MuAcquire(t) \/ MuLoadTaken(t) \/ MuContend(t)
      PROVE  MuNobodyOlder'
  BY <1>6 DEF MuAcquire, MuLoadTaken, MuContend
<1>7. ASSUME NEW t \in MuThreads, MuSleep(t) \/ MuRetry(t) \/ MuInterrupt(t)
      PROVE  MuNobodyOlder'
  BY <1>7 DEF MuSleep, MuRetry, MuInterrupt
<1>8. ASSUME NEW t \in MuThreads, MuOwn(t) \/ MuUnlock(t) \/ MuRelease(t) \/ MuCheck(t)
      PROVE  MuNobodyOlder'
  BY <1>8 DEF MuOwn, MuUnlock, MuRelease, MuCheck
<1>9. ASSUME NEW t \in MuThreads, MuWake(t) PROVE MuNobodyOlder'
  BY <1>9 DEF MuWake, MuWoken
<1>10. ASSUME NEW t \in MuThreads, MuCvWait(t) PROVE MuNobodyOlder'
  BY <1>10 DEF MuCvWait
<1>11. ASSUME NEW t \in MuThreads, MuCvReturn(t) \/ MuCvInterrupt(t) PROVE MuNobodyOlder'
  BY <1>11 DEF MuCvReturn, MuCvInterrupt
<1>12. ASSUME NEW t \in MuThreads, MuSignalWake(t) PROVE MuNobodyOlder'
  BY <1>12 DEF MuSignalWake
<1>13. ASSUME NEW t \in MuThreads, MuRequeue(t) PROVE MuNobodyOlder'
  BY <1>13 DEF MuRequeue
<1> HIDE DEF MuControlInv, MuNobodyOlder
<1> QED BY <1>1, <1>2, <1>3, <1>4, <1>5, <1>6, <1>7, <1>8, <1>9, <1>10, <1>11, <1>12, <1>13
        DEF MuNext, MuCall, MuStep

\* The whole inductive invariant of Mutex and ConditionVariable holds in every behaviour.
LEMMA MuInvHolds == MuSpec => []MuInv
<1>1. MuInit => MuInv
  <2> SUFFICES ASSUME MuInit PROVE MuSequences /\ MuNoLostWakeup /\ MuSignalIsHeard /\ MuNobodyOlder
    BY MuControlInit, MuCountsInit DEF MuInv
  <2> QED BY DEF MuInit, MuSequences, MuNoLostWakeup, MuSignalIsHeard, MuNobodyOlder
<1>2. MuInv /\ [MuNext]_muVars => MuInv'
  BY MuControlStep, MuCountsStep, MuSequencesStep, MuNoLostWakeupStep, MuSignalIsHeardStep,
     MuNobodyOlderStep DEF MuInv
<1> QED BY <1>1, <1>2, PTL DEF MuSpec

\* ExclusiveUnlock clears state_ before it reads num_contenders_; nobody sleeps on a free
\* mutex without somebody on the way who will wake a sleeper or take the lock.
THEOREM MuNoLostWakeupHolds == MuSpec => []MuNoLostWakeup
BY MuInvHolds, PTL DEF MuInv

\* ConditionVariable::Signal is heard by a thread in Wait, asleep or not yet.
THEOREM MuSignalIsHeardHolds == MuSpec => []MuSignalIsHeard
BY MuInvHolds, PTL DEF MuInv

\* After ConditionVariable::Broadcast nobody is asleep on sequence_ who began to wait before
\* it, and num_contenders_ counts every thread that the kernel keeps.
THEOREM MuBroadcastReachesAllHolds == MuSpec => []MuBroadcastReachesAll
<1>1. MuInv => MuBroadcastReachesAll
  BY MuQueuesCounted DEF MuInv, MuNobodyOlder, MuBroadcastReachesAll
<1> QED BY <1>1, MuInvHolds, PTL

\* No thread in Wait is passed over: the two together.
THEOREM MuNotificationsArriveHolds == MuSpec => []MuNotificationsArrive
BY MuSignalIsHeardHolds, MuBroadcastReachesAllHolds, PTL DEF MuNotificationsArrive

----------------------------------------------------------------------------
(* The reader-writer mutex. *)

RwPcs == {"out", "load", "pend", "sleep", "asleep", "awake", "own", "in", "release", "check",
          "wake"}

(***************************************************************************)
(* Control.  Only sleeping threads are queued; a thread goes to sleep only *)
(* for a value of state_ that is not that of a free lock.                  *)
(***************************************************************************)
RwTypeInv ==
    /\ rwState \in Int
    /\ rwReaders \in Int
    /\ rwWriters \in Int
    /\ rwQueue \in SUBSET RwThreads
    /\ rwPc \in [RwThreads -> RwPcs]
    /\ rwMode \in [RwThreads -> RwModes]
    /\ rwSeen \in [RwThreads -> Int]
    /\ rwAborted \in BOOLEAN

RwQueued == \A t \in rwQueue : rwPc[t] = "asleep"

RwSleepsForTaken == \A t \in RwThreads : rwPc[t] \in {"pend", "sleep"} => rwSeen[t] /= 0

RwControlInv == RwTypeInv /\ RwQueued /\ RwSleepsForTaken

\* The steps of one thread.
RwThreadStep(t) ==
    \/ \E mode \in RwModes : RwLock(t, mode)
    \/ RwTryLock(t) \/ RwStep(t) \/ RwTimeIsUp(t) \/ RwInterrupt(t) \/ RwTimeout(t)

\* Every step of a reader-writer mutex is a step of one thread.
LEMMA RwNextIsThreadStep == RwNext <=> \E t \in RwThreads : RwThreadStep(t)
BY DEF RwNext, RwThreadStep

\* Every step keeps the control invariant.
LEMMA RwControlStep ==
    ASSUME RwControlInv, NEW t \in RwThreads, RwThreadStep(t)
    PROVE  RwControlInv'
<1> USE DEF RwControlInv, RwTypeInv, RwQueued, RwSleepsForTaken, RwPcs, RwModes, RwGo
<1>1. ASSUME NEW mode \in RwModes, RwLock(t, mode) PROVE RwControlInv'
  BY <1>1 DEF RwLock
<1>2. ASSUME RwTryLock(t) PROVE RwControlInv'
  BY <1>2 DEF RwTryLock
<1>3. ASSUME RwAcquire(t) PROVE RwControlInv'
  BY <1>3 DEF RwAcquire
<1>4. ASSUME RwLoadTaken(t) PROVE RwControlInv'
  BY <1>4 DEF RwLoadTaken, RwFree
<1>5. ASSUME RwPend(t) \/ RwRetry(t) PROVE RwControlInv'
  BY <1>5 DEF RwPend, RwRetry, RwCountPending
<1>6. ASSUME RwSleep(t) PROVE RwControlInv'
  BY <1>6 DEF RwSleep
<1>7. ASSUME RwOwn(t) \/ RwUnlock(t) PROVE RwControlInv'
  BY <1>7 DEF RwOwn, RwUnlock
<1>8. ASSUME RwRelease(t) PROVE RwControlInv'
  BY <1>8 DEF RwRelease
<1>9. ASSUME RwCheck(t) PROVE RwControlInv'
  BY <1>9 DEF RwCheck
<1>10. ASSUME RwWake(t) PROVE RwControlInv'
  BY <1>10 DEF RwWake
<1>11. ASSUME RwTimeIsUp(t) PROVE RwControlInv'
  BY <1>11 DEF RwTimeIsUp
<1>12. ASSUME RwInterrupt(t) PROVE RwControlInv'
  BY <1>12 DEF RwInterrupt, RwShared
<1>13. ASSUME RwTimeout(t) PROVE RwControlInv'
  BY <1>13 DEF RwTimeout, RwCountPending
<1> HIDE DEF RwControlInv
<1> QED BY <1>1, <1>2, <1>3, <1>4, <1>5, <1>6, <1>7, <1>8, <1>9, <1>10, <1>11, <1>12, <1>13
        DEF RwThreadStep, RwStep

(***************************************************************************)
(* Holders.                                                                *)
(***************************************************************************)
RwWriteHolders == {t \in RwHolders : ~RwShared(t)}

RwReadHolders == {t \in RwHolders : RwShared(t)}

RwWriterAlone == \A t \in RwWriteHolders : RwHolders = {t}

RwHoldInv == RwWriterAlone /\ RwStateCounts

\* What state_ says about the holders.
LEMMA RwStateMeans ==
    ASSUME RwHoldInv
    PROVE  /\ IsFiniteSet(RwHolders) /\ Cardinality(RwHolders) \in Nat
           /\ rwState = 0 => RwHolders = {}
           /\ rwState >= 0 => RwWriteHolders = {} /\ rwState = Cardinality(RwHolders)
           /\ RwWriteHolders /= {} => rwState = -1
<1>1. RwHolders \subseteq RwThreads
  BY DEF RwHolders
<1>2. IsFiniteSet(RwHolders)
  BY <1>1, FS_Subset, FutexRWMutexAssumption
<1>3. /\ Cardinality(RwHolders) \in Nat
      /\ Cardinality(RwHolders) = 0 <=> RwHolders = {}
  BY <1>2, FS_CardinalityType, FS_EmptySet
<1>4. RwWriteHolders /= {} <=> \E t \in RwHolders : ~RwShared(t)
  BY DEF RwWriteHolders
<1> QED BY <1>2, <1>3, <1>4 DEF RwHoldInv, RwStateCounts

\* Taking, releasing, and everything else.
RwTakes(t) == RwAcquire(t) \/ (RwTryLock(t) /\ rwState >= 0)

\* Nobody but the threads that take or release the lock becomes or ceases to be a holder, and
\* a holder keeps its mode.
LEMMA RwSameHolders ==
    ASSUME RwControlInv, NEW t \in RwThreads, RwThreadStep(t), ~RwTakes(t), ~RwRelease(t)
    PROVE  /\ RwHolders' = RwHolders
           /\ \A u \in RwHolders : RwShared(u)' <=> RwShared(u)
           /\ rwState' = rwState
<1> DEFINE Same ==
        /\ \A u \in RwThreads : rwPc'[u] \in RwHolding <=> rwPc[u] \in RwHolding
        /\ \A u \in RwThreads : rwPc[u] \in RwHolding => (RwShared(u)' <=> RwShared(u))
        /\ rwState' = rwState
<1> USE DEF RwControlInv, RwTypeInv, RwQueued, RwHolding, RwShared, RwGo
<1>1. ASSUME NEW mode \in RwModes, RwLock(t, mode) PROVE Same
  BY <1>1 DEF RwLock
<1>2. ASSUME RwTryLock(t), ~(rwState >= 0) PROVE Same
  BY <1>2 DEF RwTryLock
<1>3. ASSUME RwLoadTaken(t) \/ RwPend(t) \/ RwSleep(t) \/ RwRetry(t) PROVE Same
  BY <1>3 DEF RwLoadTaken, RwPend, RwSleep, RwRetry
<1>4. ASSUME RwOwn(t) \/ RwUnlock(t) \/ RwCheck(t) PROVE Same
  BY <1>4 DEF RwOwn, RwUnlock, RwCheck
<1>5. ASSUME RwWake(t) PROVE Same
  BY <1>5 DEF RwWake
<1>6. ASSUME RwTimeIsUp(t) \/ RwInterrupt(t) \/ RwTimeout(t) PROVE Same
  BY <1>6 DEF RwTimeIsUp, RwInterrupt, RwTimeout
<1>7. Same
  <2> HIDE DEF Same, RwControlInv
  <2> QED BY <1>1, <1>2, <1>3, <1>4, <1>5, <1>6 DEF RwThreadStep, RwStep, RwTakes
<1> QED BY <1>7 DEF RwHolders

\* Who takes the lock joins the readers of a lock without writer, or is alone.
LEMMA RwTakeEffect ==
    ASSUME RwControlInv, RwHoldInv, NEW t \in RwThreads, RwTakes(t)
    PROVE  /\ t \notin RwHolders
           /\ RwHolders' = RwHolders \union {t}
           /\ RwWriteHolders = {}
           /\ \A u \in RwHolders : RwShared(u)'
           /\ IF RwShared(t)'
              THEN rwState' = rwState + 1 /\ rwState = Cardinality(RwHolders)
              ELSE rwState' = -1 /\ RwHolders = {}
<1> USE DEF RwControlInv, RwTypeInv, RwShared, RwGo
<1>1. /\ rwPc[t] \in {"out", "load"} /\ rwPc' = [rwPc EXCEPT ![t] = "own"]
      /\ \A u \in RwThreads \ {t} : rwMode'[u] = rwMode[u]
      /\ rwState >= 0
      /\ IF RwShared(t)' THEN rwState' = rwState + 1 ELSE rwState' = -1 /\ rwState = 0
  BY DEF RwTakes, RwAcquire, RwTryLock, RwFree
<1>2. t \notin RwHolders /\ RwHolders' = RwHolders \union {t}
  BY <1>1 DEF RwHolders, RwHolding
<1>3. RwWriteHolders = {} /\ rwState = Cardinality(RwHolders) /\ (rwState = 0 => RwHolders = {})
  BY <1>1, RwStateMeans
<1>4. \A u \in RwHolders : RwShared(u)'
  BY <1>1, <1>2, <1>3 DEF RwWriteHolders, RwHolders
<1> QED BY <1>1, <1>2, <1>3, <1>4

\* Who releases the lock leaves the others with their modes.
LEMMA RwReleaseEffect ==
    ASSUME RwControlInv, NEW t \in RwThreads, RwRelease(t)
    PROVE  /\ t \in RwHolders
           /\ RwHolders' = RwHolders \ {t}
           /\ \A u \in RwThreads : RwShared(u)' <=> RwShared(u)
           /\ rwState' = IF RwShared(t) THEN rwState - 1 ELSE 0
<1>1. /\ rwPc[t] = "release" /\ rwPc'[t] \in {"check", "out"}
      /\ \A u \in RwThreads \ {t} : rwPc'[u] = rwPc[u]
      /\ rwMode' = rwMode /\ rwState' = IF RwShared(t) THEN rwState - 1 ELSE 0
  BY DEF RwControlInv, RwTypeInv, RwRelease, RwGo
<1> QED BY <1>1 DEF RwHolders, RwHolding, RwShared

\* Every step keeps state_ right.
LEMMA RwHoldStep ==
    ASSUME RwControlInv, RwHoldInv, NEW t \in RwThreads, RwThreadStep(t)
    PROVE  RwHoldInv'
<1>0. IsFiniteSet(RwHolders) /\ Cardinality(RwHolders) \in Nat
  BY RwStateMeans
<1>1. CASE RwTakes(t)
  <2>1. /\ t \notin RwHolders /\ RwHolders' = RwHolders \union {t}
        /\ \A u \in RwHolders : RwShared(u)'
        /\ IF RwShared(t)'
           THEN rwState' = rwState + 1 /\ rwState = Cardinality(RwHolders)
           ELSE rwState' = -1 /\ RwHolders = {}
    BY <1>1, RwTakeEffect
  <2>2. Cardinality(RwHolders') = Cardinality(RwHolders) + 1
    BY <1>0, <2>1, FS_AddElement
  <2>3. RwWriterAlone'
    BY <2>1 DEF RwWriterAlone, RwWriteHolders
  <2>4. RwStateCounts'
    BY <1>0, <2>1, <2>2 DEF RwStateCounts
  <2> QED BY <2>3, <2>4 DEF RwHoldInv
<1>2. CASE RwRelease(t)
  <2>1. /\ t \in RwHolders /\ RwHolders' = RwHolders \ {t} /\ RwHolders \subseteq RwThreads
        /\ \A u \in RwThreads : RwShared(u)' <=> RwShared(u)
        /\ rwState' = IF RwShared(t) THEN rwState - 1 ELSE 0
    BY <1>2, RwReleaseEffect DEF RwHolders
  <2>2. Cardinality(RwHolders') = Cardinality(RwHolders) - 1
    BY <1>0, <2>1, FS_RemoveElement
  <2>3. RwWriterAlone'
    BY <2>1 DEF RwHoldInv, RwWriterAlone, RwWriteHolders
  <2>4. CASE RwShared(t)
    <3>1. \A u \in RwHolders : RwShared(u)
      BY <2>1, <2>4 DEF RwHoldInv, RwWriterAlone, RwWriteHolders
    <3>2. rwState = Cardinality(RwHolders)
      BY <3>1 DEF RwHoldInv, RwStateCounts
    <3>3. RwStateCounts'
      BY <1>0, <2>1, <2>2, <2>4, <3>1, <3>2 DEF RwStateCounts
    <3> QED BY <2>3, <3>3 DEF RwHoldInv
  <2>5. CASE ~RwShared(t)
    <3>1. RwHolders = {t}
      BY <2>1, <2>5 DEF RwHoldInv, RwWriterAlone, RwWriteHolders
    <3>2. RwHolders' = {} /\ Cardinality(RwHolders') = 0
      BY <2>1, <3>1, FS_EmptySet
    <3>3. RwStateCounts'
      BY <2>1, <2>5, <3>2 DEF RwStateCounts
    <3> QED BY <2>3, <3>3 DEF RwHoldInv
  <2> QED BY <2>4, <2>5
<1>3. CASE ~RwTakes(t) /\ ~RwRelease(t)
  <2>1. /\ RwHolders' = RwHolders
        /\ \A u \in RwHolders : RwShared(u)' <=> RwShared(u)
        /\ rwState' = rwState
    BY <1>3, RwSameHolders
  <2> QED BY <2>1 DEF RwHoldInv, RwWriterAlone, RwWriteHolders, RwStateCounts
<1> QED BY <1>1, <1>2, <1>3

(***************************************************************************)
(* Pending threads.  The two counters count the threads between their      *)
(* increment and decrement, so a sleeper is counted.                       *)
(***************************************************************************)
RwPendPcs == {"sleep", "asleep", "awake"}

RwPendingReaders == {t \in RwThreads : rwPc[t] \in RwPendPcs /\ RwShared(t)}

RwPendingWriters == {t \in RwThreads : rwPc[t] \in RwPendPcs /\ ~RwShared(t)}

RwCounts ==
    /\ rwReaders = Cardinality(RwPendingReaders)
    /\ rwWriters = Cardinality(RwPendingWriters)

\* The two sets are finite and their sizes numbers.
LEMMA RwPendingFinite ==
    /\ IsFiniteSet(RwPendingReaders) /\ Cardinality(RwPendingReaders) \in Nat
    /\ IsFiniteSet(RwPendingWriters) /\ Cardinality(RwPendingWriters) \in Nat
    /\ Cardinality(RwPendingReaders) = 0 <=> RwPendingReaders = {}
    /\ Cardinality(RwPendingWriters) = 0 <=> RwPendingWriters = {}
<1>1. RwPendingReaders \subseteq RwThreads /\ RwPendingWriters \subseteq RwThreads
  BY DEF RwPendingReaders, RwPendingWriters
<1>2. IsFiniteSet(RwPendingReaders) /\ IsFiniteSet(RwPendingWriters)
  BY <1>1, FS_Subset, FutexRWMutexAssumption
<1> QED BY <1>2, FS_CardinalityType, FS_EmptySet

\* A thread that raises its counter joins its set.
LEMMA RwPendEffect ==
    ASSUME RwControlInv, RwCounts, NEW t \in RwThreads, RwPend(t)
    PROVE  RwCounts'
<1>1. /\ rwPc[t] = "pend" /\ rwPc' = [rwPc EXCEPT ![t] = "sleep"] /\ rwMode' = rwMode
      /\ RwCountPending(t, 1) /\ rwPc \in [RwThreads -> RwPcs]
  BY DEF RwPend, RwGo, RwControlInv, RwTypeInv
<1>2. CASE RwShared(t)
  <2>1. /\ RwPendingReaders' = RwPendingReaders \union {t} /\ t \notin RwPendingReaders
        /\ RwPendingWriters' = RwPendingWriters
    BY <1>1, <1>2 DEF RwPendingReaders, RwPendingWriters, RwPendPcs, RwShared
  <2>2. Cardinality(RwPendingReaders') = Cardinality(RwPendingReaders) + 1
    BY <2>1, RwPendingFinite, FS_AddElement
  <2>3. rwReaders' = rwReaders + 1 /\ rwWriters' = rwWriters
    BY <1>1, <1>2 DEF RwCountPending, RwControlInv, RwTypeInv
  <2> QED BY <2>1, <2>2, <2>3 DEF RwCounts
<1>3. CASE ~RwShared(t)
  <2>1. /\ RwPendingWriters' = RwPendingWriters \union {t} /\ t \notin RwPendingWriters
        /\ RwPendingReaders' = RwPendingReaders
    BY <1>1, <1>3 DEF RwPendingReaders, RwPendingWriters, RwPendPcs, RwShared
  <2>2. Cardinality(RwPendingWriters') = Cardinality(RwPendingWriters) + 1
    BY <2>1, RwPendingFinite, FS_AddElement
  <2>3. rwWriters' = rwWriters + 1 /\ rwReaders' = rwReaders
    BY <1>1, <1>3 DEF RwCountPending, RwControlInv, RwTypeInv
  <2> QED BY <2>1, <2>2, <2>3 DEF RwCounts
<1> QED BY <1>2, <1>3

\* A thread that lowers its counter, to try again or to give up, leaves its set.
LEMMA RwUnpendEffect ==
    ASSUME RwControlInv, RwCounts, NEW t \in RwThreads, RwRetry(t) \/ RwTimeout(t)
    PROVE  RwCounts'
<1>1. /\ rwPc[t] \in RwPendPcs /\ rwMode' = rwMode
      /\ rwPc'[t] \notin RwPendPcs /\ \A u \in RwThreads \ {t} : rwPc'[u] = rwPc[u]
      /\ RwCountPending(t, -1)
  BY DEF RwRetry, RwTimeout, RwGo, RwControlInv, RwTypeInv, RwPendPcs
<1>2. CASE RwShared(t)
  <2>1. /\ RwPendingReaders' = RwPendingReaders \ {t} /\ t \in RwPendingReaders
        /\ RwPendingWriters' = RwPendingWriters
    BY <1>1, <1>2 DEF RwPendingReaders, RwPendingWriters, RwShared
  <2>2. Cardinality(RwPendingReaders') = Cardinality(RwPendingReaders) - 1
    BY <2>1, RwPendingFinite, FS_RemoveElement
  <2>3. rwReaders' = rwReaders - 1 /\ rwWriters' = rwWriters
    BY <1>1, <1>2 DEF RwCountPending, RwControlInv, RwTypeInv
  <2> QED BY <2>1, <2>2, <2>3 DEF RwCounts
<1>3. CASE ~RwShared(t)
  <2>1. /\ RwPendingWriters' = RwPendingWriters \ {t} /\ t \in RwPendingWriters
        /\ RwPendingReaders' = RwPendingReaders
    BY <1>1, <1>3 DEF RwPendingReaders, RwPendingWriters, RwShared
  <2>2. Cardinality(RwPendingWriters') = Cardinality(RwPendingWriters) - 1
    BY <2>1, RwPendingFinite, FS_RemoveElement
  <2>3. rwWriters' = rwWriters - 1 /\ rwReaders' = rwReaders
    BY <1>1, <1>3 DEF RwCountPending, RwControlInv, RwTypeInv
  <2> QED BY <2>1, <2>2, <2>3 DEF RwCounts
<1> QED BY <1>2, <1>3

\* Every step keeps the counters right.
LEMMA RwCountsStep ==
    ASSUME RwControlInv, RwCounts, NEW t \in RwThreads, RwThreadStep(t)
    PROVE  RwCounts'
<1> DEFINE Same ==
        /\ \A u \in RwThreads : rwPc'[u] \in RwPendPcs <=> rwPc[u] \in RwPendPcs
        /\ \A u \in RwThreads : rwPc[u] \in RwPendPcs => (RwShared(u)' <=> RwShared(u))
        /\ rwReaders' = rwReaders /\ rwWriters' = rwWriters
<1> USE DEF RwControlInv, RwTypeInv, RwQueued, RwPendPcs, RwShared, RwGo
<1>1. ASSUME NEW mode \in RwModes, RwLock(t, mode) PROVE Same
  BY <1>1 DEF RwLock
<1>2. ASSUME RwTryLock(t) PROVE Same
  BY <1>2 DEF RwTryLock
<1>3. ASSUME RwAcquire(t) \/ RwLoadTaken(t) \/ RwSleep(t) PROVE Same
  BY <1>3 DEF RwAcquire, RwLoadTaken, RwSleep
<1>4. ASSUME RwOwn(t) \/ RwUnlock(t) \/ RwRelease(t) \/ RwCheck(t) PROVE Same
  BY <1>4 DEF RwOwn, RwUnlock, RwRelease, RwCheck
<1>5. ASSUME RwWake(t) PROVE Same
  BY <1>5 DEF RwWake
<1>6. ASSUME RwTimeIsUp(t) \/ RwInterrupt(t) PROVE Same
  BY <1>6 DEF RwTimeIsUp, RwInterrupt
<1>7. ASSUME Same PROVE RwCounts'
  <2>1. RwPendingReaders' = RwPendingReaders /\ RwPendingWriters' = RwPendingWriters
    BY <1>7 DEF RwPendingReaders, RwPendingWriters
  <2> QED BY <1>7, <2>1 DEF RwCounts
<1> HIDE DEF Same, RwControlInv
<1> QED BY <1>1, <1>2, <1>3, <1>4, <1>5, <1>6, <1>7, RwPendEffect, RwUnpendEffect
        DEF RwThreadStep, RwStep

\* SharedUnlock and ExclusiveUnlock, which read the counters, do not overlook a sleeper.
RwSleepersCount == rwQueue /= {} => rwReaders > 0 \/ rwWriters > 0

\* Every sleeper is counted in num_pending_readers_ or num_pending_writers_.
LEMMA RwSleepersAreCounted == RwControlInv /\ RwCounts => RwSleepersCount
<1> SUFFICES ASSUME RwControlInv, RwCounts, NEW t \in rwQueue
             PROVE  rwReaders > 0 \/ rwWriters > 0
  BY DEF RwSleepersCount
<1>1. t \in RwPendingReaders \/ t \in RwPendingWriters
  BY DEF RwControlInv, RwTypeInv, RwQueued, RwPendingReaders, RwPendingWriters, RwPendPcs
<1> QED BY <1>1, RwPendingFinite DEF RwCounts

(***************************************************************************)
(* Wake-ups.  Nobody goes to sleep on a free lock, so it is enough that    *)
(* whoever has left it free wakes all sleepers.                            *)
(***************************************************************************)
RwInv == RwControlInv /\ RwHoldInv /\ RwCounts /\ RwNoLostWakeup

\* No step of a reader-writer mutex loses a wake-up.
LEMMA RwNoLostWakeupStep ==
    ASSUME RwControlInv, RwSleepersCount', RwNoLostWakeup, NEW t \in RwThreads, RwThreadStep(t)
    PROVE  RwNoLostWakeup'
<1> USE DEF RwControlInv, RwTypeInv, RwQueued, RwSleepsForTaken, RwSleepersCount,
            RwNoLostWakeup, RwGo
<1>1. ASSUME NEW mode \in RwModes, RwLock(t, mode) PROVE RwNoLostWakeup'
  BY <1>1 DEF RwLock
<1>2. ASSUME RwTryLock(t) PROVE RwNoLostWakeup'
  BY <1>2 DEF RwTryLock
<1>3. ASSUME RwAcquire(t) PROVE RwNoLostWakeup'
  BY <1>3 DEF RwAcquire, RwFree
<1>4. ASSUME RwLoadTaken(t) \/ RwSleep(t) PROVE RwNoLostWakeup'
  BY <1>4 DEF RwLoadTaken, RwSleep
<1>5. ASSUME RwPend(t) \/ RwRetry(t) \/ RwTimeout(t) PROVE RwNoLostWakeup'
  BY <1>5 DEF RwPend, RwRetry, RwTimeout
<1>6. ASSUME RwOwn(t) \/ RwUnlock(t) \/ RwCheck(t) PROVE RwNoLostWakeup'
  BY <1>6 DEF RwOwn, RwUnlock, RwCheck
<1>7. ASSUME RwRelease(t) PROVE RwNoLostWakeup'
  BY <1>7 DEF RwRelease
<1>8. ASSUME RwWake(t) PROVE RwNoLostWakeup'
  BY <1>8 DEF RwWake
<1>9. ASSUME RwTimeIsUp(t) \/ RwInterrupt(t) PROVE RwNoLostWakeup'
  BY <1>9 DEF RwTimeIsUp, RwInterrupt
<1> HIDE DEF RwControlInv, RwNoLostWakeup, RwSleepersCount
<1> QED BY <1>1, <1>2, <1>3, <1>4, <1>5, <1>6, <1>7, <1>8, <1>9 DEF RwThreadStep, RwStep

\* A new ReaderWriterMutex satisfies the inductive invariant.
LEMMA RwInvInit == RwInit => RwInv
<1> SUFFICES ASSUME RwInit PROVE RwInv
  OBVIOUS
<1>0. rwAborted \in BOOLEAN
  BY DEF RwInit
<1>1. RwControlInv
  BY <1>0 DEF RwInit, RwControlInv, RwTypeInv, RwQueued, RwSleepsForTaken, RwPcs, RwModes
<1>2. RwHolders = {} /\ RwPendingReaders = {} /\ RwPendingWriters = {}
  BY DEF RwInit, RwHolders, RwHolding, RwPendingReaders, RwPendingWriters, RwPendPcs
<1>3. RwHoldInv
  BY <1>2, FS_EmptySet DEF RwInit, RwHoldInv, RwWriterAlone, RwWriteHolders, RwStateCounts
<1>4. RwCounts
  BY <1>2, FS_EmptySet DEF RwInit, RwCounts
<1> QED BY <1>1, <1>3, <1>4 DEF RwInit, RwInv, RwNoLostWakeup

\* Every step of a reader-writer mutex preserves the inductive invariant.
LEMMA RwInvStep == RwInv /\ [RwNext]_rwVars => RwInv'
<1> SUFFICES ASSUME RwInv, [RwNext]_rwVars PROVE RwInv'
  OBVIOUS
<1>1. CASE UNCHANGED rwVars
  <2>1. RwControlInv' /\ RwNoLostWakeup'
    BY <1>1 DEF rwVars, RwInv, RwControlInv, RwTypeInv, RwQueued, RwSleepsForTaken, RwNoLostWakeup
  <2>2. /\ RwHolders' = RwHolders /\ RwWriteHolders' = RwWriteHolders
        /\ RwPendingReaders' = RwPendingReaders /\ RwPendingWriters' = RwPendingWriters
        /\ \A u \in RwThreads : RwShared(u)' <=> RwShared(u)
    BY <1>1 DEF rwVars, RwWriteHolders, RwHolders, RwShared, RwPendingReaders, RwPendingWriters
  <2>3. RwHoldInv' /\ RwCounts'
    BY <1>1, <2>2 DEF rwVars, RwInv, RwHoldInv, RwWriterAlone, RwStateCounts, RwCounts, RwHolders
  <2> QED BY <2>1, <2>3 DEF RwInv
<1>2. CASE RwNext
  <2>1. PICK t \in RwThreads : RwThreadStep(t)
    BY <1>2, RwNextIsThreadStep
  <2>2. RwControlInv' /\ RwHoldInv' /\ RwCounts'
    BY <2>1, RwControlStep, RwHoldStep, RwCountsStep DEF RwInv
  <2>3. RwSleepersCount'
    BY <2>2, RwSleepersAreCounted, PTL
  <2> QED BY <2>1, <2>2, <2>3, RwNoLostWakeupStep DEF RwInv
<1> QED BY <1>1, <1>2

\* The inductive invariant of ReaderWriterMutex holds in every behaviour.
LEMMA RwInvHolds == RwSpec => []RwInv
BY RwInvInit, RwInvStep, PTL DEF RwSpec

\* The CHECKs of SharedUnlock and ExclusiveUnlock on state_: it is the number of readers, or
\* -1 for a writer, for any number of threads.
THEOREM RwStateCountsHolds == RwSpec => []RwStateCounts
BY RwInvHolds, PTL DEF RwInv, RwHoldInv

\* SharedUnlock and ExclusiveUnlock lose no sleeper, with timeouts and interrupts.
THEOREM RwNoLostWakeupHolds == RwSpec => []RwNoLostWakeup
BY RwInvHolds, PTL DEF RwInv

\* ReaderWriterMutex implements the abstract lock, for any number of readers and writers.
THEOREM RwImplementsLockHolds == RwSpec => RwImplementsLock
<1>1. RwInit => RwLockSpec!Init
  BY DEF RwInit, RwLockSpec!Init, RwHolders, RwHolding
<1>2. RwInv /\ [RwNext]_rwVars => [RwLockSpec!Next]_(RwLockSpec!lockVars)
  <2> SUFFICES ASSUME RwInv, [RwNext]_rwVars
               PROVE  \/ RwLockSpec!Next
                      \/ RwWriteHolders' = RwWriteHolders /\ RwReadHolders' = RwReadHolders
    BY DEF RwLockSpec!lockVars, RwWriteHolders, RwReadHolders
  <2>1. CASE UNCHANGED rwVars
    BY <2>1 DEF rwVars, RwWriteHolders, RwReadHolders, RwHolders, RwShared
  <2>2. ASSUME NEW t \in RwThreads, RwThreadStep(t), RwTakes(t) PROVE RwLockSpec!Next
    <3>1. /\ t \notin RwHolders /\ RwHolders' = RwHolders \union {t} /\ RwWriteHolders = {}
          /\ \A u \in RwHolders : RwShared(u)'
          /\ ~RwShared(t)' => RwHolders = {}
      BY <2>2, RwTakeEffect DEF RwInv
    <3>2. CASE RwShared(t)'
      <4>1. /\ RwWriteHolders' = {} /\ t \notin RwReadHolders
            /\ RwReadHolders' = RwReadHolders \union {t}
        BY <3>1, <3>2 DEF RwWriteHolders, RwReadHolders
      <4>2. RwLockSpec!AcquireShared(t)
        BY <3>1, <4>1 DEF RwLockSpec!AcquireShared, RwWriteHolders, RwReadHolders
      <4> QED BY <4>2 DEF RwLockSpec!Next
    <3>3. CASE ~RwShared(t)'
      <4>1. /\ RwReadHolders = {} /\ RwWriteHolders = {}
            /\ RwWriteHolders' = {t} /\ RwReadHolders' = {}
        BY <3>1, <3>3 DEF RwWriteHolders, RwReadHolders
      <4>2. RwLockSpec!AcquireExclusive(t)
        BY <4>1 DEF RwLockSpec!AcquireExclusive, RwWriteHolders, RwReadHolders
      <4> QED BY <4>2 DEF RwLockSpec!Next
    <3> QED BY <3>2, <3>3
  <2>3. ASSUME NEW t \in RwThreads, RwRelease(t) PROVE RwLockSpec!Next
    <3>1. /\ t \in RwHolders /\ RwHolders' = RwHolders \ {t} /\ RwHolders \subseteq RwThreads
          /\ \A u \in RwThreads : RwShared(u)' <=> RwShared(u)
      BY <2>3, RwReleaseEffect DEF RwInv, RwHolders
    <3>2. CASE RwShared(t)
      <4>1. /\ t \in RwReadHolders /\ RwReadHolders' = RwReadHolders \ {t}
            /\ RwWriteHolders' = RwWriteHolders
        BY <3>1, <3>2 DEF RwWriteHolders, RwReadHolders
      <4>2. RwLockSpec!ReleaseShared(t)
        BY <4>1 DEF RwLockSpec!ReleaseShared, RwWriteHolders, RwReadHolders
      <4> QED BY <4>2 DEF RwLockSpec!Next
    <3>3. CASE ~RwShared(t)
      <4>1. /\ t \in RwWriteHolders /\ RwWriteHolders' = RwWriteHolders \ {t}
            /\ RwReadHolders' = RwReadHolders
        BY <3>1, <3>3 DEF RwWriteHolders, RwReadHolders
      <4>2. RwLockSpec!ReleaseExclusive(t)
        BY <4>1 DEF RwLockSpec!ReleaseExclusive, RwWriteHolders, RwReadHolders
      <4> QED BY <4>2 DEF RwLockSpec!Next
    <3> QED BY <3>2, <3>3
  <2>4. ASSUME NEW t \in RwThreads, RwThreadStep(t), ~RwTakes(t), ~RwRelease(t)
        PROVE  RwWriteHolders' = RwWriteHolders /\ RwReadHolders' = RwReadHolders
    BY <2>4, RwSameHolders DEF RwInv, RwWriteHolders, RwReadHolders
  <2> QED BY <2>1, <2>2, <2>3, <2>4, RwNextIsThreadStep
<1> QED BY <1>1, <1>2, RwInvHolds, PTL DEF RwSpec, RwImplementsLock, RwLockSpec!Spec
================================================================================
