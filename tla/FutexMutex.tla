------------------------------- MODULE FutexMutex -------------------------------
(***************************************************************************)
(* Mutex and ConditionVariable of base/mutex.cc, built on futexes.         *)
(*                                                                         *)
(* A lock is the word state_ and, beside it, num_contenders_: an unlock    *)
(* first clears the word and then looks whether somebody has to be woken.  *)
(* Waiters on the condition variable sleep on its sequence_; Broadcast     *)
(* moves them to the futex of the mutex.  Every access to a word that      *)
(* other threads touch without the lock is a step of its own.  A load      *)
(* followed by a successful weak CAS is one step: a CAS that fails only    *)
(* repeats the load.                                                       *)
(***************************************************************************)
EXTENDS Integers, FiniteSets

CONSTANTS MuThreads,      \* the threads
          MuNoThread,     \* exclusive_owner_ = 0
          MuRecursive,    \* recursive_
          MuCalls         \* bound: calls of Lock, TryLock, Wait, Signal, Broadcast

ASSUME FutexMutexAssumption ==
    /\ MuNoThread \notin MuThreads
    /\ MuRecursive \in BOOLEAN
    /\ MuCalls \in Nat

VARIABLES muState,        \* state_: 0 free, 1 locked
          muOwner,        \* exclusive_owner_
          muCount,        \* recursion_count_
          muContenders,   \* num_contenders_
          muQueue,        \* the threads the kernel keeps on the futex state_
          cvSequence,     \* sequence_
          cvWaiters,      \* num_waiters_
          cvQueue,        \* the threads the kernel keeps on the futex sequence_
          muPc,           \* where each thread is
          muThen,         \* where it goes once it has the lock, or has released it
          muSaved,        \* old_recursion_count of a waiting thread
          muSeen,         \* cur_sequence of a waiting thread
          muLeft,         \* calls left to begin
          cvLast          \* history: sequence_ at the last Broadcast that found waiters

muVars == <<muState, muOwner, muCount, muContenders, muQueue, cvSequence, cvWaiters,
            cvQueue, muPc, muThen, muSaved, muSeen, muLeft, cvLast>>

muWords == <<muState, muContenders, muQueue>>
muCond == <<cvSequence, cvWaiters, cvQueue, cvLast>>
muLocals == <<muThen, muSaved, muSeen>>

\* "out": not in a call and without the lock; "in": with the lock.
MuPcs == {"out", "load", "contend", "sleep", "asleep", "awake", "own", "in", "release",
          "check", "wake", "cvWait", "cvAsleep", "cvReturn", "signal", "broadcast"}

\* From the CAS that takes the lock to the CAS that gives it back.
MuHolding == {"own", "in", "release", "cvReturn", "signal", "broadcast"}

MuInit ==
    /\ muState = 0
    /\ muOwner = MuNoThread
    /\ muCount = 0
    /\ muContenders = 0
    /\ muQueue = {}
    /\ cvSequence = 0
    /\ cvWaiters = 0
    /\ cvQueue = {}
    /\ muPc = [t \in MuThreads |-> "out"]
    /\ muThen = [t \in MuThreads |-> "out"]
    /\ muSaved = [t \in MuThreads |-> 0]
    /\ muSeen = [t \in MuThreads |-> 0]
    /\ muLeft = MuCalls
    /\ cvLast = 0

MuGo(t, from, to) ==
    /\ muPc[t] = from
    /\ muPc' = [muPc EXCEPT ![t] = to]

\* A call begins at one of the places in from.
MuBegin(t, from, to) ==
    /\ muLeft > 0
    /\ muLeft' = muLeft - 1
    /\ MuGo(t, from, to)

\* IsExclusiveHeld(t), as the owner field says it.
MuHeld(t) == muOwner = t

MuLock(t) ==
    /\ ~(MuRecursive /\ MuHeld(t))
    /\ MuBegin(t, "out", "load")
    /\ muThen' = [muThen EXCEPT ![t] = "in"]
    /\ UNCHANGED <<muOwner, muCount, muWords, muCond, muSaved, muSeen>>

\* A recursive mutex that the thread holds already.
MuRelock(t) ==
    /\ MuRecursive /\ MuHeld(t)
    /\ MuBegin(t, "in", "in")
    /\ muCount' = muCount + 1
    /\ UNCHANGED <<muOwner, muWords, muCond, muLocals>>

MuTryLock(t) ==
    /\ ~(MuRecursive /\ MuHeld(t))
    /\ \/ /\ muState = 0
          /\ muState' = 1
          /\ MuBegin(t, "out", "own")
          /\ muThen' = [muThen EXCEPT ![t] = "in"]
       \/ /\ muState /= 0
          /\ MuBegin(t, "out", "out")
          /\ UNCHANGED <<muState, muThen>>
    /\ UNCHANGED <<muOwner, muCount, muContenders, muQueue, muCond, muSaved, muSeen>>

MuAcquire(t) ==
    /\ muState = 0
    /\ MuGo(t, "load", "own")
    /\ muState' = 1
    /\ UNCHANGED <<muOwner, muCount, muContenders, muQueue, muCond, muLocals, muLeft>>

MuLoadTaken(t) ==
    /\ muState /= 0
    /\ MuGo(t, "load", "contend")
    /\ UNCHANGED <<muOwner, muCount, muWords, muCond, muLocals, muLeft>>

MuContend(t) ==
    /\ MuGo(t, "contend", "sleep")
    /\ muContenders' = muContenders + 1
    /\ UNCHANGED <<muState, muQueue, muOwner, muCount, muCond, muLocals, muLeft>>

\* FUTEX_WAIT for the value 1: asleep, or EAGAIN.
MuSleep(t) ==
    /\ IF muState = 1
       THEN MuGo(t, "sleep", "asleep") /\ muQueue' = muQueue \union {t}
       ELSE MuGo(t, "sleep", "awake") /\ UNCHANGED muQueue
    /\ UNCHANGED <<muState, muContenders, muOwner, muCount, muCond, muLocals, muLeft>>

\* EINTR.
MuInterrupt(t) ==
    /\ MuGo(t, "asleep", "awake")
    /\ muQueue' = muQueue \ {t}
    /\ UNCHANGED <<muState, muContenders, muOwner, muCount, muCond, muLocals, muLeft>>

\* Mutant of MuRetry: a woken contender takes the lock for its own.
MuRetryOwns(t) ==
    /\ MuGo(t, "awake", "own")
    /\ muState' = 1
    /\ muContenders' = muContenders - 1
    /\ UNCHANGED <<muQueue, muOwner, muCount, muCond, muLocals, muLeft>>

MuRetry(t) ==
    /\ MuGo(t, "awake", "load")
    /\ muContenders' = muContenders - 1
    /\ UNCHANGED <<muState, muQueue, muOwner, muCount, muCond, muLocals, muLeft>>

\* exclusive_owner_ is set after the CAS; a thread that returns from Wait goes on there.
MuOwn(t) ==
    /\ MuGo(t, "own", muThen[t])
    /\ muOwner' = t
    /\ muCount' = muCount + 1
    /\ UNCHANGED <<muWords, muCond, muLocals, muLeft>>

MuUnlock(t) ==
    /\ muCount' = muCount - 1
    /\ IF MuRecursive /\ muCount' > 0
       THEN MuGo(t, "in", "in") /\ UNCHANGED <<muOwner, muThen>>
       ELSE /\ MuGo(t, "in", "release")
            /\ muOwner' = MuNoThread
            /\ muThen' = [muThen EXCEPT ![t] = "out"]
    /\ UNCHANGED <<muWords, muCond, muSaved, muSeen, muLeft>>

MuRelease(t) ==
    /\ MuGo(t, "release", "check")
    /\ muState' = 0
    /\ UNCHANGED <<muContenders, muQueue, muOwner, muCount, muCond, muLocals, muLeft>>

\* Mutant of MuCheck: num_contenders_ is compared with 1.
MuCheckOffByOne(t) ==
    /\ MuGo(t, "check", IF muContenders > 1 THEN "wake" ELSE muThen[t])
    /\ UNCHANGED <<muWords, muOwner, muCount, muCond, muLocals, muLeft>>

MuCheck(t) ==
    /\ MuGo(t, "check", IF muContenders > 0 THEN "wake" ELSE muThen[t])
    /\ UNCHANGED <<muWords, muOwner, muCount, muCond, muLocals, muLeft>>

\* Where a thread goes on when the kernel wakes it on the mutex's futex.
MuWoken(w) == IF muPc[w] = "cvAsleep" THEN "load" ELSE "awake"

\* FUTEX_WAKE of one thread.
MuWake(t) ==
    /\ muPc[t] = "wake"
    /\ \/ /\ muQueue = {}
          /\ MuGo(t, "wake", muThen[t])
          /\ UNCHANGED muQueue
       \/ \E w \in muQueue :
            /\ muQueue' = muQueue \ {w}
            /\ muPc' = [muPc EXCEPT ![t] = muThen[t], ![w] = MuWoken(w)]
    /\ UNCHANGED <<muState, muContenders, muOwner, muCount, muCond, muLocals, muLeft>>

\* WaitHoldingLocks and TimedWait up to the release of the guard.
MuWait(t) ==
    /\ MuBegin(t, "in", "release")
    /\ cvWaiters' = cvWaiters + 1
    /\ muContenders' = muContenders + 1
    /\ muSaved' = [muSaved EXCEPT ![t] = muCount]
    /\ muSeen' = [muSeen EXCEPT ![t] = cvSequence]
    /\ muCount' = 0
    /\ muOwner' = MuNoThread
    /\ muThen' = [muThen EXCEPT ![t] = "cvWait"]
    /\ UNCHANGED <<muState, muQueue, cvSequence, cvQueue, cvLast>>

\* FUTEX_WAIT on sequence_: asleep, or EAGAIN.
MuCvWait(t) ==
    /\ IF cvSequence = muSeen[t]
       THEN MuGo(t, "cvWait", "cvAsleep") /\ cvQueue' = cvQueue \union {t}
       ELSE MuGo(t, "cvWait", "load") /\ UNCHANGED cvQueue
    /\ muThen' = [muThen EXCEPT ![t] = "cvReturn"]
    /\ UNCHANGED <<muWords, muOwner, muCount, cvSequence, cvWaiters, cvLast, muSaved, muSeen,
                   muLeft>>

\* EINTR, or the timeout of TimedWait; a thread that was requeued waits on the other futex.
MuCvInterrupt(t) ==
    /\ MuGo(t, "cvAsleep", "load")
    /\ cvQueue' = cvQueue \ {t}
    /\ muQueue' = muQueue \ {t}
    /\ UNCHANGED <<muState, muContenders, muOwner, muCount, cvSequence, cvWaiters,
                   cvLast, muLocals, muLeft>>

\* The end of Wait, with the guard held again.
MuCvReturn(t) ==
    /\ MuGo(t, "cvReturn", "in")
    /\ cvWaiters' = cvWaiters - 1
    /\ muContenders' = muContenders - 1
    /\ muCount' = muSaved[t]
    /\ UNCHANGED <<muState, muQueue, muOwner, cvSequence, cvQueue, cvLast, muLocals, muLeft>>

\* Mutant of MuNotify: sequence_ is left alone.
MuNotifyQuietly(t, to) ==
    /\ MuBegin(t, "in", IF cvWaiters > 0 THEN to ELSE "in")
    /\ UNCHANGED <<muWords, muOwner, muCount, cvSequence, cvWaiters, cvQueue, muLocals>>

\* Signal and Broadcast count up sequence_ only if somebody waits.
MuNotify(t, to) ==
    /\ IF cvWaiters > 0
       THEN MuBegin(t, "in", to) /\ cvSequence' = cvSequence + 1
       ELSE MuBegin(t, "in", "in") /\ UNCHANGED cvSequence
    /\ UNCHANGED <<muWords, muOwner, muCount, cvWaiters, cvQueue, muLocals>>

MuSignal(t) == MuNotify(t, "signal") /\ UNCHANGED cvLast

MuBroadcast(t) == MuNotify(t, "broadcast") /\ cvLast' = cvSequence'

MuSignalWake(t) ==
    /\ muPc[t] = "signal"
    /\ \/ /\ cvQueue = {}
          /\ MuGo(t, "signal", "in")
          /\ UNCHANGED cvQueue
       \/ \E w \in cvQueue :
            /\ cvQueue' = cvQueue \ {w}
            /\ muPc' = [muPc EXCEPT ![t] = "in", ![w] = "load"]
    /\ UNCHANGED <<muWords, muOwner, muCount, cvSequence, cvWaiters, cvLast, muLocals, muLeft>>

\* Mutant of MuRequeue: one waiter only.
MuRequeueOne(t) ==
    /\ MuGo(t, "broadcast", "in")
    /\ \E w \in SUBSET cvQueue :
          /\ Cardinality(w) = IF cvQueue = {} THEN 0 ELSE 1
          /\ muQueue' = muQueue \union w
          /\ cvQueue' = cvQueue \ w
    /\ UNCHANGED <<muState, muContenders, muOwner, muCount, cvSequence, cvWaiters,
                   cvLast, muLocals, muLeft>>

\* FUTEX_CMP_REQUEUE of all waiters, none woken.
MuRequeue(t) ==
    /\ MuGo(t, "broadcast", "in")
    /\ muQueue' = muQueue \union cvQueue
    /\ cvQueue' = {}
    /\ UNCHANGED <<muState, muContenders, muOwner, muCount, cvSequence, cvWaiters,
                   cvLast, muLocals, muLeft>>

MuCall(t) ==
    \/ MuLock(t) \/ MuRelock(t) \/ MuTryLock(t)
    \/ MuWait(t) \/ MuSignal(t) \/ MuBroadcast(t)

MuStep(t) ==
    \/ MuAcquire(t) \/ MuLoadTaken(t) \/ MuContend(t) \/ MuSleep(t) \/ MuRetry(t)
    \/ MuOwn(t) \/ MuUnlock(t) \/ MuRelease(t) \/ MuCheck(t) \/ MuWake(t)
    \/ MuCvWait(t) \/ MuCvReturn(t) \/ MuSignalWake(t) \/ MuRequeue(t)

MuNext == \E t \in MuThreads : MuCall(t) \/ MuStep(t) \/ MuInterrupt(t) \/ MuCvInterrupt(t)

MuSpec == MuInit /\ [][MuNext]_muVars

----------------------------------------------------------------------------

\* The threads between the release of the guard in Wait and its end.
MuInWait(t) ==
    /\ muThen[t] \in {"cvWait", "cvReturn"}
    /\ muPc[t] \notin {"out", "in", "signal", "broadcast"}

\* The lock as the callers see it: taken and given back by the CAS on state_.
MuHolders == {t \in MuThreads : muPc[t] \in MuHolding}

MuLockSpec == INSTANCE AbstractLock
    WITH Threads <- MuThreads, writers <- MuHolders, readers <- {}

\* Mutex implements the abstract lock: ExclusiveLock, ExclusiveTryLock and the re-acquisition
\* in WaitHoldingLocks take it only when it is free, whatever wake-ups, interrupts and
\* requeues happen in between.
MuImplementsLock == MuLockSpec!Spec

\* A thread inside the lock is the recorded owner of a locked mutex with a positive recursion
\* count (AssertExclusiveHeld), also after a Wait that gave up several levels at once.
MuOwnerIsHolder ==
    \A t \in MuThreads :
        muPc[t] \in {"in", "signal", "broadcast"} =>
            muOwner = t /\ muState = 1 /\ muCount > 0

\* ExclusiveUnlock clears state_ and only then reads num_contenders_.  Still nobody sleeps
\* on a free mutex for good: somebody is on the way who will wake a sleeper or take the lock.
MuNoLostWakeup ==
    (muState = 0 /\ muQueue /= {}) =>
        \E t \in MuThreads :
            \/ muPc[t] \in {"load", "contend", "sleep", "awake", "wake"}
            \/ muPc[t] = "check" /\ muContenders > 0

\* Signal finds a waiter or makes one return that has not gone to sleep yet: between the
\* change of sequence_ and FUTEX_WAKE nobody falls asleep on the old value.
MuSignalIsHeard ==
    \A t \in MuThreads :
        muPc[t] = "signal" =>
            \E w \in MuThreads :
                /\ MuInWait(w)
                /\ w \in cvQueue \/ muThen[w] = "cvReturn" \/ muSeen[w] /= cvSequence

\* After Broadcast nobody sleeps on sequence_ who began to wait before it: waiters are moved
\* to the mutex, where num_contenders_ makes the unlock wake them, or find the new value.
MuBroadcastReachesAll ==
    /\ (\A t \in MuThreads : muPc[t] /= "broadcast") =>
           \A w \in cvQueue : muSeen[w] >= cvLast
    /\ Cardinality(muQueue) + Cardinality(cvQueue) =< muContenders

\* No thread in Wait is passed over, by Signal or by Broadcast.
MuNotificationsArrive == MuSignalIsHeard /\ MuBroadcastReachesAll

\* A thread in ExclusiveLock, or one that Broadcast has moved to the mutex.
MuPending(t) ==
    muPc[t] \in {"load", "contend", "sleep", "asleep", "awake"} \/ t \in muQueue
================================================================================
