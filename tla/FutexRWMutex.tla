------------------------------ MODULE FutexRWMutex ------------------------------
(***************************************************************************)
(* ReaderWriterMutex of base/mutex.cc and mutex-inl.h, built on a futex:   *)
(* state_ is -1 for a writer, n for n readers.  Releasing clears the word  *)
(* first and then reads the two counters of pending threads; the last one  *)
(* out wakes all of them.                                                  *)
(***************************************************************************)
EXTENDS Integers, FiniteSets

CONSTANTS RwThreads, RwNoThread,
          RwCalls         \* bound: calls of the lock operations

ASSUME FutexRWMutexAssumption ==
    /\ RwNoThread \notin RwThreads
    /\ IsFiniteSet(RwThreads)
    /\ RwCalls \in Nat

VARIABLES rwState,        \* state_
          rwOwner,        \* exclusive_owner_
          rwReaders,      \* num_pending_readers_
          rwWriters,      \* num_pending_writers_
          rwQueue,        \* the threads the kernel keeps on the futex
          rwPc,           \* where each thread is
          rwMode,         \* "shared", "exclusive" or "timed": the call it is in
          rwSeen,         \* cur_state of a thread that goes to sleep
          rwAborted,      \* LOG(FATAL)
          rwLeft          \* calls left to begin

rwVars == <<rwState, rwOwner, rwReaders, rwWriters, rwQueue, rwPc, rwMode, rwSeen,
            rwAborted, rwLeft>>

RwModes == {"shared", "exclusive", "timed"}

RwHolding == {"own", "in", "release"}

RwInit ==
    /\ rwState = 0
    /\ rwOwner = RwNoThread
    /\ rwReaders = 0
    /\ rwWriters = 0
    /\ rwQueue = {}
    /\ rwPc = [t \in RwThreads |-> "out"]
    /\ rwMode = [t \in RwThreads |-> "shared"]
    /\ rwSeen = [t \in RwThreads |-> 0]
    /\ rwAborted = FALSE
    /\ rwLeft = RwCalls

RwGo(t, from, to) ==
    /\ ~rwAborted
    /\ rwPc[t] = from
    /\ rwPc' = [rwPc EXCEPT ![t] = to]

RwShared(t) == rwMode[t] = "shared"

\* Mutant: lets a writer in beside the readers.
RwFreeOfWriters(t) == rwState >= 0

\* The lock is free for the call t is in.
RwFree(t) == IF RwShared(t) THEN rwState >= 0 ELSE rwState = 0

\* SharedLock, ExclusiveLock and ExclusiveLockWithTimeout begin.
RwLock(t, mode) ==
    /\ rwLeft > 0
    /\ rwLeft' = rwLeft - 1
    /\ RwGo(t, "out", "load")
    /\ rwMode' = [rwMode EXCEPT ![t] = mode]
    /\ UNCHANGED <<rwState, rwOwner, rwReaders, rwWriters, rwQueue, rwSeen, rwAborted>>

\* SharedTryLock.
RwTryLock(t) ==
    /\ rwLeft > 0
    /\ rwLeft' = rwLeft - 1
    /\ RwGo(t, "out", IF rwState >= 0 THEN "own" ELSE "out")
    /\ rwMode' = [rwMode EXCEPT ![t] = "shared"]
    /\ rwState' = IF rwState >= 0 THEN rwState + 1 ELSE rwState
    /\ UNCHANGED <<rwOwner, rwReaders, rwWriters, rwQueue, rwSeen, rwAborted>>

RwAcquire(t) ==
    /\ RwFree(t)
    /\ RwGo(t, "load", "own")
    /\ rwState' = IF RwShared(t) THEN rwState + 1 ELSE -1
    /\ UNCHANGED <<rwOwner, rwReaders, rwWriters, rwQueue, rwMode, rwSeen, rwAborted, rwLeft>>

\* cur_state is what the thread has loaded; the counter is raised after that.
RwLoadTaken(t) ==
    /\ ~RwFree(t)
    /\ RwGo(t, "load", "pend")
    /\ rwSeen' = [rwSeen EXCEPT ![t] = rwState]
    /\ UNCHANGED <<rwState, rwOwner, rwReaders, rwWriters, rwQueue, rwMode, rwAborted, rwLeft>>

RwCountPending(t, by) ==
    /\ rwReaders' = rwReaders + (IF RwShared(t) THEN by ELSE 0)
    /\ rwWriters' = rwWriters + (IF RwShared(t) THEN 0 ELSE by)

RwPend(t) ==
    /\ RwGo(t, "pend", "sleep")
    /\ RwCountPending(t, 1)
    /\ UNCHANGED <<rwState, rwOwner, rwQueue, rwMode, rwSeen, rwAborted, rwLeft>>

\* ComputeRelativeTimeSpec finds that the time is up before the thread has slept.
RwTimeIsUp(t) ==
    /\ rwMode[t] = "timed"
    /\ RwGo(t, "pend", "out")
    /\ UNCHANGED <<rwState, rwOwner, rwReaders, rwWriters, rwQueue, rwMode, rwSeen,
                   rwAborted, rwLeft>>

\* FUTEX_WAIT for the loaded value: asleep, or EAGAIN.
RwSleep(t) ==
    /\ IF rwState = rwSeen[t]
       THEN RwGo(t, "sleep", "asleep") /\ rwQueue' = rwQueue \union {t}
       ELSE RwGo(t, "sleep", "awake") /\ UNCHANGED rwQueue
    /\ UNCHANGED <<rwState, rwOwner, rwReaders, rwWriters, rwMode, rwSeen, rwAborted, rwLeft>>

RwRetry(t) ==
    /\ RwGo(t, "awake", "load")
    /\ RwCountPending(t, -1)
    /\ UNCHANGED <<rwState, rwOwner, rwQueue, rwMode, rwSeen, rwAborted, rwLeft>>

\* EINTR: a writer tries again, HandleSharedLockContention ends the process.
RwInterrupt(t) ==
    /\ RwGo(t, "asleep", "awake")
    /\ rwQueue' = rwQueue \ {t}
    /\ rwAborted' = RwShared(t)
    /\ UNCHANGED <<rwState, rwOwner, rwReaders, rwWriters, rwMode, rwSeen, rwLeft>>

RwTimeout(t) ==
    /\ rwMode[t] = "timed"
    /\ RwGo(t, "asleep", "out")
    /\ rwQueue' = rwQueue \ {t}
    /\ RwCountPending(t, -1)
    /\ UNCHANGED <<rwState, rwOwner, rwMode, rwSeen, rwAborted, rwLeft>>

RwOwn(t) ==
    /\ RwGo(t, "own", "in")
    /\ rwOwner' = IF RwShared(t) THEN rwOwner ELSE t
    /\ UNCHANGED <<rwState, rwReaders, rwWriters, rwQueue, rwMode, rwSeen, rwAborted, rwLeft>>

\* SharedUnlock and ExclusiveUnlock up to the CAS.
RwUnlock(t) ==
    /\ RwGo(t, "in", "release")
    /\ rwOwner' = IF RwShared(t) THEN rwOwner ELSE RwNoThread
    /\ UNCHANGED <<rwState, rwReaders, rwWriters, rwQueue, rwMode, rwSeen, rwAborted, rwLeft>>

\* The CAS; only who leaves the lock free looks for pending threads.
RwRelease(t) ==
    /\ rwState' = IF RwShared(t) THEN rwState - 1 ELSE 0
    /\ RwGo(t, "release", IF rwState' = 0 THEN "check" ELSE "out")
    /\ UNCHANGED <<rwOwner, rwReaders, rwWriters, rwQueue, rwMode, rwSeen, rwAborted, rwLeft>>

\* Mutant: looks only for writers.
RwCheckWriters(t) ==
    /\ RwGo(t, "check", IF rwWriters > 0 THEN "wake" ELSE "out")
    /\ UNCHANGED <<rwState, rwOwner, rwReaders, rwWriters, rwQueue, rwMode, rwSeen,
                   rwAborted, rwLeft>>

RwCheck(t) ==
    /\ RwGo(t, "check", IF rwReaders > 0 \/ rwWriters > 0 THEN "wake" ELSE "out")
    /\ UNCHANGED <<rwState, rwOwner, rwReaders, rwWriters, rwQueue, rwMode, rwSeen,
                   rwAborted, rwLeft>>

\* FUTEX_WAKE of all.
RwWake(t) ==
    /\ ~rwAborted
    /\ rwPc[t] = "wake"
    /\ rwPc' = [u \in RwThreads |->
                   IF u = t THEN "out" ELSE IF u \in rwQueue THEN "awake" ELSE rwPc[u]]
    /\ rwQueue' = {}
    /\ UNCHANGED <<rwState, rwOwner, rwReaders, rwWriters, rwMode, rwSeen, rwAborted, rwLeft>>

RwStep(t) ==
    \/ RwAcquire(t) \/ RwLoadTaken(t) \/ RwPend(t) \/ RwSleep(t) \/ RwRetry(t)
    \/ RwOwn(t) \/ RwUnlock(t) \/ RwRelease(t) \/ RwCheck(t) \/ RwWake(t)

RwNext ==
    \E t \in RwThreads :
        \/ \E mode \in RwModes : RwLock(t, mode)
        \/ RwTryLock(t) \/ RwStep(t) \/ RwTimeIsUp(t) \/ RwInterrupt(t) \/ RwTimeout(t)

RwSpec == RwInit /\ [][RwNext]_rwVars

----------------------------------------------------------------------------

RwHolders == {t \in RwThreads : rwPc[t] \in RwHolding}

RwLockSpec == INSTANCE AbstractLock
    WITH Threads <- RwThreads,
         writers <- {t \in RwHolders : ~RwShared(t)},
         readers <- {t \in RwHolders : RwShared(t)}

\* ReaderWriterMutex implements the abstract lock: a writer, also one that came with a
\* timeout, never has company, and readers never lose their share to a writer.
RwImplementsLock == RwLockSpec!Spec

\* state_ is the number of readers or -1, in the middle of releases and acquisitions too
\* (the CHECKs of SharedUnlock and ExclusiveUnlock on state_ never fail).
RwStateCounts ==
    rwState = IF \E t \in RwHolders : ~RwShared(t) THEN -1 ELSE Cardinality(RwHolders)

\* Nobody sleeps on a free lock for good: whoever left it free is on the way to wake all
\* sleepers, although SharedUnlock and ExclusiveUnlock read the counters after the CAS and a
\* writer that gives up (ETIMEDOUT) lowers its counter.
RwNoLostWakeup ==
    (rwState = 0 /\ rwQueue /= {} /\ ~rwAborted) =>
        \E t \in RwThreads :
            \/ rwPc[t] = "wake"
            \/ rwPc[t] = "check" /\ (rwReaders > 0 \/ rwWriters > 0)

\* A thread on its way to the lock, with or without a timeout.
RwPending(t) == ~rwAborted /\ rwPc[t] \in {"load", "pend", "sleep", "asleep", "awake"}
================================================================================
