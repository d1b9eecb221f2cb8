------------------------------ MODULE MCLiveness -------------------------------
(***************************************************************************)
(* What must eventually happen, for the components of MCLocks and MCHeap   *)
(* and for the thread list, under one assumption: the kernel schedules     *)
(* every thread of the process that can run, and what the application does *)
(* in critical sections ends.  Every behaviour runs one component; "none"  *)
(* for both parts means the thread list.                                   *)
(***************************************************************************)
EXTENDS MCLocks, MCHeap

CONSTANTS TlThreads, NoThread, kMaxCheckpoints, Ops, MaxStarts

VARIABLES list, state, suspend_count, debug_suspend_count, suspend_all_count,
          debug_suspend_all_count, writer, readers, lock, pc, ret, at_check, has_peer, slots,
          flip, target, how, raised, todo, need, done, barrier, expected, token, aborted, starts

\* Without the debugger.
TL == INSTANCE MCThreadListLive
    WITH Threads <- TlThreads, Attached <- TlThreads, DebugThread <- NoThread,
         MaxDebugSuspends <- 0

tlVars == <<list, state, suspend_count, debug_suspend_count, suspend_all_count,
            debug_suspend_all_count, writer, readers, lock, pc, ret, at_check, has_peer, slots,
            flip, target, how, raised, todo, need, done, barrier, expected, token, aborted,
            starts>>

livenessVars == <<locksVars, heapVars, tlVars>>

LivenessInit ==
    /\ LocksInit /\ HeapInit
    /\ "none" \in {lockPart, heapPart}
    /\ TL!Init /\ starts = 0

LivenessNext ==
    \/ heapPart = "none" /\ LocksNext /\ UNCHANGED <<heapVars, tlVars>>
    \/ lockPart = "none" /\ HeapNext /\ UNCHANGED <<locksVars, tlVars>>
    \/ {lockPart, heapPart} = {"none"} /\ TL!LiveNext /\ UNCHANGED <<locksVars, heapVars>>

\* Thread t goes on with what it has begun, and leaves its critical sections.
LockStep(t) ==
    \/ lockPart = "mutex" /\ MuStep(t) /\ OnlyLock("mutex")
    \/ lockPart = "rwmutex" /\ RwStep(t) /\ OnlyLock("rwmutex")
    \/ /\ lockPart = "monitor" /\ (MonStep(t) \/ (monDepth[t] > 0 /\ MonExit(t)))
       /\ OnlyLock("monitor")
    \/ lockPart = "pool" /\ TpWorkerStep(t) /\ OnlyLock("pool")
    \/ lockPart = "class" /\ CiStep(t) /\ OnlyLock("class")

HeapStep(t) ==
    \/ heapPart = "unpack" /\ Run(t) /\ OnlyHeap("unpack")
    \/ heapPart = "heap" /\ HtStep(t) /\ OnlyHeap("heap")
    \/ heapPart = "references" /\ t \in RpThreads /\ RpMutate(t) /\ OnlyHeap("references")

ThreadRuns(t) ==
    \/ LockStep(t) /\ UNCHANGED <<heapVars, tlVars>>
    \/ HeapStep(t) /\ UNCHANGED <<locksVars, tlVars>>
    \/ /\ {lockPart, heapPart} = {"none"} /\ TL!Continue(t)
       /\ UNCHANGED <<locksVars, heapVars, starts>>

\* The owner of the pool, the heap task daemon and the collector run.
DaemonRuns ==
    \/ lockPart = "pool" /\ TpOwnerStep /\ OnlyLock("pool") /\ UNCHANGED <<heapVars, tlVars>>
    \/ /\ heapPart = "heap" /\ (HtDaemonStep \/ HtStep(HtDaemon)) /\ OnlyHeap("heap")
       /\ UNCHANGED <<locksVars, tlVars>>
    \/ /\ heapPart = "references" /\ RpCollect /\ OnlyHeap("references")
       /\ UNCHANGED <<locksVars, tlVars>>

\* Time passes.
ClockRuns ==
    heapPart = "heap" /\ HtTick /\ OnlyHeap("heap") /\ UNCHANGED <<locksVars, tlVars>>

LivenessSpec ==
    /\ LivenessInit
    /\ [][LivenessNext]_livenessVars
    /\ \A t \in TlThreads : WF_livenessVars(ThreadRuns(t))
    /\ WF_livenessVars(DaemonRuns)
    /\ WF_livenessVars(ClockRuns)

\* Thread t is in a call that has to come to an end.
Pending(t) ==
    \/ lockPart = "mutex" /\ MuPending(t)
    \/ lockPart = "rwmutex" /\ RwPending(t)
    \/ lockPart = "monitor" /\ MonPending(t)
    \/ lockPart = "class" /\ CiPending(t)
    \/ heapPart = "heap" /\ HtPending(t)
    \/ heapPart = "references" /\ t \in RpThreads /\ RpPending(t)
    \/ {lockPart, heapPart} = {"none"} /\ pc[t] \notin {"absent", "native", "managed"}

\* Work that others have been asked to do.
Backlog ==
    \/ lockPart = "pool" /\ TpPending
    \/ heapPart = "heap" /\ HtBacklog
    \/ heapPart = "unpack" /\ ClaimedNotDumped

\* Every call of a thread ends.  ExclusiveLock and SharedLock get the lock or give up in time;
\* MonitorEnter and a woken Object.wait get the monitor, through spinning, suspension of the
\* owner, inflation and contention; EnsureInitialized returns where no <clinit>s wait for each
\* other, although VerifyClass holds two class locks; collections get their turn and
\* IncrementDisableMovingGC its answer; Reference.get() returns; SuspendAll,
\* SuspendThreadByThreadId, RunCheckpoint, FlipThreadRoots and Unregister complete.
CallsEnd == \A t \in TlThreads : []<>~Pending(t)

\* What was handed over is done: ThreadPool::Wait and ~ThreadPool see the end of all tasks,
\* the daemon takes every heap task, and every DEX file entered in dex_addrs gets its dump in a
\* process that is not killed and on a disk that takes every write (a failing open or write
\* leaves the file claimed and without a dump).
BacklogIsCleared == []<>~Backlog
================================================================================
