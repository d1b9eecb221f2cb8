----------------------------- MODULE ThreadList -----------------------------
(***************************************************************************)
(* Thread suspension in the runtime: the operations of ThreadSuspension,   *)
(* ThreadCheckpoints and ThreadDebugger on the threads of ThreadState, and *)
(* what makes them correct together.                                       *)
(***************************************************************************)
EXTENDS ThreadDebugger

(* A thread attaches, runs managed or native code and starts an operation of *)
(* its own accord; it finishes what it has started and answers requests at   *)
(* its next safepoint.                                                       *)

Request(t) ==
    \/ Exit(t) \/ SuspendAll(t) \/ SuspendThread(t) \/ RunCheckpoint(t)
    \/ RunCheckpointOnRunnableThreads(t) \/ FlipThreadRoots(t)
    \/ SuspendAllForDebugger(t) \/ SuspendSelfForDebugger(t)
    \/ ResumeAllForDebugger(t) \/ UndoDebuggerSuspensions(t)
    \/ DbgResumeThread(t)

Start(t) == Create(t) \/ Enter(t) \/ Leave(t) \/ Request(t)

Transition(t) ==
    \/ TrCheck(t) \/ TrRecheck(t) \/ TrLock(t) \/ TrCas(t) \/ TrUnlock(t)
    \/ TrFlip(t) \/ TsCheckpoint(t) \/ TsCas(t) \/ TsUnlock(t)

Safepoint(t) == CheckSuspendCheckpoint(t) \/ FullSuspendCheck(t)

Continue(t) ==
    \/ Transition(t) \/ Safepoint(t) \/ Register(t)
    \/ ExPeer(t) \/ ExAgain(t) \/ ExRevoke(t) \/ ExRemove(t)
    \/ ExclusiveLock(t) \/ ExclusiveUnlock(t) \/ ResumeAll(t)
    \/ SxGone(t) \/ SxUnattached(t) \/ SxYield(t) \/ SxRaise(t) \/ SxPoll(t)
    \/ SxTimeout(t) \/ SxAgain(t) \/ Resume(t) \/ ResumeBroadcast(t)
    \/ RcRequest(t) \/ RcFail(t) \/ RcCheck(t) \/ RcRaise(t) \/ RcSelf(t)
    \/ RcRun(t) \/ RcLower(t) \/ RcBroadcast(t) \/ BarrierWait(t)
    \/ FlResume(t) \/ FlShared(t) \/ FlRun(t) \/ FlLower(t)
    \/ DaLock(t) \/ DaAssert(t) \/ DsRaise(t) \/ DsRecheck(t)
    \/ DbBroadcast(t) \/ DrTest(t) \/ DrResume(t) \/ DrBroadcast(t)

Next == ~aborted /\ \E t \in Threads : Start(t) \/ Continue(t)

Spec == Init /\ [][Next]_vars
-----------------------------------------------------------------------------
(* Properties. *)

\* The type invariant of thread suspension.
TypeOK ==
    /\ list \subseteq Threads
    /\ state \in [Threads -> {"Runnable", "Suspended"}]
    /\ suspend_count \in [Threads -> Nat]
    /\ debug_suspend_count \in [Threads -> Int]
    /\ suspend_all_count \in Int
    /\ debug_suspend_all_count \in Int
    /\ writer \in Threads \cup {NoThread}
    /\ readers \subseteq Threads
    /\ lock \in Threads \cup {NoThread}
    /\ pc \in [Threads -> Pcs]
    /\ ret \in [Threads -> Pcs]
    /\ at_check \in [Threads -> BOOLEAN]
    /\ has_peer \in [Threads -> BOOLEAN]
    /\ slots \in [Threads -> Seq(Threads)]
    /\ flip \in [Threads -> Threads \cup {NoThread}]
    /\ target \in [Threads -> Threads \cup {NoThread}]
    /\ how \in [Threads -> {"peer", "id", "debug", "flip"}]
    /\ raised \in [Threads -> SUBSET Threads]
    /\ todo \in [Threads -> SUBSET Threads]
    /\ need \in [Threads -> SUBSET Threads]
    /\ done \in [Threads -> SUBSET Threads]
    /\ barrier \in [Threads -> Int]
    /\ expected \in [Threads -> Nat]
    /\ token \in Threads \cup {NoThread}
    /\ aborted \in BOOLEAN

\* While a thread holds mutator_lock_ exclusively (between SuspendAll and
\* ResumeAll, or in FlipThreadRoots' pause) no thread is Runnable.
StopTheWorld ==
    writer # NoThread => \A t \in Threads : state[t] # "Runnable"

\* No CHECK of this code fails and no suspend count is lowered below zero.
NoAbort == ~aborted

\* A suspend count is the number of requests that are still to be taken back,
\* and every thread that a suspension waits on is in the list: no count leaks
\* and no thread is deleted while another thread works on it.  So no count is
\* ever lowered that is zero.
OutstandingRequests(u) ==
    Cardinality({t \in Threads \ {u} : pc[t] \in SuspendAllPcs})
    + Cardinality({t \in Threads : u \in raised[t] /\ how[t] # "debug"})

CountsMatchRequests ==
    /\ NoAbort
    /\ \A u \in list :
          suspend_count[u] - debug_suspend_count[u] = OutstandingRequests(u)
    /\ \A t \in Threads : raised[t] \subseteq list
    /\ suspend_all_count - debug_suspend_all_count
          = Cardinality({t \in Threads : pc[t] \in SuspendAllPcs})

\* "We know for sure that the thread is suspended at this point": a thread
\* that SuspendThreadBy... has returned, or for which RunCheckpoint runs the
\* closure, stays suspended and alive until its count is lowered.  So do all
\* threads between SuspendAll and ResumeAll ("Debug check that all threads are
\* suspended"), also one that attached or was exiting meanwhile.
SuspendedStaysSuspended ==
    \A t \in Threads :
        /\ \/ pc[t] = "sx_got"
           \/ pc[t] \in {"ts_cas", "ts_unlock"} /\ ret[t] = "sx_got"
           \/ pc[t] = "rc_lower"
           => target[t] \in list /\ IsSuspended(target[t])
        /\ pc[t] = "sa_held" => \A u \in list \ {t} : IsSuspended(u)

\* A thread asleep on resume_cond_ has a reason to sleep, or some thread is
\* on its way to broadcast: no wake-up is lost.
BroadcastPcs == {"sx_bcast", "rc_run", "rc_lower", "db_bcast", "dr_bcast",
                 "fl_lower", "ra_counts"}

NoLostWakeup ==
    \A t \in Threads :
        pc[t] \in SleepPcs /\ suspend_count[t] = 0 =>
            \E u \in Threads \ {t} : pc[u] \in BroadcastPcs

\* No closure runs twice for one thread.
AtMostOneRun ==
    \A t, u \in Threads : \A i \in DOMAIN slots[u] :
        slots[u][i] = t =>
            /\ u \notin done[t]
            /\ u \notin raised[t]
            /\ \A j \in DOMAIN slots[u] : slots[u][j] = t => j = i

\* When the caller of RunCheckpoint, RunCheckpointOnRunnableThreads or
\* FlipThreadRoots passes its barrier, the closure has run for every thread
\* that it was meant for, once, and is pending nowhere.
BarrierMeansDone ==
    /\ AtMostOneRun
    /\ \A t \in Threads :
          pc[t] = "rc_wait" /\ barrier[t] = 0 =>
              /\ need[t] \subseteq done[t]
              /\ \A u \in Threads :
                    flip[u] # t /\ \A i \in DOMAIN slots[u] : slots[u][i] # t

\* A thread runs managed code only with its roots flipped.
FlippedBeforeManaged ==
    \A t \in Threads : pc[t] = "managed" => flip[t] = NoThread

\* t has raised its target's count in SuspendThreadBy... and waits for it.
IsSuspending(t) ==
    /\ raised[t] # {}
    /\ {pc[t], ret[t]} \cap {"sx_try", "sx_again"} # {}

\* "Its not safe to try to suspend another thread in case we get a cycle": no
\* set of threads wait for each other to suspend.
NoSuspendCycle ==
    \A S \in (SUBSET Threads) \ {{}} :
        \E t \in S : ~(IsSuspending(t) /\ target[t] \in S)

\* Suspensions by the debugger are part of the suspend count, and neither the
\* debugger nor the collector takes back one of the other's, or one twice;
\* the debugger finds all threads suspended when it asserts it.
DebugCountsFit ==
    /\ CountsMatchRequests
    /\ \A t \in list : 0 <= debug_suspend_count[t]
=============================================================================
