-------------------------- MODULE ThreadSuspension --------------------------
(***************************************************************************)
(* Suspending all threads and suspending one: SuspendAll, ResumeAll,       *)
(* SuspendThreadByPeer, SuspendThreadByThreadId and Resume of              *)
(* runtime/thread_list.cc.                                                 *)
(***************************************************************************)
EXTENDS ThreadState

(* ThreadList::SuspendAll and ResumeAll. *)

\* Mutant: attaching threads do not see the suspension.
SuspendAllUncounted(t) ==
    /\ At(t, "native")
    /\ "suspend_all" \in Ops
    /\ Unlocked
    /\ Modify(list \ {t}, 1)
    /\ Goto(t, "sa_lock")
    /\ UNCHANGED <<debug_suspend_count, all_counts, memory, closures, asking,
                   flow, token>>

SuspendAll(t) ==
    /\ At(t, "native")
    /\ "suspend_all" \in Ops
    /\ Unlocked
    /\ suspend_all_count' = suspend_all_count + 1
    /\ Modify(list \ {t}, 1)
    /\ Goto(t, "sa_lock")
    /\ UNCHANGED <<debug_suspend_count, debug_suspend_all_count, memory,
                   closures, asking, flow, token>>

\* Mutant: the readers are not waited for.
CanLockExclusiveEarly == writer = NoThread

\* RWMutex::ExclusiveLock waits for the writer and for all readers.
CanLockExclusive == writer = NoThread /\ readers = {}

\* mutator_lock_->ExclusiveLock, also in FlipThreadRoots
ExclusiveLock(t) ==
    /\ pc[t] \in {"sa_lock", "fl_lock"}
    /\ CanLockExclusive
    /\ writer' = t
    /\ Goto(t, IF At(t, "sa_lock") THEN "sa_held" ELSE "fl_held")
    /\ UNCHANGED <<counts, readers, identity, closures, asking, state, lock,
                   flow, token, aborted>>

\* ResumeAll and FlipThreadRoots give the lock up before they lower counts.
ExclusiveUnlock(t) ==
    /\ pc[t] \in {"sa_held", "fl_held"}
    /\ writer' = NoThread
    /\ Goto(t, IF At(t, "sa_held") THEN "ra_counts" ELSE "fl_counts")
    /\ UNCHANGED <<counts, readers, identity, closures, asking, state, lock,
                   flow, token, aborted>>

\* Mutant: the caller's own count is lowered too, and zero is not tested for.
ResumeAllSelf(t) ==
    /\ At(t, "ra_counts")
    /\ Unlocked
    /\ suspend_all_count' = suspend_all_count - 1
    /\ suspend_count' = [u \in Threads |-> IF u \in list
                            THEN suspend_count[u] - 1 ELSE suspend_count[u]]
    /\ Broadcast(t, "native")
    /\ UNCHANGED <<debug_suspend_count, debug_suspend_all_count, memory,
                   closures, asking, flow, token, aborted>>

ResumeAll(t) ==
    /\ At(t, "ra_counts")
    /\ Unlocked
    /\ suspend_all_count' = suspend_all_count - 1
    /\ Modify(list \ {t}, -1)
    /\ Broadcast(t, "native")
    /\ UNCHANGED <<debug_suspend_count, debug_suspend_all_count, memory,
                   closures, asking, flow, token>>
-----------------------------------------------------------------------------
(* SuspendThreadByPeer (for others or for the debugger), by id, Resume. *)

SuspendThread(t) ==
    /\ At(t, "native")
    /\ \E u \in Threads \ {t}, h \in {"peer", "id", "debug"} \cap Ops :
          /\ h = "debug" => t = DebugThread /\ t \in list /\ token = NoThread
                            /\ debug_suspend_count[u] < MaxDebugSuspends
          /\ target' = [target EXCEPT ![t] = u]
          /\ how' = [how EXCEPT ![t] = h]
          /\ token' = IF h = "debug" THEN t ELSE token
    /\ CallToRunnable(t, "sx_try")
    /\ UNCHANGED <<counts, memory, closures, raised, at_check, aborted>>

\* FromManagedThread(peer), or the search of list_ for the id.
Found(t) == IF how[t] = "id" THEN target[t] \in list ELSE has_peer[target[t]]

\* The count of t's target, as debug_suspension says.
ModifyTarget(t, delta) ==
    IF how[t] = "debug"
    THEN ModifyForDebugger({target[t]}, Always(delta))
    ELSE Modify({target[t]}, delta) /\ UNCHANGED debug_suspend_count

\* The outcome of an iteration: the function returns, or sleeps and retries.
SxReturn(t) ==
    /\ CallToSuspended(t, "native")
    /\ target' = [target EXCEPT ![t] = NoThread]
    /\ raised' = [raised EXCEPT ![t] = {}]
    /\ how' = [how EXCEPT ![t] = "id"]
    /\ token' = IF token = t THEN NoThread ELSE token

\* No such thread any more.  By peer, a count that was raised is lowered, and
\* nobody is woken; by id, it is an error to have raised one.
SxGone(t) ==
    /\ At(t, "sx_try")
    /\ Unlocked
    /\ ~Found(t)
    /\ IF how[t] # "id" /\ raised[t] # {}
       THEN ModifyTarget(t, -1)
       ELSE /\ aborted' = (aborted \/ raised[t] # {})
            /\ UNCHANGED <<suspend_count, debug_suspend_count>>
    /\ SxReturn(t)
    /\ UNCHANGED <<all_counts, memory, closures, at_check>>

\* The peer's thread has not registered yet.
SxUnattached(t) ==
    /\ At(t, "sx_try")
    /\ Unlocked
    /\ Found(t) /\ target[t] \notin list
    /\ aborted' = (aborted \/ raised[t] # {})
    /\ SxReturn(t)
    /\ UNCHANGED <<counts, memory, closures, at_check>>

\* Mutant: the caller's own suspend count is not looked at.
MayRequestAlways(t) == TRUE

\* Nobody is suspending the caller, who may ask for a suspension now.
MayRequest(t) == suspend_count[t] = 0

\* Somebody is suspending this thread: let that happen first.
SxYield(t) ==
    /\ At(t, "sx_try")
    /\ Unlocked
    /\ Found(t) /\ target[t] \in list
    /\ raised[t] = {}
    /\ ~MayRequest(t)
    /\ CallToSuspended(t, "sx_again")
    /\ UNCHANGED <<others, at_check>>

\* The target is suspended now (IsSuspended), or will be looked at again.
SxAwait(t) ==
    CallToSuspended(t, IF state[target[t]] # "Runnable" THEN "sx_got"
                                                        ELSE "sx_again")

SxRaise(t) ==
    /\ At(t, "sx_try")
    /\ Unlocked
    /\ Found(t) /\ target[t] \in list
    /\ raised[t] = {}
    /\ MayRequest(t)
    /\ ModifyTarget(t, 1)
    /\ raised' = [raised EXCEPT ![t] = {target[t]}]
    /\ SxAwait(t)
    /\ UNCHANGED <<all_counts, memory, closures, target, how, at_check, token>>

SxPoll(t) ==
    /\ At(t, "sx_try")
    /\ Unlocked
    /\ Found(t) /\ target[t] \in list
    /\ raised[t] # {}
    /\ aborted' = (aborted \/ suspend_count[target[t]] <= 0)
    /\ SxAwait(t)
    /\ UNCHANGED <<counts, memory, closures, asking, at_check, token>>

\* Mutant: the count stays raised.
SxTimeoutLeaks(t) ==
    /\ At(t, "sx_try")
    /\ "timeout" \in Ops
    /\ Unlocked
    /\ how[t] = "id" /\ target[t] \in list
    /\ raised[t] # {}
    /\ ~IsSuspended(target[t])
    /\ SxReturn(t)
    /\ UNCHANGED <<counts, memory, closures, at_check, aborted>>

\* kThreadSuspendTimeoutMs is over.  By peer the runtime logs FATAL instead.
SxTimeout(t) ==
    /\ At(t, "sx_try")
    /\ "timeout" \in Ops
    /\ Unlocked
    /\ how[t] = "id" /\ target[t] \in list
    /\ raised[t] # {}
    /\ ~IsSuspended(target[t])
    /\ ModifyTarget(t, -1)
    /\ SxReturn(t)
    /\ UNCHANGED <<all_counts, memory, closures, at_check>>

\* The next iteration, after ThreadSuspendSleep
SxAgain(t) ==
    /\ At(t, "sx_again")
    /\ CallToRunnable(t, "sx_try")
    /\ UNCHANGED <<others, at_check>>

\* The caller has used the suspended thread: Resume(thread, false).  What the
\* debugger has suspended stays suspended.
Resume(t) ==
    /\ At(t, "sx_got")
    /\ Unlocked
    /\ IF how[t] = "debug"
       THEN UNCHANGED <<suspend_count, debug_suspend_count, aborted>>
       ELSE Modify(raised[t] \cap list, -1) /\ UNCHANGED debug_suspend_count
    /\ raised' = [raised EXCEPT ![t] = {}]
    /\ target' = [target EXCEPT ![t] = NoThread]
    /\ how' = [how EXCEPT ![t] = "id"]
    /\ token' = IF token = t THEN NoThread ELSE token
    /\ Goto(t, IF how[t] = "debug" THEN "native" ELSE "sx_bcast")
    /\ UNCHANGED <<all_counts, memory, closures, flow>>

\* Resume's second critical section: the broadcast
ResumeBroadcast(t) ==
    /\ At(t, "sx_bcast")
    /\ Unlocked
    /\ Broadcast(t, "native")
    /\ UNCHANGED <<others, flow>>
=============================================================================
