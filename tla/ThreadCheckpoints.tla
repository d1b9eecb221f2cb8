------------------------- MODULE ThreadCheckpoints --------------------------
(***************************************************************************)
(* Running a closure for every thread: RunCheckpoint,                      *)
(* RunCheckpointOnRunnableThreads and FlipThreadRoots of                   *)
(* runtime/thread_list.cc, with the Barrier that their callers wait at.    *)
(***************************************************************************)
EXTENDS ThreadSuspension

(* RunCheckpoint, RunCheckpointOnRunnableThreads and the caller's barrier. *)

\* The loop over list_ holds both locks.
RunCheckpoint(t) ==
    /\ At(t, "native")
    /\ "checkpoint" \in Ops
    /\ Unlocked
    /\ lock' = t
    /\ todo' = [todo EXCEPT ![t] = list \ {t}]
    /\ need' = [need EXCEPT ![t] = list]
    /\ Goto(t, "rc_loop")
    /\ UNCHANGED <<counts, mutator_lock, identity, slots, flip, done, barrier,
                   expected, asking, state, flow, token, aborted>>

\* RequestCheckpoint succeeds: the thread is Runnable and has a free slot.
CanRequest(u) == state[u] = "Runnable" /\ Len(slots[u]) < kMaxCheckpoints

\* Mutant: the request is not counted.
RcRequestUncounted(t) ==
    /\ At(t, "rc_loop")
    /\ \E u \in todo[t] :
          /\ CanRequest(u)
          /\ slots' = [slots EXCEPT ![u] = Append(@, t)]
          /\ todo' = [todo EXCEPT ![t] = @ \ {u}]
    /\ UNCHANGED <<counts, memory, flip, need, done, barrier, expected, asking,
                   pc, flow, token, aborted>>

RcRequest(t) ==
    /\ At(t, "rc_loop")
    /\ \E u \in todo[t] :
          /\ CanRequest(u)
          /\ slots' = [slots EXCEPT ![u] = Append(@, t)]
          /\ todo' = [todo EXCEPT ![t] = @ \ {u}]
    /\ expected' = [expected EXCEPT ![t] = @ + 1]
    /\ UNCHANGED <<counts, memory, flip, need, done, barrier, asking, pc, flow,
                   token, aborted>>

\* RequestCheckpoint fails ...
RcFail(t) ==
    /\ At(t, "rc_loop")
    /\ \E u \in todo[t] :
          /\ ~CanRequest(u)
          /\ target' = [target EXCEPT ![t] = u]
    /\ Goto(t, "rc_check")
    /\ UNCHANGED <<counts, memory, closures, how, raised, flow, token,
                   aborted>>

\* ... and is tried again if the thread is Runnable now ...
RcCheck(t) ==
    /\ At(t, "rc_check")
    /\ Goto(t, IF state[target[t]] = "Runnable" THEN "rc_loop" ELSE "rc_raise")
    /\ UNCHANGED <<others, flow>>

\* ... which it may be once more when its suspend count is raised.
RcRaise(t) ==
    /\ At(t, "rc_raise")
    /\ Modify({target[t]}, 1)
    /\ raised' = [raised EXCEPT ![t] = @ \cup {target[t]}]
    /\ todo' = [todo EXCEPT ![t] = @ \ {target[t]}]
    /\ Goto(t, "rc_loop")
    /\ UNCHANGED <<debug_suspend_count, all_counts, memory, slots, flip, need,
                   done, barrier, expected, target, how, flow, token>>

\* The locks are released and the closure runs on the caller.
RcSelf(t) ==
    /\ At(t, "rc_loop")
    /\ todo[t] = {}
    /\ lock' = NoThread
    /\ done' = [done EXCEPT ![t] = {t}]
    /\ Goto(t, "rc_run")
    /\ UNCHANGED <<counts, mutator_lock, identity, slots, flip, need, barrier,
                   expected, todo, asking, state, flow, token, aborted>>

\* The closure runs on behalf of a thread once that is suspended.
RcRun(t) ==
    /\ At(t, "rc_run")
    /\ \E u \in raised[t] :
          /\ IsSuspended(u)
          /\ done' = [done EXCEPT ![t] = @ \cup {u}]
          /\ target' = [target EXCEPT ![t] = u]
    /\ Goto(t, "rc_lower")
    /\ UNCHANGED <<counts, memory, slots, flip, need, barrier, expected, todo,
                   how, raised, flow, token, aborted>>

RcLower(t) ==
    /\ At(t, "rc_lower")
    /\ Unlocked
    /\ Modify({target[t]}, -1)
    /\ raised' = [raised EXCEPT ![t] = @ \ {target[t]}]
    /\ Goto(t, "rc_run")
    /\ UNCHANGED <<debug_suspend_count, all_counts, memory, closures, target,
                   how, flow, token>>

\* One broadcast for all, then Barrier::Increment with the number of requests.
RcBroadcast(t) ==
    /\ At(t, "rc_run")
    /\ raised[t] = {}
    /\ Unlocked
    /\ Broadcast(t, "rc_wait")
    /\ barrier' = [barrier EXCEPT ![t] = @ + expected[t]]
    /\ target' = [target EXCEPT ![t] = NoThread]
    /\ UNCHANGED <<counts, memory, slots, flip, need, done, expected, todo,
                   how, raised, flow, token, aborted>>

\* The profiler's samples: only threads that are Runnable.
RunCheckpointOnRunnableThreads(t) ==
    LET asked == {u \in list \ {t} : CanRequest(u)} IN
    /\ At(t, "native")
    /\ "sample" \in Ops
    /\ Unlocked
    /\ slots' = [u \in Threads |-> IF u \in asked THEN Append(slots[u], t)
                                                  ELSE slots[u]]
    /\ need' = [need EXCEPT ![t] = asked]
    /\ expected' = [expected EXCEPT ![t] = Cardinality(asked)]
    /\ barrier' = [barrier EXCEPT ![t] = @ + Cardinality(asked)]
    /\ Goto(t, "rc_wait")
    /\ UNCHANGED <<counts, memory, flip, done, todo, asking, flow, token,
                   aborted>>

\* Barrier::Increment returns when the count is zero.
BarrierWait(t) ==
    /\ At(t, "rc_wait")
    /\ barrier[t] = 0
    /\ need' = [need EXCEPT ![t] = {}]
    /\ done' = [done EXCEPT ![t] = {}]
    /\ expected' = [expected EXCEPT ![t] = 0]
    /\ how' = [how EXCEPT ![t] = "id"]
    /\ Goto(t, "native")
    /\ UNCHANGED <<counts, memory, slots, flip, barrier, todo, target, raised,
                   flow, token, aborted>>
-----------------------------------------------------------------------------
(* ThreadList::FlipThreadRoots, by the one collector that runs at a time; it *)
(* shares the steps on mutator_lock_ and the wait at the barrier. *)

FlipThreadRoots(t) ==
    /\ At(t, "native")
    /\ "flip" \in Ops
    /\ \A u \in Threads : how[u] # "flip"
    /\ how' = [how EXCEPT ![t] = "flip"]
    /\ Unlocked
    /\ suspend_all_count' = suspend_all_count + 1
    /\ Modify(list \ {t}, 1)
    /\ Goto(t, "fl_lock")
    /\ UNCHANGED <<debug_suspend_count, debug_suspend_all_count, memory,
                   closures, target, raised, flow, token>>

\* The number of flip functions that are going to run.
FlipCount(t) == Cardinality(list \ {t}) + 1

\* Threads stopped at a suspend check resume and flip themselves; the others
\* stay suspended until the collector has flipped them.
FlResume(t) ==
    LET peers == list \ {t} IN
    /\ At(t, "fl_counts")
    /\ Unlocked
    /\ suspend_all_count' = suspend_all_count - 1
    /\ flip' = [u \in Threads |-> IF u \in peers THEN t ELSE flip[u]]
    /\ Modify({u \in peers : at_check[u]}, -1)
    /\ raised' = [raised EXCEPT ![t] = {u \in peers : ~at_check[u]}]
    /\ need' = [need EXCEPT ![t] = list]
    /\ expected' = [expected EXCEPT ![t] = FlipCount(t)]
    /\ Broadcast(t, "fl_shared")
    /\ UNCHANGED <<debug_suspend_count, debug_suspend_all_count, memory, slots,
                   done, barrier, todo, target, how, flow, token>>

\* ReaderMutexLock mu(self, *Locks::mutator_lock_)
FlShared(t) ==
    /\ At(t, "fl_shared")
    /\ writer = NoThread
    /\ readers' = readers \cup {t}
    /\ Goto(t, "fl_run")
    /\ UNCHANGED <<counts, writer, identity, closures, asking, state, lock,
                   flow, token, aborted>>

\* The flip functions of the peers, each of which checks that its thread is
\* suspended, then the caller's own; SharedUnlock.
FlRun(t) ==
    LET set == {u \in raised[t] : flip[u] = t} IN
    /\ At(t, "fl_run")
    /\ flip' = [u \in Threads |-> IF u \in set THEN NoThread ELSE flip[u]]
    /\ done' = [done EXCEPT ![t] = @ \cup set \cup {t}]
    /\ barrier' = [barrier EXCEPT ![t] = @ - Cardinality(set) - 1]
    /\ aborted' = (aborted \/ \E u \in set : ~IsSuspended(u))
    /\ readers' = readers \ {t}
    /\ Goto(t, "fl_lower")
    /\ UNCHANGED <<counts, writer, identity, slots, need, expected, todo,
                   asking, state, lock, flow, token>>

FlLower(t) ==
    /\ At(t, "fl_lower")
    /\ Unlocked
    /\ Modify(raised[t], -1)
    /\ raised' = [raised EXCEPT ![t] = {}]
    /\ barrier' = [barrier EXCEPT ![t] = @ + expected[t]]
    /\ Broadcast(t, "rc_wait")
    /\ UNCHANGED <<debug_suspend_count, all_counts, memory, slots, flip, need,
                   done, expected, todo, target, how, flow, token>>
=============================================================================
