---------------------------- MODULE ThreadState -----------------------------
(***************************************************************************)
(* The state of the runtime's threads: the transitions of runtime/thread-  *)
(* inl.h, the suspend counts, checkpoints and flip functions of            *)
(* runtime/thread.cc, and how a thread joins and leaves ThreadList::list_. *)
(*                                                                         *)
(* A thread is Runnable, and holds a share of mutator_lock_, or is in one  *)
(* of the other states, which this model does not tell apart. Everything a *)
(* thread does to its own state word outside the two locks below is a step *)
(* of its own: the test of the flags, the change of mutator_lock_ and the  *)
(* CAS interleave with the steps of all other threads.                     *)
(*                                                                         *)
(* thread_list_lock_ and thread_suspend_count_lock_ are taken together. A  *)
(* critical section that never waits inside is one step; `lock' is the     *)
(* holder in the one that lasts longer (the loop of RunCheckpoint).        *)
(* kSuspendRequest is set exactly when suspend_count is not zero           *)
(* (ModifySuspendCount), kCheckpointRequest exactly when a checkpoint slot *)
(* is taken (RequestCheckpoint, RunCheckpointFunction): both pairs change  *)
(* together under thread_suspend_count_lock_.                              *)
(***************************************************************************)
EXTENDS Integers, Sequences, FiniteSets

CONSTANTS
    Threads,            \* native threads that may attach to the runtime
    Attached,           \* those that are attached at the start
    NoThread,           \* nullptr
    DebugThread,        \* the JDWP thread, or NoThread
    kMaxCheckpoints,    \* checkpoint slots of a thread
    MaxDebugSuspends,   \* bound: suspensions by the debugger that may nest
    Ops                 \* the operations that threads start in this instance

ASSUME ThreadListAssumption ==
    /\ IsFiniteSet(Threads)
    /\ NoThread \notin Threads
    /\ Attached \subseteq Threads
    /\ DebugThread \in Threads \cup {NoThread}
    /\ kMaxCheckpoints \in Nat \ {0}
    /\ MaxDebugSuspends \in Nat

VARIABLES
    list,           \* list_
    state,          \* state[t]: Runnable or Suspended (any other state)
    suspend_count, debug_suspend_count,
    suspend_all_count, debug_suspend_all_count,
    writer,         \* the exclusive holder of mutator_lock_
    readers,        \* the shared holders of mutator_lock_
    lock,           \* thread_list_lock_ and thread_suspend_count_lock_
    pc,             \* where each thread is
    ret,            \* where it goes after the state transition under way
    at_check,       \* suspended_at_suspend_check
    has_peer,       \* java.lang.Thread.nativePeer is set
    slots,          \* checkpoint_functions, by the thread that asked for them
    flip,           \* the thread whose flip_function is set, or NoThread
    target,         \* the thread that a thread is suspending ...
    how,            \* ... by its peer, by its id, or for the debugger
    raised,         \* raised[t]: threads whose suspend count t has to lower
    todo,           \* threads that t's loop over list_ has still to visit
    need, done,     \* history: who must run, who has run t's closure
    barrier,        \* t's Barrier
    expected,       \* what t will wait for at its barrier
    token,          \* the holder of the JDWP token
    aborted         \* a CHECK has failed or LOG(FATAL) was reached

all_counts   == <<suspend_all_count, debug_suspend_all_count>>
counts       == <<suspend_count, debug_suspend_count, all_counts>>
mutator_lock == <<writer, readers>>
identity     == <<list, has_peer>>
memory       == <<mutator_lock, identity, state, lock>>
progress     == <<need, done, barrier, expected, todo>>
closures     == <<slots, flip, progress>>
asking       == <<target, how, raised>>
flow         == <<ret, at_check>>
others       == <<counts, memory, closures, asking, token, aborted>>
vars         == <<others, flow, pc>>

SleepPcs == {"tr_sleep", "ds_sleep"}

\* Where a thread is Runnable, and where it holds a share without being so.
RunnablePcs == {"managed", "tr_flip", "ts_cas", "sx_try", "ex_peer",
                "ex_revoke", "dr_test", "dr_resume", "dr_bcast"}
SharePcs    == {"tr_cas", "tr_unlock", "ts_unlock", "fl_run"}

\* Between raising everybody's suspend count and lowering it again.
SuspendAllPcs == {"sa_lock", "sa_held", "ra_counts",
                  "fl_lock", "fl_held", "fl_counts"}

Pcs == RunnablePcs \cup SharePcs \cup SuspendAllPcs \cup SleepPcs \cup
       {"absent", "born", "native", "tr_check", "tr_recheck", "tr_lock",
        "sx_again", "sx_got", "sx_bcast", "ex_again", "ex_remove",
        "rc_loop", "rc_check", "rc_raise", "rc_run", "rc_lower", "rc_wait",
        "fl_shared", "fl_lower",
        "da_lock", "da_assert", "ds_raise", "ds_recheck", "db_bcast"}

Init ==
    /\ list = Attached
    /\ state = [t \in Threads |-> "Suspended"]
    /\ suspend_count = [t \in Threads |-> 0]
    /\ debug_suspend_count = [t \in Threads |-> 0]
    /\ suspend_all_count = 0
    /\ debug_suspend_all_count = 0
    /\ writer = NoThread
    /\ readers = {}
    /\ lock = NoThread
    /\ pc = [t \in Threads |-> IF t \in Attached THEN "native" ELSE "absent"]
    /\ ret = [t \in Threads |-> "native"]
    /\ at_check = [t \in Threads |-> FALSE]
    /\ has_peer = [t \in Threads |-> t \in Attached]
    /\ slots = [t \in Threads |-> <<>>]
    /\ flip = [t \in Threads |-> NoThread]
    /\ target = [t \in Threads |-> NoThread]
    /\ how = [t \in Threads |-> "id"]
    /\ raised = [t \in Threads |-> {}]
    /\ todo = [t \in Threads |-> {}]
    /\ need = [t \in Threads |-> {}]
    /\ done = [t \in Threads |-> {}]
    /\ barrier = [t \in Threads |-> 0]
    /\ expected = [t \in Threads |-> 0]
    /\ token = NoThread
    /\ aborted = FALSE
-----------------------------------------------------------------------------
(* Helpers. *)

IsSuspended(t) == state[t] # "Runnable" /\ suspend_count[t] > 0

At(t, p) == pc[t] = p

Goto(t, p) == pc' = [pc EXCEPT ![t] = p]

\* t moves on and calls TransitionFromSuspendedToRunnable or
\* TransitionFromRunnableToSuspended on the way.
CallToRunnable(t, next) == Goto(t, "tr_check") /\ ret' = [ret EXCEPT ![t] = next]
CallToSuspended(t, next) == Goto(t, "ts_cas") /\ ret' = [ret EXCEPT ![t] = next]

\* Mutant: nobody is woken.
BroadcastNone(t, p) == Goto(t, p)

\* resume_cond_->Broadcast after which t is at p.
Broadcast(t, p) ==
    pc' = [u \in Threads |-> IF u = t THEN p
                             ELSE IF pc[u] = "tr_sleep" THEN "tr_recheck"
                             ELSE IF pc[u] = "ds_sleep" THEN "ds_recheck"
                             ELSE pc[u]]

\* The critical section of both locks can be entered.
Unlocked == lock = NoThread

\* ModifySuspendCount(delta, for_debugger = false) for every thread in S.  A
\* count that is zero already cannot be lowered: the runtime aborts.
Modify(S, delta) ==
    LET bad == {u \in S : delta < 0 /\ suspend_count[u] <= 0} IN
    /\ suspend_count' = [u \in Threads |-> IF u \in S \ bad
                            THEN suspend_count[u] + delta
                            ELSE suspend_count[u]]
    /\ aborted' = (aborted \/ bad # {})

\* The same delta for every thread.
Always(delta) == [u \in Threads |-> delta]

\* ModifySuspendCount(delta[u], for_debugger = true) for every thread in S.
ModifyForDebugger(S, delta) ==
    LET bad == {u \in S : delta[u] < 0 /\ suspend_count[u] <= 0}
        sum(f) == [u \in Threads |-> IF u \in S \ bad THEN f[u] + delta[u]
                                                      ELSE f[u]]
    IN  /\ suspend_count' = sum(suspend_count)
        /\ debug_suspend_count' = sum(debug_suspend_count)
        /\ aborted' = (aborted \/ bad # {})
-----------------------------------------------------------------------------
(* Thread::TransitionFromSuspendedToRunnable. *)

\* The unlocked test of kSuspendRequest.
TrCheck(t) ==
    /\ At(t, "tr_check")
    /\ Goto(t, IF suspend_count[t] = 0 THEN "tr_lock" ELSE "tr_recheck")
    /\ UNCHANGED <<others, flow>>

\* The test under thread_suspend_count_lock_, which resume_cond_->Wait gives up.
TrRecheck(t) ==
    /\ At(t, "tr_recheck")
    /\ Unlocked
    /\ Goto(t, IF suspend_count[t] = 0 THEN "tr_lock" ELSE "tr_sleep")
    /\ UNCHANGED <<others, flow>>

\* mutator_lock_->SharedLock
TrLock(t) ==
    /\ At(t, "tr_lock")
    /\ writer = NoThread
    /\ readers' = readers \cup {t}
    /\ Goto(t, "tr_cas")
    /\ UNCHANGED <<counts, writer, identity, closures, asking, state, lock,
                   flow, token, aborted>>

\* Mutant: the flags are not part of what the CAS compares.
TrCasBlind(t) ==
    /\ At(t, "tr_cas")
    /\ Goto(t, "tr_flip")
    /\ state' = [state EXCEPT ![t] = "Runnable"]
    /\ UNCHANGED <<counts, mutator_lock, identity, closures, asking, lock,
                   flow, token, aborted>>

\* The CAS of state and flags: Runnable only if no suspend request is pending.
TrCas(t) ==
    /\ At(t, "tr_cas")
    /\ IF suspend_count[t] = 0
       THEN Goto(t, "tr_flip") /\ state' = [state EXCEPT ![t] = "Runnable"]
       ELSE Goto(t, "tr_unlock") /\ UNCHANGED state
    /\ UNCHANGED <<counts, mutator_lock, identity, closures, asking, lock,
                   flow, token, aborted>>

TrUnlock(t) ==
    /\ At(t, "tr_unlock")
    /\ readers' = readers \ {t}
    /\ Goto(t, "tr_check")
    /\ UNCHANGED <<counts, writer, identity, closures, asking, state, lock,
                   flow, token, aborted>>

\* Mutant: the thread leaves its flip function to the collector.
TrFlipNever(t) ==
    /\ At(t, "tr_flip")
    /\ at_check' = [at_check EXCEPT ![t] = FALSE]
    /\ Goto(t, ret[t])
    /\ UNCHANGED <<others, ret>>

\* GetFlipFunction()->Run(this): the flip function runs before anything else,
\* and passes the collector's barrier.  FullSuspendCheck ends here too.
TrFlip(t) ==
    /\ At(t, "tr_flip")
    /\ IF flip[t] = NoThread THEN UNCHANGED <<flip, done, barrier>>
       ELSE /\ flip' = [flip EXCEPT ![t] = NoThread]
            /\ done' = [done EXCEPT ![flip[t]] = @ \cup {t}]
            /\ barrier' = [barrier EXCEPT ![flip[t]] = @ - 1]
    /\ at_check' = [at_check EXCEPT ![t] = FALSE]
    /\ Goto(t, ret[t])
    /\ UNCHANGED <<counts, memory, slots, need, expected, todo, asking, ret,
                   token, aborted>>

(* Thread::TransitionFromRunnableToSuspended. *)

\* Every closure in t's slots runs; t is Runnable, so each passes its barrier.
RunClosures(t) ==
    LET asked == {slots[t][i] : i \in DOMAIN slots[t]}
        of(r) == {i \in DOMAIN slots[t] : slots[t][i] = r}
    IN  /\ done' = [r \in Threads |-> IF r \in asked THEN done[r] \cup {t}
                                                    ELSE done[r]]
        /\ barrier' = [r \in Threads |-> barrier[r] - Cardinality(of(r))]
        /\ UNCHANGED <<flip, need, expected, todo>>

\* Mutant: the closures stay in their slots.
RunCheckpointFunctionKeeps(t) ==
    Unlocked /\ slots[t] # <<>> /\ RunClosures(t) /\ UNCHANGED slots

\* RunCheckpointFunction takes the closures out of the slots and runs them.
RunCheckpointFunction(t) ==
    /\ Unlocked
    /\ slots[t] # <<>>
    /\ slots' = [slots EXCEPT ![t] = <<>>]
    /\ RunClosures(t)

\* Checkpoints first; only then may the thread appear suspended.
TsCheckpoint(t) ==
    /\ At(t, "ts_cas")
    /\ RunCheckpointFunction(t)
    /\ UNCHANGED <<counts, memory, asking, pc, flow, token, aborted>>

TsCas(t) ==
    /\ At(t, "ts_cas")
    /\ slots[t] = <<>>
    /\ state' = [state EXCEPT ![t] = "Suspended"]
    /\ Goto(t, "ts_unlock")
    /\ UNCHANGED <<counts, mutator_lock, identity, closures, asking, lock,
                   flow, token, aborted>>

\* mutator_lock_->SharedUnlock.  FullSuspendCheck goes straight back.
TsUnlock(t) ==
    /\ At(t, "ts_unlock")
    /\ readers' = readers \ {t}
    /\ IF at_check[t] THEN CallToRunnable(t, "managed")
                      ELSE Goto(t, ret[t]) /\ UNCHANGED ret
    /\ UNCHANGED <<counts, writer, identity, closures, asking, state, lock,
                   at_check, token, aborted>>
-----------------------------------------------------------------------------
(* A thread that runs managed or native code. *)

\* ScopedObjectAccess and the return from a JNI call.
Enter(t) ==
    /\ At(t, "native")
    /\ CallToRunnable(t, "managed")
    /\ UNCHANGED <<others, at_check>>

Leave(t) ==
    /\ At(t, "managed")
    /\ CallToSuspended(t, "native")
    /\ UNCHANGED <<others, at_check>>

\* Thread::CheckSuspend at a safepoint: a checkpoint, ...
CheckSuspendCheckpoint(t) ==
    /\ At(t, "managed")
    /\ RunCheckpointFunction(t)
    /\ UNCHANGED <<counts, memory, asking, pc, flow, token, aborted>>

\* ... or else FullSuspendCheck.
FullSuspendCheck(t) ==
    /\ At(t, "managed")
    /\ slots[t] = <<>>
    /\ suspend_count[t] > 0
    /\ at_check' = [at_check EXCEPT ![t] = TRUE]
    /\ CallToSuspended(t, "native")
    /\ UNCHANGED others

(* Thread::Create, ThreadList::Register, Thread::Destroy and Unregister. *)

\* The creator sets nativePeer before the new thread registers itself.
Create(t) ==
    /\ At(t, "absent")
    /\ has_peer' = [has_peer EXCEPT ![t] = TRUE]
    /\ Goto(t, "born")
    /\ UNCHANGED <<counts, mutator_lock, list, closures, asking, state, lock,
                   flow, token, aborted>>

\* Mutants: a new thread is not subject to suspensions that are under way, or
\* only to those of the collector.
InitialCountsZero(t) == UNCHANGED <<suspend_count, debug_suspend_count>>
InitialCountsNotDebug(t) ==
    /\ suspend_count' = [suspend_count EXCEPT ![t] = suspend_all_count]
    /\ UNCHANGED debug_suspend_count

\* A thread that attaches takes part in the suspensions that are under way.
InitialCounts(t) ==
    /\ suspend_count' = [suspend_count EXCEPT ![t] = suspend_all_count]
    /\ debug_suspend_count' =
          [debug_suspend_count EXCEPT ![t] = debug_suspend_all_count]

Register(t) ==
    /\ At(t, "born")
    /\ Unlocked
    /\ list' = list \cup {t}
    /\ InitialCounts(t)
    /\ Goto(t, "native")
    /\ UNCHANGED <<all_counts, mutator_lock, has_peer, state, lock, closures,
                   asking, flow, token, aborted>>

Exit(t) ==
    /\ At(t, "native")
    /\ "exit" \in Ops
    /\ t # DebugThread
    /\ CallToRunnable(t, "ex_peer")
    /\ UNCHANGED <<others, at_check>>

\* Destroy: nativePeer = 0
ExPeer(t) ==
    /\ At(t, "ex_peer")
    /\ has_peer' = [has_peer EXCEPT ![t] = FALSE]
    /\ CallToSuspended(t, "ex_again")
    /\ UNCHANGED <<counts, mutator_lock, list, closures, asking, state, lock,
                   at_check, token, aborted>>

\* Destroy's second ScopedObjectAccess: RevokeThreadLocalBuffers
ExAgain(t) ==
    /\ At(t, "ex_again")
    /\ CallToRunnable(t, "ex_revoke")
    /\ UNCHANGED <<others, at_check>>

ExRevoke(t) ==
    /\ At(t, "ex_revoke")
    /\ CallToSuspended(t, "ex_remove")
    /\ UNCHANGED <<others, at_check>>

\* Mutant: Unregister does not look whether the thread is suspended.
CanUnregisterAlways(t) == TRUE

\* Unregister retries while somebody keeps the thread suspended.
CanUnregister(t) == ~IsSuspended(t)

\* The Thread object is deleted with everything in it.
ExRemove(t) ==
    /\ At(t, "ex_remove")
    /\ Unlocked
    /\ CanUnregister(t)
    /\ list' = list \ {t}
    /\ debug_suspend_count' = [debug_suspend_count EXCEPT ![t] = 0]
    /\ flip' = [flip EXCEPT ![t] = NoThread]
    /\ Goto(t, "absent")
    /\ UNCHANGED <<suspend_count, all_counts, mutator_lock, has_peer, slots,
                   progress, asking, state, lock, flow, token, aborted>>
=============================================================================
