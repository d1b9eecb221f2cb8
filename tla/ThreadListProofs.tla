-------------------------- MODULE ThreadListProofs --------------------------
(***************************************************************************)
(* Proofs about ThreadList for any number of threads.                      *)
(***************************************************************************)
EXTENDS ThreadList, FiniteSetTheorems, TLAPS

ToRunnablePcs  == {"tr_check", "tr_recheck", "tr_sleep", "tr_lock", "tr_cas",
                   "tr_unlock", "tr_flip"}
ToSuspendedPcs == {"ts_cas", "ts_unlock"}

\* The part of the type invariant that mutator_lock_ depends on.
LockTypes ==
    /\ pc \in [Threads -> Pcs]
    /\ ret \in [Threads -> Pcs]
    /\ state \in [Threads -> {"Runnable", "Suspended"}]
    /\ writer \in Threads \cup {NoThread}
    /\ readers \subseteq Threads

\* A thread is Runnable exactly where the code assumes it is.
StateMatchesPc ==
    \A t \in Threads : state[t] = "Runnable" <=> pc[t] \in RunnablePcs

\* A thread holds a share exactly while it is Runnable or about to change
\* between Runnable and another state.
SharesMatchPc ==
    \A t \in Threads : t \in readers <=> pc[t] \in RunnablePcs \cup SharePcs

\* Shares and the exclusive lock exclude each other.
LockExcludes == writer # NoThread => readers = {}

\* A transition ends in the state that its caller asked for.
ReturnsMatch ==
    \A t \in Threads :
        /\ pc[t] \in ToRunnablePcs =>
              ret[t] \in {"managed", "sx_try", "ex_peer", "ex_revoke"}
        /\ pc[t] \in ToSuspendedPcs =>
              ret[t] \in {"native", "sx_again", "sx_got", "ex_again", "ex_remove"}

LockInv == LockTypes /\ StateMatchesPc /\ SharesMatchPc /\ LockExcludes /\ ReturnsMatch

\* Before anything happens every attached thread is in native code, and nobody
\* holds mutator_lock_.
LEMMA LockInvInit == Init => LockInv
BY ThreadListAssumption
   DEF Init, LockInv, LockTypes, StateMatchesPc, SharesMatchPc, LockExcludes,
       ReturnsMatch, Pcs, RunnablePcs, SharePcs, SuspendAllPcs, SleepPcs,
       ToRunnablePcs, ToSuspendedPcs

\* The sets of places that a proof step has to see through.
USE DEF LockInv, LockTypes, StateMatchesPc, SharesMatchPc, LockExcludes,
        ReturnsMatch, At, Goto

\* The lock-free transitions of thread-inl.h take and give back shares of
\* mutator_lock_ in step with the thread's state.
LEMMA TransitionKeepsLockInv ==
    ASSUME LockInv, NEW t \in Threads, Transition(t)
    PROVE  LockInv'
<1> USE DEF Pcs, RunnablePcs, SharePcs, SuspendAllPcs, SleepPcs,
            ToRunnablePcs, ToSuspendedPcs, others, memory, mutator_lock, flow
<1>1. CASE TrCheck(t)
  BY <1>1 DEF TrCheck
<1>2. CASE TrRecheck(t)
  BY <1>2 DEF TrRecheck
<1>3. CASE TrLock(t)
  BY <1>3 DEF TrLock
<1>4. CASE TrCas(t)
  BY <1>4 DEF TrCas
<1>5. CASE TrUnlock(t)
  BY <1>5 DEF TrUnlock
<1>6. CASE TrFlip(t)
  BY <1>6 DEF TrFlip
<1>7. CASE TsCheckpoint(t)
  BY <1>7 DEF TsCheckpoint
<1>8. CASE TsCas(t)
  BY <1>8 DEF TsCas
<1>9. CASE TsUnlock(t)
  BY <1>9 DEF TsUnlock, CallToRunnable
<1> QED BY <1>1, <1>2, <1>3, <1>4, <1>5, <1>6, <1>7, <1>8, <1>9 DEF Transition

\* What a thread starts of its own accord keeps the invariant: the operations
\* begin outside mutator_lock_, and none changes a state or a share.
LEMMA StartKeepsLockInv ==
    ASSUME LockInv, NEW t \in Threads, Start(t)
    PROVE  LockInv'
<1> USE DEF Pcs, RunnablePcs, SharePcs, SuspendAllPcs, SleepPcs,
            ToRunnablePcs, ToSuspendedPcs, others, memory, mutator_lock, flow
<1>1. CASE Create(t)
  BY <1>1 DEF Create
<1>2. CASE Enter(t)
  BY <1>2 DEF Enter, CallToRunnable
<1>3. CASE Leave(t)
  BY <1>3 DEF Leave, CallToSuspended
<1>4. CASE Exit(t)
  BY <1>4 DEF Exit, CallToRunnable
<1>5. CASE SuspendAll(t)
  BY <1>5 DEF SuspendAll
<1>6. CASE SuspendThread(t)
  BY <1>6 DEF SuspendThread, CallToRunnable
<1>7. CASE RunCheckpoint(t)
  BY <1>7 DEF RunCheckpoint
<1>8. CASE RunCheckpointOnRunnableThreads(t)
  BY <1>8 DEF RunCheckpointOnRunnableThreads
<1>9. CASE FlipThreadRoots(t)
  BY <1>9 DEF FlipThreadRoots
<1>10. CASE SuspendAllForDebugger(t)
  BY <1>10 DEF SuspendAllForDebugger
<1>11. CASE SuspendSelfForDebugger(t)
  BY <1>11 DEF SuspendSelfForDebugger
<1>12. CASE ResumeAllForDebugger(t)
  BY <1>12 DEF ResumeAllForDebugger
<1>13. CASE UndoDebuggerSuspensions(t)
  BY <1>13 DEF UndoDebuggerSuspensions
<1>14. CASE DbgResumeThread(t)
  BY <1>14 DEF DbgResumeThread
<1> QED BY <1>1, <1>2, <1>3, <1>4, <1>5, <1>6, <1>7, <1>8, <1>9, <1>10,
           <1>11, <1>12, <1>13, <1>14 DEF Start, Request

\* Safepoints, attaching and detaching, and taking mutator_lock_ exclusively in
\* SuspendAll keep the invariant.
LEMMA SuspendAllKeepsLockInv ==
    ASSUME LockInv, NEW t \in Threads, (Safepoint(t) \/ Register(t) \/ ExPeer(t) \/ ExAgain(t) \/ ExRevoke(t)
           \/ ExRemove(t) \/ ExclusiveLock(t) \/ ExclusiveUnlock(t) \/ ResumeAll(t))
    PROVE  LockInv'
<1> USE DEF Pcs, RunnablePcs, SharePcs, SuspendAllPcs, SleepPcs,
            ToRunnablePcs, ToSuspendedPcs, others, memory, mutator_lock, flow
<1>1. CASE CheckSuspendCheckpoint(t)
  BY <1>1 DEF CheckSuspendCheckpoint
<1>2. CASE FullSuspendCheck(t)
  BY <1>2 DEF FullSuspendCheck, CallToSuspended
<1>3. CASE Register(t)
  BY <1>3 DEF Register
<1>4. CASE ExPeer(t)
  BY <1>4 DEF ExPeer, CallToSuspended
<1>5. CASE ExAgain(t)
  BY <1>5 DEF ExAgain, CallToRunnable
<1>6. CASE ExRevoke(t)
  BY <1>6 DEF ExRevoke, CallToSuspended
<1>7. CASE ExRemove(t)
  BY <1>7 DEF ExRemove
<1>8. CASE ExclusiveLock(t)
  BY <1>8 DEF ExclusiveLock, CanLockExclusive
<1>9. CASE ExclusiveUnlock(t)
  BY <1>9 DEF ExclusiveUnlock
<1>10. CASE ResumeAll(t)
  BY <1>10 DEF ResumeAll, Broadcast
<1> QED BY <1>1, <1>2, <1>3, <1>4, <1>5, <1>6, <1>7, <1>8, <1>9, <1>10 DEF
           Safepoint

\* SuspendThreadByPeer, SuspendThreadByThreadId and Resume touch the lock only
\* through the transitions they call.
LEMMA SuspendThreadKeepsLockInv ==
    ASSUME LockInv, NEW t \in Threads, (SxGone(t) \/ SxUnattached(t) \/ SxYield(t) \/ SxRaise(t) \/
           SxPoll(t) \/ SxTimeout(t) \/ SxAgain(t) \/ Resume(t) \/
           ResumeBroadcast(t))
    PROVE  LockInv'
<1> USE DEF Pcs, RunnablePcs, SharePcs, SuspendAllPcs, SleepPcs,
            ToRunnablePcs, ToSuspendedPcs, others, memory, mutator_lock, flow
<1>1. CASE SxGone(t)
  BY <1>1 DEF SxGone, SxReturn, CallToSuspended
<1>2. CASE SxUnattached(t)
  BY <1>2 DEF SxUnattached, SxReturn, CallToSuspended
<1>3. CASE SxYield(t)
  BY <1>3 DEF SxYield, CallToSuspended
<1>4. CASE SxRaise(t)
  BY <1>4 DEF SxRaise, SxAwait, CallToSuspended
<1>5. CASE SxPoll(t)
  BY <1>5 DEF SxPoll, SxAwait, CallToSuspended
<1>6. CASE SxTimeout(t)
  BY <1>6 DEF SxTimeout, SxReturn, CallToSuspended
<1>7. CASE SxAgain(t)
  BY <1>7 DEF SxAgain, CallToRunnable
<1>8. CASE Resume(t)
  BY <1>8 DEF Resume
<1>9. CASE ResumeBroadcast(t)
  BY <1>9 DEF ResumeBroadcast, Broadcast
<1> QED BY <1>1, <1>2, <1>3, <1>4, <1>5, <1>6, <1>7, <1>8, <1>9 DEF LockInv

\* RunCheckpoint and FlipThreadRoots, which takes the lock exclusively and then
\* shares it, keep the invariant.
LEMMA CheckpointKeepsLockInv ==
    ASSUME LockInv, NEW t \in Threads, (RcRequest(t) \/ RcFail(t) \/ RcCheck(t) \/ RcRaise(t) \/
           RcSelf(t) \/ RcRun(t) \/ RcLower(t) \/ RcBroadcast(t) \/
           BarrierWait(t) \/ FlResume(t) \/ FlShared(t) \/ FlRun(t) \/
           FlLower(t))
    PROVE  LockInv'
<1> USE DEF Pcs, RunnablePcs, SharePcs, SuspendAllPcs, SleepPcs,
            ToRunnablePcs, ToSuspendedPcs, others, memory, mutator_lock, flow
<1>1. CASE RcRequest(t)
  BY <1>1 DEF RcRequest
<1>2. CASE RcFail(t)
  BY <1>2 DEF RcFail
<1>3. CASE RcCheck(t)
  BY <1>3 DEF RcCheck
<1>4. CASE RcRaise(t)
  BY <1>4 DEF RcRaise
<1>5. CASE RcSelf(t)
  BY <1>5 DEF RcSelf
<1>6. CASE RcRun(t)
  BY <1>6 DEF RcRun
<1>7. CASE RcLower(t)
  BY <1>7 DEF RcLower
<1>8. CASE RcBroadcast(t)
  BY <1>8 DEF RcBroadcast, Broadcast
<1>9. CASE BarrierWait(t)
  BY <1>9 DEF BarrierWait
<1>10. CASE FlResume(t)
  BY <1>10 DEF FlResume, Broadcast
<1>11. CASE FlShared(t)
  BY <1>11 DEF FlShared
<1>12. CASE FlRun(t)
  BY <1>12 DEF FlRun
<1>13. CASE FlLower(t)
  BY <1>13 DEF FlLower, Broadcast
<1> QED BY <1>1, <1>2, <1>3, <1>4, <1>5, <1>6, <1>7, <1>8, <1>9, <1>10,
           <1>11, <1>12, <1>13 DEF LockInv

\* The debugger's operations, SuspendAllForDebugger's exclusive lock included,
\* keep the invariant.
LEMMA DebuggerKeepsLockInv ==
    ASSUME LockInv, NEW t \in Threads, (DaLock(t) \/ DaAssert(t) \/ DsRaise(t) \/ DsRecheck(t) \/
           DbBroadcast(t) \/ DrTest(t) \/ DrResume(t) \/ DrBroadcast(t))
    PROVE  LockInv'
<1> USE DEF Pcs, RunnablePcs, SharePcs, SuspendAllPcs, SleepPcs,
            ToRunnablePcs, ToSuspendedPcs, others, memory, mutator_lock, flow
<1>1. CASE DaLock(t)
  BY <1>1 DEF DaLock
<1>2. CASE DaAssert(t)
  BY <1>2 DEF DaAssert
<1>3. CASE DsRaise(t)
  BY <1>3 DEF DsRaise
<1>4. CASE DsRecheck(t)
  BY <1>4 DEF DsRecheck
<1>5. CASE DbBroadcast(t)
  BY <1>5 DEF DbBroadcast, Broadcast
<1>6. CASE DrTest(t)
  BY <1>6 DEF DrTest
<1>7. CASE DrResume(t)
  BY <1>7 DEF DrResume
<1>8. CASE DrBroadcast(t)
  BY <1>8 DEF DrBroadcast, Broadcast
<1> QED BY <1>1, <1>2, <1>3, <1>4, <1>5, <1>6, <1>7, <1>8 DEF LockInv

\* Every step of every thread keeps the invariant.
LEMMA LockInvNext == LockInv /\ [Next]_vars => LockInv'
<1> SUFFICES ASSUME LockInv, [Next]_vars PROVE LockInv'
  OBVIOUS
<1>1. CASE UNCHANGED vars
  BY <1>1 DEF vars, others, memory, mutator_lock, flow
<1>2. ASSUME NEW t \in Threads, Start(t) PROVE LockInv'
  BY <1>2, StartKeepsLockInv
<1>3. ASSUME NEW t \in Threads, Continue(t) PROVE LockInv'
  BY <1>3, TransitionKeepsLockInv, SuspendAllKeepsLockInv,
     SuspendThreadKeepsLockInv, CheckpointKeepsLockInv, DebuggerKeepsLockInv
     DEF Continue
<1> QED BY <1>1, <1>2, <1>3 DEF Next

\* For any number of threads and whatever operations they mix: while a thread
\* holds mutator_lock_ exclusively, no thread is Runnable.
THEOREM StopTheWorldHolds == Spec => []StopTheWorld
<1>1. LockInv => StopTheWorld
  BY DEF StopTheWorld
<1> QED BY <1>1, LockInvInit, LockInvNext, PTL DEF Spec
----------------------------------------------------------------------------
(* Suspend counts.  Dbg::ResumeThread takes back whatever suspension it      *)
(* finds, so it is left out, or nobody but the debugger suspends threads.    *)

OnlyDebuggerSuspends ==
    "debug_resume" \in Ops => Ops \cap {"suspend_all", "peer", "id", "checkpoint", "flip"} = {}

\* The places inside the operations of a thread.
TransitionPcs == ToRunnablePcs \cup ToSuspendedPcs
LoopPcs == {"rc_loop", "rc_check", "rc_raise"}
CheckpointPcs == LoopPcs \cup {"rc_run", "rc_lower"}
FlippingPcs == {"fl_shared", "fl_run", "fl_lower"}
PausePcs == {"sa_held", "ra_counts", "fl_held", "fl_counts"}
DebugAllPcs == {"da_lock", "da_assert"}
DebugResumePcs == {"dr_test", "dr_resume", "dr_bcast"}

\* t is in SuspendThreadBy... until Resume, and has its target suspended.
IsSuspender(t) ==
    \/ pc[t] \in {"sx_try", "sx_again", "sx_got"}
    \/ pc[t] \in TransitionPcs /\ ret[t] \in {"sx_try", "sx_again", "sx_got"}
HasSuspended(t) == pc[t] = "sx_got" \/ (pc[t] \in TransitionPcs /\ ret[t] = "sx_got")

\* Types: who is listed, what threads ask for and which places they come from.
PlaceTypes ==
    /\ list \subseteq Threads
    /\ lock \in Threads \cup {NoThread}
    /\ at_check \in [Threads -> BOOLEAN]
    /\ target \in [Threads -> Threads \cup {NoThread}]
    /\ how \in [Threads -> {"peer", "id", "debug", "flip"}]
    /\ raised \in [Threads -> SUBSET Threads]
    /\ todo \in [Threads -> SUBSET Threads]
    /\ token \in Threads \cup {NoThread}
    /\ flip \in [Threads -> Threads \cup {NoThread}]

\* Types: the counters.
CounterTypes ==
    /\ suspend_count \in [Threads -> Nat]
    /\ debug_suspend_count \in [Threads -> Nat]
    /\ suspend_all_count \in Nat
    /\ debug_suspend_all_count \in Nat

\* Who is in list_.
Listed == \A t \in Threads : t \in list <=> pc[t] \notin {"absent", "born"}

\* Whose count t has raised, and where the code assumes it.
RaisedFits(t) ==
    /\ raised[t] # {} => IsSuspender(t) \/ pc[t] \in CheckpointPcs \cup FlippingPcs
    /\ IsSuspender(t) =>
          target[t] \in Threads \ {t} /\ raised[t] \subseteq {target[t]} /\ how[t] # "flip"
    /\ HasSuspended(t) => raised[t] = {target[t]}
    /\ pc[t] = "rc_lower" => target[t] \in raised[t]
    /\ pc[t] \in LoopPcs =>
          lock = t /\ todo[t] \subseteq list \ {t} /\ todo[t] \cap raised[t] = {}
    /\ pc[t] \in {"rc_check", "rc_raise"} => target[t] \in todo[t]

\* suspended_at_suspend_check is set only between the two transitions of FullSuspendCheck, and
\* the place that ret names is not stale while t suspends another thread.
FlowFits(t) ==
    /\ at_check[t] => \/ pc[t] \in ToSuspendedPcs /\ ret[t] = "native"
                      \/ pc[t] \in ToRunnablePcs /\ ret[t] = "managed"
    /\ ret[t] \in {"sx_try", "sx_again"} => pc[t] \in TransitionPcs \cup {"sx_try", "sx_again"}

\* What the holder of the JDWP token does.
TokenFits(t) ==
    /\ how[t] = "debug" => IsSuspender(t) /\ token = t
    /\ pc[t] \in DebugAllPcs \cup DebugResumePcs \cup {"ds_raise"} => token = t
    /\ pc[t] \in DebugResumePcs => "debug_resume" \in Ops /\ target[t] \in Threads

\* Only the debugger suspends where Dbg::ResumeThread is used.
Alone(t) ==
    "debug_resume" \in Ops =>
        /\ pc[t] \notin SuspendAllPcs \cup CheckpointPcs \cup FlippingPcs
        /\ IsSuspender(t) => how[t] = "debug"

\* A thread flips itself on its way to Runnable.
FlipFits(t) == pc[t] \in RunnablePcs \ {"tr_flip"} => flip[t] = NoThread

\* Whom t has stopped.
Stopped(t) ==
    /\ HasSuspended(t) \/ pc[t] = "rc_lower" => state[target[t]] = "Suspended"
    /\ pc[t] \in FlippingPcs => \A u \in raised[t] : state[u] = "Suspended"
    /\ pc[t] \in PausePcs => \A u \in list \ {t} : state[u] = "Suspended"
    /\ pc[t] = "da_assert" => \A u \in list \ {t, DebugThread} : state[u] = "Suspended"

\* The debugger's counts that its operations rely on.
DebugCounted(t) ==
    /\ how[t] = "debug" => \A u \in raised[t] : debug_suspend_count[u] > 0
    /\ pc[t] \in DebugAllPcs =>
          /\ debug_suspend_all_count > 0
          /\ \A u \in list \ {t, DebugThread} : debug_suspend_count[u] > 0
    /\ pc[t] = "dr_resume" => target[t] \in list /\ debug_suspend_count[target[t]] > 0

\* The counts: those of CountsMatchRequests, and of the threads outside list_.
Counted ==
    /\ CountsMatchRequests
    /\ \A u \in Threads \ list : suspend_count[u] = 0 /\ debug_suspend_count[u] = 0

\* What t has raised, where it is and what it holds fit together.
Fits(t) == RaisedFits(t) /\ FlowFits(t) /\ TokenFits(t) /\ Alone(t) /\ FlipFits(t)

\* The inductive invariant: the counts match the requests, and whoever has stopped a
\* thread finds it stopped.
CountInv ==
    /\ LockInv /\ PlaceTypes /\ CounterTypes /\ Listed /\ Counted
    /\ \A t \in Threads : Fits(t) /\ Stopped(t) /\ DebugCounted(t)

\* What a step of t leaves alone.
StepOf(t) ==
    /\ \A s \in Threads \ {t} :
          /\ pc'[s] # pc[s] => \/ pc[s] = "tr_sleep" /\ pc'[s] = "tr_recheck"
                               \/ pc[s] = "ds_sleep" /\ pc'[s] = "ds_recheck"
          /\ ret'[s] = ret[s] /\ state'[s] = state[s] /\ at_check'[s] = at_check[s]
          /\ target'[s] = target[s] /\ how'[s] = how[s] /\ raised'[s] = raised[s]
                 /\ todo'[s] = todo[s]
          /\ lock = s => lock' = s /\ list' = list
          /\ token = s => token' = s
          /\ flip'[s] # flip[s] => flip'[s] = NoThread \/ (pc[t] = "fl_counts" /\ s \in list)
    /\ \A s \in Threads \ {t} : s \in list' <=> s \in list
    /\ state'[t] = "Runnable" => state[t] = "Runnable" \/ (pc[t] = "tr_cas" /\ suspend_count[t] = 0)

HIDE DEF LockInv, LockTypes, StateMatchesPc, SharesMatchPc, LockExcludes, ReturnsMatch

\* One bit of a count, the pauses of the whole world and the other requests.
Bit(b) == IF b THEN 1 ELSE 0
InPause(t) == pc[t] \in SuspendAllPcs
Raises(t, u) == u \in raised[t] /\ how[t] # "debug"
Pauses == Cardinality({t \in Threads : pc[t] \in SuspendAllPcs})

\* Adding an element to a finite set, or removing one.
LEMMA SetMoves ==
  ASSUME NEW A, NEW B, NEW t, IsFiniteSet(A), IsFiniteSet(B), A \ {t} = B \ {t}
  PROVE  /\ Cardinality(A) \in Nat /\ Cardinality(B) \in Nat
         /\ Cardinality(B) = (Cardinality(A) - Bit(t \in A)) + Bit(t \in B)
<1> DEFINE C == A \ {t}
<1>1. IsFiniteSet(C) /\ Cardinality(C) \in Nat /\ Cardinality(A) \in Nat /\ Cardinality(B) \in Nat
  BY FS_Subset, FS_CardinalityType
<1>2. t \in A => Cardinality(C) = Cardinality(A) - 1
  BY FS_RemoveElement
<1>3. t \notin A => C = A
  OBVIOUS
<1>4. t \in B => Cardinality(C) = Cardinality(B) - 1
  BY FS_RemoveElement
<1>5. t \notin B => C = B
  OBVIOUS
<1> HIDE DEF C
<1> QED BY <1>1, <1>2, <1>3, <1>4, <1>5 DEF Bit

\* How a step of t changes the requests for u, and the number of pauses.
LEMMA RequestsMove ==
  ASSUME PlaceTypes, NEW t \in Threads, StepOf(t)
  PROVE  /\ \A u \in Threads :
              /\ OutstandingRequests(u) \in Nat /\ OutstandingRequests(u)' \in Nat
              /\ OutstandingRequests(u)' =
                   ((OutstandingRequests(u) - Bit(u # t /\ InPause(t))) + Bit(u # t /\ InPause(t)'))
                   + (Bit(Raises(t, u)') - Bit(Raises(t, u)))
         /\ Pauses \in Nat /\ Pauses' \in Nat
         /\ Pauses' = (Pauses - Bit(InPause(t))) + Bit(InPause(t)')
<1>1. \A s \in Threads \ {t} : (pc'[s] \in SuspendAllPcs <=> pc[s] \in SuspendAllPcs)
          /\ how'[s] = how[s] /\ raised'[s] = raised[s]
  BY DEF StepOf, SuspendAllPcs
<1>2. IsFiniteSet(Threads)
  BY ThreadListAssumption
<1>3. ASSUME NEW u \in Threads
      PROVE  /\ OutstandingRequests(u) \in Nat /\ OutstandingRequests(u)' \in Nat
             /\ OutstandingRequests(u)' =
                   ((OutstandingRequests(u) - Bit(u # t /\ InPause(t))) + Bit(u # t /\ InPause(t)'))
                   + (Bit(Raises(t, u)') - Bit(Raises(t, u)))
  <2> DEFINE A == {s \in Threads \ {u} : pc[s] \in SuspendAllPcs}
             A1 == {s \in Threads \ {u} : pc'[s] \in SuspendAllPcs}
             R == {s \in Threads : u \in raised[s] /\ how[s] # "debug"}
             R1 == {s \in Threads : u \in raised'[s] /\ how'[s] # "debug"}
  <2>1. IsFiniteSet(A) /\ IsFiniteSet(A1) /\ IsFiniteSet(R) /\ IsFiniteSet(R1)
    BY <1>2, FS_Subset
  <2>2. A \ {t} = A1 \ {t} /\ R \ {t} = R1 \ {t}
    BY <1>1
  <2>3. /\ (t \in A <=> u # t /\ InPause(t)) /\ (t \in A1 <=> u # t /\ InPause(t)')
        /\ (t \in R <=> Raises(t, u)) /\ (t \in R1 <=> Raises(t, u)')
    BY DEF InPause, Raises
  <2>4. OutstandingRequests(u) = Cardinality(A) + Cardinality(R)
            /\ OutstandingRequests(u)' = Cardinality(A1) + Cardinality(R1)
    BY DEF OutstandingRequests
  <2> HIDE DEF A, A1, R, R1
  <2>5. /\ Cardinality(A) \in Nat /\ Cardinality(A1) \in Nat
        /\ Cardinality(A1) = (Cardinality(A) - Bit(t \in A)) + Bit(t \in A1)
    BY <2>1, <2>2, SetMoves
  <2>6. /\ Cardinality(R) \in Nat /\ Cardinality(R1) \in Nat
        /\ Cardinality(R1) = (Cardinality(R) - Bit(t \in R)) + Bit(t \in R1)
    BY <2>1, <2>2, SetMoves
  <2> QED BY <2>3, <2>4, <2>5, <2>6 DEF Bit
<1>4. Pauses \in Nat /\ Pauses' \in Nat /\ Pauses' = (Pauses - Bit(InPause(t))) + Bit(InPause(t)')
  <2> DEFINE A == {s \in Threads : pc[s] \in SuspendAllPcs}
             A1 == {s \in Threads : pc'[s] \in SuspendAllPcs}
  <2>1. IsFiniteSet(A) /\ IsFiniteSet(A1)
    BY <1>2, FS_Subset
  <2>2. A \ {t} = A1 \ {t}
    BY <1>1
  <2>3. (t \in A <=> InPause(t)) /\ (t \in A1 <=> InPause(t)')
    BY DEF InPause
  <2>4. Pauses = Cardinality(A) /\ Pauses' = Cardinality(A1)
    BY DEF Pauses
  <2> HIDE DEF A, A1
  <2>5. /\ Cardinality(A) \in Nat /\ Cardinality(A1) \in Nat
        /\ Cardinality(A1) = (Cardinality(A) - Bit(t \in A)) + Bit(t \in A1)
    BY <2>1, <2>2, SetMoves
  <2> QED BY <2>3, <2>4, <2>5 DEF Bit
<1> QED BY <1>3, <1>4

\* The requests that a thread is subject to.
LEMMA RequestsAre ==
  ASSUME CountInv, NEW u \in Threads
  PROVE  /\ OutstandingRequests(u) \in Nat /\ Pauses \in Nat
         /\ \A s \in Threads : Raises(s, u) => OutstandingRequests(u) >= 1
         /\ \A s \in Threads : InPause(s) => Pauses >= 1
         /\ \A s \in Threads \ {u} : InPause(s) => OutstandingRequests(u) >= 1
<1> DEFINE A == {s \in Threads \ {u} : pc[s] \in SuspendAllPcs}
           R == {s \in Threads : u \in raised[s] /\ how[s] # "debug"}
           P == {s \in Threads : pc[s] \in SuspendAllPcs}
<1>1. IsFiniteSet(A) /\ IsFiniteSet(R) /\ IsFiniteSet(P)
  BY ThreadListAssumption, FS_Subset
<1>2. /\ Cardinality(A) \in Nat /\ Cardinality(R) \in Nat /\ Cardinality(P) \in Nat
      /\ (Cardinality(A) = 0 <=> A = {}) /\ (Cardinality(R) = 0 <=> R = {})
             /\ (Cardinality(P) = 0 <=> P = {})
  <2> HIDE DEF A, R, P
  <2> QED BY <1>1, FS_CardinalityType, FS_EmptySet
<1>3. OutstandingRequests(u) = Cardinality(A) + Cardinality(R) /\ Pauses = Cardinality(P)
  BY DEF OutstandingRequests, Pauses
<1>4. /\ \A s \in Threads : (Raises(s, u) => R # {}) /\ (InPause(s) => P # {})
      /\ \A s \in Threads \ {u} : InPause(s) => A # {}
  BY DEF Raises, InPause
<1> HIDE DEF A, R, P
<1> QED BY <1>2, <1>3, <1>4

\* A thread whose count is zero: nobody is suspending it.
LEMMA NobodySuspends ==
  ASSUME CountInv, NEW u \in list, suspend_count[u] = 0
  PROVE  /\ u \in Threads /\ debug_suspend_count[u] = 0 /\ OutstandingRequests(u) = 0
         /\ \A s \in Threads : /\ u \notin raised[s]
                               /\ s # u => pc[s] \notin SuspendAllPcs
                               /\ pc[s] \in DebugAllPcs => u \in {s, DebugThread}
<1>1. u \in Threads
  BY DEF CountInv, PlaceTypes
<1>2. OutstandingRequests(u) \in Nat /\ debug_suspend_count[u] \in Nat
      /\ suspend_count[u] - debug_suspend_count[u] = OutstandingRequests(u)
  BY <1>1, RequestsAre DEF CountInv, Counted, CountsMatchRequests, CounterTypes
<1>3. OutstandingRequests(u) = 0 /\ debug_suspend_count[u] = 0
  BY <1>2
<1>4. \A s \in Threads : ~Raises(s, u) /\ (s # u => ~InPause(s))
  BY <1>1, <1>3, RequestsAre
<1>5. \A s \in Threads : DebugCounted(s)
  BY DEF CountInv
<1> QED BY <1>1, <1>3, <1>4, <1>5 DEF Raises, InPause, DebugCounted

\* The places of the other threads.
LEMMA OthersFit ==
  ASSUME CountInv, NEW t \in Threads, StepOf(t), PlaceTypes', Fits(t)',
         t \in list' <=> pc'[t] \notin {"absent", "born"}, LockInv'
  PROVE  Listed' /\ \A s \in Threads : Fits(s)'
<1>1. \A s \in Threads \ {t} : s \in list' <=> pc'[s] \notin {"absent", "born"}
  BY DEF CountInv, StepOf, Listed
<1>2. Listed'
  BY <1>1 DEF Listed
<1>3. ASSUME NEW s \in Threads, s # t PROVE Fits(s)'
  <2>1. /\ Fits(s) /\ Stopped(t) /\ (state[s] = "Runnable" <=> pc[s] \in RunnablePcs)
               /\ NoThread \notin Threads
        /\ PlaceTypes
    BY ThreadListAssumption DEF CountInv, LockInv, StateMatchesPc
  <2>2. IsSuspender(s)' <=> IsSuspender(s)
    BY <1>3 DEF StepOf, IsSuspender, TransitionPcs, ToRunnablePcs, ToSuspendedPcs
  <2>3. HasSuspended(s)' <=> HasSuspended(s)
    BY <1>3 DEF StepOf, HasSuspended, TransitionPcs, ToRunnablePcs, ToSuspendedPcs
  <2>4. RaisedFits(s)'
    BY <1>3, <2>1, <2>2, <2>3 DEF StepOf, Fits, RaisedFits, CheckpointPcs, LoopPcs, FlippingPcs
  <2>5. FlowFits(s)'
    BY <1>3, <2>1 DEF StepOf, Fits, FlowFits, TransitionPcs, ToRunnablePcs, ToSuspendedPcs
  <2>6. TokenFits(s)'
    BY <1>3, <2>1, <2>2 DEF StepOf, Fits, TokenFits, DebugAllPcs, DebugResumePcs
  <2>7. Alone(s)'
    BY <1>3, <2>1, <2>2 DEF StepOf, Fits, Alone, SuspendAllPcs, CheckpointPcs, LoopPcs, FlippingPcs
  <2>8. FlipFits(s)'
    BY <1>3, <2>1 DEF StepOf, Fits, FlipFits, Stopped, PausePcs, RunnablePcs
  <2> QED BY <2>4, <2>5, <2>6, <2>7, <2>8 DEF Fits
<1> QED BY <1>2, <1>3

\* Nobody that a thread has stopped runs again.
LEMMA OthersStopped ==
  ASSUME CountInv, NEW t \in Threads, StepOf(t), LockInv', PlaceTypes', Listed'
  PROVE  \A s \in Threads \ {t} : Stopped(s)'
<1> SUFFICES ASSUME NEW s \in Threads \ {t} PROVE Stopped(s)'
  OBVIOUS
<1>1. /\ Stopped(s) /\ RaisedFits(s) /\ PlaceTypes
             /\ state \in [Threads -> {"Runnable", "Suspended"}]
      /\ state' \in [Threads -> {"Runnable", "Suspended"}]
      /\ raised[s] \subseteq list /\ list \subseteq Threads
  BY DEF CountInv, LockInv, LockTypes, Fits, Counted, CountsMatchRequests, PlaceTypes
<1>2. \A u \in list : state[u] = "Suspended" /\ state'[u] = "Runnable" =>
         u = t /\ u \notin raised[s] /\ pc[s] \notin SuspendAllPcs /\ (pc[s] \in DebugAllPcs
             => u \in {s, DebugThread})
  <2> SUFFICES ASSUME NEW u \in list, state[u] = "Suspended", state'[u] = "Runnable"
               PROVE u = t /\ u \notin raised[s] /\ pc[s] \notin SuspendAllPcs
                   /\ (pc[s] \in DebugAllPcs => u \in {s, DebugThread})
    OBVIOUS
  <2>1. u = t /\ suspend_count[u] = 0
    BY <1>1 DEF StepOf
  <2> QED BY <2>1, NobodySuspends
<1>3. \A u \in list' : u \in list \/ (u = t /\ state'[u] = "Suspended")
  <2>1. \A u \in list' : u \in list \/ u = t
    BY DEF StepOf, PlaceTypes
  <2>2. t \notin list => state'[t] = "Suspended"
    <3>1. t \notin list => pc[t] \in {"absent", "born"} /\ state[t] = "Suspended"
      BY <1>1 DEF CountInv, Listed, LockInv, StateMatchesPc, RunnablePcs
    <3> QED BY <1>1, <3>1 DEF StepOf
  <2> QED BY <2>1, <2>2
<1>4. (HasSuspended(s)' <=> HasSuspended(s)) /\ target'[s] = target[s] /\ raised'[s] = raised[s]
      /\ \A S \in {FlippingPcs, PausePcs, {"rc_lower"}, {"da_assert"}} : pc'[s] \in S
             <=> pc[s] \in S
  BY DEF StepOf, HasSuspended, TransitionPcs, ToRunnablePcs, ToSuspendedPcs, FlippingPcs, PausePcs
<1>5. HasSuspended(s) \/ pc[s] = "rc_lower" => target[s] \in raised[s]
  BY <1>1 DEF RaisedFits
<1>6. PausePcs \subseteq SuspendAllPcs /\ "da_assert" \in DebugAllPcs
  BY DEF PausePcs, SuspendAllPcs, DebugAllPcs
<1>7. /\ HasSuspended(s)' \/ pc'[s] = "rc_lower" => state'[target'[s]] = "Suspended"
      /\ pc'[s] \in FlippingPcs => \A u \in raised'[s] : state'[u] = "Suspended"
  BY <1>1, <1>2, <1>4, <1>5 DEF Stopped
<1>8. pc'[s] \in PausePcs => \A u \in list' \ {s} : state'[u] = "Suspended"
  BY <1>1, <1>2, <1>3, <1>4, <1>6 DEF Stopped
<1>9. pc'[s] = "da_assert" => \A u \in list' \ {s, DebugThread} : state'[u] = "Suspended"
  BY <1>1, <1>2, <1>3, <1>4, <1>6 DEF Stopped
<1> QED BY <1>7, <1>8, <1>9 DEF Stopped

\* What is known of the thread that takes a step.
OwnPlace(t) ==
    /\ PlaceTypes /\ Fits(t) /\ NoThread \notin Threads
    /\ pc \in [Threads -> Pcs] /\ ret \in [Threads -> Pcs]
    /\ state \in [Threads -> {"Runnable", "Suspended"}]
    /\ t \in list <=> pc[t] \notin {"absent", "born"}
    /\ state[t] = "Runnable" <=> pc[t] \in RunnablePcs
    /\ pc[t] \in ToRunnablePcs => ret[t] \in {"managed", "sx_try", "ex_peer", "ex_revoke"}
    /\ pc[t] \in ToSuspendedPcs =>
          ret[t] \in {"native", "sx_again", "sx_got", "ex_again", "ex_remove"}

\* The invariant says so.
LEMMA OwnPlaceHolds ==
    ASSUME CountInv, NEW t \in Threads
    PROVE  OwnPlace(t)
  BY ThreadListAssumption
     DEF OwnPlace, CountInv, Listed, LockInv, LockTypes, StateMatchesPc, ReturnsMatch

\* A thread that starts an operation keeps its place.
LEMMA StartPlaces ==
    ASSUME OnlyDebuggerSuspends, CountInv, NEW t \in Threads,
           Start(t)
    PROVE  PlaceTypes' /\ StepOf(t) /\ Fits(t)' /\ (t \in list'
        <=> pc'[t] \notin {"absent", "born"})
<1>0. OwnPlace(t)
  BY OwnPlaceHolds
<1> USE <1>0 DEF OwnPlace, PlaceTypes, StepOf, Fits, RaisedFits, FlowFits, TokenFits, Alone,
        FlipFits,
            IsSuspender, HasSuspended, OnlyDebuggerSuspends, TransitionPcs, LoopPcs,
            CheckpointPcs, FlippingPcs, PausePcs, DebugAllPcs, DebugResumePcs,
            RunnablePcs, SharePcs, SuspendAllPcs, ToRunnablePcs, ToSuspendedPcs,
            others, memory, mutator_lock, flow, closures, progress, asking, counts,
            all_counts, identity, Unlocked, At, Goto
<1>1. CASE Create(t)
  BY <1>1 DEF Create
<1>2. CASE Enter(t)
  BY <1>2 DEF Enter, CallToRunnable
<1>3. CASE Leave(t)
  BY <1>3 DEF Leave, CallToSuspended
<1>4. CASE Exit(t)
  BY <1>4 DEF Exit, CallToRunnable
<1>5. CASE SuspendAll(t)
  BY <1>5 DEF SuspendAll
<1>6. CASE SuspendThread(t)
  BY <1>6 DEF SuspendThread, CallToRunnable
<1>7. CASE RunCheckpoint(t)
  BY <1>7 DEF RunCheckpoint
<1>8. CASE RunCheckpointOnRunnableThreads(t)
  BY <1>8 DEF RunCheckpointOnRunnableThreads
<1>9. CASE FlipThreadRoots(t)
  BY <1>9 DEF FlipThreadRoots
<1>10. CASE SuspendAllForDebugger(t)
  BY <1>10 DEF SuspendAllForDebugger, DebuggerIsFree
<1>11. CASE SuspendSelfForDebugger(t)
  BY <1>11 DEF SuspendSelfForDebugger, DebuggerIsFree
<1>12. CASE ResumeAllForDebugger(t)
  BY <1>12 DEF ResumeAllForDebugger, DebuggerIsFree
<1>13. CASE UndoDebuggerSuspensions(t)
  BY <1>13 DEF UndoDebuggerSuspensions, DebuggerIsFree
<1>14. CASE DbgResumeThread(t)
  BY <1>14 DEF DbgResumeThread, DebuggerIsFree
<1> QED BY <1>1, <1>2, <1>3, <1>4, <1>5, <1>6, <1>7, <1>8, <1>9, <1>10, <1>11, <1>12, <1>13,
        <1>14 DEF Start, Request

\* So does one in a transition between Runnable and Suspended, ...
LEMMA TransitionPlaces ==
    ASSUME OnlyDebuggerSuspends, CountInv, NEW t \in Threads,
           (TrCheck(t) \/ TrRecheck(t) \/ TrLock(t) \/ TrCas(t) \/ TrUnlock(t) \/
            TrFlip(t) \/ TsCheckpoint(t) \/ TsCas(t) \/ TsUnlock(t))
    PROVE  PlaceTypes' /\ StepOf(t) /\ Fits(t)' /\ (t \in list'
        <=> pc'[t] \notin {"absent", "born"})
<1>0. OwnPlace(t)
  BY OwnPlaceHolds
<1> USE <1>0 DEF OwnPlace, PlaceTypes, StepOf, Fits, RaisedFits, FlowFits, TokenFits, Alone,
        FlipFits,
            IsSuspender, HasSuspended, OnlyDebuggerSuspends, TransitionPcs, LoopPcs,
            CheckpointPcs, FlippingPcs, PausePcs, DebugAllPcs, DebugResumePcs,
            RunnablePcs, SharePcs, SuspendAllPcs, ToRunnablePcs, ToSuspendedPcs,
            others, memory, mutator_lock, flow, closures, progress, asking, counts,
            all_counts, identity, Unlocked, At, Goto
<1>1. CASE TrCheck(t)
  BY <1>1 DEF TrCheck
<1>2. CASE TrRecheck(t)
  BY <1>2 DEF TrRecheck
<1>3. CASE TrLock(t)
  BY <1>3 DEF TrLock
<1>4. CASE TrCas(t)
  BY <1>4 DEF TrCas
<1>5. CASE TrUnlock(t)
  BY <1>5 DEF TrUnlock
<1>6. CASE TrFlip(t)
  BY <1>6 DEF TrFlip
<1>7. CASE TsCheckpoint(t)
  BY <1>7 DEF TsCheckpoint, RunCheckpointFunction, RunClosures
<1>8. CASE TsCas(t)
  BY <1>8 DEF TsCas
<1>9. CASE TsUnlock(t)
  BY <1>9 DEF TsUnlock, CallToRunnable
<1> QED BY <1>1, <1>2, <1>3, <1>4, <1>5, <1>6, <1>7, <1>8, <1>9

\* ... at a safepoint, attaching, detaching or stopping the world, ...
LEMMA SuspendAllPlaces ==
    ASSUME OnlyDebuggerSuspends, CountInv, NEW t \in Threads,
           (CheckSuspendCheckpoint(t) \/ FullSuspendCheck(t) \/ Register(t) \/
            ExPeer(t) \/ ExAgain(t) \/ ExRevoke(t) \/ ExRemove(t) \/ ExclusiveLock(t) \/
            ExclusiveUnlock(t) \/ ResumeAll(t))
    PROVE  PlaceTypes' /\ StepOf(t) /\ Fits(t)' /\ (t \in list'
        <=> pc'[t] \notin {"absent", "born"})
<1>0. OwnPlace(t)
  BY OwnPlaceHolds
<1> USE <1>0 DEF OwnPlace, PlaceTypes, StepOf, Fits, RaisedFits, FlowFits, TokenFits, Alone,
        FlipFits,
            IsSuspender, HasSuspended, OnlyDebuggerSuspends, TransitionPcs, LoopPcs,
            CheckpointPcs, FlippingPcs, PausePcs, DebugAllPcs, DebugResumePcs,
            RunnablePcs, SharePcs, SuspendAllPcs, ToRunnablePcs, ToSuspendedPcs,
            others, memory, mutator_lock, flow, closures, progress, asking, counts,
            all_counts, identity, Unlocked, At, Goto
<1>1. CASE CheckSuspendCheckpoint(t)
  BY <1>1 DEF CheckSuspendCheckpoint, RunCheckpointFunction, RunClosures
<1>2. CASE FullSuspendCheck(t)
  BY <1>2 DEF FullSuspendCheck, CallToSuspended
<1>3. CASE Register(t)
  BY <1>3 DEF Register
<1>4. CASE ExPeer(t)
  BY <1>4 DEF ExPeer, CallToSuspended
<1>5. CASE ExAgain(t)
  BY <1>5 DEF ExAgain, CallToRunnable
<1>6. CASE ExRevoke(t)
  BY <1>6 DEF ExRevoke, CallToSuspended
<1>7. CASE ExRemove(t)
  BY <1>7 DEF ExRemove
<1>8. CASE ExclusiveLock(t)
  BY <1>8 DEF ExclusiveLock, CanLockExclusive
<1>9. CASE ExclusiveUnlock(t)
  BY <1>9 DEF ExclusiveUnlock
<1>10. CASE ResumeAll(t)
  BY <1>10 DEF ResumeAll, Broadcast
<1> QED BY <1>1, <1>2, <1>3, <1>4, <1>5, <1>6, <1>7, <1>8, <1>9, <1>10

\* ... in SuspendThreadByPeer, SuspendThreadByThreadId or Resume, ...
LEMMA SuspendThreadPlaces ==
    ASSUME OnlyDebuggerSuspends, CountInv, NEW t \in Threads,
           (SxGone(t) \/ SxUnattached(t) \/ SxYield(t) \/ SxRaise(t) \/ SxPoll(t) \/
            SxTimeout(t) \/ SxAgain(t) \/ Resume(t) \/ ResumeBroadcast(t))
    PROVE  PlaceTypes' /\ StepOf(t) /\ Fits(t)' /\ (t \in list'
        <=> pc'[t] \notin {"absent", "born"})
<1>0. OwnPlace(t)
  BY OwnPlaceHolds
<1> USE <1>0 DEF OwnPlace, PlaceTypes, StepOf, Fits, RaisedFits, FlowFits, TokenFits, Alone,
        FlipFits,
            IsSuspender, HasSuspended, OnlyDebuggerSuspends, TransitionPcs, LoopPcs,
            CheckpointPcs, FlippingPcs, PausePcs, DebugAllPcs, DebugResumePcs,
            RunnablePcs, SharePcs, SuspendAllPcs, ToRunnablePcs, ToSuspendedPcs,
            others, memory, mutator_lock, flow, closures, progress, asking, counts,
            all_counts, identity, Unlocked, At, Goto
<1>1. CASE SxGone(t)
  BY <1>1 DEF SxGone, SxReturn, CallToSuspended
<1>2. CASE SxUnattached(t)
  BY <1>2 DEF SxUnattached, SxReturn, CallToSuspended
<1>3. CASE SxYield(t)
  BY <1>3 DEF SxYield, CallToSuspended
<1>4. CASE SxRaise(t)
  BY <1>4 DEF SxRaise, SxAwait, CallToSuspended
<1>5. CASE SxPoll(t)
  BY <1>5 DEF SxPoll, SxAwait, CallToSuspended
<1>6. CASE SxTimeout(t)
  BY <1>6 DEF SxTimeout, SxReturn, CallToSuspended
<1>7. CASE SxAgain(t)
  BY <1>7 DEF SxAgain, CallToRunnable
<1>8. CASE Resume(t)
  BY <1>8 DEF Resume
<1>9. CASE ResumeBroadcast(t)
  BY <1>9 DEF ResumeBroadcast, Broadcast
<1> QED BY <1>1, <1>2, <1>3, <1>4, <1>5, <1>6, <1>7, <1>8, <1>9

\* ... in RunCheckpoint or FlipThreadRoots, ...
LEMMA CheckpointPlaces ==
    ASSUME OnlyDebuggerSuspends, CountInv, NEW t \in Threads,
           (RcRequest(t) \/ RcFail(t) \/ RcCheck(t) \/ RcRaise(t) \/ RcSelf(t) \/
            RcRun(t) \/ RcLower(t) \/ RcBroadcast(t) \/ BarrierWait(t) \/ FlResume(t) \/
            FlShared(t) \/ FlRun(t) \/ FlLower(t))
    PROVE  PlaceTypes' /\ StepOf(t) /\ Fits(t)' /\ (t \in list'
        <=> pc'[t] \notin {"absent", "born"})
<1>0. OwnPlace(t)
  BY OwnPlaceHolds
<1> USE <1>0 DEF OwnPlace, PlaceTypes, StepOf, Fits, RaisedFits, FlowFits, TokenFits, Alone,
        FlipFits,
            IsSuspender, HasSuspended, OnlyDebuggerSuspends, TransitionPcs, LoopPcs,
            CheckpointPcs, FlippingPcs, PausePcs, DebugAllPcs, DebugResumePcs,
            RunnablePcs, SharePcs, SuspendAllPcs, ToRunnablePcs, ToSuspendedPcs,
            others, memory, mutator_lock, flow, closures, progress, asking, counts,
            all_counts, identity, Unlocked, At, Goto
<1>1. CASE RcRequest(t)
  BY <1>1 DEF RcRequest
<1>2. CASE RcFail(t)
  BY <1>2 DEF RcFail
<1>3. CASE RcCheck(t)
  BY <1>3 DEF RcCheck
<1>4. CASE RcRaise(t)
  BY <1>4 DEF RcRaise
<1>5. CASE RcSelf(t)
  BY <1>5 DEF RcSelf
<1>6. CASE RcRun(t)
  BY <1>6 DEF RcRun
<1>7. CASE RcLower(t)
  BY <1>7 DEF RcLower
<1>8. CASE RcBroadcast(t)
  BY <1>8 DEF RcBroadcast, Broadcast
<1>9. CASE BarrierWait(t)
  BY <1>9 DEF BarrierWait
<1>10. CASE FlResume(t)
  BY <1>10 DEF FlResume, Broadcast
<1>11. CASE FlShared(t)
  BY <1>11 DEF FlShared
<1>12. CASE FlRun(t)
  BY <1>12 DEF FlRun
<1>13. CASE FlLower(t)
  BY <1>13 DEF FlLower, Broadcast
<1> QED BY <1>1, <1>2, <1>3, <1>4, <1>5, <1>6, <1>7, <1>8, <1>9, <1>10, <1>11, <1>12, <1>13

\* ... and in an operation of the debugger.
LEMMA DebuggerPlaces ==
    ASSUME OnlyDebuggerSuspends, CountInv, NEW t \in Threads,
           (DaLock(t) \/ DaAssert(t) \/ DsRaise(t) \/ DsRecheck(t) \/ DbBroadcast(t) \/
            DrTest(t) \/ DrResume(t) \/ DrBroadcast(t))
    PROVE  PlaceTypes' /\ StepOf(t) /\ Fits(t)' /\ (t \in list'
        <=> pc'[t] \notin {"absent", "born"})
<1>0. OwnPlace(t)
  BY OwnPlaceHolds
<1> USE <1>0 DEF OwnPlace, PlaceTypes, StepOf, Fits, RaisedFits, FlowFits, TokenFits, Alone,
        FlipFits,
            IsSuspender, HasSuspended, OnlyDebuggerSuspends, TransitionPcs, LoopPcs,
            CheckpointPcs, FlippingPcs, PausePcs, DebugAllPcs, DebugResumePcs,
            RunnablePcs, SharePcs, SuspendAllPcs, ToRunnablePcs, ToSuspendedPcs,
            others, memory, mutator_lock, flow, closures, progress, asking, counts,
            all_counts, identity, Unlocked, At, Goto
<1>1. CASE DaLock(t)
  BY <1>1 DEF DaLock, CanLockExclusive
<1>2. CASE DaAssert(t)
  BY <1>2 DEF DaAssert
<1>3. CASE DsRaise(t)
  BY <1>3 DEF DsRaise
<1>4. CASE DsRecheck(t)
  BY <1>4 DEF DsRecheck
<1>5. CASE DbBroadcast(t)
  BY <1>5 DEF DbBroadcast, Broadcast
<1>6. CASE DrTest(t)
  BY <1>6 DEF DrTest
<1>7. CASE DrResume(t)
  BY <1>7 DEF DrResume
<1>8. CASE DrBroadcast(t)
  BY <1>8 DEF DrBroadcast, Broadcast
<1> QED BY <1>1, <1>2, <1>3, <1>4, <1>5, <1>6, <1>7, <1>8

\* Every step leaves its thread in a place that fits what it has raised.
LEMMA StepPlaces ==
    ASSUME OnlyDebuggerSuspends, CountInv, NEW t \in Threads, Start(t) \/ Continue(t)
    PROVE  PlaceTypes' /\ StepOf(t) /\ Fits(t)' /\ (t \in list'
        <=> pc'[t] \notin {"absent", "born"})
  BY StartPlaces, TransitionPlaces, SuspendAllPlaces, SuspendThreadPlaces, CheckpointPlaces,
      DebuggerPlaces
     DEF Continue, Transition, Safepoint

\* Whom a thread has stopped stays stopped when it starts an operation, ...
LEMMA StartStops ==
    ASSUME OnlyDebuggerSuspends, CountInv, NEW t \in Threads, LockInv', StepOf(t), PlaceTypes',
           Start(t)
    PROVE  Stopped(t)'
<1>0. OwnPlace(t) /\ Stopped(t) /\ (\A u \in Threads \ {t} : state'[u] = state[u])
      /\ (state'[t] = "Runnable" <=> pc'[t] \in RunnablePcs)
             /\ state' \in [Threads -> {"Runnable", "Suspended"}]
      /\ list \subseteq Threads /\ list' \subseteq Threads
             /\ raised' \in [Threads -> SUBSET Threads]
  BY OwnPlaceHolds DEF CountInv, LockInv, LockTypes, StateMatchesPc, StepOf, PlaceTypes
<1>a. \A u \in Threads : readers = {} => state[u] = "Suspended"
  BY DEF CountInv, LockInv, LockTypes, StateMatchesPc, SharesMatchPc
<1> USE <1>0 DEF OwnPlace, PlaceTypes, Fits, RaisedFits, Stopped,
            IsSuspender, HasSuspended, TransitionPcs, LoopPcs, CheckpointPcs, FlippingPcs,
            PausePcs, DebugAllPcs, DebugResumePcs,
            RunnablePcs, SharePcs, SuspendAllPcs, ToRunnablePcs, ToSuspendedPcs,
            others, memory, mutator_lock, flow, closures, progress, asking, counts,
            all_counts, identity, Unlocked, At, Goto
<1>1. CASE Create(t)
  BY <1>1 DEF Create
<1>2. CASE Enter(t)
  BY <1>2 DEF Enter, CallToRunnable
<1>3. CASE Leave(t)
  BY <1>3 DEF Leave, CallToSuspended
<1>4. CASE Exit(t)
  BY <1>4 DEF Exit, CallToRunnable
<1>5. CASE SuspendAll(t)
  BY <1>5 DEF SuspendAll
<1>6. CASE SuspendThread(t)
  BY <1>6 DEF SuspendThread, CallToRunnable
<1>7. CASE RunCheckpoint(t)
  BY <1>7 DEF RunCheckpoint
<1>8. CASE RunCheckpointOnRunnableThreads(t)
  BY <1>8 DEF RunCheckpointOnRunnableThreads
<1>9. CASE FlipThreadRoots(t)
  BY <1>9 DEF FlipThreadRoots
<1>10. CASE SuspendAllForDebugger(t)
  BY <1>10 DEF SuspendAllForDebugger, DebuggerIsFree
<1>11. CASE SuspendSelfForDebugger(t)
  BY <1>11 DEF SuspendSelfForDebugger, DebuggerIsFree
<1>12. CASE ResumeAllForDebugger(t)
  BY <1>12 DEF ResumeAllForDebugger, DebuggerIsFree
<1>13. CASE UndoDebuggerSuspensions(t)
  BY <1>13 DEF UndoDebuggerSuspensions, DebuggerIsFree
<1>14. CASE DbgResumeThread(t)
  BY <1>14 DEF DbgResumeThread, DebuggerIsFree
<1> QED BY <1>1, <1>2, <1>3, <1>4, <1>5, <1>6, <1>7, <1>8, <1>9, <1>10, <1>11, <1>12, <1>13,
        <1>14 DEF Start, Request

\* ... in its transitions, ...
LEMMA TransitionStops ==
    ASSUME OnlyDebuggerSuspends, CountInv, NEW t \in Threads, LockInv', StepOf(t), PlaceTypes',
           (TrCheck(t) \/ TrRecheck(t) \/ TrLock(t) \/ TrCas(t) \/ TrUnlock(t) \/
            TrFlip(t) \/ TsCheckpoint(t) \/ TsCas(t) \/ TsUnlock(t))
    PROVE  Stopped(t)'
<1>0. OwnPlace(t) /\ Stopped(t) /\ (\A u \in Threads \ {t} : state'[u] = state[u])
      /\ (state'[t] = "Runnable" <=> pc'[t] \in RunnablePcs)
             /\ state' \in [Threads -> {"Runnable", "Suspended"}]
      /\ list \subseteq Threads /\ list' \subseteq Threads
             /\ raised' \in [Threads -> SUBSET Threads]
  BY OwnPlaceHolds DEF CountInv, LockInv, LockTypes, StateMatchesPc, StepOf, PlaceTypes
<1>a. \A u \in Threads : readers = {} => state[u] = "Suspended"
  BY DEF CountInv, LockInv, LockTypes, StateMatchesPc, SharesMatchPc
<1> USE <1>0 DEF OwnPlace, PlaceTypes, Fits, RaisedFits, Stopped,
            IsSuspender, HasSuspended, TransitionPcs, LoopPcs, CheckpointPcs, FlippingPcs,
            PausePcs, DebugAllPcs, DebugResumePcs,
            RunnablePcs, SharePcs, SuspendAllPcs, ToRunnablePcs, ToSuspendedPcs,
            others, memory, mutator_lock, flow, closures, progress, asking, counts,
            all_counts, identity, Unlocked, At, Goto
<1>1. CASE TrCheck(t)
  BY <1>1 DEF TrCheck
<1>2. CASE TrRecheck(t)
  BY <1>2 DEF TrRecheck
<1>3. CASE TrLock(t)
  BY <1>3 DEF TrLock
<1>4. CASE TrCas(t)
  BY <1>4 DEF TrCas
<1>5. CASE TrUnlock(t)
  BY <1>5 DEF TrUnlock
<1>6. CASE TrFlip(t)
  BY <1>6 DEF TrFlip
<1>7. CASE TsCheckpoint(t)
  BY <1>7 DEF TsCheckpoint, RunCheckpointFunction, RunClosures
<1>8. CASE TsCas(t)
  BY <1>8 DEF TsCas
<1>9. CASE TsUnlock(t)
  BY <1>9 DEF TsUnlock, CallToRunnable
<1> QED BY <1>1, <1>2, <1>3, <1>4, <1>5, <1>6, <1>7, <1>8, <1>9

\* ... when it attaches, detaches or has stopped the world: once it holds mutator_lock_
\* exclusively, nobody is Runnable, ...
LEMMA SuspendAllStops ==
    ASSUME OnlyDebuggerSuspends, CountInv, NEW t \in Threads, LockInv', StepOf(t), PlaceTypes',
           (CheckSuspendCheckpoint(t) \/ FullSuspendCheck(t) \/ Register(t) \/
            ExPeer(t) \/ ExAgain(t) \/ ExRevoke(t) \/ ExRemove(t) \/ ExclusiveLock(t) \/
            ExclusiveUnlock(t) \/ ResumeAll(t))
    PROVE  Stopped(t)'
<1>0. OwnPlace(t) /\ Stopped(t) /\ (\A u \in Threads \ {t} : state'[u] = state[u])
      /\ (state'[t] = "Runnable" <=> pc'[t] \in RunnablePcs)
             /\ state' \in [Threads -> {"Runnable", "Suspended"}]
      /\ list \subseteq Threads /\ list' \subseteq Threads
             /\ raised' \in [Threads -> SUBSET Threads]
  BY OwnPlaceHolds DEF CountInv, LockInv, LockTypes, StateMatchesPc, StepOf, PlaceTypes
<1>a. \A u \in Threads : readers = {} => state[u] = "Suspended"
  BY DEF CountInv, LockInv, LockTypes, StateMatchesPc, SharesMatchPc
<1> USE <1>0 DEF OwnPlace, PlaceTypes, Fits, RaisedFits, Stopped,
            IsSuspender, HasSuspended, TransitionPcs, LoopPcs, CheckpointPcs, FlippingPcs,
            PausePcs, DebugAllPcs, DebugResumePcs,
            RunnablePcs, SharePcs, SuspendAllPcs, ToRunnablePcs, ToSuspendedPcs,
            others, memory, mutator_lock, flow, closures, progress, asking, counts,
            all_counts, identity, Unlocked, At, Goto
<1>1. CASE CheckSuspendCheckpoint(t)
  BY <1>1 DEF CheckSuspendCheckpoint, RunCheckpointFunction, RunClosures
<1>2. CASE FullSuspendCheck(t)
  BY <1>2 DEF FullSuspendCheck, CallToSuspended
<1>3. CASE Register(t)
  BY <1>3 DEF Register
<1>4. CASE ExPeer(t)
  BY <1>4 DEF ExPeer, CallToSuspended
<1>5. CASE ExAgain(t)
  BY <1>5 DEF ExAgain, CallToRunnable
<1>6. CASE ExRevoke(t)
  BY <1>6 DEF ExRevoke, CallToSuspended
<1>7. CASE ExRemove(t)
  BY <1>7 DEF ExRemove
<1>8. CASE ExclusiveLock(t)
  BY <1>8, <1>a DEF ExclusiveLock, CanLockExclusive
<1>9. CASE ExclusiveUnlock(t)
  BY <1>9 DEF ExclusiveUnlock
<1>10. CASE ResumeAll(t)
  BY <1>10 DEF ResumeAll, Broadcast
<1> QED BY <1>1, <1>2, <1>3, <1>4, <1>5, <1>6, <1>7, <1>8, <1>9, <1>10

\* ... when it has seen IsSuspended of its target, ...
LEMMA SuspendThreadStops ==
    ASSUME OnlyDebuggerSuspends, CountInv, NEW t \in Threads, LockInv', StepOf(t), PlaceTypes',
           (SxGone(t) \/ SxUnattached(t) \/ SxYield(t) \/ SxRaise(t) \/ SxPoll(t) \/
            SxTimeout(t) \/ SxAgain(t) \/ Resume(t) \/ ResumeBroadcast(t))
    PROVE  Stopped(t)'
<1>0. OwnPlace(t) /\ Stopped(t) /\ (\A u \in Threads \ {t} : state'[u] = state[u])
      /\ (state'[t] = "Runnable" <=> pc'[t] \in RunnablePcs)
             /\ state' \in [Threads -> {"Runnable", "Suspended"}]
      /\ list \subseteq Threads /\ list' \subseteq Threads
             /\ raised' \in [Threads -> SUBSET Threads]
  BY OwnPlaceHolds DEF CountInv, LockInv, LockTypes, StateMatchesPc, StepOf, PlaceTypes
<1>a. \A u \in Threads : readers = {} => state[u] = "Suspended"
  BY DEF CountInv, LockInv, LockTypes, StateMatchesPc, SharesMatchPc
<1> USE <1>0 DEF OwnPlace, PlaceTypes, Fits, RaisedFits, Stopped,
            IsSuspender, HasSuspended, TransitionPcs, LoopPcs, CheckpointPcs, FlippingPcs,
            PausePcs, DebugAllPcs, DebugResumePcs,
            RunnablePcs, SharePcs, SuspendAllPcs, ToRunnablePcs, ToSuspendedPcs,
            others, memory, mutator_lock, flow, closures, progress, asking, counts,
            all_counts, identity, Unlocked, At, Goto
<1>1. CASE SxGone(t)
  BY <1>1 DEF SxGone, SxReturn, CallToSuspended
<1>2. CASE SxUnattached(t)
  BY <1>2 DEF SxUnattached, SxReturn, CallToSuspended
<1>3. CASE SxYield(t)
  BY <1>3 DEF SxYield, CallToSuspended
<1>4. CASE SxRaise(t)
  BY <1>4 DEF SxRaise, SxAwait, CallToSuspended
<1>5. CASE SxPoll(t)
  BY <1>5 DEF SxPoll, SxAwait, CallToSuspended
<1>6. CASE SxTimeout(t)
  BY <1>6 DEF SxTimeout, SxReturn, CallToSuspended
<1>7. CASE SxAgain(t)
  BY <1>7 DEF SxAgain, CallToRunnable
<1>8. CASE Resume(t)
  BY <1>8 DEF Resume
<1>9. CASE ResumeBroadcast(t)
  BY <1>9 DEF ResumeBroadcast, Broadcast
<1> QED BY <1>1, <1>2, <1>3, <1>4, <1>5, <1>6, <1>7, <1>8, <1>9

\* ... when it runs a closure for a suspended thread, ...
LEMMA CheckpointStops ==
    ASSUME OnlyDebuggerSuspends, CountInv, NEW t \in Threads, LockInv', StepOf(t), PlaceTypes',
           (RcRequest(t) \/ RcFail(t) \/ RcCheck(t) \/ RcRaise(t) \/ RcSelf(t) \/
            RcRun(t) \/ RcLower(t) \/ RcBroadcast(t) \/ BarrierWait(t) \/ FlResume(t) \/
            FlShared(t) \/ FlRun(t) \/ FlLower(t))
    PROVE  Stopped(t)'
<1>0. OwnPlace(t) /\ Stopped(t) /\ (\A u \in Threads \ {t} : state'[u] = state[u])
      /\ (state'[t] = "Runnable" <=> pc'[t] \in RunnablePcs)
             /\ state' \in [Threads -> {"Runnable", "Suspended"}]
      /\ list \subseteq Threads /\ list' \subseteq Threads
             /\ raised' \in [Threads -> SUBSET Threads]
  BY OwnPlaceHolds DEF CountInv, LockInv, LockTypes, StateMatchesPc, StepOf, PlaceTypes
<1>a. \A u \in Threads : readers = {} => state[u] = "Suspended"
  BY DEF CountInv, LockInv, LockTypes, StateMatchesPc, SharesMatchPc
<1> USE <1>0 DEF OwnPlace, PlaceTypes, Fits, RaisedFits, Stopped,
            IsSuspender, HasSuspended, TransitionPcs, LoopPcs, CheckpointPcs, FlippingPcs,
            PausePcs, DebugAllPcs, DebugResumePcs,
            RunnablePcs, SharePcs, SuspendAllPcs, ToRunnablePcs, ToSuspendedPcs,
            others, memory, mutator_lock, flow, closures, progress, asking, counts,
            all_counts, identity, Unlocked, At, Goto
<1>1. CASE RcRequest(t)
  BY <1>1 DEF RcRequest
<1>2. CASE RcFail(t)
  BY <1>2 DEF RcFail
<1>3. CASE RcCheck(t)
  BY <1>3 DEF RcCheck
<1>4. CASE RcRaise(t)
  BY <1>4 DEF RcRaise
<1>5. CASE RcSelf(t)
  BY <1>5 DEF RcSelf
<1>6. CASE RcRun(t)
  BY <1>6 DEF RcRun, IsSuspended
<1>7. CASE RcLower(t)
  BY <1>7 DEF RcLower
<1>8. CASE RcBroadcast(t)
  BY <1>8 DEF RcBroadcast, Broadcast
<1>9. CASE BarrierWait(t)
  BY <1>9 DEF BarrierWait
<1>10. CASE FlResume(t)
  BY <1>10 DEF FlResume, Broadcast
<1>11. CASE FlShared(t)
  BY <1>11 DEF FlShared
<1>12. CASE FlRun(t)
  BY <1>12 DEF FlRun
<1>13. CASE FlLower(t)
  BY <1>13 DEF FlLower, Broadcast
<1> QED BY <1>1, <1>2, <1>3, <1>4, <1>5, <1>6, <1>7, <1>8, <1>9, <1>10, <1>11, <1>12, <1>13

\* ... and in an operation of the debugger.
LEMMA DebuggerStops ==
    ASSUME OnlyDebuggerSuspends, CountInv, NEW t \in Threads, LockInv', StepOf(t), PlaceTypes',
           (DaLock(t) \/ DaAssert(t) \/ DsRaise(t) \/ DsRecheck(t) \/ DbBroadcast(t) \/
            DrTest(t) \/ DrResume(t) \/ DrBroadcast(t))
    PROVE  Stopped(t)'
<1>0. OwnPlace(t) /\ Stopped(t) /\ (\A u \in Threads \ {t} : state'[u] = state[u])
      /\ (state'[t] = "Runnable" <=> pc'[t] \in RunnablePcs)
             /\ state' \in [Threads -> {"Runnable", "Suspended"}]
      /\ list \subseteq Threads /\ list' \subseteq Threads
             /\ raised' \in [Threads -> SUBSET Threads]
  BY OwnPlaceHolds DEF CountInv, LockInv, LockTypes, StateMatchesPc, StepOf, PlaceTypes
<1>a. \A u \in Threads : readers = {} => state[u] = "Suspended"
  BY DEF CountInv, LockInv, LockTypes, StateMatchesPc, SharesMatchPc
<1> USE <1>0 DEF OwnPlace, PlaceTypes, Fits, RaisedFits, Stopped,
            IsSuspender, HasSuspended, TransitionPcs, LoopPcs, CheckpointPcs, FlippingPcs,
            PausePcs, DebugAllPcs, DebugResumePcs,
            RunnablePcs, SharePcs, SuspendAllPcs, ToRunnablePcs, ToSuspendedPcs,
            others, memory, mutator_lock, flow, closures, progress, asking, counts,
            all_counts, identity, Unlocked, At, Goto
<1>1. CASE DaLock(t)
  BY <1>1, <1>a DEF DaLock, CanLockExclusive
<1>2. CASE DaAssert(t)
  BY <1>2 DEF DaAssert
<1>3. CASE DsRaise(t)
  BY <1>3 DEF DsRaise
<1>4. CASE DsRecheck(t)
  BY <1>4 DEF DsRecheck
<1>5. CASE DbBroadcast(t)
  BY <1>5 DEF DbBroadcast, Broadcast
<1>6. CASE DrTest(t)
  BY <1>6 DEF DrTest
<1>7. CASE DrResume(t)
  BY <1>7 DEF DrResume
<1>8. CASE DrBroadcast(t)
  BY <1>8 DEF DrBroadcast, Broadcast
<1> QED BY <1>1, <1>2, <1>3, <1>4, <1>5, <1>6, <1>7, <1>8

\* A step of t that moves no count.
Idle(t) ==
    /\ UNCHANGED <<counts, all_counts, list>> /\ ~aborted'
    /\ pc'[t] \in SuspendAllPcs <=> pc[t] \in SuspendAllPcs
    /\ raised'[t] = raised[t] /\ (raised[t] # {} => how'[t] = how[t])
    /\ pc'[t] \in DebugAllPcs => pc[t] \in DebugAllPcs
    /\ pc'[t] # "dr_resume"

\* While another thread holds the JDWP token, no suspension by the debugger is taken back.
DebugKept(t) ==
    token \in Threads \ {t} =>
        /\ debug_suspend_all_count' >= debug_suspend_all_count
        /\ \A u \in Threads : debug_suspend_count'[u] >= debug_suspend_count[u]

\* The counts move with the requests of t.
Balanced(t) ==
    /\ list' = list /\ CounterTypes' /\ ~aborted' /\ raised'[t] \subseteq list
    /\ \A u \in list :
          suspend_count'[u] - debug_suspend_count'[u] =
             ((suspend_count[u] - debug_suspend_count[u])
              + (Bit(u # t /\ InPause(t)') - Bit(u # t /\ InPause(t))))
             + (Bit(Raises(t, u)') - Bit(Raises(t, u)))
    /\ suspend_all_count' - debug_suspend_all_count' =
          (suspend_all_count - debug_suspend_all_count) + (Bit(InPause(t)') - Bit(InPause(t)))
    /\ \A u \in Threads \ list :
          suspend_count'[u] = suspend_count[u] /\ debug_suspend_count'[u] = debug_suspend_count[u]
    /\ DebugCounted(t)' /\ DebugKept(t)

\* The counts stay right when they move with the requests.
LEMMA BalancedCounts ==
    ASSUME CountInv, NEW t \in Threads, StepOf(t), Balanced(t)
    PROVE  Counted' /\ \A s \in Threads : DebugCounted(s)'
<1>1. PlaceTypes /\ CounterTypes /\ Counted /\ CounterTypes' /\ list' = list
          /\ list \subseteq Threads
  BY DEF CountInv, Balanced, PlaceTypes
<1>2. \A u \in list : suspend_count'[u] - debug_suspend_count'[u] = OutstandingRequests(u)'
  <2> SUFFICES ASSUME NEW u \in list
               PROVE suspend_count'[u] - debug_suspend_count'[u] = OutstandingRequests(u)'
    OBVIOUS
  <2>1. suspend_count[u] - debug_suspend_count[u] = OutstandingRequests(u)
    BY <1>1 DEF Counted, CountsMatchRequests
  <2>2. /\ OutstandingRequests(u) \in Nat /\ OutstandingRequests(u)' \in Nat
        /\ OutstandingRequests(u)' =
             ((OutstandingRequests(u) - Bit(u # t /\ InPause(t))) + Bit(u # t /\ InPause(t)'))
             + (Bit(Raises(t, u)') - Bit(Raises(t, u)))
    BY <1>1, RequestsMove
  <2>3. suspend_count'[u] - debug_suspend_count'[u] =
             ((suspend_count[u] - debug_suspend_count[u])
              + (Bit(u # t /\ InPause(t)') - Bit(u # t /\ InPause(t))))
             + (Bit(Raises(t, u)') - Bit(Raises(t, u)))
    BY DEF Balanced
  <2> HIDE DEF OutstandingRequests, InPause, Raises
  <2> QED BY <2>1, <2>2, <2>3 DEF Bit
<1>3. suspend_all_count' - debug_suspend_all_count' = Pauses'
  <2>1. suspend_all_count - debug_suspend_all_count = Pauses
    BY <1>1 DEF Counted, CountsMatchRequests, Pauses
  <2>2. Pauses \in Nat /\ Pauses' \in Nat /\ Pauses' = (Pauses - Bit(InPause(t))) + Bit(InPause(t)')
    BY <1>1, RequestsMove
  <2>3. suspend_all_count' - debug_suspend_all_count' =
          (suspend_all_count - debug_suspend_all_count) + (Bit(InPause(t)') - Bit(InPause(t)))
    BY DEF Balanced
  <2> HIDE DEF Pauses, InPause
  <2> QED BY <2>1, <2>2, <2>3 DEF Bit
<1>4. \A s \in Threads : raised'[s] \subseteq list
  BY <1>1 DEF Balanced, StepOf, Counted, CountsMatchRequests
<1>5. Counted'
  BY <1>1, <1>2, <1>3, <1>4 DEF Balanced, Counted, CountsMatchRequests, NoAbort, Pauses
<1>6. ASSUME NEW s \in Threads, s # t PROVE DebugCounted(s)'
  <2>1. DebugCounted(s) /\ TokenFits(s)
    BY DEF CountInv, Fits
  <2>2. /\ how'[s] = how[s] /\ raised'[s] = raised[s] /\ target'[s] = target[s]
        /\ (pc'[s] \in DebugAllPcs <=> pc[s] \in DebugAllPcs) /\ (pc'[s] = "dr_resume"
               <=> pc[s] = "dr_resume")
    BY <1>6 DEF StepOf, DebugAllPcs
  <2>3. token = s =>
        /\ debug_suspend_all_count' >= debug_suspend_all_count
        /\ \A u \in Threads : debug_suspend_count'[u] >= debug_suspend_count[u]
    BY <1>6 DEF Balanced, DebugKept
  <2> QED BY <1>1, <2>1, <2>2, <2>3 DEF DebugCounted, TokenFits, CounterTypes, PlaceTypes,
          DebugResumePcs
<1> QED BY <1>5, <1>6 DEF Balanced

\* What the counts of a listed thread are at least.
LEMMA CountsAre ==
    ASSUME CountInv
    PROVE  /\ list \subseteq Threads /\ ~aborted /\ CounterTypes /\ PlaceTypes
           /\ \A u \in list :
                 /\ suspend_count[u] >= debug_suspend_count[u]
                 /\ \A s \in Threads : Raises(s, u) \/ (s # u /\ InPause(s))
                        => suspend_count[u] > debug_suspend_count[u]
           /\ suspend_all_count >= debug_suspend_all_count
           /\ \A s \in Threads : InPause(s) => suspend_all_count > debug_suspend_all_count
           /\ \A s \in Threads : raised[s] \subseteq list
<1>1. list \subseteq Threads /\ ~aborted /\ CounterTypes /\ PlaceTypes
          /\ \A s \in Threads : raised[s] \subseteq list
  BY DEF CountInv, PlaceTypes, Counted, CountsMatchRequests, NoAbort
<1>2. ASSUME NEW u \in list
      PROVE  /\ suspend_count[u] >= debug_suspend_count[u]
             /\ \A s \in Threads : Raises(s, u) \/ (s # u /\ InPause(s))
                    => suspend_count[u] > debug_suspend_count[u]
  <2>1. suspend_count[u] - debug_suspend_count[u] = OutstandingRequests(u) /\ u \in Threads
    BY <1>1 DEF CountInv, Counted, CountsMatchRequests
  <2>2. /\ OutstandingRequests(u) \in Nat
        /\ \A s \in Threads : Raises(s, u) \/ (s # u /\ InPause(s)) => OutstandingRequests(u) >= 1
    BY <2>1, RequestsAre
  <2>3. suspend_count[u] \in Nat /\ debug_suspend_count[u] \in Nat
    BY <1>1, <2>1 DEF CounterTypes
  <2> HIDE DEF OutstandingRequests, Raises, InPause
  <2> QED BY <2>1, <2>2, <2>3
<1>3. \A s \in Threads : InPause(s) => suspend_all_count > debug_suspend_all_count
  <2> SUFFICES ASSUME NEW s \in Threads, InPause(s)
               PROVE suspend_all_count > debug_suspend_all_count
    OBVIOUS
  <2>1. suspend_all_count - debug_suspend_all_count = Pauses /\ Pauses \in Nat /\ Pauses >= 1
    BY RequestsAre DEF CountInv, Counted, CountsMatchRequests, Pauses
  <2> HIDE DEF Pauses, InPause
  <2> QED BY <1>1, <2>1 DEF CounterTypes
<1>4. suspend_all_count >= debug_suspend_all_count
  <2>1. suspend_all_count - debug_suspend_all_count = Pauses
    BY DEF CountInv, Counted, CountsMatchRequests, Pauses
  <2>2. Pauses \in Nat
    BY ThreadListAssumption, FS_Subset, FS_CardinalityType DEF Pauses
  <2> HIDE DEF Pauses
  <2> QED BY <1>1, <2>1, <2>2 DEF CounterTypes
<1> QED BY <1>1, <1>2, <1>3, <1>4

\* A step that moves no count is balanced.
LEMMA IdleIsBalanced ==
    ASSUME CountInv, NEW t \in Threads, StepOf(t), Idle(t)
    PROVE  Balanced(t)
<1>1. CounterTypes /\ PlaceTypes /\ raised[t] \subseteq list /\ list \subseteq Threads
          /\ DebugCounted(t)
  BY CountsAre DEF CountInv
<1>2. (InPause(t)' <=> InPause(t)) /\ \A u \in list : Raises(t, u)' <=> Raises(t, u)
  BY DEF Idle, InPause, Raises
<1>3. DebugCounted(t)'
  BY <1>1 DEF Idle, DebugCounted, counts, all_counts, DebugAllPcs
<1>4. CounterTypes' /\ DebugKept(t)
  BY <1>1 DEF CounterTypes, Idle, DebugKept, counts, all_counts
<1>5. UNCHANGED <<suspend_count, debug_suspend_count, suspend_all_count, debug_suspend_all_count, list>> /\ ~aborted'
      /\ raised'[t] = raised[t]
  BY DEF Idle, counts, all_counts
<1> HIDE DEF InPause, Raises
<1> QED BY <1>1, <1>2, <1>3, <1>4, <1>5 DEF Balanced, CounterTypes, Bit

\* The threads whose counts a step changes, and by how much.
LEMMA ModifyIs ==
    ASSUME CounterTypes, ~aborted, NEW S \in SUBSET Threads, NEW delta \in {1, -1}, Modify(S, delta),
           delta = -1 => \A u \in S : suspend_count[u] > 0
    PROVE  /\ ~aborted' /\ suspend_count' \in [Threads -> Nat]
           /\ \A u \in Threads : suspend_count'[u] = IF u \in S
                  THEN suspend_count[u] + delta ELSE suspend_count[u]
<1> DEFINE bad == {u \in S : delta < 0 /\ suspend_count[u] <= 0}
<1>1. bad = {}
  BY DEF CounterTypes
<1>2. /\ suspend_count' = [u \in Threads |-> IF u \in S \ bad
             THEN suspend_count[u] + delta ELSE suspend_count[u]]
      /\ aborted' = (aborted \/ bad # {})
  BY DEF Modify
<1> HIDE DEF bad
<1>3. suspend_count' = [u \in Threads |-> IF u \in S
          THEN suspend_count[u] + delta ELSE suspend_count[u]] /\ ~aborted'
  BY <1>1, <1>2
<1>4. \A u \in S : suspend_count[u] + delta \in Nat
  BY DEF CounterTypes
<1> QED BY <1>3, <1>4 DEF CounterTypes

\* The same for the debugger's counts.
LEMMA ModifyForDebuggerIs ==
    ASSUME CounterTypes, ~aborted, NEW S \in SUBSET Threads, NEW delta \in [Threads -> Int], ModifyForDebugger(S, delta),
           \A u \in S : suspend_count[u] + delta[u] >= 0 /\ debug_suspend_count[u] + delta[u] >= 0
    PROVE  /\ ~aborted' /\ suspend_count' \in [Threads -> Nat]
              /\ debug_suspend_count' \in [Threads -> Nat]
           /\ \A u \in Threads :
                 /\ suspend_count'[u] = IF u \in S
                        THEN suspend_count[u] + delta[u] ELSE suspend_count[u]
                 /\ debug_suspend_count'[u] = IF u \in S
                        THEN debug_suspend_count[u] + delta[u] ELSE debug_suspend_count[u]
<1> DEFINE bad == {u \in S : delta[u] < 0 /\ suspend_count[u] <= 0}
<1>1. bad = {}
  BY DEF CounterTypes
<1>2. /\ suspend_count' = [u \in Threads |-> IF u \in S \ bad
             THEN suspend_count[u] + delta[u] ELSE suspend_count[u]]
      /\ debug_suspend_count' =
            [u \in Threads |-> IF u \in S \ bad
                THEN debug_suspend_count[u] + delta[u] ELSE debug_suspend_count[u]]
      /\ aborted' = (aborted \/ bad # {})
  BY DEF ModifyForDebugger
<1> HIDE DEF bad
<1>3. /\ suspend_count' = [u \in Threads |-> IF u \in S
             THEN suspend_count[u] + delta[u] ELSE suspend_count[u]]
      /\ debug_suspend_count' =
            [u \in Threads |-> IF u \in S
                THEN debug_suspend_count[u] + delta[u] ELSE debug_suspend_count[u]]
      /\ ~aborted'
  BY <1>1, <1>2
<1>4. \A u \in S : suspend_count[u] + delta[u] \in Nat /\ debug_suspend_count[u] + delta[u] \in Nat
  BY DEF CounterTypes
<1> QED BY <1>3, <1>4 DEF CounterTypes

\* Entering and leaving managed code, and operations that count nothing at first.
LEMMA StartIdles ==
    ASSUME CountInv, NEW t \in Threads,
           (Create(t) \/ Enter(t) \/ Leave(t) \/ Exit(t) \/ SuspendThread(t) \/
            RunCheckpoint(t) \/ RunCheckpointOnRunnableThreads(t) \/
            SuspendSelfForDebugger(t) \/ DbgResumeThread(t))
    PROVE  Idle(t)
<1>0. OwnPlace(t) /\ ~aborted
  BY OwnPlaceHolds, CountsAre
<1> USE <1>0 DEF OwnPlace, Idle, PlaceTypes, Fits, RaisedFits, FlowFits, TokenFits,
            IsSuspender, TransitionPcs, LoopPcs, CheckpointPcs, FlippingPcs, PausePcs,
            DebugAllPcs, DebugResumePcs,
            RunnablePcs, SharePcs, SuspendAllPcs, ToRunnablePcs, ToSuspendedPcs,
            others, memory, mutator_lock, flow, closures, progress, asking, counts,
            all_counts, identity, Unlocked, At, Goto
<1>1. CASE Create(t)
  BY <1>1 DEF Create
<1>2. CASE Enter(t)
  BY <1>2 DEF Enter, CallToRunnable
<1>3. CASE Leave(t)
  BY <1>3 DEF Leave, CallToSuspended
<1>4. CASE Exit(t)
  BY <1>4 DEF Exit, CallToRunnable
<1>5. CASE SuspendThread(t)
  BY <1>5 DEF SuspendThread, CallToRunnable
<1>6. CASE RunCheckpoint(t)
  BY <1>6 DEF RunCheckpoint
<1>7. CASE RunCheckpointOnRunnableThreads(t)
  BY <1>7 DEF RunCheckpointOnRunnableThreads
<1>8. CASE SuspendSelfForDebugger(t)
  BY <1>8 DEF SuspendSelfForDebugger, DebuggerIsFree
<1>9. CASE DbgResumeThread(t)
  BY <1>9 DEF DbgResumeThread, DebuggerIsFree
<1> QED BY <1>1, <1>2, <1>3, <1>4, <1>5, <1>6, <1>7, <1>8, <1>9

\* The transitions only read the counts.
LEMMA TransitionIdles ==
    ASSUME CountInv, NEW t \in Threads,
           (TrCheck(t) \/ TrRecheck(t) \/ TrLock(t) \/ TrCas(t) \/ TrUnlock(t) \/
            TrFlip(t) \/ TsCheckpoint(t) \/ TsCas(t) \/ TsUnlock(t))
    PROVE  Idle(t)
<1>0. OwnPlace(t) /\ ~aborted
  BY OwnPlaceHolds, CountsAre
<1> USE <1>0 DEF OwnPlace, Idle, PlaceTypes, Fits, RaisedFits, FlowFits, TokenFits,
            IsSuspender, TransitionPcs, LoopPcs, CheckpointPcs, FlippingPcs, PausePcs,
            DebugAllPcs, DebugResumePcs,
            RunnablePcs, SharePcs, SuspendAllPcs, ToRunnablePcs, ToSuspendedPcs,
            others, memory, mutator_lock, flow, closures, progress, asking, counts,
            all_counts, identity, Unlocked, At, Goto
<1>1. CASE TrCheck(t)
  BY <1>1 DEF TrCheck
<1>2. CASE TrRecheck(t)
  BY <1>2 DEF TrRecheck
<1>3. CASE TrLock(t)
  BY <1>3 DEF TrLock
<1>4. CASE TrCas(t)
  BY <1>4 DEF TrCas
<1>5. CASE TrUnlock(t)
  BY <1>5 DEF TrUnlock
<1>6. CASE TrFlip(t)
  BY <1>6 DEF TrFlip
<1>7. CASE TsCheckpoint(t)
  BY <1>7 DEF TsCheckpoint, RunCheckpointFunction, RunClosures
<1>8. CASE TsCas(t)
  BY <1>8 DEF TsCas
<1>9. CASE TsUnlock(t)
  BY <1>9 DEF TsUnlock, CallToRunnable
<1> QED BY <1>1, <1>2, <1>3, <1>4, <1>5, <1>6, <1>7, <1>8, <1>9

\* Safepoints, detaching and the exclusive lock.
LEMMA SafepointIdles ==
    ASSUME CountInv, NEW t \in Threads,
           (CheckSuspendCheckpoint(t) \/ FullSuspendCheck(t) \/ ExPeer(t) \/
            ExAgain(t) \/ ExRevoke(t) \/ ExclusiveLock(t) \/ ExclusiveUnlock(t))
    PROVE  Idle(t)
<1>0. OwnPlace(t) /\ ~aborted
  BY OwnPlaceHolds, CountsAre
<1> USE <1>0 DEF OwnPlace, Idle, PlaceTypes, Fits, RaisedFits, FlowFits, TokenFits,
            IsSuspender, TransitionPcs, LoopPcs, CheckpointPcs, FlippingPcs, PausePcs,
            DebugAllPcs, DebugResumePcs,
            RunnablePcs, SharePcs, SuspendAllPcs, ToRunnablePcs, ToSuspendedPcs,
            others, memory, mutator_lock, flow, closures, progress, asking, counts,
            all_counts, identity, Unlocked, At, Goto
<1>1. CASE CheckSuspendCheckpoint(t)
  BY <1>1 DEF CheckSuspendCheckpoint, RunCheckpointFunction, RunClosures
<1>2. CASE FullSuspendCheck(t)
  BY <1>2 DEF FullSuspendCheck, CallToSuspended
<1>3. CASE ExPeer(t)
  BY <1>3 DEF ExPeer, CallToSuspended
<1>4. CASE ExAgain(t)
  BY <1>4 DEF ExAgain, CallToRunnable
<1>5. CASE ExRevoke(t)
  BY <1>5 DEF ExRevoke, CallToSuspended
<1>6. CASE ExclusiveLock(t)
  BY <1>6 DEF ExclusiveLock, CanLockExclusive
<1>7. CASE ExclusiveUnlock(t)
  BY <1>7 DEF ExclusiveUnlock
<1> QED BY <1>1, <1>2, <1>3, <1>4, <1>5, <1>6, <1>7

\* SuspendThreadBy... between two iterations.
LEMMA SuspendThreadIdles ==
    ASSUME CountInv, NEW t \in Threads,
           (SxYield(t) \/ SxAgain(t) \/ ResumeBroadcast(t))
    PROVE  Idle(t)
<1>0. OwnPlace(t) /\ ~aborted
  BY OwnPlaceHolds, CountsAre
<1> USE <1>0 DEF OwnPlace, Idle, PlaceTypes, Fits, RaisedFits, FlowFits, TokenFits,
            IsSuspender, TransitionPcs, LoopPcs, CheckpointPcs, FlippingPcs, PausePcs,
            DebugAllPcs, DebugResumePcs,
            RunnablePcs, SharePcs, SuspendAllPcs, ToRunnablePcs, ToSuspendedPcs,
            others, memory, mutator_lock, flow, closures, progress, asking, counts,
            all_counts, identity, Unlocked, At, Goto
<1>1. CASE SxYield(t)
  BY <1>1 DEF SxYield, CallToSuspended
<1>2. CASE SxAgain(t)
  BY <1>2 DEF SxAgain, CallToRunnable
<1>3. CASE ResumeBroadcast(t)
  BY <1>3 DEF ResumeBroadcast, Broadcast
<1> QED BY <1>1, <1>2, <1>3

\* RunCheckpoint, where no count is changed.
LEMMA CheckpointIdles ==
    ASSUME CountInv, NEW t \in Threads,
           (RcRequest(t) \/ RcFail(t) \/ RcCheck(t) \/ RcSelf(t) \/ RcRun(t) \/
            RcBroadcast(t) \/ BarrierWait(t) \/ FlShared(t))
    PROVE  Idle(t)
<1>0. OwnPlace(t) /\ ~aborted
  BY OwnPlaceHolds, CountsAre
<1> USE <1>0 DEF OwnPlace, Idle, PlaceTypes, Fits, RaisedFits, FlowFits, TokenFits,
            IsSuspender, TransitionPcs, LoopPcs, CheckpointPcs, FlippingPcs, PausePcs,
            DebugAllPcs, DebugResumePcs,
            RunnablePcs, SharePcs, SuspendAllPcs, ToRunnablePcs, ToSuspendedPcs,
            others, memory, mutator_lock, flow, closures, progress, asking, counts,
            all_counts, identity, Unlocked, At, Goto
<1>1. CASE RcRequest(t)
  BY <1>1 DEF RcRequest
<1>2. CASE RcFail(t)
  BY <1>2 DEF RcFail
<1>3. CASE RcCheck(t)
  BY <1>3 DEF RcCheck
<1>4. CASE RcSelf(t)
  BY <1>4 DEF RcSelf
<1>5. CASE RcRun(t)
  BY <1>5 DEF RcRun
<1>6. CASE RcBroadcast(t)
  BY <1>6 DEF RcBroadcast, Broadcast
<1>7. CASE BarrierWait(t)
  BY <1>7 DEF BarrierWait
<1>8. CASE FlShared(t)
  BY <1>8 DEF FlShared
<1> QED BY <1>1, <1>2, <1>3, <1>4, <1>5, <1>6, <1>7, <1>8

\* The debugger's waiting.
LEMMA DebuggerIdles ==
    ASSUME CountInv, NEW t \in Threads,
           (DaLock(t) \/ DsRecheck(t) \/ DbBroadcast(t) \/ DrBroadcast(t))
    PROVE  Idle(t)
<1>0. OwnPlace(t) /\ ~aborted
  BY OwnPlaceHolds, CountsAre
<1> USE <1>0 DEF OwnPlace, Idle, PlaceTypes, Fits, RaisedFits, FlowFits, TokenFits,
            IsSuspender, TransitionPcs, LoopPcs, CheckpointPcs, FlippingPcs, PausePcs,
            DebugAllPcs, DebugResumePcs,
            RunnablePcs, SharePcs, SuspendAllPcs, ToRunnablePcs, ToSuspendedPcs,
            others, memory, mutator_lock, flow, closures, progress, asking, counts,
            all_counts, identity, Unlocked, At, Goto
<1>1. CASE DaLock(t)
  BY <1>1 DEF DaLock, CanLockExclusive
<1>2. CASE DsRecheck(t)
  BY <1>2 DEF DsRecheck
<1>3. CASE DbBroadcast(t)
  BY <1>3 DEF DbBroadcast, Broadcast
<1>4. CASE DrBroadcast(t)
  BY <1>4 DEF DrBroadcast, Broadcast
<1> QED BY <1>1, <1>2, <1>3, <1>4

\* What is known of the counts when t takes a step.
OwnCounts(t) ==
    /\ OwnPlace(t) /\ DebugCounted(t) /\ CounterTypes /\ ~aborted /\ list \subseteq Threads
    /\ raised[t] \subseteq list /\ raised[t] \subseteq Threads
    /\ \A u \in list :
          /\ suspend_count[u] \in Nat /\ debug_suspend_count[u] \in Nat
          /\ suspend_count[u] >= debug_suspend_count[u]
          /\ Raises(t, u) \/ (t # u /\ InPause(t)) => suspend_count[u] > debug_suspend_count[u]
    /\ suspend_all_count \in Nat /\ debug_suspend_all_count \in Nat
    /\ suspend_all_count >= debug_suspend_all_count
    /\ InPause(t) => suspend_all_count > debug_suspend_all_count

\* The invariant says so.
LEMMA OwnCountsHolds ==
    ASSUME CountInv, NEW t \in Threads
    PROVE  OwnCounts(t)
<1>1. OwnPlace(t) /\ DebugCounted(t)
  BY OwnPlaceHolds DEF CountInv
<1> QED BY <1>1, CountsAre DEF OwnCounts, CounterTypes, PlaceTypes

\* SuspendAll raises the counts of all others.
LEMMA SuspendAllBalances ==
    ASSUME CountInv, NEW t \in Threads, StepOf(t), PlaceTypes', SuspendAll(t)
    PROVE  Balanced(t)
<1>1. OwnCounts(t)
  BY OwnCountsHolds
<1>2. /\ list' = list /\ UNCHANGED <<debug_suspend_count, debug_suspend_all_count>>
      /\ Modify((list \ {t}), 1) /\ (list \ {t}) \subseteq list
      /\ ~InPause(t) /\ InPause(t)'
      /\ \A u \in list : ~Raises(t, u) /\ ~Raises(t, u)'
      /\ suspend_all_count' = suspend_all_count + 1
      /\ pc'[t] \notin DebugAllPcs \cup {"dr_resume"} /\ how'[t] # "debug"
             /\ raised'[t] \subseteq list
  BY <1>1 DEF SuspendAll, OwnCounts, 
         OwnPlace, PlaceTypes, Fits, RaisedFits, TokenFits, InPause, Raises,
         IsSuspender, HasSuspended, TransitionPcs, LoopPcs, CheckpointPcs, FlippingPcs, PausePcs,
         DebugAllPcs, DebugResumePcs,
            RunnablePcs, SharePcs, SuspendAllPcs, ToRunnablePcs, ToSuspendedPcs,
         others, memory, mutator_lock, flow, closures, progress, asking, counts,
            all_counts, identity, Unlocked, At, Goto
<1>3. /\ ~aborted' /\ suspend_count' \in [Threads -> Nat]
      /\ \A u \in Threads : suspend_count'[u] = IF u \in (list \ {t})
             THEN suspend_count[u] + 1 ELSE suspend_count[u]
  <2>1. (list \ {t}) \in SUBSET Threads /\ CounterTypes /\ ~aborted
    BY <1>1, <1>2 DEF OwnCounts
  <2>2. 1 = -1 => \A u \in (list \ {t}) : suspend_count[u] > 0
    BY <1>1, <1>2 DEF OwnCounts
  <2> QED BY <1>2, <2>1, <2>2, ModifyIs
<1>4. DebugCounted(t)' /\ DebugKept(t)
  BY <1>1, <1>2 DEF OwnCounts, DebugCounted, DebugKept, DebugAllPcs, CounterTypes
<1> HIDE DEF InPause, Raises
<1>5. \A u \in list :
         suspend_count'[u] - debug_suspend_count'[u] =
             ((suspend_count[u] - debug_suspend_count[u])
              + (Bit(u # t /\ InPause(t)') - Bit(u # t /\ InPause(t))))
             + (Bit(Raises(t, u)') - Bit(Raises(t, u)))
  BY <1>1, <1>2, <1>3 DEF OwnCounts, Bit
<1> QED BY <1>1, <1>2, <1>3, <1>4, <1>5 DEF Balanced, OwnCounts, CounterTypes, Bit

\* FlipThreadRoots begins like SuspendAll.
LEMMA FlipThreadRootsBalances ==
    ASSUME CountInv, NEW t \in Threads, StepOf(t), PlaceTypes', FlipThreadRoots(t)
    PROVE  Balanced(t)
<1>1. OwnCounts(t)
  BY OwnCountsHolds
<1>2. /\ list' = list /\ UNCHANGED <<debug_suspend_count, debug_suspend_all_count>>
      /\ Modify((list \ {t}), 1) /\ (list \ {t}) \subseteq list
      /\ ~InPause(t) /\ InPause(t)'
      /\ \A u \in list : ~Raises(t, u) /\ ~Raises(t, u)'
      /\ suspend_all_count' = suspend_all_count + 1
      /\ pc'[t] \notin DebugAllPcs \cup {"dr_resume"} /\ how'[t] # "debug"
             /\ raised'[t] \subseteq list
  BY <1>1 DEF FlipThreadRoots, OwnCounts, 
         OwnPlace, PlaceTypes, Fits, RaisedFits, TokenFits, InPause, Raises,
         IsSuspender, HasSuspended, TransitionPcs, LoopPcs, CheckpointPcs, FlippingPcs, PausePcs,
         DebugAllPcs, DebugResumePcs,
            RunnablePcs, SharePcs, SuspendAllPcs, ToRunnablePcs, ToSuspendedPcs,
         others, memory, mutator_lock, flow, closures, progress, asking, counts,
            all_counts, identity, Unlocked, At, Goto
<1>3. /\ ~aborted' /\ suspend_count' \in [Threads -> Nat]
      /\ \A u \in Threads : suspend_count'[u] = IF u \in (list \ {t})
             THEN suspend_count[u] + 1 ELSE suspend_count[u]
  <2>1. (list \ {t}) \in SUBSET Threads /\ CounterTypes /\ ~aborted
    BY <1>1, <1>2 DEF OwnCounts
  <2>2. 1 = -1 => \A u \in (list \ {t}) : suspend_count[u] > 0
    BY <1>1, <1>2 DEF OwnCounts
  <2> QED BY <1>2, <2>1, <2>2, ModifyIs
<1>4. DebugCounted(t)' /\ DebugKept(t)
  BY <1>1, <1>2 DEF OwnCounts, DebugCounted, DebugKept, DebugAllPcs, CounterTypes
<1> HIDE DEF InPause, Raises
<1>5. \A u \in list :
         suspend_count'[u] - debug_suspend_count'[u] =
             ((suspend_count[u] - debug_suspend_count[u])
              + (Bit(u # t /\ InPause(t)') - Bit(u # t /\ InPause(t))))
             + (Bit(Raises(t, u)') - Bit(Raises(t, u)))
  BY <1>1, <1>2, <1>3 DEF OwnCounts, Bit
<1> QED BY <1>1, <1>2, <1>3, <1>4, <1>5 DEF Balanced, OwnCounts, CounterTypes, Bit

\* ResumeAll lowers the counts that SuspendAll has raised.
LEMMA ResumeAllBalances ==
    ASSUME CountInv, NEW t \in Threads, StepOf(t), PlaceTypes', ResumeAll(t)
    PROVE  Balanced(t)
<1>1. OwnCounts(t)
  BY OwnCountsHolds
<1>2. /\ list' = list /\ UNCHANGED <<debug_suspend_count, debug_suspend_all_count>>
      /\ Modify((list \ {t}), -1) /\ (list \ {t}) \subseteq list
      /\ InPause(t) /\ ~InPause(t)'
      /\ \A u \in list : ~Raises(t, u) /\ ~Raises(t, u)'
      /\ suspend_all_count' = suspend_all_count - 1
      /\ pc'[t] \notin DebugAllPcs \cup {"dr_resume"} /\ how'[t] # "debug"
             /\ raised'[t] \subseteq list
  BY <1>1 DEF ResumeAll, OwnCounts, Broadcast, 
         OwnPlace, PlaceTypes, Fits, RaisedFits, TokenFits, InPause, Raises,
         IsSuspender, HasSuspended, TransitionPcs, LoopPcs, CheckpointPcs, FlippingPcs, PausePcs,
         DebugAllPcs, DebugResumePcs,
            RunnablePcs, SharePcs, SuspendAllPcs, ToRunnablePcs, ToSuspendedPcs,
         others, memory, mutator_lock, flow, closures, progress, asking, counts,
            all_counts, identity, Unlocked, At, Goto
<1>3. /\ ~aborted' /\ suspend_count' \in [Threads -> Nat]
      /\ \A u \in Threads : suspend_count'[u] = IF u \in (list \ {t})
             THEN suspend_count[u] + (-1) ELSE suspend_count[u]
  <2>1. (list \ {t}) \in SUBSET Threads /\ CounterTypes /\ ~aborted
    BY <1>1, <1>2 DEF OwnCounts
  <2>2. -1 = -1 => \A u \in (list \ {t}) : suspend_count[u] > 0
    BY <1>1, <1>2 DEF OwnCounts
  <2> QED BY <1>2, <2>1, <2>2, ModifyIs
<1>4. DebugCounted(t)' /\ DebugKept(t)
  BY <1>1, <1>2 DEF OwnCounts, DebugCounted, DebugKept, DebugAllPcs, CounterTypes
<1> HIDE DEF InPause, Raises
<1>5. \A u \in list :
         suspend_count'[u] - debug_suspend_count'[u] =
             ((suspend_count[u] - debug_suspend_count[u])
              + (Bit(u # t /\ InPause(t)') - Bit(u # t /\ InPause(t))))
             + (Bit(Raises(t, u)') - Bit(Raises(t, u)))
  BY <1>1, <1>2, <1>3 DEF OwnCounts, Bit
<1> QED BY <1>1, <1>2, <1>3, <1>4, <1>5 DEF Balanced, OwnCounts, CounterTypes, Bit

\* FlipThreadRoots lowers the counts of the threads that flip themselves, and keeps the others'.
LEMMA FlResumeBalances ==
    ASSUME CountInv, NEW t \in Threads, StepOf(t), PlaceTypes', FlResume(t)
    PROVE  Balanced(t)
<1>1. OwnCounts(t)
  BY OwnCountsHolds
<1>2. /\ list' = list /\ UNCHANGED <<debug_suspend_count, debug_suspend_all_count>>
      /\ Modify({u \in list \ {t} : at_check[u]}, -1)
             /\ {u \in list \ {t} : at_check[u]} \subseteq list
      /\ InPause(t) /\ ~InPause(t)'
      /\ \A u \in list : ~Raises(t, u) /\ (Raises(t, u)' <=> u # t /\ ~at_check[u])
      /\ suspend_all_count' = suspend_all_count - 1
      /\ pc'[t] \notin DebugAllPcs \cup {"dr_resume"} /\ how'[t] # "debug"
             /\ raised'[t] \subseteq list
  BY <1>1 DEF FlResume, OwnCounts, Broadcast, 
         OwnPlace, PlaceTypes, Fits, RaisedFits, TokenFits, InPause, Raises,
         IsSuspender, HasSuspended, TransitionPcs, LoopPcs, CheckpointPcs, FlippingPcs, PausePcs,
         DebugAllPcs, DebugResumePcs,
            RunnablePcs, SharePcs, SuspendAllPcs, ToRunnablePcs, ToSuspendedPcs,
         others, memory, mutator_lock, flow, closures, progress, asking, counts,
            all_counts, identity, Unlocked, At, Goto
<1>3. /\ ~aborted' /\ suspend_count' \in [Threads -> Nat]
      /\ \A u \in Threads : suspend_count'[u] = IF u \in {w \in list \ {t} : at_check[w]}
             THEN suspend_count[u] + (-1) ELSE suspend_count[u]
  <2>1. {u \in list \ {t} : at_check[u]} \in SUBSET Threads /\ CounterTypes /\ ~aborted
    BY <1>1, <1>2 DEF OwnCounts
  <2>2. -1 = -1 => \A u \in {w \in list \ {t} : at_check[w]} : suspend_count[u] > 0
    BY <1>1, <1>2 DEF OwnCounts
  <2> QED BY <1>2, <2>1, <2>2, ModifyIs
<1>4. DebugCounted(t)' /\ DebugKept(t)
  BY <1>1, <1>2 DEF OwnCounts, DebugCounted, DebugKept, DebugAllPcs, CounterTypes
<1> HIDE DEF InPause, Raises
<1>5. \A u \in list :
         suspend_count'[u] - debug_suspend_count'[u] =
             ((suspend_count[u] - debug_suspend_count[u])
              + (Bit(u # t /\ InPause(t)') - Bit(u # t /\ InPause(t))))
             + (Bit(Raises(t, u)') - Bit(Raises(t, u)))
  BY <1>1, <1>2, <1>3 DEF OwnCounts, Bit
<1> QED BY <1>1, <1>2, <1>3, <1>4, <1>5 DEF Balanced, OwnCounts, CounterTypes, Bit

\* RunCheckpoint raises the count of a thread that is not Runnable.
LEMMA RcRaiseBalances ==
    ASSUME CountInv, NEW t \in Threads, StepOf(t), PlaceTypes', RcRaise(t)
    PROVE  Balanced(t)
<1>1. OwnCounts(t)
  BY OwnCountsHolds
<1>2. /\ list' = list /\ UNCHANGED <<debug_suspend_count, debug_suspend_all_count>>
      /\ Modify({target[t]}, 1) /\ {target[t]} \subseteq list
      /\ ~InPause(t) /\ ~InPause(t)'
      /\ target[t] \in list /\ \A u \in list : (u = target[t] => ~Raises(t, u)
             /\ Raises(t, u)') /\ (u # target[t] => Raises(t, u)' = Raises(t, u))
      /\ suspend_all_count' = suspend_all_count
      /\ pc'[t] \notin DebugAllPcs \cup {"dr_resume"} /\ how'[t] # "debug"
             /\ raised'[t] \subseteq list
  BY <1>1 DEF RcRaise, OwnCounts, 
         OwnPlace, PlaceTypes, Fits, RaisedFits, TokenFits, InPause, Raises,
         IsSuspender, HasSuspended, TransitionPcs, LoopPcs, CheckpointPcs, FlippingPcs, PausePcs,
         DebugAllPcs, DebugResumePcs,
            RunnablePcs, SharePcs, SuspendAllPcs, ToRunnablePcs, ToSuspendedPcs,
         others, memory, mutator_lock, flow, closures, progress, asking, counts,
            all_counts, identity, Unlocked, At, Goto
<1>3. /\ ~aborted' /\ suspend_count' \in [Threads -> Nat]
      /\ \A u \in Threads : suspend_count'[u] = IF u \in {target[t]}
             THEN suspend_count[u] + 1 ELSE suspend_count[u]
  <2>1. {target[t]} \in SUBSET Threads /\ CounterTypes /\ ~aborted
    BY <1>1, <1>2 DEF OwnCounts
  <2>2. 1 = -1 => \A u \in {target[t]} : suspend_count[u] > 0
    BY <1>1, <1>2 DEF OwnCounts
  <2> QED BY <1>2, <2>1, <2>2, ModifyIs
<1>4. DebugCounted(t)' /\ DebugKept(t)
  BY <1>1, <1>2 DEF OwnCounts, DebugCounted, DebugKept, DebugAllPcs, CounterTypes
<1> HIDE DEF InPause, Raises
<1>5. \A u \in list :
         suspend_count'[u] - debug_suspend_count'[u] =
             ((suspend_count[u] - debug_suspend_count[u])
              + (Bit(u # t /\ InPause(t)') - Bit(u # t /\ InPause(t))))
             + (Bit(Raises(t, u)') - Bit(Raises(t, u)))
  BY <1>1, <1>2, <1>3 DEF OwnCounts, Bit
<1> QED BY <1>1, <1>2, <1>3, <1>4, <1>5 DEF Balanced, OwnCounts, CounterTypes, Bit

\* RunCheckpoint lowers the count of a thread whose closure it has run.
LEMMA RcLowerBalances ==
    ASSUME CountInv, NEW t \in Threads, StepOf(t), PlaceTypes', RcLower(t)
    PROVE  Balanced(t)
<1>1. OwnCounts(t)
  BY OwnCountsHolds
<1>2. /\ list' = list /\ UNCHANGED <<debug_suspend_count, debug_suspend_all_count>>
      /\ Modify({target[t]}, -1) /\ {target[t]} \subseteq list
      /\ ~InPause(t) /\ ~InPause(t)'
      /\ target[t] \in list /\ \A u \in list : (u = target[t] => Raises(t, u))
             /\ (Raises(t, u)' <=> Raises(t, u) /\ u # target[t])
      /\ suspend_all_count' = suspend_all_count
      /\ pc'[t] \notin DebugAllPcs \cup {"dr_resume"} /\ how'[t] # "debug"
             /\ raised'[t] \subseteq list
  BY <1>1 DEF RcLower, OwnCounts, 
         OwnPlace, PlaceTypes, Fits, RaisedFits, TokenFits, InPause, Raises,
         IsSuspender, HasSuspended, TransitionPcs, LoopPcs, CheckpointPcs, FlippingPcs, PausePcs,
         DebugAllPcs, DebugResumePcs,
            RunnablePcs, SharePcs, SuspendAllPcs, ToRunnablePcs, ToSuspendedPcs,
         others, memory, mutator_lock, flow, closures, progress, asking, counts,
            all_counts, identity, Unlocked, At, Goto
<1>3. /\ ~aborted' /\ suspend_count' \in [Threads -> Nat]
      /\ \A u \in Threads : suspend_count'[u] = IF u \in {target[t]}
             THEN suspend_count[u] + (-1) ELSE suspend_count[u]
  <2>1. {target[t]} \in SUBSET Threads /\ CounterTypes /\ ~aborted
    BY <1>1, <1>2 DEF OwnCounts
  <2>2. -1 = -1 => \A u \in {target[t]} : suspend_count[u] > 0
    BY <1>1, <1>2 DEF OwnCounts
  <2> QED BY <1>2, <2>1, <2>2, ModifyIs
<1>4. DebugCounted(t)' /\ DebugKept(t)
  BY <1>1, <1>2 DEF OwnCounts, DebugCounted, DebugKept, DebugAllPcs, CounterTypes
<1> HIDE DEF InPause, Raises
<1>5. \A u \in list :
         suspend_count'[u] - debug_suspend_count'[u] =
             ((suspend_count[u] - debug_suspend_count[u])
              + (Bit(u # t /\ InPause(t)') - Bit(u # t /\ InPause(t))))
             + (Bit(Raises(t, u)') - Bit(Raises(t, u)))
  BY <1>1, <1>2, <1>3 DEF OwnCounts, Bit
<1> QED BY <1>1, <1>2, <1>3, <1>4, <1>5 DEF Balanced, OwnCounts, CounterTypes, Bit

\* FlipThreadRoots lowers the counts that it has kept.
LEMMA FlLowerBalances ==
    ASSUME CountInv, NEW t \in Threads, StepOf(t), PlaceTypes', FlLower(t)
    PROVE  Balanced(t)
<1>1. OwnCounts(t)
  BY OwnCountsHolds
<1>2. /\ list' = list /\ UNCHANGED <<debug_suspend_count, debug_suspend_all_count>>
      /\ Modify(raised[t], -1) /\ raised[t] \subseteq list
      /\ ~InPause(t) /\ ~InPause(t)'
      /\ \A u \in list : (Raises(t, u) <=> u \in raised[t]) /\ ~Raises(t, u)'
      /\ suspend_all_count' = suspend_all_count
      /\ pc'[t] \notin DebugAllPcs \cup {"dr_resume"} /\ how'[t] # "debug"
             /\ raised'[t] \subseteq list
  BY <1>1 DEF FlLower, OwnCounts, Broadcast, 
         OwnPlace, PlaceTypes, Fits, RaisedFits, TokenFits, InPause, Raises,
         IsSuspender, HasSuspended, TransitionPcs, LoopPcs, CheckpointPcs, FlippingPcs, PausePcs,
         DebugAllPcs, DebugResumePcs,
            RunnablePcs, SharePcs, SuspendAllPcs, ToRunnablePcs, ToSuspendedPcs,
         others, memory, mutator_lock, flow, closures, progress, asking, counts,
            all_counts, identity, Unlocked, At, Goto
<1>3. /\ ~aborted' /\ suspend_count' \in [Threads -> Nat]
      /\ \A u \in Threads : suspend_count'[u] = IF u \in raised[t]
             THEN suspend_count[u] + (-1) ELSE suspend_count[u]
  <2>1. raised[t] \in SUBSET Threads /\ CounterTypes /\ ~aborted
    BY <1>1, <1>2 DEF OwnCounts
  <2>2. -1 = -1 => \A u \in raised[t] : suspend_count[u] > 0
    BY <1>1, <1>2 DEF OwnCounts
  <2> QED BY <1>2, <2>1, <2>2, ModifyIs
<1>4. DebugCounted(t)' /\ DebugKept(t)
  BY <1>1, <1>2 DEF OwnCounts, DebugCounted, DebugKept, DebugAllPcs, CounterTypes
<1> HIDE DEF InPause, Raises
<1>5. \A u \in list :
         suspend_count'[u] - debug_suspend_count'[u] =
             ((suspend_count[u] - debug_suspend_count[u])
              + (Bit(u # t /\ InPause(t)') - Bit(u # t /\ InPause(t))))
             + (Bit(Raises(t, u)') - Bit(Raises(t, u)))
  BY <1>1, <1>2, <1>3 DEF OwnCounts, Bit
<1> QED BY <1>1, <1>2, <1>3, <1>4, <1>5 DEF Balanced, OwnCounts, CounterTypes, Bit

\* SuspendThreadByThreadId lowers the count again when it gives up.
LEMMA SxTimeoutBalances ==
    ASSUME CountInv, NEW t \in Threads, StepOf(t), PlaceTypes', SxTimeout(t)
    PROVE  Balanced(t)
<1>1. OwnCounts(t)
  BY OwnCountsHolds
<1>2. /\ list' = list /\ UNCHANGED <<debug_suspend_count, debug_suspend_all_count>>
      /\ Modify({target[t]}, -1) /\ {target[t]} \subseteq list
      /\ ~InPause(t) /\ ~InPause(t)'
      /\ target[t] \in list /\ \A u \in list : (Raises(t, u) <=> u = target[t]) /\ ~Raises(t, u)'
      /\ suspend_all_count' = suspend_all_count
      /\ pc'[t] \notin DebugAllPcs \cup {"dr_resume"} /\ how'[t] # "debug"
             /\ raised'[t] \subseteq list
  BY <1>1 DEF SxTimeout, OwnCounts, SxReturn, CallToSuspended, ModifyTarget,
         OwnPlace, PlaceTypes, Fits, RaisedFits, TokenFits, InPause, Raises,
         IsSuspender, HasSuspended, TransitionPcs, LoopPcs, CheckpointPcs, FlippingPcs, PausePcs,
         DebugAllPcs, DebugResumePcs,
            RunnablePcs, SharePcs, SuspendAllPcs, ToRunnablePcs, ToSuspendedPcs,
         others, memory, mutator_lock, flow, closures, progress, asking, counts,
            all_counts, identity, Unlocked, At, Goto
<1>3. /\ ~aborted' /\ suspend_count' \in [Threads -> Nat]
      /\ \A u \in Threads : suspend_count'[u] = IF u \in {target[t]}
             THEN suspend_count[u] + (-1) ELSE suspend_count[u]
  <2>1. {target[t]} \in SUBSET Threads /\ CounterTypes /\ ~aborted
    BY <1>1, <1>2 DEF OwnCounts
  <2>2. -1 = -1 => \A u \in {target[t]} : suspend_count[u] > 0
    BY <1>1, <1>2 DEF OwnCounts
  <2> QED BY <1>2, <2>1, <2>2, ModifyIs
<1>4. DebugCounted(t)' /\ DebugKept(t)
  BY <1>1, <1>2 DEF OwnCounts, DebugCounted, DebugKept, DebugAllPcs, CounterTypes
<1> HIDE DEF InPause, Raises
<1>5. \A u \in list :
         suspend_count'[u] - debug_suspend_count'[u] =
             ((suspend_count[u] - debug_suspend_count[u])
              + (Bit(u # t /\ InPause(t)') - Bit(u # t /\ InPause(t))))
             + (Bit(Raises(t, u)') - Bit(Raises(t, u)))
  BY <1>1, <1>2, <1>3 DEF OwnCounts, Bit
<1> QED BY <1>1, <1>2, <1>3, <1>4, <1>5 DEF Balanced, OwnCounts, CounterTypes, Bit

\* SuspendThreadBy... raises its target's count, for the debugger both counts.
LEMMA SxRaiseBalances ==
    ASSUME CountInv, NEW t \in Threads, StepOf(t), PlaceTypes', SxRaise(t)
    PROVE  Balanced(t)
<1>1. OwnCounts(t)
  BY OwnCountsHolds
<1>2. /\ list' = list /\ UNCHANGED <<suspend_all_count, debug_suspend_all_count, how>>
      /\ target[t] \in list /\ ModifyTarget(t, 1)
      /\ ~InPause(t) /\ ~InPause(t)' /\ raised'[t] = {target[t]}
      /\ pc'[t] \notin DebugAllPcs \cup {"dr_resume"}
      /\ how[t] = "debug" => token = t
      /\ \A u \in list : ~Raises(t, u) /\ (Raises(t, u)' <=> u = target[t] /\ how[t] # "debug")
  BY <1>1 DEF SxRaise, SxAwait, CallToSuspended, OwnCounts,
         OwnPlace, PlaceTypes, Fits, RaisedFits, TokenFits, InPause, Raises,
         IsSuspender, HasSuspended, TransitionPcs, LoopPcs, CheckpointPcs, FlippingPcs, PausePcs,
         DebugAllPcs, DebugResumePcs,
            RunnablePcs, SharePcs, SuspendAllPcs, ToRunnablePcs, ToSuspendedPcs,
         others, memory, mutator_lock, flow, closures, progress, asking, counts,
            all_counts, identity, Unlocked, At, Goto
<1>3. target[t] \in Threads /\ CounterTypes /\ ~aborted /\ Always(1) \in [Threads -> Int]
  BY <1>1, <1>2 DEF OwnCounts, Always
<1>4. CASE how[t] = "debug"
  <2>1. ModifyForDebugger({target[t]}, Always(1))
    BY <1>2, <1>4 DEF ModifyTarget
  <2>2. \A u \in {target[t]} : suspend_count[u] + Always(1)[u] >= 0
            /\ debug_suspend_count[u] + Always(1)[u] >= 0
    BY <1>1, <1>2, <1>3 DEF OwnCounts, Always
  <2>3. /\ ~aborted' /\ suspend_count' \in [Threads -> Nat]
               /\ debug_suspend_count' \in [Threads -> Nat]
        /\ \A u \in Threads :
              /\ suspend_count'[u] = IF u \in {target[t]}
                     THEN suspend_count[u] + Always(1)[u] ELSE suspend_count[u]
              /\ debug_suspend_count'[u] = IF u \in {target[t]}
                     THEN debug_suspend_count[u] + Always(1)[u] ELSE debug_suspend_count[u]
    BY <1>3, <2>1, <2>2, ModifyForDebuggerIs
  <2>4. \A u \in Threads :
              /\ suspend_count'[u] = IF u = target[t]
                     THEN suspend_count[u] + 1 ELSE suspend_count[u]
              /\ debug_suspend_count'[u] = IF u = target[t]
                     THEN debug_suspend_count[u] + 1 ELSE debug_suspend_count[u]
    BY <2>3 DEF Always
  <2>5. DebugCounted(t)' /\ DebugKept(t)
    BY <1>1, <1>2, <1>4, <2>4 DEF OwnCounts, DebugCounted, DebugKept, CounterTypes
  <2> HIDE DEF InPause, Raises
  <2>6. \A u \in list :
         suspend_count'[u] - debug_suspend_count'[u] =
             ((suspend_count[u] - debug_suspend_count[u])
              + (Bit(u # t /\ InPause(t)') - Bit(u # t /\ InPause(t))))
             + (Bit(Raises(t, u)') - Bit(Raises(t, u)))
    BY <1>1, <1>2, <1>4, <2>4 DEF OwnCounts, Bit
  <2> QED BY <1>1, <1>2, <2>3, <2>4, <2>5, <2>6 DEF Balanced, OwnCounts, CounterTypes, Bit
<1>5. CASE how[t] # "debug"
  <2>1. Modify({target[t]}, 1) /\ UNCHANGED debug_suspend_count
    BY <1>2, <1>5 DEF ModifyTarget
  <2>2. /\ ~aborted' /\ suspend_count' \in [Threads -> Nat]
        /\ \A u \in Threads : suspend_count'[u] = IF u \in {target[t]}
               THEN suspend_count[u] + 1 ELSE suspend_count[u]
    BY <1>3, <2>1, ModifyIs
  <2>3. DebugCounted(t)' /\ DebugKept(t)
    BY <1>1, <1>2, <1>5, <2>1 DEF OwnCounts, DebugCounted, DebugKept, CounterTypes
  <2> HIDE DEF InPause, Raises
  <2>4. \A u \in list :
         suspend_count'[u] - debug_suspend_count'[u] =
             ((suspend_count[u] - debug_suspend_count[u])
              + (Bit(u # t /\ InPause(t)') - Bit(u # t /\ InPause(t))))
             + (Bit(Raises(t, u)') - Bit(Raises(t, u)))
    BY <1>1, <1>2, <1>5, <2>1, <2>2 DEF OwnCounts, Bit
  <2> QED BY <1>1, <1>2, <2>1, <2>2, <2>3, <2>4 DEF Balanced, OwnCounts, CounterTypes, Bit
<1> QED BY <1>4, <1>5

\* A count that was raised for a thread whose peer is gone is lowered again; by id there is none.
LEMMA SxGoneBalances ==
    ASSUME CountInv, NEW t \in Threads, StepOf(t), PlaceTypes', SxGone(t)
    PROVE  Balanced(t)
<1>1. OwnCounts(t)
  BY OwnCountsHolds
<1>2. /\ list' = list /\ UNCHANGED <<suspend_all_count, debug_suspend_all_count>>
      /\ target[t] \in Threads /\ raised[t] \subseteq {target[t]} /\ raised[t] \subseteq list
      /\ ~InPause(t) /\ ~InPause(t)' /\ raised'[t] = {} /\ how'[t] = "id"
      /\ pc'[t] \notin DebugAllPcs \cup {"dr_resume"}
      /\ how[t] = "debug" => token = t
      /\ \A u \in list : ~Raises(t, u)' /\ (Raises(t, u) <=> u \in raised[t] /\ how[t] # "debug")
  BY <1>1 DEF SxGone, SxReturn, CallToSuspended, OwnCounts,
         OwnPlace, PlaceTypes, Fits, RaisedFits, TokenFits, InPause, Raises,
         IsSuspender, HasSuspended, TransitionPcs, LoopPcs, CheckpointPcs, FlippingPcs, PausePcs,
         DebugAllPcs, DebugResumePcs,
            RunnablePcs, SharePcs, SuspendAllPcs, ToRunnablePcs, ToSuspendedPcs,
         others, memory, mutator_lock, flow, closures, progress, asking, counts,
            all_counts, identity, Unlocked, At, Goto
<1>3. CounterTypes /\ ~aborted /\ Always(-1) \in [Threads -> Int]
  BY <1>1 DEF OwnCounts, Always
<1>4. CASE raised[t] = {}
  <2>1. UNCHANGED <<suspend_count, debug_suspend_count>> /\ ~aborted'
    BY <1>3, <1>4 DEF SxGone
  <2>2. DebugCounted(t)' /\ DebugKept(t)
    BY <1>1, <1>2, <2>1 DEF OwnCounts, DebugCounted, DebugKept, CounterTypes
  <2> HIDE DEF InPause, Raises
  <2> QED BY <1>1, <1>2, <1>4, <2>1, <2>2 DEF Balanced, OwnCounts, CounterTypes, Bit
<1>5. CASE raised[t] # {}
  <2>1. raised[t] = {target[t]} /\ target[t] \in list
    BY <1>2, <1>5
  <2>2. how[t] # "id" /\ ModifyTarget(t, -1)
    BY <1>1, <1>5, <2>1 DEF SxGone, Found
  <2>3. CASE how[t] = "debug"
    <3>1. ModifyForDebugger({target[t]}, Always(-1))
      BY <2>2, <2>3 DEF ModifyTarget
    <3>2. \A u \in {target[t]} : suspend_count[u] + Always(-1)[u] >= 0
              /\ debug_suspend_count[u] + Always(-1)[u] >= 0
      BY <1>1, <1>2, <2>1, <2>3 DEF OwnCounts, Always, DebugCounted
    <3>3. /\ ~aborted' /\ suspend_count' \in [Threads -> Nat]
                 /\ debug_suspend_count' \in [Threads -> Nat]
          /\ \A u \in Threads :
              /\ suspend_count'[u] = IF u \in {target[t]}
                     THEN suspend_count[u] + Always(-1)[u] ELSE suspend_count[u]
              /\ debug_suspend_count'[u] = IF u \in {target[t]}
                     THEN debug_suspend_count[u] + Always(-1)[u] ELSE debug_suspend_count[u]
      <4>1. {target[t]} \in SUBSET Threads
        BY <1>2
      <4> QED BY <1>3, <3>1, <3>2, <4>1, ModifyForDebuggerIs
    <3>4. \A u \in Threads :
              /\ suspend_count'[u] = IF u = target[t]
                     THEN suspend_count[u] - 1 ELSE suspend_count[u]
              /\ debug_suspend_count'[u] = IF u = target[t]
                     THEN debug_suspend_count[u] - 1 ELSE debug_suspend_count[u]
      BY <1>3, <3>3 DEF Always, CounterTypes
    <3>5. DebugCounted(t)' /\ DebugKept(t)
      BY <1>2, <2>3 DEF DebugCounted, DebugKept
    <3> HIDE DEF InPause, Raises
    <3>6. \A u \in list :
         suspend_count'[u] - debug_suspend_count'[u] =
             ((suspend_count[u] - debug_suspend_count[u])
              + (Bit(u # t /\ InPause(t)') - Bit(u # t /\ InPause(t))))
             + (Bit(Raises(t, u)') - Bit(Raises(t, u)))
      BY <1>1, <1>2, <2>3, <3>4 DEF OwnCounts, Bit
    <3> QED BY <1>1, <1>2, <2>1, <3>3, <3>4, <3>5, <3>6 DEF Balanced, OwnCounts, CounterTypes, Bit
  <2>4. CASE how[t] # "debug"
    <3>1. Modify({target[t]}, -1) /\ UNCHANGED debug_suspend_count
      BY <2>2, <2>4 DEF ModifyTarget
    <3>2. \A u \in {target[t]} : suspend_count[u] > 0
      BY <1>1, <1>2, <2>1, <2>4 DEF OwnCounts
    <3>3. /\ ~aborted' /\ suspend_count' \in [Threads -> Nat]
          /\ \A u \in Threads : suspend_count'[u] = IF u \in {target[t]}
                 THEN suspend_count[u] + (-1) ELSE suspend_count[u]
      BY <1>2, <1>3, <3>1, <3>2, ModifyIs
    <3>4. DebugCounted(t)' /\ DebugKept(t)
      BY <1>1, <1>2, <3>1 DEF OwnCounts, DebugCounted, DebugKept, CounterTypes
    <3> HIDE DEF InPause, Raises
    <3>5. \A u \in list :
         suspend_count'[u] - debug_suspend_count'[u] =
             ((suspend_count[u] - debug_suspend_count[u])
              + (Bit(u # t /\ InPause(t)') - Bit(u # t /\ InPause(t))))
             + (Bit(Raises(t, u)') - Bit(Raises(t, u)))
      BY <1>1, <1>2, <2>1, <2>4, <3>1, <3>3 DEF OwnCounts, Bit
    <3> QED BY <1>1, <1>2, <2>1, <3>1, <3>3, <3>4, <3>5 DEF Balanced, OwnCounts, CounterTypes, Bit
  <2> QED BY <2>3, <2>4
<1> QED BY <1>4, <1>5

\* Resume lowers the count, and leaves to the debugger what it has suspended.
LEMMA ResumeBalances ==
    ASSUME CountInv, NEW t \in Threads, StepOf(t), PlaceTypes', Resume(t)
    PROVE  Balanced(t)
<1>1. OwnCounts(t)
  BY OwnCountsHolds
<1>2. /\ list' = list
             /\ UNCHANGED <<suspend_all_count, debug_suspend_all_count, debug_suspend_count>>
      /\ target[t] \in list /\ raised[t] = {target[t]}
      /\ ~InPause(t) /\ ~InPause(t)' /\ raised'[t] = {} /\ how'[t] = "id"
      /\ pc'[t] \notin DebugAllPcs \cup {"dr_resume"}
      /\ \A u \in list : ~Raises(t, u)' /\ (Raises(t, u) <=> u = target[t] /\ how[t] # "debug")
  BY <1>1 DEF Resume, OwnCounts,
         OwnPlace, PlaceTypes, Fits, RaisedFits, TokenFits, InPause, Raises,
         IsSuspender, HasSuspended, TransitionPcs, LoopPcs, CheckpointPcs, FlippingPcs, PausePcs,
         DebugAllPcs, DebugResumePcs,
            RunnablePcs, SharePcs, SuspendAllPcs, ToRunnablePcs, ToSuspendedPcs,
         others, memory, mutator_lock, flow, closures, progress, asking, counts,
            all_counts, identity, Unlocked, At, Goto
<1>3. target[t] \in Threads /\ CounterTypes /\ ~aborted
  BY <1>1, <1>2 DEF OwnCounts
<1>4. DebugCounted(t)' /\ DebugKept(t)
  BY <1>1, <1>2 DEF OwnCounts, DebugCounted, DebugKept, CounterTypes
<1>5. CASE how[t] = "debug"
  <2>1. UNCHANGED suspend_count /\ ~aborted'
    BY <1>3, <1>5 DEF Resume
  <2> HIDE DEF InPause, Raises
  <2> QED BY <1>1, <1>2, <1>4, <1>5, <2>1 DEF Balanced, OwnCounts, CounterTypes, Bit
<1>6. CASE how[t] # "debug"
  <2>1. Modify({target[t]}, -1)
    <3>1. raised[t] \cap list = {target[t]}
      BY <1>2
    <3> QED BY <1>6, <3>1 DEF Resume
  <2>2. \A u \in {target[t]} : suspend_count[u] > 0
    BY <1>1, <1>2, <1>6 DEF OwnCounts
  <2>3. /\ ~aborted' /\ suspend_count' \in [Threads -> Nat]
        /\ \A u \in Threads : suspend_count'[u] = IF u \in {target[t]}
               THEN suspend_count[u] + (-1) ELSE suspend_count[u]
    BY <1>3, <2>1, <2>2, ModifyIs
  <2> HIDE DEF InPause, Raises
  <2>4. \A u \in list :
         suspend_count'[u] - debug_suspend_count'[u] =
             ((suspend_count[u] - debug_suspend_count[u])
              + (Bit(u # t /\ InPause(t)') - Bit(u # t /\ InPause(t))))
             + (Bit(Raises(t, u)') - Bit(Raises(t, u)))
    BY <1>1, <1>2, <1>6, <2>3 DEF OwnCounts, Bit
  <2> QED BY <1>1, <1>2, <1>4, <2>3, <2>4 DEF Balanced, OwnCounts, CounterTypes, Bit
<1> QED BY <1>5, <1>6

\* SuspendAllForDebugger raises both counts.
LEMMA SuspendAllForDebuggerBalances ==
    ASSUME CountInv, NEW t \in Threads, StepOf(t), PlaceTypes', SuspendAllForDebugger(t)
    PROVE  Balanced(t)
<1>1. OwnCounts(t)
  BY OwnCountsHolds
<1>2. /\ list' = list
      /\ (list \ {t, DebugThread}) \subseteq list
             /\ ModifyForDebugger((list \ {t, DebugThread}), Always(1))
      /\ ~InPause(t) /\ ~InPause(t)' /\ raised'[t] \subseteq list
      /\ \A u \in list : Raises(t, u)' <=> Raises(t, u)
      /\ token \notin Threads \ {t} /\ how'[t] # "debug" /\ pc'[t] = "da_lock"
  BY <1>1 DEF SuspendAllForDebugger, DebuggerIsFree, OwnCounts, DebuggerIsFree,
         OwnPlace, PlaceTypes, Fits, RaisedFits, TokenFits, InPause, Raises,
         IsSuspender, HasSuspended, TransitionPcs, LoopPcs, CheckpointPcs, FlippingPcs, PausePcs,
         DebugAllPcs, DebugResumePcs,
            RunnablePcs, SharePcs, SuspendAllPcs, ToRunnablePcs, ToSuspendedPcs,
         others, memory, mutator_lock, flow, closures, progress, asking, counts,
            all_counts, identity, Unlocked, At, Goto
<1>3. (list \ {t, DebugThread}) \in SUBSET Threads /\ CounterTypes /\ ~aborted
          /\ Always(1) \in [Threads -> Int]
  BY <1>1, <1>2 DEF OwnCounts, CounterTypes, Always
<1>4. \A u \in (list \ {t, DebugThread}) : suspend_count[u] + Always(1)[u] >= 0
          /\ debug_suspend_count[u] + Always(1)[u] >= 0
  BY <1>1, <1>2, <1>3 DEF OwnCounts, Always
<1>5. /\ ~aborted' /\ suspend_count' \in [Threads -> Nat]
             /\ debug_suspend_count' \in [Threads -> Nat]
      /\ \A u \in Threads :
            /\ suspend_count'[u] = IF u \in (list \ {t, DebugThread})
                   THEN suspend_count[u] + Always(1)[u] ELSE suspend_count[u]
            /\ debug_suspend_count'[u] = IF u \in (list \ {t, DebugThread})
                   THEN debug_suspend_count[u] + Always(1)[u] ELSE debug_suspend_count[u]
  BY <1>2, <1>3, <1>4, ModifyForDebuggerIs
<1>6. \A u \in Threads :
         /\ suspend_count'[u] = IF u \in (list \ {t, DebugThread})
                THEN suspend_count[u] + 1 ELSE suspend_count[u]
         /\ debug_suspend_count'[u] = IF u \in (list \ {t, DebugThread})
                THEN debug_suspend_count[u] + 1 ELSE debug_suspend_count[u]
  BY <1>5 DEF Always
<1>7. /\ {suspend_all_count', debug_suspend_all_count'} \subseteq Nat
      /\ suspend_all_count' - debug_suspend_all_count' = suspend_all_count - debug_suspend_all_count
  BY <1>1 DEF SuspendAllForDebugger, DebuggerIsFree, OwnCounts, all_counts
<1>8. DebugCounted(t)'
  BY <1>1, <1>2, <1>6 DEF SuspendAllForDebugger, DebuggerIsFree, DebugCounted, OwnCounts, asking,
      memory, identity, all_counts, DebugAllPcs
<1>9. DebugKept(t)
  BY <1>2 DEF DebugKept
<1> HIDE DEF InPause, Raises, Always
<1>10. \A u \in list :
         suspend_count'[u] - debug_suspend_count'[u] =
             ((suspend_count[u] - debug_suspend_count[u])
              + (Bit(u # t /\ InPause(t)') - Bit(u # t /\ InPause(t))))
             + (Bit(Raises(t, u)') - Bit(Raises(t, u)))
  BY <1>1, <1>2, <1>6 DEF OwnCounts, Bit
<1>11. suspend_all_count' - debug_suspend_all_count' =
          (suspend_all_count - debug_suspend_all_count) + (Bit(InPause(t)') - Bit(InPause(t)))
  <2>1. ~InPause(t)' /\ ~InPause(t)
    BY <1>2
  <2>2. suspend_all_count \in Nat /\ debug_suspend_all_count \in Nat
    BY <1>1 DEF OwnCounts
  <2> QED BY <1>7, <2>1, <2>2 DEF Bit
<1>12. /\ CounterTypes' /\ list' = list /\ ~aborted' /\ raised'[t] \subseteq list
       /\ \A u \in Threads \ list :
             suspend_count'[u] = suspend_count[u]
                 /\ debug_suspend_count'[u] = debug_suspend_count[u]
  BY <1>1, <1>2, <1>5, <1>6, <1>7 DEF OwnCounts, CounterTypes
<1> QED BY <1>8, <1>9, <1>10, <1>11, <1>12 DEF Balanced

\* SuspendSelfForDebugger raises both counts of the thread itself.
LEMMA DsRaiseBalances ==
    ASSUME CountInv, NEW t \in Threads, StepOf(t), PlaceTypes', DsRaise(t)
    PROVE  Balanced(t)
<1>1. OwnCounts(t)
  BY OwnCountsHolds
<1>2. /\ list' = list
      /\ {t} \subseteq list /\ ModifyForDebugger({t}, Always(1))
      /\ ~InPause(t) /\ ~InPause(t)' /\ raised'[t] \subseteq list
      /\ \A u \in list : Raises(t, u)' <=> Raises(t, u)
      /\ token \notin Threads \ {t} /\ how'[t] # "debug" /\ pc'[t] = "ds_recheck"
  BY <1>1 DEF DsRaise, OwnCounts,
         OwnPlace, PlaceTypes, Fits, RaisedFits, TokenFits, InPause, Raises,
         IsSuspender, HasSuspended, TransitionPcs, LoopPcs, CheckpointPcs, FlippingPcs, PausePcs,
         DebugAllPcs, DebugResumePcs,
            RunnablePcs, SharePcs, SuspendAllPcs, ToRunnablePcs, ToSuspendedPcs,
         others, memory, mutator_lock, flow, closures, progress, asking, counts,
            all_counts, identity, Unlocked, At, Goto
<1>3. {t} \in SUBSET Threads /\ CounterTypes /\ ~aborted /\ Always(1) \in [Threads -> Int]
  BY <1>1, <1>2 DEF OwnCounts, CounterTypes, Always
<1>4. \A u \in {t} : suspend_count[u] + Always(1)[u] >= 0
          /\ debug_suspend_count[u] + Always(1)[u] >= 0
  BY <1>1, <1>2, <1>3 DEF OwnCounts, Always
<1>5. /\ ~aborted' /\ suspend_count' \in [Threads -> Nat]
             /\ debug_suspend_count' \in [Threads -> Nat]
      /\ \A u \in Threads :
            /\ suspend_count'[u] = IF u \in {t}
                   THEN suspend_count[u] + Always(1)[u] ELSE suspend_count[u]
            /\ debug_suspend_count'[u] = IF u \in {t}
                   THEN debug_suspend_count[u] + Always(1)[u] ELSE debug_suspend_count[u]
  BY <1>2, <1>3, <1>4, ModifyForDebuggerIs
<1>6. \A u \in Threads :
         /\ suspend_count'[u] = IF u \in {t} THEN suspend_count[u] + 1 ELSE suspend_count[u]
         /\ debug_suspend_count'[u] = IF u \in {t}
                THEN debug_suspend_count[u] + 1 ELSE debug_suspend_count[u]
  BY <1>5 DEF Always
<1>7. /\ {suspend_all_count', debug_suspend_all_count'} \subseteq Nat
      /\ suspend_all_count' - debug_suspend_all_count' = suspend_all_count - debug_suspend_all_count
  BY <1>1 DEF DsRaise, OwnCounts, all_counts
<1>8. DebugCounted(t)'
  BY <1>1, <1>2, <1>6 DEF DsRaise, DebugCounted, OwnCounts, asking, memory, identity, all_counts,
      DebugAllPcs
<1>9. DebugKept(t)
  BY <1>2 DEF DebugKept
<1> HIDE DEF InPause, Raises, Always
<1>10. \A u \in list :
         suspend_count'[u] - debug_suspend_count'[u] =
             ((suspend_count[u] - debug_suspend_count[u])
              + (Bit(u # t /\ InPause(t)') - Bit(u # t /\ InPause(t))))
             + (Bit(Raises(t, u)') - Bit(Raises(t, u)))
  BY <1>1, <1>2, <1>6 DEF OwnCounts, Bit
<1>11. suspend_all_count' - debug_suspend_all_count' =
          (suspend_all_count - debug_suspend_all_count) + (Bit(InPause(t)') - Bit(InPause(t)))
  <2>1. ~InPause(t)' /\ ~InPause(t)
    BY <1>2
  <2>2. suspend_all_count \in Nat /\ debug_suspend_all_count \in Nat
    BY <1>1 DEF OwnCounts
  <2> QED BY <1>7, <2>1, <2>2 DEF Bit
<1>12. /\ CounterTypes' /\ list' = list /\ ~aborted' /\ raised'[t] \subseteq list
       /\ \A u \in Threads \ list :
             suspend_count'[u] = suspend_count[u]
                 /\ debug_suspend_count'[u] = debug_suspend_count[u]
  BY <1>1, <1>2, <1>5, <1>6, <1>7 DEF OwnCounts, CounterTypes
<1> QED BY <1>8, <1>9, <1>10, <1>11, <1>12 DEF Balanced

\* ResumeAllForDebugger lowers both counts of the threads that the debugger has suspended.
LEMMA ResumeAllForDebuggerBalances ==
    ASSUME CountInv, NEW t \in Threads, StepOf(t), PlaceTypes', ResumeAllForDebugger(t)
    PROVE  Balanced(t)
<1>1. OwnCounts(t)
  BY OwnCountsHolds
<1>2. /\ list' = list
      /\ DebugSuspended(t) \subseteq list /\ ModifyForDebugger(DebugSuspended(t), Always(-1))
      /\ ~InPause(t) /\ ~InPause(t)' /\ raised'[t] \subseteq list
      /\ \A u \in list : Raises(t, u)' <=> Raises(t, u)
      /\ token \notin Threads \ {t} /\ how'[t] # "debug" /\ pc'[t] = "db_bcast"
  BY <1>1 DEF ResumeAllForDebugger, DebuggerIsFree, OwnCounts, DebugSuspended,
         OwnPlace, PlaceTypes, Fits, RaisedFits, TokenFits, InPause, Raises,
         IsSuspender, HasSuspended, TransitionPcs, LoopPcs, CheckpointPcs, FlippingPcs, PausePcs,
         DebugAllPcs, DebugResumePcs,
            RunnablePcs, SharePcs, SuspendAllPcs, ToRunnablePcs, ToSuspendedPcs,
         others, memory, mutator_lock, flow, closures, progress, asking, counts,
            all_counts, identity, Unlocked, At, Goto
<1>3. DebugSuspended(t) \in SUBSET Threads /\ CounterTypes /\ ~aborted
          /\ Always(-1) \in [Threads -> Int]
  BY <1>1, <1>2 DEF OwnCounts, CounterTypes, Always
<1>4. \A u \in DebugSuspended(t) : suspend_count[u] + Always(-1)[u] >= 0
          /\ debug_suspend_count[u] + Always(-1)[u] >= 0
  BY <1>1, <1>2, <1>3 DEF OwnCounts, Always, DebugSuspended
<1>5. /\ ~aborted' /\ suspend_count' \in [Threads -> Nat]
             /\ debug_suspend_count' \in [Threads -> Nat]
      /\ \A u \in Threads :
            /\ suspend_count'[u] = IF u \in DebugSuspended(t)
                   THEN suspend_count[u] + Always(-1)[u] ELSE suspend_count[u]
            /\ debug_suspend_count'[u] = IF u \in DebugSuspended(t)
                   THEN debug_suspend_count[u] + Always(-1)[u] ELSE debug_suspend_count[u]
  BY <1>2, <1>3, <1>4, ModifyForDebuggerIs
<1>6. \A u \in Threads :
         /\ suspend_count'[u] = IF u \in DebugSuspended(t)
                THEN suspend_count[u] + (-1) ELSE suspend_count[u]
         /\ debug_suspend_count'[u] = IF u \in DebugSuspended(t)
                THEN debug_suspend_count[u] + (-1) ELSE debug_suspend_count[u]
  BY <1>5 DEF Always
<1>7. /\ {suspend_all_count', debug_suspend_all_count'} \subseteq Nat
      /\ suspend_all_count' - debug_suspend_all_count' = suspend_all_count - debug_suspend_all_count
  BY <1>1 DEF ResumeAllForDebugger, DebuggerIsFree, OwnCounts, all_counts
<1>8. DebugCounted(t)'
  BY <1>1, <1>2, <1>6 DEF ResumeAllForDebugger, DebuggerIsFree, DebugCounted, OwnCounts, asking,
      memory, identity, all_counts, DebugAllPcs
<1>9. DebugKept(t)
  BY <1>2 DEF DebugKept
<1> HIDE DEF InPause, Raises, Always
<1>10. \A u \in list :
         suspend_count'[u] - debug_suspend_count'[u] =
             ((suspend_count[u] - debug_suspend_count[u])
              + (Bit(u # t /\ InPause(t)') - Bit(u # t /\ InPause(t))))
             + (Bit(Raises(t, u)') - Bit(Raises(t, u)))
  BY <1>1, <1>2, <1>6 DEF OwnCounts, Bit
<1>11. suspend_all_count' - debug_suspend_all_count' =
          (suspend_all_count - debug_suspend_all_count) + (Bit(InPause(t)') - Bit(InPause(t)))
  <2>1. ~InPause(t)' /\ ~InPause(t)
    BY <1>2
  <2>2. suspend_all_count \in Nat /\ debug_suspend_all_count \in Nat
    BY <1>1 DEF OwnCounts
  <2> QED BY <1>7, <2>1, <2>2 DEF Bit
<1>12. /\ CounterTypes' /\ list' = list /\ ~aborted' /\ raised'[t] \subseteq list
       /\ \A u \in Threads \ list :
             suspend_count'[u] = suspend_count[u]
                 /\ debug_suspend_count'[u] = debug_suspend_count[u]
  BY <1>1, <1>2, <1>5, <1>6, <1>7 DEF OwnCounts, CounterTypes
<1> QED BY <1>8, <1>9, <1>10, <1>11, <1>12 DEF Balanced

\* UndoDebuggerSuspensions takes the debugger's share of both counts back.
LEMMA UndoDebuggerSuspensionsBalances ==
    ASSUME CountInv, NEW t \in Threads, StepOf(t), PlaceTypes', UndoDebuggerSuspensions(t)
    PROVE  Balanced(t)
<1>1. OwnCounts(t)
  BY OwnCountsHolds
<1>2. /\ list' = list
      /\ DebugSuspended(t) \subseteq list /\ ModifyForDebugger(DebugSuspended(t), Undo)
      /\ ~InPause(t) /\ ~InPause(t)' /\ raised'[t] \subseteq list
      /\ \A u \in list : Raises(t, u)' <=> Raises(t, u)
      /\ token \notin Threads \ {t} /\ how'[t] # "debug" /\ pc'[t] = "db_bcast"
  BY <1>1 DEF UndoDebuggerSuspensions, DebuggerIsFree, OwnCounts, DebugSuspended,
         OwnPlace, PlaceTypes, Fits, RaisedFits, TokenFits, InPause, Raises,
         IsSuspender, HasSuspended, TransitionPcs, LoopPcs, CheckpointPcs, FlippingPcs, PausePcs,
         DebugAllPcs, DebugResumePcs,
            RunnablePcs, SharePcs, SuspendAllPcs, ToRunnablePcs, ToSuspendedPcs,
         others, memory, mutator_lock, flow, closures, progress, asking, counts,
            all_counts, identity, Unlocked, At, Goto
<1>3. DebugSuspended(t) \in SUBSET Threads /\ CounterTypes /\ ~aborted /\ Undo \in [Threads -> Int]
  BY <1>1, <1>2 DEF OwnCounts, CounterTypes, Undo
<1>4. \A u \in DebugSuspended(t) : suspend_count[u] + Undo[u] >= 0
          /\ debug_suspend_count[u] + Undo[u] >= 0
  BY <1>1, <1>2, <1>3 DEF OwnCounts, Undo
<1>5. /\ ~aborted' /\ suspend_count' \in [Threads -> Nat]
             /\ debug_suspend_count' \in [Threads -> Nat]
      /\ \A u \in Threads :
            /\ suspend_count'[u] = IF u \in DebugSuspended(t)
                   THEN suspend_count[u] + Undo[u] ELSE suspend_count[u]
            /\ debug_suspend_count'[u] = IF u \in DebugSuspended(t)
                   THEN debug_suspend_count[u] + Undo[u] ELSE debug_suspend_count[u]
  BY <1>2, <1>3, <1>4, ModifyForDebuggerIs
<1>6. \A u \in Threads :
         /\ suspend_count'[u] = IF u \in DebugSuspended(t)
                THEN suspend_count[u] + (-debug_suspend_count[u]) ELSE suspend_count[u]
         /\ debug_suspend_count'[u] = IF u \in DebugSuspended(t)
                THEN debug_suspend_count[u] + (-debug_suspend_count[u]) ELSE debug_suspend_count[u]
  BY <1>5 DEF Undo
<1>7. /\ {suspend_all_count', debug_suspend_all_count'} \subseteq Nat
      /\ suspend_all_count' - debug_suspend_all_count' = suspend_all_count - debug_suspend_all_count
  BY <1>1 DEF UndoDebuggerSuspensions, DebuggerIsFree, OwnCounts, all_counts, UndoAllCounts
<1>8. DebugCounted(t)'
  BY <1>1, <1>2, <1>6 DEF UndoDebuggerSuspensions, DebuggerIsFree, DebugCounted, OwnCounts,
      asking, memory, identity, all_counts, DebugAllPcs
<1>9. DebugKept(t)
  BY <1>2 DEF DebugKept
<1> HIDE DEF InPause, Raises, Undo
<1>10. \A u \in list :
         suspend_count'[u] - debug_suspend_count'[u] =
             ((suspend_count[u] - debug_suspend_count[u])
              + (Bit(u # t /\ InPause(t)') - Bit(u # t /\ InPause(t))))
             + (Bit(Raises(t, u)') - Bit(Raises(t, u)))
  BY <1>1, <1>2, <1>6 DEF OwnCounts, Bit
<1>11. suspend_all_count' - debug_suspend_all_count' =
          (suspend_all_count - debug_suspend_all_count) + (Bit(InPause(t)') - Bit(InPause(t)))
  <2>1. ~InPause(t)' /\ ~InPause(t)
    BY <1>2
  <2>2. suspend_all_count \in Nat /\ debug_suspend_all_count \in Nat
    BY <1>1 DEF OwnCounts
  <2> QED BY <1>7, <2>1, <2>2 DEF Bit
<1>12. /\ CounterTypes' /\ list' = list /\ ~aborted' /\ raised'[t] \subseteq list
       /\ \A u \in Threads \ list :
             suspend_count'[u] = suspend_count[u]
                 /\ debug_suspend_count'[u] = debug_suspend_count[u]
  BY <1>1, <1>2, <1>5, <1>6, <1>7 DEF OwnCounts, CounterTypes
<1> QED BY <1>8, <1>9, <1>10, <1>11, <1>12 DEF Balanced

\* Dbg::ResumeThread lowers both counts of a thread that the debugger has suspended.
LEMMA DrResumeBalances ==
    ASSUME CountInv, NEW t \in Threads, StepOf(t), PlaceTypes', DrResume(t)
    PROVE  Balanced(t)
<1>1. OwnCounts(t)
  BY OwnCountsHolds
<1>2. /\ list' = list
      /\ ({target[t]} \cap list) \subseteq list
             /\ ModifyForDebugger(({target[t]} \cap list), Always(-1))
      /\ ~InPause(t) /\ ~InPause(t)' /\ raised'[t] \subseteq list
      /\ \A u \in list : Raises(t, u)' <=> Raises(t, u)
      /\ token \notin Threads \ {t} /\ how'[t] # "debug" /\ pc[t] = "dr_resume"
             /\ pc'[t] = "dr_bcast"
  BY <1>1 DEF DrResume, OwnCounts,
         OwnPlace, PlaceTypes, Fits, RaisedFits, TokenFits, InPause, Raises,
         IsSuspender, HasSuspended, TransitionPcs, LoopPcs, CheckpointPcs, FlippingPcs, PausePcs,
         DebugAllPcs, DebugResumePcs,
            RunnablePcs, SharePcs, SuspendAllPcs, ToRunnablePcs, ToSuspendedPcs,
         others, memory, mutator_lock, flow, closures, progress, asking, counts,
            all_counts, identity, Unlocked, At, Goto
<1>3. ({target[t]} \cap list) \in SUBSET Threads /\ CounterTypes /\ ~aborted
          /\ Always(-1) \in [Threads -> Int]
  BY <1>1, <1>2 DEF OwnCounts, CounterTypes, Always
<1>4. \A u \in ({target[t]} \cap list) : suspend_count[u] + Always(-1)[u] >= 0
          /\ debug_suspend_count[u] + Always(-1)[u] >= 0
  BY <1>1, <1>2, <1>3 DEF OwnCounts, Always, DebugCounted
<1>5. /\ ~aborted' /\ suspend_count' \in [Threads -> Nat]
             /\ debug_suspend_count' \in [Threads -> Nat]
      /\ \A u \in Threads :
            /\ suspend_count'[u] = IF u \in ({target[t]} \cap list)
                   THEN suspend_count[u] + Always(-1)[u] ELSE suspend_count[u]
            /\ debug_suspend_count'[u] = IF u \in ({target[t]} \cap list)
                   THEN debug_suspend_count[u] + Always(-1)[u] ELSE debug_suspend_count[u]
  BY <1>2, <1>3, <1>4, ModifyForDebuggerIs
<1>6. \A u \in Threads :
         /\ suspend_count'[u] = IF u \in ({target[t]} \cap list)
                THEN suspend_count[u] + (-1) ELSE suspend_count[u]
         /\ debug_suspend_count'[u] = IF u \in ({target[t]} \cap list)
                THEN debug_suspend_count[u] + (-1) ELSE debug_suspend_count[u]
  BY <1>5 DEF Always
<1>7. /\ {suspend_all_count', debug_suspend_all_count'} \subseteq Nat
      /\ suspend_all_count' - debug_suspend_all_count' = suspend_all_count - debug_suspend_all_count
  BY <1>1 DEF DrResume, OwnCounts, all_counts
<1>8. DebugCounted(t)'
  BY <1>1, <1>2, <1>6 DEF DrResume, DebugCounted, OwnCounts, asking, memory, identity,
      all_counts, DebugAllPcs
<1>9. DebugKept(t)
  BY <1>2 DEF DebugKept
<1> HIDE DEF InPause, Raises, Always
<1>10. \A u \in list :
         suspend_count'[u] - debug_suspend_count'[u] =
             ((suspend_count[u] - debug_suspend_count[u])
              + (Bit(u # t /\ InPause(t)') - Bit(u # t /\ InPause(t))))
             + (Bit(Raises(t, u)') - Bit(Raises(t, u)))
  BY <1>1, <1>2, <1>6 DEF OwnCounts, Bit
<1>11. suspend_all_count' - debug_suspend_all_count' =
          (suspend_all_count - debug_suspend_all_count) + (Bit(InPause(t)') - Bit(InPause(t)))
  <2>1. ~InPause(t)' /\ ~InPause(t)
    BY <1>2
  <2>2. suspend_all_count \in Nat /\ debug_suspend_all_count \in Nat
    BY <1>1 DEF OwnCounts
  <2> QED BY <1>7, <2>1, <2>2 DEF Bit
<1>12. /\ CounterTypes' /\ list' = list /\ ~aborted' /\ raised'[t] \subseteq list
       /\ \A u \in Threads \ list :
             suspend_count'[u] = suspend_count[u]
                 /\ debug_suspend_count'[u] = debug_suspend_count[u]
  BY <1>1, <1>2, <1>5, <1>6, <1>7 DEF OwnCounts, CounterTypes
<1> QED BY <1>8, <1>9, <1>10, <1>11, <1>12 DEF Balanced

\* A thread that is not in list_ has no raised count, so the CHECK holds.
LEMMA SxUnattachedIdles ==
    ASSUME CountInv, NEW t \in Threads, SxUnattached(t)
    PROVE  Idle(t)
<1>1. OwnCounts(t) /\ Stopped(t)
  BY OwnCountsHolds DEF CountInv
<1>2. raised[t] = {}
  BY <1>1 DEF SxUnattached, SxReturn, CallToSuspended, OwnCounts, 
         OwnPlace, PlaceTypes, Fits, RaisedFits, TokenFits, InPause, Raises,
         IsSuspender, HasSuspended, TransitionPcs, LoopPcs, CheckpointPcs, FlippingPcs, PausePcs,
         DebugAllPcs, DebugResumePcs,
            RunnablePcs, SharePcs, SuspendAllPcs, ToRunnablePcs, ToSuspendedPcs,
         others, memory, mutator_lock, flow, closures, progress, asking, counts,
            all_counts, identity, Unlocked, At, Goto
<1>3. ~aborted'
  BY <1>1, <1>2 DEF SxUnattached, OwnCounts
<1> QED BY <1>1, <1>2, <1>3 DEF SxUnattached, SxReturn, CallToSuspended, OwnCounts, Idle,
         OwnPlace, PlaceTypes, Fits, RaisedFits, TokenFits, InPause, Raises,
         IsSuspender, HasSuspended, TransitionPcs, LoopPcs, CheckpointPcs, FlippingPcs, PausePcs,
         DebugAllPcs, DebugResumePcs,
            RunnablePcs, SharePcs, SuspendAllPcs, ToRunnablePcs, ToSuspendedPcs,
         others, memory, mutator_lock, flow, closures, progress, asking, counts,
            all_counts, identity, Unlocked, At, Goto

\* A thread whose count is raised still has it: CHECK_GT(suspend_count, 0) holds.
LEMMA SxPollIdles ==
    ASSUME CountInv, NEW t \in Threads, SxPoll(t)
    PROVE  Idle(t)
<1>1. OwnCounts(t) /\ Stopped(t)
  BY OwnCountsHolds DEF CountInv
<1>2. ~(suspend_count[target[t]] <= 0)
  BY <1>1 DEF SxPoll, SxAwait, CallToSuspended, OwnCounts, DebugCounted,
         OwnPlace, PlaceTypes, Fits, RaisedFits, TokenFits, InPause, Raises,
         IsSuspender, HasSuspended, TransitionPcs, LoopPcs, CheckpointPcs, FlippingPcs, PausePcs,
         DebugAllPcs, DebugResumePcs,
            RunnablePcs, SharePcs, SuspendAllPcs, ToRunnablePcs, ToSuspendedPcs,
         others, memory, mutator_lock, flow, closures, progress, asking, counts,
            all_counts, identity, Unlocked, At, Goto
<1>3. ~aborted'
  BY <1>1, <1>2 DEF SxPoll, OwnCounts
<1> QED BY <1>1, <1>2, <1>3 DEF SxPoll, SxAwait, CallToSuspended, OwnCounts, Idle,
         OwnPlace, PlaceTypes, Fits, RaisedFits, TokenFits, InPause, Raises,
         IsSuspender, HasSuspended, TransitionPcs, LoopPcs, CheckpointPcs, FlippingPcs, PausePcs,
         DebugAllPcs, DebugResumePcs,
            RunnablePcs, SharePcs, SuspendAllPcs, ToRunnablePcs, ToSuspendedPcs,
         others, memory, mutator_lock, flow, closures, progress, asking, counts,
            all_counts, identity, Unlocked, At, Goto

\* The flip functions that the collector runs belong to suspended threads.
LEMMA FlRunIdles ==
    ASSUME CountInv, NEW t \in Threads, FlRun(t)
    PROVE  Idle(t)
<1>1. OwnCounts(t) /\ Stopped(t)
  BY OwnCountsHolds DEF CountInv
<1>2. \A u \in raised[t] : IsSuspended(u)
  BY <1>1 DEF FlRun, OwnCounts, IsSuspended, Stopped,
         OwnPlace, PlaceTypes, Fits, RaisedFits, TokenFits, InPause, Raises,
         IsSuspender, HasSuspended, TransitionPcs, LoopPcs, CheckpointPcs, FlippingPcs, PausePcs,
         DebugAllPcs, DebugResumePcs,
            RunnablePcs, SharePcs, SuspendAllPcs, ToRunnablePcs, ToSuspendedPcs,
         others, memory, mutator_lock, flow, closures, progress, asking, counts,
            all_counts, identity, Unlocked, At, Goto
<1>3. ~aborted'
  BY <1>1, <1>2 DEF FlRun, OwnCounts
<1> QED BY <1>1, <1>2, <1>3 DEF FlRun, OwnCounts, Idle,
         OwnPlace, PlaceTypes, Fits, RaisedFits, TokenFits, InPause, Raises,
         IsSuspender, HasSuspended, TransitionPcs, LoopPcs, CheckpointPcs, FlippingPcs, PausePcs,
         DebugAllPcs, DebugResumePcs,
            RunnablePcs, SharePcs, SuspendAllPcs, ToRunnablePcs, ToSuspendedPcs,
         others, memory, mutator_lock, flow, closures, progress, asking, counts,
            all_counts, identity, Unlocked, At, Goto

\* AssertThreadsAreSuspended holds: the debugger has every other thread suspended.
LEMMA DaAssertIdles ==
    ASSUME CountInv, NEW t \in Threads, DaAssert(t)
    PROVE  Idle(t)
<1>1. OwnCounts(t) /\ Stopped(t)
  BY OwnCountsHolds DEF CountInv
<1>2. \A u \in list \ {t, DebugThread} : IsSuspended(u)
  BY <1>1 DEF DaAssert, OwnCounts, IsSuspended, Stopped, DebugCounted,
         OwnPlace, PlaceTypes, Fits, RaisedFits, TokenFits, InPause, Raises,
         IsSuspender, HasSuspended, TransitionPcs, LoopPcs, CheckpointPcs, FlippingPcs, PausePcs,
         DebugAllPcs, DebugResumePcs,
            RunnablePcs, SharePcs, SuspendAllPcs, ToRunnablePcs, ToSuspendedPcs,
         others, memory, mutator_lock, flow, closures, progress, asking, counts,
            all_counts, identity, Unlocked, At, Goto
<1>3. ~aborted'
  BY <1>1, <1>2 DEF DaAssert, OwnCounts
<1> QED BY <1>1, <1>2, <1>3 DEF DaAssert, OwnCounts, Idle,
         OwnPlace, PlaceTypes, Fits, RaisedFits, TokenFits, InPause, Raises,
         IsSuspender, HasSuspended, TransitionPcs, LoopPcs, CheckpointPcs, FlippingPcs, PausePcs,
         DebugAllPcs, DebugResumePcs,
            RunnablePcs, SharePcs, SuspendAllPcs, ToRunnablePcs, ToSuspendedPcs,
         others, memory, mutator_lock, flow, closures, progress, asking, counts,
            all_counts, identity, Unlocked, At, Goto

\* Where Dbg::ResumeThread is used, every suspension is the debugger's.
LEMMA DebuggerAlone ==
    ASSUME CountInv, "debug_resume" \in Ops, NEW u \in list
    PROVE  suspend_count[u] = debug_suspend_count[u]
<1>1. u \in Threads /\ \A s \in Threads : Alone(s) /\ RaisedFits(s)
  BY DEF CountInv, Fits, PlaceTypes
<1>2. {s \in Threads \ {u} : pc[s] \in SuspendAllPcs} = {}
  BY <1>1 DEF Alone
<1>3. {s \in Threads : u \in raised[s] /\ how[s] # "debug"} = {}
  BY <1>1 DEF Alone, RaisedFits
<1>4. OutstandingRequests(u) = 0
  <2>1. /\ Cardinality({s \in Threads \ {u} : pc[s] \in SuspendAllPcs}) = 0
        /\ Cardinality({s \in Threads : u \in raised[s] /\ how[s] # "debug"}) = 0
    BY <1>2, <1>3, FS_EmptySet
  <2> QED BY <2>1 DEF OutstandingRequests
<1>5. suspend_count[u] - debug_suspend_count[u] = 0
  BY <1>4 DEF CountInv, Counted, CountsMatchRequests
<1> QED BY <1>1, <1>5 DEF CountInv, CounterTypes

\* So a thread that it finds suspended has been suspended by the debugger.
LEMMA DrTestBalances ==
    ASSUME CountInv, NEW t \in Threads, StepOf(t), PlaceTypes', DrTest(t)
    PROVE  Balanced(t)
<1>1. OwnCounts(t)
  BY OwnCountsHolds
<1>2. /\ UNCHANGED <<list, suspend_count, debug_suspend_count, suspend_all_count, debug_suspend_all_count, how, raised>>
      /\ ~aborted' /\ ~InPause(t) /\ ~InPause(t)' /\ pc'[t] \notin DebugAllPcs /\ how[t] # "debug"
      /\ \A u \in list : Raises(t, u)' <=> Raises(t, u)
  BY <1>1 DEF DrTest, OwnCounts,
         OwnPlace, PlaceTypes, Fits, RaisedFits, TokenFits, InPause, Raises,
         IsSuspender, HasSuspended, TransitionPcs, LoopPcs, CheckpointPcs, FlippingPcs, PausePcs,
         DebugAllPcs, DebugResumePcs,
            RunnablePcs, SharePcs, SuspendAllPcs, ToRunnablePcs, ToSuspendedPcs,
         others, memory, mutator_lock, flow, closures, progress, asking, counts,
            all_counts, identity, Unlocked, At, Goto
<1>3. "debug_resume" \in Ops /\ target[t] \in Threads
  BY <1>1 DEF DrTest, OwnCounts, OwnPlace, Fits, TokenFits, DebugResumePcs, At
<1>4. suspend_count[target[t]] > 0 => target[t] \in list /\ debug_suspend_count[target[t]] > 0
  <2>1. suspend_count[target[t]] > 0 => target[t] \in list
    BY <1>3 DEF CountInv, Counted
  <2> QED BY <1>3, <2>1, DebuggerAlone
<1>5. pc'[t] = "dr_resume" => target'[t] \in list /\ debug_suspend_count[target'[t]] > 0
  BY <1>1, <1>4 DEF DrTest, OwnCounts, OwnPlace, Goto
<1>6. DebugCounted(t)' /\ DebugKept(t)
  BY <1>1, <1>2, <1>5 DEF DebugCounted, DebugKept, OwnCounts, CounterTypes
<1> HIDE DEF InPause, Raises
<1> QED BY <1>1, <1>2, <1>6 DEF Balanced, OwnCounts, CounterTypes, Bit

\* A thread that attaches gets the counts of the pauses that are under way.
LEMMA RegisterCounts ==
    ASSUME CountInv, NEW t \in Threads, StepOf(t), PlaceTypes', Register(t)
    PROVE  CounterTypes' /\ Counted' /\ \A s \in Threads : DebugCounted(s)'
<1>1. OwnCounts(t) /\ CounterTypes /\ PlaceTypes
  BY OwnCountsHolds DEF CountInv
<1>2. /\ t \notin list /\ list' = list \cup {t} /\ pc[t] = "born"
             /\ pc' = [pc EXCEPT ![t] = "native"]
      /\ suspend_count' = [suspend_count EXCEPT ![t] = suspend_all_count]
      /\ debug_suspend_count' = [debug_suspend_count EXCEPT ![t] = debug_suspend_all_count]
      /\ UNCHANGED <<suspend_all_count, debug_suspend_all_count, raised, how, target, aborted>>
  BY <1>1 DEF Register, InitialCounts, OwnCounts, OwnPlace, all_counts, asking, At, Goto
<1>3. CounterTypes'
  BY <1>1, <1>2 DEF CounterTypes
<1>4. pc \in [Threads -> Pcs] /\ \A s \in Threads : raised[s] \subseteq list
  BY <1>1, CountsAre DEF OwnCounts, OwnPlace
<1>5. ~InPause(t) /\ ~InPause(t)' /\ \A u \in Threads : Raises(t, u)' <=> Raises(t, u)
  BY <1>2, <1>4 DEF InPause, Raises, SuspendAllPcs
<1>6. Pauses' = Pauses /\ Pauses \in Nat
          /\ \A u \in Threads : OutstandingRequests(u)' = OutstandingRequests(u)
  <2>1. /\ \A u \in Threads :
              /\ OutstandingRequests(u) \in Nat /\ OutstandingRequests(u)' \in Nat
              /\ OutstandingRequests(u)' =
                   ((OutstandingRequests(u) - Bit(u # t /\ InPause(t))) + Bit(u # t /\ InPause(t)'))
                   + (Bit(Raises(t, u)') - Bit(Raises(t, u)))
        /\ Pauses \in Nat /\ Pauses' \in Nat
        /\ Pauses' = (Pauses - Bit(InPause(t))) + Bit(InPause(t)')
    BY <1>1, RequestsMove
  <2> HIDE DEF Pauses, OutstandingRequests, InPause, Raises
  <2> QED BY <1>5, <2>1 DEF Bit
<1>7. OutstandingRequests(t) = Pauses
  <2>1. {s \in Threads \ {t} : pc[s] \in SuspendAllPcs} = {s \in Threads : pc[s] \in SuspendAllPcs}
    BY <1>5 DEF InPause
  <2>2. {s \in Threads : t \in raised[s] /\ how[s] # "debug"} = {}
    BY <1>2, <1>4
  <2>3. Cardinality({s \in Threads : t \in raised[s] /\ how[s] # "debug"}) = 0
    BY <2>2, FS_EmptySet
  <2>4. OutstandingRequests(t) = Pauses + 0
    BY <2>1, <2>3 DEF OutstandingRequests, Pauses
  <2> HIDE DEF Pauses
  <2> QED BY <1>6, <2>4
<1>8. suspend_all_count - debug_suspend_all_count = Pauses
  BY DEF CountInv, Counted, CountsMatchRequests, Pauses
<1>9. \A u \in list' : suspend_count'[u] - debug_suspend_count'[u] = OutstandingRequests(u)'
  <2>1. \A u \in list : suspend_count[u] - debug_suspend_count[u] = OutstandingRequests(u)
    BY DEF CountInv, Counted, CountsMatchRequests
  <2> HIDE DEF OutstandingRequests, Pauses
  <2> QED BY <1>1, <1>2, <1>6, <1>7, <1>8, <2>1 DEF CounterTypes, PlaceTypes
<1>10. suspend_all_count' - debug_suspend_all_count' = Pauses'
  BY <1>2, <1>6, <1>8
<1>11. Counted'
  BY <1>1, <1>2, <1>4, <1>9, <1>10 DEF CountInv, Counted, CountsMatchRequests, NoAbort, Pauses,
      CounterTypes
<1>12. ASSUME NEW s \in Threads PROVE DebugCounted(s)'
  <2>1. DebugCounted(s) /\ (pc'[s] \in DebugAllPcs => pc[s] \in DebugAllPcs)
            /\ (pc'[s] = "dr_resume" => pc[s] = "dr_resume")
    BY <1>2, <1>4 DEF CountInv, DebugAllPcs
  <2>2. raised[s] \subseteq Threads /\ target[s] \in Threads \cup {NoThread}
            /\ NoThread \notin Threads
    BY <1>1, ThreadListAssumption DEF PlaceTypes
  <2> QED BY <1>1, <1>2, <1>4, <2>1, <2>2 DEF DebugCounted, CounterTypes, PlaceTypes
<1> QED BY <1>3, <1>11, <1>12

\* A thread that detaches is not suspended by anybody.
LEMMA ExRemoveCounts ==
    ASSUME CountInv, NEW t \in Threads, StepOf(t), PlaceTypes', ExRemove(t)
    PROVE  CounterTypes' /\ Counted' /\ \A s \in Threads : DebugCounted(s)'
<1>1. OwnCounts(t) /\ CounterTypes /\ PlaceTypes
  BY OwnCountsHolds DEF CountInv
<1>2. /\ t \in list /\ list' = list \ {t} /\ pc[t] = "ex_remove"
             /\ pc' = [pc EXCEPT ![t] = "absent"]
      /\ debug_suspend_count' = [debug_suspend_count EXCEPT ![t] = 0] /\ suspend_count[t] = 0
      /\ UNCHANGED <<suspend_count, suspend_all_count, debug_suspend_all_count, raised, how, target, aborted>>
  BY <1>1 DEF ExRemove, CanUnregister, IsSuspended, OwnCounts, OwnPlace, RunnablePcs, all_counts,
      asking, At, Goto, CounterTypes
<1>3. /\ debug_suspend_count[t] = 0
      /\ \A s \in Threads : t \notin raised[s]
  BY <1>2, NobodySuspends
<1>4. UNCHANGED debug_suspend_count
  BY <1>1, <1>2, <1>3 DEF CounterTypes
<1>5. pc \in [Threads -> Pcs] /\ \A s \in Threads : raised[s] \subseteq list
  BY <1>1, CountsAre DEF OwnCounts, OwnPlace
<1>6. CounterTypes'
  BY <1>1, <1>2, <1>4 DEF CounterTypes
<1>7. ~InPause(t) /\ ~InPause(t)' /\ \A u \in Threads : Raises(t, u)' <=> Raises(t, u)
  BY <1>2, <1>5 DEF InPause, Raises, SuspendAllPcs
<1>8. Pauses' = Pauses /\ Pauses \in Nat
          /\ \A u \in Threads : OutstandingRequests(u)' = OutstandingRequests(u)
  <2>1. /\ \A u \in Threads :
              /\ OutstandingRequests(u) \in Nat /\ OutstandingRequests(u)' \in Nat
              /\ OutstandingRequests(u)' =
                   ((OutstandingRequests(u) - Bit(u # t /\ InPause(t))) + Bit(u # t /\ InPause(t)'))
                   + (Bit(Raises(t, u)') - Bit(Raises(t, u)))
        /\ Pauses \in Nat /\ Pauses' \in Nat
        /\ Pauses' = (Pauses - Bit(InPause(t))) + Bit(InPause(t)')
    BY <1>1, RequestsMove
  <2> HIDE DEF Pauses, OutstandingRequests, InPause, Raises
  <2> QED BY <1>7, <2>1 DEF Bit
<1>9. \A u \in list' : suspend_count'[u] - debug_suspend_count'[u] = OutstandingRequests(u)'
  <2>1. \A u \in list : suspend_count[u] - debug_suspend_count[u] = OutstandingRequests(u)
            /\ u \in Threads
    BY <1>1 DEF CountInv, Counted, CountsMatchRequests, PlaceTypes
  <2> HIDE DEF OutstandingRequests, Pauses
  <2> QED BY <1>2, <1>4, <1>8, <2>1
<1>10. suspend_all_count' - debug_suspend_all_count' = Pauses'
  BY <1>2, <1>8 DEF CountInv, Counted, CountsMatchRequests, Pauses
<1>11. Counted'
  BY <1>1, <1>2, <1>3, <1>4, <1>5, <1>9, <1>10 DEF CountInv, Counted, CountsMatchRequests,
      NoAbort, Pauses, CounterTypes
<1>12. ASSUME NEW s \in Threads PROVE DebugCounted(s)'
  <2>1. DebugCounted(s) /\ (pc'[s] \in DebugAllPcs => pc[s] \in DebugAllPcs)
            /\ (pc'[s] = "dr_resume" => pc[s] = "dr_resume")
    BY <1>2, <1>5 DEF CountInv, DebugAllPcs
  <2> QED BY <1>1, <1>2, <1>3, <1>4, <2>1 DEF DebugCounted
<1> QED BY <1>6, <1>11, <1>12

\* Every step keeps the counts right.
LEMMA StepCounts ==
    ASSUME CountInv, NEW t \in Threads, StepOf(t), PlaceTypes', Start(t) \/ Continue(t)
    PROVE  CounterTypes' /\ Counted' /\ \A s \in Threads : DebugCounted(s)'
<1>1. CASE Idle(t) \/ Balanced(t)
  BY <1>1, IdleIsBalanced, BalancedCounts DEF Balanced
<1>2. CASE Register(t)
  BY <1>2, RegisterCounts
<1>3. CASE ExRemove(t)
  BY <1>3, ExRemoveCounts
<1>4. CASE (SuspendAll(t) \/ FlipThreadRoots(t) \/ ResumeAll(t) \/ FlResume(t) \/
            RcRaise(t) \/ RcLower(t) \/ FlLower(t) \/ SxTimeout(t) \/ SxRaise(t) \/
            SxGone(t) \/ Resume(t) \/ SuspendAllForDebugger(t) \/ DsRaise(t) \/
            ResumeAllForDebugger(t) \/ UndoDebuggerSuspensions(t) \/ DrResume(t) \/
            DrTest(t))
  BY <1>1, <1>4, SuspendAllBalances, FlipThreadRootsBalances, ResumeAllBalances,
      FlResumeBalances, RcRaiseBalances, RcLowerBalances, FlLowerBalances, SxTimeoutBalances,
      SxRaiseBalances, SxGoneBalances, ResumeBalances, SuspendAllForDebuggerBalances,
      DsRaiseBalances, ResumeAllForDebuggerBalances, UndoDebuggerSuspensionsBalances,
      DrResumeBalances, DrTestBalances
<1>5. CASE (SxUnattached(t) \/ SxPoll(t) \/ FlRun(t) \/ DaAssert(t))
  BY <1>1, <1>5, SxUnattachedIdles, SxPollIdles, FlRunIdles, DaAssertIdles
<1>6. CASE (Create(t) \/ Enter(t) \/ Leave(t) \/ Exit(t) \/ SuspendThread(t) \/
            RunCheckpoint(t) \/ RunCheckpointOnRunnableThreads(t) \/
            SuspendSelfForDebugger(t) \/ DbgResumeThread(t))
  BY <1>1, <1>6, StartIdles
<1>7. CASE (TrCheck(t) \/ TrRecheck(t) \/ TrLock(t) \/ TrCas(t) \/ TrUnlock(t) \/
            TrFlip(t) \/ TsCheckpoint(t) \/ TsCas(t) \/ TsUnlock(t))
  BY <1>1, <1>7, TransitionIdles
<1>8. CASE (CheckSuspendCheckpoint(t) \/ FullSuspendCheck(t) \/ ExPeer(t) \/
            ExAgain(t) \/ ExRevoke(t) \/ ExclusiveLock(t) \/ ExclusiveUnlock(t))
  BY <1>1, <1>8, SafepointIdles
<1>9. CASE (SxYield(t) \/ SxAgain(t) \/ ResumeBroadcast(t))
  BY <1>1, <1>9, SuspendThreadIdles
<1>10. CASE (RcRequest(t) \/ RcFail(t) \/ RcCheck(t) \/ RcSelf(t) \/ RcRun(t) \/
            RcBroadcast(t) \/ BarrierWait(t) \/ FlShared(t))
  BY <1>1, <1>10, CheckpointIdles
<1>11. CASE (DaLock(t) \/ DsRecheck(t) \/ DbBroadcast(t) \/ DrBroadcast(t))
  BY <1>1, <1>11, DebuggerIdles
<1> QED BY <1>2, <1>3, <1>4, <1>5, <1>6, <1>7, <1>8, <1>9, <1>10, <1>11
        DEF Start, Request, Continue, Transition, Safepoint

\* Every step leaves the threads that its thread has stopped where they are.
LEMMA StepStops ==
    ASSUME OnlyDebuggerSuspends, CountInv, NEW t \in Threads, LockInv', StepOf(t), PlaceTypes',
           Start(t) \/ Continue(t)
    PROVE  Stopped(t)'
  BY StartStops, TransitionStops, SuspendAllStops, SuspendThreadStops, CheckpointStops,
      DebuggerStops
     DEF Continue, Transition, Safepoint

\* At the start nobody suspends anybody.
LEMMA CountInvInit == Init => CountInv
<1> SUFFICES ASSUME Init PROVE CountInv
  OBVIOUS
<1>1. PlaceTypes /\ CounterTypes /\ Listed
  BY ThreadListAssumption DEF Init, PlaceTypes, CounterTypes, Listed
<1>2. \A t \in Threads : pc[t] \in {"native", "absent"} /\ ret[t] = "native" /\ how[t] = "id"
          /\ raised[t] = {} /\ ~at_check[t]
                        /\ flip[t] = NoThread /\ suspend_count[t] = 0 /\ debug_suspend_count[t] = 0
  BY DEF Init
<1>3. Counted
  <2>1. {t \in Threads : pc[t] \in SuspendAllPcs} = {}
    BY <1>2 DEF SuspendAllPcs
  <2>2. Cardinality({t \in Threads : pc[t] \in SuspendAllPcs}) = 0
    BY <2>1, FS_EmptySet
  <2>4. ASSUME NEW u \in Threads PROVE OutstandingRequests(u) = 0
    <3>1. {t \in Threads \ {u} : pc[t] \in SuspendAllPcs} = {}
      BY <1>2 DEF SuspendAllPcs
    <3>2. {t \in Threads : u \in raised[t] /\ how[t] # "debug"} = {}
      BY <1>2
    <3>3. /\ Cardinality({t \in Threads \ {u} : pc[t] \in SuspendAllPcs}) = 0
          /\ Cardinality({t \in Threads : u \in raised[t] /\ how[t] # "debug"}) = 0
      BY <3>1, <3>2, FS_EmptySet
    <3> QED BY <3>3 DEF OutstandingRequests
  <2>5. \A u \in list : suspend_count[u] - debug_suspend_count[u] = OutstandingRequests(u)
    BY <1>1, <1>2, <2>4 DEF PlaceTypes
  <2>6. suspend_all_count - debug_suspend_all_count = Cardinality({t \in Threads : pc[t] \in SuspendAllPcs})
    BY <2>2 DEF Init
  <2> QED BY <1>2, <2>5, <2>6 DEF Counted, CountsMatchRequests, NoAbort, Init
<1>4. ASSUME NEW t \in Threads PROVE Fits(t) /\ Stopped(t) /\ DebugCounted(t)
  BY <1>2 DEF Fits, RaisedFits, FlowFits, TokenFits, Alone, FlipFits, Stopped, DebugCounted,
      IsSuspender, HasSuspended,
        TransitionPcs, LoopPcs, CheckpointPcs, FlippingPcs, PausePcs, DebugAllPcs, DebugResumePcs,
        RunnablePcs, SuspendAllPcs, ToRunnablePcs, ToSuspendedPcs
<1> QED BY <1>1, <1>3, <1>4, LockInvInit DEF CountInv

\* A step of a thread keeps the invariant.
LEMMA CountInvStep ==
    ASSUME OnlyDebuggerSuspends, CountInv, NEW t \in Threads, LockInv', Start(t) \/ Continue(t)
    PROVE  CountInv'
<1>1. PlaceTypes' /\ StepOf(t) /\ Fits(t)' /\ (t \in list' <=> pc'[t] \notin {"absent", "born"})
  BY StepPlaces
<1>2. CounterTypes' /\ Counted' /\ \A s \in Threads : DebugCounted(s)'
  BY <1>1, StepCounts
<1>3. Listed' /\ \A s \in Threads : Fits(s)'
  BY <1>1, OthersFit
<1>4. \A s \in Threads : Stopped(s)'
  BY <1>1, <1>3, StepStops, OthersStopped
<1> QED BY <1>1, <1>2, <1>3, <1>4 DEF CountInv

\* So does every step, because LockInv is kept.
LEMMA CountInvNext ==
    ASSUME OnlyDebuggerSuspends
    PROVE  CountInv /\ [Next]_vars => CountInv'
<1> SUFFICES ASSUME CountInv, [Next]_vars PROVE CountInv'
  OBVIOUS
<1>1. LockInv'
  BY LockInvNext DEF CountInv
<1>2. CASE UNCHANGED vars
  <2>1. UNCHANGED <<list, state, suspend_count, debug_suspend_count, suspend_all_count, debug_suspend_all_count,
                    lock, pc, ret, at_check, flip, target, how, raised, todo, token, aborted>>
    BY <1>2 DEF vars, others, memory, flow, closures, progress, asking, counts, all_counts, identity
  <2>2. (\A t \in Threads : (Fits(t)' <=> Fits(t)) /\ (Stopped(t)' <=> Stopped(t))
            /\ (DebugCounted(t)' <=> DebugCounted(t)))
    BY <2>1 DEF Fits, RaisedFits, FlowFits, TokenFits, Alone, FlipFits, Stopped, DebugCounted,
        IsSuspender, HasSuspended
  <2>3. PlaceTypes' /\ CounterTypes' /\ Listed' /\ Counted'
    BY <2>1 DEF CountInv, PlaceTypes, CounterTypes, Listed, Counted, CountsMatchRequests,
        NoAbort, OutstandingRequests
  <2> QED BY <1>1, <2>2, <2>3 DEF CountInv
<1>3. CASE Next
  BY <1>1, <1>3, CountInvStep DEF Next
<1> QED BY <1>2, <1>3

\* For any number of threads: each suspend_count_ is what SuspendAll, FlipThreadRoots,
\* RunCheckpoint, SuspendThreadBy... and the debugger have asked for and not yet taken back, and no
\* CHECK on a count fails; unless Dbg::ResumeThread is mixed with suspensions that are not the
\* debugger's (the run threads_debug_resume shows what happens then).
THEOREM CountsMatchRequestsHolds ==
    ASSUME OnlyDebuggerSuspends
    PROVE  Spec => []CountsMatchRequests
<1>1. CountInv => CountsMatchRequests
  BY DEF CountInv, Counted
<1> QED BY <1>1, CountInvInit, CountInvNext, PTL DEF Spec

\* For any number of threads: a thread that SuspendThreadBy... has returned as suspended, that
\* RunCheckpoint runs a closure for or that FlipThreadRoots flips does not become Runnable and does
\* not leave list_ before its count is lowered again.
THEOREM SuspendedStaysSuspendedHolds ==
    ASSUME OnlyDebuggerSuspends
    PROVE  Spec => []SuspendedStaysSuspended
<1>1. CountInv => SuspendedStaysSuspended
  <2> SUFFICES ASSUME CountInv, NEW t \in Threads
               PROVE  /\ \/ pc[t] = "sx_got"
                         \/ pc[t] \in {"ts_cas", "ts_unlock"} /\ ret[t] = "sx_got"
                         \/ pc[t] = "rc_lower"
                         => target[t] \in list /\ IsSuspended(target[t])
                      /\ pc[t] = "sa_held" => \A u \in list \ {t} : IsSuspended(u)
    BY DEF SuspendedStaysSuspended
  <2>1. OwnCounts(t) /\ Stopped(t)
    BY OwnCountsHolds DEF CountInv
  <2>2. HasSuspended(t) \/ pc[t] = "rc_lower" => target[t] \in raised[t]
            /\ state[target[t]] = "Suspended"
    BY <2>1 DEF OwnCounts, OwnPlace, Fits, RaisedFits, Stopped
  <2>3. HasSuspended(t) \/ pc[t] = "rc_lower" => target[t] \in list /\ suspend_count[target[t]] > 0
    BY <2>1, <2>2 DEF OwnCounts, OwnPlace, Raises, DebugCounted
  <2>4. pc[t] = "sa_held" => \A u \in list \ {t} : state[u] = "Suspended" /\ suspend_count[u] > 0
    BY <2>1 DEF OwnCounts, InPause, Stopped, PausePcs, SuspendAllPcs
  <2> QED BY <2>2, <2>3, <2>4 DEF IsSuspended, HasSuspended, TransitionPcs, ToSuspendedPcs
<1> QED BY <1>1, CountInvInit, CountInvNext, PTL DEF Spec

\* For any number of threads: no thread runs managed code with a flip function that has not run
\* (TransitionFromSuspendedToRunnable runs it first), so none sees an unflipped root.
THEOREM FlippedBeforeManagedHolds ==
    ASSUME OnlyDebuggerSuspends
    PROVE  Spec => []FlippedBeforeManaged
<1>1. CountInv => FlippedBeforeManaged
  BY DEF CountInv, Fits, FlipFits, FlippedBeforeManaged, RunnablePcs
<1> QED BY <1>1, CountInvInit, CountInvNext, PTL DEF Spec

\* For any number of threads: debug_suspend_count is at most suspend_count, and what the debugger
\* has suspended is what its own operations may take back.
THEOREM DebugCountsFitHolds ==
    ASSUME OnlyDebuggerSuspends
    PROVE  Spec => []DebugCountsFit
<1>1. CountInv => DebugCountsFit
  BY DEF CountInv, Counted, CounterTypes, PlaceTypes, DebugCountsFit
<1> QED BY <1>1, CountInvInit, CountInvNext, PTL DEF Spec

\* What a thread starts suspends nobody yet.
LEMMA StartWaits ==
    ASSUME CountInv, NEW t \in Threads, Start(t)
    PROVE  IsSuspending(t)' => IsSuspending(t) /\ target'[t] = target[t]
<1>0. OwnPlace(t)
  BY OwnPlaceHolds
<1> USE <1>0 DEF OwnPlace, PlaceTypes, Fits, RaisedFits, FlowFits, IsSuspending,
            IsSuspender, HasSuspended, TransitionPcs, LoopPcs, CheckpointPcs, FlippingPcs,
            PausePcs, DebugAllPcs, DebugResumePcs,
            RunnablePcs, SharePcs, SuspendAllPcs, ToRunnablePcs, ToSuspendedPcs,
            others, memory, mutator_lock, flow, closures, progress, asking, counts,
            all_counts, identity, Unlocked, At, Goto
<1>1. CASE Create(t)
  BY <1>1 DEF Create
<1>2. CASE Enter(t)
  BY <1>2 DEF Enter, CallToRunnable
<1>3. CASE Leave(t)
  BY <1>3 DEF Leave, CallToSuspended
<1>4. CASE Exit(t)
  BY <1>4 DEF Exit, CallToRunnable
<1>5. CASE SuspendAll(t)
  BY <1>5 DEF SuspendAll
<1>6. CASE SuspendThread(t)
  BY <1>6 DEF SuspendThread, CallToRunnable
<1>7. CASE RunCheckpoint(t)
  BY <1>7 DEF RunCheckpoint
<1>8. CASE RunCheckpointOnRunnableThreads(t)
  BY <1>8 DEF RunCheckpointOnRunnableThreads
<1>9. CASE FlipThreadRoots(t)
  BY <1>9 DEF FlipThreadRoots
<1>10. CASE SuspendAllForDebugger(t)
  BY <1>10 DEF SuspendAllForDebugger, DebuggerIsFree
<1>11. CASE SuspendSelfForDebugger(t)
  BY <1>11 DEF SuspendSelfForDebugger, DebuggerIsFree
<1>12. CASE ResumeAllForDebugger(t)
  BY <1>12 DEF ResumeAllForDebugger, DebuggerIsFree
<1>13. CASE UndoDebuggerSuspensions(t)
  BY <1>13 DEF UndoDebuggerSuspensions, DebuggerIsFree
<1>14. CASE DbgResumeThread(t)
  BY <1>14 DEF DbgResumeThread, DebuggerIsFree
<1> QED BY <1>1, <1>2, <1>3, <1>4, <1>5, <1>6, <1>7, <1>8, <1>9, <1>10, <1>11, <1>12, <1>13,
        <1>14 DEF Start, Request

\* Nobody begins to wait for a suspension in a transition.
LEMMA TransitionWaits ==
    ASSUME CountInv, NEW t \in Threads, (TrCheck(t) \/ TrRecheck(t) \/ TrLock(t) \/ TrCas(t) \/ TrUnlock(t) \/
            TrFlip(t) \/ TsCheckpoint(t) \/ TsCas(t) \/ TsUnlock(t))
    PROVE  IsSuspending(t)' => IsSuspending(t) /\ target'[t] = target[t]
<1>0. OwnPlace(t)
  BY OwnPlaceHolds
<1> USE <1>0 DEF OwnPlace, PlaceTypes, Fits, RaisedFits, FlowFits, IsSuspending,
            IsSuspender, HasSuspended, TransitionPcs, LoopPcs, CheckpointPcs, FlippingPcs,
            PausePcs, DebugAllPcs, DebugResumePcs,
            RunnablePcs, SharePcs, SuspendAllPcs, ToRunnablePcs, ToSuspendedPcs,
            others, memory, mutator_lock, flow, closures, progress, asking, counts,
            all_counts, identity, Unlocked, At, Goto
<1>1. CASE TrCheck(t)
  BY <1>1 DEF TrCheck
<1>2. CASE TrRecheck(t)
  BY <1>2 DEF TrRecheck
<1>3. CASE TrLock(t)
  BY <1>3 DEF TrLock
<1>4. CASE TrCas(t)
  BY <1>4 DEF TrCas
<1>5. CASE TrUnlock(t)
  BY <1>5 DEF TrUnlock
<1>6. CASE TrFlip(t)
  BY <1>6 DEF TrFlip
<1>7. CASE TsCheckpoint(t)
  BY <1>7 DEF TsCheckpoint, RunCheckpointFunction, RunClosures
<1>8. CASE TsCas(t)
  BY <1>8 DEF TsCas
<1>9. CASE TsUnlock(t)
  BY <1>9 DEF TsUnlock, CallToRunnable
<1> QED BY <1>1, <1>2, <1>3, <1>4, <1>5, <1>6, <1>7, <1>8, <1>9

\* Nor at a safepoint, in detaching or in SuspendAll.
LEMMA SuspendAllWaits ==
    ASSUME CountInv, NEW t \in Threads, (CheckSuspendCheckpoint(t) \/ FullSuspendCheck(t) \/ Register(t) \/
            ExPeer(t) \/ ExAgain(t) \/ ExRevoke(t) \/ ExRemove(t) \/ ExclusiveLock(t) \/
            ExclusiveUnlock(t) \/ ResumeAll(t))
    PROVE  IsSuspending(t)' => IsSuspending(t) /\ target'[t] = target[t]
<1>0. OwnPlace(t)
  BY OwnPlaceHolds
<1> USE <1>0 DEF OwnPlace, PlaceTypes, Fits, RaisedFits, FlowFits, IsSuspending,
            IsSuspender, HasSuspended, TransitionPcs, LoopPcs, CheckpointPcs, FlippingPcs,
            PausePcs, DebugAllPcs, DebugResumePcs,
            RunnablePcs, SharePcs, SuspendAllPcs, ToRunnablePcs, ToSuspendedPcs,
            others, memory, mutator_lock, flow, closures, progress, asking, counts,
            all_counts, identity, Unlocked, At, Goto
<1>1. CASE CheckSuspendCheckpoint(t)
  BY <1>1 DEF CheckSuspendCheckpoint, RunCheckpointFunction, RunClosures
<1>2. CASE FullSuspendCheck(t)
  BY <1>2 DEF FullSuspendCheck, CallToSuspended
<1>3. CASE Register(t)
  BY <1>3 DEF Register
<1>4. CASE ExPeer(t)
  BY <1>4 DEF ExPeer, CallToSuspended
<1>5. CASE ExAgain(t)
  BY <1>5 DEF ExAgain, CallToRunnable
<1>6. CASE ExRevoke(t)
  BY <1>6 DEF ExRevoke, CallToSuspended
<1>7. CASE ExRemove(t)
  BY <1>7 DEF ExRemove
<1>8. CASE ExclusiveLock(t)
  BY <1>8 DEF ExclusiveLock, CanLockExclusive
<1>9. CASE ExclusiveUnlock(t)
  BY <1>9 DEF ExclusiveUnlock
<1>10. CASE ResumeAll(t)
  BY <1>10 DEF ResumeAll, Broadcast
<1> QED BY <1>1, <1>2, <1>3, <1>4, <1>5, <1>6, <1>7, <1>8, <1>9, <1>10

\* Nor in SuspendThreadBy... once the count is raised.
LEMMA SuspendThreadWaits ==
    ASSUME CountInv, NEW t \in Threads, (SxGone(t) \/ SxUnattached(t) \/ SxYield(t) \/ SxPoll(t) \/ SxTimeout(t) \/
            SxAgain(t) \/ Resume(t) \/ ResumeBroadcast(t))
    PROVE  IsSuspending(t)' => IsSuspending(t) /\ target'[t] = target[t]
<1>0. OwnPlace(t)
  BY OwnPlaceHolds
<1> USE <1>0 DEF OwnPlace, PlaceTypes, Fits, RaisedFits, FlowFits, IsSuspending,
            IsSuspender, HasSuspended, TransitionPcs, LoopPcs, CheckpointPcs, FlippingPcs,
            PausePcs, DebugAllPcs, DebugResumePcs,
            RunnablePcs, SharePcs, SuspendAllPcs, ToRunnablePcs, ToSuspendedPcs,
            others, memory, mutator_lock, flow, closures, progress, asking, counts,
            all_counts, identity, Unlocked, At, Goto
<1>1. CASE SxGone(t)
  BY <1>1 DEF SxGone, SxReturn, CallToSuspended
<1>2. CASE SxUnattached(t)
  BY <1>2 DEF SxUnattached, SxReturn, CallToSuspended
<1>3. CASE SxYield(t)
  BY <1>3 DEF SxYield, CallToSuspended
<1>4. CASE SxPoll(t)
  BY <1>4 DEF SxPoll, SxAwait, CallToSuspended
<1>5. CASE SxTimeout(t)
  BY <1>5 DEF SxTimeout, SxReturn, CallToSuspended
<1>6. CASE SxAgain(t)
  BY <1>6 DEF SxAgain, CallToRunnable
<1>7. CASE Resume(t)
  BY <1>7 DEF Resume
<1>8. CASE ResumeBroadcast(t)
  BY <1>8 DEF ResumeBroadcast, Broadcast
<1> QED BY <1>1, <1>2, <1>3, <1>4, <1>5, <1>6, <1>7, <1>8

\* RunCheckpoint and FlipThreadRoots wait for others only where they hold nobody up.
LEMMA CheckpointWaits ==
    ASSUME CountInv, NEW t \in Threads, (RcRequest(t) \/ RcFail(t) \/ RcCheck(t) \/ RcRaise(t) \/ RcSelf(t) \/
            RcRun(t) \/ RcLower(t) \/ RcBroadcast(t) \/ BarrierWait(t) \/ FlResume(t) \/
            FlShared(t) \/ FlRun(t) \/ FlLower(t))
    PROVE  IsSuspending(t)' => IsSuspending(t) /\ target'[t] = target[t]
<1>0. OwnPlace(t)
  BY OwnPlaceHolds
<1> USE <1>0 DEF OwnPlace, PlaceTypes, Fits, RaisedFits, FlowFits, IsSuspending,
            IsSuspender, HasSuspended, TransitionPcs, LoopPcs, CheckpointPcs, FlippingPcs,
            PausePcs, DebugAllPcs, DebugResumePcs,
            RunnablePcs, SharePcs, SuspendAllPcs, ToRunnablePcs, ToSuspendedPcs,
            others, memory, mutator_lock, flow, closures, progress, asking, counts,
            all_counts, identity, Unlocked, At, Goto
<1>1. CASE RcRequest(t)
  BY <1>1 DEF RcRequest
<1>2. CASE RcFail(t)
  BY <1>2 DEF RcFail
<1>3. CASE RcCheck(t)
  BY <1>3 DEF RcCheck
<1>4. CASE RcRaise(t)
  BY <1>4 DEF RcRaise
<1>5. CASE RcSelf(t)
  BY <1>5 DEF RcSelf
<1>6. CASE RcRun(t)
  BY <1>6 DEF RcRun
<1>7. CASE RcLower(t)
  BY <1>7 DEF RcLower
<1>8. CASE RcBroadcast(t)
  BY <1>8 DEF RcBroadcast, Broadcast
<1>9. CASE BarrierWait(t)
  BY <1>9 DEF BarrierWait
<1>10. CASE FlResume(t)
  BY <1>10 DEF FlResume, Broadcast
<1>11. CASE FlShared(t)
  BY <1>11 DEF FlShared
<1>12. CASE FlRun(t)
  BY <1>12 DEF FlRun
<1>13. CASE FlLower(t)
  BY <1>13 DEF FlLower, Broadcast
<1> QED BY <1>1, <1>2, <1>3, <1>4, <1>5, <1>6, <1>7, <1>8, <1>9, <1>10, <1>11, <1>12, <1>13

\* Nor does the debugger.
LEMMA DebuggerWaits ==
    ASSUME CountInv, NEW t \in Threads, (DaLock(t) \/ DaAssert(t) \/ DsRaise(t) \/ DsRecheck(t) \/ DbBroadcast(t) \/
            DrTest(t) \/ DrResume(t) \/ DrBroadcast(t))
    PROVE  IsSuspending(t)' => IsSuspending(t) /\ target'[t] = target[t]
<1>0. OwnPlace(t)
  BY OwnPlaceHolds
<1> USE <1>0 DEF OwnPlace, PlaceTypes, Fits, RaisedFits, FlowFits, IsSuspending,
            IsSuspender, HasSuspended, TransitionPcs, LoopPcs, CheckpointPcs, FlippingPcs,
            PausePcs, DebugAllPcs, DebugResumePcs,
            RunnablePcs, SharePcs, SuspendAllPcs, ToRunnablePcs, ToSuspendedPcs,
            others, memory, mutator_lock, flow, closures, progress, asking, counts,
            all_counts, identity, Unlocked, At, Goto
<1>1. CASE DaLock(t)
  BY <1>1 DEF DaLock, CanLockExclusive
<1>2. CASE DaAssert(t)
  BY <1>2 DEF DaAssert
<1>3. CASE DsRaise(t)
  BY <1>3 DEF DsRaise
<1>4. CASE DsRecheck(t)
  BY <1>4 DEF DsRecheck
<1>5. CASE DbBroadcast(t)
  BY <1>5 DEF DbBroadcast, Broadcast
<1>6. CASE DrTest(t)
  BY <1>6 DEF DrTest
<1>7. CASE DrResume(t)
  BY <1>7 DEF DrResume
<1>8. CASE DrBroadcast(t)
  BY <1>8 DEF DrBroadcast, Broadcast
<1> QED BY <1>1, <1>2, <1>3, <1>4, <1>5, <1>6, <1>7, <1>8

\* Only SxRaise makes its thread wait for another one.
LEMMA StepWaits ==
    ASSUME CountInv, NEW t \in Threads, Start(t) \/ Continue(t), ~SxRaise(t)
    PROVE  IsSuspending(t)' => IsSuspending(t) /\ target'[t] = target[t]
  BY StartWaits, TransitionWaits, SuspendAllWaits, SuspendThreadWaits, CheckpointWaits,
      DebuggerWaits
     DEF Continue, Transition, Safepoint

\* Whoever waits has raised the count of its target.
LEMMA WaiterRaises ==
    ASSUME CountInv, NEW t \in Threads, IsSuspending(t)
    PROVE  raised[t] = {target[t]} /\ target[t] \in Threads \ {t}
<1>1. RaisedFits(t) /\ FlowFits(t)
  BY DEF CountInv, Fits
<1>2. IsSuspender(t)
  BY <1>1 DEF IsSuspending, FlowFits, IsSuspender
<1> QED BY <1>1, <1>2 DEF RaisedFits, IsSuspending

\* A thread raises a count only while nobody waits for it, so it closes no cycle.
LEMMA NoSuspendCycleStep ==
    ASSUME CountInv, CountInv', NoSuspendCycle, NEW t \in Threads, StepOf(t), Start(t) \/ Continue(t)
    PROVE  NoSuspendCycle'
<1> SUFFICES ASSUME NEW S \in (SUBSET Threads) \ {{}},
                    \A u \in S : IsSuspending(u)' /\ target'[u] \in S
             PROVE  FALSE
  BY DEF NoSuspendCycle
<1>1. \A u \in Threads \ {t} : IsSuspending(u)' => IsSuspending(u) /\ target'[u] = target[u]
  BY DEF StepOf, IsSuspending
<1>2. CASE ~SxRaise(t)
  <2>1. \A u \in S : IsSuspending(u) /\ target[u] \in S
    BY <1>1, <1>2, StepWaits
  <2> QED BY <2>1 DEF NoSuspendCycle
<1>3. CASE SxRaise(t)
  <2>1. t \in list /\ suspend_count[t] = 0
    BY <1>3 DEF SxRaise, MayRequest, At, CountInv, Listed
  <2>2. \A s \in Threads : t \notin raised[s]
    BY <2>1, NobodySuspends
  <2>3. \A u \in S \ {t} : IsSuspending(u) /\ target[u] \in S \ {t}
    BY <1>1, <2>2, WaiterRaises
  <2>4. S \ {t} = {}
    BY <2>3 DEF NoSuspendCycle
  <2>5. t \in S /\ target'[t] = t
    BY <2>4
  <2>6. RaisedFits(t)' /\ FlowFits(t)'
    BY DEF CountInv, Fits
  <2>7. IsSuspender(t)'
    BY <2>5, <2>6 DEF IsSuspending, FlowFits, IsSuspender
  <2> QED BY <2>5, <2>6, <2>7 DEF RaisedFits
<1> QED BY <1>2, <1>3

\* For any number of threads: SuspendThreadBy... never makes threads wait for each other in a
\* circle, because it raises the count of another thread only while its own is zero.
THEOREM NoSuspendCycleHolds ==
    ASSUME OnlyDebuggerSuspends
    PROVE  Spec => []NoSuspendCycle
<1>1. Init => NoSuspendCycle
  BY DEF Init, NoSuspendCycle, IsSuspending
<1>2. CountInv /\ CountInv' /\ NoSuspendCycle /\ [Next]_vars => NoSuspendCycle'
  <2> SUFFICES ASSUME CountInv, CountInv', NoSuspendCycle, [Next]_vars PROVE NoSuspendCycle'
    OBVIOUS
  <2>1. CASE UNCHANGED vars
    BY <2>1 DEF vars, others, asking, flow, NoSuspendCycle, IsSuspending
  <2>2. ASSUME NEW t \in Threads, Start(t) \/ Continue(t) PROVE NoSuspendCycle'
    BY <2>2, StepPlaces, NoSuspendCycleStep
  <2> QED BY <2>1, <2>2 DEF Next
<1> QED BY <1>1, <1>2, CountInvInit, CountInvNext, PTL DEF Spec

\* Types: the closures.
ClosureTypes ==
    /\ has_peer \in [Threads -> BOOLEAN]
    /\ slots \in [Threads -> Seq(Threads)]
    /\ need \in [Threads -> SUBSET Threads]
    /\ done \in [Threads -> SUBSET Threads]
    /\ barrier \in [Threads -> Int]
    /\ expected \in [Threads -> Nat]
    /\ aborted \in BOOLEAN

\* A thread that waits for a barrier counts threads.
LEMMA SomeThreads ==
    ASSUME NEW S \in SUBSET Threads
    PROVE  Cardinality(S) \in Nat
  BY ThreadListAssumption, FS_Subset, FS_CardinalityType

\* The slots of t that hold a closure of r are finitely many.
LEMMA SomeSlots ==
    ASSUME ClosureTypes, NEW t \in Threads, NEW r
    PROVE  /\ IsFiniteSet({i \in DOMAIN slots[t] : slots[t][i] = r})
           /\ Cardinality({i \in DOMAIN slots[t] : slots[t][i] = r}) \in Nat
<1>1. slots[t] \in Seq(Threads)
  BY DEF ClosureTypes
<1>2. Len(slots[t]) \in Nat /\ DOMAIN slots[t] = 1..Len(slots[t])
  BY <1>1
<1>3. IsFiniteSet(DOMAIN slots[t])
  BY <1>2, FS_Interval
<1> QED BY <1>3, FS_Subset, FS_CardinalityType

\* Running the closures in a thread's slots keeps the types, ...
LEMMA RunClosuresTypes ==
    ASSUME ClosureTypes, NEW t \in Threads, RunClosures(t)
    PROVE  /\ done' \in [Threads -> SUBSET Threads] /\ barrier' \in [Threads -> Int]
           /\ UNCHANGED <<need, expected, flip>>
<1>1. \A r \in Threads : Cardinality({i \in DOMAIN slots[t] : slots[t][i] = r}) \in Nat
  BY SomeSlots
<1>2. \A r \in Threads : barrier[r] - Cardinality({i \in DOMAIN slots[t] : slots[t][i] = r}) \in Int
  <2> SUFFICES ASSUME NEW r \in Threads
               PROVE barrier[r] - Cardinality({i \in DOMAIN slots[t] : slots[t][i] = r}) \in Int
    OBVIOUS
  <2> DEFINE n == Cardinality({i \in DOMAIN slots[t] : slots[t][i] = r})
  <2>1. n \in Nat /\ barrier[r] \in Int
    BY <1>1 DEF ClosureTypes
  <2> HIDE DEF n
  <2>2. barrier[r] - n \in Int
    BY <2>1
  <2> QED BY <2>2 DEF n
<1>3. barrier' = [r \in Threads |-> barrier[r] - Cardinality({i \in DOMAIN slots[t] : slots[t][i] = r})]
  BY DEF RunClosures
<1>4. \A r \in Threads : done[r] \cup {t} \in SUBSET Threads
  BY DEF ClosureTypes
<1> QED BY <1>2, <1>3, <1>4 DEF RunClosures, ClosureTypes

\* ... so does a thread that flips itself, ...
LEMMA TrFlipTypes ==
    ASSUME CountInv, ClosureTypes, NEW t \in Threads, TrFlip(t)
    PROVE  ClosureTypes'
<1>1. flip[t] \in Threads \cup {NoThread} /\ UNCHANGED <<has_peer, slots, need, expected, aborted>>
  BY DEF CountInv, PlaceTypes, TrFlip, memory, identity
<1>2. CASE flip[t] = NoThread
  BY <1>1, <1>2 DEF TrFlip, ClosureTypes
<1>3. CASE flip[t] \in Threads
  <2>1. /\ done' = [done EXCEPT ![flip[t]] = @ \cup {t}]
        /\ barrier' = [barrier EXCEPT ![flip[t]] = @ - 1]
    BY <1>3, ThreadListAssumption DEF TrFlip
  <2>2. done' \in [Threads -> SUBSET Threads]
    BY <1>3, <2>1 DEF ClosureTypes
  <2>3. barrier' \in [Threads -> Int]
    BY <1>3, <2>1 DEF ClosureTypes
  <2> QED BY <1>1, <2>2, <2>3 DEF ClosureTypes
<1> QED BY <1>1, <1>2, <1>3

\* ... the collector that sets the flip functions, ...
LEMMA FlResumeTypes ==
    ASSUME CountInv, ClosureTypes, NEW t \in Threads, FlResume(t)
    PROVE  ClosureTypes'
<1>1. list \subseteq Threads
  BY DEF CountInv, PlaceTypes
<1>2. FlipCount(t) \in Nat
  BY <1>1, SomeThreads DEF FlipCount
<1>3. aborted' \in BOOLEAN
  BY DEF FlResume, Modify
<1> QED BY <1>1, <1>2, <1>3 DEF FlResume, ClosureTypes, memory, identity

\* ... and the collector that runs them.
LEMMA FlRunTypes ==
    ASSUME CountInv, ClosureTypes, NEW t \in Threads, FlRun(t)
    PROVE  ClosureTypes'
<1> DEFINE set == {u \in raised[t] : flip[u] = t}
<1>1. set \subseteq Threads
  BY DEF CountInv, PlaceTypes
<1>2. Cardinality(set) \in Nat
  <2> HIDE DEF set
  <2> QED BY <1>1, SomeThreads
<1>3. /\ done' = [done EXCEPT ![t] = (@ \cup set) \cup {t}]
      /\ barrier' = [barrier EXCEPT ![t] = (@ - Cardinality(set)) - 1]
      /\ aborted' \in BOOLEAN
      /\ UNCHANGED <<has_peer, slots, need, expected>>
  BY DEF FlRun, identity
<1> HIDE DEF set
<1> QED BY <1>1, <1>2, <1>3 DEF ClosureTypes

\* What a thread starts, by type.
LEMMA StartTypes ==
    ASSUME CountInv, ClosureTypes, NEW t \in Threads,
           Start(t)
    PROVE  ClosureTypes'
<1>0. OwnPlace(t) /\ ~aborted
  BY OwnPlaceHolds, CountsAre
<1> USE <1>0, SomeThreads DEF OwnPlace, PlaceTypes, ClosureTypes, others, memory, mutator_lock,
        flow, closures, progress, asking, counts,
            all_counts, identity, Unlocked, At, Goto
<1>1. CASE Create(t)
  BY <1>1 DEF Create
<1>2. CASE Enter(t)
  BY <1>2 DEF Enter, CallToRunnable
<1>3. CASE Leave(t)
  BY <1>3 DEF Leave, CallToSuspended
<1>4. CASE Exit(t)
  BY <1>4 DEF Exit, CallToRunnable
<1>5. CASE SuspendAll(t)
  BY <1>5 DEF SuspendAll, Modify
<1>6. CASE SuspendThread(t)
  BY <1>6 DEF SuspendThread, CallToRunnable
<1>7. CASE RunCheckpoint(t)
  BY <1>7 DEF RunCheckpoint
<1>8. CASE RunCheckpointOnRunnableThreads(t)
  BY <1>8 DEF RunCheckpointOnRunnableThreads
<1>9. CASE FlipThreadRoots(t)
  BY <1>9 DEF FlipThreadRoots, Modify
<1>10. CASE SuspendAllForDebugger(t)
  BY <1>10 DEF SuspendAllForDebugger, DebuggerIsFree, ModifyForDebugger
<1>11. CASE SuspendSelfForDebugger(t)
  BY <1>11 DEF SuspendSelfForDebugger, DebuggerIsFree
<1>12. CASE ResumeAllForDebugger(t)
  BY <1>12 DEF ResumeAllForDebugger, DebuggerIsFree, ModifyForDebugger
<1>13. CASE UndoDebuggerSuspensions(t)
  BY <1>13 DEF UndoDebuggerSuspensions, DebuggerIsFree, ModifyForDebugger
<1>14. CASE DbgResumeThread(t)
  BY <1>14 DEF DbgResumeThread, DebuggerIsFree
<1> QED BY <1>1, <1>2, <1>3, <1>4, <1>5, <1>6, <1>7, <1>8, <1>9, <1>10, <1>11, <1>12, <1>13,
        <1>14 DEF Start, Request

\* The transitions, by type.
LEMMA TransitionTypes ==
    ASSUME CountInv, ClosureTypes, NEW t \in Threads,
           (TrCheck(t) \/ TrRecheck(t) \/ TrLock(t) \/ TrCas(t) \/ TrUnlock(t) \/
            TrFlip(t) \/ TsCheckpoint(t) \/ TsCas(t) \/ TsUnlock(t))
    PROVE  ClosureTypes'
<1>0. OwnPlace(t) /\ ~aborted
  BY OwnPlaceHolds, CountsAre
<1> USE <1>0, SomeThreads DEF OwnPlace, PlaceTypes, ClosureTypes, others, memory, mutator_lock,
        flow, closures, progress, asking, counts,
            all_counts, identity, Unlocked, At, Goto
<1>1. CASE TrCheck(t)
  BY <1>1 DEF TrCheck
<1>2. CASE TrRecheck(t)
  BY <1>2 DEF TrRecheck
<1>3. CASE TrLock(t)
  BY <1>3 DEF TrLock
<1>4. CASE TrCas(t)
  BY <1>4 DEF TrCas
<1>5. CASE TrUnlock(t)
  BY <1>5 DEF TrUnlock
<1>6. CASE TrFlip(t)
  BY <1>6, TrFlipTypes
<1>7. CASE TsCheckpoint(t)
  BY <1>7, RunClosuresTypes DEF TsCheckpoint, RunCheckpointFunction
<1>8. CASE TsCas(t)
  BY <1>8 DEF TsCas
<1>9. CASE TsUnlock(t)
  BY <1>9 DEF TsUnlock, CallToRunnable
<1> QED BY <1>1, <1>2, <1>3, <1>4, <1>5, <1>6, <1>7, <1>8, <1>9

\* Safepoints, attaching and detaching, SuspendAll, by type.
LEMMA SuspendAllTypes ==
    ASSUME CountInv, ClosureTypes, NEW t \in Threads,
           (CheckSuspendCheckpoint(t) \/ FullSuspendCheck(t) \/ Register(t) \/
            ExPeer(t) \/ ExAgain(t) \/ ExRevoke(t) \/ ExRemove(t) \/ ExclusiveLock(t) \/
            ExclusiveUnlock(t) \/ ResumeAll(t))
    PROVE  ClosureTypes'
<1>0. OwnPlace(t) /\ ~aborted
  BY OwnPlaceHolds, CountsAre
<1> USE <1>0, SomeThreads DEF OwnPlace, PlaceTypes, ClosureTypes, others, memory, mutator_lock,
        flow, closures, progress, asking, counts,
            all_counts, identity, Unlocked, At, Goto
<1>1. CASE CheckSuspendCheckpoint(t)
  BY <1>1, RunClosuresTypes DEF CheckSuspendCheckpoint, RunCheckpointFunction
<1>2. CASE FullSuspendCheck(t)
  BY <1>2 DEF FullSuspendCheck, CallToSuspended
<1>3. CASE Register(t)
  BY <1>3 DEF Register
<1>4. CASE ExPeer(t)
  BY <1>4 DEF ExPeer, CallToSuspended
<1>5. CASE ExAgain(t)
  BY <1>5 DEF ExAgain, CallToRunnable
<1>6. CASE ExRevoke(t)
  BY <1>6 DEF ExRevoke, CallToSuspended
<1>7. CASE ExRemove(t)
  BY <1>7 DEF ExRemove
<1>8. CASE ExclusiveLock(t)
  BY <1>8 DEF ExclusiveLock, CanLockExclusive
<1>9. CASE ExclusiveUnlock(t)
  BY <1>9 DEF ExclusiveUnlock
<1>10. CASE ResumeAll(t)
  BY <1>10 DEF ResumeAll, Broadcast, Modify
<1> QED BY <1>1, <1>2, <1>3, <1>4, <1>5, <1>6, <1>7, <1>8, <1>9, <1>10

\* SuspendThreadBy... and Resume, by type.
LEMMA SuspendThreadTypes ==
    ASSUME CountInv, ClosureTypes, NEW t \in Threads,
           (SxGone(t) \/ SxUnattached(t) \/ SxYield(t) \/ SxRaise(t) \/ SxPoll(t) \/
            SxTimeout(t) \/ SxAgain(t) \/ Resume(t) \/ ResumeBroadcast(t))
    PROVE  ClosureTypes'
<1>0. OwnPlace(t) /\ ~aborted
  BY OwnPlaceHolds, CountsAre
<1> USE <1>0, SomeThreads DEF OwnPlace, PlaceTypes, ClosureTypes, others, memory, mutator_lock,
        flow, closures, progress, asking, counts,
            all_counts, identity, Unlocked, At, Goto
<1>1. CASE SxGone(t)
  BY <1>1 DEF SxGone, SxReturn, CallToSuspended, Modify, ModifyForDebugger, ModifyTarget
<1>2. CASE SxUnattached(t)
  BY <1>2 DEF SxUnattached, SxReturn, CallToSuspended
<1>3. CASE SxYield(t)
  BY <1>3 DEF SxYield, CallToSuspended
<1>4. CASE SxRaise(t)
  BY <1>4 DEF SxRaise, SxAwait, CallToSuspended, Modify, ModifyForDebugger, ModifyTarget
<1>5. CASE SxPoll(t)
  BY <1>5 DEF SxPoll, SxAwait, CallToSuspended
<1>6. CASE SxTimeout(t)
  BY <1>6 DEF SxTimeout, SxReturn, CallToSuspended, Modify, ModifyForDebugger, ModifyTarget
<1>7. CASE SxAgain(t)
  BY <1>7 DEF SxAgain, CallToRunnable
<1>8. CASE Resume(t)
  BY <1>8 DEF Resume, Modify, ModifyForDebugger, ModifyTarget
<1>9. CASE ResumeBroadcast(t)
  BY <1>9 DEF ResumeBroadcast, Broadcast
<1> QED BY <1>1, <1>2, <1>3, <1>4, <1>5, <1>6, <1>7, <1>8, <1>9

\* RunCheckpoint and FlipThreadRoots, by type.
LEMMA CheckpointTypes ==
    ASSUME CountInv, ClosureTypes, NEW t \in Threads,
           (RcRequest(t) \/ RcFail(t) \/ RcCheck(t) \/ RcRaise(t) \/ RcSelf(t) \/
            RcRun(t) \/ RcLower(t) \/ RcBroadcast(t) \/ BarrierWait(t) \/ FlResume(t) \/
            FlShared(t) \/ FlRun(t) \/ FlLower(t))
    PROVE  ClosureTypes'
<1>0. OwnPlace(t) /\ ~aborted
  BY OwnPlaceHolds, CountsAre
<1> USE <1>0, SomeThreads DEF OwnPlace, PlaceTypes, ClosureTypes, others, memory, mutator_lock,
        flow, closures, progress, asking, counts,
            all_counts, identity, Unlocked, At, Goto
<1>1. CASE RcRequest(t)
  BY <1>1 DEF RcRequest
<1>2. CASE RcFail(t)
  BY <1>2 DEF RcFail
<1>3. CASE RcCheck(t)
  BY <1>3 DEF RcCheck
<1>4. CASE RcRaise(t)
  BY <1>4 DEF RcRaise, Modify
<1>5. CASE RcSelf(t)
  BY <1>5 DEF RcSelf
<1>6. CASE RcRun(t)
  BY <1>6 DEF RcRun
<1>7. CASE RcLower(t)
  BY <1>7 DEF RcLower, Modify
<1>8. CASE RcBroadcast(t)
  BY <1>8 DEF RcBroadcast, Broadcast
<1>9. CASE BarrierWait(t)
  BY <1>9 DEF BarrierWait
<1>10. CASE FlResume(t)
  BY <1>10, FlResumeTypes
<1>11. CASE FlShared(t)
  BY <1>11 DEF FlShared
<1>12. CASE FlRun(t)
  BY <1>12, FlRunTypes
<1>13. CASE FlLower(t)
  BY <1>13 DEF FlLower, Broadcast, Modify
<1> QED BY <1>1, <1>2, <1>3, <1>4, <1>5, <1>6, <1>7, <1>8, <1>9, <1>10, <1>11, <1>12, <1>13

\* The debugger's operations, by type.
LEMMA DebuggerTypes ==
    ASSUME CountInv, ClosureTypes, NEW t \in Threads,
           (DaLock(t) \/ DaAssert(t) \/ DsRaise(t) \/ DsRecheck(t) \/ DbBroadcast(t) \/
            DrTest(t) \/ DrResume(t) \/ DrBroadcast(t))
    PROVE  ClosureTypes'
<1>0. OwnPlace(t) /\ ~aborted
  BY OwnPlaceHolds, CountsAre
<1> USE <1>0, SomeThreads DEF OwnPlace, PlaceTypes, ClosureTypes, others, memory, mutator_lock,
        flow, closures, progress, asking, counts,
            all_counts, identity, Unlocked, At, Goto
<1>1. CASE DaLock(t)
  BY <1>1 DEF DaLock, CanLockExclusive
<1>2. CASE DaAssert(t)
  BY <1>2 DEF DaAssert
<1>3. CASE DsRaise(t)
  BY <1>3 DEF DsRaise, ModifyForDebugger
<1>4. CASE DsRecheck(t)
  BY <1>4 DEF DsRecheck
<1>5. CASE DbBroadcast(t)
  BY <1>5 DEF DbBroadcast, Broadcast
<1>6. CASE DrTest(t)
  BY <1>6 DEF DrTest
<1>7. CASE DrResume(t)
  BY <1>7 DEF DrResume, ModifyForDebugger
<1>8. CASE DrBroadcast(t)
  BY <1>8 DEF DrBroadcast, Broadcast
<1> QED BY <1>1, <1>2, <1>3, <1>4, <1>5, <1>6, <1>7, <1>8

\* Every step of a thread keeps the types of the closures.
LEMMA StepTypes ==
    ASSUME CountInv, ClosureTypes, NEW t \in Threads, Start(t) \/ Continue(t)
    PROVE  ClosureTypes'
  BY StartTypes, TransitionTypes, SuspendAllTypes, SuspendThreadTypes, CheckpointTypes,
      DebuggerTypes
     DEF Continue, Transition, Safepoint

\* At the start no closure is under way.
LEMMA ClosureTypesInit == Init => ClosureTypes
<1> SUFFICES ASSUME Init PROVE ClosureTypes
  OBVIOUS
<1>1. slots \in [Threads -> Seq(Threads)]
  <2>1. <<>> \in Seq(Threads)
    OBVIOUS
  <2> QED BY <2>1 DEF Init
<1>2. has_peer \in [Threads -> BOOLEAN]
  BY DEF Init
<1>3. need \in [Threads -> SUBSET Threads] /\ done \in [Threads -> SUBSET Threads]
  BY DEF Init
<1>4. barrier \in [Threads -> Int] /\ expected \in [Threads -> Nat]
  BY DEF Init
<1>5. aborted \in BOOLEAN
  BY DEF Init
<1> QED BY <1>1, <1>2, <1>3, <1>4, <1>5 DEF ClosureTypes

\* Every step keeps the types.
LEMMA ClosureTypesNext == CountInv /\ ClosureTypes /\ [Next]_vars => ClosureTypes'
<1> SUFFICES ASSUME CountInv, ClosureTypes, [Next]_vars PROVE ClosureTypes'
  OBVIOUS
<1>1. CASE UNCHANGED vars
  BY <1>1 DEF vars, others, memory, identity, closures, progress, ClosureTypes
<1>2. CASE Next
  BY <1>2, StepTypes DEF Next
<1> QED BY <1>1, <1>2

\* For any number of threads: the state of ThreadList and of its threads keeps its type; the
\* suspend counts never fall below zero (ModifySuspendCount).
THEOREM TypeOKHolds ==
    ASSUME OnlyDebuggerSuspends
    PROVE  Spec => []TypeOK
<1>1. CountInv /\ ClosureTypes => TypeOK
  <2> SUFFICES ASSUME CountInv, ClosureTypes PROVE TypeOK
    OBVIOUS
  <2>1. LockTypes /\ PlaceTypes /\ CounterTypes
    BY DEF CountInv, LockInv
  <2>2. debug_suspend_count \in [Threads -> Int]
    BY <2>1 DEF CounterTypes
  <2>3. suspend_all_count \in Int /\ debug_suspend_all_count \in Int
    BY <2>1 DEF CounterTypes
  <2> QED BY <2>1, <2>2, <2>3 DEF TypeOK, LockTypes, PlaceTypes, CounterTypes, ClosureTypes
<1> QED BY <1>1, CountInvInit, CountInvNext, ClosureTypesInit, ClosureTypesNext, PTL DEF Spec

\* A thread that exits can be stranded by SxGone, which lowers its count and wakes nobody
\* (the run threads_stranded_exit): threads exit, or are suspended by their peer, but not both.
NobodyStranded == "exit" \in Ops => Ops \cap {"peer", "debug"} = {}

\* Where a thread is detaching.
ExitPcs == {"ex_peer", "ex_again", "ex_revoke", "ex_remove"}

\* What keeps SxGone from lowering a count.
PeerFits(t) ==
    /\ "exit" \notin Ops => /\ pc[t] # "absent" => has_peer[t]
                           /\ {pc[t], ret[t]} \cap ExitPcs = {}
    /\ how[t] \in {"peer", "debug"} => how[t] \in Ops

\* A step of t that lowers a sleeper's count leads to a broadcast.
Wakes(t) ==
    /\ \A s \in Threads \ {t} :
          pc'[s] \in SleepPcs /\ suspend_count'[s] = 0 /\ suspend_count[s] # 0
              => pc'[t] \in BroadcastPcs
    /\ pc[t] \in BroadcastPcs /\ pc'[t] \notin BroadcastPcs =>
          \A s \in Threads \ {t} : pc'[s] \notin SleepPcs
    /\ pc'[t] \in SleepPcs => suspend_count'[t] # 0

\* What a thread starts leaves its peer alone, ...
LEMMA StartPeers ==
    ASSUME CountInv, (\A s \in Threads : PeerFits(s)), has_peer \in [Threads -> BOOLEAN], NEW t \in Threads,
           Start(t)
    PROVE  PeerFits(t)' /\ \A s \in Threads \ {t} : has_peer'[s] = has_peer[s]
<1>0. OwnPlace(t)
  BY OwnPlaceHolds
<1> USE <1>0 DEF OwnPlace, PlaceTypes, PeerFits, ExitPcs, ToRunnablePcs, ToSuspendedPcs, others,
        memory, mutator_lock, flow, closures, progress, asking, counts,
            all_counts, identity, Unlocked, At, Goto
<1>1. CASE Create(t)
  BY <1>1 DEF Create
<1>2. CASE Enter(t)
  BY <1>2 DEF Enter, CallToRunnable
<1>3. CASE Leave(t)
  BY <1>3 DEF Leave, CallToSuspended
<1>4. CASE Exit(t)
  BY <1>4 DEF Exit, CallToRunnable
<1>5. CASE SuspendAll(t)
  BY <1>5 DEF SuspendAll
<1>6. CASE SuspendThread(t)
  BY <1>6 DEF SuspendThread, CallToRunnable
<1>7. CASE RunCheckpoint(t)
  BY <1>7 DEF RunCheckpoint
<1>8. CASE RunCheckpointOnRunnableThreads(t)
  BY <1>8 DEF RunCheckpointOnRunnableThreads
<1>9. CASE FlipThreadRoots(t)
  BY <1>9 DEF FlipThreadRoots
<1>10. CASE SuspendAllForDebugger(t)
  BY <1>10 DEF SuspendAllForDebugger, DebuggerIsFree
<1>11. CASE SuspendSelfForDebugger(t)
  BY <1>11 DEF SuspendSelfForDebugger, DebuggerIsFree
<1>12. CASE ResumeAllForDebugger(t)
  BY <1>12 DEF ResumeAllForDebugger, DebuggerIsFree
<1>13. CASE UndoDebuggerSuspensions(t)
  BY <1>13 DEF UndoDebuggerSuspensions, DebuggerIsFree
<1>14. CASE DbgResumeThread(t)
  BY <1>14 DEF DbgResumeThread, DebuggerIsFree
<1> QED BY <1>1, <1>2, <1>3, <1>4, <1>5, <1>6, <1>7, <1>8, <1>9, <1>10, <1>11, <1>12, <1>13,
        <1>14 DEF Start, Request

\* ... so do the transitions, ...
LEMMA TransitionPeers ==
    ASSUME CountInv, (\A s \in Threads : PeerFits(s)), has_peer \in [Threads -> BOOLEAN], NEW t \in Threads,
           (TrCheck(t) \/ TrRecheck(t) \/ TrLock(t) \/ TrCas(t) \/ TrUnlock(t) \/
            TrFlip(t) \/ TsCheckpoint(t) \/ TsCas(t) \/ TsUnlock(t))
    PROVE  PeerFits(t)' /\ \A s \in Threads \ {t} : has_peer'[s] = has_peer[s]
<1>0. OwnPlace(t)
  BY OwnPlaceHolds
<1> USE <1>0 DEF OwnPlace, PlaceTypes, PeerFits, ExitPcs, ToRunnablePcs, ToSuspendedPcs, others,
        memory, mutator_lock, flow, closures, progress, asking, counts,
            all_counts, identity, Unlocked, At, Goto
<1>1. CASE TrCheck(t)
  BY <1>1 DEF TrCheck
<1>2. CASE TrRecheck(t)
  BY <1>2 DEF TrRecheck
<1>3. CASE TrLock(t)
  BY <1>3 DEF TrLock
<1>4. CASE TrCas(t)
  BY <1>4 DEF TrCas
<1>5. CASE TrUnlock(t)
  BY <1>5 DEF TrUnlock
<1>6. CASE TrFlip(t)
  BY <1>6 DEF TrFlip
<1>7. CASE TsCheckpoint(t)
  BY <1>7 DEF TsCheckpoint, RunCheckpointFunction, RunClosures
<1>8. CASE TsCas(t)
  BY <1>8 DEF TsCas
<1>9. CASE TsUnlock(t)
  BY <1>9 DEF TsUnlock, CallToRunnable
<1> QED BY <1>1, <1>2, <1>3, <1>4, <1>5, <1>6, <1>7, <1>8, <1>9

\* ... attaching sets the peer first and detaching clears it, ...
LEMMA SuspendAllPeers ==
    ASSUME CountInv, (\A s \in Threads : PeerFits(s)), has_peer \in [Threads -> BOOLEAN], NEW t \in Threads,
           (CheckSuspendCheckpoint(t) \/ FullSuspendCheck(t) \/ Register(t) \/
            ExPeer(t) \/ ExAgain(t) \/ ExRevoke(t) \/ ExRemove(t) \/ ExclusiveLock(t) \/
            ExclusiveUnlock(t) \/ ResumeAll(t))
    PROVE  PeerFits(t)' /\ \A s \in Threads \ {t} : has_peer'[s] = has_peer[s]
<1>0. OwnPlace(t)
  BY OwnPlaceHolds
<1> USE <1>0 DEF OwnPlace, PlaceTypes, PeerFits, ExitPcs, ToRunnablePcs, ToSuspendedPcs, others,
        memory, mutator_lock, flow, closures, progress, asking, counts,
            all_counts, identity, Unlocked, At, Goto
<1>1. CASE CheckSuspendCheckpoint(t)
  BY <1>1 DEF CheckSuspendCheckpoint, RunCheckpointFunction, RunClosures
<1>2. CASE FullSuspendCheck(t)
  BY <1>2 DEF FullSuspendCheck, CallToSuspended
<1>3. CASE Register(t)
  BY <1>3 DEF Register
<1>4. CASE ExPeer(t)
  BY <1>4 DEF ExPeer, CallToSuspended
<1>5. CASE ExAgain(t)
  BY <1>5 DEF ExAgain, CallToRunnable
<1>6. CASE ExRevoke(t)
  BY <1>6 DEF ExRevoke, CallToSuspended
<1>7. CASE ExRemove(t)
  BY <1>7 DEF ExRemove
<1>8. CASE ExclusiveLock(t)
  BY <1>8 DEF ExclusiveLock, CanLockExclusive
<1>9. CASE ExclusiveUnlock(t)
  BY <1>9 DEF ExclusiveUnlock
<1>10. CASE ResumeAll(t)
  BY <1>10 DEF ResumeAll, Broadcast
<1> QED BY <1>1, <1>2, <1>3, <1>4, <1>5, <1>6, <1>7, <1>8, <1>9, <1>10

\* ... and the peer is only read by SuspendThreadByPeer, ...
LEMMA SuspendThreadPeers ==
    ASSUME CountInv, (\A s \in Threads : PeerFits(s)), has_peer \in [Threads -> BOOLEAN], NEW t \in Threads,
           (SxGone(t) \/ SxUnattached(t) \/ SxYield(t) \/ SxRaise(t) \/ SxPoll(t) \/
            SxTimeout(t) \/ SxAgain(t) \/ Resume(t) \/ ResumeBroadcast(t))
    PROVE  PeerFits(t)' /\ \A s \in Threads \ {t} : has_peer'[s] = has_peer[s]
<1>0. OwnPlace(t)
  BY OwnPlaceHolds
<1> USE <1>0 DEF OwnPlace, PlaceTypes, PeerFits, ExitPcs, ToRunnablePcs, ToSuspendedPcs, others,
        memory, mutator_lock, flow, closures, progress, asking, counts,
            all_counts, identity, Unlocked, At, Goto
<1>1. CASE SxGone(t)
  BY <1>1 DEF SxGone, SxReturn, CallToSuspended
<1>2. CASE SxUnattached(t)
  BY <1>2 DEF SxUnattached, SxReturn, CallToSuspended
<1>3. CASE SxYield(t)
  BY <1>3 DEF SxYield, CallToSuspended
<1>4. CASE SxRaise(t)
  BY <1>4 DEF SxRaise, SxAwait, CallToSuspended
<1>5. CASE SxPoll(t)
  BY <1>5 DEF SxPoll, SxAwait, CallToSuspended
<1>6. CASE SxTimeout(t)
  BY <1>6 DEF SxTimeout, SxReturn, CallToSuspended
<1>7. CASE SxAgain(t)
  BY <1>7 DEF SxAgain, CallToRunnable
<1>8. CASE Resume(t)
  BY <1>8 DEF Resume
<1>9. CASE ResumeBroadcast(t)
  BY <1>9 DEF ResumeBroadcast, Broadcast
<1> QED BY <1>1, <1>2, <1>3, <1>4, <1>5, <1>6, <1>7, <1>8, <1>9

\* ... and neither read nor written by RunCheckpoint and FlipThreadRoots, ...
LEMMA CheckpointPeers ==
    ASSUME CountInv, (\A s \in Threads : PeerFits(s)), has_peer \in [Threads -> BOOLEAN], NEW t \in Threads,
           (RcRequest(t) \/ RcFail(t) \/ RcCheck(t) \/ RcRaise(t) \/ RcSelf(t) \/
            RcRun(t) \/ RcLower(t) \/ RcBroadcast(t) \/ BarrierWait(t) \/ FlResume(t) \/
            FlShared(t) \/ FlRun(t) \/ FlLower(t))
    PROVE  PeerFits(t)' /\ \A s \in Threads \ {t} : has_peer'[s] = has_peer[s]
<1>0. OwnPlace(t)
  BY OwnPlaceHolds
<1> USE <1>0 DEF OwnPlace, PlaceTypes, PeerFits, ExitPcs, ToRunnablePcs, ToSuspendedPcs, others,
        memory, mutator_lock, flow, closures, progress, asking, counts,
            all_counts, identity, Unlocked, At, Goto
<1>1. CASE RcRequest(t)
  BY <1>1 DEF RcRequest
<1>2. CASE RcFail(t)
  BY <1>2 DEF RcFail
<1>3. CASE RcCheck(t)
  BY <1>3 DEF RcCheck
<1>4. CASE RcRaise(t)
  BY <1>4 DEF RcRaise
<1>5. CASE RcSelf(t)
  BY <1>5 DEF RcSelf
<1>6. CASE RcRun(t)
  BY <1>6 DEF RcRun
<1>7. CASE RcLower(t)
  BY <1>7 DEF RcLower
<1>8. CASE RcBroadcast(t)
  BY <1>8 DEF RcBroadcast, Broadcast
<1>9. CASE BarrierWait(t)
  BY <1>9 DEF BarrierWait
<1>10. CASE FlResume(t)
  BY <1>10 DEF FlResume, Broadcast
<1>11. CASE FlShared(t)
  BY <1>11 DEF FlShared
<1>12. CASE FlRun(t)
  BY <1>12 DEF FlRun
<1>13. CASE FlLower(t)
  BY <1>13 DEF FlLower, Broadcast
<1> QED BY <1>1, <1>2, <1>3, <1>4, <1>5, <1>6, <1>7, <1>8, <1>9, <1>10, <1>11, <1>12, <1>13

\* ... and the debugger's operations.
LEMMA DebuggerPeers ==
    ASSUME CountInv, (\A s \in Threads : PeerFits(s)), has_peer \in [Threads -> BOOLEAN], NEW t \in Threads,
           (DaLock(t) \/ DaAssert(t) \/ DsRaise(t) \/ DsRecheck(t) \/ DbBroadcast(t) \/
            DrTest(t) \/ DrResume(t) \/ DrBroadcast(t))
    PROVE  PeerFits(t)' /\ \A s \in Threads \ {t} : has_peer'[s] = has_peer[s]
<1>0. OwnPlace(t)
  BY OwnPlaceHolds
<1> USE <1>0 DEF OwnPlace, PlaceTypes, PeerFits, ExitPcs, ToRunnablePcs, ToSuspendedPcs, others,
        memory, mutator_lock, flow, closures, progress, asking, counts,
            all_counts, identity, Unlocked, At, Goto
<1>1. CASE DaLock(t)
  BY <1>1 DEF DaLock, CanLockExclusive
<1>2. CASE DaAssert(t)
  BY <1>2 DEF DaAssert
<1>3. CASE DsRaise(t)
  BY <1>3 DEF DsRaise
<1>4. CASE DsRecheck(t)
  BY <1>4 DEF DsRecheck
<1>5. CASE DbBroadcast(t)
  BY <1>5 DEF DbBroadcast, Broadcast
<1>6. CASE DrTest(t)
  BY <1>6 DEF DrTest
<1>7. CASE DrResume(t)
  BY <1>7 DEF DrResume
<1>8. CASE DrBroadcast(t)
  BY <1>8 DEF DrBroadcast, Broadcast
<1> QED BY <1>1, <1>2, <1>3, <1>4, <1>5, <1>6, <1>7, <1>8

\* SxGone lowers nobody's count: whoever is in list_ still has its peer, or nobody suspends by peer.
LEMMA SxGoneWakes ==
    ASSUME NobodyStranded, CountInv, NEW t \in Threads, (\A s \in Threads : PeerFits(s)), SxGone(t)
    PROVE  Wakes(t)
<1>1. OwnPlace(t) /\ raised[t] \subseteq list /\ raised[t] \subseteq {target[t]}
  BY OwnPlaceHolds, CountsAre DEF SxGone, OwnPlace, Fits, RaisedFits, IsSuspender, At
<1>2. pc'[t] = "ts_cas" /\ pc[t] = "sx_try"
  BY <1>1 DEF SxGone, SxReturn, CallToSuspended, OwnPlace, At, Goto
<1>3. how[t] # "id" /\ raised[t] # {} => FALSE
  <2> SUFFICES ASSUME how[t] # "id", raised[t] # {} PROVE FALSE
    OBVIOUS
  <2>1. target[t] \in list /\ target[t] \in Threads /\ pc[target[t]] # "absent"
    BY <1>1 DEF CountInv, Listed, PlaceTypes
  <2>2. ~has_peer[target[t]]
    BY DEF SxGone, Found
  <2>3. how[t] \in {"peer", "debug"} /\ how[t] \in Ops
    BY <1>1, <1>2 DEF OwnPlace, PlaceTypes, Fits, RaisedFits, IsSuspender, PeerFits
  <2> QED BY <2>1, <2>2, <2>3 DEF NobodyStranded, PeerFits
<1>4. UNCHANGED suspend_count
  BY <1>3 DEF SxGone
<1> QED BY <1>2, <1>4 DEF Wakes, SleepPcs, BroadcastPcs

\* SuspendThreadByThreadId gives up on a thread that is Runnable: it does not sleep.
LEMMA SxTimeoutWakes ==
    ASSUME CountInv, NEW t \in Threads, SxTimeout(t)
    PROVE  Wakes(t)
<1>1. OwnCounts(t)
  BY OwnCountsHolds
<1>2. pc'[t] = "ts_cas" /\ pc[t] = "sx_try" /\ pc' = [pc EXCEPT ![t] = "ts_cas"]
          /\ target[t] \in raised[t] /\ how[t] = "id"
  BY <1>1 DEF SxTimeout, SxReturn, CallToSuspended, OwnCounts, OwnPlace, Fits, RaisedFits,
      IsSuspender, At, Goto
<1>3. target[t] \in list /\ suspend_count[target[t]] > 0
  BY <1>1, <1>2 DEF OwnCounts, Raises
<1>4. state[target[t]] = "Runnable" /\ target[t] \in Threads
  BY <1>1, <1>3 DEF SxTimeout, IsSuspended, OwnCounts
<1>5. pc[target[t]] \notin SleepPcs
  BY <1>4 DEF CountInv, LockInv, StateMatchesPc, RunnablePcs, SleepPcs
<1>6. \A s \in Threads \ {target[t]} : suspend_count'[s] = suspend_count[s]
  BY <1>2 DEF SxTimeout, ModifyTarget, Modify
<1>7. \A s \in Threads \ {t} : pc'[s] = pc[s]
  BY <1>1, <1>2 DEF OwnCounts, OwnPlace
<1> QED BY <1>2, <1>5, <1>6, <1>7 DEF Wakes, SleepPcs, BroadcastPcs

\* No operation starts by lowering the count of a sleeper without a broadcast, ...
LEMMA StartWakes ==
    ASSUME NobodyStranded, CountInv, (\A s \in Threads : PeerFits(s)), NEW t \in Threads,
           Start(t)
    PROVE  Wakes(t)
<1>0. OwnPlace(t) /\ suspend_count \in [Threads -> Nat]
  BY OwnPlaceHolds DEF CountInv, CounterTypes
<1> USE <1>0 DEF OwnPlace, PlaceTypes, Wakes, SleepPcs, BroadcastPcs, ToRunnablePcs,
        ToSuspendedPcs, others, memory, mutator_lock, flow, closures, progress, asking, counts,
            all_counts, identity, Unlocked, At, Goto
<1>1. CASE Create(t)
  BY <1>1 DEF Create
<1>2. CASE Enter(t)
  BY <1>2 DEF Enter, CallToRunnable
<1>3. CASE Leave(t)
  BY <1>3 DEF Leave, CallToSuspended
<1>4. CASE Exit(t)
  BY <1>4 DEF Exit, CallToRunnable
<1>5. CASE SuspendAll(t)
  BY <1>5 DEF SuspendAll, Modify
<1>6. CASE SuspendThread(t)
  BY <1>6 DEF SuspendThread, CallToRunnable
<1>7. CASE RunCheckpoint(t)
  BY <1>7 DEF RunCheckpoint
<1>8. CASE RunCheckpointOnRunnableThreads(t)
  BY <1>8 DEF RunCheckpointOnRunnableThreads
<1>9. CASE FlipThreadRoots(t)
  BY <1>9 DEF FlipThreadRoots, Modify
<1>10. CASE SuspendAllForDebugger(t)
  BY <1>10 DEF SuspendAllForDebugger, DebuggerIsFree, ModifyForDebugger, Always
<1>11. CASE SuspendSelfForDebugger(t)
  BY <1>11 DEF SuspendSelfForDebugger, DebuggerIsFree
<1>12. CASE ResumeAllForDebugger(t)
  BY <1>12 DEF ResumeAllForDebugger, DebuggerIsFree
<1>13. CASE UndoDebuggerSuspensions(t)
  BY <1>13 DEF UndoDebuggerSuspensions, DebuggerIsFree
<1>14. CASE DbgResumeThread(t)
  BY <1>14 DEF DbgResumeThread, DebuggerIsFree
<1> QED BY <1>1, <1>2, <1>3, <1>4, <1>5, <1>6, <1>7, <1>8, <1>9, <1>10, <1>11, <1>12, <1>13,
        <1>14 DEF Start, Request

\* ... no transition does, and it goes to sleep only with its own count raised, ...
LEMMA TransitionWakes ==
    ASSUME NobodyStranded, CountInv, (\A s \in Threads : PeerFits(s)), NEW t \in Threads,
           (TrCheck(t) \/ TrRecheck(t) \/ TrLock(t) \/ TrCas(t) \/ TrUnlock(t) \/
            TrFlip(t) \/ TsCheckpoint(t) \/ TsCas(t) \/ TsUnlock(t))
    PROVE  Wakes(t)
<1>0. OwnPlace(t) /\ suspend_count \in [Threads -> Nat]
  BY OwnPlaceHolds DEF CountInv, CounterTypes
<1> USE <1>0 DEF OwnPlace, PlaceTypes, Wakes, SleepPcs, BroadcastPcs, ToRunnablePcs,
        ToSuspendedPcs, others, memory, mutator_lock, flow, closures, progress, asking, counts,
            all_counts, identity, Unlocked, At, Goto
<1>1. CASE TrCheck(t)
  BY <1>1 DEF TrCheck
<1>2. CASE TrRecheck(t)
  BY <1>2 DEF TrRecheck
<1>3. CASE TrLock(t)
  BY <1>3 DEF TrLock
<1>4. CASE TrCas(t)
  BY <1>4 DEF TrCas
<1>5. CASE TrUnlock(t)
  BY <1>5 DEF TrUnlock
<1>6. CASE TrFlip(t)
  BY <1>6 DEF TrFlip
<1>7. CASE TsCheckpoint(t)
  BY <1>7 DEF TsCheckpoint, RunCheckpointFunction, RunClosures
<1>8. CASE TsCas(t)
  BY <1>8 DEF TsCas
<1>9. CASE TsUnlock(t)
  BY <1>9 DEF TsUnlock, CallToRunnable
<1> QED BY <1>1, <1>2, <1>3, <1>4, <1>5, <1>6, <1>7, <1>8, <1>9

\* ... ResumeAll broadcasts in the critical section that lowers the counts, ...
LEMMA SuspendAllWakes ==
    ASSUME NobodyStranded, CountInv, (\A s \in Threads : PeerFits(s)), NEW t \in Threads,
           (CheckSuspendCheckpoint(t) \/ FullSuspendCheck(t) \/ Register(t) \/
            ExPeer(t) \/ ExAgain(t) \/ ExRevoke(t) \/ ExRemove(t) \/ ExclusiveLock(t) \/
            ExclusiveUnlock(t) \/ ResumeAll(t))
    PROVE  Wakes(t)
<1>0. OwnPlace(t) /\ suspend_count \in [Threads -> Nat]
  BY OwnPlaceHolds DEF CountInv, CounterTypes
<1> USE <1>0 DEF OwnPlace, PlaceTypes, Wakes, SleepPcs, BroadcastPcs, ToRunnablePcs,
        ToSuspendedPcs, others, memory, mutator_lock, flow, closures, progress, asking, counts,
            all_counts, identity, Unlocked, At, Goto
<1>1. CASE CheckSuspendCheckpoint(t)
  BY <1>1 DEF CheckSuspendCheckpoint, RunCheckpointFunction, RunClosures
<1>2. CASE FullSuspendCheck(t)
  BY <1>2 DEF FullSuspendCheck, CallToSuspended
<1>3. CASE Register(t)
  BY <1>3 DEF Register, InitialCounts
<1>4. CASE ExPeer(t)
  BY <1>4 DEF ExPeer, CallToSuspended
<1>5. CASE ExAgain(t)
  BY <1>5 DEF ExAgain, CallToRunnable
<1>6. CASE ExRevoke(t)
  BY <1>6 DEF ExRevoke, CallToSuspended
<1>7. CASE ExRemove(t)
  BY <1>7 DEF ExRemove
<1>8. CASE ExclusiveLock(t)
  BY <1>8 DEF ExclusiveLock, CanLockExclusive
<1>9. CASE ExclusiveUnlock(t)
  BY <1>9 DEF ExclusiveUnlock
<1>10. CASE ResumeAll(t)
  BY <1>10 DEF ResumeAll, Broadcast
<1> QED BY <1>1, <1>2, <1>3, <1>4, <1>5, <1>6, <1>7, <1>8, <1>9, <1>10

\* ... Resume lowers the count and broadcasts next, ...
LEMMA SuspendThreadWakes ==
    ASSUME NobodyStranded, CountInv, (\A s \in Threads : PeerFits(s)), NEW t \in Threads,
           (SxGone(t) \/ SxUnattached(t) \/ SxYield(t) \/ SxRaise(t) \/ SxPoll(t) \/
            SxTimeout(t) \/ SxAgain(t) \/ Resume(t) \/ ResumeBroadcast(t))
    PROVE  Wakes(t)
<1>0. OwnPlace(t) /\ suspend_count \in [Threads -> Nat]
  BY OwnPlaceHolds DEF CountInv, CounterTypes
<1> USE <1>0 DEF OwnPlace, PlaceTypes, Wakes, SleepPcs, BroadcastPcs, ToRunnablePcs,
        ToSuspendedPcs, others, memory, mutator_lock, flow, closures, progress, asking, counts,
            all_counts, identity, Unlocked, At, Goto
<1>1. CASE SxGone(t)
  BY <1>1, SxGoneWakes
<1>2. CASE SxUnattached(t)
  BY <1>2 DEF SxUnattached, SxReturn, CallToSuspended
<1>3. CASE SxYield(t)
  BY <1>3 DEF SxYield, CallToSuspended
<1>4. CASE SxRaise(t)
  BY <1>4 DEF SxRaise, SxAwait, CallToSuspended, ModifyTarget, Modify, ModifyForDebugger, Always
<1>5. CASE SxPoll(t)
  BY <1>5 DEF SxPoll, SxAwait, CallToSuspended
<1>6. CASE SxTimeout(t)
  BY <1>6, SxTimeoutWakes
<1>7. CASE SxAgain(t)
  BY <1>7 DEF SxAgain, CallToRunnable
<1>8. CASE Resume(t)
  BY <1>8 DEF Resume
<1>9. CASE ResumeBroadcast(t)
  BY <1>9 DEF ResumeBroadcast, Broadcast
<1> QED BY <1>1, <1>2, <1>3, <1>4, <1>5, <1>6, <1>7, <1>8, <1>9

\* ... RunCheckpoint broadcasts after its last closure, FlipThreadRoots at once, ...
LEMMA CheckpointWakes ==
    ASSUME NobodyStranded, CountInv, (\A s \in Threads : PeerFits(s)), NEW t \in Threads,
           (RcRequest(t) \/ RcFail(t) \/ RcCheck(t) \/ RcRaise(t) \/ RcSelf(t) \/
            RcRun(t) \/ RcLower(t) \/ RcBroadcast(t) \/ BarrierWait(t) \/ FlResume(t) \/
            FlShared(t) \/ FlRun(t) \/ FlLower(t))
    PROVE  Wakes(t)
<1>0. OwnPlace(t) /\ suspend_count \in [Threads -> Nat]
  BY OwnPlaceHolds DEF CountInv, CounterTypes
<1> USE <1>0 DEF OwnPlace, PlaceTypes, Wakes, SleepPcs, BroadcastPcs, ToRunnablePcs,
        ToSuspendedPcs, others, memory, mutator_lock, flow, closures, progress, asking, counts,
            all_counts, identity, Unlocked, At, Goto
<1>1. CASE RcRequest(t)
  BY <1>1 DEF RcRequest
<1>2. CASE RcFail(t)
  BY <1>2 DEF RcFail
<1>3. CASE RcCheck(t)
  BY <1>3 DEF RcCheck
<1>4. CASE RcRaise(t)
  BY <1>4 DEF RcRaise, Modify
<1>5. CASE RcSelf(t)
  BY <1>5 DEF RcSelf
<1>6. CASE RcRun(t)
  BY <1>6 DEF RcRun
<1>7. CASE RcLower(t)
  BY <1>7 DEF RcLower
<1>8. CASE RcBroadcast(t)
  BY <1>8 DEF RcBroadcast, Broadcast
<1>9. CASE BarrierWait(t)
  BY <1>9 DEF BarrierWait
<1>10. CASE FlResume(t)
  BY <1>10 DEF FlResume, Broadcast
<1>11. CASE FlShared(t)
  BY <1>11 DEF FlShared
<1>12. CASE FlRun(t)
  BY <1>12 DEF FlRun
<1>13. CASE FlLower(t)
  BY <1>13 DEF FlLower, Broadcast
<1> QED BY <1>1, <1>2, <1>3, <1>4, <1>5, <1>6, <1>7, <1>8, <1>9, <1>10, <1>11, <1>12, <1>13

\* ... and the debugger's resumes broadcast next.
LEMMA DebuggerWakes ==
    ASSUME NobodyStranded, CountInv, (\A s \in Threads : PeerFits(s)), NEW t \in Threads,
           (DaLock(t) \/ DaAssert(t) \/ DsRaise(t) \/ DsRecheck(t) \/ DbBroadcast(t) \/
            DrTest(t) \/ DrResume(t) \/ DrBroadcast(t))
    PROVE  Wakes(t)
<1>0. OwnPlace(t) /\ suspend_count \in [Threads -> Nat]
  BY OwnPlaceHolds DEF CountInv, CounterTypes
<1> USE <1>0 DEF OwnPlace, PlaceTypes, Wakes, SleepPcs, BroadcastPcs, ToRunnablePcs,
        ToSuspendedPcs, others, memory, mutator_lock, flow, closures, progress, asking, counts,
            all_counts, identity, Unlocked, At, Goto
<1>1. CASE DaLock(t)
  BY <1>1 DEF DaLock, CanLockExclusive
<1>2. CASE DaAssert(t)
  BY <1>2 DEF DaAssert
<1>3. CASE DsRaise(t)
  BY <1>3 DEF DsRaise, ModifyForDebugger, Always
<1>4. CASE DsRecheck(t)
  BY <1>4 DEF DsRecheck
<1>5. CASE DbBroadcast(t)
  BY <1>5 DEF DbBroadcast, Broadcast
<1>6. CASE DrTest(t)
  BY <1>6 DEF DrTest
<1>7. CASE DrResume(t)
  BY <1>7 DEF DrResume
<1>8. CASE DrBroadcast(t)
  BY <1>8 DEF DrBroadcast, Broadcast
<1> QED BY <1>1, <1>2, <1>3, <1>4, <1>5, <1>6, <1>7, <1>8

\* Every step keeps PeerFits of its own thread, and the peers of the others.
LEMMA StepPeers ==
    ASSUME CountInv, NEW t \in Threads, (\A s \in Threads : PeerFits(s)), has_peer \in [Threads -> BOOLEAN], Start(t) \/ Continue(t)
    PROVE  PeerFits(t)' /\ \A s \in Threads \ {t} : has_peer'[s] = has_peer[s]
  BY StartPeers, TransitionPeers, SuspendAllPeers, SuspendThreadPeers, CheckpointPeers,
      DebuggerPeers
     DEF Continue, Transition, Safepoint

\* Every step that lowers the count of a sleeper leads to a broadcast.
LEMMA StepWakes ==
    ASSUME NobodyStranded, CountInv, NEW t \in Threads, (\A s \in Threads : PeerFits(s)), Start(t) \/ Continue(t)
    PROVE  Wakes(t)
  BY StartWakes, TransitionWakes, SuspendAllWakes, SuspendThreadWakes, CheckpointWakes,
      DebuggerWakes
     DEF Continue, Transition, Safepoint

\* The inductive invariant for wakeups.
WakeInv == ClosureTypes /\ (\A t \in Threads : PeerFits(t)) /\ NoLostWakeup

\* A step of a thread keeps it.
LEMMA WakeInvStep ==
    ASSUME NobodyStranded, CountInv, WakeInv, NEW t \in Threads, StepOf(t), Start(t) \/ Continue(t)
    PROVE  WakeInv'
<1>1. ClosureTypes'
  BY StepTypes DEF WakeInv
<1>2. Wakes(t) /\ PeerFits(t)' /\ \A s \in Threads \ {t} : has_peer'[s] = has_peer[s]
  BY StepPeers, StepWakes DEF WakeInv, ClosureTypes
<1>3. \A s \in Threads : PeerFits(s)'
  BY <1>2 DEF WakeInv, StepOf, PeerFits, ExitPcs
<1>4. NoLostWakeup'
  <2> SUFFICES ASSUME NEW s \in Threads, pc'[s] \in SleepPcs, suspend_count'[s] = 0
               PROVE  \E u \in Threads \ {s} : pc'[u] \in BroadcastPcs
    BY DEF NoLostWakeup
  <2>1. s # t
    BY <1>2 DEF Wakes
  <2>2. pc[s] \in SleepPcs
    BY <2>1 DEF StepOf, SleepPcs
  <2>3. CASE suspend_count[s] # 0
    BY <1>2, <2>1, <2>3 DEF Wakes
  <2>4. CASE suspend_count[s] = 0
    <3>1. PICK u \in Threads \ {s} : pc[u] \in BroadcastPcs
      BY <2>2, <2>4 DEF WakeInv, NoLostWakeup
    <3>2. CASE u = t
      BY <1>2, <2>1, <3>1, <3>2 DEF Wakes
    <3>3. CASE u # t
      BY <3>1, <3>3 DEF StepOf, BroadcastPcs
    <3> QED BY <3>2, <3>3
  <2> QED BY <2>3, <2>4
<1> QED BY <1>1, <1>3, <1>4 DEF WakeInv

\* For any number of threads: a thread that sleeps on resume_cond_ with a count of zero is going
\* to be woken, since somebody is on the way to resume_cond_->Broadcast. SxGone, which lowers a count
\* without a broadcast, is never reached where NobodyStranded holds.
THEOREM NoLostWakeupHolds ==
    ASSUME OnlyDebuggerSuspends, NobodyStranded
    PROVE  Spec => []NoLostWakeup
<1>1. Init => WakeInv
  <2> SUFFICES ASSUME Init PROVE WakeInv
    OBVIOUS
  <2>1. ClosureTypes
    BY ClosureTypesInit
  <2>2. \A t \in Threads : pc[t] \in {"native", "absent"} /\ (pc[t] # "absent" => has_peer[t])
            /\ ret[t] = "native" /\ how[t] = "id"
    BY DEF Init
  <2> QED BY <2>1, <2>2 DEF WakeInv, PeerFits, NoLostWakeup, ExitPcs, SleepPcs
<1>2. CountInv /\ WakeInv /\ [Next]_vars => WakeInv'
  <2> SUFFICES ASSUME CountInv, WakeInv, [Next]_vars PROVE WakeInv'
    OBVIOUS
  <2>1. CASE UNCHANGED vars
    <3>1. UNCHANGED <<pc, ret, how, has_peer, suspend_count>>
      BY <2>1 DEF vars, others, flow, asking, memory, identity, counts
    <3>2. ClosureTypes'
      BY ClosureTypesNext, <2>1 DEF WakeInv
    <3> QED BY <3>1, <3>2 DEF WakeInv, PeerFits, NoLostWakeup
  <2>2. ASSUME NEW t \in Threads, Start(t) \/ Continue(t) PROVE WakeInv'
    BY <2>2, StepPlaces, WakeInvStep
  <2> QED BY <2>1, <2>2 DEF Next
<1>3. WakeInv => NoLostWakeup
  BY DEF WakeInv
<1> QED BY <1>1, <1>2, <1>3, CountInvInit, CountInvNext, PTL DEF Spec

\* Who still has to run r's closure, and whose flip function r has set.
PendingOf(r) == {u \in Threads : \E i \in DOMAIN slots[u] : slots[u][i] = r}
FlipsOf(r) == {u \in Threads : flip[u] = r}
\* Where the collector is in FlipThreadRoots.
FlipPcs == {"fl_lock", "fl_held", "fl_counts"} \cup FlippingPcs

\* The barrier of r counts what is pending, once r has added what it expects.
BarrierCounts(r) ==
    /\ pc[r] \in CheckpointPcs => barrier[r] + expected[r] = Cardinality(PendingOf(r))
    /\ pc[r] = "rc_wait" => barrier[r] = Cardinality(PendingOf(r)) + Cardinality(FlipsOf(r))
    /\ pc[r] \in {"fl_shared", "fl_run"} => barrier[r] + expected[r] = Cardinality(FlipsOf(r)) + 1
    /\ pc[r] = "fl_lower" => barrier[r] + expected[r] = Cardinality(FlipsOf(r))
    /\ pc[r] \notin CheckpointPcs \cup FlippingPcs \cup {"rc_wait"} =>
          barrier[r] = 0 /\ expected[r] = 0 /\ done[r] = {} /\ need[r] = {}

\* Every thread that r's closure is meant for has run it, or is still going to.
NothingForgotten(r) ==
    /\ pc[r] \in LoopPcs =>
          /\ need[r] \subseteq PendingOf(r) \cup raised[r] \cup todo[r] \cup {r}
          /\ PendingOf(r) \cap todo[r] = {} /\ done[r] = {}
    /\ pc[r] \in {"rc_run", "rc_lower"}
           => need[r] \subseteq done[r] \cup PendingOf(r) \cup raised[r]
    /\ pc[r] = "rc_lower" => target[r] \in done[r]
    /\ pc[r] = "rc_wait" => need[r] \subseteq done[r] \cup PendingOf(r) \cup FlipsOf(r)
    /\ pc[r] \in {"fl_shared", "fl_run"} => need[r] \subseteq done[r] \cup FlipsOf(r) \cup {r}
    /\ pc[r] = "fl_lower" => need[r] \subseteq done[r] \cup FlipsOf(r)

\* Closures are pending only for a thread that is going to wait for them, and not for one that
\* has run them or that r runs them for.
PendingFits(r) ==
    /\ PendingOf(r) # {} => pc[r] \in CheckpointPcs \cup {"rc_wait"}
    /\ FlipsOf(r) # {} => pc[r] \in FlippingPcs \cup {"rc_wait"} /\ how[r] = "flip"
    /\ r \notin PendingOf(r)
    /\ PendingOf(r) \cap (done[r] \cup raised[r]) = {}
    /\ how[r] = "flip" => pc[r] \in FlipPcs \cup {"rc_wait"} /\ PendingOf(r) = {}
    /\ pc[r] \in FlipPcs => how[r] = "flip"

\* The three together.
BarFits(r) == BarrierCounts(r) /\ NothingForgotten(r) /\ PendingFits(r)

\* A thread's slots hold one closure of each requester.
SlotsOnce == \A u \in Threads : \A i, j \in DOMAIN slots[u] : slots[u][i] = slots[u][j] => i = j

\* One collector flips at a time.
OneFlip == \A r, s \in Threads : how[r] = "flip" /\ how[s] = "flip" => r = s

\* A thread with a flip function runs it on its way to Runnable, or the collector does.
FlipAwaited ==
    \A u \in Threads : flip[u] # NoThread =>
        at_check[u] \/ (u \in raised[flip[u]] /\ pc[flip[u]] \in {"fl_shared", "fl_run"})

\* The inductive invariant for barriers.
BarInv == ClosureTypes /\ (\A r \in Threads : BarFits(r)) /\ SlotsOnce /\ OneFlip /\ FlipAwaited

\* A step of t that changes the closures of t only.
OwnClosures(t) ==
    \A s \in Threads \ {t} :
        /\ PendingOf(s)' = PendingOf(s) /\ FlipsOf(s)' = FlipsOf(s)
        /\ need'[s] = need[s] /\ done'[s] = done[s] /\ barrier'[s] = barrier[s]
               /\ expected'[s] = expected[s]

\* Flips: nobody else starts one, and whoever waits for one still does.
FlipsKept(t) ==
    /\ how'[t] = "flip" => how[t] = "flip" \/ \A u \in Threads : how[u] # "flip"
    /\ at_check[t] => at_check'[t]
    /\ pc[t] \in {"fl_shared", "fl_run"} => pc'[t] \in {"fl_shared", "fl_run"}
           /\ raised'[t] = raised[t]

\* The sets that a barrier counts are finite.
LEMMA SetSizes ==
    ASSUME NEW r
    PROVE  /\ IsFiniteSet(PendingOf(r)) /\ IsFiniteSet(FlipsOf(r))
           /\ Cardinality(PendingOf(r)) \in Nat /\ Cardinality(FlipsOf(r)) \in Nat
           /\ (Cardinality(PendingOf(r)) = 0 <=> PendingOf(r) = {})
           /\ (Cardinality(FlipsOf(r)) = 0 <=> FlipsOf(r) = {})
<1>1. IsFiniteSet(PendingOf(r)) /\ IsFiniteSet(FlipsOf(r))
  BY ThreadListAssumption, FS_Subset DEF PendingOf, FlipsOf
<1> HIDE DEF PendingOf, FlipsOf
<1> QED BY <1>1, FS_CardinalityType, FS_EmptySet

\* A step that changes its own closures only leaves the others' barriers right.
LEMMA OthersBarFit ==
    ASSUME CountInv, BarInv, NEW t \in Threads, StepOf(t), OwnClosures(t)
    PROVE  \A s \in Threads \ {t} : BarFits(s)'
<1> SUFFICES ASSUME NEW s \in Threads \ {t} PROVE BarFits(s)'
  OBVIOUS
<1> USE DEF CheckpointPcs, LoopPcs, FlippingPcs, FlipPcs
<1>1. BarFits(s) /\ raised'[s] = raised[s] /\ todo'[s] = todo[s] /\ target'[s] = target[s]
          /\ how'[s] = how[s]
  BY DEF BarInv, StepOf
<1>2. PendingOf(s)' = PendingOf(s) /\ FlipsOf(s)' = FlipsOf(s) /\ need'[s] = need[s]
          /\ done'[s] = done[s]
      /\ barrier'[s] = barrier[s] /\ expected'[s] = expected[s]
  BY DEF OwnClosures
<1>3. pc'[s] = pc[s] \/ {pc[s], pc'[s]} \subseteq {"tr_sleep", "tr_recheck", "ds_sleep", "ds_recheck"}
  BY DEF StepOf
<1> HIDE DEF PendingOf, FlipsOf
<1>4. BarrierCounts(s)'
  BY <1>1, <1>2, <1>3 DEF BarFits, BarrierCounts
<1>5. NothingForgotten(s)'
  BY <1>1, <1>2, <1>3 DEF BarFits, NothingForgotten
<1>6. PendingFits(s)'
  BY <1>1, <1>2, <1>3 DEF BarFits, PendingFits
<1> QED BY <1>4, <1>5, <1>6 DEF BarFits

\* Nobody starts a second flip.
LEMMA OneFlipKept ==
    ASSUME CountInv, BarInv, NEW t \in Threads, StepOf(t), FlipsKept(t)
    PROVE  OneFlip'
  BY DEF BarInv, StepOf, FlipsKept, OneFlip

\* No flip function is forgotten.
LEMMA FlipAwaitedKept ==
    ASSUME CountInv, BarInv, NEW t \in Threads, StepOf(t), FlipsKept(t), UNCHANGED flip
    PROVE  FlipAwaited'
<1> SUFFICES ASSUME NEW u \in Threads, flip[u] # NoThread
             PROVE  at_check'[u] \/ (u \in raised'[flip[u]]
                 /\ pc'[flip[u]] \in {"fl_shared", "fl_run"})
  BY DEF FlipAwaited
<1>1. flip[u] \in Threads
  BY DEF CountInv, PlaceTypes
<1>2. at_check[u] \/ (u \in raised[flip[u]] /\ pc[flip[u]] \in {"fl_shared", "fl_run"})
  BY DEF BarInv, FlipAwaited
<1>3. at_check[u] => at_check'[u]
  BY DEF StepOf, FlipsKept
<1>4. pc[flip[u]] \in {"fl_shared", "fl_run"} => pc'[flip[u]] \in {"fl_shared", "fl_run"}
          /\ raised'[flip[u]] = raised[flip[u]]
  BY <1>1 DEF StepOf, FlipsKept
<1> QED BY <1>2, <1>3, <1>4

\* What a thread starts hands out no closure yet.
LEMMA StartClosures ==
    ASSUME CountInv, BarInv, NEW t \in Threads,
           (Create(t) \/ Enter(t) \/ Leave(t) \/ Exit(t) \/ SuspendAll(t) \/
            SuspendThread(t) \/ RunCheckpoint(t) \/ FlipThreadRoots(t) \/
            SuspendAllForDebugger(t) \/ SuspendSelfForDebugger(t) \/
            ResumeAllForDebugger(t) \/ UndoDebuggerSuspensions(t) \/
            DbgResumeThread(t))
    PROVE  UNCHANGED <<slots, flip>> /\ OwnClosures(t) /\ FlipsKept(t) /\ BarFits(t)'
<1>0. OwnPlace(t) /\ ClosureTypes /\ BarrierCounts(t) /\ NothingForgotten(t) /\ PendingFits(t)
  BY OwnPlaceHolds DEF BarInv, BarFits
<1>a. /\ Cardinality(PendingOf(t)) \in Nat /\ Cardinality(FlipsOf(t)) \in Nat
      /\ (Cardinality(PendingOf(t)) = 0 <=> PendingOf(t) = {})
      /\ (Cardinality(FlipsOf(t)) = 0 <=> FlipsOf(t) = {})
  BY SetSizes
<1>b. UNCHANGED <<slots, flip>> => \A s \in Threads : PendingOf(s)' = PendingOf(s)
          /\ FlipsOf(s)' = FlipsOf(s)
  BY DEF PendingOf, FlipsOf
<1> HIDE DEF PendingOf, FlipsOf
<1> USE <1>0, <1>a, <1>b DEF OwnPlace, PlaceTypes, Fits, RaisedFits, ClosureTypes, BarFits,
        BarrierCounts, NothingForgotten, PendingFits,
            OwnClosures, FlipsKept, FlipPcs, IsSuspender, TransitionPcs, LoopPcs, CheckpointPcs,
            FlippingPcs, PausePcs, DebugAllPcs, DebugResumePcs,
            RunnablePcs, SharePcs, SuspendAllPcs, ToRunnablePcs, ToSuspendedPcs,
            others, memory, mutator_lock, flow, closures, progress, asking, counts,
            all_counts, identity, Unlocked, At, Goto
<1>1. CASE Create(t)
  BY <1>1 DEF Create
<1>2. CASE Enter(t)
  BY <1>2 DEF Enter, CallToRunnable
<1>3. CASE Leave(t)
  BY <1>3 DEF Leave, CallToSuspended
<1>4. CASE Exit(t)
  BY <1>4 DEF Exit, CallToRunnable
<1>5. CASE SuspendAll(t)
  BY <1>5 DEF SuspendAll
<1>6. CASE SuspendThread(t)
  BY <1>6 DEF SuspendThread, CallToRunnable
<1>7. CASE RunCheckpoint(t)
  BY <1>7 DEF RunCheckpoint
<1>8. CASE FlipThreadRoots(t)
  BY <1>8 DEF FlipThreadRoots
<1>9. CASE SuspendAllForDebugger(t)
  BY <1>9 DEF SuspendAllForDebugger, DebuggerIsFree
<1>10. CASE SuspendSelfForDebugger(t)
  BY <1>10 DEF SuspendSelfForDebugger, DebuggerIsFree
<1>11. CASE ResumeAllForDebugger(t)
  BY <1>11 DEF ResumeAllForDebugger, DebuggerIsFree
<1>12. CASE UndoDebuggerSuspensions(t)
  BY <1>12 DEF UndoDebuggerSuspensions, DebuggerIsFree
<1>13. CASE DbgResumeThread(t)
  BY <1>13 DEF DbgResumeThread, DebuggerIsFree
<1> QED BY <1>1, <1>2, <1>3, <1>4, <1>5, <1>6, <1>7, <1>8, <1>9, <1>10, <1>11, <1>12, <1>13

\* The transitions change no closure, except where the thread runs its own (below).
LEMMA TransitionClosures ==
    ASSUME CountInv, BarInv, NEW t \in Threads,
           (TrCheck(t) \/ TrRecheck(t) \/ TrLock(t) \/ TrCas(t) \/ TrUnlock(t) \/
            TsCas(t) \/ TsUnlock(t))
    PROVE  UNCHANGED <<slots, flip>> /\ OwnClosures(t) /\ FlipsKept(t) /\ BarFits(t)'
<1>0. OwnPlace(t) /\ ClosureTypes /\ BarrierCounts(t) /\ NothingForgotten(t) /\ PendingFits(t)
  BY OwnPlaceHolds DEF BarInv, BarFits
<1>a. /\ Cardinality(PendingOf(t)) \in Nat /\ Cardinality(FlipsOf(t)) \in Nat
      /\ (Cardinality(PendingOf(t)) = 0 <=> PendingOf(t) = {})
      /\ (Cardinality(FlipsOf(t)) = 0 <=> FlipsOf(t) = {})
  BY SetSizes
<1>b. UNCHANGED <<slots, flip>> => \A s \in Threads : PendingOf(s)' = PendingOf(s)
          /\ FlipsOf(s)' = FlipsOf(s)
  BY DEF PendingOf, FlipsOf
<1> HIDE DEF PendingOf, FlipsOf
<1> USE <1>0, <1>a, <1>b DEF OwnPlace, PlaceTypes, Fits, RaisedFits, ClosureTypes, BarFits,
        BarrierCounts, NothingForgotten, PendingFits,
            OwnClosures, FlipsKept, FlipPcs, IsSuspender, TransitionPcs, LoopPcs, CheckpointPcs,
            FlippingPcs, PausePcs, DebugAllPcs, DebugResumePcs,
            RunnablePcs, SharePcs, SuspendAllPcs, ToRunnablePcs, ToSuspendedPcs,
            others, memory, mutator_lock, flow, closures, progress, asking, counts,
            all_counts, identity, Unlocked, At, Goto
<1>1. CASE TrCheck(t)
  BY <1>1 DEF TrCheck
<1>2. CASE TrRecheck(t)
  BY <1>2 DEF TrRecheck
<1>3. CASE TrLock(t)
  BY <1>3 DEF TrLock
<1>4. CASE TrCas(t)
  BY <1>4 DEF TrCas
<1>5. CASE TrUnlock(t)
  BY <1>5 DEF TrUnlock
<1>6. CASE TsCas(t)
  BY <1>6 DEF TsCas
<1>7. CASE TsUnlock(t)
  BY <1>7 DEF TsUnlock, CallToRunnable
<1> QED BY <1>1, <1>2, <1>3, <1>4, <1>5, <1>6, <1>7

\* Neither do safepoints without a checkpoint, attaching, detaching and SuspendAll, ...
LEMMA SuspendAllClosures ==
    ASSUME CountInv, BarInv, NEW t \in Threads,
           (FullSuspendCheck(t) \/ Register(t) \/ ExPeer(t) \/ ExAgain(t) \/
            ExRevoke(t) \/ ExclusiveLock(t) \/ ExclusiveUnlock(t) \/ ResumeAll(t))
    PROVE  UNCHANGED <<slots, flip>> /\ OwnClosures(t) /\ FlipsKept(t) /\ BarFits(t)'
<1>0. OwnPlace(t) /\ ClosureTypes /\ BarrierCounts(t) /\ NothingForgotten(t) /\ PendingFits(t)
  BY OwnPlaceHolds DEF BarInv, BarFits
<1>a. /\ Cardinality(PendingOf(t)) \in Nat /\ Cardinality(FlipsOf(t)) \in Nat
      /\ (Cardinality(PendingOf(t)) = 0 <=> PendingOf(t) = {})
      /\ (Cardinality(FlipsOf(t)) = 0 <=> FlipsOf(t) = {})
  BY SetSizes
<1>b. UNCHANGED <<slots, flip>> => \A s \in Threads : PendingOf(s)' = PendingOf(s)
          /\ FlipsOf(s)' = FlipsOf(s)
  BY DEF PendingOf, FlipsOf
<1> HIDE DEF PendingOf, FlipsOf
<1> USE <1>0, <1>a, <1>b DEF OwnPlace, PlaceTypes, Fits, RaisedFits, ClosureTypes, BarFits,
        BarrierCounts, NothingForgotten, PendingFits,
            OwnClosures, FlipsKept, FlipPcs, IsSuspender, TransitionPcs, LoopPcs, CheckpointPcs,
            FlippingPcs, PausePcs, DebugAllPcs, DebugResumePcs,
            RunnablePcs, SharePcs, SuspendAllPcs, ToRunnablePcs, ToSuspendedPcs,
            others, memory, mutator_lock, flow, closures, progress, asking, counts,
            all_counts, identity, Unlocked, At, Goto
<1>1. CASE FullSuspendCheck(t)
  BY <1>1 DEF FullSuspendCheck, CallToSuspended
<1>2. CASE Register(t)
  BY <1>2 DEF Register
<1>3. CASE ExPeer(t)
  BY <1>3 DEF ExPeer, CallToSuspended
<1>4. CASE ExAgain(t)
  BY <1>4 DEF ExAgain, CallToRunnable
<1>5. CASE ExRevoke(t)
  BY <1>5 DEF ExRevoke, CallToSuspended
<1>6. CASE ExclusiveLock(t)
  BY <1>6 DEF ExclusiveLock, CanLockExclusive
<1>7. CASE ExclusiveUnlock(t)
  BY <1>7 DEF ExclusiveUnlock
<1>8. CASE ResumeAll(t)
  BY <1>8 DEF ResumeAll, Broadcast
<1> QED BY <1>1, <1>2, <1>3, <1>4, <1>5, <1>6, <1>7, <1>8

\* ... nor SuspendThreadBy... and Resume.
LEMMA SuspendThreadClosures ==
    ASSUME CountInv, BarInv, NEW t \in Threads,
           (SxGone(t) \/ SxUnattached(t) \/ SxYield(t) \/ SxRaise(t) \/ SxPoll(t) \/
            SxTimeout(t) \/ SxAgain(t) \/ Resume(t) \/ ResumeBroadcast(t))
    PROVE  UNCHANGED <<slots, flip>> /\ OwnClosures(t) /\ FlipsKept(t) /\ BarFits(t)'
<1>0. OwnPlace(t) /\ ClosureTypes /\ BarrierCounts(t) /\ NothingForgotten(t) /\ PendingFits(t)
  BY OwnPlaceHolds DEF BarInv, BarFits
<1>a. /\ Cardinality(PendingOf(t)) \in Nat /\ Cardinality(FlipsOf(t)) \in Nat
      /\ (Cardinality(PendingOf(t)) = 0 <=> PendingOf(t) = {})
      /\ (Cardinality(FlipsOf(t)) = 0 <=> FlipsOf(t) = {})
  BY SetSizes
<1>b. UNCHANGED <<slots, flip>> => \A s \in Threads : PendingOf(s)' = PendingOf(s)
          /\ FlipsOf(s)' = FlipsOf(s)
  BY DEF PendingOf, FlipsOf
<1> HIDE DEF PendingOf, FlipsOf
<1> USE <1>0, <1>a, <1>b DEF OwnPlace, PlaceTypes, Fits, RaisedFits, ClosureTypes, BarFits,
        BarrierCounts, NothingForgotten, PendingFits,
            OwnClosures, FlipsKept, FlipPcs, IsSuspender, TransitionPcs, LoopPcs, CheckpointPcs,
            FlippingPcs, PausePcs, DebugAllPcs, DebugResumePcs,
            RunnablePcs, SharePcs, SuspendAllPcs, ToRunnablePcs, ToSuspendedPcs,
            others, memory, mutator_lock, flow, closures, progress, asking, counts,
            all_counts, identity, Unlocked, At, Goto
<1>1. CASE SxGone(t)
  BY <1>1 DEF SxGone, SxReturn, CallToSuspended
<1>2. CASE SxUnattached(t)
  BY <1>2 DEF SxUnattached, SxReturn, CallToSuspended
<1>3. CASE SxYield(t)
  BY <1>3 DEF SxYield, CallToSuspended
<1>4. CASE SxRaise(t)
  BY <1>4 DEF SxRaise, SxAwait, CallToSuspended
<1>5. CASE SxPoll(t)
  BY <1>5 DEF SxPoll, SxAwait, CallToSuspended
<1>6. CASE SxTimeout(t)
  BY <1>6 DEF SxTimeout, SxReturn, CallToSuspended
<1>7. CASE SxAgain(t)
  BY <1>7 DEF SxAgain, CallToRunnable
<1>8. CASE Resume(t)
  BY <1>8 DEF Resume
<1>9. CASE ResumeBroadcast(t)
  BY <1>9 DEF ResumeBroadcast, Broadcast
<1> QED BY <1>1, <1>2, <1>3, <1>4, <1>5, <1>6, <1>7, <1>8, <1>9

\* RunCheckpoint and FlipThreadRoots, where no slot and no flip function changes.
LEMMA CheckpointClosures ==
    ASSUME CountInv, BarInv, NEW t \in Threads,
           (RcFail(t) \/ RcCheck(t) \/ RcRaise(t) \/ RcSelf(t) \/ RcRun(t) \/
            RcLower(t) \/ RcBroadcast(t) \/ BarrierWait(t) \/ FlShared(t) \/
            FlLower(t))
    PROVE  UNCHANGED <<slots, flip>> /\ OwnClosures(t) /\ FlipsKept(t) /\ BarFits(t)'
<1>0. OwnPlace(t) /\ ClosureTypes /\ BarrierCounts(t) /\ NothingForgotten(t) /\ PendingFits(t)
  BY OwnPlaceHolds DEF BarInv, BarFits
<1>a. /\ Cardinality(PendingOf(t)) \in Nat /\ Cardinality(FlipsOf(t)) \in Nat
      /\ (Cardinality(PendingOf(t)) = 0 <=> PendingOf(t) = {})
      /\ (Cardinality(FlipsOf(t)) = 0 <=> FlipsOf(t) = {})
  BY SetSizes
<1>b. UNCHANGED <<slots, flip>> => \A s \in Threads : PendingOf(s)' = PendingOf(s)
          /\ FlipsOf(s)' = FlipsOf(s)
  BY DEF PendingOf, FlipsOf
<1> HIDE DEF PendingOf, FlipsOf
<1> USE <1>0, <1>a, <1>b DEF OwnPlace, PlaceTypes, Fits, RaisedFits, ClosureTypes, BarFits,
        BarrierCounts, NothingForgotten, PendingFits,
            OwnClosures, FlipsKept, FlipPcs, IsSuspender, TransitionPcs, LoopPcs, CheckpointPcs,
            FlippingPcs, PausePcs, DebugAllPcs, DebugResumePcs,
            RunnablePcs, SharePcs, SuspendAllPcs, ToRunnablePcs, ToSuspendedPcs,
            others, memory, mutator_lock, flow, closures, progress, asking, counts,
            all_counts, identity, Unlocked, At, Goto
<1>1. CASE RcFail(t)
  BY <1>1 DEF RcFail
<1>2. CASE RcCheck(t)
  BY <1>2 DEF RcCheck
<1>3. CASE RcRaise(t)
  BY <1>3 DEF RcRaise
<1>4. CASE RcSelf(t)
  BY <1>4 DEF RcSelf
<1>5. CASE RcRun(t)
  BY <1>5 DEF RcRun
<1>6. CASE RcLower(t)
  BY <1>6 DEF RcLower
<1>7. CASE RcBroadcast(t)
  BY <1>7 DEF RcBroadcast, Broadcast
<1>8. CASE BarrierWait(t)
  BY <1>8 DEF BarrierWait
<1>9. CASE FlShared(t)
  BY <1>9 DEF FlShared
<1>10. CASE FlLower(t)
  BY <1>10 DEF FlLower, Broadcast
<1> QED BY <1>1, <1>2, <1>3, <1>4, <1>5, <1>6, <1>7, <1>8, <1>9, <1>10

\* The debugger's operations hand out no closure.
LEMMA DebuggerClosures ==
    ASSUME CountInv, BarInv, NEW t \in Threads,
           (DaLock(t) \/ DaAssert(t) \/ DsRaise(t) \/ DsRecheck(t) \/ DbBroadcast(t) \/
            DrTest(t) \/ DrResume(t) \/ DrBroadcast(t))
    PROVE  UNCHANGED <<slots, flip>> /\ OwnClosures(t) /\ FlipsKept(t) /\ BarFits(t)'
<1>0. OwnPlace(t) /\ ClosureTypes /\ BarrierCounts(t) /\ NothingForgotten(t) /\ PendingFits(t)
  BY OwnPlaceHolds DEF BarInv, BarFits
<1>a. /\ Cardinality(PendingOf(t)) \in Nat /\ Cardinality(FlipsOf(t)) \in Nat
      /\ (Cardinality(PendingOf(t)) = 0 <=> PendingOf(t) = {})
      /\ (Cardinality(FlipsOf(t)) = 0 <=> FlipsOf(t) = {})
  BY SetSizes
<1>b. UNCHANGED <<slots, flip>> => \A s \in Threads : PendingOf(s)' = PendingOf(s)
          /\ FlipsOf(s)' = FlipsOf(s)
  BY DEF PendingOf, FlipsOf
<1> HIDE DEF PendingOf, FlipsOf
<1> USE <1>0, <1>a, <1>b DEF OwnPlace, PlaceTypes, Fits, RaisedFits, ClosureTypes, BarFits,
        BarrierCounts, NothingForgotten, PendingFits,
            OwnClosures, FlipsKept, FlipPcs, IsSuspender, TransitionPcs, LoopPcs, CheckpointPcs,
            FlippingPcs, PausePcs, DebugAllPcs, DebugResumePcs,
            RunnablePcs, SharePcs, SuspendAllPcs, ToRunnablePcs, ToSuspendedPcs,
            others, memory, mutator_lock, flow, closures, progress, asking, counts,
            all_counts, identity, Unlocked, At, Goto
<1>1. CASE DaLock(t)
  BY <1>1 DEF DaLock, CanLockExclusive
<1>2. CASE DaAssert(t)
  BY <1>2 DEF DaAssert
<1>3. CASE DsRaise(t)
  BY <1>3 DEF DsRaise
<1>4. CASE DsRecheck(t)
  BY <1>4 DEF DsRecheck
<1>5. CASE DbBroadcast(t)
  BY <1>5 DEF DbBroadcast, Broadcast
<1>6. CASE DrTest(t)
  BY <1>6 DEF DrTest
<1>7. CASE DrResume(t)
  BY <1>7 DEF DrResume
<1>8. CASE DrBroadcast(t)
  BY <1>8 DEF DrBroadcast, Broadcast
<1> QED BY <1>1, <1>2, <1>3, <1>4, <1>5, <1>6, <1>7, <1>8

\* A closure is put into the slot of a Runnable thread.
LEMMA RcRequestClosures ==
    ASSUME CountInv, BarInv, NEW t \in Threads, RcRequest(t)
    PROVE  UNCHANGED flip /\ OwnClosures(t) /\ FlipsKept(t) /\ BarFits(t)' /\ SlotsOnce'
<1>0. OwnPlace(t) /\ ClosureTypes /\ BarrierCounts(t) /\ NothingForgotten(t) /\ PendingFits(t)
  BY OwnPlaceHolds DEF BarInv, BarFits
<1>a. /\ Cardinality(PendingOf(t)) \in Nat /\ Cardinality(FlipsOf(t)) \in Nat
      /\ (Cardinality(PendingOf(t)) = 0 <=> PendingOf(t) = {})
      /\ (Cardinality(FlipsOf(t)) = 0 <=> FlipsOf(t) = {})
  BY SetSizes
<1>1. PICK u \in todo[t] : slots' = [slots EXCEPT ![u] = Append(@, t)]
          /\ todo' = [todo EXCEPT ![t] = @ \ {u}]
  BY DEF RcRequest
<1>2. u \in Threads /\ u # t /\ u \notin PendingOf(t) /\ u \notin raised[t]
          /\ slots[u] \in Seq(Threads) /\ pc[t] = "rc_loop" /\ done[t] = {}
  BY <1>0, <1>1 DEF RcRequest, OwnPlace, PlaceTypes, Fits, RaisedFits, NothingForgotten, LoopPcs,
      ClosureTypes, At
<1>3. /\ slots'[u] = Append(slots[u], t) /\ \A w \in Threads \ {u} : slots'[w] = slots[w]
      /\ DOMAIN slots'[u] = DOMAIN slots[u] \cup {Len(slots[u]) + 1}
             /\ Len(slots[u]) + 1 \notin DOMAIN slots[u]
      /\ slots'[u][Len(slots[u]) + 1] = t /\ \A i \in DOMAIN slots[u] : slots'[u][i] = slots[u][i]
  <2>1. slots'[u] = Append(slots[u], t) /\ \A w \in Threads \ {u} : slots'[w] = slots[w]
    BY <1>0, <1>1, <1>2 DEF ClosureTypes
  <2>2. DOMAIN slots[u] = 1..Len(slots[u]) /\ Len(slots[u]) \in Nat
            /\ Len(Append(slots[u], t)) = Len(slots[u]) + 1
        /\ DOMAIN Append(slots[u], t) = 1..(Len(slots[u]) + 1)
    BY <1>2
  <2>3. Append(slots[u], t)[Len(slots[u]) + 1] = t
            /\ \A i \in 1..Len(slots[u]) : Append(slots[u], t)[i] = slots[u][i]
    BY <1>2, <2>2
  <2> QED BY <2>1, <2>2, <2>3
<1>4. PendingOf(t)' = PendingOf(t) \cup {u} /\ \A s \in Threads \ {t} : PendingOf(s)' = PendingOf(s)
  <2>1. \A s \in Threads, w \in Threads \ {u} : w \in PendingOf(s)' <=> w \in PendingOf(s)
    BY <1>3 DEF PendingOf
  <2>2. \A s \in Threads : u \in PendingOf(s)' <=> u \in PendingOf(s) \/ s = t
    BY <1>2, <1>3 DEF PendingOf
  <2>3. \A s \in Threads : PendingOf(s) \subseteq Threads /\ PendingOf(s)' \subseteq Threads
    BY DEF PendingOf
  <2> HIDE DEF PendingOf
  <2>4. PendingOf(t)' = PendingOf(t) \cup {u}
    <3>1. \A w \in Threads : w \in PendingOf(t)' <=> w \in PendingOf(t) \cup {u}
      BY <1>2, <2>1, <2>2
    <3> QED BY <1>2, <2>3, <3>1
  <2>5. ASSUME NEW s \in Threads \ {t} PROVE PendingOf(s)' = PendingOf(s)
    <3>1. \A w \in Threads : w \in PendingOf(s)' <=> w \in PendingOf(s)
      BY <2>1, <2>2
    <3> QED BY <3>1, <2>3
  <2> QED BY <2>4, <2>5
<1>5. Cardinality(PendingOf(t)') = Cardinality(PendingOf(t)) + 1
  <2>1. IsFiniteSet(PendingOf(t))
    BY SetSizes
  <2> HIDE DEF PendingOf
  <2> QED BY <1>2, <1>4, <2>1, FS_AddElement
<1>6. SlotsOnce'
  <2>1. \A i \in DOMAIN slots[u] : slots[u][i] # t
    BY <1>2 DEF PendingOf
  <2>2. SlotsOnce
    BY DEF BarInv
  <2> QED BY <1>2, <1>3, <2>1, <2>2 DEF SlotsOnce
<1>7. UNCHANGED flip /\ \A s \in Threads : FlipsOf(s)' = FlipsOf(s)
  BY DEF RcRequest, FlipsOf
<1> HIDE DEF PendingOf, FlipsOf
<1>8. pc'[t] = "rc_loop" /\ todo'[t] = todo[t] \ {u} /\ expected'[t] = expected[t] + 1
      /\ UNCHANGED <<need, done, barrier, raised, how, at_check, target>>
      /\ \A s \in Threads \ {t} : expected'[s] = expected[s]
  BY <1>0, <1>1, <1>2 DEF RcRequest, OwnPlace, PlaceTypes, ClosureTypes, asking, flow
<1>9. OwnClosures(t) /\ FlipsKept(t)
  BY <1>2, <1>4, <1>7, <1>8 DEF OwnClosures, FlipsKept
<1>10. BarrierCounts(t)'
  BY <1>0, <1>a, <1>2, <1>5, <1>8 DEF BarrierCounts, CheckpointPcs, LoopPcs, FlippingPcs,
      ClosureTypes
<1>11. NothingForgotten(t)'
  BY <1>0, <1>1, <1>2, <1>4, <1>8 DEF NothingForgotten, LoopPcs
<1>12. PendingFits(t)'
  BY <1>0, <1>2, <1>4, <1>7, <1>8 DEF PendingFits, CheckpointPcs, LoopPcs, FlippingPcs, FlipPcs
<1> QED BY <1>6, <1>7, <1>9, <1>10, <1>11, <1>12 DEF BarFits

\* RunCheckpointOnRunnableThreads puts its closure into all free slots at once.
LEMMA SampleClosures ==
    ASSUME CountInv, BarInv, NEW t \in Threads, RunCheckpointOnRunnableThreads(t)
    PROVE  UNCHANGED flip /\ OwnClosures(t) /\ FlipsKept(t) /\ BarFits(t)' /\ SlotsOnce'
<1>0. OwnPlace(t) /\ ClosureTypes /\ BarrierCounts(t) /\ NothingForgotten(t) /\ PendingFits(t)
  BY OwnPlaceHolds DEF BarInv, BarFits
<1>a. /\ Cardinality(PendingOf(t)) \in Nat /\ Cardinality(FlipsOf(t)) \in Nat
      /\ (Cardinality(PendingOf(t)) = 0 <=> PendingOf(t) = {})
      /\ (Cardinality(FlipsOf(t)) = 0 <=> FlipsOf(t) = {})
  BY SetSizes
<1> DEFINE asked == {u \in list \ {t} : CanRequest(u)}
<1>1. asked \subseteq Threads \ {t} /\ pc[t] = "native"
          /\ slots' = [u \in Threads |-> IF u \in asked THEN Append(slots[u], t) ELSE slots[u]]
  BY <1>0 DEF RunCheckpointOnRunnableThreads, OwnPlace, PlaceTypes, At
<1>2. /\ pc'[t] = "rc_wait" /\ need'[t] = asked /\ barrier'[t] = barrier[t] + Cardinality(asked)
      /\ UNCHANGED <<flip, done, raised, how, at_check, target, todo>>
      /\ \A s \in Threads \ {t} : need'[s] = need[s] /\ barrier'[s] = barrier[s]
             /\ expected'[s] = expected[s]
  BY <1>0 DEF RunCheckpointOnRunnableThreads, OwnPlace, PlaceTypes, ClosureTypes, asking, flow, Goto
<1> HIDE DEF asked
<1>3. barrier[t] = 0 /\ done[t] = {} /\ PendingOf(t) = {} /\ FlipsOf(t) = {} /\ raised[t] = {}
          /\ how[t] # "flip"
  BY <1>0, <1>1 DEF BarrierCounts, PendingFits, OwnPlace, Fits, RaisedFits, IsSuspender,
      TransitionPcs, LoopPcs, CheckpointPcs, FlippingPcs, PausePcs, DebugAllPcs, DebugResumePcs,
            RunnablePcs, SharePcs, SuspendAllPcs, ToRunnablePcs, ToSuspendedPcs, FlipPcs
<1>4. Cardinality(asked) \in Nat
  BY <1>1, SomeThreads
<1>5. ASSUME NEW u \in asked
      PROVE /\ DOMAIN slots'[u] = DOMAIN slots[u] \cup {Len(slots[u]) + 1}
               /\ Len(slots[u]) + 1 \notin DOMAIN slots[u]
            /\ slots'[u][Len(slots[u]) + 1] = t
                   /\ \A i \in DOMAIN slots[u] : slots'[u][i] = slots[u][i]
  <2>1. slots'[u] = Append(slots[u], t) /\ slots[u] \in Seq(Threads)
    BY <1>0, <1>1 DEF ClosureTypes
  <2>2. DOMAIN slots[u] = 1..Len(slots[u]) /\ Len(slots[u]) \in Nat
            /\ Len(Append(slots[u], t)) = Len(slots[u]) + 1
        /\ DOMAIN Append(slots[u], t) = 1..(Len(slots[u]) + 1)
    BY <2>1
  <2>3. Append(slots[u], t)[Len(slots[u]) + 1] = t
            /\ \A i \in 1..Len(slots[u]) : Append(slots[u], t)[i] = slots[u][i]
    BY <2>1, <2>2
  <2> QED BY <2>1, <2>2, <2>3
<1>6. \A u \in Threads \ asked : slots'[u] = slots[u]
  BY <1>1
<1>7. PendingOf(t)' = asked /\ \A s \in Threads \ {t} : PendingOf(s)' = PendingOf(s)
  <2>1. \A s \in Threads, w \in Threads \ asked : w \in PendingOf(s)' <=> w \in PendingOf(s)
    BY <1>6 DEF PendingOf
  <2>2. \A s \in Threads, u \in asked : u \in PendingOf(s)' <=> u \in PendingOf(s) \/ s = t
    BY <1>1, <1>5 DEF PendingOf
  <2>3. \A s \in Threads : PendingOf(s) \subseteq Threads /\ PendingOf(s)' \subseteq Threads
    BY DEF PendingOf
  <2> HIDE DEF PendingOf
  <2>4. PendingOf(t)' = asked
    BY <1>1, <1>3, <2>1, <2>2, <2>3
  <2>5. ASSUME NEW s \in Threads \ {t} PROVE PendingOf(s)' = PendingOf(s)
    <3>1. \A w \in Threads : w \in PendingOf(s)' <=> w \in PendingOf(s)
      BY <2>1, <2>2
    <3> QED BY <3>1, <2>3
  <2> QED BY <2>4, <2>5
<1>8. SlotsOnce'
  <2>1. \A u \in Threads : \A i \in DOMAIN slots[u] : slots[u][i] # t
    BY <1>3 DEF PendingOf
  <2>2. SlotsOnce
    BY DEF BarInv
  <2>3. ASSUME NEW u \in Threads, NEW i \in DOMAIN slots'[u], NEW j \in DOMAIN slots'[u], slots'[u][i] = slots'[u][j]
        PROVE i = j
    BY <1>5, <1>6, <2>1, <2>2, <2>3 DEF SlotsOnce
  <2> QED BY <2>3 DEF SlotsOnce
<1>9. \A s \in Threads : FlipsOf(s)' = FlipsOf(s)
  BY <1>2 DEF FlipsOf
<1>10. Cardinality(FlipsOf(t)') = 0 /\ Cardinality(PendingOf(t)') = Cardinality(asked)
  BY <1>a, <1>3, <1>7, <1>9
<1> HIDE DEF PendingOf, FlipsOf
<1>11. OwnClosures(t) /\ FlipsKept(t)
  BY <1>1, <1>2, <1>7, <1>9 DEF OwnClosures, FlipsKept
<1>12. BarrierCounts(t)'
  BY <1>2, <1>3, <1>4, <1>10 DEF BarrierCounts, CheckpointPcs, LoopPcs, FlippingPcs
<1>13. NothingForgotten(t)'
  BY <1>2, <1>7 DEF NothingForgotten, LoopPcs
<1>14. PendingFits(t)'
  BY <1>1, <1>2, <1>3, <1>7, <1>9 DEF PendingFits, FlipPcs, FlippingPcs
<1> QED BY <1>2, <1>8, <1>11, <1>12, <1>13, <1>14 DEF BarFits

\* The collector sets the flip functions of all others.
LEMMA FlResumeClosures ==
    ASSUME CountInv, BarInv, NEW t \in Threads, StepOf(t), FlResume(t)
    PROVE  OwnClosures(t) /\ FlipsKept(t) /\ BarFits(t)' /\ UNCHANGED slots /\ FlipAwaited'
<1>0. OwnPlace(t) /\ ClosureTypes /\ BarrierCounts(t) /\ NothingForgotten(t) /\ PendingFits(t)
  BY OwnPlaceHolds DEF BarInv, BarFits
<1>a. /\ Cardinality(PendingOf(t)) \in Nat /\ Cardinality(FlipsOf(t)) \in Nat
      /\ (Cardinality(PendingOf(t)) = 0 <=> PendingOf(t) = {})
      /\ (Cardinality(FlipsOf(t)) = 0 <=> FlipsOf(t) = {})
  BY SetSizes
<1> DEFINE peers == list \ {t}
<1>1. /\ pc[t] = "fl_counts" /\ how[t] = "flip" /\ peers \subseteq Threads \ {t} /\ t \in list
             /\ list \subseteq Threads
      /\ flip' = [u \in Threads |-> IF u \in peers THEN t ELSE flip[u]]
      /\ raised'[t] = {u \in peers : ~at_check[u]} /\ need'[t] = list
             /\ expected'[t] = Cardinality(peers) + 1
      /\ pc'[t] = "fl_shared" /\ how' = how /\ UNCHANGED <<slots, done, barrier, at_check>>
      /\ \A s \in Threads \ {t} : need'[s] = need[s] /\ expected'[s] = expected[s]
  BY <1>0 DEF FlResume, FlipCount, Broadcast, OwnPlace, PlaceTypes, ClosureTypes, PendingFits,
      FlipPcs, flow, At
<1>2. barrier[t] = 0 /\ done[t] = {} /\ PendingOf(t) = {} /\ FlipsOf(t) = {}
  BY <1>0, <1>1 DEF BarrierCounts, PendingFits, CheckpointPcs, LoopPcs, FlippingPcs
<1>3. \A s \in Threads : FlipsOf(s) = {}
  BY <1>1, <1>2 DEF BarInv, BarFits, PendingFits, OneFlip
<1>4. \A u \in Threads : flip[u] = NoThread
  BY <1>3 DEF FlipsOf, CountInv, PlaceTypes
<1>5. FlipsOf(t)' = peers /\ \A s \in Threads \ {t} : FlipsOf(s)' = FlipsOf(s)
  <2>1. NoThread \notin Threads
    BY ThreadListAssumption
  <2> HIDE DEF peers
  <2> QED BY <1>1, <1>4, <2>1 DEF FlipsOf
<1>6. Cardinality(peers) \in Nat
  BY <1>1, SomeThreads
<1>7. \A s \in Threads : PendingOf(s)' = PendingOf(s)
  BY <1>1 DEF PendingOf
<1>8. FlipAwaited'
  BY <1>1, <1>4 DEF FlipAwaited
<1> HIDE DEF PendingOf, FlipsOf
<1>9. OwnClosures(t) /\ FlipsKept(t)
  BY <1>1, <1>5, <1>7 DEF OwnClosures, FlipsKept
<1>10. BarrierCounts(t)'
  <2>1. Cardinality(FlipsOf(t)') = Cardinality(peers)
    BY <1>5
  <2> HIDE DEF peers
  <2> QED BY <1>1, <1>2, <1>6, <2>1 DEF BarrierCounts, CheckpointPcs, LoopPcs, FlippingPcs
<1>11. NothingForgotten(t)'
  BY <1>1, <1>5 DEF NothingForgotten, LoopPcs
<1>12. PendingFits(t)'
  BY <1>0, <1>1, <1>2, <1>5, <1>7 DEF PendingFits, FlipPcs, FlippingPcs, CheckpointPcs, LoopPcs
<1> QED BY <1>1, <1>8, <1>9, <1>10, <1>11, <1>12 DEF BarFits

\* The collector runs the flip functions of the threads that it keeps suspended, and its own.
LEMMA FlRunClosures ==
    ASSUME CountInv, BarInv, NEW t \in Threads, StepOf(t), FlRun(t)
    PROVE  OwnClosures(t) /\ BarFits(t)' /\ UNCHANGED <<slots, how>> /\ FlipAwaited'
<1>0. OwnPlace(t) /\ ClosureTypes /\ BarrierCounts(t) /\ NothingForgotten(t) /\ PendingFits(t)
  BY OwnPlaceHolds DEF BarInv, BarFits
<1>a. /\ Cardinality(PendingOf(t)) \in Nat /\ Cardinality(FlipsOf(t)) \in Nat
      /\ (Cardinality(PendingOf(t)) = 0 <=> PendingOf(t) = {})
      /\ (Cardinality(FlipsOf(t)) = 0 <=> FlipsOf(t) = {})
  BY SetSizes
<1> DEFINE set == {u \in raised[t] : flip[u] = t}
<1>1. /\ pc[t] = "fl_run" /\ how[t] = "flip" /\ set \subseteq Threads /\ set \subseteq FlipsOf(t)
      /\ flip' = [u \in Threads |-> IF u \in set THEN NoThread ELSE flip[u]]
      /\ done'[t] = (done[t] \cup set) \cup {t} /\ barrier'[t] = (barrier[t] - Cardinality(set)) - 1
      /\ pc'[t] = "fl_lower" /\ UNCHANGED <<slots, need, expected, at_check, raised, how>>
      /\ \A s \in Threads \ {t} : done'[s] = done[s] /\ barrier'[s] = barrier[s]
  BY <1>0 DEF FlRun, OwnPlace, PlaceTypes, ClosureTypes, PendingFits, FlipPcs, FlippingPcs,
      FlipsOf, flow, asking, At, Goto
<1>2. /\ IsFiniteSet(FlipsOf(t)) /\ PendingOf(t) = {}
      /\ barrier[t] + expected[t] = Cardinality(FlipsOf(t)) + 1
      /\ barrier[t] \in Int /\ expected[t] \in Nat
  BY <1>0, <1>1, SetSizes DEF BarrierCounts, PendingFits, CheckpointPcs, LoopPcs, FlippingPcs,
      ClosureTypes
<1>3. NoThread \notin Threads /\ \A u \in Threads : flip[u] = t => u \in raised[t] \/ at_check[u]
  BY ThreadListAssumption DEF BarInv, FlipAwaited
<1>4. \A s \in Threads \ {t} : FlipsOf(s) = {}
  BY <1>1 DEF BarInv, BarFits, PendingFits, OneFlip
<1>5. FlipsOf(t)' = FlipsOf(t) \ set /\ \A s \in Threads \ {t} : FlipsOf(s)' = FlipsOf(s)
  <2> HIDE DEF set
  <2> QED BY <1>1, <1>3, <1>4 DEF FlipsOf
<1>6. Cardinality(FlipsOf(t)') = Cardinality(FlipsOf(t)) - Cardinality(set)
          /\ Cardinality(set) \in Nat /\ Cardinality(FlipsOf(t)) \in Nat
  <2> HIDE DEF set, FlipsOf
  <2>1. FlipsOf(t) \cap set = set
    BY <1>1
  <2>2. Cardinality(FlipsOf(t) \ set) = Cardinality(FlipsOf(t)) - Cardinality(FlipsOf(t) \cap set)
    BY <1>2, FS_Difference
  <2> QED BY <1>1, <1>2, <1>5, <2>1, <2>2, FS_Subset, FS_CardinalityType
<1>7. \A s \in Threads : PendingOf(s)' = PendingOf(s)
  BY <1>1 DEF PendingOf
<1>8. FlipAwaited'
  <2> SUFFICES ASSUME NEW u \in Threads, flip'[u] # NoThread PROVE at_check[u]
    BY <1>1 DEF FlipAwaited
  <2>1. flip'[u] = flip[u] /\ flip[u] \in Threads /\ u \notin set
    BY <1>1 DEF CountInv, PlaceTypes
  <2>2. flip[u] = t
    BY <1>4, <2>1 DEF FlipsOf
  <2> QED BY <1>3, <2>1, <2>2
<1> HIDE DEF PendingOf, FlipsOf
<1>9. OwnClosures(t)
  BY <1>1, <1>5, <1>7 DEF OwnClosures
<1>10. BarrierCounts(t)'
  <2>1. barrier'[t] + expected'[t] = Cardinality(FlipsOf(t)')
    <3> DEFINE b == barrier[t]
               e == expected[t]
               n == Cardinality(set)
               m == Cardinality(FlipsOf(t))
    <3>1. barrier'[t] = (b - n) - 1 /\ expected'[t] = e /\ Cardinality(FlipsOf(t)') = m - n
          /\ b + e = m + 1 /\ b \in Int /\ e \in Int /\ n \in Int /\ m \in Int
      BY <1>1, <1>2, <1>6
    <3> HIDE DEF b, e, n, m
    <3> QED BY <3>1
  <2> HIDE DEF set
  <2> QED BY <1>1, <2>1 DEF BarrierCounts, CheckpointPcs, LoopPcs, FlippingPcs
<1>11. NothingForgotten(t)'
  <2> HIDE DEF set
  <2> QED BY <1>0, <1>1, <1>5 DEF NothingForgotten, LoopPcs
<1>12. PendingFits(t)'
  <2> HIDE DEF set
  <2> QED BY <1>0, <1>1, <1>2, <1>5, <1>7 DEF PendingFits, FlipPcs, FlippingPcs, CheckpointPcs,
          LoopPcs
<1> QED BY <1>1, <1>8, <1>9, <1>10, <1>11, <1>12 DEF BarFits

\* A thread whose closures and own state a step leaves alone.
LEMMA BarFitsKept ==
    ASSUME NEW s \in Threads, BarFits(s), pc'[s] = pc[s],
           raised'[s] = raised[s] /\ todo'[s] = todo[s] /\ target'[s] = target[s]
               /\ how'[s] = how[s],
           PendingOf(s)' = PendingOf(s) /\ FlipsOf(s)' = FlipsOf(s),
           need'[s] = need[s] /\ done'[s] = done[s] /\ barrier'[s] = barrier[s]
               /\ expected'[s] = expected[s]
    PROVE  BarFits(s)'
<1> HIDE DEF PendingOf, FlipsOf
<1>1. BarrierCounts(s)'
  BY DEF BarFits, BarrierCounts
<1>2. NothingForgotten(s)'
  BY DEF BarFits, NothingForgotten
<1>3. PendingFits(s)'
  BY DEF BarFits, PendingFits
<1> QED BY <1>1, <1>2, <1>3 DEF BarFits

\* Unregister: the thread has no flip function left.
LEMMA ExRemoveClosures ==
    ASSUME CountInv, BarInv, NEW t \in Threads, ExRemove(t)
    PROVE  UNCHANGED <<slots, flip>> /\ OwnClosures(t) /\ FlipsKept(t) /\ BarFits(t)'
<1>0. OwnPlace(t) /\ ClosureTypes /\ BarrierCounts(t) /\ NothingForgotten(t) /\ PendingFits(t)
  BY OwnPlaceHolds DEF BarInv, BarFits
<1>1. /\ pc[t] = "ex_remove" /\ pc'[t] = "absent" /\ flip' = [flip EXCEPT ![t] = NoThread]
      /\ UNCHANGED <<slots, need, done, barrier, expected, todo, target, how, raised, at_check>>
      /\ ~IsSuspended(t)
  BY <1>0 DEF ExRemove, CanUnregister, OwnPlace, progress, asking, flow, At, Goto
<1>2. t \in list /\ suspend_count[t] = 0
  <2>1. t \in list /\ state[t] # "Runnable" /\ suspend_count[t] \in Nat
    BY <1>0, <1>1 DEF OwnPlace, RunnablePcs, CountInv, CounterTypes
  <2> QED BY <1>1, <2>1 DEF IsSuspended
<1>3. flip[t] = NoThread
  <2>1. ~at_check[t]
    BY <1>0, <1>1 DEF OwnPlace, Fits, FlowFits, ToSuspendedPcs, ToRunnablePcs
  <2>2. flip[t] \in Threads \cup {NoThread}
    BY <1>0 DEF OwnPlace, PlaceTypes
  <2>3. \A s \in Threads : t \notin raised[s]
    BY <1>2, NobodySuspends
  <2> QED BY <2>1, <2>2, <2>3 DEF BarInv, FlipAwaited
<1>4. UNCHANGED <<slots, flip>>
  BY <1>0, <1>1, <1>3 DEF OwnPlace, PlaceTypes
<1>5. \A s \in Threads : PendingOf(s)' = PendingOf(s) /\ FlipsOf(s)' = FlipsOf(s)
  BY <1>4 DEF PendingOf, FlipsOf
<1> HIDE DEF PendingOf, FlipsOf
<1>6. OwnClosures(t) /\ FlipsKept(t)
  BY <1>0, <1>1, <1>5 DEF OwnClosures, FlipsKept, PendingFits
<1>7. BarFits(t)'
  BY <1>0, <1>1, <1>5 DEF BarFits, BarrierCounts, NothingForgotten, PendingFits, FlipPcs,
      FlippingPcs, CheckpointPcs, LoopPcs
<1> QED BY <1>4, <1>6, <1>7

\* A thread runs its own flip function on its way to Runnable, for the collector r.
LEMMA TrFlipClosures ==
    ASSUME CountInv, BarInv, NEW t \in Threads, StepOf(t), TrFlip(t)
    PROVE  UNCHANGED slots /\ OneFlip' /\ FlipAwaited' /\ \A s \in Threads : BarFits(s)'
<1>0. OwnPlace(t) /\ ClosureTypes /\ \A s \in Threads : BarFits(s)
  BY OwnPlaceHolds DEF BarInv
<1>1. /\ pc[t] = "tr_flip" /\ pc' = [pc EXCEPT ![t] = ret[t]]
             /\ at_check' = [at_check EXCEPT ![t] = FALSE]
      /\ UNCHANGED <<slots, need, expected, todo, target, how, raised>>
  BY DEF TrFlip, asking, At, Goto
<1>2. pc'[t] \in {"managed", "sx_try", "ex_peer", "ex_revoke"}
          /\ \A s \in Threads \ {t} : pc'[s] = pc[s] /\ at_check'[s] = at_check[s]
  BY <1>0, <1>1 DEF OwnPlace, ToRunnablePcs, PlaceTypes
<1>3. \A s \in Threads : PendingOf(s)' = PendingOf(s)
  BY <1>1 DEF PendingOf
<1>4. flip[t] # t
  <2>1. FlipsOf(t) = {}
    BY <1>0, <1>1 DEF BarFits, PendingFits, FlippingPcs
  <2> QED BY <2>1 DEF FlipsOf
<1>5. OneFlip'
  BY <1>1 DEF BarInv, OneFlip
<1>6. /\ flip \in [Threads -> Threads \cup {NoThread}] /\ flip'[t] = NoThread
      /\ \A u \in Threads \ {t} : flip'[u] = flip[u]
      /\ \A s \in Threads : s # flip[t] => done'[s] = done[s] /\ barrier'[s] = barrier[s]
      /\ flip[t] \in Threads => done'[flip[t]] = done[flip[t]] \cup {t}
             /\ barrier'[flip[t]] = barrier[flip[t]] - 1
  <2>1. flip \in [Threads -> Threads \cup {NoThread}] /\ done \in [Threads -> SUBSET Threads]
            /\ barrier \in [Threads -> Int]
        /\ NoThread \notin Threads
    BY <1>0 DEF OwnPlace, PlaceTypes, ClosureTypes
  <2>2. CASE flip[t] = NoThread
    BY <2>1, <2>2 DEF TrFlip
  <2>3. CASE flip[t] # NoThread
    BY <2>1, <2>3 DEF TrFlip
  <2> QED BY <2>2, <2>3
<1>7. FlipAwaited'
  <2> SUFFICES ASSUME NEW u \in Threads, flip'[u] # NoThread
               PROVE  at_check'[u] \/ (u \in raised'[flip'[u]]
                   /\ pc'[flip'[u]] \in {"fl_shared", "fl_run"})
    BY DEF FlipAwaited
  <2>1. u # t /\ flip'[u] = flip[u] /\ flip[u] \in Threads
    BY <1>6
  <2>2. at_check[u] \/ (u \in raised[flip[u]] /\ pc[flip[u]] \in {"fl_shared", "fl_run"})
    BY <2>1 DEF BarInv, FlipAwaited
  <2> QED BY <1>1, <1>2, <2>1, <2>2
<1>8. ASSUME NEW s \in Threads, s # flip[t] PROVE FlipsOf(s)' = FlipsOf(s)
  BY <1>6, <1>8, ThreadListAssumption DEF FlipsOf
<1>9. BarFits(t)'
  <2> HIDE DEF PendingOf, FlipsOf
  <2> QED BY <1>0, <1>1, <1>2, <1>3, <1>4, <1>6, <1>8
          DEF BarFits, BarrierCounts, NothingForgotten, PendingFits, FlipPcs, FlippingPcs,
          CheckpointPcs, LoopPcs
<1>10. ASSUME NEW s \in Threads \ {t}, s # flip[t] PROVE BarFits(s)'
  <2> HIDE DEF PendingOf, FlipsOf
  <2> QED BY <1>0, <1>1, <1>2, <1>3, <1>6, <1>8, <1>10, BarFitsKept
<1>11. ASSUME NEW r \in Threads \ {t}, r = flip[t] PROVE BarFits(r)'
  <2>1. /\ pc'[r] = pc[r] /\ done'[r] = done[r] \cup {t} /\ barrier'[r] = barrier[r] - 1
        /\ PendingOf(r)' = PendingOf(r) /\ BarFits(r)
        /\ barrier[r] \in Int /\ expected[r] \in Int
    BY <1>0, <1>2, <1>3, <1>6, <1>11 DEF ClosureTypes
  <2>2. FlipsOf(r)' = FlipsOf(r) \ {t} /\ t \in FlipsOf(r)
    <3>1. NoThread \notin Threads
      BY ThreadListAssumption
    <3> QED BY <1>6, <1>11, <3>1 DEF FlipsOf
  <2>3. pc[r] \in FlippingPcs \cup {"rc_wait"} /\ how[r] = "flip" /\ PendingOf(r) = {}
            /\ PendingOf(r)' = {}
    BY <2>1, <2>2 DEF BarFits, PendingFits
  <2>4. Cardinality(FlipsOf(r)') = Cardinality(FlipsOf(r)) - 1 /\ Cardinality(FlipsOf(r)) \in Int
        /\ Cardinality(PendingOf(r)) = 0 /\ Cardinality(PendingOf(r)') = 0
    <3>1. IsFiniteSet(FlipsOf(r)) /\ Cardinality(FlipsOf(r)) \in Nat
              /\ (Cardinality(PendingOf(r)) = 0 <=> PendingOf(r) = {})
      BY SetSizes
    <3> HIDE DEF PendingOf, FlipsOf
    <3>2. Cardinality(FlipsOf(r) \ {t}) = Cardinality(FlipsOf(r)) - 1
      BY <2>2, <3>1, FS_RemoveElement
    <3> QED BY <2>2, <2>3, <3>1, <3>2
  <2> HIDE DEF PendingOf, FlipsOf
  <2>5. BarrierCounts(r)'
    BY <1>1, <2>1, <2>3, <2>4 DEF BarFits, BarrierCounts, FlippingPcs, CheckpointPcs, LoopPcs
  <2>6. NothingForgotten(r)'
    BY <1>1, <2>1, <2>2, <2>3 DEF BarFits, NothingForgotten, FlippingPcs, LoopPcs
  <2>7. PendingFits(r)'
    BY <1>1, <2>1, <2>2, <2>3 DEF BarFits, PendingFits
  <2> QED BY <2>5, <2>6, <2>7 DEF BarFits
<1> QED BY <1>1, <1>4, <1>5, <1>7, <1>9, <1>10, <1>11

\* A thread runs the closures in its slots: each passes the barrier of its requester.
LEMMA RunClosuresClosures ==
    ASSUME CountInv, BarInv, NEW t \in Threads, TsCheckpoint(t) \/ CheckSuspendCheckpoint(t)
    PROVE  SlotsOnce' /\ OneFlip' /\ FlipAwaited' /\ \A s \in Threads : BarFits(s)'
<1> DEFINE of(r) == {i \in DOMAIN slots[t] : slots[t][i] = r}
<1>0. /\ slots \in [Threads -> Seq(Threads)] /\ done \in [Threads -> SUBSET Threads]
             /\ barrier \in [Threads -> Int]
      /\ expected \in [Threads -> Nat]
  BY DEF BarInv, ClosureTypes
<1>1. /\ pc[t] \in {"managed", "ts_cas"} /\ slots' = [slots EXCEPT ![t] = <<>>] /\ lock = NoThread
      /\ UNCHANGED <<pc, at_check, flip, need, expected, todo, target, how, raised>>
      /\ RunClosures(t)
  BY DEF TsCheckpoint, CheckSuspendCheckpoint, RunCheckpointFunction, RunClosures, Unlocked,
      asking, flow, At
<1>r. ASSUME NEW r \in Threads
      PROVE  /\ barrier'[r] = barrier[r] - Cardinality(of(r))
             /\ of(r) # {} => done'[r] = done[r] \cup {t}
             /\ of(r) = {} => done'[r] = done[r]
  <2>1. barrier'[r] = barrier[r] - Cardinality(of(r))
    BY <1>1 DEF RunClosures
  <2>2. done'[r] = IF r \in {slots[t][i] : i \in DOMAIN slots[t]} THEN done[r] \cup {t} ELSE done[r]
    BY <1>1 DEF RunClosures
  <2>3. r \in {slots[t][i] : i \in DOMAIN slots[t]} <=> of(r) # {}
    OBVIOUS
  <2> HIDE DEF of
  <2> QED BY <2>1, <2>2, <2>3
<1>2. slots'[t] = <<>> /\ DOMAIN slots'[t] = {} /\ \A u \in Threads \ {t} : slots'[u] = slots[u]
  BY <1>0, <1>1
<1>3. SlotsOnce'
  <2>1. SlotsOnce
    BY DEF BarInv
  <2> QED BY <1>2, <2>1 DEF SlotsOnce
<1>4. OneFlip' /\ FlipAwaited'
  BY <1>1 DEF BarInv, OneFlip, FlipAwaited
<1>5. \A r \in Threads : PendingOf(r)' = PendingOf(r) \ {t} /\ (t \in PendingOf(r) <=> of(r) # {})
  BY <1>2 DEF PendingOf
<1>6. \A r \in Threads : FlipsOf(r)' = FlipsOf(r)
  BY <1>1 DEF FlipsOf
<1>7. ASSUME NEW r \in Threads, t \notin PendingOf(r) PROVE BarFits(r)'
  <2>1. of(r) = {} /\ PendingOf(r)' = PendingOf(r) /\ BarFits(r)
    BY <1>5, <1>7 DEF BarInv
  <2>2. Cardinality(of(r)) = 0
    BY <2>1, FS_EmptySet
  <2>3. barrier'[r] = barrier[r] /\ done'[r] = done[r]
    <3>1. barrier'[r] = barrier[r] - Cardinality(of(r)) /\ done'[r] = done[r]
      BY <1>r, <2>1
    <3>2. barrier[r] \in Int
      BY <1>0
    <3> HIDE DEF of
    <3> QED BY <2>2, <3>1, <3>2
  <2> HIDE DEF PendingOf, FlipsOf, of
  <2> QED BY <1>1, <1>6, <2>1, <2>3, BarFitsKept
<1>8. ASSUME NEW r \in Threads, t \in PendingOf(r) PROVE BarFits(r)'
  <2>1. BarFits(r) /\ PendingOf(r)' = PendingOf(r) \ {t} /\ FlipsOf(r)' = FlipsOf(r) /\ of(r) # {}
    BY <1>5, <1>6, <1>8 DEF BarInv
  <2>2. Cardinality(of(r)) = 1
    <3>1. PICK i \in DOMAIN slots[t] : slots[t][i] = r
      BY <2>1
    <3>2. of(r) = {i}
      BY <3>1 DEF BarInv, SlotsOnce
    <3> HIDE DEF of
    <3> QED BY <3>2, FS_Singleton
  <2> HIDE DEF of
  <2>3. done'[r] = done[r] \cup {t} /\ barrier'[r] = barrier[r] - 1 /\ barrier[r] \in Int
            /\ expected[r] \in Int
    <3>1. barrier'[r] = barrier[r] - Cardinality(of(r)) /\ done'[r] = done[r] \cup {t}
      BY <1>r, <2>1
    <3>2. barrier[r] \in Int /\ expected[r] \in Int
      BY <1>0
    <3> QED BY <2>2, <3>1, <3>2
  <2>4. pc[r] \in {"rc_run", "rc_lower", "rc_wait"}
    <3>1. pc[r] \notin LoopPcs
      BY <1>1, ThreadListAssumption DEF CountInv, Fits, RaisedFits
    <3> QED BY <1>8, <2>1, <3>1 DEF BarFits, PendingFits, CheckpointPcs
  <2>5. Cardinality(PendingOf(r)') = Cardinality(PendingOf(r)) - 1
            /\ Cardinality(PendingOf(r)) \in Int
        /\ Cardinality(FlipsOf(r)) \in Int /\ Cardinality(FlipsOf(r)') = Cardinality(FlipsOf(r))
    <3>1. IsFiniteSet(PendingOf(r)) /\ Cardinality(PendingOf(r)) \in Nat
              /\ Cardinality(FlipsOf(r)) \in Nat
      BY SetSizes
    <3> HIDE DEF PendingOf, FlipsOf
    <3>2. Cardinality(PendingOf(r) \ {t}) = Cardinality(PendingOf(r)) - 1
      BY <1>8, <3>1, FS_RemoveElement
    <3> QED BY <2>1, <3>1, <3>2
  <2> HIDE DEF PendingOf, FlipsOf
  <2>6. BarrierCounts(r)'
    <3> DEFINE b == barrier[r]
               e == expected[r]
               n == Cardinality(PendingOf(r))
               m == Cardinality(FlipsOf(r))
    <3>1. /\ b \in Int /\ e \in Int /\ n \in Int /\ m \in Int
          /\ barrier'[r] = b - 1 /\ expected'[r] = e /\ pc'[r] = pc[r]
          /\ Cardinality(PendingOf(r)') = n - 1 /\ Cardinality(FlipsOf(r)') = m
      BY <1>1, <2>3, <2>5
    <3>2. (pc[r] = "rc_wait" => b = n + m) /\ (pc[r] # "rc_wait" => b + e = n)
      BY <2>1, <2>4 DEF BarFits, BarrierCounts, CheckpointPcs, LoopPcs
    <3> HIDE DEF b, e, n, m
    <3> QED BY <2>4, <3>1, <3>2 DEF BarrierCounts, FlippingPcs, CheckpointPcs, LoopPcs
  <2>7. NothingForgotten(r)'
    BY <1>1, <2>1, <2>3, <2>4 DEF BarFits, NothingForgotten, LoopPcs
  <2>8. PendingFits(r)'
    BY <1>1, <2>1, <2>3, <2>4 DEF BarFits, PendingFits, CheckpointPcs
  <2> QED BY <2>6, <2>7, <2>8 DEF BarFits
<1> QED BY <1>3, <1>4, <1>7, <1>8

\* A step of a thread keeps the invariant.
LEMMA BarInvStep ==
    ASSUME CountInv, BarInv, NEW t \in Threads, StepOf(t), Start(t) \/ Continue(t)
    PROVE  BarInv'
<1>1. ClosureTypes'
  BY StepTypes DEF BarInv
<1>2. ASSUME UNCHANGED slots PROVE SlotsOnce'
  BY <1>2 DEF BarInv, SlotsOnce
<1>3. ASSUME UNCHANGED <<slots, flip>>, OwnClosures(t), FlipsKept(t), BarFits(t)' PROVE BarInv'
  BY <1>1, <1>2, <1>3, OthersBarFit, OneFlipKept, FlipAwaitedKept DEF BarInv
<1>4. CASE TrFlip(t)
  BY <1>1, <1>2, <1>4, TrFlipClosures DEF BarInv
<1>5. CASE TsCheckpoint(t) \/ CheckSuspendCheckpoint(t)
  BY <1>1, <1>5, RunClosuresClosures DEF BarInv
<1>6. CASE RcRequest(t) \/ RunCheckpointOnRunnableThreads(t)
  BY <1>1, <1>6, RcRequestClosures, SampleClosures, OthersBarFit, OneFlipKept,
      FlipAwaitedKept DEF BarInv
<1>7. CASE FlResume(t)
  BY <1>1, <1>2, <1>7, FlResumeClosures, OthersBarFit, OneFlipKept DEF BarInv
<1>8. CASE FlRun(t)
  <2>1. OwnClosures(t) /\ BarFits(t)' /\ UNCHANGED <<slots, how>> /\ FlipAwaited'
    BY <1>8, FlRunClosures
  <2>2. OneFlip'
    BY <2>1 DEF BarInv, OneFlip
  <2> QED BY <1>1, <1>2, <2>1, <2>2, OthersBarFit DEF BarInv
<1>9. CASE ExRemove(t)
  BY <1>3, <1>9, ExRemoveClosures
<1>10. CASE Start(t) /\ ~RunCheckpointOnRunnableThreads(t)
  BY <1>3, <1>10, StartClosures DEF Start, Request
<1>11. CASE Continue(t)
                /\ ~(TrFlip(t) \/ TsCheckpoint(t) \/ CheckSuspendCheckpoint(t) \/ RcRequest(t) \/ FlResume(t)
                             \/ FlRun(t) \/ ExRemove(t))
  BY <1>3, <1>11, TransitionClosures, SuspendAllClosures, SuspendThreadClosures,
      CheckpointClosures, DebuggerClosures
     DEF Continue, Transition, Safepoint
<1> QED BY <1>4, <1>5, <1>6, <1>7, <1>8, <1>9, <1>10, <1>11

\* At the start every barrier is zero and nothing is pending.
LEMMA BarInvInit == Init => BarInv
<1> SUFFICES ASSUME Init PROVE BarInv
  OBVIOUS
<1>1. ClosureTypes
  BY ClosureTypesInit
<1>2. \A t \in Threads : slots[t] = <<>> /\ DOMAIN slots[t] = {} /\ flip[t] = NoThread
  BY DEF Init
<1>3. \A t \in Threads : PendingOf(t) = {} /\ FlipsOf(t) = {}
  BY <1>2, ThreadListAssumption DEF PendingOf, FlipsOf
<1>4. \A t \in Threads : /\ pc[t] \in {"native", "absent"} /\ how[t] = "id" /\ barrier[t] = 0
                            /\ expected[t] = 0
                         /\ done[t] = {} /\ need[t] = {}
  BY DEF Init
<1> HIDE DEF PendingOf, FlipsOf
<1>5. \A t \in Threads : BarFits(t)
  BY <1>3, <1>4 DEF BarFits, BarrierCounts, NothingForgotten, PendingFits, FlipPcs, FlippingPcs,
      CheckpointPcs, LoopPcs
<1> QED BY <1>1, <1>2, <1>4, <1>5 DEF BarInv, SlotsOnce, OneFlip, FlipAwaited

\* For any number of threads and checkpoint slots: when the caller of RunCheckpoint,
\* RunCheckpointOnRunnableThreads or FlipThreadRoots gets past Barrier::Increment, its closure has
\* run for every thread that it is meant for, exactly once, and none is left in a slot: neither on a
\* thread that has died nor twice on one that was both asked and suspended.
THEOREM BarrierMeansDoneHolds ==
    ASSUME OnlyDebuggerSuspends
    PROVE  Spec => []BarrierMeansDone
<1>1. CountInv /\ BarInv /\ [Next]_vars => BarInv'
  <2> SUFFICES ASSUME CountInv, BarInv, [Next]_vars PROVE BarInv'
    OBVIOUS
  <2>1. CASE UNCHANGED vars
    <3>1. UNCHANGED <<pc, at_check, how, raised, todo, target, slots, flip, need, done, barrier, expected>>
      BY <2>1 DEF vars, others, flow, asking, closures, progress
    <3>2. \A s \in Threads : PendingOf(s)' = PendingOf(s) /\ FlipsOf(s)' = FlipsOf(s)
      BY <3>1 DEF PendingOf, FlipsOf
    <3>3. \A s \in Threads : BarFits(s)'
      <4> HIDE DEF PendingOf, FlipsOf
      <4> QED BY <3>1, <3>2, BarFitsKept DEF BarInv
    <3>4. ClosureTypes'
      BY <2>1, ClosureTypesNext DEF BarInv
    <3> QED BY <3>1, <3>3, <3>4 DEF BarInv, SlotsOnce, OneFlip, FlipAwaited
  <2>2. ASSUME NEW t \in Threads, Start(t) \/ Continue(t) PROVE BarInv'
    BY <2>2, StepPlaces, BarInvStep
  <2> QED BY <2>1, <2>2 DEF Next
<1>2. BarInv => BarrierMeansDone
  <2> SUFFICES ASSUME BarInv PROVE BarrierMeansDone
    OBVIOUS
  <2>1. \A t \in Threads : BarFits(t)
    BY DEF BarInv
  <2>2. AtMostOneRun
    <3> SUFFICES ASSUME NEW t \in Threads, NEW u \in Threads, NEW i \in DOMAIN slots[u], slots[u][i] = t
                 PROVE  u \notin done[t] /\ u \notin raised[t]
                     /\ \A j \in DOMAIN slots[u] : slots[u][j] = t => j = i
      BY DEF AtMostOneRun
    <3>1. u \in PendingOf(t)
      BY DEF PendingOf
    <3>2. u \notin done[t] /\ u \notin raised[t]
      BY <2>1, <3>1 DEF BarFits, PendingFits
    <3> QED BY <3>2 DEF BarInv, SlotsOnce
  <2>3. ASSUME NEW t \in Threads, pc[t] = "rc_wait", barrier[t] = 0
        PROVE  need[t] \subseteq done[t] /\ PendingOf(t) = {} /\ FlipsOf(t) = {}
    <3>1. barrier[t] = Cardinality(PendingOf(t)) + Cardinality(FlipsOf(t))
          /\ need[t] \subseteq done[t] \cup PendingOf(t) \cup FlipsOf(t)
      BY <2>1, <2>3 DEF BarFits, BarrierCounts, NothingForgotten
    <3>2. /\ Cardinality(PendingOf(t)) \in Nat /\ Cardinality(FlipsOf(t)) \in Nat
          /\ (Cardinality(PendingOf(t)) = 0 <=> PendingOf(t) = {})
          /\ (Cardinality(FlipsOf(t)) = 0 <=> FlipsOf(t) = {})
      BY SetSizes
    <3> HIDE DEF PendingOf, FlipsOf
    <3> QED BY <2>3, <3>1, <3>2
  <2> QED BY <2>2, <2>3 DEF BarrierMeansDone, PendingOf, FlipsOf
<1> QED BY <1>1, <1>2, BarInvInit, CountInvInit, CountInvNext, PTL DEF Spec
=============================================================================
