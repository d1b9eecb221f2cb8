--------------------------- MODULE ThreadDebugger ---------------------------
(***************************************************************************)
(* Suspension by the debugger: the ...ForDebugger operations of            *)
(* runtime/thread_list.cc and Dbg::ResumeThread. A thread that reports an  *)
(* event holds the JDWP token until it has suspended itself; the JDWP      *)
(* thread holds it for a command.                                          *)
(***************************************************************************)
EXTENDS ThreadCheckpoints

\* The JDWP thread attaches before a debugger can connect.
DebuggerIsFree == DebugThread \in list /\ token = NoThread

\* An event with suspend policy SP_ALL, or the command VirtualMachine.Suspend.
SuspendAllForDebugger(t) ==
    /\ At(t, "native")
    /\ "debug_all" \in Ops
    /\ DebuggerIsFree
    /\ token' = t
    /\ Unlocked
    /\ debug_suspend_all_count < MaxDebugSuspends
    /\ \A u \in list : debug_suspend_count[u] < MaxDebugSuspends
    /\ suspend_all_count' = suspend_all_count + 1
    /\ debug_suspend_all_count' = debug_suspend_all_count + 1
    /\ ModifyForDebugger(list \ {t, DebugThread}, Always(1))
    /\ Goto(t, "da_lock")
    /\ UNCHANGED <<memory, closures, asking, flow>>

\* mutator_lock_ is locked exclusively and unlocked at once.
DaLock(t) ==
    /\ At(t, "da_lock")
    /\ CanLockExclusive
    /\ Goto(t, "da_assert")
    /\ UNCHANGED <<others, flow>>

\* AssertThreadsAreSuspended(self, self, debug_thread)
DaAssert(t) ==
    /\ At(t, "da_assert")
    /\ Unlocked
    /\ aborted' = (aborted \/ \E u \in list \ {t, DebugThread} : ~IsSuspended(u))
    /\ token' = IF t = DebugThread THEN NoThread ELSE token
    /\ Goto(t, IF t = DebugThread THEN "native" ELSE "ds_raise")
    /\ UNCHANGED <<counts, memory, closures, asking, flow>>

\* An event with suspend policy SP_EVENT_THREAD.
SuspendSelfForDebugger(t) ==
    /\ At(t, "native")
    /\ "debug_self" \in Ops
    /\ t # DebugThread
    /\ DebuggerIsFree
    /\ token' = t
    /\ Goto(t, "ds_raise")
    /\ UNCHANGED <<counts, memory, closures, asking, flow, aborted>>

\* The thread raises its own count and lets the JDWP thread go on
\* (ClearWaitForEventThread): in between nobody but the JDWP thread looks at
\* the token, and it waits.  A thread that serves an invoke request while the
\* debugger detaches skips the raise; invoke requests are not modelled.
DsRaise(t) ==
    /\ At(t, "ds_raise")
    /\ Unlocked
    /\ ModifyForDebugger({t}, Always(1))
    /\ token' = NoThread
    /\ Goto(t, "ds_recheck")
    /\ UNCHANGED <<all_counts, memory, closures, asking, flow>>

DsRecheck(t) ==
    /\ At(t, "ds_recheck")
    /\ Unlocked
    /\ Goto(t, IF suspend_count[t] = 0 THEN "native" ELSE "ds_sleep")
    /\ UNCHANGED <<others, flow>>

\* Mutant: every thread is resumed, suspended by the debugger or not.
DebugSuspendedAll(t) == list \ {t}

\* The threads that the debugger has suspended.
DebugSuspended(t) == {u \in list \ {t} : debug_suspend_count[u] # 0}

\* The command VirtualMachine.Resume.
ResumeAllForDebugger(t) ==
    LET n == IF debug_suspend_all_count > 0 THEN 1 ELSE 0 IN
    /\ At(t, "native")
    /\ "debug_all" \in Ops
    /\ t = DebugThread
    /\ DebuggerIsFree
    /\ Unlocked
    /\ suspend_all_count' = suspend_all_count - n
    /\ debug_suspend_all_count' = debug_suspend_all_count - n
    /\ ModifyForDebugger(DebugSuspended(t), Always(-1))
    /\ Goto(t, "db_bcast")
    /\ UNCHANGED <<memory, closures, asking, flow, token>>

\* Mutant: the suspensions of others are undone as well.
UndoEverything == [u \in Threads |-> -suspend_count[u]]

Undo == [u \in Threads |-> -debug_suspend_count[u]]

\* Mutant: debug_suspend_all_count_ keeps its value.
UndoAllCountsKeeps ==
    /\ suspend_all_count' = suspend_all_count - debug_suspend_all_count
    /\ UNCHANGED debug_suspend_all_count

UndoAllCounts ==
    /\ suspend_all_count' = suspend_all_count - debug_suspend_all_count
    /\ debug_suspend_all_count' = 0

\* The debugger has gone away.
UndoDebuggerSuspensions(t) ==
    /\ At(t, "native")
    /\ {"debug_all", "debug_self"} \cap Ops # {}
    /\ t = DebugThread
    /\ DebuggerIsFree
    /\ Unlocked
    /\ UndoAllCounts
    /\ ModifyForDebugger(DebugSuspended(t), Undo)
    /\ Goto(t, "db_bcast")
    /\ UNCHANGED <<memory, closures, asking, flow, token>>

DbBroadcast(t) ==
    /\ At(t, "db_bcast")
    /\ Unlocked
    /\ Broadcast(t, "native")
    /\ UNCHANGED <<others, flow>>

\* Dbg::ResumeThread (ThreadReference.Resume) looks the thread up ...
DbgResumeThread(t) ==
    /\ At(t, "managed")
    /\ "debug_resume" \in Ops
    /\ t = DebugThread
    /\ DebuggerIsFree
    /\ token' = t
    /\ \E u \in list \ {t} :
          has_peer[u] /\ target' = [target EXCEPT ![t] = u]
    /\ Goto(t, "dr_test")
    /\ UNCHANGED <<counts, memory, closures, how, raised, flow, aborted>>

\* ... tests GetSuspendCount() > 0 ...
DrTest(t) ==
    LET needs_resume == suspend_count[target[t]] > 0 IN
    /\ At(t, "dr_test")
    /\ Unlocked
    /\ Goto(t, IF needs_resume THEN "dr_resume" ELSE "managed")
    /\ token' = IF needs_resume THEN token ELSE NoThread
    /\ target' = IF needs_resume THEN target ELSE [target EXCEPT ![t] = NoThread]
    /\ UNCHANGED <<counts, memory, closures, how, raised, flow, aborted>>

\* ... and calls Resume(thread, true).
DrResume(t) ==
    /\ At(t, "dr_resume")
    /\ Unlocked
    /\ ModifyForDebugger({target[t]} \cap list, Always(-1))
    /\ Goto(t, "dr_bcast")
    /\ UNCHANGED <<all_counts, memory, closures, asking, flow, token>>

DrBroadcast(t) ==
    /\ At(t, "dr_bcast")
    /\ Unlocked
    /\ Broadcast(t, "managed")
    /\ token' = NoThread
    /\ target' = [target EXCEPT ![t] = NoThread]
    /\ UNCHANGED <<counts, memory, closures, how, raised, flow, aborted>>
=============================================================================
