-------------------------- MODULE MCThreadSessions --------------------------
(***************************************************************************)
(* ThreadList in three kinds of session, one for each behaviour: threads   *)
(* that suspend each other and all threads, without the debugger (Ops);    *)
(* the debugger with all of its commands (DebugOps); and the debugger      *)
(* while the collector suspends all threads (GcOps).  The debugger's       *)
(* thread, any one of the threads, is the only one attached at its start.  *)
(***************************************************************************)
EXTENDS MCThreadList

CONSTANTS DebugOps, GcOps

VARIABLE session        \* the kind of session and the debugger's thread

Debugger(d, ops) == INSTANCE ThreadList WITH DebugThread <- d, Attached <- {d}, Ops <- ops

sessionVars == <<vars, session>>

SessionInit ==
    \/ session = <<"suspend", NoThread>> /\ Init
    \/ \E d \in Threads, kind \in {"commands", "gc"} :
          session = <<kind, d>> /\ Debugger(d, DebugOps)!Init

SessionNext ==
    /\ UNCHANGED session
    /\ \/ session[1] = "suspend" /\ Next
       \/ \E d \in Threads : session = <<"commands", d>> /\ Debugger(d, DebugOps)!Next
       \/ \E d \in Threads : session = <<"gc", d>> /\ Debugger(d, GcOps)!Next

SessionSpec == SessionInit /\ [][SessionNext]_sessionVars
=============================================================================
