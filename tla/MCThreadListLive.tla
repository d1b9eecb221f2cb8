-------------------------- MODULE MCThreadListLive --------------------------
(***************************************************************************)
(* ThreadList with a bound on what threads start of their own accord, so   *)
(* that a thread that waits is not overtaken for ever, and the fairness of *)
(* a preemptive scheduler: a thread that can go on with what it has begun, *)
(* or answer a request at a safepoint, does so.                            *)
(***************************************************************************)
EXTENDS ThreadList

CONSTANT MaxStarts      \* bound: operations and calls begun in a behaviour

VARIABLE starts

liveVars == <<vars, starts>>

LiveNext ==
    /\ ~aborted
    /\ \E t \in Threads :
          \/ /\ Enter(t) \/ Leave(t) \/ Request(t)
             /\ starts < MaxStarts
             /\ starts' = starts + 1
          \/ (Create(t) \/ Continue(t)) /\ UNCHANGED starts

LiveSpec ==
    /\ Init /\ starts = 0
    /\ [][LiveNext]_liveVars
    /\ \A t \in Threads : WF_liveVars(Continue(t) /\ UNCHANGED starts)

\* Destroy and Unregister come to their end: a thread whose nativePeer is
\* cleared leaves the list, so that WaitForOtherNonDaemonThreadsToExit can
\* return.
ExitCompletes ==
    \A t \in Threads : t \in list /\ ~has_peer[t] ~> t \notin list
=============================================================================
