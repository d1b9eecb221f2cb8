------------------------------ MODULE AbstractLock ------------------------------
(***************************************************************************)
(* What a lock of base/mutex.h promises: one exclusive holder and no one   *)
(* beside it, or any number of shared holders.  Mutex (no shared holders)  *)
(* and ReaderWriterMutex are shown to implement it.                        *)
(***************************************************************************)
CONSTANT Threads

VARIABLES writers,   \* the exclusive holders: none or one
          readers    \* the shared holders

lockVars == <<writers, readers>>

Init ==
    /\ writers = {}
    /\ readers = {}

AcquireExclusive(t) ==
    /\ writers = {}
    /\ readers = {}
    /\ writers' = {t}
    /\ UNCHANGED readers

ReleaseExclusive(t) ==
    /\ t \in writers
    /\ writers' = writers \ {t}
    /\ UNCHANGED readers

AcquireShared(t) ==
    /\ writers = {}
    /\ t \notin readers
    /\ readers' = readers \union {t}
    /\ UNCHANGED writers

ReleaseShared(t) ==
    /\ t \in readers
    /\ readers' = readers \ {t}
    /\ UNCHANGED writers

Next ==
    \E t \in Threads :
        \/ AcquireExclusive(t)
        \/ ReleaseExclusive(t)
        \/ AcquireShared(t)
        \/ ReleaseShared(t)

Spec == Init /\ [][Next]_lockVars
================================================================================
