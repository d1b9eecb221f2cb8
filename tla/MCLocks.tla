-------------------------------- MODULE MCLocks --------------------------------
(***************************************************************************)
(* Threads that race: mutexes with their condition variable, reader-writer *)
(* mutexes, monitors, the thread pool, class initialisation, and the hook, *)
(* which takes no lock.  They share no state, so every behaviour chooses   *)
(* one of them and takes its steps; the others stay in an initial state.   *)
(***************************************************************************)
EXTENDS FutexMutex, FutexRWMutex, Monitor, ThreadPool, ClassInit, MCUnpack

CONSTANTS LockParts,        \* the components to check
          cA, cB, cC        \* classes

VARIABLE lockPart           \* the component of this behaviour

\* cB extends cA.  The static initialisers use each other in a circle, or do not.
MCSuper == (cA :> CiNoClass) @@ (cB :> cA) @@ (cC :> CiNoClass)
MCUses == (cA :> {cB}) @@ (cB :> {cC}) @@ (cC :> {cB})
MCUsesAcyclic == (cA :> {}) @@ (cB :> {cC}) @@ (cC :> {cA})

locksVars == <<lockPart, muVars, rwVars, monVars, tpVars, ciVars>>

LocksInit ==
    /\ lockPart \in LockParts
    /\ MuInit /\ RwInit /\ MonInit /\ TpInit /\ CiInit

\* No component but p changes.
OnlyLock(p) ==
    /\ UNCHANGED lockPart
    /\ IF p = "mutex" THEN TRUE ELSE UNCHANGED muVars
    /\ IF p = "rwmutex" THEN TRUE ELSE UNCHANGED rwVars
    /\ IF p = "monitor" THEN TRUE ELSE UNCHANGED monVars
    /\ IF p = "pool" THEN TRUE ELSE UNCHANGED tpVars
    /\ IF p = "class" THEN TRUE ELSE UNCHANGED ciVars

LocksNext ==
    \/ lockPart = "mutex" /\ MuNext /\ OnlyLock("mutex")
    \/ lockPart = "rwmutex" /\ RwNext /\ OnlyLock("rwmutex")
    \/ lockPart = "monitor" /\ MonNext /\ OnlyLock("monitor")
    \/ lockPart = "pool" /\ TpNext /\ OnlyLock("pool")
    \/ lockPart = "class" /\ CiNext /\ OnlyLock("class")

\* The hook, or one of the locks.  What an uninitialised filter holds is varied in MCHeap.
RaceInit ==
    /\ LocksInit
    /\ Init
    /\ filter = CHOOSE f \in FreshFilters : TRUE
    /\ lockPart /= "hook" => file = NoFile

RaceNext ==
    \/ LocksNext /\ UNCHANGED vars
    \/ lockPart = "hook" /\ Next /\ UNCHANGED locksVars

RaceSpec == RaceInit /\ [][RaceNext]_<<locksVars, vars>>

\* The threads of the locks and of the pool are interchangeable, and so are the monitors, the
\* threads of the hook and its DEX files.  The last three belong to different components, and
\* are exchanged together: there are fewer permutations to try on every state.
RaceSymmetry ==
    Permutations(MuThreads) \cup
    {f \in Permutations(MonIds \cup Threads \cup Dexes) :
        \E same \in BOOLEAN :
            \A S \in {MonIds, Threads, Dexes} :
                \A x \in S : f[x] \in S /\ (f[x] = x) = same}
================================================================================
