-------------------------------- MODULE Monitor --------------------------------
(***************************************************************************)
(* The Java monitor of one object (monitor.cc, lock_word.h, object.cc):    *)
(* a lock word that is empty, a thin lock, an identity hash code or a      *)
(* pointer to a fat Monitor.                                               *)
(*                                                                         *)
(* A thin lock is written by plain stores of its owner.  Somebody else may *)
(* turn it into a Monitor only while the owner is suspended, and the       *)
(* collector turns Monitors back while every thread is.  A thread can be   *)
(* suspended only at the places MonSafe; its other steps are Runnable      *)
(* code.  Critical sections of monitor_lock_ and wait_mutex_ are one step. *)
(***************************************************************************)
EXTENDS Integers, FiniteSets, Sequences, SequencesExt

CONSTANTS MonThreads, MonNone,
          MonIds,          \* the monitors of the pool
          MonMaxThin,      \* kThinLockMaxCount
          MonHashes,       \* what GenerateIdentityHashCode may return (never 0)
          MonInterrupts,   \* whether Thread.interrupt is called
          MonCalls         \* bound: calls of the operations (MonitorExit by the owner is
                           \* not counted) and deflations

ASSUME MonitorAssumption ==
    /\ MonNone \notin MonThreads
    /\ MonMaxThin \in Nat
    /\ MonHashes \subseteq Nat \ {0}
    /\ MonInterrupts \in BOOLEAN
    /\ MonCalls \in Nat

VARIABLES monWord,         \* the lock word
          monitors,        \* the Monitors, by id
          monFree,         \* the pool's free monitors
          monPc,           \* where each thread is
          monAt,           \* the Monitor, or the lock word, it has read
          monBack,         \* where it goes when it has the lock
          monKeep,         \* prev_lock_count in Wait
          monWaits,        \* wait_monitor_ is not null
          monInterrupted,  \* interrupted_
          monWas,          \* was_interrupted in Wait
          monSuspenders,   \* who has suspended a thread to inflate its lock
          monAborted,      \* a CHECK has failed
          monLeft,         \* calls left to begin
          monDepth,        \* history: enters minus exits of each thread
          monHashed,       \* history: the identity hash codes returned
          monMissed        \* history: Notify took a thread that no longer waits

monVars == <<monWord, monitors, monFree, monPc, monAt, monBack, monKeep, monWaits,
             monInterrupted, monWas, monSuspenders, monAborted, monLeft, monDepth,
             monHashed, monMissed>>

monShared == <<monWord, monitors, monFree>>
monWaiting == <<monKeep, monWaits, monInterrupted, monWas>>
monHistory == <<monDepth, monHashed, monMissed>>

Unlocked == [kind |-> "unlocked"]
Thin(t, n) == [kind |-> "thin", owner |-> t, count |-> n]
Fat(m) == [kind |-> "fat", monitor |-> m]
HashWord(h) == [kind |-> "hash", hash |-> h]

\* A new Monitor: Monitor::Monitor.
NewMonitor(owner, count, hash) ==
    [owner |-> owner, count |-> count, hash |-> hash, waiters |-> 0,
     contenders |-> {}, waitSet |-> <<>>]

\* Where a thread can be suspended, or is in a state other than Runnable.
MonSafe == {"run", "suspend", "inflating", "blocked", "contending", "back", "waiting",
            "signalled", "woken"}

MonSuspended(t) == monSuspenders[t] /= {}

MonInit ==
    /\ monWord = Unlocked
    /\ monitors = [m \in MonIds |-> NewMonitor(MonNone, 0, 0)]
    /\ monFree = MonIds
    /\ monPc = [t \in MonThreads |-> "run"]
    /\ monAt = [t \in MonThreads |-> Unlocked]
    /\ monBack = [t \in MonThreads |-> "run"]
    /\ monKeep = [t \in MonThreads |-> 0]
    /\ monWaits = [t \in MonThreads |-> FALSE]
    /\ monInterrupted = [t \in MonThreads |-> FALSE]
    /\ monWas = [t \in MonThreads |-> FALSE]
    /\ monSuspenders = [t \in MonThreads |-> {}]
    /\ monAborted = FALSE
    /\ monLeft = MonCalls
    /\ monDepth = [t \in MonThreads |-> 0]
    /\ monHashed = {}
    /\ monMissed = FALSE

MonGo(t, from, to) ==
    /\ ~monAborted
    /\ monPc[t] = from
    /\ monPc' = [monPc EXCEPT ![t] = to]

\* A thread leaves a place where it may be suspended only when it is not.
MonLeave(t, from, to) == ~MonSuspended(t) /\ MonGo(t, from, to)

MonBegin(t, to) ==
    /\ monLeft > 0
    /\ monLeft' = monLeft - 1
    /\ MonLeave(t, "run", to)

MonDeeper(t, by) == monDepth' = [monDepth EXCEPT ![t] = @ + by]

MonRead(t) == monAt' = [monAt EXCEPT ![t] = monWord]

----------------------------------------------------------------------------
(* Inflation. *)

\* Mutant: does not take over the recursion count.
InstallUncounted(owner, hash) ==
    \/ /\ monWord.kind = "fat"
       /\ UNCHANGED <<monShared, monAborted>>
    \/ /\ monWord.kind /= "fat"
       /\ \E m \in monFree :
            /\ monFree' = monFree \ {m}
            /\ monitors' = [monitors EXCEPT ![m] = NewMonitor(owner, 0, hash)]
            /\ monWord' = Fat(m)
       /\ UNCHANGED monAborted

\* Inflate and Install: the new Monitor takes over what the word says; if somebody else has
\* installed one, it goes back to the pool.
Install(owner, hash) ==
    \/ /\ monWord.kind = "fat"
       /\ UNCHANGED <<monShared, monAborted>>
    \/ /\ monWord.kind \in {"thin", "hash"}
       /\ \E m \in monFree :
            /\ monFree' = monFree \ {m}
            /\ monitors' = [monitors EXCEPT ![m] =
                  NewMonitor(owner, IF monWord.kind = "thin" THEN monWord.count ELSE 0, hash)]
            /\ monWord' = Fat(m)
       /\ monAborted' = IF monWord.kind = "thin" THEN owner /= monWord.owner
                                                 ELSE hash /= monWord.hash
    \/ /\ monWord.kind = "unlocked"
       /\ monAborted' = TRUE
       /\ UNCHANGED monShared

\* InflateThinLocked, our own lock.
MonInflateOwn(t) ==
    /\ MonGo(t, "inflateOwn", monBack[t])
    /\ \E h \in (IF monBack[t] = "hash" THEN MonHashes ELSE {0}) : Install(t, h)
    /\ UNCHANGED <<monAt, monBack, monWaiting, monSuspenders, monLeft, monHistory>>

\* MonitorEnter on a hash code: inflate without an owner.
MonInflateHash(t) ==
    /\ MonGo(t, "inflateHash", "enter")
    /\ Install(MonNone, monAt[t].hash)
    /\ UNCHANGED <<monAt, monBack, monWaiting, monSuspenders, monLeft, monHistory>>

\* InflateThinLocked, somebody else's lock: first ask for the owner's suspension.
MonSuspendOwner(t) ==
    /\ MonLeave(t, "suspend", "inflating")
    /\ monSuspenders' = [monSuspenders EXCEPT ![monAt[t].owner] = @ \union {t}]
    /\ UNCHANGED <<monShared, monAt, monBack, monWaiting, monAborted, monLeft, monHistory>>

\* Mutant: inflates without looking again at the word.
MonInflateOtherBlindly(t) ==
    LET owner == monAt[t].owner IN
    /\ MonLeave(t, "inflating", monBack[t])
    /\ monPc[owner] \in MonSafe
    /\ Install(owner, 0)
    /\ monSuspenders' = [monSuspenders EXCEPT ![owner] = @ \ {t}]
    /\ UNCHANGED <<monAt, monBack, monWaiting, monLeft, monHistory>>

\* The owner has stopped: look again, inflate, resume it.
MonInflateOther(t) ==
    LET owner == monAt[t].owner IN
    /\ MonLeave(t, "inflating", monBack[t])
    /\ monPc[owner] \in MonSafe
    /\ IF monWord.kind = "thin" /\ monWord.owner = owner
       THEN \E h \in (IF monBack[t] = "hash" THEN MonHashes ELSE {0}) : Install(owner, h)
       ELSE UNCHANGED <<monShared, monAborted>>
    /\ monSuspenders' = [monSuspenders EXCEPT ![owner] = @ \ {t}]
    /\ UNCHANGED <<monAt, monBack, monWaiting, monLeft, monHistory>>

\* What an operation does about a thin lock that it has to inflate.
MonToInflate(t) == IF monWord.owner = t THEN "inflateOwn" ELSE "suspend"

----------------------------------------------------------------------------
(* MonitorEnter and Monitor::Lock. *)

MonEnter(t) ==
    /\ MonBegin(t, "enter")
    /\ monBack' = [monBack EXCEPT ![t] = "enter"]
    /\ UNCHANGED <<monShared, monAt, monWaiting, monSuspenders, monAborted, monHistory>>

\* The word is empty: CAS.
MonEnterUnlocked(t) ==
    /\ monWord.kind = "unlocked"
    /\ MonGo(t, "enter", "run")
    /\ monWord' = Thin(t, 0)
    /\ MonDeeper(t, 1)
    /\ UNCHANGED <<monitors, monFree, monAt, monBack, monWaiting, monSuspenders, monAborted,
                   monLeft, monHashed, monMissed>>

\* Any other word: the next step depends on what was read.
MonEnterRead(t) ==
    /\ monWord.kind /= "unlocked"
    /\ MonGo(t, "enter",
             CASE monWord.kind = "fat" -> "lock"
               [] monWord.kind = "hash" -> "inflateHash"
               [] monWord.kind = "thin" /\ monWord.owner = t /\ monWord.count < MonMaxThin
                    -> "enterStore"
               [] OTHER -> MonToInflate(t))
    /\ MonRead(t)
    /\ UNCHANGED <<monShared, monBack, monWaiting, monSuspenders, monAborted, monLeft, monHistory>>

\* The recursion count goes up by a plain store.
MonEnterStore(t) ==
    /\ MonGo(t, "enterStore", "run")
    /\ monWord' = Thin(t, monAt[t].count + 1)
    /\ MonDeeper(t, 1)
    /\ UNCHANGED <<monitors, monFree, monAt, monBack, monWaiting, monSuspenders, monAborted,
                   monLeft, monHashed, monMissed>>

\* Where Lock returns to: MonitorEnter is done, Wait goes on.
MonLocked(t) == IF monBack[t] = "rewait" THEN "rewait" ELSE "run"

\* One turn of the loop in Monitor::Lock under monitor_lock_; gone is the waiter to take off
\* the count first.
MonTryLock(t, from, gone) ==
    LET m == monAt[t].monitor
        mon == monitors[m] IN
    /\ monPc[t] = from
    /\ IF mon.owner \in {MonNone, t}
       THEN /\ MonGo(t, from, MonLocked(t))
            /\ monitors' = [monitors EXCEPT
                  ![m].owner = t,
                  ![m].count = IF mon.owner = t THEN @ + 1 ELSE @,
                  ![m].waiters = @ - gone]
            /\ monAborted' = (mon.owner = MonNone /\ mon.count /= 0)
            /\ MonDeeper(t, IF monBack[t] = "rewait" THEN 0 ELSE 1)
       ELSE /\ MonGo(t, from, "blocked")
            /\ monitors' = [monitors EXCEPT ![m].waiters = @ - gone + 1]
            /\ UNCHANGED <<monDepth, monAborted>>
    /\ UNCHANGED <<monWord, monFree, monAt, monBack, monWaiting, monSuspenders, monLeft,
                   monHashed, monMissed>>

MonLock(t) == MonTryLock(t, "lock", 0)

\* Mutant: waits without asking whether the owner has given the lock up.
MonBlockAlways(t) ==
    /\ MonGo(t, "blocked", "contending")
    /\ monitors' = [monitors EXCEPT ![monAt[t].monitor].contenders = @ \union {t}]
    /\ UNCHANGED <<monWord, monFree, monAt, monBack, monWaiting, monSuspenders, monAborted,
                   monLeft, monHistory>>

\* In the state kBlocked, with monitor_lock_ again: wait if the monitor still has an owner.
MonBlock(t) ==
    LET m == monAt[t].monitor IN
    /\ monPc[t] = "blocked"
    /\ IF monitors[m].owner /= MonNone
       THEN /\ MonGo(t, "blocked", "contending")
            /\ monitors' = [monitors EXCEPT ![m].contenders = @ \union {t}]
       ELSE /\ MonGo(t, "blocked", "back")
            /\ UNCHANGED monitors
    /\ UNCHANGED <<monWord, monFree, monAt, monBack, monWaiting, monSuspenders, monAborted,
                   monLeft, monHistory>>

\* Runnable again; the loop goes round.
MonRelock(t) == ~MonSuspended(t) /\ MonTryLock(t, "back", 1)

----------------------------------------------------------------------------
(* MonitorExit and Monitor::Unlock. *)

\* Signal of monitor_contenders_: one of them, if there is any, goes on.
SignalContender(m, mon, pc) ==
    \/ /\ mon.contenders = {}
       /\ monitors' = [monitors EXCEPT ![m] = mon]
       /\ monPc' = pc
    \/ \E c \in mon.contenders :
        /\ monitors' = [monitors EXCEPT ![m] = [mon EXCEPT !.contenders = @ \ {c}]]
        /\ monPc' = [pc EXCEPT ![c] = "back"]

\* The word is read.  Who does not own the lock gets an exception.
MonExit(t) ==
    /\ monDepth[t] > 0 \/ monLeft > 0
    /\ monLeft' = IF monDepth[t] > 0 THEN monLeft ELSE monLeft - 1
    /\ MonLeave(t, "run", CASE monWord.kind = "thin" /\ monWord.owner = t -> "exitStore"
                            [] monWord.kind = "fat" -> "exitFat"
                            [] OTHER -> "run")
    /\ MonRead(t)
    /\ UNCHANGED <<monShared, monBack, monWaiting, monSuspenders, monAborted, monHistory>>

\* A thin lock is given back, or its count lowered, by a plain store.
MonExitStore(t) ==
    /\ MonGo(t, "exitStore", "run")
    /\ monWord' = IF monAt[t].count = 0 THEN Unlocked ELSE Thin(t, monAt[t].count - 1)
    /\ MonDeeper(t, -1)
    /\ UNCHANGED <<monitors, monFree, monAt, monBack, monWaiting, monSuspenders, monAborted,
                   monLeft, monHashed, monMissed>>

\* Monitor::Unlock.
MonExitFat(t) ==
    LET m == monAt[t].monitor
        mon == monitors[m]
        pc == [monPc EXCEPT ![t] = "run"] IN
    /\ ~monAborted
    /\ monPc[t] = "exitFat"
    /\ \/ /\ mon.owner = t /\ mon.count = 0
          /\ SignalContender(m, [mon EXCEPT !.owner = MonNone], pc)
          /\ MonDeeper(t, -1)
       \/ /\ mon.owner = t /\ mon.count > 0
          /\ monitors' = [monitors EXCEPT ![m].count = @ - 1]
          /\ monPc' = pc
          /\ MonDeeper(t, -1)
       \/ /\ mon.owner /= t
          /\ monPc' = pc
          /\ UNCHANGED <<monitors, monDepth>>
    /\ UNCHANGED <<monWord, monFree, monAt, monBack, monWaiting, monSuspenders, monAborted,
                   monLeft, monHashed, monMissed>>

----------------------------------------------------------------------------
(* Object.wait, notify, notifyAll; Thread.interrupt. *)

\* Monitor::Wait(self, obj): a thin lock of ours is inflated first; others get an exception.
MonWait(t) ==
    /\ MonBegin(t, CASE monWord.kind = "thin" /\ monWord.owner = t -> "inflateOwn"
                     [] monWord.kind = "fat" -> "wait"
                     [] OTHER -> "run")
    /\ monBack' = [monBack EXCEPT ![t] = "waitRead"]
    /\ MonRead(t)
    /\ UNCHANGED <<monShared, monWaiting, monSuspenders, monAborted, monHistory>>

MonWaitRead(t) ==
    /\ MonGo(t, "waitRead", IF monWord.kind = "fat" THEN "wait" ELSE "inflateOwn")
    /\ MonRead(t)
    /\ UNCHANGED <<monShared, monBack, monWaiting, monSuspenders, monAborted, monLeft, monHistory>>

\* The monitor is given up whatever its count; a contender is signalled, and the thread goes
\* to sleep unless it has been interrupted.
MonWaitFat(t) ==
    LET m == monAt[t].monitor
        mon == monitors[m] IN
    /\ ~monAborted
    /\ monPc[t] = "wait"
    /\ IF mon.owner = t
       THEN /\ SignalContender(m, [mon EXCEPT !.owner = MonNone, !.count = 0, !.waiters = @ + 1,
                                              !.waitSet = Append(@, t)],
                 [monPc EXCEPT ![t] = IF monInterrupted[t] THEN "woken" ELSE "waiting"])
            /\ monKeep' = [monKeep EXCEPT ![t] = mon.count]
            /\ monWaits' = [monWaits EXCEPT ![t] = TRUE]
            /\ monWas' = [monWas EXCEPT ![t] = monInterrupted[t]]
            /\ monBack' = [monBack EXCEPT ![t] = "rewait"]
       ELSE /\ monPc' = [monPc EXCEPT ![t] = "run"]
            /\ UNCHANGED <<monitors, monKeep, monWaits, monWas, monBack>>
    /\ UNCHANGED <<monWord, monFree, monAt, monInterrupted, monSuspenders, monAborted, monLeft,
                   monHistory>>

\* Awake on wait_cond_, with wait_mutex_ again.
MonWoken(t) ==
    /\ MonGo(t, "signalled", "woken")
    /\ monWas' = [monWas EXCEPT ![t] = monInterrupted[t]]
    /\ monInterrupted' = [monInterrupted EXCEPT ![t] = FALSE]
    /\ UNCHANGED <<monShared, monAt, monBack, monKeep, monWaits, monSuspenders, monAborted,
                   monLeft, monHistory>>

\* Runnable again; only now wait_monitor_ is cleared.  Then Monitor::Lock.
MonUnwait(t) ==
    /\ MonLeave(t, "woken", "lock")
    /\ monWaits' = [monWaits EXCEPT ![t] = FALSE]
    /\ UNCHANGED <<monShared, monAt, monBack, monKeep, monInterrupted, monWas, monSuspenders,
                   monAborted, monLeft, monHistory>>

\* The end of Wait: the old count, and out of the wait set.
MonRewait(t) ==
    LET m == monAt[t].monitor IN
    /\ MonGo(t, "rewait", IF monWas[t] THEN "throw" ELSE "run")
    /\ monitors' = [monitors EXCEPT
          ![m].count = monKeep[t],
          ![m].waiters = @ - 1,
          ![m].waitSet = SelectSeq(@, LAMBDA u : u /= t)]
    /\ UNCHANGED <<monWord, monFree, monAt, monBack, monWaiting, monSuspenders, monAborted,
                   monLeft, monHistory>>

\* InterruptedException.
MonThrow(t) ==
    /\ MonGo(t, "throw", "run")
    /\ monInterrupted' = [monInterrupted EXCEPT ![t] = FALSE]
    /\ UNCHANGED <<monShared, monAt, monBack, monKeep, monWaits, monWas, monSuspenders,
                   monAborted, monLeft, monHistory>>

\* wait_cond_->Signal for the threads of a set: those asleep wake up.
Signalled(pc, ts) == [u \in MonThreads |-> IF u \in ts /\ pc[u] = "waiting" THEN "signalled" ELSE pc[u]]

MonOwnsFat(t) == monWord.kind = "fat" /\ monitors[monWord.monitor].owner = t

\* Monitor::Notify: the first of the wait set that has a wait_monitor_ is signalled; those
\* before it are dropped.  Who does not own the monitor gets an exception.
MonNotify(t) ==
    /\ monLeft > 0
    /\ monLeft' = monLeft - 1
    /\ ~monAborted /\ monPc[t] = "run" /\ ~MonSuspended(t)
    /\ IF MonOwnsFat(t)
       THEN LET m == monWord.monitor
                set == monitors[m].waitSet
                still == {i \in DOMAIN set : monWaits[set[i]]}
                first == IF still = {} THEN Len(set) ELSE CHOOSE i \in still : \A j \in still : i =< j
            IN  /\ monitors' = [monitors EXCEPT ![m].waitSet = SubSeq(@, first + 1, Len(@))]
                /\ monPc' = IF still = {} THEN monPc ELSE Signalled(monPc, {set[first]})
                /\ monMissed' = (monMissed \/ /\ still /= {} /\ monPc[set[first]] /= "waiting"
                                              /\ \E u \in MonThreads : monPc[u] = "waiting")
       ELSE UNCHANGED <<monitors, monPc, monMissed>>
    /\ UNCHANGED <<monWord, monFree, monAt, monBack, monWaiting, monSuspenders, monAborted,
                   monDepth, monHashed>>

\* Monitor::NotifyAll: Thread::Notify for every thread of the wait set.
MonNotifyAll(t) ==
    /\ monLeft > 0
    /\ monLeft' = monLeft - 1
    /\ ~monAborted /\ monPc[t] = "run" /\ ~MonSuspended(t)
    /\ IF MonOwnsFat(t)
       THEN LET m == monWord.monitor
            IN  /\ monitors' = [monitors EXCEPT ![m].waitSet = <<>>]
                /\ monPc' = Signalled(monPc, {u \in ToSet(monitors[m].waitSet) : monWaits[u]})
       ELSE UNCHANGED <<monitors, monPc>>
    /\ UNCHANGED <<monWord, monFree, monAt, monBack, monWaiting, monSuspenders, monAborted,
                   monHistory>>

\* A timed wait ends, or wait_cond_ returns without cause.
MonTimeout(t) ==
    /\ MonGo(t, "waiting", "signalled")
    /\ UNCHANGED <<monShared, monAt, monBack, monWaiting, monSuspenders, monAborted, monLeft,
                   monHistory>>

\* Thread::Interrupt.
MonInterrupt(t) ==
    /\ MonInterrupts
    /\ monLeft > 0
    /\ monLeft' = monLeft - 1
    /\ ~monAborted /\ ~monInterrupted[t]
    /\ monInterrupted' = [monInterrupted EXCEPT ![t] = TRUE]
    /\ monPc' = IF monWaits[t] THEN Signalled(monPc, {t}) ELSE monPc
    /\ UNCHANGED <<monShared, monAt, monBack, monKeep, monWaits, monWas, monSuspenders,
                   monAborted, monHistory>>

----------------------------------------------------------------------------
(* Object::IdentityHashCode and deflation. *)

MonHash(t) ==
    /\ MonBegin(t, "hash")
    /\ monBack' = [monBack EXCEPT ![t] = "hash"]
    /\ UNCHANGED <<monShared, monAt, monWaiting, monSuspenders, monAborted, monHistory>>

\* One turn of the loop: the hash code goes into the word or the monitor, or is there.
MonHashRead(t) ==
    /\ \/ /\ monWord.kind = "unlocked"
          /\ \E h \in MonHashes : monWord' = HashWord(h) /\ monHashed' = monHashed \union {h}
          /\ MonGo(t, "hash", "run")
          /\ UNCHANGED monitors
       \/ /\ monWord.kind = "hash"
          /\ monHashed' = monHashed \union {monWord.hash}
          /\ MonGo(t, "hash", "run")
          /\ UNCHANGED <<monWord, monitors>>
       \/ /\ monWord.kind = "fat"
          /\ \E h \in MonHashes :
               LET hash == monitors[monWord.monitor].hash
                   result == IF hash = 0 THEN h ELSE hash
               IN  /\ monitors' = [monitors EXCEPT ![monWord.monitor].hash = result]
                   /\ monHashed' = monHashed \union {result}
          /\ MonGo(t, "hash", "run")
          /\ UNCHANGED monWord
       \/ /\ monWord.kind = "thin"
          /\ MonGo(t, "hash", MonToInflate(t))
          /\ UNCHANGED <<monWord, monitors, monHashed>>
    /\ MonRead(t)
    /\ UNCHANGED <<monFree, monBack, monWaiting, monSuspenders, monAborted, monLeft, monDepth,
                   monMissed>>

\* Mutant: deflates a monitor that somebody waits in.
DeflatableInUse(mon) == mon.owner /= MonNone => mon.hash = 0 /\ mon.count =< MonMaxThin

\* Mutant: deflates an owned monitor with a hash code.
DeflatableHashed(mon) ==
    /\ mon.waiters = 0
    /\ mon.owner /= MonNone => mon.count =< MonMaxThin

\* Monitor::Deflate refuses a monitor with waiters or contenders, and an owned one that has a
\* hash code or a count that a thin lock cannot hold.
Deflatable(mon) ==
    /\ mon.waiters = 0
    /\ mon.owner /= MonNone => mon.hash = 0 /\ mon.count =< MonMaxThin

DeflatedWord(mon) ==
    IF mon.owner /= MonNone THEN Thin(mon.owner, mon.count)
    ELSE IF mon.hash /= 0 THEN HashWord(mon.hash) ELSE Unlocked

\* MonitorList::DeflateMonitors, with all threads suspended: the monitor goes to the pool.
MonDeflate ==
    /\ ~monAborted
    /\ monLeft > 0
    /\ monLeft' = monLeft - 1
    /\ \A t \in MonThreads : monPc[t] \in MonSafe
    /\ monWord.kind = "fat"
    /\ LET m == monWord.monitor IN
       /\ Deflatable(monitors[m])
       /\ monWord' = DeflatedWord(monitors[m])
       /\ monFree' = monFree \union {m}
       /\ monitors' = [monitors EXCEPT ![m] = NewMonitor(MonNone, 0, 0)]
    /\ UNCHANGED <<monPc, monAt, monBack, monWaiting, monSuspenders, monAborted, monHistory>>

----------------------------------------------------------------------------

MonCall(t) ==
    \/ MonEnter(t) \/ MonExit(t) \/ MonWait(t) \/ MonNotify(t) \/ MonNotifyAll(t)
    \/ MonInterrupt(t) \/ MonHash(t)

MonStep(t) ==
    \/ MonInflateOwn(t) \/ MonInflateHash(t) \/ MonSuspendOwner(t) \/ MonInflateOther(t)
    \/ MonEnterUnlocked(t) \/ MonEnterRead(t) \/ MonEnterStore(t)
    \/ MonLock(t) \/ MonBlock(t) \/ MonRelock(t)
    \/ MonExitStore(t) \/ MonExitFat(t)
    \/ MonWaitRead(t) \/ MonWaitFat(t) \/ MonWoken(t) \/ MonUnwait(t) \/ MonRewait(t)
    \/ MonThrow(t) \/ MonHashRead(t)

MonNext ==
    \/ \E t \in MonThreads : MonCall(t) \/ MonStep(t) \/ MonTimeout(t)
    \/ MonDeflate

MonSpec == MonInit /\ [][MonNext]_monVars

----------------------------------------------------------------------------

\* The thread the object's lock belongs to, and how often.
MonOwner == IF monWord.kind = "thin" THEN monWord.owner
            ELSE IF monWord.kind = "fat" THEN monitors[monWord.monitor].owner ELSE MonNone

MonCount == IF monWord.kind = "thin" THEN monWord.count ELSE monitors[monWord.monitor].count

\* Inside Object.wait without the monitor.
MonInWait(t) ==
    monBack[t] = "rewait" /\ monPc[t] \in {"waiting", "signalled", "woken", "lock", "blocked",
                                           "contending", "back", "rewait"}

\* No thread is in a Monitor that the collector has deflated: num_waiters_ keeps the monitor
\* of everybody who gives up mutator_lock_ inside Lock or Wait.
MonNoStaleMonitor ==
    \A t \in MonThreads :
        monPc[t] \in {"lock", "blocked", "contending", "back", "exitFat", "wait", "waiting",
                      "signalled", "woken", "rewait"} =>
            monWord = monAt[t]

\* A thread that has entered the monitor more often than it has left it owns it, with exactly
\* that recursion count, through inflation by itself or another thread, through deflation and
\* through a wait that gave up all levels; the CHECKs of Install and Lock hold: a monitor is
\* never made from an empty lock word or for another owner than the thin lock's, and an unowned
\* monitor has count 0.
MonHolderIsOwner ==
    /\ ~monAborted
    /\ MonNoStaleMonitor
    /\ \A t \in MonThreads :
          (monDepth[t] > 0 /\ ~MonInWait(t)) => MonOwner = t /\ MonCount = monDepth[t] - 1

\* The identity hash code of an object never changes, whether it lives in the lock word, in a
\* monitor, or moves between the two.
MonHashIsStable == Cardinality(monHashed) =< 1

\* Notify "checks to see if the thread is still waiting" before it spends the notification on
\* it: it never picks a thread that an interrupt or a timeout has woken while another sleeps.
MonNotifyFindsWaiter == ~monMissed

\* A thread in MonitorEnter, MonitorExit or IdentityHashCode, or on its way out of Object.wait.
MonPending(t) == monPc[t] \notin {"run", "waiting"}
================================================================================
