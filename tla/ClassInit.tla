------------------------------- MODULE ClassInit --------------------------------
(***************************************************************************)
(* Class initialisation at run time: ClassLinker::EnsureInitialized,       *)
(* InitializeClass, WaitForInitializeClass and VerifyClass, with           *)
(* Class::SetStatus.  Level 3 unpacking forces it for every class of a DEX *)
(* file, beside the application's own threads.                             *)
(*                                                                         *)
(* Each thread has a stack of calls; a <clinit> may ask for other classes  *)
(* and so call in again.  The monitor of a class is a recursive lock with  *)
(* a wait set.  What a thread does while it holds the lock is one step     *)
(* unless it takes another lock on the way; IsInitialized is also read     *)
(* without the lock.                                                       *)
(***************************************************************************)
EXTENDS Integers, Sequences, FiniteSets

CONSTANTS CiThreads, CiNoThread,
          CiClasses, CiNoClass,
          CiSuper,        \* class |-> superclass or CiNoClass, acyclic (ClassCircularityError)
          CiUses,         \* class |-> the classes its <clinit> may use
          CiCalls         \* bound: calls of EnsureInitialized by threads and <clinit>s

ASSUME ClassInitAssumption ==
    /\ CiNoThread \notin CiThreads /\ CiNoClass \notin CiClasses
    /\ CiSuper \in [CiClasses -> CiClasses \union {CiNoClass}]
    /\ CiUses \in [CiClasses -> SUBSET CiClasses]
    /\ CiCalls \in Nat
    /\ \A s \in SUBSET CiClasses : s /= {} => \E c \in s : CiSuper[c] \notin s

VARIABLES ciStatus,       \* status_
          ciInitializer,  \* clinit_thread_id_
          ciOwner,        \* who holds the class's monitor
          ciDepth,        \* how often
          ciWaiting,      \* the wait set of the class's monitor
          ciStack,        \* thread |-> its calls, innermost last
          ciResult,       \* what the call that has just returned told the thread
          ciPending,      \* self->IsExceptionPending()
          ciRuns,         \* history: how often the class's <clinit> has been invoked
          ciAborted,      \* a CHECK or LOG(FATAL)
          ciLeft          \* calls left

ciVars == <<ciStatus, ciInitializer, ciOwner, ciDepth, ciWaiting, ciStack, ciResult,
            ciPending, ciRuns, ciAborted, ciLeft>>
ciMonitors == <<ciOwner, ciDepth, ciWaiting>>
ciNote == <<ciRuns, ciAborted, ciLeft>>

\* The order of mirror::Class::Status.
CiStatuses == <<"resolved", "verifying", "verified", "initializing", "initialized">>

\* IsVerified; kStatusError is below every other.
CiVerified(c) == ciStatus[c] \in {"verified", "initializing", "initialized"}

CiInit ==
    /\ ciStatus = [c \in CiClasses |-> "resolved"]
    /\ ciInitializer = [c \in CiClasses |-> CiNoThread]
    /\ ciOwner = [c \in CiClasses |-> CiNoThread]
    /\ ciDepth = [c \in CiClasses |-> 0]
    /\ ciWaiting = [c \in CiClasses |-> {}]
    /\ ciStack = [t \in CiThreads |-> <<>>]
    /\ ciResult = [t \in CiThreads |-> TRUE]
    /\ ciPending = [t \in CiThreads |-> FALSE]
    /\ ciRuns = [c \in CiClasses |-> 0]
    /\ ciAborted = FALSE
    /\ ciLeft = CiCalls

----------------------------------------------------------------------------
(* Calls and monitors *)

CiFrame(op, c, pc) == [op |-> op, class |-> c, pc |-> pc]

\* Thread t is in call op at pc, for class c.
CiAt(t, op, c, pc) ==
    ~ciAborted /\ ciStack[t] /= <<>> /\ ciStack[t][Len(ciStack[t])] = CiFrame(op, c, pc)

CiGo(t, pc) == ciStack' = [ciStack EXCEPT ![t][Len(ciStack[t])].pc = pc]

\* The caller goes on at pc when the new call returns.
CiCallAnd(t, op, c, pc) ==
    ciStack' = [ciStack EXCEPT ![t] =
                   Append([@ EXCEPT ![Len(@)].pc = pc], CiFrame(op, c, "start"))]

CiReturn(t, result) ==
    /\ ciStack' = [ciStack EXCEPT ![t] = SubSeq(@, 1, Len(@) - 1)]
    /\ ciResult' = [ciResult EXCEPT ![t] = result]

CiCanLock(t, c) == ciOwner[c] \in {t, CiNoThread}

CiLock(t, c) ==
    /\ CiCanLock(t, c)
    /\ ciOwner' = [ciOwner EXCEPT ![c] = t]
    /\ ciDepth' = [ciDepth EXCEPT ![c] = @ + 1]

CiUnlockAll(classes) ==
    /\ ciOwner' = [c \in CiClasses |->
                      IF c \in classes /\ ciDepth[c] = 1 THEN CiNoThread ELSE ciOwner[c]]
    /\ ciDepth' = [c \in CiClasses |-> IF c \in classes THEN ciDepth[c] - 1 ELSE ciDepth[c]]

CiUnlock(c) == CiUnlockAll({c})

CiRank(s) == IF s = "error" THEN 0 ELSE CHOOSE i \in DOMAIN CiStatuses : CiStatuses[i] = s

\* Mutant of SetStatus: without NotifyAll.
SetStatusQuietly(t, c, new) ==
    /\ ciAborted' = \/ new /= "error" /\ CiRank(new) =< CiRank(ciStatus[c])
                    \/ ciOwner[c] /= t
                    \/ new = "error" /\ (ciStatus[c] = "error" \/ ~ciPending'[t])
    /\ ciStatus' = [ciStatus EXCEPT ![c] = new]
    /\ UNCHANGED ciWaiting

\* Class::SetStatus: the CHECKs, the new status, NotifyAll.
SetStatus(t, c, new) ==
    /\ ciAborted' = \/ new /= "error" /\ CiRank(new) =< CiRank(ciStatus[c])
                    \/ ciOwner[c] /= t
                    \/ new = "error" /\ (ciStatus[c] = "error" \/ ~ciPending'[t])
    /\ ciStatus' = [ciStatus EXCEPT ![c] = new]
    /\ ciWaiting' = [ciWaiting EXCEPT ![c] = {}]

----------------------------------------------------------------------------
(* InitializeClass *)

\* EnsureInitialized by a thread of its own accord, or from a <clinit>, which may have caught
\* the exception of an earlier call.
CiCallInitialize(t, c) ==
    /\ ~ciAborted /\ ciLeft > 0
    /\ \/ ciStack[t] = <<>>
       \/ \E d \in CiClasses : CiAt(t, "init", d, "clinit") /\ c \in CiUses[d]
    /\ ciLeft' = ciLeft - 1
    /\ ciStack' = [ciStack EXCEPT ![t] = Append(@, CiFrame("init", c, "start"))]
    /\ ciPending' = [ciPending EXCEPT ![t] = FALSE]
    /\ UNCHANGED <<ciStatus, ciInitializer, ciMonitors, ciResult, ciRuns, ciAborted>>

\* The test without the lock.
CiStart(t, c) ==
    /\ CiAt(t, "init", c, "start")
    /\ IF ciStatus[c] = "initialized"
       THEN CiReturn(t, TRUE)
       ELSE CiGo(t, "lock") /\ UNCHANGED ciResult
    /\ UNCHANGED <<ciStatus, ciInitializer, ciMonitors, ciPending, ciNote>>

CiEnterLock(t, c) ==
    /\ CiAt(t, "init", c, "lock")
    /\ CiLock(t, c)
    /\ CiGo(t, "locked")
    /\ UNCHANGED <<ciStatus, ciInitializer, ciWaiting, ciResult, ciPending, ciNote>>

\* Mutant of CiAlreadyDone: a class that any thread initialises is good enough.
CiAlreadyDoneByAny(t, c) ==
    /\ CiAt(t, "init", c, "locked")
    /\ \/ /\ ciStatus[c] \in {"initialized", "initializing"}
          /\ CiReturn(t, TRUE)
          /\ UNCHANGED ciPending
       \/ /\ ciStatus[c] = "error"
          /\ CiReturn(t, FALSE)
          /\ ciPending' = [ciPending EXCEPT ![t] = TRUE]
    /\ CiUnlock(c)
    /\ UNCHANGED <<ciStatus, ciInitializer, ciWaiting, ciNote>>

\* With the lock: initialised by another thread, erroneous, or being initialised by this
\* thread further up its stack.
CiAlreadyDone(t, c) ==
    /\ CiAt(t, "init", c, "locked")
    /\ \/ /\ ciStatus[c] = "initialized"
          /\ CiReturn(t, TRUE)
          /\ UNCHANGED ciPending
       \/ /\ ciStatus[c] = "error"
          /\ CiReturn(t, FALSE)
          /\ ciPending' = [ciPending EXCEPT ![t] = TRUE]
       \/ /\ ciStatus[c] = "initializing"
          /\ ciInitializer[c] = t
          /\ CiReturn(t, TRUE)
          /\ UNCHANGED ciPending
    /\ CiUnlock(c)
    /\ UNCHANGED <<ciStatus, ciInitializer, ciWaiting, ciNote>>

CiVerifyFirst(t, c) ==
    /\ CiAt(t, "init", c, "locked")
    /\ ciStatus[c] \in {"resolved", "verifying"}
    /\ CiCallAnd(t, "verify", c, "verified")
    /\ UNCHANGED <<ciStatus, ciInitializer, ciMonitors, ciResult, ciPending, ciNote>>

CiAfterVerify(t, c) ==
    /\ CiAt(t, "init", c, "verified")
    /\ IF CiVerified(c)
       THEN CiGo(t, "locked") /\ UNCHANGED <<ciMonitors, ciResult, ciAborted>>
       ELSE /\ ciAborted' = ~(ciStatus[c] = "error" /\ ciPending[t])
            /\ CiReturn(t, FALSE)
            /\ CiUnlock(c)
            /\ UNCHANGED ciWaiting
    /\ UNCHANGED <<ciStatus, ciInitializer, ciPending, ciRuns, ciLeft>>

\* ValidateSuperClassDescriptors fails.
CiRejected(t, c) ==
    /\ CiAt(t, "init", c, "locked")
    /\ ciStatus[c] = "verified" /\ CiSuper[c] /= CiNoClass
    /\ ciPending' = [ciPending EXCEPT ![t] = TRUE]
    /\ SetStatus(t, c, "error")
    /\ CiUnlock(c)
    /\ CiReturn(t, FALSE)
    /\ UNCHANGED <<ciInitializer, ciRuns, ciLeft>>

CiClaim(t, c) ==
    /\ CiAt(t, "init", c, "locked")
    /\ ciStatus[c] = "verified"
    /\ ciInitializer' = [ciInitializer EXCEPT ![c] = t]
    /\ UNCHANGED ciPending
    /\ SetStatus(t, c, "initializing")
    /\ CiUnlock(c)
    /\ CiGo(t, "super")
    /\ UNCHANGED <<ciResult, ciRuns, ciLeft>>

\* Mutant of CiInitSuper: IsInitializing in place of IsInitialized.
CiInitSuperBegun(t, c) ==
    /\ CiAt(t, "init", c, "super")
    /\ IF CiSuper[c] /= CiNoClass /\ ciStatus[CiSuper[c]] \notin {"initializing", "initialized"}
       THEN CiCallAnd(t, "init", CiSuper[c], "super_done") /\ UNCHANGED ciRuns
       ELSE CiGo(t, "clinit") /\ ciRuns' = [ciRuns EXCEPT ![c] = @ + 1]
    /\ UNCHANGED <<ciStatus, ciInitializer, ciMonitors, ciResult, ciPending, ciAborted, ciLeft>>

\* The superclass first.
CiInitSuper(t, c) ==
    /\ CiAt(t, "init", c, "super")
    /\ IF CiSuper[c] /= CiNoClass /\ ciStatus[CiSuper[c]] /= "initialized"
       THEN CiCallAnd(t, "init", CiSuper[c], "super_done") /\ UNCHANGED ciRuns
       ELSE CiGo(t, "clinit") /\ ciRuns' = [ciRuns EXCEPT ![c] = @ + 1]
    /\ UNCHANGED <<ciStatus, ciInitializer, ciMonitors, ciResult, ciPending, ciAborted, ciLeft>>

\* A superclass that failed makes the class fail.
CiSuperDone(t, c) ==
    /\ CiAt(t, "init", c, "super_done")
    /\ IF ciResult[t]
       THEN CiGo(t, "clinit") /\ ciRuns' = [ciRuns EXCEPT ![c] = @ + 1] /\ UNCHANGED ciAborted
       ELSE /\ CiGo(t, "finish")
            /\ ciAborted' = ~(ciStatus[CiSuper[c]] = "error" /\ ciPending[t])
            /\ UNCHANGED ciRuns
    /\ UNCHANGED <<ciStatus, ciInitializer, ciMonitors, ciResult, ciPending, ciLeft>>

\* <clinit> ends by itself or with an exception; that of a class it has used it may catch.
CiClinitEnds(t, c, throws) ==
    /\ CiAt(t, "init", c, "clinit")
    /\ ciPending' = [ciPending EXCEPT ![t] = throws]
    /\ CiGo(t, "finish")
    /\ UNCHANGED <<ciStatus, ciInitializer, ciMonitors, ciResult, ciNote>>

CiFinishLock(t, c) ==
    /\ CiAt(t, "init", c, "finish")
    /\ CiLock(t, c)
    /\ CiGo(t, "finish_locked")
    /\ UNCHANGED <<ciStatus, ciInitializer, ciWaiting, ciResult, ciPending, ciNote>>

CiFinish(t, c) ==
    /\ CiAt(t, "init", c, "finish_locked")
    /\ UNCHANGED ciPending
    /\ SetStatus(t, c, IF ciPending[t] THEN "error" ELSE "initialized")
    /\ CiUnlock(c)
    /\ CiReturn(t, ~ciPending[t])
    /\ UNCHANGED <<ciInitializer, ciRuns, ciLeft>>

\* WaitForInitializeClass: another thread initialises the class.
CiWait(t, c) ==
    /\ CiAt(t, "init", c, "locked")
    /\ ciStatus[c] = "initializing" /\ ciInitializer[c] /= t
    /\ ciOwner' = [ciOwner EXCEPT ![c] = CiNoThread]
    /\ ciDepth' = [ciDepth EXCEPT ![c] = 0]
    /\ ciWaiting' = [ciWaiting EXCEPT ![c] = @ \union {t}]
    /\ CiGo(t, "waiting")
    /\ UNCHANGED <<ciStatus, ciInitializer, ciResult, ciPending, ciNote>>

\* Woken, with the lock again: back to sleep, or return what has become of the class.
CiAwake(t, c) ==
    /\ CiAt(t, "init", c, "waiting")
    /\ t \notin ciWaiting[c] /\ ciOwner[c] = CiNoThread
    /\ \/ /\ ciStatus[c] = "initializing"
          /\ ciWaiting' = [ciWaiting EXCEPT ![c] = @ \union {t}]
          /\ UNCHANGED <<ciStack, ciResult, ciPending, ciAborted>>
       \/ /\ ciStatus[c] = "error"
          /\ ciPending' = [ciPending EXCEPT ![t] = TRUE]
          /\ CiReturn(t, FALSE)
          /\ UNCHANGED <<ciWaiting, ciAborted>>
       \/ /\ ciStatus[c] = "initialized"
          /\ CiReturn(t, TRUE)
          /\ UNCHANGED <<ciWaiting, ciPending, ciAborted>>
       \/ /\ ciStatus[c] \notin {"initializing", "initialized", "error"}
          /\ ciAborted' = TRUE
          /\ UNCHANGED <<ciStack, ciResult, ciWaiting, ciPending>>
    /\ UNCHANGED <<ciStatus, ciInitializer, ciOwner, ciDepth, ciRuns, ciLeft>>

----------------------------------------------------------------------------
(* VerifyClass *)

CiVerifyStart(t, c) ==
    /\ CiAt(t, "verify", c, "start")
    /\ CiLock(t, c)
    /\ CiGo(t, "locked")
    /\ UNCHANGED <<ciStatus, ciInitializer, ciWaiting, ciResult, ciPending, ciNote>>

CiVerifyReturn(t, c) ==
    CiUnlock(c) /\ CiReturn(t, TRUE)

\* Verified already, or erroneous.
CiVerifyDone(t, c) ==
    /\ CiAt(t, "verify", c, "locked")
    /\ CiVerified(c) \/ ciStatus[c] = "error"
    /\ ciPending' = [ciPending EXCEPT ![t] = @ \/ ciStatus[c] = "error"]
    /\ CiVerifyReturn(t, c)
    /\ UNCHANGED <<ciStatus, ciInitializer, ciWaiting, ciNote>>

CiVerifying(t, c) ==
    /\ CiAt(t, "verify", c, "locked")
    /\ ~CiVerified(c) /\ ciStatus[c] /= "error"
    /\ UNCHANGED ciPending
    /\ SetStatus(t, c, "verifying")
    /\ CiGo(t, IF CiSuper[c] = CiNoClass THEN "verdict" ELSE "super")
    /\ UNCHANGED <<ciInitializer, ciOwner, ciDepth, ciResult, ciRuns, ciLeft>>

\* The superclass's lock is taken on top of the class's own.
CiVerifySuper(t, c) ==
    LET s == CiSuper[c]
    IN  /\ CiAt(t, "verify", c, "super")
        /\ CiLock(t, s)
        /\ IF CiVerified(s) \/ ciStatus[s] = "error"
           THEN CiGo(t, "super_done")
           ELSE CiCallAnd(t, "verify", s, "super_done")
        /\ UNCHANGED <<ciStatus, ciInitializer, ciWaiting, ciResult, ciPending, ciNote>>

\* Mutant of CiVerifySuperDone: relies on the exception of the superclass's verification.
CiVerifySuperDoneSilently(t, c) ==
    LET s == CiSuper[c]
    IN  /\ CiAt(t, "verify", c, "super_done")
        /\ UNCHANGED ciPending
        /\ IF CiVerified(s)
           THEN /\ CiUnlock(s)
                /\ CiGo(t, "verdict")
                /\ UNCHANGED <<ciStatus, ciWaiting, ciResult, ciAborted>>
           ELSE /\ SetStatus(t, c, "error")
                /\ CiUnlockAll({s, c})
                /\ CiReturn(t, TRUE)
        /\ UNCHANGED <<ciInitializer, ciRuns, ciLeft>>

\* A superclass that is not verified by now makes the class fail.
CiVerifySuperDone(t, c) ==
    LET s == CiSuper[c]
    IN  /\ CiAt(t, "verify", c, "super_done")
        /\ IF CiVerified(s)
           THEN /\ CiUnlock(s)
                /\ CiGo(t, "verdict")
                /\ UNCHANGED <<ciStatus, ciWaiting, ciResult, ciPending, ciAborted>>
           ELSE /\ ciPending' = [ciPending EXCEPT ![t] = TRUE]
                /\ SetStatus(t, c, "error")
                /\ CiUnlockAll({s, c})
                /\ CiReturn(t, TRUE)
        /\ UNCHANGED <<ciInitializer, ciRuns, ciLeft>>

\* With or without a hard failure.
CiVerdict(t, c, fails) ==
    /\ CiAt(t, "verify", c, "verdict")
    /\ ciPending' = [ciPending EXCEPT ![t] = fails]
    /\ SetStatus(t, c, IF fails THEN "error" ELSE "verified")
    /\ CiVerifyReturn(t, c)
    /\ UNCHANGED <<ciInitializer, ciRuns, ciLeft>>

CiStep(t) ==
    \E c \in CiClasses :
        \/ CiStart(t, c) \/ CiEnterLock(t, c) \/ CiAlreadyDone(t, c) \/ CiVerifyFirst(t, c)
        \/ CiAfterVerify(t, c) \/ CiRejected(t, c) \/ CiClaim(t, c) \/ CiInitSuper(t, c)
        \/ CiSuperDone(t, c) \/ CiFinishLock(t, c) \/ CiFinish(t, c)
        \/ CiWait(t, c) \/ CiAwake(t, c)
        \/ CiVerifyStart(t, c) \/ CiVerifyDone(t, c) \/ CiVerifying(t, c)
        \/ CiVerifySuper(t, c) \/ CiVerifySuperDone(t, c)
        \/ \E bad \in BOOLEAN : CiClinitEnds(t, c, bad) \/ CiVerdict(t, c, bad)

CiNext == \E t \in CiThreads : CiStep(t) \/ \E c \in CiClasses : CiCallInitialize(t, c)

CiSpec == CiInit /\ [][CiNext]_ciVars

----------------------------------------------------------------------------

\* Thread t is in the <clinit> of c.
CiInClinit(t, c) ==
    \E i \in DOMAIN ciStack[t] : ciStack[t][i] = CiFrame("init", c, "clinit")

\* <clinit> is invoked at most once, by the thread that claimed the class, and after the
\* superclass is initialised or as far as this same thread, further up, has got with it.  No
\* CHECK fails on the way: SetStatus is called with the class's lock, never backwards and with
\* an exception for an error; a failed superclass is erroneous; whoever is woken in
\* WaitForInitializeClass finds a status it knows.
CiClinitOnce ==
    /\ ~ciAborted
    /\ \A c \in CiClasses :
          /\ ciRuns[c] =< 1
          /\ \A t \in CiThreads :
                CiInClinit(t, c) =>
                    /\ ciStatus[c] = "initializing" /\ ciInitializer[c] = t
                    /\ CiSuper[c] /= CiNoClass =>
                          \/ ciStatus[CiSuper[c]] = "initialized"
                          \/ /\ ciStatus[CiSuper[c]] = "initializing"
                             /\ ciInitializer[CiSuper[c]] = t

\* InitializeClass tells its caller the truth: TRUE leaves the class initialised, or this
\* thread is itself initialising it; FALSE leaves it erroneous with an exception pending.
CiResultIsTrue ==
    [][\A t \in CiThreads : \A c \in CiClasses :
          (/\ ciStack[t] /= <<>>
           /\ ciStack[t][Len(ciStack[t])].op = "init"
           /\ ciStack[t][Len(ciStack[t])].class = c
           /\ Len(ciStack'[t]) < Len(ciStack[t]))
          => IF ciResult'[t]
             THEN \/ ciStatus'[c] = "initialized"
                  \/ ciStatus'[c] = "initializing" /\ ciInitializer'[c] = t
             ELSE ciStatus'[c] = "error" /\ ciPending'[t]]_ciVars

\* A thread in EnsureInitialized.
CiPending(t) == ciStack[t] /= <<>>
================================================================================
