--------------------------- MODULE ReferenceProcessor ---------------------------
(***************************************************************************)
(* java.lang.ref.Reference objects under a concurrent mark sweep:          *)
(* gc/reference_processor.cc and gc/reference_queue.cc, with the phases of *)
(* MarkSweep that frame them.  Marking delays references whose referents   *)
(* are white; after the pause the collector keeps soft referents, clears   *)
(* what is white, revives objects that have finalizers, and sweeps, while  *)
(* mutators go on calling GetReferent.  What it keeps and revives is       *)
(* scanned, and more references are found in it and delayed.               *)
(*                                                                         *)
(* A queue is a cyclic list through pendingNext, entered at its last       *)
(* element.  reference_processor_lock_ is never held over a step.  Kinds   *)
(* of references other than these do not occur (LOG(FATAL) otherwise).     *)
(***************************************************************************)
EXTENDS Integers, Sequences, FiniteSets

CONSTANTS RpThreads,      \* mutators
          RpObjects,      \* objects that are referents or held by them
          RpRefs,         \* reference |-> its kind
          RpHolder,       \* reference |-> the object it is in a field of, or RpNull: in a root
          RpNull,
          RpPoints,       \* object |-> the objects in its fields, at first
          RpCycles,       \* bound: collections
          RpCalls         \* bound: calls by mutators

RpKinds == {"soft", "weak", "finalizer", "phantom"}

ASSUME ReferenceProcessorAssumption ==
    /\ RpNull \notin RpObjects \union DOMAIN RpRefs
    /\ IsFiniteSet(DOMAIN RpRefs)
    /\ \A r \in DOMAIN RpRefs : RpRefs[r] \in RpKinds
    /\ RpHolder \in [DOMAIN RpRefs -> RpObjects \union {RpNull}]
    \* java.lang.ref.FinalizerReference has them all in a list, from a static field
    /\ \A r \in DOMAIN RpRefs : RpRefs[r] = "finalizer" => RpHolder[r] = RpNull
    /\ RpPoints \in [RpObjects -> SUBSET RpObjects]
    /\ RpCycles \in Nat /\ RpCalls \in Nat

VARIABLES rpReferent,     \* referent
          rpZombie,       \* zombie of a finalizer reference
          rpNext,         \* pendingNext
          rpList,         \* list_ of the four queues and of cleared_references_
          rpQueued,       \* history: the references the collector has on a queue, and on which
          rpFields,       \* the objects in an object's fields
          rpMarked, rpGrey,
          rpScan,         \* references on the mark stack, after the pause
          rpSwept,        \* objects that have been freed
          rpSlow,         \* SlowPathEnabled
          rpCallback,     \* is_marked_callback_ is set
          rpPreserving,   \* preserving_references_
          rpPhase,        \* where the collector is
          rpCursor,       \* ForwardSoftReferences' place in the list
          rpPc,           \* where each mutator is
          rpRef,          \* the reference of its call
          rpSeen,         \* referent, as GetReferent has read it first
          rpHeld,         \* the object it has in a local
          rpSlowly,       \* history: that object came from behind the slow path
          rpTurns, rpLeft \* collections and calls left

rpHeap == <<rpReferent, rpZombie, rpFields>>
rpQueues == <<rpNext, rpList, rpQueued>>
rpColours == <<rpMarked, rpGrey, rpScan, rpSwept>>
rpFlags == <<rpSlow, rpCallback, rpPreserving>>
rpMutators == <<rpPc, rpRef, rpSeen, rpHeld, rpSlowly, rpLeft>>
rpVars == <<rpHeap, rpQueues, rpColours, rpFlags, rpPhase, rpCursor, rpMutators, rpTurns>>

RpAll == DOMAIN RpRefs

RpInit ==
    /\ rpReferent \in [RpAll -> RpObjects]
    /\ rpZombie = [r \in RpAll |-> RpNull]
    /\ rpNext = [r \in RpAll |-> RpNull]
    /\ rpList = [q \in RpKinds \union {"cleared"} |-> RpNull]
    /\ rpQueued = [r \in RpAll |-> "none"]
    /\ rpFields = RpPoints
    /\ rpMarked = {} /\ rpGrey = {} /\ rpScan = {} /\ rpSwept = {}
    /\ rpSlow = FALSE /\ rpCallback = FALSE /\ rpPreserving = FALSE
    /\ rpPhase = "idle"
    /\ rpCursor = RpNull
    /\ rpPc = [t \in RpThreads |-> "out"]
    /\ rpRef = [t \in RpThreads |-> RpNull]
    /\ rpSeen = [t \in RpThreads |-> RpNull]
    /\ rpHeld = [t \in RpThreads |-> RpNull]
    /\ rpSlowly = [t \in RpThreads |-> FALSE]
    /\ rpTurns = RpCycles
    /\ rpLeft = RpCalls

RpWhite(o) == o /= RpNull /\ o \notin rpMarked
RpEnqueued(r) == rpNext[r] /= RpNull

\* Marking has come to the object that reference r is in.
RpReached(r) == RpHolder[r] \in rpMarked \union {RpNull}

----------------------------------------------------------------------------
(* ReferenceQueue *)

\* Mutant of RpEnqueue: the last element is not linked to the new one.
RpEnqueueUnlinked(q, r, next, list) ==
    IF list[q] = RpNull
    THEN /\ rpNext' = [next EXCEPT ![r] = r]
         /\ rpList' = [list EXCEPT ![q] = r]
    ELSE /\ rpNext' = [next EXCEPT ![r] = next[list[q]]]
         /\ rpList' = list

\* EnqueuePendingReference: behind the last, before the first.
RpEnqueue(q, r, next, list) ==
    IF list[q] = RpNull
    THEN /\ rpNext' = [next EXCEPT ![r] = r]
         /\ rpList' = [list EXCEPT ![q] = r]
    ELSE /\ rpNext' = [next EXCEPT ![r] = next[list[q]], ![list[q]] = r]
         /\ rpList' = list

\* DequeuePendingReference takes the first.
RpFirst(q) == rpNext[rpList[q]]

RpDequeuedNext(q) ==
    IF rpList[q] = RpFirst(q)
    THEN [rpNext EXCEPT ![RpFirst(q)] = RpNull]
    ELSE [rpNext EXCEPT ![rpList[q]] = rpNext[RpFirst(q)], ![RpFirst(q)] = RpNull]

RpDequeuedList(q) ==
    IF rpList[q] = RpFirst(q) THEN [rpList EXCEPT ![q] = RpNull] ELSE rpList

\* The first of queue q goes to cleared_references_, or to no queue.
RpMove(q, cleared) ==
    /\ rpQueued' = [rpQueued EXCEPT ![RpFirst(q)] = IF cleared THEN "cleared" ELSE "none"]
    /\ IF cleared
       THEN RpEnqueue("cleared", RpFirst(q), RpDequeuedNext(q), RpDequeuedList(q))
       ELSE rpNext' = RpDequeuedNext(q) /\ rpList' = RpDequeuedList(q)

----------------------------------------------------------------------------
(* The collector: marking and the pause *)

RpStartMarking ==
    /\ rpPhase = "idle" /\ rpTurns > 0
    /\ rpTurns' = rpTurns - 1
    /\ rpPhase' = "mark"
    /\ rpMarked' = {}
    /\ UNCHANGED <<rpHeap, rpQueues, rpGrey, rpScan, rpSwept, rpFlags, rpCursor, rpMutators>>

RpClosed(s) == \A o \in s : rpFields[o] \subseteq s

\* Marking gets ahead, to objects with all they lead to.
RpMark(s) ==
    /\ rpPhase = "mark"
    /\ s /= {} /\ s \intersect (rpMarked \union rpSwept) = {}
    /\ RpClosed(rpMarked \union s)
    /\ rpMarked' = rpMarked \union s
    /\ UNCHANGED <<rpHeap, rpQueues, rpGrey, rpScan, rpSwept, rpFlags, rpPhase, rpCursor, rpMutators,
                   rpTurns>>

\* A reference is scanned, perhaps again, by a marking that is not paused or from a dirty card.
DelayReferenceReferent(r) ==
    /\ rpPhase = "mark" /\ RpReached(r)
    /\ RpWhite(rpReferent[r])
    /\ ~RpEnqueued(r)
    /\ RpEnqueue(RpRefs[r], r, rpNext, rpList)
    /\ rpQueued' = [rpQueued EXCEPT ![r] = RpRefs[r]]
    /\ UNCHANGED <<rpHeap, rpColours, rpFlags, rpPhase, rpCursor, rpMutators, rpTurns>>

\* PausePhase: no mutator is inside GetReferent.  What they hold is marked, and so are the
\* zombies; every reference that marking has come to has been scanned (one that is enqueued
\* already is not enqueued again), and the slow path is enabled.
RpPause ==
    /\ rpPhase = "mark"
    /\ \A t \in RpThreads : rpPc[t] = "out" /\ (rpHeld[t] = RpNull \/ rpHeld[t] \in rpMarked)
    /\ RpClosed(rpMarked)
    /\ \A r \in RpAll :
          ~RpWhite(rpZombie[r]) /\ (RpReached(r) /\ RpWhite(rpReferent[r]) => RpEnqueued(r))
    /\ rpSlow' = TRUE
    /\ rpPhase' = "args"
    /\ UNCHANGED <<rpHeap, rpQueues, rpColours, rpCallback, rpPreserving, rpCursor, rpMutators,
                   rpTurns>>

----------------------------------------------------------------------------
(* ProcessReferences *)

RpGo(from, to) == rpPhase = from /\ rpPhase' = to

\* With or without clear_soft_references.
RpSetArgs(clear) ==
    /\ RpGo("args", IF clear THEN "clear_soft" ELSE "soft")
    /\ rpCallback' = TRUE
    /\ UNCHANGED <<rpHeap, rpQueues, rpColours, rpSlow, rpPreserving, rpCursor, rpMutators, rpTurns>>

\* A waiting mutator that Broadcast has reached tries again.
RpBroadcast == rpPc' = [t \in RpThreads |-> IF rpPc[t] = "wait" THEN "loop" ELSE
                                            IF rpPc[t] = "wait_circular" THEN "circular" ELSE rpPc[t]]

StartPreservingReferences ==
    /\ RpGo("soft", "forward") \/ RpGo("finalizer", "enqueue_finalizer")
    /\ rpPreserving' = TRUE
    /\ rpCursor' = IF rpPhase = "soft" THEN rpList["soft"] ELSE RpNull
    /\ UNCHANGED <<rpHeap, rpQueues, rpColours, rpSlow, rpCallback, rpMutators, rpTurns>>

\* One turn of ForwardSoftReferences: the referent is marked, once round the list.
RpForward ==
    /\ rpPhase = "forward" /\ rpCursor /= RpNull
    /\ LET o == rpReferent[rpCursor]
       IN  /\ rpMarked' = IF RpWhite(o) THEN rpMarked \union {o} ELSE rpMarked
           /\ rpGrey' = IF RpWhite(o) THEN rpGrey \union {o} ELSE rpGrey
    /\ rpCursor' = IF rpNext[rpCursor] = rpList["soft"] THEN RpNull ELSE rpNext[rpCursor]
    /\ UNCHANGED <<rpHeap, rpQueues, rpScan, rpSwept, rpFlags, rpPhase, rpMutators, rpTurns>>

\* Mutant of RpEnqueueFinalizer: the referent is not marked.
RpEnqueueFinalizerWhite ==
    LET r == RpFirst("finalizer")
        o == rpReferent[r]
    IN  /\ rpPhase = "enqueue_finalizer" /\ rpList["finalizer"] /= RpNull
        /\ IF RpWhite(o)
           THEN /\ rpZombie' = [rpZombie EXCEPT ![r] = o]
                /\ rpReferent' = [rpReferent EXCEPT ![r] = RpNull]
           ELSE UNCHANGED <<rpZombie, rpReferent>>
        /\ RpMove("finalizer", RpWhite(o))
        /\ UNCHANGED <<rpFields, rpColours, rpFlags, rpPhase, rpCursor, rpMutators, rpTurns>>

\* One turn of EnqueueFinalizerReferences: a white referent is revived as the zombie.
RpEnqueueFinalizer ==
    LET r == RpFirst("finalizer")
        o == rpReferent[r]
    IN  /\ rpPhase = "enqueue_finalizer" /\ rpList["finalizer"] /= RpNull
        /\ IF RpWhite(o)
           THEN /\ rpMarked' = rpMarked \union {o}
                /\ rpGrey' = rpGrey \union {o}
                /\ rpZombie' = [rpZombie EXCEPT ![r] = o]
                /\ rpReferent' = [rpReferent EXCEPT ![r] = RpNull]
           ELSE UNCHANGED <<rpMarked, rpGrey, rpZombie, rpReferent>>
        /\ RpMove("finalizer", RpWhite(o))
        /\ UNCHANGED <<rpFields, rpScan, rpSwept, rpFlags, rpPhase, rpCursor, rpMutators, rpTurns>>

\* process_mark_stack_callback takes over when the queue has been worked off.
RpDraining ==
    \/ rpPhase = "forward" /\ rpCursor = RpNull
    \/ rpPhase = "enqueue_finalizer" /\ rpList["finalizer"] = RpNull

\* It scans an object: what is in its fields is marked, references are to be scanned themselves.
RpProcessMarkStack ==
    /\ RpDraining
    /\ \E o \in rpGrey :
          /\ rpMarked' = rpMarked \union rpFields[o]
          /\ rpGrey' = (rpGrey \ {o}) \union (rpFields[o] \ rpMarked)
          /\ rpScan' = rpScan \union {r \in RpAll : RpHolder[r] = o}
    /\ UNCHANGED <<rpHeap, rpQueues, rpSwept, rpFlags, rpPhase, rpCursor, rpMutators, rpTurns>>

\* It scans a reference: DelayReferenceReferent, after the pause.
RpScanReference(r) ==
    /\ RpDraining /\ r \in rpScan
    /\ rpScan' = rpScan \ {r}
    /\ IF RpWhite(rpReferent[r]) /\ ~RpEnqueued(r)
       THEN /\ RpEnqueue(RpRefs[r], r, rpNext, rpList)
            /\ rpQueued' = [rpQueued EXCEPT ![r] = RpRefs[r]]
       ELSE UNCHANGED rpQueues
    /\ UNCHANGED <<rpHeap, rpMarked, rpGrey, rpSwept, rpFlags, rpPhase, rpCursor, rpMutators,
                   rpTurns>>

StopPreservingReferences ==
    /\ rpGrey = {} /\ rpScan = {}
    /\ \/ rpCursor = RpNull /\ RpGo("forward", "clear_soft")
       \/ rpList["finalizer"] = RpNull /\ RpGo("enqueue_finalizer", "clear_phantom")
    /\ rpPreserving' = FALSE
    /\ RpBroadcast
    /\ UNCHANGED <<rpHeap, rpQueues, rpColours, rpSlow, rpCallback, rpCursor, rpRef, rpSeen,
                   rpHeld, rpSlowly, rpTurns, rpLeft>>

\* Mutant of RpClearing: without the second pass over soft and weak references.
RpClearingOnce == IF rpPhase = "clear_soft" THEN {"soft", "weak"} ELSE
                  IF rpPhase = "clear_phantom" THEN {"phantom"} ELSE {}

\* ClearWhiteReferences runs over soft and weak references before the finalizers are looked
\* at and again after them, and then over phantom references.
RpClearing == IF rpPhase = "clear_soft" THEN {"soft", "weak"} ELSE
              IF rpPhase = "clear_phantom" THEN {"soft", "weak", "phantom"} ELSE {}

\* One turn of ClearWhiteReferences; a reference with a ReferenceQueue is kept for it.
ClearWhiteReferences(q) ==
    LET r == RpFirst(q)
    IN  /\ q \in RpClearing /\ rpList[q] /= RpNull
        /\ q = "weak" => rpList["soft"] = RpNull
        /\ q = "phantom" => rpList["weak"] = RpNull /\ rpList["soft"] = RpNull
        /\ IF RpWhite(rpReferent[r])
           THEN /\ rpReferent' = [rpReferent EXCEPT ![r] = RpNull]
                /\ \E enqueuable \in BOOLEAN : RpMove(q, enqueuable)
           ELSE RpMove(q, FALSE) /\ UNCHANGED rpReferent
        /\ UNCHANGED <<rpZombie, rpFields, rpColours, rpFlags, rpPhase, rpCursor, rpMutators,
                       rpTurns>>

RpClearedAll ==
    /\ \A q \in RpClearing : rpList[q] = RpNull
    /\ RpGo("clear_soft", "finalizer") \/ RpGo("clear_phantom", "done")
    /\ UNCHANGED <<rpHeap, rpQueues, rpColours, rpFlags, rpCursor, rpMutators, rpTurns>>

\* Mutant of DisableSlowPath: without Broadcast.
DisableSlowPathQuietly ==
    /\ RpGo("done", "sweep")
    /\ rpCallback' = FALSE
    /\ rpSlow' = FALSE
    /\ UNCHANGED <<rpHeap, rpQueues, rpColours, rpPreserving, rpCursor, rpMutators, rpTurns>>

DisableSlowPath ==
    /\ RpGo("done", "sweep")
    /\ rpCallback' = FALSE
    /\ rpSlow' = FALSE
    /\ RpBroadcast
    /\ UNCHANGED <<rpHeap, rpQueues, rpColours, rpPreserving, rpCursor, rpRef, rpSeen, rpHeld,
                   rpSlowly, rpTurns, rpLeft>>

\* What is white is freed, and the references that are in it.
RpSweep ==
    /\ RpGo("sweep", "enqueue")
    /\ rpSwept' = RpObjects \ rpMarked
    /\ rpReferent' = [r \in RpAll |-> IF RpReached(r) THEN rpReferent[r] ELSE RpNull]
    /\ UNCHANGED <<rpZombie, rpFields, rpQueues, rpMarked, rpGrey, rpScan, rpFlags, rpCursor,
                   rpMutators, rpTurns>>

\* EnqueueClearedReferences: Java takes the list and unlinks it; finalize() may forget the
\* zombies.
EnqueueClearedReferences ==
    /\ RpGo("enqueue", "idle")
    /\ rpNext' = [r \in RpAll |-> IF rpQueued[r] = "cleared" THEN RpNull ELSE rpNext[r]]
    /\ rpQueued' = [r \in RpAll |-> IF rpQueued[r] = "cleared" THEN "none" ELSE rpQueued[r]]
    /\ rpList' = [rpList EXCEPT !["cleared"] = RpNull]
    /\ rpZombie' = [r \in RpAll |-> IF rpQueued[r] = "cleared" THEN RpNull ELSE rpZombie[r]]
    /\ UNCHANGED <<rpReferent, rpFields, rpColours, rpFlags, rpCursor, rpMutators, rpTurns>>

----------------------------------------------------------------------------
(* Mutators *)

\* A mutator finds reference r in a root or in the object that it holds.
RpFinds(t, r) == RpHolder[r] \in {RpNull, rpHeld[t]}

RpCall(t, r, pc) ==
    /\ rpPc[t] = "out" /\ rpLeft > 0 /\ RpFinds(t, r)
    /\ rpLeft' = rpLeft - 1
    /\ rpPc' = [rpPc EXCEPT ![t] = pc]
    /\ rpRef' = [rpRef EXCEPT ![t] = r]

\* Reference.get() begins with a read of the referent.
GetReferent(t, r) ==
    /\ RpRefs[r] /= "phantom"
    /\ RpCall(t, r, "test")
    /\ rpSeen' = [rpSeen EXCEPT ![t] = rpReferent[r]]
    /\ UNCHANGED <<rpHeap, rpQueues, rpColours, rpFlags, rpPhase, rpCursor, rpHeld, rpSlowly, rpTurns>>

RpReturn(t, o, slowly) ==
    /\ rpPc' = [rpPc EXCEPT ![t] = "out"]
    /\ rpHeld' = [rpHeld EXCEPT ![t] = o]
    /\ rpSlowly' = [rpSlowly EXCEPT ![t] = slowly]

\* The fast path, without a lock.
RpTest(t) ==
    /\ rpPc[t] = "test"
    /\ IF ~rpSlow \/ rpSeen[t] = RpNull
       THEN RpReturn(t, rpSeen[t], FALSE)
       ELSE rpPc' = [rpPc EXCEPT ![t] = "loop"] /\ UNCHANGED <<rpHeld, rpSlowly>>
    /\ UNCHANGED <<rpHeap, rpQueues, rpColours, rpFlags, rpPhase, rpCursor, rpRef, rpSeen, rpLeft,
                   rpTurns>>

\* Mutant of RpMayReturn: any marked referent, also while references are being preserved.
RpMayReturnMarked(r) == rpCallback /\ ~RpWhite(rpReferent[r])

\* Only black referents are given out while references are being preserved.
RpMayReturn(r) ==
    /\ rpCallback
    /\ ~RpWhite(rpReferent[r])
    /\ ~rpPreserving \/ (RpRefs[r] /= "finalizer" /\ ~RpEnqueued(r))

\* One turn of the loop under reference_processor_lock_.
RpLoop(t) ==
    LET r == rpRef[t]
    IN  /\ rpPc[t] = "loop"
        /\ IF ~rpSlow \/ rpReferent[r] = RpNull \/ RpMayReturn(r)
           THEN RpReturn(t, rpReferent[r], TRUE)
           ELSE rpPc' = [rpPc EXCEPT ![t] = "wait"] /\ UNCHANGED <<rpHeld, rpSlowly>>
        /\ UNCHANGED <<rpHeap, rpQueues, rpColours, rpFlags, rpPhase, rpCursor, rpRef, rpSeen,
                       rpLeft, rpTurns>>

\* FinalizerReference.enqueueSentinelReference, in Java: it moves the sentinel it holds from
\* referent to zombie and asks for MakeCircularListIfUnenqueued.
RpCallCircular(t, r) ==
    /\ RpRefs[r] = "finalizer"
    /\ rpHeld[t] /= RpNull /\ rpHeld[t] = rpReferent[r]
    /\ RpCall(t, r, "circular")
    /\ rpReferent' = [rpReferent EXCEPT ![r] = RpNull]
    /\ rpZombie' = [rpZombie EXCEPT ![r] = rpHeld[t]]
    /\ UNCHANGED <<rpFields, rpQueues, rpColours, rpFlags, rpPhase, rpCursor, rpSeen, rpHeld,
                   rpSlowly, rpTurns>>

MakeCircularListIfUnenqueued(t) ==
    LET r == rpRef[t]
    IN  /\ rpPc[t] = "circular"
        /\ IF rpSlow
           THEN rpPc' = [rpPc EXCEPT ![t] = "wait_circular"] /\ UNCHANGED rpNext
           ELSE /\ rpPc' = [rpPc EXCEPT ![t] = "out"]
                /\ rpNext' = IF RpEnqueued(r) THEN rpNext ELSE [rpNext EXCEPT ![r] = r]
        /\ UNCHANGED <<rpHeap, rpList, rpQueued, rpColours, rpFlags, rpPhase, rpCursor, rpRef,
                       rpSeen, rpHeld, rpSlowly, rpLeft, rpTurns>>

\* A mutator takes an object out of a field of the one it holds, drops what it holds, or
\* clears a reference.
RpTake(t, o) ==
    /\ rpPc[t] = "out" /\ rpHeld[t] /= RpNull /\ o \in rpFields[rpHeld[t]]
    /\ rpHeld' = [rpHeld EXCEPT ![t] = o]
    /\ rpFields' = [rpFields EXCEPT ![rpHeld[t]] = @ \ {o}]
    /\ UNCHANGED <<rpReferent, rpZombie, rpQueues, rpColours, rpFlags, rpPhase, rpCursor, rpPc,
                   rpRef, rpSeen, rpSlowly, rpLeft, rpTurns>>

RpDrop(t) ==
    /\ rpPc[t] = "out" /\ rpHeld[t] /= RpNull
    /\ rpHeld' = [rpHeld EXCEPT ![t] = RpNull]
    /\ UNCHANGED <<rpHeap, rpQueues, rpColours, rpFlags, rpPhase, rpCursor, rpPc, rpRef, rpSeen,
                   rpSlowly, rpLeft, rpTurns>>

RpClear(t, r) ==
    /\ rpPc[t] = "out" /\ rpLeft > 0 /\ RpFinds(t, r) /\ rpReferent[r] /= RpNull
    /\ rpLeft' = rpLeft - 1
    /\ rpReferent' = [rpReferent EXCEPT ![r] = RpNull]
    /\ UNCHANGED <<rpZombie, rpFields, rpQueues, rpColours, rpFlags, rpPhase, rpCursor, rpPc, rpRef,
                   rpSeen, rpHeld, rpSlowly, rpTurns>>

----------------------------------------------------------------------------

RpCollect ==
    \/ RpPause
    \/ \E clear \in BOOLEAN : RpSetArgs(clear)
    \/ StartPreservingReferences \/ RpForward \/ RpEnqueueFinalizer \/ RpProcessMarkStack
    \/ \E r \in RpAll : RpScanReference(r)
    \/ StopPreservingReferences
    \/ \E q \in RpKinds : ClearWhiteReferences(q)
    \/ RpClearedAll \/ DisableSlowPath \/ RpSweep \/ EnqueueClearedReferences

RpMutate(t) == RpTest(t) \/ RpLoop(t) \/ MakeCircularListIfUnenqueued(t)

RpNextStep ==
    \/ RpCollect \/ RpStartMarking
    \/ \E s \in SUBSET RpObjects : RpMark(s)
    \/ \E r \in RpAll : DelayReferenceReferent(r)
    \/ \E t \in RpThreads :
          \/ RpMutate(t) \/ RpDrop(t)
          \/ \E r \in RpAll : GetReferent(t, r) \/ RpCallCircular(t, r) \/ RpClear(t, r)
          \/ \E o \in RpObjects : RpTake(t, o)

RpSpec == RpInit /\ [][RpNextStep]_rpVars

----------------------------------------------------------------------------

\* What GetReferent gives out once it is on the slow path survives the collection, and so does
\* everything a mutator takes out of it, although the collector is reviving objects meanwhile.
RpSlowPathIsSafe ==
    \A t \in RpThreads : rpSlowly[t] => rpHeld[t] \notin rpSwept

\* Every queue is one cycle through pendingNext, of exactly the references put on it, although
\* references are scanned repeatedly, sentinels are made circular and elements move between
\* queues.
RpQueuesAreCycles ==
    \A q \in DOMAIN rpList :
        LET on == {r \in RpAll : rpQueued[r] = q}
            walk[i \in 0 .. Cardinality(RpAll)] ==
                IF i = 0 THEN rpList[q] ELSE
                IF walk[i - 1] = RpNull THEN RpNull ELSE rpNext[walk[i - 1]]
        IN  IF rpList[q] = RpNull THEN on = {}
            ELSE /\ {walk[i] : i \in 0 .. Cardinality(RpAll)} = on
                 /\ walk[Cardinality(on)] = rpList[q]

\* No reference is left with a referent, or a zombie for its finalizer, that has been swept:
\* ClearWhiteReferences sees every white referent, also of references that are found only in
\* what a soft reference keeps or a finalizer revives, and the queues lose no reference on the
\* way.
RpNoDanglingReference ==
    /\ RpQueuesAreCycles
    /\ \A r \in RpAll : rpReferent[r] \notin rpSwept /\ rpZombie[r] \notin rpSwept

\* GetReferent never gives out an object that the collection frees.
RpNoDanglingReferent == \A t \in RpThreads : rpHeld[t] \notin rpSwept

\* A thread in Reference.get() or in MakeCircularListIfUnenqueued.
RpPending(t) == rpPc[t] /= "out"
================================================================================
