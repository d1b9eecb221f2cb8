-------------------------- MODULE AllocationStacks --------------------------
(***************************************************************************)
(* The two object stacks of the heap and how a mark-sweep collector uses   *)
(* them: AtomicStack, Heap::PushOnAllocationStack with its slow path, the  *)
(* thread-local segments of the allocation stack, SwapStacks in the pause, *)
(* and the sweep of the live stack (sticky) or of the bitmaps (full).      *)
(* An object is known to the collector only through the live bitmap or one *)
(* of the stacks.  An address that was freed is allocated again.           *)
(*                                                                         *)
(* What happens in one step: a mutator holds mutator_lock_ shared from the *)
(* allocation to the end of the push, so a pause (SuspendAll) finds it     *)
(* outside a push or waiting for a collection; only the loads and the      *)
(* compare-and-swaps of back_index_ are steps that others can get between. *)
(***************************************************************************)
EXTENDS Integers, FiniteSets, Sequences

CONSTANTS
    AsThreads,      \* mutators
    AsDaemon,       \* the heap task daemon, which collects too
    AsObjects,      \* addresses of objects
    AsNull,         \* the null reference
    AsSegmentSize,  \* kThreadLocalAllocationStackSize
    AsGrowthLimit,  \* growth_limit_ of both stacks
    AsCapacity,     \* capacity_ of both stacks
    AsAllocations,  \* bound: allocations
    AsCollections   \* bound: collections that the daemon starts

ASSUME AsAssumption ==
    /\ AsDaemon \notin AsThreads /\ AsNull \notin AsObjects
    /\ IsFiniteSet(AsThreads)
    /\ AsSegmentSize \in Nat \ {0} /\ AsGrowthLimit \in Nat /\ AsCapacity \in Nat
    /\ AsSegmentSize < AsGrowthLimit
    /\ AsGrowthLimit + Cardinality(AsThreads) <= AsCapacity

VARIABLES
    asSlots,      \* begin_ of the two stacks
    asBack,       \* back_index_ of the two stacks
    asAlloc,      \* which of the two is allocation_stack_
    asLocal,      \* thread_local_alloc_stack_top and _end, and in which stack
    asPc,         \* where each mutator is
    asIndex,      \* the index it has read
    asObj,        \* the object it is about to push
    asRoots,      \* objects the program can still reach
    asHeap,       \* addresses allocated in the spaces
    asLive,       \* the live bitmaps
    asMarked,     \* the mark bitmaps of a full collection
    asGc,         \* the collection: its phase, who runs it, its kind
    asBadFree,    \* history: an address was freed that was not allocated
    asSkips,      \* history: collections skipped since the stacks were swapped
    asAborted,    \* the CHECK of the reserve push failed
    asLeft        \* allocations and collections left

asVars == <<asSlots, asBack, asAlloc, asLocal, asPc, asIndex, asObj, asRoots,
            asHeap, asLive, asMarked, asGc, asBadFree, asSkips, asAborted, asLeft>>

AsStacks == {0, 1}
AsIndexes == 0 .. AsCapacity - 1
AsOther(s) == 1 - s
AsLiveStack == AsOther(asAlloc)
AsEmpty == [i \in AsIndexes |-> AsNull]
AsNoSegment == [stack |-> 0, top |-> 0, end |-> 0]
AsNoGc == [phase |-> "none", by |-> AsDaemon, sticky |-> FALSE]

AsInit ==
    /\ asSlots = [s \in AsStacks |-> AsEmpty]
    /\ asBack = [s \in AsStacks |-> 0]
    /\ asAlloc = 0
    /\ asLocal = [t \in AsThreads |-> AsNoSegment]
    /\ asPc = [t \in AsThreads |-> "run"]
    /\ asIndex = [t \in AsThreads |-> 0]
    /\ asObj = [t \in AsThreads |-> AsNull]
    /\ asRoots = {} /\ asHeap = {} /\ asLive = {} /\ asMarked = {}
    /\ asGc = AsNoGc
    /\ asBadFree = FALSE /\ asSkips = 0 /\ asAborted = FALSE
    /\ asLeft = [allocations |-> AsAllocations, collections |-> AsCollections]

\* What begin_ .. back_index_ of a stack holds.
AsContents(s) ==
    {asSlots[s][i] : i \in 0 .. asBack[s] - 1} \ {AsNull}

AsGo(t, from, to) ==
    /\ ~asAborted
    /\ asPc[t] = from
    /\ asPc' = [asPc EXCEPT ![t] = to]

\* The objects whose push is not done yet.
AsInHand == {asObj[t] : t \in AsThreads} \ {AsNull}

AsGcVars == <<asLive, asMarked, asGc, asAlloc, asBadFree, asSkips>>

-----------------------------------------------------------------------------
(* Mutators. *)

\* The object is now referenced by its thread and not in the push any more.
AsPushed(t, obj) ==
    /\ asRoots' = asRoots \cup {obj}
    /\ asObj' = [asObj EXCEPT ![t] = AsNull]

\* AllocObjectWithAllocator takes an address from a space, and
\* PushOnThreadLocalAllocationStack is tried first.
AsAllocate(t, obj) ==
    /\ ~asAborted /\ asPc[t] = "run" /\ obj \notin asHeap
    /\ asLeft.allocations > 0
    /\ asLeft' = [asLeft EXCEPT !.allocations = @ - 1]
    /\ asHeap' = asHeap \cup {obj}
    /\ LET seg == asLocal[t]
       IN IF seg.top < seg.end
          THEN /\ asSlots' = [asSlots EXCEPT ![seg.stack][seg.top] = obj]
               /\ asLocal' = [asLocal EXCEPT ![t].top = @ + 1]
               /\ AsPushed(t, obj)
               /\ UNCHANGED asPc
          ELSE /\ asPc' = [asPc EXCEPT ![t] = "bump"]
               /\ asObj' = [asObj EXCEPT ![t] = obj]
               /\ UNCHANGED <<asSlots, asLocal, asRoots>>
    /\ UNCHANGED <<asBack, asIndex, asAborted, AsGcVars>>

\* AtomicBumpBack reads back_index_ and may find the stack full.
AsBumpLoad(t) ==
    /\ asIndex' = [asIndex EXCEPT ![t] = asBack[asAlloc]]
    /\ AsGo(t, "bump", IF asBack[asAlloc] + AsSegmentSize >= AsGrowthLimit
                       THEN "reserve" ELSE "bump_cas")
    /\ UNCHANGED <<asSlots, asBack, asLocal, asObj, asRoots, asHeap, asAborted,
                   asLeft, AsGcVars>>

\* The new segment, with the object in its first slot:
\* SetThreadLocalAllocationStack and the second PushOnThreadLocal.
AsTakeSegment(t) ==
    LET start == asIndex[t]
    IN /\ asBack' = [asBack EXCEPT ![asAlloc] = start + AsSegmentSize]
       /\ asLocal' = [asLocal EXCEPT
                        ![t] = [stack |-> asAlloc, top |-> start + 1,
                                end |-> start + AsSegmentSize]]
       /\ asSlots' = [asSlots EXCEPT ![asAlloc][start] = asObj[t]]
       /\ AsPushed(t, asObj[t])
       /\ asPc' = [asPc EXCEPT ![t] = "run"]

\* Mutant of AsBumpCas: a bump that stores the new index without comparing.
AsBumpStore(t) ==
    /\ ~asAborted /\ asPc[t] = "bump_cas"
    /\ AsTakeSegment(t)
    /\ UNCHANGED <<asIndex, asHeap, asAborted, asLeft, AsGcVars>>

\* CompareExchangeWeakRelaxed of the bump; it may also fail for no reason.
AsBumpCas(t) ==
    /\ ~asAborted /\ asPc[t] = "bump_cas"
    /\ \/ /\ asBack[asAlloc] = asIndex[t]
          /\ AsTakeSegment(t)
       \/ /\ asPc' = [asPc EXCEPT ![t] = "bump"]
          /\ UNCHANGED <<asBack, asLocal, asSlots, asRoots, asObj>>
    /\ UNCHANGED <<asIndex, asHeap, asAborted, asLeft, AsGcVars>>

\* Mutant of AsReserveLoad: AtomicPushBack, which stops at the growth limit.
AsReserveLoadLimited(t) ==
    /\ asIndex' = [asIndex EXCEPT ![t] = asBack[asAlloc]]
    /\ AsGo(t, "reserve", IF asBack[asAlloc] >= AsGrowthLimit
                          THEN "reserve" ELSE "reserve_cas")
    /\ asAborted' = (asBack[asAlloc] >= AsGrowthLimit)
    /\ UNCHANGED <<asSlots, asBack, asLocal, asObj, asRoots, asHeap, asLeft,
                   AsGcVars>>

\* AtomicPushBackIgnoreGrowthLimit: CHECK that the reserve is not full.
AsReserveLoad(t) ==
    /\ asIndex' = [asIndex EXCEPT ![t] = asBack[asAlloc]]
    /\ AsGo(t, "reserve", IF asBack[asAlloc] >= AsCapacity
                          THEN "reserve" ELSE "reserve_cas")
    /\ asAborted' = (asBack[asAlloc] >= AsCapacity)
    /\ UNCHANGED <<asSlots, asBack, asLocal, asObj, asRoots, asHeap, asLeft,
                   AsGcVars>>

\* Once pushed, the thread calls CollectGarbageInternal.
AsReserveCas(t) ==
    /\ ~asAborted /\ asPc[t] = "reserve_cas"
    /\ \/ /\ asBack[asAlloc] = asIndex[t]
          /\ asBack' = [asBack EXCEPT ![asAlloc] = @ + 1]
          /\ asSlots' = [asSlots EXCEPT ![asAlloc][asIndex[t]] = asObj[t]]
          /\ asPc' = [asPc EXCEPT ![t] = "collect"]
       \/ /\ asPc' = [asPc EXCEPT ![t] = "reserve"]
          /\ UNCHANGED <<asBack, asSlots>>
    /\ UNCHANGED <<asLocal, asIndex, asObj, asRoots, asHeap, asAborted, asLeft,
                   AsGcVars>>

\* CollectGarbageInternal returns kGcTypeNone: the thread is handling a stack
\* overflow, or the collector moves objects and that is disabled.  The loop
\* tries the bump again, and will push the object again.
AsSkipGc(t) ==
    /\ asGc.phase = "none" \/ asGc.by # t
    /\ AsGo(t, "collect", "bump")
    /\ asSkips' = asSkips + 1
    /\ UNCHANGED <<asSlots, asBack, asLocal, asIndex, asObj, asRoots, asHeap,
                   asAborted, asLeft, asLive, asMarked, asGc, asAlloc, asBadFree>>

\* The program drops its last reference to an object.
AsDrop(obj) ==
    /\ ~asAborted /\ obj \in asRoots
    /\ asRoots' = asRoots \ {obj}
    /\ UNCHANGED <<asSlots, asBack, asLocal, asPc, asIndex, asObj, asHeap,
                   asAborted, asLeft, AsGcVars>>

-----------------------------------------------------------------------------
(* The collector. *)

AsMutatorVars == <<asPc, asIndex, asObj, asRoots, asAborted>>

\* CollectGarbageInternal waits for a running collection, then MarkingPhase:
\* BindBitmaps, and a first, concurrent marking of the roots.  The mark bitmap
\* of a sticky collection is the live bitmap.
AsStartGc(by, sticky) ==
    /\ ~asAborted /\ asGc.phase = "none"
    /\ IF by = AsDaemon
       THEN /\ asLeft.collections > 0
            /\ asLeft' = [asLeft EXCEPT !.collections = @ - 1]
       ELSE asPc[by] = "collect" /\ sticky /\ UNCHANGED asLeft
    /\ asGc' = [phase |-> "marking", by |-> by, sticky |-> sticky]
    /\ IF sticky
       THEN asLive' = asLive \cup asRoots /\ UNCHANGED asMarked
       ELSE asMarked' = asRoots /\ UNCHANGED asLive
    /\ UNCHANGED <<asSlots, asBack, asAlloc, asLocal, asHeap, asBadFree, asSkips,
                   AsMutatorVars>>

\* Mutant of AsReachable: an object that is being pushed is not a root.
AsReachableRoots == asRoots

\* What the pause finds: roots, and the objects of waiting allocations, which
\* a HandleWrapper keeps.
AsReachable == asRoots \cup AsInHand

\* Mutant of AsRevokeAll: the swap alone.
AsRevokeNone == UNCHANGED asLocal

\* RevokeAllThreadLocalAllocationStacks
AsRevokeAll == asLocal' = [t \in AsThreads |-> AsNoSegment]

\* PausePhase, all mutators suspended: ReMarkRoots, SwapStacks, revoke.
AsPause ==
    /\ ~asAborted /\ asGc.phase = "marking"
    /\ \A t \in AsThreads : asPc[t] \in {"run", "collect"}
    /\ IF asGc.sticky
       THEN asLive' = asLive \cup AsReachable /\ UNCHANGED asMarked
       ELSE asMarked' = asMarked \cup AsReachable /\ UNCHANGED asLive
    /\ asAlloc' = AsLiveStack
    /\ AsRevokeAll
    /\ asSkips' = 0
    /\ asGc' = [asGc EXCEPT !.phase = IF asGc.sticky THEN "sweep_array"
                                                     ELSE "mark_live"]
    /\ UNCHANGED <<asSlots, asBack, asHeap, asBadFree, asLeft, AsMutatorVars>>

\* Reset: back_index_ = 0 and the memory is zero again.
AsReset(s) ==
    /\ asBack' = [asBack EXCEPT ![s] = 0]
    /\ asSlots' = [asSlots EXCEPT ![s] = AsEmpty]

\* FreeList of a space, with an array of addresses that is not to name one
\* twice: the addresses can be allocated again.
AsFree(ptrs) ==
    LET objs == {ptrs[i] : i \in DOMAIN ptrs}
        twice == \E i, j \in DOMAIN ptrs : i # j /\ ptrs[i] = ptrs[j]
    IN /\ asHeap' = asHeap \ objs
       /\ asBadFree' = (asBadFree \/ twice \/ ~ objs \subseteq asHeap)

\* The entries of the live stack whose object is not marked.
AsGarbageEntries ==
    {i \in 0 .. asBack[AsLiveStack] - 1 :
        asSlots[AsLiveStack][i] \notin asLive \cup {AsNull}}

\* SweepArray of the live stack: what is not marked is freed.
AsSweepArray ==
    /\ ~asAborted /\ asGc.phase = "sweep_array"
    /\ AsFree([i \in AsGarbageEntries |-> asSlots[AsLiveStack][i]])
    /\ asGc' = [asGc EXCEPT !.phase = "reset"]
    /\ UNCHANGED <<asSlots, asBack, asAlloc, asLocal, asLive, asMarked, asLeft,
                   asSkips, AsMutatorVars>>

\* The thread that had no room tries again after its own collection.
AsFinish ==
    /\ asGc' = AsNoGc
    /\ asPc' = IF asGc.by = AsDaemon THEN asPc
               ELSE [asPc EXCEPT ![asGc.by] = "bump"]

\* The end of SweepArray.
AsSweepArrayReset ==
    /\ ~asAborted /\ asGc.phase = "reset"
    /\ AsReset(AsLiveStack)
    /\ AsFinish
    /\ UNCHANGED <<asAlloc, asLocal, asLive, asMarked, asHeap, asBadFree,
                   asLeft, asIndex, asObj, asRoots, asSkips, asAborted>>

\* Sweep of a full collection: MarkAllocStackAsLive and Reset.
AsMarkAllocStackAsLive ==
    /\ ~asAborted /\ asGc.phase = "mark_live"
    /\ asLive' = asLive \cup AsContents(AsLiveStack)
    /\ AsReset(AsLiveStack)
    /\ asGc' = [asGc EXCEPT !.phase = "sweep"]
    /\ UNCHANGED <<asAlloc, asLocal, asMarked, asHeap, asBadFree, asLeft, asSkips,
                   AsMutatorVars>>

\* The spaces are swept: SweepWalk finds each address that is live and not
\* marked once.
AsSweep ==
    /\ ~asAborted /\ asGc.phase = "sweep"
    /\ AsFree([obj \in asLive \ asMarked |-> obj])
    /\ asGc' = [asGc EXCEPT !.phase = "swap_bitmaps"]
    /\ UNCHANGED <<asSlots, asBack, asAlloc, asLocal, asLive, asMarked, asLeft,
                   asSkips, AsMutatorVars>>

\* SwapBitmaps, and FinishPhase clears the mark bitmaps.
AsSwapBitmaps ==
    /\ ~asAborted /\ asGc.phase = "swap_bitmaps"
    /\ asLive' = asMarked /\ asMarked' = {}
    /\ AsFinish
    /\ UNCHANGED <<asSlots, asBack, asAlloc, asLocal, asHeap, asBadFree, asLeft,
                   asIndex, asObj, asRoots, asSkips, asAborted>>

AsNext ==
    \/ \E t \in AsThreads :
          \/ \E obj \in AsObjects : AsAllocate(t, obj)
          \/ AsBumpLoad(t) \/ AsBumpCas(t)
          \/ AsReserveLoad(t) \/ AsReserveCas(t) \/ AsSkipGc(t)
    \/ \E obj \in AsObjects : AsDrop(obj)
    \/ \E by \in AsThreads \cup {AsDaemon}, sticky \in BOOLEAN :
          AsStartGc(by, sticky)
    \/ AsPause \/ AsSweepArray \/ AsSweepArrayReset
    \/ AsMarkAllocStackAsLive \/ AsSweep \/ AsSwapBitmaps

AsSpec == AsInit /\ [][AsNext]_asVars

-----------------------------------------------------------------------------

\* The rest of a thread-local segment is its own, empty and in the present
\* allocation stack (the DCHECKs of AtomicBumpBack, "Sanity check that the
\* memory is zero", and of PushOnThreadLocalAllocationStack).
AsSegmentsAreFresh ==
    \A t \in AsThreads :
        LET seg == asLocal[t]
            rest == seg.top .. seg.end - 1
        IN rest # {} =>
             /\ seg.stack = asAlloc
             /\ seg.end <= asBack[asAlloc]
             /\ \A i \in rest : asSlots[asAlloc][i] = AsNull
             /\ \A u \in AsThreads \ {t} :
                   (asLocal[u].top .. asLocal[u].end - 1) \cap rest = {}

\* No object is forgotten: whatever is allocated is in the live bitmap, on one
\* of the two stacks, or still in the hand of the thread that allocated it.
\* An object in none of them would never be freed and heap verification would
\* call its references invalid; an entry overwritten by another thread, or put
\* into a stack that is then reset, is the way to get there.  The reserve gives
\* each mutator one slot, also when its collection is overtaken by others and
\* it pushes the same object again and again, and loses one more only to each
\* collection that CollectGarbageInternal skips: the CHECK on the push does
\* fail, but not before the skips since the last swap of the stacks have used
\* up what the mutators leave of the reserve.
AsNothingForgotten ==
    /\ asAborted =>
          asSkips > AsCapacity - AsGrowthLimit - Cardinality(AsThreads)
    /\ AsSegmentsAreFresh
    /\ asHeap \subseteq
          asLive \cup AsContents(0) \cup AsContents(1) \cup AsInHand

\* Only garbage is freed, and once: no address a thread still uses leaves the
\* heap, also when it was freed by an earlier sweep and allocated again while
\* an older entry or mark for the same address was still around; and no sweep
\* frees an address twice although a thread whose collections are skipped
\* enters its object into the stack several times.
AsOnlyGarbageIsFreed ==
    ~asBadFree /\ asRoots \cup AsInHand \subseteq asHeap
=============================================================================
