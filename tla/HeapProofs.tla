------------------------------ MODULE HeapProofs ------------------------------
(***************************************************************************)
(* Proofs about the allocation stacks (AllocationStacks), the tables of    *)
(* local references (IndirectReferences) and the transactions of the image *)
(* compiler (Transaction), for any number of threads, objects, entries,    *)
(* frames, serials, strings, calls and collections.                        *)
(***************************************************************************)
EXTENDS AllocationStacks, IndirectReferences, Transaction, FiniteSetTheorems,
        SequenceTheorems, WellFoundedInduction, TLAPS

----------------------------------------------------------------------------
(* The allocation stacks. *)

\* Where a thread can be in Heap::PushOnAllocationStack.
AsPcs == {"run", "bump", "bump_cas", "reserve", "reserve_cas", "collect"}

AsPhases == {"none", "marking", "sweep_array", "reset", "mark_live", "sweep", "swap_bitmaps"}

AsTypeInv ==
    /\ asSlots \in [AsStacks -> [AsIndexes -> AsObjects \union {AsNull}]]
    /\ asBack \in [AsStacks -> 0 .. AsCapacity]
    /\ asAlloc \in AsStacks
    /\ asLocal \in [AsThreads -> [stack : AsStacks, top : Nat, end : Nat]]
    /\ asPc \in [AsThreads -> AsPcs]
    /\ asIndex \in [AsThreads -> Nat]
    /\ asObj \in [AsThreads -> AsObjects \union {AsNull}]
    /\ asRoots \in SUBSET AsObjects /\ asHeap \in SUBSET AsObjects
    /\ asLive \in SUBSET AsObjects /\ asMarked \in SUBSET AsObjects
    /\ asGc \in [phase : AsPhases, by : AsThreads \union {AsDaemon}, sticky : BOOLEAN]
    /\ asSkips \in Nat

\* A thread has an object in hand exactly while it pushes it; what it has read of the stack was
\* tested; who collects because its push found no room waits for that collection.
AsPlaces ==
    /\ \A t \in AsThreads :
          /\ asPc[t] = "run" <=> asObj[t] = AsNull
          /\ asPc[t] = "bump_cas" => asIndex[t] + AsSegmentSize < AsGrowthLimit
          /\ asPc[t] = "reserve_cas" => asIndex[t] < AsCapacity
    /\ asGc.phase # "none" /\ asGc.by # AsDaemon => asPc[asGc.by] = "collect"
    /\ asGc.phase \in {"sweep_array", "reset"} => asGc.sticky
    /\ asGc.phase \in {"mark_live", "sweep", "swap_bitmaps"} => ~asGc.sticky

\* The slots above back_index_ are zero, and the live stack is empty from its reset to the pause.
AsStacksClean ==
    /\ \A s \in AsStacks : \A i \in AsIndexes : i >= asBack[s] => asSlots[s][i] = AsNull
    /\ asGc.phase \in {"none", "marking", "sweep", "swap_bitmaps"} => asBack[AsLiveStack] = 0

\* The threads that may have used their slot of the reserve since the stacks were swapped: one
\* whose own collection has swapped them has not.
AsReserved ==
    {t \in AsThreads : /\ asPc[t] = "collect"
                       /\ asGc.phase \in {"none", "marking"} \/ asGc.by # t}

\* The reserve has given a slot to each of them, and one to each collection that was skipped.
AsReserveBound == asBack[asAlloc] <= AsGrowthLimit + Cardinality(AsReserved) + asSkips

\* The CHECK on the push into the reserve fails only when skips have used up the rest of it.
AsAbortInv == asAborted => asSkips > AsCapacity - AsGrowthLimit - Cardinality(AsThreads)

AsA == AsContents(asAlloc)
AsL == AsContents(AsLiveStack)

\* What the collector knows of, and will know of when it is done.
AsKnown ==
    CASE asGc.phase = "reset" -> asLive \union AsA
      [] asGc.phase = "swap_bitmaps" -> asMarked \union AsA
      [] OTHER -> asLive \union AsA \union AsL

AsInUse == asRoots \union AsInHand \union AsA

AsKnowledge ==
    /\ asHeap \subseteq AsKnown \union AsInHand
    /\ asRoots \subseteq AsKnown
    /\ \A t \in AsThreads : asPc[t] = "collect" => asObj[t] \in AsKnown
    /\ asMarked \subseteq asLive \union AsA \union AsL
    /\ asGc.phase = "none" \/ asGc.sticky => asMarked = {}

\* What is freed later is allocated, and nobody uses it.
AsSafety ==
    /\ ~asBadFree
    /\ AsInUse \subseteq asHeap /\ asMarked \subseteq asHeap
    /\ asGc.phase # "swap_bitmaps" => asLive \subseteq asHeap
    /\ asGc.phase # "reset" => AsL \subseteq asHeap
    /\ asGc.phase = "sweep_array" => AsL \intersect AsInUse \subseteq asLive
    /\ asGc.phase \in {"mark_live", "sweep"} => (asLive \union AsL) \intersect AsInUse \subseteq asMarked

AsInv ==
    /\ AsAbortInv
    /\ AsTypeInv /\ AsPlaces /\ AsStacksClean /\ AsSegmentsAreFresh /\ AsReserveBound
    /\ AsKnowledge /\ AsSafety

\* An object has an entry in the allocation stack.
AsEntered(x) == \E i \in AsIndexes : asSlots[asAlloc][i] = x

\* What is needed besides, so that no sweep frees an address twice: two entries of the allocation
\* stack name the same object only while a thread has it in hand, because that thread finds no
\* room for a segment before the stacks are swapped; and then the pause has marked it.
AsOnce ==
    /\ \A t, u \in AsThreads : asObj[t] = asObj[u] /\ asObj[t] # AsNull => t = u
    /\ \A t \in AsThreads :
          asPc[t] \in {"reserve", "reserve_cas"} \/ (asObj[t] # AsNull /\ AsEntered(asObj[t])) =>
              asBack[asAlloc] + AsSegmentSize >= AsGrowthLimit
    /\ \A i, j \in AsIndexes :
          i # j /\ asSlots[asAlloc][i] = asSlots[asAlloc][j] => asSlots[asAlloc][i] \in AsInHand \union {AsNull}
    /\ asGc.phase = "sweep_array" =>
          \A i, j \in AsIndexes :
              i # j /\ asSlots[AsLiveStack][i] = asSlots[AsLiveStack][j] =>
                  asSlots[AsLiveStack][i] \in asLive \union {AsNull}

\* What a stack holds, and what is in somebody's hand.
LEMMA AsContentsIs ==
  ASSUME AsTypeInv, NEW s \in AsStacks
  PROVE  \A x : x \in AsContents(s) <=>
            x # AsNull /\ \E i \in AsIndexes : i < asBack[s] /\ asSlots[s][i] = x
  BY AsAssumption DEF AsTypeInv, AsContents, AsIndexes

\* The objects that threads have in hand.
LEMMA AsInHandIs == \A x : x \in AsInHand <=> x # AsNull /\ \E t \in AsThreads : asObj[t] = x
  BY DEF AsInHand

\* The reserve bound keeps the reserve from overflowing.
LEMMA AsReservedFinite ==
  ASSUME NEW S \in SUBSET AsThreads
  PROVE  /\ IsFiniteSet(S) /\ Cardinality(S) \in Nat /\ Cardinality(AsThreads) \in Nat
         /\ Cardinality(S) <= Cardinality(AsThreads)
         /\ \A t \in AsThreads \ S : /\ Cardinality(S) < Cardinality(AsThreads)
                                     /\ Cardinality(S \union {t}) = Cardinality(S) + 1
<1>1. IsFiniteSet(S) /\ Cardinality(S) \in Nat /\ Cardinality(AsThreads) \in Nat /\ Cardinality(S) <= Cardinality(AsThreads)
  BY AsAssumption, FS_Subset, FS_CardinalityType
<1>2. ASSUME NEW t \in AsThreads \ S
      PROVE  Cardinality(S) < Cardinality(AsThreads) /\ Cardinality(S \union {t}) = Cardinality(S) + 1
  <2>1. Cardinality(S \union {t}) = Cardinality(S) + 1
    BY <1>1, FS_AddElement
  <2>2. S \union {t} \in SUBSET AsThreads
    OBVIOUS
  <2>3. Cardinality(S \union {t}) <= Cardinality(AsThreads)
    BY <2>2, AsAssumption, FS_Subset
  <2> QED BY <1>1, <2>1, <2>3
<1> QED BY <1>1, <1>2

\* Nothing is allocated yet.
LEMMA AsInvInit == AsInit => AsInv
<1> SUFFICES ASSUME AsInit PROVE AsInv
  OBVIOUS
<1>1. AsTypeInv
  BY AsAssumption DEF AsInit, AsTypeInv, AsStacks, AsIndexes, AsEmpty, AsNoSegment, AsPcs, AsNoGc, AsPhases
<1>2. AsPlaces
  BY AsAssumption DEF AsInit, AsPlaces, AsNoGc
<1>3. AsStacksClean
  BY DEF AsInit, AsStacksClean, AsStacks, AsIndexes, AsEmpty, AsLiveStack, AsOther
<1>4. AsSegmentsAreFresh
  BY DEF AsInit, AsSegmentsAreFresh, AsNoSegment
<1>5. AsReserveBound
  <2>1. asBack[asAlloc] = 0
    BY DEF AsInit, AsStacks
  <2>2. Cardinality(AsReserved) \in Nat
    BY AsReservedFinite DEF AsReserved
  <2> QED BY <2>1, <2>2, AsAssumption DEF AsReserveBound, AsInit
<1>6. AsA = {} /\ AsL = {} /\ AsInHand = {}
  <2>1. asAlloc \in AsStacks /\ AsLiveStack \in AsStacks /\ \A s \in AsStacks : asBack[s] = 0
    BY DEF AsInit, AsStacks, AsLiveStack, AsOther
  <2>2. \A s \in AsStacks : AsContents(s) = {}
    BY <1>1, <2>1, AsContentsIs DEF AsIndexes
  <2>3. AsInHand = {}
    BY AsInHandIs DEF AsInit
  <2> QED BY <2>1, <2>2, <2>3 DEF AsA, AsL
<1>7. AsKnowledge /\ AsSafety
  BY <1>6 DEF AsInit, AsKnowledge, AsSafety, AsInUse, AsNoGc
<1> QED BY <1>1, <1>2, <1>3, <1>4, <1>5, <1>7 DEF AsInit, AsInv, AsAbortInv

\* The stacks are empty.
LEMMA AsOnceInit == AsInit => AsOnce
  BY AsAssumption DEF AsInit, AsOnce, AsEntered, AsEmpty, AsStacks, AsIndexes, AsLiveStack, AsOther, AsNoGc

\* A step that leaves the two stacks alone.
LEMMA AsStackFrame ==
  ASSUME UNCHANGED <<asSlots, asBack, asAlloc>>
  PROVE  AsA' = AsA /\ AsL' = AsL
  BY DEF AsA, AsL, AsContents, AsLiveStack, AsOther

\* An object comes into a free slot of the allocation stack.
LEMMA AsStackPush ==
  ASSUME AsTypeInv, AsTypeInv', NEW obj \in AsObjects, NEW i \in AsIndexes,
         asSlots[asAlloc][i] = AsNull,
         \A j \in AsIndexes : j >= asBack[asAlloc] => asSlots[asAlloc][j] = AsNull,
         asSlots' = [asSlots EXCEPT ![asAlloc][i] = obj],
         UNCHANGED asAlloc,
         i < asBack'[asAlloc], asBack'[asAlloc] >= asBack[asAlloc],
         asBack'[AsLiveStack] = asBack[AsLiveStack]
  PROVE  AsA' = AsA \union {obj} /\ AsL' = AsL
<1>1. asAlloc \in AsStacks /\ AsLiveStack \in AsStacks /\ AsLiveStack # asAlloc /\ AsLiveStack' = AsLiveStack
  BY DEF AsTypeInv, AsStacks, AsLiveStack, AsOther
<1>2. /\ asSlots'[AsLiveStack] = asSlots[AsLiveStack]
      /\ \A j \in AsIndexes : asSlots'[asAlloc][j] = IF j = i THEN obj ELSE asSlots[asAlloc][j]
  BY <1>1 DEF AsTypeInv
<1>3. \A x : x \in AsA' <=> x # AsNull /\ \E j \in AsIndexes : j < asBack'[asAlloc] /\ asSlots'[asAlloc][j] = x
  <2>1. \A x : x \in AsContents(asAlloc)' <=> x # AsNull /\ \E j \in AsIndexes : j < asBack'[asAlloc] /\ asSlots'[asAlloc][j] = x
    <3>1. AsContents(asAlloc)' = {asSlots'[asAlloc][j] : j \in 0 .. asBack'[asAlloc] - 1} \ {AsNull}
      BY DEF AsContents
    <3>2. asBack'[asAlloc] \in 0 .. AsCapacity
      BY <1>1 DEF AsTypeInv
    <3> QED BY <3>1, <3>2, AsAssumption DEF AsIndexes
  <2> QED BY <2>1 DEF AsA
<1>4. \A x : x \in AsA <=> x # AsNull /\ \E j \in AsIndexes : j < asBack[asAlloc] /\ asSlots[asAlloc][j] = x
  BY <1>1, AsContentsIs DEF AsA
<1>5. AsA' = AsA \union {obj}
  <2>0. obj # AsNull /\ asBack[asAlloc] \in Int /\ asBack'[asAlloc] \in Int
    BY <1>1, AsAssumption DEF AsTypeInv
  <2>1. ASSUME NEW x \in AsA' PROVE x \in AsA \union {obj}
    <3>1. PICK j \in AsIndexes : j < asBack'[asAlloc] /\ asSlots'[asAlloc][j] = x
      BY <1>3, <2>1
    <3>2. CASE j = i
      BY <3>1, <3>2, <1>2
    <3>3. CASE j # i
      <4>1. asSlots[asAlloc][j] = x /\ x # AsNull
        BY <3>1, <3>3, <1>2, <1>3, <2>1
      <4>2. j < asBack[asAlloc]
        BY <4>1, <2>0 DEF AsIndexes
      <4> QED BY <4>1, <4>2, <1>4
    <3> QED BY <3>2, <3>3
  <2>2. obj \in AsA'
    BY <1>2, <1>3, <2>0
  <2>3. ASSUME NEW x \in AsA PROVE x \in AsA'
    <3>1. PICK j \in AsIndexes : j < asBack[asAlloc] /\ asSlots[asAlloc][j] = x
      BY <1>4, <2>3
    <3>2. j # i /\ x # AsNull
      BY <3>1, <1>4, <2>3
    <3>3. j < asBack'[asAlloc] /\ asSlots'[asAlloc][j] = x
      BY <3>1, <3>2, <1>2, <2>0 DEF AsIndexes
    <3> QED BY <3>2, <3>3, <1>3
  <2> QED BY <2>1, <2>2, <2>3
<1>6. AsL' = AsL
  BY <1>1, <1>2 DEF AsL, AsContents
<1> QED BY <1>5, <1>6

\* The live stack is reset.
LEMMA AsStackReset ==
  ASSUME AsTypeInv, AsReset(AsLiveStack), UNCHANGED asAlloc
  PROVE  AsA' = AsA /\ AsL' = {}
<1>1. asAlloc \in AsStacks /\ AsLiveStack \in AsStacks /\ AsLiveStack # asAlloc /\ AsLiveStack' = AsLiveStack
  BY DEF AsTypeInv, AsStacks, AsLiveStack, AsOther
<1>2. /\ asBack'[AsLiveStack] = 0 /\ asBack'[asAlloc] = asBack[asAlloc]
      /\ asSlots'[asAlloc] = asSlots[asAlloc]
  BY <1>1 DEF AsTypeInv, AsReset
<1>3. AsContents(asAlloc)' = AsContents(asAlloc)
  BY <1>2 DEF AsContents
<1>4. AsContents(AsLiveStack)' = {}
  BY <1>1, <1>2 DEF AsContents
<1> QED BY <1>3, <1>4 DEF AsA, AsL

\* What a mutator's step does to the collector's knowledge: it uses no object that it has not
\* just allocated or used before, and the collector learns of what it puts down.
LEMMA AsMutatorSets ==
  ASSUME AsInv, UNCHANGED <<asGc, asLive, asMarked, asBadFree>>,
         AsL' = AsL, AsA \subseteq AsA', asHeap \subseteq asHeap',
         \A x \in AsInUse' : x \in AsInUse \/ x \notin asHeap,
         AsInUse' \subseteq asHeap',
         asHeap' \subseteq asHeap \union AsA' \union AsInHand',
         AsInHand \subseteq AsInHand' \union AsA',
         asRoots' \subseteq asRoots \union AsA',
         \A t \in AsThreads : asPc'[t] = "collect" =>
            asObj'[t] \in AsA' \/ (asPc[t] = "collect" /\ asObj'[t] = asObj[t])
  PROVE  AsKnowledge' /\ AsSafety'
<1>1. AsKnowledge /\ AsSafety
  BY DEF AsInv
<1>2. AsKnown \subseteq AsKnown' /\ AsA' \subseteq AsKnown'
  <2>1. CASE asGc.phase = "reset"
    BY <2>1 DEF AsKnown
  <2>2. CASE asGc.phase = "swap_bitmaps"
    BY <2>2 DEF AsKnown
  <2>3. CASE asGc.phase \notin {"reset", "swap_bitmaps"}
    BY <2>3 DEF AsKnown
  <2> QED BY <2>1, <2>2, <2>3
<1> HIDE DEF AsKnown
<1>3. AsKnowledge'
  <2>1. asHeap' \subseteq AsKnown' \union AsInHand'
    BY <1>1, <1>2 DEF AsKnowledge
  <2>2. asRoots' \subseteq AsKnown'
    BY <1>1, <1>2 DEF AsKnowledge
  <2>3. \A t \in AsThreads : asPc'[t] = "collect" => asObj'[t] \in AsKnown'
    BY <1>1, <1>2 DEF AsKnowledge
  <2>4. asMarked' \subseteq asLive' \union AsA' \union AsL'
    BY <1>1 DEF AsKnowledge
  <2>5. asGc'.phase = "none" \/ asGc'.sticky => asMarked' = {}
    BY <1>1 DEF AsKnowledge
  <2> QED BY <2>1, <2>2, <2>3, <2>4, <2>5 DEF AsKnowledge
<1>4. AsSafety'
  <2>1. asGc.phase # "swap_bitmaps" => asLive \subseteq asHeap
    BY <1>1 DEF AsSafety
  <2>2. asGc.phase # "reset" => AsL \subseteq asHeap
    BY <1>1 DEF AsSafety
  <2>3. asGc.phase = "sweep_array" => AsL \intersect AsInUse' \subseteq asLive
    BY <1>1, <2>2 DEF AsSafety
  <2>4. asGc.phase \in {"mark_live", "sweep"} => (asLive \union AsL) \intersect AsInUse' \subseteq asMarked
    BY <1>1, <2>1, <2>2 DEF AsSafety
  <2>5. asMarked \subseteq asHeap /\ ~asBadFree
    BY <1>1 DEF AsSafety
  <2> QED BY <2>1, <2>2, <2>3, <2>4, <2>5 DEF AsSafety
<1> QED BY <1>3, <1>4

\* The threads that may have used the reserve do not change with the steps of a push in progress.
LEMMA AsReserveFrame ==
  ASSUME AsInv, AsTypeInv', UNCHANGED <<asGc, asAlloc, asSkips>>, asBack'[asAlloc] = asBack[asAlloc],
         \A t \in AsThreads : asPc[t] = "collect" => asPc'[t] = "collect"
  PROVE  AsReserveBound'
<1>1. AsReserved \in SUBSET AsReserved' /\ AsReserved' \in SUBSET AsThreads
  BY DEF AsReserved
<1>2. Cardinality(AsReserved) <= Cardinality(AsReserved') /\ Cardinality(AsReserved) \in Nat /\ Cardinality(AsReserved') \in Nat
  <2>1. IsFiniteSet(AsReserved')
    BY <1>1, AsReservedFinite
  <2> QED BY <1>1, <2>1, FS_Subset, FS_CardinalityType
<1>3. asBack[asAlloc] \in Nat /\ asSkips \in Nat
  BY AsAssumption DEF AsInv, AsTypeInv
<1> QED BY <1>2, <1>3, AsAssumption DEF AsInv, AsReserveBound

\* The loads, and the compare-and-swaps that fail.
LEMMA AsLoadKeeps ==
  ASSUME AsInv, NEW t \in AsThreads, NEW pc \in {"bump", "bump_cas", "reserve", "reserve_cas"},
         asPc[t] \in {"bump", "bump_cas", "reserve", "reserve_cas"},
         asPc' = [asPc EXCEPT ![t] = pc],
         asIndex' \in [AsThreads -> Nat],
         \A u \in AsThreads \ {t} : asIndex'[u] = asIndex[u],
         pc = "bump_cas" => asIndex'[t] + AsSegmentSize < AsGrowthLimit,
         pc = "reserve_cas" => asIndex'[t] < AsCapacity,
         AsAbortInv',
         UNCHANGED <<asSlots, asBack, asLocal, asObj, asRoots, asHeap, asLive, asMarked, asGc, asAlloc, asBadFree, asSkips>>
  PROVE  AsInv'
<1>1. AsTypeInv'
  BY DEF AsInv, AsTypeInv, AsPcs
<1>2. asPc'[t] = pc /\ \A u \in AsThreads \ {t} : asPc'[u] = asPc[u]
  BY DEF AsInv, AsTypeInv
<1>3. AsPlaces'
  BY <1>2 DEF AsInv, AsTypeInv, AsPlaces
<1>4. AsStacksClean' /\ AsSegmentsAreFresh'
  BY DEF AsInv, AsStacksClean, AsSegmentsAreFresh, AsLiveStack, AsOther
<1>5. AsReserveBound'
  BY <1>1, <1>2, AsReserveFrame
<1>6. AsA' = AsA /\ AsL' = AsL /\ AsInHand' = AsInHand
  BY AsStackFrame DEF AsInHand
<1>7. AsInUse' = AsInUse
  BY <1>6 DEF AsInUse
<1>8. AsKnowledge' /\ AsSafety'
  <2>1. AsInUse \subseteq asHeap
    BY DEF AsInv, AsSafety
  <2>2. \A u \in AsThreads : asPc'[u] = "collect" => asPc[u] = "collect" /\ asObj'[u] = asObj[u]
    BY <1>2
  <2> QED BY <1>6, <1>7, <2>1, <2>2, AsMutatorSets
<1> QED BY <1>1, <1>3, <1>4, <1>5, <1>8 DEF AsInv, AsAbortInv

\* An allocation that finds no room in the thread's segment.
LEMMA AsAllocateSlowKeeps ==
  ASSUME AsInv, NEW t \in AsThreads, NEW obj \in AsObjects, AsAllocate(t, obj),
         ~(asLocal[t].top < asLocal[t].end)
  PROVE  AsInv'
<1>1. /\ asPc[t] = "run" /\ obj \notin asHeap /\ ~asAborted /\ asHeap' = asHeap \union {obj}
      /\ asPc' = [asPc EXCEPT ![t] = "bump"] /\ asObj' = [asObj EXCEPT ![t] = obj]
      /\ UNCHANGED <<asSlots, asLocal, asRoots, asBack, asIndex, asSkips, asAborted, asLive, asMarked, asGc, asAlloc, asBadFree>>
  BY DEF AsAllocate, AsGcVars
<1>2. AsTypeInv'
  BY <1>1 DEF AsInv, AsTypeInv, AsPcs
<1>3. /\ asPc'[t] = "bump" /\ asObj'[t] = obj /\ obj # AsNull /\ asObj[t] = AsNull
      /\ \A u \in AsThreads \ {t} : asPc'[u] = asPc[u] /\ asObj'[u] = asObj[u]
  BY <1>1, AsAssumption DEF AsInv, AsTypeInv, AsPlaces
<1>4. AsPlaces'
  BY <1>1, <1>3 DEF AsInv, AsTypeInv, AsPlaces
<1>5. AsStacksClean' /\ AsSegmentsAreFresh'
  BY <1>1 DEF AsInv, AsStacksClean, AsSegmentsAreFresh, AsLiveStack, AsOther
<1>6. AsReserveBound'
  BY <1>1, <1>2, <1>3, AsReserveFrame
<1>7. AsA' = AsA /\ AsL' = AsL
  BY <1>1, AsStackFrame
<1>8. AsInHand' = AsInHand \union {obj}
  <2>1. \A x : x \in AsInHand' <=> x # AsNull /\ \E u \in AsThreads : asObj'[u] = x
    BY DEF AsInHand
  <2> QED BY <1>3, <2>1, AsInHandIs
<1>9. AsInUse' = AsInUse \union {obj} /\ AsInUse \subseteq asHeap
  BY <1>1, <1>7, <1>8 DEF AsInUse, AsInv, AsSafety
<1>10. \A u \in AsThreads : asPc'[u] = "collect" => asPc[u] = "collect" /\ asObj'[u] = asObj[u]
  BY <1>3
<1>11. AsKnowledge' /\ AsSafety'
  BY <1>1, <1>7, <1>8, <1>9, <1>10, AsMutatorSets
<1> QED BY <1>1, <1>2, <1>4, <1>5, <1>6, <1>11 DEF AsInv, AsAbortInv

\* The program drops a reference.
LEMMA AsDropKeeps ==
  ASSUME AsInv, NEW obj \in AsObjects, AsDrop(obj)
  PROVE  AsInv'
<1>1. /\ ~asAborted /\ asRoots' = asRoots \ {obj}
      /\ UNCHANGED <<asSlots, asBack, asLocal, asPc, asIndex, asObj, asHeap, asSkips, asAborted, asLive, asMarked, asGc, asAlloc, asBadFree>>
  BY DEF AsDrop, AsGcVars
<1>2. AsTypeInv'
  BY <1>1 DEF AsInv, AsTypeInv
<1>3. AsPlaces' /\ AsStacksClean' /\ AsSegmentsAreFresh'
  BY <1>1 DEF AsInv, AsPlaces, AsStacksClean, AsSegmentsAreFresh, AsLiveStack, AsOther
<1>4. AsReserveBound'
  BY <1>1, <1>2, AsReserveFrame
<1>5. AsA' = AsA /\ AsL' = AsL /\ AsInHand' = AsInHand
  BY <1>1, AsStackFrame DEF AsInHand
<1>6. AsInUse' \subseteq AsInUse /\ AsInUse \subseteq asHeap
  BY <1>1, <1>5 DEF AsInUse, AsInv, AsSafety
<1>7. AsKnowledge' /\ AsSafety'
  BY <1>1, <1>5, <1>6, AsMutatorSets
<1> QED BY <1>1, <1>2, <1>3, <1>4, <1>7 DEF AsInv, AsAbortInv

\* An allocation that goes into the thread's segment.
LEMMA AsAllocateFastKeeps ==
  ASSUME AsInv, NEW t \in AsThreads, NEW obj \in AsObjects, AsAllocate(t, obj),
         asLocal[t].top < asLocal[t].end
  PROVE  AsInv'
<1> DEFINE top == asLocal[t].top
<1>1. /\ asPc[t] = "run" /\ obj \notin asHeap /\ ~asAborted /\ asHeap' = asHeap \union {obj}
      /\ asSlots' = [asSlots EXCEPT ![asLocal[t].stack][top] = obj]
      /\ asLocal' = [asLocal EXCEPT ![t].top = @ + 1]
      /\ asRoots' = asRoots \union {obj} /\ asObj' = [asObj EXCEPT ![t] = AsNull]
      /\ UNCHANGED <<asPc, asBack, asIndex, asSkips, asAborted, asLive, asMarked, asGc, asAlloc, asBadFree>>
  BY DEF AsAllocate, AsPushed, AsGcVars
<1>2. /\ asLocal \in [AsThreads -> [stack : AsStacks, top : Nat, end : Nat]]
      /\ asAlloc \in AsStacks /\ asBack \in [AsStacks -> 0 .. AsCapacity] /\ top \in Nat /\ asLocal[t].end \in Nat
      /\ AsTypeInv /\ asBack[asAlloc] \in 0 .. AsCapacity
  BY DEF AsInv, AsTypeInv
<1>3. top \in top .. asLocal[t].end - 1
  BY <1>2
<1>4. /\ asLocal[t].stack = asAlloc /\ asLocal[t].end <= asBack[asAlloc]
      /\ asSlots[asAlloc][top] = AsNull
      /\ \A u \in AsThreads \ {t} : (asLocal[u].top .. asLocal[u].end - 1) \intersect (top .. asLocal[t].end - 1) = {}
  BY <1>3 DEF AsInv, AsSegmentsAreFresh
<1>5. top \in AsIndexes /\ top < asBack[asAlloc]
  BY <1>2, <1>4, AsAssumption DEF AsIndexes
<1>6. /\ asLocal'[t].top = top + 1 /\ asLocal'[t].end = asLocal[t].end /\ asLocal'[t].stack = asAlloc
      /\ \A u \in AsThreads \ {t} : asLocal'[u] = asLocal[u]
  BY <1>1, <1>2, <1>4
<1>7. asObj[t] = AsNull /\ asObj' = asObj
  BY <1>1 DEF AsInv, AsTypeInv, AsPlaces
<1>8. AsTypeInv'
  <2>1. asLocal' \in [AsThreads -> [stack : AsStacks, top : Nat, end : Nat]]
    BY <1>1, <1>2
  <2>2. asSlots' \in [AsStacks -> [AsIndexes -> AsObjects \union {AsNull}]]
    BY <1>1, <1>2, <1>4, <1>5 DEF AsTypeInv
  <2> QED BY <1>1, <1>2, <1>7, <2>1, <2>2 DEF AsTypeInv
<1>9. AsPlaces'
  BY <1>1, <1>7 DEF AsInv, AsPlaces
<1>10. \A s \in AsStacks : \A i \in AsIndexes : asSlots'[s][i] = IF s = asAlloc /\ i = top THEN obj ELSE asSlots[s][i]
  BY <1>1, <1>2, <1>4, <1>5 DEF AsTypeInv
<1>11. AsStacksClean'
  <2>1. \A s \in AsStacks : \A i \in AsIndexes : i >= asBack'[s] => asSlots'[s][i] = AsNull
    BY <1>1, <1>2, <1>5, <1>10 DEF AsInv, AsStacksClean, AsIndexes
  <2> QED BY <1>1, <2>1 DEF AsInv, AsStacksClean, AsLiveStack, AsOther
<1>12. AsSegmentsAreFresh'
  <2> SUFFICES ASSUME NEW u \in AsThreads, (asLocal'[u].top .. asLocal'[u].end - 1) # {}
               PROVE  /\ asLocal'[u].stack = asAlloc /\ asLocal'[u].end <= asBack[asAlloc]
                      /\ \A i \in asLocal'[u].top .. asLocal'[u].end - 1 : asSlots'[asAlloc][i] = AsNull
                      /\ \A v \in AsThreads \ {u} :
                            (asLocal'[v].top .. asLocal'[v].end - 1) \intersect (asLocal'[u].top .. asLocal'[u].end - 1) = {}
    BY <1>1 DEF AsSegmentsAreFresh
  <2>1. \A v \in AsThreads : /\ asLocal[v].top \in Nat /\ asLocal[v].end \in Nat
                             /\ asLocal'[v].end = asLocal[v].end
                             /\ asLocal'[v].top >= asLocal[v].top /\ asLocal'[v].top \in Nat
    BY <1>2, <1>6
  <2>2. (asLocal[u].top .. asLocal[u].end - 1) # {}
    BY <2>1
  <2>3. /\ asLocal[u].stack = asAlloc /\ asLocal[u].end <= asBack[asAlloc]
        /\ \A i \in asLocal[u].top .. asLocal[u].end - 1 : asSlots[asAlloc][i] = AsNull
        /\ \A v \in AsThreads \ {u} : (asLocal[v].top .. asLocal[v].end - 1) \intersect (asLocal[u].top .. asLocal[u].end - 1) = {}
    BY <2>2 DEF AsInv, AsSegmentsAreFresh
  <2>4. \A i \in asLocal'[u].top .. asLocal'[u].end - 1 : i # top /\ i \in AsIndexes
    <3>1. CASE u = t
      BY <3>1, <1>2, <1>4, <1>6, <2>1, AsAssumption DEF AsIndexes
    <3>2. CASE u # t
      BY <3>2, <1>2, <1>3, <1>4, <1>6, <2>1, <2>3, AsAssumption DEF AsIndexes
    <3> QED BY <3>1, <3>2
  <2>5. \A i \in asLocal'[u].top .. asLocal'[u].end - 1 : asSlots'[asAlloc][i] = AsNull
    BY <1>2, <1>10, <2>1, <2>3, <2>4
  <2>6. ASSUME NEW v \in AsThreads \ {u}
        PROVE  (asLocal'[v].top .. asLocal'[v].end - 1) \intersect (asLocal'[u].top .. asLocal'[u].end - 1) = {}
    BY <2>1, <2>3
  <2>7. asLocal'[u].stack = asAlloc
    BY <1>6, <2>3
  <2> QED BY <2>1, <2>3, <2>5, <2>6, <2>7
<1>13. AsReserveBound'
  BY <1>1, <1>8, AsReserveFrame
<1>14. AsA' = AsA \union {obj} /\ AsL' = AsL
  <2>1. asSlots' = [asSlots EXCEPT ![asAlloc][top] = obj]
    BY <1>1, <1>4
  <2>2. asBack'[asAlloc] = asBack[asAlloc] /\ asBack'[AsLiveStack] = asBack[AsLiveStack] /\ asAlloc' = asAlloc
    BY <1>1
  <2>3. \A j \in AsIndexes : j >= asBack[asAlloc] => asSlots[asAlloc][j] = AsNull
    BY <1>2 DEF AsInv, AsStacksClean
  <2>4. top < asBack'[asAlloc] /\ asBack'[asAlloc] >= asBack[asAlloc]
    BY <1>2, <1>5, <2>2
  <2> HIDE DEF top
  <2> QED BY <1>2, <1>4, <1>5, <1>8, <2>1, <2>2, <2>3, <2>4, AsStackPush
<1>15. AsInHand' = AsInHand
  BY <1>7 DEF AsInHand
<1>16. AsInUse' = AsInUse \union {obj} /\ AsInUse \subseteq asHeap
  BY <1>1, <1>14, <1>15 DEF AsInUse, AsInv, AsSafety
<1>17. AsKnowledge' /\ AsSafety'
  BY <1>1, <1>7, <1>14, <1>15, <1>16, AsMutatorSets
<1> QED BY <1>1, <1>8, <1>9, <1>11, <1>12, <1>13, <1>17 DEF AsInv, AsAbortInv

\* The objects in hand when a thread has put its own down, or keeps it.
LEMMA AsPutDown ==
  ASSUME AsInv, NEW t \in AsThreads, asPc[t] # "run",
         asObj' = [asObj EXCEPT ![t] = AsNull] \/ asObj' = asObj
  PROVE  /\ asObj[t] \in AsObjects /\ asObj[t] \in AsInHand /\ asObj[t] \in asHeap
         /\ AsInHand' \subseteq AsInHand /\ AsInHand \subseteq AsInHand' \union {asObj[t]}
<1>1. asObj[t] \in AsObjects /\ asObj[t] # AsNull
  BY DEF AsInv, AsTypeInv, AsPlaces
<1>2. asObj[t] \in AsInHand
  BY <1>1, AsInHandIs
<1>3. \A x : x \in AsInHand' <=> x # AsNull /\ \E u \in AsThreads : asObj'[u] = x
  BY DEF AsInHand
<1>4. \A u \in AsThreads : asObj'[u] = asObj[u] \/ (u = t /\ asObj'[u] = AsNull)
  BY DEF AsInv, AsTypeInv
<1>5. \A u \in AsThreads \ {t} : asObj'[u] = asObj[u]
  BY DEF AsInv, AsTypeInv
<1>6. AsInHand' \subseteq AsInHand
  BY <1>3, <1>4, AsInHandIs
<1>7. AsInHand \subseteq AsInHand' \union {asObj[t]}
  BY <1>3, <1>5, AsInHandIs
<1>8. AsInHand \subseteq asHeap
  BY DEF AsInv, AsSafety, AsInUse
<1> QED BY <1>1, <1>2, <1>6, <1>7, <1>8

\* The bump of back_index_ succeeds: a new segment, with the object in its first slot.
LEMMA AsTakeSegmentKeeps ==
  ASSUME AsInv, NEW t \in AsThreads, asPc[t] = "bump_cas", asBack[asAlloc] = asIndex[t],
         AsTakeSegment(t),
         UNCHANGED <<asIndex, asHeap, asSkips, asAborted, asLive, asMarked, asGc, asAlloc, asBadFree>>
  PROVE  AsInv'
<1> DEFINE start == asIndex[t]
           obj == asObj[t]
<1>1. /\ asBack' = [asBack EXCEPT ![asAlloc] = start + AsSegmentSize]
      /\ asLocal' = [asLocal EXCEPT ![t] = [stack |-> asAlloc, top |-> start + 1, end |-> start + AsSegmentSize]]
      /\ asSlots' = [asSlots EXCEPT ![asAlloc][start] = obj]
      /\ asRoots' = asRoots \union {obj} /\ asObj' = [asObj EXCEPT ![t] = AsNull]
      /\ asPc' = [asPc EXCEPT ![t] = "run"]
  BY DEF AsTakeSegment, AsPushed
<1>2. /\ AsTypeInv /\ asAlloc \in AsStacks /\ start \in Nat /\ asBack[asAlloc] = start
      /\ AsLiveStack \in AsStacks /\ AsLiveStack # asAlloc
      /\ asLocal \in [AsThreads -> [stack : AsStacks, top : Nat, end : Nat]]
  BY DEF AsInv, AsTypeInv, AsStacks, AsLiveStack, AsOther
<1>3. start + AsSegmentSize < AsGrowthLimit /\ start + AsSegmentSize <= AsCapacity /\ start \in AsIndexes
  <2>1. start + AsSegmentSize < AsGrowthLimit
    BY DEF AsInv, AsPlaces
  <2>2. Cardinality(AsThreads) \in Nat
    BY AsReservedFinite
  <2> QED BY <1>2, <2>1, <2>2, AsAssumption DEF AsIndexes
<1>4. /\ obj \in AsObjects /\ obj \in AsInHand /\ obj \in asHeap
      /\ AsInHand' \subseteq AsInHand /\ AsInHand \subseteq AsInHand' \union {obj}
  BY <1>1, AsPutDown
<1>5. AsTypeInv'
  <2>1. asBack' \in [AsStacks -> 0 .. AsCapacity]
    BY <1>1, <1>2, <1>3, AsAssumption DEF AsTypeInv
  <2>2. asSlots' \in [AsStacks -> [AsIndexes -> AsObjects \union {AsNull}]]
    BY <1>1, <1>2, <1>3, <1>4 DEF AsTypeInv
  <2>3. asLocal' \in [AsThreads -> [stack : AsStacks, top : Nat, end : Nat]]
    <3>1. [stack |-> asAlloc, top |-> start + 1, end |-> start + AsSegmentSize] \in [stack : AsStacks, top : Nat, end : Nat]
      BY <1>2, AsAssumption
    <3> QED BY <1>1, <1>2, <3>1
  <2>4. asPc' \in [AsThreads -> AsPcs] /\ asObj' \in [AsThreads -> AsObjects \union {AsNull}] /\ asRoots' \in SUBSET AsObjects
    BY <1>1, <1>2, <1>4 DEF AsTypeInv, AsPcs
  <2> QED BY <1>2, <2>1, <2>2, <2>3, <2>4 DEF AsTypeInv
<1>6. /\ asPc'[t] = "run" /\ asObj'[t] = AsNull
      /\ \A u \in AsThreads \ {t} : asPc'[u] = asPc[u] /\ asObj'[u] = asObj[u] /\ asLocal'[u] = asLocal[u]
      /\ asLocal'[t] = [stack |-> asAlloc, top |-> start + 1, end |-> start + AsSegmentSize]
  BY <1>1, <1>2 DEF AsTypeInv
<1>7. AsPlaces'
  BY <1>2, <1>6 DEF AsInv, AsTypeInv, AsPlaces
<1>8. /\ \A s \in AsStacks : \A i \in AsIndexes : asSlots'[s][i] = IF s = asAlloc /\ i = start THEN obj ELSE asSlots[s][i]
      /\ asBack'[asAlloc] = start + AsSegmentSize
      /\ \A s \in AsStacks \ {asAlloc} : asBack'[s] = asBack[s]
  BY <1>1, <1>2, <1>3 DEF AsTypeInv
<1>9. \A i \in AsIndexes : i >= start => asSlots[asAlloc][i] = AsNull
  BY <1>2 DEF AsInv, AsStacksClean
<1>10. AsStacksClean'
  <2>1. ASSUME NEW s \in AsStacks, NEW i \in AsIndexes, i >= asBack'[s]
        PROVE  asSlots'[s][i] = AsNull
    <3>1. CASE s = asAlloc
      BY <2>1, <3>1, <1>2, <1>8, <1>9, AsAssumption DEF AsIndexes
    <3>2. CASE s # asAlloc
      BY <2>1, <3>2, <1>8 DEF AsInv, AsStacksClean
    <3> QED BY <3>1, <3>2
  <2>2. AsLiveStack' = AsLiveStack
    BY DEF AsLiveStack
  <2> QED BY <1>2, <1>8, <2>1, <2>2 DEF AsInv, AsStacksClean
<1>11. AsSegmentsAreFresh'
  <2>0. /\ asLocal'[t].stack = asAlloc /\ asLocal'[t].top = start + 1 /\ asLocal'[t].end = start + AsSegmentSize
        /\ \A v \in AsThreads : asLocal[v].top \in Nat /\ asLocal[v].end \in Nat
    BY <1>2, <1>6
  <2>1. \A v \in AsThreads : (asLocal[v].top .. asLocal[v].end - 1) # {} => asLocal[v].end <= start
    BY <1>2 DEF AsInv, AsSegmentsAreFresh
  <2>2. \A v \in AsThreads \ {t} : (asLocal'[v].top .. asLocal'[v].end - 1) \intersect (asLocal'[t].top .. asLocal'[t].end - 1) = {}
    BY <1>2, <1>6, <2>0, <2>1
  <2> SUFFICES ASSUME NEW u \in AsThreads, (asLocal'[u].top .. asLocal'[u].end - 1) # {}
               PROVE  /\ asLocal'[u].stack = asAlloc /\ asLocal'[u].end <= asBack'[asAlloc]
                      /\ \A i \in asLocal'[u].top .. asLocal'[u].end - 1 : asSlots'[asAlloc][i] = AsNull
                      /\ \A v \in AsThreads \ {u} :
                            (asLocal'[v].top .. asLocal'[v].end - 1) \intersect (asLocal'[u].top .. asLocal'[u].end - 1) = {}
    BY DEF AsSegmentsAreFresh
  <2>3. CASE u = t
    <3>1. \A i \in asLocal'[u].top .. asLocal'[u].end - 1 : i \in AsIndexes /\ i > start
      BY <2>3, <2>0, <1>2, <1>3, AsAssumption DEF AsIndexes
    <3>2. \A i \in asLocal'[u].top .. asLocal'[u].end - 1 : asSlots'[asAlloc][i] = AsNull
      BY <3>1, <1>2, <1>8, <1>9
    <3> QED BY <2>0, <2>2, <2>3, <3>2, <1>2, <1>8, AsAssumption
  <2>4. CASE u # t
    <3>1. /\ asLocal[u].stack = asAlloc /\ asLocal[u].end <= start
          /\ \A i \in asLocal[u].top .. asLocal[u].end - 1 : asSlots[asAlloc][i] = AsNull
          /\ \A v \in AsThreads \ {u} : (asLocal[v].top .. asLocal[v].end - 1) \intersect (asLocal[u].top .. asLocal[u].end - 1) = {}
      BY <2>4, <1>2, <1>6 DEF AsInv, AsSegmentsAreFresh
    <3>2. \A i \in asLocal'[u].top .. asLocal'[u].end - 1 : i \in AsIndexes /\ i < start
      BY <2>4, <3>1, <1>2, <1>3, <1>6, <2>0, AsAssumption DEF AsIndexes
    <3>3. \A i \in asLocal'[u].top .. asLocal'[u].end - 1 : asSlots'[asAlloc][i] = AsNull
      BY <2>4, <3>1, <3>2, <1>2, <1>6, <1>8
    <3>4. ASSUME NEW v \in AsThreads \ {u}
          PROVE  (asLocal'[v].top .. asLocal'[v].end - 1) \intersect (asLocal'[u].top .. asLocal'[u].end - 1) = {}
      BY <2>2, <2>4, <3>1, <1>6
    <3>5. asLocal'[u].end <= asBack'[asAlloc]
      BY <2>4, <3>1, <1>2, <1>6, <1>8, <2>0, AsAssumption
    <3> QED BY <2>4, <3>1, <3>3, <3>4, <3>5, <1>6
  <2> QED BY <2>3, <2>4
<1>12. AsReserveBound'
  <2>1. Cardinality(AsReserved') \in Nat
    BY AsReservedFinite DEF AsReserved
  <2>2. asSkips \in Nat
    BY <1>2 DEF AsTypeInv
  <2> QED BY <1>2, <1>3, <1>8, <2>1, <2>2, AsAssumption DEF AsReserveBound
<1>13. AsA' = AsA \union {obj} /\ AsL' = AsL
  <2>1. start < asBack'[asAlloc] /\ asBack'[asAlloc] >= asBack[asAlloc] /\ asBack'[AsLiveStack] = asBack[AsLiveStack]
    BY <1>2, <1>8, AsAssumption
  <2>2. asSlots[asAlloc][start] = AsNull
    BY <1>2, <1>3, <1>9
  <2> QED BY <1>1, <1>2, <1>3, <1>4, <1>5, <1>9, <2>1, <2>2, AsStackPush
<1>14. AsInUse' \subseteq AsInUse /\ AsInUse \subseteq asHeap
  BY <1>1, <1>4, <1>13 DEF AsInUse, AsInv, AsSafety
<1>15. AsKnowledge' /\ AsSafety'
  <2>1. \A u \in AsThreads : asPc'[u] = "collect" => asPc[u] = "collect" /\ asObj'[u] = asObj[u]
    BY <1>6
  <2> QED BY <2>1, <1>1, <1>4, <1>13, <1>14, AsMutatorSets
<1> QED BY <1>5, <1>7, <1>10, <1>11, <1>12, <1>15 DEF AsInv, AsAbortInv

\* The push into the reserve succeeds.
LEMMA AsReservePushKeeps ==
  ASSUME AsInv, NEW t \in AsThreads, asPc[t] = "reserve_cas", asBack[asAlloc] = asIndex[t],
         asBack' = [asBack EXCEPT ![asAlloc] = @ + 1],
         asSlots' = [asSlots EXCEPT ![asAlloc][asIndex[t]] = asObj[t]],
         asPc' = [asPc EXCEPT ![t] = "collect"],
         UNCHANGED <<asLocal, asIndex, asObj, asRoots, asHeap, asSkips, asAborted, asLive, asMarked, asGc, asAlloc, asBadFree>>
  PROVE  AsInv'
<1> DEFINE start == asIndex[t]
           obj == asObj[t]
<1>2. /\ AsTypeInv /\ asAlloc \in AsStacks /\ start \in Nat /\ asBack[asAlloc] = start
      /\ AsLiveStack \in AsStacks /\ AsLiveStack # asAlloc
      /\ asLocal \in [AsThreads -> [stack : AsStacks, top : Nat, end : Nat]]
  BY DEF AsInv, AsTypeInv, AsStacks, AsLiveStack, AsOther
<1>3. start < AsCapacity /\ start \in AsIndexes
  BY <1>2, AsAssumption DEF AsInv, AsPlaces, AsIndexes
<1>4. /\ obj \in AsObjects /\ obj \in AsInHand /\ obj \in asHeap /\ AsInHand' = AsInHand
  BY AsPutDown DEF AsInHand
<1>5. AsTypeInv'
  <2>1. asBack' \in [AsStacks -> 0 .. AsCapacity]
    BY <1>2, <1>3, AsAssumption DEF AsTypeInv
  <2>2. asSlots' \in [AsStacks -> [AsIndexes -> AsObjects \union {AsNull}]]
    BY <1>2, <1>3, <1>4 DEF AsTypeInv
  <2>3. asPc' \in [AsThreads -> AsPcs]
    BY <1>2 DEF AsTypeInv, AsPcs
  <2> QED BY <1>2, <2>1, <2>2, <2>3 DEF AsTypeInv
<1>6. asPc'[t] = "collect" /\ \A u \in AsThreads \ {t} : asPc'[u] = asPc[u]
  BY <1>2 DEF AsTypeInv
<1>7. AsPlaces'
  BY <1>2, <1>6 DEF AsInv, AsTypeInv, AsPlaces
<1>8. /\ \A s \in AsStacks : \A i \in AsIndexes : asSlots'[s][i] = IF s = asAlloc /\ i = start THEN obj ELSE asSlots[s][i]
      /\ asBack'[asAlloc] = start + 1
      /\ \A s \in AsStacks \ {asAlloc} : asBack'[s] = asBack[s]
  BY <1>2, <1>3 DEF AsTypeInv
<1>9. \A i \in AsIndexes : i >= start => asSlots[asAlloc][i] = AsNull
  BY <1>2 DEF AsInv, AsStacksClean
<1>10. AsStacksClean'
  <2>1. ASSUME NEW s \in AsStacks, NEW i \in AsIndexes, i >= asBack'[s]
        PROVE  asSlots'[s][i] = AsNull
    <3>1. CASE s = asAlloc
      BY <2>1, <3>1, <1>2, <1>8, <1>9 DEF AsIndexes
    <3>2. CASE s # asAlloc
      BY <2>1, <3>2, <1>8 DEF AsInv, AsStacksClean
    <3> QED BY <3>1, <3>2
  <2>2. AsLiveStack' = AsLiveStack
    BY DEF AsLiveStack
  <2> QED BY <1>2, <1>8, <2>1, <2>2 DEF AsInv, AsStacksClean
<1>11. AsSegmentsAreFresh'
  <2> SUFFICES ASSUME NEW u \in AsThreads, (asLocal[u].top .. asLocal[u].end - 1) # {}
               PROVE  /\ asLocal[u].stack = asAlloc /\ asLocal[u].end <= asBack'[asAlloc]
                      /\ \A i \in asLocal[u].top .. asLocal[u].end - 1 : asSlots'[asAlloc][i] = AsNull
                      /\ \A v \in AsThreads \ {u} :
                            (asLocal[v].top .. asLocal[v].end - 1) \intersect (asLocal[u].top .. asLocal[u].end - 1) = {}
    BY DEF AsSegmentsAreFresh
  <2>1. /\ asLocal[u].stack = asAlloc /\ asLocal[u].end <= start
        /\ \A i \in asLocal[u].top .. asLocal[u].end - 1 : asSlots[asAlloc][i] = AsNull
        /\ \A v \in AsThreads \ {u} : (asLocal[v].top .. asLocal[v].end - 1) \intersect (asLocal[u].top .. asLocal[u].end - 1) = {}
    BY <1>2 DEF AsInv, AsSegmentsAreFresh
  <2>2. asLocal[u].top \in Nat /\ asLocal[u].end \in Nat
    BY <1>2
  <2>3. \A i \in asLocal[u].top .. asLocal[u].end - 1 : i \in AsIndexes /\ i < start
    BY <2>1, <2>2, <1>2, <1>3, AsAssumption DEF AsIndexes
  <2>4. \A i \in asLocal[u].top .. asLocal[u].end - 1 : asSlots'[asAlloc][i] = AsNull
    BY <2>1, <2>3, <1>2, <1>8
  <2>5. asLocal[u].end <= asBack'[asAlloc]
    BY <2>1, <2>2, <1>2, <1>8
  <2> QED BY <2>1, <2>4, <2>5
<1>12. AsReserveBound'
  <2>1. t \in AsThreads \ AsReserved /\ AsReserved \in SUBSET AsThreads
    BY DEF AsReserved
  <2>2. AsReserved' = AsReserved \union {t}
    <3>1. asGc.phase \in {"none", "marking"} \/ asGc.by # t
      BY AsAssumption DEF AsInv, AsPlaces
    <3> QED BY <1>6, <3>1 DEF AsReserved
  <2>3. Cardinality(AsReserved') = Cardinality(AsReserved) + 1 /\ Cardinality(AsReserved) \in Nat
    BY <2>1, <2>2, AsReservedFinite
  <2>4. start <= AsGrowthLimit + Cardinality(AsReserved) + asSkips /\ asSkips \in Nat
    BY <1>2 DEF AsInv, AsTypeInv, AsReserveBound
  <2> QED BY <1>2, <1>8, <2>3, <2>4, AsAssumption DEF AsReserveBound
<1>13. AsA' = AsA \union {obj} /\ AsL' = AsL
  <2>1. start < asBack'[asAlloc] /\ asBack'[asAlloc] >= asBack[asAlloc] /\ asBack'[AsLiveStack] = asBack[AsLiveStack]
    BY <1>2, <1>8
  <2>2. asSlots[asAlloc][start] = AsNull
    BY <1>2, <1>3, <1>9
  <2> QED BY <1>2, <1>3, <1>4, <1>5, <1>9, <2>1, <2>2, AsStackPush
<1>14. AsInUse' \subseteq AsInUse /\ AsInUse \subseteq asHeap
  BY <1>4, <1>13 DEF AsInUse, AsInv, AsSafety
<1>15. AsKnowledge' /\ AsSafety'
  <2>1. \A u \in AsThreads : asPc'[u] = "collect" => asObj'[u] \in AsA' \/ (asPc[u] = "collect" /\ asObj'[u] = asObj[u])
    BY <1>6, <1>13
  <2> QED BY <2>1, <1>4, <1>13, <1>14, AsMutatorSets
<1> QED BY <1>5, <1>7, <1>10, <1>11, <1>12, <1>15 DEF AsInv, AsAbortInv


\* The loads of back_index_ and the two compare-and-swaps.
LEMMA AsBumpLoadKeeps ==
  ASSUME AsInv, NEW t \in AsThreads, AsBumpLoad(t)
  PROVE  AsInv'
<1> DEFINE pc == IF asBack[asAlloc] + AsSegmentSize >= AsGrowthLimit THEN "reserve" ELSE "bump_cas"
<1>1. /\ asIndex' = [asIndex EXCEPT ![t] = asBack[asAlloc]]
      /\ asPc[t] = "bump" /\ asPc' = [asPc EXCEPT ![t] = pc] /\ ~asAborted
      /\ UNCHANGED <<asSlots, asBack, asLocal, asObj, asRoots, asHeap, asSkips, asAborted, asLive, asMarked, asGc, asAlloc, asBadFree>>
  BY DEF AsBumpLoad, AsGo, AsGcVars
<1>2. asBack[asAlloc] \in Nat /\ asIndex \in [AsThreads -> Nat]
  BY AsAssumption DEF AsInv, AsTypeInv
<1>3. asIndex' \in [AsThreads -> Nat] /\ asIndex'[t] = asBack[asAlloc] /\ \A u \in AsThreads \ {t} : asIndex'[u] = asIndex[u]
  BY <1>1, <1>2
<1>4. pc \in {"bump", "bump_cas", "reserve", "reserve_cas"} /\ pc # "reserve_cas"
      /\ (pc = "bump_cas" => asIndex'[t] + AsSegmentSize < AsGrowthLimit)
  BY <1>2, <1>3, AsAssumption
<1> HIDE DEF pc
<1>5. AsAbortInv'
  BY <1>1 DEF AsAbortInv
<1> QED BY <1>1, <1>3, <1>4, <1>5, AsLoadKeeps

\* AtomicBumpBack of the reserve reads back_index_.
LEMMA AsReserveLoadKeeps ==
  ASSUME AsInv, NEW t \in AsThreads, AsReserveLoad(t)
  PROVE  AsInv'
<1> DEFINE pc == IF asBack[asAlloc] >= AsCapacity THEN "reserve" ELSE "reserve_cas"
<1>1. /\ asIndex' = [asIndex EXCEPT ![t] = asBack[asAlloc]]
      /\ asPc[t] = "reserve" /\ asPc' = [asPc EXCEPT ![t] = pc]
      /\ asAborted' = (asBack[asAlloc] >= AsCapacity)
      /\ UNCHANGED <<asSlots, asBack, asLocal, asObj, asRoots, asHeap, asLive, asMarked, asGc, asAlloc, asBadFree, asSkips>>
  BY DEF AsReserveLoad, AsGo, AsGcVars
<1>2. asBack[asAlloc] \in Nat /\ asIndex \in [AsThreads -> Nat] /\ asSkips \in Nat
  BY AsAssumption DEF AsInv, AsTypeInv
<1>3. asIndex' \in [AsThreads -> Nat] /\ asIndex'[t] = asBack[asAlloc] /\ \A u \in AsThreads \ {t} : asIndex'[u] = asIndex[u]
  BY <1>1, <1>2
<1>4. asBack[asAlloc] >= AsCapacity => asSkips > AsCapacity - AsGrowthLimit - Cardinality(AsThreads)
  <2>1. t \in AsThreads \ AsReserved /\ AsReserved \in SUBSET AsThreads
    BY <1>1 DEF AsReserved
  <2>2. /\ Cardinality(AsReserved) < Cardinality(AsThreads)
        /\ Cardinality(AsReserved) \in Nat /\ Cardinality(AsThreads) \in Nat
    BY <2>1, AsReservedFinite
  <2>3. asBack[asAlloc] <= AsGrowthLimit + Cardinality(AsReserved) + asSkips
    BY DEF AsInv, AsReserveBound
  <2> QED BY <1>2, <2>2, <2>3, AsAssumption
<1>5. AsAbortInv'
  <2>1. asAborted' => asBack[asAlloc] >= AsCapacity
    BY <1>1, Zenon
  <2>2. asSkips' = asSkips
    BY <1>1
  <2>3. asAborted' => asSkips > AsCapacity - AsGrowthLimit - Cardinality(AsThreads)
    BY <2>1, <1>4, Zenon
  <2> QED BY <2>2, <2>3 DEF AsAbortInv
<1>6. pc \in {"reserve", "reserve_cas"} /\ (pc = "reserve_cas" => asIndex'[t] < AsCapacity)
  BY <1>2, <1>3, AsAssumption
<1> HIDE DEF pc
<1> QED BY <1>1, <1>3, <1>5, <1>6, AsLoadKeeps

\* The compare-and-swap that takes a segment.
LEMMA AsBumpCasKeeps ==
  ASSUME AsInv, NEW t \in AsThreads, AsBumpCas(t)
  PROVE  AsInv'
<1>1. /\ asPc[t] = "bump_cas" /\ ~asAborted
      /\ UNCHANGED <<asIndex, asHeap, asSkips, asAborted, asLive, asMarked, asGc, asAlloc, asBadFree>>
  BY DEF AsBumpCas, AsGcVars
<1>2. CASE asBack[asAlloc] = asIndex[t] /\ AsTakeSegment(t)
  BY <1>1, <1>2, AsTakeSegmentKeeps
<1>3. CASE asPc' = [asPc EXCEPT ![t] = "bump"] /\ UNCHANGED <<asBack, asLocal, asSlots, asRoots, asObj>>
  <2>1. asIndex' \in [AsThreads -> Nat] /\ asIndex' = asIndex
    BY <1>1 DEF AsInv, AsTypeInv
  <2>2. AsAbortInv'
    BY <1>1 DEF AsAbortInv
  <2> QED BY <1>1, <1>3, <2>1, <2>2, AsLoadKeeps
<1> QED BY <1>2, <1>3 DEF AsBumpCas

\* The compare-and-swap that takes a slot of the reserve.
LEMMA AsReserveCasKeeps ==
  ASSUME AsInv, NEW t \in AsThreads, AsReserveCas(t)
  PROVE  AsInv'
<1>1. /\ asPc[t] = "reserve_cas" /\ ~asAborted
      /\ UNCHANGED <<asLocal, asIndex, asObj, asRoots, asHeap, asSkips, asAborted, asLive, asMarked, asGc, asAlloc, asBadFree>>
  BY DEF AsReserveCas, AsGcVars
<1>2. CASE /\ asBack[asAlloc] = asIndex[t]
           /\ asBack' = [asBack EXCEPT ![asAlloc] = @ + 1]
           /\ asSlots' = [asSlots EXCEPT ![asAlloc][asIndex[t]] = asObj[t]]
           /\ asPc' = [asPc EXCEPT ![t] = "collect"]
  BY <1>1, <1>2, AsReservePushKeeps
<1>3. CASE asPc' = [asPc EXCEPT ![t] = "reserve"] /\ UNCHANGED <<asBack, asSlots>>
  <2>1. asIndex' \in [AsThreads -> Nat] /\ asIndex' = asIndex
    BY <1>1 DEF AsInv, AsTypeInv
  <2>2. AsAbortInv'
    BY <1>1 DEF AsAbortInv
  <2> QED BY <1>1, <1>3, <2>1, <2>2, AsLoadKeeps
<1> QED BY <1>2, <1>3 DEF AsReserveCas

\* A collection is skipped: its thread gives its slot of the reserve up for lost.
LEMMA AsSkipGcKeeps ==
  ASSUME AsInv, NEW t \in AsThreads, AsSkipGc(t)
  PROVE  AsInv'
<1>1. /\ asPc[t] = "collect" /\ asPc' = [asPc EXCEPT ![t] = "bump"] /\ ~asAborted
      /\ asGc.phase = "none" \/ asGc.by # t
      /\ asSkips' = asSkips + 1
      /\ UNCHANGED <<asSlots, asBack, asLocal, asIndex, asObj, asRoots, asHeap, asAborted, asLive, asMarked, asGc, asAlloc, asBadFree>>
  BY DEF AsSkipGc, AsGo
<1>2. AsTypeInv'
  BY <1>1 DEF AsInv, AsTypeInv, AsPcs
<1>3. asPc'[t] = "bump" /\ \A u \in AsThreads \ {t} : asPc'[u] = asPc[u]
  BY <1>1 DEF AsInv, AsTypeInv
<1>4. AsPlaces'
  BY <1>1, <1>3 DEF AsInv, AsTypeInv, AsPlaces
<1>5. AsStacksClean' /\ AsSegmentsAreFresh'
  BY <1>1 DEF AsInv, AsStacksClean, AsSegmentsAreFresh, AsLiveStack, AsOther
<1>6. AsReserveBound'
  <2>1. AsReserved = AsReserved' \union {t} /\ t \in AsThreads \ AsReserved' /\ AsReserved' \in SUBSET AsThreads
    BY <1>1, <1>3 DEF AsReserved
  <2>2. Cardinality(AsReserved) = Cardinality(AsReserved') + 1 /\ Cardinality(AsReserved') \in Nat
    BY <2>1, AsReservedFinite
  <2>3. /\ asBack[asAlloc] <= AsGrowthLimit + Cardinality(AsReserved) + asSkips
        /\ asBack[asAlloc] \in Nat /\ asSkips \in Nat
    BY AsAssumption DEF AsInv, AsTypeInv, AsReserveBound
  <2> QED BY <1>1, <2>2, <2>3, AsAssumption DEF AsReserveBound
<1>7. AsA' = AsA /\ AsL' = AsL /\ AsInHand' = AsInHand
  BY <1>1, AsStackFrame DEF AsInHand
<1>8. AsInUse' = AsInUse /\ AsInUse \subseteq asHeap
  BY <1>1, <1>7 DEF AsInUse, AsInv, AsSafety
<1>9. AsKnowledge' /\ AsSafety'
  <2>1. \A u \in AsThreads : asPc'[u] = "collect" => asPc[u] = "collect" /\ asObj'[u] = asObj[u]
    BY <1>1, <1>3
  <2> QED BY <1>1, <1>7, <1>8, <2>1, AsMutatorSets
<1> QED BY <1>1, <1>2, <1>4, <1>5, <1>6, <1>9 DEF AsInv, AsAbortInv

\* The live stack is empty outside a sweep, and who waits for a collection has an object in hand.
LEMMA AsLiveStackIsEmpty ==
  ASSUME AsInv, asGc.phase \in {"none", "marking", "sweep", "swap_bitmaps"}
  PROVE  AsL = {}
<1>1. AsLiveStack \in AsStacks /\ AsTypeInv /\ asBack[AsLiveStack] = 0
  BY DEF AsInv, AsTypeInv, AsStacksClean, AsStacks, AsLiveStack, AsOther
<1>2. \A x : x \notin AsContents(AsLiveStack)
  BY <1>1, AsContentsIs DEF AsIndexes
<1> QED BY <1>2 DEF AsL

\* Who waits for a collection has its object in hand.
LEMMA AsWaitingInHand ==
  ASSUME AsInv, NEW t \in AsThreads, asPc[t] # "run"
  PROVE  asObj[t] \in AsInHand
  BY AsInHandIs DEF AsInv, AsPlaces

\* A collector's step that leaves the mutators and the segments alone: only what it knows and
\* what it frees is left to show.
LEMMA AsCollectorFrame ==
  ASSUME AsInv, UNCHANGED <<asSlots, asBack, asAlloc, asLocal, asPc, asIndex, asObj, asRoots, asSkips, asAborted>>,
         asHeap' \in SUBSET AsObjects, asLive' \in SUBSET AsObjects, asMarked' \in SUBSET AsObjects,
         asGc' \in [phase : AsPhases, by : AsThreads \union {AsDaemon}, sticky : BOOLEAN],
         asGc'.phase # "none" /\ asGc'.by # AsDaemon => asPc[asGc'.by] = "collect",
         asGc'.phase \in {"sweep_array", "reset"} => asGc'.sticky,
         asGc'.phase \in {"mark_live", "sweep", "swap_bitmaps"} => ~asGc'.sticky,
         asGc'.phase \in {"none", "marking", "sweep", "swap_bitmaps"} =>
            asGc.phase \in {"none", "marking", "sweep", "swap_bitmaps"},
         AsReserved' = AsReserved
  PROVE  /\ AsAbortInv' /\ AsTypeInv' /\ AsPlaces' /\ AsStacksClean' /\ AsSegmentsAreFresh' /\ AsReserveBound'
         /\ AsA' = AsA /\ AsL' = AsL /\ AsInHand' = AsInHand /\ AsInUse' = AsInUse
<1>1. AsAbortInv' /\ AsTypeInv'
  BY DEF AsInv, AsTypeInv, AsAbortInv
<1>2. AsPlaces'
  BY DEF AsInv, AsPlaces
<1>3. AsStacksClean' /\ AsSegmentsAreFresh'
  BY DEF AsInv, AsStacksClean, AsSegmentsAreFresh, AsLiveStack, AsOther
<1>4. AsReserveBound'
  BY DEF AsInv, AsReserveBound
<1>5. AsA' = AsA /\ AsL' = AsL /\ AsInHand' = AsInHand
  BY AsStackFrame DEF AsInHand
<1> QED BY <1>1, <1>2, <1>3, <1>4, <1>5 DEF AsInUse

\* A collection begins, with the concurrent marking.
LEMMA AsStartGcKeeps ==
  ASSUME AsInv, NEW by \in AsThreads \union {AsDaemon}, NEW sticky \in BOOLEAN, AsStartGc(by, sticky)
  PROVE  AsInv'
<1>1. /\ asGc.phase = "none" /\ asGc' = [phase |-> "marking", by |-> by, sticky |-> sticky]
      /\ by # AsDaemon => asPc[by] = "collect"
      /\ UNCHANGED <<asSlots, asBack, asAlloc, asLocal, asHeap, asBadFree, asPc, asIndex, asObj, asRoots, asSkips, asAborted>>
  BY DEF AsStartGc, AsMutatorVars
<1>2. \/ sticky /\ asLive' = asLive \union asRoots /\ asMarked' = asMarked
      \/ ~sticky /\ asMarked' = asRoots /\ asLive' = asLive
  BY DEF AsStartGc
<1>3. AsTypeInv /\ AsKnowledge /\ AsSafety
  BY DEF AsInv
<1>4. asGc'.phase = "marking" /\ asGc'.by = by /\ asGc'.sticky = sticky
  BY <1>1
<1>5. /\ asLive' \in SUBSET AsObjects /\ asMarked' \in SUBSET AsObjects /\ asHeap' \in SUBSET AsObjects
      /\ asGc' \in [phase : AsPhases, by : AsThreads \union {AsDaemon}, sticky : BOOLEAN]
  BY <1>1, <1>2, <1>3 DEF AsTypeInv, AsPhases
<1>6. AsReserved' = AsReserved
  BY <1>1, <1>4 DEF AsReserved
<1>7. /\ AsAbortInv' /\ AsTypeInv' /\ AsPlaces' /\ AsStacksClean' /\ AsSegmentsAreFresh' /\ AsReserveBound'
      /\ AsA' = AsA /\ AsL' = AsL /\ AsInHand' = AsInHand /\ AsInUse' = AsInUse
  BY <1>1, <1>4, <1>5, <1>6, AsCollectorFrame
<1>8. AsKnown = asLive \union AsA \union AsL /\ AsKnown' = asLive' \union AsA \union AsL /\ asMarked = {}
  BY <1>1, <1>3, <1>4, <1>7 DEF AsKnown, AsKnowledge
<1>9. asRoots \subseteq asHeap /\ asRoots \subseteq AsKnown /\ asLive \subseteq asLive' /\ asLive' \subseteq asLive \union asRoots
  BY <1>1, <1>2, <1>3 DEF AsKnowledge, AsSafety, AsInUse
<1>10. AsKnowledge'
  <2>1. asHeap' \subseteq AsKnown' \union AsInHand' /\ asRoots' \subseteq AsKnown'
    BY <1>1, <1>3, <1>7, <1>8, <1>9 DEF AsKnowledge
  <2>2. \A t \in AsThreads : asPc'[t] = "collect" => asObj'[t] \in AsKnown'
    BY <1>1, <1>3, <1>8, <1>9 DEF AsKnowledge
  <2>3. asMarked' \subseteq asLive' \union AsA' \union AsL'
    BY <1>2, <1>7, <1>8, <1>9
  <2>4. asGc'.phase = "none" \/ asGc'.sticky => asMarked' = {}
    BY <1>2, <1>4, <1>8
  <2> QED BY <2>1, <2>2, <2>3, <2>4 DEF AsKnowledge
<1>11. AsSafety'
  <2>1. ~asBadFree' /\ AsInUse' \subseteq asHeap' /\ asMarked' \subseteq asHeap'
    BY <1>1, <1>2, <1>3, <1>7, <1>9 DEF AsSafety
  <2>2. asLive' \subseteq asHeap' /\ AsL' \subseteq asHeap'
    BY <1>1, <1>3, <1>7, <1>9 DEF AsSafety
  <2> QED BY <1>4, <2>1, <2>2 DEF AsSafety
<1> QED BY <1>7, <1>10, <1>11 DEF AsInv, AsAbortInv

\* SweepArray frees what is on the live stack and not marked.
LEMMA AsSweepArrayKeeps ==
  ASSUME AsInv, AsOnce, AsSweepArray
  PROVE  AsInv'
<1> DEFINE ptrs == [i \in AsGarbageEntries |-> asSlots[AsLiveStack][i]]
           objs == {ptrs[i] : i \in DOMAIN ptrs}
           twice == \E i, j \in DOMAIN ptrs : i # j /\ ptrs[i] = ptrs[j]
<1>0. /\ asGc.phase = "sweep_array" /\ asGc' = [asGc EXCEPT !.phase = "reset"]
      /\ asHeap' = asHeap \ objs
      /\ asBadFree' = (asBadFree \/ twice \/ ~ objs \subseteq asHeap)
      /\ UNCHANGED <<asSlots, asBack, asAlloc, asLocal, asLive, asMarked, asPc, asIndex, asObj, asRoots, asSkips, asAborted>>
  BY DEF AsSweepArray, AsMutatorVars, AsFree
<1>01. DOMAIN ptrs = AsGarbageEntries /\ \A i \in AsGarbageEntries : ptrs[i] = asSlots[AsLiveStack][i]
  OBVIOUS
<1>02. AsLiveStack \in AsStacks /\ asBack[AsLiveStack] \in 0 .. AsCapacity
  BY DEF AsInv, AsTypeInv, AsStacks, AsLiveStack, AsOther
<1>03. AsGarbageEntries \subseteq AsIndexes
  BY <1>02, AsAssumption DEF AsGarbageEntries, AsIndexes
<1>04. objs = AsL \ asLive
  BY <1>01 DEF AsGarbageEntries, AsL, AsContents
<1>05. ~twice
  BY <1>0, <1>01, <1>03 DEF AsOnce, AsGarbageEntries
<1> HIDE DEF ptrs, objs, twice
<1>1. /\ asGc.phase = "sweep_array" /\ asGc' = [asGc EXCEPT !.phase = "reset"]
      /\ asHeap' = asHeap \ (AsL \ asLive)
      /\ asBadFree' = (asBadFree \/ ~ (AsL \ asLive) \subseteq asHeap)
      /\ UNCHANGED <<asSlots, asBack, asAlloc, asLocal, asLive, asMarked, asPc, asIndex, asObj, asRoots, asSkips, asAborted>>
  <2>1. asBadFree' = (asBadFree \/ ~ objs \subseteq asHeap)
    BY <1>0, <1>05, Zenon
  <2> QED BY <1>0, <1>04, <2>1
<1>2. AsTypeInv /\ AsKnowledge /\ AsSafety /\ AsPlaces
  BY DEF AsInv
<1>3. asGc'.phase = "reset" /\ asGc'.by = asGc.by /\ asGc'.sticky = asGc.sticky
      /\ asGc' \in [phase : AsPhases, by : AsThreads \union {AsDaemon}, sticky : BOOLEAN]
  BY <1>1, <1>2 DEF AsTypeInv, AsPhases
<1>4. AsReserved' = AsReserved
  BY <1>1, <1>3 DEF AsReserved
<1>5. asGc.sticky /\ (asGc.by # AsDaemon => asPc[asGc.by] = "collect")
  BY <1>1, <1>2 DEF AsPlaces
<1>6. /\ AsAbortInv' /\ AsTypeInv' /\ AsPlaces' /\ AsStacksClean' /\ AsSegmentsAreFresh' /\ AsReserveBound'
      /\ AsA' = AsA /\ AsL' = AsL /\ AsInHand' = AsInHand /\ AsInUse' = AsInUse
  <2>1. asHeap' \in SUBSET AsObjects /\ asLive' \in SUBSET AsObjects /\ asMarked' \in SUBSET AsObjects
    BY <1>1, <1>2 DEF AsTypeInv
  <2> QED BY <1>1, <1>3, <1>4, <1>5, <2>1, AsCollectorFrame
<1>7. AsKnown = asLive \union AsA \union AsL /\ AsKnown' = asLive \union AsA
  BY <1>1, <1>3, <1>6 DEF AsKnown
<1>8. AsL \intersect AsInUse \subseteq asLive /\ AsL \subseteq asHeap /\ asLive \subseteq asHeap /\ asMarked = {}
  BY <1>1, <1>2, <1>5 DEF AsSafety, AsKnowledge
<1>9. AsKnowledge'
  <2>1. asHeap' \subseteq AsKnown' \union AsInHand'
    BY <1>1, <1>2, <1>6, <1>7 DEF AsKnowledge
  <2>2. asRoots' \subseteq AsKnown'
    BY <1>1, <1>2, <1>7, <1>8 DEF AsKnowledge, AsInUse
  <2>3. ASSUME NEW t \in AsThreads, asPc'[t] = "collect" PROVE asObj'[t] \in AsKnown'
    <3>1. asObj[t] \in AsInUse
      BY <1>1, <2>3, AsWaitingInHand DEF AsInUse
    <3> QED BY <1>1, <1>2, <1>7, <1>8, <2>3, <3>1 DEF AsKnowledge
  <2> QED BY <1>1, <1>8, <2>1, <2>2, <2>3 DEF AsKnowledge
<1>10. AsSafety'
  <2>1. ~asBadFree'
    <3>1. ~asBadFree /\ (AsL \ asLive) \subseteq asHeap
      BY <1>2, <1>8 DEF AsSafety
    <3> QED BY <1>1, <3>1, Zenon
  <2>2. AsInUse' \subseteq asHeap' /\ asMarked' \subseteq asHeap' /\ asLive' \subseteq asHeap'
    BY <1>1, <1>2, <1>6, <1>8 DEF AsSafety
  <2> QED BY <1>3, <2>1, <2>2 DEF AsSafety
<1> QED BY <1>6, <1>9, <1>10 DEF AsInv, AsAbortInv

\* The spaces are swept.
LEMMA AsSweepKeeps ==
  ASSUME AsInv, AsSweep
  PROVE  AsInv'
<1>1. /\ asGc.phase = "sweep" /\ asGc' = [asGc EXCEPT !.phase = "swap_bitmaps"]
      /\ asHeap' = asHeap \ (asLive \ asMarked)
      /\ asBadFree' = (asBadFree \/ ~ (asLive \ asMarked) \subseteq asHeap)
      /\ UNCHANGED <<asSlots, asBack, asAlloc, asLocal, asLive, asMarked, asPc, asIndex, asObj, asRoots, asSkips, asAborted>>
  BY DEF AsSweep, AsMutatorVars, AsFree
<1>2. AsTypeInv /\ AsKnowledge /\ AsSafety /\ AsPlaces
  BY DEF AsInv
<1>3. asGc'.phase = "swap_bitmaps" /\ asGc'.by = asGc.by /\ asGc'.sticky = asGc.sticky
      /\ asGc' \in [phase : AsPhases, by : AsThreads \union {AsDaemon}, sticky : BOOLEAN]
  BY <1>1, <1>2 DEF AsTypeInv, AsPhases
<1>4. AsReserved' = AsReserved
  BY <1>1, <1>3 DEF AsReserved
<1>5. ~asGc.sticky /\ (asGc.by # AsDaemon => asPc[asGc.by] = "collect")
  BY <1>1, <1>2 DEF AsPlaces
<1>6. /\ AsAbortInv' /\ AsTypeInv' /\ AsPlaces' /\ AsStacksClean' /\ AsSegmentsAreFresh' /\ AsReserveBound'
      /\ AsA' = AsA /\ AsL' = AsL /\ AsInHand' = AsInHand /\ AsInUse' = AsInUse
  <2>1. asHeap' \in SUBSET AsObjects /\ asLive' \in SUBSET AsObjects /\ asMarked' \in SUBSET AsObjects
    BY <1>1, <1>2 DEF AsTypeInv
  <2> QED BY <1>1, <1>3, <1>4, <1>5, <2>1, AsCollectorFrame
<1>7. AsKnown = asLive \union AsA \union AsL /\ AsKnown' = asMarked \union AsA /\ AsL = {}
  BY <1>1, <1>3, <1>6, AsLiveStackIsEmpty DEF AsKnown
<1>8. asLive \intersect AsInUse \subseteq asMarked /\ asLive \subseteq asHeap
  BY <1>1, <1>2 DEF AsSafety
<1>9. AsKnowledge'
  <2>1. asHeap' \subseteq AsKnown' \union AsInHand'
    BY <1>1, <1>2, <1>6, <1>7 DEF AsKnowledge
  <2>2. asRoots' \subseteq AsKnown'
    BY <1>1, <1>2, <1>7, <1>8 DEF AsKnowledge, AsInUse
  <2>3. ASSUME NEW t \in AsThreads, asPc'[t] = "collect" PROVE asObj'[t] \in AsKnown'
    <3>1. asObj[t] \in AsInUse
      BY <1>1, <2>3, AsWaitingInHand DEF AsInUse
    <3> QED BY <1>1, <1>2, <1>7, <1>8, <2>3, <3>1 DEF AsKnowledge
  <2>4. asMarked' \subseteq asLive' \union AsA' \union AsL'
    BY <1>1, <1>2, <1>6 DEF AsKnowledge
  <2> QED BY <1>3, <1>5, <2>1, <2>2, <2>3, <2>4 DEF AsKnowledge
<1>10. AsSafety'
  <2>1. ~asBadFree'
    <3>1. ~asBadFree /\ (asLive \ asMarked) \subseteq asHeap
      BY <1>2, <1>8 DEF AsSafety
    <3> QED BY <1>1, <3>1, Zenon
  <2>2. AsInUse' \subseteq asHeap' /\ asMarked' \subseteq asHeap' /\ AsL' \subseteq asHeap'
    BY <1>1, <1>2, <1>6, <1>7, <1>8 DEF AsSafety
  <2> QED BY <1>3, <2>1, <2>2 DEF AsSafety
<1> QED BY <1>6, <1>9, <1>10 DEF AsInv, AsAbortInv

\* The end of a collection: who waited for it goes back to the bump, and nobody's slot of the
\* reserve is accounted for differently.
LEMMA AsFinishKeeps ==
  ASSUME AsInv, asGc.phase \in {"reset", "swap_bitmaps"}, AsFinish,
         UNCHANGED <<asAlloc, asLocal, asIndex, asObj, asRoots, asHeap, asBadFree, asSkips, asAborted>>
  PROVE  /\ AsAbortInv' /\ AsPlaces' /\ AsReserved' = AsReserved /\ AsInHand' = AsInHand
         /\ asGc'.phase = "none" /\ ~asGc'.sticky
         /\ asGc' \in [phase : AsPhases, by : AsThreads \union {AsDaemon}, sticky : BOOLEAN]
         /\ asPc' \in [AsThreads -> AsPcs]
         /\ \A t \in AsThreads : asPc'[t] = "collect" => asPc[t] = "collect"
<1>1. AsTypeInv /\ AsPlaces /\ AsAbortInv
  BY DEF AsInv
<1>2. asGc'.phase = "none" /\ ~asGc'.sticky /\ asGc'.by = AsDaemon
      /\ asGc' \in [phase : AsPhases, by : AsThreads \union {AsDaemon}, sticky : BOOLEAN]
  BY DEF AsFinish, AsNoGc, AsPhases
<1>3. asPc \in [AsThreads -> AsPcs] /\ asGc.by \in AsThreads \union {AsDaemon}
  BY <1>1 DEF AsTypeInv
<1>4. asGc.by # AsDaemon => asPc[asGc.by] = "collect"
  BY <1>1 DEF AsPlaces
<1>5. /\ asPc' \in [AsThreads -> AsPcs]
      /\ \A t \in AsThreads : asPc'[t] = IF t = asGc.by THEN "bump" ELSE asPc[t]
  BY <1>3, AsAssumption DEF AsFinish, AsPcs
<1>6. AsPlaces'
  <2>1. asObj' = asObj /\ asIndex' = asIndex
    OBVIOUS
  <2>2. ASSUME NEW t \in AsThreads
        PROVE  /\ asPc'[t] = "run" <=> asObj'[t] = AsNull
               /\ asPc'[t] = "bump_cas" => asIndex'[t] + AsSegmentSize < AsGrowthLimit
               /\ asPc'[t] = "reserve_cas" => asIndex'[t] < AsCapacity
    <3>1. CASE t = asGc.by
      <4>1. asPc[t] = "collect" /\ asPc'[t] = "bump"
        BY <3>1, <1>4, <1>5, AsAssumption
      <4> QED BY <4>1, <2>1, <1>1 DEF AsPlaces
    <3>2. CASE t # asGc.by
      BY <3>2, <1>5, <2>1, <1>1 DEF AsPlaces
    <3> QED BY <3>1, <3>2
  <2> QED BY <1>2, <2>2 DEF AsPlaces
<1>7. AsReserved' = AsReserved
  BY <1>2, <1>5 DEF AsReserved
<1>8. AsInHand' = AsInHand
  BY DEF AsInHand
<1> QED BY <1>1, <1>2, <1>5, <1>6, <1>7, <1>8 DEF AsAbortInv

\* Reset of the live stack keeps both stacks clean and the segments fresh.
LEMMA AsResetKeeps ==
  ASSUME AsInv, AsReset(AsLiveStack), UNCHANGED <<asAlloc, asLocal>>
  PROVE  /\ AsA' = AsA /\ AsL' = {} /\ AsStacksClean' /\ AsSegmentsAreFresh'
         /\ asBack'[asAlloc] = asBack[asAlloc]
         /\ asSlots' \in [AsStacks -> [AsIndexes -> AsObjects \union {AsNull}]]
         /\ asBack' \in [AsStacks -> 0 .. AsCapacity]
<1>1. AsTypeInv /\ asAlloc \in AsStacks /\ AsLiveStack \in AsStacks /\ AsLiveStack # asAlloc /\ AsLiveStack' = AsLiveStack
  BY DEF AsInv, AsTypeInv, AsStacks, AsLiveStack, AsOther
<1>2. /\ asSlots' \in [AsStacks -> [AsIndexes -> AsObjects \union {AsNull}]]
      /\ asBack' \in [AsStacks -> 0 .. AsCapacity]
  BY <1>1, AsAssumption DEF AsReset, AsEmpty, AsTypeInv
<1>3. /\ asBack'[asAlloc] = asBack[asAlloc] /\ asBack'[AsLiveStack] = 0
      /\ asSlots'[asAlloc] = asSlots[asAlloc]
      /\ \A i \in AsIndexes : asSlots'[AsLiveStack][i] = AsNull
  BY <1>1 DEF AsReset, AsEmpty, AsTypeInv
<1>4. AsStacks = {asAlloc, AsLiveStack}
  BY <1>1 DEF AsStacks
<1>5. AsStacksClean'
  BY <1>1, <1>3, <1>4 DEF AsInv, AsStacksClean
<1>6. AsSegmentsAreFresh'
  BY <1>3 DEF AsInv, AsSegmentsAreFresh
<1>7. AsA' = AsA /\ AsL' = {}
  BY <1>1, AsStackReset
<1> QED BY <1>2, <1>3, <1>5, <1>6, <1>7

\* The end of a sticky collection.
LEMMA AsSweepArrayResetKeeps ==
  ASSUME AsInv, AsSweepArrayReset
  PROVE  AsInv'
<1>1. /\ asGc.phase = "reset" /\ AsReset(AsLiveStack) /\ AsFinish
      /\ UNCHANGED <<asAlloc, asLocal, asLive, asMarked, asHeap, asBadFree, asIndex, asObj, asRoots, asSkips, asAborted>>
  BY DEF AsSweepArrayReset
<1>2. AsTypeInv /\ AsKnowledge /\ AsSafety /\ AsPlaces /\ AsReserveBound
  BY DEF AsInv
<1>3. /\ AsAbortInv' /\ AsPlaces' /\ AsReserved' = AsReserved /\ AsInHand' = AsInHand
      /\ asGc'.phase = "none" /\ ~asGc'.sticky
      /\ asGc' \in [phase : AsPhases, by : AsThreads \union {AsDaemon}, sticky : BOOLEAN]
      /\ asPc' \in [AsThreads -> AsPcs]
      /\ \A t \in AsThreads : asPc'[t] = "collect" => asPc[t] = "collect"
  BY <1>1, AsFinishKeeps
<1>4. /\ AsA' = AsA /\ AsL' = {} /\ AsStacksClean' /\ AsSegmentsAreFresh'
      /\ asBack'[asAlloc] = asBack[asAlloc]
      /\ asSlots' \in [AsStacks -> [AsIndexes -> AsObjects \union {AsNull}]]
      /\ asBack' \in [AsStacks -> 0 .. AsCapacity]
  BY <1>1, AsResetKeeps
<1>5. AsTypeInv'
  BY <1>1, <1>2, <1>3, <1>4 DEF AsTypeInv
<1>6. AsReserveBound'
  BY <1>1, <1>2, <1>3, <1>4 DEF AsReserveBound
<1>7. AsKnown = asLive \union AsA /\ AsKnown' = asLive \union AsA /\ asMarked = {}
  BY <1>1, <1>2, <1>3, <1>4 DEF AsKnown, AsKnowledge, AsPlaces
<1>8. AsKnowledge'
  <2>1. \A t \in AsThreads : asPc'[t] = "collect" => asObj'[t] \in AsKnown'
    BY <1>1, <1>2, <1>3, <1>7 DEF AsKnowledge
  <2> QED BY <1>1, <1>2, <1>3, <1>7, <2>1 DEF AsKnowledge
<1>9. AsInUse' = AsInUse
  BY <1>1, <1>3, <1>4 DEF AsInUse
<1>10. AsSafety'
  BY <1>1, <1>2, <1>3, <1>4, <1>7, <1>9 DEF AsSafety
<1> QED BY <1>3, <1>4, <1>5, <1>6, <1>8, <1>10 DEF AsInv, AsAbortInv

\* A full collection takes the live stack into the live bitmap.
LEMMA AsMarkAllocStackAsLiveKeeps ==
  ASSUME AsInv, AsMarkAllocStackAsLive
  PROVE  AsInv'
<1>1. /\ asGc.phase = "mark_live" /\ AsReset(AsLiveStack) /\ asLive' = asLive \union AsL
      /\ asGc' = [asGc EXCEPT !.phase = "sweep"]
      /\ UNCHANGED <<asAlloc, asLocal, asMarked, asHeap, asBadFree, asPc, asIndex, asObj, asRoots, asSkips, asAborted>>
  BY DEF AsMarkAllocStackAsLive, AsMutatorVars, AsL
<1>2. AsAbortInv /\ AsTypeInv /\ AsKnowledge /\ AsSafety /\ AsPlaces /\ AsReserveBound
  BY DEF AsInv
<1>3. asGc'.phase = "sweep" /\ asGc'.by = asGc.by /\ asGc'.sticky = asGc.sticky /\ ~asGc.sticky
      /\ asGc' \in [phase : AsPhases, by : AsThreads \union {AsDaemon}, sticky : BOOLEAN]
  BY <1>1, <1>2 DEF AsTypeInv, AsPhases, AsPlaces
<1>4. /\ AsA' = AsA /\ AsL' = {} /\ AsStacksClean' /\ AsSegmentsAreFresh'
      /\ asBack'[asAlloc] = asBack[asAlloc]
      /\ asSlots' \in [AsStacks -> [AsIndexes -> AsObjects \union {AsNull}]]
      /\ asBack' \in [AsStacks -> 0 .. AsCapacity]
  BY <1>1, AsResetKeeps
<1>5. AsReserved' = AsReserved /\ AsInHand' = AsInHand
  BY <1>1, <1>3 DEF AsReserved, AsInHand
<1>6. AsPlaces'
  BY <1>1, <1>2, <1>3 DEF AsPlaces
<1>7. AsL \subseteq asHeap /\ asLive \subseteq asHeap /\ (asLive \union AsL) \intersect AsInUse \subseteq asMarked
  BY <1>1, <1>2 DEF AsSafety
<1>8. AsTypeInv'
  <2>1. asLive' \in SUBSET AsObjects
    BY <1>1, <1>2, <1>7 DEF AsTypeInv
  <2> QED BY <1>1, <1>2, <1>3, <1>4, <2>1 DEF AsTypeInv
<1>9. AsReserveBound'
  BY <1>1, <1>2, <1>4, <1>5 DEF AsReserveBound
<1>10. AsKnown = asLive \union AsA \union AsL /\ AsKnown' = AsKnown
  BY <1>1, <1>3, <1>4 DEF AsKnown
<1>11. AsKnowledge'
  BY <1>1, <1>2, <1>3, <1>4, <1>5, <1>10 DEF AsKnowledge
<1>12. AsInUse' = AsInUse
  BY <1>1, <1>4, <1>5 DEF AsInUse
<1>13. AsSafety'
  BY <1>1, <1>2, <1>3, <1>4, <1>7, <1>12 DEF AsSafety
<1> QED BY <1>1, <1>2, <1>4, <1>6, <1>8, <1>9, <1>11, <1>13 DEF AsInv, AsAbortInv

\* The end of a full collection.
LEMMA AsSwapBitmapsKeeps ==
  ASSUME AsInv, AsSwapBitmaps
  PROVE  AsInv'
<1>1. /\ asGc.phase = "swap_bitmaps" /\ asLive' = asMarked /\ asMarked' = {} /\ AsFinish
      /\ UNCHANGED <<asSlots, asBack, asAlloc, asLocal, asHeap, asBadFree, asIndex, asObj, asRoots, asSkips, asAborted>>
  BY DEF AsSwapBitmaps
<1>2. AsTypeInv /\ AsKnowledge /\ AsSafety /\ AsPlaces /\ AsReserveBound /\ AsStacksClean /\ AsSegmentsAreFresh
  BY DEF AsInv
<1>3. /\ AsAbortInv' /\ AsPlaces' /\ AsReserved' = AsReserved /\ AsInHand' = AsInHand
      /\ asGc'.phase = "none" /\ ~asGc'.sticky
      /\ asGc' \in [phase : AsPhases, by : AsThreads \union {AsDaemon}, sticky : BOOLEAN]
      /\ asPc' \in [AsThreads -> AsPcs]
      /\ \A t \in AsThreads : asPc'[t] = "collect" => asPc[t] = "collect"
  BY <1>1, AsFinishKeeps
<1>4. AsA' = AsA /\ AsL' = {} /\ AsL = {}
  BY <1>1, AsStackFrame, AsLiveStackIsEmpty
<1>5. AsTypeInv'
  BY <1>1, <1>2, <1>3 DEF AsTypeInv
<1>6. AsReserveBound'
  BY <1>1, <1>2, <1>3 DEF AsReserveBound
<1>7. AsStacksClean' /\ AsSegmentsAreFresh'
  BY <1>1, <1>2 DEF AsStacksClean, AsSegmentsAreFresh, AsLiveStack, AsOther
<1>8. AsKnown = asMarked \union AsA /\ AsKnown' = asMarked \union AsA
  BY <1>1, <1>3, <1>4 DEF AsKnown
<1>9. AsKnowledge'
  <2>1. \A t \in AsThreads : asPc'[t] = "collect" => asObj'[t] \in AsKnown'
    BY <1>1, <1>2, <1>3, <1>8 DEF AsKnowledge
  <2> QED BY <1>1, <1>2, <1>3, <1>8, <2>1 DEF AsKnowledge
<1>10. AsInUse' = AsInUse
  BY <1>1, <1>3, <1>4 DEF AsInUse
<1>11. AsSafety'
  BY <1>1, <1>2, <1>3, <1>4, <1>10 DEF AsSafety
<1> QED BY <1>3, <1>5, <1>6, <1>7, <1>9, <1>11 DEF AsInv, AsAbortInv

\* The pause: the marks now hold all that is in use, and the stacks are swapped.
LEMMA AsPauseKeeps ==
  ASSUME AsInv, AsPause
  PROVE  AsInv'
<1>1. /\ asGc.phase = "marking" /\ \A t \in AsThreads : asPc[t] \in {"run", "collect"}
      /\ asAlloc' = AsLiveStack /\ asLocal' = [t \in AsThreads |-> AsNoSegment]
      /\ asGc' = [asGc EXCEPT !.phase = IF asGc.sticky THEN "sweep_array" ELSE "mark_live"]
      /\ UNCHANGED <<asSlots, asBack, asHeap, asBadFree, asPc, asIndex, asObj, asRoots, asAborted>>
      /\ asSkips' = 0 /\ ~asAborted
  BY DEF AsPause, AsMutatorVars, AsRevokeAll
<1>2. \/ asGc.sticky /\ asLive' = asLive \union asRoots \union AsInHand /\ asMarked' = asMarked
      \/ ~asGc.sticky /\ asMarked' = asMarked \union asRoots \union AsInHand /\ asLive' = asLive
  BY DEF AsPause, AsReachable
<1>3. AsAbortInv /\ AsTypeInv /\ AsKnowledge /\ AsSafety /\ AsPlaces /\ AsStacksClean
  BY DEF AsInv
<1>4. /\ asGc'.phase = IF asGc.sticky THEN "sweep_array" ELSE "mark_live"
      /\ asGc'.by = asGc.by /\ asGc'.sticky = asGc.sticky
      /\ asGc' \in [phase : AsPhases, by : AsThreads \union {AsDaemon}, sticky : BOOLEAN]
  BY <1>1, <1>3 DEF AsTypeInv, AsPhases
<1>5. asAlloc \in AsStacks /\ asAlloc' \in AsStacks /\ AsLiveStack' = asAlloc /\ asBack[AsLiveStack] = 0
  BY <1>1, <1>3 DEF AsTypeInv, AsStacks, AsLiveStack, AsOther, AsStacksClean
<1>6. AsA' = {} /\ AsL' = AsA /\ AsL = {} /\ AsInHand' = AsInHand
  <2>1. AsL = {}
    BY <1>1, AsLiveStackIsEmpty
  <2>2. AsA' = AsL
    BY <1>1 DEF AsA, AsL, AsContents
  <2>3. AsL' = AsA
    BY <1>1, <1>5 DEF AsA, AsL, AsContents
  <2>4. AsInHand' = AsInHand
    BY <1>1 DEF AsInHand
  <2> QED BY <2>1, <2>2, <2>3, <2>4
<1>7. AsKnown = asLive \union AsA /\ AsKnown' = asLive' \union AsA
  BY <1>1, <1>4, <1>6 DEF AsKnown
<1>8. asRoots \union AsInHand \subseteq asHeap /\ asRoots \union AsInHand \subseteq AsKnown
  <2>1. \A x \in AsInHand : x \in AsKnown
    <3> SUFFICES ASSUME NEW x \in AsInHand PROVE x \in AsKnown
      OBVIOUS
    <3>1. PICK t \in AsThreads : asObj[t] = x /\ x # AsNull
      BY AsInHandIs
    <3>2. asPc[t] = "collect"
      BY <1>1, <1>3, <3>1 DEF AsPlaces
    <3> QED BY <1>3, <3>1, <3>2 DEF AsKnowledge
  <2> QED BY <1>3, <2>1 DEF AsKnowledge, AsSafety, AsInUse
<1>9. asLive \subseteq asHeap /\ AsA \subseteq asHeap /\ asMarked \subseteq asHeap /\ asMarked \subseteq asLive \union AsA
  BY <1>1, <1>3, <1>6 DEF AsKnowledge, AsSafety, AsInUse
<1>10. AsTypeInv'
  <2>1. asLive' \in SUBSET AsObjects /\ asMarked' \in SUBSET AsObjects
    BY <1>2, <1>3, <1>8 DEF AsTypeInv
  <2>2. asLocal' \in [AsThreads -> [stack : AsStacks, top : Nat, end : Nat]]
    BY <1>1 DEF AsNoSegment, AsStacks
  <2> QED BY <1>1, <1>3, <1>4, <1>5, <2>1, <2>2 DEF AsTypeInv
<1>11. AsPlaces'
  BY <1>1, <1>3, <1>4 DEF AsPlaces
<1>12. AsStacksClean' /\ AsSegmentsAreFresh'
  BY <1>1, <1>3, <1>4 DEF AsStacksClean, AsSegmentsAreFresh, AsNoSegment
<1>13. AsReserveBound'
  <2>1. Cardinality(AsReserved') \in Nat
    BY AsReservedFinite DEF AsReserved
  <2>2. asBack'[asAlloc'] = 0 /\ asSkips' = 0
    BY <1>1, <1>5
  <2> QED BY <2>1, <2>2, AsAssumption DEF AsReserveBound
<1>14. AsKnowledge'
  <2>1. asLive \subseteq asLive' /\ AsKnown \subseteq AsKnown'
    BY <1>2, <1>7
  <2>2. asMarked' \subseteq asLive' \union AsA' \union AsL'
    BY <1>2, <1>6, <1>7, <1>8, <1>9
  <2>3. asGc'.phase = "none" \/ asGc'.sticky => asMarked' = {}
    BY <1>2, <1>3, <1>4 DEF AsKnowledge
  <2>4. asHeap' \subseteq AsKnown' \union AsInHand' /\ asRoots' \subseteq AsKnown'
    BY <1>1, <1>3, <1>6, <2>1 DEF AsKnowledge
  <2>5. \A t \in AsThreads : asPc'[t] = "collect" => asObj'[t] \in AsKnown'
    BY <1>1, <1>3, <2>1 DEF AsKnowledge
  <2> QED BY <2>2, <2>3, <2>4, <2>5 DEF AsKnowledge
<1>15. AsInUse' = asRoots \union AsInHand
  BY <1>1, <1>6 DEF AsInUse
<1>16. AsSafety'
  <2>1. ~asBadFree' /\ AsInUse' \subseteq asHeap' /\ asMarked' \subseteq asHeap' /\ asLive' \subseteq asHeap' /\ AsL' \subseteq asHeap'
    BY <1>1, <1>2, <1>3, <1>6, <1>8, <1>9, <1>15 DEF AsSafety
  <2>2. asGc'.phase = "sweep_array" => AsL' \intersect AsInUse' \subseteq asLive'
    BY <1>2, <1>4, <1>15
  <2>3. asGc'.phase \in {"mark_live", "sweep"} => (asLive' \union AsL') \intersect AsInUse' \subseteq asMarked'
    BY <1>2, <1>4, <1>15
  <2> QED BY <2>1, <2>2, <2>3 DEF AsSafety
<1> QED BY <1>1, <1>3, <1>10, <1>11, <1>12, <1>13, <1>14, <1>16 DEF AsInv, AsAbortInv

\* What has an entry in the allocation stack is allocated.
LEMMA AsEnteredInHeap ==
  ASSUME AsInv, NEW x, x # AsNull, AsEntered(x)
  PROVE  x \in asHeap
<1>1. PICK i \in AsIndexes : asSlots[asAlloc][i] = x
  BY DEF AsEntered
<1>2. asAlloc \in AsStacks /\ asBack[asAlloc] \in 0 .. AsCapacity /\ AsTypeInv
  BY DEF AsInv, AsTypeInv
<1>3. i < asBack[asAlloc]
  BY <1>1, <1>2, AsAssumption DEF AsInv, AsStacksClean, AsIndexes
<1>4. x \in AsA
  BY <1>1, <1>2, <1>3, AsContentsIs DEF AsA
<1> QED BY <1>4 DEF AsInv, AsSafety, AsInUse

\* Steps that enter nothing and put nothing down.
LEMMA AsOnceFrame ==
  ASSUME AsInv, AsOnce, UNCHANGED <<asAlloc, asObj>>, asBack'[asAlloc] = asBack[asAlloc],
         asSlots' = asSlots \/ (asSlots'[asAlloc] = asSlots[asAlloc] /\ asGc'.phase # "sweep_array"),
         \A t \in AsThreads :
            asPc'[t] \in {"reserve", "reserve_cas"} =>
               asPc[t] \in {"reserve", "reserve_cas"} \/ asBack[asAlloc] + AsSegmentSize >= AsGrowthLimit,
         asGc'.phase = "sweep_array" => asGc.phase = "sweep_array" /\ asLive' = asLive
  PROVE  AsOnce'
<1>1. AsInHand' = AsInHand /\ asSlots'[asAlloc] = asSlots[asAlloc] /\ AsLiveStack' = AsLiveStack
  BY DEF AsInHand, AsLiveStack
<1>2. \A x : AsEntered(x)' <=> AsEntered(x)
  BY <1>1 DEF AsEntered
<1>3. \A t \in AsThreads :
         asPc'[t] \in {"reserve", "reserve_cas"} \/ (asObj'[t] # AsNull /\ AsEntered(asObj[t])') =>
             asBack'[asAlloc'] + AsSegmentSize >= AsGrowthLimit
  BY <1>1, <1>2 DEF AsOnce
<1>4. \A t, u \in AsThreads : asObj'[t] = asObj'[u] /\ asObj'[t] # AsNull => t = u
  BY DEF AsOnce
<1>5. \A i, j \in AsIndexes :
         i # j /\ asSlots'[asAlloc'][i] = asSlots'[asAlloc'][j] => asSlots'[asAlloc'][i] \in AsInHand' \union {AsNull}
  BY <1>1 DEF AsOnce
<1>6. asGc'.phase = "sweep_array" =>
         \A i, j \in AsIndexes :
             i # j /\ asSlots'[AsLiveStack'][i] = asSlots'[AsLiveStack'][j] =>
                 asSlots'[AsLiveStack'][i] \in asLive' \union {AsNull}
  BY <1>1 DEF AsOnce
<1> QED BY <1>3, <1>4, <1>5, <1>6 DEF AsOnce

\* A thread enters an object into a free slot of the allocation stack: one that is new, or its own
\* when it has found the stack full, or its own for the first time.
LEMMA AsOncePush ==
  ASSUME AsInv, AsOnce, UNCHANGED <<asAlloc, asGc, asLive>>,
         NEW k \in AsIndexes, NEW obj \in AsObjects, asSlots[asAlloc][k] = AsNull,
         \A s \in AsStacks : \A i \in AsIndexes :
            asSlots'[s][i] = IF s = asAlloc /\ i = k THEN obj ELSE asSlots[s][i],
         \A t \in AsThreads :
            asPc'[t] \in {"reserve", "reserve_cas"} => asPc[t] \in {"reserve", "reserve_cas"},
         asBack[asAlloc] + AsSegmentSize >= AsGrowthLimit => asBack'[asAlloc] + AsSegmentSize >= AsGrowthLimit,
         \A t \in AsThreads : asObj'[t] \in {asObj[t], AsNull},
         \/ obj \notin asHeap /\ asObj' = asObj
         \/ asBack[asAlloc] + AsSegmentSize >= AsGrowthLimit /\ obj \in AsInHand /\ asObj' = asObj
         \/ /\ ~(asBack[asAlloc] + AsSegmentSize >= AsGrowthLimit)
            /\ \E t \in AsThreads : asObj[t] = obj /\ asObj'[t] = AsNull
  PROVE  AsOnce'
<1>1. /\ asAlloc \in AsStacks /\ AsLiveStack \in AsStacks /\ AsLiveStack # asAlloc /\ AsLiveStack' = AsLiveStack
      /\ obj # AsNull
  BY AsAssumption DEF AsInv, AsTypeInv, AsStacks, AsLiveStack, AsOther
<1>2. /\ \A i \in AsIndexes : asSlots'[asAlloc'][i] = IF i = k THEN obj ELSE asSlots[asAlloc][i]
      /\ \A i \in AsIndexes : asSlots'[AsLiveStack'][i] = asSlots[AsLiveStack][i]
  BY <1>1
<1>3. \A t, u \in AsThreads : asObj'[t] = asObj'[u] /\ asObj'[t] # AsNull => t = u
  BY DEF AsOnce
<1>4. asGc'.phase = "sweep_array" =>
         \A i, j \in AsIndexes :
             i # j /\ asSlots'[AsLiveStack'][i] = asSlots'[AsLiveStack'][j] =>
                 asSlots'[AsLiveStack'][i] \in asLive' \union {AsNull}
  BY <1>2 DEF AsOnce
<1>5. \A x : AsEntered(x)' <=> x = obj \/ (x # AsNull /\ AsEntered(x)) \/ (x = AsNull /\ AsEntered(x)')
  BY <1>2 DEF AsEntered
<1>6. CASE obj \notin asHeap /\ asObj' = asObj
  <2>1. AsInHand' = AsInHand /\ ~AsEntered(obj) /\ obj \notin AsInHand
    BY <1>1, <1>6, AsEnteredInHeap DEF AsInHand, AsInv, AsSafety, AsInUse
  <2>2. \A t \in AsThreads : asObj[t] # obj
    BY <1>1, <2>1, AsInHandIs
  <2>3. \A t \in AsThreads :
           asPc'[t] \in {"reserve", "reserve_cas"} \/ (asObj'[t] # AsNull /\ AsEntered(asObj[t])') =>
               asBack'[asAlloc'] + AsSegmentSize >= AsGrowthLimit
    BY <1>5, <1>6, <2>2 DEF AsOnce
  <2>4. \A i, j \in AsIndexes :
           i # j /\ asSlots'[asAlloc'][i] = asSlots'[asAlloc'][j] => asSlots'[asAlloc'][i] \in AsInHand' \union {AsNull}
    BY <1>2, <2>1 DEF AsOnce, AsEntered
  <2> QED BY <1>3, <1>4, <2>3, <2>4 DEF AsOnce
<1>7. CASE asBack[asAlloc] + AsSegmentSize >= AsGrowthLimit /\ obj \in AsInHand /\ asObj' = asObj
  <2>1. AsInHand' = AsInHand
    BY <1>7 DEF AsInHand
  <2>2. \A t \in AsThreads :
           asPc'[t] \in {"reserve", "reserve_cas"} \/ (asObj'[t] # AsNull /\ AsEntered(asObj[t])') =>
               asBack'[asAlloc'] + AsSegmentSize >= AsGrowthLimit
    BY <1>7
  <2>3. \A i, j \in AsIndexes :
           i # j /\ asSlots'[asAlloc'][i] = asSlots'[asAlloc'][j] => asSlots'[asAlloc'][i] \in AsInHand' \union {AsNull}
    BY <1>2, <1>7, <2>1 DEF AsOnce
  <2> QED BY <1>3, <1>4, <2>2, <2>3 DEF AsOnce
<1>8. CASE /\ ~(asBack[asAlloc] + AsSegmentSize >= AsGrowthLimit)
           /\ \E t \in AsThreads : asObj[t] = obj /\ asObj'[t] = AsNull
  <2>1. \A t \in AsThreads : /\ asPc[t] \notin {"reserve", "reserve_cas"}
                             /\ asObj[t] # AsNull => ~AsEntered(asObj[t])
    BY <1>8 DEF AsOnce
  <2>2. ~AsEntered(obj) /\ \A x \in AsInHand : ~AsEntered(x)
    BY <1>1, <1>8, <2>1, AsInHandIs
  <2>3. \A t \in AsThreads : asObj'[t] # obj
    BY <1>1, <1>8 DEF AsOnce
  <2>4. \A t \in AsThreads :
           asPc'[t] \in {"reserve", "reserve_cas"} \/ (asObj'[t] # AsNull /\ AsEntered(asObj[t])') =>
               asBack'[asAlloc'] + AsSegmentSize >= AsGrowthLimit
    BY <1>5, <2>1, <2>3
  <2>5. \A i, j \in AsIndexes :
           i # j /\ asSlots[asAlloc][i] = asSlots[asAlloc][j] => asSlots[asAlloc][i] = AsNull
    BY <2>2 DEF AsOnce, AsEntered
  <2>6. \A i, j \in AsIndexes :
           i # j /\ asSlots'[asAlloc'][i] = asSlots'[asAlloc'][j] => asSlots'[asAlloc'][i] \in AsInHand' \union {AsNull}
    BY <1>2, <2>2, <2>5 DEF AsEntered
  <2> QED BY <1>3, <1>4, <2>4, <2>6 DEF AsOnce
<1> QED BY <1>6, <1>7, <1>8

\* An allocation, in the segment or with the object in hand.
LEMMA AsOnceAllocate ==
  ASSUME AsInv, AsOnce, NEW t \in AsThreads, NEW obj \in AsObjects, AsAllocate(t, obj)
  PROVE  AsOnce'
<1>1. /\ asPc[t] = "run" /\ obj \notin asHeap /\ asObj[t] = AsNull /\ obj # AsNull
      /\ asObj \in [AsThreads -> AsObjects \union {AsNull}] /\ asPc \in [AsThreads -> AsPcs]
      /\ UNCHANGED <<asBack, asAlloc, asGc, asLive>>
  BY AsAssumption DEF AsAllocate, AsGcVars, AsInv, AsTypeInv, AsPlaces
<1>2. CASE asLocal[t].top < asLocal[t].end
  <2> DEFINE k == asLocal[t].top
  <2>1. /\ asSlots' = [asSlots EXCEPT ![asLocal[t].stack][k] = obj]
        /\ asObj' = [asObj EXCEPT ![t] = AsNull] /\ asPc' = asPc
    BY <1>2 DEF AsAllocate, AsPushed
  <2>2. asObj' = asObj
    BY <1>1, <2>1
  <2>3. k \in Nat /\ asLocal[t].end \in Nat /\ asBack[asAlloc] \in 0 .. AsCapacity /\ asAlloc \in AsStacks
    BY DEF AsInv, AsTypeInv
  <2>4. k \in k .. asLocal[t].end - 1
    BY <1>2, <2>3
  <2>5. asLocal[t].stack = asAlloc /\ asLocal[t].end <= asBack[asAlloc] /\ asSlots[asAlloc][k] = AsNull
    BY <2>4 DEF AsInv, AsSegmentsAreFresh
  <2>6. k \in AsIndexes
    BY <1>2, <2>3, <2>5, AsAssumption DEF AsIndexes
  <2>7. \A s \in AsStacks : \A i \in AsIndexes : asSlots'[s][i] = IF s = asAlloc /\ i = k THEN obj ELSE asSlots[s][i]
    BY <2>1, <2>3, <2>5, <2>6 DEF AsInv, AsTypeInv
  <2> HIDE DEF k
  <2> QED BY <1>1, <2>1, <2>2, <2>5, <2>6, <2>7, AsOncePush
<1>3. CASE ~(asLocal[t].top < asLocal[t].end)
  <2>1. asSlots' = asSlots /\ asPc' = [asPc EXCEPT ![t] = "bump"] /\ asObj' = [asObj EXCEPT ![t] = obj]
    BY <1>3 DEF AsAllocate
  <2>2. /\ asObj'[t] = obj /\ asPc'[t] = "bump"
        /\ \A u \in AsThreads \ {t} : asObj'[u] = asObj[u] /\ asPc'[u] = asPc[u]
    BY <1>1, <2>1
  <2>3. ~AsEntered(obj) /\ obj \notin AsInHand
    BY <1>1, AsEnteredInHeap DEF AsInv, AsSafety, AsInUse
  <2>4. \A u \in AsThreads : asObj[u] # obj
    BY <1>1, <2>3, AsInHandIs
  <2>5. AsInHand \subseteq AsInHand'
    <3>1. \A y : y \in AsInHand' <=> y # AsNull /\ \E u \in AsThreads : asObj'[u] = y
      BY DEF AsInHand
    <3> QED BY <1>1, <2>2, <3>1, AsInHandIs
  <2>6. AsLiveStack' = AsLiveStack /\ \A y : AsEntered(y)' <=> AsEntered(y)
    BY <1>1, <2>1 DEF AsLiveStack, AsEntered
  <2>7. \A v, u \in AsThreads : asObj'[v] = asObj'[u] /\ asObj'[v] # AsNull => v = u
    BY <2>2, <2>4 DEF AsOnce
  <2>8. \A u \in AsThreads :
           asPc'[u] \in {"reserve", "reserve_cas"} \/ (asObj'[u] # AsNull /\ AsEntered(asObj[u])') =>
               asBack'[asAlloc'] + AsSegmentSize >= AsGrowthLimit
    BY <1>1, <2>2, <2>3, <2>6 DEF AsOnce
  <2>9. \A i, j \in AsIndexes :
           i # j /\ asSlots'[asAlloc'][i] = asSlots'[asAlloc'][j] => asSlots'[asAlloc'][i] \in AsInHand' \union {AsNull}
    BY <1>1, <2>1, <2>5 DEF AsOnce
  <2> QED BY <1>1, <2>1, <2>6, <2>7, <2>8, <2>9 DEF AsOnce
<1> QED BY <1>2, <1>3

\* The compare-and-swaps of the bump and of the reserve.
LEMMA AsOnceCas ==
  ASSUME AsInv, AsOnce, NEW t \in AsThreads, AsBumpCas(t) \/ AsReserveCas(t)
  PROVE  AsOnce'
<1>1. /\ UNCHANGED <<asAlloc, asGc, asLive>>
      /\ asObj \in [AsThreads -> AsObjects \union {AsNull}] /\ asPc \in [AsThreads -> AsPcs]
      /\ asIndex \in [AsThreads -> Nat] /\ asBack \in [AsStacks -> 0 .. AsCapacity] /\ asAlloc \in AsStacks
      /\ asSlots \in [AsStacks -> [AsIndexes -> AsObjects \union {AsNull}]]
      /\ asPc[t] \in {"bump_cas", "reserve_cas"} /\ asObj[t] # AsNull /\ asObj[t] \in AsObjects
  BY DEF AsBumpCas, AsReserveCas, AsGcVars, AsInv, AsTypeInv, AsPlaces
<1> DEFINE k == asIndex[t]
           obj == asObj[t]
<1>2. CASE asPc[t] = "bump_cas" /\ asBack[asAlloc] = k /\ AsTakeSegment(t)
  <2>1. /\ asBack' = [asBack EXCEPT ![asAlloc] = k + AsSegmentSize]
        /\ asSlots' = [asSlots EXCEPT ![asAlloc][k] = obj]
        /\ asObj' = [asObj EXCEPT ![t] = AsNull] /\ asPc' = [asPc EXCEPT ![t] = "run"]
    BY <1>2 DEF AsTakeSegment, AsPushed
  <2>2. k + AsSegmentSize < AsGrowthLimit /\ k \in Nat
    BY <1>1, <1>2 DEF AsInv, AsPlaces
  <2>3. Cardinality(AsThreads) \in Nat
    BY AsReservedFinite
  <2>4. k \in AsIndexes /\ ~(asBack[asAlloc] + AsSegmentSize >= AsGrowthLimit)
    BY <1>2, <2>2, <2>3, AsAssumption DEF AsIndexes
  <2>5. asSlots[asAlloc][k] = AsNull
    BY <1>1, <1>2, <2>2, <2>4 DEF AsInv, AsStacksClean
  <2>6. \A s \in AsStacks : \A i \in AsIndexes : asSlots'[s][i] = IF s = asAlloc /\ i = k THEN obj ELSE asSlots[s][i]
    BY <1>1, <2>1, <2>4
  <2>7. /\ \A u \in AsThreads : asPc'[u] \in {"reserve", "reserve_cas"} => asPc[u] \in {"reserve", "reserve_cas"}
        /\ \A u \in AsThreads : asObj'[u] \in {asObj[u], AsNull}
        /\ asObj[t] = obj /\ asObj'[t] = AsNull
    BY <1>1, <2>1
  <2> HIDE DEF k, obj
  <2>8. obj \in AsObjects
    BY <1>1 DEF obj
  <2> QED BY <1>1, <2>4, <2>5, <2>6, <2>7, <2>8, AsOncePush
<1>3. CASE /\ asPc[t] = "reserve_cas" /\ asBack[asAlloc] = k
           /\ asBack' = [asBack EXCEPT ![asAlloc] = @ + 1]
           /\ asSlots' = [asSlots EXCEPT ![asAlloc][k] = obj]
           /\ asPc' = [asPc EXCEPT ![t] = "collect"] /\ asObj' = asObj
  <2>1. k < AsCapacity /\ k \in Nat
    BY <1>1, <1>3 DEF AsInv, AsPlaces
  <2>2. k \in AsIndexes
    BY <2>1, AsAssumption DEF AsIndexes
  <2>3. asSlots[asAlloc][k] = AsNull
    BY <1>1, <1>3, <2>1, <2>2 DEF AsInv, AsStacksClean
  <2>4. asBack[asAlloc] + AsSegmentSize >= AsGrowthLimit /\ asBack'[asAlloc] + AsSegmentSize >= AsGrowthLimit
    <3>1. asBack[asAlloc] + AsSegmentSize >= AsGrowthLimit
      BY <1>3 DEF AsOnce
    <3> QED BY <1>1, <1>3, <2>1, <3>1, AsAssumption
  <2>5. \A s \in AsStacks : \A i \in AsIndexes : asSlots'[s][i] = IF s = asAlloc /\ i = k THEN obj ELSE asSlots[s][i]
    BY <1>1, <1>3, <2>2
  <2>6. /\ \A u \in AsThreads : asPc'[u] \in {"reserve", "reserve_cas"} => asPc[u] \in {"reserve", "reserve_cas"}
        /\ \A u \in AsThreads : asObj'[u] \in {asObj[u], AsNull}
        /\ obj \in AsInHand /\ asObj' = asObj
    BY <1>1, <1>3, AsInHandIs
  <2> HIDE DEF k, obj
  <2>7. obj \in AsObjects
    BY <1>1 DEF obj
  <2> QED BY <1>1, <2>2, <2>3, <2>4, <2>5, <2>6, <2>7, AsOncePush
<1>4. CASE \E pc \in {"bump", "reserve"} :
              /\ pc = "reserve" => asPc[t] = "reserve_cas"
              /\ asPc' = [asPc EXCEPT ![t] = pc] /\ UNCHANGED <<asBack, asSlots, asObj>>
  BY <1>1, <1>4, AsOnceFrame
<1>5. ASSUME AsBumpCas(t) PROVE AsOnce'
  BY <1>5, <1>2, <1>4 DEF AsBumpCas
<1>6. ASSUME AsReserveCas(t) PROVE AsOnce'
  BY <1>6, <1>3, <1>4 DEF AsReserveCas
<1> QED BY <1>5, <1>6

\* The pause marks what is in hand, and the new allocation stack is empty.
LEMMA AsOncePause ==
  ASSUME AsInv, AsOnce, AsPause
  PROVE  AsOnce'
<1>1. /\ asGc.phase = "marking" /\ \A t \in AsThreads : asPc[t] \in {"run", "collect"}
      /\ asAlloc' = AsLiveStack /\ UNCHANGED <<asSlots, asBack, asPc, asObj>>
      /\ asGc' = [asGc EXCEPT !.phase = IF asGc.sticky THEN "sweep_array" ELSE "mark_live"]
      /\ asGc.sticky => AsInHand \subseteq asLive'
  BY DEF AsPause, AsMutatorVars, AsReachable
<1>2. asAlloc \in AsStacks /\ asAlloc' \in AsStacks /\ AsLiveStack' = asAlloc /\ asBack[asAlloc'] = 0
  BY <1>1 DEF AsInv, AsTypeInv, AsStacks, AsLiveStack, AsOther, AsStacksClean
<1>3. \A i \in AsIndexes : asSlots'[asAlloc'][i] = AsNull
  BY <1>1, <1>2, AsAssumption DEF AsInv, AsStacksClean, AsIndexes
<1>4. asGc'.phase = "sweep_array" => asGc.sticky
  BY <1>1 DEF AsInv, AsTypeInv
<1>5. asGc'.phase = "sweep_array" =>
         \A i, j \in AsIndexes :
             i # j /\ asSlots'[AsLiveStack'][i] = asSlots'[AsLiveStack'][j] =>
                 asSlots'[AsLiveStack'][i] \in asLive' \union {AsNull}
  BY <1>1, <1>2, <1>4 DEF AsOnce
<1>6. \A t \in AsThreads : ~(asPc'[t] \in {"reserve", "reserve_cas"} \/ (asObj'[t] # AsNull /\ AsEntered(asObj[t])'))
  BY <1>1, <1>3 DEF AsEntered
<1>7. \A t, u \in AsThreads : asObj'[t] = asObj'[u] /\ asObj'[t] # AsNull => t = u
  BY <1>1 DEF AsOnce
<1> QED BY <1>3, <1>5, <1>6, <1>7 DEF AsOnce

\* No step lets a second entry for an object last longer than a thread holds it.
LEMMA AsOnceStep == AsInv /\ AsOnce /\ [AsNext]_asVars => AsOnce'
<1> SUFFICES ASSUME AsInv, AsOnce, [AsNext]_asVars PROVE AsOnce'
  OBVIOUS
<1>0. /\ asPc \in [AsThreads -> AsPcs] /\ asBack \in [AsStacks -> 0 .. AsCapacity] /\ asAlloc \in AsStacks
      /\ AsLiveStack \in AsStacks /\ AsLiveStack # asAlloc
      /\ asSlots \in [AsStacks -> [AsIndexes -> AsObjects \union {AsNull}]]
      /\ asGc \in [phase : AsPhases, by : AsThreads \union {AsDaemon}, sticky : BOOLEAN]
  BY DEF AsInv, AsTypeInv, AsStacks, AsLiveStack, AsOther
<1>1. ASSUME NEW t \in AsThreads, NEW obj \in AsObjects, AsAllocate(t, obj) PROVE AsOnce'
  BY <1>1, AsOnceAllocate
<1>2. ASSUME NEW t \in AsThreads, AsBumpCas(t) \/ AsReserveCas(t) PROVE AsOnce'
  BY <1>2, AsOnceCas
<1>3. ASSUME NEW t \in AsThreads, AsBumpLoad(t) \/ AsReserveLoad(t) \/ AsSkipGc(t) PROVE AsOnce'
  <2>1. UNCHANGED <<asSlots, asBack, asAlloc, asObj, asGc, asLive>>
    BY <1>3 DEF AsBumpLoad, AsReserveLoad, AsSkipGc, AsGcVars
  <2>2. \A u \in AsThreads :
           asPc'[u] \in {"reserve", "reserve_cas"} =>
              asPc[u] \in {"reserve", "reserve_cas"} \/ asBack[asAlloc] + AsSegmentSize >= AsGrowthLimit
    BY <1>0, <1>3 DEF AsBumpLoad, AsReserveLoad, AsSkipGc, AsGo
  <2> QED BY <2>1, <2>2, AsOnceFrame
<1>4. ASSUME NEW obj \in AsObjects, AsDrop(obj) PROVE AsOnce'
  BY <1>4, AsOnceFrame DEF AsDrop, AsGcVars
<1>5. ASSUME NEW by \in AsThreads \union {AsDaemon}, NEW sticky \in BOOLEAN, AsStartGc(by, sticky) PROVE AsOnce'
  BY <1>5, AsOnceFrame DEF AsStartGc, AsMutatorVars
<1>6. ASSUME AsSweepArray \/ AsSweep PROVE AsOnce'
  <2>1. UNCHANGED <<asSlots, asBack, asAlloc, asObj, asPc, asLive>>
    BY <1>6 DEF AsSweepArray, AsSweep, AsMutatorVars
  <2>2. asGc'.phase # "sweep_array"
    BY <1>0, <1>6 DEF AsSweepArray, AsSweep
  <2> QED BY <2>1, <2>2, AsOnceFrame
<1>7. ASSUME AsSweepArrayReset \/ AsMarkAllocStackAsLive PROVE AsOnce'
  <2>1. UNCHANGED <<asAlloc, asObj>> /\ AsReset(AsLiveStack)
    BY <1>7 DEF AsSweepArrayReset, AsMarkAllocStackAsLive, AsMutatorVars
  <2>2. asBack'[asAlloc] = asBack[asAlloc] /\ asSlots'[asAlloc] = asSlots[asAlloc]
    BY <1>0, <2>1 DEF AsReset
  <2>3. asGc'.phase # "sweep_array"
    BY <1>0, <1>7 DEF AsSweepArrayReset, AsMarkAllocStackAsLive, AsFinish, AsNoGc
  <2>4. \A t \in AsThreads : asPc'[t] \in {"reserve", "reserve_cas"} => asPc[t] \in {"reserve", "reserve_cas"}
    BY <1>0, <1>7 DEF AsSweepArrayReset, AsMarkAllocStackAsLive, AsFinish, AsMutatorVars
  <2> QED BY <2>1, <2>2, <2>3, <2>4, AsOnceFrame
<1>8. ASSUME AsSwapBitmaps PROVE AsOnce'
  <2>1. UNCHANGED <<asSlots, asBack, asAlloc, asObj>> /\ asGc'.phase # "sweep_array"
    BY <1>8 DEF AsSwapBitmaps, AsFinish, AsNoGc
  <2>2. \A t \in AsThreads : asPc'[t] \in {"reserve", "reserve_cas"} => asPc[t] \in {"reserve", "reserve_cas"}
    BY <1>0, <1>8 DEF AsSwapBitmaps, AsFinish
  <2> QED BY <2>1, <2>2, AsOnceFrame
<1>9. ASSUME AsPause PROVE AsOnce'
  BY <1>9, AsOncePause
<1>10. ASSUME UNCHANGED asVars PROVE AsOnce'
  <2>1. UNCHANGED <<asSlots, asBack, asAlloc, asObj, asPc, asLive, asGc>>
    BY <1>10 DEF asVars
  <2> QED BY <2>1, AsOnceFrame
<1> QED BY <1>1, <1>2, <1>3, <1>4, <1>5, <1>6, <1>7, <1>8, <1>9, <1>10 DEF AsNext

\* Every step keeps the invariant.
LEMMA AsInvStep == AsInv /\ AsOnce /\ [AsNext]_asVars => AsInv'
<1> SUFFICES ASSUME AsInv, AsOnce, [AsNext]_asVars PROVE AsInv'
  OBVIOUS
<1>1. ASSUME NEW t \in AsThreads, NEW obj \in AsObjects, AsAllocate(t, obj) PROVE AsInv'
  BY <1>1, AsAllocateFastKeeps, AsAllocateSlowKeeps
<1>2. ASSUME NEW t \in AsThreads,
             AsBumpLoad(t) \/ AsBumpCas(t) \/ AsReserveLoad(t) \/ AsReserveCas(t) \/ AsSkipGc(t)
      PROVE  AsInv'
  BY <1>2, AsBumpLoadKeeps, AsBumpCasKeeps, AsReserveLoadKeeps, AsReserveCasKeeps, AsSkipGcKeeps
<1>3. ASSUME NEW obj \in AsObjects, AsDrop(obj) PROVE AsInv'
  BY <1>3, AsDropKeeps
<1>4. ASSUME NEW by \in AsThreads \union {AsDaemon}, NEW sticky \in BOOLEAN, AsStartGc(by, sticky) PROVE AsInv'
  BY <1>4, AsStartGcKeeps
<1>5. ASSUME AsPause \/ AsSweepArray \/ AsSweepArrayReset \/ AsMarkAllocStackAsLive \/ AsSweep \/ AsSwapBitmaps
      PROVE  AsInv'
  BY <1>5, AsPauseKeeps, AsSweepArrayKeeps, AsSweepArrayResetKeeps, AsMarkAllocStackAsLiveKeeps, AsSweepKeeps,
     AsSwapBitmapsKeeps
<1>6. ASSUME UNCHANGED asVars PROVE AsInv'
  <2>1. AsReserved' = AsReserved /\ AsInHand' = AsInHand
    BY <1>6 DEF asVars, AsReserved, AsInHand
  <2>2. asHeap' \in SUBSET AsObjects /\ asLive' \in SUBSET AsObjects /\ asMarked' \in SUBSET AsObjects /\ asGc' = asGc
        /\ asGc' \in [phase : AsPhases, by : AsThreads \union {AsDaemon}, sticky : BOOLEAN]
    BY <1>6 DEF asVars, AsInv, AsTypeInv
  <2>3. UNCHANGED <<asSlots, asBack, asAlloc, asLocal, asPc, asIndex, asObj, asRoots, asSkips, asAborted>>
    BY <1>6 DEF asVars
  <2>4. /\ AsAbortInv' /\ AsTypeInv' /\ AsPlaces' /\ AsStacksClean' /\ AsSegmentsAreFresh' /\ AsReserveBound'
        /\ AsA' = AsA /\ AsL' = AsL /\ AsInHand' = AsInHand /\ AsInUse' = AsInUse
    BY <2>1, <2>2, <2>3, AsCollectorFrame DEF AsInv, AsPlaces
  <2>5. AsKnown' = AsKnown
    BY <1>6, <2>4 DEF asVars, AsKnown
  <2>6. AsKnowledge' /\ AsSafety'
    BY <1>6, <2>4, <2>5 DEF asVars, AsInv, AsKnowledge, AsSafety
  <2> QED BY <2>4, <2>6 DEF AsInv
<1> QED BY <1>1, <1>2, <1>3, <1>4, <1>5, <1>6 DEF AsNext

\* The invariant gives what the runs check.
LEMMA AsInvGives == AsInv => AsNothingForgotten /\ AsOnlyGarbageIsFreed
<1> SUFFICES ASSUME AsInv PROVE AsNothingForgotten /\ AsOnlyGarbageIsFreed
  OBVIOUS
<1>1. AsContents(0) \union AsContents(1) = AsA \union AsL
  <2>1. (asAlloc = 0 /\ AsLiveStack = 1) \/ (asAlloc = 1 /\ AsLiveStack = 0)
    BY DEF AsInv, AsTypeInv, AsStacks, AsLiveStack, AsOther
  <2> QED BY <2>1 DEF AsA, AsL
<1>2. AsKnown \subseteq asLive \union AsA \union AsL
  BY DEF AsInv, AsKnowledge, AsKnown
<1>3. asHeap \subseteq asLive \union AsContents(0) \union AsContents(1) \union AsInHand
  BY <1>1, <1>2 DEF AsInv, AsKnowledge
<1> QED BY <1>3 DEF AsInv, AsAbortInv, AsNothingForgotten, AsOnlyGarbageIsFreed, AsSafety, AsInUse

\* Every object is known to the collector (in the live bitmap or on one of the stacks) or is being
\* pushed by the thread that allocated it, whatever allocations and collections interleave: for any
\* number of threads and any sizes of the stacks, when the reserve has a slot for every thread.  The
\* CHECK on the push into the reserve (heap.cc:2801) fails only if CollectGarbageInternal has returned
\* without a collection more often, since the stacks were swapped, than the reserve has slots to spare.
THEOREM AsNothingForgottenHolds == AsSpec => []AsNothingForgotten
<1>1. AsInv => AsNothingForgotten
  BY AsInvGives
<1> QED BY <1>1, AsInvInit, AsOnceInit, AsInvStep, AsOnceStep, PTL DEF AsSpec

\* A collection, sticky or not, frees nothing that a root, a stack or a thread still refers to, and
\* gives no address to FreeList twice, whatever a thread has entered into the reserve.
THEOREM AsOnlyGarbageIsFreedHolds == AsSpec => []AsOnlyGarbageIsFreed
<1>1. AsInv => AsOnlyGarbageIsFreed
  BY AsInvGives
<1> QED BY <1>1, AsInvInit, AsOnceInit, AsInvStep, AsOnceStep, PTL DEF AsSpec

----------------------------------------------------------------------------
(* The local references. *)

\* A segment state.
IrSegments == [topIndex : 0 .. IrMaxEntries, numHoles : Nat]

\* The cookie of the frame at a depth, and the top of its segment, when the current segment is
\* seg, on top of cookie and of what is stacked.
IrLevel(cookie, stacked, d) == IF d = Len(stacked) THEN cookie ELSE stacked[d + 1]
IrTopOf(seg, cookie, stacked, d) ==
    IF d = Len(stacked) THEN seg.topIndex ELSE IrLevel(cookie, stacked, d + 1).topIndex

IrTypeInv(seg, cookie, stacked, live) ==
    /\ irTable \in [IrIndexes -> [serial : 0 .. IrPrevCount - 1, obj : IrObjects \union {IrNull}]]
    /\ irMade \in SUBSET [index : IrIndexes, serial : 0 .. IrPrevCount - 1, obj : IrObjects,
                          times : Nat, depth : Nat]
    /\ irAdds \in [IrIndexes -> Nat]
    /\ seg \in IrSegments /\ cookie \in IrSegments /\ stacked \in Seq(IrSegments)
    /\ live \subseteq irMade

\* The segments lie on top of each other, and none of them ends in a hole.
IrNested(seg, cookie, stacked) ==
    \A d \in 0 .. Len(stacked) :
        LET top == IrTopOf(seg, cookie, stacked, d)
            bottom == IrLevel(cookie, stacked, d).topIndex
        IN  /\ bottom <= cookie.topIndex /\ bottom <= top
            /\ \A e \in 0 .. d : IrLevel(cookie, stacked, e).topIndex <= bottom
            /\ d < Len(stacked) => top <= cookie.topIndex
            /\ top > bottom => ~IrIsNull(top - 1)

\* The holes below an index.
IrNullsBelow(n) == {i \in 0 .. n - 1 : IrIsNull(i)}
IrCounted(s) == s.numHoles = Cardinality(IrNullsBelow(s.topIndex))

IrAllCounted(seg, cookie, stacked) ==
    IrCounted(seg) /\ \A d \in 0 .. Len(stacked) : IrCounted(IrLevel(cookie, stacked, d))

\* The references to an entry are told apart by the fillings of the entry, and by its serial
\* until the serials come round.
IrSerials ==
    /\ \A r \in irMade : r.times <= irAdds[r.index]
    /\ \A r, s \in irMade : r.index = s.index /\ r.times = s.times => r = s
    /\ \A r \in irMade : ~IrWrapped(r) =>
          LET n == r.serial + (irAdds[r.index] - r.times)
          IN  irTable[r.index].serial = IF n < IrPrevCount THEN n ELSE n - IrPrevCount

\* A live reference is of its frame's segment; the last reference to an entry is live, or the
\* entry is empty.
IrOwned(seg, cookie, stacked, live) ==
    /\ \A r \in live : /\ r.depth <= Len(stacked)
                       /\ IrLevel(cookie, stacked, r.depth).topIndex <= r.index
    /\ \A r \in irMade \ live :
          r.times = irAdds[r.index] => r.index >= seg.topIndex \/ IrIsNull(r.index)

\* While no serial has come round, a live reference is the last one to its entry.
IrResolved(seg, cookie, stacked, live) ==
    (\A r \in irMade : ~IrWrapped(r)) =>
        \A r \in live : /\ r.times = irAdds[r.index] /\ irTable[r.index].obj = r.obj
                        /\ r.index < IrTopOf(seg, cookie, stacked, r.depth)

IrInvFor(seg, cookie, stacked, live) ==
    /\ IrTypeInv(seg, cookie, stacked, live) /\ IrNested(seg, cookie, stacked)
    /\ IrAllCounted(seg, cookie, stacked) /\ IrSerials /\ IrOwned(seg, cookie, stacked, live)
    /\ IrResolved(seg, cookie, stacked, live)

IrInv == IrInvFor(irSegment, irCookie, irStacked, irLive)

\* A nonempty set of naturals has a smallest element.
LEMMA NatHasMin ==
  ASSUME NEW T \in SUBSET Nat, T # {}
  PROVE  \E x \in T : \A y \in T : x <= y
<1>1. PICK x \in T : \A y \in T : ~(<<y, x>> \in OpToRel(<, Nat))
  BY NatLessThanWellFounded, WFMin
<1>2. \A y \in T : ~(y < x)
  BY <1>1 DEF OpToRel
<1> QED BY <1>2

\* A nonempty set of bounded naturals has a largest element, which is its Max.
LEMMA IntHasMax ==
  ASSUME NEW n \in Nat, NEW T \in SUBSET (0 .. n), T # {}
  PROVE  Max(T) \in T /\ \A y \in T : y <= Max(T)
<1> DEFINE U == {i \in 0 .. n : n - i \in T}
<1>1. U \in SUBSET Nat /\ U # {}
  <2>1. PICK z \in T : TRUE
    OBVIOUS
  <2>2. n - z \in U
    BY <2>1
  <2>3. U \in SUBSET Nat
    OBVIOUS
  <2> QED BY <2>2, <2>3
<1>2. PICK x \in U : \A y \in U : x <= y
  BY <1>1, NatHasMin
<1>3. n - x \in T /\ \A y \in T : y <= n - x
  <2>1. \A y \in T : n - y \in U
    OBVIOUS
  <2> QED BY <1>2, <2>1
<1>4. \E m \in T : \A y \in T : m >= y
  BY <1>3
<1>5. Max(T) = CHOOSE m \in T : \A y \in T : m >= y
  BY DEF Max
<1> QED BY <1>4, <1>5

\* Counting holes.
LEMMA IrNullsFinite ==
  ASSUME NEW n \in Nat
  PROVE  IsFiniteSet(IrNullsBelow(n)) /\ Cardinality(IrNullsBelow(n)) \in Nat
<1>1. IsFiniteSet(0 .. n - 1)
  BY FS_Interval
<1>2. IrNullsBelow(n) \in SUBSET (0 .. n - 1)
  BY DEF IrNullsBelow
<1> QED BY <1>1, <1>2, FS_Subset, FS_CardinalityType

\* The holes from m up to n.
LEMMA IrNullsSplit ==
  ASSUME NEW m \in Nat, NEW n \in Nat, m <= n
  PROVE  /\ Cardinality(IrNullsBelow(m)) <= Cardinality(IrNullsBelow(n))
         /\ Cardinality(IrNullsBelow(n)) <= Cardinality(IrNullsBelow(m)) + (n - m)
         /\ Cardinality(IrNullsBelow(m)) < Cardinality(IrNullsBelow(n)) <=> \E i \in m .. n - 1 : IrIsNull(i)
         /\ (\A i \in m .. n - 1 : IrIsNull(i)) => Cardinality(IrNullsBelow(n)) = Cardinality(IrNullsBelow(m)) + (n - m)
<1> DEFINE M == IrNullsBelow(m)
           N == IrNullsBelow(n)
           D == {i \in m .. n - 1 : IrIsNull(i)}
<1>1. IsFiniteSet(M) /\ IsFiniteSet(N) /\ Cardinality(M) \in Nat /\ Cardinality(N) \in Nat
  BY IrNullsFinite
<1>2. N = M \union D /\ M \intersect D = {}
  BY DEF IrNullsBelow
<1>3. IsFiniteSet(m .. n - 1) /\ Cardinality(m .. n - 1) = n - m
  <2>1. n - 1 \in Int /\ m \in Int
    OBVIOUS
  <2>2. IsFiniteSet(m .. n - 1) /\ Cardinality(m .. n - 1) = IF m > n - 1 THEN 0 ELSE n - 1 - m + 1
    BY <2>1, FS_Interval
  <2> QED BY <2>2
<1>4. IsFiniteSet(D) /\ Cardinality(D) \in Nat /\ Cardinality(D) <= n - m
  BY <1>3, FS_Subset, FS_CardinalityType
<1>5. Cardinality(N) = Cardinality(M) + Cardinality(D)
  <2>1. Cardinality(N) = Cardinality(M) + Cardinality(D) - Cardinality(M \intersect D)
    BY <1>1, <1>2, <1>4, FS_Union
  <2>2. Cardinality(M \intersect D) = 0
    BY <1>2, FS_EmptySet
  <2> QED BY <1>1, <1>4, <2>1, <2>2
<1>6. Cardinality(D) > 0 <=> \E i \in m .. n - 1 : IrIsNull(i)
  <2>1. Cardinality(D) = 0 <=> D = {}
    BY <1>4, FS_EmptySet
  <2>2. D = {} <=> ~ \E i \in m .. n - 1 : IrIsNull(i)
    OBVIOUS
  <2> HIDE DEF D
  <2> QED BY <1>4, <2>1, <2>2
<1>7. (\A i \in m .. n - 1 : IrIsNull(i)) => Cardinality(D) = n - m
  <2> SUFFICES ASSUME \A i \in m .. n - 1 : IrIsNull(i) PROVE Cardinality(D) = n - m
    OBVIOUS
  <2>1. D = m .. n - 1
    OBVIOUS
  <2> QED BY <2>1, <1>3
<1> HIDE DEF M, N, D
<1>8. /\ Cardinality(M) <= Cardinality(N) /\ Cardinality(N) <= Cardinality(M) + (n - m)
      /\ (Cardinality(M) < Cardinality(N) <=> Cardinality(D) > 0)
  BY <1>1, <1>4, <1>5
<1> QED BY <1>5, <1>6, <1>7, <1>8 DEF M, N

\* An entry is filled.
LEMMA IrNullsFill ==
  ASSUME NEW n \in Nat, NEW k \in Nat, irTable[k].obj = IrNull, irTable'[k].obj # IrNull,
         \A i \in (0 .. n - 1) \ {k} : irTable'[i].obj = irTable[i].obj
  PROVE  Cardinality(IrNullsBelow(n)') = IF k < n THEN Cardinality(IrNullsBelow(n)) - 1 ELSE Cardinality(IrNullsBelow(n))
<1>1. IsFiniteSet(IrNullsBelow(n)) /\ Cardinality(IrNullsBelow(n)) \in Nat
  BY IrNullsFinite
<1>2. IrNullsBelow(n)' = IrNullsBelow(n) \ {k} /\ (k \in IrNullsBelow(n) <=> k < n)
  BY DEF IrNullsBelow, IrIsNull
<1> QED BY <1>1, <1>2, FS_RemoveElement

\* An entry is emptied.
LEMMA IrNullsEmpty ==
  ASSUME NEW n \in Nat, NEW k \in Nat, irTable[k].obj # IrNull, irTable'[k].obj = IrNull,
         \A i \in (0 .. n - 1) \ {k} : irTable'[i].obj = irTable[i].obj
  PROVE  Cardinality(IrNullsBelow(n)') = IF k < n THEN Cardinality(IrNullsBelow(n)) + 1 ELSE Cardinality(IrNullsBelow(n))
<1>1. IsFiniteSet(IrNullsBelow(n)) /\ Cardinality(IrNullsBelow(n)) \in Nat
  BY IrNullsFinite
<1>2. /\ k < n => IrNullsBelow(n)' = IrNullsBelow(n) \union {k}
      /\ ~(k < n) => IrNullsBelow(n)' = IrNullsBelow(n)
      /\ k \notin IrNullsBelow(n)
  BY DEF IrNullsBelow, IrIsNull
<1> QED BY <1>1, <1>2, FS_AddElement

\* Nothing changes below an index.
LEMMA IrNullsSame ==
  ASSUME NEW n \in Nat, \A i \in 0 .. n - 1 : irTable'[i].obj = irTable[i].obj
  PROVE  IrNullsBelow(n)' = IrNullsBelow(n)
  BY DEF IrNullsBelow, IrIsNull

\* The empty table.
LEMMA IrInvInit == IrInit => IrInv
<1> SUFFICES ASSUME IrInit PROVE IrInv
  OBVIOUS
<1>1. IrFirstSegment \in IrSegments /\ IrFirstSegment.topIndex = 0 /\ IrFirstSegment.numHoles = 0
  BY IrAssumption DEF IrFirstSegment, IrSegments
<1>2. Len(irStacked) = 0 /\ irSegment = IrFirstSegment /\ irCookie = IrFirstSegment /\ irMade = {} /\ irLive = {}
      /\ irStacked \in Seq(IrSegments)
  BY DEF IrInit
<1>3. IrTypeInv(irSegment, irCookie, irStacked, irLive)
  BY <1>1, <1>2, IrAssumption DEF IrInit, IrTypeInv
<1>4. \A d \in 0 .. Len(irStacked) : d = 0 /\ IrLevel(irCookie, irStacked, d) = IrFirstSegment
                                     /\ IrTopOf(irSegment, irCookie, irStacked, d) = 0
  BY <1>1, <1>2 DEF IrLevel, IrTopOf
<1>5. IrNested(irSegment, irCookie, irStacked)
  <2>1. \A d \in 0 .. Len(irStacked) : \A e \in 0 .. d : e \in 0 .. Len(irStacked)
    BY <1>2
  <2> QED BY <1>1, <1>2, <1>4, <2>1 DEF IrNested
<1>6. IrCounted(IrFirstSegment)
  <2>1. IrNullsBelow(0) = {}
    BY DEF IrNullsBelow
  <2> QED BY <1>1, <2>1, FS_EmptySet DEF IrCounted
<1>7. IrAllCounted(irSegment, irCookie, irStacked)
  BY <1>2, <1>4, <1>6 DEF IrAllCounted
<1> QED BY <1>2, <1>3, <1>5, <1>7 DEF IrInv, IrInvFor, IrSerials, IrOwned, IrResolved

\* The index that Add takes is the end of the segment or a hole in it.
LEMMA IrAddIndexIs ==
  ASSUME NEW seg, NEW cookie, NEW stacked, NEW live, IrInvFor(seg, cookie, stacked, live),
         seg.topIndex # IrMaxEntries
  PROVE  LET index == IrAddIndex(seg, cookie)
         IN  /\ index \in IrIndexes /\ cookie.topIndex <= index /\ index <= seg.topIndex
             /\ index # seg.topIndex => IrIsNull(index) /\ index < seg.topIndex - 1
<1>1. /\ seg.topIndex \in 0 .. IrMaxEntries /\ cookie.topIndex \in 0 .. IrMaxEntries
      /\ seg.numHoles \in Nat /\ cookie.numHoles \in Nat /\ Len(stacked) \in Nat
  BY DEF IrInvFor, IrTypeInv, IrSegments
<1>2. IrLevel(cookie, stacked, Len(stacked)) = cookie /\ IrTopOf(seg, cookie, stacked, Len(stacked)) = seg.topIndex
  BY DEF IrLevel, IrTopOf
<1>3. /\ cookie.topIndex <= seg.topIndex
      /\ seg.topIndex > cookie.topIndex => ~IrIsNull(seg.topIndex - 1)
      /\ seg.numHoles = Cardinality(IrNullsBelow(seg.topIndex))
      /\ cookie.numHoles = Cardinality(IrNullsBelow(cookie.topIndex))
  <2>1. Len(stacked) \in 0 .. Len(stacked)
    BY <1>1
  <2> QED BY <1>1, <1>2, <2>1 DEF IrInvFor, IrNested, IrAllCounted, IrCounted
<1>4. CASE seg.numHoles - cookie.numHoles > 0
  <2> DEFINE S == {i \in 0 .. seg.topIndex - 2 : IrIsNull(i)}
  <2>1. PICK i \in cookie.topIndex .. seg.topIndex - 1 : IrIsNull(i)
    <3>1. cookie.topIndex \in Nat /\ seg.topIndex \in Nat /\ cookie.topIndex <= seg.topIndex
      BY <1>1, <1>3
    <3>2. Cardinality(IrNullsBelow(cookie.topIndex)) < Cardinality(IrNullsBelow(seg.topIndex))
      BY <1>1, <1>3, <1>4
    <3> QED BY <3>1, <3>2, IrNullsSplit
  <2>2. i \in S
    BY <1>1, <1>3, <2>1
  <2>3. S \in SUBSET (0 .. IrMaxEntries)
    BY <1>1, IrAssumption
  <2>4. Max(S) \in S /\ i <= Max(S)
    BY <2>2, <2>3, IntHasMax, IrAssumption
  <2>5. IrAddIndex(seg, cookie) = Max(S)
    BY <1>4 DEF IrAddIndex
  <2> QED BY <1>1, <2>1, <2>4, <2>5, IrAssumption DEF IrIndexes
<1>5. CASE ~(seg.numHoles - cookie.numHoles > 0)
  BY <1>1, <1>3, <1>5, IrAssumption DEF IrAddIndex, IrIndexes
<1> QED BY <1>4, <1>5

\* The serial of an entry after one more filling.
LEMMA IrSerialGoesOn ==
  ASSUME NEW s \in 0 .. IrPrevCount - 1, NEW a \in Nat, NEW t \in Nat, t <= a, a + 1 - t < IrPrevCount,
         NEW c, c = IF s + (a - t) < IrPrevCount THEN s + (a - t) ELSE (s + (a - t)) - IrPrevCount
  PROVE  (IF c + 1 = IrPrevCount THEN 0 ELSE c + 1) =
           IF s + ((a + 1) - t) < IrPrevCount THEN s + ((a + 1) - t) ELSE (s + ((a + 1) - t)) - IrPrevCount
<1>1. IrPrevCount \in Nat
  BY IrAssumption
<1>2. CASE s + (a - t) < IrPrevCount
  BY <1>1, <1>2
<1>3. CASE ~(s + (a - t) < IrPrevCount)
  BY <1>1, <1>3
<1> QED BY <1>2, <1>3

\* Add, to whatever segment.
LEMMA IrAddKeeps ==
  ASSUME NEW seg, NEW cookie, NEW stacked, NEW live, IrInvFor(seg, cookie, stacked, live),
         NEW obj \in IrObjects, IrAdd(seg, cookie, live, obj, Len(stacked)),
         irCookie' = cookie, irStacked' = stacked
  PROVE  IrInv'
<1>1. CASE seg.topIndex = IrMaxEntries
  <2>1. irSegment' = seg /\ irLive' = live /\ irTable' = irTable /\ irMade' = irMade /\ irAdds' = irAdds
    BY <1>1 DEF IrAdd
  <2>2. IrInvFor(seg, cookie, stacked, live)'
    BY <2>1 DEF IrInvFor, IrTypeInv, IrNested, IrAllCounted, IrCounted, IrNullsBelow, IrIsNull, IrSerials, IrWrapped,
                IrOwned, IrResolved
  <2> QED BY <2>1, <2>2 DEF IrInv
<1>2. CASE seg.topIndex # IrMaxEntries
  <2> DEFINE index == IrAddIndex(seg, cookie)
             serial == IrNextSerial(irTable[index].serial)
             ref == [index |-> index, serial |-> serial, obj |-> obj, times |-> irAdds[index] + 1, depth |-> Len(stacked)]
             top == seg.topIndex
             newTop == IF index = top THEN top + 1 ELSE top
             newSeg == IF index = top THEN [seg EXCEPT !.topIndex = @ + 1] ELSE [seg EXCEPT !.numHoles = @ - 1]
  <2>1. /\ irTable' = [irTable EXCEPT ![index] = [serial |-> serial, obj |-> obj]]
        /\ irSegment' = newSeg /\ irMade' = irMade \union {ref} /\ irLive' = live \union {ref}
        /\ irAdds' = [irAdds EXCEPT ![index] = @ + 1]
    BY <1>2 DEF IrAdd
  <2>2. /\ index \in IrIndexes /\ cookie.topIndex <= index /\ index <= top
        /\ index # top => IrIsNull(index) /\ index < top - 1
    BY <1>2, IrAddIndexIs
  <2>3. /\ IrTypeInv(seg, cookie, stacked, live) /\ IrNested(seg, cookie, stacked) /\ IrAllCounted(seg, cookie, stacked)
        /\ IrSerials /\ IrOwned(seg, cookie, stacked, live) /\ IrResolved(seg, cookie, stacked, live)
    BY DEF IrInvFor
  <2> HIDE DEF index
  <2>4. /\ top \in 0 .. IrMaxEntries /\ cookie.topIndex \in 0 .. IrMaxEntries /\ Len(stacked) \in Nat
        /\ seg.numHoles \in Nat /\ cookie.numHoles \in Nat
        /\ \A d \in 0 .. Len(stacked) : IrLevel(cookie, stacked, d) \in IrSegments
        /\ \A d \in 0 .. Len(stacked) : IrLevel(cookie, stacked, d).topIndex \in Nat
        /\ index \in 0 .. IrMaxEntries - 1 /\ obj # IrNull
    <3>1. \A d \in 0 .. Len(stacked) : IrLevel(cookie, stacked, d) \in IrSegments
      BY <2>3 DEF IrLevel, IrTypeInv
    <3> QED BY <2>2, <2>3, <3>1, IrAssumption DEF IrTypeInv, IrSegments, IrIndexes
  <2>5. /\ irTable[index].serial \in 0 .. IrPrevCount - 1 /\ serial \in 0 .. IrPrevCount - 1
        /\ irAdds[index] \in Nat
    BY <2>2, <2>3, IrAssumption DEF IrTypeInv, IrNextSerial
  <2>6. /\ irTable'[index] = [serial |-> serial, obj |-> obj] /\ irAdds'[index] = irAdds[index] + 1
        /\ irTable'[index].obj = obj /\ irTable'[index].serial = serial
        /\ \A i \in IrIndexes \ {index} : irTable'[i] = irTable[i] /\ irAdds'[i] = irAdds[i]
    BY <2>1, <2>2, <2>3 DEF IrTypeInv
  <2> DEFINE serial0 == irTable[index].serial
  <2>7. newSeg.topIndex = newTop /\ newTop \in 0 .. IrMaxEntries /\ (index < top => newSeg.numHoles = seg.numHoles - 1)
        /\ (index = top => newSeg.numHoles = seg.numHoles)
    BY <1>2, <2>2, <2>3, <2>4, IrAssumption DEF IrTypeInv, IrSegments
  <2>8. IrLevel(cookie, stacked, Len(stacked)) = cookie
    BY DEF IrLevel
  <2>9. /\ cookie.topIndex <= top
        /\ top > cookie.topIndex => ~IrIsNull(top - 1)
        /\ \A d \in 0 .. Len(stacked) : IrLevel(cookie, stacked, d).topIndex <= cookie.topIndex
    <3>1. IrTopOf(seg, cookie, stacked, Len(stacked)) = top
      BY DEF IrTopOf
    <3>2. Len(stacked) \in 0 .. Len(stacked)
      BY <2>4
    <3> QED BY <2>3, <2>8, <3>1, <3>2 DEF IrNested
  <2>10. \A i \in 0 .. top - 1 : i # index => irTable'[i] = irTable[i]
    BY <2>4, <2>6, IrAssumption DEF IrIndexes
  <2>11. IrCounted(irSegment)'
    <3>1. CASE index = top
      <4>2. seg.numHoles = Cardinality(IrNullsBelow(top))
        BY <2>3 DEF IrAllCounted, IrCounted
      <4>3. irSegment'.topIndex = newTop /\ irSegment'.numHoles = seg.numHoles
        BY <3>1, <2>1, <2>7
      <4>4. IrCounted(irSegment)' <=> irSegment'.numHoles = Cardinality(IrNullsBelow(irSegment.topIndex)')
        BY DEF IrCounted
      <4>5. IrNullsBelow(irSegment.topIndex)' = IrNullsBelow(top)
        BY <3>1, <2>4, <2>6, <2>10, <4>3 DEF IrNullsBelow, IrIsNull
      <4> QED BY <4>2, <4>3, <4>4, <4>5
    <3>2. CASE index # top
      <4>1. index \in Nat /\ top \in Nat /\ index < top /\ irTable[index].obj = IrNull /\ irTable'[index].obj # IrNull
        BY <3>2, <2>2, <2>4, <2>6 DEF IrIsNull
      <4>2. \A i \in (0 .. top - 1) \ {index} : irTable'[i].obj = irTable[i].obj
        BY <2>10
      <4>3. Cardinality(IrNullsBelow(top)') = Cardinality(IrNullsBelow(top)) - 1
        BY <4>1, <4>2, IrNullsFill
      <4>5. irSegment'.topIndex = top /\ irSegment'.numHoles = seg.numHoles - 1
        BY <3>2, <4>1, <2>1, <2>7
      <4>6. IrCounted(irSegment)' <=> irSegment'.numHoles = Cardinality(IrNullsBelow(top)')
        BY <4>5 DEF IrCounted, IrNullsBelow, IrIsNull
      <4>4. seg.numHoles = Cardinality(IrNullsBelow(top))
        BY <2>3 DEF IrAllCounted, IrCounted
      <4> QED BY <4>3, <4>4, <4>5, <4>6
    <3> QED BY <3>1, <3>2
  <2>12. newSeg \in IrSegments
    <3>1. CASE index = top
      BY <3>1, <2>3, <2>4, <2>7, IrAssumption DEF IrTypeInv, IrSegments
    <3>2. CASE index # top
      <4>1. newSeg.numHoles \in Nat
        <5>1. top \in Nat /\ cookie.topIndex \in Nat /\ index < top
          BY <3>2, <2>2, <2>4
        <5>2. seg.numHoles = Cardinality(IrNullsBelow(top)) /\ index \in IrNullsBelow(top)
          BY <2>2, <2>3, <2>4, <3>2 DEF IrAllCounted, IrCounted, IrNullsBelow
        <5>3. seg.numHoles # 0
          BY <5>1, <5>2, IrNullsFinite, FS_EmptySet
        <5> QED BY <2>4, <2>7, <5>1, <5>3
      <4>2. newSeg = [seg EXCEPT !.numHoles = seg.numHoles - 1] /\ seg \in IrSegments
        BY <3>2, <2>3 DEF IrTypeInv
      <4> HIDE DEF top
      <4> QED BY <4>1, <4>2 DEF IrSegments
    <3> QED BY <3>1, <3>2
  <2> HIDE DEF newSeg
  <2>13. IrTypeInv(irSegment, cookie, stacked, irLive)'
    <3>1. irTable' \in [IrIndexes -> [serial : 0 .. IrPrevCount - 1, obj : IrObjects \union {IrNull}]]
      BY <2>1, <2>2, <2>3, <2>5 DEF IrTypeInv
    <3>2. ref \in [index : IrIndexes, serial : 0 .. IrPrevCount - 1, obj : IrObjects, times : Nat, depth : Nat]
      BY <2>2, <2>4, <2>5
    <3>3. irAdds' \in [IrIndexes -> Nat]
      BY <2>1, <2>2, <2>3, <2>5 DEF IrTypeInv
    <3> HIDE DEF ref
    <3> QED BY <2>1, <2>3, <2>12, <3>1, <3>2, <3>3 DEF IrTypeInv
  <2>14. \A d \in 0 .. Len(stacked) :
            /\ d < Len(stacked) => IrTopOf(newSeg, cookie, stacked, d) = IrTopOf(seg, cookie, stacked, d)
            /\ d = Len(stacked) => IrTopOf(newSeg, cookie, stacked, d) = newTop
            /\ IrTopOf(seg, cookie, stacked, d) <= IrTopOf(newSeg, cookie, stacked, d)
            /\ IrTopOf(seg, cookie, stacked, d) <= top
            /\ IrTopOf(seg, cookie, stacked, d) \in Nat
    <3>1. \A d \in 0 .. Len(stacked) :
            /\ d < Len(stacked) => IrTopOf(newSeg, cookie, stacked, d) = IrTopOf(seg, cookie, stacked, d)
            /\ d = Len(stacked) => IrTopOf(newSeg, cookie, stacked, d) = newTop /\ IrTopOf(seg, cookie, stacked, d) = top
      BY <2>4, <2>7 DEF IrTopOf
    <3>2. \A d \in 0 .. Len(stacked) : d < Len(stacked) => IrTopOf(seg, cookie, stacked, d) = IrLevel(cookie, stacked, d + 1).topIndex
      BY <2>4 DEF IrTopOf
    <3>3. \A d \in 0 .. Len(stacked) : IrTopOf(seg, cookie, stacked, d) <= top /\ IrTopOf(seg, cookie, stacked, d) \in Nat
      BY <3>1, <3>2, <2>4, <2>9
    <3> HIDE DEF top
    <3> QED BY <3>1, <3>3, <2>4
  <2>15. IrNested(irSegment, cookie, stacked)'
    <3>0. \A d \in 0 .. Len(stacked) : \A e \in 0 .. d :
             IrLevel(cookie, stacked, e).topIndex <= IrLevel(cookie, stacked, d).topIndex
      BY <2>3 DEF IrNested
    <3> SUFFICES ASSUME NEW d \in 0 .. Len(stacked)
                 PROVE  LET tp == IrTopOf(newSeg, cookie, stacked, d)
                            bottom == IrLevel(cookie, stacked, d).topIndex
                        IN  /\ bottom <= cookie.topIndex /\ bottom <= tp
                            /\ d < Len(stacked) => tp <= cookie.topIndex
                            /\ tp > bottom => irTable'[tp - 1].obj # IrNull
      BY <2>1, <3>0 DEF IrNested, IrIsNull, IrTopOf, IrLevel
    <3>1. CASE d < Len(stacked)
      <4> DEFINE tp == IrTopOf(seg, cookie, stacked, d)
                 bottom == IrLevel(cookie, stacked, d).topIndex
      <4>1. /\ bottom <= cookie.topIndex /\ bottom <= tp /\ tp <= cookie.topIndex
            /\ (tp > bottom => ~IrIsNull(tp - 1))
        BY <3>1, <2>3 DEF IrNested
      <4>2. tp = IrTopOf(newSeg, cookie, stacked, d) /\ tp \in Nat /\ bottom \in Nat
        BY <3>1, <2>4, <2>14
      <4>3. tp > bottom => tp - 1 \in 0 .. top - 1 /\ tp - 1 # index
        BY <4>1, <4>2, <2>2, <2>4, <2>9
      <4>4. tp > bottom => irTable'[tp - 1].obj # IrNull
        BY <4>1, <4>3, <2>10 DEF IrIsNull
      <4> HIDE DEF tp, bottom, top
      <4> QED BY <4>1, <4>2, <4>4 DEF tp, bottom
    <3>2. CASE d = Len(stacked)
      <4>1. IrTopOf(newSeg, cookie, stacked, d) = newTop /\ IrLevel(cookie, stacked, d) = cookie
        BY <3>2, <2>8, <2>14
      <4>2. cookie.topIndex <= newTop
        BY <2>2, <2>4, <2>9
      <4>3. newTop > cookie.topIndex => irTable'[newTop - 1].obj # IrNull
        <5>1. CASE index = top
          <6>1. newTop - 1 = index
            BY <5>1, <2>4
          <6> QED BY <6>1, <2>4, <2>6
        <5>2. CASE index # top
          <6>1. newTop = top /\ top - 1 # index /\ (top > cookie.topIndex => top - 1 \in 0 .. top - 1)
            BY <5>2, <2>2, <2>4
          <6> QED BY <6>1, <2>9, <2>10 DEF IrIsNull
        <5> QED BY <5>1, <5>2
      <4> HIDE DEF newTop
      <4> QED BY <3>2, <4>1, <4>2, <4>3, <2>4
    <3> QED BY <3>1, <3>2, <2>4
  <2>16. IrAllCounted(irSegment, cookie, stacked)'
    <3>1. ASSUME NEW d \in 0 .. Len(stacked) PROVE IrCounted(IrLevel(cookie, stacked, d))'
      <4> DEFINE lev == IrLevel(cookie, stacked, d)
      <4>1. lev.topIndex \in Nat /\ \A i \in 0 .. lev.topIndex - 1 : irTable'[i].obj = irTable[i].obj
        BY <2>2, <2>4, <2>9, <2>10
      <4>2. IrNullsBelow(lev.topIndex)' = IrNullsBelow(lev.topIndex)
        BY <4>1 DEF IrNullsBelow, IrIsNull
      <4>3. lev.numHoles = Cardinality(IrNullsBelow(lev.topIndex))
        BY <2>3 DEF IrAllCounted, IrCounted
      <4>4. (IrLevel(cookie, stacked, d))' = lev
        BY DEF IrLevel
      <4> HIDE DEF lev
      <4> QED BY <4>2, <4>3, <4>4 DEF IrCounted
    <3> QED BY <2>11, <3>1 DEF IrAllCounted
  <2> HIDE DEF ref, serial, top, newTop
  <2>17. /\ ref.index = index /\ ref.serial = serial /\ ref.obj = obj /\ ref.times = irAdds[index] + 1
         /\ ref.depth = Len(stacked)
    BY DEF ref
  <2>18. \A r \in irMade : /\ r.index \in IrIndexes /\ r.serial \in 0 .. IrPrevCount - 1 /\ r.obj \in IrObjects
                            /\ r.times \in Nat /\ r.depth \in Nat
                            /\ irAdds[r.index] \in Nat /\ irTable[r.index].serial \in 0 .. IrPrevCount - 1
                            /\ r.times <= irAdds[r.index] /\ irAdds[r.index] <= irAdds'[r.index] /\ irAdds'[r.index] \in Nat
                            /\ (IrWrapped(r) => IrWrapped(r)')
    <3>1. \A r \in irMade : /\ r.index \in IrIndexes /\ r.serial \in 0 .. IrPrevCount - 1 /\ r.obj \in IrObjects
                            /\ r.times \in Nat /\ r.depth \in Nat
                            /\ irAdds[r.index] \in Nat /\ irTable[r.index].serial \in 0 .. IrPrevCount - 1
      BY <2>3 DEF IrTypeInv
    <3>2. \A r \in irMade : r.times <= irAdds[r.index]
      BY <2>3 DEF IrSerials
    <3>3. \A r \in irMade : irAdds[r.index] <= irAdds'[r.index] /\ irAdds'[r.index] \in Nat
      BY <3>1, <2>5, <2>6
    <3>4. \A r \in irMade : IrWrapped(r) => IrWrapped(r)'
      BY <3>1, <3>2, <3>3, IrAssumption DEF IrWrapped
    <3> QED BY <3>1, <3>2, <3>3, <3>4
  <2>19. IrSerials'
    <3>1. \A r \in irMade' : r.times <= irAdds'[r.index]
      BY <2>1, <2>5, <2>6, <2>17, <2>18
    <3>2. ASSUME NEW r \in irMade', NEW s \in irMade', r.index = s.index, r.times = s.times
          PROVE  r = s
      <4>1. \A q \in irMade : q.index = index => q.times <= irAdds[index]
        BY <2>18
      <4>2. \A q \in irMade : ~(q.index = index /\ q.times = irAdds[index] + 1)
        BY <4>1, <2>5, <2>18
      <4>3. CASE r = ref \/ s = ref
        BY <4>2, <4>3, <3>2, <2>1, <2>17
      <4>4. CASE r \in irMade /\ s \in irMade
        BY <4>4, <3>2, <2>3 DEF IrSerials
      <4> QED BY <4>3, <4>4, <2>1
    <3>3. ASSUME NEW r \in irMade', ~IrWrapped(r)'
          PROVE  LET n == r.serial + (irAdds'[r.index] - r.times)
                 IN  irTable'[r.index].serial = IF n < IrPrevCount THEN n ELSE n - IrPrevCount
      <4>1. CASE r = ref
        BY <4>1, <2>5, <2>6, <2>17, IrAssumption
      <4>2. CASE r \in irMade /\ r.index # index
        BY <4>2, <3>3, <2>3, <2>6, <2>18 DEF IrSerials, IrWrapped
      <4>3. CASE r \in irMade /\ r.index = index
        <5>1. ~IrWrapped(r) /\ irAdds[index] + 1 - r.times < IrPrevCount
          BY <4>3, <3>3, <2>5, <2>6, <2>18, IrAssumption DEF IrWrapped
        <5>2. irTable[index].serial = IF r.serial + (irAdds[index] - r.times) < IrPrevCount
                                      THEN r.serial + (irAdds[index] - r.times)
                                      ELSE (r.serial + (irAdds[index] - r.times)) - IrPrevCount
          BY <4>3, <5>1, <2>3, <2>18, IrAssumption DEF IrSerials
        <5>3. irTable'[index].serial = IF irTable[index].serial + 1 = IrPrevCount THEN 0 ELSE irTable[index].serial + 1
          BY <2>6 DEF serial, IrNextSerial
        <5>4. /\ r.serial \in 0 .. IrPrevCount - 1 /\ irAdds[index] \in Nat /\ r.times \in Nat
              /\ r.times <= irAdds[index] /\ irAdds[index] + 1 - r.times < IrPrevCount
              /\ irAdds'[r.index] = irAdds[index] + 1
          BY <4>3, <5>1, <2>5, <2>6, <2>18
        <5> DEFINE c == irTable[index].serial
        <5>6. irTable'[index].serial = IF c + 1 = IrPrevCount THEN 0 ELSE c + 1
          BY <5>3
        <5> HIDE DEF c
        <5>7. (IF c + 1 = IrPrevCount THEN 0 ELSE c + 1) =
                IF r.serial + ((irAdds[index] + 1) - r.times) < IrPrevCount
                THEN r.serial + ((irAdds[index] + 1) - r.times)
                ELSE (r.serial + ((irAdds[index] + 1) - r.times)) - IrPrevCount
          BY <5>2, <5>4, IrSerialGoesOn DEF c
        <5>8. irTable'[r.index].serial = IF r.serial + (irAdds'[r.index] - r.times) < IrPrevCount
                                         THEN r.serial + (irAdds'[r.index] - r.times)
                                         ELSE (r.serial + (irAdds'[r.index] - r.times)) - IrPrevCount
          BY <4>3, <5>4, <5>6, <5>7
        <5> QED BY <5>8
      <4> QED BY <4>1, <4>2, <4>3, <2>1
    <3> QED BY <3>1, <3>2, <3>3 DEF IrSerials, IrWrapped
  <2>20. newSeg.topIndex = newTop /\ top <= newTop /\ newTop \in Nat /\ top \in Nat
         /\ index < newTop /\ (index = top => newTop = top + 1) /\ (index # top => newTop = top)
    BY <2>2, <2>4, <2>7 DEF newTop
  <2>21. IrOwned(irSegment, cookie, stacked, irLive)'
    <3>1. ASSUME NEW r \in irLive'
          PROVE  r.depth <= Len(stacked) /\ IrLevel(cookie, stacked, r.depth).topIndex <= r.index
      <4>1. CASE r = ref
        BY <4>1, <2>2, <2>4, <2>8, <2>17
      <4>2. CASE r \in live
        BY <4>2, <2>3 DEF IrOwned
      <4> QED BY <4>1, <4>2, <2>1
    <3>2. ASSUME NEW r \in irMade' \ irLive', r.times = irAdds'[r.index]
          PROVE  r.index >= newTop \/ irTable'[r.index].obj = IrNull
      <4>1. r \in irMade \ live
        BY <3>2, <2>1
      <4>2. r.index # index
        BY <4>1, <3>2, <2>5, <2>6, <2>18
      <4>3. r.index >= top \/ irTable[r.index].obj = IrNull
        BY <4>1, <4>2, <3>2, <2>3, <2>6, <2>18 DEF IrOwned, IrIsNull, top
      <4> QED BY <4>1, <4>2, <4>3, <2>6, <2>18, <2>20 DEF IrIndexes
    <3> QED BY <2>1, <2>20, <3>1, <3>2 DEF IrOwned, IrIsNull, IrLevel
  <2>22. IrResolved(irSegment, cookie, stacked, irLive)'
    <3> SUFFICES ASSUME \A r \in irMade' : ~IrWrapped(r)', NEW r \in irLive'
                 PROVE  /\ r.times = irAdds'[r.index] /\ irTable'[r.index].obj = r.obj
                        /\ r.index < IrTopOf(newSeg, cookie, stacked, r.depth)
      BY <2>1 DEF IrResolved, IrWrapped, IrTopOf, IrLevel
    <3>1. CASE r = ref
      <4>1. IrTopOf(newSeg, cookie, stacked, r.depth) = newTop
        BY <3>1, <2>17, <2>20 DEF IrTopOf
      <4> QED BY <3>1, <4>1, <2>6, <2>17, <2>20
    <3>2. CASE r \in live
      <4>1. r \in irMade
        BY <3>2, <2>3 DEF IrTypeInv
      <4>2. \A q \in irMade : ~IrWrapped(q)
        BY <2>1, <2>18
      <4>3. r.times = irAdds[r.index] /\ irTable[r.index].obj = r.obj /\ r.index < IrTopOf(seg, cookie, stacked, r.depth)
        BY <3>2, <4>2, <2>3 DEF IrResolved
      <4>4. r.depth \in 0 .. Len(stacked)
        BY <3>2, <4>1, <2>3, <2>4, <2>18 DEF IrOwned
      <4>5. /\ IrTopOf(seg, cookie, stacked, r.depth) <= IrTopOf(newSeg, cookie, stacked, r.depth)
            /\ IrTopOf(seg, cookie, stacked, r.depth) <= top /\ IrTopOf(seg, cookie, stacked, r.depth) \in Nat
        BY <4>4, <2>14
      <4>6. IrTopOf(newSeg, cookie, stacked, r.depth) \in Nat
        BY <4>4, <2>4, <2>14, <2>20
      <4>7. r.index \in Nat /\ r.index \in IrIndexes /\ r.obj # IrNull
        BY <4>1, <2>18, IrAssumption DEF IrIndexes
      <4>8. r.index # index
        BY <4>3, <4>5, <4>7, <2>2, <2>20 DEF IrIsNull, top
      <4>9. r.times = irAdds'[r.index] /\ irTable'[r.index].obj = r.obj
        BY <4>3, <4>7, <4>8, <2>6
      <4> QED BY <4>3, <4>5, <4>6, <4>7, <4>9
    <3> QED BY <3>1, <3>2, <2>1
  <2>23. IrInvFor(irSegment, cookie, stacked, irLive)'
    BY <2>13, <2>15, <2>16, <2>19, <2>21, <2>22 DEF IrInvFor
  <2> QED BY <2>23 DEF IrInv
<1> QED BY <1>1, <1>2

\* The invariant speaks of nothing but its arguments and the table.
LEMMA IrInvFrame ==
  ASSUME NEW seg, NEW cookie, NEW stacked, NEW live, IrInvFor(seg, cookie, stacked, live),
         irSegment' = seg, irCookie' = cookie, irStacked' = stacked, irLive' = live,
         UNCHANGED <<irTable, irMade, irAdds>>
  PROVE  IrInv'
<1>1. IrInvFor(seg, cookie, stacked, live)'
  BY DEF IrInvFor, IrTypeInv, IrNested, IrAllCounted, IrCounted, IrNullsBelow, IrIsNull, IrSerials, IrWrapped,
         IrOwned, IrResolved
<1> QED BY <1>1 DEF IrInv

\* A new frame, whose segment is empty.
LEMMA IrPushFrameKeeps ==
  ASSUME IrInv, PushFrame
  PROVE  IrInv'
<1> DEFINE stacked == Append(irStacked, irCookie)
           n == Len(irStacked)
<1>1. /\ irStacked' = stacked /\ irCookie' = irSegment /\ UNCHANGED <<irTable, irSegment, irMade, irAdds, irLive>>
  BY DEF PushFrame
<1>2. /\ IrTypeInv(irSegment, irCookie, irStacked, irLive) /\ IrNested(irSegment, irCookie, irStacked)
      /\ IrAllCounted(irSegment, irCookie, irStacked) /\ IrSerials /\ IrOwned(irSegment, irCookie, irStacked, irLive)
      /\ IrResolved(irSegment, irCookie, irStacked, irLive)
  BY DEF IrInv, IrInvFor
<1>3. /\ irSegment \in IrSegments /\ irCookie \in IrSegments /\ irStacked \in Seq(IrSegments) /\ irLive \subseteq irMade
      /\ irSegment.topIndex \in Nat /\ irCookie.topIndex \in Nat
  BY <1>2 DEF IrTypeInv, IrSegments
<1>4. /\ stacked \in Seq(IrSegments) /\ Len(stacked) = n + 1 /\ n \in Nat
      /\ \A i \in 1 .. n : stacked[i] = irStacked[i]
      /\ stacked[n + 1] = irCookie
  BY <1>3
<1>5. /\ \A d \in 0 .. n : IrLevel(irSegment, stacked, d) = IrLevel(irCookie, irStacked, d)
      /\ IrLevel(irSegment, stacked, n + 1) = irSegment
  BY <1>4 DEF IrLevel
<1>6. /\ \A d \in 0 .. n : IrTopOf(irSegment, irSegment, stacked, d) = IrTopOf(irSegment, irCookie, irStacked, d)
      /\ IrTopOf(irSegment, irSegment, stacked, n + 1) = irSegment.topIndex
  <2>1. IrTopOf(irSegment, irSegment, stacked, n + 1) = irSegment.topIndex
    BY <1>4 DEF IrTopOf
  <2>2. IrTopOf(irSegment, irSegment, stacked, n) = irSegment.topIndex /\ IrTopOf(irSegment, irCookie, irStacked, n) = irSegment.topIndex
    BY <1>4, <1>5 DEF IrTopOf
  <2>3. \A d \in 0 .. n - 1 : IrTopOf(irSegment, irSegment, stacked, d) = IrTopOf(irSegment, irCookie, irStacked, d)
    BY <1>4, <1>5 DEF IrTopOf
  <2> QED BY <1>4, <2>1, <2>2, <2>3
<1>7. /\ irCookie.topIndex <= irSegment.topIndex
      /\ \A d \in 0 .. n : /\ IrLevel(irCookie, irStacked, d).topIndex <= irCookie.topIndex
                           /\ IrLevel(irCookie, irStacked, d) \in IrSegments
                           /\ IrLevel(irCookie, irStacked, d).topIndex \in Nat
                           /\ IrTopOf(irSegment, irCookie, irStacked, d) <= irSegment.topIndex
                           /\ IrTopOf(irSegment, irCookie, irStacked, d) \in Nat
  <2>1. \A d \in 0 .. n : IrLevel(irCookie, irStacked, d) \in IrSegments
    BY <1>3 DEF IrLevel
  <2>2. \A d \in 0 .. n : IrLevel(irCookie, irStacked, d).topIndex <= irCookie.topIndex /\ IrLevel(irCookie, irStacked, d).topIndex \in Nat
    BY <1>2, <2>1 DEF IrNested, IrSegments
  <2>3. irCookie.topIndex <= irSegment.topIndex
    <3>1. n \in 0 .. n /\ IrLevel(irCookie, irStacked, n) = irCookie /\ IrTopOf(irSegment, irCookie, irStacked, n) = irSegment.topIndex
      BY <1>4 DEF IrLevel, IrTopOf
    <3> QED BY <1>2, <3>1 DEF IrNested
  <2>4. \A d \in 0 .. n : IrTopOf(irSegment, irCookie, irStacked, d) <= irSegment.topIndex /\ IrTopOf(irSegment, irCookie, irStacked, d) \in Nat
    BY <1>3, <1>4, <2>2, <2>3 DEF IrTopOf
  <2> QED BY <2>1, <2>2, <2>3, <2>4
<1> HIDE DEF stacked, n
<1>8. IrTypeInv(irSegment, irSegment, stacked, irLive)
  BY <1>2, <1>3, <1>4 DEF IrTypeInv
<1>9. \A d \in 0 .. Len(stacked) : d \in 0 .. n \/ d = n + 1
  BY <1>4
<1>10. IrNested(irSegment, irSegment, stacked)
  <2>1. ASSUME NEW d \in 0 .. n
        PROVE  LET top == IrTopOf(irSegment, irSegment, stacked, d)
                   bottom == IrLevel(irSegment, stacked, d).topIndex
               IN  /\ bottom <= irSegment.topIndex /\ bottom <= top /\ top <= irSegment.topIndex
                   /\ top > bottom => ~IrIsNull(top - 1)
    <3>1. LET top == IrTopOf(irSegment, irCookie, irStacked, d)
              bottom == IrLevel(irCookie, irStacked, d).topIndex
          IN  bottom <= top /\ (top > bottom => ~IrIsNull(top - 1))
      BY <1>2, <2>1 DEF IrNested, n
    <3>2. IrLevel(irCookie, irStacked, d).topIndex <= irSegment.topIndex
      BY <1>3, <1>7
    <3> QED BY <1>5, <1>6, <1>7, <3>1, <3>2
  <2>2. ASSUME NEW d \in 0 .. Len(stacked), NEW e \in 0 .. d
        PROVE  IrLevel(irSegment, stacked, e).topIndex <= IrLevel(irSegment, stacked, d).topIndex
    <3>1. CASE d = n + 1
      <4>1. e \in 0 .. n \/ e = n + 1
        BY <1>4, <3>1
      <4>2. e \in 0 .. n => IrLevel(irSegment, stacked, e).topIndex <= irSegment.topIndex
        BY <2>1
      <4> QED BY <1>3, <1>5, <3>1, <4>1, <4>2
    <3>2. CASE d \in 0 .. n
      <4>1. e \in 0 .. n
        BY <1>4, <3>2
      <4>2. IrLevel(irCookie, irStacked, e).topIndex <= IrLevel(irCookie, irStacked, d).topIndex
        BY <1>2, <3>2 DEF IrNested, n
      <4> QED BY <1>5, <3>2, <4>1, <4>2
    <3> QED BY <1>9, <3>1, <3>2
  <2>3. \A d \in 0 .. Len(stacked) :
           LET top == IrTopOf(irSegment, irSegment, stacked, d)
               bottom == IrLevel(irSegment, stacked, d).topIndex
           IN  /\ bottom <= irSegment.topIndex /\ bottom <= top /\ top <= irSegment.topIndex
               /\ top > bottom => ~IrIsNull(top - 1)
    BY <1>3, <1>5, <1>6, <1>9, <2>1
  <2> QED BY <2>2, <2>3 DEF IrNested
<1>11. IrAllCounted(irSegment, irSegment, stacked)
  BY <1>2, <1>5, <1>9 DEF IrAllCounted, n
<1>12. \A r \in irLive : r.depth \in 0 .. n
  <2>1. \A r \in irLive : r.depth \in Nat /\ r.depth <= n
    BY <1>2 DEF IrOwned, IrTypeInv, n
  <2> QED BY <1>4, <2>1
<1>13. IrOwned(irSegment, irSegment, stacked, irLive)
  <2>1. \A r \in irLive : r.depth <= Len(stacked) /\ IrLevel(irSegment, stacked, r.depth).topIndex <= r.index
    BY <1>2, <1>4, <1>5, <1>12 DEF IrOwned
  <2> QED BY <1>2, <2>1 DEF IrOwned
<1>14. IrResolved(irSegment, irSegment, stacked, irLive)
  BY <1>2, <1>6, <1>12 DEF IrResolved
<1>15. IrInvFor(irSegment, irSegment, stacked, irLive)
  BY <1>2, <1>8, <1>10, <1>11, <1>13, <1>14 DEF IrInvFor
<1> QED BY <1>1, <1>15, IrInvFrame

\* The state that a pop goes back to.
LEMMA IrPopped ==
  ASSUME IrInv, irStacked # <<>>
  PROVE  /\ IrInvFor(irCookie, irStacked[Len(irStacked)], SubSeq(irStacked, 1, Len(irStacked) - 1), IrOuterLive)
         /\ Len(SubSeq(irStacked, 1, Len(irStacked) - 1)) = Len(irStacked) - 1
<1> DEFINE n == Len(irStacked)
           outer == irStacked[n]
           stacked == SubSeq(irStacked, 1, n - 1)
<1>2. /\ IrTypeInv(irSegment, irCookie, irStacked, irLive) /\ IrNested(irSegment, irCookie, irStacked)
      /\ IrAllCounted(irSegment, irCookie, irStacked) /\ IrSerials /\ IrOwned(irSegment, irCookie, irStacked, irLive)
      /\ IrResolved(irSegment, irCookie, irStacked, irLive)
  BY DEF IrInv, IrInvFor
<1>3. /\ irSegment \in IrSegments /\ irCookie \in IrSegments /\ irStacked \in Seq(IrSegments) /\ irLive \subseteq irMade
      /\ irSegment.topIndex \in Nat /\ irCookie.topIndex \in Nat
  BY <1>2 DEF IrTypeInv, IrSegments
<1>4. n \in Nat /\ n > 0 /\ outer \in IrSegments
  BY <1>3
<1>5. stacked \in Seq(IrSegments) /\ Len(stacked) = n - 1 /\ \A i \in 1 .. n - 1 : stacked[i] = irStacked[i]
  <2>1. 1 \in 1 .. Len(irStacked) + 1 /\ n - 1 \in 0 .. Len(irStacked)
    BY <1>4
  <2>2. /\ stacked \in Seq(IrSegments)
        /\ Len(stacked) = IF 1 <= n - 1 THEN n - 1 - 1 + 1 ELSE 0
        /\ \A i \in 1 .. n - 1 - 1 + 1 : stacked[i] = irStacked[1 + i - 1]
    BY <1>3, <2>1, SubSeqProperties
  <2> HIDE DEF stacked, n
  <2>3. Len(stacked) = n - 1
    BY <1>4, <2>2
  <2>4. \A i \in 1 .. n - 1 : i \in 1 .. n - 1 - 1 + 1 /\ 1 + i - 1 = i
    BY <1>4
  <2> QED BY <2>2, <2>3, <2>4
<1>6. \A d \in 0 .. n - 1 : IrLevel(outer, stacked, d) = IrLevel(irCookie, irStacked, d)
  <2>1. IrLevel(outer, stacked, n - 1) = outer /\ IrLevel(irCookie, irStacked, n - 1) = outer
    BY <1>4, <1>5 DEF IrLevel
  <2>2. \A d \in 0 .. n - 2 : IrLevel(outer, stacked, d) = IrLevel(irCookie, irStacked, d)
    BY <1>4, <1>5 DEF IrLevel
  <2> QED BY <1>4, <2>1, <2>2
<1>7. \A d \in 0 .. n - 1 : IrTopOf(irCookie, outer, stacked, d) = IrTopOf(irSegment, irCookie, irStacked, d)
  <2>1. IrTopOf(irCookie, outer, stacked, n - 1) = irCookie.topIndex /\ IrTopOf(irSegment, irCookie, irStacked, n - 1) = irCookie.topIndex
    BY <1>4, <1>5 DEF IrLevel, IrTopOf
  <2>2. \A d \in 0 .. n - 2 : IrTopOf(irCookie, outer, stacked, d) = IrTopOf(irSegment, irCookie, irStacked, d)
    BY <1>4, <1>5, <1>6 DEF IrTopOf
  <2> QED BY <1>4, <2>1, <2>2
<1>8. /\ irCookie.topIndex <= irSegment.topIndex
      /\ \A d \in 0 .. n : /\ IrLevel(irCookie, irStacked, d).topIndex <= irCookie.topIndex
                           /\ IrLevel(irCookie, irStacked, d).topIndex \in Nat
                           /\ IrLevel(irCookie, irStacked, d).topIndex <= IrTopOf(irSegment, irCookie, irStacked, d)
  <2>1. \A d \in 0 .. n : IrLevel(irCookie, irStacked, d) \in IrSegments
    BY <1>3 DEF IrLevel
  <2>2. n \in 0 .. n /\ IrLevel(irCookie, irStacked, n) = irCookie /\ IrTopOf(irSegment, irCookie, irStacked, n) = irSegment.topIndex
    BY <1>4 DEF IrLevel, IrTopOf
  <2> QED BY <1>2, <2>1, <2>2 DEF IrNested, IrSegments
<1>9. IrLevel(irCookie, irStacked, n - 1) = outer /\ IrLevel(irCookie, irStacked, n) = irCookie
  BY <1>4 DEF IrLevel
<1>10. IrTypeInv(irCookie, outer, stacked, IrOuterLive)
  BY <1>2, <1>3, <1>4, <1>5 DEF IrTypeInv, IrOuterLive
<1>11. IrNested(irCookie, outer, stacked)
  <2> SUFFICES ASSUME NEW d \in 0 .. n - 1
               PROVE  LET top == IrTopOf(irCookie, outer, stacked, d)
                          bottom == IrLevel(outer, stacked, d).topIndex
                      IN  /\ bottom <= outer.topIndex /\ bottom <= top
                          /\ \A e \in 0 .. d : IrLevel(outer, stacked, e).topIndex <= bottom
                          /\ d < n - 1 => top <= outer.topIndex
                          /\ top > bottom => ~IrIsNull(top - 1)
    <3> HIDE DEF n, outer, stacked
    <3> QED BY <1>5 DEF IrNested
  <2>1. d \in 0 .. n
    BY <1>4
  <2>2. \A e \in 0 .. n - 1 : IrLevel(irCookie, irStacked, e).topIndex <= outer.topIndex
    <3>1. n - 1 \in 0 .. n
      BY <1>4
    <3> QED BY <1>2, <1>9, <3>1 DEF IrNested
  <2>3. /\ IrLevel(irCookie, irStacked, d).topIndex <= IrTopOf(irSegment, irCookie, irStacked, d)
        /\ \A e \in 0 .. d : IrLevel(irCookie, irStacked, e).topIndex <= IrLevel(irCookie, irStacked, d).topIndex
        /\ IrTopOf(irSegment, irCookie, irStacked, d) > IrLevel(irCookie, irStacked, d).topIndex =>
              ~IrIsNull(IrTopOf(irSegment, irCookie, irStacked, d) - 1)
    BY <1>2, <2>1 DEF IrNested
  <2>4. \A e \in 0 .. d : e \in 0 .. n - 1
    BY <1>4
  <2>5. \A e \in 0 .. d : IrLevel(outer, stacked, e).topIndex <= IrLevel(irCookie, irStacked, d).topIndex
    BY <1>6, <2>3, <2>4
  <2>6. d < n - 1 => IrTopOf(irSegment, irCookie, irStacked, d) <= outer.topIndex
    <3> SUFFICES ASSUME d < n - 1 PROVE IrTopOf(irSegment, irCookie, irStacked, d) <= outer.topIndex
      OBVIOUS
    <3>1. d # Len(irStacked) /\ d + 1 \in 0 .. n - 1
      BY <1>4
    <3> QED BY <2>2, <3>1 DEF IrTopOf
  <2> HIDE DEF n, outer, stacked
  <2> QED BY <1>6, <1>7, <2>2, <2>3, <2>5, <2>6
<1>12. IrAllCounted(irCookie, outer, stacked)
  <2>1. \A d \in 0 .. n : IrCounted(IrLevel(irCookie, irStacked, d))
    BY <1>2 DEF IrAllCounted
  <2>2. n \in 0 .. n /\ \A d \in 0 .. n - 1 : d \in 0 .. n
    BY <1>4
  <2> HIDE DEF n, outer, stacked
  <2> QED BY <1>5, <1>6, <1>9, <2>1, <2>2 DEF IrAllCounted
<1>13. \A r \in IrOuterLive : r \in irLive /\ r.depth \in 0 .. n - 1
  <2>1. \A r \in irMade : r.depth \in Nat
    BY <1>2 DEF IrTypeInv
  <2> QED BY <1>3, <1>4, <2>1 DEF IrOuterLive
<1>14. \A r \in irMade \ IrOuterLive : r.index \in Nat /\ (r \in irMade \ irLive \/ r.index >= irCookie.topIndex)
  <2> SUFFICES ASSUME NEW r \in irMade \ IrOuterLive
               PROVE  r.index \in Nat /\ (r \in irMade \ irLive \/ r.index >= irCookie.topIndex)
    OBVIOUS
  <2>1. r.depth \in Nat /\ r.index \in Nat
    BY <1>2 DEF IrTypeInv, IrIndexes
  <2>2. r \in irLive => r.depth = n /\ IrLevel(irCookie, irStacked, r.depth).topIndex <= r.index
    BY <1>2, <1>4, <2>1 DEF IrOwned, IrOuterLive
  <2> QED BY <1>3, <1>9, <2>1, <2>2
<1>15. IrOwned(irCookie, outer, stacked, IrOuterLive)
  <2>1. ASSUME NEW r \in IrOuterLive
        PROVE  r.depth <= n - 1 /\ IrLevel(outer, stacked, r.depth).topIndex <= r.index
    BY <1>2, <1>4, <1>6, <1>13 DEF IrOwned
  <2>2. ASSUME NEW r \in irMade \ IrOuterLive, r.times = irAdds[r.index]
        PROVE  r.index >= irCookie.topIndex \/ IrIsNull(r.index)
    BY <1>2, <1>3, <1>8, <1>14, <2>2 DEF IrOwned
  <2> HIDE DEF n, outer, stacked
  <2> QED BY <1>5, <2>1, <2>2 DEF IrOwned
<1>16. IrResolved(irCookie, outer, stacked, IrOuterLive)
  <2> HIDE DEF n, outer, stacked
  <2> QED BY <1>2, <1>7, <1>13 DEF IrResolved
<1>17. IrInvFor(irCookie, outer, stacked, IrOuterLive)
  BY <1>2, <1>10, <1>11, <1>12, <1>15, <1>16 DEF IrInvFor
<1> QED BY <1>5, <1>17

\* PopLocalFrame, with and without a survivor.
LEMMA IrPopLocalFrameKeeps ==
  ASSUME IrInv, NEW survivor \in IrObjects \union {IrNull}, PopLocalFrame(survivor)
  PROVE  IrInv'
<1> DEFINE outer == irStacked[Len(irStacked)]
           stacked == SubSeq(irStacked, 1, Len(irStacked) - 1)
<1>1. irStacked # <<>> /\ irCookie' = outer /\ irStacked' = stacked
  BY DEF PopLocalFrame
<1>2. IrInvFor(irCookie, outer, stacked, IrOuterLive) /\ Len(stacked) = Len(irStacked) - 1
  BY <1>1, IrPopped
<1>3. CASE survivor = IrNull
  <2>1. irSegment' = irCookie /\ irLive' = IrOuterLive /\ UNCHANGED <<irTable, irMade, irAdds>>
    BY <1>3 DEF PopLocalFrame
  <2> HIDE DEF outer, stacked
  <2> QED BY <1>1, <1>2, <2>1, IrInvFrame
<1>4. CASE survivor # IrNull
  <2>1. survivor \in IrObjects
    BY <1>4
  <2>2. IrAdd(irCookie, outer, IrOuterLive, survivor, Len(irStacked) - 1)
    BY <1>4 DEF PopLocalFrame
  <2> HIDE DEF outer, stacked
  <2> QED BY <1>1, <1>2, <2>1, <2>2, IrAddKeeps
<1> QED BY <1>3, <1>4

\* A reference whose serial matches is the last one to its entry, until the serials come round.
LEMMA IrMatchIsLast ==
  ASSUME IrInv, NEW r \in irMade, ~IrWrapped(r), CheckEntry(r)
  PROVE  r.times = irAdds[r.index]
<1>1. /\ r.index \in IrIndexes /\ r.serial \in 0 .. IrPrevCount - 1 /\ r.times \in Nat /\ irAdds[r.index] \in Nat
      /\ r.times <= irAdds[r.index] /\ IrPrevCount \in Nat
  BY IrAssumption DEF IrInv, IrInvFor, IrTypeInv, IrSerials
<1>2. irAdds[r.index] - r.times < IrPrevCount
  BY <1>1 DEF IrWrapped
<1>3. irTable[r.index].serial = IF r.serial + (irAdds[r.index] - r.times) < IrPrevCount
                                THEN r.serial + (irAdds[r.index] - r.times)
                                ELSE (r.serial + (irAdds[r.index] - r.times)) - IrPrevCount
  BY DEF IrInv, IrInvFor, IrSerials
<1>4. irTable[r.index].serial = r.serial
  BY DEF CheckEntry
<1> QED BY <1>1, <1>2, <1>3, <1>4

\* What the removal of the top entry leaves: the holes below it are gone, and counted.
LEMMA IrTopAfterIs ==
  ASSUME IrInv, NEW idx, idx = IrTop - 1, idx >= IrBottom
  PROVE  LET top == IrTopAfter(idx)
         IN  /\ top \in IrBottom .. idx
             /\ \A i \in top .. idx - 1 : IrIsNull(i)
             /\ top > IrBottom => ~IrIsNull(top - 1)
             /\ irSegment.numHoles - (idx - top) = Cardinality(IrNullsBelow(top))
<1> DEFINE n == Len(irStacked)
           C(i) == Cardinality(IrNullsBelow(i))
<1>1. /\ IrTop \in 0 .. IrMaxEntries /\ IrBottom \in 0 .. IrMaxEntries /\ n \in Nat
      /\ irSegment.numHoles \in Nat /\ irCookie.numHoles \in Nat /\ IrMaxEntries \in Nat
  BY IrAssumption DEF IrInv, IrInvFor, IrTypeInv, IrSegments, IrTop, IrBottom
<1>2. idx \in Nat /\ IrBottom \in Nat /\ IrTop \in Nat /\ idx + 1 = IrTop /\ IrBottom <= idx /\ IrTop > IrBottom
  BY <1>1
<1>3. n \in 0 .. n /\ IrLevel(irCookie, irStacked, n) = irCookie /\ IrTopOf(irSegment, irCookie, irStacked, n) = IrTop
  BY <1>1 DEF IrLevel, IrTopOf, IrTop
<1>4. ~IrIsNull(idx)
  BY <1>2, <1>3 DEF IrInv, IrInvFor, IrNested, IrTop, IrBottom
<1>5. irSegment.numHoles = C(IrTop) /\ irCookie.numHoles = C(IrBottom)
  BY <1>3 DEF IrInv, IrInvFor, IrAllCounted, IrCounted, IrTop, IrBottom
<1> HIDE DEF C, n
<1>6. C(IrTop) = C(idx)
  <2>1. ~ \E i \in idx .. IrTop - 1 : IrIsNull(i)
    BY <1>2, <1>4
  <2>2. C(idx) <= C(IrTop) /\ ~(C(idx) < C(IrTop))
    BY <1>2, <2>1, IrNullsSplit DEF C
  <2>3. C(idx) \in Nat /\ C(IrTop) \in Nat
    BY <1>2, IrNullsFinite DEF C
  <2> QED BY <2>2, <2>3
<1>7. IrHoles = C(idx) - C(IrBottom)
  BY <1>5, <1>6 DEF IrHoles
<1>8. C(idx) \in Nat /\ C(IrBottom) \in Nat /\ C(IrBottom) <= C(idx)
  BY <1>2, IrNullsFinite, IrNullsSplit DEF C
<1>9. CASE IrHoles = 0
  <2>1. IrTopAfter(idx) = idx
    BY <1>9 DEF IrTopAfter
  <2>2. ~ \E i \in IrBottom .. idx - 1 : IrIsNull(i)
    <3>1. ~(C(IrBottom) < C(idx))
      BY <1>7, <1>8, <1>9
    <3> QED BY <1>2, <3>1, IrNullsSplit DEF C
  <2>3. idx > IrBottom => ~IrIsNull(idx - 1)
    BY <1>2, <2>2
  <2>4. irSegment.numHoles - (idx - idx) = C(idx) /\ \A i \in idx .. idx - 1 : FALSE
    BY <1>2, <1>5, <1>6, <1>8
  <2> QED BY <1>2, <2>1, <2>3, <2>4 DEF C
<1>10. CASE IrHoles # 0
  <2> DEFINE S == {k \in IrBottom .. idx : k = IrBottom \/ ~IrIsNull(k - 1) \/ idx - k = IrHoles}
             m == Max(S)
  <2>1. IrTopAfter(idx) = m
    BY <1>10 DEF IrTopAfter
  <2>2. S \in SUBSET (0 .. IrMaxEntries) /\ S # {}
    <3>1. IrBottom \in S
      BY <1>2
    <3>2. IrBottom .. idx \subseteq 0 .. IrMaxEntries
      BY <1>1, <1>2
    <3> QED BY <3>1, <3>2
  <2>3. m \in S /\ \A y \in S : y <= m
    <3> HIDE DEF S
    <3> QED BY <1>1, <2>2, IntHasMax
  <2>4. m \in IrBottom .. idx /\ (m = IrBottom \/ ~IrIsNull(m - 1) \/ idx - m = IrHoles)
    BY <2>3
  <2>5. \A k \in m + 1 .. idx : IrIsNull(k - 1)
    <3> SUFFICES ASSUME NEW k \in m + 1 .. idx PROVE IrIsNull(k - 1)
      OBVIOUS
    <3> HIDE DEF m
    <3>1. k \in IrBottom .. idx /\ k > m /\ k \in Int
      BY <1>2, <2>4
    <3>2. k \notin S
      BY <2>3, <2>4, <3>1, <1>2
    <3> QED BY <3>1, <3>2
  <2> HIDE DEF m, S
  <2>6. m \in Nat /\ m <= idx /\ IrBottom <= m
    BY <1>2, <2>4
  <2>7. \A i \in m .. idx - 1 : IrIsNull(i)
    <3> SUFFICES ASSUME NEW i \in m .. idx - 1 PROVE IrIsNull(i)
      OBVIOUS
    <3>1. i + 1 \in m + 1 .. idx /\ i + 1 - 1 = i
      BY <1>2, <2>6
    <3> QED BY <2>5, <3>1
  <2>8. C(idx) = C(m) + (idx - m) /\ C(m) \in Nat
    BY <1>2, <2>6, <2>7, IrNullsSplit, IrNullsFinite DEF C
  <2>9. m > IrBottom => ~IrIsNull(m - 1)
    <3> SUFFICES ASSUME m > IrBottom, idx - m = IrHoles PROVE ~IrIsNull(m - 1)
      BY <1>2, <2>4, <2>6
    <3>1. ~(C(IrBottom) < C(m))
      BY <1>2, <1>7, <1>8, <2>6, <2>8
    <3>2. ~ \E i \in IrBottom .. m - 1 : IrIsNull(i)
      BY <1>2, <2>6, <3>1, IrNullsSplit DEF C
    <3>3. m - 1 \in IrBottom .. m - 1
      BY <1>2, <2>6
    <3> QED BY <3>2, <3>3
  <2>10. irSegment.numHoles - (idx - m) = C(m)
    BY <1>2, <1>5, <1>6, <1>8, <2>6, <2>8
  <2> QED BY <2>1, <2>4, <2>7, <2>9, <2>10 DEF C
<1> QED BY <1>9, <1>10

\* DeleteLocalRef takes one entry of the current segment away, whoever's it is.
LEMMA IrDeleteKeeps ==
  ASSUME IrInv, NEW r \in irMade, DeleteLocalRef(r)
  PROVE  IrInv'
<1>1. CASE ~IrMayRemove(r)
  <2>1. UNCHANGED <<irTable, irSegment, irLive, irCookie, irStacked, irMade, irAdds>>
    BY <1>1 DEF DeleteLocalRef
  <2> QED BY <2>1, IrInvFrame DEF IrInv
<1>2. CASE IrMayRemove(r)
  <2> DEFINE n == Len(irStacked)
             idx == r.index
             newTop == IF idx = IrTop - 1 THEN IrTopAfter(idx) ELSE IrTop
             newHoles == IF idx = IrTop - 1 THEN irSegment.numHoles - (idx - newTop) ELSE irSegment.numHoles + 1
  <2>1. /\ irTable' = [irTable EXCEPT ![idx].obj = IrNull] /\ irLive' = irLive \ {r}
        /\ irSegment' = (IF idx = IrTop - 1
                         THEN [topIndex |-> newTop, numHoles |-> newHoles]
                         ELSE [irSegment EXCEPT !.numHoles = @ + 1])
        /\ UNCHANGED <<irCookie, irStacked, irMade, irAdds>>
    BY <1>2 DEF DeleteLocalRef
  <2>2. /\ IrTypeInv(irSegment, irCookie, irStacked, irLive) /\ IrNested(irSegment, irCookie, irStacked)
        /\ IrAllCounted(irSegment, irCookie, irStacked) /\ IrSerials /\ IrOwned(irSegment, irCookie, irStacked, irLive)
        /\ IrResolved(irSegment, irCookie, irStacked, irLive)
    BY DEF IrInv, IrInvFor
  <2>3. /\ irSegment \in IrSegments /\ irCookie \in IrSegments /\ irStacked \in Seq(IrSegments) /\ irLive \subseteq irMade
        /\ IrTop \in 0 .. IrMaxEntries /\ IrBottom \in 0 .. IrMaxEntries /\ IrMaxEntries \in Nat
        /\ irSegment.numHoles \in Nat /\ n \in Nat
    BY <2>2, IrAssumption DEF IrTypeInv, IrSegments, IrTop, IrBottom
  <2>4. idx \in IrIndexes /\ idx \in IrBottom .. IrTop - 1 /\ CheckEntry(r) /\ (idx # IrTop - 1 => ~IrIsNull(idx))
    BY <1>2, <2>2 DEF IrMayRemove, IrTypeInv
  <2>5. /\ n \in 0 .. n /\ IrLevel(irCookie, irStacked, n) = irCookie
        /\ IrTopOf(irSegment, irCookie, irStacked, n) = IrTop
    BY <2>3 DEF IrLevel, IrTopOf, IrTop
  <2>6. IrTop > IrBottom => ~IrIsNull(IrTop - 1)
    BY <2>2, <2>5 DEF IrNested, IrTop, IrBottom
  <2>7. ~IrIsNull(idx)
    BY <2>3, <2>4, <2>6
  <2>8. /\ irTable'[idx].obj = IrNull /\ irTable'[idx].serial = irTable[idx].serial
        /\ \A i \in IrIndexes : irTable'[i].serial = irTable[i].serial
        /\ \A i \in IrIndexes \ {idx} : irTable'[i] = irTable[i]
        /\ irTable' \in [IrIndexes -> [serial : 0 .. IrPrevCount - 1, obj : IrObjects \union {IrNull}]]
    <3> HIDE DEF newTop, newHoles
    <3>1. irTable \in [IrIndexes -> [serial : 0 .. IrPrevCount - 1, obj : IrObjects \union {IrNull}]]
      BY <2>2 DEF IrTypeInv
    <3>2. irTable' = [irTable EXCEPT ![idx] = [irTable[idx] EXCEPT !.obj = IrNull]]
      BY <2>1
    <3> DEFINE e == [irTable[idx] EXCEPT !.obj = IrNull]
    <3>3. e \in [serial : 0 .. IrPrevCount - 1, obj : IrObjects \union {IrNull}] /\ e.obj = IrNull /\ e.serial = irTable[idx].serial
      BY <3>1, <2>4
    <3> HIDE DEF e, idx
    <3>4. irTable' = [irTable EXCEPT ![idx] = e]
      BY <3>2 DEF e
    <3> QED BY <3>1, <3>3, <3>4, <2>4
  <2>9. /\ newTop \in IrBottom .. IrTop
        /\ (newTop > IrBottom => ~IrIsNull(newTop - 1) /\ newTop - 1 # idx)
        /\ \A i \in newTop .. IrTop - 1 : i = idx \/ IrIsNull(i)
        /\ newHoles = (IF idx = IrTop - 1 THEN Cardinality(IrNullsBelow(newTop)) ELSE irSegment.numHoles + 1)
        /\ (idx = IrTop - 1 => newTop <= idx) /\ (idx # IrTop - 1 => newTop = IrTop)
    <3>1. CASE idx = IrTop - 1
      <4>1. idx >= IrBottom
        BY <2>3, <2>4
      <4>2. /\ IrTopAfter(idx) \in IrBottom .. idx
            /\ \A i \in IrTopAfter(idx) .. idx - 1 : IrIsNull(i)
            /\ IrTopAfter(idx) > IrBottom => ~IrIsNull(IrTopAfter(idx) - 1)
            /\ irSegment.numHoles - (idx - IrTopAfter(idx)) = Cardinality(IrNullsBelow(IrTopAfter(idx)))
        <5> HIDE DEF idx
        <5> QED BY <3>1, <4>1, IrTopAfterIs
      <4>3. newTop = IrTopAfter(idx)
        BY <3>1
      <4> HIDE DEF newTop
      <4> QED BY <2>3, <3>1, <4>2, <4>3
    <3>2. CASE idx # IrTop - 1
      <4>1. newTop = IrTop /\ newHoles = irSegment.numHoles + 1
        BY <3>2
      <4> HIDE DEF newTop, newHoles
      <4> QED BY <2>3, <2>4, <2>6, <3>2, <4>1
    <3> QED BY <3>1, <3>2
  <2> HIDE DEF newTop, newHoles
  <2>10. irSegment' \in IrSegments /\ irSegment'.topIndex = newTop /\ irSegment'.numHoles = newHoles
    <3>1. newTop \in 0 .. IrMaxEntries /\ newTop \in Nat
      BY <2>3, <2>9
    <3>2. newHoles \in Nat
      <4>1. Cardinality(IrNullsBelow(newTop)) \in Nat
        BY <3>1, IrNullsFinite
      <4>2. irSegment.numHoles + 1 \in Nat
        BY <2>3
      <4> QED BY <2>9, <4>1, <4>2
    <3>3. CASE idx = IrTop - 1
      BY <2>1, <3>1, <3>2, <3>3 DEF IrSegments
    <3>4. CASE idx # IrTop - 1
      <4>1. irSegment' = [irSegment EXCEPT !.numHoles = irSegment.numHoles + 1]
        BY <2>1, <3>4
      <4>2. newHoles = irSegment.numHoles + 1 /\ newTop = IrTop
        BY <2>9, <3>4
      <4> QED BY <2>3, <3>1, <3>2, <4>1, <4>2 DEF IrSegments, IrTop
    <3> QED BY <3>3, <3>4
  <2>11. \A i \in 0 .. IrTop - 1 : i # idx => irTable'[i] = irTable[i]
    BY <2>3, <2>8 DEF IrIndexes
  <2>12. \A d \in 0 .. n : /\ IrLevel(irCookie, irStacked, d) \in IrSegments
                              /\ IrLevel(irCookie, irStacked, d).topIndex \in Nat
                              /\ IrLevel(irCookie, irStacked, d).topIndex <= IrBottom
    <3>1. \A d \in 0 .. n : IrLevel(irCookie, irStacked, d) \in IrSegments
      BY <2>3 DEF IrLevel
    <3>2. \A d \in 0 .. n : IrLevel(irCookie, irStacked, d).topIndex <= IrBottom
      BY <2>2 DEF IrNested, IrBottom
    <3> QED BY <3>1, <3>2 DEF IrSegments
  <2>13. IrTypeInv(irSegment, irCookie, irStacked, irLive)'
    BY <2>1, <2>2, <2>3, <2>8, <2>10 DEF IrTypeInv
  <2>14. IrNested(irSegment, irCookie, irStacked)'
    <3>0. \A d \in 0 .. n : \A e \in 0 .. d :
             IrLevel(irCookie, irStacked, e).topIndex <= IrLevel(irCookie, irStacked, d).topIndex
      BY <2>2 DEF IrNested
    <3> DEFINE tp(d) == IF d = n THEN newTop ELSE IrLevel(irCookie, irStacked, d + 1).topIndex
    <3>1. \A d \in 0 .. n : IrTopOf(irSegment, irCookie, irStacked, d)' = tp(d)
      BY <2>1, <2>10 DEF IrTopOf, IrLevel
    <3>2. ASSUME NEW d \in 0 .. n
          PROVE  LET bottom == IrLevel(irCookie, irStacked, d).topIndex
                 IN  /\ bottom <= IrBottom /\ bottom <= tp(d)
                     /\ d < n => tp(d) <= IrBottom
                     /\ tp(d) > bottom => irTable'[tp(d) - 1].obj # IrNull
      <4>1. CASE d < n
        <5> DEFINE bottom == IrLevel(irCookie, irStacked, d).topIndex
                   t == IrLevel(irCookie, irStacked, d + 1).topIndex
        <5>1. t = IrTopOf(irSegment, irCookie, irStacked, d) /\ tp(d) = t
          BY <4>1 DEF IrTopOf
        <5>2. bottom <= t /\ (t > bottom => ~IrIsNull(t - 1))
          BY <5>1, <2>2 DEF IrNested
        <5>3. t \in Nat /\ t <= IrBottom /\ bottom \in Nat /\ bottom <= IrBottom
          BY <4>1, <2>3, <2>12
        <5> HIDE DEF t, bottom
        <5>4. t > bottom => t - 1 \in 0 .. IrTop - 1 /\ t - 1 # idx
          BY <5>3, <2>3, <2>4
        <5>5. t > bottom => irTable'[t - 1].obj # IrNull
          BY <5>2, <5>4, <2>11 DEF IrIsNull
        <5> QED BY <5>1, <5>2, <5>3, <5>5 DEF bottom
      <4>2. CASE d = n
        <5>1. tp(d) = newTop /\ IrLevel(irCookie, irStacked, d).topIndex = IrBottom
          BY <4>2, <2>5 DEF IrBottom
        <5>2. newTop > IrBottom => newTop - 1 \in 0 .. IrTop - 1
          BY <2>3, <2>9
        <5>3. newTop > IrBottom => irTable'[newTop - 1].obj # IrNull
          BY <5>2, <2>9, <2>11 DEF IrIsNull
        <5> HIDE DEF tp
        <5> QED BY <4>2, <5>1, <5>3, <2>3, <2>9
      <4> QED BY <4>1, <4>2, <2>3
    <3> HIDE DEF tp
    <3>3. \A d \in 0 .. n : IrLevel(irCookie, irStacked, d)' = IrLevel(irCookie, irStacked, d)
      BY <2>1 DEF IrLevel
    <3>4. irCookie' = irCookie /\ irStacked' = irStacked
      BY <2>1
    <3> QED BY <3>0, <3>1, <3>2, <3>4 DEF IrNested, IrIsNull, IrBottom, IrLevel
  <2>15. IrAllCounted(irSegment, irCookie, irStacked)'
    <3>1. ASSUME NEW d \in 0 .. n PROVE IrCounted(IrLevel(irCookie, irStacked, d))'
      <4> DEFINE lev == IrLevel(irCookie, irStacked, d)
      <4>1. lev.topIndex \in Nat /\ \A i \in 0 .. lev.topIndex - 1 : irTable'[i].obj = irTable[i].obj
        BY <2>3, <2>4, <2>11, <2>12
      <4>2. IrNullsBelow(lev.topIndex)' = IrNullsBelow(lev.topIndex)
        BY <4>1, <2>1 DEF IrNullsBelow, IrIsNull, IrLevel
      <4>3. lev.numHoles = Cardinality(IrNullsBelow(lev.topIndex))
        BY <2>2 DEF IrAllCounted, IrCounted
      <4>4. (IrLevel(irCookie, irStacked, d))' = lev
        BY <2>1 DEF IrLevel
      <4> HIDE DEF lev
      <4>5. IrCounted(IrLevel(irCookie, irStacked, d))' <=> lev.numHoles = Cardinality(IrNullsBelow(lev.topIndex)')
        BY <4>4 DEF IrCounted, lev
      <4> QED BY <4>2, <4>3, <4>5
    <3>2. IrCounted(irSegment)'
      <4>1. newTop \in Nat /\ IrTop \in Nat /\ idx \in Nat
        BY <2>3, <2>4, <2>9
      <4>2. IrCounted(irSegment)' <=> newHoles = Cardinality({i \in 0 .. newTop - 1 : irTable'[i].obj = IrNull})
        BY <2>10 DEF IrCounted, IrNullsBelow, IrIsNull
      <4>3. CASE idx = IrTop - 1
        <5>1. \A i \in 0 .. newTop - 1 : irTable'[i].obj = irTable[i].obj
          BY <4>1, <4>3, <2>9, <2>11
        <5>2. {i \in 0 .. newTop - 1 : irTable'[i].obj = IrNull} = IrNullsBelow(newTop)
          BY <5>1 DEF IrNullsBelow, IrIsNull
        <5> QED BY <4>2, <4>3, <5>2, <2>9
      <4>4. CASE idx # IrTop - 1
        <5>1. newTop = IrTop /\ idx < IrTop /\ newHoles = irSegment.numHoles + 1
          BY <4>1, <4>4, <2>4, <2>9
        <5>2. \A i \in (0 .. IrTop - 1) \ {idx} : irTable'[i].obj = irTable[i].obj
          BY <2>11
        <5>3. irTable[idx].obj # IrNull /\ irTable'[idx].obj = IrNull
          BY <2>7, <2>8 DEF IrIsNull
        <5>6. irSegment.numHoles = Cardinality(IrNullsBelow(IrTop))
          BY <2>2 DEF IrAllCounted, IrCounted, IrTop
        <5> DEFINE t == IrTop
        <5>7. \A k \in Nat : k = IrTop =>
                 Cardinality(IrNullsBelow(k)') = Cardinality(IrNullsBelow(k)) + 1
          <6> SUFFICES ASSUME NEW k \in Nat, k = IrTop
                       PROVE  Cardinality(IrNullsBelow(k)') = Cardinality(IrNullsBelow(k)) + 1
            OBVIOUS
          <6>1. \A i \in (0 .. k - 1) \ {idx} : irTable'[i].obj = irTable[i].obj
            BY <5>2
          <6> HIDE DEF idx
          <6>2. idx < k
            BY <5>1
          <6> QED BY <4>1, <5>3, <6>1, <6>2, IrNullsEmpty
        <5>8. \A k \in Nat : k = IrTop =>
                 IrNullsBelow(k)' = {i \in 0 .. newTop - 1 : irTable'[i].obj = IrNull}
          BY <5>1 DEF IrNullsBelow, IrIsNull
        <5> QED BY <4>1, <4>2, <5>1, <5>6, <5>7, <5>8
      <4> QED BY <4>3, <4>4
    <3> QED BY <2>1, <3>1, <3>2 DEF IrAllCounted
  <2>16. \A q \in irMade : q.index \in IrIndexes /\ q.times \in Nat /\ q.depth \in Nat /\ q.obj # IrNull /\ q.index \in Nat
    BY <2>2, IrAssumption DEF IrTypeInv, IrIndexes
  <2>17. IrSerials'
    <3>1. \A q \in irMade : irTable'[q.index].serial = irTable[q.index].serial
      BY <2>8, <2>16
    <3> QED BY <2>1, <2>2, <3>1 DEF IrSerials, IrWrapped
  <2>18. IrOwned(irSegment, irCookie, irStacked, irLive)'
    <3>1. \A q \in irLive' : q.depth <= n /\ IrLevel(irCookie, irStacked, q.depth).topIndex <= q.index
      BY <2>1, <2>2 DEF IrOwned
    <3>2. ASSUME NEW q \in irMade \ irLive', q.times = irAdds[q.index]
          PROVE  q.index >= newTop \/ irTable'[q.index].obj = IrNull
      <4>1. CASE q.index = idx
        BY <4>1, <2>8
      <4>2. CASE q.index # idx
        <5>1. q \in irMade \ irLive
          BY <3>2, <4>2, <2>1
        <5>2. q.index >= IrTop \/ irTable[q.index].obj = IrNull
          BY <3>2, <5>1, <2>2 DEF IrOwned, IrIsNull, IrTop
        <5>3. irTable'[q.index] = irTable[q.index]
          BY <4>2, <2>8, <2>16
        <5> QED BY <5>2, <5>3, <2>3, <2>9, <2>16
      <4> QED BY <4>1, <4>2
    <3> QED BY <2>1, <2>10, <3>1, <3>2 DEF IrOwned, IrIsNull, IrLevel
  <2>19. IrResolved(irSegment, irCookie, irStacked, irLive)'
    <3> SUFFICES ASSUME \A q \in irMade : ~IrWrapped(q), NEW q \in irLive \ {r}
                 PROVE  /\ q.times = irAdds[q.index] /\ irTable'[q.index].obj = q.obj
                        /\ q.index < IrTopOf(irSegment, irCookie, irStacked, q.depth)'
      BY <2>1 DEF IrResolved, IrWrapped, IrTopOf, IrLevel
    <3>1. q \in irMade /\ q.depth \in 0 .. n
      BY <2>2, <2>3, <2>16 DEF IrOwned
    <3>2. /\ q.times = irAdds[q.index] /\ irTable[q.index].obj = q.obj
          /\ q.index < IrTopOf(irSegment, irCookie, irStacked, q.depth)
      BY <2>2 DEF IrResolved
    <3>3. r.times = irAdds[idx]
      BY <2>4, IrMatchIsLast
    <3>4. q.index # idx
      BY <3>1, <3>2, <3>3, <2>2 DEF IrSerials
    <3>5. irTable'[q.index] = irTable[q.index]
      BY <3>1, <3>4, <2>8, <2>16
    <3>6. CASE q.depth = n
      <4>1. IrTopOf(irSegment, irCookie, irStacked, q.depth)' = newTop /\ q.index < IrTop
        BY <3>2, <3>6, <2>1, <2>5, <2>10 DEF IrTopOf
      <4>2. ~IrIsNull(q.index)
        BY <3>1, <3>2, <2>16 DEF IrIsNull
      <4>3. q.index < newTop
        BY <3>1, <3>4, <4>1, <4>2, <2>3, <2>9, <2>16
      <4> QED BY <3>2, <3>5, <4>1, <4>3
    <3>7. CASE q.depth # n
      <4>1. IrTopOf(irSegment, irCookie, irStacked, q.depth)' = IrTopOf(irSegment, irCookie, irStacked, q.depth)
        BY <3>7, <2>1 DEF IrTopOf, IrLevel
      <4> QED BY <3>2, <3>5, <4>1
    <3> QED BY <3>6, <3>7
  <2> QED BY <2>13, <2>14, <2>15, <2>17, <2>18, <2>19 DEF IrInv, IrInvFor
<1> QED BY <1>1, <1>2

\* Trim empties entries above the top: the references to them count as wrapped.
LEMMA IrTrimKeeps ==
  ASSUME IrInv, NEW from \in IrIndexes, IrTrim(from)
  PROVE  IrInv'
<1> DEFINE n == Len(irStacked)
<1>1. /\ from \in IrTop .. IrMaxEntries - 1
      /\ irTable' = [i \in IrIndexes |-> IF i < from THEN irTable[i] ELSE [serial |-> 0, obj |-> IrNull]]
      /\ irAdds' = [i \in IrIndexes |-> IF i < from THEN irAdds[i] ELSE irAdds[i] + IrPrevCount]
      /\ UNCHANGED <<irSegment, irCookie, irStacked, irMade, irLive>>
  BY DEF IrTrim
<1>2. /\ IrTypeInv(irSegment, irCookie, irStacked, irLive) /\ IrNested(irSegment, irCookie, irStacked)
      /\ IrAllCounted(irSegment, irCookie, irStacked) /\ IrSerials /\ IrOwned(irSegment, irCookie, irStacked, irLive)
      /\ IrResolved(irSegment, irCookie, irStacked, irLive)
  BY DEF IrInv, IrInvFor
<1>3. /\ irSegment \in IrSegments /\ irCookie \in IrSegments /\ irStacked \in Seq(IrSegments) /\ irLive \subseteq irMade
      /\ IrTop \in 0 .. IrMaxEntries /\ IrBottom \in 0 .. IrMaxEntries /\ IrMaxEntries \in Nat /\ IrPrevCount \in Nat \ {0}
      /\ n \in Nat /\ from \in Nat /\ IrTop <= from
  BY <1>1, <1>2, IrAssumption DEF IrTypeInv, IrSegments, IrTop, IrBottom, IrIndexes
<1>4. /\ \A i \in IrIndexes : i < from => irTable'[i] = irTable[i] /\ irAdds'[i] = irAdds[i]
      /\ \A i \in IrIndexes : ~(i < from) => irTable'[i].obj = IrNull /\ irAdds'[i] = irAdds[i] + IrPrevCount
      /\ \A i \in 0 .. IrTop - 1 : irTable'[i] = irTable[i]
  BY <1>1, <1>3 DEF IrIndexes
<1>5. IrTypeInv(irSegment, irCookie, irStacked, irLive)'
  <2>1. irTable' \in [IrIndexes -> [serial : 0 .. IrPrevCount - 1, obj : IrObjects \union {IrNull}]]
    <3>1. \A i \in IrIndexes : irTable[i] \in [serial : 0 .. IrPrevCount - 1, obj : IrObjects \union {IrNull}]
      BY <1>2 DEF IrTypeInv
    <3>2. [serial |-> 0, obj |-> IrNull] \in [serial : 0 .. IrPrevCount - 1, obj : IrObjects \union {IrNull}]
      BY <1>3
    <3> QED BY <1>1, <3>1, <3>2
  <2>2. irAdds' \in [IrIndexes -> Nat]
    BY <1>1, <1>2, <1>3 DEF IrTypeInv
  <2> QED BY <1>1, <1>2, <2>1, <2>2 DEF IrTypeInv
<1>6. \A d \in 0 .. n : /\ IrLevel(irCookie, irStacked, d).topIndex \in Nat
                        /\ IrLevel(irCookie, irStacked, d).topIndex <= IrTop
                        /\ IrTopOf(irSegment, irCookie, irStacked, d) \in Nat
                        /\ IrTopOf(irSegment, irCookie, irStacked, d) <= IrTop
  <2>1. \A d \in 0 .. n : IrLevel(irCookie, irStacked, d) \in IrSegments
    BY <1>3 DEF IrLevel
  <2>2. \A d \in 0 .. n : IrLevel(irCookie, irStacked, d).topIndex <= IrBottom
    BY <1>2 DEF IrNested, IrBottom
  <2>3. IrBottom <= IrTop
    <3>1. /\ n \in 0 .. n /\ IrLevel(irCookie, irStacked, n) = irCookie
          /\ IrTopOf(irSegment, irCookie, irStacked, n) = IrTop
      BY <1>3 DEF IrLevel, IrTopOf, IrTop
    <3> QED BY <1>2, <3>1 DEF IrNested, IrBottom
  <2>4. \A d \in 0 .. n : IrLevel(irCookie, irStacked, d).topIndex \in Nat /\ IrLevel(irCookie, irStacked, d).topIndex <= IrTop
    <3>1. \A d \in 0 .. n : IrLevel(irCookie, irStacked, d).topIndex \in Nat
      BY <2>1 DEF IrSegments
    <3> QED BY <1>3, <2>2, <2>3, <3>1
  <2>5. \A d \in 0 .. n : IrTopOf(irSegment, irCookie, irStacked, d) \in Nat /\ IrTopOf(irSegment, irCookie, irStacked, d) <= IrTop
    BY <1>3, <2>4 DEF IrTopOf, IrTop
  <2> QED BY <2>4, <2>5
<1>7. IrNested(irSegment, irCookie, irStacked)'
  <2>1. ASSUME NEW d \in 0 .. n
        PROVE  LET top == IrTopOf(irSegment, irCookie, irStacked, d)
                   bottom == IrLevel(irCookie, irStacked, d).topIndex
               IN  /\ bottom <= irCookie.topIndex /\ bottom <= top
                   /\ \A e \in 0 .. d : IrLevel(irCookie, irStacked, e).topIndex <= bottom
                   /\ d < n => top <= irCookie.topIndex
                   /\ top > bottom => irTable'[top - 1].obj # IrNull
    <3> DEFINE top == IrTopOf(irSegment, irCookie, irStacked, d)
               bottom == IrLevel(irCookie, irStacked, d).topIndex
    <3>1. /\ bottom <= irCookie.topIndex /\ bottom <= top
          /\ \A e \in 0 .. d : IrLevel(irCookie, irStacked, e).topIndex <= bottom
          /\ d < n => top <= irCookie.topIndex
          /\ top > bottom => ~IrIsNull(top - 1)
      BY <1>2 DEF IrNested
    <3>2. top \in Nat /\ bottom \in Nat /\ top <= IrTop
      BY <1>6
    <3> HIDE DEF top, bottom
    <3>3. top > bottom => top - 1 \in 0 .. IrTop - 1
      BY <1>3, <3>2
    <3>4. top > bottom => irTable'[top - 1].obj # IrNull
      BY <1>4, <3>1, <3>3 DEF IrIsNull
    <3> QED BY <3>1, <3>4 DEF top, bottom
  <2> QED BY <1>1, <2>1 DEF IrNested, IrIsNull, IrTopOf, IrLevel
<1>8. IrAllCounted(irSegment, irCookie, irStacked)'
  <2>1. ASSUME NEW s, s.topIndex \in Nat, s.topIndex <= IrTop, IrCounted(s)
        PROVE  s.numHoles = Cardinality({i \in 0 .. s.topIndex - 1 : irTable'[i].obj = IrNull})
    <3>1. \A i \in 0 .. s.topIndex - 1 : irTable'[i] = irTable[i]
      BY <1>3, <1>4, <2>1
    <3>2. {i \in 0 .. s.topIndex - 1 : irTable'[i].obj = IrNull} = IrNullsBelow(s.topIndex)
      BY <3>1 DEF IrNullsBelow, IrIsNull
    <3> QED BY <2>1, <3>2 DEF IrCounted
  <2>2. IrCounted(irSegment) /\ irSegment.topIndex \in Nat /\ irSegment.topIndex <= IrTop
    BY <1>2, <1>3 DEF IrAllCounted, IrTop
  <2>3. \A d \in 0 .. n : IrCounted(IrLevel(irCookie, irStacked, d))
    BY <1>2 DEF IrAllCounted
  <2>4. IrCounted(irSegment)'
    BY <1>1, <2>1, <2>2 DEF IrCounted, IrNullsBelow, IrIsNull
  <2>5. ASSUME NEW d \in 0 .. n PROVE IrCounted(IrLevel(irCookie, irStacked, d))'
    <3>1. LET s == IrLevel(irCookie, irStacked, d)
          IN  s.numHoles = Cardinality({i \in 0 .. s.topIndex - 1 : irTable'[i].obj = IrNull})
      BY <1>6, <2>1, <2>3
    <3>2. IrLevel(irCookie, irStacked, d)' = IrLevel(irCookie, irStacked, d)
      BY <1>1 DEF IrLevel
    <3> QED BY <3>1, <3>2 DEF IrCounted, IrNullsBelow, IrIsNull
  <2> QED BY <1>1, <2>4, <2>5 DEF IrAllCounted
<1>9. \A q \in irMade : /\ q.index \in IrIndexes /\ q.times \in Nat /\ q.depth \in Nat /\ q.obj # IrNull /\ q.index \in Nat
                        /\ irAdds[q.index] \in Nat /\ q.times <= irAdds[q.index]
  BY <1>2, IrAssumption DEF IrTypeInv, IrIndexes, IrSerials
<1>10. \A q \in irMade : /\ q.times <= irAdds'[q.index]
                         /\ (IrWrapped(q) => IrWrapped(q)')
                         /\ (~(q.index < from) => IrWrapped(q)')
                         /\ (q.times = irAdds'[q.index] => q.index < from)
  BY <1>3, <1>4, <1>9 DEF IrWrapped
<1>11. IrSerials'
  <2>1. ASSUME NEW q \in irMade, ~IrWrapped(q)'
        PROVE  LET k == q.serial + (irAdds'[q.index] - q.times)
               IN  irTable'[q.index].serial = IF k < IrPrevCount THEN k ELSE k - IrPrevCount
    <3>1. q.index < from /\ ~IrWrapped(q)
      BY <1>10, <2>1
    <3>2. irTable'[q.index] = irTable[q.index] /\ irAdds'[q.index] = irAdds[q.index]
      BY <1>4, <1>9, <3>1
    <3> QED BY <1>2, <3>1, <3>2 DEF IrSerials
  <2> QED BY <1>1, <1>2, <1>10, <2>1 DEF IrSerials, IrWrapped
<1>12. IrOwned(irSegment, irCookie, irStacked, irLive)'
  <2>1. ASSUME NEW q \in irMade \ irLive, q.times = irAdds'[q.index]
        PROVE  q.index >= irSegment.topIndex \/ irTable'[q.index].obj = IrNull
    <3>1. irTable'[q.index] = irTable[q.index] /\ irAdds'[q.index] = irAdds[q.index]
      BY <1>4, <1>9, <1>10, <2>1
    <3> QED BY <1>2, <2>1, <3>1 DEF IrOwned, IrIsNull
  <2> QED BY <1>1, <1>2, <2>1 DEF IrOwned, IrIsNull, IrLevel
<1>13. IrResolved(irSegment, irCookie, irStacked, irLive)'
  <2> SUFFICES ASSUME \A q \in irMade : ~IrWrapped(q)', NEW q \in irLive
               PROVE  /\ q.times = irAdds'[q.index] /\ irTable'[q.index].obj = q.obj
                      /\ q.index < IrTopOf(irSegment, irCookie, irStacked, q.depth)
    BY <1>1 DEF IrResolved, IrWrapped, IrTopOf, IrLevel
  <2>1. q \in irMade /\ \A p \in irMade : ~IrWrapped(p)
    BY <1>3, <1>10
  <2>2. q.index < from
    BY <1>10, <2>1
  <2>3. irTable'[q.index] = irTable[q.index] /\ irAdds'[q.index] = irAdds[q.index]
    BY <1>4, <1>9, <2>1, <2>2
  <2> QED BY <1>2, <2>1, <2>3 DEF IrResolved
<1> QED BY <1>5, <1>7, <1>8, <1>11, <1>12, <1>13 DEF IrInv, IrInvFor

\* Every call keeps the invariant.
LEMMA IrInvStep == IrInv /\ [IrNext]_irVars => IrInv'
<1> SUFFICES ASSUME IrInv, [IrNext]_irVars PROVE IrInv'
  OBVIOUS
<1>1. CASE UNCHANGED irVars
  BY <1>1, IrInvFrame DEF IrInv, irVars
<1>2. ASSUME NEW obj \in IrObjects, NewLocalRef(obj) PROVE IrInv'
  <2>1. IrInvFor(irSegment, irCookie, irStacked, irLive) /\ IrAdd(irSegment, irCookie, irLive, obj, Len(irStacked))
        /\ irCookie' = irCookie /\ irStacked' = irStacked
    BY <1>2 DEF NewLocalRef, IrInv
  <2> QED BY <1>2, <2>1, IrAddKeeps
<1>3. ASSUME NEW r \in irMade, DeleteLocalRef(r) PROVE IrInv'
  BY <1>3, IrDeleteKeeps
<1>4. CASE PushFrame
  BY <1>4, IrPushFrameKeeps
<1>5. ASSUME NEW survivor \in {IrNull} \union {IrGet(r) : r \in irMade}, PopLocalFrame(survivor) PROVE IrInv'
  <2>1. \A r \in irMade : IrGet(r) \in IrObjects \union {IrNull}
    BY DEF IrInv, IrInvFor, IrTypeInv, IrGet
  <2>2. survivor \in IrObjects \union {IrNull}
    BY <2>1
  <2> QED BY <1>5, <2>2, IrPopLocalFrameKeeps
<1>6. ASSUME NEW from \in IrIndexes, IrTrim(from) PROVE IrInv'
  BY <1>6, IrTrimKeeps
<1> QED BY <1>1, <1>2, <1>3, <1>4, <1>5, <1>6 DEF IrNext

\* What the two properties read off the invariant.
LEMMA IrInvGives == IrInv => IrLiveRefsResolve /\ IrStaleIsRejected
<1> SUFFICES ASSUME IrInv PROVE IrLiveRefsResolve /\ IrStaleIsRejected
  OBVIOUS
<1> DEFINE n == Len(irStacked)
<1>1. /\ IrTypeInv(irSegment, irCookie, irStacked, irLive) /\ IrNested(irSegment, irCookie, irStacked)
      /\ IrAllCounted(irSegment, irCookie, irStacked) /\ IrSerials /\ IrOwned(irSegment, irCookie, irStacked, irLive)
      /\ IrResolved(irSegment, irCookie, irStacked, irLive)
  BY DEF IrInv, IrInvFor
<1>2. /\ irSegment \in IrSegments /\ irCookie \in IrSegments /\ irStacked \in Seq(IrSegments) /\ irLive \subseteq irMade
      /\ IrTop \in Nat /\ IrBottom \in Nat /\ n \in Nat
  BY <1>1, IrAssumption DEF IrTypeInv, IrSegments, IrTop, IrBottom
<1>3. /\ n \in 0 .. n /\ IrLevel(irCookie, irStacked, n) = irCookie
      /\ IrTopOf(irSegment, irCookie, irStacked, n) = IrTop
  BY <1>2 DEF IrLevel, IrTopOf, IrTop
<1>4. IrHolesCounted
  <2>1. ASSUME NEW i \in DOMAIN irStacked PROVE IrCounted(irStacked[i])
    <3>1. i \in 1 .. n
      BY <1>2
    <3>2. i - 1 \in 0 .. n /\ i - 1 # n /\ (i - 1) + 1 = i
      BY <1>2, <3>1
    <3>3. IrLevel(irCookie, irStacked, i - 1) = irStacked[i]
      BY <3>2 DEF IrLevel
    <3>4. IrCounted(IrLevel(irCookie, irStacked, i - 1))
      BY <1>1, <3>2 DEF IrAllCounted
    <3> QED BY <3>3, <3>4
  <2>2. IrCounted(irSegment) /\ IrCounted(irCookie)
    BY <1>1, <1>3 DEF IrAllCounted
  <2>3. IrTop > IrBottom => ~IrIsNull(IrTop - 1)
    BY <1>1, <1>3 DEF IrNested, IrBottom
  <2> QED BY <2>1, <2>2, <2>3 DEF IrHolesCounted, IrCounted, IrNullsBelow
<1>5. ASSUME \A r \in irMade : ~IrWrapped(r), NEW r \in irLive PROVE IrGet(r) = r.obj
  <2>1. /\ r \in irMade /\ r.index \in Nat /\ r.times \in Nat /\ r.depth \in Nat /\ r.obj # IrNull /\ r.serial \in 0 .. IrPrevCount - 1
        /\ r.times <= irAdds[r.index] /\ irAdds[r.index] \in Nat /\ IrPrevCount \in Nat \ {0}
    BY <1>1, <1>2, IrAssumption DEF IrTypeInv, IrIndexes, IrSerials
  <2>2. /\ r.times = irAdds[r.index] /\ irTable[r.index].obj = r.obj
        /\ r.index < IrTopOf(irSegment, irCookie, irStacked, r.depth)
    BY <1>1, <1>5 DEF IrResolved
  <2>3. irTable[r.index].serial = IF r.serial + (irAdds[r.index] - r.times) < IrPrevCount
                                  THEN r.serial + (irAdds[r.index] - r.times)
                                  ELSE (r.serial + (irAdds[r.index] - r.times)) - IrPrevCount
    BY <1>1, <1>5, <2>1 DEF IrSerials
  <2>4. CheckEntry(r)
    <3>1. r.serial + (irAdds[r.index] - r.times) = r.serial /\ r.serial < IrPrevCount
      BY <2>1, <2>2
    <3> QED BY <2>3, <3>1 DEF CheckEntry
  <2>5. r.depth \in 0 .. n
    BY <1>1, <1>2, <2>1 DEF IrOwned
  <2>6. IrTopOf(irSegment, irCookie, irStacked, r.depth) \in Nat /\ IrTopOf(irSegment, irCookie, irStacked, r.depth) <= IrTop
    <3>1. CASE r.depth = n
      BY <1>2, <1>3, <3>1
    <3>2. CASE r.depth # n
      <4>1. IrTopOf(irSegment, irCookie, irStacked, r.depth) <= IrBottom /\ IrBottom <= IrTop
        BY <1>1, <1>2, <1>3, <2>5, <3>2 DEF IrNested, IrBottom
      <4>2. r.depth + 1 \in 0 .. n
        BY <1>2, <2>5, <3>2
      <4>3. IrLevel(irCookie, irStacked, r.depth + 1) \in IrSegments
        BY <1>2, <4>2 DEF IrLevel
      <4>4. IrTopOf(irSegment, irCookie, irStacked, r.depth) \in Nat
        BY <3>2, <4>3 DEF IrTopOf, IrSegments
      <4> QED BY <1>2, <4>1, <4>4
    <3> QED BY <3>1, <3>2
  <2>7. r.index < IrTop
    BY <1>2, <2>1, <2>2, <2>6
  <2> QED BY <2>1, <2>2, <2>4, <2>7 DEF IrGet, GetChecked, IrIsNull
<1>6. ASSUME NEW r \in irMade \ irLive, IrGet(r) # IrNull PROVE IrWrapped(r)
  <2> SUFFICES ASSUME ~IrWrapped(r) PROVE FALSE
    OBVIOUS
  <2>1. r.index < IrTop /\ ~IrIsNull(r.index) /\ CheckEntry(r)
    BY <1>6 DEF IrGet, GetChecked
  <2>2. r.times = irAdds[r.index]
    BY <2>1, IrMatchIsLast
  <2>3. r.index >= IrTop
    BY <1>1, <2>1, <2>2 DEF IrOwned, IrTop
  <2>4. r.index \in Nat
    BY <1>1 DEF IrTypeInv, IrIndexes
  <2> QED BY <1>2, <2>1, <2>3, <2>4
<1> QED BY <1>4, <1>5, <1>6 DEF IrLiveRefsResolve, IrStaleIsRejected

\* The holes of every segment are counted and, while no serial of the table has come round, every
\* reference that was neither deleted nor popped still yields its object: whatever calls of the
\* table are made, with as many entries, frames and serials as one likes.
THEOREM IrLiveRefsResolveHolds == IrSpec => []IrLiveRefsResolve
  BY IrInvInit, IrInvStep, IrInvGives, PTL DEF IrSpec

\* Get rejects a reference that was deleted or popped until its entry has been filled
\* kIRTPrevCount times more, or trimmed.
THEOREM IrStaleIsRejectedHolds == IrSpec => []IrStaleIsRejected
  BY IrInvInit, IrInvStep, IrInvGives, PTL DEF IrSpec

----------------------------------------------------------------------------
(* Transactions. *)

\* Where InitializeClass can be, what the fields hold, and what the log of strings holds.
TrModes == {"out", "active", "rollback", "committed", "undo", "undone"}
TrBeforeFields == [status : {"verified"}, value : 0 .. 1, ref : TrStrings \union {TrNull}, float : 1 .. 2]
TrFieldTypes == [status : {"verified", "initializing", "initialized", "error"}, value : 0 .. 1,
                 ref : TrStrings \union {TrNull, TrStale}, float : 0 .. 2]
TrKinds == {"strong", "weak"}
TrOps == {"insert", "remove"}
TrLogEntries == [str : [obj : TrStrings, moves : Nat], kind : TrKinds, op : TrOps]

TrTypeInv ==
    /\ trField \in TrFieldTypes
    /\ trStrong \in SUBSET TrStrings /\ trWeak \in SUBSET TrStrings /\ trDead \in SUBSET TrStrings
    /\ trStringLog \in Seq(TrLogEntries)
    /\ trAborted \in BOOLEAN /\ trPending \in BOOLEAN
    /\ trMode \in TrModes
    /\ trMoves \in [TrMovable -> Nat]
    /\ trBefore \in [field : TrBeforeFields, strong : SUBSET TrStrings, weak : SUBSET TrStrings,
                     moves : [TrMovable -> Nat]]
    /\ trLeft \in [calls : Nat, collections : Nat]

\* The logs of objects and arrays are kept under the current address of the object.
TrKeys == \A a \in DOMAIN trLogs : \E o \in {"class", "instance", "array"} : a = TrAddress(o)

\* The value logged for location f, if one is.
TrIsLogged(f) ==
    /\ TrAddress(TrHolder[f]) \in DOMAIN trLogs
    /\ f \in DOMAIN trLogs[TrAddress(TrHolder[f])]
TrLogOf(f) == trLogs[TrAddress(TrHolder[f])][f]

\* v is what the log keeps of old, a reference under an address of since the transaction began.
TrStandsFor(f, v, old) ==
    CASE f = "ref" ->
            IF old = TrNull THEN v = TrNull
            ELSE /\ v \in [obj : {old}, moves : Nat]
                 /\ trBefore.moves[old] =< v.moves /\ v.moves =< trMoves[old]
      [] f = "float" -> v = 2 * (old \div 2)
      [] OTHER -> v = old

\* Before the rollback a location is logged, or it has not been written.
TrLogged1(f) ==
    IF TrIsLogged(f) THEN TrStandsFor(f, TrLogOf(f), trBefore.field[f])
    ELSE trField[f] = trBefore.field[f]

\* What the rollback makes of it.
TrIsRestored(f) ==
    LET old == trBefore.field[f]
    IN  \/ trField[f] = old /\ old \notin trDead
        \/ f = "float" /\ trField[f] = 2 * (old \div 2)
        \/ f = "ref" /\ old # TrNull /\ trField[f] = TrStale /\ trMoves[old] # trBefore.moves[old]

TrFieldsInv ==
    /\ trMode = "out" => trField \in TrBeforeFields /\ trLogs = <<>> /\ trDead = {}
    /\ trMode \in {"active", "rollback"} =>
          /\ TrKeys
          /\ trField["ref"] \in (TrStrings \ trDead) \union {TrNull}
          /\ trField["float"] \in 1 .. 2
          /\ trBefore.field["ref"] \notin trDead
          /\ \A o \in TrMovable : trBefore.moves[o] =< trMoves[o]
          /\ \A f \in DOMAIN TrHolder : TrLogged1(f)
    /\ trMode \in {"undo", "undone"} => \A f \in DOMAIN TrHolder : TrIsRestored(f)
    /\ trMode = "committed" => ~trAborted

\* Log L of interned strings has an entry of this kind for string x.
TrEntry(L, i, x, kind, op) == L[i].str.obj = x /\ L[i].kind = kind /\ L[i].op = op
TrHas(L, x, kind, op) == \E i \in DOMAIN L : TrEntry(L, i, x, kind, op)
TrMadeStrong(x) == TrHas(trStringLog, x, "strong", "insert")
TrMadeWeak(x) == TrHas(trStringLog, x, "weak", "insert")
TrUnweakened(x) == TrHas(trStringLog, x, "weak", "remove")

\* Strings that are interned, or will be again after the rollback.
TrKnown(x) ==
    \/ x \in trBefore.strong \/ (x \in trBefore.weak /\ x \notin trDead)
    \/ TrMadeStrong(x) \/ TrMadeWeak(x)

\* The entries of the log lead to live strings where they are; only a weak one is ever removed.
TrEntriesFit(L) ==
    \A i \in DOMAIN L : /\ L[i].str = TrAddress(L[i].str.obj) /\ L[i].str.obj \notin trDead
                        /\ L[i].kind = "weak" \/ L[i].op = "insert"

\* No entry is there twice.
TrEntriesDiffer(L) ==
    \A i, j \in DOMAIN L : \A x, kind, op :
        TrEntry(L, i, x, kind, op) /\ TrEntry(L, j, x, kind, op) => i = j

\* A weak string was added before it was taken out: the most recent entry is the first.
TrOrdered(L) ==
    \A i, j \in DOMAIN L : \A x :
        TrEntry(L, i, x, "weak", "remove") /\ TrEntry(L, j, x, "weak", "insert") => i < j

\* One string per text.
TrTextsDiffer ==
    \A x, y \in TrStrings : TrKnown(x) /\ TrKnown(y) /\ TrText[x] = TrText[y] => x = y

\* The tables are those of before with what the log tells.
TrTables ==
    \A x \in TrStrings :
        /\ x \in trStrong <=> x \in trBefore.strong \/ TrMadeStrong(x)
        /\ x \in trWeak <=> /\ ~TrUnweakened(x)
                            /\ TrMadeWeak(x) \/ (x \in trBefore.weak /\ x \notin trDead)
        /\ TrMadeStrong(x) => x \notin trBefore.strong
        /\ TrMadeWeak(x) => x \notin trBefore.weak /\ x \notin trBefore.strong
        /\ TrUnweakened(x) => TrMadeWeak(x) \/ x \in trBefore.weak

\* What holds from the beginning of the transaction until it is undone.
TrLogInv ==
    /\ TrEntriesFit(trStringLog) /\ TrEntriesDiffer(trStringLog) /\ TrOrdered(trStringLog)
    /\ TrTextsDiffer /\ TrTables
TrUndoing == {"active", "rollback", "undo", "undone"}

TrStringsInv ==
    /\ trMode = "out" =>
          /\ trStringLog = <<>>
          /\ \A x, y \in trStrong \union trWeak : TrText[x] = TrText[y] => x = y
    /\ trMode = "undone" => trStringLog = <<>>
    /\ trMode \in {"active", "rollback"} => \A x \in TrStrings : TrUnweakened(x) => TrMadeStrong(x)
    /\ trMode \in TrUndoing => TrLogInv

TrInv == ~trFatal /\ TrTypeInv /\ TrFieldsInv /\ TrStringsInv

----------------------------------------------------------------------------
(* Fields and their logs *)

\* The locations and the objects they are in.
LEMMA TrHolders ==
    /\ DOMAIN TrHolder = {"status", "value", "ref", "float"}
    /\ TrHolder["status"] = "class" /\ TrHolder["value"] = "instance"
    /\ TrHolder["ref"] = "instance" /\ TrHolder["float"] = "array"
BY DEF TrHolder

\* Addresses of different objects differ.
LEMMA TrAddresses ==
    ASSUME NEW o, NEW p
    PROVE  TrAddress(o).obj = o /\ (TrAddress(o) = TrAddress(p) => o = p)
BY DEF TrAddress

\* Addresses stay while nothing is moved.
LEMMA TrAddressStays ==
    ASSUME trMoves' = trMoves, NEW o
    PROVE  TrAddress(o)' = TrAddress(o)
BY DEF TrAddress

\* LogValue: the location is logged afterwards, with its first value; the others are as before.
LEMMA TrRecordIs ==
    ASSUME NEW f \in DOMAIN TrHolder, TrRecord(f), trMoves' = trMoves
    PROVE  /\ TrIsLogged(f)'
           /\ TrLogOf(f)' = IF TrIsLogged(f) THEN TrLogOf(f) ELSE TrLogged(f)
           /\ \A g \in DOMAIN TrHolder \ {f} :
                 (TrIsLogged(g)' <=> TrIsLogged(g)) /\ (TrIsLogged(g) => TrLogOf(g)' = TrLogOf(g))
           /\ TrKeys => TrKeys'
<1> DEFINE a == TrAddress(TrHolder[f])
           old == IF a \in DOMAIN trLogs THEN trLogs[a] ELSE <<>>
           new == [g \in DOMAIN old \union {f} |-> IF g \in DOMAIN old THEN old[g] ELSE TrLogged(f)]
<1>1. trLogs' = [b \in DOMAIN trLogs \union {a} |-> IF b = a THEN new ELSE trLogs[b]]
  BY DEF TrRecord
<1>2. \A o : TrAddress(o)' = TrAddress(o)
  BY TrAddressStays
<1>3. f \in DOMAIN old <=> TrIsLogged(f)
  BY DEF TrIsLogged
<1>4. TrIsLogged(f) => old[f] = TrLogOf(f)
  BY DEF TrIsLogged, TrLogOf
<1>5. \A g \in DOMAIN TrHolder \ {f} : TrAddress(TrHolder[g]) = a =>
          /\ g \in DOMAIN old <=> TrIsLogged(g)
          /\ TrIsLogged(g) => old[g] = TrLogOf(g)
  BY DEF TrIsLogged, TrLogOf
<1> HIDE DEF old
<1>6. /\ f \in DOMAIN new /\ new[f] = IF TrIsLogged(f) THEN TrLogOf(f) ELSE TrLogged(f)
      /\ \A g \in DOMAIN TrHolder \ {f} : TrAddress(TrHolder[g]) = a =>
          /\ g \in DOMAIN new <=> TrIsLogged(g)
          /\ TrIsLogged(g) => new[g] = TrLogOf(g)
  BY <1>3, <1>4, <1>5
<1> HIDE DEF new
<1>7. a \in DOMAIN trLogs' /\ trLogs'[a] = new
      /\ \A b : b # a => (b \in DOMAIN trLogs' <=> b \in DOMAIN trLogs) /\ (b \in DOMAIN trLogs => trLogs'[b] = trLogs[b])
  BY <1>1
<1>8. \A g \in DOMAIN TrHolder : TrAddress(TrHolder[g])' = TrAddress(TrHolder[g])
  BY <1>2
<1>9. TrIsLogged(f)' /\ TrLogOf(f)' = IF TrIsLogged(f) THEN TrLogOf(f) ELSE TrLogged(f)
  <2>1. TrAddress(TrHolder[f])' = a
    BY <1>8
  <2> QED BY <1>6, <1>7, <2>1 DEF TrIsLogged, TrLogOf
<1>10. ASSUME NEW g \in DOMAIN TrHolder \ {f}
       PROVE  (TrIsLogged(g)' <=> TrIsLogged(g)) /\ (TrIsLogged(g) => TrLogOf(g)' = TrLogOf(g))
  <2>1. CASE TrAddress(TrHolder[g]) = a
    BY <1>6, <1>7, <1>8, <2>1 DEF TrIsLogged, TrLogOf
  <2>2. CASE TrAddress(TrHolder[g]) # a
    BY <1>7, <1>8, <2>2 DEF TrIsLogged, TrLogOf
  <2> QED BY <2>1, <2>2
<1>11. TrKeys => TrKeys'
  <2>1. TrHolder[f] \in {"class", "instance", "array"}
    BY TrHolders
  <2>2. TrKeys => \A b \in DOMAIN trLogs' : \E o \in {"class", "instance", "array"} : b = TrAddress(o)
    BY <1>7, <2>1 DEF TrKeys
  <2> QED BY <1>2, <2>2 DEF TrKeys
<1> QED BY <1>9, <1>10, <1>11

\* What is logged for a location that has not been written stands for the value it had.
LEMMA TrLoggedStands ==
    ASSUME TransactionAssumption, TrTypeInv, NEW f \in DOMAIN TrHolder, trField[f] = trBefore.field[f],
           \A o \in TrMovable : trBefore.moves[o] =< trMoves[o]
    PROVE  TrStandsFor(f, TrLogged(f), trBefore.field[f])
<1>0. f \in {"status", "value", "ref", "float"}
  BY TrHolders
<1>1. CASE f = "ref"
  <2>1. trBefore.field["ref"] \in TrStrings \union {TrNull}
    BY DEF TrTypeInv, TrBeforeFields
  <2>2. CASE trBefore.field["ref"] = TrNull
    BY <1>1, <2>2 DEF TrStandsFor, TrLogged
  <2>3. CASE trBefore.field["ref"] \in TrStrings /\ trBefore.field["ref"] # TrNull
    <3> DEFINE old == trBefore.field["ref"]
    <3>1. old \in TrMovable /\ trMoves[old] \in Nat /\ trBefore.moves[old] =< trMoves[old]
      BY <2>3 DEF TrMovable, TrTypeInv
    <3>2. TrLogged(f) = [obj |-> old, moves |-> trMoves[old]]
      BY <1>1, <2>3, <3>1 DEF TrLogged, TrAddress
    <3> HIDE DEF old
    <3>3. /\ TrLogged(f) \in [obj : {old}, moves : Nat]
          /\ trBefore.moves[old] =< TrLogged(f).moves /\ TrLogged(f).moves =< trMoves[old]
      BY <3>1, <3>2
    <3> QED BY <1>1, <2>3, <3>3 DEF TrStandsFor, old
  <2> QED BY <2>1, <2>2, <2>3
<1>2. CASE f = "float"
  BY <1>2 DEF TrStandsFor, TrLogged
<1>3. CASE f = "status" \/ f = "value"
  BY <1>3 DEF TrStandsFor, TrLogged
<1> QED BY <1>0, <1>1, <1>2, <1>3

\* A write in the transaction keeps every location logged or unwritten.
LEMMA TrSetKeeps ==
    ASSUME TransactionAssumption, TrTypeInv, NEW f \in DOMAIN TrHolder, NEW v, TrSet(f, v),
           trMoves' = trMoves, trBefore' = trBefore,
           \A o \in TrMovable : trBefore.moves[o] =< trMoves[o],
           \A g \in DOMAIN TrHolder : TrLogged1(g)
    PROVE  \A g \in DOMAIN TrHolder : TrLogged1(g)'
<1>0. TrRecord(f) /\ trField' = [trField EXCEPT ![f] = v]
  BY DEF TrSet
<1>1. /\ TrIsLogged(f)'
      /\ TrLogOf(f)' = IF TrIsLogged(f) THEN TrLogOf(f) ELSE TrLogged(f)
      /\ \A g \in DOMAIN TrHolder \ {f} :
            (TrIsLogged(g)' <=> TrIsLogged(g)) /\ (TrIsLogged(g) => TrLogOf(g)' = TrLogOf(g))
  BY <1>0, TrRecordIs
<1>2. \A g \in DOMAIN TrHolder \ {f} : trField'[g] = trField[g]
  <2>1. DOMAIN trField = {"status", "value", "ref", "float"}
    BY DEF TrTypeInv, TrFieldTypes
  <2> QED BY <1>0, <2>1, TrHolders
<1>3. \A g, w, old : TrStandsFor(g, w, old) => TrStandsFor(g, w, old)'
  BY DEF TrStandsFor
<1>4. TrLogged1(f)'
  <2>1. TrStandsFor(f, TrLogOf(f)', trBefore.field[f])
    <3>1. CASE TrIsLogged(f)
      BY <1>1, <3>1 DEF TrLogged1
    <3>2. CASE ~TrIsLogged(f)
      <4>1. trField[f] = trBefore.field[f]
        BY <3>2 DEF TrLogged1
      <4> QED BY <1>1, <3>2, <4>1, TrLoggedStands
    <3> QED BY <3>1, <3>2
  <2>2. TrStandsFor(f, TrLogOf(f), trBefore.field[f])'
    BY <2>1 DEF TrStandsFor
  <2> QED BY <1>1, <2>2 DEF TrLogged1
<1>5. ASSUME NEW g \in DOMAIN TrHolder \ {f} PROVE TrLogged1(g)'
  <2>1. CASE TrIsLogged(g)
    <3>1. TrStandsFor(g, TrLogOf(g), trBefore.field[g])
      BY <2>1 DEF TrLogged1
    <3>2. TrStandsFor(g, TrLogOf(g), trBefore.field[g])'
      BY <1>1, <2>1, <3>1 DEF TrStandsFor
    <3> QED BY <1>1, <2>1, <3>2 DEF TrLogged1
  <2>2. CASE ~TrIsLogged(g)
    BY <1>1, <1>2, <2>2 DEF TrLogged1
  <2> QED BY <2>1, <2>2
<1> QED BY <1>4, <1>5

\* The new address of an object is the old one moved.
LEMMA TrMovedIs ==
    ASSUME TrTypeInv, NEW moved \in SUBSET TrMovable, NEW o,
           trMoves' = [p \in TrMovable |-> trMoves[p] + IF p \in moved THEN 1 ELSE 0]
    PROVE  TrMoved(TrAddress(o), moved) = TrAddress(o)'
<1>1. CASE o \in moved
  <2>1. o \in TrMovable /\ trMoves'[o] = trMoves[o] + 1
    BY <1>1
  <2> QED BY <1>1, <2>1 DEF TrMoved, TrAddress
<1>2. CASE o \notin moved
  <2>1. o \in TrMovable => trMoves'[o] = trMoves[o]
    BY <1>2 DEF TrTypeInv
  <2> QED BY <1>2, <2>1 DEF TrMoved, TrAddress
<1> QED BY <1>1, <1>2

\* VisitObjectLogs and VisitArrayLogs: the logs are found under the new addresses.
LEMMA TrVisitLogsIs ==
    ASSUME TrTypeInv, TrKeys, NEW moved \in SUBSET TrMovable, TrVisitLogs(moved),
           trMoves' = [p \in TrMovable |-> trMoves[p] + IF p \in moved THEN 1 ELSE 0]
    PROVE  /\ TrKeys'
           /\ \A f \in DOMAIN TrHolder :
                 (TrIsLogged(f)' <=> TrIsLogged(f)) /\ (TrIsLogged(f) => TrLogOf(f)' = TrLogOf(f))
<1> DEFINE N(o) == TrAddress(o)'
           Objects == {"class", "instance", "array"}
<1>1. \A o : TrMoved(TrAddress(o), moved) = N(o)
  BY TrMovedIs
<1>2. \A o, p : N(o) = N(p) => o = p
  BY DEF TrAddress
<1>3. \A b \in DOMAIN trLogs : \E o \in Objects : b = TrAddress(o)
  BY DEF TrKeys
<1> HIDE DEF N
<1>4. trLogs' = [a \in {TrMoved(b, moved) : b \in DOMAIN trLogs} |->
                    trLogs[CHOOSE b \in DOMAIN trLogs : TrMoved(b, moved) = a]]
  BY DEF TrVisitLogs
<1>5. \A a \in DOMAIN trLogs' : \E o \in Objects : a = N(o)
  BY <1>1, <1>3, <1>4
<1>6. ASSUME NEW o
      PROVE  /\ N(o) \in DOMAIN trLogs' <=> TrAddress(o) \in DOMAIN trLogs
             /\ TrAddress(o) \in DOMAIN trLogs => trLogs'[N(o)] = trLogs[TrAddress(o)]
  <2>1. ASSUME NEW b \in DOMAIN trLogs, TrMoved(b, moved) = N(o)
        PROVE  b = TrAddress(o)
    <3>1. PICK p \in Objects : b = TrAddress(p)
      BY <1>3
    <3>2. N(p) = N(o)
      BY <1>1, <2>1, <3>1
    <3> QED BY <1>2, <3>1, <3>2
  <2>2. N(o) \in DOMAIN trLogs' <=> TrAddress(o) \in DOMAIN trLogs
    BY <1>1, <1>4, <2>1
  <2>3. ASSUME TrAddress(o) \in DOMAIN trLogs
        PROVE  trLogs'[N(o)] = trLogs[TrAddress(o)]
    <3> DEFINE c == CHOOSE b \in DOMAIN trLogs : TrMoved(b, moved) = N(o)
    <3>1. c \in DOMAIN trLogs /\ TrMoved(c, moved) = N(o)
      BY <1>1, <2>3
    <3>2. c = TrAddress(o)
      BY <2>1, <3>1
    <3>3. N(o) \in {TrMoved(b, moved) : b \in DOMAIN trLogs}
      BY <1>1, <2>3
    <3>4. trLogs'[N(o)] = trLogs[c]
      BY <1>4, <3>3
    <3> QED BY <3>2, <3>4
  <2> QED BY <2>2, <2>3
<1>7. TrKeys'
  BY <1>5 DEF TrKeys, N
<1>8. ASSUME NEW f \in DOMAIN TrHolder
      PROVE  (TrIsLogged(f)' <=> TrIsLogged(f)) /\ (TrIsLogged(f) => TrLogOf(f)' = TrLogOf(f))
  <2>1. /\ TrAddress(TrHolder[f])' = N(TrHolder[f])
        /\ N(TrHolder[f]) \in DOMAIN trLogs' <=> TrAddress(TrHolder[f]) \in DOMAIN trLogs
        /\ TrAddress(TrHolder[f]) \in DOMAIN trLogs =>
              trLogs'[N(TrHolder[f])] = trLogs[TrAddress(TrHolder[f])]
    BY <1>6 DEF N
  <2> QED BY <2>1 DEF TrIsLogged, TrLogOf
<1> QED BY <1>7, <1>8

\* The locations and logs of a step that touches neither them nor the mode.
LEMMA TrFieldsStay ==
    ASSUME TrFieldsInv, trField' = trField, trLogs' = trLogs, trMoves' = trMoves, trBefore' = trBefore,
           trDead' = trDead, trMode' = trMode, trMode = "committed" => trAborted' = trAborted
    PROVE  TrFieldsInv'
<1>1. \A o : TrAddress(o)' = TrAddress(o)
  BY TrAddressStays
<1>2. TrKeys => TrKeys'
  BY <1>1 DEF TrKeys
<1>3. \A f \in DOMAIN TrHolder : (TrIsLogged(f)' <=> TrIsLogged(f)) /\ TrLogOf(f)' = TrLogOf(f)
  <2> TAKE f \in DOMAIN TrHolder
  <2>1. TrAddress(TrHolder[f])' = TrAddress(TrHolder[f])
    BY <1>1
  <2> QED BY <2>1 DEF TrIsLogged, TrLogOf
<1>4. ASSUME NEW f \in DOMAIN TrHolder, TrLogged1(f)
      PROVE  TrLogged1(f)'
  <2>1. CASE TrIsLogged(f)
    <3>1. TrStandsFor(f, TrLogOf(f), trBefore.field[f])
      BY <1>4, <2>1 DEF TrLogged1
    <3>2. TrStandsFor(f, TrLogOf(f), trBefore.field[f])'
      BY <1>3, <3>1 DEF TrStandsFor
    <3> QED BY <1>3, <2>1, <3>2 DEF TrLogged1
  <2>2. CASE ~TrIsLogged(f)
    BY <1>3, <1>4, <2>2 DEF TrLogged1
  <2> QED BY <2>1, <2>2
<1>5. \A f \in DOMAIN TrHolder : TrIsRestored(f) => TrIsRestored(f)'
  BY DEF TrIsRestored
<1> QED BY <1>2, <1>4, <1>5 DEF TrFieldsInv

\* A collection keeps the fields and what is logged of them.
LEMMA TrCollectFields ==
    ASSUME TransactionAssumption, TrTypeInv, TrFieldsInv, NEW moved \in SUBSET TrMovable,
           NEW dead \in SUBSET TrStrings, TrCollect(moved, dead)
    PROVE  TrFieldsInv'
<1>1. trMode = "active" /\ trMode' = "active" /\ trField' = trField /\ trBefore' = trBefore
      /\ trDead' = trDead \union dead
      /\ trMoves' = [o \in TrMovable |-> trMoves[o] + IF o \in moved THEN 1 ELSE 0]
      /\ TrVisitLogs(moved)
      /\ dead \intersect (TrLogRoots \union trStrong \union {trField["ref"]} \union trDead) = {}
  BY DEF TrCollect, trControl
<1>2. /\ TrKeys
      /\ trField["ref"] \in (TrStrings \ trDead) \union {TrNull}
      /\ trField["float"] \in 1 .. 2
      /\ trBefore.field["ref"] \notin trDead
      /\ \A o \in TrMovable : trBefore.moves[o] =< trMoves[o]
      /\ \A f \in DOMAIN TrHolder : TrLogged1(f)
  BY <1>1 DEF TrFieldsInv
<1>3. /\ TrKeys'
      /\ \A f \in DOMAIN TrHolder :
            (TrIsLogged(f)' <=> TrIsLogged(f)) /\ (TrIsLogged(f) => TrLogOf(f)' = TrLogOf(f))
  BY <1>1, <1>2, TrVisitLogsIs
<1>4. \A o \in TrMovable : /\ trMoves[o] \in Nat /\ trMoves'[o] \in Nat /\ trBefore.moves[o] \in Nat
                           /\ trMoves[o] =< trMoves'[o]
  BY <1>1 DEF TrTypeInv
<1>5. \A o \in TrMovable : trBefore'.moves[o] =< trMoves'[o]
  BY <1>1, <1>2, <1>4
<1>6. ASSUME NEW f \in DOMAIN TrHolder PROVE TrLogged1(f)'
  <2>1. CASE TrIsLogged(f)
    <3>1. TrStandsFor(f, TrLogOf(f), trBefore.field[f])
      BY <1>2, <2>1 DEF TrLogged1
    <3>2. f = "ref" => trBefore.field[f] \in TrStrings \union {TrNull}
      BY DEF TrTypeInv, TrBeforeFields
    <3>3. f = "ref" /\ trBefore.field[f] # TrNull => trBefore.field[f] \in TrMovable
      BY <3>2 DEF TrMovable
    <3>4. TrStandsFor(f, TrLogOf(f), trBefore.field[f])'
      <4> DEFINE v == TrLogOf(f)
                 old == trBefore.field[f]
      <4>1. TrStandsFor(f, v, old)
        BY <3>1
      <4>2. TrLogOf(f)' = v /\ trBefore' = trBefore
        BY <1>1, <1>3, <2>1
      <4> HIDE DEF v
      <4>3. CASE f = "ref" /\ old # TrNull
        <5>1. /\ v \in [obj : {old}, moves : Nat] /\ trBefore.moves[old] =< v.moves /\ v.moves =< trMoves[old]
          BY <4>1, <4>3 DEF TrStandsFor
        <5>2. v.moves \in Nat /\ trMoves[old] \in Nat /\ trMoves'[old] \in Nat /\ trMoves[old] =< trMoves'[old]
          BY <1>4, <3>3, <4>3, <5>1
        <5>3. v.moves =< trMoves'[old]
          BY <5>1, <5>2
        <5> QED BY <4>2, <4>3, <5>1, <5>3 DEF TrStandsFor
      <4>4. CASE ~(f = "ref" /\ old # TrNull)
        BY <4>1, <4>2, <4>4 DEF TrStandsFor
      <4> QED BY <4>3, <4>4
    <3> QED BY <1>3, <2>1, <3>4 DEF TrLogged1
  <2>2. CASE ~TrIsLogged(f)
    BY <1>1, <1>2, <1>3, <2>2 DEF TrLogged1
  <2> QED BY <2>1, <2>2
<1>7. trBefore.field["ref"] \notin dead
  <2> DEFINE old == trBefore.field["ref"]
  <2>0. "ref" \in DOMAIN TrHolder
    BY TrHolders
  <2>1. CASE ~TrIsLogged("ref")
    <3>1. trField["ref"] = old
      BY <1>2, <2>0, <2>1 DEF TrLogged1
    <3> QED BY <1>1, <3>1
  <2>2. CASE TrIsLogged("ref") /\ old \in TrStrings
    <3> DEFINE a == TrAddress(TrHolder["ref"])
               v == trLogs[a]["ref"]
    <3>1. TrStandsFor("ref", v, old) /\ a \in DOMAIN trLogs /\ "ref" \in DOMAIN trLogs[a]
      BY <1>2, <2>0, <2>2 DEF TrLogged1, TrIsLogged, TrLogOf
    <3>2. old # TrNull
      BY <2>2 DEF TransactionAssumption
    <3>3. v \in [obj : {old}, moves : Nat]
      BY <3>1, <3>2 DEF TrStandsFor
    <3>4. v \in [obj : TrStrings, moves : Nat] /\ v.obj = old
      BY <2>2, <3>3
    <3>5. v # TrNull
      BY <3>4 DEF TransactionAssumption
    <3>6. v.obj \in TrLogRoots
      BY <3>1, <3>5 DEF TrLogRoots
    <3> QED BY <1>1, <3>4, <3>6
  <2>3. CASE old \notin TrStrings
    BY <2>3
  <2> QED BY <2>1, <2>2, <2>3
<1>8. trField["ref"] \notin dead
  BY <1>1
<1> QED BY <1>1, <1>2, <1>3, <1>5, <1>6, <1>7, <1>8 DEF TrFieldsInv

\* A write of the <clinit> or of InitializeClass, in the transaction.
LEMMA TrSetFields ==
    ASSUME TransactionAssumption, TrTypeInv, TrFieldsInv, trMode = "active",
           NEW f \in DOMAIN TrHolder, NEW v, TrSet(f, v),
           f = "ref" => v \in (TrStrings \ trDead) \union {TrNull}, f = "float" => v \in 1 .. 2,
           trMoves' = trMoves, trBefore' = trBefore, trDead' = trDead,
           trMode' \in {"active", "rollback", "committed"}, trMode' = "committed" => ~trAborted'
    PROVE  TrFieldsInv'
<1>1. /\ TrKeys
      /\ trField["ref"] \in (TrStrings \ trDead) \union {TrNull}
      /\ trField["float"] \in 1 .. 2
      /\ trBefore.field["ref"] \notin trDead
      /\ \A o \in TrMovable : trBefore.moves[o] =< trMoves[o]
      /\ \A g \in DOMAIN TrHolder : TrLogged1(g)
  BY DEF TrFieldsInv
<1>2. TrRecord(f) /\ trField' = [trField EXCEPT ![f] = v]
  BY DEF TrSet
<1>3. TrKeys'
  BY <1>1, <1>2, TrRecordIs
<1>4. \A g \in DOMAIN TrHolder : TrLogged1(g)'
  BY <1>1, TrSetKeeps
<1>5. DOMAIN trField = {"status", "value", "ref", "float"}
  BY DEF TrTypeInv, TrFieldTypes
<1>6. trField'["ref"] \in (TrStrings \ trDead) \union {TrNull} /\ trField'["float"] \in 1 .. 2
  BY <1>1, <1>2, <1>5
<1> QED BY <1>1, <1>3, <1>4, <1>6 DEF TrFieldsInv

\* EnterTransactionMode: only the status is logged, with what it was.
LEMMA TrEnterFields ==
    ASSUME TransactionAssumption, TrTypeInv, TrFieldsInv, TrEnter
    PROVE  TrFieldsInv'
<1>1. /\ trMode = "out" /\ trMode' = "active" /\ trBefore' = TrSnapshot /\ trMoves' = trMoves
      /\ trDead' = trDead /\ TrRecord("status") /\ trField' = [trField EXCEPT !["status"] = "initializing"]
  BY DEF TrEnter, trHeap, TrSet
<1>2. trField \in TrBeforeFields /\ trLogs = <<>> /\ trDead = {}
  BY <1>1 DEF TrFieldsInv
<1>3. \A g : ~TrIsLogged(g)
  BY <1>2 DEF TrIsLogged
<1>4. TrKeys
  BY <1>2 DEF TrKeys
<1>5. "status" \in DOMAIN TrHolder
  BY TrHolders
<1>6. /\ TrIsLogged("status")' /\ TrLogOf("status")' = TrLogged("status") /\ TrKeys'
      /\ \A g \in DOMAIN TrHolder \ {"status"} : ~TrIsLogged(g)'
  BY <1>1, <1>3, <1>4, <1>5, TrRecordIs
<1>7. trBefore'.field = trField /\ trBefore'.moves = trMoves
  BY <1>1 DEF TrSnapshot
<1>8. TrLogged1("status")'
  <2>1. TrLogged("status") = trField["status"]
    BY DEF TrLogged
  <2>2. TrStandsFor("status", TrLogOf("status"), trBefore.field["status"])'
    BY <1>6, <1>7, <2>1 DEF TrStandsFor
  <2> QED BY <1>6, <2>2 DEF TrLogged1
<1>9. ASSUME NEW g \in DOMAIN TrHolder \ {"status"} PROVE TrLogged1(g)'
  <2>1. trField'[g] = trField[g]
    BY <1>1, <1>2, TrHolders DEF TrBeforeFields
  <2> QED BY <1>6, <1>7, <2>1 DEF TrLogged1
<1>10. /\ trField'["ref"] \in (TrStrings \ trDead') \union {TrNull} /\ trField'["float"] \in 1 .. 2
       /\ trBefore'.field["ref"] \notin trDead'
  BY <1>1, <1>2, <1>7 DEF TrBeforeFields
<1>11. \A o \in TrMovable : trBefore'.moves[o] =< trMoves'[o]
  BY <1>1, <1>7 DEF TrTypeInv
<1> QED BY <1>1, <1>6, <1>8, <1>9, <1>10, <1>11 DEF TrFieldsInv

\* UndoObjectModifications and UndoArrayModifications find every object where it was logged.
LEMMA TrRollbackFields ==
    ASSUME TransactionAssumption, TrTypeInv, TrFieldsInv, TrRollback
    PROVE  TrFieldsInv' /\ (trFatal' => trFatal) /\ trField' \in TrFieldTypes
<1>1. /\ trMode = "rollback" /\ trMode' = "undo" /\ trBefore' = trBefore /\ trMoves' = trMoves
      /\ trDead' = trDead
      /\ trField' = [f \in DOMAIN trField |->
            IF TrIsLogged(f) THEN TrRestored(f, TrLogOf(f)) ELSE trField[f]]
      /\ trFatal' = (trFatal \/ \E a \in DOMAIN trLogs : a # TrAddress(a.obj))
  BY DEF TrRollback, trHeap, TrIsLogged, TrLogOf
<1>2. /\ TrKeys
      /\ trField["ref"] \in (TrStrings \ trDead) \union {TrNull}
      /\ trField["float"] \in 1 .. 2
      /\ trBefore.field["ref"] \notin trDead
      /\ \A o \in TrMovable : trBefore.moves[o] =< trMoves[o]
      /\ \A f \in DOMAIN TrHolder : TrLogged1(f)
  BY <1>1 DEF TrFieldsInv
<1>3. DOMAIN trField = {"status", "value", "ref", "float"}
  BY DEF TrTypeInv, TrFieldTypes
<1>4. trFatal' => trFatal
  <2>1. \A a \in DOMAIN trLogs : a = TrAddress(a.obj)
    BY <1>2, TrAddresses DEF TrKeys
  <2> QED BY <1>1, <2>1
<1>5. ASSUME NEW f \in DOMAIN TrHolder
      PROVE  /\ TrIsRestored(f)'
             /\ f = "ref" => trField'[f] \in TrStrings \union {TrNull, TrStale}
             /\ f = "status" => trField'[f] \in {"verified", "initializing", "initialized", "error"}
             /\ f = "value" => trField'[f] \in 0 .. 1
             /\ f = "float" => trField'[f] \in 0 .. 2
  <2> DEFINE old == trBefore.field[f]
  <2>0. f \in {"status", "value", "ref", "float"} /\ TrLogged1(f)
    BY <1>2, TrHolders
  <2>1. trField'[f] = IF TrIsLogged(f) THEN TrRestored(f, TrLogOf(f)) ELSE trField[f]
    BY <1>1, <1>3, <2>0
  <2>2. /\ f = "ref" => old \in TrStrings \union {TrNull}
        /\ f = "status" => old = "verified"
        /\ f = "value" => old \in 0 .. 1
        /\ f = "float" => old \in 1 .. 2
    BY DEF TrTypeInv, TrBeforeFields
  <2>3. old \notin trDead
    BY <1>2, <2>0, <2>2 DEF TransactionAssumption, TrTypeInv
  <2>4. trBefore'.field[f] = old
    BY <1>1
  <2> HIDE DEF old
  <2>5. CASE ~TrIsLogged(f)
    <3>1. trField'[f] = old
      BY <2>0, <2>1, <2>5 DEF TrLogged1, old
    <3> QED BY <1>1, <2>0, <2>2, <2>3, <2>4, <3>1 DEF TrIsRestored
  <2>6. CASE TrIsLogged(f) /\ f = "float"
    <3>1. trField'[f] = TrLogOf(f)
      BY <2>1, <2>6 DEF TrRestored
    <3>2. TrStandsFor(f, TrLogOf(f), old)
      BY <2>0, <2>6 DEF TrLogged1, old
    <3>3. trField'[f] = 2 * (old \div 2)
      BY <2>6, <3>1, <3>2 DEF TrStandsFor
    <3>4. old \in 1 .. 2
      BY <2>2, <2>6
    <3>5. old = 1 \/ old = 2
      BY <3>4
    <3>6. 2 * (old \div 2) \in 0 .. 2
      BY <3>5
    <3> QED BY <1>1, <2>4, <2>6, <3>3, <3>6 DEF TrIsRestored
  <2>7. CASE TrIsLogged(f) /\ (f = "status" \/ f = "value")
    <3>1. trField'[f] = TrLogOf(f)
      BY <2>1, <2>7 DEF TrRestored
    <3>2. TrStandsFor(f, TrLogOf(f), old)
      BY <2>0, <2>7 DEF TrLogged1, old
    <3>3. trField'[f] = old
      BY <2>7, <3>1, <3>2 DEF TrStandsFor
    <3> QED BY <1>1, <2>2, <2>3, <2>4, <2>7, <3>3 DEF TrIsRestored
  <2>8. CASE TrIsLogged(f) /\ f = "ref"
    <3> DEFINE v == TrLogOf(f)
    <3>1. TrStandsFor(f, v, old)
      BY <2>0, <2>8 DEF TrLogged1, old
    <3>2. trField'[f] = TrRestored(f, v)
      BY <2>1, <2>8
    <3> HIDE DEF v
    <3>3. CASE old = TrNull
      <4>1. v = TrNull
        BY <2>8, <3>1, <3>3 DEF TrStandsFor
      <4>2. trField'[f] = old
        BY <3>2, <3>3, <4>1 DEF TrRestored
      <4> QED BY <1>1, <2>2, <2>3, <2>4, <2>8, <4>2 DEF TrIsRestored
    <3>4. CASE old # TrNull
      <4>1. /\ v \in [obj : {old}, moves : Nat]
            /\ trBefore.moves[old] =< v.moves /\ v.moves =< trMoves[old]
        BY <2>8, <3>1, <3>4 DEF TrStandsFor
      <4>2. old \in TrStrings /\ old \in TrMovable /\ trMoves[old] \in Nat /\ trBefore.moves[old] \in Nat
        BY <2>2, <2>8, <3>4 DEF TrMovable, TrTypeInv
      <4>3. v \in [obj : TrStrings, moves : Nat] /\ v.obj = old
        BY <4>1, <4>2
      <4>4. v # TrNull
        BY <4>3 DEF TransactionAssumption
      <4>5. trField'[f] = IF v = TrAddress(old) THEN old ELSE TrStale
        BY <2>8, <3>2, <4>3, <4>4 DEF TrRestored
      <4>6. CASE v = TrAddress(old)
        <5>1. trField'[f] = old
          BY <4>5, <4>6
        <5> QED BY <1>1, <2>2, <2>3, <2>4, <2>8, <5>1 DEF TrIsRestored
      <4>7. CASE v # TrAddress(old)
        <5>1. trField'[f] = TrStale
          BY <4>5, <4>7
        <5>2. v.moves # trMoves[old]
          BY <4>1, <4>2, <4>7 DEF TrAddress
        <5>3. trMoves[old] # trBefore.moves[old]
          BY <4>1, <4>2, <5>2
        <5> QED BY <1>1, <2>4, <2>8, <3>4, <5>1, <5>3 DEF TrIsRestored
      <4> QED BY <4>6, <4>7
    <3> QED BY <3>3, <3>4
  <2> QED BY <2>0, <2>5, <2>6, <2>7, <2>8
<1>6. \A f \in DOMAIN TrHolder : TrIsRestored(f)'
  BY <1>5
<1>7. trField' \in TrFieldTypes
  <2>1. trField' = [f \in {"status", "value", "ref", "float"} |-> trField'[f]]
    BY <1>1, <1>3
  <2>2. /\ trField'["ref"] \in TrStrings \union {TrNull, TrStale}
        /\ trField'["status"] \in {"verified", "initializing", "initialized", "error"}
        /\ trField'["value"] \in 0 .. 1
        /\ trField'["float"] \in 0 .. 2
    BY <1>5, TrHolders
  <2> QED BY <2>1, <2>2 DEF TrFieldTypes
<1> QED BY <1>1, <1>4, <1>6, <1>7 DEF TrFieldsInv

----------------------------------------------------------------------------
(* Interned strings *)

\* A new entry at the front of the log.
LEMMA TrPrepend ==
    ASSUME NEW L \in Seq(TrLogEntries), NEW x \in TrStrings, NEW k \in TrKinds, NEW op \in TrOps,
           TrAddress(x) \in [obj : TrStrings, moves : Nat], ~TrHas(L, x, k, op)
    PROVE  LET K == TrLogString(x, k, op) \o L
           IN  /\ K \in Seq(TrLogEntries)
               /\ \A y, k2, op2 : TrHas(K, y, k2, op2) <=>
                     TrHas(L, y, k2, op2) \/ (y = x /\ k2 = k /\ op2 = op)
               /\ TrEntriesDiffer(L) => TrEntriesDiffer(K)
               /\ TrOrdered(L) /\ (k = "weak" /\ op = "insert" => ~TrHas(L, x, "weak", "remove"))
                     => TrOrdered(K)
               /\ TrEntriesFit(L) /\ x \notin trDead /\ (k = "weak" \/ op = "insert")
                     => TrEntriesFit(K)
<1> DEFINE K == TrLogString(x, k, op) \o L
<1> DEFINE e == [str |-> TrAddress(x), kind |-> k, op |-> op]
<1>1. e \in TrLogEntries
  BY DEF TrLogEntries
<1>2. e.str = TrAddress(x) /\ e.str.obj = x /\ e.kind = k /\ e.op = op
  BY TrAddresses
<1>3. K = <<e>> \o L
  BY DEF TrLogString
<1> HIDE DEF e, K
<1>4. /\ K \in Seq(TrLogEntries) /\ Len(K) = Len(L) + 1 /\ K[1] = e /\ Len(L) \in Nat
      /\ \A i \in 2 .. (Len(L) + 1) : K[i] = L[i - 1]
  BY <1>1, <1>3
<1>5. DOMAIN L = 1 .. Len(L) /\ DOMAIN K = 1 .. (Len(L) + 1)
  BY <1>4
<1>6. \A i \in DOMAIN K : (i = 1 /\ K[i] = e) \/ (i > 1 /\ i - 1 \in DOMAIN L /\ K[i] = L[i - 1])
  BY <1>4, <1>5
<1>7. \A i \in DOMAIN L : i + 1 \in DOMAIN K /\ K[i + 1] = L[i]
  BY <1>4, <1>5
<1>8. 1 \in DOMAIN K
  BY <1>4, <1>5
<1>9. \A y, k2, op2 : TrEntry(K, 1, y, k2, op2) <=> y = x /\ k2 = k /\ op2 = op
  BY <1>2, <1>4 DEF TrEntry
<1>10. \A i \in DOMAIN K : i > 1 => i - 1 \in DOMAIN L /\
           \A y, k2, op2 : TrEntry(K, i, y, k2, op2) <=> TrEntry(L, i - 1, y, k2, op2)
  BY <1>6 DEF TrEntry
<1>11. \A i \in DOMAIN K : i = 1 \/ i > 1
  BY <1>6
<1>12. ASSUME NEW y, NEW k2, NEW op2
       PROVE  TrHas(K, y, k2, op2) <=> TrHas(L, y, k2, op2) \/ (y = x /\ k2 = k /\ op2 = op)
  <2>1. ASSUME TrHas(K, y, k2, op2)
        PROVE  TrHas(L, y, k2, op2) \/ (y = x /\ k2 = k /\ op2 = op)
    BY <1>9, <1>10, <1>11, <2>1 DEF TrHas
  <2>2. ASSUME TrHas(L, y, k2, op2)
        PROVE  TrHas(K, y, k2, op2)
    <3>1. PICK i \in DOMAIN L : TrEntry(L, i, y, k2, op2)
      BY <2>2 DEF TrHas
    <3>2. i + 1 \in DOMAIN K /\ TrEntry(K, i + 1, y, k2, op2)
      BY <1>7, <3>1 DEF TrEntry
    <3> QED BY <3>2 DEF TrHas
  <2>3. ASSUME y = x, k2 = k, op2 = op
        PROVE  TrHas(K, y, k2, op2)
    BY <1>8, <1>9, <2>3 DEF TrHas
  <2> QED BY <2>1, <2>2, <2>3
<1>13. ASSUME TrEntriesDiffer(L) PROVE TrEntriesDiffer(K)
  <2> SUFFICES ASSUME NEW i \in DOMAIN K, NEW j \in DOMAIN K, NEW y, NEW k2, NEW op2,
                      TrEntry(K, i, y, k2, op2), TrEntry(K, j, y, k2, op2)
               PROVE  i = j
    BY DEF TrEntriesDiffer
  <2>1. CASE i > 1 /\ j > 1
    <3>1. i - 1 = j - 1
      BY <1>10, <1>13, <2>1 DEF TrEntriesDiffer
    <3> QED BY <1>5, <3>1
  <2>2. CASE i = 1 /\ j > 1
    BY <1>9, <1>10, <2>2 DEF TrHas
  <2>3. CASE i > 1 /\ j = 1
    BY <1>9, <1>10, <2>3 DEF TrHas
  <2> QED BY <1>11, <2>1, <2>2, <2>3
<1>14. ASSUME TrOrdered(L), k = "weak" /\ op = "insert" => ~TrHas(L, x, "weak", "remove")
       PROVE  TrOrdered(K)
  <2> SUFFICES ASSUME NEW i \in DOMAIN K, NEW j \in DOMAIN K, NEW y,
                      TrEntry(K, i, y, "weak", "remove"), TrEntry(K, j, y, "weak", "insert")
               PROVE  i < j
    BY DEF TrOrdered
  <2>1. CASE i > 1 /\ j > 1
    <3>1. i - 1 < j - 1
      BY <1>10, <1>14, <2>1 DEF TrOrdered
    <3> QED BY <1>5, <3>1
  <2>2. CASE i = 1 /\ j > 1
    BY <2>2
  <2>3. CASE i > 1 /\ j = 1
    BY <1>9, <1>10, <1>14, <2>3 DEF TrHas
  <2>4. CASE i = 1 /\ j = 1
    BY <1>9, <2>4
  <2> QED BY <1>11, <2>1, <2>2, <2>3, <2>4
<1>15. ASSUME TrEntriesFit(L), x \notin trDead, k = "weak" \/ op = "insert"
       PROVE  TrEntriesFit(K)
  BY <1>2, <1>6, <1>15 DEF TrEntriesFit
<1> QED BY <1>4, <1>12, <1>13, <1>14, <1>15 DEF K

\* The log without its most recent entry.
LEMMA TrTail ==
    ASSUME NEW L \in Seq(TrLogEntries), L # <<>>, TrEntriesDiffer(L), TrOrdered(L), TrEntriesFit(L),
           NEW x, NEW k, NEW op, x = Head(L).str.obj, k = Head(L).kind, op = Head(L).op
    PROVE  /\ Tail(L) \in Seq(TrLogEntries)
           /\ \A y, k2, op2 : TrHas(L, y, k2, op2) <=>
                 TrHas(Tail(L), y, k2, op2) \/ (y = x /\ k2 = k /\ op2 = op)
           /\ ~TrHas(Tail(L), x, k, op)
           /\ k = "weak" /\ op = "insert" => ~TrHas(L, x, "weak", "remove")
           /\ TrEntriesDiffer(Tail(L)) /\ TrOrdered(Tail(L)) /\ TrEntriesFit(Tail(L))
           /\ x \in TrStrings /\ k \in TrKinds /\ op \in TrOps /\ (k = "weak" \/ op = "insert")
           /\ Head(L).str = TrAddress(x) /\ x \notin trDead
<1> DEFINE M == Tail(L)
<1>1. /\ M \in Seq(TrLogEntries) /\ Len(L) \in Nat /\ Len(L) > 0 /\ Len(M) = Len(L) - 1
      /\ \A i \in 1 .. (Len(L) - 1) : M[i] = L[i + 1]
      /\ Head(L) = L[1] /\ L[1] \in TrLogEntries
  <2>1. Len(L) \in Nat
    OBVIOUS
  <2>2. Len(L) > 0
    BY <2>1
  <2>3. M \in Seq(TrLogEntries) /\ Len(M) = Len(L) - 1
    BY <2>2
  <2>4. \A i \in 1 .. (Len(L) - 1) : M[i] = L[i + 1]
    BY <2>1, <2>2
  <2>5. Head(L) = L[1] /\ L[1] \in TrLogEntries
    BY <2>1, <2>2
  <2> QED BY <2>1, <2>2, <2>3, <2>4, <2>5
<1> HIDE DEF M
<1>2. DOMAIN L = 1 .. Len(L) /\ DOMAIN M = 1 .. (Len(L) - 1)
  BY <1>1
<1>3. 1 \in DOMAIN L /\ \A y, k2, op2 : TrEntry(L, 1, y, k2, op2) <=> y = x /\ k2 = k /\ op2 = op
  BY <1>1, <1>2 DEF TrEntry
<1>4. \A i \in DOMAIN M : /\ i + 1 \in DOMAIN L /\ i + 1 # 1 /\ i \in Int /\ M[i] = L[i + 1]
                          /\ \A y, k2, op2 : TrEntry(M, i, y, k2, op2) <=> TrEntry(L, i + 1, y, k2, op2)
  BY <1>1, <1>2 DEF TrEntry
<1>5. \A i \in DOMAIN L : i \in Int /\ i >= 1 /\ (i = 1 \/ (i - 1 \in DOMAIN M /\ (i - 1) + 1 = i))
  BY <1>1, <1>2
<1>6. ASSUME NEW y, NEW k2, NEW op2
      PROVE  TrHas(L, y, k2, op2) <=> TrHas(M, y, k2, op2) \/ (y = x /\ k2 = k /\ op2 = op)
  <2>1. ASSUME TrHas(L, y, k2, op2)
        PROVE  TrHas(M, y, k2, op2) \/ (y = x /\ k2 = k /\ op2 = op)
    <3>1. PICK i \in DOMAIN L : TrEntry(L, i, y, k2, op2)
      BY <2>1 DEF TrHas
    <3>2. CASE i = 1
      BY <1>3, <3>1, <3>2
    <3>3. CASE i # 1
      <4>1. i - 1 \in DOMAIN M /\ (i - 1) + 1 = i
        BY <1>5, <3>3
      <4>2. TrEntry(M, i - 1, y, k2, op2)
        BY <1>4, <3>1, <4>1
      <4> QED BY <4>1, <4>2 DEF TrHas
    <3> QED BY <3>2, <3>3
  <2>2. ASSUME TrHas(M, y, k2, op2)
        PROVE  TrHas(L, y, k2, op2)
    BY <1>4, <2>2 DEF TrHas
  <2>3. ASSUME y = x, k2 = k, op2 = op
        PROVE  TrHas(L, y, k2, op2)
    BY <1>3, <2>3 DEF TrHas
  <2> QED BY <2>1, <2>2, <2>3
<1>7. ~TrHas(M, x, k, op)
  <2> SUFFICES ASSUME NEW i \in DOMAIN M, TrEntry(M, i, x, k, op)
               PROVE  FALSE
    BY DEF TrHas
  <2>1. TrEntry(L, i + 1, x, k, op) /\ TrEntry(L, 1, x, k, op) /\ i + 1 \in DOMAIN L
    BY <1>3, <1>4
  <2>2. i + 1 = 1
    BY <1>3, <2>1 DEF TrEntriesDiffer
  <2> QED BY <1>4, <2>2
<1>8. ASSUME k = "weak", op = "insert"
      PROVE  ~TrHas(L, x, "weak", "remove")
  <2> SUFFICES ASSUME NEW i \in DOMAIN L, TrEntry(L, i, x, "weak", "remove")
               PROVE  FALSE
    BY DEF TrHas
  <2>1. i < 1
    BY <1>3, <1>8 DEF TrOrdered
  <2> QED BY <1>5, <2>1
<1>9. TrEntriesDiffer(M)
  <2> SUFFICES ASSUME NEW i \in DOMAIN M, NEW j \in DOMAIN M, NEW y, NEW k2, NEW op2,
                      TrEntry(M, i, y, k2, op2), TrEntry(M, j, y, k2, op2)
               PROVE  i = j
    BY DEF TrEntriesDiffer
  <2>1. i + 1 = j + 1
    BY <1>4 DEF TrEntriesDiffer
  <2> QED BY <1>4, <2>1
<1>10. TrOrdered(M)
  <2> SUFFICES ASSUME NEW i \in DOMAIN M, NEW j \in DOMAIN M, NEW y,
                      TrEntry(M, i, y, "weak", "remove"), TrEntry(M, j, y, "weak", "insert")
               PROVE  i < j
    BY DEF TrOrdered
  <2>1. i + 1 < j + 1
    BY <1>4 DEF TrOrdered
  <2> QED BY <1>4, <2>1
<1>11. TrEntriesFit(M)
  BY <1>4 DEF TrEntriesFit
<1>12. /\ x \in TrStrings /\ k \in TrKinds /\ op \in TrOps /\ (k = "weak" \/ op = "insert")
       /\ Head(L).str = TrAddress(x) /\ x \notin trDead
  BY <1>1, <1>3 DEF TrEntriesFit, TrLogEntries
<1> QED BY <1>1, <1>6, <1>7, <1>8, <1>9, <1>10, <1>11, <1>12 DEF M

\* The strings of a step that touches neither the tables nor their log.
LEMMA TrStringsStay ==
    ASSUME TrStringsInv, trStrong' = trStrong, trWeak' = trWeak, trStringLog' = trStringLog,
           trMoves' = trMoves, trDead' = trDead, trBefore' = trBefore,
           \/ trMode' = trMode
           \/ trMode = "active" /\ trMode' \in {"rollback", "committed"}
           \/ trMode = "rollback" /\ trMode' = "undo"
           \/ trMode = "undo" /\ trMode' = "undone" /\ trStringLog = <<>>
    PROVE  TrStringsInv'
<1>2. \A x : /\ TrMadeStrong(x)' <=> TrMadeStrong(x)
             /\ TrMadeWeak(x)' <=> TrMadeWeak(x)
             /\ TrUnweakened(x)' <=> TrUnweakened(x)
             /\ TrKnown(x)' <=> TrKnown(x)
  BY DEF TrMadeStrong, TrMadeWeak, TrUnweakened, TrKnown
<1>3. TrTextsDiffer => TrTextsDiffer'
  BY <1>2 DEF TrTextsDiffer
<1>4. TrTables => TrTables'
  BY <1>2 DEF TrTables
<1>5. TrEntriesFit(trStringLog) => TrEntriesFit(trStringLog)'
  <2>1. \A o : TrAddress(o)' = TrAddress(o)
    BY TrAddressStays
  <2> QED BY <2>1 DEF TrEntriesFit
<1>6. TrLogInv => TrLogInv'
  BY <1>3, <1>4, <1>5 DEF TrLogInv
<1> QED BY <1>2, <1>6 DEF TrStringsInv, TrUndoing

\* EnterTransactionMode: nothing is logged yet, and the tables are those of before.
LEMMA TrEnterStrings ==
    ASSUME TrTypeInv, TrFieldsInv, TrStringsInv, TrEnter
    PROVE  TrStringsInv'
<1>1. /\ trMode = "out" /\ trMode' = "active" /\ trBefore' = TrSnapshot /\ trMoves' = trMoves
      /\ trDead' = trDead /\ trStrong' = trStrong /\ trWeak' = trWeak /\ trStringLog' = trStringLog
  BY DEF TrEnter, trHeap
<1>2. /\ trStringLog' = <<>> /\ trDead' = {}
      /\ \A x, y \in trStrong \union trWeak : TrText[x] = TrText[y] => x = y
  BY <1>1 DEF TrStringsInv, TrFieldsInv
<1>3. trBefore'.strong = trStrong' /\ trBefore'.weak = trWeak'
  BY <1>1 DEF TrSnapshot
<1>4. \A x, k, op : ~TrHas(trStringLog', x, k, op)
  BY <1>2 DEF TrHas
<1>5. \A x : ~TrMadeStrong(x)' /\ ~TrMadeWeak(x)' /\ ~TrUnweakened(x)'
  BY <1>4 DEF TrMadeStrong, TrMadeWeak, TrUnweakened
<1>6. \A x : TrKnown(x)' => x \in trStrong \union trWeak
  BY <1>1, <1>3, <1>5 DEF TrKnown
<1>7. TrTextsDiffer'
  BY <1>2, <1>6 DEF TrTextsDiffer
<1>8. TrTables'
  BY <1>2, <1>3, <1>5 DEF TrTables
<1>9. TrEntriesFit(trStringLog)' /\ TrEntriesDiffer(trStringLog)' /\ TrOrdered(trStringLog)'
  BY <1>2 DEF TrEntriesFit, TrEntriesDiffer, TrOrdered
<1>10. TrLogInv'
  BY <1>7, <1>8, <1>9 DEF TrLogInv
<1> QED BY <1>1, <1>5, <1>10 DEF TrStringsInv

\* VisitStringLogs: the entries follow the strings, which stay alive.
LEMMA TrCollectStrings ==
    ASSUME TransactionAssumption, TrTypeInv, TrStringsInv, NEW moved \in SUBSET TrMovable,
           NEW dead \in SUBSET TrStrings, TrCollect(moved, dead)
    PROVE  TrStringsInv' /\ trStringLog' \in Seq(TrLogEntries)
<1>1. /\ trMode = "active" /\ trMode' = "active" /\ trBefore' = trBefore
      /\ trDead' = trDead \union dead /\ trWeak' = trWeak \ dead /\ trStrong' = trStrong
      /\ trMoves' = [o \in TrMovable |-> trMoves[o] + IF o \in moved THEN 1 ELSE 0]
      /\ TrVisitStringLogs(moved)
      /\ dead \intersect (TrLogRoots \union trStrong \union {trField["ref"]} \union trDead) = {}
  BY DEF TrCollect, trControl
<1>2. TrLogInv /\ \A x \in TrStrings : TrUnweakened(x) => TrMadeStrong(x)
  BY <1>1 DEF TrStringsInv, TrUndoing
<1> DEFINE L == trStringLog
           K == trStringLog'
<1>3. L \in Seq(TrLogEntries) /\ K = [i \in DOMAIN L |-> [L[i] EXCEPT !.str = TrMoved(@, moved)]]
  BY <1>1 DEF TrTypeInv, TrVisitStringLogs
<1>4. TrEntriesFit(L) /\ TrEntriesDiffer(L) /\ TrOrdered(L) /\ TrTextsDiffer /\ TrTables
  BY <1>2 DEF TrLogInv
<1> DEFINE A(o) == [obj |-> o, moves |-> IF o \in TrMovable THEN trMoves'[o] ELSE 0]
<1>0. \A o : TrMoved(TrAddress(o), moved) = A(o)
  <2> TAKE o
  <2>1. TrMoved(TrAddress(o), moved) = TrAddress(o)'
    BY <1>1, TrMovedIs
  <2> QED BY <2>1 DEF TrAddress
<1> HIDE DEF K
<1>5. ASSUME NEW i \in DOMAIN L
      PROVE  /\ K[i].str = A(L[i].str.obj) /\ K[i].str.obj = L[i].str.obj
             /\ K[i].kind = L[i].kind /\ K[i].op = L[i].op /\ K[i] \in TrLogEntries
             /\ L[i].str.obj \notin dead
  <2>1. L[i] \in TrLogEntries
    BY <1>3
  <2>2. L[i].str = TrAddress(L[i].str.obj)
    BY <1>4 DEF TrEntriesFit
  <2>3. TrMoved(L[i].str, moved) = A(L[i].str.obj)
    BY <1>0, <2>2
  <2>4. K[i] = [L[i] EXCEPT !.str = TrMoved(L[i].str, moved)]
    BY <1>3
  <2>5. TrMoved(L[i].str, moved) \in [obj : TrStrings, moves : Nat] /\ TrMoved(L[i].str, moved).obj = L[i].str.obj
    BY <2>1 DEF TrMoved, TrLogEntries
  <2>6. /\ K[i].str = TrMoved(L[i].str, moved)
        /\ K[i].kind = L[i].kind /\ K[i].op = L[i].op /\ K[i] \in TrLogEntries
    BY <2>1, <2>4, <2>5 DEF TrLogEntries
  <2>7. L[i].str.obj \in TrLogRoots
    BY DEF TrLogRoots
  <2> QED BY <1>1, <2>3, <2>5, <2>6, <2>7
<1>6. DOMAIN K = DOMAIN L /\ K \in Seq(TrLogEntries)
  <2>1. L \in [1 .. Len(L) -> TrLogEntries] /\ Len(L) \in Nat
    BY <1>3
  <2>2. K \in [1 .. Len(L) -> TrLogEntries]
    BY <1>3, <1>5, <2>1
  <2> QED BY <2>1, <2>2
<1>7. \A i \in DOMAIN L : \A x, k, op : TrEntry(K, i, x, k, op) <=> TrEntry(L, i, x, k, op)
  BY <1>5 DEF TrEntry
<1>8. \A x, k, op : TrHas(K, x, k, op) <=> TrHas(L, x, k, op)
  BY <1>6, <1>7 DEF TrHas
<1>9. \A x : /\ TrMadeStrong(x)' <=> TrMadeStrong(x)
             /\ TrMadeWeak(x)' <=> TrMadeWeak(x)
             /\ TrUnweakened(x)' <=> TrUnweakened(x)
  BY <1>8 DEF TrMadeStrong, TrMadeWeak, TrUnweakened, K
<1>10. \A x, k, op : TrHas(L, x, k, op) => x \notin dead
  BY <1>5 DEF TrHas, TrEntry
<1>11. TrEntriesDiffer(K) /\ TrOrdered(K)
  BY <1>4, <1>6, <1>7 DEF TrEntriesDiffer, TrOrdered
<1>12. TrEntriesFit(trStringLog)'
  <2>1. ASSUME NEW i \in DOMAIN K
        PROVE  /\ K[i].str = A(L[i].str.obj) /\ K[i].str.obj = L[i].str.obj
               /\ K[i].str.obj \notin trDead'
               /\ K[i].kind = "weak" \/ K[i].op = "insert"
    BY <1>1, <1>4, <1>5, <1>6 DEF TrEntriesFit
  <2> QED BY <2>1 DEF TrEntriesFit, K, TrAddress
<1>13. \A x : TrKnown(x)' => TrKnown(x)
  BY <1>1, <1>9 DEF TrKnown
<1>14. TrTextsDiffer'
  BY <1>4, <1>13 DEF TrTextsDiffer
<1>15. TrTables'
  <2>1. \A x : TrMadeWeak(x) => x \notin dead
    BY <1>10 DEF TrMadeWeak
  <2> QED BY <1>1, <1>4, <1>9, <2>1 DEF TrTables
<1>16. TrLogInv'
  BY <1>11, <1>12, <1>14, <1>15 DEF TrLogInv, K
<1> QED BY <1>1, <1>2, <1>6, <1>9, <1>16 DEF TrStringsInv, K

\* A string's address.
LEMMA TrStringAddress ==
    ASSUME TrTypeInv, NEW x \in TrStrings
    PROVE  TrAddress(x) \in [obj : TrStrings, moves : Nat]
BY DEF TrAddress, TrTypeInv, TrMovable

\* While the <clinit> runs, the strings known are those in the tables.
LEMMA TrKnownIsInterned ==
    ASSUME TrTables, \A x \in TrStrings : TrUnweakened(x) => TrMadeStrong(x), NEW x \in TrStrings
    PROVE  TrKnown(x) <=> x \in trStrong \/ x \in trWeak
BY DEF TrTables, TrKnown

\* InternTable::Insert outside of a transaction keeps one string per text.
LEMMA TrInternOutside ==
    ASSUME TrTypeInv, TrStringsInv, trMode = "out", NEW s \in TrStrings, NEW strong \in BOOLEAN, TrIntern(s, strong)
    PROVE  TrStringsInv' /\ trStringLog' = trStringLog /\ trStrong' \in SUBSET TrStrings /\ trWeak' \in SUBSET TrStrings
<1>1. /\ trStringLog = <<>> /\ trMode' = trMode
      /\ \A x, y \in trStrong \union trWeak : TrText[x] = TrText[y] => x = y
  BY DEF TrStringsInv, TrIntern, trControl
<1>2. trStringLog' = trStringLog
  BY DEF TrIntern
<1>3. \/ trStrong' = trStrong /\ trWeak' = trWeak
      \/ \E w \in trWeak : trWeak' = trWeak \ {w} /\ trStrong' = trStrong \union {w}
      \/ /\ TrFind(trStrong, s) = {} /\ TrFind(trWeak, s) = {}
         /\ trStrong' = IF strong THEN trStrong \union {s} ELSE trStrong
         /\ trWeak' = IF strong THEN trWeak ELSE trWeak \union {s}
  BY DEF TrIntern, TrFind
<1>4. \A x, y \in trStrong' \union trWeak' : TrText[x] = TrText[y] => x = y
  <2>1. CASE trStrong' \union trWeak' = trStrong \union trWeak
    BY <1>1, <2>1
  <2>2. CASE /\ TrFind(trStrong, s) = {} /\ TrFind(trWeak, s) = {}
             /\ trStrong' \union trWeak' = (trStrong \union trWeak) \union {s}
    <3>1. \A x \in trStrong \union trWeak : TrText[x] # TrText[s]
      BY <2>2 DEF TrFind
    <3> QED BY <1>1, <2>2, <3>1
  <2>3. \/ trStrong' \union trWeak' = trStrong \union trWeak
        \/ /\ TrFind(trStrong, s) = {} /\ TrFind(trWeak, s) = {}
           /\ trStrong' \union trWeak' = (trStrong \union trWeak) \union {s}
    BY <1>3
  <2> QED BY <2>1, <2>2, <2>3
<1>5. trStrong' \in SUBSET TrStrings /\ trWeak' \in SUBSET TrStrings
  BY <1>3 DEF TrTypeInv
<1> QED BY <1>1, <1>2, <1>4, <1>5 DEF TrStringsInv, TrUndoing

\* InternTable::Insert in a transaction logs what it does to the tables.
LEMMA TrInternInside ==
    ASSUME TransactionAssumption, TrTypeInv, TrStringsInv, trMode = "active", NEW s \in TrStrings,
           NEW strong \in BOOLEAN, TrIntern(s, strong)
    PROVE  /\ TrStringsInv' /\ trStringLog' \in Seq(TrLogEntries)
           /\ trStrong' \in SUBSET TrStrings /\ trWeak' \in SUBSET TrStrings
<1>1. /\ trMode' = "active" /\ trBefore' = trBefore /\ trMoves' = trMoves /\ trDead' = trDead /\ s \notin trDead
      /\ trStringLog \in Seq(TrLogEntries) /\ trStrong \in SUBSET TrStrings /\ trWeak \in SUBSET TrStrings
  BY DEF TrIntern, trControl, TrTypeInv
<1>2. TrLogInv /\ \A x \in TrStrings : TrUnweakened(x) => TrMadeStrong(x)
  BY DEF TrStringsInv, TrUndoing
<1> DEFINE L == trStringLog
<1>3. TrEntriesFit(L) /\ TrEntriesDiffer(L) /\ TrOrdered(L) /\ TrTextsDiffer /\ TrTables
  BY <1>2 DEF TrLogInv
<1>4. \A x \in TrStrings : TrKnown(x) <=> x \in trStrong \/ x \in trWeak
  BY <1>2, <1>3, TrKnownIsInterned
<1>5. \A x \in TrStrings : TrAddress(x) \in [obj : TrStrings, moves : Nat]
  BY TrStringAddress
<1>6. \A x : /\ TrMadeStrong(x) <=> TrHas(L, x, "strong", "insert")
             /\ TrMadeWeak(x) <=> TrHas(L, x, "weak", "insert")
             /\ TrUnweakened(x) <=> TrHas(L, x, "weak", "remove")
             /\ TrMadeStrong(x)' <=> TrHas(trStringLog', x, "strong", "insert")
             /\ TrMadeWeak(x)' <=> TrHas(trStringLog', x, "weak", "insert")
             /\ TrUnweakened(x)' <=> TrHas(trStringLog', x, "weak", "remove")
  BY DEF TrMadeStrong, TrMadeWeak, TrUnweakened
<1>7. ASSUME TrEntriesFit(trStringLog)'
                 \/ \E K : K = trStringLog' /\ TrEntriesFit(K)
      PROVE  TrEntriesFit(trStringLog)'
  <2>1. \A o : TrAddress(o)' = TrAddress(o)
    BY <1>1, TrAddressStays
  <2> QED BY <1>1, <1>7, <2>1 DEF TrEntriesFit, TrAddress
<1>8. CASE trStrong' = trStrong /\ trWeak' = trWeak /\ trStringLog' = trStringLog
  BY <1>1, <1>8, TrStringsStay
<1>9. CASE /\ TrFind(trStrong, s) = {} /\ TrFind(trWeak, s) = {}
           /\ trStrong' = IF strong THEN trStrong \union {s} ELSE trStrong
           /\ trWeak' = IF strong THEN trWeak ELSE trWeak \union {s}
           /\ trStringLog' = TrLogString(s, IF strong THEN "strong" ELSE "weak", "insert") \o L
  <2> DEFINE k == IF strong THEN "strong" ELSE "weak"
             K == trStringLog'
  <2>1. \A x \in trStrong \union trWeak : TrText[x] # TrText[s]
    BY <1>9 DEF TrFind
  <2>2. ~TrKnown(s) /\ s \notin trStrong /\ s \notin trWeak
    BY <1>4, <2>1
  <2>3. ~TrMadeStrong(s) /\ ~TrMadeWeak(s) /\ ~TrUnweakened(s) /\ s \notin trBefore.strong /\ s \notin trBefore.weak
    BY <1>1, <1>2, <2>2 DEF TrKnown
  <2>4. k \in TrKinds /\ "insert" \in TrOps /\ ~TrHas(L, s, k, "insert")
    BY <1>6, <2>3 DEF TrKinds, TrOps
  <2>5. K = TrLogString(s, k, "insert") \o L
    BY <1>9
  <2> HIDE DEF K, k
  <2>6. /\ K \in Seq(TrLogEntries)
        /\ \A y, k2, op2 : TrHas(K, y, k2, op2) <=>
                 TrHas(L, y, k2, op2) \/ (y = s /\ k2 = k /\ op2 = "insert")
        /\ TrEntriesDiffer(K)
        /\ ~TrHas(L, s, "weak", "remove") => TrOrdered(K)
        /\ TrEntriesFit(K)
    <3>1. L \in Seq(TrLogEntries) /\ TrAddress(s) \in [obj : TrStrings, moves : Nat]
      BY <1>1, <1>5
    <3> HIDE DEF L
    <3> QED BY <1>1, <1>3, <2>4, <2>5, <3>1, TrPrepend
  <2>7. \A x : /\ TrMadeStrong(x)' <=> TrMadeStrong(x) \/ (x = s /\ strong)
               /\ TrMadeWeak(x)' <=> TrMadeWeak(x) \/ (x = s /\ ~strong)
               /\ TrUnweakened(x)' <=> TrUnweakened(x)
    BY <1>6, <2>6 DEF K, k
  <2>8. TrTables'
    BY <1>1, <1>3, <1>9, <2>3, <2>7 DEF TrTables
  <2>9. \A x \in TrStrings : TrKnown(x)' => TrKnown(x) \/ x = s
    BY <1>1, <2>7 DEF TrKnown
  <2>10. TrTextsDiffer'
    <3> SUFFICES ASSUME NEW x \in TrStrings, NEW y \in TrStrings, TrKnown(x)', TrKnown(y)', TrText[x] = TrText[y]
                 PROVE  x = y
      BY DEF TrTextsDiffer
    <3>1. TrKnown(x) \/ x = s
      BY <2>9
    <3>2. TrKnown(y) \/ y = s
      BY <2>9
    <3>3. \A z \in TrStrings : TrKnown(z) => TrText[z] # TrText[s]
      BY <1>4, <2>1
    <3> QED BY <1>3, <3>1, <3>2, <3>3 DEF TrTextsDiffer
  <2>11. TrEntriesFit(trStringLog)' /\ TrEntriesDiffer(trStringLog)' /\ TrOrdered(trStringLog)'
    BY <1>6, <1>7, <2>3, <2>6 DEF K
  <2>12. TrLogInv'
    BY <2>8, <2>10, <2>11 DEF TrLogInv
  <2>13. trStrong' \in SUBSET TrStrings /\ trWeak' \in SUBSET TrStrings
    BY <1>1, <1>9
  <2> QED BY <1>1, <1>2, <2>6, <2>7, <2>12, <2>13 DEF TrStringsInv, K
<1>10. ASSUME TrFind(trStrong, s) = {}, NEW w \in TrFind(trWeak, s),
              trWeak' = trWeak \ {w}, trStrong' = trStrong \union {w},
              trStringLog' = (TrLogString(w, "strong", "insert") \o TrLogString(w, "weak", "remove")) \o L
       PROVE  /\ TrStringsInv' /\ trStringLog' \in Seq(TrLogEntries)
              /\ trStrong' \in SUBSET TrStrings /\ trWeak' \in SUBSET TrStrings
  <2> DEFINE M == TrLogString(w, "weak", "remove") \o L
             K == trStringLog'
  <2>1. w \in trWeak /\ w \in TrStrings /\ w \notin trStrong
    BY <1>1, <1>10 DEF TrFind
  <2>2. /\ ~TrUnweakened(w) /\ ~TrMadeStrong(w) /\ w \notin trBefore.strong
        /\ TrMadeWeak(w) \/ (w \in trBefore.weak /\ w \notin trDead)
        /\ TrKnown(w)
    BY <1>3, <1>4, <2>1 DEF TrTables
  <2>3. w \notin trDead
    <3>1. TrMadeWeak(w) => w \notin trDead
      BY <1>3, <1>6 DEF TrHas, TrEntry, TrEntriesFit
    <3> QED BY <2>2, <3>1
  <2>4. L \in Seq(TrLogEntries) /\ TrAddress(w) \in [obj : TrStrings, moves : Nat]
    BY <1>1, <1>5, <2>1
  <2>5. "strong" \in TrKinds /\ "weak" \in TrKinds /\ "insert" \in TrOps /\ "remove" \in TrOps
    BY DEF TrKinds, TrOps
  <2>6. ~TrHas(L, w, "weak", "remove") /\ ~TrHas(L, w, "strong", "insert")
    BY <1>6, <2>2
  <2>7. K = TrLogString(w, "strong", "insert") \o M
    <3> DEFINE e1 == [str |-> TrAddress(w), kind |-> "strong", op |-> "insert"]
               e2 == [str |-> TrAddress(w), kind |-> "weak", op |-> "remove"]
    <3>1. e1 \in TrLogEntries /\ e2 \in TrLogEntries
      BY <2>4, <2>5 DEF TrLogEntries
    <3>2. K = (<<e1>> \o <<e2>>) \o L /\ M = <<e2>> \o L /\ TrLogString(w, "strong", "insert") = <<e1>>
      BY <1>10 DEF TrLogString
    <3> HIDE DEF e1, e2, L, K, M
    <3>3. (<<e1>> \o <<e2>>) \o L = <<e1>> \o (<<e2>> \o L)
      BY <2>4, <3>1
    <3> QED BY <3>2, <3>3
  <2> HIDE DEF L, M, K
  <2>8. /\ M \in Seq(TrLogEntries)
        /\ \A y, k2, op2 : TrHas(M, y, k2, op2) <=>
                 TrHas(L, y, k2, op2) \/ (y = w /\ k2 = "weak" /\ op2 = "remove")
        /\ TrEntriesDiffer(M) /\ TrOrdered(M) /\ TrEntriesFit(M)
    <3>1. M = TrLogString(w, "weak", "remove") \o L
      BY DEF M
    <3> QED BY <1>3, <2>1, <2>3, <2>4, <2>5, <2>6, <3>1, TrPrepend
  <2>9. ~TrHas(M, w, "strong", "insert")
    BY <2>6, <2>8
  <2>10. /\ K \in Seq(TrLogEntries)
         /\ \A y, k2, op2 : TrHas(K, y, k2, op2) <=>
                 TrHas(M, y, k2, op2) \/ (y = w /\ k2 = "strong" /\ op2 = "insert")
         /\ TrEntriesDiffer(K) /\ TrOrdered(K) /\ TrEntriesFit(K)
    BY <2>1, <2>3, <2>4, <2>5, <2>7, <2>8, <2>9, TrPrepend
  <2>11. \A x : /\ TrMadeStrong(x)' <=> TrMadeStrong(x) \/ x = w
                /\ TrMadeWeak(x)' <=> TrMadeWeak(x)
                /\ TrUnweakened(x)' <=> TrUnweakened(x) \/ x = w
    BY <1>6, <2>8, <2>10 DEF K
  <2>12. TrTables'
    BY <1>1, <1>3, <1>10, <2>1, <2>2, <2>11 DEF TrTables
  <2>13. \A x \in TrStrings : TrKnown(x)' => TrKnown(x)
    BY <1>1, <2>2, <2>11 DEF TrKnown
  <2>14. TrTextsDiffer'
    BY <1>3, <2>13 DEF TrTextsDiffer
  <2>15. TrEntriesFit(trStringLog)' /\ TrEntriesDiffer(trStringLog)' /\ TrOrdered(trStringLog)'
    BY <1>7, <2>10 DEF K
  <2>16. TrLogInv'
    BY <2>12, <2>14, <2>15 DEF TrLogInv
  <2>17. trStrong' \in SUBSET TrStrings /\ trWeak' \in SUBSET TrStrings
    BY <1>1, <1>10, <2>1
  <2>18. \A x \in TrStrings : TrUnweakened(x)' => TrMadeStrong(x)'
    BY <1>2, <2>11
  <2> QED BY <1>1, <2>10, <2>16, <2>17, <2>18 DEF TrStringsInv, K
<1> QED BY <1>1, <1>8, <1>9, <1>10 DEF TrIntern

\* InternStringLog::Undo: the string is found where the log says, and the tables are again what
\* they were before the entry.
LEMMA TrUndoStrings ==
    ASSUME TrTypeInv, TrStringsInv, TrUndoString, ~trFatal
    PROVE  /\ TrStringsInv' /\ ~trFatal' /\ trStringLog' \in Seq(TrLogEntries)
           /\ trStrong' \in SUBSET TrStrings /\ trWeak' \in SUBSET TrStrings
<1> DEFINE L == trStringLog
           M == Tail(L)
<1>0. PICK x, k, op : x = Head(L).str.obj /\ k = Head(L).kind /\ op = Head(L).op
  OBVIOUS
<1> DEFINE undone(table) == IF op = "insert" THEN table \ TrFind(table, x) ELSE table \union {x}
<1>1. /\ trMode = "undo" /\ L # <<>> /\ trMode' = "undo" /\ trStringLog' = M
      /\ trFatal' = \/ trFatal \/ ~(Head(L).str = TrAddress(x) /\ x \notin trDead)
                    \/ /\ op = "insert"
                       /\ TrFind(IF k = "strong" THEN trStrong ELSE trWeak, x) = {}
      /\ trStrong' = IF k = "strong" THEN undone(trStrong) ELSE trStrong
      /\ trWeak' = IF k = "weak" THEN undone(trWeak) ELSE trWeak
      /\ trMoves' = trMoves /\ trDead' = trDead /\ trBefore' = trBefore
  BY <1>0 DEF TrUndoString
<1>2. /\ TrEntriesFit(L) /\ TrEntriesDiffer(L) /\ TrOrdered(L) /\ TrTextsDiffer /\ TrTables
      /\ L \in Seq(TrLogEntries) /\ trStrong \in SUBSET TrStrings /\ trWeak \in SUBSET TrStrings
  BY <1>1 DEF TrStringsInv, TrUndoing, TrLogInv, TrTypeInv
<1>3. /\ M \in Seq(TrLogEntries)
      /\ \A y, k2, op2 : TrHas(L, y, k2, op2) <=>
            TrHas(M, y, k2, op2) \/ (y = x /\ k2 = k /\ op2 = op)
      /\ ~TrHas(M, x, k, op)
      /\ k = "weak" /\ op = "insert" => ~TrHas(L, x, "weak", "remove")
      /\ TrEntriesDiffer(M) /\ TrOrdered(M) /\ TrEntriesFit(M)
      /\ x \in TrStrings /\ k \in TrKinds /\ op \in TrOps /\ (k = "weak" \/ op = "insert")
      /\ Head(L).str = TrAddress(x) /\ x \notin trDead
  <2> HIDE DEF L
  <2> QED BY <1>0, <1>1, <1>2, TrTail
<1>4. \A y : /\ TrMadeStrong(y) <=> TrHas(L, y, "strong", "insert")
             /\ TrMadeWeak(y) <=> TrHas(L, y, "weak", "insert")
             /\ TrUnweakened(y) <=> TrHas(L, y, "weak", "remove")
             /\ TrMadeStrong(y)' <=> TrHas(M, y, "strong", "insert")
             /\ TrMadeWeak(y)' <=> TrHas(M, y, "weak", "insert")
             /\ TrUnweakened(y)' <=> TrHas(M, y, "weak", "remove")
  BY <1>1 DEF TrMadeStrong, TrMadeWeak, TrUnweakened
<1> HIDE DEF L, M, undone
<1>5. \A y : y \in trStrong \/ y \in trWeak => y \in TrStrings /\ TrKnown(y)
  BY <1>2 DEF TrTables, TrKnown
<1>6. \/ k = "strong" /\ op = "insert"
      \/ k = "weak" /\ op = "insert"
      \/ k = "weak" /\ op = "remove"
  BY <1>3 DEF TrKinds, TrOps
<1>7. \A y : TrKnown(y)' => TrKnown(y)
  BY <1>1, <1>3, <1>4 DEF TrKnown
<1>8. TrTextsDiffer'
  BY <1>2, <1>7 DEF TrTextsDiffer
<1>9. TrEntriesFit(trStringLog)' /\ TrEntriesDiffer(trStringLog)' /\ TrOrdered(trStringLog)'
  <2>1. TrEntriesFit(trStringLog)'
    BY <1>1, <1>3 DEF TrEntriesFit, TrAddress
  <2> QED BY <1>1, <1>3, <2>1
<1>10. TrTables' /\ ~trFatal' /\ trStrong' \in SUBSET TrStrings /\ trWeak' \in SUBSET TrStrings
  <2>1. CASE k = "strong" /\ op = "insert"
    <3>1. \A y : /\ TrMadeStrong(y) <=> TrMadeStrong(y)' \/ y = x
                 /\ TrMadeWeak(y)' <=> TrMadeWeak(y)
                 /\ TrUnweakened(y)' <=> TrUnweakened(y)
      BY <1>3, <1>4, <2>1
    <3>2. ~TrMadeStrong(x)'
      BY <1>3, <1>4, <2>1
    <3>3. x \in trStrong /\ x \notin trBefore.strong
      BY <1>2, <1>3, <3>1 DEF TrTables
    <3>4. TrFind(trStrong, x) = {x}
      BY <1>2, <1>3, <1>5, <3>3 DEF TrFind, TrTextsDiffer
    <3>5. trStrong' = trStrong \ {x} /\ trWeak' = trWeak
      BY <1>1, <2>1, <3>4 DEF undone
    <3>6. ~trFatal'
      BY <1>1, <1>3, <2>1, <3>4
    <3>7. TrTables'
      BY <1>1, <1>2, <3>1, <3>2, <3>3, <3>5 DEF TrTables
    <3> QED BY <1>2, <3>5, <3>6, <3>7
  <2>2. CASE k = "weak" /\ op = "insert"
    <3>1. \A y : /\ TrMadeStrong(y)' <=> TrMadeStrong(y)
                 /\ TrMadeWeak(y) <=> TrMadeWeak(y)' \/ y = x
                 /\ TrUnweakened(y)' <=> TrUnweakened(y)
      BY <1>3, <1>4, <2>2
    <3>2. ~TrMadeWeak(x)' /\ ~TrUnweakened(x)
      BY <1>3, <1>4, <2>2
    <3>3. x \in trWeak /\ x \notin trBefore.strong /\ x \notin trBefore.weak
      BY <1>2, <1>3, <3>1, <3>2 DEF TrTables
    <3>4. TrFind(trWeak, x) = {x}
      BY <1>2, <1>3, <1>5, <3>3 DEF TrFind, TrTextsDiffer
    <3>5. trStrong' = trStrong /\ trWeak' = trWeak \ {x}
      BY <1>1, <2>2, <3>4 DEF undone
    <3>6. ~trFatal'
      BY <1>1, <1>3, <2>2, <3>4
    <3>7. TrTables'
      BY <1>1, <1>2, <3>1, <3>2, <3>3, <3>5 DEF TrTables
    <3> QED BY <1>2, <3>5, <3>6, <3>7
  <2>3. CASE k = "weak" /\ op = "remove"
    <3>1. \A y : /\ TrMadeStrong(y)' <=> TrMadeStrong(y)
                 /\ TrMadeWeak(y)' <=> TrMadeWeak(y)
                 /\ TrUnweakened(y) <=> TrUnweakened(y)' \/ y = x
      BY <1>3, <1>4, <2>3
    <3>2. ~TrUnweakened(x)'
      BY <1>3, <1>4, <2>3
    <3>3. TrMadeWeak(x) \/ x \in trBefore.weak
      BY <1>2, <1>3, <3>1 DEF TrTables
    <3>4. trStrong' = trStrong /\ trWeak' = trWeak \union {x}
      BY <1>1, <2>3 DEF undone
    <3>5. ~trFatal'
      BY <1>1, <1>3, <2>3
    <3>6. TrTables'
      BY <1>1, <1>2, <1>3, <3>1, <3>2, <3>3, <3>4 DEF TrTables
    <3> QED BY <1>2, <1>3, <3>4, <3>5, <3>6
  <2> QED BY <1>6, <2>1, <2>2, <2>3
<1>11. TrLogInv'
  BY <1>8, <1>9, <1>10 DEF TrLogInv
<1> QED BY <1>1, <1>3, <1>10, <1>11 DEF TrStringsInv

\* The bounds that are left.
LEMMA TrCallType ==
    ASSUME TrTypeInv, TrCall
    PROVE  trLeft' \in [calls : Nat, collections : Nat]
BY DEF TrTypeInv, TrCall

\* A write of a value of the field's type.
LEMMA TrSetType ==
    ASSUME TrTypeInv, NEW f \in DOMAIN TrHolder, NEW v, TrSet(f, v),
           f = "status" => v \in {"initializing", "initialized", "error"}, f = "value" => v \in 0 .. 1,
           f = "ref" => v \in TrStrings \union {TrNull}, f = "float" => v \in 1 .. 2
    PROVE  trField' \in TrFieldTypes
<1>1. f \in {"status", "value", "ref", "float"}
  BY TrHolders
<1>2. trField' = [trField EXCEPT ![f] = v] /\ trField \in TrFieldTypes
  BY DEF TrSet, TrTypeInv
<1> QED BY <1>1, <1>2 DEF TrFieldTypes

\* Every step keeps the invariant.
LEMMA TrStepKeeps ==
    ASSUME TransactionAssumption, TrInv, TrNext
    PROVE  TrInv'
<1>0. ~trFatal /\ TrTypeInv /\ TrFieldsInv /\ TrStringsInv
  BY DEF TrInv
<1>1. CASE TrEnter
  <2>1. TrFieldsInv' /\ TrStringsInv'
    BY <1>0, <1>1, TrEnterFields, TrEnterStrings
  <2>2. trField' \in TrFieldTypes
    <3>1. TrSet("status", "initializing") /\ "status" \in DOMAIN TrHolder
      BY <1>1, TrHolders DEF TrEnter
    <3> QED BY <1>0, <3>1, TrSetType
  <2>3. trBefore' \in [field : TrBeforeFields, strong : SUBSET TrStrings, weak : SUBSET TrStrings,
                       moves : [TrMovable -> Nat]]
    BY <1>0, <1>1 DEF TrEnter, TrSnapshot, TrTypeInv, TrFieldsInv
  <2>4. TrTypeInv' /\ ~trFatal'
    BY <1>0, <1>1, <2>2, <2>3 DEF TrEnter, trHeap, TrTypeInv, TrModes
  <2> QED BY <2>1, <2>4 DEF TrInv
<1>2. ASSUME NEW f \in DOMAIN TrHolder \ {"status"}, NEW v \in TrValues(f), TrWrite(f, v)
      PROVE  TrInv'
  <2>1. /\ trMode = "active" /\ trMode' = "active" /\ TrSet(f, v) /\ TrCall
        /\ UNCHANGED <<trStrong, trWeak, trMoves, trDead, trStringLog, trAborted, trPending, trFatal, trBefore>>
    BY <1>2 DEF TrWrite, trHeap, trControl
  <2>2. /\ f = "value" => v \in 0 .. 1
        /\ f = "ref" => v \in (TrStrings \ trDead) \union {TrNull}
        /\ f = "float" => v \in 1 .. 2
    BY <1>2 DEF TrValues
  <2>3. TrFieldsInv'
    BY <1>0, <2>1, <2>2, TrSetFields
  <2>4. TrStringsInv'
    BY <1>0, <2>1, TrStringsStay
  <2>5. trField' \in TrFieldTypes
    BY <1>0, <2>1, <2>2, TrSetType
  <2>6. trLeft' \in [calls : Nat, collections : Nat]
    BY <1>0, <2>1, TrCallType
  <2>7. TrTypeInv' /\ ~trFatal'
    BY <1>0, <2>1, <2>5, <2>6 DEF TrTypeInv
  <2> QED BY <2>3, <2>4, <2>7 DEF TrInv
<1>3. ASSUME NEW s \in TrStrings, NEW strong \in BOOLEAN, TrIntern(s, strong)
      PROVE  TrInv'
  <2>1. /\ trMode \in {"out", "active"} /\ TrCall
        /\ UNCHANGED <<trField, trLogs, trAborted, trPending, trMode, trFatal, trBefore, trMoves, trDead>>
    BY <1>3 DEF TrIntern, trControl
  <2>2. TrFieldsInv'
    BY <1>0, <2>1, TrFieldsStay
  <2>3. /\ TrStringsInv' /\ trStringLog' \in Seq(TrLogEntries)
        /\ trStrong' \in SUBSET TrStrings /\ trWeak' \in SUBSET TrStrings
    <3>1. CASE trMode = "out"
      <4>1. trStringLog \in Seq(TrLogEntries)
        BY <1>0 DEF TrTypeInv
      <4> QED BY <1>0, <1>3, <3>1, <4>1, TrInternOutside
    <3>2. CASE trMode = "active"
      BY <1>0, <1>3, <3>2, TrInternInside
    <3> QED BY <2>1, <3>1, <3>2
  <2>4. trLeft' \in [calls : Nat, collections : Nat]
    BY <1>0, <2>1, TrCallType
  <2>5. TrTypeInv' /\ ~trFatal'
    BY <1>0, <2>1, <2>3, <2>4 DEF TrTypeInv
  <2> QED BY <2>2, <2>3, <2>5 DEF TrInv
<1>4. ASSUME NEW moved \in {{}, TrMovable}, NEW dead \in SUBSET TrStrings, TrCollect(moved, dead)
      PROVE  TrInv'
  <2>1. moved \in SUBSET TrMovable
    OBVIOUS
  <2>2. TrFieldsInv'
    BY <1>0, <1>4, <2>1, TrCollectFields
  <2>3. TrStringsInv' /\ trStringLog' \in Seq(TrLogEntries)
    BY <1>0, <1>4, <2>1, TrCollectStrings
  <2>4. /\ trMoves' = [o \in TrMovable |-> trMoves[o] + IF o \in moved THEN 1 ELSE 0]
        /\ trDead' = trDead \union dead /\ trWeak' = trWeak \ dead
        /\ trLeft.collections > 0 /\ trLeft' = [trLeft EXCEPT !.collections = @ - 1]
        /\ UNCHANGED <<trField, trStrong, trAborted, trPending, trMode, trFatal, trBefore>>
    BY <1>4 DEF TrCollect, trControl
  <2>5. trMoves' \in [TrMovable -> Nat]
    <3>1. trMoves \in [TrMovable -> Nat]
      BY <1>0 DEF TrTypeInv
    <3>2. \A o \in TrMovable : (trMoves[o] + IF o \in moved THEN 1 ELSE 0) \in Nat
      BY <3>1
    <3> QED BY <2>4, <3>2
  <2>6. trLeft' \in [calls : Nat, collections : Nat]
    <3>1. trLeft \in [calls : Nat, collections : Nat]
      BY <1>0 DEF TrTypeInv
    <3> QED BY <2>4, <3>1
  <2>7. TrTypeInv' /\ ~trFatal'
    BY <1>0, <2>3, <2>4, <2>5, <2>6 DEF TrTypeInv
  <2> QED BY <2>2, <2>3, <2>7 DEF TrInv
<1>5. ASSUME NEW abort \in BOOLEAN, TrThrow(abort)
      PROVE  TrInv'
  <2>1. /\ trMode = "active" /\ trPending' = TRUE /\ trAborted' = (trAborted \/ abort)
        /\ UNCHANGED <<trField, trStrong, trWeak, trMoves, trDead, trLogs, trStringLog, trMode, trFatal,
                       trBefore, trLeft>>
    BY <1>5 DEF TrThrow, trHeap, trLog
  <2>2. TrFieldsInv' /\ TrStringsInv'
    BY <1>0, <2>1, TrFieldsStay, TrStringsStay
  <2>3. TrTypeInv' /\ ~trFatal'
    BY <1>0, <2>1 DEF TrTypeInv
  <2> QED BY <2>2, <2>3 DEF TrInv
<1>6. CASE TrCatch
  <2>1. /\ trMode = "active" /\ trPending' = FALSE /\ TrCall
        /\ UNCHANGED <<trField, trStrong, trWeak, trMoves, trDead, trLogs, trStringLog, trAborted, trMode,
                       trFatal, trBefore>>
    BY <1>6 DEF TrCatch, trHeap, trLog
  <2>2. TrFieldsInv' /\ TrStringsInv'
    BY <1>0, <2>1, TrFieldsStay, TrStringsStay
  <2>3. trLeft' \in [calls : Nat, collections : Nat]
    BY <1>0, <2>1, TrCallType
  <2>4. TrTypeInv' /\ ~trFatal'
    BY <1>0, <2>1, <2>3 DEF TrTypeInv
  <2> QED BY <2>2, <2>4 DEF TrInv
<1>7. CASE TrReturn
  <2> DEFINE v == IF TrFails THEN "error" ELSE "initialized"
  <2>1. /\ trMode = "active" /\ TrSet("status", v) /\ trPending' = FALSE
        /\ trMode' = IF TrFails THEN "rollback" ELSE "committed"
        /\ UNCHANGED <<trStrong, trWeak, trMoves, trDead, trStringLog, trAborted, trFatal, trBefore, trLeft>>
    BY <1>7 DEF TrReturn, trHeap
  <2>2. v \in {"initializing", "initialized", "error"} /\ "status" \in DOMAIN TrHolder
    BY TrHolders
  <2> HIDE DEF v
  <2>3. trMode' \in {"active", "rollback", "committed"} /\ (trMode' = "committed" => ~trAborted')
    BY <2>1 DEF TrFails
  <2>4. TrFieldsInv'
    BY <1>0, <2>1, <2>2, <2>3, TrSetFields
  <2>5. TrStringsInv'
    BY <1>0, <2>1, TrStringsStay
  <2>6. trField' \in TrFieldTypes
    BY <1>0, <2>1, <2>2, TrSetType
  <2>7. TrTypeInv' /\ ~trFatal'
    BY <1>0, <2>1, <2>6 DEF TrTypeInv, TrModes
  <2> QED BY <2>4, <2>5, <2>7 DEF TrInv
<1>8. CASE TrRollback
  <2>1. /\ trMode = "rollback" /\ trMode' = "undo"
        /\ UNCHANGED <<trStrong, trWeak, trMoves, trDead, trStringLog, trAborted, trPending, trBefore, trLeft>>
    BY <1>8 DEF TrRollback, trHeap
  <2>2. TrFieldsInv' /\ (trFatal' => trFatal) /\ trField' \in TrFieldTypes
    BY <1>0, <1>8, TrRollbackFields
  <2>3. TrStringsInv'
    BY <1>0, <2>1, TrStringsStay
  <2>4. TrTypeInv' /\ ~trFatal'
    BY <1>0, <2>1, <2>2 DEF TrTypeInv, TrModes
  <2> QED BY <2>2, <2>3, <2>4 DEF TrInv
<1>9. CASE TrUndoString
  <2>1. UNCHANGED <<trField, trLogs, trAborted, trPending, trMode, trMoves, trDead, trBefore, trLeft>>
    BY <1>9 DEF TrUndoString
  <2>2. /\ TrStringsInv' /\ ~trFatal' /\ trStringLog' \in Seq(TrLogEntries)
        /\ trStrong' \in SUBSET TrStrings /\ trWeak' \in SUBSET TrStrings
    BY <1>0, <1>9, TrUndoStrings
  <2>3. TrFieldsInv'
    BY <1>0, <2>1, TrFieldsStay
  <2>4. TrTypeInv'
    BY <1>0, <2>1, <2>2 DEF TrTypeInv
  <2> QED BY <2>2, <2>3, <2>4 DEF TrInv
<1>10. CASE TrFinish
  <2>1. /\ trMode = "undo" /\ trStringLog = <<>> /\ trMode' = "undone"
        /\ trFatal' = (trFatal \/ trField["status"] # trBefore.field["status"])
        /\ UNCHANGED <<trField, trStrong, trWeak, trMoves, trDead, trLogs, trStringLog, trAborted, trPending,
                       trBefore, trLeft>>
    BY <1>10 DEF TrFinish, trHeap, trLog
  <2>2. TrStringsInv'
    BY <1>0, <2>1, TrStringsStay
  <2>3. \A f \in DOMAIN TrHolder : TrIsRestored(f)
    BY <1>0, <2>1 DEF TrFieldsInv
  <2>4. \A f \in DOMAIN TrHolder : TrIsRestored(f)'
    BY <2>1, <2>3 DEF TrIsRestored
  <2>5. TrFieldsInv'
    BY <2>1, <2>4 DEF TrFieldsInv
  <2>6. trField["status"] = trBefore.field["status"]
    BY <2>3, TrHolders DEF TrIsRestored
  <2>7. TrTypeInv' /\ ~trFatal'
    BY <1>0, <2>1, <2>6 DEF TrTypeInv, TrModes
  <2> QED BY <2>2, <2>5, <2>7 DEF TrInv
<1> QED BY <1>1, <1>2, <1>3, <1>4, <1>5, <1>6, <1>7, <1>8, <1>9, <1>10 DEF TrNext

\* The invariant holds when the image compiler starts.
LEMMA TrInitHolds ==
    ASSUME TransactionAssumption, TrInit
    PROVE  TrInv
<1>1. trField \in [status : {"verified"}, value : {0}, ref : TrStrings \union {TrNull}, float : 1 .. 2]
  BY DEF TrInit, TrValues
<1>2. trField \in TrBeforeFields /\ trField \in TrFieldTypes
  BY <1>1 DEF TrBeforeFields, TrFieldTypes
<1>3. trStringLog \in Seq(TrLogEntries) /\ trMoves \in [TrMovable -> Nat]
  BY DEF TrInit
<1>4. trBefore \in [field : TrBeforeFields, strong : SUBSET TrStrings, weak : SUBSET TrStrings,
                    moves : [TrMovable -> Nat]]
  BY <1>2, <1>3 DEF TrInit, TrSnapshot
<1>5. trLeft \in [calls : Nat, collections : Nat]
  BY DEF TrInit, TransactionAssumption
<1>6. TrTypeInv
  BY <1>2, <1>3, <1>4, <1>5 DEF TrTypeInv, TrInit, TrModes
<1>7. TrFieldsInv
  BY <1>2 DEF TrFieldsInv, TrInit
<1>8. TrStringsInv
  BY DEF TrStringsInv, TrInit, TrUndoing
<1> QED BY <1>6, <1>7, <1>8 DEF TrInv, TrInit

\* The invariant tells what an undone transaction leaves.
LEMMA TrInvTells ==
    ASSUME TrInv
    PROVE  TrRollbackRestores
<1>1. /\ ~trFatal /\ (trMode = "committed" => ~trAborted)
  BY DEF TrInv, TrFieldsInv
<1>2. ASSUME trMode = "undone"
      PROVE  /\ trStrong = trBefore.strong
             /\ trWeak = trBefore.weak \ trDead
             /\ \A f \in DOMAIN trField : TrIsRestored(f)
  <2>1. /\ TrTables /\ trStringLog = <<>>
        /\ \A f \in DOMAIN TrHolder : TrIsRestored(f)
    BY <1>2 DEF TrInv, TrStringsInv, TrFieldsInv, TrLogInv, TrUndoing
  <2>2. \A x : ~TrMadeStrong(x) /\ ~TrMadeWeak(x) /\ ~TrUnweakened(x)
    BY <2>1 DEF TrMadeStrong, TrMadeWeak, TrUnweakened, TrHas
  <2>3. /\ trStrong \in SUBSET TrStrings /\ trWeak \in SUBSET TrStrings
        /\ trBefore.strong \in SUBSET TrStrings /\ trBefore.weak \in SUBSET TrStrings
        /\ DOMAIN trField = {"status", "value", "ref", "float"}
    BY DEF TrInv, TrTypeInv, TrFieldTypes
  <2>4. \A x \in TrStrings : /\ x \in trStrong <=> x \in trBefore.strong
                             /\ x \in trWeak <=> x \in trBefore.weak /\ x \notin trDead
    BY <2>1, <2>2 DEF TrTables
  <2>5. trStrong = trBefore.strong /\ trWeak = trBefore.weak \ trDead
    BY <2>3, <2>4
  <2> QED BY <2>1, <2>3, <2>5, TrHolders
<1>3. trMode = "undone" => \A f \in {"status", "value", "ref"} : TrIsRestored(f)
  BY <1>2 DEF TrInv, TrTypeInv, TrFieldTypes
<1> QED BY <1>1, <1>2, <1>3 DEF TrRollbackRestores, TrIsRestored

\* The invariant of the transaction: what is logged, at its current address, stands for what the
\* transaction has overwritten, and the tables are those of before with what the log tells.
THEOREM TrInvHolds == TrSpec => []TrInv
<1>1. TrInit => TrInv
  BY TransactionAssumption, TrInitHolds
<1>2. TrInv /\ [TrNext]_trVars => TrInv'
  <2>1. ASSUME TrInv, UNCHANGED trVars PROVE TrInv'
    <3>1. ~trFatal /\ TrTypeInv /\ TrFieldsInv /\ TrStringsInv
      BY <2>1 DEF TrInv
    <3>2. TrFieldsInv' /\ TrStringsInv'
      BY <2>1, <3>1, TrFieldsStay, TrStringsStay DEF trVars
    <3>3. TrTypeInv' /\ ~trFatal'
      BY <2>1, <3>1 DEF trVars, TrTypeInv
    <3> QED BY <3>2, <3>3 DEF TrInv
  <2> QED BY <2>1, TransactionAssumption, TrStepKeeps
<1> QED BY <1>1, <1>2, PTL DEF TrSpec

\* What Rollback does put back, for every set of strings, whatever the <clinit> writes and interns
\* and whenever a collection moves or frees what it may: both intern tables, the fields, and every
\* reference to an object that has not been moved since; and no CHECK of the undo fails.
THEOREM TrRollbackRestoresHolds == TrSpec => []TrRollbackRestores
<1>1. TrInv => TrRollbackRestores
  BY TrInvTells
<1> QED BY <1>1, TrInvHolds, PTL
================================================================================
