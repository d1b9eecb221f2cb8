-------------------------------- MODULE MCHeap ---------------------------------
(***************************************************************************)
(* The hook with one thread, forced invocation and DEX rebuilding, and     *)
(* around the heap: heap tasks, reference processing, allocation stacks,   *)
(* local references and transactions.  They share no state, so every       *)
(* behaviour chooses one of them and takes its steps; the others stay in   *)
(* an initial state.                                                       *)
(***************************************************************************)
EXTENDS MCUnpack, ForcedInvoke, DexBuilder, HeapTasks, ReferenceProcessor,
        IndirectReferences, AllocationStacks, Transaction

CONSTANTS HeapParts,        \* the components to check
          o1, o2,           \* objects
          rSoft, rWeak, rFinalizer, rPhantom

VARIABLE heapPart           \* the component of this behaviour

\* Instructions, with the bytes that stand for them in the hash.
MCOpcodes == ("invoke-static" :> 113) @@ ("invoke-other" :> 110) @@ ("return-void" :> 14)

\* Classes with and without code, that are loaded, looked up, not found or left out.
MCClassKinds ==
    {[how |-> h, fields |-> 1, codes |-> c] :
        h \in {"loaded", "unloaded", "bypassed"}, c \in {<<>>, <<16, 0>>}}
    \cup {[how |-> "unloaded", fields |-> 0, codes |-> <<28, 20>>],
          [how |-> "failing", fields |-> 1, codes |-> <<16>>]}

\* One reference of each kind; the weak one is found only in o1, which is in a field of o2, or all
\* are in roots.
MCRefs == (rSoft :> "soft") @@ (rWeak :> "weak") @@ (rFinalizer :> "finalizer")
          @@ (rPhantom :> "phantom")
MCRefsFew == (rWeak :> "weak") @@ (rFinalizer :> "finalizer")
MCHolder == [r \in DOMAIN RpRefs |-> IF r = rWeak THEN o1 ELSE RpNull]
MCHolderRoots == [r \in DOMAIN RpRefs |-> RpNull]
MCPoints == (o1 :> {}) @@ (o2 :> {o1})

\* Two String objects with the same characters.
MCText == (o1 :> "text") @@ (o2 :> "text")

heapVars == <<heapPart, vars, fiVars, dbVars, htVars, rpVars, irVars, asVars, trVars>>

HeapInit ==
    /\ heapPart \in HeapParts
    /\ Init
    /\ heapPart /= "unpack" => file = NoFile /\ filter = CHOOSE f \in FreshFilters : TRUE
    /\ HtInit /\ IrInit /\ AsInit
    /\ heapPart /= "heap" => htBackground = "HSC"
    /\ FiInit
    /\ heapPart /= "forced" => \A i \in 1 .. FiLen : fiCode[i] = "return-void"
    /\ DbInit
    /\ heapPart /= "builder" => /\ dbClasses = <<CHOOSE k \in DbClassKinds : TRUE>>
                                /\ dbPad = CHOOSE p \in DbPads : TRUE
                                /\ dbTampered = {}
    /\ RpInit
    /\ heapPart /= "references" => \A r \in RpAll : rpReferent[r] = o1
    /\ TrInit
    /\ heapPart /= "transaction" => trField["ref"] = TrNull /\ trField["float"] = 1

\* No component but p changes.
OnlyHeap(p) ==
    /\ UNCHANGED heapPart
    /\ IF p = "unpack" THEN TRUE ELSE UNCHANGED vars
    /\ IF p = "forced" THEN TRUE ELSE UNCHANGED fiVars
    /\ IF p = "builder" THEN TRUE ELSE UNCHANGED dbVars
    /\ IF p = "heap" THEN TRUE ELSE UNCHANGED htVars
    /\ IF p = "references" THEN TRUE ELSE UNCHANGED rpVars
    /\ IF p = "locals" THEN TRUE ELSE UNCHANGED irVars
    /\ IF p = "stacks" THEN TRUE ELSE UNCHANGED asVars
    /\ IF p = "transaction" THEN TRUE ELSE UNCHANGED trVars

HeapNext ==
    \/ heapPart = "unpack" /\ Next /\ OnlyHeap("unpack")
    \/ heapPart = "forced" /\ FiNext /\ OnlyHeap("forced")
    \/ heapPart = "builder" /\ DbNextStep /\ OnlyHeap("builder")
    \/ heapPart = "heap" /\ HtNext /\ OnlyHeap("heap")
    \/ heapPart = "references" /\ RpNextStep /\ OnlyHeap("references")
    \/ heapPart = "locals" /\ IrNext /\ OnlyHeap("locals")
    \/ heapPart = "stacks" /\ AsNext /\ OnlyHeap("stacks")
    \/ heapPart = "transaction" /\ TrNext /\ OnlyHeap("transaction")

HeapSpec == HeapInit /\ [][HeapNext]_heapVars

\* The objects on the allocation stacks are interchangeable.
HeapSymmetry == Permutations(AsObjects)
================================================================================
