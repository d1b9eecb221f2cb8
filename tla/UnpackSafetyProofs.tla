------------------------- MODULE UnpackSafetyProofs -------------------------
(***************************************************************************)
(* Proofs of the safety of Unpack for any number of threads, DEX files and *)
(* nested activations: level 3 is not recursive, activations and           *)
(* successive processes do not disturb each other's dump files, and a      *)
(* rebuilt image holds the code of every class that was initialised for    *)
(* it.  And of ForcedInvoke: code whose hash has changed is not run.       *)
(***************************************************************************)
EXTENDS UnpackProofs, ForcedInvoke, SequenceTheorems

Activations(t) == 1 .. Len(stack[t])

(***************************************************************************)
(* Level 3.  Only a traversal has activations above it, and a traversal of *)
(* level 3 has set `started'.                                              *)
(***************************************************************************)
TraversalPcs == {"traverse", "init"}

OnlyTraversalsNest ==
    \A t \in Threads : \A i \in Activations(t) :
        i # Len(stack[t]) => stack[t][i].pc \in TraversalPcs

RebuildHasStarted ==
    \A t \in Threads : \A i \in Activations(t) :
        stack[t][i].level = 3 /\ stack[t][i].pc \in TraversalPcs => started

RebuildInv == OnlyTraversalsNest /\ RebuildHasStarted /\ RebuildIsNotRecursive

(***************************************************************************)
(* Dump files.  The activations inside write_file have taken different     *)
(* numbers, the files that this process has made have numbers below        *)
(* dex_num, and so the file that one of them works on is not there, or is  *)
(* its own unfinished one, or is of an earlier process and was missed by   *)
(* open.                                                                   *)
(***************************************************************************)
WriteFilePcs == {"probe", "create", "write"}

NumbersAreTaken ==
    \A t \in Threads : \A i \in Activations(t) :
        stack[t][i].pc \in WriteFilePcs => stack[t][i].num < dex_num

NumbersDiffer ==
    \A t, u \in Threads : \A i \in Activations(t), j \in Activations(u) :
        /\ stack[t][i].pc \in WriteFilePcs
        /\ stack[u][j].pc \in WriteFilePcs
        /\ stack[t][i].num = stack[u][j].num
        => t = u /\ i = j

RunsPast ==
    \A k \in DOMAIN disk : disk[k] # Absent => disk[k].run <= restarts

OwnFilesAreTaken ==
    \A k \in DOMAIN disk :
        disk[k] # Absent /\ disk[k].run = restarts => k[1] < dex_num

\* What the file x may be that activation f of process r works on.
FileFits(f, x, r) ==
    /\ f.pc = "probe" => x = Absent \/ x.run # r
    /\ f.pc = "create" => x = Absent \/ (f.missed /\ x.run # r)
    /\ f.pc = "write" /\ x.data = "full" => f.missed /\ x.run # r

FilesFit ==
    \A t \in Threads : \A i \in Activations(t) :
        FileFits(stack[t][i], disk[DumpName(stack[t][i])], restarts)

DumpInv ==
    NumbersAreTaken /\ NumbersDiffer /\ RunsPast /\ OwnFilesAreTaken /\ FilesFit

SafetyInv == TypeInv /\ RebuildInv /\ DumpInv

\* No activation exists at the start.
LEMMA SafetyInvInit == Init => SafetyInv
<1> SUFFICES ASSUME Init PROVE SafetyInv
  OBVIOUS
<1>1. \A t \in Threads : Activations(t) = {} /\ 1 .. Len(stack[t]) = {}
  BY DEF Init, Activations
<1>2. RebuildInv
  BY <1>1 DEF RebuildInv, OnlyTraversalsNest, RebuildHasStarted, RebuildIsNotRecursive
<1>2a. \A k \in DOMAIN disk : disk[k] = Absent
  BY DEF Init
<1>3. DumpInv
  BY <1>1, <1>2a DEF DumpInv, NumbersAreTaken, NumbersDiffer, RunsPast, OwnFilesAreTaken,
     FilesFit
<1> QED BY <1>2, <1>3, TypeInvInit DEF SafetyInv

\* t's running activation is nested in one that rebuilds.
InRebuild(t) ==
    \E i \in Activations(t) : i # Len(stack[t]) /\ stack[t][i].level = 3

\* Such an activation is at the test of `started', which is set, or runs the
\* method's body.
LEMMA InRebuildIsIdle ==
    ASSUME TypeInv, RebuildInv, NEW t \in Threads, stack[t] # <<>>, InRebuild(t)
    PROVE  Top(t).pc \in {"start", "body"} /\ started
<1>1. Len(stack[t]) \in Nat \ {0} /\ Len(stack[t]) \in Activations(t)
  BY TopIsLast DEF TypeInv, Activations
<1>2. PICK i \in Activations(t) : i # Len(stack[t]) /\ stack[t][i].level = 3
  BY DEF InRebuild
<1>3. i < Len(stack[t]) /\ i \in 1 .. Len(stack[t])
  BY <1>1, <1>2 DEF Activations
<1>4. Top(t).pc \in {"start", "body"}
  BY <1>1, <1>2, <1>3 DEF RebuildInv, RebuildIsNotRecursive, Top, Activations
<1>5. stack[t][i].pc \in TraversalPcs
  BY <1>2 DEF RebuildInv, OnlyTraversalsNest
<1> QED BY <1>2, <1>4, <1>5 DEF RebuildInv, RebuildHasStarted

\* A step of a running activation keeps level 3 from recursion if it enters a
\* traversal of level 3 only with `started' set, and leaves the test and the
\* body only outside a rebuilding activation.
LEMMA SetTopKeepsRebuild ==
    ASSUME TypeInv, RebuildInv, NEW t \in Threads, stack[t] # <<>>,
           NEW f \in OpenFrame, SetTop(t, f),
           started => started',
           f.level = 3 /\ f.pc \in TraversalPcs => started',
           InRebuild(t) => f.pc \in {"start", "body"}
    PROVE  RebuildInv'
<1>1. /\ \A u \in Threads \ {t} : stack'[u] = stack[u]
      /\ Len(stack'[t]) = Len(stack[t])
      /\ stack'[t][Len(stack[t])] = f
      /\ \A i \in 1 .. Len(stack[t]) :
            i # Len(stack[t]) => stack'[t][i] = stack[t][i]
  BY SetTopEffect DEF TypeInv
<1>2. \A u \in Threads : Activations(u)' = Activations(u) /\ Len(stack'[u]) = Len(stack[u])
  BY <1>1 DEF Activations
<1>3. OnlyTraversalsNest'
  BY <1>1, <1>2 DEF RebuildInv, OnlyTraversalsNest, Activations
<1>4. RebuildHasStarted'
  BY <1>1, <1>2 DEF RebuildInv, RebuildHasStarted, Activations
<1>5. RebuildIsNotRecursive'
  <2> SUFFICES ASSUME NEW u \in Threads, NEW i \in 1 .. Len(stack[u]),
                      NEW j \in 1 .. Len(stack[u]), i < j,
                      stack'[u][i].level = 3
               PROVE  stack'[u][j].pc \in {"start", "body"}
    BY <1>2 DEF RebuildIsNotRecursive
  <2>1. CASE u # t
    BY <1>1, <2>1 DEF RebuildInv, RebuildIsNotRecursive
  <2>2. CASE u = t /\ j # Len(stack[t])
    <3>1. i # Len(stack[t])
      BY <2>2, TopIsLast DEF TypeInv
    <3> QED BY <1>1, <2>2, <3>1 DEF RebuildInv, RebuildIsNotRecursive
  <2>3. CASE u = t /\ j = Len(stack[t])
    <3>1. i # Len(stack[t])
      BY <2>3, TopIsLast DEF TypeInv
    <3>2. InRebuild(t)
      BY <1>1, <2>3, <3>1 DEF InRebuild, Activations
    <3> QED BY <1>1, <2>3, <3>2
  <2> QED BY <2>1, <2>2, <2>3
<1> QED BY <1>3, <1>4, <1>5 DEF RebuildInv

\* A step after which no activation is newly inside write_file, and which
\* changes neither dex_num nor the dump files, keeps their invariant.
LEMMA NoNewWriterKeepsDumps ==
    ASSUME TypeInv, DumpInv, dex_num' = dex_num, disk' = disk, restarts' = restarts,
           \A u \in Threads : \A i \in Activations(u)' :
               stack'[u][i].pc \in WriteFilePcs =>
                   i \in Activations(u) /\ stack'[u][i] = stack[u][i]
    PROVE  DumpInv'
<1>1. NumbersAreTaken'
  BY DEF DumpInv, NumbersAreTaken
<1>2. NumbersDiffer'
  BY DEF DumpInv, NumbersDiffer
<1>3. RunsPast' /\ OwnFilesAreTaken'
  BY DEF DumpInv, RunsPast, OwnFilesAreTaken
<1>4. FilesFit'
  <2> SUFFICES ASSUME NEW u \in Threads, NEW i \in Activations(u)'
               PROVE  FileFits(stack'[u][i], disk'[DumpName(stack'[u][i])], restarts')
    BY DEF FilesFit, DumpName
  <2>1. CASE stack'[u][i].pc \notin WriteFilePcs
    BY <2>1 DEF FileFits, WriteFilePcs
  <2>2. CASE stack'[u][i].pc \in WriteFilePcs
    <3>1. i \in Activations(u) /\ stack'[u][i] = stack[u][i]
      BY <2>2
    <3>2. FileFits(stack[u][i], disk[DumpName(stack[u][i])], restarts)
      BY <3>1 DEF DumpInv, FilesFit
    <3> QED BY <3>1, <3>2
  <2> QED BY <2>1, <2>2
<1> QED BY <1>1, <1>2, <1>3, <1>4 DEF DumpInv

\* A step of a running activation outside write_file keeps their invariant.
LEMMA SetTopKeepsDumps ==
    ASSUME TypeInv, DumpInv, NEW t \in Threads, stack[t] # <<>>,
           NEW f \in OpenFrame, SetTop(t, f), f.pc \notin WriteFilePcs,
           dex_num' = dex_num, disk' = disk, restarts' = restarts
    PROVE  DumpInv'
<1>1. /\ \A u \in Threads \ {t} : stack'[u] = stack[u]
      /\ Len(stack'[t]) = Len(stack[t])
      /\ stack'[t][Len(stack[t])] = f
      /\ \A i \in 1 .. Len(stack[t]) :
            i # Len(stack[t]) => stack'[t][i] = stack[t][i]
  BY SetTopEffect DEF TypeInv
<1> QED BY <1>1, NoNewWriterKeepsDumps DEF Activations

\* The frame that a jump leads to.
LEMMA GotoFields ==
    ASSUME TypeInv, NEW t \in Threads, stack[t] # <<>>, NEW pc
    PROVE  /\ [Top(t) EXCEPT !.pc = pc].pc = pc
           /\ [Top(t) EXCEPT !.pc = pc].level = Top(t).level
           /\ [Top(t) EXCEPT !.pc = pc].fin = Top(t).fin
           /\ [Top(t) EXCEPT !.pc = pc].num = Top(t).num
           /\ DumpName([Top(t) EXCEPT !.pc = pc]) = DumpName(Top(t))
<1>1. Top(t) \in Frame
  <2>1. Top(t) \in OpenFrame
    BY TopIsLast DEF TypeInv
  <2> QED BY <2>1 DEF OpenFrame
<1> QED BY <1>1 DEF Frame, DumpName

\* A jump between places outside write_file, traversals, the test of `started'
\* and the method's body keeps both invariants.
LEMMA QuietJump ==
    ASSUME SafetyInv, NEW t \in Threads, stack[t] # <<>>, NEW pc \in Pcs \ {"init"},
           Top(t).pc \notin {"start", "body"},
           pc \in ReadingPcs => Top(t).pc \in ReadingPcs,
           pc \notin WriteFilePcs \cup {"traverse"},
           Goto(t, pc), started' = started, dex_num' = dex_num, disk' = disk,
           restarts' = restarts
    PROVE  RebuildInv' /\ DumpInv'
<1> DEFINE f == [Top(t) EXCEPT !.pc = pc]
<1>1. TypeInv /\ RebuildInv /\ DumpInv
  BY DEF SafetyInv
<1>2. Top(t) \in OpenFrame
  BY <1>1, TopIsLast DEF TypeInv
<1>3. pc \in ReadingPcs => Top(t).fin # NoFile
  BY <1>2 DEF OpenFrame
<1>4. f \in OpenFrame /\ f.pc = pc
  BY <1>1, <1>3, GotoFrame, GotoFields
<1>5. SetTop(t, f)
  BY DEF Goto
<1>6. ~InRebuild(t)
  BY <1>1, InRebuildIsIdle
<1> HIDE DEF f
<1>7. RebuildInv'
  BY <1>1, <1>4, <1>5, <1>6, SetTopKeepsRebuild DEF TraversalPcs
<1>8. DumpInv'
  BY <1>1, <1>4, <1>5, SetTopKeepsDumps
<1> QED BY <1>7, <1>8

\* A test of shared state is such a jump.
LEMMA BranchIsQuiet ==
    ASSUME SafetyInv, NEW t \in Threads, NEW from, NEW cond,
           NEW yes \in Pcs \ {"init"}, NEW no \in Pcs \ {"init"},
           from \notin {"start", "body"},
           {yes, no} \cap ReadingPcs # {} => from \in ReadingPcs,
           {yes, no} \cap (WriteFilePcs \cup {"traverse"}) = {},
           Branch(t, from, cond, yes, no)
    PROVE  RebuildInv' /\ DumpInv'
<1> DEFINE to == IF cond THEN yes ELSE no
<1>1. /\ stack[t] # <<>> /\ Top(t).pc = from /\ Goto(t, to)
      /\ started' = started /\ dex_num' = dex_num /\ disk' = disk
      /\ restarts' = restarts
  BY DEF Branch, At, globals, environment
<1>2. to \in Pcs \ {"init"} /\ to \in {yes, no}
  OBVIOUS
<1> HIDE DEF to
<1> QED BY <1>1, <1>2, QuietJump

\* A step of the running activation that stays outside write_file and
\* traversals keeps both invariants.
LEMMA QuietStep ==
    ASSUME SafetyInv, NEW t \in Threads, stack[t] # <<>>, NEW f \in OpenFrame,
           SetTop(t, f), Top(t).pc \notin {"start", "body"},
           f.pc \notin WriteFilePcs,
           f.level = 3 /\ f.pc \in TraversalPcs => started',
           started => started', dex_num' = dex_num, disk' = disk, restarts' = restarts
    PROVE  RebuildInv' /\ DumpInv'
<1>1. TypeInv /\ RebuildInv /\ DumpInv
  BY DEF SafetyInv
<1>2. ~InRebuild(t)
  BY <1>1, InRebuildIsIdle
<1>3. RebuildInv'
  BY <1>1, <1>2, SetTopKeepsRebuild
<1>4. DumpInv'
  BY <1>1, SetTopKeepsDumps
<1> QED BY <1>3, <1>4

\* A step that has made the running activation f, and kept the types, has an
\* activation for f.
LEMMA NewTopIsTyped ==
    ASSUME TypeInv, TypeInv', NEW t \in Threads, stack[t] # <<>>, NEW f, SetTop(t, f)
    PROVE  f \in OpenFrame
<1>1. Len(stack[t]) \in Nat \ {0} /\ stack \in [Threads -> Seq(OpenFrame)]
  BY TopIsLast DEF TypeInv
<1>2. stack'[t] = [stack[t] EXCEPT ![Len(stack[t])] = f]
  BY <1>1 DEF SetTop
<1>3. Len(stack'[t]) = Len(stack[t]) /\ stack'[t] \in Seq(OpenFrame)
  BY <1>1, <1>2 DEF TypeInv
<1> QED BY <1>1, <1>2, <1>3

\* The steps of check_flag keep both invariants.
LEMMA CheckFlagKeepsSafety ==
    ASSUME SafetyInv, TypeInv', NEW t \in Threads, CheckFlag(t)
    PROVE  RebuildInv' /\ DumpInv'
<1> USE DEF Pcs, ReadingPcs, WriteFilePcs, TraversalPcs
<1>1. CASE TestFlag(t)
  BY <1>1, BranchIsQuiet DEF TestFlag
<1>2. CASE OpenConfig(t)
  <2> DEFINE to == IF file = NoFile THEN "reset_force"
                   ELSE IF file.name = NoName THEN "test_name" ELSE "name"
             f == [Top(t) EXCEPT !.fin = file, !.pc = to]
  <2>1. /\ stack[t] # <<>> /\ Top(t).pc = "open" /\ SetTop(t, f)
        /\ started' = started /\ dex_num' = dex_num /\ disk' = disk /\ restarts' = restarts
    BY <1>2 DEF OpenConfig, At, globals, environment
  <2>2. TypeInv /\ Top(t) \in OpenFrame
    BY <2>1, TopIsLast DEF SafetyInv, TypeInv
  <2>3. to \in {"reset_force", "test_name", "name"}
    OBVIOUS
  <2> HIDE DEF to
  <2>4. f.pc = to
    <3> HIDE DEF Pcs, ReadingPcs
    <3> QED BY <2>2 DEF OpenFrame, Frame
  <2> HIDE DEF f
  <2>5. f \in OpenFrame
    BY <2>1, <2>2, NewTopIsTyped
  <2> QED BY <2>1, <2>3, <2>4, <2>5, QuietStep
<1>3. CASE ReadName(t)
  BY <1>3, QuietJump DEF ReadName, Store, At, globals, environment
<1>4. CASE TestName(t)
  BY <1>4, BranchIsQuiet DEF TestName
<1>5. CASE SetFlag(t)
  BY <1>5, QuietJump DEF SetFlag, Store, At, globals, environment
<1>6. CASE ClearMethod(t)
  BY <1>6, QuietJump DEF ClearMethod, Store, At, globals, environment
<1>7. CASE ReadMethod(t)
  BY <1>7, QuietJump DEF ReadMethod, Store, At, globals, environment
<1>8. CASE TestMethod(t)
  BY <1>8, BranchIsQuiet DEF TestMethod
<1>9. CASE ClearForce(t)
  BY <1>9, QuietJump DEF ClearForce, Store, At, globals, environment
<1>10. CASE SetForce(t)
  BY <1>10, QuietJump DEF SetForce, Store, At, globals, environment
<1>11. CASE SetRebuild(t)
  BY <1>11, QuietJump DEF SetRebuild, Store, At, globals, environment
<1>12. CASE ClearMode(t)
  BY <1>12, QuietJump DEF ClearMode, Store, At, globals, environment
<1>13. CASE ReadMode(t)
  BY <1>13, QuietJump DEF ReadMode, Store, At, globals, environment
<1>14. CASE SetMode(t)
  BY <1>14, QuietJump DEF SetMode, Store, At, globals, environment
<1>15. CASE ResetForce(t)
  BY <1>15, QuietJump DEF ResetForce, Store, At, globals, environment
<1>16. CASE ResetFlag(t)
  BY <1>16, QuietJump DEF ResetFlag, Store, At, globals, environment
<1> QED BY <1>1, <1>2, <1>3, <1>4, <1>5, <1>6, <1>7, <1>8, <1>9, <1>10,
           <1>11, <1>12, <1>13, <1>14, <1>15, <1>16 DEF CheckFlag

\* Invoke's tests and the traversals of level 2 and level 3 keep both
\* invariants: `started' is set before a traversal of level 3 begins, and an
\* activation nested in it goes from its test straight to the body.
LEMMA TraversalKeepsSafety ==
    ASSUME SafetyInv, TypeInv', NEW t \in Threads,
           \/ TestStarted(t) \/ GetFlag(t) \/ GetForce(t) \/ ReadLists(t)
           \/ GetRebuild(t) \/ LookUp(t) \/ Find(t) \/ Insert(t)
           \/ SetStarted(t) \/ InitClass(t) \/ EndTraversal(t)
    PROVE  RebuildInv' /\ DumpInv'
<1> USE DEF Pcs, ReadingPcs, WriteFilePcs, TraversalPcs
<1>0. TypeInv /\ RebuildInv /\ DumpInv
  BY DEF SafetyInv
<1>a. ASSUME stack[t] # <<>> PROVE Top(t) \in Frame
  <2>1. Top(t) \in OpenFrame
    BY <1>0, <1>a, TopIsLast DEF TypeInv
  <2> QED BY <2>1 DEF OpenFrame
<1>1. CASE TestStarted(t)
  <2> DEFINE to == IF started THEN "body" ELSE "check_flag"
             f == [Top(t) EXCEPT !.pc = to]
  <2>1. /\ stack[t] # <<>> /\ SetTop(t, f)
        /\ started' = started /\ dex_num' = dex_num /\ disk' = disk /\ restarts' = restarts
    BY <1>1 DEF TestStarted, Branch, At, Goto, globals, environment
  <2>2. f.pc = to
    BY <1>0, <2>1, GotoFields
  <2> HIDE DEF f
  <2>3. f \in OpenFrame
    BY <1>0, <2>1, NewTopIsTyped
  <2>4. InRebuild(t) => f.pc = "body"
    BY <1>0, <2>1, <2>2, InRebuildIsIdle
  <2>5. RebuildInv'
    BY <1>0, <2>1, <2>2, <2>3, <2>4, SetTopKeepsRebuild
  <2>6. DumpInv'
    BY <1>0, <2>1, <2>2, <2>3, SetTopKeepsDumps
  <2> QED BY <2>5, <2>6
<1>2. CASE GetFlag(t)
  BY <1>2, BranchIsQuiet DEF GetFlag
<1>3. CASE GetForce(t)
  <2> DEFINE to == IF filter.force THEN "get_lists" ELSE "lookup"
             f == [Top(t) EXCEPT !.level = 1, !.pc = to]
  <2>1. /\ stack[t] # <<>> /\ Top(t).pc = "get_force" /\ SetTop(t, f)
        /\ started' = started /\ dex_num' = dex_num /\ disk' = disk /\ restarts' = restarts
    BY <1>3 DEF GetForce, At, globals, environment
  <2>2. to \in {"get_lists", "lookup"}
    OBVIOUS
  <2> HIDE DEF to
  <2>3. f.pc = to
    BY <1>a, <2>1 DEF Frame
  <2> HIDE DEF f
  <2>4. f \in OpenFrame
    BY <1>0, <2>1, NewTopIsTyped
  <2> QED BY <2>1, <2>2, <2>3, <2>4, QuietStep
<1>4. CASE ReadLists(t)
  BY <1>4, QuietJump DEF ReadLists, At, globals, environment
<1>5. CASE GetRebuild(t)
  <2> DEFINE l == IF filter.rebuild THEN 3 ELSE 2
             f == [Top(t) EXCEPT !.pc = "lookup", !.level = l]
  <2>1. /\ stack[t] # <<>> /\ Top(t).pc = "get_rebuild" /\ SetTop(t, f)
        /\ started' = started /\ dex_num' = dex_num /\ disk' = disk /\ restarts' = restarts
    BY <1>5 DEF GetRebuild, At, globals, environment
  <2> HIDE DEF l
  <2>2. f.pc = "lookup"
    BY <1>a, <2>1 DEF Frame
  <2> HIDE DEF f
  <2>3. f \in OpenFrame
    BY <1>0, <2>1, NewTopIsTyped
  <2> QED BY <2>1, <2>2, <2>3, QuietStep
<1>6. CASE LookUp(t)
  <2> PICK entry \in BOOLEAN :
         Branch(t, "lookup", Wanted(Top(t), filter.name, entry), "find", "body")
    BY <1>6 DEF LookUp
  <2> QED BY BranchIsQuiet
<1>7. CASE Find(t)
  BY <1>7, BranchIsQuiet DEF Find
<1>8. CASE Insert(t)
  <2> DEFINE f == AfterInsert(Top(t))
  <2>1. /\ stack[t] # <<>> /\ Top(t).pc = "insert" /\ SetTop(t, f)
        /\ started' = started /\ dex_num' = dex_num /\ disk' = disk /\ restarts' = restarts
    BY <1>8 DEF Insert, At, environment
  <2>2. /\ f.level = Top(t).level
        /\ f.pc = CASE Top(t).level = 1 -> "number"
                    [] Top(t).level = 2 -> "traverse"
                    [] Top(t).level = 3 -> "set_started"
    BY <1>a, <2>1 DEF Frame, AfterInsert
  <2>3. Top(t).level \in {1, 2, 3}
    BY <1>a, <2>1 DEF Frame, Levels
  <2>4. f.pc \in {"number", "traverse", "set_started"} /\ (f.level = 3 => f.pc = "set_started")
    BY <2>2, <2>3
  <2> HIDE DEF f
  <2>5. f \in OpenFrame
    BY <1>0, <2>1, NewTopIsTyped
  <2> QED BY <2>1, <2>4, <2>5, QuietStep
<1>9. CASE SetStarted(t)
  <2> DEFINE f == [Top(t) EXCEPT !.pc = "traverse"]
  <2>1. /\ stack[t] # <<>> /\ Top(t).pc = "set_started" /\ SetTop(t, f)
        /\ started' = TRUE /\ dex_num' = dex_num /\ disk' = disk /\ restarts' = restarts
    BY <1>9 DEF SetStarted, At, Goto, environment
  <2>2. f.pc = "traverse"
    BY <1>0, <2>1, GotoFields
  <2> HIDE DEF f
  <2>3. f \in OpenFrame
    BY <1>0, <2>1, NewTopIsTyped
  <2> QED BY <2>1, <2>2, <2>3, QuietStep
<1>10. CASE EndTraversal(t)
  <2> DEFINE c == IF Top(t).level = 3 THEN code[Top(t).dex] ELSE Top(t).image
             f == [Top(t) EXCEPT !.pc = "number", !.image = c]
  <2>1. /\ stack[t] # <<>> /\ Top(t).pc = "traverse" /\ SetTop(t, f)
        /\ started' = started /\ dex_num' = dex_num /\ disk' = disk /\ restarts' = restarts
    BY <1>10 DEF EndTraversal, At, globals, environment
  <2> HIDE DEF c
  <2>2. f.pc = "number"
    BY <1>a, <2>1 DEF Frame
  <2> HIDE DEF f
  <2>3. f \in OpenFrame
    BY <1>0, <2>1, NewTopIsTyped
  <2> QED BY <2>1, <2>2, <2>3, QuietStep
<1>11. CASE InitClass(t)
  <2> DEFINE f == [Top(t) EXCEPT !.pc = "traverse"]
             g == [Top(t) EXCEPT !.pc = "traverse", !.inited = @ \cup {Top(t).todo}]
  <2>1. /\ stack[t] # <<>> /\ Top(t).pc = "init" /\ (SetTop(t, f) \/ SetTop(t, g))
        /\ started' = started /\ dex_num' = dex_num /\ disk' = disk /\ restarts' = restarts
    BY <1>11 DEF InitClass, At, Goto, globals
  <2>2. /\ f.pc = "traverse" /\ f.level = Top(t).level
        /\ g.pc = "traverse" /\ g.level = Top(t).level
    BY <1>a, <2>1 DEF Frame
  <2>3. Top(t).level = 3 => started
    <3>1. Len(stack[t]) \in Activations(t)
      BY <1>0, <2>1, TopIsLast DEF TypeInv, Activations
    <3> QED BY <1>0, <2>1, <3>1 DEF RebuildInv, RebuildHasStarted, Top
  <2> HIDE DEF f, g
  <2>4. PICK h : SetTop(t, h) /\ h.pc = "traverse" /\ h.level = Top(t).level
    BY <2>1, <2>2
  <2>5. h \in OpenFrame
    BY <1>0, <2>1, <2>4, NewTopIsTyped
  <2> QED BY <2>1, <2>3, <2>4, <2>5, QuietStep
<1> QED BY <1>1, <1>2, <1>3, <1>4, <1>5, <1>6, <1>7, <1>8, <1>9, <1>10, <1>11

\* The name of the dump file of an activation has the type of one.
LEMMA FrameNameType ==
    ASSUME NEW f \in Frame
    PROVE  DumpName(f) \in Nums \X Sizes
<1>1. <<f.dex, f.level>> \in Dexes \X Levels /\ f.num \in Nums
  BY DEF Frame
<1>2. \A x \in Dexes \X Levels : ImageSize[x] \in Sizes
  BY DEF Sizes
<1>3. ImageSize[<<f.dex, f.level>>] \in Sizes
  BY <1>1, <1>2
<1> QED BY <1>1, <1>3 DEF DumpName

\* The name of the dump file that an activation writes is in disk's domain.
LEMMA DumpNameType ==
    ASSUME TypeInv, NEW u \in Threads, NEW i \in Activations(u)
    PROVE  /\ stack[u][i] \in Frame
           /\ DumpName(stack[u][i]) \in DOMAIN disk
<1>1. stack[u][i] \in Frame
  BY DEF TypeInv, TypeOK, Activations
<1> QED BY <1>1, FrameNameType DEF TypeInv, TypeOK

\* A step of an activation inside write_file, which keeps its number, keeps the
\* invariant of the dump files if it touches only its own file, as its number
\* and its next place allow.
LEMMA WriterKeepsDumps ==
    ASSUME TypeInv, DumpInv, NEW t \in Threads, stack[t] # <<>>,
           Top(t).pc \in WriteFilePcs, NEW f \in OpenFrame, SetTop(t, f),
           f.num = Top(t).num, dex_num' = dex_num, restarts' = restarts,
           DOMAIN disk' = DOMAIN disk,
           \A k \in DOMAIN disk : k # DumpName(Top(t)) => disk'[k] = disk[k],
           disk'[DumpName(Top(t))] = disk[DumpName(Top(t))]
              \/ disk'[DumpName(Top(t))].run = restarts,
           DumpName(f) = DumpName(Top(t)), FileFits(f, disk'[DumpName(f)], restarts)
    PROVE  DumpInv'
<1> DEFINE n == Len(stack[t])
           name == DumpName(Top(t))
<1>0. /\ n \in Activations(t) /\ n \in Nat \ {0}
      /\ stack[t][n] = Top(t)
  BY TopIsLast DEF TypeInv, Activations, Top
<1>4. /\ \A u \in Threads \ {t} : stack'[u] = stack[u]
      /\ Len(stack'[t]) = n
      /\ stack'[t][n] = f
      /\ \A i \in 1 .. n : i # n => stack'[t][i] = stack[t][i]
  <2>1. stack \in [Threads -> Seq(OpenFrame)] /\ f \in OpenFrame /\ SetTop(t, f)
    BY DEF TypeInv
  <2> QED BY <2>1, SetTopEffect
<1>5. \A u \in Threads : Activations(u)' = Activations(u)
  BY <1>4 DEF Activations
<1>6. \A u \in Threads : \A i \in Activations(u) :
         <<u, i>> # <<t, n>> => stack'[u][i] = stack[u][i]
  BY <1>4 DEF Activations
<1> HIDE DEF n
<1>7. \A u \in Threads : \A i \in Activations(u) :
         <<u, i>> # <<t, n>> /\ stack[u][i].pc \in WriteFilePcs =>
             disk'[DumpName(stack[u][i])] = disk[DumpName(stack[u][i])]
  <2> SUFFICES ASSUME NEW u \in Threads, NEW i \in Activations(u),
                      <<u, i>> # <<t, n>>, stack[u][i].pc \in WriteFilePcs
               PROVE  disk'[DumpName(stack[u][i])] = disk[DumpName(stack[u][i])]
    OBVIOUS
  <2>1. stack[u][i].num # Top(t).num
    BY <1>0 DEF DumpInv, NumbersDiffer
  <2>2. DumpName(stack[u][i]) # DumpName(Top(t))
    BY <2>1 DEF DumpName
  <2> QED BY <2>2, DumpNameType
<1>a. \A u \in Threads : \A i \in Activations(u) :
         stack'[u][i].pc \in WriteFilePcs =>
             /\ stack[u][i].pc \in WriteFilePcs
             /\ stack'[u][i].num = stack[u][i].num
  <2> SUFFICES ASSUME NEW u \in Threads, NEW i \in Activations(u),
                      stack'[u][i].pc \in WriteFilePcs
               PROVE  /\ stack[u][i].pc \in WriteFilePcs
                      /\ stack'[u][i].num = stack[u][i].num
    OBVIOUS
  <2>1. CASE <<u, i>> = <<t, n>>
    BY <1>0, <1>4, <2>1
  <2>2. CASE <<u, i>> # <<t, n>>
    BY <1>6, <2>2
  <2> QED BY <2>1, <2>2
<1>8. NumbersAreTaken'
  BY <1>5, <1>a DEF DumpInv, NumbersAreTaken
<1>9. NumbersDiffer'
  BY <1>5, <1>a DEF DumpInv, NumbersDiffer
<1>10. name[1] < dex_num
  <2>1. name[1] = Top(t).num
    BY DEF DumpName
  <2> QED BY <1>0, <2>1 DEF DumpInv, NumbersAreTaken
<1>11. restarts \in Nat
  BY UnpackAssumption DEF TypeInv, TypeOK
<1> HIDE DEF name
<1>12. RunsPast' /\ OwnFilesAreTaken'
  <2> SUFFICES ASSUME NEW k \in DOMAIN disk, disk'[k] # Absent
               PROVE  /\ disk'[k].run <= restarts
                      /\ disk'[k].run = restarts => k[1] < dex_num
    BY DEF RunsPast, OwnFilesAreTaken
  <2>1. CASE disk'[k] = disk[k]
    BY <2>1 DEF DumpInv, RunsPast, OwnFilesAreTaken
  <2>2. CASE disk'[k] # disk[k]
    <3>1. k = name /\ disk'[k].run = restarts
      BY <2>2 DEF name
    <3> QED BY <1>10, <1>11, <3>1
  <2> QED BY <2>1, <2>2
<1>13. FilesFit'
  <2> SUFFICES ASSUME NEW u \in Threads, NEW i \in Activations(u)
               PROVE  FileFits(stack'[u][i], disk'[DumpName(stack'[u][i])], restarts)
    BY <1>5 DEF FilesFit, DumpName
  <2>1. CASE <<u, i>> = <<t, n>>
    BY <1>4, <2>1
  <2>2. CASE <<u, i>> # <<t, n>> /\ stack[u][i].pc \in WriteFilePcs
    <3>1. stack'[u][i] = stack[u][i]
      BY <1>6, <2>2
    <3>2. FileFits(stack[u][i], disk[DumpName(stack[u][i])], restarts)
      BY DEF DumpInv, FilesFit
    <3>3. disk'[DumpName(stack[u][i])] = disk[DumpName(stack[u][i])]
      BY <1>7, <2>2
    <3> QED BY <3>1, <3>2, <3>3
  <2>3. CASE <<u, i>> # <<t, n>> /\ stack[u][i].pc \notin WriteFilePcs
    <3>1. stack'[u][i] = stack[u][i]
      BY <1>6, <2>3
    <3> QED BY <2>3, <3>1 DEF FileFits, WriteFilePcs
  <2> QED BY <2>1, <2>2, <2>3
<1> QED BY <1>8, <1>9, <1>12, <1>13 DEF DumpInv

\* A step of an activation inside write_file keeps level 3 from recursion.
LEMMA WriterKeepsRebuild ==
    ASSUME SafetyInv, NEW t \in Threads, stack[t] # <<>>,
           Top(t).pc \in WriteFilePcs, NEW f \in OpenFrame, SetTop(t, f),
           f.pc \in {"create", "write", "body"}, started' = started
    PROVE  RebuildInv'
<1>1. TypeInv /\ RebuildInv
  BY DEF SafetyInv
<1>2. ~InRebuild(t)
  BY <1>1, InRebuildIsIdle DEF WriteFilePcs
<1> QED BY <1>1, <1>2, SetTopKeepsRebuild DEF TraversalPcs

\* The steps of write_file keep both invariants: a number is taken from dex_num
\* once, and a file is written by the activation that found it absent.
LEMMA WriteFileKeepsSafety ==
    ASSUME SafetyInv, TypeInv', NEW t \in Threads,
           TakeNumber(t) \/ Probe(t) \/ CreateDump(t) \/ WriteDump(t)
    PROVE  RebuildInv' /\ DumpInv'
<1>0. TypeInv /\ RebuildInv /\ DumpInv
  BY DEF SafetyInv
<1>a. ASSUME stack[t] # <<>>
      PROVE  DumpName(Top(t)) \in DOMAIN disk /\ Top(t) \in Frame
  <2>1. Len(stack[t]) \in Activations(t)
    BY <1>0, <1>a, TopIsLast DEF TypeInv, Activations
  <2> QED BY <1>0, <2>1, DumpNameType DEF Top
<1>1. CASE TakeNumber(t)
  <2> DEFINE f == [Top(t) EXCEPT !.pc = "probe", !.num = dex_num]
             n == Len(stack[t])
  <2>1. /\ stack[t] # <<>> /\ Top(t).pc = "number" /\ SetTop(t, f)
        /\ started' = started /\ dex_num' = dex_num + 1 /\ disk' = disk
        /\ restarts' = restarts
    BY <1>1 DEF TakeNumber, At, environment
  <2>2. f.pc = "probe" /\ f.num = dex_num
    BY <1>a, <2>1 DEF Frame
  <2> HIDE DEF f
  <2>3. f \in OpenFrame
    BY <1>0, <2>1, NewTopIsTyped
  <2>4. RebuildInv'
    <3>1. ~InRebuild(t)
      BY <1>0, <2>1, InRebuildIsIdle
    <3> QED BY <1>0, <2>1, <2>2, <2>3, <3>1, SetTopKeepsRebuild DEF TraversalPcs
  <2>5. /\ \A u \in Threads \ {t} : stack'[u] = stack[u]
        /\ Len(stack'[t]) = n
        /\ stack'[t][n] = f
        /\ \A i \in 1 .. n : i # n => stack'[t][i] = stack[t][i]
    BY <1>0, <2>1, <2>3, SetTopEffect DEF TypeInv
  <2>6. \A u \in Threads : Activations(u)' = Activations(u)
    BY <2>5 DEF Activations
  <2>7. \A u \in Threads : \A i \in Activations(u) :
           <<u, i>> # <<t, n>> => stack'[u][i] = stack[u][i]
    BY <2>5 DEF Activations
  <2> HIDE DEF n
  <2>8. dex_num \in Nat
    BY <1>0 DEF TypeInv, TypeOK, Nums
  <2>9. \A u \in Threads : \A i \in Activations(u) :
           stack'[u][i].pc \in WriteFilePcs =>
               \/ <<u, i>> = <<t, n>> /\ stack'[u][i].num = dex_num
               \/ /\ <<u, i>> # <<t, n>>
                  /\ stack'[u][i] = stack[u][i]
                  /\ stack[u][i].num < dex_num
                  /\ stack[u][i].num \in Nat
    <3> SUFFICES ASSUME NEW u \in Threads, NEW i \in Activations(u),
                        stack'[u][i].pc \in WriteFilePcs
                 PROVE  \/ <<u, i>> = <<t, n>> /\ stack'[u][i].num = dex_num
                        \/ /\ <<u, i>> # <<t, n>>
                           /\ stack'[u][i] = stack[u][i]
                           /\ stack[u][i].num < dex_num
                           /\ stack[u][i].num \in Nat
      OBVIOUS
    <3>1. CASE <<u, i>> = <<t, n>>
      BY <2>2, <2>5, <3>1
    <3>2. CASE <<u, i>> # <<t, n>>
      <4>1. stack'[u][i] = stack[u][i]
        BY <2>7, <3>2
      <4>2. stack[u][i].num < dex_num
        BY <1>0, <4>1 DEF DumpInv, NumbersAreTaken
      <4>3. stack[u][i].num \in Nat
        BY <1>0, DumpNameType DEF Frame, Nums
      <4> QED BY <3>2, <4>1, <4>2, <4>3
    <3> QED BY <3>1, <3>2
  <2>10. NumbersAreTaken'
    BY <2>1, <2>6, <2>8, <2>9 DEF NumbersAreTaken
  <2>11. NumbersDiffer'
    <3> SUFFICES ASSUME NEW u \in Threads, NEW v \in Threads,
                        NEW i \in Activations(u), NEW j \in Activations(v),
                        stack'[u][i].pc \in WriteFilePcs,
                        stack'[v][j].pc \in WriteFilePcs,
                        stack'[u][i].num = stack'[v][j].num
                 PROVE  u = v /\ i = j
      BY <2>6 DEF NumbersDiffer
    <3>1. CASE <<u, i>> = <<t, n>>
      BY <2>8, <2>9, <3>1
    <3>2. CASE <<v, j>> = <<t, n>>
      BY <2>8, <2>9, <3>2
    <3>3. CASE <<u, i>> # <<t, n>> /\ <<v, j>> # <<t, n>>
      BY <1>0, <2>9, <3>3 DEF DumpInv, NumbersDiffer
    <3> QED BY <3>1, <3>2, <3>3
  <2>12. RunsPast' /\ OwnFilesAreTaken'
    <3>1. RunsPast'
      BY <1>0, <2>1 DEF DumpInv, RunsPast
    <3>2. \A k \in DOMAIN disk : k[1] \in Nat
      BY <1>0 DEF TypeInv, TypeOK, Nums
    <3>3. OwnFilesAreTaken'
      BY <1>0, <2>1, <2>8, <3>2 DEF DumpInv, OwnFilesAreTaken
    <3> QED BY <3>1, <3>3
  <2>13. FilesFit'
    <3> SUFFICES ASSUME NEW u \in Threads, NEW i \in Activations(u)
                 PROVE  FileFits(stack'[u][i], disk[DumpName(stack'[u][i])], restarts)
      BY <2>1, <2>6 DEF FilesFit, DumpName
    <3>1. CASE <<u, i>> = <<t, n>>
      <4>1. stack'[u][i] = f
        BY <2>5, <3>1
      <4>2. DumpName(f)[1] = dex_num /\ DumpName(f) \in DOMAIN disk
        <5>1. f \in Frame
          BY <2>3 DEF OpenFrame
        <5>2. DumpName(f) \in Nums \X Sizes
          BY <5>1, FrameNameType
        <5> QED BY <1>0, <2>2, <5>2 DEF DumpName, TypeInv, TypeOK
      <4>3. ~(dex_num < dex_num)
        BY <2>8
      <4>4. disk[DumpName(f)] = Absent \/ disk[DumpName(f)].run # restarts
        BY <1>0, <4>2, <4>3 DEF DumpInv, OwnFilesAreTaken
      <4> QED BY <2>2, <4>1, <4>4 DEF FileFits
    <3>2. CASE <<u, i>> # <<t, n>>
      <4>1. stack'[u][i] = stack[u][i]
        BY <2>7, <3>2
      <4>2. FileFits(stack[u][i], disk[DumpName(stack[u][i])], restarts)
        BY <1>0 DEF DumpInv, FilesFit
      <4> QED BY <4>1, <4>2
    <3> QED BY <3>1, <3>2
  <2> QED BY <2>4, <2>10, <2>11, <2>12, <2>13 DEF DumpInv
<1>b. ASSUME stack[t] # <<>> PROVE FileFits(Top(t), disk[DumpName(Top(t))], restarts)
  <2>1. Len(stack[t]) \in Activations(t)
    BY <1>0, <1>b, TopIsLast DEF TypeInv, Activations
  <2> QED BY <1>0, <2>1 DEF DumpInv, FilesFit, Top
<1>c. ASSUME stack[t] # <<>>, Top(t).pc \in WriteFilePcs, NEW f, SetTop(t, f),
             f.pc \in {"create", "write", "body"}, f.num = Top(t).num,
             started' = started, dex_num' = dex_num, restarts' = restarts,
             NEW v, disk' = [disk EXCEPT ![DumpName(Top(t))] = v],
             v = disk[DumpName(Top(t))] \/ v.run = restarts,
             DumpName(f) = DumpName(Top(t)), FileFits(f, v, restarts)
      PROVE  RebuildInv' /\ DumpInv'
  <2>1. f \in OpenFrame
    BY <1>0, <1>c, NewTopIsTyped
  <2>2. RebuildInv'
    BY <1>c, <2>1, WriterKeepsRebuild
  <2>3. DumpName(Top(t)) \in DOMAIN disk
    BY <1>a, <1>c
  <2>4. /\ DOMAIN disk' = DOMAIN disk
        /\ \A k \in DOMAIN disk : k # DumpName(Top(t)) => disk'[k] = disk[k]
        /\ disk'[DumpName(Top(t))] = v
    BY <1>c, <2>3
  <2>5. DumpInv'
    BY <1>0, <1>c, <2>1, <2>4, WriterKeepsDumps
  <2> QED BY <2>2, <2>5
<1>d. ASSUME stack[t] # <<>>, NEW pc
      PROVE  /\ [Top(t) EXCEPT !.pc = pc].pc = pc
             /\ [Top(t) EXCEPT !.pc = pc].num = Top(t).num
             /\ [Top(t) EXCEPT !.pc = pc].missed = Top(t).missed
             /\ DumpName([Top(t) EXCEPT !.pc = pc]) = DumpName(Top(t))
  BY <1>a, <1>d DEF Frame, DumpName
<1>e. disk = [disk EXCEPT ![DumpName(Top(t))] = disk[DumpName(Top(t))]]
  BY <1>0 DEF TypeInv, TypeOK
<1>2. CASE Probe(t)
  <2> DEFINE k == DumpName(Top(t))
             g == [Top(t) EXCEPT !.pc = "body"]
             h == [Top(t) EXCEPT !.pc = "create"]
             m == [Top(t) EXCEPT !.pc = "create", !.missed = TRUE]
  <2>1. /\ stack[t] # <<>> /\ Top(t).pc = "probe" /\ Top(t).pc \in WriteFilePcs
        /\ started' = started /\ dex_num' = dex_num /\ disk' = disk /\ restarts' = restarts
        /\ \/ SetTop(t, g)
           \/ disk[k] = Absent /\ SetTop(t, h)
           \/ disk[k] # Absent /\ SetTop(t, m)
    BY <1>2 DEF Probe, At, Goto, globals, environment, WriteFilePcs
  <2>2. disk[k] = Absent \/ disk[k].run # restarts
    BY <1>b, <2>1 DEF FileFits
  <2>3. /\ g.pc = "body" /\ g.num = Top(t).num /\ DumpName(g) = k
        /\ h.pc = "create" /\ h.num = Top(t).num /\ DumpName(h) = k
    BY <1>d, <2>1
  <2>4. m.pc = "create" /\ m.num = Top(t).num /\ m.missed = TRUE /\ DumpName(m) = k
    BY <1>a, <2>1 DEF Frame, DumpName
  <2> HIDE DEF k, g, h, m
  <2>9. PICK f : /\ SetTop(t, f) /\ f.num = Top(t).num /\ FileFits(f, disk[k], restarts)
                 /\ f.pc \in {"create", "write", "body"} /\ DumpName(f) = k
    <3>1. CASE SetTop(t, g)
      BY <2>3, <3>1 DEF FileFits
    <3>2. CASE disk[k] = Absent /\ SetTop(t, h)
      BY <2>3, <3>2 DEF FileFits
    <3>3. CASE disk[k] # Absent /\ SetTop(t, m)
      BY <2>2, <2>4, <3>3 DEF FileFits
    <3> QED BY <2>1, <3>1, <3>2, <3>3
  <2>10. disk' = [disk EXCEPT ![k] = disk[k]]
    BY <1>e, <2>1 DEF k
  <2> QED BY <1>c, <2>1, <2>9, <2>10 DEF k
<1>3. CASE CreateDump(t)
  <2> DEFINE k == DumpName(Top(t))
             g == [Top(t) EXCEPT !.pc = "body"]
             h == [Top(t) EXCEPT !.pc = "write"]
             new == Contents(Top(t), "empty")
  <2>1. /\ stack[t] # <<>> /\ Top(t).pc = "create" /\ Top(t).pc \in WriteFilePcs
        /\ started' = started /\ dex_num' = dex_num /\ restarts' = restarts
        /\ \/ SetTop(t, h) /\ disk[k] = Absent /\ disk' = [disk EXCEPT ![k] = new]
           \/ SetTop(t, h) /\ disk[k] # Absent /\ disk' = disk
           \/ SetTop(t, g) /\ disk' = disk
    BY <1>3 DEF CreateDump, At, Goto, globals, environment, WriteFilePcs
  <2>2. disk[k] = Absent \/ (Top(t).missed /\ disk[k].run # restarts)
    BY <1>b, <2>1 DEF FileFits
  <2>3. /\ g.pc = "body" /\ g.num = Top(t).num /\ DumpName(g) = k
        /\ h.pc = "write" /\ h.num = Top(t).num /\ DumpName(h) = k /\ h.missed = Top(t).missed
    BY <1>d, <2>1
  <2>4. new.data # "full" /\ new.run = restarts
    BY DEF Contents
  <2>5. disk' = disk => disk' = [disk EXCEPT ![k] = disk[k]]
    BY <1>e
  <2> HIDE DEF k, g, h, new
  <2>6. CASE SetTop(t, h) /\ disk' = [disk EXCEPT ![k] = new]
    <3>1. FileFits(h, new, restarts)
      BY <2>3, <2>4 DEF FileFits
    <3> QED BY <1>c, <2>1, <2>3, <2>4, <2>6, <3>1 DEF k
  <2>7. CASE SetTop(t, h) /\ disk[k] # Absent /\ disk' = disk
    <3>1. FileFits(h, disk[k], restarts)
      BY <2>2, <2>3, <2>7 DEF FileFits
    <3> QED BY <1>c, <2>1, <2>3, <2>5, <2>7, <3>1 DEF k
  <2>8. CASE SetTop(t, g) /\ disk' = disk
    <3>1. FileFits(g, disk[k], restarts)
      BY <2>3 DEF FileFits
    <3> QED BY <1>c, <2>1, <2>3, <2>5, <2>8, <3>1 DEF k
  <2> QED BY <2>1, <2>6, <2>7, <2>8
<1>4. CASE WriteDump(t)
  <2> DEFINE k == DumpName(Top(t))
             g == [Top(t) EXCEPT !.pc = "body"]
  <2>1. /\ stack[t] # <<>> /\ Top(t).pc = "write" /\ Top(t).pc \in WriteFilePcs
        /\ SetTop(t, g)
        /\ started' = started /\ dex_num' = dex_num /\ restarts' = restarts
        /\ \/ \E data : disk' = [disk EXCEPT ![k] = Contents(Top(t), data)]
           \/ disk' = disk
    BY <1>4 DEF WriteDump, At, Goto, globals, environment, WriteFilePcs
  <2>2. g.pc = "body" /\ g.num = Top(t).num /\ DumpName(g) = k
    BY <1>d, <2>1
  <2>3. \A data : Contents(Top(t), data).run = restarts
    BY DEF Contents
  <2>4. disk' = disk => disk' = [disk EXCEPT ![k] = disk[k]]
    BY <1>e
  <2> HIDE DEF g, k
  <2>5. PICK v : /\ disk' = [disk EXCEPT ![k] = v]
                 /\ v = disk[k] \/ v.run = restarts
    BY <2>1, <2>3, <2>4
  <2>6. FileFits(g, v, restarts)
    BY <2>2 DEF FileFits
  <2> QED BY <1>c, <2>1, <2>2, <2>5, <2>6 DEF k
<1> QED BY <1>1, <1>2, <1>3, <1>4

\* A class that a traversal visits may call a method: the new activation starts
\* at the test of `started', on top of the traversal.
LEMMA VisitClassKeepsSafety ==
    ASSUME SafetyInv, NEW t \in Threads, VisitClass(t)
    PROVE  RebuildInv' /\ DumpInv'
<1> DEFINE n == Len(stack[t])
           next == IF Top(t).level = 3 THEN "init" ELSE "traverse"
           g(to) == [Top(t) EXCEPT !.todo = @ - 1, !.pc = to]
           visit(to) == [stack[t] EXCEPT ![Len(stack[t])] = g(to)]
<1>0. TypeInv /\ RebuildInv /\ DumpInv
  BY DEF SafetyInv
<1>1. /\ stack[t] # <<>> /\ Top(t).pc = "traverse" /\ Top(t).todo > 0
      /\ started' = started /\ dex_num' = dex_num /\ disk' = disk /\ restarts' = restarts
      /\ \/ \E to \in {"traverse", next} : stack' = [stack EXCEPT ![t] = visit(to)]
         \/ \E d \in Dexes : stack' = [stack EXCEPT ![t] = Append(visit(next), NewFrame(d))]
  BY DEF VisitClass, At, globals
<1>2. /\ n \in Nat \ {0} /\ n \in Activations(t) /\ stack[t] \in Seq(OpenFrame)
      /\ Top(t) \in OpenFrame /\ Top(t) \in Frame /\ Top(t) = stack[t][n]
      /\ stack \in [Threads -> Seq(OpenFrame)]
  <2>1. Top(t) \in OpenFrame
    BY <1>0, <1>1, TopIsLast DEF TypeInv
  <2> QED BY <1>0, <1>1, <2>1, TopIsLast DEF TypeInv, Activations, OpenFrame, Top
<1>b. next \in {"traverse", "init"}
  OBVIOUS
<1>c. \A to \in {"traverse", "init"} :
         g(to) \in OpenFrame /\ g(to).pc = to /\ g(to).level = Top(t).level
  <2>1. Top(t).todo - 1 \in 0 .. NumClassDefs /\ Top(t).todo - 1 \in Classes
    BY <1>1, <1>2, UnpackAssumption DEF Frame, Classes
  <2> TAKE to \in {"traverse", "init"}
  <2>2. g(to) \in Frame /\ g(to).pc = to /\ g(to).level = Top(t).level
        /\ g(to).todo = Top(t).todo - 1
    BY <1>2, <2>1 DEF Frame, Pcs
  <2> HIDE DEF g
  <2> QED BY <2>1, <2>2 DEF OpenFrame, ReadingPcs
<1> HIDE DEF next, g
<1>d. PICK f \in OpenFrame :
         /\ f.pc \in TraversalPcs /\ f.level = Top(t).level
         /\ LET s == [stack[t] EXCEPT ![n] = f]
            IN  \/ stack' = [stack EXCEPT ![t] = s]
                \/ \E d \in Dexes : stack' = [stack EXCEPT ![t] = Append(s, NewFrame(d))]
  <2>1. CASE \E to \in {"traverse", next} : stack' = [stack EXCEPT ![t] = visit(to)]
    BY <1>b, <1>c, <2>1 DEF TraversalPcs
  <2>2. CASE \E d \in Dexes : stack' = [stack EXCEPT ![t] = Append(visit(next), NewFrame(d))]
    BY <1>b, <1>c, <2>2 DEF TraversalPcs
  <2> QED BY <1>1, <2>1, <2>2
<1> DEFINE s == [stack[t] EXCEPT ![n] = f]
<1>3. f \in OpenFrame /\ f.pc \in TraversalPcs /\ f.level = Top(t).level
  BY <1>d
<1>4. s = [stack[t] EXCEPT ![n] = f]
  OBVIOUS
<1>5. Top(t).level = 3 => started
  BY <1>0, <1>1, <1>2 DEF RebuildInv, RebuildHasStarted, TraversalPcs
<1>e. \/ stack' = [stack EXCEPT ![t] = s]
      \/ \E d \in Dexes : stack' = [stack EXCEPT ![t] = Append(s, NewFrame(d))]
  BY <1>d
<1> HIDE DEF s
<1>6. CASE stack' = [stack EXCEPT ![t] = s]
  <2>1. SetTop(t, f)
    BY <1>4, <1>6 DEF SetTop
  <2> QED BY <1>1, <1>3, <1>5, <2>1, QuietStep DEF WriteFilePcs, TraversalPcs
<1>7. ASSUME NEW d \in Dexes, stack' = [stack EXCEPT ![t] = Append(s, NewFrame(d))]
      PROVE  RebuildInv' /\ DumpInv'
  <2>1. /\ s \in Seq(OpenFrame) /\ Len(s) = n /\ s[n] = f
        /\ \A i \in 1 .. n : i # n => s[i] = stack[t][i]
    BY <1>2, <1>3, <1>4
  <2> DEFINE q == Append(s, NewFrame(d))
  <2>2. /\ Len(q) = n + 1 /\ q[n + 1] = NewFrame(d) /\ q[n] = f
        /\ \A i \in 1 .. n : i # n => q[i] = stack[t][i]
    BY <1>2, <2>1
  <2>3. NewFrame(d).pc = "start"
    BY DEF NewFrame
  <2>4. stack'[t] = q /\ \A u \in Threads \ {t} : stack'[u] = stack[u]
    BY <1>2, <1>7
  <2> HIDE DEF q
  <2>5. \A u \in Threads \ {t} : Activations(u)' = Activations(u)
    BY <2>4 DEF Activations
  <2>6. Activations(t)' = 1 .. n + 1 /\ Activations(t) = 1 .. n
    BY <2>2, <2>4 DEF Activations
  <2>7. \A i \in 1 .. n + 1 :
           \/ i = n + 1 /\ stack'[t][i].pc = "start"
           \/ i = n /\ stack'[t][i] = f
           \/ i \in 1 .. n /\ i # n /\ stack'[t][i] = stack[t][i]
    BY <1>2, <2>2, <2>3, <2>4
  <2>8. Len(stack'[t]) = n + 1
    BY <2>2, <2>4
  <2> HIDE DEF n
  <2>9. OnlyTraversalsNest'
    <3> SUFFICES ASSUME NEW u \in Threads, NEW i \in Activations(u)',
                        i # Len(stack'[u])
                 PROVE  stack'[u][i].pc \in TraversalPcs
      BY DEF OnlyTraversalsNest
    <3>1. CASE u # t
      BY <1>0, <2>4, <2>5, <3>1 DEF RebuildInv, OnlyTraversalsNest
    <3>2. CASE u = t
      BY <1>0, <1>3, <2>6, <2>7, <2>8, <3>2 DEF RebuildInv, OnlyTraversalsNest, n
    <3> QED BY <3>1, <3>2
  <2>10. RebuildHasStarted'
    <3> SUFFICES ASSUME NEW u \in Threads, NEW i \in Activations(u)',
                        stack'[u][i].level = 3, stack'[u][i].pc \in TraversalPcs
                 PROVE  started
      BY <1>1 DEF RebuildHasStarted
    <3>1. CASE u # t
      BY <1>0, <2>4, <2>5, <3>1 DEF RebuildInv, RebuildHasStarted
    <3>2. CASE u = t
      BY <1>0, <1>3, <1>5, <2>6, <2>7, <3>2 DEF RebuildInv, RebuildHasStarted, TraversalPcs
    <3> QED BY <3>1, <3>2
  <2>11. RebuildIsNotRecursive'
    <3> SUFFICES ASSUME NEW u \in Threads, NEW i \in 1 .. Len(stack'[u]),
                        NEW j \in 1 .. Len(stack'[u]), i < j,
                        stack'[u][i].level = 3
                 PROVE  stack'[u][j].pc \in {"start", "body"}
      BY DEF RebuildIsNotRecursive
    <3>1. CASE u # t
      BY <1>0, <2>4, <3>1 DEF RebuildInv, RebuildIsNotRecursive
    <3>2. CASE u = t /\ j = n + 1
      BY <1>2, <2>7, <2>8, <3>2
    <3>3. CASE u = t /\ j # n + 1
      <4>1. i \in 1 .. n /\ i # n /\ j \in 1 .. n
        BY <1>2, <2>8, <3>3 DEF n
      <4>2. stack'[t][i] = stack[t][i]
        BY <1>2, <2>7, <4>1
      <4>3. InRebuild(t)
        BY <2>6, <3>3, <4>1, <4>2 DEF InRebuild, n
      <4> QED BY <1>0, <1>1, <4>3, InRebuildIsIdle
    <3> QED BY <3>1, <3>2, <3>3
  <2>12. DumpInv'
    <3>1. \A u \in Threads : \A i \in Activations(u)' :
             stack'[u][i].pc \in WriteFilePcs =>
                 i \in Activations(u) /\ stack'[u][i] = stack[u][i]
      <4> SUFFICES ASSUME NEW u \in Threads, NEW i \in Activations(u)',
                          stack'[u][i].pc \in WriteFilePcs
                   PROVE  i \in Activations(u) /\ stack'[u][i] = stack[u][i]
        OBVIOUS
      <4>1. CASE u # t
        BY <2>4, <2>5, <4>1
      <4>2. CASE u = t
        BY <1>3, <2>6, <2>7, <4>2 DEF WriteFilePcs, TraversalPcs
      <4> QED BY <4>1, <4>2
    <3> QED BY <1>0, <1>1, <3>1, NoNewWriterKeepsDumps
  <2> QED BY <2>9, <2>10, <2>11, <2>12 DEF RebuildInv
<1> QED BY <1>e, <1>6, <1>7

\* Returning from a method removes the running activation.
LEMMA RunBodyKeepsSafety ==
    ASSUME SafetyInv, NEW t \in Threads, RunBody(t)
    PROVE  RebuildInv' /\ DumpInv'
<1> DEFINE n == Len(stack[t])
           q == SubSeq(stack[t], 1, n - 1)
<1>0. TypeInv /\ RebuildInv /\ DumpInv
  BY DEF SafetyInv
<1>1. /\ stack[t] # <<>> /\ stack' = [stack EXCEPT ![t] = q]
      /\ started' = started /\ dex_num' = dex_num /\ disk' = disk /\ restarts' = restarts
  BY DEF RunBody, At, globals
<1>2. /\ n \in Nat \ {0} /\ stack[t] \in Seq(OpenFrame)
      /\ stack \in [Threads -> Seq(OpenFrame)]
  BY <1>0, <1>1, TopIsLast DEF TypeInv
<1>3. Len(q) = n - 1 /\ \A i \in 1 .. n - 1 : q[i] = stack[t][i]
  <2>1. \A i \in 1 .. n - 1 : stack[t][i] \in OpenFrame
    BY <1>2
  <2>2. /\ Len(q) = IF 1 <= n - 1 THEN n - 1 - 1 + 1 ELSE 0
        /\ \A i \in 1 .. n - 1 - 1 + 1 : q[i] = stack[t][1 + i - 1]
    BY <1>2, <2>1, SubSeqProperties
  <2>3. n \in Nat \ {0}
    BY <1>2
  <2> HIDE DEF q, n
  <2>4. Len(q) = n - 1
    BY <2>2, <2>3
  <2>5. ASSUME NEW i \in 1 .. n - 1 PROVE q[i] = stack[t][i]
    <3>1. i \in 1 .. n - 1 - 1 + 1 /\ 1 + i - 1 = i
      BY <2>3
    <3> QED BY <2>2, <3>1
  <2> QED BY <2>4, <2>5
<1> HIDE DEF q
<1>4. stack'[t] = q /\ \A u \in Threads \ {t} : stack'[u] = stack[u]
  BY <1>1, <1>2
<1>5. \A u \in Threads : \A i \in Activations(u)' :
         /\ i \in Activations(u) /\ stack'[u][i] = stack[u][i]
         /\ i # Len(stack'[u]) => i # Len(stack[u])
  <2> SUFFICES ASSUME NEW u \in Threads, NEW i \in Activations(u)'
               PROVE  /\ i \in Activations(u) /\ stack'[u][i] = stack[u][i]
                      /\ i # Len(stack'[u]) => i # Len(stack[u])
    OBVIOUS
  <2>1. CASE u # t
    BY <1>4, <2>1 DEF Activations
  <2>2. CASE u = t
    BY <1>2, <1>3, <1>4, <2>2 DEF Activations
  <2> QED BY <2>1, <2>2
<1>6. OnlyTraversalsNest'
  BY <1>0, <1>5 DEF RebuildInv, OnlyTraversalsNest
<1>7. RebuildHasStarted'
  BY <1>0, <1>1, <1>5 DEF RebuildInv, RebuildHasStarted
<1>8. RebuildIsNotRecursive'
  BY <1>0, <1>5 DEF RebuildInv, RebuildIsNotRecursive, Activations
<1>9. DumpInv'
  BY <1>0, <1>1, <1>5, NoNewWriterKeepsDumps
<1> QED BY <1>6, <1>7, <1>8, <1>9 DEF RebuildInv

\* A call from outside Invoke puts one activation on an empty stack.
LEMMA InvokeKeepsSafety ==
    ASSUME SafetyInv, NEW t \in Threads, Invoke(t)
    PROVE  RebuildInv' /\ DumpInv'
<1>0. TypeInv /\ RebuildInv /\ DumpInv
  BY DEF SafetyInv
<1>1. PICK d \in Dexes : stack' = [stack EXCEPT ![t] = <<NewFrame(d)>>]
  BY DEF Invoke
<1>2. started' = started /\ dex_num' = dex_num /\ disk' = disk /\ restarts' = restarts
  BY DEF Invoke, globals
<1>3. stack'[t] = <<NewFrame(d)>> /\ \A u \in Threads \ {t} : stack'[u] = stack[u]
  BY <1>0, <1>1 DEF TypeInv
<1>4. /\ Len(stack'[t]) = 1 /\ Activations(t)' = {1}
      /\ stack'[t][1].pc = "start"
  BY <1>3 DEF NewFrame, Activations
<1>5. \A u \in Threads \ {t} :
         Activations(u)' = Activations(u) /\ Len(stack'[u]) = Len(stack[u])
  BY <1>3 DEF Activations
<1>6. OnlyTraversalsNest'
  <2> SUFFICES ASSUME NEW u \in Threads, NEW i \in Activations(u)',
                      i # Len(stack'[u])
               PROVE  stack'[u][i].pc \in TraversalPcs
    BY DEF OnlyTraversalsNest
  <2>1. ASSUME u = t PROVE FALSE
    <3>1. i \in Activations(t)' /\ i # Len(stack'[t])
      BY <2>1
    <3> QED BY <1>4, <3>1
  <2> QED BY <1>0, <1>3, <1>5, <2>1 DEF RebuildInv, OnlyTraversalsNest
<1>7. RebuildHasStarted'
  BY <1>0, <1>2, <1>3, <1>4, <1>5 DEF RebuildInv, RebuildHasStarted, TraversalPcs
<1>8. RebuildIsNotRecursive'
  <2> SUFFICES ASSUME NEW u \in Threads, NEW i \in 1 .. Len(stack'[u]),
                      NEW j \in 1 .. Len(stack'[u]), i < j,
                      stack'[u][i].level = 3
               PROVE  stack'[u][j].pc \in {"start", "body"}
    BY DEF RebuildIsNotRecursive
  <2>1. CASE u # t
    BY <1>0, <1>3, <2>1 DEF RebuildInv, RebuildIsNotRecursive
  <2>2. CASE u = t
    BY <1>4, <2>2
  <2> QED BY <2>1, <2>2
<1>9. \A u \in Threads : \A i \in Activations(u)' :
         stack'[u][i].pc \in WriteFilePcs =>
             i \in Activations(u) /\ stack'[u][i] = stack[u][i]
  BY <1>3, <1>4, <1>5 DEF WriteFilePcs
<1>10. DumpInv'
  BY <1>0, <1>2, <1>9, NoNewWriterKeepsDumps
<1> QED BY <1>6, <1>7, <1>8, <1>10 DEF RebuildInv

\* After a restart no activation exists.
LEMMA RestartKeepsSafety ==
    ASSUME SafetyInv, Restart
    PROVE  RebuildInv' /\ DumpInv'
<1>1. \A t \in Threads : Activations(t)' = {} /\ 1 .. Len(stack'[t]) = {}
  BY DEF Restart, Activations
<1>2. RebuildInv'
  BY <1>1 DEF RebuildInv, OnlyTraversalsNest, RebuildHasStarted, RebuildIsNotRecursive
<1>3. NumbersAreTaken' /\ NumbersDiffer' /\ FilesFit'
  BY <1>1 DEF NumbersAreTaken, NumbersDiffer, FilesFit
<1>4. \A k \in DOMAIN disk : disk[k] # Absent => disk[k].run \in Nat /\ disk[k].run <= restarts
  BY UnpackAssumption DEF SafetyInv, TypeInv, TypeOK, DumpFile, DumpInv, RunsPast
<1>5. restarts' = restarts + 1 /\ restarts \in Nat /\ disk' = disk
  BY UnpackAssumption DEF Restart, SafetyInv, TypeInv, TypeOK
<1>6. RunsPast' /\ OwnFilesAreTaken'
  BY <1>4, <1>5 DEF RunsPast, OwnFilesAreTaken
<1> QED BY <1>2, <1>3, <1>6 DEF DumpInv

\* A step that leaves the activations, the flag, the counter and the disk alone.
LEMMA IdleKeepsSafety ==
    ASSUME SafetyInv, UNCHANGED <<stack, started, dex_num, disk, restarts>>
    PROVE  RebuildInv' /\ DumpInv'
<1>1. \A t \in Threads : Activations(t)' = Activations(t)
  BY DEF Activations
<1>2. RebuildInv'
  BY <1>1 DEF SafetyInv, RebuildInv, OnlyTraversalsNest, RebuildHasStarted,
     RebuildIsNotRecursive
<1>3. DumpInv'
  BY <1>1, NoNewWriterKeepsDumps DEF SafetyInv
<1> QED BY <1>2, <1>3

\* Every step keeps the invariant.
LEMMA SafetyInvNext == SafetyInv /\ [Next]_vars => SafetyInv'
<1> SUFFICES ASSUME SafetyInv, [Next]_vars PROVE SafetyInv'
  OBVIOUS
<1>1. TypeInv'
  BY TypeInvNext DEF SafetyInv
<1>2. ASSUME NEW t \in Threads, Run(t) PROVE RebuildInv' /\ DumpInv'
  BY <1>1, <1>2, CheckFlagKeepsSafety, TraversalKeepsSafety, WriteFileKeepsSafety,
     VisitClassKeepsSafety, RunBodyKeepsSafety DEF Run, Unpacking
<1>3. CASE WriteConfig
  BY <1>1, <1>3, IdleKeepsSafety DEF WriteConfig, globals, SafetyInv
<1>4. CASE UNCHANGED vars
  BY <1>1, <1>4, IdleKeepsSafety DEF vars, SafetyInv
<1> QED BY <1>1, <1>2, <1>3, <1>4, InvokeKeepsSafety, RestartKeepsSafety
           DEF Next, SafetyInv

\* The invariant holds in every reachable state.
LEMMA SafetyInvHolds == Spec => []SafetyInv
BY SafetyInvInit, SafetyInvNext, PTL DEF Spec

\* An activation nested in a rebuilding one does nothing but test `started' and
\* run its method, for any number of threads that race in the hook: build_dex
\* never recurses.
THEOREM RebuildIsNotRecursiveHolds == Spec => []RebuildIsNotRecursive
<1>1. SafetyInv => RebuildIsNotRecursive
  BY DEF SafetyInv, RebuildInv
<1> QED BY <1>1, SafetyInvHolds, PTL

\* Two activations of write_file never work on one dump file, because each has
\* a number of its own from the atomic dex_num.
THEOREM OneWriterPerDumpHolds == Spec => []OneWriterPerDump
<1>1. ASSUME SafetyInv PROVE OneWriterPerDump
  <2> SUFFICES ASSUME NEW t \in Threads, NEW u \in Threads,
                      NEW i \in 1 .. Len(stack[t]), NEW j \in 1 .. Len(stack[u]),
                      stack[t][i].pc \in {"probe", "create", "write"},
                      stack[u][j].pc \in {"probe", "create", "write"},
                      DumpName(stack[t][i]) = DumpName(stack[u][j])
               PROVE  t = u /\ i = j
    BY DEF OneWriterPerDump
  <2>1. stack[t][i].num = stack[u][j].num
    BY DEF DumpName
  <2> QED BY <1>1, <2>1 DEF SafetyInv, DumpInv, NumbersDiffer, Activations, WriteFilePcs
<1> QED BY <1>1, SafetyInvHolds, PTL

\* Only the steps of write_file change the disk.
LEMMA OnlyWritersChangeDisk ==
    ASSUME [Next]_vars, disk' # disk
    PROVE  \E t \in Threads : CreateDump(t) \/ WriteDump(t)
<1>1. CASE UNCHANGED vars
  BY <1>1 DEF vars
<1>2. ASSUME NEW t \in Threads, Invoke(t) \/ RunBody(t) PROVE disk' = disk
  BY <1>2 DEF Invoke, RunBody
<1>3. CASE WriteConfig \/ Restart
  BY <1>3 DEF WriteConfig, Restart
<1>4. ASSUME NEW t \in Threads, CheckFlag(t) PROVE disk' = disk
  BY <1>4 DEF CheckFlag, TestFlag, OpenConfig, ReadName, TestName, SetFlag,
     ClearMethod, ReadMethod, TestMethod, ClearForce, SetForce, SetRebuild,
     ClearMode, ReadMode, SetMode, ResetForce, ResetFlag, Store, Branch
<1>5. ASSUME NEW t \in Threads,
             \/ TestStarted(t) \/ GetFlag(t) \/ GetForce(t) \/ ReadLists(t)
             \/ GetRebuild(t) \/ LookUp(t) \/ Find(t) \/ Insert(t) \/ SetStarted(t)
             \/ VisitClass(t) \/ InitClass(t) \/ EndTraversal(t) \/ TakeNumber(t) \/ Probe(t)
      PROVE  disk' = disk
  BY <1>5 DEF TestStarted, GetFlag, GetForce, ReadLists, GetRebuild, LookUp, Find,
     Insert, SetStarted, VisitClass, InitClass, EndTraversal, TakeNumber, Probe, Branch
<1> QED BY <1>1, <1>2, <1>3, <1>4, <1>5 DEF Next, Run, Unpacking

\* A complete dump file is never touched again by the process that wrote it,
\* whichever threads and nested activations run, and by a later process only
\* after its open of the file has failed.
THEOREM CompleteDumpsStayHolds == Spec => CompleteDumpsStay
<1> DEFINE Stay == \A k \in DOMAIN disk : disk[k].data = "full" =>
                      \/ disk'[k] = disk[k]
                      \/ /\ disk[k].run # restarts
                         /\ \E t \in Threads :
                               At(t, "write") /\ Top(t).missed /\ DumpName(Top(t)) = k
<1>1. ASSUME SafetyInv, [Next]_vars PROVE [Stay]_disk
  <2> SUFFICES ASSUME disk' # disk, NEW k \in DOMAIN disk, disk[k].data = "full",
                      disk'[k] # disk[k]
               PROVE  /\ disk[k].run # restarts
                      /\ \E t \in Threads :
                            At(t, "write") /\ Top(t).missed /\ DumpName(Top(t)) = k
    OBVIOUS
  <2>1. PICK t \in Threads : CreateDump(t) \/ WriteDump(t)
    BY <1>1, OnlyWritersChangeDisk
  <2>2. stack[t] # <<>>
    BY <2>1 DEF CreateDump, WriteDump, At
  <2>3. Len(stack[t]) \in Activations(t)
    BY <1>1, <2>2, TopIsLast DEF SafetyInv, TypeInv, Activations
  <2>4. CASE CreateDump(t)
    <3>1. disk[DumpName(Top(t))] = Absent
      BY <2>4 DEF CreateDump
    <3>2. k # DumpName(Top(t))
      BY <3>1 DEF Absent
    <3> QED BY <2>4, <3>2 DEF CreateDump
  <2>5. CASE WriteDump(t)
    <3>1. k = DumpName(Top(t)) /\ At(t, "write") /\ Top(t).pc = "write"
      BY <2>5 DEF WriteDump, At
    <3>2. FileFits(Top(t), disk[DumpName(Top(t))], restarts)
      BY <1>1, <2>3 DEF SafetyInv, DumpInv, FilesFit, Top
    <3> QED BY <3>1, <3>2 DEF FileFits
  <2> QED BY <2>1, <2>4, <2>5
<1>2. Spec => [][Stay]_disk
  <2> HIDE DEF Stay
  <2> QED BY <1>1, SafetyInvHolds, PTL DEF Spec
<1> QED BY <1>2 DEF CompleteDumpsStay

(***************************************************************************)
(* Rebuilt images.  Code becomes restored and stays so while the process   *)
(* lives.  The classes that were initialised for an activation are         *)
(* restored in memory while it traverses, and in its image once that is    *)
(* taken; only level 3 initialises classes.                                *)
(***************************************************************************)
EarlyPcs == Pcs \ (TraversalPcs \cup WriteFilePcs \cup {"number", "body"})

FrameRestored(f, c) ==
    /\ f.pc = "init" => f.level = 3
    /\ f.pc \in TraversalPcs =>
          /\ f.level # 3 => f.inited = {}
          /\ \A x \in f.inited : c[f.dex][x] = "restored"
    /\ f.pc \in WriteFilePcs \cup {"number"} => \A x \in f.inited : f.image[x] = "restored"
    /\ f.pc \in EarlyPcs => f.inited = {}

FramesRestored ==
    \A t \in Threads : \A i \in Activations(t) : FrameRestored(stack[t][i], code)

RestoredInv == FramesRestored /\ RebuiltIsRestored

\* No class that is restored in memory is packed again by a step.
CodeKept ==
    \A d \in Dexes : \A x \in Classes : code[d][x] = "restored" => code'[d][x] = "restored"

\* A step after which every activation is an old one or fits keeps them all
\* fitting, if code stays restored.
LEMMA FramesStayRestored ==
    ASSUME TypeInv, FramesRestored, CodeKept,
           \A u \in Threads : \A i \in Activations(u)' :
              \/ FrameRestored(stack'[u][i], code')
              \/ i \in Activations(u) /\ stack'[u][i] = stack[u][i]
    PROVE  FramesRestored'
<1> SUFFICES ASSUME NEW u \in Threads, NEW i \in Activations(u)',
                    i \in Activations(u), stack'[u][i] = stack[u][i]
             PROVE  FrameRestored(stack'[u][i], code')
  BY DEF FramesRestored
<1>1. FrameRestored(stack[u][i], code)
  BY DEF FramesRestored
<1>2. stack[u][i] \in Frame
  BY DEF TypeInv, TypeOK, Activations
<1>3. stack[u][i].dex \in Dexes /\ stack[u][i].inited \subseteq Classes
  BY <1>2 DEF Frame
<1>4. \A x \in stack[u][i].inited : code[stack[u][i].dex][x] = "restored"
                                      => code'[stack[u][i].dex][x] = "restored"
  BY <1>3 DEF CodeKept
<1> QED BY <1>1, <1>4 DEF FrameRestored

\* A step of the running activation to one that fits keeps them all fitting.
LEMMA TopStaysRestored ==
    ASSUME TypeInv, TypeInv', FramesRestored, CodeKept, NEW t \in Threads,
           stack[t] # <<>>, NEW f, SetTop(t, f), FrameRestored(f, code')
    PROVE  FramesRestored'
<1>1. f \in OpenFrame
  BY NewTopIsTyped
<1>2. /\ \A u \in Threads \ {t} : stack'[u] = stack[u]
      /\ Len(stack'[t]) = Len(stack[t])
      /\ stack'[t][Len(stack[t])] = f
      /\ \A i \in 1 .. Len(stack[t]) :
            i # Len(stack[t]) => stack'[t][i] = stack[t][i]
  BY <1>1, SetTopEffect DEF TypeInv
<1>3. ASSUME NEW u \in Threads, NEW i \in Activations(u)'
      PROVE  \/ FrameRestored(stack'[u][i], code')
             \/ i \in Activations(u) /\ stack'[u][i] = stack[u][i]
  <2>1. CASE u # t
    BY <1>2, <2>1 DEF Activations
  <2>2. CASE u = t /\ i = Len(stack[t])
    BY <1>2, <2>2
  <2>3. CASE u = t /\ i # Len(stack[t])
    BY <1>2, <2>3 DEF Activations
  <2> QED BY <2>1, <2>2, <2>3
<1> QED BY <1>3, FramesStayRestored

\* A step before the traversal, which initialises no class.
EarlyStep(t) ==
    /\ stack[t] # <<>> /\ Top(t).pc \in EarlyPcs
    /\ code' = code /\ disk' = disk
    /\ \E f : SetTop(t, f) /\ f.inited = Top(t).inited /\ f.pc # "init"

\* A test of shared state is one.
LEMMA BranchIsEarly ==
    ASSUME TypeInv, NEW t \in Threads, NEW from \in EarlyPcs, NEW cond,
           NEW yes, NEW no, yes # "init", no # "init", Branch(t, from, cond, yes, no)
    PROVE  EarlyStep(t)
<1> DEFINE to == IF cond THEN yes ELSE no
           f == [Top(t) EXCEPT !.pc = to]
<1>1. /\ stack[t] # <<>> /\ Top(t).pc = from /\ SetTop(t, f)
      /\ code' = code /\ disk' = disk /\ to # "init"
  BY DEF Branch, At, Goto, environment
<1>2. Top(t) \in Frame
  BY <1>1, TopIsLast DEF TypeInv, TypeOK
<1> HIDE DEF to
<1>3. f.pc = to /\ f.inited = Top(t).inited
  BY <1>2 DEF Frame
<1> QED BY <1>1, <1>3 DEF EarlyStep

\* A store to the filter is one.
LEMMA StoreIsEarly ==
    ASSUME TypeInv, NEW t \in Threads, NEW from \in EarlyPcs, NEW to, to # "init",
           NEW g, Store(t, from, to, g)
    PROVE  EarlyStep(t)
<1> DEFINE f == [Top(t) EXCEPT !.pc = to]
<1>1. /\ stack[t] # <<>> /\ Top(t).pc = from /\ SetTop(t, f)
      /\ code' = code /\ disk' = disk
  BY DEF Store, At, Goto, environment
<1>2. Top(t) \in Frame
  BY <1>1, TopIsLast DEF TypeInv, TypeOK
<1>3. f.pc = to /\ f.inited = Top(t).inited
  BY <1>2 DEF Frame
<1> QED BY <1>1, <1>3 DEF EarlyStep

\* The steps of check_flag and of Invoke up to the traversal are all early.
LEMMA EarlySteps ==
    ASSUME TypeInv, NEW t \in Threads,
           \/ TestStarted(t) \/ CheckFlag(t) \/ GetFlag(t) \/ GetForce(t)
           \/ ReadLists(t) \/ GetRebuild(t) \/ LookUp(t) \/ Find(t) \/ Insert(t)
           \/ SetStarted(t)
    PROVE  EarlyStep(t)
<1> USE DEF EarlyPcs, Pcs, TraversalPcs, WriteFilePcs
<1>a. ASSUME stack[t] # <<>> PROVE Top(t) \in Frame
  BY <1>a, TopIsLast DEF TypeInv, TypeOK
<1>1. CASE TestFlag(t) \/ TestName(t) \/ TestMethod(t) \/ TestStarted(t) \/ GetFlag(t) \/ Find(t)
  BY <1>1, BranchIsEarly DEF TestFlag, TestName, TestMethod, TestStarted, GetFlag, Find
<1>2. CASE LookUp(t)
  BY <1>2, BranchIsEarly DEF LookUp
<1>3. CASE ReadName(t) \/ SetFlag(t) \/ ClearMethod(t) \/ ReadMethod(t) \/ ClearForce(t)
  BY <1>3, StoreIsEarly DEF ReadName, SetFlag, ClearMethod, ReadMethod, ClearForce
<1>4. CASE SetForce(t) \/ SetRebuild(t) \/ ClearMode(t) \/ ReadMode(t) \/ SetMode(t)
  BY <1>4, StoreIsEarly DEF SetForce, SetRebuild, ClearMode, ReadMode, SetMode
<1>5. CASE ResetForce(t) \/ ResetFlag(t)
  BY <1>5, StoreIsEarly DEF ResetForce, ResetFlag
<1>6. CASE OpenConfig(t)
  <2> DEFINE to == IF file = NoFile THEN "reset_force"
                   ELSE IF file.name = NoName THEN "test_name" ELSE "name"
             f == [Top(t) EXCEPT !.fin = file, !.pc = to]
  <2>1. /\ stack[t] # <<>> /\ Top(t).pc = "open" /\ SetTop(t, f)
        /\ code' = code /\ disk' = disk /\ to # "init"
    BY <1>6 DEF OpenConfig, At, environment
  <2> HIDE DEF to
  <2>2. f.pc = to /\ f.inited = Top(t).inited
    <3> HIDE DEF EarlyPcs, Pcs
    <3> QED BY <1>a, <2>1 DEF Frame
  <2> HIDE DEF f
  <2> QED BY <2>1, <2>2 DEF EarlyStep
<1>7. CASE GetForce(t)
  <2> DEFINE to == IF filter.force THEN "get_lists" ELSE "lookup"
             f == [Top(t) EXCEPT !.level = 1, !.pc = to]
  <2>1. /\ stack[t] # <<>> /\ Top(t).pc = "get_force" /\ SetTop(t, f)
        /\ code' = code /\ disk' = disk /\ to # "init"
    BY <1>7 DEF GetForce, At, environment
  <2> HIDE DEF to
  <2>2. f.pc = to /\ f.inited = Top(t).inited
    BY <1>a, <2>1 DEF Frame
  <2> HIDE DEF f
  <2> QED BY <2>1, <2>2 DEF EarlyStep
<1>8. CASE ReadLists(t) \/ SetStarted(t)
  <2>1. /\ stack[t] # <<>> /\ Top(t).pc \in {"get_lists", "set_started"}
        /\ code' = code /\ disk' = disk
        /\ \E to \in {"get_rebuild", "traverse"} : SetTop(t, [Top(t) EXCEPT !.pc = to])
    BY <1>8 DEF ReadLists, SetStarted, At, Goto, environment
  <2>2. \A to \in {"get_rebuild", "traverse"} :
           /\ [Top(t) EXCEPT !.pc = to].pc = to /\ to # "init"
           /\ [Top(t) EXCEPT !.pc = to].inited = Top(t).inited
    BY <1>a, <2>1 DEF Frame
  <2> QED BY <2>1, <2>2 DEF EarlyStep
<1>9. CASE GetRebuild(t)
  <2> DEFINE l == IF filter.rebuild THEN 3 ELSE 2
             f == [Top(t) EXCEPT !.pc = "lookup", !.level = l]
  <2>1. /\ stack[t] # <<>> /\ Top(t).pc = "get_rebuild" /\ SetTop(t, f)
        /\ code' = code /\ disk' = disk
    BY <1>9 DEF GetRebuild, At, environment
  <2> HIDE DEF l
  <2>2. f.pc = "lookup" /\ f.inited = Top(t).inited
    BY <1>a, <2>1 DEF Frame
  <2> HIDE DEF f
  <2> QED BY <2>1, <2>2 DEF EarlyStep
<1>10. CASE Insert(t)
  <2> DEFINE f == AfterInsert(Top(t))
  <2>1. /\ stack[t] # <<>> /\ Top(t).pc = "insert" /\ SetTop(t, f)
        /\ code' = code /\ disk' = disk
    BY <1>10 DEF Insert, At, environment
  <2>2. Top(t).level \in {1, 2, 3}
    BY <1>a, <2>1 DEF Frame, Levels
  <2>3. /\ f.inited = Top(t).inited
        /\ f.pc = CASE Top(t).level = 1 -> "number"
                    [] Top(t).level = 2 -> "traverse"
                    [] Top(t).level = 3 -> "set_started"
    BY <1>a, <2>1 DEF Frame, AfterInsert
  <2>4. f.pc # "init"
    BY <2>2, <2>3
  <2> HIDE DEF f
  <2> QED BY <2>1, <2>3, <2>4 DEF EarlyStep
<1> QED BY <1>1, <1>2, <1>3, <1>4, <1>5, <1>6, <1>7, <1>8, <1>9, <1>10 DEF CheckFlag

\* The running activation fits, and is typed.
LEMMA TopFits ==
    ASSUME TypeInv, FramesRestored, NEW t \in Threads, stack[t] # <<>>
    PROVE  /\ Top(t) \in OpenFrame /\ Top(t) \in Frame
           /\ FrameRestored(Top(t), code)
<1>1. Top(t) \in OpenFrame /\ Top(t) \in Frame
  BY TopIsLast DEF TypeInv, TypeOK
<1>2. Len(stack[t]) \in Activations(t)
  BY TopIsLast DEF TypeInv, Activations
<1> QED BY <1>1, <1>2 DEF FramesRestored, Top

\* A step that leaves the code and the disk alone.
LEMMA SameCode ==
    ASSUME RestoredInv, code' = code, disk' = disk
    PROVE  CodeKept /\ RebuiltIsRestored'
BY DEF RestoredInv, CodeKept, RebuiltIsRestored

\* The traversal: a class is initialised, or not, and level 3 takes its image
\* when all have been visited.
LEMMA TraversalRestores ==
    ASSUME TypeInv, TypeInv', RestoredInv, NEW t \in Threads,
           InitClass(t) \/ EndTraversal(t)
    PROVE  RestoredInv'
<1>0. FramesRestored /\ RebuiltIsRestored
  BY DEF RestoredInv
<1>a. stack[t] # <<>>
  BY DEF InitClass, EndTraversal, At
<1>b. Top(t) \in OpenFrame /\ Top(t) \in Frame /\ FrameRestored(Top(t), code)
  BY <1>0, <1>a, TopFits
<1>c. Top(t).dex \in Dexes /\ Top(t).inited \subseteq Classes
  BY <1>b DEF Frame
<1>1. CASE EndTraversal(t)
  <2> DEFINE i == IF Top(t).level = 3 THEN code[Top(t).dex] ELSE Top(t).image
             f == [Top(t) EXCEPT !.pc = "number", !.image = i]
  <2>1. SetTop(t, f) /\ Top(t).pc = "traverse" /\ code' = code /\ disk' = disk
    BY <1>1 DEF EndTraversal, At, environment
  <2>2. \A x \in Top(t).inited : i[x] = "restored"
    BY <1>b, <2>1 DEF FrameRestored, TraversalPcs
  <2> HIDE DEF i
  <2>3. f.pc = "number" /\ f.inited = Top(t).inited /\ f.image = i
    BY <1>b DEF Frame
  <2> HIDE DEF f
  <2>4. FrameRestored(f, code')
    BY <2>2, <2>3 DEF FrameRestored, TraversalPcs, WriteFilePcs, EarlyPcs
  <2>5. CodeKept /\ RebuiltIsRestored'
    BY <2>1, SameCode
  <2> QED BY <1>0, <1>a, <2>1, <2>4, <2>5, TopStaysRestored DEF RestoredInv
<1>2. CASE InitClass(t)
  <2> DEFINE f == [Top(t) EXCEPT !.pc = "traverse"]
             g == [Top(t) EXCEPT !.pc = "traverse", !.inited = @ \cup {Top(t).todo}]
  <2>1. /\ Top(t).pc = "init" /\ disk' = disk
        /\ \/ SetTop(t, f) /\ code' = code
           \/ SetTop(t, g) /\ code' = [code EXCEPT ![Top(t).dex][Top(t).todo] = "restored"]
    BY <1>2 DEF InitClass, At, Goto
  <2>2. Top(t).level = 3 /\ Top(t).todo \in Classes
        /\ \A x \in Top(t).inited : code[Top(t).dex][x] = "restored"
    BY <1>b, <2>1 DEF FrameRestored, TraversalPcs, OpenFrame
  <2>3. /\ f.pc = "traverse" /\ f.level = 3 /\ f.inited = Top(t).inited /\ f.dex = Top(t).dex
        /\ g.pc = "traverse" /\ g.level = 3 /\ g.inited = Top(t).inited \cup {Top(t).todo}
        /\ g.dex = Top(t).dex
    BY <1>b, <2>2 DEF Frame
  <2> HIDE DEF f, g
  <2>4. CASE SetTop(t, f) /\ code' = code
    <3>1. FrameRestored(f, code')
      BY <2>2, <2>3, <2>4 DEF FrameRestored, TraversalPcs, WriteFilePcs, EarlyPcs
    <3>2. CodeKept /\ RebuiltIsRestored'
      BY <2>1, <2>4, SameCode
    <3> QED BY <1>0, <1>a, <2>4, <3>1, <3>2, TopStaysRestored DEF RestoredInv
  <2>5. CASE SetTop(t, g) /\ code' = [code EXCEPT ![Top(t).dex][Top(t).todo] = "restored"]
    <3>1. code \in [Dexes -> Image]
      BY DEF TypeInv, TypeOK
    <3>2. /\ \A d \in Dexes : d # Top(t).dex => code'[d] = code[d]
          /\ code'[Top(t).dex] = [code[Top(t).dex] EXCEPT ![Top(t).todo] = "restored"]
      BY <1>c, <2>5, <3>1
    <3>3. /\ code'[Top(t).dex][Top(t).todo] = "restored"
          /\ \A x \in Classes : x # Top(t).todo => code'[Top(t).dex][x] = code[Top(t).dex][x]
      BY <1>c, <2>2, <3>1, <3>2 DEF Image
    <3>4. CodeKept
      BY <3>2, <3>3 DEF CodeKept
    <3>5. \A x \in Top(t).inited \cup {Top(t).todo} : code'[Top(t).dex][x] = "restored"
      BY <1>c, <2>2, <3>3
    <3>6. FrameRestored(g, code')
      BY <2>3, <3>5 DEF FrameRestored, TraversalPcs, WriteFilePcs, EarlyPcs
    <3>7. RebuiltIsRestored'
      BY <1>0, <2>1 DEF RebuiltIsRestored
    <3> QED BY <1>0, <1>a, <2>5, <3>4, <3>6, <3>7, TopStaysRestored DEF RestoredInv
  <2> QED BY <2>1, <2>4, <2>5
<1> QED BY <1>1, <1>2

\* write_file writes the image that the activation has taken.
LEMMA WriteFileKeepsRestored ==
    ASSUME TypeInv, TypeInv', RestoredInv, NEW t \in Threads,
           TakeNumber(t) \/ Probe(t) \/ CreateDump(t) \/ WriteDump(t)
    PROVE  RestoredInv'
<1>0. FramesRestored /\ RebuiltIsRestored
  BY DEF RestoredInv
<1>a. stack[t] # <<>> /\ Top(t).pc \in WriteFilePcs \cup {"number"} /\ code' = code
  BY DEF TakeNumber, Probe, CreateDump, WriteDump, At, WriteFilePcs, environment
<1>b. Top(t) \in Frame /\ FrameRestored(Top(t), code)
  BY <1>0, <1>a, TopFits
<1>c. \A x \in Top(t).inited : Top(t).image[x] = "restored"
  BY <1>a, <1>b DEF FrameRestored
<1>d. ASSUME NEW f, SetTop(t, f), f.pc \in WriteFilePcs \cup {"body"},
             f.inited = Top(t).inited, f.image = Top(t).image, RebuiltIsRestored'
      PROVE  RestoredInv'
  <2>1. FrameRestored(f, code')
    BY <1>c, <1>d DEF FrameRestored, TraversalPcs, WriteFilePcs, EarlyPcs
  <2>2. CodeKept
    BY <1>a DEF CodeKept
  <2> QED BY <1>0, <1>a, <1>d, <2>1, <2>2, TopStaysRestored DEF RestoredInv
<1>e. ASSUME NEW to \in {"create", "write", "body"}, Goto(t, to), RebuiltIsRestored'
      PROVE  RestoredInv'
  <2> DEFINE f == [Top(t) EXCEPT !.pc = to]
  <2>1. f.pc = to /\ f.inited = Top(t).inited /\ f.image = Top(t).image /\ SetTop(t, f)
    BY <1>b, <1>e DEF Frame, Goto
  <2> HIDE DEF f
  <2> QED BY <1>d, <1>e, <2>1 DEF WriteFilePcs
<1>1. CASE TakeNumber(t)
  <2> DEFINE f == [Top(t) EXCEPT !.pc = "probe", !.num = dex_num]
  <2>1. SetTop(t, f) /\ disk' = disk
    BY <1>1 DEF TakeNumber
  <2>2. f.pc = "probe" /\ f.inited = Top(t).inited /\ f.image = Top(t).image
    BY <1>b DEF Frame
  <2>3. RebuiltIsRestored'
    BY <1>a, <2>1, SameCode
  <2> HIDE DEF f
  <2> QED BY <1>d, <2>1, <2>2, <2>3 DEF WriteFilePcs
<1>2. CASE Probe(t)
  <2> DEFINE f == [Top(t) EXCEPT !.pc = "create", !.missed = TRUE]
  <2>1. /\ Goto(t, "body") \/ Goto(t, "create") \/ SetTop(t, f)
        /\ disk' = disk
    BY <1>2 DEF Probe
  <2>2. f.pc = "create" /\ f.inited = Top(t).inited /\ f.image = Top(t).image
    BY <1>b DEF Frame
  <2>3. RebuiltIsRestored'
    BY <1>a, <2>1, SameCode
  <2> HIDE DEF f
  <2>4. CASE SetTop(t, f)
    BY <1>d, <2>2, <2>3, <2>4 DEF WriteFilePcs
  <2>5. CASE Goto(t, "body") \/ Goto(t, "create")
    BY <1>e, <2>3, <2>5
  <2> QED BY <2>1, <2>4, <2>5
<1>3. CASE CreateDump(t) \/ WriteDump(t)
  <2> DEFINE k == DumpName(Top(t))
  <2>1. PICK to \in {"write", "body"} : Goto(t, to)
    BY <1>3 DEF CreateDump, WriteDump
  <2>2. \/ disk' = disk
        \/ \E data : disk' = [disk EXCEPT ![k] = Contents(Top(t), data)]
    BY <1>3 DEF CreateDump, WriteDump
  <2>3. RebuiltIsRestored'
    <3>1. CASE disk' = disk
      BY <1>a, <3>1, SameCode
    <3>2. ASSUME NEW data, disk' = [disk EXCEPT ![k] = Contents(Top(t), data)]
          PROVE  RebuiltIsRestored'
      <4> DEFINE new == Contents(Top(t), data)
      <4>1. \A x \in new.inited : new.image[x] = "restored"
        BY <1>c DEF Contents
      <4> HIDE DEF new, k
      <4> QED BY <1>0, <3>2, <4>1 DEF RebuiltIsRestored, new
    <3> QED BY <2>2, <3>1, <3>2
  <2> QED BY <1>e, <2>1, <2>3
<1> QED BY <1>1, <1>2, <1>3

\* Calls, nested or not, and returns.
LEMMA NestingKeepsRestored ==
    ASSUME TypeInv, TypeInv', RestoredInv, NEW t \in Threads,
           VisitClass(t) \/ RunBody(t) \/ Invoke(t)
    PROVE  RestoredInv'
<1> DEFINE n == Len(stack[t])
<1>0. FramesRestored /\ RebuiltIsRestored
  BY DEF RestoredInv
<1>a. stack \in [Threads -> Seq(OpenFrame)] /\ stack[t] \in Seq(OpenFrame) /\ n \in Nat
  BY DEF TypeInv
<1>b. RebuiltIsRestored'
  <2>1. disk' = disk
    BY DEF VisitClass, RunBody, Invoke
  <2> QED BY <1>0, <2>1 DEF RebuiltIsRestored
<1>c. \A d : FrameRestored(NewFrame(d), code')
  BY DEF NewFrame, FrameRestored, TraversalPcs, WriteFilePcs
<1>d. ASSUME NEW q, stack' = [stack EXCEPT ![t] = q], CodeKept,
             \A i \in 1 .. Len(q) : \/ FrameRestored(q[i], code')
                                    \/ i \in 1 .. n /\ q[i] = stack[t][i]
      PROVE  FramesRestored'
  <2>1. stack'[t] = q /\ \A u \in Threads \ {t} : stack'[u] = stack[u]
    BY <1>a, <1>d
  <2>2. ASSUME NEW u \in Threads, NEW i \in Activations(u)'
        PROVE  \/ FrameRestored(stack'[u][i], code')
               \/ i \in Activations(u) /\ stack'[u][i] = stack[u][i]
    <3>1. CASE u # t
      BY <2>1, <3>1 DEF Activations
    <3>2. CASE u = t
      BY <1>d, <2>1, <3>2 DEF Activations
    <3> QED BY <3>1, <3>2
  <2> QED BY <1>0, <1>d, <2>2, FramesStayRestored
<1>1. CASE VisitClass(t)
  <2> DEFINE next == IF Top(t).level = 3 THEN "init" ELSE "traverse"
             g(to) == [Top(t) EXCEPT !.todo = @ - 1, !.pc = to]
             visit(to) == [stack[t] EXCEPT ![Len(stack[t])] = g(to)]
  <2>1. /\ stack[t] # <<>> /\ Top(t).pc = "traverse" /\ code' = code
        /\ \/ \E to \in {"traverse", next} : stack' = [stack EXCEPT ![t] = visit(to)]
           \/ \E d \in Dexes : stack' = [stack EXCEPT ![t] = Append(visit(next), NewFrame(d))]
    BY <1>1 DEF VisitClass, At
  <2>2. Top(t) \in Frame /\ FrameRestored(Top(t), code) /\ n \in Nat \ {0}
    BY <1>0, <2>1, TopFits, TopIsLast DEF TypeInv
  <2>3. \A to \in {"traverse", next} : FrameRestored(g(to), code')
    <3> TAKE to \in {"traverse", next}
    <3>1. /\ to \in TraversalPcs /\ (to = "init" => Top(t).level = 3)
      BY DEF TraversalPcs
    <3> HIDE DEF next
    <3>2. /\ g(to).pc = to /\ g(to).level = Top(t).level /\ g(to).dex = Top(t).dex
          /\ g(to).inited = Top(t).inited
      BY <2>2 DEF Frame
    <3>3. /\ Top(t).level # 3 => Top(t).inited = {}
          /\ \A x \in Top(t).inited : code'[Top(t).dex][x] = "restored"
      BY <2>1, <2>2 DEF FrameRestored, TraversalPcs
    <3> HIDE DEF g
    <3> QED BY <3>1, <3>2, <3>3 DEF FrameRestored, TraversalPcs, WriteFilePcs, EarlyPcs
  <2> HIDE DEF g, next
  <2>4. ASSUME NEW to \in {"traverse", next}
        PROVE  /\ Len(visit(to)) = n
               /\ \A i \in 1 .. n : \/ FrameRestored(visit(to)[i], code')
                                    \/ visit(to)[i] = stack[t][i]
    BY <1>a, <2>2, <2>3
  <2>5. CodeKept
    BY <2>1 DEF CodeKept
  <2>6. PICK q : /\ stack' = [stack EXCEPT ![t] = q]
                 /\ \A i \in 1 .. Len(q) : \/ FrameRestored(q[i], code')
                                           \/ i \in 1 .. n /\ q[i] = stack[t][i]
    <3>1. CASE \E to \in {"traverse", next} : stack' = [stack EXCEPT ![t] = visit(to)]
      <4> HIDE DEF visit
      <4> QED BY <2>4, <3>1
    <3>2. ASSUME NEW d \in Dexes, stack' = [stack EXCEPT ![t] = Append(visit(next), NewFrame(d))]
          PROVE  \E q : /\ stack' = [stack EXCEPT ![t] = q]
                        /\ \A i \in 1 .. Len(q) : \/ FrameRestored(q[i], code')
                                                  \/ i \in 1 .. n /\ q[i] = stack[t][i]
      <4> DEFINE v == visit(next)
                 q == Append(v, NewFrame(d))
      <4>1. /\ Len(v) = n
            /\ \A i \in 1 .. n : FrameRestored(v[i], code') \/ v[i] = stack[t][i]
        BY <2>4
      <4> HIDE DEF v
      <4>2. /\ Len(q) = n + 1 /\ q[n + 1] = NewFrame(d)
            /\ \A i \in 1 .. n : q[i] = v[i]
        BY <2>2, <4>1
      <4> HIDE DEF q, n
      <4>3. ASSUME NEW i \in 1 .. Len(q)
            PROVE  \/ FrameRestored(q[i], code')
                   \/ i \in 1 .. n /\ q[i] = stack[t][i]
        <5>1. CASE i = n + 1
          BY <1>c, <4>2, <5>1
        <5>2. CASE i \in 1 .. n
          BY <4>1, <4>2, <5>2
        <5> QED BY <2>2, <4>2, <5>1, <5>2
      <4> QED BY <3>2, <4>3 DEF q, v
    <3> HIDE DEF visit
    <3> QED BY <2>1, <3>1, <3>2
  <2> QED BY <1>b, <1>d, <2>5, <2>6 DEF RestoredInv
<1>2. CASE RunBody(t)
  <2> DEFINE q == SubSeq(stack[t], 1, n - 1)
  <2>1. stack[t] # <<>> /\ stack' = [stack EXCEPT ![t] = q]
    BY <1>2 DEF RunBody, At
  <2>2. Top(t) \in Frame /\ n \in Nat \ {0}
    BY <1>0, <2>1, TopFits, TopIsLast DEF TypeInv
  <2>3. Len(q) = n - 1 /\ \A i \in 1 .. (n - 1) : q[i] = stack[t][i]
    <3>1. \A i \in 1 .. n - 1 : stack[t][i] \in OpenFrame
      BY <1>a
    <3>2. /\ Len(q) = IF 1 <= n - 1 THEN n - 1 - 1 + 1 ELSE 0
          /\ \A i \in 1 .. n - 1 - 1 + 1 : q[i] = stack[t][1 + i - 1]
      BY <1>a, <2>2, <3>1, SubSeqProperties
    <3> HIDE DEF q, n
    <3>3. Len(q) = n - 1
      BY <2>2, <3>2
    <3>4. ASSUME NEW i \in 1 .. (n - 1) PROVE q[i] = stack[t][i]
      <4>1. i \in 1 .. n - 1 - 1 + 1 /\ 1 + i - 1 = i
        BY <2>2
      <4> QED BY <3>2, <4>1
    <3> QED BY <3>3, <3>4
  <2>4. CodeKept
    <3>1. PICK R \in SUBSET Classes :
             code' = [code EXCEPT ![Top(t).dex] =
                        [c \in Classes |-> IF c \in R THEN "restored" ELSE @[c]]]
      BY <1>2 DEF RunBody
    <3>2. code \in [Dexes -> Image] /\ Top(t).dex \in Dexes
      BY <2>2 DEF Frame, TypeInv, TypeOK
    <3>3. /\ \A d \in Dexes : d # Top(t).dex => code'[d] = code[d]
          /\ \A c \in Classes :
                code'[Top(t).dex][c] = IF c \in R THEN "restored" ELSE code[Top(t).dex][c]
      BY <3>1, <3>2
    <3> QED BY <3>3 DEF CodeKept
  <2> HIDE DEF q
  <2>5. \A i \in 1 .. Len(q) : i \in 1 .. n /\ q[i] = stack[t][i]
    BY <2>2, <2>3
  <2> QED BY <1>b, <1>d, <2>1, <2>4, <2>5 DEF RestoredInv
<1>3. CASE Invoke(t)
  <2>1. PICK d \in Dexes : stack' = [stack EXCEPT ![t] = <<NewFrame(d)>>]
    BY <1>3 DEF Invoke
  <2>2. CodeKept
    BY <1>3 DEF Invoke, CodeKept
  <2>3. \A i \in 1 .. Len(<<NewFrame(d)>>) : FrameRestored(<<NewFrame(d)>>[i], code')
    BY <1>c
  <2> QED BY <1>b, <1>d, <2>1, <2>2, <2>3 DEF RestoredInv
<1> QED BY <1>1, <1>2, <1>3

\* Every step keeps the invariant.
LEMMA RestoredInvNext == TypeInv /\ TypeInv' /\ RestoredInv /\ [Next]_vars => RestoredInv'
<1> SUFFICES ASSUME TypeInv, TypeInv', RestoredInv, [Next]_vars PROVE RestoredInv'
  OBVIOUS
<1>1. ASSUME NEW t \in Threads, EarlyStep(t) PROVE RestoredInv'
  <2>1. PICK f : SetTop(t, f) /\ f.inited = Top(t).inited /\ f.pc # "init"
    BY <1>1 DEF EarlyStep
  <2>2. FrameRestored(Top(t), code) /\ Top(t).pc \in EarlyPcs
    BY <1>1, TopFits DEF EarlyStep, RestoredInv
  <2>3. f.inited = {}
    BY <2>1, <2>2 DEF FrameRestored
  <2>4. FrameRestored(f, code')
    BY <2>1, <2>3 DEF FrameRestored
  <2>5. CodeKept /\ RebuiltIsRestored'
    BY <1>1, SameCode DEF EarlyStep
  <2> QED BY <1>1, <2>1, <2>4, <2>5, TopStaysRestored DEF EarlyStep, RestoredInv
<1>2. ASSUME NEW t \in Threads, Run(t) \/ Invoke(t) PROVE RestoredInv'
  BY <1>1, <1>2, EarlySteps, TraversalRestores, WriteFileKeepsRestored, NestingKeepsRestored
     DEF Run, Unpacking
<1>3. CASE Restart
  <2>1. \A t \in Threads : Activations(t)' = {}
    BY <1>3 DEF Restart, Activations
  <2>2. disk' = disk
    BY <1>3 DEF Restart
  <2> QED BY <2>1, <2>2 DEF RestoredInv, FramesRestored, RebuiltIsRestored
<1>4. CASE WriteConfig \/ UNCHANGED vars
  <2>1. UNCHANGED <<stack, code, disk>>
    BY <1>4 DEF WriteConfig, vars
  <2>2. \A t \in Threads : Activations(t)' = Activations(t)
    BY <2>1 DEF Activations
  <2> QED BY <2>1, <2>2 DEF RestoredInv, FramesRestored, RebuiltIsRestored
<1> QED BY <1>2, <1>3, <1>4 DEF Next

\* In a complete dump every class that build_dex found and initialised for it is
\* restored, for any number of threads and nested activations, whichever
\* classes are bypassed, missing or fail to initialise.
THEOREM RebuiltIsRestoredHolds == Spec => []RebuiltIsRestored
<1>1. Init => RestoredInv
  <2> SUFFICES ASSUME Init PROVE RestoredInv
    OBVIOUS
  <2>1. \A t \in Threads : Activations(t) = {}
    BY DEF Init, Activations
  <2>2. \A k \in DOMAIN disk : disk[k].data # "full"
    BY DEF Init, Absent
  <2> QED BY <2>1, <2>2 DEF RestoredInv, FramesRestored, RebuiltIsRestored
<1>2. RestoredInv => RebuiltIsRestored
  BY DEF RestoredInv
<1>3. SafetyInv => TypeInv
  BY DEF SafetyInv
<1> QED BY <1>1, <1>2, <1>3, RestoredInvNext, SafetyInvHolds, PTL DEF Spec

----------------------------------------------------------------------------
(* Forced invocation: the hash of the body before and after a call. *)

\* While a forced activation runs, hash1 is that of the code it was entered with; a result is
\* reported only on the way out.
FiInv ==
    /\ fiPc = "run" /\ fiForced => fiHash1 = BKDRHash(fiEntry)
    /\ fiNew => fiPc = "out"
    /\ FiStopsBeforeRestored

\* Nothing is invoked yet.
LEMMA FiInvInit == FiInit => FiInv
  BY DEF FiInit, FiInv, FiStopsBeforeRestored

\* Each step of the interpreter keeps it.
LEMMA FiInvStep == FiInv /\ [FiNext]_fiVars => FiInv'
<1> SUFFICES ASSUME FiInv, [FiNext]_fiVars PROVE FiInv'
  OBVIOUS
<1> USE DEF FiInv, FiStopsBeforeRestored
<1>0. \A b : BKDRHash(b)' = BKDRHash(b)
  BY DEF BKDRHash
<1>1. ASSUME NEW forced \in BOOLEAN, EnterInterpreterFromInvoke(forced) PROVE FiInv'
  BY <1>1 DEF EnterInterpreterFromInvoke
<1>2. CASE FiEnterFails
  BY <1>2 DEF FiEnterFails
<1>3. CASE FiExecute
  BY <1>3 DEF FiExecute
<1>4. CASE FiReturn
  BY <1>4 DEF FiReturn, FiRunning
<1>5. ASSUME NEW success \in BOOLEAN, FiInvokeStatic(success) PROVE FiInv'
  <2>1. CASE fiForced /\ fiHash1 /= BKDRHash(fiCode')
    <3>1. fiCode' # fiEntry
      BY <1>5, <2>1 DEF FiInvokeStatic, FiRunning
    <3> QED BY <1>5, <2>1, <3>1 DEF FiInvokeStatic
  <2>2. CASE ~(fiForced /\ fiHash1 /= BKDRHash(fiCode'))
    <3>1. fiForced => BKDRHash(fiCode') = BKDRHash(fiEntry)
      BY <1>5, <2>2 DEF FiInvokeStatic, FiRunning
    <3> QED BY <1>5, <2>2, <3>1 DEF FiInvokeStatic, FiAfterCall, FiRunning
  <2> QED BY <2>1, <2>2
<1>6. ASSUME NEW success \in BOOLEAN, FiInvokeOther(success) PROVE FiInv'
  BY <1>6 DEF FiInvokeOther, FiAfterCall, FiRunning
<1>7. CASE UNCHANGED fiVars
  BY <1>7 DEF fiVars
<1> QED BY <1>1, <1>2, <1>3, <1>4, <1>5, <1>6, <1>7 DEF FiNext

\* A forced invocation goes on after INVOKE_STATIC only with a body that hashes as the one it
\* entered with, and reports only a body that has changed, for bodies of any length, any opcode
\* bytes and any width of the hash.
THEOREM FiStopsBeforeRestoredHolds == FiSpec => []FiStopsBeforeRestored
<1>1. FiInv => FiStopsBeforeRestored
  BY DEF FiInv
<1> QED BY <1>1, FiInvStep, FiInvInit, PTL DEF FiSpec
=============================================================================
