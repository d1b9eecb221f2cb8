---------------------------- MODULE UnpackProofs ----------------------------
(***************************************************************************)
(* Proofs about Unpack for any number of threads, DEX files and nested     *)
(* activations, and about the LEB128 codec of DexBuilder for any numbers.  *)
(***************************************************************************)
EXTENDS Unpack, DexBuilder, SequenceTheorems, WellFoundedInduction, TLAPS

(***************************************************************************)
(* The type invariant.  An activation that extracts words from unpack.txt  *)
(* has opened it.                                                          *)
(***************************************************************************)
ReadingPcs == {"name", "test_name", "set_flag", "method", "store_method",
               "classify", "set_force", "set_rebuild", "mode", "store_mode"}

OpenFrame == {f \in Frame : /\ f.pc \in ReadingPcs => f.fin # NoFile
                            /\ f.pc = "init" => f.todo \in Classes}

TypeInv == TypeOK /\ stack \in [Threads -> Seq(OpenFrame)]

\* The running activation of a thread is the last one of its stack.
LEMMA TopIsLast ==
    ASSUME NEW S, stack \in [Threads -> Seq(S)], NEW t \in Threads,
           stack[t] # <<>>
    PROVE  /\ Len(stack[t]) \in Nat \ {0}
           /\ Len(stack[t]) \in DOMAIN stack[t]
           /\ DOMAIN stack[t] = 1 .. Len(stack[t])
           /\ Top(t) \in S
BY DEF Top

\* A step of the running activation changes nothing else in the stacks.
LEMMA SetTopEffect ==
    ASSUME NEW S, stack \in [Threads -> Seq(S)], NEW t \in Threads,
           stack[t] # <<>>, NEW f \in S, SetTop(t, f)
    PROVE  /\ stack' \in [Threads -> Seq(S)]
           /\ \A u \in Threads \ {t} : stack'[u] = stack[u]
           /\ Len(stack'[t]) = Len(stack[t])
           /\ stack'[t][Len(stack[t])] = f
           /\ \A i \in 1 .. Len(stack[t]) :
                 i # Len(stack[t]) => stack'[t][i] = stack[t][i]
<1>1. stack[t] \in Seq(S) /\ Len(stack[t]) \in Nat \ {0}
  BY TopIsLast
<1>2. [stack[t] EXCEPT ![Len(stack[t])] = f] \in Seq(S)
  BY <1>1
<1>3. stack' = [stack EXCEPT ![t] = [stack[t] EXCEPT ![Len(stack[t])] = f]]
  BY DEF SetTop
<1>4. stack'[t] = [stack[t] EXCEPT ![Len(stack[t])] = f]
  BY <1>3
<1>5. Len(stack'[t]) = Len(stack[t])
  BY <1>1, <1>2, <1>4
<1>6. stack' \in [Threads -> Seq(S)]
  BY <1>2, <1>3
<1> QED BY <1>1, <1>3, <1>4, <1>5, <1>6

\* In the initial states no activation exists and nothing has been dumped.
LEMMA TypeInvInit == Init => TypeInv
<1> SUFFICES ASSUME Init PROVE TypeInv
  OBVIOUS
<1>1. stack \in [Threads -> Seq(OpenFrame)] /\ stack \in [Threads -> Seq(Frame)]
  BY DEF Init
<1>2. filter \in FilterType
  BY DEF Init, FreshFilters
<1>3. disk \in [Nums \X Sizes -> DumpFile]
  BY DEF Init, DumpFile
<1>4. dex_num \in Nums /\ calls \in 0 .. MaxCalls /\ restarts \in 0 .. MaxRestarts
  BY UnpackAssumption DEF Init, Nums
<1>5. code \in [Dexes -> Image]
  BY DEF Init, Image, Packed, CodeState
<1> QED BY <1>1, <1>2, <1>3, <1>4, <1>5 DEF Init, TypeInv, TypeOK, Modes

\* A new activation has the type of one.
LEMMA NewFrameType == \A d \in Dexes : NewFrame(d) \in OpenFrame /\ NewFrame(d) \in Frame
<1>1. Packed \in Image
  BY DEF Image, Packed, CodeState
<1>2. 0 \in 0 .. NumClassDefs /\ 0 \in Nums /\ 1 \in Levels
  BY UnpackAssumption DEF Nums, Levels
<1>3. {} \in SUBSET Classes /\ FALSE \in BOOLEAN
  OBVIOUS
<1> QED BY <1>1, <1>2, <1>3 DEF NewFrame, OpenFrame, Frame, Pcs, ReadingPcs

\* A step that moves the running activation of t to f, where f is one that the
\* type invariant allows, and leaves everything else alone or in its type,
\* keeps the type invariant.
LEMMA SetTopKeepsType ==
    ASSUME TypeInv, NEW t \in Threads, stack[t] # <<>>, NEW f \in OpenFrame,
           SetTop(t, f)
    PROVE  /\ stack' \in [Threads -> Seq(OpenFrame)]
           /\ stack' \in [Threads -> Seq(Frame)]
<1>1. stack' \in [Threads -> Seq(OpenFrame)]
  BY SetTopEffect DEF TypeInv
<1>2. f \in Frame /\ stack \in [Threads -> Seq(Frame)]
  BY DEF OpenFrame, TypeInv, TypeOK
<1>3. stack' \in [Threads -> Seq(Frame)]
  BY <1>2, SetTopEffect
<1> QED BY <1>1, <1>3

\* The running activation has the type of an activation, and so has the one it
\* becomes at another place of the code.
LEMMA GotoFrame ==
    ASSUME TypeInv, NEW t \in Threads, stack[t] # <<>>, NEW pc \in Pcs \ {"init"},
           pc \in ReadingPcs => Top(t).fin # NoFile
    PROVE  /\ Top(t) \in OpenFrame
           /\ Top(t) \in Frame
           /\ [Top(t) EXCEPT !.pc = pc] \in OpenFrame
<1>1. Top(t) \in OpenFrame
  BY TopIsLast DEF TypeInv
<1>2. Top(t) \in Frame
  BY <1>1 DEF OpenFrame
<1>3. [Top(t) EXCEPT !.pc = pc] \in Frame
  BY <1>2 DEF Frame
<1>4. [Top(t) EXCEPT !.pc = pc].pc = pc /\ [Top(t) EXCEPT !.pc = pc].fin = Top(t).fin
  BY <1>2 DEF Frame
<1> QED BY <1>1, <1>2, <1>3, <1>4 DEF OpenFrame

\* The other updates of an activation outside check_flag.
LEMMA FrameUpdates ==
    ASSUME NEW f \in Frame, NEW pc \in Pcs \ (ReadingPcs \cup {"init"}), NEW l \in Levels,
           NEW n \in 0 .. NumClassDefs, NEW c \in Image
    PROVE  /\ [f EXCEPT !.pc = pc, !.level = l] \in OpenFrame
           /\ [f EXCEPT !.level = l, !.pc = pc] \in OpenFrame
           /\ [f EXCEPT !.pc = pc, !.todo = n, !.image = c] \in OpenFrame
BY DEF OpenFrame, Frame

\* A test of shared state keeps the type invariant.
LEMMA BranchKeepsType ==
    ASSUME TypeInv, NEW t \in Threads, NEW from, NEW cond,
           NEW yes \in Pcs \ {"init"}, NEW no \in Pcs \ {"init"},
           {yes, no} \cap ReadingPcs # {} => from \in ReadingPcs,
           Branch(t, from, cond, yes, no)
    PROVE  TypeInv'
<1> DEFINE to == IF cond THEN yes ELSE no
<1>1. stack[t] # <<>> /\ Top(t).pc = from /\ to \in Pcs \ {"init"}
  BY DEF Branch, At
<1>2. Top(t) \in OpenFrame
  BY <1>1, TopIsLast DEF TypeInv
<1>3. to \in ReadingPcs => Top(t).fin # NoFile
  BY <1>1, <1>2 DEF OpenFrame
<1>4. [Top(t) EXCEPT !.pc = to] \in OpenFrame
  BY <1>1, <1>3, GotoFrame
<1>5. SetTop(t, [Top(t) EXCEPT !.pc = to])
  BY DEF Branch, Goto
<1>6. /\ stack' \in [Threads -> Seq(OpenFrame)]
      /\ stack' \in [Threads -> Seq(Frame)]
  BY <1>1, <1>4, <1>5, SetTopKeepsType
<1> QED BY <1>6 DEF TypeInv, TypeOK, Branch, environment, globals

\* A store to the filter keeps the type invariant.
LEMMA StoreKeepsType ==
    ASSUME TypeInv, NEW t \in Threads, NEW from, NEW to \in Pcs \ {"init"},
           to \in ReadingPcs => from \in ReadingPcs, NEW f \in FilterType,
           Store(t, from, to, f)
    PROVE  TypeInv'
<1>1. stack[t] # <<>> /\ Top(t).pc = from
  BY DEF Store, At
<1>2. Top(t) \in OpenFrame
  BY <1>1, TopIsLast DEF TypeInv
<1>3. to \in ReadingPcs => Top(t).fin # NoFile
  BY <1>1, <1>2 DEF OpenFrame
<1>4. [Top(t) EXCEPT !.pc = to] \in OpenFrame
  BY <1>1, <1>3, GotoFrame
<1>5. SetTop(t, [Top(t) EXCEPT !.pc = to])
  BY DEF Store, Goto
<1>6. /\ stack' \in [Threads -> Seq(OpenFrame)]
      /\ stack' \in [Threads -> Seq(Frame)]
  BY <1>1, <1>4, <1>5, SetTopKeepsType
<1> QED BY <1>6 DEF TypeInv, TypeOK, Store, environment, globals

\* Every step of check_flag keeps the type invariant: it stores only words of
\* the file it has opened, or constants.
LEMMA CheckFlagKeepsType ==
    ASSUME TypeInv, NEW t \in Threads, CheckFlag(t)
    PROVE  TypeInv'
<1> USE DEF Pcs, ReadingPcs
<1>0. filter \in FilterType /\ file \in Configs \cup {NoFile}
  BY DEF TypeInv, TypeOK
<1>a. ASSUME stack[t] # <<>>, Top(t).pc \in ReadingPcs
      PROVE  /\ Top(t).fin \in ConfigType
             /\ Top(t).fin.name \in Names \cup {NoName}
             /\ Top(t).fin.method \in Methods
             /\ Top(t).fin.mode \in Words
  <2>1. Top(t) \in OpenFrame
    BY <1>a, TopIsLast DEF TypeInv
  <2>2. Top(t).fin \in ConfigType
    BY <1>a, <2>1 DEF OpenFrame, Frame
  <2> QED BY <2>2 DEF ConfigType
<1>1. CASE TestFlag(t)
  BY <1>1, BranchKeepsType DEF TestFlag
<1>2. CASE OpenConfig(t)
  <2> DEFINE f == [Top(t) EXCEPT !.fin = file,
                     !.pc = IF file = NoFile THEN "reset_force"
                            ELSE IF file.name = NoName THEN "test_name"
                            ELSE "name"]
  <2>1. stack[t] # <<>> /\ SetTop(t, f)
    BY <1>2 DEF OpenConfig, At
  <2>2. Top(t) \in OpenFrame
    BY <2>1, TopIsLast DEF TypeInv
  <2>3. file \in ConfigType \cup {NoFile}
    BY <1>0, UnpackAssumption
  <2>4. f \in OpenFrame
    <3> DEFINE to == IF file = NoFile THEN "reset_force"
                     ELSE IF file.name = NoName THEN "test_name" ELSE "name"
    <3>1. to \in Pcs \ {"init"} /\ (to \in ReadingPcs => file # NoFile)
      OBVIOUS
    <3> HIDE DEF to
    <3> DEFINE g == [Top(t) EXCEPT !.fin = file, !.pc = to]
    <3>2. g \in Frame
      <4> HIDE DEF Pcs, ReadingPcs
      <4> QED BY <2>2, <2>3, <3>1 DEF OpenFrame, Frame
    <3>3. g.pc = to /\ g.fin = file
      <4> HIDE DEF Pcs, ReadingPcs
      <4> QED BY <2>2, <3>1 DEF OpenFrame, Frame
    <3>4. g \in OpenFrame
      BY <3>1, <3>2, <3>3 DEF OpenFrame
    <3> QED BY <3>4 DEF to
  <2>5. /\ stack' \in [Threads -> Seq(OpenFrame)]
        /\ stack' \in [Threads -> Seq(Frame)]
    BY <2>1, <2>4, SetTopKeepsType
  <2>6. filter' \in FilterType
    BY <1>0, <1>2 DEF OpenConfig, FilterType
  <2> QED BY <1>2, <2>5, <2>6 DEF TypeInv, TypeOK, OpenConfig, environment, globals
<1>3. CASE ReadName(t)
  <2>1. [filter EXCEPT !.name = Top(t).fin.name] \in FilterType
    BY <1>0, <1>a, <1>3 DEF ReadName, Store, At, FilterType
  <2> QED BY <1>3, <2>1, StoreKeepsType DEF ReadName
<1>4. CASE TestName(t)
  BY <1>4, BranchKeepsType DEF TestName
<1>5. CASE SetFlag(t)
  <2>1. [filter EXCEPT !.flag = TRUE] \in FilterType
    BY <1>0 DEF FilterType
  <2> QED BY <1>5, <2>1, StoreKeepsType DEF SetFlag
<1>6. CASE ClearMethod(t)
  <2>1. [filter EXCEPT !.method = IF Top(t).fin.method = "" THEN @ ELSE ""]
           \in FilterType
    BY <1>0 DEF FilterType, Methods
  <2> QED BY <1>6, <2>1, StoreKeepsType DEF ClearMethod
<1>7. CASE ReadMethod(t)
  <2>1. [filter EXCEPT !.method =
            IF Top(t).fin.method = "" THEN @ ELSE Top(t).fin.method] \in FilterType
    BY <1>0, <1>a, <1>7 DEF ReadMethod, Store, At, FilterType
  <2> QED BY <1>7, <2>1, StoreKeepsType DEF ReadMethod
<1>8. CASE TestMethod(t)
  BY <1>8, BranchKeepsType DEF TestMethod
<1>9. CASE ClearForce(t)
  <2>1. [filter EXCEPT !.force = FALSE] \in FilterType
    BY <1>0 DEF FilterType
  <2> QED BY <1>9, <2>1, StoreKeepsType DEF ClearForce
<1>10. CASE SetForce(t)
  <2>1. [filter EXCEPT !.force = TRUE] \in FilterType
    BY <1>0 DEF FilterType
  <2> QED BY <1>10, <2>1, StoreKeepsType DEF SetForce
<1>11. CASE SetRebuild(t)
  <2>1. [filter EXCEPT !.rebuild = (filter.method = "force-rebuild")] \in FilterType
    BY <1>0 DEF FilterType
  <2> QED BY <1>11, <2>1, StoreKeepsType DEF SetRebuild
<1>12. CASE ClearMode(t)
  <2>1. [filter EXCEPT !.word = IF Top(t).fin.mode = "" THEN @ ELSE ""]
           \in FilterType
    BY <1>0 DEF FilterType, Words
  <2> QED BY <1>12, <2>1, StoreKeepsType DEF ClearMode
<1>13. CASE ReadMode(t)
  <2>1. [filter EXCEPT !.word =
            IF Top(t).fin.mode = "" THEN @ ELSE Top(t).fin.mode] \in FilterType
    BY <1>0, <1>a, <1>13 DEF ReadMode, Store, At, FilterType
  <2> QED BY <1>13, <2>1, StoreKeepsType DEF ReadMode
<1>14. CASE SetMode(t)
  <2>1. [filter EXCEPT !.mode =
            IF filter.word = "white" THEN "white" ELSE "black"] \in FilterType
    BY <1>0 DEF FilterType, Modes
  <2> QED BY <1>14, <2>1, StoreKeepsType DEF SetMode
<1>15. CASE ResetForce(t)
  <2>1. [filter EXCEPT !.force = FALSE] \in FilterType
    BY <1>0 DEF FilterType
  <2> QED BY <1>15, <2>1, StoreKeepsType DEF ResetForce
<1>16. CASE ResetFlag(t)
  <2>1. [filter EXCEPT !.flag = FALSE] \in FilterType
    BY <1>0 DEF FilterType
  <2> QED BY <1>16, <2>1, StoreKeepsType DEF ResetFlag
<1> QED BY <1>1, <1>2, <1>3, <1>4, <1>5, <1>6, <1>7, <1>8, <1>9, <1>10,
           <1>11, <1>12, <1>13, <1>14, <1>15, <1>16 DEF CheckFlag

\* Every step of the three ways to unpack a DEX file, of write_file and of the
\* choice between them keeps the type invariant.
LEMMA UnpackingKeepsType ==
    ASSUME TypeInv, NEW t \in Threads,
           \/ TestStarted(t) \/ GetFlag(t) \/ GetForce(t) \/ ReadLists(t)
           \/ GetRebuild(t) \/ Unpacking(t)
    PROVE  TypeInv'
<1> USE DEF Pcs, ReadingPcs
<1>a. ASSUME stack[t] # <<>> PROVE Top(t) \in OpenFrame /\ Top(t) \in Frame
  <2>1. Top(t) \in OpenFrame
    BY <1>a, TopIsLast DEF TypeInv
  <2> QED BY <2>1 DEF OpenFrame
<1>1. CASE TestStarted(t)
  BY <1>1, BranchKeepsType DEF TestStarted
<1>2. CASE GetFlag(t)
  BY <1>2, BranchKeepsType DEF GetFlag
<1>3. CASE GetForce(t)
  <2> DEFINE f == [Top(t) EXCEPT !.level = 1,
                     !.pc = IF filter.force THEN "get_lists" ELSE "lookup"]
  <2>1. stack[t] # <<>> /\ SetTop(t, f)
    BY <1>3 DEF GetForce, At
  <2>2. (IF filter.force THEN "get_lists" ELSE "lookup") \in Pcs \ (ReadingPcs \cup {"init"})
    OBVIOUS
  <2>3. 1 \in Levels /\ 0 \in 0 .. NumClassDefs /\ Packed \in Image
    BY UnpackAssumption DEF Levels, CodeState, Image, Packed
  <2>4. f \in OpenFrame
    BY <1>a, <2>1, <2>2, <2>3, FrameUpdates
  <2> QED BY <1>3, <2>1, <2>4, SetTopKeepsType
             DEF TypeInv, TypeOK, GetForce, environment, globals
<1>4. CASE ReadLists(t)
  <2>1. stack[t] # <<>> /\ SetTop(t, [Top(t) EXCEPT !.pc = "get_rebuild"])
    BY <1>4 DEF ReadLists, At, Goto
  <2>2. [Top(t) EXCEPT !.pc = "get_rebuild"] \in OpenFrame
    BY <2>1, GotoFrame
  <2>3. lists' \in {"unread"} \cup Modes
    BY <1>4 DEF ReadLists, TypeInv, TypeOK, FilterType
  <2> QED BY <1>4, <2>1, <2>2, <2>3, SetTopKeepsType
             DEF TypeInv, TypeOK, ReadLists, environment, globals
<1>5. CASE GetRebuild(t)
  <2> DEFINE f == [Top(t) EXCEPT !.pc = "lookup",
                                 !.level = IF filter.rebuild THEN 3 ELSE 2]
  <2>1. stack[t] # <<>> /\ SetTop(t, f)
    BY <1>5 DEF GetRebuild, At
  <2>2. "lookup" \in Pcs \ (ReadingPcs \cup {"init"})
    OBVIOUS
  <2>3. /\ (IF filter.rebuild THEN 3 ELSE 2) \in Levels
        /\ 0 \in 0 .. NumClassDefs /\ Packed \in Image
    BY UnpackAssumption DEF Levels, CodeState, Image, Packed
  <2>4. f \in OpenFrame
    BY <1>a, <2>1, <2>2, <2>3, FrameUpdates
  <2> QED BY <1>5, <2>1, <2>4, SetTopKeepsType
             DEF TypeInv, TypeOK, GetRebuild, environment, globals
<1>6. CASE LookUp(t)
  <2> PICK entry \in BOOLEAN :
         Branch(t, "lookup", Wanted(Top(t), filter.name, entry), "find", "body")
    BY <1>6 DEF LookUp
  <2> QED BY BranchKeepsType
<1>7. CASE Find(t)
  BY <1>7, BranchKeepsType DEF Find
<1>8. CASE Insert(t)
  <2>1. stack[t] # <<>> /\ SetTop(t, AfterInsert(Top(t)))
    BY <1>8 DEF Insert, At
  <2>2. code[Top(t).dex] \in Image /\ NumClassDefs \in Nat
    BY <1>a, <2>1, UnpackAssumption DEF TypeInv, TypeOK, Frame
  <2>3. AfterInsert(Top(t)) \in OpenFrame
    <3> DEFINE l == Top(t).level
               to == CASE l = 1 -> "number" [] l = 2 -> "traverse"
                       [] l = 3 -> "set_started"
               n == IF l = 1 THEN 0 ELSE NumClassDefs
    <3>1. l \in {1, 2, 3}
      BY <1>a, <2>1 DEF Frame, Levels
    <3>2. to \in Pcs \ (ReadingPcs \cup {"init"})
      BY <3>1
    <3>3. n \in 0 .. NumClassDefs /\ 1 \in Levels
      BY <2>2 DEF Levels
    <3> HIDE DEF to, n
    <3>4. [Top(t) EXCEPT !.pc = to, !.todo = n, !.image = code[Top(t).dex]]
             \in OpenFrame
      BY <1>a, <2>1, <2>2, <3>2, <3>3, FrameUpdates
    <3> QED BY <3>4 DEF to, n, AfterInsert
  <2>4. dex_addrs' \subseteq Dexes
    BY <1>8, <1>a, <2>1 DEF Insert, TypeInv, TypeOK, Frame
  <2> QED BY <1>8, <2>1, <2>3, <2>4, SetTopKeepsType
             DEF TypeInv, TypeOK, Insert, environment, globals
<1>9. CASE SetStarted(t)
  <2>1. stack[t] # <<>> /\ SetTop(t, [Top(t) EXCEPT !.pc = "traverse"])
    BY <1>9 DEF SetStarted, At, Goto
  <2>2. [Top(t) EXCEPT !.pc = "traverse"] \in OpenFrame
    BY <2>1, GotoFrame
  <2> QED BY <1>9, <2>1, <2>2, SetTopKeepsType
             DEF TypeInv, TypeOK, SetStarted, environment, globals
<1>10. CASE VisitClass(t)
  <2> DEFINE next == IF Top(t).level = 3 THEN "init" ELSE "traverse"
             g(to) == [Top(t) EXCEPT !.todo = @ - 1, !.pc = to]
             s(to) == [stack[t] EXCEPT ![Len(stack[t])] = g(to)]
  <2>1. stack[t] # <<>> /\ Top(t).todo > 0 /\ stack[t] \in Seq(OpenFrame)
    BY <1>10 DEF VisitClass, At, TypeInv
  <2>2. Top(t).todo - 1 \in 0 .. NumClassDefs
    BY <1>a, <2>1, UnpackAssumption DEF Frame
  <2>3. \A to \in {"traverse", "init"} : g(to) \in OpenFrame
    <3>1. Top(t).todo - 1 \in Classes
      BY <1>a, <2>1, UnpackAssumption DEF Frame, Classes
    <3> QED BY <1>a, <2>1, <2>2, <3>1 DEF OpenFrame, Frame
  <2>5. next \in {"traverse", "init"}
    OBVIOUS
  <2>6. \A to \in {"traverse", "init"} : s(to) \in Seq(OpenFrame)
    <3> HIDE DEF g
    <3> QED BY <2>1, <2>3
  <2>7. PICK q \in Seq(OpenFrame) : stack' = [stack EXCEPT ![t] = q]
    <3>1. \/ \E to \in {"traverse", next} : stack' = [stack EXCEPT ![t] = s(to)]
          \/ \E d \in Dexes : stack' = [stack EXCEPT ![t] = Append(s(next), NewFrame(d))]
      BY <1>10 DEF VisitClass
    <3> HIDE DEF s, g, next
    <3>2. \A d \in Dexes : Append(s(next), NewFrame(d)) \in Seq(OpenFrame)
      BY <2>5, <2>6, NewFrameType
    <3> QED BY <2>5, <2>6, <3>1, <3>2
  <2>8. stack' \in [Threads -> Seq(OpenFrame)]
    BY <2>7 DEF TypeInv
  <2>9. q \in Seq(Frame)
    BY <2>7 DEF OpenFrame
  <2>10. stack' \in [Threads -> Seq(Frame)]
    BY <2>7, <2>9 DEF TypeInv, TypeOK
  <2>11. calls' \in 0 .. MaxCalls
    BY <1>10, UnpackAssumption DEF VisitClass, TypeInv, TypeOK
  <2> QED BY <1>10, <2>8, <2>10, <2>11 DEF TypeInv, TypeOK, VisitClass, globals
<1>16. CASE InitClass(t)
  <2> DEFINE f == [Top(t) EXCEPT !.pc = "traverse", !.inited = @ \cup {Top(t).todo}]
             g == [Top(t) EXCEPT !.pc = "traverse"]
  <2>1. stack[t] # <<>>
    BY <1>16 DEF InitClass, At
  <2>2. CASE Goto(t, "traverse") /\ UNCHANGED code
    <3>1. SetTop(t, g) /\ g \in OpenFrame
      BY <2>1, <2>2, GotoFrame DEF Goto
    <3> QED BY <1>16, <2>1, <2>2, <3>1, SetTopKeepsType
               DEF TypeInv, TypeOK, InitClass, globals
  <2>3. CASE /\ code' = [code EXCEPT ![Top(t).dex][Top(t).todo] = "restored"]
             /\ SetTop(t, f)
    <3>1. Top(t).dex \in Dexes
      BY <1>a, <2>1 DEF Frame
    <3>2. code \in [Dexes -> Image]
      BY DEF TypeInv, TypeOK
    <3>3. Top(t).todo \in Classes
      BY <1>16, <1>a, <2>1 DEF InitClass, At, OpenFrame
    <3>4. [code[Top(t).dex] EXCEPT ![Top(t).todo] = "restored"] \in Image
      BY <3>1, <3>2 DEF Image, CodeState
    <3>5. code' \in [Dexes -> Image]
      BY <2>3, <3>1, <3>2, <3>4
    <3>6. Top(t).inited \cup {Top(t).todo} \in SUBSET Classes
      BY <1>a, <2>1, <3>3 DEF Frame
    <3>7. f \in OpenFrame
      BY <1>a, <2>1, <3>6 DEF OpenFrame, Frame
    <3> QED BY <1>16, <2>1, <2>3, <3>5, <3>7, SetTopKeepsType
               DEF TypeInv, TypeOK, InitClass, globals
  <2> QED BY <1>16, <2>2, <2>3 DEF InitClass
<1>11. CASE EndTraversal(t)
  <2> DEFINE f == [Top(t) EXCEPT !.pc = "number",
                     !.image = IF Top(t).level = 3 THEN code[Top(t).dex] ELSE @]
  <2>1. stack[t] # <<>> /\ SetTop(t, f)
    BY <1>11 DEF EndTraversal, At
  <2>2. code[Top(t).dex] \in Image
    BY <1>a, <2>1 DEF TypeInv, TypeOK, Frame
  <2>3. f \in OpenFrame
    <3> DEFINE i == IF Top(t).level = 3 THEN code[Top(t).dex] ELSE Top(t).image
    <3>1. i \in Image
      BY <1>a, <2>1, <2>2 DEF Frame
    <3> HIDE DEF i
    <3>2. [Top(t) EXCEPT !.pc = "number", !.image = i] \in OpenFrame
      BY <1>a, <2>1, <3>1 DEF OpenFrame, Frame
    <3> QED BY <3>2 DEF i
  <2> QED BY <1>11, <2>1, <2>2, <2>3, SetTopKeepsType
             DEF TypeInv, TypeOK, EndTraversal, environment, globals
<1>12. CASE TakeNumber(t)
  <2> DEFINE f == [Top(t) EXCEPT !.pc = "probe", !.num = dex_num]
  <2>1. stack[t] # <<>> /\ SetTop(t, f)
    BY <1>12 DEF TakeNumber, At
  <2>2. dex_num \in Nums /\ dex_num' \in Nums
    BY <1>12, UnpackAssumption DEF TakeNumber, TypeInv, TypeOK, Nums
  <2>3. f \in OpenFrame
    BY <1>a, <2>1, <2>2 DEF OpenFrame, Frame
  <2>4. dumps' \subseteq Nums \X Dexes \X Levels
    BY <1>12, <1>a, <2>1, <2>2 DEF TakeNumber, TypeInv, TypeOK, Frame
  <2> QED BY <1>12, <2>1, <2>2, <2>3, <2>4, SetTopKeepsType
             DEF TypeInv, TypeOK, TakeNumber, environment, globals
<1>13. CASE Probe(t)
  <2> DEFINE g(to) == [Top(t) EXCEPT !.pc = to]
             f == [Top(t) EXCEPT !.pc = "create", !.missed = TRUE]
  <2>1. stack[t] # <<>>
    BY <1>13 DEF Probe, At
  <2>2. g("body") \in OpenFrame /\ g("create") \in OpenFrame
    BY <2>1, GotoFrame
  <2>6. f \in OpenFrame
    BY <1>a, <2>1 DEF OpenFrame, Frame
  <2>3. SetTop(t, g("body")) \/ SetTop(t, g("create")) \/ SetTop(t, f)
    BY <1>13 DEF Probe, Goto
  <2> HIDE DEF f, g
  <2>4. \E h \in OpenFrame : SetTop(t, h)
    BY <2>2, <2>3, <2>6
  <2>5. /\ stack' \in [Threads -> Seq(OpenFrame)]
        /\ stack' \in [Threads -> Seq(Frame)]
    BY <2>1, <2>4, SetTopKeepsType
  <2> QED BY <1>13, <2>5 DEF TypeInv, TypeOK, Probe, environment, globals
<1>b. ASSUME stack[t] # <<>>, NEW data \in {"empty", "torn", "full"}
      PROVE  Contents(Top(t), data) \in DumpFile
  BY <1>a, <1>b DEF DumpFile, Frame, Contents, TypeInv, TypeOK
<1>14. CASE CreateDump(t)
  <2>1. stack[t] # <<>>
    BY <1>14 DEF CreateDump, At
  <2>2. \E to \in {"write", "body"} : SetTop(t, [Top(t) EXCEPT !.pc = to])
    BY <1>14 DEF CreateDump, Goto
  <2>3. disk' \in [Nums \X Sizes -> DumpFile]
    BY <1>14, <1>b, <2>1 DEF CreateDump, TypeInv, TypeOK
  <2>4. \A to \in {"write", "body"} : [Top(t) EXCEPT !.pc = to] \in OpenFrame
    BY <2>1, GotoFrame
  <2> QED BY <1>14, <2>1, <2>2, <2>3, <2>4, SetTopKeepsType
             DEF TypeInv, TypeOK, CreateDump, environment, globals
<1>15. CASE WriteDump(t)
  <2>1. stack[t] # <<>> /\ SetTop(t, [Top(t) EXCEPT !.pc = "body"])
    BY <1>15 DEF WriteDump, At, Goto
  <2>2. disk' \in [Nums \X Sizes -> DumpFile]
    <3>1. CASE UNCHANGED disk
      BY <3>1 DEF TypeInv, TypeOK
    <3>2. ASSUME NEW data \in {"full", "torn"},
                 disk' = [disk EXCEPT ![DumpName(Top(t))] = Contents(Top(t), data)]
          PROVE  disk' \in [Nums \X Sizes -> DumpFile]
      BY <1>b, <2>1, <3>2 DEF TypeInv, TypeOK
    <3> QED BY <1>15, <3>1, <3>2 DEF WriteDump
  <2>3. [Top(t) EXCEPT !.pc = "body"] \in OpenFrame
    BY <2>1, GotoFrame
  <2> QED BY <1>15, <2>1, <2>2, <2>3, SetTopKeepsType
             DEF TypeInv, TypeOK, WriteDump, environment, globals
<1> QED BY <1>1, <1>2, <1>3, <1>4, <1>5, <1>6, <1>7, <1>8, <1>9, <1>10,
           <1>11, <1>12, <1>13, <1>14, <1>15, <1>16 DEF Unpacking

\* Calling and leaving a method, the user and a restart keep the type
\* invariant.
LEMMA OthersKeepType ==
    ASSUME TypeInv,
           \/ \E t \in Threads : Invoke(t) \/ RunBody(t)
           \/ WriteConfig
           \/ Restart
    PROVE  TypeInv'
<1>1. ASSUME NEW t \in Threads, Invoke(t) PROVE TypeInv'
  <2>1. \A d \in Dexes : NewFrame(d) \in OpenFrame /\ NewFrame(d) \in Frame
    BY NewFrameType
  <2>2. /\ stack' \in [Threads -> Seq(OpenFrame)]
        /\ stack' \in [Threads -> Seq(Frame)]
    BY <1>1, <2>1 DEF Invoke, TypeInv, TypeOK
  <2>3. calls' \in 0 .. MaxCalls
    BY <1>1, UnpackAssumption DEF Invoke, TypeInv, TypeOK
  <2> QED BY <1>1, <2>2, <2>3 DEF TypeInv, TypeOK, Invoke, globals
<1>2. ASSUME NEW t \in Threads, RunBody(t) PROVE TypeInv'
  <2>1. stack[t] # <<>> /\ stack[t] \in Seq(OpenFrame) /\ stack[t] \in Seq(Frame)
    BY <1>2 DEF RunBody, At, TypeInv, TypeOK
  <2>2. Len(stack[t]) \in Nat \ {0}
    BY <2>1
  <2>3. /\ SubSeq(stack[t], 1, Len(stack[t]) - 1) \in Seq(OpenFrame)
        /\ SubSeq(stack[t], 1, Len(stack[t]) - 1) \in Seq(Frame)
    BY <2>1, <2>2
  <2>4. /\ stack' \in [Threads -> Seq(OpenFrame)]
        /\ stack' \in [Threads -> Seq(Frame)]
    BY <1>2, <2>3 DEF RunBody, TypeInv, TypeOK
  <2>5. Top(t) \in Frame
    BY <2>1, TopIsLast DEF TypeInv, TypeOK
  <2>6. code' \in [Dexes -> Image]
    BY <1>2, <2>5 DEF RunBody, TypeInv, TypeOK, Frame, Image, CodeState
  <2> QED BY <1>2, <2>4, <2>6 DEF TypeInv, TypeOK, RunBody, globals
<1>3. CASE WriteConfig
  BY <1>3 DEF WriteConfig, TypeInv, TypeOK, globals
<1>4. CASE Restart
  <2>1. /\ stack' \in [Threads -> Seq(OpenFrame)]
        /\ stack' \in [Threads -> Seq(Frame)]
    BY <1>4 DEF Restart
  <2>2. filter' \in FilterType
    BY <1>4 DEF Restart, FreshFilters
  <2>3. dex_num' \in Nums /\ restarts' \in 0 .. MaxRestarts
    BY <1>4, UnpackAssumption DEF Restart, TypeInv, TypeOK, Nums
  <2>4. code' \in [Dexes -> Image]
    BY <1>4 DEF Restart, Image, Packed, CodeState
  <2> QED BY <1>4, <2>1, <2>2, <2>3, <2>4 DEF Restart, TypeInv, TypeOK
<1> QED BY <1>1, <1>2, <1>3, <1>4

\* Every step keeps the type invariant.
LEMMA TypeInvNext == TypeInv /\ [Next]_vars => TypeInv'
<1> SUFFICES ASSUME TypeInv, [Next]_vars PROVE TypeInv'
  OBVIOUS
<1>1. CASE UNCHANGED vars
  BY <1>1 DEF TypeInv, TypeOK, vars
<1>2. ASSUME NEW t \in Threads, Run(t) PROVE TypeInv'
  BY <1>2, CheckFlagKeepsType, UnpackingKeepsType, OthersKeepType DEF Run
<1> QED BY <1>1, <1>2, OthersKeepType DEF Next

\* The shared state of the hook and every activation keep their types, whatever
\* threads, nested activations, disk faults and restarts do.
THEOREM TypeOKHolds == Spec => []TypeOK
<1>1. TypeInv => TypeOK
  BY DEF TypeInv
<1> QED BY <1>1, TypeInvInit, TypeInvNext, PTL DEF Spec

-----------------------------------------------------------------------------
(***************************************************************************)
(* LEB128: what encode writes, the reader of a class data item gets back.  *)
(* Induction over the numbers of an item is a smallest counterexample.     *)
(***************************************************************************)

\* The numbers that EncodeUnsignedLeb128 is given: uint32_t.
LebValues == {v \in Nat : v < 4294967296}

\* The powers that occur.
LEMMA LebPowers ==
    /\ 128 ^ 0 = 1 /\ 128 ^ 1 = 128 /\ 128 ^ 2 = 16384 /\ 128 ^ 3 = 2097152
    /\ 128 ^ 4 = 268435456 /\ 128 ^ 5 = 34359738368
BY SMT

\* The i-th group of seven bits.
LebDigit(v, i) == (v \div 128 ^ (i - 1)) % 128

\* v has n groups of seven bits.
LebLong(v, n) == (n = 5 \/ v < 128 ^ n) /\ (n = 1 \/ v >= 128 ^ (n - 1))

\* A number has its groups: as many as it needs, and one at least.
LEMMA LebLength ==
    ASSUME NEW v \in LebValues
    PROVE  \E n \in 1 .. 5 :
              /\ LebLong(v, n)
              /\ EncodeUnsignedLeb128(v) =
                     [i \in 1 .. n |-> LebDigit(v, i) + (IF i < n THEN 128 ELSE 0)]
<1> DEFINE n == CHOOSE k \in 1 .. 5 : LebLong(v, k)
<1>1. \E k \in 1 .. 5 : LebLong(v, k)
  <2>1. v \in Nat /\ v < 34359738368
    BY SMT DEF LebValues
  <2>2. CASE v < 128
    <3>1. LebLong(v, 1)
      BY SMT, <2>1, <2>2, LebPowers DEF LebLong
    <3> QED BY SMT, <3>1
  <2>3. CASE v >= 128 /\ v < 16384
    <3>1. LebLong(v, 2)
      BY SMT, <2>1, <2>3, LebPowers DEF LebLong
    <3> QED BY SMT, <3>1
  <2>4. CASE v >= 16384 /\ v < 2097152
    <3>1. LebLong(v, 3)
      BY SMT, <2>1, <2>4, LebPowers DEF LebLong
    <3> QED BY SMT, <3>1
  <2>5. CASE v >= 2097152 /\ v < 268435456
    <3>1. LebLong(v, 4)
      BY SMT, <2>1, <2>5, LebPowers DEF LebLong
    <3> QED BY SMT, <3>1
  <2>6. CASE v >= 268435456
    <3>1. LebLong(v, 5)
      BY SMT, <2>1, <2>6, LebPowers DEF LebLong
    <3> QED BY SMT, <3>1
  <2> QED BY SMT, <2>1, <2>2, <2>3, <2>4, <2>5, <2>6
<1>2. n \in 1 .. 5 /\ LebLong(v, n)
  BY SMT, <1>1
<1>3. EncodeUnsignedLeb128(v) = [i \in 1 .. n |-> LebDigit(v, i) + (IF i < n THEN 128 ELSE 0)]
  BY SMT DEF EncodeUnsignedLeb128, LebLong, LebDigit
<1> HIDE DEF n
<1> QED BY SMT, <1>2, <1>3

\* Division by powers of 128, one after the other.
LEMMA LebDivide ==
    ASSUME NEW v \in Nat
    PROVE  /\ v \div 1 = v /\ v \div 128 \in Nat /\ v % 128 \in 0 .. 127
           /\ v = (v % 128) + (v \div 128) * 128
           /\ (v \div 128) \div 128 = v \div 16384
           /\ (v \div 16384) \div 128 = v \div 2097152
           /\ (v \div 2097152) \div 128 = v \div 268435456
BY SMT

\* Each group is a number of seven bits.
LEMMA LebDigitRange ==
    ASSUME NEW v \in LebValues
    PROVE  \A i \in 1 .. 5 : LebDigit(v, i) \in 0 .. 127
<1>1. /\ LebDigit(v, 1) = (v \div 1) % 128 /\ LebDigit(v, 2) = (v \div 128) % 128
      /\ LebDigit(v, 3) = (v \div 16384) % 128 /\ LebDigit(v, 4) = (v \div 2097152) % 128
      /\ LebDigit(v, 5) = (v \div 268435456) % 128
  BY SMT, LebPowers DEF LebDigit
<1>2. v \in Nat /\ v < 4294967296
  BY SMT DEF LebValues
<1>3. /\ LebDigit(v, 1) \in 0 .. 127 /\ LebDigit(v, 2) \in 0 .. 127 /\ LebDigit(v, 3) \in 0 .. 127
      /\ LebDigit(v, 4) \in 0 .. 127 /\ LebDigit(v, 5) \in 0 .. 127
  BY SMT, <1>1, <1>2
<1> SUFFICES ASSUME NEW i \in 1 .. 5 PROVE LebDigit(v, i) \in 0 .. 127
  BY SMT
<1>4. i = 1 \/ i = 2 \/ i = 3 \/ i = 4 \/ i = 5
  BY SMT
<1> QED BY SMT, <1>3, <1>4

\* The groups together are the number again.
LEMMA LebDigits ==
    ASSUME NEW v \in LebValues, NEW n \in 1 .. 5, LebLong(v, n)
    PROVE  /\ n = 1 => v = LebDigit(v, 1)
           /\ n = 2 => v = LebDigit(v, 1) + LebDigit(v, 2) * 128
           /\ n = 3 => v = LebDigit(v, 1) + LebDigit(v, 2) * 128 + LebDigit(v, 3) * 16384
           /\ n = 4 => v = LebDigit(v, 1) + LebDigit(v, 2) * 128 + LebDigit(v, 3) * 16384
                           + LebDigit(v, 4) * 2097152
           /\ n = 5 => v = LebDigit(v, 1) + LebDigit(v, 2) * 128 + LebDigit(v, 3) * 16384
                           + LebDigit(v, 4) * 2097152 + LebDigit(v, 5) * 268435456
<1>1. v \in Nat /\ v < 4294967296
  BY SMT DEF LebValues
<1>2. PICK q1 \in Nat : q1 = v \div 128 /\ v = (v % 128) + q1 * 128
  BY SMT, <1>1, LebDivide
<1>3. PICK q2 \in Nat : q2 = v \div 16384 /\ q1 = (q1 % 128) + q2 * 128
  BY SMT, <1>1, <1>2, LebDivide
<1>4. PICK q3 \in Nat : q3 = v \div 2097152 /\ q2 = (q2 % 128) + q3 * 128
  BY SMT, <1>1, <1>3, LebDivide
<1>5. PICK q4 \in Nat : q4 = v \div 268435456 /\ q3 = (q3 % 128) + q4 * 128
  BY SMT, <1>1, <1>4, LebDivide
<1>6. /\ LebDigit(v, 1) = v % 128 /\ LebDigit(v, 2) = q1 % 128 /\ LebDigit(v, 3) = q2 % 128
      /\ LebDigit(v, 4) = q3 % 128 /\ LebDigit(v, 5) = q4 % 128
  <2>1. v \div 1 = v
    BY SMT, <1>1
  <2> QED BY SMT, <1>2, <1>3, <1>4, <1>5, <2>1, LebPowers DEF LebDigit
<1>7. /\ v % 128 \in 0 .. 127 /\ q1 % 128 \in 0 .. 127 /\ q2 % 128 \in 0 .. 127
      /\ q3 % 128 \in 0 .. 127 /\ q4 % 128 \in 0 .. 127
  BY SMT, <1>1
<1>8. /\ v = (v % 128) + (q1 % 128) * 128 + (q2 % 128) * 16384 + (q3 % 128) * 2097152
             + q4 * 268435456
      /\ q4 = q4 % 128
  <2>1. q4 < 128
    BY SMT, <1>1, <1>5
  <2> QED BY SMT, <1>1, <1>2, <1>3, <1>4, <1>5, <1>7, <2>1
<1>9. CASE n = 1
  <2>1. v < 128
    BY SMT, <1>9, LebPowers DEF LebLong
  <2> QED BY SMT, <1>1, <1>6, <1>9, <2>1
<1>10. CASE n = 2
  <2>1. v < 16384
    BY SMT, <1>10, LebPowers DEF LebLong
  <2>2. q1 < 128
    BY SMT, <1>1, <1>2, <2>1
  <2> QED BY SMT, <1>1, <1>2, <1>6, <1>7, <1>10, <2>2
<1>11. CASE n = 3
  <2>1. v < 2097152
    BY SMT, <1>11, LebPowers DEF LebLong
  <2>2. q2 < 128 /\ q3 = 0 /\ q4 = 0
    BY SMT, <1>1, <1>3, <1>4, <1>5, <2>1
  <2> QED BY SMT, <1>6, <1>7, <1>8, <1>11, <2>2
<1>12. CASE n = 4
  <2>1. v < 268435456
    BY SMT, <1>12, LebPowers DEF LebLong
  <2>2. q4 = 0
    BY SMT, <1>1, <1>5, <2>1
  <2> QED BY SMT, <1>6, <1>7, <1>8, <1>12, <2>2
<1>13. CASE n = 5
  BY SMT, <1>6, <1>7, <1>8, <1>13
<1>14. n = 1 \/ n = 2 \/ n = 3 \/ n = 4 \/ n = 5
  BY SMT
<1> QED BY SMT, <1>9, <1>10, <1>11, <1>12, <1>13, <1>14

\* The function of DecodeUnsignedLeb128 that adds up n groups.
LebIsSum(w, bytes, at, n) ==
    w = [i \in 0 .. n |->
            IF i = 0 THEN 0 ELSE w[i - 1] + (bytes[at + i - 1] % 128) * 128 ^ (i - 1)]

\* It exists, whatever the bytes.
LEMMA LebSumExists ==
    ASSUME NEW bytes, NEW at, NEW n \in 1 .. 5
    PROVE  \E w : LebIsSum(w, bytes, at, n)
<1> DEFINE g(i) == (bytes[at + i - 1] % 128) * 128 ^ (i - 1)
           s1 == 0 + g(1)
           s2 == s1 + g(2)
           s3 == s2 + g(3)
           s4 == s3 + g(4)
           s5 == s4 + g(5)
           w == [i \in 0 .. n |-> IF i = 0 THEN 0 ELSE IF i = 1 THEN s1 ELSE IF i = 2 THEN s2 ELSE
                                  IF i = 3 THEN s3 ELSE IF i = 4 THEN s4 ELSE s5]
<1> HIDE DEF g
<1>1. \A i \in 0 .. n : w[i] = IF i = 0 THEN 0 ELSE w[i - 1] + g(i)
  <2> TAKE i \in 0 .. n
  <2>1. i = 0 \/ i = 1 \/ i = 2 \/ i = 3 \/ i = 4 \/ i = 5
    BY SMT
  <2> QED BY SMT, <2>1
<1>2. w = [i \in 0 .. n |-> w[i]]
  BY SMT
<1> HIDE DEF w
<1>3. w = [i \in 0 .. n |-> IF i = 0 THEN 0 ELSE w[i - 1] + g(i)]
  BY SMT, <1>1, <1>2
<1>4. LebIsSum(w, bytes, at, n)
  BY SMT, <1>3 DEF LebIsSum, g
<1> QED BY SMT, <1>4

\* bytes holds the sequence s from at on.
LebHolds(bytes, at, s) == \A i \in 1 .. Len(s) : bytes[at + i - 1] = s[i]

\* gerat::EncodeUnsignedLeb128 and art::DecodeUnsignedLeb128 fit: wherever the bytes of a number
\* lie, the reader gets that number and is left behind its last byte.
LEMMA LebRoundTrip ==
    ASSUME NEW v \in LebValues, NEW bytes, NEW at \in Nat,
           LebHolds(bytes, at, EncodeUnsignedLeb128(v))
    PROVE  DecodeUnsignedLeb128(bytes, at) =
               [value |-> v, next |-> at + Len(EncodeUnsignedLeb128(v))]
<1>1. PICK n \in 1 .. 5 :
              /\ LebLong(v, n)
              /\ EncodeUnsignedLeb128(v) =
                     [i \in 1 .. n |-> LebDigit(v, i) + (IF i < n THEN 128 ELSE 0)]
  BY SMT, LebLength
<1>2. Len(EncodeUnsignedLeb128(v)) = n
  BY SMT, <1>1
<1>3. \A i \in 1 .. n : bytes[at + i - 1] = LebDigit(v, i) + (IF i < n THEN 128 ELSE 0)
  BY SMT, <1>1, <1>2 DEF LebHolds
<1>4. \A i \in 1 .. n : /\ LebDigit(v, i) \in 0 .. 127
                        /\ bytes[at + i - 1] \in 0 .. 255
                        /\ i = n => bytes[at + i - 1] < 128
                        /\ i # n => bytes[at + i - 1] >= 128
                        /\ bytes[at + i - 1] % 128 = LebDigit(v, i)
  <2> TAKE i \in 1 .. n
  <2>1. LebDigit(v, i) \in 0 .. 127
    <3>1. i \in 1 .. 5
      BY SMT
    <3> QED BY SMT, <3>1, LebDigitRange
  <2>2. bytes[at + i - 1] = LebDigit(v, i) + (IF i < n THEN 128 ELSE 0)
    BY SMT, <1>3
  <2> QED BY SMT, <2>1, <2>2
<1> DEFINE Ends(k) == /\ k = 5 \/ bytes[at + k - 1] < 128
                      /\ \A i \in 1 .. k - 1 : bytes[at + i - 1] >= 128
           m == CHOOSE k \in 1 .. 5 : Ends(k)
           value[i \in 0 .. m] ==
               IF i = 0 THEN 0 ELSE value[i - 1] + (bytes[at + i - 1] % 128) * 128 ^ (i - 1)
<1>5. m = n
  <2>1. Ends(n)
    <3>1. bytes[at + n - 1] < 128
      BY SMT, <1>4
    <3>2. ASSUME NEW i \in 1 .. n - 1 PROVE bytes[at + i - 1] >= 128
      <4>1. i \in 1 .. n /\ i # n
        BY SMT
      <4> QED BY <1>4, <4>1, Zenon
    <3> QED BY SMT, <3>1, <3>2
  <2>2. ASSUME NEW k \in 1 .. 5, Ends(k) PROVE k = n
    <3>1. CASE k < n
      <4>1. k \in 1 .. n /\ k # n /\ k # 5
        BY SMT, <3>1
      <4>2. bytes[at + k - 1] < 128
        BY SMT, <2>2, <4>1
      <4>3. bytes[at + k - 1] >= 128 /\ bytes[at + k - 1] \in 0 .. 255
        BY <1>4, <4>1, Zenon
      <4> QED BY SMT, <4>2, <4>3
    <3>2. CASE k > n
      <4>1. n \in 1 .. (k - 1) /\ n \in 1 .. n
        BY SMT, <3>2
      <4>2. bytes[at + n - 1] >= 128 /\ bytes[at + n - 1] < 128 /\ bytes[at + n - 1] \in 0 .. 255
        <5>1. bytes[at + n - 1] >= 128
          BY <2>2, <4>1, Zenon
        <5>2. bytes[at + n - 1] < 128 /\ bytes[at + n - 1] \in 0 .. 255
          BY <1>4, <4>1, Zenon
        <5> QED BY <5>1, <5>2, Zenon
      <4> QED BY SMT, <4>2
    <3> QED BY SMT, <3>1, <3>2
  <2> HIDE DEF Ends
  <2> QED BY SMT, <2>1, <2>2
<1>6. DecodeUnsignedLeb128(bytes, at) = [value |-> value[m], next |-> at + m]
  BY SMT DEF DecodeUnsignedLeb128
<1> HIDE DEF m
<1>7. LebIsSum(value, bytes, at, m)
  <2>1. m \in 1 .. 5
    BY SMT, <1>5
  <2>2. \E w : LebIsSum(w, bytes, at, m)
    BY <2>1, LebSumExists
  <2> QED BY <2>2, Zenon DEF LebIsSum
<1> HIDE DEF value
<1>8. value[n] = v
  <2>1. /\ value[0] = 0
        /\ \A i \in 1 .. n : value[i] = value[i - 1] + LebDigit(v, i) * 128 ^ (i - 1)
    <3>1. /\ value[0] = 0
          /\ \A i \in 1 .. n : value[i] = value[i - 1] + (bytes[at + i - 1] % 128) * 128 ^ (i - 1)
      BY SMT, <1>5, <1>7 DEF LebIsSum
    <3> QED BY SMT, <1>4, <3>1
  <2>2. \A i \in 1 .. 5 : LebDigit(v, i) \in 0 .. 127
    BY SMT, LebDigitRange
  <2>3. /\ value[1] = 0 + LebDigit(v, 1) * 1
        /\ n >= 2 => value[2] = value[1] + LebDigit(v, 2) * 128
        /\ n >= 3 => value[3] = value[2] + LebDigit(v, 3) * 16384
        /\ n >= 4 => value[4] = value[3] + LebDigit(v, 4) * 2097152
        /\ n >= 5 => value[5] = value[4] + LebDigit(v, 5) * 268435456
    <3>1. ASSUME NEW i \in 1 .. 5, i <= n
          PROVE  value[i] = value[i - 1] + LebDigit(v, i) * 128 ^ (i - 1)
      BY SMT, <2>1, <3>1
    <3>2. value[1] = value[0] + LebDigit(v, 1) * 128 ^ 0
      BY SMT, <3>1
    <3>3. n >= 2 => value[2] = value[1] + LebDigit(v, 2) * 128 ^ 1
      BY SMT, <3>1
    <3>4. n >= 3 => value[3] = value[2] + LebDigit(v, 3) * 128 ^ 2
      BY SMT, <3>1
    <3>5. n >= 4 => value[4] = value[3] + LebDigit(v, 4) * 128 ^ 3
      BY SMT, <3>1
    <3>6. n >= 5 => value[5] = value[4] + LebDigit(v, 5) * 128 ^ 4
      BY SMT, <3>1
    <3> QED BY SMT, <2>1, <3>2, <3>3, <3>4, <3>5, <3>6, LebPowers
  <2>4. n = 1 \/ n = 2 \/ n = 3 \/ n = 4 \/ n = 5
    BY SMT
  <2>5. /\ LebDigit(v, 1) \in Int /\ LebDigit(v, 2) \in Int /\ LebDigit(v, 3) \in Int
        /\ LebDigit(v, 4) \in Int /\ LebDigit(v, 5) \in Int
    BY SMT, <2>2
  <2>6. /\ n = 1 => v = LebDigit(v, 1)
        /\ n = 2 => v = LebDigit(v, 1) + LebDigit(v, 2) * 128
        /\ n = 3 => v = LebDigit(v, 1) + LebDigit(v, 2) * 128 + LebDigit(v, 3) * 16384
        /\ n = 4 => v = LebDigit(v, 1) + LebDigit(v, 2) * 128 + LebDigit(v, 3) * 16384
                        + LebDigit(v, 4) * 2097152
        /\ n = 5 => v = LebDigit(v, 1) + LebDigit(v, 2) * 128 + LebDigit(v, 3) * 16384
                        + LebDigit(v, 4) * 2097152 + LebDigit(v, 5) * 268435456
    BY <1>1, LebDigits
  <2>7. CASE n = 1
    BY SMT, <2>3, <2>5, <2>6, <2>7
  <2>8. CASE n = 2
    BY SMT, <2>3, <2>5, <2>6, <2>8
  <2>9. CASE n = 3
    BY SMT, <2>3, <2>5, <2>6, <2>9
  <2>10. CASE n = 4
    BY SMT, <2>3, <2>5, <2>6, <2>10
  <2>11. CASE n = 5
    BY SMT, <2>3, <2>5, <2>6, <2>11
  <2> QED BY SMT, <2>4, <2>7, <2>8, <2>9, <2>10, <2>11
<1> QED BY SMT, <1>2, <1>5, <1>6, <1>8

\* Induction over the naturals, with a set for the statement: a smallest number outside it
\* would not be 0, and the one before it would be inside.
LEMMA LebNatInduction ==
    ASSUME NEW S, 0 \in S, \A k \in Nat : k \in S => k + 1 \in S
    PROVE  \A k \in Nat : k \in S
<1> DEFINE T == Nat \ S
<1>1. ASSUME T # {} PROVE FALSE
  <2>1. T \in SUBSET Nat
    OBVIOUS
  <2>2. PICK x \in T : \A y \in T : ~(<<y, x>> \in OpToRel(<, Nat))
    BY <1>1, <2>1, NatLessThanWellFounded, WFMin
  <2>3. \A y \in T : ~(y < x)
    BY <2>1, <2>2 DEF OpToRel
  <2>4. x \in Nat /\ x \notin S
    BY <2>2
  <2>5. x - 1 \in Nat /\ x - 1 < x /\ (x - 1) + 1 = x
    BY <2>4
  <2>6. x - 1 \in S
    BY <2>3, <2>5
  <2> QED BY <2>4, <2>5, <2>6
<1> QED BY <1>1

\* The function in FlattenSeq.
LebIsFlat(w, seqs, n) == w = [i \in 1 .. n |-> IF i = 1 THEN seqs[i] ELSE w[i - 1] \o seqs[i]]

\* It exists.
LEMMA LebFlatExists ==
    ASSUME NEW B, NEW n \in Nat \ {0}, NEW seqs \in [1 .. n -> Seq(B)]
    PROVE  \E w : LebIsFlat(w, seqs, n)
<1> DEFINE P(k) == k + 1 <= n => \E w \in [1 .. (k + 1) -> Seq(B)] :
                       w[1] = seqs[1] /\ \A j \in 2 .. (k + 1) : w[j] = w[j - 1] \o seqs[j]
           S == {k \in Nat : P(k)}
<1>1. P(0)
  <2> DEFINE w == [j \in 1 .. 1 |-> seqs[1]]
  <2>1. w \in [1 .. 1 -> Seq(B)] /\ w[1] = seqs[1] /\ \A j \in 2 .. 1 : w[j] = w[j - 1] \o seqs[j]
    OBVIOUS
  <2> HIDE DEF w
  <2> QED BY <2>1
<1>2. ASSUME NEW k \in Nat, P(k) PROVE P(k + 1)
  <2> SUFFICES ASSUME (k + 1) + 1 <= n
               PROVE  \E w \in [1 .. ((k + 1) + 1) -> Seq(B)] :
                        w[1] = seqs[1] /\ \A j \in 2 .. ((k + 1) + 1) : w[j] = w[j - 1] \o seqs[j]
    OBVIOUS
  <2>1. PICK v \in [1 .. (k + 1) -> Seq(B)] :
            v[1] = seqs[1] /\ \A j \in 2 .. (k + 1) : v[j] = v[j - 1] \o seqs[j]
    <3>1. k + 1 <= n
      OBVIOUS
    <3> QED BY <1>2, <3>1, Zenon
  <2>2. PICK m \in Nat : m = k + 2
    OBVIOUS
  <2> DEFINE w == [j \in 1 .. m |-> IF j = m THEN v[m - 1] \o seqs[m] ELSE v[j]]
  <2>3. m - 1 \in 1 .. (k + 1) /\ m \in 1 .. n /\ \A j \in 1 .. m : j # m => j \in 1 .. (k + 1)
    BY <2>2
  <2>4. v[m - 1] \in Seq(B) /\ seqs[m] \in Seq(B)
    BY <2>3
  <2>5. v[m - 1] \o seqs[m] \in Seq(B)
    BY <2>4, ConcatProperties
  <2>6. w \in [1 .. m -> Seq(B)]
    BY <2>3, <2>5
  <2>7. w[1] = seqs[1]
    BY <2>1, <2>2
  <2>8. ASSUME NEW j \in 2 .. m PROVE w[j] = w[j - 1] \o seqs[j]
    <3>1. j - 1 \in 1 .. m /\ j - 1 # m /\ j \in 1 .. m
      BY <2>2
    <3>2. w[j - 1] = v[j - 1]
      BY <3>1
    <3>3. CASE j = m
      BY <3>1, <3>2, <3>3
    <3>4. CASE j # m
      <4>1. j \in 2 .. (k + 1) /\ w[j] = v[j]
        BY <2>2, <3>1, <3>4
      <4> QED BY <2>1, <3>2, <4>1
    <3> QED BY <3>3, <3>4
  <2> HIDE DEF w
  <2>9. m = (k + 1) + 1
    BY <2>2
  <2> QED BY <2>6, <2>7, <2>8, <2>9
<1>3. 0 \in S /\ \A k \in Nat : k \in S => k + 1 \in S
  <2> HIDE DEF P
  <2> QED BY <1>1, <1>2
<1>4. \A k \in Nat : k \in S
  <2> HIDE DEF S
  <2> QED BY <1>3, LebNatInduction
<1>5. PICK m \in Nat : m + 1 = n
  <2>1. n - 1 \in Nat /\ (n - 1) + 1 = n
    OBVIOUS
  <2> QED BY <2>1
<1>6. P(m)
  <2> HIDE DEF P
  <2> QED BY <1>4
<1>7. PICK w \in [1 .. n -> Seq(B)] :
          w[1] = seqs[1] /\ \A j \in 2 .. n : w[j] = w[j - 1] \o seqs[j]
  <2>1. m + 1 <= n
    BY <1>5
  <2>2. \E w \in [1 .. (m + 1) -> Seq(B)] :
            w[1] = seqs[1] /\ \A j \in 2 .. (m + 1) : w[j] = w[j - 1] \o seqs[j]
    BY <1>6, <2>1, Zenon
  <2> QED BY <1>5, <2>2, Zenon
<1>8. \A i \in 1 .. n : w[i] = IF i = 1 THEN seqs[i] ELSE w[i - 1] \o seqs[i]
  <2> TAKE i \in 1 .. n
  <2>1. CASE i = 1
    BY <1>7, <2>1
  <2>2. CASE i # 1
    <3>1. i \in 2 .. n
      BY <2>2
    <3> QED BY <1>7, <2>2, <3>1
  <2> QED BY <2>1, <2>2
<1>9. LebIsFlat(w, seqs, n)
  BY <1>8 DEF LebIsFlat
<1> QED BY <1>9

\* Its values are sequences.
LEMMA LebFlatTypes ==
    ASSUME NEW B, NEW n \in Nat, NEW seqs \in [1 .. n -> Seq(B)], NEW w, LebIsFlat(w, seqs, n),
           NEW i \in 1 .. n
    PROVE  w[i] \in Seq(B)
<1>1. \A k \in 1 .. n : (k = 1 => w[k] = seqs[k]) /\ (k # 1 => w[k] = w[k - 1] \o seqs[k])
  BY DEF LebIsFlat
<1> DEFINE S == {k \in Nat : k + 1 <= n => w[k + 1] \in Seq(B)}
<1>2. 0 \in S
  BY <1>1
<1>3. ASSUME NEW k \in Nat, k \in S PROVE k + 1 \in S
  <2> SUFFICES ASSUME (k + 1) + 1 <= n PROVE w[(k + 1) + 1] \in Seq(B)
    OBVIOUS
  <2>1. PICK m \in 1 .. n : m = (k + 1) + 1
    OBVIOUS
  <2>2. m # 1 /\ m - 1 = k + 1 /\ k + 1 <= n
    BY <2>1
  <2>3. w[m - 1] \in Seq(B)
    BY <1>3, <2>2
  <2>4. w[m] = w[m - 1] \o seqs[m] /\ seqs[m] \in Seq(B)
    BY <1>1, <2>2
  <2>5. w[m] \in Seq(B)
    BY <2>3, <2>4, ConcatProperties
  <2> QED BY <2>1, <2>5
<1>4. \A k \in Nat : k \in S
  <2> HIDE DEF S
  <2> QED BY <1>2, <1>3, LebNatInduction
<1>5. w[i] \in Seq(B)
  <2>1. PICK m \in Nat : m + 1 = i
    <3>1. i - 1 \in Nat /\ (i - 1) + 1 = i
      OBVIOUS
    <3> QED BY <3>1
  <2>2. m \in S /\ m + 1 <= n
    BY <1>4, <2>1
  <2>3. w[m + 1] \in Seq(B)
    BY <2>2
  <2> QED BY <2>1, <2>3, Zenon
<1> QED BY <1>5

\* Each of its values begins with the ones before.
LEMMA LebFlatPrefix ==
    ASSUME NEW B, NEW n \in Nat, NEW seqs \in [1 .. n -> Seq(B)], NEW w, LebIsFlat(w, seqs, n)
    PROVE  \A i, k \in 1 .. n : i <= k => /\ Len(w[i]) <= Len(w[k])
                                          /\ \A j \in 1 .. Len(w[i]) : w[k][j] = w[i][j]
<1>1. \A i \in 1 .. n : w[i] \in Seq(B) /\ (i # 1 => w[i] = w[i - 1] \o seqs[i])
  <2>1. \A i \in 1 .. n : w[i] \in Seq(B)
    <3> TAKE i \in 1 .. n
    <3> QED BY LebFlatTypes, Zenon
  <2>2. \A i \in 1 .. n : i # 1 => w[i] = w[i - 1] \o seqs[i]
    BY DEF LebIsFlat
  <2> QED BY <2>1, <2>2, Zenon
<1> SUFFICES ASSUME NEW i \in 1 .. n
             PROVE  \A k \in 1 .. n : i <= k => /\ Len(w[i]) <= Len(w[k])
                                                /\ \A j \in 1 .. Len(w[i]) : w[k][j] = w[i][j]
  OBVIOUS
<1> DEFINE Begins(k) == Len(w[i]) <= Len(w[k]) /\ \A j \in 1 .. Len(w[i]) : w[k][j] = w[i][j]
           S == {k \in Nat : i + k <= n => Begins(i + k)}
<1>2. 0 \in S
  <2>1. Len(w[i]) \in Nat
    BY <1>1, LenProperties
  <2>2. i + 0 = i
    OBVIOUS
  <2> QED BY <2>1, <2>2
<1>3. ASSUME NEW k \in Nat, k \in S PROVE k + 1 \in S
  <2> SUFFICES ASSUME i + (k + 1) <= n PROVE Begins(i + (k + 1))
    OBVIOUS
  <2>1. PICK m \in 1 .. n : m = i + (k + 1)
    OBVIOUS
  <2>2. PICK p \in 1 .. n : p = i + k /\ m # 1 /\ m - 1 = p /\ i + k <= n
    BY <2>1
  <2>3. Begins(p)
    BY <1>3, <2>2
  <2>4. w[p] \in Seq(B) /\ w[i] \in Seq(B) /\ w[m] = w[p] \o seqs[m] /\ seqs[m] \in Seq(B)
    BY <1>1, <2>2
  <2>5. /\ Len(w[p]) \in Nat /\ Len(seqs[m]) \in Nat /\ Len(w[i]) \in Nat
        /\ Len(w[m]) = Len(w[p]) + Len(seqs[m])
        /\ \A j \in 1 .. (Len(w[p]) + Len(seqs[m])) : j <= Len(w[p]) => w[m][j] = w[p][j]
    BY <2>4, ConcatProperties, LenProperties
  <2>6. Len(w[i]) <= Len(w[m])
    <3>1. Len(w[i]) <= Len(w[p])
      BY <2>3
    <3> QED BY <2>5, <3>1
  <2>7. ASSUME NEW j \in 1 .. Len(w[i]) PROVE w[m][j] = w[i][j]
    <3>1. /\ Len(w[i]) \in Nat /\ Len(w[p]) \in Nat /\ Len(seqs[m]) \in Nat
          /\ Len(w[i]) <= Len(w[p])
      BY <2>3, <2>5, Zenon
    <3>2. \A a, b, c \in Nat :
              a <= b => \A x \in 1 .. a : x \in 1 .. (b + c) /\ x <= b
      OBVIOUS
    <3>3. j \in 1 .. (Len(w[p]) + Len(seqs[m])) /\ j <= Len(w[p])
      BY <3>1, <3>2, <2>7, Zenon
    <3> QED BY <2>3, <2>5, <3>3, Zenon
  <2> QED BY <2>1, <2>6, <2>7
<1>4. \A k \in Nat : k \in S
  <2> HIDE DEF S
  <2> QED BY <1>2, <1>3, LebNatInduction
<1>5. ASSUME NEW k \in 1 .. n, i <= k PROVE Begins(k)
  <2>1. PICK d \in Nat : i + d = k
    <3>1. k - i \in Nat /\ i + (k - i) = k
      BY <1>5
    <3> QED BY <3>1
  <2>2. d \in S /\ i + d <= n
    BY <1>4, <2>1
  <2> QED BY <2>1, <2>2
<1> QED BY <1>5

\* In flat, the n sequences lie one behind the other, the i-th from offs[i - 1] to offs[i].
LebLaid(flat, offs, seqs, n) ==
    /\ offs[0] = 0
    /\ \A i \in 1 .. n :
          /\ offs[i] = offs[i - 1] + Len(seqs[i])
          /\ offs[i] <= Len(flat)
          /\ \A j \in 1 .. Len(seqs[i]) : flat[offs[i - 1] + j] = seqs[i][j]

\* FlattenSeq lays the sequences down one behind the other.
LEMMA LebFlatten ==
    ASSUME NEW B, NEW n \in Nat, NEW seqs \in [1 .. n -> Seq(B)]
    PROVE  \E offs \in [0 .. n -> Nat] : LebLaid(FlattenSeq(seqs), offs, seqs, n)
<1>1. Len(seqs) = n
  OBVIOUS
<1>2. CASE n = 0
  <2> DEFINE offs == [i \in 0 .. n |-> 0]
  <2>1. offs \in [0 .. n -> Nat] /\ offs[0] = 0 /\ \A i \in 1 .. n : FALSE
    BY <1>2
  <2> HIDE DEF offs
  <2> QED BY <2>1 DEF LebLaid
<1>3. CASE n # 0
  <2> DEFINE flatten[i \in 1 .. Len(seqs)] == IF i = 1 THEN seqs[i] ELSE flatten[i - 1] \o seqs[i]
  <2>1. FlattenSeq(seqs) = flatten[Len(seqs)]
    BY <1>1, <1>3 DEF FlattenSeq
  <2>2. LebIsFlat(flatten, seqs, Len(seqs))
    <3>1. \E w : LebIsFlat(w, seqs, Len(seqs))
      BY <1>1, <1>3, LebFlatExists
    <3> QED BY <3>1, Zenon DEF LebIsFlat
  <2> HIDE DEF flatten
  <2>3. LebIsFlat(flatten, seqs, n) /\ FlattenSeq(seqs) = flatten[n]
    BY <1>1, <2>1, <2>2
  <2>4. \A i \in 1 .. n : /\ flatten[i] \in Seq(B) /\ seqs[i] \in Seq(B)
                          /\ i = 1 => flatten[i] = seqs[i]
                          /\ i # 1 => flatten[i] = flatten[i - 1] \o seqs[i]
    <3>1. \A i \in 1 .. n : flatten[i] \in Seq(B)
      <4> TAKE i \in 1 .. n
      <4> QED BY <2>3, LebFlatTypes, Zenon
    <3>2. \A i \in 1 .. n : seqs[i] \in Seq(B)
      OBVIOUS
    <3>3. \A i \in 1 .. n : /\ i = 1 => flatten[i] = seqs[i]
                            /\ i # 1 => flatten[i] = flatten[i - 1] \o seqs[i]
      BY <2>3 DEF LebIsFlat
    <3> QED BY <3>1, <3>2, <3>3, Zenon
  <2>5. \A i \in 1 .. n : /\ Len(flatten[i]) <= Len(flatten[n])
                          /\ \A j \in 1 .. Len(flatten[i]) : flatten[n][j] = flatten[i][j]
    <3>1. n \in 1 .. n /\ \A i \in 1 .. n : i <= n
      BY <1>3
    <3> QED BY <2>3, <3>1, LebFlatPrefix
  <2>6. \A i \in 1 .. n : Len(flatten[i]) \in Nat /\ Len(seqs[i]) \in Nat
    BY <2>4, LenProperties
  <2> DEFINE offs == [i \in 0 .. n |-> IF i = 0 THEN 0 ELSE Len(flatten[i])]
  <2>7. offs \in [0 .. n -> Nat] /\ offs[0] = 0 /\ \A i \in 1 .. n : offs[i] = Len(flatten[i])
    BY <2>6
  <2> HIDE DEF offs
  <2>8. ASSUME NEW i \in 1 .. n
        PROVE  /\ offs[i] = offs[i - 1] + Len(seqs[i])
               /\ offs[i] <= Len(flatten[n])
               /\ \A j \in 1 .. Len(seqs[i]) : flatten[n][offs[i - 1] + j] = seqs[i][j]
    <3>1. CASE i = 1
      <4>1. offs[i - 1] = 0 /\ offs[i] = Len(seqs[i]) /\ flatten[i] = seqs[i] /\ Len(seqs[i]) \in Nat
        BY <2>4, <2>6, <2>7, <3>1
      <4>2. ASSUME NEW j \in 1 .. Len(seqs[i]) PROVE flatten[n][offs[i - 1] + j] = seqs[i][j]
        <5>1. offs[i - 1] + j = j
          BY <4>1
        <5> QED BY <2>5, <4>1, <5>1
      <4> QED BY <2>5, <4>1, <4>2
    <3>2. CASE i # 1
      <4>1. PICK p \in 1 .. n : p = i - 1
        BY <3>2
      <4>2. /\ offs[p] = Len(flatten[p]) /\ offs[i] = Len(flatten[i]) /\ flatten[i] = flatten[p] \o seqs[i]
            /\ flatten[p] \in Seq(B) /\ seqs[i] \in Seq(B) /\ Len(flatten[p]) \in Nat /\ Len(seqs[i]) \in Nat
        BY <2>4, <2>6, <2>7, <3>2, <4>1
      <4>3. /\ Len(flatten[i]) = Len(flatten[p]) + Len(seqs[i])
            /\ \A j \in 1 .. (Len(flatten[p]) + Len(seqs[i])) :
                  flatten[i][j] = IF j <= Len(flatten[p]) THEN flatten[p][j] ELSE seqs[i][j - Len(flatten[p])]
        BY <4>2, ConcatProperties
      <4>4. ASSUME NEW j \in 1 .. Len(seqs[i]) PROVE flatten[n][offs[p] + j] = seqs[i][j]
        <5>1. PICK x \in Nat : x = Len(flatten[p]) + j
          BY <4>2
        <5>2. /\ x \in 1 .. (Len(flatten[p]) + Len(seqs[i])) /\ x \in 1 .. Len(flatten[i])
              /\ ~(x <= Len(flatten[p])) /\ x - Len(flatten[p]) = j
          BY <4>2, <4>3, <5>1
        <5>3. flatten[i][x] = seqs[i][j]
          BY <4>3, <5>2
        <5>4. flatten[n][x] = flatten[i][x]
          BY <2>5, <5>2
        <5> QED BY <4>2, <5>1, <5>3, <5>4
      <4> QED BY <2>5, <4>1, <4>2, <4>3, <4>4
    <3> QED BY <3>1, <3>2
  <2> QED BY <2>3, <2>7, <2>8 DEF LebLaid
<1> QED BY <1>2, <1>3

\* The result is a sequence of the same elements.
LEMMA LebFlattenType ==
    ASSUME NEW B, NEW n \in Nat, NEW seqs \in [1 .. n -> Seq(B)]
    PROVE  FlattenSeq(seqs) \in Seq(B)
<1>1. Len(seqs) = n
  OBVIOUS
<1>2. CASE n = 0
  <2>1. FlattenSeq(seqs) = seqs
    BY <1>1, <1>2 DEF FlattenSeq
  <2>2. seqs \in [1 .. 0 -> B]
    BY <1>2
  <2> QED BY <2>1, <2>2
<1>3. CASE n # 0
  <2> DEFINE flatten[i \in 1 .. Len(seqs)] == IF i = 1 THEN seqs[i] ELSE flatten[i - 1] \o seqs[i]
  <2>1. FlattenSeq(seqs) = flatten[Len(seqs)]
    BY <1>1, <1>3 DEF FlattenSeq
  <2>2. LebIsFlat(flatten, seqs, Len(seqs))
    <3>1. \E w : LebIsFlat(w, seqs, Len(seqs))
      BY <1>1, <1>3, LebFlatExists
    <3> QED BY <3>1, Zenon DEF LebIsFlat
  <2> HIDE DEF flatten
  <2>3. LebIsFlat(flatten, seqs, n) /\ FlattenSeq(seqs) = flatten[n] /\ n \in 1 .. n
    BY <1>1, <1>3, <2>1, <2>2
  <2>4. flatten[n] \in Seq(B)
    BY <2>3, LebFlatTypes, Zenon
  <2> QED BY <2>3, <2>4
<1> QED BY <1>2, <1>3

\* What EncodeUnsignedLeb128 writes is a sequence of bytes.
LEMMA LebBytes ==
    ASSUME NEW v \in LebValues
    PROVE  EncodeUnsignedLeb128(v) \in Seq(0 .. 255)
<1>1. PICK n \in 1 .. 5 :
              /\ LebLong(v, n)
              /\ EncodeUnsignedLeb128(v) =
                     [i \in 1 .. n |-> LebDigit(v, i) + (IF i < n THEN 128 ELSE 0)]
  BY LebLength
<1>2. ASSUME NEW i \in 1 .. n PROVE LebDigit(v, i) + (IF i < n THEN 128 ELSE 0) \in 0 .. 255
  <2>1. i \in 1 .. 5
    OBVIOUS
  <2>2. LebDigit(v, i) \in 0 .. 127
    BY SMT, <2>1, LebDigitRange
  <2> QED BY <2>2
<1>3. EncodeUnsignedLeb128(v) \in [1 .. n -> 0 .. 255]
  BY <1>1, <1>2
<1> QED BY <1>3

\* The function of Decode that moves along n numbers.
LebIsCursor(w, bytes, at, n) ==
    w = [i \in 0 .. n |-> IF i = 0 THEN [value |-> 0, next |-> at]
                          ELSE DecodeUnsignedLeb128(bytes, w[i - 1].next)]

\* Reading a class data item gives back the numbers that encode has written, however many they
\* are and wherever the item lies in the image: no number is split, skipped or read twice.
THEOREM DecodeInvertsEncode ==
    ASSUME NEW numbers \in Seq(LebValues), NEW bytes, NEW at \in Nat,
           LebHolds(bytes, at, Encode(numbers))
    PROVE  Decode(bytes, at, Len(numbers)) = numbers
<1>1. PICK n \in Nat : n = Len(numbers) /\ numbers \in [1 .. n -> LebValues] /\ DOMAIN numbers = 1 .. n
  BY LenProperties
<1>2. \A i \in 1 .. n : EncodeUnsignedLeb128(numbers[i]) \in Seq(0 .. 255)
  <2> TAKE i \in 1 .. n
  <2>1. numbers[i] \in LebValues
    BY <1>1
  <2> QED BY <2>1, LebBytes
<1>3. PICK seqs \in [1 .. n -> Seq(0 .. 255)] :
          /\ Encode(numbers) = FlattenSeq(seqs)
          /\ \A i \in 1 .. n : seqs[i] = EncodeUnsignedLeb128(numbers[i])
  <2> DEFINE s == [i \in 1 .. n |-> EncodeUnsignedLeb128(numbers[i])]
  <2>1. s \in [1 .. n -> Seq(0 .. 255)] /\ \A i \in 1 .. n : s[i] = EncodeUnsignedLeb128(numbers[i])
    BY <1>2
  <2>2. Encode(numbers) = FlattenSeq(s)
    BY <1>1, Zenon DEF Encode
  <2> HIDE DEF s
  <2> QED BY <2>1, <2>2
<1>4. PICK offs \in [0 .. n -> Nat] :
              /\ offs[0] = 0
              /\ \A i \in 1 .. n :
                    /\ offs[i] = offs[i - 1] + Len(seqs[i])
                    /\ offs[i] <= Len(FlattenSeq(seqs))
                    /\ \A j \in 1 .. Len(seqs[i]) : FlattenSeq(seqs)[offs[i - 1] + j] = seqs[i][j]
  <2>1. PICK o \in [0 .. n -> Nat] : LebLaid(FlattenSeq(seqs), o, seqs, n)
    BY LebFlatten
  <2> QED BY <2>1 DEF LebLaid
<1>5. ASSUME NEW i \in 1 .. n
      PROVE  DecodeUnsignedLeb128(bytes, at + offs[i - 1]) = [value |-> numbers[i], next |-> at + offs[i]]
  <2>1. PICK o \in Nat : o = offs[i - 1]
    <3>1. i - 1 \in 0 .. n
      OBVIOUS
    <3> QED BY <3>1
  <2>2. PICK v \in LebValues : v = numbers[i] /\ seqs[i] = EncodeUnsignedLeb128(v)
    BY <1>1, <1>3
  <2>3. EncodeUnsignedLeb128(v) \in Seq(0 .. 255) /\ Len(EncodeUnsignedLeb128(v)) \in Nat
    BY LebBytes, LenProperties
  <2>4. /\ offs[i] = o + Len(EncodeUnsignedLeb128(v)) /\ offs[i] <= Len(FlattenSeq(seqs))
        /\ \A j \in 1 .. Len(EncodeUnsignedLeb128(v)) :
              FlattenSeq(seqs)[o + j] = EncodeUnsignedLeb128(v)[j]
    BY <1>4, <2>1, <2>2
  <2>5. \A k \in 1 .. Len(FlattenSeq(seqs)) : bytes[at + k - 1] = FlattenSeq(seqs)[k]
    BY <1>3 DEF LebHolds
  <2>6. ASSUME NEW j \in 1 .. Len(EncodeUnsignedLeb128(v))
        PROVE  bytes[(at + o) + j - 1] = EncodeUnsignedLeb128(v)[j]
    <3>1. PICK k \in Nat : k = o + j
      BY <2>3
    <3>2. k \in 1 .. Len(FlattenSeq(seqs))
      <4> DEFINE L == Len(FlattenSeq(seqs))
      <4>1. offs[i] \in Nat /\ offs[i] <= L /\ k <= offs[i] /\ k >= 1
        BY <2>3, <2>4, <3>1
      <4>2. L \in Nat
        <5>1. FlattenSeq(seqs) \in Seq(0 .. 255)
          BY LebFlattenType
        <5> QED BY <5>1, LenProperties
      <4> HIDE DEF L
      <4>3. k \in 1 .. L
        BY <4>1, <4>2
      <4> QED BY <4>3 DEF L
    <3>3. at + k - 1 = (at + o) + j - 1
      BY <2>3, <3>1
    <3> QED BY <2>4, <2>5, <3>1, <3>2, <3>3
  <2>7. LebHolds(bytes, at + o, EncodeUnsignedLeb128(v))
    BY <2>6 DEF LebHolds
  <2>8. at + o \in Nat /\ (at + o) + Len(EncodeUnsignedLeb128(v)) = at + offs[i]
    BY <2>3, <2>4
  <2>9. DecodeUnsignedLeb128(bytes, at + o) = [value |-> v, next |-> (at + o) + Len(EncodeUnsignedLeb128(v))]
    BY <2>7, <2>8, LebRoundTrip
  <2> QED BY <2>1, <2>2, <2>8, <2>9
<1> DEFINE cursor[i \in 0 .. Len(numbers)] ==
               IF i = 0 THEN [value |-> 0, next |-> at]
                        ELSE DecodeUnsignedLeb128(bytes, cursor[i - 1].next)
<1>6. Decode(bytes, at, Len(numbers)) = [i \in 1 .. Len(numbers) |-> cursor[i].value]
  BY Zenon DEF Decode
<1>7. \E w : LebIsCursor(w, bytes, at, n)
  <2> DEFINE w == [i \in 0 .. n |-> IF i = 0 THEN [value |-> 0, next |-> at]
                                   ELSE [value |-> numbers[i], next |-> at + offs[i]]]
  <2>1. \A i \in 0 .. n : w[i] = IF i = 0 THEN [value |-> 0, next |-> at]
                                 ELSE DecodeUnsignedLeb128(bytes, w[i - 1].next)
    <3> TAKE i \in 0 .. n
    <3>1. CASE i = 0
      BY <3>1
    <3>2. CASE i # 0
      <4>1. i \in 1 .. n /\ i - 1 \in 0 .. n
        BY <3>2
      <4>2. w[i - 1].next = at + offs[i - 1]
        <5>1. CASE i - 1 = 0
          <6>1. w[i - 1].next = at /\ offs[i - 1] = 0
            BY <1>4, <4>1, <5>1
          <6> QED BY <6>1
        <5>2. CASE i - 1 # 0
          BY <4>1, <5>2
        <5> QED BY <5>1, <5>2
      <4>3. w[i] = [value |-> numbers[i], next |-> at + offs[i]]
        BY <3>2
      <4> HIDE DEF w
      <4> QED BY <1>5, <3>2, <4>1, <4>2, <4>3
    <3> QED BY <3>1, <3>2
  <2>2. w = [i \in 0 .. n |-> w[i]]
    OBVIOUS
  <2> HIDE DEF w
  <2>3. LebIsCursor(w, bytes, at, n)
    BY <2>1, <2>2 DEF LebIsCursor
  <2> QED BY <2>3
<1>8. LebIsCursor(cursor, bytes, at, n)
  <2>1. \E w : LebIsCursor(w, bytes, at, Len(numbers))
    BY <1>1, <1>7
  <2>2. LebIsCursor(cursor, bytes, at, Len(numbers))
    BY <2>1, Zenon DEF LebIsCursor
  <2> HIDE DEF cursor
  <2> QED BY <1>1, <2>2
<1> HIDE DEF cursor
<1>9. /\ cursor[0] = [value |-> 0, next |-> at]
      /\ \A i \in 1 .. n : cursor[i] = DecodeUnsignedLeb128(bytes, cursor[i - 1].next)
  BY <1>8 DEF LebIsCursor
<1>10. \A i \in 1 .. n : cursor[i] = [value |-> numbers[i], next |-> at + offs[i]]
  <2> DEFINE S == {k \in Nat : k <= n => /\ cursor[k].next = at + offs[k]
                                         /\ k # 0 => cursor[k] = [value |-> numbers[k], next |-> at + offs[k]]}
  <2>1. 0 \in S
    BY <1>4, <1>9
  <2>2. ASSUME NEW k \in Nat, k \in S PROVE k + 1 \in S
    <3> SUFFICES ASSUME k + 1 <= n
                 PROVE  cursor[k + 1] = [value |-> numbers[k + 1], next |-> at + offs[k + 1]]
      OBVIOUS
    <3>1. PICK i \in 1 .. n : i = k + 1 /\ i - 1 = k /\ k <= n
      OBVIOUS
    <3>2. cursor[i - 1].next = at + offs[i - 1]
      <4>1. cursor[k].next = at + offs[k]
        BY <2>2, <3>1
      <4> QED BY <3>1, <4>1
    <3>3. cursor[i] = [value |-> numbers[i], next |-> at + offs[i]]
      BY <1>5, <1>9, <3>2
    <3> QED BY <3>1, <3>3
  <2>3. \A k \in Nat : k \in S
    <3> HIDE DEF S
    <3> QED BY <2>1, <2>2, LebNatInduction
  <2> TAKE i \in 1 .. n
  <2>4. i \in S /\ i <= n /\ i # 0
    BY <2>3
  <2> QED BY <2>4, Zenon
<1>11. \A i \in 1 .. n : cursor[i].value = numbers[i]
  <2> TAKE i \in 1 .. n
  <2>1. cursor[i] = [value |-> numbers[i], next |-> at + offs[i]]
    BY <1>10
  <2> QED BY <2>1
<1>12. Decode(bytes, at, Len(numbers)) = [i \in 1 .. n |-> numbers[i]]
  BY <1>1, <1>6, <1>11
<1> QED BY <1>1, <1>12

=============================================================================
