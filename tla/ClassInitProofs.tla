---------------------------- MODULE ClassInitProofs -----------------------------
(***************************************************************************)
(* Proofs about ClassInit for any number of threads, classes and calls and *)
(* any acyclic superclasses: <clinit> runs at most once, by the thread     *)
(* that claimed the class and after its superclass; no CHECK of the class  *)
(* linker fails; InitializeClass tells its caller the truth.               *)
(***************************************************************************)
EXTENDS ClassInit, TLAPS

\* Where a call of InitializeClass can be, and one of VerifyClass.
CiInitPcs == {"start", "lock", "locked", "verified", "super", "super_done", "clinit", "finish",
              "finish_locked", "waiting"}
CiVerifyPcs == {"start", "locked", "super", "super_done", "verdict"}

\* From CiClaim on, the call initialises the class.
CiClaimedPcs == {"super", "super_done", "clinit", "finish", "finish_locked"}

CiTypeInv ==
    /\ ciStatus \in [CiClasses -> {"resolved", "verifying", "verified", "initializing",
                                   "initialized", "error"}]
    /\ ciInitializer \in [CiClasses -> CiThreads \union {CiNoThread}]
    /\ ciOwner \in [CiClasses -> CiThreads \union {CiNoThread}]
    /\ ciDepth \in [CiClasses -> Nat]
    /\ ciStack \in [CiThreads -> Seq([op : {"init", "verify"}, class : CiClasses,
                                      pc : CiInitPcs \union CiVerifyPcs])]
    /\ ciResult \in [CiThreads -> BOOLEAN]
    /\ ciPending \in [CiThreads -> BOOLEAN]
    /\ ciRuns \in [CiClasses -> Nat]
    /\ ciLeft \in Nat

\* Call f waits for call g.
CiWaitsFor(f, g) ==
    \/ f.op = "init" /\ f.pc = "clinit" /\ g.op = "init"
    \/ f.op = "init" /\ f.pc = "super_done" /\ g.op = "init" /\ g.class = CiSuper[f.class]
    \/ f.op = "init" /\ f.pc = "verified" /\ g.op = "verify" /\ g.class = f.class
    \/ f.op = "verify" /\ f.pc = "super_done" /\ g.op = "verify" /\ g.class = CiSuper[f.class]

\* A place that fits the function; a superclass is waited for only if there is one.
CiFits(f) ==
    /\ f.op = "init" => f.pc \in CiInitPcs
    /\ f.op = "verify" => f.pc \in CiVerifyPcs
    /\ f.op = "init" /\ f.pc = "super_done" => CiSuper[f.class] \in CiClasses
    /\ f.op = "verify" /\ f.pc \in {"super", "super_done"} => CiSuper[f.class] \in CiClasses

\* The calls on a stack: nothing but verification is called from verification on.
CiNestedCalls(s) ==
    /\ s /= <<>> => s[1].op = "init"
    /\ \A i \in 1 .. Len(s) :
          CiFits(s[i]) /\ (i < Len(s) => CiWaitsFor(s[i], s[i + 1]))
    /\ \A i, j \in 1 .. Len(s) :
          i < j /\ (s[i].op = "verify" \/ s[i].pc = "verified") => s[j].op = "verify"

CiNested == \A t \in CiThreads : CiNestedCalls(ciStack[t])

\* Call f has the lock of c, on behalf of the verification that it calls, or for its own.
CiHolds(f, c) ==
    \/ f.op = "init" /\ f.class = c /\ f.pc \in {"locked", "verified", "finish_locked"}
    \/ f.op = "verify" /\ f.pc = "super_done" /\ CiSuper[f.class] = c
CiVerifies(f, c) ==
    f.op = "verify" /\ f.class = c /\ f.pc \in {"locked", "super", "super_done", "verdict"}

CiHolding(t, c) == \E i \in 1 .. Len(ciStack[t]) : CiHolds(ciStack[t][i], c)
CiVerifyingIt(t, c) == \E i \in 1 .. Len(ciStack[t]) : CiVerifies(ciStack[t][i], c)

\* The owner of a class's monitor and how often it has entered it.
CiLocked ==
    \A c \in CiClasses :
        /\ \A t \in CiThreads :
              /\ CiHolding(t, c) \/ CiVerifyingIt(t, c) => ciOwner[c] = t
              /\ ciOwner[c] = t =>
                    CiHolding(t, c) /\ ciDepth[c] = IF CiVerifyingIt(t, c) THEN 2 ELSE 1
        /\ ciOwner[c] = CiNoThread => ciDepth[c] = 0

\* "verifying" is seen by nobody but the thread that verifies.
CiIsVerifying(f, c) == f.op = "verify" /\ f.class = c /\ f.pc \in {"super", "super_done", "verdict"}

CiIsVerifyingIt(t, c) == \E i \in 1 .. Len(ciStack[t]) : CiIsVerifying(ciStack[t][i], c)

CiVerification ==
    \A c \in CiClasses :
        /\ ciStatus[c] = "verifying" => \E t \in CiThreads : CiIsVerifyingIt(t, c)
        /\ \A t \in CiThreads : CiIsVerifyingIt(t, c) => ciStatus[c] = "verifying"

\* Exactly one call initialises a class that is being initialised.
CiInitializes(f, c) == f.op = "init" /\ f.class = c /\ f.pc \in CiClaimedPcs

CiInitializing(t, c) == \E i \in 1 .. Len(ciStack[t]) : CiInitializes(ciStack[t][i], c)

CiInitialization ==
    /\ \A c \in CiClasses :
          /\ ciStatus[c] = "initializing" =>
                ciInitializer[c] \in CiThreads /\ CiInitializing(ciInitializer[c], c)
          /\ \A t \in CiThreads :
                CiInitializing(t, c) => ciStatus[c] = "initializing" /\ ciInitializer[c] = t
    /\ \A t \in CiThreads, c \in CiClasses : \A i, j \in 1 .. Len(ciStack[t]) :
          CiInitializes(ciStack[t][i], c) /\ CiInitializes(ciStack[t][j], c) => i = j

\* The superclass of c is initialised, or is being initialised further up.
CiSuperReady(t, c, i) ==
    \/ CiSuper[c] = CiNoClass
    \/ ciStatus[CiSuper[c]] = "initialized"
    \/ \E k \in 1 .. i - 1 : CiInitializes(ciStack[t][k], CiSuper[c])

\* What a call has found out about classes.
CiKnows(t, i) ==
    LET f == ciStack[t][i]
        top == i = Len(ciStack[t])
        c == f.class
    IN  f.op = "init" =>
          /\ f.pc = "verified" /\ top =>
                CiVerified(c) \/ (ciStatus[c] = "error" /\ ciPending[t])
          /\ f.pc = "waiting" => ciStatus[c] \in {"initializing", "initialized", "error"}
          /\ f.pc = "super_done" /\ top =>
                IF ciResult[t] THEN CiSuperReady(t, c, i)
                ELSE ciStatus[CiSuper[c]] = "error" /\ ciPending[t]
          /\ f.pc = "clinit" => CiSuperReady(t, c, i)
          /\ f.pc \in {"super", "super_done"} => ciRuns[c] = 0

CiKnowledge == \A t \in CiThreads : \A i \in 1 .. Len(ciStack[t]) : CiKnows(t, i)

CiCounted ==
    \A c \in CiClasses :
        /\ ciRuns[c] =< 1
        /\ ciStatus[c] \in {"resolved", "verifying", "verified"} => ciRuns[c] = 0

CiInv ==
    /\ ~ciAborted
    /\ CiTypeInv /\ CiNested /\ CiLocked /\ CiVerification /\ CiInitialization
    /\ CiKnowledge /\ CiCounted

----------------------------------------------------------------------------
(* Stacks.  A step replaces the innermost call of one thread, calls or returns. *)

CiCallRecords == [op : {"init", "verify"}, class : CiClasses, pc : CiInitPcs \union CiVerifyPcs]

\* Only thread t's calls from the k-th on are touched.
CiKeeps(t, k) ==
    /\ ciStack' \in [CiThreads -> Seq(CiCallRecords)]
    /\ \A u \in CiThreads \ {t} : ciStack'[u] = ciStack[u]
    /\ \A i \in 1 .. k : ciStack'[t][i] = ciStack[t][i]

CiTop(t) == ciStack[t][Len(ciStack[t])]

\* The innermost call f of t becomes g; it calls h as well; it returns.
CiGoes(t, f, g) ==
    /\ Len(ciStack[t]) \in Nat \ {0} /\ CiTop(t) = f
    /\ Len(ciStack'[t]) = Len(ciStack[t])
    /\ CiKeeps(t, Len(ciStack[t]) - 1)
    /\ ciStack'[t][Len(ciStack[t])] = g
CiCalls2(t, f, g, h) ==
    /\ Len(ciStack[t]) \in Nat \ {0} /\ CiTop(t) = f
    /\ Len(ciStack'[t]) = Len(ciStack[t]) + 1
    /\ CiKeeps(t, Len(ciStack[t]) - 1)
    /\ ciStack'[t][Len(ciStack[t])] = g
    /\ ciStack'[t][Len(ciStack[t]) + 1] = h
CiReturns(t, f) ==
    /\ Len(ciStack[t]) \in Nat \ {0} /\ CiTop(t) = f
    /\ Len(ciStack'[t]) = Len(ciStack[t]) - 1
    /\ CiKeeps(t, Len(ciStack[t]) - 1)

\* A call of InitializeClass or VerifyClass is a record of the stack.
LEMMA CiFrameType ==
    ASSUME NEW op \in {"init", "verify"}, NEW c \in CiClasses, NEW pc \in CiInitPcs \union CiVerifyPcs
    PROVE  CiFrame(op, c, pc) \in CiCallRecords
BY DEF CiFrame, CiCallRecords

\* CiGo replaces the innermost call.
LEMMA CiGoIs ==
    ASSUME CiTypeInv, NEW t \in CiThreads, NEW op \in {"init", "verify"}, NEW c \in CiClasses,
           NEW from, CiAt(t, op, c, from),
           NEW to \in CiInitPcs \union CiVerifyPcs, CiGo(t, to)
    PROVE  CiGoes(t, CiFrame(op, c, from), CiFrame(op, c, to))
<1> DEFINE n == Len(ciStack[t])
<1>1. ciStack \in [CiThreads -> Seq(CiCallRecords)]
  BY DEF CiTypeInv, CiCallRecords
<1>2. ciStack[t] \in Seq(CiCallRecords) /\ n \in Nat /\ n > 0 /\ ciStack[t][n] = CiFrame(op, c, from)
  BY <1>1 DEF CiAt
<1>3. ciStack' = [ciStack EXCEPT ![t] = [ciStack[t] EXCEPT ![n] = CiFrame(op, c, to)]]
  <2>1. [CiFrame(op, c, from) EXCEPT !.pc = to] = CiFrame(op, c, to)
    BY DEF CiFrame
  <2> QED BY <1>2, <2>1 DEF CiGo
<1>4. CiFrame(op, c, to) \in CiCallRecords
  BY CiFrameType
<1> DEFINE s == [ciStack[t] EXCEPT ![n] = CiFrame(op, c, to)]
<1>5. s \in Seq(CiCallRecords) /\ Len(s) = n /\ s[n] = CiFrame(op, c, to)
      /\ \A i \in 1 .. n - 1 : s[i] = ciStack[t][i]
  BY <1>2, <1>4
<1>6. ciStack'[t] = s /\ ciStack' \in [CiThreads -> Seq(CiCallRecords)]
      /\ \A u \in CiThreads \ {t} : ciStack'[u] = ciStack[u]
  <2> HIDE DEF n
  <2>1. ciStack' = [ciStack EXCEPT ![t] = s]
    BY <1>3
  <2> HIDE DEF s
  <2> QED BY <2>1, <1>1, <1>5
<1> HIDE DEF s
<1> QED BY <1>2, <1>5, <1>6 DEF CiGoes, CiKeeps, CiTop

\* CiCallAnd replaces the innermost call and adds one.
LEMMA CiCallIs ==
    ASSUME CiTypeInv, NEW t \in CiThreads, NEW op \in {"init", "verify"}, NEW c \in CiClasses,
           NEW from, CiAt(t, op, c, from),
           NEW to \in CiInitPcs \union CiVerifyPcs,
           NEW op2 \in {"init", "verify"}, NEW d \in CiClasses, CiCallAnd(t, op2, d, to)
    PROVE  CiCalls2(t, CiFrame(op, c, from), CiFrame(op, c, to), CiFrame(op2, d, "start"))
<1> DEFINE n == Len(ciStack[t])
           g == CiFrame(op, c, to)
           h == CiFrame(op2, d, "start")
<1>1. ciStack \in [CiThreads -> Seq(CiCallRecords)]
  BY DEF CiTypeInv, CiCallRecords
<1>2. ciStack[t] \in Seq(CiCallRecords) /\ n \in Nat /\ n > 0 /\ ciStack[t][n] = CiFrame(op, c, from)
  BY <1>1 DEF CiAt
<1> DEFINE r == [ciStack[t] EXCEPT ![n] = g]
           s == Append(r, h)
<1>3. ciStack' = [ciStack EXCEPT ![t] = s]
  <2>1. [CiFrame(op, c, from) EXCEPT !.pc = to] = g
    BY DEF CiFrame
  <2> QED BY <1>2, <2>1 DEF CiCallAnd
<1>4. g \in CiCallRecords /\ h \in CiCallRecords
  BY CiFrameType DEF CiInitPcs
<1> HIDE DEF g, h
<1>5. r \in Seq(CiCallRecords) /\ Len(r) = n /\ r[n] = g
      /\ \A i \in 1 .. n - 1 : r[i] = ciStack[t][i]
  BY <1>2, <1>4
<1> HIDE DEF r
<1>6. s \in Seq(CiCallRecords) /\ Len(s) = n + 1 /\ s[n] = g /\ s[n + 1] = h
      /\ \A i \in 1 .. n - 1 : s[i] = ciStack[t][i]
  BY <1>2, <1>4, <1>5
<1>7. ciStack'[t] = s /\ ciStack' \in [CiThreads -> Seq(CiCallRecords)]
      /\ \A u \in CiThreads \ {t} : ciStack'[u] = ciStack[u]
  <2> HIDE DEF s
  <2> QED BY <1>3, <1>1, <1>6
<1> HIDE DEF s
<1> QED BY <1>2, <1>6, <1>7 DEF CiCalls2, CiKeeps, CiTop, g, h

\* CiReturn takes the innermost call off.
LEMMA CiReturnIs ==
    ASSUME CiTypeInv, NEW t \in CiThreads, NEW op \in {"init", "verify"}, NEW c \in CiClasses,
           NEW from, CiAt(t, op, c, from), NEW result, CiReturn(t, result)
    PROVE  CiReturns(t, CiFrame(op, c, from)) /\ ciResult' = [ciResult EXCEPT ![t] = result]
<1> DEFINE n == Len(ciStack[t])
           s == SubSeq(ciStack[t], 1, n - 1)
<1>1. ciStack \in [CiThreads -> Seq(CiCallRecords)]
  BY DEF CiTypeInv, CiCallRecords
<1>2. ciStack[t] \in Seq(CiCallRecords) /\ n \in Nat /\ n > 0 /\ ciStack[t][n] = CiFrame(op, c, from)
  BY <1>1 DEF CiAt
<1>3. s \in Seq(CiCallRecords) /\ Len(s) = n - 1 /\ \A i \in 1 .. n - 1 : s[i] = ciStack[t][i]
  BY <1>2
<1>4. ciStack' = [ciStack EXCEPT ![t] = s]
  BY DEF CiReturn
<1> HIDE DEF s
<1>5. ciStack'[t] = s /\ ciStack' \in [CiThreads -> Seq(CiCallRecords)]
      /\ \A u \in CiThreads \ {t} : ciStack'[u] = ciStack[u]
  BY <1>1, <1>3, <1>4
<1> QED BY <1>2, <1>3, <1>5 DEF CiReturns, CiKeeps, CiTop, CiReturn

\* A call by a thread that is not in one, or is in a <clinit>.
CiPushes(t, h) ==
    /\ Len(ciStack[t]) \in Nat
    /\ Len(ciStack'[t]) = Len(ciStack[t]) + 1
    /\ CiKeeps(t, Len(ciStack[t]))
    /\ ciStack'[t][Len(ciStack[t]) + 1] = h
    /\ Len(ciStack[t]) > 0 => CiTop(t).op = "init" /\ CiTop(t).pc = "clinit"

\* EnsureInitialized adds a call to an empty stack or to a <clinit>.
LEMMA CiPushIs ==
    ASSUME CiTypeInv, NEW t \in CiThreads, NEW c \in CiClasses, CiCallInitialize(t, c)
    PROVE  CiPushes(t, CiFrame("init", c, "start"))
<1> DEFINE n == Len(ciStack[t])
           h == CiFrame("init", c, "start")
           s == Append(ciStack[t], h)
<1>1. ciStack \in [CiThreads -> Seq(CiCallRecords)]
  BY DEF CiTypeInv, CiCallRecords
<1>2. ciStack[t] \in Seq(CiCallRecords) /\ n \in Nat
  BY <1>1
<1>3. h \in CiCallRecords
  BY CiFrameType DEF CiInitPcs
<1>4. ciStack' = [ciStack EXCEPT ![t] = s]
  BY DEF CiCallInitialize
<1> HIDE DEF h
<1>5. s \in Seq(CiCallRecords) /\ Len(s) = n + 1 /\ s[n + 1] = h
      /\ \A i \in 1 .. n : s[i] = ciStack[t][i]
  BY <1>2, <1>3
<1> HIDE DEF s
<1>6. ciStack'[t] = s /\ ciStack' \in [CiThreads -> Seq(CiCallRecords)]
      /\ \A u \in CiThreads \ {t} : ciStack'[u] = ciStack[u]
  BY <1>1, <1>4, <1>5
<1>7. n > 0 => CiTop(t).op = "init" /\ CiTop(t).pc = "clinit"
  <2> SUFFICES ASSUME n > 0 PROVE CiTop(t).op = "init" /\ CiTop(t).pc = "clinit"
    OBVIOUS
  <2>1. PICK d \in CiClasses : CiAt(t, "init", d, "clinit")
    BY <1>2 DEF CiCallInitialize
  <2> QED BY <2>1 DEF CiAt, CiFrame, CiTop
<1> QED BY <1>2, <1>5, <1>6, <1>7 DEF CiPushes, CiKeeps, h

\* The calls nest after each kind of step.
LEMMA CiNestedGoes ==
    ASSUME CiTypeInv, CiNested, NEW t \in CiThreads, NEW f, NEW g, CiGoes(t, f, g),
           f.op = g.op, f.class = g.class, CiFits(g)
    PROVE  CiNested'
<1> DEFINE s == ciStack[t]
           r == ciStack'[t]
           n == Len(s)
<1>0. /\ s \in Seq(CiCallRecords) /\ r \in Seq(CiCallRecords)
      /\ n \in Nat \ {0} /\ Len(r) = n /\ s[n] = f /\ r[n] = g
      /\ \A i \in 1 .. n - 1 : r[i] = s[i]
      /\ \A u \in CiThreads \ {t} : ciStack'[u] = ciStack[u]
  BY DEF CiTypeInv, CiCallRecords, CiGoes, CiKeeps, CiTop
<1>1. CiNestedCalls(s) /\ \A u \in CiThreads \ {t} : CiNestedCalls(ciStack'[u])
  BY <1>0 DEF CiNested
<1> HIDE DEF s, r
<1>2. CiNestedCalls(r)
  <2>1. ASSUME NEW i \in 1 .. n
        PROVE  r[i].op = s[i].op /\ r[i].class = s[i].class /\ (i < n => r[i] = s[i])
    <3>1. i = n \/ i \in 1 .. n - 1
      BY <1>0
    <3> QED BY <1>0, <3>1
  <2>2. r[1].op = "init"
    BY <1>0, <1>1, <2>1 DEF CiNestedCalls
  <2>3. ASSUME NEW i \in 1 .. n PROVE CiFits(r[i])
    <3>1. i = n \/ i \in 1 .. n - 1
      BY <1>0
    <3> QED BY <1>0, <1>1, <3>1 DEF CiNestedCalls
  <2>4. ASSUME NEW i \in 1 .. n, i < n PROVE CiWaitsFor(r[i], r[i + 1])
    <3>1. i + 1 \in 1 .. n /\ r[i] = s[i]
      BY <1>0, <2>1, <2>4
    <3>2. CiWaitsFor(s[i], s[i + 1])
      BY <1>1, <2>4 DEF CiNestedCalls
    <3>3. r[i + 1].op = s[i + 1].op /\ r[i + 1].class = s[i + 1].class
      BY <2>1, <3>1
    <3> QED BY <3>1, <3>2, <3>3 DEF CiWaitsFor
  <2>5. ASSUME NEW i \in 1 .. n, NEW j \in 1 .. n, i < j, r[i].op = "verify" \/ r[i].pc = "verified"
        PROVE  r[j].op = "verify"
    <3>1. r[i] = s[i]
      BY <1>0, <2>1, <2>5
    <3>2. s[j].op = "verify"
      BY <1>1, <2>5, <3>1 DEF CiNestedCalls
    <3> QED BY <2>1, <3>2
  <2> QED BY <1>0, <2>2, <2>3, <2>4, <2>5 DEF CiNestedCalls
<1> QED BY <1>1, <1>2 DEF CiNested, r

\* The calls nest when InitializeClass or VerifyClass calls one of them.
LEMMA CiNestedCallsDeeper ==
    ASSUME CiTypeInv, CiNested, NEW t \in CiThreads, NEW f, NEW g, NEW h, CiCalls2(t, f, g, h),
           f.op = g.op, f.class = g.class, CiFits(g), CiFits(h), CiWaitsFor(g, h)
    PROVE  CiNested'
<1> DEFINE s == ciStack[t]
           r == ciStack'[t]
           n == Len(s)
<1>0. /\ s \in Seq(CiCallRecords) /\ r \in Seq(CiCallRecords)
      /\ n \in Nat \ {0} /\ Len(r) = n + 1 /\ s[n] = f /\ r[n] = g /\ r[n + 1] = h
      /\ \A i \in 1 .. n - 1 : r[i] = s[i]
      /\ \A u \in CiThreads \ {t} : ciStack'[u] = ciStack[u]
  BY DEF CiTypeInv, CiCallRecords, CiCalls2, CiKeeps, CiTop
<1>1. CiNestedCalls(s) /\ \A u \in CiThreads \ {t} : CiNestedCalls(ciStack'[u])
  BY <1>0 DEF CiNested
<1> HIDE DEF s, r
<1>2. CiNestedCalls(r)
  <2>1. ASSUME NEW i \in 1 .. n
        PROVE  r[i].op = s[i].op /\ r[i].class = s[i].class /\ (i < n => r[i] = s[i])
    <3>1. i = n \/ i \in 1 .. n - 1
      BY <1>0
    <3> QED BY <1>0, <3>1
  <2>2. r[1].op = "init"
    BY <1>0, <1>1, <2>1 DEF CiNestedCalls
  <2>3. ASSUME NEW i \in 1 .. n + 1 PROVE CiFits(r[i])
    <3>1. i = n + 1 \/ i = n \/ i \in 1 .. n - 1
      BY <1>0
    <3> QED BY <1>0, <1>1, <3>1 DEF CiNestedCalls
  <2>4. ASSUME NEW i \in 1 .. n + 1, i < n + 1 PROVE CiWaitsFor(r[i], r[i + 1])
    <3>0. CASE i = n
      BY <3>0, <1>0
    <3>1. CASE i < n
      <4>1. i \in 1 .. n /\ i + 1 \in 1 .. n
        BY <1>0, <3>1
      <4>2. r[i] = s[i] /\ r[i + 1].op = s[i + 1].op /\ r[i + 1].class = s[i + 1].class
        BY <2>1, <4>1, <3>1
      <4>3. CiWaitsFor(s[i], s[i + 1])
        BY <1>1, <3>1, <4>1 DEF CiNestedCalls
      <4> QED BY <4>2, <4>3 DEF CiWaitsFor
    <3> QED BY <3>0, <3>1, <2>4, <1>0
  <2>5. ASSUME NEW i \in 1 .. n + 1, NEW j \in 1 .. n + 1, i < j,
               r[i].op = "verify" \/ r[i].pc = "verified"
        PROVE  r[j].op = "verify"
    <3>1. CASE i < n
      <4>1. i \in 1 .. n /\ n \in 1 .. n
        BY <3>1, <1>0
      <4>2. r[i] = s[i]
        BY <4>1, <3>1, <2>1
      <4>3. \A k \in 1 .. n : i < k => s[k].op = "verify"
        BY <1>1, <2>5, <4>1, <4>2 DEF CiNestedCalls
      <4>4. g.op = "verify"
        BY <1>0, <3>1, <4>1, <4>3
      <4>5. h.op = "verify"
        BY <4>4 DEF CiWaitsFor
      <4>6. j = n + 1 \/ j \in 1 .. n
        BY <1>0
      <4> QED BY <4>3, <4>5, <4>6, <2>1, <2>5, <1>0
    <3>2. CASE i = n
      <4>1. h.op = "verify" /\ j = n + 1
        BY <2>5, <3>2, <1>0 DEF CiWaitsFor
      <4> QED BY <4>1, <1>0
    <3> QED BY <3>1, <3>2, <2>5, <1>0
  <2> QED BY <1>0, <2>2, <2>3, <2>4, <2>5 DEF CiNestedCalls
<1> QED BY <1>1, <1>2 DEF CiNested, r

\* The calls nest when the innermost one returns.
LEMMA CiNestedReturns ==
    ASSUME CiTypeInv, CiNested, NEW t \in CiThreads, NEW f, CiReturns(t, f)
    PROVE  CiNested'
<1> DEFINE s == ciStack[t]
           r == ciStack'[t]
           n == Len(s)
<1>0. /\ s \in Seq(CiCallRecords) /\ r \in Seq(CiCallRecords)
      /\ n \in Nat \ {0} /\ Len(r) = n - 1
      /\ \A i \in 1 .. n - 1 : r[i] = s[i]
      /\ \A u \in CiThreads \ {t} : ciStack'[u] = ciStack[u]
  BY DEF CiTypeInv, CiCallRecords, CiReturns, CiKeeps, CiTop
<1>1. CiNestedCalls(s) /\ \A u \in CiThreads \ {t} : CiNestedCalls(ciStack'[u])
  BY <1>0 DEF CiNested
<1> HIDE DEF s, r
<1>2. CiNestedCalls(r)
  <2>1. \A i \in 1 .. n - 1 : i \in 1 .. n /\ r[i] = s[i] /\ (i < n - 1 => i + 1 \in 1 .. n - 1)
    BY <1>0
  <2>2. r /= <<>> => 1 \in 1 .. n - 1
    BY <1>0
  <2>3. r /= <<>> => r[1].op = "init"
    BY <2>1, <2>2, <1>0, <1>1 DEF CiNestedCalls
  <2>4. ASSUME NEW i \in 1 .. n - 1 PROVE CiFits(r[i]) /\ (i < n - 1 => CiWaitsFor(r[i], r[i + 1]))
    <3>1. i \in 1 .. n /\ i < n /\ r[i] = s[i]
      BY <2>1, <1>0
    <3>2. CiFits(s[i]) /\ CiWaitsFor(s[i], s[i + 1])
      BY <3>1, <1>1 DEF CiNestedCalls
    <3>3. i < n - 1 => r[i + 1] = s[i + 1]
      BY <2>1
    <3> QED BY <3>1, <3>2, <3>3
  <2>5. ASSUME NEW i \in 1 .. n - 1, NEW j \in 1 .. n - 1, i < j, r[i].op = "verify" \/ r[i].pc = "verified"
        PROVE  r[j].op = "verify"
    BY <2>1, <2>5, <1>1 DEF CiNestedCalls
  <2> QED BY <1>0, <2>3, <2>4, <2>5 DEF CiNestedCalls
<1> QED BY <1>1, <1>2 DEF CiNested, r

\* The calls nest when a thread or a <clinit> calls EnsureInitialized.
LEMMA CiNestedPushes ==
    ASSUME CiTypeInv, CiNested, NEW t \in CiThreads, NEW h, CiPushes(t, h),
           h.op = "init", CiFits(h)
    PROVE  CiNested'
<1> DEFINE s == ciStack[t]
           r == ciStack'[t]
           n == Len(s)
<1>0. /\ s \in Seq(CiCallRecords) /\ r \in Seq(CiCallRecords)
      /\ n \in Nat /\ Len(r) = n + 1 /\ r[n + 1] = h
      /\ \A i \in 1 .. n : r[i] = s[i]
      /\ n > 0 => s[n].op = "init" /\ s[n].pc = "clinit"
      /\ \A u \in CiThreads \ {t} : ciStack'[u] = ciStack[u]
  BY DEF CiTypeInv, CiCallRecords, CiPushes, CiKeeps, CiTop
<1>1. CiNestedCalls(s) /\ \A u \in CiThreads \ {t} : CiNestedCalls(ciStack'[u])
  BY <1>0 DEF CiNested
<1> HIDE DEF s, r
<1>2. CiNestedCalls(r)
  <2>1. ASSUME NEW i \in 1 .. n PROVE ~(s[i].op = "verify" \/ s[i].pc = "verified")
    <3>1. n > 0 /\ n \in 1 .. n /\ (i < n \/ i = n)
      BY <1>0
    <3> QED BY <3>1, <1>0, <1>1 DEF CiNestedCalls
  <2>2. n > 0 => CiWaitsFor(s[n], h)
    BY <1>0 DEF CiWaitsFor
  <2>3. r[1].op = "init"
    <3>1. n = 0 \/ 1 \in 1 .. n
      BY <1>0
    <3> QED BY <3>1, <1>0, <1>1 DEF CiNestedCalls
  <2>4. ASSUME NEW i \in 1 .. n + 1
        PROVE  CiFits(r[i]) /\ (i < n + 1 => CiWaitsFor(r[i], r[i + 1]))
    <3>1. CASE i = n + 1
      BY <3>1, <1>0
    <3>2. CASE i = n
      BY <3>2, <2>2, <1>0, <1>1 DEF CiNestedCalls
    <3>3. CASE i < n
      <4>1. i \in 1 .. n /\ i + 1 \in 1 .. n
        BY <3>3, <1>0
      <4> QED BY <4>1, <3>3, <1>0, <1>1 DEF CiNestedCalls
    <3> QED BY <3>1, <3>2, <3>3, <1>0
  <2>5. ASSUME NEW i \in 1 .. n + 1, NEW j \in 1 .. n + 1, i < j
        PROVE  ~(r[i].op = "verify" \/ r[i].pc = "verified")
    <3>1. i \in 1 .. n
      BY <2>5, <1>0
    <3> QED BY <3>1, <2>1, <1>0
  <2> QED BY <1>0, <2>3, <2>4, <2>5 DEF CiNestedCalls
<1> QED BY <1>1, <1>2 DEF CiNested, r

\* Superclasses do not lead back: a verification is not called for a class that is being verified
\* further up the stack.
LEMMA CiNoLoop ==
    ASSUME CiTypeInv, CiNested, NEW t \in CiThreads,
           NEW i \in 1 .. Len(ciStack[t]), NEW j \in 1 .. Len(ciStack[t]), i =< j,
           ciStack[t][i].op = "verify"
    PROVE  CiSuper[ciStack[t][j].class] # ciStack[t][i].class
<1> DEFINE s == ciStack[t]
           S == {s[k].class : k \in i .. j}
<1>1. /\ s \in Seq(CiCallRecords) /\ Len(s) \in Nat
      /\ \A k \in 1 .. Len(s) : s[k].class \in CiClasses
  <2>1. s \in Seq(CiCallRecords)
    BY DEF CiTypeInv, CiCallRecords
  <2>2. \A r \in CiCallRecords : r.class \in CiClasses
    BY DEF CiCallRecords
  <2> HIDE DEF s
  <2> QED BY <2>1, <2>2
<1>2. CiNestedCalls(s)
  BY DEF CiNested
<1> SUFFICES ASSUME CiSuper[s[j].class] = s[i].class PROVE FALSE
  OBVIOUS
<1> HIDE DEF s
<1>3. \A k \in i .. j : k \in 1 .. Len(s) /\ s[k].op = "verify"
  <2> SUFFICES ASSUME NEW k \in i .. j PROVE k \in 1 .. Len(s) /\ s[k].op = "verify"
    OBVIOUS
  <2>1. i \in 1 .. Len(s) /\ j \in 1 .. Len(s) /\ s[i].op = "verify"
    BY DEF s
  <2>2. k \in 1 .. Len(s) /\ (k = i \/ i < k)
    BY <2>1, <1>1
  <2> QED BY <2>1, <2>2, <1>2 DEF CiNestedCalls
<1>4. i \in Nat /\ j \in Nat /\ i =< j
  OBVIOUS
<1>5. S \in SUBSET CiClasses /\ S # {}
  BY <1>1, <1>3, <1>4
<1>6. PICK c \in S : CiSuper[c] \notin S
  BY <1>5, ClassInitAssumption
<1>7. PICK k \in i .. j : c = s[k].class
  BY <1>6
<1>8. CASE k = j
  BY <1>4, <1>6, <1>7, <1>8
<1>9. CASE k < j
  <2>1. k + 1 \in i .. j /\ k < Len(s)
    BY <1>9, <1>4, <1>3, <1>1
  <2>2. CiWaitsFor(s[k], s[k + 1])
    BY <1>2, <1>3, <2>1 DEF CiNestedCalls
  <2>3. s[k + 1].class = CiSuper[c]
    BY <1>3, <1>7, <2>2 DEF CiWaitsFor
  <2> QED BY <1>6, <2>1, <2>3
<1> QED BY <1>4, <1>8, <1>9

\* What the calls below the innermost one hold and do.
CiBelowHolds(t, c) == \E i \in 1 .. Len(ciStack[t]) - 1 : CiHolds(ciStack[t][i], c)
CiBelowVerifies(t, c) == \E i \in 1 .. Len(ciStack[t]) - 1 : CiVerifies(ciStack[t][i], c)
CiBelowIsVerifying(t, c) == \E i \in 1 .. Len(ciStack[t]) - 1 : CiIsVerifying(ciStack[t][i], c)
CiBelowInitializes(t, c) == \E i \in 1 .. Len(ciStack[t]) - 1 : CiInitializes(ciStack[t][i], c)

\* What the calls of a thread hold and do, they do below the innermost one or in it.
LEMMA CiSeen ==
    ASSUME NEW t \in CiThreads, NEW c, Len(ciStack[t]) \in Nat \ {0}
    PROVE  /\ CiHolding(t, c) <=> CiBelowHolds(t, c) \/ CiHolds(CiTop(t), c)
           /\ CiVerifyingIt(t, c) <=> CiBelowVerifies(t, c) \/ CiVerifies(CiTop(t), c)
           /\ CiIsVerifyingIt(t, c) <=> CiBelowIsVerifying(t, c) \/ CiIsVerifying(CiTop(t), c)
           /\ CiInitializing(t, c) <=> CiBelowInitializes(t, c) \/ CiInitializes(CiTop(t), c)
<1> DEFINE n == Len(ciStack[t])
<1>1. \A i \in 1 .. n : i \in 1 .. n - 1 \/ i = n
  OBVIOUS
<1>2. n \in 1 .. n /\ \A i \in 1 .. n - 1 : i \in 1 .. n
  OBVIOUS
<1> HIDE DEF n
<1>3. CiHolding(t, c) <=> CiBelowHolds(t, c) \/ CiHolds(CiTop(t), c)
  BY <1>1, <1>2 DEF CiHolding, CiBelowHolds, CiTop, n
<1>4. CiVerifyingIt(t, c) <=> CiBelowVerifies(t, c) \/ CiVerifies(CiTop(t), c)
  BY <1>1, <1>2 DEF CiVerifyingIt, CiBelowVerifies, CiTop, n
<1>5. CiIsVerifyingIt(t, c) <=> CiBelowIsVerifying(t, c) \/ CiIsVerifying(CiTop(t), c)
  BY <1>1, <1>2 DEF CiIsVerifyingIt, CiBelowIsVerifying, CiTop, n
<1>6. CiInitializing(t, c) <=> CiBelowInitializes(t, c) \/ CiInitializes(CiTop(t), c)
  BY <1>1, <1>2 DEF CiInitializing, CiBelowInitializes, CiTop, n
<1> QED BY <1>3, <1>4, <1>5, <1>6

\* The other threads' calls stay.
LEMMA CiSeenOthers ==
    ASSUME NEW u \in CiThreads, ciStack'[u] = ciStack[u], NEW c
    PROVE  /\ CiHolding(u, c)' = CiHolding(u, c)
           /\ CiVerifyingIt(u, c)' = CiVerifyingIt(u, c)
           /\ CiIsVerifyingIt(u, c)' = CiIsVerifyingIt(u, c)
           /\ CiInitializing(u, c)' = CiInitializing(u, c)
BY DEF CiHolding, CiVerifyingIt, CiIsVerifyingIt, CiInitializing, CiHolds, CiVerifies, CiIsVerifying,
       CiInitializes

\* The same after the innermost call has gone on.
LEMMA CiSeenGoes ==
    ASSUME NEW t \in CiThreads, NEW c, NEW f, NEW g, CiGoes(t, f, g)
    PROVE  /\ CiHolding(t, c)' <=> CiBelowHolds(t, c) \/ CiHolds(g, c)
           /\ CiVerifyingIt(t, c)' <=> CiBelowVerifies(t, c) \/ CiVerifies(g, c)
           /\ CiIsVerifyingIt(t, c)' <=> CiBelowIsVerifying(t, c) \/ CiIsVerifying(g, c)
           /\ CiInitializing(t, c)' <=> CiBelowInitializes(t, c) \/ CiInitializes(g, c)
<1> DEFINE n == Len(ciStack[t])
           r == ciStack'[t]
<1>1. n \in Nat \ {0} /\ Len(r) = n /\ r[n] = g /\ \A i \in 1 .. n - 1 : r[i] = ciStack[t][i]
  BY DEF CiGoes, CiKeeps
<1>2. (\A i \in 1 .. Len(r) : i \in 1 .. n - 1 \/ i = n) /\ n \in 1 .. Len(r)
      /\ \A i \in 1 .. n - 1 : i \in 1 .. Len(r)
  BY <1>1
<1> HIDE DEF n, r
<1>3. CiHolding(t, c)' <=> \E i \in 1 .. Len(r) : CiHolds(r[i], c)
  BY DEF CiHolding, CiHolds, r
<1>4. CiVerifyingIt(t, c)' <=> \E i \in 1 .. Len(r) : CiVerifies(r[i], c)
  BY DEF CiVerifyingIt, CiVerifies, r
<1>5. CiIsVerifyingIt(t, c)' <=> \E i \in 1 .. Len(r) : CiIsVerifying(r[i], c)
  BY DEF CiIsVerifyingIt, CiIsVerifying, r
<1>6. CiInitializing(t, c)' <=> \E i \in 1 .. Len(r) : CiInitializes(r[i], c)
  BY DEF CiInitializing, CiInitializes, r
<1>7. CiHolding(t, c)' <=> CiBelowHolds(t, c) \/ CiHolds(g, c)
  BY <1>1, <1>2, <1>3 DEF CiBelowHolds, n
<1>8. CiVerifyingIt(t, c)' <=> CiBelowVerifies(t, c) \/ CiVerifies(g, c)
  BY <1>1, <1>2, <1>4 DEF CiBelowVerifies, n
<1>9. CiIsVerifyingIt(t, c)' <=> CiBelowIsVerifying(t, c) \/ CiIsVerifying(g, c)
  BY <1>1, <1>2, <1>5 DEF CiBelowIsVerifying, n
<1>10. CiInitializing(t, c)' <=> CiBelowInitializes(t, c) \/ CiInitializes(g, c)
  BY <1>1, <1>2, <1>6 DEF CiBelowInitializes, n
<1> QED BY <1>7, <1>8, <1>9, <1>10

\* The same after the innermost call has called: the new call holds nothing yet.
LEMMA CiSeenCalls ==
    ASSUME NEW t \in CiThreads, NEW c, NEW f, NEW g, NEW op, NEW d,
           CiCalls2(t, f, g, CiFrame(op, d, "start"))
    PROVE  /\ CiHolding(t, c)' <=> CiBelowHolds(t, c) \/ CiHolds(g, c)
           /\ CiVerifyingIt(t, c)' <=> CiBelowVerifies(t, c) \/ CiVerifies(g, c)
           /\ CiIsVerifyingIt(t, c)' <=> CiBelowIsVerifying(t, c) \/ CiIsVerifying(g, c)
           /\ CiInitializing(t, c)' <=> CiBelowInitializes(t, c) \/ CiInitializes(g, c)
<1> DEFINE n == Len(ciStack[t])
           r == ciStack'[t]
           h == CiFrame(op, d, "start")
<1>1. n \in Nat \ {0} /\ Len(r) = n + 1 /\ r[n] = g /\ r[n + 1] = h
      /\ \A i \in 1 .. n - 1 : r[i] = ciStack[t][i]
  BY DEF CiCalls2, CiKeeps
<1>2. (\A i \in 1 .. Len(r) : i \in 1 .. n - 1 \/ i = n \/ i = n + 1) /\ n \in 1 .. Len(r)
      /\ \A i \in 1 .. n - 1 : i \in 1 .. Len(r)
  BY <1>1
<1>0. ~CiHolds(h, c) /\ ~CiVerifies(h, c) /\ ~CiIsVerifying(h, c) /\ ~CiInitializes(h, c)
  BY DEF CiFrame, CiHolds, CiVerifies, CiIsVerifying, CiInitializes, CiClaimedPcs
<1> HIDE DEF n, r, h
<1>3. CiHolding(t, c)' <=> \E i \in 1 .. Len(r) : CiHolds(r[i], c)
  BY DEF CiHolding, CiHolds, r
<1>4. CiVerifyingIt(t, c)' <=> \E i \in 1 .. Len(r) : CiVerifies(r[i], c)
  BY DEF CiVerifyingIt, CiVerifies, r
<1>5. CiIsVerifyingIt(t, c)' <=> \E i \in 1 .. Len(r) : CiIsVerifying(r[i], c)
  BY DEF CiIsVerifyingIt, CiIsVerifying, r
<1>6. CiInitializing(t, c)' <=> \E i \in 1 .. Len(r) : CiInitializes(r[i], c)
  BY DEF CiInitializing, CiInitializes, r
<1>7. CiHolding(t, c)' <=> CiBelowHolds(t, c) \/ CiHolds(g, c)
  BY <1>0, <1>1, <1>2, <1>3 DEF CiBelowHolds, n
<1>8. CiVerifyingIt(t, c)' <=> CiBelowVerifies(t, c) \/ CiVerifies(g, c)
  BY <1>0, <1>1, <1>2, <1>4 DEF CiBelowVerifies, n
<1>9. CiIsVerifyingIt(t, c)' <=> CiBelowIsVerifying(t, c) \/ CiIsVerifying(g, c)
  BY <1>0, <1>1, <1>2, <1>5 DEF CiBelowIsVerifying, n
<1>10. CiInitializing(t, c)' <=> CiBelowInitializes(t, c) \/ CiInitializes(g, c)
  BY <1>0, <1>1, <1>2, <1>6 DEF CiBelowInitializes, n
<1> QED BY <1>7, <1>8, <1>9, <1>10

\* The same after the innermost call has returned.
LEMMA CiSeenReturns ==
    ASSUME NEW t \in CiThreads, NEW c, NEW f, CiReturns(t, f)
    PROVE  /\ CiHolding(t, c)' <=> CiBelowHolds(t, c)
           /\ CiVerifyingIt(t, c)' <=> CiBelowVerifies(t, c)
           /\ CiIsVerifyingIt(t, c)' <=> CiBelowIsVerifying(t, c)
           /\ CiInitializing(t, c)' <=> CiBelowInitializes(t, c)
<1> DEFINE n == Len(ciStack[t])
           r == ciStack'[t]
<1>1. Len(r) = n - 1 /\ \A i \in 1 .. n - 1 : r[i] = ciStack[t][i]
  BY DEF CiReturns, CiKeeps
<1> HIDE DEF n, r
<1>3. CiHolding(t, c)' <=> \E i \in 1 .. Len(r) : CiHolds(r[i], c)
  BY DEF CiHolding, CiHolds, r
<1>4. CiVerifyingIt(t, c)' <=> \E i \in 1 .. Len(r) : CiVerifies(r[i], c)
  BY DEF CiVerifyingIt, CiVerifies, r
<1>5. CiIsVerifyingIt(t, c)' <=> \E i \in 1 .. Len(r) : CiIsVerifying(r[i], c)
  BY DEF CiIsVerifyingIt, CiIsVerifying, r
<1>6. CiInitializing(t, c)' <=> \E i \in 1 .. Len(r) : CiInitializes(r[i], c)
  BY DEF CiInitializing, CiInitializes, r
<1> QED BY <1>1, <1>3, <1>4, <1>5, <1>6 DEF CiBelowHolds, CiBelowVerifies, CiBelowIsVerifying,
           CiBelowInitializes, n

\* A call of EnsureInitialized holds nothing yet.
LEMMA CiSeenPushes ==
    ASSUME NEW t \in CiThreads, NEW c, NEW d, CiPushes(t, CiFrame("init", d, "start"))
    PROVE  /\ CiHolding(t, c)' <=> CiHolding(t, c)
           /\ CiVerifyingIt(t, c)' <=> CiVerifyingIt(t, c)
           /\ CiIsVerifyingIt(t, c)' <=> CiIsVerifyingIt(t, c)
           /\ CiInitializing(t, c)' <=> CiInitializing(t, c)
<1> DEFINE n == Len(ciStack[t])
           r == ciStack'[t]
           h == CiFrame("init", d, "start")
<1>1. n \in Nat /\ Len(r) = n + 1 /\ r[n + 1] = h /\ \A i \in 1 .. n : r[i] = ciStack[t][i]
  BY DEF CiPushes, CiKeeps
<1>2. (\A i \in 1 .. Len(r) : i \in 1 .. n \/ i = n + 1) /\ \A i \in 1 .. n : i \in 1 .. Len(r)
  BY <1>1
<1>0. ~CiHolds(h, c) /\ ~CiVerifies(h, c) /\ ~CiIsVerifying(h, c) /\ ~CiInitializes(h, c)
  BY DEF CiFrame, CiHolds, CiVerifies, CiIsVerifying, CiInitializes, CiClaimedPcs
<1> HIDE DEF n, r, h
<1>3. CiHolding(t, c)' <=> \E i \in 1 .. Len(r) : CiHolds(r[i], c)
  BY DEF CiHolding, CiHolds, r
<1>4. CiVerifyingIt(t, c)' <=> \E i \in 1 .. Len(r) : CiVerifies(r[i], c)
  BY DEF CiVerifyingIt, CiVerifies, r
<1>5. CiIsVerifyingIt(t, c)' <=> \E i \in 1 .. Len(r) : CiIsVerifying(r[i], c)
  BY DEF CiIsVerifyingIt, CiIsVerifying, r
<1>6. CiInitializing(t, c)' <=> \E i \in 1 .. Len(r) : CiInitializes(r[i], c)
  BY DEF CiInitializing, CiInitializes, r
<1>7. CiHolding(t, c)' <=> CiHolding(t, c)
  BY <1>0, <1>1, <1>2, <1>3 DEF CiHolding, n
<1>8. CiVerifyingIt(t, c)' <=> CiVerifyingIt(t, c)
  BY <1>0, <1>1, <1>2, <1>4 DEF CiVerifyingIt, n
<1>9. CiIsVerifyingIt(t, c)' <=> CiIsVerifyingIt(t, c)
  BY <1>0, <1>1, <1>2, <1>5 DEF CiIsVerifyingIt, n
<1>10. CiInitializing(t, c)' <=> CiInitializing(t, c)
  BY <1>0, <1>1, <1>2, <1>6 DEF CiInitializing, n
<1> QED BY <1>7, <1>8, <1>9, <1>10

\* Below InitializeClass no lock is held.
LEMMA CiBelowInit ==
    ASSUME CiTypeInv, CiNested, NEW t \in CiThreads, ciStack[t] # <<>>, CiTop(t).op = "init",
           NEW c \in CiClasses
    PROVE  ~CiBelowHolds(t, c) /\ ~CiBelowVerifies(t, c)
<1> DEFINE s == ciStack[t]
           n == Len(s)
<1>1. s \in Seq(CiCallRecords) /\ n \in Nat /\ n > 0 /\ s[n].op = "init"
  <2>1. s \in Seq(CiCallRecords)
    BY DEF CiTypeInv, CiCallRecords
  <2>2. n \in Nat /\ n > 0
    BY <2>1
  <2> QED BY <2>1, <2>2 DEF CiTop
<1>2. CiNestedCalls(s)
  BY DEF CiNested
<1> HIDE DEF s
<1>3. ASSUME NEW i \in 1 .. n - 1 PROVE ~CiHolds(s[i], c) /\ ~CiVerifies(s[i], c)
  <2>1. i \in 1 .. n /\ n \in 1 .. n /\ i < n
    BY <1>1
  <2>2. ~(s[i].op = "verify" \/ s[i].pc = "verified")
    BY <1>1, <1>2, <2>1 DEF CiNestedCalls
  <2>3. CiWaitsFor(s[i], s[i + 1])
    BY <1>2, <2>1 DEF CiNestedCalls
  <2> QED BY <2>2, <2>3 DEF CiHolds, CiVerifies, CiWaitsFor
<1> QED BY <1>3 DEF CiBelowHolds, CiBelowVerifies, s

\* Below VerifyClass the class is locked for it, and is not being verified; its superclass is
\* not locked at all.
LEMMA CiBelowVerify ==
    ASSUME CiTypeInv, CiNested, NEW t \in CiThreads, ciStack[t] # <<>>, CiTop(t).op = "verify"
    PROVE  LET c == CiTop(t).class
               s == CiSuper[c]
           IN  /\ c \in CiClasses /\ CiBelowHolds(t, c) /\ ~CiBelowVerifies(t, c) /\ s # c
               /\ s \in CiClasses => ~CiBelowHolds(t, s) /\ ~CiBelowVerifies(t, s)
<1> DEFINE r == ciStack[t]
           n == Len(r)
           c == CiTop(t).class
           s == CiSuper[c]
<1>1. r \in Seq(CiCallRecords) /\ n \in Nat /\ n > 0 /\ r[n].op = "verify" /\ r[n].class = c
  <2>1. r \in Seq(CiCallRecords)
    BY DEF CiTypeInv, CiCallRecords
  <2>2. n \in Nat /\ n > 0
    BY <2>1
  <2> QED BY <2>1, <2>2 DEF CiTop
<1>2. CiNestedCalls(r)
  BY DEF CiNested
<1>3. \A i, j \in 1 .. n : i =< j /\ r[i].op = "verify" => CiSuper[r[j].class] # r[i].class
  BY CiNoLoop
<1> HIDE DEF r, c
<1>4. n > 1 /\ n \in 1 .. n /\ n - 1 \in 1 .. n
  BY <1>1, <1>2 DEF CiNestedCalls
<1>5. c \in CiClasses /\ s # c
  <2>1. r[n] \in CiCallRecords
    BY <1>1, <1>4
  <2>2. c \in CiClasses
    BY <1>1, <2>1 DEF CiCallRecords
  <2> QED BY <2>2, <1>1, <1>3, <1>4
<1>6. CiWaitsFor(r[n - 1], r[n])
  <2>1. n - 1 < n /\ (n - 1) + 1 = n
    BY <1>1
  <2>2. CiWaitsFor(r[n - 1], r[(n - 1) + 1])
    BY <1>2, <1>4, <2>1 DEF CiNestedCalls
  <2> QED BY <2>1, <2>2
<1>7. CiHolds(r[n - 1], c)
  BY <1>1, <1>6 DEF CiHolds, CiWaitsFor
<1>8. n - 1 \in 1 .. n - 1
  BY <1>4, <1>1
<1>9. ASSUME NEW i \in 1 .. n - 1 PROVE ~CiVerifies(r[i], c) /\ ~CiVerifies(r[i], s) /\ ~CiHolds(r[i], s)
  <2>1. i \in 1 .. n /\ i < n /\ i + 1 \in 1 .. n /\ i + 1 =< n /\ i =< n /\ i =< n - 1
    BY <1>1, <1>4
  <2>2. CiWaitsFor(r[i], r[i + 1])
    BY <1>2, <2>1 DEF CiNestedCalls
  <2>3. r[i].op = "verify" => s # r[i].class
    BY <1>1, <1>3, <1>4, <2>1
  <2>4. r[i + 1].op = "verify" => s # r[i + 1].class
    BY <1>1, <1>3, <1>4, <2>1
  <2>5. ~CiHolds(r[i], s) /\ ~CiVerifies(r[i], s)
    BY <2>2, <2>3, <2>4 DEF CiHolds, CiVerifies, CiWaitsFor
  <2>6. r[i].op = "verify" => c # r[i].class
    <3> SUFFICES ASSUME r[i].op = "verify" PROVE c # r[i].class
      OBVIOUS
    <3>1. r[n - 1].op = "verify"
      <4>1. i < n - 1 \/ i = n - 1
        BY <2>1
      <4> QED BY <4>1, <1>2, <1>4, <2>1 DEF CiNestedCalls
    <3>2. c = CiSuper[r[n - 1].class]
      BY <3>1, <1>1, <1>6 DEF CiWaitsFor
    <3> QED BY <3>2, <1>3, <1>4, <2>1
  <2> QED BY <2>5, <2>6 DEF CiVerifies
<1>10. CiBelowHolds(t, c)
  BY <1>7, <1>8 DEF CiBelowHolds, r
<1>11. ~CiBelowVerifies(t, c) /\ ~CiBelowVerifies(t, s) /\ ~CiBelowHolds(t, s)
  BY <1>9 DEF CiBelowHolds, CiBelowVerifies, r
<1> QED BY <1>5, <1>10, <1>11 DEF c

----------------------------------------------------------------------------
(* What a step of thread t does to its calls and to the classes *)

\* No call: what a call that returns becomes.
CiNoCall == [op |-> "none", class |-> CiNoClass, pc |-> "none"]

\* The innermost call f of t goes on as g, calls from there, or returns.
CiMoves(t, f, g) ==
    \/ CiGoes(t, f, g) /\ g.op \in {"init", "verify"}
       /\ (g.op = "init" => g.pc \notin {"verified", "super_done"})
    \/ \E op \in {"init", "verify"}, d \in CiClasses : CiCalls2(t, f, g, CiFrame(op, d, "start"))
    \/ g = CiNoCall /\ CiReturns(t, f)

\* The lock of a class stays as it was, or is what the calls of t make it.
CiLockStep(t, f, g) ==
    \A c \in CiClasses :
        \/ /\ ciOwner'[c] = ciOwner[c] /\ ciDepth'[c] = ciDepth[c]
           /\ CiHolds(g, c) <=> CiHolds(f, c)
           /\ CiVerifies(g, c) <=> CiVerifies(f, c)
        \/ LET holds == CiBelowHolds(t, c) \/ CiHolds(g, c)
               verifies == CiBelowVerifies(t, c) \/ CiVerifies(g, c)
           IN  /\ ciOwner[c] \in {t, CiNoThread}
               /\ verifies => holds
               /\ ciOwner'[c] = IF holds THEN t ELSE CiNoThread
               /\ ciDepth'[c] = IF verifies THEN 2 ELSE IF holds THEN 1 ELSE 0

\* A class is "verifying" as before, or t, which has its lock, begins or ends that.
CiVerifyStep(t, f, g) ==
    \A c \in CiClasses :
        \/ /\ CiIsVerifying(g, c) <=> CiIsVerifying(f, c)
           /\ ciStatus'[c] = "verifying" <=> ciStatus[c] = "verifying"
        \/ /\ ciOwner[c] = t /\ ~CiBelowIsVerifying(t, c)
           /\ ciStatus'[c] = "verifying" <=> CiIsVerifying(g, c)

\* A class is being initialised as before, is claimed, or is finished.
CiInitStep(t, f, g) ==
    \A c \in CiClasses :
        \/ /\ CiInitializes(g, c) <=> CiInitializes(f, c)
           /\ ciStatus'[c] = "initializing" <=> ciStatus[c] = "initializing"
           /\ ciInitializer'[c] = ciInitializer[c]
        \/ /\ CiInitializes(g, c) /\ ciStatus[c] = "verified"
           /\ ciStatus'[c] = "initializing" /\ ciInitializer'[c] = t
        \/ CiInitializes(f, c) /\ ~CiInitializes(g, c) /\ ciStatus'[c] # "initializing"

\* Whoever has the lock moves the status, and only onwards.
CiLater(a, b) ==
    \/ a = "resolved" /\ b = "verifying"
    \/ a = "verifying" /\ b \in {"verified", "error"}
    \/ a = "verified" /\ b \in {"initializing", "error"}
    \/ a = "initializing" /\ b \in {"initialized", "error"}

CiStatusStep(t) ==
    \A c \in CiClasses :
        ciStatus'[c] = ciStatus[c] \/ (ciOwner[c] = t /\ CiLater(ciStatus[c], ciStatus'[c]))

\* <clinit> is invoked by the call that goes on to it.
CiRunsStep(f, g) ==
    \A c \in CiClasses :
        \/ ciRuns'[c] = ciRuns[c]
        \/ /\ f.op = "init" /\ f.class = c /\ f.pc \in {"super", "super_done"}
           /\ g.op = "init" /\ g.class = c /\ g.pc = "clinit"
           /\ ciRuns'[c] = ciRuns[c] + 1

\* The superclass of c is initialised, or a call below the innermost one initialises it.
CiSuperIsReady(t, c) ==
    CiSuper[c] = CiNoClass \/ ciStatus'[CiSuper[c]] = "initialized" \/ CiBelowInitializes(t, CiSuper[c])

\* What the call knows after the step, or has told its caller.
CiLearns(t, f, g) ==
    /\ \A u \in CiThreads \ {t} : ciPending'[u] = ciPending[u] /\ ciResult'[u] = ciResult[u]
    /\ g.op = "init" =>
          /\ g.pc = "waiting" => ciStatus'[g.class] \in {"initializing", "initialized", "error"}
          /\ g.pc = "clinit" => CiSuperIsReady(t, g.class)
          /\ g.pc \in {"super", "super_done"} => ciRuns'[g.class] = 0
    /\ g = CiNoCall =>
          IF f.op = "init"
          THEN IF ciResult'[t]
               THEN ciStatus'[f.class] = "initialized" \/ CiBelowInitializes(t, f.class)
               ELSE ciStatus'[f.class] = "error" /\ ciPending'[t]
          ELSE \/ ciStatus'[f.class] \in {"verified", "initializing", "initialized"}
               \/ ciStatus'[f.class] = "error" /\ ciPending'[t]

CiGoodStep(t, f, g) ==
    /\ CiMoves(t, f, g) /\ CiTypeInv' /\ CiNested'
    /\ CiLockStep(t, f, g) /\ CiVerifyStep(t, f, g) /\ CiInitStep(t, f, g)
    /\ CiStatusStep(t) /\ CiRunsStep(f, g) /\ CiLearns(t, f, g)
    /\ ~ciAborted'

\* What the calls of t are doing after a step, whatever its kind.
LEMMA CiSeenMoves ==
    ASSUME NEW t \in CiThreads, NEW f, NEW g, CiMoves(t, f, g), NEW c
    PROVE  /\ CiHolding(t, c)' <=> CiBelowHolds(t, c) \/ CiHolds(g, c)
           /\ CiVerifyingIt(t, c)' <=> CiBelowVerifies(t, c) \/ CiVerifies(g, c)
           /\ CiIsVerifyingIt(t, c)' <=> CiBelowIsVerifying(t, c) \/ CiIsVerifying(g, c)
           /\ CiInitializing(t, c)' <=> CiBelowInitializes(t, c) \/ CiInitializes(g, c)
           /\ CiHolding(t, c) <=> CiBelowHolds(t, c) \/ CiHolds(f, c)
           /\ CiVerifyingIt(t, c) <=> CiBelowVerifies(t, c) \/ CiVerifies(f, c)
           /\ CiIsVerifyingIt(t, c) <=> CiBelowIsVerifying(t, c) \/ CiIsVerifying(f, c)
           /\ CiInitializing(t, c) <=> CiBelowInitializes(t, c) \/ CiInitializes(f, c)
<1>1. Len(ciStack[t]) \in Nat \ {0} /\ CiTop(t) = f
  BY DEF CiMoves, CiGoes, CiCalls2, CiReturns
<1>2. /\ CiHolding(t, c) <=> CiBelowHolds(t, c) \/ CiHolds(f, c)
      /\ CiVerifyingIt(t, c) <=> CiBelowVerifies(t, c) \/ CiVerifies(f, c)
      /\ CiIsVerifyingIt(t, c) <=> CiBelowIsVerifying(t, c) \/ CiIsVerifying(f, c)
      /\ CiInitializing(t, c) <=> CiBelowInitializes(t, c) \/ CiInitializes(f, c)
  BY <1>1, CiSeen
<1>3. CASE CiGoes(t, f, g)
  BY <1>2, <1>3, CiSeenGoes
<1>4. CASE \E op \in {"init", "verify"}, d \in CiClasses : CiCalls2(t, f, g, CiFrame(op, d, "start"))
  BY <1>2, <1>4, CiSeenCalls
<1>5. CASE g = CiNoCall /\ CiReturns(t, f)
  <2>1. ~CiHolds(g, c) /\ ~CiVerifies(g, c) /\ ~CiIsVerifying(g, c) /\ ~CiInitializes(g, c)
    BY <1>5 DEF CiNoCall, CiHolds, CiVerifies, CiIsVerifying, CiInitializes
  <2> QED BY <1>2, <1>5, <2>1, CiSeenReturns
<1> QED BY <1>3, <1>4, <1>5 DEF CiMoves

\* The other threads' calls stay.
LEMMA CiMovesAlone ==
    ASSUME NEW t \in CiThreads, NEW f, NEW g, CiMoves(t, f, g), NEW u \in CiThreads, u # t
    PROVE  ciStack'[u] = ciStack[u]
BY DEF CiMoves, CiGoes, CiCalls2, CiReturns, CiKeeps

\* The monitors match the calls after the step.
LEMMA CiLockedStep ==
    ASSUME CiLocked, ClassInitAssumption, NEW t \in CiThreads, NEW f, NEW g, CiMoves(t, f, g), CiLockStep(t, f, g)
    PROVE  CiLocked'
<1> SUFFICES ASSUME NEW c \in CiClasses
             PROVE  /\ \A u \in CiThreads :
                          /\ CiHolding(u, c)' \/ CiVerifyingIt(u, c)' => ciOwner'[c] = u
                          /\ ciOwner'[c] = u => CiHolding(u, c)'
                                /\ ciDepth'[c] = IF CiVerifyingIt(u, c)' THEN 2 ELSE 1
                    /\ ciOwner'[c] = CiNoThread => ciDepth'[c] = 0
  BY DEF CiLocked
<1>1. \A u \in CiThreads \ {t} : (CiHolding(u, c)' <=> CiHolding(u, c))
                                 /\ (CiVerifyingIt(u, c)' <=> CiVerifyingIt(u, c))
  BY CiMovesAlone, CiSeenOthers
<1>2. /\ CiHolding(t, c)' <=> CiBelowHolds(t, c) \/ CiHolds(g, c)
      /\ CiVerifyingIt(t, c)' <=> CiBelowVerifies(t, c) \/ CiVerifies(g, c)
      /\ CiHolding(t, c) <=> CiBelowHolds(t, c) \/ CiHolds(f, c)
      /\ CiVerifyingIt(t, c) <=> CiBelowVerifies(t, c) \/ CiVerifies(f, c)
  BY CiSeenMoves
<1>3. /\ \A u \in CiThreads :
            /\ CiHolding(u, c) \/ CiVerifyingIt(u, c) => ciOwner[c] = u
            /\ ciOwner[c] = u => CiHolding(u, c) /\ ciDepth[c] = IF CiVerifyingIt(u, c) THEN 2 ELSE 1
      /\ ciOwner[c] = CiNoThread => ciDepth[c] = 0
  BY DEF CiLocked
<1>4. CiNoThread \notin CiThreads
  BY ClassInitAssumption
<1>5. CASE /\ ciOwner'[c] = ciOwner[c] /\ ciDepth'[c] = ciDepth[c]
           /\ CiHolds(g, c) <=> CiHolds(f, c)
           /\ CiVerifies(g, c) <=> CiVerifies(f, c)
  <2>1. \A u \in CiThreads : (CiHolding(u, c)' <=> CiHolding(u, c))
                                 /\ (CiVerifyingIt(u, c)' <=> CiVerifyingIt(u, c))
    BY <1>1, <1>2, <1>5
  <2> QED BY <2>1, <1>3, <1>5
<1>6. CASE /\ ciOwner[c] \in {t, CiNoThread}
           /\ CiVerifyingIt(t, c)' => CiHolding(t, c)'
           /\ ciOwner'[c] = IF CiHolding(t, c)' THEN t ELSE CiNoThread
           /\ ciDepth'[c] = IF CiVerifyingIt(t, c)' THEN 2 ELSE IF CiHolding(t, c)' THEN 1 ELSE 0
  <2>1. \A u \in CiThreads \ {t} : ~CiHolding(u, c)' /\ ~CiVerifyingIt(u, c)' /\ ciOwner'[c] # u
    BY <1>1, <1>3, <1>4, <1>6
  <2> QED BY <2>1, <1>4, <1>6
<1> QED BY <1>2, <1>5, <1>6 DEF CiLockStep

\* "verifying" is still seen by nobody but the thread that verifies.
LEMMA CiVerificationStep ==
    ASSUME CiLocked, CiVerification, NEW t \in CiThreads, NEW f, NEW g, CiMoves(t, f, g), CiVerifyStep(t, f, g)
    PROVE  CiVerification'
<1> SUFFICES ASSUME NEW c \in CiClasses
             PROVE  /\ ciStatus'[c] = "verifying" => \E u \in CiThreads : CiIsVerifyingIt(u, c)'
                    /\ \A u \in CiThreads : CiIsVerifyingIt(u, c)' => ciStatus'[c] = "verifying"
  BY DEF CiVerification
<1>1. \A u \in CiThreads \ {t} : CiIsVerifyingIt(u, c)' <=> CiIsVerifyingIt(u, c)
  BY CiMovesAlone, CiSeenOthers
<1>2. /\ CiIsVerifyingIt(t, c)' <=> CiBelowIsVerifying(t, c) \/ CiIsVerifying(g, c)
      /\ CiIsVerifyingIt(t, c) <=> CiBelowIsVerifying(t, c) \/ CiIsVerifying(f, c)
  BY CiSeenMoves
<1>3. /\ ciStatus[c] = "verifying" => \E u \in CiThreads : CiIsVerifyingIt(u, c)
      /\ \A u \in CiThreads : CiIsVerifyingIt(u, c) => ciStatus[c] = "verifying"
  BY DEF CiVerification
<1>4. CASE /\ CiIsVerifying(g, c) <=> CiIsVerifying(f, c)
           /\ ciStatus'[c] = "verifying" <=> ciStatus[c] = "verifying"
  <2>1. \A u \in CiThreads : CiIsVerifyingIt(u, c)' <=> CiIsVerifyingIt(u, c)
    BY <1>1, <1>2, <1>4
  <2> QED BY <2>1, <1>3, <1>4
<1>5. CASE /\ ciOwner[c] = t /\ ~CiBelowIsVerifying(t, c)
           /\ ciStatus'[c] = "verifying" <=> CiIsVerifying(g, c)
  <2>1. \A u \in CiThreads : CiIsVerifyingIt(u, c) => CiVerifyingIt(u, c)
    BY DEF CiIsVerifyingIt, CiVerifyingIt, CiIsVerifying, CiVerifies
  <2>2. \A u \in CiThreads \ {t} : ~CiIsVerifyingIt(u, c)
    BY <2>1, <1>5 DEF CiLocked
  <2> QED BY <2>2, <1>1, <1>2, <1>5
<1> QED BY <1>4, <1>5 DEF CiVerifyStep

\* The calls at their places after a step.
LEMMA CiMovesPlaces ==
    ASSUME NEW t \in CiThreads, NEW f, NEW g, CiMoves(t, f, g)
    PROVE  LET n == Len(ciStack[t])
               r == ciStack'[t]
           IN  /\ n \in Nat \ {0} /\ ciStack[t][n] = f
               /\ \A i \in 1 .. n - 1 : r[i] = ciStack[t][i]
               /\ \A i \in 1 .. Len(r) : i \in 1 .. n - 1 \/ (i = n /\ r[i] = g)
                                          \/ (i = n + 1 /\ r[i].pc = "start")
               /\ Len(r) \in {n - 1, n, n + 1}
               /\ (Len(r) = n - 1) <=> g = CiNoCall
               /\ Len(r) = n => (g.op = "init" => g.pc \notin {"verified", "super_done"})
<1> DEFINE n == Len(ciStack[t])
           r == ciStack'[t]
<1>1. n \in Nat \ {0} /\ ciStack[t][n] = f /\ \A i \in 1 .. n - 1 : r[i] = ciStack[t][i]
  BY DEF CiMoves, CiGoes, CiCalls2, CiReturns, CiKeeps, CiTop
<1>2. CASE CiGoes(t, f, g) /\ g.op \in {"init", "verify"}
           /\ (g.op = "init" => g.pc \notin {"verified", "super_done"})
  <2>1. Len(r) = n /\ r[n] = g /\ g # CiNoCall
    BY <1>2 DEF CiGoes, CiNoCall
  <2> HIDE DEF n, r
  <2>2. n # n - 1
    BY <1>1
  <2>3. \A i \in 1 .. Len(r) : i \in 1 .. n - 1 \/ (i = n /\ r[i] = g)
    BY <1>1, <2>1
  <2> QED BY <1>1, <1>2, <2>1, <2>2, <2>3 DEF n, r
<1>3. CASE \E op \in {"init", "verify"}, d \in CiClasses : CiCalls2(t, f, g, CiFrame(op, d, "start"))
  <2>0. PICK op \in {"init", "verify"}, d \in CiClasses : CiCalls2(t, f, g, CiFrame(op, d, "start"))
    BY <1>3
  <2>1. Len(r) = n + 1 /\ r[n] = g /\ r[n + 1].pc = "start"
    BY <2>0 DEF CiCalls2, CiFrame
  <2>2. g # CiNoCall
    <3>1. r \in Seq(CiCallRecords)
      BY <2>0 DEF CiCalls2, CiKeeps
    <3>2. n \in 1 .. Len(r)
      BY <1>1, <2>1
    <3>3. g \in CiCallRecords
      BY <2>1, <3>1, <3>2
    <3> QED BY <3>3 DEF CiCallRecords, CiNoCall
  <2> HIDE DEF n, r
  <2>3. n + 1 # n - 1 /\ n + 1 # n
    BY <1>1
  <2>4. \A i \in 1 .. Len(r) : i \in 1 .. n - 1 \/ (i = n /\ r[i] = g) \/ (i = n + 1 /\ r[i].pc = "start")
    BY <1>1, <2>1
  <2> QED BY <1>1, <2>1, <2>2, <2>3, <2>4 DEF n, r
<1>4. CASE g = CiNoCall /\ CiReturns(t, f)
  <2>1. Len(r) = n - 1
    BY <1>4 DEF CiReturns
  <2> HIDE DEF n, r
  <2>3. n - 1 # n
    BY <1>1
  <2> QED BY <1>1, <1>4, <2>1, <2>3 DEF n, r
<1> QED BY <1>2, <1>3, <1>4 DEF CiMoves

\* Still exactly one call initialises a class that is being initialised.
LEMMA CiInitializationStep ==
    ASSUME CiInitialization, NEW t \in CiThreads, NEW f, NEW g, CiMoves(t, f, g), CiInitStep(t, f, g)
    PROVE  CiInitialization'
<1>0. ASSUME NEW c \in CiClasses
      PROVE  /\ \A u \in CiThreads \ {t} : CiInitializing(u, c)' <=> CiInitializing(u, c)
             /\ CiInitializing(t, c)' <=> CiBelowInitializes(t, c) \/ CiInitializes(g, c)
             /\ CiInitializing(t, c) <=> CiBelowInitializes(t, c) \/ CiInitializes(f, c)
  BY CiMovesAlone, CiSeenOthers, CiSeenMoves
<1>1. ASSUME NEW c \in CiClasses
      PROVE  /\ ciStatus[c] = "initializing" =>
                    ciInitializer[c] \in CiThreads /\ CiInitializing(ciInitializer[c], c)
             /\ \A u \in CiThreads :
                    CiInitializing(u, c) => ciStatus[c] = "initializing" /\ ciInitializer[c] = u
  BY DEF CiInitialization
<1>2. ASSUME NEW c \in CiClasses, CiInitializes(f, c)
      PROVE  ~CiBelowInitializes(t, c)
  <2> DEFINE n == Len(ciStack[t])
  <2>1. n \in Nat \ {0} /\ ciStack[t][n] = f
    BY CiMovesPlaces
  <2>2. \A i, j \in 1 .. n : CiInitializes(ciStack[t][i], c) /\ CiInitializes(ciStack[t][j], c) => i = j
    BY DEF CiInitialization
  <2>3. n \in 1 .. n /\ \A i \in 1 .. n - 1 : i \in 1 .. n /\ i # n
    BY <2>1
  <2> HIDE DEF n
  <2> QED BY <1>2, <2>1, <2>2, <2>3 DEF CiBelowInitializes, n
<1>3. ASSUME NEW c \in CiClasses
      PROVE  /\ ciStatus'[c] = "initializing" =>
                    ciInitializer'[c] \in CiThreads /\ \E u \in CiThreads : u = ciInitializer'[c] /\ CiInitializing(u, c)'
             /\ \A u \in CiThreads :
                    CiInitializing(u, c)' => ciStatus'[c] = "initializing" /\ ciInitializer'[c] = u
  <2>1. CASE /\ CiInitializes(g, c) <=> CiInitializes(f, c)
             /\ ciStatus'[c] = "initializing" <=> ciStatus[c] = "initializing"
             /\ ciInitializer'[c] = ciInitializer[c]
    <3>1. \A u \in CiThreads : CiInitializing(u, c)' <=> CiInitializing(u, c)
      BY <1>0, <2>1
    <3> QED BY <1>1, <2>1, <3>1
  <2>2. CASE /\ CiInitializes(g, c) /\ ciStatus[c] = "verified"
             /\ ciStatus'[c] = "initializing" /\ ciInitializer'[c] = t
    <3>1. CiInitializing(t, c)' /\ \A u \in CiThreads \ {t} : ~CiInitializing(u, c)'
      BY <1>0, <1>1, <2>2
    <3> QED BY <2>2, <3>1
  <2>3. CASE CiInitializes(f, c) /\ ~CiInitializes(g, c) /\ ciStatus'[c] # "initializing"
    <3>1. CiInitializing(t, c) /\ ~CiInitializing(t, c)'
      BY <1>0, <1>2, <2>3
    <3>2. \A u \in CiThreads : ~CiInitializing(u, c)'
      BY <1>0, <1>1, <3>1
    <3> QED BY <2>3, <3>2
  <2> QED BY <2>1, <2>2, <2>3 DEF CiInitStep
<1>6. /\ Len(ciStack[t]) \in Nat \ {0} /\ ciStack[t][Len(ciStack[t])] = f
      /\ \A x \in 1 .. Len(ciStack[t]) - 1 : ciStack'[t][x] = ciStack[t][x]
      /\ \A x \in 1 .. Len(ciStack'[t]) :
            \/ x \in 1 .. Len(ciStack[t]) - 1
            \/ x = Len(ciStack[t]) /\ ciStack'[t][x] = g
            \/ x = Len(ciStack[t]) + 1 /\ ciStack'[t][x].pc = "start"
  BY CiMovesPlaces
<1>4. ASSUME NEW u \in CiThreads, NEW c \in CiClasses,
             NEW i \in 1 .. Len(ciStack'[u]), NEW j \in 1 .. Len(ciStack'[u]),
             CiInitializes(ciStack'[u][i], c), CiInitializes(ciStack'[u][j], c)
      PROVE  i = j
  <2>0. \A x, y \in 1 .. Len(ciStack[u]) :
            CiInitializes(ciStack[u][x], c) /\ CiInitializes(ciStack[u][y], c) => x = y
    BY DEF CiInitialization
  <2>1. CASE u # t
    BY <2>0, <2>1, <1>4, CiMovesAlone
  <2>2. CASE u = t
    <3> DEFINE n == Len(ciStack[t])
               s == ciStack[t]
               r == ciStack'[t]
    <3>1. /\ n \in Nat \ {0} /\ s[n] = f
          /\ \A x \in 1 .. n - 1 : r[x] = s[x]
          /\ \A x \in 1 .. Len(r) : x \in 1 .. n - 1 \/ (x = n /\ r[x] = g)
                                      \/ (x = n + 1 /\ r[x].pc = "start")
      BY <1>6
    <3>2. ~CiInitializes(r[i], c) \/ i \in 1 .. n - 1 \/ (i = n /\ r[i] = g)
      BY <3>1, <2>2 DEF CiInitializes, CiClaimedPcs
    <3>3. ~CiInitializes(r[j], c) \/ j \in 1 .. n - 1 \/ (j = n /\ r[j] = g)
      BY <3>1, <2>2 DEF CiInitializes, CiClaimedPcs
    <3>4. \A x \in 1 .. n - 1 : x \in 1 .. n
      BY <3>1
    <3>5. CiInitializes(g, c) => ~CiBelowInitializes(t, c)
      <4>1. (CiInitializes(g, c) => CiInitializes(f, c)) \/ ciStatus[c] = "verified"
        BY DEF CiInitStep
      <4>2. ciStatus[c] = "verified" => ~CiBelowInitializes(t, c)
        BY <1>0, <1>1
      <4> QED BY <4>1, <4>2, <1>2
    <3> HIDE DEF n, s, r
    <3>6. CiInitializes(r[i], c) /\ CiInitializes(r[j], c)
      BY <1>4, <2>2 DEF r
    <3>7. \A x, y \in 1 .. n : CiInitializes(s[x], c) /\ CiInitializes(s[y], c) => x = y
      BY <2>0, <2>2 DEF n, s
    <3>8. ~CiBelowInitializes(t, c) => \A x \in 1 .. n - 1 : ~CiInitializes(s[x], c)
      BY DEF CiBelowInitializes, n, s
    <3> QED BY <3>1, <3>2, <3>3, <3>4, <3>5, <3>6, <3>7, <3>8
  <2> QED BY <2>1, <2>2
<1>5. ASSUME NEW u \in CiThreads, NEW c \in CiClasses
      PROVE  CiInitializing(u, c)' <=> \E i \in 1 .. Len(ciStack'[u]) : CiInitializes(ciStack'[u][i], c)
  BY DEF CiInitializing, CiInitializes
<1> QED
  <2>1. \A c \in CiClasses :
          /\ ciStatus'[c] = "initializing" =>
                ciInitializer'[c] \in CiThreads /\ CiInitializing(ciInitializer[c], c)'
          /\ \A u \in CiThreads :
                CiInitializing(u, c)' => ciStatus'[c] = "initializing" /\ ciInitializer'[c] = u
    <3> SUFFICES ASSUME NEW c \in CiClasses, ciStatus'[c] = "initializing"
                 PROVE  ciInitializer'[c] \in CiThreads /\ CiInitializing(ciInitializer[c], c)'
      BY <1>3
    <3>1. PICK u \in CiThreads : u = ciInitializer'[c] /\ CiInitializing(u, c)'
      BY <1>3
    <3> QED BY <3>1, <1>5 DEF CiInitializing, CiInitializes
  <2>2. \A u \in CiThreads, c \in CiClasses : \A i, j \in 1 .. Len(ciStack'[u]) :
          CiInitializes(ciStack'[u][i], c) /\ CiInitializes(ciStack'[u][j], c) => i = j
    BY <1>4
  <2> QED BY <2>1, <2>2 DEF CiInitialization, CiInitializes

\* CiSuperReady and CiKnows of the next state, spelled out.
CiReady(u, c, i) ==
    \/ CiSuper[c] = CiNoClass
    \/ ciStatus'[CiSuper[c]] = "initialized"
    \/ \E k \in 1 .. i - 1 : CiInitializes(ciStack'[u][k], CiSuper[c])
CiKnown(u, h, i) ==
    h.op = "init" =>
      /\ h.pc = "verified" /\ i = Len(ciStack'[u]) =>
            \/ ciStatus'[h.class] \in {"verified", "initializing", "initialized"}
            \/ ciStatus'[h.class] = "error" /\ ciPending'[u]
      /\ h.pc = "waiting" => ciStatus'[h.class] \in {"initializing", "initialized", "error"}
      /\ h.pc = "super_done" /\ i = Len(ciStack'[u]) =>
            IF ciResult'[u] THEN CiReady(u, h.class, i)
            ELSE ciStatus'[CiSuper[h.class]] = "error" /\ ciPending'[u]
      /\ h.pc = "clinit" => CiReady(u, h.class, i)
      /\ h.pc \in {"super", "super_done"} => ciRuns'[h.class] = 0

\* They are what the next state's CiKnows says of a call.
LEMMA CiKnowsIs ==
    ASSUME NEW u \in CiThreads, NEW i, NEW h, ciStack'[u][i] = h
    PROVE  CiKnows(u, i)' <=> CiKnown(u, h, i)
BY DEF CiReady, CiKnows, CiKnown, CiVerified, CiSuperReady, CiInitializes

\* A superclass that is ready stays so while the calls that initialise it stay.
LEMMA CiReadyStays ==
    ASSUME ClassInitAssumption, NEW t \in CiThreads, CiStatusStep(t), NEW u \in CiThreads, NEW c \in CiClasses, NEW i \in Nat,
           \A k \in 1 .. i - 1 : ciStack'[u][k] = ciStack[u][k], CiSuperReady(u, c, i)
    PROVE  CiReady(u, c, i)
<1>0. CiSuper[c] \in CiClasses \union {CiNoClass}
  BY ClassInitAssumption
<1>1. CASE CiSuper[c] = CiNoClass
  BY <1>1 DEF CiReady
<1>2. CASE CiSuper[c] \in CiClasses /\ ciStatus[CiSuper[c]] = "initialized"
  <2>1. ciStatus'[CiSuper[c]] = "initialized"
    BY <1>2 DEF CiStatusStep, CiLater
  <2> QED BY <2>1 DEF CiReady
<1>3. CASE \E k \in 1 .. i - 1 : CiInitializes(ciStack[u][k], CiSuper[c])
  <2>1. \E k \in 1 .. i - 1 : CiInitializes(ciStack'[u][k], CiSuper[c])
    BY <1>3
  <2> QED BY <2>1 DEF CiReady
<1> QED BY <1>0, <1>1, <1>2, <1>3 DEF CiSuperReady

\* What the calls of the other threads know stays true.
LEMMA CiKnowsOthers ==
    ASSUME ClassInitAssumption, CiInv, NEW t \in CiThreads, NEW f, NEW g, CiGoodStep(t, f, g),
           NEW u \in CiThreads, u # t, NEW i \in 1 .. Len(ciStack[u])
    PROVE  CiKnows(u, i)'
<1> DEFINE h == ciStack[u][i]
           c == h.class
<1>0. CiTypeInv /\ CiNested /\ CiLocked /\ CiInitialization /\ CiKnowledge
  BY DEF CiInv
<1>1. ciStack'[u] = ciStack[u] /\ ciPending'[u] = ciPending[u] /\ ciResult'[u] = ciResult[u]
  BY CiMovesAlone DEF CiGoodStep, CiLearns
<1>2. h \in CiCallRecords /\ i \in Nat
  <2>1. ciStack[u] \in Seq(CiCallRecords)
    BY <1>0 DEF CiTypeInv, CiCallRecords
  <2> QED BY <2>1
<1>3. c \in CiClasses
  BY <1>2 DEF CiCallRecords
<1>4. CiFits(h)
  BY <1>0 DEF CiNested, CiNestedCalls
<1>5. CiKnows(u, i)
  BY <1>0 DEF CiKnowledge
<1>6. CiStatusStep(t) /\ CiRunsStep(f, g) /\ CiMoves(t, f, g)
  BY DEF CiGoodStep
<1>7. CiHolds(h, c) => ciOwner[c] = u
  BY <1>0, <1>3 DEF CiLocked, CiHolding
<1>8. CiInitializes(h, c) => ciRuns'[c] = ciRuns[c]
  <2> SUFFICES ASSUME CiInitializes(h, c), f.op = "init", f.class = c, f.pc \in {"super", "super_done"}
               PROVE  FALSE
    BY <1>3, <1>6 DEF CiRunsStep
  <2>1. CiInitializes(f, c)
    BY DEF CiInitializes, CiClaimedPcs
  <2>2. CiInitializing(u, c)
    BY DEF CiInitializing
  <2>3. CiInitializing(t, c)
    BY <2>1, <1>6, CiSeenMoves
  <2> QED BY <1>0, <1>3, <2>2, <2>3 DEF CiInitialization
<1>9. CiSuperReady(u, c, i) => CiReady(u, c, i)
  BY <1>1, <1>2, <1>3, <1>6, CiReadyStays
<1>10. /\ ciStatus'[c] = ciStatus[c] \/ (ciOwner[c] = t /\ CiLater(ciStatus[c], ciStatus'[c]))
       /\ CiSuper[c] \in CiClasses /\ ciStatus[CiSuper[c]] = "error" => ciStatus'[CiSuper[c]] = "error"
  BY <1>3, <1>6 DEF CiStatusStep, CiLater
<1>11. ASSUME h.op = "init", h.pc = "verified", i = Len(ciStack[u])
       PROVE  ciStatus'[c] \in {"verified", "initializing", "initialized"} \/ (ciStatus'[c] = "error" /\ ciPending'[u])
  <2>1. ciStatus'[c] = ciStatus[c]
    BY <1>7, <1>10, <1>11 DEF CiHolds
  <2> QED BY <2>1, <1>1, <1>5, <1>11 DEF CiKnows, CiVerified
<1>12. ASSUME h.op = "init", h.pc = "waiting"
       PROVE  ciStatus'[c] \in {"initializing", "initialized", "error"}
  BY <1>5, <1>10, <1>12 DEF CiKnows, CiLater
<1>13. ASSUME h.op = "init", h.pc = "super_done", i = Len(ciStack[u])
       PROVE  IF ciResult'[u] THEN CiReady(u, c, i) ELSE ciStatus'[CiSuper[c]] = "error" /\ ciPending'[u]
  BY <1>1, <1>4, <1>5, <1>9, <1>10, <1>13 DEF CiKnows, CiFits
<1>14. ASSUME h.op = "init", h.pc = "clinit" PROVE CiReady(u, c, i)
  BY <1>5, <1>9, <1>14 DEF CiKnows
<1>15. ASSUME h.op = "init", h.pc \in {"super", "super_done"} PROVE ciRuns'[c] = 0
  BY <1>5, <1>8, <1>15 DEF CiKnows, CiInitializes, CiClaimedPcs
<1> QED
  <2>1. ciStack'[u][i] = h /\ Len(ciStack'[u]) = Len(ciStack[u])
    BY <1>1
  <2> HIDE DEF h, c
  <2>3. CiKnows(u, i)' <=> CiKnown(u, h, i)
    BY <2>1, CiKnowsIs
  <2> QED BY <1>11, <1>12, <1>13, <1>14, <1>15, <2>1, <2>3 DEF CiKnown, c

\* What the calls of the thread that takes the step know is true.
LEMMA CiKnowsOwn ==
    ASSUME ClassInitAssumption, CiInv, NEW t \in CiThreads, NEW f, NEW g, CiGoodStep(t, f, g),
           NEW i \in 1 .. Len(ciStack'[t])
    PROVE  CiKnows(t, i)'
<1> DEFINE s == ciStack[t]
           r == ciStack'[t]
           n == Len(s)
           h == r[i]
<1>0. CiTypeInv /\ CiNested /\ CiInitialization /\ CiKnowledge /\ CiTypeInv' /\ CiNested'
  BY DEF CiInv, CiGoodStep
<1>1. CiStatusStep(t) /\ CiRunsStep(f, g) /\ CiMoves(t, f, g) /\ CiLearns(t, f, g)
  BY DEF CiGoodStep
<1>2. /\ n \in Nat \ {0} /\ s[n] = f
      /\ \A k \in 1 .. n - 1 : r[k] = s[k]
      /\ i \in 1 .. n - 1 \/ (i = n /\ r[i] = g) \/ (i = n + 1 /\ r[i].pc = "start")
      /\ Len(r) \in {n - 1, n, n + 1}
      /\ (Len(r) = n - 1) <=> g = CiNoCall
      /\ Len(r) = n => (g.op = "init" => g.pc \notin {"verified", "super_done"})
  BY <1>1, CiMovesPlaces
<1>3. CiNestedCalls(s) /\ CiNestedCalls(r)
  BY <1>0 DEF CiNested, CiNestedCalls, CiFits, CiWaitsFor
<1>4. r \in Seq(CiCallRecords) /\ h \in CiCallRecords /\ h.class \in CiClasses /\ i \in Nat
  <2>1. r \in Seq(CiCallRecords)
    BY <1>0 DEF CiTypeInv, CiCallRecords
  <2>2. h \in CiCallRecords /\ i \in Nat
    BY <2>1
  <2> QED BY <2>1, <2>2 DEF CiCallRecords
<1> SUFFICES CiKnown(t, h, i)
  BY CiKnowsIs
<1>5. CiFits(h)
  BY <1>3 DEF CiNestedCalls
<1>6. ASSUME NEW c \in CiClasses
      PROVE  /\ CiReady(t, c, n) <=> CiSuperIsReady(t, c)
             /\ i =< n /\ CiSuperReady(t, c, i) => CiReady(t, c, i)
  <2>1. CiReady(t, c, n) <=> CiSuperIsReady(t, c)
    BY <1>2 DEF CiReady, CiSuperIsReady, CiBelowInitializes
  <2>2. ASSUME i =< n, CiSuperReady(t, c, i) PROVE CiReady(t, c, i)
    <3>1. \A k \in 1 .. i - 1 : r[k] = s[k]
      <4>1. \A k \in 1 .. i - 1 : k \in 1 .. n - 1
        BY <1>2, <1>4, <2>2
      <4> QED BY <1>2, <4>1
    <3> QED BY <1>1, <1>4, <2>2, <3>1, CiReadyStays
  <2> QED BY <2>1, <2>2
<1>7. CASE i = n + 1 /\ h.pc = "start"
  BY <1>7 DEF CiKnown
<1>8. CASE i = n /\ h = g
  <2>1. h.op = "init" =>
           /\ h.pc = "waiting" => ciStatus'[h.class] \in {"initializing", "initialized", "error"}
           /\ h.pc = "clinit" => CiReady(t, h.class, i)
           /\ h.pc \in {"super", "super_done"} => ciRuns'[h.class] = 0
    <3>1. CiReady(t, h.class, n) <=> CiSuperIsReady(t, h.class)
      BY <1>4, <1>6
    <3> QED BY <1>1, <1>8, <3>1 DEF CiLearns
  <2>2. h.op = "init" /\ i = Len(r) => h.pc \notin {"verified", "super_done"}
    BY <1>2, <1>8
  <2> QED BY <2>1, <2>2 DEF CiKnown
<1>9. CASE i \in 1 .. n - 1
  <2>0. h = s[i] /\ i \in 1 .. n /\ i < n /\ i =< n
    BY <1>2, <1>9
  <2>1. CiKnows(t, i)
    BY <1>0, <2>0 DEF CiKnowledge
  <2>2. CiWaitsFor(h, s[i + 1])
    BY <1>3, <2>0 DEF CiNestedCalls
  <2>3. h.op = "init" => h.pc \in {"clinit", "super_done", "verified"}
    BY <2>2 DEF CiWaitsFor
  <2>4. ASSUME h.op = "init", h.pc = "clinit" PROVE CiReady(t, h.class, i)
    BY <1>4, <1>6, <2>0, <2>1, <2>4 DEF CiKnows
  <2>5. ASSUME h.op = "init", h.pc = "super_done" PROVE ciRuns'[h.class] = 0
    <3>1. ciRuns[h.class] = 0
      BY <2>0, <2>1, <2>5 DEF CiKnows
    <3> SUFFICES ASSUME f.op = "init", f.class = h.class, f.pc \in {"super", "super_done"}
                 PROVE  FALSE
      BY <1>1, <1>4, <3>1 DEF CiRunsStep
    <3>2. CiInitializes(s[i], h.class) /\ CiInitializes(s[n], h.class)
      BY <1>2, <2>0, <2>5 DEF CiInitializes, CiClaimedPcs
    <3>3. n \in 1 .. n
      BY <1>2
    <3> QED BY <1>0, <1>4, <2>0, <3>2, <3>3 DEF CiInitialization
  <2>6. ASSUME h.op = "init", h.pc = "verified", i = Len(r)
        PROVE  \/ ciStatus'[h.class] \in {"verified", "initializing", "initialized"}
               \/ ciStatus'[h.class] = "error" /\ ciPending'[t]
    <3>1. g = CiNoCall /\ i + 1 = n
      BY <1>2, <2>0, <2>6
    <3>2. f.op = "verify" /\ f.class = h.class
      BY <1>2, <2>2, <2>6, <3>1 DEF CiWaitsFor
    <3> QED BY <1>1, <3>1, <3>2 DEF CiLearns
  <2>7. ASSUME h.op = "init", h.pc = "super_done", i = Len(r)
        PROVE  IF ciResult'[t] THEN CiReady(t, h.class, i)
               ELSE ciStatus'[CiSuper[h.class]] = "error" /\ ciPending'[t]
    <3>1. g = CiNoCall /\ i + 1 = n
      BY <1>2, <2>0, <2>7
    <3>2. f.op = "init" /\ f.class = CiSuper[h.class]
      BY <1>2, <2>2, <2>7, <3>1 DEF CiWaitsFor
    <3>3. IF ciResult'[t]
          THEN ciStatus'[f.class] = "initialized" \/ CiBelowInitializes(t, f.class)
          ELSE ciStatus'[f.class] = "error" /\ ciPending'[t]
      BY <1>1, <3>1, <3>2 DEF CiLearns
    <3>4. ASSUME CiBelowInitializes(t, f.class) PROVE CiReady(t, h.class, i)
      <4>1. PICK k \in 1 .. n - 1 : CiInitializes(s[k], f.class)
        BY <3>4 DEF CiBelowInitializes
      <4>2. CiSuper[h.class] # h.class
        <5>1. {h.class} \in SUBSET CiClasses /\ {h.class} # {}
          BY <1>4
        <5> QED BY <5>1, ClassInitAssumption
      <4>3. k # i
        BY <2>0, <3>2, <4>1, <4>2 DEF CiInitializes
      <4>4. k \in 1 .. i - 1
        BY <1>2, <1>4, <3>1, <4>3
      <4>5. r[k] = s[k]
        BY <1>2
      <4> QED BY <3>2, <4>1, <4>4, <4>5 DEF CiReady
    <3>5. ciStatus'[f.class] = "initialized" => CiReady(t, h.class, i)
      BY <3>2 DEF CiReady
    <3> QED BY <3>2, <3>3, <3>4, <3>5
  <2> HIDE DEF h, r, s
  <2> QED BY <2>3, <2>4, <2>5, <2>6, <2>7 DEF CiKnown, r
<1> QED BY <1>2, <1>7, <1>8, <1>9

\* A step that is good in this sense keeps the invariant.
LEMMA CiGoodStepKeeps ==
    ASSUME ClassInitAssumption, CiInv, NEW t \in CiThreads, NEW f, NEW g, CiGoodStep(t, f, g)
    PROVE  CiInv'
<1>0. CiTypeInv /\ CiNested /\ CiLocked /\ CiVerification /\ CiInitialization /\ CiKnowledge /\ CiCounted
  BY DEF CiInv
<1>1. /\ CiMoves(t, f, g) /\ CiTypeInv' /\ CiNested' /\ ~ciAborted'
      /\ CiLockStep(t, f, g) /\ CiVerifyStep(t, f, g) /\ CiInitStep(t, f, g)
      /\ CiStatusStep(t) /\ CiRunsStep(f, g)
  BY DEF CiGoodStep
<1>2. CiLocked'
  BY <1>0, <1>1, CiLockedStep
<1>3. CiVerification'
  BY <1>0, <1>1, CiVerificationStep
<1>4. CiInitialization'
  BY <1>0, <1>1, CiInitializationStep
<1>5. CiKnowledge'
  <2>1. ASSUME NEW u \in CiThreads, NEW i \in 1 .. Len(ciStack'[u]) PROVE CiKnows(u, i)'
    <3>1. CASE u # t
      <4>1. ciStack'[u] = ciStack[u]
        BY <1>1, <3>1, CiMovesAlone
      <4> QED BY <3>1, <4>1, CiKnowsOthers
    <3>2. CASE u = t
      BY <3>2, CiKnowsOwn
    <3> QED BY <3>1, <3>2
  <2> QED BY <2>1 DEF CiKnowledge
<1>6. CiCounted'
  <2> SUFFICES ASSUME NEW c \in CiClasses
               PROVE  /\ ciRuns'[c] =< 1
                      /\ ciStatus'[c] \in {"resolved", "verifying", "verified"} => ciRuns'[c] = 0
    BY DEF CiCounted
  <2>1. /\ ciRuns[c] \in Nat /\ ciRuns[c] =< 1
        /\ ciStatus[c] \in {"resolved", "verifying", "verified"} => ciRuns[c] = 0
    BY <1>0 DEF CiCounted, CiTypeInv
  <2>2. CASE ciRuns'[c] = ciRuns[c]
    <3>1. ciStatus'[c] = ciStatus[c] \/ CiLater(ciStatus[c], ciStatus'[c])
      BY <1>1 DEF CiStatusStep
    <3> QED BY <2>1, <2>2, <3>1 DEF CiLater
  <2>3. CASE /\ f.op = "init" /\ f.class = c /\ f.pc \in {"super", "super_done"}
             /\ g.op = "init" /\ g.class = c /\ g.pc = "clinit"
             /\ ciRuns'[c] = ciRuns[c] + 1
    <3>1. Len(ciStack[t]) \in Nat \ {0} /\ ciStack[t][Len(ciStack[t])] = f
      BY <1>1, CiMovesPlaces
    <3>2. CiKnows(t, Len(ciStack[t]))
      BY <1>0, <3>1 DEF CiKnowledge
    <3>3. ciRuns[c] = 0
      BY <2>3, <3>1, <3>2 DEF CiKnows
    <3>4. CiInitializes(g, c)
      BY <2>3 DEF CiInitializes, CiClaimedPcs
    <3>5. CiInitializing(t, c)'
      BY <1>1, <3>4, CiSeenMoves
    <3>6. ciStatus'[c] = "initializing"
      BY <1>4, <3>5 DEF CiInitialization
    <3> QED BY <2>3, <3>3, <3>6
  <2> QED BY <1>1, <2>2, <2>3 DEF CiRunsStep
<1> QED BY <1>1, <1>2, <1>3, <1>4, <1>5, <1>6 DEF CiInv

----------------------------------------------------------------------------
(* The steps one by one *)

\* Where a thread is that can take a step.
LEMMA CiAtIs ==
    ASSUME CiInv, NEW t \in CiThreads, NEW op \in {"init", "verify"}, NEW c \in CiClasses, NEW pc,
           CiAt(t, op, c, pc)
    PROVE  /\ Len(ciStack[t]) \in Nat \ {0} /\ CiTop(t) = CiFrame(op, c, pc) /\ ciStack[t] # <<>>
           /\ CiFits(CiFrame(op, c, pc)) /\ CiKnows(t, Len(ciStack[t]))
           /\ pc \in CiInitPcs \union CiVerifyPcs
<1> DEFINE s == ciStack[t]
           n == Len(s)
<1>0. CiTypeInv /\ CiNested /\ CiKnowledge
  BY DEF CiInv
<1>1. s \in Seq(CiCallRecords)
  BY <1>0 DEF CiTypeInv, CiCallRecords
<1>2. n \in Nat /\ n > 0 /\ s[n] = CiFrame(op, c, pc)
  BY <1>1 DEF CiAt
<1>3. n \in 1 .. n /\ s[n] \in CiCallRecords
  BY <1>1, <1>2
<1>4. CiFits(s[n]) /\ CiKnows(t, n)
  BY <1>0, <1>3 DEF CiNested, CiNestedCalls, CiKnowledge
<1>5. pc \in CiInitPcs \union CiVerifyPcs
  BY <1>2, <1>3 DEF CiCallRecords, CiFrame
<1> QED BY <1>2, <1>4, <1>5 DEF CiTop, CiAt

\* The innermost call goes on.
LEMMA CiGoStep ==
    ASSUME CiInv, NEW t \in CiThreads, NEW op \in {"init", "verify"}, NEW c \in CiClasses,
           NEW from, CiAt(t, op, c, from), NEW to, CiGo(t, to),
           op = "init" => to \in CiInitPcs \ {"verified", "super_done"},
           op = "verify" => to \in CiVerifyPcs,
           op = "verify" /\ to \in {"super", "super_done"} => CiSuper[c] \in CiClasses
    PROVE  /\ CiMoves(t, CiFrame(op, c, from), CiFrame(op, c, to)) /\ CiNested'
           /\ ciStack' \in [CiThreads -> Seq(CiCallRecords)]
<1>0. CiTypeInv /\ CiNested
  BY DEF CiInv
<1>1. to \in CiInitPcs \union CiVerifyPcs
  OBVIOUS
<1>2. CiGoes(t, CiFrame(op, c, from), CiFrame(op, c, to))
  BY <1>0, <1>1, CiGoIs
<1>3. CiFits(CiFrame(op, c, to))
  BY DEF CiFits, CiFrame
<1>4. CiFrame(op, c, from).op = CiFrame(op, c, to).op /\ CiFrame(op, c, from).class = CiFrame(op, c, to).class
  BY DEF CiFrame
<1>5. CiNested'
  BY <1>0, <1>2, <1>3, <1>4, CiNestedGoes
<1>6. CiMoves(t, CiFrame(op, c, from), CiFrame(op, c, to))
  BY <1>2 DEF CiMoves, CiFrame
<1> QED BY <1>2, <1>5, <1>6 DEF CiGoes, CiKeeps

\* The innermost call calls another function.
LEMMA CiCallStep ==
    ASSUME CiInv, NEW t \in CiThreads, NEW op \in {"init", "verify"}, NEW c \in CiClasses,
           NEW from, CiAt(t, op, c, from), NEW to \in {"verified", "super_done"},
           NEW op2 \in {"init", "verify"}, NEW d \in CiClasses, CiCallAnd(t, op2, d, to),
           CiWaitsFor(CiFrame(op, c, to), CiFrame(op2, d, "start"))
    PROVE  /\ CiMoves(t, CiFrame(op, c, from), CiFrame(op, c, to)) /\ CiNested'
           /\ ciStack' \in [CiThreads -> Seq(CiCallRecords)]
<1>0. CiTypeInv /\ CiNested
  BY DEF CiInv
<1>1. to \in CiInitPcs \union CiVerifyPcs
  BY DEF CiInitPcs
<1>2. CiCalls2(t, CiFrame(op, c, from), CiFrame(op, c, to), CiFrame(op2, d, "start"))
  BY <1>0, <1>1, CiCallIs
<1>3. CiFits(CiFrame(op, c, to)) /\ CiFits(CiFrame(op2, d, "start"))
  BY DEF CiFits, CiFrame, CiWaitsFor, CiInitPcs, CiVerifyPcs
<1>4. CiFrame(op, c, from).op = CiFrame(op, c, to).op /\ CiFrame(op, c, from).class = CiFrame(op, c, to).class
  BY DEF CiFrame
<1>5. CiNested'
  BY <1>0, <1>2, <1>3, <1>4, CiNestedCallsDeeper
<1>6. CiMoves(t, CiFrame(op, c, from), CiFrame(op, c, to))
  BY <1>2 DEF CiMoves
<1> QED BY <1>2, <1>5, <1>6 DEF CiCalls2, CiKeeps

\* The innermost call returns.
LEMMA CiReturnStep ==
    ASSUME CiInv, NEW t \in CiThreads, NEW op \in {"init", "verify"}, NEW c \in CiClasses,
           NEW from, CiAt(t, op, c, from), NEW result \in BOOLEAN, CiReturn(t, result)
    PROVE  /\ CiMoves(t, CiFrame(op, c, from), CiNoCall) /\ CiNested'
           /\ ciStack' \in [CiThreads -> Seq(CiCallRecords)]
           /\ ciResult' \in [CiThreads -> BOOLEAN] /\ ciResult'[t] = result
           /\ \A u \in CiThreads \ {t} : ciResult'[u] = ciResult[u]
<1>0. CiTypeInv /\ CiNested
  BY DEF CiInv
<1>1. CiReturns(t, CiFrame(op, c, from)) /\ ciResult' = [ciResult EXCEPT ![t] = result]
  BY <1>0, CiReturnIs
<1>2. CiNested'
  BY <1>0, <1>1, CiNestedReturns
<1>3. CiMoves(t, CiFrame(op, c, from), CiNoCall)
  BY <1>1 DEF CiMoves
<1>4. ciResult \in [CiThreads -> BOOLEAN]
  BY <1>0 DEF CiTypeInv
<1> QED BY <1>1, <1>2, <1>3, <1>4 DEF CiReturns, CiKeeps

\* In InitializeClass the thread has the lock of the class where it says so, and no other.
LEMMA CiHereInit ==
    ASSUME ClassInitAssumption, CiInv, NEW t \in CiThreads, NEW c \in CiClasses, NEW pc, CiAt(t, "init", c, pc)
    PROVE  /\ \A d \in CiClasses :
                 ~CiBelowHolds(t, d) /\ ~CiBelowVerifies(t, d) /\ ~CiBelowIsVerifying(t, d)
           /\ pc \in {"locked", "verified", "finish_locked"} => ciOwner[c] = t /\ ciDepth[c] = 1
           /\ pc \notin {"locked", "verified", "finish_locked"} => ciOwner[c] # t
           /\ ciOwner[c] = CiNoThread => ciDepth[c] = 0
           /\ pc \in CiClaimedPcs => ciStatus[c] = "initializing" /\ ciInitializer[c] = t
<1> DEFINE f == CiFrame("init", c, pc)
<1>0. CiTypeInv /\ CiNested /\ CiLocked /\ CiInitialization
  BY DEF CiInv
<1>1. Len(ciStack[t]) \in Nat \ {0} /\ CiTop(t) = f /\ ciStack[t] # <<>>
  BY CiAtIs
<1>2. f.op = "init" /\ f.class = c /\ f.pc = pc
  BY DEF CiFrame
<1> HIDE DEF f
<1>3. ASSUME NEW d \in CiClasses
      PROVE  ~CiBelowHolds(t, d) /\ ~CiBelowVerifies(t, d) /\ ~CiBelowIsVerifying(t, d)
  <2>1. ~CiBelowHolds(t, d) /\ ~CiBelowVerifies(t, d)
    BY <1>0, <1>1, <1>2, CiBelowInit
  <2> QED BY <2>1 DEF CiBelowVerifies, CiBelowIsVerifying, CiVerifies, CiIsVerifying
<1>4. (CiHolding(t, c) <=> CiHolds(f, c)) /\ (CiVerifyingIt(t, c) <=> CiVerifies(f, c))
  BY <1>1, <1>3, CiSeen
<1>5. (CiHolds(f, c) <=> pc \in {"locked", "verified", "finish_locked"}) /\ ~CiVerifies(f, c)
  BY <1>2 DEF CiHolds, CiVerifies
<1>6. pc \in CiClaimedPcs => CiInitializing(t, c)
  BY <1>1, <1>2, CiSeen DEF CiInitializes
<1>7. ciOwner[c] = CiNoThread => ciDepth[c] = 0
  BY <1>0 DEF CiLocked
<1>8. CiInitializing(t, c) => ciStatus[c] = "initializing" /\ ciInitializer[c] = t
  BY <1>0 DEF CiInitialization
<1>9. /\ CiHolding(t, c) => ciOwner[c] = t
      /\ ciOwner[c] = t => CiHolding(t, c) /\ ciDepth[c] = IF CiVerifyingIt(t, c) THEN 2 ELSE 1
  BY <1>0 DEF CiLocked
<1> QED BY <1>3, <1>4, <1>5, <1>6, <1>7, <1>8, <1>9

\* In VerifyClass the thread has the lock of the class, which its caller took, and once more of
\* its own; that of the superclass while it deals with it.
LEMMA CiHereVerify ==
    ASSUME ClassInitAssumption, CiInv, NEW t \in CiThreads, NEW c \in CiClasses, NEW pc, CiAt(t, "verify", c, pc)
    PROVE  /\ CiBelowHolds(t, c) /\ ~CiBelowVerifies(t, c) /\ ~CiBelowIsVerifying(t, c)
           /\ ciOwner[c] = t /\ ciDepth[c] = IF pc = "start" THEN 1 ELSE 2
           /\ pc \in {"super", "super_done", "verdict"} <=> ciStatus[c] = "verifying"
           /\ CiSuper[c] # c
           /\ CiSuper[c] \in CiClasses =>
                 /\ ~CiBelowHolds(t, CiSuper[c]) /\ ~CiBelowVerifies(t, CiSuper[c])
                 /\ pc = "super_done" => ciOwner[CiSuper[c]] = t /\ ciDepth[CiSuper[c]] = 1
                 /\ pc # "super_done" => ciOwner[CiSuper[c]] # t
                 /\ ciOwner[CiSuper[c]] = CiNoThread => ciDepth[CiSuper[c]] = 0
<1> DEFINE f == CiFrame("verify", c, pc)
           s == CiSuper[c]
<1>0. CiTypeInv /\ CiNested /\ CiLocked /\ CiVerification
  BY DEF CiInv
<1>1. Len(ciStack[t]) \in Nat \ {0} /\ CiTop(t) = f /\ ciStack[t] # <<>> /\ CiFits(f)
  BY CiAtIs
<1>2. f.op = "verify" /\ f.class = c /\ f.pc = pc
  BY DEF CiFrame
<1> HIDE DEF f
<1>3. /\ CiBelowHolds(t, c) /\ ~CiBelowVerifies(t, c) /\ s # c
      /\ s \in CiClasses => ~CiBelowHolds(t, s) /\ ~CiBelowVerifies(t, s)
  BY <1>0, <1>1, <1>2, CiBelowVerify
<1>4. ~CiBelowIsVerifying(t, c)
  BY <1>3 DEF CiBelowVerifies, CiBelowIsVerifying, CiVerifies, CiIsVerifying
<1>5. /\ CiHolding(t, c)
      /\ CiVerifyingIt(t, c) <=> CiVerifies(f, c)
      /\ CiIsVerifyingIt(t, c) <=> CiIsVerifying(f, c)
      /\ s \in CiClasses => (CiHolding(t, s) <=> CiHolds(f, s)) /\ (CiVerifyingIt(t, s) <=> CiVerifies(f, s))
  BY <1>1, <1>3, <1>4, CiSeen
<1>6. /\ CiVerifies(f, c) <=> pc # "start"
      /\ CiIsVerifying(f, c) <=> pc \in {"super", "super_done", "verdict"}
      /\ CiHolds(f, s) <=> pc = "super_done"
      /\ ~CiVerifies(f, s)
  BY <1>1, <1>2, <1>3 DEF CiVerifies, CiIsVerifying, CiHolds, CiFits, CiVerifyPcs
<1>7. ASSUME NEW d \in CiClasses
      PROVE  /\ CiHolding(t, d) => ciOwner[d] = t
             /\ ciOwner[d] = t => CiHolding(t, d) /\ ciDepth[d] = IF CiVerifyingIt(t, d) THEN 2 ELSE 1
             /\ ciOwner[d] = CiNoThread => ciDepth[d] = 0
  BY <1>0 DEF CiLocked
<1>8. ciOwner[c] = t /\ ciDepth[c] = IF pc = "start" THEN 1 ELSE 2
  BY <1>5, <1>6, <1>7
<1>9. pc \in {"super", "super_done", "verdict"} <=> ciStatus[c] = "verifying"
  <2>1. CiIsVerifying(f, c) => ciStatus[c] = "verifying"
    BY <1>0, <1>5 DEF CiVerification
  <2>2. ASSUME ciStatus[c] = "verifying" PROVE CiIsVerifying(f, c)
    <3>1. PICK u \in CiThreads : CiIsVerifyingIt(u, c)
      BY <1>0, <2>2 DEF CiVerification
    <3>2. CiVerifyingIt(u, c)
      BY <3>1 DEF CiIsVerifyingIt, CiVerifyingIt, CiIsVerifying, CiVerifies
    <3>3. u = t
      BY <1>0, <1>8, <3>2 DEF CiLocked
    <3> QED BY <1>5, <3>1, <3>3
  <2> QED BY <1>6, <2>1, <2>2
<1>10. ASSUME s \in CiClasses
       PROVE  /\ pc = "super_done" => ciOwner[s] = t /\ ciDepth[s] = 1
              /\ pc # "super_done" => ciOwner[s] # t
              /\ ciOwner[s] = CiNoThread => ciDepth[s] = 0
  BY <1>5, <1>6, <1>7, <1>10
<1> QED BY <1>3, <1>4, <1>8, <1>9, <1>10

\* The order of the statuses, for the CHECK of SetStatus.
LEMMA CiRanks ==
    /\ CiRank("resolved") = 1 /\ CiRank("verifying") = 2 /\ CiRank("verified") = 3
    /\ CiRank("initializing") = 4 /\ CiRank("initialized") = 5
<1>1. DOMAIN CiStatuses = 1 .. 5 /\ CiStatuses[1] = "resolved" /\ CiStatuses[2] = "verifying"
      /\ CiStatuses[3] = "verified" /\ CiStatuses[4] = "initializing" /\ CiStatuses[5] = "initialized"
  BY DEF CiStatuses
<1>2. ASSUME NEW i \in 1 .. 5 PROVE (CHOOSE j \in DOMAIN CiStatuses : CiStatuses[j] = CiStatuses[i]) = i
  <2>1. \A j \in 1 .. 5 : j = 1 \/ j = 2 \/ j = 3 \/ j = 4 \/ j = 5
    OBVIOUS
  <2>2. \A j \in 1 .. 5 : CiStatuses[j] = CiStatuses[i] => j = i
    BY <1>1, <2>1
  <2> QED BY <1>1, <2>2
<1>3. 1 \in 1 .. 5 /\ 2 \in 1 .. 5 /\ 3 \in 1 .. 5 /\ 4 \in 1 .. 5 /\ 5 \in 1 .. 5
  OBVIOUS
<1> QED BY <1>1, <1>2, <1>3 DEF CiRank

\* A later status passes the CHECKs of SetStatus, an error with an exception.
LEMMA CiSetStatus ==
    ASSUME CiInv, NEW t \in CiThreads, NEW c \in CiClasses, NEW new, SetStatus(t, c, new),
           ciOwner[c] = t, CiLater(ciStatus[c], new), new = "error" => ciPending'[t] = TRUE
    PROVE  /\ ~ciAborted' /\ CiStatusStep(t)
           /\ ciStatus'[c] = new /\ \A d \in CiClasses \ {c} : ciStatus'[d] = ciStatus[d]
           /\ ciStatus' \in [CiClasses -> {"resolved", "verifying", "verified", "initializing",
                                           "initialized", "error"}]
<1>1. ciStatus \in [CiClasses -> {"resolved", "verifying", "verified", "initializing",
                                  "initialized", "error"}]
  BY DEF CiInv, CiTypeInv
<1>2. ciStatus' = [ciStatus EXCEPT ![c] = new]
  BY DEF SetStatus
<1>3. ciStatus'[c] = new /\ \A d \in CiClasses \ {c} : ciStatus'[d] = ciStatus[d]
  BY <1>1, <1>2
<1>4. ~(new # "error" /\ CiRank(new) =< CiRank(ciStatus[c]))
  BY CiRanks DEF CiLater
<1>5. ~ciAborted'
  BY <1>4 DEF SetStatus, CiLater
<1>6. ciStatus' \in [CiClasses -> {"resolved", "verifying", "verified", "initializing",
                                   "initialized", "error"}]
  BY <1>1, <1>2 DEF CiLater
<1> QED BY <1>3, <1>5, <1>6 DEF CiStatusStep

\* The monitors after the lock of a class has been taken.
LEMMA CiLockIs ==
    ASSUME CiInv, NEW t \in CiThreads, NEW c \in CiClasses, CiLock(t, c)
    PROVE  /\ ciOwner[c] \in {t, CiNoThread} /\ ciOwner'[c] = t /\ ciDepth'[c] = ciDepth[c] + 1
           /\ \A d \in CiClasses \ {c} : ciOwner'[d] = ciOwner[d] /\ ciDepth'[d] = ciDepth[d]
           /\ ciOwner' \in [CiClasses -> CiThreads \union {CiNoThread}] /\ ciDepth' \in [CiClasses -> Nat]
<1>1. ciOwner \in [CiClasses -> CiThreads \union {CiNoThread}] /\ ciDepth \in [CiClasses -> Nat]
  BY DEF CiInv, CiTypeInv
<1> QED BY <1>1 DEF CiLock, CiCanLock
\* The monitors after the locks of some classes have been given back.
LEMMA CiUnlockIs ==
    ASSUME CiInv, NEW S \in SUBSET CiClasses, CiUnlockAll(S), \A d \in S : ciDepth[d] >= 1
    PROVE  /\ \A d \in S : /\ ciOwner'[d] = IF ciDepth[d] = 1 THEN CiNoThread ELSE ciOwner[d]
                           /\ ciDepth'[d] = ciDepth[d] - 1
           /\ \A d \in CiClasses \ S : ciOwner'[d] = ciOwner[d] /\ ciDepth'[d] = ciDepth[d]
           /\ ciOwner' \in [CiClasses -> CiThreads \union {CiNoThread}] /\ ciDepth' \in [CiClasses -> Nat]
<1>1. ciOwner \in [CiClasses -> CiThreads \union {CiNoThread}] /\ ciDepth \in [CiClasses -> Nat]
  BY DEF CiInv, CiTypeInv
<1> QED BY <1>1 DEF CiUnlockAll

\* The test without the lock.
LEMMA CiStartGood ==
    ASSUME ClassInitAssumption, CiInv, NEW t \in CiThreads, NEW c \in CiClasses, CiStart(t, c)
    PROVE  \E f, g : CiGoodStep(t, f, g)
<1> DEFINE f == CiFrame("init", c, "start")
<1>0. CiTypeInv /\ ~ciAborted /\ CiAt(t, "init", c, "start")
  BY DEF CiInv, CiStart
<1>1. CASE ciStatus[c] = "initialized"
  <2>1. CiReturn(t, TRUE)
    BY <1>1 DEF CiStart
  <2>2. /\ CiMoves(t, f, CiNoCall) /\ CiNested' /\ ciStack' \in [CiThreads -> Seq(CiCallRecords)]
        /\ ciResult' \in [CiThreads -> BOOLEAN] /\ ciResult'[t] = TRUE
        /\ \A u \in CiThreads \ {t} : ciResult'[u] = ciResult[u]
    BY <1>0, <2>1, CiReturnStep
  <2>3. CiTypeInv'
    BY <1>0, <2>2 DEF CiStart, CiTypeInv, CiCallRecords, ciMonitors, ciNote
  <2>4. CiLockStep(t, f, CiNoCall)
    BY DEF CiStart, ciMonitors, CiLockStep, CiHolds, CiVerifies, CiFrame, CiNoCall
  <2>5. CiVerifyStep(t, f, CiNoCall) /\ CiInitStep(t, f, CiNoCall)
    BY DEF CiStart, CiVerifyStep, CiInitStep, CiIsVerifying, CiInitializes, CiClaimedPcs, CiFrame, CiNoCall
  <2>6. CiStatusStep(t) /\ CiRunsStep(f, CiNoCall) /\ ~ciAborted'
    BY <1>0 DEF CiStart, CiStatusStep, CiRunsStep, ciNote
  <2>7. CiLearns(t, f, CiNoCall)
    BY <1>1, <2>2 DEF CiStart, CiLearns, CiFrame, CiNoCall
  <2> QED BY <2>2, <2>3, <2>4, <2>5, <2>6, <2>7 DEF CiGoodStep
<1>2. CASE ciStatus[c] # "initialized"
  <2> DEFINE g == CiFrame("init", c, "lock")
  <2>1. CiGo(t, "lock")
    BY <1>2 DEF CiStart
  <2>2. CiMoves(t, f, g) /\ CiNested' /\ ciStack' \in [CiThreads -> Seq(CiCallRecords)]
    BY <1>0, <2>1, CiGoStep DEF CiInitPcs
  <2>3. CiTypeInv'
    BY <1>0, <1>2, <2>2 DEF CiStart, CiTypeInv, CiCallRecords, ciMonitors, ciNote
  <2>4. CiLockStep(t, f, g)
    BY DEF CiStart, ciMonitors, CiLockStep, CiHolds, CiVerifies, CiFrame
  <2>5. CiVerifyStep(t, f, g) /\ CiInitStep(t, f, g)
    BY DEF CiStart, CiVerifyStep, CiInitStep, CiIsVerifying, CiInitializes, CiClaimedPcs, CiFrame
  <2>6. CiStatusStep(t) /\ CiRunsStep(f, g) /\ ~ciAborted'
    BY <1>0 DEF CiStart, CiStatusStep, CiRunsStep, ciNote
  <2>7. CiLearns(t, f, g)
    BY <1>2, <2>2 DEF CiStart, CiLearns, CiFrame, CiNoCall
  <2> QED BY <2>2, <2>3, <2>4, <2>5, <2>6, <2>7 DEF CiGoodStep
<1> QED BY <1>1, <1>2

\* Taking the lock.
LEMMA CiEnterLockGood ==
    ASSUME ClassInitAssumption, CiInv, NEW t \in CiThreads, NEW c \in CiClasses, CiEnterLock(t, c)
    PROVE  \E f, g : CiGoodStep(t, f, g)
<1> DEFINE f == CiFrame("init", c, "lock")
           g == CiFrame("init", c, "locked")
<1>0. CiTypeInv /\ ~ciAborted /\ CiAt(t, "init", c, "lock")
  BY DEF CiInv, CiEnterLock
<1>1. CiMoves(t, f, g) /\ CiNested' /\ ciStack' \in [CiThreads -> Seq(CiCallRecords)]
  BY <1>0, CiGoStep DEF CiEnterLock, CiInitPcs
<1>2. /\ ciOwner[c] \in {t, CiNoThread} /\ ciOwner'[c] = t /\ ciDepth'[c] = ciDepth[c] + 1
      /\ \A d \in CiClasses \ {c} : ciOwner'[d] = ciOwner[d] /\ ciDepth'[d] = ciDepth[d]
      /\ ciOwner' \in [CiClasses -> CiThreads \union {CiNoThread}] /\ ciDepth' \in [CiClasses -> Nat]
  BY CiLockIs DEF CiEnterLock
<1>3. /\ ~CiBelowHolds(t, c) /\ ~CiBelowVerifies(t, c) /\ ciOwner[c] # t
      /\ ciOwner[c] = CiNoThread => ciDepth[c] = 0
  BY <1>0, CiHereInit
<1>4. CiTypeInv'
  BY <1>0, <1>1, <1>2 DEF CiEnterLock, CiTypeInv, CiCallRecords, ciNote
<1>5. CiLockStep(t, f, g)
  BY <1>2, <1>3 DEF CiLockStep, CiHolds, CiVerifies, CiFrame
<1>6. CiVerifyStep(t, f, g) /\ CiInitStep(t, f, g)
  BY DEF CiEnterLock, CiVerifyStep, CiInitStep, CiIsVerifying, CiInitializes, CiClaimedPcs, CiFrame
<1>7. CiStatusStep(t) /\ CiRunsStep(f, g) /\ ~ciAborted'
  BY <1>0 DEF CiEnterLock, CiStatusStep, CiRunsStep, ciNote
<1>8. CiLearns(t, f, g)
  BY DEF CiEnterLock, CiLearns, CiFrame, CiNoCall
<1> QED BY <1>1, <1>4, <1>5, <1>6, <1>7, <1>8 DEF CiGoodStep

\* The class has to be verified first.
LEMMA CiVerifyFirstGood ==
    ASSUME ClassInitAssumption, CiInv, NEW t \in CiThreads, NEW c \in CiClasses, CiVerifyFirst(t, c)
    PROVE  \E f, g : CiGoodStep(t, f, g)
<1> DEFINE f == CiFrame("init", c, "locked")
<1>0. CiTypeInv /\ ~ciAborted /\ CiAt(t, "init", c, "locked")
  BY DEF CiInv, CiVerifyFirst
<1>10. /\ \A d \in CiClasses :
              ~CiBelowHolds(t, d) /\ ~CiBelowVerifies(t, d) /\ ~CiBelowIsVerifying(t, d)
       /\ ciOwner[c] = t /\ ciDepth[c] = 1
       /\ ciOwner[c] = CiNoThread => ciDepth[c] = 0
  BY <1>0, CiHereInit
<1> DEFINE g == CiFrame("init", c, "verified")
<1>1. CiCallAnd(t, "verify", c, "verified") /\ c \in CiClasses
  BY ClassInitAssumption DEF CiVerifyFirst
<1>2. CiMoves(t, f, g) /\ CiNested' /\ ciStack' \in [CiThreads -> Seq(CiCallRecords)]
  <2>1. CiWaitsFor(CiFrame("init", c, "verified"), CiFrame("verify", c, "start"))
    BY DEF CiWaitsFor, CiFrame
  <2> QED BY <1>0, <1>1, <2>1, CiCallStep
<1>3. ciOwner' = ciOwner /\ ciDepth' = ciDepth
  BY DEF CiVerifyFirst, ciMonitors
<1>4. ciStatus' = ciStatus /\ ~ciAborted'
  BY <1>0, <1>10 DEF CiVerifyFirst, ciNote
<1>5. CiTypeInv'
  BY <1>0, <1>2, <1>3, <1>4 DEF CiVerifyFirst, CiTypeInv, CiCallRecords, ciMonitors, ciNote
<1>6. CiLockStep(t, f, g)
  BY <1>10, <1>3 DEF CiLockStep, CiHolds, CiVerifies, CiFrame
<1>7. CiVerifyStep(t, f, g) /\ CiInitStep(t, f, g)
  BY <1>10, <1>4 DEF CiVerifyFirst, CiVerifyStep, CiInitStep, CiIsVerifying, CiInitializes, CiClaimedPcs, CiFrame
<1>8. CiStatusStep(t) /\ CiRunsStep(f, g)
  BY <1>0, <1>4 DEF CiVerifyFirst, CiTypeInv, CiStatusStep, CiRunsStep, ciNote, CiFrame
<1>9. CiLearns(t, f, g)
  BY <1>0, <1>10, <1>2, <1>4 DEF CiVerifyFirst, CiTypeInv, CiLearns, ciNote, CiFrame, CiNoCall
<1> QED BY <1>2, <1>4, <1>5, <1>6, <1>7, <1>8, <1>9 DEF CiGoodStep

\* After the verification, with the lock still held.
LEMMA CiAfterVerifyGood ==
    ASSUME ClassInitAssumption, CiInv, NEW t \in CiThreads, NEW c \in CiClasses, CiAfterVerify(t, c)
    PROVE  \E f, g : CiGoodStep(t, f, g)
<1> DEFINE f == CiFrame("init", c, "verified")
<1>0. CiTypeInv /\ ~ciAborted /\ CiAt(t, "init", c, "verified")
  BY DEF CiInv, CiAfterVerify
<1>10. /\ \A d \in CiClasses :
              ~CiBelowHolds(t, d) /\ ~CiBelowVerifies(t, d) /\ ~CiBelowIsVerifying(t, d)
       /\ ciOwner[c] = t /\ ciDepth[c] = 1
       /\ ciOwner[c] = CiNoThread => ciDepth[c] = 0
  BY <1>0, CiHereInit
<1>11. CiKnows(t, Len(ciStack[t])) /\ ciStack[t][Len(ciStack[t])] = f
  BY <1>0, CiAtIs DEF CiTop
<1>12. ciStatus[c] \in {"verified", "initializing", "initialized"} \/ (ciStatus[c] = "error" /\ ciPending[t])
  BY <1>11 DEF CiKnows, CiFrame, CiVerified
<1>1. CASE ciStatus[c] \in {"verified", "initializing", "initialized"}
  <2> DEFINE g == CiFrame("init", c, "locked")
  <2>1. CiGo(t, "locked")
    BY <1>1 DEF CiAfterVerify, CiVerified
  <2>2. CiMoves(t, f, g) /\ CiNested' /\ ciStack' \in [CiThreads -> Seq(CiCallRecords)]
    BY <1>0, <2>1, CiGoStep DEF CiInitPcs
  <2>3. ciOwner' = ciOwner /\ ciDepth' = ciDepth
    BY <1>1 DEF CiAfterVerify, ciMonitors, CiVerified
  <2>4. ciStatus' = ciStatus /\ ~ciAborted'
    BY <1>0, <1>10, <1>1, <1>12 DEF CiAfterVerify, ciNote, CiVerified
  <2>5. CiTypeInv'
    BY <1>0, <1>1, <2>2, <2>3, <2>4 DEF CiAfterVerify, CiTypeInv, CiCallRecords, ciMonitors, ciNote, CiVerified
  <2>6. CiLockStep(t, f, g)
    BY <1>10, <2>3 DEF CiLockStep, CiHolds, CiVerifies, CiFrame
  <2>7. CiVerifyStep(t, f, g) /\ CiInitStep(t, f, g)
    BY <1>10, <1>1, <2>4 DEF CiAfterVerify, CiVerifyStep, CiInitStep, CiIsVerifying, CiInitializes, CiClaimedPcs, CiFrame
  <2>8. CiStatusStep(t) /\ CiRunsStep(f, g)
    BY <1>0, <1>1, <2>4 DEF CiAfterVerify, CiTypeInv, CiStatusStep, CiRunsStep, ciNote, CiFrame
  <2>9. CiLearns(t, f, g)
    BY <1>0, <1>10, <1>1, <1>12, <2>2, <2>4 DEF CiAfterVerify, CiTypeInv, CiLearns, ciNote, CiFrame, CiNoCall, CiVerified
  <2> QED BY <2>2, <2>4, <2>5, <2>6, <2>7, <2>8, <2>9 DEF CiGoodStep
<1>2. CASE ciStatus[c] \notin {"verified", "initializing", "initialized"}
  <2>1. CiReturn(t, FALSE)
    BY <1>2 DEF CiAfterVerify, CiVerified
  <2>2. /\ CiMoves(t, f, CiNoCall) /\ CiNested' /\ ciStack' \in [CiThreads -> Seq(CiCallRecords)]
        /\ ciResult' \in [CiThreads -> BOOLEAN] /\ ciResult'[t] = FALSE
        /\ \A u \in CiThreads \ {t} : ciResult'[u] = ciResult[u]
    BY <1>0, <2>1, CiReturnStep
  <2>3. /\ \A d \in {c} : ciOwner'[d] = (IF ciDepth[d] = 1 THEN CiNoThread ELSE ciOwner[d])
        /\ \A d \in {c} : ciDepth'[d] = ciDepth[d] - 1
        /\ \A d \in CiClasses \ {c} : ciOwner'[d] = ciOwner[d] /\ ciDepth'[d] = ciDepth[d]
        /\ ciOwner' \in [CiClasses -> CiThreads \union {CiNoThread}] /\ ciDepth' \in [CiClasses -> Nat]
    <3>1. CiUnlockAll({c})
      BY <1>2 DEF CiAfterVerify, CiUnlock, CiVerifyReturn, CiVerified
    <3>2. {c} \in SUBSET CiClasses /\ \A d \in {c} : ciDepth[d] >= 1
      BY <1>10
    <3> QED BY <3>1, <3>2, CiUnlockIs
  <2>4. ciStatus' = ciStatus /\ ~ciAborted'
    BY <1>0, <1>10, <1>2, <1>12 DEF CiAfterVerify, ciNote, CiVerified
  <2>5. CiTypeInv'
    BY <1>0, <1>2, <2>2, <2>3, <2>4 DEF CiAfterVerify, CiTypeInv, CiCallRecords, ciMonitors, ciNote, CiVerified
  <2>6. CiLockStep(t, f, CiNoCall)
    BY <1>10, <2>3 DEF CiLockStep, CiHolds, CiVerifies, CiFrame, CiNoCall
  <2>7. CiVerifyStep(t, f, CiNoCall) /\ CiInitStep(t, f, CiNoCall)
    BY <1>10, <1>2, <2>4 DEF CiAfterVerify, CiVerifyStep, CiInitStep, CiIsVerifying, CiInitializes, CiClaimedPcs, CiFrame, CiNoCall
  <2>8. CiStatusStep(t) /\ CiRunsStep(f, CiNoCall)
    BY <1>0, <1>2, <2>4 DEF CiAfterVerify, CiTypeInv, CiStatusStep, CiRunsStep, ciNote, CiFrame
  <2>9. CiLearns(t, f, CiNoCall)
    BY <1>0, <1>10, <1>2, <1>12, <2>2, <2>4 DEF CiAfterVerify, CiTypeInv, CiLearns, ciNote, CiFrame, CiNoCall, CiVerified
  <2> QED BY <2>2, <2>4, <2>5, <2>6, <2>7, <2>8, <2>9 DEF CiGoodStep
<1> QED BY <1>1, <1>2 DEF CiAfterVerify

\* The class does not match its superclass.
LEMMA CiRejectedGood ==
    ASSUME ClassInitAssumption, CiInv, NEW t \in CiThreads, NEW c \in CiClasses, CiRejected(t, c)
    PROVE  \E f, g : CiGoodStep(t, f, g)
<1> DEFINE f == CiFrame("init", c, "locked")
<1>0. CiTypeInv /\ ~ciAborted /\ CiAt(t, "init", c, "locked")
  BY DEF CiInv, CiRejected
<1>10. /\ \A d \in CiClasses :
              ~CiBelowHolds(t, d) /\ ~CiBelowVerifies(t, d) /\ ~CiBelowIsVerifying(t, d)
       /\ ciOwner[c] = t /\ ciDepth[c] = 1
       /\ ciOwner[c] = CiNoThread => ciDepth[c] = 0
  BY <1>0, CiHereInit
<1>1. CiReturn(t, FALSE)
  BY DEF CiRejected
<1>2. /\ CiMoves(t, f, CiNoCall) /\ CiNested' /\ ciStack' \in [CiThreads -> Seq(CiCallRecords)]
      /\ ciResult' \in [CiThreads -> BOOLEAN] /\ ciResult'[t] = FALSE
      /\ \A u \in CiThreads \ {t} : ciResult'[u] = ciResult[u]
  BY <1>0, <1>1, CiReturnStep
<1>3. /\ \A d \in {c} : ciOwner'[d] = (IF ciDepth[d] = 1 THEN CiNoThread ELSE ciOwner[d])
      /\ \A d \in {c} : ciDepth'[d] = ciDepth[d] - 1
      /\ \A d \in CiClasses \ {c} : ciOwner'[d] = ciOwner[d] /\ ciDepth'[d] = ciDepth[d]
      /\ ciOwner' \in [CiClasses -> CiThreads \union {CiNoThread}] /\ ciDepth' \in [CiClasses -> Nat]
  <2>1. CiUnlockAll({c})
    BY DEF CiRejected, CiUnlock, CiVerifyReturn
  <2>2. {c} \in SUBSET CiClasses /\ \A d \in {c} : ciDepth[d] >= 1
    BY <1>10
  <2> QED BY <2>1, <2>2, CiUnlockIs
<1>4. /\ ~ciAborted' /\ CiStatusStep(t)
      /\ ciStatus'[c] = "error" /\ \A d \in CiClasses \ {c} : ciStatus'[d] = ciStatus[d]
      /\ ciStatus' \in [CiClasses -> {"resolved", "verifying", "verified", "initializing",
                                      "initialized", "error"}]
  <2>1. SetStatus(t, c, "error")
    BY DEF CiRejected
  <2>3. ciOwner[c] = t /\ CiLater(ciStatus[c], "error")
    BY <1>10 DEF CiRejected, CiLater
  <2>2. "error" = "error" => ciPending'[t] = TRUE
    BY <1>0 DEF CiRejected, CiTypeInv
  <2> QED BY <2>1, <2>2, <2>3, CiSetStatus
<1>5. CiTypeInv'
  BY <1>0, <1>2, <1>3, <1>4 DEF CiRejected, CiTypeInv, CiCallRecords, ciMonitors, ciNote
<1>6. CiLockStep(t, f, CiNoCall)
  BY <1>10, <1>3 DEF CiLockStep, CiHolds, CiVerifies, CiFrame, CiNoCall
<1>7. CiVerifyStep(t, f, CiNoCall) /\ CiInitStep(t, f, CiNoCall)
  BY <1>10, <1>4 DEF CiRejected, CiVerifyStep, CiInitStep, CiIsVerifying, CiInitializes, CiClaimedPcs, CiFrame, CiNoCall
<1>8. CiStatusStep(t) /\ CiRunsStep(f, CiNoCall)
  BY <1>0, <1>4 DEF CiRejected, CiTypeInv, CiStatusStep, CiRunsStep, ciNote, CiFrame
<1>9. CiLearns(t, f, CiNoCall)
  BY <1>0, <1>10, <1>2, <1>4 DEF CiRejected, CiTypeInv, CiLearns, ciNote, CiFrame, CiNoCall
<1> QED BY <1>2, <1>4, <1>5, <1>6, <1>7, <1>8, <1>9 DEF CiGoodStep

\* The thread claims the class.
LEMMA CiClaimGood ==
    ASSUME ClassInitAssumption, CiInv, NEW t \in CiThreads, NEW c \in CiClasses, CiClaim(t, c)
    PROVE  \E f, g : CiGoodStep(t, f, g)
<1> DEFINE f == CiFrame("init", c, "locked")
<1>0. CiTypeInv /\ ~ciAborted /\ CiAt(t, "init", c, "locked")
  BY DEF CiInv, CiClaim
<1>10. /\ \A d \in CiClasses :
              ~CiBelowHolds(t, d) /\ ~CiBelowVerifies(t, d) /\ ~CiBelowIsVerifying(t, d)
       /\ ciOwner[c] = t /\ ciDepth[c] = 1
       /\ ciOwner[c] = CiNoThread => ciDepth[c] = 0
  BY <1>0, CiHereInit
<1>11. ciRuns[c] = 0
  BY DEF CiInv, CiCounted, CiClaim
<1> DEFINE g == CiFrame("init", c, "super")
<1>1. CiGo(t, "super")
  BY DEF CiClaim
<1>2. CiMoves(t, f, g) /\ CiNested' /\ ciStack' \in [CiThreads -> Seq(CiCallRecords)]
  BY <1>0, <1>1, CiGoStep DEF CiInitPcs
<1>3. /\ \A d \in {c} : ciOwner'[d] = (IF ciDepth[d] = 1 THEN CiNoThread ELSE ciOwner[d])
      /\ \A d \in {c} : ciDepth'[d] = ciDepth[d] - 1
      /\ \A d \in CiClasses \ {c} : ciOwner'[d] = ciOwner[d] /\ ciDepth'[d] = ciDepth[d]
      /\ ciOwner' \in [CiClasses -> CiThreads \union {CiNoThread}] /\ ciDepth' \in [CiClasses -> Nat]
  <2>1. CiUnlockAll({c})
    BY DEF CiClaim, CiUnlock, CiVerifyReturn
  <2>2. {c} \in SUBSET CiClasses /\ \A d \in {c} : ciDepth[d] >= 1
    BY <1>10
  <2> QED BY <2>1, <2>2, CiUnlockIs
<1>4. /\ ~ciAborted' /\ CiStatusStep(t)
      /\ ciStatus'[c] = "initializing" /\ \A d \in CiClasses \ {c} : ciStatus'[d] = ciStatus[d]
      /\ ciStatus' \in [CiClasses -> {"resolved", "verifying", "verified", "initializing",
                                      "initialized", "error"}]
  <2>1. SetStatus(t, c, "initializing")
    BY DEF CiClaim
  <2>3. ciOwner[c] = t /\ CiLater(ciStatus[c], "initializing")
    BY <1>10 DEF CiClaim, CiLater
  <2>2. "initializing" = "error" => ciPending'[t] = TRUE
    BY <1>0 DEF CiClaim, CiTypeInv
  <2> QED BY <2>1, <2>2, <2>3, CiSetStatus
<1>5. CiTypeInv'
  BY <1>0, <1>2, <1>3, <1>4 DEF CiClaim, CiTypeInv, CiCallRecords, ciMonitors, ciNote
<1>6. CiLockStep(t, f, g)
  BY <1>10, <1>3 DEF CiLockStep, CiHolds, CiVerifies, CiFrame
<1>7. CiVerifyStep(t, f, g) /\ CiInitStep(t, f, g)
  BY <1>10, <1>0, <1>4 DEF CiClaim, CiTypeInv, CiVerifyStep, CiInitStep, CiIsVerifying, CiInitializes, CiClaimedPcs, CiFrame
<1>8. CiStatusStep(t) /\ CiRunsStep(f, g)
  BY <1>0, <1>4 DEF CiClaim, CiTypeInv, CiStatusStep, CiRunsStep, ciNote, CiFrame
<1>9. CiLearns(t, f, g)
  BY <1>0, <1>10, <1>11, <1>2, <1>4 DEF CiClaim, CiTypeInv, CiLearns, ciNote, CiFrame, CiNoCall
<1> QED BY <1>2, <1>4, <1>5, <1>6, <1>7, <1>8, <1>9 DEF CiGoodStep

\* <clinit> ends.
LEMMA CiClinitEndsGood ==
    ASSUME ClassInitAssumption, CiInv, NEW t \in CiThreads, NEW c \in CiClasses, NEW throws \in BOOLEAN, CiClinitEnds(t, c, throws)
    PROVE  \E f, g : CiGoodStep(t, f, g)
<1> DEFINE f == CiFrame("init", c, "clinit")
<1>0. CiTypeInv /\ ~ciAborted /\ CiAt(t, "init", c, "clinit")
  BY DEF CiInv, CiClinitEnds
<1>10. /\ \A d \in CiClasses :
              ~CiBelowHolds(t, d) /\ ~CiBelowVerifies(t, d) /\ ~CiBelowIsVerifying(t, d)
       /\ ciOwner[c] # t
       /\ ciOwner[c] = CiNoThread => ciDepth[c] = 0
       /\ ciStatus[c] = "initializing" /\ ciInitializer[c] = t
  BY <1>0, CiHereInit DEF CiClaimedPcs
<1> DEFINE g == CiFrame("init", c, "finish")
<1>1. CiGo(t, "finish")
  BY DEF CiClinitEnds
<1>2. CiMoves(t, f, g) /\ CiNested' /\ ciStack' \in [CiThreads -> Seq(CiCallRecords)]
  BY <1>0, <1>1, CiGoStep DEF CiInitPcs
<1>3. ciOwner' = ciOwner /\ ciDepth' = ciDepth
  BY DEF CiClinitEnds, ciMonitors
<1>4. ciStatus' = ciStatus /\ ~ciAborted'
  BY <1>0, <1>10 DEF CiClinitEnds, ciNote
<1>5. CiTypeInv'
  BY <1>0, <1>2, <1>3, <1>4 DEF CiClinitEnds, CiTypeInv, CiCallRecords, ciMonitors, ciNote
<1>6. CiLockStep(t, f, g)
  BY <1>10, <1>3 DEF CiLockStep, CiHolds, CiVerifies, CiFrame
<1>7. CiVerifyStep(t, f, g) /\ CiInitStep(t, f, g)
  BY <1>10, <1>4 DEF CiClinitEnds, CiVerifyStep, CiInitStep, CiIsVerifying, CiInitializes, CiClaimedPcs, CiFrame
<1>8. CiStatusStep(t) /\ CiRunsStep(f, g)
  BY <1>0, <1>4 DEF CiClinitEnds, CiTypeInv, CiStatusStep, CiRunsStep, ciNote, CiFrame
<1>9. CiLearns(t, f, g)
  BY <1>0, <1>10, <1>2, <1>4 DEF CiClinitEnds, CiTypeInv, CiLearns, ciNote, CiFrame, CiNoCall
<1> QED BY <1>2, <1>4, <1>5, <1>6, <1>7, <1>8, <1>9 DEF CiGoodStep

\* Taking the lock again.
LEMMA CiFinishLockGood ==
    ASSUME ClassInitAssumption, CiInv, NEW t \in CiThreads, NEW c \in CiClasses, CiFinishLock(t, c)
    PROVE  \E f, g : CiGoodStep(t, f, g)
<1> DEFINE f == CiFrame("init", c, "finish")
<1>0. CiTypeInv /\ ~ciAborted /\ CiAt(t, "init", c, "finish")
  BY DEF CiInv, CiFinishLock
<1>10. /\ \A d \in CiClasses :
              ~CiBelowHolds(t, d) /\ ~CiBelowVerifies(t, d) /\ ~CiBelowIsVerifying(t, d)
       /\ ciOwner[c] # t
       /\ ciOwner[c] = CiNoThread => ciDepth[c] = 0
       /\ ciStatus[c] = "initializing" /\ ciInitializer[c] = t
  BY <1>0, CiHereInit DEF CiClaimedPcs
<1> DEFINE g == CiFrame("init", c, "finish_locked")
<1>1. CiGo(t, "finish_locked")
  BY DEF CiFinishLock
<1>2. CiMoves(t, f, g) /\ CiNested' /\ ciStack' \in [CiThreads -> Seq(CiCallRecords)]
  BY <1>0, <1>1, CiGoStep DEF CiInitPcs
<1>3. /\ ciOwner[c] \in {t, CiNoThread} /\ ciOwner'[c] = t /\ ciDepth'[c] = ciDepth[c] + 1
      /\ \A d \in CiClasses \ {c} : ciOwner'[d] = ciOwner[d] /\ ciDepth'[d] = ciDepth[d]
      /\ ciOwner' \in [CiClasses -> CiThreads \union {CiNoThread}] /\ ciDepth' \in [CiClasses -> Nat]
  BY CiLockIs DEF CiFinishLock
<1>4. ciStatus' = ciStatus /\ ~ciAborted'
  BY <1>0, <1>10 DEF CiFinishLock, ciNote
<1>5. CiTypeInv'
  BY <1>0, <1>2, <1>3, <1>4 DEF CiFinishLock, CiTypeInv, CiCallRecords, ciMonitors, ciNote
<1>6. CiLockStep(t, f, g)
  BY <1>10, <1>3 DEF CiLockStep, CiHolds, CiVerifies, CiFrame
<1>7. CiVerifyStep(t, f, g) /\ CiInitStep(t, f, g)
  BY <1>10, <1>4 DEF CiFinishLock, CiVerifyStep, CiInitStep, CiIsVerifying, CiInitializes, CiClaimedPcs, CiFrame
<1>8. CiStatusStep(t) /\ CiRunsStep(f, g)
  BY <1>0, <1>4 DEF CiFinishLock, CiTypeInv, CiStatusStep, CiRunsStep, ciNote, CiFrame
<1>9. CiLearns(t, f, g)
  BY <1>0, <1>10, <1>2, <1>4 DEF CiFinishLock, CiTypeInv, CiLearns, ciNote, CiFrame, CiNoCall
<1> QED BY <1>2, <1>4, <1>5, <1>6, <1>7, <1>8, <1>9 DEF CiGoodStep

\* The class becomes initialised or erroneous.
LEMMA CiFinishGood ==
    ASSUME ClassInitAssumption, CiInv, NEW t \in CiThreads, NEW c \in CiClasses, CiFinish(t, c)
    PROVE  \E f, g : CiGoodStep(t, f, g)
<1> DEFINE f == CiFrame("init", c, "finish_locked")
<1>0. CiTypeInv /\ ~ciAborted /\ CiAt(t, "init", c, "finish_locked")
  BY DEF CiInv, CiFinish
<1>10. /\ \A d \in CiClasses :
              ~CiBelowHolds(t, d) /\ ~CiBelowVerifies(t, d) /\ ~CiBelowIsVerifying(t, d)
       /\ ciOwner[c] = t /\ ciDepth[c] = 1
       /\ ciOwner[c] = CiNoThread => ciDepth[c] = 0
       /\ ciStatus[c] = "initializing" /\ ciInitializer[c] = t
  BY <1>0, CiHereInit DEF CiClaimedPcs
<1>11. ciPending[t] \in BOOLEAN
  BY <1>0 DEF CiTypeInv
<1>1. CASE ciPending[t] = TRUE
  <2>1. CiReturn(t, FALSE)
    BY <1>1 DEF CiFinish
  <2>2. /\ CiMoves(t, f, CiNoCall) /\ CiNested' /\ ciStack' \in [CiThreads -> Seq(CiCallRecords)]
        /\ ciResult' \in [CiThreads -> BOOLEAN] /\ ciResult'[t] = FALSE
        /\ \A u \in CiThreads \ {t} : ciResult'[u] = ciResult[u]
    BY <1>0, <2>1, CiReturnStep
  <2>3. /\ \A d \in {c} : ciOwner'[d] = (IF ciDepth[d] = 1 THEN CiNoThread ELSE ciOwner[d])
        /\ \A d \in {c} : ciDepth'[d] = ciDepth[d] - 1
        /\ \A d \in CiClasses \ {c} : ciOwner'[d] = ciOwner[d] /\ ciDepth'[d] = ciDepth[d]
        /\ ciOwner' \in [CiClasses -> CiThreads \union {CiNoThread}] /\ ciDepth' \in [CiClasses -> Nat]
    <3>1. CiUnlockAll({c})
      BY <1>1 DEF CiFinish, CiUnlock, CiVerifyReturn
    <3>2. {c} \in SUBSET CiClasses /\ \A d \in {c} : ciDepth[d] >= 1
      BY <1>10
    <3> QED BY <3>1, <3>2, CiUnlockIs
  <2>4. /\ ~ciAborted' /\ CiStatusStep(t)
        /\ ciStatus'[c] = "error" /\ \A d \in CiClasses \ {c} : ciStatus'[d] = ciStatus[d]
        /\ ciStatus' \in [CiClasses -> {"resolved", "verifying", "verified", "initializing",
                                        "initialized", "error"}]
    <3>1. SetStatus(t, c, "error")
      BY <1>1 DEF CiFinish
    <3>3. ciOwner[c] = t /\ CiLater(ciStatus[c], "error")
      BY <1>10 DEF CiFinish, CiLater
    <3>2. "error" = "error" => ciPending'[t] = TRUE
      BY <1>0, <1>1 DEF CiFinish, CiTypeInv
    <3> QED BY <3>1, <3>2, <3>3, CiSetStatus
  <2>5. CiTypeInv'
    BY <1>0, <1>1, <2>2, <2>3, <2>4 DEF CiFinish, CiTypeInv, CiCallRecords, ciMonitors, ciNote
  <2>6. CiLockStep(t, f, CiNoCall)
    BY <1>10, <2>3 DEF CiLockStep, CiHolds, CiVerifies, CiFrame, CiNoCall
  <2>7. CiVerifyStep(t, f, CiNoCall) /\ CiInitStep(t, f, CiNoCall)
    BY <1>10, <1>1, <2>4 DEF CiFinish, CiVerifyStep, CiInitStep, CiIsVerifying, CiInitializes, CiClaimedPcs, CiFrame, CiNoCall
  <2>8. CiStatusStep(t) /\ CiRunsStep(f, CiNoCall)
    BY <1>0, <1>1, <2>4 DEF CiFinish, CiTypeInv, CiStatusStep, CiRunsStep, ciNote, CiFrame
  <2>9. CiLearns(t, f, CiNoCall)
    BY <1>0, <1>10, <1>1, <2>2, <2>4 DEF CiFinish, CiTypeInv, CiLearns, ciNote, CiFrame, CiNoCall
  <2> QED BY <2>2, <2>4, <2>5, <2>6, <2>7, <2>8, <2>9 DEF CiGoodStep
<1>2. CASE ciPending[t] = FALSE
  <2>1. CiReturn(t, TRUE)
    BY <1>2 DEF CiFinish
  <2>2. /\ CiMoves(t, f, CiNoCall) /\ CiNested' /\ ciStack' \in [CiThreads -> Seq(CiCallRecords)]
        /\ ciResult' \in [CiThreads -> BOOLEAN] /\ ciResult'[t] = TRUE
        /\ \A u \in CiThreads \ {t} : ciResult'[u] = ciResult[u]
    BY <1>0, <2>1, CiReturnStep
  <2>3. /\ \A d \in {c} : ciOwner'[d] = (IF ciDepth[d] = 1 THEN CiNoThread ELSE ciOwner[d])
        /\ \A d \in {c} : ciDepth'[d] = ciDepth[d] - 1
        /\ \A d \in CiClasses \ {c} : ciOwner'[d] = ciOwner[d] /\ ciDepth'[d] = ciDepth[d]
        /\ ciOwner' \in [CiClasses -> CiThreads \union {CiNoThread}] /\ ciDepth' \in [CiClasses -> Nat]
    <3>1. CiUnlockAll({c})
      BY <1>2 DEF CiFinish, CiUnlock, CiVerifyReturn
    <3>2. {c} \in SUBSET CiClasses /\ \A d \in {c} : ciDepth[d] >= 1
      BY <1>10
    <3> QED BY <3>1, <3>2, CiUnlockIs
  <2>4. /\ ~ciAborted' /\ CiStatusStep(t)
        /\ ciStatus'[c] = "initialized" /\ \A d \in CiClasses \ {c} : ciStatus'[d] = ciStatus[d]
        /\ ciStatus' \in [CiClasses -> {"resolved", "verifying", "verified", "initializing",
                                        "initialized", "error"}]
    <3>1. SetStatus(t, c, "initialized")
      BY <1>2 DEF CiFinish
    <3>3. ciOwner[c] = t /\ CiLater(ciStatus[c], "initialized")
      BY <1>10 DEF CiFinish, CiLater
    <3>2. "initialized" = "error" => ciPending'[t] = TRUE
      BY <1>0, <1>2 DEF CiFinish, CiTypeInv
    <3> QED BY <3>1, <3>2, <3>3, CiSetStatus
  <2>5. CiTypeInv'
    BY <1>0, <1>2, <2>2, <2>3, <2>4 DEF CiFinish, CiTypeInv, CiCallRecords, ciMonitors, ciNote
  <2>6. CiLockStep(t, f, CiNoCall)
    BY <1>10, <2>3 DEF CiLockStep, CiHolds, CiVerifies, CiFrame, CiNoCall
  <2>7. CiVerifyStep(t, f, CiNoCall) /\ CiInitStep(t, f, CiNoCall)
    BY <1>10, <1>2, <2>4 DEF CiFinish, CiVerifyStep, CiInitStep, CiIsVerifying, CiInitializes, CiClaimedPcs, CiFrame, CiNoCall
  <2>8. CiStatusStep(t) /\ CiRunsStep(f, CiNoCall)
    BY <1>0, <1>2, <2>4 DEF CiFinish, CiTypeInv, CiStatusStep, CiRunsStep, ciNote, CiFrame
  <2>9. CiLearns(t, f, CiNoCall)
    BY <1>0, <1>10, <1>2, <2>2, <2>4 DEF CiFinish, CiTypeInv, CiLearns, ciNote, CiFrame, CiNoCall
  <2> QED BY <2>2, <2>4, <2>5, <2>6, <2>7, <2>8, <2>9 DEF CiGoodStep
<1> QED BY <1>11, <1>1, <1>2 DEF CiFinish

\* The lock once more, for the verification.
LEMMA CiVerifyStartGood ==
    ASSUME ClassInitAssumption, CiInv, NEW t \in CiThreads, NEW c \in CiClasses, CiVerifyStart(t, c)
    PROVE  \E f, g : CiGoodStep(t, f, g)
<1> DEFINE f == CiFrame("verify", c, "start")
<1>0. CiTypeInv /\ ~ciAborted /\ CiAt(t, "verify", c, "start")
  BY DEF CiInv, CiVerifyStart
<1>10. /\ CiBelowHolds(t, c) /\ ~CiBelowVerifies(t, c) /\ ~CiBelowIsVerifying(t, c)
       /\ ciOwner[c] = t /\ ciDepth[c] = 1
       /\ ciStatus[c] # "verifying"
       /\ CiSuper[c] # c
       /\ CiSuper[c] \in CiClasses =>
              /\ ~CiBelowHolds(t, CiSuper[c]) /\ ~CiBelowVerifies(t, CiSuper[c])
              /\ ciOwner[CiSuper[c]] # t
              /\ ciOwner[CiSuper[c]] = CiNoThread => ciDepth[CiSuper[c]] = 0
  BY <1>0, CiHereVerify
<1> DEFINE g == CiFrame("verify", c, "locked")
<1>1. CiGo(t, "locked")
  BY DEF CiVerifyStart
<1>2. CiMoves(t, f, g) /\ CiNested' /\ ciStack' \in [CiThreads -> Seq(CiCallRecords)]
  BY <1>0, <1>1, CiGoStep DEF CiVerifyPcs
<1>3. /\ ciOwner[c] \in {t, CiNoThread} /\ ciOwner'[c] = t /\ ciDepth'[c] = ciDepth[c] + 1
      /\ \A d \in CiClasses \ {c} : ciOwner'[d] = ciOwner[d] /\ ciDepth'[d] = ciDepth[d]
      /\ ciOwner' \in [CiClasses -> CiThreads \union {CiNoThread}] /\ ciDepth' \in [CiClasses -> Nat]
  BY CiLockIs DEF CiVerifyStart
<1>4. ciStatus' = ciStatus /\ ~ciAborted'
  BY <1>0, <1>10 DEF CiVerifyStart, ciNote
<1>5. CiTypeInv'
  BY <1>0, <1>2, <1>3, <1>4 DEF CiVerifyStart, CiTypeInv, CiCallRecords, ciMonitors, ciNote
<1>6. CiLockStep(t, f, g)
  BY <1>10, <1>3 DEF CiLockStep, CiHolds, CiVerifies, CiFrame
<1>7. CiVerifyStep(t, f, g) /\ CiInitStep(t, f, g)
  BY <1>10, <1>4 DEF CiVerifyStart, CiVerifyStep, CiInitStep, CiIsVerifying, CiInitializes, CiClaimedPcs, CiFrame
<1>8. CiStatusStep(t) /\ CiRunsStep(f, g)
  BY <1>0, <1>4 DEF CiVerifyStart, CiTypeInv, CiStatusStep, CiRunsStep, ciNote, CiFrame
<1>9. CiLearns(t, f, g)
  BY <1>0, <1>10, <1>2, <1>4 DEF CiVerifyStart, CiTypeInv, CiLearns, ciNote, CiFrame, CiNoCall
<1> QED BY <1>2, <1>4, <1>5, <1>6, <1>7, <1>8, <1>9 DEF CiGoodStep

\* Verified already, or erroneous.
LEMMA CiVerifyDoneGood ==
    ASSUME ClassInitAssumption, CiInv, NEW t \in CiThreads, NEW c \in CiClasses, CiVerifyDone(t, c)
    PROVE  \E f, g : CiGoodStep(t, f, g)
<1> DEFINE f == CiFrame("verify", c, "locked")
<1>0. CiTypeInv /\ ~ciAborted /\ CiAt(t, "verify", c, "locked")
  BY DEF CiInv, CiVerifyDone
<1>10. /\ CiBelowHolds(t, c) /\ ~CiBelowVerifies(t, c) /\ ~CiBelowIsVerifying(t, c)
       /\ ciOwner[c] = t /\ ciDepth[c] = 2
       /\ ciStatus[c] # "verifying"
       /\ CiSuper[c] # c
       /\ CiSuper[c] \in CiClasses =>
              /\ ~CiBelowHolds(t, CiSuper[c]) /\ ~CiBelowVerifies(t, CiSuper[c])
              /\ ciOwner[CiSuper[c]] # t
              /\ ciOwner[CiSuper[c]] = CiNoThread => ciDepth[CiSuper[c]] = 0
  BY <1>0, CiHereVerify
<1>1. CiReturn(t, TRUE)
  BY DEF CiVerifyDone, CiVerifyReturn
<1>2. /\ CiMoves(t, f, CiNoCall) /\ CiNested' /\ ciStack' \in [CiThreads -> Seq(CiCallRecords)]
      /\ ciResult' \in [CiThreads -> BOOLEAN] /\ ciResult'[t] = TRUE
      /\ \A u \in CiThreads \ {t} : ciResult'[u] = ciResult[u]
  BY <1>0, <1>1, CiReturnStep
<1>3. /\ \A d \in {c} : ciOwner'[d] = (IF ciDepth[d] = 1 THEN CiNoThread ELSE ciOwner[d])
      /\ \A d \in {c} : ciDepth'[d] = ciDepth[d] - 1
      /\ \A d \in CiClasses \ {c} : ciOwner'[d] = ciOwner[d] /\ ciDepth'[d] = ciDepth[d]
      /\ ciOwner' \in [CiClasses -> CiThreads \union {CiNoThread}] /\ ciDepth' \in [CiClasses -> Nat]
  <2>1. CiUnlockAll({c})
    BY DEF CiVerifyDone, CiUnlock, CiVerifyReturn
  <2>2. {c} \in SUBSET CiClasses /\ \A d \in {c} : ciDepth[d] >= 1
    BY <1>10
  <2> QED BY <2>1, <2>2, CiUnlockIs
<1>4. ciStatus' = ciStatus /\ ~ciAborted'
  BY <1>0, <1>10 DEF CiVerifyDone, ciNote
<1>5. CiTypeInv'
  BY <1>0, <1>2, <1>3, <1>4 DEF CiVerifyDone, CiTypeInv, CiCallRecords, ciMonitors, ciNote
<1>6. CiLockStep(t, f, CiNoCall)
  BY <1>10, <1>3 DEF CiLockStep, CiHolds, CiVerifies, CiFrame, CiNoCall
<1>7. CiVerifyStep(t, f, CiNoCall) /\ CiInitStep(t, f, CiNoCall)
  BY <1>10, <1>4 DEF CiVerifyDone, CiVerifyStep, CiInitStep, CiIsVerifying, CiInitializes, CiClaimedPcs, CiFrame, CiNoCall
<1>8. CiStatusStep(t) /\ CiRunsStep(f, CiNoCall)
  BY <1>0, <1>4 DEF CiVerifyDone, CiTypeInv, CiStatusStep, CiRunsStep, ciNote, CiFrame
<1>9. CiLearns(t, f, CiNoCall)
  BY <1>0, <1>10, <1>2, <1>4 DEF CiVerifyDone, CiTypeInv, CiLearns, ciNote, CiFrame, CiNoCall, CiVerified
<1> QED BY <1>2, <1>4, <1>5, <1>6, <1>7, <1>8, <1>9 DEF CiGoodStep

\* Initialised, erroneous, or being initialised by this thread.
LEMMA CiAlreadyDoneGood ==
    ASSUME ClassInitAssumption, CiInv, NEW t \in CiThreads, NEW c \in CiClasses, CiAlreadyDone(t, c)
    PROVE  \E f, g : CiGoodStep(t, f, g)
<1> DEFINE f == CiFrame("init", c, "locked")
<1>0. CiTypeInv /\ ~ciAborted /\ CiAt(t, "init", c, "locked")
  BY DEF CiInv, CiAlreadyDone
<1>10. /\ \A d \in CiClasses :
              ~CiBelowHolds(t, d) /\ ~CiBelowVerifies(t, d) /\ ~CiBelowIsVerifying(t, d)
       /\ ciOwner[c] = t /\ ciDepth[c] = 1
       /\ ciOwner[c] = CiNoThread => ciDepth[c] = 0
  BY <1>0, CiHereInit
<1>11. ciStatus[c] = "initializing" /\ ciInitializer[c] = t => CiBelowInitializes(t, c)
  <2>1. Len(ciStack[t]) \in Nat \ {0} /\ CiTop(t) = f
    BY <1>0, CiAtIs
  <2>2. ~CiInitializes(f, c)
    BY DEF CiInitializes, CiClaimedPcs, CiFrame
  <2>3. ciStatus[c] = "initializing" /\ ciInitializer[c] = t => CiInitializing(t, c)
    BY DEF CiInv, CiInitialization
  <2> QED BY <2>1, <2>2, <2>3, CiSeen
<1>1. CASE ciStatus[c] = "initialized"
  <2>1. CiReturn(t, TRUE)
    BY <1>1 DEF CiAlreadyDone
  <2>2. /\ CiMoves(t, f, CiNoCall) /\ CiNested' /\ ciStack' \in [CiThreads -> Seq(CiCallRecords)]
        /\ ciResult' \in [CiThreads -> BOOLEAN] /\ ciResult'[t] = TRUE
        /\ \A u \in CiThreads \ {t} : ciResult'[u] = ciResult[u]
    BY <1>0, <2>1, CiReturnStep
  <2>3. /\ \A d \in {c} : ciOwner'[d] = (IF ciDepth[d] = 1 THEN CiNoThread ELSE ciOwner[d])
        /\ \A d \in {c} : ciDepth'[d] = ciDepth[d] - 1
        /\ \A d \in CiClasses \ {c} : ciOwner'[d] = ciOwner[d] /\ ciDepth'[d] = ciDepth[d]
        /\ ciOwner' \in [CiClasses -> CiThreads \union {CiNoThread}] /\ ciDepth' \in [CiClasses -> Nat]
    <3>1. CiUnlockAll({c})
      BY <1>1 DEF CiAlreadyDone, CiUnlock, CiVerifyReturn
    <3>2. {c} \in SUBSET CiClasses /\ \A d \in {c} : ciDepth[d] >= 1
      BY <1>10
    <3> QED BY <3>1, <3>2, CiUnlockIs
  <2>4. ciStatus' = ciStatus /\ ~ciAborted'
    BY <1>0, <1>10, <1>1 DEF CiAlreadyDone, ciNote
  <2>5. CiTypeInv'
    BY <1>0, <1>1, <2>2, <2>3, <2>4 DEF CiAlreadyDone, CiTypeInv, CiCallRecords, ciMonitors, ciNote
  <2>6. CiLockStep(t, f, CiNoCall)
    BY <1>10, <2>3 DEF CiLockStep, CiHolds, CiVerifies, CiFrame, CiNoCall
  <2>7. CiVerifyStep(t, f, CiNoCall) /\ CiInitStep(t, f, CiNoCall)
    BY <1>10, <1>1, <2>4 DEF CiAlreadyDone, CiVerifyStep, CiInitStep, CiIsVerifying, CiInitializes, CiClaimedPcs, CiFrame, CiNoCall
  <2>8. CiStatusStep(t) /\ CiRunsStep(f, CiNoCall)
    BY <1>0, <1>1, <2>4 DEF CiAlreadyDone, CiTypeInv, CiStatusStep, CiRunsStep, ciNote, CiFrame
  <2>9. CiLearns(t, f, CiNoCall)
    BY <1>0, <1>10, <1>1, <2>2, <2>4 DEF CiAlreadyDone, CiTypeInv, CiLearns, ciNote, CiFrame, CiNoCall
  <2> QED BY <2>2, <2>4, <2>5, <2>6, <2>7, <2>8, <2>9 DEF CiGoodStep
<1>2. CASE ciStatus[c] = "error"
  <2>1. CiReturn(t, FALSE)
    BY <1>2 DEF CiAlreadyDone
  <2>2. /\ CiMoves(t, f, CiNoCall) /\ CiNested' /\ ciStack' \in [CiThreads -> Seq(CiCallRecords)]
        /\ ciResult' \in [CiThreads -> BOOLEAN] /\ ciResult'[t] = FALSE
        /\ \A u \in CiThreads \ {t} : ciResult'[u] = ciResult[u]
    BY <1>0, <2>1, CiReturnStep
  <2>3. /\ \A d \in {c} : ciOwner'[d] = (IF ciDepth[d] = 1 THEN CiNoThread ELSE ciOwner[d])
        /\ \A d \in {c} : ciDepth'[d] = ciDepth[d] - 1
        /\ \A d \in CiClasses \ {c} : ciOwner'[d] = ciOwner[d] /\ ciDepth'[d] = ciDepth[d]
        /\ ciOwner' \in [CiClasses -> CiThreads \union {CiNoThread}] /\ ciDepth' \in [CiClasses -> Nat]
    <3>1. CiUnlockAll({c})
      BY <1>2 DEF CiAlreadyDone, CiUnlock, CiVerifyReturn
    <3>2. {c} \in SUBSET CiClasses /\ \A d \in {c} : ciDepth[d] >= 1
      BY <1>10
    <3> QED BY <3>1, <3>2, CiUnlockIs
  <2>4. ciStatus' = ciStatus /\ ~ciAborted'
    BY <1>0, <1>10, <1>2 DEF CiAlreadyDone, ciNote
  <2>5. CiTypeInv'
    BY <1>0, <1>2, <2>2, <2>3, <2>4 DEF CiAlreadyDone, CiTypeInv, CiCallRecords, ciMonitors, ciNote
  <2>6. CiLockStep(t, f, CiNoCall)
    BY <1>10, <2>3 DEF CiLockStep, CiHolds, CiVerifies, CiFrame, CiNoCall
  <2>7. CiVerifyStep(t, f, CiNoCall) /\ CiInitStep(t, f, CiNoCall)
    BY <1>10, <1>2, <2>4 DEF CiAlreadyDone, CiVerifyStep, CiInitStep, CiIsVerifying, CiInitializes, CiClaimedPcs, CiFrame, CiNoCall
  <2>8. CiStatusStep(t) /\ CiRunsStep(f, CiNoCall)
    BY <1>0, <1>2, <2>4 DEF CiAlreadyDone, CiTypeInv, CiStatusStep, CiRunsStep, ciNote, CiFrame
  <2>9. CiLearns(t, f, CiNoCall)
    BY <1>0, <1>10, <1>2, <2>2, <2>4 DEF CiAlreadyDone, CiTypeInv, CiLearns, ciNote, CiFrame, CiNoCall
  <2> QED BY <2>2, <2>4, <2>5, <2>6, <2>7, <2>8, <2>9 DEF CiGoodStep
<1>3. CASE ciStatus[c] = "initializing" /\ ciInitializer[c] = t
  <2>1. CiReturn(t, TRUE)
    BY <1>3 DEF CiAlreadyDone
  <2>2. /\ CiMoves(t, f, CiNoCall) /\ CiNested' /\ ciStack' \in [CiThreads -> Seq(CiCallRecords)]
        /\ ciResult' \in [CiThreads -> BOOLEAN] /\ ciResult'[t] = TRUE
        /\ \A u \in CiThreads \ {t} : ciResult'[u] = ciResult[u]
    BY <1>0, <2>1, CiReturnStep
  <2>3. /\ \A d \in {c} : ciOwner'[d] = (IF ciDepth[d] = 1 THEN CiNoThread ELSE ciOwner[d])
        /\ \A d \in {c} : ciDepth'[d] = ciDepth[d] - 1
        /\ \A d \in CiClasses \ {c} : ciOwner'[d] = ciOwner[d] /\ ciDepth'[d] = ciDepth[d]
        /\ ciOwner' \in [CiClasses -> CiThreads \union {CiNoThread}] /\ ciDepth' \in [CiClasses -> Nat]
    <3>1. CiUnlockAll({c})
      BY <1>3 DEF CiAlreadyDone, CiUnlock, CiVerifyReturn
    <3>2. {c} \in SUBSET CiClasses /\ \A d \in {c} : ciDepth[d] >= 1
      BY <1>10
    <3> QED BY <3>1, <3>2, CiUnlockIs
  <2>4. ciStatus' = ciStatus /\ ~ciAborted'
    BY <1>0, <1>10, <1>3 DEF CiAlreadyDone, ciNote
  <2>5. CiTypeInv'
    BY <1>0, <1>3, <2>2, <2>3, <2>4 DEF CiAlreadyDone, CiTypeInv, CiCallRecords, ciMonitors, ciNote
  <2>6. CiLockStep(t, f, CiNoCall)
    BY <1>10, <2>3 DEF CiLockStep, CiHolds, CiVerifies, CiFrame, CiNoCall
  <2>7. CiVerifyStep(t, f, CiNoCall) /\ CiInitStep(t, f, CiNoCall)
    BY <1>10, <1>3, <2>4 DEF CiAlreadyDone, CiVerifyStep, CiInitStep, CiIsVerifying, CiInitializes, CiClaimedPcs, CiFrame, CiNoCall
  <2>8. CiStatusStep(t) /\ CiRunsStep(f, CiNoCall)
    BY <1>0, <1>3, <2>4 DEF CiAlreadyDone, CiTypeInv, CiStatusStep, CiRunsStep, ciNote, CiFrame
  <2>9. CiLearns(t, f, CiNoCall)
    BY <1>0, <1>10, <1>3, <1>11, <2>2, <2>4 DEF CiAlreadyDone, CiTypeInv, CiLearns, ciNote, CiFrame, CiNoCall
  <2> QED BY <2>2, <2>4, <2>5, <2>6, <2>7, <2>8, <2>9 DEF CiGoodStep
<1> QED BY <1>1, <1>2, <1>3 DEF CiAlreadyDone

\* The superclass first, or <clinit> at once.
LEMMA CiInitSuperGood ==
    ASSUME ClassInitAssumption, CiInv, NEW t \in CiThreads, NEW c \in CiClasses, CiInitSuper(t, c)
    PROVE  \E f, g : CiGoodStep(t, f, g)
<1> DEFINE f == CiFrame("init", c, "super")
<1>0. CiTypeInv /\ ~ciAborted /\ CiAt(t, "init", c, "super")
  BY DEF CiInv, CiInitSuper
<1>10. /\ \A d \in CiClasses :
              ~CiBelowHolds(t, d) /\ ~CiBelowVerifies(t, d) /\ ~CiBelowIsVerifying(t, d)
       /\ ciOwner[c] # t
       /\ ciOwner[c] = CiNoThread => ciDepth[c] = 0
       /\ ciStatus[c] = "initializing" /\ ciInitializer[c] = t
  BY <1>0, CiHereInit DEF CiClaimedPcs
<1>11. CiKnows(t, Len(ciStack[t])) /\ ciStack[t][Len(ciStack[t])] = f
  BY <1>0, CiAtIs DEF CiTop
<1>12. ciRuns[c] = 0
  BY <1>11 DEF CiKnows, CiFrame
<1>1. CASE CiSuper[c] # CiNoClass /\ ciStatus[CiSuper[c]] # "initialized"
  <2> DEFINE g == CiFrame("init", c, "super_done")
  <2>1. CiCallAnd(t, "init", CiSuper[c], "super_done") /\ CiSuper[c] \in CiClasses
    BY <1>1, ClassInitAssumption DEF CiInitSuper
  <2>2. CiMoves(t, f, g) /\ CiNested' /\ ciStack' \in [CiThreads -> Seq(CiCallRecords)]
    <3>1. CiWaitsFor(CiFrame("init", c, "super_done"), CiFrame("init", CiSuper[c], "start"))
      BY DEF CiWaitsFor, CiFrame
    <3> QED BY <1>0, <2>1, <3>1, CiCallStep
  <2>3. ciOwner' = ciOwner /\ ciDepth' = ciDepth
    BY <1>1 DEF CiInitSuper, ciMonitors
  <2>4. ciStatus' = ciStatus /\ ~ciAborted'
    BY <1>0, <1>10, <1>1 DEF CiInitSuper, ciNote
  <2>5. CiTypeInv'
    BY <1>0, <1>1, <2>2, <2>3, <2>4 DEF CiInitSuper, CiTypeInv, CiCallRecords, ciMonitors, ciNote
  <2>6. CiLockStep(t, f, g)
    BY <1>10, <2>3 DEF CiLockStep, CiHolds, CiVerifies, CiFrame
  <2>7. CiVerifyStep(t, f, g) /\ CiInitStep(t, f, g)
    BY <1>10, <1>1, <2>4 DEF CiInitSuper, CiVerifyStep, CiInitStep, CiIsVerifying, CiInitializes, CiClaimedPcs, CiFrame
  <2>8. CiStatusStep(t) /\ CiRunsStep(f, g)
    BY <1>0, <1>1, <2>4 DEF CiInitSuper, CiTypeInv, CiStatusStep, CiRunsStep, ciNote, CiFrame
  <2>9. CiLearns(t, f, g)
    BY <1>0, <1>10, <1>1, <1>12, <2>2, <2>4 DEF CiInitSuper, CiTypeInv, CiLearns, ciNote, CiFrame, CiNoCall
  <2> QED BY <2>2, <2>4, <2>5, <2>6, <2>7, <2>8, <2>9 DEF CiGoodStep
<1>2. CASE ~(CiSuper[c] # CiNoClass /\ ciStatus[CiSuper[c]] # "initialized")
  <2> DEFINE g == CiFrame("init", c, "clinit")
  <2>1. CiGo(t, "clinit")
    BY <1>2 DEF CiInitSuper
  <2>2. CiMoves(t, f, g) /\ CiNested' /\ ciStack' \in [CiThreads -> Seq(CiCallRecords)]
    BY <1>0, <2>1, CiGoStep DEF CiInitPcs
  <2>3. ciOwner' = ciOwner /\ ciDepth' = ciDepth
    BY <1>2 DEF CiInitSuper, ciMonitors
  <2>4. ciStatus' = ciStatus /\ ~ciAborted'
    BY <1>0, <1>10, <1>2 DEF CiInitSuper, ciNote
  <2>5. CiTypeInv'
    <3>1. ciRuns' \in [CiClasses -> Nat]
      <4>1. ciRuns \in [CiClasses -> Nat]
        BY <1>0 DEF CiTypeInv
      <4>2. ciRuns' = [ciRuns EXCEPT ![c] = ciRuns[c] + 1]
        BY <1>2 DEF CiInitSuper
      <4> QED BY <4>1, <4>2
    <3>2. ciResult' = ciResult /\ ciPending' = ciPending /\ ciLeft' = ciLeft /\ ciInitializer' = ciInitializer
      BY DEF CiInitSuper
    <3> QED BY <1>0, <2>2, <2>3, <2>4, <3>1, <3>2 DEF CiTypeInv, CiCallRecords
  <2>6. CiLockStep(t, f, g)
    BY <1>10, <2>3 DEF CiLockStep, CiHolds, CiVerifies, CiFrame
  <2>7. CiVerifyStep(t, f, g) /\ CiInitStep(t, f, g)
    BY <1>10, <1>2, <2>4 DEF CiInitSuper, CiVerifyStep, CiInitStep, CiIsVerifying, CiInitializes, CiClaimedPcs, CiFrame
  <2>8. CiStatusStep(t) /\ CiRunsStep(f, g)
    BY <1>0, <1>2, <2>4 DEF CiInitSuper, CiTypeInv, CiStatusStep, CiRunsStep, ciNote, CiFrame
  <2>9. CiLearns(t, f, g)
    BY <1>0, <1>10, <1>2, <2>2, <2>4 DEF CiInitSuper, CiTypeInv, CiLearns, ciNote, CiFrame, CiNoCall, CiSuperIsReady
  <2> QED BY <2>2, <2>4, <2>5, <2>6, <2>7, <2>8, <2>9 DEF CiGoodStep
<1> QED BY <1>1, <1>2 DEF CiInitSuper

\* The superclass is done.
LEMMA CiSuperDoneGood ==
    ASSUME ClassInitAssumption, CiInv, NEW t \in CiThreads, NEW c \in CiClasses, CiSuperDone(t, c)
    PROVE  \E f, g : CiGoodStep(t, f, g)
<1> DEFINE f == CiFrame("init", c, "super_done")
<1>0. CiTypeInv /\ ~ciAborted /\ CiAt(t, "init", c, "super_done")
  BY DEF CiInv, CiSuperDone
<1>10. /\ \A d \in CiClasses :
              ~CiBelowHolds(t, d) /\ ~CiBelowVerifies(t, d) /\ ~CiBelowIsVerifying(t, d)
       /\ ciOwner[c] # t
       /\ ciOwner[c] = CiNoThread => ciDepth[c] = 0
       /\ ciStatus[c] = "initializing" /\ ciInitializer[c] = t
  BY <1>0, CiHereInit DEF CiClaimedPcs
<1>13. CiKnows(t, Len(ciStack[t])) /\ ciStack[t][Len(ciStack[t])] = f
  BY <1>0, CiAtIs DEF CiTop
<1>12. IF ciResult[t] THEN CiSuperReady(t, c, Len(ciStack[t]))
       ELSE ciStatus[CiSuper[c]] = "error" /\ ciPending[t]
  BY <1>13 DEF CiKnows, CiFrame
<1>11. ciResult[t] \in BOOLEAN
  BY <1>0 DEF CiTypeInv
<1>1. CASE ciResult[t] = TRUE
  <2> DEFINE g == CiFrame("init", c, "clinit")
  <2>1. CiGo(t, "clinit")
    BY <1>1 DEF CiSuperDone
  <2>2. CiMoves(t, f, g) /\ CiNested' /\ ciStack' \in [CiThreads -> Seq(CiCallRecords)]
    BY <1>0, <2>1, CiGoStep DEF CiInitPcs
  <2>3. ciOwner' = ciOwner /\ ciDepth' = ciDepth
    BY <1>1 DEF CiSuperDone, ciMonitors
  <2>4. ciStatus' = ciStatus /\ ~ciAborted'
    BY <1>0, <1>10, <1>1 DEF CiSuperDone, ciNote
  <2>5. CiTypeInv'
    <3>1. ciRuns' \in [CiClasses -> Nat]
      <4>1. ciRuns \in [CiClasses -> Nat]
        BY <1>0 DEF CiTypeInv
      <4>2. ciRuns' = [ciRuns EXCEPT ![c] = ciRuns[c] + 1]
        BY <1>1 DEF CiSuperDone
      <4> QED BY <4>1, <4>2
    <3>2. ciResult' = ciResult /\ ciPending' = ciPending /\ ciLeft' = ciLeft /\ ciInitializer' = ciInitializer
      BY DEF CiSuperDone
    <3> QED BY <1>0, <2>2, <2>3, <2>4, <3>1, <3>2 DEF CiTypeInv, CiCallRecords
  <2>6. CiLockStep(t, f, g)
    BY <1>10, <2>3 DEF CiLockStep, CiHolds, CiVerifies, CiFrame
  <2>7. CiVerifyStep(t, f, g) /\ CiInitStep(t, f, g)
    BY <1>10, <1>1, <2>4 DEF CiSuperDone, CiVerifyStep, CiInitStep, CiIsVerifying, CiInitializes, CiClaimedPcs, CiFrame
  <2>8. CiStatusStep(t) /\ CiRunsStep(f, g)
    BY <1>0, <1>1, <2>4 DEF CiSuperDone, CiTypeInv, CiStatusStep, CiRunsStep, ciNote, CiFrame
  <2>9. CiLearns(t, f, g)
    BY <1>0, <1>10, <1>1, <1>12, <2>2, <2>4 DEF CiSuperDone, CiTypeInv, CiLearns, ciNote, CiFrame, CiNoCall, CiSuperIsReady, CiSuperReady, CiBelowInitializes
  <2> QED BY <2>2, <2>4, <2>5, <2>6, <2>7, <2>8, <2>9 DEF CiGoodStep
<1>2. CASE ciResult[t] = FALSE
  <2> DEFINE g == CiFrame("init", c, "finish")
  <2>1. CiGo(t, "finish")
    BY <1>2 DEF CiSuperDone
  <2>2. CiMoves(t, f, g) /\ CiNested' /\ ciStack' \in [CiThreads -> Seq(CiCallRecords)]
    BY <1>0, <2>1, CiGoStep DEF CiInitPcs
  <2>3. ciOwner' = ciOwner /\ ciDepth' = ciDepth
    BY <1>2 DEF CiSuperDone, ciMonitors
  <2>4. ciStatus' = ciStatus /\ ~ciAborted'
    BY <1>0, <1>10, <1>2, <1>12 DEF CiSuperDone, ciNote
  <2>5. CiTypeInv'
    BY <1>0, <1>2, <2>2, <2>3, <2>4 DEF CiSuperDone, CiTypeInv, CiCallRecords, ciMonitors, ciNote
  <2>6. CiLockStep(t, f, g)
    BY <1>10, <2>3 DEF CiLockStep, CiHolds, CiVerifies, CiFrame
  <2>7. CiVerifyStep(t, f, g) /\ CiInitStep(t, f, g)
    BY <1>10, <1>2, <2>4 DEF CiSuperDone, CiVerifyStep, CiInitStep, CiIsVerifying, CiInitializes, CiClaimedPcs, CiFrame
  <2>8. CiStatusStep(t) /\ CiRunsStep(f, g)
    BY <1>0, <1>2, <2>4 DEF CiSuperDone, CiTypeInv, CiStatusStep, CiRunsStep, ciNote, CiFrame
  <2>9. CiLearns(t, f, g)
    BY <1>0, <1>10, <1>2, <2>2, <2>4 DEF CiSuperDone, CiTypeInv, CiLearns, ciNote, CiFrame, CiNoCall
  <2> QED BY <2>2, <2>4, <2>5, <2>6, <2>7, <2>8, <2>9 DEF CiGoodStep
<1> QED BY <1>11, <1>1, <1>2 DEF CiSuperDone

\* Another thread initialises the class: wait.
LEMMA CiWaitGood ==
    ASSUME ClassInitAssumption, CiInv, NEW t \in CiThreads, NEW c \in CiClasses, CiWait(t, c)
    PROVE  \E f, g : CiGoodStep(t, f, g)
<1> DEFINE f == CiFrame("init", c, "locked")
<1>0. CiTypeInv /\ ~ciAborted /\ CiAt(t, "init", c, "locked")
  BY DEF CiInv, CiWait
<1>10. /\ \A d \in CiClasses :
              ~CiBelowHolds(t, d) /\ ~CiBelowVerifies(t, d) /\ ~CiBelowIsVerifying(t, d)
       /\ ciOwner[c] = t /\ ciDepth[c] = 1
       /\ ciOwner[c] = CiNoThread => ciDepth[c] = 0
  BY <1>0, CiHereInit
<1> DEFINE g == CiFrame("init", c, "waiting")
<1>1. CiGo(t, "waiting")
  BY DEF CiWait
<1>2. CiMoves(t, f, g) /\ CiNested' /\ ciStack' \in [CiThreads -> Seq(CiCallRecords)]
  BY <1>0, <1>1, CiGoStep DEF CiInitPcs
<1>3. /\ ciOwner'[c] = CiNoThread /\ ciDepth'[c] = 0
      /\ \A d \in CiClasses \ {c} : ciOwner'[d] = ciOwner[d] /\ ciDepth'[d] = ciDepth[d]
      /\ ciOwner' \in [CiClasses -> CiThreads \union {CiNoThread}] /\ ciDepth' \in [CiClasses -> Nat]
  BY <1>0 DEF CiWait, CiTypeInv
<1>4. ciStatus' = ciStatus /\ ~ciAborted'
  BY <1>0, <1>10 DEF CiWait, ciNote
<1>5. CiTypeInv'
  BY <1>0, <1>2, <1>3, <1>4 DEF CiWait, CiTypeInv, CiCallRecords, ciMonitors, ciNote
<1>6. CiLockStep(t, f, g)
  BY <1>10, <1>3 DEF CiLockStep, CiHolds, CiVerifies, CiFrame
<1>7. CiVerifyStep(t, f, g) /\ CiInitStep(t, f, g)
  BY <1>10, <1>4 DEF CiWait, CiVerifyStep, CiInitStep, CiIsVerifying, CiInitializes, CiClaimedPcs, CiFrame
<1>8. CiStatusStep(t) /\ CiRunsStep(f, g)
  BY <1>0, <1>4 DEF CiWait, CiTypeInv, CiStatusStep, CiRunsStep, ciNote, CiFrame
<1>9. CiLearns(t, f, g)
  BY <1>0, <1>10, <1>2, <1>4 DEF CiWait, CiTypeInv, CiLearns, ciNote, CiFrame, CiNoCall
<1> QED BY <1>2, <1>4, <1>5, <1>6, <1>7, <1>8, <1>9 DEF CiGoodStep

\* The verification begins.
LEMMA CiVerifyingGood ==
    ASSUME ClassInitAssumption, CiInv, NEW t \in CiThreads, NEW c \in CiClasses, CiVerifying(t, c)
    PROVE  \E f, g : CiGoodStep(t, f, g)
<1> DEFINE f == CiFrame("verify", c, "locked")
<1>0. CiTypeInv /\ ~ciAborted /\ CiAt(t, "verify", c, "locked")
  BY DEF CiInv, CiVerifying
<1>10. /\ CiBelowHolds(t, c) /\ ~CiBelowVerifies(t, c) /\ ~CiBelowIsVerifying(t, c)
       /\ ciOwner[c] = t /\ ciDepth[c] = 2
       /\ ciStatus[c] # "verifying"
       /\ CiSuper[c] # c
       /\ CiSuper[c] \in CiClasses =>
              /\ ~CiBelowHolds(t, CiSuper[c]) /\ ~CiBelowVerifies(t, CiSuper[c])
              /\ ciOwner[CiSuper[c]] # t
              /\ ciOwner[CiSuper[c]] = CiNoThread => ciDepth[CiSuper[c]] = 0
  BY <1>0, CiHereVerify
<1>11. ciStatus[c] = "resolved"
  BY <1>0, <1>10 DEF CiVerifying, CiVerified, CiTypeInv
<1>12. CiSuper[c] # CiNoClass => CiSuper[c] \in CiClasses
  BY ClassInitAssumption
<1>1. CASE CiSuper[c] = CiNoClass
  <2> DEFINE g == CiFrame("verify", c, "verdict")
  <2>1. CiGo(t, "verdict")
    BY <1>1 DEF CiVerifying
  <2>2. CiMoves(t, f, g) /\ CiNested' /\ ciStack' \in [CiThreads -> Seq(CiCallRecords)]
    BY <1>0, <2>1, CiGoStep DEF CiVerifyPcs
  <2>3. ciOwner' = ciOwner /\ ciDepth' = ciDepth
    BY <1>1 DEF CiVerifying, ciMonitors
  <2>4. /\ ~ciAborted' /\ CiStatusStep(t)
        /\ ciStatus'[c] = "verifying" /\ \A d \in CiClasses \ {c} : ciStatus'[d] = ciStatus[d]
        /\ ciStatus' \in [CiClasses -> {"resolved", "verifying", "verified", "initializing",
                                        "initialized", "error"}]
    <3>1. SetStatus(t, c, "verifying")
      BY <1>1 DEF CiVerifying
    <3>3. ciOwner[c] = t /\ CiLater(ciStatus[c], "verifying")
      BY <1>10, <1>11 DEF CiVerifying, CiLater
    <3>2. "verifying" = "error" => ciPending'[t] = TRUE
      BY <1>0, <1>1 DEF CiVerifying, CiTypeInv
    <3> QED BY <3>1, <3>2, <3>3, CiSetStatus
  <2>5. CiTypeInv'
    BY <1>0, <1>1, <2>2, <2>3, <2>4 DEF CiVerifying, CiTypeInv, CiCallRecords, ciMonitors, ciNote
  <2>6. CiLockStep(t, f, g)
    BY <1>10, <2>3 DEF CiLockStep, CiHolds, CiVerifies, CiFrame
  <2>7. CiVerifyStep(t, f, g) /\ CiInitStep(t, f, g)
    BY <1>10, <1>11, <1>1, <2>4 DEF CiVerifying, CiVerifyStep, CiInitStep, CiIsVerifying, CiInitializes, CiClaimedPcs, CiFrame
  <2>8. CiStatusStep(t) /\ CiRunsStep(f, g)
    BY <1>0, <1>1, <2>4 DEF CiVerifying, CiTypeInv, CiStatusStep, CiRunsStep, ciNote, CiFrame
  <2>9. CiLearns(t, f, g)
    BY <1>0, <1>10, <1>1, <2>2, <2>4 DEF CiVerifying, CiTypeInv, CiLearns, ciNote, CiFrame, CiNoCall
  <2> QED BY <2>2, <2>4, <2>5, <2>6, <2>7, <2>8, <2>9 DEF CiGoodStep
<1>2. CASE CiSuper[c] # CiNoClass
  <2> DEFINE g == CiFrame("verify", c, "super")
  <2>1. CiGo(t, "super")
    BY <1>2 DEF CiVerifying
  <2>2. CiMoves(t, f, g) /\ CiNested' /\ ciStack' \in [CiThreads -> Seq(CiCallRecords)]
    BY <1>0, <1>2, <1>12, <2>1, CiGoStep DEF CiVerifyPcs
  <2>3. ciOwner' = ciOwner /\ ciDepth' = ciDepth
    BY <1>2 DEF CiVerifying, ciMonitors
  <2>4. /\ ~ciAborted' /\ CiStatusStep(t)
        /\ ciStatus'[c] = "verifying" /\ \A d \in CiClasses \ {c} : ciStatus'[d] = ciStatus[d]
        /\ ciStatus' \in [CiClasses -> {"resolved", "verifying", "verified", "initializing",
                                        "initialized", "error"}]
    <3>1. SetStatus(t, c, "verifying")
      BY <1>2 DEF CiVerifying
    <3>3. ciOwner[c] = t /\ CiLater(ciStatus[c], "verifying")
      BY <1>10, <1>11 DEF CiVerifying, CiLater
    <3>2. "verifying" = "error" => ciPending'[t] = TRUE
      BY <1>0, <1>2 DEF CiVerifying, CiTypeInv
    <3> QED BY <3>1, <3>2, <3>3, CiSetStatus
  <2>5. CiTypeInv'
    BY <1>0, <1>2, <2>2, <2>3, <2>4 DEF CiVerifying, CiTypeInv, CiCallRecords, ciMonitors, ciNote
  <2>6. CiLockStep(t, f, g)
    BY <1>10, <2>3 DEF CiLockStep, CiHolds, CiVerifies, CiFrame
  <2>7. CiVerifyStep(t, f, g) /\ CiInitStep(t, f, g)
    BY <1>10, <1>11, <1>2, <2>4 DEF CiVerifying, CiVerifyStep, CiInitStep, CiIsVerifying, CiInitializes, CiClaimedPcs, CiFrame
  <2>8. CiStatusStep(t) /\ CiRunsStep(f, g)
    BY <1>0, <1>2, <2>4 DEF CiVerifying, CiTypeInv, CiStatusStep, CiRunsStep, ciNote, CiFrame
  <2>9. CiLearns(t, f, g)
    BY <1>0, <1>10, <1>2, <2>2, <2>4 DEF CiVerifying, CiTypeInv, CiLearns, ciNote, CiFrame, CiNoCall
  <2> QED BY <2>2, <2>4, <2>5, <2>6, <2>7, <2>8, <2>9 DEF CiGoodStep
<1> QED BY <1>1, <1>2 DEF CiVerifying

\* The superclass's lock on top of the class's own.
LEMMA CiVerifySuperGood ==
    ASSUME ClassInitAssumption, CiInv, NEW t \in CiThreads, NEW c \in CiClasses, CiVerifySuper(t, c)
    PROVE  \E f, g : CiGoodStep(t, f, g)
<1> DEFINE f == CiFrame("verify", c, "super")
<1>0. CiTypeInv /\ ~ciAborted /\ CiAt(t, "verify", c, "super")
  BY DEF CiInv, CiVerifySuper
<1>10. /\ CiBelowHolds(t, c) /\ ~CiBelowVerifies(t, c) /\ ~CiBelowIsVerifying(t, c)
       /\ ciOwner[c] = t /\ ciDepth[c] = 2
       /\ ciStatus[c] = "verifying"
       /\ CiSuper[c] # c
       /\ CiSuper[c] \in CiClasses =>
              /\ ~CiBelowHolds(t, CiSuper[c]) /\ ~CiBelowVerifies(t, CiSuper[c])
              /\ ciOwner[CiSuper[c]] # t
              /\ ciOwner[CiSuper[c]] = CiNoThread => ciDepth[CiSuper[c]] = 0
  BY <1>0, CiHereVerify
<1>11. CiSuper[c] \in CiClasses
  BY <1>0, CiAtIs DEF CiFits, CiFrame
<1>1. CASE ciStatus[CiSuper[c]] \in {"verified", "initializing", "initialized"} \/ ciStatus[CiSuper[c]] = "error"
  <2> DEFINE g == CiFrame("verify", c, "super_done")
  <2>1. CiGo(t, "super_done")
    BY <1>1 DEF CiVerifySuper, CiVerified
  <2>2. CiMoves(t, f, g) /\ CiNested' /\ ciStack' \in [CiThreads -> Seq(CiCallRecords)]
    BY <1>0, <1>11, <2>1, CiGoStep DEF CiVerifyPcs
  <2>3. /\ ciOwner[CiSuper[c]] \in {t, CiNoThread} /\ ciOwner'[CiSuper[c]] = t /\ ciDepth'[CiSuper[c]] = ciDepth[CiSuper[c]] + 1
        /\ \A d \in CiClasses \ {CiSuper[c]} : ciOwner'[d] = ciOwner[d] /\ ciDepth'[d] = ciDepth[d]
        /\ ciOwner' \in [CiClasses -> CiThreads \union {CiNoThread}] /\ ciDepth' \in [CiClasses -> Nat]
    BY <1>1, <1>11, CiLockIs DEF CiVerifySuper
  <2>4. ciStatus' = ciStatus /\ ~ciAborted'
    BY <1>0, <1>10, <1>1 DEF CiVerifySuper, ciNote
  <2>5. CiTypeInv'
    BY <1>0, <1>1, <2>2, <2>3, <2>4 DEF CiVerifySuper, CiTypeInv, CiCallRecords, ciMonitors, ciNote
  <2>6. CiLockStep(t, f, g)
    BY <1>10, <1>11, <2>3 DEF CiLockStep, CiHolds, CiVerifies, CiFrame
  <2>7. CiVerifyStep(t, f, g) /\ CiInitStep(t, f, g)
    BY <1>10, <1>1, <2>4 DEF CiVerifySuper, CiVerifyStep, CiInitStep, CiIsVerifying, CiInitializes, CiClaimedPcs, CiFrame
  <2>8. CiStatusStep(t) /\ CiRunsStep(f, g)
    BY <1>0, <1>1, <2>4 DEF CiVerifySuper, CiTypeInv, CiStatusStep, CiRunsStep, ciNote, CiFrame
  <2>9. CiLearns(t, f, g)
    BY <1>0, <1>10, <1>1, <2>2, <2>4 DEF CiVerifySuper, CiTypeInv, CiLearns, ciNote, CiFrame, CiNoCall
  <2> QED BY <2>2, <2>4, <2>5, <2>6, <2>7, <2>8, <2>9 DEF CiGoodStep
<1>2. CASE ~(ciStatus[CiSuper[c]] \in {"verified", "initializing", "initialized"} \/ ciStatus[CiSuper[c]] = "error")
  <2> DEFINE g == CiFrame("verify", c, "super_done")
  <2>1. CiCallAnd(t, "verify", CiSuper[c], "super_done") /\ CiSuper[c] \in CiClasses
    BY <1>2, <1>11, ClassInitAssumption DEF CiVerifySuper, CiVerified
  <2>2. CiMoves(t, f, g) /\ CiNested' /\ ciStack' \in [CiThreads -> Seq(CiCallRecords)]
    <3>1. CiWaitsFor(CiFrame("verify", c, "super_done"), CiFrame("verify", CiSuper[c], "start"))
      BY DEF CiWaitsFor, CiFrame
    <3> QED BY <1>0, <2>1, <3>1, CiCallStep
  <2>3. /\ ciOwner[CiSuper[c]] \in {t, CiNoThread} /\ ciOwner'[CiSuper[c]] = t /\ ciDepth'[CiSuper[c]] = ciDepth[CiSuper[c]] + 1
        /\ \A d \in CiClasses \ {CiSuper[c]} : ciOwner'[d] = ciOwner[d] /\ ciDepth'[d] = ciDepth[d]
        /\ ciOwner' \in [CiClasses -> CiThreads \union {CiNoThread}] /\ ciDepth' \in [CiClasses -> Nat]
    BY <1>2, <1>11, CiLockIs DEF CiVerifySuper
  <2>4. ciStatus' = ciStatus /\ ~ciAborted'
    BY <1>0, <1>10, <1>2 DEF CiVerifySuper, ciNote
  <2>5. CiTypeInv'
    BY <1>0, <1>2, <2>2, <2>3, <2>4 DEF CiVerifySuper, CiTypeInv, CiCallRecords, ciMonitors, ciNote
  <2>6. CiLockStep(t, f, g)
    BY <1>10, <1>11, <2>3 DEF CiLockStep, CiHolds, CiVerifies, CiFrame
  <2>7. CiVerifyStep(t, f, g) /\ CiInitStep(t, f, g)
    BY <1>10, <1>2, <2>4 DEF CiVerifySuper, CiVerifyStep, CiInitStep, CiIsVerifying, CiInitializes, CiClaimedPcs, CiFrame
  <2>8. CiStatusStep(t) /\ CiRunsStep(f, g)
    BY <1>0, <1>2, <2>4 DEF CiVerifySuper, CiTypeInv, CiStatusStep, CiRunsStep, ciNote, CiFrame
  <2>9. CiLearns(t, f, g)
    BY <1>0, <1>10, <1>2, <2>2, <2>4 DEF CiVerifySuper, CiTypeInv, CiLearns, ciNote, CiFrame, CiNoCall
  <2> QED BY <2>2, <2>4, <2>5, <2>6, <2>7, <2>8, <2>9 DEF CiGoodStep
<1> QED BY <1>1, <1>2 DEF CiVerifySuper

\* The superclass has been dealt with.
LEMMA CiVerifySuperDoneGood ==
    ASSUME ClassInitAssumption, CiInv, NEW t \in CiThreads, NEW c \in CiClasses, CiVerifySuperDone(t, c)
    PROVE  \E f, g : CiGoodStep(t, f, g)
<1> DEFINE f == CiFrame("verify", c, "super_done")
<1>0. CiTypeInv /\ ~ciAborted /\ CiAt(t, "verify", c, "super_done")
  BY DEF CiInv, CiVerifySuperDone
<1>10. /\ CiBelowHolds(t, c) /\ ~CiBelowVerifies(t, c) /\ ~CiBelowIsVerifying(t, c)
       /\ ciOwner[c] = t /\ ciDepth[c] = 2
       /\ ciStatus[c] = "verifying"
       /\ CiSuper[c] # c
       /\ CiSuper[c] \in CiClasses =>
              /\ ~CiBelowHolds(t, CiSuper[c]) /\ ~CiBelowVerifies(t, CiSuper[c])
              /\ ciOwner[CiSuper[c]] = t /\ ciDepth[CiSuper[c]] = 1
              /\ ciOwner[CiSuper[c]] = CiNoThread => ciDepth[CiSuper[c]] = 0
  BY <1>0, CiHereVerify
<1>11. CiSuper[c] \in CiClasses
  BY <1>0, CiAtIs DEF CiFits, CiFrame
<1>1. CASE ciStatus[CiSuper[c]] \in {"verified", "initializing", "initialized"}
  <2> DEFINE g == CiFrame("verify", c, "verdict")
  <2>1. CiGo(t, "verdict")
    BY <1>1 DEF CiVerifySuperDone, CiVerified
  <2>2. CiMoves(t, f, g) /\ CiNested' /\ ciStack' \in [CiThreads -> Seq(CiCallRecords)]
    BY <1>0, <2>1, CiGoStep DEF CiVerifyPcs
  <2>3. /\ \A d \in {CiSuper[c]} : ciOwner'[d] = (IF ciDepth[d] = 1 THEN CiNoThread ELSE ciOwner[d])
        /\ \A d \in {CiSuper[c]} : ciDepth'[d] = ciDepth[d] - 1
        /\ \A d \in CiClasses \ {CiSuper[c]} : ciOwner'[d] = ciOwner[d] /\ ciDepth'[d] = ciDepth[d]
        /\ ciOwner' \in [CiClasses -> CiThreads \union {CiNoThread}] /\ ciDepth' \in [CiClasses -> Nat]
    <3>1. CiUnlockAll({CiSuper[c]})
      BY <1>1 DEF CiVerifySuperDone, CiUnlock, CiVerifyReturn, CiVerified
    <3>2. {CiSuper[c]} \in SUBSET CiClasses /\ \A d \in {CiSuper[c]} : ciDepth[d] >= 1
      BY <1>10, <1>11
    <3> QED BY <3>1, <3>2, CiUnlockIs
  <2>4. ciStatus' = ciStatus /\ ~ciAborted'
    BY <1>0, <1>10, <1>1 DEF CiVerifySuperDone, ciNote, CiVerified
  <2>5. CiTypeInv'
    BY <1>0, <1>1, <2>2, <2>3, <2>4 DEF CiVerifySuperDone, CiTypeInv, CiCallRecords, ciMonitors, ciNote, CiVerified
  <2>6. CiLockStep(t, f, g)
    BY <1>10, <1>11, <2>3 DEF CiLockStep, CiHolds, CiVerifies, CiFrame
  <2>7. CiVerifyStep(t, f, g) /\ CiInitStep(t, f, g)
    BY <1>10, <1>1, <2>4 DEF CiVerifySuperDone, CiVerifyStep, CiInitStep, CiIsVerifying, CiInitializes, CiClaimedPcs, CiFrame
  <2>8. CiStatusStep(t) /\ CiRunsStep(f, g)
    BY <1>0, <1>1, <2>4 DEF CiVerifySuperDone, CiTypeInv, CiStatusStep, CiRunsStep, ciNote, CiFrame
  <2>9. CiLearns(t, f, g)
    BY <1>0, <1>10, <1>1, <2>2, <2>4 DEF CiVerifySuperDone, CiTypeInv, CiLearns, ciNote, CiFrame, CiNoCall, CiVerified
  <2> QED BY <2>2, <2>4, <2>5, <2>6, <2>7, <2>8, <2>9 DEF CiGoodStep
<1>2. CASE ~(ciStatus[CiSuper[c]] \in {"verified", "initializing", "initialized"})
  <2>1. CiReturn(t, TRUE)
    BY <1>2 DEF CiVerifySuperDone, CiVerified
  <2>2. /\ CiMoves(t, f, CiNoCall) /\ CiNested' /\ ciStack' \in [CiThreads -> Seq(CiCallRecords)]
        /\ ciResult' \in [CiThreads -> BOOLEAN] /\ ciResult'[t] = TRUE
        /\ \A u \in CiThreads \ {t} : ciResult'[u] = ciResult[u]
    BY <1>0, <2>1, CiReturnStep
  <2>3. /\ \A d \in {CiSuper[c], c} : ciOwner'[d] = (IF ciDepth[d] = 1 THEN CiNoThread ELSE ciOwner[d])
        /\ \A d \in {CiSuper[c], c} : ciDepth'[d] = ciDepth[d] - 1
        /\ \A d \in CiClasses \ {CiSuper[c], c} : ciOwner'[d] = ciOwner[d] /\ ciDepth'[d] = ciDepth[d]
        /\ ciOwner' \in [CiClasses -> CiThreads \union {CiNoThread}] /\ ciDepth' \in [CiClasses -> Nat]
    <3>1. CiUnlockAll({CiSuper[c], c})
      BY <1>2 DEF CiVerifySuperDone, CiUnlock, CiVerifyReturn, CiVerified
    <3>2. {CiSuper[c], c} \in SUBSET CiClasses /\ \A d \in {CiSuper[c], c} : ciDepth[d] >= 1
      BY <1>10, <1>11
    <3> QED BY <3>1, <3>2, CiUnlockIs
  <2>4. /\ ~ciAborted' /\ CiStatusStep(t)
        /\ ciStatus'[c] = "error" /\ \A d \in CiClasses \ {c} : ciStatus'[d] = ciStatus[d]
        /\ ciStatus' \in [CiClasses -> {"resolved", "verifying", "verified", "initializing",
                                        "initialized", "error"}]
    <3>1. SetStatus(t, c, "error")
      BY <1>2 DEF CiVerifySuperDone, CiVerified
    <3>3. ciOwner[c] = t /\ CiLater(ciStatus[c], "error")
      BY <1>10 DEF CiVerifySuperDone, CiLater
    <3>2. "error" = "error" => ciPending'[t] = TRUE
      BY <1>0, <1>2 DEF CiVerifySuperDone, CiTypeInv, CiVerified
    <3> QED BY <3>1, <3>2, <3>3, CiSetStatus
  <2>5. CiTypeInv'
    BY <1>0, <1>2, <2>2, <2>3, <2>4 DEF CiVerifySuperDone, CiTypeInv, CiCallRecords, ciMonitors, ciNote, CiVerified
  <2>6. CiLockStep(t, f, CiNoCall)
    BY <1>10, <1>11, <2>3 DEF CiLockStep, CiHolds, CiVerifies, CiFrame, CiNoCall
  <2>7. CiVerifyStep(t, f, CiNoCall) /\ CiInitStep(t, f, CiNoCall)
    BY <1>10, <1>2, <2>4 DEF CiVerifySuperDone, CiVerifyStep, CiInitStep, CiIsVerifying, CiInitializes, CiClaimedPcs, CiFrame, CiNoCall
  <2>8. CiStatusStep(t) /\ CiRunsStep(f, CiNoCall)
    BY <1>0, <1>2, <2>4 DEF CiVerifySuperDone, CiTypeInv, CiStatusStep, CiRunsStep, ciNote, CiFrame
  <2>9. CiLearns(t, f, CiNoCall)
    BY <1>0, <1>10, <1>2, <2>2, <2>4 DEF CiVerifySuperDone, CiTypeInv, CiLearns, ciNote, CiFrame, CiNoCall, CiVerified
  <2> QED BY <2>2, <2>4, <2>5, <2>6, <2>7, <2>8, <2>9 DEF CiGoodStep
<1> QED BY <1>1, <1>2 DEF CiVerifySuperDone

\* The verification ends.
LEMMA CiVerdictGood ==
    ASSUME ClassInitAssumption, CiInv, NEW t \in CiThreads, NEW c \in CiClasses, NEW fails \in BOOLEAN, CiVerdict(t, c, fails)
    PROVE  \E f, g : CiGoodStep(t, f, g)
<1> DEFINE f == CiFrame("verify", c, "verdict")
<1>0. CiTypeInv /\ ~ciAborted /\ CiAt(t, "verify", c, "verdict")
  BY DEF CiInv, CiVerdict
<1>10. /\ CiBelowHolds(t, c) /\ ~CiBelowVerifies(t, c) /\ ~CiBelowIsVerifying(t, c)
       /\ ciOwner[c] = t /\ ciDepth[c] = 2
       /\ ciStatus[c] = "verifying"
       /\ CiSuper[c] # c
       /\ CiSuper[c] \in CiClasses =>
              /\ ~CiBelowHolds(t, CiSuper[c]) /\ ~CiBelowVerifies(t, CiSuper[c])
              /\ ciOwner[CiSuper[c]] # t
              /\ ciOwner[CiSuper[c]] = CiNoThread => ciDepth[CiSuper[c]] = 0
  BY <1>0, CiHereVerify
<1>1. CASE fails = TRUE
  <2>1. CiReturn(t, TRUE)
    BY <1>1 DEF CiVerdict, CiVerifyReturn
  <2>2. /\ CiMoves(t, f, CiNoCall) /\ CiNested' /\ ciStack' \in [CiThreads -> Seq(CiCallRecords)]
        /\ ciResult' \in [CiThreads -> BOOLEAN] /\ ciResult'[t] = TRUE
        /\ \A u \in CiThreads \ {t} : ciResult'[u] = ciResult[u]
    BY <1>0, <2>1, CiReturnStep
  <2>3. /\ \A d \in {c} : ciOwner'[d] = (IF ciDepth[d] = 1 THEN CiNoThread ELSE ciOwner[d])
        /\ \A d \in {c} : ciDepth'[d] = ciDepth[d] - 1
        /\ \A d \in CiClasses \ {c} : ciOwner'[d] = ciOwner[d] /\ ciDepth'[d] = ciDepth[d]
        /\ ciOwner' \in [CiClasses -> CiThreads \union {CiNoThread}] /\ ciDepth' \in [CiClasses -> Nat]
    <3>1. CiUnlockAll({c})
      BY <1>1 DEF CiVerdict, CiUnlock, CiVerifyReturn
    <3>2. {c} \in SUBSET CiClasses /\ \A d \in {c} : ciDepth[d] >= 1
      BY <1>10
    <3> QED BY <3>1, <3>2, CiUnlockIs
  <2>4. /\ ~ciAborted' /\ CiStatusStep(t)
        /\ ciStatus'[c] = "error" /\ \A d \in CiClasses \ {c} : ciStatus'[d] = ciStatus[d]
        /\ ciStatus' \in [CiClasses -> {"resolved", "verifying", "verified", "initializing",
                                        "initialized", "error"}]
    <3>1. SetStatus(t, c, "error")
      BY <1>1 DEF CiVerdict
    <3>3. ciOwner[c] = t /\ CiLater(ciStatus[c], "error")
      BY <1>10 DEF CiVerdict, CiLater
    <3>2. "error" = "error" => ciPending'[t] = TRUE
      BY <1>0, <1>1 DEF CiVerdict, CiTypeInv
    <3> QED BY <3>1, <3>2, <3>3, CiSetStatus
  <2>5. CiTypeInv'
    BY <1>0, <1>1, <2>2, <2>3, <2>4 DEF CiVerdict, CiTypeInv, CiCallRecords, ciMonitors, ciNote
  <2>6. CiLockStep(t, f, CiNoCall)
    BY <1>10, <2>3 DEF CiLockStep, CiHolds, CiVerifies, CiFrame, CiNoCall
  <2>7. CiVerifyStep(t, f, CiNoCall) /\ CiInitStep(t, f, CiNoCall)
    BY <1>10, <1>1, <2>4 DEF CiVerdict, CiVerifyStep, CiInitStep, CiIsVerifying, CiInitializes, CiClaimedPcs, CiFrame, CiNoCall
  <2>8. CiStatusStep(t) /\ CiRunsStep(f, CiNoCall)
    BY <1>0, <1>1, <2>4 DEF CiVerdict, CiTypeInv, CiStatusStep, CiRunsStep, ciNote, CiFrame
  <2>9. CiLearns(t, f, CiNoCall)
    BY <1>0, <1>10, <1>1, <2>2, <2>4 DEF CiVerdict, CiTypeInv, CiLearns, ciNote, CiFrame, CiNoCall
  <2> QED BY <2>2, <2>4, <2>5, <2>6, <2>7, <2>8, <2>9 DEF CiGoodStep
<1>2. CASE fails = FALSE
  <2>1. CiReturn(t, TRUE)
    BY <1>2 DEF CiVerdict, CiVerifyReturn
  <2>2. /\ CiMoves(t, f, CiNoCall) /\ CiNested' /\ ciStack' \in [CiThreads -> Seq(CiCallRecords)]
        /\ ciResult' \in [CiThreads -> BOOLEAN] /\ ciResult'[t] = TRUE
        /\ \A u \in CiThreads \ {t} : ciResult'[u] = ciResult[u]
    BY <1>0, <2>1, CiReturnStep
  <2>3. /\ \A d \in {c} : ciOwner'[d] = (IF ciDepth[d] = 1 THEN CiNoThread ELSE ciOwner[d])
        /\ \A d \in {c} : ciDepth'[d] = ciDepth[d] - 1
        /\ \A d \in CiClasses \ {c} : ciOwner'[d] = ciOwner[d] /\ ciDepth'[d] = ciDepth[d]
        /\ ciOwner' \in [CiClasses -> CiThreads \union {CiNoThread}] /\ ciDepth' \in [CiClasses -> Nat]
    <3>1. CiUnlockAll({c})
      BY <1>2 DEF CiVerdict, CiUnlock, CiVerifyReturn
    <3>2. {c} \in SUBSET CiClasses /\ \A d \in {c} : ciDepth[d] >= 1
      BY <1>10
    <3> QED BY <3>1, <3>2, CiUnlockIs
  <2>4. /\ ~ciAborted' /\ CiStatusStep(t)
        /\ ciStatus'[c] = "verified" /\ \A d \in CiClasses \ {c} : ciStatus'[d] = ciStatus[d]
        /\ ciStatus' \in [CiClasses -> {"resolved", "verifying", "verified", "initializing",
                                        "initialized", "error"}]
    <3>1. SetStatus(t, c, "verified")
      BY <1>2 DEF CiVerdict
    <3>3. ciOwner[c] = t /\ CiLater(ciStatus[c], "verified")
      BY <1>10 DEF CiVerdict, CiLater
    <3>2. "verified" = "error" => ciPending'[t] = TRUE
      BY <1>0, <1>2 DEF CiVerdict, CiTypeInv
    <3> QED BY <3>1, <3>2, <3>3, CiSetStatus
  <2>5. CiTypeInv'
    BY <1>0, <1>2, <2>2, <2>3, <2>4 DEF CiVerdict, CiTypeInv, CiCallRecords, ciMonitors, ciNote
  <2>6. CiLockStep(t, f, CiNoCall)
    BY <1>10, <2>3 DEF CiLockStep, CiHolds, CiVerifies, CiFrame, CiNoCall
  <2>7. CiVerifyStep(t, f, CiNoCall) /\ CiInitStep(t, f, CiNoCall)
    BY <1>10, <1>2, <2>4 DEF CiVerdict, CiVerifyStep, CiInitStep, CiIsVerifying, CiInitializes, CiClaimedPcs, CiFrame, CiNoCall
  <2>8. CiStatusStep(t) /\ CiRunsStep(f, CiNoCall)
    BY <1>0, <1>2, <2>4 DEF CiVerdict, CiTypeInv, CiStatusStep, CiRunsStep, ciNote, CiFrame
  <2>9. CiLearns(t, f, CiNoCall)
    BY <1>0, <1>10, <1>2, <2>2, <2>4 DEF CiVerdict, CiTypeInv, CiLearns, ciNote, CiFrame, CiNoCall
  <2> QED BY <2>2, <2>4, <2>5, <2>6, <2>7, <2>8, <2>9 DEF CiGoodStep
<1> QED BY <1>1, <1>2 DEF CiVerdict

\* Awake again.
LEMMA CiAwakeGood ==
    ASSUME ClassInitAssumption, CiInv, NEW t \in CiThreads, NEW c \in CiClasses, CiAwake(t, c)
    PROVE  \E f, g : CiGoodStep(t, f, g)
<1> DEFINE f == CiFrame("init", c, "waiting")
<1>0. CiTypeInv /\ CiNested /\ ~ciAborted /\ CiAt(t, "init", c, "waiting")
  BY DEF CiInv, CiAwake
<1>1. /\ Len(ciStack[t]) \in Nat \ {0} /\ ciStack[t][Len(ciStack[t])] = f
      /\ CiKnows(t, Len(ciStack[t]))
  BY <1>0, CiAtIs DEF CiTop
<1>2. ciStatus[c] \in {"initializing", "initialized", "error"}
  BY <1>1 DEF CiKnows, CiFrame
<1>6. ~ciAborted'
  BY <1>0, <1>2 DEF CiAwake
<1>3. ~ciAborted' /\ ciStatus' = ciStatus /\ ciOwner' = ciOwner /\ ciDepth' = ciDepth /\ ciRuns' = ciRuns
      /\ ciInitializer' = ciInitializer /\ ciLeft' = ciLeft
  BY <1>6 DEF CiAwake
<1>4. CASE ciStatus[c] = "initializing"
  <2>1. ciStack' = ciStack /\ ciResult' = ciResult /\ ciPending' = ciPending
    BY <1>4 DEF CiAwake
  <2>2. CiGoes(t, f, f)
    <3>1. ciStack \in [CiThreads -> Seq(CiCallRecords)]
      BY <1>0 DEF CiTypeInv, CiCallRecords
    <3> QED BY <1>1, <2>1, <3>1 DEF CiGoes, CiKeeps, CiTop
  <2>3. CiMoves(t, f, f)
    BY <2>2 DEF CiMoves, CiFrame
  <2>4. CiTypeInv' /\ CiNested'
    <3>1. CiTypeInv'
      BY <1>0, <1>3, <2>1 DEF CiTypeInv
    <3>2. CiNested'
      BY <1>0, <2>1 DEF CiNested
    <3> QED BY <3>1, <3>2
  <2>5. CiLockStep(t, f, f) /\ CiVerifyStep(t, f, f) /\ CiInitStep(t, f, f)
    BY <1>3 DEF CiLockStep, CiVerifyStep, CiInitStep
  <2>6. CiStatusStep(t) /\ CiRunsStep(f, f)
    BY <1>3 DEF CiStatusStep, CiRunsStep
  <2>7. CiLearns(t, f, f)
    BY <1>2, <1>3, <2>1 DEF CiLearns, CiFrame, CiNoCall
  <2> QED BY <1>3, <2>3, <2>4, <2>5, <2>6, <2>7 DEF CiGoodStep
<1>5. CASE ciStatus[c] # "initializing"
  <2>1. PICK result \in BOOLEAN :
            /\ CiReturn(t, result)
            /\ result => ciStatus[c] = "initialized" /\ ciPending' = ciPending
            /\ ~result => ciStatus[c] = "error" /\ ciPending' = [ciPending EXCEPT ![t] = TRUE]
    <3>1. CASE ciStatus[c] = "error"
      BY <3>1 DEF CiAwake
    <3>2. CASE ciStatus[c] = "initialized"
      BY <3>2 DEF CiAwake
    <3> QED BY <1>2, <1>5, <3>1, <3>2
  <2>2. /\ CiMoves(t, f, CiNoCall) /\ CiNested' /\ ciStack' \in [CiThreads -> Seq(CiCallRecords)]
        /\ ciResult' \in [CiThreads -> BOOLEAN] /\ ciResult'[t] = result
        /\ \A u \in CiThreads \ {t} : ciResult'[u] = ciResult[u]
    BY <1>0, <2>1, CiReturnStep
  <2>3. /\ ciPending' \in [CiThreads -> BOOLEAN] /\ (~result => ciPending'[t])
        /\ \A u \in CiThreads \ {t} : ciPending'[u] = ciPending[u]
    <3>1. ciPending \in [CiThreads -> BOOLEAN]
      BY <1>0 DEF CiTypeInv
    <3>2. CASE result
      BY <2>1, <3>1, <3>2
    <3>3. CASE ~result
      BY <2>1, <3>1, <3>3
    <3> QED BY <3>2, <3>3
  <2>4. CiTypeInv'
    BY <1>0, <1>3, <2>2, <2>3 DEF CiTypeInv, CiCallRecords
  <2>5. CiLockStep(t, f, CiNoCall)
    BY <1>3 DEF CiLockStep, CiHolds, CiVerifies, CiFrame, CiNoCall
  <2>6. CiVerifyStep(t, f, CiNoCall) /\ CiInitStep(t, f, CiNoCall)
    BY <1>3 DEF CiVerifyStep, CiInitStep, CiIsVerifying, CiInitializes, CiClaimedPcs, CiFrame, CiNoCall
  <2>7. CiStatusStep(t) /\ CiRunsStep(f, CiNoCall)
    BY <1>3 DEF CiStatusStep, CiRunsStep
  <2>8. CiLearns(t, f, CiNoCall)
    BY <1>3, <2>1, <2>2, <2>3 DEF CiLearns, CiFrame, CiNoCall
  <2> QED BY <1>3, <2>2, <2>4, <2>5, <2>6, <2>7, <2>8 DEF CiGoodStep
<1> QED BY <1>4, <1>5

\* A new call of EnsureInitialized changes nothing but the calls.
LEMMA CiCallInitializeKeeps ==
    ASSUME ClassInitAssumption, CiInv, NEW t \in CiThreads, NEW c \in CiClasses, CiCallInitialize(t, c)
    PROVE  CiInv' /\ Len(ciStack'[t]) > Len(ciStack[t]) /\ \A u \in CiThreads \ {t} : ciStack'[u] = ciStack[u]
<1> DEFINE h == CiFrame("init", c, "start")
           n == Len(ciStack[t])
<1>0. /\ CiTypeInv /\ CiNested /\ CiLocked /\ CiVerification /\ CiInitialization /\ CiKnowledge
      /\ CiCounted /\ ~ciAborted
  BY DEF CiInv
<1>1. CiPushes(t, h)
  BY <1>0, CiPushIs
<1>2. /\ n \in Nat /\ Len(ciStack'[t]) = n + 1 /\ ciStack'[t][n + 1] = h
      /\ \A i \in 1 .. n : ciStack'[t][i] = ciStack[t][i]
      /\ \A u \in CiThreads \ {t} : ciStack'[u] = ciStack[u]
      /\ ciStack' \in [CiThreads -> Seq(CiCallRecords)]
      /\ n > 0 => ciStack[t][n].pc = "clinit"
  BY <1>1 DEF CiPushes, CiKeeps, CiTop
<1>3. /\ ciStatus' = ciStatus /\ ciOwner' = ciOwner /\ ciDepth' = ciDepth /\ ciRuns' = ciRuns
      /\ ciInitializer' = ciInitializer /\ ciResult' = ciResult /\ ciAborted' = ciAborted
      /\ \A u \in CiThreads \ {t} : ciPending'[u] = ciPending[u]
      /\ ciPending' \in [CiThreads -> BOOLEAN] /\ ciLeft' \in Nat
  BY <1>0 DEF CiCallInitialize, ciMonitors, CiTypeInv
<1>4. CiTypeInv'
  BY <1>0, <1>2, <1>3 DEF CiTypeInv, CiCallRecords
<1>5. CiNested'
  <2>1. h.op = "init" /\ CiFits(h)
    BY DEF CiFits, CiFrame, CiInitPcs
  <2> QED BY <1>0, <1>1, <2>1, CiNestedPushes
<1>6. ASSUME NEW u \in CiThreads, NEW d \in CiClasses
      PROVE  /\ CiHolding(u, d)' <=> CiHolding(u, d)
             /\ CiVerifyingIt(u, d)' <=> CiVerifyingIt(u, d)
             /\ CiIsVerifyingIt(u, d)' <=> CiIsVerifyingIt(u, d)
             /\ CiInitializing(u, d)' <=> CiInitializing(u, d)
  <2>1. CASE u = t
    BY <1>1, <2>1, CiSeenPushes
  <2>2. CASE u # t
    BY <1>2, <2>2, CiSeenOthers
  <2> QED BY <2>1, <2>2
<1>7. CiLocked'
  BY <1>0, <1>3, <1>6 DEF CiLocked
<1>8. CiVerification'
  BY <1>0, <1>3, <1>6 DEF CiVerification
<1>9. CiInitialization'
  <2>1. ASSUME NEW d \in CiClasses
        PROVE  /\ ciStatus'[d] = "initializing" =>
                      ciInitializer'[d] \in CiThreads /\ CiInitializing(ciInitializer[d], d)'
               /\ \A u \in CiThreads :
                      CiInitializing(u, d)' => ciStatus'[d] = "initializing" /\ ciInitializer'[d] = u
    <3>1. \A u \in CiThreads : CiInitializing(u, d)' => ciStatus'[d] = "initializing" /\ ciInitializer'[d] = u
      BY <1>0, <1>3, <1>6 DEF CiInitialization
    <3> SUFFICES ASSUME ciStatus'[d] = "initializing"
                 PROVE  ciInitializer'[d] \in CiThreads /\ CiInitializing(ciInitializer[d], d)'
      BY <3>1
    <3>2. PICK u \in CiThreads : u = ciInitializer[d] /\ CiInitializing(u, d)
      BY <1>0, <1>3 DEF CiInitialization
    <3>3. CiInitializing(u, d)' /\ u = ciInitializer'[d]
      BY <1>3, <1>6, <3>2
    <3> QED BY <3>3 DEF CiInitializing, CiInitializes
  <2>2. ASSUME NEW u \in CiThreads, NEW d \in CiClasses,
               NEW i \in 1 .. Len(ciStack'[u]), NEW j \in 1 .. Len(ciStack'[u]),
               CiInitializes(ciStack'[u][i], d), CiInitializes(ciStack'[u][j], d)
        PROVE  i = j
    <3>1. \A x, y \in 1 .. Len(ciStack[u]) :
              CiInitializes(ciStack[u][x], d) /\ CiInitializes(ciStack[u][y], d) => x = y
      BY <1>0 DEF CiInitialization
    <3>2. CASE u # t
      BY <1>2, <2>2, <3>1, <3>2
    <3>3. CASE u = t
      <4>1. ~CiInitializes(h, d)
        BY DEF CiInitializes, CiClaimedPcs, CiFrame
      <4>2. i # n + 1 /\ j # n + 1
        BY <1>2, <2>2, <3>3, <4>1
      <4>3. i \in 1 .. n /\ j \in 1 .. n
        BY <1>2, <3>3, <4>2
      <4> QED BY <1>2, <2>2, <3>1, <3>3, <4>3
    <3> QED BY <3>2, <3>3
  <2>3. \A u \in CiThreads, d \in CiClasses : \A i, j \in 1 .. Len(ciStack'[u]) :
            CiInitializes(ciStack'[u][i], d) /\ CiInitializes(ciStack'[u][j], d) => i = j
    BY <2>2
  <2> QED BY <2>1, <2>3 DEF CiInitialization, CiInitializes
<1>10. CiKnowledge'
  <2> SUFFICES ASSUME NEW u \in CiThreads, NEW i \in 1 .. Len(ciStack'[u]) PROVE CiKnows(u, i)'
    BY DEF CiKnowledge
  <2>0. CiStatusStep(t)
    BY <1>3 DEF CiStatusStep
  <2> DEFINE k == ciStack'[u][i]
  <2> SUFFICES CiKnown(u, k, i)
    BY CiKnowsIs
  <2>1. k \in CiCallRecords /\ i \in Nat
    <3>1. ciStack'[u] \in Seq(CiCallRecords)
      BY <1>2
    <3> QED BY <3>1
  <2>2. k.class \in CiClasses
    BY <2>1 DEF CiCallRecords
  <2>3. CASE u = t /\ i = n + 1
    BY <1>2, <2>3 DEF CiKnown, CiFrame
  <2>4. CASE ~(u = t /\ i = n + 1)
    <3>1. /\ i \in 1 .. Len(ciStack[u]) /\ k = ciStack[u][i]
          /\ \A x \in 1 .. i - 1 : ciStack'[u][x] = ciStack[u][x]
          /\ (u = t => (i = Len(ciStack'[u])) = FALSE)
          /\ (u # t => Len(ciStack'[u]) = Len(ciStack[u]) /\ ciPending'[u] = ciPending[u])
      <4>1. CASE u # t
        BY <1>2, <1>3, <4>1
      <4>2. CASE u = t
        <5>1. i \in 1 .. n
          BY <1>2, <2>4, <4>2
        <5> QED BY <1>2, <4>2, <5>1
      <4> QED BY <4>1, <4>2
    <3>2. CiKnows(u, i)
      BY <1>0, <3>1 DEF CiKnowledge
    <3>3. CiSuperReady(u, k.class, i) => CiReady(u, k.class, i)
      BY <2>0, <2>1, <2>2, <3>1, CiReadyStays
    <3> HIDE DEF k
    <3> QED BY <1>3, <3>1, <3>2, <3>3 DEF CiKnown, CiKnows, CiVerified
  <2> QED BY <2>3, <2>4
<1>11. CiCounted'
  BY <1>0, <1>3 DEF CiCounted
<1>12. ~ciAborted'
  BY <1>0, <1>3
<1> QED BY <1>2, <1>4, <1>5, <1>7, <1>8, <1>9, <1>10, <1>11, <1>12 DEF CiInv

\* A call of InitializeClass that returns tells its caller the truth.
CiToldTruth(t, c) ==
    (/\ ciStack[t] /= <<>>
     /\ ciStack[t][Len(ciStack[t])].op = "init"
     /\ ciStack[t][Len(ciStack[t])].class = c
     /\ Len(ciStack'[t]) < Len(ciStack[t]))
    => IF ciResult'[t]
       THEN \/ ciStatus'[c] = "initialized"
            \/ ciStatus'[c] = "initializing" /\ ciInitializer'[c] = t
       ELSE ciStatus'[c] = "error" /\ ciPending'[t]

\* InitializeClass returns what is true.
LEMMA CiGoodStepTells ==
    ASSUME ClassInitAssumption, CiInv, NEW t \in CiThreads, NEW f, NEW g, CiGoodStep(t, f, g),
           NEW u \in CiThreads, NEW c \in CiClasses
    PROVE  CiToldTruth(u, c)
<1>1. CiMoves(t, f, g) /\ CiLearns(t, f, g)
  BY DEF CiGoodStep
<1>2. CiInitialization'
  BY CiGoodStepKeeps DEF CiInv
<1> SUFFICES ASSUME ciStack[u][Len(ciStack[u])].op = "init", ciStack[u][Len(ciStack[u])].class = c,
                    Len(ciStack'[u]) < Len(ciStack[u])
             PROVE  IF ciResult'[u]
                    THEN \/ ciStatus'[c] = "initialized"
                         \/ ciStatus'[c] = "initializing" /\ ciInitializer'[c] = u
                    ELSE ciStatus'[c] = "error" /\ ciPending'[u]
  BY DEF CiToldTruth
<1>3. CASE u # t
  <2>1. ciStack'[u] = ciStack[u]
    BY <1>1, <1>3, CiMovesAlone
  <2>2. ciStack[u] \in Seq(CiCallRecords)
    BY DEF CiInv, CiTypeInv, CiCallRecords
  <2>3. Len(ciStack[u]) \in Nat
    BY <2>2
  <2> QED BY <2>1, <2>3
<1>4. CASE u = t
  <2>1. /\ Len(ciStack[t]) \in Nat \ {0} /\ ciStack[t][Len(ciStack[t])] = f
        /\ Len(ciStack'[t]) \in {Len(ciStack[t]) - 1, Len(ciStack[t]), Len(ciStack[t]) + 1}
        /\ (Len(ciStack'[t]) = Len(ciStack[t]) - 1) <=> g = CiNoCall
    BY <1>1, CiMovesPlaces
  <2>2. g = CiNoCall
    BY <1>4, <2>1
  <2>3. f.op = "init" /\ f.class = c
    BY <1>4, <2>1
  <2>4. IF ciResult'[t]
        THEN ciStatus'[c] = "initialized" \/ CiBelowInitializes(t, c)
        ELSE ciStatus'[c] = "error" /\ ciPending'[t]
    BY <1>1, <2>2, <2>3 DEF CiLearns
  <2>5. CiBelowInitializes(t, c) => CiInitializing(t, c)'
    BY <1>1, CiSeenMoves
  <2>6. CiInitializing(t, c)' => ciStatus'[c] = "initializing" /\ ciInitializer'[c] = t
    BY <1>2 DEF CiInitialization
  <2> QED BY <1>4, <2>4, <2>5, <2>6
<1> QED BY <1>3, <1>4

\* Every step keeps the invariant and tells the truth.
LEMMA CiNextKeeps ==
    ASSUME ClassInitAssumption, CiInv, CiNext
    PROVE  CiInv' /\ \A u \in CiThreads, c \in CiClasses : CiToldTruth(u, c)
<1>1. PICK t \in CiThreads : CiStep(t) \/ \E c \in CiClasses : CiCallInitialize(t, c)
  BY DEF CiNext
<1>2. CASE \E c \in CiClasses : CiCallInitialize(t, c)
  <2>1. PICK c \in CiClasses : CiCallInitialize(t, c)
    BY <1>2
  <2>2. CiInv' /\ Len(ciStack'[t]) > Len(ciStack[t]) /\ \A u \in CiThreads \ {t} : ciStack'[u] = ciStack[u]
    BY <2>1, CiCallInitializeKeeps
  <2>3. \A u \in CiThreads : Len(ciStack[u]) \in Nat /\ Len(ciStack'[u]) \in Nat
    <3>1. \A u \in CiThreads : ciStack[u] \in Seq(CiCallRecords) /\ ciStack'[u] \in Seq(CiCallRecords)
      BY <2>2 DEF CiInv, CiTypeInv, CiCallRecords
    <3> QED BY <3>1
  <2>4. \A u \in CiThreads : ~(Len(ciStack'[u]) < Len(ciStack[u]))
    BY <2>2, <2>3
  <2> QED BY <2>2, <2>4 DEF CiToldTruth
<1>3. CASE CiStep(t)
  <2>1. PICK c \in CiClasses :
        \/ CiStart(t, c) \/ CiEnterLock(t, c) \/ CiAlreadyDone(t, c) \/ CiVerifyFirst(t, c)
        \/ CiAfterVerify(t, c) \/ CiRejected(t, c) \/ CiClaim(t, c) \/ CiInitSuper(t, c)
        \/ CiSuperDone(t, c) \/ CiFinishLock(t, c) \/ CiFinish(t, c)
        \/ CiWait(t, c) \/ CiAwake(t, c)
        \/ CiVerifyStart(t, c) \/ CiVerifyDone(t, c) \/ CiVerifying(t, c)
        \/ CiVerifySuper(t, c) \/ CiVerifySuperDone(t, c)
        \/ \E bad \in BOOLEAN : CiClinitEnds(t, c, bad) \/ CiVerdict(t, c, bad)
    BY <1>3 DEF CiStep
  <2>2. \E f, g : CiGoodStep(t, f, g)
    BY <2>1, CiStartGood, CiEnterLockGood, CiAlreadyDoneGood, CiVerifyFirstGood, CiAfterVerifyGood,
       CiRejectedGood, CiClaimGood, CiInitSuperGood, CiSuperDoneGood, CiFinishLockGood, CiFinishGood,
       CiWaitGood, CiAwakeGood, CiVerifyStartGood, CiVerifyDoneGood, CiVerifyingGood,
       CiVerifySuperGood, CiVerifySuperDoneGood, CiClinitEndsGood, CiVerdictGood
  <2> QED BY <2>2, CiGoodStepKeeps, CiGoodStepTells
<1> QED BY <1>1, <1>2, <1>3

\* Nobody is in EnsureInitialized at first.
LEMMA CiInitInv ==
    ASSUME ClassInitAssumption, CiInit
    PROVE  CiInv
<1>0. \A t \in CiThreads : ciStack[t] = <<>> /\ Len(ciStack[t]) = 0
  BY DEF CiInit
<1>1. \A t \in CiThreads : \A i \in 1 .. Len(ciStack[t]) : FALSE
  BY <1>0
<1>2. CiTypeInv
  <2>1. ciStack \in [CiThreads -> Seq([op : {"init", "verify"}, class : CiClasses,
                                      pc : CiInitPcs \union CiVerifyPcs])]
    BY DEF CiInit
  <2> QED BY <2>1, ClassInitAssumption DEF CiInit, CiTypeInv
<1>3. CiNested
  BY <1>0, <1>1 DEF CiNested, CiNestedCalls
<1>4. CiLocked
  BY <1>1, ClassInitAssumption DEF CiInit, CiLocked, CiHolding, CiVerifyingIt
<1>5. CiVerification
  BY <1>1 DEF CiInit, CiVerification, CiIsVerifyingIt
<1>6. CiInitialization
  BY <1>1 DEF CiInit, CiInitialization, CiInitializing
<1>7. CiKnowledge
  BY <1>1 DEF CiKnowledge
<1>8. CiCounted /\ ~ciAborted
  BY DEF CiInit, CiCounted
<1> QED BY <1>2, <1>3, <1>4, <1>5, <1>6, <1>7, <1>8 DEF CiInv

\* In <clinit> the class is this thread's and its superclass is ready.
LEMMA CiInvOnce ==
    ASSUME CiInv
    PROVE  CiClinitOnce
<1>0. ~ciAborted /\ CiInitialization /\ CiKnowledge /\ CiCounted
  BY DEF CiInv
<1>1. ASSUME NEW c \in CiClasses, NEW t \in CiThreads, CiInClinit(t, c)
      PROVE  /\ ciStatus[c] = "initializing" /\ ciInitializer[c] = t
             /\ CiSuper[c] /= CiNoClass =>
                   \/ ciStatus[CiSuper[c]] = "initialized"
                   \/ /\ ciStatus[CiSuper[c]] = "initializing"
                      /\ ciInitializer[CiSuper[c]] = t
  <2>0. ciStack[t] \in Seq(CiCallRecords)
    BY DEF CiInv, CiTypeInv, CiCallRecords
  <2>1. PICK i \in 1 .. Len(ciStack[t]) : ciStack[t][i] = CiFrame("init", c, "clinit")
    BY <1>1, <2>0 DEF CiInClinit
  <2>2. CiInitializes(ciStack[t][i], c)
    BY <2>1 DEF CiInitializes, CiClaimedPcs, CiFrame
  <2>3. CiInitializing(t, c)
    BY <2>2 DEF CiInitializing
  <2>4. ciStatus[c] = "initializing" /\ ciInitializer[c] = t
    BY <1>0, <2>3 DEF CiInitialization
  <2>5. CiKnows(t, i)
    BY <1>0 DEF CiKnowledge
  <2>6. CiSuperReady(t, c, i)
    BY <2>1, <2>5 DEF CiKnows, CiFrame
  <2>7. ASSUME NEW k \in 1 .. i - 1, CiInitializes(ciStack[t][k], CiSuper[c]), CiSuper[c] # CiNoClass
        PROVE  ciStatus[CiSuper[c]] = "initializing" /\ ciInitializer[CiSuper[c]] = t
    <3>1. k \in 1 .. Len(ciStack[t])
      BY <2>0
    <3>2. CiInitializing(t, CiSuper[c])
      BY <2>7, <3>1 DEF CiInitializing
    <3>3. CiSuper[c] \in CiClasses
      BY <2>7, ClassInitAssumption
    <3> QED BY <1>0, <3>2, <3>3 DEF CiInitialization
  <2> QED BY <2>4, <2>6, <2>7 DEF CiSuperReady
<1> QED BY <1>0, <1>1 DEF CiClinitOnce, CiCounted

\* The invariant of class initialisation (ClassLinker::InitializeClass, WaitForInitializeClass
\* and VerifyClass): every lock is owned by the calls that took it, "verifying" and
\* "initializing" are seen only while the one call is under way that set them, and a call that
\* returns has told its caller what is so.
THEOREM CiInvHolds == CiSpec => []CiInv
<1>1. CiInit => CiInv
  BY CiInitInv, ClassInitAssumption
<1>2. CiInv /\ [CiNext]_ciVars => CiInv'
  <2> SUFFICES ASSUME CiInv, [CiNext]_ciVars PROVE CiInv'
    OBVIOUS
  <2>1. CASE CiNext
    BY <2>1, CiNextKeeps, ClassInitAssumption
  <2>2. CASE UNCHANGED ciVars
    <3>0. /\ ciStatus' = ciStatus /\ ciInitializer' = ciInitializer /\ ciOwner' = ciOwner
          /\ ciDepth' = ciDepth /\ ciStack' = ciStack /\ ciResult' = ciResult
          /\ ciPending' = ciPending /\ ciRuns' = ciRuns /\ ciAborted' = ciAborted /\ ciLeft' = ciLeft
      BY <2>2 DEF ciVars
    <3>1. CiTypeInv' /\ ~ciAborted'
      BY <3>0 DEF CiInv, CiTypeInv
    <3>2. CiNested'
      BY <3>0 DEF CiInv, CiNested
    <3>3. \A u \in CiThreads, c \in CiClasses :
              /\ CiHolding(u, c)' <=> CiHolding(u, c)
              /\ CiVerifyingIt(u, c)' <=> CiVerifyingIt(u, c)
              /\ CiIsVerifyingIt(u, c)' <=> CiIsVerifyingIt(u, c)
      BY <3>0, CiSeenOthers
    <3>4. CiLocked'
      BY <3>0, <3>3 DEF CiInv, CiLocked
    <3>5. CiVerification'
      BY <3>0, <3>3 DEF CiInv, CiVerification
    <3>6. CiInitialization'
      BY <3>0 DEF CiInv, CiInitialization, CiInitializing, CiInitializes
    <3>7. CiKnowledge'
      BY <3>0 DEF CiInv, CiKnowledge, CiKnows, CiVerified, CiSuperReady, CiInitializes
    <3>8. CiCounted'
      BY <3>0 DEF CiInv, CiCounted
    <3> QED BY <3>1, <3>2, <3>4, <3>5, <3>6, <3>7, <3>8 DEF CiInv
  <2> QED BY <2>1, <2>2
<1> QED BY <1>1, <1>2, PTL DEF CiSpec

\* <clinit> runs at most once, by the thread that claimed the class, after its superclass, and
\* no CHECK of SetStatus, InitializeClass or WaitForInitializeClass fails: for any number of
\* threads and classes and any acyclic superclasses.
THEOREM CiClinitOnceHolds == CiSpec => []CiClinitOnce
<1>1. CiInv => CiClinitOnce
  BY CiInvOnce
<1> QED BY <1>1, CiInvHolds, PTL

\* InitializeClass tells its caller the truth, whoever else is in it.
THEOREM CiResultIsTrueHolds == CiSpec => CiResultIsTrue
<1> DEFINE Told ==
      \A t \in CiThreads : \A c \in CiClasses :
          (/\ ciStack[t] /= <<>>
           /\ ciStack[t][Len(ciStack[t])].op = "init"
           /\ ciStack[t][Len(ciStack[t])].class = c
           /\ Len(ciStack'[t]) < Len(ciStack[t]))
          => IF ciResult'[t]
             THEN \/ ciStatus'[c] = "initialized"
                  \/ ciStatus'[c] = "initializing" /\ ciInitializer'[c] = t
             ELSE ciStatus'[c] = "error" /\ ciPending'[t]
<1>1. CiInv /\ [CiNext]_ciVars => [Told]_ciVars
  <2> SUFFICES ASSUME CiInv, CiNext PROVE Told
    OBVIOUS
  <2>1. \A t \in CiThreads, c \in CiClasses : CiToldTruth(t, c)
    BY CiNextKeeps, ClassInitAssumption
  <2> QED BY <2>1 DEF CiToldTruth
<1>2. CiSpec => [][CiNext]_ciVars
  BY DEF CiSpec
<1>3. CiSpec => [][Told]_ciVars
  BY <1>1, <1>2, CiInvHolds, PTL
<1> QED BY <1>3 DEF CiResultIsTrue
================================================================================
