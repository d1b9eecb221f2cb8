------------------------------- MODULE Transaction ------------------------------
(***************************************************************************)
(* Class initialisation in a transaction (transaction.cc, intern_table.cc, *)
(* InitializeClass of compiler_driver.cc): the image compiler runs a       *)
(* <clinit>, and if it fails or does something that cannot be done at      *)
(* compile time, all its writes and interned strings are taken back.       *)
(*                                                                         *)
(* The logs hold raw addresses while a collection may move objects.  An    *)
(* address is an object and the number of its moves.  In the fields and    *)
(* tables, which a collection updates, the model keeps the object itself.  *)
(* Only one thread initialises classes of an image, so a call is one step. *)
(***************************************************************************)
EXTENDS Integers, Sequences

CONSTANTS TrStrings,      \* String objects
          TrText,         \* string |-> its characters
          TrNull,
          TrStale,        \* an address where the object no longer is
          TrCalls,        \* bound: writes and interned strings
          TrCollections   \* bound: collections

ASSUME TransactionAssumption ==
    /\ TrNull \notin TrStrings /\ TrStale \notin TrStrings \union {TrNull}
    /\ \A s \in TrStrings : s \notin {"class", "instance", "array", "verified"} /\ s \notin 0 .. 2
    /\ TrNull \notin [obj : TrStrings, moves : Nat]
    /\ TrCalls \in Nat /\ TrCollections \in Nat

VARIABLES trField,        \* the fields and array elements
          trStrong,       \* strong_interns_
          trWeak,         \* weak_interns_
          trLogs,         \* object_logs_ and array_logs_: address |-> location |-> value
          trStringLog,    \* intern_string_logs_, the most recent first
          trAborted,      \* aborted_
          trPending,      \* self->IsExceptionPending()
          trMode,         \* where InitializeClass is
          trMoves,        \* how often each object has been moved
          trDead,         \* strings that have been freed
          trFatal,        \* a CHECK failed, or what is not there was removed or written
          trBefore,       \* history: fields, tables and moves when the transaction began
          trLeft          \* calls and collections left

trVars == <<trField, trStrong, trWeak, trLogs, trStringLog, trAborted, trPending, trMode,
            trMoves, trDead, trFatal, trBefore, trLeft>>
trHeap == <<trStrong, trWeak, trMoves, trDead>>
trLog == <<trLogs, trStringLog>>
trControl == <<trAborted, trPending, trMode, trFatal, trBefore>>

\* The object that each location is in: the class, an instance and an array of floats, which
\* are counted in halves.
TrHolder == [status |-> "class", value |-> "instance", ref |-> "instance", float |-> "array"]

\* The objects in a moving space.
TrMovable == {"instance", "array"} \union TrStrings

TrValues(f) ==
    CASE f = "ref" -> (TrStrings \ trDead) \union {TrNull}
      [] f = "float" -> 1 .. 2
      [] OTHER -> 0 .. 1

TrAddress(o) == [obj |-> o, moves |-> IF o \in TrMovable THEN trMoves[o] ELSE 0]

TrSnapshot == [field |-> trField, strong |-> trStrong, weak |-> trWeak, moves |-> trMoves]

TrInit ==
    /\ trDead = {}
    /\ trField \in [status : {"verified"}, value : {0}, ref : TrValues("ref"),
                   float : TrValues("float")]
    /\ trStrong = {} /\ trWeak = {}
    /\ trLogs = <<>> /\ trStringLog = <<>>
    /\ trAborted = FALSE /\ trPending = FALSE /\ trFatal = FALSE
    /\ trMode = "out"
    /\ trMoves = [o \in TrMovable |-> 0]
    /\ trBefore = TrSnapshot
    /\ trLeft = [calls |-> TrCalls, collections |-> TrCollections]

TrCall ==
    /\ trLeft.calls > 0
    /\ trLeft' = [trLeft EXCEPT !.calls = @ - 1]

(***************************************************************************)
(* Recording.                                                              *)
(***************************************************************************)
\* The value as a uint64_t: an address for a reference; PrimitiveArray<float> passes the
\* float itself, which loses its fraction.
TrLogged(f) ==
    CASE f = "ref" -> IF trField[f] = TrNull THEN TrNull ELSE TrAddress(trField[f])
      [] f = "float" -> 2 * (trField[f] \div 2)
      [] OTHER -> trField[f]

\* ObjectLog::LogValue and ArrayLog::LogValue keep the first value only.
TrRecord(f) ==
    LET a == TrAddress(TrHolder[f])
        old == IF a \in DOMAIN trLogs THEN trLogs[a] ELSE <<>>
        new == [g \in DOMAIN old \union {f} |->
                   IF g \in DOMAIN old THEN old[g] ELSE TrLogged(f)]
    IN  trLogs' = [b \in DOMAIN trLogs \union {a} |-> IF b = a THEN new ELSE trLogs[b]]

TrSet(f, v) == TrRecord(f) /\ trField' = [trField EXCEPT ![f] = v]

\* EnterTransactionMode, and InitializeClass up to the <clinit>.
TrEnter ==
    /\ trMode = "out"
    /\ trMode' = "active"
    /\ trBefore' = TrSnapshot
    /\ TrSet("status", "initializing")
    /\ UNCHANGED <<trHeap, trStringLog, trAborted, trPending, trFatal, trLeft>>

\* The <clinit> writes a field or an array element.
TrWrite(f, v) ==
    /\ trMode = "active" /\ ~trPending
    /\ TrCall
    /\ TrSet(f, v)
    /\ UNCHANGED <<trHeap, trStringLog, trControl>>

(***************************************************************************)
(* Interned strings.                                                       *)
(***************************************************************************)
TrFind(table, s) == {x \in table : TrText[x] = TrText[s]}

TrLogString(s, kind, op) == <<[str |-> TrAddress(s), kind |-> kind, op |-> op]>>

\* InternTable::Insert: finds the string in a table, moves it to the strong one, or adds it.
\* LookupStringFromImage finds nothing: the boot image is what is being compiled.
TrIntern(s, strong) ==
    /\ trMode \in {"out", "active"} /\ ~trPending
    /\ TrCall
    /\ s \notin trDead
    /\ LET weak == TrFind(trWeak, s)
           log(entries) == trStringLog' = IF trMode = "active" THEN entries \o trStringLog
                                          ELSE trStringLog
       IN  \/ /\ TrFind(trStrong, s) # {} \/ (weak # {} /\ ~strong)
              /\ UNCHANGED <<trStrong, trWeak, trStringLog>>
           \/ /\ TrFind(trStrong, s) = {} /\ strong
              /\ \E w \in weak :
                    /\ trWeak' = trWeak \ {w}
                    /\ trStrong' = trStrong \union {w}
                    /\ log(TrLogString(w, "strong", "insert") \o TrLogString(w, "weak", "remove"))
           \/ /\ TrFind(trStrong, s) = {} /\ weak = {}
              /\ trStrong' = IF strong THEN trStrong \union {s} ELSE trStrong
              /\ trWeak' = IF strong THEN trWeak ELSE trWeak \union {s}
              /\ log(TrLogString(s, IF strong THEN "strong" ELSE "weak", "insert"))
    /\ UNCHANGED <<trField, trLogs, trControl, trMoves, trDead>>

(***************************************************************************)
(* A collection: it visits the logs as roots, may move objects, and sweeps *)
(* the weak table.                                                         *)
(***************************************************************************)
\* RootVisitor::VisitRoot writes the new address to the root.
TrMoved(a, moved) == IF a.obj \in moved THEN [a EXCEPT !.moves = @ + 1] ELSE a

\* VisitObjectLogs and VisitArrayLogs: the keys are replaced; the values of references are
\* visited in a copy ('for (auto it : object_logs_)') and stay what they were.
TrVisitLogs(moved) ==
    trLogs' = [a \in {TrMoved(b, moved) : b \in DOMAIN trLogs} |->
                  trLogs[CHOOSE b \in DOMAIN trLogs : TrMoved(b, moved) = a]]

\* Mutant: the strings are visited in a copy as well.
TrVisitStringLogsInCopy(moved) == UNCHANGED trStringLog

\* VisitStringLogs: visited in place.
TrVisitStringLogs(moved) ==
    trStringLog' = [i \in DOMAIN trStringLog |->
                       [trStringLog[i] EXCEPT !.str = TrMoved(@, moved)]]

\* What the logs keep alive.
TrLogRoots ==
    {trStringLog[i].str.obj : i \in DOMAIN trStringLog}
    \union {trLogs[a]["ref"].obj : a \in {b \in DOMAIN trLogs : /\ "ref" \in DOMAIN trLogs[b]
                                                               /\ trLogs[b]["ref"] # TrNull}}

TrCollect(moved, dead) ==
    /\ trMode = "active"
    /\ trLeft.collections > 0
    /\ dead \intersect (TrLogRoots \union trStrong \union {trField["ref"]} \union trDead) = {}
    /\ trMoves' = [o \in TrMovable |-> trMoves[o] + IF o \in moved THEN 1 ELSE 0]
    /\ trDead' = trDead \union dead
    /\ trWeak' = trWeak \ dead
    /\ TrVisitLogs(moved)
    /\ TrVisitStringLogs(moved)
    /\ trLeft' = [trLeft EXCEPT !.collections = @ - 1]
    /\ UNCHANGED <<trField, trStrong, trControl>>

(***************************************************************************)
(* The end.                                                                *)
(***************************************************************************)
\* AbortTransactionAndThrowAbortError, or an exception of the application.
TrThrow(abort) ==
    /\ trMode = "active" /\ ~trPending
    /\ trPending' = TRUE
    /\ trAborted' = (trAborted \/ abort)
    /\ UNCHANGED <<trField, trHeap, trLog, trMode, trFatal, trBefore, trLeft>>

\* The <clinit> catches it, even the one that tells of the abort.
TrCatch ==
    /\ trMode = "active" /\ trPending
    /\ TrCall
    /\ trPending' = FALSE
    /\ UNCHANGED <<trField, trHeap, trLog, trAborted, trMode, trFatal, trBefore>>

\* InitializeClass after the <clinit> fails with an exception or in an aborted transaction.
TrFails == trPending \/ trAborted

\* The rest of ClassLinker::InitializeClass, and ExitTransactionMode.
TrReturn ==
    /\ trMode = "active"
    /\ TrSet("status", IF TrFails THEN "error" ELSE "initialized")
    /\ trMode' = IF TrFails THEN "rollback" ELSE "committed"
    /\ trPending' = FALSE
    /\ UNCHANGED <<trHeap, trStringLog, trAborted, trFatal, trBefore, trLeft>>

\* UndoFieldWrite and UndoArrayWrite.
TrRestored(f, v) ==
    IF f # "ref" \/ v = TrNull THEN v
    ELSE IF v = TrAddress(v.obj) THEN v.obj ELSE TrStale

\* UndoObjectModifications and UndoArrayModifications: what is logged is written to where it
\* was logged.
TrRollback ==
    /\ trMode = "rollback"
    /\ trMode' = "undo"
    /\ trField' = [f \in DOMAIN trField |->
          LET a == TrAddress(TrHolder[f])
          IN  IF a \in DOMAIN trLogs /\ f \in DOMAIN trLogs[a]
              THEN TrRestored(f, trLogs[a][f]) ELSE trField[f]]
    /\ trFatal' = (trFatal \/ \E a \in DOMAIN trLogs : a # TrAddress(a.obj))
    /\ trLogs' = <<>>
    /\ UNCHANGED <<trHeap, trStringLog, trAborted, trPending, trBefore, trLeft>>

\* InternStringLog::Undo of the most recent entry, with Table::Remove.
TrUndoString ==
    LET e == Head(trStringLog)
        s == e.str.obj
        there == e.str = TrAddress(s) /\ s \notin trDead
        undone(table) == IF e.op = "insert" THEN table \ TrFind(table, s) ELSE table \union {s}
    IN  /\ trMode = "undo" /\ trStringLog # <<>>
        /\ trStringLog' = Tail(trStringLog)
        /\ trFatal' = \/ trFatal \/ ~there
                      \/ /\ e.op = "insert"
                         /\ TrFind(IF e.kind = "strong" THEN trStrong ELSE trWeak, s) = {}
        /\ trStrong' = IF e.kind = "strong" THEN undone(trStrong) ELSE trStrong
        /\ trWeak' = IF e.kind = "weak" THEN undone(trWeak) ELSE trWeak
        /\ UNCHANGED <<trField, trLogs, trAborted, trPending, trMode, trMoves, trDead, trBefore,
                       trLeft>>

\* CHECK_EQ(old_status, klass->GetStatus()).
TrFinish ==
    /\ trMode = "undo" /\ trStringLog = <<>>
    /\ trMode' = "undone"
    /\ trFatal' = (trFatal \/ trField["status"] # trBefore.field["status"])
    /\ UNCHANGED <<trField, trHeap, trLog, trAborted, trPending, trBefore, trLeft>>

TrNext ==
    \/ TrEnter
    \/ \E f \in DOMAIN TrHolder \ {"status"} : \E v \in TrValues(f) : TrWrite(f, v)
    \/ \E s \in TrStrings, strong \in BOOLEAN : TrIntern(s, strong)
    \/ \E moved \in {{}, TrMovable}, dead \in SUBSET TrStrings : TrCollect(moved, dead)
    \/ \E abort \in BOOLEAN : TrThrow(abort)
    \/ TrCatch
    \/ TrReturn
    \/ TrRollback
    \/ TrUndoString
    \/ TrFinish

TrSpec == TrInit /\ [][TrNext]_trVars

(***************************************************************************)
(* Properties.                                                             *)
(***************************************************************************)
\* An aborted transaction is always undone, also if the <clinit> has caught the exception; no
\* log entry leads to a freed or moved object, the strings to be removed are found, and afterwards
\* both intern tables are what they were, except for weak strings that a collection has freed.
\* The fields are what they were, a reference only if the object it led to has not been moved
\* since (VisitObjectLogs visits a copy of the logged values).  Elements of arrays of floats are
\* not: see TrUndoesAllChanges.
TrRollbackRestores ==
    /\ ~trFatal
    /\ trMode = "committed" => ~trAborted
    /\ trMode = "undone" =>
          /\ trStrong = trBefore.strong
          /\ trWeak = trBefore.weak \ trDead
          /\ \A f \in {"status", "value", "ref"} :
                LET old == trBefore.field[f]
                    moved == f = "ref" /\ old # TrNull /\ trMoves[old] # trBefore.moves[old]
                IN  ~moved => trField[f] = old /\ old \notin trDead

\* "Abort transaction by undoing all recorded changes" (transaction.h:98): after the rollback
\* every field and array element has the value it had before the transaction.  The code does
\* not do this: RecordWriteArray takes a float as a uint64_t, which drops its fraction.
TrUndoesAllChanges ==
    trMode = "undone" => trField = trBefore.field
================================================================================
