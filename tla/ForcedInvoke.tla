------------------------------ MODULE ForcedInvoke ------------------------------
(***************************************************************************)
(* Forced invocation (Karl Gerat U-X): the interpreter runs a method whose *)
(* body a packer may restore in place, and returns as soon as it sees that *)
(* an INVOKE_STATIC has changed the body.                                  *)
(*                                                                         *)
(* A body is a sequence of instructions, each standing for the byte its    *)
(* opcode contributes to BKDRHash.  What the callee does is external: any  *)
(* call may leave another body of the same length.  The hash is computed   *)
(* modulo FiWord, 2^32 in the code; bodies that differ may hash the same.  *)
(***************************************************************************)
EXTENDS Integers, Sequences

CONSTANTS FiOpcodes,      \* opcode |-> its byte, as a signed char
          FiWord,         \* the values of an unsigned int
          FiLen,          \* bound: instructions of a body
          FiRuns          \* bound: invocations

ASSUME ForcedInvokeAssumption ==
    /\ \A op \in DOMAIN FiOpcodes : FiOpcodes[op] \in -128 .. 127
    /\ {FiWord, FiLen} \subseteq Nat \ {0}
    /\ FiRuns \in Nat

VARIABLES fiCode,         \* the instructions in memory
          fiPc,           \* "out", "entered" or "run"
          fiForced,       \* force_invoke_flag == KARL_GERAT_U_CODE
          fiDexPc,        \* inst
          fiHash1,        \* hash1
          fiNew,          \* *new_code_item has been set by this invocation
          fiPending,      \* self->IsExceptionPending()
          fiEntry,        \* history: the body when Execute was entered
          fiLast,         \* history: the instruction that ran last
          fiLeft          \* invocations left

fiVars == <<fiCode, fiPc, fiForced, fiDexPc, fiHash1, fiNew, fiPending, fiEntry, fiLast, fiLeft>>

FiBodies == [1 .. FiLen -> DOMAIN FiOpcodes]

\* BKDRHash over the bytes of a body: hash * 131 + byte, which wraps around.
BKDRHash(body) ==
    LET hash[i \in 0 .. FiLen] ==
            IF i = 0 THEN 0 ELSE (hash[i - 1] * 131 + FiOpcodes[body[i]]) % FiWord
    IN  hash[FiLen]

FiInit ==
    /\ fiCode \in FiBodies
    /\ fiPc = "out"
    /\ fiForced = FALSE
    /\ fiDexPc = 1
    /\ fiHash1 = 0
    /\ fiNew = FALSE
    /\ fiPending = FALSE
    /\ fiEntry = fiCode
    /\ fiLast = "none"
    /\ fiLeft = FiRuns

\* EnterInterpreterFromInvoke; an exception of an earlier call has been cleared.
EnterInterpreterFromInvoke(forced) ==
    /\ fiPc = "out" /\ fiLeft > 0
    /\ fiLeft' = fiLeft - 1
    /\ fiPc' = "entered"
    /\ fiForced' = forced
    /\ fiNew' = FALSE
    /\ fiPending' = FALSE
    /\ UNCHANGED <<fiCode, fiDexPc, fiHash1, fiEntry, fiLast>>

\* Stack overflow, an abstract method, or <clinit> of the declaring class fails, which may
\* have restored code before it threw.
FiEnterFails ==
    /\ fiPc = "entered"
    /\ fiCode' \in FiBodies
    /\ fiPc' = "out"
    /\ fiPending' = TRUE
    /\ UNCHANGED <<fiForced, fiDexPc, fiHash1, fiNew, fiEntry, fiLast, fiLeft>>

\* The class is initialised, which may restore code; then Execute takes the first hash.
FiExecute ==
    /\ fiPc = "entered"
    /\ fiCode' \in FiBodies
    /\ fiPc' = "run"
    /\ fiDexPc' = 1
    /\ fiHash1' = IF fiForced THEN BKDRHash(fiCode') ELSE 0
    /\ fiEntry' = fiCode'
    /\ fiLast' = "none"
    /\ UNCHANGED <<fiForced, fiNew, fiPending, fiLeft>>

\* The call returns (success) or throws; a handler of this frame is an instruction of the
\* body, and without one the frame is left with the exception pending.
FiAfterCall(success) ==
    IF success
    THEN /\ fiPc' = IF fiDexPc = FiLen THEN "out" ELSE "run"
         /\ fiDexPc' = IF fiDexPc = FiLen THEN 1 ELSE fiDexPc + 1
         /\ UNCHANGED fiPending
    ELSE \/ /\ fiDexPc' \in 1 .. FiLen
            /\ UNCHANGED <<fiPc, fiPending>>
         \/ /\ fiPc' = "out"
            /\ fiPending' = TRUE
            /\ UNCHANGED fiDexPc

FiRunning(op) == fiPc = "run" /\ fiCode[fiDexPc] = op

\* Mutant of FiInvokeStatic: an exception is handled before the comparison.
FiInvokeStaticThrowsFirst(success) ==
    /\ FiRunning("invoke-static")
    /\ fiCode' \in FiBodies
    /\ fiLast' = "invoke-static"
    /\ IF success /\ fiForced /\ fiHash1 /= BKDRHash(fiCode')
       THEN /\ fiNew' = TRUE
            /\ fiPc' = "out"
            /\ UNCHANGED <<fiPending, fiDexPc>>
       ELSE FiAfterCall(success) /\ UNCHANGED fiNew
    /\ UNCHANGED <<fiForced, fiHash1, fiEntry, fiLeft>>

\* INVOKE_STATIC of the switch interpreter: the comparison comes before the exception.
FiInvokeStatic(success) ==
    /\ FiRunning("invoke-static")
    /\ fiCode' \in FiBodies
    /\ fiLast' = "invoke-static"
    /\ IF fiForced /\ fiHash1 /= BKDRHash(fiCode')
       THEN /\ fiNew' = TRUE
            /\ fiPc' = "out"
            /\ fiPending' = ~success
            /\ UNCHANGED fiDexPc
       ELSE FiAfterCall(success) /\ UNCHANGED fiNew
    /\ UNCHANGED <<fiForced, fiHash1, fiEntry, fiLeft>>

\* Every other call, INVOKE_STATIC_RANGE among them.
FiInvokeOther(success) ==
    /\ FiRunning("invoke-other")
    /\ fiCode' \in FiBodies
    /\ fiLast' = "invoke-other"
    /\ FiAfterCall(success)
    /\ UNCHANGED <<fiForced, fiHash1, fiNew, fiEntry, fiLeft>>

FiReturn ==
    /\ FiRunning("return-void")
    /\ fiPc' = "out"
    /\ fiLast' = "return-void"
    /\ UNCHANGED <<fiCode, fiForced, fiDexPc, fiHash1, fiNew, fiPending, fiEntry, fiLeft>>

FiNext ==
    \/ \E forced \in BOOLEAN : EnterInterpreterFromInvoke(forced)
    \/ FiEnterFails \/ FiExecute \/ FiReturn
    \/ \E success \in BOOLEAN : FiInvokeStatic(success) \/ FiInvokeOther(success)

FiSpec == FiInit /\ [][FiNext]_fiVars

----------------------------------------------------------------------------

\* A forced invocation goes on after INVOKE_STATIC only with a body that hashes as the one it
\* entered with, even if the callee threw, or if another kind of call had changed the body
\* before: restored code is reported and not executed, unless its hash collides with that of
\* the packed body.  What it reports has changed while the frame ran: what <clinit> restores
\* before Execute is never reported as new, and an invocation that was not forced reports
\* nothing.
FiStopsBeforeRestored ==
    /\ (fiForced /\ fiPc = "run" /\ fiLast = "invoke-static")
          => BKDRHash(fiCode) = BKDRHash(fiEntry)
    /\ fiNew => fiForced /\ fiCode /= fiEntry
================================================================================
