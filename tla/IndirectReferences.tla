------------------------- MODULE IndirectReferences -------------------------
(***************************************************************************)
(* The JNI local reference table of one thread: indirect_reference_table,  *)
(* as JNIEnvExt drives it.  The table is a stack of segments, one for each *)
(* native frame; what is below the bottom of the current segment belongs   *)
(* to the callers.  A deleted entry leaves a hole, which the next Add to   *)
(* the same segment fills, so every segment state carries the number of    *)
(* holes in the whole table below it.  An entry has a serial number, part  *)
(* of the references to it, by which a stale reference is recognised.      *)
(*                                                                         *)
(* -Xcheck:jni is on: a bad reference is rejected (AbortIfNoCheckJNI       *)
(* returns), so that a program that makes mistakes is followed further.    *)
(***************************************************************************)
EXTENDS Integers, Sequences, FiniteSetsExt

CONSTANTS
    IrObjects,      \* objects that references are made to
    IrNull,         \* the null reference of an empty entry
    IrMaxEntries,   \* max_entries_
    IrPrevCount,    \* kIRTPrevCount, the number of serials
    IrFrames,       \* bound: nested frames
    IrCalls         \* bound: calls of the interface

ASSUME IrAssumption ==
    /\ IrNull \notin IrObjects
    /\ IrMaxEntries \in Nat \ {0} /\ IrPrevCount \in Nat \ {0}
    /\ IrFrames \in Nat /\ IrCalls \in Nat

VARIABLES
    irTable,     \* table_: the serial and the active reference of each entry
    irSegment,   \* segment_state_: topIndex and numHoles
    irCookie,    \* local_ref_cookie: the segment state at the frame's start
    irStacked,   \* the cookies saved by the outer frames
    irMade,      \* history: references handed out; times is irAdds then
    irAdds,      \* history: how often each entry was filled; a trim counts
                 \* as a round of serials
    irLive,      \* history: references neither deleted nor popped
    irAborted,   \* LOG(FATAL) was reached
    irCalls      \* calls made so far

irVars == <<irTable, irSegment, irCookie, irStacked, irMade, irAdds, irLive,
            irAborted, irCalls>>

IrIndexes == 0 .. IrMaxEntries - 1

IrIsNull(i) == irTable[i].obj = IrNull

IrTop == irSegment.topIndex
IrBottom == irCookie.topIndex

\* The holes of the current segment: Add and Remove subtract the cookie's.
IrHoles == irSegment.numHoles - irCookie.numHoles

IrFirstSegment == [topIndex |-> 0, numHoles |-> 0]

IrInit ==
    /\ irTable = [i \in IrIndexes |-> [serial |-> 0, obj |-> IrNull]]
    /\ irSegment = IrFirstSegment /\ irCookie = IrFirstSegment
    /\ irStacked = <<>>
    /\ irMade = {} /\ irLive = {}
    /\ irAdds = [i \in IrIndexes |-> 0]
    /\ irAborted = FALSE /\ irCalls = 0

IrCall == ~irAborted /\ irCalls < IrCalls /\ irCalls' = irCalls + 1

-----------------------------------------------------------------------------
(* Looking a reference up. *)

\* CheckEntry: the reference that the entry would be given now is this one.
CheckEntry(r) == irTable[r.index].serial = r.serial

\* GetChecked, for a reference of this table.
GetChecked(r) ==
    /\ r.index < IrTop
    /\ ~IrIsNull(r.index)
    /\ CheckEntry(r)

\* Get
IrGet(r) == IF GetChecked(r) THEN irTable[r.index].obj ELSE IrNull

-----------------------------------------------------------------------------
(* Adding. *)

\* Mutant of IrAddIndex: a segment that forgets that the outer segments have holes of their own.
IrAddIndexAnySegment(seg, cookie) ==
    IF seg.numHoles > 0
    THEN Max({i \in 0 .. seg.topIndex - 2 : IrIsNull(i)} \cup {0})
    ELSE seg.topIndex

\* The index that Add takes: the first hole below the top entry, or the end.
IrAddIndex(seg, cookie) ==
    IF seg.numHoles - cookie.numHoles > 0
    THEN Max({i \in 0 .. seg.topIndex - 2 : IrIsNull(i)})
    ELSE seg.topIndex

\* Mutant of IrNextSerial: a slot keeps its serial number.
IrSameSerial(serial) == serial

IrNextSerial(serial) ==
    IF serial + 1 = IrPrevCount THEN 0 ELSE serial + 1

\* Add to the segment seg, on top of cookie; depth is that of the frame.
IrAdd(seg, cookie, live, obj, depth) ==
    IF seg.topIndex = IrMaxEntries
    THEN /\ irAborted' = TRUE
         /\ irSegment' = seg /\ irLive' = live
         /\ UNCHANGED <<irTable, irMade, irAdds>>
    ELSE LET index == IrAddIndex(seg, cookie)
             serial == IrNextSerial(irTable[index].serial)
             ref == [index |-> index, serial |-> serial, obj |-> obj,
                     times |-> irAdds[index] + 1, depth |-> depth]
         IN /\ irTable' = [irTable EXCEPT
                             ![index] = [serial |-> serial, obj |-> obj]]
            /\ irSegment' =
                 IF index = seg.topIndex
                 THEN [seg EXCEPT !.topIndex = @ + 1]
                 ELSE [seg EXCEPT !.numHoles = @ - 1]
            /\ irMade' = irMade \cup {ref}
            /\ irLive' = live \cup {ref}
            /\ irAdds' = [irAdds EXCEPT ![index] = @ + 1]
            /\ UNCHANGED irAborted

NewLocalRef(obj) ==
    /\ IrCall
    /\ IrAdd(irSegment, irCookie, irLive, obj, Len(irStacked))
    /\ UNCHANGED <<irCookie, irStacked>>

-----------------------------------------------------------------------------
(* Deleting. *)

\* Removing the top entry also eats the holes below it, down to the bottom of
\* the segment and no more of them than the segment counts.
IrTopAfter(idx) ==
    IF IrHoles = 0
    THEN idx
    ELSE Max({k \in IrBottom .. idx :
                 k = IrBottom \/ ~IrIsNull(k - 1) \/ idx - k = IrHoles})

\* Mutant of IrMayRemove: deletes what is at the index, whoever the reference belongs to.
IrMayRemoveAny(r) == r.index \in IrBottom .. IrTop - 1 /\ ~IrIsNull(r.index)

\* The early returns of Remove; the top entry is never null (IrHolesCounted).
IrMayRemove(r) ==
    /\ r.index \in IrBottom .. IrTop - 1
    /\ r.index # IrTop - 1 => ~IrIsNull(r.index)
    /\ CheckEntry(r)

\* DeleteLocalRef: Remove, called with the frame's cookie.
DeleteLocalRef(r) ==
    /\ IrCall
    /\ IF ~IrMayRemove(r)
       THEN UNCHANGED <<irTable, irSegment, irLive>>
       ELSE /\ irTable' = [irTable EXCEPT ![r.index].obj = IrNull]
            /\ irSegment' =
                 IF r.index = IrTop - 1
                 THEN LET top == IrTopAfter(r.index)
                      IN [topIndex |-> top,
                          numHoles |-> irSegment.numHoles - (r.index - top)]
                 ELSE [irSegment EXCEPT !.numHoles = @ + 1]
            /\ irLive' = irLive \ {r}
    /\ UNCHANGED <<irCookie, irStacked, irMade, irAdds, irAborted>>

-----------------------------------------------------------------------------
(* Frames. *)

\* PushFrame, and JniMethodStart, which keeps the old cookie on its own stack.
PushFrame ==
    /\ IrCall /\ Len(irStacked) < IrFrames
    /\ irStacked' = Append(irStacked, irCookie)
    /\ irCookie' = irSegment
    /\ UNCHANGED <<irTable, irSegment, irMade, irAdds, irLive, irAborted>>

\* The live references that are not of the innermost frame.
IrOuterLive == {r \in irLive : r.depth < Len(irStacked)}

\* PopFrame, and PopLocalReferences of JniMethodEnd; with a survivor, the
\* object is looked up before the pop and given a new reference after it.
PopLocalFrame(survivor) ==
    /\ IrCall /\ irStacked # <<>>
    /\ LET outer == irStacked[Len(irStacked)]
       IN /\ irCookie' = outer
          /\ irStacked' = SubSeq(irStacked, 1, Len(irStacked) - 1)
          /\ IF survivor = IrNull
             THEN /\ irSegment' = irCookie /\ irLive' = IrOuterLive
                  /\ UNCHANGED <<irTable, irMade, irAdds, irAborted>>
             ELSE IrAdd(irCookie, outer, IrOuterLive, survivor,
                        Len(irStacked) - 1)

\* Trim gives back the pages above topIndex, which read as zero afterwards: the
\* serials start again, and an old reference may match the next one at once.
IrTrim(from) ==
    /\ IrCall /\ from \in IrTop .. IrMaxEntries - 1
    /\ irTable' = [i \in IrIndexes |->
                     IF i < from THEN irTable[i]
                     ELSE [serial |-> 0, obj |-> IrNull]]
    /\ irAdds' = [i \in IrIndexes |->
                    IF i < from THEN irAdds[i] ELSE irAdds[i] + IrPrevCount]
    /\ UNCHANGED <<irSegment, irCookie, irStacked, irMade, irLive, irAborted>>

IrNext ==
    \/ \E obj \in IrObjects : NewLocalRef(obj)
    \/ \E r \in irMade : DeleteLocalRef(r)
    \/ PushFrame
    \/ \E survivor \in {IrNull} \cup {IrGet(r) : r \in irMade} :
          PopLocalFrame(survivor)
    \/ \E from \in IrIndexes : IrTrim(from)

IrSpec == IrInit /\ [][IrNext]_irVars

-----------------------------------------------------------------------------

\* A reference is so old that its entry has seen every serial, or a trim.
IrWrapped(r) == irAdds[r.index] - r.times >= IrPrevCount

\* The holes that each segment state counts are the null entries below its
\* top, for the current segment and for every saved cookie, and the top entry
\* of a segment is not a hole: Add's backward scan for a hole ends inside its
\* own segment and the counts restored by a pop are right again.
IrHolesCounted ==
    /\ \A s \in {irSegment, irCookie}
                 \cup {irStacked[i] : i \in DOMAIN irStacked} :
          s.numHoles = Cardinality({i \in 0 .. s.topIndex - 1 : IrIsNull(i)})
    /\ IrTop > IrBottom => ~IrIsNull(IrTop - 1)

\* Every reference that was neither deleted by its owner nor popped with its
\* frame still yields the object it was made for, whatever was added, deleted
\* (by stale references too) and popped since: entries are not given away
\* twice, a segment never loses an entry of its own or of a caller, and its
\* holes are counted.  Only a wrapped serial lets a stale reference delete
\* another's entry.
IrLiveRefsResolve ==
    /\ IrHolesCounted
    /\ (\A r \in irMade : ~IrWrapped(r)) =>
          \A r \in irLive : IrGet(r) = r.obj

\* A reference that was deleted or popped is rejected by Get, until its entry
\* has been filled kIRTPrevCount times more or its page was trimmed ("this
\* helps us detect use after free errors since the serial stored in the
\* indirect ref wont match", indirect_reference_table.h).
IrStaleIsRejected ==
    \A r \in irMade \ irLive : IrGet(r) # IrNull => IrWrapped(r)
=============================================================================
