------------------------------- MODULE DexBuilder -------------------------------
(***************************************************************************)
(* Level 3 rebuilding of a DEX file: ArtMethod::DexBuilder and the second  *)
(* half of build_dex.  Class by class the builder collects code items and  *)
(* class data items, then it copies the original file, appends the code    *)
(* items, the class data items with their methods' new code offsets, and   *)
(* repairs header and class definitions.                                   *)
(*                                                                         *)
(* An address is an offset into the image.  Of the image the model keeps   *)
(* the bytes of class data, where which method's code begins, the header's *)
(* offsets and the class definitions.  build_ClassDataItem is empty in     *)
(* this tree and the body of build_ClassDataItem2 is not part of it: its   *)
(* effect is taken from what the copying functions expect.                 *)
(***************************************************************************)
EXTENDS Integers, Sequences, SequencesExt

CONSTANTS DbClassKinds,   \* the classes a file is made of: [how, fields, codes]
          DbClassCount,   \* bound: classes of a file
          DbPads          \* bytes of other data, which move the end of the file

ASSUME DexBuilderAssumption ==
    /\ \A k \in DbClassKinds :
          /\ k.how \in {"loaded", "unloaded", "failing", "bypassed"}
          /\ k.fields \in Nat
          /\ \A j \in DOMAIN k.codes : k.codes[j] \in Nat /\ k.codes[j] % 4 = 0
    /\ DbClassCount \in Nat /\ DbPads \subseteq Nat

VARIABLES dbClasses,      \* the classes of dex_file, in class_def order
          dbPad,          \* other data of dex_file
          dbTampered,     \* what a packer has overwritten in the header in memory
          dbStep,         \* where build_dex is
          dbNext,         \* class_idx
          dbItems,        \* class_data_items
          dbCodeMap,      \* code_item_offset_map, as pairs of method and offset
          dbCodeLen,      \* cur_code_item_offset - code_item_seg
          dbCodeAddr,     \* code_item_addr - begin
          dbClassAddr,    \* class_data_addr - begin
          dbEnd,          \* how far the image is filled
          dbClassMap,     \* class_data_offset_map, as pairs
          dbBytes,        \* offset |-> byte, where the image holds class data
          dbCodes,        \* the code items of the image
          dbDefs,         \* class_data_off_ of each class definition of the image
          dbHeader        \* offsets and file_size_ in the image's header

dbIn == <<dbClasses, dbPad, dbTampered>>
dbBuilt == <<dbNext, dbItems, dbCodeMap, dbCodeLen>>
dbImage == <<dbBytes, dbCodes, dbDefs, dbHeader>>
dbVars == <<dbIn, dbStep, dbBuilt, dbCodeAddr, dbClassAddr, dbEnd, dbClassMap, dbImage>>

----------------------------------------------------------------------------
(* LEB128 *)

\* gerat::EncodeUnsignedLeb128: seven bits a byte, the high bit on all but the last.
EncodeUnsignedLeb128(value) ==
    LET n == CHOOSE k \in 1 .. 5 :
                 /\ k = 5 \/ value < 128 ^ k
                 /\ k = 1 \/ value >= 128 ^ (k - 1)
    IN  [i \in 1 .. n |-> ((value \div 128 ^ (i - 1)) % 128) + (IF i < n THEN 128 ELSE 0)]

Encode(numbers) == FlattenSeq([i \in DOMAIN numbers |-> EncodeUnsignedLeb128(numbers[i])])

\* art::DecodeUnsignedLeb128 at an offset: the value and the offset behind it.
DecodeUnsignedLeb128(bytes, at) ==
    LET n == CHOOSE k \in 1 .. 5 :
                 /\ k = 5 \/ bytes[at + k - 1] < 128
                 /\ \A i \in 1 .. k - 1 : bytes[at + i - 1] >= 128
        value[i \in 0 .. n] ==
            IF i = 0 THEN 0 ELSE value[i - 1] + (bytes[at + i - 1] % 128) * 128 ^ (i - 1)
    IN  [value |-> value[n], next |-> at + n]

\* n numbers in a row.
Decode(bytes, at, n) ==
    LET cursor[i \in 0 .. n] ==
            IF i = 0 THEN [value |-> 0, next |-> at]
                     ELSE DecodeUnsignedLeb128(bytes, cursor[i - 1].next)
    IN  [i \in 1 .. n |-> cursor[i].value]

----------------------------------------------------------------------------
(* The original file *)

DbSum(f) == FoldLeft(+, 0, f)

DbClassIdx(i) == 7 * i

\* Methods of a file are numbered through all classes.
DbMethodIdx(i, j) == 130 * i + 3 * j

DbFlags == 65537

DbMethodCount == DbSum([i \in DOMAIN dbClasses |-> Len(dbClasses[i].codes)])
DbFieldCount == DbSum([i \in DOMAIN dbClasses |-> dbClasses[i].fields])

\* The sections of index data: how many entries, and the bytes of one.
DbSections == << <<"string_ids", 2, 4>>, <<"type_ids", Len(dbClasses), 4>>,
                 <<"proto_ids", 1, 12>>, <<"field_ids", DbFieldCount, 8>>,
                 <<"method_ids", DbMethodCount, 8>>, <<"class_defs", Len(dbClasses), 32>> >>

\* Where section s lies in a DEX file, and for s = 7 where data begin.
DbSectionOff(s) == 112 + DbSum([i \in 1 .. s - 1 |-> DbSections[i][2] * DbSections[i][3]])

DbDataOff == DbSectionOff(7)

\* Code items come first, then class data.
DbOrigCodes ==
    LET before(i, j) ==
            DbSum([k \in 1 .. i - 1 |-> DbSum(dbClasses[k].codes)])
            + DbSum(SubSeq(dbClasses[i].codes, 1, j - 1))
    IN  [i \in DOMAIN dbClasses |->
            [j \in DOMAIN dbClasses[i].codes |->
                IF dbClasses[i].codes[j] = 0 THEN 0 ELSE DbDataOff + before(i, j)]]

\* The numbers of a class data item; codeOffs are its methods' code offsets.
DbNumbers(i, direct, codeOffs) ==
    LET delta(j) == IF j = 1 THEN DbMethodIdx(i, 1) ELSE 3
    IN  <<dbClasses[i].fields, 0, direct, 0>>
        \o FlattenSeq([j \in 1 .. dbClasses[i].fields |-> <<1, DbFlags>>])
        \o FlattenSeq([j \in DOMAIN codeOffs |-> <<delta(j), DbFlags, codeOffs[j]>>])

DbOrigData(i) == Encode(DbNumbers(i, Len(dbClasses[i].codes), DbOrigCodes[i]))

DbOrigDataOff(i) ==
    DbDataOff + DbSum([k \in DOMAIN dbClasses |-> DbSum(dbClasses[k].codes)])
    + DbSum([k \in 1 .. i - 1 |-> Len(DbOrigData(k))])

DbSize == DbOrigDataOff(Len(dbClasses) + 1) + dbPad

\* The bytes of a sequence laid down at an offset.
DbAt(off, s) == [o \in off .. off + Len(s) - 1 |-> s[o - off + 1]]

DbOverlay(f, g) == [o \in DOMAIN f \union DOMAIN g |-> IF o \in DOMAIN g THEN g[o] ELSE f[o]]

DbInit ==
    /\ dbClasses \in UNION {[1 .. n -> DbClassKinds] : n \in 1 .. DbClassCount}
    /\ dbPad \in DbPads
    /\ dbTampered \in SUBSET {"offs", "data_off"}
    /\ dbStep = "build"
    /\ dbNext = 1
    /\ dbItems = <<>>
    /\ dbCodeMap = {}
    /\ dbCodeLen = 0
    /\ dbCodeAddr = 0
    /\ dbClassAddr = 0
    /\ dbEnd = 0
    /\ dbClassMap = {}
    /\ dbBytes = <<>>
    /\ dbCodes = {}
    /\ dbDefs = <<>>
    /\ dbHeader = <<>>

\* One turn of the loop of build_dex: a class that is loaded meets the empty
\* build_ClassDataItem, a bypassed one nothing.
DbSkipClass ==
    /\ dbStep = "build" /\ dbNext =< Len(dbClasses)
    /\ dbClasses[dbNext].how \in {"loaded", "bypassed"}
    /\ dbNext' = dbNext + 1
    /\ UNCHANGED <<dbIn, dbStep, dbItems, dbCodeMap, dbCodeLen, dbCodeAddr, dbClassAddr,
                   dbEnd, dbClassMap, dbImage>>

\* build_ClassDataItem2 for a class that FindClass does not find: its code items go to
\* code_item_seg, its class data to class_data_items, without methods if that has failed.
build_ClassDataItem2 ==
    LET c == dbClasses[dbNext]
        methods == IF c.how = "failing" THEN {} ELSE DOMAIN c.codes
        off(j) == dbCodeLen + DbSum(SubSeq(c.codes, 1, j - 1))
    IN  /\ dbStep = "build" /\ dbNext =< Len(dbClasses)
        /\ c.how \in {"unloaded", "failing"}
        /\ dbItems' = Append(dbItems, [class |-> dbNext, direct |-> Len(c.codes),
                                       methods |-> Len(c.codes) * (IF methods = {} THEN 0 ELSE 1)])
        /\ dbCodeMap' = dbCodeMap \union
                            {<<DbMethodIdx(dbNext, j), off(j)>> : j \in {k \in methods : c.codes[k] > 0}}
        /\ dbCodeLen' = IF methods = {} THEN dbCodeLen ELSE off(Len(c.codes) + 1)
        /\ dbNext' = dbNext + 1
        /\ UNCHANGED <<dbIn, dbStep, dbCodeAddr, dbClassAddr, dbEnd, dbClassMap, dbImage>>

\* Mutant of DbAligned: without the alignment.
DbUnaligned(size) == size

DbAligned(size) == IF size % 16 /= 0 THEN size + (16 - (size % 16)) ELSE size

\* The original image, header included; code goes behind it, 16 bytes aligned.
copy_DEX_data ==
    /\ dbStep = "build" /\ dbNext > Len(dbClasses)
    /\ dbStep' = "code"
    /\ dbBytes' = FoldLeft(DbOverlay, <<>>,
                           [i \in DOMAIN dbClasses |-> DbAt(DbOrigDataOff(i), DbOrigData(i))])
    /\ dbCodes' = UNION {{[off |-> DbOrigCodes[i][j], method |-> DbMethodIdx(i, j), new |-> FALSE] :
                              j \in {k \in DOMAIN dbClasses[i].codes : dbClasses[i].codes[k] > 0}} :
                          i \in DOMAIN dbClasses}
    /\ dbDefs' = [i \in DOMAIN dbClasses |-> DbOrigDataOff(i)]
    /\ dbHeader' = [offs |-> [s \in 1 .. 6 |-> IF "offs" \in dbTampered THEN 0 ELSE DbSectionOff(s)],
                    file_size |-> DbSize]
    /\ dbEnd' = DbAligned(DbSize)
    /\ UNCHANGED <<dbIn, dbBuilt, dbCodeAddr, dbClassAddr, dbClassMap>>

copy_code_items ==
    /\ dbStep = "code"
    /\ dbStep' = "class_data"
    /\ dbCodeAddr' = dbEnd
    /\ dbCodes' = dbCodes \union
                      {[off |-> dbEnd + m[2], method |-> m[1], new |-> TRUE] : m \in dbCodeMap}
    /\ dbEnd' = dbEnd + dbCodeLen
    /\ UNCHANGED <<dbIn, dbBuilt, dbClassAddr, dbClassMap, dbBytes, dbDefs, dbHeader>>

\* What encode writes for the k-th item: code offsets moved to where the code items are, and
\* no methods announced if none were collected.
DbItemBytes(k) ==
    LET i == dbItems[k].class
        codeOff(j) ==
            IF \E m \in dbCodeMap : m[1] = DbMethodIdx(i, j)
            THEN dbCodeAddr + (CHOOSE m \in dbCodeMap : m[1] = DbMethodIdx(i, j))[2]
            ELSE DbOrigCodes[i][j]
    IN  Encode(DbNumbers(i, IF dbItems[k].methods = 0 THEN 0 ELSE dbItems[k].direct,
                         [j \in 1 .. dbItems[k].methods |-> codeOff(j)]))

\* Mutant of DbItemOffset: the offset is taken after target has moved on.
DbItemOffsetAfter(k) == DbSum([l \in 1 .. k |-> Len(DbItemBytes(l))])

\* The offset recorded for the k-th item is taken before target moves on.
DbItemOffset(k) == DbSum([l \in 1 .. k - 1 |-> Len(DbItemBytes(l))])

copy_class_data_items ==
    /\ dbStep = "class_data"
    /\ dbStep' = "header"
    /\ dbClassAddr' = dbEnd
    /\ dbBytes' = FoldLeft(DbOverlay, dbBytes,
                           [k \in DOMAIN dbItems |-> DbAt(dbEnd + DbItemOffset(k), DbItemBytes(k))])
    /\ dbClassMap' = {<<DbClassIdx(dbItems[k].class), DbItemOffset(k)>> : k \in DOMAIN dbItems}
    /\ dbEnd' = dbEnd + DbSum([k \in DOMAIN dbItems |-> Len(DbItemBytes(k))])
    /\ UNCHANGED <<dbIn, dbBuilt, dbCodeAddr, dbCodes, dbDefs, dbHeader>>

\* set_dex_size, then repair_Header: offsets computed from the sizes in the header in memory,
\* used only if they end at data_off_.
repair_Header ==
    LET data_off == IF "data_off" \in dbTampered THEN 0 ELSE DbDataOff
        addr[s \in 1 .. 7] ==
            IF s = 1 THEN 112 ELSE addr[s - 1] + DbSections[s - 1][2] * DbSections[s - 1][3]
    IN  /\ dbStep = "header"
        /\ dbStep' = "class_defs"
        /\ dbHeader' = [offs |-> IF addr[7] = data_off THEN [s \in 1 .. 6 |-> addr[s]]
                                                       ELSE dbHeader.offs,
                        file_size |-> dbEnd]
        /\ UNCHANGED <<dbIn, dbBuilt, dbCodeAddr, dbClassAddr, dbEnd, dbClassMap, dbBytes,
                       dbCodes, dbDefs>>

repair_ClassDefs ==
    LET recorded(i) == {m \in dbClassMap : m[1] = DbClassIdx(i)}
    IN  /\ dbStep = "class_defs"
        /\ dbStep' = "written"
        /\ dbDefs' = [i \in DOMAIN dbDefs |->
                         IF recorded(i) = {} THEN dbDefs[i]
                         ELSE dbClassAddr + (CHOOSE m \in recorded(i) : TRUE)[2]]
        /\ UNCHANGED <<dbIn, dbBuilt, dbCodeAddr, dbClassAddr, dbEnd, dbClassMap, dbBytes,
                       dbCodes, dbHeader>>

DbNextStep ==
    \/ DbSkipClass \/ build_ClassDataItem2
    \/ copy_DEX_data \/ copy_code_items \/ copy_class_data_items
    \/ repair_Header \/ repair_ClassDefs

DbSpec == DbInit /\ [][DbNextStep]_dbVars

----------------------------------------------------------------------------

\* The image stays within calloc(Size, 2), the code items within their segment of Size bytes,
\* although longer offsets make the class data grow; collected code is aligned to four bytes
\* behind the original data, and file_size_ is what write_file is given.
DbLayout ==
    (dbStep = "written") =>
        /\ dbCodeLen =< DbSize
        /\ dbEnd =< 2 * DbSize
        /\ \A c \in dbCodes : c.new => c.off >= DbSize /\ c.off % 4 = 0
        /\ dbHeader.file_size = dbEnd

\* A reader of the file that write_file stores finds every class, also if a packer has wiped
\* the offsets (but not the sizes and data_off_) from the header: class_defs_off_ leads to the
\* definitions that repair_ClassDefs has written; at class_data_off_ it decodes the class's own
\* fields and methods, and every method that has code leads to the beginning of that method's
\* code, to the collected one if the class was rebuilt.  Classes whose methods could not be
\* collected read as classes without methods.  The image is laid out as its buffers are.
DbClassesRead ==
    /\ DbLayout
    /\ (dbStep = "written" /\ "data_off" \notin dbTampered) =>
           /\ dbHeader.offs[6] = DbSectionOff(6)
           /\ \A i \in DOMAIN dbClasses :
               LET c == dbClasses[i]
                   n == IF c.how = "failing" THEN 0 ELSE Len(c.codes)
                   read == Decode(dbBytes, dbDefs[i], 4 + 2 * c.fields + 3 * n)
                   code(j) == read[4 + 2 * c.fields + 3 * j]
               IN  /\ read = DbNumbers(i, n, [j \in 1 .. n |-> code(j)])
                   /\ \A j \in 1 .. n :
                         IF c.codes[j] = 0 THEN code(j) = 0
                         ELSE [off |-> code(j), method |-> DbMethodIdx(i, j),
                               new |-> c.how = "unloaded"] \in dbCodes
================================================================================
