------------------------------- MODULE Unpack -------------------------------
(***************************************************************************)
(* The DEX dumping hook at the head of ArtMethod::Invoke                   *)
(* (runtime/art_method.cc) with the filter and the globals it shares       *)
(* between all threads of the process (runtime/gerat).                     *)
(*                                                                         *)
(* No lock protects the filter, dex_addrs or started, so every read and    *)
(* every write of them is a step of its own.  A thread that is inside the  *)
(* class traversal of level 2 or level 3 runs class loaders and class      *)
(* initialisers, which call Invoke again on the same thread: a thread has  *)
(* a stack of activations, stack[t], the last of which runs.               *)
(*                                                                         *)
(* std::call_once(filter_inited, init) has completed whenever `started' is *)
(* read, so the filter always exists; its force_init_flag, rebuild_flag    *)
(* and mode have no initialiser and start with any value.                  *)
(***************************************************************************)
EXTENDS Naturals, Sequences, FiniteSets

CONSTANTS
    Threads,        \* the threads of the process
    Dexes,          \* the DexFile objects that methods belong to
    Names,          \* component names that unpack.txt may hold
    NoName,         \* the empty string
    Strings,        \* Strings[d]: what FindStringId finds in d
    ImageSize,      \* ImageSize[d, l]: bytes written for d at level l
    Configs,        \* contents that unpack.txt may be given
    NoFile,         \* unpack.txt is not there
    NumClassDefs,   \* classes that a traversal visits
    MaxDepth,       \* bound: nested activations of Invoke on a thread
    MaxCalls,       \* bound: activations of Invoke in a behaviour
    MaxRestarts,    \* bound: deaths and restarts of the process
    DiskFaults      \* TRUE: open(2) may fail, write(2) may not write everything

Levels  == 1 .. 3
Methods == {"", "dump", "force-dump", "force-rebuild"}
Modes   == {"black", "white"}
Words   == {"", "black", "white"}

Classes == 0 .. NumClassDefs - 1

ConfigType == [name : Names \cup {NoName}, method : Methods, mode : Words]
Sizes      == {ImageSize[x] : x \in Dexes \X Levels}
Nums       == 0 .. MaxCalls

ASSUME UnpackAssumption ==
    /\ NoName \notin Names
    /\ Strings \in [Dexes -> SUBSET (Names \cup {NoName})]
    /\ ImageSize \in [Dexes \X Levels -> Nat]
    /\ Configs \subseteq ConfigType
    /\ NoFile \notin ConfigType
    /\ {NumClassDefs, MaxCalls, MaxRestarts} \subseteq Nat
    /\ MaxDepth \in Nat \ {0}
    /\ DiskFaults \in BOOLEAN

(***************************************************************************)
(* An activation of Invoke.  dex is the method's DexFile; fin is what the  *)
(* opened unpack.txt holds; todo counts the classes still to be visited,   *)
(* which are numbered downwards; image is the state of every class's code  *)
(* in the copy that is to be written; num is the number taken from         *)
(* dex_num.  Two fields are history: inited, the classes that              *)
(* EnsureInitialized has initialised for this activation, and missed, that *)
(* open(O_RDONLY) has failed for a file that is there.                     *)
(***************************************************************************)
Pcs == {"start", "check_flag", "open", "name", "test_name", "set_flag",
        "method", "store_method", "classify", "clear_force", "set_force",
        "set_rebuild", "mode", "store_mode", "set_mode", "reset_force",
        "reset_flag", "get_flag", "get_force", "get_lists", "get_rebuild",
        "lookup", "find", "insert", "set_started", "traverse", "init",
        "number", "probe", "create", "write", "body"}

CodeState == {"packed", "restored"}
Image     == [Classes -> CodeState]
Packed    == [c \in Classes |-> "packed"]

Frame == [pc : Pcs, dex : Dexes, fin : ConfigType \cup {NoFile},
          level : Levels, todo : 0 .. NumClassDefs, image : Image,
          num : Nums, inited : SUBSET Classes, missed : BOOLEAN]

NewFrame(d) == [pc |-> "start", dex |-> d, fin |-> NoFile, level |-> 1,
                todo |-> 0, image |-> Packed, num |-> 0, inited |-> {},
                missed |-> FALSE]

VARIABLES
    file,       \* unpack.txt
    filter,     \* the KarlGeratUFilter object
    lists,      \* which name list read_list_files has read
    started,    \* gerat::started
    dex_addrs,  \* gerat::dex_addrs
    dex_num,    \* gerat::dex_num
    stack,      \* stack[t]: the nested activations of Invoke on thread t
    code,       \* code[d][c]: is class c of d still packed in memory?
    disk,       \* disk[n, s]: the file dumped_classes<n>_<s>.dex; its run is
                \* the number of the process that wrote it
    calls,      \* activations so far (bounded by MaxCalls)
    restarts,   \* restarts so far (bounded by MaxRestarts)
    dumps       \* history: <<number, dex, level>> taken by this process

vars == <<file, filter, lists, started, dex_addrs, dex_num, stack, code,
          disk, calls, restarts, dumps>>
globals == <<started, dex_addrs, dex_num, dumps>>
environment == <<file, code, calls, restarts>>

FilterType == [flag : BOOLEAN, name : Names \cup {NoName},
               method : Methods, force : BOOLEAN, rebuild : BOOLEAN,
               word : Words, mode : Modes]

Absent == [data |-> "absent"]
DumpFile == {Absent} \cup
    [data : {"empty", "torn", "full"}, dex : Dexes, image : Image,
     inited : SUBSET Classes, run : 0 .. MaxRestarts]

\* What check_flag sees in a filter that has just been allocated.
FreshFilters == {f \in FilterType : /\ ~f.flag /\ f.name = NoName
                                    /\ f.method = "" /\ f.word = ""}

Init ==
    /\ file \in Configs \cup {NoFile}
    /\ filter \in FreshFilters
    /\ lists = "unread"
    /\ started = FALSE
    /\ dex_addrs = {}
    /\ dex_num = 0
    /\ stack = [t \in Threads |-> <<>>]
    /\ code = [d \in Dexes |-> Packed]
    /\ disk = [k \in Nums \X Sizes |-> Absent]
    /\ calls = 0
    /\ restarts = 0
    /\ dumps = {}
-----------------------------------------------------------------------------
(* Stepping the running activation of a thread. *)

Top(t)    == stack[t][Len(stack[t])]
At(t, pc) == stack[t] # <<>> /\ Top(t).pc = pc

\* The running activation of t becomes f.
SetTop(t, f) == stack' = [stack EXCEPT ![t][Len(stack[t])] = f]
Goto(t, pc)  == SetTop(t, [Top(t) EXCEPT !.pc = pc])

\* A test of shared state: nothing but the activation changes.
Branch(t, from, cond, yes, no) ==
    /\ At(t, from)
    /\ Goto(t, IF cond THEN yes ELSE no)
    /\ UNCHANGED <<environment, filter, lists, globals, disk>>

\* A store to one field of the filter.
Store(t, from, to, f) ==
    /\ At(t, from)
    /\ filter' = f
    /\ Goto(t, to)
    /\ UNCHANGED <<environment, lists, globals, disk>>
-----------------------------------------------------------------------------
(* ArtMethod::Invoke up to the filter. *)

\* The application calls a method of d.
Invoke(t) ==
    /\ stack[t] = <<>>
    /\ calls < MaxCalls
    /\ calls' = calls + 1
    /\ \E d \in Dexes : stack' = [stack EXCEPT ![t] = <<NewFrame(d)>>]
    /\ UNCHANGED <<file, code, restarts, filter, lists, globals, disk>>

\* if (!gerat::started)
TestStarted(t) == Branch(t, "start", started, "body", "check_flag")

(* KarlGeratUFilter::check_flag. *)

\* if (this->flag) return;
TestFlag(t) == Branch(t, "check_flag", filter.flag, "get_flag", "open")

\* std::ifstream fin(config_file): get_apk_dir() + "/unpack.txt".  A word that
\* is missing in the file fails the extraction before it clears its target.
OpenConfig(t) ==
    /\ At(t, "open")
    /\ SetTop(t, [Top(t) EXCEPT !.fin = file,
                     !.pc = IF file = NoFile THEN "reset_force"
                            ELSE IF file.name = NoName THEN "test_name"
                            ELSE "name"])
    /\ filter' = [filter EXCEPT !.name =
                     IF file = NoFile \/ file.name = NoName THEN @ ELSE NoName]
    /\ UNCHANGED <<environment, lists, globals, disk>>

\* fin >> component_name: the shared string is emptied (above), then refilled.
\* Another thread that copies it in between finds the empty string.
ReadName(t) ==
    Store(t, "name", "test_name", [filter EXCEPT !.name = Top(t).fin.name])

TestName(t) ==
    Branch(t, "test_name", filter.name # NoName, "set_flag", "reset_force")

\* this->flag = true, before the rest of the file has been read
SetFlag(t) == Store(t, "set_flag", "method", [filter EXCEPT !.flag = TRUE])

\* fin >> dump_method_str, again in two steps
ClearMethod(t) ==
    Store(t, "method", "store_method",
          [filter EXCEPT !.method = IF Top(t).fin.method = "" THEN @ ELSE ""])

ReadMethod(t) ==
    Store(t, "store_method", "classify",
          [filter EXCEPT !.method =
              IF Top(t).fin.method = "" THEN @ ELSE Top(t).fin.method])

TestMethod(t) ==
    Branch(t, "classify", filter.method \in {"force-dump", "force-rebuild"},
           "set_force", "clear_force")

ClearForce(t) ==
    Store(t, "clear_force", "get_flag", [filter EXCEPT !.force = FALSE])

SetForce(t) ==
    Store(t, "set_force", "set_rebuild", [filter EXCEPT !.force = TRUE])

\* Mutant of SetRebuild: no store for "force-dump".
SetRebuildNoElse(t) ==
    Store(t, "set_rebuild", "mode",
          [filter EXCEPT !.rebuild = @ \/ filter.method = "force-rebuild"])

SetRebuild(t) ==
    Store(t, "set_rebuild", "mode",
          [filter EXCEPT !.rebuild = (filter.method = "force-rebuild")])

\* fin >> mode_str
ClearMode(t) ==
    Store(t, "mode", "store_mode",
          [filter EXCEPT !.word = IF Top(t).fin.mode = "" THEN @ ELSE ""])

ReadMode(t) ==
    Store(t, "store_mode", "set_mode",
          [filter EXCEPT !.word =
              IF Top(t).fin.mode = "" THEN @ ELSE Top(t).fin.mode])

\* Mutant of SetMode: no default for a missing word.
SetModeNoDefault(t) ==
    Store(t, "set_mode", "get_flag",
          [filter EXCEPT !.mode = IF filter.word = "" THEN @ ELSE filter.word])

\* Anything but "white" selects the black list.
SetMode(t) ==
    Store(t, "set_mode", "get_flag",
          [filter EXCEPT !.mode =
              IF filter.word = "white" THEN "white" ELSE "black"])

\* No file, or no component name in it.
ResetForce(t) ==
    Store(t, "reset_force", "reset_flag", [filter EXCEPT !.force = FALSE])

ResetFlag(t) ==
    Store(t, "reset_flag", "get_flag", [filter EXCEPT !.flag = FALSE])

\* Filter::get_flag: return flag;
GetFlag(t) == Branch(t, "get_flag", filter.flag, "get_force", "body")
-----------------------------------------------------------------------------
(* The choice of the level in ArtMethod::Invoke. *)

GetForce(t) ==
    /\ At(t, "get_force")
    /\ SetTop(t, [Top(t) EXCEPT !.level = 1,
                     !.pc = IF filter.force THEN "get_lists" ELSE "lookup"])
    /\ UNCHANGED <<environment, filter, lists, globals, disk>>

\* std::call_once(unpack_mode_file_checked, read_list_files): the list that is
\* read, once in the life of the process, is the one mode selects now.
ReadLists(t) ==
    /\ At(t, "get_lists")
    /\ lists' = IF lists = "unread" THEN filter.mode ELSE lists
    /\ Goto(t, "get_rebuild")
    /\ UNCHANGED <<environment, filter, globals, disk>>

GetRebuild(t) ==
    /\ At(t, "get_rebuild")
    /\ SetTop(t, [Top(t) EXCEPT !.pc = "lookup",
                                !.level = IF filter.rebuild THEN 3 ELSE 2])
    /\ UNCHANGED <<environment, filter, lists, globals, disk>>
-----------------------------------------------------------------------------
(* dump_dex (level 1), dump_dex_after_init (level 2), build_dex (level 3). *)

\* FindStringId(component_name) and, at level 3, the search for the descriptor
\* of the method's class in the component name, which succeeds for the methods
\* of some classes (entry) and never in the empty name.
Wanted(f, name, entry) ==
    /\ name \in Strings[f.dex]
    /\ f.level = 3 => entry /\ name # NoName

LookUp(t) ==
    \E entry \in BOOLEAN :
        Branch(t, "lookup", Wanted(Top(t), filter.name, entry), "find", "body")

\* dex_addrs.find(dex_file)
Find(t) == Branch(t, "find", Top(t).dex \in dex_addrs, "body", "insert")

\* dex_addrs.insert(dex_file), followed by the copy of the image except at
\* level 3.  std::set is not thread safe: of two inserts that overlap, the
\* first may be lost.
AfterInsert(f) ==
    [f EXCEPT !.pc = CASE f.level = 1 -> "number"
                       [] f.level = 2 -> "traverse"
                       [] f.level = 3 -> "set_started",
              !.todo = IF f.level = 1 THEN 0 ELSE NumClassDefs,
              !.image = code[f.dex]]

Insert(t) ==
    /\ At(t, "insert")
    /\ \/ dex_addrs' = dex_addrs \cup {Top(t).dex}
       \/ /\ \E u \in Threads \ {t} : At(u, "insert")
          /\ UNCHANGED dex_addrs
    /\ SetTop(t, AfterInsert(Top(t)))
    /\ UNCHANGED <<environment, filter, lists, started, dex_num, dumps, disk>>

\* Mutant of SetStarted: the flag is not set.
SetStartedNot(t) ==
    /\ At(t, "set_started")
    /\ Goto(t, "traverse")
    /\ UNCHANGED <<environment, filter, lists, globals, disk>>

\* gerat::set_started_flag(), level 3 only
SetStarted(t) ==
    /\ At(t, "set_started")
    /\ started' = TRUE
    /\ Goto(t, "traverse")
    /\ UNCHANGED <<environment, filter, lists, dex_addrs, dex_num, dumps, disk>>

\* One class of the traversal: ResolveMethod (level 2); or, unless
\* should_initialize finds it bypassed, FindClass and EnsureInitialized
\* (level 3).  They may run a class loader or a class initialiser, which
\* invokes a method of any DEX file on this thread.
VisitClass(t) ==
    /\ At(t, "traverse")
    /\ Top(t).todo > 0
    /\ LET next == IF Top(t).level = 3 THEN "init" ELSE "traverse"
           visit(to) == [stack[t] EXCEPT ![Len(stack[t])] =
                            [Top(t) EXCEPT !.todo = @ - 1, !.pc = to]]
       IN  \/ /\ \E to \in {"traverse", next} :
                    stack' = [stack EXCEPT ![t] = visit(to)]
              /\ UNCHANGED calls
           \/ /\ Len(stack[t]) < MaxDepth
              /\ calls < MaxCalls
              /\ calls' = calls + 1
              /\ \E d \in Dexes :
                    stack' = [stack EXCEPT ![t] = Append(visit(next), NewFrame(d))]
    /\ UNCHANGED <<file, code, restarts, filter, lists, globals, disk>>

\* FindClass and EnsureInitialized have returned.  A class that is not found,
\* or whose initialisation fails, is passed over; an initialised one has been
\* restored by the application.  build_ClassDataItem has an empty body, and
\* build_ClassDataItem2 none.
InitClass(t) ==
    /\ At(t, "init")
    /\ LET f == Top(t)
       IN  \/ Goto(t, "traverse") /\ UNCHANGED code
           \/ /\ code' = [code EXCEPT ![f.dex][f.todo] = "restored"]
              /\ SetTop(t, [f EXCEPT !.pc = "traverse",
                                     !.inited = @ \cup {f.todo}])
    /\ UNCHANGED <<file, calls, restarts, filter, lists, globals, disk>>

\* Mutant of EndTraversal: level 3 keeps the image taken before, like level 2.
EndTraversalOldImage(t) ==
    /\ At(t, "traverse")
    /\ Top(t).todo = 0
    /\ Goto(t, "number")
    /\ UNCHANGED <<environment, filter, lists, globals, disk>>

\* The end of the traversal.  Level 3 takes its image of the DEX file only now
\* (copy_DEX_data); level 2 keeps the image it took before the traversal.
EndTraversal(t) ==
    /\ At(t, "traverse")
    /\ Top(t).todo = 0
    /\ SetTop(t, [Top(t) EXCEPT !.pc = "number",
                     !.image = IF Top(t).level = 3 THEN code[Top(t).dex] ELSE @])
    /\ UNCHANGED <<environment, filter, lists, globals, disk>>
-----------------------------------------------------------------------------
(* ArtMethod::write_file. *)

DumpName(f) == <<f.num, ImageSize[f.dex, f.level]>>

\* Mutant of TakeNumber: dex_num is a plain int, so an increment may be lost.
TakeNumberRacy(t) ==
    /\ At(t, "number")
    /\ dex_num < MaxCalls
    /\ dex_num' \in {dex_num, dex_num + 1}
    /\ SetTop(t, [Top(t) EXCEPT !.pc = "probe", !.num = dex_num])
    /\ dumps' = dumps \cup {<<dex_num, Top(t).dex, Top(t).level>>}
    /\ UNCHANGED <<environment, filter, lists, started, dex_addrs, disk>>

\* gerat::dex_num++, atomic.  An activation takes one number at most, so that
\* the bound on dex_num is never reached before the one on calls.
TakeNumber(t) ==
    /\ At(t, "number")
    /\ dex_num < MaxCalls
    /\ dex_num' = dex_num + 1
    /\ SetTop(t, [Top(t) EXCEPT !.pc = "probe", !.num = dex_num])
    /\ dumps' = dumps \cup {<<dex_num, Top(t).dex, Top(t).level>>}
    /\ UNCHANGED <<environment, filter, lists, started, dex_addrs, disk>>

\* Mutant of Probe: no test for an existing file.
ProbeIgnored(t) == Branch(t, "probe", FALSE, "body", "create")

\* open(O_RDONLY): a file of that name is left as it is.  Every failure is
\* taken for a file that is not there.
Probe(t) ==
    /\ At(t, "probe")
    /\ LET there == disk[DumpName(Top(t))] # Absent
       IN  \/ there /\ Goto(t, "body")
           \/ ~there /\ Goto(t, "create")
           \/ /\ there /\ DiskFaults
              /\ SetTop(t, [Top(t) EXCEPT !.pc = "create", !.missed = TRUE])
    /\ UNCHANGED <<environment, filter, lists, globals, disk>>

\* The file that activation f makes, as far as data says.
Contents(f, data) == [data |-> data, dex |-> f.dex, image |-> f.image,
                      inited |-> f.inited, run |-> restarts]

\* Mutant of CreateDump: takes a valid descriptor for a failed open.
CreateDumpLeaks(t) ==
    /\ At(t, "create")
    /\ disk' = [disk EXCEPT ![DumpName(Top(t))] = Contents(Top(t), "empty")]
    /\ Goto(t, "write") \/ Goto(t, "body")
    /\ UNCHANGED <<environment, filter, lists, globals>>

\* open(O_CREAT | O_RDWR), which keeps what a file holds that is there
CreateDump(t) ==
    /\ At(t, "create")
    /\ LET k == DumpName(Top(t))
       IN  \/ /\ disk' = IF disk[k] = Absent
                         THEN [disk EXCEPT ![k] = Contents(Top(t), "empty")]
                         ELSE disk
              /\ Goto(t, "write")
           \/ DiskFaults /\ Goto(t, "body") /\ UNCHANGED disk
    /\ UNCHANGED <<environment, filter, lists, globals>>

\* write(2) and fsync(2), whose results are ignored: a failing disk takes a part
\* of the image or nothing
WriteDump(t) ==
    /\ At(t, "write")
    /\ \/ \E data \in {"full"} \cup (IF DiskFaults THEN {"torn"} ELSE {}) :
             disk' = [disk EXCEPT ![DumpName(Top(t))] = Contents(Top(t), data)]
       \/ DiskFaults /\ UNCHANGED disk
    /\ Goto(t, "body")
    /\ UNCHANGED <<environment, filter, lists, globals>>

\* The rest of Invoke runs the method itself, which may be the code of a
\* protected application that restores classes of its DEX file.
RunBody(t) ==
    /\ At(t, "body")
    /\ stack' = [stack EXCEPT ![t] = SubSeq(@, 1, Len(@) - 1)]
    /\ \E R \in SUBSET Classes :
          code' = [code EXCEPT ![Top(t).dex] =
                      [c \in Classes |-> IF c \in R THEN "restored" ELSE @[c]]]
    /\ UNCHANGED <<file, calls, restarts, filter, lists, globals, disk>>
-----------------------------------------------------------------------------
(* The environment. *)

\* The user puts unpack.txt in place.
WriteConfig ==
    /\ file = NoFile
    /\ file' \in Configs
    /\ UNCHANGED <<code, calls, restarts, filter, lists, globals, stack, disk>>

\* The process dies at any point and is started again; files survive.
Restart ==
    /\ restarts < MaxRestarts
    /\ restarts' = restarts + 1
    /\ filter' \in FreshFilters
    /\ lists' = "unread"
    /\ started' = FALSE
    /\ dex_addrs' = {}
    /\ dex_num' = 0
    /\ dumps' = {}
    /\ stack' = [t \in Threads |-> <<>>]
    /\ code' = [d \in Dexes |-> Packed]
    /\ UNCHANGED <<file, disk, calls>>

CheckFlag(t) ==
    \/ TestFlag(t) \/ OpenConfig(t) \/ ReadName(t) \/ TestName(t) \/ SetFlag(t)
    \/ ClearMethod(t) \/ ReadMethod(t) \/ TestMethod(t) \/ ClearForce(t)
    \/ SetForce(t) \/ SetRebuild(t) \/ ClearMode(t) \/ ReadMode(t)
    \/ SetMode(t) \/ ResetForce(t) \/ ResetFlag(t)

Unpacking(t) ==
    \/ LookUp(t) \/ Find(t) \/ Insert(t) \/ SetStarted(t) \/ VisitClass(t)
    \/ InitClass(t) \/ EndTraversal(t) \/ TakeNumber(t) \/ Probe(t)
    \/ CreateDump(t) \/ WriteDump(t)

\* Every step of a thread that is inside Invoke.
Run(t) ==
    \/ TestStarted(t) \/ CheckFlag(t) \/ GetFlag(t) \/ GetForce(t)
    \/ ReadLists(t) \/ GetRebuild(t) \/ Unpacking(t) \/ RunBody(t)

Next ==
    \/ \E t \in Threads : Invoke(t) \/ Run(t)
    \/ WriteConfig
    \/ Restart

Spec == Init /\ [][Next]_vars
-----------------------------------------------------------------------------
(* Properties. *)

\* The type invariant of the hook's shared state and of every activation.
TypeOK ==
    /\ file \in Configs \cup {NoFile}
    /\ filter \in FilterType
    /\ lists \in {"unread"} \cup Modes
    /\ started \in BOOLEAN
    /\ dex_addrs \subseteq Dexes
    /\ dex_num \in Nums
    /\ stack \in [Threads -> Seq(Frame)]
    /\ code \in [Dexes -> Image]
    /\ disk \in [Nums \X Sizes -> DumpFile]
    /\ calls \in 0 .. MaxCalls
    /\ restarts \in 0 .. MaxRestarts
    /\ dumps \subseteq Nums \X Dexes \X Levels

\* The level that unpack.txt asks for (comment in check_flag).
LevelOf(c) == CASE c.method = "force-rebuild" -> 3
                [] c.method = "force-dump"    -> 2
                [] OTHER                      -> 1

\* Every dump is made at the level that unpack.txt asks for: check_flag's
\* stores to flag, force_init_flag and rebuild_flag and Invoke's reads of them
\* select dump_dex, dump_dex_after_init or build_dex as configured.
DumpsKeepLevel ==
    \A x \in dumps : file # NoFile /\ x[3] = LevelOf(file)

\* The list file that read_list_files has read, once for the whole process, is
\* the one that the mode word of unpack.txt names.
ListsMatchMode ==
    lists # "unread" =>
        /\ file # NoFile
        /\ lists = IF file.mode = "white" THEN "white" ELSE "black"

\* dex_addrs does what "Check if this DEX is already dumped" says: a process
\* never takes two file numbers for one DEX file.  Two threads that both find
\* it missing refute this.
DumpedAtMostOnce ==
    \A x, y \in dumps : x[2] = y[2] => x = y

\* At level 3 `started' stops a nested activation at its first test, whatever
\* the other threads do: it never even looks at the filter.
RebuildIsNotRecursive ==
    \A t \in Threads : \A i, j \in 1 .. Len(stack[t]) :
        i < j /\ stack[t][i].level = 3 => stack[t][j].pc \in {"start", "body"}

\* build_dex takes its image after its traversal: in a complete dump every class
\* that FindClass found and EnsureInitialized initialised for it is restored,
\* whatever other threads and nested activations dump meanwhile.  Of bypassed
\* and missing classes and of failing initialisers it promises nothing.
RebuiltIsRestored ==
    \A k \in DOMAIN disk :
        disk[k].data = "full" => \A c \in disk[k].inited : disk[k].image[c] = "restored"

\* No two activations of the process work on the same dump file, although
\* write_file tests for the file, creates and fills it in separate calls.
OneWriterPerDump ==
    \A t, u \in Threads :
        \A i \in 1 .. Len(stack[t]), j \in 1 .. Len(stack[u]) :
            /\ stack[t][i].pc \in {"probe", "create", "write"}
            /\ stack[u][j].pc \in {"probe", "create", "write"}
            /\ DumpName(stack[t][i]) = DumpName(stack[u][j])
            => t = u /\ i = j

\* A complete dump is never touched again by the process that wrote it, by no
\* thread of it; and by a later process, which counts dex_num from 0 again, only
\* after its open(O_RDONLY) has failed although the file was there.
CompleteDumpsStay ==
    [][\A k \in DOMAIN disk : disk[k].data = "full" =>
          \/ disk'[k] = disk[k]
          \/ /\ disk[k].run # restarts
             /\ \E t \in Threads :
                   At(t, "write") /\ Top(t).missed /\ DumpName(Top(t)) = k]_disk

\* A DEX file has been entered in dex_addrs and has no dump.
ClaimedNotDumped ==
    \E d \in dex_addrs :
        ~\E k \in DOMAIN disk : disk[k].data = "full" /\ disk[k].dex = d
=============================================================================
