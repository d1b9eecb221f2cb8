# A TLA+ verification project for Karl Gerät U

Karl Gerät U is a DEX unpacker built into ART, the Android runtime: a hook at the
head of `ArtMethod::Invoke` dumps, or rebuilds, the DEX files of one application
while the application runs.  Its own code is small; it runs on every thread of the
process, inside a runtime whose threads are stopped, resumed and made to run closures
by the collector, the profiler and the debugger, and which it makes initialise every
class of a DEX file.  This project models the hook with all its unsynchronised shared
state, the rebuilding of DEX files, and the parts of the runtime that have a protocol
to get wrong: thread suspension, locks, monitors, class initialisation, and what
surrounds a concurrent collection.

## Inventory

| Part | State | Operations | Hard behaviour | What makes it correct | Module |
|---|---|---|---|---|---|
| DEX dump hook (`art_method.cc`, `gerat/filter`, `gerat/unpack`) | the filter object, `dex_addrs`, `dex_num`, `started`, the list files read, the dump files | `Invoke`, `check_flag`, `read_list_files`, `dump_dex`, `dump_dex_after_init`, `build_dex`, `write_file` | no lock anywhere; nested activations through class loaders; restarts; disk faults | configured level and list are used, racing dumps stay apart, complete dumps survive, rebuilt classes are restored, claimed files get dumped | `Unpack` |
| DEX rebuilding (`art_method.cc`, `gerat/util`, `leb128.h`) | the new image | `build_dex`, `copy_*`, `repair_*`, LEB128 | sizes at boundaries, skipped and failing classes | a reader finds every class and its code | `DexBuilder` (partly) |
| Forced invocation (`interpreter_switch_impl.cc`, `interpreter.cc`) | the body, its hash | `Execute`, `INVOKE_STATIC` | callees that restore code and throw | restored code is reported, not run | `ForcedInvoke` |
| Thread states (`thread-inl.h`, `thread.cc`) | the state-and-flags word, suspend counts, checkpoint slots, flip function | transitions to and from Runnable, suspend check, attach, detach | lock-free CAS against requests | no request is missed; nobody runs inside a pause | `ThreadState` (partly) |
| Suspension (`thread_list.cc`) | `list_`, `suspend_all_count_`, `mutator_lock_` | `SuspendAll`, `ResumeAll`, `SuspendThreadByPeer`, `SuspendThreadByThreadId`, `Resume` | retry loops, timeouts, mutual suspension, exits | counts equal requests; no cycles; no lost wake-up | `ThreadSuspension` |
| Checkpoints, flip, `Barrier` (`thread_list.cc`, `barrier.cc`) | closures per thread, barrier count | `RunCheckpoint`, `RunCheckpointOnRunnableThreads`, `FlipThreadRoots`, `Pass`, `Increment` | closure run by either side | run once, before the barrier opens | `ThreadCheckpoints` |
| Debugger suspension (`thread_list.cc`, `debugger.cc`) | `debug_suspend_count`, the JDWP token | `SuspendAllForDebugger`, `SuspendSelfForDebugger`, `ResumeAllForDebugger`, `UndoDebuggerSuspensions`, `Dbg::ResumeThread` | nesting with the collector's suspensions | neither takes back the other's counts | `ThreadDebugger` (partly) |
| Mutex, ConditionVariable (`base/mutex.cc`) | futex words, contenders, `sequence_` | lock, try, unlock, wait, signal, broadcast | missed futex wake-ups, requeue | implements an abstract lock; nobody is passed over | `FutexMutex` |
| ReaderWriterMutex (`base/mutex.cc`, `mutex-inl.h`) | `state_`, two pending counts | shared and exclusive lock, timeout, unlock | timeouts against wake-ups | implements an abstract lock; nobody sleeps on a free one | `FutexRWMutex` |
| Monitors (`monitor.cc`, `lock_word.h`) | lock word, monitors, wait sets, hash code | enter, exit, inflate, deflate, wait, notify, hash | inflating another thread's thin lock, deflation | owner, count and hash survive every conversion | `Monitor` |
| Thread pool (`thread_pool.cc`) | queue, waiting count | `AddTask`, `GetTask`, `Wait`, start, stop, destroy | tasks that add tasks, limit of active workers | `Wait` means done | `ThreadPool` |
| Class initialisation (`class_linker.cc`, `class.cc`) | class status, initialising thread | `EnsureInitialized`, `InitializeClass`, `WaitForInitializeClass`, `VerifyClass` | recursion, failure, waiting | `<clinit>` once; every caller is told the truth | `ClassInit` (partly) |
| Heap tasks (`task_processor.cc`, `heap.cc`) | task queue, pending marks, `collector_type_running_` | requests, daemon, transitions, homogeneous space compaction, critical sections | stop and restart, time, moving collectors | one collection at a time; nothing moves under a critical section | `HeapTasks` |
| Reference processing (`reference_processor.cc`, `reference_queue.cc`) | five queues, slow path flag | delay, forward, clear, enqueue, `GetReferent` | mutators beside the collector, references found late | nothing dangling is handed out | `ReferenceProcessor` |
| Allocation stacks (`atomic_stack.h`, `heap.cc`, `mark_sweep.cc`) | two stacks, bitmaps, thread-local segments | bump, push, swap, sweep | lock-free bumps, collections that are skipped, addresses used again | no object forgotten, only garbage freed | `AllocationStacks` |
| Local references (`indirect_reference_table.cc`) | table, segments, serials | add, remove, get, push, pop, trim | holes, stale references | live ones resolve, stale ones do not | `IndirectReferences` |
| Transactions (`transaction.cc`, `intern_table.cc`) | undo logs, intern tables | record, visit, abort, rollback | collections between log and rollback | rollback restores tables, status and integral values | `Transaction` |
| Runtime shutdown, collectors, JIT, interpreter, JNI, file formats, JDWP packets, compiler, tools | | | | | not modelled, reasons below and in `PROJECT.json` |

The hook calls into the class linker (`FindClass`, `EnsureInitialized`,
`ResolveMethod`), which runs application code and so calls the hook again on the same
thread.  The collector uses `SuspendAll`, `RunCheckpoint` and `FlipThreadRoots`; the
profiler uses `RunCheckpointOnRunnableThreads`; stack traces and lock inflation use
`SuspendThreadBy...`; the debugger uses its own suspensions on the same counts.  All
of them meet in a thread's state-and-flags word and in `mutator_lock_`, and all of
their locks are the `Mutex` and `ReaderWriterMutex` of `base/mutex.cc`.

`PROJECT.json` lists the hazards with their lines, and the properties that cover them.

## The hook: `Unpack`

Every thread has a stack of activations of `Invoke`; the last one runs.  An
activation's `pc` names the next statement that touches shared state, and each such
statement is one action, since no lock protects anything: `check_flag` alone is
sixteen actions.  The extraction `fin >> s` empties `s` and then refills it, two steps,
and a word that is missing in the file fails the extraction without clearing `s`.

* `force_init_flag`, `rebuild_flag` and `mode` have no initialiser: `FreshFilters` lets
  them start with any value, at the start and after a restart.
* `std::set` is not thread safe: of two overlapping inserts into `dex_addrs` one may be
  lost (`Insert`).
* `VisitClass` may push a new activation for any DEX file on the same thread.
* `code[d][c]` says whether the bytecode of class `c` of `d` in memory has been restored
  by the protected application.  At level 3 `VisitClass` passes over a class that
  `should_initialize` finds in `bypass_class.txt`; `InitClass` passes over one that
  `FindClass` does not find or whose initialisation fails, and restores the others.  A
  method's body (`RunBody`) may restore classes at any time.  `EndTraversal` only takes
  the image, at level 3.  `inited` is a history variable: the classes that were
  initialised for an activation.
* `Restart` kills the process at any step; the dump files stay, everything else starts
  anew.  With `DiskFaults` each `open` may fail, also the one that looks for an existing
  file (`Probe`; `missed` remembers it), and a write may put a part of the image or nothing
  into the file.
* A file name is the number and the size; DEX files may have images of equal size.

## Thread suspension: `ThreadState`, `ThreadSuspension`, `ThreadCheckpoints`, `ThreadDebugger`, `ThreadList`

Each module EXTENDS the one before it.  `ThreadState` has the variables and what a
thread does to itself; the next three have the operations on other threads;
`ThreadList` has `Next`, `Spec` and the properties.

A thread is Runnable or "Suspended", which stands for every other state.  Its `pc` is
its place in the code; `ret` is where it goes after a state transition.  The test of the
flags, the change of `mutator_lock_`, the CAS and the sleep on `resume_cond_` are
separate steps.  A critical section of `thread_list_lock_` and
`thread_suspend_count_lock_` that does not wait inside is one step.  The loop of
`RunCheckpoint`, which polls other threads inside the section, holds `lock` over several
steps, and every action that takes the locks waits for it (`Unlocked`).  The flags
`kSuspendRequest` and `kCheckpointRequest` are not variables: they change together with
`suspend_count` and `slots`, in the same critical sections.

`raised[t]` are the threads whose count `t` has raised and has to lower; `need` and
`done` are history variables for the closures; `how` tells by which of the two
functions, or for whom, a thread is suspended.  A failing CHECK, or a count that would
go below zero, sets `aborted`, and nothing happens after it.

`DsRaise` raises the count of a thread that stops itself for the debugger and lets the
JDWP thread go on, in one step: nobody else looks at the token in between.

Left out: invoke requests of the debugger, the 30 s timeout of `SuspendAll` (it ends the process), the dump of all
threads at a fatal signal, the contents of closures.  Reading and running a checkpoint
function in `RunCheckpointFunction` is one step.

## Locks: `AbstractLock`, `FutexMutex`, `FutexRWMutex`

In `FutexMutex` and `FutexRWMutex` every access to a word that other threads touch
without the lock is a step: the load, the CAS, the change of a contender count,
`FUTEX_WAIT` (which sleeps only if the word still has the value read), `FUTEX_WAKE` and
`FUTEX_CMP_REQUEUE`.  A load followed by a successful CAS is one step; a CAS that fails
only repeats the load.  `muThen` is where an unlock inside `Wait` goes on.  Signals
interrupt sleepers (`MuInterrupt`, `RwInterrupt`); a reader of a `ReaderWriterMutex`
that is interrupted aborts the process, as the code does.  `cvLast` is a history
variable: the value of `sequence_` at the last broadcast.

`AbstractLock` is what callers rely on: sets of writers and readers.  A thread holds
the lock from the CAS that takes `state_` to the CAS that gives it back; that is the
refinement mapping (`MuLockSpec`, `RwLockSpec`).  The abstract specification is checked
as a property and proved.  Lock levels, contention logging and the pthread build are
left out.

## Monitors: `Monitor`

One object's lock word is empty, a thin lock, a hash code or a `Monitor`.  A thin lock
is written with plain stores, so it may be inflated by another thread only while its
owner is suspended at one of the places `MonSafe`.  `monAt[t]` is the word as `t` has
read it.  Contenders, waiters, notified threads, interrupts and timeouts have places of
their own; `monDepth` is a history variable that counts a thread's enters.  `MonMaxThin`
is the largest recursion count a thin lock holds, 1 in the instances so that it
overflows.  Failing CHECKs set `monAborted`.  Profiling of long contention and the read
barrier bits are left out.

## Thread pool and class initialisation: `ThreadPool`, `ClassInit`

In `ThreadPool` a critical section of `task_queue_lock_` is one step; a signalled worker
counts as waiting until it has the lock again, as in the code.  Tasks may add tasks.

In `ClassInit` each thread has a stack of calls (`init` and `verify` frames); the
`<clinit>` of a class calls in again for the classes it uses (`CiUses`).  The class's
monitor is a recursive lock with a wait set.  The CHECKs of `SetStatus` and of the
functions themselves set `ciAborted`.  Verification may fail; `<clinit>` may throw.
Superclasses are acyclic (`ClassInitAssumption`): a class that is its own superclass
never gets out of loading, which throws `ClassCircularityError`.

## Around the heap: `HeapTasks`, `ReferenceProcessor`, `AllocationStacks`, `IndirectReferences`, `Transaction`

* `HeapTasks`: at most one task of each kind, target times "due" and "later".  Waiting
  for `collector_type_running_` is the guard of the step that follows.  When the process
  goes to the background (`htJank`, from `process_state_`) the daemon makes a transition
  to a copying collector or, which is the default, a homogeneous space compaction
  (`HtCare`, `HtCompact`), and an allocation that finds no memory may compact as well.  Each
  of the three kinds of moving work has its own test of `disable_moving_gc_count_`.
  What a collection does is left out.
* `ReferenceProcessor`: the five queues are cyclic lists through `pendingNext`; the
  phases are those of a concurrent mark sweep; each turn of a queue's loop is a step
  beside which mutators call `GetReferent` and take objects out of each other.  A
  reference may lie in an object (`RpHolder`) that the collector comes to only when it
  scans what it keeps or revives: it is then delayed after the pause
  (`RpScanReference`), and only the second pass over the soft and weak queues deals with
  it.  The read barrier states of the copying collector are left out.
* `AllocationStacks`: the loads and CASes of `back_index_` are steps; freed addresses
  are allocated again, so a stale entry or mark shows.  Sticky and full collections.
  A thread without room asks for a collection, which may be skipped (`AsSkipGc`:
  `CollectGarbageInternal` returns `kGcTypeNone` near the end of the stack or while moving
  is disabled); the thread then pushes into the reserve again, and the CHECK there can
  fail.  `FreeList` gets an array, as in the code, so an address freed twice shows.
* `IndirectReferences`: one thread's table with segments, holes and serials.  A program
  that uses references after they are gone is followed as `-Xcheck:jni` does.
  `IrWrapped` is the exception its properties name: a serial that has come round.
* `Transaction`: an address is an object and the number of its moves, so that logs which
  keep raw addresses show it when a collection has moved the object.  Two things are
  not restored by a rollback: the fraction of a float in an array (`RecordWriteArray`
  takes a `uint64_t`), and a reference whose referent has moved since it was logged
  (`for (auto it : object_logs_)` visits a copy).  `TrRollbackRestores` leaves them out and
  `TrUndoesAllChanges`, which does not, is violated.  There is no boot image to look a
  string up in: transactions are used while it is being compiled.

## Rebuilding and forced invocation: `DexBuilder`, `ForcedInvoke`

`DexBuilder` is sequential: classes that are loaded, looked up, failing or bypassed are
collected, and the image is laid out and repaired.  The image keeps the bytes of class
data (with the LEB128 functions as operators), where code begins, the header and the
class definitions.  The property decodes the file again with a reader's functions.
`build_ClassDataItem2` is declared but has no body in this tree; its effect is taken
from its users.

`ForcedInvoke` computes `BKDRHash` of a body modulo `FiWord`, which is 2^32 in the code, and
lets every call restore the body, throw, or both.  Bodies that differ may have the same
hash, so the property is about the hash: a restored body is executed only if it collides
with the old one.

## Composition

`MCLocks`, `MCHeap` and `MCLiveness` check several components in one run.  Those
components share no state in the code's own terms, so every behaviour chooses one
(`lockPart`, `heapPart`) and the others stay in an initial state; this is a union of
state spaces, not a product.  The hook is in `MCHeap` with one thread and in `MCLocks`
with two that race.  The thread suspension modules are one system and share
all their state.  `MCThreadSessions` has three kinds of session: suspension without the
debugger, all commands of the debugger, and the debugger's suspensions beside the
collector's.

## Runs

| Run | Instance | Shows |
|---|---|---|
| `unpack_level_race` | 2 threads, level 3 | violated: a thread uses a half-read configuration |
| `unpack_dumped_twice` | 2 threads, level 3 | violated: two threads dump one DEX file |
| `threads_suspend` | 3 threads; all, peer, id, timeout, exit; and the debugger: the JDWP thread and 2 that attach, nesting 2, all its commands, or beside `SuspendAll` | pauses, counts and mutual suspension; two users of one count keep apart |
| `threads_closures` | 3 threads; checkpoint, sample, flip, `SuspendAll`, exit; one slot | every closure once, before its barrier opens; no lost wake-up |
| `threads_stranded_exit` | 2 threads | violated: an exiting thread sleeps for ever |
| `threads_debug_resume` | 3 threads | violated: the debugger takes back the collector's suspension |
| `heap` | eight parts: the hook with 1 thread, every kind of `unpack.txt`, nesting 3, 4 calls and a restart; forced invocation; rebuilding 2 classes; heap tasks (2 threads, 5 requests); references (one of each kind, 2 cycles, 1 call); local references (4 entries, 2 frames, 8 calls); allocation stacks (2 threads, 5 allocations, 1 collection); transactions (2 equal strings, 3 calls, 1 collection) | the safety of each |
| `reference_race` | 1 thread, a weak and a finalizer reference, both in roots, 1 cycle | violated: `Reference.get` returns a swept object |
| `transaction_rollback` | as the transactions of `heap` | violated: a rollback does not put a float back |
| `locks` | six parts: mutex (3 threads, 6 calls), reader-writer mutex (3 threads, 4 calls), monitor (3 threads, 2 monitors, 5 calls), pool (3 workers, 3 tasks, 6 calls), classes (2 threads, 3 classes, 4 calls), the hook (2 threads, 2 DEX files, one configuration for each level, 2 calls, 1 restart, disk faults) | refinement of `AbstractLock`, wake-ups, ownership, hash codes, `Wait`, `<clinit>`; dump files of racing threads and of successive processes stay apart and hold what was restored |
| `monitors_lost_notify` | 3 threads, 7 calls | violated: a notification is spent on a thread that no longer waits |
| `liveness` | locks, monitor, pool, classes, hook, heap tasks, references and the thread list, two threads, weak fairness | calls end, work that was handed over is done, `started` stops recursion |

**Bounds.**  `MaxCalls`, `MaxDepth`, `MaxRestarts` and `NumClassDefs` bound the hook.
A race on the number or on the filter takes two threads with a call each, and so does a
dump that meets a file of a dead process (1 restart).  Two racing activations after such a
dump take a third call; for that case `OneWriterPerDump` and `CompleteDumpsStay` rest on
their theorems.  The thread models need no bound on behaviours
except `MaxDebugSuspends` (two nested suspensions by the debugger: with two, taking back
one is told apart from taking back all).  Three threads are a requester, a target and a
third party that interferes with both.  `kMaxCheckpoints` is 1, so that the slots are
full as soon as one request is pending; in the code it is 3.  The lock models are bounded
by calls: six are two threads in `Wait`, one lock and one broadcast with the unlocks
after them; two monitors suffice for a monitor to be deflated and the object to get a
new one.  `IrPrevCount` is 3 as in the code.  `AsSegmentSize` and `AsGrowthLimit` are
small enough that the reserve is used; `AsCapacity` leaves one slot for each thread and one
more, so that the CHECK fails after collections that were skipped and not before.
Two String objects with the same characters are the least that makes an intern table
move a string from weak to strong.  The weak reference of the `heap` run lies in an object
that hangs on a field of another one, so it may be found before the pause or only in
what is kept or revived.  Forced bodies have three instructions; with `FiWord` = 64 some
of them collide.

**Fairness.**  `ThreadRuns(t)`, `DaemonRuns` and `ClockRuns` are weakly fair: a thread
that can take the next step of what it has begun, answer at a safepoint or leave a
critical section, eventually does; so do the pool's owner, the heap task daemon and the
collector; time passes.  The kernel's preemptive scheduler and the compiler's suspend
checks provide that.  Nothing is assumed of the start of operations.  With finitely many
calls weak fairness is enough for the locks too: no thread can be overtaken for ever.
Static initialisers that use each other in a circle may deadlock, as the Java language
allows; the liveness instance has none, the safety instance has.  The liveness instance
has one requester for each checkpoint slot, because `RunCheckpoint` does not return
otherwise (see below).  Its hook runs without disk faults and restarts: a dump that
could not be written leaves its DEX file claimed and without a dump.

**Deadlock** is checked in the thread models' safety runs.  The other models stop when
their calls are used up, the violation runs when the process has aborted.

**Symmetry** is used for threads (except the JDWP thread), DEX files, monitors and the
objects on allocation stacks, never with liveness.

## Disagreements with the code's comments

1. `check_flag` sets `flag` before it has read the method.  A second thread can dump a
   DEX file at a lower level than configured; the file is then in `dex_addrs` and is
   never rebuilt (`unpack_level_race`).
2. `SuspendThreadByPeer` lowers the count of an exiting thread without a broadcast.  The
   thread sleeps for ever, which is the deadlock the comment wants to prevent
   (`threads_stranded_exit`).
3. `Dbg::ResumeThread` lowers any non-zero count as if the debugger had raised it
   (`threads_debug_resume`).
4. `GetReferent` reads the referent before it tests the slow path flag.  If the collector
   clears the reference and disables the slow path in between, the fast path returns an
   object that is about to be swept (`reference_race`).
5. `Monitor::Notify` takes a thread whose wait a timeout or an interrupt has ended, but
   which is not Runnable yet, for one that still waits; the notification is lost to the
   others (`monitors_lost_notify`).
6. `dex_addrs.find` and `dex_addrs.insert` are separate statements without a lock: two
   threads both find a DEX file missing and both dump it, in spite of "Check if this DEX
   is already dumped" (`unpack_dumped_twice`).
7. A rollback, which should undo "all recorded changes", leaves an element of a float
   array without its fraction, and a reference with the old address if a collection has
   moved its object (`transaction_rollback`, which finds the first).

## Hazards without a property

* `RunCheckpoint` repeats a failed request with both locks held, although it cannot
  succeed while all slots of the target are taken.  `RcFail` and `RcCheck` model the loop.
* A process that dies between `open(O_CREAT)` and `write` leaves an empty dump, which the
  next process takes for a finished one.  The model has these behaviours; nothing in the
  code, and no comment, promises otherwise.
* The debugger suspends a thread that holds the JDWP thread suspended by peer.  The
  model reaches the deadlock; no instance with a property contains both operations.

## Proofs

### Thread suspension: `ThreadListProofs`

For every finite set of threads, every number of checkpoint slots and every choice of
`Ops`.  The assumptions are those of `ThreadListAssumption`; all of them are checked by
TLC on the instances.

`StopTheWorldHolds`: `Spec => []StopTheWorld`.  `StopTheWorld` is not inductive: nothing in
it ties a thread's state to its share of `mutator_lock_`, which the thread takes before and
gives back after its state changes.  The invariant `LockInv` adds, for every thread, that
it is Runnable exactly at the places where the code runs as such (`StateMatchesPc`), that
it holds a share exactly there and in the middle of a transition (`SharesMatchPc`), that
shares and the exclusive lock exclude each other (`LockExcludes`), and that a transition
returns to a place that fits the state it ends in (`ReturnsMatch`).

The other theorems have a hypothesis on `Ops`, where the code is known to break the
property.  `OnlyDebuggerSuspends`: `Dbg::ResumeThread`, which takes back whatever suspension
it finds, is not used beside suspensions that are not the debugger's (the run
`threads_debug_resume` shows what happens otherwise).  `NobodyStranded`, only for
`NoLostWakeup`: threads exit, or are suspended by peer or by the debugger, not both
(`threads_stranded_exit`).  Each instance of `Ops` in the passing runs that check the
property meets them.

* `CountsMatchRequestsHolds`, `SuspendedStaysSuspendedHolds`, `FlippedBeforeManagedHolds`,
  `DebugCountsFitHolds`.  A count is right in the next state only if the thread that lowers
  it had raised it, and a thread stays suspended only while its count is not zero, so the
  two are proved together: `CountInv` adds to `LockInv` the types of places and counters,
  who is listed (`Listed`), that each count is the cardinality of the set of requesters
  (`Counted`) and, for every thread, which counts it has raised at which place
  (`RaisedFits`), the way through its operation (`FlowFits`), what the holder of the
  JDWP token does (`TokenFits`, `Alone`), what the flip has left to do (`FlipFits`), that those it
  has stopped are stopped (`Stopped`) and what the debugger has asked for (`DebugCounted`).
* `TypeOKHolds`: from `CountInv` and `ClosureTypes`, the types of slots, closures and
  barriers.  The counters have their type only because no count is lowered twice.
* `NoSuspendCycleHolds`, for sets of threads of any size: a thread raises a count only
  while nobody has raised its own, so the request that would close a cycle is never made.
* `NoLostWakeupHolds`, from `WakeInv`: with `PeerFits`, which keeps `SxGone`, the one place
  that lowers a count without a broadcast, from being reached.
* `BarrierMeansDoneHolds`, from `BarInv`: the barrier's count, which may be negative, is
  the number of closures and flips pending less what has not been added yet
  (`BarrierCounts`), they are pending only for a thread that will wait for them
  (`PendingFits`), everyone needed is done or pending (`NothingForgotten`), a closure
  is in one slot of a thread at most (`SlotsOnce`) and one flip is on its way (`OneFlip`,
  `FlipAwaited`).

There is one lemma per group of actions, with one step per action.

### The hook: `UnpackProofs` and `UnpackSafetyProofs`

For all sets of threads, DEX files and configurations, all sizes of images (equal ones
too) and all values of the bounds, with or without disk faults, under
`UnpackAssumption`:

* `TypeOKHolds`: `Spec => []TypeOK`.  `TypeOK` lacks that an activation that extracts
  words from `unpack.txt` has opened it, so that the words exist, and that a class being
  initialised is one of the DEX file; `TypeInv` adds both (`OpenFrame`).
* `RebuildIsNotRecursiveHolds`.  The property alone says nothing of `started`, so the
  step of a nested activation that tests it could go either way: `RebuildInv` adds that only traversals have activations above them
  (`OnlyTraversalsNest`) and that a traversal of level 3 has set `started`
  (`RebuildHasStarted`); so an activation nested in one goes from the test straight to
  the body, whatever other threads do to the filter.
* `OneWriterPerDumpHolds` and `CompleteDumpsStayHolds`, from `DumpInv`: the activations
  inside `write_file` have numbers below `dex_num` (`NumbersAreTaken`) and different
  from each other (`NumbersDiffer`); files are those of this process or of earlier ones
  (`RunsPast`), and those of this process have numbers that were taken
  (`OwnFilesAreTaken`); hence an activation that is about to create or to fill a file meets
  none of its own process, and one of an earlier process only if its `open(O_RDONLY)`
  failed although the file was there (`FilesFit`).  That exception is in
  `CompleteDumpsStay`: the code takes every failure of that `open` for an absent file.
* `RebuiltIsRestoredHolds`, from `RestoredInv`: code that is restored stays so while the
  process lives, and the classes initialised for an activation are restored in memory
  while it traverses and in its image afterwards (`FramesRestored`).  The image must be
  taken after the traversal for that.

Forced invocation: `FiStopsBeforeRestoredHolds`, for bodies of any length, any bytes and any
word.  `FiInv` says that `hash1` is that of the code the activation was entered with.
Nothing is assumed about collisions; the property names them.

`TakeNumber` has the bound `dex_num < MaxCalls`, which keeps `dex_num` in `Nums`.  An
activation takes one number at most, so the bound on calls is always met first.

Both proof modules have one lemma per kind of step (a jump of the running activation, a
store to the filter, a step of `write_file`, a call, a return) and one step per action.

### Mutexes: `FutexProofs`

For any set of threads and any number of calls, recursive or not:

* `MuImplementsLockHolds`: `MuSpec => MuLockSpec!Spec`, and `MuOwnerIsHolderHolds`.  The
  control invariant `MuControlInv` adds to the types where a thread that is asleep can be
  (`MuPlaces`, `MuQueues`), that at most one thread is between the CAS that takes
  `state_` and the one that gives it back, exactly when `state_` is 1 (`MuExclusion`), and
  whose name is in `exclusive_owner_` (`MuOwnership`).  The last is needed because the owner is
  written outside the CAS.
* `MuNoLostWakeupHolds`.  An unlock reads `num_contenders_` after it has cleared `state_`, so
  the count must be right at that moment: `MuCounts` says that `num_contenders_` and
  `num_waiters_` are the numbers of threads in certain places, and hence that sleepers
  are counted (`MuSleepersCount`).
* `MuNotificationsArriveHolds`, from `MuSignalIsHeardHolds` and
  `MuBroadcastReachesAllHolds`.  `MuSequences` orders the values of `sequence_` that were
  read; `MuNobodyOlder` says that nobody sleeps on one from before the last broadcast.

### Reader-writer mutexes: `FutexProofs`

For any finite set of threads: `RwImplementsLockHolds`, `RwStateCountsHolds`,
`RwNoLostWakeupHolds`.  `RwHoldInv` says that a writer is alone and that `state_` is the
number of holders, or -1; the cardinalities need the set of threads to be finite.
`RwCounts` does for the two pending counters what `MuCounts` does above.  Nobody goes to
sleep on a free lock because `FUTEX_WAIT` compares with a value that was not 0
(`RwSleepsForTaken`).

### Heap tasks: `GcProofs`

For any set of threads and any number of requests: `HtOneGcAtATimeHolds`,
`HtNoMoveInCriticalHolds`, `HtPendingHasTaskHolds`.  `HtControlInv` keeps the daemon out of the
application's places; `HtRunnerInv` ties `collector_type_running_` to the one thread that
collects; `HtCountInv` says that `disable_moving_gc_count_` is the number of threads that
have forbidden moving, those that still wait included, which is what makes a moving
collection, a copying transition or a compaction that starts later see them.

### Reference processing: `GcProofs`

`RpSlowPathIsSafeHolds` and `RpNoDanglingReferenceHolds`, for any threads and objects, any
finite set of references of any kinds, and any heap.  `RpInv` has these parts:

* `RpRings`: each of the five queues is a ring.  There is a sequence without repetitions of
  exactly the references on it, in the order of `pendingNext`, from `list_` back to
  `list_`.  Adding and removing a reference are shown to change this sequence at one place,
  and to leave the other rings alone since no reference is on two queues.
* `RpQueueInv`: a reference is on the queue of its kind or on that of the cleared ones; one that
  is linked and on no queue was made circular by a mutator, and then its referent is null.
* `RpColourInv`: from the pause to the sweep a white referent of a reference that has been
  scanned (`RpScanned`: the collector has reached it, its holder is not grey and it is not
  waiting in `rpScan`) hangs on its kind's queue, where it will be cleared or marked; only
  grey objects lead to white ones, and only while references are preserved.
* `RpHeldInv`: while references are preserved, the collector marks objects that mutators
  may not see yet.  The objects the mutators can get at are a closed set that was marked
  before (`RpBlack`).  Without it, `GetReferent` in the middle of the forwarding could hand out
  a marked object with white fields.
* `RpSweptInv`: nothing that is left leads to what has been freed.

`RpQueuesAreCycles` walks along the links by a recursive function.  That the walk is the
ring is shown without induction: a first step at which they differ cannot be the first.
The set of references is finite (they are objects of one heap); the rings need it.

### Thread pool and monitors: `LocksProofs`

* `TpWaitMeansDoneHolds`, for any finite set of workers and any tasks.  `Wait` relies on
  `waiting_count_`, so `TpInv` says that it is the number of workers that wait (`TpCounted`),
  where each worker can be (`TpPlaces`), that a task is in the queue once or with one
  worker or done (`TpOnePlace`), and that nothing is left when `Wait` has returned
  (`TpQuiet`).
* `MonHolderIsOwnerHolds` and `MonHashIsStableHolds`, for any set of threads.  A thread acts
  on a lock word that it read earlier; `MonInv` says where that word is still the current one
  (`MonReadIsCurrent`, because of the CAS, or because whoever holds the lock or has
  suspended the owner is the only one to change it), which frames return where
  (`MonReturns`), that `num_waiters_` counts those that use the monitor, so that it is not
  deflated under them (`MonCounted`), who owns it (`MonOwnership`) and where the hash code is
  kept (`MonHashKept`).

### Class initialisation: `ClassInitProofs`

`CiClinitOnceHolds` and `CiResultIsTrueHolds`, for any threads, any acyclic hierarchy, any uses
between static initialisers and any number of calls.  A status is read under the class's
lock and acted upon after it has been released, and the lock is recursive, so `CiInv` ties
status and lock to the calls that are under way:

* `CiNested`: which call waits for which; verification calls nothing but verification.
* `CiLocked`: who owns a class's lock, and its depth: at most one call that holds it for
  initialisation or for the verification of a subclass, and the verification above it.
  Here superclasses must be acyclic: otherwise a verification could come back to a class
  that is further down on its own stack.
* `CiVerification` and `CiInitialization`: "verifying" is seen by nobody but the thread that
  verifies, and a class is "initializing" exactly while one call of the thread in
  `clinit_thread_id_` is past its claim.
* `CiKnowledge`: what a call has found out and may still rely on: its class is verified,
  its superclass is initialised or is being initialised further up on this stack, a
  failed superclass is erroneous with an exception pending.
* `CiCounted`: `<clinit>` has not run before the class was claimed.

### Allocation stacks, indirect references and transactions: `HeapProofs`

* `AsNothingForgottenHolds` and `AsOnlyGarbageIsFreedHolds`, for any finite set of threads,
  any addresses and capacities.  `AsInv`: what may be on the stacks at each place of a
  collection (`AsPlaces`, `AsStacksClean`), that segments of threads are disjoint and still
  empty ahead of the thread (`AsSegmentsAreFresh`), that at most as many entries are in the
  reserve as threads wait with their object pushed there and collections have been skipped
  (`AsReserveBound`, a cardinality), so that the CHECK fails only after more skips than there
  are spare slots (`AsAbortInv`), what the collector knows of the heap (`AsKnowledge`) and what
  it may free (`AsSafety`).  `AsOnce`: an object is entered twice only while its thread is
  still pushing it, so that one sweep does not free an address twice.
* `IrLiveRefsResolveHolds` and `IrStaleIsRejectedHolds`, for any capacity and nesting.
  `IrInv`: segments nest (`IrNested`), `num_holes` of every segment is the number of null
  entries in it (`IrAllCounted`, cardinalities over intervals), the serials of an entry tell
  its references apart (`IrSerials`), each entry that is not null has one owner (`IrOwned`)
  and resolves (`IrResolved`).  The code scans downwards for a hole and
  for the new top; the model's maxima exist by `IntHasMax`, from the well-foundedness of
  the naturals and not by an induction.
* `TrRollbackRestoresHolds`, for any strings with any texts and any number of writes,
  interns and collections.  `TrInv`: a log is filed under the present address of its object
  and holds the value of before, or what the collector has made of it (`TrFieldsInv`,
  `TrIsRestored`); the
  intern tables are those of before with what the log tells (`TrTables`), there is one
  string per text (`TrTextsDiffer`), no entry is there twice and a weak string is added
  before it is taken out (`TrEntriesDiffer`, `TrOrdered`).  That the undo goes from the most
  recent entry to the oldest is what makes each string to be removed be found.
  Assumed: strings are distinct from the other values, and null is no address.

### LEB128: `UnpackProofs`

`DecodeInvertsEncode`: for every sequence of 32-bit numbers, wherever its bytes lie, the
decoder, called as often as there are numbers, reads these numbers.  One number is
`LebRoundTrip`, by cases on its one to five groups of seven bits.  For a row,
`LebFlatten` says where each number's bytes lie in `FlattenSeq`; both recursive functions,
of `FlattenSeq` and of `Decode`, are shown to exist and to have the expected values by
`LebNatInduction`, an induction over a set of naturals (a set can be a parameter of a lemma,
an operator cannot).

### Only model-checked

* Liveness: fairness and `ENABLED` are out of the prover's reach.
* `DumpsKeepLevel` and `ListsMatchMode`, with one thread, nested activations and a restart;
  with two threads the first is violated (`unpack_level_race`), and the second can be for
  the same reason: `mode` is read while another thread has not stored it yet.
* `DbClassesRead`.  That numbers survive the codec is proved (above), but the image is put
  together by folds with an operator, which the provers cannot unfold for any number of
  classes, and its sizes are sums over such folds.

All other invariants and action properties of the passing runs are stated by theorems.

## Not modelled

* Runtime shutdown (`WaitForOtherNonDaemonThreadsToExit`, `SuspendAllDaemonThreads`): not yet.
* Marking and copying of the collectors: they work on the object graph of a heap, far
  beyond small instances; their pauses, handshakes, references and stacks are modelled.
* JIT, interpreter, compiler: generated code and instruction semantics.
* DEX, OAT and image files, JDWP packets, JNI argument conversion, command line tools,
  the signal chain: formats and sequential processing without a protocol.

The tree holds the whole of ART; most of its lines are of these kinds, so the modelled
lines are a small share of it.

## Plan

1. Runtime shutdown on top of `ThreadList`.
2. A run for the deadlock of the debugger that suspends a thread which holds the JDWP
   thread suspended.
3. `DbClassesRead` with the folds replaced by explicit functions, to prove where each item
   of a rebuilt file lies.
