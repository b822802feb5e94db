# DRace in TLA+

DRace is a data-race detector for native programs. A program runs under
DynamoRIO; the DRace client instruments its memory accesses and wraps its
synchronisation functions, and hands what happens to a *detector* through the
interface `src/common/detector/Detector.h`. The detector written for DRace is
FastTrack (`src/standalone/detectors/fasttrack`). It decides what is a race, so
it is the first thing modelled here. Then come the client's way of feeding it,
the state each thread keeps, the collection of the races found, and the protocol
with the process that resolves symbols of managed code.

## 1. Inventory

| part | code (under `src/`) | state | operations | hard behaviour |
|---|---|---|---|---|
| detector interface | `common/detector/Detector.h` | none | the calls, the premises on their order | which orders a back-end must survive |
| FastTrack rules | `standalone/detectors/fasttrack/include/fasttrack.h` | tables of threads, locks, identifiers, variables, heap blocks | `fork join finish acquire release happens_before happens_after read write allocate deallocate finalize` | long sequences of calls; ended threads; reused ids and memory |
| FastTrack data | `varstate.*`, `threadstate.*`, `vectorclock.h` | packed epochs, vector clocks, read modes | `is_*_race`, `update`, `set_read_shared`, `inc_vc`, `delete_vc` | clock overflow, `>=` against `>`, switch of read mode |
| FastTrack locks | `fasttrack.h`, `common/ipc/spinlock.h` | `g_lock`, `vars_spl`, one lock per `VarState` | critical sections of every call | lock order, a pointer used after its lock is released |
| stack depot | `stacktrace.*` | tree of call stacks, pointers per location | `push pop set_read_write return_stack_trace` | stacks of ended threads |
| memory tracker | `drace-client/src/memory-tracker.cpp`, `instr/instr-mem-fast.cpp` | buffer per thread, enable count, sampling state | buffer fill and flush, delayed fork, exit, enable/disable | accesses arrive late; nested disabling |
| event callbacks | `drace-client/src/function-wrapper*` | mutex book per thread | wrapped lock, unlock, thread, allocation, barrier functions | callbacks run before or after the real call, others in between; exceptions skip the second |
| shadow stack | `include/shadow-stack.h` | bounded stack per thread | push, pop | pushes at the limit are dropped, returns skipped by exceptions |
| race collector, filter | `race-collector.*`, `race-filter.*` | list and count of races, stacks seen, suppressions | `add_race`, duplicate filter, suppression, summary at the end | limit tested outside the lock; filters in different orders in two modes |
| module tracker | `module/*` | index of modules, cache | load, unload, lookup, decision per block | stale index and cache |
| ring buffer | `common/ipc/ringbuffer.hpp` | head, tail, slots | insert, remove, write in place | two processes without a lock |
| managed resolver | `MSR.cpp`, `ManagedResolver/*`, `common/ipc/*SHM*` | one shared message slot | connect, attach, request, heart beat, reply | timeouts, late replies, either process killed or restarted |
| lossy counting | `include/lcm` | histogram | process items, prune | error bound |
| symbols, sinks, configuration, loaders, other detectors, GUI | see PROJECT.json | - | input and output | none to model |

How they interact: the program's accesses go into the buffer of their thread
(memory tracker). The buffer is processed when it is full, on every function
call and return of interest and around wrapped functions (event callbacks); each
entry becomes one `read` or `write` of the detector. Synchronisation is handed
over at once. The detector calls back with each race; the callback puts it into
the race collector, which resolves stacks through the module tracker and the
symbol resolvers. All threads of the program run all of this concurrently; the
detector protects itself with three kinds of spin locks.

What makes each part correct:

* FastTrack: it reports a pair of accesses only if nothing orders them, and
  misses no race it does not declare out of scope; its clocks never claim more
  than happened; data of an ended thread does not speak for the next one.
* its locks: no circular waiting, accesses to a location one at a time, no
  access to a destroyed `VarState`.
* the client: what it delays and reorders must not create or hide an order;
  the buffer never overflows; every lock the program gives up reaches the detector.
* a thread's state: an access is delivered once, under the stack it was made
  under; excluded code is not recorded, and afterwards tracking resumes.
* collector: the count and the limit hold, what is suppressed is not reported, what
  is not suppressed is.
* resolver: an answer belongs to its request; nobody waits for ever.

The hazards in PROJECT.json name the line where each of these can go wrong.

## 2. Modules

| module | models | role |
|---|---|---|
| `Detector` | `Detector.h` | constants of the interface, the race record, `Within` |
| `FastTrack` | the detector, one action per call, each call one step | any call in any order |
| `HBReference` | nothing in the code: what a happens-before detector is to find, by full vector clocks and a full access history | the reference |
| `RaceDetection` | composition: a program that keeps to the premises of `Detector.h`, watched by `FastTrack` and played to `HBReference` | accuracy |
| `FTLocking` | the same calls as sequences of critical sections | concurrency inside the detector |
| `DRaceClient` | composition: program, buffers, lock wrappers, `FastTrack`, `HBReference` | the tool end to end |
| `ThreadTracker` | the memory tracker's state of one thread, the shadow stack, the stack depot | recording, exclusion, sampling, stacks |
| `ModuleTracker` | the index of modules, its cache, the decision to instrument | extended by `RaceCollector` |
| `RaceCollector` | composition: collector, filter, module tracker, end of the client | which races are reported |
| `MSRProtocol` | client and resolver over one message slot | request and answer |
| `SymbolService` | what the callers of `MSR.cpp` rely on | abstract specification of `MSRProtocol` |
| `FastTrackProofs`, `FTLockingProofs`, `ThreadTrackerProofs` | theorems about these modules | section 5 |
| `RaceDetectionProofs`, `DRaceClientProofs` | theorems about the two compositions, both on top of `FastTrackProofs` | section 5 |
| `MissedRaceProofs` | the converse of `RaceDetectionProofs`, on top of it | section 5 |
| `RaceCollectorProofs`, `MSRProtocolProofs` | theorems about collector, module tracker and resolver | section 5 |
| `MC*` | instances for TLC | section 3 |

### FastTrack

The tables of the code are sets of keys with total functions for their values
(`threads`, `locks`, `happens_states`, `vars`, `allocs`); an absent entry of a
vector clock is 0, which is what `get_id_by_tid()` returns for it. Epochs are
packed as in the code, `tid * Multiplier + clock`; `Multiplier` is 2^16 or 2^32
in the code and 4 in the runs, and nothing else about the width is lost: an
increment that leaves the field of the clock changes the thread id in the model
as it does in the code. `shared_vc` is a set; which of several racing readers
`is_rw_sh_race()` names first depends on the order of that vector and is left
open. The rules are one operator each, under the names of the code's own
statistics counters (`read_same_epoch`, `read_share`, ...). `report` holds the
races handed to the callback during the last call. `MaxClock` bounds how often a
thread may increment its clock; an action that would exceed it is disabled.

Calls are steps because they may be: `AccessesSerialised` (section 5) shows that
two accesses to a location never overlap and the remaining calls run under
`g_lock`. Two things are outside that argument: a program that frees
memory while it accesses it (`RacyFree`), and the thread's own clock, which
`read()` and `write()` search without `g_lock` while `cleanup()` or `fork()` of
another thread may change it. Both are in the hazard list.

`func_enter()` and `func_exit()` change only the stack depot, which `ThreadTracker` models.

### HBReference and RaceDetection

`HBReference` keeps, for every location and thread, the clock of the last read
and the last write. `missed` holds the races of the last access that no report
of this location, now or earlier, covers (FastTrack guarantees only the first
race of a location). `DRaceClient` uses the edges and the access records, not
this audit. In `RaceDetection` each `P...` action is one call together
with what it means to the reference. The premises are those of `Detector.h`: no
double forks, mutexes exclude one another, only live blocks are freed and
accessed. Two scope decisions of the code are taken over: an ended thread leaves
the analysis (README of DRace: "Finished threads are deleted from the
analysis"), and races of locations such a thread accessed may be missed.

### FTLocking

A thread is in one call at a time; its program counter says in which critical
section. What the sections compute is left out, except the table of variables:
`vars` maps a location to its object, `create_var` takes memory nothing refers
to, `deallocate` empties entries one by one. `finalize()`, which the runtime
calls when no other thread is left, is not a step here. The stack depots' lock
is never held while its holder waits for another and is left out.

### DRaceClient

`mem_buf` is the buffer up to `buf_ptr`. A wrapped call is several steps: the
callback before it (which processes the buffer, one detector call per step), the
program's own operation, the callback after it. Other threads act between them.
A thread is forked in the detector when its buffer is first processed, with the
runtime thread as parent, and what the buffer held is dropped
(`delayed_initialize_thread`). `mutex_book` is updated by the arithmetic of
`prepare_and_aquire` (`Counted`). Annotations and barriers draw their edge after the
flush of the call (`AnnotateBefore`, `AnnotateAfter`); the allocator's wrappers
tell the detector before a block is given back and after one is handed out
(`FreePre`, `AllocPost`), and the program's allocator acts in between. Assumed: as
on Linux, `thread_start()` does nothing; no sampling, excluded
regions or threads, or external control; the wrapped functions are
not instrumented themselves; who starts a thread awaits it; the
program frees a block only when all accesses to it are ordered before the free.
`Spawn` says who starts whom. In the configuration `CL_fork` that is not always the first thread, and there
the parent `delayed_initialize_thread()` names is the wrong one.
The program's own mutexes, its allocator and `pthread_join` are external.

### ThreadTracker

One thread on its own: what it does here touches no other. `buf_ptr` is the number
of accesses recorded, or `Null` in a disabled tracker; an access carries the shadow
stack it was made under and whether it has been handed over. `_read_write` holds,
per location, the vertex of the depot that `set_read_write()` stores; a vertex is
written as its path, so `_ce` and `stack` can be compared. `event_cnt` is the
counter of excluded regions and `unsampled` its highest bit. The sampling position
is any value of the period the code draws from. The program calls, returns, leaves
functions by exceptions (`Unwind`, `SkipEndExcl`) and enters excluded regions.
`doubled`, `opened`, `early` and `lost` are history: they mark the cases a property
excepts, each a flaw of the code. `TT_sampling` and the configurations `TT_master`, `TT_stored`
and `TT_exception` (section 3) show what happens then.
The histogram of frequent code is left out: it is never fed. So is
`handle_ext_state()`, which exists on Windows only: its flag is global, so of all
threads only the first to notice the change is switched.

### ModuleTracker and RaceCollector

A module is its range and whether it is instrumented; a race is its outermost
frames, its address, and whether its stacks are plausible and on the suppression
list. `add_race()` is two steps, `CheckLimit` before the lock and `add_race` under
it. `Suppressed`, `Instrumented` and `Wanted` say what the options, annotations and
loaded modules ask for; they do not look at the code's tables and are the reference.
`Settled` excepts memory where a module is gone: its entry stays in the index
and goes on deciding, as `RC_stale` shows with load, unload and load of another module
in the same place.
The number of races after which nothing more is collected (`MAX`) is a constant.
What the summary at the end removes from `_races` leaves a gap there: that
`erase()` closes it is left out, the order stays.
Worth knowing: `filter_duplicates()` compares `stack_trace[0]`, the outermost frames,
while `src/README.md:75` speaks of the "unique top-of-callstack entry"; and it counts
a race as seen before the other filters look at it. So `WantedReported` promises no
more than one race per pair of outermost functions, and not even that if a
suppressed one came first.

### MSRProtocol and SymbolService

The slot is `id` and `buffer`; a request's content is its thread, an answer's the
thread it is for. The two events are booleans that a wait resets. A wait ends with
the event (`Received`), at the end of its time when nothing comes any more
(`TimedOut`), or, setting `late`, at the end of its time with the answer on its way
(`GaveUp`). The client process can crash at any point and be started again. The
resolver can be killed or fail at any point, and be stopped by its user: `Interrupt` is
`CtrlHandler()`, which runs in a thread of its own and destroys the protocol handler
whatever `main()`'s thread is doing in it. That thread gets to the end of its turn or
crashes (`Killed`); then the driver goes and says EXIT (`Stop`), which sets the event the
client waits for. With `--once` there is no controller to stop and Ctrl-C is a crash.

`SymbolService` says that requests are served one at a time and that every request
returns, with its own answer or with nothing. `Service` maps its variables to the lock,
to what the last request returned, and to `Sound` and the resolver not being stopped.
The promise ends in three cases the code does not handle: a late answer (answers carry no
mark of their request, so all later ones are off by one: `MSR_late`), a thread that looks
up an address before the resolver is attached (`early`), which takes the confirmation of
CONNECT for its answer (`MSR_early`), and the EXIT of a resolver that is stopped, which
the lookups take for an answer without looking at the id (`MSR_stop`).
`AnsweredIsServed` excepts, besides the lookups in the last case, a resolver that is killed
after a heart beat: the slot then holds the client's own CONFIRM, which `request_symbols()`
takes for success.

## 3. Runs

| run | question | result |
|---|---|---|
| `RD_locks` | Three threads, a recursive mutex, forks and joins, a block freed and reused: are reports exactly the races? | `NoFalseAlarm`, `NoMissedRace` hold |
| `RD_sync` | The same for two threads with two ticks each and happens-before identifiers; are the tables consistent? | both, `TypeOK`, `OwnTid`, `NoFutureKnowledge`, `OneReadMode`, `ReportsAreConflicts` hold |
| `RD_early_read` | A read before the first write of another thread | violated: never reported |
| `RD_transitive` | Two happens-before edges through a third thread | violated: false alarm |
| `LK_locks` | Three threads inside the detector | `NoWaitCycle`, `Serialised`, `NoDanglingVar` hold |
| `CL_program` | A process of two threads under the tool, mutexes not recursive | `CTypeOK` (with the buffer bound), `ProgramHasRace` hold |
| `CL_heap` | The process with annotations, and a block that is allocated, freed and reallocated | `ProgramHasRace` holds |
| `CL_recursive` | The process with a mutex locked twice | violated: false alarm |
| `TT_thread` | One thread's calls, returns, exceptions, regions and samples in any order | all seven hold |
| `TT_sampling` | A sampling rate of 2, with periods of 1 to 3 calls | violated: the thread is never tracked again |
| `MSR_symbols` | Two threads, two starts of the client, a resolver that may die or be stopped: are answers right, does everyone get on? | six hold, with the refinement `ServiceKept` and the liveness `ResolverFree` |
| `RC_report` | Two threads finding races, modules coming and going, annotations | all seven hold |

The findings in PROJECT.json quote the text each violation contradicts.

Some questions are asked beside these runs, by configurations of the same modules that
PROJECT.json does not list (`tlc -config CL_fork.cfg MCDRaceClient`). All but `CL_three`
end in a counterexample: they show what lies in the cases a property excepts, a theorem
assumes away or a run's bounds leave out.

| configuration | question | property, and result | what it contradicts |
|---|---|---|---|
| `CL_three` | Three threads, the first starts and awaits the others | `ProgramHasRace` holds | - |
| `CL_fork` | Three threads, each starts the next | `ProgramHasRace`: false alarm | `memory-tracker.cpp:444` "arc between parent thread and this thread" |
| `RD_reuse` | The id of an ended thread is used again | `NoFalseAlarm`: false alarm | `fasttrack.h:362` "deletes all data which is related to the tid" |
| `RD_blocks` | Two blocks that touch are freed | `NoFalseAlarm`: false alarm | `fasttrack.h:592` "variable is deallocated so varstate objects can be destroyed" |
| `RD_wrap` | A thread increments its clock past the field | `OwnTid`: it becomes another thread | `threadstate.h:40` "returns thread id" |
| `LK_racy_free` | A location is accessed while its block is freed | `NoDanglingVar`: a destroyed `VarState` is used | as `RD_blocks` |
| `TT_master` | The first thread is excluded | `FirstThreadExcluded`: it is tracked | `src/README.md:67` "exclude first thread" |
| `TT_stored` | An excluded region with accesses waiting in the buffer | `RefsOfCurrentFunction`: they come back in another function | `shadow-stack.h:23` "all memory-refs happend in the current function" |
| `TT_exception` | An excluded function is left by an exception | `ScopeEnds`: the thread stays excluded | `memory-tracker.h:226` "disable the detector during this scope" |
| `MSR_stop` | Ctrl-C in the resolver while a client is attached | `LookupsResolved`: a lookup returns its own request | `src/README.md:168` "The resolved symbols are passed back to DRace" |
| `MSR_early` | A lookup before the resolver is attached | `EarlyLookups`: the same | as `MSR_stop` |
| `MSR_late` | A request whose answer came too late, then a lookup | `LateLookups`: the same | as `MSR_stop` |
| `RC_stale` | A module loaded where another has been | `LoadedFound`: it is not found | `Tracker.h:48` "the module which contains the given program counter" |

The shortest traces: `RD_reuse`: thread 2 writes x and is joined, a new thread gets the id
2, thread 1 reads x and the report names thread 2, which never accessed x. `RD_blocks`,
with b at 1 and c at 2: freeing b erases the size of c (`fasttrack.h:603`), freeing c then
removes no variable, and the next owner of its memory is reported against the last.
`CL_fork`: 1 starts 2; 2 writes x and starts 3; 3 reads x. `MSR_stop`: the client is
attached, Ctrl-C, the client asks, EXIT, and its wait ends.

**Bounds.** Two threads are enough for a race, three for one that needs a
middleman (`RD_locks`, `RD_transitive`). One location suffices where locations
do not interact. `Multiplier` 4 leaves room above `MaxClock` 1 or 2, so the clock field
does not wrap; in the configuration `RD_wrap` it does, where four releases stand for the 65536 of a 32-bit build:
the theorems' assumption `NoWrap` is needed.
`MaxClock` 1 allows each thread one outgoing edge, 2 allows a release inside and
one outside a recursive section. `BufSize` 2 is the least at which an access
waits in a buffer that is not yet full. With two threads the first always starts and awaits
the other; `CL_three` has three, with a `BufSize` of 1, with which accesses wait only for
their thread to run on, and no mutex, to stay within reach.
`MaxDepth` 2 is the least recursion. In `LK_locks` there are more
objects than threads and locations need together, so that memory is never scarce.
`TT_thread`: three calls on a shadow stack of two, so that one is dropped; two call
sites, so that a frame may be found twice; two regions, so that they nest; rates 1
and 2, of which the second draws periods of 1 to 3 calls and so is the least with two
unsampled calls in a row. `MSR_symbols`: two threads compete for the slot, the
client starts twice so that the second meets what the first left, one heart beat is
answered or missed. `RC_report`: `MAX` 0 and three races reach and pass the limit by
two threads; two annotations, of which the nearer decides; three modules, of which
two cannot be loaded together. All of these bounds are constants of the modules.

**Symmetry.** `LK_locks` permutes threads, locations and objects. The module only
compares them for equality and all start alike. `TT_thread` permutes call
sites, `RC_report` threads, for the same reason. The `RD_*` and `CL_*` runs use
numbers for threads, which the packed epochs compute with, and no symmetry.

**Deadlock** is checked in the runs `RD_*` and `LK_locks`. In the others the system
really stops: a thread or a client ends, the resolver quits, or (`CL_*`) a mutex is
held by a thread that has nothing left to do within the bounds.

**Fairness.** `MSRProtocol` assumes weak fairness of the resolver's step that is due,
of `connect()`, of the heart beat in `attach()` and of the end of a request's wait.
The code justifies each: the resolver has a thread of its own in a loop whose waits
are all bounded (100 ms for a message, 2 s for a heart beat), and every wait of the
client has an end too (10 s in `connect()` and `attach()`, 2 s for a heart beat or the
answer to LOADSYMS, 100 s for a lookup, 100 ms in `unload_symbols()`), so `WF` says no more than that a
thread that is not blocked runs and time passes. `Start`, `Ask`, `Exit`, `Crash`,
`Interrupt`, `Stop`, `Killed`, `Beat` and `GaveUp` need not happen. For `LOADSYMS`, whose answer may take
any number of heart beats, termination rests on `MaxBeats`: a download ends.
Elsewhere no liveness is claimed. The spin locks of the detector give no
guarantee to a waiting thread, so "an access returns" is true of no fairness the
code justifies; what can be said, that no set of threads waits in a circle, is
the safety property `NoWaitCycle`.

**Mutants.** The definitions named `Mut...` stand before the definition they
distort, and are used by none. PROJECT.json says which property notices which.

## 4. The main properties

* `NoFalseAlarm`, `ProgramHasRace` (action properties): every race handed to the
  callback is a pair of accesses of two running threads, one of them a write, the
  first on record and not ordered before the second. In `DRaceClient` the record
  is written when the program acts, not when the detector hears of it. There the property
  holds where the first thread starts all others and ends last and no mutex is locked
  twice; the run `CL_recursive` and the configuration `CL_fork` (section 3) show what
  happens otherwise.
* `NoMissedRace`: the converse at the interface, but for the exceptions above.
* `NoFutureKnowledge`: an entry for a thread, in whichever clock, is 0 or an
  epoch that thread has reached while running. An entry too high silences races.
* `OneReadMode`: a variable has an exclusive reader or at least two shared ones, one epoch each.
* `Serialised`, `NoDanglingVar`, `NoWaitCycle`: see `FTLocking`.
* `DeliveredOnce`, `ReportedStack`: an access is new when it is handed over and is
  reported under the stack it was made under; holds because every call and return
  flushes first. `ExcludedNotRecorded`, `TrackedAgain`: regions and samples share a
  counter and a pointer and do not disturb one another: nothing is recorded in a region
  entered after the thread's first event, and outside all regions a sampled call is
  recorded, unless `disable()` was called on a disabled tracker (nested regions, a region
  in an unsampled call, two unsampled calls in a row). `DepotFollows`, `FramesKept`: dropped pushes and skipped returns leave
  shadow stack and depot in step, and no live frame is popped.
* `AnsweredIsServed`, `UnloadConfirmed`, `AttachedToMe`: what a thread gets was done
  for it, also when a killed client left a request behind, but for the exceptions named
  in section 2. `ResolverFree` and, through
  the fairness of `SymbolService`, `ServiceKept`: neither side waits for ever.
* `LimitKept`, `CountMatches`, `OnlyWantedStreamed`, `OnlyWantedReported`,
  `WantedReported`, `InstrumentedRight`: see `RaceCollector`.

## 5. Theorems

Proved by TLAPS for any sets of threads, mutexes, identifiers, locations, blocks,
modules and races, any clock width and any bound:

| theorem | says | assumption beyond the constants' |
|---|---|---|
| `TypeCorrect` | `Spec => []TypeOK` | - |
| `ClocksSound` | `Spec => []NoFutureKnowledge` | `NoWrap` |
| `EpochsNameTheirThread` | `Spec => []OwnTid` | `NoWrap` |
| `ReadModesExclusive` | `Spec => []OneReadMode` | - |
| `OnlyConflictsReported` | `Spec => []ReportsAreConflicts` | - |
| `NoFalseAlarms` | `RDSpec => NoFalseAlarm` | `NoWrap`, `Premises` |
| `KnowledgeSound` | `RDSpec => []RDInv`, the invariant behind it | `NoWrap`, `Premises` |
| `MissesNoRace` | `RDSpec => []NoMissedRace` | `NoWrap`, `BlocksApart` |
| `LTypeCorrect` | `LSpec => []LTypeOK` | - |
| `NoDeadlock` | `LSpec => []NoWaitCycle` | - |
| `AccessesSerialised` | `LSpec => []Serialised` | `~RacyFree` |
| `NoUseAfterErase` | `LSpec => []NoDanglingVar` | `~RacyFree` |
| `CTypeCorrect` | `CSpec => []CTypeOK` | - |
| `TTTypeCorrect` | `TTSpec => []TTTypeOK` | - |
| `AccessesDeliveredOnce` | `TTSpec => []DeliveredOnce` | - |
| `RegionsExcluded` | `TTSpec => []ExcludedNotRecorded` | - |
| `TrackingResumes` | `TTSpec => []TrackedAgain` | - |
| `DepotInStep` | `TTSpec => []DepotFollows` | - |
| `StacksReported` | `TTSpec => []ReportedStack` | - |
| `ProgramFramesKept` | `TTSpec => []FramesKept` | - |
| `RCTypeCorrect` | `RCSpec => []RCTypeOK` | - |
| `InstrumentationRight` | `RCSpec => []InstrumentedRight` | - |
| `LimitHolds` | `RCSpec => []LimitKept` | - |
| `CountRight` | `RCSpec => []CountMatches` | - |
| `StreamFiltered`, `ReportFiltered` | `RCSpec => []OnlyWantedStreamed`, `[]OnlyWantedReported` | - |
| `WantedRacesReported` | `RCSpec => []WantedReported` | - |
| `MSRTypeCorrect` | `MSpec => []MTypeOK` | - |
| `AttachedToOwnProcess` | `MSpec => []AttachedToMe` | - |
| `OnlyServedAnswered` | `MSpec => AnsweredIsServed` | - |
| `UnloadAsserted` | `MSpec => UnloadConfirmed` | - |
| `ServiceImplemented` | every step of `MSpec` is a step of `SymbolService` or a stutter | - |

`NoWrap` is `MaxClock < Multiplier`: no thread exhausts its clock values. The
constants' own assumptions are what the code or the platform gives: thread ids are
positive, a buffer has a place, a client is started at least once, `Null` is no
thread, request or module, a module that is loaded is not empty, threads are
finitely many. TLC evaluates all of them in the runs.

*Clocks.* `NoFutureKnowledge` is not inductive: that `inc_vc()` writes the
caller's own entry depends on the packed id unpacking to the caller.
`ClockInv` adds the type and `EpochInRange` (the id of a running
thread lies between its first epoch and the bound). `Unpack` is the
arithmetic: dividing undoes packing while the clock is below `Multiplier`. A step either
only starts and advances threads (`OldClocks`: what was reached stays reached),
merges clocks (`ClockMerge`, by `UpdateEntry`), or ends a thread (`ClockCleanup`:
its entry goes from all three tables, which is why skipping one breaks it).

*No false alarm.* This is the theorem the tool stands on: what FastTrack keeps,
one write epoch and one read epoch or a set per location, packed and compared entry by
entry, never makes it report accesses that are ordered. The two sides are compared
clock by clock. `Recorded(u)` is the set of the epochs of `u` in
the variables, each with the clock the reference has for the same access; `Agree`
says that a clock of the detector covers each of them that the reference's clock in
the same place covers, and `ClocksAgree` says so for every thread and every mutex.
The converse is false, and need not hold: the detector knows more after the release
of an inner lock. `ClocksAgree` is not inductive alone. That a release hands over
all of `u`'s accesses needs that all their epochs have been reached
(`EpochsNamed`); that an access of now is on nobody's clock needs that nobody knows
as much of `u` as `u` (`OwnClockLeads`); that memory handed out again starts anew
needs that the detector's sizes are the program's (`SizesKnown`). `Base` gathers what
of this needs neither `~TidReuse` nor `Identifier = {}`.
`AgreeMerged` carries the agreement over merges, that is acquire and join;
`KnowledgeSound` is the invariant for all steps; in `NoFalseAlarms` a report
is then an epoch the thread's clock does not cover, hence one the reference's
does not cover.

`Premises` names what the theorem cannot do without. Each part is a flaw of the code,
and without it a false alarm follows: `~TidReuse` and `BlocksApart` (no block begins
where another ends, as `deallocate()` erases the wrong size) have their
counterexamples in the configurations `RD_reuse` and `RD_blocks`, `Identifier = {}` (no `happens_before()`, whose edges
do not compose) in the run `RD_transitive`. Forks, joins, finishes, recursive mutexes,
accesses, heap blocks and `finalize()` are all in.

*No missed race.* The converse asks more of the history, because FastTrack forgets:
a write drops all that came before it, and a read drops the reader's own earlier
reads. `LastWriteLast` says why that loses nothing as long as no race was reported
for the location: whoever knows the last write knows all earlier writes, and every
read that is no longer kept; and each reader that is kept knew the last write when it
read. So an access that finds the last write and the kept reads ordered finds all
the history ordered (`ReadCovered`, `WriteCovered`). The test itself is right in this
direction if no clock of the detector claims an access the reference's clock does not
(`ClocksModest`, the other half of `Agree`). For a mutex this compares with the clock of
its owner while it is held (`LockOrder`): the release of an inner lock tells the
detector already what only the outer one will order. `OnRecord` ties the records to running
threads: both exceptions of `NoMissedRace` enter there, early reads by `early`,
ended threads by `ended`. A thread that does not run is on nobody's record but that of
locations in `ended`, so an id that is used again brings false alarms but hides nothing; and
edges that do not compose are edges too few. Neither premise is needed here.

*Locks.* `LockInv` says who holds which lock at which point of its call.
Then a holder of a `VarState` waits for `g_lock` only, a holder of `g_lock` for
`vars_spl` only, and a holder of `vars_spl` for nothing, and a set of
threads each waiting for another in the set is impossible. `PtrInv` adds that
no thread accesses what another frees and that the pointer an access holds is
the one in the table; two accesses to a location then have the same `VarState`,
whose lock only one holds.

*Client.* That no access is put behind the end of a buffer needs `RoomLeft`: a
full buffer is processed before anything else. That a mutex is not given up more
often than it was taken needs `Arguments` and `Owned`: the mutex noted before a
wrapped call is, until the call ends, held by the thread. The detector's half
(`DetectorTypes`) is the type theorem of `FastTrack` again.

*Thread state.* `TTInv` is the conjunction of six of the seven properties and two facts about
what is not visible while the tracker is disabled. `StoredPtr`: a thread
that has not been excluded yet has set nothing but empty buffers aside, and only a
second `disable()` in a row sets null aside; `enable()` would otherwise bring back
anything. `RegionsCounted`: the counter is at least the number of regions the
program is in, so that it is 0 only outside all of them.
One lemma per action, with `FlushedPtr` and `FlushedAccesses` for what every flush
leaves, `Periods` for the arithmetic of the sampling period and `LargestIndex` and
`FramesBelow` for the frame a return finds.
`FramesKept` says the frames of the program are a subsequence of the shadow stack.
Its step proofs (`AppendSubsequence`, `ReturnSubsequence`) carry the increasing
function of indices that witnesses it: a call extends it, and a return cuts it, because the
return takes the highest frame of its call site and so removes none below the
one that returned.

*Collector.* `LimitKept` is not inductive: between the test of the limit and the lock
a thread is past the limit and not counted. `LimitShared` counts those threads too.
The filters promise something about the modules in memory and look at an index and a cache that
outlive them: `IndexUsed`, `CacheIndexed` and `IndexExact` say how much of
them is true, `IndexExact` only until a place is used again, which is the exception
`Settled` makes. `StacksSeen` ties the filter of duplicates to what the sinks
got: a stack seen is reported, or is one of a race that nobody wanted.
`AddressSuppressed` shows that the search for the nearest annotation finds one
exactly when there is one.

*Resolver.* `MInv` says, for each phase of the client, where the resolver may be and
what the slot then holds: `Connecting`, `Attaching`, `Serving`. The last has one clause in
`Waiting(t)` for every place where the answer to `t` can be while the resolver is in its
loop, and one in `Forsaken(t)` for every way it can have left it: after an exception or
the end of its loop it has answered or leaves the request as it is, killed it may also leave
a WAIT or the client's CONFIRM, and stopped it leaves EXIT, unless the request came
after that. `Mine` allows Ctrl-C to have closed the process the resolver was attached to.
All three hold only while `Sound` does; `OneAsker` (from which the mutex of
`MTypeOK` follows) and `ReadyIsIdle` always. The lemmas go by what a step changes:
`FailKept`, `InterruptKept`, `StopKept` and `KilledKept` are the ends of the resolver.
`ServiceImplemented` maps the slot, the events and both processes to three variables of
`SymbolService` and shows the initial states and every step, crashes, restarts and
stops included, to implement it; its fairness is left to the run.

Only model-checked: `ProgramHasRace` (its invariant relates the detector to the program
behind its buffers), `ResolverFree`, the temporal part of `ServiceKept`, and
the violations.
Outside the prover's reach in any case: liveness, `ENABLED`, induction over data.

## 6. Not modelled

* Ring buffer and the extsan detector: extsan uses members its own header no longer
  has, does not implement the detector interface, and is to be removed or re-enabled
  (`src/ManagedResolver/CMakeLists.txt:19`); nothing else uses the ring buffer.
* Lossy counting: the only call that feeds the histogram is commented out.
* Of the client: waits for several Windows objects, shared locks (for FastTrack the
  same as exclusive ones), `handle_ext_state()`, the instrumentation's code generation.
* Of the resolver: the debugging interfaces, and the console of its controller. The
  headers under `src/ManagedResolver/include/prebuild`, most of the lines of the
  repository, are generated declarations of these interfaces and hold no logic.
* `getCurrentStack()`: no caller.
* `tsan` (a prebuilt library), symbol lookup, report formatting, configuration, library
  loading, binary decoder, GUI: input and output only.

## 7. What is left

Proofs: `ProgramHasRace` for a process without recursive mutexes
whose first thread starts all others and ends last. Without the last condition it
does not hold for three threads: `event_thread_exit()` joins with the runtime thread,
and once that is gone, an ended thread stays in the detector and a thread that is forked
late has no parent.
