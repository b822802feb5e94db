----------------------------- MODULE FastTrack -----------------------------
(***************************************************************************)
(* The standalone FastTrack detector (standalone/detectors/fasttrack): one *)
(* action per call of the Detector interface, each call taken as one step. *)
(*                                                                         *)
(* A VC_ID packs a thread id and that thread's clock into one number, as   *)
(* the code does.  A vector clock is a total function whose absent entries *)
(* are 0: that is what get_id_by_tid() returns for them, and update()      *)
(* never stores a 0.  A VarState's shared_vc is the set of its ids; the    *)
(* code keeps at least two of them in it, so {} stands for nullptr.  What  *)
(* the order of that vector decides, the reader is_rw_sh_race() names, is  *)
(* left open.                                                              *)
(***************************************************************************)
EXTENDS Detector

CONSTANTS
  Multiplier,  \* 2^16 clocks per thread on 32 bit, 2^32 on 64 bit
  MaxClock     \* bound: how often one thread may increment its clock

ASSUME MultiplierAssumption == Multiplier \in Nat \ {0}
ASSUME MaxClockAssumption == MaxClock \in Nat

VARIABLES
  threads,         \* keys of the map of running threads
  id,              \* ThreadState::id
  vc,              \* ThreadState's vector clock
  locks,           \* keys of the lock table
  lockVC,          \*   and its values
  happens_states,  \* keys of the table of happens-before identifiers
  happensVC,       \*   and its values
  vars,            \* keys of the table of variables
  w_id,            \* VarState::w_id
  r_id,            \* VarState::r_id
  shared_vc,       \* VarState::shared_vc
  allocs,          \* sizes of the known blocks, by their first address
  report           \* races handed to the callback during the last call

threadVars == <<threads, id, vc>>
syncVars == <<locks, lockVC, happens_states, happensVC>>
varVars == <<vars, w_id, r_id, shared_vc>>
ftVars == <<threadVars, syncVars, varVars, allocs, report>>

-----------------------------------------------------------------------------
(* Vector clocks and epochs. *)

make_tid(i) == i \div Multiplier
make_clock(i) == i % Multiplier
\* Mutant of make_id: the thread id is not shifted.
MutNoShift(t) == t

make_id(t) == t * Multiplier

VAR_NOT_INIT == 0
NoAlloc == -1

EmptyVC == [t \in Tid |-> 0]
update(v, other) == [t \in Tid |-> IF other[t] > v[t] THEN other[t] ELSE v[t]]
\* Mutant of delete_vc: a clock with the entry cut out, which is no clock.
MutCutEntry(v, t) == [u \in Tid \ {t} |-> v[u]]

delete_vc(v, t) == [v EXCEPT ![t] = 0]
get_clock_by_tid(v, t) == IF t \in Tid THEN make_clock(v[t]) ELSE 0

get_tid(t) == make_tid(id[t])

\* The bound: t may still increment its clock.
CanInc(t) == id[t] < make_id(t) + MaxClock

\* inc_vc(): the id and the vector clock of t after it.
IncId(t) == id[t] + 1
IncVC(t) == [vc[t] EXCEPT ![make_tid(IncId(t))] = IncId(t)]

-----------------------------------------------------------------------------
Init ==
  /\ threads = {}
  /\ id = [t \in Tid |-> 0]
  /\ vc = [t \in Tid |-> EmptyVC]
  /\ locks = {}
  /\ lockVC = [m \in Mutex |-> EmptyVC]
  /\ happens_states = {}
  /\ happensVC = [i \in Identifier |-> EmptyVC]
  /\ vars = {}
  /\ w_id = [x \in Addr |-> VAR_NOT_INIT]
  /\ r_id = [x \in Addr |-> VAR_NOT_INIT]
  /\ shared_vc = [x \in Addr |-> {}]
  /\ allocs = [x \in Addr |-> NoAlloc]
  /\ report = {}

-----------------------------------------------------------------------------
(* Threads. *)

\* fork() with a known parent.  The thread table is filled with emplace(): the
\* state of a child that is already there is kept.
ForkChild(parent, child) ==
  LET new == {child} \ threads IN
  /\ parent \in threads
  /\ CanInc(parent)
  /\ threads' = threads \cup {child}
  /\ id' = [t \in Tid |-> IF t \in new THEN make_id(t)
                          ELSE IF t = parent THEN IncId(t) ELSE id[t]]
  /\ vc' = [t \in Tid |-> IF t \in new \cup {parent} THEN IncVC(parent) ELSE vc[t]]
  /\ report' = {}
  /\ UNCHANGED <<syncVars, varVars, allocs>>

\* fork() with a parent the detector does not know.
ForkRoot(parent, child) ==
  LET new == {child} \ threads IN
  /\ parent \notin threads
  /\ threads' = threads \cup {child}
  /\ id' = [t \in Tid |-> IF t \in new THEN make_id(t) ELSE id[t]]
  /\ vc' = [t \in Tid |-> IF t \in new THEN [EmptyVC EXCEPT ![t] = make_id(t)]
                          ELSE vc[t]]
  /\ report' = {}
  /\ UNCHANGED <<syncVars, varVars, allocs>>

Fork(parent, child) == ForkChild(parent, child) \/ ForkRoot(parent, child)

\* Mutant of cleanup: the clocks of identifiers are skipped.
MutIdentifiersKept(tid, tvc) ==
  /\ threads' = threads \ {tid}
  /\ id' = [id EXCEPT ![tid] = 0]
  /\ vc' = [t \in Tid |-> IF t = tid THEN EmptyVC ELSE delete_vc(tvc[t], tid)]
  /\ lockVC' = [m \in Mutex |-> delete_vc(lockVC[m], tid)]
  /\ happensVC' = happensVC

\* cleanup(): the entry of an ended thread leaves every vector clock of the
\* three tables.  tvc are the clocks of the threads at that point.
cleanup(tid, tvc) ==
  /\ threads' = threads \ {tid}
  /\ id' = [id EXCEPT ![tid] = 0]
  /\ vc' = [t \in Tid |-> IF t = tid THEN EmptyVC ELSE delete_vc(tvc[t], tid)]
  /\ lockVC' = [m \in Mutex |-> delete_vc(lockVC[m], tid)]
  /\ happensVC' = [i \in Identifier |-> delete_vc(happensVC[i], tid)]

\* join() of two known threads; with an unknown one it changes nothing.
Join(parent, child) ==
  /\ parent \in threads
  /\ child \in threads
  /\ CanInc(child)
  /\ cleanup(child, [vc EXCEPT ![parent] = update(vc[parent], IncVC(child))])
  /\ report' = {}
  /\ UNCHANGED <<locks, happens_states, varVars, allocs>>

Finish(tid) ==
  /\ cleanup(tid, vc)
  /\ report' = {}
  /\ UNCHANGED <<locks, happens_states, varVars, allocs>>

-----------------------------------------------------------------------------
(* Synchronisation. *)

\* Mutant of Acquire: the clock of the lock is not merged into the thread's.
MutAcquireNothing(t, m) ==
  /\ t \in threads
  /\ locks' = locks \cup {m}
  /\ report' = {}
  /\ UNCHANGED <<threadVars, lockVC, happens_states, happensVC, varVars, allocs>>

\* acquire() with recursive <= 1; a recursive acquire changes nothing.
Acquire(t, m) ==
  /\ t \in threads
  /\ locks' = locks \cup {m}
  /\ vc' = [vc EXCEPT ![t] = update(vc[t], lockVC[m])]
  /\ report' = {}
  /\ UNCHANGED <<threads, id, lockVC, happens_states, happensVC, varVars, allocs>>

ReleaseUnknown(t, m) ==
  /\ t \in threads
  /\ m \notin locks
  /\ locks' = locks \cup {m}
  /\ report' = {}
  /\ UNCHANGED <<threadVars, lockVC, happens_states, happensVC, varVars, allocs>>

ReleaseKnown(t, m) ==
  /\ t \in threads
  /\ m \in locks
  /\ CanInc(t)
  /\ id' = [id EXCEPT ![t] = IncId(t)]
  /\ vc' = [vc EXCEPT ![t] = IncVC(t)]
  /\ lockVC' = [lockVC EXCEPT ![m] = update(lockVC[m], IncVC(t))]
  /\ report' = {}
  /\ UNCHANGED <<threads, locks, happens_states, happensVC, varVars, allocs>>

Release(t, m) == ReleaseUnknown(t, m) \/ ReleaseKnown(t, m)

\* happens_before() hands over the caller's own entry, not its vector clock.
HappensBefore(t, i) ==
  /\ t \in threads
  /\ CanInc(t)
  /\ id' = [id EXCEPT ![t] = IncId(t)]
  /\ vc' = [vc EXCEPT ![t] = IncVC(t)]
  /\ happens_states' = happens_states \cup {i}
  /\ happensVC' = [happensVC EXCEPT ![i] =
                     update(@, [EmptyVC EXCEPT ![make_tid(IncId(t))] = IncId(t)])]
  /\ report' = {}
  /\ UNCHANGED <<threads, locks, lockVC, varVars, allocs>>

\* Mutant of HappensAfter: the clock of the identifier is not merged.
MutAfterNothing(t, i) ==
  /\ t \in threads
  /\ happens_states' = happens_states \cup {i}
  /\ report' = {}
  /\ UNCHANGED <<threadVars, locks, lockVC, happensVC, varVars, allocs>>

\* happens_after(): an identifier seen for the first time has an empty clock.
HappensAfter(t, i) ==
  /\ t \in threads
  /\ happens_states' = happens_states \cup {i}
  /\ vc' = [vc EXCEPT ![t] = update(vc[t], happensVC[i])]
  /\ report' = {}
  /\ UNCHANGED <<threads, id, locks, lockVC, happensVC, varVars, allocs>>

-----------------------------------------------------------------------------
(* Memory accesses: the rules of FastTrack, under the names of the code's  *)
(* own statistics counters.                                                *)

\* Mutant of Unordered: > for >=.
MutStrict(t, e) ==
  /\ e # VAR_NOT_INIT
  /\ get_tid(t) # make_tid(e)
  /\ make_clock(e) > get_clock_by_tid(vc[t], make_tid(e))

\* The test the four is_*_race() functions share: the access recorded as e is
\* not known to precede what t does now.
Unordered(t, e) ==
  /\ e # VAR_NOT_INIT
  /\ get_tid(t) # make_tid(e)
  /\ make_clock(e) >= get_clock_by_tid(vc[t], make_tid(e))

is_ww_race(t, x) == Unordered(t, w_id[x])
is_wr_race(t, x) == Unordered(t, w_id[x])
is_rw_ex_race(t, x) == Unordered(t, r_id[x])
is_rw_sh_race(t, x) == {make_tid(e) : e \in {f \in shared_vc[x] : Unordered(t, f)}} \ {0}

is_read_shared(x) == shared_vc[x] # {}

\* Mutant of report_race: ended threads are reported as well.
MutReportEnded(thr1, thr2, w1, w2, x) ==
  {[addr |-> x, first |-> thr1, second |-> thr2, wr1 |-> w1, wr2 |-> w2]}

\* report_race(): silent when one of the two threads is gone.
report_race(thr1, thr2, w1, w2, x) ==
  IF {thr1, thr2} \subseteq threads
  THEN {[addr |-> x, first |-> thr1, second |-> thr2, wr1 |-> w1, wr2 |-> w2]}
  ELSE {}

wr_reports(t, x) ==
  IF is_wr_race(t, x)
  THEN report_race(make_tid(w_id[x]), get_tid(t), TRUE, FALSE, x) ELSE {}

ww_reports(t, x) ==
  IF is_ww_race(t, x)
  THEN report_race(make_tid(w_id[x]), get_tid(t), TRUE, TRUE, x) ELSE {}

rw_ex_reports(t, x) ==
  IF is_rw_ex_race(t, x)
  THEN report_race(make_tid(r_id[x]), get_tid(t), FALSE, TRUE, x) ELSE {}

\* VarState::update()
update_write(t, x) ==
  /\ shared_vc' = [shared_vc EXCEPT ![x] = {}]
  /\ r_id' = [r_id EXCEPT ![x] = VAR_NOT_INIT]
  /\ w_id' = [w_id EXCEPT ![x] = id[t]]

ReadSameEpoch(t, x) == id[t] = r_id[x] \/ id[t] \in shared_vc[x]

read_same_epoch(t, x) ==
  /\ ReadSameEpoch(t, x)
  /\ report' = {}
  /\ UNCHANGED <<w_id, r_id, shared_vc>>

read_exclusive(t, x) ==
  /\ ~ReadSameEpoch(t, x)
  /\ ~is_read_shared(x)
  /\ r_id[x] = VAR_NOT_INIT \/ make_tid(r_id[x]) = get_tid(t)
  /\ report' = wr_reports(t, x)
  /\ r_id' = [r_id EXCEPT ![x] = id[t]]
  /\ UNCHANGED <<w_id, shared_vc>>

\* Mutants of read_share: the first reader is lost, or its epoch stays in r_id.
MutFirstReaderLost(t, x) ==
  /\ ~ReadSameEpoch(t, x)
  /\ ~is_read_shared(x)
  /\ r_id[x] # VAR_NOT_INIT /\ make_tid(r_id[x]) # get_tid(t)
  /\ report' = wr_reports(t, x)
  /\ r_id' = [r_id EXCEPT ![x] = id[t]]
  /\ UNCHANGED <<w_id, shared_vc>>

MutExclusiveKept(t, x) ==
  /\ ~ReadSameEpoch(t, x)
  /\ ~is_read_shared(x)
  /\ r_id[x] # VAR_NOT_INIT /\ make_tid(r_id[x]) # get_tid(t)
  /\ report' = wr_reports(t, x)
  /\ shared_vc' = [shared_vc EXCEPT ![x] = {r_id[x], id[t]}]
  /\ UNCHANGED <<w_id, r_id>>

read_share(t, x) ==
  /\ ~ReadSameEpoch(t, x)
  /\ ~is_read_shared(x)
  /\ r_id[x] # VAR_NOT_INIT /\ make_tid(r_id[x]) # get_tid(t)
  /\ report' = wr_reports(t, x)
  /\ shared_vc' = [shared_vc EXCEPT ![x] = {r_id[x], id[t]}]
  /\ r_id' = [r_id EXCEPT ![x] = VAR_NOT_INIT]
  /\ UNCHANGED w_id

read_shared(t, x) ==
  /\ ~ReadSameEpoch(t, x)
  /\ is_read_shared(x)
  /\ report' = wr_reports(t, x)
  /\ shared_vc' = [shared_vc EXCEPT ![x] =
                     {e \in @ : make_tid(e) # get_tid(t)} \cup {id[t]}]
  /\ UNCHANGED <<w_id, r_id>>

Read(t, x) ==
  /\ t \in threads
  /\ vars' = vars \cup {x}
  /\ \/ read_same_epoch(t, x)
     \/ read_exclusive(t, x)
     \/ read_share(t, x)
     \/ read_shared(t, x)
  /\ UNCHANGED <<threadVars, syncVars, allocs>>

write_same_epoch(t, x) ==
  /\ id[t] = w_id[x]
  /\ report' = {}
  /\ UNCHANGED <<w_id, r_id, shared_vc>>

\* The first write to x is recorded without any check.
write_initial(t, x) ==
  /\ id[t] # w_id[x]
  /\ w_id[x] = VAR_NOT_INIT
  /\ report' = {}
  /\ update_write(t, x)

write_exclusive(t, x) ==
  /\ id[t] # w_id[x]
  /\ w_id[x] # VAR_NOT_INIT
  /\ ~is_read_shared(x)
  /\ report' = ww_reports(t, x) \cup rw_ex_reports(t, x)
  /\ update_write(t, x)

\* Of several racing readers one is reported.
write_shared(t, x) ==
  /\ id[t] # w_id[x]
  /\ w_id[x] # VAR_NOT_INIT
  /\ is_read_shared(x)
  /\ \/ /\ is_rw_sh_race(t, x) = {}
        /\ report' = ww_reports(t, x)
     \/ \E r \in is_rw_sh_race(t, x) :
          report' = ww_reports(t, x) \cup report_race(r, get_tid(t), FALSE, TRUE, x)
  /\ update_write(t, x)

Write(t, x) ==
  /\ t \in threads
  /\ vars' = vars \cup {x}
  /\ \/ write_same_epoch(t, x)
     \/ write_initial(t, x)
     \/ write_exclusive(t, x)
     \/ write_shared(t, x)
  /\ UNCHANGED <<threadVars, syncVars, allocs>>

-----------------------------------------------------------------------------
(* Heap blocks. *)

Allocate(b, n) ==
  /\ allocs' = [allocs EXCEPT ![b] = IF @ = NoAlloc THEN n ELSE @]
  /\ report' = {}
  /\ UNCHANGED <<threadVars, syncVars, varVars>>

\* Mutant of Deallocate: the last location is left.
MutFreeShort(b) ==
  LET gone == Within(b, allocs[b] - 1)
  IN
  /\ vars' = vars \ gone
  /\ w_id' = [x \in Addr |-> IF x \in gone THEN VAR_NOT_INIT ELSE w_id[x]]
  /\ r_id' = [x \in Addr |-> IF x \in gone THEN VAR_NOT_INIT ELSE r_id[x]]
  /\ shared_vc' = [x \in Addr |-> IF x \in gone THEN {} ELSE shared_vc[x]]
  /\ allocs' = [x \in Addr |-> IF x = b + allocs[b] THEN NoAlloc ELSE allocs[x]]
  /\ report' = {}
  /\ UNCHANGED <<threadVars, syncVars>>

\* deallocate(): the loop leaves "address" at the end of the block, and that is
\* the key erased from the table of blocks.  A block that is not in the table
\* is entered with size 0 by operator[], and erased again.
Deallocate(b) ==
  LET size == IF allocs[b] = NoAlloc THEN 0 ELSE allocs[b]
      gone == Within(b, size)
  IN
  /\ vars' = vars \ gone
  /\ w_id' = [x \in Addr |-> IF x \in gone THEN VAR_NOT_INIT ELSE w_id[x]]
  /\ r_id' = [x \in Addr |-> IF x \in gone THEN VAR_NOT_INIT ELSE r_id[x]]
  /\ shared_vc' = [x \in Addr |-> IF x \in gone THEN {} ELSE shared_vc[x]]
  /\ allocs' = [x \in Addr |-> IF x = b + size THEN NoAlloc ELSE allocs[x]]
  /\ report' = {}
  /\ UNCHANGED <<threadVars, syncVars>>

-----------------------------------------------------------------------------
Finalize ==
  /\ threads' = {}
  /\ id' = [t \in Tid |-> 0]
  /\ vc' = [t \in Tid |-> EmptyVC]
  /\ locks' = {}
  /\ lockVC' = [m \in Mutex |-> EmptyVC]
  /\ happens_states' = {}
  /\ happensVC' = [i \in Identifier |-> EmptyVC]
  /\ vars' = {}
  /\ w_id' = [x \in Addr |-> VAR_NOT_INIT]
  /\ r_id' = [x \in Addr |-> VAR_NOT_INIT]
  /\ shared_vc' = [x \in Addr |-> {}]
  /\ allocs' = [x \in Addr |-> NoAlloc]
  /\ report' = {}

Next ==
  \/ \E p, c \in Tid : Fork(p, c)
  \/ \E p, c \in Tid : Join(p, c)
  \/ \E t \in Tid : Finish(t)
  \/ \E t \in Tid, m \in Mutex : Acquire(t, m)
  \/ \E t \in Tid, m \in Mutex : Release(t, m)
  \/ \E t \in Tid, i \in Identifier : HappensBefore(t, i)
  \/ \E t \in Tid, i \in Identifier : HappensAfter(t, i)
  \/ \E t \in Tid, x \in Addr : Read(t, x)
  \/ \E t \in Tid, x \in Addr : Write(t, x)
  \/ \E b \in Block : Allocate(b[1], b[2])
  \/ \E b \in Block : Deallocate(b[1])
  \/ Finalize

Spec == Init /\ [][Next]_ftVars

-----------------------------------------------------------------------------
(* Properties. *)

VC_ID == Nat
VC == [Tid -> VC_ID]

TypeOK ==
  /\ threads \subseteq Tid
  /\ id \in VC
  /\ vc \in [Tid -> VC]
  /\ locks \subseteq Mutex
  /\ lockVC \in [Mutex -> VC]
  /\ happens_states \subseteq Identifier
  /\ happensVC \in [Identifier -> VC]
  /\ vars \subseteq Addr
  /\ w_id \in [Addr -> VC_ID]
  /\ r_id \in [Addr -> VC_ID]
  /\ shared_vc \in [Addr -> SUBSET VC_ID]
  /\ allocs \in [Addr -> Nat \cup {NoAlloc}]
  /\ report \subseteq Race

\* A thread's packed id still names that thread: "returns thread id"
\* (threadstate.h, get_tid).  All race checks and all reports go through it.
OwnTid == \A t \in threads : get_tid(t) = t

\* e is absent, or an epoch the running thread u has reached.
Reached(e, u) == e # 0 => u \in threads /\ make_id(u) <= e /\ e <= id[u]

\* No vector clock of a thread, a lock or an identifier is ahead of the thread
\* it speaks about, and none speaks about a thread that has ended (cleanup()).
\* An entry that is too large would hide every later race of that thread.
NoFutureKnowledge ==
  \A u \in Tid :
    /\ \A t \in Tid : Reached(vc[t][u], u)
    /\ \A m \in Mutex : Reached(lockVC[m][u], u)
    /\ \A i \in Identifier : Reached(happensVC[i][u], u)

\* A running thread's epoch lies in its own range of ids.
EpochInRange == \A t \in threads : make_id(t) <= id[t] /\ id[t] <= make_id(t) + MaxClock

\* The inductive invariant behind OwnTid and NoFutureKnowledge.
ClockInv == TypeOK /\ EpochInRange /\ NoFutureKnowledge

\* A variable is in one read mode: never read, read by one thread (r_id), or
\* read-shared with one epoch for each of at least two threads (VarState).
OneReadMode ==
  \A x \in Addr :
    /\ is_read_shared(x) => /\ r_id[x] = VAR_NOT_INIT
                            /\ \E e, f \in shared_vc[x] : make_tid(e) # make_tid(f)
    /\ \A e, f \in shared_vc[x] : make_tid(e) = make_tid(f) => e = f
    /\ x \notin vars => /\ w_id[x] = VAR_NOT_INIT /\ r_id[x] = VAR_NOT_INIT
                       /\ ~is_read_shared(x)

\* Every race handed to the callback is between two different running threads,
\* on a variable of the table, and at least one access is a write.
ReportsAreConflicts ==
  \A r \in report : /\ r.first # r.second
                    /\ {r.first, r.second} \subseteq threads
                    /\ r.addr \in vars
                    /\ r.wr1 \/ r.wr2

=============================================================================
