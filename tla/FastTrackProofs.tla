-------------------------- MODULE FastTrackProofs --------------------------
(***************************************************************************)
(* Theorems about the FastTrack detector, for every set of threads, locks, *)
(* identifiers, locations and blocks, and every bound on the clocks.       *)
(***************************************************************************)
EXTENDS FastTrack, TLAPS

USE TidAssumption, AddrAssumption, BlockAssumption,
    MultiplierAssumption, MaxClockAssumption

-----------------------------------------------------------------------------
(* Arithmetic of packed ids. *)

\* Unpacking undoes packing as long as the clock has not wrapped.
LEMMA Unpack ==
  ASSUME NEW t \in Nat, NEW c \in Nat, c < Multiplier
  PROVE  /\ make_tid(make_id(t) + c) = t
         /\ make_clock(make_id(t) + c) = c
<1> DEFINE i == t * Multiplier + c
           q == i \div Multiplier
           r == i % Multiplier
<1>1. i \in Nat
  OBVIOUS
<1>2. q \in Nat /\ r \in Nat /\ r < Multiplier /\ i = Multiplier * q + r
  BY <1>1
<1>3. q = t
  <2>1. ~(q > t)
    <3> SUFFICES ASSUME q >= t + 1 PROVE FALSE
      BY <1>2
    <3> HIDE DEF q, r
    <3>1. Multiplier * q >= Multiplier * (t + 1)
      BY <1>2
    <3>2. Multiplier * (t + 1) = t * Multiplier + Multiplier
      OBVIOUS
    <3> QED BY <3>1, <3>2, <1>2
  <2>2. ~(q < t)
    <3> SUFFICES ASSUME t >= q + 1 PROVE FALSE
      BY <1>2
    <3> HIDE DEF q, r
    <3>1. Multiplier * t >= Multiplier * (q + 1)
      BY <1>2
    <3>2. Multiplier * (q + 1) = Multiplier * q + Multiplier
      BY <1>2
    <3> QED BY <3>1, <3>2, <1>2
  <2> QED BY <2>1, <2>2, <1>2
<1>4. r = c
  BY <1>2, <1>3
<1> QED
  BY <1>3, <1>4 DEF make_tid, make_clock, make_id

\* What the packing functions return for any number.
LEMMA PackTypes ==
  ASSUME NEW i \in Nat
  PROVE  /\ make_tid(i) \in Nat
         /\ make_clock(i) \in Nat
         /\ make_id(i) \in Nat
BY DEF make_tid, make_clock, make_id

-----------------------------------------------------------------------------
(* Types of the operations on vector clocks. *)

LEMMA EmptyType == EmptyVC \in VC
BY DEF EmptyVC, VC, VC_ID

LEMMA UpdateType ==
  ASSUME NEW v \in VC, NEW w \in VC
  PROVE  update(v, w) \in VC
BY DEF update, VC, VC_ID

LEMMA DeleteType ==
  ASSUME NEW v \in VC, NEW t
  PROVE  delete_vc(v, t) \in VC
BY DEF delete_vc, VC, VC_ID

LEMMA IncType ==
  ASSUME TypeOK, NEW t \in Tid
  PROVE  IncId(t) \in Nat /\ IncVC(t) \in VC
<1>1. IncId(t) \in Nat
  BY DEF TypeOK, IncId, VC, VC_ID
<1>2. vc[t] \in [Tid -> Nat]
  BY DEF TypeOK, VC, VC_ID
<1>3. IncVC(t) \in [Tid -> Nat]
  BY <1>1, <1>2 DEF IncVC
<1> QED
  BY <1>1, <1>3 DEF VC, VC_ID

LEMMA ReportType ==
  ASSUME TypeOK, NEW a, NEW b, NEW w1 \in BOOLEAN, NEW w2 \in BOOLEAN, NEW x \in Addr
  PROVE  report_race(a, b, w1, w2, x) \subseteq Race
<1>1. CASE {a, b} \subseteq threads
  <2>1. a \in Tid /\ b \in Tid
    BY <1>1 DEF TypeOK
  <2> QED BY <1>1, <2>1 DEF report_race, Race
<1>2. CASE ~({a, b} \subseteq threads)
  BY <1>2 DEF report_race
<1> QED
  BY <1>1, <1>2

-----------------------------------------------------------------------------
(* Type correctness. *)

LEMMA TypeInit == Init => TypeOK
BY EmptyType DEF Init, TypeOK, VC, VC_ID, VAR_NOT_INIT, NoAlloc

LEMMA TypeFork ==
  ASSUME TypeOK, NEW p \in Tid, NEW c \in Tid, Fork(p, c)
  PROVE  TypeOK'
<1>1. IncId(p) \in Nat /\ IncVC(p) \in VC
  BY IncType
<1>2. \A t \in Tid : make_id(t) \in Nat
  BY DEF make_id
<1>3. CASE ForkChild(p, c)
  BY <1>1, <1>2, <1>3 DEF ForkChild, TypeOK, VC, VC_ID, syncVars, varVars
<1>4. CASE ForkRoot(p, c)
  BY <1>2, <1>4 DEF ForkRoot, TypeOK, VC, VC_ID, EmptyVC, syncVars, varVars
<1> QED
  BY <1>3, <1>4 DEF Fork

LEMMA TypeCleanup ==
  ASSUME TypeOK, NEW tid \in Tid, NEW tvc \in [Tid -> VC], cleanup(tid, tvc),
         report' = {}, UNCHANGED <<locks, happens_states, varVars, allocs>>
  PROVE  TypeOK'
<1>1. \A t \in Tid : delete_vc(tvc[t], tid) \in VC
  BY DeleteType
<1>2. \A m \in Mutex : delete_vc(lockVC[m], tid) \in VC
  BY DeleteType DEF TypeOK
<1>3. \A i \in Identifier : delete_vc(happensVC[i], tid) \in VC
  BY DeleteType DEF TypeOK
<1>4. id' \in VC
  BY DEF cleanup, TypeOK, VC, VC_ID
<1> QED
  BY <1>1, <1>2, <1>3, <1>4, EmptyType DEF cleanup, TypeOK, varVars

LEMMA TypeEnd ==
  ASSUME TypeOK, NEW p \in Tid, NEW c \in Tid, Join(p, c) \/ Finish(c)
  PROVE  TypeOK'
<1>1. CASE Join(p, c)
  <2>1. [vc EXCEPT ![p] = update(vc[p], IncVC(c))] \in [Tid -> VC]
    BY IncType, UpdateType DEF TypeOK
  <2> QED BY <1>1, <2>1, TypeCleanup DEF Join
<1>2. CASE Finish(c)
  BY <1>2, TypeCleanup DEF Finish, TypeOK
<1> QED
  BY <1>1, <1>2

LEMMA TypeLock ==
  ASSUME TypeOK, NEW t \in Tid, NEW m \in Mutex, Acquire(t, m) \/ Release(t, m)
  PROVE  TypeOK'
<1>1. CASE Acquire(t, m)
  <2>1. update(vc[t], lockVC[m]) \in VC
    BY UpdateType DEF TypeOK
  <2> QED BY <1>1, <2>1 DEF Acquire, TypeOK, varVars
<1>2. CASE ReleaseUnknown(t, m)
  BY <1>2 DEF ReleaseUnknown, TypeOK, threadVars, varVars
<1>3. CASE ReleaseKnown(t, m)
  <2>1. IncId(t) \in Nat /\ IncVC(t) \in VC
    BY IncType
  <2>2. update(lockVC[m], IncVC(t)) \in VC
    BY <2>1, UpdateType DEF TypeOK
  <2>3. id' \in VC
    BY <1>3, <2>1 DEF ReleaseKnown, TypeOK, VC, VC_ID
  <2> QED BY <1>3, <2>1, <2>2, <2>3 DEF ReleaseKnown, TypeOK, varVars
<1> QED
  BY <1>1, <1>2, <1>3 DEF Release

LEMMA TypeEdge ==
  ASSUME TypeOK, NEW t \in Tid, NEW i \in Identifier,
         HappensBefore(t, i) \/ HappensAfter(t, i)
  PROVE  TypeOK'
<1>1. CASE HappensBefore(t, i)
  <2>1. IncId(t) \in Nat /\ IncVC(t) \in VC
    BY IncType
  <2> DEFINE own == [EmptyVC EXCEPT ![make_tid(IncId(t))] = IncId(t)]
  <2>2. own \in VC
    BY <2>1 DEF EmptyVC, VC, VC_ID
  <2>3. update(happensVC[i], own) \in VC
    BY <2>2, UpdateType DEF TypeOK
  <2>4. id' \in VC
    BY <1>1, <2>1 DEF HappensBefore, TypeOK, VC, VC_ID
  <2> QED BY <1>1, <2>1, <2>3, <2>4 DEF HappensBefore, TypeOK, varVars
<1>2. CASE HappensAfter(t, i)
  <2>1. update(vc[t], happensVC[i]) \in VC
    BY UpdateType DEF TypeOK
  <2> QED BY <1>2, <2>1 DEF HappensAfter, TypeOK, varVars
<1> QED
  BY <1>1, <1>2

LEMMA TypeRead ==
  ASSUME TypeOK, NEW t \in Tid, NEW x \in Addr, Read(t, x)
  PROVE  TypeOK'
<1>1. wr_reports(t, x) \subseteq Race
  BY ReportType DEF wr_reports
<1>2. id[t] \in VC_ID /\ r_id[x] \in VC_ID
  BY DEF TypeOK, VC, VC_ID
<1>3. report' \subseteq Race
  BY <1>1 DEF Read, read_same_epoch, read_exclusive, read_share, read_shared
<1>4. w_id' = w_id /\ r_id' \in [Addr -> VC_ID] /\ shared_vc' \in [Addr -> SUBSET VC_ID]
  BY <1>2 DEF Read, read_same_epoch, read_exclusive, read_share, read_shared,
              TypeOK, VC_ID, VAR_NOT_INIT
<1> QED
  BY <1>3, <1>4 DEF Read, TypeOK, threadVars, syncVars

LEMMA TypeWrite ==
  ASSUME TypeOK, NEW t \in Tid, NEW x \in Addr, Write(t, x)
  PROVE  TypeOK'
<1>1. ww_reports(t, x) \subseteq Race /\ rw_ex_reports(t, x) \subseteq Race
  BY ReportType DEF ww_reports, rw_ex_reports
<1>2. \A r : report_race(r, get_tid(t), FALSE, TRUE, x) \subseteq Race
  BY ReportType
<1>3. report' \subseteq Race
  BY <1>1, <1>2 DEF Write, write_same_epoch, write_initial, write_exclusive, write_shared
<1>4. CASE update_write(t, x)
  <2>1. id[t] \in VC_ID
    BY DEF TypeOK, VC
  <2> QED BY <1>3, <1>4, <2>1 DEF Write, update_write, TypeOK, VC_ID, VAR_NOT_INIT,
                                  threadVars, syncVars
<1>5. CASE UNCHANGED <<w_id, r_id, shared_vc>>
  BY <1>3, <1>5 DEF Write, TypeOK, threadVars, syncVars
<1> QED
  BY <1>4, <1>5 DEF Write, write_same_epoch, write_initial, write_exclusive, write_shared

LEMMA TypeHeap ==
  ASSUME TypeOK, NEW b \in Block, Allocate(b[1], b[2]) \/ Deallocate(b[1])
  PROVE  TypeOK'
<1>1. CASE Allocate(b[1], b[2])
  BY <1>1 DEF Allocate, TypeOK, threadVars, syncVars, varVars
<1>2. CASE Deallocate(b[1])
  BY <1>2 DEF Deallocate, TypeOK, threadVars, syncVars, VC_ID, VAR_NOT_INIT, NoAlloc
<1> QED
  BY <1>1, <1>2

LEMMA TypeFinalize ==
  ASSUME Finalize
  PROVE  TypeOK'
BY EmptyType DEF Finalize, TypeOK, VC, VC_ID, VAR_NOT_INIT, NoAlloc

LEMMA TypeStep == TypeOK /\ [Next]_ftVars => TypeOK'
<1> SUFFICES ASSUME TypeOK, [Next]_ftVars PROVE TypeOK'
  OBVIOUS
<1>1. CASE UNCHANGED ftVars
  BY <1>1 DEF ftVars, threadVars, syncVars, varVars, TypeOK
<1>2. CASE Next
  BY <1>2, TypeFork, TypeEnd, TypeLock, TypeEdge, TypeRead, TypeWrite, TypeHeap,
     TypeFinalize DEF Next
<1> QED
  BY <1>1, <1>2

\* The state of the detector is well typed after any sequence of calls.
THEOREM TypeCorrect == Spec => []TypeOK
BY TypeInit, TypeStep, PTL DEF Spec

-----------------------------------------------------------------------------
(* Clocks.  NoWrap says that no thread exhausts the clock values of its    *)
(* range of ids; without it the increment of a clock changes the thread.   *)

NoWrap == MaxClock < Multiplier

LEMMA OwnTidHolds ==
  ASSUME NoWrap, ClockInv
  PROVE  OwnTid
<1> SUFFICES ASSUME NEW t \in threads PROVE get_tid(t) = t
  BY DEF OwnTid
<1> DEFINE c == id[t] - make_id(t)
<1>1. t \in Nat /\ id[t] \in Nat /\ make_id(t) \in Nat
  BY PackTypes DEF ClockInv, TypeOK, VC, VC_ID
<1>2. c \in Nat /\ c < Multiplier /\ id[t] = make_id(t) + c
  BY <1>1 DEF ClockInv, EpochInRange, NoWrap
<1> QED
  BY <1>1, <1>2, Unpack DEF get_tid

\* inc_vc() changes the own entry of the thread and no other.
LEMMA IncOwn ==
  ASSUME NoWrap, ClockInv, NEW t \in threads, CanInc(t)
  PROVE  /\ make_tid(IncId(t)) = t
         /\ IncVC(t) = [vc[t] EXCEPT ![t] = id[t] + 1]
         /\ make_id(t) <= id[t] + 1
         /\ id[t] + 1 <= make_id(t) + MaxClock
<1> DEFINE c == id[t] + 1 - make_id(t)
<1>1. t \in Nat /\ id[t] \in Nat /\ make_id(t) \in Nat
  BY PackTypes DEF ClockInv, TypeOK, VC, VC_ID
<1>2. make_id(t) <= id[t] /\ id[t] < make_id(t) + MaxClock
  BY DEF ClockInv, EpochInRange, CanInc
<1>3. c \in Nat /\ c < Multiplier /\ IncId(t) = make_id(t) + c
  BY <1>1, <1>2 DEF IncId, NoWrap
<1>4. make_tid(IncId(t)) = t
  BY <1>1, <1>3, Unpack
<1> QED
  BY <1>1, <1>2, <1>4 DEF IncVC, IncId

\* Reached() for given threads and ids, to compare two states.
ReachedIn(e, u, T, I) == e # 0 => u \in T /\ make_id(u) <= e /\ e <= I[u]

\* What has been reached stays reached while threads only start and advance.
LEMMA StaysReached ==
  ASSUME TypeOK, id' \in VC,
         threads \subseteq threads', \A u \in threads : id[u] <= id'[u]
  PROVE  \A e \in Nat, u \in Tid :
           ReachedIn(e, u, threads, id) => ReachedIn(e, u, threads', id')
<1> SUFFICES ASSUME NEW e \in Nat, NEW u \in Tid, ReachedIn(e, u, threads, id)
             PROVE  ReachedIn(e, u, threads', id')
  OBVIOUS
<1>1. id[u] \in Nat /\ id'[u] \in Nat /\ make_id(u) \in Nat
  BY PackTypes DEF TypeOK, VC, VC_ID
<1> QED
  BY <1>1 DEF ReachedIn

\* Hence all clocks there were are still justified after such a step.
LEMMA OldClocks ==
  ASSUME ClockInv, id' \in VC,
         threads \subseteq threads', \A u \in threads : id[u] <= id'[u]
  PROVE  \A u \in Tid :
           /\ \A t \in Tid : ReachedIn(vc[t][u], u, threads', id')
           /\ \A m \in Mutex : ReachedIn(lockVC[m][u], u, threads', id')
           /\ \A i \in Identifier : ReachedIn(happensVC[i][u], u, threads', id')
<1>1. TypeOK
  BY DEF ClockInv
<1>2. \A u \in Tid : /\ \A t \in Tid : vc[t][u] \in Nat
                     /\ \A m \in Mutex : lockVC[m][u] \in Nat
                     /\ \A i \in Identifier : happensVC[i][u] \in Nat
  BY <1>1 DEF TypeOK, VC, VC_ID
<1>3. \A u \in Tid : /\ \A t \in Tid : ReachedIn(vc[t][u], u, threads, id)
                     /\ \A m \in Mutex : ReachedIn(lockVC[m][u], u, threads, id)
                     /\ \A i \in Identifier : ReachedIn(happensVC[i][u], u, threads, id)
  BY DEF ClockInv, NoFutureKnowledge, Reached, ReachedIn
<1> QED
  BY <1>1, <1>2, <1>3, StaysReached

LEMMA NewClocks ==
  ASSUME \A u \in Tid :
           /\ \A t \in Tid : ReachedIn(vc'[t][u], u, threads', id')
           /\ \A m \in Mutex : ReachedIn(lockVC'[m][u], u, threads', id')
           /\ \A i \in Identifier : ReachedIn(happensVC'[i][u], u, threads', id')
  PROVE  NoFutureKnowledge'
BY DEF NoFutureKnowledge, Reached, ReachedIn

\* An entry after update() is the one before it or the one of the other clock.
LEMMA UpdateEntry ==
  ASSUME NEW v, NEW w, NEW u \in Tid
  PROVE  update(v, w)[u] \in {v[u], w[u]}
BY DEF update

LEMMA ClockInit == Init => ClockInv
BY TypeInit DEF Init, ClockInv, EpochInRange, NoFutureKnowledge, Reached, EmptyVC

LEMMA ClockForkChild ==
  ASSUME NoWrap, ClockInv, NEW p \in Tid, NEW c \in Tid, ForkChild(p, c)
  PROVE  ClockInv'
<1>1. TypeOK /\ TypeOK'
  BY TypeFork DEF ClockInv, Fork
<1>2. p \in threads /\ CanInc(p) /\ IncVC(p) = [vc[p] EXCEPT ![p] = id[p] + 1]
      /\ make_id(p) <= id[p] + 1 /\ id[p] + 1 <= make_id(p) + MaxClock
  BY IncOwn DEF ForkChild
<1>3. \A t \in Tid : id[t] \in Nat /\ id'[t] \in Nat /\ make_id(t) \in Nat
  BY <1>1, PackTypes DEF TypeOK, VC, VC_ID
<1>4. \A t \in threads : id'[t] = IF t = p THEN id[t] + 1 ELSE id[t]
  BY <1>1 DEF ForkChild, IncId, TypeOK
<1>5. EpochInRange'
  <2> SUFFICES ASSUME NEW t \in threads'
               PROVE  make_id(t) <= id'[t] /\ id'[t] <= make_id(t) + MaxClock
    BY DEF EpochInRange
  <2>1. CASE t \in threads
    BY <2>1, <1>1, <1>2, <1>3, <1>4 DEF ClockInv, EpochInRange
  <2>2. CASE t \notin threads
    <3>1. t = c /\ id'[t] = make_id(t)
      BY <2>2 DEF ForkChild
    <3> QED BY <3>1, <1>3
  <2> QED BY <2>1, <2>2
<1>6. threads \subseteq threads' /\ \A u \in threads : id[u] <= id'[u]
  <2>1. threads \subseteq threads'
    BY DEF ForkChild
  <2>2. \A u \in threads : id[u] <= id'[u]
    BY <1>1, <1>3, <1>4 DEF TypeOK
  <2> QED BY <2>1, <2>2
<1>7. \A u \in Tid : ReachedIn(IncVC(p)[u], u, threads', id')
  <2> TAKE u \in Tid
  <2>1. IncVC(p)[u] = IF u = p THEN id[p] + 1 ELSE vc[p][u]
    BY <1>1, <1>2 DEF TypeOK, VC, VC_ID
  <2>2. CASE u = p
    <3>1. p \in threads' /\ id'[p] = id[p] + 1
      BY <1>2, <1>4, <1>6
    <3> QED BY <1>2, <1>3, <2>1, <2>2, <3>1 DEF ReachedIn
  <2>3. CASE u # p
    BY <1>1, <1>6, <2>1, <2>3, OldClocks DEF TypeOK
  <2> QED BY <2>2, <2>3
<1>8. NoFutureKnowledge'
  <2>1. \A t \in Tid : vc'[t] \in {IncVC(p), vc[t]}
    BY DEF ForkChild
  <2>2. lockVC' = lockVC /\ happensVC' = happensVC
    BY DEF ForkChild, syncVars
  <2> QED BY <1>1, <1>6, <1>7, <2>1, <2>2, OldClocks, NewClocks DEF TypeOK
<1> QED
  BY <1>1, <1>5, <1>8 DEF ClockInv

LEMMA ClockForkRoot ==
  ASSUME NoWrap, ClockInv, NEW p \in Tid, NEW c \in Tid, ForkRoot(p, c)
  PROVE  ClockInv'
<1>1. TypeOK /\ TypeOK'
  BY TypeFork DEF ClockInv, Fork
<1>2. \A t \in Tid : id[t] \in Nat /\ id'[t] \in Nat /\ make_id(t) \in Nat
  BY <1>1, PackTypes DEF TypeOK, VC, VC_ID
<1>3. \A t \in threads : id'[t] = id[t]
  BY <1>1 DEF ForkRoot, TypeOK
<1>4. \A t \in threads' \ threads : t = c /\ id'[t] = make_id(t)
  BY DEF ForkRoot
<1>5. EpochInRange'
  BY <1>1, <1>2, <1>3, <1>4 DEF ClockInv, EpochInRange, TypeOK
<1>6. threads \subseteq threads' /\ \A u \in threads : id[u] <= id'[u]
  BY <1>1, <1>2, <1>3 DEF ForkRoot, TypeOK
<1>7. \A t, u \in Tid : ReachedIn(vc'[t][u], u, threads', id')
  <2> TAKE t, u \in Tid
  <2>1. CASE vc'[t] = vc[t]
    BY <1>1, <1>6, <2>1, OldClocks DEF TypeOK
  <2>2. CASE t = c /\ c \notin threads
    <3>1. vc'[t][u] = IF u = t THEN make_id(t) ELSE 0
      BY <2>2 DEF ForkRoot, EmptyVC
    <3>2. t \in threads' /\ id'[t] = make_id(t)
      BY <2>2 DEF ForkRoot
    <3> QED BY <1>2, <3>1, <3>2 DEF ReachedIn
  <2> QED BY <2>1, <2>2 DEF ForkRoot
<1>8. NoFutureKnowledge'
  <2>1. lockVC' = lockVC /\ happensVC' = happensVC
    BY DEF ForkRoot, syncVars
  <2> QED BY <1>1, <1>6, <1>7, <2>1, OldClocks, NewClocks DEF TypeOK
<1> QED
  BY <1>1, <1>5, <1>8 DEF ClockInv

\* cleanup() on any clocks tvc that were justified before it: the entries of the
\* ended thread go, the others keep the thread they speak about.
LEMMA ClockCleanup ==
  ASSUME ClockInv, TypeOK', NEW c \in Tid, NEW tvc \in [Tid -> VC], cleanup(c, tvc),
         \A t, u \in Tid : u # c => ReachedIn(tvc[t][u], u, threads, id)
  PROVE  ClockInv'
<1>1. TypeOK
  BY DEF ClockInv
<1>2. threads' = threads \ {c} /\ \A u \in Tid : u # c => id'[u] = id[u]
  BY <1>1 DEF cleanup, TypeOK, VC
<1>3. EpochInRange'
  BY <1>1, <1>2 DEF ClockInv, EpochInRange, TypeOK
<1>4. \A e, u : u \in Tid /\ u # c /\ ReachedIn(e, u, threads, id)
                  => ReachedIn(e, u, threads', id')
  BY <1>2 DEF ReachedIn
<1>5. \A v \in VC, u \in Tid : delete_vc(v, c)[u] = IF u = c THEN 0 ELSE v[u]
  BY DEF delete_vc, VC
<1>6. \A e, u : e = 0 => ReachedIn(e, u, threads', id')
  BY DEF ReachedIn
<1>7. \A u \in Tid : /\ \A m \in Mutex : ReachedIn(lockVC[m][u], u, threads, id)
                     /\ \A i \in Identifier : ReachedIn(happensVC[i][u], u, threads, id)
  BY DEF ClockInv, NoFutureKnowledge, Reached, ReachedIn
<1>8. \A t, u \in Tid : ReachedIn(vc'[t][u], u, threads', id')
  <2> TAKE t, u \in Tid
  <2>1. tvc[t] \in VC
    OBVIOUS
  <2>2. vc'[t][u] = IF t = c \/ u = c THEN 0 ELSE tvc[t][u]
    BY <1>5, <2>1 DEF cleanup, EmptyVC
  <2> QED BY <1>4, <1>6, <2>2
<1>9. \A m \in Mutex, u \in Tid : ReachedIn(lockVC'[m][u], u, threads', id')
  <2> TAKE m \in Mutex, u \in Tid
  <2>1. lockVC[m] \in VC
    BY <1>1 DEF TypeOK
  <2>2. lockVC'[m][u] = IF u = c THEN 0 ELSE lockVC[m][u]
    BY <1>5, <2>1 DEF cleanup
  <2> QED BY <1>4, <1>6, <1>7, <2>2
<1>10. \A i \in Identifier, u \in Tid : ReachedIn(happensVC'[i][u], u, threads', id')
  <2> TAKE i \in Identifier, u \in Tid
  <2>1. happensVC[i] \in VC
    BY <1>1 DEF TypeOK
  <2>2. happensVC'[i][u] = IF u = c THEN 0 ELSE happensVC[i][u]
    BY <1>5, <2>1 DEF cleanup
  <2> QED BY <1>4, <1>6, <1>7, <2>2
<1> QED
  BY <1>3, <1>8, <1>9, <1>10, NewClocks DEF ClockInv

LEMMA ClockJoin ==
  ASSUME NoWrap, ClockInv, NEW p \in Tid, NEW c \in Tid, Join(p, c)
  PROVE  ClockInv'
<1> DEFINE tvc == [vc EXCEPT ![p] = update(vc[p], IncVC(c))]
<1>1. TypeOK /\ TypeOK'
  BY TypeEnd DEF ClockInv
<1>2. IncVC(c) \in VC /\ IncVC(c) = [vc[c] EXCEPT ![c] = id[c] + 1]
  BY <1>1, IncType, IncOwn DEF Join
<1>3. tvc \in [Tid -> VC]
  BY <1>1, <1>2, UpdateType DEF TypeOK
<1>4. \A t, u \in Tid : ReachedIn(vc[t][u], u, threads, id)
  BY DEF ClockInv, NoFutureKnowledge, Reached, ReachedIn
<1>5. ASSUME NEW t \in Tid, NEW u \in Tid, u # c
      PROVE  ReachedIn(tvc[t][u], u, threads, id)
  <2>1. CASE t # p
    BY <1>1, <1>4, <2>1 DEF TypeOK
  <2>2. CASE t = p
    <3>1. tvc[t] = update(vc[p], IncVC(c))
      BY <1>1, <2>2 DEF TypeOK
    <3>2. tvc[t][u] \in {vc[p][u], IncVC(c)[u]}
      BY <3>1, UpdateEntry
    <3>3. IncVC(c)[u] = vc[c][u]
      BY <1>1, <1>2, <1>5 DEF TypeOK, VC
    <3> QED BY <1>4, <3>2, <3>3
  <2> QED BY <2>1, <2>2
<1>6. cleanup(c, tvc)
  BY DEF Join
<1> QED
  BY <1>1, <1>3, <1>5, <1>6, ClockCleanup

LEMMA ClockFinish ==
  ASSUME ClockInv, NEW t \in Tid, Finish(t)
  PROVE  ClockInv'
<1>1. TypeOK /\ TypeOK'
  BY TypeEnd DEF ClockInv
<1>2. \A s, u \in Tid : ReachedIn(vc[s][u], u, threads, id)
  BY DEF ClockInv, NoFutureKnowledge, Reached, ReachedIn
<1>3. vc \in [Tid -> VC] /\ cleanup(t, vc)
  BY <1>1 DEF TypeOK, Finish
<1> QED
  BY <1>1, <1>2, <1>3, ClockCleanup

\* A step that only merges clocks: nobody starts, ends or advances.
LEMMA ClockMerge ==
  ASSUME ClockInv, TypeOK', threads' = threads, id' = id, lockVC' = lockVC,
         happensVC' = happensVC, NEW t \in Tid, NEW w \in VC,
         vc' = [vc EXCEPT ![t] = update(vc[t], w)],
         \A u \in Tid : ReachedIn(w[u], u, threads, id)
  PROVE  ClockInv'
<1>1. TypeOK
  BY DEF ClockInv
<1>2. EpochInRange'
  BY DEF ClockInv, EpochInRange
<1>3. \A s, u \in Tid : vc'[s][u] \in {vc[s][u], w[u]}
  BY <1>1, UpdateEntry DEF TypeOK
<1>4. \A u \in Tid : /\ \A s \in Tid : ReachedIn(vc[s][u], u, threads, id)
                     /\ \A m \in Mutex : ReachedIn(lockVC[m][u], u, threads, id)
                     /\ \A i \in Identifier : ReachedIn(happensVC[i][u], u, threads, id)
  BY DEF ClockInv, NoFutureKnowledge, Reached, ReachedIn
<1>5. \A s, u \in Tid : ReachedIn(vc'[s][u], u, threads, id)
  BY <1>3, <1>4
<1>6. NoFutureKnowledge'
  BY <1>4, <1>5, NewClocks
<1> QED
  BY <1>2, <1>6 DEF ClockInv

\* A step in which t increments its clock and publishes what it then knows, in
\* the clock of a lock or of an identifier.
LEMMA ClockPublish ==
  ASSUME NoWrap, ClockInv, TypeOK', NEW t \in threads, CanInc(t),
         threads' = threads, id' = [id EXCEPT ![t] = IncId(t)],
         vc' = [vc EXCEPT ![t] = IncVC(t)],
         \A m \in Mutex, u \in Tid : lockVC'[m][u] \in {lockVC[m][u], IncVC(t)[u]},
         \A i \in Identifier, u \in Tid :
           happensVC'[i][u] \in {happensVC[i][u], 0, IncVC(t)[u]}
  PROVE  ClockInv'
<1>1. TypeOK /\ t \in Tid
  BY DEF ClockInv, TypeOK
<1>2. /\ IncVC(t) = [vc[t] EXCEPT ![t] = id[t] + 1]
      /\ make_id(t) <= id[t] + 1 /\ id[t] + 1 <= make_id(t) + MaxClock
  BY IncOwn
<1>3. \A u \in Tid : id[u] \in Nat /\ id'[u] = IF u = t THEN id[u] + 1 ELSE id[u]
  BY <1>1 DEF IncId, TypeOK, VC, VC_ID
<1>4. EpochInRange'
  BY <1>1, <1>2, <1>3 DEF ClockInv, EpochInRange, TypeOK
<1>5. threads \subseteq threads' /\ \A u \in threads : id[u] <= id'[u]
  BY <1>1, <1>3 DEF TypeOK
<1>6. \A u \in Tid : ReachedIn(IncVC(t)[u], u, threads', id')
  <2> TAKE u \in Tid
  <2>1. IncVC(t)[u] = IF u = t THEN id[t] + 1 ELSE vc[t][u]
    BY <1>1, <1>2 DEF TypeOK, VC, VC_ID
  <2>2. CASE u = t
    BY <1>1, <1>2, <1>3, <2>1, <2>2 DEF ReachedIn
  <2>3. CASE u # t
    <3>1. id' \in VC
      BY DEF TypeOK
    <3>2. ReachedIn(vc[t][u], u, threads', id')
      BY <1>1, <1>5, <3>1, OldClocks
    <3> QED BY <2>1, <2>3, <3>2
  <2> QED BY <2>2, <2>3
<1>7. \A u \in Tid : /\ \A s \in Tid : ReachedIn(vc[s][u], u, threads', id')
                     /\ \A m \in Mutex : ReachedIn(lockVC[m][u], u, threads', id')
                     /\ \A i \in Identifier : ReachedIn(happensVC[i][u], u, threads', id')
  <2>1. id' \in VC
    BY DEF TypeOK
  <2> QED BY <1>5, <2>1, OldClocks
<1>8. \A u : ReachedIn(0, u, threads', id')
  BY DEF ReachedIn
<1>9. \A s \in Tid : vc'[s] \in {vc[s], IncVC(t)}
  BY <1>1 DEF TypeOK
<1>10. /\ \A s, u \in Tid : ReachedIn(vc'[s][u], u, threads', id')
       /\ \A m \in Mutex, u \in Tid : ReachedIn(lockVC'[m][u], u, threads', id')
       /\ \A i \in Identifier, u \in Tid : ReachedIn(happensVC'[i][u], u, threads', id')
  BY <1>6, <1>7, <1>8, <1>9
<1>11. NoFutureKnowledge'
  BY <1>10, NewClocks
<1> QED
  BY <1>4, <1>11 DEF ClockInv

\* A step that leaves every clock alone.
LEMMA ClockSame ==
  ASSUME ClockInv, TypeOK', UNCHANGED <<threads, id, vc, lockVC, happensVC>>
  PROVE  ClockInv'
BY DEF ClockInv, EpochInRange, NoFutureKnowledge, Reached

LEMMA ClockLock ==
  ASSUME NoWrap, ClockInv, NEW t \in Tid, NEW m \in Mutex, Acquire(t, m) \/ Release(t, m)
  PROVE  ClockInv'
<1>1. TypeOK /\ TypeOK'
  BY TypeLock DEF ClockInv
<1>2. CASE Acquire(t, m)
  <2>1. lockVC[m] \in VC
    BY <1>1 DEF TypeOK
  <2>2. \A u \in Tid : ReachedIn(lockVC[m][u], u, threads, id)
    BY DEF ClockInv, NoFutureKnowledge, Reached, ReachedIn
  <2> QED BY <1>1, <1>2, <2>1, <2>2, ClockMerge DEF Acquire
<1>3. CASE ReleaseUnknown(t, m)
  BY <1>1, <1>3, ClockSame DEF ReleaseUnknown, threadVars
<1>4. CASE ReleaseKnown(t, m)
  <2>1. \A k \in Mutex, u \in Tid : lockVC'[k][u] \in {lockVC[k][u], IncVC(t)[u]}
    BY <1>1, <1>4, UpdateEntry DEF ReleaseKnown, TypeOK
  <2>2. happensVC' = happensVC
    BY <1>4 DEF ReleaseKnown
  <2> QED BY <1>1, <1>4, <2>1, <2>2, ClockPublish DEF ReleaseKnown
<1> QED
  BY <1>2, <1>3, <1>4 DEF Release

LEMMA ClockEdge ==
  ASSUME NoWrap, ClockInv, NEW t \in Tid, NEW i \in Identifier,
         HappensBefore(t, i) \/ HappensAfter(t, i)
  PROVE  ClockInv'
<1>1. TypeOK /\ TypeOK'
  BY TypeEdge DEF ClockInv
<1>2. CASE HappensAfter(t, i)
  <2>1. happensVC[i] \in VC
    BY <1>1 DEF TypeOK
  <2>2. \A u \in Tid : ReachedIn(happensVC[i][u], u, threads, id)
    BY DEF ClockInv, NoFutureKnowledge, Reached, ReachedIn
  <2> QED BY <1>1, <1>2, <2>1, <2>2, ClockMerge DEF HappensAfter
<1>3. CASE HappensBefore(t, i)
  <2> DEFINE own == [EmptyVC EXCEPT ![make_tid(IncId(t))] = IncId(t)]
  <2>1. make_tid(IncId(t)) = t /\ IncVC(t) = [vc[t] EXCEPT ![t] = id[t] + 1]
    BY <1>3, IncOwn DEF HappensBefore
  <2>2. \A u \in Tid : own[u] \in {0, IncVC(t)[u]}
    BY <1>1, <2>1 DEF EmptyVC, IncId, TypeOK, VC
  <2> HIDE DEF own
  <2>3. happensVC' = [happensVC EXCEPT ![i] = update(happensVC[i], own)]
    BY <1>3 DEF HappensBefore, own
  <2>4. \A k \in Identifier, u \in Tid :
          happensVC'[k][u] \in {happensVC[k][u], 0, IncVC(t)[u]}
    BY <1>1, <2>2, <2>3, UpdateEntry DEF TypeOK
  <2>5. lockVC' = lockVC
    BY <1>3 DEF HappensBefore
  <2> QED BY <1>1, <1>3, <2>4, <2>5, ClockPublish DEF HappensBefore
<1> QED
  BY <1>2, <1>3

LEMMA ClockStep ==
  ASSUME NoWrap
  PROVE  ClockInv /\ [Next]_ftVars => ClockInv'
<1> SUFFICES ASSUME ClockInv, [Next]_ftVars PROVE ClockInv'
  OBVIOUS
<1>1. TypeOK'
  BY TypeStep DEF ClockInv
<1>2. CASE UNCHANGED ftVars
  BY <1>1, <1>2, ClockSame DEF ftVars, threadVars, syncVars
<1>3. ASSUME NEW t \in Tid, NEW x \in Addr, Read(t, x) \/ Write(t, x) PROVE ClockInv'
  BY <1>1, <1>3, ClockSame DEF Read, Write, threadVars, syncVars
<1>4. ASSUME NEW b \in Block, Allocate(b[1], b[2]) \/ Deallocate(b[1]) PROVE ClockInv'
  BY <1>1, <1>4, ClockSame DEF Allocate, Deallocate, threadVars, syncVars
<1>5. CASE Finalize
  BY <1>1, <1>5 DEF Finalize, ClockInv, EpochInRange, NoFutureKnowledge, Reached, EmptyVC
<1>6. CASE Next
  BY <1>3, <1>4, <1>5, <1>6, ClockForkChild, ClockForkRoot, ClockJoin, ClockFinish,
     ClockLock, ClockEdge DEF Next, Fork
<1> QED
  BY <1>2, <1>6

\* As long as no clock wraps, no vector clock of a thread, a lock or an
\* identifier is ahead of the thread it speaks about or remembers an ended one,
\* whatever calls are made, by callers that obey no protocol at all.
THEOREM ClocksSound ==
  ASSUME NoWrap
  PROVE  Spec => []NoFutureKnowledge
<1>1. ClockInv => NoFutureKnowledge
  BY DEF ClockInv
<1> QED
  BY <1>1, ClockInit, ClockStep, PTL DEF Spec

\* As long as no clock wraps, the thread id unpacked from a thread's epoch is
\* that thread's: race checks and reports name the right thread.
THEOREM EpochsNameTheirThread ==
  ASSUME NoWrap
  PROVE  Spec => []OwnTid
<1>1. ClockInv => OwnTid
  BY OwnTidHolds
<1> QED
  BY <1>1, ClockInit, ClockStep, PTL DEF Spec

-----------------------------------------------------------------------------
(* Variables.  OneReadMode needs no assumption on the clocks: that a        *)
(* thread's entry is replaced and not duplicated follows from the packing. *)

\* OneReadMode for one variable.
ReadMode(x) ==
  /\ is_read_shared(x) => /\ r_id[x] = VAR_NOT_INIT
                          /\ \E e, f \in shared_vc[x] : make_tid(e) # make_tid(f)
  /\ \A e, f \in shared_vc[x] : make_tid(e) = make_tid(f) => e = f
  /\ x \notin vars => /\ w_id[x] = VAR_NOT_INIT /\ r_id[x] = VAR_NOT_INIT
                      /\ ~is_read_shared(x)

LEMMA ModePerVariable == OneReadMode <=> \A x \in Addr : ReadMode(x)
BY DEF OneReadMode, ReadMode

LEMMA ModeRead ==
  ASSUME TypeOK, OneReadMode, NEW t \in Tid, NEW x \in Addr, Read(t, x)
  PROVE  OneReadMode'
<1>1. vars' = vars \cup {x}
  BY DEF Read
<1>2. SUFFICES ASSUME NEW y \in Addr PROVE ReadMode(y)'
  BY DEF OneReadMode, ReadMode
<1>3. ReadMode(y) /\ ReadMode(x)
  BY ModePerVariable
<1>4. CASE UNCHANGED <<w_id, r_id, shared_vc>>
  BY <1>1, <1>3, <1>4 DEF ReadMode, is_read_shared
<1>5. CASE y # x /\ ~UNCHANGED <<w_id, r_id, shared_vc>>
  <2>1. w_id'[y] = w_id[y] /\ r_id'[y] = r_id[y] /\ shared_vc'[y] = shared_vc[y]
    BY <1>5 DEF Read, read_same_epoch, read_exclusive, read_share, read_shared, TypeOK
  <2> QED BY <1>1, <1>3, <1>5, <2>1 DEF ReadMode, is_read_shared
<1>6. CASE y = x /\ read_exclusive(t, x)
  BY <1>1, <1>3, <1>6 DEF ReadMode, is_read_shared, read_exclusive
<1>7. CASE y = x /\ read_share(t, x)
  <2>1. shared_vc'[x] = {r_id[x], id[t]} /\ r_id'[x] = VAR_NOT_INIT
    BY <1>7 DEF read_share, TypeOK
  <2>2. make_tid(r_id[x]) # make_tid(id[t])
    BY <1>7 DEF read_share, get_tid
  <2> QED BY <1>1, <1>7, <2>1, <2>2 DEF ReadMode, is_read_shared
<1>8. CASE y = x /\ read_shared(t, x)
  <2> DEFINE others == {e \in shared_vc[x] : make_tid(e) # make_tid(id[t])}
  <2>1. shared_vc'[x] = others \cup {id[t]} /\ r_id'[x] = r_id[x]
    BY <1>8 DEF read_shared, get_tid, TypeOK
  <2>2. is_read_shared(x)
    BY <1>8 DEF read_shared
  <2>3. PICK e \in shared_vc[x] : make_tid(e) # make_tid(id[t])
    BY <1>3, <2>2 DEF ReadMode
  <2>4. e \in others
    BY <2>3
  <2>5. \A f, g \in others \cup {id[t]} : make_tid(f) = make_tid(g) => f = g
    BY <1>3 DEF ReadMode
  <2>6. \E f, g \in others \cup {id[t]} : make_tid(f) # make_tid(g)
    BY <2>3, <2>4
  <2>7. r_id[x] = VAR_NOT_INIT
    BY <1>3, <2>2 DEF ReadMode
  <2> HIDE DEF others
  <2> QED BY <1>1, <1>8, <2>1, <2>5, <2>6, <2>7 DEF ReadMode, is_read_shared
<1> QED
  BY <1>4, <1>5, <1>6, <1>7, <1>8 DEF Read, read_same_epoch

LEMMA ModeWrite ==
  ASSUME TypeOK, OneReadMode, NEW t \in Tid, NEW x \in Addr, Write(t, x)
  PROVE  OneReadMode'
<1>1. vars' = vars \cup {x}
  BY DEF Write
<1>2. SUFFICES ASSUME NEW y \in Addr PROVE ReadMode(y)'
  BY DEF OneReadMode, ReadMode
<1>3. ReadMode(y)
  BY ModePerVariable
<1>4. CASE UNCHANGED <<w_id, r_id, shared_vc>>
  BY <1>1, <1>3, <1>4 DEF ReadMode, is_read_shared
<1>5. CASE update_write(t, x)
  <2>1. CASE y = x
    BY <1>1, <1>5, <2>1 DEF update_write, ReadMode, is_read_shared, TypeOK
  <2>2. CASE y # x
    BY <1>1, <1>3, <1>5, <2>2 DEF update_write, ReadMode, is_read_shared, TypeOK
  <2> QED BY <2>1, <2>2
<1> QED
  BY <1>4, <1>5 DEF Write, write_same_epoch, write_initial, write_exclusive, write_shared

LEMMA ModeFree ==
  ASSUME TypeOK, OneReadMode, NEW b \in Nat, Deallocate(b)
  PROVE  OneReadMode'
<1>1. SUFFICES ASSUME NEW y \in Addr PROVE ReadMode(y)'
  BY DEF OneReadMode, ReadMode
<1>2. ReadMode(y)
  BY ModePerVariable
<1> DEFINE gone == Within(b, IF allocs[b] = NoAlloc THEN 0 ELSE allocs[b])
<1>3. /\ vars' = vars \ gone
      /\ w_id'[y] = IF y \in gone THEN VAR_NOT_INIT ELSE w_id[y]
      /\ r_id'[y] = IF y \in gone THEN VAR_NOT_INIT ELSE r_id[y]
      /\ shared_vc'[y] = IF y \in gone THEN {} ELSE shared_vc[y]
  BY DEF Deallocate
<1> HIDE DEF gone
<1> QED
  BY <1>2, <1>3 DEF ReadMode, is_read_shared

LEMMA ModeInit == Init => OneReadMode
BY DEF Init, OneReadMode, is_read_shared

LEMMA ModeStep == TypeOK /\ OneReadMode /\ [Next]_ftVars => OneReadMode'
<1> SUFFICES ASSUME TypeOK, OneReadMode, [Next]_ftVars PROVE OneReadMode'
  OBVIOUS
<1>1. CASE UNCHANGED varVars
  BY <1>1 DEF varVars, OneReadMode, is_read_shared
<1>2. CASE Finalize
  BY <1>2 DEF Finalize, OneReadMode, is_read_shared
<1>3. ASSUME NEW b \in Block, Deallocate(b[1]) PROVE OneReadMode'
  BY <1>3, ModeFree
<1>4. CASE Next
  BY <1>1, <1>2, <1>3, <1>4, ModeRead, ModeWrite
     DEF Next, Fork, ForkChild, ForkRoot, Join, Finish, Acquire, Release,
         ReleaseUnknown, ReleaseKnown, HappensBefore, HappensAfter, Allocate
<1>5. CASE UNCHANGED ftVars
  BY <1>1, <1>5 DEF ftVars
<1> QED BY <1>4, <1>5

\* Whatever is called, a variable's read state is in exactly one of the modes
\* of FastTrack, with one epoch per reader.
THEOREM ReadModesExclusive == Spec => []OneReadMode
BY ModeInit, ModeStep, TypeCorrect, PTL DEF Spec

\* The races of one access are conflicts of two threads the detector knows.
LEMMA ReportIsConflict ==
  ASSUME NEW t \in Tid, NEW x \in Addr, NEW e, NEW w1 \in BOOLEAN, NEW w2 \in BOOLEAN,
         e # get_tid(t), w1 \/ w2
  PROVE  \A r \in report_race(e, get_tid(t), w1, w2, x) :
           /\ r.first # r.second /\ {r.first, r.second} \subseteq threads
           /\ r.addr = x /\ (r.wr1 \/ r.wr2)
BY DEF report_race

LEMMA AccessReports ==
  ASSUME NEW t \in Tid, NEW x \in Addr, Read(t, x) \/ Write(t, x)
  PROVE  ReportsAreConflicts'
<1> DEFINE Conflict(r) == /\ r.first # r.second /\ {r.first, r.second} \subseteq threads
                          /\ r.addr = x /\ (r.wr1 \/ r.wr2)
<1>1. x \in vars' /\ threads' = threads
  BY DEF Read, Write, threadVars
<1>2. \A r \in wr_reports(t, x) : Conflict(r)
  BY ReportIsConflict DEF wr_reports, is_wr_race, Unordered
<1>3. \A r \in ww_reports(t, x) : Conflict(r)
  BY ReportIsConflict DEF ww_reports, is_ww_race, Unordered
<1>4. \A r \in rw_ex_reports(t, x) : Conflict(r)
  BY ReportIsConflict DEF rw_ex_reports, is_rw_ex_race, Unordered
<1>5. \A s \in is_rw_sh_race(t, x) :
        \A r \in report_race(s, get_tid(t), FALSE, TRUE, x) : Conflict(r)
  <2>1. \A s \in is_rw_sh_race(t, x) : s # get_tid(t)
    BY DEF is_rw_sh_race, Unordered
  <2> QED BY <2>1, ReportIsConflict
<1> HIDE DEF Conflict
<1>6. \A r \in report' : Conflict(r)
  BY <1>2, <1>3, <1>4, <1>5
     DEF Read, Write, read_same_epoch, read_exclusive, read_share, read_shared,
         write_same_epoch, write_initial, write_exclusive, write_shared
<1> QED
  BY <1>1, <1>6 DEF ReportsAreConflicts, Conflict

\* Whatever is called, the callback is only ever handed pairs of accesses that
\* conflict, of two different threads that are both still running.
THEOREM OnlyConflictsReported == Spec => []ReportsAreConflicts
<1>1. Init => ReportsAreConflicts
  BY DEF Init, ReportsAreConflicts
<1>2. ReportsAreConflicts /\ [Next]_ftVars => ReportsAreConflicts'
  <2> SUFFICES ASSUME ReportsAreConflicts, [Next]_ftVars PROVE ReportsAreConflicts'
    OBVIOUS
  <2>1. CASE report' = {}
    BY <2>1 DEF ReportsAreConflicts
  <2>2. CASE Next
    BY <2>1, <2>2, AccessReports
       DEF Next, Fork, ForkChild, ForkRoot, Join, Finish, Acquire, Release,
           ReleaseUnknown, ReleaseKnown, HappensBefore, HappensAfter, Allocate,
           Deallocate, Finalize
  <2>3. CASE UNCHANGED ftVars
    BY <2>3 DEF ftVars, threadVars, varVars, ReportsAreConflicts
  <2> QED BY <2>2, <2>3
<1> QED
  BY <1>1, <1>2, PTL DEF Spec

=============================================================================
