------------------------ MODULE RaceDetectionProofs ------------------------
(***************************************************************************)
(* FastTrack raises no false alarm: whatever a program does that keeps to  *)
(* the premises of Detector.h, a race that is reported is one of the       *)
(* happens-before reference.  Each clock of the detector is compared with  *)
(* the clock of the reference that plays the same part.                    *)
(***************************************************************************)
EXTENDS RaceDetection, FastTrackProofs

-----------------------------------------------------------------------------
(* What the program must not do, or false alarms do follow: the runs        *)
(* RD_transitive and those described in the README show them.               *)

\* Blocks differ in where they begin, and none begins where another ends:
\* deallocate() erases the size of the block that follows.
BlocksApart ==
  \A b, c \in Block :
    /\ b[1] = c[1] => b = c
    /\ b[1] + b[2] # c[1]

\* Ids of threads are not handed out again, and no edges are drawn with
\* happens_before(), which do not compose.
Premises == ~TidReuse /\ Identifier = {} /\ BlocksApart

-----------------------------------------------------------------------------
(* The inductive invariant. *)

HBClock == [Tid -> Nat]

\* Types of the reference and of the program.
RDTypeOK ==
  /\ hb \in [Tid -> HBClock]
  /\ hbLock \in [Mutex -> HBClock]
  /\ hbIdent \in [Identifier -> HBClock]
  /\ lastW \in [Addr -> HBClock]
  /\ lastR \in [Addr -> HBClock]
  /\ used \subseteq Tid
  /\ owner \in [Mutex -> Tid \cup {0}]
  /\ heap \subseteq Block

\* Only running threads have ids that are used, and a mutex that is held is known.
Bookkeeping ==
  /\ threads \subseteq used
  /\ \A m \in Mutex : owner[m] # 0 => m \in locks

\* h knows less of u than u itself, and nothing of a thread that is not running.
Behind(h, u) == IF u \in threads THEN h[u] < hb[u][u] ELSE h[u] = 0

\* So do all clocks but the thread's own.
OwnClockLeads ==
  \A u \in Tid :
    /\ \A t \in Tid \ {u} : Behind(hb[t], u)
    /\ \A m \in Mutex : Behind(hbLock[m], u)
    /\ \A i \in Identifier : Behind(hbIdent[i], u)
    /\ u \in threads => hb[u][u] > 0

\* The sizes the detector keeps are those of the program's blocks.
SizesKnown ==
  /\ \A b \in Block : allocs[b[1]] \in {NoAlloc, b[2]}
  /\ \A b \in heap : allocs[b[1]] = b[2]

\* The part that holds whether or not ids are used again, and with identifiers.
Base ==
  /\ ClockInv
  /\ RDTypeOK
  /\ Bookkeeping
  /\ OwnClockLeads
  /\ SizesKnown

\* The epochs of u in the variables, with the reference's clock of the same access.
Recorded(u) ==
  {a \in {[epoch |-> w_id[x], clock |-> lastW[x][u]] : x \in Addr}
         \cup UNION {{[epoch |-> e, clock |-> lastR[x][u]] : e \in {r_id[x]} \cup shared_vc[x]}
                     : x \in Addr} :
     a.epoch # VAR_NOT_INIT /\ make_tid(a.epoch) = u}

\* A thread that still runs has reached them.
EpochsNamed ==
  \A u \in Tid : \A a \in Recorded(u) :
    u \in used /\ (u \in threads => Reached(a.epoch, u) /\ a.clock > 0)

\* An entry e of the detector's clocks covers what the entry c in the reference's
\* clock covers.
Agree(A, e, c) == \A a \in A : a.clock <= c => a.epoch < e

\* A clock of the detector knows every access that the clock of the reference in its
\* place knows.
ClocksAgree ==
  \A u \in threads :
    /\ \A t \in threads \ {u} : Agree(Recorded(u), vc[t][u], hb[t][u])
    /\ \A m \in Mutex : Agree(Recorded(u), lockVC[m][u], hbLock[m][u])

RDInv ==
  /\ Base
  /\ EpochsNamed
  /\ ClocksAgree

-----------------------------------------------------------------------------
(* Clocks of the reference. *)

\* What the operators of HBReference yield.
LEMMA RefTypes ==
  ASSUME NEW v \in HBClock, NEW w \in HBClock, NEW t \in Tid
  PROVE  /\ Zero \in HBClock
         /\ Max2(v, w) \in HBClock
         /\ Tick(v, t) \in HBClock
         /\ Forget(v, t) \in HBClock
BY DEF Zero, Max2, Tick, Forget, HBClock

\* An entry of a merged clock is one of the two.
LEMMA MaxEntry ==
  ASSUME NEW v \in HBClock, NEW w \in HBClock, NEW u \in Tid
  PROVE  /\ Max2(v, w)[u] \in {v[u], w[u]}
         /\ v[u] <= Max2(v, w)[u]
         /\ w[u] <= Max2(v, w)[u]
BY DEF Max2, HBClock

\* Merging clocks of both sides keeps their agreement.
LEMMA AgreeMerged ==
  ASSUME NEW A, \A a \in A : a.clock \in Nat /\ a.epoch \in Nat,
         NEW v \in VC, NEW w \in VC, NEW h \in HBClock, NEW k \in HBClock, NEW u \in Tid,
         Agree(A, v[u], h[u]), Agree(A, w[u], k[u])
  PROVE  Agree(A, update(v, w)[u], Max2(h, k)[u])
<1>1. v[u] \in Nat /\ w[u] \in Nat /\ h[u] \in Nat /\ k[u] \in Nat
  BY DEF VC, VC_ID, HBClock
<1>2. update(v, w)[u] = IF w[u] > v[u] THEN w[u] ELSE v[u]
  BY DEF update
<1>3. Max2(h, k)[u] = IF h[u] >= k[u] THEN h[u] ELSE k[u]
  BY DEF Max2
<1> QED BY <1>1, <1>2, <1>3 DEF Agree

\* The detector may know more.
LEMMA AgreeGrown ==
  ASSUME NEW A, \A a \in A : a.clock \in Nat /\ a.epoch \in Nat,
         NEW e \in Nat, NEW f \in Nat, NEW c \in Nat, e <= f, Agree(A, e, c)
  PROVE  Agree(A, f, c)
BY DEF Agree

-----------------------------------------------------------------------------
(* The accesses on record. *)

\* What is in Recorded, and of which type.
LEMMA RecordedMember ==
  ASSUME NEW u \in Tid, NEW a
  PROVE  a \in Recorded(u) <=>
           /\ \E x \in Addr :
                \/ a = [epoch |-> w_id[x], clock |-> lastW[x][u]]
                \/ \E e \in {r_id[x]} \cup shared_vc[x] :
                     a = [epoch |-> e, clock |-> lastR[x][u]]
           /\ a.epoch # VAR_NOT_INIT
           /\ make_tid(a.epoch) = u
BY DEF Recorded

LEMMA RecordedType ==
  ASSUME TypeOK, RDTypeOK, NEW u \in Tid, NEW a \in Recorded(u)
  PROVE  a.epoch \in Nat /\ a.clock \in Nat
<1>1. PICK x \in Addr :
        \/ a = [epoch |-> w_id[x], clock |-> lastW[x][u]]
        \/ \E e \in {r_id[x]} \cup shared_vc[x] : a = [epoch |-> e, clock |-> lastR[x][u]]
  BY RecordedMember
<1>2. lastW[x][u] \in Nat /\ lastR[x][u] \in Nat
  BY DEF RDTypeOK, HBClock
<1>3. w_id[x] \in Nat /\ \A e \in {r_id[x]} \cup shared_vc[x] : e \in Nat
  BY DEF TypeOK, VC_ID
<1> QED BY <1>1, <1>2, <1>3

\* Steps that access nothing leave the records of u alone.
LEMMA RecordedSame ==
  ASSUME NEW u \in Tid, UNCHANGED <<w_id, r_id, shared_vc>>,
         \A x \in Addr : lastW'[x][u] = lastW[x][u] /\ lastR'[x][u] = lastR[x][u]
  PROVE  Recorded(u)' = Recorded(u)
<1>1. \A a : a \in Recorded(u)' <=>
           /\ \E x \in Addr :
                \/ a = [epoch |-> w_id'[x], clock |-> lastW'[x][u]]
                \/ \E e \in {r_id'[x]} \cup shared_vc'[x] :
                     a = [epoch |-> e, clock |-> lastR'[x][u]]
           /\ a.epoch # VAR_NOT_INIT
           /\ make_tid(a.epoch) = u
  BY DEF Recorded
<1>2. \A a : a \in Recorded(u)' <=> a \in Recorded(u)
  BY <1>1, RecordedMember
<1> QED BY <1>2

\* No thread gets an epoch on record.
LEMMA NamedKept ==
  ASSUME RDInv, ClockInv', used \subseteq used',
         \A u \in Tid : \A a \in Recorded(u)' :
           \E b \in Recorded(u) : b.epoch = a.epoch /\ (u \in threads' => b.clock = a.clock),
         \A u \in threads' : u \in threads \/ u \notin used,
         \A u \in threads \cap threads' : id[u] <= id'[u]
  PROVE  EpochsNamed'
<1> SUFFICES ASSUME NEW u \in Tid, NEW a \in Recorded(u)'
             PROVE  u \in used' /\ (u \in threads' => Reached(a.epoch, u)' /\ a.clock > 0)
  BY DEF EpochsNamed
<1>1. PICK b \in Recorded(u) : b.epoch = a.epoch /\ (u \in threads' => b.clock = a.clock)
  OBVIOUS
<1>2. u \in used /\ (u \in threads => Reached(b.epoch, u) /\ b.clock > 0)
  BY <1>1 DEF RDInv, EpochsNamed
<1>3. ASSUME u \in threads' PROVE Reached(a.epoch, u)' /\ a.clock > 0
  <2>1. u \in threads /\ id[u] <= id'[u]
    BY <1>2, <1>3
  <2>2. b.epoch \in Nat /\ id[u] \in Nat /\ id'[u] \in Nat /\ make_id(u) \in Nat
    BY RecordedType, PackTypes, TidAssumption DEF RDInv, Base, ClockInv, TypeOK, VC, VC_ID
  <2> QED BY <1>1, <1>2, <1>3, <2>1, <2>2 DEF Reached
<1> QED BY <1>2, <1>3

\* When a thread publishes its clock, all it has done is covered.
LEMMA OwnCovered ==
  ASSUME RDInv, NEW u \in threads, NEW c
  PROVE  Agree(Recorded(u), id[u] + 1, c)
<1>1. u \in Tid /\ id[u] \in Nat
  BY DEF RDInv, Base, ClockInv, TypeOK, VC, VC_ID
<1>2. ASSUME NEW a \in Recorded(u) PROVE a.epoch < id[u] + 1
  <2>1. a.epoch \in Nat /\ a.epoch # 0
    BY <1>1, RecordedType, RecordedMember DEF RDInv, Base, ClockInv, VAR_NOT_INIT
  <2>2. Reached(a.epoch, u)
    BY <1>1, <1>2 DEF RDInv, EpochsNamed
  <2> QED BY <1>1, <2>1, <2>2 DEF Reached
<1> QED BY <1>2 DEF Agree

-----------------------------------------------------------------------------
(* Types and the detector's own invariant. *)

\* The detector's part of every step is a step of FastTrack, but for the recursive
\* acquire, which leaves everything but report alone.
LEMMA DetectorStep ==
  ASSUME RDNext
  PROVE  Next \/ (UNCHANGED <<threadVars, syncVars, varVars, allocs>> /\ report' = {})
<1>1. ASSUME NEW p \in Tid, NEW c \in Tid, PForkRoot(p, c) \/ PForkChild(p, c) \/ PJoin(p, c)
      PROVE  Next
  BY <1>1 DEF Next, Fork, PForkRoot, PForkChild, PJoin
<1>2. ASSUME NEW t \in Tid, PFinish(t)
      PROVE  Next
  BY <1>2 DEF Next, PFinish
<1>3. ASSUME NEW t \in Tid, NEW m \in Mutex,
             PAcquire(t, m) \/ PReleaseInner(t, m) \/ PRelease(t, m)
      PROVE  Next
  BY <1>3 DEF Next, PAcquire, PReleaseInner, PRelease
<1>4. ASSUME NEW t \in Tid, NEW i \in Identifier, PBefore(t, i) \/ PAfter(t, i)
      PROVE  Next
  BY <1>4 DEF Next, PBefore, PAfter
<1>5. ASSUME NEW t \in Tid, NEW x \in Addr, PRead(t, x) \/ PWrite(t, x)
      PROVE  Next
  BY <1>5 DEF Next, PRead, PWrite
<1>6. ASSUME NEW b \in Block, PAllocate(b) \/ PDeallocate(b)
      PROVE  Next
  BY <1>6 DEF Next, PAllocate, PDeallocate
<1>7. ASSUME NEW t \in Tid, NEW m \in Mutex, PAcquireAgain(t, m)
      PROVE  UNCHANGED <<threadVars, syncVars, varVars, allocs>> /\ report' = {}
  BY <1>7 DEF PAcquireAgain
<1>8. PFinalize => Next
  BY DEF Next, PFinalize
<1> QED BY <1>1, <1>2, <1>3, <1>4, <1>5, <1>6, <1>7, <1>8 DEF RDNext

LEMMA RDClock ==
  ASSUME NoWrap, ClockInv, [RDNext]_rdVars
  PROVE  ClockInv'
<1>1. CASE UNCHANGED rdVars
  <2>1. [Next]_ftVars
    BY <1>1 DEF rdVars
  <2> QED BY <2>1, ClockStep
<1>2. CASE Next
  BY <1>2, ClockStep
<1>3. CASE UNCHANGED <<threadVars, syncVars, varVars, allocs>> /\ report' = {}
  <2>1. UNCHANGED <<threads, id, vc, locks, lockVC, happens_states, happensVC, vars, w_id,
                    r_id, shared_vc, allocs>> /\ report' = {}
    BY <1>3 DEF threadVars, syncVars, varVars
  <2>2. TypeOK'
    BY <2>1 DEF ClockInv, TypeOK
  <2> QED BY <2>1, <2>2, ClockSame
<1> QED BY <1>1, <1>2, <1>3, DetectorStep

\* The end of a thread in the reference.
LEMMA EndTypes ==
  ASSUME RDTypeOK, NEW t \in Tid, NEW thrs \in [Tid -> HBClock], HBEnd(t, thrs)
  PROVE  /\ hb' \in [Tid -> HBClock]
         /\ hbLock' \in [Mutex -> HBClock]
         /\ hbIdent' \in [Identifier -> HBClock]
         /\ lastW' \in [Addr -> HBClock]
         /\ lastR' \in [Addr -> HBClock]
<1>1. \A v \in HBClock : Forget(v, t) \in HBClock
  BY RefTypes
<1>2. Zero \in HBClock
  BY DEF Zero, HBClock
<1> QED BY <1>1, <1>2 DEF HBEnd, ForgetEdges, ForgetAccesses, RDTypeOK

LEMMA RDTypes ==
  ASSUME RDTypeOK, [RDNext]_rdVars
  PROVE  RDTypeOK'
<1> USE DEF RDTypeOK
<1>0. /\ Zero \in HBClock
      /\ \A v, w \in HBClock : Max2(v, w) \in HBClock
      /\ \A v \in HBClock, t \in Tid : Tick(v, t) \in HBClock
  <2>1. Zero \in HBClock
    BY DEF Zero, HBClock
  <2>2. \A v, w \in HBClock : Max2(v, w) \in HBClock
    BY DEF Max2, HBClock
  <2>3. \A v \in HBClock, t \in Tid : Tick(v, t) \in HBClock
    BY DEF Tick, HBClock
  <2> QED BY <2>1, <2>2, <2>3
<1>1. CASE UNCHANGED rdVars
  BY <1>1 DEF rdVars, hbVars, edgeVars, accessVars, progVars
<1>2. ASSUME NEW p \in Tid, NEW c \in Tid, PForkRoot(p, c)
      PROVE  RDTypeOK'
  <2>1. [Zero EXCEPT ![c] = 1] \in HBClock
    BY <1>0 DEF HBClock
  <2> QED BY <1>2, <2>1 DEF PForkRoot, HBForkRoot, Silent, accessVars
<1>3. ASSUME NEW p \in Tid, NEW c \in Tid, PForkChild(p, c)
      PROVE  RDTypeOK'
  <2>1. [hb[p] EXCEPT ![c] = 1] \in HBClock
    BY DEF HBClock
  <2>2. hb' = [hb EXCEPT ![c] = [hb[p] EXCEPT ![c] = 1], ![p] = Tick(@, p)]
    BY <1>3 DEF PForkChild, HBForkChild
  <2>3. hb' \in [Tid -> HBClock]
    BY <1>0, <2>1, <2>2
  <2> QED BY <1>3, <2>3 DEF PForkChild, HBForkChild, Silent, accessVars
<1>4. ASSUME NEW p \in Tid, NEW c \in Tid, PJoin(p, c)
      PROVE  RDTypeOK'
  <2>1. [hb EXCEPT ![p] = Max2(hb[p], hb[c])] \in [Tid -> HBClock]
    BY <1>0
  <2> QED BY <1>4, <2>1, EndTypes DEF PJoin, HBJoin, progVars
<1>5. ASSUME NEW t \in Tid, PFinish(t)
      PROVE  RDTypeOK'
  BY <1>5, EndTypes DEF PFinish, HBFinish, progVars
<1>6. ASSUME NEW t \in Tid, NEW m \in Mutex, PAcquire(t, m)
      PROVE  RDTypeOK'
  BY <1>0, <1>6 DEF PAcquire, HBAcquire, Silent, accessVars
<1>7. ASSUME NEW t \in Tid, NEW m \in Mutex, PAcquireAgain(t, m) \/ PReleaseInner(t, m)
      PROVE  RDTypeOK'
  BY <1>7 DEF PAcquireAgain, PReleaseInner, Silent, edgeVars, accessVars
<1>8. ASSUME NEW t \in Tid, NEW m \in Mutex, PRelease(t, m)
      PROVE  RDTypeOK'
  BY <1>0, <1>8 DEF PRelease, HBRelease, Silent, accessVars
<1>9. ASSUME NEW t \in Tid, NEW i \in Identifier, PBefore(t, i) \/ PAfter(t, i)
      PROVE  RDTypeOK'
  <2>1. CASE PBefore(t, i)
    BY <1>0, <2>1 DEF PBefore, HBBefore, Silent, accessVars, progVars
  <2>2. CASE PAfter(t, i)
    BY <1>0, <2>2 DEF PAfter, HBAfter, Silent, accessVars, progVars
  <2> QED BY <1>9, <2>1, <2>2
<1>10. ASSUME NEW t \in Tid, NEW x \in Addr, PRead(t, x) \/ PWrite(t, x)
       PROVE  RDTypeOK'
  <2>1. [lastR EXCEPT ![x][t] = hb[t][t]] \in [Addr -> HBClock]
        /\ [lastW EXCEPT ![x][t] = hb[t][t]] \in [Addr -> HBClock]
    <3>1. hb[t][t] \in Nat /\ lastR[x] \in [Tid -> Nat] /\ lastW[x] \in [Tid -> Nat]
      BY DEF HBClock
    <3>2. [lastR[x] EXCEPT ![t] = hb[t][t]] \in HBClock
          /\ [lastW[x] EXCEPT ![t] = hb[t][t]] \in HBClock
      BY <3>1 DEF HBClock
    <3> QED BY <3>2
  <2>2. CASE PRead(t, x)
    BY <2>1, <2>2 DEF PRead, HBRead, HBAccess, RecordRead, edgeVars, progVars
  <2>3. CASE PWrite(t, x)
    BY <2>1, <2>3 DEF PWrite, HBWrite, HBAccess, RecordWrite, edgeVars, progVars
  <2> QED BY <1>10, <2>2, <2>3
<1>11. ASSUME NEW b \in Block, PAllocate(b) \/ PDeallocate(b)
       PROVE  RDTypeOK'
  BY <1>0, <1>11 DEF PAllocate, PDeallocate, HBFree, Silent, edgeVars, accessVars
<1>12. CASE PFinalize
  BY <1>0, <1>12 DEF PFinalize, HBReset
<1> QED
  BY <1>1, <1>2, <1>3, <1>4, <1>5, <1>6, <1>7, <1>8, <1>9, <1>10, <1>11, <1>12 DEF RDNext

-----------------------------------------------------------------------------
(* The program's books. *)

\* Which threads run, which ids are used and which mutexes are known.
LEMMA BookStep ==
  ASSUME Base, [RDNext]_rdVars
  PROVE  Bookkeeping'
<1> USE DEF Bookkeeping
<1>0. Bookkeeping /\ owner \in [Mutex -> Tid \cup {0}] /\ 0 \notin Tid
  BY TidAssumption DEF Base, RDTypeOK
<1>1. CASE UNCHANGED rdVars
  BY <1>0, <1>1 DEF rdVars, ftVars, threadVars, syncVars, progVars
<1>2. ASSUME NEW p \in Tid, NEW c \in Tid, PForkRoot(p, c) \/ PForkChild(p, c)
      PROVE  Bookkeeping'
  BY <1>0, <1>2 DEF PForkRoot, PForkChild, ForkRoot, ForkChild, syncVars
<1>3. ASSUME NEW p \in Tid, NEW c \in Tid, PJoin(p, c) \/ PFinish(c)
      PROVE  Bookkeeping'
  BY <1>0, <1>3 DEF PJoin, PFinish, Join, Finish, cleanup, progVars
<1>4. ASSUME NEW t \in Tid, NEW m \in Mutex, PAcquire(t, m)
      PROVE  Bookkeeping'
  BY <1>0, <1>4 DEF PAcquire, Acquire
<1>5. ASSUME NEW t \in Tid, NEW m \in Mutex, PAcquireAgain(t, m)
      PROVE  Bookkeeping'
  BY <1>0, <1>5 DEF PAcquireAgain, threadVars, syncVars
<1>6. ASSUME NEW t \in Tid, NEW m \in Mutex, PReleaseInner(t, m) \/ PRelease(t, m)
      PROVE  Bookkeeping'
  BY <1>0, <1>6 DEF PReleaseInner, PRelease, Release, ReleaseUnknown, ReleaseKnown, threadVars
<1>7. ASSUME NEW t \in Tid, NEW i \in Identifier, PBefore(t, i) \/ PAfter(t, i)
      PROVE  Bookkeeping'
  BY <1>0, <1>7 DEF PBefore, PAfter, HappensBefore, HappensAfter, progVars
<1>8. ASSUME NEW t \in Tid, NEW x \in Addr, PRead(t, x) \/ PWrite(t, x)
      PROVE  Bookkeeping'
  BY <1>0, <1>8 DEF PRead, PWrite, Read, Write, threadVars, syncVars, progVars
<1>9. ASSUME NEW b \in Block, PAllocate(b) \/ PDeallocate(b)
      PROVE  Bookkeeping'
  BY <1>0, <1>9 DEF PAllocate, PDeallocate, Allocate, Deallocate, threadVars, syncVars
<1>10. CASE PFinalize
  BY <1>10 DEF PFinalize, Finalize
<1> QED
  BY <1>1, <1>2, <1>3, <1>4, <1>5, <1>6, <1>7, <1>8, <1>9, <1>10 DEF RDNext

\* deallocate() erases the size of no block.
LEMMA SizesStep ==
  ASSUME Base, BlocksApart, [RDNext]_rdVars
  PROVE  SizesKnown'
<1> USE DEF SizesKnown
<1>0. /\ SizesKnown /\ heap \subseteq Block
      /\ allocs \in [Addr -> Nat \cup {NoAlloc}]
      /\ \A b \in Block : b[1] \in Addr /\ b[2] \in Nat \ {0} /\ b[1] \in Nat
  BY BlockAssumption, AddrAssumption DEF Base, ClockInv, TypeOK, RDTypeOK
<1>1. ASSUME UNCHANGED <<allocs, heap>> PROVE SizesKnown'
  BY <1>0, <1>1
<1>2. ASSUME NEW b \in Block, PAllocate(b) PROVE SizesKnown'
  <2>1. heap' = heap \cup {b}
        /\ allocs' = [allocs EXCEPT ![b[1]] = IF @ = NoAlloc THEN b[2] ELSE @]
    BY <1>2 DEF PAllocate, Allocate
  <2>2. allocs'[b[1]] = b[2]
    BY <1>0, <2>1
  <2>3. \A c \in Block : c # b => allocs'[c[1]] = allocs[c[1]]
    BY <1>0, <2>1 DEF BlocksApart
  <2> QED BY <1>0, <2>1, <2>2, <2>3
<1>3. ASSUME NEW b \in Block, PDeallocate(b) PROVE SizesKnown'
  <2>1. heap' = heap \ {b} /\ b \in heap /\ allocs[b[1]] = b[2] /\ b[2] # NoAlloc
    BY <1>0, <1>3 DEF PDeallocate, NoAlloc
  <2>2. allocs' = [x \in Addr |-> IF x = b[1] + b[2] THEN NoAlloc ELSE allocs[x]]
    BY <1>3, <2>1 DEF PDeallocate, Deallocate
  <2>3. \A c \in Block : allocs'[c[1]] = allocs[c[1]]
    BY <1>0, <2>2 DEF BlocksApart
  <2> QED BY <1>0, <2>1, <2>3
<1>4. CASE PFinalize
  BY <1>0, <1>4 DEF PFinalize, Finalize
<1>5. CASE UNCHANGED rdVars
  BY <1>1, <1>5 DEF rdVars, ftVars, progVars
<1>6. ASSUME NEW p \in Tid, NEW c \in Tid,
             PForkRoot(p, c) \/ PForkChild(p, c) \/ PJoin(p, c) \/ PFinish(c)
      PROVE  SizesKnown'
  BY <1>1, <1>6 DEF PForkRoot, PForkChild, PJoin, PFinish, ForkRoot, ForkChild, Join, Finish,
                    progVars
<1>7. ASSUME NEW t \in Tid, NEW m \in Mutex,
             PAcquire(t, m) \/ PAcquireAgain(t, m) \/ PReleaseInner(t, m) \/ PRelease(t, m)
      PROVE  SizesKnown'
  BY <1>1, <1>7 DEF PAcquire, PAcquireAgain, PReleaseInner, PRelease, Acquire, Release,
                    ReleaseUnknown, ReleaseKnown
<1>8. ASSUME NEW t \in Tid, NEW i \in Identifier, PBefore(t, i) \/ PAfter(t, i)
      PROVE  SizesKnown'
  BY <1>1, <1>8 DEF PBefore, PAfter, HappensBefore, HappensAfter, progVars
<1>9. ASSUME NEW t \in Tid, NEW x \in Addr, PRead(t, x) \/ PWrite(t, x)
      PROVE  SizesKnown'
  BY <1>1, <1>9 DEF PRead, PWrite, Read, Write, progVars
<1> QED
  BY <1>2, <1>3, <1>4, <1>5, <1>6, <1>7, <1>8, <1>9 DEF RDNext

-----------------------------------------------------------------------------
(* The clocks of the reference lead their threads, and no others.           *)

\* Two clocks that are behind make one that is.
LEMMA BehindMerged ==
  ASSUME NEW v \in HBClock, NEW w \in HBClock, NEW u \in Tid, Behind(v, u), Behind(w, u)
  PROVE  Behind(Max2(v, w), u)
BY MaxEntry DEF Behind

\* Thread t takes over a clock that is behind all threads: an acquire.
LEMMA LeadsMerge ==
  ASSUME RDTypeOK, OwnClockLeads, NEW t \in threads, t \in Tid, NEW h \in HBClock,
         \A u \in Tid : Behind(h, u), hb' = [hb EXCEPT ![t] = Max2(hb[t], h)],
         UNCHANGED <<threads, hbLock, hbIdent>>
  PROVE  OwnClockLeads' /\ \A u \in Tid : hb'[u][u] = hb[u][u]
<1>1. hb \in [Tid -> HBClock] /\ hb'[t] = Max2(hb[t], h) /\ \A v \in Tid \ {t} : hb'[v] = hb[v]
  BY DEF RDTypeOK
<1>2. \A u \in Tid : hb'[u][u] = hb[u][u]
  <2>1. h[t] < hb[t][t] /\ h[t] \in Nat /\ hb[t][t] \in Nat
    BY <1>1 DEF Behind, HBClock
  <2>2. hb'[t][t] = hb[t][t]
    BY <1>1, <2>1 DEF Max2
  <2> QED BY <1>1, <2>2
<1>3. ASSUME NEW u \in Tid, NEW v \in Tid \ {u}
      PROVE  Behind(hb'[v], u)
  <2>1. Behind(hb[v], u)
    BY DEF OwnClockLeads
  <2> QED BY <1>1, <2>1, BehindMerged
<1>4. OwnClockLeads'
  <2> SUFFICES ASSUME NEW u \in Tid
               PROVE  /\ \A v \in Tid \ {u} : Behind(hb[v], u)'
                      /\ \A m \in Mutex : Behind(hbLock[m], u)'
                      /\ \A i \in Identifier : Behind(hbIdent[i], u)'
                      /\ u \in threads' => hb'[u][u] > 0
    BY DEF OwnClockLeads
  <2>1. \A v \in Tid \ {u} : Behind(hb[v], u)'
    BY <1>2, <1>3 DEF Behind
  <2> QED BY <1>2, <2>1 DEF OwnClockLeads, Behind
<1> QED BY <1>2, <1>4

\* Thread t hands its clock to a mutex or an identifier, and ticks.
LEMMA LeadsTick ==
  ASSUME RDTypeOK, OwnClockLeads, NEW t \in threads, t \in Tid,
         hb' = [hb EXCEPT ![t] = Tick(hb[t], t)], threads' = threads,
         \A m \in Mutex, u \in Tid : hbLock'[m][u] \in {hbLock[m][u], hb[t][u]},
         \A i \in Identifier, u \in Tid : hbIdent'[i][u] \in {hbIdent[i][u], hb[t][u]}
  PROVE  OwnClockLeads'
<1>1. \A u, v \in Tid : hb[v][u] \in Nat
  BY DEF RDTypeOK, HBClock
<1>2. \A u, v \in Tid : hb'[v][u] = IF u = t /\ v = t THEN hb[t][t] + 1 ELSE hb[v][u]
  BY DEF RDTypeOK, HBClock, Tick
<1> SUFFICES ASSUME NEW u \in Tid
             PROVE  /\ \A v \in Tid \ {u} : Behind(hb[v], u)'
                    /\ \A m \in Mutex : Behind(hbLock[m], u)'
                    /\ \A i \in Identifier : Behind(hbIdent[i], u)'
                    /\ u \in threads' => hb'[u][u] > 0
  BY DEF OwnClockLeads
<1>3. /\ \A v \in Tid \ {u} : Behind(hb[v], u)
      /\ \A m \in Mutex : Behind(hbLock[m], u)
      /\ \A i \in Identifier : Behind(hbIdent[i], u)
      /\ u \in threads => hb[u][u] > 0
  BY DEF OwnClockLeads
<1>4. /\ \A m \in Mutex : hbLock[m][u] \in Nat
      /\ \A i \in Identifier : hbIdent[i][u] \in Nat
  BY DEF RDTypeOK, HBClock
<1>5. CASE u = t
  BY <1>1, <1>2, <1>3, <1>4, <1>5 DEF Behind
<1>6. CASE u # t
  BY <1>1, <1>2, <1>3, <1>4, <1>6 DEF Behind
<1> QED BY <1>5, <1>6

\* A thread c starts, with the clock of its parent p or, as a root, with none.
LEMMA LeadsStart ==
  ASSUME RDTypeOK, OwnClockLeads, NEW p \in Tid, NEW c \in Tid, c \notin threads,
         threads' = threads \cup {c}, UNCHANGED <<hbLock, hbIdent>>,
         \/ HBForkRoot(c)
         \/ HBForkChild(p, c) /\ p \in threads
  PROVE  /\ OwnClockLeads'
         /\ hb'[c][c] = 1
         /\ \A u \in Tid \ {c} : hb'[c][u] \in {0, hb[p][u]}
         /\ \A t, u \in Tid : t # c =>
              hb'[t][u] = IF t = p /\ u = p /\ p \in threads /\ HBForkChild(p, c)
                          THEN hb[p][p] + 1 ELSE hb[t][u]
<1>1. hb \in [Tid -> [Tid -> Nat]]
  BY DEF RDTypeOK, HBClock
<1>2. /\ hb'[c][c] = 1
      /\ \A u \in Tid \ {c} : hb'[c][u] \in {0, hb[p][u]}
      /\ \A t, u \in Tid : t # c =>
           hb'[t][u] = IF t = p /\ u = p /\ p \in threads /\ HBForkChild(p, c)
                       THEN hb[p][p] + 1 ELSE hb[t][u]
  <2>1. CASE HBForkRoot(c) /\ ~(p \in threads /\ HBForkChild(p, c))
    BY <1>1, <2>1 DEF HBForkRoot, Zero
  <2>2. CASE HBForkChild(p, c) /\ p \in threads
    <3>1. hb' = [hb EXCEPT ![c] = [hb[p] EXCEPT ![c] = 1], ![p] = Tick(@, p)] /\ p # c
      BY <2>2 DEF HBForkChild
    <3>2. /\ hb'[c] = [hb[p] EXCEPT ![c] = 1]
          /\ hb'[p] = [hb[p] EXCEPT ![p] = @ + 1]
          /\ \A t \in Tid \ {c, p} : hb'[t] = hb[t]
      BY <1>1, <3>1 DEF Tick
    <3> QED BY <1>1, <2>2, <3>1, <3>2
  <2> QED BY <2>1, <2>2
<1>3. ASSUME NEW u \in Tid
      PROVE  /\ \A v \in Tid \ {u} : Behind(hb[v], u)'
             /\ \A m \in Mutex : Behind(hbLock[m], u)'
             /\ \A i \in Identifier : Behind(hbIdent[i], u)'
             /\ u \in threads' => hb'[u][u] > 0
  <2>1. /\ \A v \in Tid \ {u} : Behind(hb[v], u)
        /\ \A m \in Mutex : Behind(hbLock[m], u)
        /\ \A i \in Identifier : Behind(hbIdent[i], u)
        /\ u \in threads => hb[u][u] > 0
    BY DEF OwnClockLeads
  <2>2. /\ \A m \in Mutex : hbLock[m][u] \in Nat
        /\ \A i \in Identifier : hbIdent[i][u] \in Nat
    BY DEF RDTypeOK, HBClock
  <2>3. CASE u = c
    BY <1>1, <1>2, <2>1, <2>2, <2>3 DEF Behind
  <2>4. CASE u # c
    <3>1. hb'[u][u] \in Nat /\ hb'[u][u] >= hb[u][u]
      BY <1>1, <1>2, <2>4
    <3>2. \A v \in Tid \ {u} : hb'[v][u] = hb[v][u] \/ (v = c /\ hb'[v][u] \in {0, hb[p][u]})
      BY <1>2, <2>4
    <3>3. CASE u \in threads
      <4>1. hb[u][u] > 0 /\ \A v \in Tid \ {u} : hb[v][u] < hb[u][u]
        BY <2>1, <3>3 DEF Behind
      <4>2. ASSUME NEW v \in Tid \ {u} PROVE hb'[v][u] < hb'[u][u]
        <5>1. CASE v # c
          BY <1>1, <3>1, <3>2, <4>1, <5>1
        <5>2. CASE v = c /\ p # u
          BY <1>1, <3>1, <3>2, <4>1, <5>2
        <5>3. CASE v = c /\ p = u
          <6>1. CASE HBForkChild(p, c)
            BY <1>1, <1>2, <2>4, <3>3, <4>1, <5>3, <6>1
          <6>2. CASE HBForkRoot(c)
            BY <1>1, <1>2, <2>4, <3>1, <4>1, <5>3, <6>2 DEF HBForkRoot, Zero
          <6> QED BY <6>1, <6>2
        <5> QED BY <5>1, <5>2, <5>3
      <4> QED BY <1>1, <2>1, <2>2, <2>4, <3>1, <3>3, <4>1, <4>2 DEF Behind
    <3>4. CASE u \notin threads
      <4>1. \A v \in Tid \ {u} : hb[v][u] = 0
        BY <2>1, <3>4 DEF Behind
      <4>2. hb'[c][u] = 0
        <5>1. CASE HBForkRoot(c)
          BY <1>1, <2>4, <5>1 DEF HBForkRoot, Zero
        <5>2. CASE HBForkChild(p, c) /\ p \in threads
          BY <1>2, <2>4, <3>4, <4>1, <5>2
        <5> QED BY <5>1, <5>2
      <4>3. \A v \in Tid \ {u} : hb'[v][u] = 0
        BY <3>2, <4>1, <4>2
      <4> QED BY <2>1, <2>4, <3>4, <4>3 DEF Behind
    <3> QED BY <3>3, <3>4
  <2> QED BY <2>3, <2>4
<1>4. OwnClockLeads'
  BY <1>3 DEF OwnClockLeads
<1> QED BY <1>2, <1>4

\* A thread c ends, with thrs the clocks after the join, if any.
LEMMA LeadsEnd ==
  ASSUME RDTypeOK, OwnClockLeads, NEW c \in Tid, threads' = threads \ {c},
         NEW thrs \in [Tid -> HBClock], ForgetEdges(c, thrs),
         \A u \in Tid \ {c} : thrs[u][u] = hb[u][u],
         \A u \in Tid \ {c} : \A t \in Tid \ {u} : Behind(thrs[t], u)
  PROVE  /\ OwnClockLeads'
         /\ \A u \in Tid \ {c} : hb'[u][u] = hb[u][u]
<1>1. /\ hb' = [u \in Tid |-> IF u = c THEN Zero ELSE Forget(thrs[u], c)]
      /\ hbLock' = [m \in Mutex |-> Forget(hbLock[m], c)]
      /\ hbIdent' = [i \in Identifier |-> Forget(hbIdent[i], c)]
  BY DEF ForgetEdges
<1>2. /\ thrs \in [Tid -> [Tid -> Nat]] /\ hbLock \in [Mutex -> [Tid -> Nat]]
      /\ hbIdent \in [Identifier -> [Tid -> Nat]]
  BY DEF RDTypeOK, HBClock
<1>3. /\ \A t, u \in Tid : hb'[t][u] = IF t = c \/ u = c THEN 0 ELSE thrs[t][u]
      /\ \A m \in Mutex, u \in Tid : hbLock'[m][u] = IF u = c THEN 0 ELSE hbLock[m][u]
      /\ \A i \in Identifier, u \in Tid : hbIdent'[i][u] = IF u = c THEN 0 ELSE hbIdent[i][u]
  BY <1>1, <1>2 DEF Forget, Zero
<1>4. \A u \in Tid \ {c} : hb'[u][u] = hb[u][u]
  BY <1>3
<1>5. ASSUME NEW u \in Tid
      PROVE  /\ \A v \in Tid \ {u} : Behind(hb[v], u)'
             /\ \A m \in Mutex : Behind(hbLock[m], u)'
             /\ \A i \in Identifier : Behind(hbIdent[i], u)'
             /\ u \in threads' => hb'[u][u] > 0
  <2>1. CASE u = c
    BY <1>3, <2>1 DEF Behind
  <2>2. CASE u # c
    <3>1. /\ \A v \in Tid \ {u} : Behind(thrs[v], u)
          /\ \A m \in Mutex : Behind(hbLock[m], u)
          /\ \A i \in Identifier : Behind(hbIdent[i], u)
          /\ u \in threads => hb[u][u] > 0
      BY <2>2 DEF OwnClockLeads
    <3> QED BY <1>3, <1>4, <2>2, <3>1 DEF Behind
  <2> QED BY <2>1, <2>2
<1> QED BY <1>4, <1>5 DEF OwnClockLeads

\* The clocks after a join.
LEMMA JoinedClocks ==
  ASSUME RDTypeOK, OwnClockLeads, threads \subseteq Tid,
         NEW p \in threads, NEW c \in threads, p # c
  PROVE  LET thrs == [hb EXCEPT ![p] = Max2(hb[p], hb[c])]
         IN  /\ thrs \in [Tid -> HBClock]
             /\ \A u \in Tid \ {c} : thrs[u][u] = hb[u][u]
             /\ \A u \in Tid \ {c} : \A t \in Tid \ {u} : Behind(thrs[t], u)
<1> DEFINE thrs == [hb EXCEPT ![p] = Max2(hb[p], hb[c])]
<1>1. hb \in [Tid -> HBClock] /\ p \in Tid /\ c \in Tid
  BY DEF RDTypeOK
<1>2. Max2(hb[p], hb[c]) \in HBClock
  BY <1>1, RefTypes
<1>3. /\ thrs[p] = Max2(hb[p], hb[c]) /\ \A t \in Tid \ {p} : thrs[t] = hb[t]
      /\ thrs \in [Tid -> HBClock]
  BY <1>1, <1>2
<1> HIDE DEF thrs
<1>4. \A u \in Tid \ {c} : thrs[u][u] = hb[u][u]
  <2>1. hb[c][p] < hb[p][p] /\ hb[c][p] \in Nat /\ hb[p][p] \in Nat
    BY <1>1 DEF Behind, HBClock, OwnClockLeads
  <2>2. thrs[p][p] = hb[p][p]
    BY <1>1, <1>3, <2>1 DEF Max2
  <2> QED BY <1>3, <2>2
<1>5. ASSUME NEW u \in Tid \ {c}, NEW t \in Tid \ {u} PROVE Behind(thrs[t], u)
  <2>1. Behind(hb[t], u) /\ Behind(hb[c], u)
    BY <1>1 DEF OwnClockLeads
  <2> QED BY <1>1, <1>3, <2>1, BehindMerged
<1> QED BY <1>3, <1>4, <1>5 DEF thrs

LEMMA LeadsStep ==
  ASSUME Base, [RDNext]_rdVars
  PROVE  OwnClockLeads'
<1>0. RDTypeOK /\ OwnClockLeads /\ threads \subseteq Tid
  BY DEF Base, ClockInv, TypeOK
<1>1. ASSUME UNCHANGED <<threads, hb, hbLock, hbIdent>> PROVE OwnClockLeads'
  BY <1>0, <1>1 DEF OwnClockLeads, Behind
<1>2. CASE UNCHANGED rdVars
  BY <1>1, <1>2 DEF rdVars, ftVars, threadVars, hbVars, edgeVars
<1>3. ASSUME NEW p \in Tid, NEW c \in Tid, PForkRoot(p, c) \/ PForkChild(p, c)
      PROVE  OwnClockLeads'
  <2>1. c \notin threads /\ threads' = threads \cup {c} /\ UNCHANGED <<hbLock, hbIdent>>
        /\ (HBForkRoot(c) \/ (HBForkChild(p, c) /\ p \in threads))
    BY <1>3 DEF PForkRoot, PForkChild, MayStart, ForkRoot, ForkChild, HBForkRoot, HBForkChild
  <2> QED BY <1>0, <2>1, LeadsStart
<1>4. ASSUME NEW p \in Tid, NEW c \in Tid, PJoin(p, c)
      PROVE  OwnClockLeads'
  <2>1. /\ p \in threads /\ c \in threads /\ p # c /\ threads' = threads \ {c}
        /\ ForgetEdges(c, [hb EXCEPT ![p] = Max2(hb[p], hb[c])])
    BY <1>4 DEF PJoin, Join, cleanup, HBJoin, HBEnd
  <2> QED BY <1>0, <2>1, JoinedClocks, LeadsEnd
<1>5. ASSUME NEW c \in Tid, PFinish(c)
      PROVE  OwnClockLeads'
  <2>1. threads' = threads \ {c} /\ ForgetEdges(c, hb)
    BY <1>5 DEF PFinish, Finish, cleanup, HBFinish, HBEnd
  <2>2. hb \in [Tid -> HBClock] /\ \A u \in Tid \ {c} : \A t \in Tid \ {u} : Behind(hb[t], u)
    BY <1>0 DEF RDTypeOK, OwnClockLeads
  <2> QED BY <1>0, <2>1, <2>2, LeadsEnd
<1>6. ASSUME NEW t \in Tid, NEW m \in Mutex, PAcquire(t, m)
      PROVE  OwnClockLeads'
  <2>1. /\ t \in threads /\ hb' = [hb EXCEPT ![t] = Max2(hb[t], hbLock[m])]
        /\ UNCHANGED <<threads, hbLock, hbIdent>>
    BY <1>6 DEF PAcquire, Acquire, HBAcquire
  <2>2. hbLock[m] \in HBClock /\ \A u \in Tid : Behind(hbLock[m], u)
    BY <1>0 DEF RDTypeOK, OwnClockLeads
  <2> QED BY <1>0, <2>1, <2>2, LeadsMerge
<1>7. ASSUME NEW t \in Tid, NEW m \in Mutex, PRelease(t, m)
      PROVE  OwnClockLeads'
  <2>1. /\ t \in threads /\ hb' = [hb EXCEPT ![t] = Tick(hb[t], t)] /\ threads' = threads
        /\ hbLock' = [hbLock EXCEPT ![m] = Max2(hbLock[m], hb[t])] /\ hbIdent' = hbIdent
    BY <1>7 DEF PRelease, Release, ReleaseUnknown, ReleaseKnown, threadVars, HBRelease
  <2>2. \A n \in Mutex, u \in Tid : hbLock'[n][u] \in {hbLock[n][u], hb[t][u]}
    BY <1>0, <2>1, MaxEntry DEF RDTypeOK
  <2> QED BY <1>0, <2>1, <2>2, LeadsTick
<1>8. ASSUME NEW t \in Tid, NEW i \in Identifier, PBefore(t, i)
      PROVE  OwnClockLeads'
  <2>1. /\ t \in threads /\ hb' = [hb EXCEPT ![t] = Tick(hb[t], t)] /\ threads' = threads
        /\ hbIdent' = [hbIdent EXCEPT ![i] = Max2(hbIdent[i], hb[t])] /\ hbLock' = hbLock
    BY <1>8 DEF PBefore, HappensBefore, HBBefore
  <2>2. \A j \in Identifier, u \in Tid : hbIdent'[j][u] \in {hbIdent[j][u], hb[t][u]}
    BY <1>0, <2>1, MaxEntry DEF RDTypeOK
  <2> QED BY <1>0, <2>1, <2>2, LeadsTick
<1>9. ASSUME NEW t \in Tid, NEW i \in Identifier, PAfter(t, i)
      PROVE  OwnClockLeads'
  <2>1. /\ t \in threads /\ hb' = [hb EXCEPT ![t] = Max2(hb[t], hbIdent[i])]
        /\ UNCHANGED <<threads, hbLock, hbIdent>>
    BY <1>9 DEF PAfter, HappensAfter, HBAfter
  <2>2. hbIdent[i] \in HBClock /\ \A u \in Tid : Behind(hbIdent[i], u)
    BY <1>0 DEF RDTypeOK, OwnClockLeads
  <2> QED BY <1>0, <2>1, <2>2, LeadsMerge
<1>10. ASSUME NEW t \in Tid, NEW m \in Mutex, PAcquireAgain(t, m) \/ PReleaseInner(t, m)
       PROVE  OwnClockLeads'
  BY <1>1, <1>10 DEF PAcquireAgain, PReleaseInner, Release, ReleaseUnknown, ReleaseKnown,
                     threadVars, edgeVars
<1>11. ASSUME NEW t \in Tid, NEW x \in Addr, PRead(t, x) \/ PWrite(t, x)
       PROVE  OwnClockLeads'
  <2>1. threads' = threads
    BY <1>11 DEF PRead, PWrite, Read, Write, threadVars
  <2>2. UNCHANGED <<hb, hbLock, hbIdent>>
    <3>1. PRead(t, x) => UNCHANGED edgeVars
      BY DEF PRead, HBRead, HBAccess
    <3>2. PWrite(t, x) => UNCHANGED edgeVars
      BY DEF PWrite, HBWrite, HBAccess
    <3> QED BY <1>11, <3>1, <3>2 DEF edgeVars
  <2> QED BY <1>1, <2>1, <2>2
<1>12. ASSUME NEW b \in Block, PAllocate(b) \/ PDeallocate(b)
       PROVE  OwnClockLeads'
  BY <1>1, <1>12 DEF PAllocate, PDeallocate, Allocate, Deallocate, HBFree, threadVars, edgeVars
<1>13. CASE PFinalize
  <2>1. threads' = {} /\ hb' = [t \in Tid |-> Zero] /\ hbLock' = [m \in Mutex |-> Zero]
        /\ hbIdent' = [i \in Identifier |-> Zero]
    BY <1>13 DEF PFinalize, Finalize, HBReset
  <2> QED BY <2>1 DEF OwnClockLeads, Behind, Zero
<1> QED
  BY <1>2, <1>3, <1>4, <1>5, <1>6, <1>7, <1>8, <1>9, <1>10, <1>11, <1>12, <1>13 DEF RDNext

-----------------------------------------------------------------------------
(* All of it together. *)

LEMMA BaseInit == RDInit => Base
<1> SUFFICES ASSUME RDInit PROVE Base
  OBVIOUS
<1>1. ClockInv
  BY ClockInit DEF RDInit
<1>2. RDTypeOK
  BY RefTypes DEF RDInit, HBInit, RDTypeOK, Zero, HBClock
<1>3. threads = {} /\ hb = [t \in Tid |-> Zero] /\ hbLock = [m \in Mutex |-> Zero]
      /\ hbIdent = [i \in Identifier |-> Zero]
  BY DEF RDInit, Init, HBInit
<1>4. OwnClockLeads
  BY <1>3 DEF OwnClockLeads, Behind, Zero
<1>5. Bookkeeping /\ SizesKnown
  BY BlockAssumption, <1>3 DEF RDInit, Init, Bookkeeping, SizesKnown
<1> QED BY <1>1, <1>2, <1>4, <1>5 DEF Base

LEMMA BaseStep ==
  ASSUME NoWrap, BlocksApart, Base, [RDNext]_rdVars
  PROVE  Base'
BY RDClock, RDTypes, BookStep, LeadsStep, SizesStep DEF Base

-----------------------------------------------------------------------------
(* The steps. *)

LEMMA InvInit == RDInit => RDInv
<1> SUFFICES ASSUME RDInit PROVE RDInv
  OBVIOUS
<1>1. \A u \in Tid : Recorded(u) = {}
  BY DEF RDInit, Init, Recorded
<1>2. EpochsNamed /\ ClocksAgree
  BY <1>1 DEF RDInit, Init, EpochsNamed, ClocksAgree
<1> QED BY <1>2, BaseInit DEF RDInv

\* What a step has to keep, apart from what is shown above.
Knowledge == EpochsNamed /\ ClocksAgree

\* A step that adds nothing to the records and leaves all clocks alone.
LEMMA QuietStep ==
  ASSUME RDInv, ClockInv', UNCHANGED <<threads, id, vc, lockVC, hb, hbLock, used>>,
         \A u \in Tid : Recorded(u)' \subseteq Recorded(u)
  PROVE  Knowledge'
<1>1. EpochsNamed'
  <2>1. \A u \in threads : u \in Tid /\ id[u] <= id'[u]
    BY DEF RDInv, Base, ClockInv, TypeOK, VC, VC_ID
  <2> QED BY <2>1, NamedKept
<1>2. ClocksAgree'
  <2>1. threads \subseteq Tid
    BY DEF RDInv, Base, ClockInv, TypeOK
  <2> QED BY <2>1 DEF RDInv, ClocksAgree, Agree
<1> QED BY <1>1, <1>2 DEF Knowledge

\* A new thread is on record nowhere.
LEMMA NewThread ==
  ASSUME RDInv, ~TidReuse, NEW p \in Tid, NEW c \in Tid, MayStart(p, c)
  PROVE  /\ c \notin threads
         /\ Recorded(c) = {}
         /\ \A t \in Tid \ {c} : hb[t][c] = 0
         /\ \A m \in Mutex : hbLock[m][c] = 0
BY DEF RDInv, Base, MayStart, EpochsNamed, OwnClockLeads, Behind

\* Accesses on record are no older than the thread.
LEMMA NothingKnown ==
  ASSUME RDInv, NEW u \in threads, NEW e
  PROVE  Agree(Recorded(u), e, 0)
<1>1. u \in Tid
  BY DEF RDInv, Base, ClockInv, TypeOK
<1>2. \A a \in Recorded(u) : a.clock \in Nat /\ a.clock > 0
  BY <1>1, RecordedType DEF RDInv, Base, ClockInv, EpochsNamed
<1> QED BY <1>2 DEF Agree

LEMMA ForkRootStep ==
  ASSUME RDInv, ClockInv', ~TidReuse, NEW p \in Tid, NEW c \in Tid, PForkRoot(p, c)
  PROVE  Knowledge'
<1>0. MayStart(p, c) /\ ForkRoot(p, c) /\ HBForkRoot(c) /\ used' = used \cup {c}
  BY DEF PForkRoot
<1>1. /\ c \notin threads
      /\ Recorded(c) = {}
      /\ \A t \in Tid \ {c} : hb[t][c] = 0
      /\ \A m \in Mutex : hbLock[m][c] = 0
      /\ c \notin used
  BY <1>0, NewThread DEF MayStart
<1>2. \A u \in Tid : Recorded(u)' = Recorded(u)
  BY <1>0, RecordedSame DEF ForkRoot, varVars, HBForkRoot, Silent, accessVars
<1>3. threads' = threads \cup {c} /\ lockVC' = lockVC /\ hbLock' = hbLock
  BY <1>0 DEF ForkRoot, syncVars, HBForkRoot
<1>4. /\ \A t \in Tid \ {c} : id'[t] = id[t] /\ vc'[t] = vc[t] /\ hb'[t] = hb[t]
      /\ hb'[c][c] = 1
      /\ \A u \in Tid \ {c} : hb'[c][u] = 0
  BY <1>0, <1>1 DEF ForkRoot, HBForkRoot, Zero, RDInv, Base, RDTypeOK, HBClock
<1>5. threads \subseteq Tid /\ \A u \in Tid : id[u] \in Nat /\ hb[u][u] \in Nat
  BY DEF RDInv, Base, ClockInv, TypeOK, VC, VC_ID, RDTypeOK, HBClock
<1>6. EpochsNamed'
  <2>1. \A u \in threads \cap threads' : id[u] <= id'[u]
    BY <1>1, <1>4, <1>5
  <2> QED BY <1>0, <1>1, <1>2, <1>3, <2>1, NamedKept
<1>7. ClocksAgree'
  <2> SUFFICES ASSUME NEW u \in threads, u # c
               PROVE  /\ \A t \in threads' \ {u} : Agree(Recorded(u), vc'[t][u], hb'[t][u])
                      /\ \A m \in Mutex : Agree(Recorded(u), lockVC[m][u], hbLock[m][u])
    BY <1>1, <1>2, <1>3, <1>5 DEF ClocksAgree, Agree
  <2>1. Agree(Recorded(u), vc'[c][u], hb'[c][u])
    BY <1>4, <1>5, NothingKnown
  <2> QED BY <1>3, <1>4, <1>5, <2>1 DEF RDInv, ClocksAgree
<1> QED BY <1>6, <1>7 DEF Knowledge

LEMMA ForkChildStep ==
  ASSUME NoWrap, RDInv, ClockInv', ~TidReuse, NEW p \in Tid, NEW c \in Tid, PForkChild(p, c)
  PROVE  Knowledge'
<1>0. MayStart(p, c) /\ ForkChild(p, c) /\ HBForkChild(p, c) /\ used' = used \cup {c}
  BY DEF PForkChild
<1>1. /\ c \notin threads
      /\ Recorded(c) = {}
      /\ \A t \in Tid \ {c} : hb[t][c] = 0
      /\ \A m \in Mutex : hbLock[m][c] = 0
      /\ c \notin used
      /\ p \in threads /\ p # c
  BY <1>0, NewThread DEF MayStart, ForkChild
<1>2. \A u \in Tid : Recorded(u)' = Recorded(u)
  BY <1>0, RecordedSame DEF ForkChild, varVars, HBForkChild, Silent, accessVars
<1>3. threads' = threads \cup {c} /\ lockVC' = lockVC /\ hbLock' = hbLock
  BY <1>0 DEF ForkChild, syncVars, HBForkChild
<1>4. IncVC(p) = [vc[p] EXCEPT ![p] = id[p] + 1] /\ vc[p] \in [Tid -> Nat]
  BY <1>0, <1>1, IncOwn DEF RDInv, Base, ClockInv, TypeOK, VC, VC_ID, ForkChild
<1>5. /\ \A t \in Tid \ {c, p} : id'[t] = id[t] /\ vc'[t] = vc[t]
      /\ vc'[c] = IncVC(p) /\ vc'[p] = IncVC(p)
      /\ id'[p] = id[p] + 1
  BY <1>0, <1>1 DEF ForkChild, IncId
<1>6. /\ \A t \in Tid \ {c, p} : hb'[t] = hb[t]
      /\ hb'[c][c] = 1
      /\ \A u \in Tid \ {c} : hb'[c][u] = hb[p][u]
      /\ hb'[p][p] = hb[p][p] + 1
      /\ \A u \in Tid \ {p} : hb'[p][u] = hb[p][u]
  <2>1. hb \in [Tid -> [Tid -> Nat]]
    BY DEF RDInv, Base, RDTypeOK, HBClock
  <2>2. hb' = [hb EXCEPT ![c] = [hb[p] EXCEPT ![c] = 1], ![p] = Tick(@, p)]
    BY <1>0 DEF HBForkChild
  <2>3. /\ hb'[c] = [hb[p] EXCEPT ![c] = 1]
        /\ hb'[p] = [hb[p] EXCEPT ![p] = @ + 1]
        /\ \A t \in Tid \ {c, p} : hb'[t] = hb[t]
    BY <1>1, <2>1, <2>2 DEF Tick
  <2> QED BY <2>1, <2>3
<1>7. /\ threads \subseteq Tid
      /\ \A u \in Tid : id[u] \in Nat /\ \A t \in Tid : hb[t][u] \in Nat
      /\ \A u \in Tid, m \in Mutex : hbLock[m][u] \in Nat
  BY DEF RDInv, Base, ClockInv, TypeOK, VC, VC_ID, RDTypeOK, HBClock
<1>8. EpochsNamed'
  <2>1. \A u \in threads \cap threads' : id[u] <= id'[u]
    BY <1>1, <1>5, <1>7
  <2> QED BY <1>0, <1>1, <1>2, <1>3, <2>1, NamedKept
<1>9. ClocksAgree'
  <2> SUFFICES ASSUME NEW u \in threads, u # c
               PROVE  /\ \A t \in threads' \ {u} : Agree(Recorded(u), vc'[t][u], hb'[t][u])
                      /\ \A m \in Mutex : Agree(Recorded(u), lockVC[m][u], hbLock[m][u])
    BY <1>1, <1>2, <1>3, <1>7 DEF ClocksAgree, Agree
  <2>1. /\ \A t \in threads \ {u} : Agree(Recorded(u), vc[t][u], hb[t][u])
        /\ \A m \in Mutex : Agree(Recorded(u), lockVC[m][u], hbLock[m][u])
    BY DEF RDInv, ClocksAgree
  <2>2. CASE u = p
    <3>1. vc'[c][u] = id[u] + 1
      BY <1>4, <1>5, <1>7, <2>2
    <3>2. Agree(Recorded(u), vc'[c][u], hb'[c][u])
      BY <3>1, OwnCovered
    <3> QED BY <1>3, <1>5, <1>6, <1>7, <2>1, <2>2, <3>2
  <2>3. CASE u # p
    <3>1. vc'[c][u] = vc[p][u] /\ vc'[p][u] = vc[p][u]
      BY <1>4, <1>5, <1>7, <2>3
    <3>2. hb'[c][u] = hb[p][u] /\ hb'[p][u] = hb[p][u]
      BY <1>6, <1>7, <2>3
    <3> QED BY <1>1, <1>3, <1>5, <1>6, <1>7, <2>1, <2>3, <3>1, <3>2
  <2> QED BY <2>2, <2>3
<1> QED BY <1>8, <1>9 DEF Knowledge

\* A thread ends, with tvc and thrs the clocks of both sides after the join, if any.
LEMMA EndStep ==
  ASSUME RDInv, ClockInv', NEW c \in Tid, NEW tvc \in [Tid -> VC], cleanup(c, tvc),
         UNCHANGED <<w_id, r_id, shared_vc, used>>,
         NEW thrs \in [Tid -> HBClock], HBEnd(c, thrs),
         \A u \in threads \ {c} : \A t \in threads \ {u, c} :
           Agree(Recorded(u), tvc[t][u], thrs[t][u])
  PROVE  Knowledge'
<1>1. /\ threads' = threads \ {c}
      /\ id' = [id EXCEPT ![c] = 0]
      /\ vc' = [t \in Tid |-> IF t = c THEN EmptyVC ELSE delete_vc(tvc[t], c)]
      /\ lockVC' = [m \in Mutex |-> delete_vc(lockVC[m], c)]
  BY DEF cleanup
<1>2. /\ hb' = [u \in Tid |-> IF u = c THEN Zero ELSE Forget(thrs[u], c)]
      /\ hbLock' = [m \in Mutex |-> Forget(hbLock[m], c)]
      /\ lastW' = [x \in Addr |-> Forget(lastW[x], c)]
      /\ lastR' = [x \in Addr |-> Forget(lastR[x], c)]
  BY DEF HBEnd, ForgetEdges, ForgetAccesses
<1>3. /\ threads \subseteq Tid /\ id \in [Tid -> Nat]
      /\ lockVC \in [Mutex -> [Tid -> Nat]] /\ tvc \in [Tid -> [Tid -> Nat]]
      /\ hb \in [Tid -> [Tid -> Nat]] /\ thrs \in [Tid -> [Tid -> Nat]]
      /\ hbLock \in [Mutex -> [Tid -> Nat]]
      /\ lastW \in [Addr -> [Tid -> Nat]] /\ lastR \in [Addr -> [Tid -> Nat]]
  BY DEF RDInv, Base, ClockInv, TypeOK, VC, VC_ID, RDTypeOK, HBClock
<1>4. \A u \in Tid \ {c} : Recorded(u)' = Recorded(u)
  <2>1. \A u \in Tid \ {c}, x \in Addr : lastW'[x][u] = lastW[x][u] /\ lastR'[x][u] = lastR[x][u]
    BY <1>2, <1>3 DEF Forget
  <2> QED BY <2>1, RecordedSame
<1>5. EpochsNamed'
  <2>1. \A u \in threads \cap threads' : id[u] <= id'[u]
    BY <1>1, <1>3
  <2>2. ASSUME NEW a \in Recorded(c)'
        PROVE  \E b \in Recorded(c) : b.epoch = a.epoch
    <3>1. PICK x \in Addr :
            \/ a = [epoch |-> w_id[x], clock |-> lastW'[x][c]]
            \/ \E e \in {r_id[x]} \cup shared_vc[x] : a = [epoch |-> e, clock |-> lastR'[x][c]]
      BY <2>2 DEF Recorded
    <3>2. a.epoch # VAR_NOT_INIT /\ make_tid(a.epoch) = c
      BY <2>2 DEF Recorded
    <3>3. CASE a = [epoch |-> w_id[x], clock |-> lastW'[x][c]]
      <4>1. [epoch |-> w_id[x], clock |-> lastW[x][c]] \in Recorded(c)
        BY <3>2, <3>3, RecordedMember
      <4> QED BY <3>3, <4>1
    <3>4. ASSUME NEW e \in {r_id[x]} \cup shared_vc[x], a = [epoch |-> e, clock |-> lastR'[x][c]]
          PROVE  \E b \in Recorded(c) : b.epoch = a.epoch
      <4>1. [epoch |-> e, clock |-> lastR[x][c]] \in Recorded(c)
        BY <3>2, <3>4, RecordedMember
      <4> QED BY <3>4, <4>1
    <3> QED BY <3>1, <3>3, <3>4
  <2>3. \A u \in Tid : \A a \in Recorded(u)' :
          \E b \in Recorded(u) : b.epoch = a.epoch /\ (u \in threads' => b.clock = a.clock)
    BY <1>1, <1>4, <2>2
  <2> QED BY <1>1, <2>1, <2>3, NamedKept
<1>6. ClocksAgree'
  <2> SUFFICES ASSUME NEW u \in threads, u # c
               PROVE  /\ \A t \in threads' \ {u} : Agree(Recorded(u), vc'[t][u], hb'[t][u])
                      /\ \A m \in Mutex : Agree(Recorded(u), lockVC'[m][u], hbLock'[m][u])
    BY <1>1, <1>3, <1>4 DEF ClocksAgree, Agree
  <2>1. \A t \in threads' : vc'[t][u] = tvc[t][u] /\ hb'[t][u] = thrs[t][u]
    BY <1>1, <1>2, <1>3 DEF delete_vc, Forget
  <2>2. \A m \in Mutex : lockVC'[m][u] = lockVC[m][u] /\ hbLock'[m][u] = hbLock[m][u]
    BY <1>1, <1>2, <1>3 DEF delete_vc, Forget
  <2>3. \A m \in Mutex : Agree(Recorded(u), lockVC[m][u], hbLock[m][u])
    BY DEF RDInv, ClocksAgree
  <2> QED BY <1>1, <2>1, <2>2, <2>3
<1> QED BY <1>5, <1>6 DEF Knowledge

LEMMA FinishStep ==
  ASSUME RDInv, ClockInv', NEW c \in Tid, PFinish(c)
  PROVE  Knowledge'
<1>1. cleanup(c, vc) /\ HBEnd(c, hb) /\ UNCHANGED <<w_id, r_id, shared_vc, used>>
  BY DEF PFinish, Finish, HBFinish, varVars, progVars
<1>2. vc \in [Tid -> VC] /\ hb \in [Tid -> HBClock] /\ threads \subseteq Tid
  BY DEF RDInv, Base, ClockInv, TypeOK, RDTypeOK
<1>3. \A u \in threads \ {c} : \A t \in threads \ {u, c} : Agree(Recorded(u), vc[t][u], hb[t][u])
  BY DEF RDInv, ClocksAgree
<1> QED BY <1>1, <1>2, <1>3, EndStep

\* The accesses on record have the types the lemmas about Agree ask for.
LEMMA RecordTypes ==
  ASSUME RDInv, NEW u \in Tid
  PROVE  \A a \in Recorded(u) : a.clock \in Nat /\ a.epoch \in Nat
BY RecordedType DEF RDInv, Base, ClockInv

LEMMA JoinStep ==
  ASSUME NoWrap, RDInv, ClockInv', NEW p \in Tid, NEW c \in Tid, PJoin(p, c)
  PROVE  Knowledge'
<1> DEFINE tvc == [vc EXCEPT ![p] = update(vc[p], IncVC(c))]
           thrs == [hb EXCEPT ![p] = Max2(hb[p], hb[c])]
<1>1. /\ p \in threads /\ c \in threads /\ p # c /\ CanInc(c)
      /\ cleanup(c, tvc) /\ HBEnd(c, thrs) /\ UNCHANGED <<w_id, r_id, shared_vc, used>>
  BY DEF PJoin, Join, HBJoin, varVars, progVars
<1>2. /\ vc \in [Tid -> VC] /\ hb \in [Tid -> HBClock] /\ threads \subseteq Tid
      /\ id \in [Tid -> Nat]
  BY DEF RDInv, Base, ClockInv, TypeOK, RDTypeOK, VC, VC_ID
<1>3. IncVC(c) \in VC /\ IncVC(c) = [vc[c] EXCEPT ![c] = id[c] + 1]
  BY <1>1, IncOwn, IncType DEF RDInv, Base, ClockInv
<1>4. update(vc[p], IncVC(c)) \in VC /\ Max2(hb[p], hb[c]) \in HBClock
  BY <1>2, <1>3, UpdateType, RefTypes
<1>5. tvc \in [Tid -> VC] /\ thrs \in [Tid -> HBClock]
  BY <1>2, <1>4
<1>6. /\ tvc[p] = update(vc[p], IncVC(c)) /\ \A t \in Tid \ {p} : tvc[t] = vc[t]
      /\ thrs[p] = Max2(hb[p], hb[c]) /\ \A t \in Tid \ {p} : thrs[t] = hb[t]
  BY <1>2
<1>7. \A u \in threads \ {c} : \A t \in threads \ {u, c} : Agree(Recorded(u), tvc[t][u], thrs[t][u])
  <2> SUFFICES ASSUME NEW u \in threads, u # c, NEW t \in threads, t # u, t # c
               PROVE  Agree(Recorded(u), tvc[t][u], thrs[t][u])
    OBVIOUS
  <2>1. Agree(Recorded(u), vc[t][u], hb[t][u]) /\ Agree(Recorded(u), vc[c][u], hb[c][u])
    BY <1>1 DEF RDInv, ClocksAgree
  <2>2. IncVC(c)[u] = vc[c][u]
    BY <1>1, <1>2, <1>3 DEF VC, VC_ID
  <2>3. CASE t = p
    <3>1. \A a \in Recorded(u) : a.clock \in Nat /\ a.epoch \in Nat
      BY <1>2, RecordTypes
    <3> QED BY <1>1, <1>2, <1>3, <1>6, <2>1, <2>2, <2>3, <3>1, AgreeMerged
  <2>4. CASE t # p
    BY <1>2, <1>6, <2>1, <2>4
  <2> QED BY <2>3, <2>4
<1> HIDE DEF tvc, thrs
<1> QED BY <1>1, <1>5, <1>7, EndStep

LEMMA AcquireStep ==
  ASSUME RDInv, ClockInv', NEW t \in Tid, NEW m \in Mutex, PAcquire(t, m)
  PROVE  Knowledge'
<1>0. /\ t \in threads /\ vc' = [vc EXCEPT ![t] = update(vc[t], lockVC[m])]
      /\ hb' = [hb EXCEPT ![t] = Max2(hb[t], hbLock[m])]
      /\ UNCHANGED <<threads, id, lockVC, hbLock, w_id, r_id, shared_vc, used, lastW, lastR>>
  BY DEF PAcquire, Acquire, HBAcquire, Silent, varVars, accessVars
<1>1. /\ vc \in [Tid -> VC] /\ lockVC \in [Mutex -> VC] /\ threads \subseteq Tid
      /\ hb \in [Tid -> HBClock] /\ hbLock \in [Mutex -> HBClock] /\ id \in [Tid -> Nat]
  BY DEF RDInv, Base, ClockInv, TypeOK, RDTypeOK, VC, VC_ID
<1>2. /\ vc'[t] = update(vc[t], lockVC[m]) /\ \A v \in Tid \ {t} : vc'[v] = vc[v]
      /\ hb'[t] = Max2(hb[t], hbLock[m]) /\ \A v \in Tid \ {t} : hb'[v] = hb[v]
  BY <1>0, <1>1
<1>3. \A u \in Tid : Recorded(u)' = Recorded(u)
  BY <1>0, RecordedSame
<1>4. EpochsNamed'
  <2>1. \A u \in threads : id[u] <= id'[u]
    BY <1>0, <1>1
  <2> QED BY <1>0, <1>3, <2>1, NamedKept
<1>5. ClocksAgree'
  <2> SUFFICES ASSUME NEW u \in threads
               PROVE  /\ \A v \in threads \ {u} : Agree(Recorded(u), vc'[v][u], hb'[v][u])
                      /\ \A n \in Mutex : Agree(Recorded(u), lockVC[n][u], hbLock[n][u])
    BY <1>0, <1>1, <1>3 DEF ClocksAgree, Agree
  <2>1. /\ \A v \in threads \ {u} : Agree(Recorded(u), vc[v][u], hb[v][u])
        /\ \A n \in Mutex : Agree(Recorded(u), lockVC[n][u], hbLock[n][u])
    BY DEF RDInv, ClocksAgree
  <2>2. ASSUME t # u PROVE Agree(Recorded(u), vc'[t][u], hb'[t][u])
    <3>1. \A a \in Recorded(u) : a.clock \in Nat /\ a.epoch \in Nat
      BY <1>1, RecordTypes
    <3> QED BY <1>0, <1>1, <1>2, <2>1, <2>2, <3>1, AgreeMerged
  <2> QED BY <1>1, <1>2, <2>1, <2>2
<1> QED BY <1>4, <1>5 DEF Knowledge

\* The detector's part of a release, the inner ones included.
LEMMA Published ==
  ASSUME NoWrap, Base, NEW t \in Tid, NEW m \in Mutex, Release(t, m), owner[m] = t
  PROVE  /\ t \in threads /\ threads' = threads
         /\ id' = [id EXCEPT ![t] = id[t] + 1]
         /\ IncVC(t) \in VC
         /\ IncVC(t)[t] = id[t] + 1
         /\ \A u \in Tid \ {t} : IncVC(t)[u] = vc[t][u]
         /\ \A v \in Tid : \A u \in Tid \ {v} : vc'[v][u] = vc[v][u]
         /\ lockVC' = [lockVC EXCEPT ![m] = update(lockVC[m], IncVC(t))]
         /\ UNCHANGED <<w_id, r_id, shared_vc>>
<1>1. m \in locks
  BY TidAssumption DEF Base, Bookkeeping
<1>2. ReleaseKnown(t, m)
  BY <1>1 DEF Release, ReleaseUnknown
<1>3. vc \in [Tid -> [Tid -> Nat]] /\ id \in [Tid -> Nat]
  BY DEF Base, ClockInv, TypeOK, VC, VC_ID
<1>4. IncVC(t) \in VC /\ IncVC(t) = [vc[t] EXCEPT ![t] = id[t] + 1]
  BY <1>2, IncOwn, IncType DEF Base, ClockInv, ReleaseKnown
<1>5. vc' = [vc EXCEPT ![t] = IncVC(t)]
  BY <1>2 DEF ReleaseKnown
<1>6. \A v \in Tid : \A u \in Tid \ {v} : vc'[v][u] = vc[v][u]
  BY <1>3, <1>4, <1>5
<1>7. IncVC(t)[t] = id[t] + 1 /\ \A u \in Tid \ {t} : IncVC(t)[u] = vc[t][u]
  BY <1>3, <1>4
<1> QED BY <1>2, <1>4, <1>6, <1>7 DEF ReleaseKnown, IncId, varVars

LEMMA ReleaseInnerStep ==
  ASSUME NoWrap, RDInv, ClockInv', NEW t \in Tid, NEW m \in Mutex, PReleaseInner(t, m)
  PROVE  Knowledge'
<1>0. /\ Release(t, m) /\ owner[m] = t
      /\ UNCHANGED <<hb, hbLock, lastW, lastR, used>>
  BY DEF PReleaseInner, edgeVars, Silent, accessVars
<1>1. /\ threads' = threads
      /\ id' = [id EXCEPT ![t] = id[t] + 1]
      /\ \A v \in Tid : \A u \in Tid \ {v} : vc'[v][u] = vc[v][u]
      /\ lockVC' = [lockVC EXCEPT ![m] = update(lockVC[m], IncVC(t))]
      /\ UNCHANGED <<w_id, r_id, shared_vc>>
      /\ IncVC(t) \in VC
  BY <1>0, Published DEF RDInv
<1>2. /\ lockVC \in [Mutex -> VC] /\ threads \subseteq Tid
      /\ hbLock \in [Mutex -> HBClock] /\ id \in [Tid -> Nat]
  BY DEF RDInv, Base, ClockInv, TypeOK, RDTypeOK, VC, VC_ID
<1>3. \A u \in Tid : Recorded(u)' = Recorded(u)
  BY <1>0, <1>1, RecordedSame
<1>4. EpochsNamed'
  <2>1. \A u \in threads : id[u] <= id'[u]
    BY <1>1, <1>2
  <2> QED BY <1>0, <1>1, <1>3, <2>1, NamedKept
<1>5. ClocksAgree'
  <2> SUFFICES ASSUME NEW u \in threads
               PROVE  /\ \A v \in threads \ {u} : Agree(Recorded(u), vc'[v][u], hb[v][u])
                      /\ \A n \in Mutex : Agree(Recorded(u), lockVC'[n][u], hbLock[n][u])
    BY <1>0, <1>1, <1>2, <1>3 DEF ClocksAgree, Agree
  <2>1. /\ \A v \in threads \ {u} : Agree(Recorded(u), vc[v][u], hb[v][u])
        /\ \A n \in Mutex : Agree(Recorded(u), lockVC[n][u], hbLock[n][u])
    BY DEF RDInv, ClocksAgree
  <2>2. Agree(Recorded(u), lockVC'[m][u], hbLock[m][u])
    <3>1. \A a \in Recorded(u) : a.clock \in Nat /\ a.epoch \in Nat
      BY <1>2, RecordTypes
    <3>2. /\ lockVC[m][u] \in Nat /\ IncVC(t)[u] \in Nat /\ hbLock[m][u] \in Nat
          /\ lockVC'[m][u] = IF IncVC(t)[u] > lockVC[m][u] THEN IncVC(t)[u] ELSE lockVC[m][u]
      BY <1>1, <1>2 DEF update, VC, VC_ID, HBClock
    <3> QED BY <2>1, <3>1, <3>2, AgreeGrown
  <2> QED BY <1>1, <1>2, <2>1, <2>2
<1> QED BY <1>4, <1>5 DEF Knowledge

LEMMA ReleaseStep ==
  ASSUME NoWrap, RDInv, ClockInv', NEW t \in Tid, NEW m \in Mutex, PRelease(t, m)
  PROVE  Knowledge'
<1>0. /\ Release(t, m) /\ owner[m] = t
      /\ hbLock' = [hbLock EXCEPT ![m] = Max2(hbLock[m], hb[t])]
      /\ hb' = [hb EXCEPT ![t] = Tick(hb[t], t)]
      /\ UNCHANGED <<lastW, lastR, used>>
  BY DEF PRelease, HBRelease, Silent, accessVars
<1>1. /\ t \in threads /\ threads' = threads
      /\ id' = [id EXCEPT ![t] = id[t] + 1]
      /\ IncVC(t) \in VC
      /\ IncVC(t)[t] = id[t] + 1
      /\ \A u \in Tid \ {t} : IncVC(t)[u] = vc[t][u]
      /\ \A v \in Tid : \A u \in Tid \ {v} : vc'[v][u] = vc[v][u]
      /\ lockVC' = [lockVC EXCEPT ![m] = update(lockVC[m], IncVC(t))]
      /\ UNCHANGED <<w_id, r_id, shared_vc>>
  BY <1>0, Published DEF RDInv
<1>2. /\ lockVC \in [Mutex -> VC] /\ threads \subseteq Tid /\ vc \in [Tid -> VC]
      /\ hb \in [Tid -> HBClock]
      /\ hbLock \in [Mutex -> HBClock] /\ id \in [Tid -> Nat]
  BY DEF RDInv, Base, ClockInv, TypeOK, RDTypeOK, VC, VC_ID
<1>3. \A u \in Tid : Recorded(u)' = Recorded(u)
  BY <1>0, <1>1, RecordedSame
<1>4. /\ \A v \in Tid \ {t} : hb'[v] = hb[v]
      /\ hb'[t][t] = hb[t][t] + 1
      /\ \A u \in Tid \ {t} : hb'[t][u] = hb[t][u]
      /\ \A n \in Mutex \ {m} : hbLock'[n] = hbLock[n]
      /\ hbLock'[m] = Max2(hbLock[m], hb[t])
  BY <1>0, <1>2 DEF Tick, HBClock
<1>6. EpochsNamed'
  <2>1. \A u \in threads : id[u] <= id'[u]
    BY <1>1, <1>2
  <2> QED BY <1>0, <1>1, <1>3, <2>1, NamedKept
<1>7. ClocksAgree'
  <2> SUFFICES ASSUME NEW u \in threads
               PROVE  /\ \A v \in threads \ {u} : Agree(Recorded(u), vc'[v][u], hb'[v][u])
                      /\ \A n \in Mutex : Agree(Recorded(u), lockVC'[n][u], hbLock'[n][u])
    BY <1>1, <1>2, <1>3 DEF ClocksAgree, Agree
  <2>1. /\ \A v \in threads \ {u} : Agree(Recorded(u), vc[v][u], hb[v][u])
        /\ \A n \in Mutex : Agree(Recorded(u), lockVC[n][u], hbLock[n][u])
    BY DEF RDInv, ClocksAgree
  <2>2. Agree(Recorded(u), IncVC(t)[u], hb[t][u])
    BY <1>1, <1>2, <2>1, OwnCovered
  <2>3. Agree(Recorded(u), lockVC'[m][u], hbLock'[m][u])
    <3>1. \A a \in Recorded(u) : a.clock \in Nat /\ a.epoch \in Nat
      BY <1>2, RecordTypes
    <3>2. lockVC'[m] = update(lockVC[m], IncVC(t))
      BY <1>1, <1>2
    <3>3. lockVC[m] \in VC /\ hbLock[m] \in HBClock /\ hb[t] \in HBClock /\ u \in Tid
      BY <1>2
    <3>4. Agree(Recorded(u), update(lockVC[m], IncVC(t))[u], Max2(hbLock[m], hb[t])[u])
      BY <1>1, <2>1, <2>2, <3>1, <3>3, AgreeMerged
    <3> QED BY <1>4, <3>2, <3>4
  <2>4. \A v \in threads \ {u} : vc'[v][u] = vc[v][u] /\ hb'[v][u] = hb[v][u]
    BY <1>1, <1>2, <1>4
  <2> QED BY <1>1, <1>2, <1>4, <2>1, <2>3, <2>4
<1> QED BY <1>6, <1>7 DEF Knowledge

\* An access of t, recorded with its clocks of both sides.
LEMMA AccessStep ==
  ASSUME NoWrap, RDInv, ClockInv', NEW t \in threads,
         UNCHANGED <<threads, id, vc, lockVC, hb, hbLock, used>>,
         \A u \in Tid \ {t} : Recorded(u)' \subseteq Recorded(u),
         \A a \in Recorded(t)' :
           \/ a \in Recorded(t)
           \/ /\ a.clock = hb[t][t]
              /\ a.epoch = id[t] \/ \E b \in Recorded(t) : b.epoch = a.epoch
  PROVE  Knowledge'
<1>1. /\ threads \subseteq Tid /\ t \in used
      /\ hb[t][t] > 0 /\ \A u \in Tid : hb[u][t] \in Nat
      /\ \A m \in Mutex : hbLock[m][t] \in Nat
  BY DEF RDInv, Base, ClockInv, TypeOK, RDTypeOK, HBClock, OwnClockLeads, Bookkeeping
<1>2. EpochsNamed'
  <2> SUFFICES ASSUME NEW u \in Tid, NEW a \in Recorded(u)'
               PROVE  u \in used /\ (u \in threads => Reached(a.epoch, u) /\ a.clock > 0)
    BY DEF EpochsNamed, Reached
  <2>1. \A b \in Recorded(u) : u \in used /\ (u \in threads => Reached(b.epoch, u) /\ b.clock > 0)
    BY DEF RDInv, EpochsNamed
  <2>2. CASE a \in Recorded(u)
    BY <2>1, <2>2
  <2>3. CASE a \notin Recorded(u)
    <3>1. u = t
      BY <2>3
    <3>2. a.clock = hb[t][t] /\ (a.epoch = id[t] \/ \E b \in Recorded(t) : b.epoch = a.epoch)
      BY <2>3, <3>1
    <3>3. Reached(id[t], t)
      BY <1>1 DEF RDInv, Base, ClockInv, EpochInRange, Reached, TypeOK, VC, VC_ID
    <3>4. Reached(a.epoch, t)
      BY <2>1, <3>1, <3>2, <3>3
    <3> QED BY <1>1, <3>1, <3>2, <3>4
  <2> QED BY <2>2, <2>3
<1>3. ClocksAgree'
  <2> SUFFICES ASSUME NEW u \in threads
               PROVE  /\ \A v \in threads \ {u} : Agree(Recorded(u)', vc[v][u], hb[v][u])
                      /\ \A n \in Mutex : Agree(Recorded(u)', lockVC[n][u], hbLock[n][u])
    BY DEF ClocksAgree, Agree
  <2>1. /\ \A v \in threads \ {u} : Agree(Recorded(u), vc[v][u], hb[v][u])
        /\ \A n \in Mutex : Agree(Recorded(u), lockVC[n][u], hbLock[n][u])
    BY DEF RDInv, ClocksAgree
  <2>2. CASE u # t
    BY <1>1, <2>1, <2>2 DEF Agree
  <2>3. CASE u = t
    <3>1. /\ \A v \in threads \ {t} : hb[v][t] < hb[t][t]
          /\ \A n \in Mutex : hbLock[n][t] < hb[t][t]
      BY <1>1 DEF RDInv, Base, OwnClockLeads, Behind
    <3>2. \A a \in Recorded(t)' : a \in Recorded(t) \/ a.clock = hb[t][t]
      OBVIOUS
    <3> QED BY <1>1, <2>1, <2>3, <3>1, <3>2 DEF Agree
  <2> QED BY <2>2, <2>3
<1> QED BY <1>2, <1>3 DEF Knowledge

LEMMA ReadStep ==
  ASSUME NoWrap, RDInv, ClockInv', NEW t \in Tid, NEW x \in Addr, PRead(t, x)
  PROVE  Knowledge'
<1>0. /\ t \in threads /\ UNCHANGED <<threads, id, vc, lockVC, hb, hbLock, used>>
      /\ lastW' = lastW /\ lastR' = [lastR EXCEPT ![x][t] = hb[t][t]]
      /\ w_id' = w_id
  BY DEF PRead, Read, HBRead, HBAccess, RecordRead, threadVars, syncVars, edgeVars, progVars,
         read_same_epoch, read_exclusive, read_share, read_shared
<1>1. make_tid(id[t]) = t
  BY <1>0, OwnTidHolds DEF RDInv, Base, OwnTid, get_tid
<1>2. /\ lastR \in [Addr -> [Tid -> Nat]]
      /\ r_id \in [Addr -> Nat] /\ shared_vc \in [Addr -> SUBSET Nat]
  BY DEF RDInv, Base, ClockInv, TypeOK, RDTypeOK, HBClock, VC_ID
<1>3. /\ \A y \in Addr, u \in Tid : u # t \/ y # x => lastR'[y][u] = lastR[y][u]
      /\ lastR'[x][t] = hb[t][t]
  BY <1>0, <1>2
<1>4. \A y \in Addr : \A e \in {r_id'[y]} \cup shared_vc'[y] :
        \/ e \in {r_id[y]} \cup shared_vc[y]
        \/ e = VAR_NOT_INIT
        \/ e = id[t] /\ y = x
  BY <1>2 DEF PRead, Read, read_same_epoch, read_exclusive, read_share, read_shared
<1>5. ASSUME NEW u \in Tid, NEW a \in Recorded(u)'
      PROVE  \/ a \in Recorded(u)
             \/ /\ u = t
                /\ a.clock = hb[t][t]
                /\ a.epoch = id[t] \/ \E b \in Recorded(t) : b.epoch = a.epoch
  <2>1. a.epoch # VAR_NOT_INIT /\ make_tid(a.epoch) = u
    BY <1>5 DEF Recorded
  <2>2. PICK y \in Addr :
          \/ a = [epoch |-> w_id[y], clock |-> lastW[y][u]]
          \/ \E e \in {r_id'[y]} \cup shared_vc'[y] : a = [epoch |-> e, clock |-> lastR'[y][u]]
    BY <1>0, <1>5 DEF Recorded
  <2>3. CASE a = [epoch |-> w_id[y], clock |-> lastW[y][u]]
    BY <2>1, <2>3, RecordedMember
  <2>4. ASSUME NEW e \in {r_id'[y]} \cup shared_vc'[y], a = [epoch |-> e, clock |-> lastR'[y][u]]
        PROVE  \/ a \in Recorded(u)
               \/ /\ u = t
                  /\ a.clock = hb[t][t]
                  /\ a.epoch = id[t] \/ \E b \in Recorded(t) : b.epoch = a.epoch
    <3>1. a.epoch = e /\ a.clock = lastR'[y][u]
      BY <2>4
    <3>2. CASE e = id[t] /\ y = x
      BY <1>1, <1>3, <2>1, <3>1, <3>2
    <3>3. CASE e \in {r_id[y]} \cup shared_vc[y]
      <4>1. [epoch |-> e, clock |-> lastR[y][u]] \in Recorded(u)
        BY <2>1, <3>1, <3>3, RecordedMember
      <4>2. CASE u = t /\ y = x
        BY <1>3, <3>1, <4>1, <4>2
      <4>3. CASE ~(u = t /\ y = x)
        <5>1. lastR'[y][u] = lastR[y][u]
          BY <1>3, <4>3
        <5> QED BY <2>4, <4>1, <5>1
      <4> QED BY <4>2, <4>3
    <3> QED BY <1>4, <2>1, <3>1, <3>2, <3>3
  <2> QED BY <2>2, <2>3, <2>4
<1> QED BY <1>0, <1>5, AccessStep

LEMMA WriteStep ==
  ASSUME NoWrap, RDInv, ClockInv', NEW t \in Tid, NEW x \in Addr, PWrite(t, x)
  PROVE  Knowledge'
<1>0. /\ t \in threads /\ UNCHANGED <<threads, id, vc, lockVC, hb, hbLock, used>>
      /\ lastR' = lastR /\ lastW' = [lastW EXCEPT ![x][t] = hb[t][t]]
  BY DEF PWrite, Write, HBWrite, HBAccess, RecordWrite, threadVars, syncVars, edgeVars, progVars
<1>1. make_tid(id[t]) = t
  BY <1>0, OwnTidHolds DEF RDInv, Base, OwnTid, get_tid
<1>2. /\ lastW \in [Addr -> [Tid -> Nat]] /\ w_id \in [Addr -> Nat]
      /\ r_id \in [Addr -> Nat] /\ shared_vc \in [Addr -> SUBSET Nat]
  BY DEF RDInv, Base, ClockInv, TypeOK, RDTypeOK, HBClock, VC_ID
<1>3. /\ \A y \in Addr, u \in Tid : u # t \/ y # x => lastW'[y][u] = lastW[y][u]
      /\ lastW'[x][t] = hb[t][t]
  BY <1>0, <1>2
<1>4. /\ \A y \in Addr : \A e \in {r_id'[y]} \cup shared_vc'[y] :
           e \in {r_id[y]} \cup shared_vc[y] \/ e = VAR_NOT_INIT
      /\ \A y \in Addr : w_id'[y] = w_id[y] \/ (w_id'[y] = id[t] /\ y = x)
  BY <1>2 DEF PWrite, Write, write_same_epoch, write_initial, write_exclusive, write_shared,
              update_write
<1>5. ASSUME NEW u \in Tid, NEW a \in Recorded(u)'
      PROVE  \/ a \in Recorded(u)
             \/ /\ u = t
                /\ a.clock = hb[t][t]
                /\ a.epoch = id[t] \/ \E b \in Recorded(t) : b.epoch = a.epoch
  <2>1. a.epoch # VAR_NOT_INIT /\ make_tid(a.epoch) = u
    BY <1>5 DEF Recorded
  <2>2. PICK y \in Addr :
          \/ a = [epoch |-> w_id'[y], clock |-> lastW'[y][u]]
          \/ \E e \in {r_id'[y]} \cup shared_vc'[y] : a = [epoch |-> e, clock |-> lastR[y][u]]
    BY <1>0, <1>5 DEF Recorded
  <2>3. ASSUME NEW e \in {r_id'[y]} \cup shared_vc'[y], a = [epoch |-> e, clock |-> lastR[y][u]]
        PROVE  a \in Recorded(u)
    BY <1>4, <2>1, <2>3, RecordedMember
  <2>4. CASE a = [epoch |-> w_id'[y], clock |-> lastW'[y][u]]
    <3>1. a.epoch = w_id'[y] /\ a.clock = lastW'[y][u]
      BY <2>4
    <3>2. CASE w_id'[y] = id[t] /\ y = x
      BY <1>1, <1>3, <2>1, <3>1, <3>2
    <3>3. CASE w_id'[y] = w_id[y]
      <4>1. [epoch |-> w_id[y], clock |-> lastW[y][u]] \in Recorded(u)
        BY <2>1, <3>1, <3>3, RecordedMember
      <4>2. CASE u = t /\ y = x
        BY <1>3, <3>1, <3>3, <4>1, <4>2
      <4>3. CASE ~(u = t /\ y = x)
        <5>1. lastW'[y][u] = lastW[y][u]
          BY <1>3, <4>3
        <5> QED BY <2>4, <3>3, <4>1, <5>1
      <4> QED BY <4>2, <4>3
    <3> QED BY <1>4, <3>2, <3>3
  <2> QED BY <2>2, <2>3, <2>4
<1> QED BY <1>0, <1>5, AccessStep

\* Records only go when memory is freed, on both sides alike.
LEMMA FreeStep ==
  ASSUME RDInv, ClockInv', NEW b \in Block, PDeallocate(b)
  PROVE  Knowledge'
<1>0. /\ UNCHANGED <<threads, id, vc, lockVC, hb, hbLock, used>>
      /\ b \in heap /\ Deallocate(b[1]) /\ HBFree(Within(b[1], b[2]))
  BY DEF PDeallocate, Deallocate, HBFree, threadVars, syncVars, edgeVars
<1>1. allocs[b[1]] = b[2] /\ b[2] # NoAlloc
  BY <1>0, BlockAssumption DEF RDInv, Base, SizesKnown, NoAlloc
<1> DEFINE gone == Within(b[1], b[2])
<1>2. /\ w_id' = [y \in Addr |-> IF y \in gone THEN VAR_NOT_INIT ELSE w_id[y]]
      /\ r_id' = [y \in Addr |-> IF y \in gone THEN VAR_NOT_INIT ELSE r_id[y]]
      /\ shared_vc' = [y \in Addr |-> IF y \in gone THEN {} ELSE shared_vc[y]]
      /\ lastW' = [y \in Addr |-> IF y \in gone THEN Zero ELSE lastW[y]]
      /\ lastR' = [y \in Addr |-> IF y \in gone THEN Zero ELSE lastR[y]]
  BY <1>0, <1>1 DEF Deallocate, HBFree
<1> HIDE DEF gone
<1>3. ASSUME NEW u \in Tid, NEW a \in Recorded(u)' PROVE a \in Recorded(u)
  <2>1. a.epoch # VAR_NOT_INIT /\ make_tid(a.epoch) = u
    BY <1>3 DEF Recorded
  <2>2. PICK y \in Addr :
          \/ a = [epoch |-> w_id'[y], clock |-> lastW'[y][u]]
          \/ \E e \in {r_id'[y]} \cup shared_vc'[y] : a = [epoch |-> e, clock |-> lastR'[y][u]]
    BY <1>3 DEF Recorded
  <2>3. y \notin gone
    BY <1>2, <2>1, <2>2
  <2>4. /\ w_id'[y] = w_id[y] /\ r_id'[y] = r_id[y] /\ shared_vc'[y] = shared_vc[y]
        /\ lastW'[y] = lastW[y] /\ lastR'[y] = lastR[y]
    BY <1>2, <2>3
  <2> QED BY <2>1, <2>2, <2>4, RecordedMember
<1> QED BY <1>0, <1>3, QuietStep

\* After finalize() there are no threads and no records.
LEMMA FinalizeStep ==
  ASSUME PFinalize
  PROVE  Knowledge'
<1>1. \A u \in Tid : Recorded(u)' = {}
  BY DEF PFinalize, Finalize, Recorded
<1>2. threads' = {} /\ hb' = [t \in Tid |-> Zero] /\ hbLock' = [m \in Mutex |-> Zero]
  BY DEF PFinalize, Finalize, HBReset
<1> QED BY <1>1, <1>2 DEF Knowledge, EpochsNamed, ClocksAgree

LEMMA InvStep ==
  ASSUME NoWrap, Premises, RDInv, [RDNext]_rdVars
  PROVE  RDInv'
<1>0. Base' /\ ClockInv'
  BY BaseStep DEF RDInv, Base, Premises
<1>1. ASSUME UNCHANGED <<threads, id, vc, lockVC, hb, hbLock, used, w_id, r_id, shared_vc,
                         lastW, lastR>>
      PROVE  Knowledge'
  <2>1. \A u \in Tid : Recorded(u)' = Recorded(u)
    BY <1>1, RecordedSame
  <2> QED BY <1>0, <1>1, <2>1, QuietStep
<1>2. ASSUME UNCHANGED rdVars
      PROVE  Knowledge'
  <2>1. UNCHANGED <<threads, id, vc, lockVC, hb, hbLock, used, w_id, r_id, shared_vc,
                    lastW, lastR>>
    BY <1>2 DEF rdVars, ftVars, threadVars, syncVars, varVars, hbVars, edgeVars,
                accessVars, progVars
  <2> QED BY <1>1, <2>1
<1>3. ASSUME NEW t \in Tid, NEW m \in Mutex, PAcquireAgain(t, m)
      PROVE  Knowledge'
  BY <1>1, <1>3 DEF PAcquireAgain, Silent, threadVars, syncVars, varVars, edgeVars, accessVars
<1>4. ASSUME NEW b \in Block, PAllocate(b)
      PROVE  Knowledge'
  BY <1>1, <1>4 DEF PAllocate, Allocate, Silent, threadVars, syncVars, varVars, edgeVars,
                    accessVars
<1>5. ASSUME NEW p \in Tid, NEW c \in Tid,
             PForkRoot(p, c) \/ PForkChild(p, c) \/ PJoin(p, c) \/ PFinish(c)
      PROVE  Knowledge'
  BY <1>0, <1>5, ForkRootStep, ForkChildStep, JoinStep, FinishStep DEF Premises
<1>6. ASSUME NEW t \in Tid, NEW m \in Mutex,
             PAcquire(t, m) \/ PReleaseInner(t, m) \/ PRelease(t, m)
      PROVE  Knowledge'
  BY <1>0, <1>6, AcquireStep, ReleaseInnerStep, ReleaseStep
<1>7. ASSUME NEW t \in Tid, NEW x \in Addr, PRead(t, x) \/ PWrite(t, x)
      PROVE  Knowledge'
  BY <1>0, <1>7, ReadStep, WriteStep
<1>8. ASSUME NEW b \in Block, PDeallocate(b)
      PROVE  Knowledge'
  BY <1>0, <1>8, FreeStep
<1>9. ~ \E t \in Tid, i \in Identifier : PBefore(t, i) \/ PAfter(t, i)
  BY DEF Premises
<1>10. Knowledge'
  BY <1>2, <1>3, <1>4, <1>5, <1>6, <1>7, <1>8, <1>9, FinalizeStep DEF RDNext
<1> QED BY <1>0, <1>10 DEF RDInv, Knowledge

-----------------------------------------------------------------------------
(* Reports. *)

\* The test of the is_*_race() functions on an access of a running thread that is on
\* record: an access it finds unordered is unordered.
LEMMA UnorderedIsRace ==
  ASSUME NoWrap, RDInv, NEW t \in threads, NEW u \in threads, NEW a \in Recorded(u),
         Unordered(t, a.epoch)
  PROVE  u # t /\ a.clock > hb[t][u]
<1>1. /\ u \in Tid /\ t \in Tid /\ make_id(u) \in Nat /\ id[u] \in Nat /\ vc[t][u] \in Nat
      /\ hb[t][u] \in Nat /\ a.clock \in Nat /\ a.epoch \in Nat /\ u \in Nat
      /\ MaxClock \in Nat /\ Multiplier \in Nat
  <2>1. u \in Tid /\ t \in Tid
    BY DEF RDInv, Base, ClockInv, TypeOK
  <2>2. id[u] \in Nat /\ vc[t][u] \in Nat /\ hb[t][u] \in Nat
    BY <2>1 DEF RDInv, Base, RDTypeOK, HBClock, ClockInv, TypeOK, VC, VC_ID
  <2>3. a.clock \in Nat /\ a.epoch \in Nat
    BY <2>1, RecordTypes
  <2> QED BY <2>1, <2>2, <2>3, PackTypes, TidAssumption, MaxClockAssumption,
             MultiplierAssumption
<1>2. a.epoch # 0 /\ make_tid(a.epoch) = u
  BY <1>1, RecordedMember DEF VAR_NOT_INIT
<1>3. u # t
  BY <1>2, OwnTidHolds DEF RDInv, Base, OwnTid, Unordered
<1>4. id[u] <= make_id(u) + MaxClock
  BY DEF RDInv, Base, ClockInv, EpochInRange
<1>5. make_id(u) <= a.epoch /\ a.epoch <= id[u]
  BY <1>1, <1>2 DEF RDInv, EpochsNamed, Reached
<1>6. make_clock(a.epoch) = a.epoch - make_id(u)
  <2> DEFINE c == a.epoch - make_id(u)
  <2>1. c \in Nat /\ c < Multiplier /\ a.epoch = make_id(u) + c
    BY <1>1, <1>4, <1>5 DEF NoWrap
  <2> QED BY <1>1, <2>1, Unpack
<1>7. a.epoch >= vc[t][u]
  <2>1. CASE vc[t][u] = 0
    BY <1>1, <2>1
  <2>2. CASE vc[t][u] # 0
    <3> DEFINE c == vc[t][u] - make_id(u)
    <3>1. make_id(u) <= vc[t][u] /\ vc[t][u] <= id[u]
      BY <1>1, <2>2 DEF RDInv, Base, ClockInv, NoFutureKnowledge, Reached
    <3>2. c \in Nat /\ c < Multiplier /\ vc[t][u] = make_id(u) + c
      BY <1>1, <1>4, <3>1 DEF NoWrap
    <3>3. make_clock(vc[t][u]) = vc[t][u] - make_id(u)
      BY <1>1, <3>2, Unpack
    <3>4. make_clock(a.epoch) >= make_clock(vc[t][u])
      BY <1>1, <1>2 DEF Unordered, get_clock_by_tid
    <3> QED BY <1>1, <1>6, <3>3, <3>4
  <2> QED BY <2>1, <2>2
<1>8. Agree(Recorded(u), vc[t][u], hb[t][u])
  BY <1>3 DEF RDInv, ClocksAgree
<1> QED BY <1>1, <1>3, <1>7, <1>8 DEF Agree

\* report_race() for the write on record, and for a read on record.
LEMMA WriteReported ==
  ASSUME NoWrap, RDInv, NEW t \in threads, NEW x \in Addr, Unordered(t, w_id[x]), NEW w,
         NEW r \in report_race(make_tid(w_id[x]), get_tid(t), TRUE, w, x)
  PROVE  IsRace(r)
<1> DEFINE u == make_tid(w_id[x])
           a == [epoch |-> w_id[x], clock |-> lastW[x][u]]
<1>1. get_tid(t) = t
  BY OwnTidHolds DEF RDInv, Base, OwnTid
<1>2. u \in threads /\ r = [addr |-> x, first |-> u, second |-> t, wr1 |-> TRUE, wr2 |-> w]
  BY <1>1 DEF report_race
<1>3. u \in Tid
  BY <1>2 DEF RDInv, Base, ClockInv, TypeOK
<1>4. a \in Recorded(u)
  BY <1>3, RecordedMember DEF Unordered
<1>5. a.epoch = w_id[x] /\ a.clock = lastW[x][u]
  OBVIOUS
<1> HIDE DEF u, a
<1>6. u # t /\ lastW[x][u] > hb[t][u]
  BY <1>2, <1>4, <1>5, UnorderedIsRace
<1> QED BY <1>2, <1>6 DEF IsRace

LEMMA ReadReported ==
  ASSUME NoWrap, RDInv, NEW t \in threads, NEW x \in Addr, NEW e \in {r_id[x]} \cup shared_vc[x],
         Unordered(t, e), NEW w, NEW r \in report_race(make_tid(e), get_tid(t), FALSE, w, x)
  PROVE  IsRace(r)
<1> DEFINE u == make_tid(e)
           a == [epoch |-> e, clock |-> lastR[x][u]]
<1>1. get_tid(t) = t
  BY OwnTidHolds DEF RDInv, Base, OwnTid
<1>2. u \in threads /\ r = [addr |-> x, first |-> u, second |-> t, wr1 |-> FALSE, wr2 |-> w]
  BY <1>1 DEF report_race
<1>3. u \in Tid
  BY <1>2 DEF RDInv, Base, ClockInv, TypeOK
<1>4. a \in Recorded(u)
  BY <1>3, RecordedMember DEF Unordered
<1>5. a.epoch = e /\ a.clock = lastR[x][u]
  OBVIOUS
<1> HIDE DEF u, a
<1>6. u # t /\ lastR[x][u] > hb[t][u]
  BY <1>2, <1>4, <1>5, UnorderedIsRace
<1> QED BY <1>2, <1>6 DEF IsRace

LEMMA ReportsAreRaces ==
  ASSUME NoWrap, RDInv, RDNext
  PROVE  \A r \in report' : IsRace(r)
<1>1. ASSUME NEW t \in Tid, NEW x \in Addr, PRead(t, x), NEW r \in report'
      PROVE  IsRace(r)
  <2>1. t \in threads /\ r \in wr_reports(t, x)
    BY <1>1 DEF PRead, Read, read_same_epoch, read_exclusive, read_share, read_shared
  <2> QED BY <2>1, WriteReported DEF wr_reports, is_wr_race
<1>2. ASSUME NEW t \in Tid, NEW x \in Addr, PWrite(t, x), NEW r \in report'
      PROVE  IsRace(r)
  <2>0. t \in threads
    BY <1>2 DEF PWrite, Write
  <2>1. \/ r \in ww_reports(t, x) \/ r \in rw_ex_reports(t, x)
        \/ \E v \in is_rw_sh_race(t, x) : r \in report_race(v, get_tid(t), FALSE, TRUE, x)
    BY <1>2 DEF PWrite, Write, write_same_epoch, write_initial, write_exclusive, write_shared
  <2>2. CASE r \in ww_reports(t, x)
    BY <2>0, <2>2, WriteReported DEF ww_reports, is_ww_race
  <2>3. CASE r \in rw_ex_reports(t, x)
    BY <2>0, <2>3, ReadReported DEF rw_ex_reports, is_rw_ex_race
  <2>4. ASSUME NEW v \in is_rw_sh_race(t, x), r \in report_race(v, get_tid(t), FALSE, TRUE, x)
        PROVE  IsRace(r)
    <3>1. PICK e \in shared_vc[x] : Unordered(t, e) /\ v = make_tid(e)
      BY <2>4 DEF is_rw_sh_race
    <3> QED BY <2>0, <2>4, <3>1, ReadReported
  <2> QED BY <2>1, <2>2, <2>3, <2>4
<1>3. ASSUME NEW p \in Tid, NEW c \in Tid,
             PForkRoot(p, c) \/ PForkChild(p, c) \/ PJoin(p, c) \/ PFinish(c)
      PROVE  report' = {}
  BY <1>3 DEF PForkRoot, PForkChild, PJoin, PFinish, ForkRoot, ForkChild, Join, Finish
<1>4. ASSUME NEW t \in Tid, NEW m \in Mutex,
             PAcquire(t, m) \/ PAcquireAgain(t, m) \/ PReleaseInner(t, m) \/ PRelease(t, m)
      PROVE  report' = {}
  BY <1>4 DEF PAcquire, PAcquireAgain, PReleaseInner, PRelease, Acquire, Release,
              ReleaseUnknown, ReleaseKnown
<1>5. ASSUME NEW t \in Tid, NEW i \in Identifier, PBefore(t, i) \/ PAfter(t, i)
      PROVE  report' = {}
  BY <1>5 DEF PBefore, PAfter, HappensBefore, HappensAfter
<1>6. ASSUME NEW b \in Block, PAllocate(b) \/ PDeallocate(b)
      PROVE  report' = {}
  BY <1>6 DEF PAllocate, PDeallocate, Allocate, Deallocate
<1>7. PFinalize => report' = {}
  BY DEF PFinalize, Finalize
<1> QED BY <1>1, <1>2, <1>3, <1>4, <1>5, <1>6, <1>7 DEF RDNext

\* The detector knows all that the reference knows, after any sequence of calls.
THEOREM KnowledgeSound ==
  ASSUME NoWrap, Premises
  PROVE  RDSpec => []RDInv
<1>1. RDInit => RDInv
  BY InvInit
<1>2. RDInv /\ [RDNext]_rdVars => RDInv'
  BY InvStep
<1> QED BY <1>1, <1>2, PTL DEF RDSpec

\* No false alarm: for every program of any number of threads, mutexes and blocks that
\* keeps to the premises of Detector.h and to Premises, report_race() only hands pairs
\* of conflicting accesses to the callback that nothing orders.
THEOREM NoFalseAlarms ==
  ASSUME NoWrap, Premises
  PROVE  RDSpec => NoFalseAlarm
<1>1. RDInv /\ [RDNext]_rdVars => [\A r \in report' : IsRace(r)]_rdVars
  BY ReportsAreRaces
<1> QED BY <1>1, KnowledgeSound, PTL DEF RDSpec, NoFalseAlarm

=============================================================================
