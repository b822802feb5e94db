-------------------------- MODULE MissedRaceProofs --------------------------
(***************************************************************************)
(* FastTrack misses no race but those NoMissedRace names, for every        *)
(* program: threads whose ids are used again and edges drawn between       *)
(* identifiers are allowed here, because knowing more than there is to     *)
(* know costs false alarms, not races.  What FastTrack gives up is the     *)
(* history of a variable: one write and the reads since are kept.  The     *)
(* invariant says why that is enough as long as nothing was reported.      *)
(***************************************************************************)
EXTENDS RaceDetectionProofs

-----------------------------------------------------------------------------
(* The inductive invariant. *)

\* The program: a mutex is held by a running thread.
OwnersRun == \A m \in Mutex : owner[m] # 0 => owner[m] \in threads

\* The reference: early is typed, the accesses of u are no later than its present,
\* and those of a thread that does not run are forgotten.
AccessesPast ==
  /\ early \in [Addr -> SUBSET Tid]
  /\ \A x \in Addr, u \in Tid :
       /\ lastW[x][u] <= hb[u][u] /\ lastR[x][u] <= hb[u][u]
       /\ u \notin threads => lastW[x][u] = 0 /\ lastR[x][u] = 0

\* An entry e of the detector's clocks covers no more than the entry c in the
\* reference's clock: the other half of Agree.
Modest(A, e, c) == \A a \in A : a.epoch < e => a.clock <= c

\* What the releases of m so far order for those who acquire it.  Inner releases of
\* its owner have told the detector already.
LockOrder(m, u) == IF owner[m] = 0 THEN hbLock[m][u] ELSE hb[owner[m]][u]

\* No clock of the detector knows an access the reference's clock does not know.
ClocksModest ==
  \A u \in Tid :
    /\ \A t \in threads : Modest(Recorded(u), vc[t][u], hb[t][u])
    /\ \A m \in Mutex : Modest(Recorded(u), lockVC[m][u], LockOrder(m, u))
    /\ \A i \in Identifier : Modest(Recorded(u), happensVC[i][u], hbIdent[i][u])

\* The reads a variable keeps.
Reads(x) == ({r_id[x]} \cup shared_vc[x]) \ {VAR_NOT_INIT}

\* e is an epoch of a running thread that has, by last, made an access.
Running(e, last) ==
  LET u == make_tid(e) IN u \in threads /\ Reached(e, u) /\ last[u] > 0

\* A variable nobody accessed who has ended since.  Before the first write it knows
\* of no write, and has no reads but early ones.  A thread in the epoch of the last
\* write has done nothing since that concerns others.
OnRecord(x) ==
  /\ w_id[x] = VAR_NOT_INIT => /\ lastW[x] = Zero
                               /\ \A u \in Tid : lastR[x][u] > 0 => u \in early[x]
  /\ w_id[x] # VAR_NOT_INIT =>
       /\ Running(w_id[x], lastW[x])
       /\ \A t \in threads : w_id[x] = id[t] => lastW[x][t] = hb[t][t]
  /\ \A e \in Reads(x) : Running(e, lastR[x])

AllOnRecord == \A x \in Addr \ ended : OnRecord(x)

\* Clock h knows the last write to x.
WriteKnown(x, h) == LET w == make_tid(w_id[x]) IN lastW[x][w] <= h[w]

\* It knows every write to x, and every read that is neither kept nor early.
HistoryKnown(x, h) ==
  \A u \in Tid :
    /\ lastW[x][u] <= h[u]
    /\ lastR[x][u] <= h[u] \/ u \in early[x] \/ \E e \in Reads(x) : make_tid(e) = u

Covered(x, h) == WriteKnown(x, h) => HistoryKnown(x, h)

\* The last write comes after all the history that is not kept, and before the reads
\* that are.
LastWriteLast(x) ==
  /\ \A t \in Tid : Covered(x, hb[t])
  /\ \A m \in Mutex : Covered(x, hbLock[m])
  /\ \A i \in Identifier : Covered(x, hbIdent[i])
  /\ \A e \in Reads(x) : WriteKnown(x, hb[make_tid(e)])

\* It does as long as no race was found.
Tracked(x) == x \in Addr \ (found \cup ended) /\ w_id[x] # VAR_NOT_INIT

AllTracked == \A x \in Addr : Tracked(x) => LastWriteLast(x)

\* The part that does not speak of a single variable.
Order ==
  /\ Base
  /\ OneReadMode
  /\ OwnersRun
  /\ AccessesPast
  /\ ClocksModest

MissInv ==
  /\ Order
  /\ AllOnRecord
  /\ AllTracked
  /\ NoMissedRace

-----------------------------------------------------------------------------
(* Calls that access nothing. *)

\* Every call but the ends of threads, accesses, frees and finalize().
Sync ==
  \/ \E p, c \in Tid : PForkRoot(p, c) \/ PForkChild(p, c)
  \/ \E t \in Tid, m \in Mutex : PAcquire(t, m) \/ PAcquireAgain(t, m)
  \/ \E t \in Tid, m \in Mutex : PReleaseInner(t, m) \/ PRelease(t, m)
  \/ \E t \in Tid, i \in Identifier : PBefore(t, i) \/ PAfter(t, i)
  \/ \E b \in Block : PAllocate(b)

\* What a running thread u knows only grows, and it does not tick unseen.
Advances(u) ==
  /\ \A v \in Tid : hb[u][v] <= hb'[u][v]
  /\ id[u] <= id'[u]
  /\ id'[u] = id[u] => hb'[u][u] = hb[u][u]

\* Clocks of the reference after a merge and after a tick.
LEMMA MergeAdvances ==
  ASSUME RDTypeOK, OwnClockLeads, NEW t \in threads, t \in Tid, NEW h \in HBClock,
         \A u \in Tid : Behind(h, u), hb' = [hb EXCEPT ![t] = Max2(hb[t], h)]
  PROVE  /\ hb'[t] = Max2(hb[t], h)
         /\ \A u \in Tid \ {t} : hb'[u] = hb[u]
         /\ \A u, v \in Tid : hb[u][v] <= hb'[u][v]
         /\ \A u \in Tid : hb'[u][u] = hb[u][u]
<1>1. hb \in [Tid -> HBClock] /\ \A u, v \in Tid : hb[u][v] \in Nat
  BY DEF RDTypeOK, HBClock
<1>2. hb'[t] = Max2(hb[t], h) /\ \A u \in Tid \ {t} : hb'[u] = hb[u]
  BY <1>1
<1>3. \A u, v \in Tid : hb[u][v] <= hb'[u][v]
  BY <1>1, <1>2, MaxEntry
<1>4. h[t] < hb[t][t] /\ h[t] \in Nat /\ hb'[t][t] \in {hb[t][t], h[t]}
  BY <1>1, <1>2, MaxEntry DEF Behind, HBClock
<1> QED BY <1>1, <1>2, <1>3, <1>4

LEMMA TickAdvances ==
  ASSUME RDTypeOK, NEW t \in Tid, hb' = [hb EXCEPT ![t] = Tick(hb[t], t)]
  PROVE  /\ \A u \in Tid \ {t} : hb'[u] = hb[u]
         /\ hb'[t][t] = hb[t][t] + 1
         /\ \A u \in Tid \ {t} : hb'[t][u] = hb[t][u]
         /\ \A u, v \in Tid : hb[u][v] <= hb'[u][v]
<1>1. hb \in [Tid -> [Tid -> Nat]]
  BY DEF RDTypeOK, HBClock
<1> QED BY <1>1 DEF Tick

\* The start of a thread.
LEMMA StartFacts ==
  ASSUME NoWrap, Base, NEW p \in Tid, NEW c \in Tid, PForkRoot(p, c) \/ PForkChild(p, c)
  PROVE  /\ c \notin threads /\ threads' = threads \cup {c}
         /\ HBForkRoot(c) \/ (HBForkChild(p, c) /\ p \in threads)
         /\ UNCHANGED <<hbLock, hbIdent>>
         /\ \A u \in threads : Advances(u)
<1>1. /\ c \notin threads /\ threads' = threads \cup {c}
      /\ HBForkRoot(c) \/ (HBForkChild(p, c) /\ p \in threads)
      /\ UNCHANGED <<hbLock, hbIdent>>
  BY DEF PForkRoot, PForkChild, MayStart, ForkRoot, ForkChild, HBForkRoot, HBForkChild
<1>2. /\ RDTypeOK /\ OwnClockLeads /\ threads \subseteq Tid /\ id \in [Tid -> Nat]
      /\ \A u, v \in Tid : hb[u][v] \in Nat
  BY DEF Base, RDTypeOK, HBClock, ClockInv, TypeOK, VC, VC_ID
<1>3. \A t, u \in Tid : t # c =>
        hb'[t][u] = IF t = p /\ u = p /\ p \in threads /\ HBForkChild(p, c)
                    THEN hb[p][p] + 1 ELSE hb[t][u]
  BY <1>1, <1>2, LeadsStart
<1>4. ASSUME NEW u \in threads PROVE id'[u] = id[u] \/ (u = p /\ id'[u] = id[u] + 1
                                                       /\ p \in threads /\ HBForkChild(p, c))
  BY <1>1, <1>2 DEF PForkRoot, PForkChild, ForkRoot, ForkChild, IncId
<1>5. ASSUME NEW u \in threads, id'[u] = id[u] PROVE hb'[u][u] = hb[u][u]
  <2>1. CASE PForkRoot(p, c)
    BY <1>1, <1>2, <1>3, <2>1 DEF PForkRoot, ForkRoot
  <2>2. CASE PForkChild(p, c)
    <3>1. u # p
      BY <1>2, <1>5, <2>2, <1>1 DEF PForkChild, ForkChild, IncId
    <3> QED BY <1>1, <1>2, <1>3, <3>1
  <2> QED BY <2>1, <2>2
<1>6. \A u \in threads, v \in Tid : hb[u][v] <= hb'[u][v]
  BY <1>1, <1>2, <1>3
<1> QED BY <1>1, <1>2, <1>4, <1>5, <1>6 DEF Advances

\* A merge of a clock that is behind into the clock of a thread.
LEMMA MergeFacts ==
  ASSUME Base, NEW t \in threads, NEW h \in HBClock, \A u \in Tid : Behind(h, u),
         hb' = [hb EXCEPT ![t] = Max2(hb[t], h)], id' = id
  PROVE  \A u \in threads : Advances(u)
<1>1. RDTypeOK /\ OwnClockLeads /\ threads \subseteq Tid /\ id \in [Tid -> Nat]
  BY DEF Base, ClockInv, TypeOK, VC, VC_ID
<1>2. (\A u, v \in Tid : hb[u][v] <= hb'[u][v]) /\ \A u \in Tid : hb'[u][u] = hb[u][u]
  BY <1>1, MergeAdvances
<1> QED BY <1>1, <1>2 DEF Advances

\* A tick of both clocks.
LEMMA TickFacts ==
  ASSUME Base, NEW t \in threads, hb' = [hb EXCEPT ![t] = Tick(hb[t], t)],
         id' = [id EXCEPT ![t] = id[t] + 1]
  PROVE  \A u \in threads : Advances(u)
<1>1. RDTypeOK /\ threads \subseteq Tid /\ id \in [Tid -> Nat]
  BY DEF Base, ClockInv, TypeOK, VC, VC_ID
<1>2. (\A u, v \in Tid : hb[u][v] <= hb'[u][v]) /\ \A u \in Tid \ {t} : hb'[u] = hb[u]
  BY <1>1, TickAdvances
<1>3. id'[t] = id[t] + 1 /\ \A u \in Tid \ {t} : id'[u] = id[u]
  BY <1>1
<1> QED BY <1>1, <1>2, <1>3 DEF Advances

\* No tick of the reference: the inner release of a mutex ticks the detector alone.
LEMMA StillFacts ==
  ASSUME Base, hb' = hb, \A u \in Tid : id[u] <= id'[u]
  PROVE  \A u \in threads : Advances(u)
<1>1. threads \subseteq Tid /\ \A u, v \in Tid : hb[u][v] \in Nat
  BY DEF Base, RDTypeOK, HBClock, ClockInv, TypeOK
<1> QED BY <1>1 DEF Advances

LEMMA SyncFacts ==
  ASSUME NoWrap, Base, Sync
  PROVE  /\ UNCHANGED <<w_id, r_id, shared_vc, lastW, lastR, early, ended, found>>
         /\ missed' = {}
         /\ threads \subseteq threads'
         /\ \A u \in threads : Advances(u)
<1> DEFINE Goal == /\ UNCHANGED <<w_id, r_id, shared_vc, lastW, lastR, early, ended, found>>
                   /\ missed' = {}
                   /\ threads \subseteq threads'
                   /\ \A u \in threads : Advances(u)
<1>0. /\ RDTypeOK /\ OwnClockLeads /\ threads \subseteq Tid /\ id \in [Tid -> Nat]
      /\ \A u, v \in Tid : hb[u][v] \in Nat
  BY DEF Base, RDTypeOK, HBClock, ClockInv, TypeOK, VC, VC_ID
<1>1. ASSUME NEW p \in Tid, NEW c \in Tid, PForkRoot(p, c) \/ PForkChild(p, c)
      PROVE  Goal
  <2>1. UNCHANGED <<w_id, r_id, shared_vc, lastW, lastR, early, ended, found>> /\ missed' = {}
    BY <1>1 DEF PForkRoot, PForkChild, ForkRoot, ForkChild, HBForkRoot, HBForkChild, Silent,
                varVars, accessVars
  <2> QED BY <1>1, <2>1, StartFacts
<1>2. ASSUME NEW t \in Tid, NEW m \in Mutex, PAcquire(t, m)
      PROVE  Goal
  <2>1. /\ UNCHANGED <<w_id, r_id, shared_vc, lastW, lastR, early, ended, found>>
        /\ missed' = {} /\ threads' = threads /\ id' = id /\ t \in threads
        /\ hb' = [hb EXCEPT ![t] = Max2(hb[t], hbLock[m])]
    BY <1>2 DEF PAcquire, Acquire, HBAcquire, Silent, varVars, accessVars
  <2>2. hbLock[m] \in HBClock /\ \A u \in Tid : Behind(hbLock[m], u)
    BY <1>0 DEF RDTypeOK, OwnClockLeads
  <2> QED BY <2>1, <2>2, MergeFacts
<1>3. ASSUME NEW t \in Tid, NEW m \in Mutex, PAcquireAgain(t, m)
      PROVE  Goal
  <2>1. /\ UNCHANGED <<w_id, r_id, shared_vc, lastW, lastR, early, ended, found>>
        /\ missed' = {} /\ threads' = threads /\ id' = id /\ hb' = hb
    BY <1>3 DEF PAcquireAgain, Silent, threadVars, edgeVars, varVars, accessVars
  <2> QED BY <1>0, <2>1, StillFacts
<1>4. ASSUME NEW t \in Tid, NEW m \in Mutex, PReleaseInner(t, m)
      PROVE  Goal
  <2>1. /\ UNCHANGED <<w_id, r_id, shared_vc, lastW, lastR, early, ended, found>>
        /\ missed' = {} /\ threads' = threads /\ hb' = hb
        /\ id' \in {id, [id EXCEPT ![t] = id[t] + 1]}
    BY <1>4 DEF PReleaseInner, Release, ReleaseUnknown, ReleaseKnown, Silent, threadVars,
                edgeVars, varVars, accessVars, IncId
  <2>2. \A u \in Tid : id[u] <= id'[u]
    BY <1>0, <2>1
  <2> QED BY <2>1, <2>2, StillFacts
<1>5. ASSUME NEW t \in Tid, NEW m \in Mutex, PRelease(t, m)
      PROVE  Goal
  <2>1. /\ UNCHANGED <<w_id, r_id, shared_vc, lastW, lastR, early, ended, found>>
        /\ missed' = {} /\ hb' = [hb EXCEPT ![t] = Tick(hb[t], t)]
        /\ Release(t, m) /\ owner[m] = t
    BY <1>5 DEF PRelease, HBRelease, Release, ReleaseUnknown, ReleaseKnown, Silent,
                varVars, accessVars
  <2> QED BY <2>1, Published, TickFacts
<1>6. ASSUME NEW t \in Tid, NEW i \in Identifier, PBefore(t, i)
      PROVE  Goal
  <2>1. /\ UNCHANGED <<w_id, r_id, shared_vc, lastW, lastR, early, ended, found>>
        /\ missed' = {} /\ threads' = threads /\ hb' = [hb EXCEPT ![t] = Tick(hb[t], t)]
        /\ id' = [id EXCEPT ![t] = id[t] + 1] /\ t \in threads
    BY <1>6 DEF PBefore, HappensBefore, HBBefore, Silent, varVars, accessVars, IncId
  <2> QED BY <2>1, TickFacts
<1>7. ASSUME NEW t \in Tid, NEW i \in Identifier, PAfter(t, i)
      PROVE  Goal
  <2>1. /\ UNCHANGED <<w_id, r_id, shared_vc, lastW, lastR, early, ended, found>>
        /\ missed' = {} /\ threads' = threads /\ id' = id /\ t \in threads
        /\ hb' = [hb EXCEPT ![t] = Max2(hb[t], hbIdent[i])]
    BY <1>7 DEF PAfter, HappensAfter, HBAfter, Silent, varVars, accessVars
  <2>2. hbIdent[i] \in HBClock /\ \A u \in Tid : Behind(hbIdent[i], u)
    BY <1>0 DEF RDTypeOK, OwnClockLeads
  <2> QED BY <2>1, <2>2, MergeFacts
<1>8. ASSUME NEW b \in Block, PAllocate(b)
      PROVE  Goal
  <2>1. /\ UNCHANGED <<w_id, r_id, shared_vc, lastW, lastR, early, ended, found>>
        /\ missed' = {} /\ threads' = threads /\ id' = id /\ hb' = hb
    BY <1>8 DEF PAllocate, Allocate, Silent, threadVars, edgeVars, varVars, accessVars
  <2> QED BY <1>0, <2>1, StillFacts
<1> QED BY <1>1, <1>2, <1>3, <1>4, <1>5, <1>6, <1>7, <1>8 DEF Sync

-----------------------------------------------------------------------------
(* The program and the reference. *)

LEMMA OwnersStep ==
  ASSUME OwnersRun, Base, [RDNext]_rdVars
  PROVE  OwnersRun'
<1> USE DEF OwnersRun
<1>0. owner \in [Mutex -> Tid \cup {0}]
  BY DEF Base, RDTypeOK
<1>1. ASSUME owner' = owner, threads \subseteq threads' PROVE OwnersRun'
  BY <1>1
<1>2. CASE UNCHANGED rdVars
  BY <1>1, <1>2 DEF rdVars, ftVars, threadVars, progVars
<1>3. ASSUME NEW p \in Tid, NEW c \in Tid, PForkRoot(p, c) \/ PForkChild(p, c)
      PROVE  OwnersRun'
  BY <1>1, <1>3 DEF PForkRoot, PForkChild, ForkRoot, ForkChild
<1>4. ASSUME NEW p \in Tid, NEW c \in Tid, PJoin(p, c) \/ PFinish(c)
      PROVE  OwnersRun'
  BY <1>4 DEF PJoin, PFinish, Join, Finish, cleanup, progVars, Holds
<1>5. ASSUME NEW t \in Tid, NEW m \in Mutex, PAcquire(t, m)
      PROVE  OwnersRun'
  BY <1>0, <1>5 DEF PAcquire, Acquire
<1>6. ASSUME NEW t \in Tid, NEW m \in Mutex, PAcquireAgain(t, m) \/ PReleaseInner(t, m)
      PROVE  OwnersRun'
  BY <1>1, <1>6 DEF PAcquireAgain, PReleaseInner, Release, ReleaseUnknown, ReleaseKnown,
                    threadVars
<1>7. ASSUME NEW t \in Tid, NEW m \in Mutex, PRelease(t, m)
      PROVE  OwnersRun'
  BY <1>0, <1>7 DEF PRelease, Release, ReleaseUnknown, ReleaseKnown, threadVars
<1>8. ASSUME NEW t \in Tid, NEW i \in Identifier, PBefore(t, i) \/ PAfter(t, i)
      PROVE  OwnersRun'
  BY <1>1, <1>8 DEF PBefore, PAfter, HappensBefore, HappensAfter, progVars
<1>9. ASSUME NEW t \in Tid, NEW x \in Addr, PRead(t, x) \/ PWrite(t, x)
      PROVE  OwnersRun'
  BY <1>1, <1>9 DEF PRead, PWrite, Read, Write, threadVars, progVars
<1>10. ASSUME NEW b \in Block, PAllocate(b) \/ PDeallocate(b)
       PROVE  OwnersRun'
  BY <1>1, <1>10 DEF PAllocate, PDeallocate, Allocate, Deallocate, threadVars
<1>11. CASE PFinalize
  BY <1>11 DEF PFinalize
<1> QED
  BY <1>2, <1>3, <1>4, <1>5, <1>6, <1>7, <1>8, <1>9, <1>10, <1>11 DEF RDNext

\* Types the proofs keep needing.
LEMMA OrderTypes ==
  ASSUME Base
  PROVE  /\ RDTypeOK /\ OwnClockLeads /\ ClockInv /\ TypeOK
         /\ threads \subseteq Tid
         /\ id \in [Tid -> Nat] /\ vc \in [Tid -> VC] /\ lockVC \in [Mutex -> VC]
         /\ happensVC \in [Identifier -> VC]
         /\ w_id \in [Addr -> Nat] /\ r_id \in [Addr -> Nat]
         /\ shared_vc \in [Addr -> SUBSET Nat]
         /\ hb \in [Tid -> HBClock] /\ hbLock \in [Mutex -> HBClock]
         /\ hbIdent \in [Identifier -> HBClock]
         /\ lastW \in [Addr -> HBClock] /\ lastR \in [Addr -> HBClock]
BY DEF Base, RDTypeOK, ClockInv, TypeOK, VC, VC_ID

LEMMA EntryTypes ==
  ASSUME Base
  PROVE  /\ \A t, u \in Tid : hb[t][u] \in Nat /\ vc[t][u] \in Nat
         /\ \A m \in Mutex, u \in Tid : hbLock[m][u] \in Nat /\ lockVC[m][u] \in Nat
         /\ \A i \in Identifier, u \in Tid : hbIdent[i][u] \in Nat /\ happensVC[i][u] \in Nat
         /\ \A x \in Addr, u \in Tid : lastW[x][u] \in Nat /\ lastR[x][u] \in Nat
BY OrderTypes DEF HBClock, VC, VC_ID

LEMMA PastSync ==
  ASSUME NoWrap, Base, Base', AccessesPast, Sync
  PROVE  AccessesPast'
<1>1. /\ UNCHANGED <<lastW, lastR, early>> /\ threads \subseteq threads'
      /\ \A u \in threads : hb[u][u] <= hb'[u][u]
  BY SyncFacts, OrderTypes DEF Advances
<1>2. /\ \A u \in Tid : hb[u][u] \in Nat /\ hb'[u][u] \in Nat
      /\ \A x \in Addr, u \in Tid : lastW[x][u] \in Nat /\ lastR[x][u] \in Nat
  BY EntryTypes, OrderTypes DEF Base, RDTypeOK, HBClock
<1>3. ASSUME NEW x \in Addr, NEW u \in Tid
      PROVE  /\ lastW[x][u] <= hb'[u][u] /\ lastR[x][u] <= hb'[u][u]
             /\ u \notin threads' => lastW[x][u] = 0 /\ lastR[x][u] = 0
  BY <1>1, <1>2 DEF AccessesPast
<1> QED BY <1>1, <1>3 DEF AccessesPast

\* What a thread that ends leaves behind.
LEMMA PastEnd ==
  ASSUME Base, Base', AccessesPast, NEW c \in Tid, threads' = threads \ {c},
         ForgetAccesses(c), early' = [x \in Addr |-> early[x] \ {c}],
         \A u \in Tid \ {c} : hb'[u][u] = hb[u][u]
  PROVE  AccessesPast'
<1>1. /\ lastW' = [x \in Addr |-> Forget(lastW[x], c)]
      /\ lastR' = [x \in Addr |-> Forget(lastR[x], c)]
  BY DEF ForgetAccesses
<1>2. \A x \in Addr, u \in Tid :
        /\ lastW'[x][u] = IF u = c THEN 0 ELSE lastW[x][u]
        /\ lastR'[x][u] = IF u = c THEN 0 ELSE lastR[x][u]
  BY <1>1, OrderTypes DEF Forget, HBClock
<1>3. \A u \in Tid : hb'[u][u] \in Nat
  BY DEF Base, RDTypeOK, HBClock
<1>4. early' \in [Addr -> SUBSET Tid]
  BY DEF AccessesPast
<1>5. \A x \in Addr, u \in Tid :
        /\ lastW'[x][u] <= hb'[u][u] /\ lastR'[x][u] <= hb'[u][u]
        /\ u \notin threads' => lastW'[x][u] = 0 /\ lastR'[x][u] = 0
  BY <1>2, <1>3 DEF AccessesPast
<1> QED BY <1>4, <1>5 DEF AccessesPast

-----------------------------------------------------------------------------
(* Accesses. *)

\* An epoch of a running thread names it, and no clock is ahead of it.
LEMMA OwnEpoch ==
  ASSUME NoWrap, Base, NEW t \in threads
  PROVE  /\ t \in Tid /\ id[t] # VAR_NOT_INIT
         /\ make_tid(id[t]) = t
         /\ Reached(id[t], t)
         /\ \A v \in Tid : vc[v][t] <= id[t]
         /\ \A m \in Mutex : lockVC[m][t] <= id[t]
         /\ \A i \in Identifier : happensVC[i][t] <= id[t]
<1>1. t \in Tid /\ t \in Nat \ {0} /\ id[t] \in Nat
  BY OrderTypes, TidAssumption
<1>2. make_id(t) <= id[t] /\ make_id(t) \in Nat /\ make_id(t) # 0
  <2>1. make_id(t) <= id[t]
    BY DEF Base, ClockInv, EpochInRange
  <2>2. t * Multiplier \in Nat /\ t * Multiplier # 0
    BY <1>1, MultiplierAssumption
  <2> QED BY <2>1, <2>2 DEF make_id
<1>3. make_tid(id[t]) = t
  BY OwnTidHolds DEF Base, OwnTid, get_tid
<1>4. /\ \A v \in Tid : Reached(vc[v][t], t)
      /\ \A m \in Mutex : Reached(lockVC[m][t], t)
      /\ \A i \in Identifier : Reached(happensVC[i][t], t)
  BY <1>1 DEF Base, ClockInv, NoFutureKnowledge
<1> QED BY <1>1, <1>2, <1>3, <1>4, EntryTypes DEF Reached, VAR_NOT_INIT

\* A read: what t reads is kept under its present epoch, and the reads of others stay.
LEMMA ReadFacts ==
  ASSUME NoWrap, Base, OneReadMode, OneReadMode', AccessesPast,
         NEW t \in Tid, NEW x \in Addr, PRead(t, x)
  PROVE  /\ t \in threads
         /\ UNCHANGED <<threads, id, vc, lockVC, happensVC, hb, hbLock, hbIdent, owner,
                        w_id, lastW, ended>>
         /\ \A y \in Addr, u \in Tid :
              lastR'[y][u] = IF y = x /\ u = t THEN hb[t][t] ELSE lastR[y][u]
         /\ \A y \in Addr \ {x} : Reads(y)' = Reads(y) /\ early'[y] = early[y]
         /\ early'[x] = IF Written(x) THEN early[x] \ {t} ELSE early[x] \cup {t}
         /\ early' \in [Addr -> SUBSET Tid]
         /\ id[t] \in Reads(x)'
         /\ \A e \in Reads(x)' : e = id[t] \/ (e \in Reads(x) /\ make_tid(e) # t)
         /\ \A e \in Reads(x) : make_tid(e) = t \/ e \in Reads(x)'
<1>0. /\ t \in threads /\ Read(t, x) /\ HBRead(t, x, report')
      /\ UNCHANGED <<threads, id, vc, lockVC, happensVC, owner, w_id>>
  BY DEF PRead, Read, read_same_epoch, read_exclusive, read_share, read_shared, threadVars,
         syncVars, progVars
<1>1. /\ UNCHANGED <<hb, hbLock, hbIdent, ended>> /\ lastW' = lastW
      /\ lastR' = [lastR EXCEPT ![x][t] = hb[t][t]]
      /\ early' = [early EXCEPT ![x] = IF Written(x) THEN @ \ {t} ELSE @ \cup {t}]
  <2>1. UNCHANGED edgeVars /\ ended' = ended
    BY <1>0 DEF HBRead, HBAccess
  <2> QED BY <1>0, <2>1 DEF HBRead, RecordRead, edgeVars
<1>2. \A y \in Addr, u \in Tid :
        lastR'[y][u] = IF y = x /\ u = t THEN hb[t][t] ELSE lastR[y][u]
  BY <1>1, OrderTypes DEF HBClock
<1>3. /\ \A y \in Addr \ {x} : early'[y] = early[y]
      /\ early'[x] = IF Written(x) THEN early[x] \ {t} ELSE early[x] \cup {t}
      /\ early' \in [Addr -> SUBSET Tid]
  BY <1>1 DEF AccessesPast
<1>4. get_tid(t) = t /\ make_tid(id[t]) = t /\ id[t] # VAR_NOT_INIT
  BY <1>0, OwnEpoch DEF get_tid
<1>5. \A y \in Addr \ {x} : Reads(y)' = Reads(y)
  BY <1>0, OrderTypes DEF Read, read_same_epoch, read_exclusive, read_share, read_shared, Reads
<1>6. ReadMode(x) /\ ReadMode(x)'
  BY DEF OneReadMode, ReadMode
<1>7. /\ id[t] \in Reads(x)'
      /\ \A e \in Reads(x)' : e = id[t] \/ e \in Reads(x)
      /\ \A e \in Reads(x) : make_tid(e) = t \/ e \in Reads(x)'
  <2>1. CASE read_same_epoch(t, x)
    BY <1>4, <2>1 DEF read_same_epoch, ReadSameEpoch, Reads
  <2>2. CASE read_exclusive(t, x)
    BY <1>4, <2>2, OrderTypes DEF read_exclusive, is_read_shared, Reads
  <2>3. CASE read_share(t, x)
    BY <1>4, <2>3, OrderTypes DEF read_share, is_read_shared, Reads
  <2>4. CASE read_shared(t, x)
    BY <1>4, <1>6, <2>4, OrderTypes DEF read_shared, Reads, ReadMode
  <2> QED BY <1>0, <2>1, <2>2, <2>3, <2>4 DEF Read
<1>8. \A e, f \in Reads(x)' : make_tid(e) = make_tid(f) => e = f
  BY <1>6 DEF ReadMode, Reads, is_read_shared
<1> QED BY <1>0, <1>1, <1>2, <1>3, <1>4, <1>5, <1>7, <1>8

\* A write: the epoch of t is the last write, and the reads go unless it was already.
LEMMA WriteFacts ==
  ASSUME NoWrap, Base, NEW t \in Tid, NEW x \in Addr, PWrite(t, x)
  PROVE  /\ t \in threads
         /\ UNCHANGED <<threads, id, vc, lockVC, happensVC, hb, hbLock, hbIdent, owner,
                        lastR, early, ended>>
         /\ \A y \in Addr, u \in Tid :
              lastW'[y][u] = IF y = x /\ u = t THEN hb[t][t] ELSE lastW[y][u]
         /\ \A y \in Addr \ {x} : Reads(y)' = Reads(y) /\ w_id'[y] = w_id[y]
         /\ w_id'[x] = id[t]
         /\ Reads(x)' = {} \/ (w_id[x] = id[t] /\ Reads(x)' = Reads(x))
<1>0. /\ t \in threads /\ Write(t, x) /\ HBWrite(t, x, report')
      /\ UNCHANGED <<threads, id, vc, lockVC, happensVC, owner>>
  BY DEF PWrite, Write, threadVars, syncVars, progVars
<1>1. /\ UNCHANGED <<hb, hbLock, hbIdent, ended, early>> /\ lastR' = lastR
      /\ lastW' = [lastW EXCEPT ![x][t] = hb[t][t]]
  <2>1. UNCHANGED edgeVars /\ ended' = ended
    BY <1>0 DEF HBWrite, HBAccess
  <2> QED BY <1>0, <2>1 DEF HBWrite, RecordWrite, edgeVars
<1>2. \A y \in Addr, u \in Tid :
        lastW'[y][u] = IF y = x /\ u = t THEN hb[t][t] ELSE lastW[y][u]
  BY <1>1, OrderTypes DEF HBClock
<1>3. CASE write_same_epoch(t, x)
  BY <1>0, <1>1, <1>2, <1>3 DEF write_same_epoch, Reads
<1>4. CASE update_write(t, x)
  BY <1>0, <1>1, <1>2, <1>4, OrderTypes DEF update_write, Reads
<1> QED BY <1>0, <1>3, <1>4 DEF Write, write_initial, write_exclusive, write_shared

\* The accesses on record, by variable.
LEMMA RecordedAt ==
  ASSUME NEW u \in Tid, NEW a
  PROVE  a \in Recorded(u) <=>
           /\ a.epoch # VAR_NOT_INIT /\ make_tid(a.epoch) = u
           /\ \E x \in Addr : \/ a = [epoch |-> w_id[x], clock |-> lastW[x][u]]
                              \/ \E e \in Reads(x) : a = [epoch |-> e, clock |-> lastR[x][u]]
<1>1. \A x \in Addr : \A e :
        e # VAR_NOT_INIT => (e \in Reads(x) <=> e \in {r_id[x]} \cup shared_vc[x])
  BY DEF Reads
<1>2. \A x \in Addr : \A e : a = [epoch |-> e, clock |-> lastR[x][u]] => a.epoch = e
  OBVIOUS
<1> QED BY <1>1, <1>2, RecordedMember

\* An access on record is in the past of its thread.
LEMMA RecordPast ==
  ASSUME Base, AccessesPast, NEW u \in Tid, NEW a \in Recorded(u)
  PROVE  /\ a.epoch \in Nat /\ a.clock \in Nat
         /\ a.clock <= hb[u][u]
         /\ u \notin threads => a.clock = 0
BY RecordedType, RecordedMember, OrderTypes DEF AccessesPast

\* What an access adds to the records.
LEMMA ReadRecords ==
  ASSUME NoWrap, Base, OneReadMode, OneReadMode', AccessesPast,
         NEW t \in Tid, NEW x \in Addr, PRead(t, x), NEW u \in Tid, NEW a \in Recorded(u)'
  PROVE  a \in Recorded(u) \/ (u = t /\ a.epoch = id[t] /\ a.clock = hb[t][t])
<1> DEFINE R(y) == Reads(y)'
<1>f. /\ t \in threads /\ w_id' = w_id /\ lastW' = lastW
      /\ \A y \in Addr, v \in Tid :
           lastR'[y][v] = IF y = x /\ v = t THEN hb[t][t] ELSE lastR[y][v]
      /\ \A y \in Addr \ {x} : R(y) = Reads(y)
      /\ \A e \in R(x) : e = id[t] \/ (e \in Reads(x) /\ make_tid(e) # t)
      /\ make_tid(id[t]) = t
  <2>1. t \in threads
    BY DEF PRead, Read
  <2>2. make_tid(id[t]) = t
    BY <2>1, OwnEpoch
  <2>3. w_id' = w_id /\ lastW' = lastW
    BY ReadFacts
  <2>4. \A y \in Addr, v \in Tid :
          lastR'[y][v] = IF y = x /\ v = t THEN hb[t][t] ELSE lastR[y][v]
    BY ReadFacts
  <2>5. /\ \A y \in Addr \ {x} : R(y) = Reads(y)
        /\ \A e \in R(x) : e = id[t] \/ (e \in Reads(x) /\ make_tid(e) # t)
    BY ReadFacts
  <2> QED BY <2>1, <2>2, <2>3, <2>4, <2>5
<1>0. /\ a.epoch # VAR_NOT_INIT /\ make_tid(a.epoch) = u
      /\ \E y \in Addr :
           \/ a = [epoch |-> w_id'[y], clock |-> lastW'[y][u]]
           \/ \E e \in {r_id'[y]} \cup shared_vc'[y] : a = [epoch |-> e, clock |-> lastR'[y][u]]
  BY DEF Recorded
<1>1. PICK y \in Addr :
        \/ a = [epoch |-> w_id[y], clock |-> lastW[y][u]]
        \/ \E e \in R(y) : a = [epoch |-> e, clock |-> lastR'[y][u]]
  BY <1>0, <1>f DEF Reads
<1> HIDE DEF R
<1>2. CASE a = [epoch |-> w_id[y], clock |-> lastW[y][u]]
  BY <1>0, <1>2, RecordedAt
<1>3. ASSUME NEW e \in R(y), a = [epoch |-> e, clock |-> lastR'[y][u]]
      PROVE  a \in Recorded(u) \/ (u = t /\ a.epoch = id[t] /\ a.clock = hb[t][t])
  <2>1. a.epoch = e /\ a.clock = lastR'[y][u]
    BY <1>3
  <2>2. CASE y = x /\ u = t
    BY <1>0, <2>1, <2>2, <1>f
  <2>3. CASE ~(y = x /\ u = t)
    <3>1. lastR'[y][u] = lastR[y][u]
      BY <2>3, <1>f
    <3>2. e \in Reads(y)
      <4>1. CASE y = x
        BY <1>0, <2>1, <2>3, <4>1, <1>f, OwnEpoch
      <4>2. CASE y # x
        BY <4>2, <1>f
      <4> QED BY <4>1, <4>2
    <3> QED BY <1>0, <1>3, <3>1, <3>2, RecordedAt
  <2> QED BY <2>2, <2>3
<1> QED BY <1>1, <1>2, <1>3

LEMMA WriteRecords ==
  ASSUME NoWrap, Base, NEW t \in Tid, NEW x \in Addr, PWrite(t, x),
         NEW u \in Tid, NEW a \in Recorded(u)'
  PROVE  a \in Recorded(u) \/ (u = t /\ a.epoch = id[t] /\ a.clock = hb[t][t])
<1>0. /\ a.epoch # VAR_NOT_INIT /\ make_tid(a.epoch) = u
      /\ \E y \in Addr :
           \/ a = [epoch |-> w_id'[y], clock |-> lastW'[y][u]]
           \/ \E e \in {r_id'[y]} \cup shared_vc'[y] : a = [epoch |-> e, clock |-> lastR'[y][u]]
  BY DEF Recorded
<1>1. PICK y \in Addr :
        \/ a = [epoch |-> w_id'[y], clock |-> lastW'[y][u]]
        \/ \E e \in Reads(y)' : a = [epoch |-> e, clock |-> lastR[y][u]]
  BY <1>0, WriteFacts DEF Reads
<1>2. ASSUME NEW e \in Reads(y)', a = [epoch |-> e, clock |-> lastR[y][u]]
      PROVE  a \in Recorded(u)
  <2>1. e \in Reads(y)
    BY WriteFacts
  <2> QED BY <1>0, <1>2, <2>1, RecordedAt
<1>3. CASE a = [epoch |-> w_id'[y], clock |-> lastW'[y][u]]
  <2>1. a.epoch = w_id'[y] /\ a.clock = lastW'[y][u]
    BY <1>3
  <2>2. CASE y = x
    BY <1>0, <2>1, <2>2, WriteFacts, OwnEpoch
  <2>3. CASE y # x
    <3>1. w_id'[y] = w_id[y] /\ lastW'[y][u] = lastW[y][u]
      BY <2>3, WriteFacts
    <3> QED BY <1>0, <1>3, <3>1, RecordedAt
  <2> QED BY <2>2, <2>3
<1> QED BY <1>1, <1>2, <1>3

\* No other clock knows the new access, on either side.
LEMMA ModestAccess ==
  ASSUME NoWrap, Base, AccessesPast, ClocksModest, NEW t \in threads,
         UNCHANGED <<threads, vc, lockVC, happensVC, hb, hbLock, hbIdent, owner>>,
         \A u \in Tid : \A a \in Recorded(u)' :
           a \in Recorded(u) \/ (u = t /\ a.epoch = id[t] /\ a.clock = hb[t][t])
  PROVE  ClocksModest'
<1> SUFFICES ASSUME NEW u \in Tid
             PROVE  /\ \A v \in threads : Modest(Recorded(u)', vc[v][u], hb[v][u])
                    /\ \A m \in Mutex : Modest(Recorded(u)', lockVC[m][u], LockOrder(m, u))
                    /\ \A i \in Identifier : Modest(Recorded(u)', happensVC[i][u], hbIdent[i][u])
  BY DEF ClocksModest, LockOrder, Modest
<1>1. /\ \A v \in threads : Modest(Recorded(u), vc[v][u], hb[v][u])
      /\ \A m \in Mutex : Modest(Recorded(u), lockVC[m][u], LockOrder(m, u))
      /\ \A i \in Identifier : Modest(Recorded(u), happensVC[i][u], hbIdent[i][u])
  BY DEF ClocksModest
<1>2. ASSUME NEW e \in Nat, NEW c, u = t => e <= id[t], Modest(Recorded(u), e, c)
      PROVE  Modest(Recorded(u)', e, c)
  <2> SUFFICES ASSUME NEW a \in Recorded(u)', a.epoch < e PROVE a.clock <= c
    BY DEF Modest
  <2>1. CASE a \in Recorded(u)
    BY <1>2, <2>1 DEF Modest
  <2>2. CASE u = t /\ a.epoch = id[t]
    BY <1>2, <2>2, OwnEpoch, OrderTypes
  <2> QED BY <2>1, <2>2
<1>3. /\ \A v \in threads : vc[v][u] \in Nat /\ (u = t => vc[v][u] <= id[t])
      /\ \A m \in Mutex : lockVC[m][u] \in Nat /\ (u = t => lockVC[m][u] <= id[t])
      /\ \A i \in Identifier : happensVC[i][u] \in Nat /\ (u = t => happensVC[i][u] <= id[t])
  BY OwnEpoch, EntryTypes, OrderTypes
<1> QED BY <1>1, <1>2, <1>3

LEMMA PastAccess ==
  ASSUME NoWrap, Base, OneReadMode, OneReadMode', AccessesPast, NEW t \in Tid, NEW x \in Addr,
         PRead(t, x) \/ PWrite(t, x)
  PROVE  AccessesPast'
<1>1. \A u \in Tid : hb[u][u] \in Nat
  BY EntryTypes
<1>2. CASE PRead(t, x)
  <2>1. /\ t \in threads /\ threads' = threads /\ hb' = hb /\ lastW' = lastW
        /\ early' \in [Addr -> SUBSET Tid]
    BY <1>2, ReadFacts
  <2>2. \A y \in Addr, u \in Tid :
          lastR'[y][u] = IF y = x /\ u = t THEN hb[t][t] ELSE lastR[y][u]
    BY <1>2, ReadFacts
  <2> QED BY <1>1, <2>1, <2>2 DEF AccessesPast
<1>3. CASE PWrite(t, x)
  <2>1. t \in threads /\ threads' = threads /\ hb' = hb /\ lastR' = lastR /\ early' = early
    BY <1>3, WriteFacts
  <2>2. \A y \in Addr, u \in Tid :
          lastW'[y][u] = IF y = x /\ u = t THEN hb[t][t] ELSE lastW[y][u]
    BY <1>3, WriteFacts
  <2> QED BY <1>1, <2>1, <2>2 DEF AccessesPast
<1> QED BY <1>2, <1>3

\* The test of the is_*_race() functions on an access of a running thread that is on
\* record: an access it finds ordered is ordered.  UnorderedIsRace is the converse.
LEMMA OrderedIsOrdered ==
  ASSUME NoWrap, Base, AccessesPast, ClocksModest, NEW t \in threads, NEW u \in threads,
         NEW a \in Recorded(u), Reached(a.epoch, u), ~Unordered(t, a.epoch)
  PROVE  a.clock <= hb[t][u]
<1>1. /\ u \in Tid /\ t \in Tid /\ make_id(u) \in Nat /\ id[u] \in Nat /\ vc[t][u] \in Nat
      /\ hb[t][u] \in Nat /\ a.clock \in Nat /\ a.epoch \in Nat /\ u \in Nat
      /\ MaxClock \in Nat /\ Multiplier \in Nat
  <2>1. u \in Tid /\ t \in Tid
    BY OrderTypes
  <2>2. id[u] \in Nat /\ vc[t][u] \in Nat /\ hb[t][u] \in Nat
    BY <2>1, OrderTypes, EntryTypes
  <2>3. a.clock \in Nat /\ a.epoch \in Nat
    BY <2>1, RecordPast
  <2> QED BY <2>1, <2>2, <2>3, PackTypes, TidAssumption, MaxClockAssumption,
             MultiplierAssumption
<1>2. a.epoch # 0 /\ a.epoch # VAR_NOT_INIT /\ make_tid(a.epoch) = u
  BY <1>1, RecordedMember DEF VAR_NOT_INIT
<1>3. CASE u = t
  BY <1>1, <1>3, RecordPast
<1>4. CASE u # t
  <2>1. make_clock(a.epoch) < make_clock(vc[t][u])
    <3>1. get_tid(t) = t
      BY OwnEpoch DEF get_tid
    <3>2. make_clock(a.epoch) \in Nat /\ make_clock(vc[t][u]) \in Nat
      BY <1>1, PackTypes
    <3>3. ~(make_clock(a.epoch) >= make_clock(vc[t][u]))
      BY <1>1, <1>2, <1>4, <3>1 DEF Unordered, get_clock_by_tid
    <3> QED BY <3>2, <3>3
  <2>2. id[u] <= make_id(u) + MaxClock
    BY DEF Base, ClockInv, EpochInRange
  <2>3. make_id(u) <= a.epoch /\ a.epoch <= id[u]
    BY <1>2 DEF Reached
  <2>4. make_clock(a.epoch) = a.epoch - make_id(u)
    <3> DEFINE c == a.epoch - make_id(u)
    <3>1. c \in Nat /\ c < Multiplier /\ a.epoch = make_id(u) + c
      BY <1>1, <2>2, <2>3 DEF NoWrap
    <3> QED BY <1>1, <3>1, Unpack
  <2>5. vc[t][u] # 0
    <3>1. make_clock(0) = 0
      BY MultiplierAssumption DEF make_clock
    <3> QED BY <1>1, <2>1, <2>3, <2>4, <3>1
  <2>6. make_id(u) <= vc[t][u] /\ vc[t][u] <= id[u]
    BY <1>1, <2>5 DEF Base, ClockInv, NoFutureKnowledge, Reached
  <2>7. make_clock(vc[t][u]) = vc[t][u] - make_id(u)
    <3> DEFINE c == vc[t][u] - make_id(u)
    <3>1. c \in Nat /\ c < Multiplier /\ vc[t][u] = make_id(u) + c
      BY <1>1, <2>2, <2>6 DEF NoWrap
    <3> QED BY <1>1, <3>1, Unpack
  <2>8. a.epoch < vc[t][u]
    BY <1>1, <2>1, <2>4, <2>7
  <2> QED BY <1>1, <2>8 DEF ClocksModest, Modest
<1> QED BY <1>3, <1>4

\* The same for the last write to a variable, and for a read it keeps.
LEMMA WriteOrdered ==
  ASSUME NoWrap, Base, AccessesPast, ClocksModest, NEW t \in threads, NEW x \in Addr,
         w_id[x] # VAR_NOT_INIT, Running(w_id[x], lastW[x]), ~Unordered(t, w_id[x])
  PROVE  WriteKnown(x, hb[t])
<1> DEFINE u == make_tid(w_id[x])
           a == [epoch |-> w_id[x], clock |-> lastW[x][u]]
<1>1. u \in threads /\ Reached(w_id[x], u) /\ u \in Tid
  BY OrderTypes DEF Running
<1>2. a \in Recorded(u)
  BY <1>1, RecordedMember
<1>3. a.epoch = w_id[x] /\ a.clock = lastW[x][u]
  OBVIOUS
<1> HIDE DEF u, a
<1>4. lastW[x][u] <= hb[t][u]
  BY <1>1, <1>2, <1>3, OrderedIsOrdered
<1> QED BY <1>4 DEF WriteKnown, u

LEMMA ReadOrdered ==
  ASSUME NoWrap, Base, AccessesPast, ClocksModest, NEW t \in threads, NEW x \in Addr,
         NEW e \in Reads(x), Running(e, lastR[x]), ~Unordered(t, e)
  PROVE  lastR[x][make_tid(e)] <= hb[t][make_tid(e)]
<1> DEFINE u == make_tid(e)
           a == [epoch |-> e, clock |-> lastR[x][u]]
<1>1. u \in threads /\ Reached(e, u) /\ u \in Tid
  BY OrderTypes DEF Running
<1>2. a \in Recorded(u)
  BY <1>1, RecordedMember DEF Reads
<1>3. a.epoch = e /\ a.clock = lastR[x][u]
  OBVIOUS
<1> HIDE DEF u, a
<1>4. lastR[x][u] <= hb[t][u]
  BY <1>1, <1>2, <1>3, OrderedIsOrdered
<1> QED BY <1>4 DEF u

\* An access that reports no race follows all the history of the variable: a read,
\* all writes.
LEMMA ReadCovered ==
  ASSUME NoWrap, MissInv, NEW t \in Tid, NEW x \in Addr, PRead(t, x),
         x \notin ended, x \notin found'
  PROVE  /\ \A u \in Tid : lastW[x][u] <= hb[t][u]
         /\ w_id[x] # VAR_NOT_INIT => WriteKnown(x, hb[t])
<1>0. t \in threads /\ Read(t, x) /\ found' = found \cup {r.addr : r \in report'}
  BY DEF PRead, Read, HBRead, HBAccess
<1>1. Base /\ AccessesPast /\ ClocksModest /\ OnRecord(x)
  BY DEF MissInv, Order, AllOnRecord
<1>2. CASE w_id[x] = VAR_NOT_INIT
  BY <1>0, <1>1, <1>2, EntryTypes, OrderTypes DEF OnRecord, Zero
<1>3. CASE w_id[x] # VAR_NOT_INIT
  <2>1. Tracked(x) /\ Running(w_id[x], lastW[x])
    BY <1>0, <1>1, <1>3 DEF Tracked, OnRecord
  <2>2. LastWriteLast(x)
    BY <2>1 DEF MissInv, AllTracked
  <2>3. WriteKnown(x, hb[t])
    <3>1. CASE ReadSameEpoch(t, x)
      <4>1. id[t] \in Reads(x) /\ make_tid(id[t]) = t
        BY <1>0, <1>1, <3>1, OwnEpoch DEF ReadSameEpoch, Reads
      <4> QED BY <2>2, <4>1 DEF LastWriteLast
    <3>2. CASE ~ReadSameEpoch(t, x)
      <4>1. report' = wr_reports(t, x)
        BY <1>0, <3>2 DEF Read, read_same_epoch, read_exclusive, read_share, read_shared
      <4>2. ~Unordered(t, w_id[x])
        <5> SUFFICES ASSUME Unordered(t, w_id[x]) PROVE FALSE
          OBVIOUS
        <5> DEFINE r == [addr |-> x, first |-> make_tid(w_id[x]), second |-> get_tid(t),
                         wr1 |-> TRUE, wr2 |-> FALSE]
        <5>1. get_tid(t) = t /\ make_tid(w_id[x]) \in threads
          BY <1>0, <1>1, <2>1, OwnEpoch DEF get_tid, Running
        <5>2. r \in report'
          BY <1>0, <4>1, <5>1 DEF wr_reports, is_wr_race, report_race
        <5>3. r.addr = x
          OBVIOUS
        <5> HIDE DEF r
        <5> QED BY <1>0, <5>2, <5>3
      <4> QED BY <1>0, <1>1, <1>3, <2>1, <4>2, WriteOrdered
    <3> QED BY <3>1, <3>2
  <2>4. HistoryKnown(x, hb[t])
    BY <1>0, <1>1, <2>2, <2>3, OrderTypes DEF LastWriteLast, Covered
  <2> QED BY <2>3, <2>4 DEF HistoryKnown
<1> QED BY <1>2, <1>3

\* A write, all writes of others and all their reads but early ones.
LEMMA WriteCovered ==
  ASSUME NoWrap, MissInv, NEW t \in Tid, NEW x \in Addr, PWrite(t, x),
         x \notin ended, x \notin found', NEW u \in Tid \ {t}
  PROVE  lastW[x][u] <= hb[t][u] /\ (lastR[x][u] <= hb[t][u] \/ u \in early[x])
<1>0. t \in threads /\ Write(t, x) /\ found' = found \cup {r.addr : r \in report'}
  BY DEF PWrite, Write, HBWrite, HBAccess
<1>1. Base /\ AccessesPast /\ ClocksModest /\ OnRecord(x) /\ OwnClockLeads
  BY DEF MissInv, Order, AllOnRecord, Base
<1>2. CASE w_id[x] = VAR_NOT_INIT
  <2>1. lastW[x][u] = 0 /\ (lastR[x][u] > 0 => u \in early[x])
    BY <1>1, <1>2 DEF OnRecord, Zero
  <2>2. hb[t][u] \in Nat /\ lastR[x][u] \in Nat
    BY <1>1, EntryTypes
  <2> QED BY <2>1, <2>2
<1>3. CASE w_id[x] # VAR_NOT_INIT
  <2>1. Tracked(x) /\ Running(w_id[x], lastW[x])
    BY <1>0, <1>1, <1>3 DEF Tracked, OnRecord
  <2>2. LastWriteLast(x)
    BY <2>1 DEF MissInv, AllTracked
  <2>3. \A e \in Reads(x) : Running(e, lastR[x])
    BY <1>1 DEF OnRecord
  <2>4. get_tid(t) = t /\ make_tid(id[t]) = t /\ id[t] # VAR_NOT_INIT
    BY <1>0, <1>1, OwnEpoch DEF get_tid
  <2>5. ASSUME WriteKnown(x, hb[t]),
               \A e \in Reads(x) : make_tid(e) = u => lastR[x][u] <= hb[t][u]
        PROVE  lastW[x][u] <= hb[t][u] /\ (lastR[x][u] <= hb[t][u] \/ u \in early[x])
    <3>1. HistoryKnown(x, hb[t])
      BY <2>2, <2>5 DEF LastWriteLast, Covered
    <3> QED BY <2>5, <3>1 DEF HistoryKnown
  <2>6. CASE id[t] = w_id[x]
    <3>1. lastW[x][t] = hb[t][t]
      BY <1>0, <1>1, <1>3, <2>6 DEF OnRecord
    <3>2. WriteKnown(x, hb[t])
      BY <1>1, <2>4, <2>6, <3>1, EntryTypes DEF WriteKnown
    <3>3. ASSUME NEW e \in Reads(x), make_tid(e) = u PROVE FALSE
      <4>1. hb[t][t] <= hb[u][t] /\ u \in threads
        BY <2>2, <2>3, <2>4, <2>6, <3>1, <3>3 DEF LastWriteLast, WriteKnown, Running
      <4>2. hb[u][t] < hb[t][t]
        BY <1>0, <1>1 DEF OwnClockLeads, Behind
      <4> QED BY <1>1, <4>1, <4>2, EntryTypes
    <3> QED BY <2>5, <3>2, <3>3
  <2>7. CASE id[t] # w_id[x]
    <3> DEFINE Rep(e, w) == [addr |-> x, first |-> make_tid(e), second |-> t,
                             wr1 |-> w, wr2 |-> TRUE]
    <3>1. \A e, w : make_tid(e) \in threads =>
            report_race(make_tid(e), get_tid(t), w, TRUE, x) = {Rep(e, w)}
      BY <1>0, <2>4 DEF report_race
    <3>2. \A e, w : Rep(e, w) \notin report'
      <4>1. \A e, w : Rep(e, w).addr = x
        OBVIOUS
      <4> HIDE DEF Rep
      <4> QED BY <1>0, <4>1
    <3> HIDE DEF Rep
    <3>3. ~Unordered(t, w_id[x])
      <4> SUFFICES ASSUME Unordered(t, w_id[x]) PROVE FALSE
        OBVIOUS
      <4>1. make_tid(w_id[x]) \in threads
        BY <2>1 DEF Running
      <4>2. ww_reports(t, x) = {Rep(w_id[x], TRUE)}
        BY <3>1, <4>1 DEF ww_reports, is_ww_race
      <4>3. ww_reports(t, x) \subseteq report'
        BY <1>0, <1>3, <2>7 DEF Write, write_same_epoch, write_initial, write_exclusive,
                                write_shared
      <4> QED BY <3>2, <4>2, <4>3
    <3>4. ASSUME NEW e \in Reads(x) PROVE ~Unordered(t, e)
      <4> SUFFICES ASSUME Unordered(t, e) PROVE FALSE
        OBVIOUS
      <4>1. make_tid(e) \in threads /\ make_tid(e) # 0
        BY <1>1, <2>3, TidAssumption, OrderTypes DEF Running
      <4>2. CASE e = r_id[x] /\ write_exclusive(t, x)
        <5>1. rw_ex_reports(t, x) = {Rep(e, FALSE)}
          BY <3>1, <4>1, <4>2 DEF rw_ex_reports, is_rw_ex_race
        <5> QED BY <3>2, <4>2, <5>1 DEF write_exclusive
      <4>3. CASE e \in shared_vc[x] /\ write_shared(t, x)
        <5>1. make_tid(e) \in is_rw_sh_race(t, x)
          BY <4>1, <4>3 DEF is_rw_sh_race
        <5>2. PICK r \in is_rw_sh_race(t, x) :
                report_race(r, get_tid(t), FALSE, TRUE, x) \subseteq report'
          BY <4>3, <5>1 DEF write_shared
        <5>3. PICK f \in shared_vc[x] : r = make_tid(f) /\ f # VAR_NOT_INIT
          BY <5>2 DEF is_rw_sh_race, Unordered
        <5>4. make_tid(f) \in threads
          BY <2>3, <5>3 DEF Running, Reads
        <5> QED BY <3>1, <3>2, <5>2, <5>3, <5>4
      <4>4. ReadMode(x)
        BY DEF MissInv, Order, OneReadMode, ReadMode
      <4>5. \/ e = r_id[x] /\ write_exclusive(t, x)
            \/ e \in shared_vc[x] /\ write_shared(t, x)
        BY <1>0, <1>3, <2>7, <4>4 DEF Write, write_same_epoch, write_initial,
           write_exclusive, write_shared, Reads, ReadMode, is_read_shared
      <4> QED BY <4>2, <4>3, <4>5
    <3>5. WriteKnown(x, hb[t])
      BY <1>0, <1>1, <1>3, <2>1, <3>3, WriteOrdered
    <3>6. ASSUME NEW e \in Reads(x), make_tid(e) = u PROVE lastR[x][u] <= hb[t][u]
      BY <1>0, <1>1, <2>3, <3>4, <3>6, ReadOrdered
    <3> QED BY <2>5, <3>5, <3>6
  <2> QED BY <2>6, <2>7
<1> QED BY <1>2, <1>3

\* No access is missed.
LEMMA AccessMissesNone ==
  ASSUME NoWrap, MissInv, OneReadMode', NEW t \in Tid, NEW x \in Addr, PRead(t, x) \/ PWrite(t, x)
  PROVE  NoMissedRace'
<1>0. Base /\ AccessesPast /\ OneReadMode
  BY DEF MissInv, Order
<1>1. \A u \in Tid : lastW[x][u] \in Nat /\ lastR[x][u] \in Nat /\ hb[t][u] \in Nat
  BY <1>0, EntryTypes
<1>2. CASE PRead(t, x)
  <2>1. ended' = ended
    BY <1>0, <1>2, ReadFacts
  <2>2. missed' = {r \in {Conflict(x, t, u, TRUE, FALSE) : u \in Tid} : IsRace(r) /\ x \notin found'}
    BY <1>2 DEF PRead, HBRead, HBAccess
  <2> SUFFICES ASSUME NEW r \in missed', r.addr \notin ended' PROVE FALSE
    BY DEF NoMissedRace
  <2>3. PICK u \in Tid : r = Conflict(x, t, u, TRUE, FALSE)
    BY <2>2
  <2>4. IsRace(r) /\ x \notin found'
    BY <2>2
  <2>5. r.addr = x /\ lastW[x][u] > hb[t][u]
    BY <2>3, <2>4 DEF Conflict, IsRace
  <2>6. lastW[x][u] <= hb[t][u]
    BY <1>2, <2>1, <2>4, <2>5, ReadCovered
  <2> QED BY <1>1, <2>5, <2>6
<1>3. CASE PWrite(t, x)
  <2>1. ended' = ended /\ early' = early
    BY <1>0, <1>3, WriteFacts
  <2> DEFINE pairs == {Conflict(x, t, u, w, TRUE) : u \in Tid, w \in BOOLEAN}
  <2>2. missed' = {r \in pairs : IsRace(r) /\ x \notin found'}
    BY <1>3 DEF PWrite, HBWrite, HBAccess
  <2> SUFFICES ASSUME NEW r \in missed', Late(r)', r.addr \notin ended' PROVE FALSE
    BY DEF NoMissedRace
  <2>3. PICK u \in Tid, w \in BOOLEAN : r = Conflict(x, t, u, w, TRUE)
    <3>1. r \in pairs
      <4> HIDE DEF pairs
      <4> QED BY <2>2
    <3> QED BY <3>1, SMT DEF Conflict
  <2>4. IsRace(r) /\ x \notin found'
    <3> HIDE DEF pairs
    <3> QED BY <2>2
  <2>5. /\ r.addr = x /\ u # t
        /\ w => lastW[x][u] > hb[t][u]
        /\ ~w => lastR[x][u] > hb[t][u]
        /\ w \/ u \notin early[x]
    BY <2>1, <2>3, <2>4 DEF Conflict, IsRace, Late
  <2>6. lastW[x][u] <= hb[t][u] /\ (lastR[x][u] <= hb[t][u] \/ u \in early[x])
    BY <1>3, <2>1, <2>4, <2>5, WriteCovered
  <2> QED BY <1>1, <2>5, <2>6
<1> QED BY <1>2, <1>3

LEMMA OnRecordRead ==
  ASSUME NoWrap, MissInv, OneReadMode', NEW t \in Tid, NEW x \in Addr, PRead(t, x)
  PROVE  AllOnRecord'
<1>0. Base /\ AccessesPast /\ OneReadMode /\ RDTypeOK /\ OwnClockLeads
  BY DEF MissInv, Order, Base
<1>1. /\ t \in threads /\ threads' = threads /\ id' = id /\ hb' = hb /\ w_id' = w_id
      /\ lastW' = lastW /\ ended' = ended
  BY <1>0, ReadFacts
<1>2. \A y \in Addr, u \in Tid : lastR'[y][u] = IF y = x /\ u = t THEN hb[t][t] ELSE lastR[y][u]
  BY <1>0, ReadFacts
<1>3. /\ \A y \in Addr \ {x} : Reads(y)' = Reads(y) /\ early'[y] = early[y]
      /\ early'[x] = IF Written(x) THEN early[x] \ {t} ELSE early[x] \cup {t}
      /\ \A e \in Reads(x)' : e = id[t] \/ (e \in Reads(x) /\ make_tid(e) # t)
  BY <1>0, ReadFacts
<1>4. hb[t][t] > 0 /\ make_tid(id[t]) = t /\ Reached(id[t], t)
  BY <1>0, <1>1, OwnEpoch, OrderTypes DEF OwnClockLeads
<1>5. threads \subseteq Tid
  BY <1>0, OrderTypes
<1> SUFFICES ASSUME NEW y \in Addr, y \notin ended' PROVE OnRecord(y)'
  BY DEF AllOnRecord
<1>6. OnRecord(y)
  BY <1>1 DEF MissInv, AllOnRecord
<1>7. w_id'[y] = VAR_NOT_INIT =>
        /\ lastW'[y] = Zero
        /\ \A u \in Tid : lastR'[y][u] > 0 => u \in early'[y]
  <2> SUFFICES ASSUME w_id[y] = VAR_NOT_INIT
               PROVE  /\ lastW[y] = Zero
                      /\ \A u \in Tid : lastR'[y][u] > 0 => u \in early'[y]
    BY <1>1
  <2>1. lastW[y] = Zero /\ \A u \in Tid : lastR[y][u] > 0 => u \in early[y]
    BY <1>6 DEF OnRecord
  <2>2. CASE y = x
    <3>1. ~Written(x)
      BY <2>1, <2>2 DEF Written, Zero
    <3> QED BY <1>2, <1>3, <2>1, <2>2, <3>1
  <2>3. CASE y # x
    BY <1>2, <1>3, <2>1, <2>3
  <2> QED BY <2>2, <2>3
<1>8. w_id'[y] # VAR_NOT_INIT =>
        /\ Running(w_id[y], lastW[y])'
        /\ \A v \in threads' : w_id'[y] = id'[v] => lastW'[y][v] = hb'[v][v]
  BY <1>1, <1>6 DEF OnRecord, Running, Reached
<1>9. ASSUME NEW e \in Reads(y)'
      PROVE  LET u == make_tid(e) IN u \in threads /\ Reached(e, u) /\ lastR'[y][u] > 0
  <2>1. CASE y = x /\ e = id[t]
    BY <1>1, <1>2, <1>4, <1>5, <2>1
  <2>2. CASE e \in Reads(y)
    BY <1>2, <1>4, <1>5, <1>6, <2>2 DEF OnRecord, Running
  <2> QED BY <1>3, <1>9, <2>1, <2>2
<1>10. \A e \in Reads(y)' :
         LET u == make_tid(e) IN u \in threads' /\ Reached(e, u)' /\ lastR'[y][u] > 0
  BY <1>1, <1>9 DEF Reached
<1> QED BY <1>7, <1>8, <1>10 DEF OnRecord, Running, Zero

LEMMA OnRecordWrite ==
  ASSUME NoWrap, MissInv, NEW t \in Tid, NEW x \in Addr, PWrite(t, x)
  PROVE  AllOnRecord'
<1>0. Base /\ OwnClockLeads
  BY DEF MissInv, Order, Base
<1>1. /\ t \in threads /\ threads' = threads /\ id' = id /\ hb' = hb /\ lastR' = lastR
      /\ early' = early /\ ended' = ended /\ w_id'[x] = id[t]
  BY <1>0, WriteFacts
<1>2. \A y \in Addr, u \in Tid : lastW'[y][u] = IF y = x /\ u = t THEN hb[t][t] ELSE lastW[y][u]
  BY <1>0, WriteFacts
<1>3. /\ \A y \in Addr \ {x} : Reads(y)' = Reads(y) /\ w_id'[y] = w_id[y]
      /\ Reads(x)' \subseteq Reads(x)
  BY <1>0, WriteFacts
<1>4. /\ hb[t][t] > 0 /\ make_tid(id[t]) = t /\ Reached(id[t], t) /\ id[t] # VAR_NOT_INIT
      /\ threads \subseteq Tid /\ \A v \in threads : make_tid(id[v]) = v
  BY <1>0, <1>1, OwnEpoch, OrderTypes DEF OwnClockLeads
<1> SUFFICES ASSUME NEW y \in Addr, y \notin ended' PROVE OnRecord(y)'
  BY DEF AllOnRecord
<1>5. OnRecord(y)
  BY <1>1 DEF MissInv, AllOnRecord
<1>6. \A e \in Reads(y)' : Running(e, lastR[y])'
  BY <1>1, <1>3, <1>5 DEF OnRecord, Running, Reached
<1>7. CASE y = x
  <2>1. Running(w_id[y], lastW[y])'
    BY <1>1, <1>2, <1>4, <1>7 DEF Running, Reached
  <2>2. \A v \in threads : w_id'[y] = id[v] => lastW'[y][v] = hb[v][v]
    BY <1>1, <1>2, <1>4, <1>7
  <2> QED BY <1>1, <1>4, <1>6, <1>7, <2>1, <2>2 DEF OnRecord
<1>8. CASE y # x
  <2>1. \A u \in Tid : lastW'[y][u] = lastW[y][u]
    BY <1>2, <1>8
  <2>2. w_id'[y] = w_id[y] /\ lastW'[y] = lastW[y]
    BY <1>0, <1>3, <1>8, OrderTypes DEF PWrite, HBWrite, RecordWrite
  <2> QED BY <1>1, <1>5, <1>6, <2>2 DEF OnRecord, Running, Reached, Zero
<1> QED BY <1>7, <1>8

-----------------------------------------------------------------------------
(* The last write and the history before it. *)

\* A variable that is tracked: its writer and its readers run.
LEMMA TrackedFacts ==
  ASSUME MissInv, NEW x, Tracked(x)
  PROVE  /\ x \in Addr /\ x \notin ended /\ w_id[x] # VAR_NOT_INIT
         /\ LastWriteLast(x)
         /\ OnRecord(x)
         /\ make_tid(w_id[x]) \in threads /\ make_tid(w_id[x]) \in Tid
         /\ lastW[x][make_tid(w_id[x])] > 0
         /\ \A e \in Reads(x) : make_tid(e) \in threads /\ make_tid(e) \in Tid
BY OrderTypes DEF MissInv, Order, AllTracked, AllOnRecord, Tracked, OnRecord, Running

\* A clock that knows at least as much.
LEMMA HistoryGrown ==
  ASSUME Base, NEW x \in Addr, NEW h \in HBClock, NEW k \in HBClock,
         HistoryKnown(x, h), \A u \in Tid : h[u] <= k[u]
  PROVE  HistoryKnown(x, k)
<1> SUFFICES ASSUME NEW u \in Tid
             PROVE  /\ lastW[x][u] <= k[u]
                    /\ \/ lastR[x][u] <= k[u] \/ u \in early[x]
                       \/ \E e \in Reads(x) : make_tid(e) = u
  BY DEF HistoryKnown
<1>1. h[u] <= k[u] /\ h[u] \in Nat /\ k[u] \in Nat
      /\ lastW[x][u] \in Nat /\ lastR[x][u] \in Nat
  BY EntryTypes DEF HBClock
<1>2. /\ lastW[x][u] <= h[u]
      /\ \/ lastR[x][u] <= h[u] \/ u \in early[x]
         \/ \E e \in Reads(x) : make_tid(e) = u
  BY DEF HistoryKnown
<1>3. lastW[x][u] <= k[u] /\ (lastR[x][u] <= h[u] => lastR[x][u] <= k[u])
  BY <1>1, <1>2
<1> QED BY <1>2, <1>3

\* Merging and extending clocks that cover a variable.
LEMMA CoveredMerged ==
  ASSUME Base, NEW x \in Addr, make_tid(w_id[x]) \in Tid,
         NEW h \in HBClock, NEW k \in HBClock, Covered(x, h), Covered(x, k)
  PROVE  Covered(x, Max2(h, k))
<1> DEFINE j == Max2(h, k)
           w == make_tid(w_id[x])
<1>1. j \in HBClock /\ j[w] \in {h[w], k[w]}
  BY MaxEntry, RefTypes
<1>2. (\A u \in Tid : h[u] <= j[u]) /\ (\A u \in Tid : k[u] <= j[u])
  BY MaxEntry
<1> HIDE DEF j
<1>3. ASSUME WriteKnown(x, j) PROVE HistoryKnown(x, j)
  <2>1. WriteKnown(x, h) \/ WriteKnown(x, k)
    BY <1>1, <1>3 DEF WriteKnown
  <2> QED BY <1>1, <1>2, <2>1, HistoryGrown DEF Covered
<1>4. Covered(x, j)
  BY <1>3 DEF Covered
<1> QED BY <1>4 DEF j

LEMMA CoveredGrown ==
  ASSUME Base, NEW x \in Addr, NEW h \in HBClock, NEW k \in HBClock, Covered(x, h),
         \A u \in Tid : h[u] <= k[u],
         WriteKnown(x, k) => WriteKnown(x, h)
  PROVE  Covered(x, k)
BY HistoryGrown DEF Covered

\* When nothing is accessed, it remains to look at the new clocks.
LEMMA LastSync ==
  ASSUME NoWrap, MissInv, Base', Sync,
         \A x : Tracked(x) => /\ \A t \in Tid : Covered(x, hb'[t])
                              /\ \A m \in Mutex : Covered(x, hbLock'[m])
                              /\ \A i \in Identifier : Covered(x, hbIdent'[i])
  PROVE  AllTracked'
<1>1. /\ UNCHANGED <<w_id, r_id, shared_vc, lastW, lastR, early, ended, found>>
      /\ \A u \in threads, v \in Tid : hb[u][v] <= hb'[u][v]
  BY SyncFacts DEF MissInv, Order, Advances
<1> SUFFICES ASSUME NEW x \in Addr, Tracked(x) PROVE LastWriteLast(x)'
  BY <1>1 DEF AllTracked, Tracked
<1>3. Reads(x)' = Reads(x)
  BY <1>1 DEF Reads
<1>4. /\ \A t \in Tid : Covered(x, hb[t])'
      /\ \A m \in Mutex : Covered(x, hbLock[m])'
      /\ \A i \in Identifier : Covered(x, hbIdent[i])'
  BY <1>1, <1>3 DEF Covered, WriteKnown, HistoryKnown
<1>5. ASSUME NEW e \in Reads(x) PROVE WriteKnown(x, hb[make_tid(e)])'
  <2> DEFINE w == make_tid(w_id[x])
             u == make_tid(e)
  <2>1. w \in Tid /\ u \in threads /\ u \in Tid
    BY TrackedFacts
  <2>2. lastW[x][w] <= hb[u][w]
    BY TrackedFacts DEF LastWriteLast, WriteKnown
  <2>3. lastW[x][w] \in Nat /\ hb[u][w] \in Nat /\ hb'[u][w] \in Nat
    BY <2>1, EntryTypes DEF MissInv, Order, Base, RDTypeOK, HBClock
  <2>4. hb[u][w] <= hb'[u][w]
    BY <1>1, <2>1
  <2>5. lastW[x][w] <= hb'[u][w]
    BY <2>2, <2>3, <2>4
  <2> QED BY <1>1, <2>5 DEF WriteKnown
<1> QED BY <1>3, <1>4, <1>5 DEF LastWriteLast

\* All clocks after a step cover x.
ClocksCover(x) ==
  /\ \A t \in Tid : Covered(x, hb'[t])
  /\ \A m \in Mutex : Covered(x, hbLock'[m])
  /\ \A i \in Identifier : Covered(x, hbIdent'[i])

LEMMA CoverMerge ==
  ASSUME MissInv, NEW t \in threads, NEW h \in HBClock,
         hb' = [hb EXCEPT ![t] = Max2(hb[t], h)], UNCHANGED <<hbLock, hbIdent>>,
         NEW x, Tracked(x), Covered(x, h)
  PROVE  ClocksCover(x)
<1>1. /\ Base /\ hb \in [Tid -> HBClock] /\ t \in Tid
      /\ x \in Addr /\ make_tid(w_id[x]) \in Tid /\ LastWriteLast(x)
  BY OrderTypes, TrackedFacts DEF MissInv, Order
<1>2. hb'[t] = Max2(hb[t], h) /\ \A u \in Tid \ {t} : hb'[u] = hb[u]
  BY <1>1
<1>3. Covered(x, hb'[t])
  BY <1>1, <1>2, CoveredMerged DEF LastWriteLast
<1> QED BY <1>1, <1>2, <1>3 DEF ClocksCover, LastWriteLast

LEMMA CoverTick ==
  ASSUME MissInv, NEW t \in threads,
         hb' = [hb EXCEPT ![t] = Tick(hb[t], t)],
         \A m \in Mutex : hbLock'[m] \in {hbLock[m], Max2(hbLock[m], hb[t])},
         \A i \in Identifier : hbIdent'[i] \in {hbIdent[i], Max2(hbIdent[i], hb[t])},
         NEW x, Tracked(x)
  PROVE  ClocksCover(x)
<1>1. /\ Base /\ hb \in [Tid -> HBClock] /\ t \in Tid /\ RDTypeOK
      /\ hbLock \in [Mutex -> HBClock] /\ hbIdent \in [Identifier -> HBClock]
      /\ x \in Addr /\ make_tid(w_id[x]) \in Tid /\ LastWriteLast(x)
  BY OrderTypes, TrackedFacts DEF MissInv, Order
<1>2. /\ \A u \in Tid \ {t} : hb'[u] = hb[u]
      /\ \A u \in Tid \ {t} : hb'[t][u] = hb[t][u]
      /\ \A u \in Tid : hb[t][u] <= hb'[t][u]
      /\ hb'[t] \in HBClock
  <2>1. hb'[t] = Tick(hb[t], t)
    BY <1>1
  <2> QED BY <1>1, <2>1, TickAdvances, RefTypes
<1>3. Covered(x, hb'[t])
  <2>1. WriteKnown(x, hb'[t]) => WriteKnown(x, hb[t])
    BY <1>1, <1>2 DEF WriteKnown, MissInv, Order, AccessesPast
  <2> QED BY <1>1, <1>2, <2>1, CoveredGrown DEF LastWriteLast
<1>4. \A m \in Mutex : Covered(x, hbLock'[m])
  BY <1>1, CoveredMerged DEF LastWriteLast
<1>5. \A i \in Identifier : Covered(x, hbIdent'[i])
  BY <1>1, CoveredMerged DEF LastWriteLast
<1> QED BY <1>1, <1>2, <1>3, <1>4, <1>5 DEF ClocksCover, LastWriteLast

\* The new thread c did not write x last: no thread that runs not did.
LEMMA CoverStart ==
  ASSUME NoWrap, MissInv, Base', NEW p \in Tid, NEW c \in Tid,
         PForkRoot(p, c) \/ PForkChild(p, c),
         NEW x, Tracked(x)
  PROVE  ClocksCover(x)
<1>1. /\ Base /\ hb \in [Tid -> HBClock] /\ RDTypeOK /\ OwnClockLeads
      /\ x \in Addr /\ LastWriteLast(x)
      /\ hb' \in [Tid -> HBClock]
  BY OrderTypes, TrackedFacts DEF MissInv, Order, Base, RDTypeOK
<1>2. /\ c \notin threads /\ threads' = threads \cup {c}
      /\ HBForkRoot(c) \/ (HBForkChild(p, c) /\ p \in threads)
      /\ UNCHANGED <<hbLock, hbIdent>>
  BY <1>1, StartFacts
<1>3. /\ hb'[c][c] = 1
      /\ \A t, u \in Tid : t # c =>
           hb'[t][u] = IF t = p /\ u = p /\ p \in threads /\ HBForkChild(p, c)
                       THEN hb[p][p] + 1 ELSE hb[t][u]
  BY <1>1, <1>2, LeadsStart
<1> DEFINE w == make_tid(w_id[x])
<1>4. w \in threads /\ w \in Tid /\ w # c /\ lastW[x][w] > 0 /\ lastW[x][w] \in Nat
      /\ lastW[x][w] <= hb[w][w]
  BY <1>1, <1>2, TrackedFacts, EntryTypes DEF MissInv, Order, AccessesPast
<1>5. \A t, u \in Tid : hb[t][u] \in Nat /\ hb'[t][u] \in Nat
  BY <1>1 DEF HBClock
<1>6. ASSUME NEW t \in Tid \ {c} PROVE Covered(x, hb'[t])
  <2>1. \A u \in Tid : hb[t][u] <= hb'[t][u]
    BY <1>3, <1>5
  <2>2. hb'[t][w] = hb[t][w] \/ t = w
    BY <1>3, <1>4
  <2>3. WriteKnown(x, hb'[t]) => WriteKnown(x, hb[t])
    BY <1>4, <2>2 DEF WriteKnown
  <2> QED BY <1>1, <2>1, <2>3, CoveredGrown DEF LastWriteLast
<1>7. Covered(x, hb'[c])
  <2>1. CASE HBForkRoot(c)
    <3>1. hb'[c] = [Zero EXCEPT ![c] = 1]
      BY <1>1, <2>1 DEF HBForkRoot
    <3>2. hb'[c][w] = 0
      BY <1>4, <3>1 DEF Zero
    <3> QED BY <1>4, <3>2 DEF Covered, WriteKnown
  <2>2. CASE HBForkChild(p, c) /\ p \in threads
    <3>1. p # c /\ hb' = [hb EXCEPT ![c] = [hb[p] EXCEPT ![c] = 1], ![p] = Tick(@, p)]
      BY <1>2, <2>2 DEF HBForkChild
    <3>2. hb'[c] = [hb[p] EXCEPT ![c] = 1]
      BY <1>1, <3>1
    <3>3. \A u \in Tid \ {c} : hb'[c][u] = hb[p][u]
      BY <1>1, <3>2 DEF HBClock
    <3>4. hb[p][c] = 0
      BY <1>1, <1>2, <3>1 DEF OwnClockLeads, Behind
    <3>5. \A u \in Tid : hb[p][u] <= hb'[c][u]
      BY <1>3, <1>5, <3>3, <3>4
    <3>6. WriteKnown(x, hb'[c]) => WriteKnown(x, hb[p])
      BY <1>4, <3>3 DEF WriteKnown
    <3> QED BY <1>1, <3>5, <3>6, CoveredGrown DEF LastWriteLast
  <2> QED BY <1>2, <2>1, <2>2
<1> QED BY <1>1, <1>2, <1>6, <1>7 DEF ClocksCover, LastWriteLast

LEMMA TrackedSync ==
  ASSUME NoWrap, MissInv, Base', Sync
  PROVE  AllTracked'
<1>0. /\ Base /\ hb \in [Tid -> HBClock] /\ hbLock \in [Mutex -> HBClock]
      /\ hbIdent \in [Identifier -> HBClock]
  BY OrderTypes DEF MissInv, Order
<1> SUFFICES ASSUME NEW x, Tracked(x) PROVE ClocksCover(x)
  BY LastSync DEF ClocksCover
<1>1. LastWriteLast(x)
  BY TrackedFacts
<1>2. ASSUME UNCHANGED <<hb, hbLock, hbIdent>> PROVE ClocksCover(x)
  BY <1>1, <1>2 DEF ClocksCover, LastWriteLast
<1>3. ASSUME NEW p \in Tid, NEW c \in Tid, PForkRoot(p, c) \/ PForkChild(p, c)
      PROVE  ClocksCover(x)
  BY <1>3, CoverStart
<1>4. ASSUME NEW t \in Tid, NEW m \in Mutex, PAcquire(t, m)
      PROVE  ClocksCover(x)
  <2>1. t \in threads /\ hb' = [hb EXCEPT ![t] = Max2(hb[t], hbLock[m])]
        /\ UNCHANGED <<hbLock, hbIdent>>
    BY <1>4 DEF PAcquire, Acquire, HBAcquire
  <2> QED BY <1>0, <1>1, <2>1, CoverMerge DEF LastWriteLast
<1>5. ASSUME NEW t \in Tid, NEW m \in Mutex, PAcquireAgain(t, m) \/ PReleaseInner(t, m)
      PROVE  ClocksCover(x)
  BY <1>2, <1>5 DEF PAcquireAgain, PReleaseInner, edgeVars
<1>6. ASSUME NEW t \in Tid, NEW m \in Mutex, PRelease(t, m)
      PROVE  ClocksCover(x)
  <2>1. t \in threads /\ hb' = [hb EXCEPT ![t] = Tick(hb[t], t)]
        /\ hbLock' = [hbLock EXCEPT ![m] = Max2(hbLock[m], hb[t])] /\ hbIdent' = hbIdent
    BY <1>6 DEF PRelease, Release, ReleaseUnknown, ReleaseKnown, HBRelease
  <2>2. \A n \in Mutex : hbLock'[n] \in {hbLock[n], Max2(hbLock[n], hb[t])}
    BY <1>0, <2>1
  <2> QED BY <2>1, <2>2, CoverTick
<1>7. ASSUME NEW t \in Tid, NEW i \in Identifier, PBefore(t, i)
      PROVE  ClocksCover(x)
  <2>1. t \in threads /\ hb' = [hb EXCEPT ![t] = Tick(hb[t], t)]
        /\ hbIdent' = [hbIdent EXCEPT ![i] = Max2(hbIdent[i], hb[t])] /\ hbLock' = hbLock
    BY <1>7 DEF PBefore, HappensBefore, HBBefore
  <2>2. \A j \in Identifier : hbIdent'[j] \in {hbIdent[j], Max2(hbIdent[j], hb[t])}
    BY <1>0, <2>1
  <2> QED BY <2>1, <2>2, CoverTick
<1>8. ASSUME NEW t \in Tid, NEW i \in Identifier, PAfter(t, i)
      PROVE  ClocksCover(x)
  <2>1. t \in threads /\ hb' = [hb EXCEPT ![t] = Max2(hb[t], hbIdent[i])]
        /\ UNCHANGED <<hbLock, hbIdent>>
    BY <1>8 DEF PAfter, HappensAfter, HBAfter
  <2> QED BY <1>0, <1>1, <2>1, CoverMerge DEF LastWriteLast
<1>9. ASSUME NEW b \in Block, PAllocate(b)
      PROVE  ClocksCover(x)
  BY <1>2, <1>9 DEF PAllocate, edgeVars
<1> QED BY <1>3, <1>4, <1>5, <1>6, <1>7, <1>8, <1>9 DEF Sync

\* A number in the range of ids of u names u.
LEMMA EpochNames ==
  ASSUME NoWrap, NEW u \in Tid, NEW e \in Nat, make_id(u) <= e, e <= make_id(u) + MaxClock
  PROVE  make_tid(e) = u
<1> DEFINE c == e - make_id(u)
<1>1. u \in Nat /\ make_id(u) \in Nat
  BY TidAssumption, PackTypes
<1>2. c \in Nat /\ c < Multiplier /\ e = make_id(u) + c
  BY <1>1, MaxClockAssumption, MultiplierAssumption DEF NoWrap
<1> QED BY <1>1, <1>2, Unpack

\* Threads go on and nothing is accessed: the records stay those of running threads.
LEMMA OnRecordSync ==
  ASSUME NoWrap, MissInv, Base', Sync
  PROVE  AllOnRecord'
<1>0. Base
  BY DEF MissInv, Order
<1>1. /\ UNCHANGED <<w_id, r_id, shared_vc, lastW, lastR, early, ended>>
      /\ threads \subseteq threads' /\ \A u \in threads : Advances(u)
  BY <1>0, SyncFacts
<1>2. /\ \A u \in threads : u \in Tid /\ id[u] <= id'[u] /\ id[u] \in Nat /\ id'[u] \in Nat
      /\ \A u \in threads' : make_tid(id'[u]) = u
  <2>1. \A u \in threads : u \in Tid /\ id[u] <= id'[u] /\ id[u] \in Nat /\ id'[u] \in Nat
    BY <1>0, <1>1, OrderTypes DEF Advances, Base, ClockInv, TypeOK, VC, VC_ID
  <2>2. \A u \in threads' : /\ u \in Tid /\ id'[u] \in Nat
                            /\ make_id(u) <= id'[u] /\ id'[u] <= make_id(u) + MaxClock
    BY DEF Base, ClockInv, TypeOK, EpochInRange, VC, VC_ID
  <2> QED BY <2>1, <2>2, EpochNames
<1>3. \A e \in Nat, u \in threads : Reached(e, u) => Reached(e, u)'
  <2>1. \A u \in threads : make_id(u) \in Nat
    BY <1>2, PackTypes, TidAssumption
  <2> QED BY <1>1, <1>2, <2>1 DEF Reached
<1> SUFFICES ASSUME NEW x \in Addr, x \notin ended PROVE OnRecord(x)'
  BY <1>1 DEF AllOnRecord
<1>4. OnRecord(x)
  BY DEF MissInv, AllOnRecord
<1>5. w_id[x] \in Nat /\ \A e \in Reads(x) : e \in Nat
  BY <1>0, OrderTypes DEF Reads
<1>6. Reads(x)' = Reads(x)
  BY <1>1 DEF Reads
<1>7. \A e \in Reads(x) : Running(e, lastR[x])'
  BY <1>1, <1>3, <1>4, <1>5 DEF OnRecord, Running
<1>8. ASSUME w_id[x] # VAR_NOT_INIT
      PROVE  /\ Running(w_id[x], lastW[x])'
             /\ \A t \in threads' : w_id[x] = id'[t] => lastW[x][t] = hb'[t][t]
  <2>1. Running(w_id[x], lastW[x])
    BY <1>4, <1>8 DEF OnRecord
  <2>2. Running(w_id[x], lastW[x])'
    BY <1>1, <1>3, <1>5, <2>1 DEF Running
  <2>3. ASSUME NEW t \in threads', w_id[x] = id'[t] PROVE lastW[x][t] = hb'[t][t]
    <3>1. t \in threads /\ w_id[x] <= id[t]
      BY <1>2, <1>8, <2>1, <2>3 DEF Running, Reached, VAR_NOT_INIT
    <3>2. id'[t] = id[t]
      BY <1>2, <2>3, <3>1
    <3> QED BY <1>1, <1>4, <1>8, <2>3, <3>1, <3>2 DEF OnRecord, Advances
  <2> QED BY <2>2, <2>3
<1> QED BY <1>1, <1>4, <1>6, <1>7, <1>8 DEF OnRecord, Zero

-----------------------------------------------------------------------------
(* No clock of the detector knows too little of what it hides.             *)

LEMMA ModestMerged ==
  ASSUME Base, AccessesPast, NEW u \in Tid, NEW e \in Nat, NEW f \in Nat, NEW c \in Nat,
         NEW d \in Nat, NEW g \in {e, f}, NEW b \in Nat, c <= b, d <= b,
         Modest(Recorded(u), e, c), Modest(Recorded(u), f, d)
  PROVE  Modest(Recorded(u), g, b)
<1> SUFFICES ASSUME NEW a \in Recorded(u), a.epoch < g PROVE a.clock <= b
  BY DEF Modest
<1>1. a.clock \in Nat /\ a.epoch \in Nat
  BY RecordPast
<1>2. a.clock <= c \/ a.clock <= d
  BY DEF Modest
<1> QED BY <1>1, <1>2

\* An entry that knows everything on record.
LEMMA ModestOwn ==
  ASSUME Base, AccessesPast, NEW u \in Tid, NEW e
  PROVE  /\ Modest(Recorded(u), e, hb[u][u])
         /\ u \notin threads => \A c \in Nat : Modest(Recorded(u), e, c)
BY RecordPast DEF Modest

\* All clocks after a step, by those before.
ModestAfter(u) ==
  /\ \A t \in threads' : Modest(Recorded(u), vc'[t][u], hb'[t][u])
  /\ \A m \in Mutex : Modest(Recorded(u), lockVC'[m][u], LockOrder(m, u)')
  /\ \A i \in Identifier : Modest(Recorded(u), happensVC'[i][u], hbIdent'[i][u])

LEMMA ModestFromAfter ==
  ASSUME NoWrap, Base, Sync, \A u \in Tid : ModestAfter(u)
  PROVE  ClocksModest'
<1>1. \A u \in Tid : Recorded(u)' = Recorded(u)
  BY SyncFacts, RecordedSame
<1> QED BY <1>1 DEF ClocksModest, ModestAfter, Modest

LEMMA LockOrderType ==
  ASSUME Base, OwnersRun, NEW m \in Mutex, NEW u \in Tid
  PROVE  LockOrder(m, u) \in Nat
BY EntryTypes, OrderTypes DEF LockOrder, OwnersRun

\* Clocks of mutexes nobody releases: their owner knows more than before.
LEMMA ModestLocks ==
  ASSUME NoWrap, Order, Base', Sync, NEW u \in Tid, NEW m \in Mutex,
         lockVC'[m] = lockVC[m], owner'[m] = owner[m], hbLock'[m] = hbLock[m]
  PROVE  Modest(Recorded(u), lockVC'[m][u], LockOrder(m, u)')
<1>1. /\ Base /\ AccessesPast /\ OwnersRun
      /\ Modest(Recorded(u), lockVC[m][u], LockOrder(m, u))
  BY DEF Order, ClocksModest
<1>2. LockOrder(m, u) <= LockOrder(m, u)' /\ LockOrder(m, u)' \in Nat /\ LockOrder(m, u) \in Nat
  <2>1. LockOrder(m, u) \in Nat
    BY <1>1, LockOrderType
  <2>2. CASE owner[m] = 0
    BY <2>1, <2>2 DEF LockOrder
  <2>3. CASE owner[m] # 0
    <3>1. owner[m] \in threads /\ owner[m] \in Tid
      BY <1>1, <2>3, OrderTypes DEF OwnersRun
    <3>2. hb[owner[m]][u] <= hb'[owner[m]][u]
      BY <1>1, <3>1, SyncFacts DEF Advances
    <3>3. hb'[owner[m]][u] \in Nat
      BY <3>1 DEF Base, RDTypeOK, HBClock
    <3> QED BY <2>1, <2>3, <3>2, <3>3 DEF LockOrder
  <2> QED BY <2>2, <2>3
<1>3. lockVC[m][u] \in Nat
  BY <1>1, EntryTypes
<1> QED BY <1>1, <1>2, <1>3, ModestMerged

LEMMA ModestStart ==
  ASSUME NoWrap, Order, Base', NEW p \in Tid, NEW c \in Tid, PForkRoot(p, c) \/ PForkChild(p, c),
         NEW u \in Tid
  PROVE  ModestAfter(u)
<1>1. Base /\ AccessesPast /\ OwnersRun /\ RDTypeOK /\ OwnClockLeads /\ Sync
  BY DEF Order, Base, Sync
<1>2. /\ \A t \in threads : Modest(Recorded(u), vc[t][u], hb[t][u])
      /\ \A i \in Identifier : Modest(Recorded(u), happensVC[i][u], hbIdent[i][u])
  BY DEF Order, ClocksModest
<1>3. /\ c \notin threads /\ threads' = threads \cup {c}
      /\ HBForkRoot(c) \/ (HBForkChild(p, c) /\ p \in threads)
      /\ UNCHANGED <<hbLock, hbIdent>>
      /\ UNCHANGED <<lockVC, happensVC, owner>>
  BY <1>1, StartFacts DEF PForkRoot, PForkChild, ForkRoot, ForkChild, syncVars
<1>4. /\ threads \subseteq Tid /\ hb \in [Tid -> [Tid -> Nat]] /\ vc \in [Tid -> [Tid -> Nat]]
      /\ hb' \in [Tid -> [Tid -> Nat]] /\ vc' \in [Tid -> [Tid -> Nat]] /\ id \in [Tid -> Nat]
  BY <1>1, OrderTypes DEF Base, RDTypeOK, ClockInv, TypeOK, HBClock, VC, VC_ID
<1>5. \A m \in Mutex : Modest(Recorded(u), lockVC'[m][u], LockOrder(m, u)')
  BY <1>1, <1>3, ModestLocks
<1>6. /\ hb'[c][c] = 1
      /\ \A t, v \in Tid : t # c =>
           hb'[t][v] = IF t = p /\ v = p /\ p \in threads /\ HBForkChild(p, c)
                       THEN hb[p][p] + 1 ELSE hb[t][v]
  BY <1>1, <1>3, LeadsStart
<1>7. CASE u = c
  BY <1>1, <1>2, <1>3, <1>4, <1>5, <1>7, ModestOwn DEF ModestAfter
<1>8. CASE u # c /\ PForkRoot(p, c)
  <2>1. /\ vc'[c][u] = 0 /\ \A t \in Tid \ {c} : vc'[t] = vc[t]
    BY <1>3, <1>4, <1>8 DEF PForkRoot, ForkRoot, EmptyVC
  <2>2. Modest(Recorded(u), vc'[c][u], hb'[c][u])
    BY <1>1, <2>1, RecordPast DEF Modest
  <2>3. p \notin threads
    BY <1>8 DEF PForkRoot, ForkRoot
  <2>4. \A t \in threads : hb'[t][u] = hb[t][u]
    BY <1>3, <1>4, <1>6, <2>3
  <2> QED BY <1>2, <1>3, <1>4, <1>5, <2>1, <2>2, <2>4 DEF ModestAfter
<1>9. CASE u # c /\ PForkChild(p, c)
  <2>1. /\ p \in threads /\ p # c /\ CanInc(p)
        /\ vc'[c] = IncVC(p) /\ vc'[p] = IncVC(p) /\ \A t \in Tid \ {c, p} : vc'[t] = vc[t]
        /\ HBForkChild(p, c)
    BY <1>3, <1>4, <1>9 DEF PForkChild, ForkChild
  <2>2. IncVC(p) = [vc[p] EXCEPT ![p] = id[p] + 1]
    BY <1>1, <2>1, IncOwn DEF Base
  <2>3. hb'[c] = [hb[p] EXCEPT ![c] = 1]
    BY <1>4, <2>1 DEF HBForkChild
  <2>4. hb'[c][u] = hb[p][u]
    BY <1>4, <1>9, <2>1, <2>3
  <2>5. CASE u = p
    <3>1. \A e : Modest(Recorded(u), e, hb[p][p]) /\ Modest(Recorded(u), e, hb[p][p] + 1)
      BY <1>1, <1>4, <2>5, RecordPast DEF Modest
    <3>2. hb'[p][u] = hb[p][p] + 1
      BY <1>6, <2>1, <2>5
    <3>3. \A t \in Tid \ {c, p} : hb'[t][u] = hb[t][u]
      BY <1>6
    <3> QED BY <1>2, <1>3, <1>4, <1>5, <2>1, <2>4, <2>5, <3>1, <3>2, <3>3 DEF ModestAfter
  <2>6. CASE u # p
    <3>1. vc'[c][u] = vc[p][u] /\ vc'[p][u] = vc[p][u]
      BY <1>4, <2>1, <2>2, <2>6
    <3>2. \A t \in Tid \ {c} : hb'[t][u] = hb[t][u]
      BY <1>6, <2>6
    <3> QED BY <1>2, <1>3, <1>4, <1>5, <2>1, <2>4, <3>1, <3>2 DEF ModestAfter
  <2> QED BY <2>5, <2>6
<1> QED BY <1>7, <1>8, <1>9

\* Thread t takes over clocks of both sides that fit.
LEMMA ModestMerge ==
  ASSUME Order, NEW t \in threads, NEW v \in VC, NEW h \in HBClock,
         vc' = [vc EXCEPT ![t] = update(vc[t], v)],
         hb' = [hb EXCEPT ![t] = Max2(hb[t], h)], threads' = threads,
         NEW u \in Tid, Modest(Recorded(u), v[u], h[u])
  PROVE  \A w \in threads' : Modest(Recorded(u), vc'[w][u], hb'[w][u])
<1>1. /\ Base /\ AccessesPast /\ t \in Tid /\ hb \in [Tid -> HBClock] /\ vc \in [Tid -> VC]
      /\ threads \subseteq Tid
      /\ \A w \in threads : Modest(Recorded(u), vc[w][u], hb[w][u])
  BY OrderTypes DEF Order, ClocksModest
<1>2. /\ vc'[t] = update(vc[t], v) /\ \A w \in Tid \ {t} : vc'[w] = vc[w]
      /\ hb'[t] = Max2(hb[t], h) /\ \A w \in Tid \ {t} : hb'[w] = hb[w]
  BY <1>1
<1>3. /\ v[u] \in Nat /\ h[u] \in Nat /\ vc[t][u] \in Nat /\ hb[t][u] \in Nat
      /\ update(vc[t], v)[u] \in {vc[t][u], v[u]}
  BY <1>1, EntryTypes DEF VC, VC_ID, HBClock, update
<1>4. /\ Max2(hb[t], h)[u] \in Nat
      /\ hb[t][u] <= Max2(hb[t], h)[u] /\ h[u] <= Max2(hb[t], h)[u]
  BY <1>1, <1>3, MaxEntry
<1>5. Modest(Recorded(u), update(vc[t], v)[u], Max2(hb[t], h)[u])
  BY <1>1, <1>3, <1>4, ModestMerged
<1> QED BY <1>1, <1>2, <1>5

\* Thread t ticks, on both sides or in the detector alone.
LEMMA ModestTick ==
  ASSUME NoWrap, Order, Base', NEW t \in threads, CanInc(t), threads' = threads,
         vc' = [vc EXCEPT ![t] = IncVC(t)],
         hb' \in {hb, [hb EXCEPT ![t] = Tick(hb[t], t)]}, NEW u \in Tid
  PROVE  /\ \A w \in threads' : Modest(Recorded(u), vc'[w][u], hb'[w][u])
         /\ Modest(Recorded(u), IncVC(t)[u], hb[t][u])
         /\ IncVC(t)[u] \in Nat
<1>1. /\ Base /\ AccessesPast /\ t \in Tid /\ hb \in [Tid -> HBClock] /\ RDTypeOK
      /\ vc \in [Tid -> [Tid -> Nat]] /\ id \in [Tid -> Nat] /\ threads \subseteq Tid
      /\ \A w \in threads : Modest(Recorded(u), vc[w][u], hb[w][u])
  BY OrderTypes DEF Order, ClocksModest, VC, VC_ID
<1>2. IncVC(t) = [vc[t] EXCEPT ![t] = id[t] + 1]
  BY <1>1, IncOwn DEF Base
<1>3. /\ IncVC(t)[u] \in Nat /\ (u # t => IncVC(t)[u] = vc[t][u])
      /\ vc'[t] = IncVC(t) /\ \A w \in Tid \ {t} : vc'[w] = vc[w]
  BY <1>1, <1>2
<1>4. Modest(Recorded(u), IncVC(t)[u], hb[t][u])
  BY <1>1, <1>3, ModestOwn
<1>5. /\ \A w \in Tid \ {t} : hb'[w] = hb[w]
      /\ hb[t][u] <= hb'[t][u] /\ hb[t][u] \in Nat /\ hb'[t][u] \in Nat
  <2>1. hb[t][u] \in Nat /\ hb'[t][u] \in Nat
    BY <1>1, EntryTypes DEF Base, RDTypeOK, HBClock
  <2> QED BY <1>1, <2>1, TickAdvances
<1>6. Modest(Recorded(u), vc'[t][u], hb'[t][u])
  BY <1>1, <1>3, <1>4, <1>5, ModestMerged
<1> QED BY <1>1, <1>3, <1>4, <1>5, <1>6

LEMMA ModestAcquire ==
  ASSUME NoWrap, Order, Base', NEW t \in Tid, NEW m \in Mutex, PAcquire(t, m), NEW u \in Tid
  PROVE  ModestAfter(u)
<1>1. Base /\ AccessesPast /\ OwnersRun /\ Sync
  BY DEF Order, Sync
<1>2. /\ t \in threads /\ threads' = threads /\ owner[m] = 0
      /\ vc' = [vc EXCEPT ![t] = update(vc[t], lockVC[m])]
      /\ hb' = [hb EXCEPT ![t] = Max2(hb[t], hbLock[m])]
      /\ owner' = [owner EXCEPT ![m] = t]
      /\ UNCHANGED <<lockVC, happensVC, hbLock, hbIdent>>
  BY DEF PAcquire, Acquire, HBAcquire
<1>3. /\ lockVC[m] \in VC /\ hbLock[m] \in HBClock
      /\ Modest(Recorded(u), lockVC[m][u], hbLock[m][u])
      /\ hb \in [Tid -> HBClock] /\ owner \in [Mutex -> Tid \cup {0}]
      /\ \A i \in Identifier : Modest(Recorded(u), happensVC[i][u], hbIdent[i][u])
  BY <1>1, <1>2, OrderTypes DEF Order, ClocksModest, LockOrder, Base, RDTypeOK
<1>4. \A w \in threads' : Modest(Recorded(u), vc'[w][u], hb'[w][u])
  BY <1>2, <1>3, ModestMerge
<1>5. Modest(Recorded(u), lockVC'[m][u], LockOrder(m, u)')
  <2>1. owner'[m] = t /\ owner'[m] # 0 /\ hb'[t] = Max2(hb[t], hbLock[m])
    BY <1>2, <1>3, TidAssumption
  <2>2. /\ hbLock[m][u] <= Max2(hb[t], hbLock[m])[u] /\ hbLock[m][u] \in Nat
        /\ lockVC[m][u] \in Nat /\ Max2(hb[t], hbLock[m])[u] \in Nat
    BY <1>1, <1>3, EntryTypes, MaxEntry
  <2>3. Modest(Recorded(u), lockVC[m][u], Max2(hb[t], hbLock[m])[u])
    BY <1>1, <1>3, <2>2, ModestMerged
  <2> QED BY <1>2, <2>1, <2>3 DEF LockOrder
<1>6. \A n \in Mutex \ {m} : Modest(Recorded(u), lockVC'[n][u], LockOrder(n, u)')
  BY <1>1, <1>2, <1>3, ModestLocks
<1> QED BY <1>2, <1>3, <1>4, <1>5, <1>6 DEF ModestAfter

\* A release: the clock of the mutex takes in what t has told the detector, which is
\* no more than t knows.
LEMMA ModestRelease ==
  ASSUME NoWrap, Order, Base', NEW t \in Tid, NEW m \in Mutex,
         PReleaseInner(t, m) \/ PRelease(t, m), NEW u \in Tid
  PROVE  ModestAfter(u)
<1>1. Base /\ AccessesPast /\ OwnersRun /\ Sync
  BY DEF Order, Sync
<1>2. owner[m] = t /\ Release(t, m) /\ m \in locks
  BY <1>1, TidAssumption DEF PReleaseInner, PRelease, Base, Bookkeeping
<1>3. ReleaseKnown(t, m)
  BY <1>2 DEF Release, ReleaseUnknown
<1>4. /\ t \in threads /\ threads' = threads /\ CanInc(t)
      /\ vc' = [vc EXCEPT ![t] = IncVC(t)]
      /\ lockVC' = [lockVC EXCEPT ![m] = update(lockVC[m], IncVC(t))]
      /\ happensVC' = happensVC
  BY <1>3 DEF ReleaseKnown
<1>5. /\ hb' \in {hb, [hb EXCEPT ![t] = Tick(hb[t], t)]} /\ hbIdent' = hbIdent
      /\ \/ owner' = owner /\ hbLock' = hbLock
         \/ /\ owner' = [owner EXCEPT ![m] = 0]
            /\ hbLock' = [hbLock EXCEPT ![m] = Max2(hbLock[m], hb[t])]
  BY DEF PReleaseInner, PRelease, edgeVars, HBRelease
<1>6. /\ lockVC \in [Mutex -> VC] /\ hbLock \in [Mutex -> HBClock] /\ hb \in [Tid -> HBClock]
      /\ owner \in [Mutex -> Tid \cup {0}] /\ 0 \notin Tid
      /\ \A i \in Identifier : Modest(Recorded(u), happensVC[i][u], hbIdent[i][u])
      /\ Modest(Recorded(u), lockVC[m][u], hb[t][u])
  BY <1>1, <1>2, OrderTypes, TidAssumption DEF Order, ClocksModest, LockOrder, Base, RDTypeOK
<1>7. /\ \A w \in threads' : Modest(Recorded(u), vc'[w][u], hb'[w][u])
      /\ Modest(Recorded(u), IncVC(t)[u], hb[t][u])
      /\ IncVC(t)[u] \in Nat
  BY <1>4, <1>5, ModestTick
<1>8. Modest(Recorded(u), lockVC'[m][u], LockOrder(m, u)')
  <2>1. /\ lockVC[m][u] \in Nat /\ hb[t][u] \in Nat /\ hbLock[m][u] \in Nat
    BY <1>1, EntryTypes
  <2>2. lockVC'[m][u] \in {lockVC[m][u], IncVC(t)[u]}
    BY <1>4, <1>6 DEF update
  <2>3. LockOrder(m, u)' \in {hb'[t][u], Max2(hbLock[m], hb[t])[u]}
    BY <1>2, <1>5, <1>6 DEF LockOrder
  <2>4. /\ hb[t][u] <= hb'[t][u] /\ hb'[t][u] \in Nat
        /\ hb[t][u] <= Max2(hbLock[m], hb[t])[u] /\ Max2(hbLock[m], hb[t])[u] \in Nat
    <3>1. hb'[t][u] \in Nat
      BY DEF Base, RDTypeOK, HBClock
    <3>2. hb[t][u] <= hb'[t][u]
      BY <1>1, <1>5, <2>1, TickAdvances DEF Base
    <3> QED BY <1>6, <2>1, <3>1, <3>2, MaxEntry
  <2>5. hb[t][u] <= LockOrder(m, u)' /\ LockOrder(m, u)' \in Nat
    BY <2>3, <2>4
  <2> QED BY <1>1, <1>6, <1>7, <2>1, <2>2, <2>5, ModestMerged
<1>9. \A n \in Mutex \ {m} : Modest(Recorded(u), lockVC'[n][u], LockOrder(n, u)')
  BY <1>1, <1>4, <1>5, <1>6, ModestLocks
<1> QED BY <1>4, <1>5, <1>6, <1>7, <1>8, <1>9 DEF ModestAfter

LEMMA ModestBefore ==
  ASSUME NoWrap, Order, Base', NEW t \in Tid, NEW i \in Identifier, PBefore(t, i), NEW u \in Tid
  PROVE  ModestAfter(u)
<1>1. Base /\ AccessesPast /\ OwnersRun /\ Sync
  BY DEF Order, Sync
<1>2. /\ t \in threads /\ threads' = threads /\ CanInc(t)
      /\ vc' = [vc EXCEPT ![t] = IncVC(t)]
      /\ happensVC' = [happensVC EXCEPT ![i] =
                         update(@, [EmptyVC EXCEPT ![make_tid(IncId(t))] = IncId(t)])]
      /\ hb' = [hb EXCEPT ![t] = Tick(hb[t], t)]
      /\ hbIdent' = [hbIdent EXCEPT ![i] = Max2(hbIdent[i], hb[t])]
      /\ UNCHANGED <<lockVC, hbLock, owner>>
  BY DEF PBefore, HappensBefore, HBBefore, progVars
<1>3. /\ happensVC \in [Identifier -> [Tid -> Nat]] /\ hbIdent \in [Identifier -> HBClock]
      /\ hb \in [Tid -> HBClock] /\ id \in [Tid -> Nat]
      /\ \A j \in Identifier : Modest(Recorded(u), happensVC[j][u], hbIdent[j][u])
  BY <1>1, OrderTypes DEF Order, ClocksModest, VC, VC_ID
<1>4. /\ \A w \in threads' : Modest(Recorded(u), vc'[w][u], hb'[w][u])
  BY <1>2, ModestTick
<1>5. \A m \in Mutex : Modest(Recorded(u), lockVC'[m][u], LockOrder(m, u)')
  BY <1>1, <1>2, ModestLocks
<1>6. Modest(Recorded(u), happensVC'[i][u], hbIdent'[i][u])
  <2>1. make_tid(IncId(t)) = t /\ IncId(t) \in Nat
    BY <1>1, <1>2, <1>3, IncOwn DEF Base, IncId
  <2>2. happensVC'[i][u] = happensVC[i][u] \/ (u = t /\ happensVC'[i][u] = IncId(t))
    BY <1>2, <1>3, <2>1 DEF update, EmptyVC
  <2>3. /\ hbIdent[i][u] \in Nat /\ hb[t][u] \in Nat /\ Max2(hbIdent[i], hb[t])[u] \in Nat
        /\ hbIdent[i][u] <= Max2(hbIdent[i], hb[t])[u]
        /\ hb[t][u] <= Max2(hbIdent[i], hb[t])[u]
        /\ happensVC[i][u] \in Nat
    BY <1>1, <1>3, EntryTypes, MaxEntry
  <2>4. hbIdent'[i] = Max2(hbIdent[i], hb[t])
    BY <1>2, <1>3
  <2>5. Modest(Recorded(u), happensVC[i][u], Max2(hbIdent[i], hb[t])[u])
    BY <1>1, <1>3, <2>3, ModestMerged
  <2>6. u = t => Modest(Recorded(u), IncId(t), Max2(hbIdent[i], hb[t])[u])
    BY <1>1, <2>1, <2>3, ModestOwn, ModestMerged
  <2> QED BY <2>2, <2>4, <2>5, <2>6
<1>7. \A j \in Identifier \ {i} : Modest(Recorded(u), happensVC'[j][u], hbIdent'[j][u])
  BY <1>2, <1>3
<1> QED BY <1>4, <1>5, <1>6, <1>7 DEF ModestAfter

LEMMA ModestSync ==
  ASSUME NoWrap, Order, Base', Sync
  PROVE  ClocksModest'
<1>0. Base /\ AccessesPast /\ OwnersRun
  BY DEF Order
<1> SUFFICES ASSUME NEW u \in Tid PROVE ModestAfter(u)
  BY <1>0, ModestFromAfter
<1>1. /\ \A t \in threads : Modest(Recorded(u), vc[t][u], hb[t][u])
      /\ \A i \in Identifier : Modest(Recorded(u), happensVC[i][u], hbIdent[i][u])
  BY DEF Order, ClocksModest
<1>2. ASSUME NEW p \in Tid, NEW c \in Tid, PForkRoot(p, c) \/ PForkChild(p, c)
      PROVE  ModestAfter(u)
  BY <1>2, ModestStart
<1>3. ASSUME NEW t \in Tid, NEW m \in Mutex, PAcquire(t, m)
      PROVE  ModestAfter(u)
  BY <1>3, ModestAcquire
<1>4. ASSUME NEW t \in Tid, NEW m \in Mutex, PReleaseInner(t, m) \/ PRelease(t, m)
      PROVE  ModestAfter(u)
  BY <1>4, ModestRelease
<1>5. ASSUME NEW t \in Tid, NEW i \in Identifier, PBefore(t, i)
      PROVE  ModestAfter(u)
  BY <1>5, ModestBefore
<1>6. ASSUME NEW t \in Tid, NEW i \in Identifier, PAfter(t, i)
      PROVE  ModestAfter(u)
  <2>1. /\ t \in threads /\ threads' = threads
        /\ vc' = [vc EXCEPT ![t] = update(vc[t], happensVC[i])]
        /\ hb' = [hb EXCEPT ![t] = Max2(hb[t], hbIdent[i])]
        /\ UNCHANGED <<lockVC, happensVC, hbLock, hbIdent, owner>>
    BY <1>6 DEF PAfter, HappensAfter, HBAfter, progVars
  <2>2. happensVC[i] \in VC /\ hbIdent[i] \in HBClock
    BY <1>0, OrderTypes
  <2>3. \A w \in threads' : Modest(Recorded(u), vc'[w][u], hb'[w][u])
    BY <1>1, <2>1, <2>2, ModestMerge
  <2>4. \A m \in Mutex : Modest(Recorded(u), lockVC'[m][u], LockOrder(m, u)')
    BY <2>1, ModestLocks
  <2> QED BY <1>1, <2>1, <2>3, <2>4 DEF ModestAfter
<1>7. ASSUME UNCHANGED <<threads, vc, hb, lockVC, happensVC, hbLock, hbIdent, owner>>
      PROVE  ModestAfter(u)
  <2>1. \A m \in Mutex : Modest(Recorded(u), lockVC'[m][u], LockOrder(m, u)')
    BY <1>7, ModestLocks
  <2> QED BY <1>1, <1>7, <2>1 DEF ModestAfter
<1>8. ASSUME NEW t \in Tid, NEW m \in Mutex, PAcquireAgain(t, m)
      PROVE  ModestAfter(u)
  BY <1>7, <1>8 DEF PAcquireAgain, threadVars, syncVars, edgeVars
<1>9. ASSUME NEW b \in Block, PAllocate(b)
      PROVE  ModestAfter(u)
  BY <1>7, <1>9 DEF PAllocate, Allocate, threadVars, syncVars, edgeVars
<1> QED BY <1>2, <1>3, <1>4, <1>5, <1>6, <1>8, <1>9 DEF Sync

-----------------------------------------------------------------------------
(* The end of a thread. *)

\* Thread c ends; tvc and thrs are the clocks of both sides after the join, if any.
Ends(c, tvc, thrs) ==
  /\ c \in threads /\ ~Holds(c)
  /\ cleanup(c, tvc) /\ tvc \in [Tid -> VC]
  /\ HBEnd(c, thrs) /\ thrs \in [Tid -> HBClock]
  /\ UNCHANGED <<w_id, r_id, shared_vc, owner>>
  /\ \A t, u \in Tid : hb[t][u] <= thrs[t][u]
  /\ \A u \in Tid \ {c} : thrs[u][u] = hb[u][u]

\* What is left of every table.
LEMMA EndsFacts ==
  ASSUME Base, NEW c, NEW tvc, NEW thrs, Ends(c, tvc, thrs)
  PROVE  /\ c \in Tid /\ threads' = threads \ {c}
         /\ \A u \in Tid \ {c} : id'[u] = id[u]
         /\ \A t, u \in Tid :
              /\ vc'[t][u] = IF t = c \/ u = c THEN 0 ELSE tvc[t][u]
              /\ hb'[t][u] = IF t = c \/ u = c THEN 0 ELSE thrs[t][u]
         /\ \A m \in Mutex, u \in Tid :
              /\ lockVC'[m][u] = IF u = c THEN 0 ELSE lockVC[m][u]
              /\ hbLock'[m][u] = IF u = c THEN 0 ELSE hbLock[m][u]
         /\ \A i \in Identifier, u \in Tid :
              /\ happensVC'[i][u] = IF u = c THEN 0 ELSE happensVC[i][u]
              /\ hbIdent'[i][u] = IF u = c THEN 0 ELSE hbIdent[i][u]
         /\ \A x \in Addr, u \in Tid :
              /\ lastW'[x][u] = IF u = c THEN 0 ELSE lastW[x][u]
              /\ lastR'[x][u] = IF u = c THEN 0 ELSE lastR[x][u]
<1>1. /\ c \in Tid /\ threads' = threads \ {c}
      /\ id' = [id EXCEPT ![c] = 0]
      /\ vc' = [t \in Tid |-> IF t = c THEN EmptyVC ELSE delete_vc(tvc[t], c)]
      /\ lockVC' = [m \in Mutex |-> delete_vc(lockVC[m], c)]
      /\ happensVC' = [i \in Identifier |-> delete_vc(happensVC[i], c)]
  BY OrderTypes DEF Ends, cleanup
<1>2. /\ hb' = [u \in Tid |-> IF u = c THEN Zero ELSE Forget(thrs[u], c)]
      /\ hbLock' = [m \in Mutex |-> Forget(hbLock[m], c)]
      /\ hbIdent' = [i \in Identifier |-> Forget(hbIdent[i], c)]
      /\ lastW' = [x \in Addr |-> Forget(lastW[x], c)]
      /\ lastR' = [x \in Addr |-> Forget(lastR[x], c)]
  BY DEF Ends, HBEnd, ForgetEdges, ForgetAccesses
<1>3. /\ id \in [Tid -> Nat] /\ tvc \in [Tid -> [Tid -> Nat]] /\ thrs \in [Tid -> [Tid -> Nat]]
      /\ lockVC \in [Mutex -> [Tid -> Nat]] /\ happensVC \in [Identifier -> [Tid -> Nat]]
      /\ hbLock \in [Mutex -> [Tid -> Nat]] /\ hbIdent \in [Identifier -> [Tid -> Nat]]
      /\ lastW \in [Addr -> [Tid -> Nat]] /\ lastR \in [Addr -> [Tid -> Nat]]
  BY OrderTypes DEF Ends, VC, VC_ID, HBClock
<1>4. \A t, u \in Tid : /\ vc'[t][u] = IF t = c \/ u = c THEN 0 ELSE tvc[t][u]
                        /\ hb'[t][u] = IF t = c \/ u = c THEN 0 ELSE thrs[t][u]
  BY <1>1, <1>2, <1>3 DEF delete_vc, EmptyVC, Forget, Zero
<1>5. \A m \in Mutex, u \in Tid : /\ lockVC'[m][u] = IF u = c THEN 0 ELSE lockVC[m][u]
                                  /\ hbLock'[m][u] = IF u = c THEN 0 ELSE hbLock[m][u]
  BY <1>1, <1>2, <1>3 DEF delete_vc, Forget
<1>6. \A i \in Identifier, u \in Tid :
        /\ happensVC'[i][u] = IF u = c THEN 0 ELSE happensVC[i][u]
        /\ hbIdent'[i][u] = IF u = c THEN 0 ELSE hbIdent[i][u]
  BY <1>1, <1>2, <1>3 DEF delete_vc, Forget
<1>7. \A x \in Addr, u \in Tid : /\ lastW'[x][u] = IF u = c THEN 0 ELSE lastW[x][u]
                                 /\ lastR'[x][u] = IF u = c THEN 0 ELSE lastR[x][u]
  BY <1>2, <1>3 DEF Forget
<1> QED BY <1>1, <1>3, <1>4, <1>5, <1>6, <1>7

LEMMA ModestEnd ==
  ASSUME Order, NEW c, NEW tvc, NEW thrs, Ends(c, tvc, thrs),
         \A u \in Tid \ {c} : \A t \in threads \ {c} : Modest(Recorded(u), tvc[t][u], thrs[t][u])
  PROVE  ClocksModest'
<1>0. Base /\ AccessesPast /\ OwnersRun
  BY DEF Order
<1>1. c \in Tid /\ threads' = threads \ {c} /\ threads \subseteq Tid
      /\ UNCHANGED <<w_id, r_id, shared_vc, owner>> /\ \A m \in Mutex : owner[m] # c
  BY <1>0, EndsFacts, OrderTypes DEF Ends, Holds
<1>2. \A t, u \in Tid : /\ vc'[t][u] = IF t = c \/ u = c THEN 0 ELSE tvc[t][u]
                        /\ hb'[t][u] = IF t = c \/ u = c THEN 0 ELSE thrs[t][u]
  BY <1>0, EndsFacts
<1>3. \A m \in Mutex, u \in Tid : /\ lockVC'[m][u] = IF u = c THEN 0 ELSE lockVC[m][u]
                                  /\ hbLock'[m][u] = IF u = c THEN 0 ELSE hbLock[m][u]
  BY <1>0, EndsFacts
<1>4. \A i \in Identifier, u \in Tid :
        /\ happensVC'[i][u] = IF u = c THEN 0 ELSE happensVC[i][u]
        /\ hbIdent'[i][u] = IF u = c THEN 0 ELSE hbIdent[i][u]
  BY <1>0, EndsFacts
<1> SUFFICES ASSUME NEW u \in Tid
             PROVE  /\ \A t \in threads' : Modest(Recorded(u)', vc'[t][u], hb'[t][u])
                    /\ \A m \in Mutex : Modest(Recorded(u)', lockVC'[m][u], LockOrder(m, u)')
                    /\ \A i \in Identifier : Modest(Recorded(u)', happensVC'[i][u], hbIdent'[i][u])
  BY DEF ClocksModest, Modest
<1>5. CASE u = c
  <2>1. ASSUME NEW a \in Recorded(u)' PROVE ~(a.epoch < 0)
    <3>1. \E x \in Addr :
            \/ a = [epoch |-> w_id[x], clock |-> lastW'[x][u]]
            \/ \E e \in {r_id[x]} \cup shared_vc[x] : a = [epoch |-> e, clock |-> lastR'[x][u]]
      BY <1>1, <2>1 DEF Recorded
    <3> QED BY <1>0, <3>1, OrderTypes
  <2> QED BY <1>1, <1>2, <1>3, <1>4, <1>5, <2>1 DEF Modest
<1>6. CASE u # c
  <2>1. \A x \in Addr : lastW'[x][u] = lastW[x][u] /\ lastR'[x][u] = lastR[x][u]
    BY <1>0, <1>6, EndsFacts
  <2>2. Recorded(u)' = Recorded(u)
    BY <1>1, <2>1, RecordedSame
  <2>3. \A t \in threads' : Modest(Recorded(u), vc'[t][u], hb'[t][u])
    BY <1>1, <1>2, <1>6
  <2>4. ASSUME NEW m \in Mutex PROVE Modest(Recorded(u), lockVC'[m][u], LockOrder(m, u)')
    <3>1. Modest(Recorded(u), lockVC[m][u], LockOrder(m, u)) /\ lockVC'[m][u] = lockVC[m][u]
      BY <1>3, <1>6 DEF Order, ClocksModest
    <3>2. CASE owner[m] = 0
      BY <1>1, <1>3, <1>6, <3>1, <3>2 DEF LockOrder
    <3>3. CASE owner[m] # 0
      <4>1. owner[m] \in Tid /\ owner[m] # c
        BY <1>0, <1>1, <3>3 DEF OwnersRun
      <4>2. /\ hb'[owner[m]][u] = thrs[owner[m]][u] /\ hb[owner[m]][u] <= thrs[owner[m]][u]
            /\ hb[owner[m]][u] \in Nat /\ thrs[owner[m]][u] \in Nat /\ lockVC[m][u] \in Nat
        BY <1>0, <1>2, <1>6, <4>1, EntryTypes DEF Ends, HBClock
      <4>3. Modest(Recorded(u), lockVC[m][u], thrs[owner[m]][u])
        BY <1>0, <3>1, <3>3, <4>2, ModestMerged DEF LockOrder
      <4> QED BY <1>1, <3>1, <3>3, <4>2, <4>3 DEF LockOrder
    <3> QED BY <3>2, <3>3
  <2>5. \A i \in Identifier : Modest(Recorded(u), happensVC'[i][u], hbIdent'[i][u])
    BY <1>4, <1>6 DEF Order, ClocksModest
  <2> QED BY <2>2, <2>3, <2>4, <2>5
<1> QED BY <1>5, <1>6

\* Its accesses are forgotten, and so are the variables it accessed.
LEMMA OnRecordEnd ==
  ASSUME MissInv, NEW c, NEW tvc, NEW thrs, Ends(c, tvc, thrs)
  PROVE  AllOnRecord'
<1>0. Base
  BY DEF MissInv, Order
<1>1. /\ c \in Tid /\ threads' = threads \ {c} /\ threads \subseteq Tid
      /\ UNCHANGED <<w_id, r_id, shared_vc>>
      /\ \A u \in Tid \ {c} : id'[u] = id[u]
      /\ ended' = ended \cup {x \in Addr : lastW[x][c] + lastR[x][c] > 0}
      /\ early' = [x \in Addr |-> early[x] \ {c}]
      /\ lastW' = [x \in Addr |-> Forget(lastW[x], c)]
  BY <1>0, EndsFacts, OrderTypes DEF Ends, HBEnd, ForgetAccesses, AuditEnd
<1>2. \A u \in Tid \ {c} : hb'[u][u] = hb[u][u]
  BY <1>0, EndsFacts DEF Ends
<1>3. \A x \in Addr, u \in Tid :
        /\ lastW'[x][u] = IF u = c THEN 0 ELSE lastW[x][u]
        /\ lastR'[x][u] = IF u = c THEN 0 ELSE lastR[x][u]
  BY <1>0, EndsFacts
<1> SUFFICES ASSUME NEW x \in Addr, x \notin ended' PROVE OnRecord(x)'
  BY DEF AllOnRecord
<1>4. OnRecord(x) /\ lastW[x][c] = 0 /\ lastR[x][c] = 0
  <2>1. lastW[x][c] \in Nat /\ lastR[x][c] \in Nat /\ ~(lastW[x][c] + lastR[x][c] > 0)
    BY <1>0, <1>1, EntryTypes
  <2>2. lastW[x][c] = 0 /\ lastR[x][c] = 0
    BY <2>1
  <2>3. x \notin ended
    BY <1>1
  <2> QED BY <2>2, <2>3 DEF MissInv, AllOnRecord
<1>5. Reads(x)' = Reads(x)
  BY <1>1 DEF Reads
<1>6. ASSUME NEW e, Running(e, lastR[x]) PROVE Running(e, lastR[x])'
  <2>1. make_tid(e) \in threads /\ make_tid(e) # c /\ make_tid(e) \in Tid
    BY <1>1, <1>4, <1>6 DEF Running
  <2> QED BY <1>1, <1>3, <1>6, <2>1 DEF Running, Reached
<1>7. ASSUME NEW e, Running(e, lastW[x]) PROVE Running(e, lastW[x])'
  <2>1. make_tid(e) \in threads /\ make_tid(e) # c /\ make_tid(e) \in Tid
    BY <1>1, <1>4, <1>7 DEF Running
  <2> QED BY <1>1, <1>3, <1>7, <2>1 DEF Running, Reached
<1>8. ASSUME w_id[x] = VAR_NOT_INIT
      PROVE  lastW'[x] = Zero /\ \A u \in Tid : lastR'[x][u] > 0 => u \in early'[x]
  <2>1. lastW[x] = Zero /\ \A u \in Tid : lastR[x][u] > 0 => u \in early[x]
    BY <1>4, <1>8 DEF OnRecord
  <2>2. lastW'[x] = Zero
    BY <1>1, <2>1 DEF Forget, Zero
  <2> QED BY <1>1, <1>3, <2>1, <2>2
<1>9. ASSUME w_id[x] # VAR_NOT_INIT
      PROVE  \A t \in threads' : w_id[x] = id'[t] => lastW'[x][t] = hb'[t][t]
  BY <1>1, <1>2, <1>3, <1>4, <1>9 DEF OnRecord
<1> QED BY <1>1, <1>4, <1>5, <1>6, <1>7, <1>8, <1>9 DEF OnRecord, Zero

\* No clock gains or loses anything of the threads that run on, but what a join hands
\* over.
LEMMA TrackedEnd ==
  ASSUME MissInv, NEW c, NEW tvc, NEW thrs, Ends(c, tvc, thrs),
         \A x : Tracked(x) => \A t \in Tid \ {c} : Covered(x, thrs[t])
  PROVE  AllTracked'
<1>0. Base
  BY DEF MissInv, Order
<1>1. /\ c \in Tid /\ threads' = threads \ {c} /\ threads \subseteq Tid
      /\ UNCHANGED <<w_id, r_id, shared_vc, found>>
      /\ ended' = ended \cup {x \in Addr : lastW[x][c] + lastR[x][c] > 0}
      /\ early' = [x \in Addr |-> early[x] \ {c}]
  BY <1>0, EndsFacts, OrderTypes DEF Ends, HBEnd, AuditEnd
<1>2. \A x \in Addr, u \in Tid :
        /\ lastW'[x][u] = IF u = c THEN 0 ELSE lastW[x][u]
        /\ lastR'[x][u] = IF u = c THEN 0 ELSE lastR[x][u]
  BY <1>0, EndsFacts
<1>3. \A t, u \in Tid : hb'[t][u] = IF t = c \/ u = c THEN 0 ELSE thrs[t][u]
  BY <1>0, EndsFacts
<1> SUFFICES ASSUME NEW x \in Addr, Tracked(x)' PROVE LastWriteLast(x)'
  BY DEF AllTracked, Tracked
<1>4. Tracked(x) /\ lastW[x][c] = 0 /\ lastR[x][c] = 0
  <2>1. lastW[x][c] \in Nat /\ lastR[x][c] \in Nat
    BY <1>0, <1>1, EntryTypes
  <2> QED BY <1>1, <2>1 DEF Tracked
<1> DEFINE w == make_tid(w_id[x])
<1>5. /\ LastWriteLast(x) /\ w \in threads /\ w \in Tid /\ lastW[x][w] > 0 /\ w # c
      /\ \A e \in Reads(x) : /\ make_tid(e) \in threads /\ make_tid(e) \in Tid
                             /\ lastR[x][make_tid(e)] > 0
  BY <1>4, TrackedFacts DEF OnRecord, Running
<1>6. Reads(x)' = Reads(x)
  BY <1>1 DEF Reads
<1>7. ASSUME NEW h, NEW k \in [Tid -> Nat], Covered(x, h),
             \A u \in Tid : k[u] = IF u = c THEN 0 ELSE h[u]
      PROVE  Covered(x, k)'
  <2> SUFFICES ASSUME lastW'[x][w] <= k[w] PROVE HistoryKnown(x, k)'
    BY <1>1 DEF Covered, WriteKnown
  <2>1. HistoryKnown(x, h)
    BY <1>2, <1>5, <1>7 DEF Covered, WriteKnown
  <2> SUFFICES ASSUME NEW u \in Tid
               PROVE  /\ lastW'[x][u] <= k[u]
                      /\ \/ lastR'[x][u] <= k[u] \/ u \in early'[x]
                         \/ \E e \in Reads(x) : make_tid(e) = u
    BY <1>6 DEF HistoryKnown
  <2>2. CASE u = c
    BY <1>1, <1>2, <1>7, <2>2
  <2>3. CASE u # c
    BY <1>1, <1>2, <1>7, <2>1, <2>3 DEF HistoryKnown
  <2> QED BY <2>2, <2>3
<1>8. /\ hb' \in [Tid -> [Tid -> Nat]] /\ hbLock' \in [Mutex -> [Tid -> Nat]]
      /\ hbIdent' \in [Identifier -> [Tid -> Nat]]
  BY <1>0, <1>1, EndTypes, OrderTypes DEF Ends, HBClock
<1>9. ASSUME NEW t \in Tid PROVE Covered(x, hb[t])'
  <2>1. CASE t = c
    <3>1. lastW'[x][w] > 0 /\ hb'[t][w] = 0 /\ lastW'[x][w] \in Nat
      BY <1>0, <1>2, <1>3, <1>5, <2>1, EntryTypes
    <3>2. ~(lastW'[x][w] <= hb'[t][w])
      BY <3>1
    <3> QED BY <1>1, <3>2 DEF Covered, WriteKnown
  <2>2. CASE t # c
    <3>1. Covered(x, thrs[t])
      BY <1>4, <2>2
    <3>2. \A u \in Tid : hb'[t][u] = IF u = c THEN 0 ELSE thrs[t][u]
      BY <1>3, <2>2
    <3>3. hb'[t] \in [Tid -> Nat]
      BY <1>8
    <3> QED BY <1>7, <3>1, <3>2, <3>3
  <2> QED BY <2>1, <2>2
<1>10. ASSUME NEW m \in Mutex PROVE Covered(x, hbLock[m])'
  <2>1. hbLock'[m] \in [Tid -> Nat] /\ Covered(x, hbLock[m])
    BY <1>5, <1>8 DEF LastWriteLast
  <2>2. \A u \in Tid : hbLock'[m][u] = IF u = c THEN 0 ELSE hbLock[m][u]
    BY <1>0, EndsFacts
  <2> QED BY <1>7, <2>1, <2>2
<1>11. ASSUME NEW i \in Identifier PROVE Covered(x, hbIdent[i])'
  <2>1. hbIdent'[i] \in [Tid -> Nat] /\ Covered(x, hbIdent[i])
    BY <1>5, <1>8 DEF LastWriteLast
  <2>2. \A u \in Tid : hbIdent'[i][u] = IF u = c THEN 0 ELSE hbIdent[i][u]
    BY <1>0, EndsFacts
  <2> QED BY <1>7, <2>1, <2>2
<1>12. ASSUME NEW e \in Reads(x) PROVE WriteKnown(x, hb[make_tid(e)])'
  <2> DEFINE u == make_tid(e)
  <2>1. u \in Tid /\ u # c
    BY <1>4, <1>5
  <2>2. lastW[x][w] <= hb[u][w] /\ hb[u][w] <= thrs[u][w]
    BY <1>5, <2>1 DEF LastWriteLast, WriteKnown, Ends
  <2>3. lastW[x][w] \in Nat /\ hb[u][w] \in Nat /\ thrs[u][w] \in Nat
    BY <1>0, <1>5, <2>1, EntryTypes DEF Ends, HBClock
  <2>4. lastW'[x][w] = lastW[x][w] /\ hb'[u][w] = thrs[u][w]
    BY <1>2, <1>3, <1>5, <2>1
  <2>5. lastW'[x][w] <= hb'[u][w]
    BY <2>2, <2>3, <2>4
  <2> QED BY <1>1, <2>5 DEF WriteKnown
<1> QED BY <1>6, <1>9, <1>10, <1>11, <1>12 DEF LastWriteLast

\* A thread ends by itself, or joined by p, which takes over its clock.
LEMMA FinishEnds ==
  ASSUME NoWrap, MissInv, NEW c \in Tid, PFinish(c)
  PROVE  \E tvc, thrs :
           /\ Ends(c, tvc, thrs)
           /\ \A u \in Tid \ {c} : \A t \in threads \ {c} :
                Modest(Recorded(u), tvc[t][u], thrs[t][u])
           /\ \A x : Tracked(x) => \A t \in Tid \ {c} : Covered(x, thrs[t])
<1>1. Base
  BY DEF MissInv, Order
<1>2. /\ c \in threads /\ ~Holds(c) /\ cleanup(c, vc) /\ HBEnd(c, hb)
      /\ UNCHANGED <<w_id, r_id, shared_vc, owner>>
  BY DEF PFinish, Finish, HBFinish, varVars, progVars
<1>3. \A t, u \in Tid : hb[t][u] <= hb[t][u]
  BY <1>1, EntryTypes
<1>4. Ends(c, vc, hb)
  BY <1>1, <1>2, <1>3, OrderTypes DEF Ends
<1>5. \A u \in Tid \ {c} : \A t \in threads \ {c} : Modest(Recorded(u), vc[t][u], hb[t][u])
  BY DEF MissInv, Order, ClocksModest
<1>6. \A x : Tracked(x) => \A t \in Tid \ {c} : Covered(x, hb[t])
  BY TrackedFacts DEF LastWriteLast
<1> QED BY <1>4, <1>5, <1>6

LEMMA JoinEnds ==
  ASSUME NoWrap, MissInv, NEW p \in Tid, NEW c \in Tid, PJoin(p, c)
  PROVE  \E tvc, thrs :
           /\ Ends(c, tvc, thrs)
           /\ \A u \in Tid \ {c} : \A t \in threads \ {c} :
                Modest(Recorded(u), tvc[t][u], thrs[t][u])
           /\ \A x : Tracked(x) => \A t \in Tid \ {c} : Covered(x, thrs[t])
<1> DEFINE tvc == [vc EXCEPT ![p] = update(vc[p], IncVC(c))]
           thrs == [hb EXCEPT ![p] = Max2(hb[p], hb[c])]
<1>1. Base /\ AccessesPast /\ ClockInv /\ RDTypeOK /\ OwnClockLeads
  BY DEF MissInv, Order, Base
<1>2. /\ p \in threads /\ c \in threads /\ p # c /\ CanInc(c) /\ ~Holds(c)
      /\ cleanup(c, tvc) /\ HBEnd(c, thrs) /\ UNCHANGED <<w_id, r_id, shared_vc, owner>>
  BY DEF PJoin, Join, HBJoin, varVars, progVars
<1>3. /\ vc \in [Tid -> VC] /\ hb \in [Tid -> HBClock] /\ threads \subseteq Tid
      /\ id \in [Tid -> Nat]
  BY <1>1, OrderTypes
<1>4. IncVC(c) \in VC /\ IncVC(c) = [vc[c] EXCEPT ![c] = id[c] + 1]
  BY <1>1, <1>2, IncOwn, IncType DEF ClockInv
<1>5. update(vc[p], IncVC(c)) \in VC
  BY <1>3, <1>4, UpdateType
<1>6. /\ tvc \in [Tid -> VC]
      /\ tvc[p] = update(vc[p], IncVC(c)) /\ \A t \in Tid \ {p} : tvc[t] = vc[t]
      /\ thrs[p] = Max2(hb[p], hb[c]) /\ \A t \in Tid \ {p} : thrs[t] = hb[t]
  BY <1>3, <1>5
<1>7. thrs \in [Tid -> HBClock] /\ \A u \in Tid \ {c} : thrs[u][u] = hb[u][u]
  BY <1>1, <1>2, <1>3, JoinedClocks
<1> HIDE DEF tvc, thrs
<1>8. \A t, u \in Tid : hb[t][u] <= thrs[t][u]
  <2>1. \A t, u \in Tid : hb[t][u] \in Nat
    BY <1>1, EntryTypes
  <2>2. \A u \in Tid : hb[p][u] <= thrs[p][u]
    BY <1>3, <1>6, MaxEntry
  <2>3. \A t \in Tid \ {p}, u \in Tid : hb[t][u] <= thrs[t][u]
    <3> SUFFICES ASSUME NEW t \in Tid \ {p}, NEW u \in Tid PROVE hb[t][u] <= thrs[t][u]
      OBVIOUS
    <3>1. thrs[t] = hb[t] /\ hb[t][u] \in Nat
      BY <1>6, <2>1
    <3> QED BY <3>1
  <2> QED BY <2>2, <2>3
<1>9. Ends(c, tvc, thrs)
  BY <1>2, <1>6, <1>7, <1>8 DEF Ends
<1>10. ASSUME NEW u \in Tid \ {c}, NEW t \in threads \ {c}
       PROVE  Modest(Recorded(u), tvc[t][u], thrs[t][u])
  <2>1. Modest(Recorded(u), vc[t][u], hb[t][u]) /\ Modest(Recorded(u), vc[c][u], hb[c][u])
    BY <1>2 DEF MissInv, Order, ClocksModest
  <2>2. CASE t = p
    <3>1. /\ vc[p][u] \in Nat /\ vc[c][u] \in Nat /\ hb[p][u] \in Nat /\ hb[c][u] \in Nat
          /\ tvc[p][u] \in {vc[p][u], vc[c][u]}
      <4>1. IncVC(c)[u] = vc[c][u]
        BY <1>3, <1>4 DEF VC, VC_ID
      <4> QED BY <1>1, <1>6, <4>1, EntryTypes DEF update
    <3>2. hb[p][u] <= thrs[p][u] /\ hb[c][u] <= thrs[p][u] /\ thrs[p][u] \in Nat
      BY <1>3, <1>6, <1>7, MaxEntry DEF HBClock
    <3> QED BY <1>1, <2>1, <2>2, <3>1, <3>2, ModestMerged
  <2>3. CASE t # p
    BY <1>3, <1>6, <2>1, <2>3
  <2> QED BY <2>2, <2>3
<1>11. ASSUME NEW x, Tracked(x), NEW t \in Tid \ {c} PROVE Covered(x, thrs[t])
  <2>1. x \in Addr /\ make_tid(w_id[x]) \in Tid /\ LastWriteLast(x)
    BY <1>11, TrackedFacts
  <2>2. CASE t = p
    BY <1>1, <1>3, <1>6, <2>1, <2>2, CoveredMerged DEF LastWriteLast
  <2>3. CASE t # p
    BY <1>6, <2>1, <2>3 DEF LastWriteLast
  <2> QED BY <2>2, <2>3
<1> QED BY <1>9, <1>10, <1>11

LEMMA MissEnd ==
  ASSUME NoWrap, MissInv, Base', NEW p \in Tid, NEW c \in Tid, PJoin(p, c) \/ PFinish(c)
  PROVE  AccessesPast' /\ ClocksModest' /\ AllOnRecord' /\ AllTracked' /\ NoMissedRace'
<1>0. Order /\ Base /\ AccessesPast
  BY DEF MissInv, Order
<1>1. PICK tvc, thrs :
        /\ Ends(c, tvc, thrs)
        /\ \A u \in Tid \ {c} : \A t \in threads \ {c} :
             Modest(Recorded(u), tvc[t][u], thrs[t][u])
        /\ \A x : Tracked(x) => \A t \in Tid \ {c} : Covered(x, thrs[t])
  BY FinishEnds, JoinEnds
<1>2. ClocksModest'
  BY <1>0, <1>1, ModestEnd
<1>3. AllOnRecord'
  BY <1>1, OnRecordEnd
<1>4. AllTracked'
  BY <1>1, TrackedEnd
<1>5. AccessesPast'
  <2>1. /\ threads' = threads \ {c} /\ \A u \in Tid \ {c} : hb'[u][u] = hb[u][u]
    BY <1>0, <1>1, EndsFacts DEF Ends
  <2>2. ForgetAccesses(c) /\ early' = [x \in Addr |-> early[x] \ {c}]
    BY <1>1 DEF Ends, HBEnd, AuditEnd
  <2> QED BY <1>0, <2>1, <2>2, PastEnd
<1>6. NoMissedRace'
  BY <1>1 DEF Ends, HBEnd, AuditEnd, NoMissedRace
<1> QED BY <1>2, <1>3, <1>4, <1>5, <1>6

-----------------------------------------------------------------------------
(* An access and the history before it. *)

\* The variables that are not accessed.
LEMMA TrackedElsewhere ==
  ASSUME MissInv, UNCHANGED <<hb, hbLock, hbIdent, ended>>, found \subseteq found',
         NEW y \in Addr, w_id'[y] = w_id[y], Reads(y)' = Reads(y), early'[y] = early[y],
         \A u \in Tid : lastW'[y][u] = lastW[y][u] /\ lastR'[y][u] = lastR[y][u],
         Tracked(y)'
  PROVE  LastWriteLast(y)'
<1>1. Tracked(y)
  BY DEF Tracked
<1>2. LastWriteLast(y) /\ make_tid(w_id[y]) \in Tid
  BY <1>1, TrackedFacts
<1>3. /\ \A t \in Tid : Covered(y, hb[t])'
      /\ \A m \in Mutex : Covered(y, hbLock[m])'
      /\ \A i \in Identifier : Covered(y, hbIdent[i])'
  BY <1>2 DEF LastWriteLast, Covered, WriteKnown, HistoryKnown
<1>4. \A e \in Reads(y) : WriteKnown(y, hb[make_tid(e)])'
  BY <1>2 DEF LastWriteLast, WriteKnown
<1> QED BY <1>3, <1>4 DEF LastWriteLast

LEMMA TrackedWrite ==
  ASSUME NoWrap, MissInv, NEW t \in Tid, NEW x \in Addr, PWrite(t, x)
  PROVE  AllTracked'
<1>0. Base /\ AccessesPast /\ OwnClockLeads
  BY DEF MissInv, Order, Base
<1>1. /\ t \in threads
      /\ UNCHANGED <<hb, hbLock, hbIdent, lastR, early, ended>>
      /\ w_id'[x] = id[t]
      /\ Reads(x)' = {} \/ (w_id[x] = id[t] /\ Reads(x)' = Reads(x))
  BY <1>0, WriteFacts
<1>2. \A y \in Addr, u \in Tid :
        lastW'[y][u] = IF y = x /\ u = t THEN hb[t][t] ELSE lastW[y][u]
  BY <1>0, WriteFacts
<1>3. \A y \in Addr \ {x} : Reads(y)' = Reads(y) /\ w_id'[y] = w_id[y]
  BY <1>0, WriteFacts
<1>4. found \subseteq found'
  BY DEF PWrite, HBWrite, HBAccess
<1> SUFFICES ASSUME NEW y \in Addr, Tracked(y)' PROVE LastWriteLast(y)'
  BY DEF AllTracked, Tracked
<1>5. CASE y # x
  BY <1>1, <1>2, <1>3, <1>4, <1>5, TrackedElsewhere
<1>6. CASE y = x
  <2>1. make_tid(id[t]) = t /\ id[t] # VAR_NOT_INIT
    BY <1>0, <1>1, OwnEpoch
  <2>2. x \notin ended /\ x \notin found'
    BY <1>1, <1>6 DEF Tracked
  <2>3. \A h : h[t] \in Nat /\ h[t] < hb[t][t] => ~(lastW'[x][t] <= h[t])
    BY <1>0, <1>2, EntryTypes
  <2>4. \A v \in Tid \ {t} : ~(lastW'[x][t] <= hb[v][t])
    BY <1>0, <1>1, <2>3, EntryTypes DEF OwnClockLeads, Behind
  <2>5. /\ \A m \in Mutex : ~(lastW'[x][t] <= hbLock[m][t])
        /\ \A i \in Identifier : ~(lastW'[x][t] <= hbIdent[i][t])
    BY <1>0, <1>1, <2>3, EntryTypes DEF OwnClockLeads, Behind
  <2>6. ASSUME NEW u \in Tid
        PROVE  lastW'[x][u] <= hb[t][u] /\ (lastR[x][u] <= hb[t][u] \/ u \in early[x])
    <3>1. CASE u = t
      BY <1>0, <1>2, <3>1, EntryTypes DEF AccessesPast
    <3>2. CASE u # t
      BY <1>2, <2>2, <3>2, WriteCovered
    <3> QED BY <3>1, <3>2
  <2>7. HistoryKnown(x, hb[t])'
    BY <1>1, <2>6 DEF HistoryKnown
  <2>8. \A v \in Tid : Covered(x, hb[v])'
    BY <1>1, <2>1, <2>4, <2>7 DEF Covered, WriteKnown
  <2>9. /\ \A m \in Mutex : Covered(x, hbLock[m])'
        /\ \A i \in Identifier : Covered(x, hbIdent[i])'
    BY <1>1, <2>1, <2>5 DEF Covered, WriteKnown
  <2>10. ASSUME NEW e \in Reads(x)' PROVE WriteKnown(x, hb[make_tid(e)])'
    <3>1. w_id[x] = id[t] /\ e \in Reads(x)
      BY <1>1
    <3>2. Tracked(x)
      BY <1>4, <2>1, <2>2, <3>1 DEF Tracked
    <3>3. LastWriteLast(x) /\ OnRecord(x)
      BY <3>2, TrackedFacts
    <3>4. lastW[x][t] = hb[t][t]
      BY <1>1, <2>1, <3>1, <3>3 DEF OnRecord
    <3>5. lastW[x][t] <= hb[make_tid(e)][t]
      BY <2>1, <3>1, <3>3 DEF LastWriteLast, WriteKnown
    <3>6. lastW'[x][t] <= hb[make_tid(e)][t]
      BY <1>2, <3>4, <3>5
    <3> QED BY <1>1, <2>1, <3>6 DEF WriteKnown
  <2> QED BY <1>6, <2>8, <2>9, <2>10 DEF LastWriteLast
<1> QED BY <1>5, <1>6

LEMMA TrackedRead ==
  ASSUME NoWrap, MissInv, OneReadMode', NEW t \in Tid, NEW x \in Addr, PRead(t, x)
  PROVE  AllTracked'
<1>0. Base /\ AccessesPast /\ OneReadMode
  BY DEF MissInv, Order
<1>1. /\ t \in threads
      /\ UNCHANGED <<hb, hbLock, hbIdent, w_id, lastW, ended>>
  BY <1>0, ReadFacts
<1>2. \A y \in Addr, u \in Tid :
        lastR'[y][u] = IF y = x /\ u = t THEN hb[t][t] ELSE lastR[y][u]
  BY <1>0, ReadFacts
<1>3. /\ \A y \in Addr \ {x} : Reads(y)' = Reads(y) /\ early'[y] = early[y]
      /\ early'[x] \in {early[x] \ {t}, early[x] \cup {t}}
  BY <1>0, ReadFacts
<1>4. /\ id[t] \in Reads(x)'
      /\ \A e \in Reads(x)' : e = id[t] \/ e \in Reads(x)
      /\ \A e \in Reads(x) : make_tid(e) = t \/ e \in Reads(x)'
  BY <1>0, ReadFacts
<1>5. found \subseteq found'
  BY DEF PRead, HBRead, HBAccess
<1> SUFFICES ASSUME NEW y \in Addr, Tracked(y)' PROVE LastWriteLast(y)'
  BY DEF AllTracked, Tracked
<1>6. CASE y # x
  BY <1>1, <1>2, <1>3, <1>5, <1>6, TrackedElsewhere
<1>7. CASE y = x
  <2>1. make_tid(id[t]) = t
    BY <1>0, <1>1, OwnEpoch
  <2>2. x \notin ended /\ x \notin found' /\ Tracked(x)
    BY <1>1, <1>5, <1>7 DEF Tracked
  <2>3. LastWriteLast(x)
    BY <2>2, TrackedFacts
  <2>4. ASSUME NEW h, Covered(x, h), WriteKnown(x, h), NEW u \in Tid
        PROVE  /\ lastW[x][u] <= h[u]
               /\ \/ lastR'[x][u] <= h[u] \/ u \in early'[x]
                  \/ \E e \in Reads(x)' : make_tid(e) = u
    <3>1. HistoryKnown(x, h)
      BY <2>4 DEF Covered
    <3>2. CASE u = t
      BY <1>4, <2>1, <3>1, <3>2 DEF HistoryKnown
    <3>3. CASE u # t
      BY <1>2, <1>3, <1>4, <3>1, <3>3 DEF HistoryKnown
    <3> QED BY <3>2, <3>3
  <2>5. /\ \A v \in Tid : Covered(x, hb[v])'
        /\ \A m \in Mutex : Covered(x, hbLock[m])'
        /\ \A i \in Identifier : Covered(x, hbIdent[i])'
    <3>1. ASSUME NEW v \in Tid PROVE Covered(x, hb[v])'
      BY <1>1, <2>3, <2>4 DEF LastWriteLast, Covered, WriteKnown, HistoryKnown
    <3>2. ASSUME NEW m \in Mutex PROVE Covered(x, hbLock[m])'
      BY <1>1, <2>3, <2>4 DEF LastWriteLast, Covered, WriteKnown, HistoryKnown
    <3>3. ASSUME NEW i \in Identifier PROVE Covered(x, hbIdent[i])'
      BY <1>1, <2>3, <2>4 DEF LastWriteLast, Covered, WriteKnown, HistoryKnown
    <3> QED BY <3>1, <3>2, <3>3
  <2>6. ASSUME NEW e \in Reads(x)' PROVE WriteKnown(x, hb[make_tid(e)])
    <3>1. CASE e = id[t]
      BY <2>1, <2>2, <3>1, ReadCovered DEF Tracked
    <3>2. CASE e \in Reads(x)
      BY <2>3, <3>2 DEF LastWriteLast
    <3> QED BY <1>4, <3>1, <3>2
  <2>7. \A e \in Reads(x)' : WriteKnown(x, hb[make_tid(e)])'
    BY <1>1, <2>6 DEF WriteKnown
  <2> QED BY <1>7, <2>5, <2>7 DEF LastWriteLast
<1> QED BY <1>6, <1>7

LEMMA MissAccess ==
  ASSUME NoWrap, MissInv, OneReadMode', NEW t \in Tid, NEW x \in Addr, PRead(t, x) \/ PWrite(t, x)
  PROVE  AccessesPast' /\ ClocksModest' /\ AllOnRecord' /\ AllTracked' /\ NoMissedRace'
<1>0. Base /\ AccessesPast /\ OneReadMode /\ ClocksModest
  BY DEF MissInv, Order
<1>1. AccessesPast'
  BY <1>0, PastAccess
<1>2. NoMissedRace'
  BY AccessMissesNone
<1>3. CASE PRead(t, x)
  <2>1. /\ t \in threads
        /\ UNCHANGED <<threads, vc, lockVC, happensVC, hb, hbLock, hbIdent, owner>>
    BY <1>0, <1>3, ReadFacts
  <2>2. \A u \in Tid : \A a \in Recorded(u)' :
          a \in Recorded(u) \/ (u = t /\ a.epoch = id[t] /\ a.clock = hb[t][t])
    BY <1>0, <1>3, ReadRecords
  <2>3. ClocksModest'
    BY <1>0, <2>1, <2>2, ModestAccess
  <2> QED BY <1>1, <1>2, <1>3, <2>3, OnRecordRead, TrackedRead
<1>4. CASE PWrite(t, x)
  <2>1. /\ t \in threads
        /\ UNCHANGED <<threads, vc, lockVC, happensVC, hb, hbLock, hbIdent, owner>>
    BY <1>0, <1>4, WriteFacts
  <2>2. \A u \in Tid : \A a \in Recorded(u)' :
          a \in Recorded(u) \/ (u = t /\ a.epoch = id[t] /\ a.clock = hb[t][t])
    BY <1>0, <1>4, WriteRecords
  <2>3. ClocksModest'
    BY <1>0, <2>1, <2>2, ModestAccess
  <2> QED BY <1>1, <1>2, <1>4, <2>3, OnRecordWrite, TrackedWrite
<1> QED BY <1>3, <1>4

-----------------------------------------------------------------------------
(* Freed memory, finalize(), and all steps together. *)

\* Locations that are freed have no history, and nothing changes for the others.
LEMMA MissFree ==
  ASSUME NoWrap, MissInv, NEW b \in Block, PDeallocate(b)
  PROVE  AccessesPast' /\ ClocksModest' /\ AllOnRecord' /\ AllTracked' /\ NoMissedRace'
<1>0. Base /\ AccessesPast /\ ClocksModest
  BY DEF MissInv, Order
<1>1. /\ UNCHANGED <<threads, id, vc, lockVC, happensVC, hb, hbLock, hbIdent, owner>>
      /\ b \in heap /\ Deallocate(b[1]) /\ HBFree(Within(b[1], b[2]))
  BY DEF PDeallocate, Deallocate, HBFree, threadVars, syncVars, edgeVars
<1>2. allocs[b[1]] = b[2] /\ b[2] # NoAlloc
  BY <1>0, <1>1, BlockAssumption DEF Base, SizesKnown, NoAlloc
<1> DEFINE gone == Within(b[1], b[2])
<1>3. /\ w_id' = [y \in Addr |-> IF y \in gone THEN VAR_NOT_INIT ELSE w_id[y]]
      /\ r_id' = [y \in Addr |-> IF y \in gone THEN VAR_NOT_INIT ELSE r_id[y]]
      /\ shared_vc' = [y \in Addr |-> IF y \in gone THEN {} ELSE shared_vc[y]]
      /\ lastW' = [y \in Addr |-> IF y \in gone THEN Zero ELSE lastW[y]]
      /\ lastR' = [y \in Addr |-> IF y \in gone THEN Zero ELSE lastR[y]]
      /\ early' = [y \in Addr |-> IF y \in gone THEN {} ELSE early[y]]
      /\ ended' = ended \ gone /\ found' = found \ gone /\ missed' = {}
  BY <1>1, <1>2 DEF Deallocate, HBFree
<1> HIDE DEF gone
<1>4. \A y \in Addr : y \notin gone =>
        /\ w_id'[y] = w_id[y] /\ Reads(y)' = Reads(y) /\ early'[y] = early[y]
        /\ lastW'[y] = lastW[y] /\ lastR'[y] = lastR[y]
  BY <1>3 DEF Reads
<1>5. \A y \in gone \cap Addr :
        /\ w_id'[y] = VAR_NOT_INIT /\ Reads(y)' = {} /\ early'[y] = {}
        /\ lastW'[y] = Zero /\ lastR'[y] = Zero
  BY <1>3 DEF Reads
<1>6. AccessesPast'
  <2>1. early' \in [Addr -> SUBSET Tid]
    BY <1>0, <1>3 DEF AccessesPast
  <2>2. ASSUME NEW y \in Addr, NEW u \in Tid
        PROVE  /\ lastW'[y][u] <= hb'[u][u] /\ lastR'[y][u] <= hb'[u][u]
               /\ u \notin threads' => lastW'[y][u] = 0 /\ lastR'[y][u] = 0
    <3>1. CASE y \in gone
      BY <1>0, <1>1, <1>5, <3>1, EntryTypes DEF Zero
    <3>2. CASE y \notin gone
      BY <1>0, <1>1, <1>4, <3>2 DEF AccessesPast
    <3> QED BY <3>1, <3>2
  <2> QED BY <2>1, <2>2 DEF AccessesPast
<1>7. ASSUME NEW u \in Tid, NEW a \in Recorded(u)' PROVE a \in Recorded(u)
  <2>1. a.epoch # VAR_NOT_INIT /\ make_tid(a.epoch) = u
    BY <1>7 DEF Recorded
  <2>2. PICK y \in Addr :
          \/ a = [epoch |-> w_id'[y], clock |-> lastW'[y][u]]
          \/ \E e \in {r_id'[y]} \cup shared_vc'[y] : a = [epoch |-> e, clock |-> lastR'[y][u]]
    BY <1>7 DEF Recorded
  <2>3. y \notin gone
    BY <1>3, <2>1, <2>2
  <2>4. /\ w_id'[y] = w_id[y] /\ r_id'[y] = r_id[y] /\ shared_vc'[y] = shared_vc[y]
        /\ lastW'[y] = lastW[y] /\ lastR'[y] = lastR[y]
    BY <1>3, <2>3
  <2> QED BY <2>1, <2>2, <2>4, RecordedMember
<1>8. ClocksModest'
  BY <1>0, <1>1, <1>7 DEF ClocksModest, LockOrder, Modest
<1>9. ASSUME NEW y \in Addr, y \notin ended' PROVE OnRecord(y)'
  <2>1. CASE y \in gone
    BY <1>5, <2>1 DEF OnRecord, Zero
  <2>2. CASE y \notin gone
    <3>1. OnRecord(y)
      BY <1>3, <1>9, <2>2 DEF MissInv, AllOnRecord
    <3>2. /\ w_id'[y] = w_id[y] /\ Reads(y)' = Reads(y) /\ early'[y] = early[y]
          /\ lastW'[y] = lastW[y] /\ lastR'[y] = lastR[y]
      BY <1>4, <2>2
    <3> QED BY <1>1, <3>1, <3>2 DEF OnRecord, Running, Reached, Zero
  <2> QED BY <2>1, <2>2
<1>10. ASSUME NEW y \in Addr, Tracked(y)' PROVE LastWriteLast(y)'
  <2>1. y \notin gone
    BY <1>5, <1>10 DEF Tracked
  <2>2. /\ w_id'[y] = w_id[y] /\ Reads(y)' = Reads(y) /\ early'[y] = early[y]
        /\ lastW'[y] = lastW[y] /\ lastR'[y] = lastR[y]
    BY <1>4, <2>1
  <2>3. Tracked(y)
    BY <1>3, <1>10, <2>1, <2>2 DEF Tracked
  <2>4. LastWriteLast(y)
    BY <2>3, TrackedFacts
  <2>5. /\ \A t \in Tid : Covered(y, hb[t])'
        /\ \A m \in Mutex : Covered(y, hbLock[m])'
        /\ \A i \in Identifier : Covered(y, hbIdent[i])'
    BY <1>1, <2>2, <2>4 DEF LastWriteLast, Covered, WriteKnown, HistoryKnown
  <2>6. \A e \in Reads(y) : WriteKnown(y, hb[make_tid(e)])'
    BY <1>1, <2>2, <2>4 DEF LastWriteLast, WriteKnown
  <2> QED BY <2>2, <2>5, <2>6 DEF LastWriteLast
<1>11. AllOnRecord' /\ AllTracked'
  BY <1>9, <1>10 DEF AllOnRecord, AllTracked, Tracked
<1>12. NoMissedRace'
  BY <1>3 DEF NoMissedRace
<1> QED BY <1>6, <1>8, <1>11, <1>12

LEMMA MissFinalize ==
  ASSUME PFinalize
  PROVE  AccessesPast' /\ ClocksModest' /\ AllOnRecord' /\ AllTracked' /\ NoMissedRace'
<1>1. /\ w_id' = [x \in Addr |-> VAR_NOT_INIT] /\ r_id' = [x \in Addr |-> VAR_NOT_INIT]
      /\ shared_vc' = [x \in Addr |-> {}] /\ threads' = {}
      /\ hb' = [t \in Tid |-> Zero]
      /\ lastW' = [x \in Addr |-> Zero] /\ lastR' = [x \in Addr |-> Zero]
      /\ early' = [x \in Addr |-> {}] /\ missed' = {}
  BY DEF PFinalize, Finalize, HBReset
<1>2. \A u \in Tid : Recorded(u)' = {}
  BY <1>1 DEF Recorded
<1>3. \A x \in Addr : Reads(x)' = {} /\ w_id'[x] = VAR_NOT_INIT
  BY <1>1 DEF Reads
<1>4. AccessesPast'
  BY <1>1 DEF AccessesPast, Zero
<1>5. ClocksModest'
  BY <1>2 DEF ClocksModest, Modest
<1>6. AllOnRecord'
  BY <1>1, <1>3 DEF AllOnRecord, OnRecord, Zero
<1>7. AllTracked'
  BY <1>3 DEF AllTracked, Tracked
<1> QED BY <1>1, <1>4, <1>5, <1>6, <1>7 DEF NoMissedRace

LEMMA MissInit == RDInit => MissInv
<1> SUFFICES ASSUME RDInit PROVE MissInv
  OBVIOUS
<1>1. /\ w_id = [x \in Addr |-> VAR_NOT_INIT] /\ r_id = [x \in Addr |-> VAR_NOT_INIT]
      /\ shared_vc = [x \in Addr |-> {}] /\ threads = {}
      /\ hb = [t \in Tid |-> Zero] /\ owner = [m \in Mutex |-> 0]
      /\ lastW = [x \in Addr |-> Zero] /\ lastR = [x \in Addr |-> Zero]
      /\ early = [x \in Addr |-> {}] /\ missed = {}
  BY DEF RDInit, Init, HBInit
<1>2. \A u \in Tid : Recorded(u) = {}
  BY <1>1 DEF Recorded
<1>3. \A x \in Addr : Reads(x) = {} /\ w_id[x] = VAR_NOT_INIT
  BY <1>1 DEF Reads
<1>4. Base /\ OneReadMode
  BY BaseInit, ModeInit DEF RDInit
<1>5. AccessesPast /\ OwnersRun
  BY <1>1 DEF AccessesPast, OwnersRun, Zero
<1>6. ClocksModest
  BY <1>2 DEF ClocksModest, Modest
<1>7. AllOnRecord
  BY <1>1, <1>3 DEF AllOnRecord, OnRecord, Zero
<1>8. AllTracked
  BY <1>3 DEF AllTracked, Tracked
<1> QED BY <1>1, <1>4, <1>5, <1>6, <1>7, <1>8 DEF MissInv, Order, NoMissedRace

LEMMA MissStutter ==
  ASSUME MissInv, UNCHANGED rdVars
  PROVE  AccessesPast' /\ ClocksModest' /\ AllOnRecord' /\ AllTracked' /\ NoMissedRace'
<1>1. UNCHANGED <<threads, id, vc, lockVC, happensVC, w_id, r_id, shared_vc, owner, hb, hbLock,
                  hbIdent, lastW, lastR, early, ended, found, missed>>
  BY DEF rdVars, ftVars, threadVars, syncVars, varVars, hbVars, edgeVars, accessVars, auditVars,
         progVars
<1>2. \A u \in Tid : Recorded(u)' = Recorded(u)
  BY <1>1, RecordedSame
<1>3. \A x \in Addr : Reads(x)' = Reads(x)
  BY <1>1 DEF Reads
<1>4. AccessesPast'
  BY <1>1 DEF MissInv, Order, AccessesPast
<1>5. ClocksModest'
  BY <1>1, <1>2 DEF MissInv, Order, ClocksModest, LockOrder, Modest
<1>6. AllOnRecord'
  BY <1>1, <1>3 DEF MissInv, AllOnRecord, OnRecord, Running, Reached, Zero
<1>7. AllTracked'
  BY <1>1, <1>3 DEF MissInv, AllTracked, Tracked, LastWriteLast, Covered, WriteKnown, HistoryKnown
<1>8. NoMissedRace'
  BY <1>1 DEF MissInv, NoMissedRace, Late
<1> QED BY <1>4, <1>5, <1>6, <1>7, <1>8

LEMMA MissStep ==
  ASSUME NoWrap, BlocksApart, MissInv, [RDNext]_rdVars
  PROVE  MissInv'
<1>0. Order /\ Base /\ OneReadMode /\ OwnersRun /\ AccessesPast
  BY DEF MissInv, Order
<1>1. Base' /\ OwnersRun'
  BY <1>0, BaseStep, OwnersStep
<1>2. OneReadMode'
  <2>1. TypeOK
    BY <1>0 DEF Base, ClockInv
  <2>2. CASE Next
    BY <1>0, <2>1, <2>2, ModeStep
  <2>3. CASE UNCHANGED varVars
    BY <1>0, <2>3 DEF varVars, OneReadMode, is_read_shared
  <2>4. CASE UNCHANGED rdVars
    BY <2>3, <2>4 DEF rdVars, ftVars
  <2> QED BY <2>2, <2>3, <2>4, DetectorStep
<1> DEFINE Goal == AccessesPast' /\ ClocksModest' /\ AllOnRecord' /\ AllTracked' /\ NoMissedRace'
<1>3. ASSUME UNCHANGED rdVars
      PROVE  Goal
  BY <1>3, MissStutter
<1>4. ASSUME Sync
      PROVE  Goal
  <2>1. NoMissedRace'
    BY <1>0, <1>4, SyncFacts DEF NoMissedRace
  <2> QED BY <1>0, <1>1, <1>4, <2>1, PastSync, ModestSync, OnRecordSync, TrackedSync
<1>5. ASSUME NEW p \in Tid, NEW c \in Tid, PJoin(p, c) \/ PFinish(c)
      PROVE  Goal
  BY <1>1, <1>5, MissEnd
<1>6. ASSUME NEW t \in Tid, NEW x \in Addr, PRead(t, x) \/ PWrite(t, x)
      PROVE  Goal
  BY <1>2, <1>6, MissAccess
<1>7. ASSUME NEW b \in Block, PDeallocate(b)
      PROVE  Goal
  BY <1>7, MissFree
<1>8. Goal
  BY <1>3, <1>4, <1>5, <1>6, <1>7, MissFinalize DEF RDNext, Sync
<1> QED BY <1>1, <1>2, <1>8 DEF MissInv, Order

\* FastTrack misses no race (NoMissedRace): when an access of a running thread is not
\* ordered after an earlier one it conflicts with, a race on that location has been
\* handed to the callback, now or before, unless the earlier access is a read made
\* before the first write (write_initial) or a thread that accessed the location has
\* ended.  Forgetting all but the last write and the reads since (VarState::update)
\* loses no other.  The program may use thread ids again and draw edges with
\* happens_before(); NoWrap keeps a clock within its bits of a VC_ID, BlocksApart keeps
\* deallocate() from erasing the size of the block that follows.
THEOREM MissesNoRace ==
  ASSUME NoWrap, BlocksApart
  PROVE  RDSpec => []NoMissedRace
<1>1. RDInit => MissInv
  BY MissInit
<1>2. MissInv /\ [RDNext]_rdVars => MissInv'
  BY MissStep
<1>3. MissInv => NoMissedRace
  BY DEF MissInv
<1> QED BY <1>1, <1>2, <1>3, PTL DEF RDSpec

=============================================================================
