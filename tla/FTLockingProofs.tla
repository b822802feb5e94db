-------------------------- MODULE FTLockingProofs --------------------------
(***************************************************************************)
(* What holds of the locks of the FastTrack detector for any number of     *)
(* threads and locations.                                                  *)
(***************************************************************************)
EXTENDS FTLocking, TLAPS

USE NoneAssumption, RacyFreeAssumption

-----------------------------------------------------------------------------
(* Who holds which lock. *)

LEMMA LockInit == LInit => LockInv
BY DEF LInit, LockInv, LTypeOK, Holding, Accessing, InRule, HoldsG, HoldsVars

LEMMA LockStep == LockInv /\ [LNext]_lkVars => LockInv'
<1> SUFFICES ASSUME LockInv, [LNext]_lkVars PROVE LockInv'
  OBVIOUS
<1> USE DEF LockInv, LTypeOK, Holding, Accessing, Freeing, InRule, HoldsG, HoldsVars,
            Goto, argVars
<1>1. ASSUME NEW t \in Thread, NEW x \in Addr, NEW n \in 0..2, StartAccess(t, x, n) PROVE LockInv'
  <2>1. LTypeOK'
    BY <1>1 DEF StartAccess
  <2>2. ASSUME NEW u \in Thread PROVE Holding(u)'
    BY <1>1 DEF StartAccess
  <2> QED BY <2>1, <2>2
<1>2. ASSUME NEW t \in Thread, StartSync(t) PROVE LockInv'
  <2>1. LTypeOK'
    BY <1>2 DEF StartSync
  <2>2. ASSUME NEW u \in Thread PROVE Holding(u)'
    BY <1>2 DEF StartSync
  <2> QED BY <2>1, <2>2
<1>3. ASSUME NEW t \in Thread, NEW B \in SUBSET Addr, StartFree(t, B) PROVE LockInv'
  <2>1. LTypeOK'
    BY <1>3 DEF StartFree
  <2>2. ASSUME NEW u \in Thread PROVE Holding(u)'
    BY <1>3 DEF StartFree
  <2> QED BY <2>1, <2>2
<1>4. ASSUME NEW t \in Thread, LockVars(t) PROVE LockInv'
  <2>1. LTypeOK'
    BY <1>4 DEF LockVars
  <2>2. ASSUME NEW u \in Thread PROVE Holding(u)'
    BY <1>4 DEF LockVars
  <2> QED BY <2>1, <2>2
<1>5. ASSUME NEW t \in Thread, Found(t) PROVE LockInv'
  <2>1. LTypeOK'
    BY <1>5 DEF Found, Unlocked
  <2>2. ASSUME NEW u \in Thread PROVE Holding(u)'
    BY <1>5 DEF Found, Unlocked
  <2> QED BY <2>1, <2>2
<1>6. ASSUME NEW t \in Thread, Create(t) PROVE LockInv'
  <2>1. LTypeOK'
    BY <1>6 DEF Create, Unlocked
  <2>2. ASSUME NEW u \in Thread PROVE Holding(u)'
    BY <1>6 DEF Create, Unlocked
  <2> QED BY <2>1, <2>2
<1>7. ASSUME NEW t \in Thread, LockVar(t) PROVE LockInv'
  <2>1. LTypeOK'
    BY <1>7 DEF LockVar
  <2>2. ASSUME NEW u \in Thread PROVE Holding(u)'
    BY <1>7 DEF LockVar
  <2> QED BY <2>1, <2>2
<1>8. ASSUME NEW t \in Thread, RaceFound(t) PROVE LockInv'
  <2>1. LTypeOK'
    BY <1>8 DEF RaceFound
  <2>2. ASSUME NEW u \in Thread PROVE Holding(u)'
    BY <1>8 DEF RaceFound
  <2> QED BY <2>1, <2>2
<1>9. ASSUME NEW t \in Thread, LockReport(t) PROVE LockInv'
  <2>1. LTypeOK'
    BY <1>9 DEF LockReport
  <2>2. ASSUME NEW u \in Thread PROVE Holding(u)'
    BY <1>9 DEF LockReport
  <2> QED BY <2>1, <2>2
<1>10. ASSUME NEW t \in Thread, Report(t) PROVE LockInv'
  <2>1. LTypeOK'
    BY <1>10 DEF Report
  <2>2. ASSUME NEW u \in Thread PROVE Holding(u)'
    BY <1>10 DEF Report
  <2> QED BY <2>1, <2>2
<1>11. ASSUME NEW t \in Thread, EndAccess(t) PROVE LockInv'
  <2>1. LTypeOK'
    BY <1>11 DEF EndAccess
  <2>2. ASSUME NEW u \in Thread PROVE Holding(u)'
    BY <1>11 DEF EndAccess
  <2> QED BY <2>1, <2>2
<1>12. ASSUME NEW t \in Thread, LockSync(t) PROVE LockInv'
  <2>1. LTypeOK'
    BY <1>12 DEF LockSync
  <2>2. ASSUME NEW u \in Thread PROVE Holding(u)'
    BY <1>12 DEF LockSync
  <2> QED BY <2>1, <2>2
<1>13. ASSUME NEW t \in Thread, EndSync(t) PROVE LockInv'
  <2>1. LTypeOK'
    BY <1>13 DEF EndSync
  <2>2. ASSUME NEW u \in Thread PROVE Holding(u)'
    BY <1>13 DEF EndSync
  <2> QED BY <2>1, <2>2
<1>14. ASSUME NEW t \in Thread, LockFree(t) PROVE LockInv'
  <2>1. LTypeOK'
    BY <1>14 DEF LockFree
  <2>2. ASSUME NEW u \in Thread PROVE Holding(u)'
    BY <1>14 DEF LockFree
  <2> QED BY <2>1, <2>2
<1>15. ASSUME NEW t \in Thread, LockErase(t) PROVE LockInv'
  <2>1. LTypeOK'
    BY <1>15 DEF LockErase
  <2>2. ASSUME NEW u \in Thread PROVE Holding(u)'
    BY <1>15 DEF LockErase
  <2> QED BY <2>1, <2>2
<1>16. ASSUME NEW t \in Thread, Erase(t) PROVE LockInv'
  <2>1. LTypeOK'
    BY <1>16 DEF Erase, Unlocked
  <2>2. ASSUME NEW u \in Thread PROVE Holding(u)'
    BY <1>16 DEF Erase, Unlocked
  <2> QED BY <2>1, <2>2
<1>17. ASSUME NEW t \in Thread, EndFree(t) PROVE LockInv'
  <2>1. LTypeOK'
    BY <1>17 DEF EndFree
  <2>2. ASSUME NEW u \in Thread PROVE Holding(u)'
    BY <1>17 DEF EndFree
  <2> QED BY <2>1, <2>2
<1>18. CASE UNCHANGED lkVars
  BY <1>18 DEF lkVars
<1> QED
  <2>1. \A t \in Thread : Access(t) => LockInv'
    BY <1>1, <1>4, <1>5, <1>6, <1>7, <1>8, <1>9, <1>10, <1>11, Zenon DEF Access
  <2>2. \A t \in Thread : Sync(t) => LockInv'
    BY <1>2, <1>12, <1>13, Zenon DEF Sync
  <2>3. \A t \in Thread : Free(t) => LockInv'
    BY <1>3, <1>14, <1>15, <1>16, <1>17, Zenon DEF Free
  <2> QED BY <1>18, <2>1, <2>2, <2>3, Zenon DEF LNext

\* Where the holder of a lock somebody waits for can be.
LEMMA HolderAt ==
  ASSUME LockInv, NEW t \in Thread, NEW u \in Thread, WaitsFor(t, u)
  PROVE  \/ pc[t] = "lock" /\ pc[u] \in InRule
         \/ pc[t] \in WaitsG /\ pc[u] \in HoldsG
         \/ pc[t] \in {"find", "free"} /\ pc[u] \in HoldsVars
BY DEF WaitsFor, LockInv, LTypeOK, Holding, InRule

LEMMA NoCycle ==
  ASSUME LockInv
  PROVE  NoWaitCycle
<1> SUFFICES ASSUME NEW S \in SUBSET Thread, S # {},
                    \A t \in S : \E u \in S : WaitsFor(t, u)
             PROVE  FALSE
  BY DEF NoWaitCycle
<1> USE DEF InRule, HoldsG, HoldsVars, WaitsG
<1>1. \A t \in S : pc[t] \notin HoldsVars
  BY HolderAt
<1>2. \A t \in S : pc[t] \notin {"find", "free"}
  BY <1>1, HolderAt
<1>3. \A t \in S : pc[t] \notin HoldsG
  BY <1>1, <1>2, HolderAt
<1>4. \A t \in S : pc[t] \notin WaitsG
  BY <1>3, HolderAt
<1>5. \A t \in S : pc[t] # "lock"
  BY <1>3, <1>4, HolderAt
<1> QED
  BY <1>2, <1>4, <1>5, HolderAt

\* The calls of any number of threads never wait in a circle, whatever the
\* program does: holders of a VarState wait for g_lock only, holders of g_lock
\* for vars_spl only, and holders of vars_spl for nothing.
THEOREM NoDeadlock == LSpec => []NoWaitCycle
<1>1. LockInv => NoWaitCycle
  BY NoCycle
<1> QED
  BY <1>1, LockInit, LockStep, PTL DEF LSpec

-----------------------------------------------------------------------------
(* Accesses and the table of variables. *)

LEMMA PtrInit == LInit => PtrInv
BY LockInit DEF LInit, PtrInv, NoDanglingVar

LEMMA PtrStep ==
  ASSUME ~RacyFree
  PROVE  PtrInv /\ [LNext]_lkVars => PtrInv'
<1> SUFFICES ASSUME PtrInv, [LNext]_lkVars PROVE PtrInv'
  OBVIOUS
<1> DEFINE Apart == \A t, u \in Thread : addr[u] \notin todo[t]
<1>1. LockInv /\ LockInv' /\ Apart /\ NoDanglingVar
  BY LockStep DEF PtrInv
<1>2. LTypeOK /\ \A t \in Thread : Holding(t)
  BY <1>1 DEF LockInv
<1>3. ASSUME NEW t \in Thread, NEW x \in Addr, NEW n \in 0..2, StartAccess(t, x, n)
      PROVE  Apart' /\ NoDanglingVar'
  BY <1>1, <1>2, <1>3 DEF StartAccess, NoDanglingVar, LTypeOK, Holding, InRule
<1>4. ASSUME NEW t \in Thread, NEW B \in SUBSET Addr, StartFree(t, B)
      PROVE  Apart' /\ NoDanglingVar'
  BY <1>1, <1>2, <1>4 DEF StartFree, NoDanglingVar, LTypeOK, argVars
<1>5. ASSUME NEW t \in Thread, Found(t) PROVE Apart' /\ NoDanglingVar'
  BY <1>1, <1>2, <1>5 DEF Found, NoDanglingVar, LTypeOK, argVars
<1>6. ASSUME NEW t \in Thread, Create(t) PROVE Apart' /\ NoDanglingVar'
  <2>1. PICK o \in Obj : /\ vars' = [vars EXCEPT ![addr[t]] = o]
                         /\ ptr' = [ptr EXCEPT ![t] = o]
    BY <1>6 DEF Create
  <2>2. Apart' /\ addr' = addr /\ vars[addr[t]] = None /\ addr[t] \in Addr
    BY <1>1, <1>2, <1>6 DEF Create, argVars, LTypeOK, Holding, Accessing
  <2>3. ASSUME NEW u \in Thread, ptr'[u] # None PROVE vars'[addr[u]] = ptr'[u]
    BY <1>1, <1>2, <2>1, <2>2, <2>3 DEF NoDanglingVar, LTypeOK
  <2> QED BY <2>2, <2>3 DEF NoDanglingVar
<1>7. ASSUME NEW t \in Thread, EndAccess(t) PROVE Apart' /\ NoDanglingVar'
  BY <1>1, <1>2, <1>7 DEF EndAccess, NoDanglingVar, LTypeOK
<1>8. ASSUME NEW t \in Thread, Erase(t) PROVE Apart' /\ NoDanglingVar'
  <2>1. PICK x \in todo[t] : /\ vars' = [vars EXCEPT ![x] = None]
                             /\ todo' = [todo EXCEPT ![t] = @ \ {x}]
    BY <1>8 DEF Erase
  <2>2. addr' = addr /\ ptr' = ptr
    BY <1>8 DEF Erase, argVars
  <2> QED BY <1>1, <1>2, <2>1, <2>2 DEF NoDanglingVar, LTypeOK
<1>9. ASSUME UNCHANGED <<addr, ptr, todo, vars>> PROVE Apart' /\ NoDanglingVar'
  BY <1>1, <1>9 DEF NoDanglingVar
<1>10. Apart' /\ NoDanglingVar'
  <2> HIDE DEF Apart
  <2> USE DEF argVars
  <2>1. \A t \in Thread : Access(t) => Apart' /\ NoDanglingVar'
    BY <1>3, <1>5, <1>6, <1>7, <1>9
       DEF Access, LockVars, LockVar, RaceFound, LockReport, Report
  <2>2. \A t \in Thread : Sync(t) => Apart' /\ NoDanglingVar'
    BY <1>9 DEF Sync, StartSync, LockSync, EndSync
  <2>3. \A t \in Thread : Free(t) => Apart' /\ NoDanglingVar'
    BY <1>4, <1>8, <1>9 DEF Free, LockFree, LockErase, EndFree
  <2>4. CASE UNCHANGED lkVars
    BY <1>9, <2>4 DEF lkVars
  <2> QED BY <2>1, <2>2, <2>3, <2>4 DEF LNext
<1> QED
  BY <1>1, <1>10 DEF PtrInv

LEMMA OneAtATime ==
  ASSUME PtrInv
  PROVE  Serialised
<1> SUFFICES ASSUME NEW t \in Thread, NEW u \in Thread, pc[t] \in InRule,
                    pc[u] \in InRule, addr[t] = addr[u]
             PROVE  t = u
  BY DEF Serialised
<1>1. LTypeOK /\ Holding(t) /\ Holding(u) /\ NoDanglingVar
  BY DEF PtrInv, LockInv
<1>2. ptr[t] # None /\ ptr[t] = ptr[u] /\ ptr[t] \in Obj
  BY <1>1 DEF Holding, NoDanglingVar, LTypeOK
<1> QED
  BY <1>1, <1>2 DEF Holding

\* As long as the program does not access what it is freeing, the accesses to
\* a location are serialised, by any number of threads: the calls of read() and
\* write() are atomic, as FastTrack.tla takes them to be.
THEOREM AccessesSerialised ==
  ASSUME ~RacyFree
  PROVE  LSpec => []Serialised
<1>1. PtrInv => Serialised
  BY OneAtATime
<1> QED
  BY <1>1, PtrInit, PtrStep, PTL DEF LSpec

\* Under the same condition no access ever holds a pointer to a VarState that
\* deallocate() has destroyed.
THEOREM NoUseAfterErase ==
  ASSUME ~RacyFree
  PROVE  LSpec => []NoDanglingVar
<1>1. PtrInv => NoDanglingVar
  BY DEF PtrInv
<1> QED
  BY <1>1, PtrInit, PtrStep, PTL DEF LSpec

\* Every lock is free or held by a thread, every pointer is to a VarState, and an
\* access never counts its reports below zero.
THEOREM LTypeCorrect == LSpec => []LTypeOK
<1>1. LockInv => LTypeOK
  BY DEF LockInv
<1> QED
  BY <1>1, LockInit, LockStep, PTL DEF LSpec

=============================================================================
