------------------------ MODULE ThreadTrackerProofs ------------------------
(***************************************************************************)
(* Proofs about ThreadTracker: its type invariant, that a pending access   *)
(* is new and belongs to the function on top of the shadow stack, that     *)
(* nothing is recorded in an excluded region, that tracking resumes, and   *)
(* that the detector's depot follows the shadow stack.                     *)
(***************************************************************************)
EXTENDS ThreadTracker, TLAPS, WellFoundedInduction

\* A non-empty set of indices up to n has a largest one.
LEMMA LargestIndex ==
  ASSUME NEW n \in Nat, NEW S \in SUBSET (1..n), S # {}
  PROVE  Max(S) \in S /\ \A i \in S : Max(S) >= i
<1> DEFINE T == {n - i : i \in S}
<1>1. T \subseteq Nat /\ T # {}
  <2>1. \A i \in S : n - i \in Nat
    OBVIOUS
  <2>2. PICK i \in S : TRUE
    OBVIOUS
  <2>3. n - i \in T
    OBVIOUS
  <2> QED BY <2>1, <2>3
<1>2. PICK x \in T : \A y \in T : ~(<<y, x>> \in OpToRel(<, Nat))
  <2> HIDE DEF T
  <2> QED BY <1>1, NatLessThanWellFounded, WFMin
<1>3. PICK m \in S : x = n - m
  OBVIOUS
<1>4. \A i \in S : m >= i
  <2> SUFFICES ASSUME NEW i \in S PROVE m >= i
    OBVIOUS
  <2>1. n - i \in T
    OBVIOUS
  <2>2. ~(<<n - i, x>> \in OpToRel(<, Nat))
    BY <1>2, <2>1
  <2>3. ~(n - i < x)
    BY <2>2, <1>1, <2>1 DEF OpToRel
  <2> QED BY <2>3, <1>3
<1> QED BY <1>4 DEF Max

-----------------------------------------------------------------------------
(* The inductive invariant. *)

\* What the pointers can be: before the thread is excluded only empty buffers are
\* set aside, and only a second disable() in a row sets Null aside.
StoredPtr ==
  /\ ~opened => buf_ptr_stored \in {0, Null}
  /\ ~doubled => buf_ptr_stored # Null

\* Every region the program is in is counted.
RegionsCounted == regions <= event_cnt

TTInv ==
  /\ TTTypeOK
  /\ StoredPtr
  /\ RegionsCounted
  /\ DeliveredOnce
  /\ ExcludedNotRecorded
  /\ TrackedAgain
  /\ DepotFollows
  /\ ReportedStack

\* A sampling period is at least one call.
LEMMA Periods ==
  ASSUME sampling_rate \in Rates
  PROVE  delta \in Nat \ {0} /\ min_period \in Nat \ {0} /\ max_period \in Nat \ {0}
<1>1. sampling_rate \in Nat \ {0}
  BY RatesAssumption
<1>2. delta \in Nat \ {0}
  <2>1. CASE sampling_rate < 10
    BY <2>1 DEF delta
  <2>2. CASE ~(sampling_rate < 10)
    <3>1. sampling_rate \div 10 \in Nat \ {0}
      BY <1>1, <2>2
    <3> QED BY <2>2, <3>1 DEF delta
  <2> QED BY <2>1, <2>2
<1> QED BY <1>1, <1>2 DEF min_period, max_period

\* event_thread_init() establishes the invariant.
LEMMA InitHolds == TTInit => TTInv
<1> SUFFICES ASSUME TTInit PROVE TTInv
  OBVIOUS
<1> USE BufSizeAssumption, MaxStackAssumption, RatesAssumption, NullAssumption
<1>1. NoRef \in MemRefs
  BY DEF NoRef, MemRefs
<1>2. sampling_pos \in 1..sampling_rate + delta
  <2>1. sampling_rate \in Rates /\ sampling_pos = sampling_rate
    BY DEF TTInit
  <2>2. delta \in Nat
    BY <2>1, Periods
  <2> QED BY <2>1, <2>2
<1>3. TTTypeOK
  <2>1. sampling_rate \in Rates /\ master \in BOOLEAN /\ detector_data \in BOOLEAN
    BY DEF TTInit
  <2>2. buf_ptr \in Ptr /\ buf_ptr_stored \in Ptr /\ event_cnt \in Nat
    BY DEF TTInit, Ptr
  <2>3. mem_buf \in [1..BufSize -> MemRefs]
    BY <1>1 DEF TTInit
  <2>4. stack \in Seq(Site) /\ Len(stack) <= MaxStack /\ _ce \in Seq(Site)
        /\ calls \in Seq(Site) /\ regions \in Nat /\ early \in 0..regions
    BY DEF TTInit
  <2>5. unsampled \in BOOLEAN /\ opened \in BOOLEAN /\ doubled \in BOOLEAN
        /\ lost \in BOOLEAN /\ ended \in BOOLEAN
    BY DEF TTInit
  <2> QED BY <1>2, <2>1, <2>2, <2>3, <2>4, <2>5 DEF TTTypeOK
<1>4. StoredPtr /\ RegionsCounted /\ DepotFollows
  BY DEF TTInit, StoredPtr, RegionsCounted, DepotFollows
<1>5. DeliveredOnce /\ ExcludedNotRecorded /\ TrackedAgain
  BY DEF TTInit, DeliveredOnce, ExcludedNotRecorded, TrackedAgain, is_enabled
<1>6. ReportedStack
  BY DEF TTInit, ReportedStack
<1> QED BY <1>3, <1>4, <1>5, <1>6 DEF TTInv

\* analyze_access() empties the buffer of an enabled tracker and leaves a disabled
\* one disabled, unless it is the first event of the thread.
LEMMA FlushedPtr ==
  ASSUME TTInv
  PROVE  /\ Emptied \in {0, Null}
         /\ is_enabled => Emptied = 0
         /\ detector_data /\ ~is_enabled => Emptied = Null
BY NullAssumption DEF Emptied, TTInv, TTTypeOK

\* What analyze_access() hands over was made in the function it is reported in.
LEMMA FlushedAccesses ==
  ASSUME TTInv, analyze_access, UNCHANGED <<opened, regions>>
  PROVE  /\ mem_buf' \in [1..BufSize -> MemRefs]
         /\ detector_data' = TRUE
         /\ early' \in 0..regions
         /\ early' = IF detector_data THEN early ELSE regions
         /\ ReportedStack'
<1> USE BufSizeAssumption, NullAssumption DEF TTInv, TTTypeOK
<1>1. Handed \subseteq 1..BufSize /\ (is_enabled => Handed \subseteq 1..buf_ptr)
  BY DEF Handed, is_enabled, Ptr
<1>2. NoRef \in MemRefs
  BY DEF NoRef, MemRefs
<1>3. \A i \in 1..BufSize : [mem_buf[i] EXCEPT !.fresh = FALSE] \in MemRefs
  BY DEF MemRefs
<1>4. mem_buf' \in [1..BufSize -> MemRefs]
  BY <1>2, <1>3 DEF analyze_access
<1>5. /\ detector_data' = TRUE
      /\ early' \in 0..regions
      /\ early' = IF detector_data THEN early ELSE regions
  BY DEF analyze_access
<1>6. ReportedStack'
  <2> SUFFICES ASSUME ~opened, NEW x \in Addr, _read_write'[x] # Null
               PROVE  _read_write'[x].at = _read_write'[x].made
    BY DEF ReportedStack
  <2>1. CASE LastOf(x) = {}
    BY <2>1 DEF analyze_access, ReportedStack
  <2>2. CASE LastOf(x) # {}
    <3>1. LastOf(x) \in SUBSET (1..BufSize)
      BY <1>1 DEF LastOf
    <3>2. Max(LastOf(x)) \in Handed
      BY <2>2, <3>1, LargestIndex DEF LastOf
    <3>3. is_enabled /\ Max(LastOf(x)) \in 1..buf_ptr
      BY <3>2, <1>1 DEF Handed
    <3>4. mem_buf[Max(LastOf(x))].made = stack
      BY <3>3 DEF DeliveredOnce
    <3> QED BY <2>2, <3>4 DEF analyze_access, DepotFollows
  <2> QED BY <2>1, <2>2
<1> QED BY <1>4, <1>5, <1>6

\* on_func_ret() keeps the frames below the one it finds.
LEMMA FramesBelow ==
  ASSUME TTInv, NEW c
  PROVE  Kept(c) \in 0..Len(stack)
<1> DEFINE found == {i \in DOMAIN stack : stack[i] = c}
<1>1. Len(stack) \in Nat /\ found \in SUBSET (1..Len(stack))
  BY DEF TTInv, TTTypeOK
<1>2. CASE found = {}
  BY <1>1, <1>2 DEF Kept
<1>3. CASE found # {}
  <2>1. Max(found) \in 1..Len(stack)
    <3> HIDE DEF found
    <3> QED BY <1>1, <1>3, LargestIndex
  <2>2. Kept(c) = Max(found) - 1
    BY <1>3 DEF Kept
  <2> QED BY <1>1, <2>1, <2>2
<1> QED BY <1>2, <1>3

-----------------------------------------------------------------------------
(* Every step keeps the invariant. *)

\* Recording an access keeps the invariant.
LEMMA MemRefKeeps == ASSUME TTInv, NEW x \in Addr, MemRef(x) PROVE TTInv'
<1> USE BufSizeAssumption, NullAssumption
<1>1. buf_ptr \in 0..BufSize - 1 /\ buf_ptr' = buf_ptr + 1 /\ buf_ptr' \in Ptr
  BY DEF MemRef, Running, is_enabled, TTInv, TTTypeOK, Ptr
<1> DEFINE ref == [addr |-> x, made |-> stack, fresh |-> TRUE]
<1>2. ref \in MemRefs
  BY DEF MemRefs, TTInv, TTTypeOK
<1>3. mem_buf' = [mem_buf EXCEPT ![buf_ptr + 1] = ref]
  BY DEF MemRef
<1> HIDE DEF ref
<1>4. TTTypeOK'
  <2>1. mem_buf' \in [1..BufSize -> MemRefs]
    BY <1>1, <1>2, <1>3 DEF TTInv, TTTypeOK
  <2>2. delta' = delta
    BY DEF MemRef, params, delta
  <2> QED BY <1>1, <2>1, <2>2
          DEF TTInv, TTTypeOK, MemRef, params, sampleVars, stackVars, regionVars
<1>5. (StoredPtr /\ RegionsCounted /\ DepotFollows)'
  BY DEF TTInv, MemRef, StoredPtr, RegionsCounted, DepotFollows, stackVars, regionVars
<1>6. DeliveredOnce'
  <2> SUFFICES ASSUME NEW i \in 1..buf_ptr', ~(opened /\ Reachable(i))
               PROVE  mem_buf'[i].fresh /\ mem_buf'[i].made = stack
    BY DEF DeliveredOnce, MemRef, stackVars, regionVars, Reachable
  <2>1. CASE i = buf_ptr + 1
    BY <2>1, <1>1, <1>3 DEF TTInv, TTTypeOK, ref
  <2>2. CASE i # buf_ptr + 1
    <3>1. i \in 1..buf_ptr /\ mem_buf'[i] = mem_buf[i]
      BY <2>2, <1>1, <1>3 DEF TTInv, TTTypeOK
    <3> QED BY <3>1 DEF TTInv, DeliveredOnce, MemRef
  <2> QED BY <2>1, <2>2
<1>7. (ExcludedNotRecorded /\ TrackedAgain)'
  BY <1>1 DEF TTInv, MemRef, ExcludedNotRecorded, TrackedAgain, is_enabled, regionVars
<1>8. ReportedStack'
  BY DEF TTInv, MemRef, ReportedStack, regionVars
<1> QED BY <1>4, <1>5, <1>6, <1>7, <1>8 DEF TTInv

\* A step that flushes, sets the pointer to where analyze_access() leaves it and
\* changes the shadow stack and the depot alike.
LEMMA FlushKeeps ==
  ASSUME TTInv, analyze_access, buf_ptr' = Emptied,
         stack' \in Seq(Site), Len(stack') <= MaxStack, _ce' = stack',
         calls' \in Seq(Site), lost' \in BOOLEAN, ended' \in BOOLEAN,
         UNCHANGED <<params, buf_ptr_stored, sampleVars, regionVars, doubled>>
  PROVE  TTInv'
<1> USE BufSizeAssumption, NullAssumption
<1>1. UNCHANGED <<opened, regions, event_cnt, unsampled, sampling_pos, sampling_rate, master>>
  BY DEF regionVars, sampleVars, params
<1>2. /\ mem_buf' \in [1..BufSize -> MemRefs]
      /\ detector_data' = TRUE
      /\ early' \in 0..regions
      /\ early' = IF detector_data THEN early ELSE regions
      /\ ReportedStack'
  BY <1>1, FlushedAccesses
<1>3. /\ buf_ptr' \in {0, Null}
      /\ is_enabled => buf_ptr' = 0
      /\ detector_data /\ ~is_enabled => buf_ptr' = Null
  BY FlushedPtr
<1>4. TTTypeOK'
  <2>1. delta' = delta
    BY <1>1 DEF delta
  <2>2. buf_ptr' \in Ptr
    BY <1>3 DEF Ptr
  <2> QED BY <1>1, <1>2, <2>1, <2>2 DEF TTInv, TTTypeOK, Ptr
<1>5. (StoredPtr /\ RegionsCounted /\ DepotFollows)'
  BY <1>1 DEF TTInv, StoredPtr, RegionsCounted, DepotFollows
<1>6. DeliveredOnce'
  BY <1>3 DEF DeliveredOnce, is_enabled
<1>7. ExcludedNotRecorded'
  BY <1>1, <1>2, <1>3 DEF TTInv, TTTypeOK, ExcludedNotRecorded, is_enabled
<1>8. TrackedAgain'
  BY <1>1, <1>3 DEF TTInv, TrackedAgain, is_enabled
<1> QED BY <1>2, <1>4, <1>5, <1>6, <1>7, <1>8 DEF TTInv

\* on_func_ret() keeps it: as many func_exit() as frames popped.
LEMMA FuncRetKeeps == ASSUME TTInv, OnFuncRet PROVE TTInv'
<1> DEFINE k == Kept(calls[Len(calls)])
<1>1. k \in 0..Len(stack) /\ Len(stack) \in Nat
  BY FramesBelow DEF TTInv, TTTypeOK
<1>2. stack' = SubSeq(stack, 1, k) /\ _ce' = SubSeq(_ce, 1, Len(_ce) - (Len(stack) - k))
  BY DEF OnFuncRet, pop_until
<1> HIDE DEF k
<1>3. _ce' = stack'
  BY <1>1, <1>2 DEF TTInv, DepotFollows
<1>4. stack' \in Seq(Site) /\ Len(stack') <= MaxStack
  BY <1>1, <1>2, MaxStackAssumption DEF TTInv, TTTypeOK
<1>5. calls' \in Seq(Site)
  BY DEF OnFuncRet, TTInv, TTTypeOK
<1>6. lost' \in BOOLEAN /\ ended' \in BOOLEAN
  BY DEF OnFuncRet, TTInv, TTTypeOK
<1> QED BY <1>3, <1>4, <1>5, <1>6, FlushKeeps DEF OnFuncRet

\* on_func_call(): a call that is not sampled disables, a sampled one outside every
\* region enables, and the frame is pushed.
LEMMA FuncCallKeeps == ASSUME TTInv, NEW c \in Site, OnFuncCall(c) PROVE TTInv'
<1> USE BufSizeAssumption, NullAssumption
<1>1. UNCHANGED <<opened, regions, event_cnt, sampling_rate, master, ended>>
  BY DEF OnFuncCall, regionVars, params
<1>2. /\ mem_buf' \in [1..BufSize -> MemRefs]
      /\ detector_data' = TRUE
      /\ early' \in 0..regions
      /\ early' = IF detector_data THEN early ELSE regions
      /\ ReportedStack'
  BY <1>1, FlushedAccesses DEF OnFuncCall
<1>3. /\ Emptied \in {0, Null}
      /\ is_enabled => Emptied = 0
      /\ detector_data /\ ~is_enabled => Emptied = Null
  BY FlushedPtr
<1>4. /\ stack' \in Seq(Site) /\ Len(stack') <= MaxStack
      /\ _ce' = stack' /\ lost' \in BOOLEAN
  <2>1. CASE Len(stack) >= MaxStack
    BY <2>1 DEF OnFuncCall, push, stackVars, TTInv, TTTypeOK, DepotFollows
  <2>2. CASE ~(Len(stack) >= MaxStack)
    <3>1. stack' = Append(stack, c) /\ _ce' = Append(_ce, c) /\ lost' = lost
      BY <2>2 DEF OnFuncCall, push
    <3>2. stack \in Seq(Site) /\ _ce = stack /\ lost \in BOOLEAN
      BY DEF TTInv, TTTypeOK, DepotFollows
    <3>3. stack' \in Seq(Site) /\ Len(stack') = Len(stack) + 1
      BY <3>1, <3>2
    <3>4. Len(stack) \in Nat
      BY <3>2
    <3>5. Len(stack') <= MaxStack
      BY <2>2, <3>3, <3>4, MaxStackAssumption
    <3> QED BY <3>1, <3>2, <3>3, <3>5
  <2> QED BY <2>1, <2>2
<1>5. calls' \in Seq(Site)
  BY DEF OnFuncCall, TTInv, TTTypeOK
<1>6. delta' = delta /\ delta \in Nat \ {0} /\ min_period \in Nat \ {0} /\ max_period = sampling_rate + delta
  BY <1>1, Periods DEF delta, max_period, TTInv, TTTypeOK
<1>7. sampling_pos' \in 1..(sampling_rate + delta)
  <2>1. CASE skip_ref
    BY <2>1, <1>6, RatesAssumption DEF skip_ref, TTInv, TTTypeOK
  <2>2. CASE sample_ref
    BY <2>2, <1>6, RatesAssumption DEF sample_ref, TTInv, TTTypeOK
  <2> QED BY <2>1, <2>2 DEF OnFuncCall, switch_sampling
<1>8. \/ /\ buf_ptr_stored' = Emptied /\ buf_ptr' = Null /\ unsampled' = TRUE
         /\ doubled' = (doubled \/ Emptied = Null)
      \/ /\ unsampled' = FALSE /\ UNCHANGED <<buf_ptr_stored, doubled>>
         /\ IF event_cnt = 0 THEN buf_ptr' = buf_ptr_stored ELSE buf_ptr' = Emptied
  BY DEF OnFuncCall, switch_sampling, disable, enable
<1>9. TTTypeOK'
  <2>1. buf_ptr' \in Ptr /\ buf_ptr_stored' \in Ptr
    BY <1>8, <1>3 DEF Ptr, TTInv, TTTypeOK
  <2>2. unsampled' \in BOOLEAN /\ doubled' \in BOOLEAN
    BY <1>8 DEF TTInv, TTTypeOK
  <2> QED BY <1>1, <1>2, <1>4, <1>5, <1>6, <1>7, <2>1, <2>2 DEF TTInv, TTTypeOK
<1>10. StoredPtr'
  BY <1>1, <1>3, <1>8 DEF TTInv, StoredPtr
<1>11. (RegionsCounted /\ DepotFollows)'
  BY <1>1, <1>4 DEF TTInv, RegionsCounted, DepotFollows
<1>12. DeliveredOnce'
  BY <1>1, <1>3, <1>8 DEF TTInv, TTTypeOK, Ptr, StoredPtr, DeliveredOnce, is_enabled, Reachable
<1>13. ExcludedNotRecorded'
  BY <1>1, <1>2, <1>3, <1>8
     DEF TTInv, TTTypeOK, RegionsCounted, ExcludedNotRecorded, is_enabled
<1>14. TrackedAgain'
  BY <1>1, <1>8 DEF TTInv, StoredPtr, TrackedAgain, is_enabled
<1> QED BY <1>2, <1>9, <1>10, <1>11, <1>12, <1>13, <1>14 DEF TTInv

\* beg_excl_region() keeps the invariant.
LEMMA BeginExclKeeps == ASSUME TTInv, BeginExcl PROVE TTInv'
<1> USE NullAssumption
<1>1. /\ buf_ptr_stored' = buf_ptr /\ buf_ptr' = Null
      /\ doubled' = (doubled \/ buf_ptr = Null)
      /\ event_cnt' = event_cnt + 1 /\ regions' = regions + 1 /\ opened' = TRUE
      /\ early' = IF detector_data THEN early ELSE early + 1
      /\ UNCHANGED <<params, detector_data, mem_buf, sampleVars, stackVars, _read_write,
                     calls, lost, ended>>
  BY DEF BeginExcl, disable
<1>2. UNCHANGED <<sampling_rate, master, unsampled, sampling_pos, stack, _ce, delta>>
  BY <1>1 DEF params, sampleVars, stackVars, delta
<1>3. TTTypeOK'
  <2>1. doubled' \in BOOLEAN
    BY <1>1 DEF TTInv, TTTypeOK
  <2>2. buf_ptr' \in Ptr /\ buf_ptr_stored' \in Ptr
    BY <1>1 DEF Ptr, TTInv, TTTypeOK
  <2>3. event_cnt' \in Nat /\ regions' \in Nat /\ early' \in 0..regions'
    BY <1>1 DEF TTInv, TTTypeOK
  <2> QED BY <1>1, <1>2, <2>1, <2>2, <2>3 DEF TTInv, TTTypeOK
<1>4. (StoredPtr /\ RegionsCounted /\ DepotFollows)'
  <2>1. StoredPtr'
    BY <1>1 DEF StoredPtr
  <2>2. RegionsCounted'
    BY <1>1 DEF TTInv, TTTypeOK, RegionsCounted
  <2>3. DepotFollows'
    BY <1>2 DEF TTInv, DepotFollows
  <2> QED BY <2>1, <2>2, <2>3
<1>5. (DeliveredOnce /\ ExcludedNotRecorded /\ ReportedStack)'
  BY <1>1 DEF DeliveredOnce, ExcludedNotRecorded, ReportedStack, is_enabled
<1>6. TrackedAgain'
  BY <1>1 DEF TTInv, TTTypeOK, TrackedAgain
<1> QED BY <1>3, <1>4, <1>5, <1>6 DEF TTInv

\* end_excl_region() keeps it: the count reaches zero only after the last region.
LEMMA EndExclKeeps == ASSUME TTInv, EndExcl PROVE TTInv'
<1> USE NullAssumption
<1>1. /\ event_cnt' = event_cnt - 1 /\ regions' = regions - 1 /\ regions > 0
      /\ early' = IF early = regions THEN regions - 1 ELSE early
      /\ buf_ptr' = IF event_cnt' = 0 /\ ~unsampled THEN buf_ptr_stored ELSE buf_ptr
      /\ UNCHANGED <<params, buf_ptr_stored, doubled, detector_data, mem_buf, sampleVars,
                     stackVars, _read_write, calls, opened, lost, ended>>
  BY DEF EndExcl, enable, ptrVars
<1>2. UNCHANGED <<sampling_rate, master, unsampled, sampling_pos, stack, _ce, delta>>
  BY <1>1 DEF params, sampleVars, stackVars, delta
<1>3. event_cnt \in Nat /\ regions \in Nat /\ early \in 0..regions /\ regions <= event_cnt
  BY DEF TTInv, TTTypeOK, RegionsCounted
<1>4. TTTypeOK'
  <2>1. buf_ptr' \in Ptr
    BY <1>1 DEF TTInv, TTTypeOK
  <2>2. event_cnt' \in Nat /\ regions' \in Nat /\ early' \in 0..regions'
    BY <1>1, <1>3
  <2> QED BY <1>1, <1>2, <2>1, <2>2 DEF TTInv, TTTypeOK
<1>5. (StoredPtr /\ RegionsCounted /\ DepotFollows)'
  BY <1>1, <1>2, <1>3 DEF TTInv, StoredPtr, RegionsCounted, DepotFollows
<1>6. DeliveredOnce'
  <2>1. CASE buf_ptr' = buf_ptr
    BY <2>1, <1>1, <1>2 DEF TTInv, DeliveredOnce, is_enabled, Reachable
  <2>2. CASE buf_ptr' = buf_ptr_stored
    <3> SUFFICES ASSUME is_enabled', NEW i \in 1..buf_ptr' PROVE opened' /\ Reachable(i)'
      BY DEF DeliveredOnce
    <3>1. buf_ptr_stored # Null /\ buf_ptr_stored \in 0..BufSize
      BY <2>2 DEF is_enabled, TTInv, TTTypeOK, Ptr
    <3>2. i <= buf_ptr_stored /\ buf_ptr_stored # 0
      BY <2>2, <3>1, BufSizeAssumption
    <3>3. opened
      BY <3>1, <3>2 DEF TTInv, StoredPtr
    <3> QED BY <1>1, <3>1, <3>2, <3>3 DEF Reachable
  <2> QED BY <2>1, <2>2, <1>1
<1>7. ExcludedNotRecorded'
  BY <1>1, <1>3 DEF TTInv, ExcludedNotRecorded, is_enabled
<1>8. TrackedAgain'
  BY <1>1, <1>2 DEF TTInv, StoredPtr, TrackedAgain, is_enabled
<1>9. ReportedStack'
  BY <1>1 DEF TTInv, ReportedStack
<1> QED BY <1>4, <1>5, <1>6, <1>7, <1>8, <1>9 DEF TTInv

\* A region left by an exception stays counted.
LEMMA SkipEndExclKeeps == ASSUME TTInv, SkipEndExcl PROVE TTInv'
<1>1. /\ regions' = regions - 1 /\ regions > 0
      /\ early' = IF early = regions THEN regions - 1 ELSE early
      /\ UNCHANGED <<sampling_rate, master, detector_data, buf_ptr, buf_ptr_stored, mem_buf,
                     event_cnt, unsampled, sampling_pos, stack, _ce, _read_write, calls,
                     opened, doubled, lost, ended, delta>>
  BY DEF SkipEndExcl, params, ptrVars, sampleVars, stackVars, delta
<1>2. event_cnt \in Nat /\ regions \in Nat /\ early \in 0..regions /\ regions <= event_cnt
  BY DEF TTInv, TTTypeOK, RegionsCounted
<1>3. TTTypeOK'
  BY <1>1, <1>2 DEF TTInv, TTTypeOK
<1>4. (StoredPtr /\ RegionsCounted /\ DepotFollows /\ ReportedStack)'
  BY <1>1, <1>2 DEF TTInv, StoredPtr, RegionsCounted, DepotFollows, ReportedStack
<1>5. (DeliveredOnce /\ ExcludedNotRecorded /\ TrackedAgain)'
  BY <1>1, <1>2
     DEF TTInv, DeliveredOnce, ExcludedNotRecorded, TrackedAgain, is_enabled, Reachable
<1> QED BY <1>3, <1>4, <1>5 DEF TTInv

\* A frame left by an exception stays on the shadow stack; stuttering.
LEMMA UnwindKeeps == ASSUME TTInv, Unwind \/ UNCHANGED ttVars PROVE TTInv'
<1>1. UNCHANGED <<sampling_rate, master, detector_data, buf_ptr, buf_ptr_stored, mem_buf,
                  event_cnt, unsampled, sampling_pos, stack, _ce, _read_write, regions,
                  early, opened, doubled, lost, ended, delta>>
  BY DEF Unwind, ttVars, params, ptrVars, sampleVars, stackVars, regionVars, delta
<1>2. calls' \in Seq(Site)
  <2>1. calls \in Seq(Site)
    BY DEF TTInv, TTTypeOK
  <2>2. CASE Unwind
    BY <2>1, <2>2 DEF Unwind
  <2>3. CASE UNCHANGED ttVars
    BY <2>1, <2>3 DEF ttVars
  <2> QED BY <2>2, <2>3
<1>3. TTTypeOK'
  BY <1>1, <1>2 DEF TTInv, TTTypeOK
<1>4. (StoredPtr /\ RegionsCounted /\ DepotFollows /\ ReportedStack)'
  BY <1>1 DEF TTInv, StoredPtr, RegionsCounted, DepotFollows, ReportedStack
<1>5. (DeliveredOnce /\ ExcludedNotRecorded /\ TrackedAgain)'
  BY <1>1 DEF TTInv, DeliveredOnce, ExcludedNotRecorded, TrackedAgain, is_enabled, Reachable
<1> QED BY <1>3, <1>4, <1>5 DEF TTInv

\* Every step of the thread keeps the invariant.
LEMMA StepKeeps == ASSUME TTInv, [TTNext]_ttVars PROVE TTInv'
<1>1. CASE \E x \in Addr : MemRef(x)
  BY <1>1, MemRefKeeps
<1>2. CASE ProcessBuffer
  <2>1. /\ stack' \in Seq(Site) /\ Len(stack') <= MaxStack /\ _ce' = stack'
        /\ calls' \in Seq(Site) /\ lost' \in BOOLEAN /\ ended' \in BOOLEAN
    BY <1>2 DEF ProcessBuffer, stackVars, TTInv, TTTypeOK, DepotFollows
  <2> QED BY <1>2, <2>1, FlushKeeps DEF ProcessBuffer
<1>3. CASE \E c \in Site : OnFuncCall(c)
  BY <1>3, FuncCallKeeps
<1>4. CASE OnFuncRet
  BY <1>4, FuncRetKeeps
<1>5. CASE Unwind \/ UNCHANGED ttVars
  BY <1>5, UnwindKeeps
<1>6. CASE BeginExcl
  BY <1>6, BeginExclKeeps
<1>7. CASE EndExcl
  BY <1>7, EndExclKeeps
<1>8. CASE SkipEndExcl
  BY <1>8, SkipEndExclKeeps
<1>9. CASE ThreadExit
  <2>1. /\ stack' \in Seq(Site) /\ Len(stack') <= MaxStack /\ _ce' = stack'
        /\ calls' \in Seq(Site) /\ lost' \in BOOLEAN /\ ended' \in BOOLEAN
    BY <1>9 DEF ThreadExit, stackVars, TTInv, TTTypeOK, DepotFollows
  <2> QED BY <1>9, <2>1, FlushKeeps DEF ThreadExit
<1> QED BY <1>1, <1>2, <1>3, <1>4, <1>5, <1>6, <1>7, <1>8, <1>9 DEF TTNext

-----------------------------------------------------------------------------
(* The theorems. *)

\* The invariant holds in every reachable state of the tracker.
THEOREM Inductive == TTSpec => []TTInv
<1>1. TTInit => TTInv
  BY InitHolds
<1>2. TTInv /\ [TTNext]_ttVars => TTInv'
  BY StepKeeps
<1> QED BY <1>1, <1>2, PTL DEF TTSpec

\* The pointers stay in the buffer, the shadow stack in its array and the sampling
\* position above zero, for every buffer, stack and rate.
THEOREM TTTypeCorrect == TTSpec => []TTTypeOK
BY Inductive, PTL DEF TTInv

\* analyze_access() hands an access over once and in the function that made it;
\* only what an excluded thread had pending can come back.
THEOREM AccessesDeliveredOnce == TTSpec => []DeliveredOnce
BY Inductive, PTL DEF TTInv

\* However excluded regions, sampled calls and flushes nest, no access is recorded
\* in a region entered after the first event of the thread.
THEOREM RegionsExcluded == TTSpec => []ExcludedNotRecorded
BY Inductive, PTL DEF TTInv

\* When the last region ends and the call is sampled the tracker is on, unless
\* disable() has hit a disabled tracker.
THEOREM TrackingResumes == TTSpec => []TrackedAgain
BY Inductive, PTL DEF TTInv

\* The detector's vertex is the top of the shadow stack, so func_exit() is never
\* called at the root of its tree.
THEOREM DepotInStep == TTSpec => []DepotFollows
BY Inductive, PTL DEF TTInv

\* The stack reported for a location is that of its last access, as long as the
\* thread has not been excluded.
THEOREM StacksReported == TTSpec => []ReportedStack
BY Inductive, PTL DEF TTInv

-----------------------------------------------------------------------------
(* The program's frames on the shadow stack. *)

\* No frames are found anywhere.
LEMMA EmptySubsequence ==
  ASSUME NEW t \in Seq(Site)
  PROVE  SubsequenceOf(<<>>, t)
<1> DEFINE f == [i \in DOMAIN <<>> |-> i]
<1>1. DOMAIN <<>> = {}
  OBVIOUS
<1>2. f \in [DOMAIN <<>> -> DOMAIN t]
  BY <1>1
<1> QED BY <1>1, <1>2 DEF SubsequenceOf

\* A call puts its frame on both stacks.
LEMMA AppendSubsequence ==
  ASSUME NEW s \in Seq(Site), NEW t \in Seq(Site), NEW c \in Site, SubsequenceOf(s, t)
  PROVE  SubsequenceOf(Append(s, c), Append(t, c))
<1> DEFINE n == Len(s)
<1> DEFINE m == Len(t)
<1>1. n \in Nat /\ m \in Nat /\ DOMAIN s = 1..n /\ DOMAIN t = 1..m
  OBVIOUS
<1>2. PICK f \in [1..n -> 1..m] : /\ \A i, j \in 1..n : i < j => f[i] < f[j]
                                  /\ \A i \in 1..n : s[i] = t[f[i]]
  BY <1>1 DEF SubsequenceOf
<1>3. /\ DOMAIN Append(s, c) = 1..(n + 1) /\ DOMAIN Append(t, c) = 1..(m + 1)
      /\ Append(s, c)[n + 1] = c /\ Append(t, c)[m + 1] = c
      /\ \A i \in 1..n : Append(s, c)[i] = s[i]
      /\ \A i \in 1..m : Append(t, c)[i] = t[i]
  OBVIOUS
<1> DEFINE g == [i \in 1..(n + 1) |-> IF i = n + 1 THEN m + 1 ELSE f[i]]
<1> HIDE DEF n, m
<1>4. \A i \in 1..(n + 1) : i = n + 1 \/ i \in 1..n
  BY <1>1
<1>5. g[n + 1] = m + 1 /\ \A i \in 1..n : g[i] = f[i]
  BY <1>1
<1>6. g \in [1..(n + 1) -> 1..(m + 1)]
  BY <1>1, <1>2, <1>4
<1> HIDE DEF g
<1>7. \A i, j \in 1..(n + 1) : i < j => g[i] < g[j]
  <2> SUFFICES ASSUME NEW i \in 1..(n + 1), NEW j \in 1..(n + 1), i < j PROVE g[i] < g[j]
    OBVIOUS
  <2>1. i \in 1..n
    BY <1>1
  <2>2. CASE j = n + 1
    <3>1. f[i] \in 1..m
      BY <1>2, <2>1
    <3> QED BY <1>1, <1>5, <2>1, <2>2, <3>1
  <2>3. CASE j # n + 1
    <3>1. j \in 1..n
      BY <1>4, <2>3
    <3> QED BY <1>2, <1>5, <2>1, <3>1
  <2> QED BY <2>2, <2>3
<1>8. \A i \in 1..(n + 1) : Append(s, c)[i] = Append(t, c)[g[i]]
  <2> SUFFICES ASSUME NEW i \in 1..(n + 1) PROVE Append(s, c)[i] = Append(t, c)[g[i]]
    OBVIOUS
  <2>1. CASE i = n + 1
    BY <1>3, <1>5, <2>1
  <2>2. CASE i # n + 1
    <3>1. i \in 1..n
      BY <1>4, <2>2
    <3>2. f[i] \in 1..m /\ g[i] = f[i] /\ s[i] = t[f[i]]
      BY <1>2, <1>5, <3>1
    <3>3. Append(s, c)[i] = s[i]
      BY <1>3, <3>1
    <3>4. Append(t, c)[f[i]] = t[f[i]]
      BY <1>3, <3>2
    <3> QED BY <3>2, <3>3, <3>4
  <2> QED BY <2>1, <2>2
<1> QED BY <1>3, <1>6, <1>7, <1>8 DEF SubsequenceOf

\* A return takes the program's last frame off, and leaves on the shadow stack at
\* least what lies below the place of that frame.
LEMMA ReturnSubsequence ==
  ASSUME NEW s \in Seq(Site), NEW t \in Seq(Site), s # <<>>, SubsequenceOf(s, t),
         NEW k \in 0..Len(t), \A i \in DOMAIN t : t[i] = s[Len(s)] => i - 1 <= k
  PROVE  SubsequenceOf(SubSeq(s, 1, Len(s) - 1), SubSeq(t, 1, k))
<1> DEFINE n == Len(s)
<1>1. n \in Nat /\ n > 0 /\ DOMAIN s = 1..n /\ DOMAIN t = 1..Len(t) /\ Len(t) \in Nat
  OBVIOUS
<1>2. PICK f \in [1..n -> 1..Len(t)] : /\ \A i, j \in 1..n : i < j => f[i] < f[j]
                                       /\ \A i \in 1..n : s[i] = t[f[i]]
  BY <1>1 DEF SubsequenceOf
<1>3. /\ DOMAIN SubSeq(s, 1, n - 1) = 1..(n - 1) /\ DOMAIN SubSeq(t, 1, k) = 1..k
      /\ \A i \in 1..(n - 1) : SubSeq(s, 1, n - 1)[i] = s[i]
      /\ \A i \in 1..k : SubSeq(t, 1, k)[i] = t[i]
  BY <1>1
<1>4. f[n] - 1 <= k /\ f[n] \in 1..Len(t)
  <2>1. n \in 1..n
    BY <1>1
  <2> QED BY <1>1, <1>2, <2>1
<1> HIDE DEF n
<1>5. \A i \in 1..(n - 1) : i \in 1..n /\ f[i] \in 1..k
  <2> SUFFICES ASSUME NEW i \in 1..(n - 1) PROVE i \in 1..n /\ f[i] \in 1..k
    OBVIOUS
  <2>1. i \in 1..n /\ n \in 1..n /\ i < n
    BY <1>1
  <2>2. f[i] < f[n] /\ f[i] \in 1..Len(t)
    BY <1>2, <2>1
  <2> QED BY <1>1, <1>4, <2>1, <2>2
<1> DEFINE g == [i \in 1..(n - 1) |-> f[i]]
<1>6. g \in [1..(n - 1) -> 1..k] /\ \A i \in 1..(n - 1) : g[i] = f[i]
  BY <1>5
<1> HIDE DEF g
<1>7. \A i, j \in 1..(n - 1) : i < j => g[i] < g[j]
  BY <1>2, <1>5, <1>6
<1>8. \A i \in 1..(n - 1) : SubSeq(s, 1, n - 1)[i] = SubSeq(t, 1, k)[g[i]]
  <2> SUFFICES ASSUME NEW i \in 1..(n - 1)
               PROVE  SubSeq(s, 1, n - 1)[i] = SubSeq(t, 1, k)[g[i]]
    OBVIOUS
  <2>1. i \in 1..n /\ f[i] \in 1..k /\ g[i] = f[i]
    BY <1>5, <1>6
  <2>2. SubSeq(t, 1, k)[f[i]] = t[f[i]] /\ SubSeq(s, 1, n - 1)[i] = s[i]
    BY <1>3, <2>1
  <2>3. s[i] = t[f[i]]
    BY <1>2, <2>1
  <2> QED BY <2>1, <2>2, <2>3
<1>9. SubsequenceOf(SubSeq(s, 1, n - 1), SubSeq(t, 1, k))
  BY <1>3, <1>6, <1>7, <1>8 DEF SubsequenceOf
<1> QED BY <1>9 DEF n

\* on_func_ret() pops down to the last frame of the function that returns, so
\* not below the place of the program's frame.
LEMMA ReturnKeeps ==
  ASSUME TTInv, FramesKept, OnFuncRet
  PROVE  FramesKept'
<1> DEFINE c == calls[Len(calls)]
<1> DEFINE k == Kept(c)
<1>1. /\ calls \in Seq(Site) /\ calls # <<>> /\ stack \in Seq(Site)
      /\ calls' = SubSeq(calls, 1, Len(calls) - 1) /\ stack' = SubSeq(stack, 1, k)
      /\ lost' = (lost /\ (calls' # <<>> \/ stack' # <<>>))
  BY DEF OnFuncRet, pop_until, TTInv, TTTypeOK
<1>2. k \in 0..Len(stack)
  BY FramesBelow
<1>3. \A i \in DOMAIN stack : stack[i] = c => i - 1 <= k
  <2> SUFFICES ASSUME NEW i \in DOMAIN stack, stack[i] = c PROVE i - 1 <= k
    OBVIOUS
  <2> DEFINE found == {j \in DOMAIN stack : stack[j] = c}
  <2>1. Len(stack) \in Nat /\ found \in SUBSET (1..Len(stack)) /\ i \in found
    BY <1>1
  <2>2. k = Max(found) - 1
    BY <2>1 DEF Kept
  <2>3. Max(found) \in found /\ Max(found) >= i
    <3> HIDE DEF found
    <3> QED BY <2>1, LargestIndex
  <2> QED BY <2>1, <2>2, <2>3
<1> HIDE DEF c, k
<1> SUFFICES ASSUME ~lost' PROVE SubsequenceOf(calls', stack')
  BY DEF FramesKept
<1>4. stack' \in Seq(Site)
  BY <1>1, <1>2
<1>5. CASE lost
  <2>1. calls' = <<>>
    BY <1>1, <1>5
  <2> QED BY <1>4, <2>1, EmptySubsequence
<1>6. CASE ~lost
  <2>1. SubsequenceOf(calls, stack)
    BY <1>6 DEF FramesKept
  <2> QED BY <1>1, <1>2, <1>3, <2>1, ReturnSubsequence DEF c
<1> QED BY <1>5, <1>6

\* Every step keeps the frames in order.
LEMMA FramesStep == TTInv /\ FramesKept /\ [TTNext]_ttVars => FramesKept'
<1> SUFFICES ASSUME TTInv, FramesKept, [TTNext]_ttVars PROVE FramesKept'
  OBVIOUS
<1>1. stack \in Seq(Site) /\ calls \in Seq(Site)
  BY DEF TTInv, TTTypeOK
<1>2. ASSUME UNCHANGED <<stack, calls, lost>> PROVE FramesKept'
  BY <1>2 DEF FramesKept
<1>3. ASSUME NEW c \in Site, OnFuncCall(c) PROVE FramesKept'
  <2>1. CASE Len(stack) >= MaxStack
    BY <1>3, <2>1 DEF OnFuncCall, push, FramesKept
  <2>2. CASE ~(Len(stack) >= MaxStack)
    <3>1. stack' = Append(stack, c) /\ calls' = Append(calls, c) /\ lost' = lost
      BY <1>3, <2>2 DEF OnFuncCall, push
    <3> QED BY <1>1, <3>1, AppendSubsequence DEF FramesKept
  <2> QED BY <2>1, <2>2
<1>4. CASE OnFuncRet
  BY <1>4, ReturnKeeps
<1>5. CASE Unwind
  <2>1. /\ calls # <<>> /\ calls' = SubSeq(calls, 1, Len(calls) - 1)
        /\ stack' = stack /\ lost' = lost
    BY <1>5 DEF Unwind, stackVars
  <2>2. stack = SubSeq(stack, 1, Len(stack)) /\ Len(stack) \in 0..Len(stack)
        /\ \A i \in DOMAIN stack : i - 1 <= Len(stack)
    BY <1>1
  <2> QED BY <1>1, <2>1, <2>2, ReturnSubsequence DEF FramesKept
<1>6. \/ UNCHANGED <<stack, calls, lost>>
      \/ \E c \in Site : OnFuncCall(c)
      \/ OnFuncRet
      \/ Unwind
  BY DEF TTNext, ttVars, stackVars, MemRef, ProcessBuffer, BeginExcl, EndExcl, SkipEndExcl,
         ThreadExit
<1> QED BY <1>2, <1>3, <1>4, <1>5, <1>6

\* Until a frame finds no place, every frame of the program is on the shadow stack
\* and in order, whatever exceptions and recursion did to it.
THEOREM ProgramFramesKept == TTSpec => []FramesKept
<1>1. TTInit => FramesKept
  <2> SUFFICES ASSUME TTInit PROVE SubsequenceOf(calls, stack)
    BY DEF FramesKept
  <2>1. calls = <<>> /\ stack = <<>>
    BY DEF TTInit
  <2>2. stack \in Seq(Site)
    BY <2>1
  <2> QED BY <2>1, <2>2, EmptySubsequence
<1> QED BY <1>1, Inductive, FramesStep, PTL DEF TTSpec

=============================================================================
