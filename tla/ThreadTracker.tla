--------------------------- MODULE ThreadTracker ---------------------------
(***************************************************************************)
(* The thread-private half of the memory tracker (memory-tracker.h and     *)
(* .cpp, ShadowThreadState, shadow-stack.h, function-wrapper/event.cpp) of *)
(* one thread: where the next access is recorded, how recording is         *)
(* switched off and on by excluded regions and by sampling, and the shadow *)
(* stack, which the detector follows in its stack depot (stacktrace.cpp).  *)
(*                                                                         *)
(* A vertex of the depot is written as its path from the root: siblings    *)
(* differ in their address, so the path names the vertex.  The histogram   *)
(* of frequent code is never fed (the call in analyze_access() is          *)
(* commented out), so no call is found in it and it is left out.           *)
(***************************************************************************)
EXTENDS Integers, Sequences, FiniteSetsExt

CONSTANTS
  Addr,        \* locations accessed
  Site,        \* call instructions
  BufSize,     \* MAX_NUM_MEM_REFS
  MaxStack,    \* ShadowStack::max_size
  Rates,       \* values of params.sampling_rate
  MaxCalls,    \* bound on the depth of the program's stack
  MaxRegions,  \* bound on event_cnt, so on the nesting of excluded regions
  Null

ASSUME BufSizeAssumption == BufSize \in Nat \ {0}
ASSUME MaxStackAssumption == MaxStack \in Nat \ {0}
ASSUME RatesAssumption == Rates \subseteq Nat \ {0}
ASSUME NullAssumption == Null \notin Int

VARIABLES
  sampling_rate,   \* params.sampling_rate
  master,          \* is this the first thread, and excluded (--excl-master)?
  detector_data,   \* is the thread known to the detector?
  buf_ptr,         \* accesses recorded, or Null while the tracker is disabled
  buf_ptr_stored,  \* buf_ptr as disable() found it
  mem_buf,         \* the buffer, what is left of handed-over accesses included
  event_cnt,       \* disable_scope() minus enable_scope()
  unsampled,       \* the highest bit of event_cnt: this call is not sampled
  sampling_pos,    \* calls until the next sampled one
  stack,           \* the shadow stack
  _ce,             \* the detector's current vertex
  _read_write,     \* per location, the vertex of the last access handed over
  calls,           \* the program's stack
  regions,         \* excluded regions the program is in
  early,           \*   of those, the ones entered before the thread was known
  opened,          \* has the thread been excluded at all?
  doubled,         \* has disable() been called on a disabled tracker?
  lost,            \* has a frame been left out of the full shadow stack?
  ended

ptrVars == <<buf_ptr, buf_ptr_stored>>
sampleVars == <<unsampled, sampling_pos>>
stackVars == <<stack, _ce>>
regionVars == <<event_cnt, regions, opened>>
params == <<sampling_rate, master>>
ttVars == <<params, detector_data, ptrVars, mem_buf, sampleVars, stackVars, _read_write,
            calls, regionVars, early, doubled, lost, ended>>

NoRef == [addr |-> Null, made |-> <<>>, fresh |-> FALSE]

\* event_thread_init(), with disable_scope() for an excluded first thread.
TTInit ==
  /\ sampling_rate \in Rates
  /\ master \in BOOLEAN
  /\ detector_data = FALSE
  /\ buf_ptr = IF master THEN Null ELSE 0
  /\ buf_ptr_stored = 0
  /\ mem_buf = [i \in 1..BufSize |-> NoRef]
  /\ event_cnt = IF master THEN 1 ELSE 0
  /\ unsampled = FALSE
  /\ sampling_pos = sampling_rate
  /\ stack = <<>>
  /\ _ce = <<>>
  /\ _read_write = [x \in Addr |-> Null]
  /\ calls = <<>>
  /\ regions = 0
  /\ early = 0
  /\ opened = master
  /\ doubled = FALSE
  /\ lost = FALSE
  /\ ended = FALSE

-----------------------------------------------------------------------------
(* Recording and handing over. *)

is_enabled == buf_ptr # Null

\* A full buffer is processed before the thread goes on.
Running == ~ended /\ buf_ptr # BufSize

\* instrument_mem_fast(): nothing happens in a disabled tracker.
MemRef(x) ==
  /\ Running
  /\ is_enabled
  /\ mem_buf' = [mem_buf EXCEPT ![buf_ptr + 1] =
                   [addr |-> x, made |-> stack, fresh |-> TRUE]]
  /\ buf_ptr' = buf_ptr + 1
  /\ UNCHANGED <<params, detector_data, buf_ptr_stored, sampleVars, stackVars, _read_write,
                 calls, regionVars, early, doubled, lost, ended>>

\* The accesses analyze_access() hands to the detector.  On the first event of
\* the thread, clear_buffer() drops what has been recorded so far.
Handed == IF detector_data /\ is_enabled THEN 1..buf_ptr ELSE {}

LastOf(x) == {i \in Handed : mem_buf[i].addr = x}

\* Can the pointer be set above i again with no access recorded there?  What lies
\* beyond is overwritten before it is read, and is forgotten here.
Reachable(i) == buf_ptr_stored # Null /\ i <= buf_ptr_stored

\* Mutant of Emptied: the pointer is not set back after a flush.
MutNotReset == IF ~detector_data THEN 0 ELSE buf_ptr

\* Where analyze_access() leaves buf_ptr; the caller sets it, to here or on.
Emptied == IF ~detector_data \/ is_enabled THEN 0 ELSE Null

analyze_access ==
  /\ mem_buf' = [i \in 1..BufSize |->
                   IF i \notin Handed THEN mem_buf[i]
                   ELSE IF Reachable(i) THEN [mem_buf[i] EXCEPT !.fresh = FALSE]
                   ELSE NoRef]
  /\ _read_write' = [x \in Addr |->
                   IF LastOf(x) = {} THEN _read_write[x]
                   ELSE [at |-> _ce, made |-> mem_buf[Max(LastOf(x))].made]]
  /\ detector_data' = TRUE
  /\ early' = IF detector_data THEN early ELSE regions

\* process_buffer(), on a full buffer and in the wrappers that only flush.
ProcessBuffer ==
  /\ ~ended
  /\ analyze_access
  /\ buf_ptr' = Emptied
  /\ UNCHANGED <<params, buf_ptr_stored, sampleVars, stackVars, calls, regionVars, doubled, lost,
                 ended>>

-----------------------------------------------------------------------------
(* Calls and returns. *)

\* update_sampling().
delta == IF sampling_rate < 10 THEN 1 ELSE sampling_rate \div 10
min_period == IF sampling_rate - delta > 1 THEN sampling_rate - delta ELSE 1
max_period == sampling_rate + delta

\* sample_ref().  With a rate of 1 the position is never looked at; it is not
\* counted down here.
sample_ref ==
  IF sampling_rate = 1 THEN sampling_pos' = sampling_pos
  ELSE sampling_pos = 1 /\ sampling_pos' \in min_period..max_period

skip_ref == sampling_rate # 1 /\ sampling_pos # 1 /\ sampling_pos' = sampling_pos - 1

disable(ptr) ==
  /\ buf_ptr_stored' = ptr
  /\ buf_ptr' = Null
  /\ doubled' = (doubled \/ ptr = Null)

enable == buf_ptr' = buf_ptr_stored /\ UNCHANGED <<buf_ptr_stored, doubled>>

\* Mutant of switch_sampling: a sampled call does not enable the tracker.
MutStayDisabled(ptr) ==
  \/ skip_ref /\ disable(ptr) /\ unsampled' = TRUE
  \/ /\ sample_ref
     /\ unsampled' = FALSE
     /\ buf_ptr' = ptr /\ UNCHANGED <<buf_ptr_stored, doubled>>

\* Mutant of switch_sampling: a sampled call enables the tracker in a region too.
MutEnableInRegion(ptr) ==
  \/ skip_ref /\ disable(ptr) /\ unsampled' = TRUE
  \/ sample_ref /\ unsampled' = FALSE /\ enable

\* switch_sampling(), in a function called with the pointer at ptr.
switch_sampling(ptr) ==
  \/ skip_ref /\ disable(ptr) /\ unsampled' = TRUE
  \/ /\ sample_ref
     /\ unsampled' = FALSE
     /\ IF event_cnt = 0 THEN enable
        ELSE buf_ptr' = ptr /\ UNCHANGED <<buf_ptr_stored, doubled>>

\* Mutant of push: the detector is told of a call that is not kept.
MutEnterAnyway(c) ==
  IF Len(stack) >= MaxStack
  THEN stack' = stack /\ _ce' = Append(_ce, c) /\ lost' = TRUE
  ELSE stack' = Append(stack, c) /\ _ce' = Append(_ce, c) /\ UNCHANGED lost

\* Mutant of push: one entry more than the array has.
MutPushOneMore(c) ==
  IF Len(stack) > MaxStack
  THEN UNCHANGED stackVars /\ lost' = TRUE
  ELSE stack' = Append(stack, c) /\ _ce' = Append(_ce, c) /\ UNCHANGED lost

\* ShadowStack::push(), func_enter() and push_stack_element().
push(c) ==
  IF Len(stack) >= MaxStack
  THEN UNCHANGED stackVars /\ lost' = TRUE
  ELSE stack' = Append(stack, c) /\ _ce' = Append(_ce, c) /\ UNCHANGED lost

\* Mutant of OnFuncCall: the accesses of the caller are not flushed.
MutNoFlush(c) ==
  /\ Running
  /\ detector_data
  /\ Len(calls) < MaxCalls
  /\ calls' = Append(calls, c)
  /\ switch_sampling(buf_ptr)
  /\ push(c)
  /\ UNCHANGED <<params, detector_data, mem_buf, _read_write, early, regionVars, ended>>

\* on_func_call().
OnFuncCall(c) ==
  /\ Running
  /\ Len(calls) < MaxCalls
  /\ calls' = Append(calls, c)
  /\ analyze_access
  /\ switch_sampling(Emptied)
  /\ push(c)
  /\ UNCHANGED <<params, regionVars, ended>>

\* Mutant of Kept: of a recursive function, the outermost frame is taken.
MutOutermost(c) ==
  LET found == {i \in DOMAIN stack : stack[i] = c}
  IN  IF found = {} THEN 0 ELSE Min(found) - 1

\* Frames below the one the return belongs to; none if it is not found.
Kept(c) ==
  LET found == {i \in DOMAIN stack : stack[i] = c}
  IN  IF found = {} THEN 0 ELSE Max(found) - 1

\* The loop of on_func_ret() over ShadowStack::pop(), each with a func_exit().
pop_until(c) ==
  /\ stack' = SubSeq(stack, 1, Kept(c))
  /\ _ce' = SubSeq(_ce, 1, Len(_ce) - (Len(stack) - Kept(c)))

\* on_func_ret() of the function called at the top of the program's stack.
OnFuncRet ==
  /\ Running
  /\ calls # <<>>
  /\ calls' = SubSeq(calls, 1, Len(calls) - 1)
  /\ analyze_access
  /\ buf_ptr' = Emptied
  /\ pop_until(calls[Len(calls)])
  /\ lost' = (lost /\ (calls' # <<>> \/ stack' # <<>>))
  /\ UNCHANGED <<params, buf_ptr_stored, sampleVars, regionVars, doubled, ended>>

\* An exception or longjmp leaves a frame with no return.
Unwind ==
  /\ Running
  /\ calls # <<>>
  /\ calls' = SubSeq(calls, 1, Len(calls) - 1)
  /\ UNCHANGED <<params, detector_data, ptrVars, mem_buf, sampleVars, stackVars, _read_write,
                 regionVars, early, doubled, lost, ended>>

-----------------------------------------------------------------------------
(* Excluded regions: beg_excl_region(), end_excl_region(). *)

BeginExcl ==
  /\ Running
  /\ event_cnt < MaxRegions
  /\ disable(buf_ptr)
  /\ event_cnt' = event_cnt + 1
  /\ regions' = regions + 1
  /\ early' = IF detector_data THEN early ELSE early + 1
  /\ opened' = TRUE
  /\ UNCHANGED <<params, detector_data, mem_buf, sampleVars, stackVars, _read_write, calls, lost,
                 ended>>

\* With the sampling bit set the counter does not come down to zero.
EndExcl ==
  /\ Running
  /\ regions > 0
  /\ event_cnt' = event_cnt - 1
  /\ IF event_cnt' = 0 /\ ~unsampled THEN enable
     ELSE UNCHANGED <<ptrVars, doubled>>
  /\ regions' = regions - 1
  /\ early' = IF early = regions THEN regions - 1 ELSE early
  /\ UNCHANGED <<params, detector_data, mem_buf, sampleVars, stackVars, _read_write, calls, opened,
                 lost, ended>>

\* An excluded function left by an exception: end_excl() returns at once.
SkipEndExcl ==
  /\ Running
  /\ regions > 0
  /\ regions' = regions - 1
  /\ early' = IF early = regions THEN regions - 1 ELSE early
  /\ UNCHANGED <<params, detector_data, ptrVars, mem_buf, event_cnt, sampleVars, stackVars,
                 _read_write, calls, opened, doubled, lost, ended>>

\* event_thread_exit(), which flushes first.
ThreadExit ==
  /\ Running
  /\ analyze_access
  /\ buf_ptr' = Emptied
  /\ ended' = TRUE
  /\ UNCHANGED <<params, buf_ptr_stored, sampleVars, stackVars, calls, regionVars, doubled, lost>>

TTNext ==
  \/ \E x \in Addr : MemRef(x)
  \/ ProcessBuffer
  \/ \E c \in Site : OnFuncCall(c)
  \/ OnFuncRet
  \/ Unwind
  \/ BeginExcl
  \/ EndExcl
  \/ SkipEndExcl
  \/ ThreadExit

TTSpec == TTInit /\ [][TTNext]_ttVars

-----------------------------------------------------------------------------
(* Properties. *)

Ptr == 0..BufSize \cup {Null}
MemRefs == [addr : Addr \cup {Null}, made : Seq(Site), fresh : BOOLEAN]

\* Types and ranges of the thread's state.
TTTypeOK ==
  /\ sampling_rate \in Rates /\ master \in BOOLEAN
  /\ detector_data \in BOOLEAN
  /\ buf_ptr \in Ptr
  /\ buf_ptr_stored \in Ptr
  /\ mem_buf \in [1..BufSize -> MemRefs]
  /\ event_cnt \in Nat
  /\ unsampled \in BOOLEAN
  /\ sampling_pos \in 1..sampling_rate + delta
  /\ stack \in Seq(Site) /\ Len(stack) <= MaxStack
  /\ _ce \in Seq(Site)
  /\ calls \in Seq(Site)
  /\ regions \in Nat
  /\ early \in 0..regions
  /\ opened \in BOOLEAN /\ doubled \in BOOLEAN /\ lost \in BOOLEAN /\ ended \in BOOLEAN

\* An access that waits in the buffer has not been handed over before and was
\* made in the function the shadow stack shows now, so that it is reported once
\* and under its own stack ("all memory-refs happend in the current function",
\* shadow-stack.h).  Excepted are accesses below the pointer that the last
\* disable() stored, if the thread has been excluded: enable() brings these back.
DeliveredOnce ==
  is_enabled =>
    \A i \in 1..buf_ptr :
      \/ opened /\ Reachable(i)
      \/ mem_buf[i].fresh /\ mem_buf[i].made = stack

\* "all memory-refs happend in the current function" (shadow-stack.h): DeliveredOnce
\* without its exception.
RefsOfCurrentFunction ==
  is_enabled => \A i \in 1..buf_ptr : mem_buf[i].fresh /\ mem_buf[i].made = stack

\* Nothing is recorded in an excluded region that was entered after the first
\* event of the thread, however regions, calls and samples nest.
ExcludedNotRecorded == regions > early => ~is_enabled

\* "exclude first thread" (README.md, --excl-master).
FirstThreadExcluded == master => ~is_enabled

\* After the last region, in a sampled call, the thread is tracked again, unless
\* it has been disabled twice in a row.
TrackedAgain == event_cnt = 0 /\ ~unsampled /\ ~doubled => is_enabled

\* "disable the detector during this scope" (memory-tracker.h), and no longer,
\* however the scope is left.
ScopeEnds == regions = 0 /\ ~master /\ ~unsampled /\ ~doubled => is_enabled

\* TrackedAgain without its exception: a sampled function is analysed.
SampledIsTracked == event_cnt = 0 /\ ~unsampled => is_enabled

\* The detector's vertex is always the top of the shadow stack, so a func_exit()
\* never leaves the root of its tree.
DepotFollows == _ce = stack

\* s can be got from t by leaving elements out.
SubsequenceOf(s, t) ==
  \E f \in [DOMAIN s -> DOMAIN t] :
    /\ \A i, j \in DOMAIN s : i < j => f[i] < f[j]
    /\ \A i \in DOMAIN s : s[i] = t[f[i]]

\* Until a frame is dropped for want of space, every frame of the program is on
\* the shadow stack and in order, also after an exception has skipped returns.
FramesKept == ~lost => SubsequenceOf(calls, stack)

\* The stack that would be reported for a location is the one of its access, as
\* long as the thread has not been excluded.
ReportedStack ==
  ~opened => \A x \in Addr : _read_write[x] # Null => _read_write[x].at = _read_write[x].made

=============================================================================
