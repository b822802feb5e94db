---------------------------- MODULE DRaceClient ----------------------------
(***************************************************************************)
(* The DRace client between the program and the FastTrack detector         *)
(* (drace-client/src: memory-tracker.cpp, function-wrapper/event.cpp).     *)
(* The memory accesses of a thread are collected in a buffer and handed to *)
(* the detector later, one call each, while other threads go on; a thread  *)
(* is made known to the detector when its buffer is first processed; the   *)
(* wrappers of the lock functions keep a book of the mutexes a thread      *)
(* holds.  The happens-before reference is played what the program does,   *)
(* at the time it does it; its audit of missed races is not kept here.     *)
(*                                                                         *)
(* The tool runs without sampling, excluded regions or excluded threads, on *)
(* code that is instrumented throughout; the wrapped functions themselves are *)
(* not.  As on Linux, thread_start() does nothing.                         *)
(***************************************************************************)
EXTENDS FastTrack, HBReference, Sequences

CONSTANTS
  RuntimeTid,  \* runtime_tid: the first thread of the process
  BufSize,     \* MAX_NUM_MEM_REFS, the length of the buffer
  MaxDepth,    \* bound on the recursion of a mutex
  Spawn,       \* <<parent, child>>: which thread starts, and awaits, which
  Ending,      \* the threads that end
  Annotation,  \* identifiers of the happens-before annotations
  None

ASSUME RuntimeTidAssumption == RuntimeTid \in Tid
ASSUME BufSizeAssumption == BufSize \in Nat \ {0}
ASSUME MaxDepthAssumption == MaxDepth \in Nat \ {0}
ASSUME SpawnAssumption == Spawn \subseteq Tid \X Tid
ASSUME EndingAssumption == Ending \subseteq Tid

\* The id of a thread serves as the identifier of its start.
ASSUME IdentifierAssumption == Tid \cup Annotation \subseteq Identifier

VARIABLES
  pc,          \* where a thread is: in its own code or in a wrapped call
  mutex,       \* argument of the call, a mutex or a block, or None
  mem_buf,     \* ShadowThreadState::mem_buf up to buf_ptr
  mutex_book,  \* ShadowThreadState::mutex_book
  owner,       \* the program's mutexes: who holds one, or 0
  depth,       \*   and how often
  heap         \* the program's blocks: free, taken, used or leaving

callVars == <<pc, mutex>>
stateVars == <<mem_buf, mutex_book>>
lockVars == <<owner, depth, heap>>   \* what the program has
clVars == <<ftVars, hbVars, callVars, stateVars, lockVars>>

\* Calls that process the buffer of the thread before anything else.
Flushing == {"call", "start", "lock", "unlock", "exit"}

CInit ==
  /\ Init
  /\ HBInit
  /\ pc = [t \in Tid |-> "new"]
  /\ mutex = [t \in Tid |-> None]
  /\ mem_buf = [t \in Tid |-> <<>>]
  /\ mutex_book = [t \in Tid |-> [m \in Mutex |-> 0]]
  /\ owner = [m \in Mutex |-> 0]
  /\ depth = [m \in Mutex |-> 0]
  /\ heap = [b \in Block |-> "free"]

Goto(t, where) == pc' = [pc EXCEPT ![t] = where] /\ UNCHANGED mutex
Leave(t) == pc' = [pc EXCEPT ![t] = "run"] /\ mutex' = [mutex EXCEPT ![t] = None]

\* The detector, or the reference, takes no part in a step.
NoDetectorCall == report' = {} /\ UNCHANGED <<threadVars, syncVars, varVars, allocs>>
NoProgramStep == UNCHANGED hbVars

-----------------------------------------------------------------------------
(* Processing the buffer: analyze_access(). *)

InFlush(t) == pc[t] \in Flushing

\* detector_data is set: the thread has been forked and its fork is complete.
Known(t) == t \in threads /\ t \in happens_states

Flushed(t) == InFlush(t) /\ Known(t) /\ mem_buf[t] = <<>>

\* Mutant of LateFork: the thread gets no parent.
MutForkAlone(t) ==
  /\ InFlush(t)
  /\ t \notin threads
  /\ Fork(t, t)
  /\ NoProgramStep
  /\ UNCHANGED <<callVars, stateVars, lockVars>>

\* delayed_initialize_thread(): fork with the runtime thread as the parent.
LateFork(t) ==
  /\ InFlush(t)
  /\ t \notin threads
  /\ Fork(RuntimeTid, t)
  /\ NoProgramStep
  /\ UNCHANGED <<callVars, stateVars, lockVars>>

clear_buffer(t) == mem_buf' = [mem_buf EXCEPT ![t] = <<>>]

\* Then happens_after() on the thread's own id, and the buffer is emptied.
LateAfter(t) ==
  /\ InFlush(t)
  /\ t \in threads
  /\ ~Known(t)
  /\ HappensAfter(t, t)
  /\ clear_buffer(t)
  /\ NoProgramStep
  /\ UNCHANGED <<callVars, mutex_book, lockVars>>

\* One round of the loop over the buffer.
Deliver(t) ==
  /\ InFlush(t)
  /\ Known(t)
  /\ mem_buf[t] # <<>>
  /\ LET ref == Head(mem_buf[t]) IN
       \/ ref.write /\ Write(t, ref.addr)
       \/ ~ref.write /\ Read(t, ref.addr)
  /\ mem_buf' = [mem_buf EXCEPT ![t] = Tail(@)]
  /\ NoProgramStep
  /\ UNCHANGED <<callVars, mutex_book, lockVars>>

\* Back from a call of a function, or from the call of a full buffer.
EndCall(t) ==
  /\ pc[t] = "call"
  /\ Flushed(t)
  /\ Goto(t, "run")
  /\ NoDetectorCall
  /\ NoProgramStep
  /\ UNCHANGED <<stateVars, lockVars>>

-----------------------------------------------------------------------------
(* The program: accesses and calls. *)

\* The program accesses no block that it has not got from the allocator.
Accessible(x) == \A b \in Block : x \in Within(b[1], b[2]) => heap[b] = "used"

\* Mutant of MemRef: the buffer is processed one access too late.
MutFullLate(t, x, w) ==
  /\ pc[t] = "run"
  /\ Accessible(x)
  /\ mem_buf' = [mem_buf EXCEPT ![t] = Append(@, [addr |-> x, write |-> w])]
  /\ Goto(t, IF Len(mem_buf'[t]) > BufSize THEN "call" ELSE "run")
  /\ IF w THEN RecordWrite(t, x) ELSE RecordRead(t, x)
  /\ NoDetectorCall
  /\ UNCHANGED <<edgeVars, auditVars, mutex_book, lockVars>>

\* An instrumented access.  The buffer is processed when it is full.
MemRef(t, x, w) ==
  /\ pc[t] = "run"
  /\ Accessible(x)
  /\ mem_buf' = [mem_buf EXCEPT ![t] = Append(@, [addr |-> x, write |-> w])]
  /\ Goto(t, IF Len(mem_buf'[t]) = BufSize THEN "call" ELSE "run")
  /\ IF w THEN RecordWrite(t, x) ELSE RecordRead(t, x)
  /\ NoDetectorCall
  /\ UNCHANGED <<edgeVars, auditVars, mutex_book, lockVars>>

\* on_func_call() and on_func_ret(), and the start and end of a thread.
Call(t, where) ==
  /\ pc[t] = "run"
  /\ Goto(t, where)
  /\ NoDetectorCall
  /\ NoProgramStep
  /\ UNCHANGED <<stateVars, lockVars>>

\* The process and its first thread begin: event_thread_init().
StartProcess ==
  /\ pc[RuntimeTid] = "new"
  /\ Goto(RuntimeTid, "run")
  /\ HBForkRoot(RuntimeTid)
  /\ NoDetectorCall
  /\ UNCHANGED <<stateVars, lockVars>>

\* The function that starts a thread has been called and does so.
StartThread(p, c) ==
  /\ pc[p] = "start"
  /\ Flushed(p)
  /\ <<p, c>> \in Spawn
  /\ pc[c] = "new"
  /\ pc' = [pc EXCEPT ![p] = "run", ![c] = "run"]
  /\ HBForkChild(p, c)
  /\ NoDetectorCall
  /\ UNCHANGED <<mutex, stateVars, lockVars>>

\* event_thread_exit(): join with the runtime thread, whoever awaits it.
ExitThread(t) ==
  /\ pc[t] = "exit"
  /\ Flushed(t)
  /\ \/ Join(RuntimeTid, t)
     \/ RuntimeTid \notin threads /\ NoDetectorCall
  /\ Goto(t, "ended")
  /\ ForgetAccesses(t)
  /\ UNCHANGED <<edgeVars, auditVars, stateVars, lockVars>>

\* The program awaits the end of a thread; no function doing so is wrapped.
Await(p, c) ==
  /\ pc[p] = "run"
  /\ pc[c] = "ended"
  /\ <<p, c>> \in Spawn
  /\ Goto(c, "gone")
  /\ ForgetEdges(c, [hb EXCEPT ![p] = Max2(hb[p], hb[c])])
  /\ NoDetectorCall
  /\ UNCHANGED <<accessVars, auditVars, stateVars, lockVars>>

-----------------------------------------------------------------------------
(* Locks. *)

\* get_arg(), before the function that locks is entered.
CallLock(t, m) ==
  /\ pc[t] = "run"
  /\ owner[m] = t => depth[m] < MaxDepth
  /\ pc' = [pc EXCEPT ![t] = "lock"]
  /\ mutex' = [mutex EXCEPT ![t] = m]
  /\ NoDetectorCall
  /\ NoProgramStep
  /\ UNCHANGED <<stateVars, lockVars>>

\* The program locks the mutex.
Lock(t) ==
  LET m == mutex[t] IN
  /\ pc[t] = "lock"
  /\ Flushed(t)
  /\ owner[m] \in {0, t}
  /\ owner' = [owner EXCEPT ![m] = t]
  /\ depth' = [depth EXCEPT ![m] = @ + 1]
  /\ IF depth[m] = 0 THEN HBAcquire(t, m) ELSE NoProgramStep
  /\ Goto(t, "locked")
  /\ NoDetectorCall
  /\ UNCHANGED <<stateVars, heap>>

\* A lock that was tried and not taken (retval # 0), or left by an exception.
LockFails(t) ==
  /\ pc[t] = "lock"
  /\ Flushed(t)
  /\ Leave(t)
  /\ NoDetectorCall
  /\ NoProgramStep
  /\ UNCHANGED <<stateVars, lockVars>>

\* The value hashtable_add_replace() leaves in the book, after it has returned
\* the old one, cnt.
Counted(cnt) == IF cnt > 1 THEN cnt + 1 ELSE 1

\* prepare_and_aquire(), on return from the function.
LockPost(t) ==
  LET m == mutex[t]
      cnt == mutex_book[t][m]
  IN
  /\ pc[t] = "locked"
  /\ mutex_book' = [mutex_book EXCEPT ![t][m] = Counted(cnt)]
  /\ IF cnt > 1 THEN NoDetectorCall ELSE Acquire(t, m)
  /\ Leave(t)
  /\ NoProgramStep
  /\ UNCHANGED <<mem_buf, lockVars>>

\* prepare_and_release(), before the function that unlocks is entered.  A mutex
\* that is not in the book is passed over.
CallUnlock(t, m) ==
  LET cnt == mutex_book[t][m] IN
  /\ pc[t] = "run"
  /\ owner[m] = t
  /\ pc' = [pc EXCEPT ![t] = IF cnt = 0 THEN "unlocked" ELSE "unlock"]
  /\ mutex' = [mutex EXCEPT ![t] = m]
  /\ mutex_book' = [mutex_book EXCEPT ![t][m] = IF cnt = 0 THEN 0 ELSE cnt - 1]
  /\ NoDetectorCall
  /\ NoProgramStep
  /\ UNCHANGED <<mem_buf, lockVars>>

\* Mutant of UnlockPre: the mutex is released before the buffer is processed.
MutReleaseFirst(t) ==
  /\ pc[t] = "unlock"
  /\ Known(t)
  /\ Release(t, mutex[t])
  /\ Goto(t, "unlocked")
  /\ NoProgramStep
  /\ UNCHANGED <<stateVars, lockVars>>

UnlockPre(t) ==
  /\ pc[t] = "unlock"
  /\ Flushed(t)
  /\ Release(t, mutex[t])
  /\ Goto(t, "unlocked")
  /\ NoProgramStep
  /\ UNCHANGED <<stateVars, lockVars>>

\* The program unlocks the mutex.
Unlock(t) ==
  LET m == mutex[t] IN
  /\ pc[t] = "unlocked"
  /\ depth' = [depth EXCEPT ![m] = @ - 1]
  /\ owner' = [owner EXCEPT ![m] = IF depth[m] = 1 THEN 0 ELSE t]
  /\ IF depth[m] = 1 THEN HBRelease(t, m) ELSE NoProgramStep
  /\ Leave(t)
  /\ NoDetectorCall
  /\ UNCHANGED <<stateVars, heap>>

-----------------------------------------------------------------------------
(* Annotations and barriers. *)

\* Mutant of AnnotateBefore: the edge is drawn before the buffer is processed.
MutEdgeFirst(t, i) ==
  /\ pc[t] = "call"
  /\ Known(t)
  /\ HappensBefore(t, i)
  /\ HBBefore(t, i)
  /\ Goto(t, "call")
  /\ UNCHANGED <<stateVars, lockVars>>

\* happens_before(), on return from an annotating function, and barrier_enter(): the
\* call of the function has flushed.
AnnotateBefore(t, i) ==
  /\ pc[t] = "call"
  /\ Flushed(t)
  /\ HappensBefore(t, i)
  /\ HBBefore(t, i)
  /\ Goto(t, "run")
  /\ UNCHANGED <<stateVars, lockVars>>

\* happens_after(), and barrier_leave().
AnnotateAfter(t, i) ==
  /\ pc[t] = "call"
  /\ Flushed(t)
  /\ HappensAfter(t, i)
  /\ HBAfter(t, i)
  /\ Goto(t, "run")
  /\ UNCHANGED <<stateVars, lockVars>>

-----------------------------------------------------------------------------
(* Heap blocks.  Calling the allocator has flushed, as every call does.  A program *)
(* frees what all accesses are ordered before.                                    *)

Ordered(t, x) == \A u \in Tid : lastW[x][u] <= hb[t][u] /\ lastR[x][u] <= hb[t][u]

\* The allocator takes a block ...
Alloc(t, b) ==
  /\ pc[t] = "call"
  /\ Flushed(t)
  /\ heap[b] = "free"
  /\ heap' = [heap EXCEPT ![b] = "taken"]
  /\ pc' = [pc EXCEPT ![t] = "taken"]
  /\ mutex' = [mutex EXCEPT ![t] = b]
  /\ NoDetectorCall
  /\ NoProgramStep
  /\ UNCHANGED <<stateVars, owner, depth>>

\* ... and hands it out: alloc_post().
AllocPost(t) ==
  LET b == mutex[t] IN
  /\ pc[t] = "taken"
  /\ Allocate(b[1], b[2])
  /\ heap' = [heap EXCEPT ![b] = "used"]
  /\ Leave(t)
  /\ NoProgramStep
  /\ UNCHANGED <<stateVars, owner, depth>>

\* Mutant of FreePre: the detector is not told.
MutFreeSilent(t, b) ==
  /\ pc[t] = "call"
  /\ Flushed(t)
  /\ heap[b] = "used"
  /\ \A x \in Within(b[1], b[2]) : Ordered(t, x)
  /\ heap' = [heap EXCEPT ![b] = "leaving"]
  /\ pc' = [pc EXCEPT ![t] = "leaving"]
  /\ mutex' = [mutex EXCEPT ![t] = b]
  /\ NoDetectorCall
  /\ HBFree(Within(b[1], b[2]))
  /\ UNCHANGED <<stateVars, owner, depth>>

\* free_pre() and realloc_pre(), before the allocator is entered.
FreePre(t, b) ==
  /\ pc[t] = "call"
  /\ Flushed(t)
  /\ heap[b] = "used"
  /\ \A x \in Within(b[1], b[2]) : Ordered(t, x)
  /\ heap' = [heap EXCEPT ![b] = "leaving"]
  /\ pc' = [pc EXCEPT ![t] = "leaving"]
  /\ mutex' = [mutex EXCEPT ![t] = b]
  /\ Deallocate(b[1])
  /\ HBFree(Within(b[1], b[2]))
  /\ UNCHANGED <<stateVars, owner, depth>>

\* The block is free for the next owner.
Free(t) ==
  /\ pc[t] = "leaving"
  /\ heap' = [heap EXCEPT ![mutex[t]] = "free"]
  /\ Leave(t)
  /\ NoDetectorCall
  /\ NoProgramStep
  /\ UNCHANGED <<stateVars, owner, depth>>

\* A reallocation takes another block, or the same, in its place.
Realloc(t, b) ==
  /\ pc[t] = "leaving"
  /\ b = mutex[t] \/ heap[b] = "free"
  /\ heap' = [heap EXCEPT ![mutex[t]] = "free", ![b] = "taken"]
  /\ pc' = [pc EXCEPT ![t] = "taken"]
  /\ mutex' = [mutex EXCEPT ![t] = b]
  /\ NoDetectorCall
  /\ NoProgramStep
  /\ UNCHANGED <<stateVars, owner, depth>>

-----------------------------------------------------------------------------
Holds(t) == \E m \in Mutex : owner[m] = t

Flush(t) == LateFork(t) \/ LateAfter(t) \/ Deliver(t) \/ EndCall(t)

ThreadStep(t) ==
  \/ \E x \in Addr, w \in BOOLEAN : MemRef(t, x, w)
  \/ Call(t, "call")
  \/ (\E c \in Tid : <<t, c>> \in Spawn /\ pc[c] = "new") /\ Call(t, "start")
  \/ t \in Ending /\ ~Holds(t) /\ Call(t, "exit")
  \/ \E c \in Tid : StartThread(t, c)
  \/ \E c \in Tid : Await(t, c)
  \/ ExitThread(t)

LockStep(t) ==
  \/ \E m \in Mutex : CallLock(t, m) \/ CallUnlock(t, m)
  \/ Lock(t) \/ LockFails(t) \/ LockPost(t) \/ UnlockPre(t) \/ Unlock(t)

AnnotationStep(t) == \E i \in Annotation : AnnotateBefore(t, i) \/ AnnotateAfter(t, i)

HeapStep(t) ==
  \/ \E b \in Block : Alloc(t, b) \/ FreePre(t, b) \/ Realloc(t, b)
  \/ AllocPost(t)
  \/ Free(t)

CNext ==
  \/ StartProcess
  \/ \E t \in Tid : Flush(t) \/ ThreadStep(t) \/ LockStep(t)
                    \/ AnnotationStep(t) \/ HeapStep(t)

CSpec == CInit /\ [][CNext]_clVars

-----------------------------------------------------------------------------
(* Properties. *)

CTypeOK ==
  /\ TypeOK
  /\ pc \in [Tid -> {"new", "run", "locked", "unlocked", "taken", "leaving", "ended", "gone"}
               \cup Flushing]
  /\ mutex \in [Tid -> Mutex \cup Block \cup {None}]
  /\ \A t \in Tid : mem_buf[t] \in Seq([addr : Addr, write : BOOLEAN])
  /\ \A t \in Tid : Len(mem_buf[t]) <= BufSize
  /\ mutex_book \in [Tid -> [Mutex -> Nat]]
  /\ owner \in [Mutex -> Tid \cup {0}]
  /\ depth \in [Mutex -> 0..MaxDepth]
  /\ heap \in [Block -> {"free", "taken", "used", "leaving"}]

\* No false alarm, end to end: whatever the buffers delay and however the calls
\* of the threads interleave, a race handed to the callback is one between two
\* accesses of the program that nothing it did has ordered.  Apart from
\* the detector's own flaws (RaceDetection) it holds where the first thread starts all
\* the others and ends last, and no mutex is locked twice.  A thread that another one
\* starts is forked with the wrong parent (LateFork), and the outer release of a mutex
\* locked twice is not handed over (Counted): both give false alarms.
ProgramHasRace == [][\A r \in report' : IsRace(r)]_clVars

=============================================================================
