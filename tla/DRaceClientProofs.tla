------------------------- MODULE DRaceClientProofs -------------------------
(***************************************************************************)
(* Proofs about DRaceClient: the types of the client's state, with the     *)
(* bound of the buffers and what the wrappers of the lock functions rely   *)
(* on.                                                                     *)
(***************************************************************************)
EXTENDS DRaceClient, FastTrackProofs

-----------------------------------------------------------------------------
(* The inductive invariant. *)

Ref == [addr : Addr, write : BOOLEAN]

\* A full buffer is processed before anything else.
RoomLeft ==
  /\ mem_buf \in [Tid -> Seq(Ref)]
  /\ \A t \in Tid : Len(mem_buf[t]) = BufSize => pc[t] = "call"

\* What a wrapped call works on.
Arguments ==
  \A t \in Tid :
    /\ pc[t] \in {"lock", "locked", "unlock", "unlocked"} => mutex[t] \in Mutex
    /\ pc[t] \in {"taken", "leaving"} => mutex[t] \in Block

\* A mutex that is held is held at least once, by the thread that is about to unlock
\* it, and is locked again only up to the bound.
Owned ==
  /\ \A m \in Mutex : owner[m] = 0 <=> depth[m] = 0
  /\ \A t \in Tid :
       /\ pc[t] \in {"locked", "unlock", "unlocked"} => owner[mutex[t]] = t
       /\ pc[t] = "lock" /\ owner[mutex[t]] = t => depth[mutex[t]] < MaxDepth

ProgInv == CTypeOK /\ RoomLeft /\ Arguments /\ Owned

-----------------------------------------------------------------------------
(* The detector's part of a step is a call of FastTrack or nothing. *)

LEMMA NoCallType ==
  ASSUME TypeOK, NoDetectorCall
  PROVE  TypeOK'
BY DEF TypeOK, NoDetectorCall, threadVars, syncVars, varVars

LEMMA DetectorTypes ==
  ASSUME ProgInv, [CNext]_clVars
  PROVE  TypeOK'
<1>1. TypeOK
  BY DEF ProgInv, CTypeOK
<1>2. CASE UNCHANGED clVars
  BY <1>1, <1>2, TypeStep DEF clVars
<1>3. CASE StartProcess
  BY <1>1, <1>3, NoCallType DEF StartProcess
<1>4. ASSUME NEW t \in Tid, Flush(t)
      PROVE  TypeOK'
  <2>1. CASE LateFork(t)
    BY <1>1, <2>1, TypeFork, RuntimeTidAssumption DEF LateFork
  <2>2. CASE LateAfter(t)
    BY <1>1, <2>2, TypeEdge, IdentifierAssumption DEF LateAfter
  <2>3. CASE Deliver(t)
    <3>1. Head(mem_buf[t]).addr \in Addr
      <4>1. mem_buf[t] \in Seq(Ref) /\ mem_buf[t] # <<>>
        BY <2>3 DEF Deliver, ProgInv, RoomLeft
      <4>2. Head(mem_buf[t]) \in Ref
        BY <4>1
      <4> QED BY <4>2 DEF Ref
    <3> QED BY <1>1, <2>3, <3>1, TypeRead, TypeWrite DEF Deliver
  <2>4. CASE EndCall(t)
    BY <1>1, <2>4, NoCallType DEF EndCall
  <2> QED BY <1>4, <2>1, <2>2, <2>3, <2>4 DEF Flush
<1>5. ASSUME NEW t \in Tid, ThreadStep(t)
      PROVE  TypeOK'
  <2>1. CASE ExitThread(t)
    BY <1>1, <2>1, NoCallType, TypeEnd, RuntimeTidAssumption DEF ExitThread
  <2>2. CASE ~ExitThread(t)
    <3>1. NoDetectorCall
      BY <1>5, <2>2 DEF ThreadStep, MemRef, Call, StartThread, Await
    <3> QED BY <1>1, <3>1, NoCallType
  <2> QED BY <2>1, <2>2
<1>6. ASSUME NEW t \in Tid, LockStep(t)
      PROVE  TypeOK'
  <2>1. CASE LockPost(t)
    <3>1. mutex[t] \in Mutex
      BY <2>1 DEF LockPost, ProgInv, Arguments
    <3> QED BY <1>1, <2>1, <3>1, NoCallType, TypeLock DEF LockPost
  <2>2. CASE UnlockPre(t)
    <3>1. mutex[t] \in Mutex
      BY <2>2 DEF UnlockPre, ProgInv, Arguments
    <3> QED BY <1>1, <2>2, <3>1, TypeLock DEF UnlockPre
  <2>3. CASE ~LockPost(t) /\ ~UnlockPre(t)
    <3>1. NoDetectorCall
      BY <1>6, <2>3 DEF LockStep, CallLock, CallUnlock, Lock, LockFails, Unlock
    <3> QED BY <1>1, <3>1, NoCallType
  <2> QED BY <2>1, <2>2, <2>3
<1>7. ASSUME NEW t \in Tid, AnnotationStep(t)
      PROVE  TypeOK'
  BY <1>1, <1>7, TypeEdge, IdentifierAssumption DEF AnnotationStep, AnnotateBefore, AnnotateAfter
<1>8. ASSUME NEW t \in Tid, HeapStep(t)
      PROVE  TypeOK'
  <2>1. ASSUME AllocPost(t)
        PROVE  TypeOK'
    <3>1. mutex[t] \in Block
      BY <2>1 DEF AllocPost, ProgInv, Arguments
    <3> QED BY <1>1, <2>1, <3>1, TypeHeap DEF AllocPost
  <2>2. ASSUME NEW b \in Block, FreePre(t, b)
        PROVE  TypeOK'
    BY <1>1, <2>2, TypeHeap DEF FreePre
  <2>3. ASSUME NEW b \in Block, Alloc(t, b) \/ Realloc(t, b) \/ Free(t)
        PROVE  TypeOK'
    BY <1>1, <2>3, NoCallType DEF Alloc, Realloc, Free
  <2>4. CASE Free(t)
    BY <1>1, <2>4, NoCallType DEF Free
  <2> QED BY <1>8, <2>1, <2>2, <2>3, <2>4 DEF HeapStep
<1> QED BY <1>2, <1>3, <1>4, <1>5, <1>6, <1>7, <1>8 DEF CNext

-----------------------------------------------------------------------------
(* The client's and the program's part. *)

\* The process has not begun.
LEMMA ProgInit == CInit => ProgInv
<1> SUFFICES ASSUME CInit PROVE ProgInv
  OBVIOUS
<1> USE TidAssumption, BufSizeAssumption, MaxDepthAssumption
<1>1. TypeOK
  BY TypeInit DEF CInit
<1>2. mem_buf \in [Tid -> Seq(Ref)] /\ \A t \in Tid : Len(mem_buf[t]) = 0
  BY DEF CInit
<1>3. CTypeOK
  <2>1. /\ pc \in [Tid -> {"new"}] /\ mutex \in [Tid -> {None}]
        /\ mutex_book \in [Tid -> [Mutex -> Nat]]
        /\ owner \in [Mutex -> Tid \cup {0}] /\ depth \in [Mutex -> 0..MaxDepth]
        /\ heap \in [Block -> {"free"}]
    BY DEF CInit
  <2> QED BY <1>1, <1>2, <2>1 DEF CTypeOK, Ref
<1>4. RoomLeft
  BY <1>2 DEF RoomLeft
<1>5. Arguments /\ Owned
  BY DEF CInit, Arguments, Owned
<1> QED BY <1>3, <1>4, <1>5 DEF ProgInv

PCs == {"new", "run", "locked", "unlocked", "taken", "leaving", "ended", "gone"} \cup Flushing

\* The parts of the invariant that a step can touch, but for the detector's types.
ClientOK ==
  /\ pc \in [Tid -> PCs]
  /\ mutex \in [Tid -> Mutex \cup Block \cup {None}]
  /\ \A t \in Tid : Len(mem_buf[t]) <= BufSize
  /\ mutex_book \in [Tid -> [Mutex -> Nat]]
  /\ owner \in [Mutex -> Tid \cup {0}]
  /\ depth \in [Mutex -> 0..MaxDepth]
  /\ heap \in [Block -> {"free", "taken", "used", "leaving"}]
  /\ RoomLeft /\ Arguments /\ Owned

LEMMA ClientParts == ProgInv <=> TypeOK /\ ClientOK
BY DEF ProgInv, CTypeOK, ClientOK, RoomLeft, Ref, PCs

\* The thread t goes on; buffers, mutexes and blocks stay as they are.
LEMMA GoesOn ==
  ASSUME ClientOK, NEW t \in Tid, NEW p \in PCs, pc' = [pc EXCEPT ![t] = p],
         mutex' \in [Tid -> Mutex \cup Block \cup {None}],
         \A u \in Tid \ {t} : mutex'[u] = mutex[u],
         Len(mem_buf[t]) = BufSize => p = "call",
         p \in {"lock", "locked", "unlock", "unlocked"} => mutex'[t] \in Mutex,
         p \in {"taken", "leaving"} => mutex'[t] \in Block,
         p \in {"locked", "unlock", "unlocked"} => owner[mutex'[t]] = t,
         p = "lock" /\ owner[mutex'[t]] = t => depth[mutex'[t]] < MaxDepth,
         mutex_book' \in [Tid -> [Mutex -> Nat]],
         heap' \in [Block -> {"free", "taken", "used", "leaving"}],
         UNCHANGED <<mem_buf, owner, depth>>
  PROVE  ClientOK'
<1>1. pc' \in [Tid -> PCs] /\ pc'[t] = p /\ \A u \in Tid \ {t} : pc'[u] = pc[u]
  BY DEF ClientOK
<1>2. RoomLeft'
  BY <1>1 DEF ClientOK, RoomLeft
<1>3. Arguments'
  BY <1>1 DEF ClientOK, Arguments
<1>4. Owned'
  BY <1>1 DEF ClientOK, Owned
<1> QED BY <1>1, <1>2, <1>3, <1>4 DEF ClientOK

\* Processing the buffer only shortens it.
LEMMA FlushKeeps ==
  ASSUME ClientOK, NEW t \in Tid, Flush(t)
  PROVE  ClientOK'
<1> USE BufSizeAssumption
<1>1. ASSUME NEW s \in Seq(Ref), Len(s) < BufSize, mem_buf' = [mem_buf EXCEPT ![t] = s],
             UNCHANGED <<callVars, mutex_book, lockVars>>
      PROVE  ClientOK'
  <2>1. \A u \in Tid : mem_buf'[u] = IF u = t THEN s ELSE mem_buf[u]
    BY <1>1 DEF ClientOK, RoomLeft
  <2>2. \A u \in Tid : Len(mem_buf'[u]) <= BufSize
    BY <1>1, <2>1 DEF ClientOK
  <2>3. RoomLeft'
    BY <1>1, <2>1 DEF ClientOK, RoomLeft, callVars
  <2>4. Arguments' /\ Owned'
    BY <1>1 DEF ClientOK, Arguments, Owned, callVars, lockVars
  <2> QED BY <1>1, <2>2, <2>3, <2>4 DEF ClientOK, callVars, lockVars
<1>2. CASE LateFork(t)
  <2>1. UNCHANGED <<callVars, stateVars, lockVars>>
    BY <1>2 DEF LateFork
  <2> QED BY <2>1 DEF ClientOK, RoomLeft, Arguments, Owned, callVars, stateVars, lockVars
<1>3. CASE LateAfter(t)
  <2>1. <<>> \in Seq(Ref) /\ Len(<<>>) < BufSize
    OBVIOUS
  <2> QED BY <1>1, <1>3, <2>1 DEF LateAfter, clear_buffer
<1>4. CASE Deliver(t)
  <2>1. mem_buf[t] \in Seq(Ref) /\ mem_buf[t] # <<>> /\ Len(mem_buf[t]) <= BufSize
    BY <1>4 DEF Deliver, ClientOK, RoomLeft
  <2>2. Tail(mem_buf[t]) \in Seq(Ref) /\ Len(Tail(mem_buf[t])) < BufSize
    BY <2>1
  <2>3. mem_buf' = [mem_buf EXCEPT ![t] = Tail(mem_buf[t])]
    BY <1>4 DEF Deliver
  <2> QED BY <1>1, <1>4, <2>2, <2>3 DEF Deliver
<1>5. CASE EndCall(t)
  <2>1. mem_buf[t] = <<>> /\ pc' = [pc EXCEPT ![t] = "run"] /\ mutex' = mutex
        /\ UNCHANGED <<stateVars, lockVars>>
    BY <1>5 DEF EndCall, Flushed, Goto
  <2>2. Len(mem_buf[t]) # BufSize
    BY <2>1
  <2> QED BY <2>1, <2>2, GoesOn DEF ClientOK, PCs, stateVars, lockVars
<1> QED BY <1>2, <1>3, <1>4, <1>5 DEF Flush

\* A step from a place where the buffer is not full.
LEMMA NotFull ==
  ASSUME ClientOK, NEW t \in Tid, pc[t] # "call" \/ mem_buf[t] = <<>>
  PROVE  Len(mem_buf[t]) # BufSize /\ Len(mem_buf[t]) < BufSize
<1>1. Len(mem_buf[t]) # BufSize
  BY BufSizeAssumption DEF ClientOK, RoomLeft
<1>2. Len(mem_buf[t]) \in Nat /\ Len(mem_buf[t]) <= BufSize
  BY DEF ClientOK, RoomLeft
<1> QED BY <1>1, <1>2, BufSizeAssumption

\* Accesses, calls, and the start and end of threads.
LEMMA ThreadStepKeeps ==
  ASSUME ClientOK, NEW t \in Tid, ThreadStep(t)
  PROVE  ClientOK'
<1> USE BufSizeAssumption DEF stateVars, lockVars
<1>1. ASSUME NEW x \in Addr, NEW w \in BOOLEAN, MemRef(t, x, w)
      PROVE  ClientOK'
  <2> DEFINE s == Append(mem_buf[t], [addr |-> x, write |-> w])
  <2> DEFINE p == IF Len(s) = BufSize THEN "call" ELSE "run"
  <2>1. Len(mem_buf[t]) < BufSize /\ mem_buf[t] \in Seq(Ref)
    BY <1>1, NotFull DEF MemRef, ClientOK, RoomLeft
  <2>2. s \in Seq(Ref) /\ Len(s) <= BufSize
    <3>1. [addr |-> x, write |-> w] \in Ref
      BY DEF Ref
    <3>2. Len(s) = Len(mem_buf[t]) + 1 /\ Len(mem_buf[t]) \in Nat
      BY <2>1
    <3> QED BY <2>1, <3>1, <3>2
  <2>3. mem_buf' = [mem_buf EXCEPT ![t] = s] /\ mutex' = mutex
        /\ UNCHANGED <<mutex_book, lockVars>>
    BY <1>1 DEF MemRef, Goto
  <2>4. mem_buf'[t] = s /\ \A u \in Tid \ {t} : mem_buf'[u] = mem_buf[u]
    BY <2>3 DEF ClientOK, RoomLeft
  <2>5. pc' = [pc EXCEPT ![t] = p]
    BY <1>1, <2>4 DEF MemRef, Goto
  <2>6. mem_buf' \in [Tid -> Seq(Ref)]
    BY <2>2, <2>3 DEF ClientOK, RoomLeft
  <2>7. pc' \in [Tid -> PCs] /\ pc'[t] = p /\ p \in {"call", "run"}
        /\ \A u \in Tid \ {t} : pc'[u] = pc[u]
    BY <2>5 DEF ClientOK, PCs, Flushing
  <2>8. RoomLeft'
    BY <2>4, <2>6, <2>7 DEF ClientOK, RoomLeft
  <2>9. Arguments' /\ Owned'
    <3> HIDE DEF p, s
    <3> QED BY <2>3, <2>7 DEF ClientOK, Arguments, Owned
  <2>10. \A u \in Tid : Len(mem_buf'[u]) <= BufSize
    BY <2>2, <2>4 DEF ClientOK
  <2> QED BY <2>3, <2>7, <2>8, <2>9, <2>10 DEF ClientOK
<1>2. ASSUME NEW where \in {"call", "start", "exit"}, Call(t, where)
      PROVE  ClientOK'
  <2>1. Len(mem_buf[t]) # BufSize
    BY <1>2, NotFull DEF Call
  <2> QED BY <1>2, <2>1, GoesOn DEF Call, Goto, ClientOK, PCs, Flushing
<1>3. ASSUME NEW c \in Tid, StartThread(t, c)
      PROVE  ClientOK'
  <2>1. Len(mem_buf[t]) # BufSize /\ Len(mem_buf[c]) # BufSize
    BY <1>3, NotFull DEF StartThread, Flushed
  <2>2. pc' = [pc EXCEPT ![t] = "run", ![c] = "run"] /\ UNCHANGED <<mutex, stateVars, lockVars>>
    BY <1>3 DEF StartThread
  <2>3. pc' \in [Tid -> PCs] /\ pc'[t] = "run" /\ pc'[c] = "run"
        /\ \A u \in Tid \ {t, c} : pc'[u] = pc[u]
    BY <2>2 DEF ClientOK, PCs
  <2>4. RoomLeft' /\ Arguments' /\ Owned'
    BY <2>1, <2>2, <2>3 DEF ClientOK, RoomLeft, Arguments, Owned
  <2> QED BY <2>2, <2>3, <2>4 DEF ClientOK
<1>4. ASSUME NEW c \in Tid, Await(t, c)
      PROVE  ClientOK'
  <2>1. Len(mem_buf[c]) # BufSize
    BY <1>4, NotFull DEF Await
  <2> QED BY <1>4, <2>1, GoesOn DEF Await, Goto, ClientOK, PCs
<1>5. CASE ExitThread(t)
  <2>1. Len(mem_buf[t]) # BufSize
    BY <1>5, NotFull DEF ExitThread
  <2> QED BY <1>5, <2>1, GoesOn DEF ExitThread, Goto, ClientOK, PCs
<1> QED BY <1>1, <1>2, <1>3, <1>4, <1>5 DEF ThreadStep

\* The wrappers of the lock functions, and the program's own mutexes.
LEMMA LockStepKeeps ==
  ASSUME ClientOK, NEW t \in Tid, LockStep(t)
  PROVE  ClientOK'
<1> USE TidAssumption, MaxDepthAssumption DEF stateVars, lockVars
<1>1. ASSUME NEW m \in Mutex, CallLock(t, m)
      PROVE  ClientOK'
  <2>1. Len(mem_buf[t]) # BufSize
    BY <1>1, NotFull DEF CallLock
  <2>2. pc' = [pc EXCEPT ![t] = "lock"] /\ mutex' = [mutex EXCEPT ![t] = m]
        /\ UNCHANGED <<mem_buf, mutex_book, owner, depth, heap>>
        /\ (owner[m] = t => depth[m] < MaxDepth)
    BY <1>1 DEF CallLock
  <2> QED BY <2>1, <2>2, GoesOn DEF ClientOK, PCs, Flushing
<1>2. ASSUME NEW m \in Mutex, CallUnlock(t, m)
      PROVE  ClientOK'
  <2> DEFINE p == IF mutex_book[t][m] = 0 THEN "unlocked" ELSE "unlock"
  <2> DEFINE n == IF mutex_book[t][m] = 0 THEN 0 ELSE mutex_book[t][m] - 1
  <2>1. Len(mem_buf[t]) # BufSize
    BY <1>2, NotFull DEF CallUnlock
  <2>2. pc' = [pc EXCEPT ![t] = p] /\ mutex' = [mutex EXCEPT ![t] = m]
        /\ mutex_book' = [mutex_book EXCEPT ![t][m] = n]
        /\ UNCHANGED <<mem_buf, owner, depth, heap>> /\ owner[m] = t
    BY <1>2 DEF CallUnlock
  <2>3. n \in Nat /\ p \in {"unlocked", "unlock"}
    BY DEF ClientOK
  <2> HIDE DEF p, n
  <2>4. mutex_book' \in [Tid -> [Mutex -> Nat]]
    BY <2>2, <2>3 DEF ClientOK
  <2> QED BY <2>1, <2>2, <2>3, <2>4, GoesOn DEF ClientOK, PCs, Flushing
<1>3. CASE Lock(t)
  <2> DEFINE m == mutex[t]
  <2>1. m \in Mutex /\ Len(mem_buf[t]) # BufSize /\ pc[t] = "lock"
    BY <1>3, NotFull DEF Lock, ClientOK, Arguments
  <2>2. pc' = [pc EXCEPT ![t] = "locked"] /\ mutex' = mutex
        /\ owner[m] \in {0, t}
        /\ owner' = [owner EXCEPT ![m] = t] /\ depth' = [depth EXCEPT ![m] = depth[m] + 1]
        /\ UNCHANGED <<mem_buf, mutex_book, heap>>
    BY <1>3 DEF Lock, Goto
  <2>3. depth[m] < MaxDepth /\ depth[m] \in Nat
    BY <2>1, <2>2 DEF ClientOK, Owned
  <2> HIDE DEF m
  <2>4. pc' \in [Tid -> PCs] /\ pc'[t] = "locked" /\ \A u \in Tid \ {t} : pc'[u] = pc[u]
    BY <2>2 DEF ClientOK, PCs
  <2>5. owner' \in [Mutex -> Tid \cup {0}] /\ depth' \in [Mutex -> 0..MaxDepth]
        /\ owner'[m] = t /\ depth'[m] = depth[m] + 1
        /\ \A k \in Mutex \ {m} : owner'[k] = owner[k] /\ depth'[k] = depth[k]
    BY <2>1, <2>2, <2>3 DEF ClientOK
  <2>6. RoomLeft' /\ Arguments'
    BY <2>1, <2>2, <2>4 DEF ClientOK, RoomLeft, Arguments
  <2>7. Owned'
    <3>1. \A k \in Mutex : owner'[k] = 0 <=> depth'[k] = 0
      BY <2>3, <2>5 DEF ClientOK, Owned
    <3>2. owner'[mutex'[t]] = t
      BY <2>2, <2>5 DEF m
    <3>3. ASSUME NEW u \in Tid \ {t}
          PROVE  /\ pc'[u] \in {"locked", "unlock", "unlocked"} => owner'[mutex'[u]] = u
                 /\ pc'[u] = "lock" /\ owner'[mutex'[u]] = u => depth'[mutex'[u]] < MaxDepth
      <4>1. CASE mutex[u] = m
        BY <2>2, <2>4, <2>5, <4>1 DEF ClientOK, Owned
      <4>2. CASE mutex[u] # m
        BY <2>2, <2>4, <2>5, <4>2 DEF ClientOK, Owned, Arguments
      <4> QED BY <4>1, <4>2
    <3> QED BY <2>4, <3>1, <3>2, <3>3 DEF Owned
  <2> QED BY <2>2, <2>4, <2>5, <2>6, <2>7 DEF ClientOK
<1>4. CASE LockFails(t)
  <2>1. Len(mem_buf[t]) # BufSize
    BY <1>4, NotFull DEF LockFails
  <2> QED BY <1>4, <2>1, GoesOn DEF LockFails, Leave, ClientOK, PCs
<1>5. CASE LockPost(t)
  <2> DEFINE m == mutex[t]
  <2> DEFINE n == Counted(mutex_book[t][m])
  <2>1. Len(mem_buf[t]) # BufSize /\ m \in Mutex
    BY <1>5, NotFull DEF LockPost, ClientOK, Arguments
  <2>2. n \in Nat
    BY <2>1 DEF Counted, ClientOK
  <2>3. pc' = [pc EXCEPT ![t] = "run"] /\ mutex' = [mutex EXCEPT ![t] = None]
        /\ mutex_book' = [mutex_book EXCEPT ![t][m] = n]
        /\ UNCHANGED <<mem_buf, owner, depth, heap>>
    BY <1>5 DEF LockPost, Leave
  <2> HIDE DEF m, n
  <2>4. mutex_book' \in [Tid -> [Mutex -> Nat]]
    BY <2>1, <2>2, <2>3 DEF ClientOK
  <2> QED BY <2>1, <2>3, <2>4, GoesOn DEF ClientOK, PCs
<1>6. CASE UnlockPre(t)
  <2>1. Len(mem_buf[t]) # BufSize /\ pc[t] = "unlock"
    BY <1>6, NotFull DEF UnlockPre
  <2>2. mutex[t] \in Mutex /\ owner[mutex[t]] = t
    BY <2>1 DEF ClientOK, Arguments, Owned
  <2> QED BY <1>6, <2>1, <2>2, GoesOn DEF UnlockPre, Goto, ClientOK, PCs
<1>7. CASE Unlock(t)
  <2> DEFINE m == mutex[t]
  <2>1. m \in Mutex /\ Len(mem_buf[t]) # BufSize /\ owner[m] = t
    BY <1>7, NotFull DEF Unlock, ClientOK, Arguments, Owned
  <2>2. pc' = [pc EXCEPT ![t] = "run"] /\ mutex' = [mutex EXCEPT ![t] = None]
        /\ depth' = [depth EXCEPT ![m] = depth[m] - 1]
        /\ owner' = [owner EXCEPT ![m] = IF depth[m] = 1 THEN 0 ELSE t]
        /\ UNCHANGED <<mem_buf, mutex_book, heap>>
    BY <1>7 DEF Unlock, Leave
  <2>3. depth[m] \in 1..MaxDepth
    BY <2>1 DEF ClientOK, Owned
  <2> HIDE DEF m
  <2>4. pc' \in [Tid -> PCs] /\ pc'[t] = "run" /\ mutex' \in [Tid -> Mutex \cup Block \cup {None}]
        /\ \A u \in Tid \ {t} : pc'[u] = pc[u] /\ mutex'[u] = mutex[u]
    BY <2>2 DEF ClientOK, PCs
  <2>5. owner' \in [Mutex -> Tid \cup {0}] /\ depth' \in [Mutex -> 0..MaxDepth]
        /\ owner'[m] = (IF depth[m] = 1 THEN 0 ELSE t) /\ depth'[m] = depth[m] - 1
        /\ \A k \in Mutex \ {m} : owner'[k] = owner[k] /\ depth'[k] = depth[k]
    BY <2>1, <2>2, <2>3 DEF ClientOK
  <2>6. RoomLeft' /\ Arguments'
    BY <2>1, <2>2, <2>4 DEF ClientOK, RoomLeft, Arguments
  <2>7. Owned'
    <3>1. \A k \in Mutex : owner'[k] = 0 <=> depth'[k] = 0
      BY <2>3, <2>5 DEF ClientOK, Owned
    <3>2. ASSUME NEW u \in Tid \ {t}
          PROVE  /\ pc'[u] \in {"locked", "unlock", "unlocked"} => owner'[mutex'[u]] = u
                 /\ pc'[u] = "lock" /\ owner'[mutex'[u]] = u => depth'[mutex'[u]] < MaxDepth
      <4>1. CASE mutex[u] = m
        BY <2>1, <2>4, <2>5, <4>1 DEF ClientOK, Owned
      <4>2. CASE mutex[u] # m
        BY <2>4, <2>5, <4>2 DEF ClientOK, Owned, Arguments
      <4> QED BY <4>1, <4>2
    <3> QED BY <2>4, <3>1, <3>2 DEF Owned
  <2> QED BY <2>2, <2>4, <2>5, <2>6, <2>7 DEF ClientOK
<1> QED BY <1>1, <1>2, <1>3, <1>4, <1>5, <1>6, <1>7 DEF LockStep

\* Annotations and the allocator's wrappers.
LEMMA CallStepKeeps ==
  ASSUME ClientOK, NEW t \in Tid, AnnotationStep(t) \/ HeapStep(t)
  PROVE  ClientOK'
<1> USE DEF stateVars, lockVars
<1>1. ASSUME NEW i \in Annotation, AnnotateBefore(t, i) \/ AnnotateAfter(t, i)
      PROVE  ClientOK'
  <2>1. Len(mem_buf[t]) # BufSize
    BY <1>1, NotFull DEF AnnotateBefore, AnnotateAfter, Flushed
  <2> QED
    BY <1>1, <2>1, GoesOn DEF AnnotateBefore, AnnotateAfter, Goto, ClientOK, PCs
<1>2. ASSUME NEW b \in Block, NEW p \in {"taken", "leaving"}, Len(mem_buf[t]) # BufSize,
             pc' = [pc EXCEPT ![t] = p], mutex' = [mutex EXCEPT ![t] = b],
             heap' \in [Block -> {"free", "taken", "used", "leaving"}],
             UNCHANGED <<mem_buf, mutex_book, owner, depth>>
      PROVE  ClientOK'
  <2>1. mutex' \in [Tid -> Mutex \cup Block \cup {None}] /\ mutex'[t] = b
        /\ \A u \in Tid \ {t} : mutex'[u] = mutex[u]
    BY <1>2 DEF ClientOK
  <2>2. p \in PCs /\ mutex_book' \in [Tid -> [Mutex -> Nat]]
    BY <1>2 DEF PCs, ClientOK
  <2> QED BY <1>2, <2>1, <2>2, GoesOn
<1>3. ASSUME Len(mem_buf[t]) # BufSize, Leave(t),
             heap' \in [Block -> {"free", "taken", "used", "leaving"}],
             UNCHANGED <<mem_buf, mutex_book, owner, depth>>
      PROVE  ClientOK'
  <2>1. mutex' \in [Tid -> Mutex \cup Block \cup {None}]
        /\ \A u \in Tid \ {t} : mutex'[u] = mutex[u]
    BY <1>3 DEF ClientOK, Leave
  <2>2. "run" \in PCs /\ mutex_book' \in [Tid -> [Mutex -> Nat]]
    BY <1>3 DEF PCs, ClientOK
  <2> QED BY <1>3, <2>1, <2>2, GoesOn DEF Leave
<1>4. ASSUME NEW b \in Block, Alloc(t, b) \/ FreePre(t, b)
      PROVE  ClientOK'
  <2>1. Len(mem_buf[t]) # BufSize
    BY <1>4, NotFull DEF Alloc, FreePre, Flushed
  <2>2. heap' \in [Block -> {"free", "taken", "used", "leaving"}]
    BY <1>4 DEF Alloc, FreePre, ClientOK
  <2> QED BY <1>2, <1>4, <2>1, <2>2 DEF Alloc, FreePre
<1>5. ASSUME NEW b \in Block, Realloc(t, b)
      PROVE  ClientOK'
  <2>1. Len(mem_buf[t]) # BufSize
    BY <1>5, NotFull DEF Realloc
  <2>2. heap' \in [Block -> {"free", "taken", "used", "leaving"}]
    BY <1>5 DEF Realloc, ClientOK
  <2> QED BY <1>2, <1>5, <2>1, <2>2 DEF Realloc
<1>6. CASE AllocPost(t) \/ Free(t)
  <2>1. Len(mem_buf[t]) # BufSize
    BY <1>6, NotFull DEF AllocPost, Free
  <2>2. heap' \in [Block -> {"free", "taken", "used", "leaving"}]
    BY <1>6 DEF AllocPost, Free, ClientOK
  <2> QED BY <1>3, <1>6, <2>1, <2>2 DEF AllocPost, Free
<1> QED BY <1>1, <1>4, <1>5, <1>6 DEF AnnotationStep, HeapStep

\* Every step keeps the types.
LEMMA ProgStep == ProgInv /\ [CNext]_clVars => ProgInv'
<1> SUFFICES ASSUME ProgInv, [CNext]_clVars PROVE ProgInv'
  OBVIOUS
<1>1. TypeOK' /\ ClientOK
  BY DetectorTypes, ClientParts
<1>2. ClientOK'
  <2>1. CASE UNCHANGED clVars
    BY <1>1, <2>1
       DEF clVars, callVars, stateVars, lockVars, ClientOK, RoomLeft, Arguments, Owned
  <2>2. CASE StartProcess
    <3>1. Len(mem_buf[RuntimeTid]) # BufSize
      BY <1>1, <2>2, NotFull, RuntimeTidAssumption DEF StartProcess
    <3> QED
      BY <1>1, <2>2, <3>1, GoesOn, RuntimeTidAssumption
         DEF StartProcess, Goto, ClientOK, PCs, stateVars, lockVars
  <2>3. CASE \E t \in Tid : Flush(t) \/ ThreadStep(t) \/ LockStep(t)
                            \/ AnnotationStep(t) \/ HeapStep(t)
    BY <1>1, <2>3, FlushKeeps, ThreadStepKeeps, LockStepKeeps, CallStepKeeps
  <2> QED BY <2>1, <2>2, <2>3 DEF CNext
<1>3. (TypeOK /\ ClientOK => ProgInv)'
  BY ClientParts, PTL
<1> QED BY <1>1, <1>2, <1>3

\* The client and the detector keep their types, for any program: no access is put
\* behind the end of a buffer, and no mutex is given up that is not held.
THEOREM CTypeCorrect == CSpec => []CTypeOK
<1>1. ProgInv => CTypeOK
  BY DEF ProgInv
<1> QED BY <1>1, ProgInit, ProgStep, PTL DEF CSpec

=============================================================================
