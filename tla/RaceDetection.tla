--------------------------- MODULE RaceDetection ---------------------------
(***************************************************************************)
(* FastTrack watching a program.  The program makes only the calls the     *)
(* premises of Detector.h allow (every thread forked once before it acts,  *)
(* mutexes exclude one another, only live blocks are freed), and every     *)
(* call is also played to the happens-before reference, so that what the   *)
(* detector reports can be compared with what there is to report.          *)
(***************************************************************************)
EXTENDS FastTrack, HBReference

CONSTANTS
  Spawn,     \* <<parent, child>>: which thread starts which
  TidReuse,  \* may the system hand the id of an ended thread to a new one?
  Ending,    \* the threads that end while the program runs
  MaxDepth   \* bound on the recursion of a mutex

ASSUME SpawnAssumption == Spawn \subseteq Tid \X Tid
ASSUME TidReuseAssumption == TidReuse \in BOOLEAN
ASSUME EndingAssumption == Ending \subseteq Tid
ASSUME MaxDepthAssumption == MaxDepth \in Nat \ {0}

VARIABLES
  used,   \* ids threads have had so far
  owner,  \* thread holding a mutex, or 0
  depth,  \* how often it holds it
  heap    \* live blocks

progVars == <<used, owner, depth, heap>>
rdVars == <<ftVars, hbVars, progVars>>

RDInit ==
  /\ Init
  /\ HBInit
  /\ used = {}
  /\ owner = [m \in Mutex |-> 0]
  /\ depth = [m \in Mutex |-> 0]
  /\ heap = {}

Holds(t) == \E m \in Mutex : owner[m] = t

\* Premise: "There are no double forks of the same thread as child".  Ids are
\* handed out in ascending order; which number a thread has is of no moment.
MayStart(p, c) ==
  /\ <<p, c>> \in Spawn
  /\ c \notin threads
  /\ TidReuse \/ c \notin used
  /\ \A t \in Tid : t < c => t \in used

PForkRoot(p, c) ==
  /\ MayStart(p, c)
  /\ ForkRoot(p, c)
  /\ HBForkRoot(c)
  /\ used' = used \cup {c}
  /\ UNCHANGED <<owner, depth, heap>>

PForkChild(p, c) ==
  /\ MayStart(p, c)
  /\ ForkChild(p, c)
  /\ HBForkChild(p, c)
  /\ used' = used \cup {c}
  /\ UNCHANGED <<owner, depth, heap>>

PJoin(p, c) ==
  /\ p # c
  /\ c \in Ending
  /\ ~Holds(c)
  /\ Join(p, c)
  /\ HBJoin(p, c)
  /\ UNCHANGED progVars

PFinish(t) ==
  /\ t \in threads \cap Ending
  /\ ~Holds(t)
  /\ Finish(t)
  /\ HBFinish(t)
  /\ UNCHANGED progVars

PAcquire(t, m) ==
  /\ owner[m] = 0
  /\ Acquire(t, m)
  /\ HBAcquire(t, m)
  /\ owner' = [owner EXCEPT ![m] = t]
  /\ depth' = [depth EXCEPT ![m] = 1]
  /\ UNCHANGED <<used, heap>>

\* acquire() with recursive > 1 returns at once.
PAcquireAgain(t, m) ==
  /\ owner[m] = t
  /\ depth[m] < MaxDepth
  /\ depth' = [depth EXCEPT ![m] = @ + 1]
  /\ report' = {}
  /\ UNCHANGED <<threadVars, syncVars, varVars, allocs, edgeVars, used, owner, heap>>
  /\ Silent

\* Every unlock is handed to the detector, the one that frees the mutex and the
\* inner ones; only the former is an edge for the reference.
PReleaseInner(t, m) ==
  /\ owner[m] = t
  /\ depth[m] > 1
  /\ Release(t, m)
  /\ depth' = [depth EXCEPT ![m] = @ - 1]
  /\ UNCHANGED <<edgeVars, used, owner, heap>>
  /\ Silent

PRelease(t, m) ==
  /\ owner[m] = t
  /\ depth[m] = 1
  /\ Release(t, m)
  /\ HBRelease(t, m)
  /\ owner' = [owner EXCEPT ![m] = 0]
  /\ depth' = [depth EXCEPT ![m] = 0]
  /\ UNCHANGED <<used, heap>>

PBefore(t, i) == HappensBefore(t, i) /\ HBBefore(t, i) /\ UNCHANGED progVars
PAfter(t, i) == HappensAfter(t, i) /\ HBAfter(t, i) /\ UNCHANGED progVars

\* A location of a block that is not allocated is not accessed.
Accessible(x) ==
  (\E b \in Block : x \in Within(b[1], b[2])) => \E b \in heap : x \in Within(b[1], b[2])

PRead(t, x) ==
  /\ Accessible(x)
  /\ Read(t, x)
  /\ HBRead(t, x, report')
  /\ UNCHANGED progVars

PWrite(t, x) ==
  /\ Accessible(x)
  /\ Write(t, x)
  /\ HBWrite(t, x, report')
  /\ UNCHANGED progVars

PAllocate(b) ==
  /\ \A c \in heap : Within(b[1], b[2]) \cap Within(c[1], c[2]) = {}
  /\ Allocate(b[1], b[2])
  /\ heap' = heap \cup {b}
  /\ UNCHANGED <<edgeVars, used, owner, depth>>
  /\ Silent

PDeallocate(b) ==
  /\ b \in heap
  /\ Deallocate(b[1])
  /\ heap' = heap \ {b}
  /\ HBFree(Within(b[1], b[2]))
  /\ UNCHANGED <<used, owner, depth>>

PFinalize ==
  /\ Finalize
  /\ HBReset
  /\ used' = {}
  /\ owner' = [m \in Mutex |-> 0]
  /\ depth' = [m \in Mutex |-> 0]
  /\ heap' = {}

RDNext ==
  \/ \E p, c \in Tid : PForkRoot(p, c) \/ PForkChild(p, c)
  \/ \E p, c \in Tid : PJoin(p, c)
  \/ \E t \in Tid : PFinish(t)
  \/ \E t \in Tid, m \in Mutex : PAcquire(t, m) \/ PAcquireAgain(t, m)
  \/ \E t \in Tid, m \in Mutex : PReleaseInner(t, m) \/ PRelease(t, m)
  \/ \E t \in Tid, i \in Identifier : PBefore(t, i) \/ PAfter(t, i)
  \/ \E t \in Tid, x \in Addr : PRead(t, x) \/ PWrite(t, x)
  \/ \E b \in Block : PAllocate(b) \/ PDeallocate(b)
  \/ PFinalize

RDSpec == RDInit /\ [][RDNext]_rdVars

-----------------------------------------------------------------------------
(* Properties. *)

\* No false alarm: each race handed to the callback is a pair of conflicting
\* accesses of two running threads that no chain of forks, joins, lock
\* hand-overs and happens-before edges orders.
NoFalseAlarm == [][\A r \in report' : IsRace(r)]_rdVars

Late(r) == r.wr1 \/ r.first \notin early[r.addr]

\* No missed race: when an access races with an earlier one of a running
\* thread, a race on that location has been reported, now or before.  Left out
\* are reads made before the first write (write_initial) and locations that a
\* thread accessed which has ended since.
NoMissedRace == \A r \in missed : Late(r) => r.addr \in ended

\* NoMissedRace without its exception for early reads: "A read can happen before
\* a write" (Detector.h).
NoMissedEarlyRead == \A r \in missed : r.addr \in ended

=============================================================================
