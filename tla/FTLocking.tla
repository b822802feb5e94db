----------------------------- MODULE FTLocking -----------------------------
(***************************************************************************)
(* The locks of the FastTrack detector.  FastTrack.tla takes every call of *)
(* the interface as one step; here a call is the sequence of its critical  *)
(* sections, run by several threads at once, and what the sections compute *)
(* is left out.  There are three kinds of locks: g_lock for the global     *)
(* tables, vars_spl for the table of variables, and one lock in each       *)
(* VarState.  The lock of a stack depot is never held while its owner      *)
(* waits for anything, and is left out.                                    *)
(***************************************************************************)
EXTENDS Naturals

CONSTANTS
  Thread,
  Addr,      \* locations the program accesses and frees
  Obj,       \* memory of the VarState objects
  None,
  RacyFree   \* may the program access a location while it frees it?

ASSUME NoneAssumption == None \notin Thread \cup Obj \cup Addr
ASSUME RacyFreeAssumption == RacyFree \in BOOLEAN

VARIABLES
  pc,        \* where a thread is in its call
  addr,      \* the location it accesses
  ptr,       \* read() and write(): the local "var"
  races,     \* reports its access is still to make
  todo,      \* locations its deallocate() has still to visit
  g_lock,    \* holder of the global lock
  vars_spl,  \* holder of the lock of the table of variables
  var_lock,  \* holder of the lock of each VarState
  vars       \* the table of variables

argVars == <<addr, races>>
lkVars == <<pc, argVars, ptr, todo, g_lock, vars_spl, var_lock, vars>>

Goto(t, where) == pc' = [pc EXCEPT ![t] = where]

LInit ==
  /\ pc = [t \in Thread |-> "idle"]
  /\ addr = [t \in Thread |-> None]
  /\ ptr = [t \in Thread |-> None]
  /\ races = [t \in Thread |-> 0]
  /\ todo = [t \in Thread |-> {}]
  /\ g_lock = None
  /\ vars_spl = None
  /\ var_lock = [o \in Obj |-> None]
  /\ vars = [x \in Addr |-> None]

-----------------------------------------------------------------------------
(* read() and write() *)

Accessing == {"find", "lookup", "lock", "rule", "wait_report", "report"}
Freeing == {"wait_free", "free", "erase"}

\* n: how many races the access will report, one for a read, two for a write.
StartAccess(t, x, n) ==
  /\ pc[t] = "idle"
  /\ RacyFree \/ \A u \in Thread : x \notin todo[u]
  /\ addr' = [addr EXCEPT ![t] = x]
  /\ races' = [races EXCEPT ![t] = n]
  /\ Goto(t, "find")
  /\ UNCHANGED <<ptr, todo, g_lock, vars_spl, var_lock, vars>>

LockVars(t) ==
  /\ pc[t] = "find"
  /\ vars_spl = None
  /\ vars_spl' = t
  /\ Goto(t, "lookup")
  /\ UNCHANGED <<argVars, ptr, todo, g_lock, var_lock, vars>>

\* Mutant of Unlocked: the table stays locked while its user goes on.
MutKeepsTable(t) == vars_spl' = t

\* The end of the critical section on the table of variables.
Unlocked(t) == vars_spl' = None

Found(t) ==
  /\ pc[t] = "lookup"
  /\ vars[addr[t]] # None
  /\ ptr' = [ptr EXCEPT ![t] = vars[addr[t]]]
  /\ Unlocked(t)
  /\ Goto(t, "lock")
  /\ UNCHANGED <<argVars, todo, g_lock, var_lock, vars>>

\* create_var(): a new object, in memory that no table or thread refers to.
Create(t) ==
  /\ pc[t] = "lookup"
  /\ vars[addr[t]] = None
  /\ \E o \in Obj :
       /\ \A x \in Addr : vars[x] # o
       /\ \A u \in Thread : ptr[u] # o
       /\ vars' = [vars EXCEPT ![addr[t]] = o]
       /\ ptr' = [ptr EXCEPT ![t] = o]
       /\ var_lock' = [var_lock EXCEPT ![o] = None]
  /\ Unlocked(t)
  /\ Goto(t, "lock")
  /\ UNCHANGED <<argVars, todo, g_lock>>

\* Mutant of LockVar: the rules run without the lock of the VarState.
MutNoVarLock(t) ==
  /\ pc[t] = "lock"
  /\ Goto(t, "rule")
  /\ UNCHANGED <<argVars, ptr, todo, g_lock, vars_spl, var_lock, vars>>

LockVar(t) ==
  /\ pc[t] = "lock"
  /\ var_lock[ptr[t]] = None
  /\ var_lock' = [var_lock EXCEPT ![ptr[t]] = t]
  /\ Goto(t, "rule")
  /\ UNCHANGED <<argVars, ptr, todo, g_lock, vars_spl, vars>>

\* Mutant of RaceFound: an access that races with nothing reports as well.
MutReportAlways(t) ==
  /\ pc[t] = "rule"
  /\ Goto(t, "wait_report")
  /\ UNCHANGED <<argVars, ptr, todo, g_lock, vars_spl, var_lock, vars>>

\* The rules ask the thread's vector clock and the VarState for a race.
RaceFound(t) ==
  /\ pc[t] = "rule"
  /\ races[t] > 0
  /\ Goto(t, "wait_report")
  /\ UNCHANGED <<argVars, ptr, todo, g_lock, vars_spl, var_lock, vars>>

\* report_race_locked()
LockReport(t) ==
  /\ pc[t] = "wait_report"
  /\ g_lock = None
  /\ g_lock' = t
  /\ Goto(t, "report")
  /\ UNCHANGED <<argVars, ptr, todo, vars_spl, var_lock, vars>>

Report(t) ==
  /\ pc[t] = "report"
  /\ races' = [races EXCEPT ![t] = @ - 1]
  /\ g_lock' = None
  /\ Goto(t, "rule")
  /\ UNCHANGED <<addr, ptr, todo, vars_spl, var_lock, vars>>

\* The VarState is updated and unlocked.
EndAccess(t) ==
  /\ pc[t] = "rule"
  /\ races[t] = 0
  /\ var_lock' = [var_lock EXCEPT ![ptr[t]] = None]
  /\ ptr' = [ptr EXCEPT ![t] = None]
  /\ addr' = [addr EXCEPT ![t] = None]
  /\ Goto(t, "idle")
  /\ UNCHANGED <<races, todo, g_lock, vars_spl, vars>>

-----------------------------------------------------------------------------
(* The calls that run under g_lock from end to end: fork(), join(),         *)
(* acquire(), release(), happens_before(), happens_after(), allocate() and  *)
(* finish().                                                                *)

StartSync(t) ==
  /\ pc[t] = "idle"
  /\ Goto(t, "wait_sync")
  /\ UNCHANGED <<argVars, ptr, todo, g_lock, vars_spl, var_lock, vars>>

LockSync(t) ==
  /\ pc[t] = "wait_sync"
  /\ g_lock = None
  /\ g_lock' = t
  /\ Goto(t, "sync")
  /\ UNCHANGED <<argVars, ptr, todo, vars_spl, var_lock, vars>>

EndSync(t) ==
  /\ pc[t] = "sync"
  /\ g_lock' = None
  /\ Goto(t, "idle")
  /\ UNCHANGED <<argVars, ptr, todo, vars_spl, var_lock, vars>>

-----------------------------------------------------------------------------
(* deallocate() *)

StartFree(t, block) ==
  /\ pc[t] = "idle"
  /\ RacyFree \/ \A u \in Thread : addr[u] \notin block
  /\ todo' = [todo EXCEPT ![t] = block]
  /\ Goto(t, "wait_free")
  /\ UNCHANGED <<argVars, ptr, g_lock, vars_spl, var_lock, vars>>

LockFree(t) ==
  /\ pc[t] = "wait_free"
  /\ g_lock = None
  /\ g_lock' = t
  /\ Goto(t, "free")
  /\ UNCHANGED <<argVars, ptr, todo, vars_spl, var_lock, vars>>

\* One round of the loop, for one location of the block.
LockErase(t) ==
  /\ pc[t] = "free"
  /\ todo[t] # {}
  /\ vars_spl = None
  /\ vars_spl' = t
  /\ Goto(t, "erase")
  /\ UNCHANGED <<argVars, ptr, todo, g_lock, var_lock, vars>>

\* Mutant of Erase: the loop runs one location too far.
MutEraseAny(t) ==
  /\ pc[t] = "erase"
  /\ \E x \in Addr :
       /\ vars' = [vars EXCEPT ![x] = None]
       /\ todo' = [todo EXCEPT ![t] = @ \ {x}]
  /\ Unlocked(t)
  /\ Goto(t, "free")
  /\ UNCHANGED <<argVars, ptr, g_lock, var_lock>>

Erase(t) ==
  /\ pc[t] = "erase"
  /\ \E x \in todo[t] :
       /\ vars' = [vars EXCEPT ![x] = None]
       /\ todo' = [todo EXCEPT ![t] = @ \ {x}]
  /\ Unlocked(t)
  /\ Goto(t, "free")
  /\ UNCHANGED <<argVars, ptr, g_lock, var_lock>>

EndFree(t) ==
  /\ pc[t] = "free"
  /\ todo[t] = {}
  /\ g_lock' = None
  /\ Goto(t, "idle")
  /\ UNCHANGED <<argVars, ptr, todo, vars_spl, var_lock, vars>>

-----------------------------------------------------------------------------
Access(t) ==
  \/ \E x \in Addr, n \in 0..2 : StartAccess(t, x, n)
  \/ LockVars(t) \/ Found(t) \/ Create(t) \/ LockVar(t)
  \/ RaceFound(t) \/ LockReport(t) \/ Report(t) \/ EndAccess(t)

Sync(t) == StartSync(t) \/ LockSync(t) \/ EndSync(t)

Free(t) ==
  \/ \E block \in SUBSET Addr : StartFree(t, block)
  \/ LockFree(t) \/ LockErase(t) \/ Erase(t) \/ EndFree(t)

LNext == \E t \in Thread : Access(t) \/ Sync(t) \/ Free(t)

LSpec == LInit /\ [][LNext]_lkVars

-----------------------------------------------------------------------------
(* Properties. *)

InRule == {"rule", "wait_report", "report"}
HoldsG == {"report", "sync", "free", "erase"}
HoldsVars == {"lookup", "erase"}
WaitsG == {"wait_report", "wait_sync", "wait_free"}

LTypeOK ==
  /\ pc \in [Thread -> {"idle", "wait_sync", "sync"} \cup Accessing \cup Freeing]
  /\ addr \in [Thread -> Addr \cup {None}]
  /\ ptr \in [Thread -> Obj \cup {None}]
  /\ races \in [Thread -> Nat]
  /\ todo \in [Thread -> SUBSET Addr]
  /\ g_lock \in Thread \cup {None}
  /\ vars_spl \in Thread \cup {None}
  /\ var_lock \in [Obj -> Thread \cup {None}]
  /\ vars \in [Addr -> Obj \cup {None}]

\* Thread t cannot go on before u has released a lock.
WaitsFor(t, u) ==
  \/ pc[t] \in WaitsG /\ g_lock = u
  \/ pc[t] = "find" /\ vars_spl = u
  \/ pc[t] = "free" /\ todo[t] # {} /\ vars_spl = u
  \/ pc[t] = "lock" /\ var_lock[ptr[t]] = u

\* No set of threads waits in a circle, although an access takes its VarState's
\* lock before g_lock (report_race_locked) and deallocate() takes vars_spl after
\* it: the order the comments at g_lock and vars_spl ask for.
NoWaitCycle ==
  \A S \in SUBSET Thread :
    S # {} => \E t \in S : \A u \in S : ~WaitsFor(t, u)

\* The rules never run for two accesses to one location at the same time
\* (VarState::lock, "mutually-excluded access"), not even when the VarState
\* was erased and created again in between.
Serialised ==
  \A t, u \in Thread :
    t # u /\ pc[t] \in InRule /\ pc[u] \in InRule => addr[t] # addr[u]

\* The VarState an access works on, or waits for, has not been destroyed:
\* "variable is deallocated so varstate objects can be destroyed".
NoDanglingVar ==
  \A t \in Thread : ptr[t] # None => vars[addr[t]] = ptr[t]

\* Who holds which lock, by where it is in its call.
Holding(t) ==
  /\ pc[t] \in HoldsG <=> g_lock = t
  /\ pc[t] \in HoldsVars <=> vars_spl = t
  /\ pc[t] \in InRule \cup {"lock"} <=> ptr[t] # None
  /\ \A o \in Obj : var_lock[o] = t <=> pc[t] \in InRule /\ ptr[t] = o
  /\ pc[t] \in Accessing => addr[t] # None
  /\ pc[t] \in {"wait_report", "report"} => races[t] > 0

\* The inductive invariant behind NoWaitCycle.
LockInv == LTypeOK /\ \A t \in Thread : Holding(t)

\* With it, the one behind Serialised, for programs that do not access what
\* they are freeing.
PtrInv ==
  /\ LockInv
  /\ \A t, u \in Thread : addr[u] \notin todo[t]
  /\ NoDanglingVar

=============================================================================
