---------------------------- MODULE HBReference ----------------------------
(***************************************************************************)
(* What a happens-before race detector is to find, independent of how      *)
(* FastTrack finds it: full vector clocks for every thread, lock and       *)
(* identifier, and for every location and thread the clock of the last     *)
(* read and of the last write.  Two accesses of different threads to one   *)
(* location, one of them a write, conflict when neither happens before the *)
(* other.  A thread's clock starts at 1 and grows after each edge leaving  *)
(* it; the access a thread u made at its clock c happens before what t     *)
(* does now iff c <= hb[t][u].                                             *)
(*                                                                         *)
(* Only running threads count: "Finished threads are deleted from the      *)
(* analysis.  No race detection of already finished threads." (README.md)  *)
(***************************************************************************)
EXTENDS Detector

VARIABLES
  hb,        \* hb[t][u]: how much of u happens before the present of t
  hbLock,    \* the same for the last releases of a mutex
  hbIdent,   \* and for an identifier
  lastW,     \* lastW[x][t]: clock of t at its last write to x, or 0
  lastR,     \* the same for reads
  early,     \* early[x]: threads that read x before its first write only
  ended,     \* locations some ended thread had accessed
  found,     \* locations a race has been reported for
  missed     \* races of the last access on a location not in found

edgeVars == <<hb, hbLock, hbIdent>>
accessVars == <<lastW, lastR>>
auditVars == <<early, ended, found, missed>>
hbVars == <<edgeVars, accessVars, auditVars>>

Zero == [t \in Tid |-> 0]
Max2(v, w) == [t \in Tid |-> IF v[t] >= w[t] THEN v[t] ELSE w[t]]
Tick(v, t) == [v EXCEPT ![t] = @ + 1]
Forget(v, t) == [v EXCEPT ![t] = 0]

HBInit ==
  /\ hb = [t \in Tid |-> Zero]
  /\ hbLock = [m \in Mutex |-> Zero]
  /\ hbIdent = [i \in Identifier |-> Zero]
  /\ lastW = [x \in Addr |-> Zero]
  /\ lastR = [x \in Addr |-> Zero]
  /\ early = [x \in Addr |-> {}]
  /\ ended = {}
  /\ found = {}
  /\ missed = {}

HBReset ==
  /\ hb' = [t \in Tid |-> Zero]
  /\ hbLock' = [m \in Mutex |-> Zero]
  /\ hbIdent' = [i \in Identifier |-> Zero]
  /\ lastW' = [x \in Addr |-> Zero]
  /\ lastR' = [x \in Addr |-> Zero]
  /\ early' = [x \in Addr |-> {}]
  /\ ended' = {}
  /\ found' = {}
  /\ missed' = {}

Silent == missed' = {} /\ UNCHANGED <<accessVars, early, ended, found>>

HBForkRoot(c) ==
  /\ hb' = [hb EXCEPT ![c] = [Zero EXCEPT ![c] = 1]]
  /\ UNCHANGED <<hbLock, hbIdent>>
  /\ Silent

HBForkChild(p, c) ==
  /\ hb' = [hb EXCEPT ![c] = [hb[p] EXCEPT ![c] = 1], ![p] = Tick(@, p)]
  /\ UNCHANGED <<hbLock, hbIdent>>
  /\ Silent

\* The accesses of t leave the records.
ForgetAccesses(t) ==
  /\ lastW' = [x \in Addr |-> Forget(lastW[x], t)]
  /\ lastR' = [x \in Addr |-> Forget(lastR[x], t)]

\* What is missed on the locations it accessed no longer counts.
AuditEnd(t) ==
  /\ early' = [x \in Addr |-> early[x] \ {t}]
  /\ ended' = ended \cup {x \in Addr : lastW[x][t] + lastR[x][t] > 0}
  /\ missed' = {}
  /\ UNCHANGED found

\* So does its entry in every clock; thrs are the threads' clocks before that.
ForgetEdges(t, thrs) ==
  /\ hb' = [u \in Tid |-> IF u = t THEN Zero ELSE Forget(thrs[u], t)]
  /\ hbLock' = [m \in Mutex |-> Forget(hbLock[m], t)]
  /\ hbIdent' = [i \in Identifier |-> Forget(hbIdent[i], t)]

\* Thread t ends.
HBEnd(t, thrs) == ForgetEdges(t, thrs) /\ ForgetAccesses(t) /\ AuditEnd(t)

HBJoin(p, c) == HBEnd(c, [hb EXCEPT ![p] = Max2(hb[p], hb[c])])
HBFinish(t) == HBEnd(t, hb)

HBAcquire(t, m) ==
  /\ hb' = [hb EXCEPT ![t] = Max2(@, hbLock[m])]
  /\ UNCHANGED <<hbLock, hbIdent>>
  /\ Silent

HBRelease(t, m) ==
  /\ hbLock' = [hbLock EXCEPT ![m] = Max2(@, hb[t])]
  /\ hb' = [hb EXCEPT ![t] = Tick(@, t)]
  /\ UNCHANGED hbIdent
  /\ Silent

HBBefore(t, i) ==
  /\ hbIdent' = [hbIdent EXCEPT ![i] = Max2(@, hb[t])]
  /\ hb' = [hb EXCEPT ![t] = Tick(@, t)]
  /\ UNCHANGED hbLock
  /\ Silent

HBAfter(t, i) ==
  /\ hb' = [hb EXCEPT ![t] = Max2(@, hbIdent[i])]
  /\ UNCHANGED <<hbLock, hbIdent>>
  /\ Silent

\* r is a pair of accesses of different threads to one location, the first on
\* record, that the present of the second does not follow.
IsRace(r) ==
  /\ r.first # r.second
  /\ r.wr1 => lastW[r.addr][r.first] > hb[r.second][r.first]
  /\ ~r.wr1 => lastR[r.addr][r.first] > hb[r.second][r.first]

Conflict(x, t, u, w1, w2) ==
  [addr |-> x, first |-> u, second |-> t, wr1 |-> w1, wr2 |-> w2]

Written(x) == \E t \in Tid : lastW[x][t] > 0

\* An access of t to x, for which the detector reported some races.
HBAccess(t, x, reported, pairs) ==
  /\ found' = found \cup {r.addr : r \in reported}
  /\ missed' = {r \in pairs : IsRace(r) /\ x \notin found'}
  /\ UNCHANGED <<edgeVars, ended>>

RecordRead(t, x) ==
  /\ lastR' = [lastR EXCEPT ![x][t] = hb[t][t]]
  /\ UNCHANGED lastW

RecordWrite(t, x) ==
  /\ lastW' = [lastW EXCEPT ![x][t] = hb[t][t]]
  /\ UNCHANGED lastR

HBRead(t, x, reported) ==
  /\ HBAccess(t, x, reported, {Conflict(x, t, u, TRUE, FALSE) : u \in Tid})
  /\ RecordRead(t, x)
  /\ early' = [early EXCEPT ![x] = IF Written(x) THEN @ \ {t} ELSE @ \cup {t}]

HBWrite(t, x, reported) ==
  /\ HBAccess(t, x, reported, {Conflict(x, t, u, w, TRUE) : u \in Tid, w \in BOOLEAN})
  /\ RecordWrite(t, x)
  /\ UNCHANGED early

\* The locations of freed memory start anew; a new owner may use them.
HBFree(locs) ==
  /\ lastW' = [x \in Addr |-> IF x \in locs THEN Zero ELSE lastW[x]]
  /\ lastR' = [x \in Addr |-> IF x \in locs THEN Zero ELSE lastR[x]]
  /\ early' = [x \in Addr |-> IF x \in locs THEN {} ELSE early[x]]
  /\ ended' = ended \ locs
  /\ found' = found \ locs
  /\ missed' = {}
  /\ UNCHANGED edgeVars

=============================================================================
