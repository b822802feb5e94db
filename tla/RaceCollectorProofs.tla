------------------------ MODULE RaceCollectorProofs ------------------------
(***************************************************************************)
(* Proofs about RaceCollector and the module tracker it asks: the type     *)
(* invariant, that a block is instrumented as its module wants, the limit  *)
(* on races, the count in the summary, and that exactly the races nothing  *)
(* suppresses are reported.                                                *)
(***************************************************************************)
EXTENDS RaceCollector, TLAPS, FiniteSetTheorems, WellFoundedInduction

\* A non-empty set of addresses up to a has a largest one.
LEMMA LargestAddr ==
  ASSUME NEW a \in Nat, NEW S \in SUBSET (0..a), S # {}
  PROVE  Max(S) \in S /\ \A b \in S : Max(S) >= b
<1> DEFINE T == {a - b : b \in S}
<1>1. T \subseteq Nat /\ T # {}
  <2>1. \A b \in S : a - b \in Nat
    OBVIOUS
  <2>2. PICK b \in S : TRUE
    OBVIOUS
  <2>3. a - b \in T
    OBVIOUS
  <2> QED BY <2>1, <2>3
<1>2. PICK x \in T : \A y \in T : ~(<<y, x>> \in OpToRel(<, Nat))
  <2> HIDE DEF T
  <2> QED BY <1>1, NatLessThanWellFounded, WFMin
<1>3. PICK m \in S : x = a - m
  OBVIOUS
<1>4. \A b \in S : m >= b
  <2> SUFFICES ASSUME NEW b \in S PROVE m >= b
    OBVIOUS
  <2>1. a - b \in T
    OBVIOUS
  <2>2. ~(<<a - b, x>> \in OpToRel(<, Nat))
    BY <1>2, <2>1
  <2>3. ~(a - b < x)
    BY <2>2, <1>1, <2>1 DEF OpToRel
  <2> QED BY <2>3, <1>3
<1> QED BY <1>4 DEF Max

-----------------------------------------------------------------------------
(* The module tracker. *)

\* Every base in the index is that of a module whose addresses have been used.
IndexUsed ==
  /\ _modules_idx \in [DOMAIN _modules_idx -> [mod : Module, loaded : BOOLEAN]]
  /\ \A b \in DOMAIN _modules_idx : Extent(_modules_idx[b].mod) \subseteq used

\* The cached module is one of the index, which forgets none.
CacheIndexed ==
  mc # Null => mc.base \in DOMAIN _modules_idx /\ _modules_idx[mc.base].mod = mc

\* Until a place is taken again, the index has all the modules in memory, and no
\* two of its modules share an address.
IndexExact ==
  ~reused =>
    /\ \A m \in mapped : m.base \in DOMAIN _modules_idx /\ _modules_idx[m.base].mod = m
    /\ \A b \in DOMAIN _modules_idx : \A c \in DOMAIN _modules_idx :
         b # c => Extent(_modules_idx[b].mod) \cap Extent(_modules_idx[c].mod) = {}

TrackerInv == MTTypeOK /\ IndexUsed /\ CacheIndexed /\ IndexExact

\* A module has its base address.
LEMMA BaseInExtent ==
  ASSUME NEW m \in Module
  PROVE  m.base \in Addr /\ m.base \in Extent(m) /\ m.base \in Nat /\ m.end \in Nat
<1>1. m.base \in Addr /\ m.base \in Nat /\ m.end \in Nat /\ m.base < m.end
  BY ModuleAssumption
<1>2. m.base <= m.base
  BY <1>1
<1> QED BY <1>1, <1>2 DEF Extent

\* What get_module_containing() finds is a module of the index that has the address;
\* if it finds none, no module that starts at the nearest base has it.
LEMMA Containing ==
  ASSUME TrackerInv, NEW a \in Addr
  PROVE  LET m == get_module_containing(a)
         IN  \/ /\ m = Null
                /\ \A b \in DOMAIN _modules_idx : b <= a =>
                     \E c \in DOMAIN _modules_idx :
                       b <= c /\ c <= a /\ a \notin Extent(_modules_idx[c].mod)
             \/ /\ m \in Module /\ a \in Extent(m)
                /\ m.base \in DOMAIN _modules_idx /\ _modules_idx[m.base].mod = m
                /\ \A b \in DOMAIN _modules_idx : b <= a => b <= m.base
<1> DEFINE below == {b \in DOMAIN _modules_idx : b <= a}
<1>1. a \in Nat /\ DOMAIN _modules_idx \subseteq Nat
  BY ModuleAssumption DEF TrackerInv, MTTypeOK
<1>2. CASE below = {}
  BY <1>2 DEF get_module_containing
<1>3. CASE below # {}
  <2> DEFINE b == Max(below)
  <2>1. below \in SUBSET (0..a)
    BY <1>1
  <2>2. b \in below /\ \A c \in below : b >= c
    <3> HIDE DEF below
    <3> QED BY <1>1, <1>3, <2>1, LargestAddr
  <2> DEFINE e == _modules_idx[b].mod
  <2>3. e \in Module /\ e.base = b /\ b \in DOMAIN _modules_idx /\ b <= a
    BY <2>2 DEF TrackerInv, MTTypeOK
  <2>4. get_module_containing(a) = IF a < e.end THEN e ELSE Null
    BY <1>3 DEF get_module_containing
  <2>5. \A c \in DOMAIN _modules_idx : c <= a => c <= b
    BY <1>1, <2>2
  <2> HIDE DEF b, e
  <2>6. CASE a < e.end
    <3>1. a \in Extent(e)
      BY <2>3, <2>6 DEF Extent
    <3>2. _modules_idx[e.base].mod = e
      BY <2>3 DEF e
    <3> QED BY <2>3, <2>4, <2>5, <2>6, <3>1, <3>2
  <2>7. CASE ~(a < e.end)
    <3>1. a \notin Extent(e)
      BY <2>7 DEF Extent
    <3>2. a \notin Extent(_modules_idx[b].mod)
      BY <3>1 DEF e
    <3> QED BY <2>3, <2>4, <2>5, <2>7, <3>2
  <2> QED BY <2>6, <2>7
<1> QED BY <1>2, <1>3

\* At a settled address every module of the index that has it is the one in memory.
LEMMA SettledModule ==
  ASSUME TrackerInv, NEW a \in Addr, Settled(a),
         NEW b \in DOMAIN _modules_idx, a \in Extent(_modules_idx[b].mod)
  PROVE  _modules_idx[b].mod \in mapped
<1>1. a \in used
  BY DEF TrackerInv, IndexUsed
<1>2. PICK m \in mapped : a \in Extent(m)
  BY <1>1 DEF Settled
<1>3. m.base \in DOMAIN _modules_idx /\ _modules_idx[m.base].mod = m
  BY DEF Settled, TrackerInv, IndexExact
<1>4. m.base = b
  BY <1>2, <1>3 DEF Settled, TrackerInv, IndexExact
<1> QED BY <1>3, <1>4

\* Of the modules in memory only one has a settled address.
LEMMA OneModule ==
  ASSUME TrackerInv, ~reused, NEW m \in mapped, NEW n \in mapped,
         NEW a \in Addr, a \in Extent(m), a \in Extent(n)
  PROVE  m = n
BY DEF TrackerInv, IndexExact

\* The tracker's answer for a settled address: the module in memory, if there is one.
LEMMA SettledAnswer ==
  ASSUME TrackerInv, NEW a \in Addr, Settled(a)
  PROVE  LET m == get_module_containing(a)
         IN  \/ m = Null /\ \A n \in mapped : a \notin Extent(n)
             \/ m # Null /\ m \in mapped /\ a \in Extent(m)
<1> DEFINE m == get_module_containing(a)
<1> HIDE DEF m
<1>1. CASE m = Null
  <2> SUFFICES ASSUME NEW n \in mapped, a \in Extent(n) PROVE FALSE
    BY <1>1 DEF m
  <2>1. n.base \in DOMAIN _modules_idx /\ _modules_idx[n.base].mod = n /\ n \in Module
    BY DEF Settled, TrackerInv, IndexExact, MTTypeOK
  <2>2. n.base <= a /\ a < n.end /\ a \in Nat
    BY ModuleAssumption DEF Extent
  <2>3. PICK c \in DOMAIN _modules_idx :
          n.base <= c /\ c <= a /\ a \notin Extent(_modules_idx[c].mod)
    <3>1. ~(m \in Module)
      BY <1>1, ModuleAssumption
    <3> QED BY <2>1, <2>2, <3>1, Containing DEF m
  <2>4. c \in Addr /\ _modules_idx[c].mod \in Module /\ _modules_idx[c].mod.base = c
    BY DEF TrackerInv, MTTypeOK
  <2>5. c \in Extent(_modules_idx[c].mod)
    BY <2>4, BaseInExtent
  <2>6. c \in Extent(n)
    <3>1. c \in Nat /\ n.end \in Nat
      BY <2>1, <2>4, ModuleAssumption
    <3> QED BY <2>2, <2>3, <2>4, <3>1 DEF Extent
  <2>7. c = n.base
    BY <2>1, <2>5, <2>6 DEF Settled, TrackerInv, IndexExact
  <2> QED BY <2>1, <2>3, <2>7
<1>2. CASE m # Null
  <2>1. /\ m \in Module /\ a \in Extent(m)
        /\ m.base \in DOMAIN _modules_idx /\ _modules_idx[m.base].mod = m
    BY <1>2, Containing DEF m
  <2>2. m \in mapped
    BY <2>1, SettledModule
  <2> QED BY <1>2, <2>1, <2>2 DEF m
<1> QED BY <1>1, <1>2

\* in_silent_module() is right about a settled address.
LEMMA SilentModule ==
  ASSUME TrackerInv, NEW r, r.addr \in Addr, Settled(r.addr)
  PROVE  in_silent_module(r) <=> ~Instrumented(r.addr)
<1> DEFINE m == get_module_containing(r.addr)
<1> HIDE DEF m
<1>1. \/ m = Null /\ \A n \in mapped : r.addr \notin Extent(n)
      \/ m # Null /\ m \in mapped /\ r.addr \in Extent(m)
  BY SettledAnswer DEF m
<1>2. in_silent_module(r) <=> m # Null /\ ~m.memory
  BY DEF in_silent_module, m
<1>3. CASE m = Null
  BY <1>1, <1>2, <1>3 DEF Instrumented
<1>4. CASE m # Null
  <2>1. \A n \in mapped : r.addr \in Extent(n) => n = m
    BY <1>1, <1>4, OneModule DEF Settled
  <2> QED BY <1>1, <1>2, <1>4, <2>1 DEF Instrumented
<1> QED BY <1>3, <1>4

\* The invariant of the tracker is enough for what the instrumentation relies on.
LEMMA TrackerRight == TrackerInv => InstrumentedRight
<1> SUFFICES ASSUME TrackerInv, NEW a \in Addr, Settled(a)
             PROVE  Instrument(a) = Instrumented(a)
  BY DEF InstrumentedRight
<1> DEFINE f == Found(a)
<1> HIDE DEF f
<1>1. \/ f = Null /\ \A n \in mapped : a \notin Extent(n)
      \/ f # Null /\ f \in mapped /\ a \in Extent(f)
  <2>1. CASE Cached(a)
    <3>1. f = mc /\ mc # Null /\ mc.base <= a /\ a < mc.end
      BY <2>1 DEF f, Found, Cached
    <3>2. mc.base \in DOMAIN _modules_idx /\ _modules_idx[mc.base].mod = mc
      BY <3>1 DEF TrackerInv, CacheIndexed
    <3>3. a \in Extent(mc)
      BY <3>1 DEF Extent
    <3>4. mc \in mapped
      BY <3>2, <3>3, SettledModule
    <3> QED BY <3>1, <3>3, <3>4
  <2>2. CASE ~Cached(a)
    <3>1. f = get_module_containing(a)
      BY <2>2 DEF f, Found
    <3> QED BY <3>1, SettledAnswer
  <2> QED BY <2>1, <2>2
<1>2. Instrument(a) = (f = Null \/ f.memory)
  BY DEF Instrument, f
<1>3. CASE f = Null
  BY <1>1, <1>2, <1>3 DEF Instrumented
<1>4. CASE f # Null
  <2>1. \A n \in mapped : a \in Extent(n) => n = f
    BY <1>1, <1>4, OneModule DEF Settled
  <2>2. f.memory \in BOOLEAN
    BY <1>1, <1>4, ModuleAssumption DEF TrackerInv, MTTypeOK
  <2>3. Instrumented(a) = f.memory
    BY <1>1, <1>4, <2>1, <2>2 DEF Instrumented
  <2> QED BY <1>2, <1>4, <2>2, <2>3
<1> QED BY <1>3, <1>4

\* The tracker starts with no module.
LEMMA TrackerInit == MTInit => TrackerInv
BY DEF MTInit, TrackerInv, MTTypeOK, IndexUsed, CacheIndexed, IndexExact

\* register_module() keeps the invariant: an entry that exists stays.
LEMMA LoadKeeps ==
  ASSUME TrackerInv, NEW m \in Module, Load(m)
  PROVE  TrackerInv'
<1> DEFINE D == DOMAIN _modules_idx
<1>1. DOMAIN _modules_idx' = D \cup {m.base}
  BY DEF Load
<1>2. \A b \in D : _modules_idx'[b] = _modules_idx[b]
  BY DEF Load
<1>3. m.base \notin D => _modules_idx'[m.base] = [mod |-> m, loaded |-> TRUE]
  BY DEF Load
<1>4. m.base \in Addr /\ m.base \in Extent(m)
  BY BaseInExtent
<1>5. MTTypeOK'
  <2>1. mapped' \subseteq Module /\ mc' \in Module \cup {Null}
    BY DEF Load, TrackerInv, MTTypeOK
  <2>2. \A b \in D \cup {m.base} :
          _modules_idx'[b].mod \in Module /\ _modules_idx'[b].mod.base = b
    BY <1>2, <1>3 DEF TrackerInv, MTTypeOK
  <2> QED BY <1>1, <1>4, <2>1, <2>2 DEF TrackerInv, MTTypeOK
<1>6. used' = used \cup Extent(m)
  BY DEF Load
<1>7. IndexUsed'
  <2>1. _modules_idx' \in [D \cup {m.base} -> [mod : Module, loaded : BOOLEAN]]
    <3>1. _modules_idx \in [D -> [mod : Module, loaded : BOOLEAN]]
      BY DEF TrackerInv, IndexUsed
    <3>2. [mod |-> m, loaded |-> TRUE] \in [mod : Module, loaded : BOOLEAN]
      OBVIOUS
    <3> QED BY <3>1, <3>2 DEF Load
  <2>2. \A b \in D \cup {m.base} : Extent(_modules_idx'[b].mod) \subseteq used'
    BY <1>2, <1>3, <1>6 DEF TrackerInv, IndexUsed
  <2> QED BY <1>1, <2>1, <2>2 DEF IndexUsed, Extent
<1>8. CacheIndexed'
  <2>1. mc' = mc
    BY DEF Load
  <2> QED BY <1>1, <1>2, <2>1 DEF TrackerInv, CacheIndexed
<1>9. IndexExact'
  <2> SUFFICES ASSUME ~reused'
      PROVE  /\ \A n \in mapped' :
                  n.base \in D \cup {m.base} /\ _modules_idx'[n.base].mod = n
             /\ \A b \in D \cup {m.base} : \A c \in D \cup {m.base} :
                  b # c => Extent(_modules_idx'[b].mod) \cap Extent(_modules_idx'[c].mod) = {}
    BY <1>1 DEF IndexExact, Extent
  <2>1. ~reused /\ Extent(m) \cap used = {}
    BY DEF Load
  <2>2. \A b \in D : Extent(_modules_idx[b].mod) \cap Extent(m) = {}
    BY <2>1 DEF TrackerInv, IndexUsed
  <2>3. m.base \notin D
    <3> SUFFICES ASSUME m.base \in D PROVE FALSE
      OBVIOUS
    <3>1. _modules_idx[m.base].mod \in Module /\ _modules_idx[m.base].mod.base = m.base
      BY DEF TrackerInv, MTTypeOK
    <3>2. m.base \in Extent(_modules_idx[m.base].mod)
      BY <3>1, BaseInExtent
    <3> QED BY <1>4, <2>2, <3>2
  <2>4. mapped' = mapped \cup {m}
    BY DEF Load
  <2>5. _modules_idx'[m.base].mod = m
    BY <1>3, <2>3
  <2>6. \A n \in mapped : n.base \in D /\ _modules_idx'[n.base].mod = n
    BY <1>2, <2>1 DEF TrackerInv, IndexExact
  <2>7. \A b \in D \cup {m.base} : \A c \in D \cup {m.base} :
          b # c => Extent(_modules_idx'[b].mod) \cap Extent(_modules_idx'[c].mod) = {}
    <3> SUFFICES ASSUME NEW b \in D \cup {m.base}, NEW c \in D \cup {m.base}, b # c
                 PROVE  Extent(_modules_idx'[b].mod) \cap Extent(_modules_idx'[c].mod) = {}
      OBVIOUS
    <3>1. CASE b \in D /\ c \in D
      BY <1>2, <2>1, <3>1 DEF TrackerInv, IndexExact
    <3>2. CASE b \in D /\ c = m.base
      BY <1>2, <2>2, <2>5, <3>2
    <3>3. CASE b = m.base /\ c \in D
      BY <1>2, <2>2, <2>5, <3>3
    <3> QED BY <3>1, <3>2, <3>3
  <2> QED BY <2>4, <2>5, <2>6, <2>7
<1> QED BY <1>5, <1>7, <1>8, <1>9 DEF TrackerInv

\* Unloading a module leaves its entry where it is.
LEMMA UnloadKeeps ==
  ASSUME TrackerInv, NEW m \in Module, Unload(m)
  PROVE  TrackerInv'
<1> DEFINE D == DOMAIN _modules_idx
<1>1. /\ _modules_idx' \in [D -> [mod : Module, loaded : BOOLEAN]]
      /\ \A b \in D : _modules_idx'[b].mod = _modules_idx[b].mod
  <2>1. _modules_idx \in [D -> [mod : Module, loaded : BOOLEAN]]
    BY DEF TrackerInv, IndexUsed
  <2>2. PICK e : _modules_idx' = IF e = Null THEN _modules_idx
                                 ELSE [_modules_idx EXCEPT ![e.base].loaded = FALSE]
    BY DEF Unload
  <2>3. CASE e = Null
    BY <2>1, <2>2, <2>3
  <2>4. CASE e # Null
    <3>1. _modules_idx' = [_modules_idx EXCEPT ![e.base].loaded = FALSE]
      BY <2>2, <2>4
    <3> QED BY <2>1, <3>1
  <2> QED BY <2>3, <2>4
<1>2. DOMAIN _modules_idx' = D
  BY <1>1
<1>3. mapped' \subseteq mapped /\ UNCHANGED <<mc, used, reused>>
  BY DEF Unload
<1>4. MTTypeOK'
  BY <1>1, <1>2, <1>3 DEF TrackerInv, MTTypeOK
<1>5. IndexUsed'
  BY <1>1, <1>2, <1>3 DEF TrackerInv, IndexUsed, Extent
<1>6. CacheIndexed'
  BY <1>1, <1>2, <1>3 DEF TrackerInv, CacheIndexed
<1>7. IndexExact'
  <2> SUFFICES ASSUME ~reused' PROVE IndexExact'
    BY DEF IndexExact
  <2>1. \A n \in mapped' : n.base \in D /\ _modules_idx'[n.base].mod = n
    BY <1>1, <1>3 DEF TrackerInv, IndexExact
  <2>2. \A b \in D : \A c \in D :
          b # c => Extent(_modules_idx'[b].mod) \cap Extent(_modules_idx'[c].mod) = {}
    BY <1>1, <1>3 DEF TrackerInv, IndexExact
  <2> QED BY <1>2, <2>1, <2>2 DEF IndexExact, Extent
<1> QED BY <1>4, <1>5, <1>6, <1>7 DEF TrackerInv

\* A block that is translated leaves its module in the cache.
LEMMA AnalyseKeeps ==
  ASSUME TrackerInv, NEW pc \in Addr, Analyse(pc)
  PROVE  TrackerInv'
<1>1. UNCHANGED <<mapped, _modules_idx, used, reused>>
  BY DEF Analyse
<1>2. mc' \in Module \cup {Null}
      /\ (mc' # Null => mc'.base \in DOMAIN _modules_idx /\ _modules_idx[mc'.base].mod = mc')
  <2>1. mc \in Module \cup {Null}
        /\ (mc # Null => mc.base \in DOMAIN _modules_idx /\ _modules_idx[mc.base].mod = mc)
    BY DEF TrackerInv, MTTypeOK, CacheIndexed
  <2>2. CASE Found(pc) = Null \/ Cached(pc)
    BY <2>1, <2>2 DEF Analyse, Found
  <2>3. CASE Found(pc) # Null /\ ~Cached(pc)
    <3>1. mc' = get_module_containing(pc) /\ mc' # Null
      BY <2>3 DEF Analyse, Found
    <3> QED BY <3>1, Containing
  <2> QED BY <2>2, <2>3
<1> QED
  BY <1>1, <1>2 DEF TrackerInv, MTTypeOK, IndexUsed, CacheIndexed, IndexExact, Extent

\* No operation of the tracker breaks its invariant.
LEMMA TrackerStep == TrackerInv /\ (MTNext \/ UNCHANGED mtVars) => TrackerInv'
<1> SUFFICES ASSUME TrackerInv, MTNext \/ UNCHANGED mtVars PROVE TrackerInv'
  OBVIOUS
<1>1. CASE UNCHANGED mtVars
  BY <1>1 DEF mtVars, TrackerInv, MTTypeOK, IndexUsed, CacheIndexed, IndexExact, Extent
<1>2. CASE MTNext
  BY <1>2, LoadKeeps, UnloadKeeps, AnalyseKeeps DEF MTNext
<1> QED BY <1>1, <1>2

-----------------------------------------------------------------------------
(* The collector. *)

\* The threads that are past the limit and not in add_race() yet.
Past == {t \in Thread : passed[t] # Null}

Sunk == [race : Race, wanted : BOOLEAN]

\* The types, in the detail the proofs need.
Kept ==
  /\ passed \in [Thread -> Race \cup {Null}]
  /\ addr_list \subseteq Annotated
  /\ _race_count \in Nat
  /\ ~exited => _races \in Seq(Race)
  /\ DOMAIN _races \subseteq Nat \ {0} /\ \A i \in DOMAIN _races : _races[i] \in Race
  /\ IsFiniteSet(DOMAIN _races)
  /\ sunk \in Seq(Sunk)
  /\ wanted \subseteq Race

\* A thread past the limit has its place in it, or is one of the threads above it.
LimitShared == _race_count + Cardinality(Past) <= MAX + Cardinality(Thread)

\* A stack that has been seen was reported, or that of a race nobody wants.
StacksSeen ==
  suppression_level # 0 =>
    \A o \in _racy_stacks : o \in unwanted \/ \E i \in DOMAIN sunk : sunk[i].race.outer = o

RCInv ==
  /\ TrackerInv
  /\ Kept
  /\ LimitShared
  /\ CountMatches
  /\ OnlyWantedStreamed
  /\ OnlyWantedReported
  /\ StacksSeen
  /\ WantedReported

\* The search for the nearest address finds every annotation that has the address.
LEMMA AddressSuppressed ==
  ASSUME addr_list \subseteq Annotated, NEW a \in Addr
  PROVE  addr_is_suppressed(a) <=> \E b \in addr_list : b <= a /\ a < b + Size
<1> DEFINE below == {b \in addr_list : b <= a}
<1>1. a \in Nat /\ addr_list \subseteq Nat /\ Size \in Nat
  BY ModuleAssumption, RaceAssumption, LimitAssumption
<1>2. CASE below = {}
  BY <1>2 DEF addr_is_suppressed
<1>3. CASE below # {}
  <2> DEFINE n == Max(below)
  <2>1. below \in SUBSET (0..a)
    <3>1. \A b \in addr_list : b <= a => b \in 0..a
      BY <1>1
    <3> QED BY <3>1
  <2>2. n \in below /\ \A c \in below : n >= c
    <3> HIDE DEF below
    <3> QED BY <1>1, <1>3, <2>1, LargestAddr
  <2>3. addr_is_suppressed(a) <=> a < n + Size
    BY <1>3 DEF addr_is_suppressed
  <2> HIDE DEF n
  <2> QED BY <1>1, <2>2, <2>3
<1> QED BY <1>2, <1>3

\* The filter suppresses what the options and annotations ask for.
LEMMA FilterExact ==
  ASSUME addr_list \subseteq Annotated, NEW r \in Race
  PROVE  check_suppress(r) <=> Suppressed(r)
BY AddressSuppressed, RaceAssumption DEF check_suppress, Suppressed

\* At a settled address the two filters together let exactly the wanted races through.
LEMMA WantedExact ==
  ASSUME TrackerInv, addr_list \subseteq Annotated, NEW r \in Race, Settled(r.addr)
  PROVE  Wanted(r) <=> ~check_implausible(r) /\ ~check_suppress(r)
<1>1. r.addr \in Addr
  BY RaceAssumption
<1>2. in_silent_module(r) <=> ~Instrumented(r.addr)
  BY <1>1, SilentModule
<1>3. check_suppress(r) <=> Suppressed(r)
  BY FilterExact
<1> QED BY <1>2, <1>3 DEF Wanted, check_implausible

\* The counts the limit compares.
LEMMA PastFinite ==
  /\ IsFiniteSet(Past) /\ Cardinality(Past) \in Nat
  /\ IsFiniteSet(Thread) /\ Cardinality(Thread) \in Nat
  /\ Cardinality(Past) <= Cardinality(Thread)
<1>1. Past \subseteq Thread
  BY DEF Past
<1> QED BY <1>1, ThreadAssumption, FS_Subset, FS_CardinalityType

\* The collector starts empty.
LEMMA RCInitHolds == RCInit => RCInv
<1> SUFFICES ASSUME RCInit PROVE RCInv
  OBVIOUS
<1>1. TrackerInv
  BY TrackerInit DEF RCInit
<1>2. DOMAIN _races = {} /\ Len(sunk) = 0 /\ DOMAIN sunk = {}
  BY DEF RCInit
<1>3. Kept
  <2>1. IsFiniteSet(DOMAIN _races)
    BY <1>2, FS_EmptySet
  <2> QED BY <1>2, <2>1 DEF RCInit, Kept
<1>4. LimitShared
  <2>1. Past = {}
    BY DEF RCInit, Past
  <2> QED BY <2>1, PastFinite, LimitAssumption, FS_EmptySet DEF RCInit, LimitShared
<1>5. CountMatches
  BY <1>2, FS_EmptySet DEF RCInit, CountMatches
<1>6. OnlyWantedStreamed /\ OnlyWantedReported /\ StacksSeen /\ WantedReported
  BY <1>2 DEF RCInit, OnlyWantedStreamed, OnlyWantedReported, StacksSeen, WantedReported
<1> QED BY <1>1, <1>3, <1>4, <1>5, <1>6 DEF RCInv

\* The limit is tested outside the lock: one thread more is past it.
LEMMA CheckLimitKeeps ==
  ASSUME RCInv, NEW t \in Thread, NEW r \in Race, CheckLimit(t, r)
  PROVE  Kept' /\ LimitShared'
<1>1. Kept'
  BY DEF RCInv, Kept, CheckLimit, config, collected
<1>2. _race_count' = _race_count /\ passed[t] = Null
  BY DEF CheckLimit, collected
<1>3. CASE _race_count > MAX
  <2>1. passed' = passed
    BY <1>3 DEF CheckLimit
  <2>2. Past' = Past
    BY <2>1 DEF Past
  <2> QED BY <1>1, <1>2, <2>2 DEF RCInv, LimitShared
<1>4. CASE ~(_race_count > MAX)
  <2>1. Past' \subseteq Thread
    BY DEF Past
  <2>2. Cardinality(Past') \in Nat /\ Cardinality(Past') <= Cardinality(Thread)
        /\ Cardinality(Thread) \in Nat
    BY <2>1, ThreadAssumption, FS_Subset, FS_CardinalityType
  <2>3. _race_count <= MAX /\ _race_count \in Nat /\ MAX \in Nat
    BY <1>4, LimitAssumption DEF RCInv, Kept
  <2>4. _race_count' + Cardinality(Past') <= MAX + Cardinality(Thread)
    <3> HIDE DEF Past
    <3> QED BY <1>2, <2>2, <2>3
  <2> QED BY <1>1, <2>4 DEF LimitShared
<1> QED BY <1>1, <1>3, <1>4

\* add_race() counts at most one race and takes its thread's place in the limit.
LEMMA AddRaceCounts ==
  ASSUME RCInv, NEW t \in Thread, add_race(t)
  PROVE  LimitShared'
<1>1. _race_count' \in {_race_count, _race_count + 1}
  BY DEF add_race, Collect
<1>2. t \in Past /\ Past' = Past \ {t}
  BY DEF add_race, Past, RCInv, Kept
<1>3. Cardinality(Past') = Cardinality(Past) - 1
  BY <1>2, PastFinite, FS_RemoveElement
<1>4. Cardinality(Past') \in Nat
  <2>1. IsFiniteSet(Past')
    BY <1>2, PastFinite, FS_RemoveElement
  <2> QED BY <2>1, FS_CardinalityType
<1> QED BY <1>1, <1>3, <1>4, PastFinite, LimitAssumption DEF RCInv, Kept, LimitShared

\* What add_race() can do with its race: drop it, or take it in one of three ways.
LEMMA AddRaceCases ==
  ASSUME RCInv, NEW t \in Thread, add_race(t)
  PROVE  LET r == passed[t]
             item == [race |-> r, wanted |-> Settled(r.addr) => Wanted(r)]
         IN  /\ r \in Race /\ item \in Sunk /\ ~exited
             /\ \/ /\ UNCHANGED <<_races, _race_count, sunk>>
                   /\ filter_duplicates(r) \/ check_implausible(r)
                \/ /\ _delayed_lookup /\ _races' = Append(_races, r)
                   /\ sunk' = Append(sunk, item) /\ _race_count' = _race_count + 1
                \/ /\ ~_delayed_lookup /\ check_suppress(r)
                   /\ _races' = Append(_races, r) /\ UNCHANGED <<sunk, _race_count>>
                \/ /\ ~_delayed_lookup /\ ~check_suppress(r) /\ ~check_implausible(r)
                   /\ sunk' = Append(sunk, item) /\ _race_count' = _race_count + 1
                   /\ UNCHANGED _races
<1> DEFINE r == passed[t]
<1> DEFINE item == [race |-> r, wanted |-> Settled(r.addr) => Wanted(r)]
<1>1. r \in Race /\ ~exited
  BY DEF add_race, RCInv, Kept
<1>2. item \in Sunk
  <2>1. (Settled(r.addr) => Wanted(r)) \in BOOLEAN
    OBVIOUS
  <2> QED BY <1>1, <2>1 DEF Sunk
<1>3. CASE ~filter_duplicates(r) /\ ~check_implausible(r)
  <2>1. Collect(r)
    BY <1>3 DEF add_race
  <2> QED BY <1>1, <1>2, <1>3, <2>1 DEF Collect, Forward
<1>4. CASE filter_duplicates(r) \/ check_implausible(r)
  <2>1. UNCHANGED <<_races, _race_count, sunk>>
    BY <1>4 DEF add_race
  <2> QED BY <1>1, <1>2, <1>4, <2>1
<1> QED BY <1>3, <1>4

\* What the sinks got stays, and a forwarded race is behind it.
LEMMA AddRaceSinks ==
  ASSUME RCInv, NEW t \in Thread, add_race(t)
  PROVE  LET r == passed[t]
             item == [race |-> r, wanted |-> Settled(r.addr) => Wanted(r)]
         IN  /\ sunk' \in Seq(Sunk)
             /\ \A i \in DOMAIN sunk : i \in DOMAIN sunk' /\ sunk'[i] = sunk[i]
             /\ \A i \in DOMAIN sunk' : i \in DOMAIN sunk \/ sunk'[i] = item
             /\ sunk' = Append(sunk, item) => \E i \in DOMAIN sunk' : sunk'[i] = item
<1> DEFINE item == [race |-> passed[t],
                    wanted |-> Settled(passed[t].addr) => Wanted(passed[t])]
<1>1. item \in Sunk /\ (sunk' = sunk \/ sunk' = Append(sunk, item))
  BY AddRaceCases
<1>2. sunk \in Seq(Sunk)
  BY DEF RCInv, Kept
<1> HIDE DEF item
<1>3. /\ sunk' \in Seq(Sunk)
      /\ \A i \in DOMAIN sunk : i \in DOMAIN sunk' /\ sunk'[i] = sunk[i]
      /\ \A i \in DOMAIN sunk' : i \in DOMAIN sunk \/ sunk'[i] = item
  <2>1. CASE sunk' = sunk
    BY <1>2, <2>1
  <2>2. CASE sunk' = Append(sunk, item)
    BY <1>1, <1>2, <2>2
  <2> QED BY <1>1, <2>1, <2>2
<1>4. sunk' = Append(sunk, item) => \E i \in DOMAIN sunk' : sunk'[i] = item
  <2> SUFFICES ASSUME sunk' = Append(sunk, item)
               PROVE  \E i \in DOMAIN sunk' : sunk'[i] = item
    OBVIOUS
  <2>1. Len(sunk) + 1 \in DOMAIN sunk' /\ sunk'[Len(sunk) + 1] = item
    BY <1>1, <1>2
  <2> QED BY <2>1
<1> QED BY <1>3, <1>4 DEF item

\* The indices of a sequence of length n.
LEMMA FirstIndices ==
  ASSUME NEW n \in Nat
  PROVE  IsFiniteSet(1..n) /\ Cardinality(1..n) = n
<1>1. IsFiniteSet(1..n) /\ Cardinality(1..n) = IF 1 > n THEN 0 ELSE n - 1 + 1
  BY FS_Interval
<1> QED BY <1>1

\* add_race() keeps the types and the count.
LEMMA AddRaceKept ==
  ASSUME RCInv, NEW t \in Thread, add_race(t)
  PROVE  Kept' /\ CountMatches'
<1> DEFINE r == passed[t]
<1>1. r \in Race /\ ~exited /\ _races \in Seq(Race) /\ sunk \in Seq(Sunk) /\ _race_count \in Nat
  BY AddRaceCases DEF RCInv, Kept
<1>2. passed' \in [Thread -> Race \cup {Null}] /\ addr_list' \subseteq Annotated
      /\ exited' = exited /\ _delayed_lookup' = _delayed_lookup
  BY DEF add_race, RCInv, Kept, config
<1>3. wanted' \subseteq Race
  BY <1>1 DEF add_race, RCInv, Kept
<1>4. _races' = _races \/ _races' = Append(_races, r)
  BY AddRaceCases
<1>5. _races' \in Seq(Race)
  BY <1>1, <1>4
<1>6. DOMAIN _races' = 1..Len(_races') /\ Len(_races') \in Nat
  BY <1>5
<1>7. /\ IsFiniteSet(DOMAIN _races') /\ Cardinality(DOMAIN _races') = Len(_races')
      /\ DOMAIN _races' \subseteq Nat \ {0} /\ \A i \in DOMAIN _races' : _races'[i] \in Race
  <2>1. IsFiniteSet(1..Len(_races')) /\ Cardinality(1..Len(_races')) = Len(_races')
    BY <1>6, FirstIndices
  <2> QED BY <1>5, <1>6, <2>1
<1>8. sunk' \in Seq(Sunk)
  BY AddRaceSinks
<1>9. _race_count' \in Nat
  <2>1. _race_count' = _race_count \/ _race_count' = _race_count + 1
    BY AddRaceCases
  <2> QED BY <1>1, <2>1
<1>10. Kept'
  BY <1>2, <1>3, <1>5, <1>7, <1>8, <1>9 DEF Kept
<1>11. Cardinality(DOMAIN _races) = Len(_races)
  <2>1. DOMAIN _races = 1..Len(_races) /\ Len(_races) \in Nat
    BY <1>1
  <2> QED BY <2>1, FirstIndices
<1>12. _race_count = IF _delayed_lookup THEN Len(_races) ELSE Len(sunk)
  BY <1>11 DEF RCInv, CountMatches
<1>13. _race_count' = IF _delayed_lookup THEN Len(_races') ELSE Len(sunk')
  <2> DEFINE item == [race |-> r, wanted |-> Settled(r.addr) => Wanted(r)]
  <2>1. \/ UNCHANGED <<_races, _race_count, sunk>>
        \/ /\ _delayed_lookup /\ _races' = Append(_races, r)
           /\ _race_count' = _race_count + 1
        \/ ~_delayed_lookup /\ UNCHANGED <<sunk, _race_count>>
        \/ /\ ~_delayed_lookup /\ sunk' = Append(sunk, item)
           /\ _race_count' = _race_count + 1
    BY AddRaceCases
  <2>2. Len(Append(_races, r)) = Len(_races) + 1
    BY <1>1
  <2>3. Len(Append(sunk, item)) = Len(sunk) + 1
    <3>1. item \in Sunk
      BY AddRaceCases
    <3> HIDE DEF item
    <3> QED BY <1>1, <3>1
  <2> HIDE DEF item
  <2> QED BY <1>12, <2>1, <2>2, <2>3
<1>14. CountMatches'
  BY <1>2, <1>7, <1>13 DEF CountMatches
<1> QED BY <1>10, <1>14

\* With direct lookup only a race that passes both filters goes to the sinks.
LEMMA AddRaceStreams ==
  ASSUME RCInv, NEW t \in Thread, add_race(t)
  PROVE  OnlyWantedStreamed'
<1> DEFINE r == passed[t]
<1> DEFINE item == [race |-> r, wanted |-> Settled(r.addr) => Wanted(r)]
<1>1. _delayed_lookup' = _delayed_lookup
  BY DEF add_race, config
<1> SUFFICES ASSUME ~_delayed_lookup, NEW i \in DOMAIN sunk' PROVE sunk'[i].wanted
  BY <1>1 DEF OnlyWantedStreamed
<1>2. CASE i \in DOMAIN sunk
  <2>1. sunk'[i] = sunk[i]
    BY <1>2, AddRaceSinks
  <2> QED BY <1>2, <2>1 DEF RCInv, OnlyWantedStreamed
<1>3. CASE i \notin DOMAIN sunk
  <2>1. sunk'[i] = item
    BY <1>3, AddRaceSinks
  <2>2. sunk' # sunk
    BY <1>3
  <2>3. r \in Race /\ ~check_suppress(r) /\ ~check_implausible(r)
    BY <2>2, AddRaceCases
  <2>4. Settled(r.addr) => Wanted(r)
    BY <2>3, WantedExact DEF RCInv, Kept
  <2>5. item.wanted
    BY <2>4
  <2> QED BY <2>1, <2>5
<1> QED BY <1>2, <1>3

\* A wanted race is forwarded, or one with the same stacks has been seen.
LEMMA AddRaceReports ==
  ASSUME RCInv, NEW t \in Thread, add_race(t)
  PROVE  StacksSeen' /\ WantedReported'
<1> DEFINE r == passed[t]
<1> DEFINE item == [race |-> r, wanted |-> Settled(r.addr) => Wanted(r)]
<1> DEFINE want == Settled(r.addr) /\ Wanted(r)
<1>1. r \in Race
  BY AddRaceCases
<1>2. /\ suppression_level' = suppression_level
      /\ wanted' = IF want THEN wanted \cup {r} ELSE wanted
      /\ unwanted' = IF want THEN unwanted ELSE unwanted \cup {r.outer}
      /\ _racy_stacks' = IF suppression_level = 0 THEN _racy_stacks
                         ELSE _racy_stacks \cup {r.outer}
  BY DEF add_race, config
<1>3. \A i \in DOMAIN sunk : i \in DOMAIN sunk' /\ sunk'[i] = sunk[i]
  BY AddRaceSinks
<1>4. unwanted \subseteq unwanted'
  BY <1>2
<1>5. ASSUME want, ~filter_duplicates(r)
      PROVE  \E i \in DOMAIN sunk' : sunk'[i].race = r
  <2>1. ~check_implausible(r) /\ ~check_suppress(r)
    BY <1>1, <1>5, WantedExact DEF RCInv, Kept
  <2>2. sunk' = Append(sunk, item)
    BY <1>5, <2>1, AddRaceCases
  <2>3. PICK i \in DOMAIN sunk' : sunk'[i] = item
    BY <2>2, AddRaceSinks
  <2>4. sunk'[i].race = r
    BY <2>3
  <2> QED BY <2>4
<1>6. ASSUME want, filter_duplicates(r)
      PROVE  /\ suppression_level # 0
             /\ r.outer \in unwanted \/ \E i \in DOMAIN sunk : sunk[i].race.outer = r.outer
  BY <1>6 DEF filter_duplicates, RCInv, StacksSeen
<1> HIDE DEF want, r
<1>7. StacksSeen'
  <2> SUFFICES ASSUME suppression_level # 0, NEW o \in _racy_stacks'
      PROVE  o \in unwanted' \/ \E i \in DOMAIN sunk' : sunk'[i].race.outer = o
    BY <1>2 DEF StacksSeen
  <2>1. CASE o \in _racy_stacks
    BY <1>3, <1>4, <2>1 DEF RCInv, StacksSeen
  <2>2. CASE o = r.outer
    <3>1. CASE ~want
      BY <1>2, <2>2, <3>1
    <3>2. CASE want /\ filter_duplicates(r)
      BY <1>3, <1>4, <1>6, <2>2, <3>2
    <3>3. CASE want /\ ~filter_duplicates(r)
      BY <1>5, <2>2, <3>3
    <3> QED BY <3>1, <3>2, <3>3
  <2> QED BY <1>2, <2>1, <2>2
<1>8. WantedReported'
  <2> SUFFICES ASSUME NEW s \in wanted'
      PROVE  \/ \E i \in DOMAIN sunk' : sunk'[i].race = s
             \/ /\ suppression_level # 0
                /\ s.outer \in unwanted' \/ \E i \in DOMAIN sunk' : sunk'[i].race.outer = s.outer
    BY <1>2 DEF WantedReported
  <2>1. CASE s \in wanted
    BY <1>3, <1>4, <2>1 DEF RCInv, WantedReported
  <2>2. CASE s \notin wanted
    <3>1. want /\ s = r
      BY <1>2, <2>2
    <3> QED BY <1>3, <1>4, <1>5, <1>6, <3>1
  <2> QED BY <2>1, <2>2
<1> QED BY <1>7, <1>8

\* The summary takes the races out that have been suppressed, and counts them off.
LEMMA SummaryKeeps ==
  ASSUME RCInv, Summary
  PROVE  Kept' /\ LimitShared' /\ CountMatches' /\ OnlyWantedReported'
<1> DEFINE gone == {i \in DOMAIN _races : check_suppress(_races[i])}
<1> DEFINE left == DOMAIN _races \ gone
<1>1. /\ passed' = passed /\ addr_list' = addr_list /\ sunk' = sunk /\ wanted' = wanted
      /\ _delayed_lookup' = _delayed_lookup /\ exited' = TRUE
  BY DEF Summary, config, found
<1>2. /\ \A i \in DOMAIN _races : _races[i] \in Race
      /\ DOMAIN _races \subseteq Nat \ {0} /\ IsFiniteSet(DOMAIN _races)
      /\ _race_count \in Nat /\ addr_list \subseteq Annotated
  BY DEF RCInv, Kept
<1>3. Past' = Past
  BY <1>1 DEF Past
<1>4. CASE ~_delayed_lookup
  <2>1. _races' = _races /\ _race_count' = _race_count
    BY <1>4 DEF Summary
  <2>2. Kept'
    BY <1>1, <1>2, <2>1 DEF RCInv, Kept
  <2>3. LimitShared'
    BY <1>3, <2>1 DEF RCInv, LimitShared
  <2>4. CountMatches' /\ OnlyWantedReported'
    BY <1>1, <1>4, <2>1 DEF RCInv, CountMatches, OnlyWantedReported
  <2> QED BY <2>2, <2>3, <2>4
<1>5. CASE _delayed_lookup
  <2>1. _races' = [i \in left |-> _races[i]] /\ _race_count' = _race_count - Cardinality(gone)
    BY <1>5 DEF Summary, Restrict
  <2>2. /\ IsFiniteSet(gone) /\ IsFiniteSet(left)
        /\ Cardinality(left) \in Nat /\ Cardinality(gone) \in Nat
        /\ Cardinality(left) = Cardinality(DOMAIN _races) - Cardinality(gone)
    <3>1. gone \subseteq DOMAIN _races /\ left \subseteq DOMAIN _races
      OBVIOUS
    <3>2. DOMAIN _races \cap gone = gone
      OBVIOUS
    <3> HIDE DEF gone
    <3>3. IsFiniteSet(gone) /\ IsFiniteSet(left)
      BY <1>2, <3>1, FS_Subset
    <3>4. Cardinality(left) = Cardinality(DOMAIN _races) - Cardinality(gone)
      BY <1>2, <3>2, FS_Difference
    <3> QED BY <3>3, <3>4, FS_CardinalityType
  <2>3. _race_count = Cardinality(DOMAIN _races)
    BY <1>5 DEF RCInv, CountMatches
  <2>4. _race_count' = Cardinality(left) /\ _race_count' \in Nat /\ _race_count' <= _race_count
    <3> HIDE DEF gone, left
    <3>1. Cardinality(DOMAIN _races) \in Nat
      BY <1>2, <2>3
    <3> QED BY <2>1, <2>2, <2>3, <3>1
  <2>5. DOMAIN _races' = left /\ \A i \in left : _races'[i] = _races[i]
    BY <2>1
  <2>6. Kept'
    BY <1>1, <1>2, <2>2, <2>4, <2>5 DEF RCInv, Kept
  <2>7. LimitShared'
    <3>1. _race_count + Cardinality(Past) <= MAX + Cardinality(Thread)
      BY DEF RCInv, LimitShared
    <3>2. _race_count' + Cardinality(Past') <= MAX + Cardinality(Thread)
      <4> HIDE DEF left
      <4> QED BY <1>2, <1>3, <2>4, <3>1, PastFinite, LimitAssumption
    <3> QED BY <3>2 DEF LimitShared
  <2>8. CountMatches'
    BY <1>1, <1>5, <2>4, <2>5 DEF CountMatches
  <2>9. OnlyWantedReported'
    <3> SUFFICES ASSUME NEW i \in left PROVE ~Suppressed(_races[i])'
      BY <2>5 DEF OnlyWantedReported
    <3>1. ~check_suppress(_races[i]) /\ _races[i] \in Race
      BY <1>2
    <3>2. ~Suppressed(_races[i])
      BY <1>2, <3>1, FilterExact
    <3>3. _races'[i] = _races[i] /\ addr_list' = addr_list
      BY <1>1, <2>5
    <3> QED BY <3>2, <3>3 DEF Suppressed
  <2> QED BY <2>6, <2>7, <2>8, <2>9
<1> QED BY <1>4, <1>5

\* Every step keeps the invariant of the collector.
LEMMA RCStep == RCInv /\ [RCNext]_rcVars => RCInv'
<1> SUFFICES ASSUME RCInv, [RCNext]_rcVars PROVE RCInv'
  OBVIOUS
<1> USE DEF rcVars, config, collected, found
\* What a step that adds no race leaves as it is.
<1>1. ASSUME UNCHANGED <<collected, suppression_level, _delayed_lookup, wanted, unwanted>>
      PROVE  CountMatches' /\ OnlyWantedStreamed' /\ StacksSeen' /\ WantedReported'
  BY <1>1 DEF RCInv, CountMatches, OnlyWantedStreamed, StacksSeen, WantedReported
<1>2. ASSUME NEW t \in Thread, NEW r \in Race, CheckLimit(t, r)
      PROVE  RCInv'
  <2>1. UNCHANGED <<collected, suppression_level, _delayed_lookup, wanted, unwanted>>
        /\ UNCHANGED mtVars /\ UNCHANGED <<addr_list, exited>>
    BY <1>2 DEF CheckLimit
  <2>2. OnlyWantedReported'
    BY <2>1 DEF RCInv, OnlyWantedReported, Suppressed
  <2>3. TrackerInv'
    BY <2>1, TrackerStep DEF RCInv
  <2> QED BY <1>1, <1>2, <2>1, <2>2, <2>3, CheckLimitKeeps DEF RCInv
<1>3. ASSUME NEW t \in Thread, add_race(t)
      PROVE  RCInv'
  <2>1. UNCHANGED mtVars /\ ~exited /\ exited' = exited
    BY <1>3 DEF add_race
  <2>2. OnlyWantedReported'
    BY <2>1, AddRaceCases, <1>3 DEF OnlyWantedReported
  <2>3. TrackerInv'
    BY <2>1, TrackerStep DEF RCInv
  <2> QED BY <1>3, <2>2, <2>3, AddRaceCounts, AddRaceKept, AddRaceStreams, AddRaceReports DEF RCInv
<1>4. ASSUME NEW a \in Annotated, SuppressAddr(a)
      PROVE  RCInv'
  <2>1. UNCHANGED <<collected, suppression_level, _delayed_lookup, wanted, unwanted>>
        /\ UNCHANGED mtVars /\ UNCHANGED <<passed, exited>> /\ ~exited
        /\ addr_list' = addr_list \cup {a}
    BY <1>4 DEF SuppressAddr
  <2>2. OnlyWantedReported'
    BY <2>1 DEF OnlyWantedReported
  <2>3. TrackerInv'
    BY <2>1, TrackerStep DEF RCInv
  <2>4. Kept' /\ LimitShared'
    BY <2>1 DEF RCInv, Kept, LimitShared, Past
  <2> QED BY <1>1, <2>1, <2>2, <2>3, <2>4 DEF RCInv
<1>5. ASSUME Summary
      PROVE  RCInv'
  <2>1. UNCHANGED mtVars /\ UNCHANGED <<_delayed_lookup, suppression_level, _racy_stacks, sunk,
                                        wanted, unwanted>>
    BY <1>5 DEF Summary
  <2>2. OnlyWantedStreamed' /\ StacksSeen' /\ WantedReported'
    BY <2>1 DEF RCInv, OnlyWantedStreamed, StacksSeen, WantedReported
  <2>3. TrackerInv'
    BY <2>1, TrackerStep DEF RCInv
  <2> QED BY <1>5, <2>2, <2>3, SummaryKeeps DEF RCInv
<1>6. ASSUME MTNext \/ UNCHANGED mtVars,
             UNCHANGED <<config, collected, addr_list, passed, found, exited>>
      PROVE  RCInv'
  <2>1. TrackerInv'
    BY <1>6, TrackerStep DEF RCInv
  <2>2. Kept' /\ LimitShared'
    BY <1>6 DEF RCInv, Kept, LimitShared, Past
  <2>3. OnlyWantedReported'
    BY <1>6 DEF RCInv, OnlyWantedReported, Suppressed
  <2> QED BY <1>1, <1>6, <2>1, <2>2, <2>3 DEF RCInv
<1> QED BY <1>2, <1>3, <1>4, <1>5, <1>6 DEF RCNext

-----------------------------------------------------------------------------
(* Theorems. *)

\* The invariant holds of every run of the collector and the tracker.
LEMMA Invariant == RCSpec => []RCInv
BY RCInitHolds, RCStep, PTL DEF RCSpec

\* The tracker and the collector keep their types: every base in the index is that of
\* its module, and the count never falls below zero.
THEOREM RCTypeCorrect == RCSpec => []RCTypeOK
<1>1. RCInv => RCTypeOK
  BY DEF RCInv, Kept, TrackerInv, RCTypeOK
<1> QED BY <1>1, Invariant, PTL

\* However loads, unloads and translations are ordered, a block is instrumented as its
\* module wants, until a module is loaded where another has been.
THEOREM InstrumentationRight == RCSpec => []InstrumentedRight
<1>1. RCInv => InstrumentedRight
  BY TrackerRight DEF RCInv
<1> QED BY <1>1, Invariant, PTL

\* The limit tested outside the lock is passed by at most one race and one for every
\* further thread.
THEOREM LimitHolds == RCSpec => []LimitKept
<1>1. RCInv => LimitKept
  <2> SUFFICES ASSUME RCInv PROVE LimitKept
    OBVIOUS
  <2> QED BY PastFinite, LimitAssumption DEF RCInv, Kept, LimitShared, LimitKept
<1> QED BY <1>1, Invariant, PTL

\* The number the summary gives is the number of races in the report.
THEOREM CountRight == RCSpec => []CountMatches
<1>1. RCInv => CountMatches
  BY DEF RCInv
<1> QED BY <1>1, Invariant, PTL

\* With direct lookup the sinks get no race that is suppressed at that moment.
THEOREM StreamFiltered == RCSpec => []OnlyWantedStreamed
<1>1. RCInv => OnlyWantedStreamed
  BY DEF RCInv
<1> QED BY <1>1, Invariant, PTL

\* The report at the end has no race that is suppressed by then.
THEOREM ReportFiltered == RCSpec => []OnlyWantedReported
<1>1. RCInv => OnlyWantedReported
  BY DEF RCInv
<1> QED BY <1>1, Invariant, PTL

\* A race that nothing suppresses reaches the sinks, or one with the same outermost
\* functions was there before.
THEOREM WantedRacesReported == RCSpec => []WantedReported
<1>1. RCInv => WantedReported
  BY DEF RCInv
<1> QED BY <1>1, Invariant, PTL

=============================================================================
