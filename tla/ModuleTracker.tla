--------------------------- MODULE ModuleTracker ---------------------------
(***************************************************************************)
(* The module tracker (module/Tracker.cpp, Metadata.h) with its one-entry  *)
(* cache (module/Cache.h), and its use when a basic block is instrumented  *)
(* (event_app_analysis() in memory-tracker.cpp).                           *)
(*                                                                         *)
(* A module is its range of addresses and whether its memory accesses are  *)
(* instrumented (INSTR_FLAGS::MEMORY), which register_module() decides     *)
(* from its path and name.  Loading and using a module do not overlap:     *)
(* DynamoRIO raises the load event before the module's code runs.          *)
(***************************************************************************)
EXTENDS Integers, Sequences, FiniteSetsExt

CONSTANTS
  Module,   \* [base, end, memory]: modules the program may load
  Addr,     \* the addresses
  Null

ASSUME ModuleAssumption ==
  /\ Addr \subseteq Nat
  /\ Module \subseteq [base : Addr, end : Nat, memory : BOOLEAN]
  /\ \A m \in Module : m.base < m.end
  /\ Null \notin Module

VARIABLES
  mapped,         \* the modules in memory
  _modules_idx,   \* per base address, the metadata registered first
  mc,             \* the cached module
  used,           \* addresses that have belonged to a module
  reused          \* has a module been loaded over one that is gone?

mtVars == <<mapped, _modules_idx, mc, used, reused>>

Extent(m) == {a \in Addr : m.base <= a /\ a < m.end}

MTInit ==
  /\ mapped = {}
  /\ _modules_idx = [b \in {} |-> Null]
  /\ mc = Null
  /\ used = {}
  /\ reused = FALSE

\* Mutant of get_module_containing: the end of the module is not looked at.
MutNoEnd(pc) ==
  LET below == {b \in DOMAIN _modules_idx : b <= pc}
  IN  IF below = {} THEN Null ELSE _modules_idx[Max(below)].mod

\* The module with the largest base up to pc, if pc is in it.
get_module_containing(pc) ==
  LET below == {b \in DOMAIN _modules_idx : b <= pc}
  IN  IF below = {} THEN Null
      ELSE LET m == _modules_idx[Max(below)].mod
           IN  IF pc < m.end THEN m ELSE Null

\* event_module_load() and register_module().  The test for a module that is known
\* compares with a copy and never succeeds; emplace() keeps an entry that exists.
Load(m) ==
  /\ m \notin mapped
  /\ \A n \in mapped : Extent(m) \cap Extent(n) = {}
  /\ mapped' = mapped \cup {m}
  /\ _modules_idx' = [b \in DOMAIN _modules_idx \cup {m.base} |->
                        IF b \in DOMAIN _modules_idx THEN _modules_idx[b]
                        ELSE [mod |-> m, loaded |-> TRUE]]
  /\ reused' = (reused \/ Extent(m) \cap used # {})
  /\ used' = used \cup Extent(m)
  /\ UNCHANGED mc

\* event_module_unload(); the entry stays in the index.
Unload(m) ==
  /\ m \in mapped
  /\ mapped' = mapped \ {m}
  /\ LET e == get_module_containing(m.base)
     IN  _modules_idx' = IF e = Null THEN _modules_idx
                         ELSE [_modules_idx EXCEPT ![e.base].loaded = FALSE]
  /\ UNCHANGED <<mc, used, reused>>

\* Cache::lookup() and, on a miss, the tracker.
Cached(pc) == mc # Null /\ mc.base <= pc /\ pc < mc.end
Found(pc) == IF Cached(pc) THEN mc ELSE get_module_containing(pc)

\* Is the memory of a block at pc instrumented?  Code of no module is JIT code.
Instrument(pc) == Found(pc) = Null \/ Found(pc).memory

\* event_app_analysis() of a block at pc.
Analyse(pc) ==
  /\ mc' = IF Found(pc) = Null THEN mc ELSE Found(pc)
  /\ UNCHANGED <<mapped, _modules_idx, used, reused>>

MTNext ==
  \/ \E m \in Module : Load(m)
  \/ \E m \in Module : Unload(m)
  \/ \E pc \in Addr : Analyse(pc)

-----------------------------------------------------------------------------
(* Properties. *)

\* Types of the tracker.
MTTypeOK ==
  /\ mapped \subseteq Module
  /\ DOMAIN _modules_idx \subseteq Addr
  /\ \A b \in DOMAIN _modules_idx :
       _modules_idx[b].mod \in Module /\ _modules_idx[b].mod.base = b
  /\ mc \in Module \cup {Null}

\* Should memory at a be instrumented?  Memory of no module is.
Instrumented(a) == \A m \in mapped : a \in Extent(m) => m.memory

\* Not the memory of a module that is gone: its entry stays in the index, and goes
\* on deciding for whatever takes the place.
Settled(a) == ~reused /\ (a \in used => \E m \in mapped : a \in Extent(m))

\* A block is instrumented as its module asks for, however loads, unloads
\* and translations are ordered, until a module is loaded where another has been.
InstrumentedRight ==
  \A a \in Addr : Settled(a) => Instrument(a) = Instrumented(a)

\* "Returns a shared_ptr to the module which contains the given program counter"
\* (Tracker.h), whatever has been loaded and unloaded there before.
LoadedFound ==
  \A m \in mapped : \A a \in Extent(m) : get_module_containing(a) = m

=============================================================================
