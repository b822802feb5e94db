--------------------------- MODULE RaceCollector ---------------------------
(***************************************************************************)
(* The race collector (race-collector.h and .cpp) with the race filter     *)
(* (race-filter.cpp), which asks the module tracker, and the end of the    *)
(* client (generate_summary() in drace-client.cpp).                        *)
(*                                                                         *)
(* A race is what the filters tell apart: the outermost frames of its two  *)
(* stacks (stack_trace[0]), the address, whether the stacks are plausible, *)
(* and whether a symbol of theirs is on the suppression list.              *)
(***************************************************************************)
EXTENDS ModuleTracker

CONSTANTS
  Thread,
  Race,       \* [outer, addr, plausible, listed]
  MAX,        \* RaceCollector::MAX
  Annotated,  \* the addresses the program annotates
  Size,       \* bytes suppressed by one annotation
  MaxOffers   \* bound on the races found

ASSUME RaceAssumption ==
  /\ \A r \in Race : r.addr \in Addr /\ r.plausible \in BOOLEAN /\ r.listed \in BOOLEAN
  /\ Null \notin Race
  /\ Annotated \subseteq Addr
ASSUME LimitAssumption == MAX \in Nat /\ Size \in Nat /\ MaxOffers \in Nat
ASSUME ThreadAssumption == IsFiniteSet(Thread)

VARIABLES
  _delayed_lookup, suppression_level,   \* configuration
  _races, _race_count, _racy_stacks,
  addr_list,   \* addresses given to suppress_addr()
  passed,      \* per thread, the race it has found the limit not to forbid
  sunk,        \* what the sinks got, and whether it should have
  wanted,      \* races found that nothing suppresses
  unwanted,    \* stacks of the others: suppressed, or where a module is gone
  offers,
  exited

config == <<_delayed_lookup, suppression_level>>
collected == <<_races, _race_count, _racy_stacks, sunk>>
found == <<wanted, unwanted, offers>>
rcVars == <<config, collected, addr_list, passed, found, exited, mtVars>>

RCInit ==
  /\ MTInit
  /\ _delayed_lookup \in BOOLEAN
  /\ suppression_level \in {0, 1}
  /\ _races = <<>> /\ _race_count = 0 /\ _racy_stacks = {}
  /\ addr_list = {}
  /\ passed = [t \in Thread |-> Null]
  /\ sunk = <<>>
  /\ wanted = {} /\ unwanted = {} /\ offers = 0
  /\ exited = FALSE

-----------------------------------------------------------------------------
(* The filter. *)

\* Mutant of addr_is_suppressed: lower_bound() with the usual order of addresses.
MutAscending(a) == \E b \in addr_list : a <= b /\ b < a + Size

\* The nearest address up to a that has been given decides.
addr_is_suppressed(a) ==
  LET below == {b \in addr_list : b <= a}
  IN  below # {} /\ a < Max(below) + Size

\* check_race() and check_rtos().
check_suppress(r) == addr_is_suppressed(r.addr) \/ r.listed

in_silent_module(r) ==
  LET m == get_module_containing(r.addr) IN m # Null /\ ~m.memory

\* stack_implausible() is the other part.
check_implausible(r) == ~r.plausible \/ in_silent_module(r)

\* Mutant of filter_duplicates: every race after the first is a duplicate.
MutAnyStack(r) == suppression_level # 0 /\ _racy_stacks # {}

filter_duplicates(r) == suppression_level # 0 /\ r.outer \in _racy_stacks

\* What the options and annotations ask for: the reference for the above.
Suppressed(r) == r.listed \/ \E b \in addr_list : b <= r.addr /\ r.addr < b + Size
Wanted(r) == r.plausible /\ Instrumented(r.addr) /\ ~Suppressed(r)

-----------------------------------------------------------------------------
(* The collector. *)

\* Mutant of CheckLimit: the limit is not tested.
MutNoLimit(t, r) ==
  /\ ~exited
  /\ passed[t] = Null
  /\ offers < MaxOffers
  /\ offers' = offers + 1
  /\ passed' = [passed EXCEPT ![t] = r]
  /\ UNCHANGED <<config, collected, addr_list, wanted, unwanted, exited, mtVars>>

\* add_race(), up to the lock.
CheckLimit(t, r) ==
  /\ ~exited
  /\ passed[t] = Null
  /\ offers < MaxOffers
  /\ offers' = offers + 1
  /\ passed' = IF _race_count > MAX THEN passed ELSE [passed EXCEPT ![t] = r]
  /\ UNCHANGED <<config, collected, addr_list, wanted, unwanted, exited, mtVars>>

Forward(r) == sunk' = Append(sunk, [race |-> r, wanted |-> Settled(r.addr) => Wanted(r)])

\* Mutant of Collect: a suppressed race is counted.
MutCountAll(r) ==
  /\ _races' = Append(_races, r)
  /\ IF _delayed_lookup \/ ~check_suppress(r) THEN Forward(r) ELSE UNCHANGED sunk
  /\ _race_count' = _race_count + 1

\* The race is taken.  With direct lookup a suppressed one is not taken out of
\* _races again.
Collect(r) ==
  \/ /\ _delayed_lookup
     /\ _races' = Append(_races, r)
     /\ Forward(r)
     /\ _race_count' = _race_count + 1
  \/ /\ ~_delayed_lookup
     /\ check_suppress(r)
     /\ _races' = Append(_races, r)
     /\ UNCHANGED <<sunk, _race_count>>
  \/ /\ ~_delayed_lookup
     /\ ~check_suppress(r)
     /\ Forward(r)
     /\ _race_count' = _race_count + 1
     /\ UNCHANGED _races

\* add_race(), under the lock.  The stacks count as seen whatever the filter says.
add_race(t) ==
  LET r == passed[t] IN
  /\ ~exited
  /\ r # Null
  /\ passed' = [passed EXCEPT ![t] = Null]
  /\ _racy_stacks' = IF suppression_level = 0 THEN _racy_stacks
                     ELSE _racy_stacks \cup {r.outer}
  /\ IF ~filter_duplicates(r) /\ ~check_implausible(r) THEN Collect(r)
     ELSE UNCHANGED <<_races, _race_count, sunk>>
  /\ LET want == Settled(r.addr) /\ Wanted(r)
     IN  /\ wanted' = IF want THEN wanted \cup {r} ELSE wanted
         /\ unwanted' = IF want THEN unwanted ELSE unwanted \cup {r.outer}
  /\ UNCHANGED <<config, addr_list, offers, exited, mtVars>>

\* Mutant of SuppressAddr: the address after the given one.
MutNextAddr(a) ==
  /\ ~exited
  /\ addr_list' = addr_list \cup {a + 1}
  /\ UNCHANGED <<config, collected, passed, found, exited, mtVars>>

\* suppr_addr() and suppress_addr(), under the same lock.
SuppressAddr(a) ==
  /\ ~exited
  /\ addr_list' = addr_list \cup {a}
  /\ UNCHANGED <<config, collected, passed, found, exited, mtVars>>

\* Mutant of Summary: suppressed races stay in the report.
MutReportAll ==
  /\ ~exited
  /\ exited' = TRUE
  /\ UNCHANGED <<config, collected, addr_list, passed, found, mtVars>>

\* generate_summary(): resolve_all() in delayed mode.  The races that stay keep their
\* index; that erase() closes the gaps is left out.
Summary ==
  /\ ~exited
  /\ exited' = TRUE
  /\ LET gone == {i \in DOMAIN _races : check_suppress(_races[i])}
     IN  IF _delayed_lookup
         THEN /\ _races' = Restrict(_races, DOMAIN _races \ gone)
              /\ _race_count' = _race_count - Cardinality(gone)
         ELSE UNCHANGED <<_races, _race_count>>
  /\ UNCHANGED <<config, _racy_stacks, sunk, addr_list, passed, found, mtVars>>

RCNext ==
  \/ \E t \in Thread : \E r \in Race : CheckLimit(t, r)
  \/ \E t \in Thread : add_race(t)
  \/ \E a \in Annotated : SuppressAddr(a)
  \/ Summary
  \/ MTNext /\ ~exited
     /\ UNCHANGED <<config, collected, addr_list, passed, found, exited>>

RCSpec == RCInit /\ [][RCNext]_rcVars

-----------------------------------------------------------------------------
(* Properties. *)

\* Types of the collector.
RCTypeOK ==
  /\ MTTypeOK
  /\ DOMAIN _races \subseteq Nat \ {0} /\ \A i \in DOMAIN _races : _races[i] \in Race
  /\ _race_count \in Nat
  /\ addr_list \subseteq Annotated
  /\ passed \in [Thread -> Race \cup {Null}]

\* The limit is tested outside the lock: it can be passed by one race and by one
\* more for every further thread, and by no more.
LimitKept == _race_count <= MAX + Cardinality(Thread)

\* The number of races the client reports at its end is the number of races in its
\* report: of those kept in delayed mode, of those the sinks got otherwise.
CountMatches == _race_count = IF _delayed_lookup THEN Cardinality(DOMAIN _races) ELSE Len(sunk)

\* With direct lookup no sink gets a race that is suppressed at that moment by the
\* list, by an annotation of its address or by its module.
OnlyWantedStreamed ==
  ~_delayed_lookup => \A i \in DOMAIN sunk : sunk[i].wanted

\* The report written at the end has no race that is suppressed by then.
OnlyWantedReported ==
  exited /\ _delayed_lookup => \A i \in DOMAIN _races : ~Suppressed(_races[i])

\* A race within the limit that nothing suppresses reaches the sinks.  With the
\* duplicate filter, one between the same outermost functions may have come before:
\* it was reported, or suppressed itself.
WantedReported ==
  \A r \in wanted :
    \/ \E i \in DOMAIN sunk : sunk[i].race = r
    \/ /\ suppression_level # 0
       /\ r.outer \in unwanted \/ \E i \in DOMAIN sunk : sunk[i].race.outer = r.outer

=============================================================================
