-------------------------- MODULE MCRaceCollector --------------------------
(***************************************************************************)
(* A module that is instrumented, one that is not, and one that overlaps   *)
(* with it and can only be loaded when it is gone; races between two pairs *)
(* of thread functions.                                                    *)
(***************************************************************************)
EXTENDS RaceCollector, TLC

Modules ==
  {[base |-> 0, end |-> 1, memory |-> TRUE],
   [base |-> 1, end |-> 3, memory |-> FALSE],
   [base |-> 2, end |-> 3, memory |-> TRUE]}

Threads == Permutations(Thread)

Rec(o, a, p, l) == [outer |-> o, addr |-> a, plausible |-> p, listed |-> l]

Races ==
  {Rec("main-worker", 0, TRUE, FALSE),
   Rec("main-worker", 1, TRUE, FALSE),
   Rec("main-worker", 3, TRUE, TRUE),
   Rec("worker-worker", 3, TRUE, FALSE),
   Rec("worker-worker", 2, FALSE, FALSE)}

=============================================================================
