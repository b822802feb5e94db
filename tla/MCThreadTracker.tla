-------------------------- MODULE MCThreadTracker --------------------------
(***************************************************************************)
(* One thread, with call instructions that may recur on its stack.         *)
(***************************************************************************)
EXTENDS ThreadTracker, TLC

\* The call instructions are alike.
Sites == Permutations(Site)

=============================================================================
