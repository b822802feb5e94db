---------------------------- MODULE MCFTLocking ----------------------------
(***************************************************************************)
(* Small instances of the locking protocol.                                *)
(***************************************************************************)
EXTENDS FTLocking, TLC

Interchangeable == Permutations(Thread) \cup Permutations(Obj) \cup Permutations(Addr)

=============================================================================
