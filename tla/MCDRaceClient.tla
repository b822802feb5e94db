--------------------------- MODULE MCDRaceClient ---------------------------
(***************************************************************************)
(* A small process under DRace.                                            *)
(***************************************************************************)
EXTENDS DRaceClient

MainStartsAll == {<<RuntimeTid, t>> : t \in Tid \ {RuntimeTid}}
EachStartsNext == {<<1, 2>>, <<2, 3>>}
NoBlock == {}
OneBlock == {<<1, 1>>}

=============================================================================
