-------------------------- MODULE MCRaceDetection --------------------------
(***************************************************************************)
(* Small programs for the detector to watch.                               *)
(***************************************************************************)
EXTENDS RaceDetection

\* Who starts whom.  A thread whose parent is not running is a root.
AllRoots == {<<t, t>> : t \in Tid}
MainStartsAll == {<<1, t>> : t \in Tid}
TwoRoots == {<<1, 1>>, <<1, 2>>, <<3, 3>>}

NoBlock == {}
OneBlock == {<<1, 1>>}
TouchingBlocks == {<<1, 1>>, <<2, 1>>}

=============================================================================
