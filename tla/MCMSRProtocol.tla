--------------------------- MODULE MCMSRProtocol ---------------------------
(***************************************************************************)
(* Two threads of a client that is started twice.                          *)
(***************************************************************************)
EXTENDS MSRProtocol

=============================================================================
