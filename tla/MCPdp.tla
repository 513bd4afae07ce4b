------------------------------- MODULE MCPdp -------------------------------
(* Small instances of Pdp for TLC. *)
EXTENDS Pdp
=============================================================================
