--------------------------- MODULE MCPolicyReload ---------------------------
(* Small instances of PolicyReload for TLC. *)
EXTENDS PolicyReload
=============================================================================
