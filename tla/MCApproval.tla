----------------------------- MODULE MCApproval -----------------------------
(* A small instance of Approval for TLC: a backend with a plain name, and one whose name
   holds a control character and is escaped to a third name. *)
EXTENDS Approval

MCBackends == {"plain", "control", "escaped"}
MCEscaped == [b \in MCBackends |-> IF b = "control" THEN "escaped" ELSE b]
=============================================================================
