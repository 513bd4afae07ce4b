----------------------------- MODULE MCDebounce -----------------------------
(* Small instances of Debounce for TLC. *)
EXTENDS Debounce
=============================================================================
