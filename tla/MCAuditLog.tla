----------------------------- MODULE MCAuditLog -----------------------------
(* Small instances of AuditLog for TLC; the cfg files choose records and faults. *)
EXTENDS AuditLog, TLC

CONSTANTS serve, check, Lone

\* `check --audit` appends one record; `serve` appends the others.
MCOwn == [p \in Procs |-> IF p = check THEN {Lone} \cap Recs ELSE Recs \ {Lone}]

Symmetry == Permutations(Inodes) \cup Permutations(Recs \ {Lone})
=============================================================================
