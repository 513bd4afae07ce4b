----------------------------- MODULE HotReload -----------------------------
(***************************************************************************)
(* What hot reload promises, without files, events or steps                *)
(* (openspec/specs/cedar-policy-evaluation, "Hot-reload policies keeping   *)
(* the last known good set"; decision-audit-log, "Record the provenance"). *)
(*                                                                         *)
(* One usable policy set decides at a time.  It is replaced whole, by a    *)
(* usable one, under the next generation; an attempt that adopts nothing   *)
(* leaves it alone.  A set is accounted for in the trail before another    *)
(* takes its place.                                                        *)
(***************************************************************************)
EXTENDS Naturals

CONSTANTS
  Usable,   \* the policy sets that may decide
  Nothing   \* no set decides: the daemon is not serving

VARIABLES
  deciding,    \* the set that decides and its generation, or Nothing
  unrecorded   \* the deciding set has not been offered to the trail yet

vars == <<deciding, unrecorded>>

Init ==
  /\ deciding = Nothing
  /\ unrecorded = FALSE

\* Startup: the first usable set is generation 1.
Start(s) ==
  /\ deciding = Nothing
  /\ deciding' = [gen |-> 1, set |-> s]
  /\ unrecorded' = TRUE

\* A successful reload.
Replace(s) ==
  /\ deciding # Nothing
  /\ ~unrecorded
  /\ deciding' = [gen |-> deciding.gen + 1, set |-> s]
  /\ unrecorded' = TRUE

Record ==
  /\ unrecorded
  /\ unrecorded' = FALSE
  /\ UNCHANGED deciding

\* The process ends, at any time.
Stop ==
  /\ deciding' = Nothing
  /\ unrecorded' = FALSE

Next == (\E s \in Usable : Start(s) \/ Replace(s)) \/ Record \/ Stop

Spec == Init /\ [][Next]_vars
=============================================================================
