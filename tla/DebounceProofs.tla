--------------------------- MODULE DebounceProofs ---------------------------
(***************************************************************************)
(* Module Debounce keeps its bound, and tells the truth about how a drain  *)
(* ended, for every DEBOUNCE, CEILING, Lateness and MaxQueued.             *)
(***************************************************************************)
EXTENDS Debounce, TLAPS

\* The thread is never overdue, and each step bounds when the next one is due.
Punctual ==
  /\ pc = "top" => due <= CEILING + 2 * Lateness /\ now <= due + Lateness
  /\ pc = "call" => due <= now /\ now <= due + Lateness /\ due < CEILING
  /\ pc = "wait" => /\ due <= deadline /\ now <= due + Lateness
                    /\ deadline <= CEILING + Lateness

\* The timeout in hand was computed at due.
TimeoutKept == pc = "call" => wait = Least(DEBOUNCE, CEILING - due)

\* A truncated wait ends at the ceiling or later.
TruncatedAtCeiling == pc = "wait" /\ wait < DEBOUNCE => deadline >= CEILING

\* With an empty channel, no event came since the wait began at deadline - wait.
QuietSinceCall ==
  pc = "wait" /\ queued = 0 =>
    /\ deadline - wait <= now
    /\ Least(DEBOUNCE, now - (deadline - wait)) <= quiet

EndedOnlyInRecv == ended # "none" => pc = "recv"

IInv ==
  /\ TypeOK
  /\ Punctual
  /\ TimeoutKept
  /\ TruncatedAtCeiling
  /\ QuietSinceCall
  /\ EndedOnlyInRecv
  /\ OutcomeIsTruthful

(* Everything above holds when the thread first waits for an event. *)
LEMMA InitEstablishes == Init => IInv
  BY ConstantsAssumption
  DEF Init, IInv, TypeOK, Punctual, TimeoutKept, TruncatedAtCeiling, QuietSinceCall,
      EndedOnlyInRecv, OutcomeIsTruthful, Least

(* No step of the thread, of the watch callback or of the clock disturbs it. *)
LEMMA StepPreserves == IInv /\ [Next]_vars => IInv'
<1> USE ConstantsAssumption
    DEF IInv, TypeOK, Punctual, TimeoutKept, TruncatedAtCeiling, QuietSinceCall,
        EndedOnlyInRecv, OutcomeIsTruthful, Least
<1> SUFFICES ASSUME IInv, [Next]_vars PROVE IInv'
  OBVIOUS
<1>1. CASE Receive
  BY <1>1 DEF Receive
<1>2. CASE CutAtTop
  BY <1>2 DEF CutAtTop
<1>3. CASE ComputeWait
  BY <1>3 DEF ComputeWait, Timeout
<1>4. CASE StartWait
  BY <1>4 DEF StartWait
<1>5. CASE Wake
  BY <1>5 DEF Wake
<1>6. CASE TimeOut
  BY <1>6 DEF TimeOut, Outcome
<1>7. CASE Arrive
  BY <1>7 DEF Arrive
<1>8. CASE Tick
  BY <1>8 DEF Tick
<1>9. CASE UNCHANGED vars
  BY <1>9 DEF vars
<1> QED
  BY <1>1, <1>2, <1>3, <1>4, <1>5, <1>6, <1>7, <1>8, <1>9 DEF Next, Thread

(* The inductive invariant of the drain. *)
THEOREM Inductive == Spec => []IInv
  BY InitEstablishes, StepPreserves, PTL DEF Spec

(* The state of the drain keeps its types; in particular the wait computed from the
   ceiling is never negative and never longer than DEBOUNCE. *)
THEOREM Typing == Spec => []TypeOK
<1>1. IInv => TypeOK
  BY DEF IInv
<1> QED
  BY <1>1, Inductive, PTL

(* A continuous stream of events cannot hold a reload back past the ceiling. *)
THEOREM Bounded == Spec => []EndsByCeiling
<1>1. IInv => EndsByCeiling
  BY ConstantsAssumption DEF IInv, TypeOK, Punctual, EndsByCeiling
<1> QED
  BY <1>1, Inductive, PTL

(* A drain reported as quiet was quiet, and one reported as cut short lasted until the
   ceiling. *)
THEOREM OutcomeHonest == Spec => []OutcomeIsTruthful
<1>1. IInv => OutcomeIsTruthful
  BY DEF IInv
<1> QED
  BY <1>1, Inductive, PTL
=============================================================================
