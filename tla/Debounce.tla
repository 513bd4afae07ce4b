------------------------------ MODULE Debounce ------------------------------
(***************************************************************************)
(* The timed drain of one burst of file-system events (watcher.rs:178-199):*)
(* it ends on DEBOUNCE of quiet or at CEILING from the first event.        *)
(*                                                                         *)
(* now is Instant::elapsed of the burst, in abstract ticks: it is zero     *)
(* when the burst's first event is received, so nothing here grows without *)
(* bound.  The thread need not run the moment it can: due is when it       *)
(* became able to run, and it runs at most Lateness ticks later.           *)
(***************************************************************************)
EXTENDS Integers

CONSTANTS
  DEBOUNCE,   \* the quiet period
  CEILING,    \* DEBOUNCE_CEILING
  Lateness,   \* how long a runnable thread may have to wait for a CPU
  MaxQueued   \* bound on events waiting in the channel

ASSUME ConstantsAssumption ==
  /\ DEBOUNCE \in Nat \ {0}
  /\ CEILING \in Nat \ {0}
  /\ Lateness \in Nat
  /\ MaxQueued \in Nat \ {0}

VARIABLES
  pc,         \* "recv", "top" of the loop, "call" of recv_timeout, "wait" in it
  now,        \* burst_started.elapsed()
  due,        \* since when the thread can run
  wait,       \* the timeout it computed
  deadline,   \* when recv_timeout gives up
  queued,     \* events in the channel
  ended,      \* how the last drain ended: "none", "quiet" or "cut" (cut_short)
  quiet       \* history: ticks since the last event arrived, up to DEBOUNCE

vars == <<pc, now, due, wait, deadline, queued, ended, quiet>>

TypeOK ==
  /\ pc \in {"recv", "top", "call", "wait"}
  /\ now \in Nat
  /\ due \in Nat
  /\ wait \in 0..DEBOUNCE
  /\ deadline \in Nat
  /\ queued \in 0..MaxQueued
  /\ ended \in {"none", "quiet", "cut"}
  /\ quiet \in 0..DEBOUNCE

Init ==
  /\ pc = "recv"
  /\ now = 0 /\ due = 0 /\ wait = 0 /\ deadline = 0
  /\ queued = 0
  /\ ended = "none"
  /\ quiet = 0

Least(a, b) == IF a <= b THEN a ELSE b

\* rx.recv returns the burst's first event.
Receive ==
  /\ pc = "recv"
  /\ queued > 0
  /\ queued' = queued - 1
  /\ pc' = "top"
  /\ now' = 0
  /\ due' = 0
  /\ wait' = 0 /\ deadline' = 0
  /\ ended' = "none"
  /\ UNCHANGED quiet

\* elapsed >= DEBOUNCE_CEILING
CutAtTop ==
  /\ pc = "top"
  /\ now >= CEILING
  /\ ended' = "cut"
  /\ pc' = "recv"
  /\ UNCHANGED <<now, due, wait, deadline, queued, quiet>>

\* Mutant: every wait is a full DEBOUNCE.
TimeoutFlat == DEBOUNCE

\* Mutant: the wait is whatever the ceiling leaves.
TimeoutRemaining == CEILING - now

Timeout == Least(DEBOUNCE, CEILING - now)

\* wait = min(DEBOUNCE, DEBOUNCE_CEILING - elapsed)
ComputeWait ==
  /\ pc = "top"
  /\ now < CEILING
  /\ wait' = Timeout
  /\ due' = now
  /\ pc' = "call"
  /\ UNCHANGED <<now, deadline, queued, ended, quiet>>

\* recv_timeout(wait) reads the clock for itself.
StartWait ==
  /\ pc = "call"
  /\ deadline' = now + wait
  /\ due' = IF queued > 0 THEN now ELSE now + wait
  /\ pc' = "wait"
  /\ UNCHANGED <<now, wait, queued, ended, quiet>>

\* Mutant: the ceiling is measured from the last event.
WakeRestarting ==
  /\ pc = "wait"
  /\ queued > 0
  /\ queued' = queued - 1
  /\ pc' = "top"
  /\ now' = 0
  /\ due' = 0
  /\ UNCHANGED <<wait, deadline, ended, quiet>>

\* recv_timeout returns an event.
Wake ==
  /\ pc = "wait"
  /\ queued > 0
  /\ queued' = queued - 1
  /\ pc' = "top"
  /\ due' = now
  /\ UNCHANGED <<now, wait, deadline, ended, quiet>>

\* Mutant: a wait that was not truncated counts as cut short.
OutcomeCutAtDebounce == IF wait <= DEBOUNCE THEN "cut" ELSE "quiet"

\* wait < DEBOUNCE: a wait the ceiling truncated is no quiet period.
Outcome == IF wait < DEBOUNCE THEN "cut" ELSE "quiet"

\* recv_timeout gives up; it looks into the channel once more before it does.
TimeOut ==
  /\ pc = "wait"
  /\ queued = 0
  /\ now >= deadline
  /\ ended' = Outcome
  /\ pc' = "recv"
  /\ UNCHANGED <<now, due, wait, deadline, queued, quiet>>

\* The watch callback sends an event.
Arrive ==
  /\ queued < MaxQueued
  /\ queued' = queued + 1
  /\ due' = IF pc = "wait" THEN Least(due, now) ELSE due
  /\ ended' = "none"
  /\ quiet' = 0
  /\ UNCHANGED <<pc, now, wait, deadline>>

\* Time passes while the thread is not overdue.
Tick ==
  /\ pc # "recv"
  /\ now < due + Lateness
  /\ now' = now + 1
  /\ quiet' = Least(quiet + 1, DEBOUNCE)
  /\ UNCHANGED <<pc, due, wait, deadline, queued, ended>>

Thread == Receive \/ CutAtTop \/ ComputeWait \/ StartWait \/ Wake \/ TimeOut

Next == Thread \/ Arrive \/ Tick

Spec == Init /\ [][Next]_vars

\* The thread runs, and time diverges: infinitely many events take forever.
FairSpec == Spec /\ WF_vars(Thread) /\ SF_vars(Tick)

-----------------------------------------------------------------------------
(* "The reload SHALL run no later than that bound regardless of how long events
   keep arriving" (cedar-policy-evaluation spec.md:347-350): the drain is over
   CEILING ticks after its first event, plus the scheduling of at most three steps. *)
EndsByCeiling == pc # "recv" => now <= CEILING + 3 * Lateness

(* cut_short is truthful both ways: a drain reported as quiet really saw DEBOUNCE
   ticks without an event and left none in the channel, and one reported as cut short
   lasted until the ceiling. *)
OutcomeIsTruthful ==
  /\ ended = "quiet" => quiet = DEBOUNCE /\ queued = 0
  /\ ended = "cut" => now >= CEILING

(* A burst is always followed by a reload, even when events never stop. *)
DrainEnds == pc # "recv" ~> pc = "recv"
=============================================================================
