-------------------------------- MODULE Pdp --------------------------------
(***************************************************************************)
(* The daemon: approval requests (server.rs) decided by the set that       *)
(* PolicyReload keeps current and recorded in the same audit trail.        *)
(*                                                                         *)
(* Every request runs on a task of its own:                                *)
(*                                                                         *)
(*   approval   gate -> guard -> body -> evaluate -> record -> answer      *)
(*                -> done                                                  *)
(*   /healthz   snapshot -> reload -> done                                 *)
(*                                                                         *)
(* with the one await in body.  Nothing orders evaluate and record against *)
(* the watcher's swap and its own record: the deciding set is read without *)
(* a lock, and only the append itself is serialized.                       *)
(***************************************************************************)
EXTENDS PolicyReload

CONSTANTS
  Requests   \* the requests that may come

\* What a request is: not from nono's client, with a body that cannot be read, with
\* a body that does not parse, with an endpoint path that is ambiguous (or of which no
\* Cedar request can be built), a question; or a poll of /healthz.
Kinds == {"foreign", "unreadable", "malformed", "ambiguous", "query", "health"}

VARIABLES
  at,       \* where each request's handler is
  kind,     \* what each request is
  counted,  \* the snapshot whose policies were counted
  by,       \* the set that decided it, Nothing if none was consulted
  log,      \* the whole audit trail: decision and policy-set lines
  \* History, read by the properties only.
  status,   \* the status answered, "none" if none
  current,  \* the sets that decided since the request's body was read
  raced,    \* its set had no line when it was evaluated, or another set's line came
            \* before its own was written; for a poll, a swap whose reload was not told
            \* when it read the snapshot, or one since then
  lost      \* the append of its line was swallowed

requestVars == <<at, kind, counted, by, status, current, raced, lost>>
pdpVars == <<vars, requestVars, log>>

Places == {"none", "gate", "guard", "body", "evaluate", "record", "answer",
           "snapshot", "reload", "done", "gone"}

PolicyLine == [kind : {"policy-set"}, line : Line]
DecisionLine == [kind : {"decision"}, request : Requests, by : Loaded \cup {Nothing}]

PdpTypeOK ==
  /\ TypeOK
  /\ at \in [Requests -> Places]
  /\ kind \in [Requests -> Kinds]
  /\ counted \in [Requests -> Loaded \cup {Nothing}]
  /\ by \in [Requests -> Loaded \cup {Nothing}]
  /\ log \in Seq(PolicyLine \cup DecisionLine)
  /\ status \in [Requests -> {"none", "200", "4xx", "503"}]
  /\ current \in [Requests -> SUBSET (Loaded \cup {Nothing})]
  /\ raced \in [Requests -> BOOLEAN]
  /\ lost \in [Requests -> BOOLEAN]

PdpInit ==
  /\ Init
  /\ at = [r \in Requests |-> "none"]
  /\ kind \in [Requests -> Kinds]
  /\ counted = [r \in Requests |-> Nothing]
  /\ by = [r \in Requests |-> Nothing]
  /\ log = <<>>
  /\ status = [r \in Requests |-> "none"]
  /\ current = [r \in Requests |-> {}]
  /\ raced = [r \in Requests |-> FALSE]
  /\ lost = [r \in Requests |-> FALSE]

Goes(r, from, to) == at[r] = from /\ at' = [at EXCEPT ![r] = to]

Answers(r, code) == status' = [status EXCEPT ![r] = code]

-----------------------------------------------------------------------------
(* approve *)

\* The listener accepts once the watch is up.
Arrive(r) ==
  /\ watching
  /\ Goes(r, "none", IF kind[r] = "health" THEN "snapshot" ELSE "gate")
  /\ UNCHANGED <<vars, kind, counted, by, log, status, current, raced, lost>>

\* header_gate: 415 or 403 before anything is read or recorded.
Gate(r) ==
  /\ \/ kind[r] = "foreign" /\ Goes(r, "gate", "done") /\ Answers(r, "4xx")
     \/ kind[r] # "foreign" /\ Goes(r, "gate", "guard") /\ UNCHANGED status
  /\ UNCHANGED <<vars, kind, counted, by, log, current, raced, lost>>

\* No policies: a daemon that is broken says so.  The snapshot is dropped here.
Guard(r) ==
  /\ at[r] = "guard"
  /\ counted' = [counted EXCEPT ![r] = active]
  /\ IF Contributing(active.set) = {}
     THEN Goes(r, "guard", "done") /\ Answers(r, "503")
     ELSE Goes(r, "guard", "body") /\ UNCHANGED status
  /\ UNCHANGED <<vars, kind, by, log, current, raced, lost>>

\* to_bytes(...).await, then parse: an unreadable or malformed body is denied
\* without consulting a policy.
ReadBody(r) ==
  /\ IF kind[r] \in {"unreadable", "malformed"}
     THEN Goes(r, "body", "record")
     ELSE Goes(r, "body", "evaluate")
  /\ current' = [current EXCEPT ![r] = {active}]
  /\ UNCHANGED <<vars, kind, counted, by, log, status, raced, lost>>

\* The client goes away while the handler awaits the body: the task is dropped.
Disconnect(r) ==
  /\ Goes(r, "body", "gone")
  /\ UNCHANGED <<vars, kind, counted, by, log, status, current, raced, lost>>

\* Mutant: the guard's snapshot is kept across the await and decides.
ConsultedAtGuard(r) == IF kind[r] = "ambiguous" THEN Nothing ELSE counted[r]

Consulted(r) == IF kind[r] = "ambiguous" THEN Nothing ELSE active

\* The active set has no line in the trail yet.
AboutToRecordLoad == pc = "trail" /\ outcome = "loaded"

\* Engine::evaluate: what is ambiguous is denied before the snapshot is taken.
Evaluate(r) ==
  /\ Goes(r, "evaluate", "record")
  /\ by' = [by EXCEPT ![r] = Consulted(r)]
  /\ raced' = [raced EXCEPT ![r] = swallowed \/ AboutToRecordLoad]
  /\ UNCHANGED <<vars, kind, counted, log, status, current, lost>>

\* Mutant: a refused body is answered but not recorded.
RecordedIfParsed(r) ==
  IF kind[r] \in {"unreadable", "malformed"} THEN log
  ELSE Append(log, [kind |-> "decision", request |-> r, by |-> by[r]])

\* record and record_rejected: one line.
Recorded(r) == Append(log, [kind |-> "decision", request |-> r, by |-> by[r]])

\* A swallowed append never changes the decision.
Record(r) ==
  /\ Goes(r, "record", "answer")
  /\ \/ log' = Recorded(r) /\ UNCHANGED lost
     \/ TrailFails /\ lost' = [lost EXCEPT ![r] = TRUE] /\ UNCHANGED log
  /\ UNCHANGED <<vars, kind, counted, by, status, current, raced>>

Answer(r) ==
  /\ Goes(r, "answer", "done")
  /\ Answers(r, "200")
  /\ UNCHANGED <<vars, kind, counted, by, log, current, raced, lost>>

-----------------------------------------------------------------------------
(* healthz *)

\* The active set is one that last_reload does not speak of yet.
Untold == pc \in {"trail", "health"} /\ outcome = "loaded"

\* Two loads of two cells, one after the other.
ReadSnapshot(r) ==
  /\ Goes(r, "snapshot", "reload")
  /\ counted' = [counted EXCEPT ![r] = active]
  /\ raced' = [raced EXCEPT ![r] = Untold]
  /\ UNCHANGED <<vars, kind, by, log, status, current, lost>>

\* last_reload is loaded and the answer is sent.  A failed reload is no 503.
ReadReload(r) ==
  /\ Goes(r, "reload", "done")
  /\ Answers(r, IF Contributing(counted[r].set) = {} THEN "503" ELSE "200")
  /\ UNCHANGED <<vars, kind, counted, by, log, current, raced, lost>>

Handle(r) ==
  \/ Arrive(r)
  \/ Gate(r)
  \/ Guard(r)
  \/ ReadBody(r)
  \/ Disconnect(r)
  \/ Evaluate(r)
  \/ Record(r)
  \/ Answer(r)
  \/ ReadSnapshot(r)
  \/ ReadReload(r)

-----------------------------------------------------------------------------
(* The rest of the daemon *)

InFlight(r) == at[r] \notin {"none", "done", "gone"}

\* A step of the loading thread, or of the directory.  Its lines join the log.
Reload ==
  /\ Thread \/ (Outside /\ crashes' = crashes)
  /\ log' = IF trail' = trail THEN log
            ELSE Append(log, [kind |-> "policy-set", line |-> trail'[Len(trail')]])
  /\ current' = [r \in Requests |->
                   IF at[r] = "evaluate" THEN current[r] \cup {active'} ELSE current[r]]
  /\ raced' = [r \in Requests |->
                 \/ raced[r]
                 \/ at[r] = "record" /\ AboutToRecordLoad
                 \/ at[r] = "reload" /\ active' # active]
  /\ UNCHANGED <<at, kind, counted, by, status, lost>>

\* Requests in flight go with the process.
Crash ==
  /\ Restart
  /\ at' = [r \in Requests |-> IF InFlight(r) THEN "gone" ELSE at[r]]
  /\ UNCHANGED <<kind, counted, by, log, status, current, raced, lost>>

PdpNext == Reload \/ Crash \/ \E r \in Requests : Handle(r)

PdpSpec == PdpInit /\ [][PdpNext]_pdpVars

-----------------------------------------------------------------------------
(* Properties *)

LinesOf(r) == {i \in 1..Len(log) : log[i].kind = "decision" /\ log[i].request = r}

IsLoadedLine(i) == log[i].kind = "policy-set" /\ log[i].line.outcome = "loaded"

\* Line i is the most recent loaded line before line j.
NamesSetAt(i, j) ==
  /\ i < j /\ IsLoadedLine(i)
  /\ \A k \in (i + 1)..(j - 1) : ~IsLoadedLine(k)

NamedRightly(j) ==
  \E i \in 1..Len(log) :
    /\ NamesSetAt(i, j)
    /\ log[i].line.gen = log[j].by.gen
    /\ log[i].line.hash = log[j].by.hash

\* Decision lines of which a policy set is the author.
Decisions == {j \in 1..Len(log) : log[j].kind = "decision" /\ log[j].by # Nothing}

(* "Every decision can be tied to the set that produced it"
   (decision-audit-log spec.md:165-168): the most recent loaded line before a decision
   line names the set that decided. *)
TrailNamesDecider == \A j \in Decisions : NamedRightly(j)

(* What the order evaluate-then-record and swap-then-record does give: the line is
   wrong only for a request whose evaluation fell between a swap and its line, or
   which was evaluated and not yet recorded when such a line was written.  No other
   interleaving, failed or refused reload, or restart, of the daemon misleads the auditor,
   unless the line of that set was itself swallowed.  This is about the daemon's own lines:
   a check --audit appends a decision by a set it loaded for itself and never puts on
   record (main.rs:249-252), and nothing in the log tells that line from the others. *)
MisattributionNeedsRace ==
  \A j \in Decisions : NamedRightly(j) \/ raced[log[j].request]

(* approve: a decision is made by a set that was in force after the body was read --
   never by one read before the await -- and before the decision was recorded. *)
DecidedBySetInForce ==
  \A r \in Requests :
    (at[r] \in {"record", "answer"} /\ kind[r] = "query") => by[r] \in current[r]

(* "Exactly one JSON object per line ... for every decision it returns"
   (decision-audit-log spec.md:11-13), and none for what is no decision: the line is out
   before the answer is, whatever becomes of the client or the process. *)
OneLinePerDecision ==
  \A r \in Requests :
    /\ status[r] = "200" /\ kind[r] # "health" /\ ~lost[r] =>
         \E i \in LinesOf(r) : LinesOf(r) = {i}
    /\ LinesOf(r) # {} => status[r] \in {"none", "200"} /\ kind[r] \notin {"foreign", "health"}
    /\ at[r] \in {"gate", "guard", "body", "evaluate"} => LinesOf(r) = {}

(* server.rs:216-218 calls the 503 of approve unreachable: no edit, however timed, makes
   a serving daemon hold a set without policies.  And so /healthz is never a 503. *)
NeverWithoutPolicies == \A r \in Requests : status[r] # "503"

(* What one answer of /healthz says of the deciding set and of the last reload is said of
   the same attempt, the last one on the trail: its generation, and its outcome, or
   nothing if the bootstrap was the last -- through failed and refused reloads and
   restarts.  Except for a poll that a swap has overtaken: one that read the snapshot
   before last_reload was stored for it, or the two on either side of a swap; and for the
   moment between a line and the store that follows it. *)
HealthTellsLastAttempt ==
  [][\A r \in Requests :
       ReadReload(r) /\ ~raced[r] /\ ~swallowed /\ pc # "health" =>
         LET line == trail[Len(trail)] IN
         /\ line.gen = counted[r].gen
         /\ lastReload = IF line.gen = 1 /\ line.outcome = "loaded" THEN "none" ELSE line.outcome
    ]_pdpVars
=============================================================================
