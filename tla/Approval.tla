------------------------------ MODULE Approval ------------------------------
(***************************************************************************)
(* What one approval request goes through, as data: the header gate        *)
(* (server.rs), the reading of the body (adapter/nono_webhook.rs), the     *)
(* entities built for Cedar (cedar/entities.rs), the authorization, and    *)
(* what is made of its response (decision.rs).  Pdp has the same path with *)
(* its interleavings and without its data.                                 *)
(*                                                                         *)
(*     gate -> parse -> evaluate -> done                                   *)
(*                                                                         *)
(* The request, the configuration and the policies are chosen when they    *)
(* are looked at.  A policy has an effect, a scope and a condition: the    *)
(* condition may hold, not hold, or be an error to evaluate.               *)
(***************************************************************************)
EXTENDS Naturals

CONSTANTS
  Backends,      \* names a request may give its approval backend
  Escaped,       \* what control_escape makes of each, a function on Backends
  Sessions,      \* session ids, "proxy" among them
  Labels,        \* caller labels, "session" among them
  Agents,        \* agents the configuration can map a backend to
  MaxPolicies    \* bound on the size of a policy set

Unknown == "unknown"

\* The agent of a line that has none.
NoAgent == "no-agent"

ASSUME ConstantsAssumption ==
  /\ Escaped \in [Backends -> Backends]
  /\ "proxy" \in Sessions
  /\ {"session", "proxy"} \subseteq Labels
  /\ NoAgent \notin Agents
  /\ MaxPolicies \in Nat \ {0}

AgentIds == Agents \cup {Unknown}

\* Principals a policy can name; "any" is a scope that names none.
Scopes == {<<"any">>} \cup ({"Agent"} \X AgentIds) \cup ({"Session"} \X Sessions)
                     \cup ({"Caller"} \X Labels)

Policy == [effect : {"permit", "forbid"}, scope : Scopes, condition : {"holds", "fails", "errs"}]

\* Bodies: not JSON at all, or JSON that names no backend; JSON with a backend whose
\* request is no variant we know, or lacks what the variant needs; and the two variants.
Bodies == [shape : {"anonymous"}]
   \cup [shape : {"unsupported", "malformed"}, backend : Backends]
   \cup [shape : {"command"}, backend : Backends, session : Sessions, caller : Labels]
   \cup [shape : {"endpoint"}, backend : Backends, session : Sessions, ambiguous : BOOLEAN]

Headers == [type : {"none", "json", "other"}, origin : BOOLEAN]

None == [shape |-> "none"]

Query == [agent : AgentIds, session : Sessions, caller : Labels,
          kind : {"session", "command"}, ambiguous : BOOLEAN]

VARIABLES
  agents,     \* the configuration's map from backends to agents
  headers,
  body,
  pc,
  query,      \* the adapter's PolicyQuery
  policies,   \* the policies that decided
  matched,    \* those credited with the decision
  answer,     \* allow, deny, or a refusal of the header gate
  line        \* the agent the audit line names

vars == <<agents, headers, body, pc, query, policies, matched, answer, line>>

\* The types of the variables.
TypeOK ==
  /\ agents \in UNION {[B -> Agents] : B \in SUBSET Backends}
  /\ headers \in Headers
  /\ body \in Bodies \cup {None}
  /\ pc \in {"gate", "parse", "evaluate", "done"}
  /\ query \in Query \cup {None}
  /\ policies \subseteq Policy
  /\ matched \subseteq policies
  /\ answer \in {"none", "allow", "deny", "415", "403"}
  /\ line \in AgentIds \cup {"none", NoAgent}

Init ==
  /\ agents \in UNION {[B -> Agents] : B \in SUBSET Backends}
  /\ headers \in Headers
  /\ body = None
  /\ pc = "gate"
  /\ query = None
  /\ policies = {}
  /\ matched = {}
  /\ answer = "none"
  /\ line = "none"

-----------------------------------------------------------------------------
(* The gate and the adapter *)

\* header_gate: nothing is read, and nothing recorded, before this.
Gate ==
  /\ pc = "gate"
  /\ \/ /\ headers.type # "json"
        /\ answer' = "415" /\ pc' = "done"
     \/ /\ headers.type = "json" /\ headers.origin
        /\ answer' = "403" /\ pc' = "done"
     \/ /\ headers.type = "json" /\ ~headers.origin
        /\ pc' = "parse" /\ UNCHANGED answer
  /\ UNCHANGED <<agents, headers, body, query, policies, matched, line>>

\* Config::agent_for
AgentFor(backend) == IF backend \in DOMAIN agents THEN agents[backend] ELSE Unknown

\* Mutant: the session on the wire is believed.
QueryAsSent(b) ==
  [agent |-> AgentFor(b.backend), session |-> b.session,
   caller |-> IF b.shape = "command" THEN b.caller ELSE "proxy",
   kind |-> IF b.shape = "command" /\ b.caller # "session" THEN "command" ELSE "session",
   ambiguous |-> b.shape = "endpoint" /\ b.ambiguous]

\* parse: both halves of an endpoint's identity are pinned, whatever it claims.
QueryOf(b) ==
  IF b.shape = "command"
  THEN [agent |-> AgentFor(b.backend), session |-> b.session, caller |-> b.caller,
        kind |-> IF b.caller = "session" THEN "session" ELSE "command", ambiguous |-> FALSE]
  ELSE [agent |-> AgentFor(b.backend), session |-> "proxy", caller |-> "proxy",
        kind |-> "session", ambiguous |-> b.ambiguous]

Parse ==
  /\ pc = "parse"
  /\ body' \in Bodies
  /\ body'.shape \in {"command", "endpoint"}
  /\ query' = QueryOf(body')
  /\ pc' = "evaluate"
  /\ UNCHANGED <<agents, headers, policies, matched, answer, line>>

\* Mutant: a backend that is not mapped has no agent.
ScrapedAgentIfMapped(b) ==
  IF b.shape # "anonymous" /\ Escaped[b.backend] \in DOMAIN agents
  THEN agents[Escaped[b.backend]] ELSE NoAgent

\* scrape_context: no agent where no backend is to be had.
ScrapedAgent(b) == IF b.shape = "anonymous" THEN NoAgent ELSE AgentFor(Escaped[b.backend])

\* A body that does not parse is denied with what can be scraped from it.
Reject ==
  /\ pc = "parse"
  /\ body' \in Bodies
  /\ body'.shape \notin {"command", "endpoint"}
  /\ line' = ScrapedAgent(body')
  /\ answer' = "deny"
  /\ pc' = "done"
  /\ UNCHANGED <<agents, headers, query, policies, matched>>

-----------------------------------------------------------------------------
(* Cedar's authorizer, on the entities of entities::build: the caller is in its session
   and the session in its agent.  A policy that errs is as if it were not there. *)

Principals(q) == {<<"any">>, <<"Agent", q.agent>>, <<"Session", q.session>>, <<"Caller", q.caller>>}

Applies(p, q) == p.scope \in Principals(q)

Satisfied(ps, q, effect) ==
  {p \in ps : Applies(p, q) /\ p.effect = effect /\ p.condition = "holds"}

Errors(ps, q) == {p \in ps : Applies(p, q) /\ p.condition = "errs"}

CedarAllows(ps, q) ==
  Satisfied(ps, q, "forbid") = {} /\ Satisfied(ps, q, "permit") # {}

Reasons(ps, q) ==
  IF CedarAllows(ps, q) THEN Satisfied(ps, q, "permit") ELSE Satisfied(ps, q, "forbid")

-----------------------------------------------------------------------------
(* Engine::evaluate and the answer *)

\* Mutant: Cedar's decision is taken as it is.
FromResponseTrusting(ps, q) == IF CedarAllows(ps, q) THEN "allow" ELSE "deny"

\* Decision::from_response: with an error, a forbid may have been skipped.
FromResponse(ps, q) ==
  IF Errors(ps, q) = {} /\ CedarAllows(ps, q) THEN "allow" ELSE "deny"

Finish(agent) == line' = agent /\ pc' = "done" /\ UNCHANGED <<agents, headers, body, query>>

\* An ambiguous path is denied before any policy is consulted, and so is a query of
\* which no Cedar request can be built.
DenyUnasked ==
  /\ pc = "evaluate"
  /\ answer' = "deny"
  /\ Finish(query.agent)
  /\ UNCHANGED <<policies, matched>>

Authorize ==
  /\ pc = "evaluate"
  /\ ~query.ambiguous
  /\ \E ps \in [1..MaxPolicies -> Policy] : policies' = {ps[i] : i \in 1..MaxPolicies}
  /\ matched' = Reasons(policies', query)
  /\ answer' = FromResponse(policies', query)
  /\ Finish(query.agent)

Next == Gate \/ Parse \/ Reject \/ DenyUnasked \/ Authorize

Spec == Init /\ [][Next]_vars

-----------------------------------------------------------------------------
(* Properties *)

\* What the policies might have said, had the erring ones not erred.
Resolutions(ps) ==
  {{IF p.condition = "errs" THEN [p EXCEPT !.condition = IF p \in hold THEN "holds" ELSE "fails"]
    ELSE p : p \in ps} : hold \in SUBSET ps}

(* An allow is beyond doubt: the request was JSON without an Origin, its path means
   what it says, and Cedar would allow it whatever each policy that cannot be evaluated
   would have come to. *)
AllowIsBeyondDoubt ==
  answer = "allow" =>
    /\ headers.type = "json" /\ ~headers.origin
    /\ body.shape = "endpoint" => ~body.ambiguous
    /\ \A ps \in Resolutions(policies) : CedarAllows(ps, query)

(* A policy about a session, or about a caller in one, is credited with a decision only
   for a command of that session: no endpoint request gets into a session by claiming
   its id.  And no policy about a mapped agent is, for a backend that is not mapped. *)
CreditedToItsOwn ==
  \A p \in matched :
    /\ p.scope[1] = "Session" =>
         IF body.shape = "command" THEN p.scope[2] = body.session ELSE p.scope[2] = "proxy"
    /\ p.scope[1] = "Caller" =>
         IF body.shape = "command" THEN p.scope[2] = body.caller ELSE p.scope[2] = "proxy"
    /\ p.scope[1] = "Agent" /\ body.backend \notin DOMAIN agents => p.scope[2] = Unknown

(* The line of a rejected request names the agent that the line of a decided one with the
   same backend would ("a rejected line names the same agent a decided line would",
   nono_webhook.rs:45-46) -- unless control_escape changes the backend: scrape_context
   looks the escaped name up, and parse the name as sent. *)
RejectedNamesSameAgent ==
  /\ line = NoAgent => body.shape = "anonymous"
  /\ (body # None /\ body.shape \in {"unsupported", "malformed"}) =>
       line = AgentFor(body.backend) \/ Escaped[body.backend] # body.backend
=============================================================================
