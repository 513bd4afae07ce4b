--------------------------- MODULE ApprovalProofs ---------------------------
(***************************************************************************)
(* What an answer of the approval endpoint is worth, for every map of      *)
(* backends to agents, every request and every set of policies of any      *)
(* size.                                                                   *)
(*                                                                         *)
(* The argument: a request is evaluated only behind the gate and as the    *)
(* query its body is parsed to; an allow is given only where no policy     *)
(* errs, and then resolving the errors changes nothing; and a policy that  *)
(* is credited names a principal of the query, of which the adapter leaves *)
(* exactly one of each kind.                                               *)
(***************************************************************************)
EXTENDS Approval, TLAPS

\* The header gate has let the request pass.
Admitted == headers.type = "json" /\ ~headers.origin

\* The query is what the body is parsed to.
Understood ==
  /\ body \in Bodies
  /\ body.shape \in {"command", "endpoint"}
  /\ query = QueryOf(body)

\* Nothing has been decided.
Undecided == policies = {} /\ matched = {} /\ answer = "none" /\ line = "none"

\* What an allow stands on.
AllowGrounded ==
  /\ Admitted /\ Understood
  /\ ~query.ambiguous
  /\ Errors(policies, query) = {}
  /\ CedarAllows(policies, query)

ApprovalInv ==
  /\ TypeOK
  /\ pc \in {"gate", "parse"} => Undecided /\ body = None
  /\ pc \in {"parse", "evaluate"} => Admitted
  /\ pc = "evaluate" => Undecided /\ Understood
  /\ answer = "allow" => AllowGrounded
  /\ matched # {} => Understood /\ \A p \in matched : Applies(p, query)
  /\ RejectedNamesSameAgent

-----------------------------------------------------------------------------
(* Types *)

(* Every backend has an agent, if only the unknown one, and an agent is a name. *)
LEMMA AgentForType ==
  ASSUME agents \in UNION {[B -> Agents] : B \in SUBSET Backends}, NEW b
  PROVE  AgentFor(b) \in AgentIds /\ AgentFor(b) # NoAgent
  BY ConstantsAssumption DEF AgentFor, AgentIds, Unknown, NoAgent

(* A body of either variant is parsed to a query, of which it is the author. *)
LEMMA QueryOfType ==
  ASSUME agents \in UNION {[B -> Agents] : B \in SUBSET Backends},
         NEW b \in Bodies, b.shape \in {"command", "endpoint"}
  PROVE  QueryOf(b) \in Query /\ QueryOf(b).agent = AgentFor(b.backend)
<1>1. AgentFor(b.backend) \in AgentIds
  BY AgentForType
<1>2. CASE b.shape = "command"
  <2>1. b.session \in Sessions /\ b.caller \in Labels
    BY <1>2 DEF Bodies
  <2> QED
    BY <1>1, <1>2, <2>1 DEF QueryOf, Query
<1>3. CASE b.shape = "endpoint"
  <2>1. b.ambiguous \in BOOLEAN
    BY <1>3 DEF Bodies
  <2> QED
    BY <1>1, <1>3, <2>1, ConstantsAssumption DEF QueryOf, Query
<1> QED
  BY <1>2, <1>3

(* The policies credited with a decision are among those that decided, and speak of the
   query. *)
LEMMA ReasonsApply ==
  ASSUME NEW ps, NEW q
  PROVE  Reasons(ps, q) \subseteq ps /\ \A p \in Reasons(ps, q) : Applies(p, q)
  BY DEF Reasons, Satisfied

(* A set of policies is a set of policies, whatever its size. *)
LEMMA AuthorizeTypes ==
  ASSUME Authorize
  PROVE  policies' \subseteq Policy /\ matched' \subseteq policies'
<1>1. PICK ps \in [1..MaxPolicies -> Policy] : policies' = {ps[i] : i \in 1..MaxPolicies}
  BY DEF Authorize
<1> QED
  BY <1>1, ReasonsApply DEF Authorize

(* Every step keeps the types. *)
LEMMA StepTypes ==
  ASSUME ApprovalInv, [Next]_vars
  PROVE  TypeOK'
<1> USE DEF TypeOK
<1>1. TypeOK
  BY DEF ApprovalInv
<1>2. CASE Gate
  BY <1>1, <1>2 DEF Gate
<1>3. CASE Parse
  <2>1. body' \in Bodies /\ query' \in Query
    BY <1>1, <1>3, QueryOfType DEF Parse
  <2> QED
    BY <1>1, <1>3, <2>1 DEF Parse
<1>4. CASE Reject
  <2>1. line' \in AgentIds \cup {NoAgent}
    BY <1>1, <1>4, AgentForType DEF Reject, ScrapedAgent
  <2> QED
    BY <1>1, <1>4, <2>1 DEF Reject
<1>5. CASE DenyUnasked \/ Authorize
  <2>1. query.agent \in AgentIds
    BY <1>1, <1>5, QueryOfType DEF ApprovalInv, Understood, DenyUnasked, Authorize, Query
  <2>2. policies' \subseteq Policy /\ matched' \subseteq policies'
    BY <1>1, <1>5, AuthorizeTypes DEF DenyUnasked
  <2>3. answer' \in {"none", "allow", "deny", "415", "403"}
    BY <1>5 DEF DenyUnasked, Authorize, FromResponse
  <2> QED
    BY <1>1, <1>5, <2>1, <2>2, <2>3 DEF DenyUnasked, Authorize, Finish
<1>6. CASE UNCHANGED vars
  BY <1>1, <1>6 DEF vars
<1> QED
  BY <1>2, <1>3, <1>4, <1>5, <1>6 DEF Next

-----------------------------------------------------------------------------
(* The invariant *)

(* It holds before anything is read. *)
LEMMA InitEstablishes ==
  ASSUME Init
  PROVE  ApprovalInv
<1>1. TypeOK
  BY DEF Init, TypeOK
<1>2. Undecided /\ body = None /\ pc = "gate"
  BY DEF Init, Undecided
<1>3. RejectedNamesSameAgent
  BY <1>2 DEF Undecided, RejectedNamesSameAgent, NoAgent
<1> QED
  BY <1>1, <1>2, <1>3 DEF ApprovalInv, Undecided

(* A body that is rejected names the agent a decided one would. *)
LEMMA RejectKeeps ==
  ASSUME ApprovalInv, Reject
  PROVE  ApprovalInv'
<1>1. TypeOK' /\ TypeOK
  BY StepTypes DEF Next, ApprovalInv
<1>2. /\ body' \in Bodies /\ body'.shape \notin {"command", "endpoint"}
      /\ UNCHANGED <<agents, matched>> /\ pc' = "done" /\ answer' = "deny"
      /\ line' = ScrapedAgent(body') /\ pc = "parse"
  BY DEF Reject
<1>3. \A b : AgentFor(b)' = AgentFor(b) /\ AgentFor(b) # NoAgent
  BY <1>1, <1>2, AgentForType DEF TypeOK, AgentFor
<1>4. RejectedNamesSameAgent'
  <2>1. ScrapedAgent(body') = NoAgent => body'.shape = "anonymous"
    BY <1>3 DEF ScrapedAgent
  <2>2. body'.shape \in {"unsupported", "malformed"} =>
          body'.backend \in Backends /\ ScrapedAgent(body') = AgentFor(Escaped[body'.backend])
    BY <1>2 DEF Bodies, ScrapedAgent
  <2> QED
    BY <1>2, <1>3, <2>1, <2>2 DEF RejectedNamesSameAgent
<1>5. matched' = {}
  BY <1>2 DEF ApprovalInv, Undecided
<1> QED
  BY <1>1, <1>2, <1>4, <1>5 DEF ApprovalInv

(* An evaluated query is answered on what its policies say, and recorded under its
   agent. *)
LEMMA EvaluateKeeps ==
  ASSUME ApprovalInv, DenyUnasked \/ Authorize
  PROVE  ApprovalInv'
<1>1. TypeOK' /\ TypeOK
  BY StepTypes DEF Next, ApprovalInv
<1>2. /\ pc = "evaluate" /\ pc' = "done"
      /\ UNCHANGED <<agents, headers, body, query>> /\ line' = query.agent
  BY DEF DenyUnasked, Authorize, Finish
<1>3. Undecided /\ Understood /\ Admitted
  BY <1>2 DEF ApprovalInv
<1>4. Understood' /\ Admitted'
  BY <1>2, <1>3 DEF Understood, Admitted, QueryOf, AgentFor
<1>5. answer' = "allow" => AllowGrounded'
  BY <1>2, <1>4 DEF DenyUnasked, Authorize, FromResponse, AllowGrounded, Errors, CedarAllows,
     Satisfied, Applies, Principals
<1>6. \A p \in matched' : Applies(p, query')
  BY <1>2, <1>3, ReasonsApply DEF DenyUnasked, Authorize, Undecided
<1>7. RejectedNamesSameAgent'
  <2>1. line' # NoAgent
    BY <1>1, <1>2, <1>3, QueryOfType, AgentForType DEF TypeOK, Understood
  <2> QED
    BY <1>2, <1>3, <2>1 DEF Understood, RejectedNamesSameAgent
<1> QED
  BY <1>1, <1>2, <1>4, <1>5, <1>6, <1>7 DEF ApprovalInv, Applies, Principals

(* No step disturbs it. *)
LEMMA StepPreserves ==
  ASSUME ApprovalInv, [Next]_vars
  PROVE  ApprovalInv'
<1>1. TypeOK'
  BY StepTypes
<1>2. CASE Gate
  <2>1. /\ UNCHANGED <<agents, headers, body, query, policies, matched, line>>
        /\ pc = "gate" /\ pc' \in {"parse", "done"} /\ answer' # "allow"
        /\ pc' = "parse" => Admitted /\ answer' = answer
    BY <1>2 DEF Gate, Admitted, ApprovalInv, Undecided
  <2>2. Undecided /\ body = None
    BY <2>1 DEF ApprovalInv
  <2>3. RejectedNamesSameAgent'
    BY <2>1, <2>2 DEF RejectedNamesSameAgent, Undecided, NoAgent
  <2> QED
    BY <1>1, <2>1, <2>2, <2>3 DEF ApprovalInv, Undecided, Admitted
<1>3. CASE Parse
  <2>1. /\ body' \in Bodies /\ body'.shape \in {"command", "endpoint"}
        /\ query' = QueryOf(body') /\ pc = "parse" /\ pc' = "evaluate"
        /\ UNCHANGED <<agents, headers, policies, matched, answer, line>>
    BY <1>3 DEF Parse
  <2>2. Undecided /\ Admitted
    BY <2>1 DEF ApprovalInv
  <2>3. Undecided' /\ Admitted' /\ Understood'
    BY <2>1, <2>2 DEF Undecided, Admitted, Understood, QueryOf, AgentFor
  <2>4. RejectedNamesSameAgent'
    BY <2>1, <2>3 DEF RejectedNamesSameAgent, Undecided, NoAgent
  <2> QED
    BY <1>1, <2>1, <2>3, <2>4 DEF ApprovalInv, Undecided
<1>4. CASE UNCHANGED vars
  BY <1>1, <1>4 DEF vars, ApprovalInv, Undecided, Admitted, Understood, AllowGrounded,
     QueryOf, AgentFor, Errors, CedarAllows, Satisfied, Applies, Principals,
     RejectedNamesSameAgent
<1> QED
  BY <1>2, <1>3, <1>4, RejectKeeps, EvaluateKeeps DEF Next

(* The inductive invariant of a request. *)
THEOREM ApprovalInductive == Spec => []ApprovalInv
<1>1. Init => ApprovalInv
  BY InitEstablishes
<1>2. ApprovalInv /\ [Next]_vars => ApprovalInv'
  BY StepPreserves
<1> QED
  BY <1>1, <1>2, PTL DEF Spec

-----------------------------------------------------------------------------
(* The theorems *)

(* The variables keep their types: in particular what is credited with a decision is
   among the policies that decided. *)
THEOREM Typing == Spec => []TypeOK
<1>1. ApprovalInv => TypeOK
  BY DEF ApprovalInv
<1> QED
  BY <1>1, ApprovalInductive, PTL

(* Where no policy errs, no resolution of errors changes what Cedar says. *)
LEMMA NothingToResolve ==
  ASSUME NEW ps \in SUBSET Policy, NEW q, Errors(ps, q) = {}, CedarAllows(ps, q),
         NEW rs \in Resolutions(ps)
  PROVE  CedarAllows(rs, q)
<1> DEFINE Resolved(p, hold) ==
             IF p.condition = "errs"
             THEN [p EXCEPT !.condition = IF p \in hold THEN "holds" ELSE "fails"] ELSE p
<1>1. PICK hold \in SUBSET ps : rs = {Resolved(p, hold) : p \in ps}
  BY DEF Resolutions
<1>2. ASSUME NEW p \in ps, Applies(Resolved(p, hold), q)
      PROVE  Resolved(p, hold) = p
  <2>1. CASE p.condition = "errs"
    <3>1. Resolved(p, hold).scope = p.scope
      BY <2>1 DEF Policy
    <3>2. p \in Errors(ps, q)
      BY <1>2, <2>1, <3>1 DEF Errors, Applies
    <3> QED
      BY <3>2
  <2>2. CASE p.condition # "errs"
    BY <2>2
  <2> QED
    BY <2>1, <2>2
<1>3. ASSUME NEW p \in ps, Applies(p, q) PROVE p \in rs
  <2>1. p.condition # "errs"
    BY <1>3 DEF Errors
  <2> QED
    BY <1>1, <2>1
<1> HIDE DEF Resolved
<1>4. Satisfied(rs, q, "forbid") = {}
  BY <1>1, <1>2 DEF Satisfied, CedarAllows
<1>5. Satisfied(rs, q, "permit") # {}
  BY <1>3 DEF Satisfied, CedarAllows
<1> QED
  BY <1>4, <1>5 DEF CedarAllows

(* Nobody is allowed on the strength of a policy that was skipped, of a path that means
   something else, or past the header gate. *)
THEOREM AllowsBeyondDoubt == Spec => []AllowIsBeyondDoubt
<1>1. ApprovalInv => AllowIsBeyondDoubt
  <2> SUFFICES ASSUME ApprovalInv, answer = "allow"
               PROVE  /\ headers.type = "json" /\ ~headers.origin
                      /\ body.shape = "endpoint" => ~body.ambiguous
                      /\ \A ps \in Resolutions(policies) : CedarAllows(ps, query)
    BY DEF AllowIsBeyondDoubt
  <2>1. AllowGrounded
    BY DEF ApprovalInv
  <2>2. body.shape = "endpoint" => query.ambiguous = body.ambiguous
    BY <2>1 DEF AllowGrounded, Understood, QueryOf
  <2>3. policies \in SUBSET Policy
    BY DEF ApprovalInv, TypeOK
  <2> QED
    BY <2>1, <2>2, <2>3, NothingToResolve DEF AllowGrounded, Admitted
<1> QED
  BY <1>1, ApprovalInductive, PTL

(* A policy is credited for a session, a caller or an agent only with what is of that
   session, caller or agent. *)
THEOREM CreditsItsOwn == Spec => []CreditedToItsOwn
<1>1. ApprovalInv => CreditedToItsOwn
  <2> SUFFICES ASSUME ApprovalInv, NEW p \in matched
               PROVE  /\ p.scope[1] = "Session" =>
                           IF body.shape = "command" THEN p.scope[2] = body.session
                                                     ELSE p.scope[2] = "proxy"
                      /\ p.scope[1] = "Caller" =>
                           IF body.shape = "command" THEN p.scope[2] = body.caller
                                                     ELSE p.scope[2] = "proxy"
                      /\ p.scope[1] = "Agent" /\ body.backend \notin DOMAIN agents =>
                           p.scope[2] = Unknown
    BY DEF CreditedToItsOwn
  <2>1. Understood /\ p.scope \in Principals(query)
    BY DEF ApprovalInv, Applies
  <2>2. /\ p.scope[1] = "Session" => p.scope[2] = query.session
        /\ p.scope[1] = "Caller" => p.scope[2] = query.caller
        /\ p.scope[1] = "Agent" => p.scope[2] = query.agent
    BY <2>1 DEF Principals
  <2>3. query.agent = AgentFor(body.backend)
    BY <2>1 DEF Understood, QueryOf
  <2> QED
    BY <2>1, <2>2, <2>3 DEF Understood, QueryOf, AgentFor
<1> QED
  BY <1>1, ApprovalInductive, PTL

(* The line of a rejected request names the agent of its backend, unless escaping makes
   another name of the backend. *)
THEOREM RejectedLineNamesAgent == Spec => []RejectedNamesSameAgent
<1>1. ApprovalInv => RejectedNamesSameAgent
  BY DEF ApprovalInv
<1> QED
  BY <1>1, ApprovalInductive, PTL
=============================================================================
