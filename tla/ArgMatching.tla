----------------------------- MODULE ArgMatching -----------------------------
(***************************************************************************)
(* What a policy can say about the arguments of a command, and what the    *)
(* loader warns about: lint_arg_matching (src/src/cedar/engine.rs), on the *)
(* syntax tree of a policy, beside what the same tree makes of the command *)
(* that build (src/src/cedar/entities.rs) puts before it.                  *)
(*                                                                         *)
(*   Load: the lints of the policy are logged; it decides all the same.    *)
(*   Ask:  a request becomes entities, the policy is satisfied or not.     *)
(*                                                                         *)
(* Texts are sequences of characters, and a pattern is a text with         *)
(* wildcards in it.                                                        *)
(***************************************************************************)
EXTENDS Naturals, SequencesExt

CONSTANTS
  Characters,  \* what texts are made of
  Nodes,       \* the nodes of the conditions of the policies
  Height,      \* and how high each one stands over its leaves
  Policies,    \* the policies that may be loaded
  Queries,     \* the requests that may come: the caller's name and args
  Tails        \* texts to compare a test of argv_tail with, in the properties

Wildcard == "*"
Backslash == "\\"
Quote == "\""

Texts == Seq(Characters)
Patterns == Seq(Characters \cup {Wildcard})

\* Nodes of the tree.  A read of an attribute, a literal, a set of them; then the tests.
TailRead == [op |-> "attr", attr |-> "argv_tail"]
ArgsRead == [op |-> "attr", attr |-> "args"]
Literal(text) == [op |-> "value", text |-> text]
SetOf(texts) == [op |-> "set", items |-> {Literal(t) : t \in texts}]
Like(left, pattern) == [op |-> "like", left |-> left, pattern |-> pattern]
Binary(op, left, right) == [op |-> op, left |-> left, right |-> right]
Not(arg) == [op |-> "!", arg |-> arg]

Memberships == {"contains", "containsAny", "containsAll"}

Children(node) ==
  CASE node.op \in {"attr", "value"} -> {}
    [] node.op = "set"  -> node.items
    [] node.op = "like" -> {node.left}
    [] node.op = "!"    -> {node.arg}
    [] OTHER            -> {node.left, node.right}

\* Conditions are trees of nodes; what a node looks for, and where, has the type that the
\* schema asks for.  In args[0] stands the path of a shim (entities.rs:52-54), and a path has
\* a slash in it: a payload that names the program alone is none of the queries.
ConstantsAssumption ==
  /\ Height \in [Nodes -> Nat]
  /\ \A node \in Nodes : \A child \in Children(node) : child \in Nodes /\ Height[child] < Height[node]
  /\ \A node \in Nodes :
       /\ node.op = "value" => node.text \in Texts
       /\ node.op = "set" => \A item \in node.items : item.op = "value"
       /\ node.op = "like" => node.pattern \in Patterns
       /\ node.op = "contains" => node.right = TailRead \/ node.right.op = "value"
       /\ TailRead \in Children(node) => node.op \in {"like", "==", "!="} \cup Memberships
  /\ \A p \in Policies : p.effect \in {"permit", "forbid"} /\ p.kind \in {"when", "unless"} /\ p.condition \in Nodes
  /\ \A q \in Queries : q.caller \in Texts /\ q.args \in Seq(Texts)
  /\ \A q \in Queries : q.args # <<>> => Contains(q.args[1], "/")

ASSUME Constants == ConstantsAssumption

VARIABLES
  stage,      \* "written", "loaded" or "asked"
  policy,     \* effect, when or unless, and the condition
  lints,      \* what was logged when it was loaded
  query,      \* the request as sent
  caller,     \* the id of the principal, as Cedar reads it
  resource,   \* the attributes of the command
  satisfied   \* the policy is satisfied by the request

entities == <<query, caller, resource, satisfied>>
vars == <<stage, policy, lints, entities>>

-----------------------------------------------------------------------------
(* The lints *)

\* What a walk of a condition comes to: the node and all below it.
Subtree[node \in Nodes] == {node} \cup UNION {Subtree[child] : child \in Children(node)}

\* Where the first wildcard is, or the end.
FirstWildcard(pattern) ==
  CHOOSE n \in 1..(Len(pattern) + 1) :
    /\ n = Len(pattern) + 1 \/ pattern[n] = Wildcard
    /\ \A i \in 1..(n - 1) : pattern[i] # Wildcard

\* Mutant: an anchored pattern is a pin.
PinsAnchored(pattern) == FirstWildcard(pattern) = 1 => pattern = <<>>

\* pins_a_token: no wildcard, or a first one that follows the separating space.
PinsAToken(pattern) ==
  LET first == FirstWildcard(pattern)
  IN first <= Len(pattern) => first > 1 /\ pattern[first - 1] = " "

\* Mutant: an equality is a read like any other.
UnpinnedEvenEqual(condition) ==
  \E node \in Subtree[condition] :
    \/ node.op = "like" /\ node.left = TailRead /\ ~PinsAToken(node.pattern)
    \/ node.op # "like" /\ TailRead \in Children(node)

\* unpinned_argv_tail_reads finds one: a read that is neither the left side of such a
\* pattern nor a side of an equality.
UnpinnedRead(condition) ==
  \E node \in Subtree[condition] :
    \/ node.op = "like" /\ node.left = TailRead /\ ~PinsAToken(node.pattern)
    \/ node.op \notin {"like", "=="} /\ TailRead \in Children(node)

\* string_literals
Literals(node) ==
  CASE node.op = "value" -> {node.text}
    [] node.op = "set"   -> {item.text : item \in node.items}
    [] OTHER             -> {}

\* Mutant: only contains is a membership test.
PathLiteralsOfContains(condition) ==
  UNION {{text \in Literals(node.right) : Contains(text, "/")} :
           node \in {n \in Subtree[condition] : n.op = "contains" /\ n.left = ArgsRead}}

\* args_membership_path_literals
PathLiterals(condition) ==
  UNION {{text \in Literals(node.right) : Contains(text, "/")} :
           node \in {n \in Subtree[condition] : n.op \in Memberships /\ n.left = ArgsRead}}

\* lint_arg_matching: over-matching is fail-safe in a forbid, a path literal in neither.
LintArgMatching(p) ==
  [tail |-> p.effect = "permit" /\ UnpinnedRead(p.condition),
   paths |-> PathLiterals(p.condition)]

\* checked: the lints are advice, the policy is loaded.
Load ==
  /\ stage = "written"
  /\ stage' = "loaded"
  /\ lints' = LintArgMatching(policy)
  /\ UNCHANGED <<policy, entities>>

-----------------------------------------------------------------------------
(* The entities *)

\* Texts one behind the other, after each of them.
Pieces(texts) ==
  LET upto[n \in 0..Len(texts)] == IF n = 0 THEN <<>> ELSE upto[n - 1] \o texts[n]
  IN upto

Together(texts) == Pieces(texts)[Len(texts)]

\* str::replace of one character
Replace(text, char, by) ==
  Together([i \in 1..Len(text) |-> IF text[i] = char THEN by ELSE <<text[i]>>])

\* Mutant: the other way round.
EscapeQuotesFirst(raw) == Replace(Replace(raw, Quote, <<Backslash, Quote>>), Backslash, <<Backslash, Backslash>>)

\* escape
Escape(raw) == Replace(Replace(raw, Backslash, <<Backslash, Backslash>>), Quote, <<Backslash, Quote>>)

\* What Cedar reads where a quoted id is: up to the closing quote, and nothing after it.
\* Here n is the one letter that means another character after a backslash.
ReadOn(so, c) ==
  CASE so.at = "escaped" -> [at |-> "inside", id |-> Append(so.id, IF c = "n" THEN "newline" ELSE c)]
    [] so.at = "inside" /\ c = Backslash -> [so EXCEPT !.at = "escaped"]
    [] so.at = "inside" /\ c = Quote -> [so EXCEPT !.at = "closed"]
    [] so.at = "inside" /\ c \notin {Backslash, Quote} -> [so EXCEPT !.id = Append(@, c)]
    [] OTHER -> [so EXCEPT !.at = "trailing"]

Read(quoted) ==
  LET read[n \in 0..Len(quoted)] ==
        IF n = 0 THEN [at |-> "inside", id |-> <<>>] ELSE ReadOn(read[n - 1], quoted[n])
  IN read

CedarId(quoted) ==
  LET end == Read(quoted)[Len(quoted)]
  IN IF end.at = "closed" THEN end.id ELSE <<end.at>>

\* uid
Uid(name) == CedarId(Append(Escape(name), Quote))

\* argv_tail: args[1..], joined by a single space.
ArgvTail(as) ==
  LET rest == [i \in 1..(Len(as) - 1) |-> IF i = 1 THEN as[2] ELSE <<" ">> \o as[i + 1]]
  IN IF Len(as) < 2 THEN <<>> ELSE Together(rest)

\* build, as far as a command's arguments go.
Command(as) == [args |-> Range(as), argv_tail |-> ArgvTail(as)]

-----------------------------------------------------------------------------
(* Cedar's evaluation of the tests *)

\* How much of a text is matched with one more element of a pattern.
Reach(before, element, text) ==
  {i \in 0..Len(text) :
     IF element = Wildcard THEN \E k \in before : k <= i
     ELSE i > 0 /\ i - 1 \in before /\ text[i] = element}

Reached(text, pattern) ==
  LET reached[n \in 0..Len(pattern)] ==
        IF n = 0 THEN {0} ELSE Reach(reached[n - 1], pattern[n], text)
  IN reached

Matches(text, pattern) == Len(text) \in Reached(text, pattern)[Len(pattern)]

ValueOf(node, cmd) == IF node = TailRead THEN cmd.argv_tail ELSE node.text

Elements(node, cmd) == IF node = ArgsRead THEN cmd.args ELSE Literals(node)

\* A node holds, when it is known which ones below it do.
HoldsOver(node, cmd, below) ==
  \/ node.op = "like" /\ Matches(ValueOf(node.left, cmd), node.pattern)
  \/ node.op = "==" /\ ValueOf(node.left, cmd) = ValueOf(node.right, cmd)
  \/ node.op = "!=" /\ ValueOf(node.left, cmd) # ValueOf(node.right, cmd)
  \/ node.op = "contains" /\ ValueOf(node.right, cmd) \in Elements(node.left, cmd)
  \/ node.op = "containsAny" /\ Elements(node.left, cmd) \cap Elements(node.right, cmd) # {}
  \/ node.op = "containsAll" /\ Elements(node.right, cmd) \subseteq Elements(node.left, cmd)
  \/ node.op = "&&" /\ below[node.left] /\ below[node.right]
  \/ node.op = "||" /\ (below[node.left] \/ below[node.right])
  \/ node.op = "!" /\ ~below[node.arg]

Holding(cmd) ==
  LET holds[node \in Nodes] == HoldsOver(node, cmd, holds)
  IN holds

Holds(node, cmd) == Holding(cmd)[node]

Satisfied(p, cmd) == Holds(p.condition, cmd) = (p.kind = "when")

-----------------------------------------------------------------------------
Init ==
  /\ stage = "written"
  /\ policy \in Policies
  /\ lints = [tail |-> FALSE, paths |-> {}]
  /\ query = [caller |-> <<>>, args |-> <<>>]
  /\ caller = <<>>
  /\ resource = Command(<<>>)
  /\ satisfied = FALSE

\* One request: there is no state that another one would find.
Ask ==
  /\ stage = "loaded"
  /\ stage' = "asked"
  /\ query' \in Queries
  /\ caller' = Uid(query'.caller)
  /\ resource' = Command(query'.args)
  /\ satisfied' = Satisfied(policy, resource')
  /\ UNCHANGED <<policy, lints>>

Next == Load \/ Ask

Spec == Init /\ [][Next]_vars

-----------------------------------------------------------------------------
(* What an author means by a test of argv_tail *)

\* str::split on the space
Cut(tokens, c) ==
  IF c = " " THEN Append(tokens, <<>>) ELSE [tokens EXCEPT ![Len(tokens)] = Append(@, c)]

Cuts(text) ==
  LET cut[n \in 0..Len(text)] == IF n = 0 THEN <<<<>>>> ELSE Cut(cut[n - 1], text[n])
  IN cut

Tokens(text) == Cuts(text)[Len(text)]

\* The tokens a pattern spells out before its first wildcard.
Spelled(pattern) ==
  LET first == FirstWildcard(pattern)
      ends == IF first \in 2..Len(pattern) /\ pattern[first - 1] = " " THEN first - 2 ELSE first - 1
  IN Tokens(SubSeq(pattern, 1, ends))

\* The tests of argv_tail in a condition, and those under a negation.
TailTests(condition) ==
  {node \in Subtree[condition] : node.op \in {"like", "==", "!="} /\ TailRead \in Children(node)}

Negated(condition) == UNION {TailTests(node.arg) : node \in {n \in Subtree[condition] : n.op = "!"}}

\* What a test spells out.
Named(test) ==
  CASE test.op = "like" -> {Spelled(test.pattern)}
    [] test.op = "=="   -> {Tokens(side.text) : side \in Children(test) \ {TailRead}}
    [] test.op = "!="   -> {}

Begins(test, tokens) == \E named \in Named(test) : IsPrefix(named, tokens)

\* The tokens of the arguments after the program, argument by argument.
Spoken(as) ==
  IF Len(as) < 2 THEN <<<<>>>> ELSE Together([i \in 1..(Len(as) - 1) |-> Tokens(as[i + 1])])

\* The arguments after the program, each one a word however many tokens are in it.
Words(as) == IF Len(as) < 2 THEN <<<<>>>> ELSE [i \in 1..(Len(as) - 1) |-> as[i + 1]]

\* None of them holds a space.
Unbroken(as) == \A i \in 2..Len(as) : ~Contains(as[i], " ")

\* Args looked for in a set, or argv_tail in args, instead of literals in args.
Within(condition) ==
  \E node \in Subtree[condition] :
    node.op \in Memberships /\ (node.right = ArgsRead \/ Children(node) = {ArgsRead, TailRead})

\* Argv_tail looked for in a set.
Sought(condition) ==
  \E node \in Subtree[condition] : node.op \in Memberships /\ TailRead \in Children(node)

-----------------------------------------------------------------------------
(* Properties *)

\* An unflagged permit approves a command, and the words of that do not begin with whole
\* tokens that one of its tests spells out, though argv_tail is what it decides by.
QuietOverMatch(words) ==
  /\ stage = "asked" /\ policy.effect = "permit" /\ ~lints.tail
  /\ satisfied
  /\ \A test \in TailTests(policy.condition) : ~Begins(test, words)
  /\ \E tail \in Tails : ~Satisfied(policy, [resource EXCEPT !.argv_tail = tail])

\* None of the tests stands under a negation or in an unless, where the walk does not look.
Plain == policy.kind = "when" /\ Negated(policy.condition) = {}

(* A permit that is not linted approves by argv_tail only what its author named.  The
   arguments after the program begin, word by word, with what one of its tests spells
   out -- never the middle of an argument, a longer word, or the program.  Two exceptions.
   Where an argument holds a space, this is true of the tokens only, and the argument counts
   for as many as it has: `like "push *"` approves the one argument "push --force", although
   "A test that pins a whole token is not affected" by the flattening
   (cedar-policy-evaluation/spec.md:99-107).  And where a test stands under a negation or in
   an unless the walk does not look, although "every other read -- ... a negation, ..." counts
   (engine.rs:194-197). *)
QuietPermitNamesItsCommand ==
  Plain =>
    /\ ~QuietOverMatch(Spoken(query.args))
    /\ Unbroken(query.args) => ~QuietOverMatch(Words(query.args))

(* And no permit is linted over a pin: one of its tests is satisfied by a tail that does
   not begin with whole tokens it spells out.  Except where a membership looks for argv_tail
   in a set, which the walk takes for an unnamed text even when the set names it. *)
LintedForAReason ==
  lints.tail /\ ~Sought(policy.condition) =>
    \E test \in TailTests(policy.condition), tail \in Tails :
      /\ Holds(test, [args |-> {}, argv_tail |-> tail])
      /\ ~Begins(test, Tokens(tail))

(* "No literal can match a value that changes every run" (entities.rs:54-55): a policy
   whose literals are not linted decides the same whatever path the shim has in args[0],
   with either effect and under any operator -- unless it looks for args in a set of
   literals, or for argv_tail in args, which is no membership of a literal in args.  The
   path is one: a bare program name in args[0], such as the README's example has, is not
   considered, and a literal can match that. *)
ShimPathDecidesNothing ==
  stage = "asked" /\ query.args # <<>> /\ lints.paths = {} /\ ~Within(policy.condition) =>
    \A other \in Queries :
      other.args # <<>> =>
        Satisfied(policy, Command([query.args EXCEPT ![1] = other.args[1]])) = satisfied

(* A name stays data: whatever characters a caller is called by, the principal Cedar
   reads is the one that was sent, and the literal it stands in does not end early. *)
NamesStayNames == stage = "asked" => caller = query.caller
=============================================================================
