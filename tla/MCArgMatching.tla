---------------------------- MODULE MCArgMatching ----------------------------
(* A small instance of ArgMatching for TLC: every test of argv_tail with a short pattern
   or literal, some of them combined, and tests of args; commands of up to two arguments
   after the program, and callers with the characters a quoted id turns on. *)
EXTENDS ArgMatching

TextsOver(chars, length) == UNION {[1..n -> chars] : n \in 0..length}

Likes == {Like(TailRead, p) : p \in TextsOver({"a", " ", Wildcard}, 3)}

Equalities ==
  {Binary(op, TailRead, Literal(t)) : op \in {"==", "!="}, t \in TextsOver({"a", " "}, 2)}
    \cup {Binary("==", Literal(<<"a">>), TailRead)}

MembershipTests ==
  {Binary("contains", ArgsRead, Literal(t)) : t \in {<<"a">>, <<"/">>}}
    \cup {Binary(op, ArgsRead, SetOf(ts)) : op \in {"containsAny", "containsAll"},
                                            ts \in {{<<"a">>}, {<<"a">>, <<"/">>}}}
    \cup {Binary("containsAll", SetOf({<<"a">>, <<"/">>}), ArgsRead)}
    \cup {Binary("contains", s, TailRead) : s \in {ArgsRead, SetOf({<<"a">>})}}

Tests == Likes \cup Equalities \cup MembershipTests

Parts == {Like(TailRead, <<"a", " ", Wildcard>>), Like(TailRead, <<"a", Wildcard>>),
          Binary("==", TailRead, Literal(<<"a">>)), Binary("contains", ArgsRead, Literal(<<"a">>)),
          Binary("containsAny", ArgsRead, SetOf({<<"/">>}))}

Conditions ==
  Tests \cup {Not(t) : t \in Tests}
    \cup {Binary(op, s, t) : op \in {"&&", "||"}, s, t \in Parts}
    \cup {Not(Binary("||", s, t)) : s, t \in Parts}

Below(nodes) == UNION {Children(node) : node \in nodes}

\* A replaced constant is a name for a value here: TLC evaluates that once.
AllNodes == LET one == Below(Conditions)
                two == Below(one)
                three == Below(two)
            IN Conditions \cup one \cup two \cup three \cup Below(three)
MCNodes == AllNodes

RECURSIVE HeightOf(_)
HeightOf(node) == IF Children(node) = {} THEN 0 ELSE 1 + Max({HeightOf(child) : child \in Children(node)})

MCHeight == [node \in MCNodes |-> HeightOf(node)]

MCCharacters == {"a", " ", "/", "n", Quote, Backslash}

MCPolicies == [effect : {"permit", "forbid"}, kind : {"when", "unless"}, condition : Conditions]

Arguments == TextsOver({"a", " "}, 2)
Programs == {<<"/">>, <<"/", "a">>}

AllQueries ==
  {[caller |-> <<"a">>, args |-> <<p>> \o rest] :
      p \in Programs, rest \in TextsOver(Arguments, 2)}
    \cup {[caller |-> name, args |-> <<>>] : name \in TextsOver({Quote, Backslash, "n"}, 3)}
MCQueries == AllQueries

AllTails == TextsOver({"a", " "}, 4)
MCTails == AllTails
=============================================================================
