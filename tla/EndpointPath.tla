----------------------------- MODULE EndpointPath -----------------------------
(***************************************************************************)
(* Whether the meaning of a raw endpoint path can be known                 *)
(* (src/src/endpoint_path.rs): ambiguity() looks for dot segments in the   *)
(* path as sent and after each percent-decode pass over it, because nobody *)
(* here knows how often the upstream decodes.  One step is one turn of     *)
(* that loop.                                                              *)
(*                                                                         *)
(* A path is a sequence of characters.  All characters that mean nothing   *)
(* to anyone are "x"; of the hexadecimal digits there are enough to spell  *)
(* a dot, a slash, a question mark, a percent sign, digits, and bytes that *)
(* are no UTF-8.                                                           *)
(***************************************************************************)
EXTENDS Naturals, SequencesExt

CONSTANTS
  Paths,            \* the paths nono sends
  MaxDecodePasses   \* MAX_DECODE_PASSES

HexDigits == {"2", "3", "5", "e", "f"}
Characters == HexDigits \cup {"/", "\\", ".", ";", "?", "%", "x"}

ASSUME ConstantsAssumption ==
  /\ Paths \subseteq Seq(Characters)
  /\ MaxDecodePasses \in Nat

VARIABLES
  path,      \* the path as sent
  current,   \* the routing part, decoded so many times
  passes,    \* how many times
  verdict    \* "none" yet, "clear" or the Ambiguity

vars == <<path, current, passes, verdict>>

Ambiguities == {"DotSegment", "MalformedEscape", "NonUtf8", "NestedTooDeep"}

\* The types of the variables.
TypeOK ==
  /\ path \in Paths
  /\ current \in Seq(Characters)
  /\ passes \in 0..MaxDecodePasses
  /\ verdict \in Ambiguities \cup {"none", "clear"}

-----------------------------------------------------------------------------
(* The conversions *)

\* The parts after one more character.
Parted(parts, c, separators) ==
  IF c \in separators THEN Append(parts, <<>>)
  ELSE [parts EXCEPT ![Len(parts)] = Append(@, c)]

\* The parts of each prefix of a text.
Parts(text, separators) ==
  LET parts[n \in 0..Len(text)] ==
        IF n = 0 THEN <<<<>>>> ELSE Parted(parts[n - 1], text[n], separators)
  IN parts

\* str::split
Split(text, separators) == Parts(text, separators)[Len(text)]

First(text, separator) == Split(text, {separator})[1]

\* Mutant: the query is part of the path.
RoutingWithQuery(text) == text

\* The target up to its query.
Routing(text) == First(text, "?")

Dots == {<<".">>, <<".", ".">>}

\* Mutant: parameters belong to the segment.
HasDotSegmentLiteral(text) == Range(Split(text, {"/", "\\"})) \cap Dots # {}

\* dot_segment finds one: between slashes of either kind, parameters stripped.
HasDotSegment(text) ==
  \E segment \in Range(Split(text, {"/", "\\"})) : First(segment, ";") \in Dots

\* The byte two digits spell; those from 80 on are never UTF-8 here, since no
\* sequence of them is.
Byte(high, low) ==
  CASE <<high, low>> = <<"2", "e">> -> "."
    [] <<high, low>> = <<"2", "f">> -> "/"
    [] <<high, low>> = <<"2", "5">> -> "%"
    [] <<high, low>> = <<"3", "f">> -> "?"
    [] high = "3" /\ low \in {"2", "3", "5"} -> low
    [] high \in {"e", "f"} -> "high-byte"
    [] OTHER -> "x"

Escape(text, i) ==
  IF i + 2 <= Len(text) /\ {text[i + 1], text[i + 2]} \subseteq HexDigits
  THEN Byte(text[i + 1], text[i + 2])
  ELSE "malformed"

\* One turn of percent_decode's loop, at i: only a position the loop comes to is read.
Pushed(text, loop, i) ==
  CASE i < loop.next -> loop
    [] i >= loop.next /\ text[i] # "%" -> [next |-> i + 1, out |-> Append(loop.out, text[i])]
    [] OTHER -> [next |-> i + 3, out |-> Append(loop.out, Escape(text, i))]

\* The loop's variables behind each position.
Loop(text) ==
  LET loop[i \in 0..Len(text)] ==
        IF i = 0 THEN [next |-> 1, out |-> <<>>] ELSE Pushed(text, loop[i - 1], i)
  IN loop

\* percent_decode: what comes out, marks for what cannot included.
Decoded(text) == Loop(text)[Len(text)].out

Undecodable(text) ==
  CASE Contains(Decoded(text), "malformed") -> "MalformedEscape"
    [] ~Contains(Decoded(text), "malformed") /\ Contains(Decoded(text), "high-byte") -> "NonUtf8"
    [] OTHER -> "none"

-----------------------------------------------------------------------------
(* ambiguity() *)

Init ==
  /\ path \in Paths
  /\ current = Routing(path)
  /\ passes = 0
  /\ verdict = "none"

Settle(answer) == verdict' = answer /\ UNCHANGED <<path, current, passes>>

FindDotSegment ==
  /\ verdict = "none"
  /\ HasDotSegment(current)
  /\ Settle("DotSegment")

NothingToDecode ==
  /\ verdict = "none"
  /\ ~HasDotSegment(current)
  /\ ~Contains(current, "%")
  /\ Settle("clear")

\* Mutant: an undecodable path below the first pass is left as it is.
GiveUpOnFirstPass ==
  /\ verdict = "none"
  /\ passes = 0
  /\ ~HasDotSegment(current)
  /\ Undecodable(current) # "none"
  /\ Settle(Undecodable(current))

\* Decisive for the path as sent; deeper down a stray % is data.
GiveUp ==
  /\ verdict = "none"
  /\ ~HasDotSegment(current)
  /\ Undecodable(current) # "none"
  /\ Settle(IF passes = 0 THEN Undecodable(current) ELSE "clear")

\* The next pass, or the end of the loop.  (That a pass changed nothing is tested, too,
\* but there was a % in it.)
Decode ==
  /\ verdict = "none"
  /\ ~HasDotSegment(current)
  /\ Contains(current, "%")
  /\ Undecodable(current) = "none"
  /\ current' = Decoded(current)
  /\ IF passes < MaxDecodePasses THEN passes' = passes + 1 /\ UNCHANGED verdict
     ELSE verdict' = "NestedTooDeep" /\ UNCHANGED passes
  /\ UNCHANGED path

Next == FindDotSegment \/ NothingToDecode \/ GiveUp \/ Decode

Spec == Init /\ [][Next]_vars /\ WF_vars(Next)

-----------------------------------------------------------------------------
(* What upstreams do with a path *)

\* The target up to its query, said without splitting.
BeforeQuery(text) ==
  CHOOSE routing \in {SubSeq(text, 1, n) : n \in 0..Len(text)} :
    /\ ~Contains(routing, "?")
    /\ routing = text \/ text[Len(routing) + 1] = "?"

\* What a segment does to those before it.
Kept(kept, segment) ==
  CASE segment = <<".">> -> kept
    [] segment = <<".", ".">> -> IF kept = <<>> THEN kept ELSE Front(kept)
    [] OTHER -> Append(kept, segment)

\* What the first segments resolve to, for each number of them.
Resolved(segments) ==
  LET kept[n \in 0..Len(segments)] ==
        IF n = 0 THEN <<>> ELSE Kept(kept[n - 1], segments[n])
  IN kept

\* RFC 3986's remove_dot_segments, on segments.
Resolve(segments) == Resolved(segments)[Len(segments)]

Slashes == {{"/"}, {"/", "\\"}}

\* The segments an upstream of one kind or another sees.
Seen(text, slashes, strips) ==
  LET segments == Split(text, slashes)
  IN IF strips THEN [i \in DOMAIN segments |-> First(segments[i], ";")] ELSE segments

\* They all take it for what it says.
MeansItself(text) ==
  \A slashes \in Slashes, strips \in BOOLEAN :
    Resolve(Seen(text, slashes, strips)) = Seen(text, slashes, strips)

\* One turn of a decoder that goes on behind what it cannot decode.
Left(text, loop, i) ==
  IF i >= loop.next /\ text[i] = "%" /\ Escape(text, i) \in {"malformed", "high-byte"}
  THEN [next |-> i + 1, out |-> Append(loop.out, text[i])]
  ELSE Pushed(text, loop, i)

LeftLoop(text) ==
  LET loop[i \in 0..Len(text)] ==
        IF i = 0 THEN [next |-> 1, out |-> <<>>] ELSE Left(text, loop[i - 1], i)
  IN loop

\* What it makes of a text: the escapes it cannot decode are data.
LeftAsData(text) == LeftLoop(text)[Len(text)].out

\* What is left of the paths after one more decode pass.  An upstream rejects what cannot be
\* decoded, or keeps it.
DecodedOnce(texts, keeps) ==
  {Decoded(text) : text \in {t \in texts : Undecodable(t) = "none"}}
    \cup {LeftAsData(text) : text \in {t \in texts : keeps /\ Undecodable(t) # "none"}}

\* What an upstream has of a target after so many decode passes: one path, or none.
Passed(target, keeps) ==
  LET after[k \in 0..(MaxDecodePasses + 1)] ==
        IF k = 0 THEN {BeforeQuery(target)} ELSE DecodedOnce(after[k - 1], keeps)
  IN after

After == Passed(path, FALSE)

AfterKeeping == Passed(path, TRUE)

-----------------------------------------------------------------------------
(* Properties *)

(* A path handed to the policies means what it says: however often an upstream decodes
   it, whether it takes a backslash for a slash and strips ;parameters or not, the path
   resolves to itself -- so what the policy matched is what is served.  This holds of every
   upstream that rejects what it cannot decode.  One that keeps it as data and decodes on
   is excepted where the search ended at such an escape, below the first pass
   (endpoint_path.rs:108-116).  It ends for the whole path: in a%25/%252e%252e the dots
   behind the stray % are encoded twice and are not found, although "Traversal is looked for
   at every decode depth" (endpoint_path.rs:71-73). *)
ClearMeansItself ==
  verdict = "clear" =>
    \A k \in 0..(MaxDecodePasses + 1) :
      /\ \A text \in After[k] : MeansItself(text)
      /\ Undecodable(current) = "none" => \A text \in AfterKeeping[k] : MeansItself(text)

(* And none is refused for nothing: after just the number of passes the verdict names
   some upstream resolves the path to something else, and after fewer none does; an
   escape is malformed in the path as sent, not in what it decodes to; and a query may
   hold whatever it likes. *)
RefusedForAReason ==
  CASE verdict = "DotSegment" ->
         /\ \A k \in 0..(passes - 1) : After[k] # {} /\ \A text \in After[k] : MeansItself(text)
         /\ After[passes] # {} /\ \A text \in After[passes] : ~MeansItself(text)
    [] verdict \in {"MalformedEscape", "NonUtf8"} ->
         \A text \in After[0] : MeansItself(text) /\ Undecodable(text) = verdict
    [] verdict = "NestedTooDeep" ->
         After[MaxDecodePasses + 1] # {} /\ After[MaxDecodePasses + 1] # After[MaxDecodePasses]
    [] OTHER -> TRUE

(* Every path gets a verdict: each pass makes the path shorter, or ends the loop. *)
Decides == <>(verdict # "none")
=============================================================================
