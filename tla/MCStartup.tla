------------------------------ MODULE MCStartup ------------------------------
(* A small instance of Startup for TLC: two objects a path can lead to, of which one and
   the configured log may lie in the working directory, a certificate nono believes and
   one it does not. *)
EXTENDS Startup

CONSTANTS o1, o2, good, selfSigned

MCObjects == {o1, o2}
MCContents == {good, selfSigned}
MCBelieved == {good}
MCInsides == {{}, {o1, Link}}
=============================================================================
