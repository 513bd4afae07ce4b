--------------------------- MODULE MCEndpointPath ---------------------------
(* A small instance of EndpointPath for TLC: every concatenation of three pieces, which
   give dot segments of every spelling, escapes nested one deeper than is followed, and
   escapes that stop decoding beside others that do not. *)
EXTENDS EndpointPath

Pieces == {
  <<>>, <<"/">>, <<"\\">>, <<".">>, <<".", ".">>, <<";">>, <<"?">>, <<"x">>, <<"%">>,
  <<"2", "5">>, <<"2", "e">>, <<"%", "2", "5">>, <<"%", "2", "e">>,
  <<"/", "%", "2", "5">>,
  <<"%", "2", "f">>, <<"%", "3", "f">>, <<"%", "e", "f">>, <<"%", "3", "2">> }

MCPaths == {a \o b \o c : a, b, c \in Pieces}
=============================================================================
