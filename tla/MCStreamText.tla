---------------------------- MODULE MCStreamText ----------------------------
(* Letters, a space, a newline and the bytes of characters of two and three      *)
(* bytes, in pieces of up to three bytes; no piece ends a stop word and begins,  *)
(* but does not complete, a character.  Stop words overlap each other and        *)
(* themselves.                                                                   *)
EXTENDS StreamText

MCLeadSize == [b \in {"a", "b", " ", "n", "c2", "e2", "80"} |->
    CASE b = "c2" -> 2 [] b = "e2" -> 3 [] b = "80" -> 0 [] OTHER -> 1]

MCPieces == {<<>>, <<"a">>, <<"b">>, <<"b", "a">>, <<"a", "a", "b">>, <<"n">>,
             <<" ", "b">>, <<"n", " ">>, <<"c2", "80">>, <<"c2">>, <<"e2", "80">>, <<"80">>}

MCStopWords == {{}, {<<"a", "b">>}, {<<"a", "a", "b">>, <<"b", "b">>},
                {<<"a", "c2", "80">>, <<"n">>}}

\* Whole characters only, and one stop word.
Letters == {<<"a">>, <<"b">>}
OneStopWord == {{<<"a", "b">>}}
=============================================================================
