----------------------------- MODULE MCVtlLexer -----------------------------
(* Sources that begin in every mode of the lexer, and go on with any few   *)
(* characters.                                                             *)
EXTENDS VtlLexer

MCOpenings == {<<>>, <<"$", "{", "a">>, <<"$", "a", "(", "\"">>,
               <<"n", "#", "D", "n", "(">>}

MCChars == Char
=============================================================================
