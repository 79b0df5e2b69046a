----------------------------- MODULE MCAlphabet -----------------------------
(* A small instance of AlphabetGame: a word with a letter that occurs twice,  *)
(* and a short one.                                                           *)
EXTENDS AlphabetGame

MCWords == {<<"l", "l", "a">>, <<"b", "a">>}

=============================================================================
