------------------------------ MODULE MCEasyConfig ------------------------------
(* An instance of EasyConfig for TLC: every version changes "a" and "b"; "b" is *)
(* overridden locally; version 2 defines "c" for the last time.                 *)
EXTENDS EasyConfig, TLC

Name(v) == <<"1", "2", "3">>[v]

LinesOf(v) == <<<<"a", "=", " ", Name(v), "\n">>, <<"\n">>, <<"b", " ", "=", Name(v), "\n">>>>

Published ==
    0 :> <<>> @@ 1 :> LinesOf(1) @@ 3 :> LinesOf(3)
    @@ 2 :> <<<<"#", "c", "=", "1", "\n">>, <<"c", "=", "2", "\n">>>> \o LinesOf(2)

Def(v) == <<"a">> :> <<Name(v)>> @@ <<"b">> :> <<Name(v)>>

Meant == 0 :> <<>> @@ 1 :> Def(1) @@ 2 :> (Def(2) @@ <<"c">> :> <<"2">>) @@ 3 :> Def(3)

Overrides ==
    <<<<" ", "b", "=", "9", " ", "#", " ", "a", "=", "9", "\n">>, <<"=", "9", "\n">>,
      <<"a", "#", "=", "9", "\n">>, <<"a", "=", "9">>>>

MeantLocally == <<"b">> :> <<"9">>

\* Load reads from every file what its author means.
ASSUME MCAuthorsAreUnderstood == AuthorsAreUnderstood
=============================================================================
