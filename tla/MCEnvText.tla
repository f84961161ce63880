----------------------------- MODULE MCEnvText -----------------------------
(* A small instance of EnvText: all values of up to three characters, some    *)
(* that look like escapes, a second key with a few values, and a key that     *)
(* cannot be exported.                                                        *)
EXTENDS EnvText

CONSTANTS k1, k2, bad

Short == {<<>>, <<"LF">>, <<"'", "'">>}

\* What an escape looks like, as plain characters of a value.
Escapes == {<<"\\", "u", "0", "0", "0", "1">>, <<"\\", "\\", "u", "0", "0", "0", "1">>,
            <<"\\", "u", "0", "0", "a">>, <<"\\", "\\", "\\", "n">>}

MCSecrets ==
    {[k \in {k1} |-> v] :
             v \in UNION {[1..n -> Chars] : n \in 0..3} \cup Escapes}
    \cup {[k \in {k1, k2} |-> IF k = k1 THEN v ELSE w] :
             v \in UNION {[1..n -> Chars] : n \in 0..2}, w \in Short}
    \cup {[k \in {k1, bad} |-> w] : w \in Short}
    \cup {<<>>}
=============================================================================
