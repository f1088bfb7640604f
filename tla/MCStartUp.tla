------------------------------ MODULE MCStartUp ------------------------------
(***************************************************************************)
(* Small instances of StartUp for TLC: the options typed.                  *)
(***************************************************************************)
EXTENDS StartUp

Number(kind, n) == [kind |-> kind, n |-> n]
Row(length, ones) == [kind |-> "row", length |-> length, ones |-> ones]
Other == [kind |-> "other"]
Missing == [kind |-> "missing"]
Nan == [kind |-> "nan"]

Typed(flag, texts) == {[flag |-> flag, text |-> t] : t \in texts}

\* The limits of the ports, one too many, a fraction and a word.
PortTexts ==
    {Number("int", p) : p \in {0, 1, MAX_PORT_NUMBER, MAX_PORT_NUMBER + 1}}
    \cup {Number("real", 3 * SECOND), Other}

\* The limits of the timeout and what is just outside them, a fraction, and a
\* double just below 1.001.
Timeouts ==
    {Number("int", 1), Number("int", 99), Number("int", 0), Number("int", 100),
     Number("real", MIN_TIMEOUT_VALUE - 1), Number("real", MAX_TIMEOUT_VALUE + 1),
     Number("real", 5 * (SECOND \div 2)), Number("real", SECOND + MILLISECOND - 1), Other}

\* The longest row and one pawn more, the shortest and none, a gap, and rows
\* without a pawn at one end.
PawnRows ==
    {Row(8, 0 .. 7), Row(9, {0, 8}), Row(1, {0}), Row(0, {}), Row(3, {0, 2}),
     Row(3, {0, 1}), Row(2, {1}), Other}

OptionsTyped ==
    Typed("a", {Other, Missing}) \cup Typed("m", {Other}) \cup Typed("x", {Missing})
    \cup Typed("p", PortTexts) \cup Typed("t", Timeouts) \cup Typed("r", PawnRows)

WithNan == OptionsTyped \cup Typed("t", {Nan})
==============================================================================
