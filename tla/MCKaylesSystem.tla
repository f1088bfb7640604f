---------------------------- MODULE MCKaylesSystem ----------------------------
(***************************************************************************)
(* Small instances of KaylesSystem for TLC: what players type.             *)
(***************************************************************************)
EXTENDS KaylesSystem, TLC

\* Two players, one game, and what does not fit: a player id too large for 32
\* bits, a negative one together with a pawn too large for 8, a missing field.
TypedMessages ==
    {<<0, 1>>, <<0, 2>>, <<1, 2, 1, 0>>, <<2, 1, 1, 0>>, <<4, 1, 1>>}
    \cup {<<3, UINT32_MAX + 2, 1>>, <<1, -2, 1, IdxRange + 1>>, <<0>>}

SentDatagrams ==
    {DecodedRequest(serialize_message(parts)) : parts \in {q \in TypedMessages : ~IsFatal(q)}}

\* The runs of the client differ in nothing but their names.
SameProgram == Permutations(Clients)

AfterBoot == {IdleCap}
NoFaults == {}
TwoPawnRow == {0, 1}
==============================================================================
