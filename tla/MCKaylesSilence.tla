--------------------------- MODULE MCKaylesSilence ---------------------------
(***************************************************************************)
(* A small instance of KaylesSilence for TLC: one player on both seats.    *)
(***************************************************************************)
EXTENDS KaylesSilence

Request(t, size) == [type |-> t, len |-> size, player_id |-> 1, game_id |-> 1, pawn_idx |-> 0]

SoloDatagrams == {Request(0, 5), Request(1, 10), Request(3, 9)}
AfterBoot == {IdleCap}
OnePawnRow == {0}
==============================================================================
