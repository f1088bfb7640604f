------------------------ MODULE KaylesServerRefinement ------------------------
(***************************************************************************)
(* The server implements the rules of KaylesRules: a game id is a table,   *)
(* the game stored under it what is played there.                          *)
(***************************************************************************)
EXTENDS KaylesServerProperties

Senders == {m.player_id : m \in Datagrams} \ {0}

Phase(game) ==
    IF game.status = WAITING_FOR_OPPONENT THEN "waiting"
    ELSE IF game.status \in Turns THEN "turn" ELSE "won"

Side(game) == IF game.status \in {TURN_A, WIN_A} THEN "A" ELSE "B"

\* A torn game stands for a table nobody has moved at.
TableOf(game) ==
    [phase |-> Phase(game), side |-> Side(game), a |-> game.player_a_id,
     b |-> game.player_b_id, row |-> IF game.torn THEN InitialRow ELSE game.pawn_row]

ClosedTable == [phase |-> "closed", side |-> "B", a |-> 0, b |-> 0, row |-> {}]

table == [g \in GameIds |->
             IF g \in DOMAIN active_games THEN TableOf(active_games[g]) ELSE ClosedTable]

Rules == INSTANCE KaylesRules WITH
            Tables <- GameIds, Players <- Senders, Start <- InitialRow

\* Whatever clients send and whatever the allocator and the kernel do, every
\* table sees a game of Kayles: B moves first, the turns alternate, a move
\* takes one pawn or two neighbours, the last pawn wins, a finished game stays
\* as it is, and a game may vanish only as a whole.  For rows of at most 255
\* pawns: handle_make_move_two and any_pawn_left go wrong on 256.
ImplementsRules == Rules!RSpec
==============================================================================
