------------------------------ MODULE GameLogic ------------------------------
(***************************************************************************)
(* The board and the turn of one Kayles game: src/game_logic.h and .cpp.   *)
(*                                                                         *)
(* A board is the SET of indices of the pawns still standing: the packed   *)
(* bytes of GameState::pawn_row are abstracted to the bits they hold.      *)
(* uint8_t arithmetic keeps its width: a uint8_t takes the IdxRange values *)
(* 0 .. IdxRange-1 (256 in the program) and wraps at IdxRange.             *)
(*                                                                         *)
(* Definitions under "Wrong:" are faulty variants of the one that follows: *)
(* each breaks a property, and shows that the property depends on it.      *)
(***************************************************************************)
EXTENDS Integers

CONSTANTS
    IdxRange,    \* number of values of a uint8_t pawn index (256)
    MaxPawn,     \* GameState::max_pawn of the template board
    InitialRow   \* the pawns standing on the template board (option -r)

\* What is_valid_pawn_row and initialize_pawn_row guarantee of the template:
\* at most IdxRange pawns, and the first and the last of them standing.
ASSUME GameLogicAssumption ==
    /\ IdxRange \in Nat /\ IdxRange > 1
    /\ MaxPawn \in 0 .. IdxRange - 1
    /\ InitialRow \subseteq 0 .. MaxPawn
    /\ {0, MaxPawn} \subseteq InitialRow

PawnIdx == 0 .. IdxRange - 1     \* every value of the wire's pawn byte
Pawns == 0 .. MaxPawn            \* the indices of the board

WAITING_FOR_OPPONENT == 0
TURN_A == 1
TURN_B == 2
WIN_A == 3
WIN_B == 4

Statuses == WAITING_FOR_OPPONENT .. WIN_B
Turns == {TURN_A, TURN_B}
Wins == {WIN_A, WIN_B}

is_pawn_standing(row, i) == i \in row

\* Wrong: a fallen pawn may be taken again.
IsLegalInRange(row, i) == i <= MaxPawn

is_legal_move(row, i) == i <= MaxPawn /\ is_pawn_standing(row, i)

any_pawn_left(row) == \E i \in Pawns : is_pawn_standing(row, i)

\* The loop of any_pawn_left counts in a uint8_t.  Without a standing pawn it
\* ends only at a value of the counter above max_pawn.
any_pawn_left_returns(row) ==
    any_pawn_left(row) \/ \E i \in PawnIdx : i > MaxPawn

\* Wrong: the player who faces the empty board is the winner.
NextPlayerWins(status, row) ==
    IF any_pawn_left(row)
    THEN IF status = TURN_A THEN TURN_B ELSE TURN_A
    ELSE IF status = TURN_A THEN WIN_B ELSE WIN_A

verify_game_state_after_move(status, row) ==
    IF any_pawn_left(row)
    THEN IF status = TURN_A THEN TURN_B ELSE TURN_A
    ELSE IF status = TURN_A THEN WIN_A ELSE WIN_B

-----------------------------------------------------------------------------
\* The one or two pawns a move request names: the second index is computed
\* in a uint8_t (handle_make_move_two).
OnePawn(i) == {i}
TwoPawns(i) == {i, (i + 1) % IdxRange}
==============================================================================
