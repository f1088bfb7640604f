------------------------------- MODULE PawnRow -------------------------------
(***************************************************************************)
(* The board as it is stored and sent: GameState::pawn_row, a vector of    *)
(* bytes with one bit for each pawn, the first pawn in the highest bit     *)
(* (src/game_logic.cpp).  The server knocks pawns down in it and copies it *)
(* into every GAME_STATE; the client reads the copy back into a string of  *)
(* '0' and '1'.  GameLogic keeps the same board as a set of indices.       *)
(*                                                                         *)
(* A byte is the set of the positions of its one-bits, 0 the lowest; a     *)
(* string of '0' and '1' is its length and the set of its '1's.            *)
(***************************************************************************)
EXTENDS Integers

CONSTANTS
    BITS_PER_BYTE,   \* 8
    MAX_PAWNS,       \* the longest row of option -r: 256
    IdxRange         \* number of values of a uint8_t: 256

ASSUME PawnRowAssumption ==
    /\ BITS_PER_BYTE \in Nat \ {0}
    /\ MAX_PAWNS \in Nat \ {0}
    /\ IdxRange \in Nat /\ IdxRange >= MAX_PAWNS

VARIABLES max_pawn, pawn_row

boardVars == <<max_pawn, pawn_row>>

BIT_INDEX_OFFSET == BITS_PER_BYTE - 1
Bits == 0 .. BIT_INDEX_OFFSET

byte_idx(i) == i \div BITS_PER_BYTE

\* Wrong: the first pawn is in the lowest bit.
BitIdxLsbFirst(i) == i % BITS_PER_BYTE

bit_idx(i) == BIT_INDEX_OFFSET - (i % BITS_PER_BYTE)

is_valid_pawn_row(length, ones) ==
    /\ length \in 1 .. MAX_PAWNS
    /\ ones \subseteq 0 .. length - 1
    /\ {0, length - 1} \subseteq ones

\* Wrong: the bytes start with all bits set.
BytesOfOnes(length, ones) ==
    [b \in 0 .. ((length - 1) % IdxRange) \div BITS_PER_BYTE |->
        {k \in Bits : \A i \in (0 .. length - 1) \ ones : ~(byte_idx(i) = b /\ bit_idx(i) = k)}]

initial_bytes(length, ones) ==
    [b \in 0 .. ((length - 1) % IdxRange) \div BITS_PER_BYTE |->
        {k \in Bits : \E i \in ones : byte_idx(i) = b /\ bit_idx(i) = k}]

initialize_pawn_row(length, ones) ==
    /\ max_pawn = (length - 1) % IdxRange
    /\ pawn_row = initial_bytes(length, ones)

is_pawn_standing(i) == bit_idx(i) \in pawn_row[byte_idx(i)]

\* Wrong: the last pawn is out of range.
IsLegalMoveBelowMax(i) == i < max_pawn /\ is_pawn_standing(i)

is_legal_move(i) == i <= max_pawn /\ is_pawn_standing(i)

knock_pawn_down(i) ==
    /\ pawn_row' = [pawn_row EXCEPT ![byte_idx(i)] = @ \ {bit_idx(i)}]
    /\ UNCHANGED max_pawn

\* The string a client prints for the bytes and the max_pawn it receives.
serialize_pawn_row(max, bytes) ==
    [i \in 0 .. max |->
        IF BIT_INDEX_OFFSET - (i % BITS_PER_BYTE) \in bytes[i \div BITS_PER_BYTE]
        THEN "1" ELSE "0"]
-----------------------------------------------------------------------------
BoardInit ==
    \E length \in 1 .. MAX_PAWNS :
        \E ones \in SUBSET (0 .. length - 1) :
            is_valid_pawn_row(length, ones) /\ initialize_pawn_row(length, ones)

\* A legal MOVE_1 on pawn i; a MOVE_2 is two such steps.
Knock(i) == is_legal_move(i) /\ knock_pawn_down(i)

BoardNext == \E i \in 0 .. IdxRange - 1 : Knock(i)

BoardSpec == BoardInit /\ [][BoardNext]_boardVars
-----------------------------------------------------------------------------
\* What the players see: the indices of the '1's of the string printed.
Shown == {i \in 0 .. max_pawn : serialize_pawn_row(max_pawn, pawn_row)[i] = "1"}

Rows == INSTANCE PawnSet WITH row <- Shown, last <- max_pawn

\* The string a client prints is the board: it starts as the row of option -r,
\* each knock takes exactly one '1' from it, and never anything else, whichever
\* bytes the pawns share and however many bits the last byte leaves unused.
ClientShowsTheBoard == Rows!SetSpec

\* What the server lets be played is what the client shows: the test of the
\* bits before a move and the printing of them afterwards agree, for every
\* value of the pawn byte, those past the end of the row included.
LegalIsShown == \A i \in 0 .. IdxRange - 1 : is_legal_move(i) <=> i \in Shown

\* The bits of the last byte that belong to no pawn stay zero, so a board is
\* won exactly when all its bytes are zero (what the tests compare).
UnusedBitsAreZero ==
    \A b \in DOMAIN pawn_row : \A k \in pawn_row[b] :
        b * BITS_PER_BYTE + BIT_INDEX_OFFSET - k \in 0 .. max_pawn
==============================================================================
