------------------------------- MODULE PawnSet -------------------------------
(***************************************************************************)
(* The board without its bytes: a row of pawns that fall one at a time.    *)
(***************************************************************************)
EXTENDS Integers

CONSTANT MAX_PAWNS

VARIABLES row, last    \* the pawns standing, the index of the last pawn

\* A row of option -r: at most MAX_PAWNS pawns, both ends standing.
SetInit ==
    /\ last \in 0 .. MAX_PAWNS - 1
    /\ row \subseteq 0 .. last
    /\ {0, last} \subseteq row

Fall ==
    /\ \E i \in row : row' = row \ {i}
    /\ UNCHANGED last

SetSpec == SetInit /\ [][Fall]_<<row, last>>
==============================================================================
