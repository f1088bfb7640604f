----------------------------- MODULE KaylesRules -----------------------------
(***************************************************************************)
(* What the server promises its players: the rules of Kayles (the header   *)
(* of src/kayles_server.cpp) for a hall of tables, each a game of its own. *)
(* No ids, clocks, datagrams or bytes: a table opens, is joined, is played *)
(* by whoever is on turn, is won, and may be abandoned at any time.        *)
(***************************************************************************)
EXTENDS Integers

CONSTANTS
    Tables,
    Players,
    Start      \* the pawns of a fresh board

VARIABLE table

Other(side) == IF side = "A" THEN "B" ELSE "A"

\* phase "closed", "waiting", "turn" or "won"; side: who is on turn, or won.
Closed == [phase |-> "closed", side |-> "B", a |-> 0, b |-> 0, row |-> {}]

Holder(t, side) == IF side = "A" THEN table[t].a ELSE table[t].b

\* What one move may take: a standing pawn, or two neighbours both standing.
Takes(row) == {{i} : i \in row} \cup {{i, i + 1} : i \in {j \in row : j + 1 \in row}}

RInit == table = [t \in Tables |-> Closed]

Open(t, p) ==
    /\ table[t].phase = "closed"
    /\ \A u \in Tables : table[u].phase # "waiting"
    /\ table' = [table EXCEPT ![t] =
                    [phase |-> "waiting", side |-> "B", a |-> p, b |-> 0, row |-> Start]]

\* B, who came second, moves first.
Sit(t, p) ==
    /\ table[t].phase = "waiting"
    /\ table' = [table EXCEPT ![t] =
                    [phase |-> "turn", side |-> "B", a |-> @.a, b |-> p, row |-> @.row]]

\* Whoever takes the last pawn wins.
Take(t) ==
    /\ table[t].phase = "turn"
    /\ \E s \in Takes(table[t].row) :
          LET last == table[t].row = s IN
          table' = [table EXCEPT ![t] =
                      [phase |-> IF last THEN "won" ELSE "turn",
                       side |-> IF last THEN @.side ELSE Other(@.side),
                       a |-> @.a, b |-> @.b, row |-> @.row \ s]]

\* The player on turn gives up, and loses a seat that is theirs: when one
\* player holds both, the code and the rules disagree on which.
Forfeit(t) ==
    /\ table[t].phase = "turn"
    /\ \E loser \in {"A", "B"} :
          /\ Holder(t, loser) = Holder(t, table[t].side)
          /\ table' = [table EXCEPT ![t] =
                          [phase |-> "won", side |-> Other(loser),
                           a |-> @.a, b |-> @.b, row |-> @.row]]

Abandon(ts) == table' = [t \in Tables |-> IF t \in ts THEN Closed ELSE table[t]]

RNext ==
    \/ \E t \in Tables :
          \/ \E p \in Players : Open(t, p) \/ Sit(t, p)
          \/ Take(t)
          \/ Forfeit(t)
    \/ \E ts \in SUBSET Tables : Abandon(ts)

RSpec == RInit /\ [][RNext]_table
==============================================================================
