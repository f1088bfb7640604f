---------------------------- MODULE MCKaylesServer ----------------------------
(***************************************************************************)
(* Small instances of the server for TLC: the datagrams that reach it.     *)
(***************************************************************************)
EXTENDS KaylesServerRefinement, KaylesServerClaims

Join(p) == [NoDatagram EXCEPT !.len = 5, !.player_id = p]
Move(t, p, g, i) ==
    [type |-> t, len |-> 10, player_id |-> p, game_id |-> g, pawn_idx |-> i]
KeepAlive(p, g) == [type |-> 3, len |-> 9, player_id |-> p, game_id |-> g, pawn_idx |-> 0]
GiveUp(p, g) == [KeepAlive(p, g) EXCEPT !.type = 4]

Joins(P) == {Join(p) : p \in P}
Moves(P, G) == {Move(t, p, g, i) : t \in {1, 2}, p \in P, g \in G, i \in PawnIdx}
KeepAlives(P, G) == {KeepAlive(p, g) : p \in P, g \in G}
GiveUps(P, G) == {GiveUp(p, g) : p \in P, g \in G}

\* One of each way to be malformed: empty, unknown type, too short, too long,
\* no player id, no such game.
Malformed ==
    {NoDatagram, [NoDatagram EXCEPT !.type = 5, !.len = 12]}
    \cup {[Join(1) EXCEPT !.len = 4], [Join(1) EXCEPT !.len = 999], Join(0)}
    \cup {[m EXCEPT !.len = 1] : m \in {Move(1, 1, 1, 0), Move(2, 1, 1, 0)}}
    \cup {[Move(1, 1, 1, 0) EXCEPT !.len = 11], Move(1, 0, 1, 0), Move(2, 0, 1, 0)}
    \cup {[KeepAlive(1, 1) EXCEPT !.len = 8], [KeepAlive(1, 1) EXCEPT !.len = 10], KeepAlive(0, 1)}
    \cup {[GiveUp(1, 1) EXCEPT !.len = 5], [GiveUp(1, 1) EXCEPT !.len = 10], GiveUp(0, 1)}
    \cup {Move(1, 1, 0, 0), Move(2, 1, 0, 0), KeepAlive(1, 0), GiveUp(1, 0)}

\* Two players and an outsider at one table.
TableDatagrams ==
    Joins({1, 2}) \cup Moves({1, 2}, {1}) \cup KeepAlives({1, 3}, {1})
    \cup GiveUps({1, 2, 3}, {1}) \cup Malformed

\* Two players at any two of the tables, the first of which can be cleared.
HallDatagrams ==
    Joins({1, 2}) \cup {Move(1, p, g, 0) : p \in {1, 2}, g \in GameIds}
    \cup {Move(1, p, 1, 1) : p \in {1, 2}}
    \cup KeepAlives({1}, GameIds) \cup GiveUps({2}, GameIds)

\* The little it takes to open a game, play it and look at it.
PlayDatagrams ==
    Joins({1}) \cup Moves({1}, {1}) \cup KeepAlives({1}, {1}) \cup GiveUps({1}, {1})

AfterBoot == {IdleCap}
AnyUptime == Ages
NoFaults == {}
AllocFaults == {"alloc"}
AllFaults == {"alloc", "send", "recv", "refused"}
TwoPawnRow == {0, 1}
ThreePawnRow == {0, 1, 2}
FourPawnRow == {0, 1, 2, 3}
==============================================================================
