------------------------ MODULE KaylesRefinementProofs ------------------------
(***************************************************************************)
(* The server implements the rules of Kayles, for every number of players  *)
(* and games and every row the pawn index can count past; and how far the  *)
(* claims of KaylesServerClaims hold.                                      *)
(***************************************************************************)
EXTENDS KaylesServerRefinement, KaylesServerClaims, KaylesServerProofs, KaylesSessionProofs

\* A torn game has no pawns, and a request that is handled was sent.
RulesInv ==
    /\ TornGamesAreBare
    /\ pc = "dispatch" => datagram \in Datagrams

LEMMA RulesInvStep ==
    ASSUME TypeOK, RulesInv, [Next]_vars
    PROVE  RulesInv'
<1>1. ASSUME NEW m \in Datagrams, Receive(m) PROVE datagram' \in Datagrams
    BY <1>1 DEF Receive
<1>2. CASE Handle
    BY <1>2, HandlersEnd, TornGamesAreBareStep DEF RulesInv
<1>3. CASE RecvTimeout \/ RecvFails \/ Tick \/ UNCHANGED vars
    BY <1>3, TornGamesAreBareStep DEF RecvTimeout, RecvFails, Tick, vars, RulesInv
<1>. QED
    BY <1>1, <1>2, <1>3, TornGamesAreBareStep DEF Next, RulesInv
-----------------------------------------------------------------------------
(* The mapping. *)

\* What the players see of a game that only ages is what they saw.
LEMMA SameTable ==
    ASSUME NEW old, NEW new, Same(old, new)
    PROVE  TableOf(new) = TableOf(old)
BY DEF Same, TableOf, Phase, Side

\* Where one game is put into the map, one table changes.
LEMMA OneTable ==
    ASSUME TypeOK, NEW g \in GameIds,
           DOMAIN active_games' = DOMAIN active_games \cup {g},
           \A h \in DOMAIN active_games' \ {g} : active_games'[h] = active_games[h]
    PROVE  table' = [table EXCEPT ![g] = TableOf(active_games'[g])]
<1>1. \A h \in GameIds : table'[h] = IF h = g THEN TableOf(active_games'[g]) ELSE table[h]
    BY DEF table
<1>2. table = [h \in GameIds |-> table[h]] /\ table' = [h \in GameIds |-> table'[h]]
    BY DEF table
<1>. QED
    BY <1>1, <1>2

\* Steps that take games away, or let them age, are Abandon or nothing.
LEMMA OthersAbandon ==
    ASSUME TypeOK, [Next]_vars, ~Handle
    PROVE  Rules!RNext
<1>. DEFINE ts == {g \in GameIds : g \notin DOMAIN active_games'}
<1>1. \A g \in DOMAIN active_games' :
          g \in DOMAIN active_games /\ TableOf(active_games'[g]) = TableOf(active_games[g])
    BY OtherStepsOnGames, SameTable
<1>2. \A g \in GameIds : table'[g] = IF g \in ts THEN ClosedTable ELSE table[g]
    BY <1>1 DEF table
<1>3. table' = [g \in GameIds |-> IF g \in ts THEN ClosedTable ELSE table[g]]
    BY <1>2 DEF table
<1>4. Rules!Abandon(ts)
    BY <1>3 DEF Rules!Abandon, Rules!Closed, ClosedTable
<1>. QED
    BY <1>4 DEF Rules!RNext
-----------------------------------------------------------------------------
(* The handlers. *)

LEMMA CreatingOpens ==
    ASSUME TypeOK, NEW g \in GameIds, Creates(g), datagram.player_id \in Senders,
           table' = [table EXCEPT ![g] = TableOf(active_games'[g])]
    PROVE  Rules!Open(g, datagram.player_id)
<1>1. table[g].phase = "closed"
    BY DEF Creates, table, ClosedTable
<1>2. \A h \in GameIds : table[h].phase # "waiting"
    BY DEF Creates, WaitingGames, IsWaiting, table, ClosedTable, TableOf, Phase
<1>. DEFINE Fresh(p) ==
        [phase |-> "waiting", side |-> "B", a |-> p, b |-> 0, row |-> InitialRow]
<1>3. \A p : TableOf(NewGame(p)) = Fresh(p)
    BY DEF NewGame, TableOf, Phase, Side, WAITING_FOR_OPPONENT, TURN_A, WIN_A
<1>4. \A p : TableOf(TornGame(p)) = Fresh(p)
    BY DEF NewGame, TornGame, TableOf, Phase, Side, WAITING_FOR_OPPONENT, TURN_A, WIN_A
<1>5. TableOf(active_games'[g]) = Fresh(datagram.player_id)
    BY <1>3, <1>4 DEF Creates
<1>. QED
    BY <1>1, <1>2, <1>5 DEF Rules!Open

LEMMA SeatingSits ==
    ASSUME TypeOK, NEW g \in DOMAIN active_games, g \in GameIds,
           Seating(active_games[g], active_games'[g]),
           table' = [table EXCEPT ![g] = TableOf(active_games'[g])]
    PROVE  Rules!Sit(g, datagram.player_id)
<1>. DEFINE old == active_games[g]
<1>1. old \in GameState /\ table[g] = TableOf(old)
    BY DEF TypeOK, table
<1>2. table[g].phase = "waiting"
    BY <1>1 DEF Seating, IsWaiting, TableOf, Phase
<1>3. /\ active_games'[g] = [old EXCEPT !.player_b_id = datagram.player_id, !.status = TURN_B,
                                        !.idle = 0]
      /\ old.status = WAITING_FOR_OPPONENT
    BY DEF Seating, Seated, IsWaiting
<1>4. TableOf(active_games'[g]) =
          [phase |-> "turn", side |-> "B", a |-> table[g].a, b |-> datagram.player_id,
           row |-> table[g].row]
    BY <1>1, <1>3 DEF TableOf, Phase, Side, GameState, Turns,
                      WAITING_FOR_OPPONENT, TURN_A, TURN_B, WIN_A
<1>. QED
    BY <1>2, <1>4 DEF Rules!Sit

\* A legal move takes one standing pawn or two neighbours: on a row the index
\* can count past, the neighbour's index does not wrap.
LEMMA LegalMoveTakes ==
    ASSUME MaxPawn < IdxRange - 1, datagram.pawn_idx \in PawnIdx,
           NEW game \in GameState, NEW pawns \in TwoMoves, IsLegal(game, pawns)
    PROVE  /\ pawns \in Rules!Takes(game.pawn_row)
           /\ pawns \subseteq game.pawn_row
<1>. DEFINE i == datagram.pawn_idx
<1>1. \A k \in pawns : k \in game.pawn_row /\ k <= MaxPawn
    BY DEF IsLegal, is_legal_move, is_pawn_standing
<1>2. CASE pawns = OnePawn(i)
    BY <1>1, <1>2 DEF OnePawn, Rules!Takes
<1>3. CASE pawns = TwoPawns(i)
    <2>1. i \in Int /\ 0 <= i /\ i <= MaxPawn /\ IdxRange \in Int /\ MaxPawn \in Int
        BY <1>1, <1>3, GameLogicAssumption DEF TwoPawns, PawnIdx
    <2>2. (i + 1) % IdxRange = i + 1
        BY <2>1, GameLogicAssumption
    <2>. QED
        BY <1>1, <1>3, <2>2 DEF TwoPawns, Rules!Takes
<1>. QED
    BY <1>2, <1>3 DEF TwoMoves

LEMMA PlayingTakes ==
    ASSUME TypeOK, RulesInv, MaxPawn < IdxRange - 1,
           NEW g \in DOMAIN active_games, g \in GameIds,
           Playing(active_games[g], active_games'[g]),
           table' = [table EXCEPT ![g] = TableOf(active_games'[g])]
    PROVE  Rules!Take(g)
<1>. DEFINE old == active_games[g]
            new == active_games'[g]
<1>1. old \in GameState /\ table[g] = TableOf(old) /\ datagram.pawn_idx \in PawnIdx
    BY DEF TypeOK, table, Datagram
<1>2. PICK s \in TwoMoves : IsLegal(old, s) /\ new = Moved(old, old.pawn_row \ s)
    BY DEF Playing, RowAfter
<1>3. s \in Rules!Takes(old.pawn_row) /\ s \subseteq old.pawn_row /\ s # {}
    BY <1>1, <1>2, LegalMoveTakes DEF TwoMoves, OnePawn, TwoPawns
<1>4. ~old.torn
    BY <1>3 DEF RulesInv, TornGamesAreBare
<1>5. old.status \in Turns
    BY DEF Playing, IsValidTurn, Turns
<1>6. any_pawn_left(old.pawn_row \ s) <=> old.pawn_row # s
    BY <1>1, <1>3 DEF any_pawn_left, is_pawn_standing, GameState
<1>7. /\ new.status = verify_game_state_after_move(old.status, old.pawn_row \ s)
      /\ new.pawn_row = old.pawn_row \ s /\ ~new.torn
      /\ new.player_a_id = old.player_a_id /\ new.player_b_id = old.player_b_id
    BY <1>1, <1>2, <1>4 DEF Moved, GameState
<1>8. table[g].phase = "turn" /\ table[g].row = old.pawn_row
    BY <1>1, <1>4, <1>5 DEF TableOf, Phase, Turns, WAITING_FOR_OPPONENT, TURN_A, TURN_B
<1>. DEFINE last == old.pawn_row = s
            side == IF last THEN Side(old) ELSE Rules!Other(Side(old))
<1>9. Phase(new) = (IF last THEN "won" ELSE "turn") /\ Side(new) = side
    BY <1>5, <1>6, <1>7
    DEF verify_game_state_after_move, Phase, Side, Turns, Rules!Other,
        WAITING_FOR_OPPONENT, TURN_A, TURN_B, WIN_A, WIN_B
<1>10. table[g].side = Side(old) /\ table[g].a = old.player_a_id /\ table[g].b = old.player_b_id
    BY <1>1 DEF TableOf
<1>11. TableOf(new) =
          [phase |-> IF last THEN "won" ELSE "turn",
           side |-> IF last THEN table[g].side ELSE Rules!Other(table[g].side),
           a |-> table[g].a, b |-> table[g].b, row |-> table[g].row \ s]
    BY <1>7, <1>8, <1>9, <1>10 DEF TableOf
<1>. QED
    BY <1>2, <1>3, <1>8, <1>11 DEF Rules!Take

LEMMA ForfeitingForfeits ==
    ASSUME TypeOK, NEW g \in DOMAIN active_games, g \in GameIds,
           Forfeiting(active_games[g], active_games'[g]),
           table' = [table EXCEPT ![g] = TableOf(active_games'[g])]
    PROVE  Rules!Forfeit(g)
<1>. DEFINE old == active_games[g]
            new == active_games'[g]
            p == datagram.player_id
            loser == IF old.player_a_id = p THEN "A" ELSE "B"
<1>1. old \in GameState /\ table[g] = TableOf(old)
    BY DEF TypeOK, table
<1>2. /\ \/ old.player_a_id = p /\ old.status = TURN_A
         \/ old.player_b_id = p /\ old.status = TURN_B
      /\ new = Forfeited(old, p)
    BY DEF Forfeiting, IsValidTurn
<1>3. /\ new.status = IF old.player_a_id = p THEN WIN_B ELSE WIN_A
      /\ new.pawn_row = old.pawn_row /\ new.torn = old.torn
      /\ new.player_a_id = old.player_a_id /\ new.player_b_id = old.player_b_id
    BY <1>1, <1>2 DEF Forfeited, GameState
<1>4. table[g].phase = "turn"
    BY <1>1, <1>2 DEF TableOf, Phase, Turns, WAITING_FOR_OPPONENT, TURN_A, TURN_B
<1>5. Rules!Holder(g, loser) = Rules!Holder(g, table[g].side)
    BY <1>1, <1>2 DEF Rules!Holder, TableOf, Side, TURN_A, TURN_B, WIN_A
<1>6. Phase(new) = "won" /\ Side(new) = Rules!Other(loser)
    BY <1>3 DEF Phase, Side, Turns, Rules!Other,
                WAITING_FOR_OPPONENT, TURN_A, TURN_B, WIN_A, WIN_B
<1>7. TableOf(new) = [phase |-> "won", side |-> Rules!Other(loser),
                      a |-> table[g].a, b |-> table[g].b, row |-> table[g].row]
    BY <1>1, <1>3, <1>6 DEF TableOf
<1>8. loser \in {"A", "B"}
    OBVIOUS
<1>. QED
    BY <1>4, <1>5, <1>7, <1>8 DEF Rules!Forfeit
-----------------------------------------------------------------------------
\* The server hangs on a full row only.
LEMMA NeverHanging ==
    ASSUME MaxPawn < IdxRange - 1, NEW old \in GameState, NEW new, Hanging(old, new)
    PROVE  FALSE
<1>1. PICK pawns : ~any_pawn_left_returns(RowAfter(old.pawn_row, pawns))
    BY DEF Hanging
<1>2. RowAfter(old.pawn_row, pawns) \in SUBSET Pawns
    BY DEF RowAfter, GameState
<1>. QED
    BY <1>1, <1>2, LoopEnds, GameLogicAssumption

LEMMA StepImplements ==
    ASSUME MaxPawn < IdxRange - 1, TypeOK, TypeOK', RulesInv, [Next]_vars
    PROVE  Rules!RNext \/ table' = table
<1>1. CASE ~Handle
    BY <1>1, OthersAbandon
<1>2. CASE active_games' = active_games
    BY <1>2 DEF table
<1>3. ASSUME pc = "dispatch", NEW g \in DOMAIN active_games',
             DOMAIN active_games' = DOMAIN active_games \cup {g},
             \A h \in DOMAIN active_games' \ {g} : active_games'[h] = active_games[h],
             ActsIn(g) \/ Creates(g)
      PROVE  Rules!RNext \/ table' = table
    <2>1. g \in GameIds /\ table' = [table EXCEPT ![g] = TableOf(active_games'[g])]
        BY <1>3, OneTable DEF TypeOK
    <2>2. datagram.player_id # 0 => datagram.player_id \in Senders
        BY <1>3 DEF RulesInv, Senders
    <2>3. CASE Creates(g)
        <3>1. Rules!Open(g, datagram.player_id) /\ datagram.player_id \in Senders
            BY <2>1, <2>2, <2>3, CreatingOpens DEF Creates
        <3>. QED
            BY <2>1, <3>1 DEF Rules!RNext
    <2>4. CASE ActsIn(g)
        <3>. DEFINE old == active_games[g]
                    new == active_games'[g]
        <3>1. g \in DOMAIN active_games /\ old \in GameState
            BY <2>4 DEF ActsIn, TypeOK
        <3>2. CASE Same(old, new)
            <4>1. TableOf(new) = table[g]
                BY <2>1, <3>1, <3>2, SameTable DEF table
            <4>. QED
                BY <2>1, <4>1 DEF table
        <3>3. CASE Seating(old, new)
            <4>1. Rules!Sit(g, datagram.player_id) /\ datagram.player_id \in Senders
                BY <2>1, <2>2, <3>1, <3>3, SeatingSits DEF Seating
            <4>. QED
                BY <2>1, <4>1 DEF Rules!RNext
        <3>4. CASE Playing(old, new)
            BY <2>1, <3>1, <3>4, PlayingTakes DEF Rules!RNext
        <3>5. CASE Forfeiting(old, new)
            BY <2>1, <3>1, <3>5, ForfeitingForfeits DEF Rules!RNext
        <3>6. CASE Hanging(old, new)
            BY <3>1, <3>6, NeverHanging
        <3>. QED
            BY <2>4, <3>2, <3>3, <3>4, <3>5, <3>6 DEF ActsIn
    <2>. QED
        BY <1>3, <2>3, <2>4
<1>. QED
    BY <1>1, <1>2, <1>3, StepOnGames

\* The server implements the rules of Kayles: whatever is sent, lost or out of
\* memory, each table sees a game of Kayles, on every row that does not use
\* the last value of the pawn index.
THEOREM ServerImplementsRules ==
    ASSUME MaxPawn < IdxRange - 1
    PROVE  Spec => ImplementsRules
<1>1. Init => Rules!RInit
    BY DEF Init, Rules!RInit, Rules!Closed, ClosedTable, table
<1>2. Init => RulesInv
    BY DEF Init, RulesInv, TornGamesAreBare
<1>3. TypeOK /\ RulesInv /\ [Next]_vars => RulesInv'
    BY RulesInvStep
<1>4. TypeOK /\ TypeOK' /\ RulesInv /\ [Next]_vars => [Rules!RNext]_table
    BY StepImplements
<1>. QED
    BY <1>1, <1>2, <1>3, <1>4, TypeCorrect, PTL DEF Spec, ImplementsRules, Rules!RSpec
-----------------------------------------------------------------------------
(* Where the claims of KaylesServerClaims hold. *)

\* On every row of at most 255 pawns MOVE_2 takes the pawn it names and the
\* next one, as message_handlers.h says: the full row is the only exception.
THEOREM MoveTwoTakesNeighboursBelow ==
    ASSUME MaxPawn < IdxRange - 1
    PROVE  Spec => MoveTwoTakesNeighbours
<1>. DEFINE Fallen(g) == active_games[g].pawn_row \ active_games'[g].pawn_row
            Neighbours(s) == s = {} \/ \E i \in Pawns : s = {i, i + 1}
            Claim == \A g \in DOMAIN active_games \cap DOMAIN active_games' :
                         pc = "dispatch" /\ datagram.type = 2 => Neighbours(Fallen(g))
<1>1. ASSUME TypeOK, [Next]_vars
      PROVE  Claim
    <2>. SUFFICES ASSUME NEW g \in DOMAIN active_games \cap DOMAIN active_games',
                         pc = "dispatch", datagram.type = 2
                  PROVE  Neighbours(Fallen(g))
        OBVIOUS
    <2>1. active_games'[g].pawn_row = active_games[g].pawn_row => Neighbours(Fallen(g))
        OBVIOUS
    <2>2. CASE ~Handle
        BY <1>1, <2>1, <2>2, OtherStepsOnGames DEF Same
    <2>3. CASE Handle
        <3>. DEFINE i == datagram.pawn_idx
        <3>1. handle_make_move_two \/ (handle_unknown /\ UNCHANGED active_games)
            BY <2>3 DEF Handle, handle_join_game, handle_make_move_one, handle_keep_alive,
                        handle_give_up, handle_unknown, Handling
        <3>2. CASE UNCHANGED active_games
            BY <2>1, <3>2
        <3>3. ASSUME NEW game, active_games' = Put(datagram.game_id, game),
                     game.pawn_row = TheGame.pawn_row
              PROVE  Neighbours(Fallen(g))
            BY <2>1, <3>3 DEF Put, TheGame
        <3>4. ASSUME NEW game, active_games' = Put(datagram.game_id, game), FindsGame,
                     IsLegal(TheGame, TwoPawns(i)),
                     game.pawn_row = RowAfter(TheGame.pawn_row, TwoPawns(i))
              PROVE  Neighbours(Fallen(g))
            <4>1. CASE g = datagram.game_id
                <5>1. Fallen(g) = TwoPawns(i)
                    BY <3>4, <4>1 DEF Put, TheGame, RowAfter, TwoPawns, IsLegal,
                                      is_legal_move, is_pawn_standing
                <5>2. i \in Pawns /\ TwoPawns(i) = {i, i + 1}
                    <6>1. i \in PawnIdx /\ i <= MaxPawn
                        BY <1>1, <3>4 DEF TypeOK, Datagram, IsLegal, TwoPawns, is_legal_move
                    <6>2. i \in 0 .. MaxPawn /\ i + 1 \in 0 .. IdxRange - 1
                        BY <6>1, GameLogicAssumption DEF PawnIdx
                    <6>3. (i + 1) % IdxRange = i + 1
                        BY <6>2, GameLogicAssumption
                    <6>. QED
                        BY <6>2, <6>3 DEF Pawns, TwoPawns
                <5>. QED
                    BY <5>1, <5>2
            <4>2. CASE g # datagram.game_id
                BY <2>1, <3>4, <4>2 DEF Put
            <4>. QED
                BY <4>1, <4>2
        <3>5. CASE handle_make_move_two /\ Reject(MOVE_SIZE)
            BY <3>2, <3>5 DEF Reject
        <3>6. CASE Accepted(MOVE_SIZE) /\ MakeMove(i, TwoPawns(i))
            <4>1. FindsGame /\ TheGame \in GameState
                BY <1>1, <3>6 DEF Accepted, FindsGame, TheGame, TypeOK
            <4>2. \A row : /\ Moved(TheGame, row).pawn_row = row
                           /\ [TheGame EXCEPT !.pawn_row = row].pawn_row = row
                BY <4>1 DEF Moved, GameState
            <4>. HIDE DEF Neighbours, Fallen
            <4>. QED
                BY <3>2, <3>3, <3>4, <3>6, <4>1, <4>2 DEF MakeMove, StoreAndReply
        <3>. QED
            BY <3>1, <3>2, <3>5, <3>6 DEF handle_make_move_two
    <2>. QED
        BY <2>2, <2>3
<1>2. TypeOK /\ [Next]_vars => [Claim]_vars
    BY <1>1
<1>. QED
    BY <1>2, TypeCorrect, PTL DEF Spec, MoveTwoTakesNeighbours


\* A JOIN that gets no answer leaves nothing behind, as message_handlers.h says
\* of exhausted resources, as long as memory is not the one that is exhausted.
THEOREM IgnoredJoinsLeaveNothing ==
    ASSUME "alloc" \notin Faults
    PROVE  Spec => ExhaustedJoinIsIgnored
<1>. DEFINE Silent == pc = "dispatch" /\ pc' = "recvfrom" /\ replies' = <<>>
<1>1. ASSUME Next, Silent
      PROVE  active_games' = active_games
    <2>1. \A msgs : SendAndReturn(msgs) => msgs = <<>>
        BY <1>1, Sent
    <2>2. \A message : <<message>> # <<>>
        OBVIOUS
    <2>3. \A game : ~StoreAndReply(game)
        BY <2>1, <2>2 DEF StoreAndReply
    <2>4. \A first, pawns : ~MakeMove(first, pawns)
        BY <1>1, <2>3 DEF MakeMove, StopAt
    <2>5. \A size : Reject(size) => UNCHANGED active_games
        BY DEF Reject
    <2>6. Handle
        BY <1>1 DEF Next, Receive, RecvTimeout, RecvFails, Tick
    <2>7. CASE handle_join_game
        BY <2>1, <2>2, <2>7 DEF handle_join_game, JoinWaitingGame, OpenGame, RefuseGame
    <2>8. CASE handle_make_move_one \/ handle_make_move_two
        BY <2>4, <2>5, <2>8 DEF handle_make_move_one, handle_make_move_two
    <2>9. CASE handle_keep_alive \/ handle_give_up
        BY <2>3, <2>5, <2>9 DEF handle_keep_alive, handle_give_up
    <2>10. CASE handle_unknown
        BY <2>10 DEF handle_unknown
    <2>. QED
        BY <2>6, <2>7, <2>8, <2>9, <2>10 DEF Handle
<1>2. Next \/ UNCHANGED vars => (Silent => active_games' = active_games)
    BY <1>1 DEF vars
<1>. QED
    BY <1>2, PTL DEF Spec, ExhaustedJoinIsIgnored


\* Two answers are the most a request gets, and only one with a player id gets
\* them whose game is not there or not its player's: the lookup that is answered
\* by find_game_and_verify_players and by its caller.
TwoRepliesAreForStrangers ==
    [][pc = "dispatch" /\ Len(replies') > 1 =>
          Len(replies') = 2 /\ datagram.type # 0 /\ datagram.player_id # 0 /\ ~FindsGame]_vars

\* So a client that names a game of its own, or none, is sent one answer at
\* most, as kayles_client.cpp expects.
THEOREM OnlyStrangersGetTwoReplies == Spec => TwoRepliesAreForStrangers
<1>. DEFINE Claim ==
         pc = "dispatch" /\ Len(replies') > 1 =>
             Len(replies') = 2 /\ datagram.type # 0 /\ datagram.player_id # 0 /\ ~FindsGame
<1>1. ASSUME NothingSentYet, Next, pc = "dispatch"
      PROVE  Claim
    <2>1. Handle \/ Tick
        BY <1>1 DEF Next, Receive, RecvTimeout, RecvFails
    <2>2. replies' = replies => Claim
        BY <1>1 DEF NothingSentYet
    <2>3. \A where : StopAt(where) => Claim
        BY <2>2 DEF StopAt
    <2>4. ASSUME NEW M, NEW msgs \in Seq(M), SendAndReturn(msgs)
          PROVE  Len(replies') \in 0 .. Len(msgs)
        <3>1. Len(msgs) \in Nat
            BY <2>4
        <3>2. ASSUME NEW k \in 1 .. Len(msgs)
              PROVE  Len(SubSeq(msgs, 1, k - 1)) = k - 1
            BY <2>4, <3>1
        <3>. QED
            BY <2>4, <3>1, <3>2 DEF SendAndReturn
    <2>5. ASSUME NEW message, SendAndReturn(<<message>>)
          PROVE  Claim
        <3>1. <<message>> \in Seq({message}) /\ Len(<<message>>) = 1
            OBVIOUS
        <3>2. Len(replies') \in 0 .. 1
            BY <2>4, <2>5, <3>1
        <3>3. \A n \in 0 .. 1 : ~(n > 1)
            OBVIOUS
        <3>. QED
            BY <3>2, <3>3
    <2>6. SendAndReturn(<<>>) => Claim
        <3>1. <<>> \in Seq({}) /\ Len(<<>>) = 0
            OBVIOUS
        <3>2. SendAndReturn(<<>>) => Len(replies') \in 0 .. 0
            BY <2>4, <3>1
        <3>. QED
            BY <3>2
    <2>7. ASSUME NEW size, datagram.type # 0, Reject(size)
          PROVE  Claim
        <3>. DEFINE Two(i, j) == <<WrongMessage(i), WrongMessage(j)>>
        <3>1. CASE WellFormed(size)
            <4>1. ~FindsGame /\ datagram.player_id # 0
                BY <2>7, <3>1 DEF Reject, Accepted, WellFormed, INVALID_PLAYER_ID
            <4>2. SendAndReturn(Two(LookupErrorIndex, ERROR_IDX_GAME))
                BY <2>7, <3>1 DEF Reject, Rejection
            <4>3. \A i, j : Two(i, j) \in Seq({WrongMessage(i), WrongMessage(j)}) /\ Len(Two(i, j)) = 2
                OBVIOUS
            <4>. HIDE DEF Two
            <4>4. Len(replies') \in 0 .. 2
                BY <2>4, <4>2, <4>3
            <4>. QED
                BY <2>7, <4>1, <4>4
        <3>2. CASE ~WellFormed(size)
            BY <2>5, <2>7, <3>2 DEF Reject, Rejection
        <3>. QED
            BY <3>1, <3>2
    <2>. HIDE DEF Claim
    <2>8. \A game : StoreAndReply(game) => Claim
        BY <2>5 DEF StoreAndReply
    <2>9. \A first, pawns : MakeMove(first, pawns) => Claim
        BY <2>3, <2>8 DEF MakeMove
    <2>10. CASE handle_join_game
        BY <2>5, <2>6, <2>10 DEF handle_join_game, JoinWaitingGame, OpenGame, RefuseGame
    <2>11. CASE handle_make_move_one \/ handle_make_move_two
        BY <2>7, <2>9, <2>11 DEF handle_make_move_one, handle_make_move_two, Handling
    <2>12. CASE handle_keep_alive \/ handle_give_up
        BY <2>7, <2>8, <2>12 DEF handle_keep_alive, handle_give_up, Handling
    <2>13. CASE handle_unknown
        BY <2>5, <2>13 DEF handle_unknown
    <2>14. CASE Tick
        BY <2>2, <2>14 DEF Tick
    <2>. QED
        BY <2>1, <2>10, <2>11, <2>12, <2>13, <2>14 DEF Handle
<1>2. ASSUME NothingSentYet, UNCHANGED vars
      PROVE  Claim
    BY <1>2 DEF vars, NothingSentYet
<1>3. Init => NothingSentYet
    BY DEF Init, NothingSentYet
<1>4. NothingSentYet /\ [Next]_vars => NothingSentYet' /\ [Claim]_vars
    BY <1>1, <1>2, NothingSentYetStep
<1>. QED
    BY <1>3, <1>4, PTL DEF Spec, TwoRepliesAreForStrangers
==============================================================================
