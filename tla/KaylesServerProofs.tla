-------------------------- MODULE KaylesServerProofs --------------------------
(***************************************************************************)
(* Safety of the server of KaylesServer, for every value of its constants. *)
(*                                                                         *)
(* EffectOnGames and OtherStepsOnGames say what a step can do to one game; *)
(* each invariant then needs one case per kind of change.                  *)
(***************************************************************************)
EXTENDS KaylesServerTypeProofs, FiniteSetTheorems

\* The two records differ in the time of their last activity at most.
Same(old, new) ==
    /\ new.player_a_id = old.player_a_id /\ new.player_b_id = old.player_b_id
    /\ new.status = old.status /\ new.pawn_row = old.pawn_row /\ new.torn = old.torn

Seating(old, new) ==
    /\ datagram.type = 0 /\ datagram.player_id # 0
    /\ IsWaiting(old) /\ new = Seated(old, datagram.player_id)

Playing(old, new) ==
    /\ datagram.type \in {1, 2}
    /\ IsValidTurn(old, datagram.player_id)
    /\ \E pawns \in TwoMoves :
          /\ IsLegal(old, pawns)
          /\ new = Moved(old, RowAfter(old.pawn_row, pawns))

Forfeiting(old, new) ==
    /\ datagram.type = 4
    /\ IsValidTurn(old, datagram.player_id)
    /\ new = Forfeited(old, datagram.player_id)

Hanging(old, new) ==
    /\ datagram.type \in {1, 2}
    /\ IsValidTurn(old, datagram.player_id)
    /\ pc' = "hung" /\ UNCHANGED datagram
    /\ \E pawns \in TwoMoves :
          /\ IsLegal(old, pawns)
          /\ ~any_pawn_left_returns(RowAfter(old.pawn_row, pawns))
          /\ new = [old EXCEPT !.pawn_row = RowAfter(old.pawn_row, pawns)]

\* A request acts in game g, which is in the map before and after it.
ActsIn(g) ==
    /\ g \in DOMAIN active_games
    /\ LET old == active_games[g]
           new == active_games'[g]
       IN  \/ pc' # "hung" /\ Seating(old, new)
           \/ /\ g = datagram.game_id /\ datagram.type # 0 /\ datagram.player_id # 0
              /\ \/ pc' # "hung" /\ (Same(old, new) \/ Playing(old, new) \/ Forfeiting(old, new))
                 \/ Hanging(old, new)

\* A JOIN puts game g into the map.
Creates(g) ==
    /\ g \notin DOMAIN active_games
    /\ WaitingGames = {} /\ datagram.player_id # 0 /\ pc' # "hung"
    /\ active_games'[g] \in {NewGame(datagram.player_id), TornGame(datagram.player_id)}

LEMMA EffectOnGames ==
    ASSUME TypeOK, Effect
    PROVE  \/ active_games' = active_games /\ pc' # "hung"
           \/ \E g \in DOMAIN active_games' :
                 /\ DOMAIN active_games' = DOMAIN active_games \cup {g}
                 /\ \A h \in DOMAIN active_games' \ {g} : active_games'[h] = active_games[h]
                 /\ ActsIn(g) \/ Creates(g)
<1>. DEFINE Changes(g) ==
               /\ g \in DOMAIN active_games'
               /\ DOMAIN active_games' = DOMAIN active_games \cup {g}
               /\ \A h \in DOMAIN active_games' \ {g} : active_games'[h] = active_games[h]
           Goal == \/ active_games' = active_games /\ pc' # "hung"
                   \/ \E g \in DOMAIN active_games' : Changes(g) /\ (ActsIn(g) \/ Creates(g))
<1>. SUFFICES Goal
    OBVIOUS
<1>1. ASSUME NEW g, NEW game, active_games' = Put(g, game)
      PROVE  Changes(g) /\ active_games'[g] = game
    BY <1>1 DEF Put
<1>2. FindsGame => datagram.game_id \in DOMAIN active_games
    BY DEF FindsGame
<1>. HIDE DEF Changes
<1>3. ASSUME NEW g, Changes(g), ActsIn(g) \/ Creates(g)
      PROVE  Goal
    BY <1>3 DEF Changes
<1>4. CASE Refuses
    BY <1>4 DEF Refuses
<1>5. CASE Seats
    BY <1>1, <1>3, <1>5 DEF Seats, WaitingGames, ActsIn, Seating
<1>6. CASE Opens
    <2>1. PICK g \in NextFreeId, game \in {NewGame(datagram.player_id), TornGame(datagram.player_id)} :
             active_games' \in {active_games, Put(g, game)}
        BY <1>6 DEF Opens
    <2>2. g \notin DOMAIN active_games
        BY NextFreeIdTyped
    <2>. QED
        BY <1>1, <1>3, <1>6, <2>1, <2>2 DEF Opens, Creates
<1>7. ASSUME NEW pawns \in TwoMoves, MovesOn(pawns)
      PROVE  Goal
    BY <1>1, <1>2, <1>3, <1>7 DEF MovesOn, Moves, Named, TheGame, ActsIn, Playing
<1>8. ASSUME NEW pawns \in TwoMoves, Hangs(pawns)
      PROVE  Goal
    BY <1>1, <1>2, <1>3, <1>8 DEF Hangs, Moves, Named, TheGame, ActsIn, Hanging
<1>9. CASE Looks
    <2>1. /\ FindsGame /\ pc' # "hung"
          /\ datagram.type # 0 /\ datagram.player_id # 0
        BY <1>9 DEF Looks, Named
    <2>2. TheGame \in GameState
        BY <1>2, <2>1 DEF TheGame, TypeOK
    <2>3. Same(TheGame, TheGame) /\ Same(TheGame, Touched(TheGame))
        BY <2>2 DEF Same, Touched, GameState
    <2>. QED
        BY <1>1, <1>2, <1>3, <1>9, <2>1, <2>3 DEF Looks, TheGame, ActsIn
<1>10. CASE GivesUp
    BY <1>1, <1>2, <1>3, <1>10 DEF GivesUp, Named, TheGame, ActsIn, Forfeiting
<1>. QED
    BY <1>4, <1>5, <1>6, <1>7, <1>8, <1>9, <1>10 DEF Effect

\* The other steps remove games or let them age, and never start to hang.
LEMMA OtherStepsOnGames ==
    ASSUME TypeOK, [Next]_vars, ~Handle
    PROVE  /\ \A g \in DOMAIN active_games' :
                 g \in DOMAIN active_games /\ Same(active_games[g], active_games'[g])
           /\ pc' = "hung" =>
                 /\ pc = "hung" /\ UNCHANGED datagram
                 /\ DOMAIN active_games' = DOMAIN active_games
           /\ pc = "hung" => pc' = "hung"
<1>1. \A g \in DOMAIN active_games : active_games[g] \in GameState
    BY DEF TypeOK
<1>2. ASSUME active_games' = Unexpired
      PROVE  \A g \in DOMAIN active_games' :
                g \in DOMAIN active_games /\ Same(active_games[g], active_games'[g])
    BY <1>2, UnexpiredTyped DEF Same
<1>3. ASSUME NEW m \in Datagrams, Receive(m)
      PROVE  active_games' = Unexpired /\ pc = "recvfrom" /\ pc' = "dispatch"
    BY <1>3 DEF Receive
<1>4. CASE RecvTimeout
    BY <1>2, <1>4 DEF RecvTimeout
<1>5. CASE RecvFails
    BY <1>5 DEF RecvFails, Same
<1>6. CASE Tick
    <2>1. \A g \in DOMAIN active_games :
             Same(active_games[g], [active_games[g] EXCEPT !.idle = Older(active_games[g].idle)])
        BY <1>1 DEF Same, GameState
    <2>. QED
        BY <1>6, <2>1, TickTyped DEF Tick
<1>7. CASE UNCHANGED vars
    BY <1>7 DEF vars, Same
<1>. QED
    BY <1>2, <1>3, <1>4, <1>5, <1>6, <1>7 DEF Next

\* A step of any kind.
LEMMA StepOnGames ==
    ASSUME TypeOK, [Next]_vars
    PROVE  \/ ~Handle
           \/ /\ pc = "dispatch"
              /\ \/ active_games' = active_games /\ pc' # "hung"
                 \/ \E g \in DOMAIN active_games' :
                       /\ DOMAIN active_games' = DOMAIN active_games \cup {g}
                       /\ \A h \in DOMAIN active_games' \ {g} : active_games'[h] = active_games[h]
                       /\ ActsIn(g) \/ Creates(g)
BY HandleEffect, EffectOnGames

-----------------------------------------------------------------------------
(* One waiting game at most. *)

LEMMA AtMostOneWaitingStep ==
    ASSUME TypeOK, AtMostOneWaiting, [Next]_vars
    PROVE  AtMostOneWaiting'
<1>1. CASE ~Handle
    BY <1>1, OtherStepsOnGames DEF AtMostOneWaiting, Same
<1>2. CASE active_games' = active_games
    BY <1>2 DEF AtMostOneWaiting
<1>3. ASSUME NEW g \in DOMAIN active_games',
             \A h \in DOMAIN active_games' \ {g} :
                 h \in DOMAIN active_games /\ active_games'[h] = active_games[h],
             ActsIn(g)
      PROVE  AtMostOneWaiting'
    <2>1. /\ g \in DOMAIN active_games
          /\ active_games'[g].status = WAITING_FOR_OPPONENT
                => active_games[g].status = WAITING_FOR_OPPONENT
        <3>1. active_games[g] \in GameState
            BY <1>3 DEF TypeOK, ActsIn
        <3>2. \A row : Moved(active_games[g], row).status # WAITING_FOR_OPPONENT
            BY <3>1 DEF Moved, GameState, verify_game_state_after_move,
                        WAITING_FOR_OPPONENT, TURN_A, TURN_B, WIN_A, WIN_B
        <3>3. Forfeited(active_games[g], datagram.player_id).status # WAITING_FOR_OPPONENT
            BY <3>1 DEF Forfeited, GameState, WAITING_FOR_OPPONENT, WIN_A, WIN_B
        <3>4. \A row : [active_games[g] EXCEPT !.pawn_row = row].status = active_games[g].status
            BY <3>1 DEF GameState
        <3>. QED
            BY <1>3, <3>2, <3>3, <3>4
            DEF ActsIn, Same, Seating, IsWaiting, Playing, Forfeiting, Hanging
    <2>. QED
        BY <1>3, <2>1 DEF AtMostOneWaiting
<1>4. ASSUME NEW g \in DOMAIN active_games',
             \A h \in DOMAIN active_games' \ {g} :
                 h \in DOMAIN active_games /\ active_games'[h] = active_games[h],
             Creates(g)
      PROVE  AtMostOneWaiting'
    BY <1>4 DEF AtMostOneWaiting, Creates, WaitingGames, IsWaiting
<1>. QED
    BY <1>1, <1>2, <1>3, <1>4, StepOnGames

\* Never do two games wait for an opponent, so the iteration order of the
\* unordered_map does not matter to handle_join_game: for any number of ids,
\* players, faults and timeouts.
THEOREM OneWaitingGame == Spec => []AtMostOneWaiting
<1>1. Init => AtMostOneWaiting
    BY DEF Init, AtMostOneWaiting
<1>2. TypeOK /\ TypeOK' /\ AtMostOneWaiting /\ [Next]_vars => AtMostOneWaiting'
    BY AtMostOneWaitingStep
<1>. QED
    BY <1>1, <1>2, TypeCorrect, PTL DEF Spec

-----------------------------------------------------------------------------
(* What holds of every game by itself. *)

SeatsOf(game) ==
    /\ game.player_a_id # 0
    /\ game.player_b_id = 0 <=> game.status = WAITING_FOR_OPPONENT

BoardOf(game) ==
    ~game.torn =>
        /\ game.pawn_row = {} => game.status \in Wins
        /\ game.status = WAITING_FOR_OPPONENT => game.pawn_row = InitialRow

\* Whoever is on turn sits in a seat of a game that has both.
LEMMA OnTurn ==
    ASSUME NEW game \in GameState, SeatsOf(game), NEW p, IsValidTurn(game, p)
    PROVE  game.status \in Turns /\ game.player_b_id # 0
BY DEF IsValidTurn, SeatsOf, Turns, WAITING_FOR_OPPONENT, TURN_A, TURN_B

\* Knocking a pawn over decides the status by the pawns that are left.
LEMMA MovedFields ==
    ASSUME NEW game \in GameState, NEW row \in SUBSET Pawns, game.status \in Turns
    PROVE  /\ Moved(game, row).player_a_id = game.player_a_id
           /\ Moved(game, row).player_b_id = game.player_b_id
           /\ Moved(game, row).torn = game.torn
           /\ Moved(game, row).pawn_row = row
           /\ Moved(game, row).status \in IF row = {} THEN Wins ELSE Turns
<1>1. any_pawn_left(row) <=> row # {}
    BY DEF any_pawn_left, is_pawn_standing
<1>2. verify_game_state_after_move(game.status, row) \in IF row = {} THEN Wins ELSE Turns
    BY <1>1 DEF verify_game_state_after_move, Wins, Turns
<1>. QED
    BY <1>2 DEF Moved, GameState

LEMMA SeatsPreserved ==
    ASSUME TypeOK, NEW g \in DOMAIN active_games', SeatsOf(active_games[g]), ActsIn(g)
    PROVE  SeatsOf(active_games'[g])
<1>. DEFINE old == active_games[g]
           new == active_games'[g]
<1>1. old \in GameState
    BY DEF ActsIn, TypeOK
<1>2. CASE Seating(old, new)
    BY <1>1, <1>2 DEF Seating, Seated, SeatsOf, GameState, WAITING_FOR_OPPONENT, TURN_B
<1>3. CASE Same(old, new)
    BY <1>3 DEF Same, SeatsOf
<1>4. CASE Playing(old, new)
    <2>1. PICK pawns : new = Moved(old, RowAfter(old.pawn_row, pawns))
        BY <1>4 DEF Playing
    <2>2. RowAfter(old.pawn_row, pawns) \in SUBSET Pawns
        BY <1>1 DEF RowAfter, GameState
    <2>3. old.status \in Turns /\ old.player_b_id # 0
        BY <1>1, <1>4, OnTurn DEF Playing
    <2>. QED
        BY <1>1, <2>1, <2>2, <2>3, MovedFields
        DEF SeatsOf, Wins, Turns, WAITING_FOR_OPPONENT, TURN_A, TURN_B, WIN_A, WIN_B
<1>5. CASE Forfeiting(old, new)
    <2>1. old.player_b_id # 0
        BY <1>1, <1>5, OnTurn DEF Forfeiting
    <2>. QED
        BY <1>1, <1>5, <2>1
        DEF Forfeiting, Forfeited, SeatsOf, GameState, WAITING_FOR_OPPONENT, WIN_A, WIN_B
<1>6. CASE Hanging(old, new)
    BY <1>1, <1>6 DEF Hanging, SeatsOf, GameState
<1>. QED
    BY <1>2, <1>3, <1>4, <1>5, <1>6 DEF ActsIn

LEMMA CreatedGame ==
    ASSUME NEW p, p # 0, NEW game \in {NewGame(p), TornGame(p)}
    PROVE  SeatsOf(game) /\ BoardOf(game)
<1>1. InitialRow # {}
    BY GameLogicAssumption
<1>2. SeatsOf(NewGame(p)) /\ BoardOf(NewGame(p))
    BY <1>1 DEF NewGame, SeatsOf, BoardOf, WAITING_FOR_OPPONENT
<1>3. SeatsOf(TornGame(p)) /\ BoardOf(TornGame(p))
    BY DEF TornGame, NewGame, SeatsOf, BoardOf, WAITING_FOR_OPPONENT
<1>. QED
    BY <1>2, <1>3

LEMMA SeatsMatchStatusStep ==
    ASSUME TypeOK, SeatsMatchStatus, [Next]_vars
    PROVE  SeatsMatchStatus'
<1>. SUFFICES ASSUME NEW g \in DOMAIN active_games'
             PROVE  SeatsOf(active_games'[g])
    BY DEF SeatsMatchStatus, SeatsOf
<1>1. \A h \in DOMAIN active_games : SeatsOf(active_games[h])
    BY DEF SeatsMatchStatus, SeatsOf
<1>2. CASE ~Handle
    BY <1>1, <1>2, OtherStepsOnGames DEF SeatsOf, Same
<1>3. CASE g \in DOMAIN active_games /\ active_games'[g] = active_games[g]
    BY <1>1, <1>3
<1>4. CASE ActsIn(g)
    BY <1>1, <1>4, SeatsPreserved DEF ActsIn
<1>5. CASE Creates(g)
    BY <1>5, CreatedGame DEF Creates
<1>. QED
    BY <1>2, <1>3, <1>4, <1>5, StepOnGames

\* The sentinel 0 of an empty seat B never meets a played game, nor a player
\* id of 0 a waiting one.
THEOREM SeatsAlwaysMatchStatus == Spec => []SeatsMatchStatus
<1>1. Init => SeatsMatchStatus
    BY DEF Init, SeatsMatchStatus
<1>2. TypeOK /\ SeatsMatchStatus /\ [Next]_vars => SeatsMatchStatus'
    BY SeatsMatchStatusStep
<1>. QED
    BY <1>1, <1>2, TypeCorrect, PTL DEF Spec

-----------------------------------------------------------------------------
(* The board. *)

LEMMA BoardPreserved ==
    ASSUME TypeOK, NEW g \in DOMAIN active_games', BoardOf(active_games[g]), ActsIn(g),
           pc' # "hung"
    PROVE  BoardOf(active_games'[g])
<1>. DEFINE old == active_games[g]
           new == active_games'[g]
<1>1. old \in GameState
    BY DEF ActsIn, TypeOK
<1>2. InitialRow # {}
    BY GameLogicAssumption
<1>3. CASE Seating(old, new)
    BY <1>1, <1>2, <1>3 DEF Seating, IsWaiting, Seated, BoardOf, GameState,
                            WAITING_FOR_OPPONENT, TURN_B
<1>4. CASE Same(old, new)
    BY <1>4 DEF Same, BoardOf
<1>5. CASE Playing(old, new)
    <2>1. PICK pawns : new = Moved(old, RowAfter(old.pawn_row, pawns))
        BY <1>5 DEF Playing
    <2>2. RowAfter(old.pawn_row, pawns) \in SUBSET Pawns
        BY <1>1 DEF RowAfter, GameState
    <2>3. old.status \in Turns
        BY <1>5 DEF Playing, IsValidTurn, Turns
    <2>. QED
        BY <1>1, <2>1, <2>2, <2>3, MovedFields
        DEF BoardOf, Wins, Turns, WAITING_FOR_OPPONENT, TURN_A, TURN_B, WIN_A, WIN_B
<1>6. CASE Forfeiting(old, new)
    BY <1>1, <1>6 DEF Forfeiting, Forfeited, BoardOf, GameState, Wins,
                      WAITING_FOR_OPPONENT, WIN_A, WIN_B
<1>. QED
    BY <1>3, <1>4, <1>5, <1>6 DEF ActsIn, Hanging

LEMMA EmptyBoardIsWonStep ==
    ASSUME TypeOK, EmptyBoardIsWon, [Next]_vars
    PROVE  EmptyBoardIsWon'
<1>. SUFFICES ASSUME pc' # "hung", NEW g \in DOMAIN active_games'
             PROVE  BoardOf(active_games'[g])
    BY DEF EmptyBoardIsWon, BoardOf
<1>1. pc # "hung"
    BY StepOnGames, OtherStepsOnGames
<1>2. \A h \in DOMAIN active_games : BoardOf(active_games[h])
    BY <1>1 DEF EmptyBoardIsWon, BoardOf
<1>3. CASE ~Handle
    BY <1>2, <1>3, OtherStepsOnGames DEF BoardOf, Same
<1>4. CASE g \in DOMAIN active_games /\ active_games'[g] = active_games[g]
    BY <1>2, <1>4
<1>5. CASE ActsIn(g)
    BY <1>2, <1>5, BoardPreserved DEF ActsIn
<1>6. CASE Creates(g)
    BY <1>6, CreatedGame DEF Creates
<1>. QED
    BY <1>3, <1>4, <1>5, <1>6, StepOnGames

\* On a server that has not hung nobody is asked to move on an empty board, and
\* a game that waits is untouched, for any row the option -r accepts.
THEOREM EmptyBoardIsAlwaysWon == Spec => []EmptyBoardIsWon
<1>1. Init => EmptyBoardIsWon
    BY DEF Init, EmptyBoardIsWon
<1>2. TypeOK /\ EmptyBoardIsWon /\ [Next]_vars => EmptyBoardIsWon'
    BY EmptyBoardIsWonStep
<1>. QED
    BY <1>1, <1>2, TypeCorrect, PTL DEF Spec

\* The uint8_t loop has a value to stop at unless max_pawn is the last one.
LEMMA LoopEnds ==
    ASSUME NEW row \in SUBSET Pawns, ~any_pawn_left_returns(row)
    PROVE  row = {} /\ MaxPawn = IdxRange - 1
<1>1. row = {}
    BY DEF any_pawn_left_returns, any_pawn_left, is_pawn_standing
<1>2. ~(IdxRange - 1 > MaxPawn)
    BY GameLogicAssumption DEF any_pawn_left_returns, PawnIdx
<1>. QED
    BY <1>1, <1>2, GameLogicAssumption

-----------------------------------------------------------------------------
(* What a step may never do. *)

\* Nobody acts for somebody else, nor in two games at once.
THEOREM OnlyTheMoverEverActs == Spec => OnlyTheMoverActs
<1>. DEFINE Allowed(g) ==
        Public(active_games'[g]) # Public(active_games[g]) =>
             /\ pc = "dispatch"
             /\ \/ /\ datagram.type = 0
                   /\ active_games[g].status = WAITING_FOR_OPPONENT
                   /\ active_games'[g].player_b_id = datagram.player_id
                \/ /\ datagram.game_id = g
                   /\ datagram.player_id = Mover(active_games[g])
             /\ \A h \in DOMAIN active_games \ {g} :
                   h \in DOMAIN active_games' /\ active_games'[h] = active_games[h]
<1>1. ASSUME NEW old \in GameState, NEW new \in GameState, Same(old, new)
      PROVE  Public(old) = Public(new)
    BY <1>1 DEF Same, Public, GameState
<1>2. ASSUME NEW game \in GameState, NEW p, IsValidTurn(game, p)
      PROVE  p = Mover(game)
    BY <1>2 DEF IsValidTurn, Mover, TURN_A, TURN_B
<1>3. ASSUME TypeOK, TypeOK', [Next]_vars, NEW g \in DOMAIN active_games \cap DOMAIN active_games'
      PROVE  Allowed(g)
    <2>1. active_games[g] \in GameState /\ active_games'[g] \in GameState
        BY <1>3 DEF TypeOK
    <2>2. CASE ~Handle
        BY <1>1, <1>3, <2>1, <2>2, OtherStepsOnGames
    <2>3. CASE active_games'[g] = active_games[g]
        BY <2>3
    <2>4. CASE /\ pc = "dispatch" /\ ActsIn(g)
               /\ DOMAIN active_games' = DOMAIN active_games \cup {g}
               /\ \A h \in DOMAIN active_games' \ {g} : active_games'[h] = active_games[h]
        <3>1. CASE Seating(active_games[g], active_games'[g])
            BY <2>1, <2>4, <3>1 DEF Seating, IsWaiting, Seated, GameState
        <3>2. CASE Same(active_games[g], active_games'[g])
            BY <1>1, <2>1, <3>2
        <3>3. CASE g = datagram.game_id /\ IsValidTurn(active_games[g], datagram.player_id)
            BY <1>2, <2>1, <2>4, <3>3
        <3>. QED
            BY <2>4, <3>1, <3>2, <3>3 DEF ActsIn, Playing, Forfeiting, Hanging
    <2>. QED
        BY <1>3, <2>2, <2>3, <2>4, StepOnGames DEF Creates
<1>4. TypeOK /\ TypeOK' /\ [Next]_vars =>
          [\A g \in DOMAIN active_games \cap DOMAIN active_games' : Allowed(g)]_vars
    BY <1>3
<1>. QED
    BY <1>4, TypeCorrect, PTL DEF Spec, OnlyTheMoverActs

\* A session leaves the map for its silence only.
THEOREM NoLiveSessionIsEverDropped == Spec => NoLiveSessionIsDropped
<1>. DEFINE Kept(g) ==
        active_games[g].idle <= Timeout =>
             /\ g \in DOMAIN active_games'
             /\ active_games'[g].player_a_id = active_games[g].player_a_id
<1>1. ASSUME TypeOK, [Next]_vars, NEW g \in DOMAIN active_games
      PROVE  Kept(g)
    <2>1. active_games[g] \in GameState
        BY <1>1 DEF TypeOK
    <2>2. ASSUME active_games' = Unexpired
          PROVE  Kept(g)
        BY <1>1, <2>1, <2>2, UnexpiredTyped, ConstantsTyped DEF IsStale, GameState, Ages
    <2>3. CASE \E m \in Datagrams : Receive(m)
        BY <2>2, <2>3 DEF Receive
    <2>4. CASE RecvTimeout
        BY <2>2, <2>4 DEF RecvTimeout
    <2>5. CASE RecvFails \/ UNCHANGED vars
        BY <2>5 DEF RecvFails, vars
    <2>6. CASE Tick
        BY <1>1, <2>1, <2>6, TickTyped DEF GameState
    <2>7. CASE Handle
        <3>1. CASE active_games' = active_games
            BY <3>1
        <3>2. ASSUME NEW h \in DOMAIN active_games',
                     DOMAIN active_games' = DOMAIN active_games \cup {h},
                     \A k \in DOMAIN active_games' \ {h} : active_games'[k] = active_games[k],
                     ActsIn(h) \/ Creates(h)
              PROVE  Kept(g)
            <4>1. CASE g # h
                BY <3>2, <4>1
            <4>2. CASE g = h
                <5>1. \A row : /\ Moved(active_games[g], row).player_a_id = active_games[g].player_a_id
                               /\ [active_games[g] EXCEPT !.pawn_row = row].player_a_id
                                     = active_games[g].player_a_id
                    BY <2>1 DEF Moved, GameState
                <5>2. \A p : /\ Seated(active_games[g], p).player_a_id = active_games[g].player_a_id
                             /\ Forfeited(active_games[g], p).player_a_id = active_games[g].player_a_id
                    BY <2>1 DEF Seated, Forfeited, GameState
                <5>3. ActsIn(g)
                    BY <1>1, <3>2, <4>2 DEF Creates
                <5>4. active_games'[g].player_a_id = active_games[g].player_a_id
                    <6>1. CASE Same(active_games[g], active_games'[g])
                        BY <6>1 DEF Same
                    <6>2. CASE Seating(active_games[g], active_games'[g])
                        BY <5>2, <6>2 DEF Seating
                    <6>3. CASE Playing(active_games[g], active_games'[g])
                        BY <5>1, <6>3 DEF Playing
                    <6>4. CASE Forfeiting(active_games[g], active_games'[g])
                        BY <5>2, <6>4 DEF Forfeiting
                    <6>5. CASE Hanging(active_games[g], active_games'[g])
                        BY <5>1, <6>5 DEF Hanging
                    <6>. QED
                        BY <5>3, <6>1, <6>2, <6>3, <6>4, <6>5 DEF ActsIn
                <5>. QED
                    BY <3>2, <4>2, <5>4
            <4>. QED
                BY <4>1, <4>2
        <3>. QED
            BY <1>1, <2>7, <3>1, <3>2, StepOnGames
    <2>. QED
        BY <1>1, <2>3, <2>4, <2>5, <2>6, <2>7 DEF Next
<1>2. TypeOK /\ [Next]_vars => [\A g \in DOMAIN active_games : Kept(g)]_vars
    BY <1>1
<1>. QED
    BY <1>2, TypeCorrect, PTL DEF Spec, NoLiveSessionIsDropped

-----------------------------------------------------------------------------
(* The counter of game ids. *)

\* Below the capacity the counter stops before it has gone all the way round.
LEMMA NextFreeIsNotTheLast ==
    ASSUME TypeOK, ~AtCapacity, NEW g \in NextFreeId
    PROVE  g # IdBefore(next_game_id)
<1>1. PICK n \in 0 .. Cardinality(DOMAIN active_games) : g = IdAt(n)
    BY DEF NextFreeId
<1>2. n \in Nat /\ n < UINT32_MAX - 1
    BY <1>1, GamesAreFinite, ConstantsTyped DEF AtCapacity
<1>3. next_game_id \in 1 .. UINT32_MAX
    BY DEF TypeOK, GameIds
<1>. QED
    BY <1>1, <1>2, <1>3, ConstantsTyped DEF IdAt, IdBefore

\* So it does not stop where it started either.
LEMMA CounterMovesOn ==
    ASSUME TypeOK, ~AtCapacity, NEW g \in NextFreeId
    PROVE  IdAfter(g) # next_game_id
<1>1. g \in 1 .. UINT32_MAX /\ g # IdBefore(next_game_id)
    BY NextFreeIsNotTheLast, NextFreeIdTyped DEF GameIds
<1>. QED
    BY <1>1, ConstantsTyped DEF IdAfter, IdBefore, TypeOK, GameIds

\* For any number of ids: a game id is never given out twice in a row.
THEOREM NewIdIsNeverTheLastOne == Spec => NewIdIsNotTheLastOne
<1>. DEFINE Fresh == \A g \in DOMAIN active_games' \ DOMAIN active_games :
                        g # IdBefore(next_game_id)
<1>1. ASSUME TypeOK, [Next]_vars
      PROVE  Fresh
    <2>1. CASE ~Handle
        BY <1>1, <2>1, OtherStepsOnGames
    <2>2. CASE Opens
        <3>1. PICK i \in NextFreeId : \E game : active_games' \in {active_games, Put(i, game)}
            BY <2>2 DEF Opens
        <3>2. DOMAIN active_games' \subseteq DOMAIN active_games \cup {i}
            BY <3>1 DEF Put
        <3>. QED
            BY <1>1, <2>2, <3>2, NextFreeIsNotTheLast DEF Opens
    <2>3. ASSUME Effect, ~Opens
          PROVE  DOMAIN active_games' = DOMAIN active_games
        <3>1. ASSUME NEW g \in DOMAIN active_games, NEW game, active_games' = Put(g, game)
              PROVE  DOMAIN active_games' = DOMAIN active_games
            BY <3>1 DEF Put
        <3>2. CASE Seats
            BY <3>1, <3>2 DEF Seats, WaitingGames
        <3>. QED
            BY <2>3, <3>1, <3>2
            DEF Effect, Refuses, MovesOn, Hangs, Moves, Looks, GivesUp, Named, FindsGame
    <2>. QED
        BY <1>1, <2>1, <2>2, <2>3, HandleEffect
<1>2. TypeOK /\ [Next]_vars => [Fresh]_vars
    BY <1>1
<1>. QED
    BY <1>2, TypeCorrect, PTL DEF Spec, NewIdIsNotTheLastOne
==============================================================================
