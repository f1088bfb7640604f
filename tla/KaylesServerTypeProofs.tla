------------------------ MODULE KaylesServerTypeProofs ------------------------
(***************************************************************************)
(* Type correctness of the server of KaylesServer, for every value of its  *)
(* constants.                                                              *)
(***************************************************************************)
EXTENDS KaylesServerProperties, FiniteSetTheorems, TLAPS

-----------------------------------------------------------------------------
(* What the operators of the model return. *)

LEMMA ConstantsTyped ==
    /\ UINT32_MAX \in Nat /\ UINT32_MAX > 1
    /\ Timeout \in Nat /\ IdleCap \in Nat /\ IdleCap > Timeout
    /\ 0 \in Ages /\ NoDatagram \in Datagram /\ 0 \in Pawns /\ InitialRow \in SUBSET Pawns
<1>1. NoDatagram \in Datagram
    BY GameLogicAssumption DEF NoDatagram, Datagram, MsgTypes, PawnIdx
<1>. QED
    BY <1>1, ServerAssumption, GameLogicAssumption DEF Ages, Pawns

\* The games in use are no more than there are ids.
LEMMA GamesAreFinite ==
    ASSUME TypeOK
    PROVE  /\ Cardinality(DOMAIN active_games) \in Nat
           /\ Cardinality(DOMAIN active_games) <= UINT32_MAX
<1>1. IsFiniteSet(GameIds) /\ Cardinality(GameIds) = UINT32_MAX
    BY FS_Interval, ConstantsTyped DEF GameIds
<1>. QED
    BY <1>1, FS_Subset, FS_CardinalityType DEF TypeOK

LEMMA NextFreeIdTyped ==
    ASSUME TypeOK, NEW g \in NextFreeId
    PROVE  g \in GameIds /\ g \notin DOMAIN active_games
BY GamesAreFinite, ConstantsTyped DEF NextFreeId, IdAt, GameIds, TypeOK

\* Put adds or replaces one game and leaves the others alone.
LEMMA PutTyped ==
    ASSUME TypeOK, NEW g \in GameIds, NEW game \in GameState
    PROVE  /\ DOMAIN Put(g, game) = DOMAIN active_games \cup {g}
           /\ DOMAIN Put(g, game) \subseteq GameIds
           /\ Put(g, game) \in [DOMAIN Put(g, game) -> GameState]
           /\ Put(g, game)[g] = game
           /\ \A h \in DOMAIN active_games \ {g} : Put(g, game)[h] = active_games[h]
BY DEF Put, TypeOK

LEMMA UnexpiredTyped ==
    ASSUME TypeOK
    PROVE  /\ DOMAIN Unexpired \subseteq DOMAIN active_games
           /\ Unexpired \in [DOMAIN Unexpired -> GameState]
           /\ \A g \in DOMAIN Unexpired :
                 Unexpired[g] = active_games[g] /\ ~IsStale(active_games[g])
           /\ \A g \in DOMAIN active_games \ DOMAIN Unexpired : IsStale(active_games[g])
BY DEF Unexpired, Restrict, TypeOK

LEMMA StateMessageTyped ==
    ASSUME NEW g \in GameIds, NEW game \in GameState
    PROVE  StateMessage(g, game) \in Reply
BY DEF StateMessage, Reply, GameState

LEMMA RejectionTyped ==
    ASSUME NEW size \in Nat, datagram \in Datagram
    PROVE  /\ Rejection(size) \in Seq(Reply)
           /\ <<WrongMessage(FormatErrorIndex(size))>> \in Seq(Reply)
           /\ <<WrongMessage(ERROR_IDX_TYPE)>> \in Seq(Reply)
<1>1. \A index \in Nat : WrongMessage(index) \in Reply
    BY DEF WrongMessage, Reply
<1>2. /\ FormatErrorIndex(size) \in Nat /\ LookupErrorIndex \in Nat
      /\ ERROR_IDX_TYPE \in Nat /\ ERROR_IDX_GAME \in Nat
    BY DEF FormatErrorIndex, LookupErrorIndex, Datagram, OFF_PLAYER_ID, ERROR_IDX_TYPE,
           ERROR_IDX_PLAYER, ERROR_IDX_GAME
<1>. QED
    BY <1>1, <1>2 DEF Rejection

\* What a handler leaves behind when it ends.
LEMMA SendAndReturnTyped ==
    ASSUME NEW msgs \in Seq(Reply), SendAndReturn(msgs)
    PROVE  /\ pc' \in {"recvfrom", "exited"}
           /\ datagram' \in Datagram
           /\ replies' \in Seq(Reply)
           /\ waited' \in 0 .. Timeout
<1>1. ASSUME NEW k \in 1 .. Len(msgs)
      PROVE  SubSeq(msgs, 1, k - 1) \in Seq(Reply)
    OBVIOUS
<1>. QED
    BY <1>1, ConstantsTyped DEF SendAndReturn

LEMMA MovedTyped ==
    ASSUME NEW game \in GameState, NEW row \in SUBSET Pawns
    PROVE  Moved(game, row) \in GameState
<1>1. verify_game_state_after_move(game.status, row) \in Statuses
    BY DEF verify_game_state_after_move, Statuses, WAITING_FOR_OPPONENT, TURN_A, TURN_B,
           WIN_A, WIN_B
<1>. QED
    BY <1>1, ConstantsTyped DEF Moved, GameState

-----------------------------------------------------------------------------
(* What a handler can do to the games, whatever the datagram. *)

\* Nothing: a malformed or refused request.
Refuses == UNCHANGED <<active_games, next_game_id>> /\ pc' # "hung"

\* JOIN finds a waiting game, or opens one (the copy may fail half-way).
Seats ==
    /\ datagram.type = 0 /\ datagram.player_id # 0
    /\ \E g \in WaitingGames :
          active_games' = Put(g, Seated(active_games[g], datagram.player_id))
    /\ UNCHANGED next_game_id
    /\ pc' # "hung"

Opens ==
    /\ datagram.type = 0 /\ datagram.player_id # 0
    /\ WaitingGames = {} /\ ~AtCapacity
    /\ \E g \in NextFreeId :
          /\ next_game_id' = IdAfter(g)
          /\ \E game \in {NewGame(datagram.player_id), TornGame(datagram.player_id)} :
                active_games' \in {active_games, Put(g, game)}
          /\ "alloc" \notin Faults => active_games' = Put(g, NewGame(datagram.player_id))
    /\ pc' # "hung"

\* The other requests act in the game they name.
Named ==
    /\ datagram.type # 0 /\ datagram.player_id # 0
    /\ FindsGame
    /\ UNCHANGED next_game_id

Moves(pawns) ==
    /\ Named /\ datagram.type \in {1, 2}
    /\ IsValidTurn(TheGame, datagram.player_id)
    /\ IsLegal(TheGame, pawns)

MovesOn(pawns) ==
    /\ Moves(pawns) /\ pc' # "hung"
    /\ active_games' = Put(datagram.game_id, Moved(TheGame, RowAfter(TheGame.pawn_row, pawns)))

Hangs(pawns) ==
    /\ Moves(pawns) /\ pc' = "hung" /\ UNCHANGED datagram
    /\ ~any_pawn_left_returns(RowAfter(TheGame.pawn_row, pawns))
    /\ active_games' = Put(datagram.game_id,
                           [TheGame EXCEPT !.pawn_row = RowAfter(TheGame.pawn_row, pawns)])

Looks ==
    /\ Named /\ pc' # "hung"
    /\ active_games' \in {Put(datagram.game_id, TheGame),
                           Put(datagram.game_id, Touched(TheGame)), active_games}

GivesUp ==
    /\ Named /\ datagram.type = 4 /\ pc' # "hung"
    /\ IsValidTurn(TheGame, datagram.player_id)
    /\ active_games' = Put(datagram.game_id, Forfeited(TheGame, datagram.player_id))

TwoMoves == {OnePawn(datagram.pawn_idx), TwoPawns(datagram.pawn_idx)}

Effect ==
    \/ Refuses
    \/ Seats
    \/ Opens
    \/ \E pawns \in TwoMoves : MovesOn(pawns) \/ Hangs(pawns)
    \/ Looks
    \/ GivesUp

LEMMA MakeMoveEffect ==
    ASSUME NEW first, NEW pawns \in TwoMoves, Named, datagram.type \in {1, 2}, MakeMove(first, pawns)
    PROVE  Looks \/ MovesOn(pawns) \/ Hangs(pawns)
BY DEF MakeMove, Looks, Moves, MovesOn, Hangs, StoreAndReply, SendAndReturn, StopAt

LEMMA HandleEffect ==
    ASSUME Handle
    PROVE  Effect /\ pc = "dispatch" /\ UNCHANGED uptime
<1>1. pc = "dispatch" /\ UNCHANGED uptime
    BY DEF Handle, handle_join_game, handle_make_move_one, handle_make_move_two,
           handle_keep_alive, handle_give_up, handle_unknown, Handling
<1>. SUFFICES Effect
    BY <1>1
<1>2. CASE handle_join_game
    <2>1. CASE ~WellFormed(JOIN_SIZE)
        BY <1>2, <2>1 DEF handle_join_game, SendAndReturn, Effect, Refuses
    <2>2. CASE WellFormed(JOIN_SIZE)
        <3>1. datagram.type = 0 /\ datagram.player_id # 0
            BY <1>2, <2>2 DEF handle_join_game, Handling, WellFormed, INVALID_PLAYER_ID
        <3>2. CASE JoinWaitingGame(datagram.player_id)
            BY <3>1, <3>2 DEF JoinWaitingGame, SendAndReturn, Effect, Seats
        <3>3. CASE OpenGame(datagram.player_id)
            <4>1. PICK g \in NextFreeId :
                     /\ next_game_id' = IdAfter(g)
                     /\ \/ active_games' = Put(g, NewGame(datagram.player_id))
                        \/ /\ "alloc" \in Faults
                           /\ active_games' \in {active_games, Put(g, TornGame(datagram.player_id))}
                     /\ pc' # "hung"
                BY <3>3 DEF OpenGame, SendAndReturn
            <4>2. \E game \in {NewGame(datagram.player_id), TornGame(datagram.player_id)} :
                     active_games' \in {active_games, Put(g, game)}
                BY <4>1
            <4>. QED
                BY <3>1, <3>3, <4>1, <4>2 DEF OpenGame, Effect, Opens
        <3>4. CASE RefuseGame
            BY <3>4 DEF RefuseGame, SendAndReturn, Effect, Refuses
        <3>. QED
            BY <1>2, <2>2, <3>2, <3>3, <3>4 DEF handle_join_game
    <2>. QED
        BY <2>1, <2>2
<1>3. ASSUME NEW size, Reject(size), UNCHANGED next_game_id
      PROVE  Effect
    BY <1>3 DEF Reject, SendAndReturn, Effect, Refuses
<1>4. ASSUME NEW size, Accepted(size), UNCHANGED next_game_id, datagram.type # 0
      PROVE  Named
    BY <1>4 DEF Accepted, WellFormed, INVALID_PLAYER_ID, Named
<1>5. CASE handle_make_move_one
    BY <1>3, <1>4, <1>5, MakeMoveEffect
    DEF handle_make_move_one, Handling, Effect, TwoMoves
<1>6. CASE handle_make_move_two
    BY <1>3, <1>4, <1>6, MakeMoveEffect
    DEF handle_make_move_two, Handling, Effect, TwoMoves
<1>7. CASE handle_keep_alive
    BY <1>3, <1>4, <1>7
    DEF handle_keep_alive, Handling, StoreAndReply, SendAndReturn, Effect, Looks
<1>8. CASE handle_give_up
    BY <1>3, <1>4, <1>8
    DEF handle_give_up, Handling, StoreAndReply, SendAndReturn, Effect, Looks, GivesUp
<1>9. CASE handle_unknown
    BY <1>9 DEF handle_unknown, SendAndReturn, Effect, Refuses
<1>. QED
    BY <1>2, <1>5, <1>6, <1>7, <1>8, <1>9 DEF Handle

-----------------------------------------------------------------------------
(* Type correctness. *)

\* Every game a handler makes of a game is one again.
LEMMA GamesTyped ==
    ASSUME TypeOK
    PROVE  /\ \A p \in Nat : NewGame(p) \in GameState /\ TornGame(p) \in GameState
           /\ \A game \in GameState :
                 /\ Touched(game) \in GameState
                 /\ \A p \in Nat : Seated(game, p) \in GameState /\ Forfeited(game, p) \in GameState
                 /\ \A pawns : LET row == RowAfter(game.pawn_row, pawns) IN
                       /\ Moved(game, row) \in GameState
                       /\ [game EXCEPT !.pawn_row = row] \in GameState
<1>1. \A p \in Nat : NewGame(p) \in GameState
    BY ConstantsTyped DEF NewGame, GameState, Statuses, WAITING_FOR_OPPONENT, WIN_B
<1>2. \A p \in Nat : TornGame(p) \in GameState
    <2>. TAKE p \in Nat
    <2>1. TornGame(p) = [NewGame(p) EXCEPT !.pawn_row = {}, !.idle = uptime, !.torn = TRUE]
        BY DEF TornGame
    <2>2. uptime \in Ages /\ {} \in SUBSET Pawns
        BY DEF TypeOK
    <2>. QED
        BY <1>1, <2>1, <2>2 DEF GameState
<1>3. ASSUME NEW game \in GameState
      PROVE  /\ Touched(game) \in GameState
             /\ \A p \in Nat : Seated(game, p) \in GameState /\ Forfeited(game, p) \in GameState
    <2>1. TURN_B \in Statuses /\ WIN_A \in Statuses /\ WIN_B \in Statuses
        BY DEF Statuses, WAITING_FOR_OPPONENT, TURN_B, WIN_A, WIN_B
    <2>2. Touched(game) \in GameState
        BY ConstantsTyped DEF Touched, GameState
    <2>3. \A p \in Nat : Seated(game, p) \in GameState
        BY <2>1, ConstantsTyped DEF Seated, GameState
    <2>4. \A p \in Nat : Forfeited(game, p) \in GameState
        BY <2>1, ConstantsTyped DEF Forfeited, GameState
    <2>. QED
        BY <2>2, <2>3, <2>4
<1>4. ASSUME NEW game \in GameState, NEW pawns
      PROVE  /\ RowAfter(game.pawn_row, pawns) \in SUBSET Pawns
             /\ [game EXCEPT !.pawn_row = RowAfter(game.pawn_row, pawns)] \in GameState
    BY DEF RowAfter, GameState
<1>. QED
    BY <1>1, <1>2, <1>3, <1>4, MovedTyped

LEMMA EffectTyped ==
    ASSUME TypeOK, Effect
    PROVE  /\ DOMAIN active_games' \subseteq GameIds
           /\ active_games' \in [DOMAIN active_games' -> GameState]
           /\ next_game_id' \in GameIds
<1>. DEFINE Typed == /\ DOMAIN active_games' \subseteq GameIds
                    /\ active_games' \in [DOMAIN active_games' -> GameState]
<1>1. /\ datagram.player_id \in Nat
      /\ \A g \in DOMAIN active_games : g \in GameIds /\ active_games[g] \in GameState
    BY DEF TypeOK, Datagram
<1>2. FindsGame => datagram.game_id \in GameIds /\ TheGame \in GameState
    BY <1>1 DEF FindsGame, TheGame
<1>. HIDE DEF Typed
<1>3. ASSUME NEW g \in GameIds, NEW game \in GameState, active_games' = Put(g, game)
      PROVE  Typed
    BY <1>3, PutTyped DEF Typed
<1>4. active_games' = active_games => Typed
    BY DEF Typed, TypeOK
<1>5. CASE Refuses
    BY <1>5 DEF Refuses, TypeOK
<1>6. CASE Seats
    <2>1. PICK g \in WaitingGames :
             active_games' = Put(g, Seated(active_games[g], datagram.player_id))
        BY <1>6 DEF Seats
    <2>2. g \in GameIds /\ Seated(active_games[g], datagram.player_id) \in GameState
        BY <1>1, GamesTyped DEF WaitingGames
    <2>. QED
        BY <1>6, <1>3, <2>1, <2>2 DEF Seats, Typed, TypeOK
<1>7. CASE Opens
    <2>1. PICK g \in NextFreeId, game \in {NewGame(datagram.player_id), TornGame(datagram.player_id)} :
             next_game_id' = IdAfter(g) /\ active_games' \in {active_games, Put(g, game)}
        BY <1>7 DEF Opens
    <2>2. g \in GameIds /\ game \in GameState
        BY <1>1, <2>1, NextFreeIdTyped, GamesTyped
    <2>3. IdAfter(g) \in GameIds
        BY <2>2, ConstantsTyped DEF IdAfter, GameIds
    <2>. QED
        BY <1>3, <1>4, <2>1, <2>2, <2>3 DEF Typed
<1>8. ASSUME NEW pawns, MovesOn(pawns) \/ Hangs(pawns)
      PROVE  Typed /\ UNCHANGED next_game_id
    BY <1>2, <1>8, <1>3, GamesTyped DEF MovesOn, Hangs, Moves, Named
<1>9. CASE Looks
    BY <1>2, <1>9, <1>3, <1>4, GamesTyped DEF Looks, Named, Typed, TypeOK
<1>10. CASE GivesUp
    BY <1>1, <1>2, <1>10, <1>3, GamesTyped DEF GivesUp, Named, Typed, TypeOK
<1>. QED
    BY <1>5, <1>6, <1>7, <1>8, <1>9, <1>10 DEF Effect, Typed, TypeOK

\* The variables of the thread itself after a handler.
LEMMA HandleThreadTyped ==
    ASSUME TypeOK, Handle
    PROVE  /\ pc' \in {"recvfrom", "dispatch", "hung", "exited"}
           /\ datagram' \in Datagram
           /\ replies' \in Seq(Reply)
           /\ waited' \in 0 .. Timeout
<1>. DEFINE Returns == \E msgs \in Seq(Reply) : SendAndReturn(msgs)
           Stops == \E where \in {"hung", "exited"} : StopAt(where)
<1>1. datagram \in Datagram /\ datagram.player_id \in Nat
    BY DEF TypeOK, Datagram
<1>2. \A g \in DOMAIN active_games : g \in GameIds /\ active_games[g] \in GameState
    BY DEF TypeOK
<1>3. /\ JOIN_SIZE \in Nat /\ MOVE_SIZE \in Nat
      /\ KEEP_ALIVE_SIZE \in Nat /\ GIVE_UP_SIZE \in Nat
    BY DEF JOIN_SIZE, MOVE_SIZE, KEEP_ALIVE_SIZE, GIVE_UP_SIZE
<1>4. ASSUME NEW g \in GameIds, NEW game \in GameState
      PROVE  <<StateMessage(g, game)>> \in Seq(Reply)
    BY <1>4, StateMessageTyped
<1>5. ASSUME NEW size \in Nat, Reject(size)
      PROVE  Returns
    BY <1>1, <1>5, RejectionTyped DEF Reject
<1>6. ASSUME NEW size \in Nat, Accepted(size)
      PROVE  datagram.game_id \in GameIds /\ TheGame \in GameState
    BY <1>2, <1>6 DEF Accepted, FindsGame, TheGame
<1>7. ASSUME NEW game \in GameState, datagram.game_id \in GameIds, StoreAndReply(game)
      PROVE  Returns
    BY <1>4, <1>7 DEF StoreAndReply
<1>8. ASSUME NEW first, NEW pawns, NEW size \in Nat, Accepted(size), MakeMove(first, pawns)
      PROVE  Returns \/ Stops
    BY <1>6, <1>7, <1>8, GamesTyped DEF MakeMove
<1>9. SendAndReturn(<<>>) => Returns
    <2>1. <<>> \in Seq(Reply)
        OBVIOUS
    <2>. QED
        BY <2>1
<1>10. Returns \/ Stops
    <2>1. CASE handle_join_game
        <3>1. CASE ~WellFormed(JOIN_SIZE)
            BY <1>1, <1>3, <2>1, <3>1, RejectionTyped DEF handle_join_game
        <3>2. CASE JoinWaitingGame(datagram.player_id)
            BY <1>1, <1>2, <1>4, <3>2, GamesTyped DEF JoinWaitingGame, WaitingGames
        <3>3. CASE OpenGame(datagram.player_id)
            <4>1. PICK g \in NextFreeId :
                      \/ SendAndReturn(<<StateMessage(g, NewGame(datagram.player_id))>>)
                      \/ SendAndReturn(<<>>)
                BY <3>3 DEF OpenGame
            <4>2. g \in GameIds
                BY <4>1, NextFreeIdTyped
            <4>. QED
                BY <1>1, <1>4, <1>9, <4>1, <4>2, GamesTyped
        <3>4. CASE RefuseGame
            BY <1>9, <3>4 DEF RefuseGame
        <3>. QED
            BY <2>1, <3>1, <3>2, <3>3, <3>4 DEF handle_join_game
    <2>2. CASE handle_make_move_one
        BY <1>3, <1>5, <1>8, <2>2 DEF handle_make_move_one
    <2>3. CASE handle_make_move_two
        BY <1>3, <1>5, <1>8, <2>3 DEF handle_make_move_two
    <2>4. CASE handle_keep_alive
        BY <1>3, <1>5, <1>6, <1>7, <2>4, GamesTyped DEF handle_keep_alive
    <2>5. CASE handle_give_up
        BY <1>1, <1>3, <1>5, <1>6, <1>7, <2>5, GamesTyped DEF handle_give_up
    <2>6. CASE handle_unknown
        BY <1>1, <1>3, <2>6, RejectionTyped DEF handle_unknown
    <2>. QED
        BY <2>1, <2>2, <2>3, <2>4, <2>5, <2>6 DEF Handle
<1>11. CASE Returns
    BY <1>11, SendAndReturnTyped
<1>12. CASE Stops
    BY <1>12 DEF StopAt, TypeOK
<1>. QED
    BY <1>10, <1>11, <1>12

LEMMA TickTyped ==
    ASSUME TypeOK, Tick
    PROVE  /\ TypeOK'
           /\ DOMAIN active_games' = DOMAIN active_games
           /\ \A g \in DOMAIN active_games :
                 active_games'[g] = [active_games[g] EXCEPT !.idle = Older(active_games[g].idle)]
<1>1. \A age \in Ages : Older(age) \in Ages
    BY ConstantsTyped DEF Older, Ages
<1>2. /\ DOMAIN active_games' = DOMAIN active_games
      /\ \A g \in DOMAIN active_games :
            active_games'[g] = [active_games[g] EXCEPT !.idle = Older(active_games[g].idle)]
      /\ active_games' = [g \in DOMAIN active_games' |-> active_games'[g]]
    BY DEF Tick
<1>3. \A g \in DOMAIN active_games : active_games'[g] \in GameState
    <2>. TAKE g \in DOMAIN active_games
    <2>1. active_games[g] \in GameState /\ active_games[g].idle \in Ages
        BY DEF TypeOK, GameState
    <2>. QED
        BY <1>1, <1>2, <2>1 DEF GameState
<1>4. waited' \in 0 .. Timeout
    BY ConstantsTyped DEF Tick, TypeOK
<1>5. uptime' \in Ages
    BY <1>1 DEF Tick, TypeOK
<1>6. active_games' \in [DOMAIN active_games' -> GameState]
    BY <1>2, <1>3
<1>. QED
    BY <1>2, <1>4, <1>5, <1>6 DEF Tick, TypeOK

LEMMA InitTyped == Init => TypeOK
BY ConstantsTyped, ServerAssumption DEF Init, TypeOK, GameIds

LEMMA NextTyped == TypeOK /\ [Next]_vars => TypeOK'
<1>. SUFFICES ASSUME TypeOK, [Next]_vars
             PROVE  TypeOK'
    OBVIOUS
<1>1. ASSUME NEW m \in Datagrams, Receive(m)
      PROVE  TypeOK'
    BY <1>1, UnexpiredTyped, ServerAssumption DEF Receive, TypeOK
<1>2. CASE RecvTimeout
    BY <1>2, UnexpiredTyped, ConstantsTyped DEF RecvTimeout, TypeOK
<1>3. CASE RecvFails
    BY <1>3 DEF RecvFails, TypeOK
<1>4. CASE Handle
    BY <1>4, HandleEffect, EffectTyped, HandleThreadTyped DEF TypeOK
<1>5. CASE Tick
    BY <1>5, TickTyped
<1>6. CASE UNCHANGED vars
    BY <1>6 DEF vars, TypeOK
<1>. QED
    BY <1>1, <1>2, <1>3, <1>4, <1>5, <1>6 DEF Next

\* The server's variables always range over what the code can store in them:
\* no handler invents a status, an index or an id outside its type.
THEOREM TypeCorrect == Spec => []TypeOK
<1>. QED
    BY InitTyped, NextTyped, PTL DEF Spec
==============================================================================
