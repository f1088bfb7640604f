----------------------------- MODULE KaylesServer -----------------------------
(***************************************************************************)
(* The UDP server: the event loop of src/kayles_server.cpp and the         *)
(* handlers of src/message_handlers.cpp.  One thread: an action is one     *)
(* stretch of the loop, and only time passes between two of them.          *)
(*                                                                         *)
(*   Receive     recvfrom returns a datagram; stale games are removed      *)
(*   RecvTimeout recvfrom returns EAGAIN or ECONNREFUSED; the same removal *)
(*   handle_*    one per entry of the dispatch table, one for the rest     *)
(*   Tick        time passes                                               *)
(*                                                                         *)
(* Time is kept as ages: now - last_activity for each game, and the steady *)
(* clock itself (time since boot).  The code compares an age with the      *)
(* timeout only, so ages at or above IdleCap > Timeout are one value.      *)
(***************************************************************************)
EXTENDS WireFormat, FiniteSets, Functions

CONSTANTS
    Timeout,       \* option -t, in ticks; also SO_RCVTIMEO of the socket
    IdleCap,       \* ages saturate here
    StartUptimes,  \* the possible values of the steady clock at start-up
    Datagrams,     \* the datagrams clients send
    Faults         \* which system calls and allocations may fail

VARIABLES
    pc,            \* where the server's thread is
    active_games,  \* game id -> GameState
    next_game_id,  \* the static counter of message_handlers.cpp
    datagram,      \* the datagram received and not yet handled
    replies,       \* what this iteration of the loop has sent so far
    waited,        \* time spent in the current recvfrom, up to Timeout
    uptime         \* the steady clock, saturated

vars == <<pc, active_games, next_game_id, datagram, replies, waited, uptime>>

GameIds == 1 .. UINT32_MAX
Ages == 0 .. IdleCap
MsgTypes == 0 .. 5      \* 5 stands for every type the server does not know

Datagram == [type : MsgTypes, len : Nat, player_id : Nat, game_id : Nat,
             pawn_idx : PawnIdx]

\* torn: the copy into active_games failed half-way, pawn_row has no bytes.
GameState == [player_a_id : Nat, player_b_id : Nat, status : Statuses,
              pawn_row : SUBSET Pawns, idle : Ages, torn : BOOLEAN]

ASSUME ServerAssumption ==
    /\ UINT32_MAX \in Nat /\ UINT32_MAX > 1
    /\ Timeout \in Nat /\ Timeout > 0
    /\ IdleCap \in Nat /\ IdleCap > Timeout
    /\ StartUptimes \subseteq Ages
    /\ Datagrams \subseteq Datagram
    /\ Faults \subseteq {"alloc", "send", "recv", "refused"}

NoDatagram == [type |-> 0, len |-> 0, player_id |-> 0, game_id |-> 0, pawn_idx |-> 0]

ERROR_IDX_TYPE == 0
ERROR_IDX_PLAYER == 1
ERROR_IDX_GAME == 5
INVALID_PLAYER_ID == 0

Older(age) == IF age < IdleCap THEN age + 1 ELSE age

Init ==
    /\ pc = "recvfrom"
    /\ active_games = [g \in {} |-> 0]
    /\ next_game_id = 1
    /\ datagram = NoDatagram
    /\ replies = <<>>
    /\ waited = 0
    /\ uptime \in StartUptimes
-----------------------------------------------------------------------------
\* What goes back on the socket.
WrongMessage(index) == [kind |-> "WRONG_MSG", error_index |-> index]

StateMessage(g, game) ==
    [kind |-> "GAME_STATE", game_id |-> g, player_a_id |-> game.player_a_id,
     player_b_id |-> game.player_b_id, status |-> game.status,
     pawn_row |-> game.pawn_row, torn |-> game.torn]

\* A handler ends: it sends its replies and the loop goes back to recvfrom,
\* or one of the sends fails (syserr, or no memory for the response) and the
\* process exits after the replies before it.
SendAndReturn(msgs) ==
    /\ datagram' = NoDatagram
    /\ waited' = 0
    /\ \/ pc' = "recvfrom" /\ replies' = msgs
       \/ /\ "send" \in Faults
          /\ \E k \in 1 .. Len(msgs) : replies' = SubSeq(msgs, 1, k - 1)
          /\ pc' = "exited"

\* The thread stops inside a handler, nothing sent: an endless loop or a crash.
StopAt(where) == pc' = where /\ UNCHANGED <<datagram, replies, waited>>

\* The map with game g added or replaced.
Put(g, game) ==
    [h \in DOMAIN active_games \cup {g} |-> IF h = g THEN game ELSE active_games[h]]

Touched(game) == [game EXCEPT !.idle = 0]
-----------------------------------------------------------------------------
\* remove_timed_out_games
\* Wrong: a game exactly as old as the timeout goes too.
StaleAtTheLimit(game) == game.idle >= Timeout

IsStale(game) == game.idle > Timeout

\* Wrong: only finished and waiting games are swept.
UnexpiredOrPlayed ==
    Restrict(active_games, {g \in DOMAIN active_games :
                               active_games[g].status \in Turns \/ ~IsStale(active_games[g])})

Unexpired == Restrict(active_games, {g \in DOMAIN active_games : ~IsStale(active_games[g])})

Receive(m) ==
    /\ pc = "recvfrom"
    /\ active_games' = Unexpired
    /\ datagram' = m
    /\ replies' = <<>>
    /\ pc' = "dispatch"
    /\ UNCHANGED <<next_game_id, waited, uptime>>

\* EAGAIN once SO_RCVTIMEO has passed.  ECONNREFUSED takes the same branch.
RecvTimeout ==
    /\ pc = "recvfrom"
    /\ waited = Timeout \/ "refused" \in Faults
    /\ active_games' = Unexpired
    /\ replies' = <<>>
    /\ waited' = 0
    /\ UNCHANGED <<pc, next_game_id, datagram, uptime>>

\* Any other errno: syserr, the process exits.
RecvFails ==
    /\ pc = "recvfrom" /\ "recv" \in Faults
    /\ pc' = "exited"
    /\ UNCHANGED <<active_games, next_game_id, datagram, replies, waited, uptime>>

Tick ==
    /\ pc # "exited"
    /\ active_games' = [g \in DOMAIN active_games |->
                           [active_games[g] EXCEPT !.idle = Older(@)]]
    /\ waited' = IF pc = "recvfrom" /\ waited < Timeout THEN waited + 1 ELSE waited
    /\ uptime' = Older(uptime)
    /\ UNCHANGED <<pc, next_game_id, datagram, replies>>
-----------------------------------------------------------------------------
\* The checks every handler starts with.
Handling(type) == pc = "dispatch" /\ datagram.len > 0 /\ datagram.type = type

WellFormed(size) == datagram.len = size /\ datagram.player_id # INVALID_PLAYER_ID

FormatErrorIndex(size) ==
    IF datagram.len < size THEN datagram.len
    ELSE IF datagram.len > size THEN size ELSE OFF_PLAYER_ID

\* find_game_and_verify_players
IsPlayerOf(game, p) == game.player_a_id = p \/ game.player_b_id = p

\* Wrong: whoever knows the id of a game may act in it.
FindsGameOfAnyone == datagram.game_id \in DOMAIN active_games

FindsGame ==
    /\ datagram.game_id \in DOMAIN active_games
    /\ IsPlayerOf(active_games[datagram.game_id], datagram.player_id)

LookupErrorIndex ==
    IF datagram.game_id \in DOMAIN active_games THEN ERROR_IDX_PLAYER ELSE ERROR_IDX_GAME

\* A failed lookup is answered by find_game_and_verify_players and again by
\* the handler that called it.
Rejection(size) ==
    IF WellFormed(size)
    THEN <<WrongMessage(LookupErrorIndex), WrongMessage(ERROR_IDX_GAME)>>
    ELSE <<WrongMessage(FormatErrorIndex(size))>>

Accepted(size) == WellFormed(size) /\ FindsGame

Reject(size) ==
    /\ ~Accepted(size)
    /\ UNCHANGED active_games
    /\ SendAndReturn(Rejection(size))

TheGame == active_games[datagram.game_id]

\* The handler leaves `game' under the request's id and answers with it.
StoreAndReply(game) ==
    /\ active_games' = Put(datagram.game_id, game)
    /\ SendAndReturn(<<StateMessage(datagram.game_id, game)>>)

\* Wrong: a player of the game may act on the opponent's turn.
IsValidTurnOfEither(game, p) == game.status \in Turns /\ IsPlayerOf(game, p)

IsValidTurn(game, p) ==
    \/ game.player_a_id = p /\ game.status = TURN_A
    \/ game.player_b_id = p /\ game.status = TURN_B
-----------------------------------------------------------------------------
\* handle_join_game: pair with a waiting game (whichever the unordered_map
\* yields first), else open a new one under the first free id.
IsWaiting(game) == game.status = WAITING_FOR_OPPONENT

\* Wrong: nobody is paired with themselves.
WaitingGamesOfOthers ==
    {g \in DOMAIN active_games :
        IsWaiting(active_games[g]) /\ active_games[g].player_a_id # datagram.player_id}

WaitingGames == {g \in DOMAIN active_games : IsWaiting(active_games[g])}

\* Wrong: the counter does not wrap.
IdAfterUnbounded(i) == i + 1

IdAfter(i) == IF i = UINT32_MAX THEN 1 ELSE i + 1

\* Wrong: the last id but one may be taken as well.
AtCapacityOfAllIds == Cardinality(DOMAIN active_games) >= UINT32_MAX

AtCapacity == Cardinality(DOMAIN active_games) >= UINT32_MAX - 1

\* Wrong: the search goes on, but looks at the id it began with.
IdAtTheStart(k) == next_game_id

\* The id the counter is at after k increments.
IdAt(k) ==
    IF next_game_id + k <= UINT32_MAX THEN next_game_id + k ELSE next_game_id + k - UINT32_MAX

\* The id the counter stops at, the first free one: it passes over as many
\* ids as it finds in use.
NextFreeId ==
    {IdAt(k) : k \in {n \in 0 .. Cardinality(DOMAIN active_games) :
                         /\ IdAt(n) \notin DOMAIN active_games
                         /\ \A m \in 0 .. n - 1 : IdAt(m) \in DOMAIN active_games}}

NewGame(p) ==
    [player_a_id |-> p, player_b_id |-> WAITING_FOR_OPPONENT,
     status |-> WAITING_FOR_OPPONENT, pawn_row |-> InitialRow, idle |-> 0, torn |-> FALSE]

\* Wrong: the time of activity is stored before the board.
TornGameFresh(p) == [NewGame(p) EXCEPT !.pawn_row = {}, !.torn = TRUE]

\* The map's new node after the copy of the game threw in pawn_row: the fields
\* before it are assigned, pawn_row is empty, last_activity is still zero.
TornGame(p) == [NewGame(p) EXCEPT !.pawn_row = {}, !.idle = uptime, !.torn = TRUE]

\* Wrong: the status is left behind.
SeatedStillWaiting(game, p) == [game EXCEPT !.player_b_id = p, !.idle = 0]

Seated(game, p) == [game EXCEPT !.player_b_id = p, !.status = TURN_B, !.idle = 0]

JoinWaitingGame(p) ==
    \E g \in WaitingGames :
        LET game == Seated(active_games[g], p) IN
        /\ active_games' = Put(g, game)
        /\ SendAndReturn(<<StateMessage(g, game)>>)
        /\ UNCHANGED next_game_id

OpenGame(p) ==
    /\ WaitingGames = {} /\ ~AtCapacity
    /\ \E g \in NextFreeId :
          /\ next_game_id' = IdAfter(g)
          /\ \/ /\ active_games' = Put(g, NewGame(p))
                /\ SendAndReturn(<<StateMessage(g, NewGame(p))>>)
             \/ /\ "alloc" \in Faults
                /\ active_games' \in {active_games, Put(g, TornGame(p))}
                /\ SendAndReturn(<<>>)

RefuseGame ==
    /\ WaitingGames = {} /\ AtCapacity
    /\ SendAndReturn(<<>>)
    /\ UNCHANGED <<active_games, next_game_id>>

handle_join_game ==
    /\ Handling(0)
    /\ \/ /\ ~WellFormed(JOIN_SIZE)
          /\ SendAndReturn(<<WrongMessage(FormatErrorIndex(JOIN_SIZE))>>)
          /\ UNCHANGED <<active_games, next_game_id>>
       \/ /\ WellFormed(JOIN_SIZE)
          /\ \/ JoinWaitingGame(datagram.player_id)
             \/ OpenGame(datagram.player_id)
             \/ RefuseGame
    /\ UNCHANGED uptime
-----------------------------------------------------------------------------
\* handle_make_move_one and handle_make_move_two differ in the pawns only.
IsLegal(game, pawns) == \A i \in pawns : is_legal_move(game.pawn_row, i)

\* knock_pawn_down, for each of the pawns
RowAfter(row, pawns) == row \ pawns

\* Wrong: the status is decided before the pawns are down.
MovedVerifiedFirst(game, row) ==
    [game EXCEPT !.pawn_row = row,
                 !.status = verify_game_state_after_move(@, game.pawn_row), !.idle = 0]

Moved(game, row) ==
    [game EXCEPT !.pawn_row = row,
                 !.status = verify_game_state_after_move(@, row), !.idle = 0]

\* first: the index whose legality is asked first.  Reading a pawn of a torn
\* game goes through the null pointer of its empty vector: the process dies.
MakeMove(first, pawns) ==
    LET game == TheGame
        row == RowAfter(game.pawn_row, pawns)
    IN  \/ /\ ~IsValidTurn(game, datagram.player_id)
           /\ StoreAndReply(game)
        \/ /\ IsValidTurn(game, datagram.player_id)
           /\ \/ /\ game.torn /\ first <= MaxPawn
                 /\ StopAt("exited")
                 /\ UNCHANGED active_games
              \/ /\ game.torn => first > MaxPawn
                 /\ ~IsLegal(game, pawns)
                 /\ StoreAndReply(game)
              \/ /\ IsLegal(game, pawns)
                 /\ any_pawn_left_returns(row)
                 /\ StoreAndReply(Moved(game, row))
              \/ /\ IsLegal(game, pawns)
                 /\ ~any_pawn_left_returns(row)
                 /\ active_games' = Put(datagram.game_id, [game EXCEPT !.pawn_row = row])
                 /\ StopAt("hung")

handle_make_move_one ==
    /\ Handling(1)
    /\ \/ Reject(MOVE_SIZE)
       \/ Accepted(MOVE_SIZE) /\ MakeMove(datagram.pawn_idx, OnePawn(datagram.pawn_idx))
    /\ UNCHANGED <<next_game_id, uptime>>

handle_make_move_two ==
    /\ Handling(2)
    /\ \/ Reject(MOVE_SIZE)
       \/ Accepted(MOVE_SIZE) /\ MakeMove(datagram.pawn_idx, TwoPawns(datagram.pawn_idx))
    /\ UNCHANGED <<next_game_id, uptime>>

handle_keep_alive ==
    /\ Handling(3)
    /\ \/ Reject(KEEP_ALIVE_SIZE)
       \/ Accepted(KEEP_ALIVE_SIZE) /\ StoreAndReply(Touched(TheGame))
    /\ UNCHANGED <<next_game_id, uptime>>

Forfeited(game, p) ==
    [game EXCEPT !.status = IF game.player_a_id = p THEN WIN_B ELSE WIN_A, !.idle = 0]

handle_give_up ==
    /\ Handling(4)
    /\ \/ Reject(GIVE_UP_SIZE)
       \/ /\ Accepted(GIVE_UP_SIZE)
          /\ StoreAndReply(IF IsValidTurn(TheGame, datagram.player_id)
                           THEN Forfeited(TheGame, datagram.player_id)
                           ELSE TheGame)
    /\ UNCHANGED <<next_game_id, uptime>>

\* decode_and_verify_message, when the dispatch table has no handler
handle_unknown ==
    /\ pc = "dispatch"
    /\ datagram.len = 0 \/ datagram.type \notin 0 .. 4
    /\ SendAndReturn(<<WrongMessage(ERROR_IDX_TYPE)>>)
    /\ UNCHANGED <<active_games, next_game_id, uptime>>

Handle ==
    \/ handle_join_game
    \/ handle_make_move_one
    \/ handle_make_move_two
    \/ handle_keep_alive
    \/ handle_give_up
    \/ handle_unknown

Next ==
    \/ \E m \in Datagrams : Receive(m)
    \/ RecvTimeout
    \/ RecvFails
    \/ Handle
    \/ Tick

Spec == Init /\ [][Next]_vars
==============================================================================
