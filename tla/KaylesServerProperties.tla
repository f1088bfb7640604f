------------------------ MODULE KaylesServerProperties ------------------------
(***************************************************************************)
(* What the server of KaylesServer must and must not do.  The properties   *)
(* are stated on the records of active_games, not with the handlers' own   *)
(* helper functions: a wrong helper must not make its property wrong too.  *)
(***************************************************************************)
EXTENDS KaylesServer

Reply == [kind : {"WRONG_MSG"}, error_index : Nat]
         \cup [kind : {"GAME_STATE"}, game_id : GameIds, player_a_id : Nat,
               player_b_id : Nat, status : Statuses, pawn_row : SUBSET Pawns, torn : BOOLEAN]

\* The server's variables range over what the code can store in them.
TypeOK ==
    /\ pc \in {"recvfrom", "dispatch", "hung", "exited"}
    /\ DOMAIN active_games \subseteq GameIds
    /\ active_games \in [DOMAIN active_games -> GameState]
    /\ next_game_id \in GameIds
    /\ datagram \in Datagram
    /\ replies \in Seq(Reply)
    /\ waited \in 0 .. Timeout
    /\ uptime \in Ages

\* No two games ever wait for an opponent: so which waiting game the join
\* handler finds first in the unordered_map makes no difference, and two
\* players who join one after the other always meet.
AtMostOneWaiting ==
    \A g, h \in DOMAIN active_games :
        active_games[g].status = WAITING_FOR_OPPONENT
        /\ active_games[h].status = WAITING_FOR_OPPONENT => g = h

\* Seat B is empty (its player id is 0) exactly while the game waits, and seat
\* A never is.  The constant 0 is both "no player" and the waiting status in
\* the code; a player id 0 in a seat would let anyone's zero id match it.
SeatsMatchStatus ==
    \A g \in DOMAIN active_games :
        LET game == active_games[g] IN
        /\ game.player_a_id # 0
        /\ game.player_b_id = 0 <=> game.status = WAITING_FOR_OPPONENT

\* Nobody is ever asked to move on an empty board: it is empty only once the
\* game is won (unless the server hangs in any_pawn_left, or a failed JOIN
\* left the board without bytes), and untouched while the game waits.
EmptyBoardIsWon ==
    \A g \in DOMAIN active_games :
        LET game == active_games[g] IN
        ~game.torn /\ pc # "hung" =>
            /\ game.pawn_row = {} => game.status \in Wins
            /\ game.status = WAITING_FOR_OPPONENT => game.pawn_row = InitialRow

\* What the players of a game can see of it.
Public(game) == [game EXCEPT !.idle = 0]

\* The player whose turn it is, 0 when it is nobody's.
Mover(game) ==
    CASE game.status = TURN_A -> game.player_a_id
      [] game.status = TURN_B -> game.player_b_id
      [] OTHER -> 0

\* Games are independent, and a seat is acted for by its player alone: what is
\* visible of a surviving game changes only while the server handles a JOIN
\* that fills its empty seat, or a request that names it and comes from the
\* player on turn; no other game is touched by the same request, not even its
\* timer.
OnlyTheMoverActs ==
    [][\A g \in DOMAIN active_games \cap DOMAIN active_games' :
          Public(active_games'[g]) # Public(active_games[g]) =>
             /\ pc = "dispatch"
             /\ \/ /\ datagram.type = 0
                   /\ active_games[g].status = WAITING_FOR_OPPONENT
                   /\ active_games'[g].player_b_id = datagram.player_id
                \/ /\ datagram.game_id = g
                   /\ datagram.player_id = Mover(active_games[g])
             /\ \A h \in DOMAIN active_games \ {g} :
                   h \in DOMAIN active_games' /\ active_games'[h] = active_games[h]]_vars

\* A session is dropped for its silence only: no request, no new game and no
\* counter wrap-around removes or replaces a game whose last activity is at
\* most the timeout ago (the limit itself included).
NoLiveSessionIsDropped ==
    [][\A g \in DOMAIN active_games :
          active_games[g].idle <= Timeout =>
             /\ g \in DOMAIN active_games'
             /\ active_games'[g].player_a_id = active_games[g].player_a_id]_vars

IdBefore(i) == IF i = 1 THEN UINT32_MAX ELSE i - 1

\* A game id is not given out twice in a row, however many ids are taken and
\* wherever the counter wraps: a late datagram for the game opened last never
\* reaches the game opened after it.  (The capacity check leaves two ids free.)
NewIdIsNotTheLastOne ==
    [][\A g \in DOMAIN active_games' \ DOMAIN active_games :
          g # IdBefore(next_game_id)]_vars

\* A request that names a game is correct when its player takes part in it.
NamesOwnGame ==
    /\ datagram.game_id \in DOMAIN active_games
    /\ datagram.player_id \in {active_games[datagram.game_id].player_a_id,
                               active_games[datagram.game_id].player_b_id}

\* The correct requests: the right length, a player id, and for all but JOIN a
\* session that the player takes part in.
IsCorrect ==
    /\ datagram.player_id > 0
    /\ \/ datagram.type = 0 /\ datagram.len = 5
       \/ datagram.type \in {1, 2} /\ datagram.len = 10 /\ NamesOwnGame
       \/ datagram.type \in {3, 4} /\ datagram.len = 9 /\ NamesOwnGame

IsStateOf(reply, g, games) ==
    g \in DOMAIN games /\ reply = StateMessage(g, games[g])

\* A named game is shown as it is after the request.
ShowsTheGame ==
    /\ datagram.type # 0
    /\ Len(replies') = 1
    /\ IsStateOf(replies'[1], datagram.game_id, active_games')

\* A JOIN is shown the game that its player was given a free seat in.
ShowsTheSeat ==
    /\ datagram.type = 0
    /\ Len(replies') = 1
    /\ \E g \in DOMAIN active_games' :
          /\ IsStateOf(replies'[1], g, active_games')
          /\ IF g \in DOMAIN active_games
             THEN /\ active_games[g].player_b_id = 0
                  /\ active_games'[g].player_b_id = datagram.player_id
             ELSE active_games'[g].player_a_id = datagram.player_id

\* A JOIN gets no answer when no seat is free and either all the ids that may be
\* used are in use, or one was found and the memory ran out - which is known by
\* the counter having moved on.
IsIgnored ==
    /\ datagram.type = 0 /\ replies' = <<>>
    /\ \A g \in DOMAIN active_games : active_games[g].player_b_id # 0
    /\ \/ /\ Cardinality(DOMAIN active_games) = UINT32_MAX - 1
          /\ active_games' = active_games /\ next_game_id' = next_game_id
       \/ /\ Cardinality(DOMAIN active_games) < UINT32_MAX - 1
          /\ "alloc" \in Faults /\ next_game_id' # next_game_id

\* Complaints only, each with an index below the 12 echoed bytes.
IsRejected ==
    /\ active_games' = active_games /\ next_game_id' = next_game_id
    /\ replies' # <<>>
    /\ \A k \in 1 .. Len(replies') :
          replies'[k].kind = "WRONG_MSG" /\ replies'[k].error_index < 12

\* The answer to a request that was handled to its end.  A correct one gets one
\* GAME_STATE that shows the named game (for JOIN the game the player was
\* seated in) as it is after the request; JOIN may get nothing when no game
\* can be created.  Any other request gets WRONG_MSG only, and changes nothing.
RequestContract ==
    [][pc = "dispatch" /\ pc' = "recvfrom" =>
          IF IsCorrect THEN ShowsTheGame \/ ShowsTheSeat \/ IsIgnored ELSE IsRejected]_vars
-----------------------------------------------------------------------------
\* A server that handles what it has before time passes: the clock advances
\* only while recvfrom blocks, and recvfrom returns when its timeout is over.
PromptNext ==
    \/ \E m \in Datagrams : Receive(m)
    \/ RecvTimeout
    \/ Handle
    \/ pc = "recvfrom" /\ waited < Timeout /\ Tick

PromptSpec == Init /\ [][PromptNext]_vars

\* Nothing but the loop itself removes stale games, and it may sleep: still, no
\* session outlives its last activity by more than two timeouts.
StaleSessionsEndInTime ==
    \A g \in DOMAIN active_games : active_games[g].idle <= 2 * Timeout
-----------------------------------------------------------------------------
\* The loop runs, recvfrom returns at the latest after its timeout, and time
\* passes.  Nothing makes clients send.
FairSpec ==
    /\ Spec
    /\ WF_vars(RecvTimeout) /\ WF_vars(Handle) /\ WF_vars(Tick)

\* A session nobody acts in goes away: every game is, again and again, either
\* gone or freshly active, whatever other games' traffic keeps the server busy.
SilentSessionsEnd ==
    \A g \in GameIds :
        []<>(g \notin DOMAIN active_games \/ active_games[g].idle = 0)

\* The thread is the only one there is: a request it never gets done with ends
\* the service for everybody.  Each is handled in the end: the search for a free
\* id always finds one, no handler runs into the missing board of a torn game
\* (on a server started more than a timeout after boot), and any_pawn_left,
\* which game_logic.h says returns "false otherwise", returns.  The last one
\* fails on a row of 256, once its last pawn has fallen.
EveryRequestIsHandled == pc = "dispatch" ~> pc = "recvfrom"
-----------------------------------------------------------------------------
\* A JOIN that runs out of memory half-way leaves a torn game behind.  On a
\* server started more than a timeout after boot it is stale from the start:
\* gone before any request is handled, so no player ever sees one.
TornGamesAreNeverServed ==
    pc = "dispatch" => \A g \in DOMAIN active_games : ~active_games[g].torn
==============================================================================
