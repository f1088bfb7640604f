------------------------- MODULE KaylesSessionProofs -------------------------
(***************************************************************************)
(* How long a session can live, and how a request is answered, for every   *)
(* value of the constants: the torn games of KaylesServerProperties, the   *)
(* server that is never delayed, and RequestContract.                      *)
(***************************************************************************)
EXTENDS KaylesServerProofs

\* A handler ends back at recvfrom, whose timeout starts again, or nowhere.
LEMMA HandlersEnd ==
    ASSUME Handle
    PROVE  (pc' = "recvfrom" /\ waited' = 0) \/ pc' \in {"hung", "exited"}
<1>. DEFINE Ends == (pc' = "recvfrom" /\ waited' = 0) \/ pc' \in {"hung", "exited"}
<1>. SUFFICES Ends
    OBVIOUS
<1>1. \A msgs : SendAndReturn(msgs) => Ends
    BY DEF SendAndReturn
<1>2. \A where \in {"hung", "exited"} : StopAt(where) => Ends
    BY DEF StopAt
<1>. HIDE DEF Ends
<1>3. \A size : Reject(size) => Ends
    BY <1>1 DEF Reject
<1>4. \A game : StoreAndReply(game) => Ends
    BY <1>1 DEF StoreAndReply
<1>5. \A first, pawns : MakeMove(first, pawns) => Ends
    BY <1>2, <1>4 DEF MakeMove
<1>6. CASE handle_join_game
    BY <1>1, <1>6 DEF handle_join_game, JoinWaitingGame, OpenGame, RefuseGame
<1>7. CASE handle_make_move_one \/ handle_make_move_two
    BY <1>3, <1>5, <1>7 DEF handle_make_move_one, handle_make_move_two
<1>8. CASE handle_keep_alive \/ handle_give_up
    BY <1>3, <1>4, <1>8 DEF handle_keep_alive, handle_give_up
<1>9. CASE handle_unknown
    BY <1>1, <1>9 DEF handle_unknown
<1>. QED
    BY <1>6, <1>7, <1>8, <1>9 DEF Handle

\* A handler makes no game older: what it leaves is a game as it found it,
\* that game with its timer restarted, or a new one - and only a JOIN without
\* memory leaves a torn one.
Aged(game, old) == game.torn = old.torn /\ game.idle \in {0, old.idle}

LEMMA HandlersAges ==
    ASSUME TypeOK, Handle, NEW g \in DOMAIN active_games'
    PROVE  \/ g \in DOMAIN active_games /\ Aged(active_games'[g], active_games[g])
           \/ active_games'[g] = NewGame(datagram.player_id)
           \/ "alloc" \in Faults /\ active_games'[g] = TornGame(datagram.player_id)
<1>. DEFINE Goal == \/ g \in DOMAIN active_games /\ Aged(active_games'[g], active_games[g])
                    \/ active_games'[g] = NewGame(datagram.player_id)
                    \/ "alloc" \in Faults /\ active_games'[g] = TornGame(datagram.player_id)
<1>. SUFFICES Goal
    OBVIOUS
<1>1. \A h \in DOMAIN active_games : active_games[h] \in GameState
    BY DEF TypeOK
<1>2. ASSUME NEW h, NEW game, active_games' = Put(h, game)
      PROVE  \/ g = h /\ active_games'[g] = game
             \/ g \in DOMAIN active_games /\ active_games'[g] = active_games[g]
    BY <1>2 DEF Put
<1>3. g \in DOMAIN active_games /\ active_games'[g] = active_games[g] => Goal
    BY DEF Aged
<1>4. ASSUME NEW h \in DOMAIN active_games, NEW game, active_games' = Put(h, game),
             Aged(game, active_games[h])
      PROVE  Goal
    BY <1>2, <1>3, <1>4
<1>5. FindsGame => datagram.game_id \in DOMAIN active_games /\ TheGame \in GameState
    BY <1>1 DEF FindsGame, TheGame
<1>6. \A game \in GameState :
          /\ Aged(game, game) /\ Aged(Touched(game), game)
          /\ \A p : Aged(Seated(game, p), game) /\ Aged(Forfeited(game, p), game)
          /\ \A row : Aged(Moved(game, row), game) /\ Aged([game EXCEPT !.pawn_row = row], game)
    BY DEF Aged, Touched, Seated, Forfeited, Moved, GameState
<1>. HIDE DEF Goal
<1>7. CASE Refuses
    BY <1>3, <1>7 DEF Refuses
<1>8. CASE Seats
    BY <1>1, <1>4, <1>6, <1>8 DEF Seats, WaitingGames
<1>9. CASE Opens
    BY <1>2, <1>3, <1>9 DEF Opens, Goal
<1>10. ASSUME NEW pawns, MovesOn(pawns) \/ Hangs(pawns)
       PROVE  Goal
    BY <1>4, <1>5, <1>6, <1>10 DEF MovesOn, Hangs, Moves, Named, TheGame
<1>11. CASE Looks
    BY <1>3, <1>4, <1>5, <1>6, <1>11 DEF Looks, Named, TheGame
<1>12. CASE GivesUp
    BY <1>4, <1>5, <1>6, <1>12 DEF GivesUp, Named, TheGame
<1>. QED
    BY <1>7, <1>8, <1>9, <1>10, <1>11, <1>12, HandleEffect DEF Effect
-----------------------------------------------------------------------------
(* Torn games. *)

\* On a server started later than a timeout after boot a torn game is stale
\* from the start, for its age is the clock's.
TornIsStale ==
    /\ uptime > Timeout
    /\ \A g \in DOMAIN active_games : active_games[g].torn => active_games[g].idle > Timeout
    /\ TornGamesAreNeverServed

LEMMA TornIsStaleStep ==
    ASSUME TypeOK, TornIsStale, [Next]_vars
    PROVE  TornIsStale'
<1>1. \A age \in Ages : age > Timeout => Older(age) > Timeout
    BY ConstantsTyped DEF Older, Ages
<1>2. ASSUME active_games' = Unexpired
      PROVE  \A g \in DOMAIN active_games' : ~active_games'[g].torn
    BY <1>2, UnexpiredTyped DEF TornIsStale, IsStale
<1>3. CASE \E m \in Datagrams : Receive(m)
    BY <1>2, <1>3 DEF Receive, TornIsStale, TornGamesAreNeverServed
<1>4. CASE RecvTimeout
    BY <1>2, <1>4 DEF RecvTimeout, TornIsStale, TornGamesAreNeverServed
<1>5. CASE RecvFails \/ UNCHANGED vars
    BY <1>5 DEF RecvFails, vars, TornIsStale, TornGamesAreNeverServed
<1>6. CASE Tick
    <2>1. \A g \in DOMAIN active_games :
              /\ active_games[g].idle \in Ages
              /\ [active_games[g] EXCEPT !.idle = Older(@)].torn = active_games[g].torn
              /\ [active_games[g] EXCEPT !.idle = Older(@)].idle = Older(active_games[g].idle)
        BY DEF TypeOK, GameState
    <2>2. uptime' > Timeout /\ pc' = pc
        BY <1>1, <1>6 DEF Tick, TornIsStale, TypeOK
    <2>3. \A g \in DOMAIN active_games' :
              /\ g \in DOMAIN active_games
              /\ active_games'[g].torn = active_games[g].torn
              /\ active_games'[g].idle = Older(active_games[g].idle)
        BY <1>6, <2>1, TickTyped
    <2>. QED
        BY <1>1, <2>1, <2>2, <2>3 DEF TornIsStale, TornGamesAreNeverServed
<1>7. CASE Handle
    <2>1. pc = "dispatch" /\ uptime' = uptime /\ pc' # "dispatch"
        BY <1>7, HandleEffect, HandlersEnd
    <2>2. ASSUME NEW g \in DOMAIN active_games', active_games'[g].torn
          PROVE  active_games'[g].idle > Timeout
        <3>1. CASE g \in DOMAIN active_games /\ Aged(active_games'[g], active_games[g])
            BY <2>1, <2>2, <3>1 DEF Aged, TornIsStale, TornGamesAreNeverServed
        <3>2. CASE active_games'[g] = NewGame(datagram.player_id)
            BY <2>2, <3>2 DEF NewGame
        <3>3. CASE active_games'[g] = TornGame(datagram.player_id)
            BY <3>3 DEF TornGame, NewGame, TornIsStale
        <3>. QED
            BY <1>7, <3>1, <3>2, <3>3, HandlersAges
    <2>. QED
        BY <2>1, <2>2 DEF TornIsStale, TornGamesAreNeverServed
<1>. QED
    BY <1>3, <1>4, <1>5, <1>6, <1>7 DEF Next

\* Nobody is ever served a game whose JOIN failed half-way, if the server was
\* started later than a timeout after boot: every sweep before a request takes
\* it away.
THEOREM TornGamesAreNeverEverServed ==
    ASSUME \A u \in StartUptimes : u > Timeout
    PROVE  Spec => []TornGamesAreNeverServed
<1>1. Init => TornIsStale
    BY DEF Init, TornIsStale, TornGamesAreNeverServed
<1>2. TypeOK /\ TornIsStale /\ [Next]_vars => TornIsStale'
    BY TornIsStaleStep
<1>3. TornIsStale => TornGamesAreNeverServed
    BY DEF TornIsStale
<1>. QED
    BY <1>1, <1>2, <1>3, TypeCorrect, PTL DEF Spec

\* A torn game has lost its board before anybody could play on it, and no
\* change gives it one.
TornGamesAreBare ==
    \A g \in DOMAIN active_games : active_games[g].torn => active_games[g].pawn_row = {}

LEMMA TornGamesAreBareStep ==
    ASSUME TypeOK, TornGamesAreBare, [Next]_vars
    PROVE  TornGamesAreBare'
<1>. DEFINE Bare(game) == game.torn => game.pawn_row = {}
<1>. SUFFICES ASSUME NEW g \in DOMAIN active_games' PROVE Bare(active_games'[g])
    BY DEF TornGamesAreBare
<1>1. CASE ~Handle
    BY <1>1, OtherStepsOnGames DEF Same, TornGamesAreBare
<1>2. CASE g \in DOMAIN active_games /\ active_games'[g] = active_games[g]
    BY <1>2 DEF TornGamesAreBare
<1>3. CASE Creates(g)
    <2>1. \A p : Bare(NewGame(p)) /\ Bare(TornGame(p))
        BY DEF NewGame, TornGame
    <2>. QED
        BY <1>3, <2>1 DEF Creates
<1>4. CASE ActsIn(g)
    <2>. DEFINE old == active_games[g]
                new == active_games'[g]
    <2>1. old \in GameState /\ Bare(old)
        BY <1>4 DEF ActsIn, TypeOK, TornGamesAreBare
    <2>2. \A p : Bare(Seated(old, p)) /\ Bare(Forfeited(old, p))
        BY <2>1 DEF Seated, Forfeited, GameState
    <2>3. \A pawns : LET row == RowAfter(old.pawn_row, pawns) IN
              Bare(Moved(old, row)) /\ Bare([old EXCEPT !.pawn_row = row])
        BY <2>1 DEF Moved, RowAfter, GameState
    <2>4. Same(old, new) => Bare(new)
        BY <2>1 DEF Same
    <2>. QED
        BY <1>4, <2>2, <2>3, <2>4 DEF ActsIn, Seating, Playing, Forfeiting, Hanging
<1>. QED
    BY <1>1, <1>2, <1>3, <1>4, StepOnGames
-----------------------------------------------------------------------------
(* The service goes on. *)

\* Of any natural numbers there is a least one: their intervals from 0 are
\* ordered by inclusion.
LEMMA LeastNumber ==
    ASSUME NEW S \in SUBSET Nat, S # {}
    PROVE  \E n \in S : \A m \in S : n <= m
<1>. DEFINE Intervals == {0 .. n : n \in S}
<1>1. Intervals # {} /\ Intervals \subseteq FiniteSubsetsOf(Nat)
    <2>1. \A n \in S : 0 .. n \in SUBSET Nat /\ IsFiniteSet(0 .. n)
        BY FS_Interval
    <2>. QED
        BY <2>1 DEF FiniteSubsetsOf
<1>2. IsWellFoundedOn(StrictSubsetOrdering(Nat), FiniteSubsetsOf(Nat))
    BY FS_StrictSubsetOrderingWellFounded, Zenon
<1>. HIDE DEF Intervals
<1>3. PICK x \in Intervals : \A y \in Intervals : <<y, x>> \notin StrictSubsetOrdering(Nat)
    BY <1>1, <1>2, WFMin, Zenon
<1>4. PICK n \in S : x = 0 .. n
    BY DEF Intervals
<1>5. ASSUME NEW m \in S, ~(n <= m)
      PROVE  FALSE
    <2>1. 0 .. m \in Intervals
        BY DEF Intervals
    <2>2. 0 .. m \in SUBSET Nat /\ 0 .. n \in SUBSET Nat /\ 0 .. m \subseteq 0 .. n
        BY <1>5
    <2>3. n \in 0 .. n /\ n \notin 0 .. m
        BY <1>5
    <2>4. 0 .. m # 0 .. n
        BY <2>3
    <2>. QED
        BY <1>3, <1>4, <2>1, <2>2, <2>4 DEF StrictSubsetOrdering
<1>. QED
    BY <1>5

\* Below the capacity the search for a free id ends: the ids it tries, one more
\* than there are games, are all different, so one of them is free.
LEMMA SearchFindsAnId ==
    ASSUME TypeOK, ~AtCapacity
    PROVE  NextFreeId # {}
<1>. DEFINE count == Cardinality(DOMAIN active_games)
            free == {n \in 0 .. count : IdAt(n) \notin DOMAIN active_games}
<1>1. IsFiniteSet(DOMAIN active_games)
    <2>1. IsFiniteSet(GameIds)
        BY FS_Interval, ConstantsTyped DEF GameIds
    <2>2. DOMAIN active_games \in SUBSET GameIds
        BY DEF TypeOK
    <2>. QED
        BY <2>1, <2>2, FS_Subset
<1>2. count \in Nat /\ count < UINT32_MAX - 1
    BY GamesAreFinite, ConstantsTyped DEF AtCapacity
<1>. HIDE DEF count
<1>3. ASSUME NEW m \in 0 .. count, NEW n \in 0 .. count, IdAt(m) = IdAt(n)
      PROVE  m = n
    BY <1>2, <1>3, ConstantsTyped DEF IdAt, TypeOK, GameIds
<1>4. free # {}
    <2>. SUFFICES ASSUME free = {} PROVE FALSE
        OBVIOUS
    <2>. DEFINE steps == 0 .. count
                tried == [n \in steps |-> IdAt(n)]
                used == DOMAIN active_games
    <2>1. tried \in [steps -> used]
        OBVIOUS
    <2>2. IsFiniteSet(steps) /\ Cardinality(steps) = count + 1
        BY <1>2, FS_Interval
    <2>3. IsFiniteSet(used) /\ Cardinality(used) < Cardinality(steps)
        BY <1>1, <1>2, <2>2 DEF count
    <2>. HIDE DEF tried, steps, used
    <2>4. \E m, n \in steps : m # n /\ tried[m] = tried[n]
        BY <2>1, <2>2, <2>3, FS_PigeonHole
    <2>. QED
        BY <1>3, <2>4 DEF tried, steps
<1>5. PICK n \in free : \A m \in free : n <= m
    <2>1. free \in SUBSET Nat
        BY <1>2
    <2>. HIDE DEF free
    <2>. QED
        BY <1>4, <2>1, LeastNumber
<1>6. \A m \in 0 .. n - 1 : IdAt(m) \in DOMAIN active_games
    BY <1>2, <1>5
<1>. QED
    BY <1>5, <1>6 DEF NextFreeId, count

\* A handler returns to the loop unless it runs into the endless loop, a torn
\* game, or a failing sendto.
LEMMA HandlersReturn ==
    ASSUME MaxPawn < IdxRange - 1, "send" \notin Faults, TypeOK, TornGamesAreNeverServed, Handle
    PROVE  pc' = "recvfrom"
<1>. DEFINE Returns == pc' = "recvfrom"
<1>. SUFFICES Returns
    OBVIOUS
<1>1. \A msgs : SendAndReturn(msgs) => Returns
    BY DEF SendAndReturn
<1>2. ASSUME FindsGame
      PROVE  /\ ~TheGame.torn
             /\ \A pawns : any_pawn_left_returns(RowAfter(TheGame.pawn_row, pawns))
    <2>1. pc = "dispatch" /\ TheGame \in GameState /\ datagram.game_id \in DOMAIN active_games
        BY <1>2, HandleEffect DEF FindsGame, TheGame, TypeOK
    <2>2. \A pawns : RowAfter(TheGame.pawn_row, pawns) \in SUBSET Pawns
        BY <2>1 DEF RowAfter, GameState
    <2>. QED
        BY <2>1, <2>2, LoopEnds, GameLogicAssumption DEF TornGamesAreNeverServed, TheGame
<1>. HIDE DEF Returns
<1>3. \A size : Reject(size) => Returns
    BY <1>1 DEF Reject
<1>4. \A game : StoreAndReply(game) => Returns
    BY <1>1 DEF StoreAndReply
<1>5. \A first, pawns : FindsGame /\ MakeMove(first, pawns) => Returns
    BY <1>2, <1>4 DEF MakeMove
<1>6. CASE handle_join_game
    BY <1>1, <1>6 DEF handle_join_game, JoinWaitingGame, OpenGame, RefuseGame
<1>7. CASE handle_make_move_one \/ handle_make_move_two
    BY <1>3, <1>5, <1>7 DEF handle_make_move_one, handle_make_move_two, Accepted
<1>8. CASE handle_keep_alive \/ handle_give_up
    BY <1>3, <1>4, <1>8 DEF handle_keep_alive, handle_give_up
<1>9. CASE handle_unknown
    BY <1>1, <1>9 DEF handle_unknown
<1>. QED
    BY <1>6, <1>7, <1>8, <1>9 DEF Handle

\* The thread is in its loop, and the search of a JOIN has an end.
ServiceGoesOn ==
    /\ pc \in {"recvfrom", "dispatch"}
    /\ pc = "dispatch" /\ ~AtCapacity => NextFreeId # {}

\* The safety half of EveryRequestIsHandled.  On a row of at most 255 pawns, on
\* a server started more than a timeout after boot and as long as the system
\* calls on its socket succeed, no sequence of requests, sweeps, wraps of the
\* id counter and failed allocations ever gets the server out of its loop, into
\* a handler that does not return, or into an endless search for a free id.
THEOREM TheServiceAlwaysGoesOn ==
    ASSUME MaxPawn < IdxRange - 1, {"send", "recv"} \cap Faults = {},
           \A u \in StartUptimes : u > Timeout
    PROVE  Spec => []ServiceGoesOn
<1>. DEFINE InLoop == pc \in {"recvfrom", "dispatch"}
<1>1. Init => InLoop
    BY DEF Init
<1>2. ASSUME TypeOK, TornGamesAreNeverServed, InLoop, [Next]_vars
      PROVE  InLoop'
    <2>1. CASE Handle
        BY <1>2, <2>1, HandlersReturn
    <2>2. CASE ~Handle
        BY <1>2, <2>2 DEF Next, Receive, RecvTimeout, RecvFails, Tick, vars
    <2>. QED
        BY <2>1, <2>2
<1>3. TypeOK /\ TornGamesAreNeverServed /\ InLoop /\ [Next]_vars => InLoop'
    BY <1>2
<1>4. TypeOK /\ InLoop => ServiceGoesOn
    BY SearchFindsAnId DEF ServiceGoesOn
<1>5. Spec => []TornGamesAreNeverServed
    BY TornGamesAreNeverEverServed
<1>. QED
    BY <1>1, <1>3, <1>4, <1>5, TypeCorrect, PTL DEF Spec
-----------------------------------------------------------------------------
(* The server that is never delayed. *)

NoTornGames == \A g \in DOMAIN active_games : ~active_games[g].torn

NoneOlder(age) == \A g \in DOMAIN active_games : active_games[g].idle <= age

\* A sweep leaves nothing older than the timeout, and recvfrom adds at most
\* the time it has waited.
AgesBounded ==
    /\ NoTornGames
    /\ pc = "recvfrom" => NoneOlder(Timeout + waited)
    /\ pc = "dispatch" => NoneOlder(Timeout)
    /\ StaleSessionsEndInTime

LEMMA AgesBoundedStep ==
    ASSUME "alloc" \notin Faults, TypeOK, AgesBounded, [PromptNext]_vars
    PROVE  AgesBounded'
<1>1. /\ Timeout \in Nat /\ waited \in 0 .. Timeout
      /\ \A g \in DOMAIN active_games :
             active_games[g] \in GameState /\ active_games[g].idle \in Nat
    BY ConstantsTyped DEF TypeOK, GameState, Ages
<1>2. ASSUME active_games' = Unexpired
      PROVE  /\ NoTornGames' /\ NoneOlder(Timeout)' /\ StaleSessionsEndInTime'
             /\ NoneOlder(Timeout + 0)'
    <2>1. \A g \in DOMAIN active_games' :
              g \in DOMAIN active_games /\ active_games'[g] = active_games[g] /\ ~IsStale(active_games[g])
        BY <1>2, UnexpiredTyped
    <2>2. NoTornGames'
        BY <2>1 DEF AgesBounded, NoTornGames
    <2>3. \A g \in DOMAIN active_games' :
              active_games'[g].idle \in Nat /\ active_games'[g].idle <= Timeout
        BY <1>1, <2>1 DEF IsStale
    <2>. QED
        BY <1>1, <2>2, <2>3 DEF NoneOlder, StaleSessionsEndInTime
<1>3. CASE \E m \in Datagrams : Receive(m)
    BY <1>2, <1>3 DEF Receive, AgesBounded
<1>4. CASE RecvTimeout
    BY <1>2, <1>4 DEF RecvTimeout, AgesBounded, NoneOlder
<1>5. CASE UNCHANGED vars
    BY <1>5 DEF vars, AgesBounded, NoTornGames, NoneOlder, StaleSessionsEndInTime
<1>6. CASE pc = "recvfrom" /\ waited < Timeout /\ Tick
    <2>1. waited' = waited + 1 /\ pc' = "recvfrom"
        BY <1>6 DEF Tick
    <2>2. ASSUME NEW g \in DOMAIN active_games'
          PROVE  /\ ~active_games'[g].torn
                 /\ active_games'[g].idle <= Timeout + waited + 1
        <3>1. /\ g \in DOMAIN active_games
              /\ active_games'[g] = [active_games[g] EXCEPT !.idle = Older(active_games[g].idle)]
            BY <1>6, TickTyped
        <3>2. /\ active_games'[g].torn = active_games[g].torn
              /\ active_games'[g].idle = Older(active_games[g].idle)
            BY <1>1, <3>1 DEF GameState
        <3>. QED
            BY <1>1, <1>6, <3>1, <3>2 DEF AgesBounded, NoTornGames, NoneOlder, Older
    <2>3. \A g \in DOMAIN active_games' : active_games'[g].idle <= 2 * Timeout
        <3>1. \A g \in DOMAIN active_games' : active_games'[g].idle \in Nat
            BY <1>6, TickTyped, ConstantsTyped DEF TypeOK, GameState, Ages
        <3>. QED
            BY <1>1, <1>6, <2>2, <3>1
    <2>. QED
        BY <1>1, <2>1, <2>2, <2>3 DEF AgesBounded, NoTornGames, NoneOlder, StaleSessionsEndInTime
<1>7. CASE Handle
    <2>1. pc = "dispatch" /\ pc' # "dispatch" /\ (pc' = "recvfrom" => waited' = 0)
        BY <1>7, HandleEffect, HandlersEnd
    <2>2. ASSUME NEW g \in DOMAIN active_games'
          PROVE  ~active_games'[g].torn /\ active_games'[g].idle <= Timeout
        <3>1. CASE g \in DOMAIN active_games /\ Aged(active_games'[g], active_games[g])
            BY <1>1, <2>1, <3>1 DEF Aged, AgesBounded, NoTornGames, NoneOlder
        <3>2. CASE active_games'[g] = NewGame(datagram.player_id)
            BY <1>1, <3>2 DEF NewGame
        <3>. QED
            BY <1>7, <3>1, <3>2, HandlersAges
    <2>3. \A g \in DOMAIN active_games' : active_games'[g].idle <= 2 * Timeout
        <3>1. \A g \in DOMAIN active_games' : active_games'[g].idle \in Nat
            <4>1. [Next]_vars
                BY <1>7 DEF Next
            <4>. QED
                BY <4>1, NextTyped, ConstantsTyped DEF TypeOK, GameState, Ages
        <3>. QED
            BY <1>1, <2>2, <3>1
    <2>. QED
        BY <1>1, <2>1, <2>2, <2>3 DEF AgesBounded, NoTornGames, NoneOlder, StaleSessionsEndInTime
<1>. QED
    BY <1>3, <1>4, <1>5, <1>6, <1>7 DEF PromptNext

\* No session outlives its last activity by more than two timeouts, on a
\* server that handles what it has before time passes and never runs out of
\* memory - though nothing but the loop removes sessions, and it sleeps.
THEOREM StaleSessionsAlwaysEndInTime ==
    ASSUME "alloc" \notin Faults
    PROVE  PromptSpec => []StaleSessionsEndInTime
<1>1. Init => AgesBounded
    BY DEF Init, AgesBounded, NoTornGames, NoneOlder, StaleSessionsEndInTime
<1>2. TypeOK /\ [PromptNext]_vars => TypeOK'
    BY NextTyped DEF PromptNext, Next
<1>3. TypeOK /\ AgesBounded /\ [PromptNext]_vars => AgesBounded'
    BY AgesBoundedStep
<1>4. AgesBounded => StaleSessionsEndInTime
    BY DEF AgesBounded
<1>. QED
    BY InitTyped, <1>1, <1>2, <1>3, <1>4, PTL DEF PromptSpec
-----------------------------------------------------------------------------
(* The answers. *)

\* There is always an id the capacity keeps free.
SessionsBounded == Cardinality(DOMAIN active_games) <= UINT32_MAX - 1

LEMMA SessionsBoundedStep ==
    ASSUME TypeOK, SessionsBounded, [Next]_vars
    PROVE  SessionsBounded'
<1>1. IsFiniteSet(DOMAIN active_games) /\ Cardinality(DOMAIN active_games) \in Nat
    <2>1. IsFiniteSet(GameIds)
        BY FS_Interval, ConstantsTyped DEF GameIds
    <2>2. DOMAIN active_games \in SUBSET GameIds
        BY DEF TypeOK
    <2>. QED
        BY <2>1, <2>2, FS_Subset, FS_CardinalityType
<1>2. ASSUME DOMAIN active_games' \subseteq DOMAIN active_games
      PROVE  SessionsBounded'
    <2>1. DOMAIN active_games' \in SUBSET (DOMAIN active_games)
        BY <1>2
    <2>2. /\ Cardinality(DOMAIN active_games') <= Cardinality(DOMAIN active_games)
          /\ Cardinality(DOMAIN active_games') \in Nat
        BY <1>1, <2>1, FS_Subset, FS_CardinalityType
    <2>. QED
        BY <1>1, <2>2, ConstantsTyped DEF SessionsBounded
<1>3. ASSUME NEW g, DOMAIN active_games' = DOMAIN active_games \cup {g}, ~AtCapacity
      PROVE  SessionsBounded'
    <2>1. Cardinality(DOMAIN active_games \cup {g}) =
              IF g \in DOMAIN active_games THEN Cardinality(DOMAIN active_games)
              ELSE Cardinality(DOMAIN active_games) + 1
        BY <1>1, FS_AddElement, Zenon
    <2>2. Cardinality(DOMAIN active_games') \in {Cardinality(DOMAIN active_games),
                                                Cardinality(DOMAIN active_games) + 1}
        BY <1>3, <2>1
    <2>. QED
        BY <1>1, <1>3, <2>2, ConstantsTyped DEF SessionsBounded, AtCapacity
<1>4. CASE ~Handle
    BY <1>2, <1>4, OtherStepsOnGames
<1>5. CASE Handle
    <2>1. \A g, game : DOMAIN Put(g, game) = DOMAIN active_games \cup {g}
        BY DEF Put
    <2>2. ASSUME NEW g \in DOMAIN active_games, NEW game, active_games' = Put(g, game)
          PROVE  SessionsBounded'
        <3>1. DOMAIN active_games' = DOMAIN active_games \cup {g}
            BY <2>1, <2>2
        <3>2. DOMAIN active_games' \subseteq DOMAIN active_games
            BY <2>2, <3>1
        <3>. QED
            BY <1>2, <3>2
    <2>3. ASSUME UNCHANGED active_games
          PROVE  SessionsBounded'
        BY <2>3, <1>2
    <2>4. CASE Refuses
        BY <2>3, <2>4 DEF Refuses
    <2>5. CASE Seats
        BY <2>2, <2>5 DEF Seats, WaitingGames
    <2>6. CASE Opens
        <3>1. PICK g \in NextFreeId :
                  \E game \in {NewGame(datagram.player_id), TornGame(datagram.player_id)} :
                      active_games' \in {active_games, Put(g, game)}
            BY <2>6 DEF Opens
        <3>2. PICK game : active_games' = active_games \/ active_games' = Put(g, game)
            BY <3>1
        <3>3. CASE active_games' = Put(g, game)
            <4>1. DOMAIN active_games' = DOMAIN active_games \cup {g}
                BY <2>1, <3>3
            <4>. QED
                BY <1>3, <2>6, <4>1 DEF Opens
        <3>. QED
            BY <2>3, <3>2, <3>3
    <2>7. ASSUME Named
          PROVE  datagram.game_id \in DOMAIN active_games
        BY <2>7 DEF Named, FindsGame
    <2>8. ASSUME NEW pawns, MovesOn(pawns) \/ Hangs(pawns)
          PROVE  SessionsBounded'
        BY <2>2, <2>7, <2>8 DEF MovesOn, Hangs, Moves
    <2>9. CASE Looks
        BY <2>2, <2>3, <2>7, <2>9 DEF Looks
    <2>10. CASE GivesUp
        BY <2>2, <2>7, <2>10 DEF GivesUp
    <2>. QED
        BY <1>5, <2>4, <2>5, <2>6, <2>8, <2>9, <2>10, HandleEffect DEF Effect
<1>. QED
    BY <1>4, <1>5

\* What a handler sends is what its client gets, if it comes to that.
LEMMA Sent ==
    ASSUME NEW msgs, SendAndReturn(msgs), pc' = "recvfrom"
    PROVE  replies' = msgs
BY DEF SendAndReturn

\* The complaints of a handler.
LEMMA Complaints ==
    ASSUME TypeOK, NEW size \in 1 .. 10,
           NEW msgs \in {Rejection(size), <<WrongMessage(FormatErrorIndex(size))>>,
                         <<WrongMessage(ERROR_IDX_TYPE)>>},
           UNCHANGED <<active_games, next_game_id>>, SendAndReturn(msgs), pc' = "recvfrom"
    PROVE  IsRejected
<1>1. replies' = msgs
    BY Sent
<1>2. datagram.len \in Nat
    BY DEF TypeOK, Datagram
<1>3. FormatErrorIndex(size) < 12 /\ LookupErrorIndex < 12 /\ ERROR_IDX_GAME < 12 /\ ERROR_IDX_TYPE < 12
    BY <1>2 DEF FormatErrorIndex, LookupErrorIndex, OFF_PLAYER_ID, ERROR_IDX_PLAYER,
                ERROR_IDX_GAME, ERROR_IDX_TYPE
<1>4. \A index : WrongMessage(index).kind = "WRONG_MSG" /\ WrongMessage(index).error_index = index
    BY DEF WrongMessage
<1>5. \/ \E e : e < 12 /\ msgs = <<WrongMessage(e)>>
      \/ \E e, f : e < 12 /\ f < 12 /\ msgs = <<WrongMessage(e), WrongMessage(f)>>
    BY <1>3 DEF Rejection
<1>6. CASE \E e : e < 12 /\ msgs = <<WrongMessage(e)>>
    BY <1>1, <1>4, <1>6 DEF IsRejected
<1>7. CASE \E e, f : e < 12 /\ f < 12 /\ msgs = <<WrongMessage(e), WrongMessage(f)>>
    <2>1. PICK e, f : e < 12 /\ f < 12 /\ msgs = <<WrongMessage(e), WrongMessage(f)>>
        BY <1>7
    <2>2. \A k \in 1 .. Len(msgs) : msgs[k] = WrongMessage(e) \/ msgs[k] = WrongMessage(f)
        BY <2>1
    <2>. QED
        BY <1>1, <1>4, <2>1, <2>2 DEF IsRejected
<1>. QED
    BY <1>5, <1>6, <1>7

\* A handler that has found the game of its request answers with it.
LEMMA ShownGame ==
    ASSUME FindsGame, datagram.type # 0, NEW game, StoreAndReply(game), pc' = "recvfrom"
    PROVE  ShowsTheGame
<1>. DEFINE g == datagram.game_id
<1>1. g \in DOMAIN active_games' /\ active_games'[g] = game
    BY DEF StoreAndReply, Put
<1>2. replies' = <<StateMessage(g, game)>>
    BY Sent DEF StoreAndReply
<1>. QED
    BY <1>1, <1>2 DEF ShowsTheGame, IsStateOf

LEMMA MovesShowTheGame ==
    ASSUME FindsGame, datagram.type # 0, NEW first, NEW pawns, MakeMove(first, pawns),
           pc' = "recvfrom"
    PROVE  ShowsTheGame
<1>1. PICK game : StoreAndReply(game)
    BY DEF MakeMove, StopAt
<1>. QED
    BY <1>1, ShownGame

\* A correct JOIN: a free seat, a game of its own, or nothing.
LEMMA JoinsAreAnswered ==
    ASSUME TypeOK, SeatsMatchStatus, SessionsBounded,
           handle_join_game, WellFormed(JOIN_SIZE), pc' = "recvfrom"
    PROVE  ShowsTheSeat \/ IsIgnored
<1>. DEFINE p == datagram.player_id
<1>1. datagram.type = 0 /\ \A g \in DOMAIN active_games : active_games[g] \in GameState
    BY DEF handle_join_game, Handling, TypeOK
<1>2. WaitingGames = {} => \A g \in DOMAIN active_games : active_games[g].player_b_id # 0
    BY DEF WaitingGames, IsWaiting, SeatsMatchStatus
<1>3. ASSUME NEW g, NEW game, active_games' = Put(g, game), SendAndReturn(<<StateMessage(g, game)>>)
      PROVE  /\ Len(replies') = 1 /\ g \in DOMAIN active_games' /\ active_games'[g] = game
             /\ IsStateOf(replies'[1], g, active_games')
    <2>1. g \in DOMAIN active_games' /\ active_games'[g] = game
        BY <1>3 DEF Put
    <2>2. replies' = <<StateMessage(g, game)>>
        BY <1>3, Sent
    <2>. QED
        BY <2>1, <2>2 DEF IsStateOf
<1>4. CASE JoinWaitingGame(p)
    <2>1. PICK g \in WaitingGames :
             /\ active_games' = Put(g, Seated(active_games[g], p))
             /\ SendAndReturn(<<StateMessage(g, Seated(active_games[g], p))>>)
        BY <1>4 DEF JoinWaitingGame
    <2>2. g \in DOMAIN active_games /\ active_games[g].player_b_id = 0
        BY <2>1 DEF WaitingGames, IsWaiting, SeatsMatchStatus
    <2>3. Seated(active_games[g], p).player_b_id = p
        BY <1>1, <2>2 DEF Seated, GameState
    <2>. QED
        BY <1>1, <1>3, <2>1, <2>2, <2>3 DEF ShowsTheSeat
<1>5. CASE OpenGame(p)
    <2>1. PICK g \in NextFreeId :
             /\ next_game_id' = IdAfter(g)
             /\ \/ active_games' = Put(g, NewGame(p)) /\ SendAndReturn(<<StateMessage(g, NewGame(p))>>)
                \/ "alloc" \in Faults /\ SendAndReturn(<<>>)
        BY <1>5 DEF OpenGame
    <2>2. g \notin DOMAIN active_games
        BY <2>1, NextFreeIdTyped
    <2>3. CASE active_games' = Put(g, NewGame(p)) /\ SendAndReturn(<<StateMessage(g, NewGame(p))>>)
        <3>1. NewGame(p).player_a_id = p
            BY DEF NewGame
        <3>. QED
            BY <1>1, <1>3, <2>2, <2>3, <3>1 DEF ShowsTheSeat
    <2>4. CASE "alloc" \in Faults /\ SendAndReturn(<<>>)
        <3>1. ~AtCapacity /\ WaitingGames = {}
            BY <1>5 DEF OpenGame
        <3>2. next_game_id' # next_game_id
            BY <2>1, <3>1, CounterMovesOn
        <3>3. Cardinality(DOMAIN active_games) < UINT32_MAX - 1
            BY <3>1, GamesAreFinite, ConstantsTyped DEF AtCapacity
        <3>. QED
            BY <1>1, <1>2, <2>4, <3>1, <3>2, <3>3, Sent DEF IsIgnored
    <2>. QED
        BY <2>1, <2>3, <2>4
<1>6. CASE RefuseGame
    <2>1. Cardinality(DOMAIN active_games) = UINT32_MAX - 1
        BY <1>6, GamesAreFinite, ConstantsTyped DEF RefuseGame, AtCapacity, SessionsBounded
    <2>. QED
        BY <1>1, <1>2, <1>6, <2>1, Sent DEF RefuseGame, IsIgnored
<1>. QED
    BY <1>4, <1>5, <1>6 DEF handle_join_game

\* Every request that is handled to its end is answered as documented: shown
\* the state it produced if it is correct, rejected without effect if not.
THEOREM RequestsAreAlwaysAnswered == Spec => RequestContract
<1>. DEFINE Contract == pc = "dispatch" /\ pc' = "recvfrom" =>
          IF IsCorrect THEN ShowsTheGame \/ ShowsTheSeat \/ IsIgnored ELSE IsRejected
<1>1. ASSUME TypeOK, SeatsMatchStatus, SessionsBounded, [Next]_vars
      PROVE  [Contract]_vars
    <2>. SUFFICES ASSUME Next, pc = "dispatch", pc' = "recvfrom"
                  PROVE  IF IsCorrect THEN ShowsTheGame \/ ShowsTheSeat \/ IsIgnored ELSE IsRejected
        BY <1>1
    <2>1. Handle
        BY DEF Next, Receive, RecvTimeout, RecvFails, Tick
    <2>2. /\ JOIN_SIZE = 5 /\ MOVE_SIZE = 10 /\ KEEP_ALIVE_SIZE = 9 /\ GIVE_UP_SIZE = 9
          /\ \A size : WellFormed(size) <=> datagram.len = size /\ datagram.player_id > 0
          /\ FindsGame <=> NamesOwnGame
        BY <1>1 DEF JOIN_SIZE, MOVE_SIZE, KEEP_ALIVE_SIZE, GIVE_UP_SIZE, WellFormed,
                    INVALID_PLAYER_ID, FindsGame, IsPlayerOf, NamesOwnGame, TypeOK, Datagram
    <2>3. ASSUME NEW size \in 1 .. 10, Reject(size), UNCHANGED next_game_id
          PROVE  IsRejected
        BY <1>1, <2>3, Complaints DEF Reject
    <2>4. CASE handle_join_game
        <3>1. datagram.type = 0
            BY <2>4 DEF handle_join_game, Handling
        <3>2. CASE WellFormed(JOIN_SIZE)
            BY <1>1, <2>2, <2>4, <3>1, <3>2, JoinsAreAnswered DEF IsCorrect
        <3>3. CASE ~WellFormed(JOIN_SIZE)
            <4>1. IsRejected
                BY <1>1, <2>2, <2>4, <3>3, Complaints DEF handle_join_game
            <4>. QED
                BY <2>2, <3>1, <3>3, <4>1 DEF IsCorrect
        <3>. QED
            BY <3>2, <3>3
    <2>5. ASSUME NEW type \in {1, 2}, NEW first, NEW pawns, datagram.type = type,
                 UNCHANGED next_game_id,
                 Reject(MOVE_SIZE) \/ (Accepted(MOVE_SIZE) /\ MakeMove(first, pawns))
          PROVE  IF IsCorrect THEN ShowsTheGame ELSE IsRejected
        BY <2>2, <2>3, <2>5, MovesShowTheGame DEF IsCorrect, Accepted, Reject
    <2>6. CASE handle_make_move_one \/ handle_make_move_two
        BY <2>5, <2>6 DEF handle_make_move_one, handle_make_move_two, Handling
    <2>7. CASE handle_keep_alive
        BY <2>2, <2>3, <2>7, ShownGame DEF handle_keep_alive, Handling, IsCorrect, Accepted, Reject
    <2>8. CASE handle_give_up
        BY <2>2, <2>3, <2>8, ShownGame DEF handle_give_up, Handling, IsCorrect, Accepted, Reject
    <2>9. CASE handle_unknown
        <3>1. ~IsCorrect
            BY <2>9 DEF handle_unknown, IsCorrect
        <3>. QED
            BY <1>1, <2>9, <3>1, Complaints DEF handle_unknown
    <2>. QED
        BY <2>1, <2>4, <2>6, <2>7, <2>8, <2>9 DEF Handle
<1>2. Init => SessionsBounded
    BY FS_EmptySet, ConstantsTyped DEF Init, SessionsBounded
<1>3. TypeOK /\ SessionsBounded /\ [Next]_vars => SessionsBounded'
    BY SessionsBoundedStep
<1>4. TypeOK /\ SeatsMatchStatus /\ SessionsBounded /\ [Next]_vars => [Contract]_vars
    BY <1>1
<1>. QED
    BY <1>2, <1>3, <1>4, TypeCorrect, SeatsAlwaysMatchStatus, PTL DEF Spec, RequestContract
-----------------------------------------------------------------------------
(* What an answer is about, whether or not the sends after it succeed. *)

\* The loop answers a request before it receives the next.
NothingSentYet == pc = "dispatch" => replies = <<>>

LEMMA NothingSentYetStep ==
    ASSUME NothingSentYet, [Next]_vars
    PROVE  NothingSentYet'
<1>1. CASE Handle
    BY <1>1, HandlersEnd DEF NothingSentYet
<1>. QED
    BY <1>1 DEF Next, Receive, RecvTimeout, RecvFails, Tick, vars, NothingSentYet

\* A request as long as its type wants it.
HasItsSize(d) ==
    \/ d.type = 0 /\ d.len = JOIN_SIZE
    \/ d.type \in {1, 2} /\ d.len = MOVE_SIZE
    \/ d.type = 3 /\ d.len = KEEP_ALIVE_SIZE
    \/ d.type = 4 /\ d.len = GIVE_UP_SIZE

\* The state that the request at hand has left a game in - a game in which its
\* player sits, and the one it names if it names any.
IsStateOfItsGame(reply, g) ==
    /\ g \in DOMAIN active_games'
    /\ reply = StateMessage(g, active_games'[g])
    /\ IsPlayerOf(active_games'[g], datagram.player_id)
    /\ datagram.type # 0 => g = datagram.game_id

\* A complaint about one of the bytes of the request.
IsComplaint(reply) ==
    \E index \in Nat : index < datagram.len /\ reply = WrongMessage(index)

IsAnswer(reply) == IsComplaint(reply) \/ \E g \in GameIds : IsStateOfItsGame(reply, g)

LEMMA OwnSizeRejection ==
    ASSUME datagram.len \in {JOIN_SIZE, MOVE_SIZE, KEEP_ALIVE_SIZE, GIVE_UP_SIZE},
           datagram.len # JOIN_SIZE \/ ~WellFormed(datagram.len),
           NEW k \in 1 .. Len(Rejection(datagram.len))
    PROVE  IsComplaint(Rejection(datagram.len)[k])
<1>1. /\ datagram.len \in Nat /\ datagram.len > 1
      /\ WellFormed(datagram.len) => datagram.len > 5
    BY DEF JOIN_SIZE, MOVE_SIZE, KEEP_ALIVE_SIZE, GIVE_UP_SIZE
<1>2. FormatErrorIndex(datagram.len) = 1 /\ LookupErrorIndex \in {1, 5} /\ ERROR_IDX_GAME = 5
    BY <1>1 DEF FormatErrorIndex, LookupErrorIndex, OFF_PLAYER_ID, ERROR_IDX_PLAYER, ERROR_IDX_GAME
<1>3. \A index \in {1, 5} : index < datagram.len => IsComplaint(WrongMessage(index))
    BY DEF IsComplaint
<1>4. CASE WellFormed(datagram.len)
    <2>1. Rejection(datagram.len) = <<WrongMessage(LookupErrorIndex), WrongMessage(ERROR_IDX_GAME)>>
        BY <1>4 DEF Rejection
    <2>2. k \in {1, 2}
        BY <2>1
    <2>3. Rejection(datagram.len)[k] \in {WrongMessage(LookupErrorIndex), WrongMessage(ERROR_IDX_GAME)}
        BY <2>1, <2>2
    <2>. QED
        BY <1>1, <1>2, <1>3, <1>4, <2>3
<1>5. CASE ~WellFormed(datagram.len)
    <2>1. Rejection(datagram.len) = <<WrongMessage(1)>>
        BY <1>2, <1>5 DEF Rejection
    <2>. QED
        BY <1>1, <1>3, <2>1
<1>. QED
    BY <1>4, <1>5

\* Every datagram a handler sends is about its request: also the first of two
\* when the second cannot be sent.
LEMMA HandlersAnswer ==
    ASSUME TypeOK, Handle, replies = <<>>, HasItsSize(datagram),
           NEW n \in 1 .. Len(replies')
    PROVE  IsAnswer(replies'[n])
<1>. DEFINE Answers(msgs) == \A k \in 1 .. Len(msgs) : IsAnswer(msgs[k])
            p == datagram.player_id
<1>. SUFFICES Answers(replies')
    OBVIOUS
<1>1. ASSUME NEW msgs \in Seq(Reply), SendAndReturn(msgs), Answers(msgs)
      PROVE  Answers(replies')
    <2>1. CASE replies' = msgs
        BY <1>1, <2>1
    <2>2. ASSUME NEW k \in 1 .. Len(msgs), replies' = SubSeq(msgs, 1, k - 1)
          PROVE  Answers(replies')
        <3>1. Len(replies') = k - 1 /\ \A j \in 1 .. k - 1 : replies'[j] = msgs[j]
            BY <2>2
        <3>. QED
            BY <1>1, <2>2, <3>1
    <2>. QED
        BY <1>1, <2>1, <2>2 DEF SendAndReturn
<1>2. \A where : StopAt(where) => Answers(replies')
    BY DEF StopAt
<1>3. SendAndReturn(<<>>) => Answers(replies')
    <2>1. <<>> \in Seq(Reply) /\ Answers(<<>>)
        OBVIOUS
    <2>. QED
        BY <1>1, <2>1
<1>4. ASSUME NEW g \in GameIds, NEW game \in GameState, active_games' = Put(g, game),
             SendAndReturn(<<StateMessage(g, game)>>), IsPlayerOf(game, p),
             datagram.type # 0 => g = datagram.game_id
      PROVE  Answers(replies')
    <2>1. g \in DOMAIN active_games' /\ active_games'[g] = game
        BY <1>4 DEF Put
    <2>2. IsStateOfItsGame(StateMessage(g, game), g)
        BY <1>4, <2>1 DEF IsStateOfItsGame
    <2>3. IsAnswer(StateMessage(g, game))
        BY <2>2 DEF IsAnswer
    <2>4. <<StateMessage(g, game)>> \in Seq(Reply)
        BY StateMessageTyped
    <2>. HIDE DEF Answers
    <2>5. Answers(<<StateMessage(g, game)>>)
        BY <2>3 DEF Answers
    <2>. QED
        BY <1>1, <1>4, <2>4, <2>5
<1>5. ASSUME SendAndReturn(Rejection(datagram.len)),
             datagram.len \in {JOIN_SIZE, MOVE_SIZE, KEEP_ALIVE_SIZE, GIVE_UP_SIZE},
             datagram.len # JOIN_SIZE \/ ~WellFormed(datagram.len)
      PROVE  Answers(replies')
    <2>1. Rejection(datagram.len) \in Seq(Reply)
        BY RejectionTyped DEF TypeOK, Datagram
    <2>2. Answers(Rejection(datagram.len))
        BY <1>5, OwnSizeRejection DEF IsAnswer
    <2>. QED
        BY <1>1, <1>5, <2>1, <2>2
<1>. HIDE DEF Answers
<1>6. /\ datagram.player_id \in Nat
      /\ \A g \in DOMAIN active_games : g \in GameIds /\ active_games[g] \in GameState
    BY DEF TypeOK, Datagram
<1>7. ASSUME handle_join_game
      PROVE  Answers(replies')
    <2>1. datagram.type = 0 /\ datagram.len = JOIN_SIZE
        BY <1>7 DEF handle_join_game, Handling, HasItsSize
    <2>2. CASE ~WellFormed(JOIN_SIZE)
        BY <1>5, <1>7, <2>1, <2>2 DEF handle_join_game, Rejection
    <2>3. CASE JoinWaitingGame(p)
        <3>1. PICK g \in DOMAIN active_games :
                 /\ active_games' = Put(g, Seated(active_games[g], p))
                 /\ SendAndReturn(<<StateMessage(g, Seated(active_games[g], p))>>)
            BY <2>3 DEF JoinWaitingGame, WaitingGames
        <3>2. /\ Seated(active_games[g], p) \in GameState
              /\ IsPlayerOf(Seated(active_games[g], p), p)
            BY <1>6, GamesTyped DEF Seated, IsPlayerOf, GameState
        <3>. QED
            BY <1>4, <1>6, <2>1, <3>1, <3>2
    <2>4. CASE OpenGame(p)
        <3>1. PICK g \in NextFreeId :
                 \/ active_games' = Put(g, NewGame(p)) /\ SendAndReturn(<<StateMessage(g, NewGame(p))>>)
                 \/ SendAndReturn(<<>>)
            BY <2>4 DEF OpenGame
        <3>2. g \in GameIds /\ NewGame(p) \in GameState /\ IsPlayerOf(NewGame(p), p)
            BY <1>6, NextFreeIdTyped, GamesTyped DEF NewGame, IsPlayerOf
        <3>. QED
            BY <1>3, <1>4, <2>1, <3>1, <3>2
    <2>5. CASE RefuseGame
        BY <1>3, <2>5 DEF RefuseGame
    <2>. QED
        BY <1>7, <2>2, <2>3, <2>4, <2>5 DEF handle_join_game
<1>8. ASSUME datagram.len \in {MOVE_SIZE, KEEP_ALIVE_SIZE, GIVE_UP_SIZE}, Reject(datagram.len)
      PROVE  Answers(replies')
    <2>1. datagram.len # JOIN_SIZE
        BY <1>8 DEF JOIN_SIZE, MOVE_SIZE, KEEP_ALIVE_SIZE, GIVE_UP_SIZE
    <2>. QED
        BY <1>5, <1>8, <2>1 DEF Reject
<1>9. ASSUME FindsGame, datagram.type # 0, NEW game \in GameState, StoreAndReply(game),
             game.player_a_id = TheGame.player_a_id, game.player_b_id = TheGame.player_b_id
      PROVE  Answers(replies')
    BY <1>4, <1>6, <1>9 DEF FindsGame, TheGame, IsPlayerOf, StoreAndReply
<1>10. ASSUME FindsGame
       PROVE  /\ TheGame \in GameState
              /\ Touched(TheGame) \in GameState
              /\ Forfeited(TheGame, p) \in GameState
              /\ \A pawns : Moved(TheGame, RowAfter(TheGame.pawn_row, pawns)) \in GameState
    BY <1>6, <1>10, GamesTyped DEF FindsGame, TheGame
<1>11. \A game \in GameState : \A row :
          \A new \in {Touched(game), Forfeited(game, p), Moved(game, row)} :
              new.player_a_id = game.player_a_id /\ new.player_b_id = game.player_b_id
    BY DEF Touched, Forfeited, Moved, GameState
<1>12. ASSUME FindsGame, datagram.type # 0, NEW first, NEW pawns, MakeMove(first, pawns)
       PROVE  Answers(replies')
    BY <1>2, <1>9, <1>10, <1>11, <1>12 DEF MakeMove
<1>13. CASE handle_make_move_one \/ handle_make_move_two
    <2>1. datagram.len = MOVE_SIZE /\ datagram.type # 0
        BY <1>13 DEF handle_make_move_one, handle_make_move_two, Handling, HasItsSize
    <2>. QED
        BY <1>8, <1>12, <1>13, <2>1 DEF handle_make_move_one, handle_make_move_two, Accepted
<1>14. CASE handle_keep_alive
    <2>1. datagram.len = KEEP_ALIVE_SIZE /\ datagram.type # 0
        BY <1>14 DEF handle_keep_alive, Handling, HasItsSize
    <2>. QED
        BY <1>8, <1>9, <1>10, <1>11, <1>14, <2>1 DEF handle_keep_alive, Accepted
<1>15. CASE handle_give_up
    <2>1. datagram.len = GIVE_UP_SIZE /\ datagram.type # 0
        BY <1>15 DEF handle_give_up, Handling, HasItsSize
    <2>. QED
        BY <1>8, <1>9, <1>10, <1>11, <1>15, <2>1 DEF handle_give_up, Accepted
<1>16. ~handle_unknown
    BY DEF handle_unknown, HasItsSize, JOIN_SIZE, MOVE_SIZE, KEEP_ALIVE_SIZE, GIVE_UP_SIZE
<1>. QED
    BY <1>7, <1>13, <1>14, <1>15, <1>16 DEF Handle
==============================================================================
