-------------------------- MODULE KaylesSystemProofs --------------------------
(***************************************************************************)
(* Among its clients and behind its network the server is still the server *)
(* of KaylesServer, so that what is proved of it there holds here; the     *)
(* copies the network makes of a request act once; and what the clients    *)
(* print is about what was typed and agrees with what the others print.    *)
(***************************************************************************)
EXTENDS KaylesSystem, KaylesSessionProofs, WireFormatProofs

\* Only what some client has sent is in the network.
RequestsTyped == \A r \in requests : DecodedRequest(r.bytes) \in Datagrams

LEMMA SystemStep ==
    ASSUME RequestsTyped, [SystemNext]_<<vars, netVars>>
    PROVE  RequestsTyped' /\ [Next]_vars
<1>1. ASSUME NEW c \in Clients, ClientSend(c)
      PROVE  RequestsTyped' /\ UNCHANGED vars
    <2>1. CASE UNCHANGED requests
        BY <1>1, <2>1 DEF ClientSend, RequestsTyped
    <2>2. CASE \E parts \in Typed :
                  /\ ~IsFatal(parts)
                  /\ requests' = requests \cup
                        {[from |-> c, bytes |-> serialize_message(parts)]}
        BY <1>1, <2>2, SystemAssumption DEF ClientSend, RequestsTyped
    <2>. QED
        BY <1>1, <2>1, <2>2 DEF ClientSend
<1>2. ASSUME NEW c \in Clients, ClientReceive(c) \/ ClientTimeout(c)
      PROVE  RequestsTyped' /\ UNCHANGED vars
    BY <1>2 DEF ClientReceive, ClientTimeout, RequestsTyped
<1>3. ASSUME NEW r \in requests, Deliver(r)
      PROVE  RequestsTyped' /\ Next
    BY <1>3 DEF Deliver, RequestsTyped, Next
<1>4. ASSUME Serve
      PROVE  RequestsTyped' /\ Next
    BY <1>4 DEF Serve, RequestsTyped, Next
<1>5. ASSUME ServerAlone
      PROVE  RequestsTyped' /\ Next
    BY <1>5 DEF ServerAlone, netVars, RequestsTyped, Next
<1>6. CASE UNCHANGED <<vars, netVars>>
    BY <1>6 DEF netVars, RequestsTyped
<1>. QED
    BY <1>1, <1>2, <1>3, <1>4, <1>5, <1>6 DEF SystemNext

\* Every behaviour of the system is, for the server, a behaviour of its own
\* specification: no theorem about KaylesServer is lost behind the network.
THEOREM SystemRunsTheServer == SystemSpec => Spec
<1>1. SystemInit => Init /\ RequestsTyped
    BY DEF SystemInit, RequestsTyped
<1>2. RequestsTyped /\ [SystemNext]_<<vars, netVars>> => RequestsTyped' /\ [Next]_vars
    BY SystemStep
<1>. QED
    BY <1>1, <1>2, PTL DEF SystemSpec, Spec
-----------------------------------------------------------------------------
(* What a run of the client does. *)

ClientRecords ==
    /\ DOMAIN client = Clients
    /\ \A c \in Clients : DOMAIN client[c] = {"state", "parts", "shown"}

Becomes(c, state, parts, shown) ==
    /\ \A b \in Clients \ {c} : client'[b] = client[b]
    /\ client'[c].state = state /\ client'[c].parts = parts /\ client'[c].shown = shown

LEMMA ClientBecomes ==
    ASSUME ClientRecords, NEW c \in Clients, NEW state, NEW new
    PROVE  /\ client' = [client EXCEPT ![c].state = state] =>
                 ClientRecords' /\ Becomes(c, state, client[c].parts, client[c].shown)
           /\ client' = [client EXCEPT ![c].state = state, ![c].parts = new] =>
                 ClientRecords' /\ Becomes(c, state, new, client[c].shown)
           /\ client' = [client EXCEPT ![c].state = state, ![c].shown = new] =>
                 ClientRecords' /\ Becomes(c, state, client[c].parts, new)
<1>. DEFINE now == [client[c] EXCEPT !.state = state]
            first == [client EXCEPT ![c] = now]
<1>1. DOMAIN now = {"state", "parts", "shown"}
      /\ now.state = state /\ now.parts = client[c].parts /\ now.shown = client[c].shown
    BY DEF ClientRecords
<1>2. DOMAIN first = Clients /\ first[c] = now /\ \A b \in Clients \ {c} : first[b] = client[b]
    BY DEF ClientRecords
<1>3. \A b \in Clients : DOMAIN client[b] = {"state", "parts", "shown"}
    BY DEF ClientRecords
<1>. HIDE DEF now
<1>4. client' = [client EXCEPT ![c].state = state] =>
          ClientRecords' /\ Becomes(c, state, client[c].parts, client[c].shown)
    <2>1. client' = [client EXCEPT ![c].state = state] => client' = first
        BY DEF now
    <2>. HIDE DEF first
    <2>. QED
        BY <1>1, <1>2, <1>3, <2>1 DEF ClientRecords, Becomes
<1>5. client' = [client EXCEPT ![c].state = state, ![c].parts = new] =>
          ClientRecords' /\ Becomes(c, state, new, client[c].shown)
    <2>1. client' = [client EXCEPT ![c].state = state, ![c].parts = new] =>
              client' = [first EXCEPT ![c] = [first[c] EXCEPT !.parts = new]]
        BY DEF now
    <2>. HIDE DEF first
    <2>2. client' = [first EXCEPT ![c] = [first[c] EXCEPT !.parts = new]] =>
              /\ DOMAIN client' = Clients /\ client'[c] = [now EXCEPT !.parts = new]
              /\ \A b \in Clients \ {c} : client'[b] = client[b]
        BY <1>2
    <2>3. LET then == [now EXCEPT !.parts = new] IN
              /\ DOMAIN then = {"state", "parts", "shown"}
              /\ then.state = state /\ then.parts = new /\ then.shown = client[c].shown
        BY <1>1
    <2>. QED
        BY <1>3, <2>1, <2>2, <2>3 DEF ClientRecords, Becomes
<1>6. client' = [client EXCEPT ![c].state = state, ![c].shown = new] =>
          ClientRecords' /\ Becomes(c, state, client[c].parts, new)
    <2>1. client' = [client EXCEPT ![c].state = state, ![c].shown = new] =>
              client' = [first EXCEPT ![c] = [first[c] EXCEPT !.shown = new]]
        BY DEF now
    <2>. HIDE DEF first
    <2>2. client' = [first EXCEPT ![c] = [first[c] EXCEPT !.shown = new]] =>
              /\ DOMAIN client' = Clients /\ client'[c] = [now EXCEPT !.shown = new]
              /\ \A b \in Clients \ {c} : client'[b] = client[b]
        BY <1>2
    <2>3. LET then == [now EXCEPT !.shown = new] IN
              /\ DOMAIN then = {"state", "parts", "shown"}
              /\ then.state = state /\ then.parts = client[c].parts /\ then.shown = new
        BY <1>1
    <2>. QED
        BY <1>3, <2>1, <2>2, <2>3 DEF ClientRecords, Becomes
<1>. QED
    BY <1>4, <1>5, <1>6

\* What is printed of an answer, as the client keeps it.
View(a) == [reply |-> Displayed(a.answer), serial |-> a.serial]

Sends(c) ==
    /\ client[c].state = "new"
    /\ Becomes(c, "reading", client'[c].parts, client[c].shown)
    /\ client'[c].parts \in Typed /\ ~IsFatal(client'[c].parts)
    /\ requests' = requests \cup {[from |-> c, bytes |-> serialize_message(client'[c].parts)]}
    /\ UNCHANGED answers

Leaves(c) ==
    /\ Becomes(c, "exited", client[c].parts, client[c].shown)
    /\ UNCHANGED requests /\ answers' \subseteq answers

Prints(c) ==
    /\ UNCHANGED requests /\ answers' \subseteq answers
    /\ \E a \in answers :
          a.to = c /\ Becomes(c, "exited", client[c].parts, {View(a)})

LEMMA ClientTurns ==
    ASSUME ClientRecords, [SystemNext]_<<vars, netVars>>
    PROVE  /\ ClientRecords'
           /\ \/ \E c \in Clients : Sends(c) \/ Leaves(c) \/ Prints(c)
              \/ UNCHANGED <<client, requests>> /\ (Serve \/ UNCHANGED answers)
<1>1. ASSUME NEW c \in Clients, ClientSend(c)
      PROVE  ClientRecords' /\ (Sends(c) \/ Leaves(c))
    <2>1. CASE client' = [client EXCEPT ![c].state = "exited"] /\ UNCHANGED requests
        <3>1. ClientRecords' /\ Becomes(c, "exited", client[c].parts, client[c].shown)
            BY <2>1, ClientBecomes
        <3>. QED
            BY <1>1, <2>1, <3>1 DEF ClientSend, Leaves
    <2>2. ASSUME NEW parts \in Typed, ~IsFatal(parts),
                 client' = [client EXCEPT ![c].state = "reading", ![c].parts = parts],
                 requests' = requests \cup {[from |-> c, bytes |-> serialize_message(parts)]}
          PROVE  ClientRecords' /\ Sends(c)
        <3>1. ClientRecords' /\ Becomes(c, "reading", parts, client[c].shown)
            BY <2>2, ClientBecomes
        <3>2. client'[c].parts = parts
            BY <3>1 DEF Becomes
        <3>. QED
            BY <1>1, <2>2, <3>1, <3>2 DEF ClientSend, Sends
    <2>. QED
        BY <1>1, <2>1, <2>2 DEF ClientSend
<1>2. ASSUME NEW c \in Clients, ClientReceive(c)
      PROVE  ClientRecords' /\ Prints(c)
    <2>1. PICK a \in answers :
              /\ a.to = c
              /\ client' = [client EXCEPT ![c].state = "exited", ![c].shown = {View(a)}]
        BY <1>2 DEF ClientReceive, View
    <2>2. ClientRecords' /\ Becomes(c, "exited", client[c].parts, {View(a)})
        BY <2>1, ClientBecomes
    <2>. QED
        BY <1>2, <2>1, <2>2 DEF ClientReceive, Prints
<1>3. ASSUME NEW c \in Clients, ClientTimeout(c)
      PROVE  ClientRecords' /\ Leaves(c)
    <2>1. ClientRecords' /\ Becomes(c, "exited", client[c].parts, client[c].shown)
        BY <1>3, ClientBecomes DEF ClientTimeout
    <2>. QED
        BY <1>3, <2>1 DEF ClientTimeout, Leaves
<1>4. CASE UNCHANGED <<client, requests>> /\ (Serve \/ UNCHANGED answers)
    BY <1>4 DEF ClientRecords
<1>. QED
    BY <1>1, <1>2, <1>3, <1>4 DEF SystemNext, Deliver, Serve, ServerAlone, netVars

-----------------------------------------------------------------------------
(* Copies of a request. *)

\* A request that has acted in a game cannot act in it again: its seat is
\* taken, its pawn is down or the game is over.
Spent(d, game) ==
    IF d.type = 0 THEN game.player_b_id # 0
    ELSE \/ game.status \in Wins
         \/ d.type \in {1, 2} /\ d.pawn_idx \notin game.pawn_row

\* What the players see of a game that only ages stays.
LEMMA SameDoesNotAct ==
    ASSUME NEW g, active_games[g] \in GameState, active_games'[g] \in GameState,
           Same(active_games[g], active_games'[g])
    PROVE  ~Acts(g)
BY DEF Same, Acts, GameState

\* A move that is played is the request's, and on pawns that stand.
LEMMA PlayedPawns ==
    ASSUME NEW pawns \in TwoMoves, NEW game, IsLegal(game, pawns)
    PROVE  datagram.pawn_idx \in pawns /\ datagram.pawn_idx \in game.pawn_row
<1>1. datagram.pawn_idx \in pawns
    BY DEF TwoMoves, OnePawn, TwoPawns
<1>. QED
    BY <1>1 DEF IsLegal, is_legal_move, is_pawn_standing

LEMMA PrecedenceOrders ==
    ASSUME NEW s, NEW t, NEW u
    PROVE  /\ MayPrecede(s, s)
           /\ MayPrecede(s, t) /\ MayPrecede(t, u) => MayPrecede(s, u)
BY DEF MayPrecede

\* A game goes on from where it was.
LEMMA GamesGoOn ==
    ASSUME TypeOK, SeatsMatchStatus, [Next]_vars,
           NEW g \in DOMAIN active_games', g \in DOMAIN active_games
    PROVE  MayPrecede(Picture(g, active_games[g]), Picture(g, active_games'[g]))
<1>. DEFINE old == active_games[g]
            new == active_games'[g]
            Goal == MayPrecede(Picture(g, old), Picture(g, new))
<1>. SUFFICES Goal
    OBVIOUS
<1>1. old \in GameState /\ SeatsOf(old)
    BY DEF TypeOK, SeatsMatchStatus, SeatsOf
<1>2. ASSUME /\ new.player_a_id = old.player_a_id
             /\ old.player_b_id \in {0, new.player_b_id}
             /\ new.pawn_row \subseteq old.pawn_row
             /\ old.status \notin Wins
             /\ \/ old.pawn_row # new.pawn_row
                \/ old.status = WAITING_FOR_OPPONENT \/ new.status \in Wins
      PROVE  Goal
    BY <1>2 DEF MayPrecede, Picture
<1>3. CASE Same(old, new)
    BY <1>3, PrecedenceOrders DEF Same, Picture
<1>4. \A p : IsValidTurn(old, p) => old.status \notin Wins
    BY DEF IsValidTurn, Wins, TURN_A, TURN_B, WIN_A, WIN_B
<1>. HIDE DEF Goal
<1>5. CASE Seating(old, new)
    <2>1. /\ new.player_a_id = old.player_a_id /\ new.pawn_row = old.pawn_row
          /\ old.player_b_id = 0 /\ old.status = WAITING_FOR_OPPONENT
        BY <1>1, <1>5 DEF Seating, IsWaiting, Seated, GameState, SeatsOf
    <2>2. old.status \notin Wins
        BY <2>1 DEF Wins, WIN_A, WIN_B, WAITING_FOR_OPPONENT
    <2>. QED
        BY <1>2, <2>1, <2>2
<1>6. CASE Playing(old, new) \/ Hanging(old, new)
    <2>1. PICK pawns \in TwoMoves :
             /\ IsLegal(old, pawns)
             /\ \/ new = Moved(old, RowAfter(old.pawn_row, pawns))
                \/ new = [old EXCEPT !.pawn_row = RowAfter(old.pawn_row, pawns)]
        BY <1>6 DEF Playing, Hanging
    <2>2. /\ new.player_a_id = old.player_a_id /\ new.player_b_id = old.player_b_id
          /\ new.pawn_row = old.pawn_row \ pawns
        BY <1>1, <2>1 DEF Moved, RowAfter, GameState
    <2>3. datagram.pawn_idx \in pawns /\ datagram.pawn_idx \in old.pawn_row
        BY <2>1, PlayedPawns
    <2>4. old.status \notin Wins
        BY <1>4, <1>6 DEF Playing, Hanging
    <2>. QED
        BY <1>2, <2>2, <2>3, <2>4
<1>7. CASE Forfeiting(old, new)
    <2>1. /\ new.player_a_id = old.player_a_id /\ new.player_b_id = old.player_b_id
          /\ new.pawn_row = old.pawn_row /\ new.status \in Wins
        BY <1>1, <1>7 DEF Forfeiting, Forfeited, GameState, Wins
    <2>. QED
        BY <1>2, <1>4, <1>7, <2>1 DEF Forfeiting
<1>8. Same(old, old)
    BY DEF Same
<1>9. CASE ~Handle
    BY <1>3, <1>9, OtherStepsOnGames
<1>10. CASE Handle
    BY <1>3, <1>5, <1>6, <1>7, <1>8, <1>10, StepOnGames DEF ActsIn, Creates
<1>. QED
    BY <1>9, <1>10

\* What the four kinds of change do to a game and to the request behind them.
LEMMA ActingSpends ==
    ASSUME TypeOK, TypeOK', SeatsMatchStatus,
           NEW g \in DOMAIN active_games', ActsIn(g), Acts(g)
    PROVE  /\ ~Spent(datagram, active_games[g])
           /\ Spent(datagram, active_games'[g])
<1>. DEFINE old == active_games[g]
            new == active_games'[g]
<1>1. old \in GameState /\ new \in GameState /\ SeatsOf(old)
    BY DEF ActsIn, TypeOK, SeatsMatchStatus, SeatsOf
<1>2. CASE Seating(old, new)
    BY <1>1, <1>2 DEF Seating, IsWaiting, Seated, SeatsOf, GameState, Spent
<1>3. \A pawns \in TwoMoves : IsLegal(old, pawns) =>
          datagram.pawn_idx \in old.pawn_row /\ datagram.pawn_idx \notin RowAfter(old.pawn_row, pawns)
    BY PlayedPawns DEF RowAfter
<1>4. \A p : IsValidTurn(old, p) => old.status \notin Wins
    BY DEF IsValidTurn, Wins, TURN_A, TURN_B, WIN_A, WIN_B
<1>5. CASE Playing(old, new)
    <2>1. PICK pawns \in TwoMoves :
              IsLegal(old, pawns) /\ new = Moved(old, RowAfter(old.pawn_row, pawns))
        BY <1>5 DEF Playing
    <2>2. new.pawn_row = RowAfter(old.pawn_row, pawns)
        BY <1>1, <2>1 DEF Moved, GameState
    <2>. QED
        BY <1>3, <1>4, <1>5, <2>1, <2>2 DEF Playing, Spent
<1>6. CASE Hanging(old, new)
    <2>1. PICK pawns \in TwoMoves :
              IsLegal(old, pawns) /\ new = [old EXCEPT !.pawn_row = RowAfter(old.pawn_row, pawns)]
        BY <1>6 DEF Hanging
    <2>2. new.pawn_row = RowAfter(old.pawn_row, pawns)
        BY <1>1, <2>1 DEF GameState
    <2>. QED
        BY <1>3, <1>4, <1>6, <2>1, <2>2 DEF Hanging, Spent
<1>7. CASE Forfeiting(old, new)
    <2>1. new.status \in Wins
        BY <1>1, <1>7 DEF Forfeiting, Forfeited, GameState, Wins
    <2>. QED
        BY <1>4, <1>7, <2>1 DEF Forfeiting, Spent
<1>. QED
    BY <1>1, <1>2, <1>5, <1>6, <1>7, SameDoesNotAct DEF ActsIn

\* What is spent stays spent as long as the game is there.
LEMMA SpentStays ==
    ASSUME TypeOK, SeatsMatchStatus, [Next]_vars,
           NEW g \in DOMAIN active_games', g \in DOMAIN active_games,
           NEW d, Spent(d, active_games[g])
    PROVE  Spent(d, active_games'[g])
<1>. DEFINE old == active_games[g]
            new == active_games'[g]
<1>1. old \in GameState /\ SeatsOf(old)
    BY DEF TypeOK, SeatsMatchStatus, SeatsOf
<1>2. CASE Same(old, new)
    BY <1>2 DEF Same, Spent
<1>3. CASE Seating(old, new)
    <2>1. new.pawn_row = old.pawn_row /\ new.player_b_id # 0 /\ old.status \notin Wins
        BY <1>1, <1>3 DEF Seating, IsWaiting, Seated, GameState, Wins, WIN_A, WIN_B, WAITING_FOR_OPPONENT
    <2>. QED
        BY <2>1 DEF Spent
<1>4. CASE Playing(old, new) \/ Hanging(old, new)
    <2>1. PICK pawns : \/ new = Moved(old, RowAfter(old.pawn_row, pawns))
                       \/ new = [old EXCEPT !.pawn_row = RowAfter(old.pawn_row, pawns)]
        BY <1>4 DEF Playing, Hanging
    <2>2. new.pawn_row \subseteq old.pawn_row /\ new.player_b_id = old.player_b_id
        BY <1>1, <2>1 DEF Moved, RowAfter, GameState
    <2>3. old.status \notin Wins
        BY <1>4 DEF Playing, Hanging, IsValidTurn, Wins, TURN_A, TURN_B, WIN_A, WIN_B
    <2>. QED
        BY <2>2, <2>3 DEF Spent
<1>5. CASE Forfeiting(old, new)
    <2>1. new.status \in Wins /\ new.player_b_id = old.player_b_id
        BY <1>1, <1>5 DEF Forfeiting, Forfeited, GameState, Wins
    <2>. QED
        BY <2>1 DEF Spent
<1>6. Same(old, old)
    BY DEF Same
<1>7. CASE ~Handle
    BY <1>2, <1>7, OtherStepsOnGames
<1>8. CASE Handle
    BY <1>2, <1>3, <1>4, <1>5, <1>6, <1>8, StepOnGames DEF ActsIn, Creates
<1>. QED
    BY <1>7, <1>8

\* A JOIN that opened the game at hand, or its copy, is not spent there before
\* the free seat is taken.
MayHaveActed(d, game) ==
    \/ Spent(d, game)
    \/ d.type = 0 /\ game.player_a_id = d.player_id

LEMMA MayHaveActedStays ==
    ASSUME TypeOK, SeatsMatchStatus, [Next]_vars,
           NEW g \in DOMAIN active_games', g \in DOMAIN active_games,
           NEW d, MayHaveActed(d, active_games[g])
    PROVE  MayHaveActed(d, active_games'[g])
<1>1. active_games'[g].player_a_id = active_games[g].player_a_id
    BY GamesGoOn DEF MayPrecede, Picture
<1>. QED
    BY <1>1, SpentStays DEF MayHaveActed

\* A request acts in a game it has not acted in yet, and not after.
LEMMA ActsOnce ==
    ASSUME TypeOK, TypeOK', SeatsMatchStatus, Handle, [Next]_vars,
           NEW g \in DOMAIN active_games \cap DOMAIN active_games', Acts(g)
    PROVE  /\ ~Spent(datagram, active_games[g])
           /\ Spent(datagram, active_games'[g])
<1>1. active_games'[g] # active_games[g]
    BY DEF Acts
<1>2. ActsIn(g)
    BY <1>1, StepOnGames DEF Creates
<1>. QED
    BY <1>2, ActingSpends

\* Each run of the client has sent one request at most.
OneRequestEach ==
    /\ ClientRecords
    /\ \A r \in requests : r.from \in Clients /\ client[r.from].state # "new"
    /\ \A r, q \in requests : r.from = q.from => r = q

\* The request at hand came from the network.
HandlesRequest ==
    pc = "dispatch" => handling \in requests /\ datagram = DecodedRequest(handling.bytes)

\* Games are counted by id, and what has acted in a game is spent there, or is
\* the JOIN that opened it.
SerialsCount ==
    /\ DOMAIN active_games \subseteq DOMAIN serial
    /\ \A g \in DOMAIN serial : serial[g] \in Nat

ActedIsSpent ==
    \A a \in acted : \E bytes : \E g \in DOMAIN serial, n \in Nat :
        /\ a = <<bytes, g, n>> /\ n <= serial[g]
        /\ g \in DOMAIN active_games /\ n = serial[g] =>
              MayHaveActed(DecodedRequest(bytes), active_games[g])

CopiesInv == OneRequestEach /\ HandlesRequest /\ SerialsCount /\ ActedIsSpent

\* A run that is not new has sent what it will ever send.
LEMMA OneRequestEachStep ==
    ASSUME OneRequestEach, [SystemNext]_<<vars, netVars>>
    PROVE  OneRequestEach' /\ requests \subseteq requests'
<1>1. /\ ClientRecords'
      /\ \A r \in requests : r.from \in Clients /\ client[r.from].state # "new"
      /\ \A r, q \in requests : r.from = q.from => r = q
    BY ClientTurns DEF OneRequestEach
<1>2. ASSUME NEW c \in Clients, Sends(c)
      PROVE  OneRequestEach' /\ requests \subseteq requests'
    <2>1. /\ requests' = requests \cup {[from |-> c, bytes |-> serialize_message(client'[c].parts)]}
          /\ client'[c].state = "reading"
          /\ \A b \in Clients \ {c} : client'[b] = client[b]
        BY <1>2 DEF Sends, Becomes
    <2>2. \A r \in requests : r.from # c
        BY <1>1, <1>2 DEF Sends
    <2>3. \A r \in requests' : r.from \in Clients /\ client'[r.from].state # "new"
        BY <1>1, <2>1
    <2>4. \A r, q \in requests' : r.from = q.from => r = q
        BY <1>1, <2>1, <2>2
    <2>. QED
        BY <1>1, <2>1, <2>3, <2>4 DEF OneRequestEach
<1>3. ASSUME NEW c \in Clients, NEW parts, NEW shown,
             Becomes(c, "exited", parts, shown), UNCHANGED requests
      PROVE  OneRequestEach'
    <2>1. \A r \in requests : client'[r.from].state # "new"
        BY <1>1, <1>3 DEF Becomes
    <2>. QED
        BY <1>1, <1>3, <2>1 DEF OneRequestEach
<1>4. CASE UNCHANGED <<client, requests>>
    BY <1>4 DEF OneRequestEach, ClientRecords
<1>. QED
    BY <1>2, <1>3, <1>4, ClientTurns DEF OneRequestEach, Leaves, Prints

\* A step in which no request is served opens no game and changes none.
LEMMA OnlyServingActs ==
    ASSUME TypeOK, TypeOK', [SystemNext]_<<vars, netVars>>, ~Serve, RequestsTyped
    PROVE  /\ UNCHANGED <<serial, acted>>
           /\ DOMAIN active_games' \subseteq DOMAIN active_games
           /\ pc = "dispatch" => \A g \in DOMAIN active_games' : ~Acts(g)
<1>1. UNCHANGED <<serial, acted>>
    BY DEF SystemNext, ClientSend, ClientReceive, ClientTimeout, Deliver, ServerAlone, netVars
<1>2. CASE UNCHANGED vars
    BY <1>1, <1>2 DEF vars, Acts
<1>3. CASE ~Handle
    <2>1. \A g \in DOMAIN active_games' :
             g \in DOMAIN active_games /\ Same(active_games[g], active_games'[g])
        BY <1>3, SystemStep, OtherStepsOnGames
    <2>2. \A g \in DOMAIN active_games' :
             active_games[g] \in GameState /\ active_games'[g] \in GameState
        BY <2>1 DEF TypeOK
    <2>. QED
        BY <1>1, <2>1, <2>2, SameDoesNotAct
<1>4. ASSUME NEW m, Receive(m) \/ RecvTimeout \/ RecvFails \/ Tick
      PROVE  ~Handle
    BY <1>4, HandlersEnd, HandleEffect DEF Receive, RecvTimeout, RecvFails, Tick
<1>. QED
    BY <1>2, <1>3, <1>4
    DEF SystemNext, ClientSend, ClientReceive, ClientTimeout, Deliver, ServerAlone, netVars

LEMMA HandlesRequestStep ==
    ASSUME HandlesRequest, OneRequestEach, [SystemNext]_<<vars, netVars>>
    PROVE  HandlesRequest'
<1>1. requests \subseteq requests'
    BY OneRequestEachStep
<1>2. ASSUME NEW r \in requests, Deliver(r) PROVE HandlesRequest'
    BY <1>1, <1>2 DEF Deliver, Receive, HandlesRequest
<1>3. CASE Serve
    BY <1>3, HandlersEnd DEF Serve, HandlesRequest
<1>4. CASE ServerAlone
    BY <1>1, <1>4 DEF ServerAlone, netVars, RecvTimeout, RecvFails, Tick, HandlesRequest
<1>5. CASE UNCHANGED vars /\ UNCHANGED handling
    BY <1>1, <1>5 DEF vars, HandlesRequest
<1>. QED
    BY <1>2, <1>3, <1>4, <1>5 DEF SystemNext, ClientSend, ClientReceive, ClientTimeout, netVars

\* Serials only grow, and do when an id is given out again.
LEMMA SerialsGrow ==
    ASSUME TypeOK, TypeOK', SerialsCount, RequestsTyped, [SystemNext]_<<vars, netVars>>
    PROVE  /\ SerialsCount'
           /\ DOMAIN serial \subseteq DOMAIN serial'
           /\ \A g \in DOMAIN serial :
                 /\ serial[g] <= serial'[g]
                 /\ IF g \in Opened THEN serial[g] < serial'[g] ELSE serial[g] = serial'[g]
<1>1. /\ DOMAIN active_games \subseteq DOMAIN serial
      /\ \A g \in DOMAIN serial : serial[g] \in Nat
    BY DEF SerialsCount
<1>2. CASE ~Serve
    <2>1. UNCHANGED serial /\ DOMAIN active_games' \subseteq DOMAIN active_games
        BY <1>2, OnlyServingActs
    <2>. QED
        BY <1>1, <2>1 DEF SerialsCount, Opened
<1>3. CASE Serve
    <2>. DEFINE count(g) == IF g \in DOMAIN serial THEN serial[g] ELSE 0
    <2>1. serial' = [g \in DOMAIN serial \cup Opened |->
                        IF g \in Opened THEN count(g) + 1 ELSE serial[g]]
        BY <1>3 DEF Serve
    <2>2. \A g \in DOMAIN serial \cup Opened : count(g) \in Nat
        BY <1>1
    <2>3. /\ DOMAIN serial' = DOMAIN serial \cup Opened
          /\ \A g \in Opened : serial'[g] = count(g) + 1
          /\ \A g \in DOMAIN serial \ Opened : serial'[g] = serial[g]
        BY <2>1
    <2>4. SerialsCount'
        BY <1>1, <2>2, <2>3 DEF SerialsCount, Opened
    <2>5. \A g \in DOMAIN serial :
             /\ serial[g] <= serial'[g]
             /\ IF g \in Opened THEN serial[g] < serial'[g] ELSE serial[g] = serial'[g]
        BY <1>1, <2>2, <2>3
    <2>. QED
        BY <2>3, <2>4, <2>5
<1>. QED
    BY <1>2, <1>3

\* The other handlers find their game in the map.
LEMMA OnlyJoinsOpen ==
    ASSUME Handle, NEW g \in DOMAIN active_games' \ DOMAIN active_games
    PROVE  datagram.type = 0
<1>1. \A h \in DOMAIN active_games : \A game : DOMAIN Put(h, game) = DOMAIN active_games
    BY DEF Put
<1>2. FindsGame => datagram.game_id \in DOMAIN active_games
    BY DEF FindsGame
<1>. QED
    BY <1>1, <1>2, HandleEffect
    DEF Effect, Refuses, Seats, Opens, MovesOn, Hangs, Moves, Looks, GivesUp, Named

\* What a request leaves behind in a game that it opens or changes.
LEMMA ServedHasActed ==
    ASSUME TypeOK, TypeOK', SeatsMatchStatus, RequestsTyped, HandlesRequest, Serve,
           [SystemNext]_<<vars, netVars>>, NEW g \in Changed
    PROVE  /\ g \in DOMAIN active_games'
           /\ MayHaveActed(DecodedRequest(handling.bytes), active_games'[g])
<1>1. Handle /\ [Next]_vars /\ datagram = DecodedRequest(handling.bytes)
    BY SystemStep, HandleEffect DEF Serve, HandlesRequest
<1>2. CASE g \in Opened
    <2>1. g \in DOMAIN active_games' /\ Creates(g)
        BY <1>1, <1>2, StepOnGames DEF Opened, ActsIn
    <2>2. datagram.type = 0
        BY <1>1, <1>2, OnlyJoinsOpen DEF Opened
    <2>3. \A p : NewGame(p).player_a_id = p /\ TornGame(p).player_a_id = p
        BY DEF NewGame, TornGame
    <2>. QED
        BY <1>1, <2>1, <2>2, <2>3 DEF Creates, MayHaveActed
<1>3. CASE g \in DOMAIN active_games \cap DOMAIN active_games' /\ Acts(g)
    BY <1>1, <1>3, ActsOnce DEF MayHaveActed
<1>. QED
    BY <1>2, <1>3 DEF Changed

LEMMA ActedIsSpentStep ==
    ASSUME TypeOK, TypeOK', SeatsMatchStatus, RequestsTyped, CopiesInv,
           [SystemNext]_<<vars, netVars>>
    PROVE  ActedIsSpent'
<1>1. [Next]_vars
    BY SystemStep
<1>2. /\ DOMAIN active_games \subseteq DOMAIN serial /\ DOMAIN serial \subseteq DOMAIN serial'
      /\ DOMAIN active_games' \subseteq DOMAIN serial'
      /\ \A g \in DOMAIN serial' : serial'[g] \in Nat
      /\ \A g \in DOMAIN serial :
            /\ serial[g] \in Nat /\ serial[g] <= serial'[g]
            /\ g \in DOMAIN active_games' \ DOMAIN active_games => serial[g] < serial'[g]
    BY SerialsGrow DEF CopiesInv, SerialsCount, Opened
<1>. DEFINE Left(bytes, g, n) ==
                /\ g \in DOMAIN serial' /\ n \in Nat /\ n <= serial'[g]
                /\ g \in DOMAIN active_games' /\ n = serial'[g] =>
                      MayHaveActed(DecodedRequest(bytes), active_games'[g])
<1>3. SUFFICES \A a \in acted' : \E bytes, g, n : a = <<bytes, g, n>> /\ Left(bytes, g, n)
    BY DEF ActedIsSpent
<1>4. ASSUME NEW a \in acted PROVE \E bytes, g, n : a = <<bytes, g, n>> /\ Left(bytes, g, n)
    <2>1. PICK bytes : \E g \in DOMAIN serial, n \in Nat :
              /\ a = <<bytes, g, n>> /\ n <= serial[g]
              /\ g \in DOMAIN active_games /\ n = serial[g] =>
                    MayHaveActed(DecodedRequest(bytes), active_games[g])
        BY DEF CopiesInv, ActedIsSpent
    <2>2. PICK g \in DOMAIN serial, n \in Nat :
              /\ a = <<bytes, g, n>> /\ n <= serial[g]
              /\ g \in DOMAIN active_games /\ n = serial[g] =>
                    MayHaveActed(DecodedRequest(bytes), active_games[g])
        BY <2>1
    <2>3. n <= serial'[g] /\ (n = serial'[g] => n = serial[g])
        BY <1>2, <2>2
    <2>4. g \in DOMAIN active_games' /\ n = serial'[g] => g \in DOMAIN active_games
        BY <1>2, <2>2
    <2>5. g \in DOMAIN active_games' /\ n = serial'[g] =>
              MayHaveActed(DecodedRequest(bytes), active_games'[g])
        BY <1>1, <2>2, <2>3, <2>4, MayHaveActedStays
    <2>. QED
        BY <1>2, <2>2, <2>3, <2>5
<1>5. CASE ~Serve
    BY <1>4, <1>5, OnlyServingActs
<1>6. CASE Serve
    <2>1. acted' = acted \cup {<<handling.bytes, g, serial'[g]>> : g \in Changed}
        BY <1>6 DEF Serve
    <2>2. ASSUME NEW g \in Changed PROVE Left(handling.bytes, g, serial'[g])
        BY <1>2, <1>6, ServedHasActed DEF CopiesInv
    <2>. HIDE DEF Left
    <2>. QED
        BY <1>4, <2>1, <2>2
<1>. QED
    BY <1>5, <1>6

LEMMA CopiesStart == SystemInit => RequestsTyped /\ CopiesInv
BY DEF SystemInit, Init, RequestsTyped, CopiesInv, OneRequestEach, ClientRecords,
       HandlesRequest, SerialsCount, ActedIsSpent

\* However often the same bytes are delivered, and whoever sent them, they open
\* or change a game once - or are a JOIN that opened it and then takes its seat.
THEOREM RequestsAlwaysActOnce == SystemSpec => RequestsActOnce
<1>. DEFINE Exempt(g) == /\ datagram.type = 0 /\ g \notin Opened
                        /\ active_games[g].player_a_id = datagram.player_id
                        /\ active_games[g].player_b_id = 0
            Once == \A g \in Changed :
                        pc = "dispatch" /\ <<handling.bytes, g, serial'[g]>> \in acted => Exempt(g)
<1>1. SystemInit => RequestsTyped /\ CopiesInv
    BY CopiesStart
<1>2. TypeOK /\ TypeOK' /\ SeatsMatchStatus /\ RequestsTyped /\ CopiesInv
          /\ [SystemNext]_<<vars, netVars>> => RequestsTyped' /\ CopiesInv'
    BY SystemStep, OneRequestEachStep, HandlesRequestStep, SerialsGrow, ActedIsSpentStep
    DEF CopiesInv
<1>3. ASSUME TypeOK, TypeOK', SeatsMatchStatus, RequestsTyped, CopiesInv,
             [SystemNext]_<<vars, netVars>>
      PROVE  Once
    <2>. SUFFICES ASSUME NEW g \in Changed, pc = "dispatch",
                         <<handling.bytes, g, serial'[g]>> \in acted
                  PROVE  Exempt(g)
        OBVIOUS
    <2>1. Serve
        BY <1>3, OnlyServingActs DEF Changed, Opened
    <2>2. PICK bytes : \E h \in DOMAIN serial, n \in Nat :
              /\ <<handling.bytes, g, serial'[g]>> = <<bytes, h, n>> /\ n <= serial[h]
              /\ h \in DOMAIN active_games /\ n = serial[h] =>
                    MayHaveActed(DecodedRequest(bytes), active_games[h])
        BY <1>3 DEF CopiesInv, ActedIsSpent
    <2>3. /\ g \in DOMAIN serial /\ serial'[g] \in Nat /\ serial'[g] <= serial[g]
          /\ g \in DOMAIN active_games /\ serial'[g] = serial[g] =>
                MayHaveActed(DecodedRequest(handling.bytes), active_games[g])
        BY <2>2
    <2>4. g \notin Opened /\ serial'[g] = serial[g]
        <3>1. /\ serial[g] \in Nat
              /\ IF g \in Opened THEN serial[g] < serial'[g] ELSE serial[g] = serial'[g]
            BY <1>3, <2>3, SerialsGrow DEF CopiesInv, SerialsCount
        <3>. QED
            BY <2>3, <3>1
    <2>5. g \in DOMAIN active_games \cap DOMAIN active_games' /\ Acts(g)
        BY <2>4 DEF Changed
    <2>6. ~Spent(datagram, active_games[g])
        BY <1>3, <2>1, <2>5, SystemStep, ActsOnce DEF Serve
    <2>7. MayHaveActed(datagram, active_games[g])
        BY <1>3, <2>3, <2>4, <2>5 DEF CopiesInv, HandlesRequest
    <2>8. datagram.type = 0 /\ active_games[g].player_a_id = datagram.player_id
        BY <2>6, <2>7 DEF MayHaveActed
    <2>9. active_games[g].player_b_id = 0
        BY <2>6, <2>8 DEF Spent
    <2>. QED
        BY <2>4, <2>8, <2>9
<1>4. TypeOK /\ TypeOK' /\ SeatsMatchStatus /\ RequestsTyped /\ CopiesInv
          /\ [SystemNext]_<<vars, netVars>> =>
                [\A g \in Changed :
                    pc = "dispatch" /\ <<handling.bytes, g, serial'[g]>> \in acted =>
                        /\ datagram.type = 0 /\ g \notin Opened
                        /\ active_games[g].player_a_id = datagram.player_id
                        /\ active_games[g].player_b_id = 0]_<<vars, netVars>>
    BY <1>3
<1>. HIDE DEF Once
<1>. QED
    BY <1>1, <1>2, <1>4, SystemRunsTheServer, TypeCorrect, SeatsAlwaysMatchStatus, PTL
    DEF SystemSpec, RequestsActOnce
-----------------------------------------------------------------------------
(* Answers, in flight and printed. *)

\* What run c has printed or may still print.
ViewsOf(c) == client[c].shown \cup {View(a) : a \in {b \in answers : b.to = c}}

\* The answers of a served request, as they will be printed.
NewView(v) ==
    \E k \in 1 .. Len(replies') :
        v = [reply |-> Displayed(Encoded(replies'[k], handling.bytes)),
             serial |-> IF replies'[k].kind = "GAME_STATE" THEN serial'[replies'[k].game_id] ELSE 0]

\* Only a served request adds to what its sender may print.
LEMMA ViewsStep ==
    ASSUME ClientRecords, [SystemNext]_<<vars, netVars>>, NEW c \in Clients, NEW v \in ViewsOf(c)'
    PROVE  \/ v \in ViewsOf(c)
           \/ Serve /\ c = handling.from /\ NewView(v)
<1>1. CASE v \in client'[c].shown
    <2>1. ASSUME NEW b \in Clients, NEW state, NEW parts, NEW shown,
                 Becomes(b, state, parts, shown), \A w \in shown : w \in ViewsOf(b)
          PROVE  v \in ViewsOf(c)
        BY <1>1, <2>1 DEF Becomes, ViewsOf
    <2>2. ASSUME NEW b \in Clients, Sends(b) \/ Leaves(b) PROVE v \in ViewsOf(c)
        BY <2>1, <2>2 DEF Sends, Leaves, ViewsOf
    <2>3. ASSUME NEW b \in Clients, Prints(b) PROVE v \in ViewsOf(c)
        <3>1. PICK a \in answers : a.to = b /\ Becomes(b, "exited", client[b].parts, {View(a)})
            BY <2>3 DEF Prints
        <3>2. View(a) \in ViewsOf(b)
            BY <3>1 DEF ViewsOf
        <3>. QED
            BY <2>1, <3>1, <3>2
    <2>4. UNCHANGED client => v \in ViewsOf(c)
        BY <1>1 DEF ViewsOf
    <2>. QED
        BY <2>2, <2>3, <2>4, ClientTurns
<1>2. CASE \E a \in answers' : a.to = c /\ v = View(a)
    <2>1. PICK a \in answers' : a.to = c /\ v = View(a)
        BY <1>2
    <2>2. CASE a \in answers
        BY <2>1, <2>2 DEF ViewsOf
    <2>3. CASE Serve /\ a \notin answers
        <3>1. PICK k \in 1 .. Len(replies') :
                  a = [to |-> handling.from, answer |-> Encoded(replies'[k], handling.bytes),
                       serial |-> IF replies'[k].kind = "GAME_STATE"
                                  THEN serial'[replies'[k].game_id] ELSE 0]
            BY <2>3 DEF Serve
        <3>2. a.to = handling.from
              /\ View(a) = [reply |-> Displayed(Encoded(replies'[k], handling.bytes)),
                            serial |-> IF replies'[k].kind = "GAME_STATE"
                                       THEN serial'[replies'[k].game_id] ELSE 0]
            BY <3>1 DEF View
        <3>. QED
            BY <2>1, <2>3, <3>2 DEF NewView
    <2>4. answers' \subseteq answers \/ Serve
        BY ClientTurns DEF Sends, Leaves, Prints
    <2>. QED
        BY <2>1, <2>2, <2>3, <2>4
<1>. QED
    BY <1>1, <1>2 DEF ViewsOf, View

\* Every request in the network is what its sender has typed.
RequestsMatch ==
    \A r \in requests :
        LET parts == client[r.from].parts IN
        parts \in Typed /\ ~IsFatal(parts) /\ r.bytes = serialize_message(parts)

LEMMA RequestsMatchStep ==
    ASSUME OneRequestEach, RequestsMatch, [SystemNext]_<<vars, netVars>>
    PROVE  RequestsMatch'
<1>1. /\ ClientRecords
      /\ \A r \in requests : r.from \in Clients /\ client[r.from].state # "new"
    BY DEF OneRequestEach
<1>2. ASSUME NEW c \in Clients, Sends(c) PROVE RequestsMatch'
    <2>1. \A r \in requests : r.from # c
        BY <1>1, <1>2 DEF Sends
    <2>2. \A r \in requests : client'[r.from] = client[r.from]
        BY <1>1, <1>2, <2>1 DEF Sends, Becomes
    <2>. QED
        BY <1>2, <2>2 DEF Sends, RequestsMatch
<1>3. ASSUME NEW c \in Clients, NEW shown, Becomes(c, "exited", client[c].parts, shown),
             UNCHANGED requests
      PROVE  RequestsMatch'
    <2>1. \A r \in requests : client'[r.from].parts = client[r.from].parts
        BY <1>1, <1>3 DEF Becomes
    <2>. QED
        BY <1>3, <2>1 DEF RequestsMatch
<1>4. CASE UNCHANGED <<client, requests>>
    BY <1>4 DEF RequestsMatch
<1>. QED
    BY <1>1, <1>2, <1>3, <1>4, ClientTurns DEF Leaves, Prints

\* Four bytes hold an id; so they do in this system.
LEMMA WordsAreIds ==
    /\ UINT32_MAX + 1 = IdxRange * (IdxRange * (IdxRange * IdxRange))
    /\ Words = 0 .. UINT32_MAX
    /\ Typed \subseteq Seq(Int)
    /\ \A n \in Int : n % (UINT32_MAX + 1) \in Words
<1>. DEFINE W == IdxRange * (IdxRange * (IdxRange * IdxRange))
<1>1. Typed \subseteq Seq(Int) /\ UINT32_MAX = IdxRange * IdxRange * IdxRange * IdxRange - 1
    BY SystemAssumption
<1>2. W \in Nat \ {0} /\ W = IdxRange * IdxRange * IdxRange * IdxRange
    BY GameLogicAssumption
<1>3. Words = 0 .. W - 1
    BY DEF Words
<1>. HIDE DEF W
<1>4. UINT32_MAX + 1 = W
    BY <1>1, <1>2
<1>. QED
    BY <1>1, <1>2, <1>3, <1>4 DEF W

\* The request at hand is what its sender has typed.
HandlesTyped ==
    pc = "dispatch" =>
        LET parts == client[handling.from].parts
            request == DecodedRequest(serialize_message(parts))
        IN
        /\ handling.from \in Clients /\ client[handling.from].state # "new"
        /\ parts \in Seq(Int) /\ ~IsFatal(parts)
        /\ handling.bytes = serialize_message(parts)
        /\ datagram = request
        /\ HasItsSize(request)
        /\ request.player_id \in Words
        /\ request.player_id = Word(parts[2])
        /\ request.type = parts[1]
        /\ parts[1] # 0 => request.game_id = Word(parts[3])

LEMMA TypedIsHandled ==
    ASSUME OneRequestEach, HandlesRequest, RequestsMatch
    PROVE  HandlesTyped
<1>. DEFINE parts == client[handling.from].parts
            request == DecodedRequest(serialize_message(parts))
<1>. SUFFICES ASSUME pc = "dispatch"
              PROVE  /\ handling.from \in Clients /\ client[handling.from].state # "new"
                     /\ parts \in Seq(Int) /\ ~IsFatal(parts)
                     /\ handling.bytes = serialize_message(parts)
                     /\ datagram = request
                     /\ HasItsSize(request)
                     /\ request.player_id \in Words
                     /\ request.player_id = Word(parts[2])
                     /\ request.type = parts[1]
                     /\ parts[1] # 0 => request.game_id = Word(parts[3])
    BY DEF HandlesTyped
<1>1. handling \in requests /\ datagram = DecodedRequest(handling.bytes)
    BY DEF HandlesRequest
<1>2. handling.from \in Clients /\ client[handling.from].state # "new"
    BY <1>1 DEF OneRequestEach
<1>3. parts \in Typed /\ ~IsFatal(parts) /\ handling.bytes = serialize_message(parts)
    BY <1>1 DEF RequestsMatch
<1>4. parts \in Seq(Int)
    BY <1>3, WordsAreIds
<1>5. parts[1] \in 0 .. 4 /\ 2 \in 1 .. Len(parts) /\ (parts[1] # 0 => 3 \in 1 .. Len(parts))
    BY <1>3, <1>4 DEF IsFatal, Parts, JOIN_PARTS, MOVE_PARTS, KEEP_ALIVE_PARTS, GIVE_UP_PARTS
<1>6. parts[2] \in Int /\ (parts[1] # 0 => parts[3] \in Int)
    BY <1>4, <1>5
<1>. HIDE DEF parts
<1>7. /\ request.type = parts[1]
      /\ request.player_id = Word(parts[2])
      /\ parts[1] = 0 => request.len = JOIN_SIZE
      /\ parts[1] # 0 => request.game_id = Word(parts[3])
      /\ parts[1] \in {1, 2} => request.len = MOVE_SIZE
      /\ parts[1] = 3 => request.len = KEEP_ALIVE_SIZE
      /\ parts[1] = 4 => request.len = GIVE_UP_SIZE
    BY <1>3, <1>4, WordsAreIds, TypedFieldsArrive DEF Word
<1>. HIDE DEF request
<1>8. HasItsSize(request)
    BY <1>5, <1>7 DEF HasItsSize
<1>9. request.player_id \in Words
    BY <1>6, <1>7, WordsAreIds DEF Word
<1>10. datagram = request
    BY <1>1, <1>3 DEF request
<1>. QED
    BY <1>2, <1>3, <1>4, <1>7, <1>8, <1>9, <1>10

\* The ids of players are 32-bit numbers: every seat was taken by a request.
PlayersFit ==
    \A g \in DOMAIN active_games :
        active_games[g].player_a_id \in Words /\ active_games[g].player_b_id \in Words

LEMMA PlayersFitStep ==
    ASSUME TypeOK, PlayersFit, HandlesTyped, [Next]_vars
    PROVE  PlayersFit'
<1>. DEFINE Fit(game) == game.player_a_id \in Words /\ game.player_b_id \in Words
<1>. SUFFICES ASSUME NEW g \in DOMAIN active_games' PROVE Fit(active_games'[g])
    BY DEF PlayersFit
<1>1. 0 \in Words
    BY WordsAreIds, ConstantsTyped
<1>2. CASE ~Handle
    BY <1>2, OtherStepsOnGames DEF Same, PlayersFit
<1>3. CASE g \in DOMAIN active_games /\ active_games'[g] = active_games[g]
    BY <1>3 DEF PlayersFit
<1>4. pc = "dispatch" => datagram.player_id \in Words
    BY DEF HandlesTyped
<1>5. CASE Creates(g) /\ pc = "dispatch"
    <2>1. \A p \in Words : Fit(NewGame(p)) /\ Fit(TornGame(p))
        BY <1>1 DEF NewGame, TornGame, WAITING_FOR_OPPONENT
    <2>. HIDE DEF Fit
    <2>. QED
        BY <1>4, <1>5, <2>1 DEF Creates
<1>6. CASE ActsIn(g) /\ pc = "dispatch"
    <2>. DEFINE old == active_games[g]
                new == active_games'[g]
    <2>1. old \in GameState /\ Fit(old)
        BY <1>6 DEF ActsIn, TypeOK, PlayersFit
    <2>2. \A p : (p \in Words => Fit(Seated(old, p))) /\ Fit(Forfeited(old, p))
        BY <2>1 DEF Seated, Forfeited, GameState
    <2>3. \A row : Fit(Moved(old, row)) /\ Fit([old EXCEPT !.pawn_row = row])
        BY <2>1 DEF Moved, GameState
    <2>4. Same(old, new) => Fit(new)
        BY <2>1 DEF Same
    <2>. HIDE DEF Fit
    <2>. QED
        BY <1>4, <1>6, <2>2, <2>3, <2>4 DEF ActsIn, Seating, Playing, Forfeiting, Hanging
<1>. QED
    BY <1>2, <1>3, <1>5, <1>6, StepOnGames

\* A new view of a game shows it as the request has left it, and one that is
\* no state of a game is a complaint.
LEMMA NewViews ==
    ASSUME TypeOK, TypeOK', TornGamesAreBare', PlayersFit', HandlesTyped,
           pc = "dispatch" => replies = <<>>, Serve, NEW v, NewView(v)
    PROVE  /\ IsAbout(v.reply, client[handling.from].parts)
           /\ v.reply.kind = "GAME_STATE" =>
                 LET g == v.reply.game_id IN
                 /\ g \in DOMAIN active_games'
                 /\ v.reply = Picture(g, active_games'[g])
                 /\ v.serial = serial'[g]
<1>. DEFINE parts == client[handling.from].parts
            sent == serialize_message(parts)
<1>1. Handle /\ pc = "dispatch"
    BY HandleEffect DEF Serve
<1>2. /\ parts \in Seq(Int) /\ ~IsFatal(parts) /\ handling.bytes = sent
      /\ datagram = DecodedRequest(sent) /\ HasItsSize(datagram)
      /\ datagram.player_id = Word(parts[2])
      /\ datagram.type = parts[1]
      /\ parts[1] # 0 => datagram.game_id = Word(parts[3])
    BY <1>1 DEF HandlesTyped
<1>3. sent \in Seq(Int) /\ Len(sent) = datagram.len /\ Len(sent) <= MESSAGE_LEN
    BY <1>2, RequestBytes, WordsAreIds
<1>. HIDE DEF sent, parts
<1>4. PICK k \in 1 .. Len(replies') :
          v = [reply |-> Displayed(Encoded(replies'[k], sent)),
               serial |-> IF replies'[k].kind = "GAME_STATE" THEN serial'[replies'[k].game_id] ELSE 0]
    BY <1>2 DEF NewView
<1>5. IsAnswer(replies'[k])
    BY <1>1, <1>2, HandlersAnswer
<1>6. CASE IsComplaint(replies'[k])
    <2>1. PICK index \in Nat : index < datagram.len /\ replies'[k] = WrongMessage(index)
        BY <1>6 DEF IsComplaint
    <2>2. v.reply = Displayed(handle_wrong_message(sent, index))
        BY <1>4, <2>1 DEF Encoded, WrongMessage
    <2>3. /\ v.reply.kind = "WRONG_MSG"
          /\ v.reply.error_index = index
          /\ \A j \in 1 .. Len(sent) : v.reply.echoed[j] = sent[j]
        BY <1>3, <2>2, ComplaintsArePrinted
    <2>4. IsAbout(v.reply, parts)
        BY <1>3, <2>1, <2>3 DEF IsAbout, sent
    <2>. QED
        BY <2>3, <2>4 DEF parts
<1>7. CASE \E g \in GameIds : IsStateOfItsGame(replies'[k], g)
    <2>1. PICK g \in GameIds : IsStateOfItsGame(replies'[k], g)
        BY <1>7
    <2>. DEFINE game == active_games'[g]
                reply == StateMessage(g, game)
    <2>2. /\ g \in DOMAIN active_games' /\ replies'[k] = reply
          /\ IsPlayerOf(game, datagram.player_id)
          /\ datagram.type # 0 => g = datagram.game_id
        BY <2>1 DEF IsStateOfItsGame
    <2>3. /\ reply.kind = "GAME_STATE" /\ reply.game_id = g
          /\ reply.player_a_id = game.player_a_id /\ reply.player_b_id = game.player_b_id
          /\ reply.status = game.status /\ reply.pawn_row = game.pawn_row
          /\ reply.torn = game.torn
        BY DEF StateMessage
    <2>4. /\ game \in GameState
          /\ game.player_a_id \in Words /\ game.player_b_id \in Words
          /\ game.torn => game.pawn_row = {}
        BY <2>2 DEF TypeOK, PlayersFit, TornGamesAreBare
    <2>5. g \in Words
        BY WordsAreIds DEF GameIds
    <2>6. game.status \in Statuses /\ game.pawn_row \subseteq Pawns
        BY <2>4 DEF GameState
    <2>. HIDE DEF reply
    <2>7. Displayed(send_game_state(reply)) = Picture(reply.game_id, reply)
        BY <2>3, <2>4, <2>5, <2>6, SystemAssumption, SentStatesArePrinted
    <2>8. Picture(g, reply) = Picture(g, game)
        BY <2>3 DEF Picture
    <2>9. Encoded(reply, sent) = send_game_state(reply)
        BY <2>3 DEF Encoded
    <2>10. v.reply = Picture(g, game) /\ v.serial = serial'[g]
        BY <1>4, <2>2, <2>3, <2>7, <2>8, <2>9
    <2>11. /\ v.reply.kind = "GAME_STATE" /\ v.reply.game_id = g
           /\ v.reply.player_a_id = game.player_a_id /\ v.reply.player_b_id = game.player_b_id
        BY <2>10 DEF Picture
    <2>12. IsAbout(v.reply, parts)
        BY <1>2, <2>2, <2>11 DEF IsAbout, IsPlayerOf
    <2>. QED
        BY <2>2, <2>10, <2>11, <2>12 DEF parts
<1>. QED
    BY <1>5, <1>6, <1>7 DEF IsAnswer

\* What the server knows of its clients, and its games of their players.
AnsweringInv ==
    /\ OneRequestEach /\ HandlesRequest /\ RequestsMatch
    /\ NothingSentYet /\ PlayersFit /\ TornGamesAreBare

LEMMA AnsweringStep ==
    ASSUME TypeOK, AnsweringInv, RequestsTyped, [SystemNext]_<<vars, netVars>>
    PROVE  AnsweringInv'
<1>1. [Next]_vars /\ HandlesTyped
    BY SystemStep, TypedIsHandled DEF AnsweringInv
<1>2. OneRequestEach' /\ HandlesRequest' /\ RequestsMatch'
    BY OneRequestEachStep, HandlesRequestStep, RequestsMatchStep DEF AnsweringInv
<1>3. NothingSentYet' /\ PlayersFit' /\ TornGamesAreBare'
    BY <1>1, NothingSentYetStep, PlayersFitStep, TornGamesAreBareStep DEF AnsweringInv
<1>. QED
    BY <1>2, <1>3 DEF AnsweringInv

\* It holds of the answers in flight already.
ViewsAreAbout ==
    \A c \in Clients : \A v \in ViewsOf(c) :
        client[c].state # "new" /\ IsAbout(v.reply, client[c].parts)

LEMMA ViewsAreAboutStep ==
    ASSUME TypeOK, TypeOK', AnsweringInv, AnsweringInv', ViewsAreAbout,
           [SystemNext]_<<vars, netVars>>
    PROVE  ViewsAreAbout'
<1>. SUFFICES ASSUME NEW c \in Clients, NEW v \in ViewsOf(c)'
              PROVE  client'[c].state # "new" /\ IsAbout(v.reply, client'[c].parts)
    BY DEF ViewsAreAbout
<1>1. ClientRecords /\ HandlesTyped
    BY TypedIsHandled DEF AnsweringInv, OneRequestEach
<1>2. CASE v \in ViewsOf(c)
    <2>1. client[c].state # "new" /\ IsAbout(v.reply, client[c].parts)
        BY <1>2 DEF ViewsAreAbout
    <2>2. client'[c].state # "new" /\ client'[c].parts = client[c].parts
        BY <1>1, <2>1, ClientTurns DEF Sends, Leaves, Prints, Becomes
    <2>. QED
        BY <2>1, <2>2
<1>3. CASE Serve /\ c = handling.from /\ NewView(v)
    <2>1. pc = "dispatch" /\ UNCHANGED client
        BY <1>3, HandleEffect DEF Serve
    <2>2. client[c].state # "new"
        BY <1>1, <1>3, <2>1 DEF HandlesTyped
    <2>3. IsAbout(v.reply, client[c].parts)
        BY <1>1, <1>3, NewViews DEF AnsweringInv, NothingSentYet
    <2>. QED
        BY <2>1, <2>2, <2>3
<1>. QED
    BY <1>1, <1>2, <1>3, ViewsStep

LEMMA SystemStarts ==
    ASSUME SystemInit
    PROVE  RequestsTyped /\ CopiesInv /\ AnsweringInv /\ \A c \in Clients : ViewsOf(c) = {}
<1>1. RequestsTyped /\ CopiesInv
    BY CopiesStart
<1>2. AnsweringInv
    BY <1>1 DEF SystemInit, Init, AnsweringInv, CopiesInv, RequestsMatch, NothingSentYet,
                PlayersFit, TornGamesAreBare
<1>3. ASSUME NEW c \in Clients PROVE ViewsOf(c) = {}
    <2>1. client[c].shown = {} /\ answers = {}
        BY DEF SystemInit
    <2>. QED
        BY <2>1 DEF ViewsOf
<1>. QED
    BY <1>1, <1>2, <1>3

\* What a client prints is about what its user typed: for any network, any
\* messages typed by any number of clients, and any width of a byte.
THEOREM AlwaysPrintsWhatWasAsked == SystemSpec => []PrintsWhatWasAsked
<1>1. SystemInit => RequestsTyped /\ AnsweringInv /\ ViewsAreAbout
    BY SystemStarts DEF ViewsAreAbout
<1>2. TypeOK /\ TypeOK' /\ RequestsTyped /\ AnsweringInv /\ ViewsAreAbout
          /\ [SystemNext]_<<vars, netVars>> => RequestsTyped' /\ AnsweringInv' /\ ViewsAreAbout'
    BY SystemStep, AnsweringStep, ViewsAreAboutStep
<1>3. ViewsAreAbout => PrintsWhatWasAsked
    BY DEF ViewsAreAbout, ViewsOf, PrintsWhatWasAsked
<1>. QED
    BY <1>1, <1>2, <1>3, SystemRunsTheServer, TypeCorrect, PTL DEF SystemSpec
-----------------------------------------------------------------------------
(* What two clients are shown of one game. *)

AllViews == UNION {ViewsOf(c) : c \in Clients}

\* A view is of a game that has been opened, and the game may have come from
\* there to where it is.
IsPast(v) ==
    v.reply.kind = "GAME_STATE" =>
        LET g == v.reply.game_id IN
        /\ g \in DOMAIN serial /\ v.serial \in Nat /\ v.serial <= serial[g]
        /\ g \in DOMAIN active_games /\ v.serial = serial[g] =>
              MayPrecede(v.reply, Picture(g, active_games[g]))

Agree(v, w) ==
    v.reply.kind = "GAME_STATE" /\ w.reply.kind = "GAME_STATE"
    /\ v.reply.game_id = w.reply.game_id /\ v.serial = w.serial
    => MayPrecede(v.reply, w.reply) \/ MayPrecede(w.reply, v.reply)

\* Answers are delayed, and games go on and give their ids to others: so the
\* views must agree with the games as well as with each other.
ViewsInv ==
    /\ SerialsCount
    /\ \A v \in AllViews : IsPast(v)
    /\ \A v, w \in AllViews : Agree(v, w)

LEMMA ViewsInvStep ==
    ASSUME TypeOK, TypeOK', SeatsMatchStatus, RequestsTyped, AnsweringInv, AnsweringInv',
           ViewsInv, [SystemNext]_<<vars, netVars>>
    PROVE  ViewsInv'
<1>1. [Next]_vars /\ ClientRecords /\ HandlesTyped
    BY SystemStep, TypedIsHandled DEF AnsweringInv, OneRequestEach
<1>2. /\ SerialsCount' /\ DOMAIN serial \subseteq DOMAIN serial'
      /\ \A g \in DOMAIN serial :
            /\ serial[g] \in Nat /\ serial'[g] \in Nat /\ serial[g] <= serial'[g]
            /\ g \in DOMAIN active_games' \ DOMAIN active_games => serial[g] < serial'[g]
    BY SerialsGrow DEF ViewsInv, SerialsCount, Opened
\* A view that shows a game as the step leaves it.
<1>. DEFINE Fresh(v) ==
                v.reply.kind = "GAME_STATE" =>
                    /\ v.reply.game_id \in DOMAIN active_games'
                    /\ v.reply = Picture(v.reply.game_id, active_games'[v.reply.game_id])
                    /\ v.serial = serial'[v.reply.game_id]
<1>3. ASSUME NEW v \in AllViews' PROVE v \in AllViews \/ Fresh(v)
    <2>1. PICK c \in Clients : v \in ViewsOf(c)'
        BY DEF AllViews
    <2>2. CASE v \in ViewsOf(c)
        BY <2>2 DEF AllViews
    <2>3. CASE Serve /\ NewView(v)
        BY <1>1, <2>3, NewViews DEF AnsweringInv, NothingSentYet
    <2>. QED
        BY <1>1, <2>1, <2>2, <2>3, ViewsStep
<1>4. ASSUME NEW v \in AllViews PROVE IsPast(v)'
    <2>. DEFINE g == v.reply.game_id
    <2>. SUFFICES ASSUME v.reply.kind = "GAME_STATE"
                  PROVE  /\ g \in DOMAIN serial' /\ v.serial \in Nat /\ v.serial <= serial'[g]
                         /\ g \in DOMAIN active_games' /\ v.serial = serial'[g] =>
                               MayPrecede(v.reply, Picture(g, active_games'[g]))
        BY DEF IsPast
    <2>1. /\ g \in DOMAIN serial /\ v.serial \in Nat /\ v.serial <= serial[g]
          /\ g \in DOMAIN active_games /\ v.serial = serial[g] =>
                MayPrecede(v.reply, Picture(g, active_games[g]))
        BY DEF ViewsInv, IsPast
    <2>2. g \in DOMAIN serial' /\ v.serial <= serial'[g]
        BY <1>2, <2>1
    <2>3. ASSUME g \in DOMAIN active_games', v.serial = serial'[g]
          PROVE  MayPrecede(v.reply, Picture(g, active_games'[g]))
        <3>1. g \in DOMAIN active_games /\ v.serial = serial[g]
            BY <1>2, <2>1, <2>3
        <3>2. MayPrecede(Picture(g, active_games[g]), Picture(g, active_games'[g]))
            BY <1>1, <2>3, <3>1, GamesGoOn
        <3>. QED
            BY <2>1, <3>1, <3>2, PrecedenceOrders
    <2>. QED
        BY <2>1, <2>2, <2>3
<1>5. ASSUME NEW v, Fresh(v) PROVE IsPast(v)'
    <2>. DEFINE g == v.reply.game_id
    <2>. SUFFICES ASSUME v.reply.kind = "GAME_STATE"
                  PROVE  /\ g \in DOMAIN serial' /\ v.serial \in Nat /\ v.serial <= serial'[g]
                         /\ g \in DOMAIN active_games' /\ v.serial = serial'[g] =>
                               MayPrecede(v.reply, Picture(g, active_games'[g]))
        BY DEF IsPast
    <2>1. g \in DOMAIN serial' /\ serial'[g] \in Nat /\ v.serial = serial'[g]
        BY <1>2, <1>5 DEF SerialsCount
    <2>2. v.reply = Picture(g, active_games'[g])
        BY <1>5
    <2>3. MayPrecede(v.reply, Picture(g, active_games'[g]))
        BY <2>2, PrecedenceOrders
    <2>. QED
        BY <2>1, <2>3
<1>6. ASSUME NEW v, NEW w, IsPast(v)', Fresh(w) PROVE Agree(v, w) /\ Agree(w, v)
    <2>. SUFFICES ASSUME v.reply.kind = "GAME_STATE", w.reply.kind = "GAME_STATE",
                         v.reply.game_id = w.reply.game_id, v.serial = w.serial
                  PROVE  MayPrecede(v.reply, w.reply)
        BY DEF Agree
    <2>. DEFINE g == w.reply.game_id
    <2>1. g \in DOMAIN active_games' /\ w.reply = Picture(g, active_games'[g]) /\ w.serial = serial'[g]
        BY <1>6
    <2>2. MayPrecede(v.reply, Picture(g, active_games'[g]))
        BY <1>6, <2>1 DEF IsPast
    <2>. QED
        BY <2>1, <2>2
<1>. HIDE DEF Fresh
<1>7. \A v \in AllViews' : IsPast(v)'
    BY <1>3, <1>4, <1>5
<1>8. \A v, w \in AllViews' : Agree(v, w)
    BY <1>3, <1>6, <1>7 DEF ViewsInv
<1>9. \A v, w \in AllViews' : Agree(v, w)'
    BY <1>8 DEF Agree
<1>. QED
    BY <1>2, <1>7, <1>9 DEF ViewsInv

\* No two clients are shown contradicting pictures of one game, whatever is
\* lost, delayed, repeated or overtaken, and whoever uses the game's id before
\* and after.
THEOREM ViewsAlwaysAgree == SystemSpec => []ViewsAgree
<1>1. SystemInit => RequestsTyped /\ AnsweringInv /\ ViewsInv
    BY SystemStarts DEF ViewsInv, AllViews, CopiesInv
<1>2. TypeOK /\ TypeOK' /\ SeatsMatchStatus /\ RequestsTyped /\ AnsweringInv /\ ViewsInv
          /\ [SystemNext]_<<vars, netVars>> => RequestsTyped' /\ AnsweringInv' /\ ViewsInv'
    BY SystemStep, AnsweringStep, ViewsInvStep
<1>3. ViewsInv => ViewsAgree
    BY DEF ViewsInv, AllViews, ViewsOf, Agree, ViewsAgree
<1>. QED
    BY <1>1, <1>2, <1>3, SystemRunsTheServer, TypeCorrect, SeatsAlwaysMatchStatus, PTL DEF SystemSpec
==============================================================================
