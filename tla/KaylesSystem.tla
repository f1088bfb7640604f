----------------------------- MODULE KaylesSystem -----------------------------
(***************************************************************************)
(* The server of KaylesServer, the clients of src/kayles_client.cpp and    *)
(* the network between them.                                               *)
(*                                                                         *)
(* A client is one run of the program: it sends one datagram from a socket *)
(* of its own, prints the first answer that reaches it or gives up, and    *)
(* exits.  UDP may lose, delay, reorder and duplicate: a datagram that was *)
(* sent stays in the network, and is delivered any number of times, or     *)
(* never.                                                                  *)
(***************************************************************************)
EXTENDS KaylesServer, ClientMessages

CONSTANTS
    Clients,         \* the runs of the client program
    Typed,           \* what players may type after -m
    MaxDeliveries    \* bound: datagrams the server receives in all

VARIABLES
    client,       \* run -> what it has typed, where it is, what it printed
    requests,     \* the network: client to server
    answers,      \* the network: server to client
    handling,     \* the request in the server's buffer, and its sender
    delivered,    \* how many datagrams the server has received
    serial,       \* history: how many games have been opened under each id
    acted         \* history: <<bytes, game id, serial>>, what requests have changed

netVars == <<client, requests, answers, handling, delivered, serial, acted>>

\* What clients send is what the server is sent; four bytes make a 32-bit
\* number, and no status is mistaken for ERROR_STATUS.
ASSUME SystemAssumption ==
    /\ MaxDeliveries \in Nat
    /\ UINT32_MAX = IdxRange * IdxRange * IdxRange * IdxRange - 1
    /\ ERROR_STATUS \notin Statuses
    /\ Typed \subseteq Seq(Int)
    /\ \A parts \in Typed :
          ~IsFatal(parts) => DecodedRequest(serialize_message(parts)) \in Datagrams

Nothing == [from |-> "nobody", bytes |-> <<>>]

SystemInit ==
    /\ Init
    /\ client = [c \in Clients |-> [state |-> "new", parts |-> <<>>, shown |-> {}]]
    /\ requests = {} /\ answers = {}
    /\ handling = Nothing
    /\ delivered = 0
    /\ serial = [g \in {} |-> 0]
    /\ acted = {}
-----------------------------------------------------------------------------
\* main of the client, up to read: the message is converted and sent - or the
\* client ends with a complaint, of its message or of a write that failed.
ClientSend(c) ==
    /\ client[c].state = "new"
    /\ \/ /\ client' = [client EXCEPT ![c].state = "exited"]
          /\ UNCHANGED requests
       \/ \E parts \in Typed :
             /\ ~IsFatal(parts)
             /\ client' = [client EXCEPT ![c].state = "reading", ![c].parts = parts]
             /\ requests' = requests \cup
                   {[from |-> c, bytes |-> serialize_message(parts)]}
    /\ UNCHANGED <<answers, handling, delivered, serial, acted>>
    /\ UNCHANGED vars

\* receive_and_display_message: the first answer is printed, and no other is
\* ever read.
ClientReceive(c) ==
    /\ client[c].state = "reading"
    /\ \E a \in answers :
          /\ a.to = c
          /\ client' = [client EXCEPT
                ![c].state = "exited",
                ![c].shown = {[reply |-> Displayed(a.answer), serial |-> a.serial]}]
    /\ answers' = {a \in answers : a.to # c}
    /\ UNCHANGED <<requests, handling, delivered, serial, acted>>
    /\ UNCHANGED vars

\* Its own SO_RCVTIMEO, a refused connection or a failed read: no answer is
\* printed, and the client is gone.
ClientTimeout(c) ==
    /\ client[c].state = "reading"
    /\ client' = [client EXCEPT ![c].state = "exited"]
    /\ answers' = {a \in answers : a.to # c}
    /\ UNCHANGED <<requests, handling, delivered, serial, acted>>
    /\ UNCHANGED vars
-----------------------------------------------------------------------------
Deliver(r) ==
    /\ delivered < MaxDeliveries
    /\ Receive(DecodedRequest(r.bytes))
    /\ handling' = r
    /\ delivered' = delivered + 1
    /\ UNCHANGED <<client, requests, answers, serial, acted>>

Opened == DOMAIN active_games' \ DOMAIN active_games

\* What the players can see of game g changes.
Acts(g) == [active_games'[g] EXCEPT !.idle = 0] # [active_games[g] EXCEPT !.idle = 0]

\* The games that a step opens or that it visibly changes.
Changed == Opened \cup {g \in DOMAIN active_games \cap DOMAIN active_games' : Acts(g)}

\* The answers of a handler go to the sender, if it still listens.
Serve ==
    LET count(g) == IF g \in DOMAIN serial THEN serial[g] ELSE 0 IN
    /\ Handle
    /\ serial' = [g \in DOMAIN serial \cup Opened |->
                     IF g \in Opened THEN count(g) + 1 ELSE serial[g]]
    /\ acted' = acted \cup {<<handling.bytes, g, serial'[g]>> : g \in Changed}
    /\ answers' = answers \cup
          {[to |-> handling.from, answer |-> Encoded(replies'[k], handling.bytes),
            serial |-> IF replies'[k].kind = "GAME_STATE" THEN serial'[replies'[k].game_id] ELSE 0] :
              k \in {j \in 1 .. Len(replies') : client[handling.from].state = "reading"}}
    /\ handling' = Nothing
    /\ UNCHANGED <<client, requests, delivered>>

ServerAlone == (RecvTimeout \/ RecvFails \/ Tick) /\ UNCHANGED netVars

SystemNext ==
    \/ \E c \in Clients : ClientSend(c) \/ ClientReceive(c) \/ ClientTimeout(c)
    \/ \E r \in requests : Deliver(r)
    \/ Serve
    \/ ServerAlone

SystemSpec == SystemInit /\ [][SystemNext]_<<vars, netVars>>
-----------------------------------------------------------------------------
\* The number that arrives in a field of 32 bits.
Word(n) == n % (UINT32_MAX + 1)

\* A printed answer is about the message `parts'.
IsAbout(reply, parts) ==
    LET sent == serialize_message(parts) IN
    /\ reply.kind = "GAME_STATE" =>
          /\ Word(parts[2]) \in {reply.player_a_id, reply.player_b_id}
          /\ parts[1] # 0 => reply.game_id = Word(parts[3])
    /\ reply.kind = "WRONG_MSG" =>
          /\ \A k \in 1 .. Len(sent) : reply.echoed[k] = sent[k]
          /\ reply.error_index < Len(sent)

\* What a client prints is about what its user typed: a game in which the
\* player typed takes part, under the id typed, both modulo 2^32 as stoul and the
\* cut to 32 bits leave them, or a complaint about the very bytes it sent -
\* whichever answers are delayed or repeated, whatever happens to the game and
\* its id in the meantime, and though the two programs each have a layout of the
\* datagrams of their own.
PrintsWhatWasAsked ==
    \A c \in Clients : \A a \in client[c].shown : IsAbout(a.reply, client[c].parts)

\* Nothing in a datagram tells a copy, made by the network or sent by another
\* run of the client, from a new request: the rules must reject it.  They do, the
\* same bytes open or change a game once.  The exception is a JOIN: a copy of the
\* one that opened a game may take its free seat, and so seats its player opposite
\* themselves.  (A copy that comes so late that the id has been given to another
\* game is a request to that game.)
RequestsActOnce ==
    [][\A g \in Changed :
          pc = "dispatch" /\ <<handling.bytes, g, serial'[g]>> \in acted =>
              /\ datagram.type = 0 /\ g \notin Opened
              /\ active_games[g].player_a_id = datagram.player_id
              /\ active_games[g].player_b_id = 0]_<<vars, netVars>>

\* State s of a game may have been followed by state t.
MayPrecede(s, t) ==
    /\ s.player_a_id = t.player_a_id
    /\ s.player_b_id \in {0, t.player_b_id}
    /\ t.pawn_row \subseteq s.pawn_row
    /\ s.status \in Wins => t = s
    /\ s.pawn_row = t.pawn_row =>
          s.status = t.status \/ s.status = WAITING_FOR_OPPONENT \/ t.status \in Wins

\* No two clients are shown contradicting pictures of one game: of any two
\* states printed for it one comes before the other, whichever of the players
\* asked and in whichever order the answers arrived.
ViewsAgree ==
    \A c, d \in Clients : \A a \in client[c].shown, b \in client[d].shown :
        /\ a.reply.kind = "GAME_STATE" /\ b.reply.kind = "GAME_STATE"
        /\ a.reply.game_id = b.reply.game_id /\ a.serial = b.serial
        => MayPrecede(a.reply, b.reply) \/ MayPrecede(b.reply, a.reply)
==============================================================================
