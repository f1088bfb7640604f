-------------------------- MODULE KaylesServerClaims --------------------------
(***************************************************************************)
(* What the documentation says of the server and its code does not do.     *)
(* TLC finds a counterexample to each of these, and to                     *)
(* EveryRequestIsHandled (in KaylesServerProperties) on a row of 256.      *)
(***************************************************************************)
EXTENDS KaylesServerProperties

\* message_handlers.h: MOVE_2 knocks down "two consecutive pawns: the pawn at
\* the given index and the next one".  On a row of 256 the pawn after the last
\* one is pawn 0.
MoveTwoTakesNeighbours ==
    [][\A g \in DOMAIN active_games \cap DOMAIN active_games' :
          LET fallen == active_games[g].pawn_row \ active_games'[g].pawn_row IN
          pc = "dispatch" /\ datagram.type = 2 =>
              fallen = {} \/ \E i \in Pawns : fallen = {i, i + 1}]_vars

\* kayles_server.cpp: "in case a malformed message is provided by a client, the
\* server responds with MSG_WRONG_MESSAGE" - one message, and the client waits
\* "for one response" (kayles_client.cpp).  A failed lookup is answered twice.
OneReplyPerRequest == Len(replies) <= 1

\* message_handlers.h: "in case of resource exhaustion, the request is silently
\* ignored".  A JOIN that runs out of memory can leave a game behind.
ExhaustedJoinIsIgnored ==
    [][pc = "dispatch" /\ pc' = "recvfrom" /\ replies' = <<>>
          => active_games' = active_games]_vars
==============================================================================
