---------------------------- MODULE KaylesSilence ----------------------------
(***************************************************************************)
(* The server with a history variable: how long ago each game last got a   *)
(* correct message, whether or not the handler found the move legal.       *)
(***************************************************************************)
EXTENDS KaylesServerProperties

VARIABLE silent    \* game id -> ticks since its last correct message

Spoken ==
    IF pc = "dispatch" /\ IsCorrect /\ datagram.type # 0
    THEN {datagram.game_id}
    ELSE DOMAIN active_games' \ DOMAIN active_games

Sitting ==
    {g \in DOMAIN active_games \cap DOMAIN active_games' :
        active_games'[g].player_b_id # active_games[g].player_b_id}

SilenceInit == Init /\ silent = [g \in GameIds |-> 0]

SilenceNext ==
    \/ Tick /\ silent' = [g \in GameIds |-> Older(silent[g])]
    \/ /\ \/ \E m \in Datagrams : Receive(m)
          \/ RecvTimeout
          \/ RecvFails
          \/ Handle
       /\ silent' = [g \in GameIds |-> IF g \in Spoken \cup Sitting THEN 0 ELSE silent[g]]

SilenceSpec == SilenceInit /\ [][SilenceNext]_<<vars, silent>>

\* kayles_server.cpp: a game ends by timeout when "a session receives no
\* messages for <timeout> seconds".  A correct message whose move is illegal, or
\* out of turn, is received, is answered, and does not count.
OnlySilentSessionsEnd ==
    [][\A g \in DOMAIN active_games \ DOMAIN active_games' : silent[g] > Timeout]_<<vars, silent>>
==============================================================================
