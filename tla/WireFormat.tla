------------------------------ MODULE WireFormat ------------------------------
(***************************************************************************)
(* The datagrams as bytes: the 32-bit fields of src/common.cpp, what the   *)
(* handlers of the server read and write (src/message_handlers.cpp and .h) *)
(* and what the client makes of an answer (src/kayles_client.cpp).         *)
(*                                                                         *)
(* Offsets count from 0 as in the code: buf[off] is buf[off + 1] here.  The *)
(* bytes of a board are left packed: PawnRow is about them.                *)
(***************************************************************************)
EXTENDS GameLogic, Sequences

CONSTANT UINT32_MAX    \* the largest value of a 32-bit field, and game id

JOIN_SIZE == 5
MOVE_SIZE == 10
KEEP_ALIVE_SIZE == 9
GIVE_UP_SIZE == 9
OFF_PLAYER_ID == 1
OFF_GAME_ID == 5
OFF_PAWN_IDX == 9

MESSAGE_LEN == 12
ERROR_STATUS == IdxRange - 1    \* 255
OFF_STATE_GAME_ID == 0
OFF_STATE_PLAYER_A == 4
OFF_STATE_PLAYER_B == 8
OFF_STATE_STATUS == 12
OFF_STATE_MAX_PAWN == 13

\* Big-endian: the most significant of the four bytes first.
write_u32(val) ==
    LET high == val \div IdxRange
        higher == high \div IdxRange
    IN  <<(higher \div IdxRange) % IdxRange, higher % IdxRange, high % IdxRange, val % IdxRange>>

read_u32(buf, off) ==
    ((buf[off + 1] * IdxRange + buf[off + 2]) * IdxRange + buf[off + 3]) * IdxRange + buf[off + 4]
-----------------------------------------------------------------------------
\* The fields the handlers read from a request as long as the client's are.
DecodedRequest(buf) ==
    [type |-> buf[1], len |-> Len(buf),
     player_id |-> read_u32(buf, OFF_PLAYER_ID),
     game_id |-> IF Len(buf) > OFF_GAME_ID THEN read_u32(buf, OFF_GAME_ID) ELSE 0,
     pawn_idx |-> IF Len(buf) > OFF_PAWN_IDX THEN buf[OFF_PAWN_IDX + 1] ELSE 0]

\* An answer is the 14 bytes both kinds have, and the board after them: none
\* in a WRONG_MSG, or in the GAME_STATE of a game that has lost its bytes.
send_game_state(reply) ==
    [head |-> write_u32(reply.game_id) \o write_u32(reply.player_a_id)
              \o write_u32(reply.player_b_id) \o <<reply.status, MaxPawn>>,
     boards |-> IF reply.torn THEN {} ELSE {reply.pawn_row}]

handle_wrong_message(buf, error_index) ==
    [head |-> [k \in 1 .. MESSAGE_LEN |-> IF k <= Len(buf) THEN buf[k] ELSE 0]
              \o <<ERROR_STATUS, error_index>>,
     boards |-> {}]

Encoded(reply, buf) ==
    IF reply.kind = "GAME_STATE" THEN send_game_state(reply)
    ELSE handle_wrong_message(buf, reply.error_index)

\* receive_and_display_message: what is printed of an answer.
IsWrongMessage(answer) ==
    answer.boards = {} /\ answer.head[MESSAGE_LEN + 1] = ERROR_STATUS

Displayed(answer) ==
    IF IsWrongMessage(answer)
    THEN [kind |-> "WRONG_MSG", echoed |-> SubSeq(answer.head, 1, MESSAGE_LEN),
          error_index |-> answer.head[MESSAGE_LEN + 2]]
    ELSE LET max_pawn == answer.head[OFF_STATE_MAX_PAWN + 1] IN
         [kind |-> "GAME_STATE",
          game_id |-> read_u32(answer.head, OFF_STATE_GAME_ID),
          player_a_id |-> read_u32(answer.head, OFF_STATE_PLAYER_A),
          player_b_id |-> read_u32(answer.head, OFF_STATE_PLAYER_B),
          status |-> answer.head[OFF_STATE_STATUS + 1],
          pawn_row |-> (UNION answer.boards) \cap (0 .. max_pawn)]
==============================================================================
