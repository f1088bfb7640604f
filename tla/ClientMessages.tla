---------------------------- MODULE ClientMessages ----------------------------
(***************************************************************************)
(* The client's conversion of a message typed on the command line to a     *)
(* datagram: serialize_message of src/client_messages.cpp.                 *)
(*                                                                         *)
(* A typed message is the sequence of the numbers between its slashes, the *)
(* type first.  A token's number is the one it starts with, whatever may   *)
(* follow; a token without one makes the conversion throw just as a number *)
(* that does not fit does, and is such a number here.                      *)
(***************************************************************************)
EXTENDS WireFormat

JOIN_PARTS == 2
MOVE_PARTS == 4
KEEP_ALIVE_PARTS == 3
GIVE_UP_PARTS == 3

Parts(type) ==
    IF type = 0 THEN JOIN_PARTS
    ELSE IF type \in {1, 2} THEN MOVE_PARTS
    ELSE IF type = 3 THEN KEEP_ALIVE_PARTS
    ELSE GIVE_UP_PARTS

\* stoul: 64 bits and an optional sign, which wraps instead of failing.
ULONG_MAX == (UINT32_MAX + 1) * (UINT32_MAX + 1) - 1
FitsLong(n) == -ULONG_MAX <= n /\ n <= ULONG_MAX

extract_u32_field(n) == n % (UINT32_MAX + 1)

\* The messages that end the client before it sends anything.
IsFatal(parts) ==
    \/ parts = <<>>
    \/ parts[1] \notin 0 .. 4
    \/ Len(parts) # Parts(parts[1])
    \/ \E k \in 2 .. Len(parts) : ~FitsLong(parts[k])

\* The parts that are 32-bit fields, as they go into the buffer.
Field(parts, k) == write_u32(extract_u32_field(parts[k]))

PawnByte(parts) == <<extract_u32_field(parts[4]) % IdxRange>>

\* Wrong: the fields of the game and of the player are swapped.
SerializeSwapped(parts) ==
    IF parts[1] = 0 THEN <<0>> \o Field(parts, 2)
    ELSE <<parts[1]>> \o Field(parts, 3) \o Field(parts, 2)
            \o (IF parts[1] \in {1, 2} THEN PawnByte(parts) ELSE <<>>)

serialize_message(parts) ==
    IF parts[1] = 0 THEN <<0>> \o Field(parts, 2)
    ELSE <<parts[1]>> \o Field(parts, 2) \o Field(parts, 3)
            \o (IF parts[1] \in {1, 2} THEN PawnByte(parts) ELSE <<>>)
==============================================================================
