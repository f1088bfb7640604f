--------------------------- MODULE WireFormatProofs ---------------------------
(***************************************************************************)
(* The two programs each have a layout of the datagrams of their own: they *)
(* agree, for every number of values a byte may have.                      *)
(***************************************************************************)
EXTENDS ClientMessages, SequenceTheorems, TLAPS

\* What four bytes can hold.
Words == 0 .. IdxRange * (IdxRange * (IdxRange * IdxRange)) - 1

LEMMA DivisionSplits ==
    ASSUME NEW n \in Nat
    PROVE  /\ n \div IdxRange \in Nat
           /\ n % IdxRange \in 0 .. IdxRange - 1
           /\ n = (n \div IdxRange) * IdxRange + (n % IdxRange)
    BY GameLogicAssumption

LEMMA DivisionBounds ==
    ASSUME NEW n \in Nat, NEW m \in Nat, n < IdxRange * m
    PROVE  n \div IdxRange < m
<1>. DEFINE q == n \div IdxRange
<1>1. q \in Nat /\ q * IdxRange <= n
    BY GameLogicAssumption
<1>. HIDE DEF q
<1>2. ASSUME q >= m PROVE FALSE
    BY <1>1, <1>2, GameLogicAssumption
<1>. QED
    BY <1>1, <1>2 DEF q

LEMMA Division ==
    ASSUME NEW n \in Nat, NEW m \in Nat, n < IdxRange * m
    PROVE  /\ n \div IdxRange \in Nat /\ n \div IdxRange < m
           /\ n % IdxRange \in 0 .. IdxRange - 1
           /\ n = (n \div IdxRange) * IdxRange + (n % IdxRange)
    BY DivisionSplits, DivisionBounds

\* A 32-bit number is read as it was written.
THEOREM ReadsWhatWasWritten ==
    ASSUME NEW n \in Words
    PROVE  /\ write_u32(n) \in Seq(Int)
           /\ Len(write_u32(n)) = 4
           /\ read_u32(write_u32(n), 0) = n
<1>. DEFINE B == IdxRange
            high == n \div IdxRange
            higher == high \div IdxRange
            highest == higher \div IdxRange
<1>1. B \in Nat /\ n \in Nat /\ B * B \in Nat /\ B * (B * B) \in Nat /\ n < B * (B * (B * B))
    BY GameLogicAssumption DEF Words
<1>2. high \in Nat /\ high < B * (B * B) /\ n % B \in 0 .. B - 1 /\ n = high * B + (n % B)
    BY <1>1, Division
<1>3. write_u32(n) = <<highest % B, higher % B, high % B, n % B>>
    BY DEF write_u32
<1>. HIDE DEF high
<1>4. higher \in Nat /\ higher < B * B /\ high % B \in 0 .. B - 1 /\ high = higher * B + (high % B)
    BY <1>1, <1>2, Division
<1>. HIDE DEF higher
<1>5. highest \in Nat /\ highest < B /\ higher % B \in 0 .. B - 1 /\ higher = highest * B + (higher % B)
    BY <1>1, <1>4, Division
<1>. HIDE DEF highest
<1>6. highest % B = highest
    BY <1>1, <1>5
<1>7. read_u32(write_u32(n), 0) = ((highest * B + (higher % B)) * B + (high % B)) * B + (n % B)
    BY <1>3, <1>6 DEF read_u32
<1>. QED
    BY <1>1, <1>2, <1>3, <1>4, <1>5, <1>6, <1>7
-----------------------------------------------------------------------------
LEMMA Joined ==
    ASSUME NEW s \in Seq(Int), NEW t \in Seq(Int)
    PROVE  /\ s \o t \in Seq(Int)
           /\ Len(s \o t) = Len(s) + Len(t)
           /\ \A k \in 1 .. Len(s) : (s \o t)[k] = s[k]
           /\ \A k \in 1 .. Len(t) : (s \o t)[Len(s) + k] = t[k]
    OBVIOUS

LEMMA SameBytes ==
    ASSUME NEW buf, NEW word
    PROVE  \A off \in {0, 1, 4, 5, 8} :
              (\A k \in 1 .. 4 : buf[off + k] = word[k]) => read_u32(buf, off) = read_u32(word, 0)
<1>1. ASSUME NEW off \in Nat, \A k \in 1 .. 4 : buf[off + k] = word[k]
      PROVE  read_u32(buf, off) = read_u32(word, 0)
    <2>1. /\ buf[off + 1] = word[1] /\ buf[off + 2] = word[2]
          /\ buf[off + 3] = word[3] /\ buf[off + 4] = word[4]
        BY <1>1
    <2>2. /\ word[0 + 1] = word[1] /\ word[0 + 2] = word[2]
          /\ word[0 + 3] = word[3] /\ word[0 + 4] = word[4]
        OBVIOUS
    <2>. QED
        BY <2>1, <2>2, Zenon DEF read_u32
<1>2. {0, 1, 4, 5, 8} \subseteq Nat
    OBVIOUS
<1>. QED
    BY <1>1, <1>2, Zenon

\* Where the fields of a request are: an identifier, and in most of them
\* another one and what is left.
LEMMA ShortRequest ==
    ASSUME NEW type \in Int, NEW a \in Seq(Int), Len(a) = 4
    PROVE  LET buf == <<type>> \o a IN
           /\ buf \in Seq(Int) /\ Len(buf) = 5
           /\ buf[1] = type
           /\ \A k \in 1 .. 4 : buf[1 + k] = a[k]
<1>. DEFINE first == <<type>>
            buf == first \o a
<1>1. first \in Seq(Int) /\ Len(first) = 1 /\ first[1] = type
    OBVIOUS
<1>. HIDE DEF first
<1>2. /\ buf \in Seq(Int) /\ Len(buf) = Len(first) + Len(a)
      /\ \A k \in 1 .. Len(first) : buf[k] = first[k]
      /\ \A k \in 1 .. Len(a) : buf[Len(first) + k] = a[k]
    BY <1>1, Joined, Zenon
<1>. HIDE DEF buf
<1>3. buf \in Seq(Int) /\ Len(buf) = 5 /\ buf[1] = type /\ \A k \in 1 .. 4 : buf[1 + k] = a[k]
    BY <1>1, <1>2
<1>. QED
    BY <1>3, Zenon DEF buf, first

IsLongRequest(buf, type, a, b, c) ==
    /\ Len(buf) = 9 + Len(c)
    /\ buf[1] = type
    /\ \A k \in 1 .. 4 : buf[1 + k] = a[k]
    /\ \A k \in 1 .. 4 : buf[5 + k] = b[k]
    /\ Len(c) > 0 => buf[10] = c[1]

LEMMA LongRequest ==
    ASSUME NEW type \in Int, NEW a \in Seq(Int), NEW b \in Seq(Int), NEW c \in Seq(Int),
           Len(a) = 4, Len(b) = 4
    PROVE  IsLongRequest(<<type>> \o a \o b \o c, type, a, b, c)
<1>. DEFINE one == <<type>> \o a
            two == one \o b
            buf == two \o c
<1>1. one \in Seq(Int) /\ Len(one) = 5 /\ one[1] = type /\ \A k \in 1 .. 4 : one[1 + k] = a[k]
    BY ShortRequest, Zenon
<1>. HIDE DEF one
<1>2. /\ two \in Seq(Int) /\ Len(two) = Len(one) + Len(b)
      /\ \A k \in 1 .. Len(one) : two[k] = one[k]
      /\ \A k \in 1 .. Len(b) : two[Len(one) + k] = b[k]
    BY <1>1, Joined, Zenon
<1>. HIDE DEF two
<1>3. /\ buf \in Seq(Int) /\ Len(buf) = Len(two) + Len(c)
      /\ \A k \in 1 .. Len(two) : buf[k] = two[k]
      /\ \A k \in 1 .. Len(c) : buf[Len(two) + k] = c[k]
    BY <1>2, Joined, Zenon
<1>. HIDE DEF buf
<1>4. IsLongRequest(buf, type, a, b, c)
    <2>1. Len(two) = 9 /\ Len(c) \in Nat
        BY <1>1, <1>2
    <2>2. /\ \A k \in 1 .. 5 : two[k] = one[k]
          /\ \A k \in 1 .. 4 : two[5 + k] = b[k]
        BY <1>1, <1>2
    <2>3. /\ \A k \in 1 .. 9 : buf[k] = two[k]
          /\ Len(c) > 0 => buf[9 + 1] = c[1]
        BY <1>3, <2>1
    <2>4. buf[1] = type /\ \A k \in 1 .. 4 : buf[1 + k] = a[k]
        BY <1>1, <2>2, <2>3
    <2>5. \A k \in 1 .. 4 : buf[5 + k] = b[k]
        BY <2>2, <2>3
    <2>. QED
        BY <1>3, <2>1, <2>3, <2>4, <2>5 DEF IsLongRequest
<1>. QED
    BY <1>4, Zenon DEF buf, two, one

LEMMA FieldHolds ==
    ASSUME UINT32_MAX + 1 = IdxRange * (IdxRange * (IdxRange * IdxRange)),
           NEW parts \in Seq(Int), NEW k \in 1 .. Len(parts)
    PROVE  /\ Field(parts, k) \in Seq(Int)
           /\ Len(Field(parts, k)) = 4
           /\ read_u32(Field(parts, k), 0) = parts[k] % (UINT32_MAX + 1)
<1>1. IdxRange * (IdxRange * (IdxRange * IdxRange)) \in Nat \ {0}
    BY GameLogicAssumption
<1>2. parts[k] % (UINT32_MAX + 1) \in Words
    BY <1>1 DEF Words
<1>. QED
    BY <1>2, ReadsWhatWasWritten DEF Field, extract_u32_field

\* The server reads from a client's datagram the fields that were typed, each
\* cut to its width, in a datagram of the size its handler wants.
THEOREM TypedFieldsArrive ==
    ASSUME UINT32_MAX + 1 = IdxRange * (IdxRange * (IdxRange * IdxRange)),
           NEW parts \in Seq(Int), ~IsFatal(parts)
    PROVE  LET request == DecodedRequest(serialize_message(parts)) IN
           /\ request.type = parts[1]
           /\ request.player_id = parts[2] % (UINT32_MAX + 1)
           /\ parts[1] = 0 => request.len = JOIN_SIZE
           /\ parts[1] # 0 => request.game_id = parts[3] % (UINT32_MAX + 1)
           /\ parts[1] \in {1, 2} =>
                 /\ request.len = MOVE_SIZE
                 /\ request.pawn_idx = (parts[4] % (UINT32_MAX + 1)) % IdxRange
           /\ parts[1] = 3 => request.len = KEEP_ALIVE_SIZE
           /\ parts[1] = 4 => request.len = GIVE_UP_SIZE
<1>1. /\ parts[1] \in 0 .. 4 /\ parts[1] \in Int
      /\ Len(parts) = Parts(parts[1])
    BY DEF IsFatal
<1>2. /\ Field(parts, 2) \in Seq(Int) /\ Len(Field(parts, 2)) = 4
      /\ read_u32(Field(parts, 2), 0) = parts[2] % (UINT32_MAX + 1)
    <2>1. 2 \in 1 .. Len(parts)
        BY <1>1 DEF Parts, JOIN_PARTS, MOVE_PARTS, KEEP_ALIVE_PARTS, GIVE_UP_PARTS
    <2>. QED
        BY <2>1, FieldHolds
<1>3. CASE parts[1] = 0
    <2>. DEFINE buf == <<parts[1]>> \o Field(parts, 2)
    <2>1. serialize_message(parts) = buf
        BY <1>3 DEF serialize_message
    <2>2. /\ Len(buf) = 5 /\ buf[1] = parts[1]
          /\ \A k \in 1 .. 4 : buf[1 + k] = Field(parts, 2)[k]
        BY <1>1, <1>2, ShortRequest, Zenon
    <2>. HIDE DEF buf
    <2>3. read_u32(buf, 1) = parts[2] % (UINT32_MAX + 1)
        BY <1>2, <2>2, SameBytes, Zenon
    <2>4. DecodedRequest(buf).type = parts[1] /\ DecodedRequest(buf).len = JOIN_SIZE
        BY <2>2 DEF DecodedRequest, JOIN_SIZE
    <2>5. DecodedRequest(buf).player_id = read_u32(buf, 1)
        BY DEF DecodedRequest, OFF_PLAYER_ID
    <2>. QED
        BY <1>3, <2>1, <2>3, <2>4, <2>5
<1>4. CASE parts[1] # 0
    <2>. DEFINE rest == IF parts[1] \in {1, 2} THEN PawnByte(parts) ELSE <<>>
                buf == <<parts[1]>> \o Field(parts, 2) \o Field(parts, 3) \o rest
    <2>1. serialize_message(parts) = buf
        BY <1>4 DEF serialize_message
    <2>2. /\ Field(parts, 3) \in Seq(Int) /\ Len(Field(parts, 3)) = 4
          /\ read_u32(Field(parts, 3), 0) = parts[3] % (UINT32_MAX + 1)
        <3>1. 3 \in 1 .. Len(parts)
            BY <1>1, <1>4 DEF Parts, MOVE_PARTS, KEEP_ALIVE_PARTS, GIVE_UP_PARTS
        <3>. QED
            BY <3>1, FieldHolds
    <2>. DEFINE pawn == (parts[4] % (UINT32_MAX + 1)) % IdxRange
    <2>3. /\ rest \in Seq(Int)
          /\ parts[1] \in {1, 2} => Len(rest) = 1 /\ rest[1] = pawn
          /\ parts[1] \in {3, 4} => Len(rest) = 0
        <3>1. CASE parts[1] \in {1, 2}
            <4>1. UINT32_MAX + 1 \in Nat \ {0} /\ parts[4] \in Int
                BY <1>1, <3>1, GameLogicAssumption DEF Parts, MOVE_PARTS
            <4>. QED
                BY <3>1, <4>1, GameLogicAssumption DEF PawnByte, extract_u32_field
        <3>. QED
            BY <1>1, <1>4, <3>1
    <2>. HIDE DEF rest, pawn
    <2>4. /\ Len(buf) = 9 + Len(rest) /\ buf[1] = parts[1]
          /\ \A k \in 1 .. 4 : buf[1 + k] = Field(parts, 2)[k]
          /\ \A k \in 1 .. 4 : buf[5 + k] = Field(parts, 3)[k]
          /\ Len(rest) > 0 => buf[10] = rest[1]
        <3>1. rest \in Seq(Int)
            BY <2>3
        <3>2. IsLongRequest(buf, parts[1], Field(parts, 2), Field(parts, 3), rest)
            BY <1>1, <1>2, <2>2, <3>1, LongRequest, Zenon
        <3>. HIDE DEF buf
        <3>. QED
            BY <3>2, Zenon DEF IsLongRequest
    <2>. HIDE DEF buf
    <2>5. read_u32(buf, 1) = parts[2] % (UINT32_MAX + 1)
        BY <1>2, <2>4, SameBytes, Zenon
    <2>6. read_u32(buf, 5) = parts[3] % (UINT32_MAX + 1)
        BY <2>2, <2>4, SameBytes, Zenon
    <2>7. Len(buf) > 5
        BY <2>3, <2>4
    <2>8. /\ DecodedRequest(buf).type = parts[1]
          /\ DecodedRequest(buf).player_id = read_u32(buf, 1)
          /\ DecodedRequest(buf).game_id = read_u32(buf, 5)
          /\ DecodedRequest(buf).len = Len(buf)
        BY <2>4, <2>7 DEF DecodedRequest, OFF_PLAYER_ID, OFF_GAME_ID
    <2>9. CASE parts[1] \in {1, 2}
        <3>1. Len(buf) = 10 /\ buf[10] = rest[1]
            <4>1. Len(rest) = 1
                BY <2>3, <2>9, Zenon
            <4>2. Len(buf) = 9 + 1
                BY <2>4, <4>1, Zenon
            <4>3. buf[10] = rest[1]
                BY <2>4, <4>1
            <4>. QED
                BY <4>2, <4>3
        <3>2. DecodedRequest(buf).pawn_idx = buf[10]
            BY <3>1 DEF DecodedRequest, OFF_PAWN_IDX
        <3>. QED
            BY <1>4, <2>1, <2>3, <2>5, <2>6, <2>8, <2>9, <3>1, <3>2, Zenon DEF MOVE_SIZE, pawn
    <2>10. CASE parts[1] \in {3, 4}
        <3>1. Len(buf) = 9
            BY <2>3, <2>4, <2>10
        <3>2. parts[1] \notin {1, 2}
            BY <2>10
        <3>. QED
            BY <1>4, <2>1, <2>5, <2>6, <2>8, <3>1, <3>2, Zenon DEF KEEP_ALIVE_SIZE, GIVE_UP_SIZE
    <2>. QED
        BY <1>1, <1>4, <2>9, <2>10
<1>. QED
    BY <1>3, <1>4
\* A request is bytes, as many as the server counts and never more than an
\* error message has room for.
LEMMA RequestBytes ==
    ASSUME UINT32_MAX + 1 = IdxRange * (IdxRange * (IdxRange * IdxRange)),
           NEW parts \in Seq(Int), ~IsFatal(parts)
    PROVE  LET sent == serialize_message(parts) IN
           /\ sent \in Seq(Int)
           /\ Len(sent) = DecodedRequest(sent).len
           /\ Len(sent) <= MESSAGE_LEN
<1>. DEFINE sent == serialize_message(parts)
<1>1. parts[1] \in 0 .. 4 /\ parts[1] \in Int /\ Len(parts) = Parts(parts[1])
    BY DEF IsFatal
<1>2. \A k \in 1 .. Len(parts) : Field(parts, k) \in Seq(Int)
    BY FieldHolds
<1>3. 2 \in 1 .. Len(parts) /\ (parts[1] # 0 => 3 \in 1 .. Len(parts))
    BY <1>1 DEF Parts, JOIN_PARTS, MOVE_PARTS, KEEP_ALIVE_PARTS, GIVE_UP_PARTS
<1>4. parts[1] \in {1, 2} => PawnByte(parts) \in Seq(Int)
    <2>1. parts[1] \in {1, 2} => parts[4] \in Int
        BY <1>1 DEF Parts, MOVE_PARTS
    <2>2. UINT32_MAX + 1 \in Nat \ {0}
        BY GameLogicAssumption
    <2>. QED
        BY <2>1, <2>2, GameLogicAssumption DEF PawnByte, extract_u32_field
<1>5. <<0>> \in Seq(Int) /\ <<parts[1]>> \in Seq(Int)
    BY <1>1
<1>6. \A s, t \in Seq(Int) : s \o t \in Seq(Int)
    BY Joined
<1>7. sent \in Seq(Int)
    <2>1. CASE parts[1] = 0
        BY <1>2, <1>3, <1>5, <1>6, <2>1, Zenon DEF serialize_message
    <2>2. CASE parts[1] # 0
        <3>. DEFINE rest == IF parts[1] \in {1, 2} THEN PawnByte(parts) ELSE <<>>
        <3>1. rest \in Seq(Int)
            BY <1>4
        <3>2. sent = <<parts[1]>> \o Field(parts, 2) \o Field(parts, 3) \o rest
            BY <2>2 DEF serialize_message
        <3>. HIDE DEF rest
        <3>3. Field(parts, 2) \in Seq(Int) /\ Field(parts, 3) \in Seq(Int)
            BY <1>2, <1>3, <2>2
        <3>4. <<parts[1]>> \o Field(parts, 2) \in Seq(Int)
            BY <1>5, <1>6, <3>3, Zenon
        <3>5. <<parts[1]>> \o Field(parts, 2) \o Field(parts, 3) \in Seq(Int)
            BY <1>6, <3>3, <3>4, Zenon
        <3>. QED
            BY <1>6, <3>1, <3>2, <3>5, Zenon
    <2>. QED
        BY <2>1, <2>2
<1>8. Len(sent) = DecodedRequest(sent).len
    BY DEF DecodedRequest
<1>9. DecodedRequest(sent).len \in {5, 9, 10}
    <2>1. parts[1] = 0 \/ parts[1] \in {1, 2} \/ parts[1] = 3 \/ parts[1] = 4
        BY <1>1
    <2>. QED
        BY <2>1, TypedFieldsArrive DEF JOIN_SIZE, MOVE_SIZE, KEEP_ALIVE_SIZE, GIVE_UP_SIZE
<1>. HIDE DEF sent
<1>10. Len(sent) <= MESSAGE_LEN
    BY <1>8, <1>9 DEF MESSAGE_LEN
<1>. QED
    BY <1>7, <1>8, <1>10 DEF sent
-----------------------------------------------------------------------------
IsState(head, g, a, b, status, max) ==
    /\ \A k \in 1 .. 4 : head[0 + k] = g[k]
    /\ \A k \in 1 .. 4 : head[4 + k] = a[k]
    /\ \A k \in 1 .. 4 : head[8 + k] = b[k]
    /\ head[13] = status
    /\ head[14] = max

LEMMA StateLayout ==
    ASSUME NEW g \in Seq(Int), NEW a \in Seq(Int), NEW b \in Seq(Int),
           Len(g) = 4, Len(a) = 4, Len(b) = 4,
           NEW status \in Int, NEW max \in Int
    PROVE  IsState(g \o a \o b \o <<status, max>>, g, a, b, status, max)
<1>. DEFINE last == <<status, max>>
            one == g \o a
            two == one \o b
            head == two \o last
<1>1. last \in Seq(Int) /\ Len(last) = 2 /\ last[1] = status /\ last[2] = max
    OBVIOUS
<1>. HIDE DEF last
<1>2. /\ one \in Seq(Int) /\ Len(one) = Len(g) + Len(a)
      /\ \A k \in 1 .. Len(g) : one[k] = g[k]
      /\ \A k \in 1 .. Len(a) : one[Len(g) + k] = a[k]
    BY Joined, Zenon
<1>. HIDE DEF one
<1>3. /\ two \in Seq(Int) /\ Len(two) = Len(one) + Len(b)
      /\ \A k \in 1 .. Len(one) : two[k] = one[k]
      /\ \A k \in 1 .. Len(b) : two[Len(one) + k] = b[k]
    BY <1>2, Joined, Zenon
<1>. HIDE DEF two
<1>4. /\ head \in Seq(Int) /\ Len(head) = Len(two) + Len(last)
      /\ \A k \in 1 .. Len(two) : head[k] = two[k]
      /\ \A k \in 1 .. Len(last) : head[Len(two) + k] = last[k]
    BY <1>1, <1>3, Joined, Zenon
<1>. HIDE DEF head
<1>5. IsState(head, g, a, b, status, max)
    <2>1. Len(one) = 8 /\ Len(two) = 12
        BY <1>2, <1>3
    <2>2. /\ \A k \in 1 .. 4 : one[k] = g[k]
          /\ \A k \in 1 .. 4 : one[4 + k] = a[k]
        BY <1>2
    <2>3. /\ \A k \in 1 .. 8 : two[k] = one[k]
          /\ \A k \in 1 .. 4 : two[8 + k] = b[k]
        BY <1>3, <2>1
    <2>4. /\ \A k \in 1 .. 12 : head[k] = two[k]
          /\ head[13] = status /\ head[14] = max
        <3>1. \A k \in 1 .. 12 : head[k] = two[k]
            BY <1>4, <2>1
        <3>2. head[12 + 1] = last[1] /\ head[12 + 2] = last[2]
            BY <1>1, <1>4, <2>1
        <3>. QED
            BY <1>1, <3>1, <3>2
    <2>5. \A k \in 1 .. 4 : head[0 + k] = g[k]
        BY <2>2, <2>3, <2>4
    <2>6. ASSUME NEW k \in 1 .. 4 PROVE head[4 + k] = a[k]
        <3>1. 4 + k \in 1 .. 8 /\ 4 + k \in 1 .. 12
            OBVIOUS
        <3>. QED
            BY <2>2, <2>3, <2>4, <3>1, Zenon
    <2>7. \A k \in 1 .. 4 : head[8 + k] = b[k]
        BY <2>3, <2>4
    <2>. QED
        BY <2>4, <2>5, <2>6, <2>7 DEF IsState
<1>. QED
    BY <1>5, Zenon DEF head, two, one, last

LEMMA SameWord ==
    ASSUME NEW head, NEW off \in {0, 4, 8}, NEW n \in Words,
           \A k \in 1 .. 4 : head[off + k] = write_u32(n)[k]
    PROVE  read_u32(head, off) = n
<1>1. off \in {0, 1, 4, 5, 8}
    OBVIOUS
<1>2. read_u32(head, off) = read_u32(write_u32(n), 0)
    BY <1>1, SameBytes, Zenon
<1>. QED
    BY <1>2, ReadsWhatWasWritten

\* What is to be printed of a game.
Picture(g, game) ==
    [kind |-> "GAME_STATE", game_id |-> g, player_a_id |-> game.player_a_id,
     player_b_id |-> game.player_b_id, status |-> game.status, pawn_row |-> game.pawn_row]

\* A client prints of a game what the server has sent of it, board and all -
\* and never takes it for an error message, not even the state of a game that
\* has lost its board, which is as long as one.
THEOREM SentStatesArePrinted ==
    ASSUME ERROR_STATUS \notin Statuses,
           NEW reply, reply.torn => reply.pawn_row = {},
           reply.game_id \in Words, reply.player_a_id \in Words, reply.player_b_id \in Words,
           reply.status \in Statuses, reply.pawn_row \subseteq Pawns
    PROVE  Displayed(send_game_state(reply)) = Picture(reply.game_id, reply)
<1>. DEFINE g == write_u32(reply.game_id)
            a == write_u32(reply.player_a_id)
            b == write_u32(reply.player_b_id)
            answer == send_game_state(reply)
            head == g \o a \o b \o <<reply.status, MaxPawn>>
<1>1. answer.head = head /\ UNION answer.boards = reply.pawn_row
    BY DEF send_game_state
<1>2. IsState(head, g, a, b, reply.status, MaxPawn)
    <2>1. /\ g \in Seq(Int) /\ Len(g) = 4 /\ a \in Seq(Int) /\ Len(a) = 4
          /\ b \in Seq(Int) /\ Len(b) = 4
        BY ReadsWhatWasWritten
    <2>2. reply.status \in Int /\ MaxPawn \in Int
        BY GameLogicAssumption DEF Statuses, WAITING_FOR_OPPONENT, WIN_B
    <2>. HIDE DEF g, a, b
    <2>. QED
        BY <2>1, <2>2, StateLayout, Zenon
<1>. HIDE DEF head
<1>3. /\ head[13] = reply.status /\ head[14] = MaxPawn
      /\ read_u32(head, 0) = reply.game_id
      /\ read_u32(head, 4) = reply.player_a_id
      /\ read_u32(head, 8) = reply.player_b_id
    <2>1. head[13] = reply.status /\ head[14] = MaxPawn
        BY <1>2, Zenon DEF IsState
    <2>2. /\ \A k \in 1 .. 4 : head[0 + k] = write_u32(reply.game_id)[k]
          /\ \A k \in 1 .. 4 : head[4 + k] = write_u32(reply.player_a_id)[k]
          /\ \A k \in 1 .. 4 : head[8 + k] = write_u32(reply.player_b_id)[k]
        BY <1>2, Zenon DEF IsState
    <2>3. 0 \in {0, 4, 8} /\ 4 \in {0, 4, 8} /\ 8 \in {0, 4, 8}
        OBVIOUS
    <2>4. read_u32(head, 0) = reply.game_id
        BY <2>2, <2>3, SameWord
    <2>5. read_u32(head, 4) = reply.player_a_id
        BY <2>2, <2>3, SameWord
    <2>6. read_u32(head, 8) = reply.player_b_id
        BY <2>2, <2>3, SameWord
    <2>. QED
        BY <2>1, <2>4, <2>5, <2>6
<1>. HIDE DEF answer
<1>4. ~IsWrongMessage(answer)
    BY <1>1, <1>3 DEF IsWrongMessage, MESSAGE_LEN
<1>5. Displayed(answer) =
          [kind |-> "GAME_STATE",
           game_id |-> read_u32(answer.head, 0),
           player_a_id |-> read_u32(answer.head, 4),
           player_b_id |-> read_u32(answer.head, 8),
           status |-> answer.head[13],
           pawn_row |-> (UNION answer.boards) \cap (0 .. answer.head[14])]
    BY <1>4 DEF Displayed, OFF_STATE_GAME_ID, OFF_STATE_PLAYER_A, OFF_STATE_PLAYER_B,
        OFF_STATE_STATUS, OFF_STATE_MAX_PAWN
<1>6. reply.pawn_row \cap (0 .. MaxPawn) = reply.pawn_row
    BY DEF Pawns
<1>. QED
    BY <1>1, <1>3, <1>5, <1>6 DEF answer, Picture

LEMMA TwelveBytes ==
    ASSUME NEW s \in [1 .. 12 -> Int]
    PROVE  s \in Seq(Int) /\ Len(s) = 12
<1>1. 12 \in Nat /\ Seq(Int) = UNION {[1 .. n -> Int] : n \in Nat}
    BY SeqDef
<1>2. s \in Seq(Int)
    BY <1>1, Zenon
<1>3. Len(s) \in Nat /\ 1 .. Len(s) = 1 .. 12
    BY <1>2, LenProperties
<1>4. \A n \in Nat : 1 .. n = 1 .. 12 => n = 12
    <2>. SUFFICES ASSUME NEW n \in Nat, 1 .. n = 1 .. 12 PROVE n = 12
        OBVIOUS
    <2>1. /\ 12 \in 1 .. n <=> 12 \in 1 .. 12
          /\ 13 \in 1 .. n <=> 13 \in 1 .. 12
        BY Zenon
    <2>. QED
        BY <2>1
<1>. QED
    BY <1>2, <1>3, <1>4, Zenon

\* A complaint is printed as one, with the bytes of the request it is about.
THEOREM ComplaintsArePrinted ==
    ASSUME NEW buf \in Seq(Int), Len(buf) <= MESSAGE_LEN, NEW index \in Int
    PROVE  LET shown == Displayed(handle_wrong_message(buf, index)) IN
           /\ shown.kind = "WRONG_MSG"
           /\ shown.error_index = index
           /\ \A k \in 1 .. Len(buf) : shown.echoed[k] = buf[k]
<1>. DEFINE echo == [k \in 1 .. MESSAGE_LEN |-> IF k <= Len(buf) THEN buf[k] ELSE 0]
            last == <<ERROR_STATUS, index>>
            head == echo \o last
            answer == handle_wrong_message(buf, index)
<1>1. echo \in Seq(Int) /\ Len(echo) = 12 /\ \A k \in 1 .. Len(buf) : k \in 1 .. 12 /\ echo[k] = buf[k]
    <2>1. \A k \in 1 .. 12 : k <= Len(buf) => buf[k] \in Int
        OBVIOUS
    <2>2. echo \in [1 .. 12 -> Int]
        BY <2>1 DEF MESSAGE_LEN
    <2>3. \A k \in 1 .. Len(buf) : k \in 1 .. 12 /\ echo[k] = buf[k]
        BY DEF MESSAGE_LEN
    <2>. HIDE DEF echo
    <2>4. echo \in Seq(Int) /\ Len(echo) = 12
        BY <2>2, TwelveBytes, Zenon
    <2>. QED
        BY <2>3, <2>4
<1>2. last \in Seq(Int) /\ Len(last) = 2 /\ last[1] = ERROR_STATUS /\ last[2] = index
    BY GameLogicAssumption DEF ERROR_STATUS
<1>3. answer.head = head /\ answer.boards = {}
    BY DEF handle_wrong_message
<1>. HIDE DEF echo, last, answer
<1>4. /\ head \in Seq(Int) /\ Len(head) = Len(echo) + Len(last)
      /\ \A k \in 1 .. Len(echo) : head[k] = echo[k]
      /\ \A k \in 1 .. Len(last) : head[Len(echo) + k] = last[k]
    BY <1>1, <1>2, Joined, Zenon
<1>. HIDE DEF head
<1>5. Len(head) = 14 /\ head[13] = ERROR_STATUS /\ head[14] = index
    <2>1. head[12 + 1] = last[1] /\ head[12 + 2] = last[2]
        BY <1>1, <1>2, <1>4
    <2>. QED
        BY <1>1, <1>2, <1>4, <2>1
<1>6. Displayed(answer) =
          [kind |-> "WRONG_MSG", echoed |-> SubSeq(head, 1, 12), error_index |-> head[14]]
    <2>1. answer.head[13] = ERROR_STATUS
        BY <1>3, <1>5
    <2>2. IsWrongMessage(answer)
        BY <1>3, <2>1 DEF IsWrongMessage, MESSAGE_LEN
    <2>. QED
        BY <1>3, <2>2 DEF Displayed, MESSAGE_LEN
<1>7. \A k \in 1 .. 12 : SubSeq(head, 1, 12)[k] = echo[k]
    <2>1. \A k \in 1 .. 12 : head[k] \in Int /\ head[k] = echo[k]
        <3>1. \A k \in 1 .. 12 : head[k] = echo[k]
            BY <1>1, <1>4
        <3>2. \A k \in 1 .. 14 : head[k] \in Int
            BY <1>4, <1>5, ElementOfSeq
        <3>3. \A k \in 1 .. 12 : k \in 1 .. 14
            OBVIOUS
        <3>. QED
            BY <3>1, <3>2, <3>3, Zenon
    <2>2. \A k \in 1 .. 12 - 1 + 1 : SubSeq(head, 1, 12)[k] = head[1 + k - 1]
        BY <2>1, SubSeqProperties
    <2>. TAKE k \in 1 .. 12
    <2>3. k \in 1 .. 12 - 1 + 1 /\ 1 + k - 1 = k
        OBVIOUS
    <2>. QED
        BY <2>1, <2>2, <2>3, Zenon
<1>8. /\ Displayed(answer).kind = "WRONG_MSG"
      /\ Displayed(answer).error_index = index
      /\ \A k \in 1 .. Len(buf) : Displayed(answer).echoed[k] = buf[k]
    <2>1. /\ Displayed(answer).kind = "WRONG_MSG"
          /\ Displayed(answer).error_index = index
          /\ Displayed(answer).echoed = SubSeq(head, 1, 12)
        BY <1>5, <1>6
    <2>2. \A k \in 1 .. Len(buf) : SubSeq(head, 1, 12)[k] = buf[k]
        BY <1>1, <1>7, Zenon
    <2>. QED
        BY <2>1, <2>2, Zenon
<1>. QED
    BY <1>8, Zenon DEF answer
==============================================================================
