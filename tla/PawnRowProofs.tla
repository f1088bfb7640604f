---------------------------- MODULE PawnRowProofs ----------------------------
(***************************************************************************)
(* The packed board is the board, for rows of every length and bytes of    *)
(* every width.                                                            *)
(***************************************************************************)
EXTENDS PawnRow, TLAPS

\* No two pawns share a bit.
LEMMA OneBitEach ==
    ASSUME NEW i \in Nat, NEW j \in Nat, byte_idx(i) = byte_idx(j), bit_idx(i) = bit_idx(j)
    PROVE  i = j
<1>1. /\ i = BITS_PER_BYTE * (i \div BITS_PER_BYTE) + (i % BITS_PER_BYTE)
      /\ j = BITS_PER_BYTE * (j \div BITS_PER_BYTE) + (j % BITS_PER_BYTE)
  BY PawnRowAssumption
<1>2. i % BITS_PER_BYTE = j % BITS_PER_BYTE
  BY PawnRowAssumption DEF bit_idx, BIT_INDEX_OFFSET
<1>3. QED
  BY <1>1, <1>2 DEF byte_idx

\* A pawn of a row lies in one of its bytes.
LEMMA InOneOfTheBytes ==
    ASSUME NEW n \in Nat, NEW i \in 0 .. n
    PROVE  /\ byte_idx(i) \in 0 .. n \div BITS_PER_BYTE
           /\ bit_idx(i) \in Bits
<1>1. byte_idx(i) \in Nat /\ byte_idx(i) <= n \div BITS_PER_BYTE
  BY PawnRowAssumption DEF byte_idx
<1>2. i % BITS_PER_BYTE \in 0 .. BITS_PER_BYTE - 1
  BY PawnRowAssumption
<1>3. QED
  BY <1>1, <1>2, PawnRowAssumption DEF bit_idx, Bits, BIT_INDEX_OFFSET

\* The place of a pawn's bit tells the pawn.
LEMMA PlaceOfABit ==
    ASSUME NEW i \in Nat
    PROVE  byte_idx(i) * BITS_PER_BYTE + BIT_INDEX_OFFSET - bit_idx(i) = i
  BY PawnRowAssumption DEF byte_idx, bit_idx, BIT_INDEX_OFFSET
-----------------------------------------------------------------------------
\* What the vector of bytes always is: just long enough for the row.
BoardTypeOK ==
    /\ max_pawn \in 0 .. MAX_PAWNS - 1
    /\ pawn_row \in [0 .. max_pawn \div BITS_PER_BYTE -> SUBSET Bits]

\* The pawns shown are those whose bits are set.
LEMMA ShownBits == Shown = {i \in 0 .. max_pawn : bit_idx(i) \in pawn_row[byte_idx(i)]}
  BY DEF Shown, serialize_pawn_row, bit_idx, byte_idx

\* A row of length pawns puts its '1's into the bytes, and nothing else.
LEMMA FreshBoard ==
    ASSUME NEW length, NEW ones,
           is_valid_pawn_row(length, ones), initialize_pawn_row(length, ones)
    PROVE  /\ max_pawn = length - 1
           /\ BoardTypeOK
           /\ Shown = ones
           /\ UnusedBitsAreZero
<1>1. /\ length \in 1 .. MAX_PAWNS /\ length \in Nat
      /\ ones \subseteq 0 .. length - 1
      /\ length - 1 \in 0 .. MAX_PAWNS - 1 /\ length - 1 \in Nat
  BY PawnRowAssumption DEF is_valid_pawn_row
<1>2. max_pawn = length - 1
  BY <1>1, PawnRowAssumption DEF initialize_pawn_row
<1>3. pawn_row = [b \in 0 .. max_pawn \div BITS_PER_BYTE |->
                    {k \in Bits : \E i \in ones : byte_idx(i) = b /\ bit_idx(i) = k}]
  BY <1>2 DEF initialize_pawn_row, initial_bytes
<1>4. BoardTypeOK
  BY <1>1, <1>2, <1>3 DEF BoardTypeOK
<1>5. ASSUME NEW i \in 0 .. max_pawn
      PROVE  bit_idx(i) \in pawn_row[byte_idx(i)] <=> i \in ones
  <2>1. byte_idx(i) \in 0 .. max_pawn \div BITS_PER_BYTE /\ bit_idx(i) \in Bits
    BY <1>1, <1>2, InOneOfTheBytes
  <2>2. bit_idx(i) \in pawn_row[byte_idx(i)]
           <=> \E j \in ones : byte_idx(j) = byte_idx(i) /\ bit_idx(j) = bit_idx(i)
    BY <1>3, <2>1
  <2>3. i \in Nat /\ \A j \in ones : j \in Nat
    BY <1>1, <1>2
  <2>4. QED
    BY <2>2, <2>3, OneBitEach
<1>6. Shown = ones
  BY <1>1, <1>2, <1>5, ShownBits
<1>7. UnusedBitsAreZero
  <2>1. SUFFICES ASSUME NEW b \in DOMAIN pawn_row, NEW k \in pawn_row[b]
                 PROVE  b * BITS_PER_BYTE + BIT_INDEX_OFFSET - k \in 0 .. max_pawn
    BY DEF UnusedBitsAreZero
  <2>2. PICK i \in ones : byte_idx(i) = b /\ bit_idx(i) = k
    BY <1>3
  <2>3. i \in Nat /\ i \in 0 .. max_pawn
    BY <1>1, <1>2
  <2>4. QED
    BY <2>2, <2>3, PlaceOfABit
<1>8. QED
  BY <1>2, <1>4, <1>6, <1>7

\* Knocking pawn i down clears the one bit that is shown as pawn i.
LEMMA KnockedDown ==
    ASSUME BoardTypeOK, NEW i \in 0 .. max_pawn, knock_pawn_down(i)
    PROVE  /\ BoardTypeOK'
           /\ Shown' = Shown \ {i}
           /\ UnusedBitsAreZero => UnusedBitsAreZero'
<1>1. max_pawn \in Nat /\ max_pawn' = max_pawn
  BY PawnRowAssumption DEF BoardTypeOK, knock_pawn_down
<1>2. byte_idx(i) \in 0 .. max_pawn \div BITS_PER_BYTE /\ bit_idx(i) \in Bits
  BY <1>1, InOneOfTheBytes
<1>3. /\ DOMAIN pawn_row = 0 .. max_pawn \div BITS_PER_BYTE
      /\ DOMAIN pawn_row' = DOMAIN pawn_row
      /\ \A b \in DOMAIN pawn_row :
            pawn_row'[b] = IF b = byte_idx(i) THEN pawn_row[b] \ {bit_idx(i)} ELSE pawn_row[b]
  BY <1>2 DEF BoardTypeOK, knock_pawn_down
<1>4. BoardTypeOK'
  BY <1>1, <1>2 DEF BoardTypeOK, knock_pawn_down
<1>5. ASSUME NEW j \in 0 .. max_pawn
      PROVE  bit_idx(j) \in pawn_row'[byte_idx(j)]
                <=> j # i /\ bit_idx(j) \in pawn_row[byte_idx(j)]
  <2>1. byte_idx(j) \in DOMAIN pawn_row
    BY <1>1, <1>3, InOneOfTheBytes
  <2>2. byte_idx(j) = byte_idx(i) /\ bit_idx(j) = bit_idx(i) => j = i
    BY <1>1, OneBitEach
  <2>3. QED
    BY <1>3, <2>1, <2>2
<1>6. Shown' = {j \in 0 .. max_pawn' : bit_idx(j) \in pawn_row'[byte_idx(j)]}
  BY DEF Shown, serialize_pawn_row, bit_idx, byte_idx
<1>7. Shown' = Shown \ {i}
  BY <1>1, <1>5, <1>6, ShownBits
<1>8. UnusedBitsAreZero => UnusedBitsAreZero'
  BY <1>1, <1>3 DEF UnusedBitsAreZero
<1>9. QED
  BY <1>4, <1>7, <1>8
-----------------------------------------------------------------------------
BoardInv == BoardTypeOK /\ UnusedBitsAreZero

LEMMA BoardStep ==
    ASSUME BoardInv, [BoardNext]_boardVars
    PROVE  /\ BoardInv'
           /\ [Rows!Fall]_<<Shown, max_pawn>>
<1>1. CASE BoardNext
  <2>1. PICK i \in 0 .. IdxRange - 1 : Knock(i)
    BY <1>1 DEF BoardNext
  <2>2. i \in 0 .. max_pawn /\ i \in Shown /\ knock_pawn_down(i)
    BY <2>1, PawnRowAssumption, ShownBits
       DEF Knock, is_legal_move, is_pawn_standing, BoardInv, BoardTypeOK
  <2>3. BoardInv' /\ Shown' = Shown \ {i} /\ max_pawn' = max_pawn
    BY <2>2, KnockedDown DEF BoardInv, knock_pawn_down
  <2>4. QED
    BY <2>2, <2>3 DEF Rows!Fall
<1>2. CASE UNCHANGED boardVars
  BY <1>2 DEF boardVars, BoardInv, BoardTypeOK, UnusedBitsAreZero, Shown
<1>3. QED
  BY <1>1, <1>2

LEMMA BoardStart == BoardInit => BoardInv /\ Rows!SetInit
<1>1. SUFFICES ASSUME NEW length, NEW ones,
                      is_valid_pawn_row(length, ones), initialize_pawn_row(length, ones)
               PROVE  BoardInv /\ Rows!SetInit
  BY DEF BoardInit
<1>2. max_pawn = length - 1 /\ Shown = ones /\ BoardInv
  BY <1>1, FreshBoard DEF BoardInv
<1>3. QED
  BY <1>1, <1>2 DEF BoardInv, BoardTypeOK, Rows!SetInit, is_valid_pawn_row

\* The board a client prints is a row of pawns that fall one at a time, however
\* they are packed into bytes.
THEOREM PackedBoardIsTheBoard == BoardSpec => ClientShowsTheBoard
<1>1. BoardInit => BoardInv /\ Rows!SetInit
  BY BoardStart
<1>2. BoardInv /\ [BoardNext]_boardVars => BoardInv' /\ [Rows!Fall]_<<Shown, max_pawn>>
  BY BoardStep
<1>3. QED
  BY <1>1, <1>2, PTL DEF BoardSpec, ClientShowsTheBoard, Rows!SetSpec

\* A pawn byte is a legal MOVE_1 exactly when the board printed shows its pawn.
THEOREM LegalIsAlwaysShown == BoardSpec => []LegalIsShown
<1>1. BoardInit => BoardInv
  BY BoardStart
<1>2. BoardInv /\ [BoardNext]_boardVars => BoardInv'
  BY BoardStep
<1>3. ASSUME BoardInv, NEW i \in 0 .. IdxRange - 1
      PROVE  is_legal_move(i) <=> i \in Shown
  <2>1. max_pawn \in Nat /\ i \in Nat
    BY <1>3, PawnRowAssumption DEF BoardInv, BoardTypeOK
  <2>2. QED
    BY <2>1, ShownBits DEF is_legal_move, is_pawn_standing
<1>4. BoardInv => LegalIsShown
  BY <1>3 DEF LegalIsShown
<1>5. QED
  BY <1>1, <1>2, <1>4, PTL DEF BoardSpec

\* No bit beyond the end of the row is ever set.
THEOREM UnusedBitsStayZero == BoardSpec => []UnusedBitsAreZero
<1>1. BoardInit => BoardInv
  BY BoardStart
<1>2. BoardInv /\ [BoardNext]_boardVars => BoardInv'
  BY BoardStep
<1>3. BoardInv => UnusedBitsAreZero
  BY DEF BoardInv
<1>4. QED
  BY <1>1, <1>2, <1>3, PTL DEF BoardSpec
==============================================================================
