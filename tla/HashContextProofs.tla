------------------------- MODULE HashContextProofs -------------------------
(***************************************************************************)
(* What the three hash functions process is the padded message, with its   *)
(* length, for every size of a block, of its length and of a byte, every   *)
(* message and every state that is resumed; and a MAC is whole or NULL.    *)
(***************************************************************************)
EXTENDS Hashes, WellFoundedInduction, TLAPS

(* The bytes of blocks, and the block a step of the loop is about to add.  *)
Value == {Data(place) : place \in Nat} \union Int
Block == [Offsets -> Value]

(* The padded block, before a length is written to it. *)
RestBlock == [k \in Offsets |-> IF k < restlen THEN MsgByte(BlockSize * nblock + k)
                                ELSE IF k = restlen THEN First ELSE 0]

Spills == restlen >= BlockSize - LengthSize

(* Every block so far is one of the padded message. *)
Processed ==
    \A j \in 1 .. Len(state), k \in Offsets :
        state[j][k] = PaddedByte(Total, (j - 1) * BlockSize + k)

(* Where the function is, how many blocks there are and what is left. *)
Progress ==
    /\ pc = "check" => Len(state) = resumed /\ i = 0
    /\ pc = "blocks" => Len(state) = resumed + i
    /\ pc = "spill" => Spills /\ Len(state) = resumed + nblock /\ block = RestBlock
    /\ pc = "length" =>
        IF Spills THEN Len(state) = resumed + nblock + 1 /\ block = Zeroed
        ELSE Len(state) = resumed + nblock /\ block = RestBlock
    /\ pc = "idle" /\ ret = 0 => Len(state) * BlockSize = PaddedLength(Total)

(* ctx->len is the length of what was hashed before, then of everything. *)
LengthSoFar ==
    /\ pc \in {"check", "blocks"} => len = (resumed * BlockSize) % Wrap
    /\ pc \in {"spill", "length"} => len = (((resumed * BlockSize) % Wrap) + msglen) % Wrap

IInv ==
    /\ TypeOK
    /\ state \in Seq(Block)
    /\ pc # "idle" => ret = -1
    /\ Progress
    /\ LengthSoFar
    /\ pc # "idle" \/ ret = 0 => Processed

(* Quotient and remainder, as the provers are told of them. *)
LEMMA Division ==
    ASSUME NEW n \in Nat \ {0}, NEW x \in Nat
    PROVE  /\ x \div n \in Nat
           /\ x % n \in 0 .. n - 1
           /\ x = n * (x \div n) + (x % n)
<1>1. /\ x = n * (x \div n) + (x % n)
      /\ x % n \in 0 .. n - 1
      /\ x \div n \in Int
  OBVIOUS
<1>2. x \div n >= 0
  <2> DEFINE q == x \div n
  <2>1. SUFFICES ASSUME q <= -1 PROVE FALSE
    BY <1>1
  <2>2. n * q <= -n
    BY <1>1, <2>1
  <2> QED
    BY <1>1, <2>2
<1> QED
  BY <1>1, <1>2

(* A remainder is what is left of any multiple. *)
LEMMA Remainder ==
    ASSUME NEW n \in Nat \ {0}, NEW q \in Nat, NEW r \in 0 .. n - 1
    PROVE  (n * q + r) % n = r
<1> DEFINE x == n * q + r
           p == x \div n
           d == q - p
<1>1. x \in Nat /\ n * q \in Nat
  OBVIOUS
<1>2. p \in Nat /\ x % n \in 0 .. n - 1 /\ x = n * p + (x % n)
  BY <1>1, Division
<1>3. d \in Int
  BY <1>2
<1>4. n * d = n * q - n * p
  BY <1>2
<1>5. n * d = (x % n) - r
  BY <1>1, <1>2, <1>4
<1>6. d < 1
  <2>1. SUFFICES ASSUME d >= 1 PROVE FALSE
    BY <1>3
  <2>2. n * d >= n
    BY <1>3, <2>1
  <2> QED
    BY <1>2, <1>5, <2>2
<1>7. d > -1
  <2>1. SUFFICES ASSUME d <= -1 PROVE FALSE
    BY <1>3
  <2>2. n * d <= -n
    BY <1>3, <2>1
  <2> QED
    BY <1>2, <1>5, <2>2
<1>8. d = 0
  BY <1>3, <1>6, <1>7
<1>9. n * d = 0
  BY <1>8
<1> QED
  BY <1>2, <1>5, <1>9

(* Numbers that differ by a multiple of n have the same remainder. *)
LEMMA SameRemainder ==
    ASSUME NEW n \in Nat \ {0}, NEW x \in Nat, NEW q \in Nat
    PROVE  (n * q + x) % n = x % n
<1> DEFINE p == x \div n
           r == x % n
<1>1. p \in Nat /\ r \in 0 .. n - 1 /\ x = n * p + r
  BY Division
<1> HIDE DEF p, r
<1>2. q + p \in Nat /\ n * (q + p) = n * q + n * p
  BY <1>1
<1>3. n * q + x = n * (q + p) + r
  <2>1. n * q \in Nat /\ n * p \in Nat
    BY <1>1
  <2> QED
    BY <1>1, <1>2, <2>1
<1>4. (n * (q + p) + r) % n = r
  BY <1>1, <1>2, Remainder
<1> QED
  BY <1>3, <1>4 DEF r

(* A length may be taken modulo 2^64 before it is made one in bits. *)
LEMMA TimesRemainder ==
    ASSUME NEW n \in Nat \ {0}, NEW x \in Nat, NEW c \in Nat
    PROVE  (c * (x % n)) % n = (c * x) % n
<1> DEFINE p == x \div n
           r == x % n
<1>1. p \in Nat /\ r \in 0 .. n - 1 /\ x = n * p + r
  BY Division
<1>2. c * p \in Nat /\ c * r \in Nat
  BY <1>1
<1>3. c * x = n * (c * p) + c * r
  BY <1>1
<1>4. (n * (c * p) + c * r) % n = (c * r) % n
  BY <1>2, SameRemainder
<1> QED
  BY <1>3, <1>4

(* The same of a sum of lengths. *)
LEMMA PlusRemainder ==
    ASSUME NEW n \in Nat \ {0}, NEW x \in Nat, NEW y \in Nat
    PROVE  ((x % n) + y) % n = (x + y) % n
<1> DEFINE p == x \div n
           r == x % n
<1>1. p \in Nat /\ r \in 0 .. n - 1 /\ x = n * p + r
  BY Division
<1>2. r + y \in Nat /\ x + y = n * p + (r + y)
  BY <1>1
<1>3. (n * p + (r + y)) % n = (r + y) % n
  BY <1>1, <1>2, SameRemainder
<1> QED
  BY <1>2, <1>3

(* The message is its complete blocks and what is left. *)
LEMMA MessageLength ==
    ASSUME TypeOK
    PROVE  /\ nblock \in Nat
           /\ restlen \in Offsets
           /\ msglen = BlockSize * nblock + restlen
           /\ resumed * BlockSize \in Nat
           /\ Total \in Nat
           /\ Total = BlockSize * (resumed + nblock) + restlen
           /\ Total % BlockSize = restlen
<1>1. BlockSize \in Nat \ {0} /\ msglen \in Nat /\ resumed \in Nat
  BY HashAssumption DEF TypeOK
<1>2. /\ nblock \in Nat
      /\ restlen \in 0 .. BlockSize - 1
      /\ msglen = BlockSize * nblock + restlen
  BY <1>1, Division DEF nblock, restlen
<1>3. resumed * BlockSize = BlockSize * resumed /\ BlockSize * resumed \in Nat
  BY <1>1
<1>4. /\ resumed + nblock \in Nat
      /\ BlockSize * (resumed + nblock) = BlockSize * resumed + BlockSize * nblock
      /\ BlockSize * nblock \in Nat
  BY <1>1, <1>2
<1>5. Total = BlockSize * (resumed + nblock) + restlen
  BY <1>2, <1>3, <1>4 DEF Total
<1>6. (BlockSize * (resumed + nblock) + restlen) % BlockSize = restlen
  BY <1>1, <1>2, <1>4, Remainder
<1> QED
  BY <1>1, <1>2, <1>3, <1>4, <1>5, <1>6 DEF Total, Offsets

(* The padding fills the last block, or the last two. *)
LEMMA Padding ==
    ASSUME TypeOK
    PROVE  LET last == IF Spills THEN 2 ELSE 1
           IN  /\ PaddedLength(Total) = BlockSize * (resumed + nblock + last)
               /\ PaddedLength(Total) = BlockSize * (resumed + nblock) + BlockSize * last
<1> DEFINE full == BlockSize * (resumed + nblock)
<1>1. /\ BlockSize \in Nat /\ LengthSize \in Nat
      /\ resumed \in Nat /\ nblock \in Nat /\ restlen \in 0 .. BlockSize - 1
      /\ Total = full + restlen
      /\ Total % BlockSize = restlen
  BY MessageLength, HashAssumption DEF TypeOK, Offsets
<1>2. full \in Nat
  BY <1>1
<1>3. BlockSize * (resumed + nblock + 1) = full + BlockSize
  BY <1>1
<1>4. BlockSize * (resumed + nblock + 2) = full + 2 * BlockSize
  BY <1>1
<1> HIDE DEF full
<1>5. PaddingLength(Total) =
        IF Spills THEN BlockSize - restlen + BlockSize ELSE BlockSize - restlen
  <2>1. PaddingLength(Total) = IF BlockSize - restlen < 1 + LengthSize
                               THEN BlockSize - restlen + BlockSize ELSE BlockSize - restlen
    BY <1>1, Zenon DEF PaddingLength
  <2>2. BlockSize - restlen < 1 + LengthSize <=> Spills
    BY <1>1, HashAssumption DEF Spills
  <2> QED
    BY <2>1, <2>2
<1>6. PaddedLength(Total) = full + (IF Spills THEN 2 * BlockSize ELSE BlockSize)
  BY <1>1, <1>2, <1>5 DEF PaddedLength
<1> QED
  BY <1>1, <1>2, <1>3, <1>4, <1>6 DEF full

(* The length written is that of all that was hashed, in bits. *)
LEMMA Bits ==
    ASSUME TypeOK, len = (((resumed * BlockSize) % Wrap) + msglen) % Wrap
    PROVE  (ByteBits * len) % Wrap = (ByteBits * Total) % Wrap
<1>1. Wrap \in Nat \ {0} /\ ByteBits \in Nat /\ msglen \in Nat
  BY HashAssumption DEF Wrap, TypeOK
<1>2. resumed * BlockSize \in Nat /\ Total \in Nat
  BY MessageLength
<1>3. len = Total % Wrap
  BY <1>1, <1>2, PlusRemainder DEF Total
<1>4. (ByteBits * (Total % Wrap)) % Wrap = (ByteBits * Total) % Wrap
  BY <1>1, <1>2, TimesRemainder
<1> QED
  BY <1>3, <1>4, Zenon

(* Where byte k of the block after the first j blocks of the message is. *)
LEMMA Place ==
    ASSUME TypeOK, NEW j \in Nat, NEW k \in Offsets
    PROVE  /\ BlockSize * j + k \in Nat
           /\ resumed * BlockSize + (BlockSize * j + k) \in Nat
           /\ (resumed + j) * BlockSize + k = resumed * BlockSize + (BlockSize * j + k)
           /\ (resumed + j) * BlockSize + k = BlockSize * (resumed + j) + k
           /\ j < nblock => (resumed + j) * BlockSize + k < Total
<1>1. BlockSize \in Nat /\ resumed \in Nat /\ k \in Nat /\ k < BlockSize
  BY HashAssumption DEF TypeOK, Offsets
<1>2. /\ BlockSize * j \in Nat
      /\ BlockSize * resumed \in Nat
      /\ resumed * BlockSize = BlockSize * resumed
      /\ (resumed + j) * BlockSize = BlockSize * resumed + BlockSize * j
      /\ BlockSize * (resumed + j) = BlockSize * resumed + BlockSize * j
  BY <1>1
<1>3. ASSUME j < nblock
      PROVE  (resumed + j) * BlockSize + k < Total
  <2>1. /\ nblock \in Nat /\ restlen \in Nat
        /\ Total = BlockSize * (resumed + nblock) + restlen
    BY MessageLength, <1>1 DEF Offsets
  <2> DEFINE rest == nblock - j - 1
  <2>2. rest \in Nat
    BY <1>3, <2>1
  <2>3. BlockSize * (resumed + nblock) =
          BlockSize * resumed + BlockSize * j + BlockSize + BlockSize * rest
    BY <1>1, <2>1
  <2>4. BlockSize * rest \in Nat
    BY <1>1, <2>2
  <2> HIDE DEF rest
  <2> QED
    BY <1>1, <1>2, <2>1, <2>3, <2>4
<1> QED
  BY <1>1, <1>2, <1>3

(* The bytes of a length are numbers. *)
LEMMA LengthByteIsNumber ==
    ASSUME NEW bits \in Nat, NEW k \in 0 .. LengthSize - 1
    PROVE  LengthByte(bits, k) \in Int
<1> DEFINE place == IF algorithm = "md4" THEN k ELSE LengthSize - 1 - k
<1>1. place \in 0 .. LengthSize
  BY HashAssumption
<1> HIDE DEF place
<1>2. Byte ^ place \in Nat \ {0} /\ Byte \in Nat \ {0}
  BY <1>1, HashAssumption
<1>3. bits \div (Byte ^ place) \in Nat
  BY <1>2, Division
<1>4. (bits \div (Byte ^ place)) % Byte \in Int
  BY <1>2, <1>3, Division
<1> QED
  BY <1>4 DEF LengthByte, place

(* The padded block is what the definition has after the complete ones. *)
LEMMA RestIsPadded ==
    ASSUME TypeOK, NEW k \in Offsets, Spills \/ k < BlockSize - LengthSize
    PROVE  RestBlock[k] = PaddedByte(Total, (resumed + nblock) * BlockSize + k)
<1> DEFINE full  == BlockSize * (resumed + nblock)
           place == (resumed + nblock) * BlockSize + k
<1>1. /\ BlockSize \in Nat /\ LengthSize \in Nat /\ BlockSize > LengthSize
      /\ k \in 0 .. BlockSize - 1
      /\ resumed \in Nat /\ nblock \in Nat /\ restlen \in 0 .. BlockSize - 1
      /\ Total = full + restlen
  BY MessageLength, HashAssumption DEF TypeOK, Offsets
<1>2. full \in Nat
  BY <1>1
<1>3. /\ place = full + k
      /\ place = resumed * BlockSize + (BlockSize * nblock + k)
  BY <1>1, Place
<1>4. PaddedLength(Total) = full + BlockSize * (IF Spills THEN 2 ELSE 1)
  BY Padding
<1>5. PaddedLength(Total) = full + (IF Spills THEN 2 * BlockSize ELSE BlockSize)
  BY <1>1, <1>4
<1>6. place < PaddedLength(Total) - LengthSize
  <2> HIDE DEF full, place
  <2>1. CASE Spills
    BY <1>1, <1>2, <1>3, <1>5, <2>1
  <2>2. CASE ~ Spills
    BY <1>1, <1>2, <1>3, <1>5, <2>2
  <2> QED
    BY <2>1, <2>2
<1>7. /\ k < restlen => place < Total
      /\ k = restlen => ~(place < Total) /\ place = Total
      /\ k > restlen => ~(place < Total) /\ place # Total
  <2> HIDE DEF full, place
  <2> QED
    BY <1>1, <1>2, <1>3
<1>8. RestBlock[k] = IF k < restlen THEN Data(place)
                     ELSE IF k = restlen THEN First ELSE 0
  BY <1>3 DEF RestBlock, MsgByte
<1>9. k < restlen \/ k = restlen \/ k > restlen
  BY <1>1
<1>10. PaddedByte(Total, place) =
        IF place < Total THEN Data(place) ELSE IF place = Total THEN First ELSE 0
  BY <1>6, Zenon DEF PaddedByte
<1> HIDE DEF place
<1>11. RestBlock[k] = PaddedByte(Total, place)
  BY <1>1, <1>7, <1>8, <1>9, <1>10
<1> QED
  BY <1>11 DEF place

(* The number of blocks before the last one. *)
Before == IF Spills THEN resumed + nblock + 1 ELSE resumed + nblock

(* The last block is that of the definition: zeroes, or what was left of   *)
(* the message and its padding, then the length.                           *)
LEMMA LastIsPadded ==
    ASSUME TypeOK, NEW k \in Offsets
    PROVE  LET at   == BlockSize - LengthSize
               left == IF Spills THEN Zeroed ELSE RestBlock
           IN  (IF k < at THEN left[k] ELSE LengthByte((ByteBits * Total) % Wrap, k - at))
               = PaddedByte(Total, Before * BlockSize + k)
<1> DEFINE at    == BlockSize - LengthSize
           full  == BlockSize * (resumed + nblock)
           place == Before * BlockSize + k
           first == full + (IF Spills THEN BlockSize ELSE 0)
<1>1. /\ BlockSize \in Nat /\ LengthSize \in Nat /\ BlockSize > LengthSize /\ LengthSize > 0
      /\ k \in 0 .. BlockSize - 1
      /\ resumed \in Nat /\ nblock \in Nat /\ restlen \in 0 .. BlockSize - 1
      /\ Total = full + restlen
  BY MessageLength, HashAssumption DEF TypeOK, Offsets
<1>2. full \in Nat /\ first \in Nat
  BY <1>1
<1>3. place = first + k
  BY <1>1 DEF Before
<1>4. PaddedLength(Total) = first + BlockSize
  <2>1. PaddedLength(Total) = full + BlockSize * (IF Spills THEN 2 ELSE 1)
    BY Padding
  <2> QED
    BY <1>1, <2>1
<1>5. CASE k < at /\ ~ Spills
  <2>1. place = (resumed + nblock) * BlockSize + k
    BY <1>5 DEF Before
  <2>2. RestBlock[k] = PaddedByte(Total, (resumed + nblock) * BlockSize + k)
    BY <1>5, RestIsPadded
  <2> QED
    BY <1>5, <2>1, <2>2, Zenon
<1>6. CASE k < at /\ Spills
  <2>1. /\ ~(place < Total)
        /\ place # Total
        /\ place < PaddedLength(Total) - LengthSize
    <3> HIDE DEF full, place
    <3> QED
      BY <1>1, <1>2, <1>3, <1>4, <1>6
  <2>2. PaddedByte(Total, place) = 0
    BY <2>1, Zenon DEF PaddedByte
  <2>3. Zeroed[k] = 0
    BY DEF Zeroed
  <2> QED
    BY <1>6, <2>2, <2>3, Zenon
<1>7. CASE ~(k < at)
  <2>1. /\ ~(place < Total)
        /\ place # Total
        /\ ~(place < PaddedLength(Total) - LengthSize)
        /\ place - (PaddedLength(Total) - LengthSize) = k - at
    <3>1. ~ Spills => restlen < at
      BY <1>1 DEF Spills
    <3> HIDE DEF full, place
    <3> QED
      BY <1>1, <1>2, <1>3, <1>4, <1>7, <3>1
  <2>2. PaddedByte(Total, place) = LengthByte((ByteBits * Total) % Wrap, k - at)
    BY <2>1, Zenon DEF PaddedByte
  <2> QED
    BY <1>7, <2>2, Zenon
<1> QED
  BY <1>5, <1>6, <1>7

(* Processing a block that is the next one of the padded message. *)
LEMMA AddBlock ==
    ASSUME state \in Seq(Block), NEW next \in Block, state' = Append(state, next),
           Processed, UNCHANGED <<algorithm, msglen, resumed>>,
           \A k \in Offsets : next[k] = PaddedByte(Total, Len(state) * BlockSize + k)
    PROVE  /\ state' \in Seq(Block)
           /\ Len(state') = Len(state) + 1
           /\ Processed'
<1>1. /\ state' \in Seq(Block)
      /\ Len(state) \in Nat
      /\ Len(state') = Len(state) + 1
      /\ \A j \in 1 .. Len(state) : state'[j] = state[j]
      /\ state'[Len(state) + 1] = next
  OBVIOUS
<1>2. SUFFICES ASSUME NEW j \in 1 .. Len(state'), NEW k \in Offsets
               PROVE  state'[j][k] = PaddedByte(Total, (j - 1) * BlockSize + k)
  <2>1. (\A j \in 1 .. Len(state'), k \in Offsets :
            state'[j][k] = PaddedByte(Total, (j - 1) * BlockSize + k)) => Processed'
    BY DEF Processed, PaddedByte, PaddedLength, PaddingLength, LengthByte, Total
  <2> QED
    BY <1>1, <1>2, <2>1
<1>3. CASE j \in 1 .. Len(state)
  BY <1>1, <1>3 DEF Processed
<1>4. CASE j = Len(state) + 1
  <2>1. j - 1 = Len(state)
    BY <1>1, <1>4
  <2> QED
    BY <1>1, <1>4, <2>1, Zenon
<1> QED
  BY <1>1, <1>3, <1>4

(* What a step that stays in the same call leaves as it is. *)
LEMMA SameCall ==
    ASSUME UNCHANGED <<algorithm, msglen, resumed>>
    PROVE  /\ nblock' = nblock /\ restlen' = restlen /\ RestBlock' = RestBlock
           /\ Spills' = Spills
           /\ PaddedLength(Total)' = PaddedLength(Total)
           /\ UNCHANGED state => Processed' = Processed
BY DEF nblock, restlen, RestBlock, MsgByte, Spills, PaddedLength, PaddingLength, Total, Processed,
       PaddedByte, LengthByte

(* The bytes of a message are the values of bytes. *)
LEMMA DataIsValue ==
    ASSUME NEW place \in Nat
    PROVE  Data(place) \in Value
BY DEF Value

(* A call begins with the blocks of what was hashed before. *)
LEMMA CallIInv == IInv /\ Call => IInv'
<1> SUFFICES ASSUME IInv, Call PROVE IInv'
  OBVIOUS
<1>1. PICK blocks \in Resumed :
        /\ resumed' = blocks
        /\ state' = [j \in 1 .. blocks |-> DataBlock((j - 1) * BlockSize)]
        /\ len' = (blocks * BlockSize) % Wrap
  BY DEF Call
<1>2. BlockSize \in Nat /\ blocks \in Nat /\ blocks * BlockSize \in Nat /\ Wrap \in Nat \ {0}
  <2>1. BlockSize \in Nat /\ blocks \in Nat /\ Wrap \in Nat \ {0}
    BY HashAssumption DEF Wrap
  <2> QED
    BY <2>1
<1>3. msglen' \in Nat
  BY HashAssumption DEF Call
<1>4. len' \in 0 .. Wrap - 1
  BY <1>1, <1>2, Division
<1>5. ASSUME NEW j \in 1 .. blocks, NEW k \in Offsets
      PROVE  /\ (j - 1) * BlockSize + k \in Nat
             /\ (j - 1) * BlockSize + k < blocks * BlockSize
  <2> DEFINE rest == blocks - j
  <2>1. /\ j - 1 \in Nat /\ rest \in Nat /\ k \in Nat /\ k < BlockSize
        /\ blocks = (j - 1) + 1 + rest
    BY <1>2 DEF Offsets
  <2> HIDE DEF rest
  <2>2. /\ (j - 1) * BlockSize \in Nat /\ rest * BlockSize \in Nat
        /\ blocks * BlockSize = (j - 1) * BlockSize + BlockSize + rest * BlockSize
    <3> DEFINE m == j - 1
    <3> SUFFICES /\ m * BlockSize \in Nat /\ rest * BlockSize \in Nat
                 /\ blocks * BlockSize = m * BlockSize + BlockSize + rest * BlockSize
      OBVIOUS
    <3>1. m \in Nat /\ blocks = m + 1 + rest
      BY <2>1
    <3> HIDE DEF m
    <3> QED
      BY <1>2, <2>1, <3>1
  <2> QED
    BY <1>2, <2>1, <2>2
<1>6. state' \in Seq(Block) /\ Len(state') = blocks
  <2>1. ASSUME NEW j \in 1 .. blocks
        PROVE  DataBlock((j - 1) * BlockSize) \in Block
    BY <1>5, DataIsValue DEF DataBlock, Block
  <2> QED
    BY <1>1, <1>2, <2>1
<1>7. Processed'
  <2>1. Total' = blocks * BlockSize + msglen'
    BY <1>1 DEF Total
  <2>2. ASSUME NEW j \in 1 .. blocks, NEW k \in Offsets
        PROVE  /\ state'[j][k] = Data((j - 1) * BlockSize + k)
               /\ (j - 1) * BlockSize + k < Total'
    <3>1. state'[j][k] = Data((j - 1) * BlockSize + k)
      BY <1>1 DEF DataBlock
    <3> QED
      BY <1>2, <1>3, <1>5, <2>1, <3>1
  <2>3. ASSUME NEW j \in 1 .. blocks, NEW k \in Offsets
        PROVE  state'[j][k] = PaddedByte(Total, (j - 1) * BlockSize + k)'
    BY <2>2, Zenon DEF PaddedByte
  <2> QED
    BY <1>6, <2>3, Zenon DEF Processed
<1>8. TypeOK'
  <2>1. DOMAIN Zeroed = Offsets
    BY DEF Zeroed
  <2> QED
    BY <1>1, <1>2, <1>3, <1>4, <1>6, <2>1 DEF TypeOK, Call
<1> QED
  BY <1>1, <1>2, <1>6, <1>7, <1>8 DEF IInv, Progress, LengthSoFar, Call

(* A complete block is the next one of the message. *)
LEMMA CompleteBlockIInv == IInv /\ CompleteBlock => IInv'
<1> SUFFICES ASSUME IInv, CompleteBlock PROVE IInv'
  OBVIOUS
<1> DEFINE next == [k \in Offsets |-> MsgByte(BlockSize * i + k)]
<1>1. /\ TypeOK /\ Processed /\ pc = "blocks" /\ ret = -1
      /\ state \in Seq(Block) /\ Len(state) = resumed + i
      /\ i \in Nat /\ i < nblock /\ nblock \in Nat
      /\ state' = Append(state, next)
      /\ UNCHANGED <<pc, algorithm, len, msglen, block, ret, resumed>>
  BY MessageLength DEF IInv, TypeOK, Progress, CompleteBlock
<1>2. ASSUME NEW k \in Offsets
      PROVE  /\ next[k] \in Value
             /\ next[k] = PaddedByte(Total, Len(state) * BlockSize + k)
  <2>1. /\ resumed * BlockSize + (BlockSize * i + k) \in Nat
        /\ (resumed + i) * BlockSize + k = resumed * BlockSize + (BlockSize * i + k)
        /\ (resumed + i) * BlockSize + k < Total
    BY <1>1, Place
  <2>2. next[k] = Data((resumed + i) * BlockSize + k)
    BY <2>1 DEF MsgByte
  <2>3. PaddedByte(Total, (resumed + i) * BlockSize + k) = Data((resumed + i) * BlockSize + k)
    BY <2>1, Zenon DEF PaddedByte
  <2>4. next[k] \in Value
    BY <2>1, <2>2, DataIsValue
  <2> QED
    BY <1>1, <2>2, <2>3, <2>4, Zenon
<1>3. next \in Block
  BY <1>2 DEF Block
<1> HIDE DEF next
<1>4. state' \in Seq(Block) /\ Len(state') = Len(state) + 1 /\ Processed'
  BY <1>1, <1>2, <1>3, AddBlock
<1>5. nblock' = nblock
  BY <1>1 DEF nblock
<1>6. i' = i + 1
  BY DEF CompleteBlock
<1>7. TypeOK'
  BY <1>1, <1>4, <1>5, <1>6 DEF TypeOK
<1>8. Progress' /\ LengthSoFar'
  BY <1>1, <1>4, <1>6 DEF Progress, LengthSoFar, IInv, TypeOK
<1> QED
  BY <1>1, <1>4, <1>7, <1>8 DEF IInv

(* The padded block holds what is left, and nothing was processed. *)
LEMMA RestIInv == IInv /\ (Rest \/ RestFails) => IInv'
<1> SUFFICES ASSUME IInv, Rest \/ RestFails PROVE IInv'
  OBVIOUS
<1>1. /\ TypeOK /\ Processed /\ pc = "blocks" /\ ret = -1 /\ i = nblock
      /\ Len(state) = resumed + nblock
      /\ len = (resumed * BlockSize) % Wrap
      /\ len' = (len + msglen) % Wrap
      /\ UNCHANGED <<algorithm, state, msglen, i, ret, resumed>>
  BY DEF IInv, Progress, LengthSoFar, Rest, RestFails
<1>2. len' \in 0 .. Wrap - 1
  <2>1. Wrap \in Nat \ {0} /\ len + msglen \in Nat
    BY <1>1, HashAssumption DEF TypeOK, Wrap
  <2> QED
    BY <1>1, <2>1, Division
<1>3. Processed' /\ Spills' = Spills /\ RestBlock' = RestBlock /\ nblock' = nblock
  BY <1>1, SameCall
<1>4. CASE Rest
  <2>1. block' = RestBlock /\ pc' = IF Spills THEN "spill" ELSE "length"
    BY <1>4 DEF Rest, RestBlock, Spills
  <2>2. DOMAIN block' = Offsets
    BY <2>1 DEF RestBlock
  <2>3. TypeOK'
    BY <1>1, <1>2, <2>1, <2>2 DEF TypeOK
  <2>4. Progress' /\ LengthSoFar'
    BY <1>1, <1>3, <2>1 DEF Progress, LengthSoFar
  <2> QED
    BY <1>1, <1>3, <2>1, <2>3, <2>4 DEF IInv
<1>5. CASE RestFails
  <2>1. pc' = "idle" /\ block' = block
    BY <1>5 DEF RestFails
  <2> QED
    BY <1>1, <1>2, <1>3, <2>1 DEF IInv, TypeOK, Progress, LengthSoFar
<1> QED
  BY <1>4, <1>5

(* A padded block without room for the length is the next one of the       *)
(* definition.                                                             *)
LEMMA SpillIInv == IInv /\ Spill => IInv'
<1> SUFFICES ASSUME IInv, Spill PROVE IInv'
  OBVIOUS
<1>1. /\ TypeOK /\ Processed /\ ret = -1 /\ Spills
      /\ state \in Seq(Block) /\ Len(state) = resumed + nblock
      /\ block = RestBlock
      /\ state' = Append(state, block)
      /\ block' = Zeroed
      /\ pc = "spill" /\ pc' = "length"
      /\ UNCHANGED <<algorithm, len, msglen, i, ret, resumed>>
  BY DEF IInv, Progress, Spill
<1>2. ASSUME NEW k \in Offsets
      PROVE  block[k] = PaddedByte(Total, Len(state) * BlockSize + k)
  BY <1>1, RestIsPadded
<1>3. block \in Block
  <2>1. ASSUME NEW k \in Offsets
        PROVE  MsgByte(BlockSize * nblock + k) \in Value
    BY <1>1, MessageLength, Place, DataIsValue DEF MsgByte
  <2>2. First \in Value /\ 0 \in Value
    BY HashAssumption, Division DEF First, Value
  <2> QED
    BY <1>1, <2>1, <2>2 DEF RestBlock, Block
<1>4. state' \in Seq(Block) /\ Len(state') = Len(state) + 1 /\ Processed'
  BY <1>1, <1>2, <1>3, AddBlock
<1>5. Spills' = Spills /\ nblock' = nblock
  BY <1>1, SameCall
<1>6. TypeOK'
  BY <1>1, <1>4 DEF TypeOK, Zeroed
<1>7. Progress' /\ LengthSoFar'
  BY <1>1, <1>4, <1>5, MessageLength DEF Progress, LengthSoFar, IInv, TypeOK
<1> QED
  BY <1>1, <1>4, <1>6, <1>7 DEF IInv

(* With the length, the last block completes the padded message.           *)
LEMMA LengthIInv == IInv /\ Length => IInv'
<1> SUFFICES ASSUME IInv, Length PROVE IInv'
  OBVIOUS
<1> DEFINE at   == BlockSize - LengthSize
           bits == (ByteBits * len) % Wrap
           next == [k \in Offsets |-> IF k < at THEN block[k] ELSE LengthByte(bits, k - at)]
<1>1. /\ TypeOK /\ Processed
      /\ state \in Seq(Block) /\ Len(state) = Before
      /\ block = IF Spills THEN Zeroed ELSE RestBlock
      /\ len = (((resumed * BlockSize) % Wrap) + msglen) % Wrap
      /\ state' = Append(state, next)
      /\ pc' = "idle" /\ ret' = 0
      /\ UNCHANGED <<algorithm, len, msglen, i, block, resumed>>
  BY DEF IInv, Progress, LengthSoFar, Length, Before
<1>2. bits = (ByteBits * Total) % Wrap
  BY <1>1, Bits
<1>3. ASSUME NEW k \in Offsets
      PROVE  next[k] = PaddedByte(Total, Len(state) * BlockSize + k)
  <2>1. (IF k < at THEN block[k] ELSE LengthByte((ByteBits * Total) % Wrap, k - at))
        = PaddedByte(Total, Before * BlockSize + k)
    BY <1>1, LastIsPadded
  <2>2. next[k] = IF k < at THEN block[k] ELSE LengthByte((ByteBits * Total) % Wrap, k - at)
    BY <1>2, Zenon
  <2> QED
    BY <1>1, <2>1, <2>2, Zenon
<1>4. next \in Block
  <2>1. bits \in Nat
    <3>1. Wrap \in Nat \ {0} /\ ByteBits * len \in Nat
      BY <1>1, HashAssumption DEF TypeOK, Wrap
    <3> QED
      BY <3>1, Division
  <2>2. ASSUME NEW k \in Offsets, ~(k < at)
        PROVE  k - at \in 0 .. LengthSize - 1
    BY <2>2, HashAssumption DEF Offsets
  <2> HIDE DEF bits
  <2>3. ASSUME NEW k \in Offsets, ~(k < at)
        PROVE  LengthByte(bits, k - at) \in Value
    BY <2>1, <2>2, <2>3, LengthByteIsNumber DEF Value
  <2>4. ASSUME NEW k \in Offsets
        PROVE  block[k] \in Value
    <3>1. MsgByte(BlockSize * nblock + k) \in Value
      BY <1>1, MessageLength, Place, DataIsValue DEF MsgByte
    <3>2. First \in Value /\ 0 \in Value
      BY HashAssumption, Division DEF First, Value
    <3> QED
      BY <1>1, <3>1, <3>2 DEF RestBlock, Zeroed
  <2> QED
    BY <2>3, <2>4 DEF Block
<1> HIDE DEF next
<1>5. state' \in Seq(Block) /\ Len(state') = Len(state) + 1 /\ Processed'
  BY <1>1, <1>3, <1>4, AddBlock
<1>6. Len(state') * BlockSize = PaddedLength(Total)
  <2>1. PaddedLength(Total) = BlockSize * (resumed + nblock + (IF Spills THEN 2 ELSE 1))
    BY <1>1, Padding
  <2>2. Len(state') = resumed + nblock + (IF Spills THEN 2 ELSE 1)
    BY <1>1, <1>5, MessageLength DEF Before, TypeOK
  <2>3. Len(state') \in Nat /\ BlockSize \in Nat
    BY <1>5, HashAssumption
  <2>4. Len(state') * BlockSize = BlockSize * Len(state')
    BY <2>3
  <2> QED
    BY <2>1, <2>2, <2>4, Zenon
<1>7. PaddedLength(Total)' = PaddedLength(Total)
  BY <1>1, SameCall
<1>8. TypeOK'
  BY <1>1, <1>5 DEF TypeOK
<1>9. Progress' /\ LengthSoFar'
  BY <1>1, <1>6, <1>7 DEF Progress, LengthSoFar
<1> QED
  BY <1>1, <1>5, <1>8, <1>9 DEF IInv

(* Every step keeps the invariant. *)
LEMMA StepIInv == IInv /\ [Next]_vars => IInv'
<1> SUFFICES ASSUME IInv, [Next]_vars PROVE IInv'
  OBVIOUS
<1>1. CASE Call
  BY <1>1, CallIInv
<1>2. CASE Refuse
  BY <1>2, SameCall DEF Refuse, IInv, TypeOK, Progress, LengthSoFar, Zeroed
<1>3. CASE Accept
  <2>1. 0 <= nblock /\ nblock \in Nat
    BY MessageLength DEF IInv
  <2>2. Processed' /\ nblock' = nblock
    BY <1>3, SameCall DEF Accept, IInv
  <2> QED
    BY <1>3, <2>1, <2>2 DEF Accept, IInv, TypeOK, Progress, LengthSoFar
<1>4. CASE CompleteBlock
  BY <1>4, CompleteBlockIInv
<1>5. CASE RestFails
  BY <1>5, RestIInv
<1>6. CASE Rest
  BY <1>6, RestIInv
<1>7. CASE Spill
  BY <1>7, SpillIInv
<1>8. CASE Length
  BY <1>8, LengthIInv
<1>9. CASE UNCHANGED vars
  <2>1. Processed <=> Processed'
    BY <1>9, SameCall DEF vars, Processed, PaddedByte, LengthByte, PaddedLength, PaddingLength, Total
  <2>2. /\ nblock' = nblock /\ RestBlock' = RestBlock /\ Spills' = Spills
        /\ PaddedLength(Total)' = PaddedLength(Total)
    BY <1>9, SameCall DEF vars
  <2> QED
    BY <1>9, <2>1, <2>2 DEF vars, IInv, TypeOK, Progress, LengthSoFar
<1> QED
  BY <1>1, <1>2, <1>3, <1>4, <1>5, <1>6, <1>7, <1>8, <1>9 DEF Next

(* IInv is an invariant. *)
THEOREM Invariance == Spec => []IInv
<1>1. Init => IInv
  <2> SUFFICES ASSUME Init PROVE IInv
    OBVIOUS
  <2>1. 0 % Wrap = 0 /\ 0 \in 0 .. Wrap - 1
    BY HashAssumption DEF Wrap
  <2>2. state \in Seq(Block) /\ Len(state) = 0
    BY DEF Init
  <2> QED
    BY <2>1, <2>2 DEF Init, IInv, TypeOK, Progress, LengthSoFar, Zeroed
<1> QED
  BY <1>1, StepIInv, PTL DEF Spec

(* TypeOK: no step reads past the message. *)
THEOREM TypeCorrect == Spec => []TypeOK
<1>1. IInv => TypeOK
  BY DEF IInv
<1> QED
  BY <1>1, Invariance, PTL

(* What was processed is the padded message, when a call succeeds.         *)
THEOREM ProcessesThePadded == Spec => []HashesThePadded
<1>1. IInv => HashesThePadded
  BY DEF IInv, HashesThePadded, Progress, Processed
<1> QED
  BY <1>1, Invariance, PTL

(***************************************************************************)
(* The length that is written.                                             *)
(***************************************************************************)

(* What may be concluded of a set of numbers in place of an induction.     *)
LEMMA Smallest ==
    ASSUME NEW S, S \subseteq Nat, S # {}
    PROVE  \E m \in S : \A n \in S : m <= n
<1> DEFINE R == OpToRel(<, Nat)
<1>1. R = {ss \in Nat \X Nat : ss[1] < ss[2]}
  BY DEF OpToRel
<1>2. IsWellFoundedOn(R, Nat)
  BY NatLessThanWellFounded
<1> HIDE DEF R
<1>3. PICK m \in S : \A n \in S : ~(<<n, m>> \in R)
  BY <1>2, WFMin
<1>4. ASSUME NEW n \in S PROVE m <= n
  <2>1. <<n, m>> \notin R /\ n \in Nat /\ m \in Nat
    BY <1>3
  <2>2. ~(n < m)
    BY <2>1, <1>1
  <2> QED
    BY <2>1, <2>2
<1> QED
  BY <1>4

(* The last bytes of the last block are those of the length, backwards.    *)
LEMMA LastBytes ==
    ASSUME IInv, pc = "idle", ret = 0, NEW m \in 1 .. LengthSize
    PROVE  /\ Len(state) >= 1
           /\ state[Len(state)][BlockSize - m] =
                LengthByte((ByteBits * Total) % Wrap, LengthSize - m)
<1> DEFINE padded == PaddedLength(Total)
           left == BlockSize - (Total % BlockSize)
           place == padded - m
<1>1. /\ BlockSize \in Nat /\ LengthSize \in Nat /\ LengthSize < BlockSize /\ Total \in Nat
      /\ Len(state) \in Nat /\ Len(state) * BlockSize = padded
  BY HashAssumption, MessageLength DEF IInv, TypeOK, Progress
<1>2. Total % BlockSize \in 0 .. BlockSize - 1
  BY MessageLength DEF IInv, Offsets
<1>3. padded \in Nat /\ padded >= Total + 1 + LengthSize
  <2>1. left \in 1 .. BlockSize
    BY <1>1, <1>2
  <2>2. padded = Total + (IF left < 1 + LengthSize THEN left + BlockSize ELSE left)
    BY DEF PaddedLength, PaddingLength
  <2> HIDE DEF left, padded
  <2> QED
    BY <1>1, <2>1, <2>2
<1> HIDE DEF padded
<1>4. Len(state) >= 1
  BY <1>1, <1>3
<1>5. (Len(state) - 1) * BlockSize + (BlockSize - m) = place
  BY <1>1, <1>4
<1>6. BlockSize - m \in Offsets
  BY <1>1 DEF Offsets
<1>7. state[Len(state)][BlockSize - m] = PaddedByte(Total, place)
  <2>1. Len(state) \in 1 .. Len(state)
    BY <1>1, <1>4
  <2>2. state[Len(state)][BlockSize - m] =
          PaddedByte(Total, (Len(state) - 1) * BlockSize + (BlockSize - m))
    BY <2>1, <1>6 DEF IInv, Processed
  <2> QED
    BY <2>2, <1>5
<1>8. ~(place < Total) /\ place # Total /\ ~(place < padded - LengthSize)
      /\ place - (padded - LengthSize) = LengthSize - m
  BY <1>1, <1>3
<1>9. PaddedByte(Total, place) = LengthByte((ByteBits * Total) % Wrap, LengthSize - m)
  BY <1>8, Zenon DEF PaddedByte, padded
<1> QED
  BY <1>4, <1>7, <1>9

LEMMA Distributed ==
    ASSUME NEW p \in Nat, NEW b \in Nat, NEW a \in Nat, NEW d \in Nat
    PROVE  p * (b * a + d) = (b * p) * a + d * p
<1>1. p * (b * a + d) = p * (b * a) + p * d
  OBVIOUS
<1>2. p * (b * a) = (b * p) * a
  OBVIOUS
<1> QED
  BY <1>1, <1>2

(* One more byte of a number. *)
LEMMA NextByte ==
    ASSUME NEW bits \in Nat, NEW j \in 0 .. LengthSize - 1
    PROVE  /\ bits % (Byte ^ (j + 1)) =
                (bits % (Byte ^ j)) + ((bits \div (Byte ^ j)) % Byte) * (Byte ^ j)
           /\ bits % (Byte ^ j) \in Nat
           /\ ((bits \div (Byte ^ j)) % Byte) * (Byte ^ j) \in Nat
<1>1. PICK p \in Nat \ {0} : p = Byte ^ j
  BY HashAssumption
<1>2. Byte ^ (j + 1) = Byte * p /\ Byte \in Nat \ {0}
  BY <1>1, HashAssumption
<1>3. PICK q \in Nat : q = bits \div p
  BY Division
<1>4. PICK r \in 0 .. p - 1 : r = bits % p
  BY Division
<1>5. bits = p * q + r
  BY <1>3, <1>4, Division
<1>6. PICK a \in Nat : a = q \div Byte
  BY <1>2, Division
<1>7. PICK d \in 0 .. Byte - 1 : d = q % Byte
  BY <1>2, Division
<1>8. q = Byte * a + d
  BY <1>2, <1>6, <1>7, Division
<1>9. PICK b \in Nat \ {0} : b = Byte
  BY <1>2
<1>10. b * p \in Nat \ {0} /\ d \in Nat /\ d * p \in Nat /\ (b * p) * a \in Nat
  BY <1>9, <1>7
<1>11. bits = (b * p) * a + (d * p + r)
  <2>1. p * q = (b * p) * a + d * p
    BY <1>8, <1>9, <1>10, Distributed
  <2> QED
    BY <2>1, <1>5, <1>10
<1>12. d * p + r \in 0 .. b * p - 1
  <2>1. d <= b - 1 /\ b - 1 - d \in Nat
    BY <1>7, <1>9
  <2>2. (b - 1 - d) * p \in Nat
    BY <2>1
  <2>3. (b - 1 - d) * p = b * p - p - d * p
    BY <2>1, <1>7
  <2> QED
    BY <2>2, <2>3, <1>10, <1>7
<1>13. bits % (b * p) = d * p + r
  BY <1>10, <1>11, <1>12, Remainder
<1> QED
  BY <1>1, <1>2, <1>3, <1>4, <1>7, <1>9, <1>10, <1>13

(* What the bytes read back are, taken from the first of them: the length  *)
(* without what the remaining ones say.                                    *)
SoFar(bits, k) ==
    IF algorithm = "md4" THEN bits - (bits % (Byte ^ (LengthSize - k))) ELSE bits % (Byte ^ k)

LEMMA SoFarNext ==
    ASSUME NEW bits \in 0 .. Wrap - 1
    PROVE  /\ SoFar(bits, 0) = 0
           /\ SoFar(bits, LengthSize) = bits
           /\ \A k \in 1 .. LengthSize :
                SoFar(bits, k) = SoFar(bits, k - 1) +
                    LengthByte(bits, LengthSize - k) *
                    Byte ^ (IF algorithm = "md4" THEN LengthSize - k
                            ELSE LengthSize - 1 - (LengthSize - k))
<1>1. LengthSize \in Nat /\ Wrap \in Nat \ {0} /\ Wrap = Byte ^ LengthSize /\ Byte ^ 0 = 1
  BY HashAssumption DEF Wrap
<1>2. bits % (Byte ^ LengthSize) = bits /\ bits % (Byte ^ 0) = 0
  <2>1. bits \in Nat /\ Wrap * 0 + bits = bits /\ 1 * bits + 0 = bits
    BY <1>1
  <2> QED
    BY <2>1, <1>1, Remainder
<1>3. LengthSize - 0 = LengthSize /\ LengthSize - LengthSize = 0
  BY <1>1
<1>4. SoFar(bits, 0) = 0 /\ SoFar(bits, LengthSize) = bits
  BY <1>2, <1>3 DEF SoFar
<1>5. ASSUME NEW k \in 1 .. LengthSize
      PROVE  SoFar(bits, k) = SoFar(bits, k - 1) +
                    LengthByte(bits, LengthSize - k) *
                    Byte ^ (IF algorithm = "md4" THEN LengthSize - k
                            ELSE LengthSize - 1 - (LengthSize - k))
  <2>1. CASE algorithm = "md4"
    <3>1. LengthSize - k \in 0 .. LengthSize - 1 /\ LengthSize - k + 1 = LengthSize - (k - 1)
      BY <1>1
    <3>2. bits % (Byte ^ (LengthSize - (k - 1))) =
            (bits % (Byte ^ (LengthSize - k)))
            + LengthByte(bits, LengthSize - k) * (Byte ^ (LengthSize - k))
      BY <2>1, <3>1, NextByte DEF LengthByte
    <3>3. /\ bits % (Byte ^ (LengthSize - k)) \in Nat
          /\ LengthByte(bits, LengthSize - k) * (Byte ^ (LengthSize - k)) \in Nat
      BY <2>1, <3>1, NextByte DEF LengthByte
    <3>4. SoFar(bits, k) = bits - (bits % (Byte ^ (LengthSize - k)))
          /\ SoFar(bits, k - 1) = bits - (bits % (Byte ^ (LengthSize - (k - 1))))
      BY <2>1 DEF SoFar
    <3> QED
      BY <2>1, <3>2, <3>3, <3>4
  <2>2. CASE algorithm # "md4"
    <3>1. k - 1 \in 0 .. LengthSize - 1 /\ k - 1 + 1 = k /\ LengthSize - 1 - (LengthSize - k) = k - 1
      BY <1>1
    <3>2. LengthByte(bits, LengthSize - k) = (bits \div (Byte ^ (k - 1))) % Byte
      BY <2>2, <3>1 DEF LengthByte
    <3>3. bits % (Byte ^ k) = (bits % (Byte ^ (k - 1))) + LengthByte(bits, LengthSize - k) * (Byte ^ (k - 1))
      BY <3>1, <3>2, NextByte
    <3> QED
      BY <2>2, <3>1, <3>3 DEF SoFar
  <2> QED
    BY <2>1, <2>2
<1> QED
  BY <1>4, <1>5

(* The length in bits can be read back from the last block, in the order   *)
(* of the bytes that its algorithm uses.                                   *)
THEOREM LengthIsReadBack == Spec => []LengthIsWritten
<1>1. IInv => LengthIsWritten
  <2> SUFFICES ASSUME IInv, pc = "idle", ret = 0
               PROVE  LengthIsWritten
    BY DEF LengthIsWritten
  <2> DEFINE bits == (ByteBits * Total) % Wrap
             last == state[Len(state)]
             place(k) == IF algorithm = "md4" THEN k ELSE LengthSize - 1 - k
             Def(f) == [k \in 0 .. LengthSize |->
                          IF k = 0 THEN 0
                          ELSE f[k - 1] + last[BlockSize - k] * Byte ^ place(LengthSize - k)]
             number == CHOOSE f : f = Def(f)
             g == [k \in 0 .. LengthSize |-> SoFar(bits, k)]
  <2>1. bits \in 0 .. Wrap - 1 /\ LengthSize \in Nat
    <3>1. Wrap \in Nat \ {0} /\ ByteBits \in Nat /\ Total \in Nat
      BY HashAssumption, MessageLength DEF Wrap, IInv
    <3>2. ByteBits * Total \in Nat
      BY <3>1
    <3> QED
      BY <3>1, <3>2, Division, HashAssumption
  <2>2. \A k \in 1 .. LengthSize : last[BlockSize - k] = LengthByte(bits, LengthSize - k)
    BY LastBytes
  <2> HIDE DEF bits, last
  <2>3. /\ SoFar(bits, 0) = 0
        /\ SoFar(bits, LengthSize) = bits
        /\ \A k \in 1 .. LengthSize :
              SoFar(bits, k) = SoFar(bits, k - 1) + last[BlockSize - k] * Byte ^ place(LengthSize - k)
    BY <2>1, <2>2, SoFarNext
  <2> HIDE DEF place
  <2>4. g = Def(g)
    BY <2>1, <2>3
  <2>5. number = Def(number)
    BY <2>4
  <2> HIDE DEF number
  <2>6. \A m \in 0 .. LengthSize :
          number[m] = IF m = 0 THEN 0
                      ELSE number[m - 1] + last[BlockSize - m] * Byte ^ place(LengthSize - m)
    BY <2>5, Zenon
  <2>7. \A m \in 1 .. LengthSize :
          g[m] = g[m - 1] + last[BlockSize - m] * Byte ^ place(LengthSize - m)
    <3>1. \A m \in 1 .. LengthSize :
             /\ m \in 0 .. LengthSize /\ m - 1 \in 0 .. LengthSize
             /\ SoFar(bits, m) = SoFar(bits, m - 1) + last[BlockSize - m] * Byte ^ place(LengthSize - m)
      BY <2>1, <2>3
    <3> QED
      BY <3>1, Zenon
  <2> DEFINE bad == {k \in 0 .. LengthSize : number[k] # g[k]}
  <2>8. bad = {}
    <3> SUFFICES ASSUME bad # {} PROVE FALSE
      OBVIOUS
    <3>1. bad \subseteq Nat
      OBVIOUS
    <3>2. PICK m \in bad : \A n \in bad : m <= n
      <4> HIDE DEF bad
      <4> QED
        BY <3>1, Smallest
    <3>3. m # 0
      BY <3>2, <2>5, <2>3
    <3>4. m \in 1 .. LengthSize /\ m - 1 \in 0 .. LengthSize /\ number[m] # g[m] /\ m - 1 \notin bad
      BY <3>2, <3>3, <2>1
    <3>5. number[m - 1] = g[m - 1]
      BY <3>4
    <3>6. number[m] = number[m - 1] + last[BlockSize - m] * Byte ^ place(LengthSize - m)
      BY <3>3, <3>4, <2>1, <2>6
    <3>7. g[m] = g[m - 1] + last[BlockSize - m] * Byte ^ place(LengthSize - m)
      BY <3>4, <2>7
    <3> QED
      BY <3>4, <3>5, <3>6, <3>7
  <2>9. number[LengthSize] = bits
    <3>1. LengthSize \in 0 .. LengthSize
      BY <2>1
    <3>2. number[LengthSize] = g[LengthSize]
      BY <3>1, <2>8
    <3> QED
      BY <3>1, <3>2, <2>3
  <2> QED
    BY <2>9 DEF LengthIsWritten, number, place, bits, last
<1> QED
  BY <1>1, Invariance, PTL

(***************************************************************************)
(* MACs.                                                                   *)
(***************************************************************************)

(* NULL is no sequence, whatever its bytes are. *)
NullIsNoText == \A n \in Nat : \A f : [k \in 1 .. n |-> f[k]] # NULL

(* One sequence after another. *)
LEMMA Joining ==
    ASSUME NEW s, IsBytes(s), NEW t, IsBytes(t)
    PROVE  /\ Len(s) \in Nat /\ Len(t) \in Nat
           /\ s = [k \in 1 .. Len(s) |-> s[k]] /\ t = [k \in 1 .. Len(t) |-> t[k]]
           /\ s \o t = [k \in 1 .. Len(s) + Len(t) |->
                           IF k <= Len(s) THEN s[k] ELSE t[k - Len(s)]]
           /\ Len(s \o t) = Len(s) + Len(t)
           /\ IsBytes(s \o t)
<1> DEFINE S == {s[k] : k \in DOMAIN s} \union {t[k] : k \in DOMAIN t}
<1>1. s \in Seq({s[k] : k \in DOMAIN s}) /\ t \in Seq({t[k] : k \in DOMAIN t})
  BY DEF IsBytes
<1>2. s \in Seq(S) /\ t \in Seq(S)
  BY <1>1
<1> HIDE DEF S
<1>3. s \o t \in Seq(S) /\ Len(s \o t) = Len(s) + Len(t) /\ Len(s) \in Nat /\ Len(t) \in Nat
  BY <1>2
<1>4. s \o t = [k \in 1 .. Len(s) + Len(t) |-> IF k <= Len(s) THEN s[k] ELSE t[k - Len(s)]]
  <2>1. \A k \in 1 .. Len(s) + Len(t) :
            (s \o t)[k] = IF k <= Len(s) THEN s[k] ELSE t[k - Len(s)]
    BY <1>2
  <2> DEFINE w == s \o t
  <2>2. w = [k \in 1 .. Len(w) |-> w[k]]
    <3>1. w \in Seq(S)
      BY <1>3
    <3> HIDE DEF w
    <3> QED
      BY <3>1
  <2> HIDE DEF w
  <2>3. w = [k \in 1 .. Len(s) + Len(t) |-> w[k]]
    BY <2>2, <1>3 DEF w
  <2>4. \A k \in 1 .. Len(s) + Len(t) : w[k] = IF k <= Len(s) THEN s[k] ELSE t[k - Len(s)]
    BY <2>1 DEF w
  <2>5. w = [k \in 1 .. Len(s) + Len(t) |-> IF k <= Len(s) THEN s[k] ELSE t[k - Len(s)]]
    BY <2>3, <2>4, Zenon
  <2> QED
    BY <2>5 DEF w
<1>5. s = [k \in 1 .. Len(s) |-> s[k]] /\ t = [k \in 1 .. Len(t) |-> t[k]]
  BY <1>2
<1>6. IsBytes(s \o t)
  <2> DEFINE w == s \o t
  <2>1. w \in Seq(S)
    BY <1>3
  <2> HIDE DEF w
  <2>2. w \in Seq({w[k] : k \in DOMAIN w})
    BY <2>1
  <2> QED
    BY <2>2 DEF IsBytes, w
<1> QED
  BY <1>3, <1>4, <1>5, <1>6

(* Where the bytes of the second one are. *)
LEMMA JoinedAfter ==
    ASSUME NEW s, IsBytes(s), NEW t, IsBytes(t)
    PROVE  /\ Len(s) \in Nat /\ Len(t) \in Nat
           /\ Len(s \o t) = Len(s) + Len(t)
           /\ \A k \in 1 .. Len(t) : (s \o t)[Len(s) + k] = t[k]
<1>1. /\ Len(s) \in Nat /\ Len(t) \in Nat
      /\ Len(s \o t) = Len(s) + Len(t)
      /\ s \o t = [k \in 1 .. Len(s) + Len(t) |->
                      IF k <= Len(s) THEN s[k] ELSE t[k - Len(s)]]
  BY Joining
<1>2. PICK n \in Nat : n = Len(s)
  BY <1>1
<1>3. PICK m \in Nat : m = Len(t)
  BY <1>1
<1>4. PICK w : w = s \o t
  OBVIOUS
<1>5. w = [k \in 1 .. n + m |-> IF k <= n THEN s[k] ELSE t[k - n]]
  BY <1>1, <1>2, <1>3, <1>4, Zenon
<1>6. ASSUME NEW k \in 1 .. m PROVE w[n + k] = t[k]
  <2>1. n + k \in 1 .. n + m /\ ~ (n + k <= n) /\ n + k - n = k
    OBVIOUS
  <2> QED
    BY <1>5, <2>1
<1> QED
  BY <1>1, <1>2, <1>3, <1>4, <1>6, Zenon

(* A function on 1 .. n is a sequence. *)
LEMMA FunctionIsBytes ==
    ASSUME NEW n \in Nat, NEW f
    PROVE  LET w == [k \in 1 .. n |-> f[k]] IN IsBytes(w) /\ Len(w) = n
<1> DEFINE w == [k \in 1 .. n |-> f[k]]
<1>1. w \in [1 .. n -> {w[k] : k \in DOMAIN w}]
  OBVIOUS
<1>2. w \in Seq({w[k] : k \in DOMAIN w}) /\ Len(w) = n
  BY <1>1
<1> QED
  BY <1>2 DEF IsBytes

LEMMA HashesAre ==
    ASSUME NEW msg
    PROVE  /\ IsBytes(HashOf(msg)) /\ Len(HashOf(msg)) = MacLength
           /\ HashOf(msg) = [k \in 1 .. MacLength |-> [hash |-> msg, byte |-> k]]
<1> DEFINE f == [k \in 1 .. MacLength |-> [hash |-> msg, byte |-> k]]
<1>1. f = [k \in 1 .. MacLength |-> f[k]]
  OBVIOUS
<1> HIDE DEF f
<1>2. MacLength \in Nat
  BY MacAssumption
<1>3. IsBytes(f) /\ Len(f) = MacLength
  BY <1>1, <1>2, FunctionIsBytes, Zenon
<1> QED
  BY <1>3 DEF HashOf, f

(* The key of a block, whatever the length of the one that was given. *)
LEMMA PaddedKey ==
    ASSUME NEW key, IsBytes(key)
    PROVE  LET tk == ShortKey(key)
               K(n) == IF Len(key) <= MacBlock
                       THEN IF n <= Len(key) THEN key[n] ELSE Zero
                       ELSE IF n <= MacLength THEN [hash |-> key, byte |-> n] ELSE Zero
           IN  /\ Len(tk) \in 0 .. MacBlock
               /\ tk \o Zeros(MacBlock - Len(tk)) = [n \in 1 .. MacBlock |-> K(n)]
<1> DEFINE tk == ShortKey(key)
           K(n) == IF Len(key) <= MacBlock
                   THEN IF n <= Len(key) THEN key[n] ELSE Zero
                   ELSE IF n <= MacLength THEN [hash |-> key, byte |-> n] ELSE Zero
<1>0. MacBlock \in Nat /\ MacLength \in 1 .. MacBlock /\ Len(key) \in Nat
  BY MacAssumption DEF IsBytes
<1>1. /\ IsBytes(tk) /\ Len(tk) \in 0 .. MacBlock
      /\ \A n \in 1 .. Len(tk) : K(n) = tk[n]
      /\ \A n \in 1 .. MacBlock : ~(n <= Len(tk)) => K(n) = Zero
  <2>1. CASE Len(key) <= MacBlock
    <3>1. tk = key
      BY <2>1, <1>0 DEF ShortKey
    <3> QED
      BY <2>1, <1>0, <3>1
  <2>2. CASE ~(Len(key) <= MacBlock)
    <3>1. tk = HashOf(key)
      BY <2>2, <1>0 DEF ShortKey
    <3> HIDE DEF tk
    <3> QED
      BY <2>2, <1>0, <3>1, HashesAre
  <2> QED
    BY <2>1, <2>2
<1> HIDE DEF tk, K
<1> DEFINE rest == MacBlock - Len(tk)
           z == Zeros(rest)
<1>2. rest \in Nat
  BY <1>0, <1>1
<1>3. z = [k \in 1 .. rest |-> z[k]] /\ \A k \in 1 .. rest : z[k] = Zero
  BY <1>2 DEF Zeros
<1> HIDE DEF rest, z
<1>4. IsBytes(z) /\ Len(z) = rest
  BY <1>2, <1>3, FunctionIsBytes, Zenon
<1>5. tk \o z = [k \in 1 .. Len(tk) + rest |-> IF k <= Len(tk) THEN tk[k] ELSE z[k - Len(tk)]]
  <2>1. IsBytes(tk) /\ IsBytes(z)
    BY <1>1, <1>4
  <2>2. tk \o z = [k \in 1 .. Len(tk) + Len(z) |-> IF k <= Len(tk) THEN tk[k] ELSE z[k - Len(tk)]]
    BY <2>1, Joining, Zenon
  <2> QED
    BY <2>2, <1>4, Zenon
<1>6. Len(tk) + rest = MacBlock
  BY <1>0, <1>1 DEF rest
<1>7. \A k \in 1 .. MacBlock : K(k) = IF k <= Len(tk) THEN tk[k] ELSE z[k - Len(tk)]
  <2> SUFFICES ASSUME NEW k \in 1 .. MacBlock
               PROVE  K(k) = IF k <= Len(tk) THEN tk[k] ELSE z[k - Len(tk)]
    OBVIOUS
  <2>1. CASE k <= Len(tk)
    BY <2>1, <1>0, <1>1
  <2>2. CASE ~(k <= Len(tk))
    <3>1. k - Len(tk) \in 1 .. rest
      BY <2>2, <1>0, <1>1, <1>6, <1>2
    <3> QED
      BY <2>2, <3>1, <1>1, <1>3
  <2> QED
    BY <2>1, <2>2
<1>8. tk \o z = [k \in 1 .. MacBlock |-> K(k)]
  BY <1>5, <1>6, <1>7, Zenon
<1> QED
  BY <1>1, <1>8 DEF tk, K, z, rest

(* What calls that do not fail return is never NULL. *)
LEMMA NeverNull ==
    ASSUME NullIsNoText
    PROVE  /\ \A s : IsBytes(s) => s # NULL
           /\ \A msg : HashOf(msg) # NULL
<1>1. ASSUME NEW s, IsBytes(s) PROVE s # NULL
  <2>1. Len(s) \in Nat /\ s = [k \in 1 .. Len(s) |-> s[k]]
    BY <1>1, Joining
  <2> QED
    BY <2>1, Zenon DEF NullIsNoText
<1>2. ASSUME NEW msg PROVE HashOf(msg) # NULL
  BY <1>1, HashesAre
<1> QED
  BY <1>1, <1>2

(* hmac() is what RFC 2104 defines, or NULL when one of its calls failed.  *)
LEMMA HmacIs ==
    ASSUME NullIsNoText, NEW key, IsBytes(key), NEW msg, IsBytes(msg), NEW failing \in SUBSET Calls
    PROVE  HmacIsWholeOrNull(key, msg, failing)
<1> DEFINE tk     == ShortKey(key)
           padded == tk \o Zeros(MacBlock - Len(tk))
           in     == Joined("in" \in failing, Xored(padded, "ipad"), msg)
           hin    == Hash("hin" \in failing, in)
           out    == Joined("out" \in failing, Xored(padded, "opad"), hin)
           K(n)   == IF Len(key) <= MacBlock
                     THEN IF n <= Len(key) THEN key[n] ELSE Zero
                     ELSE IF n <= MacLength THEN [hash |-> key, byte |-> n] ELSE Zero
           pad(kind) == [n \in 1 .. MacBlock |-> [byte |-> K(n), pad |-> kind]]
<1>1. ~(Len(tk) > MacBlock) /\ padded = [n \in 1 .. MacBlock |-> K(n)]
  <2>1. Len(tk) \in 0 .. MacBlock /\ padded = [n \in 1 .. MacBlock |-> K(n)]
    BY PaddedKey
  <2> HIDE DEF tk, padded
  <2> QED
    BY <2>1, MacAssumption
<1> HIDE DEF K, padded, tk
<1>2. Xored(padded, "ipad") = pad("ipad") /\ Xored(padded, "opad") = pad("opad")
  BY <1>1, Zenon DEF Xored
<1>3. IsBytes(pad("ipad")) /\ IsBytes(pad("opad"))
  <2> SUFFICES ASSUME NEW kind PROVE IsBytes(pad(kind))
    OBVIOUS
  <2> DEFINE f == pad(kind)
  <2>1. f = [n \in 1 .. MacBlock |-> f[n]]
    OBVIOUS
  <2> HIDE DEF f
  <2>2. MacBlock \in Nat
    BY MacAssumption
  <2>3. IsBytes(f)
    BY <2>1, <2>2, FunctionIsBytes, Zenon
  <2> QED
    BY <2>3 DEF f
<1> HIDE DEF pad, in, hin, out
<1>4. Hmac(key, msg, failing) =
        IF failing \intersect {"tk", "k_ipad", "k_opad"} # {} THEN NULL
        ELSE Hash("mac" \in failing, out)
  BY <1>1, Zenon DEF Hmac, out, hin, in, padded, tk
<1>5. CASE failing = {}
  <2>1. in = pad("ipad") \o msg /\ IsBytes(in)
    <3>1. pad("ipad") # NULL /\ msg # NULL /\ "in" \notin failing
      BY <1>3, <1>5, NeverNull
    <3>2. in = pad("ipad") \o msg
      BY <3>1, <1>2, Zenon DEF in, Joined
    <3> QED
      BY <3>2, <1>3, Joining
  <2>2. hin = HashOf(in)
    <3>1. in # NULL /\ "hin" \notin failing
      BY <2>1, <1>5, NeverNull
    <3> QED
      BY <3>1, Zenon DEF hin, Hash
  <2>3. out = pad("opad") \o hin /\ IsBytes(out)
    <3>1. pad("opad") # NULL /\ hin # NULL /\ "out" \notin failing /\ IsBytes(hin)
      BY <1>3, <1>5, <2>2, NeverNull, HashesAre
    <3>2. out = pad("opad") \o hin
      BY <3>1, <1>2, Zenon DEF out, Joined
    <3> QED
      BY <3>1, <3>2, <1>3, Joining
  <2>4. Hmac(key, msg, failing) = HashOf(out)
    <3>1. out # NULL /\ "mac" \notin failing
      BY <2>3, <1>5, NeverNull
    <3> QED
      BY <3>1, <1>4, <1>5, Zenon DEF Hash
  <2>5. HmacDefined(key, msg) = HashOf(pad("opad") \o HashOf(pad("ipad") \o msg))
    BY Zenon DEF HmacDefined, pad, K
  <2> QED
    BY <1>5, <2>1, <2>2, <2>3, <2>4, <2>5, Zenon DEF HmacIsWholeOrNull
<1>6. CASE failing # {}
  <2>1. Hmac(key, msg, failing) = NULL
    <3>1. CASE failing \intersect {"tk", "k_ipad", "k_opad"} # {}
      BY <3>1, <1>4
    <3>2. CASE "in" \in failing
      BY <3>2, <1>4, Zenon DEF in, hin, out, Joined, Hash
    <3>3. CASE "hin" \in failing
      BY <3>3, <1>4, Zenon DEF hin, out, Joined, Hash
    <3>4. CASE "out" \in failing
      BY <3>4, <1>4, Zenon DEF out, Joined, Hash
    <3>5. CASE "mac" \in failing
      BY <3>5, <1>4, Zenon DEF Hash
    <3> QED
      BY <1>6, <3>1, <3>2, <3>3, <3>4, <3>5 DEF Calls
  <2> QED
    BY <2>1, <1>6, Zenon DEF HmacIsWholeOrNull
<1> QED
  BY <1>5, <1>6

(* Only the MAC of the message itself is verified. *)
LEMMA OwnMac ==
    ASSUME NullIsNoText, NEW key \in MacKeys, NEW msg \in MacTexts, NEW failing
    PROVE  OnlyItsOwnVerifies(key, msg, failing)
<1> SUFFICES ASSUME NEW other, NEW text \in MacTexts,
                    KeyedPrefixVerify(key, msg, KeyedPrefix(key, text, other), failing) = 0
             PROVE  text = msg
  BY DEF OnlyItsOwnVerifies
<1>1. IsBytes(key) /\ IsBytes(msg) /\ IsBytes(text)
  BY MacAssumption
<1>2. /\ KeyedPrefix(key, msg, failing) # NULL
      /\ KeyedPrefix(key, text, other) # NULL
      /\ KeyedPrefix(key, msg, failing) = KeyedPrefix(key, text, other)
  BY DEF KeyedPrefixVerify
<1>3. HashOf(key \o msg) = HashOf(key \o text)
  <2>1. ASSUME NEW m, NEW f, KeyedPrefix(key, m, f) # NULL
        PROVE  KeyedPrefix(key, m, f) = HashOf(key \o m)
    BY <2>1, Zenon DEF KeyedPrefix, Hash, Joined
  <2> QED
    BY <1>2, <2>1, Zenon
<1>4. key \o msg = key \o text
  <2>1. 1 \in 1 .. MacLength
    BY MacAssumption
  <2>2. \A m : HashOf(m)[1] = [hash |-> m, byte |-> 1]
    BY <2>1 DEF HashOf
  <2>3. [hash |-> key \o msg, byte |-> 1] = [hash |-> key \o text, byte |-> 1]
    BY <1>3, <2>2, Zenon
  <2> QED
    BY <2>3
<1>5. ASSUME NEW m, IsBytes(m)
      PROVE  /\ Len(m) \in Nat /\ Len(key) \in Nat
             /\ Len(key \o m) = Len(key) + Len(m)
             /\ \A k \in 1 .. Len(m) : (key \o m)[Len(key) + k] = m[k]
  <2>1. IsBytes(key)
    BY <1>1
  <2> QED
    BY <2>1, <1>5, JoinedAfter
<1>6. Len(msg) = Len(text)
  BY <1>1, <1>4, <1>5
<1>7. \A k \in 1 .. Len(msg) : msg[k] = text[k]
  <2>1. \A k \in 1 .. Len(msg) : (key \o msg)[Len(key) + k] = msg[k]
    BY <1>1, <1>5
  <2>2. \A k \in 1 .. Len(text) : (key \o text)[Len(key) + k] = text[k]
    BY <1>1, <1>5
  <2> QED
    BY <2>1, <2>2, <1>4, <1>6, Zenon
<1>8. msg = [k \in 1 .. Len(msg) |-> msg[k]] /\ text = [k \in 1 .. Len(msg) |-> text[k]]
  <2>1. msg = [k \in 1 .. Len(msg) |-> msg[k]] /\ text = [k \in 1 .. Len(text) |-> text[k]]
    BY <1>1, Joining
  <2> QED
    BY <2>1, <1>6, Zenon
<1> QED
  BY <1>7, <1>8, Zenon

(* A MAC is whole or NULL, for every key, every message and every set of   *)
(* calls that fail, whatever the sizes of a block and of a hash.           *)
THEOREM MacsAreWhole == NullIsNoText => (Spec => []MacIsWholeOrNull)
<1> SUFFICES ASSUME NullIsNoText PROVE Spec => []MacIsWholeOrNull
  OBVIOUS
<1>1. MacIsWholeOrNull
  <2> SUFFICES ASSUME NEW key \in MacKeys, NEW msg \in MacTexts,
                      NEW failing \in SUBSET Calls
               PROVE  HmacIsWholeOrNull(key, msg, failing) /\ OnlyItsOwnVerifies(key, msg, failing)
    BY DEF MacIsWholeOrNull
  <2>1. IsBytes(key) /\ IsBytes(msg)
    BY MacAssumption
  <2> QED
    BY <2>1, HmacIs, OwnMac
<1> QED
  BY <1>1, PTL
=============================================================================
