--------------------------------- MODULE Aes ---------------------------------
(***************************************************************************)
(* src/src/aes.c, the AES-128 block cipher, and src/src/nope.c, the cipher *)
(* that does nothing. The tables are given by what they hold: arithmetic  *)
(* in GF(2^8). A block is a sequence of sixteen bytes, column by column;   *)
(* what is NULL is a failure.                                              *)
(***************************************************************************)
EXTENDS Encodings

KeyLength == 16
ExpKeyLength == 176
CipherBlockSize == 16
Rounds == 10

Plus(x, y) == XorTable[x][y]

(***************************************************************************)
(* The tables.                                                             *)
(***************************************************************************)

Double == [x \in Byte |-> IF x < 128 THEN 2 * x ELSE Plus(2 * x - 256, 27)]

(* Row i holds the products by 2^i. *)
Doubled ==
    LET row[i \in 0 .. 7] ==
            IF i = 0 THEN [x \in Byte |-> x]
            ELSE LET before == row[i - 1] IN [x \in Byte |-> Double[before[x]]]
    IN  [i \in 0 .. 7 |-> row[i]]

Product(n, x) ==
    LET sum[i \in 0 .. 8] ==
            IF i = 0 THEN 0
            ELSE Plus(sum[i - 1], IF Bit(n, i - 1) = 1 THEN Doubled[i - 1][x] ELSE 0)
    IN  sum[8]

(* rgf_2 to rgf_14: row n holds the products by n; a factor of 1 has none. *)
Times == [n \in {1, 2, 3, 9, 11, 13, 14} |-> [x \in Byte |-> Product(n, x)]]

GfInverse(x) == IF x = 0 THEN 0 ELSE CHOOSE y \in Byte : Product(x, y) = 1

(* The affine transformation of the multiplicative inverse. *)
Affine(x) ==
    LET ones(i) == Cardinality({j \in {0, 4, 5, 6, 7} : Bit(x, (i + j) % 8) = 1})
        sum[i \in 0 .. 8] == IF i = 8 THEN 0 ELSE (ones(i) % 2) + (2 * sum[i + 1])
    IN  Plus(99, sum[0])

Sbox == [x \in Byte |-> Affine(GfInverse(x))]

InvSbox == [y \in Byte |-> CHOOSE x \in Byte : Sbox[x] = y]

(* rcon[i], for the rounds there are. *)
Rcon ==
    LET power[i \in 1 .. 10] == IF i = 1 THEN 1 ELSE Double[power[i - 1]]
    IN  [i \in 1 .. 10 |-> power[i]]

(***************************************************************************)
(* The key schedule.                                                       *)
(***************************************************************************)

(* aes_substitute() *)
Substitute(state, table) == [k \in DOMAIN state |-> table[state[k]]]

(* aes_rotate_left4(t, 1, 1) *)
Rotated(t) == <<t[2], t[3], t[4], t[1]>>

(* The core of the schedule, on the last word of the round before. *)
Core(t, round) ==
    LET s == Substitute(Rotated(t), Sbox)
    IN  [k \in 1 .. 4 |-> IF k = 1 THEN Plus(s[k], Rcon[round]) ELSE s[k]]

(* The sixteen bytes of a round, from those of the round before. *)
RoundKey(before, round) ==
    LET old(w) == SubSeq(before, (4 * w) + 1, (4 * w) + 4)
        new[w \in 0 .. 3] == Xor(IF w = 0 THEN Core(old(3), round) ELSE new[w - 1], old(w))
    IN  Joined([k \in 1 .. 4 |-> new[k - 1]])

ExpandKey(key) ==
    LET expanded[round \in 0 .. Rounds] ==
            IF round = 0 THEN key
            ELSE LET before == expanded[round - 1]
                 IN  before \o RoundKey(SubSeq(before, 16 * round - 15, 16 * round), round)
    IN  IF key = NULL THEN NULL
        ELSE IF Len(key) # KeyLength THEN NULL
        ELSE expanded[Rounds]

(***************************************************************************)
(* The rounds.                                                             *)
(***************************************************************************)

AddRoundKey(state, expkey, round) ==
    [k \in DOMAIN state |-> Plus(state[k], expkey[16 * round + k])]

(* Byte r of column c is at 4 * c + r + 1. Row r is rotated by r places,   *)
(* to the left or back.                                                    *)
Row(k) == (k - 1) % 4
Column(k) == (k - 1) \div 4

ShiftRows(state) ==
    [k \in DOMAIN state |-> state[4 * ((Column(k) + Row(k)) % 4) + Row(k) + 1]]

(* Fault: the rows are rotated to the left again. *)
InvShiftRowsLeft(state) ==
    [k \in DOMAIN state |-> state[4 * ((Column(k) + Row(k)) % 4) + Row(k) + 1]]

InvShiftRows(state) ==
    [k \in DOMAIN state |-> state[4 * ((Column(k) + 4 - Row(k)) % 4) + Row(k) + 1]]

(* Each column, multiplied by the matrix whose first row is m and whose    *)
(* other rows are m rotated.                                               *)
Factor(m, row, j) == m[((j - row + 3) % 4) + 1]

Mixed(state, m) ==
    [k \in DOMAIN state |->
        LET of(j) == state[(4 * Column(k)) + j]
            sum[j \in 0 .. 4] ==
                IF j = 0 THEN 0
                ELSE Plus(sum[j - 1], Times[Factor(m, Row(k), j)][of(j)])
        IN  sum[4]]

Mixing == <<2, 3, 1, 1>>
InvMixing == <<14, 11, 13, 9>>

MixColumns(state) == Mixed(state, Mixing)
InvMixColumns(state) == Mixed(state, InvMixing)

(* What the tables hold, byte by byte, and which the rounds rely on: a     *)
(* substitution and its inverse, products that distribute over sums, and   *)
(* two matrices whose product is the identity. It has no parameter: to     *)
(* evaluate it decides it.                                                 *)
ASSUME AesAssumption ==
    /\ \A x \in Byte : Sbox[x] \in Byte /\ InvSbox[x] \in Byte /\ InvSbox[Sbox[x]] = x
    /\ \A round \in 1 .. Rounds : Rcon[round] \in Byte
    /\ \A n \in DOMAIN Times, x \in Byte :
        /\ Times[n][x] \in Byte
        /\ \A y \in Byte : Times[n][Plus(x, y)] = Plus(Times[n][x], Times[n][y])
    /\ \A row \in 0 .. 3, i \in 1 .. 4, x \in Byte :
        LET product(j) == Times[Factor(InvMixing, row, j)][Times[Factor(Mixing, j - 1, i)][x]]
        IN  Plus(Plus(Plus(product(1), product(2)), product(3)), product(4)) =
                IF i = row + 1 THEN x ELSE 0

Fits(block, expkey) ==
    /\ block # NULL /\ expkey # NULL
    /\ Len(block) = CipherBlockSize
    /\ Len(expkey) = ExpKeyLength

(* aes_128_encrypt(): what the block becomes. *)
AesEncrypt(block, expkey) ==
    LET state[round \in 0 .. Rounds] ==
            IF round = 0 THEN AddRoundKey(block, expkey, 0)
            ELSE LET shifted == ShiftRows(Substitute(state[round - 1], Sbox))
                 IN  AddRoundKey(IF round < Rounds THEN MixColumns(shifted) ELSE shifted,
                                 expkey, round)
    IN  IF Fits(block, expkey) THEN state[Rounds] ELSE NULL

(* aes_128_decrypt(): the rounds backwards. *)
AesDecrypt(block, expkey) ==
    LET state[round \in 0 .. Rounds] ==
            IF round = Rounds THEN AddRoundKey(block, expkey, Rounds)
            ELSE LET shifted == Substitute(InvShiftRows(state[round + 1]), InvSbox)
                     added   == AddRoundKey(shifted, expkey, round)
                 IN  IF round > 0 THEN InvMixColumns(added) ELSE added
    IN  IF Fits(block, expkey) THEN state[0] ELSE NULL

(***************************************************************************)
(* nope.c                                                                  *)
(***************************************************************************)

NopeKeyLength == 1
NopeExpKeyLength == 2

NopeExpandKey(key) ==
    IF key = NULL THEN NULL
    ELSE IF Len(key) # NopeKeyLength THEN NULL
    ELSE Put(Repeated(Len(key) + 1, 187), 0, key)

NopeCrypt(block, expkey) ==
    IF block = NULL \/ expkey = NULL THEN NULL
    ELSE IF Len(block) # CipherBlockSize \/ Len(expkey) # NopeExpKeyLength THEN NULL
    ELSE block
=============================================================================
