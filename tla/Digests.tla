------------------------------ MODULE Digests ------------------------------
(***************************************************************************)
(* The compression functions of src/src/sha1.c, src/src/sha256.c and       *)
(* src/src/md4.c, and the three hash functions as functions of a message.  *)
(* HashContext shows that their loops process the padded message. A word   *)
(* is its two halves of 16 bits, the high one first.                       *)
(***************************************************************************)
EXTENDS Encodings

(***************************************************************************)
(* Words.                                                                  *)
(***************************************************************************)

Half == 2 ^ 16

(* The bits of both, of any two bytes, from those of fewer bits. *)
AndTable ==
    LET table[bits \in 0 .. 8] ==
            IF bits = 0 THEN [x \in {0} |-> [y \in {0} |-> 0]]
            ELSE LET half == table[bits - 1]
                 IN  [x \in 0 .. 2 ^ bits - 1 |-> [y \in 0 .. 2 ^ bits - 1 |->
                        2 * half[x \div 2][y \div 2] + ((x % 2) * (y % 2))]]
    IN  table[8]

HalfBy(table, x, y) == 256 * table[x \div 256][y \div 256] + table[x % 256][y % 256]
WordBy(table, x, y) == <<HalfBy(table, x[1], y[1]), HalfBy(table, x[2], y[2])>>

And(x, y) == WordBy(AndTable, x, y)
Xor2(x, y) == WordBy(XorTable, x, y)
Xor3(x, y, z) == Xor2(x, Xor2(y, z))
Not(x) == <<(Half - 1) - x[1], (Half - 1) - x[2]>>

Add(x, y) ==
    LET low == x[2] + y[2]
    IN  <<(x[1] + y[1] + (low \div Half)) % Half, low % Half>>

Shl(x, n) ==
    IF n >= 16 THEN <<(x[2] * 2 ^ (n - 16)) % Half, 0>>
    ELSE <<((x[1] * 2 ^ n) % Half) + (x[2] \div 2 ^ (16 - n)), (x[2] * 2 ^ n) % Half>>
Shr(x, n) ==
    IF n >= 16 THEN <<0, x[1] \div 2 ^ (n - 16)>>
    ELSE <<x[1] \div 2 ^ n, ((x[1] % 2 ^ n) * 2 ^ (16 - n)) + (x[2] \div 2 ^ n)>>

Rotl(x, n) == Add(Shl(x, n), Shr(x, 32 - n))
Rotr(x, n) == Rotl(x, 32 - n)

(* The sixteen words of a block. *)
Words(order, block) ==
    LET half(j) == IF order = "be" THEN 256 * block[j] + block[j + 1]
                                   ELSE 256 * block[j + 1] + block[j]
    IN  [t \in 1 .. 16 |->
            LET j == 4 * t - 3
            IN  IF order = "be" THEN <<half(j), half(j + 2)>> ELSE <<half(j + 2), half(j)>>]

Choice(x, y, z) == Xor2(And(x, y), And(Not(x), z))
Majority(x, y, z) == Xor3(And(x, y), And(x, z), And(y, z))

(* What steps 1 .. n make of a sequence, n a multiple of 16. They are taken *)
(* in runs of 16, each from what the run before it left: TLC evaluates one  *)
(* recursion over all the steps on too deep a stack.                        *)
AfterSteps(n, from, Step(_, _)) ==
    LET run[r \in 0 .. n \div 16] ==
            IF r = 0 THEN from
            ELSE LET start == run[r - 1]
                     first == 16 * (r - 1)
                     after[t \in first .. first + 16, v \in {start}] ==
                        IF t = first THEN v ELSE Step(t, after[t - 1, v])
                 IN  after[first + 16, start]
    IN  run[n \div 16]

(* What a hash state is after a block: the sum with the working variables. *)
Sums(H, v) == SubSeq([k \in DOMAIN H |-> Add(H[k], v[k])], 1, Len(H))

(***************************************************************************)
(* SHA-1.                                                                  *)
(***************************************************************************)

Sha1Initial ==
    <<<<\h6745, \h2301>>, <<\hEFCD, \hAB89>>, <<\h98BA, \hDCFE>>, <<\h1032, \h5476>>,
      <<\hC3D2, \hE1F0>>>>

(* W, which grows from the words of the block. *)
Sha1Schedule(words) ==
    LET Grown(t, w) ==
            LET n == t + 16
            IN  Append(w, Rotl(Xor2(Xor2(w[n - 3], w[n - 8]), Xor2(w[n - 14], w[n - 16])), 1))
    IN  AfterSteps(64, words, Grown)

(* f and k, of the quarter of t. *)
Sha1F(quarter, v) ==
    CASE quarter = 0 -> Choice(v[2], v[3], v[4])
      [] quarter = 2 -> Majority(v[2], v[3], v[4])
      [] OTHER -> Xor3(v[2], v[3], v[4])
Sha1K == <<<<\h5A82, \h7999>>, <<\h6ED9, \hEBA1>>, <<\h8F1B, \hBCDC>>, <<\hCA62, \hC1D6>>>>

(* sha1_process_message_block() *)
Sha1Process(H, block) ==
    LET W == Sha1Schedule(Words("be", block))
        Next80(t, v) ==
            LET quarter == (t - 1) \div 20
                temp == Add(Add(Rotl(v[1], 5), Sha1F(quarter, v)),
                            Add(v[5], Add(W[t], Sha1K[quarter + 1])))
            IN  [v EXCEPT ![1] = temp, ![2] = v[1], ![3] = Rotl(v[2], 30), ![4] = v[3],
                          ![5] = v[4]]
    IN  Sums(H, AfterSteps(Len(W), H, Next80))

(***************************************************************************)
(* SHA-256.                                                                *)
(***************************************************************************)

Sha256Initial ==
    <<<<\h6a09, \he667>>, <<\hbb67, \hae85>>, <<\h3c6e, \hf372>>, <<\ha54f, \hf53a>>,
      <<\h510e, \h527f>>, <<\h9b05, \h688c>>, <<\h1f83, \hd9ab>>, <<\h5be0, \hcd19>>>>

Sha256K ==
    <<<<\h428a, \h2f98>>, <<\h7137, \h4491>>, <<\hb5c0, \hfbcf>>, <<\he9b5, \hdba5>>,
      <<\h3956, \hc25b>>, <<\h59f1, \h11f1>>, <<\h923f, \h82a4>>, <<\hab1c, \h5ed5>>,
      <<\hd807, \haa98>>, <<\h1283, \h5b01>>, <<\h2431, \h85be>>, <<\h550c, \h7dc3>>,
      <<\h72be, \h5d74>>, <<\h80de, \hb1fe>>, <<\h9bdc, \h06a7>>, <<\hc19b, \hf174>>,
      <<\he49b, \h69c1>>, <<\hefbe, \h4786>>, <<\h0fc1, \h9dc6>>, <<\h240c, \ha1cc>>,
      <<\h2de9, \h2c6f>>, <<\h4a74, \h84aa>>, <<\h5cb0, \ha9dc>>, <<\h76f9, \h88da>>,
      <<\h983e, \h5152>>, <<\ha831, \hc66d>>, <<\hb003, \h27c8>>, <<\hbf59, \h7fc7>>,
      <<\hc6e0, \h0bf3>>, <<\hd5a7, \h9147>>, <<\h06ca, \h6351>>, <<\h1429, \h2967>>,
      <<\h27b7, \h0a85>>, <<\h2e1b, \h2138>>, <<\h4d2c, \h6dfc>>, <<\h5338, \h0d13>>,
      <<\h650a, \h7354>>, <<\h766a, \h0abb>>, <<\h81c2, \hc92e>>, <<\h9272, \h2c85>>,
      <<\ha2bf, \he8a1>>, <<\ha81a, \h664b>>, <<\hc24b, \h8b70>>, <<\hc76c, \h51a3>>,
      <<\hd192, \he819>>, <<\hd699, \h0624>>, <<\hf40e, \h3585>>, <<\h106a, \ha070>>,
      <<\h19a4, \hc116>>, <<\h1e37, \h6c08>>, <<\h2748, \h774c>>, <<\h34b0, \hbcb5>>,
      <<\h391c, \h0cb3>>, <<\h4ed8, \haa4a>>, <<\h5b9c, \hca4f>>, <<\h682e, \h6ff3>>,
      <<\h748f, \h82ee>>, <<\h78a5, \h636f>>, <<\h84c8, \h7814>>, <<\h8cc7, \h0208>>,
      <<\h90be, \hfffa>>, <<\ha450, \h6ceb>>, <<\hbef9, \ha3f7>>, <<\hc671, \h78f2>>>>

BSig0(x) == Xor3(Rotr(x, 2), Rotr(x, 13), Rotr(x, 22))
BSig1(x) == Xor3(Rotr(x, 6), Rotr(x, 11), Rotr(x, 25))
SSig0(x) == Xor3(Rotr(x, 7), Rotr(x, 18), Shr(x, 3))

(* Fault: a rotation in place of the shift. *)
SSig1Rotates(x) == Xor3(Rotr(x, 17), Rotr(x, 19), Rotr(x, 10))

SSig1(x) == Xor3(Rotr(x, 17), Rotr(x, 19), Shr(x, 10))

Sha256Schedule(words) ==
    LET Grown(t, w) ==
            LET n == t + 16
            IN  Append(w, Add(Add(SSig1(w[n - 2]), w[n - 7]), Add(SSig0(w[n - 15]), w[n - 16])))
    IN  AfterSteps(48, words, Grown)

(* sha256_process_message_block(): v is a, b, c, d, e, f, g, h. *)
Sha256Process(H, block) ==
    LET W == Sha256Schedule(Words("be", block))
        Next64(t, v) ==
            LET tmp1 == Add(Add(v[8], BSig1(v[5])),
                            Add(Choice(v[5], v[6], v[7]), Add(Sha256K[t], W[t])))
                tmp2 == Add(BSig0(v[1]), Majority(v[1], v[2], v[3]))
            IN  [v EXCEPT ![1] = Add(tmp1, tmp2), ![2] = v[1], ![3] = v[2], ![4] = v[3],
                          ![5] = Add(v[4], tmp1), ![6] = v[5], ![7] = v[6], ![8] = v[7]]
    IN  Sums(H, AfterSteps(Len(W), H, Next64))

(***************************************************************************)
(* MD4.                                                                    *)
(***************************************************************************)

Md4Initial == SubSeq(Sha1Initial, 1, 4)

(* The word a step takes, the bits it rotates by and the constant it adds, *)
(* of the three rounds.                                                    *)
Md4Index(round, n) ==
    CASE round = 0 -> n
      [] round = 1 -> 4 * (n % 4) + (n \div 4)
      [] round = 2 -> 8 * Bit(n, 0) + 4 * Bit(n, 1) + 2 * Bit(n, 2) + Bit(n, 3)
Md4Shift == <<<<3, 7, 11, 19>>, <<3, 5, 9, 13>>, <<3, 9, 11, 15>>>>
Md4K == <<<<0, 0>>, <<\h5a82, \h7999>>, <<\h6ed9, \heba1>>>>

(* F, G and H *)
Md4F(round, v) ==
    CASE round = 0 -> Choice(v[2], v[3], v[4])
      [] round = 1 -> Majority(v[2], v[3], v[4])
      [] round = 2 -> Xor3(v[2], v[3], v[4])

(* md4_transform(): each step is FF, GG or HH of a, b, c and d, which take *)
(* each other's places from step to step.                                  *)
Md4Transform(H, block) ==
    LET word == Words("le", block)
        Step(t, v) ==
            LET round == (t - 1) \div 16
                n == (t - 1) % 16
                sum == Add(Add(v[1], Md4F(round, v)),
                           Add(word[Md4Index(round, n) + 1], Md4K[round + 1]))
            IN  <<v[4], Rotl(sum, Md4Shift[round + 1][(n % 4) + 1]), v[2], v[3]>>
    IN  Sums(H, AfterSteps(48, H, Step))

(***************************************************************************)
(* The hash functions.                                                     *)
(***************************************************************************)

(* A 1 bit, zeroes and the number of bits in eight bytes, to a whole       *)
(* number of blocks.                                                       *)
PaddedMessage(order, msg) ==
    LET zeroes == (119 - (Len(msg) % 64)) % 64
        bits == 8 * Len(msg)
        length[k \in 1 .. 8] == (IF k <= 4 THEN bits \div 256 ^ (k - 1) ELSE 0) % 256
    IN  msg \o <<128>> \o Zeroed(zeroes)
            \o [k \in 1 .. 8 |-> length[IF order = "be" THEN 9 - k ELSE k]]

(* bytes_from_uint32_be() and bytes_from_uint32_le() of a state. *)
Digest(order, H) ==
    LET bytes(w) == <<w[1] \div 256, w[1] % 256, w[2] \div 256, w[2] % 256>>
    IN  Joined([k \in DOMAIN H |->
            LET b == bytes(H[k]) IN IF order = "be" THEN b ELSE <<b[4], b[3], b[2], b[1]>>])

HashOf(order, initial, Process(_, _), msg) ==
    LET padded == PaddedMessage(order, msg)
        H[n \in 0 .. Len(padded) \div 64] ==
            IF n = 0 THEN initial
            ELSE LET before == H[n - 1] IN Process(before, SubSeq(padded, 64 * n - 63, 64 * n))
    IN  Digest(order, H[Len(padded) \div 64])

Sha1Hash(msg) == HashOf("be", Sha1Initial, Sha1Process, msg)
Sha256Hash(msg) == HashOf("be", Sha256Initial, Sha256Process, msg)
Md4Hash(msg) == HashOf("le", Md4Initial, Md4Transform, msg)
=============================================================================
