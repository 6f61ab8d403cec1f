----------------------------- MODULE Encodings -----------------------------
(***************************************************************************)
(* The conversions of src/src/bytes.c: hexadecimal and base64 (RFC 4648),  *)
(* arrays of 32-bit words; and what is done bit by bit in bytes.c and      *)
(* src/src/xor.c.                                                          *)
(***************************************************************************)
EXTENDS Bytes, FiniteSets

Shift(x, bits) == x \div 2 ^ bits       \* x >> bits
Low(x, bits) == x % 2 ^ bits            \* x & (2^bits - 1)
Bit(x, i) == (x \div 2 ^ i) % 2

(* The exclusive or of any two bytes, from that of fewer bits. *)
XorTable ==
    LET table[bits \in 0 .. 8] ==
            IF bits = 0 THEN [x \in {0} |-> [y \in {0} |-> 0]]
            ELSE LET half == table[bits - 1]
                 IN  [x \in 0 .. 2 ^ bits - 1 |-> [y \in 0 .. 2 ^ bits - 1 |->
                        2 * half[x \div 2][y \div 2] + ((x + y) % 2)]]
    IN  table[8]

(* bytes_xor(): what buf becomes, or NULL for -1. *)
Xor(buf, mask) ==
    IF buf = NULL \/ mask = NULL THEN NULL
    ELSE IF Len(buf) # Len(mask) THEN NULL
    ELSE [k \in DOMAIN buf |-> XorTable[buf[k]][mask[k]]]

RepeatingKeyXor(buf, key) ==
    IF buf = NULL \/ key = NULL THEN NULL
    ELSE IF Len(key) = 0 THEN NULL
    ELSE [k \in DOMAIN buf |-> XorTable[buf[k]][key[((k - 1) % Len(key)) + 1]]]

Popcnt(x) == Cardinality({i \in 0 .. 7 : Bit(x, i) = 1})

HammingDistance(a, b) ==
    LET sum[k \in 0 .. Len(a)] ==
            IF k = 0 THEN 0 ELSE sum[k - 1] + Popcnt(XorTable[a[k]][b[k]])
    IN  IF a = NULL \/ b = NULL THEN -1 ELSE IF Len(a) # Len(b) THEN -1 ELSE sum[Len(a)]

(***************************************************************************)
(* Words, in either order of their bytes.                                  *)
(***************************************************************************)

Place(order, k) == IF order = "le" THEN k ELSE 3 - k

FromUint32(order, words) ==
    IF words = NULL THEN NULL
    ELSE [j \in 1 .. 4 * Len(words) |->
            Low(Shift(words[((j - 1) \div 4) + 1], 8 * Place(order, (j - 1) % 4)), 8)]

ToUint32(order, bytes) ==
    IF bytes = NULL THEN NULL
    ELSE IF Len(bytes) % 4 # 0 THEN NULL
    ELSE [i \in 1 .. Len(bytes) \div 4 |->
            LET part(k) == bytes[4 * (i - 1) + k + 1] * 2 ^ (8 * Place(order, k))
            IN  part(0) + part(1) + part(2) + part(3)]

(***************************************************************************)
(* Hexadecimal.                                                            *)
(***************************************************************************)

Digit == 48 .. 57       \* '0' .. '9'
Upper == 65 .. 90       \* 'A' .. 'Z'
Lower == 97 .. 122      \* 'a' .. 'z'

B16Table == [n \in 0 .. 15 |-> IF n < 10 THEN 48 + n ELSE 65 + n - 10]

NoDigit == 255

HexValue(c) ==
    IF c \in Digit THEN c - 48
    ELSE IF c \in Lower /\ c <= 102 THEN 10 + c - 97
    ELSE IF c \in Upper /\ c <= 70 THEN 10 + c - 65
    ELSE NoDigit

FromHex(s) ==
    IF s = NULL THEN NULL
    ELSE IF Len(s) % 2 # 0 \/ \E k \in DOMAIN s : HexValue(s[k]) = NoDigit THEN NULL
    ELSE [i \in 1 .. Len(s) \div 2 |-> 16 * HexValue(s[2 * i - 1]) + HexValue(s[2 * i])]

ToHex(bytes) ==
    IF bytes = NULL THEN NULL
    ELSE [j \in 1 .. 2 * Len(bytes) |->
            LET byte == bytes[(j + 1) \div 2]
            IN  B16Table[IF j % 2 = 1 THEN Shift(byte, 4) ELSE Low(byte, 4)]]

(***************************************************************************)
(* Base64: a unit is three bytes in four characters.                       *)
(***************************************************************************)

Pad == 61               \* '='

B64Table ==
    [n \in 0 .. 63 |->
        IF n < 26 THEN 65 + n ELSE IF n < 52 THEN 97 + n - 26
        ELSE IF n < 62 THEN 48 + n - 52 ELSE IF n = 62 THEN 43 ELSE 47]

B64Decode(c) ==
    IF c \in Upper THEN c - 65
    ELSE IF c \in Lower THEN 26 + c - 97
    ELSE IF c \in Digit THEN 52 + c - 48
    ELSE IF c = 43 THEN 62 ELSE IF c = 47 THEN 63 ELSE NoDigit

(* Fault: the bits of the second byte that end a short unit are lost. *)
EncodedUnitDropsBits(b0, b1, b2) ==
    <<Shift(b0, 2), 16 * Low(b0, 2) + Shift(b1, 4), 4 * (Low(b1, 4) % 4) + Shift(b2, 6), Low(b2, 6)>>

EncodedUnit(b0, b1, b2) ==
    <<Shift(b0, 2), 16 * Low(b0, 2) + Shift(b1, 4), 4 * Low(b1, 4) + Shift(b2, 6), Low(b2, 6)>>

(* The bytes that lack in the last unit are 0, and the characters made of  *)
(* nothing else are padding.                                               *)
ToBase64(bytes) ==
    IF bytes = NULL THEN NULL
    ELSE LET nunit   == (Len(bytes) + 2) \div 3
             byte(k) == IF k <= Len(bytes) THEN bytes[k] ELSE 0
             unit(i) == EncodedUnit(byte(3 * i + 1), byte(3 * i + 2), byte(3 * i + 3))
             lacking == 3 * nunit - Len(bytes)
         IN  [j \in 1 .. 4 * nunit |->
                IF j > 4 * nunit - lacking THEN Pad
                ELSE B64Table[unit((j - 1) \div 4)[((j - 1) % 4) + 1]]]

DecodedUnit(c0, c1, c2, c3) ==
    <<4 * c0 + Shift(c1, 4), 16 * Low(c1, 4) + Shift(c2, 2), 64 * Low(c2, 2) + c3>>

(* Up to two characters of padding end the last unit; anywhere else they   *)
(* are refused, as every character outside the alphabet is. Bits of the    *)
(* last unit that belong to no byte are dropped.                           *)
FromBase64(s) ==
    IF s = NULL THEN NULL
    ELSE IF Len(s) % 4 # 0 THEN NULL
    ELSE LET padding == IF Len(s) = 0 THEN 0
                        ELSE IF s[Len(s)] # Pad THEN 0
                        ELSE IF s[Len(s) - 1] = Pad THEN 2 ELSE 1
             value(j) == IF j > Len(s) - padding THEN 0 ELSE B64Decode(s[j])
             unit(i) == DecodedUnit(value(4 * i + 1), value(4 * i + 2),
                                    value(4 * i + 3), value(4 * i + 4))
         IN  IF \E j \in DOMAIN s : value(j) = NoDigit THEN NULL
             ELSE [k \in 1 .. 3 * (Len(s) \div 4) - padding |->
                    unit((k - 1) \div 3)[((k - 1) % 3) + 1]]
=============================================================================
