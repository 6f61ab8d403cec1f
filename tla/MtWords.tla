------------------------------ MODULE MtWords ------------------------------
(***************************************************************************)
(* What src/src/mt19937.c does inside a word, for words of any width: the  *)
(* parameters are its #defines.                                            *)
(***************************************************************************)
EXTENDS Integers, Bitwise

CONSTANTS
    w, r,           \* the width, and how many bits of a word the lower mask keeps
    a,              \* the coefficient of the twist
    u, d,           \* the shifts and masks of the tempering
    s, b,
    t, c,
    l,
    f               \* the multiplier of the seeding

Word == 0 .. 2 ^ w - 1

Shl(x, bits) == (x * 2 ^ bits) % 2 ^ w
Shr(x, bits) == x \div 2 ^ bits

SeedFrom(previous, i) == (f * (previous ^^ Shr(previous, w - 2)) + i) % 2 ^ w

(* The upper bits of one word and the lower bits of the next, shifted, and *)
(* mixed into the word m places on.                                        *)
TwistOf(upper, lower, far) ==
    LET x  == Shl(Shr(upper, r), r) + (lower % 2 ^ r)
        xA == IF x % 2 # 0 THEN Shr(x, 1) ^^ a ELSE Shr(x, 1)
    IN  far ^^ xA

TemperOf(word) ==
    LET y1 == word ^^ (Shr(word, u) & d)
        y2 == y1 ^^ (Shl(y1, s) & b)
        y3 == y2 ^^ (Shl(y2, t) & c)
    IN  y3 ^^ Shr(y3, l)
=============================================================================
