---------------------------- MODULE Conversions ----------------------------
(***************************************************************************)
(* The functions of bytes.c and xor.c that the services are built from, on *)
(* their own: what is written is read back, and what is cut out of a       *)
(* buffer, copied or searched for is exactly that. They are looked at once, *)
(* in the state where no mode has been called.                             *)
(***************************************************************************)
EXTENDS Services

CONSTANTS
    Samples,        \* what is converted, and the keys it is XORed with
    WordTexts,      \* what is read as words of 32 bits
    Units,          \* four characters, read as base64
    Buffers,        \* what parts are cut out of
    Sizes           \* the offsets, lengths and jumps of the parts

(* Offsets whose sum with a length wraps are not among the sizes. Words    *)
(* are not NULL either.                                                    *)
ASSUME ConversionsAssumption ==
    /\ Samples \subseteq Seq(Byte) /\ WordTexts \subseteq Seq(Byte) /\ Buffers \subseteq Seq(Byte)
    /\ NULL \notin Seq(Nat)
    /\ Units \subseteq [1 .. 4 -> Byte]
    /\ Sizes \subseteq Nat /\ \A offset, len \in Sizes : offset + len < SizeWrap

BeforeAnyCall == program = "modes" /\ pc = "idle"

(***************************************************************************)
(* Reading and writing.                                                    *)
(***************************************************************************)

ReadBack(s) ==
    /\ FromHex(ToHex(s)) = s
    /\ FromBase64(ToBase64(s)) = s
    /\ FromStr(ToStr(s)) = SubSeq(s, 1, Strlen(s))

(* XORed twice it is what it was, and it differs by the bits of the key.   *)
XoredBack(s) ==
    /\ \A key \in Samples : Len(key) > 0 => RepeatingKeyXor(RepeatingKeyXor(s, key), key) = s
    /\ HammingDistance(s, RepeatingKeyXor(s, <<7>>)) = 3 * Len(s)

WordsReadBack(order, s) ==
    IF Len(s) % 4 = 0 THEN FromUint32(order, ToUint32(order, s)) = s
    ELSE ToUint32(order, s) = NULL

(* A unit of base64 is accepted if and only if its padding is at its end   *)
(* and leaves a byte, and is the number its characters are in base 64,     *)
(* without the bits that belong to no byte.                                *)
UnitIsNumber(s) ==
    LET pads     == {k \in 1 .. 4 : s[k] = Pad}
        digit(k) == IF k \in pads THEN 0 ELSE B64Decode(s[k])
        number   == 64 * (64 * (64 * digit(1) + digit(2)) + digit(3)) + digit(4)
        padding  == IF pads = {} THEN 0 ELSE IF pads = {4} THEN 1 ELSE 2
        dropped  == number % (IF pads = {} THEN 1 ELSE IF pads = {4} THEN 256 ELSE 65536)
        bytes    == FromBase64(s)
        byte(k)  == IF k <= 3 - padding THEN bytes[k] ELSE 0
    IN  IF (\A k \in 1 .. 4 : digit(k) # NoDigit) /\ pads \in {{}, {4}, {3, 4}}
        THEN /\ Len(bytes) = 3 - padding
             /\ 65536 * byte(1) + 256 * byte(2) + byte(3) = number - dropped
        ELSE bytes = NULL

(* Hexadecimal, base64, words and strings are read back as they were       *)
(* written, of every length a unit may be short of.                        *)
EncodingsInvert ==
    BeforeAnyCall =>
        /\ \A s \in Samples : ReadBack(s) /\ XoredBack(s)
        /\ \A order \in {"le", "be"}, s \in WordTexts : WordsReadBack(order, s)
        /\ \A s \in Units : UnitIsNumber(s)

(***************************************************************************)
(* Parts of a buffer.                                                      *)
(***************************************************************************)

SliceIsThere(src, offset, len) ==
    Slice(src, offset, len) =
        IF offset + len > Len(src) THEN NULL ELSE SubSeq(src, offset + 1, offset + len)

(* Where the i-th byte of the slices is from. *)
PlaceOf(i, offset, size, jump) == offset + ((i - 1) \div size) * (size + jump) + ((i - 1) % size) + 1

SlicesAreThere(src, offset, size, jump) ==
    LET sliced   == Slices(src, offset, size, jump)
        place(i) == PlaceOf(i, offset, size, jump)
    IN  IF size = 0 \/ offset >= Len(src) THEN sliced = NULL
        ELSE /\ \A i \in 1 .. Len(sliced) : place(i) <= Len(src) /\ sliced[i] = src[place(i)]
             /\ place(Len(sliced) + 1) > Len(src)

CopyIsThere(dest, at, src, offset, len) ==
    Sput(dest, at, src, offset, len) =
        IF offset + len > Len(src) \/ at + len > Len(dest) THEN NULL
        ELSE [k \in 1 .. Len(dest) |->
                IF k \in at + 1 .. at + len THEN src[offset + k - at] ELSE dest[k]]

FirstIsFound(haystack, needle) ==
    LET found  == Find(haystack, needle)
        places == {p \in 0 .. Len(haystack) - Len(needle) :
                    SubSeq(haystack, p + 1, p + Len(needle)) = needle}
    IN  IF needle = <<>> THEN found.ret = -1
        ELSE IF places = {} THEN found.ret = 1
        ELSE found.ret = 0 /\ found.index \in places /\ \A p \in places : found.index <= p

(* The slices, the copies and the search of a buffer are the bytes they    *)
(* say, up to its very end and over every overlap of size and jump, or     *)
(* they are refused: none reads or writes outside.                         *)
SlicesAreExact ==
    BeforeAnyCall =>
        \A src \in Buffers :
            /\ \A needle \in Buffers : FirstIsFound(src, needle)
            /\ \A offset, len \in Sizes :
                /\ SliceIsThere(src, offset, len)
                /\ \A jump \in Sizes : SlicesAreThere(src, offset, len, jump)
                /\ \A dest \in Buffers, at \in Sizes : CopyIsThere(dest, at, src, offset, len)
=============================================================================
