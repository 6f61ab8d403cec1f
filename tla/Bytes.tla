-------------------------------- MODULE Bytes --------------------------------
(***************************************************************************)
(* src/src/bytes.c and src/src/xor.c: a struct bytes is the sequence of    *)
(* its bytes, a C string the sequence of its characters (ASCII codes),     *)
(* whose terminating NUL is written only where one can be met before the   *)
(* end. The functions are given what they return when memory does not run  *)
(* out; MayFail adds the other outcome.                                    *)
(***************************************************************************)
EXTENDS Integers, Sequences

CONSTANTS
    SizeWrap,   \* 2^64, what a size_t wraps at
    NULL

Byte == 0 .. 255

ASSUME BytesAssumption == SizeWrap \in Nat /\ SizeWrap > 0 /\ NULL \notin Seq(Byte)

(* bytes_alloc(): what is made of the memory it returns, or NULL. *)
MayFail(result) == {NULL, result}

Repeated(len, byte) == [k \in 1 .. len |-> byte]
Zeroed(len) == Repeated(len, 0)
Randomized(len) == [1 .. len -> Byte]

Dup(src) == src

(* bytes_bcmp() and bytes_timingsafe_bcmp() *)
Bcmp(a, b) == IF a # NULL /\ b # NULL /\ a = b THEN 0 ELSE 1

(* bytes_joined(), of a sequence of parts. *)
Joined(parts) ==
    LET joined[k \in 0 .. Len(parts)] == IF k = 0 THEN <<>> ELSE joined[k - 1] \o parts[k]
    IN  IF \E k \in DOMAIN parts : parts[k] = NULL THEN NULL ELSE joined[Len(parts)]

(***************************************************************************)
(* Strings. What follows the first NUL is not part of one.                 *)
(***************************************************************************)

Nul == 0
Character == 1 .. 255

Strlen(s) ==
    CHOOSE n \in 0 .. Len(s) :
        /\ n < Len(s) => s[n + 1] = Nul
        /\ \A k \in 1 .. n : s[k] # Nul

FromStr(s) == IF s = NULL THEN NULL ELSE SubSeq(s, 1, Strlen(s))
ToStr(bytes) == IF bytes = NULL THEN NULL ELSE Append(bytes, Nul)

(***************************************************************************)
(* Parts of a buffer. The sum of an offset and a length wraps.             *)
(***************************************************************************)

(* No byte: what is read outside of a buffer is not known. *)
Outside == -1
At(src, k) == IF k \in DOMAIN src THEN src[k] ELSE Outside

(* Fault: offset and length are checked one by one. *)
ExceedsAlone(offset, len, src) == offset > Len(src) \/ len > Len(src)

Exceeds(offset, len, src) == (offset + len) % SizeWrap > Len(src)

Slice(src, offset, len) ==
    IF src = NULL \/ Exceeds(offset, len, src) THEN NULL
    ELSE [k \in 1 .. len |-> At(src, offset + k)]

(* bytes_slices(): the pieces of size bytes between jumps, the last one    *)
(* with what is left. Either loop computes the same lengths.               *)
Slices(src, offset, size, jump) ==
    LET slen(p)  == IF p + size >= Len(src) THEN Len(src) - p ELSE size
        from[p \in Nat] == IF p >= Len(src) THEN <<>>
                           ELSE SubSeq(src, p + 1, p + slen(p)) \o from[p + slen(p) + jump]
    IN  IF src = NULL THEN NULL
        ELSE IF Len(src) < offset \/ size = 0 \/ from[offset] = <<>> THEN NULL
        ELSE from[offset]

(* bytes_sput() and bytes_put(): what dest becomes, or NULL for -1. *)
Sput(dest, offset, src, soffset, slen) ==
    IF dest = NULL \/ src = NULL THEN NULL
    ELSE IF Exceeds(soffset, slen, src) \/ Exceeds(offset, slen, dest) THEN NULL
    ELSE [k \in DOMAIN dest |->
            IF k - offset \in 1 .. slen THEN At(src, soffset + k - offset) ELSE dest[k]]

Put(dest, offset, src) == IF src = NULL THEN NULL ELSE Sput(dest, offset, src, 0, Len(src))

(* bytes_find(): -1, 1 when there is none, or 0 with the first place. *)
Find(haystack, needle) ==
    IF needle = NULL \/ haystack = NULL THEN [ret |-> -1]
    ELSE IF Len(needle) = 0 THEN [ret |-> -1]
    ELSE LET matches == {i \in 0 .. Len(haystack) - 1 :
                            /\ haystack[i + 1] = needle[1]
                            /\ i + Len(needle) <= Len(haystack)
                            /\ SubSeq(haystack, i + 1, i + Len(needle)) = needle}
         IN  IF matches = {} THEN [ret |-> 1]
             ELSE [ret |-> 0, index |-> CHOOSE i \in matches : \A j \in matches : i <= j]

(***************************************************************************)
(* PKCS#7.                                                                 *)
(***************************************************************************)

(* Fault: a buffer that fills its blocks is not padded. *)
PaddingLenNone(len, k) == (k - (len % k)) % k

(* k and n are of eight bits. *)
PaddingLen(len, k) == k - (len % k)

Pkcs7Padded(src, k) ==
    IF src = NULL \/ k = 0 THEN NULL
    ELSE LET n == PaddingLen(Len(src), k) IN src \o [j \in 1 .. n |-> n]

(* bytes_pkcs7_padding(): -1, 1 when it is not padded, or 0 with the       *)
(* padding.                                                                *)
Pkcs7Padding(src) ==
    IF src = NULL THEN [ret |-> -1]
    ELSE IF Len(src) < 1 THEN [ret |-> -1]
    ELSE LET n == src[Len(src)] IN
         IF n = 0 \/ Len(src) < n THEN [ret |-> 1]
         ELSE IF \E i \in 1 .. n : src[Len(src) - (i - 1)] # n THEN [ret |-> 1]
         ELSE [ret |-> 0, padding |-> n]

Pkcs7Unpadded(src) ==
    LET found == Pkcs7Padding(src)
    IN  IF found.ret = 0 THEN Slice(src, 0, Len(src) - found.padding) ELSE NULL
=============================================================================
