----------------------------- MODULE MCServices -----------------------------
(***************************************************************************)
(* The calls of the modes, the strings of the cookies and the inputs of    *)
(* the services; and the functions they are built from, looked at on their *)
(* own in the state where no mode has been called.                         *)
(***************************************************************************)
EXTENDS Conversions

D == INSTANCE Digests

(***************************************************************************)
(* Constants.                                                              *)
(***************************************************************************)

Text(len) == [k \in 1 .. len |-> (37 * k + len) % 256]

KeyOf(impl) == IF impl = "nope" THEN <<7>> ELSE [k \in 1 .. 16 |-> 11 * k]
IvOf(mode) == IF mode = "ctr" THEN LittleEndian(258) ELSE [k \in 1 .. 16 |-> 200 + k]

CallOf(mode, dir, impl, s) ==
    [mode |-> mode, dir |-> dir, impl |-> impl, text |-> s, key |-> KeyOf(impl), iv |-> IvOf(mode)]

(* Texts around the block's length, then the malformed: paddings, ivs and  *)
(* keys.                                                                   *)
MCCalls ==
    {CallOf(mode, "encrypt", "nope", Text(len)) :
        mode \in {"ecb", "cbc", "ctr"}, len \in {0, 1, 15, 16, 31, 33}}
    \cup {CallOf(mode, "encrypt", "aes_128", Text(len)) :
            mode \in {"ecb", "cbc", "ctr"}, len \in {0, 16, 17}}
    \cup {CallOf(mode, "decrypt", "nope", Text(len)) : mode \in {"ecb", "cbc"}, len \in {0, 5, 16, 32}}
    \cup {[CallOf(mode, dir, "nope", s) EXCEPT !.iv = iv] :
            mode \in {"ecb", "cbc"}, dir \in {"decrypt", "encrypt"},
            s \in {Text(16), Text(15) \o <<1>>, Repeated(32, 20), NULL}, iv \in {NULL, <<1>>}}
    \cup {[CallOf(mode, "encrypt", impl, Text(16)) EXCEPT !.key = key] :
            mode \in {"ecb", "cbc", "ctr"}, impl \in {"aes_128", "nope"}, key \in {NULL, <<1, 2>>}}

(* "a" and "="; "&b" *)
MCKeys == {<<97>>, <<61>>}
MCValues == {<<38, 98>>}

(* "", "&a==&&=", "a", "a=" and "b" after a NUL, "a=b&a" *)
MCTexts ==
    {NULL, <<>>, <<38, 97, 61, 61, 38, 38, 61>>, <<97>>, <<97, 61, 0, 98>>, <<97, 61, 98, 38, 97>>}

(* "", "f@x" and "a&role=x@bc" *)
MCEmails == {NULL, <<>>, <<102, 64, 120>>, <<97, 38, 114, 111, 108, 101, 61, 120, 64, 98, 99>>}
MCPayloads == {NULL, <<>>, Target, <<120, 61, 121>>}

MCServiceKey == [k \in 1 .. 16 |-> 11 * k]
MCServiceIv == [k \in 1 .. 16 |-> 7 * k + 3]

(* Of every length a unit or a word may be short of, with the bytes at the *)
(* ends of the alphabets. TLC's integers have 32 bits: the words do not    *)
(* have the highest.                                                       *)
SeqsUpTo(S, n) == UNION {[1 .. len -> S] : len \in 0 .. n}

MCSamples == SeqsUpTo({0, 1, 61, 191, 255}, 3) \cup {Text(len) : len \in 4 .. 9}
MCWordTexts == {[k \in 1 .. len |-> Text(len)[k] % 128] : len \in 0 .. 9}
MCUnits == [1 .. 4 -> {42, 47, 61, 65, 81, 103}]        \* of "*", "/", "=", "A", "Q", "g"

MCBuffers ==
    {[k \in 1 .. len |-> k] : len \in 0 .. 6} \cup {<<1, 1>>, <<1, 1, 2>>, <<1, 2, 1, 1, 2>>, Repeated(3, 9)}
MCSizes == 0 .. 8

(***************************************************************************)
(* The functions.                                                          *)
(***************************************************************************)

Up(from, len) == [k \in 1 .. len |-> from + k - 1]

(* aes_128 is AES-128: its key schedule and its rounds give the block of   *)
(* FIPS 197, appendix C.1, that tests/test_aes.c expects, and decrypting   *)
(* any block that was encrypted gives it back. The null cipher only        *)
(* refuses.                                                                *)
CipherIsAes ==
    BeforeAnyCall =>
        LET expanded == ExpandKey(Up(0, 16))
            block    == [k \in 1 .. 16 |-> 17 * (k - 1)]
        IN  /\ AesEncrypt(block, expanded) =
                <<\h69, \hc4, \he0, \hd8, \h6a, \h7b, \h04, \h30, \hd8, \hcd, \hb7, \h80, \h70, \hb4, \hc5, \h5a>>
            /\ \A len \in 0 .. 3 :
                LET any == SubSeq(Text(16 + len), 1 + len, 16 + len)
                IN  AesDecrypt(AesEncrypt(any, expanded), expanded) = any
            /\ SubSeq(ExpandKey(<<\h2b, \h7e, \h15, \h16, \h28, \hae, \hd2, \ha6, \hab, \hf7, \h15, \h88,
                                  \h09, \hcf, \h4f, \h3c>>), 161, 176) =
                <<\hd0, \h14, \hf9, \ha8, \hc9, \hee, \h25, \h89, \he1, \h3f, \h0c, \hc8, \hb6, \h63, \h0c, \ha6>>
            /\ NopeCrypt(block, NopeExpandKey(<<7>>)) = block

(* The bytes of numbers of 16 bits. *)
Bytes16(halves) ==
    [k \in 1 .. 2 * Len(halves) |->
        IF k % 2 = 1 THEN halves[(k + 1) \div 2] \div 256 ELSE halves[k \div 2] % 256]

Abc == Up(97, 3)
(* "abcdbcdecdef...nopnopq": a block and no room for its length. *)
Overlapping == [k \in 1 .. 56 |-> 97 + ((k - 1) \div 4) + ((k - 1) % 4)]
(* "0123456701234567...": a whole number of blocks. *)
Octal(len) == [k \in 1 .. len |-> 48 + ((k - 1) % 8)]
(* "1234567890..." *)
Decimal(len) == [k \in 1 .. len |-> 48 + (k % 10)]

(* sha1.c, sha256.c and md4.c give the digests of RFC 3174, RFC 6234 and   *)
(* RFC 1320 that their tests expect, of one block, of two for the padding  *)
(* and of several: their schedules, constants, rotations and the order of  *)
(* their bytes.                                                            *)
DigestsAreRight ==
    BeforeAnyCall =>
        /\ D!Sha1Hash(Abc) = Bytes16(<<\hA999, \h3E36, \h4706, \h816A, \hBA3E, \h2571, \h7850, \hC26C, \h9CD0, \hD89D>>)
        /\ D!Sha1Hash(Overlapping) =
            Bytes16(<<\h8498, \h3E44, \h1C3B, \hD26E, \hBAAE, \h4AA1, \hF951, \h29E5, \hE546, \h70F1>>)
        /\ D!Sha1Hash(Octal(640)) =
            Bytes16(<<\hDEA3, \h56A2, \hCDDD, \h90C7, \hA7EC, \hEDC5, \hEBB5, \h6393, \h4F46, \h0452>>)
        /\ D!Sha256Hash(Abc) =
            Bytes16(<<\hBA78, \h16BF, \h8F01, \hCFEA, \h4141, \h40DE, \h5DAE, \h2223,
                      \hB003, \h61A3, \h9617, \h7A9C, \hB410, \hFF61, \hF200, \h15AD>>)
        /\ D!Sha256Hash(Overlapping) =
            Bytes16(<<\h248D, \h6A61, \hD206, \h38B8, \hE5C0, \h2693, \h0C3E, \h6039,
                      \hA33C, \hE459, \h64FF, \h2167, \hF6EC, \hEDD4, \h19DB, \h06C1>>)
        /\ D!Md4Hash(<<>>) = Bytes16(<<\h31D6, \hCFE0, \hD16A, \hE931, \hB73C, \h59D7, \hE0C0, \h89C0>>)
        /\ D!Md4Hash(Abc) = Bytes16(<<\hA448, \h017A, \hAF21, \hD852, \h5FC1, \h0AE8, \h7AA6, \h729D>>)
        /\ D!Md4Hash(Decimal(80)) =
            Bytes16(<<\hE33B, \h4DDC, \h9C38, \hF219, \h9C3E, \h7B16, \h4FCC, \h0536>>)
=============================================================================
