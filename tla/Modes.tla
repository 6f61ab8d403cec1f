-------------------------------- MODULE Modes --------------------------------
(***************************************************************************)
(* src/src/ecb.c, src/src/cbc.c and src/src/ctr.c: a text is encrypted or  *)
(* decrypted block by block, under nope or aes_128. Memory may run out     *)
(* before the loop, for any block in it, and after it; what an operation   *)
(* on a block returns goes into err, and the loop goes on.                 *)
(***************************************************************************)
EXTENDS Aes

CONSTANT Calls      \* what the functions are called with

VARIABLES
    pc,         \* "idle", "loop", "done"
    call,       \* [mode, dir, impl, text, key, iv]; iv is the nonce of ctr
    expkey, input, out,
    prev,       \* what cbc adds to the next block: the iv, then prevblock
    turn,       \* the i of the loops
    err,
    ret,        \* what is returned
    broke,      \* memory ran out
    sent        \* the plaintext whose encryption is decrypted, or NULL

modesVars == <<pc, call, expkey, input, out, prev, turn, err, ret, broke, sent>>

(***************************************************************************)
(* The ciphers.                                                            *)
(***************************************************************************)

ExpandedKey(c) == IF c.impl = "aes_128" THEN ExpandKey(c.key) ELSE NopeExpandKey(c.key)
Enciphered(c, block, ek) ==
    IF c.impl = "aes_128" THEN AesEncrypt(block, ek) ELSE NopeCrypt(block, ek)
Deciphered(c, block, ek) ==
    IF c.impl = "aes_128" THEN AesDecrypt(block, ek) ELSE NopeCrypt(block, ek)

Pads(c) == c.mode # "ctr" /\ c.dir = "encrypt"
Unpads(c) == c.mode # "ctr" /\ c.dir = "decrypt"

IvFits(c) == c.iv # NULL /\ Len(c.iv) = CipherBlockSize

(* What is refused before anything is allocated. cbc_decrypt() does not    *)
(* look at its iv.                                                         *)
Refuses(c) ==
    \/ c.text = NULL
    \/ ExpandedKey(c) = NULL
    \/ c.mode = "cbc" /\ c.dir = "encrypt" /\ ~IvFits(c)
    \/ Unpads(c) /\ Len(c.text) % CipherBlockSize # 0

(* What the functions may be called with: strings of bytes or NULL, for    *)
(* ctr the eight bytes of its nonce; a text and its padding fit in memory. *)
IsCall(c) ==
    /\ c \in [mode : {"ecb", "cbc", "ctr"}, dir : {"encrypt", "decrypt"}, impl : {"aes_128", "nope"},
              text : Seq(Byte) \cup {NULL}, key : Seq(Byte) \cup {NULL}, iv : Seq(Byte) \cup {NULL}]
    /\ c.mode = "ctr" => c.iv # NULL /\ Len(c.iv) = 8
    /\ c.text # NULL => Len(c.text) + (IF Pads(c) THEN CipherBlockSize ELSE 0) < SizeWrap

ASSUME ModesAssumption ==
    /\ CipherBlockSize < SizeWrap
    /\ \A c \in Calls : IsCall(c)

NoCall == [mode |-> "none", dir |-> "none", impl |-> "nope", text |-> NULL, key |-> NULL, iv |-> NULL]

ModesInit ==
    /\ pc = "idle"
    /\ call = NoCall
    /\ expkey = NULL /\ input = NULL /\ out = NULL /\ prev = NULL
    /\ turn = 0 /\ err = FALSE
    /\ ret = NULL /\ broke = FALSE /\ sent = NULL

Returns(result, starved) ==
    /\ pc' = "done"
    /\ ret' = result
    /\ broke' = starved
    /\ expkey' = NULL /\ input' = NULL /\ out' = NULL /\ prev' = NULL
    /\ turn' = 0 /\ err' = FALSE

(* A call, up to its loop. *)
Enter(c, plaintext) ==
    /\ call' = c
    /\ sent' = plaintext
    /\ IF Refuses(c) THEN Returns(NULL, FALSE)
       ELSE \/ Returns(NULL, TRUE)
            \/ /\ pc' = "loop"
               /\ expkey' = ExpandedKey(c)
               /\ input' = IF Pads(c) THEN Pkcs7Padded(c.text, CipherBlockSize) ELSE c.text
               /\ out' = Zeroed(Len(input'))
               /\ prev' = c.iv
               /\ turn' = 0 /\ err' = FALSE
               /\ ret' = NULL /\ broke' = FALSE

Begin == pc = "idle" /\ \E c \in Calls : Enter(c, NULL)

(***************************************************************************)
(* The loops. An operation that fails leaves its buffer as it is.          *)
(***************************************************************************)

Nblock == Len(input) \div CipherBlockSize
Offset == turn * CipherBlockSize

InLoop(mode, dir) == pc = "loop" /\ call.mode = mode /\ call.dir = dir /\ turn < Nblock

After(old, new) == IF new = NULL THEN old ELSE new

(* What ends a turn: the results of its operations, and the last of them,  *)
(* what bytes_put() made of out.                                           *)
Turn(results, put) ==
    /\ out' = After(out, put)
    /\ err' = (err \/ put = NULL \/ \E r \in DOMAIN results : results[r] = NULL)
    /\ turn' = turn + 1
    /\ UNCHANGED <<pc, call, expkey, input, ret, sent>>

BlockOfInput == Slice(input, Offset, CipherBlockSize)

(* ecb: both directions. *)
EcbBlock(dir, Ciphered(_, _, _)) ==
    /\ InLoop("ecb", dir)
    /\ \E block \in MayFail(BlockOfInput) :
        LET crypted == Ciphered(call, block, expkey)
        IN  /\ Turn(<<crypted>>, Put(out, Offset, After(block, crypted)))
            /\ broke' = (broke \/ block = NULL)
    /\ UNCHANGED prev

EcbEncryptBlock == EcbBlock("encrypt", Enciphered)
EcbDecryptBlock == EcbBlock("decrypt", Deciphered)

(* Fault: only the last operation's error counts. *)
CbcEncryptBlockForgets ==
    /\ InLoop("cbc", "encrypt")
    /\ \E block \in MayFail(BlockOfInput) :
        LET added   == After(block, Xor(block, prev))
            crypted == After(added, Enciphered(call, added, expkey))
            put     == Put(out, Offset, crypted)
        IN  /\ out' = After(out, put)
            /\ err' = (put = NULL)
            /\ turn' = turn + 1
            /\ prev' = crypted
            /\ broke' = (broke \/ block = NULL)
            /\ UNCHANGED <<pc, call, expkey, input, ret, sent>>

CbcEncryptBlock ==
    /\ InLoop("cbc", "encrypt")
    /\ \E block \in MayFail(BlockOfInput) :
        LET xored    == Xor(block, prev)
            added    == After(block, xored)
            crypted  == Enciphered(call, added, expkey)
            computed == After(added, crypted)
        IN  /\ Turn(<<xored, crypted>>, Put(out, Offset, computed))
            /\ prev' = computed
            /\ broke' = (broke \/ block = NULL)

(* Fault: the block that is chained is the plaintext's. *)
CbcDecryptBlockChainsPlain ==
    /\ InLoop("cbc", "decrypt")
    /\ \E ctblock \in MayFail(BlockOfInput) : \E ptblock \in MayFail(Dup(ctblock)) :
        LET crypted == Deciphered(call, ptblock, expkey)
            xored   == Xor(After(ptblock, crypted), prev)
            plain   == After(After(ptblock, crypted), xored)
        IN  /\ Turn(<<crypted, xored>>, Put(out, Offset, plain))
            /\ prev' = plain
            /\ broke' = (broke \/ ptblock = NULL)

CbcDecryptBlock ==
    /\ InLoop("cbc", "decrypt")
    /\ \E ctblock \in MayFail(BlockOfInput) : \E ptblock \in MayFail(Dup(ctblock)) :
        LET crypted == Deciphered(call, ptblock, expkey)
            xored   == Xor(After(ptblock, crypted), prev)
            plain   == After(After(ptblock, crypted), xored)
        IN  /\ Turn(<<crypted, xored>>, Put(out, Offset, plain))
            /\ prev' = ctblock
            /\ broke' = (broke \/ ptblock = NULL)

(* uint64_to_bytes_le() *)
LittleEndian(x) ==
    LET shifted[k \in 1 .. 8] == IF k = 1 THEN x ELSE shifted[k - 1] \div 256
    IN  [k \in 1 .. 8 |-> shifted[k] % 256]

(* Both directions of ctr, whose nonce is the eight bytes of a number. The *)
(* last turn is for what does not fill a block, be it nothing.             *)
CtrBlock ==
    /\ pc = "loop"
    /\ call.mode = "ctr"
    /\ turn <= Nblock
    /\ LET inlen  == IF turn = Nblock THEN Len(input) % CipherBlockSize ELSE CipherBlockSize
           stream == Enciphered(call, prev \o LittleEndian(turn), expkey)
       IN  \E block \in MayFail(Slice(input, Offset, inlen)) :
           \E mask \in IF CipherBlockSize > inlen THEN MayFail(Slice(stream, 0, inlen)) ELSE {stream} :
            LET xored == Xor(block, mask)
            IN  /\ Turn(<<stream, xored>>, Put(out, Offset, After(block, xored)))
                /\ broke' = (broke \/ block = NULL \/ mask = NULL)
    /\ UNCHANGED prev

(***************************************************************************)
(* The end.                                                                *)
(***************************************************************************)

LoopEnds == pc = "loop" /\ turn = (IF call.mode = "ctr" THEN Nblock + 1 ELSE Nblock)

Finish ==
    /\ LoopEnds
    /\ \/ err /\ Returns(NULL, broke)
       \/ ~err /\ ~Unpads(call) /\ Returns(out, broke)
       \/ ~err /\ Unpads(call) /\ Returns(Pkcs7Unpadded(out), broke)
       \/ ~err /\ Unpads(call) /\ Returns(NULL, TRUE)
    /\ UNCHANGED <<call, sent>>

(* The caller decrypts what was encrypted for it, or is done. *)
Reply ==
    /\ pc = "done"
    /\ call.dir = "encrypt"
    /\ ret # NULL
    /\ Enter([call EXCEPT !.dir = "decrypt", !.text = ret], call.text)

Leave ==
    /\ pc = "done"
    /\ pc' = "idle"
    /\ call' = NoCall
    /\ ret' = NULL /\ broke' = FALSE /\ sent' = NULL
    /\ UNCHANGED <<expkey, input, out, prev, turn, err>>

Blocks == EcbEncryptBlock \/ EcbDecryptBlock \/ CbcEncryptBlock \/ CbcDecryptBlock \/ CtrBlock

ModesNext == Begin \/ Blocks \/ Finish \/ Reply \/ Leave

(***************************************************************************)
(* Properties.                                                             *)
(***************************************************************************)

(* The blocks of a text, from 1; the last one may be short. *)
BlockOf(s, j) ==
    SubSeq(s, CipherBlockSize * (j - 1) + 1,
           IF CipherBlockSize * j > Len(s) THEN Len(s) ELSE CipherBlockSize * j)

(* What the modes are by their definition, block by block. *)
Plain(c) ==
    LET before(j) == IF c.mode = "ecb" THEN Zeroed(CipherBlockSize)
                     ELSE IF j = 1 THEN c.iv ELSE BlockOf(c.text, j - 1)
    IN  Joined([j \in 1 .. Len(c.text) \div CipherBlockSize |->
                    Xor(Deciphered(c, BlockOf(c.text, j), ExpandedKey(c)), before(j))])

Streamed(c) ==
    Joined([j \in 1 .. (Len(c.text) + CipherBlockSize - 1) \div CipherBlockSize |->
        LET stream == Enciphered(c, c.iv \o LittleEndian(j - 1), ExpandedKey(c))
        IN  Xor(BlockOf(c.text, j), SubSeq(stream, 1, Len(BlockOf(c.text, j))))])

IsPaddingOf(padded, s) == \E n \in 1 .. 255 : padded = s \o Repeated(n, n)

(* Whichever of the allocations of a call fail, what it returns is whole   *)
(* or it is NULL: an error in one block is not forgotten by the next, the  *)
(* blocks are chained from the iv on, and nothing unpadded is returned.    *)
(* Without a failure, NULL means arguments that do not fit or a padding    *)
(* that is malformed, also where the iv is not checked up front.           *)
ModesWholeOrNull ==
    pc = "done" =>
        IF ret # NULL THEN
            /\ ~broke
            /\ CASE call.mode = "ctr" -> ret = Streamed(call)
                 [] Unpads(call) -> IsPaddingOf(Plain(call), ret)
                 [] Pads(call) ->
                        IsPaddingOf(Plain([call EXCEPT !.text = ret]), call.text)
        ELSE
            \/ broke \/ Refuses(call)
            \/ call.mode = "cbc" /\ ~IvFits(call)
            \/ Unpads(call) /\ ~\E n \in 0 .. Len(call.text) - 1 :
                                    IsPaddingOf(Plain(call), SubSeq(Plain(call), 1, n))

(* Decrypting what was encrypted gives the text back, of every length and  *)
(* in every mode.                                                          *)
ModesRoundTrip == pc = "done" /\ sent # NULL /\ ~broke => ret = sent

ModesSpec == ModesInit /\ [][ModesNext]_modesVars
=============================================================================
