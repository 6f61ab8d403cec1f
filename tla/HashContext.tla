---------------------------- MODULE HashContext ----------------------------
(***************************************************************************)
(* sha1_hash_ctx(), sha256_hash_ctx() and md4_hash_ctx(): a message is     *)
(* processed block by block, the last ones with its padding, either from   *)
(* the initial state of the hash or from a state that a caller resumes.    *)
(* The compression functions are symbolic: a state is the sequence of the  *)
(* blocks that led to it.                                                  *)
(***************************************************************************)
EXTENDS Integers, Sequences

CONSTANTS
    BlockSize,      \* 64, the bytes of a block
    LengthSize,     \* 8, the bytes of the length in the last block
    ByteBits,       \* 8, the bits of a byte
    Data(_),        \* the byte at a place of what is hashed
    Lengths,        \* the lengths of the messages
    Resumed         \* the blocks that led to the states callers resume

Byte == 2 ^ ByteBits
Wrap == Byte ^ LengthSize           \* what a uint64_t and a size_t wrap at

ASSUME HashAssumption ==
    /\ LengthSize \in Nat \ {0}
    /\ BlockSize \in Nat
    /\ BlockSize > LengthSize
    /\ ByteBits \in Nat \ {0}
    /\ Byte \in Nat \ {0}
    /\ \A k \in 0 .. LengthSize : Byte ^ k \in Nat \ {0}
    /\ Byte ^ 0 = 1
    /\ \A k \in 0 .. LengthSize - 1 : Byte ^ (k + 1) = Byte * Byte ^ k
    /\ Lengths \subseteq Nat
    /\ Resumed \subseteq Nat

Offsets == 0 .. BlockSize - 1

VARIABLES
    pc,         \* the next step of the function, "idle" between calls
    algorithm,  \* which of the three functions
    state,      \* ctx->state
    len,        \* ctx->len
    msglen,     \* msg->len
    i,          \* the loop variable
    block,      \* the padded block
    ret,        \* -1 until the function succeeds
    resumed     \* history: the blocks ctx->state began with

vars == <<pc, algorithm, state, len, msglen, i, block, ret, resumed>>

Zeroed == [k \in Offsets |-> 0]

Init ==
    /\ pc = "idle"
    /\ algorithm = "none"
    /\ state = <<>>
    /\ len = 0
    /\ msglen = 0
    /\ i = 0
    /\ block = Zeroed
    /\ ret = -1
    /\ resumed = 0

(* The block that begins at a place of what is hashed. *)
DataBlock(place) == [k \in Offsets |-> Data(place + k)]

(* The hash functions start from nothing and a length of 0; a caller that   *)
(* resumes a state gives the length of all that led to it.                 *)
Call ==
    /\ pc = "idle"
    /\ algorithm' \in {"sha1", "sha256", "md4"}
    /\ \E blocks \in Resumed :
        /\ resumed' = blocks
        /\ state' = [j \in 1 .. blocks |-> DataBlock((j - 1) * BlockSize)]
        /\ len' = (blocks * BlockSize) % Wrap
    /\ msglen' \in Lengths
    /\ pc' = "check"
    /\ i' = 0
    /\ block' = Zeroed
    /\ ret' = -1

MaxLen == (Wrap - 1) \div ByteBits

(* sha1_hash_ctx() and sha256_hash_ctx() refuse a length that has no       *)
(* number of bits; md4_hash_ctx() takes it modulo 2^64.                    *)
TooLong == algorithm # "md4" /\ (len > MaxLen \/ msglen > MaxLen - len)

Refuse ==
    /\ pc = "check"
    /\ TooLong
    /\ pc' = "idle"
    /\ UNCHANGED <<algorithm, state, len, msglen, i, block, ret, resumed>>

Accept ==
    /\ pc = "check"
    /\ ~ TooLong
    /\ pc' = "blocks"
    /\ UNCHANGED <<algorithm, state, len, msglen, i, block, ret, resumed>>

nblock == msglen \div BlockSize
restlen == msglen % BlockSize

(* The message follows what led to the state. *)
MsgByte(k) == Data(resumed * BlockSize + k)

CompleteBlock ==
    /\ pc = "blocks"
    /\ i < nblock
    /\ state' = Append(state, [k \in Offsets |-> MsgByte(BlockSize * i + k)])
    /\ i' = i + 1
    /\ UNCHANGED <<pc, algorithm, len, msglen, block, ret, resumed>>

(* The length grows before the allocation of the padded block, which may   *)
(* fail.                                                                   *)
RestFails ==
    /\ pc = "blocks"
    /\ i = nblock
    /\ len' = (len + msglen) % Wrap
    /\ pc' = "idle"
    /\ UNCHANGED <<algorithm, state, msglen, i, block, ret, resumed>>

First == Byte \div 2                \* a 1 bit followed by zeroes

Rest ==
    /\ pc = "blocks"
    /\ i = nblock
    /\ len' = (len + msglen) % Wrap
    /\ block' = [k \in Offsets |-> IF k < restlen THEN MsgByte(BlockSize * nblock + k)
                                   ELSE IF k = restlen THEN First ELSE 0]
    /\ pc' = IF restlen >= BlockSize - LengthSize THEN "spill" ELSE "length"
    /\ UNCHANGED <<algorithm, state, msglen, i, ret, resumed>>

(* Fault: the padded block is not reset. *)
SpillKeepsBlock ==
    /\ pc = "spill"
    /\ state' = Append(state, block)
    /\ pc' = "length"
    /\ UNCHANGED <<algorithm, len, msglen, i, block, ret, resumed>>

(* The length does not fit: the block is processed without. *)
Spill ==
    /\ pc = "spill"
    /\ state' = Append(state, block)
    /\ block' = Zeroed
    /\ pc' = "length"
    /\ UNCHANGED <<algorithm, len, msglen, i, ret, resumed>>

(* Fault: the order of the other algorithms. *)
LengthByteAlike(bits, k) == (bits \div Byte ^ (LengthSize - 1 - k)) % Byte

(* Byte k of a length in bits: most significant first, or least for MD4. *)
LengthByte(bits, k) ==
    LET place == IF algorithm = "md4" THEN k ELSE LengthSize - 1 - k
    IN  (bits \div Byte ^ place) % Byte

Length ==
    /\ pc = "length"
    /\ LET bits == (ByteBits * len) % Wrap
           at   == BlockSize - LengthSize
       IN  state' = Append(state, [k \in Offsets |-> IF k < at THEN block[k]
                                                     ELSE LengthByte(bits, k - at)])
    /\ pc' = "idle"
    /\ ret' = 0
    /\ UNCHANGED <<algorithm, len, msglen, i, block, resumed>>

Next ==
    \/ Call \/ Refuse \/ Accept \/ CompleteBlock \/ RestFails \/ Rest \/ Spill \/ Length

Spec == Init /\ [][Next]_vars

(***************************************************************************)
(* Properties.                                                             *)
(***************************************************************************)

(* No step reads past the message or its padded block. *)
TypeOK ==
    /\ pc \in {"idle", "check", "blocks", "spill", "length"}
    /\ algorithm \in {"none", "sha1", "sha256", "md4"}
    /\ Len(state) \in Nat
    /\ len \in 0 .. Wrap - 1
    /\ msglen \in Nat
    /\ i \in Nat
    /\ pc = "blocks" => i \in 0 .. nblock
    /\ DOMAIN block = Offsets
    /\ ret \in {-1, 0}
    /\ resumed \in Nat

(* padding() of break_mac.c: what follows the first total bytes. *)
PaddingLength(total) ==
    LET left == BlockSize - (total % BlockSize)
    IN  IF left < 1 + LengthSize THEN left + BlockSize ELSE left

PaddedLength(total) == total + PaddingLength(total)

PaddedByte(total, place) ==
    IF place < total THEN Data(place)
    ELSE IF place = total THEN First
    ELSE IF place < PaddedLength(total) - LengthSize THEN 0
    ELSE LengthByte((ByteBits * total) % Wrap, place - (PaddedLength(total) - LengthSize))

Total == resumed * BlockSize + msglen

(* The blocks a call processes are those of the message with the padding   *)
(* that padding() in break_mac.c computes for it on its own, whatever      *)
(* remains for the last blocks and whatever the state was resumed from.    *)
HashesThePadded ==
    pc = "idle" /\ ret = 0 =>
        /\ Len(state) * BlockSize = PaddedLength(Total)
        /\ \A j \in 1 .. Len(state), k \in Offsets :
            state[j][k] = PaddedByte(Total, (j - 1) * BlockSize + k)

(* The length in bits, modulo 2^64, is the number the last bytes of the    *)
(* last block write, high bytes first for SHA and low bytes first for MD4: *)
(* messages of different lengths never are processed as the same blocks.  *)
LengthIsWritten ==
    pc = "idle" /\ ret = 0 =>
        LET place(k) == IF algorithm = "md4" THEN k ELSE LengthSize - 1 - k
            last == state[Len(state)]
            number[k \in 0 .. LengthSize] ==
                IF k = 0 THEN 0
                ELSE number[k - 1] + last[BlockSize - k] * Byte ^ place(LengthSize - k)
        IN  number[LengthSize] = (ByteBits * Total) % Wrap
=============================================================================
