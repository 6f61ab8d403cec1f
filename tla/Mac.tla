-------------------------------- MODULE Mac --------------------------------
(***************************************************************************)
(* src/src/mac.c: HMAC and the secret-prefix MACs over a hash function     *)
(* that is symbolic, when any of the calls they make may fail.             *)
(***************************************************************************)
EXTENDS Integers, Sequences

CONSTANTS
    MacBlock,   \* B, the bytes of a block of the hash function
    MacLength,  \* L, the bytes of a hash
    MacKeys,    \* the keys, of any length
    MacTexts,   \* the messages
    NULL

(* A struct bytes: the sequence of its bytes. *)
IsBytes(s) == s \in Seq({s[k] : k \in DOMAIN s})

ASSUME MacAssumption ==
    /\ MacBlock \in Nat
    /\ MacLength \in 1 .. MacBlock
    /\ \A key \in MacKeys : IsBytes(key)
    /\ \A text \in MacTexts : IsBytes(text)

(* The calls of hmac() that allocate, in their order. *)
Calls == {"tk", "k_ipad", "k_opad", "in", "hin", "out", "mac"}

(* Byte k of a hash, and a byte after ^=, are told from every other byte.  *)
HashOf(msg) == [k \in 1 .. MacLength |-> [hash |-> msg, byte |-> k]]
Xored(bytes, pad) == [k \in DOMAIN bytes |-> [byte |-> bytes[k], pad |-> pad]]
Zero == [zero |-> TRUE]
Zeros(n) == [k \in 1 .. n |-> Zero]

(* bytes_joined() and a hash function give NULL for NULL. *)
Joined(fails, first, second) ==
    IF fails \/ first = NULL \/ second = NULL THEN NULL ELSE first \o second

Hash(fails, msg) == IF fails \/ msg = NULL THEN NULL ELSE HashOf(msg)

(* Fault: a key of one block is hashed, too. *)
ShortKeyBelowBlock(key) == IF Len(key) >= MacBlock THEN HashOf(key) ELSE key

(* The key a block is made of. *)
ShortKey(key) == IF Len(key) > MacBlock THEN HashOf(key) ELSE key

(* hmac() with the calls in failing returning NULL. A key that does not    *)
(* fit its block is refused by bytes_put().                                *)
Hmac(key, msg, failing) ==
    LET tk     == ShortKey(key)
        padded == tk \o Zeros(MacBlock - Len(tk))
        in     == Joined("in" \in failing, Xored(padded, "ipad"), msg)
        hin    == Hash("hin" \in failing, in)
        out    == Joined("out" \in failing, Xored(padded, "opad"), hin)
    IN  IF failing \intersect {"tk", "k_ipad", "k_opad"} # {} \/ Len(tk) > MacBlock THEN NULL
        ELSE Hash("mac" \in failing, out)

KeyedPrefix(key, msg, failing) ==
    Hash("mac" \in failing, Joined("in" \in failing, key, msg))

KeyedPrefixVerify(key, msg, mac, failing) ==
    LET computed == KeyedPrefix(key, msg, failing)
    IN  IF computed = NULL \/ mac = NULL THEN -1 ELSE IF computed = mac THEN 0 ELSE 1

(* RFC 2104, section 2, for a hash function that never fails. *)
HmacDefined(key, msg) ==
    LET K(n) == IF Len(key) <= MacBlock
                THEN IF n <= Len(key) THEN key[n] ELSE Zero
                ELSE IF n <= MacLength THEN [hash |-> key, byte |-> n] ELSE Zero
        pad(kind) == [n \in 1 .. MacBlock |-> [byte |-> K(n), pad |-> kind]]
    IN  HashOf(pad("opad") \o HashOf(pad("ipad") \o msg))

(* hmac() and the secret-prefix MAC, whichever calls fail. *)
HmacIsWholeOrNull(key, msg, failing) ==
    Hmac(key, msg, failing) = IF failing = {} THEN HmacDefined(key, msg) ELSE NULL

OnlyItsOwnVerifies(key, msg, failing) ==
    \A other \in SUBSET Calls, text \in MacTexts :
        KeyedPrefixVerify(key, msg, KeyedPrefix(key, text, other), failing) = 0 => text = msg
=============================================================================
