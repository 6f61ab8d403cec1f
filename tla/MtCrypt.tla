------------------------------ MODULE MtCrypt ------------------------------
(***************************************************************************)
(* mt19937_encrypt() and mt19937_decrypt() of src/src/mt19937.c: a text is *)
(* mixed with the bytes of the numbers of a generator of its own, whose    *)
(* steps are those of Mt19937.                                             *)
(***************************************************************************)
EXTENDS Mt19937, Sequences

CONSTANTS
    Parts,              \* 4, the bytes of a word
    Part(_, _),         \* byte k of a word, the least significant first
    Mix(_, _),          \* the exclusive or of two bytes
    Inputs              \* the texts

ASSUME CryptAssumption == Parts \in Nat \ {0}

VARIABLES
    key,        \* the seed of the generator
    input,      \* the text, NULL outside of mt19937_crypt()
    output,     \* what it has become so far, NULL when the call returned NULL
    drawn,      \* a number was drawn for the next byte
    direct      \* a caller uses a generator itself, and does not encrypt

cryptVars == <<key, input, output, drawn, direct>>

CryptInit ==
    /\ Init
    /\ key = NULL
    /\ input = NULL
    /\ output = <<>>
    /\ drawn = FALSE
    /\ direct \in BOOLEAN

(* A call without a text, or one for which there is no memory, for the     *)
(* output or for the generator, returns NULL before a number is drawn.     *)
BeginFails ==
    /\ ~direct
    /\ input = NULL
    /\ output' = NULL
    /\ UNCHANGED <<vars, key, input, drawn, direct>>

(* The text is one of the callers', or what it got from an earlier call.   *)
Begin ==
    /\ ~direct
    /\ input = NULL
    /\ Seed
    /\ key' = MT'[0]
    /\ input' \in (Inputs \cup {output}) \ {NULL}
    /\ output' = <<>>
    /\ drawn' = FALSE
    /\ UNCHANGED direct

Place == Len(output)

Draw ==
    /\ input # NULL
    /\ Place < Len(input)
    /\ Place % Parts = 0 /\ ~drawn
    /\ NextUint32
    /\ drawn' = TRUE
    /\ UNCHANGED <<key, input, output, direct>>

(* Fault: the most significant byte comes first. *)
CryptByteMsb ==
    /\ input # NULL
    /\ pc = "idle"
    /\ Place < Len(input)
    /\ Place % Parts = 0 => drawn
    /\ output' = Append(output, Mix(input[Place + 1], Part(out, Parts - 1 - (Place % Parts))))
    /\ drawn' = FALSE
    /\ UNCHANGED <<vars, key, input, direct>>

(* out is the keystream: nobody else draws from this generator. *)
CryptByte ==
    /\ input # NULL
    /\ pc = "idle"
    /\ Place < Len(input)
    /\ Place % Parts = 0 => drawn
    /\ output' = Append(output, Mix(input[Place + 1], Part(out, Place % Parts)))
    /\ drawn' = FALSE
    /\ UNCHANGED <<vars, key, input, direct>>

End ==
    /\ input # NULL
    /\ Place = Len(input)
    /\ Free
    /\ input' = NULL
    /\ UNCHANGED <<key, output, drawn, direct>>

(* A generator that is used directly, or the steps of the one in use here. *)
Generator ==
    /\ IF direct THEN Next ELSE SeedNext \/ TwistNext \/ TemperWord
    /\ UNCHANGED cryptVars

CryptNext == BeginFails \/ Begin \/ Draw \/ CryptByte \/ End \/ Generator

CryptSpec == CryptInit /\ [][CryptNext]_<<vars, cryptVars>>

(***************************************************************************)
(* Properties.                                                             *)
(***************************************************************************)

(* The numbers of the recurrence from a seed, computed without a state. *)
Number(seed, n) ==
    LET word[k \in 0 .. n + N] ==
            IF k = 0 THEN seed
            ELSE IF k < N THEN SeedWord(word[k - 1], k)
            ELSE Twist(word[k - N], word[k - N + 1], word[k - N + M])
    IN  Temper(word[n + N])

(* Byte j of what is returned is byte j of the text mixed with byte j of   *)
(* the numbers of the key, each number used for four bytes, over the twist *)
(* of the state and back: so decrypting with the same key inverts          *)
(* encrypting.                                                             *)
CryptIsTheSeries ==
    input # NULL =>
        \A j \in 1 .. Len(output) :
            output[j] = Mix(input[j], Part(Number(key, (j - 1) \div Parts), (j - 1) % Parts))
=============================================================================
