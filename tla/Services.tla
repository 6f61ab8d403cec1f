------------------------------ MODULE Services ------------------------------
(***************************************************************************)
(* What is built of the block cipher modes and the cookies, one program at *)
(* a time: calls of the modes; a user of cookies; the two functions of     *)
(* src/src/break_ecb.c that make an encrypted profile for an e-mail        *)
(* address and read it back; and the two of src/src/break_cbc.c that       *)
(* encrypt what a user wrote between two comments and look at it again.    *)
(***************************************************************************)
EXTENDS Modes, Cookie

CONSTANTS
    Emails,         \* the addresses, or NULL
    Payloads,       \* what users write, or NULL
    ServiceKey,     \* the key of the services
    ServiceIv

(* What is given is a C string, and what becomes of it, at most three      *)
(* bytes of each and the service's own, fits in memory.                    *)
ASSUME ServicesAssumption ==
    /\ ServiceKey \in Seq(Byte) /\ Len(ServiceKey) = KeyLength
    /\ ServiceIv \in Seq(Byte) /\ Len(ServiceIv) = CipherBlockSize
    /\ \A s \in (Emails \cup Payloads) \ {NULL} :
        s \in Seq(Character) /\ (3 * Len(s)) + 128 < SizeWrap

VARIABLES
    program,        \* "modes", "cookies", "profiles" or "comments"
    step,           \* where a service is
    given,          \* the address or the payload that was given
    verdict,        \* what cbc_bitflipping_verifier() returned
    starved         \* memory ran out in a service

serviceVars == <<program, step, given, verdict, starved>>
vars == <<modesVars, cookieVars, serviceVars>>

(* The strings "email", "uid", "10", "role" and "user". *)
EmailKey == <<101, 109, 97, 105, 108>>
Uid      == <<117, 105, 100>>
UidValue == <<49, 48>>
Role     == <<114, 111, 108, 101>>
User     == <<117, 115, 101, 114>>

(***************************************************************************)
(* ecb_cut_and_paste_profile_for()                                         *)
(***************************************************************************)

Step(from, to) == step = from /\ step' = to /\ UNCHANGED <<program, given, verdict>>

AllocProfile ==
    /\ Step("start", "email")
    /\ CookieAlloc
    /\ starved' = (starved \/ cookie' = NULL)
    /\ UNCHANGED modesVars

(* A member that cannot be appended ends the function. *)
AppendProfile(from, key, value, to) ==
    /\ step = from
    /\ \/ /\ value # NULL
          /\ CookieAppend(key, value)
       \/ /\ value = NULL
          /\ Answer("append", <<key, value>>, -1)
          /\ UNCHANGED <<cookie, todo, text>>
    /\ step' = IF answer'.result = 0 THEN to ELSE "refused"
    /\ starved' = (starved \/ (value # NULL /\ answer'.result # 0))
    /\ UNCHANGED <<program, given, verdict, modesVars>>

AppendMembers ==
    \/ AppendProfile("email", EmailKey, given, "uid")
    \/ AppendProfile("uid", Uid, UidValue, "role")
    \/ AppendProfile("role", Role, User, "encode")

EncodeProfile ==
    /\ Step("encode", "encrypt")
    /\ CookieEncode
    /\ starved' = (starved \/ text'.broke)
    /\ UNCHANGED modesVars

ServiceCall(mode, dir, bytes) ==
    [mode |-> mode, dir |-> dir, impl |-> "aes_128", text |-> bytes, key |-> ServiceKey,
     iv   |-> IF mode = "cbc" THEN ServiceIv ELSE NULL]

EncryptProfile ==
    /\ Step("encrypt", "encrypting")
    /\ \E plaintext \in MayFail(FromStr(text.string)) :
        /\ Enter(ServiceCall("ecb", "encrypt", plaintext), NULL)
        /\ starved' = (starved \/ (text.string # NULL /\ plaintext = NULL))
    /\ UNCHANGED cookieVars

(* The cleanup. A caller is returned what ret holds, or NULL.              *)
FreeProfile ==
    /\ step = "refused" \/ (step = "encrypting" /\ pc = "done")
    /\ step' = "made"
    /\ starved' = (starved \/ broke)
    /\ cookie' = NULL
    /\ UNCHANGED <<program, given, verdict, todo, answer, text, modesVars>>

(***************************************************************************)
(* ecb_cut_and_paste_profile(), of what was made.                          *)
(***************************************************************************)

DecryptProfile ==
    /\ Step("made", "decrypting")
    /\ Enter(ServiceCall("ecb", "decrypt", ret), NULL)
    /\ UNCHANGED <<starved, cookieVars>>

DecodeProfile ==
    /\ Step("decrypting", "decoding")
    /\ pc = "done"
    /\ \E desc \in MayFail(ToStr(ret)) :
        /\ CookieDecode(desc)
        /\ starved' = (starved \/ broke \/ (ret # NULL /\ desc = NULL))
    /\ UNCHANGED modesVars

DecodeProfileGoesOn ==
    /\ step = "decoding"
    /\ DecodeToken \/ DecodeEnds
    /\ UNCHANGED <<modesVars, serviceVars>>

(***************************************************************************)
(* cbc_bitflipping_encrypt()                                               *)
(***************************************************************************)

Semicolon == 59

(* CBC_BITFLIPPING_PREFIX, CBC_BITFLIPPING_SUFFIX and ";admin=true;".      *)
Prefix ==
    <<99, 111, 109, 109, 101, 110, 116, 49, 61, 99, 111, 111, 107, 105,
      110, 103, 37, 50, 48, 77, 67, 115, 59, 117, 115, 101, 114, 100, 97,
      116, 97, 61>>
Suffix ==
    <<59, 99, 111, 109, 109, 101, 110, 116, 50, 61, 37, 50, 48, 108, 105,
      107, 101, 37, 50, 48, 97, 37, 50, 48, 112, 111, 117, 110, 100, 37,
      50, 48, 111, 102, 37, 50, 48, 98, 97, 99, 111, 110>>
Target ==
    <<59, 97, 100, 109, 105, 110, 61, 116, 114, 117, 101, 59>>

(* Fault: only what separates the fields is quoted. *)
QuotedSemicolons(payload) ==
    Joined([k \in DOMAIN payload |->
                IF payload[k] = Semicolon THEN <<37, 51, 66>> ELSE <<payload[k]>>])

(* cbc_bitflipping_escape(): "%3D" for '=' and "%3B" for ';'.              *)
Quoted(payload) ==
    Joined([k \in DOMAIN payload |->
                CASE payload[k] = Eq -> <<37, 51, 68>>
                  [] payload[k] = Semicolon -> <<37, 51, 66>>
                  [] OTHER -> <<payload[k]>>])

EncryptComments ==
    /\ Step("start", "encrypting")
    /\ IF given = NULL THEN Enter(ServiceCall("cbc", "encrypt", NULL), NULL) /\ UNCHANGED starved
       ELSE \E plaintext \in MayFail(Joined(<<Prefix, Quoted(given), Suffix>>)) :
            /\ Enter(ServiceCall("cbc", "encrypt", plaintext), NULL)
            /\ starved' = (starved \/ plaintext = NULL)
    /\ UNCHANGED cookieVars

(***************************************************************************)
(* cbc_bitflipping_verifier()                                              *)
(***************************************************************************)

DecryptComments ==
    /\ Step("encrypting", "decrypting")
    /\ pc = "done"
    /\ Enter(ServiceCall("cbc", "decrypt", ret), NULL)
    /\ starved' = (starved \/ broke)
    /\ UNCHANGED cookieVars

VerifyComments ==
    /\ step = "decrypting"
    /\ pc = "done"
    /\ \E target \in MayFail(Target) :
        /\ LET found == Find(ret, target).ret
           IN  verdict' = IF found = 0 THEN 1 ELSE IF found = 1 THEN 0 ELSE -1
        /\ starved' = (starved \/ broke \/ target = NULL)
    /\ step' = "verified"
    /\ UNCHANGED <<program, given, modesVars, cookieVars>>

Blockwise == (Blocks \/ Finish) /\ UNCHANGED <<cookieVars, serviceVars>>

Profiles ==
    \/ AllocProfile \/ AppendMembers \/ EncodeProfile \/ EncryptProfile \/ FreeProfile
    \/ DecryptProfile \/ DecodeProfile \/ DecodeProfileGoesOn

Comments == EncryptComments \/ DecryptComments \/ VerifyComments

Init ==
    /\ ModesInit
    /\ CookieInit
    /\ program \in {"modes", "cookies", "profiles", "comments"}
    /\ step = "start"
    /\ given \in CASE program = "profiles" -> Emails
                  [] program = "comments" -> Payloads
                  [] OTHER -> {NULL}
    /\ verdict = -1
    /\ starved = FALSE

Next ==
    \/ program = "modes" /\ ModesNext /\ UNCHANGED <<cookieVars, serviceVars>>
    \/ program = "cookies" /\ CookieNext /\ UNCHANGED <<modesVars, serviceVars>>
    \/ program = "profiles" /\ Profiles
    \/ program = "comments" /\ Comments
    \/ program \in {"profiles", "comments"} /\ Blockwise

Spec == Init /\ [][Next]_vars

(***************************************************************************)
(* Properties.                                                             *)
(***************************************************************************)

(* What the service reads back of a profile it made, through the encoding, *)
(* the padding, the cipher and the parser, are the three members it wrote, *)
(* whatever the e-mail address contains: its role is "user". When memory   *)
(* runs out somewhere on the way there is no profile, or there is all of   *)
(* it.                                                                     *)
ProfileReadsBack ==
    step = "decoding" /\ todo = NULL =>
        IF cookie = NULL
        THEN given = NULL \/ starved \/ (answer.op = "decode" /\ answer.of.broke)
        ELSE /\ Members(cookie) =
                    <<<<EmailKey, Unseparated(given)>>, <<Uid, UidValue>>, <<Role, User>>>>
             /\ CookieGet(cookie, Role) = <<Role, User>>

Occurrences(s, char) == {k \in DOMAIN s : s[k] = char}

(* What a user writes stays in its field: the text the verifier decrypts   *)
(* has three fields, whatever it contains, and the answer is 0; only when  *)
(* memory runs out, or nothing was written, it is -1.                      *)
CommentsKeepTheirFields ==
    step = "verified" =>
        /\ verdict \in {0, -1}
        /\ verdict = -1 => starved \/ given = NULL
        /\ ret # NULL =>
            /\ Cardinality(Occurrences(ret, Semicolon)) = 2
            /\ Cardinality(Occurrences(ret, Eq)) = 3
=============================================================================
