--------------------------------- MODULE Dh ---------------------------------
(***************************************************************************)
(* The Diffie-Hellman clients of src/src/dh.c: several struct dh, each of  *)
(* which may call exchange() and challenge() with any other, again and     *)
(* again. A call runs to its end before the next one; it may run out of    *)
(* memory anywhere in the middle, when bob has his key already.            *)
(*                                                                         *)
(* The private numbers of an exchange are drawn anew, so the secret that   *)
(* both sides compute, g**(a * b) % p, is represented by the number of the *)
(* exchange and its two sides. Different secrets hash to different keys.   *)
(* That is so of the clients of dh_new() with a good p and g, which are    *)
(* the ones modelled; break_dh.c has others.                               *)
(***************************************************************************)
EXTENDS Naturals

CONSTANTS
    Parties,
    MaxExchanges,   \* bound: how many exchange() calls get past the negotiation
    NULL

ASSUME DhAssumption == MaxExchanges \in Nat

Secret == [self : Parties, bob : Parties, n : 1 .. MaxExchanges]

ASSUME NullAssumption == NULL \notin Secret /\ NULL \notin [secret : Secret]

VARIABLES
    key,        \* the key member of each party
    exchanges,  \* how many secrets were agreed on or attempted
    last,       \* the last call: what was called, by and with whom, what it returned
    agreed      \* history: the exchanges that returned 0

vars == <<key, exchanges, last, agreed>>

Call(op, self, bob, ret) == [op |-> op, self |-> self, bob |-> bob, ret |-> ret]

(* dh_secret_to_aes128_key(): NULL without a secret or memory. *)
SecretToKey(s) == IF s = NULL THEN {NULL} ELSE {NULL, [secret |-> s]}

(* What a party that can compute s may get for its key: memory may run out *)
(* before s is computed, too.                                              *)
Derived(s) == SecretToKey(NULL) \union SecretToKey(s)

(* receive(): bob's key and the B he answers with. Without A or B his old  *)
(* key stays; without a secret or a new key he has none, and B is dropped. *)
Receive(bob, s) ==
    {[key |-> key[bob], B |-> NULL]}
    \union {[key |-> k, B |-> IF k = NULL THEN NULL ELSE s] :
                k \in Derived(s)}

Init ==
    /\ key = [p \in Parties |-> NULL]
    /\ exchanges = 0
    /\ last \in {Call("new", p, p, "0") : p \in Parties}
    /\ agreed = {}

(* A NULL argument, or negociate() fails: nothing has changed. *)
ExchangeFailsEarly(self, bob) ==
    /\ last' = Call("exchange", self, bob, "-1")
    /\ UNCHANGED <<key, exchanges, agreed>>

(* Fault: a failure in the cleanup, when both have the new key. *)
ExchangeFailsLate(self, bob) ==
    /\ exchanges < MaxExchanges
    /\ exchanges' = exchanges + 1
    /\ LET s == [self |-> self, bob |-> bob, n |-> exchanges'] IN
       \E r \in Receive(bob, s) :
       \E k \in IF r.B = NULL THEN SecretToKey(NULL) ELSE Derived(s), ok \in BOOLEAN :
        /\ key' = [[key EXCEPT ![bob] = r.key] EXCEPT ![self] = k]
        /\ last' = Call("exchange", self, bob, IF k = NULL \/ ~ ok THEN "-1" ELSE "0")
        /\ agreed' = IF k = NULL \/ ~ ok THEN agreed ELSE agreed \union {exchanges'}

(* Fault: without B, or memory, the initiator keeps the key it had. *)
ExchangeKeepsKey(self, bob) ==
    /\ exchanges < MaxExchanges
    /\ exchanges' = exchanges + 1
    /\ LET s == [self |-> self, bob |-> bob, n |-> exchanges'] IN
       \E r \in Receive(bob, s) :
       \E k \in IF r.B = NULL THEN SecretToKey(NULL) ELSE Derived(s) :
        /\ key' = [[key EXCEPT ![bob] = r.key] EXCEPT ![self] = IF k = NULL THEN key[self] ELSE k]
        /\ last' = Call("exchange", self, bob, IF k = NULL THEN "-1" ELSE "0")
        /\ agreed' = IF k = NULL THEN agreed ELSE agreed \union {exchanges'}

(* bob receives first, then self replaces its own key, by NULL when there  *)
(* is no B, no secret or no memory.                                        *)
Exchange(self, bob) ==
    /\ exchanges < MaxExchanges
    /\ exchanges' = exchanges + 1
    /\ LET s == [self |-> self, bob |-> bob, n |-> exchanges'] IN
       \E r \in Receive(bob, s) :
       \E k \in IF r.B = NULL THEN SecretToKey(NULL) ELSE Derived(s) :
        /\ key' = [[key EXCEPT ![bob] = r.key] EXCEPT ![self] = k]
        /\ last' = Call("exchange", self, bob, IF k = NULL THEN "-1" ELSE "0")
        /\ agreed' = IF k = NULL THEN agreed ELSE agreed \union {exchanges'}

(* Fault: any answer will do; what decrypts under the wrong key may have a *)
(* valid padding.                                                          *)
AnyEcho(self, bob) == key[self] # NULL /\ key[bob] # NULL

(* Whether bob's echo() decrypts to the message: NULL keys encrypt and     *)
(* decrypt nothing, and what was decrypted under another key is not the    *)
(* message.                                                                *)
Echoes(self, bob) == key[self] # NULL /\ key[bob] = key[self]

(* challenge() may also fail for want of memory, or because bob has drawn  *)
(* the very same IV.                                                       *)
Challenge(self, bob) ==
    /\ \E ret \in {"0", "-1"} :
        /\ ret = "0" => Echoes(self, bob)
        /\ last' = Call("challenge", self, bob, ret)
    /\ UNCHANGED <<key, exchanges, agreed>>

(* free(), and dh_new() in its place. *)
Renew(p) ==
    /\ key' = [key EXCEPT ![p] = NULL]
    /\ last' = Call("new", p, p, "0")
    /\ UNCHANGED <<exchanges, agreed>>

Next ==
    \E p, q \in Parties :
        \/ ExchangeFailsEarly(p, q)
        \/ Exchange(p, q)
        \/ Challenge(p, q)
        \/ Renew(p)

Spec == Init /\ [][Next]_vars

(***************************************************************************)
(* Properties.                                                             *)
(***************************************************************************)

(* A key is NULL or made from the secret of an exchange that took place. *)
TypeOK ==
    /\ key \in [Parties -> {NULL} \union [secret : Secret]]
    /\ \A p \in Parties : key[p] # NULL => key[p].secret.n <= exchanges
    /\ exchanges \in 0 .. MaxExchanges
    /\ last.op \in {"new", "exchange", "challenge"} /\ last.ret \in {"0", "-1"}
    /\ last.self \in Parties /\ last.bob \in Parties
    /\ agreed \subseteq 1 .. exchanges

(* When two clients hold the same key, whatever they and others have      *)
(* exchanged since, it is from an exchange between the two that returned 0.*)
SharedWasAgreed ==
    \A p, q \in Parties : p # q /\ key[p] # NULL /\ key[p] = key[q] =>
        /\ {p, q} = {key[p].secret.self, key[p].secret.bob}
        /\ key[p].secret.n \in agreed

(* An exchange that fails for want of memory leaves a half-open session on *)
(* one side only: bob may hold a key that nobody shares, the initiator     *)
(* never does.                                                             *)
OnlyBobIsHalfOpen ==
    \A p \in Parties : key[p] # NULL =>
        \/ key[p].secret.n \in agreed
        \/ p = key[p].secret.bob

(* exchange() that returns 0 leaves both sides with one key, made now; one *)
(* that got past negociate() and failed leaves the initiator no key at all,*)
(* not the stale one of an earlier exchange.                               *)
ExchangeSharesOrForgets ==
    [][exchanges' # exchanges =>
        LET self == last'.self
            bob  == last'.bob
        IN  IF last'.ret = "0"
            THEN key'[self] # NULL /\ key'[self] = key'[bob] /\ key'[self].secret.n = exchanges'
            ELSE key'[self] = NULL]_vars

(* challenge() returns 0 only when an exchange between the two returned 0 *)
(* and neither has replaced its key since.                                 *)
ChallengeProvesExchange ==
    last.op = "challenge" /\ last.ret = "0" /\ last.self # last.bob =>
        /\ key[last.self] # NULL
        /\ key[last.self] = key[last.bob]
        /\ key[last.self].secret.n \in agreed
=============================================================================
