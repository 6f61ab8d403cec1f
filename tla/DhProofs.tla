------------------------------ MODULE DhProofs ------------------------------
(***************************************************************************)
(* Proofs about Dh, for any number of clients and exchanges. The inductive *)
(* invariant says who may hold a key at all: one of the two sides of its   *)
(* exchange, and only the receiver when the exchange failed. Two holders of *)
(* one key are then both sides of it, one of them is not the receiver, and *)
(* the exchange returned 0: SharedWasAgreed needs no more.                 *)
(***************************************************************************)
EXTENDS Dh, TLAPS

HeldByItsSides ==
    \A p \in Parties : key[p] # NULL => p \in {key[p].secret.self, key[p].secret.bob}

IInv == TypeOK /\ HeldByItsSides /\ OnlyBobIsHalfOpen /\ ChallengeProvesExchange

(* A key is never NULL, and names the secret it was made from. *)
LEMMA KeyFacts ==
    /\ \A k \in [secret : Secret] : k # NULL /\ k.secret \in Secret
    /\ \A s \in Secret : s.self \in Parties /\ s.bob \in Parties /\ s.n \in 1 .. MaxExchanges
    /\ \A s \in Secret : s # NULL /\ [secret |-> s] \in [secret : Secret]
  BY NullAssumption DEF Secret

(* An exchange for the secret s that leaves bob the key b and self k. *)
Outcome(self, bob, s, b, k) ==
    /\ s.self = self /\ s.bob = bob /\ s.n = exchanges'
    /\ b \in {key[bob], NULL, [secret |-> s]}
    /\ k \in {NULL, [secret |-> s]}
    /\ k # NULL => b = k
    /\ key' = [[key EXCEPT ![bob] = b] EXCEPT ![self] = k]
    /\ last' = Call("exchange", self, bob, IF k = NULL THEN "-1" ELSE "0")
    /\ agreed' = IF k = NULL THEN agreed ELSE agreed \union {exchanges'}

(* What an exchange can leave as bob's and as the initiator's key. *)
LEMMA ExchangeOutcomes ==
    ASSUME TypeOK, NEW self \in Parties, NEW bob \in Parties, Exchange(self, bob)
    PROVE  \E s \in Secret : \E b, k : Outcome(self, bob, s, b, k)
<1> DEFINE s == [self |-> self, bob |-> bob, n |-> exchanges']
<1>1. exchanges' \in 1 .. MaxExchanges
  BY DhAssumption DEF TypeOK, Exchange
<1>2. s \in Secret /\ s.self = self /\ s.bob = bob /\ s.n = exchanges'
  BY <1>1 DEF Secret
<1>3. s # NULL
  BY <1>2, KeyFacts
<1>4. PICK r \in Receive(bob, s) :
        \E k \in IF r.B = NULL THEN SecretToKey(NULL) ELSE Derived(s) :
            /\ key' = [[key EXCEPT ![bob] = r.key] EXCEPT ![self] = k]
            /\ last' = Call("exchange", self, bob, IF k = NULL THEN "-1" ELSE "0")
            /\ agreed' = IF k = NULL THEN agreed ELSE agreed \union {exchanges'}
  BY DEF Exchange
<1>5. PICK k \in IF r.B = NULL THEN SecretToKey(NULL) ELSE Derived(s) :
            /\ key' = [[key EXCEPT ![bob] = r.key] EXCEPT ![self] = k]
            /\ last' = Call("exchange", self, bob, IF k = NULL THEN "-1" ELSE "0")
            /\ agreed' = IF k = NULL THEN agreed ELSE agreed \union {exchanges'}
  BY <1>4
<1> HIDE DEF s
<1>6. Derived(s) = {NULL, [secret |-> s]} /\ SecretToKey(NULL) = {NULL}
  BY <1>3 DEF Derived, SecretToKey
<1>7. r.key \in {key[bob], NULL, [secret |-> s]} /\ (r.B # NULL => r.key = [secret |-> s])
  BY <1>4, <1>6 DEF Receive
<1>8. k \in {NULL, [secret |-> s]} /\ (k # NULL => r.key = k)
  BY <1>5, <1>6, <1>7
<1>9. Outcome(self, bob, s, r.key, k)
  BY <1>2, <1>5, <1>7, <1>8 DEF Outcome
<1> QED
  BY <1>2, <1>9

(* dh_new(): nobody holds a key. *)
LEMMA InitIInv == Init => IInv
  BY DhAssumption DEF Init, IInv, TypeOK, HeldByItsSides, OnlyBobIsHalfOpen,
     ChallengeProvesExchange, Call

(* Every call keeps the invariant, whichever memory fails in it. *)
LEMMA StepIInv == IInv /\ [Next]_vars => IInv'
<1> SUFFICES ASSUME IInv, [Next]_vars PROVE IInv'
  OBVIOUS
<1>1. CASE UNCHANGED vars
  BY <1>1 DEF IInv, vars, TypeOK, HeldByItsSides, OnlyBobIsHalfOpen, ChallengeProvesExchange
<1>2. ASSUME NEW p \in Parties, NEW q \in Parties, ExchangeFailsEarly(p, q) PROVE IInv'
  BY <1>2 DEF IInv, ExchangeFailsEarly, TypeOK, HeldByItsSides, OnlyBobIsHalfOpen,
     ChallengeProvesExchange, Call
<1>3. ASSUME NEW p \in Parties, NEW q \in Parties, Exchange(p, q) PROVE IInv'
  <2>a. PICK s \in Secret : \E b, k : Outcome(p, q, s, b, k)
    BY <1>3, ExchangeOutcomes DEF IInv
  <2>1. PICK b, k : Outcome(p, q, s, b, k)
    BY <2>a
  <2> USE DEF Outcome
  <2>2. exchanges' = exchanges + 1 /\ exchanges' \in 0 .. MaxExchanges
    BY <1>3, DhAssumption DEF IInv, TypeOK, Exchange
  <2>3. /\ [secret |-> s] \in [secret : Secret] /\ [secret |-> s].secret = s
        /\ [secret |-> s] # NULL
    BY KeyFacts
  <2>4. key' \in [Parties -> {NULL} \union [secret : Secret]]
    BY <2>1, <2>3 DEF IInv, TypeOK
  <2>5. \A c \in Parties : key'[c] = IF c = p THEN k ELSE IF c = q THEN b ELSE key[c]
    BY <2>1 DEF IInv, TypeOK
  <2>6. \A c \in Parties : key'[c] # NULL => key'[c] = key[c] \/ (c \in {p, q} /\ key'[c] = [secret |-> s])
    BY <2>1, <2>5
  <2>7. TypeOK'
    <3>1. \A c \in Parties : key'[c] # NULL => key'[c].secret.n <= exchanges'
      <4> SUFFICES ASSUME NEW c \in Parties, key'[c] # NULL PROVE key'[c].secret.n <= exchanges'
        OBVIOUS
      <4>1. CASE key'[c] = key[c]
        <5>1. key[c].secret.n <= exchanges /\ key[c] \in [secret : Secret]
          BY <4>1 DEF IInv, TypeOK
        <5>2. key[c].secret.n \in Nat
          BY <5>1, KeyFacts, DhAssumption
        <5> QED
          BY <4>1, <5>1, <5>2, <2>2 DEF IInv, TypeOK
      <4>2. CASE key'[c] = [secret |-> s]
        BY <4>2, <2>1, <2>2, <2>3
      <4> QED
        BY <2>6, <4>1, <4>2
    <3>2. agreed' \subseteq 1 .. exchanges'
      BY <2>1, <2>2 DEF IInv, TypeOK
    <3>3. /\ last'.op \in {"new", "exchange", "challenge"} /\ last'.ret \in {"0", "-1"}
          /\ last'.self \in Parties /\ last'.bob \in Parties
      BY <2>1 DEF Call
    <3> QED
      BY <2>2, <2>4, <3>1, <3>2, <3>3 DEF TypeOK
  <2>8. HeldByItsSides'
    BY <2>1, <2>3, <2>6 DEF IInv, HeldByItsSides
  <2>9. OnlyBobIsHalfOpen'
    <3> SUFFICES ASSUME NEW c \in Parties, key'[c] # NULL
                 PROVE  key'[c].secret.n \in agreed' \/ c = key'[c].secret.bob
      BY DEF OnlyBobIsHalfOpen
    <3>1. CASE key'[c] = key[c]
      BY <3>1, <2>1 DEF IInv, OnlyBobIsHalfOpen
    <3>2. CASE c = q /\ key'[c] = [secret |-> s]
      BY <3>2, <2>1, <2>3
    <3>3. CASE c = p /\ key'[c] = [secret |-> s]
      <4>1. k # NULL
        BY <3>3, <2>3, <2>5
      <4>2. exchanges' \in agreed'
        BY <4>1, <2>1
      <4>3. key'[c].secret.n = exchanges'
        BY <3>3, <2>1, <2>3
      <4> QED
        BY <4>2, <4>3
    <3> QED
      BY <2>6, <3>1, <3>2, <3>3
  <2>10. ChallengeProvesExchange'
    BY <2>1 DEF ChallengeProvesExchange, Call
  <2> QED
    BY <2>7, <2>8, <2>9, <2>10 DEF IInv
<1>4. ASSUME NEW p \in Parties, NEW q \in Parties, Challenge(p, q) PROVE IInv'
  <2>1. PICK ret \in {"0", "-1"} :
            /\ ret = "0" => key[p] # NULL /\ key[q] = key[p]
            /\ last' = Call("challenge", p, q, ret)
    BY <1>4 DEF Challenge, Echoes
  <2>2. UNCHANGED <<key, exchanges, agreed>>
    BY <1>4 DEF Challenge
  <2>3. TypeOK' /\ HeldByItsSides' /\ OnlyBobIsHalfOpen'
    BY <2>1, <2>2 DEF IInv, TypeOK, HeldByItsSides, OnlyBobIsHalfOpen, Call
  <2>4. ChallengeProvesExchange'
    <3> SUFFICES ASSUME ret = "0", p # q
                 PROVE  key[p] # NULL /\ key[p] = key[q] /\ key[p].secret.n \in agreed
      BY <2>1, <2>2 DEF ChallengeProvesExchange, Call
    <3> QED
      BY <2>1 DEF IInv, OnlyBobIsHalfOpen, HeldByItsSides
  <2> QED
    BY <2>3, <2>4 DEF IInv
<1>5. ASSUME NEW p \in Parties, Renew(p) PROVE IInv'
  BY <1>5 DEF IInv, Renew, TypeOK, HeldByItsSides, OnlyBobIsHalfOpen,
     ChallengeProvesExchange, Call
<1> QED
  BY <1>1, <1>2, <1>3, <1>4, <1>5 DEF Next

(* The invariant holds in every reachable state of dh.c. *)
THEOREM Invariance == Spec => []IInv
<1> QED
  BY InitIInv, StepIInv, PTL DEF Spec

(* A key is always NULL or one made from a secret. *)
THEOREM TypeCorrect == Spec => []TypeOK
<1>1. IInv => TypeOK
  BY DEF IInv
<1> QED
  BY <1>1, Invariance, PTL

(* Two clients hold one key only after an exchange between them that       *)
(* returned 0.                                                             *)
THEOREM SharedAgreed == Spec => []SharedWasAgreed
<1>1. IInv => SharedWasAgreed
  BY DEF IInv, SharedWasAgreed, OnlyBobIsHalfOpen, HeldByItsSides
<1> QED
  BY <1>1, Invariance, PTL

(* Only the receiver of a failed exchange is left with its key. *)
THEOREM HalfOpenIsBob == Spec => []OnlyBobIsHalfOpen
<1>1. IInv => OnlyBobIsHalfOpen
  BY DEF IInv
<1> QED
  BY <1>1, Invariance, PTL

(* A challenge() that returns 0 proves that the exchange did. *)
THEOREM ChallengeProves == Spec => []ChallengeProvesExchange
<1>1. IInv => ChallengeProvesExchange
  BY DEF IInv
<1> QED
  BY <1>1, Invariance, PTL

(* exchange() shares a new key, or leaves the initiator without one. *)
THEOREM SharesOrForgets == Spec => ExchangeSharesOrForgets
<1> DEFINE A == exchanges' # exchanges =>
        LET self == last'.self
            bob  == last'.bob
        IN  IF last'.ret = "0"
            THEN key'[self] # NULL /\ key'[self] = key'[bob] /\ key'[self].secret.n = exchanges'
            ELSE key'[self] = NULL
<1>1. IInv /\ [Next]_vars => [A]_vars
  <2> SUFFICES ASSUME IInv, Next, exchanges' # exchanges PROVE A
    OBVIOUS
  <2>1. PICK p \in Parties, q \in Parties : Exchange(p, q)
    BY DEF Next, ExchangeFailsEarly, Challenge, Renew
  <2>2a. PICK s \in Secret : \E b, k : Outcome(p, q, s, b, k)
    BY <2>1, ExchangeOutcomes DEF IInv
  <2>2. PICK b, k : Outcome(p, q, s, b, k)
    BY <2>2a
  <2> USE DEF Outcome
  <2>3. key'[p] = k /\ (k # NULL => key'[q] = k)
    BY <2>2 DEF IInv, TypeOK
  <2>4. last'.self = p /\ last'.bob = q /\ last'.ret = IF k = NULL THEN "-1" ELSE "0"
    BY <2>2 DEF Call
  <2> QED
    BY <2>2, <2>3, <2>4
<1> QED
  BY <1>1, Invariance, PTL DEF Spec, ExchangeSharesOrForgets
=============================================================================
