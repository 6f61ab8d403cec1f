----------------------------- MODULE SrpProofs -----------------------------
(***************************************************************************)
(* Proofs about Srp for every set of clients, every credentials and every *)
(* number of sessions: the invariants MCSrp checks, what a successful      *)
(* authenticate() means, and that Srp implements PasswordAgreement.        *)
(***************************************************************************)
EXTENDS Srp, TLAPS

(***************************************************************************)
(* The inductive invariant. To the properties it adds what start() leaves *)
(* behind: the server's key is the one it made for the last caller and the *)
(* last session, a caller it knows, and a client in the middle of a call   *)
(* that finds its session still there is that caller. And a session is     *)
(* settled by one client, since its token is compared once.                *)
(***************************************************************************)

KeyIsOffered ==
    srvkey # NULL =>
        /\ caller \in Clients
        /\ Identity[caller] = I
        /\ sessions \in 1 .. MaxSessions
        /\ srvkey = ServerKey(caller, sessions)

OfferIsOwn ==
    \A c \in Clients : ~ Idle(c) /\ srvkey # NULL /\ sessions = offer[c] => caller = c

OneClientPerSession ==
    \A p, q \in proved : p.n = q.n => p.who = q.who

IInv ==
    /\ TypeOK
    /\ TokenIsTheKeys
    /\ OneTry
    /\ KeyIsOffered
    /\ OfferIsOwn
    /\ OneClientPerSession
    /\ SettledKeyWasProved
    /\ OnlyAcceptedAuthenticate

(* Keys, tokens and sessions are never NULL. *)
LEMMA KeyFacts ==
    /\ NULL \notin Key
    /\ ZeroKey \in Key
    /\ \A c \in Clients, b \in Nat : ServerKey(c, b) \in Key /\ ServerKey(c, b) # NULL
<1>1. NULL \notin Key /\ ZeroKey \in Key
  BY SrpAssumption DEF Key
<1>2. ASSUME NEW c \in Clients, NEW b \in Nat PROVE ServerKey(c, b) \in Key
  <2>1. P \in Passwords
    BY DEF Passwords
  <2>2. [who |-> c, b |-> b, password |-> P, exact |-> TRUE] \in SecretKey
    BY <2>1 DEF SecretKey
  <2> QED
    BY <2>2 DEF ServerKey, Key
<1> QED
  BY <1>1, <1>2

LEMMA TokenFacts ==
    /\ NULL \notin Token
    /\ \A k \in Key, n \in Nat : [key |-> k, salt |-> n] \in Token /\ [key |-> k, salt |-> n] # NULL
BY SrpAssumption DEF Token

(* The key and the token a client in the middle of authenticate() makes    *)
(* have their types.                                                       *)
LEMMA ClientKeyFacts ==
    ASSUME TypeOK, NEW c \in Clients, NEW exact \in BOOLEAN
    PROVE  /\ ClientKey(c, exact) \in Key
           /\ ClientToken(c, exact) \in Token
           /\ ClientToken(c, exact).salt = offer[c]
           /\ ClientToken(c, exact).key = ClientKey(c, exact)
<1>1. offer[c] \in Nat
  BY SrpAssumption DEF TypeOK
<1>2. c \notin Spoofing => Password[c] \in Passwords
  BY DEF Passwords
<1>3. ClientKey(c, exact) \in Key
  BY <1>1, <1>2, SrpAssumption DEF ClientKey, Key, SecretKey
<1> QED
  BY <1>1, <1>3 DEF ClientToken, Token

(* The only key of a session that a client can make and the server has made *)
(* too: with the right password, or with neither a password nor a secret.  *)
LEMMA SameKey ==
    ASSUME TypeOK, NEW c \in Clients, NEW exact \in BOOLEAN, NEW d \in Clients,
           ClientKey(c, exact) = ServerKey(d, offer[c])
    PROVE  c \in Spoofing \/ Password[c] = P
<1> SUFFICES ASSUME c \notin Spoofing PROVE Password[c] = P
  OBVIOUS
<1>1. ClientKey(c, exact) = [who |-> c, b |-> offer[c], password |-> Password[c], exact |-> exact]
  BY DEF ClientKey
<1>2. ClientKey(c, exact) # ZeroKey
  <2>1. offer[c] \in Nat /\ Password[c] \in Passwords
    BY SrpAssumption DEF TypeOK, Passwords
  <2> QED
    BY <1>1, <2>1, SrpAssumption DEF SecretKey
<1>3. ServerKey(d, offer[c]) = [who |-> d, b |-> offer[c], password |-> P, exact |-> TRUE]
  BY <1>2 DEF ServerKey
<1>4. ClientKey(c, exact).password = Password[c]
  BY <1>1
<1>5. ServerKey(d, offer[c]).password = P
  BY <1>3
<1> QED
  BY <1>4, <1>5

(* srp_local_server_new(), srp_client_new(): nothing is agreed, IInv holds. *)
LEMMA InitIInv == Init => IInv
BY SrpAssumption DEF Init, IInv, TypeOK, TokenIsTheKeys, OneTry, KeyIsOffered, OfferIsOwn,
    OneClientPerSession, SettledKeyWasProved, OnlyAcceptedAuthenticate, Idle

(* finalize() that compares, from the server's side. *)
LEMMA ComparePreserves ==
    ASSUME IInv, NEW token, NEW equal \in BOOLEAN, FinalizeCompares(token, equal)
    PROVE  /\ srvtoken = [key |-> srvkey, salt |-> sessions]
           /\ srvkey # NULL
           /\ sessions \in 1 .. MaxSessions
           /\ srvtoken' = NULL
           /\ srvkey' = IF equal THEN srvkey ELSE NULL
           /\ equal = (token = [key |-> srvkey, salt |-> sessions])
           /\ tried' = tried \union {sessions}
           /\ sessions \notin tried
BY DEF IInv, TokenIsTheKeys, FinalizeCompares, KeyIsOffered, OneTry

(* finalize() that succeeds: the session is the caller's own, which the     *)
(* server accepts.                                                         *)
LEMMA SuccessFacts ==
    ASSUME IInv, NEW c \in Clients, ~ Idle(c), NEW exact \in BOOLEAN,
           FinalizeCompares(ClientToken(c, exact), TRUE)
    PROVE  /\ srvkey = ClientKey(c, exact)
           /\ srvkey' = srvkey
           /\ srvtoken # NULL
           /\ srvtoken' = NULL
           /\ tried' = tried \union {sessions}
           /\ sessions \notin tried
           /\ sessions \in 1 .. MaxSessions
           /\ sessions = offer[c]
           /\ caller = c
           /\ ClientKey(c, exact) = ServerKey(c, offer[c])
           /\ IsAccepted(c)
<1>1. /\ srvkey # NULL
      /\ sessions \in 1 .. MaxSessions
      /\ srvtoken' = NULL
      /\ srvkey' = srvkey
      /\ ClientToken(c, exact) = [key |-> srvkey, salt |-> sessions]
      /\ tried' = tried \union {sessions}
      /\ sessions \notin tried
  BY ComparePreserves
<1>2. srvkey = ClientKey(c, exact) /\ sessions = offer[c]
  BY <1>1 DEF ClientToken
<1>3. caller = c
  BY <1>1, <1>2 DEF IInv, OfferIsOwn
<1>4. srvkey = ServerKey(c, offer[c]) /\ Identity[c] = I
  BY <1>1, <1>2, <1>3 DEF IInv, KeyIsOffered
<1>5. IsAccepted(c)
  BY <1>2, <1>4, SameKey DEF IInv, IsAccepted
<1>6. srvtoken # NULL
  BY DEF FinalizeCompares
<1> QED
  BY <1>1, <1>2, <1>3, <1>4, <1>5, <1>6

(* Every step of a client's authenticate() keeps the invariant, and so do  *)
(* the new objects.                                                        *)
LEMMA StepIInv == IInv /\ [Next]_vars => IInv'
<1> SUFFICES ASSUME IInv, [Next]_vars PROVE IInv'
  OBVIOUS
<1>1. ASSUME NEW c \in Clients, AuthenticateFailsToStart(c) PROVE IInv'
  BY <1>1 DEF AuthenticateFailsToStart, StartFails, Return, Idle, server, history, IInv, TypeOK,
      TokenIsTheKeys, OneTry, KeyIsOffered, OfferIsOwn, OneClientPerSession, SettledKeyWasProved,
      OnlyAcceptedAuthenticate
<1>2. ASSUME NEW c \in Clients, AuthenticateStarts(c) PROVE IInv'
  <2>1. /\ sessions \in Nat
        /\ sessions' = sessions + 1
        /\ sessions' \in 1 .. MaxSessions
        /\ Identity[c] = I
        /\ offer' = [offer EXCEPT ![c] = sessions']
        /\ caller' = c
        /\ UNCHANGED <<clikey, ret, tried, proved, from>>
    BY <1>2, SrpAssumption DEF AuthenticateStarts, StartSucceeds, history, IInv, TypeOK
  <2>2. /\ srvkey' = ServerKey(c, sessions')
        /\ srvkey' \in Key
        /\ srvtoken' = [key |-> srvkey', salt |-> sessions']
        /\ srvtoken' \in Token
        /\ srvtoken' # NULL
    BY <1>2, <2>1, KeyFacts, TokenFacts DEF AuthenticateStarts, StartSucceeds
  <2>3. TypeOK'
    <3>1. offer' \in [Clients -> 0 .. sessions'] /\ from' \in [Clients -> 0 .. sessions']
      BY <2>1 DEF IInv, TypeOK
    <3>2. tried' \subseteq 1 .. sessions' /\ proved' \subseteq [who : Clients, n : 1 .. sessions', key : Key]
      BY <2>1 DEF IInv, TypeOK
    <3> QED
      BY <2>1, <2>2, <3>1, <3>2 DEF IInv, TypeOK
  <2>4. TokenIsTheKeys' /\ SettledKeyWasProved'
    BY <2>2 DEF TokenIsTheKeys, SettledKeyWasProved
  <2>5. OneTry'
    BY <2>1, <2>2 DEF IInv, TypeOK, OneTry
  <2>6. KeyIsOffered'
    <3>1. ServerKey(c, sessions)' = ServerKey(c, sessions')
      BY DEF ServerKey
    <3> QED
      BY <2>1, <2>2, <3>1 DEF KeyIsOffered, ServerKey
  <2>7. OfferIsOwn'
    BY <2>1, <2>2 DEF IInv, TypeOK, OfferIsOwn, Idle
  <2>8. OnlyAcceptedAuthenticate' /\ OneClientPerSession'
    BY <2>1 DEF IInv, OnlyAcceptedAuthenticate, OneClientPerSession
  <2> QED
    BY <2>3, <2>4, <2>5, <2>6, <2>7, <2>8 DEF IInv
<1>3. ASSUME NEW c \in Clients, AuthenticateGivesUp(c) PROVE IInv'
  BY <1>3 DEF AuthenticateGivesUp, Return, Idle, server, history, IInv, TypeOK,
      TokenIsTheKeys, OneTry, KeyIsOffered, OfferIsOwn, OneClientPerSession, SettledKeyWasProved,
      OnlyAcceptedAuthenticate
<1>4. ASSUME NEW c \in Clients, AuthenticateIsRefused(c) PROVE IInv'
  <2>1. /\ ~ Idle(c)
        /\ offer' = [offer EXCEPT ![c] = 0]
        /\ ret' = [ret EXCEPT ![c] = "-1"]
        /\ UNCHANGED <<sessions, clikey, caller, proved, from>>
    BY <1>4 DEF AuthenticateIsRefused, Return
  <2>2. PICK token \in {NULL} \union {ClientToken(c, exact) : exact \in BOOLEAN} :
            FinalizeRefuses(token) \/ FinalizeCompares(token, FALSE)
    BY <1>4 DEF AuthenticateIsRefused
  <2>3. CASE FinalizeRefuses(token)
    BY <2>1, <2>3 DEF FinalizeRefuses, Idle, server, IInv, TypeOK,
        TokenIsTheKeys, OneTry, KeyIsOffered, OfferIsOwn, OneClientPerSession, SettledKeyWasProved,
        OnlyAcceptedAuthenticate
  <2>4. CASE FinalizeCompares(token, FALSE)
    <3>1. /\ srvkey' = NULL
          /\ srvtoken' = NULL
          /\ tried' = tried \union {sessions}
          /\ sessions \in 1 .. MaxSessions
      BY <2>4, ComparePreserves
    <3>2. TypeOK'
      BY <2>1, <3>1 DEF IInv, TypeOK
    <3>3. OnlyAcceptedAuthenticate'
      BY <2>1, <3>1 DEF IInv, OnlyAcceptedAuthenticate
    <3> QED
      BY <2>1, <3>1, <3>2, <3>3 DEF IInv, TokenIsTheKeys, OneTry, KeyIsOffered, OfferIsOwn,
          OneClientPerSession, SettledKeyWasProved
  <2> QED
    BY <2>2, <2>3, <2>4
<1>5. ASSUME NEW c \in Clients, AuthenticateSucceeds(c) PROVE IInv'
  <2>1. /\ ~ Idle(c)
        /\ offer' = [offer EXCEPT ![c] = 0]
        /\ ret' = [ret EXCEPT ![c] = "0"]
        /\ from' = [from EXCEPT ![c] = offer[c]]
        /\ UNCHANGED <<sessions, caller>>
    BY <1>5 DEF AuthenticateSucceeds, Return
  <2>2. PICK exact \in BOOLEAN :
            /\ FinalizeCompares(ClientToken(c, exact), TRUE)
            /\ clikey' = [clikey EXCEPT ![c] = ClientKey(c, exact)]
            /\ proved' = proved \union {Proof(c, offer[c], ClientKey(c, exact))}
    BY <1>5 DEF AuthenticateSucceeds
  <2>3. PICK k : k = ClientKey(c, exact)
    OBVIOUS
  <2>4. k \in Key
    BY <2>3, ClientKeyFacts DEF IInv
  <2>5. /\ srvkey = k
        /\ srvkey' = k
        /\ srvtoken' = NULL
        /\ tried' = tried \union {sessions}
        /\ sessions \notin tried
        /\ sessions \in 1 .. MaxSessions
        /\ sessions = offer[c]
        /\ caller = c
        /\ k = ServerKey(c, sessions)
        /\ IsAccepted(c)
    BY <2>1, <2>2, <2>3, SuccessFacts
  <2>6. /\ clikey' = [clikey EXCEPT ![c] = k]
        /\ proved' = proved \union {Proof(c, sessions, k)}
        /\ from' = [from EXCEPT ![c] = sessions]
    BY <2>1, <2>2, <2>3, <2>5
  <2>7. TypeOK'
    <3>1. proved' \subseteq [who : Clients, n : 1 .. sessions, key : Key]
      BY <2>4, <2>5, <2>6 DEF IInv, TypeOK, Proof
    <3>2. tried' \subseteq 1 .. sessions
      <4>1. sessions \in Nat /\ 1 <= sessions /\ tried \subseteq 1 .. sessions
        BY <2>5, SrpAssumption DEF IInv, TypeOK
      <4>2. sessions \in 1 .. sessions
        BY <4>1
      <4> QED
        BY <2>5, <4>1, <4>2
    <3>3. from' \in [Clients -> 0 .. sessions]
      <4>1. offer[c] \in 0 .. sessions /\ from \in [Clients -> 0 .. sessions]
        BY DEF IInv, TypeOK
      <4> QED
        BY <2>1, <4>1
    <3>4. offer' \in [Clients -> 0 .. sessions] /\ ret' \in [Clients -> {"none", "0", "-1"}]
      BY <2>1, <2>5 DEF IInv, TypeOK
    <3> QED
      BY <2>1, <2>4, <2>5, <2>6, <3>1, <3>2, <3>3, <3>4 DEF IInv, TypeOK
  <2>8. TokenIsTheKeys' /\ OneTry' /\ SettledKeyWasProved'
    BY <2>1, <2>5, <2>6 DEF TokenIsTheKeys, OneTry, SettledKeyWasProved
  <2>9. KeyIsOffered' /\ OfferIsOwn'
    BY <2>1, <2>5 DEF IInv, TypeOK, KeyIsOffered, OfferIsOwn, ServerKey, Idle
  <2>10. OneClientPerSession'
    <3>1. \A p \in proved : p.n # sessions
      BY <2>5 DEF IInv, OnlyAcceptedAuthenticate
    <3> QED
      BY <2>6, <3>1 DEF IInv, OneClientPerSession, Proof
  <2>11. OnlyAcceptedAuthenticate'
    <3>1. \A p \in proved' : IsAccepted(p.who) /\ p.n \in tried' /\ p.key = ServerKey(p.who, p.n)
      BY <2>5, <2>6 DEF IInv, OnlyAcceptedAuthenticate, Proof
    <3>2. \A d \in Clients : clikey'[d] # NULL => Proof(d, from'[d], clikey'[d]) \in proved'
      BY <2>6 DEF IInv, TypeOK, OnlyAcceptedAuthenticate
    <3> QED
      BY <3>1, <3>2 DEF OnlyAcceptedAuthenticate, IsAccepted, ServerKey, Proof
  <2> QED
    BY <2>7, <2>8, <2>9, <2>10, <2>11 DEF IInv
<1>6. ASSUME NEW c \in Clients, RenewClient(c) PROVE IInv'
  BY <1>6 DEF RenewClient, Idle, server, history, IInv, TypeOK,
      TokenIsTheKeys, OneTry, KeyIsOffered, OfferIsOwn, OneClientPerSession, SettledKeyWasProved,
      OnlyAcceptedAuthenticate
<1>7. CASE RenewServer
  BY <1>7 DEF RenewServer, Idle, history, IInv, TypeOK,
      TokenIsTheKeys, OneTry, KeyIsOffered, OfferIsOwn, OneClientPerSession, SettledKeyWasProved,
      OnlyAcceptedAuthenticate
<1>8. CASE UNCHANGED vars
  BY <1>8 DEF vars, Idle, IInv, TypeOK,
      TokenIsTheKeys, OneTry, KeyIsOffered, OfferIsOwn, OneClientPerSession, SettledKeyWasProved,
      OnlyAcceptedAuthenticate
<1> QED
  BY <1>1, <1>2, <1>3, <1>4, <1>5, <1>6, <1>7, <1>8 DEF Next

(* The inductive invariant holds in every reachable state of srp.c. *)
THEOREM Invariance == Spec => []IInv
<1>1. Init => IInv
  BY InitIInv
<1>2. IInv /\ [Next]_vars => IInv'
  BY StepIInv
<1> QED
  BY <1>1, <1>2, PTL DEF Spec

(* The state never leaves its type. *)
THEOREM TypeCorrect == Spec => []TypeOK
BY Invariance, PTL DEF IInv

(* A pending token is always the token of the key the server holds. *)
THEOREM TokenAlwaysTheKeys == Spec => []TokenIsTheKeys
BY Invariance, PTL DEF IInv

(* No session's token is compared twice. *)
THEOREM OneTryPerSession == Spec => []OneTry
BY Invariance, PTL DEF IInv

(* A key without a pending token was proved by a client that was returned 0. *)
THEOREM SettledWasProved == Spec => []SettledKeyWasProved
BY Invariance, PTL DEF IInv

(* Only a client of the known identity is ever returned 0 or holds a key,  *)
(* and only with the password or with an A that is 0 or N.                 *)
THEOREM OnlyAccepted == Spec => []OnlyAcceptedAuthenticate
BY Invariance, PTL DEF IInv

(* So as long as every client draws A as srp_client_new() does, 0 means that *)
(* the client has the password, and every key held was made with it.       *)
THEOREM PasswordNeeded ==
    ASSUME Spoofing = {}
    PROVE  Spec =>
        [](/\ \A p \in proved : Identity[p.who] = I /\ Password[p.who] = P
           /\ \A c \in Clients : clikey[c] # NULL => clikey[c] = ServerKey(c, from[c]))
<1>1. IInv =>
        /\ \A p \in proved : Identity[p.who] = I /\ Password[p.who] = P
        /\ \A c \in Clients : clikey[c] # NULL => clikey[c] = ServerKey(c, from[c])
  BY DEF IInv, OnlyAcceptedAuthenticate, IsAccepted, Proof
<1> QED
  BY <1>1, Invariance, PTL

(* The token the server waits for fits the client it was offered to, and   *)
(* no other.                                                               *)
THEOREM TokenAlwaysFits == Spec => []TokenFitsItsCaller
<1>1. IInv => TokenFitsItsCaller
  <2> SUFFICES ASSUME IInv, NEW c \in Clients, ~ Idle(c), srvtoken # NULL
               PROVE  (srvtoken = ClientToken(c, TRUE)) =
                      (srvtoken.salt = offer[c] /\ (c \in Spoofing \/ Password[c] = P))
    BY DEF TokenFitsItsCaller
  <2>1. srvtoken = [key |-> srvkey, salt |-> sessions]
    BY DEF IInv, TokenIsTheKeys
  <2>2. srvkey # NULL
    BY <2>1, SrpAssumption DEF IInv, TypeOK, Token
  <2>3. srvkey = ServerKey(caller, sessions) /\ caller \in Clients
    BY <2>2 DEF IInv, KeyIsOffered
  <2>4. ASSUME srvtoken.salt = offer[c], c \in Spoofing \/ Password[c] = P
        PROVE  srvtoken = ClientToken(c, TRUE)
    <3>1. sessions = offer[c] /\ caller = c
      BY <2>1, <2>2, <2>4 DEF IInv, OfferIsOwn
    <3> QED
      BY <2>1, <2>3, <2>4, <3>1 DEF ServerKey, ClientKey, ClientToken
  <2>5. ASSUME srvtoken = ClientToken(c, TRUE)
        PROVE  srvtoken.salt = offer[c] /\ (c \in Spoofing \/ Password[c] = P)
    <3>1. ClientToken(c, TRUE) = [key |-> srvkey, salt |-> sessions]
      BY <2>1, <2>5
    <3>2. srvkey = ClientKey(c, TRUE) /\ sessions = offer[c]
      BY <3>1 DEF ClientToken
    <3>3. ClientKey(c, TRUE) = ServerKey(caller, offer[c])
      BY <2>3, <3>2
    <3>4. c \in Spoofing \/ Password[c] = P
      BY <2>3, <3>3, SameKey DEF IInv
    <3> QED
      BY <2>1, <3>2, <3>4
  <2> QED
    BY <2>4, <2>5
<1> QED
  BY <1>1, Invariance, PTL

(* authenticate() that returns 0 leaves one key on both sides. *)
THEOREM AuthenticatedShared == Spec => AuthenticatedMeansShared
<1>1. IInv /\ [Next]_vars =>
        [\A c \in Clients :
            ~ Idle(c) /\ Idle(c)' /\ ret'[c] = "0" =>
                /\ srvkey' = clikey'[c]
                /\ srvtoken' = NULL
                /\ clikey'[c] = ServerKey(c, offer[c])
                /\ sessions = offer[c]]_vars
  <2> SUFFICES ASSUME IInv, Next, NEW c \in Clients, ~ Idle(c), Idle(c)', ret'[c] = "0"
               PROVE  /\ srvkey' = clikey'[c]
                      /\ srvtoken' = NULL
                      /\ clikey'[c] = ServerKey(c, offer[c])
                      /\ sessions = offer[c]
    OBVIOUS
  <2>1. \E d \in Clients : AuthenticateSucceeds(d)
    <3>1. ASSUME NEW d \in Clients, AuthenticateFailsToStart(d) PROVE FALSE
      BY <3>1 DEF AuthenticateFailsToStart, Return, Idle, IInv, TypeOK
    <3>2. ASSUME NEW d \in Clients, AuthenticateStarts(d) PROVE FALSE
      BY <3>2, SrpAssumption DEF AuthenticateStarts, StartSucceeds, Idle, IInv, TypeOK
    <3>3. ASSUME NEW d \in Clients, AuthenticateGivesUp(d) PROVE FALSE
      BY <3>3 DEF AuthenticateGivesUp, Return, Idle, IInv, TypeOK
    <3>4. ASSUME NEW d \in Clients, AuthenticateIsRefused(d) PROVE FALSE
      BY <3>4 DEF AuthenticateIsRefused, Return, Idle, IInv, TypeOK
    <3>5. ASSUME NEW d \in Clients, RenewClient(d) PROVE FALSE
      BY <3>5 DEF RenewClient, Idle
    <3>6. ~ RenewServer
      BY DEF RenewServer, Idle
    <3> QED
      BY <3>1, <3>2, <3>3, <3>4, <3>5, <3>6 DEF Next
  <2>2. AuthenticateSucceeds(c)
    BY <2>1 DEF AuthenticateSucceeds, Return, Idle, IInv, TypeOK
  <2>3. PICK exact \in BOOLEAN :
            /\ FinalizeCompares(ClientToken(c, exact), TRUE)
            /\ clikey' = [clikey EXCEPT ![c] = ClientKey(c, exact)]
    BY <2>2 DEF AuthenticateSucceeds
  <2>4. clikey'[c] = ClientKey(c, exact)
    BY <2>3 DEF IInv, TypeOK
  <2> QED
    BY <2>3, <2>4, SuccessFacts
<1> QED
  BY <1>1, Invariance, PTL DEF Spec, AuthenticatedMeansShared

(* A settled key survives every finalize(). *)
THEOREM SettledSurvives == Spec => SettledSurvivesFinalize
<1>1. IInv /\ [Next]_vars =>
        [srvkey # NULL /\ srvtoken = NULL /\ srvkey' # srvkey =>
            sessions' # sessions \/ \A c \in Clients : Idle(c)]_vars
  <2> SUFFICES ASSUME IInv, Next, srvkey # NULL, srvtoken = NULL, srvkey' # srvkey
               PROVE  sessions' # sessions \/ \A c \in Clients : Idle(c)
    OBVIOUS
  <2>1. ASSUME NEW c \in Clients, AuthenticateStarts(c) PROVE sessions' # sessions
    BY <2>1, SrpAssumption DEF AuthenticateStarts, StartSucceeds, IInv, TypeOK
  <2>2. ASSUME NEW c \in Clients, AuthenticateIsRefused(c) PROVE FALSE
    BY <2>2 DEF AuthenticateIsRefused, FinalizeRefuses, FinalizeCompares, server
  <2>3. ASSUME NEW c \in Clients, AuthenticateSucceeds(c) PROVE FALSE
    BY <2>3 DEF AuthenticateSucceeds, FinalizeCompares
  <2>4. ASSUME NEW c \in Clients,
               AuthenticateFailsToStart(c) \/ AuthenticateGivesUp(c) \/ RenewClient(c)
        PROVE  FALSE
    BY <2>4 DEF AuthenticateFailsToStart, StartFails, AuthenticateGivesUp, RenewClient, server
  <2>5. CASE RenewServer
    BY <2>5 DEF RenewServer
  <2> QED
    BY <2>1, <2>2, <2>3, <2>4, <2>5 DEF Next
<1> QED
  BY <1>1, Invariance, PTL DEF Spec, SettledSurvivesFinalize

(***************************************************************************)
(* Srp implements PasswordAgreement: start() is Offer, the finalize() that *)
(* succeeds is Settle, the one that compares and fails is Refuse, and every *)
(* other step but the renewals leaves the mapped state as it is.           *)
(***************************************************************************)

(* A session is never NULL. *)
LEMMA SessionFacts ==
    \A c \in Clients, n \in Nat :
        Session(c, n) # NULL /\ Session(c, n).who = c /\ Session(c, n).n = n
BY SrpAssumption DEF Session

(* The new server has offered and settled nothing. *)
LEMMA InitMaps == Init => Agreement!Init
BY DEF Init, Agreement!Init

(* Every step of authenticate() is a step of PasswordAgreement or none. *)
LEMMA StepMaps == IInv /\ IInv' /\ [Next]_vars => [Agreement!Next]_(Agreement!vars)
<1> SUFFICES ASSUME IInv, IInv', [Next]_vars PROVE [Agreement!Next]_(Agreement!vars)
  OBVIOUS
<1> DEFINE offered == IF srvtoken = NULL THEN NULL ELSE Session(caller, sessions)
           settled == IF srvkey = NULL \/ srvtoken # NULL THEN NULL ELSE Session(caller, sessions)
           holds   == [c \in Clients |-> IF clikey[c] = NULL THEN NULL ELSE Session(c, from[c])]
<1>0. ASSUME UNCHANGED <<srvkey, srvtoken, sessions, caller, clikey, from>>
      PROVE  UNCHANGED Agreement!vars
  BY <1>0 DEF Agreement!vars, Session
<1>1. ASSUME NEW c \in Clients,
             AuthenticateFailsToStart(c) \/ AuthenticateGivesUp(c)
      PROVE  UNCHANGED Agreement!vars
  BY <1>0, <1>1 DEF AuthenticateFailsToStart, StartFails, AuthenticateGivesUp, server, history
<1>2. ASSUME NEW c \in Clients, AuthenticateStarts(c) PROVE Agreement!Offer(c)
  <2>1. /\ Identity[c] = I
        /\ sessions' = sessions + 1
        /\ srvkey' = ServerKey(c, sessions')
        /\ srvtoken' = [key |-> srvkey', salt |-> sessions']
        /\ caller' = c
        /\ UNCHANGED <<clikey, from>>
    BY <1>2 DEF AuthenticateStarts, StartSucceeds, history
  <2>2. sessions' \in Nat
    BY <2>1, SrpAssumption DEF IInv, TypeOK
  <2>3. srvtoken' # NULL
    BY <2>1, <2>2, KeyFacts, TokenFacts
  <2>4. offered' = [who |-> c, n |-> sessions + 1] /\ settled' = NULL
    BY <2>1, <2>3 DEF Session
  <2>5. UNCHANGED holds
    BY <2>1 DEF Session
  <2> QED
    BY <2>1, <2>4, <2>5 DEF Agreement!Offer
<1>3. ASSUME NEW c \in Clients, AuthenticateIsRefused(c)
      PROVE  Agreement!Refuse \/ UNCHANGED Agreement!vars
  <2>1. UNCHANGED <<sessions, caller, clikey, from>>
    BY <1>3 DEF AuthenticateIsRefused
  <2>2. PICK token : FinalizeRefuses(token) \/ FinalizeCompares(token, FALSE)
    BY <1>3 DEF AuthenticateIsRefused
  <2>3. CASE FinalizeRefuses(token)
    BY <1>0, <2>1, <2>3 DEF FinalizeRefuses, server
  <2>4. CASE FinalizeCompares(token, FALSE)
    <3>1. srvtoken # NULL /\ srvkey # NULL /\ srvtoken' = NULL /\ srvkey' = NULL
      BY <2>4 DEF FinalizeCompares
    <3>2. caller \in Clients /\ sessions \in Nat
      BY <3>1, SrpAssumption DEF IInv, TypeOK, KeyIsOffered
    <3>3. offered # NULL /\ settled = NULL /\ offered' = NULL /\ settled' = NULL
      BY <3>1, <3>2, SessionFacts
    <3>4. UNCHANGED holds
      BY <2>1 DEF Session
    <3> QED
      BY <2>1, <3>3, <3>4 DEF Agreement!Refuse
  <2> QED
    BY <2>2, <2>3, <2>4
<1>4. ASSUME NEW c \in Clients, AuthenticateSucceeds(c) PROVE Agreement!Settle(c)
  <2>1. ~ Idle(c) /\ UNCHANGED <<sessions, caller>> /\ from' = [from EXCEPT ![c] = offer[c]]
    BY <1>4 DEF AuthenticateSucceeds
  <2>2. PICK exact \in BOOLEAN :
            /\ FinalizeCompares(ClientToken(c, exact), TRUE)
            /\ clikey' = [clikey EXCEPT ![c] = ClientKey(c, exact)]
    BY <1>4 DEF AuthenticateSucceeds
  <2>3. PICK k : k = ClientKey(c, exact)
    OBVIOUS
  <2>4. k \in Key /\ k # NULL
    BY <2>3, ClientKeyFacts, KeyFacts DEF IInv
  <2>5. /\ srvkey = k
        /\ srvkey' = srvkey
        /\ srvtoken # NULL
        /\ srvtoken' = NULL
        /\ sessions = offer[c]
        /\ caller = c
        /\ IsAccepted(c)
    BY <2>1, <2>2, <2>3, SuccessFacts
  <2>6. Session(c, sessions) # NULL /\ Session(c, sessions).who = c
    BY SessionFacts, SrpAssumption DEF IInv, TypeOK
  <2>7. /\ offered = Session(c, sessions)
        /\ offered' = NULL
        /\ settled' = Session(c, sessions)
    BY <2>1, <2>4, <2>5 DEF Session
  <2>8. holds' = [holds EXCEPT ![c] = Session(c, sessions)]
    <3>1. clikey' = [clikey EXCEPT ![c] = k] /\ from' = [from EXCEPT ![c] = sessions]
      BY <2>1, <2>2, <2>3, <2>5
    <3> QED
      BY <2>4, <3>1 DEF IInv, TypeOK, Session
  <2> QED
    BY <2>1, <2>5, <2>6, <2>7, <2>8 DEF Agreement!Settle
<1>5. ASSUME NEW c \in Clients, RenewClient(c) PROVE Agreement!ClientForgets(c)
  <2>1. clikey' = [clikey EXCEPT ![c] = NULL] /\ UNCHANGED <<srvkey, srvtoken, sessions, caller, from>>
    BY <1>5 DEF RenewClient, server, history
  <2>2. holds' = [holds EXCEPT ![c] = NULL]
    BY <2>1 DEF IInv, TypeOK, Session
  <2> QED
    BY <2>1, <2>2 DEF Agreement!ClientForgets, Session
<1>6. CASE RenewServer
  BY <1>6 DEF RenewServer, history, Agreement!Next, Agreement!ServerForgets
<1>7. CASE UNCHANGED vars
  BY <1>0, <1>7 DEF vars
<1> QED
  BY <1>1, <1>2, <1>3, <1>4, <1>5, <1>6, <1>7 DEF Next, Agreement!Next

(* srp.c keeps the promise of srp.h. *)
THEOREM Implements == Spec => ImplementsAgreement
<1>1. Init => Agreement!Init
  BY InitMaps
<1>2. IInv /\ IInv' /\ [Next]_vars => [Agreement!Next]_(Agreement!vars)
  BY StepMaps
<1> QED
  BY <1>1, <1>2, Invariance, PTL DEF Spec, ImplementsAgreement, Agreement!Spec

(* What PasswordAgreement amounts to holds of srp.c: an established session *)
(* belongs to one client, which the server accepts for its password or for *)
(* an A of 0 or N, and nobody holds the key of a session that the server   *)
(* has yet to settle.                                                      *)
THEOREM AgreementHolds == Spec => [](Agreement!OnlyAcceptedHold /\ Agreement!OfferIsNew)
<1>1. IInv => Agreement!OnlyAcceptedHold
  <2> SUFFICES ASSUME IInv PROVE Agreement!OnlyAcceptedHold
    OBVIOUS
  <2> DEFINE settled == IF srvkey = NULL \/ srvtoken # NULL THEN NULL ELSE Session(caller, sessions)
             holds   == [c \in Clients |-> IF clikey[c] = NULL THEN NULL ELSE Session(c, from[c])]
  <2>1. ASSUME settled # NULL
        PROVE  /\ settled.who = caller
               /\ settled.n = sessions
               /\ caller \in Clients
               /\ IsAccepted(caller)
               /\ Proof(caller, sessions, srvkey) \in proved
    BY <2>1 DEF Session, IInv, KeyIsOffered, SettledKeyWasProved, OnlyAcceptedAuthenticate, Proof
  <2>2. ASSUME NEW c \in Clients, holds[c] # NULL
        PROVE  /\ holds[c].who = c
               /\ holds[c].n = from[c]
               /\ IsAccepted(c)
               /\ Proof(c, from[c], clikey[c]) \in proved
    BY <2>2 DEF Session, IInv, OnlyAcceptedAuthenticate, Proof
  <2>3. ASSUME NEW c \in Clients, settled # NULL, holds[c] # NULL, holds[c].n = settled.n
        PROVE  settled.who = c
    <3>1. /\ Proof(caller, sessions, srvkey) \in proved
          /\ Proof(c, from[c], clikey[c]) \in proved
          /\ from[c] = sessions
      BY <2>1, <2>2, <2>3
    <3>2. caller = c
      BY <3>1 DEF IInv, OneClientPerSession, Proof
    <3> QED
      BY <2>1, <2>3, <3>2
  <2> QED
    BY <2>1, <2>2, <2>3 DEF Agreement!OnlyAcceptedHold
<1>2. IInv => Agreement!OfferIsNew
  <2> SUFFICES ASSUME IInv, srvtoken # NULL
               PROVE  /\ Session(caller, sessions).n = sessions
                      /\ \A c \in Clients : clikey[c] # NULL => Session(c, from[c]).n < sessions
    BY DEF Agreement!OfferIsNew
  <2>1. sessions \notin tried
    BY DEF IInv, TokenIsTheKeys, OneTry
  <2>2. ASSUME NEW c \in Clients, clikey[c] # NULL PROVE from[c] < sessions
    <3>1. from[c] \in tried
      BY <2>2 DEF IInv, OnlyAcceptedAuthenticate, Proof
    <3>2. from[c] \in 1 .. sessions /\ from[c] # sessions
      BY <2>1, <3>1 DEF IInv, TypeOK
    <3>3. sessions \in Nat
      BY SrpAssumption DEF IInv, TypeOK
    <3> QED
      BY <3>2, <3>3
  <2> QED
    BY <2>2 DEF Session
<1> QED
  BY <1>1, <1>2, Invariance, PTL
=============================================================================
