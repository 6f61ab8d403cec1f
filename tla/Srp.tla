-------------------------------- MODULE Srp --------------------------------
(***************************************************************************)
(* The Secure Remote Password agreement of src/src/srp.c with the server  *)
(* in the same process: one struct srp_server made by                      *)
(* srp_local_server_new() and the struct srp_client of every client that   *)
(* authenticates to it. The Simplified SRP of src/src/ssrp.c has the same  *)
(* control, statement for statement; SrpArithmetic.tla models where their  *)
(* arithmetic differs.                                                     *)
(*                                                                         *)
(* start() and finalize() are public members of the server: what one       *)
(* caller does between its own two calls is up to the program, so the      *)
(* calls of different callers may come in any order. A call is one step.   *)
(*                                                                         *)
(* Keys are symbolic. A key is what the shared secret S depends on: the A  *)
(* that a client "who" drew for one call, the salt and B that start() drew *)
(* in answer (sessions are numbered, and "b" numbers all three), and the   *)
(* password; "exact" is FALSE when the client's exponent a + u * x was     *)
(* reduced modulo N and S came out different. That two such S or their     *)
(* hashes are equal only when all of this is equal is assumed.             *)
(*                                                                         *)
(* But start() does not check A, and for A = 0 or N the server's S is 0    *)
(* whatever the password is. A client of srp_client_new() never sends such *)
(* an A, a power of g modulo N; one of srp_spoof_client_new() (break_srp.c) *)
(* has no password and always does, and tests/test_break_srp.c asserts     *)
(* that it is returned 0. Both kinds of clients call the server here.      *)
(***************************************************************************)
EXTENDS Naturals

CONSTANTS
    Clients,
    Spoofing,           \* those of srp_spoof_client_new(), the others are of srp_client_new()
    I, P,               \* the credentials given to srp_local_server_new()
    Identity,           \* the identity each client was given
    Password,           \* the password each client of srp_client_new() was given
    ZeroKey,            \* SHA256(0), the K of S = 0
    MaxSessions,        \* bound: how often start() succeeds
    NULL

Passwords == {Password[c] : c \in Clients \ Spoofing} \union {P}

SecretKey == [who : Clients, b : Nat, password : Passwords, exact : BOOLEAN]

Key == SecretKey \union {ZeroKey}

(* HMAC(K, salt), with the salt of session number "salt". *)
Token == [key : Key, salt : Nat]

ASSUME SrpAssumption ==
    /\ MaxSessions \in Nat
    /\ Spoofing \subseteq Clients
    /\ DOMAIN Password = Clients \ Spoofing
    /\ ZeroKey \notin SecretKey
    /\ NULL \notin Key
    /\ NULL \notin Token
    /\ NULL \notin [who : Clients, n : Nat]

VARIABLES
    srvkey,     \* srvinfo->key
    srvtoken,   \* srvinfo->token
    sessions,   \* how many start() calls have succeeded: the nth drew salt and B number n
    clikey,     \* client->key, per client
    offer,      \* in a call whose start() has returned 0: the number of its salt and B, else 0
    ret,        \* what the client's last authenticate() returned: "none" yet, "0" or "-1"
    caller,     \* history: the client of the last start() that succeeded
    tried,      \* history: the sessions whose token a finalize() has compared
    proved,     \* history: who was returned 0 by authenticate(), in which session, with which key
    from        \* history: per client, the session of its key

server == <<srvkey, srvtoken>>
history == <<tried, proved, from>>
vars == <<srvkey, srvtoken, sessions, clikey, offer, ret, caller, tried, proved, from>>

Idle(c) == offer[c] = 0

Return(c, code) ==
    /\ offer' = [offer EXCEPT ![c] = 0]
    /\ ret' = [ret EXCEPT ![c] = code]

(* Generate S, then K = SHA256(S): the server's, for the A of c. Its       *)
(* S = (A * v**u)**b % N is 0 when A is 0 or N.                            *)
ServerKey(c, b) ==
    IF c \in Spoofing THEN ZeroKey
    ELSE [who |-> c, b |-> b, password |-> P, exact |-> TRUE]

(* The client's, from its password; or SHA256(0), without one. *)
ClientKey(c, exact) ==
    IF c \in Spoofing THEN ZeroKey
    ELSE [who |-> c, b |-> offer[c], password |-> Password[c], exact |-> exact]

(* The token a client makes for the finalize() of its call. *)
ClientToken(c, exact) == [key |-> ClientKey(c, exact), salt |-> offer[c]]

Proof(c, n, key) == [who |-> c, n |-> n, key |-> key]

Init ==
    /\ srvkey = NULL
    /\ srvtoken = NULL
    /\ sessions = 0
    /\ clikey = [c \in Clients |-> NULL]
    /\ offer = [c \in Clients |-> 0]
    /\ ret = [c \in Clients |-> "none"]
    /\ caller = NULL
    /\ tried = {}
    /\ proved = {}
    /\ from = [c \in Clients |-> 0]

(***************************************************************************)
(* The server's members.                                                   *)
(***************************************************************************)

(* start() fails, before it has stored anything, when A is NULL, when the *)
(* identity is not the server's, or when memory runs out.                  *)
StartFails(c) == UNCHANGED <<server, sessions, caller>>

(* Fault: a pending token is kept when a second start() comes. *)
StartKeepsPendingToken(c) ==
    /\ Identity[c] = I
    /\ sessions' = sessions + 1
    /\ srvkey' = ServerKey(c, sessions')
    /\ srvtoken' = IF srvtoken = NULL THEN [key |-> srvkey', salt |-> sessions'] ELSE srvtoken
    /\ caller' = c

(* Fault: the identity is not compared. *)
StartAcceptsAnyone(c) ==
    /\ sessions' = sessions + 1
    /\ srvkey' = ServerKey(c, sessions')
    /\ srvtoken' = [key |-> srvkey', salt |-> sessions']
    /\ caller' = c

(* Otherwise it replaces the key and the token the server had, whatever    *)
(* they were, and returns salt and B. The key is stored before anybody has *)
(* proved anything.                                                        *)
StartSucceeds(c) ==
    /\ Identity[c] = I
    /\ sessions' = sessions + 1
    /\ srvkey' = ServerKey(c, sessions')
    /\ srvtoken' = [key |-> srvkey', salt |-> sessions']
    /\ caller' = c

(* Fault: every failure forgets the session, the early ones too. *)
FinalizeRefusesAndForgets(token) ==
    /\ token = NULL \/ srvtoken = NULL \/ srvkey = NULL
    /\ srvtoken' = NULL
    /\ srvkey' = NULL
    /\ UNCHANGED tried

(* finalize(token) returns -1 at once without a token or without a session.*)
FinalizeRefuses(token) ==
    /\ token = NULL \/ srvtoken = NULL \/ srvkey = NULL
    /\ UNCHANGED <<server, tried>>

(* Faults: the token forgotten only when it was right; the key kept when   *)
(* the token was wrong; the key forgotten when it was right; the session's *)
(* salt compared instead of the token.                                     *)
FinalizeKeepsToken(token, equal) ==
    /\ token # NULL /\ srvtoken # NULL /\ srvkey # NULL
    /\ equal = (srvtoken = token)
    /\ srvtoken' = IF equal THEN NULL ELSE srvtoken
    /\ srvkey' = srvkey
    /\ tried' = tried \union {srvtoken.salt}

FinalizeKeepsKey(token, equal) ==
    /\ token # NULL /\ srvtoken # NULL /\ srvkey # NULL
    /\ equal = (srvtoken = token)
    /\ srvtoken' = NULL
    /\ srvkey' = srvkey
    /\ tried' = tried \union {srvtoken.salt}

FinalizeForgetsKey(token, equal) ==
    /\ token # NULL /\ srvtoken # NULL /\ srvkey # NULL
    /\ equal = (srvtoken = token)
    /\ srvtoken' = NULL
    /\ srvkey' = IF equal THEN NULL ELSE srvkey
    /\ tried' = tried \union {srvtoken.salt}

FinalizeComparesSalt(token, equal) ==
    /\ token # NULL /\ srvtoken # NULL /\ srvkey # NULL
    /\ equal = (srvtoken.salt = token.salt)
    /\ srvtoken' = NULL
    /\ srvkey' = IF equal THEN srvkey ELSE NULL
    /\ tried' = tried \union {srvtoken.salt}

(* Otherwise it compares, forgets the token whatever the result, and the   *)
(* key too unless the tokens are equal.                                    *)
FinalizeCompares(token, equal) ==
    /\ token # NULL /\ srvtoken # NULL /\ srvkey # NULL
    /\ equal = (srvtoken = token)
    /\ srvtoken' = NULL
    /\ srvkey' = IF equal THEN srvkey ELSE NULL
    /\ tried' = tried \union {srvtoken.salt}

(***************************************************************************)
(* authenticate(): start(), the client's own computation, finalize().      *)
(***************************************************************************)

AuthenticateFailsToStart(c) ==
    /\ Idle(c)
    /\ StartFails(c)
    /\ Return(c, "-1")
    /\ UNCHANGED <<clikey, history>>

AuthenticateStarts(c) ==
    /\ Idle(c)
    /\ sessions < MaxSessions
    /\ StartSucceeds(c)
    /\ offer' = [offer EXCEPT ![c] = sessions']
    /\ UNCHANGED <<clikey, ret, history>>

(* Memory runs out in the computation of u, S or K: finalize() is not      *)
(* called, and the server keeps the session it offered.                    *)
AuthenticateGivesUp(c) ==
    /\ ~ Idle(c)
    /\ Return(c, "-1")
    /\ UNCHANGED <<server, sessions, clikey, caller, history>>

(* finalize() refuses the token; it is NULL when hmac_sha256() failed. *)
AuthenticateIsRefused(c) ==
    /\ ~ Idle(c)
    /\ \E token \in {NULL} \union {ClientToken(c, exact) : exact \in BOOLEAN} :
        \/ FinalizeRefuses(token)
        \/ FinalizeCompares(token, FALSE)
    /\ Return(c, "-1")
    /\ UNCHANGED <<sessions, clikey, caller, proved, from>>

AuthenticateSucceeds(c) ==
    /\ ~ Idle(c)
    /\ \E exact \in BOOLEAN :
        /\ FinalizeCompares(ClientToken(c, exact), TRUE)
        /\ clikey' = [clikey EXCEPT ![c] = ClientKey(c, exact)]
        /\ proved' = proved \union {Proof(c, offer[c], ClientKey(c, exact))}
    /\ from' = [from EXCEPT ![c] = offer[c]]
    /\ Return(c, "0")
    /\ UNCHANGED <<sessions, caller>>

(***************************************************************************)
(* free() and a new object in its place, while no call is in progress.     *)
(***************************************************************************)

RenewServer ==
    /\ \A c \in Clients : Idle(c)
    /\ srvkey' = NULL
    /\ srvtoken' = NULL
    /\ UNCHANGED <<sessions, clikey, offer, ret, caller, history>>

RenewClient(c) ==
    /\ Idle(c)
    /\ clikey' = [clikey EXCEPT ![c] = NULL]
    /\ ret' = [ret EXCEPT ![c] = "none"]
    /\ UNCHANGED <<server, sessions, offer, caller, history>>

Next ==
    \/ \E c \in Clients :
        \/ AuthenticateFailsToStart(c)
        \/ AuthenticateStarts(c)
        \/ AuthenticateGivesUp(c)
        \/ AuthenticateIsRefused(c)
        \/ AuthenticateSucceeds(c)
        \/ RenewClient(c)
    \/ RenewServer

Spec == Init /\ [][Next]_vars

(***************************************************************************)
(* Properties.                                                             *)
(***************************************************************************)

(* The state has the shape the structs give it, and no number refers to a *)
(* call or a session that has not taken place.                             *)
TypeOK ==
    /\ srvkey \in Key \union {NULL}
    /\ srvtoken \in Token \union {NULL}
    /\ sessions \in 0 .. MaxSessions
    /\ clikey \in [Clients -> Key \union {NULL}]
    /\ offer \in [Clients -> 0 .. sessions]
    /\ ret \in [Clients -> {"none", "0", "-1"}]
    /\ caller \in Clients \union {NULL}
    /\ tried \subseteq 1 .. sessions
    /\ proved \subseteq [who : Clients, n : 1 .. sessions, key : Key]
    /\ from \in [Clients -> 0 .. sessions]

(* A pending token was made from the key the server holds and the salt of *)
(* the last session it offered, whoever else called start() and finalize() *)
(* since.                                                                  *)
TokenIsTheKeys ==
    srvtoken # NULL => srvtoken = [key |-> srvkey, salt |-> sessions]

(* A session's token is compared once: whatever the result of a           *)
(* finalize(), there is no second try at the same token.                   *)
OneTry == srvtoken # NULL => srvtoken.salt \notin tried

(* start() stores the key before the client has proved anything, so a key *)
(* alone means nothing; but a key without a pending token is the key of the *)
(* last session, and the client it was offered to was returned 0 in it.   *)
SettledKeyWasProved ==
    srvkey # NULL /\ srvtoken = NULL => Proof(caller, sessions, srvkey) \in proved

(* Whose token the server accepts: a client of the identity it knows that *)
(* knows the password too, or sends 0 or N for A. The second kind is what  *)
(* tests/test_break_srp.c asserts of the server as it is.                  *)
IsAccepted(c) == Identity[c] = I /\ (c \in Spoofing \/ Password[c] = P)

(* authenticate() returns 0 to nobody else, in a session whose token was  *)
(* compared and with the server's key of that session; and a client only   *)
(* holds a key it was returned 0 with. So of the clients that draw A as    *)
(* srp_client_new() does, only those with the password are returned 0.     *)
OnlyAcceptedAuthenticate ==
    /\ \A p \in proved :
        /\ IsAccepted(p.who)
        /\ p.n \in tried
        /\ p.key = ServerKey(p.who, p.n)
    /\ \A c \in Clients : clikey[c] # NULL => Proof(c, from[c], clikey[c]) \in proved

(* The token the server waits for is the one a client in the middle of    *)
(* authenticate() can make exactly when the session is the one offered to *)
(* it and its password is right or its A is 0 or N: no right client is     *)
(* turned away unless its session was replaced, and no other client's      *)
(* token fits.                                                             *)
TokenFitsItsCaller ==
    \A c \in Clients :
        ~ Idle(c) /\ srvtoken # NULL =>
            (srvtoken = ClientToken(c, TRUE)) =
            (srvtoken.salt = offer[c] /\ (c \in Spoofing \/ Password[c] = P))

(* When authenticate() returns 0 client and server hold the same key, made *)
(* in this very call and not in one of another client that replaced its    *)
(* session, and the server waits for nothing more.                         *)
AuthenticatedMeansShared ==
    [][\A c \in Clients :
        ~ Idle(c) /\ Idle(c)' /\ ret'[c] = "0" =>
            /\ srvkey' = clikey'[c]
            /\ srvtoken' = NULL
            /\ clikey'[c] = ServerKey(c, offer[c])
            /\ sessions = offer[c]]_vars

(* A key the server has established is not lost to finalize() calls, with *)
(* whatever token they come: only a new session or free() takes it away.   *)
SettledSurvivesFinalize ==
    [][srvkey # NULL /\ srvtoken = NULL /\ srvkey' # srvkey =>
        sessions' # sessions \/ \A c \in Clients : Idle(c)]_vars

(* What the comment of finalize() in srp.h says: "On both success and     *)
(* failure, the token created by start() (if any) is forgotten by the      *)
(* server once this function returns." A finalize() without a token, which *)
(* is what a client whose hmac_sha256() failed sends, does not forget it.  *)
FinalizeForgetsToken ==
    [][\A c \in Clients :
        AuthenticateIsRefused(c) \/ AuthenticateSucceeds(c) => srvtoken' = NULL]_vars

(***************************************************************************)
(* Srp implements PasswordAgreement.                                       *)
(***************************************************************************)

Session(c, n) == [who |-> c, n |-> n]

Agreement == INSTANCE PasswordAgreement WITH
    Known <- {c \in Clients : Identity[c] = I},
    Accepted <- {c \in Clients : IsAccepted(c)},
    last <- sessions,
    offered <- IF srvtoken = NULL THEN NULL ELSE Session(caller, sessions),
    settled <- IF srvkey = NULL \/ srvtoken # NULL THEN NULL ELSE Session(caller, sessions),
    holds <- [c \in Clients |-> IF clikey[c] = NULL THEN NULL ELSE Session(c, from[c])]

(* Every behaviour of the code is one of the promise: keys and tokens that *)
(* any caller can replace still give each settled session to the one      *)
(* client it was offered to.                                               *)
ImplementsAgreement == Agreement!Spec
=============================================================================
