----------------------------- MODULE SrpRemote -----------------------------
(***************************************************************************)
(* SRP over TCP: clients whose struct srp_server was made by               *)
(* srp_remote_server_new() (src/src/srp.c) against the sequential server   *)
(* of src/python/srp_server.py.                                            *)
(*                                                                         *)
(* Neither side frames its messages: each send() is answered by a single   *)
(* recv() that may return any part of what has been sent. A message is the *)
(* sequence of the parts at which a cut matters:                           *)
(*    "salt,B"    <<"salt", "B", "b">>    nothing is parsed from the first *)
(*    "I,A"       <<"I", "A", "a">>       part alone; from the first two,  *)
(*                                        a B or an A that lacks digits    *)
(*    the token   <<"T", "t">>, or <<"X", "x">> when it is not the one the *)
(*                server would compute from the whole A                    *)
(*    "OK", "NO"  <<"O", "K">>, <<"N", "O">>                               *)
(* Tokens are equal when the whole of A and of B was read, the passwords   *)
(* are equal and the client's S is exact (Srp, SrpArithmetic).             *)
(* Clients are those of srp_client_new(). The one of break_srp.c, whose A  *)
(* makes the server's S zero, gets an "OK" without the password: see Srp.  *)
(***************************************************************************)
EXTENDS Naturals, Sequences

CONSTANTS
    Clients,
    I, P,               \* the server's --id and --password
    Identity, Password, \* what each client gave to srp_client_new()
    Backlog,            \* how many connections wait to be accepted: listen(0) keeps one
    MaxConns            \* bound: calls to authenticate(), each of which opens at most one connection

Conns == 1 .. MaxConns

ASSUME RemoteAssumption == MaxConns \in Nat /\ Backlog \in Nat \ {0} /\ Clients # {}

VARIABLES
    opened,     \* calls so far, which number their connections
    conn,       \* [Conns -> the two streams and the state of both ends]
    pc,         \* where a client is in authenticate()
    s,          \* the local variable s of srp_remote_server_start(), 0 for -1
    sock,       \* srvinfo->sock, 0 for -1
    wholeB,     \* whether the client parsed the whole of B
    clikey,     \* client->key: the connection it was agreed on, 0 for NULL
    ret,        \* what authenticate() last returned, "none" before
    srv,        \* the server: what it waits for, on which connection, and whether it has the whole A
    backlog,    \* connections the server has not accepted yet
    verified,   \* history: connections whose client the server answered "OK"
    disturbed   \* history: something went wrong outside of what the peers agreed on

clientVars == <<pc, s, sock, wholeB, clikey, ret>>
vars == <<opened, conn, clientVars, srv, backlog, verified, disturbed>>

Hello == <<"I", "A", "a">>
Offer == <<"salt", "B", "b">>
Token == <<"T", "t">>
Other == <<"X", "x">>
Ok    == <<"O", "K">>
No    == <<"N", "O">>

(***************************************************************************)
(* The connections, as the kernel provides them.                           *)
(***************************************************************************)

Unused == [owner |-> CHOOSE c \in Clients : TRUE, c2s |-> <<>>, s2c |-> <<>>,
           cli |-> FALSE, srv |-> FALSE, rst |-> FALSE]

Connected(c) == [owner |-> c, c2s |-> <<>>, s2c |-> <<>>,
                 cli |-> TRUE, srv |-> TRUE, rst |-> FALSE]

(* close() drops unread data and resets the connection for it; so does what *)
(* the peer sends later. "rst" is the server's view: a reset fails a client *)
(* as StartFails and FinalizeFails may at any time.                         *)
ClosedByClient(k) == [k EXCEPT !.cli = FALSE, !.s2c = <<>>,
                               !.rst = k.srv /\ (@ \/ k.s2c # <<>>)]
ClosedByServer(k) == [k EXCEPT !.srv = FALSE, !.c2s = <<>>, !.rst = FALSE]

SentByClient(k, m) == IF k.srv THEN [k EXCEPT !.c2s = @ \o m] ELSE k
SentByServer(k, m) == IF k.cli THEN [k EXCEPT !.s2c = @ \o m] ELSE [k EXCEPT !.rst = TRUE]

(* What one recv() of at most n parts can return, "" meaning end of file. *)
Received(stream, n, peerOpen) ==
    IF stream # <<>>
    THEN {SubSeq(stream, 1, i) : i \in 1 .. (IF Len(stream) < n THEN Len(stream) ELSE n)}
    ELSE IF peerOpen THEN {} ELSE {<<>>}

Rest(stream, part) == SubSeq(stream, Len(part) + 1, Len(stream))

Init ==
    /\ opened = 0
    /\ conn = [n \in Conns |-> Unused]
    /\ pc = [c \in Clients |-> "idle"]
    /\ s = [c \in Clients |-> 0]
    /\ sock = [c \in Clients |-> 0]
    /\ wholeB = [c \in Clients |-> FALSE]
    /\ clikey = [c \in Clients |-> 0]
    /\ ret = [c \in Clients |-> "none"]
    /\ srv = [st |-> "accept", cur |-> 0, wholeA |-> FALSE]
    /\ backlog = <<>>
    /\ verified = {}
    /\ disturbed = FALSE

(***************************************************************************)
(* The client: srp_client_authenticate() over srp_remote_server_start()    *)
(* and srp_remote_server_finalize().                                       *)
(***************************************************************************)

Goto(c, label) == pc' = [pc EXCEPT ![c] = label]

Return(c, code) ==
    /\ Goto(c, "idle")
    /\ ret' = [ret EXCEPT ![c] = code]
    /\ wholeB' = [wholeB EXCEPT ![c] = FALSE]

(* Memory runs out for the parameters or for A, or start() refuses what it *)
(* is given: a previous connection is left open.                           *)
StartRefuses(c) ==
    /\ pc[c] = "idle"
    /\ opened < MaxConns
    /\ opened' = opened + 1
    /\ Return(c, "-1")
    /\ disturbed' = TRUE
    /\ UNCHANGED <<conn, s, sock, clikey, srv, backlog, verified>>

(* Fault: the previous connection is not closed. *)
StartKeepsSocket(c) ==
    /\ pc[c] = "idle"
    /\ opened < MaxConns
    /\ opened' = opened + 1
    /\ s' = [s EXCEPT ![c] = opened']
    /\ sock' = [sock EXCEPT ![c] = 0]
    /\ Goto(c, "connect")
    /\ UNCHANGED <<conn, wholeB, clikey, ret, srv, backlog, verified, disturbed>>

(* start(): a previous connection still open is closed first. *)
Start(c) ==
    /\ pc[c] = "idle"
    /\ opened < MaxConns
    /\ opened' = opened + 1
    /\ s' = [s EXCEPT ![c] = opened']
    /\ sock' = [sock EXCEPT ![c] = 0]
    /\ conn' = IF sock[c] = 0 THEN conn ELSE [conn EXCEPT ![sock[c]] = ClosedByClient(@)]
    /\ Goto(c, "connect")
    /\ UNCHANGED <<wholeB, clikey, ret, srv, backlog, verified, disturbed>>

Connect(c) ==
    /\ pc[c] = "connect"
    /\ srv.st # "dead"
    /\ Len(backlog) < Backlog
    /\ conn' = [conn EXCEPT ![s[c]] = Connected(c)]
    /\ backlog' = Append(backlog, s[c])
    /\ Goto(c, "send")
    /\ UNCHANGED <<opened, s, sock, wholeB, clikey, ret, srv, verified, disturbed>>

(* No address, nobody listening, or no room in the backlog until connect()  *)
(* timed out.                                                               *)
ConnectFails(c) ==
    /\ pc[c] = "connect"
    /\ s' = [s EXCEPT ![c] = 0]
    /\ disturbed' = TRUE
    /\ Return(c, "-1")
    /\ UNCHANGED <<opened, conn, sock, clikey, srv, backlog, verified>>

SendHello(c) ==
    /\ pc[c] = "send"
    /\ conn' = [conn EXCEPT ![s[c]] = SentByClient(@, Hello)]
    /\ Goto(c, "recv")
    /\ UNCHANGED <<opened, s, sock, wholeB, clikey, ret, srv, backlog, verified, disturbed>>

(* Every goto cleanup of start() once connected: s is closed. *)
StartCleanup(c) ==
    /\ conn' = [conn EXCEPT ![s[c]] = ClosedByClient(@)]
    /\ s' = [s EXCEPT ![c] = 0]
    /\ Return(c, "-1")

(* Memory runs out before the send(), or the send() or the recv() fails. *)
StartFails(c) ==
    /\ pc[c] \in {"send", "recv"}
    /\ StartCleanup(c)
    /\ disturbed' = TRUE
    /\ UNCHANGED <<opened, sock, clikey, srv, backlog, verified>>

(* One recv(). Without a comma in it, and at end of file, start() fails;    *)
(* else it takes what follows the comma for B and keeps the socket.         *)
RecvOffer(c) ==
    /\ pc[c] = "recv"
    /\ LET k == conn[s[c]] IN
       \E part \in Received(k.s2c, 3, k.srv) :
        /\ \/ /\ Len(part) < 2
              /\ conn' = [conn EXCEPT
                    ![s[c]] = ClosedByClient([@ EXCEPT !.s2c = Rest(k.s2c, part)])]
              /\ Return(c, "-1")
              /\ UNCHANGED sock
           \/ /\ Len(part) >= 2
              /\ conn' = [conn EXCEPT ![s[c]].s2c = Rest(k.s2c, part)]
              /\ sock' = [sock EXCEPT ![c] = s[c]]
              /\ wholeB' = [wholeB EXCEPT ![c] = part = Offer]
              /\ Goto(c, "compute")
              /\ UNCHANGED ret
        /\ disturbed' = (disturbed \/ part \notin {<<>>, Offer})
    /\ s' = [s EXCEPT ![c] = 0]
    /\ UNCHANGED <<opened, clikey, srv, backlog, verified>>

(* u, S, K or the token could not be computed, or the send() of finalize()  *)
(* failed: authenticate() returns, and the socket stays open.               *)
FinalizeFails(c) ==
    /\ pc[c] \in {"compute", "verdict"}
    /\ Return(c, "-1")
    /\ disturbed' = TRUE
    /\ UNCHANGED <<opened, conn, s, sock, clikey, srv, backlog, verified>>

(* HMAC(K, salt), where K is right or not. *)
TokenOf(c, exact) == IF exact /\ wholeB[c] /\ Password[c] = P THEN Token ELSE Other

SendToken(c) ==
    /\ pc[c] = "compute"
    /\ \E exact \in BOOLEAN :
        /\ conn' = [conn EXCEPT ![sock[c]] = SentByClient(@, TokenOf(c, exact))]
        /\ disturbed' = (disturbed \/ ~ exact)
    /\ Goto(c, "verdict")
    /\ UNCHANGED <<opened, s, sock, wholeB, clikey, ret, srv, backlog, verified>>

(* Fault: whatever is not "NO" is a success. *)
RecvVerdictNotNo(c) ==
    /\ pc[c] = "verdict"
    /\ LET k == conn[sock[c]] IN
       \E part \in Received(k.s2c, 2, k.srv) :
        /\ conn' = [conn EXCEPT ![sock[c]].s2c = Rest(k.s2c, part)]
        /\ \/ part # No /\ Return(c, "0") /\ clikey' = [clikey EXCEPT ![c] = sock[c]]
           \/ part = No /\ Return(c, "-1") /\ UNCHANGED clikey
        /\ disturbed' = (disturbed \/ part \notin {<<>>, Ok, No})
    /\ UNCHANGED <<opened, s, sock, srv, backlog, verified>>

(* One recv() of at most two bytes, which has to be "OK". *)
RecvVerdict(c) ==
    /\ pc[c] = "verdict"
    /\ LET k == conn[sock[c]] IN
       \E part \in Received(k.s2c, 2, k.srv) :
        /\ conn' = [conn EXCEPT ![sock[c]].s2c = Rest(k.s2c, part)]
        /\ \/ part = Ok /\ Return(c, "0") /\ clikey' = [clikey EXCEPT ![c] = sock[c]]
           \/ part # Ok /\ Return(c, "-1") /\ UNCHANGED clikey
        /\ disturbed' = (disturbed \/ part \notin {<<>>, Ok, No})
    /\ UNCHANGED <<opened, s, sock, srv, backlog, verified>>

(* Fault: the socket forgotten, not closed. *)
FreeForgetsSocket(c) ==
    /\ pc[c] = "idle"
    /\ sock[c] # 0
    /\ sock' = [sock EXCEPT ![c] = 0]
    /\ UNCHANGED <<opened, conn, pc, s, wholeB, clikey, ret, srv, backlog, verified, disturbed>>

(* server->free(): the only other place where the socket is closed. *)
Free(c) ==
    /\ pc[c] = "idle"
    /\ sock[c] # 0
    /\ conn' = [conn EXCEPT ![sock[c]] = ClosedByClient(@)]
    /\ sock' = [sock EXCEPT ![c] = 0]
    /\ UNCHANGED <<opened, pc, s, wholeB, clikey, ret, srv, backlog, verified, disturbed>>

(***************************************************************************)
(* The server: the accept() loop of srp_server.py around srp(). Whatever   *)
(* srp() raises goes through both finally clauses and ends the process.    *)
(***************************************************************************)

Accept ==
    /\ srv.st = "accept"
    /\ backlog # <<>>
    /\ srv' = [st |-> "hello", cur |-> Head(backlog), wholeA |-> FALSE]
    /\ backlog' = Tail(backlog)
    /\ UNCHANGED <<opened, conn, clientVars, verified, disturbed>>

(* client.close(), then server.close(): the waiting connections are reset. *)
Dies ==
    /\ srv' = [st |-> "dead", cur |-> 0, wholeA |-> FALSE]
    /\ conn' = [n \in Conns |-> IF conn[n].srv THEN ClosedByServer(conn[n]) ELSE conn[n]]
    /\ backlog' = <<>>

(* Fault: the connection is left open. *)
AcceptWithoutClose(k) ==
    /\ srv' = [st |-> "accept", cur |-> 0, wholeA |-> FALSE]
    /\ conn' = [conn EXCEPT ![srv.cur] = k]
    /\ UNCHANGED backlog

CloseAndAccept(k) ==
    /\ srv' = [st |-> "accept", cur |-> 0, wholeA |-> FALSE]
    /\ conn' = [conn EXCEPT ![srv.cur] = ClosedByServer(k)]
    /\ UNCHANGED backlog

(* Fault: a wrong identity raises too. *)
RecvHelloRaises ==
    /\ srv.st = "hello"
    /\ LET k == conn[srv.cur] IN
       \E part \in Received(k.c2s, Len(Hello), k.cli) :
        LET read == [k EXCEPT !.c2s = Rest(k.c2s, part)] IN
        /\ \/ /\ Len(part) < 2 \/ Identity[k.owner] # I
              /\ Dies
           \/ /\ Len(part) >= 2
              /\ Identity[k.owner] = I
              /\ conn' = [conn EXCEPT ![srv.cur] = SentByServer(read, Offer)]
              /\ srv' = [srv EXCEPT !.st = "token", !.wholeA = part = Hello]
              /\ UNCHANGED backlog
        /\ disturbed' = (disturbed \/ part \notin {<<>>, Hello})
    /\ UNCHANGED <<opened, clientVars, verified>>

(* Without a comma, split(",") does not give two parts: ValueError. An     *)
(* identity that is not the server's gets no answer.                       *)
RecvHello ==
    /\ srv.st = "hello"
    /\ LET k == conn[srv.cur] IN
       \E part \in Received(k.c2s, Len(Hello), k.cli) :
        LET read == [k EXCEPT !.c2s = Rest(k.c2s, part)] IN
        /\ \/ Len(part) < 2 /\ Dies
           \/ /\ Len(part) >= 2
              /\ Identity[k.owner] # I
              /\ CloseAndAccept(read)
           \/ /\ Len(part) >= 2
              /\ Identity[k.owner] = I
              /\ conn' = [conn EXCEPT ![srv.cur] = SentByServer(read, Offer)]
              /\ srv' = [srv EXCEPT !.st = "token", !.wholeA = part = Hello]
              /\ UNCHANGED backlog
        /\ disturbed' = (disturbed \/ part \notin {<<>>, Hello})
    /\ UNCHANGED <<opened, clientVars, verified>>

(* At end of file the token is empty, and refused as any other. *)
RecvToken ==
    /\ srv.st = "token"
    /\ LET k == conn[srv.cur] IN
       \E part \in Received(k.c2s, 4, k.cli) :
        LET equal == srv.wholeA /\ part = Token
            read == [k EXCEPT !.c2s = Rest(k.c2s, part)] IN
        /\ CloseAndAccept(SentByServer(read, IF equal THEN Ok ELSE No))
        /\ verified' = IF equal THEN verified \union {srv.cur} ELSE verified
        /\ disturbed' = (disturbed \/ part \notin {<<>>, Token, Other})
    /\ UNCHANGED <<opened, clientVars>>

(* recv() or sendall() on a connection that was reset raises. *)
ServerReset ==
    /\ srv.st \in {"hello", "token"}
    /\ conn[srv.cur].rst
    /\ Dies
    /\ UNCHANGED <<opened, clientVars, verified, disturbed>>

Server == Accept \/ RecvHello \/ RecvToken \/ ServerReset

Next ==
    \/ \E c \in Clients :
        \/ StartRefuses(c) \/ Start(c) \/ Connect(c) \/ ConnectFails(c) \/ SendHello(c)
        \/ StartFails(c) \/ RecvOffer(c) \/ FinalizeFails(c) \/ SendToken(c) \/ RecvVerdict(c) \/ Free(c)
    \/ Server

Spec == Init /\ [][Next]_vars

(***************************************************************************)
(* Fairness: a process takes its next step when it is not blocked.         *)
(* connect() returns sooner or later; a program sooner or later frees the  *)
(* server, or starts again, which closes the socket too.                   *)
(***************************************************************************)

Fairness ==
    /\ \A c \in Clients :
        /\ WF_vars(Connect(c) \/ ConnectFails(c))
        /\ WF_vars(SendHello(c))
        /\ WF_vars(RecvOffer(c))
        /\ WF_vars(SendToken(c))
        /\ WF_vars(RecvVerdict(c))
        /\ WF_vars(Free(c))
    /\ WF_vars(Server)

FairSpec == Spec /\ Fairness

(***************************************************************************)
(* Properties.                                                             *)
(***************************************************************************)

(* A client of srp_client_new() that was returned 0 shares its key with    *)
(* the server: the server compared, on that very connection, a token made  *)
(* from the whole A, B and the right password, and nothing a cut left in   *)
(* the stream passes for an "OK".                                          *)
SuccessWasVerified ==
    \A c \in Clients : clikey[c] # 0 =>
        /\ clikey[c] \in verified
        /\ conn[clikey[c]].owner = c
        /\ Identity[c] = I /\ Password[c] = P

(* Every socket the client side holds open is srvinfo->sock, or the s of a *)
(* start() in progress: none is forgotten, whatever fails.                 *)
NoSocketLeaks ==
    \A n \in Conns : conn[n].cli =>
        LET c == conn[n].owner IN sock[c] = n \/ (s[c] = n /\ pc[c] \in {"send", "recv"})

(* As long as every recv() returns a whole message, no memory runs out and *)
(* no connect() fails, the server lives and only a client with wrong       *)
(* credentials is turned away.                                             *)
UndisturbedSucceeds ==
    ~ disturbed =>
        /\ srv.st # "dead"
        /\ \A c \in Clients :
            ret[c] = "-1" => Identity[c] # I \/ Password[c] # P

(* Every authenticate() returns, as long as nobody keeps a connection that *)
(* its finalize() has abandoned.                                           *)
AuthenticateReturns == \A c \in Clients : pc[c] # "idle" ~> pc[c] = "idle"

(* The server gets back to accept(), unless it dies. *)
ServerGetsBack == srv.st \in {"hello", "token"} ~> srv.st \in {"accept", "dead"}
=============================================================================
