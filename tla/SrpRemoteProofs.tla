-------------------------- MODULE SrpRemoteProofs --------------------------
(***************************************************************************)
(* SRP over TCP, for any number of clients and connections: a client that  *)
(* is told that it succeeded was verified, on the connection it holds; no  *)
(* socket is forgotten; and where nothing was cut, lost or reset, only     *)
(* wrong credentials make it fail. The clients are those of                *)
(* srp_client_new(), whose tokens depend on the password.                  *)
(***************************************************************************)
EXTENDS SrpRemote, TLAPS

Parts == {"salt", "B", "b", "I", "A", "a", "T", "t", "X", "x", "O", "K", "N"}

Connection ==
    [owner : Clients, c2s : Seq(Parts), s2c : Seq(Parts),
     cli : BOOLEAN, srv : BOOLEAN, rst : BOOLEAN]

TypeInv ==
    /\ opened \in 0 .. MaxConns
    /\ conn \in [Conns -> Connection]
    /\ pc \in [Clients -> {"idle", "connect", "send", "recv", "compute", "verdict"}]
    /\ s \in [Clients -> 0 .. MaxConns]
    /\ sock \in [Clients -> 0 .. MaxConns]
    /\ wholeB \in [Clients -> BOOLEAN]
    /\ clikey \in [Clients -> 0 .. MaxConns]
    /\ srv \in [st : {"accept", "hello", "token", "dead"}, cur : 0 .. MaxConns, wholeA : BOOLEAN]
    /\ backlog \in Seq(Conns)
    /\ verified \subseteq Conns

Has(stream, part) == \E i \in DOMAIN stream : stream[i] = part

(* A connection that nobody has connected yet. *)
Fresh(n) ==
    /\ ~conn[n].cli
    /\ ~Has(backlog, n) /\ n # srv.cur /\ n \notin verified
    /\ \A c \in Clients : sock[c] # n /\ clikey[c] # n

(* Which of its two variables holds a client's connection, and when; a     *)
(* connection belongs to one client.                                       *)
Holding(c) ==
    /\ s[c] <= opened /\ sock[c] <= opened
    /\ pc[c] \in {"connect", "send", "recv"} => s[c] # 0 /\ sock[c] = 0
    /\ pc[c] \in {"compute", "verdict"} => s[c] = 0 /\ sock[c] # 0
    /\ pc[c] = "idle" => s[c] = 0
    /\ sock[c] # 0 => conn[sock[c]].owner = c
    /\ pc[c] \in {"send", "recv"} => conn[s[c]].owner = c
    /\ pc[c] = "connect" => Fresh(s[c])
    /\ \A d \in Clients : s[c] # 0 /\ s[d] = s[c] => d = c

SocketInv ==
    /\ \A c \in Clients : Holding(c)
    /\ \A n \in Conns : n > opened => Fresh(n)
    /\ srv.st \in {"hello", "token"} => srv.cur # 0

(* What the streams and the variables of the server say of who is at the   *)
(* other end.                                                              *)
Entitled(n) == Identity[conn[n].owner] = I /\ Password[conn[n].owner] = P

ProofInv ==
    /\ \A n \in verified : Entitled(n)
    /\ \A n \in Conns : Has(conn[n].s2c, "K") => n \in verified
    /\ \A n \in Conns : Has(conn[n].c2s, "T") => Password[conn[n].owner] = P
    /\ srv.st = "token" => Identity[conn[srv.cur].owner] = I
    /\ \A c \in Clients : clikey[c] # 0 => clikey[c] \in verified /\ conn[clikey[c]].owner = c

IInv == TypeInv /\ SocketInv /\ ProofInv /\ NoSocketLeaks

(***************************************************************************)
(* Streams.                                                                *)
(***************************************************************************)

(* The messages, and which of them hold what counts. *)
LEMMA Messages ==
    /\ Hello \in Seq(Parts) /\ Offer \in Seq(Parts) /\ Token \in Seq(Parts)
    /\ Other \in Seq(Parts) /\ Ok \in Seq(Parts) /\ No \in Seq(Parts)
    /\ ~Has(Hello, "T") /\ ~Has(Offer, "K") /\ ~Has(Other, "T") /\ ~Has(No, "K")
    /\ Has(Ok, "K") /\ Has(Token, "T")
<1>1. /\ Hello \in Seq(Parts) /\ Offer \in Seq(Parts) /\ Token \in Seq(Parts)
      /\ Other \in Seq(Parts) /\ Ok \in Seq(Parts) /\ No \in Seq(Parts)
  BY DEF Hello, Offer, Token, Other, Ok, No, Parts
<1>2. ~Has(Hello, "T") /\ ~Has(Offer, "K") /\ ~Has(Other, "T") /\ ~Has(No, "K")
  BY DEF Has, Hello, Offer, Other, No
<1>3. Has(Ok, "K")
  <2>1. 2 \in DOMAIN Ok /\ Ok[2] = "K"
    BY DEF Ok
  <2> QED
    BY <2>1 DEF Has
<1>4. Has(Token, "T")
  <2>1. 1 \in DOMAIN Token /\ Token[1] = "T"
    BY DEF Token
  <2> QED
    BY <2>1 DEF Has
<1> QED
  BY <1>1, <1>2, <1>3, <1>4

(* What is sent after what was there. *)
LEMMA HasOfJoined ==
    ASSUME NEW a \in Seq(Parts), NEW b \in Seq(Parts), NEW x, Has(a \o b, x)
    PROVE  Has(a, x) \/ Has(b, x)
<1>1. PICK i \in 1 .. Len(a) + Len(b) : (a \o b)[i] = x
  BY DEF Has
<1>2. CASE i <= Len(a)
  BY <1>1, <1>2 DEF Has
<1>3. CASE ~(i <= Len(a))
  <2>1. i - Len(a) \in 1 .. Len(b) /\ b[i - Len(a)] = x
    BY <1>1, <1>3
  <2> QED
    BY <2>1 DEF Has
<1> QED
  BY <1>2, <1>3

(* What one recv() returns, and what it leaves, was in the stream. *)
LEMMA HasOfReceived ==
    ASSUME NEW stream \in Seq(Parts), NEW n \in Nat, NEW open, NEW part \in Received(stream, n, open)
    PROVE  /\ part \in Seq(Parts) /\ Rest(stream, part) \in Seq(Parts)
           /\ \A x : Has(part, x) => Has(stream, x)
           /\ \A x : Has(Rest(stream, part), x) => Has(stream, x)
<1>1. CASE stream = <<>>
  <2>1. part = <<>>
    BY <1>1 DEF Received
  <2>2. Rest(stream, part) = <<>>
    BY <1>1, <2>1 DEF Rest
  <2>3. <<>> \in Seq(Parts) /\ \A x : ~Has(<<>>, x)
    BY DEF Has
  <2> QED
    BY <2>1, <2>2, <2>3
<1>2. CASE stream # <<>>
  <2>1. PICK i \in 1 .. Len(stream) : part = SubSeq(stream, 1, i)
    BY <1>2 DEF Received
  <2>2. /\ part \in Seq(Parts) /\ Len(part) = i
        /\ \A j \in 1 .. i : part[j] = stream[j]
    BY <2>1
  <2> DEFINE rest == SubSeq(stream, i + 1, Len(stream))
  <2>3. /\ rest \in Seq(Parts) /\ Len(rest) = Len(stream) - i
        /\ \A j \in 1 .. Len(stream) - i : rest[j] = stream[i + j]
    OBVIOUS
  <2>4. Rest(stream, part) = rest
    BY <2>2 DEF Rest
  <2> HIDE DEF rest
  <2>5. ASSUME NEW x, Has(part, x) PROVE Has(stream, x)
    BY <2>2, <2>5 DEF Has
  <2>6. ASSUME NEW x, Has(rest, x) PROVE Has(stream, x)
    <3>1. PICK j \in 1 .. Len(stream) - i : rest[j] = x
      BY <2>3, <2>6 DEF Has
    <3>2. i + j \in 1 .. Len(stream) /\ stream[i + j] = x
      BY <2>3, <3>1
    <3> QED
      BY <3>2 DEF Has
  <2> QED
    BY <2>2, <2>3, <2>4, <2>5, <2>6
<1> QED
  BY <1>1, <1>2

(* What is done to a connection changes the owner of none. *)
LEMMA Closing ==
    ASSUME NEW k \in Connection
    PROVE  /\ ClosedByClient(k) \in Connection /\ ClosedByServer(k) \in Connection
           /\ ClosedByClient(k).owner = k.owner /\ ClosedByServer(k).owner = k.owner
           /\ ClosedByClient(k).cli = FALSE /\ ClosedByServer(k).cli = k.cli
           /\ ClosedByClient(k).c2s = k.c2s /\ ClosedByServer(k).s2c = k.s2c
           /\ ClosedByClient(k).s2c = <<>> /\ ClosedByServer(k).c2s = <<>>
<1>1. <<>> \in Seq(Parts)
  OBVIOUS
<1>2. (k.srv /\ (k.rst \/ k.s2c # <<>>)) \in BOOLEAN
  OBVIOUS
<1> QED
  BY <1>1, <1>2 DEF ClosedByClient, ClosedByServer, Connection

(* Nor does sending. *)
LEMMA Sending ==
    ASSUME NEW k \in Connection, NEW m \in Seq(Parts)
    PROVE  /\ SentByClient(k, m) \in Connection /\ SentByServer(k, m) \in Connection
           /\ SentByClient(k, m).owner = k.owner /\ SentByServer(k, m).owner = k.owner
           /\ SentByClient(k, m).cli = k.cli /\ SentByServer(k, m).cli = k.cli
           /\ SentByClient(k, m).s2c = k.s2c /\ SentByServer(k, m).c2s = k.c2s
           /\ \A x : Has(SentByClient(k, m).c2s, x) => Has(k.c2s, x) \/ Has(m, x)
           /\ \A x : Has(SentByServer(k, m).s2c, x) => Has(k.s2c, x) \/ Has(m, x)
<1>1. /\ k.c2s \in Seq(Parts) /\ k.s2c \in Seq(Parts)
      /\ k.c2s \o m \in Seq(Parts) /\ k.s2c \o m \in Seq(Parts)
  BY DEF Connection
<1>2. /\ \A x : Has(k.c2s \o m, x) => Has(k.c2s, x) \/ Has(m, x)
      /\ \A x : Has(k.s2c \o m, x) => Has(k.s2c, x) \/ Has(m, x)
  BY <1>1, HasOfJoined
<1>3. /\ SentByClient(k, m) \in Connection /\ SentByServer(k, m) \in Connection
      /\ SentByClient(k, m).owner = k.owner /\ SentByServer(k, m).owner = k.owner
      /\ SentByClient(k, m).cli = k.cli /\ SentByServer(k, m).cli = k.cli
      /\ SentByClient(k, m).s2c = k.s2c /\ SentByServer(k, m).c2s = k.c2s
      /\ SentByClient(k, m).c2s \in {k.c2s, k.c2s \o m}
      /\ SentByServer(k, m).s2c \in {k.s2c, k.s2c \o m}
  BY <1>1 DEF SentByClient, SentByServer, Connection
<1> QED
  BY <1>2, <1>3

(***************************************************************************)
(* What every step but connect() does to the connections: none changes     *)
(* hands, none is opened, and what counts is sent only by who may send it. *)
(***************************************************************************)

Kept(n) ==
    /\ conn'[n].owner = conn[n].owner
    /\ conn'[n].cli => conn[n].cli
    /\ Has(conn'[n].s2c, "K") => Has(conn[n].s2c, "K") \/ n \in verified'
    /\ Has(conn'[n].c2s, "T") => Has(conn[n].c2s, "T") \/ Password[conn[n].owner] = P

StreamStep ==
    /\ conn' \in [Conns -> Connection]
    /\ \A n \in Conns : Kept(n)

LEMMA OneChanges ==
    ASSUME TypeInv, NEW n \in Conns, NEW k \in Connection,
           conn' = [conn EXCEPT ![n] = k],
           k.owner = conn[n].owner,
           k.cli => conn[n].cli,
           Has(k.s2c, "K") => Has(conn[n].s2c, "K") \/ n \in verified',
           Has(k.c2s, "T") => Has(conn[n].c2s, "T") \/ Password[k.owner] = P
    PROVE  StreamStep
<1>1. conn \in [Conns -> Connection]
  BY DEF TypeInv
<1>2. conn' \in [Conns -> Connection] /\ conn'[n] = k /\ \A m \in Conns \ {n} : conn'[m] = conn[m]
  BY <1>1
<1>3. ASSUME NEW m \in Conns PROVE Kept(m)
  <2>1. CASE m = n
    BY <1>2, <2>1 DEF Kept
  <2>2. CASE m # n
    BY <1>2, <2>2 DEF Kept
  <2> QED
    BY <2>1, <2>2
<1> QED
  BY <1>2, <1>3 DEF StreamStep

LEMMA NoneChanges == ASSUME TypeInv, conn' = conn PROVE StreamStep
BY DEF StreamStep, Kept, TypeInv

(* What is proved of a server's and a client's answers. *)
LEMMA ProofKept ==
    ASSUME TypeInv, ProofInv, StreamStep, verified \subseteq verified',
           \A n \in verified' : n \in Conns /\ Entitled(n),
           srv'.st = "token" => srv'.cur \in Conns /\ Identity[conn[srv'.cur].owner] = I,
           \A c \in Clients : clikey'[c] # 0 =>
                clikey'[c] \in verified' /\ conn[clikey'[c]].owner = c
    PROVE  ProofInv'
<1>1. \A n \in verified' : Entitled(n)'
  BY DEF StreamStep, Kept, Entitled
<1>2. \A n \in Conns : Has(conn'[n].s2c, "K") => n \in verified'
  BY DEF StreamStep, Kept, ProofInv
<1>3. \A n \in Conns : Has(conn'[n].c2s, "T") => Password[conn'[n].owner] = P
  BY DEF StreamStep, Kept, ProofInv
<1>4. srv'.st = "token" => Identity[conn'[srv'.cur].owner] = I
  BY DEF StreamStep, Kept
<1>5. \A c \in Clients : clikey'[c] # 0 => clikey'[c] \in verified' /\ conn'[clikey'[c]].owner = c
  BY DEF StreamStep, Kept
<1> QED
  BY <1>1, <1>2, <1>3, <1>4, <1>5 DEF ProofInv

(* A step of a client other than start() and connect(), which moves its    *)
(* connection from one of its variables to the other or drops it.          *)
LEMMA ClientKeeps ==
    ASSUME IInv, NEW c \in Clients, StreamStep, TypeInv',
           UNCHANGED <<opened, srv, backlog, verified>>,
           \A d \in Clients \ {c} :
                pc'[d] = pc[d] /\ s'[d] = s[d] /\ sock'[d] = sock[d] /\ clikey'[d] = clikey[d],
           clikey'[c] \in {clikey[c], sock[c]},
           s'[c] \in {0, s[c]}, sock'[c] \in {0, sock[c], s[c]},
           sock'[c] # sock[c] /\ sock'[c] # 0 => pc[c] \in {"send", "recv"},
           pc'[c] \in {"send", "recv"} => pc[c] \in {"send", "recv"} /\ s'[c] # 0 /\ sock'[c] = 0,
           pc'[c] \in {"compute", "verdict"} => s'[c] = 0 /\ sock'[c] # 0,
           pc'[c] = "idle" => s'[c] = 0,
           pc'[c] # "connect",
           \A n \in Conns : conn'[n].cli /\ (sock[c] = n \/ (s[c] = n /\ pc[c] \in {"send", "recv"})) =>
                sock'[c] = n \/ (s'[c] = n /\ pc'[c] \in {"send", "recv"})
    PROVE  SocketInv' /\ NoSocketLeaks'
<1> USE DEF IInv
<1>1. ASSUME NEW n \in Conns, Fresh(n), n # s[c] \/ pc[c] \notin {"send", "recv"} PROVE Fresh(n)'
  <2>1. sock'[c] # n /\ clikey'[c] # n
    <3>1. n # 0 /\ sock[c] # n /\ clikey[c] # n
      BY <1>1 DEF Fresh, Conns
    <3> QED
      BY <3>1, <1>1
  <2> QED
    BY <1>1, <2>1 DEF Fresh, StreamStep, Kept
<1>2. ASSUME NEW d \in Clients PROVE Holding(d)'
  <2>0. /\ s[c] \in 0 .. MaxConns /\ s[d] \in 0 .. MaxConns
        /\ sock[c] \in 0 .. MaxConns /\ sock[d] \in 0 .. MaxConns
        /\ opened \in 0 .. MaxConns
        /\ Holding(c) /\ Holding(d)
    BY DEF TypeInv, SocketInv
  <2>1. CASE d = c
    <3>1. s'[c] <= opened' /\ sock'[c] <= opened'
      BY <2>0 DEF Holding
    <3>2. sock'[c] # 0 => conn'[sock'[c]].owner = c
      BY <2>0 DEF Holding, StreamStep, Kept, Conns
    <3>3. pc'[c] \in {"send", "recv"} => conn'[s'[c]].owner = c
      BY <2>0 DEF Holding, StreamStep, Kept, Conns
    <3>4. \A e \in Clients : s'[c] # 0 /\ s'[e] = s'[c] => e = c
      BY <2>0 DEF Holding
    <3> QED
      BY <2>1, <3>1, <3>2, <3>3, <3>4 DEF Holding
  <2>2. CASE d # c
    <3>1. sock'[d] # 0 => conn'[sock'[d]].owner = d
      BY <2>0, <2>2 DEF Holding, StreamStep, Kept, Conns
    <3>2. pc'[d] \in {"send", "recv"} => conn'[s'[d]].owner = d
      BY <2>0, <2>2 DEF Holding, StreamStep, Kept, Conns
    <3>3. \A e \in Clients : s'[d] # 0 /\ s'[e] = s'[d] => e = d
      BY <2>0, <2>2 DEF Holding
    <3>4. (pc[d] = "connect" => Fresh(s[d]))'
      <4>1. ASSUME NEW n \in Conns, pc[d] = "connect", n = s[d] PROVE Fresh(n)'
        <5>1. Fresh(n) /\ n # s[c]
          BY <2>0, <2>2, <4>1 DEF Holding, Conns
        <5> QED
          BY <5>1, <1>1
      <4>2. pc[d] = "connect" => s[d] \in Conns
        BY <2>0 DEF Holding, Conns
      <4> QED
        BY <4>1, <4>2, <2>2
    <3> QED
      BY <2>0, <2>2, <3>1, <3>2, <3>3, <3>4 DEF Holding
  <2> QED
    BY <2>1, <2>2
<1>3. ASSUME NEW n \in Conns, n > opened' PROVE Fresh(n)'
  <2>1. Fresh(n) /\ n # s[c]
    <3>1. s[c] <= opened /\ opened \in Nat /\ s[c] \in Nat /\ n \in Nat
      BY DEF SocketInv, Holding, TypeInv, Conns
    <3> QED
      BY <3>1, <1>3 DEF SocketInv
  <2> QED
    BY <2>1, <1>1
<1>4. srv'.st \in {"hello", "token"} => srv'.cur # 0
  BY DEF SocketInv
<1>5. NoSocketLeaks'
  <2>1. ASSUME NEW n \in Conns, conn'[n].cli,  NEW e, e = conn'[n].owner
        PROVE  sock'[e] = n \/ (s'[e] = n /\ pc'[e] \in {"send", "recv"})
    <3>1. conn[n].cli /\ e = conn[n].owner /\ e \in Clients
      BY <2>1 DEF StreamStep, Kept, Connection
    <3>2. sock[e] = n \/ (s[e] = n /\ pc[e] \in {"send", "recv"})
      BY <3>1 DEF NoSocketLeaks
    <3> QED
      BY <3>1, <3>2, <2>1
  <2> QED
    BY <2>1 DEF NoSocketLeaks
<1> QED
  BY <1>2, <1>3, <1>4, <1>5 DEF SocketInv

(* A step of the server, which may take the next connection from the       *)
(* backlog, verify the one it has, or both give up.                        *)
LEMMA ServerKeeps ==
    ASSUME IInv, StreamStep, TypeInv', UNCHANGED <<opened, clientVars>>,
           \A n \in Conns : Has(backlog', n) => Has(backlog, n),
           srv'.cur \in {0, srv.cur} \/ Has(backlog, srv'.cur),
           srv'.st \in {"hello", "token"} => srv'.cur # 0,
           \A n \in verified' : n \in verified \/ n = srv.cur
    PROVE  SocketInv' /\ NoSocketLeaks'
<1> USE DEF IInv
<1>1. ASSUME NEW n \in Conns, Fresh(n) PROVE Fresh(n)'
  <2>1. n # srv'.cur
    BY <1>1 DEF Fresh, Conns
  <2>2. ~Has(backlog', n) /\ n \notin verified'
    BY <1>1 DEF Fresh
  <2>3. ~conn'[n].cli
    BY <1>1 DEF Fresh, StreamStep, Kept
  <2>4. \A c \in Clients : sock'[c] # n /\ clikey'[c] # n
    BY <1>1 DEF Fresh, clientVars
  <2> QED
    BY <2>1, <2>2, <2>3, <2>4 DEF Fresh
<1>2. ASSUME NEW d \in Clients PROVE Holding(d)'
  <2>0. /\ s[d] \in 0 .. MaxConns /\ sock[d] \in 0 .. MaxConns
        /\ Holding(d)
        /\ pc' = pc /\ s' = s /\ sock' = sock
    BY DEF TypeInv, SocketInv, clientVars
  <2>1. sock'[d] # 0 => conn'[sock'[d]].owner = d
    BY <2>0 DEF Holding, StreamStep, Kept, Conns
  <2>2. pc'[d] \in {"send", "recv"} => conn'[s'[d]].owner = d
    BY <2>0 DEF Holding, StreamStep, Kept, Conns
  <2>3. (pc[d] = "connect" => Fresh(s[d]))'
    <3>1. ASSUME NEW n \in Conns, pc[d] = "connect", n = s[d] PROVE Fresh(n)'
      <4>1. Fresh(n)
        BY <2>0, <3>1 DEF Holding
      <4> QED
        BY <4>1, <1>1
    <3>2. pc[d] = "connect" => s[d] \in Conns
      BY <2>0 DEF Holding, Conns
    <3> QED
      BY <3>1, <3>2, <2>0
  <2> QED
    BY <2>0, <2>1, <2>2, <2>3 DEF Holding
<1>3. ASSUME NEW n \in Conns, n > opened' PROVE Fresh(n)'
  BY <1>1, <1>3 DEF SocketInv
<1>4. NoSocketLeaks'
  BY DEF NoSocketLeaks, StreamStep, Kept, clientVars
<1> QED
  BY <1>2, <1>3, <1>4 DEF SocketInv

(***************************************************************************)
(* The client's steps.                                                     *)
(***************************************************************************)

LEMMA StartInv ==
    ASSUME IInv, NEW c \in Clients, Start(c)
    PROVE  IInv'
<1> USE DEF IInv
<1>n. PICK n \in Conns : n = opened + 1
  BY RemoteAssumption DEF Start, TypeInv, Conns
<1>0. /\ opened \in Nat /\ MaxConns \in Nat /\ n > opened /\ opened' = n
      /\ \A d \in Clients : s[d] \in 0 .. MaxConns /\ sock[d] \in 0 .. MaxConns /\ Holding(d)
      /\ s[c] = 0 /\ pc[c] = "idle"
  BY <1>n, RemoteAssumption DEF Start, TypeInv, SocketInv, Conns, Holding
<1>1. StreamStep
  <2>1. CASE sock[c] = 0
    BY <2>1, NoneChanges DEF Start
  <2>2. CASE sock[c] # 0
    <3>1. sock[c] \in Conns /\ conn[sock[c]] \in Connection
      BY <2>2, <1>0 DEF TypeInv, Conns
    <3>2. ~Has(<<>>, "K")
      BY DEF Has
    <3>3. conn' = [conn EXCEPT ![sock[c]] = ClosedByClient(conn[sock[c]])]
      BY <2>2 DEF Start
    <3> QED
      BY <3>1, <3>2, <3>3, Closing, OneChanges
  <2> QED
    BY <2>1, <2>2
<1>2. TypeInv'
  BY <1>0, <1>1 DEF TypeInv, Start, StreamStep, Goto, Conns
<1>3. ProofInv'
  <2>1. /\ \A m \in verified' : m \in Conns /\ Entitled(m)
        /\ srv'.st = "token" => srv'.cur \in Conns /\ Identity[conn[srv'.cur].owner] = I
        /\ \A d \in Clients : clikey'[d] # 0 => clikey'[d] \in verified' /\ conn[clikey'[d]].owner = d
    BY DEF Start, ProofInv, TypeInv, SocketInv, Conns
  <2> QED
    BY <2>1, <1>1, ProofKept DEF Start
<1>4. ASSUME NEW m \in Conns, Fresh(m) PROVE Fresh(m)'
  <2>1. m # 0
    BY DEF Conns
  <2>2. \A d \in Clients : sock'[d] # m /\ clikey'[d] # m
    BY <2>1, <1>4 DEF Fresh, Start, TypeInv
  <2> QED
    BY <2>2, <1>1, <1>4 DEF Fresh, Start, StreamStep, Kept
<1>5. /\ s' = [s EXCEPT ![c] = n] /\ sock' = [sock EXCEPT ![c] = 0] /\ pc' = [pc EXCEPT ![c] = "connect"]
      /\ s \in [Clients -> 0 .. MaxConns] /\ sock \in [Clients -> 0 .. MaxConns]
      /\ DOMAIN pc = Clients
  BY <1>n DEF Start, Goto, TypeInv
<1>6. ASSUME NEW d \in Clients PROVE Holding(d)'
  <2>1. CASE d = c
    <3>1. Fresh(n)'
      BY <1>0, <1>4 DEF SocketInv
    <3>2. (Fresh(s[c]))'
      BY <3>1, <1>5 DEF Fresh
    <3>3. \A e \in Clients : s'[e] = s'[c] => e = c
      BY <1>0, <1>5 DEF Holding
    <3> QED
      BY <1>0, <1>5, <2>1, <3>2, <3>3 DEF Holding, Conns
  <2>2. CASE d # c
    <3>1. s'[d] = s[d] /\ sock'[d] = sock[d] /\ pc'[d] = pc[d] /\ s'[d] # n
      BY <1>0, <1>5, <2>2 DEF Holding
    <3>0. s'[d] <= opened' /\ sock'[d] <= opened'
      <4>1. s[d] <= opened /\ sock[d] <= opened /\ s[d] \in Nat /\ sock[d] \in Nat
        BY <1>0 DEF Holding
      <4> QED
        BY <1>0, <1>n, <3>1, <4>1 DEF Conns
    <3>2. /\ sock'[d] # 0 => conn'[sock'[d]].owner = d
          /\ pc'[d] \in {"send", "recv"} => conn'[s'[d]].owner = d
      BY <1>0, <1>1, <3>1 DEF Holding, StreamStep, Kept, Conns
    <3>3. (pc[d] = "connect" => Fresh(s[d]))'
      <4>1. ASSUME NEW m \in Conns, pc[d] = "connect", m = s[d] PROVE Fresh(m)'
        <5>1. Fresh(m)
          BY <1>0, <4>1 DEF Holding
        <5> QED
          BY <5>1, <1>4
      <4>2. pc[d] = "connect" => s[d] \in Conns
        BY <1>0 DEF Holding, Conns
      <4> QED
        BY <4>1, <4>2, <3>1
    <3>4. \A e \in Clients : s'[d] # 0 /\ s'[e] = s'[d] => e = d
      BY <1>0, <1>5, <3>1 DEF Holding
    <3> QED
      BY <1>0, <3>0, <3>1, <3>2, <3>3, <3>4 DEF Holding
  <2> QED
    BY <2>1, <2>2
<1>7. ASSUME NEW m \in Conns, m > opened' PROVE Fresh(m)'
  <2>1. m > opened
    BY <1>0, <1>7 DEF Conns
  <2> QED
    BY <2>1, <1>4 DEF SocketInv
<1>8. srv' = srv
  BY DEF Start
<1>9. NoSocketLeaks'
  <2>1. ASSUME NEW m \in Conns, conn'[m].cli, NEW e, e = conn'[m].owner
        PROVE  sock'[e] = m \/ (s'[e] = m /\ pc'[e] \in {"send", "recv"})
    <3>1. conn[m].cli /\ e = conn[m].owner /\ e \in Clients
      BY <2>1, <1>1 DEF StreamStep, Kept, Connection
    <3>2. sock[e] = m \/ (s[e] = m /\ pc[e] \in {"send", "recv"})
      BY <3>1 DEF NoSocketLeaks
    <3>3. CASE e = c
      <4>1. sock[c] = m /\ m # 0
        BY <3>2, <3>3, <1>0 DEF Conns
      <4>2. conn'[m] = ClosedByClient(conn[m]) /\ conn[m] \in Connection
        BY <4>1 DEF Start, TypeInv
      <4> QED
        BY <4>2, <2>1, Closing
    <3>4. CASE e # c
      BY <3>1, <3>2, <3>4, <1>5
    <3> QED
      BY <3>3, <3>4
  <2> QED
    BY <2>1 DEF NoSocketLeaks
<1> QED
  BY <1>2, <1>3, <1>6, <1>7, <1>8, <1>9 DEF SocketInv

LEMMA ConnectInv ==
    ASSUME IInv, NEW c \in Clients, Connect(c)
    PROVE  IInv'
<1> USE DEF IInv
<1> DEFINE n == s[c]
<1>0. /\ \A d \in Clients : s[d] \in 0 .. MaxConns /\ sock[d] \in 0 .. MaxConns /\ Holding(d)
      /\ pc[c] = "connect" /\ sock[c] = 0 /\ n \in Conns /\ Fresh(n)
  BY DEF Connect, TypeInv, SocketInv, Conns, Holding
<1>1. Connected(c) \in Connection /\ Connected(c).owner = c /\ Connected(c).s2c = <<>> /\ Connected(c).c2s = <<>>
  BY DEF Connected, Connection
<1>2. /\ conn' \in [Conns -> Connection] /\ conn'[n] = Connected(c)
      /\ \A m \in Conns \ {n} : conn'[m] = conn[m]
  BY <1>0, <1>1 DEF Connect, TypeInv
<1>3. /\ pc' = [pc EXCEPT ![c] = "send"] /\ DOMAIN pc = Clients
      /\ UNCHANGED <<opened, s, sock, wholeB, clikey, srv, verified>>
      /\ backlog' = Append(backlog, n)
      /\ backlog' \in Seq(Conns)
      /\ \A m : Has(backlog', m) => Has(backlog, m) \/ m = n
  <2>1. backlog \in Seq(Conns) /\ backlog' = Append(backlog, n)
    BY DEF TypeInv, Connect
  <2>2. backlog' \in Seq(Conns) /\ Len(backlog') = Len(backlog) + 1
        /\ \A i \in 1 .. Len(backlog) + 1 : backlog'[i] = IF i = Len(backlog) + 1 THEN n ELSE backlog[i]
    BY <2>1, <1>0
  <2>3. \A m : Has(backlog', m) => Has(backlog, m) \/ m = n
    BY <2>1, <2>2 DEF Has
  <2> QED
    BY <2>1, <2>2, <2>3 DEF Connect, Goto, TypeInv
<1> HIDE DEF n
<1>4. TypeInv'
  BY <1>2, <1>3 DEF TypeInv
<1>5. ProofInv'
  <2>1. n \notin verified /\ srv.cur # n /\ \A d \in Clients : clikey[d] # n
    BY <1>0 DEF Fresh
  <2>2. \A m \in verified' : Entitled(m)'
    BY <2>1, <1>2, <1>3 DEF ProofInv, Entitled, TypeInv
  <2>3. ~Has(<<>>, "K") /\ ~Has(<<>>, "T")
    BY DEF Has
  <2>4. \A m \in Conns : Has(conn'[m].s2c, "K") => m \in verified'
    BY <2>3, <1>1, <1>2, <1>3 DEF ProofInv
  <2>5. \A m \in Conns : Has(conn'[m].c2s, "T") => Password[conn'[m].owner] = P
    BY <2>3, <1>1, <1>2 DEF ProofInv
  <2>6. srv'.st = "token" => Identity[conn'[srv'.cur].owner] = I
    <3>1. srv.st = "token" => srv.cur \in Conns \ {n}
      BY <2>1 DEF SocketInv, TypeInv, Conns
    <3> QED
      BY <3>1, <1>2, <1>3 DEF ProofInv
  <2>7. \A d \in Clients : clikey'[d] # 0 => clikey'[d] \in verified' /\ conn'[clikey'[d]].owner = d
    BY <2>1, <1>2, <1>3 DEF ProofInv, TypeInv
  <2> QED
    BY <2>2, <2>4, <2>5, <2>6, <2>7 DEF ProofInv
<1>6. ASSUME NEW m \in Conns, Fresh(m), m # n PROVE Fresh(m)'
  BY <1>2, <1>3, <1>6 DEF Fresh
<1>7. ASSUME NEW d \in Clients PROVE Holding(d)'
  <2>1. CASE d = c
    BY <1>0, <1>1, <1>2, <1>3, <2>1 DEF Holding, n, Conns
  <2>2. CASE d # c
    <3>1. pc'[d] = pc[d] /\ sock[d] # n /\ (s[d] # 0 => s[d] # n)
      BY <1>0, <1>3, <2>2 DEF Holding, Fresh, n
    <3>2. /\ sock'[d] # 0 => conn'[sock'[d]].owner = d
          /\ pc'[d] \in {"send", "recv"} => conn'[s'[d]].owner = d
      BY <1>0, <1>2, <1>3, <3>1 DEF Holding, Conns
    <3>3. (pc[d] = "connect" => Fresh(s[d]))'
      <4>1. ASSUME NEW m \in Conns, pc[d] = "connect", m = s[d] PROVE Fresh(m)'
        <5>1. Fresh(m) /\ m # n
          BY <1>0, <3>1, <4>1 DEF Holding, Conns
        <5> QED
          BY <5>1, <1>6
      <4>2. pc[d] = "connect" => s[d] \in Conns
        BY <1>0 DEF Holding, Conns
      <4> QED
        BY <4>1, <4>2, <3>1, <1>3
    <3> QED
      BY <1>0, <1>3, <3>1, <3>2, <3>3 DEF Holding
  <2> QED
    BY <2>1, <2>2
<1>8. ASSUME NEW m \in Conns, m > opened' PROVE Fresh(m)'
  <2>1. n <= opened /\ n \in Nat /\ m \in Nat /\ opened \in Nat
    BY <1>0 DEF Holding, n, Conns, TypeInv
  <2> QED
    BY <2>1, <1>3, <1>6, <1>8 DEF SocketInv
<1>9. NoSocketLeaks'
  <2>1. ASSUME NEW m \in Conns, conn'[m].cli, NEW e, e = conn'[m].owner
        PROVE  sock'[e] = m \/ (s'[e] = m /\ pc'[e] \in {"send", "recv"})
    <3>1. CASE m = n
      BY <3>1, <2>1, <1>1, <1>2, <1>3 DEF n
    <3>2. CASE m # n
      <4>1. conn'[m] = conn[m] /\ e \in Clients
        BY <3>2, <2>1, <1>2 DEF Connection
      <4>2. sock[e] = m \/ (s[e] = m /\ pc[e] \in {"send", "recv"})
        BY <4>1, <2>1 DEF NoSocketLeaks
      <4>3. CASE e = c
        BY <4>2, <4>3, <1>0, <1>3
      <4>4. CASE e # c
        BY <4>1, <4>2, <4>4, <1>3
      <4> QED
        BY <4>3, <4>4
    <3> QED
      BY <3>1, <3>2
  <2> QED
    BY <2>1 DEF NoSocketLeaks
<1>10. srv'.st \in {"hello", "token"} => srv'.cur # 0
  BY <1>3 DEF SocketInv
<1> QED
  BY <1>4, <1>5, <1>7, <1>8, <1>9, <1>10 DEF SocketInv

(* Where a step takes a client, and what its variables hold then: s, sock  *)
(* and key.                                                                *)
Moves(c, label, inS, inSock, inKey) ==
    /\ pc' = [pc EXCEPT ![c] = label]
    /\ s' = [s EXCEPT ![c] = inS]
    /\ sock' = [sock EXCEPT ![c] = inSock]
    /\ clikey' = [clikey EXCEPT ![c] = inKey]
    /\ wholeB' \in [Clients -> BOOLEAN]
    /\ UNCHANGED <<opened, srv, backlog, verified>>
    /\ label \in {"idle", "recv", "compute", "verdict"}
    /\ inS \in {0, s[c]} /\ inSock \in {0, sock[c], s[c]} /\ inKey \in {clikey[c], sock[c]}
    /\ inKey # clikey[c] => inKey \in verified /\ conn[inKey].owner = c
    /\ inSock # sock[c] /\ inSock # 0 => pc[c] = "recv"
    /\ label = "recv" => pc[c] = "send" /\ inS = s[c] /\ inSock = sock[c]
    /\ label \in {"compute", "verdict"} => inS = 0 /\ inSock # 0
    /\ label = "idle" => inS = 0
    /\ \A n \in Conns : conn'[n].cli /\ (sock[c] = n \/ (s[c] = n /\ pc[c] \in {"send", "recv"})) =>
            inSock = n \/ (inS = n /\ label = "recv")

LEMMA ClientStep ==
    ASSUME IInv, NEW c \in Clients, StreamStep,
           NEW label, NEW inS, NEW inSock, NEW inKey, Moves(c, label, inS, inSock, inKey)
    PROVE  IInv'
<1> USE DEF IInv
<1>0. UNCHANGED <<opened, srv, backlog, verified>>
  BY DEF Moves
<1>1. /\ pc'[c] = label /\ s'[c] = inS /\ sock'[c] = inSock /\ clikey'[c] = inKey
      /\ \A d \in Clients \ {c} :
            pc'[d] = pc[d] /\ s'[d] = s[d] /\ sock'[d] = sock[d] /\ clikey'[d] = clikey[d]
  BY DEF TypeInv, Moves
<1>2. TypeInv'
  <2>1. inS \in 0 .. MaxConns /\ inSock \in 0 .. MaxConns /\ inKey \in 0 .. MaxConns
    BY RemoteAssumption DEF TypeInv, Moves
  <2> QED
    BY <2>1 DEF TypeInv, StreamStep, Moves
<1>3. Holding(c)
  BY DEF SocketInv
<1>4. SocketInv' /\ NoSocketLeaks'
  <2>1. /\ label \in {"send", "recv"} => pc[c] \in {"send", "recv"} /\ inS # 0 /\ inSock = 0
        /\ inSock # sock[c] /\ inSock # 0 => pc[c] \in {"send", "recv"}
        /\ inSock \in {0, sock[c], s[c]} /\ label # "connect"
    BY <1>3 DEF Holding, Moves
  <2>2. /\ pc'[c] \in {"send", "recv"} => pc[c] \in {"send", "recv"} /\ s'[c] # 0 /\ sock'[c] = 0
        /\ sock'[c] # sock[c] /\ sock'[c] # 0 => pc[c] \in {"send", "recv"}
        /\ sock'[c] \in {0, sock[c], s[c]} /\ pc'[c] # "connect"
        /\ clikey'[c] \in {clikey[c], sock[c]} /\ s'[c] \in {0, s[c]}
        /\ pc'[c] \in {"compute", "verdict"} => s'[c] = 0 /\ sock'[c] # 0
        /\ pc'[c] = "idle" => s'[c] = 0
        /\ \A n \in Conns : conn'[n].cli /\ (sock[c] = n \/ (s[c] = n /\ pc[c] \in {"send", "recv"})) =>
                sock'[c] = n \/ (s'[c] = n /\ pc'[c] \in {"send", "recv"})
    BY <1>1, <2>1 DEF Moves
  <2> QED
    BY <1>0, <1>1, <1>2, <2>2, ClientKeeps
<1>5. ProofInv'
  <2>1. /\ \A m \in verified' : m \in Conns /\ Entitled(m)
        /\ srv'.st = "token" => srv'.cur \in Conns /\ Identity[conn[srv'.cur].owner] = I
    BY <1>0 DEF ProofInv, TypeInv, SocketInv, Conns
  <2>2. \A d \in Clients : clikey'[d] # 0 => clikey'[d] \in verified' /\ conn[clikey'[d]].owner = d
    BY <1>0, <1>1 DEF ProofInv, Moves
  <2> QED
    BY <1>0, <2>1, <2>2, ProofKept
<1> QED
  BY <1>2, <1>4, <1>5

(* A call that fails before it opens a connection only uses up its number. *)
LEMMA RefuseInv ==
    ASSUME IInv, NEW c \in Clients, StartRefuses(c)
    PROVE  IInv'
<1>1. /\ TypeInv /\ SocketInv /\ ProofInv /\ NoSocketLeaks
      /\ opened \in Nat /\ MaxConns \in Nat /\ opened < MaxConns /\ opened' = opened + 1
  BY RemoteAssumption DEF IInv, TypeInv, StartRefuses
<1>2. /\ UNCHANGED <<conn, pc, s, sock, clikey, srv, backlog, verified>>
      /\ wholeB' \in [Clients -> BOOLEAN]
  BY <1>1 DEF StartRefuses, Return, Goto, TypeInv
<1>3. TypeInv'
  BY <1>1, <1>2 DEF TypeInv
<1>4. \A n : Fresh(n)' <=> Fresh(n)
  BY <1>2 DEF Fresh
<1>5. ASSUME NEW d \in Clients PROVE Holding(d)'
  <2>1. Holding(d) /\ s[d] \in 0 .. MaxConns /\ sock[d] \in 0 .. MaxConns
    BY <1>1 DEF SocketInv, TypeInv
  <2>2. s[d] <= opened' /\ sock[d] <= opened'
    BY <1>1, <2>1 DEF Holding
  <2>3. (Fresh(s[d]))' <=> Fresh(s[d])
    BY <1>2 DEF Fresh
  <2> QED
    BY <1>2, <2>1, <2>2, <2>3 DEF Holding
<1>6. ASSUME NEW n \in Conns, n > opened' PROVE Fresh(n)'
  BY <1>1, <1>4, <1>6 DEF SocketInv, Conns
<1>7. SocketInv'
  BY <1>1, <1>2, <1>5, <1>6 DEF SocketInv
<1>8. ProofInv' /\ NoSocketLeaks'
  BY <1>1, <1>2 DEF ProofInv, Entitled, NoSocketLeaks
<1> QED
  BY <1>3, <1>7, <1>8 DEF IInv

LEMMA ClientInv ==
    ASSUME IInv, NEW c \in Clients,
           \/ ConnectFails(c) \/ SendHello(c) \/ StartFails(c) \/ RecvOffer(c)
           \/ FinalizeFails(c) \/ SendToken(c) \/ RecvVerdict(c) \/ Free(c)
    PROVE  IInv'
<1>0. /\ TypeInv /\ SocketInv /\ ProofInv /\ Holding(c)
      /\ s[c] \in 0 .. MaxConns /\ sock[c] \in 0 .. MaxConns /\ clikey[c] \in 0 .. MaxConns
      /\ s = [s EXCEPT ![c] = s[c]] /\ sock = [sock EXCEPT ![c] = sock[c]]
      /\ clikey = [clikey EXCEPT ![c] = clikey[c]]
      /\ wholeB \in [Clients -> BOOLEAN]
      /\ pc[c] \in {"connect", "send", "recv"} => s[c] \in Conns /\ conn[s[c]] \in Connection
      /\ sock[c] # 0 => sock[c] \in Conns /\ conn[sock[c]] \in Connection
      /\ ~Has(<<>>, "K")
  BY DEF IInv, TypeInv, SocketInv, Holding, Conns, Has
<1>1. CASE ConnectFails(c)
  <2>1. StreamStep
    BY <1>0, <1>1, NoneChanges DEF ConnectFails
  <2>2. wholeB' \in [Clients -> BOOLEAN]
    BY <1>0, <1>1 DEF ConnectFails, Return
  <2>m. Moves(c, "idle", 0, sock[c], clikey[c])
    BY <1>0, <1>1, <2>2 DEF Moves, ConnectFails, Return, Goto, Holding
  <2> QED
    BY <2>1, <2>m, ClientStep
<1>2. CASE SendHello(c)
  <2>1. StreamStep
    <3>1. conn' = [conn EXCEPT ![s[c]] = SentByClient(conn[s[c]], Hello)]
      BY <1>2 DEF SendHello
    <3>2. s[c] \in Conns /\ conn[s[c]] \in Connection
      BY <1>0, <1>2 DEF SendHello
    <3> DEFINE new == SentByClient(conn[s[c]], Hello)
    <3>3. /\ new \in Connection /\ new.owner = conn[s[c]].owner /\ new.cli = conn[s[c]].cli
          /\ new.s2c = conn[s[c]].s2c /\ (Has(new.c2s, "T") => Has(conn[s[c]].c2s, "T"))
      BY <3>2, Messages, Sending
    <3> HIDE DEF new
    <3> QED
      BY <1>0, <3>1, <3>2, <3>3, OneChanges DEF new
  <2>m. Moves(c, "recv", s[c], sock[c], clikey[c])
    BY <1>0, <1>2 DEF Moves, SendHello, Goto, Holding
  <2> QED
    BY <2>1, <2>m, ClientStep
<1>3. CASE StartFails(c)
  <2>1. s[c] \in Conns /\ conn[s[c]] \in Connection
        /\ conn' = [conn EXCEPT ![s[c]] = ClosedByClient(conn[s[c]])]
    BY <1>0, <1>3 DEF StartFails, StartCleanup
  <2>2. StreamStep
    BY <1>0, <2>1, Closing, OneChanges
  <2>3. wholeB' \in [Clients -> BOOLEAN]
    BY <1>0, <1>3 DEF StartFails, StartCleanup, Return
  <2>4. ~conn'[s[c]].cli
    <3>1. ClosedByClient(conn[s[c]]).cli = FALSE
      BY <2>1, Closing
    <3>2. conn'[s[c]] = ClosedByClient(conn[s[c]])
      BY <1>0, <2>1 DEF TypeInv
    <3> QED
      BY <3>1, <3>2
  <2>m. Moves(c, "idle", 0, sock[c], clikey[c])
    BY <1>0, <1>3, <2>3, <2>4 DEF Moves, StartFails, StartCleanup, Return, Goto, Holding
  <2> QED
    BY <2>2, <2>m, ClientStep
<1>5. CASE FinalizeFails(c)
  <2>1. StreamStep
    BY <1>0, <1>5, NoneChanges DEF FinalizeFails
  <2>2. wholeB' \in [Clients -> BOOLEAN]
    BY <1>0, <1>5 DEF FinalizeFails, Return
  <2>m. Moves(c, "idle", 0, sock[c], clikey[c])
    BY <1>0, <1>5, <2>2 DEF Moves, FinalizeFails, Return, Goto, Holding
  <2> QED
    BY <2>1, <2>m, ClientStep
<1>6. CASE SendToken(c)
  <2>1. PICK exact \in BOOLEAN :
            conn' = [conn EXCEPT ![sock[c]] = SentByClient(conn[sock[c]], TokenOf(c, exact))]
    BY <1>6 DEF SendToken
  <2>2. sock[c] \in Conns /\ conn[sock[c]] \in Connection /\ conn[sock[c]].owner = c
    BY <1>0, <1>6 DEF SendToken, Holding
  <2>3. StreamStep
    <3>1. /\ TokenOf(c, exact) \in Seq(Parts)
          /\ Has(TokenOf(c, exact), "T") => Password[c] = P
      BY Messages DEF TokenOf
    <3> DEFINE new == SentByClient(conn[sock[c]], TokenOf(c, exact))
    <3>2. /\ new \in Connection /\ new.owner = c /\ new.cli = conn[sock[c]].cli
          /\ new.s2c = conn[sock[c]].s2c
          /\ Has(new.c2s, "T") => Has(conn[sock[c]].c2s, "T") \/ Password[c] = P
      BY <2>2, <3>1, Sending
    <3> HIDE DEF new
    <3> QED
      BY <1>0, <2>1, <2>2, <3>2, OneChanges DEF new
  <2>m. Moves(c, "verdict", 0, sock[c], clikey[c])
    BY <1>0, <1>6, <2>2 DEF Moves, SendToken, Goto, Holding, Conns
  <2> QED
    BY <2>3, <2>m, ClientStep
<1>8. CASE Free(c)
  <2>1. sock[c] \in Conns /\ conn[sock[c]] \in Connection
        /\ conn' = [conn EXCEPT ![sock[c]] = ClosedByClient(conn[sock[c]])]
    BY <1>0, <1>8 DEF Free
  <2>2. StreamStep
    BY <1>0, <2>1, Closing, OneChanges
  <2>4. ~conn'[sock[c]].cli
    <3>1. ClosedByClient(conn[sock[c]]).cli = FALSE
      BY <2>1, Closing
    <3>2. conn'[sock[c]] = ClosedByClient(conn[sock[c]])
      BY <1>0, <2>1 DEF TypeInv
    <3> QED
      BY <3>1, <3>2
  <2>5. pc[c] = "idle" /\ s[c] = 0 /\ pc' = [pc EXCEPT ![c] = "idle"]
    BY <1>0, <1>8 DEF Free, Holding, TypeInv
  <2>m. Moves(c, "idle", 0, 0, clikey[c])
    BY <1>0, <1>8, <2>4, <2>5 DEF Moves, Free, Holding
  <2> QED
    BY <2>2, <2>m, ClientStep
<1>4. CASE RecvOffer(c)
  <2> DEFINE k == conn[s[c]]
  <2>1. k \in Connection /\ k.s2c \in Seq(Parts) /\ s[c] \in Conns /\ pc[c] = "recv"
    BY <1>0, <1>4 DEF RecvOffer, Connection
  <2>2. PICK part \in Received(k.s2c, 3, k.srv) :
            \/ /\ conn' = [conn EXCEPT ![s[c]] = ClosedByClient([k EXCEPT !.s2c = Rest(k.s2c, part)])]
               /\ Return(c, "-1") /\ UNCHANGED sock
            \/ /\ conn' = [conn EXCEPT ![s[c]].s2c = Rest(k.s2c, part)]
               /\ sock' = [sock EXCEPT ![c] = s[c]]
               /\ wholeB' = [wholeB EXCEPT ![c] = part = Offer]
               /\ Goto(c, "compute")
    BY <1>4 DEF RecvOffer
  <2> DEFINE read == [k EXCEPT !.s2c = Rest(k.s2c, part)]
  <2>3. /\ read \in Connection /\ read.owner = k.owner /\ read.cli = k.cli /\ read.c2s = k.c2s
        /\ Has(read.s2c, "K") => Has(k.s2c, "K")
    <3>0. k.s2c \in Seq(Parts) /\ 3 \in Nat /\ part \in Received(k.s2c, 3, k.srv)
      BY <2>1
    <3>1. /\ Rest(k.s2c, part) \in Seq(Parts)
          /\ Has(Rest(k.s2c, part), "K") => Has(k.s2c, "K")
      <4> HIDE DEF k
      <4> QED
        BY <3>0, HasOfReceived
    <3> QED
      BY <2>1, <3>1 DEF Connection
  <2>4. UNCHANGED <<opened, clikey, srv, backlog, verified>> /\ s' = [s EXCEPT ![c] = 0]
    BY <1>4 DEF RecvOffer
  <2> HIDE DEF read
  <2>5. CASE /\ conn' = [conn EXCEPT ![s[c]] = ClosedByClient(read)]
             /\ Return(c, "-1") /\ UNCHANGED sock
    <3>1. StreamStep
      BY <1>0, <2>1, <2>3, <2>5, Closing, OneChanges
    <3>2. ~conn'[s[c]].cli
      <4>1. ClosedByClient(read).cli = FALSE
        BY <2>3, Closing
      <4>2. conn'[s[c]] = ClosedByClient(read)
        BY <1>0, <2>1, <2>5 DEF TypeInv
      <4> QED
        BY <4>1, <4>2
    <3>3. wholeB' \in [Clients -> BOOLEAN] /\ pc' = [pc EXCEPT ![c] = "idle"]
      BY <1>0, <2>5 DEF Return, Goto
    <3>m. Moves(c, "idle", 0, sock[c], clikey[c])
      BY <1>0, <2>1, <2>4, <2>5, <3>2, <3>3 DEF Moves, Holding
    <3> QED
      BY <3>1, <3>m, ClientStep
  <2>6. CASE /\ conn' = [conn EXCEPT ![s[c]] = read]
             /\ sock' = [sock EXCEPT ![c] = s[c]]
             /\ wholeB' = [wholeB EXCEPT ![c] = part = Offer]
             /\ Goto(c, "compute")
    <3>1. StreamStep
      BY <1>0, <2>1, <2>3, <2>6, OneChanges
    <3>2. wholeB' \in [Clients -> BOOLEAN]
      BY <1>0, <2>6
    <3>3. s[c] # 0 /\ sock[c] = 0
      BY <1>0, <2>1 DEF Holding
    <3>m. Moves(c, "compute", 0, s[c], clikey[c])
      BY <1>0, <2>1, <2>4, <2>6, <3>2, <3>3 DEF Moves, Goto, Conns
    <3> QED
      BY <3>1, <3>m, ClientStep
  <2>7. [conn EXCEPT ![s[c]].s2c = Rest(k.s2c, part)] = [conn EXCEPT ![s[c]] = read]
    BY DEF read
  <2> QED
    BY <2>2, <2>5, <2>6, <2>7 DEF read
<1>7. CASE RecvVerdict(c)
  <2> DEFINE k == conn[sock[c]]
  <2>1. /\ k \in Connection /\ k.s2c \in Seq(Parts) /\ sock[c] \in Conns /\ k.owner = c
        /\ pc[c] = "verdict" /\ s[c] = 0
    BY <1>0, <1>7 DEF RecvVerdict, Connection, Holding
  <2>2. PICK part \in Received(k.s2c, 2, k.srv) :
            /\ conn' = [conn EXCEPT ![sock[c]].s2c = Rest(k.s2c, part)]
            /\ \/ part = Ok /\ Return(c, "0") /\ clikey' = [clikey EXCEPT ![c] = sock[c]]
               \/ part # Ok /\ Return(c, "-1") /\ UNCHANGED clikey
    BY <1>7 DEF RecvVerdict
  <2> DEFINE read == [k EXCEPT !.s2c = Rest(k.s2c, part)]
  <2>3. /\ read \in Connection /\ read.owner = k.owner /\ read.cli = k.cli /\ read.c2s = k.c2s
        /\ Has(read.s2c, "K") => Has(k.s2c, "K")
        /\ Has(part, "K") => Has(k.s2c, "K")
    <3>0. k.s2c \in Seq(Parts) /\ 2 \in Nat /\ part \in Received(k.s2c, 2, k.srv)
      BY <2>1
    <3>1. /\ Rest(k.s2c, part) \in Seq(Parts)
          /\ Has(Rest(k.s2c, part), "K") => Has(k.s2c, "K")
          /\ Has(part, "K") => Has(k.s2c, "K")
      <4> HIDE DEF k
      <4> QED
        BY <3>0, HasOfReceived
    <3> QED
      BY <2>1, <3>1 DEF Connection
  <2>4. /\ UNCHANGED <<opened, s, sock, srv, backlog, verified>>
        /\ s' = [s EXCEPT ![c] = 0] /\ sock' = [sock EXCEPT ![c] = sock[c]]
    BY <1>0, <1>7, <2>1 DEF RecvVerdict
  <2>5. StreamStep
    <3>1. conn' = [conn EXCEPT ![sock[c]] = read]
      BY <2>2
    <3> HIDE DEF read
    <3> QED
      BY <1>0, <2>1, <2>3, <3>1, OneChanges
  <2>6. wholeB' \in [Clients -> BOOLEAN] /\ pc' = [pc EXCEPT ![c] = "idle"]
    BY <1>0, <2>2 DEF Return, Goto
  <2>7. CASE part = Ok /\ clikey' = [clikey EXCEPT ![c] = sock[c]]
    <3>1. sock[c] \in verified
      BY <1>0, <2>1, <2>3, <2>7, Messages DEF ProofInv
    <3>m. Moves(c, "idle", 0, sock[c], sock[c])
      BY <1>0, <2>1, <2>4, <2>6, <2>7, <3>1 DEF Moves
    <3> QED
      BY <2>5, <3>m, ClientStep
  <2>8. CASE clikey' = clikey
    <3>m. Moves(c, "idle", 0, sock[c], clikey[c])
      BY <1>0, <2>1, <2>4, <2>6, <2>8 DEF Moves
    <3> QED
      BY <2>5, <3>m, ClientStep
  <2> QED
    BY <2>2, <2>7, <2>8
<1> QED
  BY <1>1, <1>2, <1>3, <1>4, <1>5, <1>6, <1>7, <1>8

(***************************************************************************)
(* The server's steps.                                                     *)
(***************************************************************************)

ServerState == [st : {"accept", "hello", "token", "dead"}, cur : 0 .. MaxConns, wholeA : BOOLEAN]

(* What the server may take, whom it may verify and whom it may offer B.   *)
Serves ==
    /\ UNCHANGED <<opened, clientVars>>
    /\ srv' \in ServerState /\ backlog' \in Seq(Conns)
    /\ \A n \in Conns : Has(backlog', n) => Has(backlog, n)
    /\ srv'.cur \in {0, srv.cur} \/ Has(backlog, srv'.cur)
    /\ srv'.st \in {"hello", "token"} => srv'.cur # 0
    /\ srv'.st = "token" => Identity[conn[srv'.cur].owner] = I
    /\ verified \subseteq verified'
    /\ \A n \in verified' : n \in verified \/ (n = srv.cur /\ n \in Conns /\ Entitled(n))

LEMMA ServerStep ==
    ASSUME IInv, StreamStep, Serves
    PROVE  IInv'
<1> USE DEF IInv
<1>1. TypeInv'
  BY DEF TypeInv, StreamStep, Serves, ServerState, clientVars
<1>2. SocketInv' /\ NoSocketLeaks'
  BY <1>1, ServerKeeps DEF Serves
<1>3. ProofInv'
  <2>1. \A n \in verified' : n \in Conns /\ Entitled(n)
    BY DEF Serves, ProofInv, TypeInv
  <2>2. srv'.st = "token" => srv'.cur \in Conns /\ Identity[conn[srv'.cur].owner] = I
    BY DEF Serves, ServerState, Conns
  <2>3. \A d \in Clients : clikey'[d] # 0 => clikey'[d] \in verified' /\ conn[clikey'[d]].owner = d
    BY DEF Serves, ProofInv, clientVars
  <2> QED
    BY <2>1, <2>2, <2>3, ProofKept DEF Serves
<1> QED
  BY <1>1, <1>2, <1>3

(* What ends the server closes its connections, and empties the backlog.   *)
LEMMA DyingInv ==
    ASSUME IInv, Dies, UNCHANGED <<opened, clientVars, verified>>
    PROVE  IInv'
<1>1. conn \in [Conns -> Connection] /\ ~Has(<<>>, "T") /\ \A n : ~Has(<<>>, n)
  BY DEF IInv, TypeInv, Has
<1>2. StreamStep
  <2>1. ASSUME NEW n \in Conns PROVE conn'[n] \in Connection /\ Kept(n)
    <3>1. CASE conn[n].srv
      <4>1. conn'[n] = ClosedByServer(conn[n])
        BY <3>1 DEF Dies
      <4>2. /\ conn'[n] \in Connection /\ conn'[n].owner = conn[n].owner /\ conn'[n].cli = conn[n].cli
            /\ conn'[n].s2c = conn[n].s2c /\ conn'[n].c2s = <<>>
        <5>1. conn[n] \in Connection
          BY <1>1
        <5> QED
          BY <4>1, <5>1, Closing
      <4> QED
        BY <1>1, <4>2 DEF Kept
    <3>2. CASE ~conn[n].srv
      BY <1>1, <3>2 DEF Dies, Kept
    <3> QED
      BY <3>1, <3>2
  <2>2. conn' = [n \in Conns |-> conn'[n]]
    BY DEF Dies
  <2> QED
    BY <2>1, <2>2 DEF StreamStep
<1>3. Serves
  <2>1. /\ srv' = [st |-> "dead", cur |-> 0, wholeA |-> FALSE]
        /\ backlog' = <<>> /\ backlog' \in Seq(Conns) /\ 0 \in 0 .. MaxConns
    BY RemoteAssumption DEF Dies
  <2> QED
    BY <1>1, <2>1 DEF Serves, ServerState
<1> QED
  BY <1>2, <1>3, ServerStep

LEMMA AcceptInv ==
    ASSUME IInv, Accept
    PROVE  IInv'
<1>1. StreamStep
  BY NoneChanges DEF IInv, Accept
<1>2. Serves
  <2>1. /\ backlog \in Seq(Conns) /\ backlog # <<>>
        /\ srv' = [st |-> "hello", cur |-> Head(backlog), wholeA |-> FALSE]
        /\ backlog' = Tail(backlog)
        /\ UNCHANGED <<opened, clientVars, verified>>
    BY DEF IInv, TypeInv, Accept
  <2>2. Head(backlog) \in Conns /\ Has(backlog, Head(backlog))
    <3>1. 1 \in DOMAIN backlog /\ Head(backlog) = backlog[1]
      BY <2>1
    <3> QED
      BY <2>1, <3>1 DEF Has
  <2>3. /\ Tail(backlog) \in Seq(Conns) /\ Len(Tail(backlog)) = Len(backlog) - 1
        /\ \A i \in 1 .. Len(backlog) - 1 : Tail(backlog)[i] = backlog[i + 1]
    BY <2>1
  <2>4. \A n : Has(Tail(backlog), n) => Has(backlog, n)
    <3>1. ASSUME NEW n, Has(Tail(backlog), n) PROVE Has(backlog, n)
      <4>1. PICK i \in 1 .. Len(backlog) - 1 : Tail(backlog)[i] = n
        BY <2>3, <3>1 DEF Has
      <4>2. i + 1 \in 1 .. Len(backlog) /\ backlog[i + 1] = n
        BY <2>1, <2>3, <4>1
      <4> QED
        BY <2>1, <4>2 DEF Has
    <3> QED
      BY <3>1
  <2> QED
    BY <2>1, <2>2, <2>3, <2>4 DEF Serves, ServerState, Conns
<1> QED
  BY <1>1, <1>2, ServerStep

(* What one recv() of the server makes of the connection it serves.        *)
LEMMA Reading ==
    ASSUME IInv, srv.st \in {"hello", "token"}, NEW n \in Nat,
           NEW part \in Received(conn[srv.cur].c2s, n, conn[srv.cur].cli),
           NEW read, read = [conn[srv.cur] EXCEPT !.c2s = Rest(conn[srv.cur].c2s, part)]
    PROVE  /\ srv.cur \in Conns
           /\ read \in Connection
           /\ read.owner = conn[srv.cur].owner /\ read.cli = conn[srv.cur].cli
           /\ read.s2c = conn[srv.cur].s2c
           /\ Has(part, "T") => Has(conn[srv.cur].c2s, "T")
           /\ Has(read.c2s, "T") => Has(conn[srv.cur].c2s, "T")
<1>1. srv.cur \in Conns
  BY DEF IInv, TypeInv, SocketInv, Conns
<1> DEFINE k == conn[srv.cur]
<1>2. k \in Connection /\ k.c2s \in Seq(Parts)
  BY <1>1 DEF IInv, TypeInv, Connection
<1> HIDE DEF k
<1>3. /\ Rest(k.c2s, part) \in Seq(Parts)
      /\ Has(part, "T") => Has(k.c2s, "T")
      /\ Has(Rest(k.c2s, part), "T") => Has(k.c2s, "T")
  BY <1>2, HasOfReceived DEF k
<1>4. read = [k EXCEPT !.c2s = Rest(k.c2s, part)]
  BY DEF k
<1>5. read \in Connection /\ read.owner = k.owner /\ read.cli = k.cli /\ read.s2c = k.s2c
  BY <1>2, <1>3, <1>4 DEF Connection
<1>6. read.c2s = Rest(k.c2s, part)
  BY <1>2, <1>4 DEF Connection
<1> QED
  BY <1>1, <1>3, <1>5, <1>6 DEF k

(* The connection is closed, and the next one accepted.                    *)
LEMMA ClosingInv ==
    ASSUME IInv, srv.cur \in Conns, NEW k \in Connection,
           k.owner = conn[srv.cur].owner, k.cli => conn[srv.cur].cli,
           Has(k.s2c, "K") => Has(conn[srv.cur].s2c, "K") \/ srv.cur \in verified',
           CloseAndAccept(k), UNCHANGED <<opened, clientVars>>,
           verified' = verified \/ (verified' = verified \union {srv.cur} /\ Entitled(srv.cur))
    PROVE  IInv'
<1>1. StreamStep
  <2> DEFINE new == ClosedByServer(k)
  <2>1. /\ new \in Connection /\ new.owner = k.owner /\ new.cli = k.cli /\ new.s2c = k.s2c
        /\ new.c2s = <<>>
    BY Closing
  <2>0. ~Has(<<>>, "T")
    BY DEF Has
  <2>2. conn' = [conn EXCEPT ![srv.cur] = new]
    BY DEF CloseAndAccept
  <2> HIDE DEF new
  <2> QED
    BY <2>0, <2>1, <2>2, OneChanges DEF IInv
<1>2. Serves
  <2>1. /\ srv' = [st |-> "accept", cur |-> 0, wholeA |-> FALSE]
        /\ backlog' = backlog /\ backlog \in Seq(Conns) /\ 0 \in 0 .. MaxConns
    BY RemoteAssumption DEF CloseAndAccept, IInv, TypeInv
  <2> QED
    BY <2>1 DEF Serves, ServerState
<1> QED
  BY <1>1, <1>2, ServerStep

LEMMA RecvHelloInv ==
    ASSUME IInv, RecvHello
    PROVE  IInv'
<1> DEFINE k == conn[srv.cur]
<1>1. PICK part \in Received(k.c2s, Len(Hello), k.cli) :
        LET read == [k EXCEPT !.c2s = Rest(k.c2s, part)]
        IN  \/ Dies
            \/ CloseAndAccept(read)
            \/ /\ Identity[k.owner] = I
               /\ conn' = [conn EXCEPT ![srv.cur] = SentByServer(read, Offer)]
               /\ srv' = [srv EXCEPT !.st = "token", !.wholeA = part = Hello]
               /\ UNCHANGED backlog
  BY DEF RecvHello
<1> DEFINE read == [k EXCEPT !.c2s = Rest(k.c2s, part)]
<1>2. srv.st = "hello" /\ UNCHANGED <<opened, clientVars, verified>>
  BY DEF RecvHello
<1>3. /\ srv.cur \in Conns /\ read \in Connection /\ read.owner = k.owner /\ read.cli = k.cli
      /\ read.s2c = k.s2c /\ (Has(read.c2s, "T") => Has(k.c2s, "T"))
  <2>1. Len(Hello) \in Nat
    BY DEF Hello
  <2> QED
    BY <1>2, <2>1, Reading
<1> HIDE DEF read
<1>4. CASE Dies
  BY <1>2, <1>4, DyingInv
<1>5. CASE CloseAndAccept(read)
  BY <1>2, <1>3, <1>5, ClosingInv
<1>6. CASE /\ Identity[k.owner] = I
           /\ conn' = [conn EXCEPT ![srv.cur] = SentByServer(read, Offer)]
           /\ srv' = [srv EXCEPT !.st = "token", !.wholeA = part = Hello]
           /\ UNCHANGED backlog
  <2>1. StreamStep
    <3> DEFINE new == SentByServer(read, Offer)
    <3>1. /\ new \in Connection /\ new.owner = k.owner /\ new.cli = k.cli
          /\ (Has(new.s2c, "K") => Has(k.s2c, "K")) /\ (Has(new.c2s, "T") => Has(k.c2s, "T"))
      BY <1>3, Messages, Sending
    <3> HIDE DEF new
    <3> QED
      BY <1>3, <1>6, <3>1, OneChanges DEF IInv, new
  <2>2. Serves
    <3>1. srv \in ServerState /\ backlog \in Seq(Conns)
      BY DEF IInv, TypeInv, ServerState
    <3>2. srv' \in ServerState /\ srv'.cur = srv.cur /\ srv.cur # 0
      <4>1. srv' = [st |-> "token", cur |-> srv.cur, wholeA |-> part = Hello]
        BY <1>6, <3>1 DEF ServerState
      <4>2. (part = Hello) \in BOOLEAN
        OBVIOUS
      <4>3. srv.cur \in 0 .. MaxConns /\ srv.cur # 0
        BY <1>3, <3>1 DEF ServerState, Conns
      <4> QED
        BY <4>1, <4>2, <4>3 DEF ServerState
    <3> QED
      BY <1>2, <1>6, <3>1, <3>2 DEF Serves
  <2> QED
    BY <2>1, <2>2, ServerStep
<1> QED
  BY <1>1, <1>4, <1>5, <1>6 DEF read

LEMMA RecvTokenInv ==
    ASSUME IInv, RecvToken
    PROVE  IInv'
<1> DEFINE k == conn[srv.cur]
<1>1. PICK part \in Received(k.c2s, 4, k.cli) :
        LET equal == srv.wholeA /\ part = Token
            read == [k EXCEPT !.c2s = Rest(k.c2s, part)]
        IN  /\ CloseAndAccept(SentByServer(read, IF equal THEN Ok ELSE No))
            /\ verified' = IF equal THEN verified \union {srv.cur} ELSE verified
  BY DEF RecvToken
<1> DEFINE equal == srv.wholeA /\ part = Token
           read == [k EXCEPT !.c2s = Rest(k.c2s, part)]
           answer == IF equal THEN Ok ELSE No
           new == SentByServer(read, answer)
<1>2. srv.st = "token" /\ UNCHANGED <<opened, clientVars>>
  BY DEF RecvToken
<1>3. /\ srv.cur \in Conns /\ read \in Connection /\ read.owner = k.owner /\ read.cli = k.cli
      /\ read.s2c = k.s2c /\ (Has(part, "T") => Has(k.c2s, "T"))
  BY <1>2, Reading
<1>4. equal => Entitled(srv.cur)
  <2>1. equal => Has(k.c2s, "T")
    BY <1>3, Messages
  <2> QED
    BY <1>2, <1>3, <2>1 DEF IInv, ProofInv, Entitled
<1> HIDE DEF read, equal
<1>5. answer \in Seq(Parts) /\ (Has(answer, "K") => equal)
  BY Messages
<1> HIDE DEF answer
<1>6. new \in Connection /\ new.owner = k.owner /\ new.cli = k.cli /\ (Has(new.s2c, "K") => Has(k.s2c, "K") \/ equal)
  BY <1>3, <1>5, Sending
<1>7. CloseAndAccept(new) /\ verified' = IF equal THEN verified \union {srv.cur} ELSE verified
  BY <1>1 DEF read, equal, answer
<1> HIDE DEF new
<1> QED
  BY <1>2, <1>3, <1>4, <1>6, <1>7, ClosingInv

LEMMA ServerResetInv == ASSUME IInv, ServerReset PROVE IInv'
BY DyingInv DEF ServerReset

(***************************************************************************)
(* The theorems.                                                           *)
(***************************************************************************)

LEMMA InitInv == ASSUME Init PROVE IInv
<1>1. Unused \in Connection /\ ~Unused.cli /\ Unused.s2c = <<>> /\ Unused.c2s = <<>>
  BY RemoteAssumption DEF Unused, Connection
<1>2. TypeInv
  BY <1>1, RemoteAssumption DEF Init, TypeInv
<1>3. \A x : ~Has(<<>>, x)
  BY DEF Has
<1>4. \A n \in Conns : Fresh(n)
  BY <1>1, <1>3 DEF Init, Fresh, Conns
<1>5. SocketInv
  BY <1>4 DEF Init, SocketInv, Holding
<1>6. ProofInv
  BY <1>1, <1>3 DEF Init, ProofInv
<1>7. NoSocketLeaks
  BY <1>1 DEF Init, NoSocketLeaks
<1> QED
  BY <1>2, <1>5, <1>6, <1>7 DEF IInv

LEMMA NextInv == ASSUME IInv, [Next]_vars PROVE IInv'
<1>1. CASE UNCHANGED vars
  BY <1>1 DEF IInv, TypeInv, SocketInv, ProofInv, NoSocketLeaks, Holding, Fresh, Entitled, vars, clientVars
<1>2. CASE Next
  BY <1>2, RefuseInv, StartInv, ConnectInv, ClientInv, AcceptInv, RecvHelloInv, RecvTokenInv, ServerResetInv
  DEF Next, Server
<1> QED
  BY <1>1, <1>2

(* The types, who holds which connection, and what is in the streams, in   *)
(* every state: the inductive invariant the two others follow from.        *)
THEOREM ConnectionsAreHeld == Spec => []IInv
<1>1. Init => IInv
  BY InitInv
<1>2. IInv /\ [Next]_vars => IInv'
  BY NextInv
<1> QED
  BY <1>1, <1>2, PTL DEF Spec

(* A client of srp_client_new() that srp_client_authenticate() returned 0  *)
(* has both credentials and was verified by srp_server.py on the           *)
(* connection it has its key from, however the streams were cut and        *)
(* whoever else was connected.                                             *)
THEOREM SuccessVerified == Spec => []SuccessWasVerified
<1>1. IInv => SuccessWasVerified
  BY DEF IInv, ProofInv, SuccessWasVerified, Entitled
<1> QED
  BY <1>1, ConnectionsAreHeld, PTL

(* A socket that is open is in srvinfo->sock, or in the s of a start() in  *)
(* progress, whatever failed before.                                       *)
THEOREM SocketsAreKept == Spec => []NoSocketLeaks
<1>1. IInv => NoSocketLeaks
  BY DEF IInv
<1> QED
  BY <1>1, ConnectionsAreHeld, PTL

(***************************************************************************)
(* As long as nothing went wrong outside of what the peers agreed on, the  *)
(* streams and both ends of every connection are in step.                  *)
(***************************************************************************)

Waiting(n) == Has(backlog, n) \/ (srv.st = "hello" /\ srv.cur = n)
Served(n)  == srv.st = "token" /\ srv.cur = n

(* The server has read nothing yet; its client sent Hello or is about to.  *)
WaitingInStep(n) ==
    LET k == conn[n]  c == k.owner IN
    /\ k.cli /\ k.srv /\ ~ k.rst
    /\ pc[c] \in {"send", "recv"} /\ s[c] = n
    /\ k.s2c = <<>>
    /\ k.c2s = IF pc[c] = "send" THEN <<>> ELSE Hello

(* The server sent Offer, and its client is on the way to the token.       *)
ServedInStep(n) ==
    LET k == conn[n]  c == k.owner IN
    /\ k.cli /\ k.srv /\ ~ k.rst
    /\ srv.wholeA /\ Identity[c] = I
    /\ \/ pc[c] = "recv" /\ s[c] = n /\ k.c2s = <<>> /\ k.s2c = Offer
       \/ pc[c] = "compute" /\ sock[c] = n /\ wholeB[c] /\ k.c2s = <<>> /\ k.s2c = <<>>
       \/ /\ pc[c] = "verdict" /\ sock[c] = n /\ wholeB[c]
          /\ k.c2s = TokenOf(c, TRUE) /\ k.s2c = <<>>

(* Whom a client waits for, or what it is about to read.                   *)
ClientInStep(c) ==
    /\ pc[c] = "send" => Waiting(s[c])
    /\ pc[c] = "recv" =>
        Waiting(s[c]) \/ Served(s[c]) \/ (conn[s[c]].s2c = <<>> /\ Identity[c] # I)
    /\ pc[c] = "compute" => Served(sock[c])
    /\ pc[c] = "verdict" =>
        \/ Served(sock[c])
        \/ conn[sock[c]].s2c = Ok
        \/ conn[sock[c]].s2c = No /\ Password[c] # P
    /\ ret[c] = "-1" => Identity[c] # I \/ Password[c] # P

InStep ==
    /\ srv.st # "dead"
    /\ \A i, j \in DOMAIN backlog : backlog[i] = backlog[j] => i = j
    /\ srv.st \in {"hello", "token"} => ~Has(backlog, srv.cur)
    /\ \A n \in Conns : Waiting(n) => WaitingInStep(n)
    /\ \A n \in Conns : Served(n) => ServedInStep(n)
    /\ \A c \in Clients : ClientInStep(c)

StepInv == IInv /\ DOMAIN ret = Clients /\ (~ disturbed => InStep)

(***************************************************************************)
(* What one recv() returns of a stream that holds one message, or nothing. *)
(***************************************************************************)

LEMMA FirstReceived ==
    ASSUME NEW stream \in Seq(Parts), stream # <<>>, NEW n \in Nat \ {0}, NEW open,
           NEW part \in Received(stream, n, open)
    PROVE  part # <<>> /\ part[1] = stream[1]
<1>1. PICK i \in 1 .. (IF Len(stream) < n THEN Len(stream) ELSE n) : part = SubSeq(stream, 1, i)
  BY DEF Received
<1>2. Len(stream) \in Nat \ {0} /\ i \in 1 .. Len(stream)
  BY <1>1
<1>3. part \in Seq(Parts) /\ Len(part) = i /\ part[1] = stream[1]
  BY <1>1, <1>2
<1> QED
  BY <1>2, <1>3

LEMMA NothingReceived ==
    ASSUME NEW n, NEW open, NEW part \in Received(<<>>, n, open)
    PROVE  ~ open /\ part = <<>>
BY DEF Received

LEMMA NothingLeft ==
    ASSUME NEW m \in Seq(Parts)
    PROVE  Rest(m, m) = <<>>
BY DEF Rest

(* Two messages differ in their first part.                                *)
LEMMA FirstParts ==
    /\ Hello # <<>> /\ Offer # <<>> /\ Token # <<>> /\ Other # <<>> /\ Ok # <<>> /\ No # <<>>
    /\ Token[1] = "T" /\ Other[1] = "X" /\ Ok[1] = "O" /\ No[1] = "N"
    /\ Len(Hello) = 3 /\ Len(Offer) = 3 /\ Token # Other /\ Ok # No
BY DEF Hello, Offer, Token, Other, Ok, No

(* A client's step leaves the connections of the others in step.           *)
LEMMA ClientStays ==
    ASSUME IInv, InStep, NEW c \in Clients, NEW m,
           UNCHANGED <<srv, backlog>>,
           \A d \in Clients \ {c} :
                /\ pc'[d] = pc[d] /\ s'[d] = s[d] /\ sock'[d] = sock[d]
                /\ wholeB'[d] = wholeB[d] /\ ret'[d] = ret[d],
           \A n \in Conns : n # m => conn'[n] = conn[n],
           m \in Conns => conn[m].owner = c,
           pc[c] \in {"send", "recv"} => m = s[c],
           pc[c] \in {"compute", "verdict"} => m = sock[c],
           m \in Conns /\ Waiting(m) => WaitingInStep(m)',
           m \in Conns /\ Served(m) => ServedInStep(m)',
           ClientInStep(c)'
    PROVE  InStep'
<1>1. \A n : (Waiting(n)' <=> Waiting(n)) /\ (Served(n)' <=> Served(n))
  BY DEF Waiting, Served
<1>2. ASSUME NEW n \in Conns, Waiting(n) PROVE WaitingInStep(n)'
  <2>1. CASE n = m
    BY <1>2, <2>1
  <2>2. CASE n # m
    <3>1. WaitingInStep(n) /\ conn[n].owner \in Clients /\ conn'[n] = conn[n]
      BY <1>2, <2>2 DEF InStep, IInv, TypeInv, Connection
    <3>2. conn[n].owner # c
      BY <2>2, <3>1 DEF WaitingInStep
    <3> QED
      BY <3>1, <3>2 DEF WaitingInStep
  <2> QED
    BY <2>1, <2>2
<1>3. ASSUME NEW n \in Conns, Served(n) PROVE ServedInStep(n)'
  <2>1. CASE n = m
    BY <1>3, <2>1
  <2>2. CASE n # m
    <3>1. ServedInStep(n) /\ conn[n].owner \in Clients /\ conn'[n] = conn[n]
      BY <1>3, <2>2 DEF InStep, IInv, TypeInv, Connection
    <3>2. PICK d \in Clients : d = conn[n].owner
      BY <3>1
    <3>3. /\ conn[n].cli /\ conn[n].srv /\ ~ conn[n].rst /\ srv.wholeA /\ Identity[d] = I
          /\ \/ pc[d] = "recv" /\ s[d] = n /\ conn[n].c2s = <<>> /\ conn[n].s2c = Offer
             \/ pc[d] = "compute" /\ sock[d] = n /\ wholeB[d]
                /\ conn[n].c2s = <<>> /\ conn[n].s2c = <<>>
             \/ pc[d] = "verdict" /\ sock[d] = n /\ wholeB[d]
                /\ conn[n].c2s = TokenOf(d, TRUE) /\ conn[n].s2c = <<>>
      BY <3>1, <3>2 DEF ServedInStep
    <3>4. d # c
      BY <2>2, <3>3
    <3>5. /\ pc'[d] = pc[d] /\ s'[d] = s[d] /\ sock'[d] = sock[d] /\ wholeB'[d] = wholeB[d]
          /\ srv' = srv
      BY <3>4
    <3>6. TokenOf(d, TRUE)' = TokenOf(d, TRUE)
      BY <3>5 DEF TokenOf
    <3>7. conn'[n].owner = d
      BY <3>1, <3>2
    <3> QED
      BY <3>1, <3>3, <3>5, <3>6, <3>7 DEF ServedInStep
  <2> QED
    BY <2>1, <2>2
<1>4. ASSUME NEW d \in Clients PROVE ClientInStep(d)'
  <2>1. CASE d = c
    BY <2>1
  <2>2. CASE d # c
    <3>1. ClientInStep(d) /\ Holding(d) /\ s[d] \in 0 .. MaxConns /\ sock[d] \in 0 .. MaxConns
      BY DEF InStep, IInv, SocketInv, TypeInv
    <3>2. pc[d] \in {"send", "recv"} => s[d] \in Conns /\ s[d] # m
      BY <2>2, <3>1 DEF Holding, Conns
    <3>3. pc[d] \in {"compute", "verdict"} => sock[d] \in Conns /\ sock[d] # m
      BY <2>2, <3>1 DEF Holding, Conns
    <3> QED
      BY <1>1, <2>2, <3>1, <3>2, <3>3 DEF ClientInStep
  <2> QED
    BY <2>1, <2>2
<1> QED
  BY <1>1, <1>2, <1>3, <1>4 DEF InStep

(* So does the server's, which answers the connection it serves or closes  *)
(* it.                                                                     *)
LEMMA ServerStays ==
    ASSUME IInv, InStep, srv.st \in {"hello", "token"},
           UNCHANGED clientVars, backlog' = backlog,
           \A n \in Conns : n # srv.cur => conn'[n] = conn[n],
           srv'.st = "accept" \/ (srv'.st = "token" /\ srv'.cur = srv.cur /\ ServedInStep(srv.cur)'),
           \A c \in Clients : conn[srv.cur].owner = c => ClientInStep(c)'
    PROVE  InStep'
<1>1. \A n : Waiting(n)' <=> Has(backlog, n)
  BY DEF Waiting
<1>2. \A n : Served(n)' => n = srv.cur /\ ServedInStep(n)'
  BY DEF Served
<1>3. ASSUME NEW n \in Conns, Waiting(n)' PROVE WaitingInStep(n)'
  <2>1. n # srv.cur /\ Waiting(n)
    BY <1>1, <1>3 DEF InStep, Waiting
  <2>2. WaitingInStep(n) /\ conn'[n] = conn[n]
    BY <2>1 DEF InStep
  <2> QED
    BY <2>2 DEF WaitingInStep, clientVars
<1>4. ASSUME NEW d \in Clients PROVE ClientInStep(d)'
  <2>1. CASE conn[srv.cur].owner = d
    BY <2>1
  <2>2. CASE conn[srv.cur].owner # d
    <3>1. ClientInStep(d) /\ Holding(d) /\ s[d] \in 0 .. MaxConns /\ sock[d] \in 0 .. MaxConns
      BY DEF InStep, IInv, SocketInv, TypeInv
    <3>2. pc[d] \in {"send", "recv"} =>
            s[d] \in Conns /\ s[d] # srv.cur /\ ~Served(s[d]) /\ (Waiting(s[d]) => Has(backlog, s[d]))
      BY <2>2, <3>1 DEF Holding, Conns, Waiting, Served
    <3>3. pc[d] \in {"compute", "verdict"} =>
            sock[d] \in Conns /\ sock[d] # srv.cur /\ ~Served(sock[d])
      BY <2>2, <3>1 DEF Holding, Conns, Served
    <3> QED
      BY <1>1, <3>1, <3>2, <3>3 DEF ClientInStep, clientVars
  <2> QED
    BY <2>1, <2>2
<1>5. srv'.st # "dead" /\ srv'.st # "hello" /\ (srv'.st = "token" => srv'.cur = srv.cur)
  OBVIOUS
<1> QED
  BY <1>2, <1>3, <1>4, <1>5 DEF InStep

(***************************************************************************)
(* The steps of a client.                                                  *)
(***************************************************************************)

(* The connection of a client that is in authenticate().                   *)
LEMMA ClientHas ==
    ASSUME IInv, NEW c \in Clients
    PROVE  /\ Holding(c)
           /\ DOMAIN pc = Clients /\ s[c] \in 0 .. MaxConns /\ sock[c] \in 0 .. MaxConns
           /\ wholeB[c] \in BOOLEAN /\ DOMAIN s = Clients /\ DOMAIN sock = Clients
           /\ DOMAIN wholeB = Clients /\ DOMAIN conn = Conns
           /\ pc[c] \in {"send", "recv"} => s[c] \in Conns /\ conn[s[c]] \in Connection
                                            /\ conn[s[c]].owner = c
           /\ sock[c] # 0 => sock[c] \in Conns /\ conn[sock[c]] \in Connection
                             /\ conn[sock[c]].owner = c
           /\ pc[c] \in {"compute", "verdict"} => sock[c] # 0
<1>1. Holding(c)
  BY DEF IInv, SocketInv
<1>2. /\ DOMAIN pc = Clients /\ s[c] \in 0 .. MaxConns /\ sock[c] \in 0 .. MaxConns
      /\ wholeB[c] \in BOOLEAN /\ DOMAIN s = Clients /\ DOMAIN sock = Clients
      /\ DOMAIN wholeB = Clients /\ DOMAIN conn = Conns
  <2>2. DOMAIN pc = Clients
    BY DEF IInv, TypeInv
  <2>3. s[c] \in 0 .. MaxConns /\ sock[c] \in 0 .. MaxConns /\ wholeB[c] \in BOOLEAN
    BY DEF IInv, TypeInv
  <2>4. DOMAIN s = Clients /\ DOMAIN sock = Clients /\ DOMAIN wholeB = Clients /\ DOMAIN conn = Conns
    BY DEF IInv, TypeInv
  <2> QED
    BY <2>2, <2>3, <2>4
<1>3. conn \in [Conns -> Connection]
  BY DEF IInv, TypeInv
<1> QED
  BY <1>1, <1>2, <1>3 DEF Holding, Conns

(* A client that is idle closes its socket, in start() or in free(): the   *)
(* server is not concerned.                                                *)
LEMMA IdleCloses ==
    ASSUME IInv, InStep, NEW c \in Clients, pc[c] = "idle",
           UNCHANGED <<srv, backlog, wholeB, ret>>,
           pc' \in {pc, [pc EXCEPT ![c] = "connect"]},
           s' \in {s, [s EXCEPT ![c] = opened + 1]},
           sock' = [sock EXCEPT ![c] = 0],
           conn' = IF sock[c] = 0 THEN conn ELSE [conn EXCEPT ![sock[c]] = ClosedByClient(@)]
    PROVE  InStep'
<1>1. /\ sock[c] # 0 => sock[c] \in Conns /\ conn[sock[c]] \in Connection /\ conn[sock[c]].owner = c
      /\ DOMAIN pc = Clients /\ DOMAIN s = Clients /\ DOMAIN sock = Clients
      /\ DOMAIN conn = Conns
  BY ClientHas
<1>m. PICK m : m = sock[c]
  OBVIOUS
<1>2. \A d \in Clients \ {c} :
        /\ pc'[d] = pc[d] /\ s'[d] = s[d] /\ sock'[d] = sock[d]
        /\ wholeB'[d] = wholeB[d] /\ ret'[d] = ret[d]
  BY <1>1
<1>3. \A n \in Conns : n # m => conn'[n] = conn[n]
  BY <1>1, <1>m
<1>4. m \in Conns => conn[m].owner = c
  BY <1>1, <1>m DEF Conns
<1>5. m \in Conns => ~Waiting(m) /\ ~Served(m)
  BY <1>4 DEF InStep, WaitingInStep, ServedInStep
<1>6. pc'[c] \in {"idle", "connect"} /\ ret' = ret
  BY <1>1
<1>7. ClientInStep(c)'
  BY <1>6 DEF InStep, ClientInStep
<1> QED
  BY <1>m, <1>2, <1>3, <1>4, <1>5, <1>7, ClientStays

LEMMA StartInStep == ASSUME IInv, InStep, NEW c \in Clients, Start(c) PROVE InStep'
<1>1. /\ pc[c] = "idle" /\ UNCHANGED <<srv, backlog, wholeB, ret>>
      /\ pc' = [pc EXCEPT ![c] = "connect"]
      /\ s' = [s EXCEPT ![c] = opened + 1]
      /\ sock' = [sock EXCEPT ![c] = 0]
      /\ conn' = IF sock[c] = 0 THEN conn ELSE [conn EXCEPT ![sock[c]] = ClosedByClient(@)]
  BY DEF Start, Goto
<1> QED
  BY <1>1, IdleCloses

LEMMA FreeInStep == ASSUME IInv, InStep, NEW c \in Clients, Free(c) PROVE InStep'
<1>1. /\ pc[c] = "idle" /\ UNCHANGED <<srv, backlog, wholeB, ret, pc, s>>
      /\ sock' = [sock EXCEPT ![c] = 0]
      /\ conn' = IF sock[c] = 0 THEN conn ELSE [conn EXCEPT ![sock[c]] = ClosedByClient(@)]
  BY DEF Free
<1> QED
  BY <1>1, IdleCloses

(* The connection is a new one, and the last in the backlog.               *)
LEMMA ConnectInStep == ASSUME IInv, InStep, NEW c \in Clients, Connect(c) PROVE InStep'
<1>n. PICK n : n = s[c]
  OBVIOUS
<1>0. /\ Holding(c) /\ DOMAIN pc = Clients /\ s[c] \in 0 .. MaxConns /\ DOMAIN conn = Conns
      /\ backlog \in Seq(Conns)
  BY ClientHas DEF IInv, TypeInv
<1>1. /\ pc[c] = "connect" /\ srv' = srv /\ srv.st # "dead"
      /\ conn' = [conn EXCEPT ![n] = Connected(c)]
      /\ backlog' = Append(backlog, n)
      /\ pc' = [pc EXCEPT ![c] = "send"]
      /\ UNCHANGED <<s, sock, wholeB, ret>>
  BY <1>n DEF Connect, Goto
<1>2. n \in Conns /\ Fresh(n) /\ \A d \in Clients : s[d] = n => d = c
  BY <1>n, <1>0, <1>1 DEF Holding, Conns
<1>3. ~Has(backlog, n) /\ n # srv.cur /\ \A d \in Clients : sock[d] # n
  BY <1>2 DEF Fresh
<1>4. conn'[n] = Connected(c) /\ \A m \in Conns : m # n => conn'[m] = conn[m]
  BY <1>0, <1>1, <1>2
<1>5. pc'[c] = "send" /\ \A d \in Clients : d # c => pc'[d] = pc[d]
  BY <1>0, <1>1
<1>6. /\ DOMAIN backlog = 1 .. Len(backlog) /\ Len(backlog) \in Nat
      /\ DOMAIN backlog' = 1 .. Len(backlog) + 1
      /\ backlog'[Len(backlog) + 1] = n
      /\ \A i \in DOMAIN backlog : backlog'[i] = backlog[i]
  BY <1>0, <1>1, <1>2
<1>7. \A m : Has(backlog', m) <=> Has(backlog, m) \/ m = n
  BY <1>6 DEF Has
<1>8. \A i, j \in DOMAIN backlog' : backlog'[i] = backlog'[j] => i = j
  <2>1. \A i, j \in DOMAIN backlog : backlog[i] = backlog[j] => i = j
    BY DEF InStep
  <2>2. \A i \in DOMAIN backlog : backlog[i] # n
    BY <1>3 DEF Has
  <2> QED
    BY <1>6, <2>1, <2>2
<1>9. ASSUME NEW m \in Conns, Waiting(m)' PROVE WaitingInStep(m)'
  <2>1. CASE m = n
    BY <2>1, <1>n, <1>0, <1>1, <1>4, <1>5 DEF WaitingInStep, Connected
  <2>2. CASE m # n
    <3>1. WaitingInStep(m)
      BY <1>1, <1>7, <1>9, <2>2 DEF Waiting, InStep
    <3>2. conn[m].owner \in Clients /\ conn[m].owner # c
      BY <1>1, <3>1 DEF WaitingInStep, IInv, TypeInv, Connection
    <3> QED
      BY <1>1, <1>4, <1>5, <2>2, <3>1, <3>2 DEF WaitingInStep
  <2> QED
    BY <2>1, <2>2
<1>10. ASSUME NEW m \in Conns, Served(m)' PROVE ServedInStep(m)'
  <2>1. Served(m) /\ m # n
    BY <1>1, <1>3, <1>10 DEF Served
  <2>2. ServedInStep(m)
    BY <2>1 DEF InStep
  <2>3. conn[m].owner \in Clients /\ pc'[conn[m].owner] = pc[conn[m].owner]
    <3>1. conn[m].owner \in Clients
      BY DEF IInv, TypeInv, Connection
    <3>2. pc[conn[m].owner] # "connect"
      BY <2>2 DEF ServedInStep
    <3> QED
      BY <1>1, <1>5, <3>1, <3>2
  <2>4. \A d : TokenOf(d, TRUE)' = TokenOf(d, TRUE)
    BY <1>1 DEF TokenOf
  <2>5. conn'[m] = conn[m] /\ UNCHANGED <<srv, s, sock, wholeB>>
    BY <1>1, <1>4, <2>1
  <2> QED
    BY <2>2, <2>3, <2>4, <2>5 DEF ServedInStep
<1>11. ASSUME NEW d \in Clients PROVE ClientInStep(d)'
  <2>1. CASE d = c
    <3>1. Waiting(n)' /\ ret' = ret /\ ClientInStep(c)
      <4>1. Has(backlog', n)
        BY <1>7
      <4>2. Waiting(n)'
        BY <4>1, Zenon DEF Waiting
      <4>3. ClientInStep(c) /\ ret' = ret
        BY <1>1, Zenon DEF InStep
      <4> QED
        BY <4>2, <4>3
    <3> QED
      BY <2>1, <3>1, <1>n, <1>1, <1>5 DEF ClientInStep
  <2>2. CASE d # c
    <3>1. ClientInStep(d) /\ Holding(d) /\ s[d] \in 0 .. MaxConns /\ sock[d] \in 0 .. MaxConns
      BY ClientHas DEF InStep
    <3>2. pc[d] \in {"send", "recv"} => s[d] \in Conns /\ conn'[s[d]] = conn[s[d]]
      BY <1>2, <1>4, <2>2, <3>1 DEF Holding, Conns
    <3>3. pc[d] \in {"compute", "verdict"} => sock[d] \in Conns /\ conn'[sock[d]] = conn[sock[d]]
      BY <1>3, <1>4, <3>1 DEF Holding, Conns
    <3>4. \A m : (Waiting(m) => Waiting(m)') /\ (Served(m)' <=> Served(m))
      BY <1>1, <1>7 DEF Waiting, Served
    <3> QED
      BY <1>1, <1>5, <2>2, <3>1, <3>2, <3>3, <3>4 DEF ClientInStep
  <2> QED
    BY <2>1, <2>2
<1>12. srv.st \in {"hello", "token"} => ~Has(backlog', srv.cur)
  BY <1>3, <1>7 DEF InStep
<1> QED
  BY <1>1, <1>8, <1>9, <1>10, <1>11, <1>12 DEF InStep

LEMMA SendHelloInStep == ASSUME IInv, InStep, NEW c \in Clients, SendHello(c) PROVE InStep'
<1>m. PICK m : m = s[c]
  OBVIOUS
<1>1. /\ pc[c] = "send" /\ UNCHANGED <<srv, backlog, s, sock, wholeB, ret>>
      /\ conn' = [conn EXCEPT ![m] = SentByClient(@, Hello)]
      /\ pc' = [pc EXCEPT ![c] = "recv"]
  BY <1>m DEF SendHello, Goto
<1>2. /\ m \in Conns /\ conn[m] \in Connection /\ conn[m].owner = c
      /\ DOMAIN pc = Clients /\ DOMAIN conn = Conns
  BY <1>m, <1>1, ClientHas
<1>3. Waiting(m) /\ WaitingInStep(m)
  BY <1>m, <1>1, <1>2 DEF InStep, ClientInStep
<1>4. ~Served(m)
  BY <1>1, <1>2 DEF InStep, ServedInStep
<1>5. /\ conn'[m] = [conn[m] EXCEPT !.c2s = <<>> \o Hello]
      /\ pc'[c] = "recv"
  BY <1>1, <1>2, <1>3 DEF WaitingInStep, SentByClient
<1>6. <<>> \o Hello = Hello
  BY DEF Hello
<1>7. WaitingInStep(m)'
  BY <1>m, <1>1, <1>2, <1>3, <1>5, <1>6 DEF WaitingInStep, Connection
<1>8. Waiting(m)'
  BY <1>1, <1>3 DEF Waiting
<1>9. ClientInStep(c)'
  BY <1>m, <1>1, <1>5, <1>8 DEF InStep, ClientInStep
<1>10. \A d \in Clients \ {c} :
        /\ pc'[d] = pc[d] /\ s'[d] = s[d] /\ sock'[d] = sock[d]
        /\ wholeB'[d] = wholeB[d] /\ ret'[d] = ret[d]
  BY <1>1, <1>2
<1>11. \A n \in Conns : n # m => conn'[n] = conn[n]
  BY <1>1, <1>2
<1> QED
  BY <1>m, <1>1, <1>2, <1>4, <1>7, <1>9, <1>10, <1>11, ClientStays

(* Undisturbed, it reads the whole of Offer, or the end of file of a       *)
(* server that did not know the identity.                                  *)
LEMMA RecvOfferInStep ==
    ASSUME IInv, DOMAIN ret = Clients, InStep, NEW c \in Clients, RecvOffer(c), ~ disturbed'
    PROVE  InStep'
<1>m. PICK m : m = s[c]
  OBVIOUS
<1> DEFINE k == conn[m]
<1>1. PICK part \in Received(k.s2c, 3, k.srv) :
        /\ \/ /\ Len(part) < 2
              /\ conn' = [conn EXCEPT ![m] = ClosedByClient([@ EXCEPT !.s2c = Rest(k.s2c, part)])]
              /\ Return(c, "-1")
              /\ UNCHANGED sock
           \/ /\ Len(part) >= 2
              /\ conn' = [conn EXCEPT ![m].s2c = Rest(k.s2c, part)]
              /\ sock' = [sock EXCEPT ![c] = m]
              /\ wholeB' = [wholeB EXCEPT ![c] = part = Offer]
              /\ Goto(c, "compute")
              /\ UNCHANGED ret
        /\ disturbed' = (disturbed \/ part \notin {<<>>, Offer})
  BY <1>m, Zenon DEF RecvOffer
<1>2. /\ pc[c] = "recv" /\ UNCHANGED <<srv, backlog>> /\ s' = [s EXCEPT ![c] = 0]
      /\ part \in {<<>>, Offer}
  BY <1>1 DEF RecvOffer
<1>3. /\ m \in Conns /\ k \in Connection /\ k.owner = c /\ m # 0
      /\ DOMAIN pc = Clients /\ DOMAIN conn = Conns /\ DOMAIN s = Clients
      /\ DOMAIN sock = Clients /\ DOMAIN wholeB = Clients
  BY <1>m, <1>2, ClientHas DEF Conns
<1>4. Offer \in Seq(Parts) /\ Offer # <<>> /\ Len(Offer) = 3 /\ Len(<<>>) = 0
  BY Messages, FirstParts
<1>5. ~ Waiting(m)
  <2>1. ASSUME Waiting(m) PROVE FALSE
    <3>1. k.s2c = <<>> /\ k.srv
      BY <1>3, <2>1 DEF InStep, WaitingInStep
    <3> QED
      BY <3>1, NothingReceived
  <2> QED
    BY <2>1
<1>6. CASE Served(m)
  <2>1. ServedInStep(m)
    BY <1>3, <1>6 DEF InStep
  <2>2. k.s2c = Offer /\ k.c2s = <<>> /\ k.cli /\ k.srv /\ ~ k.rst /\ srv.wholeA /\ Identity[c] = I
    BY <1>2, <1>3, <2>1 DEF ServedInStep
  <2>3. part = Offer
    <3>1. part \in Received(Offer, 3, k.srv)
      BY <2>2
    <3>2. part # <<>>
      BY <1>4, <3>1, FirstReceived
    <3> QED
      BY <1>2, <3>2
  <2>4. Rest(k.s2c, part) = <<>>
    BY <1>4, <2>2, <2>3, NothingLeft
  <2>5. /\ conn' = [conn EXCEPT ![m].s2c = <<>>]
        /\ sock' = [sock EXCEPT ![c] = m]
        /\ wholeB' = [wholeB EXCEPT ![c] = TRUE]
        /\ pc' = [pc EXCEPT ![c] = "compute"]
        /\ UNCHANGED ret
    <3>1. ~ (Len(part) < 2)
      <4>1. Len(part) = 3
        BY <1>4, <2>3, Zenon
      <4> QED
        BY <4>1
    <3>2. /\ conn' = [conn EXCEPT ![m].s2c = Rest(k.s2c, part)]
          /\ sock' = [sock EXCEPT ![c] = m]
          /\ wholeB' = [wholeB EXCEPT ![c] = part = Offer]
          /\ Goto(c, "compute")
          /\ UNCHANGED ret
      BY <1>1, <3>1
    <3>3. (part = Offer) = TRUE
      BY <2>3
    <3> QED
      BY <2>4, <3>2, <3>3, Zenon DEF Goto
  <2>6. conn'[m] = [k EXCEPT !.s2c = <<>>] /\ sock'[c] = m /\ wholeB'[c] = TRUE /\ pc'[c] = "compute"
    BY <1>3, <2>5
  <2>7. /\ conn'[m].owner = c /\ conn'[m].s2c = <<>> /\ conn'[m].c2s = <<>> /\ conn'[m].cli
        /\ conn'[m].srv /\ ~ conn'[m].rst
    BY <1>3, <2>2, <2>6 DEF Connection
  <2>8. ServedInStep(m)'
    BY <1>2, <2>2, <2>6, <2>7 DEF ServedInStep
  <2>9. ClientInStep(c)'
    <3>1. Served(m)'
      BY <1>2, <1>6 DEF Served
    <3> QED
      BY <2>5, <2>6, <3>1 DEF InStep, ClientInStep
  <2>10. \A d \in Clients \ {c} :
        /\ pc'[d] = pc[d] /\ s'[d] = s[d] /\ sock'[d] = sock[d]
        /\ wholeB'[d] = wholeB[d] /\ ret'[d] = ret[d]
    BY <1>2, <1>3, <2>5
  <2>11. \A n \in Conns : n # m => conn'[n] = conn[n]
    BY <1>3, <2>5
  <2> HIDE DEF k
  <2> QED
    BY <1>m, <1>2, <1>3, <1>5, <2>8, <2>9, <2>10, <2>11, ClientStays DEF k
<1>7. CASE ~ Served(m)
  <2>1. k.s2c = <<>> /\ Identity[c] # I
    BY <1>m, <1>2, <1>5, <1>7 DEF InStep, ClientInStep
  <2>2. part = <<>>
    <3>1. part \in Received(<<>>, 3, k.srv)
      BY <2>1
    <3> QED
      BY <3>1, NothingReceived
  <2>3. /\ conn' = [conn EXCEPT ![m] = ClosedByClient([@ EXCEPT !.s2c = Rest(k.s2c, part)])]
        /\ Return(c, "-1")
        /\ UNCHANGED sock
    BY <1>1, <1>4, <2>2
  <2>4. pc'[c] = "idle" /\ ClientInStep(c)'
    BY <1>3, <2>1, <2>3 DEF ClientInStep, Return, Goto
  <2>5. \A d \in Clients \ {c} :
        /\ pc'[d] = pc[d] /\ s'[d] = s[d] /\ sock'[d] = sock[d]
        /\ wholeB'[d] = wholeB[d] /\ ret'[d] = ret[d]
    BY <1>2, <1>3, <2>3 DEF Return, Goto
  <2>6. \A n \in Conns : n # m => conn'[n] = conn[n]
    BY <1>3, <2>3
  <2> HIDE DEF k
  <2> QED
    BY <1>m, <1>2, <1>3, <1>5, <1>7, <2>4, <2>5, <2>6, ClientStays DEF k
<1> QED
  BY <1>6, <1>7

(* Undisturbed, the token is the one of the client's password.             *)
LEMMA SendTokenInStep ==
    ASSUME IInv, InStep, NEW c \in Clients, SendToken(c), ~ disturbed'
    PROVE  InStep'
<1>m. PICK m : m = sock[c]
  OBVIOUS
<1> DEFINE k == conn[m]
<1>t. PICK token : token = TokenOf(c, TRUE)
  OBVIOUS
<1>1. /\ pc[c] = "compute" /\ UNCHANGED <<srv, backlog, s, sock, wholeB, ret>>
      /\ conn' = [conn EXCEPT ![m] = SentByClient(@, token)]
      /\ pc' = [pc EXCEPT ![c] = "verdict"]
  <2>1. PICK exact \in BOOLEAN :
            /\ conn' = [conn EXCEPT ![sock[c]] = SentByClient(@, TokenOf(c, exact))]
            /\ disturbed' = (disturbed \/ ~ exact)
    BY Zenon DEF SendToken
  <2>2. exact = TRUE
    BY <2>1
  <2>3. pc[c] = "compute" /\ UNCHANGED <<srv, backlog, s, sock, wholeB, ret>>
        /\ pc' = [pc EXCEPT ![c] = "verdict"]
    BY DEF SendToken, Goto
  <2> QED
    BY <1>m, <1>t, <2>1, <2>2, <2>3
<1>2. /\ m \in Conns /\ k \in Connection /\ k.owner = c
      /\ DOMAIN pc = Clients /\ DOMAIN conn = Conns
  BY <1>m, <1>1, ClientHas
<1>3. Served(m) /\ ServedInStep(m)
  BY <1>m, <1>1, <1>2 DEF InStep, ClientInStep
<1>4. ~Waiting(m)
  BY <1>1, <1>2 DEF InStep, WaitingInStep
<1>5. /\ k.cli /\ k.srv /\ ~ k.rst /\ srv.wholeA /\ Identity[c] = I
      /\ wholeB[c] /\ k.c2s = <<>> /\ k.s2c = <<>>
  BY <1>1, <1>2, <1>3 DEF ServedInStep
<1>6. token \in Seq(Parts) /\ <<>> \o token = token
  <2>1. token \in Seq(Parts)
    BY <1>t, Messages DEF TokenOf
  <2> QED
    BY <2>1
<1>7. conn'[m] = [k EXCEPT !.c2s = token] /\ pc'[c] = "verdict"
  BY <1>1, <1>2, <1>5, <1>6 DEF SentByClient
<1>8. /\ conn'[m].owner = c /\ conn'[m].s2c = <<>> /\ conn'[m].c2s = token /\ conn'[m].cli
      /\ conn'[m].srv /\ ~ conn'[m].rst
  BY <1>2, <1>5, <1>7 DEF Connection
<1>9. token = TokenOf(c, TRUE)'
  BY <1>t, <1>1 DEF TokenOf
<1>10. ServedInStep(m)'
  BY <1>m, <1>1, <1>5, <1>7, <1>8, <1>9 DEF ServedInStep
<1>11. ClientInStep(c)'
  <2>1. Served(m)'
    BY <1>1, <1>3 DEF Served
  <2> QED
    BY <1>m, <1>1, <1>7, <2>1 DEF InStep, ClientInStep
<1>12. \A d \in Clients \ {c} :
        /\ pc'[d] = pc[d] /\ s'[d] = s[d] /\ sock'[d] = sock[d]
        /\ wholeB'[d] = wholeB[d] /\ ret'[d] = ret[d]
  BY <1>1, <1>2
<1>13. \A n \in Conns : n # m => conn'[n] = conn[n]
  BY <1>1, <1>2
<1> HIDE DEF k
<1> QED
  BY <1>m, <1>1, <1>2, <1>4, <1>10, <1>11, <1>12, <1>13, ClientStays DEF k

(* Undisturbed, it reads the whole verdict, and "NO" only for a wrong      *)
(* password.                                                               *)
LEMMA RecvVerdictInStep ==
    ASSUME IInv, DOMAIN ret = Clients, InStep, NEW c \in Clients, RecvVerdict(c), ~ disturbed'
    PROVE  InStep'
<1>m. PICK m : m = sock[c]
  OBVIOUS
<1> DEFINE k == conn[m]
<1>1. PICK part \in Received(k.s2c, 2, k.srv) :
        /\ conn' = [conn EXCEPT ![m].s2c = Rest(k.s2c, part)]
        /\ \/ part = Ok /\ Return(c, "0")
           \/ part # Ok /\ Return(c, "-1")
        /\ disturbed' = (disturbed \/ part \notin {<<>>, Ok, No})
  BY <1>m DEF RecvVerdict
<1>2. pc[c] = "verdict" /\ UNCHANGED <<srv, backlog, s, sock>> /\ part \in {<<>>, Ok, No}
  BY <1>1 DEF RecvVerdict
<1>3. /\ m \in Conns /\ k \in Connection /\ k.owner = c
      /\ DOMAIN pc = Clients /\ DOMAIN conn = Conns /\ DOMAIN wholeB = Clients
  BY <1>m, <1>2, ClientHas
<1>4. ~ Waiting(m)
  BY <1>2, <1>3 DEF InStep, WaitingInStep
<1>5. ~ Served(m)
  <2>1. ASSUME Served(m) PROVE FALSE
    <3>1. k.s2c = <<>> /\ k.srv
      BY <1>2, <1>3, <2>1 DEF InStep, ServedInStep
    <3> QED
      BY <3>1, NothingReceived
  <2> QED
    BY <2>1
<1>6. k.s2c = Ok \/ (k.s2c = No /\ Password[c] # P)
  BY <1>m, <1>2, <1>5 DEF InStep, ClientInStep
<1>7. part = k.s2c
  <2>1. k.s2c \in Seq(Parts) /\ k.s2c # <<>>
    BY <1>6, Messages, FirstParts
  <2>2. part # <<>> /\ part[1] = k.s2c[1]
    BY <2>1, FirstReceived
  <2> QED
    BY <1>2, <1>6, <2>2, FirstParts
<1>8. ClientInStep(c)'
  <2>1. pc' = [pc EXCEPT ![c] = "idle"]
    BY <1>1 DEF Return, Goto
  <2>2. part = Ok => ret' = [ret EXCEPT ![c] = "0"]
    BY <1>1 DEF Return
  <2>4. ret'[c] = "-1" => ret[c] = "-1" \/ Password[c] # P
    BY <1>6, <1>7, <2>2
  <2>5. ClientInStep(c) /\ pc'[c] = "idle"
    BY <1>3, <2>1 DEF InStep
  <2> QED
    BY <2>4, <2>5 DEF ClientInStep
<1>9. \A d \in Clients \ {c} :
        /\ pc'[d] = pc[d] /\ s'[d] = s[d] /\ sock'[d] = sock[d]
        /\ wholeB'[d] = wholeB[d] /\ ret'[d] = ret[d]
  BY <1>1, <1>2, <1>3 DEF Return, Goto
<1>10. \A n \in Conns : n # m => conn'[n] = conn[n]
  BY <1>1, <1>3
<1> HIDE DEF k
<1> QED
  BY <1>m, <1>2, <1>3, <1>4, <1>5, <1>8, <1>9, <1>10, ClientStays DEF k

(***************************************************************************)
(* The steps of the server.                                                *)
(***************************************************************************)

LEMMA AcceptInStep == ASSUME IInv, InStep, Accept PROVE InStep'
<1>1. /\ srv.st = "accept" /\ backlog # <<>> /\ backlog \in Seq(Conns)
      /\ srv' = [st |-> "hello", cur |-> Head(backlog), wholeA |-> FALSE]
      /\ backlog' = Tail(backlog)
      /\ UNCHANGED <<conn, clientVars>>
  BY DEF Accept, IInv, TypeInv
<1>2. PICK h : h = Head(backlog)
  OBVIOUS
<1>3. /\ Len(backlog) \in Nat \ {0} /\ DOMAIN backlog = 1 .. Len(backlog) /\ h = backlog[1]
      /\ DOMAIN backlog' = 1 .. Len(backlog) - 1
      /\ \A i \in DOMAIN backlog' : backlog'[i] = backlog[i + 1]
  BY <1>1, <1>2
<1>4. /\ srv'.st = "hello" /\ srv'.cur = h
  BY <1>1, <1>2
<1>5. \A i, j \in DOMAIN backlog : backlog[i] = backlog[j] => i = j
  BY DEF InStep
<1>6. \A i, j \in DOMAIN backlog' : backlog'[i] = backlog'[j] => i = j
  <2> SUFFICES ASSUME NEW i \in 1 .. Len(backlog) - 1, NEW j \in 1 .. Len(backlog) - 1,
                      backlog'[i] = backlog'[j]
               PROVE  i = j
    BY <1>3
  <2>1. i + 1 \in DOMAIN backlog /\ j + 1 \in DOMAIN backlog /\ backlog[i + 1] = backlog[j + 1]
    BY <1>3
  <2>2. i + 1 = j + 1
    BY <1>5, <2>1
  <2> QED
    BY <2>2
<1>7. ~ Has(backlog', h)
  <2> SUFFICES ASSUME NEW i \in 1 .. Len(backlog) - 1, backlog'[i] = h
               PROVE  FALSE
    BY <1>3 DEF Has
  <2>1. i + 1 \in DOMAIN backlog /\ 1 \in DOMAIN backlog /\ backlog[i + 1] = backlog[1]
    BY <1>3
  <2>2. i + 1 = 1
    BY <1>5, <2>1
  <2> QED
    BY <2>2
<1>8. \A n : Has(backlog, n) <=> Has(backlog', n) \/ n = h
  <2>1. ASSUME NEW n, Has(backlog, n) PROVE Has(backlog', n) \/ n = h
    <3>1. PICK i \in 1 .. Len(backlog) : backlog[i] = n
      BY <1>3, <2>1 DEF Has
    <3>2. CASE i = 1
      BY <1>3, <3>1, <3>2
    <3>3. CASE i # 1
      <4>1. i - 1 \in DOMAIN backlog' /\ backlog'[i - 1] = n
        BY <1>3, <3>1, <3>3
      <4> QED
        BY <4>1 DEF Has
    <3> QED
      BY <3>2, <3>3
  <2>2. ASSUME NEW n, Has(backlog', n) \/ n = h PROVE Has(backlog, n)
    <3>1. CASE n = h
      BY <1>3, <3>1 DEF Has
    <3>2. CASE Has(backlog', n)
      <4>1. PICK i \in 1 .. Len(backlog) - 1 : backlog'[i] = n
        BY <1>3, <3>2 DEF Has
      <4>2. i + 1 \in DOMAIN backlog /\ backlog[i + 1] = n
        BY <1>3, <4>1
      <4> QED
        BY <4>2 DEF Has
    <3> QED
      BY <2>2, <3>1, <3>2
  <2> QED
    BY <2>1, <2>2
<1>9. \A n : (Waiting(n)' <=> Waiting(n)) /\ ~ Served(n)' /\ ~ Served(n)
  BY <1>1, <1>4, <1>8 DEF Waiting, Served
<1>10. \A n \in Conns : WaitingInStep(n) => WaitingInStep(n)'
  BY <1>1 DEF WaitingInStep, clientVars
<1>11. \A c \in Clients : ClientInStep(c) => ClientInStep(c)'
  BY <1>1, <1>9 DEF ClientInStep, clientVars
<1> QED
  BY <1>4, <1>6, <1>7, <1>9, <1>10, <1>11 DEF InStep

(* Undisturbed, the server reads the whole of Hello: it has no reason to   *)
(* die, and ends only the connection of a client it does not know.         *)
LEMMA RecvHelloInStep ==
    ASSUME IInv, InStep, RecvHello, ~ disturbed'
    PROVE  InStep'
<1>n. PICK n : n = srv.cur
  OBVIOUS
<1>k. PICK k : k = conn[n]
  OBVIOUS
<1>1. PICK part \in Received(k.c2s, Len(Hello), k.cli) :
        LET read == [k EXCEPT !.c2s = Rest(k.c2s, part)] IN
        /\ \/ Len(part) < 2 /\ Dies
           \/ /\ Len(part) >= 2
              /\ Identity[k.owner] # I
              /\ CloseAndAccept(read)
           \/ /\ Len(part) >= 2
              /\ Identity[k.owner] = I
              /\ conn' = [conn EXCEPT ![n] = SentByServer(read, Offer)]
              /\ srv' = [srv EXCEPT !.st = "token", !.wholeA = part = Hello]
              /\ UNCHANGED backlog
        /\ disturbed' = (disturbed \/ part \notin {<<>>, Hello})
  BY <1>n, <1>k DEF RecvHello
<1> DEFINE read == [k EXCEPT !.c2s = Rest(k.c2s, part)]
<1>2. srv.st = "hello" /\ UNCHANGED clientVars /\ part \in {<<>>, Hello}
  BY <1>1 DEF RecvHello
<1>3. /\ n \in Conns /\ k \in Connection /\ DOMAIN conn = Conns
      /\ DOMAIN srv = {"st", "cur", "wholeA"} /\ srv \in ServerState
  BY <1>n, <1>k, <1>2 DEF IInv, TypeInv, SocketInv, Conns, ServerState
<1>c. PICK c \in Clients : c = k.owner
  BY <1>3 DEF Connection
<1>4. Waiting(n)
  BY <1>n, <1>2 DEF Waiting
<1>w. WaitingInStep(n)
  BY <1>3, <1>4 DEF InStep
<1>5. /\ k.cli /\ k.srv /\ ~ k.rst /\ k.s2c = <<>> /\ pc[c] \in {"send", "recv"} /\ s[c] = n
      /\ k.c2s = IF pc[c] = "send" THEN <<>> ELSE Hello
  BY <1>k, <1>c, <1>w DEF WaitingInStep
<1>6. pc[c] = "recv" /\ k.c2s = Hello
  <2>1. ASSUME k.c2s = <<>> PROVE FALSE
    <3>1. part \in Received(<<>>, Len(Hello), k.cli)
      BY <2>1
    <3> QED
      BY <1>5, <3>1, NothingReceived
  <2> QED
    BY <1>5, <2>1
<1>h. Hello \in Seq(Parts) /\ Hello # <<>> /\ Len(Hello) = 3
  BY Messages, FirstParts
<1>7. part = Hello
  <2>1. part \in Received(Hello, 3, k.cli)
    BY <1>6, <1>h
  <2>2. part # <<>>
    BY <1>h, <2>1, FirstReceived
  <2> QED
    BY <1>2, <2>2
<1>8. Rest(k.c2s, part) = <<>> /\ ~ (Len(part) < 2)
  <2>1. Rest(k.c2s, part) = <<>>
    BY <1>6, <1>7, <1>h, NothingLeft
  <2>2. Len(part) = 3
    BY <1>7, <1>h, Zenon
  <2> QED
    BY <2>1, <2>2
<1>9. /\ read = [k EXCEPT !.c2s = <<>>]
      /\ read.s2c = <<>> /\ read.c2s = <<>> /\ read.cli /\ read.srv /\ ~ read.rst
      /\ read.owner = c /\ read \in Connection
  <2>1. read = [k EXCEPT !.c2s = <<>>] /\ <<>> \in Seq(Parts)
    BY <1>8
  <2> HIDE DEF read
  <2> QED
    BY <2>1, <1>3, <1>5, <1>c DEF Connection
<1> HIDE DEF read
<1>10. CASE Identity[c] # I /\ CloseAndAccept(read)
  <2>1. /\ srv' = [st |-> "accept", cur |-> 0, wholeA |-> FALSE]
        /\ conn' = [conn EXCEPT ![n] = ClosedByServer(read)] /\ backlog' = backlog
    BY <1>n, <1>10 DEF CloseAndAccept
  <2>2. conn'[n].s2c = <<>>
    BY <1>3, <1>9, <2>1, Closing
  <2>3. ClientInStep(c)'
    <3>1. ClientInStep(c) /\ pc' = pc /\ s' = s /\ ret' = ret
      BY <1>2 DEF InStep, clientVars
    <3> QED
      BY <3>1, <1>5, <1>6, <1>10, <2>2 DEF ClientInStep
  <2>4. \A m \in Conns : m # srv.cur => conn'[m] = conn[m]
    BY <1>n, <1>3, <2>1
  <2>5. srv'.st = "accept"
    BY <2>1
  <2>6. \A d \in Clients : conn[srv.cur].owner = d => ClientInStep(d)'
    BY <1>n, <1>k, <1>c, <2>3
  <2> QED
    BY <1>2, <2>1, <2>4, <2>5, <2>6, ServerStays
<1>11. CASE /\ Identity[c] = I
            /\ conn' = [conn EXCEPT ![n] = SentByServer(read, Offer)]
            /\ srv' = [srv EXCEPT !.st = "token", !.wholeA = part = Hello]
            /\ UNCHANGED backlog
  <2>1. srv'.st = "token" /\ srv'.cur = n /\ srv'.wholeA
    BY <1>n, <1>3, <1>7, <1>11
  <2>2. <<>> \o Offer = Offer
    BY DEF Offer
  <2>3. conn'[n] = [read EXCEPT !.s2c = Offer]
    BY <1>3, <1>9, <1>11, <2>2 DEF SentByServer
  <2>4. /\ conn'[n].owner = c /\ conn'[n].c2s = <<>> /\ conn'[n].s2c = Offer
        /\ conn'[n].cli /\ conn'[n].srv /\ ~ conn'[n].rst
    BY <1>9, <2>3 DEF Connection
  <2>5. pc'[c] = "recv" /\ s'[c] = n /\ ret' = ret
    BY <1>2, <1>5, <1>6 DEF clientVars
  <2>6. ServedInStep(n)' /\ Served(n)'
    BY <1>11, <2>1, <2>4, <2>5 DEF ServedInStep, Served
  <2>7. ClientInStep(c)'
    BY <2>5, <2>6 DEF ClientInStep, InStep
  <2>8. \A m \in Conns : m # srv.cur => conn'[m] = conn[m]
    BY <1>n, <1>3, <1>11
  <2>9. \A d \in Clients : conn[srv.cur].owner = d => ClientInStep(d)'
    BY <1>n, <1>k, <1>c, <2>7
  <2>10. srv'.cur = srv.cur /\ ServedInStep(srv.cur)'
    <3>1. (n = srv.cur)'
      BY <2>1
    <3> QED
      BY <1>n, <2>1, <2>6, <3>1
  <2> QED
    BY <1>2, <1>11, <2>1, <2>8, <2>9, <2>10, ServerStays
<1> QED
  BY <1>1, <1>8, <1>10, <1>11, <1>c DEF read

(* Undisturbed, the server reads the whole token, which is the right one   *)
(* just when the password is.                                              *)
LEMMA RecvTokenInStep ==
    ASSUME IInv, InStep, RecvToken, ~ disturbed'
    PROVE  InStep'
<1>n. PICK n : n = srv.cur
  OBVIOUS
<1>k. PICK k : k = conn[n]
  OBVIOUS
<1>1. PICK part \in Received(k.c2s, 4, k.cli) :
        LET equal == srv.wholeA /\ part = Token
            read == [k EXCEPT !.c2s = Rest(k.c2s, part)]
        IN  /\ CloseAndAccept(SentByServer(read, IF equal THEN Ok ELSE No))
            /\ disturbed' = (disturbed \/ part \notin {<<>>, Token, Other})
  BY <1>n, <1>k DEF RecvToken
<1> DEFINE read == [k EXCEPT !.c2s = Rest(k.c2s, part)]
<1>2. srv.st = "token" /\ UNCHANGED clientVars /\ part \in {<<>>, Token, Other}
  BY <1>1 DEF RecvToken
<1>3. n \in Conns /\ k \in Connection /\ DOMAIN conn = Conns
  BY <1>n, <1>k, <1>2 DEF IInv, TypeInv, SocketInv, Conns
<1>c. PICK c \in Clients : c = k.owner
  BY <1>3 DEF Connection
<1>w. ServedInStep(n) /\ Served(n)
  BY <1>n, <1>2, <1>3 DEF InStep, Served
<1>t. PICK token : token = TokenOf(c, TRUE)
  OBVIOUS
<1>4. /\ k.cli /\ k.srv /\ ~ k.rst /\ srv.wholeA
      /\ k.c2s = <<>> \/ (pc[c] = "verdict" /\ sock[c] = n /\ wholeB[c] /\ k.c2s = token /\ k.s2c = <<>>)
  BY <1>k, <1>c, <1>t, <1>w DEF ServedInStep
<1>5. pc[c] = "verdict" /\ sock[c] = n /\ wholeB[c] /\ k.c2s = token /\ k.s2c = <<>>
  <2>1. ASSUME k.c2s = <<>> PROVE FALSE
    <3>1. part \in Received(<<>>, 4, k.cli)
      BY <2>1
    <3> QED
      BY <1>4, <3>1, NothingReceived
  <2> QED
    BY <1>4, <2>1
<1>6. token = IF Password[c] = P THEN Token ELSE Other
  BY <1>t, <1>5 DEF TokenOf
<1>7. part = token
  <2>1. token \in Seq(Parts) /\ token # <<>>
    BY <1>6, Messages, FirstParts
  <2>2. part \in Received(token, 4, k.cli)
    BY <1>5
  <2>3. part # <<>> /\ part[1] = token[1]
    BY <2>1, <2>2, FirstReceived
  <2> QED
    BY <1>2, <1>6, <2>3, FirstParts
<1>8. PICK answer : /\ answer \in {Ok, No}
                    /\ answer = No => Password[c] # P
                    /\ CloseAndAccept(SentByServer(read, answer))
  <2>1. (srv.wholeA /\ part = Token) <=> Password[c] = P
    BY <1>4, <1>6, <1>7, FirstParts
  <2>2. CASE Password[c] = P
    <3>1. CloseAndAccept(SentByServer(read, Ok))
      BY <1>1, <2>1, <2>2
    <3> QED
      BY <3>1, <2>2, FirstParts
  <2>3. CASE Password[c] # P
    <3>1. CloseAndAccept(SentByServer(read, No))
      BY <1>1, <2>1, <2>3
    <3> QED
      BY <3>1, <2>3
  <2> QED
    BY <2>2, <2>3
<1>9. /\ read = [k EXCEPT !.c2s = <<>>]
      /\ read.s2c = <<>> /\ read.cli /\ read \in Connection
  <2>1. read = [k EXCEPT !.c2s = <<>>] /\ <<>> \in Seq(Parts)
    <3>1. token \in Seq(Parts)
      BY <1>6, Messages
    <3> QED
      BY <1>5, <1>7, <3>1, NothingLeft
  <2> HIDE DEF read
  <2> QED
    BY <2>1, <1>3, <1>4, <1>5 DEF Connection
<1> HIDE DEF read
<1> DEFINE new == SentByServer(read, answer)
<1>10. new \in Connection /\ new.s2c = answer
  <2>1. answer \in Seq(Parts) /\ <<>> \o answer = answer
    <3>1. answer \in Seq(Parts)
      BY <1>8, Messages
    <3> QED
      BY <3>1
  <2>2. new \in Connection
    BY <1>9, <2>1, Sending
  <2>3. new = [read EXCEPT !.s2c = answer]
    BY <1>9, <2>1 DEF SentByServer
  <2> HIDE DEF new
  <2> QED
    BY <1>9, <2>2, <2>3 DEF Connection
<1> HIDE DEF new
<1>11. /\ srv'.st = "accept"
       /\ conn' = [conn EXCEPT ![n] = ClosedByServer(new)] /\ backlog' = backlog
  BY <1>n, <1>8 DEF CloseAndAccept, new
<1>12. conn'[n].s2c = answer
  BY <1>3, <1>10, <1>11, Closing
<1>13. ClientInStep(c)'
  <2>1. ClientInStep(c) /\ pc' = pc /\ sock' = sock /\ ret' = ret
    BY <1>2 DEF InStep, clientVars
  <2> QED
    BY <2>1, <1>5, <1>8, <1>12 DEF ClientInStep
<1>14. \A m \in Conns : m # srv.cur => conn'[m] = conn[m]
  BY <1>n, <1>3, <1>11
<1>15. \A d \in Clients : conn[srv.cur].owner = d => ClientInStep(d)'
  BY <1>n, <1>k, <1>c, <1>13
<1> QED
  BY <1>2, <1>11, <1>14, <1>15, ServerStays

(* Undisturbed, no connection is reset while the server has it.            *)
LEMMA NoResetInStep ==
    ASSUME IInv, InStep
    PROVE  ~ ServerReset
<1>1. ASSUME ServerReset PROVE FALSE
  <2>1. srv.st \in {"hello", "token"} /\ conn[srv.cur].rst /\ srv.cur \in Conns
    BY <1>1 DEF ServerReset, IInv, TypeInv, SocketInv, Conns
  <2>2. Waiting(srv.cur) \/ Served(srv.cur)
    BY <2>1 DEF Waiting, Served
  <2>3. ~ conn[srv.cur].rst
    BY <2>1, <2>2 DEF InStep, WaitingInStep, ServedInStep
  <2> QED
    BY <2>1, <2>3
<1> QED
  BY <1>1

(***************************************************************************)
(* The theorem.                                                            *)
(***************************************************************************)

LEMMA ReturnsOf == ASSUME DOMAIN ret = Clients, [Next]_vars PROVE DOMAIN ret' = Clients
<1>1. CASE UNCHANGED vars
  BY <1>1 DEF vars, clientVars
<1>2. ASSUME NEW c \in Clients,
             \/ StartRefuses(c) \/ Start(c) \/ Connect(c) \/ ConnectFails(c) \/ SendHello(c)
             \/ StartFails(c) \/ RecvOffer(c) \/ FinalizeFails(c) \/ SendToken(c) \/ RecvVerdict(c) \/ Free(c)
      PROVE  DOMAIN ret' = Clients
  <2>1. ret' = ret \/ \E code : ret' = [ret EXCEPT ![c] = code]
    BY <1>2 DEF StartRefuses, Start, Connect, ConnectFails, SendHello, StartFails, StartCleanup, RecvOffer,
        FinalizeFails, SendToken, RecvVerdict, Free, Return
  <2> QED
    BY <2>1
<1>3. CASE Server
  BY <1>3 DEF Server, Accept, RecvHello, RecvToken, ServerReset, clientVars
<1> QED
  BY <1>1, <1>2, <1>3 DEF Next

LEMMA StepInvInit == ASSUME Init PROVE StepInv
<1>1. \A n \in Conns : ~ Waiting(n) /\ ~ Served(n)
  BY DEF Init, Waiting, Served, Has
<1>2. \A c \in Clients : ClientInStep(c)
  BY DEF Init, ClientInStep
<1>3. /\ srv.st = "accept" /\ DOMAIN ret = Clients
      /\ \A i, j \in DOMAIN backlog : backlog[i] = backlog[j] => i = j
  BY DEF Init
<1> QED
  BY <1>1, <1>2, <1>3, InitInv DEF StepInv, InStep

(* What disturbs is never forgotten, and a step that does not disturb is   *)
(* one of those above.                                                     *)
LEMMA StepInvNext == ASSUME StepInv, [Next]_vars PROVE StepInv'
<1>1. IInv /\ DOMAIN ret = Clients /\ (~ disturbed => InStep)
  BY DEF StepInv
<1>2. IInv' /\ DOMAIN ret' = Clients
  BY <1>1, NextInv, ReturnsOf
<1>3. ASSUME ~ disturbed' PROVE InStep'
  <2>1. CASE UNCHANGED vars
    <3>1. InStep
      BY <1>1, <1>3, <2>1 DEF vars
    <3>2. UNCHANGED <<conn, pc, s, sock, wholeB, ret, srv, backlog>>
      BY <2>1 DEF vars, clientVars
    <3>3. \A n : (Waiting(n)' <=> Waiting(n)) /\ (Served(n)' <=> Served(n))
      BY <3>2 DEF Waiting, Served
    <3>4. \A n : WaitingInStep(n) => WaitingInStep(n)'
      BY <3>2 DEF WaitingInStep
    <3>5. \A d : TokenOf(d, TRUE)' = TokenOf(d, TRUE)
      BY <3>2 DEF TokenOf
    <3>6. \A n : ServedInStep(n) => ServedInStep(n)'
      BY <3>2, <3>5 DEF ServedInStep
    <3>7. \A c : ClientInStep(c) => ClientInStep(c)'
      BY <3>2, <3>3 DEF ClientInStep
    <3> QED
      BY <3>1, <3>2, <3>3, <3>4, <3>6, <3>7 DEF InStep
  <2>2. ASSUME NEW c \in Clients,
               \/ StartRefuses(c) \/ Start(c) \/ Connect(c) \/ ConnectFails(c) \/ SendHello(c)
               \/ StartFails(c) \/ RecvOffer(c) \/ FinalizeFails(c) \/ SendToken(c) \/ RecvVerdict(c) \/ Free(c)
        PROVE  InStep'
    <3>1. ~ disturbed
      BY <1>3, <2>2 DEF StartRefuses, Start, Connect, ConnectFails, SendHello, StartFails, RecvOffer,
          FinalizeFails, SendToken, RecvVerdict, Free
    <3>2. ~ StartRefuses(c) /\ ~ ConnectFails(c) /\ ~ StartFails(c) /\ ~ FinalizeFails(c)
      BY <1>3 DEF StartRefuses, ConnectFails, StartFails, FinalizeFails
    <3> QED
      BY <1>1, <1>3, <2>2, <3>1, <3>2, StartInStep, ConnectInStep, SendHelloInStep,
         RecvOfferInStep, SendTokenInStep, RecvVerdictInStep, FreeInStep
  <2>3. CASE Server
    <3>1. ~ disturbed
      BY <1>3, <2>3 DEF Server, Accept, RecvHello, RecvToken, ServerReset
    <3> QED
      BY <1>1, <1>3, <2>3, <3>1, AcceptInStep, RecvHelloInStep, RecvTokenInStep, NoResetInStep
      DEF Server
  <2> QED
    BY <2>1, <2>2, <2>3 DEF Next
<1> QED
  BY <1>2, <1>3 DEF StepInv

(* As long as every recv() returns a whole message, no memory runs out and *)
(* no connect() fails, srp_server.py lives, and srp_client_authenticate()  *)
(* fails only for a client whose identity or password is wrong, whoever    *)
(* else is connected and however often each starts again.                  *)
THEOREM UndisturbedSuccess == Spec => []UndisturbedSucceeds
<1>1. Init => StepInv
  BY StepInvInit
<1>2. StepInv /\ [Next]_vars => StepInv'
  BY StepInvNext
<1>3. StepInv => UndisturbedSucceeds
  BY DEF StepInv, InStep, ClientInStep, UndisturbedSucceeds
<1> QED
  BY <1>1, <1>2, <1>3, PTL DEF Spec
=============================================================================
