------------------------- MODULE PasswordAgreement -------------------------
(***************************************************************************)
(* What src/src/srp.h promises of a server and of the clients that        *)
(* authenticate to it, without keys, tokens or arithmetic: the server has *)
(* at most one session, offered to the caller of the last start() until a *)
(* finalize() settles or refuses it; only a client whose token the server *)
(* accepts settles one, and it settles the one offered to it. srp.h means  *)
(* the clients with the right credentials; which ones srp.c accepts is     *)
(* said by Srp.tla, which refines this module.                             *)
(***************************************************************************)
EXTENDS Naturals

CONSTANTS
    Clients,
    Known,      \* the clients whose identity the server knows, a subset of Clients
    Accepted,   \* those whose token it accepts too, a subset of Known
    NULL

VARIABLES
    last,       \* how many sessions have been offered
    offered,    \* the session waiting for its finalize(), or NULL
    settled,    \* the session whose key the server holds as established, or NULL
    holds       \* per client, the session whose key it holds, or NULL

vars == <<last, offered, settled, holds>>

Session == [who : Clients, n : Nat]

Init ==
    /\ last = 0
    /\ offered = NULL
    /\ settled = NULL
    /\ holds = [c \in Clients |-> NULL]

(* A start() replaces whatever session the server had. *)
Offer(c) ==
    /\ c \in Known
    /\ last' = last + 1
    /\ offered' = [who |-> c, n |-> last + 1]
    /\ settled' = NULL
    /\ UNCHANGED holds

(* The finalize() of the client the session was offered to. *)
Settle(c) ==
    /\ c \in Accepted
    /\ offered # NULL
    /\ offered.who = c
    /\ offered' = NULL
    /\ settled' = offered
    /\ holds' = [holds EXCEPT ![c] = offered]
    /\ UNCHANGED last

(* The finalize() of anyone, with a token the server does not accept. *)
Refuse ==
    /\ offered # NULL
    /\ offered' = NULL
    /\ UNCHANGED <<last, settled, holds>>

(* Either side is freed and created again: its session is gone. *)
ServerForgets ==
    /\ offered' = NULL
    /\ settled' = NULL
    /\ UNCHANGED <<last, holds>>

ClientForgets(c) ==
    /\ holds' = [holds EXCEPT ![c] = NULL]
    /\ UNCHANGED <<last, offered, settled>>

Next ==
    \/ \E c \in Clients : Offer(c) \/ Settle(c) \/ ClientForgets(c)
    \/ Refuse
    \/ ServerForgets

Spec == Init /\ [][Next]_vars

(***************************************************************************)
(* What the promise amounts to.                                            *)
(***************************************************************************)

TypeOK ==
    /\ last \in Nat
    /\ offered \in Session \union {NULL}
    /\ settled \in Session \union {NULL}
    /\ holds \in [Clients -> Session \union {NULL}]

(* A session someone holds as established belongs to an accepted client, *)
(* and the one the server holds is held by no other client than its own.  *)
OnlyAcceptedHold ==
    /\ settled # NULL => settled.who \in Accepted
    /\ \A c \in Clients : holds[c] # NULL => c \in Accepted /\ holds[c].who = c
    /\ \A c \in Clients :
        settled # NULL /\ holds[c] # NULL /\ holds[c].n = settled.n => settled.who = c

(* A session still to be settled is newer than every session held: nobody *)
(* holds the key of a session the server has yet to accept or refuse.     *)
OfferIsNew ==
    offered # NULL =>
        /\ offered.n = last
        /\ \A c \in Clients : holds[c] # NULL => holds[c].n < offered.n
=============================================================================
