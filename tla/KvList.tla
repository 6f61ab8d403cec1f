------------------------------- MODULE KvList -------------------------------
(***************************************************************************)
(* What src/src/cookie.h promises of a cookie: a list of members, only     *)
(* ever extended at its end, whose lookups answer by position and, by key, *)
(* with the first member given.                                            *)
(***************************************************************************)
EXTENDS Integers, Sequences

CONSTANT NULL

VARIABLES
    kvs,        \* the members, <<key, value>>, or NULL when there is no cookie
    answer      \* the last call: [op, of, result]

vars == <<kvs, answer>>

Init ==
    /\ kvs = NULL
    /\ answer = [op |-> "none", of |-> NULL, result |-> NULL]

Answers(op) == answer'.op = op

(* The first of the members with a key. *)
First(key) ==
    LET matching == {i \in DOMAIN kvs : kvs[i][1] = key}
    IN  IF matching = {} THEN NULL
        ELSE kvs[CHOOSE i \in matching : \A j \in matching : i <= j]

(* A cookie is made, empty or by decoding a text; or nothing is.           *)
Make ==
    /\ kvs = NULL
    /\ \/ Answers("alloc") /\ (kvs' = NULL \/ kvs' = <<>>)
       \/ Answers("decode")
    /\ answer'.result = IF kvs' = NULL THEN -1 ELSE 0

Add ==
    /\ Answers("append")
    /\ \/ answer'.result = -1 /\ kvs' = kvs
       \/ answer'.result = 0 /\ kvs # NULL /\ kvs' = Append(kvs, answer'.of)

Lookup ==
    /\ kvs # NULL
    /\ kvs' = kvs
    /\ \/ Answers("count") /\ answer'.result = Len(kvs)
       \/ /\ Answers("at")
          /\ answer'.result = IF answer'.of < Len(kvs) THEN kvs[answer'.of + 1] ELSE NULL
       \/ Answers("get") /\ answer'.result = First(answer'.of)

Forget == kvs # NULL /\ kvs' = NULL /\ UNCHANGED answer

Next == Make \/ Add \/ Lookup \/ Forget

Spec == Init /\ [][Next]_vars
=============================================================================
