------------------------------- MODULE Cookie -------------------------------
(***************************************************************************)
(* src/src/cookie.c: a cookie is a singly linked list of members, with its *)
(* count and its last one. A pointer is the place of a member in the       *)
(* memory "node", or 0 for NULL. One caller at a time uses one cookie, and *)
(* memory may run out in every call.                                       *)
(***************************************************************************)
EXTENDS Bytes

CONSTANTS
    Keys, Values,       \* the strings it is used with
    Texts,              \* the strings that are decoded
    MaxMembers          \* bound: how many members a cookie gets

(* Keys and values are strings without a NUL before their end. *)
ASSUME CookieAssumption ==
    /\ MaxMembers \in Nat
    /\ Keys \cup Values \subseteq Seq(Character)
    /\ Texts \subseteq Seq(Byte) \cup {NULL}

VARIABLES
    cookie,     \* [count, head, tail, node], or NULL
    todo,       \* cookie_decode(): its string and the tokens left, or NULL
    answer,     \* what the last call returned: [op, of, result]
    text        \* cookie_encode(): what it returned, of which members, and whether
                \* memory ran out

cookieVars == <<cookie, todo, answer, text>>

Amp == 38               \* '&'
Eq == 61                \* '='

(***************************************************************************)
(* The list.                                                               *)
(***************************************************************************)

Empty == [count |-> 0, head |-> 0, tail |-> 0, node |-> <<>>]

(* Fault: a new member is linked behind the first one. *)
LinkedBehindHead(c, kv) ==
    [p \in DOMAIN c.node |-> IF p = c.head THEN [c.node[p] EXCEPT !.next = kv] ELSE c.node[p]]

Linked(c, kv) ==
    [p \in DOMAIN c.node |-> IF p = c.tail THEN [c.node[p] EXCEPT !.next = kv] ELSE c.node[p]]

(* cookie_append() that does not run out of memory. *)
Appended(c, key, value) ==
    LET kv == Len(c.node) + 1
    IN  [count |-> c.count + 1,
         head  |-> IF c.head = 0 THEN kv ELSE c.head,
         tail  |-> kv,
         node  |-> Append(Linked(c, kv), [key |-> key, value |-> value, next |-> 0])]

(* cookie_kv_key() and cookie_kv_value() of what a pointer points to. *)
Member(c, kv) == IF kv = 0 THEN NULL ELSE <<c.node[kv].key, c.node[kv].value>>

CookieAt(c, index) ==
    LET kv[i \in 0 .. index] ==
            IF i = 0 THEN c.head
            ELSE IF kv[i - 1] = 0 THEN 0 ELSE c.node[kv[i - 1]].next
    IN  Member(c, kv[index])

(* What a caller that counts sees. *)
Members(c) == [i \in 1 .. c.count |-> CookieAt(c, i - 1)]

CookieGet(c, key) ==
    LET found[kv \in 0 .. Len(c.node)] ==
            IF kv = 0 THEN 0
            ELSE IF c.node[kv].key = key THEN kv ELSE found[c.node[kv].next]
    IN  Member(c, found[c.head])

(***************************************************************************)
(* Texts.                                                                  *)
(***************************************************************************)

(* Fault: a value may hold the separator of members. *)
EscapeOnlyEq(s) == Joined([k \in DOMAIN s |-> IF s[k] = Eq THEN <<>> ELSE <<s[k]>>])

Escape(s) ==
    Joined([k \in DOMAIN s |-> IF s[k] = Amp \/ s[k] = Eq THEN <<>> ELSE <<s[k]>>])

(* strlcat() that must not truncate. *)
Cat(dst, src, siz) ==
    IF dst = NULL THEN NULL
    ELSE IF Len(dst) + Len(src) >= siz THEN NULL ELSE dst \o src

(* Fault: no room is made for what joins two members. *)
EncodedSizeUnjoined(c) ==
    LET sum[n \in 0 .. c.count] ==
            IF n = 0 THEN 1
            ELSE sum[n - 1] + Len(CookieAt(c, n - 1)[1]) + 1 + Len(CookieAt(c, n - 1)[2])
    IN  sum[c.count]

(* The size of the memory: of the strings as they are, not escaped. *)
EncodedSize(c) ==
    LET sum[n \in 0 .. c.count] ==
            IF n = 0 THEN 1
            ELSE sum[n - 1] + (IF n > 1 THEN 1 ELSE 0)
                    + Len(CookieAt(c, n - 1)[1]) + 1 + Len(CookieAt(c, n - 1)[2])
    IN  sum[c.count]

Encoded(c) ==
    LET siz == EncodedSize(c)
        encoded[n \in 0 .. c.count] ==
            IF n = 0 THEN <<>>
            ELSE LET before == encoded[n - 1]
                     joined == IF n > 1 THEN Cat(before, <<Amp>>, siz) ELSE before
                     key    == Cat(joined, Escape(CookieAt(c, n - 1)[1]), siz)
                 IN  Cat(Cat(key, <<Eq>>, siz), Escape(CookieAt(c, n - 1)[2]), siz)
    IN  encoded[c.count]

(* strtok_r(): what is between two separators, unless it is empty. *)
Tokens(s) ==
    LET n == Strlen(s)
        from[p \in 1 .. n + 2] ==
            IF p > n THEN <<>>
            ELSE LET ends == {e \in p .. n + 1 : e = n + 1 \/ s[e] = Amp}
                     end  == CHOOSE e \in ends : \A f \in ends : e <= f
                 IN  IF end = p THEN from[p + 1]
                     ELSE <<SubSeq(s, p, end - 1)>> \o from[end + 1]
    IN  from[1]

Equals(token) == {k \in DOMAIN token : token[k] = Eq}

(* The key and the value of a token: what is before and after its first    *)
(* '='.                                                                    *)
Split(token) ==
    LET eq == CHOOSE k \in Equals(token) : \A j \in Equals(token) : k <= j
    IN  <<SubSeq(token, 1, eq - 1), SubSeq(token, eq + 1, Len(token))>>

(***************************************************************************)
(* The calls.                                                              *)
(***************************************************************************)

Answer(op, of, result) == answer' = [op |-> op, of |-> of, result |-> result]

CookieInit ==
    /\ cookie = NULL /\ todo = NULL
    /\ answer = [op |-> "none", of |-> NULL, result |-> NULL]
    /\ text = [string |-> NULL, members |-> <<>>, broke |-> TRUE]

CookieAlloc ==
    /\ cookie = NULL
    /\ cookie' \in MayFail(Empty)
    /\ Answer("alloc", NULL, IF cookie' = NULL THEN -1 ELSE 0)
    /\ UNCHANGED <<todo, text>>

CookieAppend(key, value) ==
    /\ todo = NULL
    /\ \/ /\ cookie # NULL
          /\ cookie' = Appended(cookie, key, value)
          /\ Answer("append", <<key, value>>, 0)
       \/ /\ UNCHANGED cookie
          /\ Answer("append", <<key, value>>, -1)
    /\ UNCHANGED <<todo, text>>

CookieCount ==
    /\ todo = NULL /\ cookie # NULL
    /\ Answer("count", NULL, cookie.count)
    /\ UNCHANGED <<cookie, todo, text>>

CookieLookupAt(index) ==
    /\ todo = NULL /\ cookie # NULL
    /\ Answer("at", index, CookieAt(cookie, index))
    /\ UNCHANGED <<cookie, todo, text>>

CookieLookup(key) ==
    /\ todo = NULL /\ cookie # NULL
    /\ Answer("get", key, CookieGet(cookie, key))
    /\ UNCHANGED <<cookie, todo, text>>

(* Each of the strings it escapes, and the text, may not be allocated. *)
CookieEncode ==
    /\ todo = NULL /\ cookie # NULL
    /\ \E fails \in BOOLEAN :
        text' = [string  |-> IF fails THEN NULL ELSE Encoded(cookie),
                 members |-> Members(cookie),
                 broke   |-> fails]
    /\ UNCHANGED <<cookie, todo, answer>>

(* cookie_decode() works on a copy of the string, and on a cookie that the *)
(* caller does not see until it is done.                                   *)
DecodeReturns(s, fails, result) ==
    /\ todo' = NULL
    /\ Answer("decode", [string |-> s, broke |-> fails], result)

CookieDecode(s) ==
    /\ cookie = NULL
    /\ \/ /\ s # NULL
          /\ cookie' = Empty
          /\ todo' = [of |-> s, tokens |-> Tokens(s)]
          /\ UNCHANGED answer
       \/ UNCHANGED cookie /\ DecodeReturns(s, s # NULL, -1)
    /\ UNCHANGED text

DecodeToken ==
    /\ todo # NULL
    /\ todo.tokens # <<>>
    /\ LET token == Head(todo.tokens) IN
       \/ /\ Equals(token) # {}
          /\ cookie' = Appended(cookie, Split(token)[1], Split(token)[2])
          /\ todo' = [todo EXCEPT !.tokens = Tail(todo.tokens)]
          /\ UNCHANGED answer
       \/ cookie' = NULL /\ DecodeReturns(todo.of, Equals(token) # {}, -1)
    /\ UNCHANGED text

DecodeEnds ==
    /\ todo # NULL
    /\ todo.tokens = <<>>
    /\ DecodeReturns(todo.of, FALSE, 0)
    /\ UNCHANGED <<cookie, text>>

CookieFree ==
    /\ todo = NULL /\ cookie # NULL
    /\ cookie' = NULL
    /\ UNCHANGED <<todo, answer, text>>

CookieNext ==
    \/ CookieAlloc
    \/ \E key \in Keys, value \in Values :
        (cookie # NULL => cookie.count < MaxMembers) /\ CookieAppend(key, value)
    \/ CookieCount
    \/ \E index \in 0 .. MaxMembers : CookieLookupAt(index)
    \/ \E key \in Keys : CookieLookup(key)
    \/ CookieEncode
    \/ \E s \in Texts \cup {text.string} : CookieDecode(s)
    \/ DecodeToken
    \/ DecodeEnds
    \/ CookieFree

CookieSpec == CookieInit /\ [][CookieNext]_cookieVars

(***************************************************************************)
(* Properties.                                                             *)
(***************************************************************************)

(* What a caller sees of a cookie: nothing while it is being decoded.      *)
List ==
    INSTANCE KvList WITH
        kvs <- IF cookie = NULL \/ todo # NULL THEN NULL ELSE Members(cookie)

(* A cookie is the list that cookie.h promises, whatever the calls and the *)
(* failures: its members in the order they were appended, the count of     *)
(* them, and for a key the first one.                                      *)
ImplementsKvList == List!Spec

Unseparated(s) ==
    Joined([k \in DOMAIN s |-> IF s[k] \in {Amp, Eq} THEN <<>> ELSE <<s[k]>>])

(* cookie_encode() never truncates, although it computes its size from     *)
(* strings it then shortens; and cookie_decode() reads back the members,   *)
(* without their separators.                                               *)
DecodeInvertsEncode ==
    /\ text.broke \/ text.string # NULL
    /\ answer.op = "decode" =>
        text.string = NULL \/ answer.of.string # text.string \/ answer.of.broke \/
            /\ answer.result = 0
            /\ cookie # NULL /\ todo = NULL =>
                Members(cookie) = [i \in DOMAIN text.members |->
                                    <<Unseparated(text.members[i][1]), Unseparated(text.members[i][2])>>]
=============================================================================
