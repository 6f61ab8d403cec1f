----------------------------- MODULE Recurrence -----------------------------
(***************************************************************************)
(* What a Mersenne Twister promises: the series of words in which every    *)
(* word follows, by Twist, from the one N places before it, the next one   *)
(* and the one M places after that first one, and the numbers Temper makes *)
(* of its words in order, none skipped and none given twice. Only the last *)
(* N words are kept; how many words are computed ahead is left open.       *)
(* Mt19937.tla refines this module.                                        *)
(***************************************************************************)
EXTENDS Naturals

CONSTANTS
    N, M,
    Words,
    Seeds,              \* the words a seed may be
    States,             \* the windows a generator may be made from
    SeedWord(_, _),     \* the word at a place after the first, from the one before it
    Twist(_, _, _),
    Temper(_),
    NULL

VARIABLES
    window,     \* the last N words of the series, NULL without a generator
    unread,     \* how many of them, the last ones, have not been output
    out         \* the last number output, NULL before

vars == <<window, unread, out>>

Init ==
    /\ window = NULL
    /\ unread = 0
    /\ out = NULL

Seeded(words) ==
    /\ words[0] \in Seeds
    /\ \A k \in 1 .. N - 1 : words[k] = SeedWord(words[k - 1], k)

Seed ==
    /\ window = NULL
    /\ window' \in [0 .. N - 1 -> Words]
    /\ Seeded(window')
    /\ unread' = 0
    /\ UNCHANGED out

Resume ==
    /\ window = NULL
    /\ window' \in States
    /\ unread' \in 0 .. N
    /\ UNCHANGED out

Generate ==
    /\ window # NULL
    /\ unread < N
    /\ window' = [k \in 0 .. N - 1 |->
                    IF k < N - 1 THEN window[k + 1] ELSE Twist(window[0], window[1], window[M])]
    /\ unread' = unread + 1
    /\ UNCHANGED out

Output ==
    /\ window # NULL
    /\ unread > 0
    /\ out' = Temper(window[N - unread])
    /\ unread' = unread - 1
    /\ UNCHANGED window

Forget ==
    /\ window' = NULL
    /\ unread' = 0
    /\ UNCHANGED out

Next == Seed \/ Resume \/ Generate \/ Output \/ Forget

Spec == Init /\ [][Next]_vars
=============================================================================
