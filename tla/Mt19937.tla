------------------------------ MODULE Mt19937 ------------------------------
(***************************************************************************)
(* A generator of src/src/mt19937.c: seeding and the twist are loops that *)
(* work in place, one word per step; a number is made of one word of the   *)
(* state. What happens inside a word (shifts, masks, the coefficient) is   *)
(* given by three constant operators; MtWords.tla has them.                *)
(***************************************************************************)
EXTENDS Integers

CONSTANTS
    N,                  \* n, the words of the state
    M,                  \* m, the distance of the word that is mixed in
    Words,              \* the values of a uint32_t
    Seeds,              \* the seeds that are tried
    States,             \* the states given to mt19937_from_state()
    Indexes,            \* the indexes given with them
    SeedWord(_, _),
    Twist(_, _, _),
    Temper(_),
    NULL

ASSUME MtAssumption ==
    /\ N \in Nat \ {0, 1}
    /\ M \in 1 .. N - 1
    /\ Seeds \subseteq Words
    /\ States \subseteq [0 .. N - 1 -> Words]
    /\ Indexes \subseteq Nat
    /\ NULL \notin [0 .. N - 1 -> Words]

ASSUME WordAssumption ==
    /\ Words # {}
    /\ \A p \in Words, k \in 1 .. N - 1 : SeedWord(p, k) \in Words
    /\ \A p, q, o \in Words : Twist(p, q, o) \in Words
    /\ \A p \in Words : Temper(p) \in Words

VARIABLES
    MT,         \* gen->state
    index,      \* gen->index
    i,          \* the loop variable
    pc,         \* "none" without a generator, "idle" between calls, else the loop or step
    out         \* *n_p of the last mt19937_next_uint32(), NULL before

vars == <<MT, index, i, pc, out>>

Init ==
    /\ MT = [k \in 0 .. N - 1 |-> CHOOSE word \in Words : TRUE]
    /\ index = 0
    /\ i = 0
    /\ pc = "none"
    /\ out = NULL

(* mt19937_init(), and mt19937_seed() of a generator there is. Without      *)
(* memory mt19937_init() and mt19937_from_state() make no generator.       *)
Seed ==
    /\ pc \in {"none", "idle"}
    /\ \E seed \in Seeds : MT' = [MT EXCEPT ![0] = seed]
    /\ index' = N
    /\ i' = 1
    /\ pc' = "seed"
    /\ UNCHANGED out

SeedNext ==
    /\ pc = "seed"
    /\ MT' = [MT EXCEPT ![i] = SeedWord(MT[i - 1], i)]
    /\ i' = i + 1
    /\ pc' = IF i' < N THEN "seed" ELSE "idle"
    /\ UNCHANGED <<index, out>>

(* mt19937_from_state() checks neither of its arguments. *)
FromState ==
    /\ pc = "none"
    /\ MT' \in States
    /\ index' \in Indexes
    /\ pc' = "idle"
    /\ UNCHANGED <<i, out>>

(* mt19937_next_uint32() *)
NextUint32 ==
    /\ pc = "idle"
    /\ i' = 0
    /\ pc' = IF index >= N THEN "twist" ELSE "temper"
    /\ UNCHANGED <<MT, index, out>>

(* Fault: the word that is mixed in is one too near. *)
TwistNextNear ==
    /\ pc = "twist"
    /\ MT' = [MT EXCEPT ![i] = Twist(MT[i], MT[(i + 1) % N], MT[(i + M - 1) % N])]
    /\ i' = i + 1
    /\ IF i' < N THEN UNCHANGED <<index, pc>> ELSE index' = 0 /\ pc' = "temper"
    /\ UNCHANGED out

(* mt19937_twist(): words i + 1 and i + M are read modulo N, from the part *)
(* of the state that is still old or from the part that is already new.    *)
TwistNext ==
    /\ pc = "twist"
    /\ MT' = [MT EXCEPT ![i] = Twist(MT[i], MT[(i + 1) % N], MT[(i + M) % N])]
    /\ i' = i + 1
    /\ IF i' < N THEN UNCHANGED <<index, pc>> ELSE index' = 0 /\ pc' = "temper"
    /\ UNCHANGED out

TemperWord ==
    /\ pc = "temper"
    /\ out' = Temper(MT[index])
    /\ index' = index + 1
    /\ pc' = "idle"
    /\ UNCHANGED <<MT, i>>

(* mt19937_free() *)
Free ==
    /\ pc = "idle"
    /\ pc' = "none"
    /\ UNCHANGED <<MT, index, i, out>>

Next == Seed \/ SeedNext \/ FromState \/ NextUint32 \/ TwistNext \/ TemperWord \/ Free

Spec == Init /\ [][Next]_vars

(***************************************************************************)
(* Properties.                                                             *)
(***************************************************************************)

(* Every index is one of the state's, where it is used. *)
TypeOK ==
    /\ MT \in [0 .. N - 1 -> Words]
    /\ index \in Nat
    /\ i \in 0 .. N
    /\ pc \in {"none", "idle", "seed", "twist", "temper"}
    /\ pc = "seed" => i \in 1 .. N - 1
    /\ pc = "twist" => i \in 0 .. N - 1
    /\ pc = "temper" => index \in 0 .. N - 1
    /\ out \in Words \union {NULL}

(***************************************************************************)
(* Mt19937 implements Recurrence. In the middle of a twist the state is    *)
(* the window turned by i places: its first i words are the last of the    *)
(* series, and not read yet.                                               *)
(***************************************************************************)

Turned == IF pc = "twist" THEN i ELSE 0

Window ==
    IF pc \in {"none", "seed"}
    THEN NULL
    ELSE [k \in 0 .. N - 1 |-> MT[(Turned + k) % N]]

Unread ==
    IF pc \in {"none", "seed"} THEN 0
    ELSE IF pc = "twist" THEN i
    ELSE IF index < N THEN N - index ELSE 0

Series == INSTANCE Recurrence WITH window <- Window, unread <- Unread

(* The numbers a generator returns are those of the series, each word once *)
(* and in order, across every twist, whether it was seeded, seeded again   *)
(* in the middle, or made from a state and an index.                       *)
ImplementsRecurrence == Series!Spec
=============================================================================
