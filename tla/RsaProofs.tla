----------------------------- MODULE RsaProofs -----------------------------
(***************************************************************************)
(* Proofs about Rsa and SrpArithmetic, for keys and moduli of every size.  *)
(*                                                                         *)
(* First, who owns the numbers rsa_keygen() allocates. The books balance   *)
(* when every number is held by just one owner and was not freed, or is    *)
(* held by none and was freed once. They do from the first allocation      *)
(* until the cleanup begins, and again after it when rsa_keygen() has      *)
(* succeeded. In between, the counts are those of balanced books and of    *)
(* the calls of mpi_free() made so far; from there it follows which call   *)
(* is for a number that was freed, the second one of ndup.                 *)
(*                                                                         *)
(* Then what the numbers are good for. Squaring gives powers, the powers   *)
(* of a number modulo a prime come round to 1 (Fermat), so the two sides   *)
(* of SRP compute one secret, and the two exponents of RSA undo each       *)
(* other, modulo each prime and hence modulo their product.                *)
(***************************************************************************)
EXTENDS PublicKey, FunctionTheorems, FiniteSetTheorems, WellFoundedInduction, TLAPS

(* NULL is none of the things it is compared with. *)
NullIsNoNumber ==
    /\ \A id, val : [id |-> id, val |-> val] # NULL
    /\ \A d, n : [d |-> d, n |-> n] # NULL
    /\ \A e, n : [e |-> e, n |-> n] # NULL
    /\ 3 # NULL

Balanced(W, held, f) ==
    /\ f \in Seq(Nat)
    /\ \A x \in W : held[x] # NULL => held[x].id \in DOMAIN f
    /\ \A x, y \in W : held[x] # NULL /\ held[y] # NULL /\ held[x].id = held[y].id => x = y
    /\ \A id \in DOMAIN f :
        f[id] = IF \E x \in W : held[x] # NULL /\ held[x].id = id THEN 0 ELSE 1

(* The owner of a number: a local variable, or the key it moved to. *)
HoldersOf(l, priv, pub) ==
    [x \in Locals |->
        IF priv = NULL THEN l[x]
        ELSE IF x = "d" THEN priv.d
        ELSE IF x = "n" THEN priv.n
        ELSE IF x = "e" THEN pub.e
        ELSE IF x = "ndup" THEN pub.n
        ELSE l[x]]

Holders == HoldersOf(local, privk, pubk)

Generating == {"start", "primes", "coprime", "exponents", "modulus", "keys"}

FromKeys == {"d", "n", "e", "ndup"}

(* Which variables were set so far. *)
Progress ==
    /\ pc \in {"start", "returned", "done"} => \A x \in Locals : local[x] = NULL
    /\ pc \in {"primes", "coprime", "exponents"} =>
        \A x \in {"phi", "e", "d", "n", "ndup"} : local[x] = NULL
    /\ pc = "modulus" =>
        /\ local["e"] # NULL /\ local["d"] # NULL
        /\ local["n"] = NULL /\ local["ndup"] = NULL
    /\ pc = "keys" => \A x \in FromKeys : local[x] # NULL

(* The keys are there together, with all their numbers, or not at all. *)
Keys ==
    /\ privk = NULL <=> pubk = NULL
    /\ privk # NULL =>
        /\ pc \in {"cleanup", "returned"}
        /\ privk = [d |-> privk.d, n |-> privk.n]
        /\ pubk = [e |-> pubk.e, n |-> pubk.n]
        /\ privk.d # NULL /\ privk.n # NULL /\ pubk.e # NULL /\ pubk.n # NULL
        /\ \A x \in FromKeys : local[x] = NULL

(* The first m names of the cleanup. *)
Prefix(m) == [i \in 1 .. m |-> CleanupList[i]]

(* The books of the block "where", with the ath call of mpi_free() next:   *)
(* in the cleanup, balanced ones less what was freed since.                *)
Books(where, a, l, held, f) ==
    /\ a \in 1 .. 10
    /\ where \in Generating => a = 1
    /\ where # "cleanup" => Balanced(Locals, held, f)
    /\ where = "cleanup" => \E f0 : Balanced(Locals, held, f0) /\ f = Freed(l, f0, Prefix(a - 1))

IInv ==
    /\ pc \in Generating \union {"cleanup", "returned", "done"}
    /\ DOMAIN local = Locals
    /\ Progress
    /\ Keys
    /\ pc \in Generating \union {"cleanup"} \/ privk # NULL => Books(pc, at, local, Holders, frees)
    /\ pc = "done" => \A id \in DOMAIN frees : frees[id] = 1

(***************************************************************************)
(* Lemmas: what allocating and freeing do to books that balance.           *)
(***************************************************************************)

(* Who is NULL holds nothing, so the books do not depend on it. *)
LEMMA SameHoldings ==
    ASSUME NEW W, NEW held, NEW f, Balanced(W, held, f),
           NEW W2, NEW held2,
           \A x \in W : held[x] # NULL => x \in W2 /\ held2[x] = held[x],
           \A x \in W2 : held2[x] # NULL => x \in W /\ held2[x] = held[x]
    PROVE  Balanced(W2, held2, f)
<1>1. f \in Seq(Nat) /\ \A x \in W2 : held2[x] # NULL => held2[x].id \in DOMAIN f
  BY DEF Balanced
<1>2. \A x, y \in W2 :
        held2[x] # NULL /\ held2[y] # NULL /\ held2[x].id = held2[y].id => x = y
  <2>1. \A x, y \in W : held[x] # NULL /\ held[y] # NULL /\ held[x].id = held[y].id => x = y
    BY Zenon DEF Balanced
  <2> QED
    BY <2>1
<1>3. ASSUME NEW id \in DOMAIN f
      PROVE  (\E x \in W : held[x] # NULL /\ held[x].id = id)
                <=> (\E x \in W2 : held2[x] # NULL /\ held2[x].id = id)
  BY Zenon
<1> QED
  BY <1>1, <1>2, <1>3, Zenon DEF Balanced

(* A variable that is set is NULL when the allocation failed.              *)
LEMMA AllocatedSets ==
    ASSUME NullIsNoNumber, NEW made, NEW x \in DOMAIN made.local, NEW value
    PROVE  /\ DOMAIN Allocated(made, x, value).local = DOMAIN made.local
           /\ \A y \in DOMAIN made.local : y # x =>
                Allocated(made, x, value).local[y] = made.local[y]
           /\ Allocated(made, x, value).local[x] = NULL <=> value = NULL
  BY DEF Allocated, NullIsNoNumber

(* The number that is allocated is a new one, held by x alone. *)
LEMMA AllocatedBalances ==
    ASSUME NullIsNoNumber, NEW made, NEW W \in SUBSET DOMAIN made.local,
           Balanced(W, made.local, made.frees),
           NEW x \in DOMAIN made.local, x \notin W, NEW value
    PROVE  Balanced(W \union {x}, Allocated(made, x, value).local,
                    Allocated(made, x, value).frees)
<1> DEFINE l == made.local  f == made.frees
           after == Allocated(made, x, value)
           new == Len(f) + 1
<1>f. f \in Seq(Nat)
  BY DEF Balanced
<1>1. CASE value = NULL
  <2>1. after.frees = f /\ after.local[x] = NULL
    BY <1>1 DEF Allocated
  <2>2. \A y \in W : after.local[y] = l[y]
    BY AllocatedSets
  <2> QED
    BY <2>1, <2>2, SameHoldings
<1>2. CASE value # NULL
  <2>1. after.local[x] = [id |-> new, val |-> value] /\ after.frees = Append(f, 0)
    BY <1>2 DEF Allocated
  <2>2. after.local[x] # NULL /\ after.local[x].id = new
    BY <2>1 DEF NullIsNoNumber
  <2>3. \A y \in W : after.local[y] = l[y]
    BY AllocatedSets
  <2>4. /\ after.frees \in Seq(Nat)
        /\ DOMAIN after.frees = 1 .. new
        /\ DOMAIN f = 1 .. new - 1
        /\ new \in Nat \ {0}
        /\ after.frees[new] = 0
        /\ \A id \in DOMAIN f : after.frees[id] = f[id]
    BY <1>f, <2>1
  <2>5. \A y \in W : l[y] # NULL => l[y].id \in DOMAIN f /\ l[y].id # new
    BY <2>4 DEF Balanced
  <2> HIDE DEF after, new, l, f
  <2>6. \A y \in W \union {x} : after.local[y] # NULL => after.local[y].id \in DOMAIN after.frees
    BY <2>2, <2>3, <2>4, <2>5
  <2>7. \A y, z \in W \union {x} :
            after.local[y] # NULL /\ after.local[z] # NULL /\ after.local[y].id = after.local[z].id
                => y = z
    <3>1. \A y, z \in W : l[y] # NULL /\ l[z] # NULL /\ l[y].id = l[z].id => y = z
      BY Zenon DEF Balanced, l
    <3> QED
      BY <3>1, <2>2, <2>3, <2>5
  <2>8. ASSUME NEW id \in DOMAIN after.frees
        PROVE  after.frees[id] =
                 IF \E y \in W \union {x} : after.local[y] # NULL /\ after.local[y].id = id
                 THEN 0 ELSE 1
    <3>1. CASE id = new
      BY <3>1, <2>2, <2>4
    <3>2. CASE id # new
      <4>1. id \in DOMAIN f
        BY <3>2, <2>4
      <4>2. f[id] = IF \E y \in W : l[y] # NULL /\ l[y].id = id THEN 0 ELSE 1
        BY <4>1, Zenon DEF Balanced, l, f
      <4>3. (\E y \in W \union {x} : after.local[y] # NULL /\ after.local[y].id = id)
                <=> (\E y \in W : l[y] # NULL /\ l[y].id = id)
        BY <3>2, <2>2, <2>3
      <4> QED
        BY <4>1, <4>2, <4>3, <2>4
    <3> QED
      BY <3>1, <3>2
  <2> QED
    BY <2>4, <2>6, <2>7, <2>8, Zenon DEF Balanced, after
<1> QED
  BY <1>1, <1>2

(* mpi_free() of the variables in names: those in V keep their numbers,    *)
(* the others of W are freed, and no number is freed that is not held.     *)
LEMMA FreedBalances ==
    ASSUME NEW W, NEW held, NEW f, Balanced(W, held, f),
           NEW V \in SUBSET W, NEW l, NEW names, IsFiniteSet(DOMAIN names),
           \A i \in DOMAIN names : l[names[i]] # NULL =>
                names[i] \in W \ V /\ held[names[i]] = l[names[i]],
           \A j, i \in DOMAIN names : l[names[j]] # NULL /\ names[j] = names[i] => j = i,
           \A x \in W \ V : held[x] # NULL =>
                \E i \in DOMAIN names : names[i] = x /\ l[x] = held[x]
    PROVE  Balanced(V, held, Freed(l, f, names))
<1> DEFINE after == Freed(l, f, names)
           Hits(id) == {i \in DOMAIN names : l[names[i]] # NULL /\ l[names[i]].id = id}
<1>f. f \in Seq(Nat) /\ \A x \in W : held[x] # NULL => held[x].id \in DOMAIN f
  BY DEF Balanced
<1>u. \A x, y \in W : held[x] # NULL /\ held[y] # NULL /\ held[x].id = held[y].id => x = y
  BY Zenon DEF Balanced
<1>c. \A id \in DOMAIN f :
        f[id] = IF \E x \in W : held[x] # NULL /\ held[x].id = id THEN 0 ELSE 1
  BY Zenon DEF Balanced
<1>a. after = [id \in DOMAIN f |-> f[id] + Cardinality(Hits(id))]
  BY Zenon DEF Freed
<1>d. DOMAIN after = DOMAIN f /\ \A id \in DOMAIN f : after[id] = f[id] + Cardinality(Hits(id))
  BY <1>a, Zenon
<1>n. \A id : Cardinality(Hits(id)) \in Nat
  <2> TAKE id
  <2>1. Hits(id) \in SUBSET DOMAIN names
    OBVIOUS
  <2>2. IsFiniteSet(Hits(id))
    BY <2>1, FS_Subset
  <2> QED
    BY <2>2, FS_CardinalityType
<1> HIDE DEF after
<1>1. after \in Seq(Nat)
  <2>1. DOMAIN f = 1 .. Len(f) /\ Len(f) \in Nat /\ \A id \in DOMAIN f : f[id] \in Nat
    BY <1>f
  <2>2. \A id \in DOMAIN f : f[id] + Cardinality(Hits(id)) \in Nat
    <3> TAKE id \in DOMAIN f
    <3>1. f[id] \in Nat
      BY <2>1
    <3>2. Cardinality(Hits(id)) \in Nat
      BY <1>n, Zenon
    <3> HIDE DEF Hits
    <3> QED
      BY <3>1, <3>2
  <2> HIDE DEF Hits
  <2>3. after \in [DOMAIN f -> Nat]
    BY <2>2, <1>a, Zenon
  <2> QED
    BY <2>1, <2>3
<1>2. ASSUME NEW id \in DOMAIN f
      PROVE  after[id] = IF \E x \in V : held[x] # NULL /\ held[x].id = id THEN 0 ELSE 1
  <2>1. CASE \E x \in V : held[x] # NULL /\ held[x].id = id
    <3>1. PICK x \in V : held[x] # NULL /\ held[x].id = id
      BY <2>1
    <3>2. Hits(id) = {}
      BY <3>1, <1>u
    <3>3. f[id] = 0 /\ Cardinality(Hits(id)) = 0
      BY <3>1, <3>2, <1>c, FS_EmptySet
    <3> QED
      BY <3>3, <2>1, <1>d
  <2>2. CASE \E x \in W \ V : held[x] # NULL /\ held[x].id = id
    <3>1. PICK x \in W \ V : held[x] # NULL /\ held[x].id = id
      BY <2>2
    <3>2. PICK i \in DOMAIN names : names[i] = x /\ l[x] = held[x]
      BY <3>1
    <3>3. Hits(id) = {i}
      BY <3>1, <3>2, <1>u
    <3>4. f[id] = 0 /\ Cardinality(Hits(id)) = 1
      BY <3>1, <3>3, <1>c, FS_Singleton
    <3>5. ~ \E y \in V : held[y] # NULL /\ held[y].id = id
      BY <3>1, <1>u
    <3> QED
      BY <3>4, <3>5, <1>d
  <2>3. CASE ~ \E x \in W : held[x] # NULL /\ held[x].id = id
    <3>1. Hits(id) = {}
      BY <2>3
    <3>2. f[id] = 1 /\ Cardinality(Hits(id)) = 0
      BY <3>1, <2>3, <1>c, FS_EmptySet
    <3> QED
      BY <3>2, <2>3, <1>d
  <2> QED
    BY <2>1, <2>2, <2>3
<1>3. \A x \in V : held[x] # NULL => held[x].id \in DOMAIN after
  BY <1>f, <1>d
<1>4. \A x, y \in V : held[x] # NULL /\ held[y] # NULL /\ held[x].id = held[y].id => x = y
  BY <1>u
<1> QED
  BY <1>1, <1>2, <1>3, <1>4, <1>d, Zenon DEF Balanced, after

(***************************************************************************)
(* The blocks of rsa_keygen() put those together: made is what the         *)
(* variables and the counts are on the way, W the variables whose numbers  *)
(* are accounted for.                                                      *)
(***************************************************************************)

Ledger(made, W) ==
    /\ DOMAIN made.local = Locals
    /\ W \subseteq Locals
    /\ Balanced(W, made.local, made.frees)

(* Freeing nothing changes no count. *)
LEMMA FreedNone ==
    ASSUME NEW l, NEW f \in Seq(Nat)
    PROVE  Freed(l, f, Prefix(0)) = f
<1> DEFINE Hits(id) == {i \in DOMAIN Prefix(0) : l[Prefix(0)[i]] # NULL /\ l[Prefix(0)[i]].id = id}
<1>1. DOMAIN Prefix(0) = {}
  BY DEF Prefix
<1>2. \A id : Hits(id) = {}
  BY <1>1
<1>3. \A id : Cardinality(Hits(id)) = 0
  BY <1>2, FS_EmptySet
<1>4. Freed(l, f, Prefix(0)) = [id \in DOMAIN f |-> f[id] + Cardinality(Hits(id))]
  BY Zenon DEF Freed
<1> HIDE DEF Hits
<1>5. \A id \in DOMAIN f : f[id] + Cardinality(Hits(id)) = f[id]
  BY <1>3
<1>6. f = [id \in DOMAIN f |-> f[id]]
  OBVIOUS
<1> QED
  BY <1>4, <1>5, <1>6

(* Balanced books are those of the beginning of any block. *)
LEMMA BooksOpen ==
    ASSUME NEW where, NEW l, NEW held, NEW f, Balanced(Locals, held, f)
    PROVE  Books(where, 1, l, held, f)
<1>1. f \in Seq(Nat)
  BY DEF Balanced
<1>2. f = Freed(l, f, Prefix(1 - 1))
  BY <1>1, FreedNone
<1>3. \E f0 : Balanced(Locals, held, f0) /\ f = Freed(l, f0, Prefix(1 - 1))
  BY <1>2
<1>4. 1 \in 1 .. 10
  OBVIOUS
<1> QED
  BY <1>3, <1>4, Zenon DEF Books

(* One more call of mpi_free(). *)
LEMMA FreedOneMore ==
    ASSUME NEW l, NEW f0 \in Seq(Nat), NEW a \in 1 .. 9
    PROVE  Freed(l, Freed(l, f0, Prefix(a - 1)), <<CleanupList[a]>>) = Freed(l, f0, Prefix(a))
<1> DEFINE x == CleanupList[a]
           Hits(m, id) == {i \in 1 .. m : l[CleanupList[i]] # NULL /\ l[CleanupList[i]].id = id}
           Hit(id) == {i \in DOMAIN <<x>> : l[<<x>>[i]] # NULL /\ l[<<x>>[i]].id = id}
<1>1. \A m \in 0 .. 9 : Freed(l, f0, Prefix(m)) = [id \in DOMAIN f0 |-> f0[id] + Cardinality(Hits(m, id))]
  <2> TAKE m \in 0 .. 9
  <2>1. DOMAIN Prefix(m) = 1 .. m /\ \A i \in 1 .. m : Prefix(m)[i] = CleanupList[i]
    BY DEF Prefix
  <2>2. \A id : {i \in DOMAIN Prefix(m) : l[Prefix(m)[i]] # NULL /\ l[Prefix(m)[i]].id = id} = Hits(m, id)
    BY <2>1
  <2> HIDE DEF Hits
  <2> QED
    BY <2>2 DEF Freed
<1>2. \A f : Freed(l, f, <<x>>) = [id \in DOMAIN f |-> f[id] + Cardinality(Hit(id))]
  BY Zenon DEF Freed
<1>3. \A id : Cardinality(Hits(a, id)) = Cardinality(Hits(a - 1, id)) + Cardinality(Hit(id))
             /\ Cardinality(Hits(a - 1, id)) \in Nat /\ Cardinality(Hit(id)) \in Nat
  <2> TAKE id
  <2>1. IsFiniteSet(Hits(a - 1, id)) /\ Cardinality(Hits(a - 1, id)) \in Nat
    <3>1. IsFiniteSet(1 .. a - 1)
      BY FS_Interval
    <3>2. Hits(a - 1, id) \in SUBSET (1 .. a - 1)
      OBVIOUS
    <3> QED
      BY <3>1, <3>2, FS_Subset, FS_CardinalityType
  <2>2. DOMAIN <<x>> = {1} /\ <<x>>[1] = x
    OBVIOUS
  <2>3. CASE l[x] # NULL /\ l[x].id = id
    <3>1. Hit(id) = {1}
      BY <2>2, <2>3
    <3>2. Hits(a, id) = Hits(a - 1, id) \union {a} /\ a \notin Hits(a - 1, id)
      BY <2>3
    <3>3. Cardinality(Hit(id)) = 1
      BY <3>1, FS_Singleton
    <3> HIDE DEF Hits, Hit
    <3>4. Cardinality(Hits(a, id)) = Cardinality(Hits(a - 1, id)) + 1
      BY <2>1, <3>2, FS_AddElement
    <3> QED
      BY <2>1, <3>3, <3>4
  <2>4. CASE ~ (l[x] # NULL /\ l[x].id = id)
    <3>1. Hit(id) = {}
      BY <2>2, <2>4
    <3>2. Hits(a, id) = Hits(a - 1, id)
      BY <2>4
    <3>3. Cardinality(Hit(id)) = 0
      BY <3>1, FS_EmptySet
    <3> HIDE DEF Hits, Hit
    <3> QED
      BY <2>1, <3>2, <3>3
  <2> QED
    BY <2>3, <2>4
<1> HIDE DEF Hits, Hit, x
<1>4. PICK f : f = Freed(l, f0, Prefix(a - 1))
  OBVIOUS
<1>5. f = [id \in DOMAIN f0 |-> f0[id] + Cardinality(Hits(a - 1, id))]
  BY <1>1, <1>4
<1>6. Freed(l, f, <<x>>) = [id \in DOMAIN f0 |-> f[id] + Cardinality(Hit(id))]
  BY <1>2, <1>5
<1>7. \A id \in DOMAIN f0 : f[id] + Cardinality(Hit(id)) = f0[id] + Cardinality(Hits(a, id))
  BY <1>3, <1>5
<1>8. Freed(l, f0, Prefix(a)) = [id \in DOMAIN f0 |-> f0[id] + Cardinality(Hits(a, id))]
  BY <1>1
<1>9. Freed(l, f, <<x>>) = Freed(l, f0, Prefix(a))
  BY <1>6, <1>7, <1>8
<1> QED
  BY <1>4, <1>9 DEF x

(* A variable that is set holds its number itself. *)
OwnHolders(l, held) == \A x \in Locals : l[x] # NULL => held[x] = l[x]

(* The calls before the ath that name y. *)
Named(a, y) == {i \in 1 .. a - 1 : CleanupList[i] = y}

(* The number y holds in balanced books is, at the ath call, freed as often *)
(* as the variable was named.                                              *)
FreedAsNamed(l, held, f0, a, y) ==
    Freed(l, f0, Prefix(a - 1))[held[y].id] =
        IF l[y] = NULL THEN 0 ELSE Cardinality(Named(a, y))

(* Which holds of every variable and key that holds a number when the      *)
(* cleanup begins.                                                         *)
LEMMA FreesInCleanup ==
    ASSUME NEW l, NEW held, NEW f0, Balanced(Locals, held, f0),
           OwnHolders(l, held), NEW a \in 1 .. 10, NEW y \in Locals, held[y] # NULL
    PROVE  FreedAsNamed(l, held, f0, a, y)
<1> DEFINE id == held[y].id
           Hits == {i \in DOMAIN Prefix(a - 1) :
                        l[Prefix(a - 1)[i]] # NULL /\ l[Prefix(a - 1)[i]].id = id}
<1>1. id \in DOMAIN f0 /\ f0[id] = 0
  BY DEF Balanced
<1>2. \A x, z \in Locals : held[x] # NULL /\ held[z] # NULL /\ held[x].id = held[z].id => x = z
  BY Zenon DEF Balanced
<1>3. DOMAIN Prefix(a - 1) = 1 .. a - 1 /\ \A i \in 1 .. a - 1 : Prefix(a - 1)[i] = CleanupList[i]
  BY DEF Prefix
<1>4. \A i \in 1 .. a - 1 : CleanupList[i] \in Locals
  BY DEF CleanupList, Locals
<1>5. \A i \in 1 .. a - 1 :
        (l[CleanupList[i]] # NULL /\ l[CleanupList[i]].id = id) <=> (CleanupList[i] = y /\ l[y] # NULL)
  BY <1>2, <1>4 DEF OwnHolders
<1>6. Hits = {i \in 1 .. a - 1 : CleanupList[i] = y /\ l[y] # NULL}
  BY <1>3, <1>5
<1>7. Freed(l, f0, Prefix(a - 1))[id] = f0[id] + Cardinality(Hits)
  BY <1>1, Zenon DEF Freed
<1>8. PICK hits : hits = Hits
  OBVIOUS
<1>9. IsFiniteSet(hits)
  <2>1. IsFiniteSet(1 .. a - 1)
    BY FS_Interval
  <2> QED
    BY <1>6, <1>8, <2>1, FS_Subset
<1>10. Cardinality(hits) \in Nat
  BY <1>9, FS_CardinalityType
<1>11. Freed(l, f0, Prefix(a - 1))[id] = Cardinality(hits)
  BY <1>1, <1>7, <1>8, <1>10
<1>12. l[y] # NULL => hits = Named(a, y)
  BY <1>6, <1>8 DEF Named
<1>13. l[y] = NULL => Cardinality(hits) = 0
  BY <1>6, <1>8, FS_EmptySet
<1> QED
  BY <1>11, <1>12, <1>13 DEF FreedAsNamed

(* The other variables are left alone.                                     *)
LEMMA AllocatedOthers ==
    ASSUME NullIsNoNumber, NEW made, NEW W, Ledger(made, W), NEW x \in Locals, NEW value,
           NEW y \in Locals, y # x
    PROVE  Allocated(made, x, value).local[y] = made.local[y]
  BY AllocatedSets DEF Ledger

(* Setting a variable to a number is how it becomes a number.              *)
LEMMA AllocatedNull ==
    ASSUME NullIsNoNumber, NEW made, NEW W, Ledger(made, W), NEW x \in Locals, NEW value
    PROVE  Allocated(made, x, value).local[x] = NULL <=> value = NULL
  BY AllocatedSets DEF Ledger

(* The books balance after an allocation.                                  *)
LEMMA AllocatedLedger ==
    ASSUME NullIsNoNumber, NEW made, NEW W, Ledger(made, W),
           NEW x \in Locals \ W, NEW value
    PROVE  /\ Ledger(Allocated(made, x, value), W \union {x})
           /\ \A y \in Locals : y # x => Allocated(made, x, value).local[y] = made.local[y]
           /\ Allocated(made, x, value).local[x] = NULL <=> value = NULL
<1>1. x \in DOMAIN made.local /\ W \in SUBSET DOMAIN made.local /\ x \notin W
  BY DEF Ledger
<1>2. Balanced(W \union {x}, Allocated(made, x, value).local, Allocated(made, x, value).frees)
  BY <1>1, AllocatedBalances DEF Ledger
<1>3. /\ DOMAIN Allocated(made, x, value).local = Locals
      /\ \A y \in Locals : y # x => Allocated(made, x, value).local[y] = made.local[y]
      /\ Allocated(made, x, value).local[x] = NULL <=> value = NULL
  BY <1>1, AllocatedSets DEF Ledger
<1> QED
  BY <1>1, <1>2, <1>3 DEF Ledger

(* While there are no keys, the variables hold everything. *)
LEMMA WithoutKeys ==
    ASSUME NEW l, NEW pub, NEW f
    PROVE  Balanced(Locals, HoldersOf(l, NULL, pub), f) <=> Balanced(Locals, l, f)
<1>1. \A x \in Locals : HoldersOf(l, NULL, pub)[x] = l[x]
  BY DEF HoldersOf
<1>2. Balanced(Locals, HoldersOf(l, NULL, pub), f) => Balanced(Locals, l, f)
  BY <1>1, SameHoldings
<1>3. Balanced(Locals, l, f) => Balanced(Locals, HoldersOf(l, NULL, pub), f)
  BY <1>1, SameHoldings
<1> QED
  BY <1>2, <1>3

(* Variables that are NULL can be counted in or left out. *)
LEMMA NullsHoldNothing ==
    ASSUME NEW l, DOMAIN l = Locals, NEW f, NEW W \in SUBSET Locals,
           \A x \in Locals \ W : l[x] = NULL
    PROVE  /\ Balanced(Locals, l, f) => Ledger(Before(l, f), W)
           /\ Balanced(W, l, f) => Balanced(Locals, l, f)
<1>1. Balanced(Locals, l, f) => Balanced(W, l, f)
  BY SameHoldings
<1>2. Balanced(W, l, f) => Balanced(Locals, l, f)
  BY SameHoldings
<1>3. Before(l, f).local = l /\ Before(l, f).frees = f
  BY DEF Before
<1> QED
  BY <1>1, <1>2, <1>3 DEF Ledger

(* The four numbers of an iteration replace those of the last one. *)
Four == {"p", "q", "p_1", "q_1"}

(* The books balance after the four.                                       *)
LEMMA DrawnLedger ==
    ASSUME NullIsNoNumber, NEW made, Ledger(made, Locals \ Four),
           NEW p, NEW q, NEW p_1, NEW q_1
    PROVE  /\ Ledger(Drawn(made, p, q, p_1, q_1), Locals)
           /\ \A y \in Locals \ Four : Drawn(made, p, q, p_1, q_1).local[y] = made.local[y]
<1> DEFINE M1 == Allocated(made, "p", p)
           M2 == Allocated(M1, "q", q)
           M3 == Allocated(M2, "p_1", p_1)
           M4 == Allocated(M3, "q_1", q_1)
           W0 == Locals \ Four
           W1 == W0 \union {"p"}
           W2 == W1 \union {"q"}
           W3 == W2 \union {"p_1"}
<1>0. "p" \in Locals \ W0 /\ "q" \in Locals \ W1 /\ "p_1" \in Locals \ W2 /\ "q_1" \in Locals \ W3
  BY DEF Locals, Four
<1>5. W3 \union {"q_1"} = Locals
  BY DEF Locals, Four
<1>6. Drawn(made, p, q, p_1, q_1) = M4
  BY DEF Drawn
<1> HIDE DEF W1, W2, W3
<1>1. Ledger(M1, W1) /\ \A y \in Locals : y # "p" => M1.local[y] = made.local[y]
  BY <1>0, AllocatedLedger DEF W1
<1> HIDE DEF M1
<1>2. Ledger(M2, W2) /\ \A y \in Locals : y # "q" => M2.local[y] = M1.local[y]
  BY <1>0, <1>1, AllocatedLedger DEF W2
<1> HIDE DEF M2
<1>3. Ledger(M3, W3) /\ \A y \in Locals : y # "p_1" => M3.local[y] = M2.local[y]
  BY <1>0, <1>2, AllocatedLedger DEF W3
<1> HIDE DEF M3
<1>4. Ledger(M4, Locals) /\ \A y \in Locals : y # "q_1" => M4.local[y] = M3.local[y]
  BY <1>0, <1>3, <1>5, AllocatedLedger
<1> HIDE DEF M4
<1>7. \A y \in Locals \ Four : M4.local[y] = made.local[y]
  BY <1>1, <1>2, <1>3, <1>4 DEF Four
<1> QED
  BY <1>4, <1>6, <1>7

(***************************************************************************)
(* IInv is inductive: one lemma per action.                                *)
(***************************************************************************)

(* Until the keys are there, IInv is about the variables alone. *)
LEMMA IInvOfVariables ==
    ASSUME IInv, pc \in Generating
    PROVE  privk = NULL /\ pubk = NULL /\ DOMAIN local = Locals /\ Balanced(Locals, local, frees)
           /\ Balanced(Locals, Holders, frees) /\ at = 1
<1>1. privk = NULL /\ pubk = NULL
  BY DEF IInv, Keys, Generating
<1>2. Books(pc, at, local, Holders, frees) /\ pc # "cleanup"
  BY DEF IInv, Generating
<1>3. Balanced(Locals, Holders, frees) /\ at = 1
  BY <1>2, Zenon DEF Books
<1> QED
  BY <1>1, <1>3, WithoutKeys DEF IInv, Holders

(* Nothing was allocated yet.                                              *)
LEMMA IInvStart ==
    ASSUME IInv, Start
    PROVE  IInv'
<1>1. pc \in Generating
  BY DEF Start, Generating
<1>2. privk' = NULL /\ pubk' = NULL
  BY <1>1, IInvOfVariables DEF Start
<1>3. \A x \in Locals : local'[x] = NULL
  BY DEF Start, IInv, Progress
<1>4. Progress'
  BY <1>3 DEF Start, Progress, Locals
<1>5. Balanced(Locals, Holders, frees)' /\ at' = 1
  BY <1>1, IInvOfVariables DEF Start, Holders
<1>b. Books(pc', at', local', Holders', frees')
  BY <1>5, BooksOpen
<1> QED
  BY <1>2, <1>4, <1>b DEF Start, IInv, Keys, Generating

(* The old four are freed, and the new ones entered in the books.          *)
LEMMA IInvDrawPrimes ==
    ASSUME NullIsNoNumber, IInv, DrawPrimes
    PROVE  IInv'
<1>1. pc \in Generating /\ privk = NULL /\ pubk = NULL /\ DOMAIN local = Locals
      /\ Balanced(Locals, local, frees) /\ at = 1
  BY IInvOfVariables DEF DrawPrimes, Generating
<1> DEFINE names == <<"q_1", "p_1", "q", "p">>
           made == Before(local, Freed(local, frees, names))
<1>2. Balanced(Locals \ Four, local, Freed(local, frees, names))
  <2>1. DOMAIN names = 1 .. 4 /\ IsFiniteSet(DOMAIN names)
    <3>1. DOMAIN names = 1 .. 4
      OBVIOUS
    <3>2. 1 \in Int /\ 4 \in Int
      OBVIOUS
    <3>3. IsFiniteSet(1 .. 4)
      BY <3>2, FS_Interval, Zenon
    <3> QED
      BY <3>1, <3>3, Zenon
  <2>2. names[1] = "q_1" /\ names[2] = "p_1" /\ names[3] = "q" /\ names[4] = "p"
    OBVIOUS
  <2> HIDE DEF names
  <2>3. \A i \in DOMAIN names : names[i] \in Locals \ (Locals \ Four)
    BY <2>1, <2>2 DEF Four, Locals
  <2>4. \A j, i \in DOMAIN names : names[j] = names[i] => j = i
    BY <2>1, <2>2
  <2>5. \A x \in Locals \ (Locals \ Four) : \E i \in DOMAIN names : names[i] = x
    BY <2>1, <2>2 DEF Four, Locals
  <2> QED
    BY <1>1, <2>1, <2>3, <2>4, <2>5, FreedBalances
<1>3. Ledger(made, Locals \ Four)
  BY <1>1, <1>2 DEF Ledger, Before
<1>4. made.local = local
  BY DEF Before
<1> HIDE DEF made
<1>5. PICK p, q \in ProbablePrimes(Bits) \union {NULL}, noP_1, noQ_1 \in BOOLEAN :
        Become(Drawn(made, p, q, OneLess(p, noP_1), OneLess(q, noQ_1)))
  BY Zenon DEF DrawPrimes, made
<1>6. PICK after : /\ Ledger(after, Locals)
                   /\ \A y \in Locals \ Four : after.local[y] = local[y]
                   /\ local' = after.local /\ frees' = after.frees
  BY <1>3, <1>4, <1>5, DrawnLedger DEF Become
<1>7. DOMAIN local' = Locals /\ Balanced(Locals, local', frees')
  BY <1>6 DEF Ledger
<1>8. privk' = NULL /\ pubk' = NULL /\ at' = 1 /\ pc' \in {"cleanup", "coprime"}
  BY <1>1 DEF DrawPrimes
<1>9. Progress'
  <2>1. \A x \in {"phi", "e", "d", "n", "ndup"} : local[x] = NULL
    BY DEF IInv, Progress, DrawPrimes
  <2>2. \A x \in {"phi", "e", "d", "n", "ndup"} : local'[x] = NULL
    BY <2>1, <1>6 DEF Locals, Four
  <2> QED
    BY <2>2, <1>8 DEF Progress
<1>10. Balanced(Locals, Holders, frees)'
  BY <1>7, <1>8, WithoutKeys DEF Holders
<1>b. Books(pc', at', local', Holders', frees')
  BY <1>8, <1>10, BooksOpen
<1> QED
  BY <1>7, <1>8, <1>9, <1>b DEF IInv, Keys, Generating

(* The loop goes on or ends, with the numbers it has.                      *)
LEMMA IInvCoprime ==
    ASSUME IInv, Coprime
    PROVE  IInv'
<1>1. pc \in Generating /\ privk = NULL /\ pubk = NULL /\ at = 1
      /\ Balanced(Locals, Holders, frees)
  BY IInvOfVariables DEF Coprime, Generating
<1>2. pc' \in {"primes", "exponents"} /\ UNCHANGED <<local, frees, privk, pubk, at>>
  BY DEF Coprime
<1>3. Progress'
  BY <1>2 DEF Coprime, IInv, Progress
<1>4. Balanced(Locals, Holders, frees)'
  BY <1>1, <1>2 DEF Holders
<1>b. Books(pc', at', local', Holders', frees')
  BY <1>1, <1>2, <1>4, BooksOpen
<1> QED
  BY <1>1, <1>2, <1>3, <1>b DEF IInv, Keys, Generating

(* phi, e and d are entered in the books.                                  *)
LEMMA IInvExponents ==
    ASSUME NullIsNoNumber, IInv, Exponents
    PROVE  IInv'
<1>1. pc \in Generating /\ privk = NULL /\ pubk = NULL /\ DOMAIN local = Locals
      /\ Balanced(Locals, local, frees) /\ at = 1
  BY IInvOfVariables DEF Exponents, Generating
<1>2. privk' = NULL /\ pubk' = NULL /\ at' = 1 /\ pc' \in {"cleanup", "modulus"}
  BY <1>1 DEF Exponents
<1>n. \A x \in {"phi", "e", "d", "n", "ndup"} : local[x] = NULL
  BY DEF IInv, Progress, Exponents
<1> DEFINE W == Locals \ {"phi", "e", "d"}
           W1 == W \union {"phi"}
           W2 == W1 \union {"e"}
           made == Before(local, frees)
<1>w. "phi" \in Locals \ W /\ "e" \in Locals \ W1 /\ "d" \in Locals \ W2
      /\ W2 \in SUBSET Locals /\ W2 \union {"d"} = Locals /\ Locals \ W2 = {"d"}
  BY DEF Locals
<1>3. Ledger(made, W)
  BY <1>1, <1>n, NullsHoldNothing
<1>4. made.local = local
  BY DEF Before
<1> HIDE DEF made, W, W1, W2
<1>5. ASSUME NEW phi, NEW e
      PROVE  /\ Ledger(Allocated(Allocated(made, "phi", phi), "e", e), W2)
             /\ \A y \in Locals \ {"phi", "e"} :
                    Allocated(Allocated(made, "phi", phi), "e", e).local[y] = local[y]
             /\ Allocated(Allocated(made, "phi", phi), "e", e).local["e"] = NULL <=> e = NULL
  <2> DEFINE M1 == Allocated(made, "phi", phi)
  <2>1. Ledger(M1, W1) /\ \A y \in Locals : y # "phi" => M1.local[y] = local[y]
    <3>1. Ledger(M1, W1) /\ \A y \in Locals : y # "phi" => M1.local[y] = made.local[y]
      BY <1>3, <1>w, AllocatedLedger DEF W1
    <3> HIDE DEF M1
    <3> QED
      BY <3>1, <1>4
  <2> HIDE DEF M1
  <2>2. /\ Ledger(Allocated(M1, "e", e), W2)
        /\ \A y \in Locals : y # "e" => Allocated(M1, "e", e).local[y] = M1.local[y]
        /\ Allocated(M1, "e", e).local["e"] = NULL <=> e = NULL
    BY <2>1, <1>w, AllocatedLedger DEF W2
  <2> QED
    BY <2>1, <2>2 DEF M1
<1>6. CASE /\ \E failed \in {<<local["p_1"].val * local["q_1"].val, NULL>>, <<NULL, 3>>, <<NULL, NULL>>} :
                Become(Allocated(Allocated(made, "phi", failed[1]), "e", failed[2]))
           /\ pc' = "cleanup"
  <2>1. PICK phi, e : Become(Allocated(Allocated(made, "phi", phi), "e", e))
    BY <1>6
  <2>2. PICK after : /\ Ledger(after, W2)
                     /\ \A y \in Locals \ {"phi", "e"} : after.local[y] = local[y]
                     /\ local' = after.local /\ frees' = after.frees
    BY <2>1, <1>5 DEF Become
  <2>3. DOMAIN local' = Locals /\ Balanced(W2, local', frees')
    BY <2>2 DEF Ledger
  <2>4. local'["d"] = NULL
    BY <2>2, <1>n DEF Locals
  <2>5. Balanced(Locals, local', frees')
    BY <2>3, <2>4, <1>w, NullsHoldNothing
  <2>6. Balanced(Locals, Holders, frees)' /\ Progress'
    BY <2>5, <1>2, <1>6, WithoutKeys DEF Holders, Progress
  <2>b. Books(pc', at', local', Holders', frees')
    BY <1>2, <2>6, BooksOpen
  <2> QED
    BY <2>3, <2>6, <2>b, <1>2, <1>6 DEF IInv, Keys, Generating
<1>7. CASE \E phi, d :
            /\ Become(Allocated(Allocated(Allocated(made, "phi", phi), "e", 3), "d", d))
            /\ pc' = IF d = NULL THEN "cleanup" ELSE "modulus"
  <2>1. PICK phi, d :
            /\ Become(Allocated(Allocated(Allocated(made, "phi", phi), "e", 3), "d", d))
            /\ pc' = IF d = NULL THEN "cleanup" ELSE "modulus"
    BY <1>7
  <2> DEFINE M2 == Allocated(Allocated(made, "phi", phi), "e", 3)
  <2>2. /\ Ledger(M2, W2)
        /\ \A y \in Locals \ {"phi", "e"} : M2.local[y] = local[y]
        /\ M2.local["e"] # NULL
    BY <1>5 DEF NullIsNoNumber
  <2>3. local' = Allocated(M2, "d", d).local /\ frees' = Allocated(M2, "d", d).frees
    BY <2>1 DEF Become
  <2> HIDE DEF M2
  <2>4. /\ Ledger(Allocated(M2, "d", d), Locals)
        /\ \A y \in Locals : y # "d" => local'[y] = M2.local[y]
        /\ local'["d"] = NULL <=> d = NULL
    <3>1. Ledger(Allocated(M2, "d", d), Locals)
      BY <2>2, <1>w, AllocatedLedger
    <3>2. \A y \in Locals : y # "d" => Allocated(M2, "d", d).local[y] = M2.local[y]
      BY <2>2, <1>w, AllocatedOthers
    <3>3. Allocated(M2, "d", d).local["d"] = NULL <=> d = NULL
      BY <2>2, <1>w, AllocatedNull
    <3> QED
      BY <3>1, <3>2, <3>3, <2>3
  <2>5. DOMAIN local' = Locals /\ Balanced(Locals, local', frees')
    BY <2>3, <2>4 DEF Ledger
  <2>6. pc' = "modulus" => local'["d"] # NULL
    BY <2>1, <2>4
  <2>7. local'["e"] # NULL /\ local'["n"] = NULL /\ local'["ndup"] = NULL
    BY <2>2, <2>4, <1>n DEF Locals
  <2>8. Balanced(Locals, Holders, frees)' /\ Progress'
    BY <2>5, <2>6, <2>7, <1>2, WithoutKeys DEF Holders, Progress
  <2>b. Books(pc', at', local', Holders', frees')
    BY <1>2, <2>8, BooksOpen
  <2> QED
    BY <2>5, <2>8, <2>b, <1>2 DEF IInv, Keys, Generating
<1> QED
  BY <1>6, <1>7, Zenon DEF Exponents, made

(* n and its copy are entered in the books.                                *)
LEMMA IInvModulus ==
    ASSUME NullIsNoNumber, IInv, Modulus
    PROVE  IInv'
<1>1. pc \in Generating /\ privk = NULL /\ pubk = NULL /\ DOMAIN local = Locals
      /\ Balanced(Locals, local, frees) /\ at = 1
  BY IInvOfVariables DEF Modulus, Generating
<1>2. privk' = NULL /\ pubk' = NULL /\ at' = 1 /\ pc' \in {"cleanup", "keys"}
  BY <1>1 DEF Modulus
<1>n. local["e"] # NULL /\ local["d"] # NULL /\ local["n"] = NULL /\ local["ndup"] = NULL
  BY DEF IInv, Progress, Modulus
<1> DEFINE W == Locals \ {"n", "ndup"}
           W1 == W \union {"n"}
           made == Before(local, frees)
<1>w. "n" \in Locals \ W /\ "ndup" \in Locals \ W1 /\ W1 \union {"ndup"} = Locals
  BY DEF Locals
<1>3. Ledger(made, W)
  BY <1>1, <1>n, NullsHoldNothing
<1>4. made.local = local
  BY DEF Before
<1>5. PICK n, ndup : /\ Become(Allocated(Allocated(made, "n", n), "ndup", ndup))
                     /\ ndup # NULL => n # NULL
                     /\ pc' = IF ndup = NULL THEN "cleanup" ELSE "keys"
  BY DEF Modulus
<1> HIDE DEF made, W, W1
<1> DEFINE M1 == Allocated(made, "n", n)
           M2 == Allocated(M1, "ndup", ndup)
<1>6. local' = M2.local /\ frees' = M2.frees
  BY <1>5 DEF Become
<1>7. /\ Ledger(M1, W1)
      /\ \A y \in Locals : y # "n" => M1.local[y] = made.local[y]
      /\ M1.local["n"] = NULL <=> n = NULL
  <2>1. Ledger(M1, W1)
    BY <1>3, <1>w, AllocatedLedger DEF W1
  <2>2. \A y \in Locals : y # "n" => M1.local[y] = made.local[y]
    BY <1>3, <1>w, AllocatedOthers
  <2>3. M1.local["n"] = NULL <=> n = NULL
    BY <1>3, <1>w, AllocatedNull
  <2> QED
    BY <2>1, <2>2, <2>3
<1> HIDE DEF M1
<1>8. /\ Ledger(M2, Locals)
      /\ \A y \in Locals : y # "ndup" => M2.local[y] = M1.local[y]
      /\ M2.local["ndup"] = NULL <=> ndup = NULL
  <2>1. Ledger(M2, Locals)
    BY <1>7, <1>w, AllocatedLedger
  <2>2. \A y \in Locals : y # "ndup" => M2.local[y] = M1.local[y]
    BY <1>7, <1>w, AllocatedOthers
  <2>3. M2.local["ndup"] = NULL <=> ndup = NULL
    BY <1>7, <1>w, AllocatedNull
  <2> QED
    BY <2>1, <2>2, <2>3
<1> HIDE DEF M2
<1>9. DOMAIN local' = Locals /\ Balanced(Locals, local', frees')
  BY <1>6, <1>8 DEF Ledger
<1>10. pc' = "keys" => \A x \in FromKeys : local'[x] # NULL
  BY <1>4, <1>5, <1>6, <1>7, <1>8, <1>n DEF FromKeys, Locals
<1>11. Balanced(Locals, Holders, frees)' /\ Progress'
  BY <1>2, <1>9, <1>10, WithoutKeys DEF Holders, Progress
<1>b. Books(pc', at', local', Holders', frees')
  BY <1>2, <1>11, BooksOpen
<1> QED
  BY <1>2, <1>9, <1>11, <1>b DEF IInv, Keys, Generating

(* Without keys, the variables keep their numbers.                         *)
LEMMA IInvKeysFail ==
    ASSUME IInv, KeysFail
    PROVE  IInv'
<1>1. pc \in Generating /\ privk = NULL /\ pubk = NULL /\ at = 1
      /\ Balanced(Locals, Holders, frees)
  BY IInvOfVariables DEF KeysFail, Generating
<1>2. pc' = "cleanup" /\ UNCHANGED <<local, frees, privk, pubk, at>>
  BY DEF KeysFail
<1>3. Balanced(Locals, Holders, frees)' /\ Progress'
  BY <1>1, <1>2 DEF IInv, Holders, Progress
<1>b. Books(pc', at', local', Holders', frees')
  BY <1>1, <1>2, <1>3, BooksOpen
<1> QED
  BY <1>1, <1>2, <1>3, <1>b DEF IInv, Keys

(* The numbers move, and are held by the keys as they were by the variables. *)
LEMMA IInvKeysSucceed ==
    ASSUME NullIsNoNumber, IInv, KeysSucceed
    PROVE  IInv'
<1>1. pc \in Generating /\ privk = NULL /\ pubk = NULL /\ DOMAIN local = Locals
      /\ Balanced(Locals, local, frees) /\ at = 1
  BY IInvOfVariables DEF KeysSucceed, Generating
<1>2. \A x \in FromKeys : local[x] # NULL
  BY DEF IInv, Progress, KeysSucceed
<1>3. /\ pc' = "cleanup" /\ frees' = frees /\ at' = at
      /\ privk' = [d |-> local["d"], n |-> local["n"]]
      /\ pubk' = [e |-> local["e"], n |-> local["ndup"]]
      /\ local' = [x \in Locals |-> IF x \in FromKeys THEN NULL ELSE local[x]]
  BY DEF KeysSucceed, FromKeys
<1>4. /\ privk' # NULL /\ pubk' # NULL
      /\ privk'.d = local["d"] /\ privk'.n = local["n"]
      /\ pubk'.e = local["e"] /\ pubk'.n = local["ndup"]
  BY <1>3 DEF NullIsNoNumber
<1>5. DOMAIN local' = Locals /\ \A x \in FromKeys : local'[x] = NULL
  BY <1>3 DEF FromKeys, Locals
<1>6. Keys'
  BY <1>2, <1>3, <1>4, <1>5 DEF Keys, FromKeys
<1>7. Balanced(Locals, Holders, frees)'
  <2>1. ASSUME NEW x \in Locals
        PROVE  HoldersOf(local', privk', pubk')[x] = local[x]
    BY <1>3, <1>4 DEF HoldersOf, FromKeys
  <2>2. Balanced(Locals, HoldersOf(local', privk', pubk'), frees)
    BY <1>1, <2>1, SameHoldings
  <2> QED
    BY <2>2, <1>3 DEF Holders
<1>8. Progress'
  BY <1>3 DEF Progress
<1>b. Books(pc', at', local', Holders', frees')
  BY <1>1, <1>3, <1>7, BooksOpen
<1> QED
  BY <1>3, <1>5, <1>6, <1>8, <1>b DEF IInv

(* A call of mpi_free() of the cleanup is entered in the books. *)
LEMMA IInvFreeLocal ==
    ASSUME IInv, FreeLocal
    PROVE  IInv'
<1>1. /\ pc = "cleanup" /\ at <= 9 /\ at' = at + 1
      /\ frees' = Freed(local, frees, <<CleanupList[at]>>)
      /\ pc' = pc /\ local' = local /\ privk' = privk /\ pubk' = pubk
  BY DEF FreeLocal, CleanupList
<1>2. Books("cleanup", at, local, Holders, frees)
  BY <1>1 DEF IInv
<1>3. PICK f0 : Balanced(Locals, Holders, f0) /\ frees = Freed(local, f0, Prefix(at - 1))
  BY <1>2, Zenon DEF Books
<1>4. at \in 1 .. 9 /\ at' \in 1 .. 10 /\ at' - 1 = at
  <2>1. at \in 1 .. 10
    BY <1>2, Zenon DEF Books
  <2> QED
    BY <1>1, <2>1
<1>5. f0 \in Seq(Nat)
  BY <1>3 DEF Balanced
<1>6. frees' = Freed(local, f0, Prefix(at))
  BY <1>1, <1>3, <1>4, <1>5, FreedOneMore
<1>7. Holders' = Holders
  BY <1>1 DEF Holders
<1>8. Books("cleanup", at', local', Holders', frees')
  <2>1. Balanced(Locals, Holders', f0) /\ frees' = Freed(local', f0, Prefix(at' - 1))
    BY <1>1, <1>3, <1>4, <1>6, <1>7
  <2> QED
    BY <1>4, <2>1 DEF Books, Generating
<1>9. Progress' /\ Keys'
  BY <1>1 DEF IInv, Progress, Keys
<1> QED
  BY <1>1, <1>8, <1>9 DEF IInv, Generating

(* After a success, what the variables still held has been freed once.     *)
LEMMA IInvLeaveKeygen ==
    ASSUME IInv, LeaveKeygen
    PROVE  IInv'
<1>0. Books("cleanup", at, local, Holders, frees) /\ at > 9 /\ at' = at
  BY DEF IInv, LeaveKeygen, CleanupList
<1>f0. PICK f0 : Balanced(Locals, Holders, f0) /\ frees = Freed(local, f0, Prefix(at - 1))
  BY <1>0, Zenon DEF Books
<1>a. at \in 1 .. 10 /\ at = 10
  <2>1. at \in 1 .. 10
    BY <1>0, Zenon DEF Books
  <2> QED
    BY <1>0, <2>1
<1>p. Prefix(at - 1) = CleanupList
  <2>1. at - 1 = 9
    BY <1>a
  <2> QED
    BY <2>1 DEF Prefix, CleanupList
<1>1. /\ pc' = "returned" /\ frees' = Freed(local, f0, CleanupList)
      /\ local' = [x \in Locals |-> NULL]
      /\ privk' = privk /\ pubk' = pubk
      /\ pc = "cleanup"
  BY <1>f0, <1>p DEF LeaveKeygen
<1>2. DOMAIN local' = Locals /\ \A x \in Locals : local'[x] = NULL
  BY <1>1
<1>3. Progress'
  BY <1>1, <1>2 DEF Progress
<1>4. Keys'
  BY <1>1, <1>2 DEF IInv, Keys, FromKeys, Locals
<1>5. privk # NULL => Balanced(Locals, Holders, frees)'
  <2> SUFFICES ASSUME privk # NULL
               PROVE  Balanced(Locals, HoldersOf(local', privk', pubk'), frees')
    BY DEF Holders
  <2> DEFINE names == CleanupList
             held == HoldersOf(local, privk, pubk)
  <2>0. FromKeys \in SUBSET Locals
    BY DEF FromKeys, Locals
  <2>1. Balanced(Locals, held, f0) /\ \A x \in FromKeys : local[x] = NULL
    BY <1>1, <1>f0 DEF IInv, Keys, Holders
  <2>2. DOMAIN names = 1 .. 9
    BY DEF CleanupList
  <2>3. IsFiniteSet(DOMAIN names)
    <3>1. 1 \in Int /\ 9 \in Int
      OBVIOUS
    <3>2. IsFiniteSet(1 .. 9)
      BY <3>1, FS_Interval, Zenon
    <3> QED
      BY <2>2, <3>2, Zenon
  <2>4. /\ names[1] = "ndup" /\ names[2] = "e" /\ names[3] = "phi"
        /\ names[4] = "q_1" /\ names[5] = "p_1" /\ names[6] = "ndup"
        /\ names[7] = "n" /\ names[8] = "q" /\ names[9] = "p"
    BY DEF CleanupList
  <2> HIDE DEF names
  <2>5. \A x \in Locals \ FromKeys : held[x] = local[x]
    BY DEF HoldersOf, FromKeys
  <2>6. \A i \in DOMAIN names : local[names[i]] # NULL => names[i] \in Locals \ FromKeys
    BY <2>1, <2>2, <2>4 DEF FromKeys, Locals
  <2>7. \A j, i \in DOMAIN names : local[names[j]] # NULL /\ names[j] = names[i] => j = i
    BY <2>1, <2>2, <2>4 DEF FromKeys
  <2>8. \A x \in Locals \ FromKeys : \E i \in DOMAIN names : names[i] = x
    BY <2>2, <2>4 DEF FromKeys, Locals
  <2>9. Balanced(FromKeys, held, Freed(local, f0, names))
    <3> HIDE DEF held
    <3> QED
      BY <2>0, <2>1, <2>3, <2>5, <2>6, <2>7, <2>8, FreedBalances
  <2>10. \A x \in FromKeys : HoldersOf(local', privk', pubk')[x] = held[x]
    BY <1>1 DEF HoldersOf, FromKeys, Locals
  <2>11. \A x \in Locals \ FromKeys : HoldersOf(local', privk', pubk')[x] = NULL
    BY <1>1, <1>2 DEF HoldersOf, FromKeys
  <2>12. frees' = Freed(local, f0, names)
    BY <1>1 DEF names
  <2> HIDE DEF held
  <2> QED
    BY <2>0, <2>9, <2>10, <2>11, <2>12, SameHoldings
<1>6. privk # NULL => Books(pc', at', local', Holders', frees')
  BY <1>0, <1>1, <1>5, <1>a DEF Books, Generating
<1> QED
  BY <1>1, <1>2, <1>3, <1>4, <1>6 DEF IInv, Generating

(* The caller frees what only the keys hold.                               *)
LEMMA IInvFreeKeys ==
    ASSUME IInv, FreeKeys
    PROVE  IInv'
<1> DEFINE held == [d |-> privk.d, n |-> privk.n, e |-> pubk.e, ndup |-> pubk.n]
           names == <<"d", "n", "e", "ndup">>
<1>1. /\ pc = "returned" /\ privk # NULL
      /\ pc' = "done" /\ privk' = NULL /\ pubk' = NULL /\ local' = local
      /\ frees' = Freed(held, frees, names)
  BY DEF FreeKeys
<1>2. DOMAIN local = Locals /\ \A x \in Locals : local[x] = NULL
  BY <1>1 DEF IInv, Progress
<1>3. Balanced(Locals, Holders, frees)
  BY <1>1 DEF IInv, Books
<1>4. \A id \in DOMAIN frees' : frees'[id] = 1
  <2>1. DOMAIN names = 1 .. 4
    OBVIOUS
  <2>2. IsFiniteSet(DOMAIN names)
    <3>1. 1 \in Int /\ 4 \in Int
      OBVIOUS
    <3>2. IsFiniteSet(1 .. 4)
      BY <3>1, FS_Interval, Zenon
    <3> QED
      BY <2>1, <3>2, Zenon
  <2>3. names[1] = "d" /\ names[2] = "n" /\ names[3] = "e" /\ names[4] = "ndup"
    OBVIOUS
  <2> HIDE DEF names
  <2>4. \A i \in DOMAIN names : names[i] \in FromKeys /\ names[i] \in Locals
    BY <2>1, <2>3 DEF FromKeys, Locals
  <2>5. \A j, i \in DOMAIN names : names[j] = names[i] => j = i
    BY <2>1, <2>3
  <2>6. \A x \in FromKeys : \E i \in DOMAIN names : names[i] = x
    BY <2>1, <2>3 DEF FromKeys
  <2>7. \A x \in FromKeys : Holders[x] = held[x]
    BY <1>1 DEF Holders, HoldersOf, FromKeys, Locals
  <2>8. \A x \in Locals \ FromKeys : Holders[x] = NULL
    BY <1>1, <1>2 DEF Holders, HoldersOf, FromKeys, Locals
  <2> HIDE DEF held
  <2>9. Balanced({}, Holders, Freed(held, frees, names))
    BY <1>3, <2>2, <2>4, <2>5, <2>6, <2>7, <2>8, FreedBalances
  <2> QED
    BY <1>1, <2>9 DEF Balanced
<1> QED
  BY <1>1, <1>2, <1>4 DEF IInv, Progress, Keys, Generating

(* Empty books balance.                                                    *)
LEMMA IInvInit ==
    ASSUME Init
    PROVE  IInv
<1>1. \A x \in Locals : local[x] = NULL
  BY DEF Init
<1>2. \A x \in Locals : HoldersOf(local, privk, pubk)[x] = NULL
  BY <1>1 DEF Init, HoldersOf
<1>3. frees \in Seq(Nat) /\ DOMAIN frees = {}
  BY DEF Init
<1>4. Balanced(Locals, Holders, frees)
  BY <1>2, <1>3 DEF Balanced, Holders
<1>b. Books(pc, at, local, Holders, frees)
  BY <1>4, BooksOpen DEF Init
<1> QED
  BY <1>1, <1>b DEF Init, IInv, Progress, Keys, Generating

(* Every step keeps the books balanced.                                    *)
LEMMA IInvNext ==
    ASSUME NullIsNoNumber, IInv, [Next]_vars
    PROVE  IInv'
<1>1. CASE UNCHANGED vars
  BY <1>1 DEF vars, IInv, Progress, Keys, Holders
<1>2. CASE Next
  BY <1>2, IInvStart, IInvDrawPrimes, IInvCoprime, IInvExponents, IInvModulus,
     IInvKeysFail, IInvKeysSucceed, IInvFreeLocal, IInvLeaveKeygen, IInvFreeKeys DEF Next
<1> QED
  BY <1>1, <1>2

(* So they always are.                                                     *)
LEMMA IInvAlways == NullIsNoNumber => (Spec => []IInv)
<1> SUFFICES ASSUME NullIsNoNumber
             PROVE  Spec => []IInv
  OBVIOUS
<1>1. Init => IInv
  BY IInvInit
<1>2. IInv /\ [Next]_vars => IInv'
  BY IInvNext
<1> QED
  BY <1>1, <1>2, PTL DEF Spec

(* The two keys have the numbers of four variables, all of them different. *)
LEMMA HeldByKeys ==
    ASSUME IInv, privk # NULL
    PROVE  /\ Held(privk) = {Holders["d"].id, Holders["n"].id}
           /\ Held(pubk) = {Holders["e"].id, Holders["ndup"].id}
           /\ \A x \in FromKeys : Holders[x] # NULL /\ local[x] = NULL
<1>1. Keys
  BY DEF IInv
<1>2. /\ Holders["d"] = privk.d /\ Holders["n"] = privk.n
      /\ Holders["e"] = pubk.e /\ Holders["ndup"] = pubk.n
  BY DEF Holders, HoldersOf, Locals
<1>3. privk = [d |-> privk.d, n |-> privk.n] /\ pubk = [e |-> pubk.e, n |-> pubk.n] /\ pubk # NULL
  BY <1>1 DEF Keys
<1>4. DOMAIN privk = {"d", "n"} /\ DOMAIN pubk = {"e", "n"}
  BY <1>3, Zenon
<1>5. Held(privk) = {privk.d.id, privk.n.id} /\ Held(pubk) = {pubk.e.id, pubk.n.id}
  BY <1>3, <1>4 DEF Held
<1>6. \A x \in FromKeys : local[x] = NULL
  BY <1>1 DEF Keys
<1>7. privk.d # NULL /\ privk.n # NULL /\ pubk.e # NULL /\ pubk.n # NULL
  BY <1>1 DEF Keys
<1> HIDE DEF Holders
<1> QED
  BY <1>2, <1>5, <1>6, <1>7 DEF FromKeys

(* Whoever holds numbers, a variable that is set or a key, holds no number *)
(* of another.                                                             *)
LEMMA HoldersDisjoint ==
    ASSUME IInv, NEW f0, Balanced(Locals, Holders, f0)
    PROVE  /\ \A x \in Locals : local[x] # NULL => Holders[x] = local[x]
           /\ Held(privk) \intersect Held(pubk) = {}
           /\ \A id \in Held(privk) \union Held(pubk) :
                \E y \in FromKeys : Holders[y] # NULL /\ local[y] = NULL /\ Holders[y].id = id
<1>1. \A x, y \in Locals :
        Holders[x] # NULL /\ Holders[y] # NULL /\ Holders[x].id = Holders[y].id => x = y
  BY Zenon DEF Balanced
<1>2. CASE privk = NULL
  <2>1. Held(privk) = {} /\ Held(pubk) = {}
    BY <1>2 DEF IInv, Keys, Held
  <2>2. \A x \in Locals : Holders[x] = local[x]
    BY <1>2 DEF Holders, HoldersOf
  <2> QED
    BY <2>1, <2>2
<1>3. CASE privk # NULL
  <2>1. /\ Held(privk) = {Holders["d"].id, Holders["n"].id}
        /\ Held(pubk) = {Holders["e"].id, Holders["ndup"].id}
        /\ \A x \in FromKeys : Holders[x] # NULL /\ local[x] = NULL
    BY <1>3, HeldByKeys
  <2>2. \A x \in Locals \ FromKeys : Holders[x] = local[x]
    BY <1>3 DEF Holders, HoldersOf, FromKeys
  <2>3. FromKeys \subseteq Locals /\ FromKeys = {"d", "n", "e", "ndup"}
    BY DEF FromKeys, Locals
  <2> HIDE DEF Holders
  <2>4. \A x \in Locals : local[x] # NULL => Holders[x] = local[x]
    BY <2>1, <2>2
  <2>5. Held(privk) \intersect Held(pubk) = {}
    BY <1>1, <2>1, <2>3
  <2>6. \A id \in Held(privk) \union Held(pubk) :
            \E y \in FromKeys : Holders[y] # NULL /\ local[y] = NULL /\ Holders[y].id = id
    BY <2>1, <2>3
  <2> QED
    BY <2>4, <2>5, <2>6
<1> QED
  BY <1>2, <1>3

(* The second ndup of the cleanup is the only name there twice. *)
LEMMA NamedBefore ==
    ASSUME NEW a \in 1 .. 9
    PROVE  Named(a, CleanupList[a]) = IF a = 6 THEN {1} ELSE {}
<1>1. /\ CleanupList[1] = "ndup" /\ CleanupList[2] = "e" /\ CleanupList[3] = "phi"
      /\ CleanupList[4] = "q_1" /\ CleanupList[5] = "p_1" /\ CleanupList[6] = "ndup"
      /\ CleanupList[7] = "n" /\ CleanupList[8] = "q" /\ CleanupList[9] = "p"
  BY DEF CleanupList
<1>2. \A i, j \in 1 .. 9 : i < j /\ CleanupList[i] = CleanupList[j] => i = 1 /\ j = 6
  BY <1>1
<1> QED
  BY <1>1, <1>2 DEF Named

(* Whatever allocation fails, in any iteration of the loop of rsa_keygen(), *)
(* and with keys of every size, no number is used after it was freed but   *)
(* that of ndup, whose second mpi_free() is for a freed number exactly     *)
(* when there is an ndup in the cleanup and there are no keys; and the two *)
(* keys share no number.                                                   *)
THEOREM UseAfterFreeOfNdupOnly == NullIsNoNumber => (Spec => []OnlyNdupUsedAfterFree)
<1> SUFFICES ASSUME NullIsNoNumber
             PROVE  Spec => []OnlyNdupUsedAfterFree
  OBVIOUS
<1>1. ASSUME IInv
      PROVE  OnlyNdupUsedAfterFree
  <2>1. CASE pc # "cleanup"
    <3>1. ~ FreesAgain
      BY <2>1 DEF FreesAgain
    <3>2. CASE pc \in Generating \/ privk # NULL
      <4>1. Balanced(Locals, Holders, frees)
        BY <1>1, <2>1, <3>2 DEF IInv, Books
      <4>2. \A x \in Locals : Holders[x] # NULL => frees[Holders[x].id] = 0
        BY <4>1 DEF Balanced
      <4>3. /\ \A x \in Locals : local[x] # NULL => Holders[x] = local[x]
            /\ Held(privk) \intersect Held(pubk) = {}
            /\ \A id \in Held(privk) \union Held(pubk) :
                 \E y \in FromKeys : Holders[y] # NULL /\ local[y] = NULL /\ Holders[y].id = id
        BY <1>1, <4>1, HoldersDisjoint
      <4>4. FromKeys \subseteq Locals
        BY DEF FromKeys, Locals
      <4> HIDE DEF Holders
      <4> QED
        BY <2>1, <3>1, <4>2, <4>3, <4>4 DEF OnlyNdupUsedAfterFree
    <3>3. CASE pc \notin Generating /\ privk = NULL
      <4>1. Held(privk) = {} /\ Held(pubk) = {}
        BY <1>1, <3>3 DEF IInv, Keys, Held
      <4>2. \A x \in Locals : local[x] = NULL
        BY <1>1, <2>1, <3>3 DEF IInv, Progress
      <4> QED
        BY <2>1, <3>1, <4>1, <4>2 DEF OnlyNdupUsedAfterFree
    <3> QED
      BY <3>2, <3>3
  <2>2. CASE pc = "cleanup"
    <3>1. Books("cleanup", at, local, Holders, frees)
      BY <1>1, <2>2 DEF IInv
    <3>2. PICK f0 : Balanced(Locals, Holders, f0) /\ frees = Freed(local, f0, Prefix(at - 1))
      BY <3>1, Zenon DEF Books
    <3>3. at \in 1 .. 10
      BY <3>1, Zenon DEF Books
    <3>4. /\ \A x \in Locals : local[x] # NULL => Holders[x] = local[x]
          /\ Held(privk) \intersect Held(pubk) = {}
          /\ \A id \in Held(privk) \union Held(pubk) :
               \E y \in FromKeys : Holders[y] # NULL /\ local[y] = NULL /\ Holders[y].id = id
      BY <1>1, <3>2, HoldersDisjoint
    <3> HIDE DEF Holders
    <3>5. \A y \in Locals : Holders[y] # NULL =>
            frees[Holders[y].id] = IF local[y] = NULL THEN 0 ELSE Cardinality(Named(at, y))
      <4> TAKE y \in Locals
      <4> HAVE Holders[y] # NULL
      <4>1. OwnHolders(local, Holders)
        BY <3>4 DEF OwnHolders
      <4>2. FreedAsNamed(local, Holders, f0, at, y)
        BY <3>2, <3>3, <4>1, FreesInCleanup, Zenon
      <4> QED
        BY <3>2, <4>2 DEF FreedAsNamed
    <3>6. \A id \in Held(privk) \union Held(pubk) : frees[id] = 0
      <4> TAKE id \in Held(privk) \union Held(pubk)
      <4>1. PICK y \in FromKeys : Holders[y] # NULL /\ local[y] = NULL /\ Holders[y].id = id
        BY <3>4
      <4>2. y \in Locals
        BY DEF FromKeys, Locals
      <4> QED
        BY <3>5, <4>1, <4>2
    <3>7. ASSUME at <= 9, local[CleanupList[at]] # NULL
          PROVE  frees[local[CleanupList[at]].id] = IF at = 6 THEN 1 ELSE 0
      <4>1. PICK y : y = CleanupList[at]
        OBVIOUS
      <4>2. at \in 1 .. 9
        BY <3>3, <3>7
      <4>3. y \in Locals
        BY <4>1, <4>2 DEF CleanupList, Locals
      <4>4. frees[local[y].id] = Cardinality(Named(at, y))
        BY <3>4, <3>5, <3>7, <4>1, <4>3
      <4>5. Named(at, y) = IF at = 6 THEN {1} ELSE {}
        BY <4>1, <4>2, NamedBefore
      <4>6. Cardinality({1}) = 1 /\ Cardinality({}) = 0
        BY FS_Singleton, FS_EmptySet
      <4> QED
        BY <4>1, <4>4, <4>5, <4>6
    <3>8. FreesAgain <=> at = 6 /\ local["ndup"] # NULL
      <4>1. Len(CleanupList) = 9 /\ CleanupList[6] = "ndup"
        BY DEF CleanupList
      <4> QED
        BY <2>2, <3>3, <3>7, <4>1 DEF FreesAgain
    <3>9. local["ndup"] # NULL => privk = NULL
      BY <1>1 DEF IInv, Keys, FromKeys
    <3> QED
      BY <2>2, <3>4, <3>6, <3>8, <3>9 DEF OnlyNdupUsedAfterFree
  <2> QED
    BY <2>1, <2>2
<1> QED
  BY <1>1, IInvAlways, PTL

(* When the keys were generated, and freed by the caller, every number     *)
(* rsa_keygen() allocated, in any iteration, was freed exactly once.       *)
THEOREM SuccessLeaksNothing == NullIsNoNumber => (Spec => []SuccessFreesAll)
<1> SUFFICES ASSUME NullIsNoNumber
             PROVE  Spec => []SuccessFreesAll
  OBVIOUS
<1>1. IInv => SuccessFreesAll
  BY DEF IInv, SuccessFreesAll
<1> QED
  BY <1>1, IInvAlways, PTL

(***************************************************************************)
(* Numbers modulo n.                                                       *)
(***************************************************************************)

(* What may be concluded of a set of numbers in place of an induction.     *)
LEMMA Smallest ==
    ASSUME NEW S, S \subseteq Nat, S # {}
    PROVE  \E m \in S : \A n \in S : m <= n
<1> DEFINE R == OpToRel(<, Nat)
<1>1. R = {ss \in Nat \X Nat : ss[1] < ss[2]}
  BY DEF OpToRel
<1>2. IsWellFoundedOn(R, Nat)
  BY NatLessThanWellFounded
<1> HIDE DEF R
<1>3. PICK m \in S : \A n \in S : ~(<<n, m>> \in R)
  BY <1>2, WFMin
<1>4. ASSUME NEW n \in S PROVE m <= n
  <2>1. <<n, m>> \notin R /\ n \in Nat /\ m \in Nat
    BY <1>3
  <2>2. ~(n < m)
    BY <1>1, <2>1
  <2> QED
    BY <2>1, <2>2
<1> QED
  BY <1>3, <1>4

(* A set with 0, and with the successor of every number it has, has all.   *)
LEMMA Successive ==
    ASSUME NEW S, 0 \in S, \A i \in Nat : i \in S => i + 1 \in S
    PROVE  \A i \in Nat : i \in S
<1> DEFINE W == {i \in Nat : i \notin S}
<1> SUFFICES ASSUME W # {} PROVE FALSE
  OBVIOUS
<1>1. PICK m \in W : \A n \in W : m <= n
  <2>1. W \subseteq Nat
    OBVIOUS
  <2> HIDE DEF W
  <2> QED
    BY <2>1, Smallest
<1>2. m \in Nat /\ m \notin S /\ m # 0
  OBVIOUS
<1>3. m - 1 \in Nat /\ ~(m <= m - 1) /\ (m - 1) + 1 = m
  BY <1>2
<1>4. m - 1 \in S
  BY <1>1, <1>3
<1> QED
  BY <1>2, <1>3, <1>4

Positive == Nat \ {0}

(* Multiples of n below n are 0. *)
LEMMA NoMultipleBelow ==
    ASSUME NEW n \in Positive, NEW m \in Int, NEW r \in Int, r = m * n, -n < r, r < n
    PROVE  r = 0
<1>1. CASE m >= 1
  <2>1. m * n >= n
    BY <1>1 DEF Positive
  <2> QED
    BY <2>1 DEF Positive
<1>2. CASE m <= -1
  <2>1. m * n <= -n
    BY <1>2 DEF Positive
  <2> QED
    BY <2>1 DEF Positive
<1>3. CASE m = 0
  BY <1>3 DEF Positive
<1> QED
  BY <1>1, <1>2, <1>3

(* Division with a remainder. *)
LEMMA Remainder ==
    ASSUME NEW n \in Positive, NEW p \in Int
    PROVE  /\ p % n \in 0 .. n - 1
           /\ \E m \in Int : p = m * n + (p % n)
<1>1. p % n \in 0 .. n - 1 /\ p \div n \in Int /\ p = n * (p \div n) + (p % n)
  BY DEF Positive
<1>2. n * (p \div n) = (p \div n) * n
  BY <1>1 DEF Positive
<1> QED
  BY <1>1, <1>2

(* Two numbers have the same remainder when n divides their difference.    *)
LEMMA Congruent ==
    ASSUME NEW n \in Positive, NEW p \in Int, NEW q \in Int
    PROVE  p % n = q % n <=> \E m \in Int : p - q = m * n
<1>1. PICK r \in 0 .. n - 1, s \in 0 .. n - 1 : r = p % n /\ s = q % n
  BY Remainder
<1>2. PICK a \in Int : p = a * n + r
  BY <1>1, Remainder
<1>3. PICK b \in Int : q = b * n + s
  BY <1>1, Remainder
<1>4. ASSUME r = s PROVE \E m \in Int : p - q = m * n
  <2>1. p - q = (a - b) * n /\ a - b \in Int
    BY <1>2, <1>3, <1>4 DEF Positive
  <2> QED
    BY <2>1
<1>5. ASSUME NEW m \in Int, p - q = m * n PROVE r = s
  <2>1. r - s = (m - a + b) * n
    BY <1>2, <1>3, <1>5 DEF Positive
  <2>2. PICK c \in Int, t \in Int : c = m - a + b /\ t = r - s
    OBVIOUS
  <2>3. t = c * n /\ -n < t /\ t < n
    BY <2>1, <2>2 DEF Positive
  <2>4. t = 0
    BY <2>3, NoMultipleBelow
  <2> QED
    BY <2>2, <2>4
<1> QED
  BY <1>1, <1>4, <1>5

(* Numbers below n are their own remainders. *)
LEMMA OwnRemainder ==
    ASSUME NEW n \in Positive, NEW p \in 0 .. n - 1
    PROVE  p % n = p
  BY DEF Positive

(* A factor may be reduced. *)
LEMMA ReducedFactor ==
    ASSUME NEW n \in Positive, NEW p \in Int, NEW q \in Int
    PROVE  /\ (p % n) \in Int
           /\ ((p % n) * q) % n = (p * q) % n
           /\ (q * (p % n)) % n = (q * p) % n
<1>1. PICK r \in Int : r = p % n
  BY Remainder
<1>2. PICK m \in Int : p = m * n + r
  BY <1>1, Remainder
<1>3. r * q - p * q = (-(m * q)) * n /\ -(m * q) \in Int /\ r * q \in Int /\ p * q \in Int
  BY <1>2 DEF Positive
<1>4. (r * q) % n = (p * q) % n
  BY <1>3, Congruent
<1>5. q * r = r * q /\ q * p = p * q
  OBVIOUS
<1> QED
  BY <1>1, <1>4, <1>5

(* So may a summand. *)
LEMMA ReducedSummand ==
    ASSUME NEW n \in Positive, NEW p \in Int, NEW q \in Int
    PROVE  ((p % n) + q) % n = (p + q) % n
<1>1. PICK r \in Int : r = p % n
  BY Remainder
<1>2. PICK m \in Int : p = m * n + r
  BY <1>1, Remainder
<1>3. (r + q) - (p + q) = (-m) * n /\ -m \in Int /\ r + q \in Int /\ p + q \in Int
  BY <1>2 DEF Positive
<1>4. (r + q) % n = (p + q) % n
  BY <1>3, Congruent
<1> QED
  BY <1>1, <1>4

(***************************************************************************)
(* Powers.                                                                 *)
(***************************************************************************)

(* Powers, one factor after the other. *)
Pow(base, e, n) ==
    LET power[i \in 0 .. e] == IF i = 0 THEN 1 % n ELSE (power[i - 1] * base) % n
    IN  power[e]

(* The function they are defined by. *)
IsPower(f, b, e, n) == f = [i \in 0 .. e |-> IF i = 0 THEN 1 % n ELSE (f[i - 1] * b) % n]

(* There is such a function, for every exponent.                           *)
LEMMA PowerExists ==
    ASSUME NEW n \in Positive, NEW b \in Int
    PROVE  \A e \in Nat : \E f \in [0 .. e -> 0 .. n - 1] : IsPower(f, b, e, n)
<1> DEFINE Has(e) == \E f \in [0 .. e -> 0 .. n - 1] : IsPower(f, b, e, n)
           S == {e \in Nat : Has(e)}
<1>1. \A p \in Int : p % n \in 0 .. n - 1
  BY Remainder
<1>2. 0 \in S
  <2>1. PICK f : f = [i \in 0 .. 0 |-> 1 % n]
    OBVIOUS
  <2>2. \A i \in 0 .. 0 : i = 0
    OBVIOUS
  <2>3. f = [i \in 0 .. 0 |-> IF i = 0 THEN 1 % n ELSE (f[i - 1] * b) % n]
    BY <2>1, <2>2
  <2>4. f \in [0 .. 0 -> 0 .. n - 1]
    BY <1>1, <2>1
  <2> QED
    BY <2>3, <2>4 DEF IsPower
<1>3. ASSUME NEW e \in Nat, e \in S PROVE e + 1 \in S
  <2>1. PICK f \in [0 .. e -> 0 .. n - 1] : IsPower(f, b, e, n)
    BY <1>3
  <2>2. PICK h : h = [i \in 0 .. e + 1 |-> IF i = e + 1 THEN (f[e] * b) % n ELSE f[i]]
    OBVIOUS
  <2>3. f[e] * b \in Int
    BY <2>1 DEF Positive
  <2>4. h \in [0 .. e + 1 -> 0 .. n - 1]
    <3>1. ASSUME NEW i \in 0 .. e + 1
          PROVE  (IF i = e + 1 THEN (f[e] * b) % n ELSE f[i]) \in 0 .. n - 1
      <4>1. CASE i = e + 1
        BY <1>1, <2>3, <4>1
      <4>2. CASE i # e + 1
        <5>1. i \in 0 .. e
          BY <4>2
        <5> QED
          BY <2>1, <4>2, <5>1, Zenon
      <4> QED
        BY <4>1, <4>2
    <3> QED
      BY <2>2, <3>1, Zenon
  <2>5. ASSUME NEW i \in 0 .. e + 1
        PROVE  h[i] = IF i = 0 THEN 1 % n ELSE (h[i - 1] * b) % n
    <3>1. CASE i = e + 1
      <4>1. i # 0 /\ i - 1 = e /\ e \in 0 .. e + 1 /\ e # e + 1
        BY <3>1
      <4>2. h[e] = f[e] /\ h[i] = (f[e] * b) % n
        BY <2>2, <3>1, <4>1, Zenon
      <4> QED
        BY <4>1, <4>2, Zenon
    <3>2. CASE i = 0
      <4>1. i \in 0 .. e /\ i # e + 1
        BY <3>2
      <4>2. h[i] = f[i] /\ f[i] = 1 % n
        BY <2>1, <2>2, <3>2, <4>1, Zenon DEF IsPower
      <4> QED
        BY <3>2, <4>2
    <3>3. CASE i # 0 /\ i # e + 1
      <4>1. i \in 0 .. e /\ i - 1 \in 0 .. e + 1 /\ i - 1 # e + 1
        BY <3>3
      <4>2. h[i] = f[i] /\ h[i - 1] = f[i - 1] /\ f[i] = (f[i - 1] * b) % n
        BY <2>1, <2>2, <3>3, <4>1, Zenon DEF IsPower
      <4> QED
        BY <3>3, <4>2, Zenon
    <3> QED
      BY <3>1, <3>2, <3>3
  <2>6. h = [i \in 0 .. e + 1 |-> h[i]]
    BY <2>2
  <2>7. IsPower(h, b, e + 1, n)
    BY <2>5, <2>6 DEF IsPower
  <2>8. Has(e + 1)
    BY <2>4, <2>7
  <2> QED
    BY <2>8
<1> HIDE DEF Has
<1>4. \A e \in Nat : e \in S
  <2> HIDE DEF S
  <2> QED
    BY <1>2, <1>3, Successive
<1> QED
  BY <1>4 DEF Has

(* There is only one. *)
LEMMA PowersAgree ==
    ASSUME NEW n, NEW b, NEW e \in Nat, NEW f, IsPower(f, b, e, n),
           NEW d \in Nat, d >= e, NEW h, IsPower(h, b, d, n)
    PROVE  \A i \in 0 .. e : f[i] = h[i]
<1> DEFINE S == {i \in Nat : i <= e => f[i] = h[i]}
<1>1. 0 \in S
  <2>1. 0 \in 0 .. e /\ 0 \in 0 .. d
    OBVIOUS
  <2>2. f[0] = 1 % n /\ h[0] = 1 % n
    BY <2>1, Zenon DEF IsPower
  <2> QED
    BY <2>2
<1>2. ASSUME NEW i \in Nat, i \in S PROVE i + 1 \in S
  <2> SUFFICES ASSUME i + 1 <= e PROVE f[i + 1] = h[i + 1]
    OBVIOUS
  <2>1. /\ i + 1 \in 0 .. e /\ i + 1 \in 0 .. d /\ i + 1 # 0 /\ (i + 1) - 1 = i
        /\ f[i] = h[i]
    BY <1>2
  <2>2. f[i + 1] = (f[i] * b) % n /\ h[i + 1] = (h[i] * b) % n
    BY <2>1, Zenon DEF IsPower
  <2> QED
    BY <2>1, <2>2, Zenon
<1>3. \A i \in Nat : i \in S
  <2> HIDE DEF S
  <2> QED
    BY <1>1, <1>2, Successive
<1> QED
  BY <1>3

(* The power of an exponent, and of the next one. *)
LEMMA PowIs ==
    ASSUME NEW n \in Positive, NEW b \in Int, NEW e \in Nat
    PROVE  /\ Pow(b, e, n) \in 0 .. n - 1
           /\ Pow(b, 0, n) = 1 % n
           /\ Pow(b, e + 1, n) = (Pow(b, e, n) * b) % n
<1> DEFINE Power(d) == CHOOSE f : IsPower(f, b, d, n)
<1>1. ASSUME NEW d \in Nat
      PROVE  /\ Power(d) \in [0 .. d -> 0 .. n - 1] /\ IsPower(Power(d), b, d, n)
             /\ Pow(b, d, n) = Power(d)[d]
  <2>1. PICK f \in [0 .. d -> 0 .. n - 1] : IsPower(f, b, d, n)
    BY PowerExists
  <2>2. IsPower(Power(d), b, d, n)
    BY <2>1, Zenon
  <2>3. PICK h : h = Power(d)
    OBVIOUS
  <2>4. \A i \in 0 .. d : f[i] = h[i]
    BY <2>1, <2>2, <2>3, PowersAgree
  <2>5. h \in [0 .. d -> 0 .. n - 1]
    <3>1. h = [i \in 0 .. d |-> h[i]]
      BY <2>2, <2>3 DEF IsPower
    <3> QED
      BY <2>1, <2>4, <3>1
  <2>6. Pow(b, d, n) = Power(d)[d]
    BY Zenon DEF Pow, IsPower
  <2> QED
    BY <2>2, <2>3, <2>5, <2>6
<1> HIDE DEF Power
<1>2. Pow(b, e, n) \in 0 .. n - 1
  <2>1. e \in 0 .. e
    OBVIOUS
  <2>2. PICK f \in [0 .. e -> 0 .. n - 1] : Pow(b, e, n) = f[e]
    BY <1>1
  <2> QED
    BY <2>1, <2>2, Zenon
<1>3. Pow(b, 0, n) = 1 % n
  <2>1. 0 \in 0 .. 0
    OBVIOUS
  <2> QED
    BY <1>1, <2>1, Zenon DEF IsPower
<1>4. Pow(b, e + 1, n) = (Pow(b, e, n) * b) % n
  <2>1. e + 1 \in Nat /\ e + 1 >= e /\ e + 1 \in 0 .. e + 1 /\ e + 1 # 0 /\ (e + 1) - 1 = e /\ e \in 0 .. e
    OBVIOUS
  <2>2. PICK f, h : f = Power(e) /\ h = Power(e + 1) /\ IsPower(f, b, e, n) /\ IsPower(h, b, e + 1, n)
    BY <1>1, <2>1
  <2>3. f[e] = h[e]
    BY <2>1, <2>2, PowersAgree
  <2>4. h[e + 1] = (h[e] * b) % n
    BY <2>1, <2>2, Zenon DEF IsPower
  <2> QED
    BY <1>1, <2>1, <2>2, <2>3, <2>4, Zenon
<1> QED
  BY <1>2, <1>3, <1>4

(* The power of a sum of exponents. *)
LEMMA PowerOfSum ==
    ASSUME NEW n \in Positive, NEW b \in Int, NEW d \in Nat, NEW e \in Nat
    PROVE  Pow(b, d + e, n) = (Pow(b, d, n) * Pow(b, e, n)) % n
<1> DEFINE S == {i \in Nat : Pow(b, d + i, n) = (Pow(b, d, n) * Pow(b, i, n)) % n}
<1>1. 0 \in S
  <2>1. PICK p \in 0 .. n - 1 : p = Pow(b, d, n) /\ Pow(b, 0, n) = 1 % n
    BY PowIs
  <2>2. (p * (1 % n)) % n = (p * 1) % n
    <3>1. p \in Int /\ 1 \in Int
      OBVIOUS
    <3> QED
      BY <3>1, ReducedFactor
  <2>3. p * 1 = p /\ d + 0 = d /\ p % n = p
    BY OwnRemainder DEF Positive
  <2>4. Pow(b, d + 0, n) = (Pow(b, d, n) * Pow(b, 0, n)) % n
    BY <2>1, <2>2, <2>3, Zenon
  <2> QED
    BY <2>4
<1>2. ASSUME NEW i \in Nat, i \in S PROVE i + 1 \in S
  <2>1. PICK p \in 0 .. n - 1, q \in 0 .. n - 1 : p = Pow(b, d, n) /\ q = Pow(b, i, n)
    BY PowIs
  <2>2. Pow(b, d + i, n) = (p * q) % n
    BY <1>2, <2>1
  <2>3. /\ Pow(b, (d + i) + 1, n) = (Pow(b, d + i, n) * b) % n
        /\ Pow(b, i + 1, n) = (q * b) % n
    BY <2>1, PowIs
  <2>4. /\ p \in Int /\ q \in Int /\ p * q \in Int /\ q * b \in Int
        /\ (p * q) * b = p * (q * b) /\ (d + i) + 1 = d + (i + 1)
    BY DEF Positive
  <2>5. (((p * q) % n) * b) % n = ((p * q) * b) % n
    BY <2>4, ReducedFactor
  <2>6. (p * ((q * b) % n)) % n = (p * (q * b)) % n
    BY <2>4, ReducedFactor
  <2>7. Pow(b, d + (i + 1), n) = (p * Pow(b, i + 1, n)) % n
    BY <2>2, <2>3, <2>4, <2>5, <2>6, Zenon
  <2> QED
    BY <2>1, <2>7
<1>3. \A i \in Nat : i \in S
  <2> HIDE DEF S
  <2> QED
    BY <1>1, <1>2, Successive
<1> QED
  BY <1>3

(* The power of a product of exponents. *)
LEMMA PowerOfPower ==
    ASSUME NEW n \in Positive, NEW b \in Int, NEW d \in Nat, NEW e \in Nat
    PROVE  Pow(Pow(b, d, n), e, n) = Pow(b, d * e, n)
<1>0. PICK c \in 0 .. n - 1 : c = Pow(b, d, n)
  BY PowIs
<1> DEFINE S == {i \in Nat : Pow(c, i, n) = Pow(b, d * i, n)}
<1>1. 0 \in S
  <2>1. d * 0 = 0 /\ c \in Int
    BY DEF Positive
  <2>2. Pow(c, 0, n) = 1 % n /\ Pow(b, 0, n) = 1 % n
    BY <2>1, PowIs
  <2>3. Pow(c, 0, n) = Pow(b, d * 0, n)
    BY <2>1, <2>2, Zenon
  <2> QED
    BY <2>3
<1>2. ASSUME NEW i \in Nat, i \in S PROVE i + 1 \in S
  <2>1. Pow(c, i, n) = Pow(b, d * i, n)
    BY <1>2
  <2>2. c \in Int /\ d * i \in Nat /\ d * (i + 1) = d * i + d
    BY DEF Positive
  <2>3. Pow(c, i + 1, n) = (Pow(c, i, n) * c) % n
    BY <2>2, PowIs
  <2>4. Pow(b, d * i + d, n) = (Pow(b, d * i, n) * Pow(b, d, n)) % n
    BY <2>2, PowerOfSum
  <2>5. Pow(c, i + 1, n) = Pow(b, d * (i + 1), n)
    BY <1>0, <2>1, <2>2, <2>3, <2>4, Zenon
  <2> QED
    BY <2>5
<1>3. \A i \in Nat : i \in S
  <2> HIDE DEF S
  <2> QED
    BY <1>1, <1>2, Successive
<1> QED
  BY <1>0, <1>3

(* The power of a product. *)
LEMMA PowerOfProduct ==
    ASSUME NEW n \in Positive, NEW b \in Int, NEW c \in Int, NEW e \in Nat
    PROVE  Pow((b * c) % n, e, n) = (Pow(b, e, n) * Pow(c, e, n)) % n
<1>0. PICK p \in 0 .. n - 1 : p = (b * c) % n
  BY Remainder
<1> DEFINE S == {i \in Nat : Pow(p, i, n) = (Pow(b, i, n) * Pow(c, i, n)) % n}
<1>1. 0 \in S
  <2>1. PICK o \in Int : o = 1 % n
    BY Remainder
  <2>2. /\ Pow(b, 0, n) = o /\ Pow(c, 0, n) = o /\ Pow(p, 0, n) = o
    <3>1. p \in Int /\ 0 \in Nat
      OBVIOUS
    <3> QED
      BY <2>1, <3>1, PowIs
  <2>3. (o * o) % n = o
    <3>1. (o * o) % n = (1 * o) % n
      BY <2>1, ReducedFactor
    <3>2. (1 * o) % n = (1 * 1) % n
      BY <2>1, ReducedFactor
    <3> QED
      BY <2>1, <3>1, <3>2
  <2>4. Pow(p, 0, n) = (Pow(b, 0, n) * Pow(c, 0, n)) % n
    BY <2>2, <2>3, Zenon
  <2> QED
    BY <2>4
<1>2. ASSUME NEW i \in Nat, i \in S PROVE i + 1 \in S
  <2>1. PICK q \in 0 .. n - 1, r \in 0 .. n - 1 : q = Pow(b, i, n) /\ r = Pow(c, i, n)
    BY PowIs
  <2>2. Pow(p, i, n) = (q * r) % n
    BY <1>2, <2>1
  <2>3. /\ p \in Int /\ q \in Int /\ r \in Int /\ q * r \in Int /\ b * c \in Int
        /\ q * b \in Int /\ r * c \in Int
        /\ (q * r) * (b * c) = (q * b) * (r * c)
    BY DEF Positive
  <2>4. /\ Pow(p, i + 1, n) = (((q * r) % n) * p) % n
        /\ Pow(b, i + 1, n) = (q * b) % n
        /\ Pow(c, i + 1, n) = (r * c) % n
    BY <2>1, <2>2, <2>3, PowIs
  <2>5. (((q * r) % n) * p) % n = ((q * r) * (b * c)) % n
    <3>1. (((q * r) % n) * p) % n = ((q * r) * p) % n
      BY <2>3, ReducedFactor
    <3>2. ((q * r) * p) % n = ((q * r) * (b * c)) % n
      BY <1>0, <2>3, ReducedFactor
    <3> QED
      BY <3>1, <3>2
  <2>6. (((q * b) % n) * ((r * c) % n)) % n = ((q * b) * (r * c)) % n
    <3>1. (((q * b) % n) * ((r * c) % n)) % n = ((q * b) * ((r * c) % n)) % n
      <4>1. (r * c) % n \in Int
        BY <2>3, Remainder
      <4> QED
        BY <2>3, <4>1, ReducedFactor
    <3>2. ((q * b) * ((r * c) % n)) % n = ((q * b) * (r * c)) % n
      BY <2>3, ReducedFactor
    <3> QED
      BY <3>1, <3>2
  <2>7. Pow(p, i + 1, n) = (Pow(b, i + 1, n) * Pow(c, i + 1, n)) % n
    BY <2>3, <2>4, <2>5, <2>6, Zenon
  <2> QED
    BY <2>7
<1>3. \A i \in Nat : i \in S
  <2> HIDE DEF S
  <2> QED
    BY <1>1, <1>2, Successive
<1> QED
  BY <1>0, <1>3

(* The base may be reduced. *)
LEMMA PowerOfRemainder ==
    ASSUME NEW n \in Positive, NEW b \in Int, NEW e \in Nat
    PROVE  Pow(b % n, e, n) = Pow(b, e, n)
<1>1. (b * 1) % n = b % n /\ b * 1 = b
  OBVIOUS
<1>2. Pow((b * 1) % n, e, n) = (Pow(b, e, n) * Pow(1, e, n)) % n
  BY PowerOfProduct
<1>3. Pow(1, e, n) = 1 % n
  <2> DEFINE S == {i \in Nat : Pow(1, i, n) = 1 % n}
  <2>1. 0 \in S
    BY PowIs
  <2>2. ASSUME NEW i \in Nat, i \in S PROVE i + 1 \in S
    <3>1. Pow(1, i + 1, n) = ((1 % n) * 1) % n
      BY <2>2, PowIs
    <3>2. ((1 % n) * 1) % n = (1 * 1) % n
      BY ReducedFactor
    <3> QED
      BY <3>1, <3>2
  <2>3. \A i \in Nat : i \in S
    <3> HIDE DEF S
    <3> QED
      BY <2>1, <2>2, Successive
  <2> QED
    BY <2>3
<1>4. PICK p \in 0 .. n - 1 : p = Pow(b, e, n)
  BY PowIs
<1>5. (p * (1 % n)) % n = (p * 1) % n /\ p * 1 = p /\ p % n = p
  <2>1. p \in Int /\ 1 \in Int /\ p * 1 = p
    OBVIOUS
  <2>2. (p * (1 % n)) % n = (p * 1) % n
    BY <2>1, ReducedFactor
  <2> QED
    BY <2>1, <2>2, OwnRemainder
<1> QED
  BY <1>1, <1>2, <1>3, <1>4, <1>5

(* mpi_mod_exp() computes the power. *)
LEMMA BySquaring ==
    ASSUME NEW n \in Positive, NEW b \in Int, NEW e \in Nat
    PROVE  ModExp(b, e, n) = Pow(b, e, n)
<1> DEFINE Squared(half, i) == LET square == (half * half) % n
                               IN  IF i % 2 = 0 THEN square ELSE (square * b) % n
           Def(f) == [i \in 0 .. e |-> IF i = 0 THEN 1 % n ELSE Squared(f[i \div 2], i)]
           h == CHOOSE f : f = Def(f)
<1>1. ModExp(b, e, n) = h[e]
  BY Zenon DEF ModExp
<1>2. \A i \in 0 .. e : i # 0 => i \div 2 \in 0 .. e /\ i \div 2 < i /\ i \div 2 \in Nat
  OBVIOUS
<1>3. ASSUME NEW i \in 0 .. e, i # 0
      PROVE  Pow(b, i, n) = Squared(Pow(b, i \div 2, n), i)
  <2>1. PICK c \in Nat : c = i \div 2 /\ i = 2 * c + (i % 2) /\ i % 2 \in {0, 1}
    OBVIOUS
  <2>2. Pow(b, c + c, n) = (Pow(b, c, n) * Pow(b, c, n)) % n
    BY PowerOfSum
  <2>3. CASE i % 2 = 0
    <3>1. i = c + c
      BY <2>1, <2>3
    <3> QED
      BY <2>1, <2>2, <2>3, <3>1, Zenon
  <2>4. CASE i % 2 = 1
    <3>1. i = (c + c) + 1 /\ c + c \in Nat /\ i % 2 # 0
      BY <2>1, <2>4
    <3>2. Pow(b, (c + c) + 1, n) = (Pow(b, c + c, n) * b) % n
      BY <3>1, PowIs
    <3> QED
      BY <2>1, <2>2, <3>1, <3>2, Zenon
  <2> QED
    BY <2>1, <2>3, <2>4
<1> HIDE DEF Squared
<1>4. PICK f : f = [i \in 0 .. e |-> Pow(b, i, n)]
  OBVIOUS
<1>5. f = Def(f)
  <2>1. ASSUME NEW i \in 0 .. e PROVE f[i] = IF i = 0 THEN 1 % n ELSE Squared(f[i \div 2], i)
    <3>1. CASE i = 0
      <4>1. f[0] = Pow(b, 0, n)
        BY <1>4, <3>1
      <4> QED
        BY <3>1, <4>1, PowIs
    <3>2. CASE i # 0
      <4>1. f[i] = Pow(b, i, n) /\ f[i \div 2] = Pow(b, i \div 2, n)
        BY <1>2, <1>4, <3>2
      <4> QED
        BY <1>3, <3>2, <4>1, Zenon
    <3> QED
      BY <3>1, <3>2
  <2>2. f = [i \in 0 .. e |-> f[i]]
    BY <1>4
  <2> QED
    BY <2>1, <2>2, Zenon
<1>6. h = Def(h)
  BY <1>5, Zenon
<1> HIDE DEF h
<1> DEFINE W == {i \in Nat : i <= e /\ f[i] # h[i]}
<1>7. W = {}
  <2> SUFFICES ASSUME W # {} PROVE FALSE
    OBVIOUS
  <2>1. PICK m \in W : \A i \in W : m <= i
    <3>1. W \subseteq Nat
      OBVIOUS
    <3> HIDE DEF W
    <3> QED
      BY <3>1, Smallest
  <2>2. m \in 0 .. e /\ f[m] # h[m]
    OBVIOUS
  <2>3. m # 0
    BY <1>5, <1>6, <2>2, Zenon
  <2>4. m \div 2 \in 0 .. e /\ m \div 2 < m /\ m \div 2 \in Nat
    BY <1>2, <2>2, <2>3
  <2>5. f[m \div 2] = h[m \div 2]
    BY <2>1, <2>4
  <2>6. f[m] = Squared(f[m \div 2], m) /\ h[m] = Squared(h[m \div 2], m)
    BY <1>5, <1>6, <2>2, <2>3, Zenon
  <2> QED
    BY <2>2, <2>5, <2>6, Zenon
<1>8. e \in 0 .. e /\ e \notin W
  BY <1>7
<1>9. f[e] = h[e]
  BY <1>8
<1> QED
  BY <1>1, <1>4, <1>8, <1>9, Zenon

(***************************************************************************)
(* Primes.                                                                 *)
(***************************************************************************)

Prime(n) == n \in Nat /\ IsPrime(n)

(* A prime is positive, and no number below it is a multiple of it.        *)
LEMMA PrimeIs ==
    ASSUME NEW n, Prime(n)
    PROVE  /\ n \in Positive /\ n > 1 /\ 1 % n = 1 /\ 0 % n = 0
           /\ \A p \in 1 .. n - 1 : p % n = p /\ p % n # 0
  BY DEF Prime, IsPrime, Positive

(* A prime that divides a product divides a factor.                        *)
LEMMA NoZeroProduct ==
    ASSUME NEW n, Prime(n), NEW p \in Int, NEW q \in Int, p % n # 0, (p * q) % n = 0
    PROVE  q % n = 0
<1> SUFFICES ASSUME q % n # 0 PROVE FALSE
  OBVIOUS
<1>0. n \in Positive /\ n > 1
  BY PrimeIs
<1> DEFINE S == {m \in Nat : m # 0 /\ (m * q) % n = 0}
<1>1. n \in S
  <2>1. (n * q) % n = 0
    <3>1. n * q - 0 = q * n /\ n * q \in Int
      BY <1>0 DEF Positive
    <3>2. (n * q) % n = 0 % n
      BY <1>0, <3>1, Congruent
    <3> QED
      BY <3>2, PrimeIs
  <2> QED
    BY <1>0, <2>1 DEF Positive
<1>2. PICK m \in S : \A i \in S : m <= i
  <2>1. S \subseteq Nat /\ S # {}
    BY <1>1
  <2> HIDE DEF S
  <2> QED
    BY <2>1, Smallest
<1>3. m \in Positive /\ m \in Int /\ (m * q) % n = 0
  BY DEF Positive
<1>4. ASSUME NEW i \in Nat, (i * q) % n = 0 PROVE i % m = 0
  <2>1. PICK r \in 0 .. m - 1 : r = i % m
    <3>1. m \in Positive /\ i \in Int
      BY <1>3
    <3>2. i % m \in 0 .. m - 1
      BY <3>1, Remainder
    <3> QED
      BY <3>2
  <2>2. PICK c \in Int : i = c * m + r
    <3>1. m \in Positive /\ i \in Int
      BY <1>3
    <3>2. \E c \in Int : i = c * m + (i % m)
      BY <3>1, Remainder
    <3> QED
      BY <2>1, <3>2
  <2>3. PICK mq \in Int : mq = m * q
    BY <1>3
  <2>4. r * q = i * q - c * mq /\ r * q \in Int /\ i * q \in Int
    <3>1. r = i - c * m
      BY <1>3, <2>2
    <3>2. r * q = i * q - c * (m * q)
      BY <1>3, <3>1
    <3> QED
      BY <2>3, <3>2
  <2>5. PICK s \in Int : mq - 0 = s * n
    <3>1. mq % n = 0 % n
      BY <1>3, <2>3, PrimeIs
    <3> QED
      BY <1>0, <3>1, Congruent
  <2>6. PICK t \in Int : i * q - 0 = t * n
    <3>1. (i * q) % n = 0 % n
      BY <1>4, PrimeIs
    <3> QED
      BY <1>0, <2>4, <3>1, Congruent
  <2>7. r * q - 0 = (t - c * s) * n /\ t - c * s \in Int
    BY <1>0, <2>4, <2>5, <2>6 DEF Positive
  <2>8. (r * q) % n = 0
    <3>1. (r * q) % n = 0 % n
      BY <1>0, <2>4, <2>7, Congruent
    <3> QED
      BY <3>1, PrimeIs
  <2>9. r \in Nat /\ ~(m <= r)
    BY <1>3 DEF Positive
  <2>10. r = 0
    BY <1>2, <2>8, <2>9
  <2> QED
    BY <2>1, <2>10
<1>5. m # 1
  <2>1. 1 * q = q
    OBVIOUS
  <2> QED
    BY <1>3, <2>1
<1>6. n % m = 0 /\ m <= n
  BY <1>0, <1>1, <1>2, <1>4 DEF Positive
<1>7. m = n
  <2>1. m \in 2 .. n - 1 \/ m = n
    BY <1>0, <1>3, <1>5, <1>6 DEF Positive
  <2>2. m \notin 2 .. n - 1
    BY <1>6, Zenon DEF Prime, IsPrime
  <2> QED
    BY <2>1, <2>2
<1>8. PICK r \in 0 .. n - 1 : r = p % n
  BY <1>0, Remainder
<1>9. r \in Nat /\ (r * q) % n = 0 /\ r # 0
  BY <1>0, <1>8, ReducedFactor
<1>10. m <= r
  BY <1>2, <1>9
<1> QED
  BY <1>0, <1>7, <1>10 DEF Positive

(* A factor that a prime does not divide may be cancelled.                 *)
LEMMA Cancelled ==
    ASSUME NEW n, Prime(n), NEW p \in Int, NEW q \in Int, NEW r \in Int, p % n # 0,
           (p * q) % n = (p * r) % n
    PROVE  q % n = r % n
<1>1. n \in Positive
  BY PrimeIs
<1>2. p * q \in Int /\ p * r \in Int /\ p * q - p * r = p * (q - r) /\ q - r \in Int
  OBVIOUS
<1>3. PICK m \in Int : p * q - p * r = m * n
  BY <1>1, <1>2, Congruent
<1>4. p * (q - r) - 0 = m * n
  BY <1>2, <1>3
<1>5. (p * (q - r)) % n = 0
  <2>1. p * (q - r) \in Int
    BY <1>2
  <2>2. (p * (q - r)) % n = 0 % n
    BY <1>1, <1>4, <2>1, Congruent
  <2> QED
    BY <2>2, PrimeIs
<1>6. (q - r) % n = 0 % n
  BY <1>2, <1>5, NoZeroProduct, PrimeIs
<1>7. PICK s \in Int : (q - r) - 0 = s * n
  BY <1>1, <1>2, <1>6, Congruent
<1>8. q - r = s * n
  BY <1>2, <1>7
<1> QED
  BY <1>1, <1>8, Congruent

Units(n) == 1 .. n - 1

(* The powers of a number a prime does not divide are not 0.               *)
LEMMA PowerIsUnit ==
    ASSUME NEW n, Prime(n), NEW b \in Int, b % n # 0, NEW e \in Nat
    PROVE  Pow(b, e, n) \in Units(n)
<1>0. n \in Positive
  BY PrimeIs
<1> DEFINE S == {i \in Nat : Pow(b, i, n) # 0}
<1>1. 0 \in S
  BY <1>0, PowIs, PrimeIs
<1>2. ASSUME NEW i \in Nat, i \in S PROVE i + 1 \in S
  <2>1. PICK p \in 0 .. n - 1 : p = Pow(b, i, n)
    BY <1>0, PowIs
  <2>2. p # 0 /\ p \in Int
    BY <1>2, <2>1
  <2>3. p % n # 0
    BY <1>0, <2>1, <2>2, OwnRemainder
  <2>4. (p * b) % n # 0
    BY <2>2, <2>3, NoZeroProduct
  <2>5. Pow(b, i + 1, n) = (p * b) % n
    BY <1>0, <2>1, PowIs
  <2> QED
    BY <2>4, <2>5
<1>3. \A i \in Nat : i \in S
  <2> HIDE DEF S
  <2> QED
    BY <1>1, <1>2, Successive
<1>4. Pow(b, e, n) # 0 /\ Pow(b, e, n) \in 0 .. n - 1
  BY <1>0, <1>3, PowIs
<1> QED
  BY <1>4 DEF Units

(* When two powers are equal, the difference of their exponents has the    *)
(* power 1.                                                                *)
LEMMA EqualPowers ==
    ASSUME NEW n, Prime(n), NEW b \in Int, b % n # 0, NEW i \in Nat, NEW j \in Nat, i < j,
           Pow(b, i, n) = Pow(b, j, n)
    PROVE  Pow(b, j - i, n) = 1
<1>0. n \in Positive /\ j - i \in Nat /\ i + (j - i) = j
  BY PrimeIs
<1>1. PICK p \in Units(n) : p = Pow(b, i, n)
  BY PowerIsUnit
<1>2. PICK q \in Units(n) : q = Pow(b, j - i, n)
  BY <1>0, PowerIsUnit
<1>3. p = (p * q) % n
  <2>1. Pow(b, i + (j - i), n) = (Pow(b, i, n) * Pow(b, j - i, n)) % n
    BY <1>0, PowerOfSum
  <2> QED
    BY <1>0, <1>1, <1>2, <2>1
<1>4. p % n = p /\ q % n = q /\ p % n # 0 /\ p \in Int /\ q \in Int /\ p * 1 = p
  BY PrimeIs DEF Units
<1>5. (p * q) % n = (p * 1) % n
  BY <1>3, <1>4
<1>6. q % n = 1 % n
  BY <1>4, <1>5, Cancelled
<1> QED
  BY <1>2, <1>4, <1>6, PrimeIs

(* A power is 1.                                                           *)
LEMMA SomePowerIsOne ==
    ASSUME NEW n, Prime(n), NEW b \in Int, b % n # 0
    PROVE  \E d \in Positive : Pow(b, d, n) = 1
<1>0. n \in Positive /\ n > 1 /\ n \in Nat /\ n - 1 \in Int
  BY PrimeIs DEF Positive
<1>1. PICK f : f = [e \in 0 .. n - 1 |-> Pow(b, e, n)]
  OBVIOUS
<1>2. f \in [0 .. n - 1 -> Units(n)]
  <2>1. \A e \in 0 .. n - 1 : Pow(b, e, n) \in Units(n)
    BY PowerIsUnit
  <2> QED
    BY <1>1, <2>1
<1>3. /\ IsFiniteSet(0 .. n - 1) /\ Cardinality(0 .. n - 1) = n
      /\ IsFiniteSet(Units(n)) /\ Cardinality(Units(n)) = n - 1
  <2>1. IsFiniteSet(0 .. n - 1) /\ Cardinality(0 .. n - 1) = IF 0 > n - 1 THEN 0 ELSE (n - 1) - 0 + 1
    BY <1>0, FS_Interval
  <2>2. IsFiniteSet(1 .. n - 1) /\ Cardinality(1 .. n - 1) = IF 1 > n - 1 THEN 0 ELSE (n - 1) - 1 + 1
    BY <1>0, FS_Interval
  <2> QED
    BY <1>0, <2>1, <2>2 DEF Units
<1>4. PICK i \in 0 .. n - 1, j \in 0 .. n - 1 : i # j /\ f[i] = f[j]
  <2>1. n - 1 < n
    BY <1>0
  <2> QED
    BY <1>2, <1>3, <2>1, FS_PigeonHole
<1>5. Pow(b, i, n) = Pow(b, j, n) /\ i \in Nat /\ j \in Nat
  BY <1>1, <1>4
<1>6. CASE i < j
  BY <1>5, <1>6, EqualPowers DEF Positive
<1>7. CASE j < i
  BY <1>5, <1>7, EqualPowers DEF Positive
<1> QED
  BY <1>4, <1>5, <1>6, <1>7

(***************************************************************************)
(* The numbers below a prime fall into classes, of the multiples of one of *)
(* them by the powers of b. Each has as many as there are different powers *)
(* of b: that number divides n - 1, so that b to the n - 1 is 1.           *)
(***************************************************************************)

Multiple(b, n, z, j) == (z * Pow(b, j, n)) % n

(* Multiples by powers are units, and multiply as exponents add.           *)
LEMMA MultipleIs ==
    ASSUME NEW n, Prime(n), NEW b \in Int, b % n # 0, NEW z \in Units(n), NEW i \in Nat, NEW j \in Nat
    PROVE  /\ Multiple(b, n, z, i) \in Units(n)
           /\ Multiple(b, n, Multiple(b, n, z, i), j) = Multiple(b, n, z, i + j)
           /\ Multiple(b, n, z, 0) = z
<1>0. n \in Positive /\ z \in Int /\ z % n = z /\ z % n # 0
  BY PrimeIs DEF Units
<1>1. PICK p \in Units(n), q \in Units(n) : p = Pow(b, i, n) /\ q = Pow(b, j, n)
  BY PowerIsUnit
<1>2. /\ p \in Int /\ q \in Int /\ z * p \in Int /\ p * q \in Int /\ (z * p) * q = z * (p * q)
      /\ p % n # 0
  BY <1>0, <1>1, PrimeIs DEF Units
<1>3. (z * p) % n \in 0 .. n - 1 /\ (z * p) % n # 0
  BY <1>0, <1>2, NoZeroProduct, Remainder
<1>4. Multiple(b, n, z, i) = (z * p) % n
  BY <1>1 DEF Multiple
<1>5. (((z * p) % n) * q) % n = (z * (p * q)) % n
  BY <1>0, <1>2, ReducedFactor
<1>6. (z * ((p * q) % n)) % n = (z * (p * q)) % n
  BY <1>0, <1>2, ReducedFactor
<1>7. Pow(b, i + j, n) = (p * q) % n
  BY <1>0, <1>1, PowerOfSum
<1>8. Multiple(b, n, Multiple(b, n, z, i), j) = Multiple(b, n, z, i + j)
  BY <1>1, <1>4, <1>5, <1>6, <1>7, Zenon DEF Multiple
<1>9. Multiple(b, n, z, 0) = z
  <2>1. Pow(b, 0, n) = 1 /\ z * 1 = z
    BY <1>0, PowIs, PrimeIs
  <2> QED
    BY <1>0, <2>1, Zenon DEF Multiple
<1> QED
  BY <1>3, <1>4, <1>8, <1>9 DEF Units

(* The least number of each class. *)
Least(b, n) == {z \in Units(n) : \A j \in Nat : z <= Multiple(b, n, z, j)}

(* The smallest exponent with the power 1. *)
IsOrder(d, b, n) ==
    /\ d \in Nat /\ d # 0 /\ Pow(b, d, n) = 1
    /\ \A i \in Nat : i # 0 /\ Pow(b, i, n) = 1 => d <= i

(* Every unit has an order: the least exponent that gives 1.               *)
LEMMA OrderExists ==
    ASSUME NEW n, Prime(n), NEW b \in Int, b % n # 0
    PROVE  \E d : IsOrder(d, b, n)
<1> DEFINE S == {d \in Nat : d # 0 /\ Pow(b, d, n) = 1}
<1>1. S # {} /\ S \subseteq Nat
  BY SomePowerIsOne DEF Positive
<1>2. PICK d \in S : \A i \in S : d <= i
  <2> HIDE DEF S
  <2> QED
    BY <1>1, Smallest
<1> QED
  BY <1>2 DEF IsOrder

(* A multiple of the order changes nothing. *)
LEMMA OrderRepeats ==
    ASSUME NEW n, Prime(n), NEW b \in Int, b % n # 0, NEW d \in Nat, IsOrder(d, b, n),
           NEW z \in Units(n), NEW i \in Nat, NEW e \in Nat, \E m \in Nat : e = d * m + i
    PROVE  Multiple(b, n, z, e) = Multiple(b, n, z, i)
<1> PICK m \in Nat : e = d * m + i
  OBVIOUS
<1>0. n \in Positive
  BY PrimeIs
<1> PICK s \in Nat : s = d * m
  OBVIOUS
<1>1. Pow(b, s, n) = 1
  <2>1. Pow(Pow(b, d, n), m, n) = Pow(b, d * m, n)
    BY <1>0, PowerOfPower
  <2>2. Pow(1, m, n) = 1
    <3> DEFINE S == {j \in Nat : Pow(1, j, n) = 1}
    <3>1. 0 \in S
      BY <1>0, PowIs, PrimeIs
    <3>2. ASSUME NEW j \in Nat, j \in S PROVE j + 1 \in S
      <4>1. Pow(1, j + 1, n) = (1 * 1) % n
        BY <1>0, <3>2, PowIs
      <4> QED
        BY <4>1, PrimeIs
    <3>3. \A j \in Nat : j \in S
      <4> HIDE DEF S
      <4> QED
        BY <3>1, <3>2, Successive
    <3> QED
      BY <3>3
  <2> QED
    BY <2>1, <2>2 DEF IsOrder
<1>2. Multiple(b, n, z, s) = z
  <2>1. z * 1 = z /\ z % n = z
    BY PrimeIs DEF Units
  <2> QED
    BY <1>1, <2>1, Zenon DEF Multiple
<1>3. Multiple(b, n, Multiple(b, n, z, s), i) = Multiple(b, n, z, s + i)
  BY MultipleIs
<1> QED
  BY <1>2, <1>3

(* Every number below n has one least number and one exponent below the    *)
(* order.                                                                  *)
LEMMA ClassesAreDisjoint ==
    ASSUME NEW n, Prime(n), NEW b \in Int, b % n # 0, NEW d, IsOrder(d, b, n),
           NEW z \in Least(b, n), NEW y \in Least(b, n), NEW i \in 0 .. d - 1, NEW j \in 0 .. d - 1,
           Multiple(b, n, z, i) = Multiple(b, n, y, j)
    PROVE  z = y /\ i = j
<1>0. n \in Positive /\ d \in Nat /\ d # 0 /\ z \in Units(n) /\ y \in Units(n)
  BY PrimeIs DEF IsOrder, Least
<1>1. /\ i \in Nat /\ j \in Nat /\ d - i \in Nat /\ d - j \in Nat /\ i + (d - i) = d
      /\ j + (d - j) = d /\ j + (d - i) \in Nat /\ i + (d - j) \in Nat
  BY <1>0
<1>9. 0 \in Nat /\ \E m \in Nat : d = d * m + 0
  <2>1. d = d * 1 + 0
    BY <1>0
  <2> QED
    BY <2>1
<1>2. z = Multiple(b, n, y, j + (d - i))
  <2>1. Multiple(b, n, Multiple(b, n, z, i), d - i) = Multiple(b, n, z, d)
    BY <1>0, <1>1, MultipleIs
  <2>2. Multiple(b, n, z, d) = z
    <3>1. Multiple(b, n, z, d) = Multiple(b, n, z, 0)
      BY <1>0, <1>9, OrderRepeats
    <3> QED
      BY <1>0, <1>9, <3>1, MultipleIs
  <2>3. Multiple(b, n, Multiple(b, n, y, j), d - i) = Multiple(b, n, y, j + (d - i))
    BY <1>0, <1>1, MultipleIs
  <2> QED
    BY <2>1, <2>2, <2>3
<1>3. y = Multiple(b, n, z, i + (d - j))
  <2>1. Multiple(b, n, Multiple(b, n, y, j), d - j) = Multiple(b, n, y, d)
    BY <1>0, <1>1, MultipleIs
  <2>2. Multiple(b, n, y, d) = y
    <3>1. Multiple(b, n, y, d) = Multiple(b, n, y, 0)
      BY <1>0, <1>9, OrderRepeats
    <3> QED
      BY <1>0, <1>9, <3>1, MultipleIs
  <2>3. Multiple(b, n, Multiple(b, n, z, i), d - j) = Multiple(b, n, z, i + (d - j))
    BY <1>0, <1>1, MultipleIs
  <2> QED
    BY <2>1, <2>2, <2>3
<1>4. z <= y /\ y <= z
  BY <1>1, <1>2, <1>3 DEF Least
<1>5. z = y
  BY <1>0, <1>4 DEF Units
<1>6. Pow(b, i, n) = Pow(b, j, n)
  <2>1. PICK p \in Units(n), q \in Units(n) : p = Pow(b, i, n) /\ q = Pow(b, j, n)
    BY <1>1, PowerIsUnit
  <2>2. (z * p) % n = (z * q) % n
    BY <1>5, <2>1 DEF Multiple
  <2>3. z \in Int /\ p \in Int /\ q \in Int /\ z % n # 0 /\ p % n = p /\ q % n = q
    BY <1>0, PrimeIs DEF Units
  <2>4. p % n = q % n
    BY <2>2, <2>3, Cancelled
  <2> QED
    BY <2>1, <2>3, <2>4
<1>7. ASSUME i < j PROVE FALSE
  <2>1. Pow(b, j - i, n) = 1
    BY <1>1, <1>6, <1>7, EqualPowers
  <2> QED
    BY <1>0, <1>7, <2>1 DEF IsOrder
<1>8. ASSUME j < i PROVE FALSE
  <2>1. Pow(b, i - j, n) = 1
    BY <1>1, <1>6, <1>8, EqualPowers
  <2> QED
    BY <1>0, <1>8, <2>1 DEF IsOrder
<1> QED
  BY <1>1, <1>5, <1>7, <1>8

(* Every unit is a multiple of the least one of its class.                 *)
LEMMA EveryUnitHasAClass ==
    ASSUME NEW n, Prime(n), NEW b \in Int, b % n # 0, NEW d, IsOrder(d, b, n), NEW z \in Units(n)
    PROVE  \E y \in Least(b, n), i \in 0 .. d - 1 : z = Multiple(b, n, y, i)
<1>0. n \in Positive /\ d \in Positive /\ d \in Nat /\ d - 1 \in Nat
  BY PrimeIs DEF IsOrder, Positive
<1> DEFINE T == {Multiple(b, n, z, j) : j \in Nat}
<1>1. T \subseteq Nat /\ T # {}
  <2>1. \A j \in Nat : Multiple(b, n, z, j) \in Units(n)
    BY MultipleIs
  <2> QED
    BY <2>1 DEF Units
<1>2. PICK y \in T : \A x \in T : y <= x
  <2> HIDE DEF T
  <2> QED
    BY <1>1, Smallest
<1>3. PICK j \in Nat : y = Multiple(b, n, z, j)
  OBVIOUS
<1>4. y \in Least(b, n) /\ y \in Units(n)
  <2>1. y \in Units(n)
    BY <1>3, MultipleIs
  <2>2. ASSUME NEW i \in Nat PROVE y <= Multiple(b, n, y, i)
    <3>1. Multiple(b, n, y, i) = Multiple(b, n, z, j + i) /\ j + i \in Nat
      BY <1>3, MultipleIs
    <3> QED
      BY <1>2, <3>1
  <2> QED
    BY <2>1, <2>2 DEF Least
<1>5. PICK e \in Nat : e = j * (d - 1)
  BY <1>0
<1>6. z = Multiple(b, n, y, e)
  <2>1. j + e = d * j + 0 /\ j + e \in Nat /\ 0 \in Nat
    BY <1>0, <1>5
  <2>2. Multiple(b, n, y, e) = Multiple(b, n, z, j + e)
    BY <1>3, MultipleIs
  <2>3. Multiple(b, n, z, j + e) = Multiple(b, n, z, 0)
    <3>1. PICK s \in Nat : s = j + e /\ \E m \in Nat : s = d * m + 0
      BY <2>1
    <3> QED
      BY <1>0, <2>1, <3>1, OrderRepeats
  <2>4. Multiple(b, n, z, 0) = z
    BY MultipleIs
  <2> QED
    BY <2>2, <2>3, <2>4
<1>7. PICK i \in 0 .. d - 1, m \in Nat : e = d * m + i
  <2>1. e % d \in 0 .. d - 1 /\ e \div d \in Nat /\ e = d * (e \div d) + (e % d)
    BY <1>0 DEF Positive
  <2> QED
    BY <2>1
<1>8. Multiple(b, n, y, e) = Multiple(b, n, y, i)
  <2>1. i \in Nat /\ \E c \in Nat : e = d * c + i
    BY <1>7
  <2>2. PICK o \in Nat : o = i /\ \E c \in Nat : e = d * c + o
    BY <2>1
  <2>3. d \in Nat /\ y \in Units(n)
    BY <1>0, <1>4
  <2>4. Multiple(b, n, y, e) = Multiple(b, n, y, o)
    BY <2>2, <2>3, OrderRepeats
  <2> QED
    BY <2>2, <2>4
<1> QED
  BY <1>4, <1>6, <1>8

(* Fermat's little theorem.                                                *)
LEMMA Fermat ==
    ASSUME NEW n, Prime(n), NEW b \in Int, b % n # 0
    PROVE  Pow(b, n - 1, n) = 1
<1>0. n \in Positive /\ n > 1 /\ n - 1 \in Nat
  BY PrimeIs DEF Positive
<1>1. PICK d : IsOrder(d, b, n)
  BY OrderExists
<1>2. d \in Nat /\ d # 0 /\ d - 1 \in Int
  BY <1>1 DEF IsOrder
<1>3. PICK R : R = Least(b, n)
  OBVIOUS
<1>4. PICK J : J = 0 .. d - 1
  OBVIOUS
<1>5. PICK f : f = [ri \in R \X J |-> Multiple(b, n, ri[1], ri[2])]
  OBVIOUS
<1>6. /\ IsFiniteSet(Units(n)) /\ Cardinality(Units(n)) = n - 1
      /\ IsFiniteSet(J) /\ Cardinality(J) = d
      /\ IsFiniteSet(R) /\ Cardinality(R) \in Nat
  <2>1. IsFiniteSet(1 .. n - 1) /\ Cardinality(1 .. n - 1) = IF 1 > n - 1 THEN 0 ELSE (n - 1) - 1 + 1
    <3>1. 1 \in Int /\ n - 1 \in Int
      BY <1>0
    <3> QED
      BY <3>1, FS_Interval, Zenon
  <2>2. IsFiniteSet(0 .. d - 1) /\ Cardinality(0 .. d - 1) = IF 0 > d - 1 THEN 0 ELSE (d - 1) - 0 + 1
    BY <1>2, FS_Interval
  <2>3. R \in SUBSET Units(n)
    BY <1>3 DEF Least
  <2>4. IsFiniteSet(R)
    BY <2>1, <2>3, FS_Subset DEF Units
  <2>5. Cardinality(R) \in Nat
    BY <2>4, FS_CardinalityType
  <2> QED
    BY <1>0, <1>2, <1>4, <2>1, <2>2, <2>4, <2>5 DEF Units
<1>7. f \in Bijection(R \X J, Units(n))
  <2>1. \A ri \in R \X J : f[ri] \in Units(n)
    <3> SUFFICES ASSUME NEW ri \in R \X J PROVE f[ri] \in Units(n)
      OBVIOUS
    <3>1. ri[1] \in Units(n) /\ ri[2] \in Nat
      BY <1>2, <1>3, <1>4 DEF Least
    <3>2. Multiple(b, n, ri[1], ri[2]) \in Units(n)
      BY <3>1, MultipleIs
    <3> QED
      BY <1>5, <3>2
  <2>2. \A ri \in R \X J, sj \in R \X J : f[ri] = f[sj] => ri = sj
    <3> SUFFICES ASSUME NEW ri \in R \X J, NEW sj \in R \X J, f[ri] = f[sj] PROVE ri = sj
      OBVIOUS
    <3>1. Multiple(b, n, ri[1], ri[2]) = Multiple(b, n, sj[1], sj[2])
      BY <1>5
    <3>2. ri[1] \in R /\ ri[2] \in J /\ sj[1] \in R /\ sj[2] \in J
      OBVIOUS
    <3>3. ri[1] = sj[1] /\ ri[2] = sj[2]
      BY <1>1, <1>3, <1>4, <3>1, <3>2, ClassesAreDisjoint
    <3> QED
      BY <3>3
  <2>3. \A z \in Units(n) : \E ri \in R \X J : f[ri] = z
    <3> SUFFICES ASSUME NEW z \in Units(n) PROVE \E ri \in R \X J : f[ri] = z
      OBVIOUS
    <3>1. PICK y \in R, i \in J : z = Multiple(b, n, y, i)
      BY <1>1, <1>3, <1>4, EveryUnitHasAClass
    <3>2. <<y, i>> \in R \X J /\ f[<<y, i>>] = z
      BY <1>5, <3>1
    <3> QED
      BY <3>2
  <2>4. f \in [R \X J -> Units(n)]
    BY <1>5, <2>1
  <2> QED
    BY <2>2, <2>3, <2>4, Fun_IsBij
<1>8. n - 1 = d * Cardinality(R)
  <2>1. IsFiniteSet(R \X J) /\ Cardinality(R \X J) = Cardinality(R) * Cardinality(J)
    BY <1>6, FS_Product
  <2>2. ExistsBijection(R \X J, Units(n))
    BY <1>7 DEF ExistsBijection
  <2>3. Cardinality(Units(n)) = Cardinality(R \X J)
    BY <2>1, <2>2, FS_Bijection
  <2> QED
    BY <1>2, <1>6, <2>1, <2>3
<1>9. PICK m \in Nat : m = Cardinality(R) /\ n - 1 = d * m
  BY <1>6, <1>8
<1>10. 1 \in Units(n) /\ 0 \in Nat
  BY <1>0 DEF Units, Positive
<1>11. Multiple(b, n, 1, n - 1) = 1
  <2>1. \E c \in Nat : n - 1 = d * c + 0
    BY <1>0, <1>2, <1>9
  <2>2. Multiple(b, n, 1, n - 1) = Multiple(b, n, 1, 0)
    BY <1>0, <1>1, <1>2, <1>10, <2>1, OrderRepeats
  <2> QED
    BY <1>10, <2>2, MultipleIs
<1>12. PICK p \in 0 .. n - 1 : p = Pow(b, n - 1, n)
  BY <1>0, PowIs
<1>13. Multiple(b, n, 1, n - 1) = (1 * p) % n
  BY <1>12, Zenon DEF Multiple
<1>14. 1 * p = p /\ p % n = p
  BY <1>0, OwnRemainder
<1> QED
  BY <1>11, <1>12, <1>13, <1>14

(***************************************************************************)
(* The secrets of srp.c and ssrp.c are powers of G = g**b.                 *)
(***************************************************************************)

(* What the sizes of the numbers allow: a, b below N, x, u below the hash. *)
LEMMA ArithmeticTypes ==
    /\ Prime(N) /\ N \in Positive /\ N > 2 /\ g \in Int /\ g % N # 0 /\ k \in Int
    /\ \A a \in Randoms : a \in Nat /\ a < N
    /\ \A x, u \in 0 .. H - 1 : x \in Nat /\ u \in Nat /\ u * x \in Nat /\ u * x < N
<1>1. Prime(N) /\ N \in Positive /\ N > 2 /\ g \in Int /\ g % N # 0 /\ k \in Int
  <2>1. Prime(N) /\ N > 2 /\ g \in 1 .. N - 1 /\ k \in 1 .. N - 1
    BY ArithmeticAssumption DEF Prime
  <2>2. g % N = g
    BY <2>1, PrimeIs, OwnRemainder DEF Positive
  <2> QED
    BY <2>1, <2>2, PrimeIs DEF Positive
<1>2. \A a \in Randoms : a \in Nat /\ a < N
  BY <1>1 DEF Randoms, Positive
<1>3. ASSUME NEW x \in 0 .. H - 1, NEW u \in 0 .. H - 1
      PROVE  x \in Nat /\ u \in Nat /\ u * x \in Nat /\ u * x < N
  <2>1. H \in Nat /\ H * H <= N /\ x \in Nat /\ u \in Nat /\ x <= H - 1 /\ u <= H - 1
    BY ArithmeticAssumption
  <2>2. u * x \in Nat /\ u * x <= (H - 1) * x
    BY <2>1
  <2>3. (H - 1) * x <= (H - 1) * (H - 1) /\ (H - 1) * x \in Int /\ (H - 1) * (H - 1) \in Int
    BY <2>1
  <2>4. (H - 1) * (H - 1) < H * H /\ H * H \in Int
    <3>1. (H - 1) * (H - 1) = H * H - (2 * H) + 1 /\ H >= 1
      BY <2>1
    <3> QED
      BY <2>1, <2>3, <3>1
  <2>5. u * x < N
    BY <1>1, <2>1, <2>2, <2>3, <2>4 DEF Positive
  <2> QED
    BY <2>1, <2>2, <2>5
<1> QED
  BY <1>1, <1>2, <1>3

(* The function of mpi0.c computes the power. *)
LEMMA ModExpIsPower ==
    ASSUME NEW b \in Int, NEW e \in Nat
    PROVE  ModExp(b, e, N) = Pow(b, e, N) /\ Pow(b, e, N) \in Int
BY ArithmeticTypes, BySquaring, PowIs

(* Both servers: the product of A and the power of the verifier is a power *)
(* of the generator.                                                       *)
LEMMA ServerSecretIs ==
    ASSUME NEW a \in Randoms, NEW b \in Randoms, NEW x \in 0 .. H - 1, NEW u \in 0 .. H - 1
    PROVE  ServerSecret(Pow(g, a, N), x, u, b) = Pow(Pow(g, b, N), a + u * x, N)
<1>0. /\ N \in Positive /\ g \in Int /\ a \in Nat /\ b \in Nat /\ x \in Nat /\ u \in Nat
      /\ u * x \in Nat /\ a + u * x \in Nat /\ x * u = u * x /\ b * (a + u * x) = (a + u * x) * b
  BY ArithmeticTypes
<1>1. PICK A \in Int : A = Pow(g, a, N)
  BY <1>0, PowIs
<1>2. PICK V \in Int : V = Pow(Pow(g, x, N), u, N)
  <2>1. Pow(g, x, N) \in Int
    BY <1>0, PowIs
  <2> QED
    BY <1>0, <2>1, PowIs
<1>3. V = Pow(g, u * x, N)
  BY <1>0, <1>2, PowerOfPower
<1>4. Pow(g, a + u * x, N) = (A * V) % N
  BY <1>0, <1>1, <1>3, PowerOfSum
<1>5. ServerSecret(A, x, u, b) = Pow((A * V) % N, b, N)
  <2>1. ModExp(g, x, N) = Pow(g, x, N) /\ Pow(g, x, N) \in Int
    BY <1>0, ModExpIsPower
  <2>2. ModExp(Pow(g, x, N), u, N) = V
    BY <1>0, <1>2, <2>1, ModExpIsPower
  <2>3. PICK c \in Int : c = (A * V) % N
    BY <1>0, Remainder
  <2>4. ModExp(c, b, N) = Pow(c, b, N)
    BY <1>0, ModExpIsPower
  <2> QED
    BY <2>1, <2>2, <2>3, <2>4, Zenon DEF ServerSecret, ModMul
<1>6. Pow(Pow(g, a + u * x, N), b, N) = Pow(g, (a + u * x) * b, N)
  BY <1>0, PowerOfPower
<1>7. Pow(Pow(g, b, N), a + u * x, N) = Pow(g, b * (a + u * x), N)
  BY <1>0, PowerOfPower
<1> QED
  BY <1>0, <1>1, <1>4, <1>5, <1>6, <1>7, Zenon

(* srp.c: the client removes the multiple of the verifier from B.          *)
LEMMA SrpClientSecretIs ==
    ASSUME NEW a \in Randoms, NEW b \in Randoms, NEW x \in 0 .. H - 1, NEW u \in 0 .. H - 1
    PROVE  SrpClientSecret(SrpB(x, b), x, u, a) = Pow(Pow(g, b, N), (a + u * x) % N, N)
<1>0. /\ N \in Positive /\ g \in Int /\ k \in Int /\ a \in Nat /\ b \in Nat /\ x \in Nat /\ u \in Nat
      /\ u * x \in Nat /\ a + u * x \in Nat /\ u * x + a = a + u * x
  BY ArithmeticTypes
<1>1. PICK G \in 0 .. N - 1 : G = Pow(g, b, N)
  BY <1>0, PowIs
<1>2. PICK K \in Int : K = ModMul(k, ModExp(g, x, N), N)
  <2>1. Pow(g, x, N) \in Int
    BY <1>0, PowIs
  <2>2. ModExp(g, x, N) = Pow(g, x, N)
    BY <1>0, ModExpIsPower
  <2>3. k * ModExp(g, x, N) \in Int
    BY <1>0, <2>1, <2>2
  <2> QED
    BY <1>0, <2>3, Remainder DEF ModMul
<1>3. PICK B \in Int : B = (K + G) % N
  <2>1. K + G \in Int
    OBVIOUS
  <2> QED
    BY <1>0, <2>1, Remainder
<1>4. SrpB(x, b) = B
  BY <1>0, <1>1, <1>2, <1>3, ModExpIsPower DEF SrpB, ModAdd
<1>5. (B - K) % N = G
  <2>1. G \in Int /\ K + G \in Int /\ -K \in Int /\ (K + G) + (-K) = G /\ B + (-K) = B - K
    OBVIOUS
  <2>2. (((K + G) % N) + (-K)) % N = ((K + G) + (-K)) % N
    BY <1>0, <2>1, ReducedSummand
  <2>3. G % N = G
    BY <1>0, OwnRemainder
  <2> QED
    BY <1>3, <2>1, <2>2, <2>3
<1>6. PICK e \in Nat : e = (a + u * x) % N
  BY <1>0, Remainder
<1>7. ModAdd(a, ModMul(u, x, N), N) = e
  <2>1. PICK r \in Int : r = (u * x) % N
    BY <1>0, Remainder
  <2>2. (r + a) % N = (u * x + a) % N
    BY <1>0, <2>1, ReducedSummand
  <2>3. a + r = r + a
    BY <1>0
  <2> QED
    BY <1>0, <1>6, <2>1, <2>2, <2>3 DEF ModAdd, ModMul
<1>8. SrpClientSecret(B, x, u, a) = Pow(B - K, e, N)
  <2>1. ModExp(B - K, e, N) = Pow(B - K, e, N)
    BY ModExpIsPower
  <2> QED
    BY <1>2, <1>7, <2>1, Zenon DEF SrpClientSecret
<1>9. Pow((B - K) % N, e, N) = Pow(B - K, e, N)
  <2>1. B - K \in Int
    OBVIOUS
  <2> QED
    BY <1>0, <2>1, PowerOfRemainder
<1> QED
  BY <1>1, <1>4, <1>5, <1>6, <1>8, <1>9, Zenon

(* An exponent between N and 2 * N that is reduced modulo N, not N - 1,    *)
(* gives another power, unless all powers are the same.                    *)
LEMMA ReducedExponent ==
    ASSUME NEW n, Prime(n), NEW G \in Units(n), NEW e \in Nat, e < 2 * n
    PROVE  Pow(G, e % n, n) = Pow(G, e, n) <=> e < n \/ G = 1
<1>0. n \in Positive /\ n \in Nat /\ n - 1 \in Nat /\ G \in Int /\ G % n = G /\ G % n # 0
  BY PrimeIs DEF Units, Positive
<1>1. CASE e < n
  <2>1. e % n = e
    BY <1>0, <1>1, OwnRemainder
  <2> QED
    BY <1>1, <2>1
<1>2. CASE ~(e < n)
  <2>1. PICK d \in Nat : e = d + n /\ d \in 0 .. n - 1
    BY <1>0, <1>2
  <2>2. e % n = d
    <3>1. PICK m \in Int : m = 1
      OBVIOUS
    <3>3. e - d = m * n /\ e \in Int /\ d \in Int
      BY <1>0, <2>1, <3>1
    <3>2. e % n = d % n
      <4>1. n \in Positive /\ e \in Int /\ d \in Int /\ \E c \in Int : e - d = c * n
        BY <1>0, <3>3
      <4> QED
        BY <4>1, Congruent
    <3> QED
      BY <1>0, <2>1, <3>2, OwnRemainder
  <2>3. PICK p \in Units(n) : p = Pow(G, d, n)
    BY <1>0, PowerIsUnit
  <2>4. p \in Int /\ p % n = p /\ p % n # 0 /\ p * 1 = p
    BY PrimeIs DEF Units
  <2>5. Pow(G, n, n) = G
    <3>1. Pow(G, n - 1, n) = 1
      BY <1>0, Fermat
    <3>2. Pow(G, (n - 1) + 1, n) = (1 * G) % n
      BY <1>0, <3>1, PowIs
    <3>3. (n - 1) + 1 = n /\ 1 * G = G
      BY <1>0
    <3> QED
      BY <1>0, <3>2, <3>3
  <2>6. Pow(G, e, n) = (p * G) % n
    <3>1. Pow(G, d + n, n) = (Pow(G, d, n) * Pow(G, n, n)) % n
      BY <1>0, PowerOfSum
    <3> QED
      BY <2>1, <2>3, <2>5, <3>1, Zenon
  <2>7. ASSUME p = (p * G) % n PROVE G = 1
    <3>1. PICK o \in Int : o = 1
      OBVIOUS
    <3>2. (p * G) % n = (p * o) % n
      BY <2>4, <2>7, <3>1
    <3>3. G % n = o % n
      BY <1>0, <2>4, <3>2, Cancelled
    <3> QED
      BY <1>0, <3>1, <3>3, PrimeIs
  <2>8. ASSUME G = 1 PROVE p = (p * G) % n
    BY <2>4, <2>8
  <2> QED
    BY <1>2, <2>2, <2>3, <2>6, <2>7, <2>8
<1> QED
  BY <1>1, <1>2

(* For every prime, generator, multiplier and size of the hash, a client   *)
(* that knows the password computes the server's secret: in srp.c exactly  *)
(* when its exponent was not reduced, or does not matter, and in ssrp.c    *)
(* always.                                                                 *)
THEOREM SameSecrets == SecretsAgree
<1> SUFFICES ASSUME NEW a \in Randoms, NEW b \in Randoms, NEW x \in 0 .. H - 1, NEW u \in 0 .. H - 1
             PROVE  LET A == ModExp(g, a, N)
                        S == ServerSecret(A, x, u, b)
                    IN  /\ (SrpClientSecret(SrpB(x, b), x, u, a) = S) =
                                (a + u * x < N \/ ModExp(g, b, N) = 1)
                        /\ SsrpClientSecret(SsrpB(b), x, u, a) = S
  BY Zenon DEF SecretsAgree
<1>1. /\ Prime(N) /\ g \in Int /\ g % N # 0 /\ a \in Nat /\ a < N /\ b \in Nat
      /\ u * x \in Nat /\ u * x < N /\ N \in Nat
  BY ArithmeticTypes DEF Positive
<1>2. PICK G \in Units(N) : G = Pow(g, b, N)
  BY <1>1, PowerIsUnit
<1>3. PICK e \in Nat : e = a + u * x /\ e < 2 * N
  BY <1>1
<1>4. PICK S : S = ServerSecret(Pow(g, a, N), x, u, b) /\ S = Pow(G, e, N)
  BY <1>2, <1>3, ServerSecretIs
<1>5. SrpClientSecret(SrpB(x, b), x, u, a) = Pow(G, e % N, N)
  BY <1>2, <1>3, SrpClientSecretIs
<1>6. Pow(G, e % N, N) = S <=> e < N \/ G = 1
  BY <1>1, <1>3, <1>4, ReducedExponent
<1>7. (SrpClientSecret(SrpB(x, b), x, u, a) = S) = (e < N \/ G = 1)
  BY <1>5, <1>6
<1>8. SsrpClientSecret(SsrpB(b), x, u, a) = S
  <2>1. ModExp(g, b, N) = G /\ G \in Int
    BY <1>1, <1>2, ModExpIsPower
  <2>2. ModExp(G, e, N) = Pow(G, e, N)
    BY <2>1, ModExpIsPower
  <2> QED
    BY <1>3, <1>4, <2>1, <2>2, Zenon DEF SsrpClientSecret, SsrpB
<1>9. ModExp(g, a, N) = Pow(g, a, N) /\ ModExp(g, b, N) = G
  BY <1>1, <1>2, ModExpIsPower
<1> QED
  BY <1>2, <1>3, <1>4, <1>7, <1>8, <1>9

(* So the secrets of the run agree exactly when SecretsAgree says so,      *)
(* whatever the prime.                                                     *)
THEOREM SecretsAreTheSame == Spec => []ArithmeticAgrees
<1>1. ArithmeticAgrees
  BY SameSecrets DEF ArithmeticAgrees
<1> QED
  BY <1>1, PTL

(***************************************************************************)
(* RSA: powers modulo a product of two primes.                             *)
(***************************************************************************)

(* A remainder modulo a product, reduced modulo one of the factors.        *)
LEMMA RemainderModuloFactor ==
    ASSUME NEW n \in Positive, NEW o \in Positive, NEW x \in Int
    PROVE  (x % (n * o)) % n = x % n
<1>1. PICK c : c = n * o
  OBVIOUS
<1>2. c \in Positive
  BY <1>1 DEF Positive
<1>r. PICK r \in Int : r = x % c
  BY <1>2, Remainder
<1>m. PICK m \in Int : x = m * c + (x % c)
  BY <1>2, Remainder
<1>3. r = x % c /\ x = m * c + r
  BY <1>r, <1>m
<1>4. x - r = (m * o) * n /\ m * o \in Int
  BY <1>1, <1>3 DEF Positive
<1>5. x % n = r % n
  BY <1>3, <1>4, Congruent
<1> QED
  BY <1>1, <1>3, <1>5

(* A power is a remainder.                                                 *)
LEMMA PowType ==
    ASSUME NEW n \in Positive, NEW b \in Int, NEW e \in Nat
    PROVE  Pow(b, e, n) \in 0 .. n - 1 /\ Pow(b, e, n) \in Int
<1>1. Pow(b, e, n) \in 0 .. n - 1
  BY PowIs
<1> QED
  BY <1>1

(* A power modulo a product, reduced modulo a factor, is the power modulo  *)
(* the factor.                                                             *)
LEMMA PowerModuloFactor ==
    ASSUME NEW n \in Positive, NEW o \in Positive, NEW c \in Positive, c = n * o,
           NEW b \in Int, NEW e \in Nat
    PROVE  Pow(b, e, c) % n = Pow(b, e, n)
<1> DEFINE S == {i \in Nat : Pow(b, i, c) % n = Pow(b, i, n)}
<1>1. 0 \in S
  <2>1. PICK u \in Int : u = 1
    OBVIOUS
  <2>2. (u % (n * o)) % n = u % n
    BY RemainderModuloFactor
  <2> QED
    BY <2>1, <2>2, PowIs
<1>2. ASSUME NEW i \in Nat, i \in S PROVE i + 1 \in S
  <2>x. PICK x \in Int : x = Pow(b, i, c)
    BY PowType, Zenon
  <2>y. PICK y \in Int : y = Pow(b, i, n)
    BY PowType, Zenon
  <2>1. x = Pow(b, i, c) /\ y = Pow(b, i, n)
    BY <2>x, <2>y
  <2>2. x % n = y
    BY <1>2, <2>1
  <2>3. Pow(b, i + 1, c) = (x * b) % c /\ Pow(b, i + 1, n) = (y * b) % n
    BY <2>1, PowIs
  <2>4. x * b \in Int
    OBVIOUS
  <2>5. ((x * b) % (n * o)) % n = (x * b) % n
    BY <2>4, RemainderModuloFactor
  <2>6. (y * b) % n = (x * b) % n
    BY <2>2, ReducedFactor
  <2>7. ((x * b) % c) % n = (y * b) % n
    BY <2>5, <2>6
  <2>8. Pow(b, i + 1, c) % n = Pow(b, i + 1, n)
    BY <2>3, <2>7, Zenon
  <2> QED
    BY <2>8
<1>3. \A i \in Nat : i \in S
  <2> HIDE DEF S
  <2> QED
    BY <1>1, <1>2, Successive
<1> QED
  BY <1>3

(* The powers of 1 are 1.                                                  *)
LEMMA PowerOfOne ==
    ASSUME NEW n \in Positive, NEW e \in Nat
    PROVE  Pow(1 % n, e, n) = 1 % n
<1>1. PICK z \in Nat : z = 0
  OBVIOUS
<1>2. PICK o \in Int : o = 1
  OBVIOUS
<1>3. Pow(o, z, n) = 1 % n
  BY <1>1, <1>2, PowIs
<1>4. Pow(Pow(o, z, n), e, n) = Pow(o, z * e, n)
  BY PowerOfPower
<1>5. z * e = z
  BY <1>1
<1> QED
  BY <1>3, <1>4, <1>5

(* The powers of a multiple of n, but the first, are 0.                    *)
LEMMA PowerOfMultiple ==
    ASSUME NEW n \in Positive, NEW b \in Int, b % n = 0, NEW e \in Nat
    PROVE  Pow(b, e + 1, n) = 0
<1>1. PICK x \in Int : x = Pow(b, e, n)
  BY PowIs
<1>2. Pow(b, e + 1, n) = (x * b) % n
  BY <1>1, PowIs
<1>3. (x * (b % n)) % n = (x * b) % n
  BY ReducedFactor
<1>4. (x * 0) % n = 0
  <2>1. x * 0 = 0 /\ 0 \in 0 .. n - 1
    BY DEF Positive
  <2> QED
    BY <2>1, OwnRemainder
<1> QED
  BY <1>2, <1>3, <1>4

(* An exponent that is 1 more than a multiple of n - 1 changes nothing     *)
(* modulo a prime n.                                                       *)
LEMMA PowerBeyondFermat ==
    ASSUME NEW n, Prime(n), NEW b \in Int, NEW c \in Nat, NEW e \in Nat, e = c * (n - 1)
    PROVE  Pow(b, e + 1, n) = b % n
<1>0. n \in Positive /\ n - 1 \in Nat
  BY PrimeIs DEF Positive
<1>1. CASE b % n = 0
  BY <1>0, <1>1, PowerOfMultiple
<1>2. CASE b % n # 0
  <2>1. Pow(b, n - 1, n) = 1 /\ 1 % n = 1
    BY <1>2, Fermat, PrimeIs
  <2>2. Pow(Pow(b, n - 1, n), c, n) = Pow(b, (n - 1) * c, n)
    BY <1>0, PowerOfPower
  <2>3. Pow(1 % n, c, n) = 1 % n
    BY <1>0, PowerOfOne
  <2>4. (n - 1) * c = e
    BY <1>0
  <2>5. Pow(b, e, n) = 1
    BY <2>1, <2>2, <2>3, <2>4
  <2>6. Pow(b, e + 1, n) = (1 * b) % n /\ 1 * b = b
    BY <1>0, <2>5, PowIs
  <2> QED
    BY <2>6
<1> QED
  BY <1>1, <1>2

(* Two different primes do not divide each other. *)
LEMMA DifferentPrimes ==
    ASSUME NEW p, Prime(p), NEW q, Prime(q), p # q
    PROVE  p % q # 0
<1>1. p \in Nat /\ q \in Nat /\ p > 1 /\ q > 1
  BY DEF Prime, IsPrime
<1>2. CASE q < p
  <2>1. q \in 2 .. p - 1
    BY <1>1, <1>2
  <2> QED
    BY <2>1, Zenon DEF Prime, IsPrime
<1>3. CASE q > p
  BY <1>1, <1>3
<1> QED
  BY <1>1, <1>2, <1>3

(* A number below the product of two primes is known by its remainders.    *)
LEMMA TwoRemainders ==
    ASSUME NEW p, Prime(p), NEW q, Prime(q), p # q, NEW c \in Int, c = p * q,
           NEW x \in 0 .. c - 1, NEW y \in 0 .. c - 1, x % p = y % p, x % q = y % q
    PROVE  x = y
<1>0. p \in Positive /\ q \in Positive /\ p \in Int /\ q \in Int /\ x \in Int /\ y \in Int
  BY PrimeIs DEF Positive
<1>1. PICK s \in Int : x - y = s * p
  BY <1>0, Congruent
<1>2. PICK t \in Int : x - y = t * q
  BY <1>0, Congruent
<1>z. PICK o \in Int : o = 0
  OBVIOUS
<1>3. PICK w \in Int : w = p * s /\ w - o = t * q
  BY <1>0, <1>1, <1>2, <1>z
<1>4. (p * s) % q = 0
  <2>1. w % q = o % q
    <3>1. q \in Positive /\ \E i \in Int : w - o = i * q
      BY <1>0, <1>3
    <3> QED
      BY <3>1, Congruent, Zenon
  <2> QED
    BY <1>z, <1>3, <2>1, PrimeIs
<1>5. p % q # 0
  BY DifferentPrimes
<1>6. s % q = o % q
  <2>1. s % q = 0
    BY <1>0, <1>4, <1>5, NoZeroProduct, Zenon
  <2> QED
    BY <1>z, <2>1, PrimeIs
<1>7. PICK r \in Int : s - o = r * q
  BY <1>0, <1>6, Congruent
<1>8. x - y = r * c
  BY <1>0, <1>z, <1>1, <1>7
<1>9. c \in Positive
  BY <1>0 DEF Positive
<1>10. PICK z \in Int : z = x - y /\ -c < z /\ z < c
  BY <1>0, <1>9 DEF Positive
<1>11. z = 0
  BY <1>8, <1>9, <1>10, NoMultipleBelow
<1> QED
  BY <1>0, <1>10, <1>11

(* mpi_mod_inv(3, phi): there is an inverse when 3 does not divide phi.    *)
LEMMA ModInvIs ==
    ASSUME NEW phi \in Positive, NEW d, d = ModInv(phi), d # NULL
    PROVE  d \in Positive /\ \E m \in Nat : 3 * d = m * phi + 1
<1>1. phi % 3 # 0 /\ d = CHOOSE i \in 1 .. phi : (3 * i) % phi = 1 % phi
  BY DEF ModInv
<1>2. \E i \in 1 .. phi : (3 * i) % phi = 1 % phi
  <2>1. PICK i \in 1 .. phi, m \in Int : 3 * i - 1 = m * phi
    <3>1. CASE phi % 3 = 1
      <4>1. PICK j \in Nat : phi = 3 * j + 1
        BY <3>1 DEF Positive
      <4>2. 2 * j + 1 \in 1 .. phi /\ 3 * (2 * j + 1) - 1 = 2 * phi
        BY <4>1
      <4> QED
        BY <4>2
    <3>2. CASE phi % 3 = 2
      <4>1. PICK j \in Nat : phi = 3 * j + 2
        BY <3>2 DEF Positive
      <4>2. j + 1 \in 1 .. phi /\ 3 * (j + 1) - 1 = 1 * phi
        BY <4>1
      <4> QED
        BY <4>2
    <3> QED
      BY <1>1, <3>1, <3>2 DEF Positive
  <2>2. PICK a \in Int, o \in Int : a = 3 * i /\ o = 1
    OBVIOUS
  <2>3. a - o = m * phi
    BY <2>1, <2>2
  <2>4. a % phi = o % phi
    BY <2>3, Congruent
  <2> QED
    BY <2>2, <2>4
<1>3. d \in 1 .. phi /\ (3 * d) % phi = 1 % phi
  BY <1>1, <1>2, Zenon
<1>4. PICK a \in Int, o \in Int : a = 3 * d /\ o = 1
  BY <1>3
<1>5. PICK m \in Int : a - o = m * phi
  <2>1. a % phi = o % phi
    BY <1>3, <1>4
  <2> QED
    BY <2>1, Congruent
<1>6. m \in Nat
  <2>1. CASE m <= -1
    <3>1. m * phi <= -1
      BY <2>1 DEF Positive
    <3> QED
      BY <1>3, <1>4, <1>5, <3>1
  <2> QED
    BY <2>1
<1>7. 3 * d = m * phi + 1
  BY <1>3, <1>4, <1>5 DEF Positive
<1> QED
  BY <1>3, <1>6, <1>7 DEF Positive

(* An exponent that is 1 more than a multiple of p - 1 and of q - 1.       *)
LEMMA PowerModuloProduct ==
    ASSUME NEW p, Prime(p), NEW q, Prime(q), p # q, NEW n \in Positive, n = p * q,
           NEW x \in 0 .. n - 1, NEW e \in Nat,
           \E i \in Nat : e = i * (p - 1), \E j \in Nat : e = j * (q - 1)
    PROVE  Pow(x, e + 1, n) = x
<1>0. p \in Positive /\ q \in Positive /\ x \in Int
  BY PrimeIs DEF Positive
<1>1. PICK f \in Nat : f = e + 1
  OBVIOUS
<1>2. PICK y \in 0 .. n - 1 : y = Pow(x, f, n)
  BY <1>0, PowType, Zenon
<1>3. y % p = x % p
  <2>1. Pow(x, f, n) % p = Pow(x, f, p)
    <3>1. p \in Positive /\ q \in Positive /\ n = p * q /\ x \in Int
      BY <1>0
    <3> QED
      BY <3>1, PowerModuloFactor, Zenon
  <2>2. Pow(x, e + 1, p) = x % p
    BY <1>0, PowerBeyondFermat
  <2> QED
    BY <1>1, <1>2, <2>1, <2>2
<1>4. y % q = x % q
  <2>1. n = q * p
    BY <1>0 DEF Positive
  <2>2. Pow(x, f, n) % q = Pow(x, f, q)
    BY <1>0, <2>1, PowerModuloFactor
  <2>3. Pow(x, e + 1, q) = x % q
    BY <1>0, PowerBeyondFermat
  <2> QED
    BY <1>1, <1>2, <2>2, <2>3
<1>5. y = x
  <2>1. n \in Int
    BY DEF Positive
  <2> QED
    BY <1>3, <1>4, <2>1, TwoRemainders
<1> QED
  BY <1>1, <1>2, <1>5

(* Decryption inverts encryption modulo two different primes.              *)
LEMMA RsaInverts ==
    ASSUME NEW p, Prime(p), NEW q, Prime(q), p # q,
           NEW n, n = p * q, NEW d, d = ModInv((p - 1) * (q - 1)), d # NULL,
           NEW x \in 0 .. n - 1
    PROVE  Pow(Pow(x, 3, n), d, n) = x
<1>0. /\ p \in Positive /\ q \in Positive /\ n \in Positive /\ n \in Int
      /\ (p - 1) * (q - 1) \in Positive /\ p - 1 \in Nat /\ q - 1 \in Nat /\ x \in Int
  <2>1. p \in Nat /\ q \in Nat /\ p > 1 /\ q > 1
    BY DEF Prime, IsPrime
  <2>2. p * q \in Nat /\ p * q > 0 /\ (p - 1) * (q - 1) \in Nat /\ (p - 1) * (q - 1) > 0
    BY <2>1
  <2> QED
    BY <2>1, <2>2 DEF Positive
<1>1. d \in Positive /\ \E m \in Nat : 3 * d = m * ((p - 1) * (q - 1)) + 1
  BY <1>0, ModInvIs
<1>2. PICK m \in Nat : 3 * d = m * ((p - 1) * (q - 1)) + 1
  BY <1>1
<1>3. PICK e \in Nat : e = m * ((p - 1) * (q - 1)) /\ 3 * d = e + 1
  BY <1>0, <1>2 DEF Positive
<1>4. PICK i \in Nat, j \in Nat : e = i * (p - 1) /\ e = j * (q - 1)
  <2>1. e = (m * (q - 1)) * (p - 1) /\ e = (m * (p - 1)) * (q - 1)
    BY <1>0, <1>3
  <2>2. m * (q - 1) \in Nat /\ m * (p - 1) \in Nat
    BY <1>0
  <2> QED
    BY <2>1, <2>2
<1>5. Pow(Pow(x, 3, n), d, n) = Pow(x, 3 * d, n)
  <2>1. PICK three \in Nat : three = 3
    OBVIOUS
  <2>2. n \in Positive /\ x \in Int /\ d \in Nat
    BY <1>0, <1>1 DEF Positive
  <2>3. Pow(Pow(x, three, n), d, n) = Pow(x, three * d, n)
    <3>1. \A r \in Nat : Pow(Pow(x, three, n), r, n) = Pow(x, three * r, n)
      BY <2>2, PowerOfPower
    <3> QED
      BY <2>2, <3>1, Zenon
  <2> QED
    BY <2>1, <2>3
<1>6. Pow(x, e + 1, n) = x
  BY <1>0, <1>4, PowerModuloProduct
<1> QED
  BY <1>3, <1>5, <1>6

(* But not for p itself, modulo the square of p.                           *)
LEMMA SquareForgets ==
    ASSUME NEW p, Prime(p), NEW n, n = p * p
    PROVE  /\ p \in 0 .. n - 1 /\ Pow(p, 3, n) = 0
           /\ \A d \in Positive : Pow(0, d, n) = 0
<1>0. p \in Nat /\ p > 1 /\ n \in Positive /\ p \in 0 .. n - 1
  <2>1. p \in Nat /\ p > 1
    BY DEF Prime, IsPrime
  <2>2. p * p \in Nat /\ p * p > p
    BY <2>1
  <2> QED
    BY <2>1, <2>2 DEF Positive
<1>1. Pow(p, 3, n) = 0
  <2>1. PICK z \in Nat, o \in Nat, t \in Nat : z = 0 /\ o = 1 /\ t = 2
    OBVIOUS
  <2>2. z + 1 = o /\ o + 1 = t /\ t + 1 = 3
    BY <2>1
  <2>3. Pow(p, o, n) = p
    <3>1. Pow(p, z + 1, n) = (Pow(p, z, n) * p) % n /\ Pow(p, z, n) = 1 % n
      <4>1. p \in Int
        BY <1>0
      <4> QED
        BY <1>0, <2>1, <4>1, PowIs
    <3>2. ((1 % n) * p) % n = (1 * p) % n
      BY <1>0, ReducedFactor
    <3>3. 1 * p = p /\ p % n = p
      BY <1>0, OwnRemainder
    <3> QED
      BY <2>2, <3>1, <3>2, <3>3
  <2>4. Pow(p, t, n) = 0
    <3>1. Pow(p, o + 1, n) = (p * p) % n
      <4>1. p \in Int
        BY <1>0
      <4>2. Pow(p, o + 1, n) = (Pow(p, o, n) * p) % n
        BY <1>0, <4>1, PowIs
      <4> QED
        BY <2>3, <4>2
    <3>2. n % n = 0
      BY <1>0 DEF Positive
    <3> QED
      BY <2>2, <3>1, <3>2
  <2>5. Pow(p, t + 1, n) = (0 * p) % n
    <3>1. p \in Int
      BY <1>0
    <3>2. Pow(p, t + 1, n) = (Pow(p, t, n) * p) % n
      BY <1>0, <3>1, PowIs
    <3> QED
      BY <2>4, <3>2
  <2>6. 0 * p = 0 /\ 0 % n = 0
    BY <1>0, OwnRemainder DEF Positive
  <2> QED
    BY <2>2, <2>5, <2>6
<1>2. ASSUME NEW d \in Positive PROVE Pow(0, d, n) = 0
  <2>1. d - 1 \in Nat /\ (d - 1) + 1 = d /\ 0 % n = 0
    BY <1>0, OwnRemainder DEF Positive
  <2>2. Pow(0, (d - 1) + 1, n) = 0
    BY <1>0, <2>1, PowerOfMultiple
  <2> QED
    BY <2>1, <2>2
<1> QED
  BY <1>0, <1>1, <1>2

(***************************************************************************)
(* Recursive functions on numbers: f[i] is computed from f[p[i]], p[i] < i. *)
(***************************************************************************)

(* f and h are equal wherever they were before. *)
StepsAgree(D, f, h) == \A i \in D : (\A j \in D : j < i => f[j] = h[j]) => f[i] = h[i]

Same(D, f, h) == \A i \in D : f[i] = h[i]

(* Two functions that do the same at the start and in every step are equal. *)
LEMMA SameSteps ==
    ASSUME NEW D \in SUBSET Nat, NEW f, NEW h, StepsAgree(D, f, h)
    PROVE  Same(D, f, h)
<1> DEFINE W == {i \in D : f[i] # h[i]}
<1> SUFFICES ASSUME W # {} PROVE FALSE
  BY DEF Same
<1>1. PICK i \in W : \A j \in W : i <= j
  <2>1. W \subseteq Nat
    BY Zenon
  <2> HIDE DEF W
  <2> QED
    BY <2>1, Smallest
<1>2. \A j \in D : j < i => f[j] = h[j]
  <2> TAKE j \in D
  <2>1. i \in Nat /\ j \in Nat
    OBVIOUS
  <2>2. j \in W => i <= j
    BY <1>1
  <2> QED
    BY <2>1, <2>2
<1> QED
  BY <1>2, Zenon DEF StepsAgree

Descends(p) == \A i \in Positive : p[i] < i

Steps(F, start, p, G) == F[0] = start /\ \A i \in Positive : F[i] = G[<<i, F[p[i]]>>]

(* f does, up to m, as the step G says. *)
Follows(f, m, V, start, p, G) ==
    /\ f \in [0 .. m -> V]
    /\ f[0] = start
    /\ \A i \in 1 .. m : f[i] = G[<<i, f[p[i]]>>]

(* There is such a function on all numbers. *)
LEMMA Recursion ==
    ASSUME NEW V, NEW start \in V, NEW p \in [Positive -> Nat], Descends(p),
           NEW G \in [Positive \X V -> V]
    PROVE  \E F \in [Nat -> V] : Steps(F, start, p, G)
<1> DEFINE Sol(m, f) == Follows(f, m, V, start, p, G)
<1>p. \A m \in Nat : \A i \in 1 .. m : i \in Positive /\ p[i] \in 0 .. m /\ p[i] < i /\ p[i] \in Nat
  BY DEF Positive, Descends
<1>1. ASSUME NEW m \in Nat, NEW l \in Nat, m <= l, NEW f, Sol(m, f), NEW h, Sol(l, h)
      PROVE  \A i \in 0 .. m : f[i] = h[i]
  <2>1. /\ f[0] = start /\ h[0] = start
        /\ \A i \in 1 .. m : f[i] = G[<<i, f[p[i]]>>]
        /\ \A i \in 1 .. l : h[i] = G[<<i, h[p[i]]>>]
    BY <1>1, Zenon DEF Follows
  <2>2. ASSUME NEW i \in 0 .. m, \A j \in 0 .. m : j < i => f[j] = h[j] PROVE f[i] = h[i]
    <3>1. CASE i = 0
      BY <2>1, <3>1
    <3>2. CASE i # 0
      <4>1. i \in 1 .. m /\ i \in 1 .. l
        BY <1>1, <3>2
      <4>2. p[i] \in 0 .. m /\ p[i] < i
        BY <1>p, <4>1
      <4> QED
        BY <2>1, <2>2, <4>1, <4>2, Zenon
    <3> QED
      BY <3>1, <3>2
  <2>3. PICK D : D = 0 .. m
    OBVIOUS
  <2>4. D \in SUBSET Nat
    BY <2>3
  <2>6. StepsAgree(D, f, h)
    BY <2>2, <2>3, Zenon DEF StepsAgree
  <2> HIDE DEF Sol
  <2>5. Same(D, f, h)
    BY <2>4, <2>6, SameSteps
  <2> QED
    BY <2>3, <2>5, Zenon DEF Same
<1> DEFINE S == {m \in Nat : \E f : Sol(m, f)}
<1>2. 0 \in S
  <2>1. PICK f : f = [i \in 0 .. 0 |-> start]
    OBVIOUS
  <2>2. f \in [0 .. 0 -> V] /\ f[0] = start /\ \A i \in 1 .. 0 : FALSE
    BY <2>1
  <2>3. Sol(0, f)
    BY <2>2, Zenon DEF Follows
  <2> HIDE DEF Sol
  <2> QED
    BY <2>3
<1>3. ASSUME NEW m \in Nat, m \in S PROVE m + 1 \in S
  <2>1. PICK f : Sol(m, f)
    BY <1>3
  <2>2. f \in [0 .. m -> V] /\ f[0] = start /\ \A i \in 1 .. m : f[i] = G[<<i, f[p[i]]>>]
    BY <2>1, Zenon DEF Follows
  <2>3. m + 1 \in Positive /\ p[m + 1] \in 0 .. m
    <3>1. m + 1 \in Positive
      BY DEF Positive
    <3>2. p[m + 1] \in Nat /\ p[m + 1] < m + 1
      BY <3>1 DEF Descends
    <3> QED
      BY <3>1, <3>2
  <2>4. PICK v \in V : v = G[<<m + 1, f[p[m + 1]]>>]
    <3>1. f[p[m + 1]] \in V
      BY <2>2, <2>3
    <3>2. <<m + 1, f[p[m + 1]]>> \in Positive \X V
      BY <2>3, <3>1
    <3> QED
      BY <3>2
  <2>5. PICK h : h = [i \in 0 .. m + 1 |-> IF i = m + 1 THEN v ELSE f[i]]
    OBVIOUS
  <2>6. h \in [0 .. m + 1 -> V]
    <3>1. ASSUME NEW i \in 0 .. m + 1 PROVE (IF i = m + 1 THEN v ELSE f[i]) \in V
      <4>1. i # m + 1 => i \in 0 .. m
        OBVIOUS
      <4> QED
        BY <2>2, <4>1
    <3> QED
      BY <2>5, <3>1
  <2>7. \A i \in 0 .. m : h[i] = f[i]
    BY <2>5
  <2>8. h[m + 1] = v
    BY <2>5
  <2>9. \A i \in 1 .. m + 1 : h[i] = G[<<i, h[p[i]]>>]
    <3> TAKE i \in 1 .. m + 1
    <3>1. CASE i = m + 1
      BY <2>3, <2>4, <2>7, <2>8, <3>1
    <3>2. CASE i # m + 1
      <4>1. i \in 1 .. m /\ i \in 0 .. m
        BY <3>2
      <4>2. p[i] \in 0 .. m
        BY <1>p, <4>1
      <4> QED
        BY <2>2, <2>7, <4>1, <4>2, Zenon
    <3> QED
      BY <3>1, <3>2
  <2>10. h[0] = start
    BY <2>2, <2>7
  <2>11. Sol(m + 1, h)
    BY <2>6, <2>9, <2>10, Zenon DEF Follows
  <2> HIDE DEF Sol
  <2> QED
    BY <2>11
<1>4. \A m \in Nat : \E f : Sol(m, f)
  <2>1. \A m \in Nat : m \in S
    <3> HIDE DEF S
    <3> QED
      BY <1>2, <1>3, Successive
  <2> HIDE DEF Sol
  <2> QED
    BY <2>1
<1> DEFINE Some(m) == CHOOSE f : Sol(m, f)
<1>5. \A m \in Nat : Sol(m, Some(m))
  <2> HIDE DEF Sol
  <2> QED
    BY <1>4, Zenon
<1> HIDE DEF Some
<1>6. PICK F : F = [m \in Nat |-> Some(m)[m]]
  OBVIOUS
<1>7. \A m \in Nat : F[m] = Some(m)[m] /\ Some(m)[m] \in V
  <2> TAKE m \in Nat
  <2>1. Some(m) \in [0 .. m -> V]
    BY <1>5, Zenon DEF Follows
  <2>2. m \in 0 .. m
    OBVIOUS
  <2> QED
    BY <1>6, <2>1, <2>2
<1>8. F \in [Nat -> V]
  BY <1>6, <1>7
<1>9. F[0] = start
  <2>1. Some(0)[0] = start
    BY <1>5, Zenon DEF Follows
  <2> QED
    BY <1>7, <2>1
<1>10. ASSUME NEW i \in Positive PROVE F[i] = G[<<i, F[p[i]]>>]
  <2>1. i \in Nat /\ i \in 1 .. i /\ p[i] \in Nat /\ p[i] <= i /\ p[i] \in 0 .. p[i]
    BY DEF Positive, Descends
  <2>2. PICK l \in Nat : l = p[i]
    BY <2>1
  <2>3. Sol(i, Some(i)) /\ Sol(l, Some(l))
    BY <1>5, <2>1
  <2>4. Some(i)[i] = G[<<i, Some(i)[l]>>]
    BY <2>1, <2>2, <2>3, Zenon DEF Follows
  <2>5. Some(l)[l] = Some(i)[l]
    <3>1. PICK f, h : f = Some(l) /\ h = Some(i)
      OBVIOUS
    <3>2. Sol(l, f) /\ Sol(i, h) /\ l <= i /\ l \in 0 .. l
      BY <2>1, <2>2, <2>3, <3>1
    <3> HIDE DEF Sol
    <3>3. i \in Nat /\ \A j \in 0 .. l : f[j] = h[j]
      BY <1>1, <2>1, <3>2
    <3> QED
      BY <3>1, <3>2, <3>3
  <2> QED
    BY <1>7, <2>1, <2>2, <2>4, <2>5, Zenon
<1> QED
  BY <1>8, <1>9, <1>10, Zenon DEF Steps

(***************************************************************************)
(* Numbers and bytes.                                                      *)
(***************************************************************************)

Digit == 0 .. Base - 1

(* There is more than one digit.                                           *)
LEMMA BaseIs == Base \in Nat /\ Base > 1 /\ Base \in Positive /\ Digit \subseteq Nat /\ 0 \in Digit
  BY RsaAssumption DEF Positive, Digit

(* FromBytes() adds one byte after the other. *)
LEMMA ValueIs ==
    ASSUME NEW buf \in Seq(Digit)
    PROVE  \E F \in [Nat -> Nat] :
              /\ F[0] = 0
              /\ \A i \in 1 .. Len(buf) : F[i] = F[i - 1] * Base + buf[i]
              /\ FromBytes(buf) = F[Len(buf)]
<1>0. Base \in Nat /\ Digit \subseteq Nat
  BY BaseIs
<1>1. PICK n \in Nat : n = Len(buf)
  OBVIOUS
<1>2. \A i \in 1 .. n : buf[i] \in Nat
  <2>1. \A i \in 1 .. n : buf[i] \in Digit
    BY <1>1
  <2> QED
    BY <1>0, <2>1, Zenon
<1> DEFINE add(i) == IF i \in 1 .. n THEN buf[i] ELSE 0
<1>3. PICK p \in [Positive -> Nat] : p = [i \in Positive |-> i - 1]
  <2>1. \A i \in Positive : i - 1 \in Nat
    BY DEF Positive
  <2> QED
    BY <2>1
<1>4. PICK G \in [Positive \X Nat -> Nat] : G = [x \in Positive \X Nat |-> x[2] * Base + add(x[1])]
  <2>1. ASSUME NEW x \in Positive \X Nat PROVE x[2] * Base + add(x[1]) \in Nat
    <3>1. x[2] \in Nat /\ add(x[1]) \in Nat
      BY <1>2
    <3> HIDE DEF add
    <3>2. x[2] * Base \in Nat
      BY <1>0, <3>1
    <3> QED
      BY <3>1, <3>2
  <2> HIDE DEF add
  <2> QED
    BY <2>1
<1>5. PICK z \in Nat : z = 0
  OBVIOUS
<1>6. PICK F \in [Nat -> Nat] : Steps(F, z, p, G)
  <2>1. Descends(p)
    BY <1>3 DEF Positive, Descends
  <2> QED
    BY <2>1, Recursion
<1>s. F[0] = z /\ \A i \in Positive : F[i] = G[<<i, F[p[i]]>>]
  BY <1>6, Zenon DEF Steps
<1>7. ASSUME NEW i \in 1 .. n PROVE F[i] = F[i - 1] * Base + buf[i]
  <2>1. i \in Positive /\ p[i] = i - 1 /\ i - 1 \in Nat /\ add(i) = buf[i]
    BY <1>3 DEF Positive
  <2>2. PICK v \in Nat : v = F[i - 1]
    BY <2>1
  <2>3. <<i, v>> \in Positive \X Nat /\ <<i, v>>[1] = i /\ <<i, v>>[2] = v
    BY <2>1
  <2> HIDE DEF add
  <2>4. G[<<i, v>>] = v * Base + add(i)
    BY <1>4, <2>3
  <2> QED
    BY <1>s, <2>1, <2>2, <2>4
<1> DEFINE Def(f) == [i_1 \in 0 .. Len(buf) |-> IF i_1 = 0 THEN 0 ELSE f[i_1 - 1] * Base + buf[i_1]]
           h == CHOOSE f : f = Def(f)
<1>8. FromBytes(buf) = h[Len(buf)]
  BY Zenon DEF FromBytes
<1>9. h = Def(h)
  <2>1. PICK f : f = [i \in 0 .. n |-> F[i]]
    OBVIOUS
  <2>2. ASSUME NEW i \in 0 .. n PROVE f[i] = IF i = 0 THEN 0 ELSE f[i - 1] * Base + buf[i]
    <3>1. CASE i = 0
      BY <1>5, <1>s, <2>1, <3>1
    <3>2. CASE i # 0
      <4>1. i \in 1 .. n /\ i - 1 \in 0 .. n
        BY <3>2
      <4>2. f[i] = F[i] /\ f[i - 1] = F[i - 1]
        BY <2>1, <4>1
      <4> QED
        BY <1>7, <3>2, <4>1, <4>2, Zenon
    <3> QED
      BY <3>1, <3>2
  <2>3. f = [i \in 0 .. n |-> f[i]]
    BY <2>1
  <2>4. f = Def(f)
    BY <1>1, <2>2, <2>3, Zenon
  <2> QED
    BY <2>4, Zenon
<1> HIDE DEF h
<1>10. \A i \in 0 .. n : F[i] = h[i]
  <2>1. ASSUME NEW i \in 0 .. n, \A j \in 0 .. n : j < i => F[j] = h[j] PROVE F[i] = h[i]
    <3>1. h[i] = IF i = 0 THEN 0 ELSE h[i - 1] * Base + buf[i]
      BY <1>1, <1>9, Zenon
    <3>2. CASE i = 0
      BY <1>5, <1>s, <3>1, <3>2
    <3>3. CASE i # 0
      <4>1. i \in 1 .. n /\ i - 1 \in 0 .. n /\ i - 1 < i
        BY <3>3
      <4>2. F[i - 1] = h[i - 1]
        BY <2>1, <4>1
      <4> QED
        BY <1>7, <3>1, <3>3, <4>1, <4>2, Zenon
    <3> QED
      BY <3>2, <3>3
  <2>2. PICK D, f : D = 0 .. n /\ f = F
    OBVIOUS
  <2>3. D \in SUBSET Nat
    BY <2>2
  <2>4. StepsAgree(D, f, h)
    BY <2>1, <2>2, Zenon DEF StepsAgree
  <2>5. Same(D, f, h)
    BY <2>3, <2>4, SameSteps
  <2> QED
    BY <2>2, <2>5, Zenon DEF Same
<1>11. n \in 0 .. n
  OBVIOUS
<1>12. FromBytes(buf) = F[n]
  BY <1>1, <1>8, <1>10, <1>11, Zenon
<1> QED
  BY <1>1, <1>5, <1>s, <1>7, <1>12

(* What FromBytes() does with one more byte. *)
LEMMA FromBytesIs ==
    /\ \A buf \in Seq(Digit) : FromBytes(buf) \in Nat
    /\ FromBytes(<<>>) = 0
    /\ \A buf \in Seq(Digit), x \in Digit : FromBytes(Append(buf, x)) = FromBytes(buf) * Base + x
<1>1. ASSUME NEW buf \in Seq(Digit) PROVE FromBytes(buf) \in Nat
  <2>1. PICK F \in [Nat -> Nat] : FromBytes(buf) = F[Len(buf)]
    BY ValueIs
  <2> QED
    BY <2>1
<1>2. FromBytes(<<>>) = 0
  <2>1. <<>> \in Seq(Digit) /\ Len(<<>>) = 0
    OBVIOUS
  <2> QED
    BY <2>1, ValueIs
<1>3. ASSUME NEW buf \in Seq(Digit), NEW x \in Digit
      PROVE  FromBytes(Append(buf, x)) = FromBytes(buf) * Base + x
  <2>1. PICK n \in Nat : n = Len(buf)
    OBVIOUS
  <2>2. PICK s \in Seq(Digit) : s = Append(buf, x)
    <3>1. Append(buf, x) \in Seq(Digit)
      OBVIOUS
    <3> QED
      BY <3>1
  <2>3. Len(s) = n + 1 /\ s[n + 1] = x /\ \A i \in 1 .. n : s[i] = buf[i]
    BY <2>1, <2>2
  <2>4. PICK F \in [Nat -> Nat] : /\ F[0] = 0
                                  /\ \A i \in 1 .. n : F[i] = F[i - 1] * Base + buf[i]
                                  /\ FromBytes(buf) = F[n]
    BY <2>1, ValueIs
  <2>5. PICK E \in [Nat -> Nat] : /\ E[0] = 0
                                  /\ \A i \in 1 .. n + 1 : E[i] = E[i - 1] * Base + s[i]
                                  /\ FromBytes(s) = E[n + 1]
    BY <2>2, <2>3, ValueIs
  <2>6. ASSUME NEW i \in 0 .. n, \A j \in 0 .. n : j < i => F[j] = E[j] PROVE F[i] = E[i]
    <3>1. CASE i = 0
      BY <2>4, <2>5, <3>1
    <3>2. CASE i # 0
      <4>1. i \in 1 .. n /\ i \in 1 .. n + 1 /\ i - 1 \in 0 .. n /\ i - 1 < i
        BY <3>2
      <4>2. F[i - 1] = E[i - 1] /\ s[i] = buf[i]
        BY <2>3, <2>6, <4>1
      <4> QED
        BY <2>4, <2>5, <4>1, <4>2, Zenon
    <3> QED
      BY <3>1, <3>2
  <2>7. F[n] = E[n]
    <3>1. PICK D, f, h : D = 0 .. n /\ f = F /\ h = E
      OBVIOUS
    <3>2. D \in SUBSET Nat /\ n \in D
      BY <3>1
    <3>3. StepsAgree(D, f, h)
      BY <2>6, <3>1, Zenon DEF StepsAgree
    <3>4. Same(D, f, h)
      BY <3>2, <3>3, SameSteps
    <3> QED
      BY <3>1, <3>2, <3>4, Zenon DEF Same
  <2>8. n + 1 \in 1 .. n + 1 /\ (n + 1) - 1 = n
    OBVIOUS
  <2>9. E[n + 1] = E[n] * Base + s[n + 1]
    BY <2>5, <2>8, Zenon
  <2> QED
    BY <2>2, <2>3, <2>4, <2>5, <2>7, <2>9, Zenon
<1> QED
  BY <1>1, <1>2, <1>3

(* The bytes of a number: the last is the remainder, the others are those  *)
(* of the quotient.                                                        *)
LEMMA BytesAre ==
    \E F \in [Nat -> Seq(Digit)] :
        /\ F[0] = <<>>
        /\ \A i \in Positive : F[i] = Append(F[i \div Base], i % Base)
        /\ \A number \in Nat : ToBytes(number) = IF number = 0 THEN <<0>> ELSE F[number]
<1>0. /\ Base \in Nat /\ Base > 1
      /\ \A i \in Nat : i \div Base \in Nat /\ i % Base \in Digit
      /\ \A i \in Positive : i \div Base < i
  <2>1. Base \in Nat /\ Base > 1 /\ Base \in Positive
    BY BaseIs
  <2>2. ASSUME NEW i \in Nat PROVE i \div Base \in Nat /\ i % Base \in Digit
    BY <2>1 DEF Digit
  <2>3. ASSUME NEW i \in Positive PROVE i \div Base < i
    <3>1. PICK c \in Nat, r \in 0 .. Base - 1 : c = i \div Base /\ i = Base * c + r
      BY <2>1 DEF Positive
    <3>2. c < i
      <4>1. Base * c >= 2 * c
        BY <2>1
      <4>2. c = 0 \/ 2 * c > c
        OBVIOUS
      <4> QED
        BY <2>1, <3>1, <4>1, <4>2 DEF Positive
    <3> QED
      BY <3>1, <3>2
  <2> QED
    BY <2>1, <2>2, <2>3
<1>1. PICK p \in [Positive -> Nat] : p = [i \in Positive |-> i \div Base]
  <2>1. \A i \in Positive : i \div Base \in Nat
    BY <1>0 DEF Positive
  <2> QED
    BY <2>1
<1>2. PICK B : B = Seq(Digit)
  OBVIOUS
<1>3. PICK G \in [Positive \X B -> B] : G = [x \in Positive \X B |-> Append(x[2], x[1] % Base)]
  <2>1. ASSUME NEW x \in Positive \X B PROVE Append(x[2], x[1] % Base) \in B
    <3>1. x[2] \in Seq(Digit) /\ x[1] % Base \in Digit
      BY <1>0, <1>2 DEF Positive
    <3> QED
      BY <1>2, <3>1
  <2> QED
    BY <2>1
<1>4. PICK none \in B : none = <<>>
  <2>1. <<>> \in Seq(Digit)
    OBVIOUS
  <2> QED
    BY <1>2, <2>1, Zenon
<1>5. PICK F \in [Nat -> B] : Steps(F, none, p, G)
  <2>1. Descends(p)
    BY <1>0, <1>1 DEF Descends
  <2> QED
    BY <2>1, Recursion
<1>s. F[0] = none /\ \A i \in Positive : F[i] = G[<<i, F[p[i]]>>]
  BY <1>5, Zenon DEF Steps
<1>6. ASSUME NEW i \in Positive PROVE F[i] = Append(F[i \div Base], i % Base)
  <2>1. p[i] = i \div Base /\ i \div Base \in Nat
    BY <1>0, <1>1 DEF Positive
  <2>2. PICK v \in B : v = F[i \div Base]
    BY <2>1
  <2>3. <<i, v>> \in Positive \X B /\ <<i, v>>[1] = i /\ <<i, v>>[2] = v
    OBVIOUS
  <2>4. G[<<i, v>>] = Append(v, i % Base)
    BY <1>3, <2>3, Zenon
  <2> QED
    BY <1>s, <2>1, <2>2, <2>4, Zenon
<1>7. ASSUME NEW number \in Nat, number # 0 PROVE ToBytes(number) = F[number]
  <2> DEFINE Def(f) == [m \in 0 .. number |->
                            IF m = 0 THEN <<>> ELSE Append(f[m \div Base], m % Base)]
             h == CHOOSE f : f = Def(f)
  <2>1. ToBytes(number) = h[number]
    BY <1>7, Zenon DEF ToBytes
  <2>p. ASSUME NEW i \in 0 .. number, i # 0
        PROVE  i \in Positive /\ i \div Base \in 0 .. number /\ i \div Base < i
    <3>1. i \in Positive /\ i \in Nat
      BY <2>p DEF Positive
    <3>2. i \div Base \in Nat /\ i \div Base < i
      BY <1>0, <3>1
    <3>3. PICK c \in Nat : c = i \div Base
      BY <3>2
    <3>4. c \in 0 .. number
      BY <3>2, <3>3
    <3> QED
      BY <3>1, <3>2, <3>3, <3>4
  <2>2. h = Def(h)
    <3>1. PICK f : f = [i \in 0 .. number |-> F[i]]
      OBVIOUS
    <3>2. ASSUME NEW i \in 0 .. number
          PROVE  f[i] = IF i = 0 THEN <<>> ELSE Append(f[i \div Base], i % Base)
      <4>1. CASE i = 0
        BY <1>4, <1>s, <3>1, <4>1
      <4>2. CASE i # 0
        <5>1. i \in Positive /\ i \div Base \in 0 .. number
          BY <2>p, <4>2
        <5>2. f[i] = F[i] /\ f[i \div Base] = F[i \div Base]
          BY <3>1, <5>1, Zenon
        <5> QED
          BY <1>6, <4>2, <5>1, <5>2, Zenon
      <4> QED
        BY <4>1, <4>2
    <3>3. f = [i \in 0 .. number |-> f[i]]
      BY <3>1
    <3>4. f = Def(f)
      BY <3>2, <3>3, Zenon
    <3> QED
      BY <3>4, Zenon
  <2> HIDE DEF h
  <2>3. ASSUME NEW i \in 0 .. number, \A j \in 0 .. number : j < i => F[j] = h[j] PROVE F[i] = h[i]
    <3>1. h[i] = IF i = 0 THEN <<>> ELSE Append(h[i \div Base], i % Base)
      BY <2>2, Zenon
    <3>2. CASE i = 0
      BY <1>4, <1>s, <3>1, <3>2
    <3>3. CASE i # 0
      <4>1. i \in Positive /\ i \div Base \in 0 .. number /\ i \div Base < i
        BY <2>p, <3>3
      <4>2. F[i \div Base] = h[i \div Base]
        BY <2>3, <4>1, Zenon
      <4> QED
        BY <1>6, <3>1, <3>3, <4>1, <4>2, Zenon
    <3> QED
      BY <3>2, <3>3
  <2>4. PICK D : D = 0 .. number
    OBVIOUS
  <2>5. D \in SUBSET Nat /\ number \in D
    BY <2>4
  <2>6. StepsAgree(D, F, h)
    BY <2>3, <2>4, Zenon DEF StepsAgree
  <2>7. Same(D, F, h)
    BY <2>5, <2>6, SameSteps
  <2> QED
    BY <2>1, <2>5, <2>7, Zenon DEF Same
<1>8. ToBytes(0) = <<0>>
  BY Zenon DEF ToBytes
<1> QED
  BY <1>2, <1>4, <1>s, <1>6, <1>7, <1>8

(* A quotient and a remainder. *)
LEMMA QuotientIs ==
    ASSUME NEW v \in Nat, NEW x \in Digit
    PROVE  \E i \in Nat : i = v * Base + x /\ i \div Base = v /\ i % Base = x
                              /\ (i = 0 <=> v = 0 /\ x = 0)
<1>0. Base \in Positive /\ Base \in Nat /\ Base > 1 /\ x \in Nat /\ x \in 0 .. Base - 1
  BY BaseIs DEF Digit
<1>1. PICK i \in Nat : i = v * Base + x
  BY <1>0
<1>2. i % Base = x
  <2>0. PICK y \in Int : y = x
    BY <1>0
  <2>1. i - y = v * Base
    BY <1>0, <1>1, <2>0
  <2>2. i % Base = y % Base
    <3>1. Base \in Positive /\ i \in Int /\ y \in Int /\ \E m \in Int : i - y = m * Base
      BY <1>0, <2>1
    <3> QED
      BY <3>1, Congruent, Zenon
  <2> QED
    BY <1>0, <2>0, <2>2, OwnRemainder
<1>3. i \div Base = v
  <2>1. PICK c \in Int : c = i \div Base /\ i = Base * c + (i % Base)
    BY <1>0, <1>1
  <2>2. Base * c = Base * v
    BY <1>0, <1>1, <1>2, <2>1
  <2>3. PICK r \in Int : r = v - c
    OBVIOUS
  <2>4. PICK z \in Int : z = r * Base /\ z = 0
    BY <1>0, <2>2, <2>3
  <2>5. r = 0
    <3>1. CASE r >= 1
      <4>1. r * Base >= 1
        BY <1>0, <3>1
      <4> QED
        BY <2>4, <4>1
    <3>2. CASE r <= -1
      <4>1. r * Base <= -1
        BY <1>0, <3>2
      <4> QED
        BY <2>4, <4>1
    <3> QED
      BY <3>1, <3>2
  <2> QED
    BY <2>1, <2>3, <2>5
<1>4. i = 0 <=> v = 0 /\ x = 0
  <2>1. v * Base >= v
    BY <1>0
  <2>2. v = 0 => v * Base = 0
    BY <1>0
  <2> QED
    BY <1>0, <1>1, <2>1, <2>2
<1> QED
  BY <1>1, <1>2, <1>3, <1>4

(* A number is what its quotient and its last digit make.                  *)
LEMMA DivisionIs ==
    ASSUME NEW i \in Nat, i # 0
    PROVE  \E v \in Nat, x \in Digit :
              v = i \div Base /\ x = i % Base /\ i = v * Base + x /\ v < i
<1>0. Base \in Nat /\ Base > 1
  BY BaseIs
<1>1. i % Base \in 0 .. Base - 1 /\ i \div Base \in Nat /\ i = Base * (i \div Base) + (i % Base)
  BY <1>0
<1>2. PICK v \in Nat, x \in Nat : v = i \div Base /\ x = i % Base /\ i = Base * v + x
  BY <1>1
<1>3. v * Base = Base * v /\ Base * v >= 2 * v /\ Base * v \in Nat
  BY <1>0
<1>4. v < i
  BY <1>2, <1>3
<1> QED
  BY <1>1, <1>2, <1>3, <1>4 DEF Digit

(* The bytes of a number are its bytes.                                    *)
LEMMA FromBytesOfToBytes ==
    ASSUME NEW number \in Nat
    PROVE  ToBytes(number) \in Seq(Digit) /\ FromBytes(ToBytes(number)) = number
<1>1. PICK F \in [Nat -> Seq(Digit)] :
        /\ F[0] = <<>>
        /\ \A i \in Positive : F[i] = Append(F[i \div Base], i % Base)
        /\ \A i \in Nat : ToBytes(i) = IF i = 0 THEN <<0>> ELSE F[i]
  BY BytesAre
<1>2. \A i \in Nat : F[i] \in Seq(Digit)
  BY <1>1
<1> DEFINE W == {i \in Nat : FromBytes(F[i]) # i}
<1>3. W = {}
  <2> SUFFICES ASSUME W # {} PROVE FALSE
    OBVIOUS
  <2>1. PICK i \in W : \A j \in W : i <= j
    <3>1. W \subseteq Nat
      OBVIOUS
    <3> HIDE DEF W
    <3> QED
      BY <3>1, Smallest
  <2>2. i \in Nat /\ FromBytes(F[i]) # i
    OBVIOUS
  <2>3. i # 0
    BY <1>1, <2>2, FromBytesIs
  <2>4. PICK v \in Nat, x \in Digit : v = i \div Base /\ x = i % Base /\ i = v * Base + x /\ v < i
    BY <2>2, <2>3, DivisionIs
  <2>5. FromBytes(F[v]) = v
    BY <2>1, <2>4
  <2>6. F[i] = Append(F[v], x) /\ F[v] \in Seq(Digit)
    BY <1>1, <1>2, <2>2, <2>3, <2>4 DEF Positive
  <2>7. FromBytes(F[i]) = v * Base + x
    BY <2>5, <2>6, FromBytesIs
  <2> QED
    BY <2>2, <2>4, <2>7
<1>4. FromBytes(F[number]) = number
  BY <1>3
<1>5. CASE number = 0
  <2>1. <<>> \in Seq(Digit) /\ 0 \in Digit /\ Append(<<>>, 0) = <<0>>
    BY BaseIs
  <2>2. <<0>> \in Seq(Digit)
    <3>1. Append(<<>>, 0) \in Seq(Digit)
      BY <2>1
    <3> QED
      BY <2>1, <3>1
  <2>3. FromBytes(<<0>>) = 0 * Base + 0
    BY <2>1, FromBytesIs
  <2>4. 0 * Base + 0 = 0
    BY BaseIs
  <2> QED
    BY <1>1, <1>5, <2>2, <2>3, <2>4
<1>6. CASE number # 0
  BY <1>1, <1>2, <1>4, <1>6
<1> QED
  BY <1>5, <1>6

(* The place of the first byte that is not 0.                              *)
IsFirst(first, buf) ==
    first \in DOMAIN buf /\ buf[first] # 0 /\ \A j \in 1 .. first - 1 : buf[j] = 0

(* The first digit that is not 0 is where the rest begins.                 *)
LEMMA FirstIs ==
    ASSUME NEW buf \in Seq(Digit), NEW first \in Nat, IsFirst(first, buf)
    PROVE  WithoutLeadingZeros(buf) = SubSeq(buf, first, Len(buf))
<1>1. ASSUME NEW other, IsFirst(other, buf) PROVE other = first
  <2>1. first \in Nat /\ other \in Nat /\ first \in 1 .. Len(buf) /\ other \in 1 .. Len(buf)
    BY <1>1 DEF IsFirst
  <2>2. CASE first < other
    <3>1. first \in 1 .. other - 1
      BY <2>1, <2>2
    <3> QED
      BY <1>1, <3>1, Zenon DEF IsFirst
  <2>3. CASE other < first
    <3>1. other \in 1 .. first - 1
      BY <2>1, <2>3
    <3> QED
      BY <1>1, <3>1, Zenon DEF IsFirst
  <2> QED
    BY <2>1, <2>2, <2>3
<1>2. ~ \A i \in DOMAIN buf : buf[i] = 0
  BY Zenon DEF IsFirst
<1>3. (CHOOSE i \in DOMAIN buf : buf[i] # 0 /\ \A j \in 1 .. i - 1 : buf[j] = 0) = first
  BY <1>1, Zenon DEF IsFirst
<1> QED
  BY <1>2, <1>3, Zenon DEF WithoutLeadingZeros

(* The bytes of a part of some bytes. *)
LEMMA PartIs ==
    ASSUME NEW s \in Seq(Digit), NEW from \in Nat, NEW m \in Nat, from + m <= Len(s)
    PROVE  /\ SubSeq(s, from + 1, from + m) \in Seq(Digit)
           /\ Len(SubSeq(s, from + 1, from + m)) = m
           /\ \A i \in 1 .. m : SubSeq(s, from + 1, from + m)[i] = s[from + i]
<1>1. SubSeq(s, from + 1, from + m) \in Seq(Digit)
  OBVIOUS
<1>2. Len(SubSeq(s, from + 1, from + m)) = m
  OBVIOUS
<1>3. ASSUME NEW i \in 1 .. m PROVE SubSeq(s, from + 1, from + m)[i] = s[from + i]
  OBVIOUS
<1> QED
  BY <1>1, <1>2, <1>3

(* Bytes are equal when they are as many, and equal one by one. *)
LEMMA SameBytes ==
    ASSUME NEW s \in Seq(Digit), NEW t \in Seq(Digit), NEW n \in Nat, Len(s) = n, Len(t) = n,
           \A i \in 1 .. n : s[i] = t[i]
    PROVE  s = t
  OBVIOUS

(* The last byte. *)
LEMMA LastByte ==
    ASSUME NEW b \in Seq(Digit), NEW n \in Nat, Len(b) = n + 1
    PROVE  \E s \in Seq(Digit), x \in Digit : Len(s) = n /\ b = Append(s, x)
<1>1. PICK s \in Seq(Digit) : Len(s) = n /\ \A i \in 1 .. n : s[i] = b[i]
  <2>1. PICK z \in Nat : z = 0
    OBVIOUS
  <2>2. PICK s : s = SubSeq(b, z + 1, z + n)
    OBVIOUS
  <2>3. s \in Seq(Digit) /\ Len(s) = n /\ \A i \in 1 .. n : s[i] = b[z + i]
    BY <2>1, <2>2, PartIs
  <2> QED
    BY <2>1, <2>3
<1>2. PICK x \in Digit : x = b[n + 1]
  OBVIOUS
<1>3. PICK t : t = Append(s, x)
  OBVIOUS
<1>4. t \in Seq(Digit) /\ Len(t) = n + 1 /\ t[n + 1] = x /\ \A i \in 1 .. n : t[i] = s[i]
  BY <1>1, <1>3
<1>5. \A i \in 1 .. n + 1 : b[i] = t[i]
  <2> TAKE i \in 1 .. n + 1
  <2>1. i = n + 1 \/ i \in 1 .. n
    OBVIOUS
  <2> QED
    BY <1>1, <1>2, <1>4, <2>1
<1>6. b = t
  BY <1>4, <1>5, SameBytes
<1> QED
  BY <1>1, <1>3, <1>6

(* b is s and one byte more. *)
OneMore(b, s, x, n) == Len(s) = n /\ Len(b) = n + 1 /\ b[n + 1] = x /\ \A i \in 1 .. n : b[i] = s[i]

(* A part that ends with the last byte. *)
LEMMA LastPart ==
    ASSUME NEW s \in Seq(Digit), NEW x \in Digit, NEW n \in Nat,
           NEW b \in Seq(Digit), OneMore(b, s, x, n)
    PROVE  /\ \A first \in 1 .. n : SubSeq(b, first, n + 1) = Append(SubSeq(s, first, n), x)
           /\ SubSeq(b, n + 1, n + 1) = <<x>>
<1>1. b \in Seq(Digit) /\ Len(s) = n /\ Len(b) = n + 1 /\ b[n + 1] = x /\ \A i \in 1 .. n : b[i] = s[i]
  BY DEF OneMore
<1>2. ASSUME NEW first \in 1 .. n
      PROVE  SubSeq(b, first, n + 1) = Append(SubSeq(s, first, n), x)
  <2>f. PICK from \in Nat : from = first - 1
    OBVIOUS
  <2>m. PICK m \in Nat : m = n - from
    BY <2>f
  <2>0. from + 1 = first /\ from + m = n /\ from + (m + 1) = n + 1
    BY <2>f, <2>m
  <2>1. PICK u : u = SubSeq(s, from + 1, from + m)
    OBVIOUS
  <2>2. u \in Seq(Digit) /\ Len(u) = m /\ \A i \in 1 .. m : u[i] = s[from + i]
    BY <1>1, <2>0, <2>1, PartIs
  <2>3. PICK l \in Nat : l = m + 1
    OBVIOUS
  <2>4. PICK v : v = SubSeq(b, from + 1, from + l)
    OBVIOUS
  <2>5. v \in Seq(Digit) /\ Len(v) = l /\ \A i \in 1 .. l : v[i] = b[from + i]
    <3>1. b \in Seq(Digit) /\ from + l <= Len(b)
      BY <1>1, <2>0, <2>3
    <3>2. v \in Seq(Digit)
      BY <2>4, <3>1, PartIs
    <3>3. Len(v) = l
      BY <2>4, <3>1, PartIs
    <3>4. ASSUME NEW i \in 1 .. l PROVE v[i] = b[from + i]
      BY <2>4, <3>1, PartIs
    <3> QED
      BY <3>2, <3>3, <3>4
  <2>6. PICK w : w = Append(u, x)
    OBVIOUS
  <2>7. w \in Seq(Digit) /\ Len(w) = l /\ w[l] = x /\ \A i \in 1 .. m : w[i] = u[i]
    <3>1. u \in Seq(Digit) /\ Len(u) = m
      BY <2>2
    <3>2. w \in Seq(Digit) /\ Len(w) = m + 1 /\ w[m + 1] = x
      BY <2>6, <3>1
    <3>3. \A i \in 1 .. m : w[i] = u[i]
      BY <2>6, <3>1
    <3> QED
      BY <2>3, <3>2, <3>3
  <2>8. \A i \in 1 .. l : v[i] = w[i]
    <3> TAKE i \in 1 .. l
    <3>1. CASE i = l
      BY <1>1, <2>0, <2>3, <2>5, <2>7, <3>1
    <3>2. CASE i # l
      <4>1. i \in 1 .. m /\ from + i \in 1 .. n
        BY <2>0, <2>3, <3>2
      <4> QED
        BY <1>1, <2>2, <2>5, <2>7, <4>1, Zenon
    <3> QED
      BY <3>1, <3>2
  <2>9. v = w
    BY <2>5, <2>7, <2>8, SameBytes
  <2> QED
    BY <2>0, <2>1, <2>3, <2>4, <2>6, <2>9
<1>3. SubSeq(b, n + 1, n + 1) = <<x>>
  <2>1. PICK o \in Nat : o = 1
    OBVIOUS
  <2>2. PICK v : v = SubSeq(b, n + 1, n + o)
    OBVIOUS
  <2>3. v \in Seq(Digit) /\ Len(v) = o /\ \A i \in 1 .. o : v[i] = b[n + i]
    BY <1>1, <2>1, <2>2, PartIs
  <2>4. PICK t : t = <<x>>
    OBVIOUS
  <2>5. t \in Seq(Digit) /\ Len(t) = o /\ t[o] = x
    BY <2>1, <2>4
  <2>6. \A i \in 1 .. o : v[i] = t[i]
    BY <1>1, <2>1, <2>3, <2>5
  <2>7. v = t
    BY <2>3, <2>5, <2>6, SameBytes
  <2> QED
    BY <2>1, <2>2, <2>4, <2>7
<1> QED
  BY <1>2, <1>3

(* Append() adds the last digit.                                           *)
LEMMA AppendedDigit ==
    ASSUME NEW s \in Seq(Digit), NEW x \in Digit, NEW n \in Nat, Len(s) = n
    PROVE  OneMore(Append(s, x), s, x, n)
<1>1. Len(Append(s, x)) = n + 1 /\ Append(s, x)[n + 1] = x
  OBVIOUS
<1>2. \A i \in 1 .. n : Append(s, x)[i] = s[i]
  OBVIOUS
<1> QED
  BY <1>1, <1>2 DEF OneMore

(* The number of some bytes has those bytes, without the zeros in front.   *)
LEMMA ToBytesOfFromBytes ==
    ASSUME NEW buf \in Seq(Digit)
    PROVE  ToBytes(FromBytes(buf)) = WithoutLeadingZeros(buf)
<1>1. PICK F \in [Nat -> Seq(Digit)] :
        /\ F[0] = <<>>
        /\ \A i \in Positive : F[i] = Append(F[i \div Base], i % Base)
        /\ \A i \in Nat : ToBytes(i) = IF i = 0 THEN <<0>> ELSE F[i]
  BY BytesAre
<1> DEFINE Zero(s) == FromBytes(s) = 0 /\ \A i \in DOMAIN s : s[i] = 0
           Found(s) == \E first \in Nat : IsFirst(first, s) /\ FromBytes(s) # 0
                            /\ F[FromBytes(s)] = SubSeq(s, first, Len(s))
           S == {n \in Nat : \A s \in Seq(Digit) : Len(s) = n => Zero(s) \/ Found(s)}
<1>2. 0 \in S
  <2>1. ASSUME NEW s \in Seq(Digit), Len(s) = 0 PROVE Zero(s)
    <3>1. s = <<>> /\ DOMAIN s = {}
      BY <2>1
    <3> QED
      BY <3>1, FromBytesIs
  <2> HIDE DEF Zero, Found
  <2> QED
    BY <2>1
<1>3. ASSUME NEW n \in Nat, n \in S PROVE n + 1 \in S
  <2>1. ASSUME NEW b \in Seq(Digit), Len(b) = n + 1 PROVE Zero(b) \/ Found(b)
    <3>1. PICK s \in Seq(Digit), x \in Digit : b = Append(s, x) /\ Len(s) = n
      BY <2>1, LastByte
    <3>2. PICK v \in Nat : v = FromBytes(s)
      BY FromBytesIs
    <3>3. PICK w \in Nat : w = v * Base + x /\ w \div Base = v /\ w % Base = x /\ (w = 0 <=> v = 0 /\ x = 0)
      BY QuotientIs
    <3>4. FromBytes(b) = w
      BY <3>1, <3>2, <3>3, FromBytesIs
    <3>o. OneMore(b, s, x, n)
      BY <3>1, AppendedDigit
    <3>5. DOMAIN b = 1 .. n + 1 /\ DOMAIN s = 1 .. n /\ b[n + 1] = x /\ \A i \in 1 .. n : b[i] = s[i]
      <4>1. DOMAIN b = 1 .. n + 1 /\ DOMAIN s = 1 .. n
        BY <2>1, <3>1
      <4> HIDE DEF Zero, Found
      <4> QED
        BY <4>1, <3>o, Zenon DEF OneMore
    <3>6. w # 0 => F[w] = Append(F[v], x)
      BY <1>1, <3>3 DEF Positive
    <3>s. /\ \A first \in 1 .. n : SubSeq(b, first, n + 1) = Append(SubSeq(s, first, n), x)
          /\ SubSeq(b, n + 1, n + 1) = <<x>>
      <4> HIDE DEF Zero, Found
      <4>2. \A first \in 1 .. n : SubSeq(b, first, n + 1) = Append(SubSeq(s, first, n), x)
        BY <3>o, LastPart, Zenon
      <4>3. SubSeq(b, n + 1, n + 1) = <<x>>
        BY <3>o, LastPart, Zenon
      <4> QED
        BY <4>2, <4>3
    <3>7. Zero(s) \/ Found(s)
      <4> HIDE DEF Zero, Found
      <4> QED
        BY <1>3, <3>1
    <3>8. CASE Zero(s)
      <4>1. v = 0 /\ \A i \in 1 .. n : b[i] = 0
        BY <3>2, <3>5, <3>8
      <4>2. CASE x = 0
        <5>1. w = 0
          BY <3>3, <4>1, <4>2
        <5>2. \A i \in 1 .. n + 1 : b[i] = 0
          BY <3>5, <4>1, <4>2
        <5> QED
          BY <3>4, <3>5, <5>1, <5>2
      <4>3. CASE x # 0
        <5>1. w # 0 /\ n + 1 \in Nat /\ (n + 1) - 1 = n
          BY <3>3, <4>3
        <5>2. IsFirst(n + 1, b)
          BY <3>5, <4>1, <4>3 DEF IsFirst
        <5>3. F[w] = <<x>>
          <6>1. F[w] = Append(<<>>, x)
            BY <1>1, <3>6, <4>1, <5>1
          <6> QED
            BY <6>1
        <5>4. SubSeq(b, n + 1, Len(b)) = <<x>>
          BY <2>1, <3>s, Zenon
        <5> QED
          BY <3>4, <5>1, <5>2, <5>3, <5>4, Zenon
      <4> QED
        BY <4>2, <4>3
    <3>9. CASE Found(s)
      <4>1. PICK first \in Nat : IsFirst(first, s) /\ v # 0 /\ F[v] = SubSeq(s, first, n)
        BY <3>1, <3>2, <3>9, Zenon
      <4>2. first \in 1 .. n /\ s[first] # 0 /\ \A j \in 1 .. first - 1 : s[j] = 0
        BY <3>5, <4>1, Zenon DEF IsFirst
      <4>3. IsFirst(first, b)
        <5>1. first \in 1 .. n + 1 /\ \A j \in 1 .. first - 1 : j \in 1 .. n
          BY <4>2
        <5> QED
          BY <3>5, <4>2, <5>1, Zenon DEF IsFirst
      <4>4. w # 0
        BY <3>3, <4>1
      <4>5. SubSeq(b, first, Len(b)) = Append(SubSeq(s, first, n), x)
        BY <2>1, <3>s, <4>2, Zenon
      <4> QED
        BY <3>4, <3>6, <4>1, <4>3, <4>4, <4>5, Zenon
    <3> HIDE DEF Zero, Found
    <3> QED
      BY <3>7, <3>8, <3>9
  <2> HIDE DEF Zero, Found
  <2> QED
    BY <2>1
<1>4. Zero(buf) \/ Found(buf)
  <2>1. \A n \in Nat : n \in S
    <3> HIDE DEF S
    <3> QED
      BY <1>2, <1>3, Successive
  <2>2. Len(buf) \in Nat
    OBVIOUS
  <2> HIDE DEF Zero, Found
  <2> QED
    BY <2>1, <2>2
<1>5. PICK v \in Nat : v = FromBytes(buf)
  BY FromBytesIs
<1>6. CASE Zero(buf)
  BY <1>1, <1>5, <1>6, Zenon DEF WithoutLeadingZeros
<1>7. CASE Found(buf)
  <2>1. PICK first \in Nat : IsFirst(first, buf) /\ v # 0 /\ F[v] = SubSeq(buf, first, Len(buf))
    BY <1>5, <1>7, Zenon
  <2>2. WithoutLeadingZeros(buf) = F[v]
    BY <2>1, FirstIs
  <2> QED
    BY <1>1, <1>5, <2>1, <2>2, Zenon
<1> QED
  BY <1>4, <1>6, <1>7

(* What rsa_encrypt() and rsa_decrypt() do to bytes is a power of their    *)
(* number.                                                                 *)
LEMMA CryptIs ==
    ASSUME NEW n \in Positive, NEW e \in Nat, NEW buf \in Seq(Digit), FromBytes(buf) < n
    PROVE  /\ Crypt(buf, e, n) = ToBytes(Pow(FromBytes(buf), e, n))
           /\ Crypt(buf, e, n) \in Seq(Digit)
           /\ FromBytes(Crypt(buf, e, n)) = Pow(FromBytes(buf), e, n)
<1>1. PICK x \in Int : x = FromBytes(buf)
  BY FromBytesIs
<1>2. PICK y \in Nat : y = Pow(x, e, n)
  <2>1. Pow(x, e, n) \in Nat
    BY PowType
  <2> QED
    BY <2>1
<1>3. ModExp(x, e, n) = y
  BY <1>2, BySquaring
<1>4. ~(x >= n)
  BY <1>1 DEF Positive
<1>5. Crypt(buf, e, n) = ToBytes(y)
  BY <1>1, <1>3, <1>4, Zenon DEF Crypt
<1> QED
  BY <1>1, <1>2, <1>5, FromBytesOfToBytes

(* With keys of two different primes, decryption inverts encryption.       *)
LEMMA CryptInverts ==
    ASSUME NEW p, Prime(p), NEW q, Prime(q), p # q,
           NEW d, d = ModInv((p - 1) * (q - 1)), d # NULL,
           NEW buf \in Seq(Digit), FromBytes(buf) < p * q
    PROVE  Crypt(Crypt(buf, 3, p * q), d, p * q) = WithoutLeadingZeros(buf)
<1>1. PICK n \in Positive : n = p * q
  <2>1. p \in Nat /\ q \in Nat /\ p > 1 /\ q > 1
    BY DEF Prime, IsPrime
  <2>2. p * q \in Nat /\ p * q > 0
    BY <2>1
  <2> QED
    BY <2>2 DEF Positive
<1>2. d \in Positive
  <2>1. (p - 1) * (q - 1) \in Positive
    <3>1. p \in Nat /\ q \in Nat /\ p > 1 /\ q > 1
      BY DEF Prime, IsPrime
    <3>2. (p - 1) * (q - 1) \in Nat /\ (p - 1) * (q - 1) > 0
      BY <3>1
    <3> QED
      BY <3>2 DEF Positive
  <2> QED
    BY <2>1, ModInvIs
<1>3. PICK x \in 0 .. n - 1 : x = FromBytes(buf)
  <2>1. FromBytes(buf) \in Nat /\ FromBytes(buf) < n
    BY <1>1, FromBytesIs
  <2> QED
    BY <2>1 DEF Positive
<1>4. PICK c : c = Crypt(buf, 3, n)
  OBVIOUS
<1>5. c \in Seq(Digit) /\ FromBytes(c) = Pow(x, 3, n)
  <2>1. FromBytes(buf) < n /\ 3 \in Nat
    BY <1>1
  <2> QED
    BY <1>3, <1>4, <2>1, CryptIs, Zenon
<1>6. FromBytes(c) < n
  <2>1. x \in Int /\ 3 \in Nat
    BY DEF Positive
  <2>2. Pow(x, 3, n) \in 0 .. n - 1
    BY <2>1, PowType
  <2> QED
    BY <1>5, <2>2 DEF Positive
<1>7. Crypt(c, d, n) = ToBytes(Pow(Pow(x, 3, n), d, n))
  <2>1. d \in Nat
    BY <1>2 DEF Positive
  <2>2. Crypt(c, d, n) = ToBytes(Pow(FromBytes(c), d, n))
    BY <1>5, <1>6, <2>1, CryptIs, Zenon
  <2> QED
    BY <1>5, <2>2
<1>8. Pow(Pow(x, 3, n), d, n) = x
  BY <1>1, RsaInverts, Zenon
<1> QED
  BY <1>1, <1>3, <1>4, <1>7, <1>8, ToBytesOfFromBytes

(* With keys of a prime drawn twice, it forgets the prime.                 *)
LEMMA CryptForgets ==
    ASSUME NEW p, Prime(p), NEW d \in Positive, NEW buf \in Seq(Digit), FromBytes(buf) = p
    PROVE  FromBytes(buf) < p * p /\ Crypt(Crypt(buf, 3, p * p), d, p * p) = <<0>>
<1>1. PICK n \in Positive : n = p * p /\ p < n
  <2>1. p \in Nat /\ p > 1
    BY DEF Prime, IsPrime
  <2>2. p * p \in Nat /\ p * p > p
    BY <2>1
  <2> QED
    BY <2>1, <2>2 DEF Positive
<1>2. Pow(p, 3, n) = 0 /\ Pow(0, d, n) = 0
  BY <1>1, SquareForgets
<1>3. PICK c : c = Crypt(buf, 3, n)
  OBVIOUS
<1>4. c \in Seq(Digit) /\ FromBytes(c) = 0
  <2>1. FromBytes(buf) < n /\ 3 \in Nat
    BY <1>1
  <2>2. c \in Seq(Digit) /\ FromBytes(c) = Pow(FromBytes(buf), 3, n)
    BY <1>3, <2>1, CryptIs, Zenon
  <2> QED
    BY <1>2, <2>2
<1>5. Crypt(c, d, n) = ToBytes(0)
  <2>1. FromBytes(c) < n /\ d \in Nat
    BY <1>4 DEF Positive
  <2>2. Crypt(c, d, n) = ToBytes(Pow(FromBytes(c), d, n))
    BY <1>4, <2>1, CryptIs, Zenon
  <2> QED
    BY <1>2, <1>4, <2>2
<1>6. ToBytes(0) = <<0>>
  BY Zenon DEF ToBytes
<1> QED
  BY <1>1, <1>3, <1>5, <1>6

(***************************************************************************)
(* What the keys are: the numbers they hold.                               *)
(***************************************************************************)

(* The numbers of the last iteration of the loop, as the variables hold    *)
(* them from block to block, and the keys in the end.                      *)
Phi == (primes[1] - 1) * (primes[2] - 1)
Product == primes[1] * primes[2]

DrawnInv ==
    pc \in {"coprime", "exponents", "modulus", "keys"} =>
        /\ primes[1] \in Int /\ primes[2] \in Int
        /\ local["p"].val = primes[1] /\ local["q"].val = primes[2]
        /\ local["p_1"].val = primes[1] - 1 /\ local["q_1"].val = primes[2] - 1

ExponentsInv ==
    pc \in {"modulus", "keys"} =>
        local["e"].val = 3 /\ local["d"].val = ModInv(Phi) /\ ModInv(Phi) # NULL

ModulusInv == pc = "keys" => local["n"].val = Product /\ local["ndup"].val = Product

KeysInv ==
    privk # NULL =>
        /\ primes[1] \in Int /\ primes[2] \in Int
        /\ pubk.e.val = 3 /\ privk.d.val = ModInv(Phi) /\ ModInv(Phi) # NULL
        /\ privk.n.val = Product /\ pubk.n.val = Product

ValuesInv == DrawnInv /\ ExponentsInv /\ ModulusInv /\ KeysInv

(* A variable that is not NULL holds the number it was set to, and the     *)
(* others are left alone.                                                  *)
LEMMA AllocatedValue ==
    ASSUME NullIsNoNumber, NEW made, DOMAIN made.local = Locals, NEW x \in Locals, NEW value
    PROVE  /\ DOMAIN Allocated(made, x, value).local = Locals
           /\ \A y \in Locals : y # x => Allocated(made, x, value).local[y] = made.local[y]
           /\ value # NULL => Allocated(made, x, value).local[x].val = value
           /\ Allocated(made, x, value).local[x] = NULL <=> value = NULL
<1>1. CASE value = NULL
  BY <1>1 DEF Allocated
<1>2. CASE value # NULL
  BY <1>2 DEF Allocated, NullIsNoNumber
<1> QED
  BY <1>1, <1>2

(* The four numbers of an iteration.                                       *)
LEMMA DrawnValues ==
    ASSUME NullIsNoNumber, NEW made, DOMAIN made.local = Locals,
           NEW p, NEW q, NEW p_1, NEW q_1, NEW l, l = Drawn(made, p, q, p_1, q_1).local
    PROVE  /\ l["p"] # NULL => p # NULL /\ l["p"].val = p
           /\ l["q"] # NULL => q # NULL /\ l["q"].val = q
           /\ l["p_1"] # NULL => p_1 # NULL /\ l["p_1"].val = p_1
           /\ l["q_1"] # NULL => q_1 # NULL /\ l["q_1"].val = q_1
<1> DEFINE M1 == Allocated(made, "p", p)
           M2 == Allocated(M1, "q", q)
           M3 == Allocated(M2, "p_1", p_1)
           M4 == Allocated(M3, "q_1", q_1)
<1>0. "p" \in Locals /\ "q" \in Locals /\ "p_1" \in Locals /\ "q_1" \in Locals
  BY DEF Locals
<1>6. l = M4.local
  BY DEF Drawn
<1>1. /\ DOMAIN M1.local = Locals
      /\ p # NULL => M1.local["p"].val = p
      /\ M1.local["p"] = NULL <=> p = NULL
  BY <1>0, AllocatedValue
<1> HIDE DEF M1
<1>2. /\ DOMAIN M2.local = Locals
      /\ \A y \in Locals : y # "q" => M2.local[y] = M1.local[y]
      /\ q # NULL => M2.local["q"].val = q
      /\ M2.local["q"] = NULL <=> q = NULL
  BY <1>0, <1>1, AllocatedValue
<1> HIDE DEF M2
<1>3. /\ DOMAIN M3.local = Locals
      /\ \A y \in Locals : y # "p_1" => M3.local[y] = M2.local[y]
      /\ p_1 # NULL => M3.local["p_1"].val = p_1
      /\ M3.local["p_1"] = NULL <=> p_1 = NULL
  BY <1>0, <1>2, AllocatedValue
<1> HIDE DEF M3
<1>4. /\ DOMAIN M4.local = Locals
      /\ \A y \in Locals : y # "q_1" => M4.local[y] = M3.local[y]
      /\ q_1 # NULL => M4.local["q_1"].val = q_1
      /\ M4.local["q_1"] = NULL <=> q_1 = NULL
  BY <1>0, <1>3, AllocatedValue
<1> HIDE DEF M4
<1>7. /\ M4.local["p"] = M1.local["p"] /\ M4.local["q"] = M2.local["q"]
      /\ M4.local["p_1"] = M3.local["p_1"]
  BY <1>0, <1>2, <1>3, <1>4
<1> QED
  BY <1>1, <1>2, <1>3, <1>4, <1>6, <1>7

(* ValuesInv is inductive, given IInv: one lemma per action that sets a    *)
(* variable or a key.                                                      *)
LEMMA ValuesDrawPrimes ==
    ASSUME NullIsNoNumber, IInv, ValuesInv, DrawPrimes
    PROVE  ValuesInv'
<1>1. pc \in Generating /\ privk = NULL /\ DOMAIN local = Locals
  BY IInvOfVariables DEF DrawPrimes, Generating
<1> DEFINE made == Before(local, Freed(local, frees, <<"q_1", "p_1", "q", "p">>))
<1>2. made.local = local
  BY DEF Before
<1> HIDE DEF made
<1>3. PICK p, q \in ProbablePrimes(Bits) \union {NULL}, noP_1, noQ_1 \in BOOLEAN :
        /\ Become(Drawn(made, p, q, OneLess(p, noP_1), OneLess(q, noQ_1)))
        /\ primes' = <<p, q>>
  BY Zenon DEF DrawPrimes, made
<1>4. /\ privk' = NULL
      /\ pc' = IF Missing(Four) THEN "cleanup" ELSE "coprime"
  BY <1>1 DEF DrawPrimes, Four
<1>5. primes'[1] = p /\ primes'[2] = q
  BY <1>3
<1>6. CASE ~ Missing(Four)
  <2>1. local' = Drawn(made, p, q, OneLess(p, noP_1), OneLess(q, noQ_1)).local
    BY <1>3 DEF Become
  <2>2. local'["p"] # NULL /\ local'["q"] # NULL /\ local'["p_1"] # NULL /\ local'["q_1"] # NULL
    BY <1>6 DEF Missing, Four
  <2>3. /\ p # NULL /\ local'["p"].val = p
        /\ q # NULL /\ local'["q"].val = q
        /\ OneLess(p, noP_1) # NULL /\ local'["p_1"].val = OneLess(p, noP_1)
        /\ OneLess(q, noQ_1) # NULL /\ local'["q_1"].val = OneLess(q, noQ_1)
    BY <1>1, <1>2, <2>1, <2>2, DrawnValues
  <2>4. OneLess(p, noP_1) = p - 1 /\ OneLess(q, noQ_1) = q - 1
    BY <2>3 DEF OneLess
  <2>5. p \in Int /\ q \in Int
    BY <2>3 DEF ProbablePrimes, OddTop2
  <2> QED
    BY <1>4, <1>5, <1>6, <2>3, <2>4, <2>5
       DEF ValuesInv, DrawnInv, ExponentsInv, ModulusInv, KeysInv
<1>7. CASE Missing(Four)
  BY <1>4, <1>7 DEF ValuesInv, DrawnInv, ExponentsInv, ModulusInv, KeysInv
<1> QED
  BY <1>6, <1>7

(* 3 and its inverse.                                                      *)
LEMMA ValuesExponents ==
    ASSUME NullIsNoNumber, IInv, ValuesInv, Exponents
    PROVE  ValuesInv'
<1>1. pc \in Generating /\ privk = NULL /\ DOMAIN local = Locals
  BY IInvOfVariables DEF Exponents, Generating
<1>2. privk' = NULL /\ primes' = primes /\ pc' \in {"cleanup", "modulus"}
  BY <1>1 DEF Exponents
<1>3. CASE pc' = "cleanup"
  BY <1>2, <1>3 DEF ValuesInv, DrawnInv, ExponentsInv, ModulusInv, KeysInv
<1>4. CASE pc' = "modulus"
  <2>1. /\ primes[1] \in Int /\ primes[2] \in Int
        /\ local["p"].val = primes[1] /\ local["q"].val = primes[2]
        /\ local["p_1"].val = primes[1] - 1 /\ local["q_1"].val = primes[2] - 1
    BY DEF Exponents, ValuesInv, DrawnInv
  <2>2. PICK made : made = Before(local, frees)
    OBVIOUS
  <2>3. made.local = local
    BY <2>2 DEF Before
  <2>4. PICK d \in {NULL, ModInv(Phi)} :
            /\ Become(Allocated(Allocated(Allocated(made, "phi", Phi), "e", 3), "d", d))
            /\ d # NULL
    BY <1>4, <2>1, <2>2 DEF Exponents, Phi
  <2> DEFINE M1 == Allocated(made, "phi", Phi)
             M2 == Allocated(M1, "e", 3)
             M3 == Allocated(M2, "d", d)
  <2>5. "phi" \in Locals /\ "e" \in Locals /\ "d" \in Locals
    BY DEF Locals
  <2>6. local' = M3.local
    BY <2>4 DEF Become
  <2> HIDE DEF Phi
  <2>7. DOMAIN M1.local = Locals /\ \A y \in Locals : y # "phi" => M1.local[y] = local[y]
    BY <1>1, <2>3, <2>5, AllocatedValue
  <2> HIDE DEF M1
  <2>8. /\ DOMAIN M2.local = Locals
        /\ \A y \in Locals : y # "e" => M2.local[y] = M1.local[y]
        /\ 3 # NULL => M2.local["e"].val = 3
    BY <2>5, <2>7, AllocatedValue
  <2> HIDE DEF M2
  <2>9. /\ \A y \in Locals : y # "d" => M3.local[y] = M2.local[y]
        /\ M3.local["d"].val = d
    BY <2>4, <2>5, <2>8, AllocatedValue
  <2> HIDE DEF M3
  <2>10. local'["e"].val = 3 /\ local'["d"].val = ModInv(Phi) /\ ModInv(Phi) # NULL
    BY <2>4, <2>5, <2>6, <2>8, <2>9 DEF NullIsNoNumber
  <2>11. \A y \in {"p", "q", "p_1", "q_1"} : local'[y] = local[y]
    BY <2>6, <2>7, <2>8, <2>9 DEF Locals
  <2>12. DrawnInv'
    BY <1>2, <2>1, <2>11 DEF DrawnInv
  <2>13. Phi' = Phi
    BY <1>2 DEF Phi
  <2> QED
    BY <1>2, <1>4, <2>10, <2>12, <2>13 DEF ValuesInv, ExponentsInv, ModulusInv, KeysInv
<1> QED
  BY <1>2, <1>3, <1>4

(* The product, and its copy.                                              *)
LEMMA ValuesModulus ==
    ASSUME NullIsNoNumber, IInv, ValuesInv, Modulus
    PROVE  ValuesInv'
<1>1. pc \in Generating /\ privk = NULL /\ DOMAIN local = Locals
  BY IInvOfVariables DEF Modulus, Generating
<1>2. privk' = NULL /\ primes' = primes /\ pc' \in {"cleanup", "keys"}
  BY <1>1 DEF Modulus
<1>3. CASE pc' = "cleanup"
  BY <1>2, <1>3 DEF ValuesInv, DrawnInv, ExponentsInv, ModulusInv, KeysInv
<1>4. CASE pc' = "keys"
  <2>1. DrawnInv /\ ExponentsInv /\ pc = "modulus"
    BY DEF Modulus, ValuesInv
  <2>2. local["p"].val * local["q"].val = Product
    BY <2>1 DEF DrawnInv, Product
  <2>3. PICK made : made = Before(local, frees)
    OBVIOUS
  <2>4. made.local = local
    BY <2>3 DEF Before
  <2>5. PICK n, ndup : /\ Become(Allocated(Allocated(made, "n", n), "ndup", ndup))
                       /\ ndup # NULL
                       /\ n = Product /\ ndup = Product
    BY <1>4, <2>2, <2>3 DEF Modulus
  <2> DEFINE M1 == Allocated(made, "n", n)
             M2 == Allocated(M1, "ndup", ndup)
  <2>6. "n" \in Locals /\ "ndup" \in Locals
    BY DEF Locals
  <2>7. local' = M2.local
    BY <2>5 DEF Become
  <2>8. /\ DOMAIN M1.local = Locals
        /\ \A y \in Locals : y # "n" => M1.local[y] = local[y]
        /\ n # NULL => M1.local["n"].val = n
    BY <1>1, <2>4, <2>6, AllocatedValue
  <2> HIDE DEF M1
  <2>9. /\ \A y \in Locals : y # "ndup" => M2.local[y] = M1.local[y]
        /\ ndup # NULL => M2.local["ndup"].val = ndup
    BY <2>6, <2>8, AllocatedValue
  <2> HIDE DEF M2
  <2>10. local'["n"].val = Product /\ local'["ndup"].val = Product
    BY <2>5, <2>6, <2>7, <2>8, <2>9
  <2>11. \A y \in {"p", "q", "p_1", "q_1", "e", "d"} : local'[y] = local[y]
    BY <2>7, <2>8, <2>9 DEF Locals
  <2>12. Phi' = Phi /\ Product' = Product
    BY <1>2 DEF Phi, Product
  <2>13. DrawnInv'
    BY <1>2, <2>1, <2>11 DEF DrawnInv
  <2>14. ExponentsInv'
    BY <2>1, <2>11, <2>12 DEF ExponentsInv
  <2> QED
    BY <1>2, <2>10, <2>12, <2>13, <2>14 DEF ValuesInv, ModulusInv, KeysInv
<1> QED
  BY <1>2, <1>3, <1>4

(* The keys get what the variables had.                                    *)
LEMMA ValuesKeysSucceed ==
    ASSUME NullIsNoNumber, ValuesInv, KeysSucceed
    PROVE  ValuesInv'
<1>1. /\ pc = "keys" /\ pc' = "cleanup" /\ primes' = primes
      /\ privk' = [d |-> local["d"], n |-> local["n"]]
      /\ pubk' = [e |-> local["e"], n |-> local["ndup"]]
  BY DEF KeysSucceed
<1>2. /\ privk'.d = local["d"] /\ privk'.n = local["n"]
      /\ pubk'.e = local["e"] /\ pubk'.n = local["ndup"]
  BY <1>1
<1>3. DrawnInv /\ ExponentsInv /\ ModulusInv
  BY DEF ValuesInv
<1>4. Phi' = Phi /\ Product' = Product
  BY <1>1 DEF Phi, Product
<1>5. KeysInv'
  BY <1>1, <1>2, <1>3, <1>4 DEF KeysInv, DrawnInv, ExponentsInv, ModulusInv
<1> QED
  BY <1>1, <1>5 DEF ValuesInv, DrawnInv, ExponentsInv, ModulusInv

(* The other actions set no variable but to NULL, and no key but to NULL.  *)
LEMMA ValuesOthers ==
    ASSUME ValuesInv, \/ Start \/ Coprime \/ KeysFail \/ FreeLocal \/ LeaveKeygen
                      \/ FreeKeys \/ UNCHANGED vars
    PROVE  ValuesInv'
<1>1. primes' = primes /\ Phi' = Phi /\ Product' = Product
  BY DEF Start, Coprime, KeysFail, FreeLocal, LeaveKeygen, FreeKeys, vars, Phi, Product
<1>2. privk' = NULL \/ (privk' = privk /\ pubk' = pubk)
  BY DEF Start, Coprime, KeysFail, FreeLocal, LeaveKeygen, FreeKeys, vars
<1>3. KeysInv'
  BY <1>1, <1>2 DEF ValuesInv, KeysInv
<1>4. CASE Start \/ KeysFail \/ FreeLocal \/ LeaveKeygen \/ FreeKeys
  <2>1. pc' \notin {"coprime", "exponents", "modulus", "keys"}
    BY <1>4 DEF Start, KeysFail, FreeLocal, LeaveKeygen, FreeKeys
  <2> QED
    BY <1>3, <2>1 DEF ValuesInv, DrawnInv, ExponentsInv, ModulusInv
<1>5. CASE Coprime
  <2>1. pc = "coprime" /\ pc' \in {"primes", "exponents"} /\ local' = local
    BY <1>5 DEF Coprime
  <2> QED
    BY <1>1, <1>3, <2>1 DEF ValuesInv, DrawnInv, ExponentsInv, ModulusInv
<1>6. CASE UNCHANGED vars
  <2>1. pc' = pc /\ local' = local
    BY <1>6 DEF vars
  <2> QED
    BY <1>1, <1>3, <2>1 DEF ValuesInv, DrawnInv, ExponentsInv, ModulusInv
<1> QED
  BY <1>4, <1>5, <1>6

(* The keys hold what they should.                                         *)
LEMMA ValuesAlways == NullIsNoNumber => (Spec => []ValuesInv)
<1> SUFFICES ASSUME NullIsNoNumber
             PROVE  Spec => []ValuesInv
  OBVIOUS
<1>1. Init => ValuesInv
  BY DEF Init, ValuesInv, DrawnInv, ExponentsInv, ModulusInv, KeysInv
<1>2. IInv /\ ValuesInv /\ [Next]_vars => ValuesInv'
  BY ValuesDrawPrimes, ValuesExponents, ValuesModulus, ValuesKeysSucceed, ValuesOthers DEF Next
<1> QED
  BY <1>1, <1>2, IInvAlways, PTL DEF Spec

(***************************************************************************)
(* The keys work.                                                          *)
(***************************************************************************)

(* What was encrypted with the keys of two different primes is decrypted   *)
(* to what it was, whatever its length: up to the zero bytes it begins     *)
(* with, and when it is below the modulus.                                 *)
KeysInvert ==
    /\ pc = "returned" /\ privk # NULL
    /\ IsPrime(primes[1]) /\ IsPrime(primes[2]) /\ primes[1] # primes[2]
    => \A buf \in Seq(Digit) :
            FromBytes(buf) < pubk.n.val => Decrypt(Encrypt(buf)) = WithoutLeadingZeros(buf)

(* With keys of two primes, a text comes back.                             *)
LEMMA KeysOfTwoPrimes ==
    ASSUME ValuesInv, privk # NULL, IsPrime(primes[1]), IsPrime(primes[2]), primes[1] # primes[2],
           NEW buf \in Seq(Digit), FromBytes(buf) < pubk.n.val
    PROVE  Decrypt(Encrypt(buf)) = WithoutLeadingZeros(buf)
<1>1. PICK p, q, d : p = primes[1] /\ q = primes[2] /\ d = ModInv(Phi)
  OBVIOUS
<1>2. /\ pubk.e.val = 3 /\ privk.d.val = d /\ d # NULL
      /\ privk.n.val = p * q /\ pubk.n.val = p * q
      /\ p \in Int /\ q \in Int
  BY <1>1 DEF ValuesInv, KeysInv, Product
<1>3. d = ModInv((p - 1) * (q - 1))
  BY <1>1 DEF Phi
<1>4. Prime(p) /\ Prime(q) /\ p # q
  BY <1>1, <1>2 DEF Prime, IsPrime
<1>5. FromBytes(buf) < p * q
  BY <1>2
<1>6. Crypt(Crypt(buf, 3, p * q), d, p * q) = WithoutLeadingZeros(buf)
  BY <1>2, <1>3, <1>4, <1>5, CryptInverts, Zenon
<1> QED
  BY <1>2, <1>6 DEF Encrypt, Decrypt

(* The bytes of a number that is not 0 are more than a single 0.           *)
LEMMA NotJustZero ==
    ASSUME NEW buf \in Seq(Digit), FromBytes(buf) # 0
    PROVE  WithoutLeadingZeros(buf) # <<0>>
<1>1. PICK p \in Nat : p = FromBytes(buf) /\ p # 0
  BY FromBytesIs
<1>2. ToBytes(p) = WithoutLeadingZeros(buf) /\ FromBytes(ToBytes(p)) = p
  BY <1>1, ToBytesOfFromBytes, FromBytesOfToBytes
<1>3. FromBytes(<<0>>) = 0
  <2>1. PICK z \in Digit : z = 0
    BY BaseIs
  <2>2. <<>> \in Seq(Digit)
    OBVIOUS
  <2>3. FromBytes(Append(<<>>, z)) = FromBytes(<<>>) * Base + z
    BY <2>2, FromBytesIs, Zenon
  <2>4. Append(<<>>, z) = <<0>>
    BY <2>1
  <2> QED
    BY <2>1, <2>3, <2>4, FromBytesIs, BaseIs
<1> QED
  BY <1>1, <1>2, <1>3

(* A number below 2 * Base as one byte, or as 1 and a byte.                *)
LEMMA SmallNumber ==
    ASSUME NEW p \in Nat, p < 2 * Base
    PROVE  \E buf \in Seq(Digit) :
                /\ FromBytes(buf) = p
                /\ \/ \E x \in Digit : buf = <<x>>
                   \/ \E x \in Digit : buf = <<1, x>>
<1>0. Base \in Nat /\ Base > 1
  BY BaseIs
<1>1. ASSUME NEW x \in Digit
      PROVE  <<x>> \in Seq(Digit) /\ FromBytes(<<x>>) = x
  <2>1. <<>> \in Seq(Digit) /\ FromBytes(<<>>) = 0
    BY FromBytesIs
  <2>2. FromBytes(Append(<<>>, x)) = FromBytes(<<>>) * Base + x
    BY <2>1, FromBytesIs, Zenon
  <2>3. Append(<<>>, x) = <<x>>
    OBVIOUS
  <2>4. 0 * Base + x = x
    BY <1>0 DEF Digit
  <2> QED
    BY <2>1, <2>2, <2>3, <2>4
<1>2. CASE p < Base
  <2>1. p \in Digit
    BY <1>2, <1>0 DEF Digit
  <2> QED
    BY <2>1, <1>1
<1>3. CASE p >= Base
  <2>1. PICK x \in Digit : x = p - Base
    BY <1>0, <1>3 DEF Digit
  <2>2. PICK o \in Digit : o = 1
    BY <1>0 DEF Digit
  <2>3. <<o>> \in Seq(Digit) /\ FromBytes(<<o>>) = o
    BY <1>1
  <2>4. FromBytes(Append(<<o>>, x)) = FromBytes(<<o>>) * Base + x
    BY <2>3, FromBytesIs, Zenon
  <2>8. <<o, x>> \in Seq(Digit)
    OBVIOUS
  <2>5. Append(<<o>>, x) = <<o, x>>
    <3>1. /\ Append(<<o>>, x) \in Seq(Digit) /\ Len(Append(<<o>>, x)) = 2
          /\ Append(<<o>>, x)[1] = o /\ Append(<<o>>, x)[2] = x
      BY <2>3
    <3>2. Len(<<o, x>>) = 2 /\ <<o, x>>[1] = o /\ <<o, x>>[2] = x
      OBVIOUS
    <3>3. \A i \in 1 .. 2 : Append(<<o>>, x)[i] = <<o, x>>[i]
      BY <3>1, <3>2
    <3> QED
      BY <2>8, <3>1, <3>2, <3>3, SameBytes
  <2>6. 1 * Base + x = p
    BY <1>0, <2>1
  <2>7. FromBytes(<<o, x>>) = p
    BY <2>2, <2>3, <2>4, <2>5, <2>6
  <2> QED
    BY <2>2, <2>7, <2>8
<1> QED
  BY <1>0, <1>2, <1>3

(* With keys of a prime drawn twice, the prime is decrypted to 0.          *)
LEMMA KeysOfOnePrime ==
    ASSUME ValuesInv, privk # NULL, IsPrime(primes[1]), primes[1] = primes[2],
           NEW buf \in Seq(Digit), FromBytes(buf) = primes[1]
    PROVE  FromBytes(buf) < pubk.n.val /\ Decrypt(Encrypt(buf)) = <<0>>
<1>1. PICK p, d : p = primes[1] /\ d = ModInv(Phi)
  OBVIOUS
<1>2. /\ pubk.e.val = 3 /\ privk.d.val = d /\ d # NULL
      /\ privk.n.val = p * p /\ pubk.n.val = p * p
      /\ p \in Int
  BY <1>1 DEF ValuesInv, KeysInv, Product
<1>3. Prime(p)
  BY <1>1, <1>2 DEF Prime, IsPrime
<1>4. d \in Positive
  <2>1. PICK phi : phi = (p - 1) * (p - 1)
    OBVIOUS
  <2>2. phi \in Positive
    <3>1. p \in Nat /\ p > 1
      BY <1>3 DEF Prime, IsPrime
    <3>2. (p - 1) * (p - 1) \in Nat /\ (p - 1) * (p - 1) > 0
      BY <3>1
    <3> QED
      BY <2>1, <3>2 DEF Positive
  <2>3. d = ModInv(phi)
    BY <1>1, <2>1 DEF Phi
  <2> QED
    BY <1>2, <2>2, <2>3, ModInvIs
<1>5. FromBytes(buf) < p * p /\ Crypt(Crypt(buf, 3, p * p), d, p * p) = <<0>>
  <2>1. FromBytes(buf) = p
    BY <1>1
  <2> QED
    BY <1>3, <1>4, <2>1, CryptForgets, Zenon
<1> QED
  BY <1>2, <1>5 DEF Encrypt, Decrypt

(* With keys that rsa_keygen() made of two different primes, rsa_decrypt() *)
(* inverts rsa_encrypt() on every text below the modulus.                  *)
THEOREM KeysInvertEachOther == NullIsNoNumber => (Spec => []KeysInvert)
<1> SUFFICES ASSUME NullIsNoNumber
             PROVE  Spec => []KeysInvert
  OBVIOUS
<1>1. ValuesInv => KeysInvert
  BY KeysOfTwoPrimes DEF KeysInvert
<1> QED
  BY <1>1, ValuesAlways, PTL

(* What a run checks of texts of one byte and of two, for keys of every    *)
(* size: they are inverted, unless p and q are one prime, when some are    *)
(* not.                                                                    *)
THEOREM RsaInvertsItself == NullIsNoNumber => (Spec => []DecryptionInverts)
<1> SUFFICES ASSUME NullIsNoNumber
             PROVE  Spec => []DecryptionInverts
  OBVIOUS
<1>1. ASSUME ValuesInv
      PROVE  DecryptionInverts
  <2> DEFINE plaintexts == {<<x>> : x \in 0 .. Base - 1}
                             \union {<<y, x>> : y \in {0, 1}, x \in 0 .. Base - 1}
             Inverted(buf) == FromBytes(buf) < pubk.n.val =>
                                Decrypt(Encrypt(buf)) = WithoutLeadingZeros(buf)
  <2> SUFFICES ASSUME privk # NULL, IsPrime(primes[1]), IsPrime(primes[2])
               PROVE  IF primes[1] # primes[2] THEN \A buf \in plaintexts : Inverted(buf)
                      ELSE primes[1] < 2 * Base => ~ \A buf \in plaintexts : Inverted(buf)
    BY DEF DecryptionInverts
  <2>1. plaintexts \subseteq Seq(Digit)
    <3>1. 0 \in Digit /\ 1 \in Digit
      BY BaseIs DEF Digit
    <3>2. ASSUME NEW x \in Digit PROVE <<x>> \in Seq(Digit)
      OBVIOUS
    <3>3. ASSUME NEW x \in Digit, NEW y \in Digit PROVE <<y, x>> \in Seq(Digit)
      OBVIOUS
    <3>4. ASSUME NEW buf \in plaintexts PROVE buf \in Seq(Digit)
      <4>1. (\E x \in Digit : buf = <<x>>) \/ (\E y \in {0, 1}, x \in Digit : buf = <<y, x>>)
        BY DEF Digit
      <4>2. CASE \E x \in Digit : buf = <<x>>
        BY <3>2, <4>2
      <4>3. CASE \E y \in {0, 1}, x \in Digit : buf = <<y, x>>
        <5>1. PICK y \in {0, 1}, x \in Digit : buf = <<y, x>>
          BY <4>3
        <5>2. y \in Digit
          BY <3>1
        <5> QED
          BY <3>3, <5>1, <5>2
      <4> QED
        BY <4>1, <4>2, <4>3
    <3> QED
      BY <3>4
  <2>2. CASE primes[1] # primes[2]
    <3>1. \A buf \in plaintexts : Inverted(buf)
      <4> TAKE buf \in plaintexts
      <4>1. buf \in Seq(Digit)
        BY <2>1
      <4> QED
        BY <1>1, <2>2, <4>1, KeysOfTwoPrimes
    <3> HIDE DEF Inverted
    <3> QED
      BY <2>2, <3>1
  <2>3. CASE primes[1] = primes[2]
    <3>1. CASE primes[1] < 2 * Base
      <4>1. PICK p \in Nat : p = primes[1] /\ p > 1
        BY <1>1 DEF ValuesInv, KeysInv, IsPrime
      <4>2. PICK buf \in Seq(Digit) :
                /\ FromBytes(buf) = p
                /\ \/ \E x \in Digit : buf = <<x>>
                   \/ \E x \in Digit : buf = <<1, x>>
        BY <3>1, <4>1, SmallNumber
      <4>3. buf \in plaintexts
        BY <4>2 DEF Digit
      <4>4. FromBytes(buf) < pubk.n.val /\ Decrypt(Encrypt(buf)) = <<0>>
        BY <1>1, <2>3, <4>1, <4>2, KeysOfOnePrime
      <4>5. WithoutLeadingZeros(buf) # <<0>>
        BY <4>1, <4>2, NotJustZero
      <4>6. ~ Inverted(buf)
        BY <4>4, <4>5
      <4> HIDE DEF Inverted, plaintexts
      <4>7. ~ \A b \in plaintexts : Inverted(b)
        BY <4>3, <4>6
      <4> QED
        BY <2>3, <4>7
    <3>2. CASE ~ (primes[1] < 2 * Base)
      BY <2>3, <3>2
    <3> QED
      BY <3>1, <3>2
  <2> QED
    BY <2>2, <2>3
<1> QED
  BY <1>1, ValuesAlways, PTL

(***************************************************************************)
(* Powers of two.                                                          *)
(***************************************************************************)

(* The function PowerOfTwo is what it is defined by. *)
LEMMA PowerOfTwoIs ==
    /\ \A e \in Nat : PowerOfTwo[e] \in Positive
    /\ PowerOfTwo[0] = 1
    /\ \A e \in Nat : PowerOfTwo[e + 1] = 2 * PowerOfTwo[e]
<1> DEFINE Def(f) == [e \in Nat |-> IF e = 0 THEN 1 ELSE 2 * f[e - 1]]
<1>1. PICK p \in [Positive -> Nat] : p = [i \in Positive |-> i - 1]
  <2>1. \A i \in Positive : i - 1 \in Nat
    BY DEF Positive
  <2> QED
    BY <2>1
<1>2. PICK G \in [Positive \X Nat -> Nat] : G = [x \in Positive \X Nat |-> 2 * x[2]]
  <2>1. \A x \in Positive \X Nat : 2 * x[2] \in Nat
    OBVIOUS
  <2> QED
    BY <2>1
<1>3. PICK o \in Nat : o = 1
  OBVIOUS
<1>4. PICK F \in [Nat -> Nat] : Steps(F, o, p, G)
  <2>1. Descends(p)
    BY <1>1 DEF Positive, Descends
  <2> QED
    BY <2>1, Recursion
<1>5. F[0] = o /\ \A i \in Positive : F[i] = G[<<i, F[p[i]]>>]
  BY <1>4, Zenon DEF Steps
<1>6. ASSUME NEW e \in Nat PROVE F[e] = IF e = 0 THEN 1 ELSE 2 * F[e - 1]
  <2>1. CASE e = 0
    BY <1>3, <1>5, <2>1
  <2>2. CASE e # 0
    <3>1. e \in Positive /\ p[e] = e - 1 /\ e - 1 \in Nat
      BY <1>1, <2>2 DEF Positive
    <3>2. PICK v \in Nat : v = F[e - 1]
      BY <3>1
    <3>3. <<e, v>> \in Positive \X Nat /\ <<e, v>>[2] = v
      BY <3>1
    <3>4. G[<<e, v>>] = 2 * v
      BY <1>2, <3>3
    <3> QED
      BY <1>5, <2>2, <3>1, <3>2, <3>4
  <2> QED
    BY <2>1, <2>2
<1>7. F = Def(F)
  <2>1. F = [e \in Nat |-> F[e]]
    OBVIOUS
  <2> QED
    BY <1>6, <2>1, Zenon
<1>8. PowerOfTwo = Def(PowerOfTwo)
  <2>1. PowerOfTwo = CHOOSE f : f = Def(f)
    BY Zenon DEF PowerOfTwo
  <2> QED
    BY <1>7, <2>1, Zenon
<1>9. PICK P : P = PowerOfTwo
  OBVIOUS
<1>10. \A e \in Nat : P[e] = IF e = 0 THEN 1 ELSE 2 * P[e - 1]
  BY <1>8, <1>9, Zenon
<1>11. P[0] = 1
  BY <1>10
<1>12. ASSUME NEW e \in Nat PROVE P[e + 1] = 2 * P[e]
  <2>1. e + 1 \in Nat /\ e + 1 # 0 /\ (e + 1) - 1 = e
    OBVIOUS
  <2> QED
    BY <1>10, <2>1, Zenon
<1>13. \A e \in Nat : P[e] \in Positive
  <2> DEFINE S == {e \in Nat : P[e] \in Positive}
  <2>1. 0 \in S
    BY <1>11 DEF Positive
  <2>2. ASSUME NEW e \in Nat, e \in S PROVE e + 1 \in S
    <3>1. P[e] \in Positive /\ P[e + 1] = 2 * P[e] /\ e + 1 \in Nat
      BY <1>12, <2>2
    <3>2. P[e + 1] \in Positive
      BY <3>1 DEF Positive
    <3> QED
      BY <3>1, <3>2
  <2>3. \A e \in Nat : e \in S
    <3> HIDE DEF S
    <3> QED
      BY <2>1, <2>2, Successive
  <2> QED
    BY <2>3
<1> QED
  BY <1>9, <1>11, <1>12, <1>13

(* The power of a sum of exponents. *)
LEMMA PowerOfTwoOfSum ==
    ASSUME NEW d \in Nat, NEW e \in Nat
    PROVE  PowerOfTwo[d + e] = PowerOfTwo[d] * PowerOfTwo[e]
<1>1. PICK P : P = PowerOfTwo
  OBVIOUS
<1>2. /\ P[0] = 1
      /\ \A i \in Nat : P[i] \in Positive /\ P[i] \in Int /\ P[i + 1] = 2 * P[i]
  BY <1>1, PowerOfTwoIs DEF Positive
<1> DEFINE S == {i \in Nat : P[d + i] = P[d] * P[i]}
<1>3. 0 \in S
  <2>1. d + 0 = d /\ P[d] \in Int
    BY <1>2
  <2>2. P[d + 0] = P[d] * P[0]
    BY <1>2, <2>1
  <2> QED
    BY <2>2
<1>4. ASSUME NEW i \in Nat, i \in S PROVE i + 1 \in S
  <2>1. d + i \in Nat /\ d + (i + 1) = (d + i) + 1 /\ i + 1 \in Nat
    OBVIOUS
  <2>2. P[(d + i) + 1] = 2 * P[d + i] /\ P[d + i] = P[d] * P[i] /\ P[i + 1] = 2 * P[i]
    BY <1>2, <1>4, <2>1
  <2>3. PICK a \in Int, b \in Int : a = P[d] /\ b = P[i]
    BY <1>2
  <2>4. 2 * (a * b) = a * (2 * b)
    OBVIOUS
  <2>5. P[d + (i + 1)] = P[d] * P[i + 1]
    BY <2>1, <2>2, <2>3, <2>4
  <2> QED
    BY <2>1, <2>5
<1>5. \A i \in Nat : i \in S
  <2> HIDE DEF S
  <2> QED
    BY <1>3, <1>4, Successive
<1> QED
  BY <1>1, <1>5

(* A power of two exceeds its exponent, and the powers grow.               *)
LEMMA PowerOfTwoGrows ==
    /\ \A e \in Nat : e < PowerOfTwo[e]
    /\ \A d, e \in Nat : d <= e => PowerOfTwo[d] <= PowerOfTwo[e]
<1>1. PICK P : P = PowerOfTwo
  OBVIOUS
<1>2. /\ P[0] = 1
      /\ \A i \in Nat : P[i] \in Nat /\ P[i] > 0 /\ P[i + 1] = 2 * P[i]
  BY <1>1, PowerOfTwoIs DEF Positive
<1>3. \A e \in Nat : e < P[e]
  <2> DEFINE S == {i \in Nat : i < P[i]}
  <2>1. 0 \in S
    BY <1>2
  <2>2. ASSUME NEW i \in Nat, i \in S PROVE i + 1 \in S
    <3>1. i < P[i] /\ P[i] \in Nat /\ P[i + 1] = 2 * P[i] /\ i + 1 \in Nat
      BY <1>2, <2>2
    <3>2. i + 1 < P[i + 1]
      BY <3>1
    <3> QED
      BY <3>1, <3>2
  <2>3. \A i \in Nat : i \in S
    <3> HIDE DEF S
    <3> QED
      BY <2>1, <2>2, Successive
  <2> QED
    BY <2>3
<1>4. ASSUME NEW d \in Nat, NEW e \in Nat, d <= e PROVE P[d] <= P[e]
  <2>1. PICK c \in Nat : c = e - d
    BY <1>4
  <2>2. d + c = e
    BY <2>1
  <2>3. P[d + c] = P[d] * P[c]
    BY <1>1, PowerOfTwoOfSum
  <2>4. PICK a \in Nat, b \in Nat : a = P[d] /\ b = P[c] /\ b > 0
    BY <1>2
  <2>5. a <= a * b
    BY <2>4
  <2> QED
    BY <2>2, <2>3, <2>4, <2>5
<1> QED
  BY <1>1, <1>3, <1>4

(***************************************************************************)
(* The cube root.                                                          *)
(***************************************************************************)

Cube(c) == c * c * c

(* Cubes grow. *)
LEMMA CubesGrow ==
    ASSUME NEW a \in Nat, NEW b \in Nat, a <= b
    PROVE  Cube(a) \in Nat /\ Cube(b) \in Nat /\ Cube(a) <= Cube(b)
<1>1. PICK c \in Nat, d \in Nat : c = a * a /\ d = b * b
  OBVIOUS
<1>2. c <= d
  <2>1. a * a <= a * b /\ a * b <= b * b /\ a * b \in Nat
    OBVIOUS
  <2> QED
    BY <1>1, <2>1
<1>3. c * a <= d * a /\ d * a <= d * b /\ c * a \in Nat /\ d * a \in Nat /\ d * b \in Nat
  BY <1>2
<1> QED
  BY <1>1, <1>3 DEF Cube

IsRoot(r, n) == r \in Nat /\ Cube(r) <= n /\ n < Cube(r + 1)

(* Every number has a cube root rounded down. *)
LEMMA RootExists ==
    ASSUME NEW n \in Positive
    PROVE  \E r \in Nat : IsRoot(r, n)
<1> DEFINE S == {c \in Nat : n < Cube(c + 1)}
<1>1. n \in S
  <2>1. PICK m \in Nat : m = n + 1
    BY DEF Positive
  <2>2. n \in Nat /\ m >= 1 /\ m * m >= m /\ m * m \in Nat
    BY <2>1 DEF Positive
  <2>3. m * m * m >= m * m
    BY <2>2
  <2>4. n < Cube(m)
    BY <2>1, <2>2, <2>3 DEF Cube
  <2> QED
    BY <2>1, <2>2, <2>4
<1>2. PICK r \in S : \A c \in S : r <= c
  <2>1. S \subseteq Nat /\ S # {}
    BY <1>1
  <2> HIDE DEF S
  <2> QED
    BY <2>1, Smallest
<1>3. r \in Nat /\ n < Cube(r + 1)
  OBVIOUS
<1>4. Cube(r) <= n
  <2>1. CASE r = 0
    BY <2>1 DEF Cube, Positive
  <2>2. CASE r # 0
    <3>1. r - 1 \in Nat /\ (r - 1) + 1 = r /\ ~(r <= r - 1)
      BY <1>3, <2>2
    <3>2. ~(n < Cube((r - 1) + 1))
      BY <1>2, <3>1
    <3>3. Cube(r) \in Nat
      BY <1>3, CubesGrow
    <3> QED
      BY <3>1, <3>2, <3>3 DEF Positive
  <2> QED
    BY <2>1, <2>2
<1> QED
  BY <1>3, <1>4 DEF IsRoot

(* Whoever has a larger cube than n is above its root, and nobody else is. *)
LEMMA AboveRoot ==
    ASSUME NEW n \in Positive, NEW r, IsRoot(r, n), NEW a \in Nat
    PROVE  Cube(a) <= n <=> a <= r
<1>1. r \in Nat /\ r + 1 \in Nat /\ Cube(r) <= n /\ n < Cube(r + 1) /\ n \in Nat
  BY DEF IsRoot, Positive
<1>2. CASE a <= r
  <2>1. Cube(a) \in Nat /\ Cube(r) \in Nat /\ Cube(a) <= Cube(r)
    BY <1>1, <1>2, CubesGrow
  <2> QED
    BY <1>1, <1>2, <2>1
<1>3. CASE ~(a <= r)
  <2>1. r + 1 <= a
    BY <1>1, <1>3
  <2>2. Cube(r + 1) \in Nat /\ Cube(a) \in Nat /\ Cube(r + 1) <= Cube(a)
    BY <1>1, <2>1, CubesGrow
  <2> QED
    BY <1>1, <1>3, <2>2
<1> QED
  BY <1>2, <1>3

(* A quotient rounded down. *)
LEMMA Quotient ==
    ASSUME NEW c \in Positive, NEW n \in Nat
    PROVE  n \div c \in Nat /\ \A m \in Int : m <= n \div c <=> m * c <= n
<1>1. PICK d \in Nat : d = n \div c
  BY DEF Positive
<1>2. d * c <= n /\ n < (d + 1) * c
  <2>1. n \div c \in Int /\ n % c \in 0 .. c - 1 /\ n = c * (n \div c) + (n % c)
    BY DEF Positive
  <2>2. PICK s \in 0 .. c - 1 : n = c * d + s
    BY <1>1, <2>1
  <2>3. (d + 1) * c = c * d + c /\ d * c = c * d /\ c * d \in Int
    BY DEF Positive
  <2> QED
    BY <2>2, <2>3 DEF Positive
<1>3. ASSUME NEW m \in Int PROVE m <= d <=> m * c <= n
  <2>1. CASE m <= d
    <3>1. m * c <= d * c /\ m * c \in Int /\ d * c \in Int
      BY <2>1 DEF Positive
    <3> QED
      BY <1>2, <2>1, <3>1
  <2>2. CASE ~(m <= d)
    <3>1. d + 1 <= m
      BY <2>2
    <3>2. (d + 1) * c <= m * c /\ m * c \in Int /\ (d + 1) * c \in Int
      BY <3>1 DEF Positive
    <3> QED
      BY <1>2, <2>2, <3>2
  <2> QED
    BY <2>1, <2>2
<1> QED
  BY <1>1, <1>3

(* The tangent of the cube at any point is below the cube.                 *)
LEMMA TangentBelow ==
    ASSUME NEW a \in Nat, NEW r \in Nat
    PROVE  (3 * r - 2 * a) * (a * a) <= Cube(r)
<1>1. PICK t \in Int : t = a - r
  OBVIOUS
<1>2. PICK s \in Nat : s = t * t
  <2>1. t * t >= 0
    OBVIOUS
  <2> QED
    BY <2>1
<1>3. s * (2 * a + r) >= 0
  BY <1>2
<1>4. Cube(r) - ((3 * r - 2 * a) * (a * a)) = s * (2 * a + r)
  <2>1. s = a * a - 2 * (a * r) + r * r
    BY <1>1, <1>2
  <2>2. PICK A \in Int, M \in Int, R \in Int : A = a * a /\ M = a * r /\ R = r * r
    OBVIOUS
  <2>3. /\ M * a = A * r /\ R * a = M * r /\ Cube(r) = R * r
        /\ A * a \in Int /\ A * r \in Int /\ M * r \in Int /\ R * r \in Int
    BY <2>2 DEF Cube
  <2>4. s * (2 * a + r) = 2 * (A * a) + A * r - 4 * (M * a) - 2 * (M * r) + 2 * (R * a) + R * r
    <3>1. s = A - 2 * M + R
      BY <2>1, <2>2
    <3> QED
      BY <3>1
  <2>5. (3 * r - 2 * a) * A = 3 * (A * r) - 2 * (A * a)
    OBVIOUS
  <2>6. M * a \in Int /\ R * a \in Int
    OBVIOUS
  <2> QED
    BY <2>2, <2>3, <2>4, <2>5, <2>6
<1>5. Cube(r) \in Int /\ (3 * r - 2 * a) * (a * a) \in Int /\ s * (2 * a + r) \in Int
  BY DEF Cube
<1> QED
  BY <1>3, <1>4, <1>5

NewtonStep(n, a) == (2 * a + (n \div (a * a))) \div 3

(* The loop ends at the root when it is at the root or below, and gets     *)
(* nearer to it, never below, when it is above.                            *)
LEMMA NewtonIs ==
    ASSUME NEW n \in Positive, NEW r, IsRoot(r, n), NEW a \in Positive
    PROVE  /\ r \in Positive
           /\ a <= n \div (a * a) <=> a <= r
           /\ ~(a <= n \div (a * a)) => NewtonStep(n, a) \in r .. a - 1
<1>1. PICK c \in Positive : c = a * a
  BY DEF Positive
<1>2. PICK d \in Nat : d = n \div c
  BY Quotient DEF Positive
<1>3. \A m \in Int : m <= d <=> m * c <= n
  <2>1. n \in Nat
    BY DEF Positive
  <2> QED
    BY <1>2, <2>1, Quotient
<1>4. r \in Positive
  <2>1. Cube(0 + 1) = 1 /\ Cube(1) = 1
    BY DEF Cube
  <2>2. r \in Nat /\ n < Cube(r + 1)
    BY DEF IsRoot
  <2>3. r # 0
    BY <2>1, <2>2 DEF Positive
  <2> QED
    BY <2>2, <2>3 DEF Positive
<1>5. a <= d <=> a <= r
  <2>1. a * c = Cube(a) /\ a \in Int /\ a \in Nat
    BY <1>1 DEF Cube, Positive
  <2>2. Cube(a) <= n <=> a <= r
    BY <2>1, AboveRoot
  <2> QED
    BY <1>3, <2>1, <2>2
<1>6. ASSUME ~(a <= d) PROVE (2 * a + d) \div 3 \in r .. a - 1
  <2>1. 3 * r - 2 * a <= d
    <3>1. a \in Nat /\ r \in Nat /\ 3 * r - 2 * a \in Int
      BY <1>4 DEF Positive
    <3>2. (3 * r - 2 * a) * c <= Cube(r)
      BY <1>1, <3>1, TangentBelow
    <3>3. Cube(r) <= n /\ Cube(r) \in Int /\ (3 * r - 2 * a) * c \in Int
      BY <3>1 DEF IsRoot, Cube, Positive
    <3> QED
      BY <1>3, <3>1, <3>2, <3>3 DEF Positive
  <2>2. a \in Int /\ r \in Int
    BY <1>4 DEF Positive
  <2>3. 3 * r <= 2 * a + d /\ 2 * a + d < 3 * a
    BY <1>6, <2>1, <2>2
  <2> QED
    BY <2>2, <2>3
<1> QED
  BY <1>1, <1>2, <1>4, <1>5, <1>6 DEF NewtonStep

(* The number of bits of n is the exponent of the power of two above it.   *)
LEMMA NumBitsIs ==
    ASSUME NEW n \in Positive
    PROVE  NumBits(n) \in Nat /\ n < PowerOfTwo[NumBits(n)]
<1>1. PICK P : P = PowerOfTwo
  OBVIOUS
<1>2. P[0] = 1 /\ \A e \in Nat : P[e] \in Nat /\ e < P[e]
  BY <1>1, PowerOfTwoIs, PowerOfTwoGrows DEF Positive
<1> DEFINE S == {e \in Nat : n < P[e]}
<1>3. n \in S
  BY <1>2 DEF Positive
<1>4. PICK b \in S : \A e \in S : b <= e
  <2>1. S \subseteq Nat /\ S # {}
    BY <1>3
  <2> HIDE DEF S
  <2> QED
    BY <2>1, Smallest
<1>5. b \in Nat /\ n < P[b] /\ b <= n
  BY <1>3, <1>4
<1>6. b # 0
  BY <1>2, <1>5 DEF Positive
<1>7. b - 1 \in Nat /\ ~(b <= b - 1)
  BY <1>5, <1>6
<1>8. ~(n < P[b - 1])
  BY <1>4, <1>7
<1>9. b \in 1 .. n /\ P[b - 1] <= n
  <2>1. P[b - 1] \in Nat
    BY <1>2, <1>7
  <2> QED
    BY <1>5, <1>6, <1>8, <2>1 DEF Positive
<1>10. NumBits(n) \in 1 .. n /\ n < P[NumBits(n)]
  BY <1>1, <1>5, <1>9 DEF NumBits
<1> QED
  BY <1>1, <1>10 DEF Positive

(* The first guess is above the root. *)
LEMMA GuessIs ==
    ASSUME NEW n \in Positive, NEW r, IsRoot(r, n)
    PROVE  Guess(n) \in Positive /\ r < Guess(n)
<1>1. PICK b \in Nat : b = NumBits(n) /\ n < PowerOfTwo[b]
  BY NumBitsIs
<1>2. PICK e \in Nat : e = b \div 3 + 1 /\ b <= e + e + e
  OBVIOUS
<1>3. PICK G \in Positive : G = PowerOfTwo[e]
  BY PowerOfTwoIs
<1>4. PowerOfTwo[e + e + e] = Cube(G)
  <2>1. e + e \in Nat
    OBVIOUS
  <2>2. PowerOfTwo[(e + e) + e] = PowerOfTwo[e + e] * PowerOfTwo[e]
    BY <2>1, PowerOfTwoOfSum
  <2>3. PowerOfTwo[e + e] = PowerOfTwo[e] * PowerOfTwo[e]
    BY PowerOfTwoOfSum
  <2> QED
    BY <1>3, <2>2, <2>3 DEF Cube
<1>5. n < Cube(G)
  <2>1. e + e + e \in Nat
    OBVIOUS
  <2>2. PICK u \in Positive, v \in Positive : u = PowerOfTwo[b] /\ v = PowerOfTwo[e + e + e]
    BY <2>1, PowerOfTwoIs
  <2>3. u <= v
    BY <1>2, <2>1, <2>2, PowerOfTwoGrows
  <2> QED
    BY <1>1, <1>4, <2>2, <2>3 DEF Positive
<1>6. G \in Nat /\ Cube(G) \in Nat
  <2>1. G \in Nat /\ G <= G
    BY DEF Positive
  <2> QED
    BY <2>1, CubesGrow
<1>7. ~(G <= r)
  <2>1. ~(Cube(G) <= n)
    BY <1>5, <1>6 DEF Positive
  <2> QED
    BY <1>6, <2>1, AboveRoot
<1>8. Guess(n) = G
  BY <1>1, <1>2, <1>3 DEF Guess
<1> QED
  BY <1>6, <1>7, <1>8 DEF IsRoot

IsNewton(f, n) ==
    f = [a \in 1 .. Guess(n) |-> IF a <= n \div (a * a) THEN a ELSE f[NewtonStep(n, a)]]

(* Newton's method is a function: it ends from every guess. *)
LEMMA NewtonExists ==
    ASSUME NEW n \in Positive
    PROVE  \E f : IsNewton(f, n)
<1>1. PICK r \in Nat : IsRoot(r, n)
  BY RootExists
<1>2. PICK m \in Positive : m = Guess(n)
  BY <1>1, GuessIs
<1> DEFINE Ends(a) == a <= n \div (a * a)
           next(a) == IF Ends(a) THEN 0 ELSE NewtonStep(n, a)
<1>3. \A a \in Positive : next(a) \in Nat /\ next(a) < a /\ (~Ends(a) => next(a) = NewtonStep(n, a) /\ next(a) >= 1)
  <2> TAKE a \in Positive
  <2>1. r \in Positive /\ (~Ends(a) => NewtonStep(n, a) \in r .. a - 1)
    BY <1>1, NewtonIs
  <2>2. CASE Ends(a)
    BY <2>2 DEF Positive
  <2>3. CASE ~Ends(a)
    BY <2>1, <2>3 DEF Positive
  <2> QED
    BY <2>2, <2>3
<1> HIDE DEF next
<1>4. PICK p \in [Positive -> Nat] : p = [a \in Positive |-> next(a)]
  BY <1>3
<1>5. PICK V : V = Nat
  OBVIOUS
<1>6. PICK G \in [Positive \X V -> V] : G = [x \in Positive \X V |-> IF Ends(x[1]) THEN x[1] ELSE x[2]]
  <2>1. \A x \in Positive \X V : x[1] \in V /\ x[2] \in V
    BY <1>5 DEF Positive
  <2> HIDE DEF Ends
  <2> QED
    BY <2>1
<1> HIDE DEF Ends
<1>7. PICK z \in V : z = 0
  BY <1>5
<1>8. PICK F \in [Nat -> V] : Steps(F, z, p, G)
  <2>1. Descends(p)
    BY <1>3, <1>4 DEF Descends
  <2> QED
    BY <2>1, Recursion
<1>9. \A i \in Positive : F[i] = G[<<i, F[p[i]]>>]
  BY <1>8, Zenon DEF Steps
<1>10. PICK f : f = [a \in 1 .. m |-> F[a]]
  OBVIOUS
<1>11. ASSUME NEW a \in 1 .. m
       PROVE  f[a] = IF Ends(a) THEN a ELSE f[NewtonStep(n, a)]
  <2>1. a \in Positive /\ p[a] = next(a) /\ p[a] \in Nat
    BY <1>4 DEF Positive
  <2>2. PICK v \in V : v = F[p[a]]
    BY <2>1
  <2>3. <<a, v>> \in Positive \X V /\ <<a, v>>[1] = a /\ <<a, v>>[2] = v
    BY <2>1
  <2>4. G[<<a, v>>] = IF Ends(a) THEN a ELSE v
    BY <1>6, <2>3
  <2>5. f[a] = F[a] /\ F[a] = G[<<a, F[p[a]]>>]
    BY <1>9, <1>10, <2>1
  <2>6. CASE Ends(a)
    BY <2>2, <2>4, <2>5, <2>6
  <2>7. CASE ~Ends(a)
    <3>1. next(a) = NewtonStep(n, a) /\ next(a) \in 1 .. m
      BY <1>2, <1>3, <2>1, <2>7 DEF Positive
    <3>2. f[NewtonStep(n, a)] = v
      BY <1>10, <2>1, <2>2, <3>1
    <3> QED
      BY <2>2, <2>4, <2>5, <2>7, <3>2
  <2> QED
    BY <2>6, <2>7
<1>12. f = [a \in 1 .. m |-> f[a]]
  BY <1>10
<1>13. f = [a \in 1 .. m |-> IF Ends(a) THEN a ELSE f[NewtonStep(n, a)]]
  BY <1>11, <1>12, Zenon
<1> QED
  BY <1>2, <1>13, Zenon DEF IsNewton, Ends

(* From a guess that is not below the root it ends at the root. *)
LEMMA NewtonEnds ==
    ASSUME NEW n \in Positive, NEW r \in Nat, IsRoot(r, n), NEW f, IsNewton(f, n)
    PROVE  f[Guess(n)] = r
<1>1. PICK m \in Positive : m = Guess(n) /\ r < m
  BY GuessIs
<1> DEFINE Ends(a) == a <= n \div (a * a)
           W == {a \in r .. m : f[a] # r}
<1> SUFFICES ASSUME W # {} PROVE FALSE
  BY <1>1 DEF Positive
<1>2. PICK a \in W : \A b \in W : a <= b
  <2>1. W \subseteq Nat
    OBVIOUS
  <2> HIDE DEF W
  <2> QED
    BY <2>1, Smallest
<1>3. r \in Positive
  BY <1>1, NewtonIs
<1>4. a \in Positive /\ a \in 1 .. m /\ a >= r /\ a \in Nat /\ f[a] # r
  BY <1>3 DEF Positive
<1>5. (Ends(a) <=> a <= r) /\ (~Ends(a) => NewtonStep(n, a) \in r .. a - 1)
  BY <1>4, NewtonIs
<1>6. f[a] = IF Ends(a) THEN a ELSE f[NewtonStep(n, a)]
  BY <1>1, <1>4, Zenon DEF IsNewton
<1>7. CASE Ends(a)
  <2>1. a = r
    BY <1>4, <1>5, <1>7
  <2> HIDE DEF Ends
  <2> QED
    BY <1>4, <1>6, <1>7, <2>1
<1>8. CASE ~Ends(a)
  <2>1. PICK b \in r .. a - 1 : b = NewtonStep(n, a)
    BY <1>5, <1>8
  <2> HIDE DEF Ends
  <2>2. f[b] # r
    BY <1>4, <1>6, <1>8, <2>1
  <2>3. b \in W /\ ~(a <= b)
    BY <1>4, <2>1, <2>2
  <2> QED
    BY <1>2, <2>3
<1> QED
  BY <1>7, <1>8

(* mpi_cbrt() finds the cube root rounded down of every number but 0, and  *)
(* fails for 0.                                                            *)
THEOREM CbrtIsExact == \A n \in Nat : CbrtIsFloor(n)
<1>0. CbrtIsFloor(0)
  <2>1. 0 <= 0
    OBVIOUS
  <2>2. Cbrt(0) = NULL
    BY <2>1, Zenon DEF Cbrt
  <2> QED
    BY <2>2 DEF CbrtIsFloor
<1> SUFFICES ASSUME NEW n \in Positive PROVE CbrtIsFloor(n)
  BY <1>0 DEF Positive
<1>1. PICK r \in Nat : IsRoot(r, n)
  BY RootExists
<1> DEFINE newton == CHOOSE f : IsNewton(f, n)
<1>2. newton[Guess(n)] = r
  <2>1. IsNewton(newton, n)
    BY NewtonExists, Zenon
  <2> HIDE DEF newton
  <2> QED
    BY <1>1, <2>1, NewtonEnds
<1>3. Cbrt(n) = newton[Guess(n)]
  <2>1. ~(n <= 0)
    BY DEF Positive
  <2> QED
    BY <2>1, Zenon DEF Cbrt, IsNewton, NewtonStep
<1>4. Cbrt(n) = r
  BY <1>2, <1>3
<1> QED
  BY <1>1, <1>4 DEF CbrtIsFloor, IsRoot, Cube, Positive

(* So every cube root of the run is exact. *)
THEOREM CubeRootsAreRight == Spec => []CubeRootsAreExact
<1>1. CubeRootsAreExact
  BY CbrtIsExact, RadicandsAssumption DEF CubeRootsAreExact
<1> QED
  BY <1>1, PTL

(***************************************************************************)
(* The Miller-Rabin test.                                                  *)
(***************************************************************************)

Halves(v, r) == IF r % 2 = 1 THEN [s |-> 0, r |-> r] ELSE [v EXCEPT !.s = @ + 1]

IsSplit(f, n) == f = [r \in 1 .. n - 1 |->
                        IF r % 2 = 1 THEN [s |-> 0, r |-> r]
                        ELSE [f[r \div 2] EXCEPT !.s = @ + 1]]

(* Halving ends. *)
LEMMA SplitExists ==
    ASSUME NEW n \in Positive
    PROVE  \E f \in [1 .. n - 1 -> [s : Nat, r : Nat]] : IsSplit(f, n)
<1> DEFINE half(i) == IF i % 2 = 1 THEN 0 ELSE i \div 2
<1>1. \A i \in Positive : half(i) \in Nat /\ half(i) < i /\ (i % 2 # 1 => half(i) = i \div 2 /\ half(i) >= 1)
  BY DEF Positive
<1> HIDE DEF half
<1>2. PICK p \in [Positive -> Nat] : p = [i \in Positive |-> half(i)]
  BY <1>1
<1>3. PICK V : V = [s : Nat, r : Nat]
  OBVIOUS
<1>4. PICK G \in [Positive \X V -> V] : G = [x \in Positive \X V |-> Halves(x[2], x[1])]
  <2>1. ASSUME NEW i \in Positive, NEW v \in V PROVE Halves(v, i) \in V
    <3>1. [s |-> 0, r |-> i] \in V /\ [v EXCEPT !.s = @ + 1] \in V
      BY <1>3 DEF Positive
    <3> QED
      BY <3>1 DEF Halves
  <2>2. \A x \in Positive \X V : Halves(x[2], x[1]) \in V
    BY <2>1
  <2> QED
    BY <2>2
<1>5. PICK z \in V : z = [s |-> 0, r |-> 0]
  BY <1>3
<1>6. PICK F \in [Nat -> V] : Steps(F, z, p, G)
  <2>1. Descends(p)
    BY <1>1, <1>2 DEF Descends
  <2> QED
    BY <2>1, Recursion
<1>7. \A i \in Positive : F[i] = G[<<i, F[p[i]]>>]
  BY <1>6, Zenon DEF Steps
<1>8. PICK m \in Nat : m = n - 1
  BY DEF Positive
<1>9. PICK f \in [1 .. m -> V] : f = [i \in 1 .. m |-> F[i]]
  <2>1. \A i \in 1 .. m : F[i] \in V
    OBVIOUS
  <2> QED
    BY <2>1
<1>10. ASSUME NEW i \in 1 .. m
       PROVE  f[i] = IF i % 2 = 1 THEN [s |-> 0, r |-> i] ELSE [f[i \div 2] EXCEPT !.s = @ + 1]
  <2>1. i \in Positive /\ p[i] = half(i) /\ p[i] \in Nat
    BY <1>2 DEF Positive
  <2>2. PICK v \in V : v = F[p[i]]
    BY <2>1
  <2>3. <<i, v>> \in Positive \X V /\ <<i, v>>[1] = i /\ <<i, v>>[2] = v
    BY <2>1
  <2>4. G[<<i, v>>] = Halves(v, i)
    BY <1>4, <2>3
  <2>5. f[i] = Halves(v, i)
    BY <1>7, <1>9, <2>1, <2>2, <2>4
  <2>6. CASE i % 2 = 1
    BY <2>5, <2>6, Zenon DEF Halves
  <2>7. CASE i % 2 # 1
    <3>1. half(i) = i \div 2 /\ half(i) \in 1 .. m
      BY <1>1, <2>1, <2>7 DEF Positive
    <3>2. f[i \div 2] = v
      BY <1>9, <2>1, <2>2, <3>1
    <3> QED
      BY <2>5, <2>7, <3>2, Zenon DEF Halves
  <2> QED
    BY <2>6, <2>7
<1>11. f = [i \in 1 .. m |-> f[i]]
  OBVIOUS
<1>12. IsSplit(f, n)
  BY <1>8, <1>10, <1>11, Zenon DEF IsSplit
<1> QED
  BY <1>3, <1>8, <1>9, <1>12

(* n - 1 = 2**s * r with r odd, and n - 1 is even. *)
LEMMA SplitIs ==
    ASSUME NEW n \in Positive, n > 2, n % 2 = 1
    PROVE  /\ Split(n).s \in Positive /\ Split(n).r \in Positive
           /\ n - 1 = Split(n).r * PowerOfTwo[Split(n).s]
<1> DEFINE split == CHOOSE f : IsSplit(f, n)
<1>1. PICK h \in [1 .. n - 1 -> [s : Nat, r : Nat]] : IsSplit(h, n)
  BY SplitExists
<1>2. PICK f : f = split
  OBVIOUS
<1>3. IsSplit(f, n)
  BY <1>1, <1>2, Zenon
<1>4. Split(n) = f[n - 1]
  BY <1>2, Zenon DEF Split, IsSplit
<1>5. PICK m \in Positive : m = n - 1 /\ m % 2 # 1
  BY DEF Positive
<1>6. \A i \in 1 .. m : f[i] = Halves(f[i \div 2], i)
  BY <1>3, <1>5, Zenon DEF IsSplit, Halves
<1> DEFINE Right(i) == /\ f[i] \in [s : Nat, r : Nat] /\ f[i].r # 0
                       /\ i = f[i].r * PowerOfTwo[f[i].s]
<1>7. ASSUME NEW i \in 1 .. m, i % 2 = 1 PROVE Right(i)
  <2>1. f[i] = [s |-> 0, r |-> i]
    BY <1>6, <1>7 DEF Halves
  <2>2. f[i].s = 0 /\ f[i].r = i /\ f[i] \in [s : Nat, r : Nat]
    BY <2>1
  <2>3. PowerOfTwo[0] = 1 /\ i * 1 = i /\ i # 0
    BY PowerOfTwoIs
  <2> QED
    BY <2>2, <2>3
<1>8. ASSUME NEW i \in 1 .. m, i % 2 # 1, Right(i \div 2)
      PROVE  Right(i) /\ f[i].s = f[i \div 2].s + 1
  <2>1. PICK v \in [s : Nat, r : Nat] : v = f[i \div 2]
    BY <1>8
  <2>2. f[i] = [v EXCEPT !.s = @ + 1]
    BY <1>6, <1>8, <2>1 DEF Halves
  <2>3. f[i] \in [s : Nat, r : Nat] /\ f[i].s = v.s + 1 /\ f[i].r = v.r
    BY <2>2
  <2>4. PICK e \in Nat, r \in Nat : e = v.s /\ r = v.r
    OBVIOUS
  <2>5. PICK P \in Int : P = PowerOfTwo[e] /\ PowerOfTwo[e + 1] = 2 * P
    <3>1. PowerOfTwo[e] \in Positive /\ PowerOfTwo[e + 1] = 2 * PowerOfTwo[e]
      BY PowerOfTwoIs
    <3> QED
      BY <3>1 DEF Positive
  <2>6. i \div 2 = r * P /\ r # 0
    BY <1>8, <2>1, <2>4, <2>5
  <2>7. i = 2 * (i \div 2)
    BY <1>8
  <2>8. i = r * (2 * P)
    <3>1. 2 * (r * P) = r * (2 * P)
      OBVIOUS
    <3> QED
      BY <2>6, <2>7, <3>1
  <2> QED
    BY <2>1, <2>3, <2>4, <2>5, <2>6, <2>8
<1>9. \A i \in 1 .. m : Right(i)
  <2> DEFINE W == {i \in 1 .. m : ~Right(i)}
  <2> SUFFICES ASSUME W # {} PROVE FALSE
    OBVIOUS
  <2>1. PICK i \in W : \A j \in W : i <= j
    <3>1. W \subseteq Nat
      OBVIOUS
    <3> HIDE DEF W
    <3> QED
      BY <3>1, Smallest
  <2>2. i \in 1 .. m /\ ~Right(i)
    OBVIOUS
  <2> HIDE DEF Right
  <2>3. i % 2 # 1
    BY <1>7, <2>2
  <2>4. i \div 2 \in 1 .. m /\ ~(i <= i \div 2)
    <3>1. i \in Nat /\ i # 0 /\ i <= m /\ m \in Nat
      BY <2>2 DEF Positive
    <3> QED
      BY <2>3, <3>1
  <2>5. ~Right(i \div 2)
    BY <1>8, <2>2, <2>3
  <2>6. i \div 2 \in W
    BY <2>4, <2>5
  <2> QED
    BY <2>1, <2>4, <2>6
<1>10. m \in 1 .. m /\ m \div 2 \in 1 .. m
  BY <1>5 DEF Positive
<1>11. Right(m) /\ Right(m \div 2)
  <2> HIDE DEF Right
  <2> QED
    BY <1>9, <1>10
<1>12. f[m].s = f[m \div 2].s + 1
  <2> HIDE DEF Right
  <2> QED
    BY <1>5, <1>8, <1>10, <1>11
<1> QED
  BY <1>4, <1>5, <1>11, <1>12 DEF Positive

(* The square roots of 1 modulo a prime are 1 and -1. *)
LEMMA RootsOfOne ==
    ASSUME NEW n, Prime(n), NEW x \in 0 .. n - 1, (x * x) % n = 1, x # 1
    PROVE  x = n - 1
<1>0. n \in Positive /\ n \in Int /\ n > 1 /\ 1 % n = 1 /\ 0 % n = 0
  BY PrimeIs DEF Positive
<1>1. x \in Int /\ x * x \in Int /\ x - 1 \in Int /\ x + 1 \in Int
  BY <1>0
<1>2. ((x - 1) * (x + 1)) % n = 0
  <2>1. PICK s \in Int : s = x * x
    BY <1>1
  <2>2. (x - 1) * (x + 1) = s - 1
    BY <1>1, <2>1
  <2>3. PICK o \in Int, z \in Int, d \in Int : o = 1 /\ z = 0 /\ d = s - 1
    OBVIOUS
  <2>4. s % n = o % n
    BY <1>0, <2>1, <2>3
  <2>5. PICK m \in Int : s - o = m * n
    BY <1>0, <2>4, Congruent
  <2>6. \E c \in Int : d - z = c * n
    BY <2>3, <2>5
  <2>7. d % n = z % n
    <3>1. n \in Positive
      BY <1>0
    <3> QED
      BY <2>6, <3>1, Congruent, Zenon
  <2>8. d % n = 0
    BY <1>0, <2>3, <2>7
  <2>9. (x - 1) * (x + 1) = d
    BY <2>2, <2>3
  <2> QED
    BY <2>8, <2>9, Zenon
<1>3. (x - 1) % n # 0
  <2>1. CASE x = 0
    <3>1. SUFFICES ASSUME (x - 1) % n = 0 PROVE FALSE
      OBVIOUS
    <3>2. (x * x) % n = 0
      BY <1>0, <2>1
    <3> QED
      BY <3>2
  <2>2. CASE x # 0
    <3>1. x - 1 \in 0 .. n - 1 /\ x - 1 # 0
      BY <1>0, <1>1, <2>2
    <3> QED
      BY <1>0, <3>1, OwnRemainder
  <2> QED
    BY <2>1, <2>2
<1>4. (x + 1) % n = 0
  <2>1. PICK y \in Int, z \in Int : y = x - 1 /\ z = x + 1
    BY <1>1
  <2>2. (y * z) % n = 0 /\ y % n # 0
    BY <1>2, <1>3, <2>1
  <2>3. z % n = 0
    BY <2>2, NoZeroProduct
  <2> QED
    BY <2>1, <2>3
<1>5. x + 1 = n
  <2>1. CASE x + 1 \in 0 .. n - 1
    <3>1. (x + 1) % n = x + 1
      BY <1>0, <2>1, OwnRemainder
    <3> QED
      BY <1>0, <1>1, <1>4, <3>1
  <2>2. CASE x + 1 \notin 0 .. n - 1
    BY <1>0, <1>1, <2>2
  <2> QED
    BY <2>1, <2>2
<1> QED
  BY <1>0, <1>1, <1>5

IsSquared(f, n, a) ==
    f = [j \in 1 .. Split(n).s |->
            IF j = 1 THEN ModExp(a, Split(n).r, n) ELSE (f[j - 1] * f[j - 1]) % n]

(* The squares of a round are powers of the base. *)
LEMMA SquaredIs ==
    ASSUME NEW n \in Positive, n > 2, n % 2 = 1, NEW a \in Int
    PROVE  /\ \E f : IsSquared(f, n, a)
           /\ \A f : IsSquared(f, n, a) =>
                 \A j \in 1 .. Split(n).s : f[j] = Pow(a, Split(n).r * PowerOfTwo[j - 1], n)
<1>1. PICK s \in Positive, r \in Positive : s = Split(n).s /\ r = Split(n).r
  BY SplitIs
<1> DEFINE y(j) == Pow(a, r * PowerOfTwo[j - 1], n)
<1>2. y(1) = ModExp(a, r, n)
  <2>1. r \in Nat /\ r * PowerOfTwo[1 - 1] = r
    BY PowerOfTwoIs DEF Positive
  <2>2. ModExp(a, r, n) = Pow(a, r, n)
    BY <2>1, BySquaring
  <2> QED
    BY <2>1, <2>2
<1>3. ASSUME NEW j \in 1 .. s, j # 1 PROVE j - 1 \in 1 .. s /\ y(j) = (y(j - 1) * y(j - 1)) % n
  <2>1. PICK i \in Nat : i = j - 2 /\ i + 1 = j - 1 /\ i = (j - 1) - 1 /\ j - 1 \in 1 .. s
    BY <1>3 DEF Positive
  <2>2. PICK P \in Nat : P = PowerOfTwo[i] /\ PowerOfTwo[i + 1] = 2 * P
    <3>1. PowerOfTwo[i] \in Positive /\ PowerOfTwo[i + 1] = 2 * PowerOfTwo[i]
      BY PowerOfTwoIs
    <3> QED
      BY <3>1 DEF Positive
  <2>3. PICK d \in Nat : d = r * P
    BY DEF Positive
  <2>4. r * (2 * P) = d + d
    BY <2>3 DEF Positive
  <2>5. Pow(a, d + d, n) = (Pow(a, d, n) * Pow(a, d, n)) % n
    BY PowerOfSum
  <2>6. y(j) = Pow(a, d + d, n) /\ y(j - 1) = Pow(a, d, n)
    BY <2>1, <2>2, <2>3, <2>4
  <2> QED
    BY <2>1, <2>5, <2>6
<1>4. \E f : IsSquared(f, n, a)
  <2>1. PICK f : f = [j \in 1 .. s |-> y(j)]
    OBVIOUS
  <2> HIDE DEF y
  <2>2. \A j \in 1 .. s : f[j] = IF j = 1 THEN ModExp(a, r, n) ELSE (f[j - 1] * f[j - 1]) % n
    BY <1>2, <1>3, <2>1
  <2>3. f = [j \in 1 .. s |-> f[j]]
    BY <2>1
  <2>4. f = [j \in 1 .. s |-> IF j = 1 THEN ModExp(a, r, n) ELSE (f[j - 1] * f[j - 1]) % n]
    BY <2>2, <2>3, Zenon
  <2>5. IsSquared(f, n, a)
    BY <1>1, <2>4, Zenon DEF IsSquared
  <2> QED
    BY <2>5
<1>5. ASSUME NEW f, IsSquared(f, n, a) PROVE \A j \in 1 .. s : f[j] = y(j)
  <2> HIDE DEF y
  <2>1. \A j \in 1 .. s : f[j] = IF j = 1 THEN ModExp(a, r, n) ELSE (f[j - 1] * f[j - 1]) % n
    BY <1>1, <1>5, Zenon DEF IsSquared
  <2> DEFINE W == {j \in 1 .. s : f[j] # y(j)}
  <2> SUFFICES ASSUME W # {} PROVE FALSE
    OBVIOUS
  <2>2. PICK j \in W : \A i \in W : j <= i
    <3>1. W \subseteq Nat
      OBVIOUS
    <3> HIDE DEF W
    <3> QED
      BY <3>1, Smallest
  <2>3. j \in 1 .. s /\ f[j] # y(j)
    OBVIOUS
  <2>4. j # 1
    BY <1>2, <2>1, <2>3
  <2>5. j - 1 \in 1 .. s /\ ~(j <= j - 1) /\ y(j) = (y(j - 1) * y(j - 1)) % n
    BY <1>3, <2>3, <2>4
  <2>6. f[j - 1] = y(j - 1)
    BY <2>2, <2>5
  <2> QED
    BY <2>1, <2>3, <2>4, <2>5, <2>6
<1> QED
  BY <1>1, <1>4, <1>5

(* An odd prime passes every round. *)
LEMMA PrimesPassRounds ==
    ASSUME NEW n, Prime(n), n > 2, n % 2 = 1, NEW a \in 2 .. n - 2
    PROVE  Passes(n, a)
<1>0. n \in Positive /\ n \in Int /\ a \in Int /\ n - 1 \in Nat
  BY PrimeIs DEF Positive
<1>1. PICK s \in Positive, r \in Positive :
        s = Split(n).s /\ r = Split(n).r /\ n - 1 = r * PowerOfTwo[s]
  BY <1>0, SplitIs
<1> DEFINE f == CHOOSE h : IsSquared(h, n, a)
<1>2. IsSquared(f, n, a)
  BY <1>0, SquaredIs, Zenon
<1> HIDE DEF f
<1> DEFINE y(i) == Pow(a, r * PowerOfTwo[i], n)
<1>3. \A j \in 1 .. s : f[j] = y(j - 1)
  BY <1>0, <1>1, <1>2, SquaredIs
<1>4. y(s) = 1
  <2>1. a % n # 0
    BY <1>0, PrimeIs
  <2> QED
    BY <1>0, <1>1, <2>1, Fermat
<1>5. ASSUME NEW i \in Nat
      PROVE  y(i) \in 0 .. n - 1 /\ y(i + 1) = (y(i) * y(i)) % n
  <2>1. PICK P \in Nat : P = PowerOfTwo[i] /\ PowerOfTwo[i + 1] = 2 * P
    <3>1. PowerOfTwo[i] \in Positive /\ PowerOfTwo[i + 1] = 2 * PowerOfTwo[i]
      BY PowerOfTwoIs
    <3> QED
      BY <3>1 DEF Positive
  <2>2. PICK d \in Nat : d = r * P /\ r * (2 * P) = d + d
    BY DEF Positive
  <2>3. Pow(a, d + d, n) = (Pow(a, d, n) * Pow(a, d, n)) % n
    BY <1>0, PowerOfSum
  <2>4. Pow(a, d, n) \in 0 .. n - 1
    BY <1>0, PowType
  <2> QED
    BY <2>1, <2>2, <2>3, <2>4
<1> HIDE DEF y
<1> DEFINE W == {i \in Nat : y(i) = 1}
<1>6. PICK i \in W : \A j \in W : i <= j
  <2>1. W \subseteq Nat /\ W # {}
    BY <1>4 DEF Positive
  <2> HIDE DEF W
  <2> QED
    BY <2>1, Smallest
<1>7. i \in Nat /\ y(i) = 1 /\ i <= s
  BY <1>4, <1>6 DEF Positive
<1>8. f[1] = 1 \/ \E j \in 1 .. s : f[j] = n - 1
  <2>1. CASE i = 0
    <3>1. 1 \in 1 .. s /\ 1 - 1 = 0
      BY DEF Positive
    <3>2. f[1] = y(0)
      BY <1>3, <3>1
    <3> QED
      BY <1>7, <2>1, <3>2
  <2>2. CASE i # 0
    <3>1. PICK j \in Nat : j = i - 1 /\ j + 1 = i /\ i \in 1 .. s /\ ~(i <= j)
      BY <1>7, <2>2 DEF Positive
    <3>2. y(j) # 1
      BY <1>6, <3>1
    <3>3. PICK x \in 0 .. n - 1 : x = y(j) /\ (x * x) % n = 1
      BY <1>5, <1>7, <3>1
    <3>4. x = n - 1
      BY <3>2, <3>3, RootsOfOne
    <3>5. f[i] = n - 1
      BY <1>3, <3>1, <3>3, <3>4
    <3> QED
      BY <3>1, <3>5
  <2> QED
    BY <2>1, <2>2
<1>9. Passes(n, a) <=> f[1] = 1 \/ \E j \in 1 .. s : f[j] = n - 1
  <2>1. Passes(n, a) <=> f[1] = 1 \/ \E j \in 1 .. Split(n).s : f[j] = n - 1
    BY Zenon DEF Passes, IsSquared, f
  <2> QED
    BY <1>1, <2>1
<1> QED
  BY <1>8, <1>9

(* The Miller-Rabin test takes no prime for composite, whatever the bases  *)
(* drawn; it cannot test 3.                                                *)
THEOREM PrimesPass ==
    \A n \in Nat : IsPrime(n) => MillerRabin(n) = IF n = 3 THEN {-1} ELSE {0}
<1> SUFFICES ASSUME NEW n, Prime(n) PROVE MillerRabin(n) = IF n = 3 THEN {-1} ELSE {0}
  BY DEF Prime
<1>0. n \in Nat /\ n > 1 /\ n # 1
  BY PrimeIs DEF Positive
<1>1. CASE n = 2
  BY <1>1 DEF MillerRabin
<1>2. CASE n # 2
  <2>1. n > 2 /\ n % 2 = 1 /\ n % 2 # 0
    <3>1. 2 \in 2 .. n - 1
      BY <1>0, <1>2
    <3>2. n % 2 # 0
      BY <3>1 DEF Prime, IsPrime
    <3> QED
      BY <1>0, <1>2, <3>2
  <2>2. CASE n = 3
    <3>1. Bases(n) = {NULL}
      BY <2>2 DEF Bases, RandRange
    <3> QED
      BY <1>0, <1>2, <2>1, <2>2, <3>1, Zenon DEF MillerRabin
  <2>3. CASE n # 3
    <3>1. n >= 5
      BY <1>0, <2>1, <2>3
    <3>2. Bases(n) = 2 .. n - 2 /\ 2 \in Bases(n) /\ 3 \in Bases(n)
      <4>1. ~(2 >= n - 1) /\ (n - 1) - 1 = n - 2
        BY <1>0, <3>1
      <4>2. Bases(n) = 2 .. n - 2
        BY <4>1 DEF Bases, RandRange
      <4> QED
        BY <1>0, <3>1, <4>2
    <3>3. Bases(n) # {NULL}
      <4>1. PICK a \in Bases(n), b \in Bases(n) : a # b
        BY <3>2
      <4> QED
        BY <4>1
    <3>4. \A a \in Bases(n) : Passes(n, a)
      BY <2>1, <3>2, PrimesPassRounds
    <3>5. {IF Passes(n, a) THEN 0 ELSE 1 : a \in Bases(n)} = {0}
      BY <3>2, <3>4, Zenon
    <3> QED
      BY <1>0, <1>2, <2>1, <2>3, <3>3, <3>5, Zenon DEF MillerRabin
  <2> QED
    BY <2>2, <2>3
<1> QED
  BY <1>1, <1>2

(* So mpi_probable_prime() may return every odd prime with its two top     *)
(* bits set: neither the trial division nor a round turns one away. 3 it   *)
(* finds in its table only.                                                *)
THEOREM PrimesAreProbable ==
    \A bits \in Nat \ {0, 1} : \A n \in OddTop2(bits) :
        IsPrime(n) /\ (n = 3 => 3 \in TrialPrimes) => n \in ProbablePrimes(bits)
<1> SUFFICES ASSUME NEW bits \in Nat \ {0, 1}, NEW n \in OddTop2(bits),
                    IsPrime(n), n = 3 => 3 \in TrialPrimes
             PROVE  n \in ProbablePrimes(bits)
  OBVIOUS
<1>1. n \in Nat
  <2>1. PICK e \in Nat, P \in Int, Q \in Int :
          e = bits - 2 /\ P = PowerOfTwo[e] /\ P >= 1 /\ Q = PowerOfTwo[bits]
    <3>1. bits - 2 \in Nat /\ bits \in Nat
      OBVIOUS
    <3>2. PowerOfTwo[bits - 2] \in Positive /\ PowerOfTwo[bits] \in Positive
      BY <3>1, PowerOfTwoIs
    <3> QED
      BY <3>1, <3>2 DEF Positive
  <2>2. n \in 3 * P .. Q - 1
    BY <2>1 DEF OddTop2
  <2> QED
    BY <2>1, <2>2
<1>2. ASSUME NEW d \in TrialPrimes, n % d = 0 PROVE d = n
  <2>1. d \in Nat /\ d # 0 /\ d # 1
    BY NumberTheoryAssumption
  <2>2. n > 1
    BY DEF IsPrime
  <2>3. ~(d > n)
    BY <1>1, <1>2, <2>1, <2>2
  <2>4. d \notin 2 .. n - 1
    BY <1>2 DEF IsPrime
  <2> QED
    BY <1>1, <2>1, <2>3, <2>4
<1>3. CASE \E d \in TrialPrimes : n % d = 0
  <2>1. n \in TrialPrimes
    BY <1>2, <1>3
  <2>2. \A d \in TrialPrimes : d < n => n % d # 0
    <3> TAKE d \in TrialPrimes
    <3>1. ~(n < n)
      BY <1>1
    <3> QED
      BY <1>2, <3>1
  <2> QED
    BY <1>3, <2>1, <2>2, Zenon DEF ProbablePrimes
<1>4. CASE ~(\E d \in TrialPrimes : n % d = 0)
  <2>1. n # 3
    <3>1. 3 % 3 = 0
      OBVIOUS
    <3> QED
      BY <1>4, <3>1
  <2>2. 0 \in MillerRabin(n)
    BY <1>1, <2>1, PrimesPass
  <2> QED
    BY <1>4, <2>2, Zenon DEF ProbablePrimes
<1> QED
  BY <1>3, <1>4
=============================================================================
