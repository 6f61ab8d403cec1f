-------------------------------- MODULE Rsa --------------------------------
(***************************************************************************)
(* src/src/rsa.c: key generation, with the ownership of every number it    *)
(* allocates, then encryption and decryption with the keys, until the      *)
(* program frees them. Any call that returns a number may run out of       *)
(* memory and return NULL.                                                 *)
(***************************************************************************)
EXTENDS NumberTheory, Sequences

CONSTANTS
    Bits,       \* bits / 2: the size of p and q
    MaxRounds,  \* bound: how often the loop draws p and q
    Base        \* how many values a byte has

ASSUME RsaAssumption ==
    /\ Bits \in Nat \ {0, 1, 2}
    /\ MaxRounds \in Nat
    /\ Base \in Nat \ {0, 1}

Locals == {"p", "q", "p_1", "q_1", "phi", "e", "d", "n", "ndup"}

VARIABLES
    pc,         \* the next block of rsa_keygen(), up to its check for NULL
    local,      \* per local variable, a number [id, val] or NULL
    frees,      \* per number, how often it was passed to mpi_free()
    privk,      \* the private key: [d, n], or NULL
    pubk,       \* the public key: [e, n], or NULL
    round,      \* iterations of the loop
    at,         \* the next call of mpi_free() in the cleanup, counted from 1
    primes      \* history: the values of p and q in the last iteration

vars == <<pc, local, frees, privk, pubk, round, at, primes>>

Init ==
    /\ pc = "start"
    /\ local = [x \in Locals |-> NULL]
    /\ frees = <<>>
    /\ privk = NULL
    /\ pubk = NULL
    /\ round = 0
    /\ at = 1
    /\ primes = <<>>

(***************************************************************************)
(* Allocation: the local variables and the counts after x was set to a     *)
(* number that was allocated, or to the NULL of an allocation that failed. *)
(***************************************************************************)

Before(l, f) == [local |-> l, frees |-> f]

Allocated(made, x, value) ==
    IF value = NULL
    THEN [local |-> [made.local EXCEPT ![x] = NULL], frees |-> made.frees]
    ELSE [local |-> [made.local EXCEPT ![x] = [id |-> Len(made.frees) + 1, val |-> value]],
          frees |-> Append(made.frees, 0)]

Become(made) == local' = made.local /\ frees' = made.frees

(* f after mpi_free() of each variable in names, a sequence. *)
Freed(l, f, names) ==
    [id \in DOMAIN f |->
        f[id] + Cardinality({k \in DOMAIN names :
                                l[names[k]] # NULL /\ l[names[k]].id = id})]

Missing(names) == \E x \in names : local'[x] = NULL

(***************************************************************************)
(* rsa_keygen()                                                            *)
(***************************************************************************)

(* A NULL argument is refused. *)
Start ==
    /\ pc = "start"
    /\ pc' \in {"primes", "cleanup"}
    /\ UNCHANGED <<local, frees, privk, pubk, round, at, primes>>

(* mpi_probable_prime() twice, then a number one less of each. *)
Drawn(made, p, q, p_1, q_1) ==
    Allocated(Allocated(Allocated(Allocated(made, "p", p), "q", q), "p_1", p_1), "q_1", q_1)

OneLess(number, fails) == IF number = NULL \/ fails THEN NULL ELSE number - 1

(* Fault: the numbers of the previous iteration are not freed. *)
DrawPrimesLeaks ==
    /\ pc = "primes"
    /\ round < MaxRounds
    /\ round' = round + 1
    /\ \E p, q \in ProbablePrimes(Bits) \union {NULL}, noP_1, noQ_1 \in BOOLEAN :
        /\ Become(Drawn(Before(local, frees), p, q, OneLess(p, noP_1), OneLess(q, noQ_1)))
        /\ primes' = <<p, q>>
    /\ pc' = IF Missing({"p", "q", "p_1", "q_1"}) THEN "cleanup" ELSE "coprime"
    /\ UNCHANGED <<privk, pubk, at>>

(* The numbers of the previous iteration are freed before any of the four  *)
(* variables is set again.                                                 *)
DrawPrimes ==
    /\ pc = "primes"
    /\ round < MaxRounds
    /\ round' = round + 1
    /\ \E p, q \in ProbablePrimes(Bits) \union {NULL}, noP_1, noQ_1 \in BOOLEAN :
        /\ Become(Drawn(Before(local, Freed(local, frees, <<"q_1", "p_1", "q", "p">>)),
                        p, q, OneLess(p, noP_1), OneLess(q, noQ_1)))
        /\ primes' = <<p, q>>
    /\ pc' = IF Missing({"p", "q", "p_1", "q_1"}) THEN "cleanup" ELSE "coprime"
    /\ UNCHANGED <<privk, pubk, at>>

(* The condition of the loop. mpi_modi() returns UINT64_MAX when it fails, *)
(* which passes for a remainder that is not 0.                             *)
Coprime ==
    /\ pc = "coprime"
    /\ \E failed \in BOOLEAN :
        pc' = IF ~ failed /\ (local["p_1"].val % 3 = 0 \/ local["q_1"].val % 3 = 0)
              THEN "primes" ELSE "exponents"
    /\ UNCHANGED <<local, frees, privk, pubk, round, at, primes>>

(* mpi_mod_inv(3, phi), as Egcd has it: NULL without an inverse. *)
ModInv(phi) ==
    IF phi % 3 = 0 THEN NULL ELSE CHOOSE d \in 1 .. phi : (3 * d) % phi = 1 % phi

(* phi and e are allocated, then d when neither is NULL. *)
Exponents ==
    /\ pc = "exponents"
    /\ LET phi == local["p_1"].val * local["q_1"].val IN
       \/ \E failed \in {<<phi, NULL>>, <<NULL, 3>>, <<NULL, NULL>>} :
            /\ Become(Allocated(Allocated(Before(local, frees), "phi", failed[1]), "e", failed[2]))
            /\ pc' = "cleanup"
       \/ \E d \in {NULL, ModInv(phi)} :
            /\ Become(Allocated(Allocated(Allocated(Before(local, frees), "phi", phi), "e", 3), "d", d))
            /\ pc' = IF d = NULL THEN "cleanup" ELSE "modulus"
    /\ UNCHANGED <<privk, pubk, round, at, primes>>

(* mpi_dup(NULL) is NULL. *)
Modulus ==
    /\ pc = "modulus"
    /\ LET n == local["p"].val * local["q"].val IN
       \E new \in {<<n, n>>, <<n, NULL>>, <<NULL, NULL>>} :
        /\ Become(Allocated(Allocated(Before(local, frees), "n", new[1]), "ndup", new[2]))
        /\ pc' = IF new[2] = NULL THEN "cleanup" ELSE "keys"
    /\ UNCHANGED <<privk, pubk, round, at, primes>>

(* calloc() of a key fails; a key that was allocated has no numbers yet, so *)
(* that freeing it changes nothing here.                                   *)
KeysFail ==
    /\ pc = "keys"
    /\ pc' = "cleanup"
    /\ UNCHANGED <<local, frees, privk, pubk, round, at, primes>>

(* Fault: ndup moves to the key, but is not set to NULL. *)
KeysKeepNdup ==
    /\ pc = "keys"
    /\ privk' = [d |-> local["d"], n |-> local["n"]]
    /\ pubk' = [e |-> local["e"], n |-> local["ndup"]]
    /\ local' = [x \in Locals |-> IF x \in {"d", "n", "e"} THEN NULL ELSE local[x]]
    /\ pc' = "cleanup"
    /\ UNCHANGED <<frees, round, at, primes>>

(* The numbers move to the keys, and the keys to the caller. *)
KeysSucceed ==
    /\ pc = "keys"
    /\ privk' = [d |-> local["d"], n |-> local["n"]]
    /\ pubk' = [e |-> local["e"], n |-> local["ndup"]]
    /\ local' = [x \in Locals |-> IF x \in {"d", "n", "e", "ndup"} THEN NULL ELSE local[x]]
    /\ pc' = "cleanup"
    /\ UNCHANGED <<frees, round, at, primes>>

(* ndup is there twice, and d is not. *)
CleanupList == <<"ndup", "e", "phi", "q_1", "p_1", "ndup", "n", "q", "p">>

(* One mpi_free() after the other; the variables keep what they point to. *)
FreeLocal ==
    /\ pc = "cleanup"
    /\ at <= Len(CleanupList)
    /\ frees' = Freed(local, frees, <<CleanupList[at]>>)
    /\ at' = at + 1
    /\ UNCHANGED <<pc, local, privk, pubk, round, primes>>

LeaveKeygen ==
    /\ pc = "cleanup"
    /\ at > Len(CleanupList)
    /\ local' = [x \in Locals |-> NULL]
    /\ pc' = "returned"
    /\ UNCHANGED <<frees, privk, pubk, round, at, primes>>

(* rsa_privkey_free() and rsa_pubkey_free(), by the caller. *)
FreeKeys ==
    /\ pc = "returned"
    /\ privk # NULL
    /\ LET held == [d |-> privk.d, n |-> privk.n, e |-> pubk.e, ndup |-> pubk.n]
       IN  frees' = Freed(held, frees, <<"d", "n", "e", "ndup">>)
    /\ privk' = NULL
    /\ pubk' = NULL
    /\ pc' = "done"
    /\ UNCHANGED <<local, round, at, primes>>

Next ==
    \/ Start \/ DrawPrimes \/ Coprime \/ Exponents \/ Modulus
    \/ KeysFail \/ KeysSucceed \/ FreeLocal \/ LeaveKeygen \/ FreeKeys

Spec == Init /\ [][Next]_vars

(***************************************************************************)
(* rsa_encrypt() and rsa_decrypt(), when no memory runs out.               *)
(***************************************************************************)

FromBytes(buf) ==
    LET value[k \in 0 .. Len(buf)] == IF k = 0 THEN 0 ELSE value[k - 1] * Base + buf[k]
    IN  value[Len(buf)]

(* Fault: what the library does with zero, which is to give no byte. *)
ToBytesOfLibrary(number) ==
    LET bytes[m \in 0 .. number] ==
            IF m = 0 THEN <<>> ELSE Append(bytes[m \div Base], m % Base)
    IN  bytes[number]

(* The shortest representation, and a single 0 for zero. *)
ToBytes(number) ==
    LET bytes[m \in 0 .. number] ==
            IF m = 0 THEN <<>> ELSE Append(bytes[m \div Base], m % Base)
    IN  IF number = 0 THEN <<0>> ELSE bytes[number]

Crypt(buf, exponent, n) ==
    IF FromBytes(buf) >= n THEN NULL
    ELSE ToBytes(ModExp(FromBytes(buf), exponent, n))

Encrypt(plaintext) == Crypt(plaintext, pubk.e.val, pubk.n.val)
Decrypt(ciphertext) == Crypt(ciphertext, privk.d.val, privk.n.val)

(***************************************************************************)
(* Properties.                                                             *)
(***************************************************************************)

Held(key) == IF key = NULL THEN {} ELSE {key[x].id : x \in DOMAIN key}

(* The call of mpi_free() that comes next in the cleanup is for a number  *)
(* that was freed before.                                                  *)
FreesAgain ==
    /\ pc = "cleanup"
    /\ at <= Len(CleanupList)
    /\ local[CleanupList[at]] # NULL
    /\ frees[local[CleanupList[at]].id] > 0

(* No number is used after it was freed, in any iteration of the loop, with *)
(* one exception: when calloc() of a key fails, the only way to get to the *)
(* cleanup with an ndup, mpi_free() is called for it again. The numbers of *)
(* the keys are not freed by rsa_keygen(), and the two keys share none:    *)
(* each can be freed without the other.                                    *)
OnlyNdupUsedAfterFree ==
    /\ pc # "cleanup" => \A x \in Locals : local[x] # NULL => frees[local[x].id] = 0
    /\ FreesAgain <=> pc = "cleanup" /\ at = 6 /\ local["ndup"] # NULL
    /\ FreesAgain => privk = NULL
    /\ \A id \in Held(privk) \union Held(pubk) : frees[id] = 0
    /\ Held(privk) \intersect Held(pubk) = {}

(* When the keys were generated, and freed by the caller, every number     *)
(* rsa_keygen() allocated was freed, and only once.                        *)
SuccessFreesAll == pc = "done" => \A id \in DOMAIN frees : frees[id] = 1

(* What mpi.h says of every function that returns a number, "a pointer to a *)
(* newly allocated mpi struct that should passed to mpi_free()", holds of  *)
(* rsa_keygen() when it fails, too.                                        *)
FailureFreesAll ==
    pc = "returned" /\ privk = NULL => \A id \in DOMAIN frees : frees[id] = 1

WithoutLeadingZeros(buf) ==
    IF \A k \in DOMAIN buf : buf[k] = 0 THEN <<0>>
    ELSE LET first == CHOOSE k \in DOMAIN buf : buf[k] # 0 /\ \A j \in 1 .. k - 1 : buf[j] = 0
         IN  SubSeq(buf, first, Len(buf))

(* Decryption inverts encryption for every plaintext below the modulus, up *)
(* to the zero bytes it begins with, when the probable primes are primes;  *)
(* but not for the prime itself when p and q were drawn alike, which       *)
(* nothing prevents.                                                       *)
DecryptionInverts ==
    pc = "returned" /\ privk # NULL /\ IsPrime(primes[1]) /\ IsPrime(primes[2]) =>
        LET plaintexts == {<<x>> : x \in 0 .. Base - 1}
                            \union {<<y, x>> : y \in {0, 1}, x \in 0 .. Base - 1}
            inverted   == \A buf \in plaintexts :
                            FromBytes(buf) < pubk.n.val =>
                                Decrypt(Encrypt(buf)) = WithoutLeadingZeros(buf)
        IN  IF primes[1] # primes[2] THEN inverted
            ELSE primes[1] < 2 * Base => ~ inverted
=============================================================================
