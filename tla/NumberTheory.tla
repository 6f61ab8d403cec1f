---------------------------- MODULE NumberTheory ----------------------------
(***************************************************************************)
(* The number theory of src/src/mpi.c that is not in Egcd: random ranges, *)
(* the Miller-Rabin test, the search for a probable prime and the cube     *)
(* root, as functions from their arguments to the set of what they may     *)
(* return when memory does not run out. A loop is a recursive function of  *)
(* what it changes.                                                        *)
(***************************************************************************)
EXTENDS ModularArithmetic, FiniteSets

CONSTANTS
    TrialPrimes,    \* primes, the table of the trial division: the primes below 256
    Rounds,         \* t, how often the Miller-Rabin test is repeated
    NULL

ASSUME NumberTheoryAssumption ==
    /\ TrialPrimes \subseteq Nat \ {0, 1}
    /\ Rounds \in Nat \ {0}

PowerOfTwo[e \in Nat] == IF e = 0 THEN 1 ELSE 2 * PowerOfTwo[e - 1]

(* min <= n < max: nothing when the range is empty. *)
RandRange(min, max) == IF min >= max THEN {NULL} ELSE min .. max - 1

(***************************************************************************)
(* miller_rabin_test(): n - 1 = 2**s * r, r odd.                           *)
(***************************************************************************)

Split(n) ==
    LET split[r \in 1 .. n - 1] ==
            IF r % 2 = 1 THEN [s |-> 0, r |-> r]
            ELSE [split[r \div 2] EXCEPT !.s = @ + 1]
    IN  split[n - 1]

(* Fault: y is squared once too few. *)
PassesTooFew(n, a) ==
    LET d == Split(n)
        squared[j \in 1 .. d.s] ==
            IF j = 1 THEN ModExp(a, d.r, n) ELSE (squared[j - 1] * squared[j - 1]) % n
    IN  squared[1] = 1 \/ \E j \in 1 .. d.s - 1 : squared[j] = n - 1

(* One round, with the base a: y = a**r % n is 1, or one of its squares, of *)
(* which at most s - 1 are taken, is n - 1.                                *)
Passes(n, a) ==
    LET d == Split(n)
        squared[j \in 1 .. d.s] ==
            IF j = 1 THEN ModExp(a, d.r, n) ELSE (squared[j - 1] * squared[j - 1]) % n
    IN  squared[1] = 1 \/ \E j \in 1 .. d.s : squared[j] = n - 1

Bases(n) == RandRange(2, n - 1)

(* 0 for a probable prime, 1 for a composite number, -1 on failure. *)
MillerRabin(n) ==
    IF n = 1 THEN {1}
    ELSE IF n = 2 THEN {0}
    ELSE IF n % 2 = 0 THEN {1}
    ELSE IF Bases(n) = {NULL} THEN {-1}
    ELSE {IF Passes(n, a) THEN 0 ELSE 1 : a \in Bases(n)}

(* mpi_rand_odd_top2() *)
OddTop2(bits) == {n \in 3 * PowerOfTwo[bits - 2] .. PowerOfTwo[bits] - 1 : n % 2 = 1}

(* mpi_probable_prime(): trial division decides when it finds a divisor, or *)
(* the number is in the table; Miller-Rabin otherwise. With few rounds a   *)
(* composite number may be returned.                                       *)
ProbablePrimes(bits) ==
    {n \in OddTop2(bits) :
        IF \E d \in TrialPrimes : n % d = 0
        THEN n \in TrialPrimes /\ \A d \in TrialPrimes : d < n => n % d # 0
        ELSE 0 \in MillerRabin(n)}

(***************************************************************************)
(* mpi_cbrt(): Newton's method from a power of two above the root.         *)
(***************************************************************************)

NumBits(n) == CHOOSE bits \in 1 .. n : PowerOfTwo[bits - 1] <= n /\ n < PowerOfTwo[bits]

(* Fault: a first guess that may be below the root. *)
GuessTooLow(n) == PowerOfTwo[NumBits(n) \div 3]

Guess(n) == PowerOfTwo[NumBits(n) \div 3 + 1]

Cbrt(n) ==
    LET newton[a \in 1 .. Guess(n)] ==
            LET d == n \div (a * a)
            IN  IF a <= d THEN a ELSE newton[(2 * a + d) \div 3]
    IN  IF n <= 0 THEN NULL ELSE newton[Guess(n)]

(***************************************************************************)
(* What they are for.                                                      *)
(***************************************************************************)

(* The Miller-Rabin test takes no odd prime for composite, whatever the   *)
(* bases drawn, and for a composite number at most a quarter of the bases  *)
(* are liars: that is what the number of rounds was chosen by. 3 is the    *)
(* one prime it cannot test.                                               *)
SoundWitnesses(n) ==
    IF IsPrime(n)
    THEN MillerRabin(n) = IF n = 3 THEN {-1} ELSE {0}
    ELSE 4 * Cardinality({a \in Bases(n) : Passes(n, a)}) <= n - 1

(* mpi_cbrt() is the cube root rounded down, exactly; but it fails for 0,  *)
(* although mpi.h asks for a number that is not negative.                  *)
CbrtIsFloor(n) ==
    LET root == Cbrt(n)
    IN  IF n = 0 THEN root = NULL
        ELSE root * root * root <= n /\ n < (root + 1) * (root + 1) * (root + 1)
=============================================================================
