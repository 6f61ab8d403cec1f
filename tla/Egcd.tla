-------------------------------- MODULE Egcd --------------------------------
(***************************************************************************)
(* mpi_egcd() of src/src/mpi.c, the binary extended gcd algorithm, and     *)
(* mpi_mod_inv(), which calls it on (m, a). One step is one iteration of   *)
(* one of its loops. The numbers are those of the bignum library, without *)
(* bound; any call to it may run out of memory.                            *)
(***************************************************************************)
EXTENDS Integers

CONSTANTS
    Moduli,     \* the first arguments of mpi_egcd(): m in mpi_mod_inv()
    Numbers,    \* the second ones: a
    NULL

ASSUME EgcdAssumption ==
    /\ Moduli \subseteq Nat
    /\ Numbers \subseteq Nat
    /\ NULL \notin Int

VARIABLES
    cx, cy,     \* the arguments: m and a in mpi_mod_inv()
    pc,         \* the loop: "common", "u", "v", "subtract"; then "done", "returned"
    x, y, g,    \* the arguments without the powers of two they share, and those
    u, v,       \* the two numbers that shrink
    A, B,       \* their coefficients: A * x + B * y = u
    C, D,       \* and C * x + D * y = v
    inv         \* what mpi_mod_inv() returns

numbers == <<x, y, g, u, v, A, B, C, D>>
vars == <<cx, cy, pc, numbers, inv>>

Even(n) == n % 2 = 0

(* mpi_rshift1_mut(): the magnitude is shifted, the sign is kept. *)
Rshift1(n) == IF n >= 0 THEN n \div 2 ELSE - ((- n) \div 2)

(* mpi_dup() of the arguments; u to D do not exist yet. *)
Init ==
    /\ cx \in Moduli
    /\ cy \in Numbers
    /\ pc = "common"
    /\ x = cx
    /\ y = cy
    /\ g = 1
    /\ u = 0 /\ v = 0
    /\ A = 1 /\ B = 0 /\ C = 0 /\ D = 1
    /\ inv = NULL

(* Fault: the factor is not counted. *)
HalveUncounted ==
    /\ pc = "common"
    /\ Even(x) /\ Even(y)
    /\ x' = Rshift1(x)
    /\ y' = Rshift1(y)
    /\ UNCHANGED <<cx, cy, pc, g, u, v, A, B, C, D, inv>>

HalveBoth ==
    /\ pc = "common"
    /\ Even(x) /\ Even(y)
    /\ x' = Rshift1(x)
    /\ y' = Rshift1(y)
    /\ g' = 2 * g
    /\ UNCHANGED <<cx, cy, pc, u, v, A, B, C, D, inv>>

Enter ==
    /\ pc = "common"
    /\ ~ (Even(x) /\ Even(y))
    /\ pc' = "u"
    /\ u' = x
    /\ v' = y
    /\ UNCHANGED <<cx, cy, x, y, g, A, B, C, D, inv>>

(* Fault: y and x are only added when both coefficients are odd. *)
HalveBothOdd(p, q) ==
    IF Even(p) \/ Even(q)
    THEN <<Rshift1(p), Rshift1(q)>>
    ELSE <<Rshift1(p + y), Rshift1(q - x)>>

(* The halves of the coefficients p of x and q of y; adding y to one and   *)
(* subtracting x from the other leaves their sum alone and makes both even.*)
Halved(p, q) ==
    IF Even(p) /\ Even(q)
    THEN <<Rshift1(p), Rshift1(q)>>
    ELSE <<Rshift1(p + y), Rshift1(q - x)>>

HalveU ==
    /\ pc = "u"
    /\ Even(u)
    /\ u' = Rshift1(u)
    /\ A' = Halved(A, B)[1]
    /\ B' = Halved(A, B)[2]
    /\ UNCHANGED <<cx, cy, pc, x, y, g, v, C, D, inv>>

UIsOdd ==
    /\ pc = "u"
    /\ ~ Even(u)
    /\ pc' = "v"
    /\ UNCHANGED <<cx, cy, numbers, inv>>

HalveV ==
    /\ pc = "v"
    /\ Even(v)
    /\ v' = Rshift1(v)
    /\ C' = Halved(C, D)[1]
    /\ D' = Halved(C, D)[2]
    /\ UNCHANGED <<cx, cy, pc, x, y, g, u, A, B, inv>>

VIsOdd ==
    /\ pc = "v"
    /\ ~ Even(v)
    /\ pc' = "subtract"
    /\ UNCHANGED <<cx, cy, numbers, inv>>

(* Fault: u - v only when u is greater. *)
SubtractWhenGreater ==
    /\ pc = "subtract"
    /\ u > v
    /\ u' = u - v
    /\ A' = A - C
    /\ B' = B - D
    /\ IF u' = 0 THEN pc' = "done" /\ v' = v * g
                 ELSE pc' = "u" /\ v' = v
    /\ UNCHANGED <<cx, cy, x, y, g, C, D, inv>>

(* The loop ends with u = 0 and the common factor given back to v. *)
SubtractFromU ==
    /\ pc = "subtract"
    /\ u >= v
    /\ u' = u - v
    /\ A' = A - C
    /\ B' = B - D
    /\ IF u' = 0 THEN pc' = "done" /\ v' = v * g
                 ELSE pc' = "u" /\ v' = v
    /\ UNCHANGED <<cx, cy, x, y, g, C, D, inv>>

SubtractFromV ==
    /\ pc = "subtract"
    /\ u < v
    /\ v' = v - u
    /\ C' = C - A
    /\ D' = D - B
    /\ pc' = "u"
    /\ UNCHANGED <<cx, cy, x, y, g, u, A, B, inv>>

(* Every goto cleanup: mpi_egcd() returns -1 and mpi_mod_inv() NULL. *)
RunsOutOfMemory ==
    /\ pc \notin {"returned", "failed"}
    /\ pc' = "failed"
    /\ UNCHANGED <<cx, cy, numbers, inv>>

(* Fault: the gcd is not looked at. *)
ModInvAnyGcd ==
    /\ pc = "done"
    /\ pc' = "returned"
    /\ inv' = IF D < 0 THEN D + cx ELSE D
    /\ UNCHANGED <<cx, cy, numbers>>

(* The rest of mpi_mod_inv(), where cx is m. *)
ModInv ==
    /\ pc = "done"
    /\ pc' = "returned"
    /\ inv' = IF v # 1 THEN NULL ELSE IF D < 0 THEN D + cx ELSE D
    /\ UNCHANGED <<cx, cy, numbers>>

Step ==
    \/ HalveBoth \/ Enter
    \/ HalveU \/ UIsOdd
    \/ HalveV \/ VIsOdd
    \/ SubtractFromU \/ SubtractFromV
    \/ ModInv

Next == Step \/ RunsOutOfMemory

Spec == Init /\ [][Next]_vars

(* The program goes on, and memory need not run out. *)
FairSpec == Spec /\ WF_vars(Step)

(***************************************************************************)
(* Properties.                                                             *)
(***************************************************************************)

Divides(d, n) == \E q \in Int : n = d * q

(* The numbers are integers, and none but the coefficients is negative. *)
TypeOK ==
    /\ cx \in Moduli /\ cy \in Numbers
    /\ pc \in {"common", "u", "v", "subtract", "done", "returned", "failed"}
    /\ x \in Nat /\ y \in Nat /\ g \in Nat \ {0} /\ u \in Nat /\ v \in Nat
    /\ A \in Int /\ B \in Int /\ C \in Int /\ D \in Int
    /\ inv \in Int \union {NULL}

(* u and v are the combinations of x and y that their coefficients say, in *)
(* every iteration: no shift ever drops a bit of an odd number, and no     *)
(* branch forgets one of the two coefficients.                             *)
Bezout ==
    /\ cx = g * x /\ cy = g * y
    /\ pc \in {"u", "v", "subtract"} => A * x + B * y = u /\ C * x + D * y = v

(* mpi_egcd() returns v = a * x + b * y, and this v divides both arguments: *)
(* together, v is the greatest common divisor.                             *)
ResultIsGcd ==
    pc \in {"done", "returned"} =>
        /\ C * cx + D * cy = v
        /\ \E q \in 0 .. cx : cx = v * q
        /\ \E q \in 0 .. cy : cy = v * q

(* mpi_mod_inv(a, m) returns NULL exactly when a has no inverse modulo m, *)
(* and else a number congruent to it. How far from 0 .. m - 1 that may be  *)
(* grows with m: 16387 and 65512 give a number above 2 * 65512.            *)
InverseIsCongruent ==
    pc = "returned" /\ cx > 1 =>
        IF inv = NULL
        THEN ~ \E i \in 0 .. cx - 1 : (i * cy) % cx = 1
        ELSE (inv * cy) % cx = 1

(* What the comment in mpi_mod_inv() promises, "If the inverse is negative, *)
(* add m to it": the number returned is not negative. One addition is not  *)
(* always enough.                                                          *)
InverseIsNotNegative == pc = "returned" /\ inv # NULL => inv >= 0

(* The loops end for all arguments but 0. *)
Terminates == <>(pc \in {"returned", "failed"})

(* What mpi.h says of mpi_mod_inv(): "Returns NULL if [...] a is not       *)
(* invertible modulo m (i.e. gcd(a, b) != 1)." So it returns for a = 0.    *)
ModInvReturns == <>(pc \in {"returned", "failed"})
=============================================================================
