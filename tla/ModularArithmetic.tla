------------------------- MODULE ModularArithmetic -------------------------
(***************************************************************************)
(* The functions of src/src/mpi0.c that srp.c, ssrp.c, rsa.c and mpi.c     *)
(* compute modulo a number with, when memory does not run out.             *)
(***************************************************************************)
EXTENDS Integers

(* mpi_mod_mul(), mpi_mod_add() *)
ModMul(p, q, n) == (p * q) % n
ModAdd(p, q, n) == (p + q) % n

(* mpi_mod_exp(): by squaring, the bits of e from the lowest. The base may *)
(* be negative.                                                            *)
ModExp(base, e, n) ==
    LET power[i \in 0 .. e] ==
            IF i = 0 THEN 1 % n
            ELSE LET half == power[i \div 2]
                     square == (half * half) % n
                 IN  IF i % 2 = 0 THEN square ELSE (square * base) % n
    IN  power[e]

IsPrime(n) == n > 1 /\ \A k \in 2 .. n - 1 : n % k # 0
=============================================================================
