--------------------------- MODULE SrpArithmetic ---------------------------
(***************************************************************************)
(* The numbers of one agreement of src/src/srp.c ("srp") and of            *)
(* src/src/ssrp.c ("ssrp"): what the client and the server compute, modulo *)
(* a small prime, when no memory runs out. x stands for SHA256(salt | P)   *)
(* and u for SHA256(A | B), or ssrp's random u: any numbers below H, where *)
(* H * H <= N as 2^256 * 2^256 is below the real N of 1536 bits.           *)
(***************************************************************************)
EXTENDS ModularArithmetic

CONSTANTS
    N, g, k,    \* srp_parameters(): a prime, a generator, a multiplier
    H           \* how many values the hash has

ASSUME ArithmeticAssumption ==
    /\ N \in Nat \ {0, 1, 2} /\ IsPrime(N)
    /\ g \in 1 .. N - 1
    /\ k \in 1 .. N - 1
    /\ H \in Nat \ {0} /\ H * H <= N

(* mpi_rand_range_from_one_to(N) *)
Randoms == 1 .. N - 1

(* S = (A * v**u) ** b % N, where v = g**x % N: both servers. *)
ServerSecret(pub, hx, hu, priv) ==
    LET v == ModExp(g, hx, N) IN ModExp(ModMul(pub, ModExp(v, hu, N), N), priv, N)

(* B = k * v + g**b % N, or B = g**b % N. *)
SrpB(hx, priv) == ModAdd(ModMul(k, ModExp(g, hx, N), N), ModExp(g, priv, N), N)
SsrpB(priv) == ModExp(g, priv, N)

(* Fault: the verifier is subtracted without its multiplier. *)
SrpClientSecretNoK(pub, hx, hu, priv) ==
    ModExp(pub - ModExp(g, hx, N), ModAdd(priv, ModMul(hu, hx, N), N), N)

(* srp.c: the difference may be negative, and the exponent is reduced      *)
(* modulo N.                                                               *)
SrpClientSecret(pub, hx, hu, priv) ==
    LET lhs == pub - ModMul(k, ModExp(g, hx, N), N)
        rhs == ModAdd(priv, ModMul(hu, hx, N), N)
    IN  ModExp(lhs, rhs, N)

(* ssrp.c: the exponent is not reduced. *)
SsrpClientSecret(pub, hx, hu, priv) == ModExp(pub, priv + hu * hx, N)

(***************************************************************************)
(* Properties.                                                             *)
(***************************************************************************)

(* A client with the server's password gets the same x as the server, and  *)
(* with it, in srp.c, the same S exactly when a + u * x was not reduced, or *)
(* when g**b is 1 and the exponent is irrelevant. This is the "exact" of   *)
(* Srp: at the real size the exponent reaches N for less than one a in     *)
(* 2^1023, and S differs then. In ssrp.c the two always agree.             *)
SecretsAgree ==
    \A a, b \in Randoms, x, u \in 0 .. H - 1 :
        LET A == ModExp(g, a, N)
            S == ServerSecret(A, x, u, b)
        IN  /\ (SrpClientSecret(SrpB(x, b), x, u, a) = S) =
                    (a + u * x < N \/ ModExp(g, b, N) = 1)
            /\ SsrpClientSecret(SsrpB(b), x, u, a) = S
=============================================================================
