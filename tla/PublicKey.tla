----------------------------- MODULE PublicKey -----------------------------
(***************************************************************************)
(* The numbers of rsa.c, srp.c and ssrp.c, which are computed with the     *)
(* same functions of mpi.c and rest on the same facts about primes.        *)
(***************************************************************************)
EXTENDS Rsa, SrpArithmetic

CONSTANT Radicands      \* numbers whose cube root is taken

ASSUME RadicandsAssumption == Radicands \subseteq Nat

(* The secrets of a client and a server of srp.c and of ssrp.c agree as    *)
(* SecretsAgree says, before anything else is computed.                    *)
ArithmeticAgrees == pc = "start" => SecretsAgree

(* mpi_cbrt() is exact, also one below and one above every cube, and has   *)
(* no result for 0 only.                                                   *)
CubeRootsAreExact == pc = "start" => \A n \in Radicands : CbrtIsFloor(n)
=============================================================================
