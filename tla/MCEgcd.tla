------------------------------- MODULE MCEgcd -------------------------------
(***************************************************************************)
(* Egcd for TLC: every modulus and every number up to Largest.             *)
(***************************************************************************)
EXTENDS Egcd

Largest == 40

MCModuli == 1 .. Largest
Positive == 1 .. Largest
WithZero == 0 .. Largest
=============================================================================
