------------------------------- MODULE MCRsa -------------------------------
(***************************************************************************)
(* PublicKey for TLC: p and q of seven bits, among which trial division by *)
(* 2 and 3 and one round of Miller-Rabin leave a composite one, 125; SRP   *)
(* modulo 23. The number theory is looked at once, in the initial state.   *)
(***************************************************************************)
EXTENDS PublicKey

MCTrialPrimes == {2, 3}
MCRadicands == 0 .. 1400

(* No prime is taken for composite, and few bases lie about a composite    *)
(* number: miller_rabin_test() for every odd number up to 301.             *)
WitnessesAreSound == pc = "start" => \A m \in 1 .. 150 : SoundWitnesses(2 * m + 1)
=============================================================================
