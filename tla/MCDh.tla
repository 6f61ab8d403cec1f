-------------------------------- MODULE MCDh --------------------------------
(***************************************************************************)
(* Dh for TLC: three clients, so that any two can leave the third with a  *)
(* stale key.                                                              *)
(***************************************************************************)
EXTENDS Dh, TLC

CONSTANTS ann, ben, cleo

MCParties == {ann, ben, cleo}
Symmetry == Permutations(MCParties)
=============================================================================
