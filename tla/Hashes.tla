------------------------------- MODULE Hashes -------------------------------
(***************************************************************************)
(* The hash functions and the MACs that are made of one.                   *)
(***************************************************************************)
EXTENDS HashContext, Mac

(* A MAC is whole or NULL: whichever calls fail, hmac() returns what RFC   *)
(* 2104 defines, for keys shorter, longer and as long as a block, or NULL; *)
(* it returns NULL only when one failed; and no secret-prefix MAC is       *)
(* verified but the right one. MACs keep no state: before any call is as   *)
(* good a moment as another.                                               *)
MacIsWholeOrNull ==
    algorithm = "none" =>
        \A key \in MacKeys, msg \in MacTexts, failing \in SUBSET Calls :
            HmacIsWholeOrNull(key, msg, failing) /\ OnlyItsOwnVerifies(key, msg, failing)
=============================================================================
