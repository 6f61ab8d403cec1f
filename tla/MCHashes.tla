------------------------------ MODULE MCHashes ------------------------------
(***************************************************************************)
(* Hashes for TLC: blocks of eight bytes of two bits, of which three are   *)
(* the length, and hashes of five bytes. Every byte of what is hashed is   *)
(* told from the others and from every byte of a padding. Keys are of up   *)
(* to two blocks for the MACs.                                             *)
(***************************************************************************)
EXTENDS Hashes

MCData(place) == - 1 - place
MCLengths == 0 .. 25
MCResumed == 0 .. 7

MacText(n) == [k \in 1 .. n |-> [text |-> k]]

MCMacKeys == {MacText(n) : n \in 0 .. 2 * BlockSize}
MCMacTexts == {MacText(n) : n \in 0 .. 2}
=============================================================================
