----------------------------- MODULE MCMt19937 -----------------------------
(***************************************************************************)
(* Mt19937 for TLC: five words of three bits, with the far word more than *)
(* half the state away, as 397 of 624 is. Every seed, and states in which  *)
(* each word is seen to be where it is. A byte is one bit, and a text      *)
(* needs two twists and part of a number more.                             *)
(***************************************************************************)
EXTENDS MtCrypt

Bits == INSTANCE MtWords WITH
    w <- 3, r <- 2, a <- 6, u <- 2, d <- 7, s <- 1, b <- 5, t <- 2, c <- 4, l <- 2, f <- 5

MCWords == Bits!Word
MCStates == {[k \in 0 .. N - 1 |-> IF k = j THEN 1 ELSE 0] : j \in 0 .. N - 1}
MCIndexes == 0 .. N + 1
MCSeedWord(previous, k) == Bits!SeedFrom(previous, k)
MCTwist(upper, lower, far) == Bits!TwistOf(upper, lower, far)
MCTemper(word) == Bits!TemperOf(word)
MCPart(word, k) == (word \div 2 ^ k) % 2
MCMix(one, other) == (one + other) % 2
MCInputs == {[j \in 1 .. 17 |-> IF j % 3 = 0 THEN 1 ELSE 0], <<>>}
=============================================================================
