----------------------------- MODULE EgcdProofs -----------------------------
(***************************************************************************)
(* Proofs about Egcd, for every modulus and every number. IInv adds to     *)
(* Bezout what the halving needs (x and y are never both even in the main  *)
(* loop, so one of the coefficients can be made even by adding y or        *)
(* subtracting x), what the end needs (u and v are odd when they are       *)
(* subtracted, so v is not 0), and that every common divisor of u and v is *)
(* one of x and y: at the end u is 0, so v itself is one.                  *)
(***************************************************************************)
EXTENDS Egcd, TLAPS

Loop == {"u", "v", "subtract"}

CommonDivisors ==
    \A d \in Int : Divides(d, u) /\ Divides(d, v) => Divides(d, x) /\ Divides(d, y)

IInv ==
    /\ TypeOK
    /\ Bezout
    /\ pc = "common" => A = 1 /\ B = 0 /\ C = 0 /\ D = 1
    /\ pc \in Loop => ~ (Even(x) /\ Even(y)) /\ CommonDivisors
    /\ pc \in {"v", "subtract"} => ~ Even(u)
    /\ pc = "subtract" => ~ Even(v)
    /\ pc = "returned" => IF inv = NULL THEN v # 1 ELSE v = 1 /\ inv \in {D, D + cx}
    /\ ResultIsGcd

(* mpi_rshift1_mut() of an even number, of either sign, is its half. *)
LEMMA Halving ==
    ASSUME NEW n \in Int, Even(n)
    PROVE  Rshift1(n) \in Int /\ n = 2 * Rshift1(n) /\ (n \in Nat => Rshift1(n) \in Nat)
  BY DEF Even, Rshift1

(* Every integer is twice another, or one more. *)
LEMMA TwiceOrOneMore ==
    ASSUME NEW n \in Int
    PROVE  \E i \in Int : n = 2 * i \/ n = 2 * i + 1
<1>1. n \div 2 \in Int /\ (n = 2 * (n \div 2) \/ n = 2 * (n \div 2) + 1)
  OBVIOUS
<1> QED
  BY <1>1

(* A product is even when one of its factors is. *)
LEMMA EvenProduct ==
    ASSUME NEW m \in Int, NEW n \in Int
    PROVE  Even(m * n) <=> Even(m) \/ Even(n)
<1>1. PICK i \in Int : m = 2 * i \/ m = 2 * i + 1
  BY TwiceOrOneMore
<1>2. PICK j \in Int : n = 2 * j \/ n = 2 * j + 1
  BY TwiceOrOneMore
<1>3. CASE m = 2 * i
  <2>1. m * n = 2 * (i * n) /\ i * n \in Int
    BY <1>3
  <2>2. Even(m * n) /\ Even(m)
    BY <2>1, <1>3 DEF Even
  <2> QED
    BY <2>2
<1>4. CASE n = 2 * j
  <2>1. m * n = 2 * (m * j) /\ m * j \in Int
    BY <1>4
  <2>2. Even(m * n) /\ Even(n)
    BY <2>1, <1>4 DEF Even
  <2> QED
    BY <2>2
<1>5. CASE m = 2 * i + 1 /\ n = 2 * j + 1
  <2>1. m * n = 2 * (2 * (i * j) + i + j) + 1 /\ i * j \in Int
    BY <1>5
  <2>2. ~ Even(m * n) /\ ~ Even(m) /\ ~ Even(n)
    BY <2>1, <1>5 DEF Even
  <2> QED
    BY <2>2
<1> QED
  BY <1>1, <1>2, <1>3, <1>4, <1>5

(* An even combination of x and y, one of which is odd, has two even       *)
(* coefficients or gets them by adding y to one and subtracting x from the *)
(* other.                                                                  *)
LEMMA CoefficientsParity ==
    ASSUME NEW p \in Int, NEW q \in Int, x \in Int, y \in Int,
           Even(p * x + q * y), ~ (Even(x) /\ Even(y)), ~ (Even(p) /\ Even(q))
    PROVE  Even(p + y) /\ Even(q - x)
<1> DEFINE r == p * x
           t == q * y
<1>1. r \in Int /\ t \in Int
  OBVIOUS
<1>2. (Even(r) <=> Even(p) \/ Even(x)) /\ (Even(t) <=> Even(q) \/ Even(y))
  BY EvenProduct
<1>3. Even(r + t)
  OBVIOUS
<1> HIDE DEF r, t
<1>4. Even(r) <=> Even(t)
  BY <1>1, <1>3 DEF Even
<1>5. (Even(p) <=> Even(y)) /\ (Even(q) <=> Even(x))
  BY <1>2, <1>4
<1> QED
  BY <1>5 DEF Even

(* Combinations of halves are halves of combinations. *)
LEMMA HalfCombination ==
    ASSUME NEW i \in Int, NEW j \in Int, NEW m \in Int, NEW n \in Int, NEW k \in Int,
           (2 * i) * m + (2 * j) * n = 2 * k
    PROVE  i * m + j * n = k
<1> DEFINE s == i * m
           t == j * n
<1>1. s \in Int /\ t \in Int
  OBVIOUS
<1>2. (2 * i) * m = 2 * s /\ (2 * j) * n = 2 * t
  OBVIOUS
<1>3. 2 * s + 2 * t = 2 * k
  BY <1>2
<1> HIDE DEF s, t
<1>4. s + t = k
  BY <1>1, <1>3
<1> QED
  BY <1>4 DEF s, t

(* Moving a multiple of x * y between the terms keeps the combination. *)
LEMMA MovedCombination ==
    ASSUME NEW p \in Int, NEW q \in Int, NEW m \in Int, NEW n \in Int
    PROVE  (p + n) * m + (q - m) * n = p * m + q * n
  OBVIOUS

(* Halving w and the coefficients that give it keeps the combination. *)
LEMMA HalvedKeepsCombination ==
    ASSUME NEW p \in Int, NEW q \in Int, NEW w \in Int, x \in Int, y \in Int,
           p * x + q * y = w, Even(w), ~ (Even(x) /\ Even(y))
    PROVE  /\ Halved(p, q)[1] \in Int
           /\ Halved(p, q)[2] \in Int
           /\ Halved(p, q)[1] * x + Halved(p, q)[2] * y = Rshift1(w)
<1>1. Rshift1(w) \in Int /\ w = 2 * Rshift1(w)
  BY Halving
<1>2. CASE Even(p) /\ Even(q)
  <2>1. Rshift1(p) \in Int /\ p = 2 * Rshift1(p) /\ Rshift1(q) \in Int /\ q = 2 * Rshift1(q)
    BY <1>2, Halving
  <2>2. Halved(p, q) = <<Rshift1(p), Rshift1(q)>>
    BY <1>2 DEF Halved
  <2>3. (2 * Rshift1(p)) * x + (2 * Rshift1(q)) * y = 2 * Rshift1(w)
    BY <2>1, <1>1
  <2>4. Rshift1(p) * x + Rshift1(q) * y = Rshift1(w)
    BY <2>1, <2>3, <1>1, HalfCombination
  <2> QED
    BY <1>1, <2>1, <2>2, <2>4
<1>3. CASE ~ (Even(p) /\ Even(q))
  <2>0. Even(p * x + q * y)
    OBVIOUS
  <2>1. Even(p + y) /\ Even(q - x)
    BY <1>3, <2>0, CoefficientsParity, Zenon
  <2>2. /\ Rshift1(p + y) \in Int /\ p + y = 2 * Rshift1(p + y)
        /\ Rshift1(q - x) \in Int /\ q - x = 2 * Rshift1(q - x)
    BY <2>1, Halving
  <2>3. Halved(p, q) = <<Rshift1(p + y), Rshift1(q - x)>>
    BY <1>3 DEF Halved
  <2>4. (p + y) * x + (q - x) * y = w
    BY MovedCombination
  <2>5. PICK i \in Int : i = Rshift1(p + y)
    BY <2>2
  <2>6. PICK j \in Int : j = Rshift1(q - x)
    BY <2>2
  <2>7. PICK k \in Int : k = Rshift1(w)
    BY <1>1
  <2>8. (2 * i) * x + (2 * j) * y = 2 * k
    BY <2>2, <2>4, <2>5, <2>6, <2>7, <1>1
  <2>9. i * x + j * y = k
    BY <2>8, HalfCombination
  <2> QED
    BY <2>3, <2>5, <2>6, <2>7, <2>9
<1> QED
  BY <1>2, <1>3

(* A divisor of half of an even number divides the number. *)
LEMMA DividesHalf ==
    ASSUME NEW d \in Int, NEW n \in Int, Even(n), Divides(d, Rshift1(n))
    PROVE  Divides(d, n)
<1>1. PICK q \in Int : Rshift1(n) = d * q
  BY DEF Divides
<1>2. n = d * (2 * q) /\ 2 * q \in Int
  BY <1>1, Halving
<1> QED
  BY <1>2 DEF Divides

(* A divisor of a difference and of what was subtracted divides what was   *)
(* there before.                                                           *)
LEMMA DividesSum ==
    ASSUME NEW d \in Int, NEW m \in Int, NEW n \in Int, Divides(d, m - n), Divides(d, n)
    PROVE  Divides(d, m)
<1>1. PICK q \in Int : m - n = d * q
  BY DEF Divides
<1>2. PICK r \in Int : n = d * r
  BY DEF Divides
<1>3. m = d * (q + r) /\ q + r \in Int
  BY <1>1, <1>2
<1> QED
  BY <1>3 DEF Divides

(* mpi_dup() of the arguments, g = 1: everything holds. *)
LEMMA InitIInv == Init => IInv
<1> SUFFICES ASSUME Init PROVE IInv
  OBVIOUS
<1>1. TypeOK
  BY EgcdAssumption DEF Init, TypeOK
<1>2. Bezout
  BY EgcdAssumption DEF Init, Bezout
<1> QED
  BY <1>1, <1>2 DEF Init, IInv, Loop, ResultIsGcd

(* Both arguments of the main loop are non-zero once they are odd; an odd  *)
(* natural number is at least 1.                                           *)
LEMMA OddIsPositive ==
    ASSUME NEW n \in Nat, ~ Even(n)
    PROVE  n >= 1
  BY DEF Even

(* What divides a natural number, with a positive divisor, does so a       *)
(* natural number of times, and no more often than the number itself.      *)
LEMMA QuotientRange ==
    ASSUME NEW n \in Nat, NEW d \in Nat \ {0}, Divides(d, n)
    PROVE  \E q \in 0 .. n : n = d * q
<1>1. PICK q \in Int : n = d * q
  BY DEF Divides
<1>2. q >= 0
  <2> SUFFICES ASSUME q <= -1 PROVE FALSE
    BY <1>1
  <2>1. d * q <= d * (-1)
    OBVIOUS
  <2> QED
    BY <1>1, <2>1
<1>3. q <= n
  <2>1. d * q >= 1 * q
    BY <1>2
  <2> QED
    BY <1>1, <2>1
<1> QED
  BY <1>1, <1>2, <1>3

(* Divisors of x and of y, times g, are divisors of the arguments. *)
LEMMA DividesTimes ==
    ASSUME NEW d \in Int, NEW n \in Int, NEW f \in Int, Divides(d, n)
    PROVE  Divides(d * f, f * n)
<1>1. PICK q \in Int : n = d * q
  BY DEF Divides
<1>2. f * n = (d * f) * q
  BY <1>1
<1> QED
  BY <1>2 DEF Divides

(* Every step of the loops keeps the invariant. *)
LEMMA StepIInv == IInv /\ [Next]_vars => IInv'
<1> SUFFICES ASSUME IInv, [Next]_vars PROVE IInv'
  OBVIOUS
<1> USE DEF Loop
<1>1. CASE HalveBoth
  <2>1. /\ Rshift1(x) \in Nat /\ x = 2 * Rshift1(x)
        /\ Rshift1(y) \in Nat /\ y = 2 * Rshift1(y)
    BY <1>1, Halving DEF IInv, TypeOK, HalveBoth
  <2>2. cx = (2 * g) * Rshift1(x) /\ cy = (2 * g) * Rshift1(y)
    BY <2>1, g \in Int DEF IInv, TypeOK, Bezout
  <2>3. TypeOK'
    BY <1>1, <2>1 DEF IInv, TypeOK, HalveBoth
  <2>4. Bezout'
    BY <1>1, <2>2 DEF Bezout, HalveBoth
  <2> QED
    BY <1>1, <2>3, <2>4 DEF IInv, HalveBoth, ResultIsGcd
<1>2. CASE Enter
  <2>1. TypeOK'
    BY <1>2 DEF IInv, TypeOK, Enter
  <2>2. Bezout'
    BY <1>2 DEF IInv, TypeOK, Bezout, Enter
  <2>3. CommonDivisors'
    BY <1>2 DEF CommonDivisors, Enter, Divides
  <2> QED
    BY <1>2, <2>1, <2>2, <2>3 DEF IInv, Enter, ResultIsGcd, Even
<1>3. CASE HalveU
  <2>1. Rshift1(u) \in Nat
    BY <1>3, Halving DEF IInv, TypeOK, HalveU
  <2>2. /\ A' \in Int
        /\ B' \in Int
        /\ A' * x + B' * y = u'
    <3>1. /\ A \in Int /\ B \in Int /\ u \in Int /\ x \in Int /\ y \in Int
          /\ A * x + B * y = u
          /\ Even(u) /\ ~ (Even(x) /\ Even(y))
      BY <1>3 DEF IInv, TypeOK, Bezout, HalveU
    <3>2. /\ Halved(A, B)[1] \in Int
          /\ Halved(A, B)[2] \in Int
          /\ Halved(A, B)[1] * x + Halved(A, B)[2] * y = Rshift1(u)
      BY <3>1, HalvedKeepsCombination
    <3> QED
      BY <1>3, <3>2 DEF HalveU
  <2>3. TypeOK'
    BY <1>3, <2>1, <2>2 DEF IInv, TypeOK, HalveU
  <2>4. Bezout'
    BY <1>3, <2>2 DEF IInv, Bezout, HalveU
  <2>5. CommonDivisors'
    <3> SUFFICES ASSUME NEW d \in Int, Divides(d, u'), Divides(d, v')
                 PROVE  Divides(d, x) /\ Divides(d, y)
      BY <1>3 DEF CommonDivisors, HalveU, Divides
    <3>1. Divides(d, Rshift1(u)) /\ Divides(d, v)
      BY <1>3 DEF HalveU
    <3>2. Divides(d, u)
      BY <1>3, <3>1, DividesHalf DEF IInv, TypeOK, HalveU
    <3> QED
      BY <1>3, <3>1, <3>2 DEF IInv, CommonDivisors, HalveU
  <2> QED
    BY <1>3, <2>3, <2>4, <2>5 DEF IInv, HalveU, ResultIsGcd, Even
<1>4. CASE UIsOdd
  BY <1>4 DEF IInv, UIsOdd, numbers, TypeOK, Bezout, CommonDivisors, ResultIsGcd, Even, Divides
<1>5. CASE HalveV
  <2>1. Rshift1(v) \in Nat
    BY <1>5, Halving DEF IInv, TypeOK, HalveV
  <2>2. /\ C' \in Int
        /\ D' \in Int
        /\ C' * x + D' * y = v'
    <3>1. /\ C \in Int /\ D \in Int /\ v \in Int /\ x \in Int /\ y \in Int
          /\ C * x + D * y = v
          /\ Even(v) /\ ~ (Even(x) /\ Even(y))
      BY <1>5 DEF IInv, TypeOK, Bezout, HalveV
    <3>2. /\ Halved(C, D)[1] \in Int
          /\ Halved(C, D)[2] \in Int
          /\ Halved(C, D)[1] * x + Halved(C, D)[2] * y = Rshift1(v)
      BY <3>1, HalvedKeepsCombination
    <3> QED
      BY <1>5, <3>2 DEF HalveV
  <2>3. TypeOK'
    BY <1>5, <2>1, <2>2 DEF IInv, TypeOK, HalveV
  <2>4. Bezout'
    BY <1>5, <2>2 DEF IInv, Bezout, HalveV
  <2>5. CommonDivisors'
    <3> SUFFICES ASSUME NEW d \in Int, Divides(d, u'), Divides(d, v')
                 PROVE  Divides(d, x) /\ Divides(d, y)
      BY <1>5 DEF CommonDivisors, HalveV, Divides
    <3>1. Divides(d, Rshift1(v)) /\ Divides(d, u)
      BY <1>5 DEF HalveV
    <3>2. Divides(d, v)
      BY <1>5, <3>1, DividesHalf DEF IInv, TypeOK, HalveV
    <3> QED
      BY <1>5, <3>1, <3>2 DEF IInv, CommonDivisors, HalveV
  <2> QED
    BY <1>5, <2>3, <2>4, <2>5 DEF IInv, HalveV, ResultIsGcd, Even
<1>6. CASE VIsOdd
  BY <1>6 DEF IInv, VIsOdd, numbers, TypeOK, Bezout, CommonDivisors, ResultIsGcd, Even, Divides
<1>7. CASE SubtractFromU
  <2>1. /\ A - C \in Int /\ B - D \in Int /\ u - v \in Nat
        /\ (A - C) * x + (B - D) * y = u - v
    BY <1>7 DEF IInv, TypeOK, Bezout, SubtractFromU
  <2>2. CASE u - v # 0
    <3>1. TypeOK'
      BY <1>7, <2>1, <2>2 DEF IInv, TypeOK, SubtractFromU
    <3>2. Bezout'
      BY <1>7, <2>1, <2>2 DEF IInv, Bezout, SubtractFromU
    <3>3. CommonDivisors'
      <4> SUFFICES ASSUME NEW d \in Int, Divides(d, u'), Divides(d, v')
                   PROVE  Divides(d, x) /\ Divides(d, y)
        BY <1>7 DEF CommonDivisors, SubtractFromU, Divides
      <4>1. Divides(d, u - v) /\ Divides(d, v)
        BY <1>7, <2>2 DEF SubtractFromU
      <4>2. Divides(d, u)
        BY <4>1, DividesSum DEF IInv, TypeOK
      <4> QED
        BY <1>7, <4>1, <4>2 DEF IInv, CommonDivisors, SubtractFromU
    <3> QED
      BY <1>7, <2>2, <3>1, <3>2, <3>3 DEF IInv, SubtractFromU, ResultIsGcd, Even
  <2>3. CASE u - v = 0
    <3>1. v \in Nat \ {0} /\ u = v
      BY <1>7, <2>3, OddIsPositive DEF IInv, TypeOK, SubtractFromU
    <3>2. Divides(v, v)
      <4>1. v = v * 1
        BY <3>1
      <4> QED
        BY <4>1 DEF Divides
    <3>3. Divides(v, x) /\ Divides(v, y)
      BY <1>7, <3>1, <3>2 DEF IInv, CommonDivisors, SubtractFromU
    <3>4. v * g \in Nat \ {0}
      BY <3>1, g \in Nat \ {0} DEF IInv, TypeOK
    <3>5. Divides(v * g, cx) /\ Divides(v * g, cy)
      <4>1. v \in Int /\ x \in Int /\ y \in Int /\ g \in Int /\ cx = g * x /\ cy = g * y
        BY DEF IInv, TypeOK, Bezout
      <4>2. Divides(v * g, g * x) /\ Divides(v * g, g * y)
        BY <3>3, <4>1, DividesTimes
      <4> QED
        BY <4>1, <4>2
    <3>6. (\E q \in 0 .. cx : cx = (v * g) * q) /\ (\E q \in 0 .. cy : cy = (v * g) * q)
      BY <3>4, <3>5, QuotientRange, EgcdAssumption DEF IInv, TypeOK
    <3>7. C * cx + D * cy = v * g
      <4>1. C * x + D * y = v
        BY <1>7 DEF IInv, Bezout, SubtractFromU
      <4>2. C * (g * x) + D * (g * y) = (C * x + D * y) * g
        BY DEF IInv, TypeOK
      <4> QED
        BY <4>1, <4>2 DEF IInv, Bezout
    <3>8. TypeOK'
      BY <1>7, <2>1, <2>3, <3>4 DEF IInv, TypeOK, SubtractFromU
    <3> QED
      BY <1>7, <2>3, <3>6, <3>7, <3>8 DEF IInv, Bezout, SubtractFromU, ResultIsGcd
  <2> QED
    BY <2>2, <2>3
<1>8. CASE SubtractFromV
  <2>1. /\ C - A \in Int /\ D - B \in Int /\ v - u \in Nat
        /\ (C - A) * x + (D - B) * y = v - u
    BY <1>8 DEF IInv, TypeOK, Bezout, SubtractFromV
  <2>2. TypeOK'
    BY <1>8, <2>1 DEF IInv, TypeOK, SubtractFromV
  <2>3. Bezout'
    BY <1>8, <2>1 DEF IInv, Bezout, SubtractFromV
  <2>4. CommonDivisors'
    <3> SUFFICES ASSUME NEW d \in Int, Divides(d, u'), Divides(d, v')
                 PROVE  Divides(d, x) /\ Divides(d, y)
      BY <1>8 DEF CommonDivisors, SubtractFromV, Divides
    <3>1. Divides(d, v - u) /\ Divides(d, u)
      BY <1>8 DEF SubtractFromV
    <3>2. Divides(d, v)
      BY <3>1, DividesSum DEF IInv, TypeOK
    <3> QED
      BY <1>8, <3>1, <3>2 DEF IInv, CommonDivisors, SubtractFromV
  <2> QED
    BY <1>8, <2>2, <2>3, <2>4 DEF IInv, SubtractFromV, ResultIsGcd, Even
<1>9. CASE ModInv
  <2>1. inv' \in Int \union {NULL}
    BY <1>9, EgcdAssumption DEF IInv, TypeOK, ModInv
  <2>2. IF inv' = NULL THEN v # 1 ELSE v = 1 /\ inv' \in {D, D + cx}
    BY <1>9, <2>1, EgcdAssumption DEF IInv, TypeOK, ModInv
  <2> QED
    BY <1>9, <2>1, <2>2 DEF IInv, ModInv, numbers, TypeOK, Bezout, ResultIsGcd
<1>10. CASE RunsOutOfMemory
  BY <1>10 DEF IInv, RunsOutOfMemory, numbers, TypeOK, Bezout, ResultIsGcd
<1>11. CASE UNCHANGED vars
  BY <1>11 DEF IInv, vars, numbers, TypeOK, Bezout, CommonDivisors, ResultIsGcd, Even, Divides
<1> QED
  BY <1>1, <1>2, <1>3, <1>4, <1>5, <1>6, <1>7, <1>8, <1>9, <1>10, <1>11 DEF Next, Step

(* The invariant holds in every reachable state, for all arguments. *)
THEOREM Invariance == Spec => []IInv
<1> QED
  BY InitIInv, StepIInv, PTL DEF Spec

(* The numbers of mpi_egcd() keep their types: u, v, x and y never become  *)
(* negative.                                                               *)
THEOREM TypeCorrect == Spec => []TypeOK
<1>1. IInv => TypeOK
  BY DEF IInv
<1> QED
  BY <1>1, Invariance, PTL

(* In every iteration u and v are the combinations that the coefficients   *)
(* of mpi_egcd() say.                                                      *)
THEOREM CombinationsHold == Spec => []Bezout
<1>1. IInv => Bezout
  BY DEF IInv
<1> QED
  BY <1>1, Invariance, PTL

(* mpi_egcd() is partially correct: what it returns is a common divisor of *)
(* the arguments and a combination of them.                                *)
THEOREM ResultCorrect == Spec => []ResultIsGcd
<1>1. IInv => ResultIsGcd
  BY DEF IInv
<1> QED
  BY <1>1, Invariance, PTL

(* So no common divisor of the arguments fails to divide the result: it is *)
(* the greatest common divisor that mpi.h promises.                        *)
THEOREM GreatestCommonDivisor ==
    Spec => [](pc = "done" =>
                 \A d \in Int : Divides(d, cx) /\ Divides(d, cy) => Divides(d, v))
<1> DEFINE Greatest == pc = "done" =>
               \A d \in Int : Divides(d, cx) /\ Divides(d, cy) => Divides(d, v)
<1>1. IInv => Greatest
  <2> SUFFICES ASSUME IInv, pc = "done", NEW d \in Int, Divides(d, cx), Divides(d, cy)
               PROVE  Divides(d, v)
    OBVIOUS
  <2>1. PICK q \in Int : cx = d * q
    BY DEF Divides
  <2>2. PICK r \in Int : cy = d * r
    BY DEF Divides
  <2>3. C \in Int /\ D \in Int /\ C * cx + D * cy = v
    BY DEF IInv, TypeOK, ResultIsGcd
  <2>4. C * (d * q) + D * (d * r) = d * (C * q + D * r) /\ C * q + D * r \in Int
    BY <2>3
  <2> QED
    BY <2>1, <2>2, <2>3, <2>4 DEF Divides
<1> QED
  BY <1>1, Invariance, PTL

(* What mpi_mod_inv() returns is an inverse modulo m, and it returns NULL  *)
(* only when the gcd is not 1; nothing is said of the range it lies in.    *)
THEOREM InverseCorrect ==
    Spec => [](pc = "returned" =>
                 IF inv = NULL THEN v # 1 ELSE Divides(cx, inv * cy - 1))
<1> DEFINE Correct == pc = "returned" =>
               IF inv = NULL THEN v # 1 ELSE Divides(cx, inv * cy - 1)
<1>1. IInv => Correct
  <2> SUFFICES ASSUME IInv, pc = "returned", inv # NULL
               PROVE  Divides(cx, inv * cy - 1)
    BY DEF IInv
  <2>1. /\ cx \in Int /\ cy \in Int /\ C \in Int /\ D \in Int
        /\ C * cx + D * cy = 1
        /\ inv \in {D, D + cx}
    BY EgcdAssumption DEF IInv, TypeOK, ResultIsGcd
  <2>2. CASE inv = D
    <3>1. PICK q \in Int : q = - C
      BY <2>1
    <3>2. inv * cy - 1 = cx * q
      BY <2>1, <2>2, <3>1
    <3> QED
      BY <3>2 DEF Divides
  <2>3. CASE inv = D + cx
    <3>1. PICK q \in Int : q = cy - C
      BY <2>1
    <3>2. inv * cy - 1 = cx * q
      BY <2>1, <2>3, <3>1
    <3> QED
      BY <3>2 DEF Divides
  <2> QED
    BY <2>1, <2>2, <2>3
<1> QED
  BY <1>1, Invariance, PTL

(* A remainder of 1 is what is left of a multiple. *)
LEMMA OneLeft ==
    ASSUME NEW m \in Nat, m > 1, NEW q \in Int, NEW n \in Int
    PROVE  n - 1 = m * q => n % m = 1
<1>1. n % m \in 0 .. m - 1 /\ n = m * (n \div m) + (n % m) /\ n \div m \in Int
  OBVIOUS
<1>2. PICK k \in Int : n = m * k + (n % m)
  BY <1>1
<1> SUFFICES ASSUME n - 1 = m * q PROVE n % m = 1
  OBVIOUS
<1>3. PICK d \in Int : d = q - k
  OBVIOUS
<1>4. m * d = (n % m) - 1
  <2>1. m * d = m * q - m * k
    BY <1>3
  <2>2. n % m \in Int /\ m * k \in Int
    BY <1>1
  <2> QED
    BY <2>1, <2>2, <1>2
<1>5. d = 0
  <2>1. CASE d >= 1
    <3>1. m * d >= m
      BY <2>1
    <3> QED
      BY <3>1, <1>4, <1>1
  <2>2. CASE d <= -1
    <3>1. m * d <= - m
      BY <2>2
    <3> QED
      BY <3>1, <1>4, <1>1
  <2> QED
    BY <2>1, <2>2, <1>3
<1> QED
  BY <1>1, <1>4, <1>5

(* mpi_mod_inv() decides whether there is an inverse, and returns one: for *)
(* every modulus above 1 and every number.                                 *)
THEOREM InverseDecided == Spec => []InverseIsCongruent
<1> DEFINE Correct == pc = "returned" =>
               IF inv = NULL THEN v # 1 ELSE Divides(cx, inv * cy - 1)
<1>1. IInv /\ Correct => InverseIsCongruent
  <2> SUFFICES ASSUME IInv, Correct, pc = "returned", cx > 1
               PROVE  IF inv = NULL
                      THEN ~ \E i \in 0 .. cx - 1 : (i * cy) % cx = 1
                      ELSE (inv * cy) % cx = 1
    BY DEF InverseIsCongruent
  <2>0. cx \in Nat /\ cy \in Nat /\ v \in Nat
    BY EgcdAssumption DEF IInv, TypeOK
  <2>1. CASE inv = NULL
    <3> SUFFICES ASSUME NEW i \in 0 .. cx - 1, (i * cy) % cx = 1
                 PROVE  FALSE
      BY <2>1
    <3>1. PICK q \in Nat : cx = v * q
      BY <2>0 DEF IInv, ResultIsGcd
    <3>2. PICK r \in Nat : cy = v * r
      BY <2>0 DEF IInv, ResultIsGcd
    <3>3. PICK k \in Int : i * cy = cx * k + 1
      <4>1. i * cy \in Int
        BY <2>0
      <4>2. i * cy = cx * ((i * cy) \div cx) + ((i * cy) % cx) /\ (i * cy) \div cx \in Int
        BY <4>1, <2>0
      <4> QED
        BY <4>2
    <3>4. PICK z \in Int : z = i * r - q * k
      BY <2>0
    <3>5. v * z = 1
      <4>1. v * z = v * (i * r) - v * (q * k)
        BY <2>0, <3>4
      <4>2. v * (i * r) = i * (v * r)
        BY <2>0
      <4>3. v * (q * k) = (v * q) * k
        BY <2>0
      <4> QED
        BY <4>1, <4>2, <4>3, <3>1, <3>2, <3>3
    <3>6. v = 1
      <4>1. v # 0 /\ z >= 1
        BY <2>0, <3>5
      <4>2. v * z >= v
        BY <2>0, <4>1
      <4> QED
        BY <2>0, <4>1, <4>2, <3>5
    <3> QED
      BY <3>6, <2>1
  <2>2. CASE inv # NULL
    <3>1. inv \in Int
      BY <2>2 DEF IInv, TypeOK
    <3>2. PICK q \in Int : inv * cy - 1 = cx * q
      BY <2>2 DEF Divides
    <3>3. inv * cy \in Int
      BY <3>1, <2>0
    <3> QED
      BY <2>2, <2>0, <3>2, <3>3, OneLeft
  <2> QED
    BY <2>1, <2>2
<1> QED
  BY <1>1, Invariance, InverseCorrect, PTL
=============================================================================
