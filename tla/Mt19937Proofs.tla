--------------------------- MODULE Mt19937Proofs ---------------------------
(***************************************************************************)
(* Mt19937 implements Recurrence for every size of the state, every        *)
(* distance, every kind of word and every Twist, Temper and SeedWord. The *)
(* argument is that the state in the middle of a twist is the window       *)
(* turned by i places: word i is the oldest one, and overwriting it with   *)
(* what follows the window shifts the window by one. The stream cipher is  *)
(* then the text mixed with the numbers of its key.                        *)
(***************************************************************************)
EXTENDS MtCrypt, WellFoundedInduction, TLAPS

(* The words seeded so far follow one another. *)
SeededSoFar ==
    pc = "seed" =>
        /\ index = N
        /\ MT[0] \in Seeds
        /\ \A k \in 1 .. i - 1 : MT[k] = SeedWord(MT[k - 1], k)

IInv == TypeOK /\ SeededSoFar

(* The only sums taken modulo N are less than 2 * N. *)
LEMMA Modulo ==
    ASSUME NEW k \in 0 .. 2 * N - 1
    PROVE  k % N = IF k < N THEN k ELSE k - N
<1>1. N \in Nat /\ N > 0 /\ k \in Nat /\ k < 2 * N
  BY MtAssumption
<1>2. /\ k = N * (k \div N) + (k % N)
      /\ k % N \in 0 .. N - 1
      /\ k \div N \in Int
  BY <1>1
<1> DEFINE q == k \div N
<1>3. q >= 0
  <2>1. SUFFICES ASSUME q <= -1 PROVE FALSE
    BY <1>2
  <2>2. N * q <= -N
    BY <1>1, <1>2, <2>1
  <2> QED
    BY <1>1, <1>2, <2>2
<1>4. q <= 1
  <2>1. SUFFICES ASSUME q >= 2 PROVE FALSE
    BY <1>2
  <2>2. N * q >= 2 * N
    BY <1>1, <1>2, <2>1
  <2> QED
    BY <1>1, <1>2, <2>2
<1>5. CASE q = 0
  <2>1. N * q = 0
    BY <1>1, <1>5
  <2> QED
    BY <1>1, <1>2, <2>1
<1>6. CASE q = 1
  <2>1. N * q = N
    BY <1>1, <1>6
  <2> QED
    BY <1>1, <1>2, <2>1
<1> QED
  BY <1>2, <1>3, <1>4, <1>5, <1>6

(* No generator: nothing is said of the words. *)
LEMMA InitIInv == Init => IInv
BY MtAssumption, WordAssumption DEF Init, IInv, TypeOK, SeededSoFar

(* A turned index is one of the state's. *)
LEMMA TurnedIndex ==
    ASSUME NEW j \in 0 .. N - 1, NEW k \in 0 .. N - 1
    PROVE  (j + k) % N = (IF j + k < N THEN j + k ELSE j + k - N) /\ (j + k) % N \in 0 .. N - 1
<1> DEFINE sum == j + k
<1>1. sum \in 0 .. 2 * N - 1
  BY MtAssumption
<1>2. sum % N = IF sum < N THEN sum ELSE sum - N
  <2> HIDE DEF sum
  <2> QED
    BY <1>1, Modulo
<1> QED
  BY <1>1, <1>2, MtAssumption

(* Nor does an index below N change when it is taken modulo N. *)
LEMMA NotTurnedIndex == \A k \in 0 .. N - 1 : (0 + k) % N = k
<1>1. SUFFICES ASSUME NEW k \in 0 .. N - 1 PROVE (0 + k) % N = k
  OBVIOUS
<1>2. 0 + k = k /\ k \in 0 .. 2 * N - 1 /\ k < N
  BY MtAssumption
<1>3. k % N = k
  BY <1>2, Modulo
<1> QED
  BY <1>2, <1>3

(* What a step of the twist reads and writes are words of the state. *)
LEMMA TwistIndexes ==
    ASSUME IInv, pc = "twist"
    PROVE  /\ i \in 0 .. N - 1
           /\ (i + 1) % N \in 0 .. N - 1
           /\ (i + M) % N \in 0 .. N - 1
           /\ Twist(MT[i], MT[(i + 1) % N], MT[(i + M) % N]) \in Words
<1>1. i \in 0 .. N - 1 /\ 1 \in 0 .. N - 1 /\ M \in 0 .. N - 1
  BY MtAssumption DEF IInv, TypeOK
<1>2. (i + 1) % N \in 0 .. N - 1 /\ (i + M) % N \in 0 .. N - 1
  BY <1>1, TurnedIndex
<1>3. /\ MT[i] \in Words
      /\ MT[(i + 1) % N] \in Words
      /\ MT[(i + M) % N] \in Words
  BY <1>1, <1>2 DEF IInv, TypeOK
<1> QED
  BY <1>1, <1>2, <1>3, WordAssumption

(* Each operation, and each step of a loop, keeps the indexes in the state *)
(* and the seeded words in their order.                                    *)
LEMMA StepIInv == IInv /\ [Next]_vars => IInv'
<1> SUFFICES ASSUME IInv, [Next]_vars PROVE IInv'
  OBVIOUS
<1> USE MtAssumption
<1>1. CASE Seed
  BY <1>1 DEF IInv, TypeOK, SeededSoFar, Seed
<1>2. CASE SeedNext
  <2>1. i \in 1 .. N - 1 /\ i - 1 \in 0 .. N - 1 /\ MT \in [0 .. N - 1 -> Words]
    BY <1>2 DEF IInv, TypeOK, SeedNext
  <2>2. SeedWord(MT[i - 1], i) \in Words
    BY <2>1, WordAssumption
  <2>3. TypeOK'
    BY <1>2, <2>1, <2>2 DEF IInv, TypeOK, SeedNext
  <2>4. SeededSoFar'
    <3>1. \A k \in 1 .. i - 1 : MT'[k] = MT[k] /\ MT'[k - 1] = MT[k - 1]
      BY <1>2, <2>1 DEF SeedNext
    <3>2. MT'[0] = MT[0] /\ MT'[i] = SeedWord(MT'[i - 1], i)
      BY <1>2, <2>1 DEF SeedNext
    <3>3. i' = i + 1 /\ index' = index /\ pc = "seed"
      BY <1>2 DEF SeedNext
    <3>4. \A k \in 1 .. i' - 1 : MT'[k] = SeedWord(MT'[k - 1], k)
      BY <2>1, <3>1, <3>2, <3>3 DEF IInv, SeededSoFar
    <3> QED
      BY <3>2, <3>3, <3>4 DEF IInv, SeededSoFar
  <2> QED
    BY <2>3, <2>4 DEF IInv
<1>3. CASE FromState
  BY <1>3 DEF IInv, TypeOK, SeededSoFar, FromState
<1>4. CASE NextUint32
  BY <1>4 DEF IInv, TypeOK, SeededSoFar, NextUint32
<1>5. CASE TwistNext
  <2>1. MT' \in [0 .. N - 1 -> Words]
    BY <1>5, TwistIndexes DEF IInv, TypeOK, TwistNext
  <2> QED
    BY <1>5, <2>1, TwistIndexes DEF IInv, TypeOK, SeededSoFar, TwistNext
<1>6. CASE TemperWord
  <2>1. index \in 0 .. N - 1 /\ MT[index] \in Words /\ out' \in Words
    BY <1>6, WordAssumption DEF IInv, TypeOK, TemperWord
  <2> QED
    BY <1>6, <2>1 DEF IInv, TypeOK, SeededSoFar, TemperWord
<1>7. CASE Free
  BY <1>7 DEF IInv, TypeOK, SeededSoFar, Free
<1>8. CASE UNCHANGED vars
  BY <1>8 DEF IInv, TypeOK, SeededSoFar, vars
<1> QED
  BY <1>1, <1>2, <1>3, <1>4, <1>5, <1>6, <1>7, <1>8 DEF Next

(* IInv holds in every state of the generator. *)
THEOREM Invariance == Spec => []IInv
BY InitIInv, StepIInv, PTL DEF Spec

(* The type invariant: no index leaves the state where it is used. *)
THEOREM TypeCorrect == Spec => []TypeOK
<1>1. IInv => TypeOK
  BY DEF IInv
<1> QED
  BY <1>1, Invariance, PTL

(***************************************************************************)
(* Mt19937 implements Recurrence.                                          *)
(***************************************************************************)

(* A window that is not turned is the state. *)
LEMMA WindowIsState ==
    ASSUME TypeOK, pc \in {"idle", "temper"}
    PROVE  Window = MT /\ Window # NULL
<1>1. \A k \in 0 .. N - 1 : (0 + k) % N = k
  BY NotTurnedIndex
<1>2. Window = [k \in 0 .. N - 1 |-> MT[(0 + k) % N]]
  BY DEF Window, Turned
<1>3. Window = [k \in 0 .. N - 1 |-> MT[k]]
  BY <1>1, <1>2
<1>4. MT \in [0 .. N - 1 -> Words]
  BY DEF TypeOK
<1> QED
  BY <1>3, <1>4, MtAssumption

(* In the middle of a twist, too, the window is a function on the state's  *)
(* indexes, and word i is the oldest of it.                                *)
LEMMA WindowTurned ==
    ASSUME TypeOK, pc = "twist"
    PROVE  /\ Window # NULL
           /\ Window = [k \in 0 .. N - 1 |-> MT[IF i + k < N THEN i + k ELSE i + k - N]]
           /\ Window[0] = MT[i]
           /\ Window[1] = MT[(i + 1) % N]
           /\ Window[M] = MT[(i + M) % N]
<1>1. i \in 0 .. N - 1
  BY DEF TypeOK
<1>2. Window = [k \in 0 .. N - 1 |-> MT[(i + k) % N]]
  BY DEF Window, Turned
<1>3. \A k \in 0 .. N - 1 : (i + k) % N = IF i + k < N THEN i + k ELSE i + k - N
  BY <1>1, TurnedIndex
<1>4. Window = [k \in 0 .. N - 1 |-> MT[IF i + k < N THEN i + k ELSE i + k - N]]
  BY <1>2, <1>3
<1>5. \A k \in 0 .. N - 1 : (i + k) % N \in 0 .. N - 1
  BY <1>1, TurnedIndex
<1>6. Window # NULL
  <2>1. Window \in [0 .. N - 1 -> Words]
    BY <1>2, <1>5 DEF TypeOK
  <2> QED
    BY <2>1, MtAssumption
<1>7. i + 0 = i /\ i < N /\ 0 \in 0 .. N - 1 /\ 1 \in 0 .. N - 1 /\ M \in 0 .. N - 1
  BY <1>1, MtAssumption
<1>8. Window[0] = MT[i]
  BY <1>4, <1>7
<1>9. Window[1] = MT[(i + 1) % N] /\ Window[M] = MT[(i + M) % N]
  BY <1>2, <1>7
<1> QED
  BY <1>4, <1>6, <1>8, <1>9

(* No generator on either side. *)
LEMMA InitMaps == Init => Series!Init
BY DEF Init, Series!Init, Window, Unread

(* A step of a twist takes the oldest word off the window and puts what    *)
(* follows the newest one at its end.                                      *)
LEMMA TwistGenerates ==
    ASSUME IInv, IInv', TwistNext
    PROVE  Series!Generate
<1> USE MtAssumption
<1>1. /\ TypeOK /\ TypeOK' /\ pc = "twist"
      /\ i \in 0 .. N - 1
      /\ MT \in [0 .. N - 1 -> Words]
  BY DEF IInv, TypeOK, TwistNext
<1> DEFINE new == Twist(Window[0], Window[1], Window[M])
<1>2. MT' = [MT EXCEPT ![i] = new]
  BY <1>1, WindowTurned DEF TwistNext
<1>3. Window' = [k \in 0 .. N - 1 |-> IF k < N - 1 THEN Window[k + 1] ELSE new]
  <2>1. CASE i + 1 < N
    <3>1. pc' = "twist" /\ i' = i + 1
      BY <1>1, <2>1 DEF TwistNext
    <3>2. Window' = [k \in 0 .. N - 1 |-> MT'[IF i' + k < N THEN i' + k ELSE i' + k - N]]
      <4>1. i' \in 0 .. N - 1
        BY <1>1, <2>1, <3>1
      <4>2. \A k \in 0 .. N - 1 : (i' + k) % N = IF i' + k < N THEN i' + k ELSE i' + k - N
        BY <4>1, TurnedIndex
      <4>3. Window' = [k \in 0 .. N - 1 |-> MT'[(i' + k) % N]]
        BY <3>1 DEF Window, Turned
      <4> QED
        BY <4>2, <4>3
    <3>3. ASSUME NEW k \in 0 .. N - 1
          PROVE  MT'[IF i' + k < N THEN i' + k ELSE i' + k - N] =
                    IF k < N - 1 THEN Window[k + 1] ELSE new
      <4>1. CASE k = N - 1
        BY <1>1, <1>2, <2>1, <3>1, <4>1
      <4>2. CASE k < N - 1
        <5>1. Window[k + 1] = MT[IF i + k + 1 < N THEN i + k + 1 ELSE i + k + 1 - N]
          BY <1>1, <4>2, WindowTurned
        <5> QED
          BY <1>1, <1>2, <2>1, <3>1, <4>2, <5>1
      <4> QED
        BY <4>1, <4>2
    <3> QED
      BY <3>2, <3>3
  <2>2. CASE i + 1 = N
    <3>1. pc' = "temper"
      BY <1>1, <2>2 DEF TwistNext
    <3>2. Window' = MT' /\ MT' \in [0 .. N - 1 -> Words]
      <4>1. \A k \in 0 .. N - 1 : (0 + k) % N = k
        BY NotTurnedIndex
      <4>2. Window' = [k \in 0 .. N - 1 |-> MT'[(0 + k) % N]]
        BY <3>1 DEF Window, Turned
      <4>3. Window' = [k \in 0 .. N - 1 |-> MT'[k]]
        BY <4>1, <4>2
      <4> QED
        BY <1>1, <4>3 DEF TypeOK
    <3>3. ASSUME NEW k \in 0 .. N - 1
          PROVE  MT'[k] = IF k < N - 1 THEN Window[k + 1] ELSE new
      <4>1. CASE k = N - 1
        BY <1>1, <1>2, <2>2, <4>1
      <4>2. CASE k < N - 1
        <5>1. k + 1 \in 0 .. N - 1 /\ ~ (i + (k + 1) < N) /\ i + (k + 1) - N = k
          BY <1>1, <2>2, <4>2
        <5>2. Window[k + 1] = MT[k]
          BY <1>1, <5>1, WindowTurned
        <5> QED
          BY <1>1, <1>2, <2>2, <4>2, <5>2
      <4>3. k = N - 1 \/ k < N - 1
        BY <1>1
      <4> QED
        BY <4>1, <4>2, <4>3
    <3> HIDE DEF new
    <3>4. MT' = [k \in 0 .. N - 1 |-> MT'[k]]
      BY <3>2
    <3> QED
      BY <3>2, <3>3, <3>4
  <2> QED
    BY <1>1, <2>1, <2>2
<1>4. Unread = i /\ Unread' = i + 1
  BY <1>1 DEF Unread, TwistNext
<1>5. out' = out /\ Window # NULL
  BY <1>1, WindowTurned DEF TwistNext
<1> QED
  BY <1>1, <1>3, <1>4, <1>5 DEF Series!Generate

(* A number is made of the first word that has not been read. *)
LEMMA TemperOutputs ==
    ASSUME IInv, IInv', TemperWord
    PROVE  Series!Output
<1> USE MtAssumption
<1>1. TypeOK /\ TypeOK' /\ pc = "temper" /\ pc' = "idle" /\ index \in 0 .. N - 1
  BY DEF IInv, TypeOK, TemperWord
<1>2. Window = MT /\ Window # NULL
  BY <1>1, WindowIsState
<1>3. Window' = Window
  BY <1>1 DEF Window, Turned, TemperWord
<1>4. Unread = N - index /\ Unread' = N - index - 1
  BY <1>1 DEF Unread, TemperWord
<1>5. N - Unread = index
  BY <1>1, <1>4
<1> QED
  BY <1>1, <1>2, <1>3, <1>4, <1>5 DEF Series!Output, TemperWord

(* The last step of the seeding gives a window of words that follow one    *)
(* another; the steps before it are not seen.                              *)
LEMMA SeedNextSeeds ==
    ASSUME IInv, IInv', SeedNext
    PROVE  Series!Seed \/ UNCHANGED <<Window, Unread, out>>
<1> USE MtAssumption
<1>1. TypeOK /\ TypeOK' /\ pc = "seed" /\ i \in 1 .. N - 1 /\ MT \in [0 .. N - 1 -> Words]
  BY DEF IInv, TypeOK, SeedNext
<1>2. Window = NULL /\ Unread = 0 /\ out' = out
  BY <1>1 DEF Window, Unread, SeedNext
<1>3. CASE i + 1 < N
  BY <1>1, <1>2, <1>3 DEF Window, Unread, SeedNext
<1>4. CASE i + 1 = N
  <2>1. pc' = "idle" /\ index' = N
    BY <1>1, <1>4 DEF IInv, SeededSoFar, SeedNext
  <2>2. Window' = MT' /\ MT' \in [0 .. N - 1 -> Words]
    <3>1. \A k \in 0 .. N - 1 : (0 + k) % N = k
      BY NotTurnedIndex
    <3>2. Window' = [k \in 0 .. N - 1 |-> MT'[(0 + k) % N]]
      BY <2>1 DEF Window, Turned
    <3>3. Window' = [k \in 0 .. N - 1 |-> MT'[k]]
      BY <3>1, <3>2
    <3> QED
      BY <1>1, <3>3 DEF TypeOK
  <2>3. Unread' = 0
    BY <2>1 DEF Unread
  <2>4. MT'[0] \in Seeds
    BY <1>1 DEF IInv, SeededSoFar, SeedNext
  <2>5. ASSUME NEW k \in 1 .. N - 1 PROVE MT'[k] = SeedWord(MT'[k - 1], k)
    <3>1. CASE k = i
      BY <1>1, <3>1 DEF SeedNext
    <3>2. CASE k < i
      <4>1. MT'[k] = MT[k] /\ MT'[k - 1] = MT[k - 1]
        BY <1>1, <3>2 DEF SeedNext
      <4> QED
        BY <1>1, <3>2, <4>1 DEF IInv, SeededSoFar
    <3> QED
      BY <1>1, <1>4, <3>1, <3>2
  <2> QED
    BY <1>2, <2>2, <2>3, <2>4, <2>5 DEF Series!Seed, Series!Seeded
<1> QED
  BY <1>1, <1>3, <1>4

(* A state and any index make a window with at most N words to read. *)
LEMMA FromStateResumes ==
    ASSUME IInv, IInv', FromState
    PROVE  Series!Resume
<1>0. \A k \in Nat : k < N => N - k \in 0 .. N
  BY MtAssumption
<1>1. TypeOK' /\ pc = "none" /\ pc' = "idle" /\ index' \in Nat /\ out' = out
  BY DEF IInv, TypeOK, FromState
<1>2. Window' = MT'
  <2>1. \A k \in 0 .. N - 1 : (0 + k) % N = k
    BY NotTurnedIndex
  <2>2. Window' = [k \in 0 .. N - 1 |-> MT'[(0 + k) % N]]
    BY <1>1 DEF Window, Turned
  <2>3. Window' = [k \in 0 .. N - 1 |-> MT'[k]]
    BY <2>1, <2>2
  <2>4. MT' \in [0 .. N - 1 -> Words]
    BY <1>1 DEF TypeOK
  <2> QED
    BY <2>3, <2>4
<1>3. Unread' \in 0 .. N
  <2>1. Unread' = IF index' < N THEN N - index' ELSE 0
    BY <1>1 DEF Unread
  <2>2. CASE index' < N
    <3>1. N - index' \in 0 .. N
      BY <1>0, <1>1, <2>2
    <3> QED
      BY <2>1, <2>2, <3>1
  <2>3. CASE ~ (index' < N)
    <3>1. 0 \in 0 .. N
      BY MtAssumption
    <3> QED
      BY <2>1, <2>3, <3>1
  <2> QED
    BY <2>2, <2>3
<1>4. Window = NULL /\ MT' \in States
  BY <1>1 DEF Window, FromState
<1> QED
  BY <1>1, <1>2, <1>3, <1>4 DEF Series!Resume

(* Every step is one of the recurrence, or is not seen. *)
LEMMA StepMaps == IInv /\ IInv' /\ [Next]_vars => [Series!Next]_(Series!vars)
<1> SUFFICES ASSUME IInv, IInv', [Next]_vars
             PROVE  Series!Next \/ UNCHANGED <<Window, Unread, out>>
  BY DEF Series!vars
<1>1. CASE Seed
  BY <1>1 DEF Seed, Series!Next, Series!Forget, Window, Unread
<1>2. CASE SeedNext
  BY <1>2, SeedNextSeeds DEF Series!Next
<1>3. CASE FromState
  BY <1>3, FromStateResumes DEF Series!Next
<1>4. CASE NextUint32
  <2>1. Turned = 0 /\ Turned' = 0
    BY <1>4 DEF NextUint32, Turned
  <2>2. Window' = Window
    BY <1>4, <2>1 DEF NextUint32, Window
  <2>3. Unread' = Unread
    BY <1>4, MtAssumption DEF NextUint32, Unread, IInv, TypeOK
  <2> QED
    BY <1>4, <2>2, <2>3 DEF NextUint32
<1>5. CASE TwistNext
  BY <1>5, TwistGenerates DEF Series!Next
<1>6. CASE TemperWord
  BY <1>6, TemperOutputs DEF Series!Next
<1>7. CASE Free
  BY <1>7 DEF Free, Series!Next, Series!Forget, Window, Unread
<1>8. CASE UNCHANGED vars
  BY <1>8 DEF vars, Window, Unread, Turned
<1> QED
  BY <1>1, <1>2, <1>3, <1>4, <1>5, <1>6, <1>7, <1>8 DEF Next

(* The numbers returned are those of the recurrence, in order. *)
THEOREM Implements == Spec => ImplementsRecurrence
BY InitMaps, StepMaps, Invariance, PTL DEF Spec, ImplementsRecurrence, Series!Spec

(***************************************************************************)
(* The stream cipher. Its numbers are given by a recursive function, so    *)
(* that the words of a key are first shown to exist and to satisfy the     *)
(* recurrence, each time from the smallest number for which they would not.*)
(***************************************************************************)

(* The steps of the cipher are steps of its generator, or not seen by it.  *)
LEMMA CryptStep == [CryptNext]_<<vars, cryptVars>> => [Next]_vars
BY DEF CryptNext, BeginFails, Begin, Draw, CryptByte, End, Generator, Next, vars, cryptVars

(* So the numbers are those of the recurrence while a text is mixed, too.  *)
THEOREM CryptImplements == CryptSpec => ImplementsRecurrence
<1>1. CryptInit => Init
  BY DEF CryptInit
<1>2. CryptSpec => Spec
  BY <1>1, CryptStep, PTL DEF CryptSpec, Spec
<1> QED
  BY <1>2, Implements, PTL

(* What may be concluded of a set of numbers in place of an induction.     *)
LEMMA Smallest ==
    ASSUME NEW S, S \subseteq Nat, S # {}
    PROVE  \E m \in S : \A n \in S : m <= n
<1> DEFINE R == OpToRel(<, Nat)
<1>1. R = {ss \in Nat \X Nat : ss[1] < ss[2]}
  BY DEF OpToRel
<1>2. IsWellFoundedOn(R, Nat)
  BY NatLessThanWellFounded
<1> HIDE DEF R
<1>3. PICK m \in S : \A n \in S : ~(<<n, m>> \in R)
  BY <1>2, WFMin
<1>4. ASSUME NEW n \in S PROVE m <= n
  <2>1. <<n, m>> \notin R /\ n \in Nat /\ m \in Nat
    BY <1>3
  <2>2. ~(n < m)
    BY <2>1, <1>1
  <2> QED
    BY <2>1, <2>2
<1> QED
  BY <1>4

(* A word, from those before it. *)
Following(seed, f, k) ==
    IF k = 0 THEN seed
    ELSE IF k < N THEN SeedWord(f[k - 1], k)
    ELSE Twist(f[k - N], f[k - N + 1], f[k - N + M])

(* The first words of a key, and word k of a key. *)
FirstWords(seed, n) == CHOOSE f : f = [k \in 0 .. n |-> Following(seed, f, k)]
WordOf(seed, k) == FirstWords(seed, k)[k]

(* A word depends on those before it only. *)
LEMMA FollowsTheEarlier ==
    ASSUME NEW seed, NEW f, NEW g, NEW m \in Nat, \A k \in 0 .. m - 1 : f[k] = g[k]
    PROVE  Following(seed, f, m) = Following(seed, g, m)
<1>1. CASE m = 0
  BY <1>1 DEF Following
<1>2. CASE m # 0 /\ m < N
  <2>1. m - 1 \in 0 .. m - 1
    BY <1>2
  <2> QED
    BY <1>2, <2>1 DEF Following
<1>3. CASE m # 0 /\ ~ (m < N)
  <2>1. m - N \in 0 .. m - 1 /\ m - N + 1 \in 0 .. m - 1 /\ m - N + M \in 0 .. m - 1
    BY <1>3, MtAssumption
  <2>2. f[m - N] = g[m - N] /\ f[m - N + 1] = g[m - N + 1] /\ f[m - N + M] = g[m - N + M]
    BY <2>1
  <2> QED
    BY <1>3, <2>2 DEF Following
<1> QED
  BY <1>1, <1>2, <1>3

(* The first words exist, however many. *)
LEMMA FirstWordsExist ==
    ASSUME NEW seed, NEW n \in Nat
    PROVE  FirstWords(seed, n) = [k \in 0 .. n |-> Following(seed, FirstWords(seed, n), k)]
<1> DEFINE Are(f, p) == f = [k \in 0 .. p |-> Following(seed, f, k)]
           bad == {p \in Nat : ~ \E f : Are(f, p)}
<1>1. bad = {}
  <2> SUFFICES ASSUME bad # {} PROVE FALSE
    OBVIOUS
  <2>1. PICK m \in bad : \A p \in bad : m <= p
    <3>1. bad \subseteq Nat
      OBVIOUS
    <3> HIDE DEF bad
    <3> QED
      BY <3>1, Smallest
  <2>2. m \in Nat /\ ~ \E f : Are(f, m)
    BY <2>1
  <2>3. CASE m = 0
    <3> DEFINE f == [k \in 0 .. 0 |-> seed]
    <3>1. Are(f, 0)
      BY DEF Following
    <3> QED
      BY <2>2, <2>3, <3>1
  <2>4. CASE m # 0
    <3>1. m - 1 \in Nat /\ m - 1 \notin bad
      BY <2>1, <2>2, <2>4
    <3>2. PICK f : Are(f, m - 1)
      BY <3>1
    <3> DEFINE g == [k \in 0 .. m |-> IF k < m THEN f[k] ELSE Following(seed, f, m)]
    <3>3. ASSUME NEW k \in 0 .. m PROVE g[k] = Following(seed, g, k)
      <4>1. \A j \in 0 .. k - 1 : f[j] = g[j]
        BY <2>2
      <4>2. Following(seed, f, k) = Following(seed, g, k)
        <5> HIDE DEF g
        <5> QED
          BY <4>1, <2>2, FollowsTheEarlier
      <4>3. CASE k < m
        <5>1. k \in 0 .. m - 1
          BY <4>3, <2>2
        <5>2. f[k] = Following(seed, f, k)
          BY <3>2, <5>1
        <5> QED
          BY <4>2, <4>3, <5>2
      <4>4. CASE k = m
        <5>1. g[m] = Following(seed, f, m)
          BY <2>2
        <5> QED
          BY <4>2, <4>4, <5>1
      <4> QED
        BY <2>2, <4>3, <4>4
    <3>4. g = [k \in 0 .. m |-> g[k]]
      OBVIOUS
    <3>5. Are(g, m)
      <4> HIDE DEF g
      <4> QED
        BY <3>3, <3>4
    <3> QED
      BY <2>2, <3>5
  <2> QED
    BY <2>3, <2>4
<1>2. \E f : Are(f, n)
  BY <1>1
<1> QED
  BY <1>2 DEF FirstWords

(* However many first words are looked at, they are the same. *)
LEMMA FirstWordsAgree ==
    ASSUME NEW seed, NEW n \in Nat, NEW p \in Nat, NEW j \in Nat, j <= n, j <= p
    PROVE  FirstWords(seed, n)[j] = FirstWords(seed, p)[j]
<1> DEFINE f == FirstWords(seed, n)
           g == FirstWords(seed, p)
           bad == {k \in Nat : k <= n /\ k <= p /\ f[k] # g[k]}
<1>1. bad = {}
  <2> SUFFICES ASSUME bad # {} PROVE FALSE
    OBVIOUS
  <2>1. PICK m \in bad : \A k \in bad : m <= k
    <3>1. bad \subseteq Nat
      OBVIOUS
    <3> HIDE DEF bad
    <3> QED
      BY <3>1, Smallest
  <2>2. m \in Nat /\ m <= n /\ m <= p /\ f[m] # g[m]
    BY <2>1
  <2>3. \A k \in 0 .. m - 1 : f[k] = g[k]
    <3> SUFFICES ASSUME NEW k \in 0 .. m - 1 PROVE f[k] = g[k]
      OBVIOUS
    <3>1. k \in Nat /\ k <= n /\ k <= p /\ ~ (m <= k)
      BY <2>2
    <3> HIDE DEF f, g
    <3> QED
      BY <2>1, <3>1
  <2>4. f[m] = Following(seed, f, m)
    <3>1. f = [k \in 0 .. n |-> Following(seed, f, k)]
      BY FirstWordsExist
    <3> HIDE DEF f
    <3> QED
      BY <2>2, <3>1
  <2>5. g[m] = Following(seed, g, m)
    <3>1. g = [k \in 0 .. p |-> Following(seed, g, k)]
      BY FirstWordsExist
    <3> HIDE DEF g
    <3> QED
      BY <2>2, <3>1
  <2>6. Following(seed, f, m) = Following(seed, g, m)
    <3> HIDE DEF f, g
    <3> QED
      BY <2>2, <2>3, FollowsTheEarlier
  <2> QED
    BY <2>2, <2>4, <2>5, <2>6
<1> HIDE DEF f, g
<1>2. f[j] = g[j]
  BY <1>1
<1> QED
  BY <1>2 DEF f, g

(* The words of a key satisfy the recurrence. *)
LEMMA WordFollows ==
    ASSUME NEW seed, NEW n \in Nat
    PROVE  WordOf(seed, n) =
              IF n = 0 THEN seed
              ELSE IF n < N THEN SeedWord(WordOf(seed, n - 1), n)
              ELSE Twist(WordOf(seed, n - N), WordOf(seed, n - N + 1), WordOf(seed, n - N + M))
<1> DEFINE f == FirstWords(seed, n)
<1>1. f[n] = Following(seed, f, n)
  <2>1. f = [k \in 0 .. n |-> Following(seed, f, k)]
    BY FirstWordsExist
  <2> HIDE DEF f
  <2> QED
    BY <2>1
<1>2. \A k \in 0 .. n : f[k] = WordOf(seed, k)
  BY FirstWordsAgree DEF WordOf
<1> HIDE DEF f
<1>3. WordOf(seed, n) = Following(seed, f, n)
  BY <1>1, <1>2
<1>4. CASE n = 0
  BY <1>3, <1>4 DEF Following
<1>5. CASE n # 0 /\ n < N
  <2>1. n - 1 \in 0 .. n
    BY <1>5
  <2>2. f[n - 1] = WordOf(seed, n - 1)
    BY <1>2, <2>1
  <2> QED
    BY <1>3, <1>5, <2>2 DEF Following
<1>6. CASE n # 0 /\ ~ (n < N)
  <2>1. n - N \in 0 .. n /\ n - N + 1 \in 0 .. n /\ n - N + M \in 0 .. n
    BY <1>6, MtAssumption
  <2>2. /\ f[n - N] = WordOf(seed, n - N)
        /\ f[n - N + 1] = WordOf(seed, n - N + 1)
        /\ f[n - N + M] = WordOf(seed, n - N + M)
    BY <1>2, <2>1
  <2> QED
    BY <1>3, <1>6, <2>2 DEF Following
<1> QED
  BY <1>4, <1>5, <1>6

(* The numbers of a key are its words, tempered, from the second N on. *)
LEMMA NumberOfWord ==
    ASSUME NEW seed, NEW n \in Nat
    PROVE  Number(seed, n) = Temper(WordOf(seed, n + N))
BY DEF Number, WordOf, FirstWords, Following

(* How many numbers were drawn for the bytes so far, and for the next. *)
Used == Place \div Parts + (IF Place % Parts = 0 THEN 0 ELSE 1)
Drawn == IF pc = "idle" /\ drawn THEN Used + 1 ELSE Used

(* The place in the series of the first word of the state. *)
Base == N + Drawn - index

(* The state holds the words from the base on, and in the middle of a      *)
(* twist, in its first i places, those that come after them.               *)
StateIsTheSeries ==
    \A k \in 0 .. N - 1 :
        MT[k] = WordOf(key, IF pc = "twist" /\ k < i THEN Base + N + k ELSE Base + k)

(* A text is mixed while its generator is seeded, between two of its       *)
(* numbers, or while the next one is made.                                 *)
Mixing ==
    /\ ~ direct
    /\ output = [j \in 1 .. Len(output) |-> output[j]] /\ Len(output) \in Nat
    /\ drawn \in BOOLEAN
    /\ pc # "none" /\ index <= N
    /\ pc = "seed" => MT[0] = key /\ output = <<>> /\ ~ drawn
    /\ pc = "twist" => index = N
    /\ pc \in {"twist", "temper"} => drawn
    /\ drawn => Place % Parts = 0
    /\ pc # "seed" => StateIsTheSeries /\ Base \in Nat
    /\ pc # "seed" /\ Drawn > 0 => (pc = "idle" => out = Number(key, Drawn - 1))
    /\ CryptIsTheSeries

CryptInv == IInv /\ (direct => input = NULL) /\ (input # NULL => Mixing)

(* There is one way to divide with a remainder. *)
LEMMA Divided ==
    ASSUME NEW n \in Nat \ {0}, NEW q \in Int, NEW r \in 0 .. n - 1
    PROVE  (n * q + r) \div n = q /\ (n * q + r) % n = r
<1> DEFINE x == n * q + r
           p == x \div n
           d == q - p
<1>1. n * q \in Int /\ x \in Int
  OBVIOUS
<1>2. p \in Int /\ x % n \in 0 .. n - 1 /\ x = n * p + (x % n)
  <2> HIDE DEF x
  <2> QED
    BY <1>1
<1>3. d \in Int /\ n * d = n * q - n * p
  BY <1>2
<1>4. n * d = (x % n) - r
  BY <1>1, <1>2, <1>3
<1>5. d < 1
  <2>1. SUFFICES ASSUME d >= 1 PROVE FALSE
    BY <1>3
  <2>2. n * d >= n
    BY <1>3, <2>1
  <2> QED
    BY <1>2, <1>4, <2>2
<1>6. d > -1
  <2>1. SUFFICES ASSUME d <= -1 PROVE FALSE
    BY <1>3
  <2>2. n * d <= -n
    BY <1>3, <2>1
  <2> QED
    BY <1>2, <1>4, <2>2
<1>7. d = 0
  BY <1>3, <1>5, <1>6
<1>8. n * d = 0
  BY <1>7
<1>9. p = q
  BY <1>2, <1>3, <1>7
<1> QED
  BY <1>2, <1>4, <1>8, <1>9

(* The numbers needed for n bytes, and for one more. *)
LEMMA NumbersUsed ==
    ASSUME NEW n \in Nat
    PROVE  /\ n \div Parts \in Nat /\ n % Parts \in 0 .. Parts - 1
           /\ n = 0 => n \div Parts = 0 /\ n % Parts = 0
           /\ (n + 1) \div Parts + (IF (n + 1) % Parts = 0 THEN 0 ELSE 1) = n \div Parts + 1
<1> DEFINE q == n \div Parts
           r == n % Parts
<1>0. Parts \in Nat \ {0}
  BY CryptAssumption
<1>1. /\ n = Parts * q + r
      /\ r \in 0 .. Parts - 1
      /\ q \in Int
  BY <1>0
<1>2. q \in Nat
  <2>1. SUFFICES ASSUME q <= -1 PROVE FALSE
    BY <1>1
  <2>2. Parts * q <= -Parts
    BY <1>0, <1>1, <2>1
  <2> QED
    BY <1>0, <1>1, <2>2
<1>3. n = 0 => q = 0 /\ r = 0
  <2> SUFFICES ASSUME n = 0 PROVE q = 0 /\ r = 0
    OBVIOUS
  <2>1. 0 \in Int /\ 0 \in 0 .. Parts - 1 /\ Parts * 0 + 0 = 0
    BY <1>0
  <2>2. 0 \div Parts = 0 /\ 0 % Parts = 0
    BY <1>0, <2>1, Divided
  <2> QED
    BY <2>2
<1>4. (n + 1) \div Parts + (IF (n + 1) % Parts = 0 THEN 0 ELSE 1) = q + 1
  <2> HIDE DEF q, r
  <2>1. CASE r + 1 < Parts
    <3>1. r + 1 \in 0 .. Parts - 1 /\ n + 1 = Parts * q + (r + 1)
      BY <1>0, <1>1, <2>1
    <3>2. (n + 1) \div Parts = q /\ (n + 1) % Parts = r + 1
      BY <1>0, <1>1, <3>1, Divided
    <3>3. r + 1 # 0
      BY <1>1
    <3> QED
      BY <1>1, <3>2, <3>3
  <2>2. CASE r + 1 = Parts
    <3>1. 0 \in 0 .. Parts - 1 /\ q + 1 \in Int /\ n + 1 = Parts * (q + 1) + 0
      BY <1>0, <1>1, <2>2
    <3>2. (n + 1) \div Parts = q + 1 /\ (n + 1) % Parts = 0
      BY <1>0, <3>1, Divided
    <3> QED
      BY <1>1, <3>2
  <2> QED
    BY <1>0, <1>1, <2>1, <2>2
<1> QED
  BY <1>1, <1>2, <1>3, <1>4

(* Appending, to a text whose bytes may be anything. *)
LEMMA Appending ==
    ASSUME NEW n \in Nat, NEW f, f = [j \in 1 .. n |-> f[j]], NEW e
    PROVE  /\ Len(f) = n /\ Len(Append(f, e)) = n + 1
           /\ Append(f, e) = [j \in 1 .. n + 1 |-> IF j = n + 1 THEN e ELSE f[j]]
<1> DEFINE S == {f[j] : j \in 1 .. n} \cup {e}
<1>1. f \in [1 .. n -> S]
  OBVIOUS
<1>2. f \in Seq(S) /\ e \in S
  BY <1>1
<1> HIDE DEF S
<1>3. Len(f) = n
  BY <1>1, <1>2
<1>4. Append(f, e) = [j \in 1 .. Len(f) + 1 |-> IF j <= Len(f) THEN f[j] ELSE e]
  BY <1>2
<1>5. Len(Append(f, e)) = Len(f) + 1
  BY <1>2
<1> QED
  BY <1>3, <1>4, <1>5

(* The key is the first word, and nothing is mixed yet. *)
LEMMA BeginMixes ==
    ASSUME IInv, Begin
    PROVE  Mixing'
<1>1. /\ MT \in [0 .. N - 1 -> Words] /\ N \in Nat /\ 0 \in 0 .. N - 1
  BY MtAssumption DEF IInv, TypeOK
<1>2. /\ ~ direct' /\ output' = <<>> /\ drawn' = FALSE /\ pc' = "seed" /\ index' = N
      /\ key' = MT'[0]
  BY DEF Begin, Seed
<1>3. Len(output') = 0 /\ output' = [j \in 1 .. Len(output') |-> output'[j]]
  BY <1>2
<1>4. CryptIsTheSeries'
  BY <1>3 DEF CryptIsTheSeries
<1>5. Len(output') \in Nat /\ index' <= N
  BY <1>1, <1>2, <1>3
<1>6. drawn' \in BOOLEAN /\ pc' # "none"
  BY <1>2
<1>7. pc' \notin {"twist", "temper", "idle"}
  BY <1>2
<1> QED
  BY <1>2, <1>3, <1>4, <1>5, <1>6, <1>7 DEF Mixing

(* When every word is seeded, the state holds the first N of the key. *)
LEMMA SeedNextMixes ==
    ASSUME IInv, IInv', Mixing, SeedNext, UNCHANGED cryptVars
    PROVE  Mixing'
<1>1. /\ pc = "seed" /\ i \in 1 .. N - 1 /\ MT \in [0 .. N - 1 -> Words] /\ index = N
      /\ N \in Nat /\ MT[0] = key /\ output = <<>> /\ drawn = FALSE
      /\ \A k \in 1 .. i - 1 : MT[k] = SeedWord(MT[k - 1], k)
  BY MtAssumption DEF IInv, TypeOK, SeededSoFar, SeedNext, Mixing
<1>2. /\ key' = key /\ output' = output /\ drawn' = drawn /\ direct' = direct /\ input' = input
      /\ index' = N /\ i' = i + 1
      /\ MT' = [MT EXCEPT ![i] = SeedWord(MT[i - 1], i)]
  BY <1>1 DEF SeedNext, cryptVars
<1>3. MT'[0] = key
  BY <1>1, <1>2
<1>4. CryptIsTheSeries' /\ Len(output) = 0
  BY <1>1, <1>2 DEF CryptIsTheSeries, Mixing
<1>5. CASE i + 1 < N
  <2>1. pc' = "seed"
    BY <1>5 DEF SeedNext
  <2> QED
    BY <1>1, <1>2, <1>3, <1>4, <2>1 DEF Mixing
<1>6. CASE ~ (i + 1 < N)
  <2>1. pc' = "idle" /\ i = N - 1
    BY <1>1, <1>6 DEF SeedNext
  <2>2. ASSUME NEW k \in 1 .. N - 1 PROVE MT'[k] = SeedWord(MT'[k - 1], k)
    <3>1. CASE k = i
      BY <1>1, <1>2, <3>1
    <3>2. CASE k < i
      <4>1. MT'[k] = MT[k] /\ MT'[k - 1] = MT[k - 1]
        BY <1>1, <1>2, <3>2
      <4> QED
        BY <1>1, <3>2, <4>1
    <3> QED
      BY <1>1, <2>1, <3>1, <3>2
  <2> DEFINE bad == {k \in 0 .. N - 1 : MT'[k] # WordOf(key, k)}
  <2>3. bad = {}
    <3> SUFFICES ASSUME bad # {} PROVE FALSE
      OBVIOUS
    <3>1. PICK m \in bad : \A k \in bad : m <= k
      <4>1. bad \subseteq Nat
        OBVIOUS
      <4> HIDE DEF bad
      <4> QED
        BY <4>1, Smallest
    <3>2. m \in 0 .. N - 1 /\ MT'[m] # WordOf(key, m)
      BY <3>1
    <3>3. m # 0
      <4>1. WordOf(key, 0) = key
        BY WordFollows
      <4> QED
        BY <1>3, <3>2, <4>1
    <3>4. m \in 1 .. N - 1 /\ m - 1 \in 0 .. N - 1 /\ m \in Nat /\ m < N /\ ~ (m <= m - 1)
      BY <1>1, <3>2, <3>3
    <3>5. MT'[m - 1] = WordOf(key, m - 1)
      BY <3>1, <3>4
    <3>6. WordOf(key, m) = SeedWord(WordOf(key, m - 1), m)
      BY <3>3, <3>4, WordFollows
    <3> QED
      BY <2>2, <3>2, <3>4, <3>5, <3>6
  <2>4. Drawn' = 0 /\ Base' = 0
    <3>1. Place' = 0
      BY <1>2, <1>4 DEF Place
    <3>2. Used' = 0
      BY <3>1, NumbersUsed DEF Used
    <3> QED
      BY <1>1, <1>2, <3>2 DEF Drawn, Base
  <2>5. StateIsTheSeries'
    <3>1. \A k \in 0 .. N - 1 : MT'[k] = WordOf(key, k) /\ 0 + k = k
      BY <2>3
    <3> QED
      BY <1>2, <2>1, <2>4, <3>1 DEF StateIsTheSeries
  <2> QED
    BY <1>1, <1>2, <1>3, <1>4, <2>1, <2>4, <2>5 DEF Mixing
<1> QED
  BY <1>5, <1>6

(* Every word a step of the twist reads is the one the recurrence wants,   *)
(* be it old or new.                                                       *)
LEMMA TwistMixes ==
    ASSUME IInv, IInv', Mixing, TwistNext, UNCHANGED cryptVars
    PROVE  Mixing'
<1>1. /\ pc = "twist" /\ i \in 0 .. N - 1 /\ MT \in [0 .. N - 1 -> Words] /\ index = N
      /\ N \in Nat /\ N > 1 /\ M \in 1 .. N - 1 /\ drawn = TRUE
      /\ StateIsTheSeries /\ Base \in Nat
  BY MtAssumption DEF IInv, TypeOK, TwistNext, Mixing
<1>2. /\ key' = key /\ output' = output /\ drawn' = drawn /\ direct' = direct /\ input' = input
      /\ i' = i + 1
      /\ MT' = [MT EXCEPT ![i] = Twist(MT[i], MT[(i + 1) % N], MT[(i + M) % N])]
  BY <1>1 DEF TwistNext, cryptVars
<1>3. CryptIsTheSeries'
  BY <1>2 DEF CryptIsTheSeries, Mixing
<1>4. PICK b \in Nat : b = Base
  BY <1>1
<1>5. \A k \in 0 .. N - 1 :
          MT[k] = WordOf(key, IF k < i THEN b + N + k ELSE b + k)
  BY <1>1, <1>4 DEF StateIsTheSeries
<1>6. MT[i] = WordOf(key, b + i)
  BY <1>1, <1>5
<1>7. MT[(i + 1) % N] = WordOf(key, b + i + 1)
  <2>1. 1 \in 0 .. N - 1
    BY <1>1
  <2>2. (i + 1) % N = IF i + 1 < N THEN i + 1 ELSE i + 1 - N
    BY <1>1, <2>1, TurnedIndex
  <2>3. CASE i + 1 < N
    <3>1. i + 1 \in 0 .. N - 1 /\ ~ (i + 1 < i) /\ b + (i + 1) = b + i + 1
      BY <1>1, <2>3
    <3>2. MT[i + 1] = WordOf(key, b + (i + 1))
      BY <1>5, <3>1
    <3> QED
      BY <2>2, <2>3, <3>1, <3>2
  <2>4. CASE ~ (i + 1 < N)
    <3>1. i + 1 - N = 0 /\ 0 \in 0 .. N - 1 /\ 0 < i /\ b + N + 0 = b + i + 1
      BY <1>1, <2>4
    <3>2. MT[0] = WordOf(key, b + N + 0)
      BY <1>5, <3>1
    <3> QED
      BY <2>2, <2>4, <3>1, <3>2
  <2> QED
    BY <2>3, <2>4
<1>8. MT[(i + M) % N] = WordOf(key, b + i + M)
  <2>1. M \in 0 .. N - 1
    BY <1>1
  <2>2. (i + M) % N = IF i + M < N THEN i + M ELSE i + M - N
    BY <1>1, <2>1, TurnedIndex
  <2>3. CASE i + M < N
    <3>1. i + M \in 0 .. N - 1 /\ ~ (i + M < i) /\ b + (i + M) = b + i + M
      BY <1>1, <2>3
    <3>2. MT[i + M] = WordOf(key, b + (i + M))
      BY <1>5, <3>1
    <3> QED
      BY <2>2, <2>3, <3>1, <3>2
  <2>4. CASE ~ (i + M < N)
    <3>1. i + M - N \in 0 .. N - 1 /\ i + M - N < i /\ b + N + (i + M - N) = b + i + M
      BY <1>1, <2>4
    <3>2. MT[i + M - N] = WordOf(key, b + N + (i + M - N))
      BY <1>5, <3>1
    <3> QED
      BY <2>2, <2>4, <3>1, <3>2
  <2> QED
    BY <2>3, <2>4
<1>9. MT'[i] = WordOf(key, b + N + i)
  <2>0. PICK n \in Nat : n = b + N + i
    BY <1>1
  <2>1. /\ n # 0 /\ ~ (n < N)
        /\ n - N = b + i /\ n - N + 1 = b + i + 1 /\ n - N + M = b + i + M
    BY <1>1, <2>0
  <2>2. WordOf(key, n) =
          Twist(WordOf(key, n - N), WordOf(key, n - N + 1), WordOf(key, n - N + M))
    BY <2>1, WordFollows
  <2>3. MT'[i] = Twist(MT[i], MT[(i + 1) % N], MT[(i + M) % N])
    BY <1>1, <1>2
  <2> QED
    BY <1>6, <1>7, <1>8, <2>0, <2>1, <2>2, <2>3
<1>10. \A k \in 0 .. N - 1 : k # i => MT'[k] = MT[k]
  BY <1>1, <1>2
<1>11. PICK d : d = Drawn /\ Used = d
  BY <1>1 DEF Drawn
<1>12. Used' = d /\ b = N + d - N
  BY <1>1, <1>2, <1>4, <1>11 DEF Used, Place, Base
<1>13. CASE i + 1 < N
  <2>1. pc' = "twist" /\ index' = N
    BY <1>1, <1>2, <1>13 DEF TwistNext
  <2>2. Base' = b
    BY <1>12, <2>1 DEF Drawn, Base
  <2>3. ASSUME NEW k \in 0 .. N - 1
        PROVE  MT'[k] = WordOf(key, IF k < i + 1 THEN b + N + k ELSE b + k)
    <3>1. CASE k = i
      BY <1>1, <1>9, <3>1
    <3>2. CASE k < i
      BY <1>1, <1>5, <1>10, <3>2
    <3>3. CASE k > i
      BY <1>1, <1>5, <1>10, <3>3
    <3> QED
      BY <1>1, <3>1, <3>2, <3>3
  <2>4. StateIsTheSeries'
    BY <1>2, <2>1, <2>2, <2>3 DEF StateIsTheSeries
  <2> QED
    BY <1>1, <1>2, <1>3, <2>1, <2>2, <2>4 DEF Mixing, Place
<1>14. CASE ~ (i + 1 < N)
  <2>1. pc' = "temper" /\ index' = 0 /\ i = N - 1
    BY <1>1, <1>2, <1>14 DEF TwistNext
  <2>2. Base' = b + N /\ b + N \in Nat
    BY <1>1, <1>4, <1>11, <1>12, <2>1 DEF Drawn, Base
  <2>3. ASSUME NEW k \in 0 .. N - 1 PROVE MT'[k] = WordOf(key, b + N + k)
    <3>1. CASE k = i
      BY <1>9, <3>1
    <3>2. CASE k < i
      BY <1>1, <1>5, <1>10, <3>2
    <3> QED
      BY <1>1, <2>1, <3>1, <3>2
  <2>4. StateIsTheSeries'
    BY <1>2, <2>1, <2>2, <2>3 DEF StateIsTheSeries
  <2> QED
    BY <1>1, <1>2, <1>3, <2>1, <2>2, <2>4 DEF Mixing, Place
<1> QED
  BY <1>13, <1>14

(* The number drawn is made of the next word of the series. *)
LEMMA TemperMixes ==
    ASSUME IInv, IInv', Mixing, TemperWord, UNCHANGED cryptVars
    PROVE  Mixing'
<1>1. /\ pc = "temper" /\ index \in 0 .. N - 1 /\ N \in Nat
      /\ drawn = TRUE /\ Place % Parts = 0 /\ Place \in Nat
      /\ StateIsTheSeries /\ Base \in Nat
  BY MtAssumption DEF IInv, TypeOK, TemperWord, Mixing, Place
<1>2. /\ key' = key /\ output' = output /\ drawn' = drawn /\ direct' = direct /\ input' = input
      /\ MT' = MT /\ index' = index + 1 /\ pc' = "idle" /\ out' = Temper(MT[index])
  BY <1>1 DEF TemperWord, cryptVars
<1>3. CryptIsTheSeries'
  BY <1>2 DEF CryptIsTheSeries, Mixing
<1>4. PICK d \in Nat : d = Used /\ Drawn = d
  <2>1. Used \in Nat
    BY <1>1, NumbersUsed DEF Used
  <2> QED
    BY <1>1, <2>1 DEF Drawn
<1>5. Drawn' = d + 1
  BY <1>1, <1>2, <1>4 DEF Drawn, Used, Place
<1>6. Base' = N + (d + 1) - (index + 1) /\ Base = N + d - index
  BY <1>2, <1>4, <1>5 DEF Base
<1>7. Base' = Base
  BY <1>1, <1>6
<1>8. StateIsTheSeries'
  BY <1>1, <1>2, <1>7 DEF StateIsTheSeries
<1>9. out' = Number(key, d)
  <2>1. MT[index] = WordOf(key, Base + index)
    BY <1>1 DEF StateIsTheSeries
  <2>2. Base + index = d + N
    BY <1>1, <1>6
  <2> QED
    BY <1>2, <2>1, <2>2, NumberOfWord
<1>10. out' = Number(key', Drawn' - 1)
  <2>1. d + 1 - 1 = d
    OBVIOUS
  <2> QED
    BY <1>2, <1>5, <1>9, <2>1
<1>11. index + 1 <= N
  BY <1>1
<1> QED
  BY <1>1, <1>2, <1>3, <1>7, <1>8, <1>10, <1>11 DEF Mixing, Place

(* Drawing a number changes nothing until it is made. *)
LEMMA DrawMixes ==
    ASSUME IInv, IInv', Mixing, Draw
    PROVE  Mixing'
<1>1. /\ pc = "idle" /\ drawn = FALSE /\ Place % Parts = 0
      /\ N \in Nat /\ index \in Nat /\ index <= N
      /\ StateIsTheSeries /\ Base \in Nat
  BY MtAssumption DEF IInv, TypeOK, Draw, NextUint32, Mixing
<1>2. /\ key' = key /\ output' = output /\ drawn' = TRUE /\ direct' = direct /\ input' = input
      /\ MT' = MT /\ index' = index /\ i' = 0
      /\ pc' = IF index >= N THEN "twist" ELSE "temper"
  BY DEF Draw, NextUint32
<1>3. CryptIsTheSeries'
  BY <1>2 DEF CryptIsTheSeries, Mixing
<1>4. Drawn' = Drawn
  BY <1>1, <1>2 DEF Drawn, Used, Place
<1>5. Base' = Base
  BY <1>2, <1>4 DEF Base
<1>6. StateIsTheSeries'
  <2>1. \A k \in 0 .. N - 1 : ~ (k < 0)
    BY <1>1
  <2> QED
    BY <1>1, <1>2, <1>5, <2>1 DEF StateIsTheSeries
<1>7. pc' = "twist" => index' = N
  BY <1>1, <1>2
<1>8. pc' \in {"twist", "temper"}
  BY <1>2
<1> QED
  BY <1>1, <1>2, <1>3, <1>5, <1>6, <1>7, <1>8 DEF Mixing, Place

(* A byte is mixed with its part of the number drawn for it, and the next  *)
(* one needs a new number exactly when the parts of this one are used up.  *)
LEMMA CryptByteMixes ==
    ASSUME IInv, IInv', Mixing, CryptByte
    PROVE  Mixing'
<1>1. /\ pc = "idle" /\ drawn \in BOOLEAN /\ ~ direct
      /\ drawn => Place % Parts = 0
      /\ Place % Parts = 0 => drawn
      /\ output = [j \in 1 .. Len(output) |-> output[j]]
      /\ StateIsTheSeries /\ Base \in Nat /\ index <= N
      /\ Drawn > 0 => out = Number(key, Drawn - 1)
      /\ CryptIsTheSeries /\ input # NULL
  BY DEF CryptByte, Mixing
<1>2. PICK n \in Nat : n = Place /\ n = Len(output)
  BY DEF Mixing, Place
<1>3. PICK byte : byte = Mix(input[n + 1], Part(out, n % Parts))
  OBVIOUS
<1>4. /\ output' = Append(output, byte) /\ drawn' = FALSE
      /\ key' = key /\ direct' = direct /\ input' = input
      /\ MT' = MT /\ index' = index /\ i' = i /\ pc' = pc /\ out' = out
  BY <1>2, <1>3 DEF CryptByte, vars
<1>5. /\ Len(output') = n + 1
      /\ output' = [j \in 1 .. n + 1 |-> IF j = n + 1 THEN byte ELSE output[j]]
  BY <1>1, <1>2, <1>4, Appending
<1>6. /\ n \div Parts \in Nat
      /\ (n + 1) \div Parts + (IF (n + 1) % Parts = 0 THEN 0 ELSE 1) = n \div Parts + 1
  BY NumbersUsed
<1>7. PICK q \in Nat : q = n \div Parts
  BY <1>6
<1>8. Drawn = q + 1
  <2>1. CASE n % Parts = 0
    BY <1>1, <1>2, <1>7, <2>1 DEF Drawn, Used
  <2>2. CASE n % Parts # 0
    BY <1>1, <1>2, <1>7, <2>2 DEF Drawn, Used
  <2> QED
    BY <2>1, <2>2
<1>9. Drawn' = q + 1
  BY <1>1, <1>4, <1>5, <1>6, <1>7 DEF Drawn, Used, Place
<1>10. Base' = Base
  BY <1>4, <1>8, <1>9 DEF Base
<1>11. StateIsTheSeries'
  BY <1>1, <1>4, <1>10 DEF StateIsTheSeries
<1>12. out = Number(key, q)
  <2>1. q + 1 > 0 /\ q + 1 - 1 = q
    OBVIOUS
  <2> QED
    BY <1>1, <1>8, <2>1
<1>13. CryptIsTheSeries'
  <2>1. ASSUME NEW j \in 1 .. n + 1
        PROVE  output'[j] = Mix(input[j], Part(Number(key, (j - 1) \div Parts), (j - 1) % Parts))
    <3>1. CASE j = n + 1
      <4>1. j - 1 = n
        BY <3>1
      <4>2. output'[j] = byte
        BY <1>5, <3>1
      <4> QED
        BY <1>3, <1>7, <1>12, <3>1, <4>1, <4>2
    <3>2. CASE j # n + 1
      <4>1. j \in 1 .. Len(output)
        BY <1>2, <3>2
      <4>2. output'[j] = output[j]
        BY <1>5, <3>2
      <4> QED
        BY <1>1, <4>1, <4>2 DEF CryptIsTheSeries
    <3> QED
      BY <3>1, <3>2
  <2> QED
    BY <1>4, <1>5, <2>1 DEF CryptIsTheSeries
<1>14. output' = [j \in 1 .. Len(output') |-> output'[j]] /\ Len(output') \in Nat
  BY <1>5
<1>15. out' = Number(key', Drawn' - 1)
  <2>1. q + 1 - 1 = q
    OBVIOUS
  <2> QED
    BY <1>4, <1>9, <1>12, <2>1
<1> QED
  BY <1>1, <1>4, <1>10, <1>11, <1>13, <1>14, <1>15 DEF Mixing

(* Nothing is mixed in the beginning. *)
LEMMA InitCryptInv == CryptInit => CryptInv
BY InitIInv DEF CryptInit, CryptInv

(* Every step of the cipher, and of the generator it has made. *)
LEMMA StepCryptInv == CryptInv /\ [CryptNext]_<<vars, cryptVars>> => CryptInv'
<1> SUFFICES ASSUME CryptInv, [CryptNext]_<<vars, cryptVars>> PROVE CryptInv'
  OBVIOUS
<1>1. IInv /\ IInv' /\ (direct => input = NULL) /\ (input # NULL => Mixing)
  BY CryptStep, StepIInv DEF CryptInv
<1>0. CASE BeginFails
  BY <1>0, <1>1 DEF CryptInv, BeginFails
<1>2. CASE Begin
  <2>1. Mixing'
    BY <1>1, <1>2, BeginMixes
  <2> QED
    BY <1>1, <1>2, <2>1 DEF CryptInv, Begin
<1>3. CASE Draw
  <2>1. Mixing'
    BY <1>1, <1>3, DrawMixes DEF Draw
  <2> QED
    BY <1>1, <1>3, <2>1 DEF CryptInv, Draw
<1>4. CASE CryptByte
  <2>1. Mixing'
    BY <1>1, <1>4, CryptByteMixes DEF CryptByte
  <2> QED
    BY <1>1, <1>4, <2>1 DEF CryptInv, CryptByte
<1>5. CASE End
  BY <1>1, <1>5 DEF CryptInv, End
<1>6. CASE Generator
  <2>1. UNCHANGED cryptVars
    BY <1>6 DEF Generator
  <2>2. input' = input /\ direct' = direct
    BY <2>1 DEF cryptVars
  <2>3. CASE input = NULL
    BY <1>1, <2>2, <2>3 DEF CryptInv
  <2>4. CASE input # NULL
    <3>1. SeedNext \/ TwistNext \/ TemperWord
      BY <1>1, <1>6, <2>4 DEF Generator
    <3>2. Mixing'
      BY <1>1, <2>1, <2>4, <3>1, SeedNextMixes, TwistMixes, TemperMixes
    <3> QED
      BY <1>1, <2>2, <3>2 DEF CryptInv
  <2> QED
    BY <2>3, <2>4
<1>7. CASE UNCHANGED <<vars, cryptVars>>
  <2>1. input # NULL => Mixing'
    BY <1>1, <1>7 DEF Mixing, StateIsTheSeries, Base, Drawn, Used, Place, CryptIsTheSeries,
                      vars, cryptVars
  <2> QED
    BY <1>1, <1>7, <2>1 DEF CryptInv, cryptVars
<1> QED
  BY <1>0, <1>2, <1>3, <1>4, <1>5, <1>6, <1>7 DEF CryptNext

(* Every byte is the text's mixed with its part of the number of the key   *)
(* that is due at its place, for every text, however often it crosses the  *)
(* twist, and for every size of a number.                                  *)
THEOREM CryptedWithTheSeries == CryptSpec => []CryptIsTheSeries
<1>1. CryptInv => CryptIsTheSeries
  BY DEF CryptInv, Mixing, CryptIsTheSeries
<1> QED
  BY <1>1, InitCryptInv, StepCryptInv, PTL DEF CryptSpec
=============================================================================
