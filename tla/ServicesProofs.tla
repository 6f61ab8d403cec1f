--------------------------- MODULE ServicesProofs ---------------------------
(***************************************************************************)
(* What the services are made of. Bytes: what is sliced, copied and padded *)
(* is what it says. Aes: a block decrypts to what was encrypted. Modes:    *)
(* whatever memory runs out, what is returned is whole, and a text that    *)
(* was encrypted decrypts to itself. Cookie: the linked list is the        *)
(* sequence of members that KvList has, and the text of a cookie decodes   *)
(* to what was encoded. The comments: what a user writes stays in the      *)
(* user's field. The profiles: what is encoded, encrypted, decrypted and   *)
(* decoded again is what was written. Conversions: encodings are undone by *)
(* their decodings, and parts of a buffer are the parts that were asked.   *)
(***************************************************************************)
EXTENDS Conversions, FiniteSetTheorems, WellFoundedInduction, TLAPS

(***************************************************************************)
(* Parts of a buffer.                                                      *)
(***************************************************************************)

(* The check of an offset and a length, when their sum does not wrap.      *)
LEMMA ExceedsIsExact ==
    ASSUME NEW src \in Seq(Byte), NEW offset \in Nat, NEW len \in Nat, offset + len < SizeWrap
    PROVE  Exceeds(offset, len, src) <=> offset + len > Len(src)
<1>1. (offset + len) % SizeWrap = offset + len
  BY BytesAssumption
<1> QED BY <1>1 DEF Exceeds

(* bytes_slice() returns the bytes between an offset and its end, or NULL
   when there are not as many: for every buffer, at its very end too. *)
THEOREM SliceIsExact ==
    ASSUME NEW src \in Seq(Byte), NEW offset \in Nat, NEW len \in Nat, offset + len < SizeWrap
    PROVE  Slice(src, offset, len) = IF offset + len > Len(src) THEN NULL
                                     ELSE SubSeq(src, offset + 1, offset + len)
<1>1. src # NULL BY BytesAssumption
<1>2. CASE offset + len > Len(src) BY <1>2, ExceedsIsExact DEF Slice
<1>3. CASE ~(offset + len > Len(src))
  <2>1. Slice(src, offset, len) = [k \in 1 .. len |-> At(src, offset + k)]
    BY <1>1, <1>3, ExceedsIsExact DEF Slice
  <2>2. \A k \in 1 .. len : At(src, offset + k) = src[offset + k]
    BY <1>3 DEF At
  <2>3. SubSeq(src, offset + 1, offset + len) = [k \in 1 .. len |-> src[offset + k]]
    <3>1. /\ Len(SubSeq(src, offset + 1, offset + len)) = len
          /\ SubSeq(src, offset + 1, offset + len) \in Seq(Byte)
      BY <1>3
    <3>2. \A k \in 1 .. len : SubSeq(src, offset + 1, offset + len)[k] = src[offset + k]
      BY <1>3
    <3> QED BY <3>1, <3>2
  <2> QED BY <2>1, <2>2, <2>3, <1>3
<1> QED BY <1>2, <1>3

(* bytes_sput() copies the bytes it was asked to where it was asked to,
   leaves the others, and returns -1 rather than read or write outside. *)
THEOREM SputIsExact ==
    ASSUME NEW dest \in Seq(Byte), NEW offset \in Nat,
           NEW src \in Seq(Byte), NEW soffset \in Nat, NEW slen \in Nat,
           offset + slen < SizeWrap, soffset + slen < SizeWrap
    PROVE  LET put == Sput(dest, offset, src, soffset, slen)
           IN  IF soffset + slen > Len(src) \/ offset + slen > Len(dest) THEN put = NULL
               ELSE /\ put \in Seq(Byte) /\ Len(put) = Len(dest)
                    /\ \A k \in 1 .. slen : put[offset + k] = src[soffset + k]
                    /\ \A k \in 1 .. offset : put[k] = dest[k]
                    /\ \A k \in offset + slen + 1 .. Len(dest) : put[k] = dest[k]
<1> DEFINE put == Sput(dest, offset, src, soffset, slen)
<1>1. dest # NULL /\ src # NULL BY BytesAssumption
<1>2. CASE soffset + slen > Len(src) \/ offset + slen > Len(dest)
  BY <1>2, ExceedsIsExact DEF Sput
<1>3. CASE soffset + slen <= Len(src) /\ offset + slen <= Len(dest)
  <2>1. put = [k \in 1 .. Len(dest) |->
                IF k - offset \in 1 .. slen THEN At(src, soffset + k - offset) ELSE dest[k]]
    <3>1. ~Exceeds(soffset, slen, src) /\ ~Exceeds(offset, slen, dest)
      BY <1>3, ExceedsIsExact
    <3>2. DOMAIN dest = 1 .. Len(dest) OBVIOUS
    <3> QED BY <1>1, <3>1, <3>2 DEF Sput
  <2>2. ASSUME NEW k \in 1 .. Len(dest), k - offset \in 1 .. slen
        PROVE  /\ At(src, soffset + k - offset) = src[soffset + k - offset]
               /\ src[soffset + k - offset] \in Byte
    <3>1. soffset + k - offset \in 1 .. Len(src)
      BY <1>3, <2>2
    <3> QED BY <3>1 DEF At
  <2>3. put \in [1 .. Len(dest) -> Byte]
    BY <2>1, <2>2
  <2>4. put \in Seq(Byte) /\ Len(put) = Len(dest)
    BY <2>3, SMTT(20)
  <2>5. \A k \in 1 .. slen : put[offset + k] = src[soffset + k]
    <3> SUFFICES ASSUME NEW k \in 1 .. slen PROVE put[offset + k] = src[soffset + k]
      OBVIOUS
    <3>1. offset + k \in 1 .. Len(dest) /\ (offset + k) - offset = k
          /\ soffset + (offset + k) - offset = soffset + k
      BY <1>3
    <3> QED BY <3>1, <2>1, <2>2
  <2>6. /\ \A k \in 1 .. offset : put[k] = dest[k]
        /\ \A k \in offset + slen + 1 .. Len(dest) : put[k] = dest[k]
    BY <2>1, <1>3
  <2> QED BY <1>3, <2>4, <2>5, <2>6
<1> QED BY <1>2, <1>3

(* PKCS#7. *)

(* A quotient and a remainder are what a number was made of. *)
LEMMA QuotientIs ==
    ASSUME NEW c \in Nat \ {0}, NEW q \in Nat, NEW r \in 0 .. c - 1
    PROVE  /\ (q * c + r) \div c = q
           /\ (q * c + r) % c = r
<1>1. PICK v \in Nat : v = q * c + r OBVIOUS
<1>2. v = c * (v \div c) + (v % c) /\ v % c \in 0 .. c - 1 /\ v \div c \in Int
  OBVIOUS
<1>3. PICK d \in Int, e \in 0 .. c - 1 : d = v \div c /\ v = c * d + e /\ e = v % c
  BY <1>2
<1>4. (q - d) * c = e - r
  <2>1. PICK a \in Int, b \in Int, f \in Int : a = q * c /\ b = c * d /\ f = (q - d) * c
    OBVIOUS
  <2>2. f = a - b BY <2>1
  <2>3. a + r = b + e BY <1>1, <1>3, <2>1
  <2>4. f = e - r BY <2>2, <2>3
  <2> QED BY <2>1, <2>4
<1>5. CASE q - d >= 1
  <2>1. (q - d) * c >= c BY <1>5
  <2> QED BY <1>4, <2>1
<1>6. CASE q - d <= -1
  <2>1. (q - d) * c <= -c BY <1>6
  <2> QED BY <1>4, <2>1
<1>7. CASE q = d
  <2>1. e = r BY <1>1, <1>3, <1>7
  <2> QED BY <1>1, <1>3, <1>7, <2>1
<1> QED BY <1>5, <1>6, <1>7

(* There is a padding, of a block at most, and it fills the last block. *)
LEMMA PaddingFills ==
    ASSUME NEW len \in Nat, NEW k \in 1 .. 255
    PROVE  PaddingLen(len, k) \in 1 .. k /\ (len + PaddingLen(len, k)) % k = 0
<1>1. /\ len \div k \in Nat /\ len % k \in 0 .. k - 1
      /\ len = k * (len \div k) + (len % k)
  OBVIOUS
<1> DEFINE q == len \div k
           r == len % k
<1> HIDE DEF q, r
<1>2. q \in Nat /\ r \in 0 .. k - 1 /\ len = k * q + r
  BY <1>1 DEF q, r
<1>3. len + (k - r) = (q + 1) * k + 0 BY <1>2
<1>4. ((q + 1) * k + 0) % k = 0
  <2>1. k \in Nat \ {0} /\ q + 1 \in Nat /\ 0 \in 0 .. k - 1
    BY <1>2
  <2> QED BY <2>1, QuotientIs
<1>5. PaddingLen(len, k) = k - r
  BY DEF PaddingLen, r
<1> QED BY <1>2, <1>3, <1>4, <1>5

(* bytes_pkcs7_padded() appends a padding of n bytes n, and the result is
   a whole number of blocks. *)
LEMMA PaddedIs ==
    ASSUME NEW src \in Seq(Byte), NEW k \in 1 .. 255
    PROVE  LET n == PaddingLen(Len(src), k)
               padded == Pkcs7Padded(src, k)
           IN  /\ n \in 1 .. k
               /\ padded \in Seq(Byte) /\ Len(padded) = Len(src) + n
               /\ Len(padded) % k = 0
               /\ \A i \in 1 .. Len(src) : padded[i] = src[i]
               /\ \A i \in 1 .. n : padded[Len(src) + i] = n
<1> DEFINE n == PaddingLen(Len(src), k)
           pad == [j \in 1 .. n |-> n]
           padded == Pkcs7Padded(src, k)
<1>0. Len(src) \in Nat /\ k # 0 /\ src # NULL
  BY BytesAssumption
<1>1. n \in 1 .. k /\ (Len(src) + n) % k = 0
  BY <1>0, PaddingFills
<1> HIDE DEF n
<1>2. pad \in [1 .. n -> Byte] BY <1>1 DEF Byte
<1>3. pad \in Seq(Byte) /\ Len(pad) = n
  BY <1>1, <1>2
<1>4. padded = src \o pad BY <1>0 DEF Pkcs7Padded, n
<1>5. /\ padded \in Seq(Byte) /\ Len(padded) = Len(src) + n
      /\ \A i \in 1 .. Len(src) : padded[i] = src[i]
  <2> HIDE DEF pad
  <2> QED BY <1>3, <1>4
<1>6. ASSUME NEW i \in 1 .. n PROVE padded[Len(src) + i] = n
  <2>1. padded[Len(src) + i] = pad[i]
    <3>1. Len(src) + i \in 1 .. Len(src) + n /\ ~(Len(src) + i <= Len(src))
          /\ (Len(src) + i) - Len(src) = i
      BY <1>1
    <3> HIDE DEF pad
    <3> QED BY <3>1, <1>3, <1>4
  <2> QED BY <2>1
<1> QED BY <1>1, <1>5, <1>6 DEF n

(* Padding always adds between one byte and a block, and makes whole
   blocks: for every buffer and size of a block. *)
THEOREM PaddedIsWholeBlocks ==
    ASSUME NEW src \in Seq(Byte), NEW k \in 1 .. 255
    PROVE  /\ Pkcs7Padded(src, k) \in Seq(Byte)
           /\ Len(Pkcs7Padded(src, k)) % k = 0
           /\ Len(Pkcs7Padded(src, k)) \in Len(src) + 1 .. Len(src) + k
<1> DEFINE n == PaddingLen(Len(src), k)
           padded == Pkcs7Padded(src, k)
<1>1. /\ n \in 1 .. k
      /\ padded \in Seq(Byte) /\ Len(padded) = Len(src) + n
      /\ Len(padded) % k = 0
  BY PaddedIs
<1> HIDE DEF n, padded
<1>2. Len(src) \in Nat OBVIOUS
<1>3. Len(padded) \in Len(src) + 1 .. Len(src) + k
  BY <1>1, <1>2
<1> QED BY <1>1, <1>3 DEF padded

(* What was padded is unpadded to what it was, also when it ends in bytes
   that look like a padding, or fills its blocks. *)
THEOREM UnpaddedInvertsPadded ==
    ASSUME NEW src \in Seq(Byte), NEW k \in 1 .. 255, Len(src) + k < SizeWrap
    PROVE  Pkcs7Unpadded(Pkcs7Padded(src, k)) = src
<1> DEFINE n == PaddingLen(Len(src), k)
           padded == Pkcs7Padded(src, k)
<1>1. /\ n \in 1 .. k
      /\ padded \in Seq(Byte) /\ Len(padded) = Len(src) + n
      /\ \A i \in 1 .. Len(src) : padded[i] = src[i]
      /\ \A i \in 1 .. n : padded[Len(src) + i] = n
  BY PaddedIs
<1> HIDE DEF n, padded
<1>2. padded # NULL BY <1>1, BytesAssumption
<1>3. padded[Len(padded)] = n BY <1>1
<1>4. \A i \in 1 .. n : padded[Len(padded) - (i - 1)] = n
  <2> SUFFICES ASSUME NEW i \in 1 .. n PROVE padded[Len(padded) - (i - 1)] = n
    OBVIOUS
  <2>1. n - (i - 1) \in 1 .. n BY <1>1
  <2>2. padded[Len(src) + (n - (i - 1))] = n
    BY <2>1, <1>1
  <2>3. Len(padded) - (i - 1) = Len(src) + (n - (i - 1))
    BY <1>1
  <2> QED BY <2>2, <2>3
<1>5. Pkcs7Padding(padded) = [ret |-> 0, padding |-> n]
  <2>1. ~(Len(padded) < 1) /\ ~(n = 0 \/ Len(padded) < n)
    BY <1>1
  <2> QED BY <2>1, <1>2, <1>3, <1>4 DEF Pkcs7Padding
<1>6. Pkcs7Unpadded(padded) = Slice(padded, 0, Len(src))
  <2>1. Len(padded) - n = Len(src) BY <1>1
  <2> QED BY <2>1, <1>5 DEF Pkcs7Unpadded
<1>7. Slice(padded, 0, Len(src)) = SubSeq(padded, 1, Len(src))
  <2>1. 0 + Len(src) < SizeWrap /\ ~(0 + Len(src) > Len(padded)) /\ 0 + 1 = 1
    BY <1>1, BytesAssumption
  <2> QED BY <2>1, <1>1, SliceIsExact
<1>8. SubSeq(padded, 1, Len(src)) = src
  <2>1. /\ SubSeq(padded, 1, Len(src)) \in Seq(Byte)
        /\ Len(SubSeq(padded, 1, Len(src))) = Len(src)
    BY <1>1
  <2>2. \A i \in 1 .. Len(src) : SubSeq(padded, 1, Len(src))[i] = src[i]
    BY <1>1
  <2> DEFINE first == SubSeq(padded, 1, Len(src))
  <2> HIDE DEF first
  <2>3. first = [i \in 1 .. Len(src) |-> first[i]] /\ src = [i \in 1 .. Len(src) |-> src[i]]
    BY <2>1 DEF first
  <2> QED BY <2>2, <2>3 DEF first
<1> QED BY <1>6, <1>7, <1>8 DEF padded

(* Counting, in place of an induction. *)

(* What may be concluded of a set of numbers in place of an induction. *)
LEMMA Smallest ==
    ASSUME NEW S, S \subseteq Nat, S # {}
    PROVE  \E m \in S : \A n \in S : m <= n
<1> DEFINE R == OpToRel(<, Nat)
<1>1. R = {ss \in Nat \X Nat : ss[1] < ss[2]}
  BY DEF OpToRel
<1>2. IsWellFoundedOn(R, Nat)
  BY NatLessThanWellFounded
<1> HIDE DEF R
<1>3. PICK m \in S : \A n \in S : ~(<<n, m>> \in R) BY <1>2, WFMin
<1>4. ASSUME NEW n \in S PROVE m <= n
  <2>1. <<n, m>> \notin R /\ n \in Nat /\ m \in Nat
    BY <1>3
  <2>2. ~(n < m) BY <2>1, <1>1
  <2> QED BY <2>1, <2>2
<1> QED BY <1>4

(* What holds first, and of every number after one of which it holds. *)
LEMMA CountingUp ==
    ASSUME NEW n \in Nat, NEW W, 0 \in W, \A r \in 0 .. n - 1 : r \in W => r + 1 \in W
    PROVE  \A r \in 0 .. n : r \in W
<1> DEFINE wrong == {r \in 0 .. n : r \notin W}
<1>1. CASE wrong = {} BY <1>1
<1>2. CASE wrong # {}
  <2>1. PICK r \in wrong : \A q \in wrong : r <= q
    <3>1. wrong \subseteq Nat OBVIOUS
    <3> HIDE DEF wrong
    <3> QED BY <1>2, <3>1, Smallest
  <2>2. r \in 0 .. n /\ r \notin W /\ r # 0 OBVIOUS
  <2>3. r - 1 \in 0 .. n - 1 /\ r - 1 \in 0 .. n /\ ~(r <= r - 1) /\ (r - 1) + 1 = r
    BY <2>2
  <2>4. r - 1 \in W BY <2>1, <2>3
  <2> QED BY <2>2, <2>3, <2>4
<1> QED BY <1>1, <1>2

(* A recursion of n steps, each of them a function. *)
Iterates(n, S) ==
    \A a \in S, F \in [1 .. n -> [S -> S]] :
        \E g \in [0 .. n -> S] : g[0] = a /\ \A r \in 1 .. n : g[r] = F[r][g[r - 1]]

(* There is one result of such a recursion. *)
LEMMA Iterated == \A n \in Nat : \A S : Iterates(n, S)
<1> SUFFICES ASSUME NEW n \in Nat, NEW S, NEW a \in S, NEW F \in [1 .. n -> [S -> S]]
             PROVE  \E g \in [0 .. n -> S] : g[0] = a /\ \A r \in 1 .. n : g[r] = F[r][g[r - 1]]
  BY DEF Iterates
<1> DEFINE Upto(g, r) == g \in [0 .. r -> S] /\ g[0] = a /\ \A k \in 1 .. r : g[k] = F[k][g[k - 1]]
           W == {r \in 0 .. n : \E g : Upto(g, r)}
<1>1. 0 \in W
  <2>1. Upto([k \in 0 .. 0 |-> a], 0) OBVIOUS
  <2> HIDE DEF Upto
  <2> QED BY <2>1
<1>2. ASSUME NEW r \in 0 .. n - 1, r \in W PROVE r + 1 \in W
  <2>1. PICK g : Upto(g, r) BY <1>2
  <2>2. r + 1 \in 1 .. n /\ r + 1 \in 0 .. n /\ r \in Nat /\ r \in 0 .. r
    OBVIOUS
  <2>3. g \in [0 .. r -> S] /\ g[0] = a /\ \A k \in 1 .. r : g[k] = F[k][g[k - 1]]
    BY <2>1
  <2>4. F[r + 1][g[r]] \in S BY <2>2, <2>3
  <2>5. PICK h : h = [k \in 0 .. r + 1 |-> IF k = r + 1 THEN F[r + 1][g[r]] ELSE g[k]]
    OBVIOUS
  <2>6. /\ \A k \in 0 .. r : h[k] = g[k]
        /\ h[r + 1] = F[r + 1][g[r]] /\ h \in [0 .. r + 1 -> S]
    BY <2>2, <2>3, <2>4, <2>5
  <2>7. ASSUME NEW k \in 1 .. r + 1 PROVE h[k] = F[k][h[k - 1]]
    <3>1. CASE k = r + 1
      <4>1. k - 1 = r BY <3>1
      <4> QED BY <2>2, <2>6, <3>1, <4>1
    <3>2. CASE k # r + 1
      <4>1. k \in 1 .. r /\ k \in 0 .. r /\ k - 1 \in 0 .. r
        BY <3>2
      <4> QED BY <2>3, <2>6, <4>1, Zenon
    <3> QED BY <3>1, <3>2
  <2>8. Upto(h, r + 1) BY <2>2, <2>3, <2>6, <2>7
  <2> HIDE DEF Upto
  <2> QED BY <2>2, <2>8
<1> HIDE DEF W
<1>3. \A r \in 0 .. n - 1 : r \in W => r + 1 \in W
  BY <1>2
<1>4. \A r \in 0 .. n : r \in W
  BY <1>1, <1>3, CountingUp
<1>5. n \in 0 .. n OBVIOUS
<1>6. n \in W BY <1>4, <1>5, Zenon
<1> QED BY <1>6 DEF W

(* Exclusive or. *)

(* The table of the bytes below n is one of an exclusive or. *)
IsXorTable(t, n) ==
    \A x, y \in 0 .. n - 1 :
        t[x][y] \in 0 .. n - 1 /\ t[t[x][y]][y] = x /\ t[x][0] = x

(* Its sums may be taken in any order. *)
IsXorSum(t, n) ==
    /\ \A x, y \in 0 .. n - 1 : t[x][y] = t[y][x]
    /\ \A x, y, z \in 0 .. n - 1 : t[t[x][y]][z] = t[x][t[y][z]]

(* With one more bit. *)
Wider(half, n) ==
    [x \in 0 .. n - 1 |-> [y \in 0 .. n - 1 |-> 2 * half[x \div 2][y \div 2] + ((x + y) % 2)]]

(* With one more bit, a table of an exclusive or is one. *)
LEMMA WiderIsXorTable ==
    ASSUME NEW n \in Nat \ {0}, NEW half, IsXorTable(half, n)
    PROVE  IsXorTable(Wider(half, 2 * n), 2 * n)
<1> DEFINE t == Wider(half, 2 * n)
<1> SUFFICES ASSUME NEW x \in 0 .. 2 * n - 1, NEW y \in 0 .. 2 * n - 1
             PROVE  t[x][y] \in 0 .. 2 * n - 1 /\ t[t[x][y]][y] = x /\ t[x][0] = x
  BY DEF IsXorTable
<1>1. \A a, b \in 0 .. 2 * n - 1 : t[a][b] = 2 * half[a \div 2][b \div 2] + ((a + b) % 2)
  BY DEF Wider
<1> HIDE DEF t
<1>2. PICK h : h = half[x \div 2][y \div 2] OBVIOUS
<1>3. /\ x \div 2 \in 0 .. n - 1 /\ y \div 2 \in 0 .. n - 1
      /\ x = 2 * (x \div 2) + (x % 2) /\ y = 2 * (y \div 2) + (y % 2)
      /\ x % 2 \in 0 .. 1 /\ y % 2 \in 0 .. 1 /\ 0 \div 2 = 0 /\ 0 \in 0 .. 2 * n - 1
  OBVIOUS
<1>4. h \in 0 .. n - 1 /\ half[h][y \div 2] = x \div 2 /\ half[x \div 2][0] = x \div 2
  BY <1>2, <1>3 DEF IsXorTable
<1>5. PICK v : v = t[x][y] OBVIOUS
<1>6. v = 2 * h + ((x + y) % 2) BY <1>1, <1>2, <1>5
<1>7. v \in 0 .. 2 * n - 1 /\ v \div 2 = h /\ (v + y) % 2 = x % 2
  BY <1>3, <1>4, <1>6
<1>8. t[v][y] = 2 * (x \div 2) + (x % 2)
  BY <1>1, <1>4, <1>7
<1>9. t[x][0] = 2 * (x \div 2) + (x % 2)
  <2>1. t[x][0] = 2 * half[x \div 2][0 \div 2] + ((x + 0) % 2)
    BY <1>1, <1>3
  <2>2. x + 0 = x OBVIOUS
  <2> QED BY <1>3, <1>4, <2>1, <2>2, Zenon
<1> QED BY <1>3, <1>5, <1>7, <1>8, <1>9

(* And with one more bit, sums may still be taken in any order. *)
LEMMA WiderIsXorSum ==
    ASSUME NEW n \in Nat \ {0}, NEW half, IsXorTable(half, n), IsXorSum(half, n)
    PROVE  IsXorSum(Wider(half, 2 * n), 2 * n)
<1> DEFINE t == Wider(half, 2 * n)
<1>1. \A a, b \in 0 .. 2 * n - 1 : t[a][b] = 2 * half[a \div 2][b \div 2] + ((a + b) % 2)
  BY DEF Wider
<1>2. \A a, b \in 0 .. 2 * n - 1 : t[a][b] \in 0 .. 2 * n - 1
  BY WiderIsXorTable DEF IsXorTable
<1> HIDE DEF t
<1>3. \A a \in 0 .. 2 * n - 1 : a \div 2 \in 0 .. n - 1 OBVIOUS
<1>4. \A a, b \in 0 .. n - 1 : half[a][b] \in 0 .. n - 1
  BY DEF IsXorTable
<1>5. \A a, b \in 0 .. 2 * n - 1 :
        t[a][b] \div 2 = half[a \div 2][b \div 2] /\ t[a][b] % 2 = (a + b) % 2
  <2> SUFFICES ASSUME NEW a \in 0 .. 2 * n - 1, NEW b \in 0 .. 2 * n - 1
               PROVE  t[a][b] \div 2 = half[a \div 2][b \div 2] /\ t[a][b] % 2 = (a + b) % 2
    OBVIOUS
  <2>1. PICK h \in 0 .. n - 1 : h = half[a \div 2][b \div 2] BY <1>3, <1>4
  <2>2. t[a][b] = 2 * h + ((a + b) % 2)
    BY <1>1, <2>1
  <2>3. (2 * h + ((a + b) % 2)) \div 2 = h /\ (2 * h + ((a + b) % 2)) % 2 = (a + b) % 2
    OBVIOUS
  <2> QED BY <2>1, <2>2, <2>3
<1>6. ASSUME NEW x \in 0 .. 2 * n - 1, NEW y \in 0 .. 2 * n - 1 PROVE t[x][y] = t[y][x]
  <2>1. half[x \div 2][y \div 2] = half[y \div 2][x \div 2]
    BY <1>3 DEF IsXorSum
  <2>2. (x + y) % 2 = (y + x) % 2 OBVIOUS
  <2> QED BY <1>1, <2>1, <2>2
<1>7. ASSUME NEW x \in 0 .. 2 * n - 1, NEW y \in 0 .. 2 * n - 1, NEW z \in 0 .. 2 * n - 1
      PROVE  t[t[x][y]][z] = t[x][t[y][z]]
  <2>1. PICK v \in 0 .. 2 * n - 1 : v = t[x][y] BY <1>2
  <2>2. PICK w \in 0 .. 2 * n - 1 : w = t[y][z] BY <1>2
  <2>3. half[v \div 2][z \div 2] = half[x \div 2][w \div 2]
    <3>1. v \div 2 = half[x \div 2][y \div 2] /\ w \div 2 = half[y \div 2][z \div 2]
      BY <1>5, <2>1, <2>2
    <3>2. PICK a \in 0 .. n - 1, b \in 0 .. n - 1, c \in 0 .. n - 1 :
            a = x \div 2 /\ b = y \div 2 /\ c = z \div 2
      BY <1>3
    <3>3. \A i, j, k \in 0 .. n - 1 : half[half[i][j]][k] = half[i][half[j][k]]
      BY Zenon DEF IsXorSum
    <3>4. half[half[a][b]][c] = half[a][half[b][c]]
      BY <3>3
    <3> QED BY <3>1, <3>2, <3>4, Zenon
  <2>4. (v + z) % 2 = (x + w) % 2
    <3>1. v % 2 = (x + y) % 2 /\ w % 2 = (y + z) % 2
      BY <1>5, <2>1, <2>2
    <3> QED BY <3>1
  <2>5. t[v][z] = 2 * half[v \div 2][z \div 2] + ((v + z) % 2)
        /\ t[x][w] = 2 * half[x \div 2][w \div 2] + ((x + w) % 2)
    BY <1>1
  <2> QED BY <2>1, <2>2, <2>3, <2>4, <2>5
<1> QED BY <1>6, <1>7 DEF IsXorSum, t

(* The table of all the bytes, bit by bit. *)
LEMMA XorTableWidens ==
    \E table : /\ XorTable = table[8] /\ table[0] = [x \in {0} |-> [y \in {0} |-> 0]]
               /\ \A b \in 1 .. 8 : table[b] = Wider(table[b - 1], 2 ^ b)
<1> DEFINE Def(f) == [bits \in 0 .. 8 |->
                        IF bits = 0 THEN [x \in {0} |-> [y \in {0} |-> 0]]
                        ELSE Wider(f[bits - 1], 2 ^ bits)]
           t0 == [x \in {0} |-> [y \in {0} |-> 0]]
           t1 == Wider(t0, 2 ^ 1)
           t2 == Wider(t1, 2 ^ 2)
           t3 == Wider(t2, 2 ^ 3)
           t4 == Wider(t3, 2 ^ 4)
           t5 == Wider(t4, 2 ^ 5)
           t6 == Wider(t5, 2 ^ 6)
           t7 == Wider(t6, 2 ^ 7)
           t8 == Wider(t7, 2 ^ 8)
           g == [b \in 0 .. 8 |-> CASE b = 0 -> t0 [] b = 1 -> t1 [] b = 2 -> t2 [] b = 3 -> t3
                                    [] b = 4 -> t4 [] b = 5 -> t5 [] b = 6 -> t6 [] b = 7 -> t7
                                    [] b = 8 -> t8]
<1>1. g = Def(g)
  <2> HIDE DEF t1, t2, t3, t4, t5, t6, t7, t8
  <2> SUFFICES ASSUME NEW b \in 0 .. 8
               PROVE  g[b] = IF b = 0 THEN t0 ELSE Wider(g[b - 1], 2 ^ b)
    <3> HIDE DEF t0
    <3> QED BY DEF t0
  <2> HIDE DEF t0
  <2>1. /\ g[0] = t0 /\ g[1] = t1 /\ g[2] = t2 /\ g[3] = t3 /\ g[4] = t4
        /\ g[5] = t5 /\ g[6] = t6 /\ g[7] = t7 /\ g[8] = t8
    OBVIOUS
  <2> HIDE DEF g
  <2>2. b \in {0, 1, 2, 3, 4, 5, 6, 7, 8} OBVIOUS
  <2>3. /\ 1 - 1 = 0 /\ 2 - 1 = 1 /\ 3 - 1 = 2 /\ 4 - 1 = 3
        /\ 5 - 1 = 4 /\ 6 - 1 = 5 /\ 7 - 1 = 6 /\ 8 - 1 = 7
    OBVIOUS
  <2>4. /\ g[1] = Wider(g[1 - 1], 2 ^ 1) /\ g[2] = Wider(g[2 - 1], 2 ^ 2)
        /\ g[3] = Wider(g[3 - 1], 2 ^ 3) /\ g[4] = Wider(g[4 - 1], 2 ^ 4)
        /\ g[5] = Wider(g[5 - 1], 2 ^ 5) /\ g[6] = Wider(g[6 - 1], 2 ^ 6)
        /\ g[7] = Wider(g[7 - 1], 2 ^ 7) /\ g[8] = Wider(g[8 - 1], 2 ^ 8)
    BY <2>1, <2>3, Zenon DEF t1, t2, t3, t4, t5, t6, t7, t8
  <2>5. CASE b = 0 BY <2>1, <2>5, Zenon
  <2>6. CASE b \in 1 .. 8
    <3>1. \/ b = 1 \/ b = 2 \/ b = 3 \/ b = 4 \/ b = 5 \/ b = 6 \/ b = 7 \/ b = 8
      BY <2>6
    <3>2. b # 0 BY <2>6
    <3>3. g[b] = Wider(g[b - 1], 2 ^ b)
      BY <2>4, <3>1, Zenon
    <3> QED BY <3>2, <3>3, Zenon
  <2> QED BY <2>2, <2>5, <2>6
<1> DEFINE table == CHOOSE f : f = Def(f)
<1>2. table = Def(table)
  <2> HIDE DEF Def, g
  <2> QED BY <1>1, Zenon
<1>3. XorTable = table[8] BY DEF XorTable, Wider
<1> HIDE DEF table
<1>4. table[0] = t0 /\ \A b \in 1 .. 8 : table[b] = Wider(table[b - 1], 2 ^ b)
  <2> HIDE DEF t0
  <2> QED BY <1>2 DEF t0
<1> QED BY <1>3, <1>4

(* That table, that xor.c has in the processor: twice the same byte is
   none, and 0 changes nothing; sums may be taken in any order. *)
LEMMA XorTableIs == IsXorTable(XorTable, 256) /\ IsXorSum(XorTable, 256)
<1>1. PICK table : /\ XorTable = table[8] /\ table[0] = [x \in {0} |-> [y \in {0} |-> 0]]
                   /\ \A b \in 1 .. 8 : table[b] = Wider(table[b - 1], 2 ^ b)
  BY XorTableWidens
<1> DEFINE Is(b, n) == IsXorTable(table[b], n) /\ IsXorSum(table[b], n)
<1>5. Is(0, 1) BY <1>1 DEF IsXorTable, IsXorSum
<1>6. ASSUME NEW b \in 1 .. 8, NEW n \in Nat \ {0}, 2 ^ b = 2 * n, Is(b - 1, n)
      PROVE  Is(b, 2 * n)
  BY <1>1, <1>6, WiderIsXorTable, WiderIsXorSum
<1> HIDE DEF Is
<1>7. Is(1, 2) BY <1>5, <1>6
<1>8. Is(2, 4) BY <1>7, <1>6
<1>9. Is(3, 8) BY <1>8, <1>6
<1>10. Is(4, 16) BY <1>9, <1>6
<1>11. Is(5, 32) BY <1>10, <1>6
<1>12. Is(6, 64) BY <1>11, <1>6
<1>13. Is(7, 128) BY <1>12, <1>6
<1>14. Is(8, 256) BY <1>13, <1>6
<1> QED BY <1>1, <1>14 DEF Is

(* Zero adds nothing to a byte, and what is added twice is not added. *)
LEMMA XorOfBytes ==
    /\ \A x, y \in Byte : XorTable[x][y] \in Byte
    /\ \A x, y \in Byte : XorTable[XorTable[x][y]][y] = x
    /\ \A x \in Byte : XorTable[x][0] = x
    /\ \A x, y \in Byte : XorTable[x][y] = XorTable[y][x]
<1>1. PICK n \in Nat : n = 256 OBVIOUS
<1>2. IsXorTable(XorTable, n) /\ IsXorSum(XorTable, n)
  BY <1>1, XorTableIs
<1>3. Byte = 0 .. n - 1 /\ 0 \in Byte
  BY <1>1 DEF Byte
<1>4. \A x, y \in Byte :
        XorTable[x][y] \in Byte /\ XorTable[XorTable[x][y]][y] = x /\ XorTable[x][0] = x
  <2>1. \A x, y \in 0 .. n - 1 :
            XorTable[x][y] \in 0 .. n - 1 /\ XorTable[XorTable[x][y]][y] = x /\ XorTable[x][0] = x
    BY <1>2 DEF IsXorTable
  <2> QED BY <1>3, <2>1
<1>5. \A x, y \in Byte : XorTable[x][y] = XorTable[y][x]
  <2>1. \A x, y \in 0 .. n - 1 : XorTable[x][y] = XorTable[y][x]
    BY <1>2 DEF IsXorSum
  <2> QED BY <1>3, <2>1
<1> QED BY <1>3, <1>4, <1>5

(* Three bytes may be added in either order. *)
LEMMA XorAssociates ==
    ASSUME NEW x \in Byte, NEW y \in Byte, NEW z \in Byte
    PROVE  XorTable[XorTable[x][y]][z] = XorTable[x][XorTable[y][z]]
<1>1. PICK n \in Nat : n = 256 OBVIOUS
<1>2. IsXorSum(XorTable, n) BY <1>1, XorTableIs
<1>3. x \in 0 .. n - 1 /\ y \in 0 .. n - 1 /\ z \in 0 .. n - 1
  BY <1>1 DEF Byte
<1>4. \A a, b, c \in 0 .. n - 1 : XorTable[XorTable[a][b]][c] = XorTable[a][XorTable[b][c]]
  BY <1>2 DEF IsXorSum
<1> QED BY <1>3, <1>4

(* A text of a given length is a sequence of bytes. *)
LEMMA TextOfLength ==
    ASSUME NEW n \in Nat
    PROVE  /\ \A s \in [1 .. n -> Byte] : s \in Seq(Byte) /\ Len(s) = n /\ s # NULL
           /\ \A s \in Seq(Byte) : Len(s) = n => s \in [1 .. n -> Byte]
<1>1. \A s \in [1 .. n -> Byte] : s \in Seq(Byte) /\ Len(s) = n OBVIOUS
<1>2. \A s \in Seq(Byte) : Len(s) = n => s \in [1 .. n -> Byte] OBVIOUS
<1> QED BY <1>1, <1>2, BytesAssumption

(* Two texts with the same bytes are the same. *)
LEMMA SameBytes ==
    ASSUME NEW n, NEW a \in [1 .. n -> Byte], NEW b \in [1 .. n -> Byte],
           \A k \in 1 .. n : a[k] = b[k]
    PROVE  a = b
<1>1. a = [k \in 1 .. n |-> a[k]] /\ b = [k \in 1 .. n |-> b[k]] OBVIOUS
<1> QED BY <1>1, Zenon

(* bytes_xor() keeps the length, and undoes itself. *)
LEMMA XorIs ==
    ASSUME NEW n \in Nat, NEW a \in [1 .. n -> Byte], NEW b \in [1 .. n -> Byte]
    PROVE  Xor(a, b) \in [1 .. n -> Byte] /\ Xor(Xor(a, b), b) = a
<1> DEFINE c == [k \in 1 .. n |-> XorTable[a[k]][b[k]]]
<1>1. \A x, y \in Byte : XorTable[x][y] \in Byte /\ XorTable[XorTable[x][y]][y] = x
  BY XorOfBytes, Zenon
<1>2. c \in [1 .. n -> Byte] BY <1>1
<1>3. /\ a # NULL /\ Len(a) = n /\ b # NULL /\ Len(b) = n /\ c # NULL /\ Len(c) = n
      /\ DOMAIN a = 1 .. n /\ DOMAIN c = 1 .. n
  <2> HIDE DEF c
  <2> QED BY <1>2, TextOfLength
<1>4. Xor(a, b) = c BY <1>3, Zenon DEF Xor
<1>5. \A k \in 1 .. n : XorTable[c[k]][b[k]] = a[k]
  <2> SUFFICES ASSUME NEW k \in 1 .. n PROVE XorTable[c[k]][b[k]] = a[k]
    OBVIOUS
  <2>1. a[k] \in Byte /\ b[k] \in Byte /\ c[k] = XorTable[a[k]][b[k]] OBVIOUS
  <2> QED BY <1>1, <2>1, Zenon
<1>6. Xor(c, b) = [k \in 1 .. n |-> XorTable[c[k]][b[k]]]
  <2> HIDE DEF c
  <2> QED BY <1>3, Zenon DEF Xor
<1> HIDE DEF c
<1>7. Xor(c, b) = [k \in 1 .. n |-> a[k]]
  BY <1>5, <1>6, Zenon
<1>8. a = [k \in 1 .. n |-> a[k]] OBVIOUS
<1> QED BY <1>2, <1>4, <1>7, <1>8, Zenon

(* ecb adds nothing to its blocks. *)
LEMMA XorZeroed ==
    ASSUME NEW n \in Nat, NEW a \in [1 .. n -> Byte]
    PROVE  Zeroed(n) \in [1 .. n -> Byte] /\ Xor(a, Zeroed(n)) = a
<1>1. \A x \in Byte : XorTable[x][0] = x
  BY XorOfBytes, Zenon
<1>2. PICK z : z = Zeroed(n) OBVIOUS
<1>3. z = [k \in 1 .. n |-> 0]
  BY <1>2, Zenon DEF Zeroed, Repeated
<1>4. z \in [1 .. n -> Byte] /\ \A k \in 1 .. n : z[k] = 0
  BY <1>3 DEF Byte
<1>5. /\ a # NULL /\ Len(a) = n /\ z # NULL /\ Len(z) = n /\ DOMAIN a = 1 .. n
  BY <1>4, TextOfLength
<1>6. Xor(a, z) = [k \in 1 .. n |-> XorTable[a[k]][z[k]]]
  BY <1>5, Zenon DEF Xor
<1>7. \A k \in 1 .. n : XorTable[a[k]][z[k]] = a[k]
  BY <1>1, <1>4
<1>8. Xor(a, z) = [k \in 1 .. n |-> a[k]]
  BY <1>6, <1>7, Zenon
<1>9. a = [k \in 1 .. n |-> a[k]] OBVIOUS
<1> QED BY <1>2, <1>4, <1>8, <1>9, Zenon

(* What is added must be as long. *)
LEMMA XorFits ==
    ASSUME NEW a, NEW b, Xor(a, b) # NULL
    PROVE  a # NULL /\ b # NULL /\ Len(a) = Len(b)
BY DEF Xor

(* uint64_to_bytes_le() makes eight bytes. *)
LEMMA LittleEndianIs ==
    ASSUME NEW x \in Nat
    PROVE  LittleEndian(x) \in [1 .. 8 -> Byte]
<1> DEFINE Def(f) == [k \in 1 .. 8 |-> IF k = 1 THEN x ELSE f[k - 1] \div 256]
           shifted == CHOOSE f : f = Def(f)
<1>1. PICK F : F = [k \in 1 .. 7 |-> [v \in Nat |-> v \div 256]] OBVIOUS
<1>2. PICK h \in [0 .. 7 -> Nat] : h[0] = x /\ \A k \in 1 .. 7 : h[k] = F[k][h[k - 1]]
  <2>1. F \in [1 .. 7 -> [Nat -> Nat]] BY <1>1
  <2>2. Iterates(7, Nat) BY Iterated
  <2> QED BY <2>1, <2>2 DEF Iterates
<1>3. PICK g : g = [k \in 1 .. 8 |-> h[k - 1]] OBVIOUS
<1>4. g = Def(g)
  <2>1. ASSUME NEW k \in 1 .. 8, k # 1 PROVE g[k] = g[k - 1] \div 256
    <3>1. PICK l \in 1 .. 7 : l = k - 1 /\ l - 1 \in 0 .. 7 /\ l \in 1 .. 8
      BY <2>1
    <3>2. g[k] = h[l] /\ g[l] = h[l - 1] /\ h[l - 1] \in Nat
      BY <1>3, <3>1
    <3>3. h[l] = h[l - 1] \div 256
      BY <1>1, <1>2, <3>2
    <3> QED BY <3>1, <3>2, <3>3, Zenon
  <2>2. g[1] = x BY <1>2, <1>3
  <2>3. \A k \in 1 .. 8 : g[k] = IF k = 1 THEN x ELSE g[k - 1] \div 256
    BY <2>1, <2>2, Zenon
  <2>4. g = [k \in 1 .. 8 |-> g[k]] BY <1>3
  <2>5. [k \in 1 .. 8 |-> g[k]] = Def(g) BY <2>3
  <2> QED BY <2>4, <2>5
<1>5. shifted = Def(shifted)
  <2> HIDE DEF Def
  <2> QED BY <1>4, Zenon
<1>6. LittleEndian(x) = [k \in 1 .. 8 |-> shifted[k] % 256]
  BY DEF LittleEndian
<1> HIDE DEF shifted
<1>7. shifted[1] = x /\ \A k \in 2 .. 8 : shifted[k] = shifted[k - 1] \div 256
  BY <1>5
<1> HIDE DEF Def
<1>8. \A k \in 2 .. 8 : shifted[k - 1] \in Nat => shifted[k] \in Nat
  BY <1>7
<1>9. shifted[1] \in Nat /\ shifted[2] \in Nat /\ shifted[3] \in Nat
  BY <1>7, <1>8
<1>10. shifted[4] \in Nat /\ shifted[5] \in Nat /\ shifted[6] \in Nat
  BY <1>8, <1>9
<1>11. shifted[7] \in Nat /\ shifted[8] \in Nat
  BY <1>8, <1>10
<1>12. \A k \in 1 .. 8 : shifted[k] % 256 \in Byte
  <2> SUFFICES ASSUME NEW k \in 1 .. 8 PROVE shifted[k] % 256 \in Byte OBVIOUS
  <2>1. shifted[k] \in Nat BY <1>9, <1>10, <1>11
  <2> QED BY <2>1 DEF Byte
<1> QED BY <1>6, <1>12

(* Blocks. *)

(* Block t of a text, from 0, has m bytes: it is full, or it is the last. *)
HasBlock(len, t, m) ==
    /\ m \in 0 .. CipherBlockSize
    /\ CipherBlockSize * t + m <= len
    /\ m = CipherBlockSize \/ CipherBlockSize * t + m = len

(* The bytes of a part of a text. *)
LEMMA PartIs ==
    ASSUME NEW s \in Seq(Byte), NEW from \in Nat, NEW m \in Nat, from + m <= Len(s)
    PROVE  /\ SubSeq(s, from + 1, from + m) \in Seq(Byte)
           /\ Len(SubSeq(s, from + 1, from + m)) = m
           /\ \A k \in 1 .. m : SubSeq(s, from + 1, from + m)[k] = s[from + k]
<1>1. SubSeq(s, from + 1, from + m) \in Seq(Byte) OBVIOUS
<1>2. Len(SubSeq(s, from + 1, from + m)) = m OBVIOUS
<1>3. ASSUME NEW k \in 1 .. m PROVE SubSeq(s, from + 1, from + m)[k] = s[from + k]
  OBVIOUS
<1> QED BY <1>1, <1>2, <1>3

(* The bytes of a block of a text. *)
LEMMA BlockOfIs ==
    ASSUME NEW s \in Seq(Byte), NEW t \in Nat, NEW m, HasBlock(Len(s), t, m)
    PROVE  /\ BlockOf(s, t + 1) = SubSeq(s, CipherBlockSize * t + 1, CipherBlockSize * t + m)
           /\ BlockOf(s, t + 1) \in [1 .. m -> Byte]
           /\ \A k \in 1 .. m : BlockOf(s, t + 1)[k] = s[CipherBlockSize * t + k]
<1> DEFINE from == CipherBlockSize * t
           part == SubSeq(s, from + 1, from + m)
<1>1. /\ from \in Nat /\ m \in Nat /\ from + m <= Len(s)
      /\ from = CipherBlockSize * ((t + 1) - 1)
      /\ (IF CipherBlockSize * (t + 1) > Len(s) THEN Len(s) ELSE CipherBlockSize * (t + 1)) = from + m
  BY DEF HasBlock, CipherBlockSize
<1>2. BlockOf(s, t + 1) = part
  <2> HIDE DEF from
  <2> QED BY <1>1, Zenon DEF BlockOf
<1> HIDE DEF from
<1>3. part \in Seq(Byte) /\ Len(part) = m /\ \A k \in 1 .. m : part[k] = s[from + k]
  <2>1. from \in Nat /\ m \in Nat /\ from + m <= Len(s)
    BY <1>1
  <2> QED BY <2>1, PartIs
<1> HIDE DEF part
<1>4. part \in [1 .. m -> Byte] BY <1>3, <1>1
<1> QED BY <1>2, <1>3, <1>4 DEF from, part

(* What bytes_slice() takes of a text at a turn is the block. *)
LEMMA SliceIsBlock ==
    ASSUME NEW s \in Seq(Byte), NEW t \in Nat, NEW m, HasBlock(Len(s), t, m), Len(s) < SizeWrap
    PROVE  /\ Slice(s, CipherBlockSize * t, m) = BlockOf(s, t + 1)
           /\ Slice(s, CipherBlockSize * t, m) \in [1 .. m -> Byte]
<1>1. /\ CipherBlockSize * t \in Nat /\ m \in Nat
      /\ CipherBlockSize * t + m <= Len(s) /\ CipherBlockSize * t + m < SizeWrap
  BY BytesAssumption DEF HasBlock, CipherBlockSize
<1>2. PICK from \in Nat : from = CipherBlockSize * t BY <1>1
<1>3. from + m < SizeWrap /\ ~(from + m > Len(s))
  BY <1>1, <1>2
<1>4. Slice(s, from, m) = SubSeq(s, from + 1, from + m)
  BY <1>1, <1>3, SliceIsExact
<1>5. BlockOf(s, t + 1) = SubSeq(s, from + 1, from + m) /\ BlockOf(s, t + 1) \in [1 .. m -> Byte]
  BY <1>2, BlockOfIs
<1> QED BY <1>2, <1>4, <1>5, Zenon

(* What bytes_put() writes at a turn is the block, and the blocks before
   are those that they were. *)
LEMMA PutIsBlock ==
    ASSUME NEW s \in Seq(Byte), NEW t \in Nat, NEW m, HasBlock(Len(s), t, m), Len(s) < SizeWrap,
           NEW block \in [1 .. m -> Byte]
    PROVE  LET put == Put(s, CipherBlockSize * t, block)
           IN  /\ put \in Seq(Byte) /\ Len(put) = Len(s)
               /\ BlockOf(put, t + 1) = block
               /\ \A j \in 1 .. t : BlockOf(put, j) = BlockOf(s, j)
<1>0. PICK put : put = Put(s, CipherBlockSize * t, block) OBVIOUS
<1>1. m \in Nat /\ CipherBlockSize * t \in Nat /\ CipherBlockSize * t + m <= Len(s)
      /\ CipherBlockSize * t + m < SizeWrap /\ 0 + m < SizeWrap /\ 0 \in Nat
  BY BytesAssumption DEF HasBlock, CipherBlockSize
<1>2. block \in Seq(Byte) /\ Len(block) = m /\ block # NULL
  BY <1>1, TextOfLength
<1>3. PICK from \in Nat : from = CipherBlockSize * t BY <1>1
<1>4. put = Sput(s, from, block, 0, m)
  BY <1>0, <1>2, <1>3 DEF Put
<1>5. ~(0 + m > Len(block) \/ from + m > Len(s))
  BY <1>1, <1>2, <1>3
<1>6. /\ put \in Seq(Byte) /\ Len(put) = Len(s)
      /\ \A k \in 1 .. m : put[from + k] = block[k]
      /\ \A k \in 1 .. from : put[k] = s[k]
  <2>1. put = [k \in 1 .. Len(s) |-> IF k - from \in 1 .. m THEN At(block, 0 + k - from) ELSE s[k]]
    <3>1. ~Exceeds(0, m, block) /\ ~Exceeds(from, m, s)
      BY <1>1, <1>2, <1>3, <1>5, ExceedsIsExact
    <3>2. s # NULL /\ DOMAIN s = 1 .. Len(s)
      BY BytesAssumption
    <3> QED BY <1>2, <1>4, <3>1, <3>2, Zenon DEF Sput
  <2>2. \A k \in 1 .. m : At(block, k) = block[k] /\ block[k] \in Byte
    BY DEF At
  <2>3. ASSUME NEW k \in 1 .. Len(s), k - from \in 1 .. m
        PROVE  0 + k - from = k - from
    OBVIOUS
  <2>4. put \in [1 .. Len(s) -> Byte]
    BY <2>1, <2>2, <2>3
  <2>5. put \in Seq(Byte) /\ Len(put) = Len(s)
    BY <2>4
  <2>6. ASSUME NEW k \in 1 .. m PROVE put[from + k] = block[k]
    <3>1. from + k \in 1 .. Len(s) /\ (from + k) - from = k /\ 0 + (from + k) - from = k
      BY <1>1, <1>3
    <3> QED BY <2>1, <2>2, <3>1
  <2>7. ASSUME NEW k \in 1 .. from PROVE put[k] = s[k]
    <3>1. k \in 1 .. Len(s) /\ k - from \notin 1 .. m
      BY <1>1, <1>3
    <3> QED BY <2>1, <3>1
  <2> QED BY <2>5, <2>6, <2>7
<1>7. BlockOf(put, t + 1) = block
  <2>1. HasBlock(Len(put), t, m) BY <1>6, Zenon
  <2>2. PICK b : b = BlockOf(put, t + 1) OBVIOUS
  <2>3. b \in [1 .. m -> Byte] /\ \A k \in 1 .. m : b[k] = put[from + k]
    BY <1>3, <1>6, <2>1, <2>2, BlockOfIs
  <2>4. \A k \in 1 .. m : b[k] = block[k]
    BY <1>6, <2>3
  <2>5. b \in [1 .. m -> Byte] BY <2>3
  <2>6. b = block BY <2>4, <2>5, SameBytes
  <2> QED BY <2>2, <2>6
<1>8. ASSUME NEW j \in 1 .. t PROVE BlockOf(put, j) = BlockOf(s, j)
  <2>1. PICK i \in Nat : j = i + 1 /\ i < t
    <3>1. j - 1 \in Nat /\ j = (j - 1) + 1 /\ j - 1 < t OBVIOUS
    <3> QED BY <3>1
  <2>2. HasBlock(Len(s), i, CipherBlockSize)
    BY <1>1, <2>1 DEF HasBlock, CipherBlockSize
  <2>3. HasBlock(Len(put), i, CipherBlockSize)
    BY <1>6, <2>2, Zenon
  <2>4. /\ BlockOf(s, j) \in [1 .. CipherBlockSize -> Byte]
        /\ \A k \in 1 .. CipherBlockSize : BlockOf(s, j)[k] = s[CipherBlockSize * i + k]
    BY <2>1, <2>2, BlockOfIs
  <2>5. /\ BlockOf(put, j) \in [1 .. CipherBlockSize -> Byte]
        /\ \A k \in 1 .. CipherBlockSize : BlockOf(put, j)[k] = put[CipherBlockSize * i + k]
    BY <1>6, <2>1, <2>3, BlockOfIs
  <2>6. \A k \in 1 .. CipherBlockSize : CipherBlockSize * i + k \in 1 .. from
    BY <1>3, <2>1 DEF CipherBlockSize
  <2>7. \A k \in 1 .. CipherBlockSize : BlockOf(put, j)[k] = BlockOf(s, j)[k]
    BY <1>6, <2>4, <2>5, <2>6
  <2>8. PICK b : b = BlockOf(put, j) OBVIOUS
  <2>9. PICK c : c = BlockOf(s, j) OBVIOUS
  <2>10. b \in [1 .. CipherBlockSize -> Byte] /\ c \in [1 .. CipherBlockSize -> Byte]
    BY <2>4, <2>5, <2>8, <2>9, Zenon
  <2>11. \A k \in 1 .. CipherBlockSize : b[k] = c[k]
    BY <2>7, <2>8, <2>9, Zenon
  <2>12. PICK n : n = CipherBlockSize OBVIOUS
  <2>13. b \in [1 .. n -> Byte] /\ c \in [1 .. n -> Byte] /\ \A k \in 1 .. n : b[k] = c[k]
    BY <2>10, <2>11, <2>12, Zenon
  <2>14. b = [k \in 1 .. n |-> b[k]] /\ c = [k \in 1 .. n |-> c[k]]
    BY <2>13
  <2>15. b = c BY <2>13, <2>14, Zenon
  <2> QED BY <2>8, <2>9, <2>15, Zenon
<1> QED BY <1>0, <1>6, <1>7, <1>8

(* The bytes of two texts, one after the other. *)
LEMMA Concatenated ==
    ASSUME NEW u \in Seq(Byte), NEW v \in Seq(Byte)
    PROVE  /\ u \o v \in Seq(Byte) /\ Len(u \o v) = Len(u) + Len(v)
           /\ \A k \in 1 .. Len(u) + Len(v) :
                (u \o v)[k] = IF k <= Len(u) THEN u[k] ELSE v[k - Len(u)]
  OBVIOUS

(* Two parts of a text that follow one another are one part. *)
LEMMA SubSeqJoin ==
    ASSUME NEW s \in Seq(Byte), NEW a \in Nat, NEW b \in Nat, a <= b, b <= Len(s)
    PROVE  SubSeq(s, 1, a) \o SubSeq(s, a + 1, b) = SubSeq(s, 1, b)
<1>1. PICK u : u = SubSeq(s, 1, a) OBVIOUS
<1>2. PICK v : v = SubSeq(s, a + 1, b) OBVIOUS
<1>3. PICK w : w = SubSeq(s, 1, b) OBVIOUS
<1>4. u \in Seq(Byte) /\ Len(u) = a /\ \A k \in 1 .. a : u[k] = s[k]
  BY <1>1
<1>5. v \in Seq(Byte) /\ Len(v) = b - a /\ \A k \in 1 .. b - a : v[k] = s[a + k]
  BY <1>2
<1>6. w \in Seq(Byte) /\ Len(w) = b /\ \A k \in 1 .. b : w[k] = s[k]
  BY <1>3
<1>7. PICK x : x = u \o v OBVIOUS
<1>8. /\ x \in Seq(Byte) /\ Len(x) = b
      /\ \A k \in 1 .. b : x[k] = IF k <= a THEN u[k] ELSE v[k - a]
  <2>1. u \in Seq(Byte) /\ v \in Seq(Byte)
    BY <1>4, <1>5
  <2>2. /\ x \in Seq(Byte) /\ Len(x) = Len(u) + Len(v)
        /\ \A k \in 1 .. Len(u) + Len(v) : x[k] = IF k <= Len(u) THEN u[k] ELSE v[k - Len(u)]
    BY <1>7, <2>1, Concatenated
  <2>3. Len(u) + Len(v) = b BY <1>4, <1>5
  <2> QED BY <1>4, <2>2, <2>3, Zenon
<1>9. x \in [1 .. b -> Byte] /\ w \in [1 .. b -> Byte]
  BY <1>6, <1>8, TextOfLength
<1>10. \A k \in 1 .. b : x[k] = w[k]
  <2> SUFFICES ASSUME NEW k \in 1 .. b PROVE x[k] = w[k] OBVIOUS
  <2>1. CASE k <= a BY <1>4, <1>6, <1>8, <2>1
  <2>2. CASE ~(k <= a)
    <3>1. k - a \in 1 .. b - a /\ a + (k - a) = k
      BY <2>2
    <3>2. v[k - a] = s[a + (k - a)] BY <1>5, <3>1
    <3> QED BY <1>6, <1>8, <2>2, <3>1, <3>2
  <2> QED BY <2>1, <2>2
<1>11. x = w BY <1>9, <1>10, SameBytes
<1> QED BY <1>1, <1>2, <1>3, <1>7, <1>11, Zenon

(* bytes_joined(), part by part. *)
LEMMA JoinedIs ==
    ASSUME NEW n \in Nat, NEW parts \in [1 .. n -> Seq(Byte)]
    PROVE  \E joined \in [0 .. n -> Seq(Byte)] :
                /\ joined[0] = <<>>
                /\ \A k \in 1 .. n : joined[k] = joined[k - 1] \o parts[k]
                /\ Joined(parts) = joined[n]
<1>1. Len(parts) = n /\ DOMAIN parts = 1 .. n OBVIOUS
<1>2. ~\E k \in DOMAIN parts : parts[k] = NULL
  BY <1>1, BytesAssumption
<1> DEFINE Def(f) == [k \in 0 .. Len(parts) |-> IF k = 0 THEN <<>> ELSE f[k - 1] \o parts[k]]
           joined == CHOOSE f : f = Def(f)
<1>3. Joined(parts) = joined[n]
  BY <1>1, <1>2 DEF Joined
<1>4. PICK F : F = [k \in 1 .. n |-> [s \in Seq(Byte) |-> s \o parts[k]]]
  OBVIOUS
<1>5. F \in [1 .. n -> [Seq(Byte) -> Seq(Byte)]]
  <2>1. \A k \in 1 .. n, s \in Seq(Byte) : s \o parts[k] \in Seq(Byte)
    BY Concatenated
  <2> QED BY <1>4, <2>1
<1>6. PICK g \in [0 .. n -> Seq(Byte)] : g[0] = <<>> /\ \A k \in 1 .. n : g[k] = F[k][g[k - 1]]
  <2>1. Iterates(n, Seq(Byte)) BY Iterated, Zenon
  <2>2. <<>> \in Seq(Byte) OBVIOUS
  <2> QED BY <1>5, <2>1, <2>2, Zenon DEF Iterates
<1>7. ASSUME NEW k \in 1 .. n PROVE g[k] = g[k - 1] \o parts[k]
  <2>1. k - 1 \in 0 .. n OBVIOUS
  <2>2. g[k - 1] \in Seq(Byte) BY <2>1, Zenon
  <2>3. F[k][g[k - 1]] = g[k - 1] \o parts[k]
    BY <1>4, <2>2
  <2> QED BY <1>6, <2>3, Zenon
<1>8. \A k \in 0 .. n : k # 0 => k \in 1 .. n OBVIOUS
<1>9. g = Def(g)
  <2>1. g = [k \in 0 .. n |-> g[k]] OBVIOUS
  <2>2. \A k \in 0 .. n : g[k] = IF k = 0 THEN <<>> ELSE g[k - 1] \o parts[k]
    BY <1>6, <1>7, <1>8, Zenon
  <2> QED BY <1>1, <2>1, <2>2, Zenon
<1>10. joined = Def(joined)
  <2> HIDE DEF Def
  <2> QED BY <1>9, Zenon
<1> HIDE DEF joined
<1>11. joined[0] = <<>> /\ \A k \in 1 .. n : joined[k] = joined[k - 1] \o parts[k]
  <2>1. \A k \in 0 .. n : joined[k] = IF k = 0 THEN <<>> ELSE joined[k - 1] \o parts[k]
    BY <1>1, <1>10, Zenon
  <2>2. 0 \in 0 .. n /\ \A k \in 1 .. n : k \in 0 .. n /\ k # 0 OBVIOUS
  <2> QED BY <2>1, <2>2, Zenon
<1> HIDE DEF Def
<1>12. \A k \in 0 .. n : joined[k] = g[k]
  <2> DEFINE W == {k \in 0 .. n : joined[k] = g[k]}
  <2>1. 0 \in W BY <1>6, <1>11
  <2>2. ASSUME NEW k \in 0 .. n - 1, k \in W PROVE k + 1 \in W
    <3>1. k + 1 \in 1 .. n /\ k + 1 \in 0 .. n /\ (k + 1) - 1 = k OBVIOUS
    <3>2. joined[k] = g[k] BY <2>2
    <3>3. joined[k + 1] = g[k + 1]
      BY <1>7, <1>11, <3>1, <3>2, Zenon
    <3> QED BY <3>1, <3>3
  <2>3. \A k \in 0 .. n - 1 : k \in W => k + 1 \in W
    BY <2>2
  <2> HIDE DEF W
  <2>4. \A k \in 0 .. n : k \in W
    BY <2>1, <2>3, CountingUp
  <2> QED BY <2>4 DEF W
<1>13. g[n] = joined[n] BY <1>12
<1> QED BY <1>3, <1>6, <1>7, <1>13, Zenon

(* How many blocks there are in a text, the last one that is short too. *)
Covers(n, len) ==
    /\ len <= CipherBlockSize * n
    /\ n = 0 \/ CipherBlockSize * (n - 1) < len

(* A text is its blocks joined. *)
LEMMA JoinedBlocks ==
    ASSUME NEW s \in Seq(Byte), NEW n \in Nat, Covers(n, Len(s))
    PROVE  Joined([j \in 1 .. n |-> BlockOf(s, j)]) = s
<1>1. PICK parts : parts = [j \in 1 .. n |-> BlockOf(s, j)] OBVIOUS
<1> DEFINE end(k) == IF CipherBlockSize * k > Len(s) THEN Len(s) ELSE CipherBlockSize * k
<1>2. ASSUME NEW j \in 1 .. n
      PROVE  /\ BlockOf(s, j) = SubSeq(s, end(j - 1) + 1, end(j))
             /\ end(j - 1) \in Nat /\ end(j) \in Nat /\ end(j - 1) <= end(j) /\ end(j) <= Len(s)
             /\ BlockOf(s, j) \in Seq(Byte)
  <2>1. /\ end(j - 1) = CipherBlockSize * (j - 1)
        /\ end(j - 1) \in Nat /\ end(j) \in Nat /\ end(j - 1) <= end(j) /\ end(j) <= Len(s)
    BY DEF Covers, CipherBlockSize
  <2>2. BlockOf(s, j) = SubSeq(s, end(j - 1) + 1, end(j))
    BY <2>1, Zenon DEF BlockOf
  <2> HIDE DEF end
  <2>3. BlockOf(s, j) \in Seq(Byte) BY <2>1, <2>2
  <2> QED BY <2>1, <2>2, <2>3
<1>3. end(0) = 0 /\ end(n) = Len(s)
  BY DEF Covers, CipherBlockSize
<1> HIDE DEF end
<1>4. parts \in [1 .. n -> Seq(Byte)] BY <1>1, <1>2
<1>5. Len(parts) = n /\ DOMAIN parts = 1 .. n
  BY <1>4
<1>6. PICK joined \in [0 .. n -> Seq(Byte)] :
        /\ joined[0] = <<>>
        /\ \A k \in 1 .. n : joined[k] = joined[k - 1] \o parts[k]
        /\ Joined(parts) = joined[n]
  BY <1>4, JoinedIs
<1> DEFINE g == [k \in 0 .. n |-> SubSeq(s, 1, end(k))]
<1>7. g[0] = <<>> /\ \A k \in 1 .. n : g[k] = g[k - 1] \o parts[k]
  <2>1. g[0] = <<>>
    <3>1. g[0] = SubSeq(s, 1, 0) BY <1>3
    <3>2. SubSeq(s, 1, 0) \in Seq(Byte) /\ Len(SubSeq(s, 1, 0)) = 0 OBVIOUS
    <3>3. \A w \in Seq(Byte) : Len(w) = 0 => w = <<>> OBVIOUS
    <3> QED BY <3>1, <3>2, <3>3, Zenon
  <2>2. ASSUME NEW k \in 1 .. n PROVE g[k] = g[k - 1] \o parts[k]
    <3>1. g[k] = SubSeq(s, 1, end(k)) /\ g[k - 1] = SubSeq(s, 1, end(k - 1))
      <4>1. k \in 0 .. n /\ k - 1 \in 0 .. n OBVIOUS
      <4> QED BY <4>1, Zenon
    <3>2. parts[k] = SubSeq(s, end(k - 1) + 1, end(k))
      BY <1>1, <1>2
    <3>3. PICK a \in Nat : a = end(k - 1) BY <1>2
    <3>4. PICK b \in Nat : b = end(k) BY <1>2
    <3>5. SubSeq(s, 1, a) \o SubSeq(s, a + 1, b) = SubSeq(s, 1, b)
      BY <1>2, <3>3, <3>4, SubSeqJoin
    <3> HIDE DEF g
    <3> QED BY <3>1, <3>2, <3>3, <3>4, <3>5, Zenon
  <2> QED BY <2>1, <2>2
<1>8. g[n] = s
  <2>1. g[n] = SubSeq(s, 1, Len(s)) BY <1>3
  <2>2. SubSeq(s, 1, Len(s)) = s OBVIOUS
  <2> QED BY <2>1, <2>2, Zenon
<1> HIDE DEF g
<1>9. \A k \in 0 .. n : joined[k] = g[k]
  <2> DEFINE W == {k \in 0 .. n : joined[k] = g[k]}
  <2>1. 0 \in W BY <1>6, <1>7
  <2>2. ASSUME NEW k \in 0 .. n - 1, k \in W PROVE k + 1 \in W
    <3>1. k + 1 \in 1 .. n /\ k + 1 \in 0 .. n /\ (k + 1) - 1 = k OBVIOUS
    <3>2. joined[k] = g[k] BY <2>2
    <3>3. joined[k + 1] = g[k + 1]
      BY <1>6, <1>7, <3>1, <3>2, Zenon
    <3> QED BY <3>1, <3>3
  <2>3. \A k \in 0 .. n - 1 : k \in W => k + 1 \in W
    BY <2>2
  <2> HIDE DEF W
  <2>4. \A k \in 0 .. n : k \in W
    BY <2>1, <2>3, CountingUp
  <2> QED BY <2>4 DEF W
<1>10. joined[n] = g[n] BY <1>9
<1> QED BY <1>1, <1>6, <1>8, <1>10, Zenon

(* Texts of the same length with the same blocks are the same. *)
LEMMA SameBlocks ==
    ASSUME NEW s \in Seq(Byte), NEW t \in Seq(Byte), Len(s) = Len(t),
           NEW n \in Nat, Covers(n, Len(s)),
           \A j \in 1 .. n : BlockOf(s, j) = BlockOf(t, j)
    PROVE  s = t
<1>1. Joined([j \in 1 .. n |-> BlockOf(s, j)]) = s
  BY JoinedBlocks
<1>2. Covers(n, Len(t)) BY Zenon
<1>3. Joined([j \in 1 .. n |-> BlockOf(t, j)]) = t
  BY <1>2, JoinedBlocks
<1>4. [j \in 1 .. n |-> BlockOf(s, j)] = [j \in 1 .. n |-> BlockOf(t, j)]
  BY Zenon
<1> QED BY <1>1, <1>3, <1>4, Zenon

(* Paddings. *)

(* bytes_repeated() is made of bytes. *)
LEMMA RepeatedIs ==
    ASSUME NEW n \in Byte
    PROVE  /\ Repeated(n, n) \in Seq(Byte) /\ Len(Repeated(n, n)) = n
           /\ \A k \in 1 .. n : Repeated(n, n)[k] = n
<1>1. n \in Nat BY DEF Byte
<1>2. Repeated(n, n) \in [1 .. n -> Byte]
  BY DEF Repeated
<1>3. \A k \in 1 .. n : Repeated(n, n)[k] = n
  BY DEF Repeated
<1> QED BY <1>1, <1>2, <1>3, TextOfLength

(* What bytes_pkcs7_padded() makes is a padding. *)
LEMMA PaddedIsPadding ==
    ASSUME NEW src \in Seq(Byte)
    PROVE  IsPaddingOf(Pkcs7Padded(src, CipherBlockSize), src)
<1>1. PICK n : n = PaddingLen(Len(src), CipherBlockSize) OBVIOUS
<1>2. n \in 1 .. 255
  <2>1. CipherBlockSize \in 1 .. 255 /\ Len(src) \in Nat
    BY DEF CipherBlockSize
  <2>2. n \in 1 .. CipherBlockSize
    BY <1>1, <2>1, PaddingFills
  <2> QED BY <2>2 DEF CipherBlockSize
<1>3. src # NULL /\ CipherBlockSize # 0
  BY BytesAssumption DEF CipherBlockSize
<1>4. Pkcs7Padded(src, CipherBlockSize) = src \o Repeated(n, n)
  BY <1>1, <1>3, Zenon DEF Pkcs7Padded, Repeated
<1> QED BY <1>2, <1>4, Zenon DEF IsPaddingOf

(* bytes_pkcs7_unpadded() takes a padding away, whatever it was put after,
   bytes that look like one too. *)
LEMMA UnpaddedIs ==
    ASSUME NEW s \in Seq(Byte), NEW padded, IsPaddingOf(padded, s), Len(padded) < SizeWrap
    PROVE  /\ padded \in Seq(Byte) /\ Pkcs7Unpadded(padded) = s
           /\ Len(s) \in 0 .. Len(padded) - 1 /\ SubSeq(padded, 1, Len(s)) = s
<1>1. PICK n \in 1 .. 255 : padded = s \o Repeated(n, n) BY DEF IsPaddingOf
<1>2. n \in Byte BY DEF Byte
<1>3. PICK pad : pad = Repeated(n, n) OBVIOUS
<1>4. pad \in Seq(Byte) /\ Len(pad) = n /\ \A k \in 1 .. n : pad[k] = n
  BY <1>2, <1>3, RepeatedIs
<1>5. PICK l \in Nat : l = Len(s) OBVIOUS
<1>6. /\ padded \in Seq(Byte) /\ Len(padded) = l + n
      /\ \A k \in 1 .. l + n : padded[k] = IF k <= l THEN s[k] ELSE pad[k - l]
  <2>1. pad \in Seq(Byte) /\ Len(pad) = n BY <1>4
  <2> QED BY <1>1, <1>3, <1>5, <2>1, Concatenated
<1>7. /\ \A k \in 1 .. l : padded[k] = s[k]
      /\ \A i \in 1 .. n : padded[(l + n) - (i - 1)] = n
  <2>1. ASSUME NEW k \in 1 .. l PROVE padded[k] = s[k]
    BY <1>6
  <2>2. ASSUME NEW i \in 1 .. n PROVE padded[(l + n) - (i - 1)] = n
    <3>1. PICK k \in 1 .. l + n : k = (l + n) - (i - 1) OBVIOUS
    <3>2. k \in 1 .. l + n /\ ~(k <= l) /\ k - l \in 1 .. n
      BY <3>1
    <3>3. padded[k] = pad[k - l]
      BY <1>6, <3>2, Zenon
    <3> QED BY <1>4, <3>1, <3>2, <3>3
  <2> QED BY <2>1, <2>2
<1>8. Pkcs7Padding(padded) = [ret |-> 0, padding |-> n]
  <2>1. padded # NULL /\ ~(Len(padded) < 1) /\ ~(n = 0 \/ Len(padded) < n)
    BY <1>6, BytesAssumption
  <2>2. padded[Len(padded)] = n
    <3>1. 1 \in 1 .. n /\ (l + n) - (1 - 1) = Len(padded)
      BY <1>6
    <3> QED BY <1>7, <3>1
  <2>3. ~\E i \in 1 .. n : padded[Len(padded) - (i - 1)] # n
    BY <1>6, <1>7, Zenon
  <2> QED BY <2>1, <2>2, <2>3 DEF Pkcs7Padding
<1>9. Pkcs7Unpadded(padded) = SubSeq(padded, 1, l)
  <2>1. Len(padded) - n = l /\ 0 + l < SizeWrap /\ ~(0 + l > Len(padded)) /\ 0 + 1 = 1
        /\ 0 \in Nat /\ 0 + l = l
    BY <1>6, BytesAssumption
  <2>2. Pkcs7Unpadded(padded) = Slice(padded, 0, l)
    BY <1>8, <2>1 DEF Pkcs7Unpadded
  <2>3. Slice(padded, 0, l) = SubSeq(padded, 0 + 1, 0 + l)
    BY <1>6, <2>1, SliceIsExact
  <2> QED BY <2>1, <2>2, <2>3, Zenon
<1>10. SubSeq(padded, 1, l) = s
  <2>1. PICK first : first = SubSeq(padded, 1, l) OBVIOUS
  <2>2. first \in Seq(Byte) /\ Len(first) = l /\ \A k \in 1 .. l : first[k] = padded[k]
    BY <1>6, <2>1
  <2>3. first \in [1 .. l -> Byte] /\ s \in [1 .. l -> Byte]
    BY <1>5, <2>2, TextOfLength
  <2>4. \A k \in 1 .. l : first[k] = s[k]
    BY <1>7, <2>2
  <2>5. first = s BY <2>3, <2>4, SameBytes
  <2> QED BY <2>1, <2>5
<1>11. Len(s) \in 0 .. Len(padded) - 1 BY <1>5, <1>6
<1> QED BY <1>5, <1>6, <1>9, <1>10, <1>11

(* What bytes_pkcs7_unpadded() took away was a padding. *)
LEMMA UnpaddedWas ==
    ASSUME NEW padded \in Seq(Byte), Len(padded) < SizeWrap, Pkcs7Unpadded(padded) # NULL
    PROVE  /\ Pkcs7Unpadded(padded) \in Seq(Byte)
           /\ IsPaddingOf(padded, Pkcs7Unpadded(padded))
<1>1. PICK n : n = padded[Len(padded)] OBVIOUS
<1>2. /\ Pkcs7Padding(padded) = [ret |-> 0, padding |-> n]
      /\ ~(Len(padded) < 1) /\ ~(n = 0 \/ Len(padded) < n)
      /\ \A i \in 1 .. n : padded[Len(padded) - (i - 1)] = n
  <2>1. Pkcs7Padding(padded).ret = 0
    BY DEF Pkcs7Unpadded
  <2>2. padded # NULL BY BytesAssumption
  <2> QED BY <1>1, <2>1, <2>2 DEF Pkcs7Padding
<1>3. n \in 1 .. 255 /\ n \in Byte
  <2>1. Len(padded) \in 1 .. Len(padded) BY <1>2
  <2>2. n \in Byte BY <1>1, <2>1
  <2> QED BY <1>2, <2>2 DEF Byte
<1>4. PICK l \in Nat : l = Len(padded) - n
  <2>1. Len(padded) - n \in Nat BY <1>2, <1>3
  <2> QED BY <2>1
<1>5. Len(padded) = l + n BY <1>3, <1>4
<1>6. PICK s : s = SubSeq(padded, 1, l) OBVIOUS
<1>7. s \in Seq(Byte) /\ Len(s) = l /\ \A k \in 1 .. l : s[k] = padded[k]
  BY <1>3, <1>5, <1>6
<1>8. Pkcs7Unpadded(padded) = s
  <2>1. 0 + l < SizeWrap /\ ~(0 + l > Len(padded)) /\ 0 + 1 = 1 /\ 0 \in Nat /\ 0 + l = l
    BY <1>3, <1>5, BytesAssumption
  <2>2. Pkcs7Unpadded(padded) = Slice(padded, 0, l)
    BY <1>2, <1>4 DEF Pkcs7Unpadded
  <2>3. Slice(padded, 0, l) = SubSeq(padded, 0 + 1, 0 + l)
    BY <2>1, SliceIsExact
  <2> QED BY <1>6, <2>1, <2>2, <2>3, Zenon
<1>9. PICK pad : pad = Repeated(n, n) OBVIOUS
<1>10. pad \in Seq(Byte) /\ Len(pad) = n /\ \A k \in 1 .. n : pad[k] = n
  BY <1>3, <1>9, RepeatedIs
<1>11. PICK whole : whole = s \o pad OBVIOUS
<1>12. /\ whole \in Seq(Byte) /\ Len(whole) = l + n
       /\ \A k \in 1 .. l + n : whole[k] = IF k <= l THEN s[k] ELSE pad[k - l]
  <2>1. pad \in Seq(Byte) /\ Len(pad) = n /\ s \in Seq(Byte) /\ Len(s) = l
    BY <1>7, <1>10
  <2> QED BY <1>11, <2>1, Concatenated
<1>13. \A k \in 1 .. l + n : whole[k] = padded[k]
  <2> SUFFICES ASSUME NEW k \in 1 .. l + n PROVE whole[k] = padded[k] OBVIOUS
  <2>1. CASE k <= l BY <1>7, <1>12, <2>1
  <2>2. CASE ~(k <= l)
    <3>1. PICK i \in 1 .. n : k = Len(padded) - (i - 1)
      <4>1. (l + n) - k + 1 \in 1 .. n /\ k = Len(padded) - (((l + n) - k + 1) - 1)
        BY <1>3, <1>5, <2>2
      <4> QED BY <4>1
    <3>2. padded[k] = n BY <1>2, <3>1
    <3>3. k - l \in 1 .. n BY <1>3, <2>2
    <3> QED BY <1>10, <1>12, <2>2, <3>2, <3>3
  <2> QED BY <2>1, <2>2
<1>14. whole \in [1 .. l + n -> Byte] /\ padded \in [1 .. l + n -> Byte]
  <2>1. l + n \in Nat BY <1>3
  <2> QED BY <1>5, <1>12, <2>1, TextOfLength
<1>15. whole = padded BY <1>13, <1>14, SameBytes
<1> QED BY <1>3, <1>7, <1>8, <1>9, <1>11, <1>15, Zenon DEF IsPaddingOf

(* AES-128: sums and products of bytes, columns, and their mixing. *)

(* The sums of bytes. *)
LEMMA PlusIs ==
    /\ \A x, y \in Byte : Plus(x, y) \in Byte /\ Plus(Plus(x, y), y) = x
    /\ \A x, y \in Byte : Plus(x, y) = Plus(y, x)
    /\ \A x \in Byte : Plus(x, 0) = x /\ Plus(0, x) = x
<1>1. 0 \in Byte BY DEF Byte
<1>2. \A x, y \in Byte : Plus(x, y) \in Byte
  BY XorOfBytes, Zenon DEF Plus
<1>3. \A x, y \in Byte : Plus(Plus(x, y), y) = x
  BY XorOfBytes, Zenon DEF Plus
<1>4. \A x, y \in Byte : Plus(x, y) = Plus(y, x)
  BY XorOfBytes, Zenon DEF Plus
<1>5. \A x \in Byte : Plus(x, 0) = x
  BY XorOfBytes, Zenon DEF Plus
<1>6. \A x \in Byte : Plus(0, x) = x
  BY <1>1, <1>4, <1>5, Zenon
<1> QED BY <1>2, <1>3, <1>4, <1>5, <1>6, Zenon

(* The sum of three bytes, in either order. *)
LEMMA PlusAssociates ==
    ASSUME NEW x \in Byte, NEW y \in Byte, NEW z \in Byte
    PROVE  Plus(Plus(x, y), z) = Plus(x, Plus(y, z))
BY XorAssociates DEF Plus

(* Four bytes are summed two by two, whichever the pairs. *)
LEMMA Medial ==
    ASSUME NEW a \in Byte, NEW b \in Byte, NEW c \in Byte, NEW d \in Byte
    PROVE  Plus(Plus(a, b), Plus(c, d)) = Plus(Plus(a, c), Plus(b, d))
<1>1. PICK cd \in Byte, bd \in Byte : cd = Plus(c, d) /\ bd = Plus(b, d)
  BY PlusIs
<1>2. Plus(Plus(a, b), cd) = Plus(a, Plus(b, cd))
  BY PlusAssociates
<1>3. Plus(b, cd) = Plus(c, bd)
  <2>1. Plus(b, Plus(c, d)) = Plus(Plus(b, c), d)
    BY PlusAssociates
  <2>2. Plus(Plus(c, b), d) = Plus(c, Plus(b, d))
    BY PlusAssociates
  <2>3. Plus(b, c) = Plus(c, b) BY PlusIs
  <2> QED BY <1>1, <2>1, <2>2, <2>3, Zenon
<1>4. Plus(a, Plus(c, bd)) = Plus(Plus(a, c), bd)
  BY PlusAssociates
<1> QED BY <1>1, <1>2, <1>3, <1>4, Zenon

Four == 1 .. 4

SumOf(f) == Plus(Plus(Plus(f[1], f[2]), f[3]), f[4])

(* Sums of four are added term by term. *)
LEMMA SumOfSums ==
    ASSUME NEW f \in [Four -> Byte], NEW g \in [Four -> Byte]
    PROVE  /\ SumOf(f) \in Byte
           /\ [i \in Four |-> Plus(f[i], g[i])] \in [Four -> Byte]
           /\ Plus(SumOf(f), SumOf(g)) = SumOf([i \in Four |-> Plus(f[i], g[i])])
<1>1. /\ f[1] \in Byte /\ f[2] \in Byte /\ f[3] \in Byte /\ f[4] \in Byte
      /\ g[1] \in Byte /\ g[2] \in Byte /\ g[3] \in Byte /\ g[4] \in Byte
      /\ 1 \in Four /\ 2 \in Four /\ 3 \in Four /\ 4 \in Four
  BY DEF Four
<1>2. PICK f2 \in Byte, f3 \in Byte, g2 \in Byte, g3 \in Byte :
        /\ f2 = Plus(f[1], f[2]) /\ f3 = Plus(f2, f[3])
        /\ g2 = Plus(g[1], g[2]) /\ g3 = Plus(g2, g[3])
  BY <1>1, PlusIs
<1>3. Plus(f3, f[4]) \in Byte BY <1>1, PlusIs
<1>4. Plus(Plus(f3, f[4]), Plus(g3, g[4])) = Plus(Plus(f3, g3), Plus(f[4], g[4]))
  BY <1>1, Medial
<1>5. Plus(Plus(f2, f[3]), Plus(g2, g[3])) = Plus(Plus(f2, g2), Plus(f[3], g[3]))
  BY <1>1, Medial
<1>6. Plus(Plus(f[1], f[2]), Plus(g[1], g[2])) = Plus(Plus(f[1], g[1]), Plus(f[2], g[2]))
  BY <1>1, Medial
<1>7. PICK h : h = [i \in Four |-> Plus(f[i], g[i])] OBVIOUS
<1>8. h \in [Four -> Byte] BY <1>7, PlusIs
<1>9. /\ h[1] = Plus(f[1], g[1]) /\ h[2] = Plus(f[2], g[2])
      /\ h[3] = Plus(f[3], g[3]) /\ h[4] = Plus(f[4], g[4])
  BY <1>1, <1>7
<1>10. Plus(SumOf(f), SumOf(g)) = SumOf(h)
  BY <1>2, <1>4, <1>5, <1>6, <1>9, Zenon DEF SumOf
<1>11. SumOf(f) \in Byte
  BY <1>2, <1>3, Zenon DEF SumOf
<1> QED BY <1>7, <1>8, <1>10, <1>11, Zenon

(* The rows and the columns of a square have the same sum. *)
LEMMA Transposed ==
    ASSUME NEW x \in [Four -> [Four -> Byte]]
    PROVE  SumOf([j \in Four |-> SumOf(x[j])]) =
           SumOf([i \in Four |-> SumOf([j \in Four |-> x[j][i]])])
<1>1. /\ x[1] \in [Four -> Byte] /\ x[2] \in [Four -> Byte]
      /\ x[3] \in [Four -> Byte] /\ x[4] \in [Four -> Byte]
      /\ 1 \in Four /\ 2 \in Four /\ 3 \in Four /\ 4 \in Four
  BY DEF Four
<1>2. PICK two \in [Four -> Byte] : /\ two = [i \in Four |-> Plus(x[1][i], x[2][i])]
                                    /\ SumOf(two) = Plus(SumOf(x[1]), SumOf(x[2]))
  BY <1>1, SumOfSums
<1>3. PICK three \in [Four -> Byte] : /\ three = [i \in Four |-> Plus(two[i], x[3][i])]
                                      /\ SumOf(three) = Plus(SumOf(two), SumOf(x[3]))
  BY <1>1, SumOfSums
<1>4. PICK four \in [Four -> Byte] : /\ four = [i \in Four |-> Plus(three[i], x[4][i])]
                                     /\ SumOf(four) = Plus(SumOf(three), SumOf(x[4]))
  BY <1>1, SumOfSums
<1>5. SumOf([j \in Four |-> SumOf(x[j])]) = SumOf(four)
  <2>1. PICK r : r = [j \in Four |-> SumOf(x[j])] OBVIOUS
  <2>2. r[1] = SumOf(x[1]) /\ r[2] = SumOf(x[2]) /\ r[3] = SumOf(x[3]) /\ r[4] = SumOf(x[4])
    BY <1>1, <2>1
  <2>3. SumOf(r) = Plus(Plus(Plus(r[1], r[2]), r[3]), r[4])
    BY DEF SumOf
  <2> QED BY <1>2, <1>3, <1>4, <2>1, <2>2, <2>3, Zenon
<1>6. \A i \in Four : four[i] = SumOf([j \in Four |-> x[j][i]])
  <2> SUFFICES ASSUME NEW i \in Four PROVE four[i] = SumOf([j \in Four |-> x[j][i]])
    OBVIOUS
  <2>1. PICK c : c = [j \in Four |-> x[j][i]] OBVIOUS
  <2>2. c[1] = x[1][i] /\ c[2] = x[2][i] /\ c[3] = x[3][i] /\ c[4] = x[4][i]
    BY <1>1, <2>1
  <2>3. four[i] = Plus(Plus(Plus(x[1][i], x[2][i]), x[3][i]), x[4][i])
    BY <1>2, <1>3, <1>4
  <2> QED BY <2>1, <2>2, <2>3, Zenon DEF SumOf
<1>7. four = [i \in Four |-> four[i]] OBVIOUS
<1>8. four = [i \in Four |-> SumOf([j \in Four |-> x[j][i]])]
  BY <1>6, <1>7, Zenon
<1> QED BY <1>5, <1>8, Zenon

Factors == {1, 2, 3, 9, 11, 13, 14}

(* The products of a byte, and of a sum of bytes. *)
LEMMA TimesIs ==
    ASSUME NEW n \in Factors, NEW x \in Byte
    PROVE  /\ Times[n][x] \in Byte
           /\ \A y \in Byte : Times[n][Plus(x, y)] = Plus(Times[n][x], Times[n][y])
<1>1. DOMAIN Times = Factors
  BY Zenon DEF Times, Factors
<1> QED BY <1>1, AesAssumption, Zenon

(* Products distribute over the sums of four. *)
LEMMA TimesOfSum ==
    ASSUME NEW n \in Factors, NEW f \in [Four -> Byte]
    PROVE  /\ [i \in Four |-> Times[n][f[i]]] \in [Four -> Byte]
           /\ Times[n][SumOf(f)] = SumOf([i \in Four |-> Times[n][f[i]]])
<1>1. PICK g : g = [i \in Four |-> Times[n][f[i]]] OBVIOUS
<1>2. /\ f[1] \in Byte /\ f[2] \in Byte /\ f[3] \in Byte /\ f[4] \in Byte
      /\ 1 \in Four /\ 2 \in Four /\ 3 \in Four /\ 4 \in Four
  BY DEF Four
<1>3. g \in [Four -> Byte] BY <1>1, TimesIs
<1>4. PICK f2 \in Byte, f3 \in Byte : f2 = Plus(f[1], f[2]) /\ f3 = Plus(f2, f[3])
  BY <1>2, PlusIs
<1>5. /\ Times[n][Plus(f3, f[4])] = Plus(Times[n][f3], Times[n][f[4]])
      /\ Times[n][Plus(f2, f[3])] = Plus(Times[n][f2], Times[n][f[3]])
      /\ Times[n][Plus(f[1], f[2])] = Plus(Times[n][f[1]], Times[n][f[2]])
  BY <1>2, TimesIs
<1>6. /\ g[1] = Times[n][f[1]] /\ g[2] = Times[n][f[2]]
      /\ g[3] = Times[n][f[3]] /\ g[4] = Times[n][f[4]]
  BY <1>1, <1>2
<1>7. Times[n][SumOf(f)] = SumOf(g)
  BY <1>4, <1>5, <1>6, Zenon DEF SumOf
<1> QED BY <1>1, <1>3, <1>7, Zenon

(* The entries of the two matrices are factors there are products by. *)
LEMMA FactorIs ==
    ASSUME NEW row \in 0 .. 3, NEW j \in Four
    PROVE  Factor(Mixing, row, j) \in Factors /\ Factor(InvMixing, row, j) \in Factors
<1>1. PICK i \in Four : i = ((j - row + 3) % 4) + 1 BY DEF Four
<1>2. Mixing[i] \in Factors /\ InvMixing[i] \in Factors
  BY DEF Four, Mixing, InvMixing, Factors
<1> QED BY <1>1, <1>2, Zenon DEF Factor

(* An entry of the product of the two matrices. *)
LEMMA MatricesInvert ==
    ASSUME NEW row \in 0 .. 3, NEW i \in 1 .. 4, NEW x \in Byte
    PROVE  LET product(j) == Times[Factor(InvMixing, row, j)][Times[Factor(Mixing, j - 1, i)][x]]
           IN  Plus(Plus(Plus(product(1), product(2)), product(3)), product(4)) =
                    IF i = row + 1 THEN x ELSE 0
<1>1. \A r \in 0 .. 3, k \in 1 .. 4, y \in Byte :
        LET product(j) == Times[Factor(InvMixing, r, j)][Times[Factor(Mixing, j - 1, k)][y]]
        IN  Plus(Plus(Plus(product(1), product(2)), product(3)), product(4)) =
                IF k = r + 1 THEN y ELSE 0
  BY AesAssumption, Zenon
<1> QED BY <1>1, Zenon

(* A column, multiplied. *)
MixedColumn(m, a) ==
    [r \in Four |-> SumOf([i \in Four |-> Times[Factor(m, r - 1, i)][a[i]]])]

(* The two matrices undo one another. *)
LEMMA ColumnIsMixedBack ==
    ASSUME NEW a \in [Four -> Byte]
    PROVE  /\ MixedColumn(Mixing, a) \in [Four -> Byte]
           /\ MixedColumn(InvMixing, a) \in [Four -> Byte]
           /\ MixedColumn(InvMixing, MixedColumn(Mixing, a)) = a
<1>1. ASSUME NEW m \in {Mixing, InvMixing}, NEW r \in Four
      PROVE  /\ [i \in Four |-> Times[Factor(m, r - 1, i)][a[i]]] \in [Four -> Byte]
             /\ SumOf([i \in Four |-> Times[Factor(m, r - 1, i)][a[i]]]) \in Byte
  <2>1. PICK row \in 0 .. 3 : row = r - 1 BY DEF Four
  <2>2. \A i \in Four : Factor(m, row, i) \in Factors
    BY FactorIs
  <2>3. PICK f : f = [i \in Four |-> Times[Factor(m, row, i)][a[i]]] OBVIOUS
  <2>4. f \in [Four -> Byte] BY <2>2, <2>3, TimesIs
  <2>5. SumOf(f) \in Byte BY <2>4, SumOfSums
  <2> QED BY <2>1, <2>3, <2>4, <2>5, Zenon
<1>2. MixedColumn(Mixing, a) \in [Four -> Byte] /\ MixedColumn(InvMixing, a) \in [Four -> Byte]
  BY <1>1 DEF MixedColumn
<1>3. PICK b \in [Four -> Byte] : b = MixedColumn(Mixing, a) BY <1>2
<1>4. ASSUME NEW r \in Four
      PROVE  SumOf([j \in Four |-> Times[Factor(InvMixing, r - 1, j)][b[j]]]) = a[r]
  <2>1. PICK row \in 0 .. 3 : row = r - 1 /\ \A i \in Four : i = row + 1 <=> i = r
    BY DEF Four
  <2>2. PICK inv : inv = [j \in Four |-> Factor(InvMixing, row, j)] OBVIOUS
  <2>3. \A j \in Four : inv[j] \in Factors /\ inv[j] = Factor(InvMixing, row, j)
    BY <2>2, FactorIs
  <2>4. PICK mix : mix = [j \in Four |-> [i \in Four |-> Times[Factor(Mixing, j - 1, i)][a[i]]]]
    OBVIOUS
  <2>5. \A j \in Four : mix[j] \in [Four -> Byte] /\ b[j] = SumOf(mix[j])
    <3>1. \A j \in Four : mix[j] = [i \in Four |-> Times[Factor(Mixing, j - 1, i)][a[i]]]
      BY <2>4
    <3>2. \A j \in Four : mix[j] \in [Four -> Byte]
      BY <1>1, <3>1, Zenon
    <3>3. \A j \in Four : b[j] = SumOf([i \in Four |-> Times[Factor(Mixing, j - 1, i)][a[i]]])
      BY <1>3 DEF MixedColumn
    <3> QED BY <3>1, <3>2, <3>3, Zenon
  <2>6. PICK x : x = [j \in Four |-> [i \in Four |-> Times[inv[j]][mix[j][i]]]]
    OBVIOUS
  <2>7. \A j \in Four : x[j] \in [Four -> Byte] /\ Times[inv[j]][b[j]] = SumOf(x[j])
    <3> SUFFICES ASSUME NEW j \in Four
                 PROVE  x[j] \in [Four -> Byte] /\ Times[inv[j]][b[j]] = SumOf(x[j])
      OBVIOUS
    <3>1. PICK n \in Factors, f \in [Four -> Byte] : n = inv[j] /\ f = mix[j] /\ b[j] = SumOf(f)
      BY <2>3, <2>5
    <3>2. x[j] = [i \in Four |-> Times[n][f[i]]]
      BY <2>6, <3>1
    <3>3. /\ [i \in Four |-> Times[n][f[i]]] \in [Four -> Byte]
          /\ Times[n][SumOf(f)] = SumOf([i \in Four |-> Times[n][f[i]]])
      BY TimesOfSum
    <3> QED BY <3>1, <3>2, <3>3, Zenon
  <2>8. x \in [Four -> [Four -> Byte]] BY <2>6, <2>7
  <2>9. SumOf([j \in Four |-> SumOf(x[j])]) = SumOf([i \in Four |-> SumOf([j \in Four |-> x[j][i]])])
    BY <2>8, Transposed
  <2>10. \A i \in Four : SumOf([j \in Four |-> x[j][i]]) = IF i = r THEN a[i] ELSE 0
    <3> SUFFICES ASSUME NEW i \in Four
                 PROVE  SumOf([j \in Four |-> x[j][i]]) = IF i = r THEN a[i] ELSE 0
      OBVIOUS
    <3>1. PICK c : c = [j \in Four |-> x[j][i]] OBVIOUS
    <3> DEFINE product(j) == Times[Factor(InvMixing, row, j)][Times[Factor(Mixing, j - 1, i)][a[i]]]
    <3>2. \A j \in Four : c[j] = product(j)
      BY <2>3, <2>4, <2>6, <3>1
    <3>3. c[1] = product(1) /\ c[2] = product(2) /\ c[3] = product(3) /\ c[4] = product(4)
      <4> HIDE DEF product
      <4> QED BY <3>2 DEF Four
    <3>4. Plus(Plus(Plus(product(1), product(2)), product(3)), product(4)) =
            IF i = row + 1 THEN a[i] ELSE 0
      <4>1. a[i] \in Byte /\ i \in 1 .. 4
        BY DEF Four
      <4> QED BY <4>1, MatricesInvert
    <3> HIDE DEF product
    <3>5. SumOf(c) = IF i = row + 1 THEN a[i] ELSE 0
      BY <3>3, <3>4, Zenon DEF SumOf
    <3> QED BY <2>1, <3>1, <3>5, Zenon
  <2>11. PICK d : d = [i \in Four |-> IF i = r THEN a[i] ELSE 0] OBVIOUS
  <2>12. [i \in Four |-> SumOf([j \in Four |-> x[j][i]])] = d
    BY <2>10, <2>11, Zenon
  <2>13. SumOf(d) = a[r]
    <3>1. /\ d[1] = (IF r = 1 THEN a[r] ELSE 0) /\ d[2] = (IF r = 2 THEN a[r] ELSE 0)
          /\ d[3] = (IF r = 3 THEN a[r] ELSE 0) /\ d[4] = (IF r = 4 THEN a[r] ELSE 0)
          /\ r \in {1, 2, 3, 4} /\ a[r] \in Byte /\ 0 \in Byte
      BY <2>11 DEF Four, Byte
    <3>2. Plus(0, 0) = 0 /\ Plus(a[r], 0) = a[r] /\ Plus(0, a[r]) = a[r]
      BY <3>1, PlusIs
    <3>3. SumOf(d) = Plus(Plus(Plus(d[1], d[2]), d[3]), d[4])
      BY DEF SumOf
    <3> QED BY <3>1, <3>2, <3>3
  <2>14. [j \in Four |-> Times[Factor(InvMixing, r - 1, j)][b[j]]] = [j \in Four |-> SumOf(x[j])]
    BY <2>1, <2>3, <2>7, Zenon
  <2> QED BY <2>9, <2>12, <2>13, <2>14, Zenon
<1>5. MixedColumn(InvMixing, b) = [r \in Four |-> a[r]]
  BY <1>4, Zenon DEF MixedColumn
<1>6. a = [r \in Four |-> a[r]] OBVIOUS
<1> QED BY <1>2, <1>3, <1>5, <1>6, Zenon

Place16 == 1 .. 16

(* A byte of a state has a row and a column, and no other has both. *)
LEMMA PlaceIs ==
    /\ \A k \in Place16 : /\ Row(k) \in 0 .. 3 /\ Column(k) \in 0 .. 3
                          /\ k = 4 * Column(k) + (Row(k) + 1)
    /\ \A c \in 0 .. 3, i \in Four : /\ (4 * c) + i \in Place16
                                     /\ Column((4 * c) + i) = c /\ Row((4 * c) + i) = i - 1
BY DEF Place16, Row, Column, Four

ColumnOf(s, c) == [i \in Four |-> s[(4 * c) + i]]

(* aes_mix_columns(), at a byte. *)
LEMMA MixedAt ==
    ASSUME NEW m \in {Mixing, InvMixing}, NEW s \in [Place16 -> Byte], NEW k \in Place16
    PROVE  /\ ColumnOf(s, Column(k)) \in [Four -> Byte]
           /\ Mixed(s, m)[k] = MixedColumn(m, ColumnOf(s, Column(k)))[Row(k) + 1]
           /\ Mixed(s, m)[k] \in Byte
<1>1. PICK row \in 0 .. 3, col \in 0 .. 3 : row = Row(k) /\ col = Column(k)
  BY PlaceIs
<1>2. PICK a : a = ColumnOf(s, col) OBVIOUS
<1>3. a \in [Four -> Byte] /\ \A i \in Four : a[i] = s[(4 * col) + i]
  BY <1>2, PlaceIs DEF ColumnOf
<1>4. PICK e : e = [i \in Four |-> Times[Factor(m, row, i)][a[i]]] OBVIOUS
<1>5. e \in [Four -> Byte]
  <2>1. \A i \in Four : Factor(m, row, i) \in Factors
    BY FactorIs
  <2> QED BY <1>3, <1>4, <2>1, TimesIs
<1>6. \A j \in Four : Times[Factor(m, Row(k), j)][s[(4 * Column(k)) + j]] = e[j]
  BY <1>1, <1>3, <1>4
<1> DEFINE Def(f) == [j \in 0 .. 4 |->
                        IF j = 0 THEN 0
                        ELSE Plus(f[j - 1], Times[Factor(m, Row(k), j)][s[(4 * Column(k)) + j]])]
           sum == CHOOSE f : f = Def(f)
           g == [j \in 0 .. 4 |-> IF j = 0 THEN 0
                                  ELSE IF j = 1 THEN e[1]
                                  ELSE IF j = 2 THEN Plus(e[1], e[2])
                                  ELSE IF j = 3 THEN Plus(Plus(e[1], e[2]), e[3])
                                  ELSE SumOf(e)]
<1>7. Mixed(s, m)[k] = sum[4]
  <2>1. DOMAIN s = Place16 OBVIOUS
  <2> QED BY <2>1, Zenon DEF Mixed
<1>8. Plus(0, e[1]) = e[1] /\ SumOf(e) \in Byte
  <2>1. e[1] \in Byte BY <1>5 DEF Four
  <2> QED BY <1>5, <2>1, PlusIs, SumOfSums
<1>9. g = Def(g)
  <2> SUFFICES ASSUME NEW j \in 0 .. 4
               PROVE  g[j] = IF j = 0 THEN 0
                             ELSE Plus(g[j - 1], Times[Factor(m, Row(k), j)][s[(4 * Column(k)) + j]])
    <3> HIDE DEF Def
    <3>1. g = [j \in 0 .. 4 |-> g[j]] OBVIOUS
    <3>2. Def(g) = [j \in 0 .. 4 |->
                      IF j = 0 THEN 0
                      ELSE Plus(g[j - 1], Times[Factor(m, Row(k), j)][s[(4 * Column(k)) + j]])]
      BY DEF Def
    <3> HIDE DEF g
    <3> QED BY <3>1, <3>2, Zenon
  <2>1. /\ g[0] = 0 /\ g[1] = e[1] /\ g[2] = Plus(e[1], e[2])
        /\ g[3] = Plus(Plus(e[1], e[2]), e[3]) /\ g[4] = SumOf(e)
    OBVIOUS
  <2> HIDE DEF g
  <2>2. g[1] = Plus(g[1 - 1], e[1]) /\ g[2] = Plus(g[2 - 1], e[2])
        /\ g[3] = Plus(g[3 - 1], e[3]) /\ g[4] = Plus(g[4 - 1], e[4])
    <3>1. 1 - 1 = 0 /\ 2 - 1 = 1 /\ 3 - 1 = 2 /\ 4 - 1 = 3 OBVIOUS
    <3> QED BY <1>8, <2>1, <3>1, Zenon DEF SumOf
  <2>3. j # 0 => j \in Four /\ (j = 1 \/ j = 2 \/ j = 3 \/ j = 4)
    BY DEF Four
  <2>4. j # 0 => g[j] = Plus(g[j - 1], e[j])
    BY <2>2, <2>3, Zenon
  <2> QED BY <1>6, <2>1, <2>3, <2>4, Zenon
<1>10. sum = Def(sum)
  <2> HIDE DEF Def, g
  <2> QED BY <1>9, Zenon
<1> HIDE DEF sum
<1>11. sum[0] = 0 /\ \A j \in Four : sum[j] = Plus(sum[j - 1], e[j])
  <2>1. sum[0] = 0 BY <1>10
  <2>2. ASSUME NEW j \in Four
        PROVE  sum[j] = Plus(sum[j - 1], Times[Factor(m, Row(k), j)][s[(4 * Column(k)) + j]])
    <3>1. j \in 0 .. 4 /\ j # 0 BY DEF Four
    <3> QED BY <1>10, <3>1, Zenon
  <2> QED BY <1>6, <2>1, <2>2, Zenon
<1>12. sum[4] = SumOf(e)
  <2>1. sum[1] = Plus(sum[0], e[1]) /\ sum[2] = Plus(sum[1], e[2])
        /\ sum[3] = Plus(sum[2], e[3]) /\ sum[4] = Plus(sum[3], e[4])
    <3>1. 1 - 1 = 0 /\ 2 - 1 = 1 /\ 3 - 1 = 2 /\ 4 - 1 = 3
          /\ 1 \in Four /\ 2 \in Four /\ 3 \in Four /\ 4 \in Four
      BY DEF Four
    <3> QED BY <1>11, <3>1, Zenon
  <2> QED BY <1>8, <1>11, <2>1, Zenon DEF SumOf
<1>13. MixedColumn(m, a)[row + 1] = SumOf(e)
  <2>1. row + 1 \in Four /\ (row + 1) - 1 = row
    BY DEF Four
  <2> QED BY <1>4, <2>1, Zenon DEF MixedColumn
<1> QED BY <1>1, <1>2, <1>3, <1>7, <1>8, <1>12, <1>13, Zenon

(* aes_inv_mix_columns() undoes aes_mix_columns(). *)
LEMMA MixedBack ==
    ASSUME NEW s \in [Place16 -> Byte]
    PROVE  /\ MixColumns(s) \in [Place16 -> Byte] /\ InvMixColumns(s) \in [Place16 -> Byte]
           /\ InvMixColumns(MixColumns(s)) = s
<1>1. ASSUME NEW m \in {Mixing, InvMixing}, NEW u \in [Place16 -> Byte]
      PROVE  Mixed(u, m) \in [Place16 -> Byte]
  <2>1. \A k \in Place16 : Mixed(u, m)[k] \in Byte
    BY MixedAt
  <2>2. PICK e : Mixed(u, m) = [k \in Place16 |-> e[k]]
    <3> DEFINE f == Mixed(u, m)
    <3>1. f = [k \in DOMAIN u |-> f[k]] BY DEF Mixed
    <3>2. DOMAIN u = Place16 OBVIOUS
    <3> HIDE DEF f
    <3>3. f = [k \in Place16 |-> f[k]]
      BY <3>1, <3>2, Zenon
    <3> QED BY <3>3, Zenon DEF f
  <2> QED BY <2>1, <2>2
<1>2. MixColumns(s) \in [Place16 -> Byte] /\ InvMixColumns(s) \in [Place16 -> Byte]
  BY <1>1 DEF MixColumns, InvMixColumns
<1>3. PICK t \in [Place16 -> Byte] : t = MixColumns(s) BY <1>2
<1>4. PICK u \in [Place16 -> Byte] : u = InvMixColumns(t)
  BY <1>1 DEF InvMixColumns
<1>5. ASSUME NEW k \in Place16 PROVE u[k] = s[k]
  <2>1. PICK row \in 0 .. 3, col \in 0 .. 3 : row = Row(k) /\ col = Column(k) /\ k = 4 * col + (row + 1)
    BY PlaceIs
  <2>2. PICK a \in [Four -> Byte] : a = ColumnOf(s, col) BY <2>1, MixedAt
  <2>3. ColumnOf(t, col) = MixedColumn(Mixing, a)
    <3>1. ASSUME NEW i \in Four PROVE ColumnOf(t, col)[i] = MixedColumn(Mixing, a)[i]
      <4>1. PICK l \in Place16 : l = (4 * col) + i /\ Column(l) = col /\ Row(l) + 1 = i
        <5>1. (4 * col) + i \in Place16 /\ Column((4 * col) + i) = col /\ Row((4 * col) + i) = i - 1
          BY PlaceIs
        <5>2. (i - 1) + 1 = i BY DEF Four
        <5> QED BY <5>1, <5>2
      <4>2. Mixed(s, Mixing)[l] = MixedColumn(Mixing, ColumnOf(s, Column(l)))[Row(l) + 1]
        BY MixedAt
      <4>3. t[l] = Mixed(s, Mixing)[l]
        BY <1>3 DEF MixColumns
      <4>4. ColumnOf(t, col)[i] = t[l]
        BY <4>1 DEF ColumnOf
      <4> QED BY <2>2, <4>1, <4>2, <4>3, <4>4, Zenon
    <3>2. PICK b \in [Four -> Byte] : b = MixedColumn(Mixing, a)
      BY ColumnIsMixedBack
    <3>3. ColumnOf(t, col) = [i \in Four |-> ColumnOf(t, col)[i]] /\ b = [i \in Four |-> b[i]]
      BY DEF ColumnOf
    <3> QED BY <3>1, <3>2, <3>3, Zenon
  <2>4. Mixed(t, InvMixing)[k] = MixedColumn(InvMixing, ColumnOf(t, Column(k)))[Row(k) + 1]
    BY MixedAt
  <2>5. MixedColumn(InvMixing, MixedColumn(Mixing, a)) = a
    BY ColumnIsMixedBack
  <2>6. u[k] = Mixed(t, InvMixing)[k]
    BY <1>4 DEF InvMixColumns
  <2>7. a[row + 1] = s[k]
    <3>1. row + 1 \in Four BY DEF Four
    <3> QED BY <2>1, <2>2, <3>1 DEF ColumnOf
  <2> QED BY <2>1, <2>3, <2>4, <2>5, <2>6, <2>7, Zenon
<1>6. u = [k \in Place16 |-> u[k]] /\ s = [k \in Place16 |-> s[k]] OBVIOUS
<1>7. u = s BY <1>5, <1>6, Zenon
<1> QED BY <1>2, <1>3, <1>4, <1>7, Zenon

(* AES-128: the rounds. *)

State16 == [Place16 -> Byte]
Schedule == [1 .. ExpKeyLength -> Byte]

(* The inverse of the S-box undoes it. *)
LEMMA SubstitutedBack ==
    ASSUME NEW s \in State16
    PROVE  /\ Substitute(s, Sbox) \in State16 /\ Substitute(s, InvSbox) \in State16
           /\ Substitute(Substitute(s, Sbox), InvSbox) = s
<1>1. \A x \in Byte : Sbox[x] \in Byte /\ InvSbox[x] \in Byte /\ InvSbox[Sbox[x]] = x
  BY AesAssumption, Zenon
<1>2. DOMAIN s = Place16 /\ \A k \in Place16 : s[k] \in Byte
  BY DEF State16
<1>3. PICK t : t = [k \in Place16 |-> Sbox[s[k]]] OBVIOUS
<1>4. t = Substitute(s, Sbox) /\ t \in State16
  <2>1. t \in State16
    BY <1>1, <1>2, <1>3 DEF State16
  <2> QED BY <1>2, <1>3, <2>1, Zenon DEF Substitute
<1>5. Substitute(s, InvSbox) \in State16
  BY <1>1, <1>2 DEF Substitute, State16
<1>6. Substitute(t, InvSbox) = [k \in Place16 |-> InvSbox[t[k]]]
  <2>1. DOMAIN t = Place16 BY <1>3
  <2> QED BY <2>1, Zenon DEF Substitute
<1>7. \A k \in Place16 : InvSbox[t[k]] = s[k]
  BY <1>1, <1>2, <1>3
<1>8. s = [k \in Place16 |-> s[k]] BY DEF State16
<1> QED BY <1>4, <1>5, <1>6, <1>7, <1>8, Zenon

(* The rows shifted to the left are shifted back. *)
LEMMA ShiftedBack ==
    ASSUME NEW s \in State16
    PROVE  /\ ShiftRows(s) \in State16 /\ InvShiftRows(s) \in State16
           /\ InvShiftRows(ShiftRows(s)) = s
<1> DEFINE left(k) == 4 * ((Column(k) + Row(k)) % 4) + Row(k) + 1
           right(k) == 4 * ((Column(k) + 4 - Row(k)) % 4) + Row(k) + 1
<1>1. DOMAIN s = Place16 /\ \A k \in Place16 : s[k] \in Byte
  BY DEF State16
<1>2. \A k \in Place16 : left(k) \in Place16 /\ right(k) \in Place16 /\ left(right(k)) = k
  BY DEF Place16, Row, Column
<1>3. ShiftRows(s) = [k \in Place16 |-> s[left(k)]]
  BY <1>1, Zenon DEF ShiftRows
<1>4. \A t : DOMAIN t = Place16 => InvShiftRows(t) = [k \in Place16 |-> t[right(k)]]
  BY Zenon DEF InvShiftRows
<1> HIDE DEF left, right
<1>5. PICK t : t = ShiftRows(s) OBVIOUS
<1>6. t \in State16 /\ DOMAIN t = Place16 /\ \A k \in Place16 : t[k] = s[left(k)]
  BY <1>1, <1>2, <1>3, <1>5 DEF State16
<1>7. InvShiftRows(s) \in State16
  BY <1>1, <1>2, <1>4 DEF State16
<1>8. InvShiftRows(t) = [k \in Place16 |-> t[right(k)]]
  BY <1>4, <1>6, Zenon
<1>9. \A k \in Place16 : t[right(k)] = s[k]
  BY <1>2, <1>6
<1>10. s = [k \in Place16 |-> s[k]] BY DEF State16
<1> QED BY <1>5, <1>6, <1>7, <1>8, <1>9, <1>10, Zenon

(* A round key added twice is not added. *)
LEMMA AddedTwice ==
    ASSUME NEW s \in State16, NEW ek \in Schedule, NEW round \in 0 .. Rounds
    PROVE  /\ AddRoundKey(s, ek, round) \in State16
           /\ AddRoundKey(AddRoundKey(s, ek, round), ek, round) = s
<1>1. DOMAIN s = Place16 /\ \A k \in Place16 : s[k] \in Byte
  BY DEF State16
<1>2. \A k \in Place16 : ek[16 * round + k] \in Byte
  <2>1. \A k \in Place16 : 16 * round + k \in 1 .. ExpKeyLength
    BY DEF Place16, Rounds, ExpKeyLength
  <2> QED BY <2>1 DEF Schedule
<1>3. PICK t : t = [k \in Place16 |-> Plus(s[k], ek[16 * round + k])] OBVIOUS
<1>4. t = AddRoundKey(s, ek, round)
  BY <1>1, <1>3, Zenon DEF AddRoundKey
<1>5. t \in State16 /\ DOMAIN t = Place16
  BY <1>1, <1>2, <1>3, PlusIs DEF State16
<1>6. AddRoundKey(t, ek, round) = [k \in Place16 |-> Plus(t[k], ek[16 * round + k])]
  BY <1>5, Zenon DEF AddRoundKey
<1>7. \A k \in Place16 : Plus(t[k], ek[16 * round + k]) = s[k]
  BY <1>1, <1>2, <1>3, PlusIs
<1>8. s = [k \in Place16 |-> s[k]] BY DEF State16
<1> QED BY <1>4, <1>5, <1>6, <1>7, <1>8, Zenon

(* A round, and a round backwards. *)
AesRound(s, ek, round) ==
    LET shifted == ShiftRows(Substitute(s, Sbox))
    IN  AddRoundKey(IF round < Rounds THEN MixColumns(shifted) ELSE shifted, ek, round)

AesRoundBack(s, ek, round) ==
    LET shifted == Substitute(InvShiftRows(s), InvSbox)
        added   == AddRoundKey(shifted, ek, round)
    IN  IF round > 0 THEN InvMixColumns(added) ELSE added

(* A round keeps a state one. *)
LEMMA RoundsAreTyped ==
    ASSUME NEW s \in State16, NEW ek \in Schedule, NEW round \in 0 .. Rounds
    PROVE  AesRound(s, ek, round) \in State16 /\ AesRoundBack(s, ek, round) \in State16
<1>1. PICK a \in State16 : a = Substitute(s, Sbox) BY SubstitutedBack
<1>2. PICK b \in State16 : b = ShiftRows(a) BY ShiftedBack
<1>3. PICK c \in State16 : c = IF round < Rounds THEN MixColumns(b) ELSE b
  BY MixedBack DEF State16
<1>4. AesRound(s, ek, round) \in State16
  <2>1. AddRoundKey(c, ek, round) \in State16
    BY AddedTwice
  <2> QED BY <1>1, <1>2, <1>3, <2>1, Zenon DEF AesRound
<1>5. PICK u \in State16 : u = InvShiftRows(s) BY ShiftedBack
<1>6. PICK v \in State16 : v = Substitute(u, InvSbox) BY SubstitutedBack
<1>7. PICK w \in State16 : w = AddRoundKey(v, ek, round) BY AddedTwice
<1>8. PICK z \in State16 : z = IF round > 0 THEN InvMixColumns(w) ELSE w
  BY MixedBack DEF State16
<1>9. AesRoundBack(s, ek, round) = z
  BY <1>5, <1>6, <1>7, <1>8, Zenon DEF AesRoundBack
<1> QED BY <1>4, <1>9

(* aes_128_encrypt(), round by round. *)
LEMMA EncryptedBy ==
    ASSUME NEW block \in State16, NEW ek \in Schedule, Fits(block, ek)
    PROVE  \E e \in [0 .. Rounds -> State16] :
                /\ e[0] = AddRoundKey(block, ek, 0)
                /\ \A r \in 1 .. Rounds : e[r] = AesRound(e[r - 1], ek, r)
                /\ AesEncrypt(block, ek) = e[Rounds]
<1> DEFINE Def(f) == [round \in 0 .. Rounds |->
                        IF round = 0 THEN AddRoundKey(block, ek, 0)
                        ELSE AesRound(f[round - 1], ek, round)]
           state == CHOOSE f : f = Def(f)
<1>1. AesEncrypt(block, ek) = state[Rounds]
  BY Zenon DEF AesEncrypt, AesRound
<1>2. Rounds \in Nat /\ 0 \in 0 .. Rounds /\ Rounds \in 0 .. Rounds
  BY DEF Rounds
<1>3. PICK a \in State16 : a = AddRoundKey(block, ek, 0) BY <1>2, AddedTwice
<1>4. PICK F : F = [r \in 1 .. Rounds |-> [s \in State16 |-> AesRound(s, ek, r)]]
  OBVIOUS
<1>5. F \in [1 .. Rounds -> [State16 -> State16]]
  <2>1. \A r \in 1 .. Rounds : r \in 0 .. Rounds
    BY <1>2
  <2>2. \A r \in 1 .. Rounds, s \in State16 : AesRound(s, ek, r) \in State16
    BY <2>1, RoundsAreTyped
  <2> QED BY <1>4, <2>2
<1>6. PICK g \in [0 .. Rounds -> State16] : g[0] = a /\ \A r \in 1 .. Rounds : g[r] = F[r][g[r - 1]]
  <2>1. Iterates(Rounds, State16)
    BY <1>2, Iterated, Zenon
  <2> QED BY <1>5, <2>1, Zenon DEF Iterates
<1>7. \A r \in 0 .. Rounds : r # 0 => r \in 1 .. Rounds /\ r - 1 \in 0 .. Rounds
  BY <1>2
<1>8. g = Def(g)
  <2>1. \A r \in 0 .. Rounds : g[r] = IF r = 0 THEN AddRoundKey(block, ek, 0)
                                      ELSE AesRound(g[r - 1], ek, r)
    <3> SUFFICES ASSUME NEW r \in 0 .. Rounds, r # 0 PROVE g[r] = AesRound(g[r - 1], ek, r)
      BY <1>3, <1>6
    <3>1. r \in 1 .. Rounds /\ g[r - 1] \in State16
      BY <1>7
    <3> QED BY <1>4, <1>6, <3>1
  <2>2. g = [r \in 0 .. Rounds |-> g[r]] OBVIOUS
  <2> QED BY <2>1, <2>2, Zenon
<1>9. state = Def(state)
  <2> HIDE DEF Def
  <2> QED BY <1>8, Zenon
<1> HIDE DEF state
<1>10. /\ state[0] = a
       /\ \A r \in 1 .. Rounds : state[r] = AesRound(state[r - 1], ek, r)
  <2>1. \A r \in 0 .. Rounds : state[r] = IF r = 0 THEN AddRoundKey(block, ek, 0)
                                          ELSE AesRound(state[r - 1], ek, r)
    BY <1>9, Zenon
  <2>2. \A r \in 1 .. Rounds : r \in 0 .. Rounds /\ r # 0
    BY <1>2
  <2> QED BY <1>2, <1>3, <2>1, <2>2, Zenon
<1>11. \A r \in 0 .. Rounds : state[r] \in State16
  <2> DEFINE W == {r \in 0 .. Rounds : state[r] \in State16}
  <2>1. 0 \in W BY <1>2, <1>10
  <2>2. ASSUME NEW r \in 0 .. Rounds - 1, r \in W PROVE r + 1 \in W
    <3>1. r + 1 \in 1 .. Rounds /\ r + 1 \in 0 .. Rounds /\ (r + 1) - 1 = r
      BY <1>2
    <3>2. state[r] \in State16 BY <2>2
    <3>3. AesRound(state[r], ek, r + 1) \in State16
      BY <3>1, <3>2, RoundsAreTyped
    <3>4. state[r + 1] = AesRound(state[r], ek, r + 1)
      BY <1>10, <3>1, Zenon
    <3> QED BY <3>1, <3>3, <3>4
  <2>3. \A r \in 0 .. Rounds - 1 : r \in W => r + 1 \in W
    BY <2>2
  <2> HIDE DEF W
  <2>4. \A r \in 0 .. Rounds : r \in W
    BY <1>2, <2>1, <2>3, CountingUp
  <2> QED BY <2>4 DEF W
<1>12. PICK e : e = [r \in 0 .. Rounds |-> state[r]] OBVIOUS
<1>13. e \in [0 .. Rounds -> State16] /\ \A r \in 0 .. Rounds : e[r] = state[r]
  BY <1>11, <1>12
<1>14. \A r \in 1 .. Rounds : r \in 0 .. Rounds /\ r - 1 \in 0 .. Rounds
  BY <1>2
<1>15. \A r \in 1 .. Rounds : e[r] = AesRound(e[r - 1], ek, r)
  BY <1>10, <1>13, <1>14, Zenon
<1> QED BY <1>1, <1>2, <1>3, <1>10, <1>13, <1>15, Zenon

(* aes_128_decrypt(), round by round. *)
LEMMA DecryptedBy ==
    ASSUME NEW block \in State16, NEW ek \in Schedule, Fits(block, ek)
    PROVE  \E d \in [0 .. Rounds -> State16] :
                /\ d[Rounds] = AddRoundKey(block, ek, Rounds)
                /\ \A r \in 0 .. Rounds - 1 : d[r] = AesRoundBack(d[r + 1], ek, r)
                /\ AesDecrypt(block, ek) = d[0]
<1> DEFINE Def(f) == [round \in 0 .. Rounds |->
                        IF round = Rounds THEN AddRoundKey(block, ek, Rounds)
                        ELSE AesRoundBack(f[round + 1], ek, round)]
           state == CHOOSE f : f = Def(f)
<1>1. AesDecrypt(block, ek) = state[0]
  BY Zenon DEF AesDecrypt, AesRoundBack
<1>2. Rounds \in Nat /\ 0 \in 0 .. Rounds /\ Rounds \in 0 .. Rounds
  BY DEF Rounds
<1>3. PICK a \in State16 : a = AddRoundKey(block, ek, Rounds)
  BY <1>2, AddedTwice
<1>4. PICK F : F = [r \in 1 .. Rounds |-> [s \in State16 |-> AesRoundBack(s, ek, Rounds - r)]]
  OBVIOUS
<1>5. F \in [1 .. Rounds -> [State16 -> State16]]
  <2>1. \A r \in 1 .. Rounds : Rounds - r \in 0 .. Rounds
    BY <1>2
  <2>2. \A r \in 1 .. Rounds, s \in State16 : AesRoundBack(s, ek, Rounds - r) \in State16
    BY <2>1, RoundsAreTyped
  <2> QED BY <1>4, <2>2
<1>6. PICK h \in [0 .. Rounds -> State16] : h[0] = a /\ \A r \in 1 .. Rounds : h[r] = F[r][h[r - 1]]
  <2>1. Iterates(Rounds, State16)
    BY <1>2, Iterated, Zenon
  <2> QED BY <1>5, <2>1, Zenon DEF Iterates
<1>7. PICK g : g = [r \in 0 .. Rounds |-> h[Rounds - r]] OBVIOUS
<1>8. g = Def(g)
  <2>1. g[Rounds] = AddRoundKey(block, ek, Rounds)
    <3>1. Rounds - Rounds = 0 BY <1>2
    <3> QED BY <1>2, <1>3, <1>6, <1>7, <3>1
  <2>2. ASSUME NEW r \in 0 .. Rounds, r # Rounds
        PROVE  g[r] = AesRoundBack(g[r + 1], ek, r)
    <3>1. PICK k \in 1 .. Rounds : /\ k = Rounds - r /\ Rounds - k = r /\ r + 1 \in 0 .. Rounds
                                   /\ Rounds - (r + 1) = k - 1 /\ k - 1 \in 0 .. Rounds
      BY <1>2, <2>2
    <3>2. g[r] = h[k] /\ g[r + 1] = h[k - 1] /\ h[k - 1] \in State16
      BY <1>7, <3>1
    <3>3. h[k] = F[k][h[k - 1]] BY <1>6
    <3>4. F[k][h[k - 1]] = AesRoundBack(h[k - 1], ek, Rounds - k)
      BY <1>4, <3>2
    <3> QED BY <3>1, <3>2, <3>3, <3>4, Zenon
  <2>3. \A r \in 0 .. Rounds : g[r] = IF r = Rounds THEN AddRoundKey(block, ek, Rounds)
                                      ELSE AesRoundBack(g[r + 1], ek, r)
    BY <2>1, <2>2, Zenon
  <2>4. g = [r \in 0 .. Rounds |-> g[r]] BY <1>7
  <2> QED BY <2>3, <2>4, Zenon
<1>9. state = Def(state)
  <2> HIDE DEF Def
  <2> QED BY <1>8, Zenon
<1> HIDE DEF state
<1>10. /\ state[Rounds] = a
       /\ \A r \in 0 .. Rounds - 1 : state[r] = AesRoundBack(state[r + 1], ek, r)
  <2>1. \A r \in 0 .. Rounds : state[r] = IF r = Rounds THEN AddRoundKey(block, ek, Rounds)
                                          ELSE AesRoundBack(state[r + 1], ek, r)
    BY <1>9, Zenon
  <2>2. \A r \in 0 .. Rounds - 1 : r \in 0 .. Rounds /\ r # Rounds
    BY <1>2
  <2> QED BY <1>2, <1>3, <2>1, <2>2, Zenon
<1>11. \A r \in 0 .. Rounds : state[r] \in State16
  <2> DEFINE W == {r \in 0 .. Rounds : state[Rounds - r] \in State16}
  <2>1. 0 \in W BY <1>2, <1>10
  <2>2. ASSUME NEW r \in 0 .. Rounds - 1, r \in W PROVE r + 1 \in W
    <3>1. PICK k \in 0 .. Rounds - 1 : /\ k = Rounds - (r + 1) /\ k + 1 = Rounds - r
                                       /\ r + 1 \in 0 .. Rounds /\ k \in 0 .. Rounds
      BY <1>2
    <3>2. state[k + 1] \in State16 BY <2>2, <3>1
    <3>3. AesRoundBack(state[k + 1], ek, k) \in State16
      BY <3>1, <3>2, RoundsAreTyped
    <3>4. state[k] = AesRoundBack(state[k + 1], ek, k)
      BY <1>10, <3>1, Zenon
    <3> QED BY <3>1, <3>3, <3>4
  <2>3. \A r \in 0 .. Rounds - 1 : r \in W => r + 1 \in W
    BY <2>2
  <2> HIDE DEF W
  <2>4. \A r \in 0 .. Rounds : r \in W
    BY <1>2, <2>1, <2>3, CountingUp
  <2>5. ASSUME NEW r \in 0 .. Rounds PROVE state[r] \in State16
    <3>1. Rounds - r \in 0 .. Rounds /\ Rounds - (Rounds - r) = r
      BY <1>2
    <3>2. Rounds - r \in W BY <2>4, <3>1, Zenon
    <3> QED BY <3>1, <3>2 DEF W
  <2> QED BY <2>5
<1>12. PICK d : d = [r \in 0 .. Rounds |-> state[r]] OBVIOUS
<1>13. d \in [0 .. Rounds -> State16] /\ \A r \in 0 .. Rounds : d[r] = state[r]
  BY <1>11, <1>12
<1>14. \A r \in 0 .. Rounds - 1 : r \in 0 .. Rounds /\ r + 1 \in 0 .. Rounds
  BY <1>2
<1>15. \A r \in 0 .. Rounds - 1 : d[r] = AesRoundBack(d[r + 1], ek, r)
  BY <1>10, <1>13, <1>14, Zenon
<1> QED BY <1>1, <1>2, <1>3, <1>10, <1>13, <1>15, Zenon

(* What the last round and the others start with: the state of the round
   before, substituted and shifted. *)
Shifted(s) == ShiftRows(Substitute(s, Sbox))

(* A round is undone by the round backwards that follows it, all but the
   substitution and the shift, which the next one undoes. *)
LEMMA RoundUndone ==
    ASSUME NEW s \in State16, NEW ek \in Schedule
    PROVE  /\ Shifted(s) \in State16
           /\ AddRoundKey(AesRound(s, ek, Rounds), ek, Rounds) = Shifted(s)
           /\ \A r \in 1 .. Rounds - 1 :
                AesRoundBack(Shifted(AesRound(s, ek, r)), ek, r) = Shifted(s)
           /\ AesRoundBack(Shifted(AddRoundKey(s, ek, 0)), ek, 0) = s
<1>1. \A t \in State16 : /\ Shifted(t) \in State16
                         /\ Substitute(InvShiftRows(Shifted(t)), InvSbox) = t
  <2> SUFFICES ASSUME NEW t \in State16
               PROVE  /\ Shifted(t) \in State16
                      /\ Substitute(InvShiftRows(Shifted(t)), InvSbox) = t
    OBVIOUS
  <2>1. PICK a \in State16 : a = Substitute(t, Sbox) /\ Substitute(a, InvSbox) = t
    BY SubstitutedBack
  <2>2. PICK b \in State16 : b = ShiftRows(a) /\ InvShiftRows(b) = a
    BY ShiftedBack
  <2> QED BY <2>1, <2>2, Zenon DEF Shifted
<1>2. PICK b \in State16 : b = Shifted(s) BY <1>1
<1>3. Rounds \in Nat /\ 0 \in 0 .. Rounds /\ Rounds \in 0 .. Rounds /\ ~(Rounds < Rounds) /\ ~(0 > 0)
      /\ \A r \in 1 .. Rounds - 1 : r \in 0 .. Rounds /\ r < Rounds /\ r > 0
  BY DEF Rounds
<1>4. AddRoundKey(AesRound(s, ek, Rounds), ek, Rounds) = b
  <2>1. AddRoundKey(AddRoundKey(b, ek, Rounds), ek, Rounds) = b
    BY <1>3, AddedTwice
  <2>2. AesRound(s, ek, Rounds) = AddRoundKey(b, ek, Rounds)
    BY <1>2, <1>3, Zenon DEF AesRound, Shifted
  <2> QED BY <2>1, <2>2, Zenon
<1>5. ASSUME NEW r \in 1 .. Rounds - 1
      PROVE  AesRoundBack(Shifted(AesRound(s, ek, r)), ek, r) = b
  <2>1. PICK c \in State16 : c = MixColumns(b) /\ InvMixColumns(c) = b
    BY MixedBack DEF State16
  <2>2. PICK t \in State16 : t = AddRoundKey(c, ek, r) /\ AddRoundKey(t, ek, r) = c
    BY <1>3, AddedTwice
  <2>3. AesRound(s, ek, r) = t
    BY <1>2, <1>3, <2>1, <2>2, Zenon DEF AesRound, Shifted
  <2>4. Substitute(InvShiftRows(Shifted(t)), InvSbox) = t
    BY <1>1
  <2> QED BY <1>3, <2>1, <2>2, <2>3, <2>4, Zenon DEF AesRoundBack
<1>6. AesRoundBack(Shifted(AddRoundKey(s, ek, 0)), ek, 0) = s
  <2>1. PICK t \in State16 : t = AddRoundKey(s, ek, 0) /\ AddRoundKey(t, ek, 0) = s
    BY <1>3, AddedTwice
  <2>2. Substitute(InvShiftRows(Shifted(t)), InvSbox) = t
    BY <1>1
  <2> QED BY <1>3, <2>1, <2>2, Zenon DEF AesRoundBack
<1> QED BY <1>2, <1>4, <1>5, <1>6

(* With any schedule of the right length, what is encrypted is decrypted. *)
LEMMA RoundsInvert ==
    ASSUME NEW ek \in Schedule, NEW block \in State16
    PROVE  /\ AesEncrypt(block, ek) \in State16
           /\ AesDecrypt(block, ek) \in State16
           /\ AesDecrypt(AesEncrypt(block, ek), ek) = block
<1>1. \A b \in State16 : Fits(b, ek)
  <2>1. \A b \in State16 : b \in Seq(Byte) /\ Len(b) = 16 /\ b # NULL
    BY TextOfLength DEF State16, Place16
  <2>2. ek \in Seq(Byte) /\ Len(ek) = ExpKeyLength /\ ek # NULL
    <3>1. PICK n \in Nat : n = ExpKeyLength BY DEF ExpKeyLength
    <3>2. ek \in [1 .. n -> Byte]
      BY <3>1 DEF Schedule
    <3> QED BY <3>1, <3>2, TextOfLength
  <2> QED BY <2>1, <2>2 DEF Fits, CipherBlockSize
<1>2. PICK e \in [0 .. Rounds -> State16] :
            /\ e[0] = AddRoundKey(block, ek, 0)
            /\ \A r \in 1 .. Rounds : e[r] = AesRound(e[r - 1], ek, r)
            /\ AesEncrypt(block, ek) = e[Rounds]
  BY <1>1, EncryptedBy
<1>3. Rounds \in Nat /\ Rounds > 1 BY DEF Rounds
<1>4. PICK cipher \in State16 : cipher = e[Rounds] BY <1>3
<1>5. AesDecrypt(block, ek) \in State16
  <2>1. PICK d \in [0 .. Rounds -> State16] : AesDecrypt(block, ek) = d[0]
    BY <1>1, DecryptedBy
  <2> QED BY <1>3, <2>1
<1>6. PICK d \in [0 .. Rounds -> State16] :
            /\ d[Rounds] = AddRoundKey(cipher, ek, Rounds)
            /\ \A r \in 0 .. Rounds - 1 : d[r] = AesRoundBack(d[r + 1], ek, r)
            /\ AesDecrypt(cipher, ek) = d[0]
  BY <1>1, DecryptedBy
<1> DEFINE W == {r \in 0 .. Rounds - 1 : d[Rounds - r] = Shifted(e[Rounds - r - 1])}
<1>7. 0 \in W
  <2>1. /\ Rounds - 0 = Rounds /\ Rounds - 1 \in 0 .. Rounds /\ 0 \in 0 .. Rounds - 1
        /\ Rounds \in 1 .. Rounds
    BY <1>3
  <2>2. PICK s \in State16 : s = e[Rounds - 1] BY <2>1
  <2>3. cipher = AesRound(s, ek, Rounds)
    BY <1>2, <1>4, <2>1, <2>2
  <2>4. AddRoundKey(AesRound(s, ek, Rounds), ek, Rounds) = Shifted(s)
    BY RoundUndone
  <2>5. d[Rounds] = Shifted(e[Rounds - 1])
    BY <1>6, <2>2, <2>3, <2>4, Zenon
  <2> QED BY <2>1, <2>5
<1>8. ASSUME NEW r \in 0 .. (Rounds - 1) - 1, r \in W PROVE r + 1 \in W
  <2>1. PICK k \in 1 .. Rounds - 1 : /\ Rounds - (r + 1) = k /\ Rounds - r = k + 1
                                     /\ Rounds - r - 1 = k /\ k \in 0 .. Rounds - 1
                                     /\ k \in 1 .. Rounds /\ k - 1 \in 0 .. Rounds
                                     /\ Rounds - (r + 1) - 1 = k - 1 /\ r + 1 \in 0 .. Rounds - 1
    BY <1>3
  <2>2. PICK s \in State16 : s = e[k - 1] BY <2>1
  <2>3. e[k] = AesRound(s, ek, k)
    BY <1>2, <2>1, <2>2, Zenon
  <2>4. d[Rounds - r] = Shifted(e[Rounds - r - 1])
    BY <1>8
  <2>5. d[k + 1] = Shifted(e[k])
    BY <2>1, <2>4, Zenon
  <2>6. AesRoundBack(Shifted(AesRound(s, ek, k)), ek, k) = Shifted(s)
    BY RoundUndone
  <2>7. d[k] = AesRoundBack(d[k + 1], ek, k)
    BY <1>6, <2>1, Zenon
  <2>8. d[k] = Shifted(e[k - 1])
    BY <2>2, <2>3, <2>5, <2>6, <2>7, Zenon
  <2>9. d[Rounds - (r + 1)] = Shifted(e[Rounds - (r + 1) - 1])
    BY <2>1, <2>8, Zenon
  <2> QED BY <2>1, <2>9
<1>9. \A r \in 0 .. (Rounds - 1) - 1 : r \in W => r + 1 \in W
  BY <1>8
<1> HIDE DEF W
<1>10. \A r \in 0 .. Rounds - 1 : r \in W
  <2>1. PICK n \in Nat : n = Rounds - 1 BY <1>3
  <2>2. \A r \in 0 .. n - 1 : r \in W => r + 1 \in W
    BY <1>9, <2>1, Zenon
  <2>3. \A r \in 0 .. n : r \in W
    BY <1>7, <2>2, CountingUp
  <2> QED BY <2>1, <2>3, Zenon
<1>11. d[1] = Shifted(e[0])
  <2>1. /\ Rounds - 1 \in 0 .. Rounds - 1 /\ Rounds - (Rounds - 1) = 1
        /\ Rounds - (Rounds - 1) - 1 = 0
    BY <1>3
  <2>2. Rounds - 1 \in W BY <1>10, <2>1, Zenon
  <2>3. d[Rounds - (Rounds - 1)] = Shifted(e[Rounds - (Rounds - 1) - 1])
    BY <2>2 DEF W
  <2> QED BY <2>1, <2>3, Zenon
<1>12. d[0] = block
  <2>1. 0 \in 0 .. Rounds - 1 /\ 0 + 1 = 1 BY <1>3
  <2>2. d[0] = AesRoundBack(d[1], ek, 0)
    BY <1>6, <2>1
  <2>3. AesRoundBack(Shifted(AddRoundKey(block, ek, 0)), ek, 0) = block
    BY RoundUndone
  <2> QED BY <1>2, <1>11, <2>2, <2>3, Zenon
<1> QED BY <1>2, <1>4, <1>5, <1>6, <1>12, Zenon

(* AES-128: the key schedule. *)

Word == [Four -> Byte]

(* The words of a round. *)
WordOf(before, w) == SubSeq(before, (4 * w) + 1, (4 * w) + 4)

(* The four words of sixteen bytes. *)
LEMMA WordIs ==
    /\ \A s \in Word : s \in Seq(Byte) /\ Len(s) = 4
    /\ \A s \in Seq(Byte), w \in 0 .. 3 : Len(s) = 16 => WordOf(s, w) \in Word
<1>1. \A s \in Word : s \in Seq(Byte) /\ Len(s) = 4
  BY TextOfLength DEF Word, Four
<1>2. ASSUME NEW s \in Seq(Byte), NEW w \in 0 .. 3, Len(s) = 16 PROVE WordOf(s, w) \in Word
  <2>1. PICK from \in Nat : from = 4 * w /\ from + 4 <= Len(s) BY <1>2
  <2>2. PICK t : t = SubSeq(s, from + 1, from + 4) OBVIOUS
  <2>3. t \in Seq(Byte) /\ Len(t) = 4
    BY <2>1, <2>2, PartIs
  <2>4. t \in Word
    BY <2>3, TextOfLength DEF Word, Four
  <2> QED BY <2>1, <2>2, <2>4 DEF WordOf
<1> QED BY <1>1, <1>2

(* The core of the schedule gives a word. *)
LEMMA CoreIs ==
    ASSUME NEW t \in Word, NEW round \in 1 .. Rounds
    PROVE  Core(t, round) \in Word
<1>1. PICK u : u = Rotated(t) OBVIOUS
<1>2. u \in [1 .. 4 -> Byte]
  <2>1. t[1] \in Byte /\ t[2] \in Byte /\ t[3] \in Byte /\ t[4] \in Byte
    BY DEF Word, Four
  <2>2. <<t[2], t[3], t[4], t[1]>> \in [1 .. 4 -> Byte]
    BY <2>1
  <2> QED BY <1>1, <2>2 DEF Rotated
<1>3. \A x \in Byte : Sbox[x] \in Byte
  BY AesAssumption, Zenon
<1>4. Rcon[round] \in Byte BY AesAssumption, Zenon
<1>5. PICK s : s = Substitute(u, Sbox) OBVIOUS
<1>6. s \in [1 .. 4 -> Byte]
  BY <1>2, <1>3, <1>5 DEF Substitute
<1>7. PICK v : v = [k \in 1 .. 4 |-> IF k = 1 THEN Plus(s[k], Rcon[round]) ELSE s[k]]
  OBVIOUS
<1>8. v \in Word
  <2>1. Plus(s[1], Rcon[round]) \in Byte
    <3>1. s[1] \in Byte BY <1>6
    <3> QED BY <1>4, <3>1, PlusIs, Zenon
  <2> QED BY <1>6, <1>7, <2>1 DEF Word, Four
<1>9. Core(t, round) = v
  BY <1>1, <1>5, <1>7, Zenon DEF Core
<1> QED BY <1>8, <1>9

(* Four words are sixteen bytes. *)
LEMMA FourWords ==
    ASSUME NEW parts \in [1 .. 4 -> Word]
    PROVE  Joined(parts) \in Seq(Byte) /\ Len(Joined(parts)) = 16
<1>1. \A k \in 1 .. 4 : parts[k] \in Seq(Byte) /\ Len(parts[k]) = 4
  BY WordIs
<1>2. parts \in [1 .. 4 -> Seq(Byte)] BY <1>1
<1>3. PICK joined \in [0 .. 4 -> Seq(Byte)] :
        /\ joined[0] = <<>>
        /\ \A k \in 1 .. 4 : joined[k] = joined[k - 1] \o parts[k]
        /\ Joined(parts) = joined[4]
  BY <1>2, JoinedIs
<1>4. ASSUME NEW k \in 1 .. 4 PROVE Len(joined[k]) = Len(joined[k - 1]) + 4
  <2>1. joined[k - 1] \in Seq(Byte) /\ parts[k] \in Seq(Byte) /\ Len(parts[k]) = 4
    BY <1>1
  <2>2. Len(joined[k - 1] \o parts[k]) = Len(joined[k - 1]) + Len(parts[k])
    BY <2>1, Concatenated
  <2> QED BY <1>3, <2>1, <2>2
<1>5. Len(joined[0]) = 0 BY <1>3
<1>6. /\ Len(joined[1]) = Len(joined[0]) + 4 /\ Len(joined[2]) = Len(joined[1]) + 4
      /\ Len(joined[3]) = Len(joined[2]) + 4 /\ Len(joined[4]) = Len(joined[3]) + 4
  <2>1. /\ 1 - 1 = 0 /\ 2 - 1 = 1 /\ 3 - 1 = 2 /\ 4 - 1 = 3
        /\ 1 \in 1 .. 4 /\ 2 \in 1 .. 4 /\ 3 \in 1 .. 4 /\ 4 \in 1 .. 4
    OBVIOUS
  <2> QED BY <1>4, <2>1, Zenon
<1>7. Len(joined[4]) = 16 /\ joined[4] \in Seq(Byte)
  BY <1>5, <1>6
<1> QED BY <1>3, <1>7

(* A round of the schedule is sixteen bytes. *)
LEMMA RoundKeyIs ==
    ASSUME NEW before \in Seq(Byte), Len(before) = 16, NEW round \in 1 .. Rounds
    PROVE  RoundKey(before, round) \in Seq(Byte) /\ Len(RoundKey(before, round)) = 16
<1> DEFINE Def(f) == [w \in 0 .. 3 |-> Xor(IF w = 0 THEN Core(WordOf(before, 3), round) ELSE f[w - 1],
                                           WordOf(before, w))]
           new == CHOOSE f : f = Def(f)
<1>1. RoundKey(before, round) = Joined([k \in 1 .. 4 |-> new[k - 1]])
  BY Zenon DEF RoundKey, WordOf
<1>2. \A w \in 0 .. 3 : WordOf(before, w) \in Word
  BY WordIs
<1>3. \A a, b \in Word : Xor(a, b) \in Word
  BY XorIs DEF Word, Four
<1>4. PICK c \in Word : c = Core(WordOf(before, 3), round) BY <1>2, CoreIs
<1>5. PICK F : F = [w \in 1 .. 3 |-> [u \in Word |-> Xor(u, WordOf(before, w))]]
  OBVIOUS
<1>6. F \in [1 .. 3 -> [Word -> Word]]
  <2>1. \A w \in 1 .. 3, u \in Word : Xor(u, WordOf(before, w)) \in Word
    BY <1>2, <1>3
  <2> QED BY <1>5, <2>1
<1>7. PICK a \in Word : a = Xor(c, WordOf(before, 0)) BY <1>2, <1>3
<1>8. PICK g \in [0 .. 3 -> Word] : g[0] = a /\ \A w \in 1 .. 3 : g[w] = F[w][g[w - 1]]
  <2>1. 3 \in Nat OBVIOUS
  <2>2. Iterates(3, Word) BY <2>1, Iterated, Zenon
  <2> QED BY <1>6, <2>2, Zenon DEF Iterates
<1>9. g = Def(g)
  <2>1. ASSUME NEW w \in 0 .. 3, w # 0 PROVE g[w] = Xor(g[w - 1], WordOf(before, w))
    <3>1. w \in 1 .. 3 /\ g[w - 1] \in Word BY <2>1
    <3> QED BY <1>5, <1>8, <3>1
  <2>2. \A w \in 0 .. 3 : g[w] = Xor(IF w = 0 THEN Core(WordOf(before, 3), round) ELSE g[w - 1],
                                     WordOf(before, w))
    BY <1>4, <1>7, <1>8, <2>1, Zenon
  <2>3. g = [w \in 0 .. 3 |-> g[w]] OBVIOUS
  <2> QED BY <2>2, <2>3, Zenon
<1>10. new = Def(new)
  <2> HIDE DEF Def
  <2> QED BY <1>9, Zenon
<1> HIDE DEF new
<1>11. \A w \in 0 .. 3 : new[w] = Xor(IF w = 0 THEN c ELSE new[w - 1], WordOf(before, w))
  BY <1>4, <1>10, Zenon
<1>12. new[0] \in Word BY <1>3, <1>7, <1>11
<1>13. \A w \in 1 .. 3 : new[w - 1] \in Word => new[w] \in Word
  <2> SUFFICES ASSUME NEW w \in 1 .. 3, new[w - 1] \in Word PROVE new[w] \in Word
    OBVIOUS
  <2>1. w \in 0 .. 3 /\ w # 0 OBVIOUS
  <2>2. new[w] = Xor(new[w - 1], WordOf(before, w))
    BY <1>11, <2>1, Zenon
  <2>3. Xor(new[w - 1], WordOf(before, w)) \in Word
    BY <1>2, <1>3, <2>1, Zenon
  <2> QED BY <2>2, <2>3, Zenon
<1>14. new[1] \in Word /\ new[2] \in Word /\ new[3] \in Word
  <2>1. 1 - 1 = 0 /\ 2 - 1 = 1 /\ 3 - 1 = 2 /\ 1 \in 1 .. 3 /\ 2 \in 1 .. 3 /\ 3 \in 1 .. 3
    OBVIOUS
  <2> QED BY <1>12, <1>13, <2>1, Zenon
<1>15. PICK parts : parts = [k \in 1 .. 4 |-> new[k - 1]] OBVIOUS
<1>16. parts \in [1 .. 4 -> Word]
  BY <1>12, <1>14, <1>15
<1> QED BY <1>1, <1>15, <1>16, FourWords

(* aes_128_expand_key() gives a schedule. *)
LEMMA ScheduleIs ==
    ASSUME NEW key \in Seq(Byte), ExpandKey(key) # NULL \/ Len(key) = KeyLength
    PROVE  ExpandKey(key) \in Schedule
<1> DEFINE RoundOf(s, r) == s \o RoundKey(SubSeq(s, 16 * r - 15, 16 * r), r)
           Def(f) == [r \in 0 .. Rounds |-> IF r = 0 THEN key ELSE RoundOf(f[r - 1], r)]
           expanded == CHOOSE f : f = Def(f)
<1>1. key # NULL /\ Len(key) = 16
  BY BytesAssumption DEF ExpandKey, KeyLength
<1>2. ExpandKey(key) = expanded[Rounds]
  BY <1>1, Zenon DEF ExpandKey, KeyLength
<1>3. Rounds \in Nat /\ 0 \in 0 .. Rounds /\ Rounds \in 0 .. Rounds
  BY DEF Rounds
<1>4. ASSUME NEW s \in Seq(Byte), NEW r \in 1 .. Rounds, Len(s) = 16 * r
      PROVE  RoundOf(s, r) \in Seq(Byte) /\ Len(RoundOf(s, r)) = 16 * (r + 1)
  <2>1. PICK from \in Nat : from = 16 * r - 16 /\ from + 1 = 16 * r - 15 /\ from + 16 = 16 * r
    BY <1>3
  <2>2. PICK before : before = SubSeq(s, from + 1, from + 16) OBVIOUS
  <2>3. before \in Seq(Byte) /\ Len(before) = 16
    BY <1>4, <2>1, <2>2, PartIs
  <2>4. PICK k \in Seq(Byte) : k = RoundKey(before, r) /\ Len(k) = 16
    BY <2>3, RoundKeyIs
  <2>5. s \o k \in Seq(Byte) /\ Len(s \o k) = Len(s) + Len(k)
    BY Concatenated
  <2>6. RoundOf(s, r) = s \o k BY <2>1, <2>2, <2>4
  <2>7. Len(s \o k) = 16 * (r + 1)
    BY <1>3, <1>4, <2>4, <2>5
  <2> QED BY <2>5, <2>6, <2>7, Zenon
<1> HIDE DEF RoundOf
<1>5. PICK F : F = [r \in 1 .. Rounds |-> [s \in Seq(Byte) |-> IF Len(s) = 16 * r THEN RoundOf(s, r) ELSE s]]
  OBVIOUS
<1>6. F \in [1 .. Rounds -> [Seq(Byte) -> Seq(Byte)]]
  BY <1>4, <1>5
<1>7. PICK g \in [0 .. Rounds -> Seq(Byte)] : g[0] = key /\ \A r \in 1 .. Rounds : g[r] = F[r][g[r - 1]]
  <2>1. Iterates(Rounds, Seq(Byte))
    BY <1>3, Iterated, Zenon
  <2> QED BY <1>6, <2>1, Zenon DEF Iterates
<1>8. \A r \in 0 .. Rounds : Len(g[r]) = 16 * (r + 1)
  <2> DEFINE W == {r \in 0 .. Rounds : Len(g[r]) = 16 * (r + 1)}
  <2>1. 0 \in W BY <1>1, <1>3, <1>7
  <2>2. ASSUME NEW r \in 0 .. Rounds - 1, r \in W PROVE r + 1 \in W
    <3>1. r + 1 \in 1 .. Rounds /\ r + 1 \in 0 .. Rounds /\ (r + 1) - 1 = r /\ r \in 0 .. Rounds
      BY <1>3
    <3>2. g[r] \in Seq(Byte) /\ Len(g[r]) = 16 * (r + 1)
      BY <2>2, <3>1
    <3>3. g[r + 1] = F[r + 1][g[r]]
      BY <1>7, <3>1, Zenon
    <3>4. g[r + 1] = RoundOf(g[r], r + 1)
      BY <1>5, <3>1, <3>2, <3>3
    <3>5. Len(RoundOf(g[r], r + 1)) = 16 * ((r + 1) + 1)
      BY <1>4, <3>1, <3>2
    <3> QED BY <3>1, <3>4, <3>5
  <2>3. \A r \in 0 .. Rounds - 1 : r \in W => r + 1 \in W
    BY <2>2
  <2> HIDE DEF W
  <2>4. \A r \in 0 .. Rounds : r \in W
    BY <1>3, <2>1, <2>3, CountingUp
  <2> QED BY <2>4 DEF W
<1>9. ASSUME NEW r \in 1 .. Rounds PROVE g[r] = RoundOf(g[r - 1], r)
  <2>1. r - 1 \in 0 .. Rounds /\ (r - 1) + 1 = r
    BY <1>3
  <2>2. g[r - 1] \in Seq(Byte) /\ Len(g[r - 1]) = 16 * r
    <3>1. Len(g[r - 1]) = 16 * ((r - 1) + 1)
      BY <1>8, <2>1, Zenon
    <3> QED BY <2>1, <3>1
  <2>3. g[r] = F[r][g[r - 1]] BY <1>7
  <2> QED BY <1>5, <2>2, <2>3
<1>10. \A r \in 0 .. Rounds : r # 0 => r \in 1 .. Rounds
  BY <1>3
<1>11. g = Def(g)
  <2>1. \A r \in 0 .. Rounds : g[r] = IF r = 0 THEN key ELSE RoundOf(g[r - 1], r)
    BY <1>7, <1>9, <1>10, Zenon
  <2>2. g = [r \in 0 .. Rounds |-> g[r]] OBVIOUS
  <2> QED BY <2>1, <2>2, Zenon
<1>12. expanded = Def(expanded)
  <2> HIDE DEF Def
  <2> QED BY <1>11, Zenon
<1> HIDE DEF expanded
<1>13. /\ expanded[0] = key
       /\ \A r \in 1 .. Rounds : expanded[r] = RoundOf(expanded[r - 1], r)
  <2>1. \A r \in 0 .. Rounds : expanded[r] = IF r = 0 THEN key ELSE RoundOf(expanded[r - 1], r)
    BY <1>12, Zenon
  <2>2. \A r \in 1 .. Rounds : r \in 0 .. Rounds /\ r # 0
    BY <1>3
  <2> QED BY <1>3, <2>1, <2>2, Zenon
<1> HIDE DEF Def
<1>14. \A r \in 0 .. Rounds : expanded[r] = g[r]
  <2> DEFINE W == {r \in 0 .. Rounds : expanded[r] = g[r]}
  <2>1. 0 \in W BY <1>3, <1>7, <1>13
  <2>2. ASSUME NEW r \in 0 .. Rounds - 1, r \in W PROVE r + 1 \in W
    <3>1. r + 1 \in 1 .. Rounds /\ r + 1 \in 0 .. Rounds /\ (r + 1) - 1 = r
      BY <1>3
    <3>2. expanded[r] = g[r] BY <2>2
    <3>3. expanded[r + 1] = g[r + 1]
      BY <1>9, <1>13, <3>1, <3>2, Zenon
    <3> QED BY <3>1, <3>3
  <2>3. \A r \in 0 .. Rounds - 1 : r \in W => r + 1 \in W
    BY <2>2
  <2> HIDE DEF W
  <2>4. \A r \in 0 .. Rounds : r \in W
    BY <1>3, <2>1, <2>3, CountingUp
  <2> QED BY <2>4 DEF W
<1>15. PICK s : s = g[Rounds] OBVIOUS
<1>16. s = ExpandKey(key) /\ s \in Seq(Byte) /\ Len(s) = 16 * (Rounds + 1)
  <2>1. expanded[Rounds] = g[Rounds] /\ Len(g[Rounds]) = 16 * (Rounds + 1)
    BY <1>3, <1>8, <1>14, Zenon
  <2>2. g[Rounds] \in Seq(Byte) BY <1>3
  <2> QED BY <1>2, <1>15, <2>1, <2>2
<1>17. PICK n \in Nat : n = ExpKeyLength /\ n = 16 * (Rounds + 1)
  BY DEF ExpKeyLength, Rounds
<1>18. s \in [1 .. n -> Byte]
  BY <1>16, <1>17, TextOfLength
<1> QED BY <1>16, <1>17, <1>18 DEF Schedule

Block == [1 .. CipherBlockSize -> Byte]

(* Blocks are the texts of one length. *)
LEMMA BlockIs ==
    /\ \A b \in Block : b \in Seq(Byte) /\ Len(b) = CipherBlockSize /\ b # NULL
    /\ \A s \in Seq(Byte) : Len(s) = CipherBlockSize => s \in Block
<1>1. CipherBlockSize \in Nat BY DEF CipherBlockSize
<1> QED BY <1>1, TextOfLength DEF Block

(* What AES encrypts under a key, it decrypts under that key: the rounds
   backwards undo the rounds, whatever the key and the block. *)
THEOREM DecryptInvertsEncrypt ==
    ASSUME NEW key \in Seq(Byte), ExpandKey(key) # NULL, NEW block \in Block
    PROVE  /\ AesEncrypt(block, ExpandKey(key)) \in Block
           /\ AesDecrypt(block, ExpandKey(key)) \in Block
           /\ AesDecrypt(AesEncrypt(block, ExpandKey(key)), ExpandKey(key)) = block
<1>1. PICK ek \in Schedule : ek = ExpandKey(key) BY ScheduleIs
<1>2. Block = State16
  BY DEF Block, State16, Place16, CipherBlockSize
<1>3. /\ AesEncrypt(block, ek) \in State16 /\ AesDecrypt(block, ek) \in State16
      /\ AesDecrypt(AesEncrypt(block, ek), ek) = block
  BY <1>2, RoundsInvert
<1> QED BY <1>1, <1>2, <1>3, Zenon
(* Either cipher. *)

(* The cipher that does nothing gives the block back. *)
LEMMA NopeIs ==
    ASSUME NEW key, NopeExpandKey(key) # NULL, NEW block \in Block
    PROVE  NopeCrypt(block, NopeExpandKey(key)) = block
<1>1. PICK ek : ek = NopeExpandKey(key) OBVIOUS
<1>2. key # NULL /\ Len(key) = 1 /\ ek = Put(Repeated(Len(key) + 1, 187), 0, key)
  BY <1>1 DEF NopeExpandKey, NopeKeyLength
<1>3. PICK e : ek = [k \in DOMAIN Repeated(Len(key) + 1, 187) |-> e[k]]
  <2> DEFINE f == [k \in DOMAIN Repeated(Len(key) + 1, 187) |->
                    IF k - 0 \in 1 .. Len(key) THEN At(key, 0 + k - 0)
                    ELSE Repeated(Len(key) + 1, 187)[k]]
  <2>1. ek = f BY <1>1, <1>2 DEF Put, Sput
  <2>2. f = [k \in DOMAIN Repeated(Len(key) + 1, 187) |-> f[k]] OBVIOUS
  <2> HIDE DEF f
  <2> QED BY <2>1, <2>2
<1>4. ek = [k \in 1 .. 2 |-> e[k]]
  <2>1. DOMAIN Repeated(Len(key) + 1, 187) = 1 .. 2
    BY <1>2 DEF Repeated
  <2> QED BY <1>3, <2>1
<1>5. Len(ek) = 2
  <2>1. PICK S : S = {e[k] : k \in 1 .. 2} OBVIOUS
  <2>2. ek \in [1 .. 2 -> S] BY <1>4, <2>1
  <2> QED BY <2>2
<1>6. block # NULL /\ Len(block) = CipherBlockSize
  BY BlockIs
<1> QED BY <1>1, <1>5, <1>6 DEF NopeCrypt, NopeExpKeyLength

(* Either cipher takes blocks to blocks and back. *)
LEMMA CipherIs ==
    ASSUME NEW c, IsCall(c), ExpandedKey(c) # NULL, NEW block \in Block
    PROVE  /\ Enciphered(c, block, ExpandedKey(c)) \in Block
           /\ Deciphered(c, block, ExpandedKey(c)) \in Block
           /\ Deciphered(c, Enciphered(c, block, ExpandedKey(c)), ExpandedKey(c)) = block
<1>1. c.impl \in {"aes_128", "nope"} /\ c.key \in Seq(Byte) \cup {NULL}
  BY DEF IsCall
<1>2. CASE c.impl = "aes_128"
  <2>1. ExpandedKey(c) = ExpandKey(c.key)
    BY <1>2 DEF ExpandedKey
  <2>2. c.key # NULL BY <2>1 DEF ExpandKey
  <2>3. c.key \in Seq(Byte) BY <1>1, <2>2
  <2> QED
    BY <1>2, <2>1, <2>3, DecryptInvertsEncrypt, Zenon DEF Enciphered, Deciphered
<1>3. CASE c.impl # "aes_128"
  <2>1. ExpandedKey(c) = NopeExpandKey(c.key)
    BY <1>3 DEF ExpandedKey
  <2>2. NopeCrypt(block, NopeExpandKey(c.key)) = block
    BY <2>1, NopeIs
  <2> QED BY <1>3, <2>1, <2>2, Zenon DEF Enciphered, Deciphered
<1> QED BY <1>2, <1>3

(* The loops of the modes. *)

(* What the loop has broken it remembers until the end, and every turn
   leaves the output as long as the input. *)
ErrIsKept ==
    /\ pc = "loop" /\ broke => err
    /\ pc = "done" /\ broke => ret = NULL

LengthIsKept ==
    /\ pc = "loop" => /\ DOMAIN out = 1 .. Len(input)
                      /\ input = (IF Pads(call) THEN Pkcs7Padded(call.text, CipherBlockSize)
                                  ELSE call.text)
    /\ pc = "done" /\ ret # NULL /\ ~Unpads(call) =>
        DOMAIN ret = 1 .. Len(IF Pads(call) THEN Pkcs7Padded(call.text, CipherBlockSize)
                              ELSE call.text)

(* No operation on a block makes something of NULL. *)
LEMMA NothingOfNull ==
    ASSUME NEW c, NEW x
    PROVE  /\ Enciphered(c, NULL, x) = NULL
           /\ Deciphered(c, NULL, x) = NULL
           /\ Xor(NULL, x) = NULL
           /\ Xor(x, NULL) = NULL
<1>1. AesEncrypt(NULL, x) = NULL /\ AesDecrypt(NULL, x) = NULL
  BY DEF AesEncrypt, AesDecrypt, Fits
<1>2. NopeCrypt(NULL, x) = NULL BY DEF NopeCrypt
<1> QED BY <1>1, <1>2 DEF Enciphered, Deciphered, Xor

(* bytes_put() changes bytes, and never their number. *)
LEMMA PutKeepsLength ==
    ASSUME NEW dest, NEW offset, NEW src
    PROVE  DOMAIN After(dest, Put(dest, offset, src)) = DOMAIN dest
BY DEF After, Put, Sput

(* Which of the results of a turn are NULL. *)
LEMMA SomeResult ==
    ASSUME NEW x, NEW y
    PROVE  /\ x = NULL => \E r \in DOMAIN <<x>> : <<x>>[r] = NULL
           /\ x = NULL \/ y = NULL => \E r \in DOMAIN <<x, y>> : <<x, y>>[r] = NULL
<1>1. 1 \in DOMAIN <<x>> /\ <<x>>[1] = x OBVIOUS
<1>2. 1 \in DOMAIN <<x, y>> /\ 2 \in DOMAIN <<x, y>> /\ <<x, y>>[1] = x /\ <<x, y>>[2] = y
  OBVIOUS
<1> QED BY <1>1, <1>2, Zenon

(* A turn with a result that is NULL is an error, and every turn leaves
   the output as long as it was. *)
LEMMA TurnKeeps ==
    ASSUME ErrIsKept, LengthIsKept, pc = "loop",
           NEW results, NEW src, NEW offset, Turn(results, Put(out, offset, src)),
           broke' => broke \/ \E r \in DOMAIN results : results[r] = NULL
    PROVE  ErrIsKept' /\ LengthIsKept'
<1>1. ErrIsKept' BY DEF Turn, ErrIsKept
<1>2. DOMAIN out' = DOMAIN out
  BY PutKeepsLength DEF Turn
<1>3. LengthIsKept'
  BY <1>2 DEF Turn, LengthIsKept, Pads, Unpads
<1> QED BY <1>1, <1>3

(* A call starts with no error and an output as long as its input. *)
LEMMA EnterKeeps ==
    ASSUME NEW c, NEW plaintext, Enter(c, plaintext)
    PROVE  ErrIsKept' /\ LengthIsKept'
<1>1. CASE Returns(NULL, FALSE) \/ Returns(NULL, TRUE)
  BY <1>1 DEF Returns, ErrIsKept, LengthIsKept
<1>2. CASE /\ call' = c
           /\ pc' = "loop"
           /\ input' = IF Pads(c) THEN Pkcs7Padded(c.text, CipherBlockSize) ELSE c.text
           /\ out' = Zeroed(Len(input'))
           /\ broke' = FALSE
  BY <1>2 DEF ErrIsKept, LengthIsKept, Pads, Zeroed, Repeated
<1> QED BY <1>1, <1>2 DEF Enter

(* One turn of each loop. *)
LEMMA BlocksKeep ==
    ASSUME ErrIsKept, LengthIsKept, Blocks
    PROVE  ErrIsKept' /\ LengthIsKept'
<1>1. CASE EcbEncryptBlock
  <2>1. PICK block :
            LET crypted == Enciphered(call, block, expkey)
            IN  /\ Turn(<<crypted>>, Put(out, Offset, After(block, crypted)))
                /\ broke' = (broke \/ block = NULL)
    BY <1>1 DEF EcbEncryptBlock, EcbBlock
  <2> DEFINE crypted == Enciphered(call, block, expkey)
  <2>2. pc = "loop"
    BY <1>1 DEF EcbEncryptBlock, EcbBlock, InLoop
  <2>3. block = NULL => crypted = NULL
    BY NothingOfNull
  <2> HIDE DEF crypted
  <2>4. broke' => broke \/ \E r \in DOMAIN <<crypted>> : <<crypted>>[r] = NULL
    BY <2>1, <2>3, SomeResult, Zenon
  <2> QED BY <2>1, <2>2, <2>4, TurnKeeps DEF crypted
<1>2. CASE EcbDecryptBlock
  <2>1. PICK block :
            LET crypted == Deciphered(call, block, expkey)
            IN  /\ Turn(<<crypted>>, Put(out, Offset, After(block, crypted)))
                /\ broke' = (broke \/ block = NULL)
    BY <1>2 DEF EcbDecryptBlock, EcbBlock
  <2> DEFINE crypted == Deciphered(call, block, expkey)
  <2>2. pc = "loop"
    BY <1>2 DEF EcbDecryptBlock, EcbBlock, InLoop
  <2>3. block = NULL => crypted = NULL
    BY NothingOfNull
  <2> HIDE DEF crypted
  <2>4. broke' => broke \/ \E r \in DOMAIN <<crypted>> : <<crypted>>[r] = NULL
    BY <2>1, <2>3, SomeResult, Zenon
  <2> QED BY <2>1, <2>2, <2>4, TurnKeeps DEF crypted
<1>3. CASE CbcEncryptBlock
  <2>1. PICK block :
            LET xored    == Xor(block, prev)
                crypted  == Enciphered(call, After(block, xored), expkey)
            IN  /\ Turn(<<xored, crypted>>, Put(out, Offset, After(After(block, xored), crypted)))
                /\ broke' = (broke \/ block = NULL)
    BY <1>3 DEF CbcEncryptBlock
  <2> DEFINE xored    == Xor(block, prev)
             crypted  == Enciphered(call, After(block, xored), expkey)
             computed == After(After(block, xored), crypted)
  <2>2. pc = "loop"
    BY <1>3 DEF CbcEncryptBlock, InLoop
  <2>3. block = NULL => xored = NULL
    BY NothingOfNull
  <2>4. Turn(<<xored, crypted>>, Put(out, Offset, computed)) /\ broke' = (broke \/ block = NULL)
    BY <2>1
  <2> HIDE DEF xored, crypted, computed
  <2>5. broke' => broke \/ \E r \in DOMAIN <<xored, crypted>> : <<xored, crypted>>[r] = NULL
    BY <2>3, <2>4, SomeResult, Zenon
  <2> QED BY <2>2, <2>4, <2>5, TurnKeeps
<1>4. CASE CbcDecryptBlock
  <2>1. PICK ptblock :
            LET crypted == Deciphered(call, ptblock, expkey)
                xored   == Xor(After(ptblock, crypted), prev)
            IN  /\ Turn(<<crypted, xored>>, Put(out, Offset, After(After(ptblock, crypted), xored)))
                /\ broke' = (broke \/ ptblock = NULL)
    BY <1>4 DEF CbcDecryptBlock
  <2> DEFINE crypted == Deciphered(call, ptblock, expkey)
             xored   == Xor(After(ptblock, crypted), prev)
             plain   == After(After(ptblock, crypted), xored)
  <2>2. pc = "loop"
    BY <1>4 DEF CbcDecryptBlock, InLoop
  <2>3. ptblock = NULL => crypted = NULL
    BY NothingOfNull
  <2>4. Turn(<<crypted, xored>>, Put(out, Offset, plain)) /\ broke' = (broke \/ ptblock = NULL)
    BY <2>1
  <2> HIDE DEF xored, crypted, plain
  <2>5. broke' => broke \/ \E r \in DOMAIN <<crypted, xored>> : <<crypted, xored>>[r] = NULL
    BY <2>3, <2>4, SomeResult, Zenon
  <2> QED BY <2>2, <2>4, <2>5, TurnKeeps
<1>5. CASE CtrBlock
  <2> DEFINE stream == Enciphered(call, prev \o LittleEndian(turn), expkey)
  <2>1. PICK block, mask :
            LET xored == Xor(block, mask)
            IN  /\ Turn(<<stream, xored>>, Put(out, Offset, After(block, xored)))
                /\ broke' = (broke \/ block = NULL \/ mask = NULL)
    <3> HIDE DEF stream
    <3> QED BY <1>5, Zenon DEF CtrBlock, stream
  <2> DEFINE xored == Xor(block, mask)
  <2>2. pc = "loop" BY <1>5 DEF CtrBlock
  <2>3. block = NULL \/ mask = NULL => xored = NULL
    BY NothingOfNull
  <2>4. /\ Turn(<<stream, xored>>, Put(out, Offset, After(block, xored)))
        /\ broke' = (broke \/ block = NULL \/ mask = NULL)
    BY <2>1
  <2> HIDE DEF xored
  <2>5. broke' => broke \/ \E r \in DOMAIN <<stream, xored>> : <<stream, xored>>[r] = NULL
    BY <2>3, <2>4, SomeResult, Zenon
  <2> QED BY <2>2, <2>4, <2>5, TurnKeeps
<1> QED BY <1>1, <1>2, <1>3, <1>4, <1>5 DEF Blocks

(* Every step keeps both. *)
LEMMA KeptStep ==
    ASSUME ErrIsKept, LengthIsKept, [ModesNext]_modesVars
    PROVE  ErrIsKept' /\ LengthIsKept'
<1>1. CASE Begin BY <1>1, EnterKeeps DEF Begin
<1>2. CASE Blocks BY <1>2, BlocksKeep
<1>3. CASE Finish
  BY <1>3 DEF Finish, LoopEnds, Returns, ErrIsKept, LengthIsKept, Pads, Unpads
<1>4. CASE Reply BY <1>4, EnterKeeps DEF Reply
<1>5. CASE Leave BY <1>5 DEF Leave, ErrIsKept, LengthIsKept
<1>6. CASE UNCHANGED modesVars
  BY <1>6 DEF modesVars, ErrIsKept, LengthIsKept, Pads, Unpads
<1> QED BY <1>1, <1>2, <1>3, <1>4, <1>5, <1>6 DEF ModesNext

(* The invariant of the loops. *)
THEOREM Invariance == ModesSpec => [](ErrIsKept /\ LengthIsKept)
<1>1. ModesInit => ErrIsKept /\ LengthIsKept
  BY DEF ModesInit, ErrIsKept, LengthIsKept
<1>2. ErrIsKept /\ LengthIsKept /\ [ModesNext]_modesVars => (ErrIsKept /\ LengthIsKept)'
  BY KeptStep
<1> QED BY <1>1, <1>2, PTL DEF ModesSpec

(* However many allocations fail, before the loop, in any of its turns or
   after it, what is left half done is never returned: the err of one turn
   is not overwritten by those of the next. *)
THEOREM NothingHalfDone == ModesSpec => [](pc = "done" /\ ret # NULL => ~broke)
<1>1. ErrIsKept => (pc = "done" /\ ret # NULL => ~broke)
  BY DEF ErrIsKept
<1> QED BY <1>1, Invariance, PTL

(* ecb and cbc return a ciphertext as long as the padded text, and ctr, in
   both directions, one that is exactly as long as the text: what does not
   fill a block is neither dropped nor completed. *)
THEOREM LengthIsRight ==
    ModesSpec => [](pc = "done" /\ ret # NULL /\ ~Unpads(call) =>
                    DOMAIN ret = 1 .. Len(IF Pads(call) THEN Pkcs7Padded(call.text, CipherBlockSize)
                                          ELSE call.text))
<1>1. LengthIsKept => (pc = "done" /\ ret # NULL /\ ~Unpads(call) =>
                    DOMAIN ret = 1 .. Len(IF Pads(call) THEN Pkcs7Padded(call.text, CipherBlockSize)
                                          ELSE call.text))
  BY DEF LengthIsKept
<1> QED BY <1>1, Invariance, PTL

(* NULL is none of the values that a pointer may point to. *)
NullIsNoValue ==
    /\ \A count, head, tail, node :
        [count |-> count, head |-> head, tail |-> tail, node |-> node] # NULL
    /\ \A of, tokens : [of |-> of, tokens |-> tokens] # NULL
    /\ \A f, n : [i \in 1 .. n |-> f[i]] # NULL

(* What a text and its encryption are to one another, block by block. *)

InputOf(c) == IF Pads(c) THEN Pkcs7Padded(c.text, CipherBlockSize) ELSE c.text

(* What is added to a block that was decrypted. *)
Prior(c, s, j) ==
    IF c.mode = "ecb" THEN Zeroed(CipherBlockSize)
    ELSE IF j = 1 THEN c.iv ELSE BlockOf(s, j - 1)

PlainBlock(c, s, j) ==
    Xor(Deciphered(c, BlockOf(s, j), ExpandedKey(c)), Prior(c, s, j))

StreamBlock(c, s, j) ==
    LET stream == Enciphered(c, c.iv \o LittleEndian(j - 1), ExpandedKey(c))
    IN  Xor(BlockOf(s, j), SubSeq(stream, 1, Len(BlockOf(s, j))))

Corresponds(c, in, result, j) ==
    /\ c.mode = "ctr" => BlockOf(result, j) = StreamBlock(c, in, j)
    /\ Pads(c) => PlainBlock(c, result, j) = BlockOf(in, j)
    /\ Unpads(c) => BlockOf(result, j) = PlainBlock(c, in, j)

Turns(c) ==
    (Len(InputOf(c)) \div CipherBlockSize) + (IF c.mode = "ctr" THEN 1 ELSE 0)

(* What cbc adds to the next block. *)
Chained(c, in, result, t) ==
    IF c.mode # "cbc" \/ t = 0 THEN c.iv
    ELSE BlockOf(IF c.dir = "encrypt" THEN result ELSE in, t)

(* The loop after t turns, in which last is what cbc adds next. An error
   has a cause: memory that ran out, or the iv of cbc_decrypt(). *)
LoopIs(c, ek, in, result, last, t, failed, starving) ==
    /\ IsCall(c) /\ ~Refuses(c)
    /\ ek = ExpandedKey(c) /\ in = InputOf(c)
    /\ t \in 0 .. Turns(c)
    /\ failed /\ ~starving => c.mode = "cbc" /\ ~IvFits(c)
    /\ ~failed => /\ result \in Seq(Byte) /\ Len(result) = Len(in)
                  /\ last = Chained(c, in, result, t)
                  /\ \A j \in 1 .. t : Corresponds(c, in, result, j)

(* What goes into a loop is whole blocks, but for ctr. *)
LEMMA InputIs ==
    ASSUME NEW c, IsCall(c), ~Refuses(c)
    PROVE  /\ c.text \in Seq(Byte) /\ ExpandedKey(c) # NULL
           /\ InputOf(c) \in Seq(Byte) /\ Len(InputOf(c)) < SizeWrap
           /\ c.mode # "ctr" => Len(InputOf(c)) % CipherBlockSize = 0
           /\ c.mode \in {"ecb", "cbc", "ctr"} /\ c.dir \in {"encrypt", "decrypt"}
<1>1. c.text # NULL /\ ExpandedKey(c) # NULL /\ ~(Unpads(c) /\ Len(c.text) % CipherBlockSize # 0)
  BY DEF Refuses
<1>2. /\ c.text \in Seq(Byte) \cup {NULL}
      /\ c.mode \in {"ecb", "cbc", "ctr"} /\ c.dir \in {"encrypt", "decrypt"}
  BY DEF IsCall
<1>3. c.text \in Seq(Byte) BY <1>1, <1>2
<1>4. Len(c.text) + (IF Pads(c) THEN CipherBlockSize ELSE 0) < SizeWrap
  BY <1>1 DEF IsCall
<1>5. CipherBlockSize \in 1 .. 255
  BY DEF CipherBlockSize
<1>6. CASE Pads(c)
  <2>1. PICK padded : padded = Pkcs7Padded(c.text, CipherBlockSize) OBVIOUS
  <2>2. /\ padded \in Seq(Byte) /\ Len(padded) % CipherBlockSize = 0
        /\ Len(padded) \in Len(c.text) + 1 .. Len(c.text) + CipherBlockSize
    BY <1>3, <1>5, <2>1, PaddedIsWholeBlocks
  <2>3. Len(padded) < SizeWrap
    BY <1>3, <1>4, <1>5, <1>6, <2>2, BytesAssumption
  <2> QED BY <1>1, <1>2, <1>3, <1>6, <2>1, <2>2, <2>3, Zenon DEF InputOf
<1>7. CASE ~Pads(c)
  <2>1. InputOf(c) = c.text BY <1>7 DEF InputOf
  <2>2. Len(c.text) < SizeWrap BY <1>3, <1>4, <1>7
  <2>3. c.mode # "ctr" => Unpads(c)
    BY <1>2, <1>7 DEF Pads, Unpads
  <2> QED BY <1>1, <1>2, <1>3, <2>1, <2>2, <2>3, Zenon
<1> QED BY <1>6, <1>7

(* At every turn there is a block: a full one, but for the last of ctr. *)
LEMMA BlockOfTurn ==
    ASSUME NEW c, IsCall(c), ~Refuses(c), NEW t \in Nat, t < Turns(c)
    PROVE  LET len == Len(InputOf(c))
               m   == IF t = len \div CipherBlockSize THEN len % CipherBlockSize ELSE CipherBlockSize
           IN  /\ m \in Nat /\ HasBlock(len, t, m)
               /\ c.mode # "ctr" => m = CipherBlockSize
<1>1. PICK len \in Nat : len = Len(InputOf(c)) BY InputIs
<1>2. PICK m : m = IF t = len \div CipherBlockSize THEN len % CipherBlockSize ELSE CipherBlockSize
  OBVIOUS
<1>3. /\ len \div 16 \in Nat /\ len % 16 \in 0 .. 15
      /\ len = 16 * (len \div 16) + (len % 16)
  OBVIOUS
<1>4. t <= len \div 16 /\ (c.mode # "ctr" => t < len \div 16)
  BY <1>1, <1>3 DEF Turns, CipherBlockSize
<1>5. m \in Nat /\ HasBlock(len, t, m)
  BY <1>2, <1>3, <1>4 DEF HasBlock, CipherBlockSize
<1>6. c.mode # "ctr" => m = CipherBlockSize
  BY <1>2, <1>3, <1>4 DEF CipherBlockSize
<1> QED BY <1>1, <1>2, <1>5, <1>6, Zenon

(* What was there of the result before a turn corresponds after it too. *)
LEMMA CorrespondsKept ==
    ASSUME NEW c, NEW in, NEW old, NEW new, NEW t \in Nat,
           \A j \in 1 .. t : BlockOf(new, j) = BlockOf(old, j),
           \A j \in 1 .. t : Corresponds(c, in, old, j)
    PROVE  \A j \in 1 .. t : Corresponds(c, in, new, j)
<1> SUFFICES ASSUME NEW j \in 1 .. t PROVE Corresponds(c, in, new, j) OBVIOUS
<1>1. BlockOf(new, j) = BlockOf(old, j) /\ Corresponds(c, in, old, j) OBVIOUS
<1>2. j # 1 => BlockOf(new, j - 1) = BlockOf(old, j - 1)
  <2>1. j # 1 => j - 1 \in 1 .. t OBVIOUS
  <2> QED BY <2>1
<1>3. Prior(c, new, j) = Prior(c, old, j)
  BY <1>2, Zenon DEF Prior
<1>4. PlainBlock(c, new, j) = PlainBlock(c, old, j)
  BY <1>1, <1>3, Zenon DEF PlainBlock
<1> QED BY <1>1, <1>4, Zenon DEF Corresponds

(* What cbc adds to the next block is a block, unless it is an iv that
   does not fit. *)
LEMMA ChainedIs ==
    ASSUME NEW c, IsCall(c), ~Refuses(c), c.mode = "cbc", NEW t \in Nat, t < Turns(c),
           NEW result \in Seq(Byte), Len(result) = Len(InputOf(c)),
           NEW last, last = Chained(c, InputOf(c), result, t)
    PROVE  /\ last = Prior(c, IF c.dir = "encrypt" THEN result ELSE InputOf(c), t + 1)
           /\ \/ last \in Block
              \/ ~IvFits(c) /\ (last = NULL \/ Len(last) # CipherBlockSize)
<1>1. PICK s \in Seq(Byte) : s = (IF c.dir = "encrypt" THEN result ELSE InputOf(c))
  BY InputIs
<1>2. Len(s) = Len(InputOf(c)) BY <1>1
<1>3. CASE t = 0
  <2>1. last = c.iv /\ c.iv \in Seq(Byte) \cup {NULL}
    BY <1>3 DEF Chained, IsCall
  <2>2. last = Prior(c, s, t + 1)
    BY <1>3, <2>1 DEF Prior
  <2> QED BY <1>1, <2>1, <2>2, BlockIs DEF IvFits
<1>4. CASE t # 0
  <2>1. PICK i \in Nat : t = i + 1
    <3>1. t - 1 \in Nat /\ t = (t - 1) + 1 BY <1>4
    <3> QED BY <3>1
  <2>2. last = BlockOf(s, t)
    BY <1>1, <1>4, Zenon DEF Chained
  <2>3. last = Prior(c, s, t + 1)
    <3>1. t + 1 # 1 /\ (t + 1) - 1 = t BY <1>4
    <3> QED BY <2>2, <3>1 DEF Prior
  <2>4. HasBlock(Len(s), i, CipherBlockSize)
    <3>1. PICK len \in Nat : len = Len(s) OBVIOUS
    <3>2. i < len \div 16 /\ len \div 16 \in Nat /\ 16 * (len \div 16) <= len
      BY <1>2, <2>1, <3>1 DEF Turns, CipherBlockSize
    <3> QED BY <3>1, <3>2 DEF HasBlock, CipherBlockSize
  <2>5. last \in Block
    BY <2>1, <2>2, <2>4, BlockOfIs DEF Block
  <2> QED BY <1>1, <2>3, <2>5
<1> QED BY <1>3, <1>4

(* The block that a turn without an error has made, and what it chains. *)
TurnIs(c, ek, in, last, t, m, block, next) ==
    LET added == IF c.mode = "ecb" THEN Zeroed(CipherBlockSize) ELSE last
    IN  /\ block \in [1 .. m -> Byte]
        /\ c.mode = "ctr" => block = StreamBlock(c, in, t + 1)
        /\ Pads(c) => Xor(Deciphered(c, block, ek), added) = BlockOf(in, t + 1)
        /\ Unpads(c) => block = Xor(Deciphered(c, BlockOf(in, t + 1), ek), added)
        /\ next = IF c.mode # "cbc" THEN last
                  ELSE IF c.dir = "encrypt" THEN block ELSE BlockOf(in, t + 1)

(* Some of the results of a turn is NULL. *)
Failing(results) == \E r \in DOMAIN results : results[r] = NULL

(* A turn of ecb, in either direction. *)
LEMMA EcbTurn ==
    ASSUME NEW c, IsCall(c), ~Refuses(c), c.mode = "ecb", NEW in, NEW last, NEW t \in Nat,
           BlockOf(in, t + 1) \in Block, NEW crypted,
           crypted = IF c.dir = "encrypt" THEN Enciphered(c, BlockOf(in, t + 1), ExpandedKey(c))
                     ELSE Deciphered(c, BlockOf(in, t + 1), ExpandedKey(c))
    PROVE  /\ crypted \in Block
           /\ TurnIs(c, ExpandedKey(c), in, last, t, CipherBlockSize, crypted, last)
<1>1. PICK b \in Block : b = BlockOf(in, t + 1) OBVIOUS
<1>2. ExpandedKey(c) # NULL BY InputIs
<1>3. /\ Enciphered(c, b, ExpandedKey(c)) \in Block
      /\ Deciphered(c, b, ExpandedKey(c)) \in Block
      /\ Deciphered(c, Enciphered(c, b, ExpandedKey(c)), ExpandedKey(c)) = b
  BY <1>2, CipherIs
<1>4. crypted \in Block BY <1>1, <1>3, Zenon
<1>5. \A a \in Block : Xor(a, Zeroed(CipherBlockSize)) = a
  <2>1. CipherBlockSize \in Nat
    BY DEF CipherBlockSize
  <2> QED BY <2>1, XorZeroed, Zenon DEF Block
<1>6. Pads(c) => Xor(Deciphered(c, crypted, ExpandedKey(c)), Zeroed(CipherBlockSize)) = b
  BY <1>1, <1>3, <1>5, Zenon DEF Pads
<1>7. Unpads(c) => crypted = Xor(Deciphered(c, b, ExpandedKey(c)), Zeroed(CipherBlockSize))
  <2>1. Unpads(c) => c.dir # "encrypt" BY DEF Unpads
  <2> QED BY <1>1, <1>3, <1>5, <2>1, Zenon
<1>8. c.mode # "ctr" /\ c.mode # "cbc" OBVIOUS
<1> QED BY <1>1, <1>4, <1>6, <1>7, <1>8, Zenon DEF TurnIs, Block

(* A turn of cbc, which encrypts under an iv that fits. *)
LEMMA CbcEncryptTurn ==
    ASSUME NEW c, IsCall(c), ~Refuses(c), c.mode = "cbc", c.dir = "encrypt",
           NEW in, NEW last \in Block, NEW t \in Nat, BlockOf(in, t + 1) \in Block,
           NEW crypted, crypted = Enciphered(c, Xor(BlockOf(in, t + 1), last), ExpandedKey(c))
    PROVE  /\ Xor(BlockOf(in, t + 1), last) \in Block /\ crypted \in Block
           /\ TurnIs(c, ExpandedKey(c), in, last, t, CipherBlockSize, crypted, crypted)
<1>1. PICK b \in Block : b = BlockOf(in, t + 1) OBVIOUS
<1>2. ExpandedKey(c) # NULL BY InputIs
<1>3. PICK x : x = Xor(b, last) OBVIOUS
<1>4. x \in Block /\ Xor(x, last) = b
  <2>1. CipherBlockSize \in Nat
    BY DEF CipherBlockSize
  <2> QED BY <1>3, <2>1, XorIs, Zenon DEF Block
<1>5. crypted \in Block /\ Deciphered(c, crypted, ExpandedKey(c)) = x
  BY <1>1, <1>2, <1>3, <1>4, CipherIs, Zenon
<1>6. Xor(Deciphered(c, crypted, ExpandedKey(c)), last) = b
  BY <1>4, <1>5, Zenon
<1>7. c.mode # "ctr" /\ c.mode # "ecb" /\ ~Unpads(c)
  BY DEF Unpads
<1> QED BY <1>1, <1>3, <1>4, <1>5, <1>6, <1>7, Zenon DEF TurnIs, Block

(* A turn of cbc_decrypt(): a block of the text of the one before it. *)
LEMMA CbcDecryptTurn ==
    ASSUME NEW c, IsCall(c), ~Refuses(c), c.mode = "cbc", c.dir = "decrypt",
           NEW in, NEW last \in Block, NEW t \in Nat, BlockOf(in, t + 1) \in Block,
           NEW plain, plain = Xor(Deciphered(c, BlockOf(in, t + 1), ExpandedKey(c)), last)
    PROVE  /\ Deciphered(c, BlockOf(in, t + 1), ExpandedKey(c)) \in Block /\ plain \in Block
           /\ TurnIs(c, ExpandedKey(c), in, last, t, CipherBlockSize, plain, BlockOf(in, t + 1))
<1>1. PICK b \in Block : b = BlockOf(in, t + 1) OBVIOUS
<1>2. ExpandedKey(c) # NULL BY InputIs
<1>3. Deciphered(c, b, ExpandedKey(c)) \in Block
  BY <1>2, CipherIs, Zenon
<1>4. plain \in Block
  <2>1. CipherBlockSize \in Nat
    BY DEF CipherBlockSize
  <2> QED BY <1>1, <1>3, <2>1, XorIs, Zenon DEF Block
<1>5. c.mode # "ctr" /\ c.mode # "ecb" /\ ~Pads(c) /\ c.dir # "encrypt"
  BY DEF Pads
<1> QED BY <1>1, <1>3, <1>4, <1>5, Zenon DEF TurnIs, Block

(* A turn of ctr: the stream of a turn is a block, of which as much is
   taken as there is text. *)
LEMMA CtrTurn ==
    ASSUME NEW c, IsCall(c), ~Refuses(c), c.mode = "ctr", NEW in, NEW last, last = c.iv,
           NEW t \in Nat, NEW m \in 0 .. CipherBlockSize, BlockOf(in, t + 1) \in [1 .. m -> Byte],
           NEW stream, stream = Enciphered(c, last \o LittleEndian(t), ExpandedKey(c)),
           NEW mask, mask = IF CipherBlockSize > m THEN Slice(stream, 0, m) ELSE stream
    PROVE  LET block == Xor(BlockOf(in, t + 1), mask)
           IN  /\ stream \in Block /\ mask # NULL /\ block \in [1 .. m -> Byte] /\ block # NULL
               /\ TurnIs(c, ExpandedKey(c), in, last, t, m, block, last)
<1>1. last \in Seq(Byte) /\ Len(last) = 8
  BY DEF IsCall
<1>2. PICK number : number = LittleEndian(t) OBVIOUS
<1>3. number \in Seq(Byte) /\ Len(number) = 8
  <2>1. number \in [1 .. 8 -> Byte]
    BY <1>2, LittleEndianIs
  <2> QED BY <2>1, TextOfLength
<1>4. PICK counter : counter = last \o number OBVIOUS
<1>5. counter \in Block
  <2>1. counter \in Seq(Byte) /\ Len(counter) = Len(last) + Len(number)
    BY <1>1, <1>3, <1>4, Concatenated
  <2>2. Len(counter) = CipherBlockSize
    BY <1>1, <1>3, <2>1 DEF CipherBlockSize
  <2> QED BY <2>1, <2>2, BlockIs
<1>6. stream \in Block
  <2>1. ExpandedKey(c) # NULL BY InputIs
  <2> QED BY <1>2, <1>4, <1>5, <2>1, CipherIs, Zenon
<1>7. stream \in Seq(Byte) /\ Len(stream) = CipherBlockSize
  BY <1>6, BlockIs, Zenon
<1>8. m \in Nat /\ m <= CipherBlockSize /\ CipherBlockSize = 16
  BY DEF CipherBlockSize
<1>9. mask = SubSeq(stream, 1, m)
  <2>1. CASE CipherBlockSize > m
    <3>1. 0 + m < SizeWrap /\ ~(0 + m > Len(stream)) /\ 0 + 1 = 1 /\ 0 + m = m /\ 0 \in Nat
      BY <1>7, <1>8, BytesAssumption, ModesAssumption
    <3>2. Slice(stream, 0, m) = SubSeq(stream, 0 + 1, 0 + m)
      BY <1>7, <1>8, <3>1, SliceIsExact
    <3> QED BY <2>1, <3>1, <3>2, Zenon
  <2>2. CASE ~(CipherBlockSize > m)
    <3>1. m = Len(stream) /\ mask = stream
      BY <1>7, <1>8, <2>2
    <3>2. \A s \in Seq(Byte) : SubSeq(s, 1, Len(s)) = s OBVIOUS
    <3> QED BY <1>7, <3>1, <3>2, Zenon
  <2> QED BY <2>1, <2>2
<1>10. mask \in [1 .. m -> Byte]
  <2>1. \A s \in Seq(Byte), n \in Nat :
            n <= Len(s) => SubSeq(s, 1, n) \in Seq(Byte) /\ Len(SubSeq(s, 1, n)) = n
    OBVIOUS
  <2>2. mask \in Seq(Byte) /\ Len(mask) = m
    BY <1>7, <1>8, <1>9, <2>1, Zenon
  <2> QED BY <1>8, <2>2, TextOfLength
<1>11. PICK b \in [1 .. m -> Byte] : b = BlockOf(in, t + 1) OBVIOUS
<1>12. Len(b) = m /\ mask # NULL
  BY <1>8, <1>10, <1>11, TextOfLength
<1>13. PICK block : block = Xor(b, mask) OBVIOUS
<1>14. block \in [1 .. m -> Byte] /\ block # NULL
  <2>1. block \in [1 .. m -> Byte]
    BY <1>8, <1>10, <1>13, XorIs
  <2> QED BY <1>8, <2>1, TextOfLength
<1>15. block = StreamBlock(c, in, t + 1)
  <2>1. (t + 1) - 1 = t OBVIOUS
  <2> QED BY <1>9, <1>11, <1>12, <1>13, <2>1, Zenon DEF StreamBlock
<1>16. c.mode # "cbc" /\ c.mode # "ecb" /\ ~Pads(c) /\ ~Unpads(c)
  BY DEF Pads, Unpads
<1>17. TurnIs(c, ExpandedKey(c), in, last, t, m, block, last)
  BY <1>14, <1>15, <1>16, Zenon DEF TurnIs
<1> QED BY <1>6, <1>11, <1>12, <1>13, <1>14, <1>17, Zenon

(* The loops keep their invariant. *)

LoopInv == pc = "loop" => LoopIs(call, expkey, input, out, prev, turn, err, broke)

(* What the loops' invariant says of the state. *)
LEMMA LoopFacts ==
    ASSUME LoopInv, pc = "loop"
    PROVE  /\ IsCall(call) /\ ~Refuses(call) /\ expkey = ExpandedKey(call) /\ expkey # NULL
           /\ input = InputOf(call) /\ input \in Seq(Byte) /\ Len(input) < SizeWrap
           /\ turn \in Nat /\ Offset = CipherBlockSize * turn
           /\ Turns(call) = Nblock + (IF call.mode = "ctr" THEN 1 ELSE 0)
           /\ Nblock \in Nat
           /\ ~err => /\ out \in Seq(Byte) /\ Len(out) = Len(InputOf(call))
                      /\ prev = Chained(call, InputOf(call), out, turn)
<1>1. LoopIs(call, expkey, input, out, prev, turn, err, broke)
  BY DEF LoopInv
<1>2. /\ IsCall(call) /\ ~Refuses(call) /\ expkey = ExpandedKey(call)
      /\ input = InputOf(call) /\ turn \in 0 .. Turns(call)
      /\ ~err => /\ out \in Seq(Byte) /\ Len(out) = Len(InputOf(call))
                 /\ prev = Chained(call, InputOf(call), out, turn)
  BY <1>1, Zenon DEF LoopIs
<1>3. input \in Seq(Byte) /\ Len(input) < SizeWrap /\ expkey # NULL
  BY <1>2, InputIs
<1>4. turn \in Nat BY <1>2
<1>5. Offset = CipherBlockSize * turn
  BY <1>4 DEF Offset, CipherBlockSize
<1>6. Turns(call) = Nblock + (IF call.mode = "ctr" THEN 1 ELSE 0)
  BY <1>2, Zenon DEF Turns, Nblock
<1>7. Nblock \in Nat
  BY <1>3 DEF Nblock, CipherBlockSize
<1> QED BY <1>2, <1>3, <1>4, <1>5, <1>6, <1>7, Zenon

(* When a turn's allocation failed. *)
LEMMA FailingIs ==
    ASSUME NEW x, NEW y
    PROVE  /\ Failing(<<x>>) <=> x = NULL
           /\ Failing(<<x, y>>) <=> x = NULL \/ y = NULL
<1>1. DOMAIN <<x>> = {1} /\ <<x>>[1] = x OBVIOUS
<1>2. DOMAIN <<x, y>> = {1, 2} /\ <<x, y>>[1] = x /\ <<x, y>>[2] = y OBVIOUS
<1>3. Failing(<<x>>) <=> x = NULL
  BY <1>1, Zenon DEF Failing
<1>4. Failing(<<x, y>>) <=> x = NULL \/ y = NULL
  BY <1>2, Zenon DEF Failing
<1> QED BY <1>3, <1>4

(* A turn that has made its block, or has an error with its cause. *)
LEMMA TurnKeepsInv ==
    ASSUME LoopInv, pc = "loop", turn < Turns(call), NEW m \in Nat, HasBlock(Len(input), turn, m),
           NEW results, NEW block, Turn(results, Put(out, Offset, block)),
           broke => broke',
           \/ err
           \/ Failing(results) /\ broke'
           \/ Failing(results) /\ call.mode = "cbc" /\ ~IvFits(call)
           \/ ~Failing(results) /\ TurnIs(call, expkey, input, prev, turn, m, block, prev')
    PROVE  LoopInv'
<1> DEFINE c == call
           ek == expkey
           in == input
           result == out
           last == prev
           next == prev'
           t == turn
           failed == err
           starving == broke
           starving2 == broke'
           failed2 == err'
<1>1. LoopIs(c, ek, in, result, last, t, failed, starving)
  BY DEF LoopInv
<1>2. t < Turns(c) /\ HasBlock(Len(in), t, m) OBVIOUS
<1>3. PICK put : put = Put(result, CipherBlockSize * t, block) OBVIOUS
<1>4. /\ call' = call /\ expkey' = expkey /\ input' = input /\ pc' = pc
      /\ out' = After(result, put) /\ turn' = t + 1
  <2>1. Offset = CipherBlockSize * turn BY LoopFacts
  <2> QED BY <1>3, <2>1, Zenon DEF Turn
<1>5. failed2 <=> (failed \/ put = NULL \/ Failing(results))
  <2>1. Offset = CipherBlockSize * turn BY LoopFacts
  <2> QED BY <1>3, <2>1, Zenon DEF Turn, Failing
<1>6. /\ starving => starving2
      /\ \/ failed
         \/ Failing(results) /\ starving2
         \/ Failing(results) /\ c.mode = "cbc" /\ ~IvFits(c)
         \/ ~Failing(results) /\ TurnIs(c, ek, in, last, t, m, block, next)
  OBVIOUS
<1>7. LoopIs(c, ek, in, After(result, put), next, t + 1, failed2, starving2) => LoopInv'
  BY <1>4, Zenon DEF LoopInv
<1> SUFFICES LoopIs(c, ek, in, After(result, put), next, t + 1, failed2, starving2)
  BY <1>7
<1> HIDE DEF c, ek, in, result, last, next, t, failed, starving, starving2, failed2
<1>8. /\ IsCall(c) /\ ~Refuses(c) /\ ek = ExpandedKey(c) /\ in = InputOf(c)
      /\ t \in 0 .. Turns(c)
      /\ failed /\ ~starving => c.mode = "cbc" /\ ~IvFits(c)
  BY <1>1, Zenon DEF LoopIs
<1>9. t \in Nat /\ t + 1 \in 0 .. Turns(c)
  <2>1. PICK len \in Nat : len = Len(InputOf(c)) BY <1>8, InputIs
  <2>2. Turns(c) \in Nat
    BY <2>1 DEF Turns, CipherBlockSize
  <2> QED BY <1>2, <1>8, <2>2
<1>10. CASE failed \/ Failing(results)
  <2>1. (c.mode = "cbc" /\ ~IvFits(c)) \/ starving2
    BY <1>6, <1>8, <1>10, Zenon
  <2> QED
    <3>1. failed2 BY <1>5, <1>10, Zenon
    <3>2. PICK u : u = t + 1 OBVIOUS
    <3>3. PICK new : new = After(result, put) OBVIOUS
    <3>4. u \in 0 .. Turns(c) BY <1>9, <3>2, Zenon
    <3>5. LoopIs(c, ek, in, new, next, u, failed2, starving2)
      BY <1>8, <2>1, <3>1, <3>4, Zenon DEF LoopIs
    <3> QED BY <3>2, <3>3, <3>5, Zenon
<1>11. CASE ~failed /\ ~Failing(results)
  <2>1. TurnIs(c, ek, in, last, t, m, block, next)
    BY <1>6, <1>11, Zenon
  <2>2. /\ result \in Seq(Byte) /\ Len(result) = Len(in)
        /\ last = Chained(c, in, result, t)
        /\ \A j \in 1 .. t : Corresponds(c, in, result, j)
    BY <1>1, <1>11, Zenon DEF LoopIs
  <2>3. in \in Seq(Byte) /\ Len(in) < SizeWrap
        /\ c.mode \in {"ecb", "cbc", "ctr"} /\ c.dir \in {"encrypt", "decrypt"}
    BY <1>8, InputIs
  <2>4. PICK new : new = put OBVIOUS
  <2>5. block \in [1 .. m -> Byte]
    BY <2>1, Zenon DEF TurnIs
  <2>6. /\ new \in Seq(Byte) /\ Len(new) = Len(result)
        /\ BlockOf(new, t + 1) = block
        /\ \A j \in 1 .. t : BlockOf(new, j) = BlockOf(result, j)
    <3>1. HasBlock(Len(result), t, m) /\ Len(result) < SizeWrap
      BY <1>2, <2>2, <2>3
    <3> QED BY <1>3, <1>9, <2>2, <2>4, <2>5, <3>1, PutIsBlock
  <2>7. put # NULL BY <2>4, <2>6, BytesAssumption
  <2>8. \A j \in 1 .. t : Corresponds(c, in, new, j)
    <3>1. \A j \in 1 .. t : BlockOf(new, j) = BlockOf(result, j)
      BY <2>6, Zenon
    <3>2. \A j \in 1 .. t : Corresponds(c, in, result, j)
      BY <2>2, Zenon
    <3> QED BY <1>9, <3>1, <3>2, CorrespondsKept, Zenon
  <2>9. Corresponds(c, in, new, t + 1)
    <3> DEFINE added == IF c.mode = "ecb" THEN Zeroed(CipherBlockSize) ELSE last
    <3>1. c.mode = "cbc" =>
            last = Prior(c, IF c.dir = "encrypt" THEN result ELSE in, t + 1)
      BY <1>2, <1>8, <1>9, <2>2, ChainedIs, Zenon
    <3>2. Prior(c, new, t + 1) = Prior(c, result, t + 1)
      <4>1. t + 1 # 1 => (t + 1) - 1 \in 1 .. t
        BY <1>9
      <4>2. t + 1 # 1 => BlockOf(new, (t + 1) - 1) = BlockOf(result, (t + 1) - 1)
        BY <2>6, <4>1, Zenon
      <4> QED BY <4>2, Zenon DEF Prior
    <3>3. c.mode # "ctr" /\ c.dir = "encrypt" => added = Prior(c, new, t + 1)
      <4>1. CASE c.mode = "ecb" BY <4>1, Zenon DEF Prior
      <4>2. CASE c.mode = "cbc" BY <3>1, <3>2, <4>2
      <4> QED BY <2>3, <4>1, <4>2
    <3>4. c.mode # "ctr" /\ c.dir # "encrypt" => added = Prior(c, in, t + 1)
      <4>1. CASE c.mode = "ecb" BY <4>1, Zenon DEF Prior
      <4>2. CASE c.mode = "cbc" BY <3>1, <4>2
      <4> QED BY <2>3, <4>1, <4>2
    <3>5. /\ c.mode = "ctr" => block = StreamBlock(c, in, t + 1)
          /\ Pads(c) => Xor(Deciphered(c, block, ek), added) = BlockOf(in, t + 1)
          /\ Unpads(c) => block = Xor(Deciphered(c, BlockOf(in, t + 1), ek), added)
      BY <2>1, Zenon DEF TurnIs
    <3> HIDE DEF added
    <3>6. Pads(c) => PlainBlock(c, new, t + 1) = BlockOf(in, t + 1)
      <4>1. Pads(c) => c.mode # "ctr" /\ c.dir = "encrypt"
        BY DEF Pads
      <4>2. Pads(c) => added = Prior(c, new, t + 1)
        BY <3>3, <4>1, Zenon
      <4> QED BY <1>8, <2>6, <3>5, <4>2, Zenon DEF PlainBlock
    <3>7. Unpads(c) => BlockOf(new, t + 1) = PlainBlock(c, in, t + 1)
      <4>1. Unpads(c) => c.mode # "ctr" /\ c.dir # "encrypt"
        BY DEF Unpads
      <4>2. Unpads(c) => added = Prior(c, in, t + 1)
        BY <3>4, <4>1, Zenon
      <4> QED BY <1>8, <2>6, <3>5, <4>2, Zenon DEF PlainBlock
    <3> QED BY <2>6, <3>5, <3>6, <3>7, Zenon DEF Corresponds
  <2>10. \A j \in 1 .. t + 1 : Corresponds(c, in, new, j)
    <3>1. \A j \in 1 .. t + 1 : j \in 1 .. t \/ j = t + 1
      BY <1>9
    <3> QED BY <2>8, <2>9, <3>1, Zenon
  <2>11. next = Chained(c, in, new, t + 1)
    <3>1. next = IF c.mode # "cbc" THEN last
                 ELSE IF c.dir = "encrypt" THEN block ELSE BlockOf(in, t + 1)
      BY <2>1, Zenon DEF TurnIs
    <3>2. t + 1 # 0 BY <1>9
    <3>3. c.mode # "cbc" => last = c.iv
      BY <2>2, Zenon DEF Chained
    <3> QED BY <2>6, <3>1, <3>2, <3>3, Zenon DEF Chained
  <2>12. After(result, put) = new /\ ~(failed \/ put = NULL \/ Failing(results)) /\ Len(new) = Len(in)
    BY <1>11, <2>2, <2>4, <2>6, <2>7, Zenon DEF After
  <2>14. ~failed2 BY <1>5, <2>12, Zenon
  <2>15. PICK u : u = t + 1 OBVIOUS
  <2>16. u \in 0 .. Turns(c) /\ next = Chained(c, in, new, u)
         /\ \A j \in 1 .. u : Corresponds(c, in, new, j)
    BY <1>9, <2>10, <2>11, <2>15, Zenon
  <2>17. LoopIs(c, ek, in, new, next, u, failed2, starving2)
    BY <1>8, <2>6, <2>12, <2>14, <2>16, Zenon DEF LoopIs
  <2> QED BY <2>12, <2>15, <2>17, Zenon
<1> QED BY <1>10, <1>11

(* The block of a turn that is not the last one of ctr. *)
LEMMA FullBlock ==
    ASSUME LoopInv, pc = "loop", call.mode # "ctr", turn < Nblock
    PROVE  /\ turn < Turns(call) /\ HasBlock(Len(input), turn, CipherBlockSize)
           /\ BlockOf(input, turn + 1) \in Block /\ BlockOf(input, turn + 1) # NULL
           /\ BlockOfInput = BlockOf(input, turn + 1)
<1>1. /\ IsCall(call) /\ ~Refuses(call) /\ input = InputOf(call)
      /\ input \in Seq(Byte) /\ Len(input) < SizeWrap
      /\ turn \in Nat /\ Offset = CipherBlockSize * turn
      /\ Turns(call) = Nblock + (IF call.mode = "ctr" THEN 1 ELSE 0) /\ Nblock \in Nat
  BY LoopFacts
<1>2. turn < Turns(call) BY <1>1
<1>3. HasBlock(Len(input), turn, CipherBlockSize)
  BY <1>1, <1>2, BlockOfTurn
<1>4. BlockOf(input, turn + 1) \in Block /\ BlockOfInput = BlockOf(input, turn + 1)
  BY <1>1, <1>3, SliceIsBlock DEF BlockOfInput, Block
<1> QED BY <1>2, <1>3, <1>4, BlockIs

(* The turns of ecb_encrypt() and ecb_decrypt() keep it. *)
LEMMA EcbKeepsInv ==
    ASSUME LoopInv, EcbEncryptBlock \/ EcbDecryptBlock
    PROVE  LoopInv'
<1>1. PICK block, crypted :
        /\ pc = "loop" /\ call.mode = "ecb" /\ turn < Nblock
        /\ block \in {NULL, BlockOfInput}
        /\ crypted = IF call.dir = "encrypt" THEN Enciphered(call, block, expkey)
                     ELSE Deciphered(call, block, expkey)
        /\ Turn(<<crypted>>, Put(out, Offset, After(block, crypted)))
        /\ broke' = (broke \/ block = NULL)
        /\ prev' = prev
  <2>1. CASE EcbEncryptBlock
    <3>1. call.dir = "encrypt"
      BY <2>1 DEF EcbEncryptBlock, EcbBlock, InLoop
    <3> QED BY <2>1, <3>1 DEF EcbEncryptBlock, EcbBlock, InLoop, MayFail
  <2>2. CASE EcbDecryptBlock
    <3>1. call.dir # "encrypt"
      BY <2>2 DEF EcbDecryptBlock, EcbBlock, InLoop
    <3> QED BY <2>2, <3>1 DEF EcbDecryptBlock, EcbBlock, InLoop, MayFail
  <2> QED BY <2>1, <2>2
<1>2. /\ IsCall(call) /\ ~Refuses(call) /\ expkey = ExpandedKey(call) /\ turn \in Nat
      /\ CipherBlockSize \in Nat
  BY <1>1, LoopFacts DEF CipherBlockSize
<1>3. /\ turn < Turns(call) /\ HasBlock(Len(input), turn, CipherBlockSize)
      /\ BlockOf(input, turn + 1) \in Block /\ BlockOf(input, turn + 1) # NULL
      /\ BlockOfInput = BlockOf(input, turn + 1)
  <2>1. call.mode # "ctr" BY <1>1
  <2> QED BY <1>1, <2>1, FullBlock
<1>4. CASE block = NULL
  <2>1. crypted = NULL
    BY <1>1, <1>4, NothingOfNull, Zenon
  <2>2. Failing(<<crypted>>) /\ broke'
    BY <1>1, <1>4, <2>1, FailingIs
  <2> QED BY <1>1, <1>2, <1>3, <2>2, TurnKeepsInv
<1>5. CASE block # NULL
  <2>1. block = BlockOf(input, turn + 1)
    BY <1>1, <1>3, <1>5
  <2>2. crypted \in Block /\ TurnIs(call, expkey, input, prev, turn, CipherBlockSize, crypted, prev)
    BY <1>1, <1>2, <1>3, <2>1, EcbTurn
  <2>3. crypted # NULL /\ ~Failing(<<crypted>>) /\ After(block, crypted) = crypted
    BY <2>2, BlockIs, FailingIs DEF After
  <2>4. /\ ~Failing(<<crypted>>) /\ broke => broke'
        /\ TurnIs(call, expkey, input, prev, turn, CipherBlockSize, crypted, prev')
        /\ Turn(<<crypted>>, Put(out, Offset, crypted))
    BY <1>1, <2>2, <2>3
  <2> QED BY <1>1, <1>2, <1>3, <2>3, <2>4, TurnKeepsInv
<1> QED BY <1>4, <1>5

(* The turns of cbc_encrypt() keep it. *)
LEMMA CbcEncryptKeepsInv ==
    ASSUME LoopInv, CbcEncryptBlock
    PROVE  LoopInv'
<1>1. PICK block, xored, added, crypted, computed :
        /\ pc = "loop" /\ call.mode = "cbc" /\ call.dir = "encrypt" /\ turn < Nblock
        /\ block \in {NULL, BlockOfInput}
        /\ xored = Xor(block, prev) /\ added = After(block, xored)
        /\ crypted = Enciphered(call, added, expkey) /\ computed = After(added, crypted)
        /\ Turn(<<xored, crypted>>, Put(out, Offset, computed))
        /\ prev' = computed
        /\ broke' = (broke \/ block = NULL)
  BY DEF CbcEncryptBlock, InLoop, MayFail
<1>2. /\ IsCall(call) /\ ~Refuses(call) /\ expkey = ExpandedKey(call) /\ turn \in Nat
      /\ CipherBlockSize \in Nat
  BY <1>1, LoopFacts DEF CipherBlockSize
<1>3. /\ turn < Turns(call) /\ HasBlock(Len(input), turn, CipherBlockSize)
      /\ BlockOf(input, turn + 1) \in Block /\ BlockOf(input, turn + 1) # NULL
      /\ BlockOfInput = BlockOf(input, turn + 1)
  <2>1. call.mode # "ctr" BY <1>1
  <2> QED BY <1>1, <2>1, FullBlock
<1>4. broke => broke' BY <1>1
<1>5. CASE err BY <1>1, <1>2, <1>3, <1>4, <1>5, TurnKeepsInv
<1>6. CASE block = NULL
  <2>1. xored = NULL
    BY <1>1, <1>6, NothingOfNull, Zenon
  <2>2. Failing(<<xored, crypted>>) /\ broke'
    BY <1>1, <1>6, <2>1, FailingIs
  <2> QED BY <1>1, <1>2, <1>3, <1>4, <2>2, TurnKeepsInv
<1>7. CASE ~err /\ block # NULL
  <2>1. block = BlockOf(input, turn + 1)
    BY <1>1, <1>3, <1>7
  <2>2. IvFits(call) BY <1>1, <1>2 DEF Refuses
  <2>3. prev \in Block
    <3>1. /\ out \in Seq(Byte) /\ Len(out) = Len(InputOf(call))
          /\ prev = Chained(call, InputOf(call), out, turn)
      BY <1>1, <1>7, LoopFacts
    <3> QED BY <1>1, <1>2, <1>3, <2>2, <3>1, ChainedIs
  <2>4. xored \in Block
    BY <1>1, <1>2, <1>3, <2>1, <2>3, CbcEncryptTurn
  <2>5. added = xored
    BY <1>1, <2>4, BlockIs DEF After
  <2>6. crypted = Enciphered(call, Xor(BlockOf(input, turn + 1), prev), ExpandedKey(call))
    BY <1>1, <1>2, <2>1, <2>5
  <2>7. /\ crypted \in Block
        /\ TurnIs(call, expkey, input, prev, turn, CipherBlockSize, crypted, crypted)
    BY <1>1, <1>2, <1>3, <2>3, <2>6, CbcEncryptTurn
  <2>8. computed = crypted
    BY <1>1, <2>7, BlockIs DEF After
  <2>9. xored # NULL /\ crypted # NULL
    BY <2>4, <2>7, BlockIs
  <2>10. ~Failing(<<xored, crypted>>)
    BY <2>9, FailingIs
  <2>11. /\ TurnIs(call, expkey, input, prev, turn, CipherBlockSize, computed, prev')
    BY <1>1, <2>7, <2>8
  <2> QED BY <1>1, <1>2, <1>3, <1>4, <2>10, <2>11, TurnKeepsInv
<1> QED BY <1>5, <1>6, <1>7

(* The turns of cbc_decrypt() keep it. *)
LEMMA CbcDecryptKeepsInv ==
    ASSUME LoopInv, CbcDecryptBlock
    PROVE  LoopInv'
<1>1. PICK ctblock, ptblock, crypted, decrypted, xored, plain :
        /\ pc = "loop" /\ call.mode = "cbc" /\ call.dir = "decrypt" /\ turn < Nblock
        /\ ctblock \in {NULL, BlockOfInput} /\ ptblock \in {NULL, ctblock}
        /\ crypted = Deciphered(call, ptblock, expkey) /\ decrypted = After(ptblock, crypted)
        /\ xored = Xor(decrypted, prev) /\ plain = After(decrypted, xored)
        /\ Turn(<<crypted, xored>>, Put(out, Offset, plain))
        /\ prev' = ctblock
        /\ broke' = (broke \/ ptblock = NULL)
  BY DEF CbcDecryptBlock, InLoop, MayFail, Dup
<1>2. /\ IsCall(call) /\ ~Refuses(call) /\ expkey = ExpandedKey(call) /\ turn \in Nat
      /\ CipherBlockSize \in Nat
  BY <1>1, LoopFacts DEF CipherBlockSize
<1>3. /\ turn < Turns(call) /\ HasBlock(Len(input), turn, CipherBlockSize)
      /\ BlockOf(input, turn + 1) \in Block /\ BlockOf(input, turn + 1) # NULL
      /\ BlockOfInput = BlockOf(input, turn + 1)
  <2>1. call.mode # "ctr" BY <1>1
  <2> QED BY <1>1, <2>1, FullBlock
<1>4. broke => broke' BY <1>1
<1>5. CASE err BY <1>1, <1>2, <1>3, <1>4, <1>5, TurnKeepsInv
<1>6. CASE ptblock = NULL
  <2>1. crypted = NULL
    BY <1>1, <1>6, NothingOfNull, Zenon
  <2>2. Failing(<<crypted, xored>>) /\ broke'
    BY <1>1, <1>6, <2>1, FailingIs
  <2> QED BY <1>1, <1>2, <1>3, <1>4, <2>2, TurnKeepsInv
<1>7. CASE ~err /\ ptblock # NULL
  <2>1. ptblock = BlockOf(input, turn + 1) /\ ctblock = BlockOf(input, turn + 1)
    BY <1>1, <1>3, <1>7
  <2>2. \/ prev \in Block
        \/ ~IvFits(call) /\ (prev = NULL \/ Len(prev) # CipherBlockSize)
    <3>1. /\ out \in Seq(Byte) /\ Len(out) = Len(InputOf(call))
          /\ prev = Chained(call, InputOf(call), out, turn)
      BY <1>1, <1>7, LoopFacts
    <3> QED BY <1>1, <1>2, <1>3, <3>1, ChainedIs
  <2>3. decrypted \in Block /\ decrypted = crypted /\ crypted # NULL
    <3>1. ExpandedKey(call) # NULL BY <1>2, InputIs
    <3>2. crypted \in Block
      BY <1>1, <1>2, <1>3, <2>1, <3>1, CipherIs
    <3> QED BY <1>1, <3>2, BlockIs DEF After
  <2>4. CASE prev \in Block
    <3>1. xored = Xor(Deciphered(call, BlockOf(input, turn + 1), ExpandedKey(call)), prev)
      BY <1>1, <1>2, <2>1, <2>3
    <3>2. /\ xored \in Block
          /\ TurnIs(call, expkey, input, prev, turn, CipherBlockSize, xored, BlockOf(input, turn + 1))
      BY <1>1, <1>2, <1>3, <2>4, <3>1, CbcDecryptTurn
    <3>3. plain = xored
      BY <1>1, <3>2, BlockIs DEF After
    <3>4. ~Failing(<<crypted, xored>>)
      BY <2>3, <3>2, BlockIs, FailingIs
    <3>5. TurnIs(call, expkey, input, prev, turn, CipherBlockSize, plain, prev')
      BY <1>1, <2>1, <3>2, <3>3
    <3> QED BY <1>1, <1>2, <1>3, <1>4, <3>4, <3>5, TurnKeepsInv
  <2>5. CASE ~IvFits(call) /\ (prev = NULL \/ Len(prev) # CipherBlockSize)
    <3>1. xored = NULL
      <4>1. Len(decrypted) = CipherBlockSize
        BY <2>3, BlockIs
      <4> QED BY <1>1, <2>5, <4>1, XorFits
    <3>2. Failing(<<crypted, xored>>)
      BY <3>1, FailingIs
    <3> QED BY <1>1, <1>2, <1>3, <1>4, <2>5, <3>2, TurnKeepsInv
  <2> QED BY <2>2, <2>4, <2>5
<1> QED BY <1>5, <1>6, <1>7

(* The turns of ctr_crypt() keep it. *)
LEMMA CtrKeepsInv ==
    ASSUME LoopInv, CtrBlock
    PROVE  LoopInv'
<1>1. PICK m, stream, block, mask, xored :
        /\ pc = "loop" /\ call.mode = "ctr" /\ turn <= Nblock
        /\ m = IF turn = Nblock THEN Len(input) % CipherBlockSize ELSE CipherBlockSize
        /\ stream = Enciphered(call, prev \o LittleEndian(turn), expkey)
        /\ block \in {NULL, Slice(input, Offset, m)}
        /\ mask \in (IF CipherBlockSize > m THEN {NULL, Slice(stream, 0, m)} ELSE {stream})
        /\ xored = Xor(block, mask)
        /\ Turn(<<stream, xored>>, Put(out, Offset, After(block, xored)))
        /\ prev' = prev
        /\ broke' = (broke \/ block = NULL \/ mask = NULL)
  BY DEF CtrBlock, MayFail
<1>2. /\ IsCall(call) /\ ~Refuses(call) /\ expkey = ExpandedKey(call) /\ turn \in Nat
      /\ input = InputOf(call) /\ input \in Seq(Byte) /\ Len(input) < SizeWrap
      /\ Offset = CipherBlockSize * turn
  BY <1>1, LoopFacts
<1>3. turn < Turns(call) BY <1>1, LoopFacts
<1>4. m \in Nat /\ HasBlock(Len(input), turn, m)
  BY <1>1, <1>2, <1>3, BlockOfTurn DEF Nblock
<1>5. m \in 0 .. CipherBlockSize /\ m <= CipherBlockSize
  BY <1>4 DEF HasBlock, CipherBlockSize
<1>6. Slice(input, Offset, m) = BlockOf(input, turn + 1) /\ BlockOf(input, turn + 1) \in [1 .. m -> Byte]
  BY <1>2, <1>4, SliceIsBlock
<1>7. broke => broke' BY <1>1
<1>8. CASE err BY <1>1, <1>2, <1>3, <1>4, <1>7, <1>8, TurnKeepsInv
<1>9. CASE block = NULL \/ mask = NULL
  <2>1. xored = NULL
    BY <1>1, <1>9, NothingOfNull, Zenon
  <2>2. Failing(<<stream, xored>>) /\ broke'
    BY <1>1, <1>9, <2>1, FailingIs
  <2> QED BY <1>1, <1>2, <1>3, <1>4, <1>7, <2>2, TurnKeepsInv
<1>10. CASE ~err /\ block # NULL /\ mask # NULL
  <2>1. block = BlockOf(input, turn + 1)
    BY <1>1, <1>6, <1>10
  <2>2. mask = IF CipherBlockSize > m THEN Slice(stream, 0, m) ELSE stream
    BY <1>1, <1>10
  <2>3. prev = call.iv
    <3>1. prev = Chained(call, InputOf(call), out, turn)
      BY <1>1, <1>10, LoopFacts
    <3> QED BY <1>1, <3>1 DEF Chained
  <2>4. /\ stream \in Block /\ xored # NULL
        /\ TurnIs(call, expkey, input, prev, turn, m, xored, prev)
    <3>1. PICK c, in, last, t : c = call /\ in = input /\ last = prev /\ t = turn
      OBVIOUS
    <3>2. /\ IsCall(c) /\ ~Refuses(c) /\ c.mode = "ctr" /\ last = c.iv /\ t \in Nat
          /\ BlockOf(in, t + 1) \in [1 .. m -> Byte]
          /\ stream = Enciphered(c, last \o LittleEndian(t), ExpandedKey(c))
      BY <1>1, <1>2, <1>6, <2>3, <3>1, Zenon
    <3>3. LET b == Xor(BlockOf(in, t + 1), mask)
          IN  /\ stream \in Block /\ mask # NULL /\ b \in [1 .. m -> Byte] /\ b # NULL
              /\ TurnIs(c, ExpandedKey(c), in, last, t, m, b, last)
      BY <1>5, <2>2, <3>2, CtrTurn
    <3> QED BY <1>1, <1>2, <2>1, <3>1, <3>3, Zenon
  <2>5. ~Failing(<<stream, xored>>)
    BY <2>4, BlockIs, FailingIs
  <2>6. After(block, xored) = xored
    BY <2>4 DEF After
  <2>7. TurnIs(call, expkey, input, prev, turn, m, xored, prev')
    BY <1>1, <2>4
  <2>8. Turn(<<stream, xored>>, Put(out, Offset, xored))
    BY <1>1, <2>6
  <2> QED BY <1>1, <1>2, <1>3, <1>4, <1>7, <2>5, <2>7, <2>8, TurnKeepsInv
<1> QED BY <1>8, <1>9, <1>10

(* What a call returns. *)

(* The definition of Plain by its blocks. *)
LEMMA PlainIs ==
    ASSUME NEW c, NEW d, d.mode = c.mode, d.impl = c.impl, d.key = c.key, d.iv = c.iv
    PROVE  Plain(d) =
             Joined([j \in 1 .. Len(d.text) \div CipherBlockSize |-> PlainBlock(c, d.text, j)])
<1>1. PICK s : s = d.text OBVIOUS
<1>2. ExpandedKey(d) = ExpandedKey(c) /\ \A x, y : Deciphered(d, x, y) = Deciphered(c, x, y)
  BY DEF ExpandedKey, Deciphered
<1>3. \A j : PlainBlock(c, s, j) =
              Xor(Deciphered(d, BlockOf(s, j), ExpandedKey(d)),
                  IF d.mode = "ecb" THEN Zeroed(CipherBlockSize)
                  ELSE IF j = 1 THEN d.iv ELSE BlockOf(s, j - 1))
  BY <1>2, Zenon DEF PlainBlock, Prior
<1> QED BY <1>1, <1>3, Zenon DEF Plain

(* Whole blocks cover a text that is whole blocks, and one more, unless
   it is whole blocks, any text. *)
LEMMA WholeBlocks ==
    ASSUME NEW len \in Nat
    PROVE  /\ len \div CipherBlockSize \in Nat
           /\ len % CipherBlockSize = 0 => Covers(len \div CipherBlockSize, len)
           /\ LET n == (len + CipherBlockSize - 1) \div CipherBlockSize
              IN  n \in Nat /\ Covers(n, len) /\ n <= (len \div CipherBlockSize) + 1
<1>1. /\ len \div 16 \in Nat /\ len % 16 \in 0 .. 15
      /\ len = 16 * (len \div 16) + (len % 16)
  OBVIOUS
<1>2. len % 16 = 0 => Covers(len \div 16, len)
  BY <1>1 DEF Covers, CipherBlockSize
<1>3. PICK n : n = (len + 16 - 1) \div 16 OBVIOUS
<1>4. n \in Nat /\ 16 * n <= len + 15 /\ len + 15 < 16 * n + 16
  BY <1>3
<1>5. Covers(n, len) /\ n <= (len \div 16) + 1
  BY <1>1, <1>4 DEF Covers, CipherBlockSize
<1> QED BY <1>1, <1>2, <1>3, <1>4, <1>5 DEF CipherBlockSize

(* What a loop has made when it ends without an error. *)
Corresponding(c, result) ==
    /\ result \in Seq(Byte) /\ Len(result) = Len(InputOf(c))
    /\ \A j \in 1 .. Turns(c) : Corresponds(c, InputOf(c), result, j)

(* Decrypted by the definition, what was encrypted is the padded text. *)
LEMMA EncryptedIs ==
    ASSUME NEW c, IsCall(c), ~Refuses(c), Pads(c), NEW result, Corresponding(c, result),
           NEW d, d.mode = c.mode, d.impl = c.impl, d.key = c.key, d.iv = c.iv, d.text = result
    PROVE  Plain(d) = InputOf(c)
<1>1. PICK in : in = InputOf(c) OBVIOUS
<1>2. c.mode # "ctr" BY DEF Pads
<1>3. in \in Seq(Byte) /\ Len(in) % CipherBlockSize = 0
  BY <1>1, <1>2, InputIs
<1>4. PICK n \in Nat : n = Len(in) \div CipherBlockSize BY <1>3, WholeBlocks
<1>5. Covers(n, Len(in)) BY <1>3, <1>4, WholeBlocks
<1>6. n = Turns(c) BY <1>1, <1>2, <1>4 DEF Turns
<1>7. \A j \in 1 .. n : PlainBlock(c, result, j) = BlockOf(in, j)
  BY <1>1, <1>6, Zenon DEF Corresponding, Corresponds
<1>8. Plain(d) = Joined([j \in 1 .. Len(d.text) \div CipherBlockSize |-> PlainBlock(c, d.text, j)])
  BY PlainIs
<1>9. Len(d.text) \div CipherBlockSize = n
  BY <1>1, <1>4 DEF Corresponding
<1>10. Plain(d) = Joined([j \in 1 .. n |-> BlockOf(in, j)])
  BY <1>7, <1>8, <1>9, Zenon
<1>11. Joined([j \in 1 .. n |-> BlockOf(in, j)]) = in
  BY <1>3, <1>5, JoinedBlocks
<1> QED BY <1>1, <1>10, <1>11, Zenon

(* What was decrypted is so by the definition. *)
LEMMA DecryptedIs ==
    ASSUME NEW c, IsCall(c), ~Refuses(c), Unpads(c), NEW result, Corresponding(c, result)
    PROVE  Plain(c) = result
<1>1. c.mode # "ctr" /\ ~Pads(c) BY DEF Pads, Unpads
<1>2. InputOf(c) = c.text /\ c.text \in Seq(Byte) /\ Len(c.text) % CipherBlockSize = 0
  BY <1>1, InputIs DEF InputOf
<1>3. result \in Seq(Byte) /\ Len(result) = Len(c.text)
  BY <1>2 DEF Corresponding
<1>4. PICK n \in Nat : n = Len(c.text) \div CipherBlockSize /\ Covers(n, Len(c.text))
  <2>1. PICK len \in Nat : len = Len(c.text) BY <1>2
  <2> QED BY <1>2, <2>1, WholeBlocks
<1>5. Covers(n, Len(result)) BY <1>3, <1>4, Zenon
<1>6. n = Turns(c) BY <1>1, <1>2, <1>4 DEF Turns
<1>7. \A j \in 1 .. n : BlockOf(result, j) = PlainBlock(c, c.text, j)
  BY <1>2, <1>6, Zenon DEF Corresponding, Corresponds
<1>8. Plain(c) = Joined([j \in 1 .. Len(c.text) \div CipherBlockSize |-> PlainBlock(c, c.text, j)])
  BY PlainIs
<1>9. Plain(c) = Joined([j \in 1 .. n |-> BlockOf(result, j)])
  BY <1>4, <1>7, <1>8, Zenon
<1>10. Joined([j \in 1 .. n |-> BlockOf(result, j)]) = result
  BY <1>3, <1>5, JoinedBlocks
<1> QED BY <1>9, <1>10, Zenon

(* What ctr returns is the text and the stream. *)
LEMMA StreamedIs ==
    ASSUME NEW c, IsCall(c), ~Refuses(c), c.mode = "ctr", NEW result, Corresponding(c, result)
    PROVE  Streamed(c) = result
<1>1. InputOf(c) = c.text /\ c.text \in Seq(Byte)
  BY InputIs DEF InputOf, Pads
<1>2. result \in Seq(Byte) /\ Len(result) = Len(c.text)
  BY <1>1 DEF Corresponding
<1>3. PICK n \in Nat : /\ n = (Len(c.text) + CipherBlockSize - 1) \div CipherBlockSize
                      /\ Covers(n, Len(c.text)) /\ n <= (Len(c.text) \div CipherBlockSize) + 1
                      /\ Len(c.text) \div CipherBlockSize \in Nat
  <2>1. PICK len \in Nat : len = Len(c.text) BY <1>1
  <2> QED BY <2>1, WholeBlocks
<1>4. Covers(n, Len(result)) BY <1>2, <1>3, Zenon
<1>5. n <= Turns(c) /\ Turns(c) \in Nat
  <2>1. Turns(c) = (Len(c.text) \div CipherBlockSize) + 1
    BY <1>1 DEF Turns
  <2> QED BY <1>3, <2>1
<1>6. \A j \in 1 .. n : BlockOf(result, j) = StreamBlock(c, c.text, j)
  <2>1. \A j \in 1 .. n : j \in 1 .. Turns(c)
    BY <1>5
  <2> QED BY <1>1, <2>1, Zenon DEF Corresponding, Corresponds
<1>7. Streamed(c) = Joined([j \in 1 .. n |-> StreamBlock(c, c.text, j)])
  BY <1>3, Zenon DEF Streamed, StreamBlock
<1>8. Streamed(c) = Joined([j \in 1 .. n |-> BlockOf(result, j)])
  BY <1>6, <1>7, Zenon
<1>9. Joined([j \in 1 .. n |-> BlockOf(result, j)]) = result
  BY <1>2, <1>4, JoinedBlocks
<1> QED BY <1>8, <1>9, Zenon

(* What is decrypted was the plaintext s. *)
SentIs(d, s) ==
    /\ s \in Seq(Byte) /\ d.dir = "decrypt" /\ ~Refuses(d)
    /\ d.mode = "cbc" => IvFits(d)
    /\ d.mode = "ctr" => /\ Len(s) = Len(d.text)
                         /\ \A j \in 1 .. Turns(d) : BlockOf(d.text, j) = StreamBlock(d, s, j)
    /\ d.mode # "ctr" => IsPaddingOf(Plain(d), s) /\ Len(Plain(d)) = Len(d.text)

(* A call that decrypts what another encrypted. *)
Answers(d, c, result) ==
    /\ d = [mode |-> d.mode, dir |-> d.dir, impl |-> d.impl, text |-> d.text, key |-> d.key, iv |-> d.iv]
    /\ d.mode = c.mode /\ d.dir = "decrypt" /\ d.impl = c.impl
    /\ d.text = result /\ d.key = c.key /\ d.iv = c.iv

(* It is sent what was encrypted. *)
LEMMA AnswerIs ==
    ASSUME NEW c, IsCall(c), ~Refuses(c), c.dir = "encrypt", NEW result, Corresponding(c, result),
           NEW d, Answers(d, c, result)
    PROVE  IsCall(d) /\ SentIs(d, c.text)
<1>2. /\ d.mode = c.mode /\ d.dir = "decrypt" /\ d.impl = c.impl
      /\ d.text = result /\ d.key = c.key /\ d.iv = c.iv
      /\ d = [mode |-> d.mode, dir |-> d.dir, impl |-> d.impl, text |-> d.text, key |-> d.key, iv |-> d.iv]
  BY DEF Answers
<1>3. /\ c.text \in Seq(Byte) /\ ExpandedKey(c) # NULL
      /\ InputOf(c) \in Seq(Byte) /\ Len(InputOf(c)) < SizeWrap
      /\ c.mode # "ctr" => Len(InputOf(c)) % CipherBlockSize = 0
      /\ c.mode \in {"ecb", "cbc", "ctr"}
  BY InputIs
<1>4. result \in Seq(Byte) /\ Len(result) = Len(InputOf(c)) /\ result # NULL
  BY BytesAssumption DEF Corresponding
<1>5. IsCall(d)
  <2>1. d \in [mode : {"ecb", "cbc", "ctr"}, dir : {"encrypt", "decrypt"}, impl : {"aes_128", "nope"},
               text : Seq(Byte) \cup {NULL}, key : Seq(Byte) \cup {NULL}, iv : Seq(Byte) \cup {NULL}]
    BY <1>2, <1>4 DEF IsCall
  <2>2. d.mode = "ctr" => d.iv # NULL /\ Len(d.iv) = 8
    BY <1>2 DEF IsCall
  <2>3. Len(d.text) + (IF Pads(d) THEN CipherBlockSize ELSE 0) < SizeWrap
    <3>1. ~Pads(d) /\ Len(d.text) < SizeWrap /\ Len(d.text) \in Nat
      BY <1>2, <1>3, <1>4 DEF Pads
    <3> QED BY <3>1
  <2> QED BY <2>1, <2>2, <2>3 DEF IsCall
<1>6. ExpandedKey(d) = ExpandedKey(c)
  BY <1>2, Zenon DEF ExpandedKey
<1>7. ~Refuses(d)
  <2>1. ~(Unpads(d) /\ Len(d.text) % CipherBlockSize # 0)
    BY <1>2, <1>3, <1>4 DEF Unpads
  <2>2. d.dir # "encrypt" /\ d.text # NULL /\ ExpandedKey(d) # NULL
    BY <1>2, <1>3, <1>4, <1>6
  <2> QED BY <2>1, <2>2 DEF Refuses
<1>8. d.mode = "cbc" => IvFits(d)
  BY <1>2 DEF Refuses, IvFits
<1>9. ASSUME d.mode = "ctr"
      PROVE  /\ Len(c.text) = Len(d.text)
             /\ \A j \in 1 .. Turns(d) : BlockOf(d.text, j) = StreamBlock(d, c.text, j)
  <2>1. InputOf(c) = c.text /\ InputOf(d) = d.text
    BY <1>2, <1>9 DEF InputOf, Pads
  <2>2. Len(c.text) = Len(d.text) /\ Turns(d) = Turns(c)
    <3>1. Len(c.text) = Len(d.text)
      BY <1>2, <1>4, <2>1
    <3> QED BY <1>2, <2>1, <3>1 DEF Turns
  <2>3. \A j : StreamBlock(d, c.text, j) = StreamBlock(c, c.text, j)
    BY <1>2, <1>6, Zenon DEF StreamBlock, Enciphered
  <2>4. \A j \in 1 .. Turns(c) : BlockOf(result, j) = StreamBlock(c, c.text, j)
    BY <1>2, <1>9, <2>1, Zenon DEF Corresponding, Corresponds
  <2> QED BY <1>2, <2>2, <2>3, <2>4, Zenon
<1>10. ASSUME d.mode # "ctr"
       PROVE  IsPaddingOf(Plain(d), c.text) /\ Len(Plain(d)) = Len(d.text)
  <2>1. Pads(c) BY <1>2, <1>10 DEF Pads
  <2>2. Plain(d) = InputOf(c)
    BY <1>2, <2>1, EncryptedIs
  <2>3. InputOf(c) = Pkcs7Padded(c.text, CipherBlockSize)
    BY <2>1 DEF InputOf
  <2>4. IsPaddingOf(Pkcs7Padded(c.text, CipherBlockSize), c.text)
    BY <1>3, PaddedIsPadding
  <2> QED BY <1>2, <1>4, <2>2, <2>3, <2>4, Zenon
<1>11. SentIs(d, c.text)
  BY <1>2, <1>3, <1>7, <1>8, <1>9, <1>10, Zenon DEF SentIs
<1> QED BY <1>5, <1>11

(* The reply of a caller of the modes. *)
LEMMA ReplyIs ==
    ASSUME NEW c, IsCall(c), ~Refuses(c), c.dir = "encrypt", NEW result, Corresponding(c, result)
    PROVE  /\ IsCall([c EXCEPT !.dir = "decrypt", !.text = result])
           /\ SentIs([c EXCEPT !.dir = "decrypt", !.text = result], c.text)
<1>1. PICK d : d = [c EXCEPT !.dir = "decrypt", !.text = result] OBVIOUS
<1>2. d.mode = c.mode /\ d.dir = "decrypt" /\ d.impl = c.impl /\ d.text = result /\ d.key = c.key /\ d.iv = c.iv
  BY <1>1 DEF IsCall
<1>3. d = [mode |-> d.mode, dir |-> d.dir, impl |-> d.impl, text |-> d.text, key |-> d.key, iv |-> d.iv]
  BY <1>1 DEF IsCall
<1>4. Answers(d, c, result)
  BY <1>2, <1>3 DEF Answers
<1> QED BY <1>1, <1>4, AnswerIs, Zenon

(* A call reaches its loop with nothing done, or has returned NULL. *)
LEMMA EnterIs ==
    ASSUME NEW c, IsCall(c), NEW s, Enter(c, s)
    PROVE  /\ LoopInv' /\ call' = c /\ sent' = s /\ pc' \in {"loop", "done"}
           /\ pc' = "done" => ret' = NULL /\ (broke' \/ Refuses(c))
           /\ pc' = "loop" => ~Refuses(c)
<1>1. call' = c /\ sent' = s BY DEF Enter
<1>2. CASE pc' = "done"
  <2>1. ret' = NULL /\ (broke' \/ Refuses(c))
    BY <1>2 DEF Enter, Returns
  <2>2. LoopInv' BY <1>2 DEF LoopInv
  <2> QED BY <1>1, <1>2, <2>1, <2>2
<1>3. CASE pc' # "done"
  <2>1. /\ ~Refuses(c) /\ pc' = "loop" /\ expkey' = ExpandedKey(c)
        /\ input' = InputOf(c) /\ out' = Zeroed(Len(input'))
        /\ prev' = c.iv /\ turn' = 0 /\ err' = FALSE /\ broke' = FALSE
    BY <1>3 DEF Enter, Returns, InputOf
  <2>2. PICK n \in Nat : n = Len(InputOf(c)) BY <2>1, InputIs
  <2>3. PICK z : z = Zeroed(n) OBVIOUS
  <2>4. z \in Seq(Byte) /\ Len(z) = n
    <3>1. z \in [1 .. n -> Byte]
      BY <2>3 DEF Zeroed, Repeated, Byte
    <3> QED BY <3>1, TextOfLength
  <2>5. c.iv = Chained(c, InputOf(c), z, 0)
    BY DEF Chained
  <2>6. 0 \in 0 .. Turns(c)
    BY <2>2 DEF Turns, CipherBlockSize
  <2>7. \A j \in 1 .. 0 : Corresponds(c, InputOf(c), z, j) OBVIOUS
  <2>8. LoopIs(c, ExpandedKey(c), InputOf(c), z, c.iv, 0, FALSE, FALSE)
    BY <2>1, <2>2, <2>4, <2>5, <2>6, <2>7, Zenon DEF LoopIs
  <2>9. LoopIs(call', expkey', input', out', prev', turn', err', broke')
    BY <1>1, <2>1, <2>2, <2>3, <2>8
  <2> QED BY <1>1, <1>3, <2>1, <2>9 DEF LoopInv
<1> QED BY <1>2, <1>3

DoneInv ==
    pc = "done" =>
        /\ IsCall(call)
        /\ ret # NULL => /\ ~Refuses(call)
                         /\ ~Unpads(call) => Corresponding(call, ret)
                         /\ ret \in Seq(Byte)

SentInv == pc \in {"loop", "done"} /\ sent # NULL => SentIs(call, sent)

(* What is returned after the loop is whole, or NULL with its cause. *)
LEMMA FinishIs ==
    ASSUME LoopInv, ErrIsKept, Finish
    PROVE  DoneInv' /\ ModesWholeOrNull'
<1>1. LoopIs(call, expkey, input, out, prev, turn, err, broke)
  BY DEF LoopInv, Finish, LoopEnds
<1>2. /\ IsCall(call) /\ ~Refuses(call) /\ input = InputOf(call)
      /\ err /\ ~broke => call.mode = "cbc" /\ ~IvFits(call)
  BY <1>1, Zenon DEF LoopIs
<1>3. call' = call /\ pc' = "done" /\ turn = Turns(call)
  BY <1>2 DEF Finish, LoopEnds, Returns, Turns, Nblock
<1>4. ~err => ~broke
  BY DEF ErrIsKept, Finish, LoopEnds
<1>5. ~err => Corresponding(call, out)
  BY <1>1, <1>3, Zenon DEF LoopIs, Corresponding
<1>6. ret' = NULL => DoneInv'
  BY <1>2, <1>3 DEF DoneInv
<1>7. ret' # NULL /\ ret' \in Seq(Byte) /\ (~Unpads(call) => Corresponding(call, ret')) => DoneInv'
  BY <1>2, <1>3, Zenon DEF DoneInv
<1>8. ASSUME ret' = NULL, broke' \/ (call.mode = "cbc" /\ ~IvFits(call))
      PROVE  ModesWholeOrNull'
  BY <1>3, <1>8 DEF ModesWholeOrNull
<1>9. CASE err
  <2>1. ret' = NULL /\ broke' = broke
    BY <1>9 DEF Finish, Returns
  <2> QED BY <1>2, <1>6, <1>8, <1>9, <2>1
<1>10. CASE ~err /\ ~Unpads(call)
  <2>1. ret' = out /\ broke' = broke
    BY <1>10 DEF Finish, Returns
  <2>2. ret' \in Seq(Byte) /\ ret' # NULL /\ Corresponding(call, ret')
    <3>1. out \in Seq(Byte)
      BY <1>5, <1>10 DEF Corresponding
    <3> QED BY <1>5, <1>10, <2>1, <3>1, BytesAssumption
  <2>3. CASE call.mode = "ctr"
    <3>1. ret' = Streamed(call)
      BY <1>2, <2>2, <2>3, StreamedIs
    <3> QED
      BY <1>3, <1>4, <1>7, <1>10, <2>1, <2>2, <2>3, <3>1 DEF ModesWholeOrNull, Pads, Unpads
  <2>4. CASE call.mode # "ctr"
    <3>1. Pads(call) /\ call.mode \in {"ecb", "cbc", "ctr"}
      BY <1>2, <1>10, <2>4 DEF Pads, Unpads, IsCall
    <3>2. PICK d : d = [call EXCEPT !.text = ret'] OBVIOUS
    <3>3. d.mode = call.mode /\ d.impl = call.impl /\ d.key = call.key /\ d.iv = call.iv /\ d.text = ret'
      BY <1>2, <3>2 DEF IsCall
    <3>4. Plain(d) = InputOf(call)
      BY <1>2, <2>2, <3>1, <3>3, EncryptedIs
    <3>5. InputOf(call) = Pkcs7Padded(call.text, CipherBlockSize)
      BY <3>1 DEF InputOf
    <3>6. IsPaddingOf(Plain(d), call.text)
      <4>1. call.text \in Seq(Byte) BY <1>2, InputIs
      <4> QED BY <3>4, <3>5, <4>1, PaddedIsPadding
    <3>7. IsPaddingOf(Plain([call EXCEPT !.text = ret']), call.text)
      BY <3>2, <3>6, Zenon
    <3>8. DoneInv' BY <1>7, <2>2
    <3> QED
      BY <1>3, <1>4, <1>10, <2>1, <2>2, <2>4, <3>1, <3>7, <3>8 DEF ModesWholeOrNull, Pads, Unpads
  <2> QED BY <2>3, <2>4
<1>11. CASE ~err /\ Unpads(call) /\ ret' = NULL /\ broke' BY <1>6, <1>8, <1>11
<1>12. CASE ~err /\ Unpads(call) /\ ret' = Pkcs7Unpadded(out) /\ broke' = broke
  <2>1. Plain(call) = out
    BY <1>2, <1>5, <1>12, DecryptedIs
  <2>2. out \in Seq(Byte) /\ Len(out) < SizeWrap /\ Len(out) = Len(call.text)
    <3>1. ~Pads(call) BY <1>12 DEF Pads, Unpads
    <3> QED BY <1>2, <1>5, <1>12, <3>1, InputIs DEF Corresponding, InputOf
  <2>3. CASE ret' # NULL
    <3>1. ret' \in Seq(Byte) /\ IsPaddingOf(out, ret')
      BY <1>12, <2>2, <2>3, UnpaddedWas
    <3>2. DoneInv' BY <1>7, <1>12, <2>3, <3>1
    <3>3. IsPaddingOf(Plain(call), ret')
      BY <2>1, <3>1
    <3>4. /\ ret' # NULL /\ ~broke' /\ call'.mode # "ctr" /\ Unpads(call') /\ ~Pads(call')
          /\ IsPaddingOf(Plain(call'), ret')
      BY <1>3, <1>4, <1>12, <2>3, <3>3 DEF Pads, Unpads
    <3>5. ModesWholeOrNull'
      BY <3>4 DEF ModesWholeOrNull
    <3> QED BY <3>2, <3>5
  <2>4. CASE ret' = NULL
    <3>1. ASSUME NEW n \in 0 .. Len(call.text) - 1, IsPaddingOf(out, SubSeq(out, 1, n))
          PROVE  FALSE
      <4>1. PICK s : s = SubSeq(out, 1, n) OBVIOUS
      <4>2. s \in Seq(Byte) BY <2>2, <4>1
      <4>3. Pkcs7Unpadded(out) = s
        BY <2>2, <3>1, <4>1, <4>2, UnpaddedIs
      <4> QED BY <1>12, <2>4, <4>2, <4>3, BytesAssumption
    <3>2. ~\E n \in 0 .. Len(call.text) - 1 : IsPaddingOf(Plain(call), SubSeq(Plain(call), 1, n))
      BY <2>1, <3>1, Zenon
    <3> QED BY <1>3, <1>6, <1>12, <2>4, <3>2, Zenon DEF ModesWholeOrNull
  <2> QED BY <2>3, <2>4
<1> QED BY <1>9, <1>10, <1>11, <1>12 DEF Finish, Returns

(* The stream of a turn of ctr is a block. *)
LEMMA StreamIs ==
    ASSUME NEW c, IsCall(c), ~Refuses(c), c.mode = "ctr", NEW t \in Nat
    PROVE  Enciphered(c, c.iv \o LittleEndian(t), ExpandedKey(c)) \in Block
<1>1. c.iv \in Seq(Byte) /\ Len(c.iv) = 8
  BY DEF IsCall
<1>2. PICK number : number = LittleEndian(t) OBVIOUS
<1>3. number \in Seq(Byte) /\ Len(number) = 8
  <2>1. number \in [1 .. 8 -> Byte]
    BY <1>2, LittleEndianIs
  <2> QED BY <2>1, TextOfLength
<1>4. PICK counter : counter = c.iv \o number OBVIOUS
<1>5. counter \in Block
  <2>1. counter \in Seq(Byte) /\ Len(counter) = Len(c.iv) + Len(number)
    BY <1>1, <1>3, <1>4, Concatenated
  <2>2. Len(counter) = CipherBlockSize
    BY <1>1, <1>3, <2>1 DEF CipherBlockSize
  <2> QED BY <2>1, <2>2, BlockIs
<1>6. ExpandedKey(c) # NULL BY InputIs
<1> QED BY <1>2, <1>4, <1>5, <1>6, CipherIs, Zenon

(* The stream, added twice, gives a block back. *)
LEMMA StreamedTwice ==
    ASSUME NEW c, IsCall(c), ~Refuses(c), c.mode = "ctr", NEW t \in Nat,
           NEW s \in Seq(Byte), NEW m, HasBlock(Len(s), t, m),
           NEW x, BlockOf(x, t + 1) = StreamBlock(c, s, t + 1)
    PROVE  StreamBlock(c, x, t + 1) = BlockOf(s, t + 1)
<1>1. PICK b : b = BlockOf(s, t + 1) OBVIOUS
<1>2. b \in [1 .. m -> Byte] BY <1>1, BlockOfIs
<1>3. m \in Nat /\ m <= CipherBlockSize
  BY DEF HasBlock, CipherBlockSize
<1>4. PICK stream : stream = Enciphered(c, c.iv \o LittleEndian(t), ExpandedKey(c))
  OBVIOUS
<1>5. stream \in Seq(Byte) /\ Len(stream) = CipherBlockSize
  <2>1. stream \in Block BY <1>4, StreamIs
  <2> QED BY <2>1, BlockIs
<1>6. PICK mask : mask = SubSeq(stream, 1, m) OBVIOUS
<1>7. mask \in [1 .. m -> Byte]
  <2>1. mask \in Seq(Byte) /\ Len(mask) = m
    BY <1>3, <1>5, <1>6
  <2> QED BY <1>3, <2>1, TextOfLength
<1>8. PICK y : y = Xor(b, mask) OBVIOUS
<1>9. y \in [1 .. m -> Byte] /\ Xor(y, mask) = b
  BY <1>2, <1>3, <1>7, <1>8, XorIs
<1>10. Len(b) = m /\ Len(y) = m
  BY <1>2, <1>3, <1>9, TextOfLength
<1>11. (t + 1) - 1 = t OBVIOUS
<1>12. StreamBlock(c, s, t + 1) = y
  BY <1>1, <1>4, <1>6, <1>8, <1>10, <1>11, Zenon DEF StreamBlock
<1>13. StreamBlock(c, x, t + 1) = Xor(y, mask)
  BY <1>4, <1>6, <1>10, <1>11, <1>12, Zenon DEF StreamBlock
<1> QED BY <1>1, <1>9, <1>13

(* What ctr makes of what it made of a text is the text. *)
LEMMA StreamedBack ==
    ASSUME NEW c, IsCall(c), ~Refuses(c), c.mode = "ctr", NEW s, SentIs(c, s),
           NEW result, Corresponding(c, result)
    PROVE  result = s
<1>1. InputOf(c) = c.text /\ c.text \in Seq(Byte)
  BY InputIs DEF InputOf, Pads
<1>2. result \in Seq(Byte) /\ Len(result) = Len(c.text)
  BY <1>1 DEF Corresponding
<1>3. s \in Seq(Byte) /\ Len(s) = Len(c.text)
  BY DEF SentIs
<1>4. PICK n \in Nat : /\ Covers(n, Len(c.text)) /\ n <= (Len(c.text) \div CipherBlockSize) + 1
                      /\ Len(c.text) \div CipherBlockSize \in Nat
  <2>1. PICK len \in Nat : len = Len(c.text) BY <1>1
  <2> QED BY <2>1, WholeBlocks
<1>5. n <= Turns(c) /\ Turns(c) \in Nat
  <2>1. Turns(c) = (Len(c.text) \div CipherBlockSize) + 1
    BY <1>1 DEF Turns
  <2> QED BY <1>4, <2>1
<1>6. ASSUME NEW j \in 1 .. n PROVE BlockOf(result, j) = BlockOf(s, j)
  <2>1. PICK t \in Nat : j = t + 1
    <3>1. j - 1 \in Nat /\ j = (j - 1) + 1 OBVIOUS
    <3> QED BY <3>1
  <2>2. t < Turns(c) /\ j \in 1 .. Turns(c)
    BY <1>5, <2>1
  <2>3. PICK m : HasBlock(Len(s), t, m) BY <1>1, <1>3, <2>2, BlockOfTurn
  <2>4. BlockOf(c.text, t + 1) = StreamBlock(c, s, t + 1)
    BY <2>1, <2>2 DEF SentIs
  <2>5. StreamBlock(c, c.text, t + 1) = BlockOf(s, t + 1)
    BY <1>3, <2>3, <2>4, StreamedTwice
  <2>6. BlockOf(result, t + 1) = StreamBlock(c, c.text, t + 1)
    BY <1>1, <2>1, <2>2, Zenon DEF Corresponding, Corresponds
  <2> QED BY <2>1, <2>5, <2>6, Zenon
<1>7. Len(result) = Len(s) /\ Covers(n, Len(result))
  BY <1>2, <1>3, <1>4, Zenon
<1> QED BY <1>2, <1>3, <1>6, <1>7, SameBlocks

(* What is whole and was sent is returned as it was sent. *)
LEMMA GivenBack ==
    ASSUME DoneInv, ModesWholeOrNull, pc = "done", ~broke, NEW s, SentIs(call, s)
    PROVE  ret = s
<1>1. SentIs(call, s) /\ IsCall(call) BY DEF DoneInv
<1>2. /\ s \in Seq(Byte) /\ call.dir = "decrypt" /\ ~Refuses(call)
      /\ call.mode = "cbc" => IvFits(call)
      /\ call.mode # "ctr" => IsPaddingOf(Plain(call), s) /\ Len(Plain(call)) = Len(call.text)
  BY <1>1 DEF SentIs
<1>3. CASE call.mode = "ctr"
  <2>1. ~Unpads(call) BY <1>3 DEF Unpads
  <2>2. ret # NULL
    BY <1>2, <1>3, <2>1 DEF ModesWholeOrNull
  <2>3. Corresponding(call, ret)
    BY <2>1, <2>2 DEF DoneInv
  <2> QED BY <1>1, <1>2, <1>3, <2>3, StreamedBack
<1>4. CASE call.mode # "ctr"
  <2>1. Unpads(call) /\ ~Pads(call)
    BY <1>2, <1>4 DEF Unpads, Pads
  <2>2. Len(call.text) < SizeWrap
    <3>1. call.text \in Seq(Byte) /\ InputOf(call) = call.text
      BY <1>1, <1>2, <2>1, InputIs DEF InputOf
    <3> QED BY <1>1, <1>2, <3>1, InputIs
  <2>3. PICK padded : padded = Plain(call) OBVIOUS
  <2>4. IsPaddingOf(padded, s) /\ Len(padded) = Len(call.text) /\ Len(padded) < SizeWrap
    BY <1>2, <1>4, <2>2, <2>3
  <2>5. /\ Pkcs7Unpadded(padded) = s
        /\ Len(s) \in 0 .. Len(call.text) - 1 /\ SubSeq(padded, 1, Len(s)) = s
    BY <1>2, <2>4, UnpaddedIs
  <2>6. ret # NULL
    <3>1. IsPaddingOf(Plain(call), SubSeq(Plain(call), 1, Len(s)))
      BY <2>3, <2>4, <2>5
    <3> QED BY <1>2, <2>5, <3>1 DEF ModesWholeOrNull
  <2>7. ret \in Seq(Byte) BY <2>6 DEF DoneInv
  <2>8. IsPaddingOf(padded, ret)
    BY <1>4, <2>1, <2>3, <2>6 DEF ModesWholeOrNull
  <2>9. Pkcs7Unpadded(padded) = ret
    BY <2>4, <2>7, <2>8, UnpaddedIs
  <2> QED BY <2>5, <2>9
<1> QED BY <1>3, <1>4

(* So what was sent is returned. *)
LEMMA RoundTripIs ==
    ASSUME DoneInv, SentInv, ModesWholeOrNull
    PROVE  ModesRoundTrip
  BY GivenBack DEF SentInv, ModesRoundTrip

WholeInv == LoopInv /\ DoneInv /\ SentInv /\ ModesWholeOrNull

(* Every step keeps it. *)
LEMMA WholeStep ==
    ASSUME WholeInv, ErrIsKept, [ModesNext]_modesVars
    PROVE  WholeInv'
<1>1. CASE Begin
  <2>1. PICK c \in Calls : Enter(c, NULL) BY <1>1 DEF Begin
  <2>2. IsCall(c) BY ModesAssumption
  <2>3. /\ LoopInv' /\ call' = c /\ sent' = NULL /\ pc' \in {"loop", "done"}
        /\ pc' = "done" => ret' = NULL /\ (broke' \/ Refuses(c))
    BY <2>1, <2>2, EnterIs
  <2>4. DoneInv' /\ SentInv'
    BY <2>2, <2>3 DEF DoneInv, SentInv
  <2>5. ModesWholeOrNull'
    BY <2>3 DEF ModesWholeOrNull
  <2> QED BY <2>3, <2>4, <2>5 DEF WholeInv
<1>2. CASE Blocks
  <2>1. LoopInv'
    BY <1>2, EcbKeepsInv, CbcEncryptKeepsInv, CbcDecryptKeepsInv, CtrKeepsInv DEF Blocks, WholeInv
  <2>2. pc = "loop" /\ pc' = "loop" /\ call' = call /\ sent' = sent
    BY <1>2 DEF Blocks, EcbEncryptBlock, EcbDecryptBlock, EcbBlock, CbcEncryptBlock, CbcDecryptBlock,
                CtrBlock, InLoop, Turn
  <2>3. DoneInv' /\ ModesWholeOrNull'
    BY <2>2 DEF DoneInv, ModesWholeOrNull
  <2>4. SentInv' BY <2>2 DEF SentInv, WholeInv
  <2> QED BY <2>1, <2>3, <2>4 DEF WholeInv
<1>3. CASE Finish
  <2>1. DoneInv' /\ ModesWholeOrNull'
    BY <1>3, FinishIs DEF WholeInv
  <2>2. pc = "loop" /\ pc' = "done" /\ call' = call /\ sent' = sent
    BY <1>3 DEF Finish, LoopEnds, Returns
  <2>3. LoopInv' /\ SentInv'
    BY <2>2 DEF LoopInv, SentInv, WholeInv
  <2> QED BY <2>1, <2>3 DEF WholeInv
<1>4. CASE Reply
  <2>1. PICK d : d = [call EXCEPT !.dir = "decrypt", !.text = ret] OBVIOUS
  <2>2. pc = "done" /\ call.dir = "encrypt" /\ ret # NULL /\ Enter(d, call.text)
    BY <1>4, <2>1 DEF Reply
  <2>3. IsCall(call) /\ ~Refuses(call) /\ Corresponding(call, ret)
    BY <2>2 DEF WholeInv, DoneInv, Unpads
  <2>4. IsCall(d) /\ SentIs(d, call.text)
    BY <2>1, <2>2, <2>3, ReplyIs
  <2>5. /\ LoopInv' /\ call' = d /\ sent' = call.text /\ pc' \in {"loop", "done"}
        /\ pc' = "done" => ret' = NULL /\ (broke' \/ Refuses(d))
    BY <2>2, <2>4, EnterIs
  <2>6. DoneInv' /\ SentInv'
    BY <2>4, <2>5 DEF DoneInv, SentInv
  <2>7. ModesWholeOrNull'
    BY <2>5 DEF ModesWholeOrNull
  <2> QED BY <2>5, <2>6, <2>7 DEF WholeInv
<1>5. CASE Leave
  BY <1>5 DEF Leave, WholeInv, LoopInv, DoneInv, SentInv, ModesWholeOrNull
<1>6. CASE UNCHANGED modesVars
  BY <1>6 DEF modesVars, WholeInv, LoopInv, DoneInv, SentInv, ModesWholeOrNull
<1> QED BY <1>1, <1>2, <1>3, <1>4, <1>5, <1>6 DEF ModesNext

(* Whichever allocations fail, and whatever the calls, a mode of operation
   returns what it is by its definition, or NULL with its reason. *)
THEOREM WholeOrNull == ModesSpec => []ModesWholeOrNull
<1>1. ModesInit => WholeInv
  BY DEF ModesInit, WholeInv, LoopInv, DoneInv, SentInv, ModesWholeOrNull
<1>2. WholeInv /\ ErrIsKept /\ [ModesNext]_modesVars => WholeInv'
  BY WholeStep
<1>3. WholeInv => ModesWholeOrNull BY DEF WholeInv
<1> QED BY <1>1, <1>2, <1>3, Invariance, PTL DEF ModesSpec

(* Whatever was encrypted, decrypting it gives it back. *)
THEOREM RoundTrip == ModesSpec => []ModesRoundTrip
<1>1. ModesInit => WholeInv
  BY DEF ModesInit, WholeInv, LoopInv, DoneInv, SentInv, ModesWholeOrNull
<1>2. WholeInv /\ ErrIsKept /\ [ModesNext]_modesVars => WholeInv'
  BY WholeStep
<1>3. WholeInv => ModesRoundTrip
  BY RoundTripIs DEF WholeInv
<1> QED BY <1>1, <1>2, <1>3, Invariance, PTL DEF ModesSpec

(* The list. *)

(* The members are linked in the order of the memory they are in. *)
IsList(c) ==
    /\ c.count \in Nat
    /\ c = [count |-> c.count, head |-> c.head, tail |-> c.tail, node |-> c.node]
    /\ c.head = (IF c.count = 0 THEN 0 ELSE 1)
    /\ c.tail = c.count
    /\ c.node = [p \in 1 .. c.count |->
                    [key   |-> c.node[p].key,
                     value |-> c.node[p].value,
                     next  |-> IF p < c.count THEN p + 1 ELSE 0]]

(* A cookie is a list, and one is being decoded into while there are
   tokens left. *)
ListInv ==
    /\ cookie # NULL => IsList(cookie)
    /\ todo # NULL => /\ cookie # NULL
                      /\ todo = [of |-> todo.of, tokens |-> todo.tokens]

(* Appending, to a sequence whose elements may be anything. *)
LEMMA Appending ==
    ASSUME NEW n \in Nat, NEW f, f = [p \in 1 .. n |-> f[p]], NEW e
    PROVE  /\ Len(f) = n
           /\ Append(f, e) = [p \in 1 .. n + 1 |-> IF p = n + 1 THEN e ELSE f[p]]
<1> DEFINE S == {f[p] : p \in 1 .. n} \cup {e}
<1>1. f \in [1 .. n -> S] OBVIOUS
<1>2. f \in Seq(S) /\ e \in S BY <1>1
<1> HIDE DEF S
<1>3. Len(f) = n BY <1>1, <1>2
<1>4. Append(f, e) = [p \in 1 .. Len(f) + 1 |-> IF p <= Len(f) THEN f[p] ELSE e]
  BY <1>2
<1> QED BY <1>3, <1>4

(* cookie_at() of a list: it follows index links. *)
LEMMA AtOfList ==
    ASSUME NEW c, IsList(c), NEW index \in Nat
    PROVE  CookieAt(c, index) = Member(c, IF index < c.count THEN index + 1 ELSE 0)
<1> DEFINE Def(f) == [i \in 0 .. index |->
                        IF i = 0 THEN c.head
                        ELSE IF f[i - 1] = 0 THEN 0 ELSE c.node[f[i - 1]].next]
           kv == CHOOSE f : f = Def(f)
           g == [i \in 0 .. index |-> IF i < c.count THEN i + 1 ELSE 0]
<1>0. /\ c.count \in Nat
      /\ c.head = (IF c.count = 0 THEN 0 ELSE 1)
      /\ \A p \in 1 .. c.count : c.node[p].next = IF p < c.count THEN p + 1 ELSE 0
  BY DEF IsList
<1>1. g = Def(g) BY <1>0
<1>2. kv = Def(kv) BY <1>1
<1> DEFINE bad == {i \in 0 .. index : kv[i] # g[i]}
<1> HIDE DEF kv
<1>3. bad = {}
  <2> SUFFICES ASSUME bad # {} PROVE FALSE OBVIOUS
  <2>0. bad \subseteq Nat OBVIOUS
  <2>1. PICK m \in bad : \A n \in bad : m <= n
    <3> HIDE DEF bad
    <3> QED BY <2>0, Smallest
  <2>2. m # 0 BY <2>1, <1>2, <1>0
  <2>3. m \in 1 .. index /\ kv[m] # g[m] /\ kv[m - 1] = g[m - 1]
    BY <2>1, <2>2
  <2>4. kv[m] = IF kv[m - 1] = 0 THEN 0 ELSE c.node[kv[m - 1]].next
    BY <2>3, <1>2
  <2>5. g[m] = (IF m < c.count THEN m + 1 ELSE 0) /\ g[m - 1] = (IF m - 1 < c.count THEN m ELSE 0)
    BY <2>3
  <2> HIDE DEF bad, g
  <2> QED BY <2>3, <2>4, <2>5, <1>0
<1>4. CookieAt(c, index) = Member(c, kv[index])
  BY DEF CookieAt, kv
<1>5. kv[index] = g[index]
  <2>1. index \notin bad BY <1>3
  <2> QED BY <2>1
<1> QED BY <1>4, <1>5

(* What a caller sees of a list. *)
LEMMA MembersOfList ==
    ASSUME NEW c, IsList(c)
    PROVE  Members(c) = [i \in 1 .. c.count |-> <<c.node[i].key, c.node[i].value>>]
<1>1. \A i \in 1 .. c.count : CookieAt(c, i - 1) = <<c.node[i].key, c.node[i].value>>
  <2> SUFFICES ASSUME NEW i \in 1 .. c.count
               PROVE  CookieAt(c, i - 1) = <<c.node[i].key, c.node[i].value>>
    OBVIOUS
  <2>1. i - 1 \in Nat /\ i - 1 < c.count /\ (i - 1) + 1 = i /\ i # 0
    BY DEF IsList
  <2>2. CookieAt(c, i - 1) = Member(c, i)
    BY <2>1, AtOfList
  <2> QED BY <2>1, <2>2 DEF Member
<1> QED BY <1>1 DEF Members

(* cookie_get() of a list follows the links to the first member with the
   key. *)
LEMMA GetOfList ==
    ASSUME NEW c, IsList(c), NEW key
    PROVE  LET matching == {i \in 1 .. c.count : c.node[i].key = key}
           IN  /\ matching = {} => CookieGet(c, key) = NULL
               /\ \A i \in matching : (\A j \in matching : i <= j) => CookieGet(c, key) = Member(c, i)
<1> DEFINE n == c.count
           Def(f) == [kv \in 0 .. Len(c.node) |->
                        IF kv = 0 THEN 0
                        ELSE IF c.node[kv].key = key THEN kv ELSE f[c.node[kv].next]]
           found == CHOOSE f : f = Def(f)
           matching == {i \in 1 .. n : c.node[i].key = key}
           after(kv) == {i \in matching : kv <= i}
           g == [kv \in 0 .. n |->
                    IF kv = 0 \/ after(kv) = {} THEN 0
                    ELSE CHOOSE i \in after(kv) : \A j \in after(kv) : i <= j]
<1>0. /\ n \in Nat
      /\ Len(c.node) = n
      /\ \A p \in 1 .. n : c.node[p].next = IF p < n THEN p + 1 ELSE 0
  BY Appending DEF IsList
<1> HIDE DEF after
<1>1. ASSUME NEW kv \in 1 .. n
      PROVE  /\ after(kv) = {} => g[kv] = 0
             /\ after(kv) # {} => /\ g[kv] \in after(kv)
                                 /\ \A j \in after(kv) : g[kv] <= j
  <2>1. CASE after(kv) = {} BY <2>1, <1>0
  <2>2. CASE after(kv) # {}
    <3>1. after(kv) \subseteq Nat BY <1>0 DEF after
    <3>2. \E i \in after(kv) : \A j \in after(kv) : i <= j
      BY <3>1, <2>2, Smallest
    <3>3. g[kv] = CHOOSE i \in after(kv) : \A j \in after(kv) : i <= j
      BY <2>2, <1>0
    <3> HIDE DEF g
    <3> QED BY <2>2, <3>2, <3>3
  <2> QED BY <2>1, <2>2
<1>2. g[0] = 0 /\ DOMAIN g = 0 .. n /\ g = [kv \in 0 .. n |-> g[kv]]
  BY <1>0
<1>3. ASSUME NEW kv \in 1 .. n
      PROVE  g[kv] = IF c.node[kv].key = key THEN kv ELSE g[c.node[kv].next]
  <2>1. CASE c.node[kv].key = key
    <3>1. kv \in after(kv) /\ \A j \in after(kv) : kv <= j /\ j \in Nat
      BY <2>1, <1>0 DEF after
    <3> HIDE DEF g
    <3> QED BY <3>1, <1>1, <2>1, <1>0
  <2>2. CASE c.node[kv].key # key /\ kv = n
    <3>1. after(kv) = {} BY <2>2, <1>0 DEF after
    <3>2. c.node[kv].next = 0 BY <2>2, <1>0
    <3> HIDE DEF g
    <3> QED BY <3>1, <3>2, <1>1, <1>2, <2>2
  <2>3. CASE c.node[kv].key # key /\ kv < n
    <3>1. after(kv) = after(kv + 1)
      BY <2>3, <1>0 DEF after
    <3>2. c.node[kv].next = kv + 1 /\ kv + 1 \in 1 .. n /\ kv \in 0 .. n /\ kv # 0 /\ kv + 1 # 0
      BY <2>3, <1>0
    <3>3. g[kv] = g[kv + 1] BY <3>1, <3>2
    <3> HIDE DEF g
    <3> QED BY <3>2, <3>3, <2>3
  <2> QED BY <2>1, <2>2, <2>3, <1>0
<1> HIDE DEF g
<1>4. g = Def(g)
  <2>1. Len(c.node) = n /\ g = [kv \in 0 .. n |-> g[kv]]
    BY <1>0, <1>2
  <2>2. ASSUME NEW kv \in 0 .. n
        PROVE  g[kv] = IF kv = 0 THEN 0
                       ELSE IF c.node[kv].key = key THEN kv ELSE g[c.node[kv].next]
    <3>1. CASE kv = 0 BY <3>1, <1>2
    <3>2. CASE kv # 0
      <4>1. kv \in 1 .. n BY <3>2, <1>0
      <4> QED BY <4>1, <3>2, <1>3
    <3> QED BY <3>1, <3>2
  <2> HIDE DEF n
  <2>3. Def(g) = [kv \in 0 .. n |-> IF kv = 0 THEN 0
                       ELSE IF c.node[kv].key = key THEN kv ELSE g[c.node[kv].next]]
    BY <2>1
  <2> HIDE DEF Def
  <2> QED BY <2>1, <2>2, <2>3
<1>5. found = Def(found) BY <1>4
<1> HIDE DEF found
<1>6. \A kv \in 0 .. n : found[kv] = IF kv = 0 THEN 0
                       ELSE IF c.node[kv].key = key THEN kv ELSE found[c.node[kv].next]
  BY <1>0, <1>5
<1> HIDE DEF Def
<1> DEFINE bad == {kv \in 0 .. n : found[kv] # g[kv]}
           far == {m \in 0 .. n : n - m \in bad}
<1>b. bad = {}
  <2> SUFFICES ASSUME NEW b \in bad PROVE FALSE OBVIOUS
  <2>0. far \subseteq Nat /\ n - b \in far
    <3>1. b \in Nat /\ b <= n /\ n - (n - b) = b /\ n - b \in 0 .. n
      BY <1>0
    <3> QED BY <3>1
  <2>1. PICK m \in far : \A k \in far : m <= k
    <3> HIDE DEF far
    <3> QED BY <2>0, Smallest
  <2> DEFINE kv == n - m
  <2>2. kv \in 0 .. n /\ found[kv] # g[kv] BY <2>1
  <2>3. kv \in 1 .. n BY <2>2, <1>2, <1>6, <1>0
  <2>4. \A j \in bad : j <= kv
    <3> SUFFICES ASSUME NEW j \in bad PROVE j <= kv OBVIOUS
    <3>1. j \in Nat /\ j <= n /\ n - (n - j) = j /\ n - j \in 0 .. n
      BY <1>0
    <3>2. m \in Nat /\ m <= n - j BY <3>1, <2>1
    <3> QED BY <3>1, <3>2, <1>0
  <2> HIDE DEF kv, far
  <2>5. /\ c.node[kv].key # key
        /\ found[kv] = found[c.node[kv].next]
        /\ g[kv] = g[c.node[kv].next]
    BY <2>2, <2>3, <1>6, <1>3, <1>0
  <2>6. c.node[kv].next \in 0 .. n /\ (c.node[kv].next = 0 \/ c.node[kv].next > kv)
    BY <2>3, <1>0
  <2>7. c.node[kv].next \notin bad
    <3>1. CASE c.node[kv].next = 0
      <4>1. found[0] = 0 BY <1>6, <1>0
      <4> QED BY <4>1, <3>1, <1>2
    <3>2. CASE c.node[kv].next > kv BY <3>2, <2>3, <2>4, <2>6
    <3> QED BY <2>6, <3>1, <3>2
  <2> QED BY <2>2, <2>5, <2>6, <2>7
<1>7. CookieGet(c, key) = Member(c, found[c.head])
  BY DEF CookieGet, found, Def
<1>8. c.head \in 0 .. n /\ c.head = (IF n = 0 THEN 0 ELSE 1)
  BY <1>0 DEF IsList
<1>9. found[c.head] = g[c.head]
  <2>1. c.head \notin bad BY <1>b
  <2> QED BY <2>1, <1>8
<1>10. CASE n = 0 BY <1>10, <1>7, <1>8, <1>9, <1>2 DEF Member
<1>11. CASE n # 0
  <2>1. after(1) = matching /\ 1 \in 1 .. n /\ c.head = 1
    BY <1>11, <1>8, <1>0 DEF after
  <2>2. CASE matching = {} BY <2>1, <2>2, <1>1, <1>7, <1>9 DEF Member
  <2>3. CASE matching # {}
    <3>1. g[1] \in matching /\ \A j \in matching : g[1] <= j
      BY <2>1, <2>3, <1>1
    <3>2. ASSUME NEW i \in matching, \A j \in matching : i <= j
          PROVE  i = g[1]
      BY <3>1, <3>2, <1>0
    <3> QED BY <3>2, <2>1, <2>3, <1>7, <1>9
  <2> QED BY <2>2, <2>3
<1> QED BY <1>10, <1>11

(* cookie_append() keeps the list one, and puts the member at its end. *)
LEMMA AppendedIsList ==
    ASSUME NEW c, IsList(c), NEW key, NEW value
    PROVE  /\ IsList(Appended(c, key, value))
           /\ Members(Appended(c, key, value)) = Append(Members(c), <<key, value>>)
<1> DEFINE n == c.count
           d == Appended(c, key, value)
           new == [key |-> key, value |-> value, next |-> 0]
           linked == [p \in 1 .. n |-> [key   |-> c.node[p].key,
                                       value |-> c.node[p].value,
                                       next  |-> p + 1]]
<1>1. /\ n \in Nat /\ c.tail = n /\ c.head = (IF n = 0 THEN 0 ELSE 1)
      /\ DOMAIN c.node = 1 .. n
      /\ \A p \in 1 .. n : c.node[p] = [key   |-> c.node[p].key,
                                        value |-> c.node[p].value,
                                        next  |-> IF p < n THEN p + 1 ELSE 0]
      /\ c.node = [p \in 1 .. n |-> c.node[p]]
  BY DEF IsList
<1>2. Len(c.node) = n BY <1>1, Appending
<1>3. Linked(c, n + 1) = linked
  <2>1. ASSUME NEW p \in 1 .. n
        PROVE  (IF p = c.tail THEN [c.node[p] EXCEPT !.next = n + 1] ELSE c.node[p]) = linked[p]
    <3>1. PICK k, v, x : /\ c.node[p] = [key |-> k, value |-> v, next |-> x]
                         /\ x = IF p < n THEN p + 1 ELSE 0
      <4>1. c.node[p] = [key |-> c.node[p].key, value |-> c.node[p].value,
                         next |-> IF p < n THEN p + 1 ELSE 0]
        BY <1>1, Zenon
      <4> HIDE DEF n, linked, d
      <4> QED BY <4>1, Zenon
    <3>2. linked[p] = [key |-> k, value |-> v, next |-> p + 1]
      BY <3>1
    <3>3. [c.node[p] EXCEPT !.next = n + 1] = [key |-> k, value |-> v, next |-> n + 1]
      BY <3>1
    <3>4. c.tail = n /\ n \in Nat BY <1>1
    <3> HIDE DEF linked, n
    <3>5. CASE p = n BY <3>2, <3>3, <3>4, <3>5
    <3>6. CASE p # n BY <3>1, <3>2, <3>4, <3>6
    <3> QED BY <3>5, <3>6
  <2> QED BY <2>1, <1>1 DEF Linked
<1>4. Append(linked, new) = [p \in 1 .. n + 1 |-> IF p = n + 1 THEN new ELSE linked[p]]
  <2>1. linked = [p \in 1 .. n |-> linked[p]] OBVIOUS
  <2> HIDE DEF linked, new
  <2> QED BY <2>1, <1>1, Appending
<1>5. d = [count |-> n + 1, head |-> 1, tail |-> n + 1, node |-> Append(linked, new)]
  <2> HIDE DEF linked
  <2>1. (IF c.head = 0 THEN n + 1 ELSE c.head) = 1
    BY <1>1
  <2>2. Len(c.node) + 1 = n + 1 /\ c.count + 1 = n + 1
    BY <1>2
  <2>3. d = [count |-> c.count + 1,
             head  |-> IF c.head = 0 THEN n + 1 ELSE c.head,
             tail  |-> n + 1,
             node  |-> Append(Linked(c, n + 1), new)]
    BY <2>2 DEF Appended
  <2> QED BY <2>1, <2>2, <2>3, <1>3
<1>6. d.count = n + 1 /\ d.head = 1 /\ d.tail = n + 1 /\ d.node = Append(linked, new)
  <2> HIDE DEF d, linked, new
  <2> QED BY <1>5
<1>7. d.node = [p \in 1 .. n + 1 |-> IF p = n + 1 THEN new ELSE linked[p]]
  BY <1>4, <1>6
<1> HIDE DEF d
<1>8. ASSUME NEW p \in 1 .. n + 1
      PROVE  d.node[p] = [key   |-> d.node[p].key,
                          value |-> d.node[p].value,
                          next  |-> IF p < n + 1 THEN p + 1 ELSE 0]
  <2>1. d.node[p] = IF p = n + 1 THEN new ELSE linked[p]
    BY <1>7
  <2>2. CASE p = n + 1 BY <2>1, <2>2, <1>1
  <2>3. CASE p # n + 1
    <3>1. p \in 1 .. n BY <2>3, <1>1
    <3>2. linked[p] = [key |-> c.node[p].key, value |-> c.node[p].value, next |-> p + 1]
      BY <3>1
    <3>3. p < n + 1 BY <3>1, <1>1
    <3>4. PICK k, v : d.node[p] = [key |-> k, value |-> v, next |-> p + 1]
      BY <2>1, <2>3, <3>2, Zenon
    <3> HIDE DEF n, linked
    <3> QED BY <3>3, <3>4
  <2> QED BY <2>2, <2>3
<1>9. d = [count |-> d.count, head |-> d.head, tail |-> d.tail, node |-> d.node]
  BY <1>5
<1>10. IsList(d)
  <2> HIDE DEF d, n
  <2>1. n + 1 \in Nat /\ n + 1 # 0 BY <1>1
  <2>2. d.node = [p \in 1 .. n + 1 |->
                    [key   |-> d.node[p].key,
                     value |-> d.node[p].value,
                     next  |-> IF p < n + 1 THEN p + 1 ELSE 0]]
    <3>1. d.node = [p \in 1 .. n + 1 |-> d.node[p]]
      BY <1>7
    <3> QED BY <3>1, <1>8
  <2> QED BY <2>1, <2>2, <1>6, <1>9 DEF IsList
<1>11. Members(d) = [i \in 1 .. n + 1 |-> <<d.node[i].key, d.node[i].value>>]
  BY <1>10, <1>6, MembersOfList
<1>12. Members(c) = [i \in 1 .. n |-> <<c.node[i].key, c.node[i].value>>]
  BY MembersOfList
<1>13. Append(Members(c), <<key, value>>)
       = [i \in 1 .. n + 1 |-> IF i = n + 1 THEN <<key, value>> ELSE Members(c)[i]]
  <2>1. Members(c) = [i \in 1 .. n |-> Members(c)[i]]
    BY <1>12
  <2> QED BY <2>1, <1>1, Appending
<1>14. ASSUME NEW i \in 1 .. n + 1
       PROVE  <<d.node[i].key, d.node[i].value>> = IF i = n + 1 THEN <<key, value>> ELSE Members(c)[i]
  <2>1. d.node[i] = IF i = n + 1 THEN new ELSE linked[i]
    BY <1>7
  <2>2. CASE i = n + 1 BY <2>1, <2>2
  <2>3. CASE i # n + 1
    <3>1. i \in 1 .. n BY <2>3, <1>1
    <3> QED BY <2>1, <2>3, <3>1, <1>12
  <2> QED BY <2>2, <2>3
<1>15. Members(d) = Append(Members(c), <<key, value>>)
  BY <1>11, <1>13, <1>14
<1> QED BY <1>10, <1>15 DEF d

(* The cookie that cookie_alloc() makes has no member. *)
LEMMA EmptyIsList == IsList(Empty) /\ Members(Empty) = <<>>
<1>1. IsList(Empty) BY DEF IsList, Empty
<1>2. Members(Empty) = [i \in 1 .. 0 |-> <<Empty.node[i].key, Empty.node[i].value>>]
  BY <1>1, MembersOfList DEF Empty
<1> QED BY <1>1, <1>2

(* The calls. *)

(* A list, and what is seen of it, are not NULL. *)
LEMMA ListsAreNotNull ==
    ASSUME NullIsNoValue, NEW c, IsList(c)
    PROVE  c # NULL /\ Members(c) # NULL
<1>1. c # NULL BY DEF NullIsNoValue, IsList
<1>2. Members(c) = [i \in 1 .. c.count |-> Members(c)[i]]
  BY MembersOfList
<1> QED BY <1>1, <1>2 DEF NullIsNoValue

(* What a caller sees of the cookie. *)
Seen == IF cookie = NULL \/ todo # NULL THEN NULL ELSE Members(cookie)

(* The list of a cookie is one, in every state. *)
THEOREM CookieIsAList == NullIsNoValue => (CookieSpec => []ListInv)
<1> SUFFICES ASSUME NullIsNoValue PROVE CookieSpec => []ListInv OBVIOUS
<1>1. CookieInit => ListInv
  BY DEF CookieInit, ListInv
<1>2. ListInv /\ [CookieNext]_cookieVars => ListInv'
  <2> SUFFICES ASSUME ListInv, [CookieNext]_cookieVars PROVE ListInv' OBVIOUS
  <2>1. CASE CookieAlloc BY <2>1, EmptyIsList DEF CookieAlloc, ListInv, MayFail
  <2>2. ASSUME NEW key \in Keys, NEW value \in Values, CookieAppend(key, value)
        PROVE  ListInv'
    <3>1. CASE cookie' = cookie BY <3>1, <2>2 DEF CookieAppend, ListInv
    <3>2. CASE cookie # NULL /\ cookie' = Appended(cookie, key, value)
      <4>1. IsList(cookie')
        BY <3>2, AppendedIsList DEF ListInv
      <4> QED BY <4>1, <2>2 DEF CookieAppend, ListInv
    <3> QED BY <2>2, <3>1, <3>2 DEF CookieAppend
  <2>3. CASE UNCHANGED <<cookie, todo>> BY <2>3 DEF ListInv
  <2>4. ASSUME NEW s, CookieDecode(s) PROVE ListInv'
    BY <2>4, EmptyIsList, ListsAreNotNull DEF CookieDecode, DecodeReturns, ListInv
  <2>5. CASE DecodeToken
    <3> DEFINE kv == Split(Head(todo.tokens))
    <3>1. CASE cookie' = NULL /\ todo' = NULL BY <3>1 DEF ListInv
    <3>2. CASE /\ cookie' = Appended(cookie, kv[1], kv[2])
               /\ todo' = [todo EXCEPT !.tokens = Tail(todo.tokens)]
      <4>1. IsList(cookie)
        BY <2>5 DEF DecodeToken, ListInv
      <4> HIDE DEF kv
      <4>2. IsList(cookie') /\ cookie' # NULL
        BY <4>1, <3>2, AppendedIsList, ListsAreNotNull
      <4>3. PICK of, tokens : todo = [of |-> of, tokens |-> tokens]
        BY <2>5 DEF DecodeToken, ListInv
      <4>4. todo' = [of |-> todo'.of, tokens |-> todo'.tokens]
        BY <4>3, <3>2
      <4> QED BY <4>2, <4>4 DEF ListInv
    <3> QED BY <2>5, <3>1, <3>2 DEF DecodeToken, DecodeReturns
  <2>6. CASE DecodeEnds BY <2>6 DEF DecodeEnds, DecodeReturns, ListInv
  <2>7. CASE CookieFree BY <2>7 DEF CookieFree, ListInv
  <2> QED
    BY <2>1, <2>2, <2>3, <2>4, <2>5, <2>6, <2>7
    DEF CookieNext, cookieVars, CookieCount, CookieLookupAt, CookieLookup, CookieEncode
<1> QED BY <1>1, <1>2, PTL DEF CookieSpec

(* Every step of a cookie is one of the list, or changes nothing that a
   caller sees. *)
LEMMA CookieStep ==
    ASSUME NullIsNoValue, ListInv, ListInv', [CookieNext]_cookieVars
    PROVE  [List!Next]_(List!vars)
<1>1. CASE CookieAlloc
  <2>1. Seen = NULL /\ (Seen' = NULL \/ Seen' = <<>>)
    BY <1>1, EmptyIsList DEF CookieAlloc, Seen, MayFail, ListInv
  <2>2. answer'.op = "alloc" /\ answer'.result = IF Seen' = NULL THEN -1 ELSE 0
    BY <1>1, EmptyIsList, ListsAreNotNull DEF CookieAlloc, Answer, Seen, MayFail, ListInv
  <2> QED BY <2>1, <2>2 DEF Seen, List!Next, List!Make, List!Answers
<1>2. ASSUME NEW key \in Keys, NEW value \in Values, CookieAppend(key, value)
      PROVE  List!Next
  <2>1. CASE cookie' = cookie /\ answer' = [op |-> "append", of |-> <<key, value>>, result |-> -1]
    BY <2>1, <1>2 DEF CookieAppend, List!Next, List!Add, List!Answers
  <2>2. CASE /\ cookie # NULL
             /\ cookie' = Appended(cookie, key, value)
             /\ answer' = [op |-> "append", of |-> <<key, value>>, result |-> 0]
    <3>1. IsList(cookie) BY <2>2 DEF ListInv
    <3>2. cookie' # NULL /\ Members(cookie)' = Append(Members(cookie), <<key, value>>)
      BY <3>1, <2>2, AppendedIsList, ListsAreNotNull
    <3>3. Seen = Members(cookie) /\ Seen # NULL /\ Seen' = Append(Seen, answer'.of)
      BY <3>1, <3>2, <1>2, <2>2, ListsAreNotNull DEF CookieAppend, Seen
    <3> QED BY <3>3, <2>2 DEF Seen, List!Next, List!Add, List!Answers
  <2> QED BY <1>2, <2>1, <2>2 DEF CookieAppend, Answer
<1>3. CASE CookieCount
  <2>1. IsList(cookie)
    BY <1>3 DEF CookieCount, ListInv
  <2>2. Len(Members(cookie)) = cookie.count
    <3>1. Members(cookie) = [i \in 1 .. cookie.count |-> Members(cookie)[i]]
      BY <2>1, MembersOfList
    <3> QED BY <3>1, <2>1, Appending DEF IsList
  <2>3. Seen = Members(cookie) /\ Seen # NULL /\ Seen' = Seen
    BY <1>3, <2>1, ListsAreNotNull DEF CookieCount, Seen
  <2>4. answer'.op = "count" /\ answer'.result = Len(Seen)
    BY <1>3, <2>2, <2>3 DEF CookieCount, Answer
  <2> QED BY <2>3, <2>4 DEF Seen, List!Next, List!Lookup, List!Answers
<1>4. ASSUME NEW index \in 0 .. MaxMembers, CookieLookupAt(index) PROVE List!Next
  <2>1. IsList(cookie) /\ index \in Nat
    BY <1>4, CookieAssumption DEF CookieLookupAt, ListInv
  <2>2. /\ Members(cookie) = [i \in 1 .. cookie.count |-> <<cookie.node[i].key, cookie.node[i].value>>]
        /\ cookie.count \in Nat
    BY <2>1, MembersOfList DEF IsList
  <2>3. Len(Members(cookie)) = cookie.count
    <3>1. Members(cookie) = [i \in 1 .. cookie.count |-> Members(cookie)[i]]
      BY <2>2
    <3> QED BY <3>1, <2>2, Appending
  <2>4. CookieAt(cookie, index) = IF index < cookie.count THEN Members(cookie)[index + 1] ELSE NULL
    <3>1. CookieAt(cookie, index) = Member(cookie, IF index < cookie.count THEN index + 1 ELSE 0)
      BY <2>1, AtOfList
    <3>2. CASE index < cookie.count
      <4>1. index + 1 \in 1 .. cookie.count /\ index + 1 # 0
        BY <3>2, <2>1, <2>2
      <4>2. CookieAt(cookie, index) = Member(cookie, index + 1)
        BY <3>1, <3>2
      <4> QED BY <4>1, <4>2, <2>2, <3>2 DEF Member
    <3>3. CASE ~(index < cookie.count) BY <3>1, <3>3 DEF Member
    <3> QED BY <3>2, <3>3
  <2>5. Seen = Members(cookie) /\ Seen # NULL /\ Seen' = Seen
    BY <1>4, <2>1, ListsAreNotNull DEF CookieLookupAt, Seen
  <2>6. /\ answer'.op = "at"
        /\ answer'.result = IF answer'.of < Len(Seen) THEN Seen[answer'.of + 1] ELSE NULL
    BY <1>4, <2>3, <2>4, <2>5 DEF CookieLookupAt, Answer
  <2> QED BY <2>5, <2>6 DEF Seen, List!Next, List!Lookup, List!Answers
<1>5. ASSUME NEW key \in Keys, CookieLookup(key) PROVE List!Next
  <2> DEFINE matching == {i \in DOMAIN Seen : Seen[i][1] = key}
             first == IF matching = {} THEN NULL
                      ELSE Seen[CHOOSE i \in matching : \A j \in matching : i <= j]
  <2>1. IsList(cookie)
    BY <1>5 DEF CookieLookup, ListInv
  <2>2. Seen = Members(cookie) /\ Seen # NULL /\ Seen' = Seen
    BY <1>5, <2>1, ListsAreNotNull DEF CookieLookup, Seen
  <2>3. /\ Seen = [i \in 1 .. cookie.count |-> <<cookie.node[i].key, cookie.node[i].value>>]
        /\ cookie.count \in Nat
    BY <2>1, <2>2, MembersOfList DEF IsList
  <2>4. matching = {i \in 1 .. cookie.count : cookie.node[i].key = key}
    BY <2>3
  <2> HIDE DEF matching
  <2>5. /\ matching = {} => CookieGet(cookie, key) = NULL
        /\ \A i \in matching :
            (\A j \in matching : i <= j) => CookieGet(cookie, key) = Member(cookie, i)
    BY <2>1, <2>4, GetOfList
  <2>6. CookieGet(cookie, key) = first
    <3>1. CASE matching = {} BY <3>1, <2>5
    <3>2. CASE matching # {}
      <4>1. matching \subseteq Nat BY <2>3, <2>4
      <4>2. \E i \in matching : \A j \in matching : i <= j
        BY <4>1, <3>2, Smallest
      <4> DEFINE i == CHOOSE i \in matching : \A j \in matching : i <= j
      <4>3. i \in matching /\ \A j \in matching : i <= j
        BY <4>2
      <4> HIDE DEF i
      <4>4. CookieGet(cookie, key) = Member(cookie, i)
        BY <4>3, <2>5
      <4>5. i \in 1 .. cookie.count /\ i # 0
        BY <4>3, <2>3, <2>4
      <4>6. Member(cookie, i) = Seen[i]
        BY <4>5, <2>3 DEF Member
      <4> QED BY <4>4, <4>6, <3>2 DEF i
    <3> QED BY <3>1, <3>2
  <2>7. answer' = [op |-> "get", of |-> key, result |-> first]
    BY <1>5, <2>6 DEF CookieLookup, Answer
  <2>8. List!First(key) = first
    BY DEF List!First, Seen, matching
  <2>9. answer'.op = "get" /\ answer'.of = key /\ answer'.result = first
    BY <2>7
  <2> QED BY <2>2, <2>8, <2>9 DEF Seen, List!Next, List!Lookup, List!Answers
<1>6. CASE CookieEncode BY <1>6 DEF CookieEncode, List!vars
<1>7. ASSUME NEW s, CookieDecode(s) PROVE [List!Next]_(List!vars)
  <2>1. Seen = NULL /\ todo = NULL
    BY <1>7 DEF CookieDecode, Seen, ListInv
  <2>2. CASE todo' = [of |-> s, tokens |-> Tokens(s)] /\ answer' = answer
    <3>1. Seen' = NULL
      BY <2>2 DEF Seen, NullIsNoValue
    <3> QED BY <2>1, <3>1, <2>2 DEF Seen, List!vars
  <2>3. CASE UNCHANGED cookie /\ DecodeReturns(s, s # NULL, -1)
    <3>1. Seen' = NULL /\ answer'.op = "decode" /\ answer'.result = -1
      BY <2>3, <1>7 DEF CookieDecode, DecodeReturns, Answer, Seen
    <3> QED BY <2>1, <3>1 DEF Seen, List!Next, List!Make, List!Answers
  <2> QED BY <1>7, <2>2, <2>3 DEF CookieDecode
<1>8. CASE DecodeToken
  <2>1. Seen = NULL BY <1>8 DEF DecodeToken, Seen
  <2>2. CASE todo' = [todo EXCEPT !.tokens = Tail(todo.tokens)] /\ answer' = answer
    <3>1. PICK of, tokens : todo = [of |-> of, tokens |-> tokens]
      BY <1>8 DEF DecodeToken, ListInv
    <3>2. todo' = [of |-> of, tokens |-> Tail(todo.tokens)]
      BY <3>1, <2>2
    <3>3. Seen' = NULL
      BY <3>2 DEF Seen, NullIsNoValue
    <3> QED BY <2>1, <3>3, <2>2 DEF Seen, List!vars
  <2>3. CASE /\ cookie' = NULL
             /\ DecodeReturns(todo.of, Equals(Head(todo.tokens)) # {}, -1)
    <3>1. Seen' = NULL /\ answer'.op = "decode" /\ answer'.result = -1
      BY <2>3 DEF DecodeReturns, Answer, Seen
    <3> QED BY <2>1, <3>1 DEF Seen, List!Next, List!Make, List!Answers
  <2> QED BY <1>8, <2>2, <2>3 DEF DecodeToken
<1>9. CASE DecodeEnds
  <2>1. Seen = NULL /\ IsList(cookie) /\ cookie # NULL
    BY <1>9 DEF DecodeEnds, Seen, ListInv
  <2>2. Seen' = Members(cookie) /\ answer'.op = "decode" /\ answer'.result = 0
    BY <1>9, <2>1 DEF DecodeEnds, DecodeReturns, Answer, Seen
  <2>3. Seen' # NULL BY <2>1, <2>2, ListsAreNotNull
  <2> QED BY <2>1, <2>2, <2>3 DEF Seen, List!Next, List!Make, List!Answers
<1>10. CASE CookieFree
  <2>1. Seen # NULL /\ Seen' = NULL /\ UNCHANGED answer
    BY <1>10, ListsAreNotNull DEF CookieFree, Seen, ListInv
  <2> QED BY <2>1 DEF Seen, List!Next, List!Forget
<1>11. CASE UNCHANGED cookieVars BY <1>11 DEF cookieVars, List!vars
<1> QED
  BY <1>1, <1>2, <1>3, <1>4, <1>5, <1>6, <1>7, <1>8, <1>9, <1>10, <1>11 DEF CookieNext

(* A cookie is the list that cookie.h promises, for all the keys, values,
   texts and bounds: members are only ever added at the end, lookups
   answer with the first one of a key or the one at a position, and what
   is being decoded is seen whole or not at all. *)
THEOREM CookieImplements == NullIsNoValue => (CookieSpec => ImplementsKvList)
<1> SUFFICES ASSUME NullIsNoValue PROVE CookieSpec => ImplementsKvList OBVIOUS
<1>1. CookieInit => List!Init
  BY DEF CookieInit, List!Init
<1>2. ListInv /\ ListInv' /\ [CookieNext]_cookieVars => [List!Next]_(List!vars)
  BY CookieStep
<1>3. CookieSpec => []ListInv BY CookieIsAList
<1> QED BY <1>1, <1>2, <1>3, PTL DEF CookieSpec, ImplementsKvList, List!Spec

(* Texts of cookies. *)

String == Seq(Character)
PlainString == Seq(Character \ {Amp, Eq})

(* A string is bytes, and what is plain is a string. *)
LEMMA StringIs ==
    /\ \A s \in String : s \in Seq(Byte) /\ s # NULL /\ Len(s) \in Nat
    /\ \A s \in PlainString : s \in String
    /\ <<>> \in PlainString /\ <<Amp>> \in String /\ <<Eq>> \in String
    /\ \A u, v \in String : u \o v \in String
    /\ \A u, v \in PlainString : u \o v \in PlainString
<1>1. \A s \in String : s \in Seq(Byte) /\ Len(s) \in Nat
  BY DEF String, Byte, Character
<1>2. \A s \in PlainString : s \in String
  BY DEF PlainString, String
<1>3. <<>> \in PlainString /\ <<Amp>> \in String /\ <<Eq>> \in String
  BY DEF PlainString, String, Character, Amp, Eq
<1>4. \A u, v \in String : u \o v \in String
  BY DEF String
<1>5. \A u, v \in PlainString : u \o v \in PlainString
  BY DEF PlainString
<1> QED BY <1>1, <1>2, <1>3, <1>4, <1>5, BytesAssumption, Zenon

(* cookie_escape() drops the separators, which never makes it longer. *)
LEMMA EscapeIs ==
    ASSUME NEW s \in String
    PROVE  /\ Escape(s) \in PlainString /\ Len(Escape(s)) <= Len(s)
           /\ Unseparated(s) = Escape(s)
<1>1. PICK n \in Nat : n = Len(s) /\ DOMAIN s = 1 .. n /\ \A k \in 1 .. n : s[k] \in Character
  BY DEF String
<1>2. PICK parts : parts = [k \in 1 .. n |-> IF s[k] = Amp \/ s[k] = Eq THEN <<>> ELSE <<s[k]>>]
  OBVIOUS
<1>3. \A k \in 1 .. n : parts[k] = <<>> \/ (s[k] \in Character \ {Amp, Eq} /\ parts[k] = <<s[k]>>)
  BY <1>1, <1>2
<1>4. parts \in [1 .. n -> Seq(Byte)]
  <2>0. \A c \in Character : <<c>> \in Seq(Byte)
    BY DEF Character, Byte
  <2>1. \A k \in 1 .. n : parts[k] \in Seq(Byte)
    <3> SUFFICES ASSUME NEW k \in 1 .. n PROVE parts[k] \in Seq(Byte) OBVIOUS
    <3>1. <<>> \in Seq(Byte) OBVIOUS
    <3> QED BY <1>3, <2>0, <3>1
  <2> QED BY <1>2, <2>1
<1>5. Escape(s) = Joined(parts)
  BY <1>1, <1>2, Zenon DEF Escape
<1>6. Unseparated(s) = Joined(parts)
  <2>1. \A k \in 1 .. n : (s[k] = Amp \/ s[k] = Eq) <=> s[k] \in {Amp, Eq}
    OBVIOUS
  <2>2. [k \in DOMAIN s |-> IF s[k] \in {Amp, Eq} THEN <<>> ELSE <<s[k]>>] = parts
    BY <1>1, <1>2, <2>1
  <2> QED BY <2>2, Zenon DEF Unseparated
<1>7. PICK joined \in [0 .. n -> Seq(Byte)] :
            /\ joined[0] = <<>>
            /\ \A k \in 1 .. n : joined[k] = joined[k - 1] \o parts[k]
            /\ Joined(parts) = joined[n]
  BY <1>4, JoinedIs
<1> DEFINE W == {k \in 0 .. n : joined[k] \in PlainString /\ Len(joined[k]) <= k}
<1>8. 0 \in W BY <1>7, StringIs
<1>9. ASSUME NEW k \in 0 .. n - 1, k \in W PROVE k + 1 \in W
  <2>1. k + 1 \in 1 .. n /\ k + 1 \in 0 .. n /\ (k + 1) - 1 = k /\ k \in Nat
    OBVIOUS
  <2>2. joined[k + 1] = joined[k] \o parts[k + 1]
    BY <1>7, <2>1, Zenon
  <2>3. PICK u \in PlainString : u = joined[k] /\ Len(u) <= k BY <1>9
  <2>4. PICK v \in PlainString : v = parts[k + 1] /\ Len(v) <= 1
    <3>1. CASE parts[k + 1] = <<>> BY <3>1, StringIs
    <3>2. CASE s[k + 1] \in Character \ {Amp, Eq} /\ parts[k + 1] = <<s[k + 1]>>
      <4>1. PICK c \in Character \ {Amp, Eq} : c = s[k + 1] BY <3>2
      <4>2. <<c>> \in PlainString /\ Len(<<c>>) = 1
        BY DEF PlainString
      <4>3. <<c>> = parts[k + 1] /\ Len(<<c>>) <= 1
        BY <3>2, <4>1, <4>2
      <4> HIDE DEF W
      <4> QED BY <4>2, <4>3, Zenon
    <3> QED BY <1>3, <2>1, <3>1, <3>2
  <2>5. u \o v \in PlainString /\ Len(u \o v) = Len(u) + Len(v) /\ Len(u) \in Nat /\ Len(v) \in Nat
    BY DEF PlainString
  <2>6. Len(u \o v) <= k + 1
    <3>1. Len(u) <= k /\ Len(v) <= 1 BY <2>3, <2>4
    <3> HIDE DEF W
    <3> QED BY <2>1, <2>5, <3>1
  <2> QED BY <2>1, <2>2, <2>3, <2>4, <2>5, <2>6
<1> HIDE DEF W
<1>10. \A k \in 0 .. n : k \in W
  BY <1>8, <1>9, CountingUp
<1>11. n \in W BY <1>10
<1> QED BY <1>1, <1>5, <1>6, <1>7, <1>11 DEF W

(* Where a string ends. *)
LEMMA StrlenEnds ==
    ASSUME NEW s \in Seq(Byte)
    PROVE  /\ Strlen(s) \in 0 .. Len(s)
           /\ Strlen(s) < Len(s) => s[Strlen(s) + 1] = Nul
           /\ \A k \in 1 .. Strlen(s) : s[k] # Nul
<1> DEFINE Is(m) == (m < Len(s) => s[m + 1] = Nul) /\ \A k \in 1 .. m : s[k] # Nul
<1>1. \E m \in 0 .. Len(s) : Is(m)
  <2> DEFINE S == {m \in Nat : m >= Len(s) \/ s[m + 1] = Nul}
  <2>1. PICK m \in S : \A j \in S : m <= j
    <3>1. S \subseteq Nat /\ Len(s) \in S OBVIOUS
    <3> HIDE DEF S
    <3> QED BY <3>1, Smallest
  <2>2. m \in 0 .. Len(s) /\ (m < Len(s) => s[m + 1] = Nul)
    <3>1. Len(s) \in S OBVIOUS
    <3>2. m <= Len(s) BY <2>1, <3>1
    <3> QED BY <3>2
  <2>3. \A k \in 1 .. m : s[k] # Nul
    <3> TAKE k \in 1 .. m
    <3>1. k - 1 \in Nat /\ ~(m <= k - 1) /\ (k - 1) + 1 = k OBVIOUS
    <3>2. k - 1 \notin S BY <2>1, <3>1
    <3> QED BY <3>1, <3>2
  <2> QED BY <2>2, <2>3
<1>2. Strlen(s) \in 0 .. Len(s) /\ Is(Strlen(s))
  <2>1. Strlen(s) = CHOOSE m \in 0 .. Len(s) : Is(m)
    BY Zenon DEF Strlen
  <2> HIDE DEF Is
  <2> QED BY <1>1, <2>1, Zenon
<1> QED BY <1>2

(* The length of a string, and of the string that bytes begin with. *)
LEMMA StrlenIs ==
    /\ \A s \in String : Strlen(s) = Len(s)
    /\ \A s \in Seq(Byte) : /\ Strlen(s) \in 0 .. Len(s)
                            /\ \A k \in 1 .. Strlen(s) : s[k] \in Character
<1>1. ASSUME NEW s \in String PROVE Strlen(s) = Len(s)
  <2>0. \A c \in Character : c # Nul
    BY DEF Character, Nul
  <2>1. PICK n \in Nat : n = Len(s) /\ \A k \in 1 .. n : s[k] # Nul
    <3>1. Len(s) \in Nat /\ \A k \in 1 .. Len(s) : s[k] \in Character
      BY DEF String
    <3> QED BY <2>0, <3>1
  <2>2. \A m \in 0 .. n : (/\ m < n => s[m + 1] = Nul
                           /\ \A k \in 1 .. m : s[k] # Nul) <=> m = n
    <3>1. \A m \in 0 .. n : m < n => m + 1 \in 1 .. n OBVIOUS
    <3> QED BY <2>1, <3>1
  <2>3. Strlen(s) = CHOOSE m \in 0 .. n : m = n
    BY <2>1, <2>2 DEF Strlen
  <2> QED BY <2>1, <2>3
<1>2. ASSUME NEW s \in Seq(Byte)
      PROVE  /\ Strlen(s) \in 0 .. Len(s)
             /\ \A k \in 1 .. Strlen(s) : s[k] \in Character
  <2>1. PICK n \in Nat : n = Len(s) /\ \A k \in 1 .. n : s[k] \in Byte OBVIOUS
  <2>2. \A b \in Byte : b # Nul => b \in Character
    BY DEF Byte, Nul, Character
  <2>3. /\ Strlen(s) \in 0 .. n
        /\ \A k \in 1 .. Strlen(s) : s[k] # Nul
    BY <2>1, StrlenEnds
  <2> QED BY <2>1, <2>2, <2>3
<1> QED BY <1>1, <1>2

Token == Seq(Character \ {Amp})

(* Where what begins at p ends, of the n characters of s: at the first
   separator, or behind them. *)
EndsAt(s, n, p, e) ==
    /\ e \in p .. n + 1
    /\ e = n + 1 \/ s[e] = Amp
    /\ \A f \in p .. n + 1 : f = n + 1 \/ s[f] = Amp => e <= f

(* What strtok_r() makes of the characters from p on. *)
TokensFrom(s, n, from) ==
    /\ from \in [1 .. n + 2 -> Seq(Token)]
    /\ from[n + 1] = <<>> /\ from[n + 2] = <<>>
    /\ \A p \in 1 .. n : \A e \in p .. n + 1 :
        EndsAt(s, n, p, e) =>
            from[p] = IF e = p THEN from[p + 1] ELSE <<SubSeq(s, p, e - 1)>> \o from[e + 1]

(* There is one end. *)
LEMMA EndIs ==
    ASSUME NEW s, NEW n \in Nat, NEW p \in 1 .. n
    PROVE  LET ends == {e \in p .. n + 1 : e = n + 1 \/ s[e] = Amp}
               end  == CHOOSE e \in ends : \A f \in ends : e <= f
           IN  EndsAt(s, n, p, end) /\ \A e : EndsAt(s, n, p, e) => e = end
<1> DEFINE ends == {e \in p .. n + 1 : e = n + 1 \/ s[e] = Amp}
           end  == CHOOSE e \in ends : \A f \in ends : e <= f
<1>1. ends \subseteq Nat /\ n + 1 \in ends OBVIOUS
<1>2. end \in ends /\ \A f \in ends : end <= f
  <2> HIDE DEF ends
  <2>1. \E e \in ends : \A f \in ends : e <= f
    BY <1>1, Smallest
  <2> QED BY <2>1
<1> HIDE DEF end
<1>3. EndsAt(s, n, p, end) BY <1>2 DEF EndsAt
<1>4. ASSUME NEW e, EndsAt(s, n, p, e) PROVE e = end
  <2>1. e \in ends /\ e <= end /\ e \in Nat
    BY <1>2, <1>4 DEF EndsAt
  <2>2. end <= e /\ end \in Nat BY <1>1, <1>2, <2>1
  <2> QED BY <2>1, <2>2
<1> QED BY <1>3, <1>4 DEF end

(* What is between the separators of characters is a token. *)
LEMMA TokenIs ==
    ASSUME NEW s \in Seq(Byte), NEW n \in 0 .. Len(s), \A k \in 1 .. n : s[k] \in Character,
           NEW p \in 1 .. n, NEW e \in p .. n + 1, EndsAt(s, n, p, e)
    PROVE  SubSeq(s, p, e - 1) \in Token
<1>1. \A k \in p .. e - 1 : k \in 1 .. n /\ k \in p .. n + 1 /\ ~(e <= k)
  OBVIOUS
<1>2. \A k \in p .. e - 1 : s[k] \in Character \ {Amp}
  BY <1>1 DEF EndsAt
<1>3. PICK len \in Nat : len = e - p OBVIOUS
<1>4. SubSeq(s, p, e - 1) = [i \in 1 .. len |-> s[p + i - 1]]
  <2>1. (e - 1) - p + 1 = len BY <1>3
  <2>2. SubSeq(s, p, e - 1) = [i \in 1 .. (e - 1) - p + 1 |-> s[p + i - 1]]
    BY <1>1
  <2> QED BY <2>1, <2>2
<1>5. \A i \in 1 .. len : p + i - 1 \in p .. e - 1
  BY <1>3
<1>6. \A i \in 1 .. len : s[p + i - 1] \in Character \ {Amp}
  BY <1>2, <1>5, Zenon
<1>7. [i \in 1 .. len |-> s[p + i - 1]] \in [1 .. len -> Character \ {Amp}]
  BY <1>6, Zenon
<1>8. PICK S : S = Character \ {Amp} OBVIOUS
<1>9. \A t \in [1 .. len -> S] : t \in Seq(S) OBVIOUS
<1> QED BY <1>4, <1>7, <1>8, <1>9, Zenon DEF Token

(* cookie_decode() sees the tokens of the string that its bytes begin with. *)
LEMMA TokensAre ==
    ASSUME NEW s \in Seq(Byte)
    PROVE  \E from : TokensFrom(s, Strlen(s), from) /\ Tokens(s) = from[1]
<1>1. PICK n \in Nat : n = Strlen(s) /\ n <= Len(s) /\ \A k \in 1 .. n : s[k] \in Character
  BY StrlenIs
<1> DEFINE ends(p) == {e \in p .. n + 1 : e = n + 1 \/ s[e] = Amp}
           end(p) == CHOOSE e \in ends(p) : \A f \in ends(p) : e <= f
           Body(f, p) == IF p > n THEN <<>>
                         ELSE IF end(p) = p THEN f[p + 1]
                              ELSE <<SubSeq(s, p, end(p) - 1)>> \o f[end(p) + 1]
           Def(f) == [p \in 1 .. n + 2 |-> Body(f, p)]
           from == CHOOSE f : f = Def(f)
<1>2. Tokens(s) = from[1] BY <1>1 DEF Tokens
<1>3. \A p \in 1 .. n : EndsAt(s, n, p, end(p)) /\ \A e : EndsAt(s, n, p, e) => e = end(p)
  BY EndIs
<1> HIDE DEF end, from
<1>4. \A p \in 1 .. n : end(p) \in p .. n + 1 /\ p + 1 \in 1 .. n + 2 /\ end(p) + 1 \in 1 .. n + 2
  BY <1>3 DEF EndsAt
<1>5. \A p \in 1 .. n : SubSeq(s, p, end(p) - 1) \in Token
  <2>1. n \in 0 .. Len(s) BY <1>1
  <2> QED BY <1>1, <1>3, <1>4, <2>1, TokenIs
<1>6. ASSUME NEW f \in [1 .. n + 2 -> Seq(Token)], NEW p \in 1 .. n + 2
      PROVE  Body(f, p) \in Seq(Token)
  <2>1. CASE p > n BY <2>1
  <2>2. CASE ~(p > n)
    <3>1. p \in 1 .. n BY <2>2
    <3>2. f[p + 1] \in Seq(Token) /\ f[end(p) + 1] \in Seq(Token)
      BY <1>4, <3>1
    <3>3. \A t \in Token, u \in Seq(Token) : <<t>> \o u \in Seq(Token)
      OBVIOUS
    <3>4. <<SubSeq(s, p, end(p) - 1)>> \o f[end(p) + 1] \in Seq(Token)
      BY <1>5, <3>1, <3>2, <3>3, Zenon
    <3> QED BY <2>2, <3>2, <3>4
  <2> QED BY <2>1, <2>2
<1>7. ASSUME NEW f, NEW g, NEW p \in 1 .. n + 2, \A q \in p + 1 .. n + 2 : f[q] = g[q]
      PROVE  Body(f, p) = Body(g, p)
  <2>1. CASE p > n BY <2>1
  <2>2. CASE ~(p > n)
    <3>1. p \in 1 .. n BY <2>2
    <3>2. p + 1 \in p + 1 .. n + 2 /\ end(p) + 1 \in p + 1 .. n + 2
      BY <1>4, <3>1
    <3>3. f[p + 1] = g[p + 1] /\ f[end(p) + 1] = g[end(p) + 1]
      BY <1>7, <3>2, Zenon
    <3> QED BY <3>3, Zenon
  <2> QED BY <2>1, <2>2
<1> DEFINE Upto(g, k) == \A p \in n + 2 - k .. n + 2 : p \in 1 .. n + 2 => g[p] = Body(g, p)
           W == {k \in 0 .. n + 1 : \E g \in [1 .. n + 2 -> Seq(Token)] : Upto(g, k)}
<1>8. 0 \in W
  <2>1. PICK g : g = [p \in 1 .. n + 2 |-> <<>>] OBVIOUS
  <2>2. g \in [1 .. n + 2 -> Seq(Token)] BY <2>1
  <2>3. Upto(g, 0) BY <2>1
  <2> HIDE DEF Upto
  <2> QED BY <2>2, <2>3
<1> HIDE DEF Body
<1>9. ASSUME NEW k \in 0 .. n, k \in W PROVE k + 1 \in W
  <2>1. PICK f \in [1 .. n + 2 -> Seq(Token)] : Upto(f, k) BY <1>9
  <2>2. PICK p : p = n + 2 - (k + 1) OBVIOUS
  <2>3. p \in 1 .. n + 2 /\ p + 1 = n + 2 - k
    BY <2>2
  <2>4. PICK g : g = [q \in 1 .. n + 2 |-> IF q = p THEN Body(f, p) ELSE f[q]]
    OBVIOUS
  <2>5. g \in [1 .. n + 2 -> Seq(Token)]
    <3>1. Body(f, p) \in Seq(Token) BY <1>6, <2>3
    <3> QED BY <2>4, <3>1
  <2>6. \A q \in p + 1 .. n + 2 : g[q] = f[q]
    BY <2>3, <2>4
  <2>7. ASSUME NEW q \in p .. n + 2 PROVE g[q] = Body(g, q)
    <3>1. q \in 1 .. n + 2 BY <2>3
    <3>2. \A r \in q + 1 .. n + 2 : r \in p + 1 .. n + 2
      BY <2>3
    <3>3. Body(g, q) = Body(f, q)
      BY <1>7, <2>6, <3>1, <3>2
    <3>4. CASE q = p BY <2>4, <3>1, <3>3, <3>4
    <3>5. CASE q # p
      <4>1. q \in p + 1 .. n + 2 BY <2>3, <3>5
      <4>2. f[q] = Body(f, q)
        BY <2>1, <2>3, <3>1, <4>1
      <4> QED BY <2>6, <3>3, <4>1, <4>2, Zenon
    <3> QED BY <3>4, <3>5
  <2>8. Upto(g, k + 1) BY <2>2, <2>7
  <2>9. k + 1 \in 0 .. n + 1 OBVIOUS
  <2> HIDE DEF Upto
  <2> QED BY <2>5, <2>8, <2>9
<1> HIDE DEF W
<1>10. n + 1 \in W
  <2>1. n + 1 \in Nat /\ \A k \in 0 .. (n + 1) - 1 : k \in 0 .. n OBVIOUS
  <2>2. \A k \in 0 .. n + 1 : k \in W
    BY <1>8, <1>9, <2>1, CountingUp
  <2> QED BY <2>2
<1>11. PICK g \in [1 .. n + 2 -> Seq(Token)] : \A p \in 1 .. n + 2 : g[p] = Body(g, p)
  <2>1. n + 2 - (n + 1) = 1 OBVIOUS
  <2> QED BY <1>10, <2>1 DEF W
<1>12. from = Def(from)
  <2>1. g = [p \in 1 .. n + 2 |-> g[p]] OBVIOUS
  <2>2. g = Def(g) BY <1>11, <2>1
  <2> HIDE DEF Def
  <2> QED BY <2>2 DEF from
<1>13. \A p \in 1 .. n + 2 : from[p] = Body(from, p)
  BY <1>12
<1> DEFINE Same == {k \in 0 .. n + 1 : \A p \in n + 2 - k .. n + 2 : from[p] = g[p]}
<1>14. 0 \in Same
  <2>1. n + 2 \in 1 .. n + 2 /\ n + 2 > n /\ \A p \in n + 2 - 0 .. n + 2 : p = n + 2
    OBVIOUS
  <2>2. from[n + 2] = <<>> /\ g[n + 2] = <<>>
    BY <1>11, <1>13, <2>1 DEF Body
  <2> QED BY <2>1, <2>2
<1>15. ASSUME NEW k \in 0 .. n, k \in Same PROVE k + 1 \in Same
  <2>1. PICK p : p = n + 2 - (k + 1) OBVIOUS
  <2>2. p \in 1 .. n + 2 /\ p + 1 = n + 2 - k /\ k + 1 \in 0 .. n + 1
    BY <2>1
  <2>3. \A q \in p + 1 .. n + 2 : from[q] = g[q]
    BY <1>15, <2>2
  <2>4. Body(from, p) = Body(g, p)
    BY <1>7, <2>2, <2>3
  <2>5. from[p] = g[p]
    BY <1>11, <1>13, <2>2, <2>4, Zenon
  <2>6. \A q \in p .. n + 2 : q = p \/ q \in p + 1 .. n + 2
    BY <2>2
  <2> QED BY <2>1, <2>2, <2>3, <2>5, <2>6
<1> HIDE DEF Same
<1>16. \A p \in 1 .. n + 2 : from[p] = g[p]
  <2>1. n + 1 \in Nat /\ \A k \in 0 .. (n + 1) - 1 : k \in 0 .. n OBVIOUS
  <2>2. \A k \in 0 .. n + 1 : k \in Same
    BY <1>14, <1>15, <2>1, CountingUp
  <2>3. n + 1 \in 0 .. n + 1 /\ n + 2 - (n + 1) = 1 OBVIOUS
  <2> QED BY <2>2, <2>3 DEF Same
<1>17. g[1] = from[1]
  <2>1. 1 \in 1 .. n + 2 OBVIOUS
  <2> QED BY <1>16, <2>1
<1>18. TokensFrom(s, n, g)
  <2>1. n + 1 \in 1 .. n + 2 /\ n + 1 > n /\ n + 2 \in 1 .. n + 2 /\ n + 2 > n
    OBVIOUS
  <2>2. g[n + 1] = <<>> /\ g[n + 2] = <<>>
    BY <1>11, <2>1 DEF Body
  <2>3. ASSUME NEW p \in 1 .. n, NEW e \in p .. n + 1, EndsAt(s, n, p, e)
        PROVE  g[p] = IF e = p THEN g[p + 1] ELSE <<SubSeq(s, p, e - 1)>> \o g[e + 1]
    <3>1. e = end(p) /\ p \in 1 .. n + 2 /\ ~(p > n)
      BY <1>3, <2>3
    <3>2. g[p] = Body(g, p) BY <1>11, <3>1
    <3> QED BY <3>1, <3>2 DEF Body
  <2> QED BY <1>11, <2>2, <2>3 DEF TokensFrom
<1> QED BY <1>1, <1>2, <1>17, <1>18

(* No token is in nothing, and one that is not empty is the only one in
   itself. *)
LEMMA TokensOfOne ==
    /\ Tokens(<<>>) = <<>>
    /\ \A t \in Token : t # <<>> => Tokens(t) = <<t>>
<1>1. Tokens(<<>>) = <<>>
  <2>1. <<>> \in String /\ <<>> \in Seq(Byte) /\ Len(<<>>) = 0
    BY StringIs
  <2>2. Strlen(<<>>) = 0 BY <2>1, StrlenIs
  <2>3. PICK from : TokensFrom(<<>>, 0, from) /\ Tokens(<<>>) = from[1]
    BY <2>1, <2>2, TokensAre
  <2> QED BY <2>3 DEF TokensFrom
<1>2. ASSUME NEW t \in Token, t # <<>> PROVE Tokens(t) = <<t>>
  <2>1. t \in String /\ t \in Seq(Byte) /\ t \in Seq(Character \ {Amp})
    BY StringIs DEF Token, String
  <2>2. PICK n \in Nat : n = Len(t) /\ n # 0 /\ Strlen(t) = n
    BY <1>2, <2>1, StrlenIs
  <2>3. PICK from : TokensFrom(t, n, from) /\ Tokens(t) = from[1]
    BY <2>1, <2>2, TokensAre
  <2>4. EndsAt(t, n, 1, n + 1)
    <3>1. \A k \in 1 .. n : t[k] # Amp BY <2>1, <2>2
    <3>2. \A k \in 1 .. n + 1 : k = n + 1 \/ k \in 1 .. n
      BY <2>2
    <3>3. \A k \in 1 .. n + 1 : k = n + 1 \/ t[k] = Amp => n + 1 <= k
      BY <3>1, <3>2
    <3> QED BY <2>2, <3>3 DEF EndsAt
  <2>5. 1 \in 1 .. n /\ n + 1 \in 1 .. n + 1 /\ n + 1 # 1 /\ (n + 1) - 1 = n /\ (n + 1) + 1 = n + 2
    BY <2>2
  <2>6. from[1] = <<SubSeq(t, 1, (n + 1) - 1)>> \o from[(n + 1) + 1]
    BY <2>3, <2>4, <2>5, Zenon DEF TokensFrom
  <2>7. from[n + 2] = <<>> BY <2>3 DEF TokensFrom
  <2>8. SubSeq(t, 1, n) = t BY <2>1, <2>2
  <2>9. <<t>> \o <<>> = <<t>> OBVIOUS
  <2> QED BY <2>3, <2>5, <2>6, <2>7, <2>8, <2>9, Zenon
<1> QED BY <1>1, <1>2

(* A token that is added behind a separator is one more at the end. *)
LEMMA TokensOfJoined ==
    ASSUME NEW u \in String, NEW t \in Token, t # <<>>
    PROVE  Tokens((u \o <<Amp>>) \o t) = Append(Tokens(u), t)
<1>1. PICK m \in Nat : m = Len(u) /\ Strlen(u) = m BY StringIs, StrlenIs
<1>2. PICK len \in Nat : len = Len(t) /\ len # 0 /\ \A k \in 1 .. len : t[k] # Amp
  BY DEF Token
<1>3. PICK v : v = (u \o <<Amp>>) \o t OBVIOUS
<1>4. PICK n \in Nat : n = m + 1 + len OBVIOUS
<1>5. /\ v \in String /\ Len(v) = n
      /\ \A k \in 1 .. m : v[k] = u[k]
      /\ v[m + 1] = Amp
      /\ \A k \in 1 .. len : v[m + 1 + k] = t[k]
  <2>1. t \in String BY DEF Token, String
  <2>2. PICK w \in String : w = u \o <<Amp>> BY StringIs
  <2>3. Len(w) = m + 1 /\ w[m + 1] = Amp /\ \A k \in 1 .. m : w[k] = u[k]
    BY <1>1, <2>2 DEF String
  <2>4. v = w \o t /\ v \in String
    BY <1>3, <2>1, <2>2, StringIs
  <2>5. /\ Len(v) = Len(w) + Len(t)
        /\ \A k \in 1 .. Len(w) + Len(t) : v[k] = IF k <= Len(w) THEN w[k] ELSE t[k - Len(w)]
    BY <2>1, <2>2, <2>4, StringIs, Concatenated, SMTT(20)
  <2>6. Len(v) = n BY <1>2, <1>4, <2>3, <2>5
  <2>7. \A k \in 1 .. m + 1 : v[k] = w[k]
    BY <1>2, <2>3, <2>5
  <2>8. \A k \in 1 .. m : v[k] = u[k] BY <2>3, <2>7
  <2>9. v[m + 1] = Amp BY <2>3, <2>7
  <2>10. ASSUME NEW k \in 1 .. len PROVE v[m + 1 + k] = t[k]
    <3>1. m + 1 + k \in 1 .. (m + 1) + len /\ ~(m + 1 + k <= m + 1) /\ (m + 1 + k) - (m + 1) = k
      OBVIOUS
    <3> QED BY <1>2, <2>3, <2>5, <3>1, Zenon
  <2> QED BY <2>4, <2>6, <2>8, <2>9, <2>10
<1>6. PICK fu : TokensFrom(u, m, fu) /\ Tokens(u) = fu[1]
  BY <1>1, StringIs, TokensAre
<1>7. PICK fv : TokensFrom(v, n, fv) /\ Tokens(v) = fv[1]
  BY <1>5, StringIs, StrlenIs, TokensAre
<1>8. fv[m + 2] = <<t>>
  <2>1. EndsAt(v, n, m + 2, n + 1)
    <3>1. ASSUME NEW k \in m + 2 .. n + 1, k # n + 1 PROVE v[k] # Amp
      <4>1. PICK j \in 1 .. len : m + 1 + j = k
        <5>1. k - (m + 1) \in 1 .. len /\ m + 1 + (k - (m + 1)) = k
          BY <1>4, <3>1
        <5> QED BY <5>1
      <4>2. v[m + 1 + j] = t[j] /\ t[j] # Amp
        BY <1>2, <1>5, Zenon
      <4> QED BY <4>1, <4>2, Zenon
    <3>2. n + 1 \in m + 2 .. n + 1 /\ n + 1 <= n + 1
      BY <1>2, <1>4
    <3> QED BY <3>1, <3>2 DEF EndsAt
  <2>2. /\ m + 2 \in 1 .. n /\ n + 1 \in m + 2 .. n + 1 /\ n + 1 # m + 2
        /\ (n + 1) - 1 = n /\ (n + 1) + 1 = n + 2
    BY <1>2, <1>4
  <2>3. fv[m + 2] = <<SubSeq(v, m + 2, (n + 1) - 1)>> \o fv[(n + 1) + 1]
    BY <1>7, <2>1, <2>2, Zenon DEF TokensFrom
  <2>4. SubSeq(v, m + 2, n) = t
    <3>1. SubSeq(v, m + 2, n) = [k \in 1 .. len |-> v[m + 1 + k]]
      <4>1. n - (m + 2) + 1 = len BY <1>4
      <4>2. v \in Seq(Byte) BY <1>5, StringIs
      <4>3. SubSeq(v, m + 2, n) = [k \in 1 .. n - (m + 2) + 1 |-> v[(m + 2) + k - 1]]
        BY <1>4, <1>5, <4>2
      <4>4. \A k \in 1 .. len : (m + 2) + k - 1 = m + 1 + k OBVIOUS
      <4> QED BY <4>1, <4>3, <4>4
    <3>2. t = [k \in 1 .. len |-> t[k]]
      BY <1>2 DEF Token
    <3> QED BY <1>5, <3>1, <3>2
  <2>5. fv[n + 2] = <<>> /\ <<t>> \o <<>> = <<t>>
    BY <1>7 DEF TokensFrom
  <2> QED BY <2>2, <2>3, <2>4, <2>5, Zenon
<1>9. fv[m + 1] = <<t>>
  <2>1. EndsAt(v, n, m + 1, m + 1)
    BY <1>4, <1>5 DEF EndsAt
  <2>2. m + 1 \in 1 .. n /\ m + 1 \in m + 1 .. n + 1 /\ (m + 1) + 1 = m + 2
    BY <1>4
  <2> QED BY <1>7, <1>8, <2>1, <2>2, Zenon DEF TokensFrom
<1>10. /\ fu \in [1 .. m + 2 -> Seq(Token)] /\ fu[m + 1] = <<>> /\ fu[m + 2] = <<>>
       /\ Append(<<>>, t) = <<t>>
  BY <1>6 DEF TokensFrom
<1> DEFINE W == {k \in 0 .. m : \A p \in m + 1 - k .. m + 2 : fv[p] = Append(fu[p], t)}
<1>11. 0 \in W
  <2>1. \A p \in m + 1 - 0 .. m + 2 : p = m + 1 \/ p = m + 2 OBVIOUS
  <2>2. 0 \in 0 .. m OBVIOUS
  <2> QED BY <1>8, <1>9, <1>10, <2>1, <2>2
<1>12. ASSUME NEW k \in 0 .. m - 1, k \in W PROVE k + 1 \in W
  <2>1. PICK p : p = m + 1 - (k + 1) OBVIOUS
  <2>2. p \in 1 .. m /\ p + 1 = m + 1 - k /\ k + 1 \in 0 .. m
    BY <2>1
  <2>3. \A q \in p + 1 .. m + 2 : fv[q] = Append(fu[q], t)
    BY <1>12, <2>2
  <2>4. PICK e : EndsAt(u, m, p, e) BY <2>2, EndIs
  <2>5. e \in p .. m + 1 /\ e \in p .. n + 1 /\ p \in 1 .. n
    BY <1>4, <2>2, <2>4 DEF EndsAt
  <2>6. EndsAt(v, n, p, e)
    <3>1. v[e] = Amp
      <4>1. CASE e = m + 1 BY <1>5, <4>1
      <4>2. CASE e # m + 1
        <5>1. e \in 1 .. m /\ u[e] = Amp
          BY <2>2, <2>4, <2>5, <4>2 DEF EndsAt
        <5> QED BY <1>5, <5>1
      <4> QED BY <4>1, <4>2
    <3>2. ASSUME NEW f \in p .. n + 1, f = n + 1 \/ v[f] = Amp PROVE e <= f
      <4>1. CASE f >= m + 1 BY <2>5, <4>1
      <4>2. CASE ~(f >= m + 1)
        <5>1. f \in 1 .. m /\ f \in p .. m + 1 /\ f # n + 1
          BY <1>4, <2>2, <4>2
        <5>2. u[f] = Amp BY <1>5, <3>2, <5>1
        <5> QED BY <2>4, <5>1, <5>2 DEF EndsAt
      <4> QED BY <4>1, <4>2
    <3> QED BY <2>5, <3>1, <3>2 DEF EndsAt
  <2>7. fu[p] = IF e = p THEN fu[p + 1] ELSE <<SubSeq(u, p, e - 1)>> \o fu[e + 1]
    BY <1>6, <2>2, <2>4, <2>5, Zenon DEF TokensFrom
  <2>8. fv[p] = IF e = p THEN fv[p + 1] ELSE <<SubSeq(v, p, e - 1)>> \o fv[e + 1]
    BY <1>7, <2>5, <2>6, Zenon DEF TokensFrom
  <2>9. p + 1 \in p + 1 .. m + 2 /\ e + 1 \in p + 1 .. m + 2 /\ e + 1 \in 1 .. m + 2
    BY <2>2, <2>5
  <2>10. fv[p] = Append(fu[p], t)
    <3>1. CASE e = p BY <2>3, <2>7, <2>8, <2>9, <3>1, Zenon
    <3>2. CASE e # p
      <4>1. SubSeq(v, p, e - 1) = SubSeq(u, p, e - 1)
        <5>1. u \in Seq(Byte) /\ v \in Seq(Byte)
          BY <1>5, StringIs
        <5>2. \A i \in p .. e - 1 : i \in 1 .. m /\ i \in 1 .. n
          BY <1>4, <2>2, <2>5
        <5>3. /\ SubSeq(v, p, e - 1) = [i \in 1 .. (e - 1) - p + 1 |-> v[p + i - 1]]
              /\ SubSeq(u, p, e - 1) = [i \in 1 .. (e - 1) - p + 1 |-> u[p + i - 1]]
          BY <1>1, <1>5, <2>2, <2>5, <5>1, <5>2
        <5>4. \A i \in 1 .. (e - 1) - p + 1 : p + i - 1 \in 1 .. m
          BY <2>2, <2>5
        <5>5. \A i \in 1 .. (e - 1) - p + 1 : v[p + i - 1] = u[p + i - 1]
          BY <1>5, <5>4, Zenon
        <5> QED BY <5>3, <5>5
      <4>2. SubSeq(u, p, e - 1) \in Token
        <5>1. \A i \in 1 .. m : u[i] \in Character
          BY <1>1 DEF String
        <5> QED BY <1>1, <2>2, <2>4, <2>5, <5>1, StringIs, TokenIs
      <4>3. PICK x \in Token : x = SubSeq(u, p, e - 1) BY <4>2
      <4>4. PICK y \in Seq(Token) : y = fu[e + 1] BY <1>10, <2>9
      <4>5. <<x>> \o Append(y, t) = Append(<<x>> \o y, t) OBVIOUS
      <4>6. fv[e + 1] = Append(y, t)
        BY <2>3, <2>9, <4>4, Zenon
      <4>7. fu[p] = <<x>> \o y /\ fv[p] = <<x>> \o Append(y, t)
        BY <2>7, <2>8, <3>2, <4>1, <4>3, <4>4, <4>6, Zenon
      <4> QED BY <4>5, <4>7, Zenon
    <3> QED BY <3>1, <3>2
  <2>11. \A q \in p .. m + 2 : q = p \/ q \in p + 1 .. m + 2
    BY <2>2
  <2> QED BY <2>1, <2>2, <2>3, <2>10, <2>11
<1> HIDE DEF W
<1>13. \A k \in 0 .. m : k \in W
  BY <1>11, <1>12, CountingUp
<1>14. fv[1] = Append(fu[1], t)
  <2>1. m \in 0 .. m /\ m + 1 - m = 1 /\ 1 \in 1 .. m + 2 OBVIOUS
  <2> QED BY <1>13, <2>1 DEF W
<1> QED BY <1>3, <1>6, <1>7, <1>14, Zenon

Associates(a, b, c) == (a \o b) \o c = a \o (b \o c)

(* Texts may be joined in either order. *)
LEMMA JoiningAssociates == \A a, b, c \in String : Associates(a, b, c)
  BY DEF String, Associates

(* The text of a member. *)
TextOf(key, value) == (Escape(key) \o <<Eq>>) \o Escape(value)

(* What is written of a member is one token, which is split at the only
   separator it has. *)
LEMMA TextIsRead ==
    ASSUME NEW key \in String, NEW value \in String
    PROVE  /\ TextOf(key, value) \in Token /\ TextOf(key, value) # <<>>
           /\ Equals(TextOf(key, value)) # {}
           /\ Split(TextOf(key, value)) = <<Unseparated(key), Unseparated(value)>>
<1>1. PICK k \in PlainString : k = Escape(key) /\ k = Unseparated(key)
  BY EscapeIs
<1>2. PICK v \in PlainString : v = Escape(value) /\ v = Unseparated(value)
  BY EscapeIs
<1>3. PICK t : t = (k \o <<Eq>>) \o v OBVIOUS
<1>4. PICK m \in Nat, n \in Nat : m = Len(k) /\ n = Len(v) BY DEF PlainString
<1>5. t \in Token /\ Len(t) = m + 1 + n
  <2>1. k \in Token /\ v \in Token /\ <<Eq>> \in Token
    BY DEF PlainString, Token, Character, Amp, Eq
  <2>2. \A x, y \in Token : x \o y \in Token /\ Len(x \o y) = Len(x) + Len(y)
    BY DEF Token
  <2>3. Len(<<Eq>>) = 1 OBVIOUS
  <2>4. k \o <<Eq>> \in Token /\ Len(k \o <<Eq>>) = m + 1
    BY <1>4, <2>1, <2>2, <2>3
  <2> QED BY <1>3, <1>4, <2>1, <2>2, <2>4
<1>6. /\ t[m + 1] = Eq
      /\ \A i \in 1 .. m : t[i] = k[i]
      /\ \A i \in 1 .. n : t[m + 1 + i] = v[i]
  <2>1. PICK w : w = k \o <<Eq>> OBVIOUS
  <2>2. k \in Seq(Byte) /\ v \in Seq(Byte) /\ <<Eq>> \in Seq(Byte) /\ Len(<<Eq>>) = 1
    BY StringIs
  <2>3. /\ w \in Seq(Byte) /\ Len(w) = m + 1
        /\ \A i \in 1 .. m + 1 : w[i] = IF i <= m THEN k[i] ELSE <<Eq>>[i - m]
    BY <1>4, <2>1, <2>2, Concatenated, Zenon
  <2>4. \A i \in 1 .. (m + 1) + n : t[i] = IF i <= m + 1 THEN w[i] ELSE v[i - (m + 1)]
    <3>1. \A i \in 1 .. Len(w) + Len(v) : (w \o v)[i] = IF i <= Len(w) THEN w[i] ELSE v[i - Len(w)]
      BY <2>2, <2>3, Concatenated, Zenon
    <3>2. Len(w) = m + 1 /\ Len(v) = n /\ t = w \o v
      BY <1>3, <1>4, <2>1, <2>3
    <3> QED BY <3>1, <3>2
  <2>5. w[m + 1] = Eq /\ \A i \in 1 .. m : w[i] = k[i]
    BY <2>3
  <2>6. t[m + 1] = Eq /\ \A i \in 1 .. m : t[i] = k[i]
    BY <2>4, <2>5
  <2>7. ASSUME NEW i \in 1 .. n PROVE t[m + 1 + i] = v[i]
    <3>1. m + 1 + i \in 1 .. (m + 1) + n /\ ~(m + 1 + i <= m + 1) /\ (m + 1 + i) - (m + 1) = i
      OBVIOUS
    <3> QED BY <2>4, <3>1, Zenon
  <2> QED BY <2>6, <2>7
<1>7. Equals(t) = {m + 1}
  <2>1. DOMAIN t = 1 .. m + 1 + n BY <1>5 DEF Token
  <2>2. (\A i \in 1 .. m : k[i] # Eq) /\ (\A i \in 1 .. n : v[i] # Eq)
    BY <1>4 DEF PlainString
  <2>3. ASSUME NEW i \in 1 .. m + 1 + n, t[i] = Eq PROVE i = m + 1
    <3>1. CASE i <= m BY <1>6, <2>2, <2>3, <3>1
    <3>2. CASE i > m + 1
      <4>1. i - (m + 1) \in 1 .. n /\ m + 1 + (i - (m + 1)) = i
        BY <3>2
      <4> QED BY <1>6, <2>2, <2>3, <4>1
    <3> QED BY <3>1, <3>2
  <2>4. m + 1 \in 1 .. m + 1 + n OBVIOUS
  <2> QED BY <1>6, <2>1, <2>3, <2>4 DEF Equals
<1>8. Split(t) = <<k, v>>
  <2> DEFINE eq == CHOOSE i \in Equals(t) : \A j \in Equals(t) : i <= j
  <2>1. eq = m + 1 BY <1>7
  <2>2. SubSeq(t, 1, (m + 1) - 1) = k
    <3>1. t \in Seq(Byte)
      BY <1>5, StringIs DEF Token, String
    <3>2. SubSeq(t, 1, m) = [i \in 1 .. m |-> t[i]]
      BY <1>5, <3>1
    <3>3. k = [i \in 1 .. m |-> k[i]]
      BY <1>4 DEF PlainString
    <3>4. (m + 1) - 1 = m OBVIOUS
    <3> QED BY <1>6, <3>2, <3>3, <3>4
  <2>3. SubSeq(t, (m + 1) + 1, Len(t)) = v
    <3>1. t \in Seq(Byte)
      BY <1>5, StringIs DEF Token, String
    <3>2. SubSeq(t, m + 2, m + 1 + n) = [i \in 1 .. n |-> t[m + 1 + i]]
      <4>1. (m + 1 + n) - (m + 2) + 1 = n /\ \A i \in 1 .. n : (m + 2) + i - 1 = m + 1 + i
        OBVIOUS
      <4>2. SubSeq(t, m + 2, m + 1 + n) = [i \in 1 .. (m + 1 + n) - (m + 2) + 1 |-> t[(m + 2) + i - 1]]
        BY <1>5, <3>1
      <4> QED BY <4>1, <4>2
    <3>3. v = [i \in 1 .. n |-> v[i]]
      BY <1>4 DEF PlainString
    <3>4. (m + 1) + 1 = m + 2 OBVIOUS
    <3> QED BY <1>5, <1>6, <3>2, <3>3, <3>4
  <2> HIDE DEF eq
  <2>4. Split(t) = <<SubSeq(t, 1, eq - 1), SubSeq(t, eq + 1, Len(t))>>
    BY DEF Split, eq
  <2> QED BY <2>1, <2>2, <2>3, <2>4, Zenon
<1>9. t # <<>> /\ Equals(t) # {} /\ t = TextOf(key, value)
  <2>1. t # <<>> BY <1>4, <1>5
  <2> QED BY <1>1, <1>2, <1>3, <1>7, <2>1, Zenon DEF TextOf
<1> QED BY <1>1, <1>2, <1>5, <1>8, <1>9, Zenon

(* The members of a cookie are strings. *)
IsText(c) ==
    /\ IsList(c)
    /\ \A i \in 1 .. c.count : c.node[i].key \in String /\ c.node[i].value \in String

MemberText(c, i) == TextOf(c.node[i].key, c.node[i].value)

(* The member at each place of a list. *)
LEMMA AtIs ==
    ASSUME NEW c, IsList(c), NEW n \in 1 .. c.count
    PROVE  /\ CookieAt(c, n - 1)[1] = c.node[n].key
           /\ CookieAt(c, n - 1)[2] = c.node[n].value
<1>1. n - 1 \in Nat /\ n - 1 < c.count /\ (n - 1) + 1 = n /\ n # 0
  BY DEF IsList
<1>2. CookieAt(c, n - 1) = Member(c, n)
  BY <1>1, AtOfList
<1> QED BY <1>1, <1>2 DEF Member

(* The size that cookie_encode() computes: it grows by what each member
   would take unescaped. *)
LEMMA EncodedSizeIs ==
    ASSUME NEW c, IsText(c)
    PROVE  \E sum \in [0 .. c.count -> Nat] :
            /\ EncodedSize(c) = sum[c.count]
            /\ sum[0] = 1
            /\ \A n \in 1 .. c.count :
                sum[n] = sum[n - 1] + (IF n > 1 THEN 1 ELSE 0)
                            + Len(c.node[n].key) + 1 + Len(c.node[n].value)
            /\ \A n \in 0 .. c.count : sum[n] <= EncodedSize(c)
<1>1. PICK N \in Nat : N = c.count BY DEF IsText, IsList
<1>2. PICK d \in [1 .. N -> Nat \X Nat] :
            \A n \in 1 .. N : d[n] = <<Len(c.node[n].key), Len(c.node[n].value)>>
  <2>1. \A n \in 1 .. N : <<Len(c.node[n].key), Len(c.node[n].value)>> \in Nat \X Nat
    BY <1>1, StringIs DEF IsText
  <2>2. [n \in 1 .. N |-> <<Len(c.node[n].key), Len(c.node[n].value)>>] \in [1 .. N -> Nat \X Nat]
    BY <2>1
  <2> QED BY <2>2
<1> DEFINE Def(f) == [n \in 0 .. c.count |->
                        IF n = 0 THEN 1
                        ELSE f[n - 1] + (IF n > 1 THEN 1 ELSE 0)
                                + Len(CookieAt(c, n - 1)[1]) + 1 + Len(CookieAt(c, n - 1)[2])]
           sum == CHOOSE f : f = Def(f)
           Plus3(x, n) == x + (IF n > 1 THEN 1 ELSE 0) + d[n][1] + 1 + d[n][2]
<1>3. EncodedSize(c) = sum[c.count]
  BY DEF EncodedSize
<1>4. \A n \in 1 .. N : \A x : x + (IF n > 1 THEN 1 ELSE 0) + Len(CookieAt(c, n - 1)[1]) + 1
                                    + Len(CookieAt(c, n - 1)[2]) = Plus3(x, n)
  <2>1. \A n \in 1 .. N : CookieAt(c, n - 1)[1] = c.node[n].key /\ CookieAt(c, n - 1)[2] = c.node[n].value
    BY <1>1, AtIs DEF IsText
  <2>2. \A n \in 1 .. N : d[n][1] = Len(c.node[n].key) /\ d[n][2] = Len(c.node[n].value)
    BY <1>2
  <2> QED BY <2>1, <2>2, Zenon
<1>5. \A n \in 1 .. N, x \in Nat : Plus3(x, n) \in Nat /\ x < Plus3(x, n)
  <2> SUFFICES ASSUME NEW n \in 1 .. N, NEW x \in Nat PROVE Plus3(x, n) \in Nat /\ x < Plus3(x, n)
    OBVIOUS
  <2>1. d[n] \in Nat \X Nat BY <1>2
  <2>2. PICK a \in Nat, b \in Nat : d[n][1] = a /\ d[n][2] = b BY <2>1
  <2>3. Plus3(x, n) = x + (IF n > 1 THEN 1 ELSE 0) + a + 1 + b
    BY <2>2
  <2>4. x + (IF n > 1 THEN 1 ELSE 0) + a + 1 + b \in Nat /\ x < x + (IF n > 1 THEN 1 ELSE 0) + a + 1 + b
    BY <2>2
  <2> QED BY <2>3, <2>4, Zenon
<1>6. \E g \in [0 .. N -> Nat] : g = Def(g)
  <2>1. PICK F : F = [n \in 1 .. N |-> [x \in Nat |-> Plus3(x, n)]] OBVIOUS
  <2> HIDE DEF Plus3
  <2>2. F \in [1 .. N -> [Nat -> Nat]] BY <1>5, <2>1
  <2>3. PICK g \in [0 .. N -> Nat] : g[0] = 1 /\ \A n \in 1 .. N : g[n] = F[n][g[n - 1]]
    <3>1. Iterates(N, Nat) /\ 1 \in Nat BY Iterated
    <3> QED BY <2>2, <3>1, Zenon DEF Iterates
  <2>4. ASSUME NEW n \in 1 .. N PROVE g[n] = Plus3(g[n - 1], n)
    <3>1. n - 1 \in 0 .. N OBVIOUS
    <3>2. g[n - 1] \in Nat BY <3>1, Zenon
    <3>3. F[n][g[n - 1]] = Plus3(g[n - 1], n)
      BY <2>1, <3>2
    <3> QED BY <2>3, <3>3, Zenon
  <2>5. \A n \in 0 .. N : n # 0 => n \in 1 .. N OBVIOUS
  <2>6. \A n \in 0 .. N :
            g[n] = IF n = 0 THEN 1
                   ELSE g[n - 1] + (IF n > 1 THEN 1 ELSE 0)
                            + Len(CookieAt(c, n - 1)[1]) + 1 + Len(CookieAt(c, n - 1)[2])
    BY <1>4, <2>3, <2>4, <2>5, ZenonT(30)
  <2>7. g = [n \in 0 .. N |-> g[n]] OBVIOUS
  <2>8. g = Def(g) BY <1>1, <2>6, <2>7, Zenon
  <2> QED BY <2>8, Zenon
<1>7. sum \in [0 .. N -> Nat] /\ sum = Def(sum)
  <2>1. sum = Def(sum)
    <3> HIDE DEF Def
    <3> QED BY <1>6, Zenon
  <2> HIDE DEF sum
  <2>2. sum[0] = 1 /\ \A n \in 1 .. N : sum[n] = Plus3(sum[n - 1], n)
    <3>1. \A n \in 0 .. N :
            sum[n] = IF n = 0 THEN 1
                     ELSE sum[n - 1] + (IF n > 1 THEN 1 ELSE 0)
                            + Len(CookieAt(c, n - 1)[1]) + 1 + Len(CookieAt(c, n - 1)[2])
      BY <1>1, <2>1, Zenon
    <3>2. 0 \in 0 .. N /\ \A n \in 1 .. N : n \in 0 .. N /\ n # 0 OBVIOUS
    <3> QED BY <1>4, <3>1, <3>2, Zenon
  <2> DEFINE W == {n \in 0 .. N : sum[n] \in Nat}
  <2> HIDE DEF Plus3
  <2>3. 0 \in W BY <2>2
  <2>4. ASSUME NEW n \in 0 .. N - 1, n \in W PROVE n + 1 \in W
    <3>1. n + 1 \in 1 .. N /\ n + 1 \in 0 .. N /\ (n + 1) - 1 = n OBVIOUS
    <3>2. sum[n] \in Nat BY <2>4
    <3>3. sum[n + 1] = Plus3(sum[n], n + 1)
      BY <2>2, <3>1, Zenon
    <3> QED BY <1>5, <3>1, <3>2, <3>3
  <2> HIDE DEF W
  <2>5. \A n \in 0 .. N : n \in W
    BY <2>3, <2>4, CountingUp
  <2>6. \A n \in 0 .. N : sum[n] \in Nat
    BY <2>5 DEF W
  <2>7. sum = [n \in 0 .. N |-> sum[n]]
    <3> HIDE DEF Def
    <3>1. DOMAIN sum = 0 .. N /\ sum = [n \in DOMAIN sum |-> sum[n]]
      BY <1>1, <2>1 DEF Def
    <3> QED BY <3>1, Zenon
  <2> QED BY <2>1, <2>6, <2>7
<1> HIDE DEF sum
<1>8. sum[0] = 1 /\ \A n \in 1 .. N : sum[n] = Plus3(sum[n - 1], n)
  <2>1. \A n \in 0 .. N :
            sum[n] = IF n = 0 THEN 1
                     ELSE sum[n - 1] + (IF n > 1 THEN 1 ELSE 0)
                            + Len(CookieAt(c, n - 1)[1]) + 1 + Len(CookieAt(c, n - 1)[2])
    BY <1>1, <1>7, Zenon
  <2>2. 0 \in 0 .. N /\ \A n \in 1 .. N : n \in 0 .. N /\ n # 0 OBVIOUS
  <2> QED BY <1>4, <2>1, <2>2, Zenon
<1>9. \A n \in 0 .. N : sum[n] <= sum[N]
  <2> DEFINE W == {n \in 0 .. N : \A m \in 0 .. n : sum[m] <= sum[n]}
  <2> HIDE DEF Plus3, Def
  <2>1. 0 \in W BY <1>8
  <2>2. ASSUME NEW n \in 0 .. N - 1, n \in W PROVE n + 1 \in W
    <3>1. n + 1 \in 1 .. N /\ n + 1 \in 0 .. N /\ (n + 1) - 1 = n /\ n \in 0 .. N
      OBVIOUS
    <3>2. sum[n] \in Nat /\ sum[n + 1] \in Nat
      BY <1>7, <3>1
    <3>3. sum[n] < sum[n + 1]
      <4>1. sum[n + 1] = Plus3(sum[n], n + 1)
        BY <1>8, <3>1, Zenon
      <4> QED BY <1>5, <3>1, <3>2, <4>1
    <3>4. ASSUME NEW m \in 0 .. n + 1 PROVE sum[m] <= sum[n + 1]
      <4>1. CASE m = n + 1 BY <3>2, <4>1
      <4>2. CASE m # n + 1
        <5>1. m \in 0 .. n /\ m \in 0 .. N BY <4>2
        <5>2. \A i \in 0 .. n : sum[i] <= sum[n]
          BY <2>2, Zenon
        <5>3. sum[m] <= sum[n] /\ sum[m] \in Nat
          BY <1>7, <5>1, <5>2, Zenon
        <5> QED BY <3>2, <3>3, <5>3
      <4> QED BY <4>1, <4>2
    <3> QED BY <3>1, <3>4
  <2> HIDE DEF W
  <2>3. \A n \in 0 .. N : n \in W
    BY <2>1, <2>2, CountingUp
  <2>4. N \in W BY <2>3
  <2> QED BY <2>4 DEF W
<1>10. \A n \in 1 .. N : sum[n] = sum[n - 1] + (IF n > 1 THEN 1 ELSE 0)
                            + Len(c.node[n].key) + 1 + Len(c.node[n].value)
  <2>1. \A n \in 1 .. N : d[n][1] = Len(c.node[n].key) /\ d[n][2] = Len(c.node[n].value)
    BY <1>2
  <2> QED BY <1>8, <2>1, Zenon
<1> QED BY <1>1, <1>3, <1>7, <1>8, <1>9, <1>10, ZenonT(30)

(* strlcat() of strings. *)
LEMMA CatIs ==
    ASSUME NEW src \in String, NEW siz \in Nat
    PROVE  /\ \A dst \in String \cup {NULL} : Cat(dst, src, siz) \in String \cup {NULL}
           /\ \A dst \in String : Len(dst) + Len(src) < siz => Cat(dst, src, siz) = dst \o src
<1>1. ASSUME NEW dst \in String, Len(dst) + Len(src) < siz PROVE Cat(dst, src, siz) = dst \o src
  <2>1. dst # NULL /\ Len(dst) \in Nat /\ Len(src) \in Nat
    BY StringIs
  <2>2. ~(Len(dst) + Len(src) >= siz) BY <1>1, <2>1
  <2> QED BY <2>1, <2>2, Zenon DEF Cat
<1>2. ASSUME NEW dst \in String \cup {NULL} PROVE Cat(dst, src, siz) \in String \cup {NULL}
  <2>1. dst # NULL => dst \o src \in String
    BY StringIs
  <2> QED BY <2>1 DEF Cat
<1> QED BY <1>1, <1>2

(* A member is written behind the ones in b. *)
Written(b, n, key, value, siz) ==
    Cat(Cat(Cat(IF n > 1 THEN Cat(b, <<Amp>>, siz) ELSE b, Escape(key), siz), <<Eq>>, siz),
        Escape(value), siz)

Separated(b, n) == IF n > 1 THEN b \o <<Amp>> ELSE b

SizeWith(b, n, key, value) == Len(b) + (IF n > 1 THEN 1 ELSE 0) + Len(key) + 1 + Len(value)

IsWritten(b, n, key, value, siz) ==
    /\ Written(b, n, key, value, siz) = Separated(b, n) \o TextOf(key, value)
    /\ Written(b, n, key, value, siz) \in String
    /\ Len(Written(b, n, key, value, siz)) <= SizeWith(b, n, key, value)

(* One more member of an encoded cookie, for which there is a place. *)
LEMMA MemberEncoded ==
    ASSUME NEW b \in String, NEW n \in Nat, NEW key \in String, NEW value \in String, NEW siz \in Nat,
           SizeWith(b, n, key, value) < siz
    PROVE  IsWritten(b, n, key, value, siz)
<1>0. Len(b) + (IF n > 1 THEN 1 ELSE 0) + Len(key) + 1 + Len(value) < siz
  BY DEF SizeWith
<1>1. PICK k \in String : k = Escape(key) /\ Len(k) <= Len(key)
  BY EscapeIs, StringIs
<1>2. PICK v \in String : v = Escape(value) /\ Len(v) <= Len(value)
  BY EscapeIs, StringIs
<1>3. PICK before \in String : /\ before = IF n > 1 THEN b \o <<Amp>> ELSE b
                               /\ Len(before) = Len(b) + (IF n > 1 THEN 1 ELSE 0)
  <2>1. b \o <<Amp>> \in String BY StringIs
  <2>2. Len(b \o <<Amp>>) = Len(b) + 1 /\ Len(b) \in Nat
    BY DEF String
  <2>3. CASE n > 1 BY <2>1, <2>2, <2>3
  <2>4. CASE ~(n > 1) BY <2>2, <2>4
  <2> QED BY <2>3, <2>4
<1>4. <<Eq>> \in String /\ <<Amp>> \in String /\ Len(<<Eq>>) = 1 /\ Len(<<Amp>>) = 1
  BY StringIs
<1>5. /\ Len(b) \in Nat /\ Len(key) \in Nat /\ Len(value) \in Nat /\ Len(k) \in Nat /\ Len(v) \in Nat
      /\ Len(before) \in Nat
  BY StringIs
<1>6. \A x, y \in String : x \o y \in String /\ Len(x \o y) = Len(x) + Len(y)
  BY DEF String
<1>7. PICK joined : joined = IF n > 1 THEN Cat(b, <<Amp>>, siz) ELSE b OBVIOUS
<1>8. joined = before
  <2>1. CASE n > 1
    <3>1. Len(b) + Len(<<Amp>>) < siz
      BY <1>0, <1>4, <1>5, <2>1
    <3> QED BY <1>3, <1>4, <1>7, <2>1, <3>1, CatIs
  <2> QED BY <1>3, <1>7, <2>1
<1>9. Cat(before, k, siz) = before \o k
  <2>1. Len(before) + Len(k) < siz
    BY <1>0, <1>1, <1>3, <1>5
  <2> QED BY <2>1, CatIs
<1>10. PICK w \in String : w = before \o k /\ Len(w) = Len(before) + Len(k)
  BY <1>6
<1>11. Cat(w, <<Eq>>, siz) = w \o <<Eq>>
  <2>1. Len(w) + Len(<<Eq>>) < siz
    BY <1>0, <1>1, <1>3, <1>4, <1>5, <1>10
  <2> QED BY <1>4, <2>1, CatIs
<1>12. PICK x \in String : x = w \o <<Eq>> /\ Len(x) = Len(before) + Len(k) + 1
  <2>1. w \o <<Eq>> \in String /\ Len(w \o <<Eq>>) = Len(w) + 1
    BY <1>4, <1>6
  <2> QED BY <1>10, <2>1
<1>13. Cat(x, v, siz) = x \o v
  <2>1. Len(x) + Len(v) < siz
    BY <1>0, <1>1, <1>2, <1>3, <1>5, <1>12
  <2> QED BY <2>1, CatIs
<1>14. x \o v \in String /\ Len(x \o v) <= Len(b) + (IF n > 1 THEN 1 ELSE 0) + Len(key) + 1 + Len(value)
  <2>1. Len(x \o v) = Len(before) + Len(k) + 1 + Len(v)
    BY <1>6, <1>12
  <2> QED BY <1>1, <1>2, <1>3, <1>5, <1>6, <2>1
<1>15. x \o v = before \o TextOf(key, value)
  <2>1. k \o <<Eq>> \in String BY <1>4, <1>6
  <2>2. (before \o k) \o <<Eq>> = before \o (k \o <<Eq>>)
    <3>1. before \in String /\ k \in String /\ <<Eq>> \in String
      BY <1>1, <1>3, <1>4
    <3>2. Associates(before, k, <<Eq>>)
      BY <3>1, JoiningAssociates, Zenon
    <3> QED BY <3>2 DEF Associates
  <2>3. (before \o (k \o <<Eq>>)) \o v = before \o ((k \o <<Eq>>) \o v)
    <3>1. before \in String /\ v \in String
      BY <1>2, <1>3
    <3>2. Associates(before, k \o <<Eq>>, v)
      BY <2>1, <3>1, JoiningAssociates, Zenon
    <3> QED BY <3>2 DEF Associates
  <2> QED BY <1>1, <1>2, <1>10, <1>12, <2>2, <2>3, Zenon DEF TextOf
<1>16. Written(b, n, key, value, siz) = x \o v
  BY <1>1, <1>2, <1>7, <1>8, <1>9, <1>10, <1>11, <1>12, <1>13, Zenon DEF Written
<1> QED BY <1>3, <1>14, <1>15, <1>16, Zenon DEF Separated, IsWritten, SizeWith

(* cookie_encode() has room for all the members, and writes a token for
   each of them. *)
LEMMA EncodedIs ==
    ASSUME NEW c, IsText(c)
    PROVE  /\ Encoded(c) \in String /\ Len(Encoded(c)) < EncodedSize(c)
           /\ Tokens(Encoded(c)) = [i \in 1 .. c.count |-> MemberText(c, i)]
<1>1. PICK N \in Nat : N = c.count BY DEF IsText, IsList
<1>2. PICK sum \in [0 .. N -> Nat] :
            /\ EncodedSize(c) = sum[N]
            /\ sum[0] = 1
            /\ \A n \in 1 .. N :
                sum[n] = sum[n - 1] + (IF n > 1 THEN 1 ELSE 0)
                            + Len(c.node[n].key) + 1 + Len(c.node[n].value)
            /\ \A n \in 0 .. N : sum[n] <= EncodedSize(c)
  BY <1>1, EncodedSizeIs
<1>3. PICK siz \in Nat : siz = EncodedSize(c) /\ \A n \in 0 .. N : sum[n] <= siz
  BY <1>2
<1> DEFINE Def(f) == [n \in 0 .. c.count |->
                        IF n = 0 THEN <<>>
                        ELSE Written(f[n - 1], n, CookieAt(c, n - 1)[1], CookieAt(c, n - 1)[2], siz)]
           encoded == CHOOSE f : f = Def(f)
           Texts1 == String \cup {NULL}
<1>4. Encoded(c) = encoded[N]
  BY <1>1, <1>3 DEF Encoded, Written
<1>5. \A n \in 1 .. N : /\ CookieAt(c, n - 1)[1] = c.node[n].key
                        /\ CookieAt(c, n - 1)[2] = c.node[n].value
                        /\ c.node[n].key \in String /\ c.node[n].value \in String
  BY <1>1, AtIs DEF IsText
<1>6. ASSUME NEW b \in Texts1, NEW n \in 1 .. N
      PROVE  Written(b, n, c.node[n].key, c.node[n].value, siz) \in Texts1
  <2>1. <<Amp>> \in String /\ <<Eq>> \in String
    BY StringIs
  <2>2. Escape(c.node[n].key) \in String /\ Escape(c.node[n].value) \in String
    BY <1>5, EscapeIs, StringIs
  <2>3. Cat(b, <<Amp>>, siz) \in Texts1
    BY <2>1, CatIs
  <2>4. (IF n > 1 THEN Cat(b, <<Amp>>, siz) ELSE b) \in Texts1
    BY <2>3
  <2> QED BY <2>1, <2>2, <2>4, CatIs, Zenon DEF Written
<1>7. \E g : g = Def(g)
  <2>1. PICK F : F = [n \in 1 .. N |-> [b \in Texts1 |-> Written(b, n, c.node[n].key, c.node[n].value, siz)]]
    OBVIOUS
  <2> HIDE DEF Texts1
  <2>2. F \in [1 .. N -> [Texts1 -> Texts1]]
    BY <1>6, <2>1
  <2>3. PICK g \in [0 .. N -> Texts1] : g[0] = <<>> /\ \A n \in 1 .. N : g[n] = F[n][g[n - 1]]
    <3>1. Iterates(N, Texts1) /\ <<>> \in Texts1
      BY Iterated, StringIs DEF Texts1
    <3> QED BY <2>2, <3>1, Zenon DEF Iterates
  <2>4. ASSUME NEW n \in 1 .. N PROVE g[n] = Written(g[n - 1], n, CookieAt(c, n - 1)[1], CookieAt(c, n - 1)[2], siz)
    <3>1. n - 1 \in 0 .. N OBVIOUS
    <3>2. g[n - 1] \in Texts1 BY <3>1, Zenon
    <3>3. F[n][g[n - 1]] = Written(g[n - 1], n, c.node[n].key, c.node[n].value, siz)
      BY <2>1, <3>2
    <3> QED BY <1>5, <2>3, <3>3, Zenon
  <2>5. \A n \in 0 .. N : n # 0 => n \in 1 .. N OBVIOUS
  <2>6. \A n \in 0 .. N :
            g[n] = IF n = 0 THEN <<>>
                   ELSE Written(g[n - 1], n, CookieAt(c, n - 1)[1], CookieAt(c, n - 1)[2], siz)
    BY <2>3, <2>4, <2>5, Zenon
  <2>7. g = [n \in 0 .. N |-> g[n]] OBVIOUS
  <2> QED BY <1>1, <2>6, <2>7, Zenon
<1>8. encoded = Def(encoded)
  <2> HIDE DEF Def
  <2> QED BY <1>7, Zenon
<1> HIDE DEF encoded
<1>9. /\ encoded[0] = <<>>
      /\ \A n \in 1 .. N : encoded[n] = Written(encoded[n - 1], n, c.node[n].key, c.node[n].value, siz)
  <2>1. \A n \in 0 .. N :
            encoded[n] = IF n = 0 THEN <<>>
                         ELSE Written(encoded[n - 1], n, CookieAt(c, n - 1)[1], CookieAt(c, n - 1)[2], siz)
    BY <1>1, <1>8, Zenon
  <2>2. 0 \in 0 .. N /\ \A n \in 1 .. N : n \in 0 .. N /\ n # 0 OBVIOUS
  <2> QED BY <1>5, <2>1, <2>2, Zenon
<1> HIDE DEF Def
<1> DEFINE Read(n) == [i \in 1 .. n |-> MemberText(c, i)]
           W == {n \in 0 .. N : /\ encoded[n] \in String
                                /\ Len(encoded[n]) < sum[n]
                                /\ Tokens(encoded[n]) = Read(n)}
<1>10. 0 \in W
  <2>1. Read(0) = <<>> OBVIOUS
  <2>2. 0 \in 0 .. N /\ Len(<<>>) < 1 OBVIOUS
  <2> QED BY <1>2, <1>9, <2>1, <2>2, StringIs, TokensOfOne
<1>11. ASSUME NEW m \in 0 .. N - 1, m \in W PROVE m + 1 \in W
  <2>1. PICK n \in 1 .. N : n = m + 1 /\ n - 1 = m /\ n \in 0 .. N OBVIOUS
  <2>2. PICK b \in String : b = encoded[m] /\ Len(b) < sum[m] /\ Tokens(b) = Read(m)
    BY <1>11
  <2>3. PICK key \in String, value \in String : key = c.node[n].key /\ value = c.node[n].value
    BY <1>5
  <2>4. PICK before : before = Separated(b, n) OBVIOUS
  <2>5. PICK t \in Token : t = TextOf(key, value) /\ t # <<>> /\ t = MemberText(c, n)
    BY <2>3, TextIsRead DEF MemberText
  <2>6. sum[n] = sum[m] + (IF n > 1 THEN 1 ELSE 0) + Len(key) + 1 + Len(value)
    BY <1>2, <2>1, <2>3, Zenon
  <2>7. /\ Len(b) + (IF n > 1 THEN 1 ELSE 0) + Len(key) + 1 + Len(value) < sum[n]
        /\ sum[n] <= siz /\ sum[n] \in Nat /\ Len(b) \in Nat /\ Len(key) \in Nat /\ Len(value) \in Nat
    <3>1. Len(b) \in Nat /\ Len(key) \in Nat /\ Len(value) \in Nat
      BY StringIs
    <3>2. sum[m] \in Nat /\ sum[n] \in Nat
      <4>1. m \in 0 .. N OBVIOUS
      <4> QED BY <2>1, <4>1
    <3>3. sum[n] <= siz BY <1>3, <2>1
    <3>4. PICK sep \in Nat : sep = IF n > 1 THEN 1 ELSE 0 OBVIOUS
    <3>5. Len(b) < sum[m] BY <2>2
    <3>6. PICK x \in Nat, y \in Nat, z \in Nat, v \in Nat :
                x = Len(b) /\ y = sum[m] /\ z = Len(key) /\ v = Len(value)
      BY <3>1, <3>2
    <3>7. x + sep + z + 1 + v < y + sep + z + 1 + v
      <4>1. x < y BY <3>5, <3>6, Zenon
      <4>2. \A i, j, k, l, o \in Nat : i < j => i + k + l + 1 + o < j + k + l + 1 + o
        OBVIOUS
      <4> QED BY <3>4, <3>6, <4>1, <4>2, ZenonT(30)
    <3> HIDE DEF W
    <3> QED BY <2>6, <3>1, <3>2, <3>3, <3>4, <3>6, <3>7, Zenon
  <2>8. Len(b) + (IF n > 1 THEN 1 ELSE 0) + Len(key) + 1 + Len(value) < siz
    BY <2>7
  <2>9. PICK e \in String : /\ e = encoded[n] /\ e = before \o t
                            /\ Len(e) <= Len(b) + (IF n > 1 THEN 1 ELSE 0) + Len(key) + 1 + Len(value)
    <3>1. n \in Nat OBVIOUS
    <3>2. IsWritten(b, n, key, value, siz)
      BY <2>8, <3>1, MemberEncoded DEF SizeWith
    <3>3. encoded[n] = Written(b, n, key, value, siz)
      BY <1>9, <2>1, <2>2, <2>3, Zenon
    <3> QED BY <2>4, <2>5, <3>2, <3>3, Zenon DEF IsWritten, SizeWith
  <2>10. Len(e) < sum[n]
    <3>1. Len(e) \in Nat BY StringIs
    <3> HIDE DEF W
    <3> QED BY <2>7, <2>9, <3>1
  <2>11. Tokens(e) = Read(n)
    <3>1. CASE n > 1
      <4>1. Tokens(e) = Append(Read(m), t)
        BY <2>2, <2>4, <2>5, <2>9, <3>1, TokensOfJoined, Zenon DEF Separated
      <4>2. PICK f : f = Read(m) OBVIOUS
      <4>3. f = [p \in 1 .. m |-> f[p]] /\ \A p \in 1 .. m : f[p] = MemberText(c, p)
        BY <4>2
      <4>4. Append(f, t) = [p \in 1 .. m + 1 |-> IF p = m + 1 THEN t ELSE f[p]]
        BY <4>3, Appending
      <4>5. \A p \in 1 .. m + 1 : p = m + 1 \/ p \in 1 .. m OBVIOUS
      <4>6. \A p \in 1 .. m + 1 : (IF p = m + 1 THEN t ELSE f[p]) = MemberText(c, p)
        BY <2>1, <2>5, <4>3, <4>5, Zenon
      <4>7. Append(f, t) = Read(m + 1)
        BY <4>4, <4>6, Zenon
      <4> QED BY <2>1, <4>1, <4>2, <4>7, Zenon
    <3>2. CASE ~(n > 1)
      <4>1. n = 1 /\ m = 0 BY <2>1, <3>2
      <4>2. b = <<>> BY <1>9, <2>2, <4>1
      <4>3. e = t
        <5>1. e = <<>> \o t
          BY <2>4, <2>9, <3>2, <4>2, Zenon DEF Separated
        <5> QED BY <5>1 DEF Token
      <4>4. Tokens(e) = <<t>>
        BY <2>5, <4>3, TokensOfOne
      <4>5. Read(1) = <<MemberText(c, 1)>> OBVIOUS
      <4> QED BY <2>5, <4>1, <4>4, <4>5, Zenon
    <3> QED BY <3>1, <3>2
  <2> HIDE DEF Read
  <2> QED BY <2>1, <2>9, <2>10, <2>11
<1> HIDE DEF W
<1>12. \A n \in 0 .. N : n \in W
  BY <1>10, <1>11, CountingUp
<1>13. N \in W BY <1>12
<1> QED BY <1>1, <1>2, <1>4, <1>13, Zenon DEF W

(* The members that a cookie has are those of the tokens before place n. *)
ReadUpTo(tokens, c, n) ==
    \A i \in 1 .. n : Equals(tokens[i]) # {} /\ Split(tokens[i]) = <<c.node[i].key, c.node[i].value>>

(* The cookie d is c and one more member. *)
IsAppended(d, c, key, value) ==
    /\ IsText(d) /\ d.count = c.count + 1
    /\ d.node[d.count].key = key /\ d.node[d.count].value = value
    /\ \A i \in 1 .. c.count : d.node[i].key = c.node[i].key /\ d.node[i].value = c.node[i].value

(* cookie_append() of strings. *)
LEMMA AppendedIsText ==
    ASSUME NEW c, IsText(c), NEW key \in String, NEW value \in String
    PROVE  IsAppended(Appended(c, key, value), c, key, value)
<1>1. PICK d : d = Appended(c, key, value) OBVIOUS
<1>2. PICK n \in Nat : n = c.count BY DEF IsText, IsList
<1>3. IsList(d) /\ Members(d) = Append(Members(c), <<key, value>>)
  BY <1>1, AppendedIsList DEF IsText
<1>4. d.count = n + 1 BY <1>1, <1>2 DEF Appended
<1>5. Members(d) = [i \in 1 .. n + 1 |-> <<d.node[i].key, d.node[i].value>>]
  BY <1>3, <1>4, MembersOfList
<1>6. PICK f : f = Members(c) /\ f = [i \in 1 .. n |-> <<c.node[i].key, c.node[i].value>>]
  BY <1>2, MembersOfList DEF IsText
<1>7. Append(f, <<key, value>>) = [i \in 1 .. n + 1 |-> IF i = n + 1 THEN <<key, value>> ELSE f[i]]
  <2>1. f = [i \in 1 .. n |-> f[i]] BY <1>6
  <2> QED BY <2>1, Appending
<1>8. \A i \in 1 .. n + 1 : <<d.node[i].key, d.node[i].value>> = IF i = n + 1 THEN <<key, value>> ELSE f[i]
  <2>1. [i \in 1 .. n + 1 |-> <<d.node[i].key, d.node[i].value>>]
            = [i \in 1 .. n + 1 |-> IF i = n + 1 THEN <<key, value>> ELSE f[i]]
    BY <1>3, <1>5, <1>6, <1>7, Zenon
  <2> QED BY <2>1
<1>9. d.node[n + 1].key = key /\ d.node[n + 1].value = value
  <2>1. n + 1 \in 1 .. n + 1 OBVIOUS
  <2>2. <<d.node[n + 1].key, d.node[n + 1].value>> = <<key, value>>
    BY <1>8, <2>1
  <2> QED BY <2>2
<1>10. \A i \in 1 .. n : d.node[i].key = c.node[i].key /\ d.node[i].value = c.node[i].value
  <2> SUFFICES ASSUME NEW i \in 1 .. n
               PROVE  d.node[i].key = c.node[i].key /\ d.node[i].value = c.node[i].value
    OBVIOUS
  <2>1. i \in 1 .. n + 1 /\ i # n + 1 OBVIOUS
  <2>2. <<d.node[i].key, d.node[i].value>> = f[i]
    BY <1>8, <2>1
  <2>3. f[i] = <<c.node[i].key, c.node[i].value>>
    BY <1>6
  <2> QED BY <2>2, <2>3
<1>11. \A i \in 1 .. n + 1 : i = n + 1 \/ i \in 1 .. n OBVIOUS
<1>12. IsText(d)
  <2>1. \A i \in 1 .. n : c.node[i].key \in String /\ c.node[i].value \in String
    BY <1>2 DEF IsText
  <2>2. \A i \in 1 .. n + 1 : d.node[i].key \in String /\ d.node[i].value \in String
    BY <1>9, <1>10, <1>11, <2>1, Zenon
  <2> QED BY <1>3, <1>4, <2>2 DEF IsText
<1> QED BY <1>1, <1>2, <1>4, <1>9, <1>10, <1>12, Zenon DEF IsAppended

(* The tokens of any bytes, and the strings they are split into. *)
LEMMA TokensAreStrings ==
    ASSUME NEW s \in Seq(Byte)
    PROVE  /\ Tokens(s) \in Seq(Token)
           /\ \A t \in Token : Equals(t) # {} => /\ Split(t) = <<Split(t)[1], Split(t)[2]>>
                                                /\ Split(t)[1] \in String /\ Split(t)[2] \in String
<1>1. Tokens(s) \in Seq(Token)
  <2>1. PICK n \in Nat : n = Strlen(s) BY StrlenIs
  <2>2. PICK from : TokensFrom(s, n, from) /\ Tokens(s) = from[1]
    BY <2>1, TokensAre
  <2>3. from \in [1 .. n + 2 -> Seq(Token)] /\ 1 \in 1 .. n + 2
    BY <2>2 DEF TokensFrom
  <2> QED BY <2>2, <2>3
<1>2. ASSUME NEW t \in Token, Equals(t) # {}
      PROVE  /\ Split(t) = <<Split(t)[1], Split(t)[2]>>
             /\ Split(t)[1] \in String /\ Split(t)[2] \in String
  <2>1. t \in String /\ Len(t) \in Nat /\ DOMAIN t = 1 .. Len(t)
    BY DEF Token, String
  <2>2. Equals(t) \subseteq Nat /\ Equals(t) \subseteq 1 .. Len(t)
    BY <2>1 DEF Equals
  <2> DEFINE eq == CHOOSE k \in Equals(t) : \A j \in Equals(t) : k <= j
  <2>3. eq \in Equals(t)
    <3>1. \E k \in Equals(t) : \A j \in Equals(t) : k <= j
      BY <1>2, <2>2, Smallest
    <3> QED BY <3>1
  <2>4. eq \in 1 .. Len(t) BY <2>2, <2>3
  <2>5. Split(t) = <<SubSeq(t, 1, eq - 1), SubSeq(t, eq + 1, Len(t))>>
    BY DEF Split
  <2> HIDE DEF eq
  <2>6. SubSeq(t, 1, eq - 1) \in String /\ SubSeq(t, eq + 1, Len(t)) \in String
    BY <2>1, <2>4 DEF String
  <2>7. PICK x \in String, y \in String : Split(t) = <<x, y>> BY <2>5, <2>6
  <2>8. <<x, y>>[1] = x /\ <<x, y>>[2] = y OBVIOUS
  <2> QED BY <2>7, <2>8, Zenon
<1> QED BY <1>1, <1>2

(* What is encoded is decoded. *)

(* A cookie that a string is being decoded into has the members of the
   tokens that are not left. *)
TodoInv ==
    todo # NULL =>
        /\ cookie # NULL
        /\ todo = [of |-> todo.of, tokens |-> todo.tokens]
        /\ todo.of \in Seq(Byte)
        /\ cookie.count <= Len(Tokens(todo.of))
        /\ todo.tokens = SubSeq(Tokens(todo.of), cookie.count + 1, Len(Tokens(todo.of)))
        /\ ReadUpTo(Tokens(todo.of), cookie, cookie.count)

(* A string is refused because of a token, or has the members of all. *)
DecodedInv ==
    answer.op = "decode" /\ answer.of.string # NULL /\ ~answer.of.broke =>
        LET tokens == Tokens(answer.of.string) IN
        /\ answer.result = 0 \/ \E i \in 1 .. Len(tokens) : Equals(tokens[i]) = {}
        /\ cookie # NULL /\ todo = NULL =>
            /\ cookie.count = Len(tokens)
            /\ ReadUpTo(tokens, cookie, cookie.count)

(* A text has a token of each member it was made of. *)
WrittenInv ==
    /\ text.broke \/ text.string # NULL
    /\ text.string # NULL =>
        LET tokens == Tokens(text.string)
            members == text.members
        IN  /\ text.string \in String
            /\ members = [i \in 1 .. Len(tokens) |-> members[i]]
            /\ \A i \in 1 .. Len(tokens) :
                /\ Equals(tokens[i]) # {}
                /\ Split(tokens[i]) = <<Unseparated(members[i][1]), Unseparated(members[i][2])>>

TextInv ==
    /\ cookie # NULL => IsText(cookie)
    /\ TodoInv
    /\ DecodedInv
    /\ WrittenInv

(* cookie_encode() *)
LEMMA EncodeKeepsText ==
    ASSUME TextInv, CookieEncode
    PROVE  WrittenInv'
<1>1. PICK c : c = cookie /\ IsText(c) BY DEF TextInv, CookieEncode
<1>2. PICK s \in String : s = Encoded(c) /\ Tokens(s) = [i \in 1 .. c.count |-> MemberText(c, i)]
  BY <1>1, EncodedIs
<1>3. PICK n \in Nat : n = c.count BY <1>1 DEF IsText, IsList
<1>4. PICK fails \in BOOLEAN : text' = [string  |-> IF fails THEN NULL ELSE s,
                                        members |-> Members(c),
                                        broke   |-> fails]
  BY <1>1, <1>2 DEF CookieEncode
<1>5. text'.string = (IF fails THEN NULL ELSE s) /\ text'.members = Members(c) /\ text'.broke = fails
  BY <1>4
<1>6. s # NULL BY StringIs
<1>7. text'.broke \/ text'.string # NULL
  BY <1>5, <1>6
<1>8. CASE fails BY <1>5, <1>7, <1>8 DEF WrittenInv
<1>9. CASE ~fails
  <2>1. PICK tokens : tokens = Tokens(s) /\ tokens = [i \in 1 .. n |-> MemberText(c, i)]
    BY <1>2, <1>3
  <2>2. Len(tokens) = n
    <3>1. tokens = [i \in 1 .. n |-> tokens[i]]
      BY <2>1
    <3> QED BY <3>1, Appending
  <2>3. PICK members : members = Members(c) /\ members = [i \in 1 .. n |-> <<c.node[i].key, c.node[i].value>>]
    BY <1>1, <1>3, MembersOfList DEF IsText
  <2>4. members = [i \in 1 .. n |-> members[i]]
    BY <2>3
  <2>5. ASSUME NEW i \in 1 .. n
        PROVE  /\ Equals(tokens[i]) # {}
               /\ Split(tokens[i]) = <<Unseparated(members[i][1]), Unseparated(members[i][2])>>
    <3>1. c.node[i].key \in String /\ c.node[i].value \in String
      BY <1>1, <1>3 DEF IsText
    <3>2. tokens[i] = TextOf(c.node[i].key, c.node[i].value)
      BY <2>1 DEF MemberText
    <3>3. members[i][1] = c.node[i].key /\ members[i][2] = c.node[i].value
      BY <2>3
    <3> QED BY <3>1, <3>2, <3>3, TextIsRead
  <2>6. text'.string = s /\ text'.members = members
    BY <1>5, <1>9, <2>3
  <2> QED BY <1>7, <2>1, <2>2, <2>4, <2>5, <2>6 DEF WrittenInv
<1> QED BY <1>8, <1>9

(* cookie_decode() of one more token. *)
LEMMA TokenKeepsText ==
    ASSUME NullIsNoValue, TextInv, DecodeToken
    PROVE  TextInv'
<1>1. /\ todo # NULL /\ todo.tokens # <<>>
      /\ \/ /\ Equals(Head(todo.tokens)) # {}
            /\ cookie' = Appended(cookie, Split(Head(todo.tokens))[1], Split(Head(todo.tokens))[2])
            /\ todo' = [todo EXCEPT !.tokens = Tail(todo.tokens)]
            /\ UNCHANGED answer
         \/ cookie' = NULL /\ DecodeReturns(todo.of, Equals(Head(todo.tokens)) # {}, -1)
      /\ UNCHANGED text
  BY DEF DecodeToken
<1>2. PICK c : c = cookie /\ IsText(c) BY <1>1 DEF TextInv, TodoInv
<1>3. PICK n \in Nat : n = c.count BY <1>2 DEF IsText, IsList
<1>4. PICK s \in Seq(Byte) : /\ s = todo.of /\ todo = [of |-> s, tokens |-> todo.tokens]
                             /\ n <= Len(Tokens(s))
                             /\ todo.tokens = SubSeq(Tokens(s), n + 1, Len(Tokens(s)))
                             /\ ReadUpTo(Tokens(s), c, n)
  BY <1>1, <1>2, <1>3 DEF TextInv, TodoInv
<1>5. PICK tokens \in Seq(Token) : tokens = Tokens(s) BY TokensAreStrings
<1>6. PICK len \in Nat : len = Len(tokens) /\ n <= len /\ DOMAIN tokens = 1 .. len
  BY <1>4, <1>5
<1>7. PICK left : left = todo.tokens /\ left = SubSeq(tokens, n + 1, len) /\ left # <<>>
  BY <1>1, <1>4, <1>5, <1>6
<1>8. n + 1 <= len BY <1>6, <1>7
<1>9. PICK t \in Token : t = Head(left) /\ t = tokens[n + 1]
  <2>1. n + 1 \in 1 .. len BY <1>8
  <2>2. Head(left) = tokens[n + 1]
    BY <1>5, <1>6, <1>7, <1>8
  <2> QED BY <1>5, <1>6, <2>1, <2>2
<1>10. Tail(left) = SubSeq(tokens, n + 2, len)
  BY <1>5, <1>6, <1>7, <1>8
<1>11. WrittenInv'
  <2>1. WrittenInv /\ UNCHANGED text
    BY <1>1 DEF TextInv
  <2> QED BY <2>1 DEF WrittenInv
<1>12. CASE /\ Equals(t) # {}
            /\ cookie' = Appended(cookie, Split(t)[1], Split(t)[2])
            /\ todo' = [todo EXCEPT !.tokens = Tail(left)]
            /\ UNCHANGED answer
  <2>1. PICK key \in String, value \in String : key = Split(t)[1] /\ value = Split(t)[2] /\ Split(t) = <<key, value>>
    BY <1>12, TokensAreStrings
  <2>2. PICK d : d = Appended(c, key, value) OBVIOUS
  <2>3. /\ IsText(d) /\ d.count = n + 1
        /\ d.node[n + 1].key = key /\ d.node[n + 1].value = value
        /\ \A i \in 1 .. n : d.node[i].key = c.node[i].key /\ d.node[i].value = c.node[i].value
    <3>1. IsAppended(d, c, key, value)
      BY <1>2, <2>1, <2>2, AppendedIsText
    <3> QED BY <1>3, <3>1 DEF IsAppended
  <2>4. cookie' = d BY <1>2, <1>12, <2>1, <2>2
  <2>5. d # NULL BY <2>3, ListsAreNotNull DEF IsText
  <2>6. todo' = [of |-> s, tokens |-> Tail(left)]
    BY <1>4, <1>12
  <2>7. todo' # NULL BY <2>6 DEF NullIsNoValue
  <2>8. ReadUpTo(tokens, d, n + 1)
    <3>1. ASSUME NEW i \in 1 .. n + 1
          PROVE  Equals(tokens[i]) # {} /\ Split(tokens[i]) = <<d.node[i].key, d.node[i].value>>
      <4>1. CASE i = n + 1 BY <1>9, <1>12, <2>1, <2>3, <4>1
      <4>2. CASE i # n + 1
        <5>1. i \in 1 .. n BY <4>2
        <5> QED BY <1>4, <1>5, <2>3, <5>1 DEF ReadUpTo
      <4> QED BY <4>1, <4>2
    <3> QED BY <3>1 DEF ReadUpTo
  <2>9. TodoInv'
    <3>1. todo'.of = s /\ todo'.tokens = Tail(left)
      BY <2>6
    <3>2. (n + 1) + 1 = n + 2 OBVIOUS
    <3>3. todo'.tokens = SubSeq(Tokens(todo'.of), cookie'.count + 1, Len(Tokens(todo'.of)))
      BY <1>5, <1>6, <1>10, <2>3, <2>4, <3>1, <3>2
    <3>4. cookie'.count <= Len(Tokens(todo'.of))
      BY <1>5, <1>6, <1>8, <2>3, <2>4, <3>1
    <3>5. ReadUpTo(Tokens(todo'.of), cookie', cookie'.count)
      BY <1>5, <2>3, <2>4, <2>8, <3>1
    <3>6. todo' = [of |-> todo'.of, tokens |-> todo'.tokens] /\ todo'.of \in Seq(Byte) /\ cookie' # NULL
      BY <2>4, <2>5, <2>6, <3>1
    <3> QED BY <3>3, <3>4, <3>5, <3>6 DEF TodoInv
  <2>10. DecodedInv'
    BY <1>12, <2>7 DEF DecodedInv, TextInv
  <2> QED BY <1>11, <2>3, <2>4, <2>9, <2>10 DEF TextInv
<1>13. CASE cookie' = NULL /\ DecodeReturns(s, Equals(t) # {}, -1)
  <2>1. todo' = NULL /\ answer' = [op |-> "decode", of |-> [string |-> s, broke |-> Equals(t) # {}], result |-> -1]
    BY <1>13 DEF DecodeReturns, Answer
  <2>2. answer'.of.string = s /\ answer'.of.broke = (Equals(t) # {})
    BY <2>1
  <2>3. n + 1 \in 1 .. Len(Tokens(s)) /\ Tokens(s)[n + 1] = t
    BY <1>5, <1>6, <1>8, <1>9
  <2>4. DecodedInv'
    BY <1>13, <2>2, <2>3 DEF DecodedInv
  <2>5. TodoInv' BY <2>1 DEF TodoInv
  <2> QED BY <1>11, <1>13, <2>4, <2>5 DEF TextInv
<1> QED BY <1>1, <1>4, <1>7, <1>9, <1>12, <1>13

(* cookie_append() of strings, whichever they are. *)
LEMMA AppendKeepsText ==
    ASSUME TextInv, NEW key \in String, NEW value \in String, CookieAppend(key, value)
    PROVE  TextInv'
<1>1. todo = NULL /\ todo' = NULL /\ UNCHANGED text /\ answer'.op = "append"
  BY DEF CookieAppend, Answer
<1>2. cookie' # NULL => IsText(cookie')
  <2>1. CASE UNCHANGED cookie BY <2>1 DEF TextInv
  <2>2. CASE cookie # NULL /\ cookie' = Appended(cookie, key, value)
    <3>1. IsText(cookie) BY <2>2 DEF TextInv
    <3> QED BY <2>2, <3>1, AppendedIsText DEF IsAppended
  <2> QED BY <2>1, <2>2 DEF CookieAppend
<1> QED BY <1>1, <1>2 DEF TextInv, TodoInv, DecodedInv, WrittenInv

(* cookie_decode(), of bytes or of NULL. *)
LEMMA DecodeKeepsText ==
    ASSUME NullIsNoValue, TextInv, NEW s, s = NULL \/ s \in Seq(Byte), CookieDecode(s)
    PROVE  TextInv'
<1>2. cookie = NULL /\ UNCHANGED text
  BY DEF CookieDecode
<1>3. WrittenInv' BY <1>2 DEF TextInv, WrittenInv
<1>4. CASE /\ s # NULL /\ cookie' = Empty
           /\ todo' = [of |-> s, tokens |-> Tokens(s)]
           /\ UNCHANGED answer
  <2>1. PICK tokens \in Seq(Token) : tokens = Tokens(s)
    BY <1>4, TokensAreStrings
  <2>2. tokens = SubSeq(tokens, 0 + 1, Len(tokens)) /\ 0 <= Len(tokens)
    OBVIOUS
  <2>3. Empty.count = 0 BY DEF Empty
  <2>4. IsText(Empty) /\ Empty # NULL
    <3>1. IsText(Empty)
      BY <2>3, EmptyIsList DEF IsText
    <3> QED BY <3>1, ListsAreNotNull DEF IsText
  <2>5. todo'.of = s /\ todo'.tokens = tokens /\ todo' # NULL
    BY <1>4, <2>1 DEF NullIsNoValue
  <2>6. TodoInv'
    <3>1. ReadUpTo(tokens, Empty, 0) BY DEF ReadUpTo
    <3> QED BY <1>4, <2>1, <2>2, <2>3, <2>4, <2>5, <3>1 DEF TodoInv
  <2>7. DecodedInv'
    BY <1>4, <2>5 DEF TextInv, DecodedInv
  <2> QED BY <1>3, <1>4, <2>4, <2>6, <2>7 DEF TextInv
<1>5. CASE UNCHANGED cookie /\ DecodeReturns(s, s # NULL, -1)
  <2>1. cookie' = NULL /\ todo' = NULL
    BY <1>2, <1>5 DEF DecodeReturns
  <2>2. answer'.of.string = s /\ answer'.of.broke = (s # NULL)
    BY <1>5 DEF DecodeReturns, Answer
  <2> QED BY <1>3, <2>1, <2>2 DEF TextInv, TodoInv, DecodedInv
<1> QED BY <1>4, <1>5 DEF CookieDecode

(* The other calls. *)
LEMMA TextStep ==
    ASSUME NullIsNoValue, TextInv, [CookieNext]_cookieVars
    PROVE  TextInv'
<1>1. CASE CookieAlloc
  <2>1. todo = NULL /\ todo' = NULL
    BY <1>1 DEF CookieAlloc, TextInv, TodoInv
  <2>2. answer'.op = "alloc" /\ UNCHANGED text
    BY <1>1 DEF CookieAlloc, Answer
  <2>3. cookie' # NULL => IsText(cookie')
    BY <1>1, EmptyIsList DEF CookieAlloc, MayFail, IsText, Empty
  <2> QED BY <2>1, <2>2, <2>3 DEF TextInv, TodoInv, DecodedInv, WrittenInv
<1>2. ASSUME NEW key \in Keys, NEW value \in Values, CookieAppend(key, value) PROVE TextInv'
  <2>1. key \in String /\ value \in String
    BY CookieAssumption DEF String
  <2> QED BY <1>2, <2>1, AppendKeepsText
<1>3. CASE CookieCount \/ (\E index \in 0 .. MaxMembers : CookieLookupAt(index))
                       \/ (\E key \in Keys : CookieLookup(key))
  <2>1. UNCHANGED <<cookie, todo, text>> /\ todo = NULL /\ answer'.op # "decode"
    BY <1>3 DEF CookieCount, CookieLookupAt, CookieLookup, Answer
  <2> QED BY <2>1 DEF TextInv, TodoInv, DecodedInv, WrittenInv
<1>4. CASE CookieEncode
  <2>1. UNCHANGED <<cookie, todo, answer>>
    BY <1>4 DEF CookieEncode
  <2>2. WrittenInv' BY <1>4, EncodeKeepsText
  <2> QED BY <2>1, <2>2 DEF TextInv, TodoInv, DecodedInv
<1>5. ASSUME NEW s \in Texts \cup {text.string}, CookieDecode(s) PROVE TextInv'
  <2>1. s = NULL \/ s \in Seq(Byte)
    BY CookieAssumption, StringIs DEF TextInv, WrittenInv
  <2> QED BY <1>5, <2>1, DecodeKeepsText
<1>6. CASE DecodeToken BY <1>6, TokenKeepsText
<1>7. CASE DecodeEnds
  <2>1. todo # NULL /\ todo.tokens = <<>> /\ UNCHANGED <<cookie, text>> /\ todo' = NULL
    BY <1>7 DEF DecodeEnds, DecodeReturns
  <2>2. PICK s \in Seq(Byte) : s = todo.of BY <2>1 DEF TextInv, TodoInv
  <2>3. answer'.of.string = s /\ answer'.result = 0
    BY <1>7, <2>2 DEF DecodeEnds, DecodeReturns, Answer
  <2>4. PICK tokens \in Seq(Token) : tokens = Tokens(s) BY TokensAreStrings
  <2>5. PICK n \in Nat : n = cookie.count
    BY <2>1 DEF TextInv, TodoInv, IsText, IsList
  <2>6. n <= Len(tokens) /\ <<>> = SubSeq(tokens, n + 1, Len(tokens)) /\ ReadUpTo(tokens, cookie, n)
    BY <2>1, <2>2, <2>4, <2>5 DEF TextInv, TodoInv
  <2>7. n = Len(tokens)
    <3>1. PICK len \in Nat : len = Len(tokens) /\ n <= len BY <2>4, <2>6
    <3>2. Len(SubSeq(tokens, n + 1, len)) = len - n
      BY <2>4, <3>1
    <3>3. Len(<<>>) = 0 OBVIOUS
    <3>4. SubSeq(tokens, n + 1, len) = <<>>
      BY <2>6, <3>1, Zenon
    <3>5. len - n = 0 BY <3>2, <3>3, <3>4, Zenon
    <3> QED BY <3>1, <3>5
  <2>8. DecodedInv'
    BY <2>1, <2>3, <2>4, <2>5, <2>6, <2>7 DEF DecodedInv
  <2> QED BY <2>1, <2>8 DEF TextInv, TodoInv, WrittenInv
<1>8. CASE CookieFree
  <2>1. cookie' = NULL /\ todo = NULL /\ UNCHANGED <<todo, answer, text>>
    BY <1>8 DEF CookieFree
  <2> QED BY <2>1 DEF TextInv, TodoInv, DecodedInv, WrittenInv
<1>9. CASE UNCHANGED cookieVars
  BY <1>9 DEF cookieVars, TextInv, TodoInv, DecodedInv, WrittenInv
<1> QED BY <1>1, <1>2, <1>3, <1>4, <1>5, <1>6, <1>7, <1>8, <1>9 DEF CookieNext

(* What a text and its decoding are, is what is promised of both. *)
LEMMA TextIsDecoded ==
    ASSUME TextInv
    PROVE  DecodeInvertsEncode
<1>1. text.broke \/ text.string # NULL
  BY DEF TextInv, WrittenInv
<1>2. ASSUME answer.op = "decode", text.string # NULL, answer.of.string = text.string,
             ~answer.of.broke
      PROVE  /\ answer.result = 0
             /\ cookie # NULL /\ todo = NULL =>
                Members(cookie) = [i \in DOMAIN text.members |->
                    <<Unseparated(text.members[i][1]), Unseparated(text.members[i][2])>>]
  <2>1. PICK tokens : tokens = Tokens(text.string) OBVIOUS
  <2>2. PICK members : members = text.members OBVIOUS
  <2>3. /\ members = [i \in 1 .. Len(tokens) |-> members[i]]
        /\ \A i \in 1 .. Len(tokens) :
            /\ Equals(tokens[i]) # {}
            /\ Split(tokens[i]) = <<Unseparated(members[i][1]), Unseparated(members[i][2])>>
    BY <1>2, <2>1, <2>2 DEF TextInv, WrittenInv
  <2>4. /\ answer.result = 0 \/ \E i \in 1 .. Len(tokens) : Equals(tokens[i]) = {}
        /\ cookie # NULL /\ todo = NULL =>
            cookie.count = Len(tokens) /\ ReadUpTo(tokens, cookie, cookie.count)
    BY <1>2, <2>1 DEF TextInv, DecodedInv
  <2>5. answer.result = 0 BY <2>3, <2>4
  <2>6. ASSUME cookie # NULL, todo = NULL
        PROVE  Members(cookie) = [i \in DOMAIN members |->
                    <<Unseparated(members[i][1]), Unseparated(members[i][2])>>]
    <3>1. IsList(cookie) BY <2>6 DEF TextInv, IsText
    <3>2. Members(cookie) = [i \in 1 .. Len(tokens) |-> <<cookie.node[i].key, cookie.node[i].value>>]
      BY <2>4, <2>6, <3>1, MembersOfList
    <3>3. \A i \in 1 .. Len(tokens) : <<cookie.node[i].key, cookie.node[i].value>>
                = <<Unseparated(members[i][1]), Unseparated(members[i][2])>>
      BY <2>3, <2>4, <2>6, Zenon DEF ReadUpTo
    <3>4. DOMAIN members = 1 .. Len(tokens) BY <2>3
    <3> QED BY <3>2, <3>3, <3>4
  <2> QED BY <2>2, <2>5, <2>6
<1> QED BY <1>1, <1>2, Zenon DEF DecodeInvertsEncode

(* cookie_encode() has always room for what it writes, although it counts
   what it then leaves out; and what it wrote is decoded to the members
   without their separators, for all keys and values. *)
THEOREM DecodedIsWhatWasEncoded == NullIsNoValue => (CookieSpec => []DecodeInvertsEncode)
<1> SUFFICES ASSUME NullIsNoValue PROVE CookieSpec => []DecodeInvertsEncode
  OBVIOUS
<1>1. CookieInit => TextInv
  BY DEF CookieInit, TextInv, TodoInv, DecodedInv, WrittenInv
<1>2. TextInv /\ [CookieNext]_cookieVars => TextInv'
  BY TextStep
<1>3. TextInv => DecodeInvertsEncode
  BY TextIsDecoded
<1> QED BY <1>1, <1>2, <1>3, PTL DEF CookieSpec

(* Texts of comments. *)

(* Parts of at most three bytes each, joined. *)
LEMMA JoinedOver ==
    ASSUME NEW n \in Nat, NEW S \in SUBSET Byte, NEW parts \in [1 .. n -> Seq(S)],
           \A k \in 1 .. n : Len(parts[k]) <= 3
    PROVE  Joined(parts) \in Seq(S) /\ Len(Joined(parts)) <= 3 * n
<1>1. parts \in [1 .. n -> Seq(Byte)]
  <2>1. \A s \in Seq(S) : s \in Seq(Byte) OBVIOUS
  <2> QED BY <2>1
<1>2. PICK joined \in [0 .. n -> Seq(Byte)] :
            /\ joined[0] = <<>>
            /\ \A k \in 1 .. n : joined[k] = joined[k - 1] \o parts[k]
            /\ Joined(parts) = joined[n]
  BY <1>1, JoinedIs
<1> DEFINE W == {k \in 0 .. n : joined[k] \in Seq(S) /\ Len(joined[k]) <= 3 * k}
<1>3. 0 \in W
  <2>1. <<>> \in Seq(S) /\ Len(<<>>) = 0 /\ 0 \in 0 .. n OBVIOUS
  <2> QED BY <1>2, <2>1
<1>4. ASSUME NEW k \in 0 .. n - 1, k \in W PROVE k + 1 \in W
  <2>1. k + 1 \in 1 .. n /\ k + 1 \in 0 .. n /\ (k + 1) - 1 = k /\ k \in Nat
    OBVIOUS
  <2>2. joined[k + 1] = joined[k] \o parts[k + 1]
    BY <1>2, <2>1, Zenon
  <2>3. PICK u \in Seq(S) : u = joined[k] /\ Len(u) <= 3 * k BY <1>4
  <2>4. PICK v \in Seq(S) : v = parts[k + 1] /\ Len(v) <= 3 BY <2>1
  <2>5. u \o v \in Seq(S) /\ Len(u \o v) = Len(u) + Len(v) /\ Len(u) \in Nat /\ Len(v) \in Nat
    OBVIOUS
  <2>6. Len(u \o v) <= 3 * (k + 1)
    <3>1. Len(u) <= 3 * k /\ Len(v) <= 3
      BY <2>3, <2>4
    <3> HIDE DEF W
    <3> QED BY <2>1, <2>5, <3>1
  <2> QED BY <2>1, <2>2, <2>3, <2>4, <2>5, <2>6
<1> HIDE DEF W
<1>5. \A k \in 0 .. n : k \in W
  BY <1>3, <1>4, CountingUp
<1>6. n \in W BY <1>5
<1> QED BY <1>2, <1>6 DEF W

(* What separates the fields is quoted, and nothing gets longer than three
   times what it was. *)
LEMMA QuotedIs ==
    ASSUME NEW g \in String
    PROVE  Quoted(g) \in Seq(Byte \ {Semicolon, Eq}) /\ Len(Quoted(g)) <= 3 * Len(g)
<1>1. PICK n \in Nat : n = Len(g) /\ DOMAIN g = 1 .. n /\ \A k \in 1 .. n : g[k] \in Character
  BY DEF String
<1>2. PICK parts : parts = [k \in 1 .. n |-> CASE g[k] = Eq -> <<37, 51, 68>>
                                               [] g[k] = Semicolon -> <<37, 51, 66>>
                                               [] OTHER -> <<g[k]>>]
  OBVIOUS
<1>3. Quoted(g) = Joined(parts)
  BY <1>1, <1>2, Zenon DEF Quoted
<1>4. ASSUME NEW k \in 1 .. n
      PROVE  parts[k] \in Seq(Byte \ {Semicolon, Eq}) /\ Len(parts[k]) <= 3
  <2>0. Semicolon # Eq BY DEF Semicolon, Eq
  <2>1. CASE g[k] = Eq
    <3>1. parts[k] = <<37, 51, 68>>
      BY <1>2, <2>0, <2>1
    <3> QED BY <3>1 DEF Byte, Semicolon, Eq
  <2>2. CASE g[k] # Eq /\ g[k] = Semicolon
    <3>1. parts[k] = <<37, 51, 66>> BY <1>2, <2>2
    <3> QED BY <3>1 DEF Byte, Semicolon, Eq
  <2>3. CASE g[k] # Eq /\ g[k] # Semicolon
    <3>1. parts[k] = <<g[k]>> BY <1>2, <2>3
    <3>2. g[k] \in Byte \ {Semicolon, Eq}
      BY <1>1, <2>3 DEF Character, Byte
    <3> QED BY <3>1, <3>2
  <2> QED BY <2>1, <2>2, <2>3
<1>5. parts \in [1 .. n -> Seq(Byte \ {Semicolon, Eq})]
  BY <1>2, <1>4
<1>6. Byte \ {Semicolon, Eq} \in SUBSET Byte OBVIOUS
<1> QED BY <1>1, <1>3, <1>4, <1>5, <1>6, JoinedOver

(* Where the separators of the service's own text are. *)
LEMMA PrefixIs ==
    /\ Prefix \in Seq(Byte) /\ Len(Prefix) = 32
    /\ \A k \in 1 .. 32 : Prefix[k] = Semicolon <=> k = 23
    /\ \A k \in 1 .. 32 : Prefix[k] = Eq <=> k \in {9, 32}
    /\ Prefix[24] = 117
BY DEF Prefix, Byte, Semicolon, Eq

(* And of the part after what the user writes. *)
LEMMA SuffixIs ==
    /\ Suffix \in Seq(Byte) /\ Len(Suffix) = 42
    /\ \A k \in 1 .. 42 : Suffix[k] = Semicolon <=> k = 1
    /\ \A k \in 1 .. 42 : Suffix[k] = Eq <=> k = 10
BY DEF Suffix, Byte, Semicolon, Eq

(* The target starts with a separator of fields. *)
LEMMA TargetIs ==
    /\ Target # NULL /\ Len(Target) = 12
    /\ Target[1] = Semicolon /\ Target[2] = 97 /\ Target[12] = Semicolon
<1>1. Target \in Seq(Byte) BY DEF Target, Byte
<1> QED BY <1>1, BytesAssumption DEF Target, Semicolon

(* The text the service encrypts. *)
Comment(g) == Joined(<<Prefix, Quoted(g), Suffix>>)

(* Its separators are the service's own, whatever a user writes. *)
LEMMA CommentIs ==
    ASSUME NEW g \in String
    PROVE  /\ Comment(g) \in Seq(Byte)
           /\ \E q \in Nat :
                /\ q <= 3 * Len(g) /\ Len(Comment(g)) = q + 74
                /\ Occurrences(Comment(g), Semicolon) = {23, q + 33}
                /\ Occurrences(Comment(g), Eq) = {9, 32, q + 42}
                /\ Comment(g)[24] = 117
<1>1. PICK quoted \in Seq(Byte), q \in Nat :
            /\ quoted = Quoted(g) /\ q = Len(quoted) /\ q <= 3 * Len(g)
            /\ \A k \in 1 .. q : quoted[k] # Semicolon /\ quoted[k] # Eq
  <2>1. Quoted(g) \in Seq(Byte \ {Semicolon, Eq}) /\ Len(Quoted(g)) <= 3 * Len(g)
    BY QuotedIs
  <2>2. PICK quoted \in Seq(Byte \ {Semicolon, Eq}) : quoted = Quoted(g)
    BY <2>1
  <2>3. quoted \in Seq(Byte) /\ Len(quoted) \in Nat OBVIOUS
  <2>4. \A k \in 1 .. Len(quoted) : quoted[k] # Semicolon /\ quoted[k] # Eq
    OBVIOUS
  <2> QED BY <2>1, <2>2, <2>3, <2>4, Zenon
<1> DEFINE Marks(t, len, A, B) ==
             \A k \in 1 .. len : (t[k] = Semicolon <=> k \in A) /\ (t[k] = Eq <=> k \in B)
<1>2. PICK p \in Seq(Byte), s \in Seq(Byte) :
            /\ p = Prefix /\ Len(p) = 32 /\ p[24] = 117 /\ Marks(p, 32, {23}, {9, 32})
            /\ s = Suffix /\ Len(s) = 42 /\ Marks(s, 42, {1}, {10})
  <2>1. Marks(Prefix, 32, {23}, {9, 32}) /\ Marks(Suffix, 42, {1}, {10})
    BY PrefixIs, SuffixIs
  <2> HIDE DEF Marks
  <2> QED BY <2>1, PrefixIs, SuffixIs, Zenon
<1> HIDE DEF Marks
<1>3. PICK u \in Seq(Byte) :
            /\ u = p \o quoted /\ Len(u) = 32 + q
            /\ \A k \in 1 .. 32 + q : u[k] = IF k <= 32 THEN p[k] ELSE quoted[k - 32]
  <2>1. PICK u : u = p \o quoted OBVIOUS
  <2>2. /\ u \in Seq(Byte) /\ Len(u) = Len(p) + Len(quoted)
        /\ \A k \in 1 .. Len(p) + Len(quoted) : u[k] = IF k <= Len(p) THEN p[k] ELSE quoted[k - Len(p)]
    BY <2>1, Concatenated
  <2>3. Len(p) = 32 /\ Len(quoted) = q
    BY <1>1, <1>2, Zenon
  <2>4. /\ Len(u) = 32 + q
        /\ \A k \in 1 .. 32 + q : u[k] = IF k <= 32 THEN p[k] ELSE quoted[k - 32]
    BY <2>2, <2>3
  <2> QED BY <2>1, <2>2, <2>4, Zenon
<1>4. PICK w \in Seq(Byte) :
            /\ w = u \o s /\ Len(w) = 74 + q
            /\ \A k \in 1 .. 74 + q : w[k] = IF k <= 32 + q THEN u[k] ELSE s[k - (32 + q)]
  <2>1. PICK w : w = u \o s OBVIOUS
  <2>2. /\ w \in Seq(Byte) /\ Len(w) = Len(u) + Len(s)
        /\ \A k \in 1 .. Len(u) + Len(s) : w[k] = IF k <= Len(u) THEN u[k] ELSE s[k - Len(u)]
    BY <2>1, Concatenated
  <2>3. Len(u) = 32 + q /\ Len(s) = 42
    BY <1>2, <1>3, Zenon
  <2>4. Len(u) + Len(s) = 74 + q BY <2>3
  <2>5. /\ Len(w) = 74 + q
        /\ \A k \in 1 .. 74 + q : w[k] = IF k <= 32 + q THEN u[k] ELSE s[k - (32 + q)]
    BY <2>2, <2>3, <2>4, Zenon
  <2> QED BY <2>1, <2>2, <2>5, Zenon
<1>6. Comment(g) = w
  <2>1. PICK parts : parts = <<p, quoted, s>> OBVIOUS
  <2>2. parts \in [1 .. 3 -> Seq(Byte)] /\ parts[1] = p /\ parts[2] = quoted /\ parts[3] = s
    BY <2>1
  <2>3. PICK joined \in [0 .. 3 -> Seq(Byte)] :
            /\ joined[0] = <<>>
            /\ \A k \in 1 .. 3 : joined[k] = joined[k - 1] \o parts[k]
            /\ Joined(parts) = joined[3]
    BY <2>2, JoinedIs
  <2>4. /\ joined[1] = joined[0] \o parts[1] /\ joined[2] = joined[1] \o parts[2]
        /\ joined[3] = joined[2] \o parts[3]
    <3>1. /\ 1 \in 1 .. 3 /\ 2 \in 1 .. 3 /\ 3 \in 1 .. 3
          /\ 1 - 1 = 0 /\ 2 - 1 = 1 /\ 3 - 1 = 2
      OBVIOUS
    <3>2. \A k \in 1 .. 3 : joined[k] = joined[k - 1] \o parts[k]
      BY <2>3, Zenon
    <3>3. joined[1] = joined[1 - 1] \o parts[1]
      BY <3>1, <3>2, Zenon
    <3>4. joined[2] = joined[2 - 1] \o parts[2]
      BY <3>1, <3>2, Zenon
    <3>5. joined[3] = joined[3 - 1] \o parts[3]
      BY <3>1, <3>2, Zenon
    <3> QED BY <3>1, <3>3, <3>4, <3>5, Zenon
  <2>5. <<>> \o p = p OBVIOUS
  <2>6. joined[3] = w
    BY <1>3, <1>4, <2>2, <2>3, <2>4, <2>5, Zenon
  <2> QED BY <1>1, <1>2, <2>1, <2>3, <2>6, Zenon DEF Comment
<1>7. DOMAIN w = 1 .. 74 + q BY <1>4
<1>8. ASSUME NEW k \in 1 .. 74 + q
      PROVE  /\ w[k] = Semicolon <=> k = 23 \/ k = q + 33
             /\ w[k] = Eq <=> k = 9 \/ k = 32 \/ k = q + 42
  <2>1. CASE k <= 32
    <3>1. k \in 1 .. 32 /\ k \in 1 .. 32 + q /\ k <= 32 + q
      BY <2>1
    <3>2. w[k] = p[k]
      BY <1>3, <1>4, <2>1, <3>1, Zenon
    <3>3. (w[k] = Semicolon <=> k = 23) /\ (w[k] = Eq <=> k \in {9, 32})
      <4>1. Marks(p, 32, {23}, {9, 32})
        BY <1>2, Zenon
      <4> QED BY <3>1, <3>2, <4>1, Zenon DEF Marks
    <3> QED BY <2>1, <3>3
  <2>2. CASE k > 32 /\ k <= 32 + q
    <3>1. k \in 1 .. 32 + q /\ k - 32 \in 1 .. q /\ ~(k <= 32)
      BY <2>2
    <3>2. w[k] = quoted[k - 32]
      BY <1>3, <1>4, <2>2, <3>1, Zenon
    <3>3. w[k] # Semicolon /\ w[k] # Eq
      BY <1>1, <3>1, <3>2, Zenon
    <3>4. ~(k = 23 \/ k = q + 33) /\ ~(k = 9 \/ k = 32 \/ k = q + 42)
      BY <2>2
    <3> QED BY <3>3, <3>4, Zenon
  <2>3. CASE k > 32 + q
    <3>1. PICK j \in 1 .. 42 : j = k - (32 + q) BY <2>3
    <3>2. w[k] = s[j] BY <1>4, <2>3, <3>1
    <3>3. /\ w[k] = Semicolon <=> j = 1
          /\ w[k] = Eq <=> j = 10
      <4>1. Marks(s, 42, {1}, {10}) BY <1>2, Zenon
      <4> QED BY <3>2, <4>1, Zenon DEF Marks
    <3> QED BY <2>3, <3>1, <3>3
  <2> QED BY <2>1, <2>2, <2>3
<1>9. Occurrences(w, Semicolon) = {23, q + 33} /\ Occurrences(w, Eq) = {9, 32, q + 42}
  <2>1. \A k : k \in {23, q + 33} => k \in 1 .. 74 + q OBVIOUS
  <2>2. \A k : k \in {9, 32, q + 42} => k \in 1 .. 74 + q OBVIOUS
  <2>3. \A k : k \in {23, q + 33} <=> k = 23 \/ k = q + 33 OBVIOUS
  <2>4. \A k : k \in {9, 32, q + 42} <=> k = 9 \/ k = 32 \/ k = q + 42
    OBVIOUS
  <2>5. Occurrences(w, Semicolon) = {k \in 1 .. 74 + q : w[k] = Semicolon}
    BY <1>7, Zenon DEF Occurrences
  <2>6. Occurrences(w, Eq) = {k \in 1 .. 74 + q : w[k] = Eq}
    BY <1>7, Zenon DEF Occurrences
  <2>7. Occurrences(w, Semicolon) = {23, q + 33}
    <3>1. \A k \in 1 .. 74 + q : w[k] = Semicolon <=> k \in {23, q + 33}
      BY <1>8, <2>3
    <3> QED BY <2>1, <2>5, <3>1, Zenon
  <2>8. Occurrences(w, Eq) = {9, 32, q + 42}
    <3>1. \A k \in 1 .. 74 + q : w[k] = Eq <=> k \in {9, 32, q + 42}
      BY <1>8, <2>4
    <3> HIDE DEF Marks
    <3>2. PICK S : S = {9, 32, q + 42} OBVIOUS
    <3>3. /\ \A k : k \in S => k \in 1 .. 74 + q
          /\ \A k \in 1 .. 74 + q : w[k] = Eq <=> k \in S
      BY <2>2, <3>1, <3>2, Zenon
    <3>4. Occurrences(w, Eq) = S
      BY <2>6, <3>3, Zenon
    <3> QED BY <3>2, <3>4, Zenon
  <2> QED BY <2>7, <2>8
<1>10. w[24] = 117
  <2>1. 24 \in 1 .. 74 + q /\ 24 \in 1 .. 32 + q /\ 24 <= 32 + q /\ 24 <= 32
    OBVIOUS
  <2>2. w[24] = u[24] BY <1>4, <2>1, Zenon
  <2>3. u[24] = p[24] BY <1>3, <2>1, Zenon
  <2> QED BY <1>2, <2>2, <2>3, Zenon
<1>11. Len(w) = q + 74 BY <1>4
<1> QED BY <1>1, <1>6, <1>9, <1>10, <1>11, Zenon

(* How many there are of two or three. *)
LEMMA FewElements ==
    /\ \A x, y : x # y => Cardinality({x, y}) = 2
    /\ \A x, y, z : x # y /\ x # z /\ y # z => Cardinality({x, y, z}) = 3
<1>1. ASSUME NEW x, NEW y, x # y PROVE IsFiniteSet({x, y}) /\ Cardinality({x, y}) = 2
  <2>1. IsFiniteSet({x}) /\ Cardinality({x}) = 1
    BY FS_Singleton, Zenon
  <2>2. y \notin {x} /\ {x, y} = {x} \cup {y}
    BY <1>1
  <2> QED BY <2>1, <2>2, FS_AddElement
<1>2. ASSUME NEW x, NEW y, NEW z, x # y, x # z, y # z PROVE Cardinality({x, y, z}) = 3
  <2>1. IsFiniteSet({x, y}) /\ Cardinality({x, y}) = 2
    BY <1>1, <1>2
  <2>2. z \notin {x, y} /\ {x, y, z} = {x, y} \cup {z}
    BY <1>2
  <2> QED BY <2>1, <2>2, FS_AddElement
<1> QED BY <1>1, <1>2

(* So it has three fields, and no field of a user's among them. *)
LEMMA CommentHasItsFields ==
    ASSUME NEW g \in String
    PROVE  /\ Cardinality(Occurrences(Comment(g), Semicolon)) = 2
           /\ Cardinality(Occurrences(Comment(g), Eq)) = 3
           /\ Find(Comment(g), Target).ret = 1
<1>1. PICK w \in Seq(Byte) : w = Comment(g) BY CommentIs
<1>2. PICK q \in Nat : /\ Len(w) = q + 74
                       /\ Occurrences(w, Semicolon) = {23, q + 33}
                       /\ Occurrences(w, Eq) = {9, 32, q + 42}
                       /\ w[24] = 117
  BY <1>1, CommentIs
<1>3. Cardinality(Occurrences(w, Semicolon)) = 2
  <2>1. PICK x, y : x = 23 /\ y = q + 33 /\ x # y OBVIOUS
  <2>2. Cardinality({x, y}) = 2
    BY <2>1, FewElements, Zenon
  <2> QED BY <1>2, <2>1, <2>2
<1>4. Cardinality(Occurrences(w, Eq)) = 3
  <2>1. PICK x, y, z : x = 9 /\ y = 32 /\ z = q + 42 /\ x # y /\ x # z /\ y # z
    OBVIOUS
  <2>2. x # y /\ x # z /\ y # z BY <2>1, Zenon
  <2>3. Cardinality({x, y, z}) = 3
    BY <2>2, FewElements
  <2> QED BY <1>2, <2>1, <2>3
<1>5. ASSUME NEW i \in 0 .. Len(w) - 1, i + Len(Target) <= Len(w),
             SubSeq(w, i + 1, i + Len(Target)) = Target
      PROVE  FALSE
  <2>1. i \in Nat /\ i + 12 <= q + 74 /\ SubSeq(w, i + 1, i + 12) = Target
    BY <1>2, <1>5, TargetIs
  <2>2. \A k \in 1 .. 12 : SubSeq(w, i + 1, i + 12)[k] = w[i + k]
    BY <1>2, <2>1
  <2>3. w[i + 1] = Semicolon /\ w[i + 2] = 97 /\ w[i + 12] = Semicolon
    <3>1. Target[1] = w[i + 1] /\ Target[2] = w[i + 2] /\ Target[12] = w[i + 12]
      BY <2>1, <2>2
    <3> QED BY <3>1, TargetIs
  <2>4. \A k \in 1 .. q + 74 : w[k] = Semicolon => k = 23 \/ k = q + 33
    <3>1. DOMAIN w = 1 .. q + 74 BY <1>2
    <3>2. \A k \in DOMAIN w : w[k] = Semicolon => k \in {23, q + 33}
      BY <1>2 DEF Occurrences
    <3> QED BY <3>1, <3>2
  <2>5. i + 1 = 23 \/ i + 1 = q + 33
    BY <2>1, <2>3, <2>4
  <2>6. i + 12 = 23 \/ i + 12 = q + 33
    BY <2>1, <2>3, <2>4
  <2>7. i = 22 BY <2>1, <2>5, <2>6
  <2> QED BY <1>2, <2>3, <2>7
<1>6. Find(w, Target).ret = 1
  <2>1. w # NULL /\ Target # NULL /\ Len(Target) # 0
    BY BytesAssumption, TargetIs
  <2>2. {i \in 0 .. Len(w) - 1 : /\ w[i + 1] = Target[1]
                                 /\ i + Len(Target) <= Len(w)
                                 /\ SubSeq(w, i + 1, i + Len(Target)) = Target} = {}
    BY <1>5, Zenon
  <2>3. Find(w, Target) = [ret |-> 1]
    BY <2>1, <2>2, Zenon DEF Find
  <2> QED BY <2>3
<1> QED BY <1>1, <1>3, <1>4, <1>6, Zenon

(* The calls of the services. *)

(* A text that has room to be padded is one the modes may be called with. *)
LEMMA ServiceCallIs ==
    ASSUME NEW mode \in {"ecb", "cbc"}, NEW dir \in {"encrypt", "decrypt"}, NEW t,
           t = NULL \/ (t \in Seq(Byte) /\ Len(t) + CipherBlockSize < SizeWrap)
    PROVE  /\ IsCall(ServiceCall(mode, dir, t))
           /\ ServiceCall(mode, dir, t).mode = mode /\ ServiceCall(mode, dir, t).dir = dir
           /\ ServiceCall(mode, dir, t).text = t
           /\ mode = "cbc" => IvFits(ServiceCall(mode, dir, t))
           /\ Refuses(ServiceCall(mode, "encrypt", t)) => t = NULL
<1>1. PICK c : c = ServiceCall(mode, dir, t) OBVIOUS
<1>2. /\ ServiceKey \in Seq(Byte) /\ Len(ServiceKey) = KeyLength
      /\ ServiceIv \in Seq(Byte) /\ Len(ServiceIv) = CipherBlockSize /\ ServiceIv # NULL
  BY ServicesAssumption, BytesAssumption
<1>3. /\ c.mode = mode /\ c.dir = dir /\ c.impl = "aes_128" /\ c.text = t /\ c.key = ServiceKey
      /\ mode = "cbc" => c.iv = ServiceIv
      /\ c \in [mode : {"ecb", "cbc", "ctr"}, dir : {"encrypt", "decrypt"}, impl : {"aes_128", "nope"},
                text : Seq(Byte) \cup {NULL}, key : Seq(Byte) \cup {NULL}, iv : Seq(Byte) \cup {NULL}]
  BY <1>1, <1>2 DEF ServiceCall
<1>4. t # NULL => Len(c.text) + (IF Pads(c) THEN CipherBlockSize ELSE 0) < SizeWrap
  <2> SUFFICES ASSUME t # NULL PROVE Len(c.text) + (IF Pads(c) THEN CipherBlockSize ELSE 0) < SizeWrap
    OBVIOUS
  <2>1. t \in Seq(Byte) /\ Len(t) + CipherBlockSize < SizeWrap OBVIOUS
  <2>2. PICK len \in Nat : len = Len(c.text) /\ len + CipherBlockSize < SizeWrap
    BY <1>3, <2>1
  <2>3. len + (IF Pads(c) THEN CipherBlockSize ELSE 0) < SizeWrap
    <3>1. len + 16 < SizeWrap /\ len + 0 < SizeWrap
      BY <2>2, BytesAssumption DEF CipherBlockSize
    <3> QED BY <3>1, Zenon DEF CipherBlockSize
  <2> QED BY <2>2, <2>3, Zenon
<1>5. IsCall(c) BY <1>3, <1>4 DEF IsCall
<1>6. mode = "cbc" => IvFits(c)
  BY <1>2, <1>3 DEF IvFits
<1>7. ASSUME Refuses(ServiceCall(mode, "encrypt", t)) PROVE t = NULL
  <2>1. PICK e : e = ServiceCall(mode, "encrypt", t) OBVIOUS
  <2>2. /\ e.mode = mode /\ e.dir = "encrypt" /\ e.impl = "aes_128" /\ e.text = t
        /\ e.key = ServiceKey
        /\ mode = "cbc" => e.iv = ServiceIv
    BY <2>1 DEF ServiceCall
  <2>3. ExpandedKey(e) # NULL
    <3>1. ExpandedKey(e) = ExpandKey(ServiceKey)
      BY <2>2, Zenon DEF ExpandedKey
    <3>2. ExpandKey(ServiceKey) \in Schedule
      BY <1>2, ScheduleIs
    <3>3. ExpandKey(ServiceKey) \in Seq(Byte)
      <4>1. ExpKeyLength \in Nat BY DEF ExpKeyLength
      <4> QED BY <3>2, <4>1, TextOfLength, Zenon DEF Schedule
    <3> QED BY <3>1, <3>3, BytesAssumption
  <2>4. mode = "cbc" => IvFits(e)
    BY <1>2, <2>2 DEF IvFits
  <2> QED BY <1>7, <2>1, <2>2, <2>3, <2>4 DEF Refuses, Unpads
<1> QED BY <1>1, <1>3, <1>5, <1>6, <1>7, Zenon

(* What the modes keep, in whichever program. *)
ModesInv == ErrIsKept /\ LengthIsKept /\ WholeInv

(* A call, as a step. *)
LEMMA CallKeepsModes ==
    ASSUME NEW c, IsCall(c), Enter(c, NULL)
    PROVE  /\ ModesInv' /\ call' = c /\ pc' \in {"loop", "done"}
           /\ pc' = "loop" => ~Refuses(c)
<1>1. ErrIsKept' /\ LengthIsKept' BY EnterKeeps
<1>2. /\ LoopInv' /\ call' = c /\ sent' = NULL /\ pc' \in {"loop", "done"}
      /\ pc' = "done" => ret' = NULL /\ (broke' \/ Refuses(c))
      /\ pc' = "loop" => ~Refuses(c)
  BY EnterIs
<1>3. DoneInv' /\ SentInv' /\ ModesWholeOrNull'
  BY <1>2 DEF DoneInv, SentInv, ModesWholeOrNull
<1> QED BY <1>1, <1>2, <1>3 DEF ModesInv, WholeInv

(* A step of the modes. *)
LEMMA ModesStep ==
    ASSUME ModesInv, [ModesNext]_modesVars
    PROVE  ModesInv'
  BY KeptStep, WholeStep DEF ModesInv

(* The loop of a call. *)
LEMMA LoopGoesOn ==
    ASSUME ModesInv, Blocks \/ Finish
    PROVE  /\ ModesInv' /\ pc = "loop" /\ pc' \in {"loop", "done"}
           /\ call' = call /\ sent' = sent
<1>1. ModesInv' BY ModesStep DEF ModesNext
<1>2. CASE Blocks
  BY <1>1, <1>2 DEF Blocks, EcbEncryptBlock, EcbDecryptBlock, EcbBlock, CbcEncryptBlock, CbcDecryptBlock,
                    CtrBlock, InLoop, Turn
<1>3. CASE Finish BY <1>1, <1>3 DEF Finish, LoopEnds, Returns
<1> QED BY <1>2, <1>3

(* What is returned of a call that encrypts: NULL if memory ran out, or
   what a second call decrypts to the same text. *)
LEMMA EncryptedByService ==
    ASSUME ModesInv, pc = "done", NEW mode \in {"ecb", "cbc"}, NEW t,
           t = NULL \/ (t \in Seq(Byte) /\ Len(t) + CipherBlockSize < SizeWrap),
           call = ServiceCall(mode, "encrypt", t)
    PROVE  /\ IsCall(ServiceCall(mode, "decrypt", ret))
           /\ ret = NULL => broke \/ t = NULL
           /\ ret # NULL => t # NULL /\ SentIs(ServiceCall(mode, "decrypt", ret), t)
<1>1. /\ IsCall(call) /\ call.mode = mode /\ call.dir = "encrypt" /\ call.text = t
      /\ mode = "cbc" => IvFits(call)
      /\ Refuses(call) => t = NULL
  BY ServiceCallIs
<1>2. CASE ret = NULL
  <2>1. IsCall(ServiceCall(mode, "decrypt", NULL))
    BY ServiceCallIs
  <2>2. broke \/ t = NULL
    BY <1>1, <1>2 DEF ModesInv, WholeInv, ModesWholeOrNull, Unpads
  <2> QED BY <1>2, <2>1, <2>2
<1>3. CASE ret # NULL
  <2>1. ~Refuses(call) /\ Corresponding(call, ret)
    BY <1>1, <1>3 DEF ModesInv, WholeInv, DoneInv, Unpads
  <2>2. t # NULL BY <1>1, <2>1 DEF Refuses
  <2>3. Answers(ServiceCall(mode, "decrypt", ret), call, ret)
    BY DEF ServiceCall, Answers
  <2> QED BY <1>1, <1>3, <2>1, <2>2, <2>3, AnswerIs
<1> QED BY <1>2, <1>3, Zenon

(* And that second call returns it, if memory does not run out. *)
LEMMA DecryptedByService ==
    ASSUME ModesInv, pc = "done", NEW t, call.text # NULL => SentIs(call, t)
    PROVE  /\ ret = NULL => broke \/ call.text = NULL
           /\ ret # NULL => call.text # NULL /\ ret = t
<1>1. CASE ret = NULL /\ call.text # NULL /\ ~broke
  <2>1. ret = t /\ t \in Seq(Byte)
    BY <1>1, GivenBack DEF ModesInv, WholeInv, SentIs
  <2> QED BY <1>1, <2>1, BytesAssumption
<1>2. CASE ret # NULL
  <2>1. ~broke /\ call.text # NULL
    BY <1>2 DEF ModesInv, WholeInv, ErrIsKept, DoneInv, Refuses
  <2> QED BY <1>2, <2>1, GivenBack DEF ModesInv, WholeInv
<1> QED BY <1>1, <1>2

(* The comments. *)

(* What a user writes makes a text that fits in memory. *)
LEMMA PayloadIs ==
    ASSUME NEW g \in Payloads, g # NULL
    PROVE  /\ g \in String
           /\ Comment(g) \in Seq(Byte) /\ Comment(g) # NULL
           /\ Len(Comment(g)) + CipherBlockSize < SizeWrap
<1>1. g \in String /\ (3 * Len(g)) + 128 < SizeWrap
  BY ServicesAssumption DEF String
<1>2. PICK q \in Nat : q <= 3 * Len(g) /\ Len(Comment(g)) = q + 74
  BY <1>1, CommentIs
<1>3. PICK len \in Nat : len = Len(g) BY <1>1 DEF String
<1>4. (q + 74) + 16 < SizeWrap
  <2>1. q <= 3 * len /\ (3 * len) + 128 < SizeWrap
    BY <1>1, <1>2, <1>3
  <2> QED BY <2>1, BytesAssumption
<1>5. Comment(g) \in Seq(Byte) /\ Comment(g) # NULL
  BY <1>1, CommentIs, BytesAssumption
<1> QED BY <1>1, <1>2, <1>4, <1>5, Zenon DEF CipherBlockSize

(* The text that is encrypted is the service's, and what is decrypted was
   sent as that. No other program looks for the target. *)
CommentsInv ==
  /\ step = "verified" => program = "comments"
  /\ program = "comments" =>
        /\ ModesInv
        /\ given \in Payloads
        /\ step \in {"start", "encrypting", "decrypting", "verified"}
        /\ step = "encrypting" =>
            /\ pc \in {"loop", "done"}
            /\ \E t : /\ call = ServiceCall("cbc", "encrypt", t)
                      /\ \/ t = NULL /\ (starved \/ given = NULL)
                         \/ given # NULL /\ t = Comment(given)
        /\ step \in {"decrypting", "verified"} =>
            /\ pc \in {"loop", "done"}
            /\ call.text = NULL => starved \/ given = NULL
            /\ call.text # NULL => given # NULL /\ SentIs(call, Comment(given))
        /\ step = "verified" => pc = "done"
        /\ CommentsKeepTheirFields

(* cbc_bitflipping_encrypt() hands over the whole text, or none of it. *)
LEMMA EncryptsComments ==
    ASSUME CommentsInv, program = "comments", EncryptComments
    PROVE  CommentsInv'
<1>1. /\ step' = "encrypting" /\ given' = given /\ program' = program
      /\ given \in Payloads
  BY DEF EncryptComments, Step, CommentsInv
<1>2. PICK t : /\ Enter(ServiceCall("cbc", "encrypt", t), NULL)
               /\ \/ t = NULL /\ (starved' \/ given = NULL)
                  \/ given # NULL /\ t = Comment(given)
  <2>1. CASE given = NULL BY <2>1 DEF EncryptComments
  <2>2. CASE given # NULL
    <3>1. PICK t \in MayFail(Comment(given)) :
                /\ Enter(ServiceCall("cbc", "encrypt", t), NULL)
                /\ starved' = (starved \/ t = NULL)
      BY <2>2, Zenon DEF EncryptComments, Comment
    <3>2. t = NULL \/ t = Comment(given)
      BY <3>1 DEF MayFail
    <3> QED BY <2>2, <3>1, <3>2
  <2> QED BY <2>1, <2>2
<1>3. t = NULL \/ (t \in Seq(Byte) /\ Len(t) + CipherBlockSize < SizeWrap)
  BY <1>1, <1>2, PayloadIs
<1>4. IsCall(ServiceCall("cbc", "encrypt", t))
  BY <1>3, ServiceCallIs
<1>5. ModesInv' /\ call' = ServiceCall("cbc", "encrypt", t) /\ pc' \in {"loop", "done"}
  BY <1>2, <1>4, CallKeepsModes
<1> QED BY <1>1, <1>2, <1>5 DEF CommentsInv, CommentsKeepTheirFields

(* What is decrypted is what that call returned. *)
LEMMA DecryptsComments ==
    ASSUME CommentsInv, program = "comments", DecryptComments
    PROVE  CommentsInv'
<1>1. /\ step = "encrypting" /\ step' = "decrypting" /\ given' = given /\ program' = program
      /\ pc = "done" /\ starved' = (starved \/ broke)
      /\ Enter(ServiceCall("cbc", "decrypt", ret), NULL)
  BY DEF DecryptComments, Step
<1>2. PICK t : /\ call = ServiceCall("cbc", "encrypt", t)
               /\ \/ t = NULL /\ (starved \/ given = NULL)
                  \/ given # NULL /\ t = Comment(given)
  BY <1>1 DEF CommentsInv
<1>3. ModesInv /\ given \in Payloads
  BY DEF CommentsInv
<1>4. t = NULL \/ (t \in Seq(Byte) /\ Len(t) + CipherBlockSize < SizeWrap)
  BY <1>2, <1>3, PayloadIs
<1>5. /\ IsCall(ServiceCall("cbc", "decrypt", ret))
      /\ ret = NULL => broke \/ t = NULL
      /\ ret # NULL => t # NULL /\ SentIs(ServiceCall("cbc", "decrypt", ret), t)
  BY <1>1, <1>2, <1>3, <1>4, EncryptedByService
<1>6. ModesInv' /\ call' = ServiceCall("cbc", "decrypt", ret) /\ pc' \in {"loop", "done"}
  BY <1>1, <1>5, CallKeepsModes
<1>7. call'.text = ret BY <1>6 DEF ServiceCall
<1>8. call'.text = NULL => starved' \/ given = NULL
  <2>1. t = NULL => starved \/ given = NULL
    BY <1>2, <1>3, PayloadIs
  <2> QED BY <1>1, <1>5, <1>7, <2>1
<1>9. call'.text # NULL => given # NULL /\ SentIs(call', Comment(given))
  <2>1. CASE ret = NULL BY <2>1, <1>7
  <2>2. CASE ret # NULL
    <3>1. t # NULL /\ SentIs(call', t)
      BY <2>2, <1>5, <1>6
    <3> QED BY <3>1, <1>2
  <2> QED BY <2>1, <2>2
<1> QED
  BY <1>1, <1>3, <1>6, <1>8, <1>9 DEF CommentsInv, CommentsKeepTheirFields

(* cbc_bitflipping_verifier() looks for the target in what was encrypted. *)
LEMMA VerifiesComments ==
    ASSUME CommentsInv, program = "comments", VerifyComments
    PROVE  CommentsInv'
<1>1. /\ step = "decrypting" /\ step' = "verified" /\ pc = "done"
      /\ UNCHANGED <<program, given, modesVars>>
  BY DEF VerifyComments
<1>2. PICK target \in MayFail(Target) :
            /\ LET found == Find(ret, target).ret
               IN  verdict' = IF found = 0 THEN 1 ELSE IF found = 1 THEN 0 ELSE -1
            /\ starved' = (starved \/ broke \/ target = NULL)
  BY DEF VerifyComments
<1>3. /\ ModesInv /\ given \in Payloads
      /\ call.text = NULL => starved \/ given = NULL
      /\ call.text # NULL => given # NULL /\ SentIs(call, Comment(given))
  BY <1>1 DEF CommentsInv
<1>4. UNCHANGED <<pc, call, ret, broke>> /\ UNCHANGED modesVars
  BY <1>1 DEF modesVars
<1>5. ModesInv' BY <1>3, <1>4, ModesStep
<1>6. /\ ret = NULL => broke \/ call.text = NULL
      /\ ret # NULL => call.text # NULL /\ ret = Comment(given)
  BY <1>1, <1>3, DecryptedByService
<1>7. CASE ret = NULL
  <2>1. Find(ret, target).ret = -1 BY <1>7 DEF Find
  <2>2. verdict' = -1 BY <1>2, <2>1
  <2>3. starved' \/ given = NULL
    BY <1>2, <1>3, <1>6, <1>7
  <2>4. CommentsKeepTheirFields'
    BY <1>1, <1>4, <1>7, <2>2, <2>3 DEF CommentsKeepTheirFields
  <2> QED BY <1>1, <1>2, <1>3, <1>4, <1>5, <2>3, <2>4 DEF CommentsInv
<1>8. CASE ret # NULL
  <2>1. given # NULL /\ given \in String /\ ret = Comment(given)
    BY <1>3, <1>6, <1>8, PayloadIs
  <2>2. /\ Cardinality(Occurrences(ret, Semicolon)) = 2
        /\ Cardinality(Occurrences(ret, Eq)) = 3
        /\ Find(ret, Target).ret = 1
    BY <2>1, CommentHasItsFields
  <2>3. verdict' = 0 \/ (verdict' = -1 /\ starved')
    <3>1. CASE target = NULL
      <4>1. Find(ret, target).ret = -1
        BY <3>1 DEF Find
      <4>2. verdict' = -1 BY <1>2, <4>1
      <4> QED BY <1>2, <3>1, <4>2
    <3>2. CASE target = Target BY <1>2, <2>2, <3>2
    <3> QED BY <1>2, <3>1, <3>2 DEF MayFail
  <2>4. CommentsKeepTheirFields'
    BY <1>1, <1>4, <2>2, <2>3 DEF CommentsKeepTheirFields
  <2> QED BY <1>1, <1>2, <1>3, <1>4, <1>5, <2>4 DEF CommentsInv
<1> QED BY <1>7, <1>8

(* Between two calls only the blocks of the text go by. *)
LEMMA CommentsGoOn ==
    ASSUME CommentsInv, program = "comments", Blockwise
    PROVE  CommentsInv'
<1>1. ModesInv BY DEF CommentsInv
<1>2. /\ ModesInv' /\ pc = "loop" /\ pc' \in {"loop", "done"} /\ call' = call
      /\ UNCHANGED <<program, step, given, verdict, starved>>
  BY <1>1, LoopGoesOn DEF Blockwise, serviceVars
<1>3. step # "verified" BY <1>2 DEF CommentsInv
<1> QED BY <1>2, <1>3 DEF CommentsInv, CommentsKeepTheirFields

(* Whatever a user writes, and whichever allocation fails, the text that
   is decrypted has the fields of the service, and none of it is found in
   a field of the user's. *)
THEOREM FieldsAreKept == Spec => []CommentsKeepTheirFields
<1>1. Init => CommentsInv
  BY DEF Init, ModesInit, CommentsInv, ModesInv, ErrIsKept, LengthIsKept, WholeInv, LoopInv, DoneInv,
         SentInv, ModesWholeOrNull, CommentsKeepTheirFields
<1>2. CommentsInv /\ [Next]_vars => CommentsInv'
  <2> SUFFICES ASSUME CommentsInv, [Next]_vars PROVE CommentsInv' OBVIOUS
  <2>1. CASE program = "comments" /\ Comments
    BY <2>1, EncryptsComments, DecryptsComments, VerifiesComments DEF Comments
  <2>2. CASE program = "comments" /\ Blockwise BY <2>2, CommentsGoOn
  <2>3. CASE UNCHANGED vars
    <3>1. UNCHANGED modesVars BY <2>3 DEF vars
    <3>2. program = "comments" => ModesInv'
      BY <3>1, ModesStep DEF CommentsInv
    <3>3. UNCHANGED <<pc, call, ret, program, step, given, verdict, starved>>
      BY <2>3 DEF vars, modesVars, serviceVars
    <3> QED BY <3>2, <3>3 DEF CommentsInv, CommentsKeepTheirFields
  <2>4. CASE program # "comments" /\ Next
    <3>1. program' = program /\ step # "verified" /\ step' # "verified"
      BY <2>4 DEF CommentsInv, Next, Profiles, Blockwise, AllocProfile, AppendMembers, AppendProfile, EncodeProfile,
                  EncryptProfile, FreeProfile, DecryptProfile, DecodeProfile, DecodeProfileGoesOn,
                  Step, serviceVars
    <3> QED BY <2>4, <3>1 DEF CommentsInv
  <2> QED BY <2>1, <2>2, <2>3, <2>4 DEF Next
<1>3. CommentsInv => CommentsKeepTheirFields
  BY DEF CommentsInv, CommentsKeepTheirFields
<1> QED BY <1>1, <1>2, <1>3, PTL DEF Spec

(* Texts of profiles. *)

(* What has no separators loses none. *)
LEMMA PlainIsKept ==
    ASSUME NEW s \in PlainString
    PROVE  Unseparated(s) = s
<1>1. PICK n \in Nat : n = Len(s) /\ DOMAIN s = 1 .. n /\ \A k \in 1 .. n : s[k] \in Character \ {Amp, Eq}
  BY DEF PlainString
<1>2. PICK parts : parts = [k \in 1 .. n |-> <<s[k]>>] OBVIOUS
<1>3. parts \in [1 .. n -> Seq(Byte)]
  <2>1. \A c \in Character : <<c>> \in Seq(Byte)
    BY DEF Character, Byte
  <2> QED BY <1>1, <1>2, <2>1
<1>4. Unseparated(s) = Joined(parts)
  <2>1. \A k \in 1 .. n : s[k] \notin {Amp, Eq}
    BY <1>1
  <2>2. [k \in DOMAIN s |-> IF s[k] \in {Amp, Eq} THEN <<>> ELSE <<s[k]>>] = parts
    BY <1>1, <1>2, <2>1
  <2> QED BY <2>2, Zenon DEF Unseparated
<1>5. PICK joined \in [0 .. n -> Seq(Byte)] :
            /\ joined[0] = <<>>
            /\ \A k \in 1 .. n : joined[k] = joined[k - 1] \o parts[k]
            /\ Joined(parts) = joined[n]
  BY <1>3, JoinedIs
<1>6. s \in Seq(Byte) BY StringIs
<1> DEFINE W == {k \in 0 .. n : joined[k] = SubSeq(s, 1, k)}
<1>7. 0 \in W BY <1>5, <1>6
<1>8. ASSUME NEW k \in 0 .. n - 1, k \in W PROVE k + 1 \in W
  <2>1. k + 1 \in 1 .. n /\ k + 1 \in 0 .. n /\ (k + 1) - 1 = k OBVIOUS
  <2>2. joined[k + 1] = joined[k] \o <<s[k + 1]>>
    BY <1>2, <1>5, <2>1
  <2>3. joined[k] = SubSeq(s, 1, k) BY <1>8
  <2>4. SubSeq(s, 1, k) \o <<s[k + 1]>> = SubSeq(s, 1, k + 1)
    BY <1>1, <1>6, <2>1
  <2> QED BY <2>1, <2>2, <2>3, <2>4
<1> HIDE DEF W
<1>9. \A k \in 0 .. n : k \in W
  BY <1>7, <1>8, CountingUp
<1>10. joined[n] = SubSeq(s, 1, n)
  <2>1. n \in 0 .. n OBVIOUS
  <2> QED BY <1>9, <2>1 DEF W
<1>11. SubSeq(s, 1, n) = s BY <1>1, <1>6
<1> QED BY <1>4, <1>5, <1>10, <1>11, Zenon

(* A string as bytes, and back with its NUL. *)
LEMMA StringAsBytes ==
    ASSUME NEW s \in String
    PROVE  /\ FromStr(s) = s
           /\ ToStr(s) = Append(s, Nul) /\ ToStr(s) \in Seq(Byte) /\ ToStr(s) # NULL
           /\ Strlen(ToStr(s)) = Len(s)
<1>1. PICK n \in Nat : n = Len(s) /\ DOMAIN s = 1 .. n /\ Strlen(s) = n
  BY StrlenIs DEF String
<1>2. s \in Seq(Byte) /\ s # NULL BY StringIs
<1>3. FromStr(s) = s
  <2>1. FromStr(s) = SubSeq(s, 1, n)
    BY <1>1, <1>2 DEF FromStr
  <2> QED BY <1>1, <1>2, <2>1
<1>4. PICK t : t = Append(s, Nul) /\ ToStr(s) = t BY <1>2 DEF ToStr
<1>5. /\ t \in Seq(Byte) /\ Len(t) = n + 1 /\ t[n + 1] = Nul
      /\ \A k \in 1 .. n : t[k] = s[k]
  BY <1>1, <1>2, <1>4 DEF Byte, Nul
<1>6. t # NULL BY <1>5, BytesAssumption
<1>7. \A k \in 1 .. n : t[k] # Nul
  <2>1. \A c \in Character : c # Nul
    BY DEF Character, Nul
  <2>2. \A k \in 1 .. n : s[k] \in Character
    BY <1>1 DEF String
  <2> QED BY <1>5, <2>1, <2>2
<1>8. Strlen(t) = n
  <2>1. \A m \in 0 .. n + 1 : (/\ m < n + 1 => t[m + 1] = Nul
                               /\ \A k \in 1 .. m : t[k] # Nul) <=> m = n
    <3> SUFFICES ASSUME NEW m \in 0 .. n + 1
                 PROVE  (/\ m < n + 1 => t[m + 1] = Nul
                         /\ \A k \in 1 .. m : t[k] # Nul) <=> m = n
      OBVIOUS
    <3>1. CASE m = n BY <1>5, <1>7, <3>1
    <3>2. CASE m < n
      <4>1. m + 1 \in 1 .. n /\ m < n + 1 /\ m # n
        BY <3>2
      <4>2. t[m + 1] # Nul BY <1>7, <4>1, Zenon
      <4> QED BY <4>1, <4>2
    <3>3. CASE m = n + 1
      <4>1. n + 1 \in 1 .. m /\ m # n BY <3>3
      <4> QED BY <1>5, <4>1
    <3> QED BY <3>1, <3>2, <3>3
  <2>2. Strlen(t) = CHOOSE m \in 0 .. n + 1 : /\ m < n + 1 => t[m + 1] = Nul
                                              /\ \A k \in 1 .. m : t[k] # Nul
    BY <1>5 DEF Strlen
  <2>3. Strlen(t) = CHOOSE m \in 0 .. n + 1 : m = n
    BY <2>1, <2>2
  <2>4. n \in 0 .. n + 1 OBVIOUS
  <2> QED BY <2>3, <2>4
<1> QED BY <1>1, <1>3, <1>4, <1>5, <1>6, <1>8

(* The NUL behind a text is in none of its tokens. *)
LEMMA TokensBeforeNul ==
    ASSUME NEW u \in String
    PROVE  Tokens(ToStr(u)) = Tokens(u)
<1>1. PICK m \in Nat : m = Len(u) /\ Strlen(u) = m BY StringIs, StrlenIs
<1>2. PICK v : v = ToStr(u) OBVIOUS
<1>3. v = Append(u, Nul) /\ v \in Seq(Byte) /\ Strlen(v) = m
  BY <1>1, <1>2, StringAsBytes
<1>4. u \in Seq(Byte) BY StringIs
<1>5. Len(v) = m + 1 /\ \A k \in 1 .. m : v[k] = u[k]
  BY <1>1, <1>3, <1>4
<1>6. PICK fu : TokensFrom(u, m, fu) /\ Tokens(u) = fu[1]
  BY <1>1, <1>4, TokensAre
<1>7. PICK fv : TokensFrom(v, m, fv) /\ Tokens(v) = fv[1] BY <1>3, TokensAre
<1> DEFINE W == {k \in 0 .. m : \A p \in m + 1 - k .. m + 2 : fv[p] = fu[p]}
<1>8. 0 \in W
  <2>1. \A p \in m + 1 - 0 .. m + 2 : p = m + 1 \/ p = m + 2 OBVIOUS
  <2>2. 0 \in 0 .. m OBVIOUS
  <2>3. fu[m + 1] = <<>> /\ fu[m + 2] = <<>> /\ fv[m + 1] = <<>> /\ fv[m + 2] = <<>>
    BY <1>6, <1>7 DEF TokensFrom
  <2> QED BY <2>1, <2>2, <2>3
<1>9. ASSUME NEW k \in 0 .. m - 1, k \in W PROVE k + 1 \in W
  <2>1. PICK p : p = m + 1 - (k + 1) OBVIOUS
  <2>2. p \in 1 .. m /\ p + 1 = m + 1 - k /\ k + 1 \in 0 .. m
    BY <2>1
  <2>3. \A q \in p + 1 .. m + 2 : fv[q] = fu[q]
    BY <1>9, <2>2
  <2>4. PICK e : EndsAt(u, m, p, e) BY <2>2, EndIs
  <2>5. e \in p .. m + 1 BY <2>4 DEF EndsAt
  <2>6. EndsAt(v, m, p, e)
    <3>1. \A f \in p .. m + 1 : f # m + 1 => f \in 1 .. m
      BY <2>2
    <3>2. \A f \in p .. m + 1 : f # m + 1 => v[f] = u[f]
      BY <1>5, <3>1, Zenon
    <3> QED BY <2>4, <3>2, Zenon DEF EndsAt
  <2>7. fu[p] = IF e = p THEN fu[p + 1] ELSE <<SubSeq(u, p, e - 1)>> \o fu[e + 1]
    BY <1>6, <2>2, <2>4, <2>5, Zenon DEF TokensFrom
  <2>8. fv[p] = IF e = p THEN fv[p + 1] ELSE <<SubSeq(v, p, e - 1)>> \o fv[e + 1]
    BY <1>7, <2>2, <2>5, <2>6, Zenon DEF TokensFrom
  <2>9. p + 1 \in p + 1 .. m + 2 /\ e + 1 \in p + 1 .. m + 2
    BY <2>2, <2>5
  <2>10. SubSeq(v, p, e - 1) = SubSeq(u, p, e - 1)
    <3>1. /\ SubSeq(v, p, e - 1) = [i \in 1 .. (e - 1) - p + 1 |-> v[p + i - 1]]
          /\ SubSeq(u, p, e - 1) = [i \in 1 .. (e - 1) - p + 1 |-> u[p + i - 1]]
      BY <1>1, <1>3, <1>4, <1>5, <2>2, <2>5
    <3>2. \A i \in 1 .. (e - 1) - p + 1 : p + i - 1 \in 1 .. m
      BY <2>2, <2>5
    <3>3. \A i \in 1 .. (e - 1) - p + 1 : v[p + i - 1] = u[p + i - 1]
      BY <1>5, <3>2, Zenon
    <3> QED BY <3>1, <3>3
  <2>11. fv[p] = fu[p]
    BY <2>3, <2>7, <2>8, <2>9, <2>10, Zenon
  <2>12. \A q \in p .. m + 2 : q = p \/ q \in p + 1 .. m + 2
    BY <2>2
  <2> QED BY <2>1, <2>2, <2>3, <2>11, <2>12
<1> HIDE DEF W
<1>10. \A k \in 0 .. m : k \in W
  BY <1>8, <1>9, CountingUp
<1>11. fv[1] = fu[1]
  <2>1. m \in 0 .. m /\ m + 1 - m = 1 /\ 1 \in 1 .. m + 2 OBVIOUS
  <2> QED BY <1>10, <2>1 DEF W
<1> QED BY <1>2, <1>6, <1>7, <1>11, Zenon

(* The members of a profile. *)

Profile(g) == <<<<EmailKey, g>>, <<Uid, UidValue>>, <<Role, User>>>>

(* The strings of the service have no separators, and its keys differ. *)
LEMMA ServiceStrings ==
    /\ EmailKey \in PlainString /\ Len(EmailKey) = 5
    /\ Uid \in PlainString /\ Len(Uid) = 3
    /\ UidValue \in PlainString /\ Len(UidValue) = 2
    /\ Role \in PlainString /\ Len(Role) = 4
    /\ User \in PlainString /\ Len(User) = 4
    /\ EmailKey # Role /\ Uid # Role
<1>1. EmailKey \in PlainString /\ Len(EmailKey) = 5 /\ EmailKey[1] = 101
  BY DEF EmailKey, PlainString, Character, Amp, Eq
<1>2. Uid \in PlainString /\ Len(Uid) = 3 /\ Uid[1] = 117
  BY DEF Uid, PlainString, Character, Amp, Eq
<1>3. UidValue \in PlainString /\ Len(UidValue) = 2
  BY DEF UidValue, PlainString, Character, Amp, Eq
<1>4. Role \in PlainString /\ Len(Role) = 4 /\ Role[1] = 114
  BY DEF Role, PlainString, Character, Amp, Eq
<1>5. User \in PlainString /\ Len(User) = 4
  BY DEF User, PlainString, Character, Amp, Eq
<1>6. EmailKey # Role /\ Uid # Role
  <2>1. 101 # 114 /\ 117 # 114 OBVIOUS
  <2> QED BY <1>1, <1>2, <1>4, <2>1
<1> QED BY <1>1, <1>2, <1>3, <1>4, <1>5, <1>6

(* The cookie c has the first n of them. *)
HasFirst(c, g, n) ==
    /\ IsText(c) /\ c.count = n
    /\ \A i \in 1 .. n : c.node[i].key = Profile(g)[i][1] /\ c.node[i].value = Profile(g)[i][2]

(* cookie_append() of the next one. *)
LEMMA NextMember ==
    ASSUME NEW c, NEW g, NEW n \in 0 .. 2, HasFirst(c, g, n),
           NEW key \in String, NEW value \in String, Profile(g)[n + 1] = <<key, value>>
    PROVE  HasFirst(Appended(c, key, value), g, n + 1)
<1>1. PICK d : d = Appended(c, key, value) OBVIOUS
<1>2. IsAppended(d, c, key, value)
  BY <1>1, AppendedIsText DEF HasFirst
<1>3. /\ IsText(d) /\ d.count = n + 1
      /\ d.node[n + 1].key = key /\ d.node[n + 1].value = value
      /\ \A i \in 1 .. n : d.node[i].key = c.node[i].key /\ d.node[i].value = c.node[i].value
  BY <1>2 DEF IsAppended, HasFirst
<1>4. Profile(g)[n + 1][1] = key /\ Profile(g)[n + 1][2] = value OBVIOUS
<1>5. \A i \in 1 .. n + 1 : i = n + 1 \/ i \in 1 .. n OBVIOUS
<1>6. \A i \in 1 .. n : c.node[i].key = Profile(g)[i][1] /\ c.node[i].value = Profile(g)[i][2]
  BY DEF HasFirst
<1>7. \A i \in 1 .. n + 1 : d.node[i].key = Profile(g)[i][1] /\ d.node[i].value = Profile(g)[i][2]
  BY <1>3, <1>4, <1>5, <1>6, Zenon
<1> QED BY <1>1, <1>3, <1>7 DEF HasFirst

(* What is encoded of all three fits in memory, with its padding. *)
LEMMA ProfileEncoded ==
    ASSUME NEW c, NEW g \in Emails, HasFirst(c, g, 3)
    PROVE  /\ Members(c) = Profile(g)
           /\ Len(Encoded(c)) + CipherBlockSize < SizeWrap
<1>1. IsText(c) /\ IsList(c) /\ c.count = 3
  BY DEF HasFirst, IsText
<1>2. /\ c.node[1].key = EmailKey /\ c.node[1].value = g
      /\ c.node[2].key = Uid /\ c.node[2].value = UidValue
      /\ c.node[3].key = Role /\ c.node[3].value = User
  <2>1. 1 \in 1 .. 3 /\ 2 \in 1 .. 3 /\ 3 \in 1 .. 3 OBVIOUS
  <2>2. \A i \in 1 .. 3 : c.node[i].key = Profile(g)[i][1] /\ c.node[i].value = Profile(g)[i][2]
    BY DEF HasFirst
  <2> QED BY <2>1, <2>2 DEF Profile
<1>3. Members(c) = Profile(g)
  <2>1. Members(c) = [i \in 1 .. 3 |-> <<c.node[i].key, c.node[i].value>>]
    BY <1>1, MembersOfList
  <2> QED BY <1>2, <2>1 DEF Profile
<1>4. g \in String /\ (3 * Len(g)) + 128 < SizeWrap
  <2>1. g \in String
    <3>1. 1 \in 1 .. c.count BY <1>1
    <3> QED BY <1>1, <1>2, <3>1 DEF IsText
  <2>2. g # NULL BY <2>1, StringIs
  <2> QED BY <2>1, <2>2, ServicesAssumption
<1>5. PICK len \in Nat : len = Len(g) BY <1>4, StringIs
<1>6. PICK sum \in [0 .. 3 -> Nat] :
            /\ EncodedSize(c) = sum[3]
            /\ sum[0] = 1
            /\ \A n \in 1 .. 3 :
                sum[n] = sum[n - 1] + (IF n > 1 THEN 1 ELSE 0)
                            + Len(c.node[n].key) + 1 + Len(c.node[n].value)
  <2>1. PICK sum \in [0 .. c.count -> Nat] :
            /\ EncodedSize(c) = sum[c.count]
            /\ sum[0] = 1
            /\ \A n \in 1 .. c.count :
                sum[n] = sum[n - 1] + (IF n > 1 THEN 1 ELSE 0)
                            + Len(c.node[n].key) + 1 + Len(c.node[n].value)
    BY <1>1, EncodedSizeIs, Zenon
  <2>2. /\ sum \in [0 .. 3 -> Nat] /\ EncodedSize(c) = sum[3]
        /\ \A n \in 1 .. 3 :
                sum[n] = sum[n - 1] + (IF n > 1 THEN 1 ELSE 0)
                            + Len(c.node[n].key) + 1 + Len(c.node[n].value)
    BY <1>1, <2>1
  <2> QED BY <2>1, <2>2, Zenon
<1>7. EncodedSize(c) = len + 24
  <2>1. /\ 1 \in 1 .. 3 /\ 2 \in 1 .. 3 /\ 3 \in 1 .. 3
        /\ 1 - 1 = 0 /\ 2 - 1 = 1 /\ 3 - 1 = 2 /\ ~(1 > 1) /\ 2 > 1 /\ 3 > 1
    OBVIOUS
  <2>2. sum[1] = 1 + 0 + 5 + 1 + len
    <3>1. Len(c.node[1].key) = 5 /\ Len(c.node[1].value) = len
      BY <1>2, <1>5, ServiceStrings
    <3>2. sum[1] = sum[0] + 0 + Len(c.node[1].key) + 1 + Len(c.node[1].value)
      BY <1>6, <2>1
    <3> QED BY <1>6, <3>1, <3>2
  <2>3. sum[2] = sum[1] + 1 + 3 + 1 + 2
    BY <1>2, <1>6, <2>1, ServiceStrings
  <2>4. sum[3] = sum[2] + 1 + 4 + 1 + 4
    BY <1>2, <1>6, <2>1, ServiceStrings
  <2> QED BY <1>6, <2>2, <2>3, <2>4
<1>8. PICK n \in Nat : n = Len(Encoded(c)) /\ n < len + 24
  <2>1. Len(Encoded(c)) \in Nat /\ Len(Encoded(c)) < EncodedSize(c)
    BY <1>1, EncodedIs, StringIs
  <2> QED BY <1>7, <2>1
<1>9. n + 16 < SizeWrap
  <2>1. (3 * len) + 128 < SizeWrap BY <1>4, <1>5
  <2> QED BY <1>8, <2>1, BytesAssumption
<1> QED BY <1>3, <1>8, <1>9 DEF CipherBlockSize

(* A cookie with the members of the tokens of a profile's text, without
   their separators, has the three the service wrote. *)
LEMMA ProfileIsRead ==
    ASSUME NEW c, IsList(c), NEW g, NEW members, members = Profile(g), NEW tokens,
           Len(tokens) = 3,
           \A i \in 1 .. Len(tokens) :
                Split(tokens[i]) = <<Unseparated(members[i][1]), Unseparated(members[i][2])>>,
           c.count = Len(tokens), ReadUpTo(tokens, c, c.count)
    PROVE  /\ Members(c) = <<<<EmailKey, Unseparated(g)>>, <<Uid, UidValue>>, <<Role, User>>>>
           /\ CookieGet(c, Role) = <<Role, User>>
<1>1. Len(tokens) = 3 OBVIOUS
<1>2. \A i \in 1 .. 3 : <<c.node[i].key, c.node[i].value>>
                            = <<Unseparated(members[i][1]), Unseparated(members[i][2])>>
  BY <1>1, Zenon DEF ReadUpTo
<1>3. /\ Unseparated(EmailKey) = EmailKey /\ Unseparated(Uid) = Uid
      /\ Unseparated(UidValue) = UidValue /\ Unseparated(Role) = Role /\ Unseparated(User) = User
  BY ServiceStrings, PlainIsKept
<1>4. /\ members[1][1] = EmailKey /\ members[1][2] = g
      /\ members[2][1] = Uid /\ members[2][2] = UidValue
      /\ members[3][1] = Role /\ members[3][2] = User
  BY DEF Profile
<1>5. /\ <<c.node[1].key, c.node[1].value>> = <<EmailKey, Unseparated(g)>>
      /\ <<c.node[2].key, c.node[2].value>> = <<Uid, UidValue>>
      /\ <<c.node[3].key, c.node[3].value>> = <<Role, User>>
  <2>1. 1 \in 1 .. 3 /\ 2 \in 1 .. 3 /\ 3 \in 1 .. 3 OBVIOUS
  <2> QED BY <1>2, <1>3, <1>4, <2>1, Zenon
<1>6. Members(c) = <<<<EmailKey, Unseparated(g)>>, <<Uid, UidValue>>, <<Role, User>>>>
  <2>1. Members(c) = [i \in 1 .. 3 |-> <<c.node[i].key, c.node[i].value>>]
    BY <1>1, MembersOfList
  <2> QED BY <1>5, <2>1
<1>7. CookieGet(c, Role) = Member(c, 3)
  <2>1. PICK matching : matching = {i \in 1 .. c.count : c.node[i].key = Role}
    OBVIOUS
  <2>2. c.node[1].key # Role /\ c.node[2].key # Role /\ c.node[3].key = Role
    BY <1>5, ServiceStrings
  <2>3. matching = {3}
    <3>1. \A i : i \in 1 .. 3 <=> i = 1 \/ i = 2 \/ i = 3 OBVIOUS
    <3>2. matching = {i \in 1 .. 3 : c.node[i].key = Role}
      BY <1>1, <2>1
    <3> QED BY <2>2, <3>1, <3>2, Zenon
  <2>4. 3 \in matching /\ \A j \in matching : 3 <= j
    BY <2>3
  <2> QED BY <2>1, <2>4, GetOfList
<1> QED BY <1>5, <1>6, <1>7 DEF Member

(* The profiles. *)

(* Nothing was given, or memory ran out. *)
Lost == given = NULL \/ starved

(* A text that was made is of the profile's members, and fits in memory. *)
ProfileFits ==
    text.string # NULL =>
        text.members = Profile(given) /\ Len(text.string) + CipherBlockSize < SizeWrap

Idling == pc = "idle" /\ ret = NULL /\ todo = NULL

Filling(from, n) ==
    /\ step = from
    /\ cookie = NULL => starved
    /\ cookie # NULL => HasFirst(cookie, given, n)

(* Before the first call of the modes: the members appended so far. *)
Making ==
    /\ Idling
    /\ \/ step = "start" /\ cookie = NULL
       \/ Filling("email", 0) \/ Filling("uid", 1) \/ Filling("role", 2) \/ Filling("encode", 3)
       \/ step = "encrypt" /\ (text.string = NULL => starved)
       \/ step = "refused" /\ Lost

Encrypting ==
    /\ step = "encrypting" /\ pc \in {"loop", "done"} /\ todo = NULL
    /\ \E t : /\ call = ServiceCall("ecb", "encrypt", t)
              /\ t = NULL => starved
              /\ t # NULL => t = text.string

(* What was made of it is decrypted to the text. *)
Made ==
    /\ step = "made" /\ pc \in {"idle", "done"} /\ todo = NULL /\ cookie = NULL
    /\ IsCall(ServiceCall("ecb", "decrypt", ret))
    /\ ret = NULL => Lost
    /\ ret # NULL => text.string # NULL /\ SentIs(ServiceCall("ecb", "decrypt", ret), text.string)

Decrypting ==
    /\ step = "decrypting" /\ pc \in {"loop", "done"} /\ todo = NULL /\ cookie = NULL
    /\ call.text = NULL => Lost
    /\ call.text # NULL => text.string # NULL /\ SentIs(call, text.string)

(* What is decoded is that text. *)
Decoding ==
    /\ step = "decoding" /\ pc = "done"
    /\ todo # NULL => text.string # NULL /\ todo.of = ToStr(text.string)
    /\ todo = NULL =>
        /\ answer.op = "decode"
        /\ answer.of.string = NULL => Lost /\ cookie = NULL
        /\ answer.of.string # NULL => text.string # NULL /\ answer.of.string = ToStr(text.string)
        /\ cookie = NULL => answer.result = -1
        /\ cookie # NULL => ~answer.of.broke

(* No other program decodes a profile. *)
ProfilesInv ==
    /\ step = "decoding" => program = "profiles"
    /\ program = "profiles" =>
        /\ ModesInv /\ TextInv /\ ProfileFits /\ given \in Emails
        /\ Making \/ Encrypting \/ Made \/ Decrypting \/ Decoding

(* cookie_alloc() *)
LEMMA AllocatesProfile ==
    ASSUME NullIsNoValue, ProfilesInv, program = "profiles", AllocProfile
    PROVE  ProfilesInv'
<1>1. /\ step = "start" /\ step' = "email" /\ UNCHANGED <<program, given>>
      /\ CookieAlloc /\ starved' = (starved \/ cookie' = NULL) /\ UNCHANGED modesVars
  BY DEF AllocProfile, Step
<1>2. ModesInv /\ TextInv /\ ProfileFits /\ given \in Emails /\ Idling
  BY <1>1 DEF ProfilesInv, Making, Encrypting, Made, Decrypting, Decoding
<1>3. TextInv'
  BY <1>1, <1>2, TextStep DEF CookieNext
<1>4. ModesInv' BY <1>1, <1>2, ModesStep
<1>5. cookie' \in {NULL, Empty} /\ UNCHANGED <<todo, text>>
  BY <1>1 DEF CookieAlloc, MayFail
<1>6. Idling'
  BY <1>1, <1>2, <1>5 DEF Idling, modesVars
<1>7. ProfileFits'
  BY <1>1, <1>2, <1>5 DEF ProfileFits
<1>8. HasFirst(Empty, given, 0)
  <2>1. Empty.count = 0 BY DEF Empty
  <2> QED BY <2>1, EmptyIsList DEF HasFirst, IsText
<1>9. Filling("email", 0)'
  BY <1>1, <1>5, <1>8 DEF Filling
<1> QED BY <1>1, <1>2, <1>3, <1>4, <1>6, <1>7, <1>9 DEF ProfilesInv, Making

(* cookie_append() of the next member ends the function when it fails. *)
LEMMA AppendsMember ==
    ASSUME NullIsNoValue, ModesInv, TextInv, ProfileFits, Idling,
           NEW n \in 0 .. 2, NEW from, NEW to, Filling(from, n),
           NEW key \in String, NEW value, value = NULL \/ value \in String,
           Profile(given)[n + 1] = <<key, value>>,
           AppendProfile(from, key, value, to)
    PROVE  /\ ModesInv' /\ TextInv' /\ ProfileFits' /\ Idling' /\ UNCHANGED <<program, given>>
           /\ Filling(to, n + 1)' \/ (step' = "refused" /\ (value = NULL \/ starved'))
<1>1. /\ \/ value # NULL /\ CookieAppend(key, value)
         \/ /\ value = NULL /\ Answer("append", <<key, value>>, -1)
            /\ UNCHANGED <<cookie, todo, text>>
      /\ step' = IF answer'.result = 0 THEN to ELSE "refused"
      /\ starved' = (starved \/ (value # NULL /\ answer'.result # 0))
      /\ UNCHANGED <<program, given, modesVars>>
  BY DEF AppendProfile
<1>2. ModesInv' BY <1>1, ModesStep
<1>3. UNCHANGED <<pc, ret, todo, text>>
  BY <1>1 DEF modesVars, CookieAppend
<1>4. Idling' /\ ProfileFits'
  BY <1>1, <1>3 DEF Idling, ProfileFits
<1>5. CASE value = NULL
  <2>1. answer'.op = "append" /\ answer'.result = -1 /\ UNCHANGED <<cookie, todo, text>>
    BY <1>1, <1>5 DEF Answer
  <2>2. TextInv'
    BY <2>1 DEF TextInv, TodoInv, DecodedInv, WrittenInv
  <2> QED BY <1>1, <1>2, <1>4, <1>5, <2>1, <2>2
<1>6. CASE value # NULL
  <2>1. value \in String /\ CookieAppend(key, value)
    BY <1>1, <1>6
  <2>2. TextInv' BY <2>1, AppendKeepsText
  <2>3. CASE UNCHANGED cookie /\ Answer("append", <<key, value>>, -1)
    <3>1. answer'.result = -1 BY <2>3 DEF Answer
    <3>2. answer'.result # 0 BY <3>1
    <3>3. step' = "refused" /\ starved'
      BY <1>1, <1>6, <3>2, Zenon
    <3> QED BY <1>1, <1>2, <1>4, <2>2, <3>3
  <2>4. CASE /\ cookie # NULL /\ cookie' = Appended(cookie, key, value)
             /\ Answer("append", <<key, value>>, 0)
    <3>1. answer'.result = 0 BY <2>4 DEF Answer
    <3>2. HasFirst(cookie', given, n + 1)
      BY <2>1, <2>4, NextMember DEF Filling
    <3>3. cookie' # NULL
      BY <3>2, ListsAreNotNull DEF HasFirst, IsText
    <3>4. Filling(to, n + 1)'
      BY <1>1, <3>1, <3>2, <3>3 DEF Filling
    <3> QED BY <1>1, <1>2, <1>4, <2>2, <3>4
  <2> QED BY <2>1, <2>3, <2>4 DEF CookieAppend
<1> QED BY <1>5, <1>6

(* The three members, one after the other. *)
LEMMA AppendsMembers ==
    ASSUME NullIsNoValue, ProfilesInv, program = "profiles", AppendMembers
    PROVE  ProfilesInv'
<1>1. ModesInv /\ TextInv /\ ProfileFits /\ given \in Emails
  BY DEF ProfilesInv
<1>2. /\ EmailKey \in String /\ Uid \in String /\ UidValue \in String
      /\ Role \in String /\ User \in String
  BY ServiceStrings, StringIs
<1>3. /\ Profile(given)[0 + 1] = <<EmailKey, given>>
      /\ Profile(given)[1 + 1] = <<Uid, UidValue>>
      /\ Profile(given)[2 + 1] = <<Role, User>>
  BY DEF Profile
<1>4. given = NULL \/ given \in String
  BY <1>1, ServicesAssumption DEF String
<1>5. CASE AppendProfile("email", EmailKey, given, "uid")
  <2>1. Idling /\ Filling("email", 0)
    BY <1>5 DEF AppendProfile, ProfilesInv, Making, Filling, Encrypting, Made, Decrypting, Decoding
  <2>2. /\ ModesInv' /\ TextInv' /\ ProfileFits' /\ Idling' /\ UNCHANGED <<program, given>>
        /\ Filling("uid", 0 + 1)' \/ (step' = "refused" /\ (given = NULL \/ starved'))
    BY <1>1, <1>2, <1>3, <1>4, <1>5, <2>1, AppendsMember
  <2> QED BY <1>1, <2>2 DEF ProfilesInv, Making, Lost
<1>6. CASE AppendProfile("uid", Uid, UidValue, "role")
  <2>1. Idling /\ Filling("uid", 1)
    BY <1>6 DEF AppendProfile, ProfilesInv, Making, Filling, Encrypting, Made, Decrypting, Decoding
  <2>2. /\ ModesInv' /\ TextInv' /\ ProfileFits' /\ Idling' /\ UNCHANGED <<program, given>>
        /\ Filling("role", 1 + 1)' \/ (step' = "refused" /\ (UidValue = NULL \/ starved'))
    BY <1>1, <1>2, <1>3, <1>6, <2>1, AppendsMember
  <2>3. UidValue # NULL BY <1>2, StringIs
  <2> QED BY <1>1, <2>2, <2>3 DEF ProfilesInv, Making, Lost
<1>7. CASE AppendProfile("role", Role, User, "encode")
  <2>1. Idling /\ Filling("role", 2)
    BY <1>7 DEF AppendProfile, ProfilesInv, Making, Filling, Encrypting, Made, Decrypting, Decoding
  <2>2. /\ ModesInv' /\ TextInv' /\ ProfileFits' /\ Idling' /\ UNCHANGED <<program, given>>
        /\ Filling("encode", 2 + 1)' \/ (step' = "refused" /\ (User = NULL \/ starved'))
    BY <1>1, <1>2, <1>3, <1>7, <2>1, AppendsMember
  <2>3. User # NULL BY <1>2, StringIs
  <2> QED BY <1>1, <2>2, <2>3 DEF ProfilesInv, Making, Lost
<1> QED BY <1>5, <1>6, <1>7 DEF AppendMembers

(* cookie_encode() *)
LEMMA EncodesProfile ==
    ASSUME NullIsNoValue, ProfilesInv, program = "profiles", EncodeProfile
    PROVE  ProfilesInv'
<1>1. /\ step = "encode" /\ step' = "encrypt" /\ UNCHANGED <<program, given>>
      /\ CookieEncode /\ starved' = (starved \/ text'.broke) /\ UNCHANGED modesVars
  BY DEF EncodeProfile, Step
<1>2. /\ ModesInv /\ TextInv /\ ProfileFits /\ given \in Emails
      /\ Idling /\ Filling("encode", 3)
  BY <1>1 DEF ProfilesInv, Making, Filling, Encrypting, Made, Decrypting, Decoding
<1>3. TextInv'
  BY <1>1, <1>2, TextStep DEF CookieNext
<1>4. ModesInv' /\ UNCHANGED <<pc, ret, todo>>
  BY <1>1, <1>2, ModesStep DEF modesVars, CookieEncode
<1>5. HasFirst(cookie, given, 3)
  BY <1>1, <1>2 DEF CookieEncode, Filling
<1>6. PICK fails \in BOOLEAN : text' = [string  |-> IF fails THEN NULL ELSE Encoded(cookie),
                                        members |-> Members(cookie),
                                        broke   |-> fails]
  BY <1>1 DEF CookieEncode
<1>7. /\ text'.string = (IF fails THEN NULL ELSE Encoded(cookie))
      /\ text'.members = Members(cookie) /\ text'.broke = fails
  BY <1>6
<1>8. Members(cookie) = Profile(given) /\ Len(Encoded(cookie)) + CipherBlockSize < SizeWrap
  BY <1>2, <1>5, ProfileEncoded
<1>9. Encoded(cookie) # NULL
  BY <1>5, EncodedIs, StringIs DEF HasFirst
<1>10. ProfileFits' /\ (text'.string = NULL => starved')
  BY <1>1, <1>7, <1>8, <1>9 DEF ProfileFits
<1>11. Idling' BY <1>2, <1>4 DEF Idling
<1> QED BY <1>1, <1>2, <1>3, <1>4, <1>10, <1>11 DEF ProfilesInv, Making

(* The call that encrypts the text, if there is one. *)
LEMMA EncryptsProfile ==
    ASSUME ProfilesInv, program = "profiles", EncryptProfile
    PROVE  ProfilesInv'
<1>1. /\ step = "encrypt" /\ step' = "encrypting"
      /\ UNCHANGED <<program, given, cookie, todo, answer, text>>
  BY DEF EncryptProfile, Step, cookieVars
<1>2. PICK t \in MayFail(FromStr(text.string)) :
            /\ Enter(ServiceCall("ecb", "encrypt", t), NULL)
            /\ starved' = (starved \/ (text.string # NULL /\ t = NULL))
  BY DEF EncryptProfile
<1>3. /\ ModesInv /\ TextInv /\ ProfileFits /\ given \in Emails
      /\ Idling /\ (text.string = NULL => starved)
  BY <1>1 DEF ProfilesInv, Making, Filling, Encrypting, Made, Decrypting, Decoding
<1>4. text.string # NULL => text.string \in String
  BY <1>3 DEF TextInv, WrittenInv
<1>5. t = NULL \/ (text.string # NULL /\ t = text.string)
  <2>1. t = NULL \/ t = FromStr(text.string)
    BY <1>2 DEF MayFail
  <2>2. CASE text.string = NULL BY <2>1, <2>2 DEF FromStr
  <2>3. CASE text.string # NULL BY <1>4, <2>1, <2>3, StringAsBytes
  <2> QED BY <2>2, <2>3
<1>6. t = NULL \/ (t \in Seq(Byte) /\ Len(t) + CipherBlockSize < SizeWrap)
  BY <1>3, <1>4, <1>5, StringIs DEF ProfileFits
<1>7. IsCall(ServiceCall("ecb", "encrypt", t))
  BY <1>6, ServiceCallIs
<1>8. ModesInv' /\ call' = ServiceCall("ecb", "encrypt", t) /\ pc' \in {"loop", "done"}
  BY <1>2, <1>7, CallKeepsModes
<1>9. t = NULL => starved'
  <2>1. CASE text.string = NULL
    <3>1. starved BY <1>3, <2>1
    <3> QED BY <1>2, <3>1, Zenon
  <2>2. CASE text.string # NULL BY <1>2, <2>2, Zenon
  <2> QED BY <2>1, <2>2
<1>10. TextInv' /\ ProfileFits'
  BY <1>1, <1>3 DEF TextInv, TodoInv, DecodedInv, WrittenInv, ProfileFits
<1>11. Encrypting'
  BY <1>1, <1>3, <1>5, <1>8, <1>9 DEF Encrypting, Idling
<1> QED BY <1>1, <1>3, <1>8, <1>10, <1>11 DEF ProfilesInv

(* The cleanup, after a member that was refused or after that call. *)
LEMMA FreesProfile ==
    ASSUME ProfilesInv, program = "profiles", FreeProfile
    PROVE  ProfilesInv'
<1>1. /\ step = "refused" \/ (step = "encrypting" /\ pc = "done")
      /\ step' = "made" /\ starved' = (starved \/ broke) /\ cookie' = NULL
      /\ UNCHANGED <<program, given, todo, answer, text, modesVars>>
  BY DEF FreeProfile
<1>2. ModesInv /\ TextInv /\ ProfileFits /\ given \in Emails
  BY DEF ProfilesInv
<1>3. ModesInv' /\ UNCHANGED <<pc, call, ret, broke>>
  BY <1>1, <1>2, ModesStep DEF modesVars
<1>4. todo = NULL
  BY <1>1 DEF ProfilesInv, Making, Filling, Idling, Encrypting, Made, Decrypting, Decoding
<1>5. TextInv' /\ ProfileFits'
  BY <1>1, <1>2, <1>4 DEF TextInv, TodoInv, DecodedInv, WrittenInv, ProfileFits
<1>6. CASE step = "refused"
  <2>1. Idling /\ Lost
    BY <1>6 DEF ProfilesInv, Making, Filling, Encrypting, Made, Decrypting, Decoding
  <2>2. Lost' BY <1>1, <2>1, Zenon DEF Lost
  <2>3. IsCall(ServiceCall("ecb", "decrypt", NULL))
    BY ServiceCallIs
  <2>4. Made'
    BY <1>1, <1>3, <2>1, <2>2, <2>3 DEF Made, Idling
  <2> QED BY <1>1, <1>2, <1>3, <1>5, <2>4 DEF ProfilesInv
<1>7. CASE step = "encrypting" /\ pc = "done"
  <2>1. PICK t : /\ call = ServiceCall("ecb", "encrypt", t)
                 /\ t = NULL => starved
                 /\ t # NULL => t = text.string
    BY <1>7 DEF ProfilesInv, Making, Filling, Encrypting, Made, Decrypting, Decoding
  <2>2. t = NULL \/ (t \in Seq(Byte) /\ Len(t) + CipherBlockSize < SizeWrap)
    BY <1>2, <2>1, StringIs DEF TextInv, WrittenInv, ProfileFits
  <2>3. /\ IsCall(ServiceCall("ecb", "decrypt", ret))
        /\ ret = NULL => broke \/ t = NULL
        /\ ret # NULL => t # NULL /\ SentIs(ServiceCall("ecb", "decrypt", ret), t)
    BY <1>2, <1>7, <2>1, <2>2, EncryptedByService
  <2>4. ret = NULL => Lost'
    <3> SUFFICES ASSUME ret = NULL PROVE starved' BY DEF Lost
    <3>1. broke \/ starved BY <2>1, <2>3
    <3> QED BY <1>1, <3>1, Zenon
  <2>5. ret # NULL => text.string # NULL /\ SentIs(ServiceCall("ecb", "decrypt", ret), text.string)
    BY <2>1, <2>3
  <2>6. Made'
    BY <1>1, <1>3, <1>4, <1>7, <2>3, <2>4, <2>5 DEF Made
  <2> QED BY <1>1, <1>2, <1>3, <1>5, <2>6 DEF ProfilesInv
<1> QED BY <1>1, <1>6, <1>7

(* The call that decrypts what was made. *)
LEMMA DecryptsProfile ==
    ASSUME ProfilesInv, program = "profiles", DecryptProfile
    PROVE  ProfilesInv'
<1>1. /\ step = "made" /\ step' = "decrypting" /\ Enter(ServiceCall("ecb", "decrypt", ret), NULL)
      /\ UNCHANGED <<program, given, starved, cookie, todo, answer, text>>
  BY DEF DecryptProfile, Step, cookieVars
<1>2. ModesInv /\ TextInv /\ ProfileFits /\ given \in Emails /\ Made
  BY <1>1 DEF ProfilesInv, Making, Filling, Encrypting, Decrypting, Decoding
<1>3. ModesInv' /\ call' = ServiceCall("ecb", "decrypt", ret) /\ pc' \in {"loop", "done"}
  BY <1>1, <1>2, CallKeepsModes DEF Made
<1>4. call'.text = ret BY <1>3 DEF ServiceCall
<1>5. TextInv' /\ ProfileFits'
  BY <1>1, <1>2 DEF TextInv, TodoInv, DecodedInv, WrittenInv, ProfileFits
<1>6. call'.text = NULL => Lost'
  BY <1>1, <1>2, <1>4 DEF Made, Lost
<1>7. call'.text # NULL => text'.string # NULL /\ SentIs(call', text'.string)
  BY <1>1, <1>2, <1>3, <1>4 DEF Made
<1>8. Decrypting'
  BY <1>1, <1>2, <1>3, <1>6, <1>7 DEF Decrypting, Made
<1> QED BY <1>1, <1>2, <1>3, <1>5, <1>8 DEF ProfilesInv

(* The call of cookie_decode(). *)
LEMMA DecodesProfile ==
    ASSUME NullIsNoValue, ProfilesInv, program = "profiles", DecodeProfile
    PROVE  ProfilesInv'
<1>1. /\ step = "decrypting" /\ step' = "decoding" /\ pc = "done"
      /\ UNCHANGED <<program, given, modesVars>>
  BY DEF DecodeProfile, Step
<1>2. PICK desc \in MayFail(ToStr(ret)) :
            /\ CookieDecode(desc)
            /\ starved' = (starved \/ broke \/ (ret # NULL /\ desc = NULL))
  BY DEF DecodeProfile
<1>3. ModesInv /\ TextInv /\ ProfileFits /\ given \in Emails /\ Decrypting
  BY <1>1 DEF ProfilesInv, Making, Filling, Encrypting, Made, Decoding
<1>4. ModesInv' /\ UNCHANGED <<pc, call, ret, broke>>
  BY <1>1, <1>3, ModesStep DEF modesVars
<1>5. /\ ret = NULL => broke \/ call.text = NULL
      /\ ret # NULL => call.text # NULL /\ ret = text.string
  BY <1>1, <1>3, DecryptedByService DEF Decrypting
<1>6. ret # NULL => text.string # NULL /\ text.string \in String
  BY <1>3, <1>5 DEF Decrypting, TextInv, WrittenInv
<1>7. desc # NULL => /\ text.string # NULL /\ desc = ToStr(text.string)
                     /\ desc \in Seq(Byte)
  <2>1. desc = NULL \/ desc = ToStr(ret)
    BY <1>2 DEF MayFail
  <2>2. CASE ret = NULL BY <2>1, <2>2 DEF ToStr
  <2>3. CASE ret # NULL BY <1>5, <1>6, <2>1, <2>3, StringAsBytes
  <2> QED BY <2>2, <2>3
<1>8. desc = NULL => Lost'
  <2>1. CASE ret # NULL BY <1>2, <2>1, Zenon DEF Lost
  <2>2. CASE ret = NULL
    <3>1. broke \/ Lost
      BY <1>3, <1>5, <2>2 DEF Decrypting
    <3> QED BY <1>1, <1>2, <3>1, Zenon DEF Lost
  <2> QED BY <2>1, <2>2
<1>9. TextInv' BY <1>2, <1>3, <1>7, DecodeKeepsText
<1>10. UNCHANGED text /\ ProfileFits' /\ cookie = NULL
  BY <1>1, <1>2, <1>3 DEF CookieDecode, ProfileFits
<1>11. CASE /\ desc # NULL /\ todo' = [of |-> desc, tokens |-> Tokens(desc)]
  <2>1. todo' # NULL /\ todo'.of = desc
    BY <1>11 DEF NullIsNoValue
  <2>2. Decoding'
    BY <1>1, <1>4, <1>7, <1>10, <1>11, <2>1 DEF Decoding
  <2> QED BY <1>1, <1>3, <1>4, <1>9, <1>10, <2>2 DEF ProfilesInv
<1>12. CASE UNCHANGED cookie /\ DecodeReturns(desc, desc # NULL, -1)
  <2>1. /\ todo' = NULL /\ answer'.op = "decode" /\ answer'.of.string = desc
        /\ answer'.result = -1 /\ cookie' = NULL
    BY <1>10, <1>12 DEF DecodeReturns, Answer
  <2>2. Decoding'
    BY <1>1, <1>4, <1>7, <1>8, <1>10, <2>1 DEF Decoding
  <2> QED BY <1>1, <1>3, <1>4, <1>9, <1>10, <2>2 DEF ProfilesInv
<1> QED BY <1>2, <1>11, <1>12 DEF CookieDecode

(* Its tokens, and its end. *)
LEMMA GoesOnDecoding ==
    ASSUME NullIsNoValue, ProfilesInv, program = "profiles", DecodeProfileGoesOn
    PROVE  ProfilesInv'
<1>1. /\ step = "decoding" /\ todo # NULL
      /\ DecodeToken \/ DecodeEnds
      /\ UNCHANGED <<program, step, given, starved>> /\ UNCHANGED modesVars /\ UNCHANGED text
  BY DEF DecodeProfileGoesOn, serviceVars, DecodeToken, DecodeEnds
<1>2. /\ ModesInv /\ TextInv /\ ProfileFits /\ given \in Emails
      /\ pc = "done" /\ text.string # NULL /\ todo.of = ToStr(text.string)
  BY <1>1 DEF ProfilesInv, Making, Filling, Encrypting, Made, Decrypting, Decoding
<1>3. ModesInv' /\ pc' = pc
  BY <1>1, <1>2, ModesStep DEF modesVars
<1>4. TextInv' /\ ProfileFits'
  BY <1>1, <1>2, TextStep DEF CookieNext, ProfileFits
<1>5. ToStr(text.string) # NULL /\ cookie # NULL
  BY <1>1, <1>2, StringAsBytes DEF TextInv, WrittenInv, TodoInv
<1>6. CASE todo' = [todo EXCEPT !.tokens = Tail(todo.tokens)]
  <2>1. todo = [of |-> todo.of, tokens |-> todo.tokens]
    BY <1>1, <1>2 DEF TextInv, TodoInv
  <2>2. todo'.of = todo.of /\ todo' # NULL
    <3>1. PICK of, tokens : todo = [of |-> of, tokens |-> tokens] BY <2>1
    <3>2. todo' = [of |-> of, tokens |-> Tail(todo.tokens)]
      BY <1>6, <3>1
    <3> QED BY <3>1, <3>2 DEF NullIsNoValue
  <2>3. Decoding'
    BY <1>1, <1>2, <1>3, <2>2 DEF Decoding
  <2> QED BY <1>1, <1>2, <1>3, <1>4, <2>3 DEF ProfilesInv
<1>7. ASSUME NEW fails, NEW result, DecodeReturns(todo.of, fails, result),
             (cookie' = NULL /\ result = -1) \/ (cookie' = cookie /\ fails = FALSE)
      PROVE  ProfilesInv'
  <2>1. /\ todo' = NULL /\ answer'.op = "decode" /\ answer'.of.string = todo.of
        /\ answer'.of.broke = fails /\ answer'.result = result
    BY <1>7 DEF DecodeReturns, Answer
  <2>2. Decoding'
    BY <1>1, <1>2, <1>3, <1>5, <1>7, <2>1 DEF Decoding
  <2> QED BY <1>1, <1>2, <1>3, <1>4, <2>2 DEF ProfilesInv
<1> QED BY <1>1, <1>6, <1>7 DEF DecodeToken, DecodeEnds

(* The blocks of a call. *)
LEMMA ProfilesGoOn ==
    ASSUME ProfilesInv, program = "profiles", Blockwise
    PROVE  ProfilesInv'
<1>1. ModesInv /\ TextInv /\ ProfileFits /\ given \in Emails
  BY DEF ProfilesInv
<1>2. /\ ModesInv' /\ pc = "loop" /\ pc' \in {"loop", "done"} /\ call' = call
      /\ UNCHANGED <<program, step, given, starved, cookie, todo, answer, text>>
  BY <1>1, LoopGoesOn DEF Blockwise, serviceVars, cookieVars
<1>3. TextInv' /\ ProfileFits'
  BY <1>1, <1>2 DEF TextInv, TodoInv, DecodedInv, WrittenInv, ProfileFits
<1>4. CASE Encrypting
  <2>1. Encrypting' BY <1>2, <1>4 DEF Encrypting
  <2> QED BY <1>1, <1>2, <1>3, <1>4, <2>1 DEF ProfilesInv, Encrypting
<1>5. CASE Decrypting
  <2>1. Decrypting'
    BY <1>2, <1>5 DEF Decrypting, Lost
  <2> QED BY <1>1, <1>2, <1>3, <1>5, <2>1 DEF ProfilesInv, Decrypting
<1>6. Encrypting \/ Decrypting
  BY <1>2 DEF ProfilesInv, Making, Idling, Made, Decoding
<1> QED BY <1>4, <1>5, <1>6

(* What has been decoded is what the service wrote. *)
LEMMA DecodedProfile ==
    ASSUME NullIsNoValue, ProfilesInv
    PROVE  ProfileReadsBack
<1> SUFFICES ASSUME step = "decoding", todo = NULL
             PROVE  IF cookie = NULL
                    THEN given = NULL \/ starved \/ (answer.op = "decode" /\ answer.of.broke)
                    ELSE /\ Members(cookie) = <<<<EmailKey, Unseparated(given)>>, <<Uid, UidValue>>,
                                                <<Role, User>>>>
                         /\ CookieGet(cookie, Role) = <<Role, User>>
  BY DEF ProfileReadsBack
<1>1. TextInv /\ ProfileFits /\ Decoding
  BY DEF ProfilesInv, Making, Filling, Encrypting, Made, Decrypting
<1>2. CASE answer.of.string = NULL BY <1>1, <1>2 DEF Decoding, Lost
<1>3. CASE answer.of.string # NULL /\ answer.of.broke
  BY <1>1, <1>3 DEF Decoding
<1>4. CASE answer.of.string # NULL /\ ~answer.of.broke
  <2>1. text.string # NULL /\ answer.of.string = ToStr(text.string) /\ text.string \in String
    BY <1>1, <1>4 DEF Decoding, TextInv, WrittenInv
  <2>2. PICK tokens : tokens = Tokens(text.string) /\ tokens = Tokens(answer.of.string)
    BY <2>1, TokensBeforeNul
  <2>3. PICK members : members = text.members /\ members = Profile(given)
    BY <1>1, <2>1 DEF ProfileFits
  <2>4. /\ members = [i \in 1 .. Len(tokens) |-> members[i]]
        /\ \A i \in 1 .. Len(tokens) :
            /\ Equals(tokens[i]) # {}
            /\ Split(tokens[i]) = <<Unseparated(members[i][1]), Unseparated(members[i][2])>>
    BY <1>1, <2>1, <2>2, <2>3 DEF TextInv, WrittenInv
  <2>5. /\ answer.result = 0 \/ \E i \in 1 .. Len(tokens) : Equals(tokens[i]) = {}
        /\ cookie # NULL => cookie.count = Len(tokens) /\ ReadUpTo(tokens, cookie, cookie.count)
    BY <1>1, <1>4, <2>2 DEF TextInv, DecodedInv, Decoding
  <2>6. cookie # NULL
    BY <1>1, <2>4, <2>5 DEF Decoding
  <2>7. IsList(cookie)
    BY <1>1, <2>6 DEF TextInv, IsText
  <2>8. Len(tokens) \in Nat
    <3>1. text.string \in Seq(Byte)
      BY <2>1, StringIs
    <3>2. tokens \in Seq(Token)
      BY <2>2, <3>1, TokensAreStrings
    <3> QED BY <3>2
  <2>9. PICK c : c = cookie /\ c # NULL /\ IsList(c) BY <2>6, <2>7
  <2>10. c.count = Len(tokens) /\ ReadUpTo(tokens, c, c.count)
    BY <2>5, <2>9
  <2>11. /\ Members(c) = <<<<EmailKey, Unseparated(given)>>, <<Uid, UidValue>>, <<Role, User>>>>
         /\ CookieGet(c, Role) = <<Role, User>>
    <3>1. \A i \in 1 .. Len(tokens) :
            Split(tokens[i]) = <<Unseparated(members[i][1]), Unseparated(members[i][2])>>
      BY <2>4
    <3>2. Len(tokens) = 3
      <4>1. Len(members) = Len(tokens)
        BY <2>4, <2>8, Appending
      <4>2. Len(members) = 3 BY <2>3 DEF Profile
      <4> QED BY <4>1, <4>2
    <3>3. PICK g : g = given /\ members = Profile(g) BY <2>3
    <3>4. /\ Members(c) = <<<<EmailKey, Unseparated(g)>>, <<Uid, UidValue>>, <<Role, User>>>>
          /\ CookieGet(c, Role) = <<Role, User>>
      <4>1. IsList(c) /\ c.count = Len(tokens) /\ ReadUpTo(tokens, c, c.count)
        BY <2>9, <2>10
      <4> QED BY <3>1, <3>2, <3>3, <4>1, ProfileIsRead
    <3> QED BY <3>3, <3>4
  <2> QED BY <2>9, <2>11
<1> QED BY <1>2, <1>3, <1>4

(* The profile that is read back of an encrypted one has the members that
   were written into it: for every address, whatever allocation fails. *)
THEOREM ProfileIsReadBack == NullIsNoValue => (Spec => []ProfileReadsBack)
<1> SUFFICES ASSUME NullIsNoValue PROVE Spec => []ProfileReadsBack OBVIOUS
<1>1. Init => ProfilesInv
  <2> SUFFICES ASSUME Init PROVE ProfilesInv OBVIOUS
  <2>1. step = "start" /\ (program = "profiles" => given \in Emails)
    BY DEF Init
  <2>2. ModesInv
    BY DEF Init, ModesInit, ModesInv, ErrIsKept, LengthIsKept, WholeInv, LoopInv, DoneInv, SentInv,
           ModesWholeOrNull
  <2>3. TextInv
    BY DEF Init, CookieInit, TextInv, TodoInv, DecodedInv, WrittenInv
  <2>4. ProfileFits /\ Idling /\ cookie = NULL
    BY DEF Init, ModesInit, CookieInit, ProfileFits, Idling
  <2> QED BY <2>1, <2>2, <2>3, <2>4 DEF ProfilesInv, Making
<1>2. ProfilesInv /\ [Next]_vars => ProfilesInv'
  <2> SUFFICES ASSUME ProfilesInv, [Next]_vars PROVE ProfilesInv' OBVIOUS
  <2>1. CASE program = "profiles" /\ Profiles
    BY <2>1, AllocatesProfile, AppendsMembers, EncodesProfile, EncryptsProfile, FreesProfile,
       DecryptsProfile, DecodesProfile, GoesOnDecoding DEF Profiles
  <2>2. CASE program = "profiles" /\ Blockwise BY <2>2, ProfilesGoOn
  <2>3. CASE UNCHANGED vars
    <3>1. UNCHANGED modesVars /\ UNCHANGED cookieVars /\ UNCHANGED serviceVars
      BY <2>3 DEF vars
    <3>2. program = "profiles" => ModesInv'
      BY <3>1, ModesStep DEF ProfilesInv
    <3>3. UNCHANGED <<pc, call, ret, cookie, todo, answer, text, program, step, given, starved>>
      BY <3>1 DEF modesVars, cookieVars, serviceVars
    <3>4. program = "profiles" => TextInv'
      BY <3>1, TextStep DEF ProfilesInv
    <3> QED
      BY <3>2, <3>3, <3>4
      DEF ProfilesInv, ProfileFits, Making, Idling, Filling, Lost, Encrypting, Made, Decrypting,
          Decoding
  <2>4. CASE program # "profiles" /\ Next
    <3>1. program' = program /\ step # "decoding" /\ step' # "decoding"
      BY <2>4 DEF ProfilesInv, Next, Comments, Blockwise, EncryptComments, DecryptComments,
                  VerifyComments, Step, serviceVars
    <3> QED BY <2>4, <3>1 DEF ProfilesInv
  <2> QED BY <2>1, <2>2, <2>3, <2>4 DEF Next
<1>3. ProfilesInv => ProfileReadsBack
  BY DecodedProfile
<1> QED BY <1>1, <1>2, <1>3, PTL DEF Spec

(* Conversions: what is written is read back. *)

(* A byte is its two nibbles, and a digit is read as what it stands for. *)
LEMMA NibblesAre ==
    /\ \A b \in Byte : Shift(b, 4) \in 0 .. 15 /\ Low(b, 4) \in 0 .. 15
                       /\ 16 * Shift(b, 4) + Low(b, 4) = b
    /\ \A n \in 0 .. 15 : B16Table[n] \in Byte /\ HexValue(B16Table[n]) = n /\ n # NoDigit
<1>1. \A b \in Byte : Shift(b, 4) \in 0 .. 15 /\ Low(b, 4) \in 0 .. 15
                      /\ 16 * Shift(b, 4) + Low(b, 4) = b
  BY DEF Shift, Low, Byte
<1>2. \A n \in 0 .. 15 : B16Table[n] \in Byte /\ HexValue(B16Table[n]) = n /\ n # NoDigit
  BY DEF HexValue, B16Table, Digit, Lower, Upper, NoDigit, Byte
<1> QED BY <1>1, <1>2

(* What is written in hexadecimal is read back. *)
THEOREM HexIsReadBack == \A s \in Seq(Byte) : FromHex(ToHex(s)) = s
<1> SUFFICES ASSUME NEW s \in Seq(Byte) PROVE FromHex(ToHex(s)) = s OBVIOUS
<1>1. PICK n \in Nat : n = Len(s) OBVIOUS
<1>2. s \in [1 .. n -> Byte] /\ s # NULL
  BY <1>1, TextOfLength
<1> DEFINE nibble(j) == IF j % 2 = 1 THEN Shift(s[(j + 1) \div 2], 4) ELSE Low(s[(j + 1) \div 2], 4)
<1>3. PICK t : t = [j \in 1 .. 2 * n |-> B16Table[nibble(j)]] OBVIOUS
<1>4. ToHex(s) = t
  BY <1>1, <1>2, <1>3, Zenon DEF ToHex
<1>5. \A j \in 1 .. 2 * n : nibble(j) \in 0 .. 15
  <2> TAKE j \in 1 .. 2 * n
  <2>1. (j + 1) \div 2 \in 1 .. n OBVIOUS
  <2> QED BY <1>2, <2>1, NibblesAre
<1> HIDE DEF nibble
<1>6. t \in [1 .. 2 * n -> Byte] /\ \A j \in 1 .. 2 * n : HexValue(t[j]) = nibble(j) /\ nibble(j) # NoDigit
  BY <1>3, <1>5, NibblesAre
<1>7. 2 * n \in Nat /\ (2 * n) % 2 = 0 /\ (2 * n) \div 2 = n OBVIOUS
<1>8. t # NULL /\ Len(t) = 2 * n /\ DOMAIN t = 1 .. 2 * n
  BY <1>6, <1>7, TextOfLength
<1>9. FromHex(t) = [i \in 1 .. n |-> 16 * HexValue(t[2 * i - 1]) + HexValue(t[2 * i])]
  <2>1. ~(\E k \in DOMAIN t : HexValue(t[k]) = NoDigit)
    BY <1>6, <1>8
  <2> QED BY <1>7, <1>8, <2>1, Zenon DEF FromHex
<1>10. \A i \in 1 .. n : 16 * HexValue(t[2 * i - 1]) + HexValue(t[2 * i]) = s[i]
  <2> TAKE i \in 1 .. n
  <2>1. /\ 2 * i - 1 \in 1 .. 2 * n /\ 2 * i \in 1 .. 2 * n
        /\ (2 * i - 1) % 2 = 1 /\ (2 * i) % 2 # 1
        /\ ((2 * i - 1) + 1) \div 2 = i /\ (2 * i + 1) \div 2 = i
    OBVIOUS
  <2>2. nibble(2 * i - 1) = Shift(s[i], 4) /\ nibble(2 * i) = Low(s[i], 4)
    BY <2>1 DEF nibble
  <2>3. s[i] \in Byte BY <1>2
  <2> QED BY <1>6, <2>1, <2>2, <2>3, NibblesAre
<1>11. FromHex(t) = [i \in 1 .. n |-> s[i]]
  BY <1>9, <1>10, Zenon
<1> QED BY <1>2, <1>4, <1>11

(* What is written in a unit of base64 is read back, a letter is read as
   what it stands for, and is not the padding. *)
LEMMA UnitsAre ==
    /\ \A n \in 0 .. 63 : /\ B64Decode(B64Table[n]) = n /\ n # NoDigit
                          /\ B64Table[n] \in Byte /\ B64Table[n] # Pad
    /\ \A x, y, z \in Byte : LET unit == EncodedUnit(x, y, z)
                             IN  /\ \A k \in 1 .. 4 : unit[k] \in 0 .. 63
                                 /\ DecodedUnit(unit[1], unit[2], unit[3], unit[4]) = <<x, y, z>>
    /\ \A x, y \in Byte : EncodedUnit(x, y, 0)[4] = 0
    /\ \A x \in Byte : EncodedUnit(x, 0, 0)[3] = 0
<1>1. \A n \in 0 .. 63 : /\ B64Decode(B64Table[n]) = n /\ n # NoDigit
                         /\ B64Table[n] \in Byte /\ B64Table[n] # Pad
  BY DEF B64Decode, B64Table, Digit, Lower, Upper, NoDigit, Byte, Pad
<1>2. \A x, y, z \in Byte : /\ EncodedUnit(x, y, z)[1] \in 0 .. 63 /\ EncodedUnit(x, y, z)[2] \in 0 .. 63
                            /\ EncodedUnit(x, y, z)[3] \in 0 .. 63 /\ EncodedUnit(x, y, z)[4] \in 0 .. 63
  BY DEF EncodedUnit, Shift, Low, Byte
<1>3. \A x, y, z \in Byte : LET unit == EncodedUnit(x, y, z)
                            IN  DecodedUnit(unit[1], unit[2], unit[3], unit[4]) = <<x, y, z>>
  BY DEF DecodedUnit, EncodedUnit, Shift, Low, Byte
<1>4. \A x, y \in Byte : EncodedUnit(x, y, 0)[4] = 0
  BY DEF EncodedUnit, Shift, Low, Byte
<1>5. \A x \in Byte : EncodedUnit(x, 0, 0)[3] = 0
  BY DEF EncodedUnit, Shift, Low, Byte
<1>6. \A k \in 1 .. 4 : k = 1 \/ k = 2 \/ k = 3 \/ k = 4 OBVIOUS
<1>7. \A x, y, z \in Byte : \A k \in 1 .. 4 : EncodedUnit(x, y, z)[k] \in 0 .. 63
  BY <1>2, <1>6, Zenon
<1> QED BY <1>1, <1>3, <1>4, <1>5, <1>7, Zenon

ByteOrZero(s, k) == IF k <= Len(s) THEN s[k] ELSE 0
UnitOf(s, i) == EncodedUnit(ByteOrZero(s, 3 * i + 1), ByteOrZero(s, 3 * i + 2), ByteOrZero(s, 3 * i + 3))
SextetOf(s, j) == UnitOf(s, (j - 1) \div 4)[((j - 1) % 4) + 1]

(* A byte is a byte also where there is none. *)
LEMMA ByteOrZeroIs ==
    ASSUME NEW s \in Seq(Byte)
    PROVE  \A k \in Nat \ {0} : ByteOrZero(s, k) \in Byte
<1> TAKE k \in Nat \ {0}
<1>1. 0 \in Byte BY DEF Byte
<1>2. k <= Len(s) => s[k] \in Byte OBVIOUS
<1> QED BY <1>1, <1>2 DEF ByteOrZero

(* The sextets that are written, and those that are made of no byte. *)
LEMMA SextetsAre ==
    ASSUME NEW s \in Seq(Byte), NEW u \in Nat, NEW l \in 0 .. 2, 3 * u = Len(s) + l
    PROVE  /\ \A j \in 1 .. 4 * u : SextetOf(s, j) \in 0 .. 63
           /\ \A j \in 1 .. 4 * u : j > 4 * u - l => SextetOf(s, j) = 0
<1>1. PICK n \in Nat : n = Len(s) OBVIOUS
<1>2. \A k \in Nat \ {0} : ByteOrZero(s, k) \in Byte
  BY ByteOrZeroIs
<1>3. ASSUME NEW j \in 1 .. 4 * u PROVE SextetOf(s, j) \in 0 .. 63
  <2>1. PICK i \in Nat, k \in 1 .. 4 : i = (j - 1) \div 4 /\ k = ((j - 1) % 4) + 1
    OBVIOUS
  <2>2. PICK x \in Byte, y \in Byte, z \in Byte : UnitOf(s, i) = EncodedUnit(x, y, z)
    BY <1>2 DEF UnitOf
  <2>3. UnitOf(s, i)[k] \in 0 .. 63
    BY <2>2, UnitsAre, Zenon
  <2> QED BY <2>1, <2>3 DEF SextetOf
<1>4. ASSUME NEW j \in 1 .. 4 * u, j > 4 * u - l PROVE SextetOf(s, j) = 0
  <2>1. PICK i \in Nat : i = u - 1 BY <1>4
  <2>2. (j - 1) \div 4 = i /\ (j = 4 * u \/ (l = 2 /\ j = 4 * u - 1))
    BY <1>4, <2>1
  <2>3. 3 * i + 3 = n + l /\ l >= 1
    BY <1>1, <1>4, <2>1
  <2>4. ByteOrZero(s, 3 * i + 3) = 0
    BY <1>1, <2>3 DEF ByteOrZero
  <2>5. ByteOrZero(s, 3 * i + 1) \in Byte /\ ByteOrZero(s, 3 * i + 2) \in Byte
    BY <1>2
  <2>6. CASE j = 4 * u
    <3>1. ((j - 1) % 4) + 1 = 4 BY <2>1, <2>6
    <3>2. UnitOf(s, i)[4] = 0
      <4>1. PICK x \in Byte, y \in Byte : UnitOf(s, i) = EncodedUnit(x, y, 0)
        BY <2>4, <2>5, Zenon DEF UnitOf
      <4>2. EncodedUnit(x, y, 0)[4] = 0
        BY UnitsAre, Zenon
      <4> QED BY <4>1, <4>2
    <3> QED BY <2>2, <3>1, <3>2 DEF SextetOf
  <2>7. CASE l = 2 /\ j = 4 * u - 1
    <3>1. ((j - 1) % 4) + 1 = 3 BY <2>1, <2>7
    <3>2. ByteOrZero(s, 3 * i + 2) = 0
      BY <1>1, <2>3, <2>7 DEF ByteOrZero
    <3>3. UnitOf(s, i)[3] = 0
      BY <2>4, <2>5, <3>2, UnitsAre DEF UnitOf
    <3> QED BY <2>2, <3>1, <3>3 DEF SextetOf
  <2> QED BY <2>2, <2>6, <2>7
<1> QED BY <1>3, <1>4

(* What is written in base64 is read back, of every length. *)
THEOREM Base64IsReadBack == \A s \in Seq(Byte) : FromBase64(ToBase64(s)) = s
<1> SUFFICES ASSUME NEW s \in Seq(Byte) PROVE FromBase64(ToBase64(s)) = s
  OBVIOUS
<1>1. PICK n \in Nat : n = Len(s) OBVIOUS
<1>2. s \in [1 .. n -> Byte] /\ s # NULL
  BY <1>1, TextOfLength
<1>3. PICK u \in Nat, l \in 0 .. 2 : u = (n + 2) \div 3 /\ l = 3 * u - n
  OBVIOUS
<1>4. 3 * u = n + l /\ 4 * u \in Nat /\ (4 * u) % 4 = 0 /\ (4 * u) \div 4 = u /\ (u = 0 => l = 0)
  BY <1>3
<1>5. /\ \A j \in 1 .. 4 * u : SextetOf(s, j) \in 0 .. 63
      /\ \A j \in 1 .. 4 * u : j > 4 * u - l => SextetOf(s, j) = 0
  BY <1>1, <1>4, SextetsAre
<1>6. PICK t : t = [j \in 1 .. 4 * u |-> IF j > 4 * u - l THEN Pad ELSE B64Table[SextetOf(s, j)]]
  OBVIOUS
<1>7. ToBase64(s) = t
  BY <1>1, <1>2, <1>3, <1>6, Zenon DEF ToBase64, SextetOf, UnitOf, ByteOrZero
<1>8. /\ t \in [1 .. 4 * u -> Byte]
      /\ \A j \in 1 .. 4 * u :
            IF j > 4 * u - l THEN t[j] = Pad
            ELSE t[j] # Pad /\ B64Decode(t[j]) = SextetOf(s, j)
  <2>1. Pad \in Byte BY DEF Pad, Byte
  <2>2. \A m \in 0 .. 63 : B64Decode(B64Table[m]) = m /\ B64Table[m] \in Byte /\ B64Table[m] # Pad
    BY UnitsAre, Zenon
  <2> QED BY <1>5, <1>6, <2>1, <2>2
<1>9. t # NULL /\ Len(t) = 4 * u /\ DOMAIN t = 1 .. 4 * u
  BY <1>4, <1>8, TextOfLength
<1> DEFINE padding == IF Len(t) = 0 THEN 0
                      ELSE IF t[Len(t)] # Pad THEN 0
                      ELSE IF t[Len(t) - 1] = Pad THEN 2 ELSE 1
           value(j) == IF j > Len(t) - padding THEN 0 ELSE B64Decode(t[j])
           unit(i) == DecodedUnit(value(4 * i + 1), value(4 * i + 2), value(4 * i + 3), value(4 * i + 4))
<1>10. padding = l
  <2>1. CASE u = 0 BY <1>4, <1>9, <2>1
  <2>2. CASE u # 0
    <3>1. /\ 4 * u \in 1 .. 4 * u /\ 4 * u - 1 \in 1 .. 4 * u /\ 4 * u # 0
          /\ (4 * u > 4 * u - l <=> l >= 1) /\ (4 * u - 1 > 4 * u - l <=> l >= 2)
      BY <2>2
    <3>2. (t[4 * u] = Pad <=> l >= 1) /\ (t[4 * u - 1] = Pad <=> l >= 2)
      BY <1>8, <3>1
    <3> QED BY <1>9, <3>1, <3>2
  <2> QED BY <2>1, <2>2
<1>11. FromBase64(t) = IF \E j \in DOMAIN t : value(j) = NoDigit THEN NULL
                       ELSE [k \in 1 .. 3 * (Len(t) \div 4) - padding |->
                                unit((k - 1) \div 3)[((k - 1) % 3) + 1]]
  BY <1>4, <1>9, Zenon DEF FromBase64
<1>12. \A j \in 1 .. 4 * u : value(j) = SextetOf(s, j)
  BY <1>5, <1>8, <1>9, <1>10
<1>13. \A i \in Nat : i < u => unit(i) = <<ByteOrZero(s, 3 * i + 1), ByteOrZero(s, 3 * i + 2), ByteOrZero(s, 3 * i + 3)>>
  <2> SUFFICES ASSUME NEW i \in Nat, i < u
               PROVE  unit(i) = <<ByteOrZero(s, 3 * i + 1), ByteOrZero(s, 3 * i + 2), ByteOrZero(s, 3 * i + 3)>>
    OBVIOUS
  <2>1. \A k \in 1 .. 4 : 4 * i + k \in 1 .. 4 * u /\ ((4 * i + k) - 1) \div 4 = i /\ (((4 * i + k) - 1) % 4) + 1 = k
    OBVIOUS
  <2>2. \A k \in 1 .. 4 : value(4 * i + k) = UnitOf(s, i)[k]
    <3> HIDE DEF value
    <3> QED BY <1>12, <2>1, Zenon DEF SextetOf
  <2>3. \A k \in 1 .. 3 : ByteOrZero(s, 3 * i + k) \in Byte
    <3>1. \A k \in 1 .. 3 : 3 * i + k \in Nat \ {0} OBVIOUS
    <3> QED BY <3>1, ByteOrZeroIs
  <2>4. PICK x \in Byte, y \in Byte, z \in Byte :
          x = ByteOrZero(s, 3 * i + 1) /\ y = ByteOrZero(s, 3 * i + 2) /\ z = ByteOrZero(s, 3 * i + 3)
    BY <2>3
  <2>5. PICK c : c = EncodedUnit(x, y, z) OBVIOUS
  <2>6. UnitOf(s, i) = c /\ DecodedUnit(c[1], c[2], c[3], c[4]) = <<x, y, z>>
    BY <2>4, <2>5, UnitsAre, ZenonT(30) DEF UnitOf
  <2>7. unit(i) = DecodedUnit(c[1], c[2], c[3], c[4])
    <3>1. 1 \in 1 .. 4 /\ 2 \in 1 .. 4 /\ 3 \in 1 .. 4 /\ 4 \in 1 .. 4
      OBVIOUS
    <3> HIDE DEF value
    <3>2. /\ value(4 * i + 1) = c[1] /\ value(4 * i + 2) = c[2]
          /\ value(4 * i + 3) = c[3] /\ value(4 * i + 4) = c[4]
      BY <2>2, <2>6, <3>1, Zenon
    <3> QED BY <3>2, Zenon
  <2> HIDE DEF unit
  <2> QED BY <2>4, <2>6, <2>7, Zenon
<1>14. ~(\E j \in DOMAIN t : value(j) = NoDigit)
  <2>1. \A m \in 0 .. 63 : m # NoDigit
    BY DEF NoDigit
  <2> HIDE DEF value
  <2> QED BY <1>5, <1>9, <1>12, <2>1, Zenon
<1> HIDE DEF value, unit
<1>15. FromBase64(t) = [k \in 1 .. n |-> unit((k - 1) \div 3)[((k - 1) % 3) + 1]]
  <2>1. 3 * (Len(t) \div 4) - padding = n
    BY <1>4, <1>9, <1>10
  <2> QED BY <1>11, <1>14, <2>1, Zenon
<1>16. \A k \in 1 .. n : unit((k - 1) \div 3)[((k - 1) % 3) + 1] = s[k]
  <2> TAKE k \in 1 .. n
  <2>1. PICK i \in Nat, r \in 1 .. 3 : i = (k - 1) \div 3 /\ r = ((k - 1) % 3) + 1 /\ i < u /\ 3 * i + r = k
    BY <1>4
  <2>2. unit(i) = <<ByteOrZero(s, 3 * i + 1), ByteOrZero(s, 3 * i + 2), ByteOrZero(s, 3 * i + 3)>>
    BY <1>13, <2>1
  <2>3. unit(i)[r] = ByteOrZero(s, 3 * i + r)
    BY <2>2
  <2> QED BY <1>1, <2>1, <2>3 DEF ByteOrZero
<1>17. FromBase64(t) = [k \in 1 .. n |-> s[k]]
  BY <1>15, <1>16, Zenon
<1> QED BY <1>2, <1>7, <1>17

(* What is written after a string ends it. *)
LEMMA StrIsReadBack == \A s \in Seq(Byte) : FromStr(ToStr(s)) = SubSeq(s, 1, Strlen(s))
<1> SUFFICES ASSUME NEW s \in Seq(Byte) PROVE FromStr(ToStr(s)) = SubSeq(s, 1, Strlen(s))
  OBVIOUS
<1>1. PICK n \in Nat : n = Len(s) OBVIOUS
<1>2. PICK t : t = Append(s, Nul) OBVIOUS
<1>3. /\ t \in Seq(Byte) /\ Len(t) = n + 1 /\ t[n + 1] = Nul
      /\ \A k \in 1 .. n : t[k] = s[k]
  <2>1. Nul \in Byte BY DEF Nul, Byte
  <2> QED BY <1>1, <1>2, <2>1
<1>4. s # NULL /\ t # NULL BY <1>3, BytesAssumption
<1>5. PICK m \in 0 .. n : m = Strlen(s) BY <1>1, StrlenIs
<1>6. (m < n => s[m + 1] = Nul) /\ \A k \in 1 .. m : s[k] # Nul
  <2>1. m < n => s[m + 1] = Nul
    BY <1>1, <1>5, StrlenEnds
  <2> QED BY <1>1, <1>5, <2>1, StrlenEnds
<1>7. Strlen(t) = m
  <2>1. \A j \in 0 .. n + 1 : (/\ j < n + 1 => t[j + 1] = Nul
                              /\ \A k \in 1 .. j : t[k] # Nul) <=> j = m
    <3> TAKE j \in 0 .. n + 1
    <3>1. t[m + 1] = Nul
      <4>1. m < n => m + 1 \in 1 .. n OBVIOUS
      <4> QED BY <1>3, <1>6, <4>1
    <3>2. CASE j < m
      <4>1. j + 1 \in 1 .. m /\ j + 1 \in 1 .. n /\ j < n + 1
        BY <3>2
      <4>2. t[j + 1] # Nul BY <1>3, <1>6, <4>1
      <4> QED BY <3>2, <4>1, <4>2
    <3>3. CASE j > m
      <4>1. m + 1 \in 1 .. j BY <3>3
      <4> QED BY <3>1, <3>3, <4>1
    <3>4. CASE j = m
      <4>1. \A k \in 1 .. m : k \in 1 .. n OBVIOUS
      <4> QED BY <1>3, <1>6, <3>1, <3>4, <4>1
    <3> QED BY <3>2, <3>3, <3>4
  <2>2. m \in 0 .. n + 1 OBVIOUS
  <2>3. Strlen(t) = CHOOSE j \in 0 .. n + 1 : j = m
    BY <1>3, <2>1 DEF Strlen
  <2> QED BY <2>2, <2>3
<1>8. SubSeq(t, 1, m) = SubSeq(s, 1, m)
  BY <1>1, <1>3
<1> QED BY <1>2, <1>4, <1>5, <1>7, <1>8, Zenon DEF FromStr, ToStr

(* What is XORed twice with a key that repeats is what it was. *)
LEMMA XorIsReadBack ==
    ASSUME NEW s \in Seq(Byte), NEW key \in Seq(Byte), Len(key) > 0
    PROVE  RepeatingKeyXor(RepeatingKeyXor(s, key), key) = s
<1>1. PICK n \in Nat, l \in Nat \ {0} : n = Len(s) /\ l = Len(key) OBVIOUS
<1>2. /\ s \in [1 .. n -> Byte] /\ s # NULL /\ DOMAIN s = 1 .. n
      /\ key \in [1 .. l -> Byte] /\ key # NULL
  BY <1>1, TextOfLength
<1> DEFINE at(k) == key[((k - 1) % l) + 1]
<1>3. \A k \in 1 .. n : at(k) \in Byte
  <2> TAKE k \in 1 .. n
  <2>1. ((k - 1) % l) + 1 \in 1 .. l OBVIOUS
  <2> QED BY <1>2, <2>1
<1>4. PICK t : t = [k \in 1 .. n |-> XorTable[s[k]][at(k)]] OBVIOUS
<1>5. RepeatingKeyXor(s, key) = t
  BY <1>1, <1>2, <1>4, Zenon DEF RepeatingKeyXor
<1> HIDE DEF at
<1>6. t \in [1 .. n -> Byte] /\ \A k \in 1 .. n : XorTable[t[k]][at(k)] = s[k]
  <2>1. \A x, y \in Byte : XorTable[x][y] \in Byte /\ XorTable[XorTable[x][y]][y] = x
    BY XorOfBytes, Zenon
  <2>2. \A k \in 1 .. n : s[k] \in Byte BY <1>2
  <2> QED BY <1>3, <1>4, <2>1, <2>2
<1>7. t # NULL /\ DOMAIN t = 1 .. n
  BY <1>6, TextOfLength
<1>8. RepeatingKeyXor(t, key) = [k \in 1 .. n |-> XorTable[t[k]][at(k)]]
  BY <1>1, <1>2, <1>7, Zenon DEF RepeatingKeyXor, at
<1>9. RepeatingKeyXor(t, key) = [k \in 1 .. n |-> s[k]]
  BY <1>6, <1>8, Zenon
<1> QED BY <1>2, <1>5, <1>9

(* Seven is three bits. *)
LEMMA BitsOfSeven == Popcnt(7) = 3
<1>1. /\ Bit(7, 0) = 1 /\ Bit(7, 1) = 1 /\ Bit(7, 2) = 1 /\ Bit(7, 3) = 0
      /\ Bit(7, 4) = 0 /\ Bit(7, 5) = 0 /\ Bit(7, 6) = 0 /\ Bit(7, 7) = 0
  BY DEF Bit
<1>2. {i \in 0 .. 7 : Bit(7, i) = 1} = 0 .. 2
  <2>1. \A i \in 0 .. 7 : i \in {0, 1, 2, 3, 4, 5, 6, 7} OBVIOUS
  <2>2. \A i \in 0 .. 7 : Bit(7, i) = 1 <=> i \in {0, 1, 2}
    BY <1>1, <2>1
  <2>3. 0 .. 2 = {0, 1, 2} /\ {0, 1, 2} \subseteq 0 .. 7 OBVIOUS
  <2> QED BY <2>2, <2>3
<1>3. Cardinality(0 .. 2) = 3
  <2>1. PICK a \in Int, b \in Int : a = 0 /\ b = 2 OBVIOUS
  <2>2. Cardinality(a .. b) = IF a > b THEN 0 ELSE b - a + 1
    BY FS_Interval
  <2> QED BY <2>1, <2>2
<1> QED BY <1>2, <1>3 DEF Popcnt

(* XORed with one byte, a text differs by the bits of that byte, each time. *)
LEMMA DistanceIs ==
    ASSUME NEW s \in Seq(Byte)
    PROVE  HammingDistance(s, RepeatingKeyXor(s, <<7>>)) = 3 * Len(s)
<1>1. PICK n \in Nat : n = Len(s) OBVIOUS
<1>2. s \in [1 .. n -> Byte] /\ s # NULL /\ DOMAIN s = 1 .. n
  BY <1>1, TextOfLength
<1>3. PICK key : key = <<7>> OBVIOUS
<1>4. key \in Seq(Byte) /\ Len(key) = 1 /\ key[1] = 7 /\ 7 \in Byte
  BY <1>3 DEF Byte
<1>5. key # NULL BY <1>4, BytesAssumption
<1>6. PICK t : t = [k \in 1 .. n |-> XorTable[s[k]][7]] OBVIOUS
<1>7. RepeatingKeyXor(s, key) = t
  <2>1. \A k \in 1 .. n : key[((k - 1) % Len(key)) + 1] = 7
    <3> TAKE k \in 1 .. n
    <3>1. ((k - 1) % 1) + 1 = 1 OBVIOUS
    <3> QED BY <1>4, <3>1
  <2>2. RepeatingKeyXor(s, key) = [k \in 1 .. n |-> XorTable[s[k]][key[((k - 1) % Len(key)) + 1]]]
    <3>1. Len(key) # 0 BY <1>4
    <3> QED BY <1>2, <1>5, <3>1, Zenon DEF RepeatingKeyXor
  <2> QED BY <1>6, <2>1, <2>2, Zenon
<1>8. \A k \in 1 .. n : XorTable[s[k]][t[k]] = 7
  <2> TAKE k \in 1 .. n
  <2>1. PICK x \in Byte, y \in Byte : x = s[k] /\ y = 7 BY <1>2, <1>4
  <2>2. t[k] = XorTable[x][y] BY <1>6, <2>1
  <2>3. XorTable[x][y] = XorTable[y][x] /\ XorTable[y][x] \in Byte /\ XorTable[XorTable[y][x]][x] = y
    BY XorOfBytes, Zenon
  <2>4. XorTable[x][XorTable[y][x]] = XorTable[XorTable[y][x]][x]
    BY <2>3, XorOfBytes, Zenon
  <2> QED BY <2>1, <2>2, <2>3, <2>4, Zenon
<1>9. t \in [1 .. n -> Byte]
  <2>1. \A k \in 1 .. n : s[k] \in Byte BY <1>2
  <2>2. \A x \in Byte : XorTable[x][7] \in Byte
    BY <1>4, XorOfBytes, Zenon
  <2> QED BY <1>6, <2>1, <2>2
<1>10. t # NULL /\ Len(t) = n BY <1>9, TextOfLength
<1> DEFINE Def(f) == [k \in 0 .. Len(s) |-> IF k = 0 THEN 0 ELSE f[k - 1] + Popcnt(XorTable[s[k]][t[k]])]
           sum == CHOOSE f : f = Def(f)
<1>11. HammingDistance(s, t) = sum[n]
  BY <1>1, <1>2, <1>10, Zenon DEF HammingDistance
<1>12. sum = Def(sum)
  <2>1. PICK f : f = [k \in 0 .. n |-> 3 * k] OBVIOUS
  <2>2. \A k \in 0 .. n : f[k] = IF k = 0 THEN 0 ELSE f[k - 1] + Popcnt(XorTable[s[k]][t[k]])
    <3> TAKE k \in 0 .. n
    <3>1. CASE k = 0 BY <2>1, <3>1
    <3>2. CASE k # 0
      <4>1. k \in 1 .. n /\ k - 1 \in 0 .. n BY <3>2
      <4>2. Popcnt(XorTable[s[k]][t[k]]) = 3
        BY <1>8, <4>1, BitsOfSeven
      <4>3. f[k] = 3 * k /\ f[k - 1] = 3 * (k - 1)
        BY <2>1, <4>1
      <4> QED BY <3>2, <4>2, <4>3
    <3> QED BY <3>1, <3>2
  <2>3. f = [k \in 0 .. n |-> f[k]] BY <2>1
  <2>4. f = Def(f) BY <1>1, <2>2, <2>3, Zenon
  <2> QED BY <2>4, Zenon
<1> HIDE DEF sum
<1>13. \A k \in 0 .. n : sum[k] = 3 * k
  <2>1. \A k \in 0 .. n : sum[k] = IF k = 0 THEN 0 ELSE sum[k - 1] + Popcnt(XorTable[s[k]][t[k]])
    BY <1>1, <1>12, Zenon
  <2> DEFINE W == {k \in 0 .. n : sum[k] = 3 * k}
  <2>2. 0 \in W BY <2>1
  <2>3. ASSUME NEW k \in 0 .. n - 1, k \in W PROVE k + 1 \in W
    <3>1. k + 1 \in 0 .. n /\ k + 1 \in 1 .. n /\ (k + 1) - 1 = k /\ k + 1 # 0
      OBVIOUS
    <3>2. Popcnt(XorTable[s[k + 1]][t[k + 1]]) = 3
      BY <1>8, <3>1, BitsOfSeven
    <3>3. sum[k + 1] = sum[k] + 3 /\ sum[k] = 3 * k
      BY <2>1, <2>3, <3>1, <3>2
    <3> QED BY <3>1, <3>3
  <2>4. \A k \in 0 .. n : k \in W
    <3> HIDE DEF W
    <3> QED BY <2>2, <2>3, CountingUp
  <2> QED BY <2>4
<1> QED BY <1>1, <1>3, <1>7, <1>11, <1>13

(* A number of four digits, the lowest first, in base c, with its powers. *)
HasDigits(v, x, y, z, w, c, c2, c3) ==
    /\ c \in Nat \ {0} /\ c2 \in Nat /\ c3 \in Nat /\ c2 = c * c /\ c3 = c * c2
    /\ x \in 0 .. c - 1 /\ y \in 0 .. c - 1 /\ z \in 0 .. c - 1 /\ w \in 0 .. c - 1
    /\ v \in Nat /\ v = x + y * c + z * c2 + w * c3

AreDigits(v, x, y, z, w, c, c2, c3) ==
    v % c = x /\ (v \div c) % c = y /\ (v \div c2) % c = z /\ (v \div c3) % c = w

LEMMA DigitsOfNumber ==
    ASSUME NEW v, NEW x, NEW y, NEW z, NEW w, NEW c, NEW c2, NEW c3,
           HasDigits(v, x, y, z, w, c, c2, c3)
    PROVE  AreDigits(v, x, y, z, w, c, c2, c3)
<1>0. /\ c \in Nat \ {0} /\ c2 \in Nat /\ c3 \in Nat /\ c2 = c * c /\ c3 = c * c2
      /\ x \in 0 .. c - 1 /\ y \in 0 .. c - 1 /\ z \in 0 .. c - 1 /\ w \in 0 .. c - 1
      /\ v \in Nat /\ v = x + y * c + z * c2 + w * c3
  BY DEF HasDigits
<1>1. PICK v2 \in Nat : v2 = w * c + z BY <1>0
<1>2. PICK v1 \in Nat : v1 = v2 * c + y BY <1>0
<1>3. v = v1 * c + x BY <1>0, <1>1, <1>2
<1>4. v = x + y * c + z * c2 + w * c3
  BY <1>0, <1>1, <1>2, <1>3
<1>5. v \div c = v1 /\ v % c = x /\ v1 % c = y /\ v2 % c = z
  <2>1. (v1 * c + x) \div c = v1 /\ (v1 * c + x) % c = x
    BY <1>0, QuotientIs
  <2>2. (v2 * c + y) % c = y BY <1>0, QuotientIs
  <2>3. (w * c + z) % c = z BY <1>0, QuotientIs
  <2> QED BY <1>0, <1>1, <1>2, <1>3, <2>1, <2>2, <2>3
<1>6. y * c <= c2 - c /\ c2 >= c /\ y * c >= 0
  <2>1. (c - 1 - y) * c >= 0 /\ (c - 1) * c >= 0 /\ y * c >= 0
    BY <1>0
  <2> QED BY <1>0, <2>1
<1>7. v \div c2 = v2
  <2>1. PICK r \in 0 .. c2 - 1 : r = x + y * c BY <1>0, <1>6
  <2>2. v = v2 * c2 + r /\ c2 \in Nat \ {0}
    BY <1>0, <1>2, <1>3, <1>6, <2>1
  <2>3. (v2 * c2 + r) \div c2 = v2
    BY <1>0, <2>2, QuotientIs
  <2> QED BY <1>0, <2>2, <2>3
<1>8. z * c2 <= c3 - c2 /\ z * c2 >= 0 /\ c3 >= c2
  <2>1. (c - 1 - z) * c2 >= 0 /\ (c - 1) * c2 >= 0 /\ z * c2 >= 0
    BY <1>0
  <2> QED BY <1>0, <2>1
<1>9. v \div c3 = w
  <2>1. PICK r \in 0 .. c3 - 1 : r = x + y * c + z * c2 BY <1>0, <1>6, <1>8
  <2>2. v = w * c3 + r /\ c3 \in Nat \ {0}
    BY <1>0, <1>4, <1>6, <1>8, <2>1
  <2>3. (w * c3 + r) \div c3 = w
    <3>1. w \in Nat BY <1>0
    <3> QED BY <2>2, <3>1, QuotientIs
  <2> QED BY <1>0, <2>2, <2>3
<1>10. w % c = w BY <1>0
<1> QED BY <1>0, <1>4, <1>5, <1>7, <1>9, <1>10 DEF AreDigits

(* The four bytes of a word, in either order, are read as they were written. *)
IsWord(v, x, y, z, w) == v = x * 2 ^ 0 + y * 2 ^ 8 + z * 2 ^ 16 + w * 2 ^ 24

ReadsAs(v, x, y, z, w) ==
    /\ Low(Shift(v, 0), 8) = x /\ Low(Shift(v, 8), 8) = y
    /\ Low(Shift(v, 16), 8) = z /\ Low(Shift(v, 24), 8) = w

LEMMA BytesOfWord ==
    ASSUME NEW x \in Byte, NEW y \in Byte, NEW z \in Byte, NEW w \in Byte,
           NEW v, IsWord(v, x, y, z, w)
    PROVE  ReadsAs(v, x, y, z, w)
<1>1. PICK c \in Nat \ {0} : c = 256 OBVIOUS
<1>2. PICK c2 \in Nat : c2 = c * c OBVIOUS
<1>3. PICK c3 \in Nat : c3 = c * c2 OBVIOUS
<1>4. 2 ^ 0 = 1 /\ 2 ^ 8 = c BY <1>1, SMT
<1>5. 2 ^ 16 = c2 BY <1>1, <1>2, SMT
<1>6. 2 ^ 24 = c3
  <2>1. c2 = 65536 BY <1>1, <1>2, SMT
  <2> QED BY <1>1, <1>3, <2>1, SMT
<1>7. x \in 0 .. c - 1 /\ y \in 0 .. c - 1 /\ z \in 0 .. c - 1 /\ w \in 0 .. c - 1
  BY <1>1 DEF Byte
<1>8. PICK u \in Nat : u = x + y * c + z * c2 + w * c3 BY <1>7
<1>9. AreDigits(u, x, y, z, w, c, c2, c3)
  <2>1. HasDigits(u, x, y, z, w, c, c2, c3)
    BY <1>2, <1>3, <1>7, <1>8, Zenon DEF HasDigits
  <2> QED BY <2>1, DigitsOfNumber, Zenon
<1>10. x * 1 + y * c + z * c2 + w * c3 = u /\ u \div 1 = u
  BY <1>7, <1>8
<1>11. v = u
  BY <1>4, <1>5, <1>6, <1>10, Zenon DEF IsWord
<1> QED
  BY <1>4, <1>5, <1>6, <1>9, <1>10, <1>11, Zenon DEF AreDigits, Low, Shift, ReadsAs

LEMMA WordIsReadBack ==
    ASSUME NEW order \in {"le", "be"}, NEW b \in [0 .. 3 -> Byte], NEW r \in 0 .. 3
    PROVE  LET part(k) == b[k] * 2 ^ (8 * Place(order, k))
           IN  Low(Shift(part(0) + part(1) + part(2) + part(3), 8 * Place(order, r)), 8) = b[r]
<1>1. PICK x \in Byte, y \in Byte, z \in Byte, w \in Byte :
        x = b[0] /\ y = b[1] /\ z = b[2] /\ w = b[3]
  OBVIOUS
<1>2. r = 0 \/ r = 1 \/ r = 2 \/ r = 3 OBVIOUS
<1> DEFINE e(k) == 2 ^ k
           part(k) == b[k] * e(8 * Place(order, k))
<1>3. x \in Int /\ y \in Int /\ z \in Int /\ w \in Int
  BY DEF Byte
<1>4. e(0) \in Int /\ e(8) \in Int /\ e(16) \in Int /\ e(24) \in Int
  BY SMT
<1>5. CASE order = "le"
  <2>1. /\ 8 * Place(order, 0) = 0 /\ 8 * Place(order, 1) = 8
        /\ 8 * Place(order, 2) = 16 /\ 8 * Place(order, 3) = 24
    BY <1>5 DEF Place
  <2>2. PICK v : v = x * e(0) + y * e(8) + z * e(16) + w * e(24) OBVIOUS
  <2>3. /\ Low(Shift(v, 0), 8) = x /\ Low(Shift(v, 8), 8) = y
        /\ Low(Shift(v, 16), 8) = z /\ Low(Shift(v, 24), 8) = w
    <3>1. IsWord(v, x, y, z, w)
      BY <2>2, Zenon DEF IsWord
    <3>2. ReadsAs(v, x, y, z, w)
      BY <3>1, BytesOfWord, Zenon
    <3> QED BY <3>2, Zenon DEF ReadsAs
  <2>4. part(0) + part(1) + part(2) + part(3) = v
    BY <1>1, <2>1, <2>2, Zenon
  <2> HIDE DEF part
  <2>5. Low(Shift(v, 8 * Place(order, r)), 8) = b[r]
    BY <1>1, <1>2, <2>1, <2>3, Zenon
  <2>6. Low(Shift(part(0) + part(1) + part(2) + part(3), 8 * Place(order, r)), 8) = b[r]
    BY <2>4, <2>5, Zenon
  <2> QED BY <2>6, Zenon DEF part
<1>6. CASE order = "be"
  <2>1. /\ 8 * Place(order, 0) = 24 /\ 8 * Place(order, 1) = 16
        /\ 8 * Place(order, 2) = 8 /\ 8 * Place(order, 3) = 0
    BY <1>6 DEF Place
  <2>2. PICK v : v = w * e(0) + z * e(8) + y * e(16) + x * e(24) OBVIOUS
  <2>3. /\ Low(Shift(v, 0), 8) = w /\ Low(Shift(v, 8), 8) = z
        /\ Low(Shift(v, 16), 8) = y /\ Low(Shift(v, 24), 8) = x
    <3>1. IsWord(v, w, z, y, x)
      BY <2>2, Zenon DEF IsWord
    <3>2. ReadsAs(v, w, z, y, x)
      BY <3>1, BytesOfWord, Zenon
    <3> QED BY <3>2, Zenon DEF ReadsAs
  <2> HIDE DEF e
  <2>4. part(0) + part(1) + part(2) + part(3) = v
    <3>1. PICK pp \in Int, qq \in Int, rr \in Int, ss \in Int :
            pp = x * e(24) /\ qq = y * e(16) /\ rr = z * e(8) /\ ss = w * e(0)
      BY <1>3, <1>4
    <3>2. part(0) = pp /\ part(1) = qq /\ part(2) = rr /\ part(3) = ss
      BY <1>1, <2>1, <3>1, Zenon
    <3>3. v = ss + rr + qq + pp BY <2>2, <3>1, Zenon
    <3> HIDE DEF part
    <3> QED BY <3>2, <3>3
  <2> HIDE DEF part
  <2>5. Low(Shift(v, 8 * Place(order, r)), 8) = b[r]
    BY <1>1, <1>2, <2>1, <2>3, Zenon
  <2>6. Low(Shift(part(0) + part(1) + part(2) + part(3), 8 * Place(order, r)), 8) = b[r]
    BY <2>4, <2>5, Zenon
  <2> QED BY <2>6, Zenon DEF part, e
<1> QED BY <1>5, <1>6, Zenon

(* Words are read as they were written, whatever the order of their bytes. *)
LEMMA WordsAreReadBack ==
    ASSUME NEW order \in {"le", "be"}, NEW s \in Seq(Byte)
    PROVE  WordsReadBack(order, s)
<1>1. PICK n \in Nat : n = Len(s) OBVIOUS
<1>2. s \in [1 .. n -> Byte] /\ s # NULL
  BY <1>1, TextOfLength
<1>3. CASE n % 4 # 0 BY <1>1, <1>2, <1>3, Zenon DEF WordsReadBack, ToUint32
<1>4. CASE n % 4 = 0
  <2>1. PICK m \in Nat : m = n \div 4 /\ n = 4 * m BY <1>4
  <2> DEFINE part(i, k) == s[4 * (i - 1) + k + 1] * 2 ^ (8 * Place(order, k))
             word(i) == part(i, 0) + part(i, 1) + part(i, 2) + part(i, 3)
  <2>2. PICK w : w = [i \in 1 .. m |-> word(i)] OBVIOUS
  <2>3. ToUint32(order, s) = w
    BY <1>1, <1>2, <1>4, <2>1, <2>2, Zenon DEF ToUint32
  <2>4. w \in Seq(Nat) /\ Len(w) = m /\ w # NULL
    <3>1. \A k \in 0 .. 3 : 2 ^ (8 * Place(order, k)) \in Nat
      <4>1. \A k \in 0 .. 3 : 8 * Place(order, k) \in {0, 8, 16, 24}
        BY DEF Place
      <4>2. 2 ^ 0 \in Nat /\ 2 ^ 8 \in Nat /\ 2 ^ 16 \in Nat /\ 2 ^ 24 \in Nat
        BY SMT
      <4>3. \A e \in {0, 8, 16, 24} : 2 ^ e \in Nat
        BY <4>2
      <4> QED BY <4>1, <4>3, Zenon
    <3>2. \A i \in 1 .. m, k \in 0 .. 3 : s[4 * (i - 1) + k + 1] \in Nat
      <4>1. \A i \in 1 .. m, k \in 0 .. 3 : 4 * (i - 1) + k + 1 \in 1 .. n
        BY <2>1
      <4>2. \A k \in 1 .. n : s[k] \in Nat
        <5>1. \A k \in 1 .. n : s[k] \in Byte
          BY <1>2
        <5>2. \A byte \in Byte : byte \in Nat
          BY DEF Byte
        <5> QED BY <5>1, <5>2, Zenon
      <4> QED BY <4>1, <4>2, Zenon
    <3>3. \A i \in 1 .. m, k \in 0 .. 3 : part(i, k) \in Nat
      <4>1. \A x, y \in Nat : x * y \in Nat OBVIOUS
      <4> QED BY <3>1, <3>2, <4>1, Zenon
    <3> HIDE DEF part
    <3>4. \A i \in 1 .. m : word(i) \in Nat BY <3>3
    <3> HIDE DEF word
    <3>5. w \in [1 .. m -> Nat] BY <2>2, <3>4
    <3> QED BY <3>5, ConversionsAssumption
  <2>5. FromUint32(order, w) = [j \in 1 .. 4 * m |->
            Low(Shift(w[((j - 1) \div 4) + 1], 8 * Place(order, (j - 1) % 4)), 8)]
    BY <2>4, Zenon DEF FromUint32
  <2>6. ASSUME NEW j \in 1 .. 4 * m
        PROVE  Low(Shift(w[((j - 1) \div 4) + 1], 8 * Place(order, (j - 1) % 4)), 8) = s[j]
    <3>1. PICK i \in 1 .. m, r \in 0 .. 3 : /\ i = ((j - 1) \div 4) + 1 /\ r = (j - 1) % 4
                                           /\ j = 4 * (i - 1) + r + 1
      OBVIOUS
    <3>2. PICK b : b = [k \in 0 .. 3 |-> s[4 * (i - 1) + k + 1]] OBVIOUS
    <3>3. b \in [0 .. 3 -> Byte] /\ b[r] = s[j]
      <4>1. \A k \in 0 .. 3 : 4 * (i - 1) + k + 1 \in 1 .. n
        BY <2>1
      <4> QED BY <1>2, <3>1, <3>2, <4>1
    <3>4. word(i) = b[0] * 2 ^ (8 * Place(order, 0)) + b[1] * 2 ^ (8 * Place(order, 1))
                    + b[2] * 2 ^ (8 * Place(order, 2)) + b[3] * 2 ^ (8 * Place(order, 3))
      <4>1. 0 \in 0 .. 3 /\ 1 \in 0 .. 3 /\ 2 \in 0 .. 3 /\ 3 \in 0 .. 3
        OBVIOUS
      <4> QED BY <3>2, <4>1, Zenon
    <3>5. Low(Shift(word(i), 8 * Place(order, r)), 8) = b[r]
      <4> HIDE DEF word
      <4> QED BY <3>3, <3>4, WordIsReadBack
    <3>6. w[i] = word(i) BY <2>2
    <3> HIDE DEF word
    <3> QED BY <3>1, <3>3, <3>5, <3>6
  <2>7. FromUint32(order, w) = [j \in 1 .. 4 * m |-> s[j]]
    BY <2>5, <2>6, Zenon
  <2>8. FromUint32(order, w) = s BY <1>2, <2>1, <2>7
  <2> QED BY <1>1, <1>4, <2>3, <2>8 DEF WordsReadBack
<1> QED BY <1>3, <1>4

(* What a character of a unit is taken for, when the last pad are padding. *)
ValueOf(s, pad, j) == IF j > 4 - pad THEN 0 ELSE B64Decode(s[j])

PaddingOf(s) == IF s[4] # Pad THEN 0 ELSE IF s[3] = Pad THEN 2 ELSE 1

(* One unit: it is refused when a character is, and otherwise decoded. *)
LEMMA UnitIsDecoded ==
    ASSUME NEW s \in [1 .. 4 -> Byte], NEW pad, pad = PaddingOf(s)
    PROVE  /\ (\E j \in 1 .. 4 : ValueOf(s, pad, j) = NoDigit) => FromBase64(s) = NULL
           /\ ~(\E j \in 1 .. 4 : ValueOf(s, pad, j) = NoDigit) =>
                FromBase64(s) = [k \in 1 .. 3 - pad |->
                    DecodedUnit(ValueOf(s, pad, 1), ValueOf(s, pad, 2),
                                ValueOf(s, pad, 3), ValueOf(s, pad, 4))[k]]
<1>1. PICK n \in Nat : n = 4 OBVIOUS
<1>2. s \in Seq(Byte) /\ Len(s) = 4 /\ s # NULL /\ DOMAIN s = 1 .. 4
  BY <1>1, TextOfLength
<1>3. pad \in 0 .. 2 BY DEF PaddingOf
<1> DEFINE padding == IF Len(s) = 0 THEN 0
                      ELSE IF s[Len(s)] # Pad THEN 0
                      ELSE IF s[Len(s) - 1] = Pad THEN 2 ELSE 1
           value(j) == IF j > Len(s) - padding THEN 0 ELSE B64Decode(s[j])
           unit(i) == DecodedUnit(value(4 * i + 1), value(4 * i + 2), value(4 * i + 3), value(4 * i + 4))
<1>4. padding = pad BY <1>2 DEF PaddingOf
<1>5. FromBase64(s) = IF \E j \in DOMAIN s : value(j) = NoDigit THEN NULL
                      ELSE [k \in 1 .. 3 * (Len(s) \div 4) - padding |->
                                unit((k - 1) \div 3)[((k - 1) % 3) + 1]]
  <2>1. Len(s) % 4 = 0 BY <1>2
  <2> QED BY <1>2, <2>1, Zenon DEF FromBase64
<1>6. \A j : value(j) = ValueOf(s, pad, j)
  BY <1>2, <1>4, Zenon DEF ValueOf
<1>7. unit(0) = DecodedUnit(ValueOf(s, pad, 1), ValueOf(s, pad, 2),
                            ValueOf(s, pad, 3), ValueOf(s, pad, 4))
  <2>1. 4 * 0 + 1 = 1 /\ 4 * 0 + 2 = 2 /\ 4 * 0 + 3 = 3 /\ 4 * 0 + 4 = 4
    OBVIOUS
  <2> HIDE DEF value
  <2> QED BY <1>6, <2>1, Zenon
<1>8. 3 * (Len(s) \div 4) - padding = 3 - pad
  BY <1>2, <1>3, <1>4
<1>9. \A k \in 1 .. 3 - pad : (k - 1) \div 3 = 0 /\ ((k - 1) % 3) + 1 = k
  BY <1>3
<1> HIDE DEF value, unit, padding
<1>10. FromBase64(s) = IF \E j \in DOMAIN s : value(j) = NoDigit THEN NULL
                       ELSE [k \in 1 .. 3 - pad |-> unit((k - 1) \div 3)[((k - 1) % 3) + 1]]
  BY <1>5, <1>8, Zenon
<1>11. [k \in 1 .. 3 - pad |-> unit((k - 1) \div 3)[((k - 1) % 3) + 1]] = [k \in 1 .. 3 - pad |-> unit(0)[k]]
  BY <1>9, Zenon
<1> QED BY <1>2, <1>6, <1>7, <1>10, <1>11, Zenon

(* What a letter may stand for; the padding stands for nothing. *)
LEMMA LettersAre ==
    /\ \A c \in Byte : B64Decode(c) \in 0 .. 63 \/ B64Decode(c) = NoDigit
    /\ B64Decode(Pad) = NoDigit /\ \A m \in 0 .. 63 : m # NoDigit
BY DEF B64Decode, Upper, Lower, Digit, NoDigit, Pad, Byte

(* The bytes of a unit are its number, and the bits that are dropped are
   the rest of it. *)
Holds(u, n, c, d) ==
    /\ 65536 * u[1] + 256 * u[2] + u[3] = n
    /\ d = 0 => 65536 * u[1] + 256 * u[2] = n - (n % 256)
    /\ c = 0 /\ d = 0 => 65536 * u[1] = n - (n % 65536)

LEMMA UnitNumber ==
    ASSUME NEW a \in 0 .. 63, NEW b \in 0 .. 63, NEW c \in 0 .. 63, NEW d \in 0 .. 63
    PROVE  Holds(DecodedUnit(a, b, c, d), 64 * (64 * (64 * a + b) + c) + d, c, d)
<1>1. PICK x \in 0 .. 255, y \in 0 .. 255, z \in 0 .. 255 :
        /\ x = 4 * a + (b \div 16) /\ y = 16 * (b % 16) + (c \div 4) /\ z = 64 * (c % 4) + d
  <2>1. 4 * a + (b \div 16) \in 0 .. 255 OBVIOUS
  <2>2. 16 * (b % 16) + (c \div 4) \in 0 .. 255 OBVIOUS
  <2>3. 64 * (c % 4) + d \in 0 .. 255 OBVIOUS
  <2> QED BY <2>1, <2>2, <2>3, Zenon
<1>2. PICK n \in Nat : n = 64 * (64 * (64 * a + b) + c) + d OBVIOUS
<1>3. DecodedUnit(a, b, c, d) = <<x, y, z>>
  <2>1. 2 ^ 4 = 16 /\ 2 ^ 2 = 4 OBVIOUS
  <2> QED BY <1>1, <2>1, Zenon DEF DecodedUnit, Shift, Low
<1>4. 65536 * x + 256 * y + z = n BY <1>1, <1>2
<1>5. n % 256 = z
  <2>1. PICK e \in Nat \ {0} : e = 256 OBVIOUS
  <2>2. PICK q \in Nat, r \in 0 .. e - 1 : q = 256 * x + y /\ r = z BY <2>1
  <2>3. (q * e + r) % e = r BY QuotientIs
  <2>4. n = q * e + r BY <1>4, <2>1, <2>2
  <2> QED BY <2>1, <2>2, <2>3, <2>4
<1>6. n % 65536 = 256 * y + z
  <2>1. PICK e \in Nat \ {0} : e = 65536 OBVIOUS
  <2>2. PICK r \in Int : r = 256 * y + z OBVIOUS
  <2>3. r >= 0 /\ r <= 65535 BY <2>2, SMT
  <2>4. r \in 0 .. e - 1
    <3>1. r < e BY <2>1, <2>3, SMT
    <3> QED BY <2>3, <3>1
  <2>5. x \in Nat OBVIOUS
  <2>6. (x * e + r) % e = r
    BY <2>4, <2>5, QuotientIs
  <2>7. n = x * e + r
    <3>1. n = 65536 * x + r BY <1>4, <2>2, SMT
    <3>2. x * e = 65536 * x BY <2>1, SMT
    <3> QED BY <3>1, <3>2, SMT
  <2> QED BY <2>1, <2>2, <2>6, <2>7, SMT
<1>7. 65536 * x + 256 * y = n - (n % 256) /\ 65536 * x = n - (n % 65536)
  BY <1>4, <1>5, <1>6
<1>8. /\ 65536 * x + 256 * y + z = n
      /\ d = 0 => 65536 * x + 256 * y = n - (n % 256)
      /\ c = 0 /\ d = 0 => 65536 * x = n - (n % 65536)
  BY <1>4, <1>7
<1>9. PICK u : u = DecodedUnit(a, b, c, d) OBVIOUS
<1>10. u[1] = x /\ u[2] = y /\ u[3] = z
  BY <1>3, <1>9
<1>11. Holds(u, n, c, d) BY <1>8, <1>10 DEF Holds
<1> QED BY <1>2, <1>9, <1>11, Zenon

(* Four characters are read as the number they are, or refused. *)
LEMMA UnitIsTheNumber ==
    ASSUME NEW s \in [1 .. 4 -> Byte]
    PROVE  UnitIsNumber(s)
<1>1. PICK pad : pad = PaddingOf(s) OBVIOUS
<1> DEFINE pads == {k \in 1 .. 4 : s[k] = Pad}
           digit(k) == IF k \in pads THEN 0 ELSE B64Decode(s[k])
           Accepted == (\A k \in 1 .. 4 : digit(k) # NoDigit) /\ pads \in {{}, {4}, {3, 4}}
           V(j) == ValueOf(s, pad, j)
<1>2. (\E j \in 1 .. 4 : V(j) = NoDigit) => FromBase64(s) = NULL
  BY <1>1, UnitIsDecoded, Zenon
<1>3. ~(\E j \in 1 .. 4 : V(j) = NoDigit) =>
        FromBase64(s) = [k \in 1 .. 3 - pad |-> DecodedUnit(V(1), V(2), V(3), V(4))[k]]
  BY <1>1, UnitIsDecoded, ZenonT(30)
<1>4. \A k \in 1 .. 4 : /\ s[k] \in Byte
                        /\ B64Decode(s[k]) \in 0 .. 63 \/ B64Decode(s[k]) = NoDigit
                        /\ s[k] = Pad => B64Decode(s[k]) = NoDigit
                        /\ k \in pads <=> s[k] = Pad
  <2>1. \A k \in 1 .. 4 : s[k] \in Byte OBVIOUS
  <2> QED BY <2>1, LettersAre, Zenon
<1>5. \A k \in 1 .. 4 : digit(k) = (IF k \in pads THEN 0 ELSE B64Decode(s[k]))
  OBVIOUS
<1>6. 1 \in 1 .. 4 /\ 2 \in 1 .. 4 /\ 3 \in 1 .. 4 /\ 4 \in 1 .. 4 /\ \A k \in 1 .. 4 : k = 1 \/ k = 2 \/ k = 3 \/ k = 4
  OBVIOUS
<1>7. pads \subseteq {1, 2, 3, 4} BY <1>6
<1> HIDE DEF pads, digit
<1>8. pads = {} \/ pads = {4} \/ pads = {3, 4} =>
        pad = (IF pads = {} THEN 0 ELSE IF pads = {4} THEN 1 ELSE 2)
  <2>1. CASE pads = {} BY <1>1, <1>4, <1>6, <2>1 DEF PaddingOf
  <2>2. CASE pads = {4} BY <1>1, <1>4, <1>6, <2>2 DEF PaddingOf
  <2>3. CASE pads = {3, 4} BY <1>1, <1>4, <1>6, <2>3 DEF PaddingOf
  <2> QED BY <2>1, <2>2, <2>3
<1>9. pads = {} \/ pads = {4} \/ pads = {3, 4} => \A j \in 1 .. 4 : V(j) = digit(j)
  <2>1. CASE pads = {} BY <1>5, <1>8, <2>1 DEF ValueOf
  <2>2. CASE pads = {4} BY <1>5, <1>8, <2>2 DEF ValueOf
  <2>3. CASE pads = {3, 4} BY <1>5, <1>8, <2>3 DEF ValueOf
  <2> QED BY <2>1, <2>2, <2>3
<1>10. ASSUME \A j \in 1 .. 4 : V(j) # NoDigit
       PROVE  pads = {} \/ pads = {4} \/ pads = {3, 4}
  <2>1. \A j \in 1 .. 4 : j <= 4 - pad => j \notin pads
    <3> SUFFICES ASSUME NEW j \in 1 .. 4, j <= 4 - pad PROVE j \notin pads
      OBVIOUS
    <3>1. ~(j > 4 - pad)
      <4>1. pad \in Int BY <1>1 DEF PaddingOf
      <4> QED BY <4>1
    <3>2. B64Decode(s[j]) # NoDigit
      BY <1>10, <3>1, Zenon DEF ValueOf
    <3> QED BY <1>4, <3>2, Zenon
  <2>2. CASE pad = 0
    <3>1. \A j \in {1, 2, 3, 4} : j \notin pads
      BY <1>6, <2>1, <2>2
    <3> QED BY <1>7, <3>1
  <2>3. CASE pad = 1
    <3>1. 1 \notin pads /\ 2 \notin pads /\ 3 \notin pads
      BY <1>6, <2>1, <2>3
    <3>2. 4 \in pads
      BY <1>1, <1>4, <1>6, <2>3 DEF PaddingOf
    <3> QED BY <1>7, <3>1, <3>2
  <2>4. CASE pad = 2
    <3>1. 1 \notin pads /\ 2 \notin pads
      BY <1>6, <2>1, <2>4
    <3>2. 4 \in pads /\ 3 \in pads
      BY <1>1, <1>4, <1>6, <2>4 DEF PaddingOf
    <3> QED BY <1>7, <3>1, <3>2
  <2> QED BY <1>1, <2>2, <2>3, <2>4 DEF PaddingOf
<1> HIDE DEF V
<1>11. Accepted <=> ~(\E j \in 1 .. 4 : V(j) = NoDigit)
  BY <1>9, <1>10, Zenon
<1> DEFINE number == 64 * (64 * (64 * digit(1) + digit(2)) + digit(3)) + digit(4)
           padding == IF pads = {} THEN 0 ELSE IF pads = {4} THEN 1 ELSE 2
           dropped == number % (IF pads = {} THEN 1 ELSE IF pads = {4} THEN 256 ELSE 65536)
           bytes == FromBase64(s)
           byte(k) == IF k <= 3 - padding THEN bytes[k] ELSE 0
<1>12. ~Accepted => bytes = NULL
  <2>1. (\E j \in 1 .. 4 : V(j) = NoDigit) => bytes = NULL
    BY <1>2, Zenon
  <2> HIDE DEF Accepted
  <2> QED BY <1>11, <2>1, Zenon
<1>13. ASSUME Accepted
       PROVE  Len(bytes) = 3 - padding /\ 65536 * byte(1) + 256 * byte(2) + byte(3) = number - dropped
  <2>1. PICK a \in 0 .. 63, b \in 0 .. 63, c \in 0 .. 63, d \in 0 .. 63 :
          a = digit(1) /\ b = digit(2) /\ c = digit(3) /\ d = digit(4)
    <3>1. \A k \in 1 .. 4 : digit(k) \in 0 .. 63
      <4>1. \A k \in 1 .. 4 : digit(k) # NoDigit
        BY <1>13
      <4>2. 0 \in 0 .. 63 OBVIOUS
      <4> QED BY <1>4, <1>5, <4>1, <4>2, Zenon
    <3> QED BY <1>6, <3>1, Zenon
  <2>2. PICK u : u = DecodedUnit(a, b, c, d) OBVIOUS
  <2>3. bytes = [k \in 1 .. 3 - pad |-> u[k]]
    <3>1. V(1) = a /\ V(2) = b /\ V(3) = c /\ V(4) = d
      BY <1>6, <1>9, <1>13, <2>1
    <3>2. ~(\E j \in 1 .. 4 : V(j) = NoDigit)
      BY <1>11, <1>13
    <3>3. bytes = [k \in 1 .. 3 - pad |-> DecodedUnit(V(1), V(2), V(3), V(4))[k]]
      BY <1>3, <3>2, Zenon
    <3>4. DecodedUnit(V(1), V(2), V(3), V(4)) = u
      BY <2>2, <3>1, Zenon
    <3> QED BY <3>3, <3>4, Zenon
  <2>4. pad = padding /\ pad \in 0 .. 2
    BY <1>8, <1>13
  <2>5. Len(bytes) = 3 - padding
    <3>1. 3 - pad \in Nat BY <2>4
    <3> HIDE DEF bytes, padding
    <3> QED BY <2>3, <2>4, <3>1
  <2>6. \A k \in 1 .. 3 : byte(k) = IF k <= 3 - pad THEN u[k] ELSE 0
    <3> HIDE DEF bytes, padding
    <3> QED BY <2>3, <2>4
  <2>7. PICK n \in Nat : n = 64 * (64 * (64 * a + b) + c) + d OBVIOUS
  <2>8. number = n BY <2>1, <2>7, SMT
  <2>9. /\ 65536 * u[1] + 256 * u[2] + u[3] = n
        /\ d = 0 => 65536 * u[1] + 256 * u[2] = n - (n % 256)
        /\ c = 0 /\ d = 0 => 65536 * u[1] = n - (n % 65536)
    <3>1. Holds(u, n, c, d)
      BY <2>2, <2>7, UnitNumber, Zenon
    <3> QED BY <3>1 DEF Holds
  <2>10. u[1] \in Int /\ u[2] \in Int /\ u[3] \in Int
    BY <2>2 DEF DecodedUnit, Shift, Low
  <2>11. 1 \in 1 .. 3 /\ 2 \in 1 .. 3 /\ 3 \in 1 .. 3 OBVIOUS
  <2> HIDE DEF number, byte
  <2>12. CASE pads = {}
    <3>1. byte(1) = u[1] /\ byte(2) = u[2] /\ byte(3) = u[3]
      BY <2>4, <2>6, <2>11, <2>12
    <3>2. dropped = 0
      <4>1. n % 1 = 0 OBVIOUS
      <4> QED BY <2>8, <2>12, <4>1
    <3> QED BY <2>5, <2>8, <2>9, <3>1, <3>2
  <2>13. CASE pads = {4}
    <3>1. byte(1) = u[1] /\ byte(2) = u[2] /\ byte(3) = 0
      BY <2>4, <2>6, <2>11, <2>13
    <3>2. d = 0 BY <1>5, <1>6, <2>1, <2>13
    <3>3. dropped = n % 256 BY <2>8, <2>13
    <3>4. 65536 * byte(1) + 256 * byte(2) + byte(3) = 65536 * u[1] + 256 * u[2]
      BY <2>10, <3>1
    <3>5. number - dropped = n - (n % 256)
      BY <2>8, <3>3
    <3>6. 65536 * u[1] + 256 * u[2] = n - (n % 256)
      BY <2>9, <3>2
    <3> QED BY <2>5, <3>4, <3>5, <3>6
  <2>14. CASE pads = {3, 4}
    <3>1. byte(1) = u[1] /\ byte(2) = 0 /\ byte(3) = 0
      BY <2>4, <2>6, <2>11, <2>14
    <3>2. c = 0 /\ d = 0 BY <1>5, <1>6, <2>1, <2>14
    <3>3. dropped = n % 65536
      <4>1. pads # {} /\ pads # {4}
        <5>1. 3 \in pads /\ 3 \notin {4} BY <2>14
        <5> QED BY <5>1
      <4> QED BY <2>8, <4>1
    <3>4. 65536 * byte(1) + 256 * byte(2) + byte(3) = 65536 * u[1]
      BY <2>10, <3>1
    <3>5. number - dropped = n - (n % 65536)
      BY <2>8, <3>3
    <3>6. 65536 * u[1] = n - (n % 65536)
      BY <2>9, <3>2
    <3> QED BY <2>5, <3>4, <3>5, <3>6
  <2> QED BY <1>13, <2>12, <2>13, <2>14
<1> HIDE DEF number, byte, bytes, dropped, padding
<1> QED
  BY <1>12, <1>13 DEF UnitIsNumber, number, byte, bytes, dropped, padding, digit, pads

(* Parts of a buffer. *)

(* bytes_find() finds the first place of what it searches for. *)
LEMMA FirstOne ==
    ASSUME NEW haystack \in Seq(Byte), NEW needle \in Seq(Byte)
    PROVE  FirstIsFound(haystack, needle)
<1>1. PICK n \in Nat, m \in Nat : n = Len(haystack) /\ m = Len(needle) OBVIOUS
<1>2. haystack # NULL /\ needle # NULL /\ (needle = <<>> <=> m = 0)
  BY <1>1, BytesAssumption
<1> DEFINE matches == {i \in 0 .. Len(haystack) - 1 :
                            /\ haystack[i + 1] = needle[1]
                            /\ i + Len(needle) <= Len(haystack)
                            /\ SubSeq(haystack, i + 1, i + Len(needle)) = needle}
           places == {p \in 0 .. Len(haystack) - Len(needle) :
                        SubSeq(haystack, p + 1, p + Len(needle)) = needle}
           first == CHOOSE i \in matches : \A j \in matches : i <= j
<1>3. CASE m = 0
  <2>1. Find(haystack, needle) = [ret |-> -1]
    BY <1>1, <1>2, <1>3, Zenon DEF Find
  <2> QED BY <1>2, <1>3, <2>1 DEF FirstIsFound
<1>4. CASE m # 0
  <2>1. matches = places
    <3>1. ASSUME NEW p \in 0 .. n - m, SubSeq(haystack, p + 1, p + m) = needle
          PROVE  p \in 0 .. n - 1 /\ p + m <= n /\ haystack[p + 1] = needle[1]
      <4>1. p \in 0 .. n - 1 /\ p + m <= n /\ p + 1 \in 1 .. n /\ p + m \in 1 .. n
        BY <1>4, <3>1
      <4>2. SubSeq(haystack, p + 1, p + m)[1] = haystack[p + 1]
        <5>1. \A k \in 1 .. m : SubSeq(haystack, p + 1, p + m)[k] = haystack[p + k]
          BY <1>1, <4>1
        <5> QED BY <1>4, <5>1
      <4> QED BY <3>1, <4>1, <4>2
    <3>2. \A p \in 0 .. n - 1 : p + m <= n => p \in 0 .. n - m OBVIOUS
    <3> QED BY <1>1, <3>1, <3>2
  <2>2. Find(haystack, needle) = IF matches = {} THEN [ret |-> 1] ELSE [ret |-> 0, index |-> first]
    BY <1>1, <1>2, <1>4, Zenon DEF Find
  <2>3. matches # {} => first \in matches /\ \A j \in matches : first <= j
    <3>1. matches \subseteq Nat OBVIOUS
    <3> HIDE DEF matches
    <3> QED BY <3>1, Smallest, Zenon
  <2> HIDE DEF matches, first
  <2>4. CASE places = {}
    <3>1. Find(haystack, needle).ret = 1
      BY <2>1, <2>2, <2>4
    <3> QED BY <1>2, <1>4, <2>4, <3>1, Zenon DEF FirstIsFound
  <2>5. CASE places # {}
    <3>1. Find(haystack, needle).ret = 0 /\ Find(haystack, needle).index = first
      BY <2>1, <2>2, <2>5
    <3>2. first \in places /\ \A p \in places : first <= p
      BY <2>1, <2>3, <2>5, Zenon
    <3> QED BY <1>2, <1>4, <2>5, <3>1, <3>2, Zenon DEF FirstIsFound
  <2> QED BY <2>4, <2>5
<1> QED BY <1>3, <1>4

(* bytes_sput() as a whole. *)
LEMMA CopyIs ==
    ASSUME NEW dest \in Seq(Byte), NEW at \in Nat,
           NEW src \in Seq(Byte), NEW offset \in Nat, NEW len \in Nat,
           at + len < SizeWrap, offset + len < SizeWrap
    PROVE  CopyIsThere(dest, at, src, offset, len)
<1>1. dest # NULL /\ src # NULL BY BytesAssumption
<1>2. CASE offset + len > Len(src) \/ at + len > Len(dest)
  BY <1>2, ExceedsIsExact DEF Sput, CopyIsThere
<1>3. CASE offset + len <= Len(src) /\ at + len <= Len(dest)
  <2>1. ~Exceeds(offset, len, src) /\ ~Exceeds(at, len, dest)
    BY <1>3, ExceedsIsExact
  <2>2. Sput(dest, at, src, offset, len) =
            [k \in 1 .. Len(dest) |-> IF k - at \in 1 .. len THEN At(src, offset + k - at) ELSE dest[k]]
    <3>1. DOMAIN dest = 1 .. Len(dest) OBVIOUS
    <3> QED BY <1>1, <2>1, <3>1 DEF Sput
  <2>3. \A k \in 1 .. Len(dest) :
            (IF k - at \in 1 .. len THEN At(src, offset + k - at) ELSE dest[k])
            = (IF k \in at + 1 .. at + len THEN src[offset + k - at] ELSE dest[k])
    <3> TAKE k \in 1 .. Len(dest)
    <3>1. k - at \in 1 .. len <=> k \in at + 1 .. at + len OBVIOUS
    <3>2. k - at \in 1 .. len => At(src, offset + k - at) = src[offset + k - at]
      BY <1>3 DEF At
    <3> QED BY <3>1, <3>2, Zenon
  <2>4. ~(offset + len > Len(src) \/ at + len > Len(dest))
    BY <1>3
  <2> QED BY <2>2, <2>3, <2>4, Zenon DEF CopyIsThere
<1> QED BY <1>2, <1>3

(* How long the slice at p is, and what it and the slices after it are. *)
SliceLen(src, size, p) == IF p + size >= Len(src) THEN Len(src) - p ELSE size

SlicesAt(src, size, jump, f, p) ==
    IF p >= Len(src) THEN <<>>
    ELSE SubSeq(src, p + 1, p + SliceLen(src, size, p)) \o f[p + SliceLen(src, size, p) + jump]

SlicesFrom(src, size, jump, f) == f = [p \in Nat |-> SlicesAt(src, size, jump, f, p)]

(* A slice is not empty, and is in the buffer. *)
LEMMA SliceLenIs ==
    ASSUME NEW src \in Seq(Byte), NEW size \in Nat \ {0}, NEW p \in Nat, p < Len(src)
    PROVE  SliceLen(src, size, p) \in 1 .. size /\ p + SliceLen(src, size, p) \in 1 .. Len(src)
BY DEF SliceLen

(* There are such slices. *)
LEMMA SlicesExist ==
    ASSUME NEW src \in Seq(Byte), NEW size \in Nat \ {0}, NEW jump \in Nat
    PROVE  \E f : SlicesFrom(src, size, jump, f)
<1>1. PICK n \in Nat : n = Len(src) OBVIOUS
<1> DEFINE Body(f, p) == SlicesAt(src, size, jump, f, p)
           next(p) == p + SliceLen(src, size, p) + jump
<1>2. \A p \in Nat : p < n => next(p) \in Nat /\ next(p) > p
  <2> SUFFICES ASSUME NEW p \in Nat, p < n PROVE next(p) \in Nat /\ next(p) > p
    OBVIOUS
  <2>1. SliceLen(src, size, p) \in 1 .. size
    BY <1>1, SliceLenIs
  <2> QED BY <2>1
<1>3. ASSUME NEW f \in [Nat -> Seq(Byte)], NEW p \in Nat
      PROVE  Body(f, p) \in Seq(Byte)
  <2>1. CASE p >= n BY <1>1, <2>1 DEF SlicesAt
  <2>2. CASE p < n
    <3>1. PICK e \in 1 .. n : e = p + SliceLen(src, size, p)
      BY <1>1, <2>2, SliceLenIs
    <3>2. SubSeq(src, p + 1, e) \in Seq(Byte)
      <4>0. SliceLen(src, size, p) \in 1 .. size /\ p + SliceLen(src, size, p) \in 1 .. n
        BY <1>1, <2>2, SliceLenIs
      <4>1. PICK l \in Nat : l = SliceLen(src, size, p) /\ p + l <= n BY <4>0
      <4>2. SubSeq(src, p + 1, p + l) \in Seq(Byte)
        BY <1>1, <4>1, PartIs
      <4> QED BY <3>1, <4>1, <4>2
    <3>3. f[e + jump] \in Seq(Byte) OBVIOUS
    <3>4. Body(f, p) = SubSeq(src, p + 1, e) \o f[e + jump]
      <4>1. ~(p >= Len(src)) BY <1>1, <2>2
      <4> QED BY <3>1, <4>1, Zenon DEF SlicesAt
    <3> QED BY <3>2, <3>3, <3>4
  <2> QED BY <2>1, <2>2
<1>4. ASSUME NEW f, NEW g, NEW p \in Nat, \A q \in Nat : q > p => f[q] = g[q]
      PROVE  Body(f, p) = Body(g, p)
  <2>1. CASE p >= n BY <1>1, <2>1 DEF SlicesAt
  <2>2. CASE p < n
    <3>1. f[next(p)] = g[next(p)]
      BY <1>2, <1>4, <2>2
    <3> QED BY <3>1, Zenon DEF SlicesAt
  <2> QED BY <2>1, <2>2
<1> HIDE DEF Body, next
<1> DEFINE Upto(g, k) == \A p \in Nat : p >= n - k => g[p] = Body(g, p)
           W == {k \in 0 .. n : \E g \in [Nat -> Seq(Byte)] : Upto(g, k)}
<1>5. 0 \in W
  <2>1. PICK g : g = [p \in Nat |-> <<>>] OBVIOUS
  <2>2. g \in [Nat -> Seq(Byte)] BY <2>1
  <2>3. Upto(g, 0)
    <3> SUFFICES ASSUME NEW p \in Nat, p >= n - 0 PROVE g[p] = Body(g, p)
      OBVIOUS
    <3>1. Body(g, p) = <<>>
      BY <1>1 DEF Body, SlicesAt
    <3> QED BY <2>1, <3>1
  <2> HIDE DEF Upto
  <2> QED BY <2>2, <2>3
<1>6. ASSUME NEW k \in 0 .. n - 1, k \in W PROVE k + 1 \in W
  <2>1. PICK f \in [Nat -> Seq(Byte)] : Upto(f, k) BY <1>6
  <2>2. PICK p \in Nat : p = n - (k + 1) OBVIOUS
  <2>3. PICK b \in Seq(Byte) : b = Body(f, p) BY <1>3
  <2>4. PICK g : g = [q \in Nat |-> IF q = p THEN b ELSE f[q]] OBVIOUS
  <2>5. g \in [Nat -> Seq(Byte)] BY <2>4
  <2>6. ASSUME NEW q \in Nat, q >= n - (k + 1) PROVE g[q] = Body(g, q)
    <3>1. \A r \in Nat : r > q => f[r] = g[r]
      BY <2>2, <2>4, <2>6
    <3>2. Body(f, q) = Body(g, q)
      BY <1>4, <3>1, Zenon
    <3>3. CASE q = p BY <2>3, <2>4, <3>2, <3>3
    <3>4. CASE q # p
      <4>1. q >= n - k BY <2>2, <2>6, <3>4
      <4>2. f[q] = Body(f, q) BY <2>1, <4>1
      <4> QED BY <2>4, <3>2, <3>4, <4>2
    <3> QED BY <3>3, <3>4
  <2>7. Upto(g, k + 1) BY <2>6
  <2>8. k + 1 \in 0 .. n OBVIOUS
  <2> HIDE DEF Upto
  <2> QED BY <2>5, <2>7, <2>8
<1>7. n \in W
  <2> HIDE DEF W
  <2>1. \A k \in 0 .. n : k \in W
    BY <1>5, <1>6, CountingUp
  <2> QED BY <2>1
<1>8. PICK g \in [Nat -> Seq(Byte)] : Upto(g, n) BY <1>7
<1>9. \A p \in Nat : g[p] = Body(g, p) BY <1>8
<1>10. g = [p \in Nat |-> g[p]] BY <1>8
<1>11. g = [p \in Nat |-> Body(g, p)]
  BY <1>9, <1>10, Zenon
<1> QED BY <1>11, Zenon DEF SlicesFrom, Body

(* bytes_slices() returns them. *)
LEMMA SlicesAre ==
    ASSUME NEW src \in Seq(Byte), NEW offset \in Nat, NEW size \in Nat \ {0}, NEW jump \in Nat
    PROVE  \E f : /\ SlicesFrom(src, size, jump, f)
                  /\ Slices(src, offset, size, jump) =
                        IF Len(src) < offset \/ f[offset] = <<>> THEN NULL ELSE f[offset]
<1> DEFINE Def(f) == [p \in Nat |-> SlicesAt(src, size, jump, f, p)]
           from == CHOOSE f : f = Def(f)
<1>1. src # NULL /\ size # 0 BY BytesAssumption
<1>2. Slices(src, offset, size, jump) =
        IF Len(src) < offset \/ from[offset] = <<>> THEN NULL ELSE from[offset]
  <2>1. Slices(src, offset, size, jump) =
            IF src = NULL THEN NULL
            ELSE IF Len(src) < offset \/ size = 0 \/ from[offset] = <<>> THEN NULL
            ELSE from[offset]
    BY Zenon DEF Slices, SlicesAt, SliceLen
  <2> HIDE DEF from
  <2> QED BY <1>1, <2>1, Zenon
<1>3. \E f : f = Def(f)
  BY SlicesExist, Zenon DEF SlicesFrom
<1>4. from = Def(from) BY <1>3, Zenon
<1>5. SlicesFrom(src, size, jump, from)
  BY <1>4, Zenon DEF SlicesFrom
<1> HIDE DEF from
<1> QED BY <1>2, <1>5

(* The places of the first slice, and of those after it. *)
LEMMA PlacesAre ==
    ASSUME NEW size \in Nat \ {0}, NEW jump \in Nat, NEW p \in Nat
    PROVE  /\ \A i \in 1 .. size : PlaceOf(i, p, size, jump) = p + i
           /\ \A i \in Nat : i > size =>
                PlaceOf(i, p, size, jump) = PlaceOf(i - size, p + size + jump, size, jump)
<1>1. ASSUME NEW i \in 1 .. size PROVE PlaceOf(i, p, size, jump) = p + i
  <2>1. PICK r \in 0 .. size - 1 : r = i - 1 OBVIOUS
  <2>2. PICK z \in Nat : z = 0 OBVIOUS
  <2>3. (z * size + r) \div size = z /\ (z * size + r) % size = r
    BY QuotientIs
  <2>4. z * size + r = i - 1 BY <2>1, <2>2
  <2>5. (i - 1) \div size = 0 /\ (i - 1) % size = i - 1
    BY <2>1, <2>2, <2>3, <2>4
  <2>6. 0 * (size + jump) = 0 OBVIOUS
  <2>7. p + 0 + (i - 1) + 1 = p + i OBVIOUS
  <2> QED BY <2>5, <2>6, <2>7, Zenon DEF PlaceOf
<1>2. ASSUME NEW i \in Nat, i > size
      PROVE  PlaceOf(i, p, size, jump) = PlaceOf(i - size, p + size + jump, size, jump)
  <2>1. PICK v \in Nat : v = (i - size) - 1 BY <1>2
  <2>2. v = size * (v \div size) + (v % size) /\ v % size \in 0 .. size - 1 /\ v \div size \in Nat
    OBVIOUS
  <2>3. PICK q \in Nat, r \in 0 .. size - 1 : q = v \div size /\ r = v % size /\ v = size * q + r
    BY <2>2
  <2>4. PICK q1 \in Nat : q1 = q + 1 OBVIOUS
  <2>5. (q1 * size + r) \div size = q1 /\ (q1 * size + r) % size = r
    BY QuotientIs
  <2>6. q1 * size + r = i - 1
    <3>1. q1 * size = size * q + size BY <2>4
    <3> QED BY <2>1, <2>3, <3>1
  <2>7. (i - 1) \div size = q1 /\ (i - 1) % size = r
    BY <2>5, <2>6
  <2>8. PICK w \in Nat : w = size + jump OBVIOUS
  <2>9. p + q1 * w + r + 1 = (p + size + jump) + q * w + r + 1
    <3>1. q1 * w = q * w + w BY <2>4
    <3>2. PICK a \in Nat, b \in Nat : a = q1 * w /\ b = q * w OBVIOUS
    <3>3. p + a + r + 1 = (p + size + jump) + b + r + 1
      BY <2>8, <3>1, <3>2
    <3> QED BY <3>2, <3>3
  <2>10. PlaceOf(i, p, size, jump) = p + q1 * w + r + 1
    BY <2>7, <2>8, Zenon DEF PlaceOf
  <2>11. PlaceOf(i - size, p + size + jump, size, jump) = (p + size + jump) + q * w + r + 1
    BY <2>1, <2>3, <2>8, Zenon DEF PlaceOf
  <2> QED BY <2>9, <2>10, <2>11, Zenon
<1> QED BY <1>1, <1>2

(* What the slices from a place on have to be. *)
GoodFrom(src, p, size, jump, t) ==
    /\ t \in Seq(Byte)
    /\ \A i \in 1 .. Len(t) : /\ PlaceOf(i, p, size, jump) <= Len(src)
                              /\ t[i] = src[PlaceOf(i, p, size, jump)]
    /\ PlaceOf(Len(t) + 1, p, size, jump) > Len(src)

(* Behind the buffer there is none. *)
LEMMA NoneBehind ==
    ASSUME NEW src \in Seq(Byte), NEW p \in Nat, NEW size \in Nat \ {0}, NEW jump \in Nat,
           p >= Len(src)
    PROVE  GoodFrom(src, p, size, jump, <<>>)
<1>1. PlaceOf(1, p, size, jump) = p + 1
  <2>1. 1 \in 1 .. size OBVIOUS
  <2> QED BY <2>1, PlacesAre
<1>2. Len(<<>>) = 0 /\ <<>> \in Seq(Byte) /\ Len(<<>>) + 1 = 1 OBVIOUS
<1>3. \A i \in 1 .. 0 : FALSE OBVIOUS
<1>4. p + 1 > Len(src) OBVIOUS
<1> QED BY <1>1, <1>2, <1>3, <1>4, Zenon DEF GoodFrom

(* The last slice. *)
LEMMA LastIsGood ==
    ASSUME NEW src \in Seq(Byte), NEW p \in Nat, NEW size \in Nat \ {0}, NEW jump \in Nat,
           NEW l \in 1 .. size, p + l = Len(src)
    PROVE  GoodFrom(src, p, size, jump, SubSeq(src, p + 1, p + l))
<1>1. PICK t : t = SubSeq(src, p + 1, p + l) OBVIOUS
<1>2. t \in Seq(Byte) /\ Len(t) = l /\ \A k \in 1 .. l : t[k] = src[p + k]
  BY <1>1, PartIs
<1>3. \A i \in 1 .. l : PlaceOf(i, p, size, jump) = p + i /\ p + i <= Len(src)
  <2>1. \A i \in 1 .. size : PlaceOf(i, p, size, jump) = p + i
    BY PlacesAre
  <2>2. \A i \in 1 .. l : i \in 1 .. size /\ p + i <= Len(src) OBVIOUS
  <2> QED BY <2>1, <2>2, Zenon
<1>4. PlaceOf(l + 1, p, size, jump) > Len(src)
  <2>1. CASE l < size
    <3>1. l + 1 \in 1 .. size BY <2>1
    <3>2. PlaceOf(l + 1, p, size, jump) = p + (l + 1)
      BY <3>1, PlacesAre
    <3> QED BY <3>2
  <2>2. CASE l = size
    <3>1. PICK j \in Nat : j = l + 1 OBVIOUS
    <3>2. j > size /\ j - size = 1 /\ p + size + jump \in Nat /\ 1 \in 1 .. size
      BY <2>2, <3>1
    <3>3. PlaceOf(j, p, size, jump) = PlaceOf(j - size, p + size + jump, size, jump)
      BY <3>2, PlacesAre, ZenonT(30)
    <3>4. PlaceOf(1, p + size + jump, size, jump) = p + size + jump + 1
      BY <3>2, PlacesAre
    <3>5. p + size + jump + 1 > Len(src) BY <2>2
    <3> QED BY <3>1, <3>2, <3>3, <3>4, <3>5
  <2> QED BY <2>1, <2>2
<1>5. \A i \in 1 .. Len(t) : /\ PlaceOf(i, p, size, jump) <= Len(src)
                             /\ t[i] = src[PlaceOf(i, p, size, jump)]
  BY <1>2, <1>3
<1> QED BY <1>1, <1>2, <1>4, <1>5, Zenon DEF GoodFrom

(* A slice before others. *)
LEMMA NextIsGood ==
    ASSUME NEW src \in Seq(Byte), NEW p \in Nat, NEW size \in Nat \ {0}, NEW jump \in Nat,
           p + size < Len(src), NEW u, GoodFrom(src, p + size + jump, size, jump, u)
    PROVE  GoodFrom(src, p, size, jump, SubSeq(src, p + 1, p + size) \o u)
<1>1. PICK a : a = SubSeq(src, p + 1, p + size) OBVIOUS
<1>2. a \in Seq(Byte) /\ Len(a) = size /\ \A k \in 1 .. size : a[k] = src[p + k]
  <2>1. size \in Nat /\ p + size <= Len(src) OBVIOUS
  <2> QED BY <1>1, <2>1, PartIs
<1>3. PICK q \in Nat : q = p + size + jump OBVIOUS
<1>4. /\ u \in Seq(Byte)
      /\ \A i \in 1 .. Len(u) : PlaceOf(i, q, size, jump) <= Len(src) /\ u[i] = src[PlaceOf(i, q, size, jump)]
      /\ PlaceOf(Len(u) + 1, q, size, jump) > Len(src)
  BY <1>3, Zenon DEF GoodFrom
<1>5. PICK m \in Nat : m = Len(u) BY <1>4
<1>6. PICK t : t = a \o u OBVIOUS
<1>7. /\ t \in Seq(Byte) /\ Len(t) = size + m
      /\ \A i \in 1 .. size : t[i] = a[i]
      /\ \A i \in size + 1 .. size + m : t[i] = u[i - size]
  <2>1. a \in Seq(Byte) /\ u \in Seq(Byte) /\ Len(a) = size /\ Len(u) = m
    BY <1>2, <1>4, <1>5
  <2>2. t \in Seq(Byte) /\ Len(t) = size + m
    <3>1. \A x, y \in Seq(Byte) : x \o y \in Seq(Byte) /\ Len(x \o y) = Len(x) + Len(y)
      OBVIOUS
    <3> QED BY <1>6, <2>1, <3>1, Zenon
  <2>3. \A i \in 1 .. size : t[i] = a[i]
    BY <1>6, <2>1
  <2>4. ASSUME NEW i \in size + 1 .. size + m PROVE t[i] = u[i - size]
    <3>1. i \in Len(a) + 1 .. Len(a) + Len(u)
      BY <2>1
    <3> QED BY <1>6, <2>1, <3>1
  <2> QED BY <2>2, <2>3, <2>4
<1>8. \A i \in Nat : i > size => PlaceOf(i, p, size, jump) = PlaceOf(i - size, q, size, jump)
  BY <1>3, PlacesAre
<1>9. ASSUME NEW i \in 1 .. size + m
      PROVE  PlaceOf(i, p, size, jump) <= Len(src) /\ t[i] = src[PlaceOf(i, p, size, jump)]
  <2>1. CASE i <= size
    <3>1. i \in 1 .. size BY <2>1
    <3>2. PlaceOf(i, p, size, jump) = p + i
      BY <3>1, PlacesAre
    <3>3. p + i <= Len(src) BY <2>1
    <3>4. t[i] = src[p + i]
      BY <1>2, <1>7, <3>1, Zenon
    <3> QED BY <3>2, <3>3, <3>4, Zenon
  <2>2. CASE i > size
    <3>1. i - size \in 1 .. m /\ i \in size + 1 .. size + m /\ i \in Nat
      BY <2>2
    <3> QED BY <1>4, <1>5, <1>7, <1>8, <2>2, <3>1
  <2> QED BY <2>1, <2>2
<1>10. PlaceOf(size + m + 1, p, size, jump) > Len(src)
  <2>1. size + m + 1 \in Nat /\ size + m + 1 > size /\ (size + m + 1) - size = m + 1
    OBVIOUS
  <2> QED BY <1>4, <1>5, <1>8, <2>1
<1>11. \A i \in 1 .. Len(t) : PlaceOf(i, p, size, jump) <= Len(src) /\ t[i] = src[PlaceOf(i, p, size, jump)]
  BY <1>7, <1>9
<1> QED BY <1>1, <1>6, <1>7, <1>10, <1>11, Zenon DEF GoodFrom

(* All slices from any place are. *)
LEMMA SlicesAreGood ==
    ASSUME NEW src \in Seq(Byte), NEW size \in Nat \ {0}, NEW jump \in Nat,
           NEW f, SlicesFrom(src, size, jump, f)
    PROVE  \A p \in Nat : GoodFrom(src, p, size, jump, f[p]) /\ (p >= Len(src) => f[p] = <<>>)
<1>1. PICK n \in Nat : n = Len(src) OBVIOUS
<1>2. \A p \in Nat : f[p] = SlicesAt(src, size, jump, f, p)
  BY Zenon DEF SlicesFrom
<1>3. ASSUME NEW p \in Nat, p >= n PROVE f[p] = <<>> /\ GoodFrom(src, p, size, jump, f[p])
  <2>1. f[p] = <<>> BY <1>1, <1>2, <1>3 DEF SlicesAt
  <2> QED BY <1>1, <1>3, <2>1, NoneBehind
<1>4. ASSUME NEW p \in Nat, p < n,
             \A q \in Nat : q > p => GoodFrom(src, q, size, jump, f[q])
      PROVE  GoodFrom(src, p, size, jump, f[p])
  <2>1. SliceLen(src, size, p) \in 1 .. size /\ p + SliceLen(src, size, p) \in 1 .. n
    BY <1>1, <1>4, SliceLenIs
  <2>2. PICK l \in 1 .. size : l = SliceLen(src, size, p) /\ p + l <= n BY <2>1
  <2>3. f[p] = SubSeq(src, p + 1, p + l) \o f[p + l + jump]
    <3>1. ~(p >= Len(src)) BY <1>1, <1>4
    <3> QED BY <1>2, <2>2, <3>1, Zenon DEF SlicesAt
  <2>4. CASE p + size >= n
    <3>1. p + l = n BY <1>1, <2>2, <2>4 DEF SliceLen
    <3>2. p + l + jump \in Nat /\ p + l + jump >= n
      BY <3>1
    <3>3. f[p + l + jump] = <<>> BY <1>3, <3>2
    <3>4. SubSeq(src, p + 1, p + l) \in Seq(Byte)
      BY <1>1, <2>2, PartIs
    <3>5. f[p] = SubSeq(src, p + 1, p + l)
      BY <2>3, <3>3, <3>4
    <3> QED BY <1>1, <3>1, <3>5, LastIsGood
  <2>5. CASE p + size < n
    <3>1. l = size BY <1>1, <2>2, <2>5 DEF SliceLen
    <3>2. p + size + jump \in Nat /\ p + size + jump > p OBVIOUS
    <3>3. GoodFrom(src, p + size + jump, size, jump, f[p + size + jump])
      BY <1>4, <3>2
    <3> QED BY <1>1, <2>3, <2>5, <3>1, <3>3, NextIsGood
  <2> QED BY <2>4, <2>5
<1> DEFINE W == {k \in 0 .. n : \A p \in Nat : p >= n - k => GoodFrom(src, p, size, jump, f[p])}
<1>5. 0 \in W BY <1>3
<1>6. ASSUME NEW k \in 0 .. n - 1, k \in W PROVE k + 1 \in W
  <2>1. \A p \in Nat : p >= n - k => GoodFrom(src, p, size, jump, f[p])
    BY <1>6
  <2>2. ASSUME NEW p \in Nat, p >= n - (k + 1) PROVE GoodFrom(src, p, size, jump, f[p])
    <3>1. CASE p >= n - k BY <2>1, <3>1
    <3>2. CASE p < n - k
      <4>1. p < n /\ \A q \in Nat : q > p => q >= n - k
        BY <2>2, <3>2
      <4> QED BY <1>4, <2>1, <4>1
    <3> QED BY <3>1, <3>2
  <2> QED BY <2>2
<1>7. \A p \in Nat : GoodFrom(src, p, size, jump, f[p])
  <2> HIDE DEF W
  <2>1. \A k \in 0 .. n : k \in W
    BY <1>5, <1>6, CountingUp
  <2>2. n \in W BY <2>1
  <2>3. \A p \in Nat : p >= n - n OBVIOUS
  <2> QED BY <2>2, <2>3 DEF W
<1> QED BY <1>1, <1>3, <1>7

(* bytes_slices() returns the bytes of its slices and no other. *)
LEMMA SlicesThere ==
    ASSUME NEW src \in Seq(Byte), NEW offset \in Nat, NEW size \in Nat, NEW jump \in Nat
    PROVE  SlicesAreThere(src, offset, size, jump)
<1>1. CASE size = 0
  <2>1. Slices(src, offset, size, jump) = NULL
    BY <1>1, Zenon DEF Slices
  <2> QED BY <1>1, <2>1, Zenon DEF SlicesAreThere
<1>2. CASE size # 0
  <2>1. PICK f : /\ SlicesFrom(src, size, jump, f)
                 /\ Slices(src, offset, size, jump) =
                        IF Len(src) < offset \/ f[offset] = <<>> THEN NULL ELSE f[offset]
    BY <1>2, SlicesAre
  <2>2. GoodFrom(src, offset, size, jump, f[offset]) /\ (offset >= Len(src) => f[offset] = <<>>)
    BY <1>2, <2>1, SlicesAreGood
  <2>3. CASE offset >= Len(src)
    <3>1. Slices(src, offset, size, jump) = NULL
      BY <2>1, <2>2, <2>3
    <3> QED BY <2>3, <3>1, Zenon DEF SlicesAreThere
  <2>4. CASE ~(offset >= Len(src))
    <3>1. f[offset] # <<>>
      <4>1. PlaceOf(1, offset, size, jump) = offset + 1
        <5>1. 1 \in 1 .. size /\ size \in Nat \ {0}
          BY <1>2
        <5> QED BY <5>1, PlacesAre
      <4>2. ~(offset + 1 > Len(src)) /\ Len(<<>>) + 1 = 1
        BY <2>4
      <4> QED BY <2>2, <4>1, <4>2, Zenon DEF GoodFrom
    <3>2. ~(Len(src) < offset) BY <2>4
    <3>3. Slices(src, offset, size, jump) = f[offset]
      BY <2>1, <3>1, <3>2, Zenon
    <3> QED BY <1>2, <2>2, <2>4, <3>3, Zenon DEF SlicesAreThere, GoodFrom
  <2> QED BY <2>3, <2>4
<1> QED BY <1>1, <1>2

(* Whatever is converted, it is read back. *)
THEOREM ConversionsInvert == Spec => []EncodingsInvert
<1>1. EncodingsInvert
  <2>1. \A s \in Samples : ReadBack(s) /\ XoredBack(s)
    <3> SUFFICES ASSUME NEW s \in Samples PROVE ReadBack(s) /\ XoredBack(s)
      OBVIOUS
    <3>1. s \in Seq(Byte) /\ \A key \in Samples : key \in Seq(Byte)
      BY ConversionsAssumption
    <3>2. ReadBack(s)
      BY <3>1, HexIsReadBack, Base64IsReadBack, StrIsReadBack, Zenon DEF ReadBack
    <3>3. XoredBack(s)
      BY <3>1, XorIsReadBack, DistanceIs, Zenon DEF XoredBack
    <3> QED BY <3>2, <3>3
  <2>2. \A order \in {"le", "be"}, s \in WordTexts : WordsReadBack(order, s)
    BY ConversionsAssumption, WordsAreReadBack
  <2>3. \A s \in Units : UnitIsNumber(s)
    BY ConversionsAssumption, UnitIsTheNumber
  <2> QED BY <2>1, <2>2, <2>3, Zenon DEF EncodingsInvert
<1> QED BY <1>1, PTL

(* Whatever is cut out, copied or searched for in a buffer is what was
   asked for. *)
THEOREM PartsAreExact == Spec => []SlicesAreExact
<1>1. SlicesAreExact
  <2> SUFFICES ASSUME NEW src \in Buffers
               PROVE  /\ \A needle \in Buffers : FirstIsFound(src, needle)
                      /\ \A offset, len \in Sizes :
                            /\ SliceIsThere(src, offset, len)
                            /\ \A jump \in Sizes : SlicesAreThere(src, offset, len, jump)
                            /\ \A dest \in Buffers, at \in Sizes : CopyIsThere(dest, at, src, offset, len)
    BY Zenon DEF SlicesAreExact
  <2>1. src \in Seq(Byte) /\ \A other \in Buffers : other \in Seq(Byte)
    BY ConversionsAssumption
  <2>2. /\ \A size \in Sizes : size \in Nat
        /\ \A offset, len \in Sizes : offset + len < SizeWrap
    BY ConversionsAssumption
  <2>3. \A needle \in Buffers : FirstIsFound(src, needle)
    BY <2>1, FirstOne, Zenon
  <2>4. \A offset, len \in Sizes : SliceIsThere(src, offset, len)
    BY <2>1, <2>2, SliceIsExact, Zenon DEF SliceIsThere
  <2>5. \A offset, len, jump \in Sizes : SlicesAreThere(src, offset, len, jump)
    BY <2>1, <2>2, SlicesThere, Zenon
  <2>6. \A offset, len, at \in Sizes, dest \in Buffers : CopyIsThere(dest, at, src, offset, len)
    BY <2>1, <2>2, CopyIs, Zenon
  <2> QED BY <2>3, <2>4, <2>5, <2>6, Zenon
<1> QED BY <1>1, PTL
=============================================================================
