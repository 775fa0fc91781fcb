----------------------------- MODULE WireProofs -----------------------------
(***************************************************************************)
(* What is serialized is what is decoded, for bytes of any number of       *)
(* values, integers of any sizes and any number of participants.           *)
(***************************************************************************)
EXTENDS WireCheck, SequenceTheorems, WellFoundedInduction, TLAPS

-----------------------------------------------------------------------------
\* Division.

LEMMA DivMod ==
  ASSUME NEW v \in Nat, NEW m \in Nat \ {0}
  PROVE  /\ v \div m \in Nat
         /\ v % m \in 0 .. m - 1
         /\ v = m * (v \div m) + (v % m)
OBVIOUS

\* There is one quotient and one remainder.
LEMMA DivModUnique ==
  ASSUME NEW m \in Nat \ {0}, NEW q \in Nat, NEW d \in Nat,
         NEW r \in 0 .. m - 1, NEW s \in 0 .. m - 1,
         m * q + r = m * d + s
  PROVE  q = d /\ r = s
<1>1. ASSUME NEW a \in Nat, NEW b \in Nat, a < b PROVE m * b >= m * a + m
  <2>1. PICK x \in Nat : b = a + 1 + x
    <3>1. b - a - 1 \in Nat /\ b = a + 1 + (b - a - 1)
      BY <1>1
    <3> QED
      BY <3>1
  <2>2. m * b = m * a + m + m * x
    BY <2>1
  <2>3. m * x \in Nat /\ m * a \in Nat
    OBVIOUS
  <2> QED
    BY <2>2, <2>3
<1>2. m * q \in Nat /\ m * d \in Nat
  OBVIOUS
<1>3. ~ (q < d)
  BY <1>1, <1>2
<1>4. ~ (d < q)
  BY <1>1, <1>2
<1>5. q = d
  BY <1>3, <1>4
<1> QED
  BY <1>2, <1>5

LEMMA DivModOf ==
  ASSUME NEW m \in Nat \ {0}, NEW q \in Nat, NEW r \in 0 .. m - 1
  PROVE  (m * q + r) \div m = q /\ (m * q + r) % m = r
<1> DEFINE v == m * q + r
<1>1. v \in Nat
  <2>1. m * q \in Nat
    OBVIOUS
  <2> QED
    BY <2>1
<1>2. v \div m \in Nat /\ v % m \in 0 .. m - 1 /\ v = m * (v \div m) + (v % m)
  <2> HIDE DEF v
  <2> QED
    BY <1>1, DivMod
<1>3. m * q + r = m * (v \div m) + (v % m)
  BY <1>2
<1> HIDE DEF v
<1>4. v \div m = q /\ v % m = r
  BY <1>2, <1>3, DivModUnique
<1> QED
  BY <1>4 DEF v
-----------------------------------------------------------------------------
\* Recursive functions.

\* What holds of 0 and of the successors up to n holds up to n.
LEMMA UpToN ==
  ASSUME NEW n \in Nat, NEW S, 0 \in S, \A k \in 1 .. n : k - 1 \in S => k \in S
  PROVE  0 .. n \subseteq S
<1> DEFINE bad == (0 .. n) \ S
<1>1. SUFFICES ASSUME bad # {} PROVE FALSE
  OBVIOUS
<1>2. bad \in SUBSET Nat
  OBVIOUS
<1>3. PICK k \in bad : \A j \in bad : k <= j
  <2> HIDE DEF bad
  <2>1. PICK k \in bad : \A j \in bad : ~ (<<j, k>> \in OpToRel(<, Nat))
    BY <1>1, <1>2, NatLessThanWellFounded, WFMin
  <2>2. \A j \in bad : ~ (j < k)
    BY <1>2, <2>1 DEF OpToRel
  <2> QED
    BY <1>2, <2>2
<1>4. k \in 1 .. n /\ k - 1 \in 0 .. n /\ k - 1 \notin bad
  BY <1>3
<1> QED
  BY <1>3, <1>4

\* A recursion over 0 .. n in S that starts with a, and whose step k is the
\* function F[k], has a solution.
Recursion(f, S, a, n, F) ==
  /\ f \in [0 .. n -> S]
  /\ f[0] = a
  /\ \A k \in 1 .. n : f[k] = F[k][f[k - 1]]

LEMMA RecursionExists ==
  ASSUME NEW S, NEW a \in S, NEW n \in Nat, NEW F \in [1 .. n -> [S -> S]]
  PROVE  \E f : Recursion(f, S, a, n, F)
<1> DEFINE Sol(f, m) == f[0] = a /\ \A k \in 1 .. m : f[k] = F[k][f[k - 1]]
           good == {m \in Nat : m <= n => \E f \in [0 .. m -> S] : Sol(f, m)}
<1>1. 0 \in good
  <2>1. [k \in 0 .. 0 |-> a] \in [0 .. 0 -> S] /\ Sol([k \in 0 .. 0 |-> a], 0)
    OBVIOUS
  <2> HIDE DEF Sol
  <2> QED
    BY <2>1
<1>2. ASSUME NEW m \in 1 .. n, m - 1 \in good PROVE m \in good
  <2>1. PICK f \in [0 .. m - 1 -> S] : Sol(f, m - 1)
    <3> HIDE DEF Sol
    <3> QED
      BY <1>2
  <2> DEFINE g == [k \in 0 .. m |-> IF k < m THEN f[k] ELSE F[m][f[m - 1]]]
  <2>2. F[m][f[m - 1]] \in S
    <3>1. f[m - 1] \in S /\ F[m] \in [S -> S]
      OBVIOUS
    <3> QED
      BY <3>1
  <2>3. g \in [0 .. m -> S]
    BY <2>2
  <2>4. g[0] = a
    BY <2>1
  <2>5. ASSUME NEW k \in 1 .. m PROVE g[k] = F[k][g[k - 1]]
    <3>1. g[k - 1] = f[k - 1]
      OBVIOUS
    <3>2. CASE k < m
      <4>1. g[k] = f[k] /\ k \in 1 .. m - 1
        BY <3>2
      <4> HIDE DEF g
      <4> QED
        BY <2>1, <3>1, <4>1
    <3>3. CASE k = m
      <4>1. g[k] = F[m][f[m - 1]]
        BY <3>3
      <4> HIDE DEF g
      <4> QED
        BY <3>1, <3>3, <4>1
    <3> QED
      BY <3>2, <3>3
  <2>6. Sol(g, m)
    <3> HIDE DEF g
    <3> QED
      BY <2>4, <2>5
  <2> HIDE DEF Sol, g
  <2> QED
    BY <2>3, <2>6
<1>3. 0 .. n \subseteq good
  <2> HIDE DEF good
  <2> QED
    BY <1>1, <1>2, UpToN
<1>4. \E f \in [0 .. n -> S] : Sol(f, n)
  BY <1>3
<1> QED
  BY <1>4 DEF Recursion
-----------------------------------------------------------------------------
\* Power is a function on all numbers.

LEMMA PowerExists ==
  \E f \in [Nat -> Nat \ {0}] :
    f[0] = 1 /\ \A k \in Nat \ {0} : f[k] = ByteSpan * f[k - 1]
<1> DEFINE P == Nat \ {0}
           F(n) == [k \in 1 .. n |-> [x \in P |-> ByteSpan * x]]
           Sol(f, n) == /\ f \in [0 .. n -> P] /\ f[0] = 1
                        /\ \A k \in 1 .. n : f[k] = ByteSpan * f[k - 1]
           A(n) == CHOOSE f : Sol(f, n)
           g == [n \in Nat |-> A(n)[n]]
<1>0. ByteSpan \in Nat /\ ByteSpan > 3 /\ 1 \in P
  BY WireAssumption
<1>1. ASSUME NEW n \in Nat PROVE Sol(A(n), n)
  <2>1. \A x \in P : ByteSpan * x \in P
    BY <1>0
  <2>2. F(n) \in [1 .. n -> [P -> P]]
    <3> HIDE DEF P
    <3> QED
      BY <2>1
  <2>3. PICK f : Recursion(f, P, 1, n, F(n))
    <3> HIDE DEF F, P
    <3> QED
      BY <1>0, <2>2, RecursionExists
  <2>4. /\ f \in [0 .. n -> P]
        /\ f[0] = 1
        /\ \A k \in 1 .. n : f[k] = F(n)[k][f[k - 1]]
    <3> HIDE DEF F, P
    <3> QED
      BY <2>3 DEF Recursion
  <2>5. ASSUME NEW k \in 1 .. n PROVE f[k] = ByteSpan * f[k - 1]
    <3>1. k - 1 \in 0 .. n /\ f[k - 1] \in P
      <4> HIDE DEF F, P
      <4> QED
        BY <2>4
    <3>2. F(n)[k][f[k - 1]] = ByteSpan * f[k - 1]
      <4> HIDE DEF P
      <4> QED
        BY <3>1
    <3> QED
      BY <2>4, <3>2
  <2>6. Sol(f, n)
    BY <2>4, <2>5
  <2> HIDE DEF Sol
  <2> QED
    BY <2>6
<1>2. ASSUME NEW n \in Nat \ {0} PROVE A(n)[n] = ByteSpan * A(n - 1)[n - 1]
  <2>1. n - 1 \in Nat /\ Sol(A(n), n) /\ Sol(A(n - 1), n - 1)
    <3> HIDE DEF Sol, A
    <3> QED
      BY <1>1
  <2> DEFINE good == {k \in Nat : k <= n - 1 => A(n)[k] = A(n - 1)[k]}
  <2> HIDE DEF A
  <2>2. 0 \in good
    BY <2>1
  <2>3. ASSUME NEW k \in 1 .. n - 1, k - 1 \in good PROVE k \in good
    <3>1. k \in Nat /\ k \in 1 .. n /\ A(n)[k - 1] = A(n - 1)[k - 1]
      BY <2>1, <2>3
    <3>2. A(n)[k] = ByteSpan * A(n)[k - 1]
      BY <2>1, <3>1
    <3>3. A(n - 1)[k] = ByteSpan * A(n - 1)[k - 1]
      BY <2>1, <2>3
    <3> QED
      BY <3>1, <3>2, <3>3
  <2>4. 0 .. n - 1 \subseteq good
    <3> HIDE DEF good
    <3> QED
      BY <2>1, <2>2, <2>3, UpToN
  <2>5. A(n)[n - 1] = A(n - 1)[n - 1]
    BY <2>1, <2>4
  <2>6. A(n)[n] = ByteSpan * A(n)[n - 1]
    BY <2>1
  <2> QED
    BY <2>5, <2>6
<1>3. g \in [Nat -> P]
  <2>1. ASSUME NEW n \in Nat PROVE A(n)[n] \in P
    <3>1. Sol(A(n), n)
      <4> HIDE DEF Sol, A
      <4> QED
        BY <1>1
    <3> HIDE DEF A
    <3>2. A(n) \in [0 .. n -> P] /\ n \in 0 .. n
      BY <3>1
    <3> QED
      BY <3>2
  <2> HIDE DEF A, P
  <2> QED
    BY <2>1
<1>4. g[0] = 1
  <2>1. Sol(A(0), 0)
    <3> HIDE DEF Sol, A
    <3> QED
      BY <1>1
  <2> HIDE DEF A
  <2> QED
    BY <2>1
<1>5. \A n \in Nat \ {0} : g[n] = ByteSpan * g[n - 1]
  <2> HIDE DEF A
  <2> QED
    BY <1>2
<1> HIDE DEF g
<1> QED
  BY <1>3, <1>4, <1>5

LEMMA PowerLaws ==
  /\ Power \in [Nat -> Nat \ {0}]
  /\ Power[0] = 1
  /\ \A n \in Nat \ {0} : Power[n] = ByteSpan * Power[n - 1]
<1> DEFINE Eq(f) == f = [n \in Nat |-> IF n = 0 THEN 1 ELSE ByteSpan * f[n - 1]]
<1>1. PICK f \in [Nat -> Nat \ {0}] :
            f[0] = 1 /\ \A k \in Nat \ {0} : f[k] = ByteSpan * f[k - 1]
  BY PowerExists
<1>2. Eq(f)
  <2>1. \A n \in Nat : f[n] = IF n = 0 THEN 1 ELSE ByteSpan * f[n - 1]
    BY <1>1
  <2> QED
    BY <2>1
<1>3. Power = CHOOSE h : Eq(h)
  BY DEF Power
<1>4. Eq(Power)
  <2> HIDE DEF Eq
  <2> QED
    BY <1>2, <1>3
<1>5. /\ Power[0] = 1
      /\ \A n \in Nat \ {0} : Power[n] = ByteSpan * Power[n - 1]
  <2>1. \A n \in Nat : Power[n] = IF n = 0 THEN 1 ELSE ByteSpan * Power[n - 1]
    BY <1>4, Zenon
  <2> QED
    BY <2>1
<1>6. \A n \in Nat : Power[n] \in Nat \ {0}
  <2> DEFINE good == {n \in Nat : Power[n] \in Nat \ {0}}
  <2>1. 0 \in good
    BY <1>5
  <2>2. ASSUME NEW n \in Nat \ {0}, n - 1 \in good PROVE n \in good
    <3>1. Power[n] = ByteSpan * Power[n - 1] /\ Power[n - 1] \in Nat \ {0}
      BY <1>5, <2>2
    <3>2. \A x \in Nat \ {0} : ByteSpan * x \in Nat \ {0}
      BY WireAssumption
    <3> QED
      BY <3>1, <3>2
  <2>3. ASSUME NEW n \in Nat PROVE n \in good
    <3>1. 0 .. n \subseteq good
      <4>1. \A k \in 1 .. n : k - 1 \in good => k \in good
        BY <2>2
      <4> HIDE DEF good
      <4> QED
        BY <2>1, <4>1, UpToN
    <3> QED
      BY <3>1
  <2> QED
    BY <2>3
<1>7. DOMAIN Power = Nat
  BY <1>4
<1>8. Power = [n \in Nat |-> Power[n]]
  BY <1>4
<1> QED
  BY <1>5, <1>6, <1>8
-----------------------------------------------------------------------------
\* The value of bytes.

LEMMA SumLaws ==
  ASSUME NEW bytes \in Seq(Byte)
  PROVE  /\ Len(bytes) \in Nat
         /\ Sums(bytes) \in [0 .. Len(bytes) -> Nat]
         /\ Sums(bytes)[0] = 0
         /\ \A n \in 1 .. Len(bytes) :
              Sums(bytes)[n] = Sums(bytes)[n - 1] + bytes[n] * Power[n - 1]
<1> DEFINE N == Len(bytes)
           F == [k \in 1 .. N |-> [x \in Nat |-> x + bytes[k] * Power[k - 1]]]
           Eq(f) == f = [n \in 0 .. N |->
                           IF n = 0 THEN 0 ELSE f[n - 1] + bytes[n] * Power[n - 1]]
<1>1. N \in Nat
  BY LenProperties
<1>2. ASSUME NEW k \in 1 .. N, NEW x \in Nat PROVE x + bytes[k] * Power[k - 1] \in Nat
  <2>1. bytes[k] \in Nat
    <3>1. bytes[k] \in Byte
      BY ElementOfSeq
    <3> QED
      BY <3>1, WireAssumption DEF Byte
  <2>2. k - 1 \in Nat /\ Power[k - 1] \in Nat
    BY <1>1, PowerLaws
  <2>3. \A b, p \in Nat : b * p \in Nat
    OBVIOUS
  <2> QED
    BY <2>1, <2>2, <2>3
<1>3. F \in [1 .. N -> [Nat -> Nat]]
  <2> HIDE DEF N
  <2> QED
    BY <1>2
<1>4. PICK f : Recursion(f, Nat, 0, N, F)
  <2> HIDE DEF N, F
  <2> QED
    BY <1>1, <1>3, RecursionExists, Zenon
<1>5. /\ f \in [0 .. N -> Nat]
      /\ f[0] = 0
      /\ \A k \in 1 .. N : f[k] = F[k][f[k - 1]]
  <2> HIDE DEF N, F
  <2> QED
    BY <1>4 DEF Recursion
<1>6. ASSUME NEW k \in 1 .. N PROVE f[k] = f[k - 1] + bytes[k] * Power[k - 1]
  <2>1. f[k - 1] \in Nat
    BY <1>1, <1>5
  <2>2. F[k][f[k - 1]] = f[k - 1] + bytes[k] * Power[k - 1]
    <3> HIDE DEF N
    <3> QED
      BY <2>1
  <2> QED
    BY <1>5, <2>2
<1>7. Eq(f)
  <2>1. \A n \in 0 .. N : f[n] = IF n = 0 THEN 0 ELSE f[n - 1] + bytes[n] * Power[n - 1]
    BY <1>1, <1>5, <1>6
  <2> QED
    BY <1>5, <2>1
<1>8. Sums(bytes) = CHOOSE h : Eq(h)
  BY DEF Sums
<1>9. Eq(Sums(bytes))
  <2> HIDE DEF Eq
  <2> QED
    BY <1>7, <1>8
<1> DEFINE s == Sums(bytes)
<1>10. s = [n \in 0 .. N |-> IF n = 0 THEN 0 ELSE s[n - 1] + bytes[n] * Power[n - 1]]
  BY <1>9
<1> HIDE DEF s, N
<1>11. /\ s[0] = 0
       /\ \A n \in 1 .. N : s[n] = s[n - 1] + bytes[n] * Power[n - 1]
  <2>1. 0 \in 0 .. N
    BY <1>1
  <2>2. \A n \in 0 .. N : s[n] = IF n = 0 THEN 0 ELSE s[n - 1] + bytes[n] * Power[n - 1]
    BY <1>10, Zenon
  <2> QED
    BY <1>1, <2>1, <2>2
<1>12. \A n \in 0 .. N : s[n] \in Nat
  <2> DEFINE good == {n \in Nat : s[n] \in Nat}
  <2>1. 0 \in good
    BY <1>11
  <2>2. ASSUME NEW n \in 1 .. N, n - 1 \in good PROVE n \in good
    <3>1. n \in Nat /\ s[n - 1] \in Nat
      BY <1>1, <2>2
    <3>2. s[n - 1] + bytes[n] * Power[n - 1] \in Nat
      BY <1>2, <3>1
    <3> QED
      BY <1>11, <3>1, <3>2
  <2>3. 0 .. N \subseteq good
    <3> HIDE DEF good
    <3> QED
      BY <1>1, <2>1, <2>2, UpToN
  <2> QED
    BY <2>3
<1>13. s \in [0 .. N -> Nat]
  <2>1. s = [n \in 0 .. N |-> s[n]]
    BY <1>10
  <2> QED
    BY <1>12, <2>1
<1> QED
  BY <1>1, <1>11, <1>13 DEF s, N

LEMMA BytesType ==
  ASSUME NEW v \in Nat, NEW n \in Nat
  PROVE  /\ Bytes(v, n) \in Seq(Byte)
         /\ Len(Bytes(v, n)) = n
         /\ \A i \in 1 .. n : Bytes(v, n)[i] = (v \div Power[i - 1]) % ByteSpan
<1>1. ASSUME NEW i \in 1 .. n PROVE (v \div Power[i - 1]) % ByteSpan \in Byte
  <2>1. Power[i - 1] \in Nat \ {0}
    BY PowerLaws
  <2>2. v \div Power[i - 1] \in Nat
    BY <2>1, DivMod
  <2>3. ByteSpan \in Nat \ {0}
    BY WireAssumption
  <2> QED
    BY <2>2, <2>3, DivMod DEF Byte
<1>2. Bytes(v, n) \in [1 .. n -> Byte]
  BY <1>1 DEF Bytes
<1>3. Bytes(v, n) \in Seq(Byte)
  BY <1>2
<1>4. Len(Bytes(v, n)) = n
  BY <1>2, <1>3, LenProperties
<1> QED
  BY <1>3, <1>4 DEF Bytes

\* What is read from the bytes of a number is the number, narrowed to their size.
LEMMA ValueOfBytes ==
  ASSUME NEW v \in Nat, NEW n \in Nat
  PROVE  Value(Bytes(v, n)) = v % Power[n]
<1> DEFINE b == Bytes(v, n)
           s == Sums(b)
           good == {k \in Nat : s[k] = v % Power[k]}
<1>1. b \in Seq(Byte) /\ Len(b) = n /\ \A i \in 1 .. n : b[i] = (v \div Power[i - 1]) % ByteSpan
  BY BytesType
<1> HIDE DEF b
<1>2. /\ s[0] = 0
      /\ \A k \in 1 .. n : s[k] = s[k - 1] + b[k] * Power[k - 1]
  BY <1>1, SumLaws
<1> HIDE DEF s
<1>3. 0 \in good
  <2>1. v = 1 * v + 0
    OBVIOUS
  <2>2. v % 1 = 0
    BY <2>1, DivModOf
  <2> QED
    BY <1>2, <2>2, PowerLaws
<1>4. ASSUME NEW k \in 1 .. n, k - 1 \in good PROVE k \in good
  <2> DEFINE P == Power[k - 1]
             B == ByteSpan
             w == v \div P
             r == v % P
             q == w \div B
             d == w % B
  <2>1. P \in Nat \ {0} /\ B \in Nat \ {0} /\ Power[k] = B * P /\ B * P \in Nat \ {0}
    <3>1. k \in Nat \ {0} /\ k - 1 \in Nat
      OBVIOUS
    <3> QED
      BY <3>1, PowerLaws, WireAssumption
  <2> HIDE DEF P, B
  <2>2. w \in Nat /\ r \in 0 .. P - 1 /\ v = P * w + r
    BY <2>1, DivMod
  <2> HIDE DEF w, r
  <2>3. q \in Nat /\ d \in 0 .. B - 1 /\ w = B * q + d
    BY <2>1, <2>2, DivMod
  <2> HIDE DEF q, d
  <2>4. v = (B * P) * q + (d * P + r)
    <3>1. P * w = (B * P) * q + d * P
      BY <2>1, <2>3
    <3> QED
      BY <2>1, <2>2, <2>3, <3>1
  <2>5. d * P + r \in 0 .. B * P - 1
    <3>1. PICK e \in Nat : B = d + 1 + e
      <4>1. B - d - 1 \in Nat /\ B = d + 1 + (B - d - 1)
        BY <2>1, <2>3
      <4> QED
        BY <4>1
    <3>2. B * P = d * P + P + e * P
      BY <2>1, <2>3, <3>1
    <3>3. e * P \in Nat /\ d * P \in Nat
      BY <2>1, <2>3
    <3> QED
      BY <2>1, <2>2, <3>2, <3>3
  <2>6. v % (B * P) = d * P + r
    <3> DEFINE M == B * P
               R == d * P + r
    <3>1. M \in Nat \ {0} /\ R \in 0 .. M - 1 /\ v = M * q + R
      BY <2>1, <2>4, <2>5
    <3> HIDE DEF M, R
    <3>2. v % M = R
      BY <2>3, <3>1, DivModOf
    <3> QED
      BY <3>2 DEF M, R
  <2>7. s[k] = r + d * P
    <3>1. s[k] = s[k - 1] + b[k] * P /\ s[k - 1] = r
      BY <1>2, <1>4 DEF P, r
    <3>2. b[k] = d
      BY <1>1 DEF d, w, P, B
    <3> QED
      BY <3>1, <3>2
  <2> QED
    <3>1. d * P \in Nat
      BY <2>1, <2>3
    <3>2. r + d * P = d * P + r
      BY <2>1, <2>2, <3>1
    <3> QED
      BY <2>1, <2>6, <2>7, <3>2
<1>5. 0 .. n \subseteq good
  <2> HIDE DEF good
  <2> QED
    BY <1>3, <1>4, UpToN
<1> QED
  BY <1>1, <1>5 DEF Value, s, b

\* The value of n bytes is one of an integer of this size.
LEMMA SumBound ==
  ASSUME NEW bytes \in Seq(Byte)
  PROVE  \A n \in 0 .. Len(bytes) : Sums(bytes)[n] \in 0 .. Power[n] - 1
<1> DEFINE s == Sums(bytes)
           N == Len(bytes)
           good == {n \in Nat : s[n] \in 0 .. Power[n] - 1}
<1>1. /\ N \in Nat
      /\ s[0] = 0
      /\ \A n \in 1 .. N : s[n] = s[n - 1] + bytes[n] * Power[n - 1]
  BY SumLaws
<1>2. \A n \in 1 .. N : bytes[n] \in Byte
  BY ElementOfSeq
<1> HIDE DEF s, N
<1>3. 0 \in good
  BY <1>1, PowerLaws
<1>4. ASSUME NEW n \in 1 .. N, n - 1 \in good PROVE n \in good
  <2> DEFINE P == Power[n - 1]
             B == ByteSpan
             d == bytes[n]
  <2>1. P \in Nat \ {0} /\ B \in Nat \ {0} /\ Power[n] = B * P
    <3>1. n \in Nat \ {0} /\ n - 1 \in Nat
      BY <1>1
    <3> QED
      BY <3>1, PowerLaws, WireAssumption
  <2>2. d \in 0 .. B - 1 /\ s[n] = s[n - 1] + d * P /\ s[n - 1] \in 0 .. P - 1
    BY <1>1, <1>2, <1>4 DEF Byte
  <2> HIDE DEF P, B, d
  <2>3. PICK e \in Nat : B = d + 1 + e
    <3>1. B - d - 1 \in Nat /\ B = d + 1 + (B - d - 1)
      BY <2>1, <2>2
    <3> QED
      BY <3>1
  <2>4. B * P = d * P + P + e * P
    BY <2>1, <2>2, <2>3
  <2>5. e * P \in Nat /\ d * P \in Nat
    BY <2>1, <2>2
  <2>6. s[n] \in 0 .. B * P - 1
    <3> DEFINE x == d * P
               y == e * P
               z == B * P
    <3>1. x \in Nat /\ y \in Nat /\ z = x + P + y /\ s[n] = s[n - 1] + x
      BY <2>2, <2>4, <2>5
    <3> HIDE DEF x, y, z
    <3>2. s[n] \in 0 .. z - 1
      BY <2>1, <2>2, <3>1
    <3> QED
      BY <3>2 DEF z
  <2> QED
    BY <1>1, <2>1, <2>6
<1>5. 0 .. N \subseteq good
  <2> HIDE DEF good
  <2> QED
    BY <1>1, <1>3, <1>4, UpToN
<1> QED
  BY <1>5 DEF s, N

\* The bytes of what is read from bytes are these bytes.
LEMMA BytesOfValue ==
  ASSUME NEW bytes \in Seq(Byte)
  PROVE  /\ Value(bytes) \in Unsigned(Len(bytes))
         /\ Bytes(Value(bytes), Len(bytes)) = bytes
<1> DEFINE s == Sums(bytes)
           N == Len(bytes)
<1>1. /\ N \in Nat
      /\ s \in [0 .. N -> Nat]
      /\ \A n \in 1 .. N : s[n] = s[n - 1] + bytes[n] * Power[n - 1]
      /\ \A n \in 0 .. N : s[n] \in 0 .. Power[n] - 1
      /\ \A n \in 1 .. N : bytes[n] \in Byte
      /\ Value(bytes) = s[N]
  BY SumLaws, SumBound, ElementOfSeq DEF Value
<1> HIDE DEF s, N
<1>2. s[N] \in Nat /\ s[N] \in Unsigned(N)
  BY <1>1 DEF Unsigned
<1>a. ByteSpan \in Nat \ {0}
  BY WireAssumption
<1>b. ASSUME NEW i \in 1 .. N
      PROVE  /\ s[i] \in Nat /\ Power[i] \in Nat /\ Power[i - 1] \in Nat \ {0}
             /\ Power[i] = ByteSpan * Power[i - 1]
             /\ bytes[i] \in 0 .. ByteSpan - 1 /\ bytes[i] \in Nat
             /\ s[i - 1] \in 0 .. Power[i - 1] - 1 /\ s[i - 1] \in Nat
             /\ s[i] = s[i - 1] + bytes[i] * Power[i - 1]
  <2>1. i \in Nat \ {0} /\ i - 1 \in Nat /\ i - 1 \in 0 .. N /\ i \in 0 .. N
    BY <1>1
  <2>2. Power[i] \in Nat /\ Power[i - 1] \in Nat \ {0} /\ Power[i] = ByteSpan * Power[i - 1]
    BY <2>1, PowerLaws
  <2>3. s[i] \in Nat /\ s[i - 1] \in Nat
    BY <1>1, <2>1
  <2>4. bytes[i] \in 0 .. ByteSpan - 1 /\ bytes[i] \in Nat
    BY <1>1, <1>a DEF Byte
  <2>5. s[i] = s[i - 1] + bytes[i] * Power[i - 1]
    BY <1>1
  <2>6. s[i - 1] \in 0 .. Power[i - 1] - 1
    BY <1>1, <2>1
  <2> QED
    BY <2>2, <2>3, <2>4, <2>5, <2>6
<1>3. ASSUME NEW i \in 1 .. N
      PROVE  (s[N] \div Power[i - 1]) % ByteSpan = bytes[i]
  <2> DEFINE Rest(k, h, x) == s[k] = s[i] + Power[i] * h /\ Power[k] = Power[i] * x
             good == {k \in Nat : k < i \/ \E h, x \in Nat : Rest(k, h, x)}
  <2>1. 0 \in good
    BY <1>1
  <2>2. ASSUME NEW k \in 1 .. N, k - 1 \in good PROVE k \in good
    <3>1. CASE k < i
      BY <3>1
    <3>2. CASE k = i
      <4>1. s[i] \in Nat /\ Power[i] \in Nat
        BY <1>b
      <4>2. Rest(k, 0, 1)
        BY <3>2, <4>1
      <4> HIDE DEF Rest
      <4> QED
        BY <4>2
    <3>3. CASE k > i
      <4>1. PICK h \in Nat, x \in Nat : Rest(k - 1, h, x)
        <5> HIDE DEF Rest
        <5> QED
          BY <2>2, <3>3
      <4>2. /\ s[i] \in Nat /\ Power[i] \in Nat /\ bytes[k] \in Nat
            /\ ByteSpan \in Nat /\ s[k] = s[k - 1] + bytes[k] * Power[k - 1]
            /\ Power[k] = ByteSpan * Power[k - 1]
        BY <1>a, <1>b
      <4>3. \A p, a, y, g, b \in Nat :
              /\ (a + p * g) + b * (p * y) = a + p * (g + b * y)
              /\ b * (p * y) = p * (b * y)
              /\ g + b * y \in Nat
              /\ b * y \in Nat
        OBVIOUS
      <4>4. Rest(k, h + bytes[k] * x, ByteSpan * x)
        <5>1. s[k] = (s[i] + Power[i] * h) + bytes[k] * (Power[i] * x)
          BY <4>1, <4>2
        <5>2. Power[k] = ByteSpan * (Power[i] * x)
          BY <4>1, <4>2
        <5>3. s[k] = s[i] + Power[i] * (h + bytes[k] * x)
          <6> DEFINE a == s[i]
                     p == Power[i]
                     b == bytes[k]
          <6>1. a \in Nat /\ p \in Nat /\ b \in Nat /\ s[k] = (a + p * h) + b * (p * x)
            BY <4>2, <5>1
          <6> HIDE DEF a, p, b
          <6>2. (a + p * h) + b * (p * x) = a + p * (h + b * x)
            BY <4>3, <6>1
          <6> QED
            BY <6>1, <6>2 DEF a, p, b
        <5>4. Power[k] = Power[i] * (ByteSpan * x)
          BY <4>2, <4>3, <5>2
        <5> QED
          BY <5>3, <5>4
      <4>5. h + bytes[k] * x \in Nat /\ ByteSpan * x \in Nat
        BY <4>2, <4>3
      <4> HIDE DEF Rest
      <4> QED
        BY <4>4, <4>5
    <3> QED
      BY <1>1, <3>1, <3>2, <3>3
  <2>3. 0 .. N \subseteq good
    <3> HIDE DEF good
    <3> QED
      BY <1>1, <2>1, <2>2, UpToN
  <2>4. PICK h \in Nat : s[N] = s[i] + Power[i] * h
    <3>1. N \in good
      <4> HIDE DEF good
      <4> QED
        BY <1>1, <2>3
    <3>2. ~ (N < i)
      BY <1>1
    <3> QED
      BY <3>1, <3>2
  <2> DEFINE P == Power[i - 1]
             B == ByteSpan
             d == bytes[i]
             r == s[i - 1]
  <2>5. /\ P \in Nat \ {0} /\ B \in Nat \ {0} /\ Power[i] = B * P
        /\ d \in 0 .. B - 1 /\ d \in Nat /\ r \in 0 .. P - 1 /\ s[i] = r + d * P
    BY <1>a, <1>b
  <2> HIDE DEF P, B, d, r
  <2>6. s[N] = P * (B * h + d) + r
    <3>1. s[N] = (r + d * P) + (B * P) * h
      BY <2>4, <2>5
    <3>2. \A a, b, c, e, g \in Nat : (a + b * c) + (e * c) * g = c * (e * g + b) + a
      OBVIOUS
    <3>3. r \in Nat
      BY <2>5
    <3> QED
      BY <2>5, <3>1, <3>2, <3>3
  <2>7. B * h + d \in Nat
    <3>1. B * h \in Nat
      BY <2>5
    <3> QED
      BY <2>5, <3>1
  <2>8. s[N] \div P = B * h + d
    BY <2>5, <2>6, <2>7, DivModOf
  <2>9. (B * h + d) % B = d
    BY <2>5, DivModOf
  <2> QED
    BY <2>8, <2>9 DEF P, B, d
<1>4. /\ Bytes(s[N], N) \in Seq(Byte)
      /\ Len(Bytes(s[N], N)) = N
      /\ \A i \in 1 .. N : Bytes(s[N], N)[i] = bytes[i]
  BY <1>1, <1>2, <1>3, BytesType
<1>5. Bytes(s[N], N) = bytes
  BY <1>4, SeqEqual DEF N
<1> QED
  BY <1>1, <1>2, <1>5 DEF N
-----------------------------------------------------------------------------
\* Integers one after another, written.

LEMMA BytesAssociate ==
  \A u, v, w \in Seq(Byte) : (u \o v) \o w = u \o (v \o w)
<1> SUFFICES ASSUME NEW u \in Seq(Byte), NEW v \in Seq(Byte), NEW w \in Seq(Byte)
             PROVE  (u \o v) \o w = u \o (v \o w)
  OBVIOUS
<1> DEFINE S == Seq(Byte)
<1>1. u \in S /\ v \in S /\ w \in S
  OBVIOUS
<1> QED
  BY <1>1, ConcatAssociative

\* The values and the sizes of integers to be written.
Writable(values, sizes) ==
  values \in Seq(Nat) /\ sizes \in Seq(Nat) /\ Len(values) <= Len(sizes)

LEMMA WrittenLaws ==
  ASSUME NEW values, NEW sizes, Writable(values, sizes)
  PROVE  /\ Len(values) \in Nat
         /\ Written(values, sizes)[0] = <<>>
         /\ \A n \in 1 .. Len(values) :
              Written(values, sizes)[n] =
                Written(values, sizes)[n - 1] \o Bytes(values[n], sizes[n])
         /\ \A n \in 1 .. Len(values) : Bytes(values[n], sizes[n]) \in Seq(Byte)
         /\ \A n \in 0 .. Len(values) : Written(values, sizes)[n] \in Seq(Byte)
<1> DEFINE N == Len(values)
           S == Seq(Byte)
           B(k) == Bytes(values[k], sizes[k])
           F == [k \in 1 .. N |-> [x \in S |-> x \o B(k)]]
           Eq(f) == f = [n \in 0 .. N |-> IF n = 0 THEN <<>> ELSE f[n - 1] \o B(n)]
<1>1. N \in Nat /\ <<>> \in S
  BY LenProperties, EmptySeq DEF Writable
<1>2. ASSUME NEW k \in 1 .. N PROVE B(k) \in S
  <2>1. values[k] \in Nat
    BY ElementOfSeq DEF Writable
  <2>2. sizes[k] \in Nat
    <3>1. Len(sizes) \in Nat
      BY LenProperties DEF Writable
    <3>2. k \in 1 .. Len(sizes)
      BY <1>1, <3>1 DEF Writable
    <3> QED
      BY <3>2, ElementOfSeq DEF Writable
  <2> QED
    BY <2>1, <2>2, BytesType
<1>3. ASSUME NEW k \in 1 .. N, NEW x \in S PROVE x \o B(k) \in S
  <2> HIDE DEF B, N
  <2> QED
    BY <1>2, ConcatProperties
<1> HIDE DEF N, B, S
<1>4. F \in [1 .. N -> [S -> S]]
  BY <1>3
<1>5. PICK f : Recursion(f, S, <<>>, N, F)
  <2> HIDE DEF F
  <2> QED
    BY <1>1, <1>4, RecursionExists, Zenon
<1>6. /\ f \in [0 .. N -> S]
      /\ f[0] = <<>>
      /\ \A k \in 1 .. N : f[k] = F[k][f[k - 1]]
  <2> HIDE DEF F
  <2> QED
    BY <1>5 DEF Recursion
<1>7. ASSUME NEW k \in 1 .. N PROVE f[k] = f[k - 1] \o B(k)
  <2>1. f[k - 1] \in S
    BY <1>1, <1>6
  <2>2. F[k][f[k - 1]] = f[k - 1] \o B(k)
    BY <2>1
  <2> QED
    BY <1>6, <2>2
<1>8. Eq(f)
  <2>1. ASSUME NEW n \in 0 .. N
        PROVE  f[n] = IF n = 0 THEN <<>> ELSE f[n - 1] \o B(n)
    <3>1. n = 0 \/ (n \in 1 .. N /\ n # 0)
      BY <1>1
    <3> QED
      BY <1>6, <1>7, <3>1
  <2>2. f = [n \in 0 .. N |-> f[n]]
    BY <1>6
  <2> QED
    BY <2>1, <2>2
<1> DEFINE w == Written(values, sizes)
<1>9. w = CHOOSE h : Eq(h)
  BY DEF Written, B, N
<1>10. Eq(w)
  <2> HIDE DEF Eq, w
  <2> QED
    BY <1>8, <1>9
<1> HIDE DEF w
<1>11. \A n \in 0 .. N : w[n] = IF n = 0 THEN <<>> ELSE w[n - 1] \o B(n)
  BY <1>10, Zenon
<1>12. /\ w[0] = <<>>
       /\ \A n \in 1 .. N : w[n] = w[n - 1] \o B(n)
  <2>1. 0 \in 0 .. N
    BY <1>1
  <2>2. ASSUME NEW n \in 1 .. N PROVE w[n] = w[n - 1] \o B(n)
    <3>1. n \in 0 .. N /\ n # 0
      BY <1>1
    <3> QED
      BY <1>11, <3>1, Zenon
  <2>3. w[0] = <<>>
    BY <1>11, <2>1, Zenon
  <2> QED
    BY <2>2, <2>3
<1>13. \A n \in 0 .. N : w[n] \in S
  <2> DEFINE good == {n \in Nat : w[n] \in S}
  <2>1. 0 \in good
    BY <1>1, <1>12
  <2>2. ASSUME NEW n \in 1 .. N, n - 1 \in good PROVE n \in good
    <3>1. n \in Nat /\ w[n - 1] \in S
      BY <1>1, <2>2
    <3>2. w[n - 1] \o B(n) \in S
      BY <1>3, <3>1
    <3> QED
      BY <1>12, <3>1, <3>2
  <2>3. 0 .. N \subseteq good
    <3> HIDE DEF good
    <3> QED
      BY <1>1, <2>1, <2>2, UpToN
  <2> QED
    BY <2>3
<1> QED
  BY <1>1, <1>2, <1>12, <1>13 DEF w, N, B, S

LEMMA WriteAllType ==
  ASSUME NEW values, NEW sizes, Writable(values, sizes)
  PROVE  WriteAll(values, sizes) \in Seq(Byte)
<1>1. Len(values) \in 0 .. Len(values)
  BY WrittenLaws
<1> QED
  BY <1>1, WrittenLaws DEF WriteAll

\* Nothing is written of no integers.
LEMMA WriteAllEmpty ==
  ASSUME NEW sizes \in Seq(Nat)
  PROVE  WriteAll(<<>>, sizes) = <<>>
<1>1. <<>> \in Seq(Nat) /\ Len(<<>>) = 0 /\ Len(sizes) \in Nat
  BY EmptySeq, LenProperties
<1>2. Writable(<<>>, sizes)
  BY <1>1 DEF Writable
<1> QED
  BY <1>1, <1>2, WrittenLaws DEF WriteAll

\* One more integer is written behind the others.
LEMMA WriteAllAppend ==
  ASSUME NEW values \in Seq(Nat), NEW v \in Nat, NEW sizes \in Seq(Nat),
         Len(values) + 1 <= Len(sizes)
  PROVE  WriteAll(Append(values, v), sizes) =
           WriteAll(values, sizes) \o Bytes(v, sizes[Len(values) + 1])
<1> DEFINE N == Len(values)
           more == Append(values, v)
           f == Written(values, sizes)
           g == Written(more, sizes)
           good == {n \in Nat : f[n] = g[n]}
<1>1. N \in Nat /\ Len(sizes) \in Nat
  BY LenProperties
<1>2. /\ more \in Seq(Nat) /\ Len(more) = N + 1 /\ more[N + 1] = v
      /\ \A i \in 1 .. N : more[i] = values[i]
  BY AppendProperties
<1>3. Writable(values, sizes) /\ Writable(more, sizes)
  BY <1>1, <1>2 DEF Writable
<1>4. /\ f[0] = <<>>
      /\ \A n \in 1 .. N : f[n] = f[n - 1] \o Bytes(values[n], sizes[n])
  BY <1>3, WrittenLaws
<1> HIDE DEF more
<1>5. /\ g[0] = <<>>
      /\ \A n \in 1 .. N + 1 : g[n] = g[n - 1] \o Bytes(more[n], sizes[n])
  <2>1. /\ g[0] = <<>>
        /\ \A n \in 1 .. Len(more) : g[n] = g[n - 1] \o Bytes(more[n], sizes[n])
    BY <1>3, WrittenLaws
  <2> HIDE DEF g, N
  <2> QED
    BY <1>2, <2>1
<1> HIDE DEF f, g, N
<1>6. 0 \in good
  BY <1>4, <1>5
<1>7. ASSUME NEW n \in 1 .. N, n - 1 \in good PROVE n \in good
  <2>1. f[n - 1] = g[n - 1] /\ n \in 1 .. N + 1 /\ n \in Nat
    BY <1>1, <1>7
  <2> QED
    BY <1>2, <1>4, <1>5, <2>1
<1>8. f[N] = g[N]
  <2>1. 0 .. N \subseteq good
    <3> HIDE DEF good
    <3> QED
      BY <1>1, <1>6, <1>7, UpToN
  <2> QED
    BY <1>1, <2>1
<1>9. N + 1 \in 1 .. N + 1 /\ (N + 1) - 1 = N
  BY <1>1
<1>10. g[N + 1] = f[N] \o Bytes(v, sizes[N + 1])
  BY <1>2, <1>5, <1>8, <1>9
<1> QED
  BY <1>2, <1>10 DEF WriteAll, f, g, N, more
-----------------------------------------------------------------------------
\* Integers one after another, read.

AReader == [ok : BOOLEAN, rest : Seq(Byte), read : Seq(Nat)]

\* What a reader does that finds the bytes of a number.
LEMMA ReadOneFinds ==
  ASSUME NEW r \in AReader, NEW v \in Nat, NEW n \in Nat, NEW tail \in Seq(Byte),
         r.ok, r.rest = Bytes(v, n) \o tail
  PROVE  ReadOne(r, n) =
           [ok |-> TRUE, rest |-> tail, read |-> Append(r.read, v % Power[n])]
<1> DEFINE b == Bytes(v, n)
           all == b \o tail
<1>1. b \in Seq(Byte) /\ Len(b) = n /\ Value(b) = v % Power[n]
  BY BytesType, ValueOfBytes
<1> HIDE DEF b
<1>2. /\ all \in Seq(Byte)
      /\ Len(tail) \in Nat
      /\ Len(all) = n + Len(tail)
      /\ \A i \in 1 .. n + Len(tail) :
           all[i] = IF i <= n THEN b[i] ELSE tail[i - n]
  BY <1>1, ConcatProperties, LenProperties
<1> HIDE DEF all
<1>3. \A i \in 1 .. n + Len(tail) : all[i] \in Byte
  BY <1>2, ElementOfSeq
<1>4. SubSeq(all, 1, n) = b
  <2> DEFINE s == SubSeq(all, 1, n)
  <2>1. /\ s \in Seq(Byte)
        /\ Len(s) = n
        /\ \A i \in 1 .. n : s[i] = all[i]
    <3>1. \A i \in 1 .. n : all[i] \in Byte
      BY <1>2, <1>3
    <3>2. /\ s \in Seq(Byte)
          /\ Len(s) = IF 1 <= n THEN n - 1 + 1 ELSE 0
          /\ \A i \in 1 .. n - 1 + 1 : s[i] = all[1 + i - 1]
      BY <3>1, SubSeqProperties
    <3> HIDE DEF s
    <3> QED
      BY <3>2
  <2>2. \A i \in 1 .. n : s[i] = b[i]
    <3> HIDE DEF s
    <3> QED
      BY <1>2, <2>1
  <2> HIDE DEF s
  <2>3. s = b
    BY <1>1, <2>1, <2>2, SeqEqual
  <2> QED
    BY <2>3 DEF s
<1>5. SubSeq(all, n + 1, Len(all)) = tail
  <2> DEFINE s == SubSeq(all, n + 1, Len(all))
             L == Len(tail)
  <2>1. /\ s \in Seq(Byte)
        /\ Len(s) = L
        /\ \A i \in 1 .. L : s[i] = all[n + i]
    <3>1. \A i \in n + 1 .. n + L : all[i] \in Byte
      BY <1>3
    <3>2. n + 1 \in Int /\ Len(all) \in Int /\ Len(all) = n + L
      BY <1>2
    <3>3. /\ s \in Seq(Byte)
          /\ Len(s) = IF n + 1 <= Len(all) THEN Len(all) - (n + 1) + 1 ELSE 0
          /\ \A i \in 1 .. Len(all) - (n + 1) + 1 : s[i] = all[(n + 1) + i - 1]
      BY <3>1, <3>2, SubSeqProperties
    <3> HIDE DEF s
    <3>4. Len(all) - (n + 1) + 1 = L /\ \A i \in 1 .. L : (n + 1) + i - 1 = n + i
      BY <1>2
    <3> QED
      BY <1>2, <3>3, <3>4
  <2>2. \A i \in 1 .. L : s[i] = tail[i]
    <3> HIDE DEF s
    <3>1. \A i \in 1 .. L : /\ n + i \in 1 .. n + L /\ ~ (n + i <= n)
                            /\ (n + i) - n = i
      BY <1>2
    <3> QED
      BY <1>2, <2>1, <3>1
  <2> HIDE DEF s
  <2>3. s = tail
    BY <2>1, <2>2, SeqEqual
  <2> QED
    BY <2>3 DEF s
<1>6. r.ok /\ Len(all) >= n
  BY <1>2
<1>7. r.rest = all
  BY DEF all, b
<1> QED
  BY <1>1, <1>4, <1>5, <1>6, <1>7 DEF ReadOne

\* What a reader has read, and a reader that has failed stays so.
LEMMA ReadOneTakes ==
  ASSUME NEW r \in AReader, NEW n \in Nat
  PROVE  /\ ReadOne(r, n) \in AReader
         /\ ReadOne(r, n).ok =>
              /\ r.ok
              /\ \E v \in Unsigned(n) :
                   /\ v \in Nat
                   /\ ReadOne(r, n).read = Append(r.read, v)
                   /\ r.rest = Bytes(v, n) \o ReadOne(r, n).rest
<1> DEFINE all == r.rest
           L == Len(all)
           b == SubSeq(all, 1, n)
           tail == SubSeq(all, n + 1, L)
<1>1. all \in Seq(Byte) /\ r.read \in Seq(Nat) /\ r.ok \in BOOLEAN
  BY DEF AReader
<1>2. L \in Nat
  BY <1>1, LenProperties
<1>3. CASE r.ok /\ L >= n
  <2>1. \A i \in 1 .. L : all[i] \in Byte
    BY <1>1, ElementOfSeq
  <2>2. b \in Seq(Byte) /\ Len(b) = n
    <3>1. \A i \in 1 .. n : all[i] \in Byte
      BY <1>2, <1>3, <2>1
    <3>2. /\ b \in Seq(Byte)
          /\ Len(b) = IF 1 <= n THEN n - 1 + 1 ELSE 0
      BY <3>1, SubSeqProperties
    <3> HIDE DEF b
    <3> QED
      BY <3>2
  <2>3. tail \in Seq(Byte)
    <3>1. \A i \in n + 1 .. L : all[i] \in Byte
      BY <2>1
    <3> QED
      BY <1>2, <3>1, SubSeqProperties
  <2>4. b \o tail = all
    <3>1. 1 \in 1 .. L + 1 /\ n \in 1 - 1 .. L /\ L \in n .. L
      BY <1>2, <1>3
    <3>2. b \o tail = SubSeq(all, 1, L)
      BY <1>1, <3>1, ConcatAdjacentSubSeq
    <3> QED
      BY <1>1, <3>2, SubSeqFull
  <2> DEFINE v == Value(b)
  <2>5. v \in Unsigned(n) /\ Bytes(v, n) = b
    BY <2>2, BytesOfValue
  <2>6. v \in Nat
    <3>1. Power[n] \in Nat
      BY PowerLaws
    <3> QED
      BY <2>5, <3>1 DEF Unsigned
  <2>7. ReadOne(r, n) = [ok |-> TRUE, rest |-> tail, read |-> Append(r.read, v)]
    BY <1>3 DEF ReadOne
  <2> HIDE DEF v, b, tail, all
  <2>8. Append(r.read, v) \in Seq(Nat)
    BY <1>1, <2>6, AppendProperties
  <2>9. r.rest = Bytes(v, n) \o tail
    BY <2>4, <2>5 DEF all
  <2>10. ReadOne(r, n) \in AReader
    BY <2>3, <2>7, <2>8 DEF AReader
  <2>11. ReadOne(r, n).read = Append(r.read, v) /\ ReadOne(r, n).rest = tail
    BY <2>7
  <2> QED
    BY <1>3, <2>5, <2>6, <2>9, <2>10, <2>11
<1>4. CASE ~ (r.ok /\ L >= n)
  <2>1. ReadOne(r, n) = [r EXCEPT !.ok = FALSE]
    BY <1>4 DEF ReadOne
  <2> QED
    BY <2>1 DEF AReader
<1> QED
  BY <1>3, <1>4

\* A function on 1 .. n is a sequence of length n.
LEMMA FunctionIsSeq ==
  ASSUME NEW S, NEW n \in Nat, NEW f \in [1 .. n -> S]
  PROVE  f \in Seq(S) /\ Len(f) = n
<1>1. f \in Seq(S)
  OBVIOUS
<1>2. Len(f) \in Nat /\ DOMAIN f = 1 .. Len(f)
  BY <1>1, LenProperties
<1> QED
  BY <1>1, <1>2

LEMMA ReadersLaws ==
  ASSUME NEW r \in AReader, NEW sizes \in Seq(Nat)
  PROVE  /\ Len(sizes) \in Nat
         /\ Readers(r, sizes)[0] = [r EXCEPT !.read = <<>>]
         /\ \A n \in 1 .. Len(sizes) :
              Readers(r, sizes)[n] = ReadOne(Readers(r, sizes)[n - 1], sizes[n])
         /\ \A n \in 0 .. Len(sizes) : Readers(r, sizes)[n] \in AReader
         /\ \A n \in 1 .. Len(sizes) : sizes[n] \in Nat
<1> DEFINE N == Len(sizes)
           S == AReader
           a == [r EXCEPT !.read = <<>>]
           R(x, k) == ReadOne(x, sizes[k])
           F == [k \in 1 .. N |-> [x \in S |-> R(x, k)]]
           Eq(f) == f = [n \in 0 .. N |-> IF n = 0 THEN a ELSE R(f[n - 1], n)]
<1>1. N \in Nat /\ \A k \in 1 .. N : sizes[k] \in Nat
  BY LenProperties, ElementOfSeq
<1>2. a \in S
  <2>1. <<>> \in Seq(Nat)
    BY EmptySeq
  <2> QED
    BY <2>1 DEF AReader
<1>3. ASSUME NEW k \in 1 .. N, NEW x \in S PROVE R(x, k) \in S
  BY <1>1, ReadOneTakes
<1> HIDE DEF N, R, S, a
<1>4. F \in [1 .. N -> [S -> S]]
  BY <1>3
<1>5. PICK f : Recursion(f, S, a, N, F)
  <2> HIDE DEF F
  <2> QED
    BY <1>1, <1>2, <1>4, RecursionExists, Zenon
<1>6. /\ f \in [0 .. N -> S]
      /\ f[0] = a
      /\ \A k \in 1 .. N : f[k] = F[k][f[k - 1]]
  <2> HIDE DEF F
  <2> QED
    BY <1>5 DEF Recursion
<1>7. ASSUME NEW k \in 1 .. N PROVE f[k] = R(f[k - 1], k)
  <2>1. f[k - 1] \in S
    BY <1>1, <1>6
  <2>2. F[k][f[k - 1]] = R(f[k - 1], k)
    BY <2>1
  <2> QED
    BY <1>6, <2>2
<1>8. Eq(f)
  <2>1. \A n \in 0 .. N : f[n] = IF n = 0 THEN a ELSE R(f[n - 1], n)
    BY <1>1, <1>6, <1>7
  <2>2. f = [n \in 0 .. N |-> f[n]]
    BY <1>6
  <2> QED
    BY <2>1, <2>2
<1> DEFINE w == Readers(r, sizes)
<1>9. w = CHOOSE h : Eq(h)
  BY DEF Readers, R, N, a
<1>10. Eq(w)
  <2> HIDE DEF Eq, w
  <2> QED
    BY <1>8, <1>9
<1> HIDE DEF w
<1>11. \A n \in 0 .. N : w[n] = IF n = 0 THEN a ELSE R(w[n - 1], n)
  BY <1>10, Zenon
<1>12. w[0] = a
  <2>1. 0 \in 0 .. N
    BY <1>1
  <2> QED
    BY <1>11, <2>1, Zenon
<1>13. ASSUME NEW n \in 1 .. N PROVE w[n] = R(w[n - 1], n)
  <2>1. n \in 0 .. N /\ n # 0
    BY <1>1
  <2> QED
    BY <1>11, <2>1, Zenon
<1>14. \A n \in 0 .. N : w[n] \in S
  <2> DEFINE good == {n \in Nat : w[n] \in S}
  <2>1. 0 \in good
    BY <1>2, <1>12
  <2>2. ASSUME NEW n \in 1 .. N, n - 1 \in good PROVE n \in good
    <3>1. n \in Nat /\ w[n - 1] \in S
      BY <1>1, <2>2
    <3>2. R(w[n - 1], n) \in S
      BY <1>3, <3>1
    <3> QED
      BY <1>13, <3>1, <3>2
  <2>3. 0 .. N \subseteq good
    <3> HIDE DEF good
    <3> QED
      BY <1>1, <2>1, <2>2, UpToN
  <2> QED
    BY <2>3
<1> QED
  BY <1>1, <1>12, <1>13, <1>14 DEF w, N, R, S, a

\* What comes out of integers of these sizes: each narrowed to its size.
Narrow(values, sizes) == [i \in 1 .. Len(values) |-> values[i] % Power[sizes[i]]]

\* A reader that finds what has been written reads it.
LEMMA ReadAllFinds ==
  ASSUME NEW r \in AReader, NEW values \in Seq(Nat), NEW sizes \in Seq(Nat),
         NEW tail \in Seq(Byte), Len(values) = Len(sizes),
         r.ok, r.rest = WriteAll(values, sizes) \o tail
  PROVE  ReadAll(r, sizes) =
           [ok |-> TRUE, rest |-> tail, read |-> Narrow(values, sizes)]
<1> DEFINE N == Len(sizes)
           w == Written(values, sizes)
           f == Readers(r, sizes)
           b(n) == Bytes(values[n], sizes[n])
           x(n) == values[n] % Power[sizes[n]]
           nar(n) == [i \in 1 .. n |-> x(i)]
           After(n, t) == [ok |-> TRUE, rest |-> t, read |-> nar(n)]
           good == {n \in Nat : \A t \in Seq(Byte) :
                                  r.rest = w[n] \o t => f[n] = After(n, t)}
<1>1. Writable(values, sizes)
  BY LenProperties DEF Writable
<1>2. /\ N \in Nat
      /\ w[0] = <<>>
      /\ \A n \in 1 .. N : w[n] = w[n - 1] \o b(n)
      /\ \A n \in 1 .. N : b(n) \in Seq(Byte)
      /\ \A n \in 0 .. N : w[n] \in Seq(Byte)
  BY <1>1, WrittenLaws
<1>3. /\ f[0] = [r EXCEPT !.read = <<>>]
      /\ \A n \in 1 .. N : f[n] = ReadOne(f[n - 1], sizes[n])
      /\ \A n \in 0 .. N : f[n] \in AReader
      /\ \A n \in 1 .. N : sizes[n] \in Nat
  BY ReadersLaws
<1>4. \A n \in 1 .. N : values[n] \in Nat
  BY ElementOfSeq
<1>5. \A n \in 1 .. N : x(n) \in Nat
  <2> SUFFICES ASSUME NEW n \in 1 .. N PROVE x(n) \in Nat
    OBVIOUS
  <2>1. Power[sizes[n]] \in Nat \ {0} /\ values[n] \in Nat
    BY <1>3, <1>4, PowerLaws
  <2>2. x(n) \in 0 .. Power[sizes[n]] - 1
    BY <2>1, DivMod
  <2> QED
    BY <2>1, <2>2
<1> HIDE DEF w, f, N, x
<1>6. 0 \in good
  <2> SUFFICES ASSUME NEW t \in Seq(Byte), r.rest = w[0] \o t
               PROVE  f[0] = After(0, t)
    OBVIOUS
  <2>1. r.rest = t
    BY <1>2, ConcatEmptySeq
  <2>2. nar(0) = <<>>
    OBVIOUS
  <2> HIDE DEF nar
  <2> QED
    BY <1>3, <2>1, <2>2 DEF AReader
<1>7. ASSUME NEW n \in 1 .. N, n - 1 \in good PROVE n \in good
  <2>1. n \in Nat /\ n - 1 \in Nat /\ n - 1 \in 0 .. N /\ n \in 0 .. N
    BY <1>2
  <2>2. ASSUME NEW t \in Seq(Byte), r.rest = w[n] \o t
        PROVE  f[n] = After(n, t)
    <3>1. b(n) \in Seq(Byte) /\ w[n - 1] \in Seq(Byte)
      BY <1>2, <2>1
    <3>2. b(n) \o t \in Seq(Byte)
      BY <3>1, ConcatProperties
    <3>3. r.rest = w[n - 1] \o (b(n) \o t)
      <4>1. w[n] = w[n - 1] \o b(n)
        BY <1>2
      <4> HIDE DEF b
      <4>2. (w[n - 1] \o b(n)) \o t = w[n - 1] \o (b(n) \o t)
        BY <3>1, BytesAssociate, Zenon
      <4> QED
        BY <2>2, <4>1, <4>2
    <3>4. f[n - 1] = After(n - 1, b(n) \o t)
      BY <1>7, <3>2, <3>3
    <3>5. f[n - 1] \in AReader /\ values[n] \in Nat /\ sizes[n] \in Nat
      BY <1>3, <1>4, <2>1
    <3>6. f[n - 1].ok /\ f[n - 1].rest = Bytes(values[n], sizes[n]) \o t
          /\ f[n - 1].read = nar(n - 1)
      BY <3>4
    <3>7. f[n] = [ok |-> TRUE, rest |-> t, read |-> Append(nar(n - 1), x(n))]
      <4>1. ReadOne(f[n - 1], sizes[n]) =
              [ok |-> TRUE, rest |-> t,
               read |-> Append(f[n - 1].read, values[n] % Power[sizes[n]])]
        <5> DEFINE p == f[n - 1]
                   v == values[n]
                   size == sizes[n]
        <5>1. p \in AReader /\ v \in Nat /\ size \in Nat
              /\ p.ok /\ p.rest = Bytes(v, size) \o t
          BY <3>5, <3>6
        <5> HIDE DEF p, v, size
        <5>2. ReadOne(p, size) =
                [ok |-> TRUE, rest |-> t, read |-> Append(p.read, v % Power[size])]
          BY <5>1, ReadOneFinds
        <5> QED
          BY <5>2 DEF p, v, size
      <4> QED
        BY <1>3, <3>6, <4>1 DEF x
    <3>8. Append(nar(n - 1), x(n)) = nar(n)
      <4>1. \A m \in 0 .. N : nar(m) \in [1 .. m -> Nat]
        BY <1>2, <1>5
      <4>2. /\ nar(n) \in Seq(Nat) /\ Len(nar(n)) = n
            /\ nar(n - 1) \in Seq(Nat) /\ Len(nar(n - 1)) = n - 1
        <5>1. nar(n) \in [1 .. n -> Nat] /\ nar(n - 1) \in [1 .. n - 1 -> Nat]
          BY <2>1, <4>1
        <5> HIDE DEF nar
        <5> QED
          BY <2>1, <5>1, FunctionIsSeq
      <4>3. x(n) \in Nat
        BY <1>5
      <4> DEFINE app == Append(nar(n - 1), x(n))
      <4>4. /\ app \in Seq(Nat) /\ Len(app) = n
            /\ \A i \in 1 .. n - 1 : app[i] = nar(n - 1)[i]
            /\ app[n] = x(n)
        <5>1. /\ app \in Seq(Nat) /\ Len(app) = Len(nar(n - 1)) + 1
              /\ \A i \in 1 .. Len(nar(n - 1)) : app[i] = nar(n - 1)[i]
              /\ app[Len(nar(n - 1)) + 1] = x(n)
          <6> DEFINE y == nar(n - 1)
                     z == x(n)
                     yz == Append(y, z)
          <6>1. y \in Seq(Nat) /\ z \in Nat
            BY <4>2, <4>3
          <6> HIDE DEF y, z
          <6>2. /\ yz \in Seq(Nat) /\ Len(yz) = Len(y) + 1
                /\ \A i \in 1 .. Len(y) : yz[i] = y[i]
                /\ yz[Len(y) + 1] = z
            BY <6>1, AppendProperties
          <6> QED
            BY <6>2 DEF y, z
        <5> HIDE DEF app, nar
        <5> QED
          BY <2>1, <4>2, <5>1
      <4> HIDE DEF app
      <4>5. \A i \in 1 .. n : app[i] = nar(n)[i]
        BY <2>1, <4>4
      <4> HIDE DEF nar
      <4>6. app = nar(n)
        BY <4>2, <4>4, <4>5, SeqEqual
      <4> QED
        BY <4>6 DEF app
    <3> QED
      BY <3>7, <3>8
  <2> HIDE DEF After
  <2> QED
    BY <2>1, <2>2
<1>8. N \in good
  <2>1. 0 .. N \subseteq good
    <3> HIDE DEF good
    <3> QED
      BY <1>2, <1>6, <1>7, UpToN
  <2> HIDE DEF good
  <2> QED
    BY <1>2, <2>1
<1>9. r.rest = w[N] \o tail
  BY DEF WriteAll, w, N
<1>10. f[N] = After(N, tail)
  <2> HIDE DEF After
  <2> QED
    BY <1>8, <1>9
<1> QED
  BY <1>10 DEF ReadAll, Narrow, f, N, x

\* A reader that has read integers has found them written.
LEMMA ReadAllTakes ==
  ASSUME NEW r \in AReader, NEW sizes \in Seq(Nat), ReadAll(r, sizes).ok
  PROVE  LET all == ReadAll(r, sizes) IN
         /\ r.ok
         /\ all \in AReader
         /\ Len(all.read) = Len(sizes)
         /\ \A i \in 1 .. Len(sizes) : all.read[i] \in Unsigned(sizes[i])
         /\ r.rest = WriteAll(all.read, sizes) \o all.rest
<1> DEFINE N == Len(sizes)
           f == Readers(r, sizes)
           Taken(n) ==
             /\ r.ok
             /\ Len(f[n].read) = n
             /\ \A i \in 1 .. n : f[n].read[i] \in Unsigned(sizes[i])
             /\ r.rest = WriteAll(f[n].read, sizes) \o f[n].rest
           good == {n \in Nat : f[n].ok => Taken(n)}
<1>1. /\ N \in Nat
      /\ f[0] = [r EXCEPT !.read = <<>>]
      /\ \A n \in 1 .. N : f[n] = ReadOne(f[n - 1], sizes[n])
      /\ \A n \in 0 .. N : f[n] \in AReader
      /\ \A n \in 1 .. N : sizes[n] \in Nat
  BY ReadersLaws
<1> HIDE DEF f
<1>2. 0 \in good
  <2>1. f[0].ok = r.ok /\ f[0].read = <<>> /\ f[0].rest = r.rest
    BY <1>1 DEF AReader
  <2>2. WriteAll(<<>>, sizes) = <<>> /\ Len(<<>>) = 0
    BY WriteAllEmpty, EmptySeq
  <2>3. r.rest = <<>> \o r.rest
    BY ConcatEmptySeq DEF AReader
  <2>4. f[0].ok => Taken(0)
    <3>1. Len(f[0].read) = 0
      BY <2>1, <2>2
    <3>2. r.rest = WriteAll(f[0].read, sizes) \o f[0].rest
      BY <2>1, <2>2, <2>3
    <3>3. \A i \in 1 .. 0 : f[0].read[i] \in Unsigned(sizes[i])
      OBVIOUS
    <3> QED
      BY <2>1, <3>1, <3>2, <3>3
  <2> HIDE DEF Taken
  <2> QED
    BY <2>4
<1>3. ASSUME NEW n \in 1 .. N, n - 1 \in good PROVE n \in good
  <2>1. n \in Nat /\ n - 1 \in 0 .. N
    BY <1>1
  <2> SUFFICES ASSUME f[n].ok PROVE Taken(n)
    BY <2>1
  <2> DEFINE p == f[n - 1]
             size == sizes[n]
  <2>2. p \in AReader /\ size \in Nat /\ f[n] = ReadOne(p, size)
    BY <1>1, <2>1
  <2>3. p.ok => Taken(n - 1)
    BY <1>3
  <2> HIDE DEF p, size
  <2>4. p.ok
    BY <2>2, ReadOneTakes
  <2>5. PICK v \in Unsigned(size) :
               /\ v \in Nat
               /\ f[n].read = Append(p.read, v)
               /\ p.rest = Bytes(v, size) \o f[n].rest
    <3>1. ReadOne(p, size).ok
      BY <2>2
    <3>2. \E v \in Unsigned(size) :
            /\ v \in Nat
            /\ ReadOne(p, size).read = Append(p.read, v)
            /\ p.rest = Bytes(v, size) \o ReadOne(p, size).rest
      BY <2>2, <3>1, ReadOneTakes
    <3> QED
      BY <2>2, <3>2
  <2>6. /\ r.ok
        /\ Len(p.read) = n - 1
        /\ \A i \in 1 .. n - 1 : p.read[i] \in Unsigned(sizes[i])
        /\ r.rest = WriteAll(p.read, sizes) \o p.rest
    BY <2>3, <2>4 DEF p
  <2>7. p.read \in Seq(Nat) /\ f[n].rest \in Seq(Byte)
    <3>1. f[n] \in AReader
      BY <1>1, <2>1
    <3> QED
      BY <2>2, <3>1 DEF AReader
  <2>8. /\ Len(f[n].read) = n
        /\ \A i \in 1 .. n - 1 : f[n].read[i] = p.read[i]
        /\ f[n].read[n] = v
    <3>1. /\ Len(Append(p.read, v)) = Len(p.read) + 1
          /\ \A i \in 1 .. Len(p.read) : Append(p.read, v)[i] = p.read[i]
          /\ Append(p.read, v)[Len(p.read) + 1] = v
      BY <2>5, <2>7, AppendProperties
    <3> QED
      BY <2>1, <2>5, <2>6, <3>1
  <2>9. \A i \in 1 .. n : f[n].read[i] \in Unsigned(sizes[i])
    BY <2>1, <2>5, <2>6, <2>8 DEF size
  <2>10. r.rest = WriteAll(f[n].read, sizes) \o f[n].rest
    <3>1. WriteAll(Append(p.read, v), sizes) = WriteAll(p.read, sizes) \o Bytes(v, size)
      <4>1. Len(p.read) + 1 = n /\ Len(p.read) + 1 <= Len(sizes)
        BY <1>1, <2>1, <2>6
      <4> QED
        BY <2>5, <2>7, <4>1, WriteAllAppend DEF size
    <3>2. WriteAll(p.read, sizes) \in Seq(Byte)
      <4>1. Writable(p.read, sizes)
        BY <1>1, <2>1, <2>6, <2>7 DEF Writable
      <4> QED
        BY <4>1, WriteAllType
    <3>3. Bytes(v, size) \in Seq(Byte)
      BY <2>2, <2>5, BytesType
    <3> DEFINE x == WriteAll(p.read, sizes)
               b == Bytes(v, size)
               t == f[n].rest
    <3>4. WriteAll(f[n].read, sizes) = x \o b /\ r.rest = x \o (b \o t)
      BY <2>5, <2>6, <3>1
    <3>5. x \in Seq(Byte) /\ b \in Seq(Byte) /\ t \in Seq(Byte)
      BY <2>7, <3>2, <3>3
    <3> HIDE DEF x, b, t
    <3>6. (x \o b) \o t = x \o (b \o t)
      BY <3>5, BytesAssociate, Zenon
    <3> QED
      BY <3>4, <3>6 DEF t
  <2> QED
    BY <2>6, <2>8, <2>9, <2>10
<1>4. 0 .. N \subseteq good
  <2> HIDE DEF good
  <2> QED
    BY <1>1, <1>2, <1>3, UpToN
<1>5. ReadAll(r, sizes) = f[N]
  BY DEF ReadAll, f
<1>6. f[N] \in AReader /\ Taken(N)
  <2>1. N \in good /\ N \in 0 .. N
    <3> HIDE DEF good
    <3> QED
      BY <1>1, <1>4
  <2>2. f[N].ok
    BY <1>5
  <2>3. Taken(N)
    <3> HIDE DEF Taken
    <3> QED
      BY <2>1, <2>2
  <2> QED
    BY <1>1, <2>1, <2>3
<1> QED
  BY <1>5, <1>6
-----------------------------------------------------------------------------
\* The first byte of a message.

LEMMA OneByte ==
  ASSUME NEW k \in Byte
  PROVE  k \in Nat /\ Bytes(k, 1) = <<k>> /\ k % Power[1] = k
<1> DEFINE B == ByteSpan
<1>1. k \in 0 .. B - 1 /\ k \in Nat /\ B \in Nat \ {0}
  BY WireAssumption DEF Byte
<1>2. Power[0] = 1 /\ Power[1] = B
  <2>1. Power[1] = ByteSpan * Power[1 - 1] /\ Power[0] = 1
    BY PowerLaws
  <2> QED
    BY <1>1, <2>1
<1> HIDE DEF B
<1>3. k % B = k
  <2>1. B * 0 + k = k
    BY <1>1
  <2>2. (B * 0 + k) % B = k
    BY <1>1, DivModOf
  <2> QED
    BY <2>1, <2>2
<1>4. k \div 1 = k
  <2>1. 1 * k + 0 = k
    BY <1>1
  <2>2. (1 * k + 0) \div 1 = k
    BY <1>1, DivModOf
  <2> QED
    BY <2>1, <2>2
<1>5. Bytes(k, 1) \in Seq(Byte) /\ Len(Bytes(k, 1)) = 1 /\ Bytes(k, 1)[1] = k
  <2>1. /\ Bytes(k, 1) \in Seq(Byte) /\ Len(Bytes(k, 1)) = 1
        /\ Bytes(k, 1)[1] = (k \div Power[1 - 1]) % ByteSpan
    <3>1. Bytes(k, 1) \in Seq(Byte) /\ Len(Bytes(k, 1)) = 1
      BY <1>1, BytesType
    <3>2. 1 \in 1 .. 1
      OBVIOUS
    <3> QED
      BY <3>1, <3>2 DEF Bytes
  <2>2. (k \div Power[1 - 1]) % ByteSpan = k
    BY <1>2, <1>3, <1>4 DEF B
  <2> QED
    BY <2>1, <2>2
<1>6. <<k>> \in Seq(Byte) /\ Len(<<k>>) = 1 /\ <<k>>[1] = k
  OBVIOUS
<1>7. Bytes(k, 1) = <<k>>
  BY <1>5, <1>6, SeqEqual
<1> QED
  BY <1>1, <1>2, <1>3, <1>7

LEMMA ReaderType ==
  ASSUME NEW bytes \in Seq(Byte)
  PROVE  /\ Reader(bytes) \in AReader
         /\ Reader(bytes).ok /\ Reader(bytes).rest = bytes /\ Reader(bytes).read = <<>>
<1>1. <<>> \in Seq(Nat)
  BY EmptySeq
<1> QED
  BY <1>1 DEF Reader, AReader

LEMMA FindsType ==
  ASSUME NEW k \in Byte, NEW tail \in Seq(Byte)
  PROVE  /\ <<k>> \o tail \in Seq(Byte)
         /\ ReadOne(Reader(<<k>> \o tail), 1) = [ok |-> TRUE, rest |-> tail, read |-> <<k>>]
<1>1. k \in Nat /\ Bytes(k, 1) = <<k>> /\ k % Power[1] = k
  BY OneByte
<1>2. <<k>> \in Seq(Byte)
  OBVIOUS
<1> DEFINE bytes == <<k>> \o tail
           r == Reader(bytes)
<1>3. bytes \in Seq(Byte)
  BY <1>2, ConcatProperties
<1> HIDE DEF bytes
<1>4. r \in AReader /\ r.ok /\ r.rest = bytes /\ r.read = <<>>
  BY <1>3, ReaderType
<1> HIDE DEF r
<1>5. r.rest = Bytes(k, 1) \o tail
  BY <1>1, <1>4 DEF bytes
<1>6. ReadOne(r, 1) = [ok |-> TRUE, rest |-> tail, read |-> Append(r.read, k % Power[1])]
  BY <1>1, <1>4, <1>5, ReadOneFinds
<1>7. Append(<<>>, k) = <<k>>
  OBVIOUS
<1> QED
  BY <1>1, <1>3, <1>4, <1>6, <1>7 DEF bytes, r

LEMMA TakesType ==
  ASSUME NEW bytes \in Seq(Byte), ReadOne(Reader(bytes), 1).ok,
         NEW k, ReadOne(Reader(bytes), 1).read = <<k>>
  PROVE  /\ k \in Byte
         /\ ReadOne(Reader(bytes), 1).rest \in Seq(Byte)
         /\ bytes = <<k>> \o ReadOne(Reader(bytes), 1).rest
<1> DEFINE r == Reader(bytes)
           type == ReadOne(r, 1)
<1>1. r \in AReader /\ r.rest = bytes /\ r.read = <<>>
  BY ReaderType
<1>2. type.ok /\ type.read = <<k>>
  OBVIOUS
<1> HIDE DEF r
<1>3. type \in AReader
  BY <1>1, ReadOneTakes
<1>4. PICK v \in Unsigned(1) :
             /\ v \in Nat
             /\ type.read = Append(r.read, v)
             /\ r.rest = Bytes(v, 1) \o type.rest
  BY <1>1, <1>2, ReadOneTakes
<1>5. v = k
  <2>1. Append(<<>>, v) = <<v>>
    OBVIOUS
  <2>2. <<v>> = <<k>>
    BY <1>1, <1>2, <1>4, <2>1
  <2> QED
    BY <2>2
<1>6. k \in Byte
  <2>1. Power[1] = ByteSpan
    <3>1. Power[1] = ByteSpan * Power[1 - 1] /\ Power[0] = 1
      BY PowerLaws
    <3> QED
      BY <3>1, WireAssumption
  <2> QED
    BY <1>4, <1>5, <2>1 DEF Unsigned, Byte
<1> QED
  BY <1>1, <1>3, <1>4, <1>5, <1>6, OneByte DEF r, AReader
-----------------------------------------------------------------------------
\* The messages.

\* A message of the program, with an id as wide as it is in the message.
Sendable ==
  {Request(t) : t \in Tickets}
    \union {Reply(s, t) : s, t \in Tickets}
    \union {PartyStart(s, id, pids) :
              s \in Tickets, id \in Nat,
              pids \in {x \in Seq(Unsigned(PidSize)) : Len(x) \in Unsigned(CountSize)}}

LEMMA SizesType ==
  /\ {PidSize, TimestampSize, PartyIdSize, CountSize} \subseteq Nat \ {0}
  /\ TicketSizes \in Seq(Nat) /\ Len(TicketSizes) = 2
  /\ TicketSizes[1] = PidSize /\ TicketSizes[2] = TimestampSize
  /\ ReplySizes \in Seq(Nat) /\ Len(ReplySizes) = 4
  /\ ReplySizes[1] = PidSize /\ ReplySizes[2] = TimestampSize
  /\ ReplySizes[3] = PidSize /\ ReplySizes[4] = TimestampSize
  /\ StartSizes \in Seq(Nat) /\ Len(StartSizes) = 4
  /\ StartSizes[1] = PidSize /\ StartSizes[2] = TimestampSize
  /\ StartSizes[3] = PartyIdSize /\ StartSizes[4] = CountSize
<1>1. {PidSize, TimestampSize, PartyIdSize, CountSize} \subseteq Nat \ {0}
  BY WireAssumption
<1> QED
  BY <1>1 DEF TicketSizes, ReplySizes, StartSizes

LEMMA PidSizesType ==
  ASSUME NEW n \in Nat
  PROVE  /\ PidSizes(n) \in Seq(Nat) /\ Len(PidSizes(n)) = n
         /\ \A i \in 1 .. n : PidSizes(n)[i] = PidSize
<1>1. PidSizes(n) \in [1 .. n -> Nat]
  BY SizesType DEF PidSizes
<1> QED
  BY <1>1, FunctionIsSeq DEF PidSizes

\* A value of an integer of a size is not narrowed by it.
LEMMA UnsignedFits ==
  ASSUME NEW size \in Nat, NEW v \in Unsigned(size)
  PROVE  v \in Nat /\ v % Power[size] = v
<1> DEFINE P == Power[size]
<1>1. P \in Nat \ {0} /\ v \in 0 .. P - 1
  BY PowerLaws DEF Unsigned
<1> HIDE DEF P
<1>2. P * 0 + v = v /\ v \in Nat
  BY <1>1
<1>3. (P * 0 + v) % P = v
  BY <1>1, DivModOf
<1> QED
  BY <1>2, <1>3 DEF P

\* A narrowed value is one of an integer of the size.
LEMMA NarrowFits ==
  ASSUME NEW size \in Nat, NEW v \in Nat
  PROVE  v % Power[size] \in Unsigned(size)
<1>1. Power[size] \in Nat \ {0}
  BY PowerLaws
<1> QED
  BY <1>1, DivMod DEF Unsigned

\* Decoding, by the type.
LEMMA DeserializeByType ==
  ASSUME NEW bytes, NEW type, type = ReadOne(Reader(bytes), 1)
  PROVE  LET asked == ReadAll(type, TicketSizes)
             answered == ReadAll(type, ReplySizes)
             start == ReadAll(type, StartSizes)
             pids == ReadPids(start, start.read[4])
         IN
         /\ type.read = <<kRequest>> =>
              Deserialize(bytes) = Decoded(asked, Request(TicketOf(asked.read, 1)))
         /\ type.read = <<kReply>> =>
              Deserialize(bytes) =
                Decoded(answered, Reply(TicketOf(answered.read, 1),
                                        TicketOf(answered.read, 3)))
         /\ type.read = <<kPartyStart>> =>
              Deserialize(bytes) =
                IF start.ok /\ CountAccepted(start.read[4])
                THEN Decoded(pids, PartyStart(TicketOf(start.read, 1), start.read[3],
                                              pids.read))
                ELSE {}
         /\ type.read \notin {<<kRequest>>, <<kReply>>, <<kPartyStart>>} =>
              Deserialize(bytes) = {}
<1> DEFINE asked == ReadAll(type, TicketSizes)
           answered == ReadAll(type, ReplySizes)
           start == ReadAll(type, StartSizes)
           pids == ReadPids(start, start.read[4])
           one == Decoded(asked, Request(TicketOf(asked.read, 1)))
           two == Decoded(answered, Reply(TicketOf(answered.read, 1),
                                          TicketOf(answered.read, 3)))
           three == Decoded(pids, PartyStart(TicketOf(start.read, 1), start.read[3],
                                             pids.read))
           accepted == start.ok /\ CountAccepted(start.read[4])
<1>1. Deserialize(bytes) =
        CASE type.read = <<kRequest>> -> one
          [] type.read = <<kReply>> -> two
          [] type.read = <<kPartyStart>> /\ accepted -> three
          [] OTHER -> {}
  BY DEF Deserialize
<1>2. <<kRequest>> # <<kReply>> /\ <<kRequest>> # <<kPartyStart>> /\ <<kReply>> # <<kPartyStart>>
  BY DEF kRequest, kReply, kPartyStart
<1> HIDE DEF one, two, three, accepted
<1>3. /\ type.read = <<kRequest>> => Deserialize(bytes) = one
      /\ type.read = <<kReply>> => Deserialize(bytes) = two
      /\ type.read = <<kPartyStart>> =>
           Deserialize(bytes) = IF accepted THEN three ELSE {}
      /\ type.read \notin {<<kRequest>>, <<kReply>>, <<kPartyStart>>} =>
           Deserialize(bytes) = {}
  BY <1>1, <1>2
<1> QED
  BY <1>3 DEF one, two, three, accepted

\* The types are bytes.
LEMMA TypesAreBytes ==
  /\ kRequest \in Byte /\ kReply \in Byte /\ kPartyStart \in Byte
  /\ kRequest # kReply /\ kRequest # kPartyStart /\ kReply # kPartyStart
BY WireAssumption DEF kRequest, kReply, kPartyStart, Byte

\* A message is bytes, and begins with its type.
LEMMA SerializeIs ==
  /\ \A t \in Tickets :
       LET fields == WriteAll(<<t.pid, t.ts>>, TicketSizes) IN
       fields \in Seq(Byte) /\ Serialize(Request(t)) = <<kRequest>> \o fields
  /\ \A s, t \in Tickets :
       LET fields == WriteAll(<<s.pid, s.ts, t.pid, t.ts>>, ReplySizes) IN
       fields \in Seq(Byte) /\ Serialize(Reply(s, t)) = <<kReply>> \o fields
  /\ \A s \in Tickets, id \in Nat, pids \in Seq(Nat) :
       LET count == Len(pids)
           fields == WriteAll(<<s.pid, s.ts, id, count>>, StartSizes)
           list == WriteAll(pids, PidSizes(count))
       IN  /\ fields \in Seq(Byte) /\ list \in Seq(Byte)
           /\ Serialize(PartyStart(s, id, pids)) = <<kPartyStart>> \o (fields \o list)
<1>1. \A t \in Tickets : t.pid \in Nat /\ t.ts \in Nat
  BY SizesType, UnsignedFits DEF Tickets
<1>2. ASSUME NEW t \in Tickets
      PROVE  LET fields == WriteAll(<<t.pid, t.ts>>, TicketSizes) IN
             fields \in Seq(Byte) /\ Serialize(Request(t)) = <<kRequest>> \o fields
  <2>1. Writable(<<t.pid, t.ts>>, TicketSizes)
    <3>1. <<t.pid, t.ts>> \in Seq(Nat) /\ Len(<<t.pid, t.ts>>) = 2
      BY <1>1
    <3> QED
      BY <3>1, SizesType DEF Writable
  <2>2. Serialize(Request(t)) = <<kRequest>> \o WriteAll(<<t.pid, t.ts>>, TicketSizes)
    <3>1. Request(t).type = kRequest /\ Request(t).request = t
      BY DEF Request
    <3> QED
      BY <3>1, TypesAreBytes DEF Serialize
  <2> QED
    BY <2>1, <2>2, WriteAllType
<1>3. ASSUME NEW s \in Tickets, NEW t \in Tickets
      PROVE  LET fields == WriteAll(<<s.pid, s.ts, t.pid, t.ts>>, ReplySizes) IN
             fields \in Seq(Byte) /\ Serialize(Reply(s, t)) = <<kReply>> \o fields
  <2> DEFINE values == <<s.pid, s.ts, t.pid, t.ts>>
  <2>1. Writable(values, ReplySizes)
    <3>1. values \in Seq(Nat) /\ Len(values) = 4
      BY <1>1
    <3> QED
      BY <3>1, SizesType DEF Writable
  <2>2. Serialize(Reply(s, t)) = <<kReply>> \o WriteAll(values, ReplySizes)
    <3>1. /\ Reply(s, t).type = kReply
          /\ Reply(s, t).sender = s
          /\ Reply(s, t).request = t
      BY DEF Reply
    <3>2. ReplyBytes(Reply(s, t)) = WriteAll(values, ReplySizes)
      BY <3>1 DEF ReplyBytes, ReplyFields
    <3> QED
      BY <3>1, <3>2, TypesAreBytes DEF Serialize
  <2> QED
    BY <2>1, <2>2, WriteAllType
<1>4. ASSUME NEW s \in Tickets, NEW id \in Nat, NEW pids \in Seq(Nat)
      PROVE  LET count == Len(pids)
                 fields == WriteAll(<<s.pid, s.ts, id, count>>, StartSizes)
                 list == WriteAll(pids, PidSizes(count))
             IN  /\ fields \in Seq(Byte) /\ list \in Seq(Byte)
                 /\ Serialize(PartyStart(s, id, pids)) = <<kPartyStart>> \o (fields \o list)
  <2> DEFINE count == Len(pids)
             values == <<s.pid, s.ts, id, count>>
             fields == WriteAll(values, StartSizes)
             list == WriteAll(pids, PidSizes(count))
  <2>1. count \in Nat
    BY LenProperties
  <2>2. Writable(values, StartSizes)
    <3>1. values \in Seq(Nat) /\ Len(values) = 4
      BY <1>1, <2>1
    <3> QED
      BY <3>1, SizesType DEF Writable
  <2>3. Writable(pids, PidSizes(count))
    BY <2>1, PidSizesType DEF Writable
  <2>4. fields \in Seq(Byte) /\ list \in Seq(Byte)
    BY <2>2, <2>3, WriteAllType
  <2>5. Serialize(PartyStart(s, id, pids)) = <<kPartyStart>> \o (fields \o list)
    <3>1. /\ PartyStart(s, id, pids).type = kPartyStart
          /\ PartyStart(s, id, pids).sender = s
          /\ PartyStart(s, id, pids).id = id
          /\ PartyStart(s, id, pids).participants = pids
      BY DEF PartyStart
    <3> QED
      BY <3>1, TypesAreBytes DEF Serialize
  <2> QED
    BY <2>4, <2>5
<1> QED
  BY <1>2, <1>3, <1>4

LEMMA DecodesRequest ==
  ASSUME NEW t \in Tickets, NEW tail \in Seq(Byte)
  PROVE  Deserialize(Serialize(Request(t)) \o tail) = {Request(t)}
<1> DEFINE values == <<t.pid, t.ts>>
           fields == WriteAll(values, TicketSizes)
           bytes == Serialize(Request(t)) \o tail
           type == ReadOne(Reader(bytes), 1)
           asked == ReadAll(type, TicketSizes)
<1>1. fields \in Seq(Byte) /\ Serialize(Request(t)) = <<kRequest>> \o fields
  BY SerializeIs
<1>2. fields \o tail \in Seq(Byte) /\ bytes = <<kRequest>> \o (fields \o tail)
  <2>1. <<kRequest>> \in Seq(Byte)
    BY TypesAreBytes
  <2> HIDE DEF fields
  <2>2. fields \o tail \in Seq(Byte)
    BY <1>1, ConcatProperties
  <2>3. (<<kRequest>> \o fields) \o tail = <<kRequest>> \o (fields \o tail)
    BY <1>1, <2>1, ConcatAssociative
  <2> QED
    BY <1>1, <2>2, <2>3
<1> HIDE DEF bytes
<1>3. /\ bytes \in Seq(Byte)
      /\ type = [ok |-> TRUE, rest |-> fields \o tail, read |-> <<kRequest>>]
  BY <1>2, FindsType, TypesAreBytes
<1> HIDE DEF type
<1>4. type \in AReader /\ type.ok /\ type.rest = fields \o tail /\ type.read = <<kRequest>>
  <2>1. <<kRequest>> \in Seq(Nat)
    BY DEF kRequest
  <2> QED
    BY <1>2, <1>3, <2>1 DEF AReader
<1>5. /\ values \in Seq(Nat) /\ Len(values) = 2
      /\ Narrow(values, TicketSizes) = values
  <2>1. /\ t.pid \in Nat /\ t.pid % Power[PidSize] = t.pid
        /\ t.ts \in Nat /\ t.ts % Power[TimestampSize] = t.ts
    BY SizesType, UnsignedFits DEF Tickets
  <2>2. values \in Seq(Nat) /\ Len(values) = 2
    BY <2>1
  <2>3. \A i \in 1 .. 2 : values[i] % Power[TicketSizes[i]] = values[i]
    <3>1. values[1] = t.pid /\ values[2] = t.ts
      OBVIOUS
    <3>2. \A i \in 1 .. 2 : i = 1 \/ i = 2
      OBVIOUS
    <3> HIDE DEF values
    <3> QED
      BY <2>1, <3>1, <3>2, SizesType
  <2>4. values = [i \in 1 .. 2 |-> values[i]]
    OBVIOUS
  <2> HIDE DEF values
  <2>5. Narrow(values, TicketSizes) = [i \in 1 .. 2 |-> values[i]]
    BY <2>2, <2>3 DEF Narrow
  <2> QED
    BY <2>2, <2>4, <2>5
<1>6. asked = [ok |-> TRUE, rest |-> tail, read |-> values]
  <2> HIDE DEF values
  <2>1. TicketSizes \in Seq(Nat) /\ Len(values) = Len(TicketSizes)
    BY <1>5, SizesType
  <2>2. asked = [ok |-> TRUE, rest |-> tail, read |-> Narrow(values, TicketSizes)]
    BY <1>4, <1>5, <2>1, ReadAllFinds
  <2> QED
    BY <1>5, <2>2
<1>7. Deserialize(bytes) = Decoded(asked, Request(TicketOf(asked.read, 1)))
  BY <1>4, DeserializeByType DEF type
<1> HIDE DEF asked
<1>8. TicketOf(asked.read, 1) = t
  <2>1. TicketOf(values, 1) = [pid |-> t.pid, ts |-> t.ts]
    BY DEF TicketOf
  <2>2. t = [pid |-> t.pid, ts |-> t.ts]
    BY DEF Tickets
  <2> QED
    BY <1>6, <2>1, <2>2
<1> QED
  BY <1>6, <1>7, <1>8 DEF Decoded, bytes

LEMMA DecodesReply ==
  ASSUME NEW s \in Tickets, NEW t \in Tickets, NEW tail \in Seq(Byte)
  PROVE  Deserialize(Serialize(Reply(s, t)) \o tail) = {Reply(s, t)}
<1> DEFINE values == <<s.pid, s.ts, t.pid, t.ts>>
           fields == WriteAll(values, ReplySizes)
           bytes == Serialize(Reply(s, t)) \o tail
           type == ReadOne(Reader(bytes), 1)
           answered == ReadAll(type, ReplySizes)
<1>1. fields \in Seq(Byte) /\ Serialize(Reply(s, t)) = <<kReply>> \o fields
  BY SerializeIs
<1>2. fields \o tail \in Seq(Byte) /\ bytes = <<kReply>> \o (fields \o tail)
  <2>1. <<kReply>> \in Seq(Byte)
    BY TypesAreBytes
  <2> HIDE DEF fields
  <2>2. fields \o tail \in Seq(Byte)
    BY <1>1, ConcatProperties
  <2>3. (<<kReply>> \o fields) \o tail = <<kReply>> \o (fields \o tail)
    BY <1>1, <2>1, ConcatAssociative
  <2> QED
    BY <1>1, <2>2, <2>3
<1> HIDE DEF bytes
<1>3. /\ bytes \in Seq(Byte)
      /\ type = [ok |-> TRUE, rest |-> fields \o tail, read |-> <<kReply>>]
  BY <1>2, FindsType, TypesAreBytes
<1> HIDE DEF type
<1>4. type \in AReader /\ type.ok /\ type.rest = fields \o tail /\ type.read = <<kReply>>
  <2>1. <<kReply>> \in Seq(Nat)
    BY DEF kReply
  <2> QED
    BY <1>2, <1>3, <2>1 DEF AReader
<1>5. /\ values \in Seq(Nat) /\ Len(values) = 4
      /\ Narrow(values, ReplySizes) = values
  <2>1. \A u \in Tickets : /\ u.pid \in Nat /\ u.pid % Power[PidSize] = u.pid
                           /\ u.ts \in Nat /\ u.ts % Power[TimestampSize] = u.ts
    BY SizesType, UnsignedFits DEF Tickets
  <2>2. values \in Seq(Nat) /\ Len(values) = 4
    BY <2>1
  <2>3. \A i \in 1 .. 4 : values[i] % Power[ReplySizes[i]] = values[i]
    <3>1. values[1] = s.pid /\ values[2] = s.ts /\ values[3] = t.pid /\ values[4] = t.ts
      OBVIOUS
    <3>2. \A i \in 1 .. 4 : i = 1 \/ i = 2 \/ i = 3 \/ i = 4
      OBVIOUS
    <3> HIDE DEF values
    <3> QED
      BY <2>1, <3>1, <3>2, SizesType
  <2>4. values = [i \in 1 .. 4 |-> values[i]]
    OBVIOUS
  <2> HIDE DEF values
  <2>5. Narrow(values, ReplySizes) = [i \in 1 .. 4 |-> values[i]]
    BY <2>2, <2>3 DEF Narrow
  <2> QED
    BY <2>2, <2>4, <2>5
<1>6. answered = [ok |-> TRUE, rest |-> tail, read |-> values]
  <2> HIDE DEF values
  <2>1. ReplySizes \in Seq(Nat) /\ Len(values) = Len(ReplySizes)
    BY <1>5, SizesType
  <2>2. answered = [ok |-> TRUE, rest |-> tail, read |-> Narrow(values, ReplySizes)]
    BY <1>4, <1>5, <2>1, ReadAllFinds
  <2> QED
    BY <1>5, <2>2
<1>7. Deserialize(bytes) =
        Decoded(answered, Reply(TicketOf(answered.read, 1), TicketOf(answered.read, 3)))
  BY <1>4, DeserializeByType DEF type
<1> HIDE DEF answered
<1>8. TicketOf(answered.read, 1) = s /\ TicketOf(answered.read, 3) = t
  <2>1. /\ TicketOf(values, 1) = [pid |-> s.pid, ts |-> s.ts]
        /\ TicketOf(values, 3) = [pid |-> t.pid, ts |-> t.ts]
    BY DEF TicketOf
  <2>2. \A u \in Tickets : u = [pid |-> u.pid, ts |-> u.ts]
    BY DEF Tickets
  <2> QED
    BY <1>6, <2>1, <2>2
<1> QED
  BY <1>6, <1>7, <1>8 DEF Decoded, bytes

\* The fields of a PARTY_START come out as they are, but for the id.
LEMMA StartNarrowed ==
  ASSUME NEW s \in Tickets, NEW id \in Nat, NEW count \in Unsigned(CountSize)
  PROVE  LET values == <<s.pid, s.ts, id, count>>
             small == id % Power[PartyIdSize]
             out == <<s.pid, s.ts, small, count>>
         IN  /\ values \in Seq(Nat) /\ Len(values) = 4
             /\ out \in Seq(Nat) /\ out[4] = count /\ out[3] = small
             /\ TicketOf(out, 1) = s
             /\ Narrow(values, StartSizes) = out
<1> DEFINE values == <<s.pid, s.ts, id, count>>
           small == id % Power[PartyIdSize]
           out == <<s.pid, s.ts, small, count>>
<1>1. /\ s.pid \in Nat /\ s.pid % Power[PidSize] = s.pid
      /\ s.ts \in Nat /\ s.ts % Power[TimestampSize] = s.ts
      /\ count \in Nat /\ count % Power[CountSize] = count
  BY SizesType, UnsignedFits DEF Tickets
<1>2. small \in Nat
  <2>1. small \in Unsigned(PartyIdSize)
    BY SizesType, NarrowFits
  <2> QED
    BY <2>1, SizesType, UnsignedFits
<1>3. values \in Seq(Nat) /\ Len(values) = 4
  BY <1>1
<1>4. out \in Seq(Nat) /\ out[4] = count /\ out[3] = small
  BY <1>1, <1>2
<1>5. TicketOf(out, 1) = s
  <2>1. TicketOf(out, 1) = [pid |-> s.pid, ts |-> s.ts]
    BY DEF TicketOf
  <2>2. s = [pid |-> s.pid, ts |-> s.ts]
    BY DEF Tickets
  <2> QED
    BY <2>1, <2>2
<1>6. \A i \in 1 .. 4 : values[i] % Power[StartSizes[i]] = out[i]
  <2>1. values[1] = s.pid /\ values[2] = s.ts /\ values[3] = id /\ values[4] = count
    OBVIOUS
  <2>2. out[1] = s.pid /\ out[2] = s.ts /\ out[3] = small /\ out[4] = count
    OBVIOUS
  <2>3. \A i \in 1 .. 4 : i = 1 \/ i = 2 \/ i = 3 \/ i = 4
    OBVIOUS
  <2> HIDE DEF values, out
  <2> QED
    BY <1>1, <2>1, <2>2, <2>3, SizesType
<1>7. out = [i \in 1 .. 4 |-> out[i]]
  OBVIOUS
<1> HIDE DEF values, out
<1>8. Narrow(values, StartSizes) = [i \in 1 .. 4 |-> out[i]]
  BY <1>3, <1>6 DEF Narrow
<1> QED
  BY <1>3, <1>4, <1>5, <1>7, <1>8 DEF values, out

LEMMA DecodesPartyStart ==
  ASSUME NEW s \in Tickets, NEW id \in Nat, NEW pids \in Seq(Unsigned(PidSize)),
         Len(pids) \in Unsigned(CountSize), NEW tail \in Seq(Byte)
  PROVE  Deserialize(Serialize(PartyStart(s, id, pids)) \o tail) =
           IF Len(pids) > MaxParticipants THEN {}
           ELSE {PartyStart(s, id % Power[PartyIdSize], pids)}
<1> DEFINE count == Len(pids)
           values == <<s.pid, s.ts, id, count>>
           small == id % Power[PartyIdSize]
           out == <<s.pid, s.ts, small, count>>
           fields == WriteAll(values, StartSizes)
           list == WriteAll(pids, PidSizes(count))
           bytes == Serialize(PartyStart(s, id, pids)) \o tail
           type == ReadOne(Reader(bytes), 1)
           start == ReadAll(type, StartSizes)
           rest == ReadPids(start, start.read[4])
<1>1. pids \in Seq(Nat) /\ count \in Nat /\ \A i \in 1 .. count : pids[i] \in Unsigned(PidSize)
  <2>1. Unsigned(PidSize) \subseteq Nat
    BY SizesType, UnsignedFits
  <2>2. pids \in Seq(Nat)
    BY <2>1, SeqMonotonic
  <2>3. count \in Nat
    BY LenProperties
  <2>4. \A i \in 1 .. count : pids[i] \in Unsigned(PidSize)
    BY ElementOfSeq
  <2> QED
    BY <2>2, <2>3, <2>4
<1>2. /\ fields \in Seq(Byte) /\ list \in Seq(Byte)
      /\ Serialize(PartyStart(s, id, pids)) = <<kPartyStart>> \o (fields \o list)
  BY <1>1, SerializeIs
<1>3. /\ list \o tail \in Seq(Byte)
      /\ fields \o (list \o tail) \in Seq(Byte)
      /\ bytes = <<kPartyStart>> \o (fields \o (list \o tail))
  <2> DEFINE head == <<kPartyStart>>
  <2>1. head \in Seq(Byte)
    BY TypesAreBytes
  <2> HIDE DEF fields, list, head
  <2>2. fields \o list \in Seq(Byte) /\ list \o tail \in Seq(Byte)
    BY <1>2, ConcatProperties
  <2>3. fields \o (list \o tail) \in Seq(Byte)
    BY <1>2, <2>2, ConcatProperties
  <2>4. (head \o (fields \o list)) \o tail = head \o ((fields \o list) \o tail)
    BY <2>1, <2>2, BytesAssociate, <1>2, Zenon
  <2>5. (fields \o list) \o tail = fields \o (list \o tail)
    BY <1>2, BytesAssociate, Zenon
  <2> QED
    BY <1>2, <2>2, <2>3, <2>4, <2>5 DEF head
<1> HIDE DEF bytes
<1>4. /\ bytes \in Seq(Byte)
      /\ type = [ok |-> TRUE, rest |-> fields \o (list \o tail), read |-> <<kPartyStart>>]
  BY <1>3, FindsType, TypesAreBytes
<1> HIDE DEF type
<1>5. /\ type \in AReader /\ type.ok /\ type.read = <<kPartyStart>>
      /\ type.rest = fields \o (list \o tail)
  <2>1. <<kPartyStart>> \in Seq(Nat)
    BY DEF kPartyStart
  <2> QED
    BY <1>3, <1>4, <2>1 DEF AReader
<1>6. /\ values \in Seq(Nat) /\ Len(values) = 4
      /\ out \in Seq(Nat) /\ out[4] = count /\ out[3] = small
      /\ TicketOf(out, 1) = s
      /\ Narrow(values, StartSizes) = out
  BY StartNarrowed
<1>7. start = [ok |-> TRUE, rest |-> list \o tail, read |-> out]
  <2> HIDE DEF values, out, list
  <2>1. StartSizes \in Seq(Nat) /\ Len(values) = Len(StartSizes)
    BY <1>6, SizesType
  <2>2. start = [ok |-> TRUE, rest |-> list \o tail, read |-> Narrow(values, StartSizes)]
    BY <1>3, <1>5, <1>6, <2>1, ReadAllFinds
  <2> QED
    BY <1>6, <2>2
<1> HIDE DEF start, out, small
<1>8. start \in AReader /\ start.ok /\ start.rest = list \o tail /\ start.read[4] = count
  BY <1>3, <1>6, <1>7 DEF AReader
<1>9. rest = [ok |-> TRUE, rest |-> tail, read |-> pids]
  <2>1. /\ PidSizes(count) \in Seq(Nat) /\ Len(PidSizes(count)) = count
        /\ \A i \in 1 .. count : PidSizes(count)[i] = PidSize
    BY <1>1, PidSizesType
  <2>2. ReadAll(start, PidSizes(count)) =
          [ok |-> TRUE, rest |-> tail, read |-> Narrow(pids, PidSizes(count))]
    <3> DEFINE sizes == PidSizes(count)
    <3>1. sizes \in Seq(Nat) /\ Len(pids) = Len(sizes)
          /\ start.rest = WriteAll(pids, sizes) \o tail
      BY <1>8, <2>1
    <3> HIDE DEF sizes, list
    <3>2. ReadAll(start, sizes) = [ok |-> TRUE, rest |-> tail, read |-> Narrow(pids, sizes)]
      BY <1>1, <1>8, <3>1, ReadAllFinds
    <3> QED
      BY <3>2 DEF sizes
  <2>3. Narrow(pids, PidSizes(count)) = pids
    <3>1. \A i \in 1 .. count : pids[i] % Power[PidSizes(count)[i]] = pids[i]
      <4> SUFFICES ASSUME NEW i \in 1 .. count
                   PROVE  pids[i] % Power[PidSizes(count)[i]] = pids[i]
        OBVIOUS
      <4>1. pids[i] \in Unsigned(PidSize)
        BY <1>1, ElementOfSeq
      <4>2. PidSize \in Nat /\ PidSizes(count)[i] = PidSize
        BY <2>1, SizesType
      <4> QED
        BY <4>1, <4>2, UnsignedFits
    <3>2. pids = [i \in 1 .. count |-> pids[i]]
      BY <1>1, LenProperties
    <3>3. Narrow(pids, PidSizes(count)) = [i \in 1 .. count |-> pids[i]]
      BY <3>1 DEF Narrow
    <3> QED
      BY <3>2, <3>3
  <2> QED
    BY <1>8, <2>2, <2>3 DEF ReadPids
<1>10. Deserialize(bytes) =
         IF start.ok /\ CountAccepted(start.read[4])
         THEN Decoded(rest, PartyStart(TicketOf(start.read, 1), start.read[3], rest.read))
         ELSE {}
  BY <1>5, DeserializeByType DEF type, start
<1> HIDE DEF rest
<1>11. start.read = out /\ rest.read = pids /\ rest.ok
  BY <1>7, <1>9
<1>12. CountAccepted(start.read[4]) <=> ~ (count > MaxParticipants)
  BY <1>1, <1>8, WireAssumption DEF CountAccepted
<1> QED
  BY <1>6, <1>8, <1>10, <1>11, <1>12 DEF Decoded, bytes, small
-----------------------------------------------------------------------------
\* What is decoded is written in the buffer, and is a message.
IsWritten(m, bytes) ==
  /\ m \in Sendable
  /\ Narrowed(m) = m
  /\ \E tail \in Seq(Byte) : bytes = Serialize(m) \o tail

LEMMA RequestIsWritten ==
  ASSUME NEW bytes \in Seq(Byte), NEW type, type = ReadOne(Reader(bytes), 1),
         type.read = <<kRequest>>, NEW m \in Deserialize(bytes)
  PROVE  IsWritten(m, bytes)
<1> DEFINE asked == ReadAll(type, TicketSizes)
           vs == asked.read
           t == TicketOf(vs, 1)
<1>1. asked.ok /\ m = Request(t)
  BY DeserializeByType DEF Decoded
<1>2. type \in AReader
  <2>1. Reader(bytes) \in AReader
    BY ReaderType
  <2> QED
    BY <2>1, ReadOneTakes
<1>3. /\ type.ok
      /\ asked \in AReader
      /\ Len(vs) = Len(TicketSizes)
      /\ \A i \in 1 .. Len(TicketSizes) : vs[i] \in Unsigned(TicketSizes[i])
      /\ type.rest = WriteAll(vs, TicketSizes) \o asked.rest
  BY <1>1, <1>2, SizesType, ReadAllTakes
<1> HIDE DEF asked
<1>4. vs \in Seq(Nat) /\ asked.rest \in Seq(Byte)
  BY <1>3 DEF AReader
<1> HIDE DEF vs
<1>5. Len(vs) = 2 /\ vs[1] \in Unsigned(PidSize) /\ vs[2] \in Unsigned(TimestampSize)
  BY <1>3, SizesType
<1>6. t \in Tickets /\ t.pid = vs[1] /\ t.ts = vs[2]
  BY <1>5 DEF Tickets, TicketOf
<1>7. vs = <<t.pid, t.ts>>
  BY <1>4, <1>5, <1>6
<1> HIDE DEF t
<1>8. bytes = <<kRequest>> \o type.rest
  BY <1>3, TakesType
<1> DEFINE fields == WriteAll(vs, TicketSizes)
<1>9. fields \in Seq(Byte) /\ Serialize(m) = <<kRequest>> \o fields
  BY <1>1, <1>6, <1>7, SerializeIs
<1>10. bytes = Serialize(m) \o asked.rest
  <2>1. <<kRequest>> \in Seq(Byte) /\ type.rest = fields \o asked.rest
    BY <1>3, TypesAreBytes
  <2> HIDE DEF fields
  <2>2. (<<kRequest>> \o fields) \o asked.rest = <<kRequest>> \o (fields \o asked.rest)
    BY <1>4, <1>9, <2>1, BytesAssociate, Zenon
  <2> QED
    BY <1>8, <1>9, <2>1, <2>2
<1>11. m \in Sendable /\ Narrowed(m) = m
  <2>1. m.type = kRequest
    BY <1>1 DEF Request
  <2> QED
    BY <1>1, <1>6, <2>1, TypesAreBytes DEF Sendable, Narrowed
<1> QED
  BY <1>4, <1>10, <1>11 DEF IsWritten

LEMMA ReplyIsWritten ==
  ASSUME NEW bytes \in Seq(Byte), NEW type, type = ReadOne(Reader(bytes), 1),
         type.read = <<kReply>>, NEW m \in Deserialize(bytes)
  PROVE  IsWritten(m, bytes)
<1> DEFINE answered == ReadAll(type, ReplySizes)
           vs == answered.read
           s == TicketOf(vs, 1)
           t == TicketOf(vs, 3)
<1>1. answered.ok /\ m = Reply(s, t)
  BY DeserializeByType DEF Decoded
<1>2. type \in AReader
  <2>1. Reader(bytes) \in AReader
    BY ReaderType
  <2> QED
    BY <2>1, ReadOneTakes
<1>3. /\ type.ok
      /\ answered \in AReader
      /\ Len(vs) = Len(ReplySizes)
      /\ \A i \in 1 .. Len(ReplySizes) : vs[i] \in Unsigned(ReplySizes[i])
      /\ type.rest = WriteAll(vs, ReplySizes) \o answered.rest
  BY <1>1, <1>2, SizesType, ReadAllTakes
<1> HIDE DEF answered
<1>4. vs \in Seq(Nat) /\ answered.rest \in Seq(Byte)
  BY <1>3 DEF AReader
<1> HIDE DEF vs
<1>5. /\ Len(vs) = 4
      /\ vs[1] \in Unsigned(PidSize) /\ vs[2] \in Unsigned(TimestampSize)
      /\ vs[3] \in Unsigned(PidSize) /\ vs[4] \in Unsigned(TimestampSize)
  BY <1>3, SizesType
<1>6. /\ s \in Tickets /\ s.pid = vs[1] /\ s.ts = vs[2]
      /\ t \in Tickets /\ t.pid = vs[3] /\ t.ts = vs[4]
  BY <1>5 DEF Tickets, TicketOf
<1>7. vs = <<s.pid, s.ts, t.pid, t.ts>>
  BY <1>4, <1>5, <1>6
<1> HIDE DEF s, t
<1>8. bytes = <<kReply>> \o type.rest
  BY <1>3, TakesType
<1> DEFINE fields == WriteAll(vs, ReplySizes)
<1>9. fields \in Seq(Byte) /\ Serialize(m) = <<kReply>> \o fields
  BY <1>1, <1>6, <1>7, SerializeIs
<1>10. bytes = Serialize(m) \o answered.rest
  <2>1. <<kReply>> \in Seq(Byte) /\ type.rest = fields \o answered.rest
    BY <1>3, TypesAreBytes
  <2> HIDE DEF fields
  <2>2. (<<kReply>> \o fields) \o answered.rest = <<kReply>> \o (fields \o answered.rest)
    BY <1>4, <1>9, <2>1, BytesAssociate, Zenon
  <2> QED
    BY <1>8, <1>9, <2>1, <2>2
<1>11. m \in Sendable /\ Narrowed(m) = m
  <2>1. m.type = kReply
    BY <1>1 DEF Reply
  <2> QED
    BY <1>1, <1>6, <2>1, TypesAreBytes DEF Sendable, Narrowed
<1> QED
  BY <1>4, <1>10, <1>11 DEF IsWritten

LEMMA PartyStartIsWritten ==
  ASSUME NEW bytes \in Seq(Byte), NEW type, type = ReadOne(Reader(bytes), 1),
         type.read = <<kPartyStart>>, NEW m \in Deserialize(bytes)
  PROVE  IsWritten(m, bytes)
<1> DEFINE start == ReadAll(type, StartSizes)
           rest == ReadPids(start, start.read[4])
           vs == start.read
           ps == rest.read
           s == TicketOf(vs, 1)
           count == vs[4]
<1>1. /\ start.ok /\ rest.ok
      /\ m = PartyStart(s, vs[3], ps)
  BY DeserializeByType DEF Decoded
<1>2. type \in AReader
  <2>1. Reader(bytes) \in AReader
    BY ReaderType
  <2> QED
    BY <2>1, ReadOneTakes
<1>3. /\ type.ok
      /\ start \in AReader
      /\ Len(vs) = Len(StartSizes)
      /\ \A i \in 1 .. Len(StartSizes) : vs[i] \in Unsigned(StartSizes[i])
      /\ type.rest = WriteAll(vs, StartSizes) \o start.rest
  BY <1>1, <1>2, SizesType, ReadAllTakes
<1> HIDE DEF start
<1>4. vs \in Seq(Nat) /\ start.rest \in Seq(Byte)
  BY <1>3 DEF AReader
<1>5. /\ Len(vs) = 4
      /\ vs[1] \in Unsigned(PidSize) /\ vs[2] \in Unsigned(TimestampSize)
      /\ vs[3] \in Unsigned(PartyIdSize) /\ count \in Unsigned(CountSize)
      /\ count \in Nat /\ vs[3] \in Nat /\ vs[3] % Power[PartyIdSize] = vs[3]
  <2>1. /\ Len(vs) = 4
        /\ vs[1] \in Unsigned(PidSize) /\ vs[2] \in Unsigned(TimestampSize)
        /\ vs[3] \in Unsigned(PartyIdSize) /\ vs[4] \in Unsigned(CountSize)
    <3> HIDE DEF vs
    <3> QED
      BY <1>3, SizesType
  <2> HIDE DEF vs
  <2> QED
    BY <2>1, SizesType, UnsignedFits
<1>6. PidSizes(count) \in Seq(Nat) /\ Len(PidSizes(count)) = count
      /\ \A i \in 1 .. count : PidSizes(count)[i] = PidSize
  <2> HIDE DEF count
  <2> QED
    BY <1>5, PidSizesType
<1>7. /\ rest \in AReader
      /\ Len(ps) = count
      /\ \A i \in 1 .. count : ps[i] \in Unsigned(PidSize)
      /\ start.rest = WriteAll(ps, PidSizes(count)) \o rest.rest
  <2>1. rest = ReadAll(start, PidSizes(count))
    BY DEF ReadPids
  <2> HIDE DEF rest, count
  <2>2. LET all == ReadAll(start, PidSizes(count)) IN
        /\ all \in AReader
        /\ Len(all.read) = Len(PidSizes(count))
        /\ \A i \in 1 .. Len(PidSizes(count)) : all.read[i] \in Unsigned(PidSizes(count)[i])
        /\ start.rest = WriteAll(all.read, PidSizes(count)) \o all.rest
    BY <1>1, <1>3, <1>6, <2>1, ReadAllTakes
  <2> QED
    BY <1>6, <2>1, <2>2
<1> HIDE DEF rest
<1>8. ps \in Seq(Nat) /\ rest.rest \in Seq(Byte)
  BY <1>7 DEF AReader
<1> HIDE DEF vs, ps
<1>9. ps \in Seq(Unsigned(PidSize))
  <2>1. ps \in [1 .. count -> Unsigned(PidSize)]
    BY <1>7, <1>8, LenProperties
  <2> HIDE DEF count
  <2> QED
    BY <1>5, <2>1, FunctionIsSeq
<1>10. s \in Tickets /\ s.pid = vs[1] /\ s.ts = vs[2]
  BY <1>5 DEF Tickets, TicketOf
<1>11. vs = <<s.pid, s.ts, vs[3], Len(ps)>>
  BY <1>4, <1>5, <1>7, <1>10
<1> HIDE DEF s, count
<1>12. bytes = <<kPartyStart>> \o type.rest
  BY <1>3, TakesType
<1> DEFINE fields == WriteAll(vs, StartSizes)
           list == WriteAll(ps, PidSizes(count))
<1>13. /\ fields \in Seq(Byte) /\ list \in Seq(Byte)
       /\ Serialize(m) = <<kPartyStart>> \o (fields \o list)
  <2> DEFINE x == vs[3]
  <2>1. /\ WriteAll(<<s.pid, s.ts, x, Len(ps)>>, StartSizes) \in Seq(Byte)
        /\ WriteAll(ps, PidSizes(Len(ps))) \in Seq(Byte)
        /\ Serialize(PartyStart(s, x, ps)) =
             <<kPartyStart>> \o (WriteAll(<<s.pid, s.ts, x, Len(ps)>>, StartSizes)
                                   \o WriteAll(ps, PidSizes(Len(ps))))
    <3>1. x \in Nat
      BY <1>5
    <3> HIDE DEF x
    <3> QED
      BY <1>8, <1>10, <3>1, SerializeIs
  <2> QED
    BY <1>1, <1>7, <1>11, <2>1
<1>14. bytes = Serialize(m) \o rest.rest
  <2> DEFINE head == <<kPartyStart>>
  <2>1. /\ head \in Seq(Byte)
        /\ type.rest = fields \o start.rest
        /\ start.rest = list \o rest.rest
    BY <1>3, <1>7, TypesAreBytes
  <2>2. bytes = head \o type.rest /\ Serialize(m) = head \o (fields \o list)
    BY <1>12, <1>13
  <2> HIDE DEF fields, list, head
  <2>3. fields \o list \in Seq(Byte)
    BY <1>13, ConcatProperties
  <2>4. (head \o (fields \o list)) \o rest.rest = head \o ((fields \o list) \o rest.rest)
    BY <1>8, <2>1, <2>3, BytesAssociate, Zenon
  <2>5. (fields \o list) \o rest.rest = fields \o (list \o rest.rest)
    BY <1>8, <1>13, BytesAssociate, Zenon
  <2> QED
    BY <2>1, <2>2, <2>4, <2>5
<1>15. m \in Sendable
  <2>1. Len(ps) \in Unsigned(CountSize)
    BY <1>5, <1>7
  <2> DEFINE x == vs[3]
  <2>2. x \in Nat /\ m = PartyStart(s, x, ps)
    BY <1>1, <1>5
  <2> HIDE DEF x
  <2> QED
    BY <1>9, <1>10, <2>1, <2>2 DEF Sendable
<1>16. Narrowed(m) = m
  <2>1. m.type = kPartyStart /\ m.id = vs[3] /\ m = [m EXCEPT !.id = vs[3]]
    BY <1>1 DEF PartyStart
  <2> QED
    BY <1>5, <2>1 DEF Narrowed
<1> QED
  BY <1>8, <1>14, <1>15, <1>16 DEF IsWritten

LEMMA DecodedIsWritten ==
  ASSUME NEW bytes \in Seq(Byte), NEW m \in Deserialize(bytes)
  PROVE  IsWritten(m, bytes)
<1> DEFINE type == ReadOne(Reader(bytes), 1)
<1>1. CASE type.read = <<kRequest>>
  BY <1>1, RequestIsWritten
<1>2. CASE type.read = <<kReply>>
  BY <1>2, ReplyIsWritten
<1>3. CASE type.read = <<kPartyStart>>
  BY <1>3, PartyStartIsWritten
<1>4. CASE type.read \notin {<<kRequest>>, <<kReply>>, <<kPartyStart>>}
  <2>1. Deserialize(bytes) = {}
    <3> HIDE DEF type
    <3> QED
      BY <1>4, DeserializeByType DEF type
  <2> QED
    BY <2>1
<1> QED
  BY <1>1, <1>2, <1>3, <1>4
-----------------------------------------------------------------------------
\* A message that has been sent.

\* Deserialize refuses the list of participants.
TooLong(m) == m.type = kPartyStart /\ Len(m.participants) > MaxParticipants

LEMMA SendableCases ==
  ASSUME NEW m \in Sendable
  PROVE  \/ \E t \in Tickets : m = Request(t)
         \/ \E s, t \in Tickets : m = Reply(s, t)
         \/ \E s \in Tickets, id \in Nat, pids \in Seq(Unsigned(PidSize)) :
              Len(pids) \in Unsigned(CountSize) /\ m = PartyStart(s, id, pids)
BY DEF Sendable

LEMMA SentDecodes ==
  ASSUME NEW m \in Sendable, NEW tail \in Seq(Byte)
  PROVE  Deserialize(Serialize(m) \o tail) = IF TooLong(m) THEN {} ELSE {Narrowed(m)}
<1>1. ASSUME NEW t \in Tickets, m = Request(t)
      PROVE  Deserialize(Serialize(m) \o tail) = IF TooLong(m) THEN {} ELSE {Narrowed(m)}
  <2>1. m.type = kRequest
    BY <1>1 DEF Request
  <2>2. ~ TooLong(m) /\ Narrowed(m) = m
    BY <2>1, TypesAreBytes DEF TooLong, Narrowed
  <2> QED
    BY <1>1, <2>2, DecodesRequest
<1>2. ASSUME NEW s \in Tickets, NEW t \in Tickets, m = Reply(s, t)
      PROVE  Deserialize(Serialize(m) \o tail) = IF TooLong(m) THEN {} ELSE {Narrowed(m)}
  <2>1. m.type = kReply
    BY <1>2 DEF Reply
  <2>2. ~ TooLong(m) /\ Narrowed(m) = m
    BY <2>1, TypesAreBytes DEF TooLong, Narrowed
  <2> QED
    BY <1>2, <2>2, DecodesReply
<1>3. ASSUME NEW s \in Tickets, NEW id \in Nat, NEW pids \in Seq(Unsigned(PidSize)),
             Len(pids) \in Unsigned(CountSize), m = PartyStart(s, id, pids)
      PROVE  Deserialize(Serialize(m) \o tail) = IF TooLong(m) THEN {} ELSE {Narrowed(m)}
  <2>1. m.type = kPartyStart /\ m.participants = pids /\ m.id = id
    BY <1>3 DEF PartyStart
  <2>2. TooLong(m) <=> Len(pids) > MaxParticipants
    BY <2>1 DEF TooLong
  <2>3. Narrowed(m) = PartyStart(s, id % Power[PartyIdSize], pids)
    <3>1. Narrowed(m) = [m EXCEPT !.id = id % Power[PartyIdSize]]
      BY <2>1 DEF Narrowed
    <3> QED
      BY <1>3, <3>1 DEF PartyStart
  <2> QED
    BY <1>3, <2>2, <2>3, DecodesPartyStart
<1> QED
  BY <1>1, <1>2, <1>3, SendableCases

\* The bytes of integers are those of the integers narrowed to their sizes.
LEMMA WriteAllNarrowed ==
  ASSUME NEW values \in Seq(Nat), NEW sizes \in Seq(Nat), Len(values) = Len(sizes)
  PROVE  WriteAll(Narrow(values, sizes), sizes) = WriteAll(values, sizes)
<1> DEFINE w == WriteAll(values, sizes)
           r == Reader(w)
           out == Narrow(values, sizes)
           all == ReadAll(r, sizes)
<1>1. w \in Seq(Byte) /\ <<>> \in Seq(Byte)
  <2>1. Writable(values, sizes)
    BY LenProperties DEF Writable
  <2> QED
    BY <2>1, WriteAllType, EmptySeq
<1>2. w \o <<>> = w
  <2> HIDE DEF w
  <2> QED
    BY <1>1, ConcatEmptySeq
<1> HIDE DEF r
<1>3. r \in AReader /\ r.ok /\ r.rest = w
  <2> HIDE DEF w
  <2> QED
    BY <1>1, ReaderType DEF r
<1>4. all = [ok |-> TRUE, rest |-> <<>>, read |-> out]
  <2>1. r.rest = w \o <<>>
    BY <1>2, <1>3
  <2> HIDE DEF out
  <2> QED
    BY <1>1, <1>3, <2>1, ReadAllFinds DEF out
<1> HIDE DEF all, out, w
<1>5. all.ok /\ all.read = out /\ all.rest = <<>>
  BY <1>4
<1>6. all \in AReader /\ Len(out) = Len(sizes) /\ r.rest = WriteAll(out, sizes) \o <<>>
  BY <1>3, <1>5, ReadAllTakes DEF all
<1>7. WriteAll(out, sizes) \in Seq(Byte)
  <2>1. out \in Seq(Nat)
    BY <1>5, <1>6 DEF AReader
  <2>2. Writable(out, sizes)
    BY <1>6, <2>1, LenProperties DEF Writable
  <2> QED
    BY <2>2, WriteAllType
<1>8. WriteAll(out, sizes) \o <<>> = WriteAll(out, sizes)
  BY <1>7, ConcatEmptySeq
<1> QED
  BY <1>3, <1>6, <1>8 DEF w, out

LEMMA SentType ==
  ASSUME NEW m \in Sendable
  PROVE  /\ Serialize(m) \in Seq(Byte)
         /\ Serialize(Narrowed(m)) = Serialize(m)
<1> DEFINE B == Seq(Byte)
<1>0. \A u, v \in B : u \o v \in B
  BY ConcatProperties
<1>a. <<kRequest>> \in B /\ <<kReply>> \in B /\ <<kPartyStart>> \in B
  BY TypesAreBytes
<1> HIDE DEF B
<1>1. ASSUME NEW t \in Tickets, m = Request(t)
      PROVE  Serialize(m) \in B /\ Serialize(Narrowed(m)) = Serialize(m)
  <2>1. m.type = kRequest
    BY <1>1 DEF Request
  <2>2. Narrowed(m) = m
    BY <2>1, TypesAreBytes DEF Narrowed
  <2>3. Serialize(m) \in B
    <3>1. LET fields == WriteAll(<<t.pid, t.ts>>, TicketSizes) IN
          fields \in B /\ Serialize(m) = <<kRequest>> \o fields
      BY <1>1, SerializeIs DEF B
    <3> QED
      BY <1>0, <1>a, <3>1
  <2> QED
    BY <2>2, <2>3
<1>2. ASSUME NEW s \in Tickets, NEW t \in Tickets, m = Reply(s, t)
      PROVE  Serialize(m) \in B /\ Serialize(Narrowed(m)) = Serialize(m)
  <2>1. m.type = kReply
    BY <1>2 DEF Reply
  <2>2. Narrowed(m) = m
    BY <2>1, TypesAreBytes DEF Narrowed
  <2>3. Serialize(m) \in B
    <3>1. LET fields == WriteAll(<<s.pid, s.ts, t.pid, t.ts>>, ReplySizes) IN
          fields \in B /\ Serialize(m) = <<kReply>> \o fields
      BY <1>2, SerializeIs DEF B
    <3> QED
      BY <1>0, <1>a, <3>1
  <2> QED
    BY <2>2, <2>3
<1>3. ASSUME NEW s \in Tickets, NEW id \in Nat, NEW pids \in Seq(Unsigned(PidSize)),
             Len(pids) \in Unsigned(CountSize), m = PartyStart(s, id, pids)
      PROVE  Serialize(m) \in B /\ Serialize(Narrowed(m)) = Serialize(m)
  <2> DEFINE count == Len(pids)
             small == id % Power[PartyIdSize]
             fields(i) == WriteAll(<<s.pid, s.ts, i, count>>, StartSizes)
             list == WriteAll(pids, PidSizes(count))
  <2>1. pids \in Seq(Nat) /\ small \in Nat
    <3>1. Unsigned(PidSize) \subseteq Nat
      BY SizesType, UnsignedFits
    <3>2. small \in Unsigned(PartyIdSize)
      BY SizesType, NarrowFits
    <3>3. small \in Nat
      BY <3>2, SizesType, UnsignedFits
    <3> QED
      BY <3>1, <3>3, SeqMonotonic
  <2>2. fields(small) = fields(id)
    <3> DEFINE values == <<s.pid, s.ts, id, count>>
               out == <<s.pid, s.ts, small, count>>
    <3>1. values \in Seq(Nat) /\ Len(values) = 4 /\ Narrow(values, StartSizes) = out
      BY <1>3, StartNarrowed
    <3> HIDE DEF values, out
    <3>2. StartSizes \in Seq(Nat) /\ Len(values) = Len(StartSizes)
      BY <3>1, SizesType
    <3>3. WriteAll(out, StartSizes) = WriteAll(values, StartSizes)
      BY <3>1, <3>2, WriteAllNarrowed
    <3> QED
      BY <3>3 DEF values, out
  <2>3. \A i \in Nat : /\ fields(i) \in B /\ list \in B
                       /\ Serialize(PartyStart(s, i, pids)) = <<kPartyStart>> \o (fields(i) \o list)
    BY <2>1, SerializeIs DEF B
  <2>4. Narrowed(m) = PartyStart(s, small, pids)
    <3>1. m.type = kPartyStart /\ m.id = id
      BY <1>3 DEF PartyStart
    <3>2. Narrowed(m) = [m EXCEPT !.id = small]
      BY <3>1 DEF Narrowed
    <3> HIDE DEF small
    <3> QED
      BY <1>3, <3>2 DEF PartyStart
  <2> HIDE DEF fields, list, small
  <2>5. Serialize(m) = <<kPartyStart>> \o (fields(id) \o list)
    BY <1>3, <2>3
  <2>6. Serialize(Narrowed(m)) = <<kPartyStart>> \o (fields(small) \o list)
    BY <2>1, <2>3, <2>4
  <2>7. Serialize(m) \in B
    <3>1. fields(id) \o list \in B
      BY <1>0, <2>3
    <3> QED
      BY <1>0, <1>a, <2>5, <3>1
  <2> QED
    BY <2>2, <2>5, <2>6, <2>7
<1> QED
  BY <1>1, <1>2, <1>3, SendableCases DEF B
-----------------------------------------------------------------------------
\* Buffers.

LEMMA PrefixOfConcat ==
  ASSUME NEW s \in Seq(Byte), NEW tail \in Seq(Byte)
  PROVE  IsPrefix(s, s \o tail)
<1> DEFINE all == s \o tail
           L == Len(s)
           a == SubSeq(s, 1, L)
           b == SubSeq(all, 1, L)
<1>1. /\ L \in Nat /\ Len(tail) \in Nat /\ Len(all) = L + Len(tail)
      /\ \A i \in 1 .. L : all[i] = s[i]
      /\ \A i \in 1 .. L : s[i] \in Byte
  BY ConcatProperties, LenProperties, ElementOfSeq
<1>2. a = s
  BY SubSeqFull
<1> HIDE DEF all, L
<1>3. /\ b \in Seq(Byte) /\ Len(b) = L /\ \A i \in 1 .. L : b[i] = all[i]
  <2>1. \A i \in 1 .. L : all[i] \in Byte
    BY <1>1
  <2>2. /\ b \in Seq(Byte)
        /\ Len(b) = IF 1 <= L THEN L - 1 + 1 ELSE 0
        /\ \A i \in 1 .. L - 1 + 1 : b[i] = all[1 + i - 1]
    BY <1>1, <2>1, SubSeqProperties
  <2> HIDE DEF b
  <2> QED
    BY <1>1, <2>2
<1> HIDE DEF a, b
<1>4. b = s
  BY <1>1, <1>3, SeqEqual DEF L
<1> QED
  BY <1>1, <1>2, <1>4 DEF IsPrefix, a, b, L, all

LEMMA CutInTwo ==
  ASSUME NEW s \in Seq(Byte), NEW n \in 0 .. Len(s) - 1
  PROVE  LET p == SubSeq(s, 1, n)
             v == SubSeq(s, n + 1, Len(s))
         IN  p \in Seq(Byte) /\ Len(p) = n /\ v \in Seq(Byte) /\ s = p \o v
<1> DEFINE L == Len(s)
           p == SubSeq(s, 1, n)
           v == SubSeq(s, n + 1, L)
<1>1. L \in Nat /\ \A i \in 1 .. L : s[i] \in Byte
  BY LenProperties, ElementOfSeq
<1>2. n \in Nat /\ n < L
  BY <1>1
<1>3. p \in Seq(Byte) /\ Len(p) = n
  <2>1. \A i \in 1 .. n : s[i] \in Byte
    BY <1>1, <1>2
  <2>2. /\ p \in Seq(Byte)
        /\ Len(p) = IF 1 <= n THEN n - 1 + 1 ELSE 0
    BY <1>2, <2>1, SubSeqProperties
  <2> HIDE DEF p
  <2> QED
    BY <1>2, <2>2
<1>4. v \in Seq(Byte)
  <2>1. \A i \in n + 1 .. L : s[i] \in Byte
    BY <1>1, <1>2
  <2> QED
    BY <1>1, <1>2, <2>1, SubSeqProperties
<1>5. p \o v = s
  <2>1. 1 \in 1 .. L + 1 /\ n \in 1 - 1 .. L /\ L \in n .. L
    BY <1>1, <1>2
  <2>2. p \o v = SubSeq(s, 1, L)
    BY <2>1, ConcatAdjacentSubSeq
  <2> QED
    BY <2>2, SubSeqFull
<1> QED
  BY <1>3, <1>4, <1>5
-----------------------------------------------------------------------------
\* What every state has: bytes, and what was sent is what they are made from.
IInv ==
  /\ data \in Seq(Byte)
  /\ sent \subseteq Sendable
  /\ \A m \in sent : data = Serialize(m)

LEMMA MessagesAreSendable == Messages \subseteq Sendable
<1> DEFINE P == Unsigned(PidSize)
<1>1. ASSUME NEW pids \in BoundedSeq(P, Participants)
      PROVE  pids \in Seq(P) /\ Len(pids) \in Unsigned(CountSize)
  <2>1. Participants \in Nat /\ \A k \in 0 .. Participants : k \in Unsigned(CountSize)
    <3>1. Participants \in Unsigned(CountSize)
      BY WireCheckAssumption
    <3>2. Power[CountSize] \in Nat
      BY SizesType, PowerLaws
    <3> QED
      BY <3>1, <3>2 DEF Unsigned
  <2>2. PICK k \in 0 .. Participants : pids \in [1 .. k -> P]
    BY DEF BoundedSeq, SeqOf
  <2>3. k \in Nat
    BY <2>1
  <2> HIDE DEF P
  <2>4. pids \in Seq(P) /\ Len(pids) = k
    BY <2>2, <2>3, FunctionIsSeq
  <2> QED
    BY <2>1, <2>4
<1>2. \A id \in 0 .. WidestId : id \in Nat
  BY WireCheckAssumption
<1> QED
  BY <1>1, <1>2 DEF Messages, Sendable

LEMMA BuffersHoldMessages == Spec => []IInv
<1>1. Init => IInv
  <2>1. <<>> \in Seq(Byte)
    BY EmptySeq
  <2> QED
    BY <2>1 DEF Init, IInv
<1>2. IInv /\ [Next]_vars => IInv'
  <2> SUFFICES ASSUME IInv, [Next]_vars PROVE IInv'
    OBVIOUS
  <2>1. CASE Transmit
    <3>1. PICK m \in Messages : sent' = {m} /\ data' = Serialize(m)
      BY <2>1 DEF Transmit
    <3>2. m \in Sendable
      BY MessagesAreSendable
    <3>3. Serialize(m) \in Seq(Byte)
      BY <3>2, SentType
    <3> QED
      BY <3>1, <3>2, <3>3 DEF IInv
  <2>2. CASE AnyByte
    <3>1. PICK b \in Byte : data' = Append(data, b)
      BY <2>2 DEF AnyByte
    <3>2. sent = {} /\ sent' = {}
      BY <2>2 DEF AnyByte
    <3>3. Append(data, b) \in Seq(Byte)
      BY AppendProperties DEF IInv
    <3> QED
      BY <3>1, <3>2, <3>3 DEF IInv
  <2>3. CASE UNCHANGED vars
    BY <2>3 DEF vars, IInv
  <2> QED
    BY <2>1, <2>2, <2>3 DEF Next
<1> QED
  BY <1>1, <1>2, PTL DEF Spec

\* Every message that is sent is decoded to itself, the id of a party narrowed,
\* unless Deserialize refuses the length of its list (wire_protocol.cpp:14-95).
THEOREM SentIsDecoded == Spec => []RoundTrip
<1>1. IInv => RoundTrip
  <2> SUFFICES ASSUME IInv, NEW m \in sent
               PROVE  Deserialize(data) = IF TooLong(m) THEN {} ELSE {Narrowed(m)}
    BY DEF RoundTrip, TooLong
  <2>1. m \in Sendable /\ data = Serialize(m)
    BY DEF IInv
  <2>2. <<>> \in Seq(Byte) /\ Serialize(m) \o <<>> = Serialize(m)
    BY <2>1, SentType, EmptySeq, ConcatEmptySeq
  <2> QED
    BY <2>1, <2>2, SentDecodes
<1> QED
  BY <1>1, BuffersHoldMessages, PTL

\* Whatever message comes out of a buffer, the buffer begins with its bytes
\* (wire_protocol.cpp:47-95).
THEOREM DecodedWasWritten == Spec => []NothingInvented
<1>1. IInv => NothingInvented
  <2> SUFFICES ASSUME IInv, NEW m \in Deserialize(data)
               PROVE  IsPrefix(Serialize(m), data)
    BY DEF NothingInvented
  <2> DEFINE s == Serialize(m)
  <2>1. data \in Seq(Byte)
    BY DEF IInv
  <2>2. PICK tail \in Seq(Byte) : m \in Sendable /\ data = s \o tail
    BY <2>1, DecodedIsWritten DEF IsWritten
  <2>3. s \in Seq(Byte)
    BY <2>2, SentType
  <2> HIDE DEF s
  <2> QED
    BY <2>2, <2>3, PrefixOfConcat DEF s
<1> QED
  BY <1>1, BuffersHoldMessages, PTL

\* A message cut short is refused, wherever it is cut: a shorter message that is
\* decoded would also be decoded from the whole buffer, and it is not shorter
\* (byte_io.hpp:61-79).
THEOREM CutIsRefused == Spec => []TruncationIsDetected
<1>1. IInv => TruncationIsDetected
  <2> SUFFICES ASSUME IInv, NEW m \in sent, NEW n \in 0 .. Len(data) - 1,
                      NEW x \in Deserialize(SubSeq(data, 1, n))
               PROVE  FALSE
    BY DEF TruncationIsDetected
  <2> DEFINE p == SubSeq(data, 1, n)
             v == SubSeq(data, n + 1, Len(data))
  <2>1. m \in Sendable /\ data = Serialize(m) /\ data \in Seq(Byte) /\ Len(data) \in Nat
    BY LenProperties DEF IInv
  <2>2. p \in Seq(Byte) /\ Len(p) = n /\ v \in Seq(Byte) /\ data = p \o v
    BY <2>1, CutInTwo
  <2> HIDE DEF p, v
  <2>3. PICK u \in Seq(Byte) : x \in Sendable /\ Narrowed(x) = x /\ p = Serialize(x) \o u
    BY <2>2, DecodedIsWritten DEF p, IsWritten
  <2>4. ~ TooLong(x)
    BY <2>3, SentDecodes DEF p
  <2>5. Serialize(x) \in Seq(Byte)
    BY <2>3, SentType
  <2>6. u \o v \in Seq(Byte) /\ data = Serialize(x) \o (u \o v)
    <3>1. (Serialize(x) \o u) \o v = Serialize(x) \o (u \o v)
      BY <2>2, <2>5, BytesAssociate, Zenon
    <3> QED
      BY <2>2, <2>3, <3>1, ConcatProperties
  <2>7. Deserialize(data) = {x}
    BY <2>3, <2>4, <2>6, SentDecodes
  <2>8. x = Narrowed(m)
    <3>1. <<>> \in Seq(Byte) /\ data \o <<>> = data
      BY <2>1, EmptySeq, ConcatEmptySeq
    <3>2. Deserialize(data) = IF TooLong(m) THEN {} ELSE {Narrowed(m)}
      BY <2>1, <3>1, SentDecodes
    <3> QED
      BY <2>7, <3>2
  <2>9. Serialize(x) = data
    BY <2>1, <2>8, SentType
  <2>10. Len(p) = Len(data) + Len(u) /\ Len(u) \in Nat
    BY <2>1, <2>3, <2>9, ConcatProperties, LenProperties
  <2> QED
    BY <2>1, <2>2, <2>10
<1> QED
  BY <1>1, BuffersHoldMessages, PTL
=============================================================================
