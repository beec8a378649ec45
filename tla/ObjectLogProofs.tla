--------------------------- MODULE ObjectLogProofs ---------------------------
(* The object log can be read whole and in order at every step, for every  *)
(* size of the ring and of fragments and every set of objects.             *)
EXTENDS ObjectLog, SequenceTheorems, WellFoundedInduction, TLAPS

-----------------------------------------------------------------------------
(* Induction over the natural numbers, for sets of them, and the functions *)
(* that recursion over 0 .. n defines.                                     *)
LEMMA LeastOf ==
  ASSUME NEW T \in SUBSET Nat, T # {}
  PROVE  \E m \in T : \A k \in T : m <= k
<1> DEFINE R == {p \in Nat \X Nat : p[1] < p[2]}
<1>1. IsWellFoundedOn(R, Nat)
  <2>1. OpToRel(<, Nat) = R
    BY Zenon DEF OpToRel
  <2>2. QED
    BY <2>1, NatLessThanWellFounded
<1>2. \E x \in T : \A y \in T : ~ (<<y, x>> \in R)
  <2> HIDE DEF R
  <2>1. QED
    BY <1>1, WFMin
<1>3. PICK x \in T : \A y \in T : ~ (<<y, x>> \in R)
  BY <1>2
<1>4. ASSUME NEW y \in T PROVE x <= y
  <2>1. x \in Nat /\ y \in Nat
    OBVIOUS
  <2>2. y < x => <<y, x>> \in R
    BY <2>1
  <2> HIDE DEF R
  <2>3. QED
    BY <1>3, <2>1, <2>2
<1>5. QED
  BY <1>4

LEMMA Induct ==
  ASSUME NEW T \in SUBSET Nat, 0 \in T, \A n \in T : n + 1 \in T
  PROVE  T = Nat
<1>1. SUFFICES ASSUME Nat \ T # {} PROVE FALSE
  OBVIOUS
<1>2. PICK m \in Nat \ T : \A k \in Nat \ T : m <= k
  BY <1>1, LeastOf
<1>3. m # 0 /\ m - 1 \in Nat
  BY <1>2
<1>4. m - 1 \notin Nat \ T
  BY <1>2, <1>3
<1>5. (m - 1) + 1 = m
  BY <1>2
<1>6. QED
  BY <1>2, <1>3, <1>4, <1>5

Recurs(f, D, z, step, n) ==
  f \in [0 .. n -> D] /\ f[0] = z /\ \A k \in 1 .. n : f[k] = step[k][f[k - 1]]

LEMMA Recursion ==
  ASSUME NEW D, NEW z \in D, NEW step \in [Nat \ {0} -> [D -> D]], NEW n \in Nat
  PROVE  \E f : Recurs(f, D, z, step, n)
<1> DEFINE T == {m \in Nat : \E f : Recurs(f, D, z, step, m)}
<1>1. 0 \in T
  <2> DEFINE f == [k \in 0 .. 0 |-> z]
  <2>1. f \in [0 .. 0 -> D] /\ f[0] = z
    OBVIOUS
  <2> HIDE DEF f
  <2>2. \A k \in 1 .. 0 : f[k] = step[k][f[k - 1]]
    OBVIOUS
  <2>3. Recurs(f, D, z, step, 0)
    BY <2>1, <2>2 DEF Recurs
  <2>4. QED
    BY <2>3
<1>2. ASSUME NEW m \in T PROVE m + 1 \in T
  <2>1. PICK f \in [0 .. m -> D] :
          f[0] = z /\ \A k \in 1 .. m : f[k] = step[k][f[k - 1]]
    BY DEF Recurs
  <2> DEFINE g == [k \in 0 .. m + 1 |-> IF k <= m THEN f[k] ELSE step[k][f[m]]]
  <2>2. m \in Nat /\ m + 1 \in Nat \ {0} /\ ~(m + 1 <= m) /\ m \in 0 .. m /\ 0 \in 0 .. m
    OBVIOUS
  <2>3. step[m + 1][f[m]] \in D
    BY <2>2
  <2>4. g \in [0 .. m + 1 -> D]
    <3>1. ASSUME NEW k \in 0 .. m + 1 PROVE (IF k <= m THEN f[k] ELSE step[k][f[m]]) \in D
      <4>1. CASE k <= m
        BY <2>2, <4>1
      <4>2. CASE ~(k <= m)
        <5>1. k = m + 1
          BY <2>2, <4>2
        <5>2. QED
          BY <2>3, <4>2, <5>1
      <4>3. QED
        BY <4>1, <4>2
    <3>2. QED
      BY <3>1
  <2>5. /\ \A k \in 0 .. m : g[k] = f[k]
        /\ g[m + 1] = step[m + 1][f[m]]
    <3>1. \A k \in 0 .. m : k \in 0 .. m + 1 /\ k <= m
      BY <2>2
    <3>2. m + 1 \in 0 .. m + 1
      BY <2>2
    <3>3. QED
      BY <2>2, <3>1, <3>2
  <2> HIDE DEF g
  <2>6. ASSUME NEW k \in 1 .. m + 1 PROVE g[k] = step[k][g[k - 1]]
    <3>1. CASE k = m + 1
      <4>1. k - 1 = m
        BY <2>2, <3>1
      <4>2. QED
        BY <2>2, <2>5, <3>1, <4>1
    <3>2. CASE k # m + 1
      <4>1. k \in 1 .. m /\ k \in 0 .. m /\ k - 1 \in 0 .. m
        BY <2>2, <3>2
      <4>2. QED
        BY <2>1, <2>5, <4>1
    <3>3. QED
      BY <3>1, <3>2
  <2>7. g[0] = z
    BY <2>1, <2>2, <2>5
  <2>8. Recurs(g, D, z, step, m + 1)
    BY <2>4, <2>6, <2>7 DEF Recurs
  <2>9. QED
    BY <2>2, <2>8
<1>3. T \in SUBSET Nat
  OBVIOUS
<1> HIDE DEF T
<1>4. n \in T
  BY <1>1, <1>2, <1>3, Induct
<1>5. QED
  BY <1>4 DEF T

-----------------------------------------------------------------------------
(* Arithmetic of the ring                                                  *)

(* The position x bytes after a.                                           *)
At(a, x) == IF a + x < Size THEN a + x ELSE a + x - Size

LEMMA Modulo ==
  ASSUME NEW x \in Int, -Size <= x, x < 2 * Size
  PROVE  x % Size = IF x < 0 THEN x + Size ELSE IF x < Size THEN x ELSE x - Size
<1>1. Size \in Nat /\ Size > 1
  BY Sizes
<1>2. CASE x < 0
  <2>1. x = (-1) * Size + (x + Size) /\ x + Size \in 0 .. Size - 1
    BY <1>1, <1>2
  <2>2. QED
    BY <1>1, <1>2, <2>1
<1>3. CASE x >= 0 /\ x < Size
  BY <1>1, <1>3
<1>4. CASE x >= Size
  <2>1. x = 1 * Size + (x - Size) /\ x - Size \in 0 .. Size - 1
    BY <1>1, <1>4
  <2>2. QED
    BY <1>1, <1>4, <2>1
<1>5. QED
  BY <1>1, <1>2, <1>3, <1>4

(* The number of full fragments.                                           *)
Ceil(d) == DivRoundUp(d, MAX_FRAGMENT_LEN)

LEMMA CeilIs ==
  ASSUME NEW d \in Nat
  PROVE  /\ Ceil(d) \in Nat
         /\ d <= Ceil(d) * MAX_FRAGMENT_LEN
         /\ Ceil(d) * MAX_FRAGMENT_LEN < d + MAX_FRAGMENT_LEN
<1> DEFINE M == MAX_FRAGMENT_LEN
           q == (d + M - 1) \div M
<1>1. M \in Nat \ {0}
  BY Sizes
<1>2. d + M - 1 \in Nat
  BY <1>1
<1>3. \A x \in Nat, m \in Nat \ {0} : /\ x \div m \in Nat
                                      /\ (x \div m) * m <= x
                                      /\ x < (x \div m) * m + m
  OBVIOUS
<1>4. q \in Nat /\ q * M <= d + M - 1 /\ d + M - 1 < q * M + M
  BY <1>1, <1>2, <1>3
<1>5. q * M \in Int
  BY <1>1, <1>4
<1> HIDE DEF q
<1>6. Ceil(d) = q
  BY DEF Ceil, DivRoundUp, q
<1>7. PICK t \in Int : t = q * M
  BY <1>5
<1>8. d <= t /\ t < d + M
  BY <1>1, <1>4, <1>7
<1>9. QED
  BY <1>4, <1>6, <1>7, <1>8

LEMMA CeilUnique ==
  ASSUME NEW d \in Nat, NEW q \in Nat,
         d <= q * MAX_FRAGMENT_LEN, q * MAX_FRAGMENT_LEN < d + MAX_FRAGMENT_LEN
  PROVE  Ceil(d) = q
<1> DEFINE M == MAX_FRAGMENT_LEN
<1>1. M \in Nat \ {0}
  BY Sizes
<1>2. PICK p \in Nat : p = Ceil(d) /\ d <= p * M /\ p * M < d + M
  BY CeilIs
<1>3. \A a, b \in Nat : a < b => a * M + M <= b * M
  <2> SUFFICES ASSUME NEW a \in Nat, NEW b \in Nat, a < b PROVE a * M + M <= b * M
    OBVIOUS
  <2>1. PICK e \in Nat : b = a + 1 + e
    <3>1. b - a - 1 \in Nat /\ b = a + 1 + (b - a - 1)
      OBVIOUS
    <3>2. QED
      BY <3>1
  <2>2. b * M = a * M + M + e * M /\ e * M \in Nat /\ a * M \in Nat
    BY <1>1, <2>1
  <2>3. QED
    BY <1>1, <2>2
<1>4. PICK s \in Nat, t \in Nat : s = q * M /\ t = p * M
  BY <1>1
<1>5. (q < p => s + M <= t) /\ (p < q => t + M <= s)
  BY <1>2, <1>3, <1>4
<1>6. d <= s /\ s < d + M /\ d <= t /\ t < d + M
  BY <1>2, <1>4
<1>7. ~(q < p) /\ ~(p < q)
  BY <1>1, <1>5, <1>6
<1>8. QED
  BY <1>2, <1>7

LEMMA CeilSteps ==
  ASSUME NEW d \in Nat
  PROVE  /\ Ceil(d) \in Nat
         /\ Ceil(0) = 0
         /\ d > 0 => Ceil(d) > 0
         /\ d >= MAX_FRAGMENT_LEN => Ceil(d) = Ceil(d - MAX_FRAGMENT_LEN) + 1
         /\ \A b \in 0 .. d : Ceil(b) <= Ceil(d)
<1> DEFINE M == MAX_FRAGMENT_LEN
<1>1. M \in Nat \ {0}
  BY Sizes
<1>2. Ceil(d) \in Nat
  BY CeilIs
<1>3. Ceil(0) = 0
  <2>1. 0 * M = 0
    BY <1>1
  <2>2. QED
    BY <1>1, <2>1, CeilUnique
<1>4. ASSUME d > 0 PROVE Ceil(d) > 0
  <2>1. CASE Ceil(d) = 0
    <3>1. d <= 0 * M /\ 0 * M = 0
      BY <1>1, <2>1, CeilIs
    <3>2. QED
      BY <1>4, <3>1
  <2>2. QED
    BY <1>2, <2>1
<1>5. ASSUME d >= M PROVE Ceil(d) = Ceil(d - M) + 1
  <2>1. PICK b \in Nat : b = d - M
    BY <1>1, <1>5
  <2>2. PICK q \in Nat : q = Ceil(b) /\ b <= q * M /\ q * M < b + M
    BY CeilIs
  <2>3. (q + 1) * M = q * M + M
    BY <1>1
  <2>4. PICK t \in Nat : t = q * M
    BY <1>1
  <2>5. d <= t + M /\ t + M < d + M
    BY <1>1, <2>1, <2>2, <2>4
  <2>6. Ceil(d) = q + 1
    BY <2>3, <2>4, <2>5, CeilUnique
  <2>7. QED
    BY <2>1, <2>2, <2>6
<1>6. ASSUME NEW b \in 0 .. d PROVE Ceil(b) <= Ceil(d)
  <2>1. PICK p \in Nat, q \in Nat :
          /\ p = Ceil(b) /\ b <= p * M /\ p * M < b + M
          /\ q = Ceil(d) /\ d <= q * M /\ q * M < d + M
    BY CeilIs
  <2>2. ASSUME q < p PROVE FALSE
    <3>1. PICK e \in Nat : p = q + 1 + e
      <4>1. p - q - 1 \in Nat /\ p = q + 1 + (p - q - 1)
        BY <2>2
      <4>2. QED
        BY <4>1
    <3>2. p * M = q * M + M + e * M /\ e * M \in Nat
      BY <1>1, <3>1
    <3>3. PICK s \in Nat, t \in Nat, r \in Nat : s = q * M /\ t = p * M /\ r = e * M
      BY <1>1
    <3>4. t = s + M + r /\ t < b + M /\ d <= s /\ b <= d
      BY <2>1, <3>2, <3>3
    <3>5. QED
      BY <1>1, <3>3, <3>4
  <2>3. QED
    BY <2>1, <2>2
<1>7. QED
  BY <1>2, <1>3, <1>4, <1>5, <1>6

(* The bytes it takes to write d bytes from pos on: their fragments, and   *)
(* one header more if they reach the end of the ring.                      *)
Need(pos, d) == d + Ceil(d) + IF pos + d + Ceil(d) > Size THEN 1 ELSE 0

(* One fragment takes what it takes, and leaves enough for the rest.       *)
LEMMA NeedStep ==
  ASSUME NEW p \in Ring, NEW d \in Nat \ {0}, Need(p, d) <= Size,
         NEW t, t = Least(d, Least(MAX_FRAGMENT_LEN, Size - p - 1))
  PROVE  /\ t \in 0 .. d /\ t <= MAX_FRAGMENT_LEN /\ p + 1 + t <= Size
         /\ Need(At(p, 1 + t), d - t) \in Nat
         /\ Need(At(p, 1 + t), d - t) + 1 + t <= Need(p, d)
<1> DEFINE M == MAX_FRAGMENT_LEN
           b == d - t
<1>1. M \in Nat \ {0} /\ Size \in Nat /\ Size > 1 /\ p \in 0 .. Size - 1
  BY Sizes DEF Ring
<1>2. t \in 0 .. d /\ t <= M /\ p + 1 + t <= Size /\ (t = d \/ t = M \/ t = Size - p - 1)
  BY <1>1 DEF Least
<1>3. b \in Nat /\ b <= d
  BY <1>2
<1>4. PICK k \in Nat, l \in Nat : k = Ceil(d) /\ l = Ceil(b) /\ k > 0 /\ l <= k
  <2>1. Ceil(d) \in Nat /\ Ceil(d) > 0 /\ Ceil(b) <= Ceil(d)
    BY <1>3, CeilSteps
  <2>2. Ceil(b) \in Nat
    BY <1>3, CeilSteps
  <2>3. QED
    BY <2>1, <2>2
<1>5. PICK q : q = At(p, 1 + t)
  OBVIOUS
<1>6. q = IF p + 1 + t < Size THEN p + 1 + t ELSE 0
  BY <1>1, <1>2, <1>5 DEF At
<1>7. /\ Need(p, d) = d + k + IF p + d + k > Size THEN 1 ELSE 0
      /\ Need(q, b) = b + l + IF q + b + l > Size THEN 1 ELSE 0
  BY <1>4 DEF Need
<1>8. d + k <= Size /\ (p + d + k > Size => d + k + 1 <= Size)
  BY <1>1, <1>7
<1>9. CASE t = d
  <2>1. b = 0 /\ l = 0
    BY <1>4, <1>9, CeilSteps
  <2>2. Need(q, b) = 0
    <3>1. q \in Nat /\ q <= Size
      BY <1>1, <1>2, <1>6
    <3> HIDE DEF b
    <3>2. ~(q + b + l > Size)
      BY <1>1, <2>1, <3>1
    <3>3. QED
      BY <1>7, <2>1, <3>2
  <2>3. QED
    BY <1>1, <1>2, <1>4, <1>5, <1>7, <1>9, <2>2
<1>10. CASE t # d /\ t = M
  <2>1. k = l + 1
    <3>1. d >= M
      BY <1>2, <1>10
    <3>2. QED
      BY <1>4, <1>10, <3>1, CeilSteps
  <2>2. b > 0 /\ l > 0
    <3>1. b > 0
      BY <1>2, <1>10
    <3>2. QED
      BY <1>3, <1>4, <3>1, CeilSteps
  <2>3. Need(q, b) + 1 + t <= Need(p, d) /\ Need(q, b) \in Nat
    <3> HIDE DEF b
    <3>1. d = b + t
      BY <1>2 DEF b
    <3>2. QED
      BY <1>1, <1>2, <1>3, <1>6, <1>7, <1>8, <2>1, <2>2, <3>1
  <2>4. QED
    BY <1>2, <1>5, <2>3
<1>11. CASE t # d /\ t # M
  <2>1. t = Size - p - 1 /\ q = 0
    BY <1>1, <1>2, <1>6, <1>11
  <2>2. b > 0
    BY <1>2, <1>11
  <2>3. Need(q, b) + 1 + t <= Need(p, d) /\ Need(q, b) \in Nat
    <3> HIDE DEF b
    <3>1. d = b + t
      BY <1>2 DEF b
    <3>2. QED
      BY <1>1, <1>2, <1>3, <1>4, <1>7, <1>8, <2>1, <2>2, <3>1
  <2>4. QED
    BY <1>2, <1>5, <2>3
<1>12. QED
  BY <1>9, <1>10, <1>11

-----------------------------------------------------------------------------
(* Sums and concatenations of lists, from the front.                       *)
Sums(f, s, n) ==
  f \in [0 .. n -> Nat] /\ f[0] = 0 /\ \A i \in 1 .. n : f[i] = f[i - 1] + s[i]

LEMMA SumIs ==
  ASSUME NEW s \in Seq(Nat)
  PROVE  \E f : Sums(f, s, Len(s)) /\ LenOf(s) = f[Len(s)]
<1> DEFINE n == Len(s)
<1>1. n \in Nat /\ \A i \in 1 .. n : s[i] \in Nat
  OBVIOUS
<1> DEFINE step == [k \in Nat \ {0} |-> [v \in Nat |-> IF k <= n THEN v + s[k] ELSE v]]
<1>2. step \in [Nat \ {0} -> [Nat -> Nat]]
  <2>1. ASSUME NEW k \in Nat \ {0}, NEW v \in Nat
        PROVE  (IF k <= n THEN v + s[k] ELSE v) \in Nat
    <3>1. k <= n => k \in 1 .. n
      BY <1>1
    <3>2. QED
      BY <1>1, <3>1
  <2>2. QED
    BY <2>1
<1>3. \A k \in 1 .. n, v \in Nat : step[k][v] = v + s[k]
  BY <1>1
<1> HIDE DEF step
<1>4. PICK f \in [0 .. n -> Nat] :
        f[0] = 0 /\ \A k \in 1 .. n : f[k] = step[k][f[k - 1]]
  <2>1. PICK D, z, st : D = Nat /\ z = 0 /\ st = step
    OBVIOUS
  <2>2. PICK m \in Nat : m = n
    BY <1>1
  <2>3. z \in D /\ st \in [Nat \ {0} -> [D -> D]]
    BY <1>2, <2>1
  <2>4. PICK f : Recurs(f, D, z, st, m)
    BY <2>3, Recursion, Zenon
  <2>5. QED
    BY <2>1, <2>2, <2>4 DEF Recurs
<1>5. ASSUME NEW k \in 0 .. n
      PROVE  f[k] = IF k = 0 THEN 0 ELSE f[k - 1] + s[k]
  <2>1. ASSUME k # 0 PROVE f[k] = f[k - 1] + s[k]
    <3>1. k \in 1 .. n /\ k - 1 \in 0 .. n
      BY <1>1, <2>1
    <3>2. f[k - 1] \in Nat
      BY <1>4, <3>1
    <3>3. QED
      BY <1>3, <1>4, <3>1, <3>2
  <2>2. QED
    BY <1>4, <2>1
<1>6. f = [i \in 0 .. n |-> IF i = 0 THEN 0 ELSE f[i - 1] + s[i]]
  <2>1. f = [i \in 0 .. n |-> f[i]]
    BY <1>4
  <2>2. QED
    BY <1>5, <2>1
<1> DEFINE G == CHOOSE g : g = [i \in 0 .. Len(s) |-> IF i = 0 THEN 0 ELSE g[i - 1] + s[i]]
<1>7. G = [i \in 0 .. n |-> IF i = 0 THEN 0 ELSE G[i - 1] + s[i]]
  BY <1>6
<1>8. LenOf(s) = G[n]
  BY DEF LenOf
<1> HIDE DEF G
<1>9. G[0] = 0 /\ \A i \in 1 .. n : G[i] = G[i - 1] + s[i]
  <2>1. 0 \in 0 .. n
    BY <1>1
  <2>2. ASSUME NEW i \in 1 .. n PROVE i \in 0 .. n /\ i # 0
    OBVIOUS
  <2>3. QED
    BY <1>7, <2>1, <2>2
<1>10. G \in [0 .. n -> Nat]
  <2> DEFINE T == {k \in Nat : k <= n => G[k] \in Nat}
  <2>1. 0 \in T
    BY <1>9
  <2>2. ASSUME NEW k \in T PROVE k + 1 \in T
    <3>1. k \in Nat /\ k + 1 \in Nat /\ (k + 1) - 1 = k
      OBVIOUS
    <3>2. ASSUME k + 1 <= n PROVE G[k + 1] \in Nat
      <4>1. k + 1 \in 1 .. n /\ k <= n
        BY <1>1, <3>1, <3>2
      <4>2. G[k] \in Nat /\ s[k + 1] \in Nat /\ G[k + 1] = G[k] + s[k + 1]
        BY <1>1, <1>9, <3>1, <4>1
      <4>3. QED
        BY <4>2
    <3>3. QED
      BY <3>1, <3>2
  <2>3. T \in SUBSET Nat
    OBVIOUS
  <2> HIDE DEF T
  <2>4. T = Nat
    BY <2>1, <2>2, <2>3, Induct
  <2>5. ASSUME NEW k \in 0 .. n PROVE G[k] \in Nat
    BY <1>1, <2>4 DEF T
  <2>6. G = [i \in 0 .. n |-> G[i]]
    BY <1>7
  <2>7. QED
    BY <2>5, <2>6
<1>11. QED
  BY <1>8, <1>9, <1>10 DEF Sums

LEMMA SumType ==
  ASSUME NEW s \in Seq(Nat)
  PROVE  LenOf(s) \in Nat /\ LenOf(<<>>) = 0
<1>1. LenOf(s) \in Nat
  <2>1. PICK f : Sums(f, s, Len(s)) /\ LenOf(s) = f[Len(s)]
    BY SumIs
  <2>2. Len(s) \in 0 .. Len(s)
    BY LenProperties
  <2>3. QED
    BY <2>1, <2>2 DEF Sums
<1>2. LenOf(<<>>) = 0
  <2>1. <<>> \in Seq(Nat) /\ Len(<<>>) = 0
    OBVIOUS
  <2>2. PICK f : Sums(f, <<>>, 0) /\ LenOf(<<>>) = f[0]
    BY <2>1, SumIs
  <2>3. QED
    BY <2>2 DEF Sums
<1>3. QED
  BY <1>1, <1>2

LEMMA SumCons ==
  ASSUME NEW h \in Nat, NEW t \in Seq(Nat)
  PROVE  LenOf(<<h>> \o t) = h + LenOf(t)
<1> DEFINE s == <<h>> \o t
           n == Len(t)
<1>1. n \in Nat /\ \A i \in 1 .. n : t[i] \in Nat
  OBVIOUS
<1>2. s \in Seq(Nat) /\ Len(s) = n + 1 /\ s[1] = h /\ \A i \in 1 .. n : s[i + 1] = t[i]
  <2>1. <<h>> \in Seq(Nat) /\ Len(<<h>>) = 1 /\ <<h>>[1] = h
    OBVIOUS
  <2>2. /\ s \in Seq(Nat) /\ Len(s) = 1 + n
        /\ \A i \in 1 .. 1 + n : s[i] = IF i <= 1 THEN <<h>>[i] ELSE t[i - 1]
    BY <2>1, ConcatProperties
  <2> HIDE DEF s
  <2>3. ASSUME NEW i \in 1 .. n PROVE s[i + 1] = t[i]
    <3>1. i + 1 \in 1 .. 1 + n /\ ~(i + 1 <= 1) /\ (i + 1) - 1 = i
      BY <1>1
    <3>2. QED
      BY <2>2, <3>1
  <2>4. 1 \in 1 .. 1 + n /\ 1 <= 1 /\ n + 1 = 1 + n
    BY <1>1
  <2>5. QED
    BY <2>1, <2>2, <2>3, <2>4
<1> HIDE DEF s, n
<1>3. PICK f : Sums(f, s, n + 1) /\ LenOf(s) = f[n + 1]
  BY <1>2, SumIs
<1>4. PICK g : Sums(g, t, n) /\ LenOf(t) = g[n]
  BY SumIs DEF n
<1> DEFINE T == {k \in Nat : k <= n => f[k + 1] = h + g[k]}
<1>5. 0 \in T
  <2>1. 1 \in 1 .. n + 1 /\ 1 - 1 = 0 /\ 0 + 1 = 1
    BY <1>1
  <2>2. f[1] = f[0] + s[1] /\ f[0] = 0 /\ g[0] = 0
    BY <1>3, <1>4, <2>1 DEF Sums
  <2>3. f[0 + 1] = h + g[0]
    BY <1>2, <2>1, <2>2
  <2>4. QED
    BY <2>3
<1>6. ASSUME NEW k \in T PROVE k + 1 \in T
  <2>1. k \in Nat /\ k + 1 \in Nat
    OBVIOUS
  <2>2. ASSUME k + 1 <= n PROVE f[(k + 1) + 1] = h + g[k + 1]
    <3>1. /\ k + 1 \in 1 .. n /\ (k + 1) - 1 = k /\ k <= n
          /\ (k + 1) + 1 \in 1 .. n + 1 /\ ((k + 1) + 1) - 1 = k + 1
      BY <1>1, <2>1, <2>2
    <3>2. f[k + 1] = h + g[k]
      BY <2>1, <3>1
    <3>3. /\ g[k + 1] = g[k] + t[k + 1]
          /\ f[(k + 1) + 1] = f[k + 1] + s[(k + 1) + 1]
      BY <1>3, <1>4, <3>1 DEF Sums
    <3>4. s[(k + 1) + 1] = t[k + 1] /\ t[k + 1] \in Nat
      BY <1>1, <1>2, <3>1
    <3>5. g[k] \in Nat
      <4>1. k \in 0 .. n
        BY <1>1, <2>1, <3>1
      <4>2. QED
        BY <1>4, <4>1 DEF Sums
    <3>6. PICK a \in Nat, b \in Nat : a = g[k] /\ b = t[k + 1]
      BY <3>4, <3>5
    <3>7. f[(k + 1) + 1] = (h + a) + b /\ g[k + 1] = a + b
      BY <3>2, <3>3, <3>4, <3>6
    <3>8. (h + a) + b = h + (a + b)
      BY <3>6
    <3>9. QED
      BY <3>7, <3>8
  <2>3. QED
    BY <2>1, <2>2
<1>7. T \in SUBSET Nat
  OBVIOUS
<1> HIDE DEF T
<1>8. n \in T
  BY <1>1, <1>5, <1>6, <1>7, Induct
<1>9. f[n + 1] = h + g[n]
  BY <1>1, <1>8 DEF T
<1>10. QED
  BY <1>3, <1>4, <1>9 DEF s

(* A list of differences.                                                  *)
LEMMA SumBetween ==
  ASSUME NEW s \in Seq(Nat), NEW off \in [1 .. Len(s) + 1 -> Nat], off[1] = 0,
         \A i \in 1 .. Len(s) : s[i] = off[i + 1] - off[i]
  PROVE  LenOf(s) = off[Len(s) + 1]
<1> DEFINE n == Len(s)
<1>1. n \in Nat
  OBVIOUS
<1>2. PICK f : Sums(f, s, n) /\ LenOf(s) = f[n]
  BY SumIs
<1> HIDE DEF n
<1> DEFINE T == {k \in Nat : k <= n => f[k] = off[k + 1]}
<1>3. 0 \in T
  <2>1. f[0] = 0 /\ 0 + 1 = 1
    BY <1>2 DEF Sums
  <2>2. QED
    BY <2>1
<1>4. ASSUME NEW k \in T PROVE k + 1 \in T
  <2>1. k \in Nat /\ k + 1 \in Nat
    OBVIOUS
  <2>2. ASSUME k + 1 <= n PROVE f[k + 1] = off[(k + 1) + 1]
    <3>1. k + 1 \in 1 .. n /\ (k + 1) - 1 = k /\ k <= n
      BY <1>1, <2>1, <2>2
    <3>2. f[k + 1] = f[k] + s[k + 1] /\ f[k] = off[k + 1]
      BY <1>2, <2>1, <3>1 DEF Sums
    <3>3. s[k + 1] = off[(k + 1) + 1] - off[k + 1]
      BY <3>1 DEF n
    <3>4. off[k + 1] \in Nat /\ off[(k + 1) + 1] \in Nat
      <4>1. k + 1 \in 1 .. n + 1 /\ (k + 1) + 1 \in 1 .. n + 1
        BY <1>1, <3>1
      <4>2. QED
        BY <4>1 DEF n
    <3>5. PICK a \in Nat, b \in Nat : a = off[k + 1] /\ b = off[(k + 1) + 1]
      BY <3>4
    <3>6. f[k + 1] = a + (b - a)
      BY <3>2, <3>3, <3>5
    <3>7. QED
      BY <3>5, <3>6
  <2>3. QED
    BY <2>1, <2>2
<1>5. T \in SUBSET Nat
  OBVIOUS
<1> HIDE DEF T
<1>6. n \in T
  BY <1>1, <1>3, <1>4, <1>5, Induct
<1>7. QED
  BY <1>1, <1>2, <1>6 DEF T, n

(* What FlattenSeq works with, and that there is such a function.          *)
Flattens(f, seqs, n) ==
  f = [i \in 1 .. n |-> IF i = 1 THEN seqs[i] ELSE f[i - 1] \o seqs[i]]

LEMMA FlattenExists ==
  ASSUME NEW seqs, NEW n \in Nat
  PROVE  \E f : Flattens(f, seqs, n)
<1> DEFINE T == {k \in Nat : \E f : Flattens(f, seqs, k)}
<1>1. 0 \in T
  <2> DEFINE f == <<>>
  <2>1. Flattens(f, seqs, 0)
    BY DEF Flattens
  <2>2. QED
    BY <2>1
<1>2. ASSUME NEW k \in T PROVE k + 1 \in T
  <2>1. PICK f : Flattens(f, seqs, k)
    OBVIOUS
  <2>2. k \in Nat
    OBVIOUS
  <2> DEFINE g == [i \in 1 .. k + 1 |->
                     IF i <= k THEN f[i]
                     ELSE IF i = 1 THEN seqs[i] ELSE f[i - 1] \o seqs[i]]
             h == [i \in 1 .. k + 1 |-> IF i = 1 THEN seqs[i] ELSE g[i - 1] \o seqs[i]]
  <2>3. ASSUME NEW i \in 1 .. k + 1 PROVE g[i] = h[i]
    <3>1. CASE i = 1 /\ i <= k
      BY <2>1, <2>2, <3>1 DEF Flattens
    <3>2. CASE i = 1 /\ ~(i <= k)
      BY <2>2, <3>2
    <3>3. CASE i # 1
      <4>1. i - 1 \in 1 .. k /\ i - 1 \in 1 .. k + 1 /\ i - 1 <= k
        BY <2>2, <3>3
      <4>2. g[i - 1] = f[i - 1]
        BY <4>1
      <4>3. h[i] = f[i - 1] \o seqs[i]
        BY <3>3, <4>2
      <4>4. CASE i <= k
        <5>1. i \in 1 .. k
          BY <4>4
        <5>2. f[i] = f[i - 1] \o seqs[i]
          BY <2>1, <3>3, <5>1 DEF Flattens
        <5>3. QED
          BY <4>3, <4>4, <5>2
      <4>5. CASE ~(i <= k)
        BY <3>3, <4>3, <4>5
      <4>6. QED
        BY <4>4, <4>5
    <3>4. QED
      BY <3>1, <3>2, <3>3
  <2>4. g = h
    <3>1. g = [i \in 1 .. k + 1 |-> g[i]] /\ h = [i \in 1 .. k + 1 |-> h[i]]
      OBVIOUS
    <3> HIDE DEF g, h
    <3>2. QED
      BY <2>3, <3>1
  <2>5. Flattens(g, seqs, k + 1)
    BY <2>4 DEF Flattens
  <2> HIDE DEF g
  <2>6. QED
    BY <2>2, <2>5
<1> HIDE DEF T
<1>3. T \in SUBSET Nat
  BY DEF T
<1>4. T = Nat
  BY <1>1, <1>2, <1>3, Induct
<1>5. QED
  BY <1>4 DEF T

LEMMA FlattenIs ==
  ASSUME NEW seqs, NEW n \in Nat \ {0}, Len(seqs) = n
  PROVE  \E f : Flattens(f, seqs, n) /\ FlattenSeq(seqs) = f[n]
<1> DEFINE G == CHOOSE f : f = [i \in 1 .. n |->
                                  IF i = 1 THEN seqs[i] ELSE f[i - 1] \o seqs[i]]
<1>1. \E f : f = [i \in 1 .. n |-> IF i = 1 THEN seqs[i] ELSE f[i - 1] \o seqs[i]]
  BY FlattenExists DEF Flattens
<1>2. G = [i \in 1 .. n |-> IF i = 1 THEN seqs[i] ELSE G[i - 1] \o seqs[i]]
  BY <1>1
<1>3. FlattenSeq(seqs) = G[n]
  BY DEF FlattenSeq
<1>4. QED
  BY <1>2, <1>3 DEF Flattens

LEMMA FlattenOne ==
  ASSUME NEW s
  PROVE  FlattenSeq(<<s>>) = s
<1>1. Len(<<s>>) = 1 /\ <<s>>[1] = s /\ 1 \in Nat \ {0}
  OBVIOUS
<1>2. PICK f : Flattens(f, <<s>>, 1) /\ FlattenSeq(<<s>>) = f[1]
  BY <1>1, FlattenIs
<1>3. 1 \in 1 .. 1
  OBVIOUS
<1>4. QED
  BY <1>1, <1>2, <1>3 DEF Flattens

LEMMA FlattenCons ==
  ASSUME NEW S, NEW s \in Seq(S), NEW ss \in Seq(Seq(S)), ss # <<>>
  PROVE  FlattenSeq(<<s>> \o ss) = s \o FlattenSeq(ss) /\ FlattenSeq(ss) \in Seq(S)
<1>0. ASSUME NEW a \in Seq(S), NEW b \in Seq(S)
      PROVE  (s \o a) \o b = s \o (a \o b) /\ a \o b \in Seq(S)
  <2>1. (s \o a) \o b = s \o (a \o b)
    BY SMTT(30)
  <2>2. a \o b \in Seq(S)
    OBVIOUS
  <2>3. QED
    BY <2>1, <2>2
<1> DEFINE tt == <<s>> \o ss
           n  == Len(ss)
<1>1. n \in Nat \ {0} /\ \A i \in 1 .. n : ss[i] \in Seq(S)
  OBVIOUS
<1>2. Len(tt) = n + 1 /\ tt[1] = s /\ \A i \in 1 .. n : tt[i + 1] = ss[i]
  <2>1. <<s>> \in Seq(Seq(S)) /\ Len(<<s>>) = 1 /\ <<s>>[1] = s
    OBVIOUS
  <2>2. /\ Len(tt) = 1 + n
        /\ \A i \in 1 .. 1 + n : tt[i] = IF i <= 1 THEN <<s>>[i] ELSE ss[i - 1]
    BY <2>1, ConcatProperties
  <2> HIDE DEF tt
  <2>3. ASSUME NEW i \in 1 .. n PROVE tt[i + 1] = ss[i]
    <3>1. i + 1 \in 1 .. 1 + n /\ ~(i + 1 <= 1) /\ (i + 1) - 1 = i
      BY <1>1
    <3>2. QED
      BY <2>2, <3>1
  <2>4. 1 \in 1 .. 1 + n /\ 1 <= 1 /\ n + 1 = 1 + n
    BY <1>1
  <2>5. QED
    BY <2>1, <2>2, <2>3, <2>4
<1> HIDE DEF tt, n
<1>3. PICK g : Flattens(g, tt, n + 1) /\ FlattenSeq(tt) = g[n + 1]
  <2>1. n + 1 \in Nat \ {0}
    BY <1>1
  <2>2. QED
    BY <1>2, <2>1, FlattenIs
<1>4. PICK f : Flattens(f, ss, n) /\ FlattenSeq(ss) = f[n]
  <2>1. Len(ss) = n
    BY DEF n
  <2>2. QED
    BY <1>1, <2>1, FlattenIs
<1> DEFINE T == {k \in Nat : k + 1 <= n => f[k + 1] \in Seq(S) /\ g[k + 2] = s \o f[k + 1]}
<1>5. 0 \in T
  <2>1. /\ 1 \in 1 .. n /\ 1 \in 1 .. n + 1 /\ 2 \in 1 .. n + 1 /\ 2 - 1 = 1 /\ 2 # 1
        /\ 0 + 1 = 1 /\ 0 + 2 = 2 /\ 1 + 1 = 2
    BY <1>1
  <2>2. f[1] = ss[1]
    BY <1>4, <2>1 DEF Flattens
  <2>3. g[1] = s /\ g[2] = g[1] \o tt[2]
    BY <1>2, <1>3, <2>1 DEF Flattens
  <2>4. tt[2] = ss[1] /\ ss[1] \in Seq(S)
    BY <1>1, <1>2, <2>1
  <2>5. f[0 + 1] \in Seq(S) /\ g[0 + 2] = s \o f[0 + 1]
    BY <2>1, <2>2, <2>3, <2>4
  <2>6. QED
    BY <2>5
<1>6. ASSUME NEW k \in T PROVE k + 1 \in T
  <2>1. k \in Nat /\ k + 1 \in Nat
    OBVIOUS
  <2>2. ASSUME (k + 1) + 1 <= n
        PROVE  f[(k + 1) + 1] \in Seq(S) /\ g[(k + 1) + 2] = s \o f[(k + 1) + 1]
    <3>1. PICK j : j = k + 2
      OBVIOUS
    <3>2. /\ j \in 1 .. n /\ j \in 1 .. n + 1 /\ j # 1 /\ j - 1 = k + 1 /\ k + 1 <= n
          /\ j + 1 \in 1 .. n + 1 /\ j + 1 # 1 /\ (j + 1) - 1 = j
          /\ (k + 1) + 1 = j /\ (k + 1) + 2 = j + 1 /\ k + 2 = j
      BY <1>1, <2>1, <2>2, <3>1
    <3>3. f[k + 1] \in Seq(S) /\ g[j] = s \o f[k + 1]
      BY <2>1, <3>2
    <3>4. f[j] = f[k + 1] \o ss[j]
      BY <1>4, <3>2 DEF Flattens
    <3>5. g[j + 1] = g[j] \o tt[j + 1]
      BY <1>3, <3>2 DEF Flattens
    <3>6. tt[j + 1] = ss[j] /\ ss[j] \in Seq(S)
      BY <1>1, <1>2, <3>2
    <3>7. PICK a, b : a = f[k + 1] /\ b = ss[j] /\ a \in Seq(S) /\ b \in Seq(S)
      BY <3>3, <3>6
    <3>8. (s \o a) \o b = s \o (a \o b) /\ a \o b \in Seq(S)
      BY <1>0, <3>7
    <3>9. f[j] = a \o b /\ g[j + 1] = (s \o a) \o b
      BY <3>3, <3>4, <3>5, <3>6, <3>7
    <3>10. f[j] \in Seq(S) /\ g[j + 1] = s \o f[j]
      BY <3>8, <3>9
    <3>11. QED
      BY <3>2, <3>10
  <2>3. QED
    BY <2>1, <2>2
<1>7. T \in SUBSET Nat
  OBVIOUS
<1>8. n - 1 \in T
  <2> HIDE DEF T
  <2>1. n - 1 \in Nat
    BY <1>1
  <2>2. QED
    BY <1>5, <1>6, <1>7, <2>1, Induct
<1>9. f[n] \in Seq(S) /\ g[n + 1] = s \o f[n]
  <2>1. (n - 1) + 1 = n /\ (n - 1) + 2 = n + 1 /\ n <= n
    BY <1>1
  <2>2. QED
    BY <1>8, <2>1
<1>10. QED
  BY <1>3, <1>4, <1>9 DEF tt

-----------------------------------------------------------------------------
(* What get_next_entry does, one fragment at a time.                       *)
Cells(buf) == \A i \in Ring : buf[i].len \in Nat /\ buf[i].final \in BOOLEAN

Wraps(offset, hdr, next) ==
  \/ hdr < offset /\ next >= offset
  \/ hdr > offset /\ next >= offset /\ next < hdr

LEMMA FollowingType ==
  ASSUME Cells(buffer), NEW p \in Ring
  PROVE  Following(p) \in Ring
<1>1. Size \in Nat \ {0} /\ p + 1 + buffer[p].len \in Nat
  BY Sizes DEF Cells, Ring
<1>2. \A x \in Nat, m \in Nat \ {0} : x % m \in 0 .. m - 1
  OBVIOUS
<1>3. QED
  BY <1>1, <1>2 DEF Following, Ring

WalkStep(f, offset) ==
  \A left \in 0 .. Size, hdr \in Ring :
    f[left][hdr] = IF Wraps(offset, hdr, Following(hdr)) THEN ptr_first
                   ELSE IF buffer[hdr].final \/ left = 0 THEN Following(hdr)
                   ELSE f[left - 1][Following(hdr)]

LEMMA WalkIs ==
  ASSUME Cells(buffer), ptr_first \in Ring, NEW offset \in Ring
  PROVE  /\ get_next_entry(offset) \in Ring
         /\ \E f : WalkStep(f, offset) /\ get_next_entry(offset) = f[Size][offset]
<1>1. Size \in Nat
  BY Sizes
<1> DEFINE D == [Ring -> Ring]
           zero == [hdr \in Ring |-> IF Wraps(offset, hdr, Following(hdr)) THEN ptr_first
                                     ELSE Following(hdr)]
           step == [k \in Nat \ {0} |-> [g \in D |->
                     [hdr \in Ring |->
                        IF Wraps(offset, hdr, Following(hdr)) THEN ptr_first
                        ELSE IF buffer[hdr].final THEN Following(hdr)
                        ELSE g[Following(hdr)]]]]
<1>2. zero \in D
  BY FollowingType
<1>3. step \in [Nat \ {0} -> [D -> D]]
  <2>1. ASSUME NEW g \in D
        PROVE  [hdr \in Ring |-> IF Wraps(offset, hdr, Following(hdr)) THEN ptr_first
                                 ELSE IF buffer[hdr].final THEN Following(hdr)
                                 ELSE g[Following(hdr)]] \in D
    BY FollowingType
  <2> HIDE DEF D
  <2>2. QED
    BY <2>1
<1>4. PICK f : Recurs(f, D, zero, step, Size)
  <2>1. PICK E, z, st : E = D /\ z = zero /\ st = step
    OBVIOUS
  <2>2. z \in E /\ st \in [Nat \ {0} -> [E -> E]]
    BY <1>2, <1>3, <2>1
  <2>3. PICK f : Recurs(f, E, z, st, Size)
    BY <1>1, <2>2, Recursion, Zenon
  <2>4. QED
    BY <2>1, <2>3
<1>5. f \in [0 .. Size -> D] /\ f[0] = zero /\ \A k \in 1 .. Size : f[k] = step[k][f[k - 1]]
  BY <1>4 DEF Recurs
<1>6. ASSUME NEW k \in 0 .. Size
      PROVE  f[k] = [hdr \in Ring |->
                       IF Wraps(offset, hdr, Following(hdr)) THEN ptr_first
                       ELSE IF buffer[hdr].final \/ k = 0 THEN Following(hdr)
                       ELSE f[k - 1][Following(hdr)]]
  <2>1. CASE k = 0
    BY <1>5, <2>1
  <2>2. CASE k # 0
    <3>1. k \in 1 .. Size /\ k \in Nat \ {0} /\ k - 1 \in 0 .. Size
      BY <1>1, <2>2
    <3>2. f[k - 1] \in D
      BY <1>5, <3>1
    <3>3. f[k] = step[k][f[k - 1]]
      BY <1>5, <3>1
    <3>4. PICK g \in D : g = f[k - 1]
      BY <3>2
    <3>5. step[k][g] = [hdr \in Ring |->
                          IF Wraps(offset, hdr, Following(hdr)) THEN ptr_first
                          ELSE IF buffer[hdr].final THEN Following(hdr)
                          ELSE g[Following(hdr)]]
      <4> HIDE DEF D
      <4>1. QED
        BY <3>1
    <3> HIDE DEF step, D
    <3>6. QED
      BY <2>2, <3>3, <3>4, <3>5
  <2>3. QED
    BY <2>1, <2>2
<1>7. f = [k \in 0 .. Size |-> [hdr \in Ring |->
             IF Wraps(offset, hdr, Following(hdr)) THEN ptr_first
             ELSE IF buffer[hdr].final \/ k = 0 THEN Following(hdr)
             ELSE f[k - 1][Following(hdr)]]]
  <2>1. f = [k \in 0 .. Size |-> f[k]]
    BY <1>5
  <2> HIDE DEF D, zero, step
  <2>2. QED
    BY <1>6, <2>1
<1> DEFINE G == CHOOSE g : g = [k \in 0 .. Size |-> [hdr \in Ring |->
                  IF Wraps(offset, hdr, Following(hdr)) THEN ptr_first
                  ELSE IF buffer[hdr].final \/ k = 0 THEN Following(hdr)
                  ELSE g[k - 1][Following(hdr)]]]
<1> HIDE DEF zero, step, D
<1>8. G = [k \in 0 .. Size |-> [hdr \in Ring |->
             IF Wraps(offset, hdr, Following(hdr)) THEN ptr_first
             ELSE IF buffer[hdr].final \/ k = 0 THEN Following(hdr)
             ELSE G[k - 1][Following(hdr)]]]
  BY <1>7
<1>9. get_next_entry(offset) = G[Size][offset]
  BY DEF get_next_entry, Wraps
<1> HIDE DEF G
<1>10. WalkStep(G, offset)
  <2>1. ASSUME NEW left \in 0 .. Size, NEW hdr \in Ring
        PROVE  G[left][hdr] = IF Wraps(offset, hdr, Following(hdr)) THEN ptr_first
                              ELSE IF buffer[hdr].final \/ left = 0 THEN Following(hdr)
                              ELSE G[left - 1][Following(hdr)]
    <3>1. G[left] = [h \in Ring |->
                       IF Wraps(offset, h, Following(h)) THEN ptr_first
                       ELSE IF buffer[h].final \/ left = 0 THEN Following(h)
                       ELSE G[left - 1][Following(h)]]
      BY <1>8, Zenon
    <3>2. QED
      BY <3>1
  <2>2. QED
    BY <2>1 DEF WalkStep
<1> DEFINE T == {k \in Nat : k <= Size => \A hdr \in Ring : G[k][hdr] \in Ring}
<1>11. 0 \in T
  <2>1. 0 \in 0 .. Size
    BY <1>1
  <2>2. \A hdr \in Ring : G[0][hdr] \in Ring
    BY <1>10, <2>1, FollowingType DEF WalkStep
  <2>3. QED
    BY <2>2
<1>12. ASSUME NEW k \in T PROVE k + 1 \in T
  <2>1. k \in Nat /\ k + 1 \in Nat /\ (k + 1) - 1 = k
    OBVIOUS
  <2>2. ASSUME k + 1 <= Size, NEW hdr \in Ring PROVE G[k + 1][hdr] \in Ring
    <3>1. k + 1 \in 0 .. Size /\ k <= Size
      BY <1>1, <2>1, <2>2
    <3>2. Following(hdr) \in Ring
      BY FollowingType
    <3>3. G[k][Following(hdr)] \in Ring
      BY <2>1, <3>1, <3>2
    <3>4. QED
      BY <1>10, <2>1, <3>1, <3>2, <3>3 DEF WalkStep
  <2>3. QED
    BY <2>1, <2>2
<1>13. T \in SUBSET Nat
  OBVIOUS
<1>14. G[Size][offset] \in Ring
  <2> HIDE DEF T
  <2>1. Size \in T
    BY <1>1, <1>11, <1>12, <1>13, Induct
  <2>2. QED
    BY <1>1, <2>1 DEF T
<1>15. QED
  BY <1>9, <1>10, <1>14

-----------------------------------------------------------------------------
(* The inductive invariant                                                 *)

(* An object or a part of one in the ring: w bytes from a on, the last     *)
(* fragment of which still lacks r, of n bytes of object o, of which d are *)
(* not written yet.  H are the offsets of the headers, c[x] the bytes of   *)
(* the object that are not before the header at x.                         *)
FragmentAt(buf, a, w, r, o, d, H, c, x) ==
  LET len == buf[At(a, x)].len
  IN /\ len \in Nat /\ At(a, x) + len < Size
     /\ x + 1 + len <= w + r /\ len <= c[x]
     /\ \A i \in 1 .. len : x + i < w => buf[At(a, x + i)].data = <<o, c[x] + 1 - i>>
     /\ x + 1 + len = w + r => /\ buf[At(a, x)].final = (r = d)
                               /\ c[x] = len + d - r
     /\ x + 1 + len # w + r => /\ buf[At(a, x)].final = FALSE
                               /\ x + 1 + len \in H
                               /\ c[x] = len + c[x + 1 + len]

FragmentsAt(buf, a, w, r, o, n, d, H, c) ==
  /\ H \in SUBSET (0 .. w - 1) /\ c \in [H -> Nat]
  /\ IF w = 0 THEN n = d ELSE 0 \in H /\ c[0] = n
  /\ \A x \in H : FragmentAt(buf, a, w, r, o, d, H, c, x)

Fragmented(buf, a, w, r, o, n, d) ==
  \E H, c : FragmentsAt(buf, a, w, r, o, n, d, H, c)

(* An object as a reader wants it.                                         *)
Stored(buf, a, z, o, n) == Fragmented(buf, a, z, 0, o, n, 0)

(* A length that is written, and the most bytes an object of it takes.     *)
Writable(n) == \E sc \in Scatter : ~Refused(sc) /\ LenOf(sc) = n
Room(n) == n + Ceil(n) + 1

(* What the fragment being written still lacks.                            *)
Pending == IF fragment_offset = 0 THEN 0
           ELSE Least(data_len, fragment_len - fragment_offset)

Kinds ==
  /\ Cells(buffer) /\ buffer = [i \in Ring |-> buffer[i]]
  /\ write_ptr \in Ring /\ ptr_first \in Ring /\ ptr_last \in Ring
  /\ num_entries \in Nat /\ pc \in {"idle", "drop", "write"}
  /\ written \in Seq((0 .. Names - 1) \X Nat) /\ Len(written) = num_entries
  /\ name \in 0 .. Names - 1 /\ fragment_len \in Nat

(* Object k begins off[k] bytes after the first, and they lie end to end.  *)
Placed(off) ==
  /\ off \in [1 .. num_entries + 1 -> 0 .. Size] /\ off[1] = 0
  /\ \A k \in 1 .. num_entries :
       /\ off[k] < off[k + 1] /\ off[k + 1] - off[k] <= Room(written[k][2])
       /\ Writable(written[k][2])
       /\ Stored(buffer, At(ptr_first, off[k]), off[k + 1] - off[k],
                 written[k][1], written[k][2])

Ends(off) ==
  /\ IF num_entries > 0 THEN ptr_last = At(ptr_first, off[num_entries])
     ELSE ptr_first = 0 /\ ptr_last = 0
  /\ pc # "write" => write_ptr = At(ptr_first, off[num_entries + 1])
  /\ pc # "write" /\ num_entries = 0 => \A i \in Ring : buffer[i] = Zero

(* Inside the call.                                                        *)
InCall ==
  pc # "idle" =>
    /\ Writable(object_len) /\ total_len \in Nat
    /\ total_len <= Size /\ total_len <= Room(object_len)
    /\ sc_list \in Seq(Nat \ {0}) /\ data_len \in Nat /\ LenOf(sc_list) = data_len

Dropping ==
  pc = "drop" =>
    /\ log_end = write_ptr /\ data_len = object_len /\ fragment_offset = 0
    /\ total_len = Need(write_ptr, data_len)

Writing(off) ==
  pc = "write" =>
    /\ new_last = At(ptr_first, off[num_entries + 1])
    /\ off[num_entries + 1] + total_len <= Size
    /\ fragment_offset \in Nat
    /\ fragment_offset = 0 \/ fragment_offset < fragment_len
    /\ write_ptr + Pending <= Size
    /\ \E w \in 0 .. Size :
         /\ write_ptr = At(new_last, w) /\ (w = 0 => fragment_offset = 0)
         /\ Fragmented(buffer, new_last, w, Pending, name, object_len, data_len)
         /\ w + Pending + Need(At(new_last, w + Pending), data_len - Pending) <= total_len

Inv == /\ Kinds /\ InCall /\ Dropping
       /\ \E off : Placed(off) /\ Ends(off) /\ Writing(off)

-----------------------------------------------------------------------------
(* Positions in the ring.                                                  *)
LEMMA AtType ==
  ASSUME NEW a \in Ring, NEW x \in 0 .. Size
  PROVE  At(a, x) \in Ring /\ At(a, 0) = a
BY Sizes DEF At, Ring

LEMMA AtAt ==
  ASSUME NEW a \in Ring, NEW x \in Nat, NEW y \in Nat, x + y <= Size
  PROVE  At(At(a, x), y) = At(a, x + y)
<1>1. Size \in Nat /\ a \in 0 .. Size - 1
  BY Sizes DEF Ring
<1>2. QED
  BY <1>1 DEF At

LEMMA AtPlus ==
  ASSUME NEW a \in Ring, NEW x \in 0 .. Size, NEW i \in Nat,
         x + i <= Size, At(a, x) + i < Size
  PROVE  At(a, x) + i = At(a, x + i)
<1>1. Size \in Nat /\ a \in 0 .. Size - 1
  BY Sizes DEF Ring
<1>2. QED
  BY <1>1 DEF At

LEMMA AtDiffer ==
  ASSUME NEW a \in Ring, NEW x \in 0 .. Size - 1, NEW y \in 0 .. Size - 1,
         At(a, x) = At(a, y)
  PROVE  x = y
<1>1. Size \in Nat /\ a \in 0 .. Size - 1
  BY Sizes DEF Ring
<1>2. QED
  BY <1>1 DEF At

LEMMA AtMod ==
  ASSUME NEW a \in Ring, NEW x \in 0 .. Size, NEW k \in Nat, x + k <= Size
  PROVE  (At(a, x) + k) % Size = At(a, x + k)
<1>1. Size \in Nat /\ a \in 0 .. Size - 1
  BY Sizes DEF Ring
<1>2. At(a, x) \in 0 .. Size - 1
  BY AtType DEF Ring
<1>3. At(a, x) + k \in Int /\ -Size <= At(a, x) + k /\ At(a, x) + k < 2 * Size
  BY <1>1, <1>2
<1>4. PICK p \in Int : p = At(a, x) + k
  BY <1>3
<1>5. p % Size = IF p < 0 THEN p + Size ELSE IF p < Size THEN p ELSE p - Size
  BY <1>3, <1>4, Modulo
<1>6. p >= 0 /\ p = IF a + x < Size THEN a + x + k ELSE a + x + k - Size
  BY <1>1, <1>2, <1>4 DEF At
<1>7. At(a, x + k) = IF p < Size THEN p ELSE p - Size
  BY <1>1, <1>6 DEF At
<1>8. QED
  BY <1>4, <1>5, <1>6, <1>7

LEMMA Distance ==
  ASSUME NEW a \in Ring, NEW y \in 0 .. Size - 1, NEW u \in 0 .. Size
  PROVE  (At(a, y) - At(a, u)) % Size = IF y >= u THEN y - u ELSE y - u + Size
<1>1. Size \in Nat /\ a \in 0 .. Size - 1
  BY Sizes DEF Ring
<1>2. y \in 0 .. Size
  BY <1>1
<1>3. At(a, y) \in 0 .. Size - 1 /\ At(a, u) \in 0 .. Size - 1
  BY <1>2, AtType DEF Ring
<1>4. PICK p \in Int : p = At(a, y) - At(a, u)
  BY <1>1, <1>3
<1>5. -Size <= p /\ p < 2 * Size
  BY <1>1, <1>3, <1>4
<1>6. p % Size = IF p < 0 THEN p + Size ELSE IF p < Size THEN p ELSE p - Size
  BY <1>5, Modulo
<1>7. p = (IF a + y < Size THEN a + y ELSE a + y - Size)
          - (IF a + u < Size THEN a + u ELSE a + u - Size)
  BY <1>4 DEF At
<1>8. (IF p < 0 THEN p + Size ELSE IF p < Size THEN p ELSE p - Size)
      = IF y >= u THEN y - u ELSE y - u + Size
  BY <1>1, <1>7
<1>9. QED
  BY <1>4, <1>6, <1>8

-----------------------------------------------------------------------------
(* What writing does to the objects in the ring.                           *)

(* Nothing, to one whose bytes stay.                                       *)
LEMMA Kept ==
  ASSUME NEW buf, NEW new, NEW a, NEW w \in Nat, NEW r, NEW o, NEW n, NEW d,
         Fragmented(buf, a, w, r, o, n, d),
         \A x \in 0 .. w - 1 : new[At(a, x)] = buf[At(a, x)]
  PROVE  Fragmented(new, a, w, r, o, n, d)
<1>1. PICK H, c : FragmentsAt(buf, a, w, r, o, n, d, H, c)
  BY DEF Fragmented
<1>2. /\ H \in SUBSET (0 .. w - 1) /\ c \in [H -> Nat]
      /\ IF w = 0 THEN n = d ELSE 0 \in H /\ c[0] = n
      /\ \A x \in H : FragmentAt(buf, a, w, r, o, d, H, c, x)
  BY <1>1 DEF FragmentsAt
<1>3. ASSUME NEW x \in H PROVE FragmentAt(new, a, w, r, o, d, H, c, x)
  <2>1. FragmentAt(buf, a, w, r, o, d, H, c, x) /\ x \in 0 .. w - 1
    BY <1>2
  <2>2. new[At(a, x)] = buf[At(a, x)]
    BY <2>1
  <2>3. ASSUME NEW i \in 1 .. buf[At(a, x)].len, x + i < w
        PROVE  new[At(a, x + i)].data = <<o, c[x] + 1 - i>>
    <3>1. x + i \in 0 .. w - 1
      BY <2>1, <2>3
    <3>2. buf[At(a, x + i)].data = <<o, c[x] + 1 - i>>
      BY <2>1, <2>3 DEF FragmentAt
    <3>3. QED
      BY <3>1, <3>2
  <2>4. QED
    BY <2>1, <2>2, <2>3 DEF FragmentAt
<1>4. FragmentsAt(new, a, w, r, o, n, d, H, c)
  BY <1>2, <1>3 DEF FragmentsAt
<1>5. QED
  BY <1>4 DEF Fragmented

(* A header begins a fragment.                                             *)
LEMMA Begun ==
  ASSUME NEW buf, NEW new, NEW a \in Ring, NEW w \in Nat, NEW o, NEW n \in Nat,
         NEW d \in Nat \ {0}, Fragmented(buf, a, w, 0, o, n, d),
         NEW t \in 0 .. d, At(a, w) + t < Size,
         new[At(a, w)] = Header(t, d = t),
         \A x \in 0 .. w - 1 : new[At(a, x)] = buf[At(a, x)]
  PROVE  Fragmented(new, a, w + 1, t, o, n, d)
<1>1. Fragmented(new, a, w, 0, o, n, d)
  BY Kept
<1>2. PICK H, c : FragmentsAt(new, a, w, 0, o, n, d, H, c)
  BY <1>1 DEF Fragmented
<1>3. /\ H \in SUBSET (0 .. w - 1) /\ c \in [H -> Nat]
      /\ IF w = 0 THEN n = d ELSE 0 \in H /\ c[0] = n
      /\ \A x \in H : FragmentAt(new, a, w, 0, o, d, H, c, x)
  BY <1>2 DEF FragmentsAt
<1> DEFINE H2 == H \cup {w}
           c2 == [x \in H2 |-> IF x = w THEN d ELSE c[x]]
<1>4. w \notin H /\ H2 \in SUBSET (0 .. (w + 1) - 1) /\ w + 1 # 0
  BY <1>3
<1>5. c2 \in [H2 -> Nat] /\ c2[w] = d /\ w \in H2 /\ \A x \in H : x \in H2 /\ c2[x] = c[x]
  BY <1>3, <1>4
<1>6. 0 \in H2 /\ c2[0] = n
  BY <1>3, <1>5
<1> HIDE DEF c2, H2
<1>7. ASSUME NEW x \in H PROVE FragmentAt(new, a, w + 1, t, o, d, H2, c2, x)
  <2>1. FragmentAt(new, a, w, 0, o, d, H, c, x) /\ x \in 0 .. w - 1 /\ c2[x] = c[x]
    BY <1>3, <1>5
  <2>2. PICK len : len = new[At(a, x)].len
    OBVIOUS
  <2>3. /\ len \in Nat /\ At(a, x) + len < Size /\ x + 1 + len <= w /\ len <= c[x]
        /\ \A i \in 1 .. len : x + i < w => new[At(a, x + i)].data = <<o, c[x] + 1 - i>>
        /\ x + 1 + len = w => new[At(a, x)].final = (0 = d) /\ c[x] = len + d
        /\ x + 1 + len # w => /\ new[At(a, x)].final = FALSE /\ x + 1 + len \in H
                              /\ c[x] = len + c[x + 1 + len]
    BY <2>1, <2>2 DEF FragmentAt
  <2>4. x + 1 + len # w + 1 + t /\ x + 1 + len <= w + 1 + t
    BY <2>1, <2>3
  <2>5. new[At(a, x)].final = FALSE
    BY <2>3
  <2>6. x + 1 + len \in H2 /\ c[x] = len + c2[x + 1 + len]
    <3>1. CASE x + 1 + len = w
      BY <1>5, <2>3, <3>1
    <3>2. CASE x + 1 + len # w
      BY <1>5, <2>3, <3>2
    <3>3. QED
      BY <3>1, <3>2
  <2>7. \A i \in 1 .. len : x + i < w
    BY <2>1, <2>3
  <2>8. QED
    BY <2>1, <2>2, <2>3, <2>4, <2>5, <2>6, <2>7 DEF FragmentAt
<1>8. FragmentAt(new, a, w + 1, t, o, d, H2, c2, w)
  <2>1. new[At(a, w)].len = t /\ new[At(a, w)].final = (d = t)
    BY DEF Header
  <2>2. \A i \in 1 .. t : ~(w + i < w + 1)
    OBVIOUS
  <2>3. w + 1 + t = (w + 1) + t /\ d = t + d - t /\ t <= d /\ t \in Nat
    OBVIOUS
  <2>4. (d = t) = (t = d)
    OBVIOUS
  <2>5. QED
    BY <1>5, <2>1, <2>2, <2>3, <2>4 DEF FragmentAt
<1>9. \A x \in H2 : FragmentAt(new, a, w + 1, t, o, d, H2, c2, x)
  BY <1>7, <1>8 DEF H2
<1>10. FragmentsAt(new, a, w + 1, t, o, n, d, H2, c2)
  BY <1>4, <1>5, <1>6, <1>9 DEF FragmentsAt
<1>11. QED
  BY <1>10 DEF Fragmented

(* Bytes of the object continue it.                                        *)
LEMMA Continued ==
  ASSUME NEW buf, NEW new, NEW a \in Ring, NEW w \in Nat, NEW r \in Nat, NEW o,
         NEW n \in Nat, NEW d \in Nat, Fragmented(buf, a, w, r, o, n, d),
         NEW t \in 0 .. r, t <= d, w > 0,
         \A j \in 0 .. t - 1 : new[At(a, w + j)].data = <<o, d - j>>,
         \A x \in 0 .. w - 1 : new[At(a, x)] = buf[At(a, x)]
  PROVE  Fragmented(new, a, w + t, r - t, o, n, d - t)
<1>1. Fragmented(new, a, w, r, o, n, d)
  BY Kept
<1>2. PICK H, c : FragmentsAt(new, a, w, r, o, n, d, H, c)
  BY <1>1 DEF Fragmented
<1>3. /\ H \in SUBSET (0 .. w - 1) /\ c \in [H -> Nat]
      /\ 0 \in H /\ c[0] = n
      /\ \A x \in H : FragmentAt(new, a, w, r, o, d, H, c, x)
  BY <1>2 DEF FragmentsAt
<1>4. H \in SUBSET (0 .. (w + t) - 1) /\ w + t # 0 /\ (w + t) + (r - t) = w + r
  BY <1>3
<1>5. (r - t = d - t) = (r = d)
  OBVIOUS
<1>6. ASSUME NEW x \in H PROVE FragmentAt(new, a, w + t, r - t, o, d - t, H, c, x)
  <2>1. FragmentAt(new, a, w, r, o, d, H, c, x) /\ x \in 0 .. w - 1 /\ c[x] \in Nat
    BY <1>3
  <2>2. PICK len : len = new[At(a, x)].len
    OBVIOUS
  <2>3. /\ len \in Nat /\ At(a, x) + len < Size /\ x + 1 + len <= w + r /\ len <= c[x]
        /\ \A i \in 1 .. len : x + i < w => new[At(a, x + i)].data = <<o, c[x] + 1 - i>>
        /\ x + 1 + len = w + r => new[At(a, x)].final = (r = d) /\ c[x] = len + d - r
        /\ x + 1 + len # w + r => /\ new[At(a, x)].final = FALSE /\ x + 1 + len \in H
                                  /\ c[x] = len + c[x + 1 + len]
    BY <2>1, <2>2 DEF FragmentAt
  <2>4. ASSUME NEW i \in 1 .. len, x + i < w + t
        PROVE  new[At(a, x + i)].data = <<o, c[x] + 1 - i>>
    <3>1. CASE x + i < w
      BY <2>3, <2>4, <3>1
    <3>2. CASE ~(x + i < w)
      <4>1. x + 1 + len = w + r
        <5>1. SUFFICES ASSUME x + 1 + len # w + r PROVE FALSE
          OBVIOUS
        <5>2. x + 1 + len \in 0 .. w - 1
          BY <1>3, <2>3, <5>1
        <5>3. QED
          BY <2>1, <2>3, <2>4, <3>2, <5>2
      <4>2. c[x] = len + d - r
        BY <2>3, <4>1
      <4>3. PICK j \in 0 .. t - 1 : j = x + i - w
        BY <2>1, <2>3, <2>4, <3>2
      <4>4. x + i = w + j /\ c[x] + 1 - i = d - j
        BY <2>1, <2>3, <2>4, <4>1, <4>2, <4>3
      <4>5. QED
        BY <4>4
    <3>3. QED
      BY <3>1, <3>2
  <2>5. c[x] = len + d - r => c[x] = len + (d - t) - (r - t)
    BY <2>1, <2>3
  <2>6. QED
    BY <1>4, <1>5, <2>2, <2>3, <2>4, <2>5 DEF FragmentAt
<1>7. FragmentsAt(new, a, w + t, r - t, o, n, d - t, H, c)
  BY <1>3, <1>4, <1>6 DEF FragmentsAt
<1>8. QED
  BY <1>7 DEF Fragmented

-----------------------------------------------------------------------------
(* What get_next_entry and the indices find.                               *)
LEMMA FollowingAt ==
  ASSUME Cells(buffer), NEW a \in Ring, NEW x \in 0 .. Size,
         x + 1 + buffer[At(a, x)].len <= Size
  PROVE  Following(At(a, x)) = At(a, x + 1 + buffer[At(a, x)].len)
<1>1. PICK len \in Nat : len = buffer[At(a, x)].len
  BY AtType DEF Cells
<1>2. PICK k \in Nat : k = 1 + len
  OBVIOUS
<1>3. x + k <= Size /\ x \in Nat /\ x + 1 + len = x + k
  BY <1>1, <1>2
<1>4. (At(a, x) + k) % Size = At(a, x + k)
  BY <1>3, AtMod
<1>5. At(a, x) \in Int
  BY AtType, Sizes DEF Ring
<1>6. At(a, x) + 1 + len = At(a, x) + k
  BY <1>2, <1>5
<1>7. QED
  BY <1>1, <1>3, <1>4, <1>6 DEF Following

LEMMA NoWrap ==
  ASSUME NEW a \in Ring, NEW x \in Nat, NEW y \in Nat, x < y, y < Size
  PROVE  ~Wraps(a, At(a, x), At(a, y))
<1>1. Size \in Nat /\ a \in 0 .. Size - 1
  BY Sizes DEF Ring
<1>2. QED
  BY <1>1 DEF At, Wraps

LEMMA NextEntry ==
  ASSUME Cells(buffer), ptr_first \in Ring, NEW a \in Ring, NEW z \in 1 .. Size - 1,
         NEW o, NEW n, Stored(buffer, a, z, o, n)
  PROVE  get_next_entry(a) = At(a, z)
<1>1. PICK f : WalkStep(f, a) /\ get_next_entry(a) = f[Size][a]
  BY WalkIs
<1>2. PICK H, c : FragmentsAt(buffer, a, z, 0, o, n, 0, H, c)
  BY DEF Stored, Fragmented
<1>3. /\ H \in SUBSET (0 .. z - 1) /\ c \in [H -> Nat] /\ 0 \in H
      /\ \A x \in H : FragmentAt(buffer, a, z, 0, o, 0, H, c, x)
  BY <1>2 DEF FragmentsAt
<1>4. Size \in Nat /\ z \in Nat /\ z < Size
  BY Sizes
<1> DEFINE T == {k \in Nat : \A left \in 0 .. Size, x \in H :
                   z - x <= k /\ k <= left => f[left][At(a, x)] = At(a, z)}
<1>5. 0 \in T
  BY <1>3, <1>4
<1>6. ASSUME NEW k \in T PROVE k + 1 \in T
  <2>1. k \in Nat /\ k + 1 \in Nat
    OBVIOUS
  <2>2. ASSUME NEW left \in 0 .. Size, NEW x \in H, z - x <= k + 1, k + 1 <= left
        PROVE  f[left][At(a, x)] = At(a, z)
    <3>1. x \in 0 .. z - 1 /\ FragmentAt(buffer, a, z, 0, o, 0, H, c, x)
      BY <1>3
    <3>2. x \in 0 .. Size /\ x \in Nat /\ At(a, x) \in Ring
      BY <1>4, <3>1, AtType
    <3>3. PICK len \in Nat : len = buffer[At(a, x)].len
      BY <3>2 DEF Cells
    <3>4. PICK y \in Nat : y = x + 1 + len
      BY <3>2
    <3>5. /\ y <= z
          /\ y = z => buffer[At(a, x)].final = TRUE
          /\ y # z => buffer[At(a, x)].final = FALSE /\ y \in H
      <4>1. /\ x + 1 + len <= z + 0
            /\ x + 1 + len = z + 0 => buffer[At(a, x)].final = (0 = 0)
            /\ x + 1 + len # z + 0 => buffer[At(a, x)].final = FALSE /\ x + 1 + len \in H
        BY <3>1, <3>3, Zenon DEF FragmentAt
      <4>2. (0 = 0) = TRUE /\ z + 0 = z
        BY <1>4
      <4>3. QED
        BY <3>4, <4>1, <4>2
    <3>6. Following(At(a, x)) = At(a, y)
      BY <1>4, <3>2, <3>3, <3>4, <3>5, FollowingAt
    <3>7. ~Wraps(a, At(a, x), At(a, y))
      <4>1. x < y /\ y < Size
        BY <1>4, <3>2, <3>4, <3>5
      <4>2. QED
        BY <3>2, <4>1, NoWrap
    <3>8. f[left][At(a, x)] = IF Wraps(a, At(a, x), Following(At(a, x))) THEN ptr_first
                              ELSE IF buffer[At(a, x)].final \/ left = 0
                                   THEN Following(At(a, x))
                              ELSE f[left - 1][Following(At(a, x))]
      BY <1>1, <3>2 DEF WalkStep
    <3>9. f[left][At(a, x)] = IF buffer[At(a, x)].final \/ left = 0 THEN At(a, y)
                              ELSE f[left - 1][At(a, y)]
      BY <3>6, <3>7, <3>8
    <3>10. CASE y = z
      BY <3>5, <3>9, <3>10
    <3>11. CASE y # z
      <4>1. left # 0 /\ left - 1 \in 0 .. Size /\ z - y <= k /\ k <= left - 1
        BY <1>4, <2>1, <2>2, <3>2, <3>4
      <4>2. f[left - 1][At(a, y)] = At(a, z)
        BY <3>5, <3>11, <4>1
      <4>3. QED
        BY <3>5, <3>9, <3>11, <4>1, <4>2
    <3>12. QED
      BY <3>10, <3>11
  <2>3. QED
    BY <2>1, <2>2
<1>7. T \in SUBSET Nat
  OBVIOUS
<1>8. z \in T
  <2> HIDE DEF T
  <2>1. QED
    BY <1>4, <1>5, <1>6, <1>7, Induct
<1>9. f[Size][At(a, 0)] = At(a, z)
  BY <1>3, <1>4, <1>8
<1>10. QED
  BY <1>1, <1>4, <1>9, AtType

(* In the zeroed storage it comes round.                                   *)
LEMMA NoEntry ==
  ASSUME Cells(buffer), ptr_first = 0, \A i \in Ring : buffer[i] = Zero
  PROVE  get_next_entry(0) = 0
<1>1. Size \in Nat /\ Size > 1 /\ 0 \in Ring
  BY Sizes DEF Ring
<1>2. PICK f : WalkStep(f, 0) /\ get_next_entry(0) = f[Size][0]
  BY <1>1, WalkIs
<1> DEFINE T == {k \in Nat : \A left \in 0 .. Size, p \in Ring :
                   Size - 1 - p <= k /\ k <= left => f[left][p] = 0}
<1>3. ASSUME NEW p \in Ring
      PROVE  Following(p) = (IF p = Size - 1 THEN 0 ELSE p + 1) /\ ~buffer[p].final
  <2>1. p \in 0 .. Size - 1 /\ buffer[p].len = 0 /\ ~buffer[p].final
    BY DEF Ring, Zero
  <2>2. PICK q \in Int : q = p + 1
    BY <2>1
  <2>3. q % Size = IF q < 0 THEN q + Size ELSE IF q < Size THEN q ELSE q - Size
    BY <1>1, <2>1, <2>2, Modulo
  <2>4. Following(p) = q % Size
    <3>1. p + 1 + buffer[p].len = q
      BY <2>1, <2>2
    <3>2. QED
      BY <3>1 DEF Following
  <2>5. QED
    BY <1>1, <2>1, <2>2, <2>3, <2>4
<1>4. ASSUME NEW left \in 0 .. Size, NEW p \in Ring
      PROVE  f[left][p] = IF p = Size - 1 THEN 0 ELSE IF left = 0 THEN p + 1
                          ELSE f[left - 1][p + 1]
  <2>1. f[left][p] = IF Wraps(0, p, Following(p)) THEN ptr_first
                     ELSE IF buffer[p].final \/ left = 0 THEN Following(p)
                     ELSE f[left - 1][Following(p)]
    BY <1>2 DEF WalkStep
  <2>2. p \in 0 .. Size - 1
    BY DEF Ring
  <2>3. CASE p = Size - 1
    <3>1. Wraps(0, p, 0)
      BY <1>1, <2>3 DEF Wraps
    <3>2. QED
      BY <1>3, <2>1, <2>3, <3>1
  <2>4. CASE p # Size - 1
    <3>1. ~Wraps(0, p, p + 1)
      BY <1>1, <2>2 DEF Wraps
    <3>2. QED
      BY <1>3, <2>1, <2>4, <3>1
  <2>5. QED
    BY <2>3, <2>4
<1>5. 0 \in T
  <2>1. ASSUME NEW left \in 0 .. Size, NEW p \in Ring, Size - 1 - p <= 0
        PROVE  f[left][p] = 0
    <3>1. p = Size - 1
      BY <1>1, <2>1 DEF Ring
    <3>2. QED
      BY <1>4, <3>1
  <2>2. QED
    BY <2>1
<1>6. ASSUME NEW k \in T PROVE k + 1 \in T
  <2>1. k \in Nat /\ k + 1 \in Nat
    OBVIOUS
  <2>2. ASSUME NEW left \in 0 .. Size, NEW p \in Ring, Size - 1 - p <= k + 1, k + 1 <= left
        PROVE  f[left][p] = 0
    <3>1. CASE p = Size - 1
      BY <1>4, <3>1
    <3>2. CASE p # Size - 1
      <4>1. /\ left # 0 /\ left - 1 \in 0 .. Size /\ k <= left - 1
            /\ p + 1 \in Ring /\ Size - 1 - (p + 1) <= k
        BY <1>1, <2>1, <2>2, <3>2 DEF Ring
      <4>2. f[left - 1][p + 1] = 0
        BY <4>1
      <4>3. QED
        BY <1>4, <3>2, <4>1, <4>2
    <3>3. QED
      BY <3>1, <3>2
  <2>3. QED
    BY <2>1, <2>2
<1>7. T \in SUBSET Nat
  OBVIOUS
<1>8. Size \in T
  <2> HIDE DEF T
  <2>1. QED
    BY <1>1, <1>5, <1>6, <1>7, Induct
<1>9. f[Size][0] = 0
  BY <1>1, <1>8
<1>10. QED
  BY <1>2, <1>9

LEMMA EntryIs ==
  ASSUME Cells(buffer), ptr_first \in Ring
  PROVE  /\ EntryAfter(0) = ptr_first
         /\ \A i \in 1 .. Size : EntryAfter(i) = get_next_entry(EntryAfter(i - 1))
<1>1. Size \in Nat
  BY Sizes
<1> DEFINE step == [k \in Nat \ {0} |-> [p \in Ring |-> get_next_entry(p)]]
<1>2. step \in [Nat \ {0} -> [Ring -> Ring]]
  BY WalkIs
<1>3. PICK f : Recurs(f, Ring, ptr_first, step, Size)
  <2>1. PICK st, pf : st = step /\ pf = ptr_first
    OBVIOUS
  <2>2. st \in [Nat \ {0} -> [Ring -> Ring]] /\ pf \in Ring
    BY <1>2, <2>1
  <2> HIDE DEF step
  <2>3. PICK f : Recurs(f, Ring, pf, st, Size)
    BY <1>1, <2>2, Recursion, Zenon
  <2>4. QED
    BY <2>1, <2>3
<1>4. /\ f \in [0 .. Size -> Ring] /\ f[0] = ptr_first
      /\ \A k \in 1 .. Size : f[k] = step[k][f[k - 1]]
  BY <1>3 DEF Recurs
<1>5. ASSUME NEW k \in 0 .. Size
      PROVE  f[k] = IF k = 0 THEN ptr_first ELSE get_next_entry(f[k - 1])
  <2>1. CASE k = 0
    BY <1>4, <2>1
  <2>2. CASE k # 0
    <3>1. k \in 1 .. Size /\ k - 1 \in 0 .. Size /\ k \in Nat \ {0}
      BY <1>1, <2>2
    <3>2. PICK p \in Ring : p = f[k - 1]
      BY <1>4, <3>1
    <3>3. step[k][p] = get_next_entry(p)
      BY <3>1
    <3>4. f[k] = step[k][f[k - 1]]
      BY <1>4, <3>1
    <3> HIDE DEF step
    <3>5. QED
      BY <2>2, <3>2, <3>3, <3>4
  <2>3. QED
    BY <2>1, <2>2
<1> HIDE DEF step
<1>6. f = [i \in 0 .. Size |-> IF i = 0 THEN ptr_first ELSE get_next_entry(f[i - 1])]
  <2>1. f = [i \in 0 .. Size |-> f[i]]
    BY <1>4
  <2>2. QED
    BY <1>5, <2>1
<1> DEFINE G == CHOOSE g : g = [i \in 0 .. Size |->
                  IF i = 0 THEN ptr_first ELSE get_next_entry(g[i - 1])]
<1>7. G = [i \in 0 .. Size |-> IF i = 0 THEN ptr_first ELSE get_next_entry(G[i - 1])]
  BY <1>6
<1>8. \A n : EntryAfter(n) = G[n]
  BY DEF EntryAfter
<1> HIDE DEF G
<1>9. \A i \in 0 .. Size : G[i] = IF i = 0 THEN ptr_first ELSE get_next_entry(G[i - 1])
  BY <1>7
<1>10. ASSUME NEW i \in 1 .. Size PROVE EntryAfter(i) = get_next_entry(EntryAfter(i - 1))
  <2>1. i \in 0 .. Size /\ i # 0
    BY <1>1
  <2>2. G[i] = get_next_entry(G[i - 1])
    BY <1>9, <2>1
  <2>3. QED
    BY <1>8, <2>2
<1>11. EntryAfter(0) = ptr_first
  <2>1. 0 \in 0 .. Size
    BY <1>1
  <2>2. QED
    BY <1>8, <1>9, <2>1
<1>12. QED
  BY <1>10, <1>11

-----------------------------------------------------------------------------
(* What a reader finds, one fragment at a time.                            *)
Lens(F)  == [j \in DOMAIN F |-> buffer[F[j]].len]
Texts(F) == [j \in DOMAIN F |-> objectlog_get_fragment(F[j])]

(* The fragments F from p on hold the last m bytes of object o in z bytes. *)
Reads(F, p, o, m, z) ==
  /\ F \in Seq(Ring) /\ F # <<>> /\ F[1] = p
  /\ \A j \in DOMAIN F : F[j] + buffer[F[j]].len < Size
  /\ Len(F) + m = z
  /\ Lens(F) \in Seq(Nat) /\ LenOf(Lens(F)) = m
  /\ Texts(F) \in Seq(Seq({o} \X Nat)) /\ FlattenSeq(Texts(F)) = Whole(o, m)

Map(g, F) == [j \in DOMAIN F |-> g[F[j]]]

LEMMA MapCons ==
  ASSUME NEW T, NEW g \in [Ring -> T], NEW p \in Ring, NEW F \in Seq(Ring)
  PROVE  Map(g, <<p>> \o F) = <<g[p]>> \o Map(g, F) /\ Map(g, <<p>>) = <<g[p]>>
<1> DEFINE n == Len(F)
           s == [j \in DOMAIN F |-> g[F[j]]]
<1>1. n \in Nat /\ DOMAIN F = 1 .. n /\ \A j \in 1 .. n : F[j] \in Ring
  BY LenProperties
<1>2. s \in [1 .. n -> T]
  BY <1>1
<1>3. s \in Seq(T) /\ Len(s) = n
  BY <1>1, <1>2, LenProperties
<1>4. /\ <<p>> \in Seq(Ring) /\ Len(<<p>>) = 1 /\ <<p>>[1] = p
      /\ <<g[p]>> \in Seq(T) /\ Len(<<g[p]>>) = 1 /\ <<g[p]>>[1] = g[p]
      /\ DOMAIN <<p>> = 1 .. 1 /\ DOMAIN <<g[p]>> = 1 .. 1
  OBVIOUS
<1> HIDE DEF n, s
<1>5. /\ <<p>> \o F \in Seq(Ring) /\ Len(<<p>> \o F) = 1 + n
      /\ \A j \in 1 .. 1 + n : (<<p>> \o F)[j] = IF j <= 1 THEN <<p>>[j] ELSE F[j - 1]
  BY <1>4, ConcatProperties DEF n
<1>6. /\ <<g[p]>> \o s \in Seq(T) /\ Len(<<g[p]>> \o s) = 1 + n
      /\ \A j \in 1 .. 1 + n : (<<g[p]>> \o s)[j] = IF j <= 1 THEN <<g[p]>>[j] ELSE s[j - 1]
  BY <1>3, <1>4, ConcatProperties
<1>7. DOMAIN (<<p>> \o F) = 1 .. 1 + n /\ DOMAIN (<<g[p]>> \o s) = 1 .. 1 + n
  BY <1>5, <1>6, LenProperties
<1>8. ASSUME NEW j \in 1 .. 1 + n
      PROVE  g[(<<p>> \o F)[j]] = (<<g[p]>> \o s)[j]
  <2>1. CASE j <= 1
    <3>1. j = 1
      BY <1>1, <2>1
    <3>2. QED
      BY <1>4, <1>5, <1>6, <2>1, <3>1
  <2>2. CASE ~(j <= 1)
    <3>1. j - 1 \in 1 .. n
      BY <1>1, <2>2
    <3>2. s[j - 1] = g[F[j - 1]]
      BY <1>1, <3>1 DEF s
    <3>3. QED
      BY <1>5, <1>6, <2>2, <3>2
  <2>3. QED
    BY <2>1, <2>2
<1>9. <<g[p]>> \o s = [j \in 1 .. 1 + n |-> (<<g[p]>> \o s)[j]]
  BY <1>6, <1>7
<1>10. [j \in DOMAIN (<<p>> \o F) |-> g[(<<p>> \o F)[j]]] = <<g[p]>> \o s
  BY <1>7, <1>8, <1>9
<1>11. [j \in DOMAIN <<p>> |-> g[<<p>>[j]]] = <<g[p]>>
  <2>1. <<g[p]>> = [j \in 1 .. 1 |-> g[p]]
    OBVIOUS
  <2>2. [j \in DOMAIN <<p>> |-> g[<<p>>[j]]] = [j \in 1 .. 1 |-> g[p]]
    BY <1>4
  <2>3. QED
    BY <2>1, <2>2
<1>12. QED
  BY <1>10, <1>11 DEF s, Map

(* The k bytes of object o before its last m.                              *)
Piece(o, k, m) == [i \in 1 .. k |-> <<o, k + m + 1 - i>>]

LEMMA WholeType ==
  ASSUME NEW o, NEW k \in Nat, NEW m \in Nat
  PROVE  Piece(o, k, m) \in Seq({o} \X Nat) /\ Len(Piece(o, k, m)) = k
<1>1. \A i \in 1 .. k : k + m + 1 - i \in Nat
  OBVIOUS
<1>2. [i \in 1 .. k |-> <<o, k + m + 1 - i>>] \in [1 .. k -> {o} \X Nat]
  BY <1>1
<1>3. QED
  BY <1>2 DEF Piece

LEMMA WholeCons ==
  ASSUME NEW o, NEW k \in Nat, NEW m \in Nat
  PROVE  Piece(o, k, m) \o Whole(o, m) = Whole(o, k + m)
<1> DEFINE s == Piece(o, k, m)
           t == [i \in 1 .. m |-> <<o, m + 1 - i>>]
<1>1. s \in Seq({o} \X Nat) /\ Len(s) = k
  BY WholeType
<1>2. t \in Seq({o} \X Nat) /\ Len(t) = m
  <2>1. \A i \in 1 .. m : m + 1 - i \in Nat
    OBVIOUS
  <2>2. t \in [1 .. m -> {o} \X Nat]
    BY <2>1
  <2>3. QED
    BY <2>2
<1>3. /\ \A i \in 1 .. k : s[i] = <<o, k + m + 1 - i>>
      /\ \A i \in 1 .. m : t[i] = <<o, m + 1 - i>>
  BY DEF Piece
<1>4. t = Whole(o, m)
  BY DEF Whole
<1> HIDE DEF s, t
<1>5. /\ s \o t \in Seq({o} \X Nat) /\ Len(s \o t) = k + m
      /\ \A i \in 1 .. k + m : (s \o t)[i] = IF i <= k THEN s[i] ELSE t[i - k]
  BY <1>1, <1>2, ConcatProperties
<1>6. ASSUME NEW i \in 1 .. k + m PROVE (s \o t)[i] = <<o, k + m + 1 - i>>
  <2>1. CASE i <= k
    <3>1. i \in 1 .. k
      BY <2>1
    <3>2. QED
      BY <1>3, <1>5, <2>1, <3>1
  <2>2. CASE ~(i <= k)
    <3>1. i - k \in 1 .. m /\ m + 1 - (i - k) = k + m + 1 - i
      BY <2>2
    <3>2. QED
      BY <1>3, <1>5, <2>2, <3>1
  <2>3. QED
    BY <2>1, <2>2
<1>7. s \o t = [i \in 1 .. k + m |-> (s \o t)[i]]
  BY <1>5, LenProperties
<1>8. s \o t = [i \in 1 .. k + m |-> <<o, k + m + 1 - i>>]
  BY <1>6, <1>7
<1>9. s \o Whole(o, m) = Whole(o, k + m)
  BY <1>4, <1>8 DEF Whole
<1>10. QED
  BY <1>9 DEF s

LEMMA MapsCons ==
  ASSUME NEW p \in Ring, NEW F \in Seq(Ring), Cells(buffer)
  PROVE  /\ Lens(<<p>> \o F) = <<buffer[p].len>> \o Lens(F)
         /\ Texts(<<p>> \o F) = <<objectlog_get_fragment(p)>> \o Texts(F)
         /\ Lens(<<p>>) = <<buffer[p].len>>
         /\ Texts(<<p>>) = <<objectlog_get_fragment(p)>>
<1> DEFINE g == [q \in Ring |-> buffer[q].len]
           h == [q \in Ring |-> objectlog_get_fragment(q)]
           T == {objectlog_get_fragment(q) : q \in Ring}
<1>1. g \in [Ring -> Nat] /\ h \in [Ring -> T]
  BY DEF Cells
<1>2. /\ <<p>> \in Seq(Ring) /\ <<p>> \o F \in Seq(Ring)
      /\ g[p] = buffer[p].len /\ h[p] = objectlog_get_fragment(p)
  BY ConcatProperties
<1>3. ASSUME NEW s \in Seq(Ring)
      PROVE  Lens(s) = Map(g, s) /\ Texts(s) = Map(h, s)
  <2>1. \A j \in DOMAIN s : s[j] \in Ring
    OBVIOUS
  <2>2. QED
    BY <2>1 DEF Lens, Texts, Map
<1> HIDE DEF g, h, T
<1>4. /\ Lens(<<p>> \o F) = Map(g, <<p>> \o F) /\ Texts(<<p>> \o F) = Map(h, <<p>> \o F)
      /\ Lens(<<p>>) = Map(g, <<p>>) /\ Texts(<<p>>) = Map(h, <<p>>)
      /\ Lens(F) = Map(g, F) /\ Texts(F) = Map(h, F)
  BY <1>2, <1>3
<1>5. ASSUME NEW U, NEW m \in [Ring -> U]
      PROVE  Map(m, <<p>> \o F) = <<m[p]>> \o Map(m, F) /\ Map(m, <<p>>) = <<m[p]>>
  BY MapCons
<1>6. /\ Map(g, <<p>> \o F) = <<g[p]>> \o Map(g, F) /\ Map(g, <<p>>) = <<g[p]>>
      /\ Map(h, <<p>> \o F) = <<h[p]>> \o Map(h, F) /\ Map(h, <<p>>) = <<h[p]>>
  BY <1>1, <1>5
<1>7. QED
  BY <1>2, <1>4, <1>5, <1>6

LEMMA ReadsOne ==
  ASSUME Cells(buffer), NEW p \in Ring, NEW k \in Nat, k = buffer[p].len, p + k < Size,
         NEW o, objectlog_get_fragment(p) = Whole(o, k)
  PROVE  Reads(<<p>>, p, o, k, 1 + k)
<1>1. /\ <<p>> \in Seq(Ring) /\ <<p>> # <<>> /\ <<p>>[1] = p /\ Len(<<p>>) = 1
      /\ \A j \in DOMAIN <<p>> : <<p>>[j] = p
  OBVIOUS
<1>2. <<>> \in Seq(Ring)
  OBVIOUS
<1>3. Lens(<<p>>) = <<k>> /\ Texts(<<p>>) = <<Whole(o, k)>>
  BY <1>2, MapsCons
<1>4. LenOf(<<k>>) = k
  <2>1. <<k>> \o <<>> = <<k>> /\ <<>> \in Seq(Nat)
    OBVIOUS
  <2>2. LenOf(<<k>> \o <<>>) = k + LenOf(<<>>) /\ LenOf(<<>>) = 0
    BY <2>1, SumCons, SumType
  <2>3. QED
    BY <2>1, <2>2
<1>5. Whole(o, k) \in Seq({o} \X Nat)
  <2>1. Piece(o, k, 0) \in Seq({o} \X Nat)
    BY WholeType
  <2>2. \A i \in 1 .. k : k + 0 + 1 - i = k + 1 - i
    OBVIOUS
  <2>3. [i \in 1 .. k |-> <<o, k + 0 + 1 - i>>] = [i \in 1 .. k |-> <<o, k + 1 - i>>]
    BY <2>2
  <2>4. QED
    BY <2>1, <2>3 DEF Whole, Piece
<1>6. <<k>> \in Seq(Nat) /\ <<Whole(o, k)>> \in Seq(Seq({o} \X Nat))
  BY <1>5
<1>7. FlattenSeq(<<Whole(o, k)>>) = Whole(o, k)
  BY FlattenOne
<1>8. QED
  BY <1>1, <1>3, <1>4, <1>6, <1>7 DEF Reads

LEMMA ReadsCons ==
  ASSUME Cells(buffer), NEW p \in Ring, NEW k \in Nat, k = buffer[p].len, p + k < Size,
         NEW o, NEW m \in Nat, NEW z \in Nat, NEW F, NEW q, Reads(F, q, o, m, z),
         objectlog_get_fragment(p) = Piece(o, k, m)
  PROVE  Reads(<<p>> \o F, p, o, k + m, 1 + k + z)
<1>1. /\ F \in Seq(Ring) /\ F # <<>>
      /\ \A j \in DOMAIN F : F[j] + buffer[F[j]].len < Size
      /\ Len(F) + m = z
      /\ Lens(F) \in Seq(Nat) /\ LenOf(Lens(F)) = m
      /\ Texts(F) \in Seq(Seq({o} \X Nat)) /\ FlattenSeq(Texts(F)) = Whole(o, m)
  BY DEF Reads
<1> DEFINE G == <<p>> \o F
<1>2. <<p>> \in Seq(Ring) /\ Len(<<p>>) = 1 /\ <<p>>[1] = p
  OBVIOUS
<1>3. /\ G \in Seq(Ring) /\ Len(G) = 1 + Len(F)
      /\ \A j \in 1 .. 1 + Len(F) : G[j] = IF j <= 1 THEN <<p>>[j] ELSE F[j - 1]
  BY <1>1, <1>2, ConcatProperties
<1>4. Len(F) \in Nat /\ DOMAIN F = 1 .. Len(F) /\ DOMAIN G = 1 .. 1 + Len(F)
  BY <1>1, <1>3, LenProperties
<1> HIDE DEF G
<1>5. G[1] = p /\ G # <<>>
  <2>1. G[1] = p
    BY <1>2, <1>3, <1>4
  <2>2. Len(G) # 0 /\ Len(<<>>) = 0
    BY <1>3, <1>4
  <2>3. QED
    BY <2>1, <2>2
<1>6. ASSUME NEW j \in DOMAIN G PROVE G[j] + buffer[G[j]].len < Size
  <2>1. CASE j = 1
    BY <1>5, <2>1
  <2>2. CASE j # 1
    <3>1. j - 1 \in DOMAIN F /\ G[j] = F[j - 1]
      BY <1>3, <1>4, <2>2
    <3>2. QED
      BY <1>1, <3>1
  <2>3. QED
    BY <2>1, <2>2
<1>7. /\ Lens(G) = <<k>> \o Lens(F)
      /\ Texts(G) = <<objectlog_get_fragment(p)>> \o Texts(F)
  BY <1>1, MapsCons DEF G
<1>8. Lens(G) \in Seq(Nat) /\ LenOf(Lens(G)) = k + m
  <2>1. <<k>> \in Seq(Nat)
    OBVIOUS
  <2>2. <<k>> \o Lens(F) \in Seq(Nat)
    BY <1>1, <2>1, ConcatProperties
  <2>3. LenOf(<<k>> \o Lens(F)) = k + m
    BY <1>1, SumCons
  <2>4. QED
    BY <1>7, <2>2, <2>3
<1>9. Texts(F) # <<>>
  <2>1. DOMAIN Texts(F) = 1 .. Len(F) /\ DOMAIN Texts(F) = 1 .. Len(Texts(F))
    BY <1>1, <1>4, LenProperties DEF Texts
  <2>2. Len(F) # 0
    BY <1>1, EmptySeq
  <2>3. Len(Texts(F)) \in Nat
    BY <1>1, LenProperties
  <2>4. Len(Texts(F)) # 0
    BY <1>4, <2>1, <2>2, <2>3
  <2>5. QED
    BY <2>4
<1>10. PICK s \in Seq({o} \X Nat) : s = objectlog_get_fragment(p)
  BY WholeType
<1>11. Texts(G) \in Seq(Seq({o} \X Nat))
  <2>1. <<s>> \in Seq(Seq({o} \X Nat))
    OBVIOUS
  <2>2. <<s>> \o Texts(F) \in Seq(Seq({o} \X Nat))
    BY <1>1, <2>1, ConcatProperties
  <2>3. QED
    BY <1>7, <1>10, <2>2
<1>12. FlattenSeq(Texts(G)) = Whole(o, k + m)
  <2>1. FlattenSeq(<<s>> \o Texts(F)) = s \o Whole(o, m)
    <3>1. PICK S : S = {o} \X Nat
      OBVIOUS
    <3>2. s \in Seq(S) /\ Texts(F) \in Seq(Seq(S))
      BY <1>1, <3>1
    <3>3. FlattenSeq(<<s>> \o Texts(F)) = s \o FlattenSeq(Texts(F))
      BY <1>9, <3>2, FlattenCons
    <3>4. QED
      BY <1>1, <3>3
  <2>2. s \o Whole(o, m) = Whole(o, k + m)
    <3>1. s = Piece(o, k, m)
      BY <1>10
    <3>2. Piece(o, k, m) \o Whole(o, m) = Whole(o, k + m)
      BY WholeCons
    <3>3. QED
      BY <3>1, <3>2
  <2>3. Texts(G) = <<s>> \o Texts(F)
    BY <1>7, <1>10
  <2>4. QED
    BY <2>1, <2>2, <2>3, Zenon
<1>13. Len(G) + (k + m) = 1 + k + z
  BY <1>1, <1>3, <1>4
<1>14. Reads(G, p, o, k + m, 1 + k + z)
  BY <1>3, <1>5, <1>6, <1>8, <1>11, <1>12, <1>13 DEF Reads
<1>15. QED
  BY <1>14 DEF G

-----------------------------------------------------------------------------
(* A reader finds a stored object whole.                                   *)
ReadStep(f) ==
  \A left \in 0 .. Size, pos \in Ring :
    f[left][pos] = IF buffer[pos].final \/ left = 0 THEN <<pos>>
                   ELSE <<pos>> \o f[left - 1][Following(pos)]

LEMMA FragmentsIs ==
  ASSUME Cells(buffer)
  PROVE  \E f : ReadStep(f) /\ \A iter : Fragments(iter) = f[Size][iter]
<1>1. Size \in Nat
  BY Sizes
<1>2. ASSUME NEW pos \in Ring
      PROVE  /\ objectlog_next(pos) = NoMore <=> buffer[pos].final
             /\ ~buffer[pos].final => objectlog_next(pos) = Following(pos)
  <2>1. Following(pos) \in Nat
    BY FollowingType, Sizes DEF Ring
  <2>2. buffer[pos].final \in BOOLEAN
    BY DEF Cells
  <2>3. QED
    BY <2>1, <2>2 DEF objectlog_next, NoMore
<1> DEFINE D == [Ring -> Seq(Ring)]
           zero == [pos \in Ring |-> <<pos>>]
           step == [k \in Nat \ {0} |-> [g \in D |->
                     [pos \in Ring |->
                        IF buffer[pos].final THEN <<pos>>
                        ELSE <<pos>> \o g[Following(pos)]]]]
<1>3. zero \in D
  OBVIOUS
<1>4. step \in [Nat \ {0} -> [D -> D]]
  <2>1. ASSUME NEW g \in D
        PROVE  [pos \in Ring |-> IF buffer[pos].final THEN <<pos>>
                                 ELSE <<pos>> \o g[Following(pos)]] \in D
    <3>1. ASSUME NEW pos \in Ring
          PROVE  <<pos>> \in Seq(Ring) /\ <<pos>> \o g[Following(pos)] \in Seq(Ring)
      <4>1. <<pos>> \in Seq(Ring) /\ g[Following(pos)] \in Seq(Ring)
        BY FollowingType
      <4>2. QED
        BY <4>1, ConcatProperties
    <3>2. QED
      BY <3>1
  <2> HIDE DEF D
  <2>2. QED
    BY <2>1
<1>5. PICK f : Recurs(f, D, zero, step, Size)
  <2>1. PICK E, z, st : E = D /\ z = zero /\ st = step
    OBVIOUS
  <2>2. z \in E /\ st \in [Nat \ {0} -> [E -> E]]
    BY <1>3, <1>4, <2>1
  <2>3. PICK f : Recurs(f, E, z, st, Size)
    BY <1>1, <2>2, Recursion, Zenon
  <2>4. QED
    BY <2>1, <2>3
<1>6. f \in [0 .. Size -> D] /\ f[0] = zero /\ \A k \in 1 .. Size : f[k] = step[k][f[k - 1]]
  BY <1>5 DEF Recurs
<1>7. ASSUME NEW k \in 0 .. Size
      PROVE  f[k] = [pos \in Ring |->
                       IF objectlog_next(pos) = NoMore \/ k = 0 THEN <<pos>>
                       ELSE <<pos>> \o f[k - 1][objectlog_next(pos)]]
  <2>1. CASE k = 0
    BY <1>6, <2>1
  <2>2. CASE k # 0
    <3>1. k \in 1 .. Size /\ k \in Nat \ {0} /\ k - 1 \in 0 .. Size
      BY <1>1, <2>2
    <3>2. PICK g \in D : g = f[k - 1]
      BY <1>6, <3>1
    <3>3. f[k] = step[k][f[k - 1]]
      BY <1>6, <3>1
    <3>4. step[k][g] = [pos \in Ring |-> IF buffer[pos].final THEN <<pos>>
                                         ELSE <<pos>> \o g[Following(pos)]]
      <4> HIDE DEF D
      <4>1. QED
        BY <3>1
    <3> HIDE DEF step, D
    <3>5. ASSUME NEW pos \in Ring
          PROVE  (IF objectlog_next(pos) = NoMore \/ k = 0 THEN <<pos>>
                  ELSE <<pos>> \o f[k - 1][objectlog_next(pos)])
                 = IF buffer[pos].final THEN <<pos>> ELSE <<pos>> \o g[Following(pos)]
      BY <1>2, <2>2, <3>2
    <3>6. QED
      BY <3>2, <3>3, <3>4, <3>5
  <2>3. QED
    BY <2>1, <2>2
<1> HIDE DEF zero, step, D
<1>8. f = [k \in 0 .. Size |-> [pos \in Ring |->
             IF objectlog_next(pos) = NoMore \/ k = 0 THEN <<pos>>
             ELSE <<pos>> \o f[k - 1][objectlog_next(pos)]]]
  <2>1. f = [k \in 0 .. Size |-> f[k]]
    BY <1>6
  <2>2. QED
    BY <1>7, <2>1
<1> DEFINE G == CHOOSE g : g = [k \in 0 .. Size |-> [pos \in Ring |->
                  IF objectlog_next(pos) = NoMore \/ k = 0 THEN <<pos>>
                  ELSE <<pos>> \o g[k - 1][objectlog_next(pos)]]]
<1>9. G = [k \in 0 .. Size |-> [pos \in Ring |->
             IF objectlog_next(pos) = NoMore \/ k = 0 THEN <<pos>>
             ELSE <<pos>> \o G[k - 1][objectlog_next(pos)]]]
  BY <1>8
<1>10. \A iter : Fragments(iter) = G[Size][iter]
  BY DEF Fragments
<1> HIDE DEF G
<1>11. ReadStep(G)
  <2>1. ASSUME NEW left \in 0 .. Size, NEW pos \in Ring
        PROVE  G[left][pos] = IF buffer[pos].final \/ left = 0 THEN <<pos>>
                              ELSE <<pos>> \o G[left - 1][Following(pos)]
    <3>1. G[left] = [p \in Ring |->
                       IF objectlog_next(p) = NoMore \/ left = 0 THEN <<p>>
                       ELSE <<p>> \o G[left - 1][objectlog_next(p)]]
      BY <1>9, Zenon
    <3>2. G[left][pos] = IF objectlog_next(pos) = NoMore \/ left = 0 THEN <<pos>>
                         ELSE <<pos>> \o G[left - 1][objectlog_next(pos)]
      BY <3>1
    <3>3. QED
      BY <1>2, <3>2
  <2>2. QED
    BY <2>1 DEF ReadStep
<1>12. QED
  BY <1>10, <1>11

(* The bytes of a fragment of a stored object.                             *)
LEMMA FragmentRead ==
  ASSUME Cells(buffer), NEW a \in Ring, NEW z \in 1 .. Size - 1, NEW o, NEW H, NEW c,
         NEW x \in 0 .. z - 1, FragmentAt(buffer, a, z, 0, o, 0, H, c, x)
  PROVE  \A k, m \in Nat : k = buffer[At(a, x)].len /\ c[x] = k + m
           => objectlog_get_fragment(At(a, x)) = Piece(o, k, m)
<1> SUFFICES ASSUME NEW k \in Nat, NEW m \in Nat, k = buffer[At(a, x)].len, c[x] = k + m
             PROVE  objectlog_get_fragment(At(a, x)) = Piece(o, k, m)
  OBVIOUS
<1>1. /\ At(a, x) + k < Size /\ x + 1 + k <= z
      /\ \A i \in 1 .. k : x + i < z => buffer[At(a, x + i)].data = <<o, k + m + 1 - i>>
  <2>1. z + 0 = z
    OBVIOUS
  <2>2. QED
    BY <2>1 DEF FragmentAt
<1>2. x \in 0 .. z - 1 /\ Size \in Nat /\ x \in 0 .. Size /\ z \in Nat
  BY Sizes
<1>3. At(a, x) \in Ring /\ At(a, x) \in Nat
  BY <1>2, AtType, Sizes DEF Ring
<1>4. ASSUME NEW i \in 1 .. k
      PROVE  At(a, x) + i \in Ring /\ buffer[At(a, x) + i].data = <<o, k + m + 1 - i>>
  <2>1. x + i < z /\ x + i <= Size /\ i \in Nat /\ At(a, x) + i < Size
    BY <1>1, <1>2, <1>3
  <2>2. At(a, x) + i = At(a, x + i)
    BY <1>2, <2>1, AtPlus
  <2>3. At(a, x) + i \in Ring
    BY <1>2, <1>3, <2>1 DEF Ring
  <2>4. QED
    BY <1>1, <2>1, <2>2, <2>3
<1>5. QED
  BY <1>4 DEF objectlog_get_fragment, Piece

LEMMA ReadStored ==
  ASSUME Cells(buffer), NEW a \in Ring, NEW z \in 1 .. Size - 1, NEW o, NEW n \in Nat,
         Stored(buffer, a, z, o, n)
  PROVE  Reads(Fragments(a), a, o, n, z)
<1>1. PICK f : ReadStep(f) /\ Fragments(a) = f[Size][a]
  BY FragmentsIs
<1>2. PICK H, c : FragmentsAt(buffer, a, z, 0, o, n, 0, H, c)
  BY DEF Stored, Fragmented
<1>3. /\ H \in SUBSET (0 .. z - 1) /\ c \in [H -> Nat] /\ 0 \in H /\ c[0] = n
      /\ \A x \in H : FragmentAt(buffer, a, z, 0, o, 0, H, c, x)
  BY <1>2 DEF FragmentsAt
<1>4. Size \in Nat /\ z \in Nat /\ z < Size
  BY Sizes
<1> DEFINE T == {k \in Nat : \A left \in 0 .. Size, x \in H :
                   z - x <= k /\ k <= left
                     => Reads(f[left][At(a, x)], At(a, x), o, c[x], z - x)}
<1>5. 0 \in T
  BY <1>3, <1>4
<1>6. ASSUME NEW k \in T PROVE k + 1 \in T
  <2>1. k \in Nat /\ k + 1 \in Nat
    OBVIOUS
  <2>2. ASSUME NEW left \in 0 .. Size, NEW x \in H, z - x <= k + 1, k + 1 <= left
        PROVE  Reads(f[left][At(a, x)], At(a, x), o, c[x], z - x)
    <3>1. x \in 0 .. z - 1 /\ FragmentAt(buffer, a, z, 0, o, 0, H, c, x)
      BY <1>3
    <3>2. x \in 0 .. Size /\ x \in Nat
      BY <1>4, <3>1
    <3>3. PICK p \in Ring : p = At(a, x)
      BY <3>2, AtType
    <3>4. PICK len \in Nat : len = buffer[p].len
      BY DEF Cells
    <3>5. PICK y \in Nat : y = x + 1 + len
      BY <3>2
    <3>6. /\ y <= z /\ p + len < Size
          /\ y = z => buffer[p].final = TRUE /\ c[x] = len
          /\ y # z => buffer[p].final = FALSE /\ y \in H /\ c[x] = len + c[y]
      <4>1. /\ x + 1 + len <= z + 0 /\ p + len < Size
            /\ x + 1 + len = z + 0 => buffer[p].final = (0 = 0) /\ c[x] = len + 0 - 0
            /\ x + 1 + len # z + 0 => /\ buffer[p].final = FALSE /\ x + 1 + len \in H
                                      /\ c[x] = len + c[x + 1 + len]
        BY <3>1, <3>3, <3>4, Zenon DEF FragmentAt
      <4>2. (0 = 0) = TRUE /\ z + 0 = z /\ len + 0 - 0 = len
        BY <1>4
      <4>3. QED
        BY <3>5, <4>1, <4>2
    <3>7. Following(p) = At(a, y)
      BY <1>4, <3>2, <3>3, <3>4, <3>5, <3>6, FollowingAt
    <3>8. f[left][p] = IF buffer[p].final \/ left = 0 THEN <<p>>
                       ELSE <<p>> \o f[left - 1][At(a, y)]
      BY <1>1, <3>7 DEF ReadStep
    <3>9. CASE y = z
      <4>1. f[left][p] = <<p>> /\ c[x] = len + 0
        BY <3>6, <3>8, <3>9
      <4>2. objectlog_get_fragment(p) = Piece(o, len, 0)
        <5>1. \A k1, m1 \in Nat : k1 = buffer[p].len /\ c[x] = k1 + m1
                => objectlog_get_fragment(p) = Piece(o, k1, m1)
          BY <3>1, <3>3, FragmentRead
        <5>2. QED
          BY <3>4, <4>1, <5>1
      <4>3. Piece(o, len, 0) = Whole(o, len)
        <5>1. \A i \in 1 .. len : len + 0 + 1 - i = len + 1 - i
          OBVIOUS
        <5>2. QED
          BY <5>1 DEF Piece, Whole
      <4>4. Reads(<<p>>, p, o, len, 1 + len)
        BY <3>4, <3>6, <4>2, <4>3, ReadsOne
      <4>5. 1 + len = z - x /\ c[x] = len
        BY <3>2, <3>5, <3>6, <3>9
      <4>6. QED
        BY <3>3, <4>1, <4>4, <4>5
    <3>10. CASE y # z
      <4>1. left # 0 /\ left - 1 \in 0 .. Size /\ z - y <= k /\ k <= left - 1
        BY <1>4, <2>1, <2>2, <3>2, <3>5
      <4>2. PICK F : F = f[left - 1][At(a, y)]
        OBVIOUS
      <4>3. Reads(F, At(a, y), o, c[y], z - y)
        BY <3>6, <3>10, <4>1, <4>2
      <4>4. PICK m \in Nat : m = c[y]
        BY <1>3, <3>6, <3>10
      <4>5. c[x] = len + m /\ z - y \in Nat
        BY <1>4, <3>6, <3>10, <4>4
      <4>6. objectlog_get_fragment(p) = Piece(o, len, m)
        <5>1. \A k1, m1 \in Nat : k1 = buffer[p].len /\ c[x] = k1 + m1
                => objectlog_get_fragment(p) = Piece(o, k1, m1)
          BY <3>1, <3>3, FragmentRead
        <5>2. QED
          BY <3>4, <4>5, <5>1
      <4>7. Reads(<<p>> \o F, p, o, len + m, 1 + len + (z - y))
        BY <3>4, <3>6, <4>3, <4>4, <4>5, <4>6, ReadsCons
      <4>8. 1 + len + (z - y) = z - x
        BY <1>4, <3>2, <3>5
      <4>9. f[left][p] = <<p>> \o F
        BY <3>6, <3>8, <3>10, <4>1, <4>2
      <4>10. QED
        BY <3>3, <4>5, <4>7, <4>8, <4>9
    <3>11. QED
      BY <3>9, <3>10
  <2>3. QED
    BY <2>1, <2>2
<1>7. T \in SUBSET Nat
  OBVIOUS
<1>8. z \in T
  <2> HIDE DEF T
  <2>1. QED
    BY <1>4, <1>5, <1>6, <1>7, Induct
<1>9. Reads(f[Size][At(a, 0)], At(a, 0), o, c[0], z - 0)
  BY <1>3, <1>4, <1>8
<1>10. At(a, 0) = a /\ z - 0 = z
  <2>1. 0 \in 0 .. Size
    BY <1>4
  <2>2. QED
    BY <1>4, <2>1, AtType
<1>11. QED
  BY <1>1, <1>3, <1>9, <1>10

-----------------------------------------------------------------------------
(* The objects in the log, as the invariant places them.                   *)
LEMMA Split ==
  ASSUME NEW S, NEW s \in Seq(S), s # <<>>
  PROVE  Head(s) \in S /\ Tail(s) \in Seq(S) /\ s = <<Head(s)>> \o Tail(s)
<1>1. /\ Head(s) \in S /\ Tail(s) \in Seq(S) /\ Head(s) = s[1]
      /\ Len(s) \in Nat \ {0} /\ Len(Tail(s)) = Len(s) - 1
      /\ \A i \in 1 .. Len(Tail(s)) : Tail(s)[i] = s[i + 1]
  BY EmptySeq, HeadTailProperties
<1> DEFINE t == <<Head(s)>> \o Tail(s)
<1>2. <<Head(s)>> \in Seq(S) /\ Len(<<Head(s)>>) = 1 /\ <<Head(s)>>[1] = Head(s)
  BY <1>1
<1>3. /\ t \in Seq(S) /\ Len(t) = 1 + Len(Tail(s))
      /\ \A i \in 1 .. 1 + Len(Tail(s)) :
           t[i] = IF i <= 1 THEN <<Head(s)>>[i] ELSE Tail(s)[i - 1]
  BY <1>1, <1>2, ConcatProperties
<1> HIDE DEF t
<1>4. Len(t) = Len(s)
  BY <1>1, <1>3
<1>5. ASSUME NEW i \in 1 .. Len(s) PROVE t[i] = s[i]
  <2>1. CASE i = 1
    BY <1>1, <1>2, <1>3, <2>1
  <2>2. CASE i # 1
    <3>1. i - 1 \in 1 .. Len(Tail(s)) /\ (i - 1) + 1 = i /\ ~(i <= 1)
      BY <1>1, <2>2
    <3>2. QED
      BY <1>1, <1>3, <3>1
  <2>3. QED
    BY <2>1, <2>2
<1>6. t = s
  BY <1>3, <1>4, <1>5, SeqEqual
<1>7. QED
  BY <1>1, <1>6 DEF t

LEMMA LenPositive ==
  ASSUME NEW s \in Seq(Nat \ {0}), s # <<>>
  PROVE  /\ Head(s) \in Nat \ {0} /\ Tail(s) \in Seq(Nat \ {0})
         /\ LenOf(Tail(s)) \in Nat /\ LenOf(s) = Head(s) + LenOf(Tail(s))
<1>1. /\ Head(s) \in Nat \ {0} /\ Tail(s) \in Seq(Nat \ {0})
      /\ s = <<Head(s)>> \o Tail(s)
  BY Split
<1>2. Tail(s) \in Seq(Nat) /\ Head(s) \in Nat
  BY <1>1
<1>3. LenOf(<<Head(s)>> \o Tail(s)) = Head(s) + LenOf(Tail(s))
  BY <1>2, SumCons
<1>4. QED
  BY <1>1, <1>2, <1>3, SumType

LEMMA RoomFits ==
  ASSUME NEW m, NEW n, Writable(m), Writable(n)
  PROVE  /\ m \in Nat \ {0} /\ n \in Nat \ {0} /\ Room(m) \in Nat /\ Room(n) \in Nat
         /\ Room(m) + Room(n) <= Size
<1>1. PICK a \in Scatter : ~Refused(a) /\ LenOf(a) = m
  BY DEF Writable
<1>2. PICK b \in Scatter : ~Refused(b) /\ LenOf(b) = n
  BY DEF Writable
<1>3. Takes(a) + Takes(b) <= Size
  BY <1>1, <1>2, TwoFit
<1>4. Takes(a) = Room(m) /\ Takes(b) = Room(n)
  BY <1>1, <1>2 DEF Takes, Room, Ceil
<1>5. a \in Seq(Nat \ {0}) /\ a # <<>> /\ b \in Seq(Nat \ {0}) /\ b # <<>>
  BY Sizes
<1>6. m \in Nat \ {0} /\ n \in Nat \ {0}
  <2>1. Head(a) \in Nat \ {0} /\ LenOf(Tail(a)) \in Nat /\ m = Head(a) + LenOf(Tail(a))
    BY <1>1, <1>5, LenPositive
  <2>2. Head(b) \in Nat \ {0} /\ LenOf(Tail(b)) \in Nat /\ n = Head(b) + LenOf(Tail(b))
    BY <1>2, <1>5, LenPositive
  <2>3. \A x \in Nat \ {0}, y \in Nat : x + y \in Nat \ {0}
    OBVIOUS
  <2>4. QED
    BY <2>1, <2>2, <2>3
<1>7. Ceil(m) \in Nat /\ Ceil(n) \in Nat
  BY <1>6, CeilIs
<1>8. QED
  BY <1>3, <1>4, <1>6, <1>7 DEF Room

LEMMA Offsets ==
  ASSUME num_entries \in Nat, NEW off, Placed(off)
  PROVE  \A i \in 1 .. num_entries + 1, k \in Nat :
           i + k <= num_entries + 1 => off[i] + k <= off[i + k]
<1>1. PICK N \in Nat : N = num_entries
  OBVIOUS
<1>2. /\ off \in [1 .. N + 1 -> 0 .. Size]
      /\ \A k \in 1 .. N : off[k] < off[k + 1]
  BY <1>1 DEF Placed
<1>3. Size \in Nat
  BY Sizes
<1> DEFINE T == {k \in Nat : \A i \in 1 .. N + 1 :
                   i + k <= N + 1 => off[i] + k <= off[i + k]}
<1>4. 0 \in T
  BY <1>2, <1>3
<1>5. ASSUME NEW k \in T PROVE k + 1 \in T
  <2>1. k \in Nat /\ k + 1 \in Nat
    OBVIOUS
  <2>2. ASSUME NEW i \in 1 .. N + 1, i + (k + 1) <= N + 1
        PROVE  off[i] + (k + 1) <= off[i + (k + 1)]
    <3>1. /\ i + k <= N + 1 /\ i + k \in 1 .. N /\ (i + k) + 1 = i + (k + 1)
          /\ i + k \in 1 .. N + 1 /\ i + (k + 1) \in 1 .. N + 1
      BY <2>1, <2>2
    <3>2. off[i] + k <= off[i + k]
      BY <3>1
    <3>3. off[i + k] < off[i + (k + 1)]
      BY <1>2, <3>1
    <3>4. off[i] \in Int /\ off[i + k] \in Int /\ off[i + (k + 1)] \in Int
      BY <1>2, <1>3, <3>1
    <3>5. QED
      BY <2>1, <3>2, <3>3, <3>4
  <2>3. QED
    BY <2>1, <2>2
<1>6. T \in SUBSET Nat
  OBVIOUS
<1>7. \A k \in Nat : k \in T
  <2> HIDE DEF T
  <2>1. QED
    BY <1>4, <1>5, <1>6, Induct
<1>8. QED
  BY <1>1, <1>7

(* Where object k is, and what is there.                                   *)
LEMMA ObjectIs ==
  ASSUME Kinds, NEW off, Placed(off), NEW k \in 1 .. num_entries
  PROVE  /\ k + 1 \in 1 .. num_entries + 1
         /\ written[k] \in (0 .. Names - 1) \X Nat /\ written[k][2] \in Nat
         /\ off[k] \in 0 .. Size /\ off[k + 1] \in 0 .. Size /\ off[k] < off[k + 1]
         /\ off[k + 1] - off[k] \in 1 .. Size - 1
         /\ At(ptr_first, off[k]) \in Ring
         /\ Stored(buffer, At(ptr_first, off[k]), off[k + 1] - off[k],
                   written[k][1], written[k][2])
         /\ get_next_entry(At(ptr_first, off[k])) = At(ptr_first, off[k + 1])
<1>1. /\ Cells(buffer) /\ ptr_first \in Ring /\ num_entries \in Nat
      /\ written \in Seq((0 .. Names - 1) \X Nat) /\ Len(written) = num_entries
  BY DEF Kinds
<1>2. /\ off \in [1 .. num_entries + 1 -> 0 .. Size]
      /\ off[k] < off[k + 1] /\ off[k + 1] - off[k] <= Room(written[k][2])
      /\ Writable(written[k][2])
      /\ Stored(buffer, At(ptr_first, off[k]), off[k + 1] - off[k],
                written[k][1], written[k][2])
  BY DEF Placed
<1>3. k \in 1 .. num_entries + 1 /\ k + 1 \in 1 .. num_entries + 1
  BY <1>1
<1>4. Size \in Nat
  BY Sizes
<1>5. off[k] \in 0 .. Size /\ off[k + 1] \in 0 .. Size
  BY <1>2, <1>3
<1>6. written[k] \in (0 .. Names - 1) \X Nat
  BY <1>1
<1>7. PICK n : n = written[k][2]
  OBVIOUS
<1>8. n \in Nat \ {0} /\ Room(n) \in Nat /\ Room(n) + Room(n) <= Size
  BY <1>2, <1>7, RoomFits
<1>9. PICK p, q \in 0 .. Size : p = off[k] /\ q = off[k + 1]
  BY <1>5
<1>10. p < q /\ q - p <= Room(n)
  BY <1>2, <1>7, <1>9
<1>11. q - p \in 1 .. Size - 1
  BY <1>4, <1>8, <1>10
<1>12. PICK a \in Ring : a = At(ptr_first, p)
  BY <1>1, AtType
<1>13. Stored(buffer, a, q - p, written[k][1], n)
  BY <1>2, <1>7, <1>9, <1>12
<1>14. get_next_entry(a) = At(a, q - p)
  BY <1>1, <1>11, <1>13, NextEntry
<1>15. At(a, q - p) = At(ptr_first, q)
  <2>1. p \in Nat /\ q - p \in Nat /\ p + (q - p) <= Size /\ p + (q - p) = q
    BY <1>4, <1>11
  <2>2. At(At(ptr_first, p), q - p) = At(ptr_first, p + (q - p))
    BY <1>1, <2>1, AtAt
  <2>3. QED
    BY <1>12, <2>1, <2>2
<1>16. QED
  BY <1>2, <1>3, <1>5, <1>6, <1>7, <1>8, <1>9, <1>11, <1>12, <1>14, <1>15

LEMMA EntryAt ==
  ASSUME Kinds, NEW off, Placed(off)
  PROVE  \A k \in 1 .. num_entries : EntryAfter(k - 1) = At(ptr_first, off[k])
<1>1. Cells(buffer) /\ ptr_first \in Ring /\ num_entries \in Nat
  BY DEF Kinds
<1>2. /\ EntryAfter(0) = ptr_first
      /\ \A i \in 1 .. Size : EntryAfter(i) = get_next_entry(EntryAfter(i - 1))
  BY <1>1, EntryIs
<1>3. Size \in Nat
  BY Sizes
<1>4. num_entries <= Size
  <2>1. off[1] = 0 /\ off \in [1 .. num_entries + 1 -> 0 .. Size]
    BY DEF Placed
  <2>2. 1 \in 1 .. num_entries + 1 /\ 1 + num_entries \in 1 .. num_entries + 1
    BY <1>1
  <2>3. off[1] + num_entries <= off[1 + num_entries]
    BY <1>1, <2>2, Offsets
  <2>4. off[1 + num_entries] \in 0 .. Size
    BY <2>1, <2>2
  <2>5. QED
    BY <1>1, <1>3, <2>1, <2>3, <2>4
<1> DEFINE T == {i \in Nat : i < num_entries => EntryAfter(i) = At(ptr_first, off[i + 1])}
<1>5. 0 \in T
  <2>1. off[0 + 1] = 0 /\ 0 \in 0 .. Size
    BY <1>3 DEF Placed
  <2>2. QED
    BY <1>1, <1>2, <2>1, AtType
<1>6. ASSUME NEW i \in T PROVE i + 1 \in T
  <2>1. i \in Nat /\ i + 1 \in Nat
    OBVIOUS
  <2>2. ASSUME i + 1 < num_entries PROVE EntryAfter(i + 1) = At(ptr_first, off[(i + 1) + 1])
    <3>1. /\ i + 1 \in 1 .. Size /\ (i + 1) - 1 = i /\ i + 1 \in 1 .. num_entries
          /\ i < num_entries
      BY <1>1, <1>3, <1>4, <2>1, <2>2
    <3>2. EntryAfter(i) = At(ptr_first, off[i + 1])
      BY <3>1
    <3>3. get_next_entry(At(ptr_first, off[i + 1])) = At(ptr_first, off[(i + 1) + 1])
      BY <3>1, ObjectIs
    <3>4. EntryAfter(i + 1) = get_next_entry(EntryAfter(i))
      BY <1>2, <3>1
    <3>5. QED
      BY <3>2, <3>3, <3>4
  <2>3. QED
    BY <2>1, <2>2
<1>7. T \in SUBSET Nat
  OBVIOUS
<1>8. ASSUME NEW k \in 1 .. num_entries PROVE EntryAfter(k - 1) = At(ptr_first, off[k])
  <2>1. k - 1 \in Nat /\ k - 1 < num_entries /\ (k - 1) + 1 = k
    BY <1>1
  <2>2. k - 1 \in T
    <3> HIDE DEF T
    <3>1. QED
      BY <1>5, <1>6, <1>7, <2>1, Induct
  <2>3. QED
    BY <2>1, <2>2
<1>9. QED
  BY <1>8

LEMMA Found ==
  ASSUME Kinds, NEW off, Placed(off), NEW k \in 1 .. num_entries
  PROVE  /\ objectlog_iterator(k - 1) = At(ptr_first, off[k])
         /\ Reads(Fragments(At(ptr_first, off[k])), At(ptr_first, off[k]),
                  written[k][1], written[k][2], off[k + 1] - off[k])
<1>1. Cells(buffer) /\ num_entries \in Nat
  BY DEF Kinds
<1>2. ~(k - 1 < 0) /\ ~(k - 1 >= num_entries)
  BY <1>1
<1>3. objectlog_iterator(k - 1) = EntryAfter(k - 1)
  BY <1>2 DEF objectlog_iterator
<1>4. EntryAfter(k - 1) = At(ptr_first, off[k])
  BY EntryAt
<1>5. PICK a, z, o, n :
        a = At(ptr_first, off[k]) /\ z = off[k + 1] - off[k]
        /\ o = written[k][1] /\ n = written[k][2]
  OBVIOUS
<1>6. a \in Ring /\ z \in 1 .. Size - 1 /\ n \in Nat /\ Stored(buffer, a, z, o, n)
  BY <1>5, ObjectIs
<1>7. Reads(Fragments(a), a, o, n, z)
  BY <1>1, <1>6, ReadStored
<1>8. QED
  BY <1>3, <1>4, <1>5, <1>7

(* What is not to be lost: the objects and their sizes, as they were       *)
(* written.                                                                *)
LEMMA InvReads ==
  Inv => EveryObjectReadable /\ FragmentsContiguous
<1> SUFFICES ASSUME Inv PROVE EveryObjectReadable /\ FragmentsContiguous
  OBVIOUS
<1>1. PICK off : Kinds /\ Placed(off)
  BY DEF Inv
<1>2. /\ num_entries \in Nat /\ DOMAIN written = 1 .. num_entries
      /\ ptr_first \in Ring
  BY <1>1 DEF Kinds
<1>3. ASSUME NEW k \in 1 .. num_entries
      PROVE  /\ ObjectAt(objectlog_iterator(k - 1)) = Whole(written[k][1], written[k][2])
             /\ objectlog_get_object_size(k - 1) = written[k][2]
             /\ \A j \in DOMAIN Fragments(objectlog_iterator(k - 1)) :
                  Fragments(objectlog_iterator(k - 1))[j]
                    + buffer[Fragments(objectlog_iterator(k - 1))[j]].len < Size
  <2>1. PICK a, F : a = objectlog_iterator(k - 1) /\ F = Fragments(a)
    OBVIOUS
  <2>2. a \in Ring /\ Reads(F, a, written[k][1], written[k][2], off[k + 1] - off[k])
    BY <1>1, <2>1, Found, ObjectIs
  <2>3. FlattenSeq(Texts(F)) = Whole(written[k][1], written[k][2])
    BY <2>2 DEF Reads
  <2>4. ObjectAt(a) = FlattenSeq(Texts(F))
    BY <2>1 DEF ObjectAt, Texts
  <2>5. a # Failed
    BY <2>2, Sizes DEF Ring, Failed
  <2>6. objectlog_get_object_size(k - 1) = LenOf(Lens(F))
    BY <2>1, <2>5 DEF objectlog_get_object_size, Lens
  <2>7. LenOf(Lens(F)) = written[k][2] /\ \A j \in DOMAIN F : F[j] + buffer[F[j]].len < Size
    BY <2>2 DEF Reads
  <2>8. QED
    BY <2>1, <2>3, <2>4, <2>6, <2>7
<1>4. Objects = [i \in DOMAIN written |-> Whole(written[i][1], written[i][2])]
  BY <1>2, <1>3 DEF Objects
<1>5. \A i \in DOMAIN written : objectlog_get_object_size(i - 1) = written[i][2]
  BY <1>2, <1>3
<1>6. EveryObjectReadable
  BY <1>4, <1>5 DEF EveryObjectReadable
<1>7. FragmentsContiguous
  BY <1>3 DEF FragmentsContiguous
<1>8. QED
  BY <1>6, <1>7

(* The write position is where get_next_entry looks, between the calls.    *)
LEMMA EndIs ==
  ASSUME Kinds, NEW off, Placed(off), Ends(off), pc # "write"
  PROVE  get_next_entry(ptr_last) = write_ptr
<1>1. /\ Cells(buffer) /\ num_entries \in Nat
      /\ write_ptr = At(ptr_first, off[num_entries + 1])
  BY DEF Kinds, Ends
<1>2. CASE num_entries > 0
  <2>1. num_entries \in 1 .. num_entries
    BY <1>1, <1>2
  <2>2. ptr_last = At(ptr_first, off[num_entries])
    BY <1>2 DEF Ends
  <2>3. QED
    BY <1>1, <2>1, <2>2, ObjectIs
<1>3. CASE ~(num_entries > 0)
  <2>1. num_entries = 0 /\ ptr_first = 0 /\ ptr_last = 0 /\ \A i \in Ring : buffer[i] = Zero
    BY <1>1, <1>3 DEF Ends
  <2>2. off[num_entries + 1] = 0
    BY <2>1 DEF Placed
  <2>3. get_next_entry(0) = 0
    BY <1>1, <2>1, NoEntry
  <2>4. At(0, 0) = 0
    BY Sizes DEF At
  <2>5. QED
    BY <1>1, <2>1, <2>2, <2>3, <2>4
<1>4. QED
  BY <1>2, <1>3

LEMMA InvEnds ==
  Inv => EndsMeet
<1> SUFFICES ASSUME Inv, pc = "idle"
             PROVE  /\ \A i \in 1 .. num_entries - 1 :
                         objectlog_iterator(-i) = objectlog_iterator(num_entries - i)
                    /\ num_entries > 1 => objectlog_iterator(-1) = ptr_last
                    /\ get_next_entry(ptr_last) = write_ptr
  BY DEF EndsMeet
<1>1. PICK off : Kinds /\ Placed(off) /\ Ends(off)
  BY DEF Inv
<1>2. num_entries \in Nat
  BY <1>1 DEF Kinds
<1>3. ASSUME NEW i \in 1 .. num_entries - 1
      PROVE  /\ objectlog_iterator(-i) = EntryAfter(num_entries - i)
             /\ objectlog_iterator(num_entries - i) = EntryAfter(num_entries - i)
  <2>1. /\ -i < 0 /\ ~(-(-i) >= num_entries) /\ num_entries + (-i) = num_entries - i
        /\ ~(num_entries - i < 0) /\ ~(num_entries - i >= num_entries)
    BY <1>2
  <2>2. QED
    BY <2>1 DEF objectlog_iterator
<1>4. ASSUME num_entries > 1 PROVE objectlog_iterator(-1) = ptr_last
  <2>1. 1 \in 1 .. num_entries - 1 /\ num_entries \in 1 .. num_entries /\ num_entries > 0
    BY <1>2, <1>4
  <2>2. EntryAfter(num_entries - 1) = At(ptr_first, off[num_entries])
    BY <1>1, <2>1, EntryAt
  <2>3. ptr_last = At(ptr_first, off[num_entries])
    BY <1>1, <2>1 DEF Ends
  <2>4. QED
    BY <1>3, <2>1, <2>2, <2>3
<1>5. get_next_entry(ptr_last) = write_ptr
  BY <1>1, EndIs
<1>6. QED
  BY <1>3, <1>4, <1>5

(* The bytes in use lie from the first object to the write position.       *)
LEMMA InUseIs ==
  ASSUME Kinds, NEW off, Placed(off)
  PROVE  InUse = off[num_entries + 1]
<1>1. PICK N \in Nat : N = num_entries
  BY DEF Kinds
<1> DEFINE s == [i \in 1 .. N |-> off[i + 1] - off[i]]
<1>2. /\ off \in [1 .. N + 1 -> 0 .. Size] /\ off[1] = 0
      /\ \A k \in 1 .. N : off[k] < off[k + 1]
  BY <1>1 DEF Placed
<1>3. Size \in Nat
  BY Sizes
<1>4. ASSUME NEW i \in 1 .. N PROVE off[i + 1] - off[i] \in Nat
  <2>1. i \in 1 .. N + 1 /\ i + 1 \in 1 .. N + 1
    OBVIOUS
  <2>2. off[i] \in 0 .. Size /\ off[i + 1] \in 0 .. Size /\ off[i] < off[i + 1]
    BY <1>2, <2>1
  <2>3. QED
    BY <1>3, <2>2
<1>5. s \in Seq(Nat) /\ Len(s) = N
  BY <1>4
<1>6. off \in [1 .. N + 1 -> Nat]
  BY <1>2, <1>3
<1>7. LenOf(s) = off[N + 1]
  <2>1. \A i \in 1 .. Len(s) : s[i] = off[i + 1] - off[i]
    BY <1>5
  <2> HIDE DEF s
  <2>2. QED
    BY <1>2, <1>5, <1>6, <2>1, SumBetween
<1>8. ASSUME NEW i \in 1 .. num_entries
      PROVE  Len(ObjectAt(Fragments(objectlog_iterator(i - 1))[1]))
               + Len(Fragments(objectlog_iterator(i - 1))) = off[i + 1] - off[i]
  <2>1. PICK a, F : a = objectlog_iterator(i - 1) /\ F = Fragments(a)
    OBVIOUS
  <2>2. Reads(F, a, written[i][1], written[i][2], off[i + 1] - off[i])
    BY <2>1, Found
  <2>3. /\ F[1] = a /\ Len(F) + written[i][2] = off[i + 1] - off[i]
        /\ FlattenSeq(Texts(F)) = Whole(written[i][1], written[i][2])
        /\ F \in Seq(Ring)
    BY <2>2 DEF Reads
  <2>4. ObjectAt(a) = Whole(written[i][1], written[i][2])
    BY <2>1, <2>3 DEF ObjectAt, Texts
  <2>5. PICK n \in Nat : n = written[i][2]
    BY ObjectIs
  <2>6. Len(Whole(written[i][1], n)) = n
    BY DEF Whole
  <2>7. Len(F) \in Nat
    BY <2>3, LenProperties
  <2>8. QED
    BY <2>1, <2>3, <2>4, <2>5, <2>6, <2>7
<1>9. InUse = LenOf(s)
  <2>1. InUse = LenOf([i \in 1 .. num_entries |->
                  Len(ObjectAt(Fragments(objectlog_iterator(i - 1))[1]))
                    + Len(Fragments(objectlog_iterator(i - 1)))])
    BY DEF InUse
  <2>2. [i \in 1 .. num_entries |->
           Len(ObjectAt(Fragments(objectlog_iterator(i - 1))[1]))
             + Len(Fragments(objectlog_iterator(i - 1)))] = s
    BY <1>1, <1>8
  <2> HIDE DEF s
  <2>3. QED
    BY <2>1, <2>2
<1>10. QED
  BY <1>1, <1>7, <1>9

-----------------------------------------------------------------------------
(* One turn of the writing loop, on the ring alone.                        *)
LEMMA Poured ==
  ASSUME NEW a \in Ring, NEW v \in 0 .. Size, NEW n \in Nat, v + n <= Size,
         NEW y \in 0 .. Size - 1
  PROVE  /\ (At(a, y) - At(a, v)) % Size < n <=> v <= y /\ y < v + n
         /\ v <= y => (At(a, y) - At(a, v)) % Size = y - v
<1>1. Size \in Nat
  BY Sizes
<1>2. PICK k : k = (At(a, y) - At(a, v)) % Size
  OBVIOUS
<1>3. k = IF y >= v THEN y - v ELSE y - v + Size
  BY <1>2, Distance
<1>4. (k < n <=> v <= y /\ y < v + n) /\ (v <= y => k = y - v)
  BY <1>1, <1>3
<1>5. QED
  BY <1>2, <1>4

LEMMA TurnContinues ==
  ASSUME NEW buf, NEW new, NEW a \in Ring, NEW u \in Nat, NEW w \in Nat \ {0}, NEW o,
         NEW m \in Nat, NEW d \in Nat, NEW r \in 0 .. d, NEW n \in 0 .. r,
         u + w + r <= Size, Fragmented(buf, At(a, u), w, r, o, m, d),
         \A y \in 0 .. Size - 1 :
           new[At(a, y)] = IF u + w <= y /\ y < u + w + n
                           THEN Data(o, d - (y - (u + w))) ELSE buf[At(a, y)]
  PROVE  Fragmented(new, At(a, u), w + n, r - n, o, m, d - n)
<1>1. Size \in Nat
  BY Sizes
<1>2. ASSUME NEW x \in Nat, u + x <= Size PROVE At(At(a, u), x) = At(a, u + x)
  BY <1>2, AtAt
<1>3. At(a, u) \in Ring
  BY <1>1, AtType
<1>4. ASSUME NEW j \in 0 .. n - 1 PROVE new[At(At(a, u), w + j)].data = <<o, d - j>>
  <2>1. /\ u + (w + j) \in 0 .. Size - 1 /\ w + j \in Nat /\ u + (w + j) <= Size
        /\ u + w <= u + (w + j) /\ u + (w + j) < u + w + n
        /\ u + (w + j) - (u + w) = j
    BY <1>1
  <2>2. new[At(a, u + (w + j))] = Data(o, d - j)
    BY <2>1
  <2>3. At(At(a, u), w + j) = At(a, u + (w + j))
    BY <1>2, <2>1
  <2>4. QED
    BY <2>2, <2>3 DEF Data
<1>5. ASSUME NEW x \in 0 .. w - 1 PROVE new[At(At(a, u), x)] = buf[At(At(a, u), x)]
  <2>1. u + x \in 0 .. Size - 1 /\ x \in Nat /\ u + x <= Size /\ ~(u + w <= u + x)
    BY <1>1
  <2>2. new[At(a, u + x)] = buf[At(a, u + x)]
    BY <2>1
  <2>3. QED
    BY <1>2, <2>1, <2>2
<1>6. r \in Nat /\ w \in Nat /\ n <= d /\ w > 0
  OBVIOUS
<1>7. QED
  BY <1>3, <1>4, <1>5, <1>6, Continued

LEMMA TurnBegins ==
  ASSUME NEW buf, NEW new, NEW a \in Ring, NEW u \in Nat, NEW w \in Nat, NEW o,
         NEW m \in Nat, NEW d \in Nat \ {0}, NEW t \in 0 .. d, NEW n \in 0 .. t,
         u + w + 1 + t <= Size, Fragmented(buf, At(a, u), w, 0, o, m, d),
         At(a, u + w) + t < Size,
         \A y \in 0 .. Size - 1 :
           new[At(a, y)] = IF y = u + w THEN Header(t, d = t)
                           ELSE IF u + (w + 1) <= y /\ y < u + (w + 1) + n
                           THEN Data(o, d - (y - (u + (w + 1)))) ELSE buf[At(a, y)]
  PROVE  Fragmented(new, At(a, u), w + 1 + n, t - n, o, m, d - n)
<1>1. Size \in Nat
  BY Sizes
<1>2. ASSUME NEW x \in Nat, u + x <= Size PROVE At(At(a, u), x) = At(a, u + x)
  BY <1>2, AtAt
<1>3. At(a, u) \in Ring
  BY <1>1, AtType
<1> DEFINE mid == [i \in Ring |-> IF i = At(a, u + w) THEN Header(t, d = t) ELSE buf[i]]
<1>4. ASSUME NEW y \in 0 .. Size - 1
      PROVE  mid[At(a, y)] = IF y = u + w THEN Header(t, d = t) ELSE buf[At(a, y)]
  <2>1. At(a, y) \in Ring
    BY <1>1, AtType
  <2>2. u + w \in 0 .. Size - 1
    BY <1>1
  <2>3. At(a, y) = At(a, u + w) => y = u + w
    BY <2>2, AtDiffer
  <2>4. QED
    BY <2>1, <2>3
<1> HIDE DEF mid
<1>5. Fragmented(mid, At(a, u), w + 1, t, o, m, d)
  <2>1. u + w <= Size /\ u + w \in 0 .. Size - 1
    BY <1>1
  <2>2. At(At(a, u), w) = At(a, u + w)
    BY <1>2, <2>1
  <2>3. mid[At(At(a, u), w)] = Header(t, d = t)
    BY <1>4, <2>1, <2>2
  <2>4. ASSUME NEW x \in 0 .. w - 1 PROVE mid[At(At(a, u), x)] = buf[At(At(a, u), x)]
    <3>1. u + x \in 0 .. Size - 1 /\ x \in Nat /\ u + x <= Size /\ u + x # u + w
      BY <1>1
    <3>2. QED
      BY <1>2, <1>4, <3>1
  <2>5. QED
    BY <1>3, <2>2, <2>3, <2>4, Begun
<1>6. ASSUME NEW y \in 0 .. Size - 1
      PROVE  new[At(a, y)] = IF u + (w + 1) <= y /\ y < u + (w + 1) + n
                             THEN Data(o, d - (y - (u + (w + 1)))) ELSE mid[At(a, y)]
  <2>1. u + (w + 1) <= y => y # u + w
    OBVIOUS
  <2>2. QED
    BY <1>4, <2>1
<1>7. u + (w + 1) + t <= Size /\ w + 1 \in Nat \ {0} /\ t \in 0 .. d /\ d \in Nat
  OBVIOUS
<1>8. Fragmented(new, At(a, u), (w + 1) + n, t - n, o, m, d - n)
  BY <1>5, <1>6, <1>7, TurnContinues
<1>9. QED
  BY <1>8

-----------------------------------------------------------------------------
(* Each step keeps the invariant.                                          *)
LEMMA InvInit == Init => Inv
<1> SUFFICES ASSUME Init PROVE Inv
  OBVIOUS
<1>1. /\ buffer = [i \in Ring |-> Zero] /\ write_ptr = 0 /\ ptr_first = 0 /\ ptr_last = 0
      /\ num_entries = 0 /\ pc = "idle" /\ fragment_len = 0 /\ name = 0 /\ written = <<>>
  BY DEF Init
<1>2. 0 \in Ring /\ 0 \in 0 .. Names - 1 /\ 0 \in 0 .. Size /\ At(0, 0) = 0
  BY Sizes DEF Ring, At
<1>3. Kinds
  <2>1. Cells(buffer) /\ buffer = [i \in Ring |-> buffer[i]]
    BY <1>1 DEF Cells, Zero
  <2>2. written \in Seq((0 .. Names - 1) \X Nat) /\ Len(written) = num_entries
    BY <1>1
  <2>3. QED
    BY <1>1, <1>2, <2>1, <2>2 DEF Kinds
<1>4. InCall /\ Dropping
  BY <1>1 DEF InCall, Dropping
<1> DEFINE off == [k \in 1 .. 1 |-> 0]
<1>5. Placed(off)
  BY <1>1, <1>2 DEF Placed
<1>6. Ends(off)
  <2>1. off[num_entries + 1] = 0 /\ \A i \in Ring : buffer[i] = Zero
    BY <1>1
  <2>2. QED
    BY <1>1, <1>2, <2>1 DEF Ends
<1>7. Writing(off)
  BY <1>1 DEF Writing
<1> HIDE DEF off
<1>8. QED
  BY <1>3, <1>4, <1>5, <1>6, <1>7 DEF Inv

(* What the log holds is as it was.                                        *)
LEMMA InvSame ==
  ASSUME UNCHANGED <<ring, list, written>>, NEW off, Placed(off)
  PROVE  Placed(off)'
<1>1. /\ buffer' = buffer /\ ptr_first' = ptr_first /\ num_entries' = num_entries
      /\ written' = written
  BY DEF ring, list
<1>2. QED
  BY <1>1 DEF Placed

LEMMA InvStutter == Inv /\ UNCHANGED vars => Inv'
<1> SUFFICES ASSUME Inv, UNCHANGED vars PROVE Inv'
  OBVIOUS
<1>1. PICK off : Kinds /\ InCall /\ Dropping /\ Placed(off) /\ Ends(off) /\ Writing(off)
  BY DEF Inv
<1> USE DEF vars, ring, list, local, history
<1>2. Kinds' /\ InCall' /\ Dropping'
  BY <1>1 DEF Kinds, InCall, Dropping
<1>3. Placed(off)'
  BY <1>1, InvSame
<1>4. Ends(off)' /\ Writing(off)'
  BY <1>1 DEF Ends, Writing, Pending
<1>5. QED
  BY <1>2, <1>3, <1>4 DEF Inv

LEMMA InvBegin ==
  ASSUME Inv, NEW sc \in Scatter, Begin(sc)
  PROVE  Inv'
<1>1. PICK off : Kinds /\ InCall /\ Dropping /\ Placed(off) /\ Ends(off) /\ Writing(off)
  BY DEF Inv
<1> DEFINE len   == LenOf(sc)
           end   == get_next_entry(ptr_last)
           total == len + DivRoundUp(len, MAX_FRAGMENT_LEN)
           whole == IF end + total > Size THEN total + 1 ELSE total
<1>2. /\ pc = "idle"
      /\ IF whole > Size
         THEN UNCHANGED <<pc, sc_list, local, object_len>>
         ELSE /\ pc' = "drop" /\ sc_list' = sc
              /\ data_len' = len /\ total_len' = whole /\ log_end' = end
              /\ fragment_offset' = 0 /\ object_len' = len
              /\ UNCHANGED <<new_last, fragment_len>>
      /\ UNCHANGED <<ring, list, name, written>>
  BY DEF Begin
<1>3. CASE whole > Size
  <2>1. UNCHANGED vars
    BY <1>2, <1>3 DEF vars, history
  <2>2. QED
    BY <2>1, InvStutter
<1>4. CASE ~(whole > Size)
  <2>1. end = write_ptr
    BY <1>1, <1>2, EndIs
  <2>2. len \in Nat /\ Ceil(len) \in Nat
    <3>1. sc \in Seq(Nat \ {0}) /\ sc # <<>>
      BY Sizes
    <3>2. sc \in Seq(Nat)
      BY <3>1
    <3>3. len \in Nat
      BY <3>2, SumType
    <3>4. QED
      BY <3>3, CeilIs
  <2>3. total = len + Ceil(len) /\ total \in Nat
    BY <2>2 DEF Ceil
  <2>4. Size \in Nat /\ write_ptr \in Nat
    BY <1>1, Sizes DEF Kinds, Ring
  <2>5. /\ whole = Need(write_ptr, len) /\ whole \in Nat /\ whole <= Size
        /\ whole <= Room(len) /\ ~(total > Size)
    <3>1. PICK c \in Nat : c = Ceil(len)
      BY <2>2
    <3>2. PICK l \in Nat : l = len
      BY <2>2
    <3> HIDE DEF len, end
    <3>3. total = l + c
      BY <2>3, <3>1, <3>2
    <3> HIDE DEF total
    <3>4. whole = IF write_ptr + (l + c) > Size THEN (l + c) + 1 ELSE l + c
      BY <2>1, <3>3
    <3>5. Need(write_ptr, len) = l + c + IF write_ptr + l + c > Size THEN 1 ELSE 0
      BY <3>1, <3>2 DEF Need
    <3>6. Room(len) = l + c + 1
      BY <3>1, <3>2 DEF Room
    <3>7. ~(whole > Size)
      BY <1>4
    <3> HIDE DEF whole
    <3>8. QED
      BY <2>4, <3>3, <3>4, <3>5, <3>6, <3>7
  <2>6. Writable(len)
    <3>1. ~Refused(sc)
      BY <2>5 DEF Refused
    <3>2. QED
      BY <3>1 DEF Writable
  <2>7. sc \in Seq(Nat \ {0})
    BY Sizes
  <2> HIDE DEF whole, total, len, end
  <2>8. /\ pc' = "drop" /\ sc_list' = sc /\ data_len' = len /\ total_len' = whole
        /\ log_end' = end /\ fragment_offset' = 0 /\ object_len' = len
        /\ fragment_len' = fragment_len
        /\ UNCHANGED <<ring, list, name, written>>
    BY <1>2, <1>4
  <2>9. Kinds'
    BY <1>1, <2>8 DEF Kinds, ring, list
  <2>10. InCall'
    <3>1. LenOf(sc) = len
      BY DEF len
    <3>2. QED
      BY <2>2, <2>5, <2>6, <2>7, <2>8, <3>1 DEF InCall
  <2>11. Dropping'
    BY <2>1, <2>5, <2>8 DEF Dropping, ring
  <2>12. Placed(off)'
    BY <1>1, <2>8, InvSame
  <2>13. Ends(off)' /\ Writing(off)'
    BY <1>1, <1>2, <2>8 DEF Ends, Writing, ring, list
  <2>14. QED
    BY <2>9, <2>10, <2>11, <2>12, <2>13 DEF Inv
<1>5. QED
  BY <1>3, <1>4

(* The space between the end of the objects and the first of them.         *)
LEMMA FreeSpace ==
  ASSUME NEW a \in Ring, NEW u \in 1 .. Size
  PROVE  objectlog_free_space(At(a, u), a) = Size - u
<1>1. Size \in Nat /\ a \in 0 .. Size - 1
  BY Sizes DEF Ring
<1>2. QED
  BY <1>1 DEF At, objectlog_free_space

(* Only one object can both begin and end the log.                         *)
LEMMA TwoAtLeast ==
  ASSUME Kinds, NEW off, Placed(off), Ends(off)
  PROVE  /\ ptr_first # ptr_last => num_entries >= 2
         /\ ptr_first = ptr_last => num_entries <= 1
<1>1. PICK N \in Nat : N = num_entries
  BY DEF Kinds
<1>2. /\ off \in [1 .. N + 1 -> 0 .. Size] /\ off[1] = 0
      /\ \A k \in 1 .. N : off[k] < off[k + 1]
  BY <1>1 DEF Placed
<1>3. Size \in Nat /\ Size > 1 /\ ptr_first \in Ring /\ 0 \in 0 .. Size
  BY Sizes DEF Kinds
<1>4. At(ptr_first, 0) = ptr_first
  BY <1>3, AtType
<1>5. IF N > 0 THEN ptr_last = At(ptr_first, off[N]) ELSE ptr_first = 0 /\ ptr_last = 0
  BY <1>1 DEF Ends
<1>6. ASSUME N <= 1 PROVE ptr_first = ptr_last
  <2>1. N = 0 \/ N = 1
    BY <1>6
  <2>2. QED
    BY <1>2, <1>4, <1>5, <2>1
<1>7. ASSUME N >= 2 PROVE ptr_first # ptr_last
  <2>1. N \in 1 .. N + 1 /\ N \in 1 .. N /\ N + 1 \in 1 .. N + 1 /\ 1 \in 1 .. N + 1
    BY <1>7
  <2>2. 1 + (N - 1) = N /\ N - 1 \in Nat /\ N <= N + 1
    BY <1>7
  <2>3. off[1] + (N - 1) <= off[N]
    BY <1>1, <2>1, <2>2, Offsets
  <2>4. off[N] \in 0 .. Size /\ off[N + 1] \in 0 .. Size /\ off[N] < off[N + 1]
    BY <1>2, <2>1
  <2>5. off[N] \in 0 .. Size - 1 /\ off[N] # 0 /\ 0 \in 0 .. Size - 1
    BY <1>2, <1>3, <1>7, <2>3, <2>4
  <2>6. At(ptr_first, off[N]) # At(ptr_first, 0)
    BY <1>3, <2>5, AtDiffer
  <2>7. QED
    BY <1>4, <1>5, <1>7, <2>6
<1>8. QED
  BY <1>1, <1>6, <1>7

LEMMA InvStart ==
  ASSUME Inv, Start
  PROVE  Inv'
<1>1. PICK off : Kinds /\ InCall /\ Dropping /\ Placed(off) /\ Ends(off) /\ Writing(off)
  BY DEF Inv
<1>2. /\ pc = "drop" /\ (Fits \/ ptr_first = ptr_last)
      /\ pc' = "write" /\ new_last' = write_ptr
      /\ UNCHANGED <<ring, list, sc_list, data_len, total_len, log_end,
                     fragment_len, fragment_offset, name, history>>
  BY DEF Start
<1> USE DEF ring, list, history
<1>3. PICK N \in Nat, u \in 0 .. Size : N = num_entries /\ u = off[N + 1]
  <2>1. num_entries \in Nat /\ num_entries + 1 \in 1 .. num_entries + 1
    BY <1>1 DEF Kinds
  <2>2. off[num_entries + 1] \in 0 .. Size
    BY <1>1, <2>1 DEF Placed
  <2>3. QED
    BY <2>1, <2>2
<1>4. /\ log_end = write_ptr /\ data_len = object_len /\ fragment_offset = 0
      /\ total_len = Need(write_ptr, data_len)
  BY <1>1, <1>2 DEF Dropping
<1>5. /\ Writable(object_len) /\ total_len \in Nat /\ total_len <= Size
      /\ total_len <= Room(object_len) /\ data_len \in Nat
  BY <1>1, <1>2 DEF InCall
<1>6. write_ptr = At(ptr_first, u) /\ write_ptr \in Ring /\ ptr_first \in Ring
  BY <1>1, <1>2, <1>3 DEF Ends, Kinds
<1>7. Size \in Nat
  BY Sizes
<1>8. u + total_len <= Size
  <2>1. CASE N = 0
    <3>1. u = 0
      BY <1>1, <1>3, <2>1 DEF Placed
    <3>2. QED
      BY <1>5, <3>1
  <2>2. CASE N # 0 /\ Fits
    <3>1. N \in 1 .. num_entries /\ N \in 1 .. N + 1
      BY <1>3, <2>2
    <3>2. off[N] \in 0 .. Size /\ off[N] < off[N + 1]
      BY <1>1, <3>1, ObjectIs
    <3>3. u \in 1 .. Size
      BY <1>3, <1>7, <3>2
    <3>4. objectlog_free_space(At(ptr_first, u), ptr_first) = Size - u
      BY <1>6, <3>3, FreeSpace
    <3>5. Size - u >= total_len
      BY <1>4, <1>6, <2>2, <3>4 DEF Fits
    <3>6. QED
      BY <1>5, <1>7, <3>5
  <2>3. CASE N # 0 /\ ptr_first = ptr_last
    <3>1. N = 1
      BY <1>1, <1>3, <2>3, TwoAtLeast
    <3>2. /\ Writable(written[1][2]) /\ off[1] = 0 /\ off[1 + 1] - off[1] <= Room(written[1][2])
      BY <1>1, <1>3, <3>1 DEF Placed
    <3>3. Room(object_len) \in Nat /\ Room(written[1][2]) \in Nat
          /\ Room(written[1][2]) + Room(object_len) <= Size
      BY <1>5, <3>2, RoomFits
    <3>4. u - 0 <= Room(written[1][2])
      BY <1>3, <3>1, <3>2
    <3>5. QED
      BY <1>5, <1>7, <3>3, <3>4
  <2>4. QED
    BY <1>2, <2>1, <2>2, <2>3
<1>9. Kinds' /\ InCall' /\ Dropping'
  BY <1>1, <1>2 DEF Kinds, InCall, Dropping
<1>10. Placed(off)'
  BY <1>1, <1>2, InvSame
<1>11. Ends(off)'
  BY <1>1, <1>2 DEF Ends
<1>12. Fragmented(buffer, write_ptr, 0, 0, name, object_len, data_len)
  <2> DEFINE c == [x \in {} |-> 0]
  <2>1. {} \in SUBSET (0 .. 0 - 1) /\ c \in [{} -> Nat]
    OBVIOUS
  <2>2. FragmentsAt(buffer, write_ptr, 0, 0, name, object_len, data_len, {}, c)
    BY <1>4, <2>1 DEF FragmentsAt
  <2> HIDE DEF c
  <2>3. QED
    BY <2>2 DEF Fragmented
<1>13. /\ At(write_ptr, 0) = write_ptr /\ write_ptr + 0 <= Size /\ 0 \in 0 .. Size
       /\ 0 + 0 + Need(At(write_ptr, 0 + 0), data_len - 0) <= total_len
  <2>1. 0 \in 0 .. Size /\ At(write_ptr, 0) = write_ptr
    BY <1>6, <1>7, AtType
  <2>2. write_ptr + 0 <= Size
    BY <1>6, <1>7 DEF Ring
  <2>3. 0 + 0 = 0 /\ data_len - 0 = data_len
    BY <1>5
  <2>4. 0 + Need(write_ptr, data_len) <= total_len
    BY <1>4, <1>5
  <2>5. QED
    BY <2>1, <2>2, <2>3, <2>4
<1>14. Writing(off)'
  <2>1. Pending' = 0
    BY <1>2, <1>4 DEF Pending
  <2>2. /\ new_last' = At(ptr_first', off[num_entries' + 1])
        /\ off[num_entries' + 1] + total_len' <= Size
    BY <1>2, <1>3, <1>6, <1>8
  <2>3. \E w \in 0 .. Size :
          /\ write_ptr' = At(new_last', w) /\ (w = 0 => fragment_offset' = 0)
          /\ Fragmented(buffer', new_last', w, Pending', name', object_len', data_len')
          /\ w + Pending' + Need(At(new_last', w + Pending'), data_len' - Pending')
               <= total_len'
    <3>1. /\ write_ptr' = At(new_last', 0) /\ (0 = 0 => fragment_offset' = 0)
          /\ Fragmented(buffer', new_last', 0, Pending', name', object_len', data_len')
          /\ 0 + Pending' + Need(At(new_last', 0 + Pending'), data_len' - Pending')
               <= total_len'
      BY <1>2, <1>4, <1>12, <1>13, <2>1
    <3>2. QED
      BY <1>13, <3>1
  <2>4. fragment_offset' = 0 /\ write_ptr' + Pending' <= Size
    BY <1>2, <1>4, <1>13, <2>1
  <2>5. QED
    BY <2>2, <2>3, <2>4 DEF Writing
<1>15. QED
  BY <1>9, <1>10, <1>11, <1>14 DEF Inv

LEMMA InvDrop ==
  ASSUME Inv, Drop
  PROVE  Inv'
<1>1. PICK off : Kinds /\ InCall /\ Dropping /\ Placed(off) /\ Ends(off) /\ Writing(off)
  BY DEF Inv
<1>2. /\ pc = "drop" /\ ptr_first # ptr_last
      /\ ptr_first' = get_next_entry(ptr_first)
      /\ num_entries' = num_entries - 1
      /\ written' = Tail(written)
      /\ UNCHANGED <<ring, ptr_last, pc, sc_list, local, name, object_len>>
  BY DEF Drop
<1> USE DEF ring, local
<1>3. PICK N \in Nat : N = num_entries
  BY <1>1 DEF Kinds
<1>4. N >= 2
  BY <1>1, <1>2, <1>3, TwoAtLeast
<1>5. Size \in Nat /\ ptr_first \in Ring /\ 0 \in 0 .. Size /\ At(ptr_first, 0) = ptr_first
  <2>1. Size \in Nat /\ ptr_first \in Ring /\ 0 \in 0 .. Size
    BY <1>1, Sizes DEF Kinds
  <2>2. QED
    BY <2>1, AtType
<1>6. /\ off \in [1 .. N + 1 -> 0 .. Size] /\ off[1] = 0
      /\ \A k \in 1 .. N :
           /\ off[k] < off[k + 1] /\ off[k + 1] - off[k] <= Room(written[k][2])
           /\ Writable(written[k][2])
           /\ Stored(buffer, At(ptr_first, off[k]), off[k + 1] - off[k],
                     written[k][1], written[k][2])
  BY <1>1, <1>3 DEF Placed
<1>7. PICK s \in 0 .. Size : s = off[2]
  BY <1>4, <1>6
<1>8. ptr_first' = At(ptr_first, s) /\ ptr_first' \in Ring
  <2>1. 1 \in 1 .. num_entries /\ 1 + 1 = 2
    BY <1>3, <1>4
  <2>2. get_next_entry(At(ptr_first, off[1])) = At(ptr_first, off[1 + 1])
    BY <1>1, <2>1, ObjectIs
  <2>3. QED
    BY <1>2, <1>5, <1>6, <1>7, <2>1, <2>2, AtType
<1>9. ASSUME NEW k \in 1 .. N
      PROVE  /\ k + 1 \in 1 .. N + 1 /\ off[k + 1] \in 0 .. Size /\ off[k + 1] - s \in 0 .. Size
             /\ At(ptr_first', off[k + 1] - s) = At(ptr_first, off[k + 1])
  <2>1. k + 1 \in 1 .. N + 1 /\ 2 \in 1 .. N + 1 /\ k - 1 \in Nat /\ 2 + (k - 1) = k + 1
        /\ k + 1 <= N + 1
    BY <1>4
  <2>2. PICK q \in 0 .. Size : q = off[k + 1]
    BY <1>6, <2>1
  <2>3. s + (k - 1) <= q
    BY <1>1, <1>3, <1>7, <2>1, <2>2, Offsets
  <2>4. s \in Nat /\ q - s \in Nat /\ s + (q - s) = q /\ s + (q - s) <= Size /\ q - s \in 0 .. Size
    BY <1>5, <2>1, <2>3
  <2>5. At(At(ptr_first, s), q - s) = At(ptr_first, s + (q - s))
    BY <1>5, <2>4, AtAt
  <2>6. QED
    BY <1>8, <2>1, <2>2, <2>4, <2>5
<1> DEFINE new == [k \in 1 .. N |-> off[k + 1] - s]
<1>10. new \in [1 .. N -> 0 .. Size] /\ \A k \in 1 .. N : new[k] = off[k + 1] - s
  BY <1>9
<1> HIDE DEF new
<1>11. /\ written' \in Seq((0 .. Names - 1) \X Nat) /\ Len(written') = N - 1
       /\ \A k \in 1 .. N - 1 : written'[k] = written[k + 1]
  <2>1. written \in Seq((0 .. Names - 1) \X Nat) /\ Len(written) = N
    BY <1>1, <1>3 DEF Kinds
  <2>2. written # <<>>
    BY <1>4, <2>1, EmptySeq
  <2>3. QED
    BY <1>2, <2>1, <2>2, HeadTailProperties
<1>12. Kinds'
  <2>1. Cells(buffer') /\ buffer' = [i \in Ring |-> buffer'[i]] /\ N - 1 \in Nat
    BY <1>1, <1>2, <1>4 DEF Kinds
  <2>2. QED
    BY <1>1, <1>2, <1>3, <1>8, <1>11, <2>1 DEF Kinds
<1>13. InCall' /\ Dropping'
  BY <1>1, <1>2 DEF InCall, Dropping
<1>14. Placed(new)'
  <2>1. /\ num_entries' + 1 = N /\ num_entries' = N - 1 /\ new[1] = 0
    <3>1. 1 \in 1 .. N /\ 1 + 1 = 2
      BY <1>4
    <3>2. QED
      BY <1>2, <1>3, <1>7, <1>10, <3>1
  <2>2. ASSUME NEW k \in 1 .. N - 1
        PROVE  /\ new[k] < new[k + 1] /\ new[k + 1] - new[k] <= Room(written'[k][2])
               /\ Writable(written'[k][2])
               /\ Stored(buffer', At(ptr_first', new[k]), new[k + 1] - new[k],
                         written'[k][1], written'[k][2])
    <3>1. k \in 1 .. N /\ k + 1 \in 1 .. N
      BY <1>4
    <3>2. PICK p, q \in 0 .. Size : p = off[k + 1] /\ q = off[(k + 1) + 1]
      BY <1>9, <3>1
    <3>3. new[k] = p - s /\ new[k + 1] = q - s
      BY <1>10, <3>1, <3>2
    <3>4. /\ p < q /\ q - p <= Room(written'[k][2]) /\ Writable(written'[k][2])
          /\ Stored(buffer, At(ptr_first, p), q - p, written'[k][1], written'[k][2])
      BY <1>6, <1>11, <3>1, <3>2
    <3>5. p - s < q - s /\ (q - s) - (p - s) = q - p
      BY <1>5, <3>4
    <3>6. At(ptr_first', p - s) = At(ptr_first, p)
      BY <1>9, <3>1, <3>2
    <3>7. buffer' = buffer
      BY <1>2
    <3>8. QED
      BY <3>3, <3>4, <3>5, <3>6, <3>7
  <2>3. QED
    BY <1>10, <2>1, <2>2 DEF Placed
<1>15. Ends(new)'
  <2>1. /\ num_entries' + 1 = N /\ num_entries' = N - 1 /\ num_entries' > 0
        /\ N \in 1 .. N /\ N - 1 \in 1 .. N /\ (N - 1) + 1 = N /\ num_entries' # 0
    BY <1>2, <1>3, <1>4
  <2>2. ptr_last = At(ptr_first, off[N]) /\ write_ptr = At(ptr_first, off[N + 1])
    BY <1>1, <1>2, <1>3, <1>4 DEF Ends
  <2>3. At(ptr_first', new[N - 1]) = At(ptr_first, off[N])
    BY <1>9, <1>10, <2>1
  <2>4. At(ptr_first', new[N]) = At(ptr_first, off[N + 1])
    BY <1>9, <1>10, <2>1
  <2>5. QED
    BY <1>2, <2>1, <2>2, <2>3, <2>4 DEF Ends
<1>16. Writing(new)'
  BY <1>2 DEF Writing
<1>17. QED
  BY <1>12, <1>13, <1>14, <1>15, <1>16 DEF Inv

LEMMA InvEnd ==
  ASSUME Inv, End
  PROVE  Inv'
<1>1. PICK off : Kinds /\ InCall /\ Dropping /\ Placed(off) /\ Ends(off) /\ Writing(off)
  BY DEF Inv
<1>2. /\ pc = "write" /\ sc_list = <<>>
      /\ pc' = "idle" /\ ptr_last' = new_last /\ num_entries' = num_entries + 1
      /\ name' = (name + 1) % Names
      /\ written' = Append(written, <<name, object_len>>)
      /\ UNCHANGED <<ring, ptr_first, sc_list, local, object_len>>
  BY DEF End
<1> USE DEF ring, local
<1>3. PICK N \in Nat, u \in 0 .. Size : N = num_entries /\ u = off[N + 1]
  <2>1. num_entries \in Nat /\ num_entries + 1 \in 1 .. num_entries + 1
    BY <1>1 DEF Kinds
  <2>2. off[num_entries + 1] \in 0 .. Size
    BY <1>1, <2>1 DEF Placed
  <2>3. QED
    BY <2>1, <2>2
<1>4. Size \in Nat /\ ptr_first \in Ring /\ name \in 0 .. Names - 1 /\ Names \in Nat \ {0}
  BY <1>1, Sizes DEF Kinds
<1>5. /\ Writable(object_len) /\ total_len \in Nat /\ total_len <= Room(object_len)
      /\ data_len = 0 /\ object_len \in Nat \ {0} /\ Room(object_len) \in Nat
  <2>1. /\ Writable(object_len) /\ total_len \in Nat /\ total_len <= Room(object_len)
        /\ LenOf(sc_list) = data_len
    BY <1>1, <1>2 DEF InCall
  <2>2. LenOf(<<>>) = 0
    <3>1. <<>> \in Seq(Nat)
      OBVIOUS
    <3>2. QED
      BY <3>1, SumType
  <2>3. QED
    BY <1>2, <2>1, <2>2, RoomFits
<1>6. /\ new_last = At(ptr_first, u) /\ u + total_len <= Size
      /\ fragment_offset \in Nat /\ fragment_len \in Nat
      /\ fragment_offset = 0 \/ fragment_offset < fragment_len
  BY <1>1, <1>2, <1>3 DEF Writing, Kinds
<1>7. Pending = 0
  BY <1>5, <1>6 DEF Pending, Least
<1>8. PICK w \in 0 .. Size :
        /\ write_ptr = At(new_last, w)
        /\ Fragmented(buffer, new_last, w, 0, name, object_len, 0)
        /\ w + 0 + Need(At(new_last, w + 0), 0 - 0) <= total_len
  BY <1>1, <1>2, <1>5, <1>7 DEF Writing
<1>9. w > 0
  <2>1. PICK H, c : FragmentsAt(buffer, new_last, w, 0, name, object_len, 0, H, c)
    BY <1>8 DEF Fragmented
  <2>2. w = 0 => object_len = 0
    BY <2>1 DEF FragmentsAt
  <2>3. QED
    BY <1>4, <1>5, <2>2
<1>10. w <= total_len /\ w <= Room(object_len) /\ u + w \in 0 .. Size
  <2>1. Need(At(new_last, w + 0), 0 - 0) \in Nat
    <3>1. 0 - 0 = 0 /\ Ceil(0) = 0
      BY CeilSteps
    <3>2. PICK p : p = At(new_last, w + 0)
      OBVIOUS
    <3>3. 0 + 0 + (IF p + 0 + 0 > Size THEN 1 ELSE 0) \in Nat
      OBVIOUS
    <3>4. QED
      BY <3>1, <3>2, <3>3 DEF Need
  <2>2. PICK e \in Nat : e = Need(At(new_last, w + 0), 0 - 0)
    BY <2>1
  <2>3. w + 0 + e <= total_len
    BY <1>8, <2>2
  <2>4. QED
    BY <1>4, <1>5, <1>6, <2>3
<1>11. write_ptr = At(ptr_first, u + w)
  <2>1. u + w <= Size /\ u \in Nat /\ w \in Nat
    BY <1>4, <1>10
  <2>2. QED
    BY <1>4, <1>6, <1>8, <2>1, AtAt
<1> DEFINE new == [k \in 1 .. N + 2 |-> IF k = N + 2 THEN u + w ELSE off[k]]
<1>12. off \in [1 .. N + 1 -> 0 .. Size] /\ off[1] = 0
  BY <1>1, <1>3 DEF Placed
<1>13. /\ new \in [1 .. N + 2 -> 0 .. Size] /\ new[N + 2] = u + w
       /\ \A k \in 1 .. N + 1 : new[k] = off[k]
  <2>1. ASSUME NEW k \in 1 .. N + 2, k # N + 2 PROVE k \in 1 .. N + 1
    BY <2>1
  <2>2. N + 2 \in 1 .. N + 2 /\ \A k \in 1 .. N + 1 : k \in 1 .. N + 2 /\ k # N + 2
    OBVIOUS
  <2>3. QED
    BY <1>10, <1>12, <2>1, <2>2
<1> HIDE DEF new
<1>14. /\ written' \in Seq((0 .. Names - 1) \X Nat) /\ Len(written') = N + 1
       /\ written'[N + 1] = <<name, object_len>>
       /\ \A k \in 1 .. N : written'[k] = written[k]
  <2>1. written \in Seq((0 .. Names - 1) \X Nat) /\ Len(written) = N
    BY <1>1, <1>3 DEF Kinds
  <2>2. <<name, object_len>> \in (0 .. Names - 1) \X Nat
    BY <1>4, <1>5
  <2>3. QED
    BY <1>2, <2>1, <2>2, AppendProperties
<1>15. new_last \in Ring
  BY <1>4, <1>6, AtType
<1>16. name' \in 0 .. Names - 1
  <2>1. \A x \in Nat, m \in Nat \ {0} : x % m \in 0 .. m - 1
    OBVIOUS
  <2>2. name + 1 \in Nat
    BY <1>4
  <2>3. QED
    BY <1>2, <1>4, <2>1, <2>2
<1>17. Kinds'
  <2>1. Cells(buffer') /\ buffer' = [i \in Ring |-> buffer'[i]]
    BY <1>1, <1>2 DEF Kinds
  <2>2. QED
    BY <1>1, <1>2, <1>3, <1>14, <1>15, <1>16, <2>1 DEF Kinds
<1>18. InCall' /\ Dropping'
  BY <1>2 DEF InCall, Dropping
<1>19. Placed(new)'
  <2>1. num_entries' + 1 = N + 2 /\ num_entries' = N + 1 /\ new[1] = 0
    BY <1>2, <1>3, <1>12, <1>13
  <2>2. ASSUME NEW k \in 1 .. N + 1
        PROVE  /\ new[k] < new[k + 1] /\ new[k + 1] - new[k] <= Room(written'[k][2])
               /\ Writable(written'[k][2])
               /\ Stored(buffer', At(ptr_first', new[k]), new[k + 1] - new[k],
                         written'[k][1], written'[k][2])
    <3>1. CASE k = N + 1
      <4>1. new[k] = u /\ new[k + 1] = u + w
        BY <1>3, <1>13, <3>1
      <4>2. u < u + w /\ (u + w) - u = w
        BY <1>4, <1>9
      <4>3. written'[k][1] = name /\ written'[k][2] = object_len
        BY <1>14, <3>1
      <4>4. Stored(buffer', At(ptr_first', u), w, name, object_len)
        BY <1>2, <1>6, <1>8 DEF Stored
      <4>5. QED
        BY <1>5, <1>10, <4>1, <4>2, <4>3, <4>4
    <3>2. CASE k # N + 1
      <4>1. k \in 1 .. N /\ k \in 1 .. N + 1 /\ k + 1 \in 1 .. N + 1
        BY <3>2
      <4>2. new[k] = off[k] /\ new[k + 1] = off[k + 1] /\ written'[k] = written[k]
        BY <1>13, <1>14, <4>1
      <4>3. /\ off[k] < off[k + 1] /\ off[k + 1] - off[k] <= Room(written[k][2])
            /\ Writable(written[k][2])
            /\ Stored(buffer, At(ptr_first, off[k]), off[k + 1] - off[k],
                      written[k][1], written[k][2])
        BY <1>1, <1>3, <4>1 DEF Placed
      <4>4. buffer' = buffer /\ ptr_first' = ptr_first
        BY <1>2
      <4>5. QED
        BY <4>2, <4>3, <4>4
    <3>3. QED
      BY <3>1, <3>2
  <2>3. QED
    BY <1>13, <2>1, <2>2 DEF Placed
<1>20. Ends(new)'
  <2>1. /\ num_entries' = N + 1 /\ num_entries' + 1 = N + 2 /\ num_entries' > 0
        /\ num_entries' # 0 /\ N + 1 \in 1 .. N + 1
    BY <1>2, <1>3
  <2>2. new[N + 1] = u
    BY <1>3, <1>13, <2>1
  <2>3. QED
    BY <1>2, <1>6, <1>11, <1>13, <2>1, <2>2 DEF Ends
<1>21. Writing(new)'
  BY <1>2 DEF Writing
<1>22. QED
  BY <1>17, <1>18, <1>19, <1>20, <1>21 DEF Inv

LEMMA InvChunk ==
  ASSUME Inv, Chunk
  PROVE  Inv'
<1>1. PICK off : Kinds /\ InCall /\ Dropping /\ Placed(off) /\ Ends(off) /\ Writing(off)
  BY DEF Inv
<1>2. PICK N \in Nat, u \in 0 .. Size : N = num_entries /\ u = off[N + 1]
  <2>1. num_entries \in Nat /\ num_entries + 1 \in 1 .. num_entries + 1
    BY <1>1 DEF Kinds
  <2>2. off[num_entries + 1] \in 0 .. Size
    BY <1>1, <2>1 DEF Placed
  <2>3. QED
    BY <2>1, <2>2
<1>3. pc = "write" /\ sc_list # <<>>
  BY DEF Chunk
<1>4. PICK L, t, n, from :
        /\ L = FragmentLen
        /\ t = Least(data_len, L - fragment_offset)
        /\ n = Least(t, Head(sc_list))
        /\ from = IF fragment_offset = 0 THEN (write_ptr + 1) % Size ELSE write_ptr
        /\ buffer' = [i \in Ring |->
             IF fragment_offset = 0 /\ i = write_ptr THEN Header(t, data_len = t)
             ELSE IF (i - from) % Size < n THEN Data(name, data_len - ((i - from) % Size))
                  ELSE buffer[i]]
        /\ write_ptr' = (from + n) % Size
        /\ data_len' = data_len - n
        /\ sc_list' = IF n = Head(sc_list) THEN Tail(sc_list)
                      ELSE <<Head(sc_list) - n>> \o Tail(sc_list)
        /\ fragment_len' = L
        /\ fragment_offset' = IF fragment_offset + n >= L THEN 0 ELSE fragment_offset + n
  BY DEF Chunk
<1>5. UNCHANGED <<list, pc, total_len, log_end, new_last, name, history>>
  BY DEF Chunk
<1>6. /\ Size \in Nat /\ Size > 1 /\ MAX_FRAGMENT_LEN \in Nat \ {0}
      /\ ptr_first \in Ring /\ write_ptr \in Ring /\ fragment_len \in Nat /\ Cells(buffer)
  BY <1>1, Sizes DEF Kinds
<1>7. /\ Writable(object_len) /\ total_len \in Nat /\ total_len <= Size
      /\ total_len <= Room(object_len)
      /\ sc_list \in Seq(Nat \ {0}) /\ data_len \in Nat /\ LenOf(sc_list) = data_len
  BY <1>1, <1>3 DEF InCall
<1>8. PICK h \in Nat \ {0}, rest \in Nat :
        /\ h = Head(sc_list) /\ rest = LenOf(Tail(sc_list)) /\ data_len = h + rest
        /\ Tail(sc_list) \in Seq(Nat \ {0})
  BY <1>3, <1>7, LenPositive
<1>9. PICK d \in Nat \ {0} : d = data_len
  BY <1>8
<1>10. /\ new_last = At(ptr_first, u) /\ u + total_len <= Size
       /\ fragment_offset \in Nat
       /\ fragment_offset = 0 \/ fragment_offset < fragment_len
       /\ write_ptr + Pending <= Size
  BY <1>1, <1>2, <1>3 DEF Writing
<1>11. PICK w \in 0 .. Size :
         /\ write_ptr = At(new_last, w) /\ (w = 0 => fragment_offset = 0)
         /\ Fragmented(buffer, new_last, w, Pending, name, object_len, data_len)
         /\ w + Pending + Need(At(new_last, w + Pending), data_len - Pending) <= total_len
  BY <1>1, <1>3 DEF Writing
<1>12. object_len \in Nat
  BY <1>7, RoomFits
<1>13. ASSUME NEW x \in Nat, u + x <= Size PROVE At(new_last, x) = At(ptr_first, u + x)
  BY <1>6, <1>10, <1>13, AtAt
<1>14. new_last \in Ring
  BY <1>6, <1>10, AtType
(* Where the bytes go: n of them from v on, after a header or not.         *)
<1>15. PICK v \in Nat, r \in Nat :
         /\ n \in 0 .. r /\ r <= d /\ t = r /\ v + r <= Size /\ v >= u + w
         /\ L \in Nat
         /\ from = At(ptr_first, v) /\ At(ptr_first, v) + r <= Size
         /\ v = IF fragment_offset = 0 THEN u + (w + 1) ELSE u + w
         /\ write_ptr = At(ptr_first, u + w) /\ u + w < Size
         /\ fragment_offset = 0 => At(ptr_first, u + w) + r < Size
         /\ fragment_offset # 0 => Pending = r
         /\ fragment_offset = 0 => Pending = 0
         /\ (v - u) + r + Need(At(new_last, (v - u) + r), d - r) <= total_len
         /\ fragment_offset' = 0 => n = r
         /\ fragment_offset' # 0 => /\ fragment_offset' \in Nat /\ fragment_offset' < L
                                    /\ Least(d - n, L - fragment_offset') = r - n
  <2>1. CASE fragment_offset = 0
    <3>1. Pending = 0
      BY <2>1 DEF Pending
    <3>2. w + Need(write_ptr, d) <= total_len
      <4>1. w + 0 = w /\ d - 0 = d
        BY <1>6
      <4>2. QED
        BY <1>9, <1>11, <3>1, <4>1
    <3>3. L = Least(MAX_FRAGMENT_LEN, Size - write_ptr - 1) /\ L \in Nat
      <4>1. L = Least(MAX_FRAGMENT_LEN, Size - write_ptr - 1)
        BY <1>4, <2>1 DEF FragmentLen
      <4>2. Size - write_ptr - 1 \in Nat
        BY <1>6 DEF Ring
      <4>3. QED
        BY <1>6, <4>1, <4>2 DEF Least
    <3>4. t = Least(d, L)
      <4>1. L - 0 = L
        BY <3>3
      <4>2. QED
        BY <1>4, <1>9, <2>1, <4>1
    <3>5. Need(write_ptr, d) \in Nat
      <4>1. PICK c \in Nat : c = Ceil(d)
        BY CeilIs
      <4>2. PICK b \in {0, 1} : b = IF write_ptr + d + c > Size THEN 1 ELSE 0
        OBVIOUS
      <4>3. Need(write_ptr, d) = d + c + b
        BY <4>1, <4>2 DEF Need
      <4>4. QED
        BY <4>3
    <3>6. Need(write_ptr, d) <= Size
      <4>1. PICK e \in Nat : e = Need(write_ptr, d)
        BY <3>5
      <4>2. QED
        BY <1>6, <1>7, <3>2, <4>1
    <3>7. /\ t \in 0 .. d /\ write_ptr + 1 + t <= Size
          /\ Need(At(write_ptr, 1 + t), d - t) \in Nat
          /\ Need(At(write_ptr, 1 + t), d - t) + 1 + t <= Need(write_ptr, d)
      BY <1>6, <3>3, <3>4, <3>6, NeedStep
    <3>8. PICK e, g \in Nat : e = Need(At(write_ptr, 1 + t), d - t) /\ g = Need(write_ptr, d)
      BY <3>5, <3>7
    <3>9. PICK r \in Nat : r = t
      BY <3>7
    <3>10. r <= d /\ write_ptr + 1 + r <= Size /\ e + 1 + r <= g /\ w + g <= total_len
      BY <3>2, <3>7, <3>8, <3>9
    <3>11. n \in 0 .. r /\ n = Least(r, h)
      <4>1. n = Least(r, h)
        BY <1>4, <1>8, <3>9
      <4>2. QED
        BY <4>1 DEF Least
    <3>12. u \in Nat /\ w \in Nat /\ u + (w + 1) + r <= Size /\ u + w < Size
      <4>1. u \in Nat /\ w \in Nat
        BY <1>6
      <4>2. w + (e + 1 + r) <= total_len
        BY <1>7, <3>10, <4>1
      <4>3. u + (w + (e + 1 + r)) <= Size
        BY <1>6, <1>7, <1>10, <4>1, <4>2
      <4>4. QED
        BY <1>6, <4>1, <4>3
    <3>13. write_ptr = At(ptr_first, u + w)
      <4>1. u + w <= Size
        BY <1>6, <3>12
      <4>2. QED
        BY <1>11, <1>13, <3>12, <4>1
    <3>14. PICK v \in Nat : v = u + (w + 1)
      BY <3>12
    <3>15. v + r <= Size /\ v >= u + w
      BY <3>12, <3>14
    <3>16. from = At(ptr_first, v)
      <4>1. u + w \in 0 .. Size /\ 1 \in Nat /\ (u + w) + 1 <= Size /\ (u + w) + 1 = v
        BY <1>6, <3>12, <3>14
      <4>2. (At(ptr_first, u + w) + 1) % Size = At(ptr_first, (u + w) + 1)
        BY <1>6, <4>1, AtMod
      <4>3. QED
        BY <1>4, <2>1, <3>13, <4>1, <4>2
    <3>17. At(ptr_first, v) + r <= Size /\ At(ptr_first, u + w) + r < Size
      <4>1. At(ptr_first, v) = IF ptr_first + v < Size THEN ptr_first + v
                               ELSE ptr_first + v - Size
        BY DEF At
      <4>2. write_ptr = IF ptr_first + (u + w) < Size THEN ptr_first + (u + w)
                        ELSE ptr_first + (u + w) - Size
        BY <3>13 DEF At
      <4>3. PICK a \in Nat, p \in Nat :
              a = ptr_first /\ p = write_ptr /\ p < Size /\ p + 1 + r <= Size
        BY <1>6, <3>10 DEF Ring
      <4>4. p = a + (u + w) \/ p + Size = a + (u + w)
        BY <1>6, <3>12, <4>2, <4>3
      <4>5. At(ptr_first, v) = IF p + 1 = Size THEN 0 ELSE p + 1
        <5>1. a + v = p + 1 \/ a + v = p + 1 + Size
          BY <1>6, <3>12, <3>14, <4>3, <4>4
        <5>2. a + v = p + 1 + Size => At(ptr_first, v) = p + 1
          BY <1>6, <3>14, <4>1, <4>3
        <5>3. a + v = p + 1 => At(ptr_first, v) = IF p + 1 = Size THEN 0 ELSE p + 1
          BY <1>6, <3>14, <4>1, <4>3
        <5>4. ~(p + 1 = Size /\ a + v = p + 1 + Size)
          <6>1. a < Size /\ v <= Size
            BY <1>6, <3>15, <4>3 DEF Ring
          <6>2. QED
            BY <1>6, <3>14, <4>3, <6>1
        <5>5. QED
          BY <5>1, <5>2, <5>3, <5>4
      <4>6. r + At(ptr_first, v) <= Size
        BY <1>6, <4>3, <4>5
      <4>7. At(ptr_first, u + w) + r < Size
        BY <1>6, <3>13, <4>3
      <4>8. At(ptr_first, v) \in Nat
        BY <4>3, <4>5
      <4>9. QED
        BY <4>6, <4>7, <4>8
    <3>18. (v - u) + r + Need(At(new_last, (v - u) + r), d - r) <= total_len
      <4>1. (v - u) + r = w + (1 + r) /\ w + (1 + r) <= Size /\ 1 + r \in Nat
        BY <1>6, <3>12, <3>14
      <4>2. At(At(new_last, w), 1 + r) = At(new_last, w + (1 + r))
        BY <1>14, <3>12, <4>1, AtAt
      <4>3. Need(At(new_last, (v - u) + r), d - r) = e
        BY <1>11, <3>8, <3>9, <4>1, <4>2
      <4>4. (v - u) + r + e <= total_len
        BY <1>7, <3>10, <3>12, <3>14
      <4>5. QED
        BY <4>3, <4>4
    <3>19. fragment_offset' = IF n >= L THEN 0 ELSE n
      BY <1>4, <2>1, <3>11
    <3>20. /\ n >= L => n = r
           /\ n < L => n > 0 /\ Least(d - n, L - n) = r - n
      <4>1. r = Least(d, L)
        BY <3>4, <3>9
      <4>2. QED
        BY <3>3, <3>11, <4>1 DEF Least
    <3>21. fragment_offset' = 0 => n = r
      BY <3>3, <3>11, <3>19, <3>20
    <3>22. fragment_offset' # 0 => /\ fragment_offset' \in Nat /\ fragment_offset' < L
                                   /\ Least(d - n, L - fragment_offset') = r - n
      BY <3>3, <3>11, <3>19, <3>20
    <3>23. QED
      BY <2>1, <3>1, <3>3, <3>9, <3>10, <3>11, <3>12, <3>13, <3>14, <3>15, <3>16, <3>17,
         <3>18, <3>21, <3>22
  <2>2. CASE fragment_offset # 0
    <3>1. L = fragment_len /\ fragment_offset < L /\ fragment_offset \in Nat \ {0} /\ L \in Nat
      BY <1>4, <1>6, <1>10, <2>2 DEF FragmentLen
    <3>2. PICK f \in Nat \ {0} : f = fragment_offset
      BY <3>1
    <3>3. t = Least(d, L - f) /\ Pending = t
      BY <1>4, <1>9, <2>2, <3>1, <3>2 DEF Pending
    <3>4. PICK r \in Nat : r = t
      BY <3>1, <3>2, <3>3 DEF Least
    <3>5. r <= d /\ n = Least(r, h) /\ n \in 0 .. r
      <4>1. r = Least(d, L - f) /\ L - f \in Nat
        BY <3>1, <3>2, <3>3, <3>4
      <4>2. r <= d
        BY <4>1 DEF Least
      <4>3. n = Least(r, h)
        BY <1>4, <1>8, <3>4
      <4>4. n \in 0 .. r
        BY <4>3 DEF Least
      <4>5. QED
        BY <4>2, <4>3, <4>4
    <3>6. w + r + Need(At(new_last, w + r), d - r) <= total_len /\ write_ptr + r <= Size
      BY <1>9, <1>10, <1>11, <3>3, <3>4
    <3>7. Need(At(new_last, w + r), d - r) \in Nat
      <4>1. d - r \in Nat
        BY <3>5
      <4>2. PICK c \in Nat : c = Ceil(d - r)
        BY <4>1, CeilIs
      <4>3. PICK q : q = At(new_last, w + r)
        OBVIOUS
      <4>4. PICK b \in {0, 1} : b = IF q + (d - r) + c > Size THEN 1 ELSE 0
        OBVIOUS
      <4>5. Need(q, d - r) = (d - r) + c + b
        BY <4>2, <4>4 DEF Need
      <4>6. QED
        BY <4>1, <4>3, <4>5
    <3>8. PICK e \in Nat : e = Need(At(new_last, w + r), d - r)
      BY <3>7
    <3>9. w > 0 /\ w \in Nat /\ u \in Nat
      BY <1>6, <1>11, <2>2
    <3>10. u + w + r <= Size
      BY <1>6, <1>7, <1>10, <3>6, <3>8, <3>9
    <3>11. write_ptr = At(ptr_first, u + w)
      <4>1. u + w <= Size
        BY <1>6, <3>9, <3>10
      <4>2. QED
        BY <1>11, <1>13, <3>9, <4>1
    <3>12. r > 0 /\ u + w < Size
      BY <1>6, <3>1, <3>2, <3>3, <3>4, <3>9, <3>10 DEF Least
    <3>13. from = write_ptr
      BY <1>4, <2>2
    <3>14. PICK v \in Nat : v = u + w
      BY <3>9
    <3>15. (v - u) + r + Need(At(new_last, (v - u) + r), d - r) <= total_len
      <4>1. (v - u) + r = w + r
        BY <3>9, <3>14
      <4>2. QED
        BY <3>6, <4>1
    <3>16. fragment_offset' = IF f + n >= L THEN 0 ELSE f + n
      BY <1>4, <3>2
    <3>17. /\ f + n >= L => n = r
           /\ f + n < L => Least(d - n, L - (f + n)) = r - n
      <4>1. r = Least(d, L - f)
        BY <3>3, <3>4
      <4>2. QED
        BY <3>1, <3>5, <4>1 DEF Least
    <3>18. f + n \in Nat /\ f + n # 0
      BY <3>5
    <3>19. fragment_offset' = 0 => n = r
      BY <3>1, <3>16, <3>17, <3>18
    <3>20. fragment_offset' # 0 => /\ fragment_offset' \in Nat /\ fragment_offset' < L
                                   /\ Least(d - n, L - fragment_offset') = r - n
      BY <3>1, <3>16, <3>17, <3>18
    <3>21. v + r <= Size /\ v >= u + w /\ At(ptr_first, v) + r <= Size
      BY <3>6, <3>9, <3>10, <3>11, <3>14
    <3>22. QED
      BY <2>2, <3>1, <3>3, <3>4, <3>5, <3>11, <3>12, <3>13, <3>14, <3>15, <3>19, <3>20, <3>21
  <2>3. QED
    BY <2>1, <2>2
<1>16. n \in Nat /\ v + n <= Size /\ v \in 0 .. Size /\ t \in Nat /\ u \in Nat /\ w \in Nat
  BY <1>6, <1>15
(* The ring after the turn, counted from the first object.                 *)
<1>17. ASSUME NEW y \in 0 .. Size - 1
       PROVE  /\ At(ptr_first, y) \in Ring
              /\ buffer'[At(ptr_first, y)]
                 = IF fragment_offset = 0 /\ y = u + w THEN Header(r, d = r)
                   ELSE IF v <= y /\ y < v + n THEN Data(name, d - (y - v))
                   ELSE buffer[At(ptr_first, y)]
  <2>1. PICK i \in Ring : i = At(ptr_first, y)
    <3>1. y \in 0 .. Size
      BY <1>6
    <3>2. QED
      BY <1>6, <3>1, AtType
  <2>2. i = write_ptr <=> y = u + w
    <3>1. u + w \in 0 .. Size - 1
      BY <1>6, <1>15, <1>16
    <3>2. QED
      BY <1>6, <1>15, <2>1, <3>1, AtDiffer
  <2>3. PICK k : k = (i - from) % Size
    OBVIOUS
  <2>4. (k < n <=> v <= y /\ y < v + n) /\ (v <= y => k = y - v)
    <3>1. k = (At(ptr_first, y) - At(ptr_first, v)) % Size
      BY <1>15, <2>1, <2>3
    <3>2. QED
      BY <1>6, <1>16, <3>1, Poured
  <2>5. buffer'[i] = IF fragment_offset = 0 /\ i = write_ptr THEN Header(t, data_len = t)
                     ELSE IF k < n THEN Data(name, data_len - k) ELSE buffer[i]
    BY <1>4, <2>3
  <2>6. t = r /\ data_len = d
    BY <1>9, <1>15
  <2>7. QED
    BY <2>1, <2>2, <2>4, <2>5, <2>6
<1>18. ASSUME NEW y \in 0 .. Size - 1, y < u
       PROVE  buffer'[At(ptr_first, y)] = buffer[At(ptr_first, y)]
  <2>1. y # u + w /\ ~(v <= y)
    BY <1>6, <1>15, <1>16, <1>18
  <2>2. QED
    BY <1>17, <2>1
<1>19. Placed(off)'
  <2>1. ASSUME NEW k \in 1 .. N
        PROVE  Stored(buffer', At(ptr_first, off[k]), off[k + 1] - off[k],
                      written[k][1], written[k][2])
    <3>1. k \in 1 .. num_entries
      BY <1>2
    <3>2. /\ off[k] \in 0 .. Size /\ off[k + 1] \in 0 .. Size /\ off[k] < off[k + 1]
          /\ Stored(buffer, At(ptr_first, off[k]), off[k + 1] - off[k],
                    written[k][1], written[k][2])
      BY <1>1, <3>1, ObjectIs
    <3>3. off[k + 1] <= u
      <4>1. k + 1 \in 1 .. num_entries + 1 /\ N - k \in Nat /\ (k + 1) + (N - k) = N + 1
            /\ N + 1 <= num_entries + 1 /\ num_entries \in Nat
        BY <1>2
      <4>2. off[k + 1] + (N - k) <= off[N + 1]
        BY <1>1, <4>1, Offsets
      <4>3. QED
        BY <1>2, <1>6, <3>2, <4>1, <4>2
    <3>4. PICK p, q \in 0 .. Size : p = off[k] /\ q = off[k + 1]
      BY <3>2
    <3>5. p < q /\ q <= u /\ q - p \in Nat
      BY <1>6, <3>2, <3>3, <3>4
    <3>6. ASSUME NEW x \in 0 .. (q - p) - 1
          PROVE  buffer'[At(At(ptr_first, p), x)] = buffer[At(At(ptr_first, p), x)]
      <4>1. p + x \in 0 .. Size - 1 /\ p + x < u /\ x \in Nat /\ p + x <= Size /\ p \in Nat
        BY <1>2, <1>6, <3>5
      <4>2. At(At(ptr_first, p), x) = At(ptr_first, p + x)
        BY <1>6, <4>1, AtAt
      <4>3. QED
        BY <1>18, <4>1, <4>2
    <3>7. Fragmented(buffer, At(ptr_first, p), q - p, 0, written[k][1], written[k][2], 0)
      BY <3>2, <3>4 DEF Stored
    <3>8. Fragmented(buffer', At(ptr_first, p), q - p, 0, written[k][1], written[k][2], 0)
      BY <3>5, <3>6, <3>7, Kept
    <3>9. QED
      BY <3>4, <3>8 DEF Stored
  <2>2. ptr_first' = ptr_first /\ num_entries' = num_entries /\ written' = written
    BY <1>5 DEF list, history
  <2>3. QED
    BY <1>1, <1>2, <2>1, <2>2 DEF Placed
<1>20. Fragmented(buffer', new_last, (v - u) + n, r - n, name, object_len, d - n)
  <2>1. CASE fragment_offset = 0
    <3>1. /\ u + w + 1 + r <= Size /\ At(ptr_first, u + w) + r < Size /\ r \in 0 .. d
          /\ v = u + (w + 1) /\ (v - u) + n = w + 1 + n /\ Pending = 0
      BY <1>15, <1>16, <2>1
    <3>2. \A y \in 0 .. Size - 1 :
            buffer'[At(ptr_first, y)]
              = IF y = u + w THEN Header(r, d = r)
                ELSE IF u + (w + 1) <= y /\ y < u + (w + 1) + n
                THEN Data(name, d - (y - (u + (w + 1)))) ELSE buffer[At(ptr_first, y)]
      BY <1>17, <2>1, <3>1
    <3>3. Fragmented(buffer, At(ptr_first, u), w, 0, name, object_len, d)
      BY <1>9, <1>10, <1>11, <3>1
    <3>4. n \in 0 .. r
      BY <1>15
    <3>5. Fragmented(buffer', At(ptr_first, u), w + 1 + n, r - n, name, object_len, d - n)
      BY <1>6, <1>12, <1>16, <3>1, <3>2, <3>3, <3>4, TurnBegins
    <3>6. QED
      BY <1>10, <3>1, <3>5
  <2>2. CASE fragment_offset # 0
    <3>1. /\ u + w + r <= Size /\ r \in 0 .. d /\ v = u + w /\ (v - u) + n = w + n
          /\ Pending = r /\ w \in Nat \ {0} /\ d \in Nat
      BY <1>11, <1>15, <1>16, <2>2
    <3>2. \A y \in 0 .. Size - 1 :
            buffer'[At(ptr_first, y)]
              = IF u + w <= y /\ y < u + w + n
                THEN Data(name, d - (y - (u + w))) ELSE buffer[At(ptr_first, y)]
      BY <1>17, <2>2, <3>1
    <3>3. Fragmented(buffer, At(ptr_first, u), w, r, name, object_len, d)
      BY <1>9, <1>10, <1>11, <3>1
    <3>4. n \in 0 .. r
      BY <1>15
    <3>5. Fragmented(buffer', At(ptr_first, u), w + n, r - n, name, object_len, d - n)
      BY <1>6, <1>12, <1>16, <3>1, <3>2, <3>3, <3>4, TurnContinues
    <3>6. QED
      BY <1>10, <3>1, <3>5
  <2>3. QED
    BY <2>1, <2>2
<1>21. write_ptr' = At(ptr_first, v + n) /\ write_ptr' \in Ring
  <2>1. write_ptr' = At(ptr_first, v + n)
    <3>1. (At(ptr_first, v) + n) % Size = At(ptr_first, v + n)
      BY <1>6, <1>16, AtMod
    <3>2. from = At(ptr_first, v)
      BY <1>15
    <3>3. QED
      BY <1>4, <3>1, <3>2
  <2>2. v + n \in 0 .. Size
    BY <1>6, <1>16
  <2>3. QED
    BY <1>6, <2>1, <2>2, AtType
<1>22. PICK x \in 0 .. Size : x = (v - u) + n
  <2>1. (v - u) + n \in 0 .. Size
    BY <1>6, <1>15, <1>16
  <2>2. QED
    BY <2>1
<1>23. write_ptr' = At(new_last, x)
  <2>1. u + x = v + n /\ x \in Nat /\ u + x <= Size
    BY <1>6, <1>16, <1>22
  <2>2. QED
    BY <1>13, <1>21, <2>1
<1>24. Kinds'
  <2>1. ASSUME NEW i \in Ring
        PROVE  buffer'[i].len \in Nat /\ buffer'[i].final \in BOOLEAN
    <3>1. \/ buffer'[i] = Header(t, data_len = t)
          \/ \E k : buffer'[i] = Data(name, k)
          \/ buffer'[i] = buffer[i]
      BY <1>4
    <3>2. /\ Header(t, data_len = t).len = t /\ Header(t, data_len = t).final = (data_len = t)
          /\ \A k : Data(name, k).len = 0 /\ Data(name, k).final = FALSE
      BY DEF Header, Data
    <3>3. buffer[i].len \in Nat /\ buffer[i].final \in BOOLEAN
      BY <1>6 DEF Cells
    <3>4. (data_len = t) \in BOOLEAN
      OBVIOUS
    <3>5. CASE buffer'[i] = Header(t, data_len = t)
      <4>1. buffer'[i].len = t /\ buffer'[i].final = (data_len = t)
        BY <3>2, <3>5
      <4>2. QED
        BY <1>16, <3>4, <4>1
    <3>6. CASE \E k : buffer'[i] = Data(name, k)
      <4>1. PICK k : buffer'[i] = Data(name, k)
        BY <3>6
      <4>2. buffer'[i].len = 0 /\ buffer'[i].final = FALSE
        BY <3>2, <4>1
      <4>3. buffer'[i].len \in Nat
        BY <4>2
      <4>4. buffer'[i].final \in BOOLEAN
        BY <4>2, Zenon
      <4>5. QED
        BY <4>3, <4>4
    <3>7. CASE buffer'[i] = buffer[i]
      BY <3>3, <3>7
    <3>8. QED
      BY <3>1, <3>5, <3>6, <3>7
  <2>2. Cells(buffer')
    BY <2>1 DEF Cells
  <2>3. buffer' = [i \in Ring |-> buffer'[i]]
    BY <1>4
  <2>4. fragment_len' \in Nat
    BY <1>4, <1>15
  <2>5. QED
    BY <1>1, <1>5, <1>21, <2>2, <2>3, <2>4 DEF Kinds, list, history
<1>25. InCall'
  <2>1. n <= h /\ n \in Nat /\ d - n \in Nat
    <3>1. r <= d /\ n \in 0 .. r
      BY <1>15
    <3>2. n = Least(t, h)
      BY <1>4, <1>8
    <3>3. n <= h
      BY <1>16, <3>2 DEF Least
    <3>4. QED
      BY <3>1, <3>3
  <2>2. sc_list' \in Seq(Nat \ {0}) /\ LenOf(sc_list') = d - n
    <3>1. CASE n = h
      <4>1. sc_list' = Tail(sc_list) /\ rest = d - n
        <5>1. d = h + rest
          BY <1>8, <1>9
        <5>2. rest = d - n
          BY <3>1, <5>1
        <5>3. QED
          BY <1>4, <1>8, <3>1, <5>2
      <4>2. QED
        BY <1>8, <4>1
    <3>2. CASE n # h
      <4>1. PICK g \in Nat \ {0} : g = h - n
        BY <2>1, <3>2
      <4>2. sc_list' = <<g>> \o Tail(sc_list)
        BY <1>4, <1>8, <3>2, <4>1
      <4>3. <<g>> \in Seq(Nat \ {0}) /\ Tail(sc_list) \in Seq(Nat) /\ g \in Nat
        BY <1>8
      <4>4. <<g>> \o Tail(sc_list) \in Seq(Nat \ {0})
        BY <1>8, <4>3, ConcatProperties
      <4>5. LenOf(<<g>> \o Tail(sc_list)) = g + rest
        BY <1>8, <4>3, SumCons
      <4>6. g + rest = d - n
        <5>1. d = h + rest
          BY <1>8, <1>9
        <5>2. QED
          BY <2>1, <4>1, <5>1
      <4>7. QED
        BY <4>2, <4>4, <4>5, <4>6
    <3>3. QED
      BY <3>1, <3>2
  <2>3. data_len' = d - n
    BY <1>4, <1>9
  <2>4. object_len' = object_len /\ total_len' = total_len
    BY <1>5 DEF history
  <2>5. QED
    BY <1>7, <2>1, <2>2, <2>3, <2>4 DEF InCall
<1>26. Dropping'
  BY <1>3, <1>5 DEF Dropping
<1>27. Ends(off)'
  BY <1>1, <1>3, <1>5 DEF Ends, list
<1>28. Pending' = r - n
  <2>1. data_len' = d - n /\ fragment_len' = L /\ d - n \in Nat
    <3>1. r <= d /\ n \in 0 .. r
      BY <1>15
    <3>2. data_len' = d - n /\ fragment_len' = L
      BY <1>4, <1>9
    <3>3. QED
      BY <3>1, <3>2
  <2>2. CASE fragment_offset' = 0
    <3>1. r - n = 0
      BY <1>15, <1>16, <2>2
    <3>2. QED
      BY <2>2, <3>1 DEF Pending
  <2>3. CASE fragment_offset' # 0
    BY <1>15, <2>1, <2>3 DEF Pending
  <2>4. QED
    BY <2>2, <2>3
<1>29. Writing(off)'
  <2>1. /\ new_last' = At(ptr_first', off[num_entries' + 1])
        /\ off[num_entries' + 1] + total_len' <= Size
    BY <1>2, <1>5, <1>10 DEF list
  <2>2. /\ fragment_offset' \in Nat
        /\ fragment_offset' = 0 \/ fragment_offset' < fragment_len'
    BY <1>4, <1>15
  <2>3. write_ptr' + Pending' <= Size
    <3>1. At(ptr_first, v + n) = IF ptr_first + (v + n) < Size THEN ptr_first + (v + n)
                                 ELSE ptr_first + (v + n) - Size
      BY DEF At
    <3>2. At(ptr_first, v) = IF ptr_first + v < Size THEN ptr_first + v
                             ELSE ptr_first + v - Size
      BY DEF At
    <3>3. ptr_first \in 0 .. Size - 1 /\ At(ptr_first, v) + r <= Size /\ n \in 0 .. r
          /\ v + r <= Size
      BY <1>6, <1>15 DEF Ring
    <3>4. At(ptr_first, v + n) + (r - n) <= Size
      <4>1. PICK a \in Nat : a = ptr_first /\ a < Size
        BY <1>6 DEF Ring
      <4>2. CASE a + v < Size
        <5>1. a + v + r <= Size
          BY <1>6, <3>2, <3>3, <4>1, <4>2
        <5>2. CASE a + (v + n) < Size
          BY <1>6, <3>1, <3>3, <4>1, <5>1, <5>2
        <5>3. CASE ~(a + (v + n) < Size)
          <6>1. a + (v + n) = Size /\ r - n = 0
            BY <1>6, <3>3, <4>1, <5>1, <5>3
          <6>2. At(ptr_first, v + n) = 0
            BY <1>6, <3>1, <3>3, <4>1, <6>1
          <6>3. QED
            BY <1>6, <6>1, <6>2
        <5>4. QED
          BY <5>2, <5>3
      <4>3. CASE ~(a + v < Size)
        <5>1. At(ptr_first, v) = a + v - Size
          BY <1>6, <3>2, <4>1, <4>3
        <5>2. At(ptr_first, v + n) = a + (v + n) - Size
          BY <1>6, <3>1, <3>3, <4>1, <4>3
        <5>3. QED
          BY <1>6, <3>3, <4>1, <5>1, <5>2
      <4>4. QED
        BY <4>2, <4>3
    <3>5. QED
      BY <1>21, <1>28, <3>4
  <2>4. /\ x = 0 => fragment_offset' = 0
        /\ Fragmented(buffer', new_last, x, r - n, name, object_len, d - n)
        /\ x + (r - n) + Need(At(new_last, x + (r - n)), (d - n) - (r - n)) <= total_len
    <3>1. x + (r - n) = (v - u) + r /\ (d - n) - (r - n) = d - r
      BY <1>15, <1>16, <1>22
    <3>2. x = 0 => fragment_offset' = 0
      <4>1. SUFFICES ASSUME x = 0 PROVE fragment_offset' = 0
        OBVIOUS
      <4>2. v = u /\ n = 0
        BY <1>15, <1>16, <1>22, <4>1
      <4>3. fragment_offset # 0 /\ w = 0
        BY <1>15, <1>16, <4>2
      <4>4. QED
        BY <1>11, <4>3
    <3>3. QED
      BY <1>15, <1>20, <1>22, <3>1, <3>2
  <2>5. data_len' = d - n /\ new_last' = new_last /\ name' = name
        /\ object_len' = object_len /\ total_len' = total_len
    BY <1>4, <1>5, <1>9 DEF history
  <2>6. /\ write_ptr' = At(new_last', x) /\ (x = 0 => fragment_offset' = 0)
        /\ Fragmented(buffer', new_last', x, Pending', name', object_len', data_len')
        /\ x + Pending' + Need(At(new_last', x + Pending'), data_len' - Pending') <= total_len'
    BY <1>23, <1>28, <2>4, <2>5
  <2>7. QED
    BY <2>1, <2>2, <2>3, <2>6 DEF Writing
<1>30. QED
  BY <1>19, <1>24, <1>25, <1>26, <1>27, <1>29 DEF Inv

LEMMA InvNext == Inv /\ [Next]_vars => Inv'
<1> SUFFICES ASSUME Inv, [Next]_vars PROVE Inv'
  OBVIOUS
<1>1. ASSUME NEW sc \in Scatter, Begin(sc) PROVE Inv'
  BY <1>1, InvBegin
<1>2. CASE Drop
  BY <1>2, InvDrop
<1>3. CASE Start
  BY <1>3, InvStart
<1>4. CASE Chunk
  BY <1>4, InvChunk
<1>5. CASE End
  BY <1>5, InvEnd
<1>6. CASE UNCHANGED vars
  BY <1>6, InvStutter
<1>7. QED
  BY <1>1, <1>2, <1>3, <1>4, <1>5, <1>6 DEF Next

-----------------------------------------------------------------------------
(* The theorems                                                            *)
(* The invariant of the proofs: the objects lie end to end in the ring,    *)
(* cut into fragments, and the one being written into has room to the end. *)
THEOREM Invariance == Spec => []Inv
  BY InvInit, InvNext, PTL DEF Spec

(* Every object in the log can be read whole by its index, in the order of *)
(* the writes, and its size is the length that was written.                *)
THEOREM ReadableAlways == Spec => []EveryObjectReadable
<1>1. Inv => EveryObjectReadable
  BY InvReads
<1>2. QED
  BY <1>1, Invariance, PTL

(* No fragment that a reader is given a pointer to crosses the end of the  *)
(* ring.                                                                   *)
THEOREM ContiguousAlways == Spec => []FragmentsContiguous
<1>1. Inv => FragmentsContiguous
  BY InvReads
<1>2. QED
  BY <1>1, Invariance, PTL

(* A negative index finds what the positive one does, the last object is   *)
(* ptr_last, and the next one is looked for where it will be written.      *)
THEOREM EndsAlwaysMeet == Spec => []EndsMeet
  BY InvEnds, Invariance, PTL

(* An object is only dropped when it and the others do not fit together.   *)
THEOREM DropsForSpace == Spec => DropsOnlyForSpace
<1>1. ASSUME Inv, [Next]_vars
      PROVE  [num_entries' < num_entries => InUse + total_len > Size]_vars
  <2>1. PICK off : Kinds /\ Placed(off) /\ Ends(off)
    BY <1>1 DEF Inv
  <2>2. num_entries \in Nat
    BY <2>1 DEF Kinds
  <2>3. CASE Drop
    <3>1. pc = "drop" /\ ~Fits /\ ptr_first # ptr_last
      BY <2>3 DEF Drop
    <3>2. log_end = write_ptr /\ total_len \in Nat
      BY <1>1, <3>1 DEF Inv, Dropping, InCall
    <3>3. num_entries >= 2
      BY <2>1, <3>1, TwoAtLeast
    <3>4. num_entries \in 1 .. num_entries
      BY <2>2, <3>3
    <3>5. /\ off[num_entries] \in 0 .. Size /\ off[num_entries + 1] \in 0 .. Size
          /\ off[num_entries] < off[num_entries + 1]
      BY <2>1, <3>4, ObjectIs
    <3>6. PICK u \in 1 .. Size : u = off[num_entries + 1]
      <4>1. Size \in Nat
        BY Sizes
      <4>2. off[num_entries + 1] \in 1 .. Size
        BY <3>5, <4>1
      <4>3. QED
        BY <4>2
    <3>7. ptr_first \in Ring /\ log_end = At(ptr_first, u)
      BY <2>1, <3>1, <3>2, <3>6 DEF Kinds, Ends
    <3>8. objectlog_free_space(log_end, ptr_first) = Size - u
      BY <3>7, FreeSpace
    <3>9. ~(Size - u >= total_len)
      BY <3>1, <3>8 DEF Fits
    <3>10. InUse = u
      BY <2>1, <3>6, InUseIs
    <3>11. u + total_len > Size
      BY <3>2, <3>9, Sizes
    <3>12. QED
      BY <3>10, <3>11
  <2>4. CASE ~Drop
    <3>1. num_entries' = num_entries \/ num_entries' = num_entries + 1
      BY <1>1, <2>4 DEF Next, Begin, Start, Chunk, End, vars, list
    <3>2. ~(num_entries' < num_entries)
      BY <2>2, <3>1
    <3>3. QED
      BY <3>2
  <2>5. QED
    BY <2>3, <2>4
<1>2. QED
  BY <1>1, Invariance, PTL DEF Spec, DropsOnlyForSpace

-----------------------------------------------------------------------------
(* The refinement of RecentLog: what the readers find is the list written. *)
View(wr) == [i \in DOMAIN wr |-> Whole(wr[i][1], wr[i][2])]
Pairs == (0 .. Names - 1) \X Nat
Wholes == {Whole(p[1], p[2]) : p \in Pairs}

LEMMA ViewIs ==
  ASSUME NEW s \in Seq(Pairs)
  PROVE  /\ View(s) \in Seq(Wholes) /\ Len(View(s)) = Len(s)
         /\ \A i \in 1 .. Len(s) : View(s)[i] = Whole(s[i][1], s[i][2])
<1>1. Len(s) \in Nat /\ DOMAIN s = 1 .. Len(s) /\ \A i \in 1 .. Len(s) : s[i] \in Pairs
  BY LenProperties
<1>2. \A i \in 1 .. Len(s) : Whole(s[i][1], s[i][2]) \in Wholes
  BY <1>1 DEF Wholes
<1>3. PICK n \in Nat : n = Len(s)
  BY <1>1
<1>4. View(s) = [i \in 1 .. n |-> Whole(s[i][1], s[i][2])]
  BY <1>1, <1>3 DEF View
<1>5. View(s) \in [1 .. n -> Wholes]
  BY <1>2, <1>3, <1>4
<1>6. View(s) \in Seq(Wholes) /\ Len(View(s)) = n
  BY <1>4, <1>5
<1>7. QED
  BY <1>3, <1>4, <1>6

LEMMA ViewTail ==
  ASSUME NEW s \in Seq(Pairs), s # <<>>
  PROVE  View(s) # <<>> /\ View(Tail(s)) = Tail(View(s))
<1>1. /\ Tail(s) \in Seq(Pairs) /\ Len(Tail(s)) = Len(s) - 1
      /\ \A i \in 1 .. Len(Tail(s)) : Tail(s)[i] = s[i + 1]
  BY HeadTailProperties
<1>2. Len(s) \in Nat \ {0}
  BY EmptySeq
<1>3. /\ View(s) \in Seq(Wholes) /\ Len(View(s)) = Len(s)
      /\ \A i \in 1 .. Len(s) : View(s)[i] = Whole(s[i][1], s[i][2])
  BY ViewIs
<1>4. View(s) # <<>>
  BY <1>2, <1>3, EmptySeq
<1>5. /\ View(Tail(s)) \in Seq(Wholes) /\ Len(View(Tail(s))) = Len(s) - 1
      /\ \A i \in 1 .. Len(s) - 1 : View(Tail(s))[i] = Whole(Tail(s)[i][1], Tail(s)[i][2])
  BY <1>1, ViewIs
<1>6. /\ Tail(View(s)) \in Seq(Wholes) /\ Len(Tail(View(s))) = Len(s) - 1
      /\ \A i \in 1 .. Len(s) - 1 : Tail(View(s))[i] = View(s)[i + 1]
  BY <1>3, <1>4, HeadTailProperties
<1>7. ASSUME NEW i \in 1 .. Len(s) - 1 PROVE View(Tail(s))[i] = Tail(View(s))[i]
  <2>1. i \in 1 .. Len(Tail(s)) /\ i + 1 \in 1 .. Len(s)
    BY <1>1, <1>2
  <2>2. Tail(s)[i] = s[i + 1] /\ View(s)[i + 1] = Whole(s[i + 1][1], s[i + 1][2])
    BY <1>1, <1>3, <2>1
  <2>3. QED
    BY <1>5, <1>6, <2>2
<1>8. View(Tail(s)) = Tail(View(s))
  BY <1>5, <1>6, <1>7, SeqEqual
<1>9. QED
  BY <1>4, <1>8

LEMMA ViewAppend ==
  ASSUME NEW s \in Seq(Pairs), NEW p \in Pairs
  PROVE  /\ Len(View(Append(s, p))) = Len(View(s)) + 1
         /\ SubSeq(View(Append(s, p)), 1, Len(View(s))) = View(s)
         /\ View(Append(s, p))[Len(View(Append(s, p)))] = Whole(p[1], p[2])
<1>1. /\ Append(s, p) \in Seq(Pairs) /\ Len(Append(s, p)) = Len(s) + 1
      /\ Append(s, p)[Len(s) + 1] = p
      /\ \A i \in 1 .. Len(s) : Append(s, p)[i] = s[i]
  BY AppendProperties
<1>2. PICK n \in Nat : n = Len(s)
  BY LenProperties
<1>3. /\ View(s) \in Seq(Wholes) /\ Len(View(s)) = n
      /\ \A i \in 1 .. n : View(s)[i] = Whole(s[i][1], s[i][2])
  BY <1>2, ViewIs
<1>4. PICK t : t = View(Append(s, p))
  OBVIOUS
<1>5. /\ t \in Seq(Wholes) /\ Len(t) = n + 1
      /\ \A i \in 1 .. n + 1 : t[i] = Whole(Append(s, p)[i][1], Append(s, p)[i][2])
  BY <1>1, <1>2, <1>4, ViewIs
<1>6. t[n + 1] = Whole(p[1], p[2])
  BY <1>1, <1>2, <1>5
<1>7. ASSUME NEW i \in 1 .. n PROVE t[i] = View(s)[i]
  BY <1>1, <1>2, <1>3, <1>5
<1>8. SubSeq(t, 1, n) = View(s)
  <2>1. \A i \in 1 .. n : t[i] \in Wholes
    BY <1>5
  <2>2. /\ SubSeq(t, 1, n) \in Seq(Wholes) /\ Len(SubSeq(t, 1, n)) = n
        /\ \A i \in 1 .. n : SubSeq(t, 1, n)[i] = t[i]
    BY <1>5, <2>1
  <2>3. QED
    BY <1>3, <1>7, <2>2, SeqEqual
<1>9. QED
  BY <1>3, <1>4, <1>5, <1>6, <1>8

(* The log implements RecentLog, read through its own readers.             *)
THEOREM RefinesRecentLog == Spec => IsRecentLog
<1>1. ASSUME Init PROVE Recent!Init
  <2>1. Objects = [i \in DOMAIN written |-> Whole(written[i][1], written[i][2])]
    BY <1>1, InvInit, InvReads DEF EveryObjectReadable
  <2>2. written = <<>>
    BY <1>1 DEF Init
  <2>3. Objects = <<>>
    BY <2>1, <2>2
  <2>4. QED
    BY <2>3 DEF Recent!Init
<1>2. ASSUME Inv, [Next]_vars, EveryObjectReadable, EveryObjectReadable'
      PROVE  [Recent!Next]_Objects
  <2>1. Objects = View(written) /\ Objects' = View(written')
    BY <1>2 DEF EveryObjectReadable, View
  <2>2. written \in Seq(Pairs) /\ name \in 0 .. Names - 1
    BY <1>2 DEF Inv, Kinds, Pairs
  <2>3. CASE Drop
    <3>1. written' = Tail(written) /\ ptr_first # ptr_last
      BY <2>3 DEF Drop
    <3>2. written # <<>>
      <4>1. PICK off : Kinds /\ Placed(off) /\ Ends(off)
        BY <1>2 DEF Inv
      <4>2. num_entries >= 2 /\ Len(written) = num_entries /\ num_entries \in Nat
        BY <3>1, <4>1, TwoAtLeast DEF Kinds
      <4>3. QED
        BY <4>2, EmptySeq
    <3>3. Objects # <<>> /\ Objects' = Tail(Objects)
      BY <2>1, <2>2, <3>1, <3>2, ViewTail
    <3>4. QED
      BY <3>3 DEF Recent!Next, Recent!Forget
  <2>4. CASE End
    <3>1. pc = "write" /\ written' = Append(written, <<name, object_len>>)
      BY <2>4 DEF End
    <3>2. PICK sc \in Scatter : LenOf(sc) = object_len
      BY <1>2, <3>1 DEF Inv, InCall, Writable
    <3>3. <<name, object_len>> \in Pairs
      <4>1. Writable(object_len)
        BY <1>2, <3>1 DEF Inv, InCall
      <4>2. object_len \in Nat
        BY <4>1, RoomFits
      <4>3. QED
        BY <2>2, <4>2 DEF Pairs
    <3>4. /\ Len(Objects') = Len(Objects) + 1
          /\ SubSeq(Objects', 1, Len(Objects)) = Objects
          /\ Objects'[Len(Objects')] = Whole(name, object_len)
      <4>1. <<name, object_len>>[1] = name /\ <<name, object_len>>[2] = object_len
        OBVIOUS
      <4>2. QED
        BY <2>1, <2>2, <3>1, <3>3, <4>1, ViewAppend
    <3>5. Whole(name, object_len) \in {Whole(o, LenOf(s)) : o \in 0 .. Names - 1, s \in Scatter}
      BY <2>2, <3>2
    <3>6. QED
      BY <3>4, <3>5 DEF Recent!Next, Recent!Write
  <2>5. CASE ~Drop /\ ~End
    <3>1. written' = written
      BY <1>2, <2>5 DEF Next, Begin, Start, Chunk, vars, history
    <3>2. QED
      BY <2>1, <3>1
  <2>6. QED
    BY <2>3, <2>4, <2>5
<1>3. QED
  BY <1>1, <1>2, Invariance, ReadableAlways, PTL DEF Spec, IsRecentLog, Recent!Spec
=============================================================================
