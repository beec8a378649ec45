--------------------------- MODULE IpInputProofs ----------------------------
(* EchoIsSound for packets of every length and content and bytes of every   *)
(* width.  A ones' complement sum, carry for carry, differs from the plain  *)
(* sum by a multiple of the largest word, whatever it begins with           *)
(* (ChksumIsTotal), and the plain sum of two parts is that of the second    *)
(* begun with the first (TotalConcat): so a checksum says whether the       *)
(* plain sum is a multiple, and the parts of a packet may be summed one     *)
(* after another, moved and adjusted.                                       *)
EXTENDS IpInput, Integers, SequenceTheorems, WellFoundedInduction, TLAPS

-----------------------------------------------------------------------------
(* IpInput: sums of words, and where they are equal.                       *)

Octet == 0 .. Byte - 1
WordValue == 0 .. Word - 1

LEMMA ByteSize ==
  /\ Byte \in Nat /\ Byte >= 2 /\ Word = Byte * Byte
  /\ Word \in Nat /\ Word >= 4 /\ Byte <= Word /\ Word \div 4 \in Nat
  /\ {VHL, UIP_PROTO_ICMP, UIP_PROTO_TCP, ICMP_ECHO} \subseteq Octet \ {0}
<1>1. Byte \in Nat /\ VHL \in 1 .. Byte - 1
  BY PacketSizes
<1>2. Byte >= 2
  BY <1>1
<1>3. Byte * Byte \in Nat /\ Byte * Byte >= 2 * Byte
  BY <1>1, <1>2
<1>4. Word \in Nat /\ Word >= 4 /\ Byte <= Word /\ Word = Byte * Byte
  BY <1>1, <1>2, <1>3 DEF Word
<1>5. {VHL, UIP_PROTO_ICMP, UIP_PROTO_TCP, ICMP_ECHO} \subseteq Octet \ {0}
  BY PacketSizes, <1>1 DEF Octet
<1>6. QED
  BY <1>1, <1>2, <1>4, <1>5

(* Two bytes are a word, and a word is its two bytes.                      *)
LEMMA WordOfBytes ==
  ASSUME NEW a \in Octet, NEW b \in Octet
  PROVE  /\ a * Byte + b \in WordValue /\ a * Byte \in Nat
         /\ a * Byte + b = 0 <=> a = 0 /\ b = 0
<1>1. PICK B \in Nat : B = Byte /\ B >= 2 /\ Word = B * B
  BY ByteSize
<1>2. a \in Nat /\ b \in Nat /\ a <= B - 1 /\ b <= B - 1
  BY <1>1 DEF Octet
<1>3. a * B \in Nat /\ a * B <= (B - 1) * B /\ (a # 0 => a * B >= B)
  BY <1>1, <1>2
<1>4. (B - 1) * B = B * B - B
  BY <1>1
<1>5. a * B + b <= B * B - 1
  BY <1>1, <1>2, <1>3, <1>4
<1>6. a * B + b \in WordValue
  BY <1>1, <1>2, <1>3, <1>5 DEF WordValue
<1>7. a * B + b = 0 <=> a = 0 /\ b = 0
  BY <1>1, <1>2, <1>3
<1>8. QED
  BY <1>1, <1>3, <1>6, <1>7

LEMMA BytesOfWord ==
  ASSUME NEW w \in WordValue
  PROVE  /\ w \div Byte \in Octet /\ w % Byte \in Octet
         /\ (w \div Byte) * Byte + (w % Byte) = w
         /\ Bytes(w) = <<w \div Byte, w % Byte>>
<1>1. PICK B \in Nat : B = Byte /\ B >= 2 /\ Word = B * B
  BY ByteSize
<1>2. w \in Nat /\ w < B * B
  BY <1>1, ByteSize DEF WordValue
<1>3. /\ w \div B \in Nat /\ w % B \in 0 .. B - 1
      /\ w = B * (w \div B) + (w % B)
  BY <1>1, <1>2
<1>4. PICK q \in Nat, r \in Nat : q = w \div B /\ r = w % B /\ r < B /\ w = B * q + r
  BY <1>1, <1>3
<1>5. q < B
  <2>1. SUFFICES ASSUME q >= B PROVE FALSE
    BY <1>1, <1>4
  <2>2. B * q >= B * B
    BY <1>1, <1>4, <2>1
  <2>3. QED
    BY <1>1, <1>2, <1>4, <2>2
<1>6. B * q = q * B
  BY <1>1, <1>4
<1>7. QED
  BY <1>1, <1>4, <1>5, <1>6 DEF Octet, Bytes

(* An even number of bytes makes half as many words, an odd one as many as *)
(* with a zero behind.                                                     *)
LEMMA WordsAre ==
  ASSUME NEW data \in Seq(Octet)
  PROVE  \E n \in Nat :
           /\ 2 * n = Len(data) \/ 2 * n = Len(data) + 1
           /\ Words(data) \in Seq(WordValue) /\ Len(Words(data)) = n
           /\ \A i \in 1 .. n :
                /\ 2 * i - 1 \in 1 .. Len(data)
                /\ Words(data)[i] = data[2 * i - 1] * Byte
                                    + (IF 2 * i <= Len(data) THEN data[2 * i] ELSE 0)
<1> DEFINE even == IF Len(data) % 2 = 0 THEN data ELSE Append(data, 0)
<1>1. Len(data) \in Nat
  OBVIOUS
<1>2. PICK n \in Nat : \/ 2 * n = Len(data) /\ even = data
                       \/ 2 * n = Len(data) + 1 /\ even = Append(data, 0)
  <2>1. CASE Len(data) % 2 = 0
    <3>1. Len(data) \div 2 \in Nat /\ 2 * (Len(data) \div 2) = Len(data)
      BY <1>1, <2>1
    <3>2. even = data
      BY <2>1
    <3> HIDE DEF even
    <3>3. QED
      BY <3>1, <3>2
  <2>2. CASE Len(data) % 2 # 0
    <3>1. (Len(data) + 1) \div 2 \in Nat /\ 2 * ((Len(data) + 1) \div 2) = Len(data) + 1
      BY <1>1, <2>2
    <3>2. QED
      BY <2>2, <3>1
  <2>3. QED
    BY <2>1, <2>2
<1>3. 0 \in Octet
  BY ByteSize DEF Octet
<1>4. /\ even \in Seq(Octet) /\ Len(even) = 2 * n
      /\ \A k \in 1 .. 2 * n :
           even[k] = IF k <= Len(data) THEN data[k] ELSE 0
  BY <1>1, <1>2, <1>3
<1> HIDE DEF even
<1>5. Len(even) \div 2 = n
  BY <1>4
<1>6. Words(data) = [i \in 1 .. n |-> even[2 * i - 1] * Byte + even[2 * i]]
  <2>1. Words(data) = [i \in 1 .. Len(even) \div 2 |-> WordAt(even, 2 * i - 1)]
    BY DEF Words, even
  <2>2. ASSUME NEW i \in 1 .. n
        PROVE  WordAt(even, 2 * i - 1) = even[2 * i - 1] * Byte + even[2 * i]
    <3>1. 2 * i - 1 + 1 = 2 * i
      OBVIOUS
    <3>2. QED
      BY <3>1 DEF WordAt
  <2>3. QED
    BY <1>5, <2>1, <2>2
<1>7. ASSUME NEW i \in 1 .. n
      PROVE  /\ 2 * i - 1 \in 1 .. Len(data) /\ 2 * i \in 1 .. 2 * n
             /\ even[2 * i - 1] = data[2 * i - 1]
             /\ even[2 * i] = IF 2 * i <= Len(data) THEN data[2 * i] ELSE 0
             /\ even[2 * i - 1] * Byte + even[2 * i] \in WordValue
  <2>1. 2 * i - 1 \in 1 .. Len(data) /\ 2 * i \in 1 .. 2 * n /\ 2 * i - 1 \in 1 .. 2 * n
    BY <1>1, <1>2
  <2>2. even[2 * i - 1] \in Octet /\ even[2 * i] \in Octet
    BY <1>4, <2>1
  <2>3. even[2 * i - 1] * Byte + even[2 * i] \in WordValue
    BY <2>2, WordOfBytes
  <2>4. 2 * i - 1 <= Len(data)
    BY <2>1
  <2>5. QED
    BY <1>4, <2>1, <2>3, <2>4
<1>8. Words(data) \in Seq(WordValue) /\ Len(Words(data)) = n
  BY <1>6, <1>7
<1>9. QED
  BY <1>1, <1>2, <1>6, <1>7, <1>8

(* What the sums go through, and that there are such functions.            *)
Sums(f, from, w, n) ==
  f = [i \in 0 .. n |-> IF i = 0 THEN from ELSE f[i - 1] + w[i]]
Carries(f, from, w, n) ==
  f = [i \in 0 .. n |-> IF i = 0 THEN from ELSE AddWord(f[i - 1], w[i])]

(* A set of numbers that is not empty has a least one.                     *)
LEMMA LeastOf ==
  ASSUME NEW T \in SUBSET Nat, T # {}
  PROVE  \E m \in T : \A k \in T : m <= k
<1> DEFINE R == {p \in Nat \X Nat : p[1] < p[2]}
<1>1. IsWellFoundedOn(R, Nat)
  <2>1. OpToRel(<, Nat) = R
    BY DEF OpToRel
  <2>2. QED
    BY <2>1, NatLessThanWellFounded
<1>2. \E x \in T : \A y \in T : ~ (<<y, x>> \in R)
  <2> HIDE DEF R
  <2>1. QED
    BY <1>1, WFMin
<1>3. PICK x \in T : \A y \in T : ~ (<<y, x>> \in R)
  BY <1>2
<1>4. ASSUME NEW y \in T PROVE x <= y
  <2>1. x \in Nat /\ y \in Nat
    OBVIOUS
  <2>2. y < x => <<y, x>> \in R
    BY <2>1
  <2> HIDE DEF R
  <2>3. QED
    BY <1>3, <2>1, <2>2
<1>5. QED
  BY <1>4

LEMMA Induct ==
  ASSUME NEW T \in SUBSET Nat, 0 \in T, \A n \in T : n + 1 \in T
  PROVE  T = Nat
<1>1. SUFFICES ASSUME Nat \ T # {} PROVE FALSE
  OBVIOUS
<1>2. PICK m \in Nat \ T : \A k \in Nat \ T : m <= k
  BY <1>1, LeastOf
<1>3. m # 0 /\ m - 1 \in Nat
  BY <1>2
<1>4. m - 1 \notin Nat \ T
  BY <1>2, <1>3
<1>5. (m - 1) + 1 = m
  BY <1>2
<1>6. QED
  BY <1>2, <1>3, <1>4, <1>5

LEMMA SumsExist ==
  ASSUME NEW from, NEW w, NEW n \in Nat
  PROVE  \E f : Sums(f, from, w, n)
<1> DEFINE T == {k \in Nat : \E f : Sums(f, from, w, k)}
<1>1. 0 \in T
  <2> DEFINE f == [i \in 0 .. 0 |-> from]
  <2>1. f = [i \in 0 .. 0 |-> IF i = 0 THEN from ELSE f[i - 1] + w[i]]
    OBVIOUS
  <2> HIDE DEF f
  <2>2. QED
    BY <2>1 DEF Sums
<1>2. ASSUME NEW k \in T PROVE k + 1 \in T
  <2>1. PICK f : Sums(f, from, w, k)
    OBVIOUS
  <2>2. k \in Nat
    OBVIOUS
  <2> DEFINE g == [i \in 0 .. k + 1 |-> IF i <= k THEN f[i] ELSE f[k] + w[k + 1]]
  <2>3. ASSUME NEW i \in 0 .. k + 1
        PROVE  g[i] = IF i = 0 THEN from ELSE g[i - 1] + w[i]
    <3>1. CASE i = 0
      BY <2>1, <2>2, <3>1 DEF Sums
    <3>2. CASE i # 0 /\ i <= k
      <4>1. i \in 0 .. k /\ i - 1 \in 0 .. k + 1 /\ i - 1 <= k
        BY <2>2, <3>2
      <4>2. f[i] = f[i - 1] + w[i]
        BY <2>1, <3>2, <4>1 DEF Sums
      <4>3. QED
        BY <3>2, <4>1, <4>2
    <3>3. CASE i = k + 1
      <4>1. i # 0 /\ ~(i <= k) /\ i - 1 = k /\ k \in 0 .. k + 1
        BY <2>2, <3>3
      <4>2. QED
        BY <3>3, <4>1
    <3>4. QED
      BY <2>2, <3>1, <3>2, <3>3
  <2>4. g = [i \in 0 .. k + 1 |-> g[i]]
    OBVIOUS
  <2> HIDE DEF g
  <2>5. g = [i \in 0 .. k + 1 |-> IF i = 0 THEN from ELSE g[i - 1] + w[i]]
    BY <2>3, <2>4
  <2>6. Sums(g, from, w, k + 1)
    BY <2>5 DEF Sums
  <2>7. QED
    BY <2>2, <2>6
<1> HIDE DEF T
<1>3. T \in SUBSET Nat
  BY DEF T
<1>4. T = Nat
  BY <1>1, <1>2, <1>3, Induct
<1>5. QED
  BY <1>4 DEF T

LEMMA CarriesExist ==
  ASSUME NEW from, NEW w, NEW n \in Nat
  PROVE  \E f : Carries(f, from, w, n)
<1> DEFINE T == {k \in Nat : \E f : Carries(f, from, w, k)}
<1>1. 0 \in T
  <2> DEFINE f == [i \in 0 .. 0 |-> from]
  <2>1. f = [i \in 0 .. 0 |-> IF i = 0 THEN from ELSE AddWord(f[i - 1], w[i])]
    OBVIOUS
  <2> HIDE DEF f
  <2>2. QED
    BY <2>1 DEF Carries
<1>2. ASSUME NEW k \in T PROVE k + 1 \in T
  <2>1. PICK f : Carries(f, from, w, k)
    OBVIOUS
  <2>2. k \in Nat
    OBVIOUS
  <2> DEFINE g == [i \in 0 .. k + 1 |-> IF i <= k THEN f[i] ELSE AddWord(f[k], w[k + 1])]
  <2>3. ASSUME NEW i \in 0 .. k + 1
        PROVE  g[i] = IF i = 0 THEN from ELSE AddWord(g[i - 1], w[i])
    <3>1. CASE i = 0
      BY <2>1, <2>2, <3>1 DEF Carries
    <3>2. CASE i # 0 /\ i <= k
      <4>1. i \in 0 .. k /\ i - 1 \in 0 .. k + 1 /\ i - 1 <= k
        BY <2>2, <3>2
      <4>2. f[i] = AddWord(f[i - 1], w[i])
        BY <2>1, <3>2, <4>1 DEF Carries
      <4>3. QED
        BY <3>2, <4>1, <4>2
    <3>3. CASE i = k + 1
      <4>1. i # 0 /\ ~(i <= k) /\ i - 1 = k /\ k \in 0 .. k + 1
        BY <2>2, <3>3
      <4>2. QED
        BY <3>3, <4>1
    <3>4. QED
      BY <2>2, <3>1, <3>2, <3>3
  <2>4. g = [i \in 0 .. k + 1 |-> g[i]]
    OBVIOUS
  <2> HIDE DEF g
  <2>5. g = [i \in 0 .. k + 1 |-> IF i = 0 THEN from ELSE AddWord(g[i - 1], w[i])]
    BY <2>3, <2>4
  <2>6. Carries(g, from, w, k + 1)
    BY <2>5 DEF Carries
  <2>7. QED
    BY <2>2, <2>6
<1> HIDE DEF T
<1>3. T \in SUBSET Nat
  BY DEF T
<1>4. T = Nat
  BY <1>1, <1>2, <1>3, Induct
<1>5. QED
  BY <1>4 DEF T

LEMMA TotalIs ==
  ASSUME NEW from, NEW data, NEW n \in Nat, Len(Words(data)) = n
  PROVE  \E f : Sums(f, from, Words(data), n) /\ Total(from, data) = f[n]
<1> DEFINE G == CHOOSE f : f = [i \in 0 .. Len(Words(data)) |-> IF i = 0 THEN from
                                                 ELSE f[i - 1] + Words(data)[i]]
<1>1. \E f : f = [i \in 0 .. Len(Words(data)) |-> IF i = 0 THEN from
                                    ELSE f[i - 1] + Words(data)[i]]
  <2>1. Len(Words(data)) \in Nat
    OBVIOUS
  <2>2. \E f : Sums(f, from, Words(data), Len(Words(data)))
    BY <2>1, SumsExist
  <2>3. QED
    BY <2>2 DEF Sums
<1>2. G = [i \in 0 .. Len(Words(data)) |-> IF i = 0 THEN from
                              ELSE G[i - 1] + Words(data)[i]]
  BY <1>1
<1>3. Total(from, data) = G[Len(Words(data))]
  BY DEF Total
<1>4. QED
  BY <1>2, <1>3 DEF Sums

LEMMA ChksumIs ==
  ASSUME NEW from, NEW data, NEW n \in Nat, Len(Words(data)) = n
  PROVE  \E f : Carries(f, from, Words(data), n) /\ chksum(from, data) = f[n]
<1> DEFINE G == CHOOSE f : f = [i \in 0 .. Len(Words(data)) |-> IF i = 0 THEN from
                                                 ELSE AddWord(f[i - 1], Words(data)[i])]
<1>1. \E f : f = [i \in 0 .. Len(Words(data)) |-> IF i = 0 THEN from
                                    ELSE AddWord(f[i - 1], Words(data)[i])]
  <2>1. Len(Words(data)) \in Nat
    OBVIOUS
  <2>2. \E f : Carries(f, from, Words(data), Len(Words(data)))
    BY <2>1, CarriesExist
  <2>3. QED
    BY <2>2 DEF Carries
<1>2. G = [i \in 0 .. Len(Words(data)) |-> IF i = 0 THEN from
                              ELSE AddWord(G[i - 1], Words(data)[i])]
  BY <1>1
<1>3. chksum(from, data) = G[Len(Words(data))]
  BY DEF chksum
<1>4. QED
  BY <1>2, <1>3 DEF Carries

(* Adding with the carry: the same sum, or less by Word - 1.               *)
LEMMA AddWordIs ==
  ASSUME NEW s \in WordValue, NEW t \in WordValue
  PROVE  /\ AddWord(s, t) \in WordValue
         /\ \/ AddWord(s, t) = s + t
            \/ AddWord(s, t) = s + t - (Word - 1) /\ AddWord(s, t) # 0
<1>1. PICK W \in Nat : W = Word /\ W >= 4
  BY ByteSize
<1>2. s \in Nat /\ t \in Nat /\ s < W /\ t < W
  BY <1>1 DEF WordValue
<1>3. CASE s + t < W
  <2>1. (s + t) % W = s + t
    BY <1>1, <1>2, <1>3
  <2>2. AddWord(s, t) = s + t
    BY <1>1, <1>2, <2>1 DEF AddWord
  <2>3. QED
    BY <1>1, <1>2, <1>3, <2>2 DEF WordValue
<1>4. CASE ~(s + t < W)
  <2>1. (s + t) % W = s + t - W
    <3>1. PICK r \in Nat : r = s + t - W /\ r < W /\ s + t = r + W
      <4>1. s + t - W \in Nat /\ s + t - W < W /\ s + t = (s + t - W) + W
        BY <1>1, <1>2, <1>4
      <4>2. QED
        BY <4>1
    <3>2. (r + W) % W = r
      BY <1>1, <3>1
    <3>3. QED
      BY <3>1, <3>2
  <2>2. s + t - W < t
    BY <1>1, <1>2
  <2>3. AddWord(s, t) = s + t - W + 1
    BY <1>1, <2>1, <2>2 DEF AddWord
  <2>4. QED
    BY <1>1, <1>2, <1>4, <2>3 DEF WordValue
<1>5. QED
  BY <1>3, <1>4

(* The sum with carries is the sum but for multiples of Word - 1, and zero *)
(* only if everything is.                                                  *)
Same(total, sum) ==
  /\ total \in Nat /\ sum \in WordValue /\ (sum = 0 <=> total = 0)
  /\ \E q \in Nat : total = sum + q * (Word - 1)

LEMMA ChksumIsTotal ==
  ASSUME NEW start, NEW from, Same(start, from), NEW data \in Seq(Octet)
  PROVE  Same(Total(start, data), chksum(from, data))
<1> DEFINE w == Words(data)
<1>1. PICK n \in Nat : w \in Seq(WordValue) /\ Len(w) = n
  BY WordsAre
<1> HIDE DEF w
<1>2. PICK f : Sums(f, start, w, n) /\ Total(start, data) = f[n]
  BY <1>1, TotalIs DEF w
<1>3. PICK c : Carries(c, from, w, n) /\ chksum(from, data) = c[n]
  BY <1>1, ChksumIs DEF w
<1> DEFINE T == {k \in Nat : k <= n => Same(f[k], c[k])}
<1>4. 0 \in T
  <2>1. f[0] = start /\ c[0] = from
    BY <1>2, <1>3 DEF Sums, Carries
  <2>2. QED
    BY <2>1
<1>5. ASSUME NEW k \in T PROVE k + 1 \in T
  <2>1. k \in Nat
    OBVIOUS
  <2>2. SUFFICES ASSUME k + 1 <= n PROVE Same(f[k + 1], c[k + 1])
    BY <2>1
  <2>3. Same(f[k], c[k])
    BY <1>1, <2>1, <2>2
  <2>4. f[k + 1] = f[k] + w[k + 1] /\ c[k + 1] = AddWord(c[k], w[k + 1])
    <3>1. k + 1 \in 0 .. n /\ k + 1 # 0 /\ k + 1 - 1 = k
      BY <1>1, <2>1, <2>2
    <3>2. QED
      BY <1>2, <1>3, <3>1 DEF Sums, Carries
  <2>5. w[k + 1] \in WordValue
    BY <1>1, <2>1, <2>2
  <2>6. PICK M \in Nat : M = Word - 1 /\ M >= 3 /\ WordValue = 0 .. M
    BY ByteSize DEF WordValue
  <2>7. PICK q \in Nat : f[k] = c[k] + q * M
    BY <2>3, <2>6 DEF Same
  <2>8. PICK s \in 0 .. M, t \in 0 .. M, a \in 0 .. M :
          /\ s = c[k] /\ t = w[k + 1] /\ a = c[k + 1]
          /\ a = s + t \/ (a = s + t - M /\ a # 0)
    <3>1. c[k] \in WordValue
      BY <2>3 DEF Same
    <3>2. /\ AddWord(c[k], w[k + 1]) \in WordValue
          /\ \/ AddWord(c[k], w[k + 1]) = c[k] + w[k + 1]
             \/ /\ AddWord(c[k], w[k + 1]) = c[k] + w[k + 1] - (Word - 1)
                /\ AddWord(c[k], w[k + 1]) # 0
      BY <2>5, <3>1, AddWordIs
    <3>3. /\ c[k + 1] \in WordValue
          /\ \/ c[k + 1] = c[k] + w[k + 1]
             \/ c[k + 1] = c[k] + w[k + 1] - M /\ c[k + 1] # 0
      BY <2>4, <2>6, <3>2
    <3>4. QED
      BY <2>5, <2>6, <3>1, <3>3
  <2>9. PICK x \in Nat : /\ x = q * M /\ (q + 1) * M = x + M
                         /\ f[k] = s + x /\ f[k + 1] = s + x + t
    <3>1. q * M \in Nat /\ (q + 1) * M = q * M + M
      BY <2>6
    <3>2. f[k] = s + q * M /\ f[k + 1] = s + q * M + t
      BY <2>4, <2>7, <2>8
    <3>3. QED
      BY <3>1, <3>2
  <2>10. s = 0 <=> s + x = 0
    BY <2>3, <2>8, <2>9 DEF Same
  <2>11. f[k + 1] \in Nat /\ (a = 0 <=> f[k + 1] = 0)
    <3>1. s \in Nat /\ t \in Nat /\ a \in Nat
      OBVIOUS
    <3>2. PICK y \in Nat : y = f[k + 1] /\ y = s + x + t
      BY <2>9, <3>1
    <3>3. CASE a = s + t
      BY <2>10, <3>1, <3>2, <3>3
    <3>4. CASE a = s + t - M /\ a # 0
      BY <2>6, <3>1, <3>2, <3>4
    <3>5. QED
      BY <2>8, <3>3, <3>4
  <2>12. \E r \in Nat : f[k + 1] = a + r * M
    <3>1. CASE a = s + t
      <4>1. f[k + 1] = a + q * M
        BY <2>8, <2>9, <3>1
      <4>2. QED
        BY <4>1
    <3>2. CASE a = s + t - M
      <4>1. f[k + 1] = a + (q + 1) * M
        BY <2>9, <3>2
      <4>2. q + 1 \in Nat
        OBVIOUS
      <4>3. QED
        BY <4>1, <4>2
    <3>3. QED
      BY <2>8, <3>1, <3>2
  <2>13. QED
    BY <2>6, <2>8, <2>11, <2>12 DEF Same
<1> HIDE DEF T
<1>6. T \in SUBSET Nat
  BY DEF T
<1>7. T = Nat
  BY <1>4, <1>5, <1>6, Induct
<1>8. n <= n
  OBVIOUS
<1>9. QED
  BY <1>2, <1>3, <1>7, <1>8 DEF T

(* A checksum is right just when the sum is a multiple of Word - 1.        *)
LEMMA MultipleOf ==
  ASSUME NEW a \in Nat, NEW m \in Nat \ {0}
  PROVE  a % m = 0 <=> \E q \in Nat : a = q * m
<1>1. a \div m \in Nat /\ a = m * (a \div m) + (a % m) /\ a % m \in 0 .. m - 1
  OBVIOUS
<1>2. PICK d \in Nat, r \in 0 .. m - 1 : d = a \div m /\ r = a % m /\ a = m * d + r
  BY <1>1
<1>3. ASSUME r = 0 PROVE \E q \in Nat : a = q * m
  <2>1. a = d * m
    BY <1>2, <1>3
  <2>2. QED
    BY <2>1
<1>4. ASSUME NEW q \in Nat, a = q * m PROVE r = 0
  <2>1. r = (q - d) * m
    BY <1>2, <1>4
  <2>2. PICK e \in Int : e = q - d
    OBVIOUS
  <2>3. r = e * m
    BY <2>1, <2>2
  <2>4. e >= 1 => e * m >= m
    BY <2>2
  <2>5. e <= -1 => e * m <= -m
    BY <2>2
  <2>6. e = 0
    BY <1>2, <2>2, <2>3, <2>4, <2>5
  <2>7. QED
    BY <2>3, <2>6
<1>5. QED
  BY <1>2, <1>3, <1>4

LEMMA ChecksumRight ==
  ASSUME NEW total, NEW sum, Same(total, sum)
  PROVE  /\ AsChecksum(sum) \in 1 .. Word - 1
         /\ AsChecksum(sum) = Word - 1 <=> total % (Word - 1) = 0
<1>1. PICK M \in Nat \ {0} : M = Word - 1 /\ WordValue = 0 .. M
  BY ByteSize DEF WordValue
<1>2. total \in Nat /\ sum \in 0 .. M /\ (sum = 0 <=> total = 0)
  BY <1>1 DEF Same
<1>3. PICK q \in Nat : total = sum + q * M
  BY <1>1 DEF Same
<1>4. total % M = 0 <=> sum \in {0, M}
  <2>1. ASSUME sum = 0 PROVE total % M = 0
    BY <1>2, <2>1, MultipleOf
  <2>2. ASSUME sum = M PROVE total % M = 0
    <3>1. total = (q + 1) * M /\ q + 1 \in Nat
      BY <1>3, <2>2
    <3>2. QED
      BY <1>2, <3>1, MultipleOf
  <2>3. ASSUME total % M = 0 PROVE sum \in {0, M}
    <3>1. PICK r \in Nat : total = r * M
      BY <1>2, <2>3, MultipleOf
    <3>2. PICK e \in Int : e = r - q
      OBVIOUS
    <3>3. sum = e * M
      BY <1>2, <1>3, <3>1, <3>2
    <3>4. (e >= 2 => e * M >= 2 * M) /\ (e <= -1 => e * M <= -M)
      OBVIOUS
    <3>5. e = 0 \/ e = 1
      BY <1>2, <3>3, <3>4
    <3>6. QED
      BY <3>3, <3>5
  <2>4. QED
    BY <2>1, <2>2, <2>3
<1>5. AsChecksum(sum) = IF sum = 0 THEN M ELSE sum
  BY <1>1 DEF AsChecksum
<1>6. total % (Word - 1) = total % M
  BY <1>1
<1>7. /\ AsChecksum(sum) \in 1 .. M
      /\ AsChecksum(sum) = M <=> total % M = 0
  BY <1>2, <1>4, <1>5
<1>8. QED
  BY <1>1, <1>6, <1>7

LEMMA SameWord ==
  ASSUME NEW w \in WordValue
  PROVE  Same(w, w)
<1>1. w \in Nat /\ w = w + 0 * (Word - 1)
  BY ByteSize DEF WordValue
<1>2. QED
  BY <1>1 DEF Same

-----------------------------------------------------------------------------
(* IpInput: the sum of a sequence and the sums of its parts.               *)

LEMMA TotalShift ==
  ASSUME NEW from \in Nat, NEW data \in Seq(Octet)
  PROVE  Total(0, data) \in Nat /\ Total(from, data) = from + Total(0, data)
<1> DEFINE w == Words(data)
<1>1. PICK n \in Nat : w \in Seq(WordValue) /\ Len(w) = n
  BY WordsAre
<1> HIDE DEF w
<1>2. PICK f : Sums(f, from, w, n) /\ Total(from, data) = f[n]
  BY <1>1, TotalIs DEF w
<1>3. PICK g : Sums(g, 0, w, n) /\ Total(0, data) = g[n]
  BY <1>1, TotalIs DEF w
<1> DEFINE T == {k \in Nat : k <= n => g[k] \in Nat /\ f[k] = from + g[k]}
<1>4. 0 \in T
  <2>1. f[0] = from /\ g[0] = 0
    BY <1>2, <1>3 DEF Sums
  <2>2. QED
    BY <2>1
<1>5. ASSUME NEW k \in T PROVE k + 1 \in T
  <2>1. k \in Nat
    OBVIOUS
  <2>2. SUFFICES ASSUME k + 1 <= n
                 PROVE  g[k + 1] \in Nat /\ f[k + 1] = from + g[k + 1]
    BY <2>1
  <2>3. g[k] \in Nat /\ f[k] = from + g[k]
    BY <1>1, <2>1, <2>2
  <2>4. f[k + 1] = f[k] + w[k + 1] /\ g[k + 1] = g[k] + w[k + 1]
    <3>1. k + 1 \in 0 .. n /\ k + 1 # 0 /\ k + 1 - 1 = k
      BY <1>1, <2>1, <2>2
    <3>2. QED
      BY <1>2, <1>3, <3>1 DEF Sums
  <2>5. w[k + 1] \in Nat
    BY <1>1, <2>1, <2>2, ByteSize DEF WordValue
  <2>6. QED
    BY <2>3, <2>4, <2>5
<1> HIDE DEF T
<1>6. T \in SUBSET Nat
  BY DEF T
<1>7. T = Nat
  BY <1>4, <1>5, <1>6, Induct
<1>8. n <= n
  OBVIOUS
<1>9. QED
  BY <1>2, <1>3, <1>7, <1>8 DEF T

(* Of two sums that begin the same, over sequences that do.                *)
Agree(v, w, m) == \A i \in 1 .. m : v[i] = w[i]

LEMMA SumsAgree ==
  ASSUME NEW from, NEW f, NEW g, NEW v, NEW w, NEW m \in Nat, NEW n \in Nat,
         m <= n, Sums(f, from, v, m), Sums(g, from, w, n),
         Agree(v, w, m)
  PROVE  f[m] = g[m]
<1> DEFINE T == {k \in Nat : k <= m => f[k] = g[k]}
<1>1. 0 \in T
  BY DEF Sums
<1>2. ASSUME NEW k \in T PROVE k + 1 \in T
  <2>1. k \in Nat
    OBVIOUS
  <2>2. SUFFICES ASSUME k + 1 <= m PROVE f[k + 1] = g[k + 1]
    BY <2>1
  <2>3. /\ k + 1 \in 0 .. m /\ k + 1 \in 0 .. n /\ k + 1 \in 1 .. m /\ k + 1 # 0
        /\ k + 1 - 1 = k /\ k <= m
    BY <2>1, <2>2
  <2>4. f[k + 1] = f[k] + v[k + 1] /\ g[k + 1] = g[k] + w[k + 1]
    BY <2>3 DEF Sums
  <2>5. QED
    BY <2>3, <2>4 DEF Agree
<1> HIDE DEF T
<1>3. T \in SUBSET Nat
  BY DEF T
<1>4. T = Nat
  BY <1>1, <1>2, <1>3, Induct
<1>5. m \in T /\ m <= m
  BY <1>4
<1>6. QED
  BY <1>5 DEF T

Even(s) == \E h \in Nat : Len(s) = 2 * h

LEMMA TotalConcat ==
  ASSUME NEW from \in Nat, NEW s \in Seq(Octet), NEW t \in Seq(Octet),
         Even(s)
  PROVE  Total(from, s \o t) = Total(Total(from, s), t)
<1>0. PICK h \in Nat : Len(s) = 2 * h
  BY DEF Even
<1>1. s \o t \in Seq(Octet) /\ Len(s \o t) = 2 * h + Len(t) /\ Len(t) \in Nat
  BY <1>0
<1>2. /\ \A i \in 1 .. 2 * h : (s \o t)[i] = s[i]
      /\ \A i \in 1 .. Len(t) : (s \o t)[2 * h + i] = t[i]
  BY <1>0
<1>3. /\ Len(Words(s)) = h
      /\ \A i \in 1 .. h : Words(s)[i] = s[2 * i - 1] * Byte + s[2 * i]
  <2>1. PICK n \in Nat :
          /\ 2 * n = Len(s) \/ 2 * n = Len(s) + 1
          /\ Len(Words(s)) = n
          /\ \A i \in 1 .. n :
               Words(s)[i] = s[2 * i - 1] * Byte
                             + (IF 2 * i <= Len(s) THEN s[2 * i] ELSE 0)
    BY WordsAre
  <2>2. n = h
    BY <1>0, <2>1
  <2>3. \A i \in 1 .. h : 2 * i <= Len(s)
    BY <1>0
  <2>4. QED
    BY <2>1, <2>2, <2>3
<1>4. PICK m \in Nat :
        /\ 2 * m = Len(t) \/ 2 * m = Len(t) + 1
        /\ Len(Words(t)) = m
        /\ \A i \in 1 .. m :
             /\ 2 * i - 1 \in 1 .. Len(t)
             /\ Words(t)[i] = t[2 * i - 1] * Byte
                              + (IF 2 * i <= Len(t) THEN t[2 * i] ELSE 0)
  BY WordsAre
<1>5. PICK n \in Nat :
        /\ 2 * n = Len(s \o t) \/ 2 * n = Len(s \o t) + 1
        /\ Len(Words(s \o t)) = n
        /\ \A i \in 1 .. n :
             Words(s \o t)[i] = (s \o t)[2 * i - 1] * Byte
                                + (IF 2 * i <= Len(s \o t) THEN (s \o t)[2 * i] ELSE 0)
  BY <1>1, WordsAre
<1>6. n = h + m
  BY <1>1, <1>4, <1>5
<1>7. \A i \in 1 .. h : Words(s \o t)[i] = Words(s)[i]
  <2>1. ASSUME NEW i \in 1 .. h PROVE Words(s \o t)[i] = Words(s)[i]
    <3>1. /\ i \in 1 .. n /\ 2 * i - 1 \in 1 .. 2 * h /\ 2 * i \in 1 .. 2 * h
          /\ 2 * i <= Len(s \o t)
      BY <1>1, <1>6
    <3>2. QED
      BY <1>2, <1>3, <1>5, <3>1
  <2>2. QED
    BY <2>1
<1>8. \A i \in 1 .. m : Words(s \o t)[h + i] = Words(t)[i]
  <2>1. ASSUME NEW i \in 1 .. m PROVE Words(s \o t)[h + i] = Words(t)[i]
    <3>1. /\ h + i \in 1 .. n /\ 2 * (h + i) - 1 = 2 * h + (2 * i - 1)
          /\ 2 * (h + i) = 2 * h + 2 * i /\ 2 * i >= 1
      BY <1>6
    <3>2. 2 * (h + i) <= Len(s \o t) <=> 2 * i <= Len(t)
      BY <1>1, <3>1
    <3>3. (s \o t)[2 * (h + i) - 1] = t[2 * i - 1]
      BY <1>2, <1>4, <3>1
    <3>4. 2 * i <= Len(t) => (s \o t)[2 * (h + i)] = t[2 * i]
      BY <1>1, <1>2, <3>1
    <3>5. QED
      BY <1>4, <1>5, <3>1, <3>2, <3>3, <3>4
  <2>2. QED
    BY <2>1
<1>9. PICK f : Sums(f, from, Words(s), h) /\ Total(from, s) = f[h]
  <2>1. Len(Words(s)) = h
    BY <1>3
  <2>2. QED
    BY <2>1, TotalIs
<1>10. PICK e : Sums(e, from, Words(s \o t), n) /\ Total(from, s \o t) = e[n]
  <2>1. Len(Words(s \o t)) = n
    BY <1>5
  <2>2. QED
    BY <2>1, TotalIs
<1>b. PICK b : b = Total(from, s)
  OBVIOUS
<1>11. PICK g, v : v = Words(t) /\ Sums(g, b, v, m) /\ Total(b, t) = g[m]
  <2>1. Len(Words(t)) = m
    BY <1>4
  <2>2. \E g : Sums(g, b, Words(t), m) /\ Total(b, t) = g[m]
    BY <2>1, TotalIs
  <2>3. QED
    BY <2>2
<1>12. e[h] = f[h]
  <2>1. h <= n
    BY <1>6
  <2>2. Agree(Words(s), Words(s \o t), h)
    BY <1>7 DEF Agree
  <2>3. QED
    BY <1>9, <1>10, <2>1, <2>2, SumsAgree
<1>13. PICK u, d : Sums(d, b, u, m) /\ d[m] = e[n] /\ Agree(u, v, m)
  <2> DEFINE u == [i \in 1 .. m |-> Words(s \o t)[h + i]]
             d == [i \in 0 .. m |-> e[h + i]]
  <2>1. Sums(d, b, u, m)
    <3>1. ASSUME NEW i \in 0 .. m
          PROVE  d[i] = IF i = 0 THEN b ELSE d[i - 1] + u[i]
      <4>1. CASE i = 0
        BY <1>9, <1>12, <1>b, <4>1
      <4>2. CASE i # 0
        <5>1. /\ i \in 1 .. m /\ i - 1 \in 0 .. m /\ h + i \in 0 .. n /\ h + i # 0
              /\ h + i - 1 = h + (i - 1)
          BY <1>6, <4>2
        <5>2. e[h + i] = e[h + i - 1] + Words(s \o t)[h + i]
          BY <1>10, <5>1 DEF Sums
        <5>3. d[i] = e[h + i] /\ d[i - 1] = e[h + (i - 1)] /\ u[i] = Words(s \o t)[h + i]
          BY <5>1
        <5>4. QED
          BY <4>2, <5>1, <5>2, <5>3
      <4>3. QED
        BY <4>1, <4>2
    <3>2. d = [i \in 0 .. m |-> d[i]]
      OBVIOUS
    <3> HIDE DEF d, u
    <3>3. QED
      BY <3>1, <3>2 DEF Sums
  <2>2. d[m] = e[n] /\ Agree(u, v, m)
    BY <1>6, <1>8, <1>11 DEF Agree
  <2> HIDE DEF d, u
  <2>3. QED
    BY <2>1, <2>2
<1>14. d[m] = g[m]
  <2>1. m <= m
    OBVIOUS
  <2>2. Sums(d, b, u, m) /\ Sums(g, b, v, m) /\ Agree(u, v, m)
    BY <1>11, <1>13
  <2>3. QED
    BY <2>1, <2>2, SumsAgree
<1>15. QED
  BY <1>10, <1>11, <1>13, <1>14, <1>b

(* Nothing but zeros add up to zero.                                       *)
LEMMA TotalZero ==
  ASSUME NEW from \in Nat, NEW data \in Seq(Octet), Total(from, data) = 0
  PROVE  from = 0 /\ \A i \in 1 .. Len(data) : data[i] = 0
<1> DEFINE w == Words(data)
<1>1. PICK n \in Nat :
        /\ 2 * n = Len(data) \/ 2 * n = Len(data) + 1
        /\ w \in Seq(WordValue) /\ Len(w) = n
        /\ \A i \in 1 .. n :
             w[i] = data[2 * i - 1] * Byte
                    + (IF 2 * i <= Len(data) THEN data[2 * i] ELSE 0)
  BY WordsAre
<1> HIDE DEF w
<1>2. PICK f : Sums(f, from, w, n) /\ f[n] = 0
  <2>1. Len(Words(data)) = n
    BY <1>1 DEF w
  <2>2. \E f : Sums(f, from, Words(data), n) /\ Total(from, data) = f[n]
    BY <2>1, TotalIs
  <2>3. QED
    BY <2>2 DEF w
<1> DEFINE T == {k \in Nat : k <= n =>
                   /\ f[k] \in Nat
                   /\ f[k] = 0 => from = 0 /\ \A i \in 1 .. k : w[i] = 0}
<1>3. 0 \in T
  <2>1. f[0] = from
    BY <1>2 DEF Sums
  <2>2. QED
    BY <2>1
<1>4. ASSUME NEW k \in T PROVE k + 1 \in T
  <2>1. k \in Nat
    OBVIOUS
  <2>2. SUFFICES ASSUME k + 1 <= n
                 PROVE  /\ f[k + 1] \in Nat
                        /\ f[k + 1] = 0 => from = 0 /\ \A i \in 1 .. k + 1 : w[i] = 0
    BY <2>1
  <2>3. f[k] \in Nat /\ (f[k] = 0 => from = 0 /\ \A i \in 1 .. k : w[i] = 0)
    BY <1>1, <2>1, <2>2
  <2>4. f[k + 1] = f[k] + w[k + 1]
    <3>1. k + 1 \in 0 .. n /\ k + 1 # 0 /\ k + 1 - 1 = k
      BY <1>1, <2>1, <2>2
    <3>2. QED
      BY <1>2, <3>1 DEF Sums
  <2>5. w[k + 1] \in Nat
    BY <1>1, <2>1, <2>2, ByteSize DEF WordValue
  <2>6. f[k + 1] \in Nat /\ (f[k + 1] = 0 => f[k] = 0 /\ w[k + 1] = 0)
    BY <2>3, <2>4, <2>5
  <2>7. \A i \in 1 .. k + 1 : i \in 1 .. k \/ i = k + 1
    BY <2>1
  <2>8. QED
    BY <2>3, <2>6, <2>7
<1> HIDE DEF T
<1>5. T \in SUBSET Nat
  BY DEF T
<1>6. T = Nat
  BY <1>3, <1>4, <1>5, Induct
<1>7. from = 0 /\ \A i \in 1 .. n : w[i] = 0
  <2>1. n <= n
    OBVIOUS
  <2>2. QED
    BY <1>2, <1>6, <2>1 DEF T
<1>8. ASSUME NEW j \in 1 .. Len(data) PROVE data[j] = 0
  <2>1. PICK i \in 1 .. n : j = 2 * i - 1 \/ j = 2 * i
    <3>1. j \in Nat /\ j >= 1 /\ (j % 2 = 0 \/ j % 2 = 1)
      OBVIOUS
    <3>2. j >= 1 /\ j <= 2 * n
      BY <1>1
    <3>3. CASE j % 2 = 0
      <4>1. PICK i \in Nat : j = 2 * i
        <5>1. j \div 2 \in Nat /\ j = 2 * (j \div 2)
          BY <3>1, <3>3
        <5>2. QED
          BY <5>1
      <4>2. i \in 1 .. n
        BY <3>2, <4>1
      <4>3. QED
        BY <4>1, <4>2
    <3>4. CASE j % 2 = 1
      <4>1. PICK i \in Nat : j = 2 * i - 1
        <5>1. (j + 1) \div 2 \in Nat /\ j = 2 * ((j + 1) \div 2) - 1
          BY <3>1, <3>4
        <5>2. QED
          BY <5>1
      <4>2. i \in 1 .. n
        BY <3>2, <4>1
      <4>3. QED
        BY <4>1, <4>2
    <3>5. QED
      BY <3>1, <3>3, <3>4
  <2>2. w[i] = 0
    BY <1>7
  <2>3. 2 * i - 1 \in 1 .. Len(data) /\ Len(data) \in Nat
    BY <1>1
  <2>4. CASE 2 * i <= Len(data)
    <3>1. 2 * i \in 1 .. Len(data)
      BY <2>4
    <3>2. data[2 * i - 1] \in Octet /\ data[2 * i] \in Octet
      BY <2>3, <3>1
    <3>3. PICK a \in Octet, b \in Octet : a = data[2 * i - 1] /\ b = data[2 * i]
      BY <3>2
    <3>4. a * Byte + b = 0
      BY <1>1, <2>2, <2>4, <3>3
    <3>5. a = 0 /\ b = 0
      BY <3>4, WordOfBytes
    <3>6. QED
      BY <2>1, <3>3, <3>5
  <2>5. CASE ~(2 * i <= Len(data))
    <3>1. data[2 * i - 1] \in Octet /\ 0 \in Octet
      <4>1. 0 \in Octet
        BY ByteSize DEF Octet
      <4>2. QED
        BY <2>3, <4>1
    <3>2. data[2 * i - 1] * Byte + 0 = 0
      BY <1>1, <2>2, <2>5
    <3>3. data[2 * i - 1] = 0
      BY <3>1, <3>2, WordOfBytes
    <3>4. j = 2 * i - 1
      BY <2>1, <2>3, <2>5
    <3>5. QED
      BY <3>3, <3>4
  <2>6. QED
    BY <2>4, <2>5
<1>9. QED
  BY <1>7, <1>8

(* Two bytes, and two bytes more.                                          *)
LEMMA TotalPair ==
  ASSUME NEW from \in Nat, NEW a \in Octet, NEW b \in Octet
  PROVE  /\ <<a, b>> \in Seq(Octet) /\ Even(<<a, b>>)
         /\ Total(from, <<a, b>>) = from + (a * Byte + b)
<1> DEFINE s == <<a, b>>
<1>1. s \in Seq(Octet) /\ Len(s) = 2 /\ s[1] = a /\ s[2] = b
  OBVIOUS
<1> HIDE DEF s
<1>2. PICK n \in Nat :
        /\ 2 * n = 2 \/ 2 * n = 2 + 1
        /\ Len(Words(s)) = n
        /\ \A i \in 1 .. n : Words(s)[i] = s[2 * i - 1] * Byte
                                           + (IF 2 * i <= 2 THEN s[2 * i] ELSE 0)
  BY <1>1, WordsAre
<1>3. n = 1 /\ 1 \in 1 .. n /\ 2 * 1 - 1 = 1 /\ 2 * 1 = 2
  BY <1>2
<1>4. Words(s)[1] = a * Byte + b
  BY <1>1, <1>2, <1>3
<1>5. PICK f : Sums(f, from, Words(s), 1) /\ Total(from, s) = f[1]
  <2>1. Len(Words(s)) = 1 /\ 1 \in Nat
    BY <1>2, <1>3
  <2>2. QED
    BY <2>1, TotalIs
<1>6. f[0] = from /\ f[1] = f[0] + Words(s)[1]
  <2>1. 0 \in 0 .. 1 /\ 1 \in 0 .. 1 /\ 1 - 1 = 0
    OBVIOUS
  <2>2. QED
    BY <1>5, <2>1 DEF Sums
<1>7. Even(s)
  <2>1. Len(s) = 2 * 1
    BY <1>1
  <2>2. QED
    BY <2>1 DEF Even
<1>8. QED
  BY <1>1, <1>4, <1>5, <1>6, <1>7 DEF s

LEMMA TotalWith ==
  ASSUME NEW from \in Nat, NEW s \in Seq(Octet), Even(s), NEW w \in WordValue
  PROVE  /\ s \o Bytes(w) \in Seq(Octet) /\ Even(s \o Bytes(w))
         /\ Total(from, s \o Bytes(w)) = Total(from, s) + w
<1>1. PICK a \in Octet, b \in Octet : Bytes(w) = <<a, b>> /\ a * Byte + b = w
  BY BytesOfWord
<1>2. /\ <<a, b>> \in Seq(Octet) /\ s \o <<a, b>> \in Seq(Octet)
      /\ Even(s \o <<a, b>>)
  <2>1. PICK h \in Nat : Len(s) = 2 * h
    BY DEF Even
  <2>2. <<a, b>> \in Seq(Octet) /\ Len(<<a, b>>) = 2
    OBVIOUS
  <2>3. s \o <<a, b>> \in Seq(Octet) /\ Len(s \o <<a, b>>) = 2 * h + 2
    BY <2>1, <2>2, ConcatProperties
  <2>4. 2 * h + 2 = 2 * (h + 1) /\ h + 1 \in Nat
    OBVIOUS
  <2>5. QED
    BY <2>2, <2>3, <2>4 DEF Even
<1>3. Total(from, s \o <<a, b>>) = Total(Total(from, s), <<a, b>>)
  BY <1>2, TotalConcat
<1>4. Total(from, s) \in Nat
  <2>1. Total(0, s) \in Nat /\ Total(from, s) = from + Total(0, s)
    BY TotalShift
  <2>2. QED
    BY <2>1
<1>5. Total(Total(from, s), <<a, b>>) = Total(from, s) + (a * Byte + b)
  BY <1>4, TotalPair
<1>6. QED
  BY <1>1, <1>2, <1>3, <1>5

-----------------------------------------------------------------------------
(* IpInput: a packet, its header and what the header carries.              *)

Packet(p) ==
  /\ p.vhl \in Octet /\ p.proto \in Octet /\ p.len \in WordValue
  /\ p.ipoffset \in WordValue /\ p.ipchksum \in WordValue
  /\ p.srcipaddr \in WordValue /\ p.destipaddr \in WordValue
  /\ p.data \in Seq(Octet) /\ Len(p.data) >= ICMP_HDR_LEN
  /\ p = [f \in DOMAIN p |-> p[f]]
  /\ DOMAIN Largest \cup {"data"} \subseteq DOMAIN p

LEMMA HeaderTotal ==
  ASSUME NEW p, Packet(p)
  PROVE  /\ HeaderBytes(p) \in Seq(Octet)
         /\ Total(0, HeaderBytes(p)) =
              (p.vhl * Byte + p.proto) + p.len + p.ipoffset + p.ipchksum
                + p.srcipaddr + p.destipaddr
<1> DEFINE a == <<p.vhl, p.proto>>
           b == a \o Bytes(p.len)
           c == b \o Bytes(p.ipoffset)
           d == c \o Bytes(p.ipchksum)
           e == d \o Bytes(p.srcipaddr)
           g == e \o Bytes(p.destipaddr)
<1>0. 0 \in Nat
  OBVIOUS
<1>1. /\ p.vhl \in Octet /\ p.proto \in Octet /\ p.len \in WordValue
      /\ p.ipoffset \in WordValue /\ p.ipchksum \in WordValue
      /\ p.srcipaddr \in WordValue /\ p.destipaddr \in WordValue
  BY DEF Packet
<1>2. g = HeaderBytes(p)
  BY DEF HeaderBytes
<1>3. /\ a \in Seq(Octet) /\ Even(a)
      /\ Total(0, a) = 0 + (p.vhl * Byte + p.proto)
  BY <1>1, TotalPair
<1> HIDE DEF a
<1>4. /\ b \in Seq(Octet) /\ Even(b)
      /\ Total(0, b) = Total(0, a) + p.len
  BY <1>1, <1>3, <1>0, TotalWith
<1> HIDE DEF b
<1>5. /\ c \in Seq(Octet) /\ Even(c)
      /\ Total(0, c) = Total(0, b) + p.ipoffset
  BY <1>0, <1>1, <1>4, TotalWith
<1> HIDE DEF c
<1>6. /\ d \in Seq(Octet) /\ Even(d)
      /\ Total(0, d) = Total(0, c) + p.ipchksum
  BY <1>0, <1>1, <1>5, TotalWith
<1> HIDE DEF d
<1>7. /\ e \in Seq(Octet) /\ Even(e)
      /\ Total(0, e) = Total(0, d) + p.srcipaddr
  BY <1>0, <1>1, <1>6, TotalWith
<1> HIDE DEF e
<1>8. /\ g \in Seq(Octet) /\ Total(0, g) = Total(0, e) + p.destipaddr
  BY <1>0, <1>1, <1>7, TotalWith
<1> HIDE DEF g
<1>9. 0 + (p.vhl * Byte + p.proto) = p.vhl * Byte + p.proto
  <2>1. p.vhl * Byte + p.proto \in WordValue
    BY <1>1, WordOfBytes
  <2>2. QED
    BY <2>1, ByteSize DEF WordValue
<1>10. QED
  BY <1>2, <1>3, <1>4, <1>5, <1>6, <1>7, <1>8, <1>9

(* Its checksum is right just when the header verifies.                    *)
LEMMA HeaderRight ==
  ASSUME NEW p, Packet(p), p.vhl = VHL
  PROVE  uip_ipchksum(p) = Word - 1 <=> Verifies(0, HeaderBytes(p))
<1>1. HeaderBytes(p) \in Seq(Octet)
  BY HeaderTotal
<1>2. 0 \in WordValue
  BY ByteSize DEF WordValue
<1>3. Same(Total(0, HeaderBytes(p)), chksum(0, HeaderBytes(p)))
  BY <1>1, <1>2, SameWord, ChksumIsTotal
<1>4. Total(0, HeaderBytes(p)) > 0
  <2>1. PICK v \in Nat \ {0} : v = p.vhl * Byte + p.proto
    <3>1. p.vhl \in Octet /\ p.proto \in Octet /\ p.vhl # 0
      BY ByteSize DEF Packet
    <3>2. p.vhl * Byte + p.proto \in WordValue /\ p.vhl * Byte + p.proto # 0
      BY <3>1, WordOfBytes
    <3>3. QED
      BY <3>2, ByteSize DEF WordValue
  <2>2. /\ p.len \in Nat /\ p.ipoffset \in Nat /\ p.ipchksum \in Nat
        /\ p.srcipaddr \in Nat /\ p.destipaddr \in Nat
    BY ByteSize DEF Packet, WordValue
  <2>3. Total(0, HeaderBytes(p)) = v + p.len + p.ipoffset + p.ipchksum
                                     + p.srcipaddr + p.destipaddr
    BY <2>1, HeaderTotal
  <2>4. QED
    BY <2>1, <2>2, <2>3
<1>5. QED
  BY <1>3, <1>4, ChecksumRight DEF uip_ipchksum, Verifies

LEMMA UpperLayerIs ==
  ASSUME NEW p, Packet(p), UIP_IPH_LEN <= p.len, p.len <= UIP_IPH_LEN + Len(p.data)
  PROVE  /\ UpperLayer(p) \in Seq(Octet)
         /\ Len(UpperLayer(p)) = p.len - UIP_IPH_LEN
         /\ p.len - UIP_IPH_LEN \in Nat
         /\ \A i \in 1 .. p.len - UIP_IPH_LEN :
              i \in 1 .. Len(p.data) /\ UpperLayer(p)[i] = p.data[i]
<1>1. PICK l \in Nat : l = p.len - UIP_IPH_LEN /\ l <= Len(p.data)
  <2>1. p.len \in Nat /\ p.data \in Seq(Octet)
    BY ByteSize DEF Packet, WordValue
  <2>2. p.len - 12 \in Nat /\ p.len - 12 <= Len(p.data)
    BY <2>1 DEF UIP_IPH_LEN
  <2>3. QED
    BY <2>2 DEF UIP_IPH_LEN
<1>2. p.data \in Seq(Octet) /\ Len(p.data) \in Nat
  BY DEF Packet
<1>3. \A i \in 1 .. l : i \in 1 .. Len(p.data) /\ p.data[i] \in Octet
  BY <1>1, <1>2
<1>4. /\ SubSeq(p.data, 1, l) \in Seq(Octet)
      /\ Len(SubSeq(p.data, 1, l)) = IF 1 <= l THEN l - 1 + 1 ELSE 0
      /\ \A i \in 1 .. l - 1 + 1 : SubSeq(p.data, 1, l)[i] = p.data[1 + i - 1]
  BY <1>3, SubSeqProperties
<1>5. /\ l - 1 + 1 = l /\ \A i \in 1 .. l : 1 + i - 1 = i
  OBVIOUS
<1>6. Len(SubSeq(p.data, 1, l)) = l
  BY <1>4, <1>5
<1>7. \A i \in 1 .. l : SubSeq(p.data, 1, l)[i] = p.data[i]
  BY <1>4, <1>5
<1>8. UpperLayer(p) = SubSeq(p.data, 1, l)
  BY <1>1 DEF UpperLayer
<1>9. QED
  BY <1>1, <1>3, <1>4, <1>6, <1>7, <1>8

(* The checksum of a segment, over the addresses and over the segment.     *)
LEMMA SegmentRight ==
  ASSUME NEW p, Packet(p), p.proto = UIP_PROTO_TCP,
         UIP_IPH_LEN <= p.len, p.len <= UIP_IPH_LEN + Len(p.data)
  PROVE  upper_layer_chksum(p) = Word - 1 <=> TcpVerifies(p)
<1> DEFINE pseudo == p.len - UIP_IPH_LEN + p.proto
           s == Bytes(p.srcipaddr) \o Bytes(p.destipaddr)
           u == UpperLayer(p)
<1>1. pseudo \in WordValue /\ pseudo > 0
  <2>1. p.len \in Nat /\ p.len < Word /\ Word \in Nat /\ UIP_PROTO_TCP \in Nat \ {0}
    <3>1. UIP_PROTO_TCP \in Nat \ {0}
      BY ByteSize DEF Octet
    <3>2. p.len \in 0 .. Word - 1
      BY DEF Packet, WordValue
    <3>3. QED
      BY <3>1, <3>2, ByteSize
  <2>2. UIP_PROTO_TCP <= 12 /\ 12 <= p.len
    BY PacketSizes DEF UIP_IPH_LEN
  <2>3. pseudo = p.len - 12 + UIP_PROTO_TCP
    BY DEF UIP_IPH_LEN
  <2> HIDE DEF pseudo
  <2>4. QED
    BY <2>1, <2>2, <2>3 DEF WordValue
<1>2. pseudo % Word = pseudo /\ pseudo \in Nat
  <2> HIDE DEF pseudo
  <2>1. QED
    BY <1>1, ByteSize DEF WordValue
<1>3. s \in Seq(Octet) /\ Even(s)
  <2>1. PICK a \in Octet, b \in Octet : Bytes(p.srcipaddr) = <<a, b>>
    BY BytesOfWord DEF Packet
  <2>2. <<a, b>> \in Seq(Octet) /\ Even(<<a, b>>) /\ p.destipaddr \in WordValue
    BY TotalPair, ByteSize DEF Packet
  <2>3. /\ <<a, b>> \o Bytes(p.destipaddr) \in Seq(Octet)
        /\ Even(<<a, b>> \o Bytes(p.destipaddr))
    BY <2>2, ByteSize, TotalWith
  <2>4. QED
    BY <2>1, <2>3
<1>4. u \in Seq(Octet)
  BY UpperLayerIs
<1>5. TcpVerifies(p) = Verifies(pseudo, s \o u)
  BY DEF TcpVerifies
<1>6. upper_layer_chksum(p) = AsChecksum(chksum(chksum(pseudo, s), u))
  BY <1>2 DEF upper_layer_chksum
<1> HIDE DEF pseudo, s, u
<1>7. Total(pseudo, s \o u) = Total(Total(pseudo, s), u)
  BY <1>2, <1>3, <1>4, TotalConcat
<1>8. Same(Total(pseudo, s), chksum(pseudo, s))
  BY <1>1, <1>3, SameWord, ChksumIsTotal
<1>9. Same(Total(Total(pseudo, s), u), chksum(chksum(pseudo, s), u))
  BY <1>4, <1>8, ChksumIsTotal
<1>10. Total(pseudo, s \o u) > 0
  <2>1. s \o u \in Seq(Octet)
    BY <1>3, <1>4
  <2>2. Total(0, s \o u) \in Nat /\ Total(pseudo, s \o u) = pseudo + Total(0, s \o u)
    BY <1>2, <2>1, TotalShift
  <2>3. QED
    BY <1>1, <1>2, <2>2
<1>11. QED
  BY <1>5, <1>6, <1>7, <1>9, <1>10, ChecksumRight DEF Verifies

-----------------------------------------------------------------------------
(* IpInput: the answer to a ping.                                          *)

(* The first bytes of data, which are those of its header and the rest.    *)
LEMMA FirstBytes ==
  ASSUME NEW d \in Seq(Octet), NEW l \in Nat, 4 <= l, l <= Len(d)
  PROVE  /\ SubSeq(d, 5, l) \in Seq(Octet)
         /\ Len(SubSeq(d, 5, l)) = l - 4
         /\ \A i \in 1 .. l - 4 : 4 + i \in 1 .. Len(d) /\ SubSeq(d, 5, l)[i] = d[4 + i]
         /\ SubSeq(d, 1, l) = (<<d[1], d[2]>> \o <<d[3], d[4]>>) \o SubSeq(d, 5, l)
<1> DEFINE s == SubSeq(d, 1, l)
           R == SubSeq(d, 5, l)
           h == <<d[1], d[2]>> \o <<d[3], d[4]>>
<1>1. \A i \in 1 .. l : i \in 1 .. Len(d) /\ d[i] \in Octet
  OBVIOUS
<1>2. s \in Seq(Octet) /\ Len(s) = l /\ \A i \in 1 .. l : s[i] = d[i]
  <2>1. /\ s \in Seq(Octet)
        /\ Len(s) = IF 1 <= l THEN l - 1 + 1 ELSE 0
        /\ \A i \in 1 .. l - 1 + 1 : s[i] = d[1 + i - 1]
    BY <1>1, SubSeqProperties
  <2>2. l - 1 + 1 = l /\ 1 <= l /\ \A i \in 1 .. l : 1 + i - 1 = i
    OBVIOUS
  <2> HIDE DEF s
  <2>3. QED
    BY <2>1, <2>2
<1>3. R \in Seq(Octet) /\ Len(R) = l - 4 /\ \A i \in 1 .. l - 4 : R[i] = d[4 + i]
  <2>1. /\ R \in Seq(Octet)
        /\ Len(R) = IF 5 <= l THEN l - 5 + 1 ELSE 0
        /\ \A i \in 1 .. l - 5 + 1 : R[i] = d[5 + i - 1]
    BY <1>1, SubSeqProperties
  <2>2. /\ l - 5 + 1 = l - 4 /\ \A i \in 1 .. l - 4 : 5 + i - 1 = 4 + i
        /\ ~(5 <= l) => l - 4 = 0
    OBVIOUS
  <2> HIDE DEF R
  <2>3. QED
    BY <2>1, <2>2
<1>4. h \in Seq(Octet) /\ Len(h) = 4 /\ \A i \in 1 .. 4 : h[i] = d[i]
  <2>1. d[1] \in Octet /\ d[2] \in Octet /\ d[3] \in Octet /\ d[4] \in Octet
    BY <1>1
  <2>2. \A i \in 1 .. 4 : i = 1 \/ i = 2 \/ i = 3 \/ i = 4
    OBVIOUS
  <2>3. QED
    BY <2>1, <2>2
<1> HIDE DEF s, R, h
<1>5. s = h \o R
  <2>1. /\ h \o R \in Seq(Octet) /\ Len(h \o R) = l
        /\ \A i \in 1 .. l : (h \o R)[i] = IF i <= 4 THEN h[i] ELSE R[i - 4]
    <3>1. /\ h \o R \in Seq(Octet) /\ Len(h \o R) = Len(h) + Len(R)
          /\ \A i \in 1 .. Len(h) + Len(R) :
               (h \o R)[i] = IF i <= Len(h) THEN h[i] ELSE R[i - Len(h)]
      <4>1. h \in Seq(Octet) /\ R \in Seq(Octet)
        BY <1>3, <1>4
      <4>2. QED
        BY <4>1, ConcatProperties
    <3>2. Len(h) = 4 /\ Len(R) = l - 4 /\ 4 + (l - 4) = l
      BY <1>3, <1>4
    <3>3. QED
      BY <3>1, <3>2
  <2>2. ASSUME NEW i \in 1 .. l PROVE s[i] = (h \o R)[i]
    <3>1. CASE i <= 4
      <4>1. i \in 1 .. 4
        BY <3>1
      <4>2. (h \o R)[i] = h[i]
        BY <2>1, <3>1
      <4>3. QED
        BY <1>2, <1>4, <4>1, <4>2
    <3>2. CASE ~(i <= 4)
      <4>1. i - 4 \in 1 .. l - 4 /\ 4 + (i - 4) = i
        BY <3>2
      <4>2. (h \o R)[i] = R[i - 4]
        BY <2>1, <3>2
      <4>3. QED
        BY <1>2, <1>3, <4>1, <4>2
    <3>3. QED
      BY <3>1, <3>2
  <2>3. QED
    BY <1>2, <2>1, <2>2, SeqEqual
<1>6. \A i \in 1 .. l - 4 : 4 + i \in 1 .. Len(d)
  OBVIOUS
<1>7. QED
  BY <1>3, <1>5, <1>6 DEF s, R, h

LEMMA FirstTotal ==
  ASSUME NEW a \in Octet, NEW b \in Octet, NEW c \in Octet, NEW e \in Octet,
         NEW R \in Seq(Octet)
  PROVE  Total(0, (<<a, b>> \o <<c, e>>) \o R)
           = (a * Byte + b) + (c * Byte + e) + Total(0, R)
<1>1. PICK x \in Nat, y \in Nat : x = a * Byte + b /\ y = c * Byte + e
  <2>1. a * Byte + b \in WordValue /\ c * Byte + e \in WordValue
    BY WordOfBytes
  <2>2. WordValue \subseteq Nat
    BY ByteSize DEF WordValue
  <2>3. QED
    BY <2>1, <2>2
<1>2. /\ <<a, b>> \in Seq(Octet) /\ Even(<<a, b>>) /\ Total(0, <<a, b>>) = x
      /\ <<c, e>> \in Seq(Octet) /\ Even(<<c, e>>) /\ Total(x, <<c, e>>) = x + y
  <2>1. /\ <<a, b>> \in Seq(Octet) /\ Even(<<a, b>>)
        /\ Total(0, <<a, b>>) = 0 + (a * Byte + b)
    BY TotalPair, 0 \in Nat
  <2>2. /\ <<c, e>> \in Seq(Octet) /\ Even(<<c, e>>)
        /\ Total(x, <<c, e>>) = x + (c * Byte + e)
    BY TotalPair
  <2>3. QED
    BY <1>1, <2>1, <2>2
<1>3. /\ <<a, b>> \o <<c, e>> \in Seq(Octet)
      /\ Total(0, <<a, b>> \o <<c, e>>) = x + y
  <2>1. PICK u \in Seq(Octet), v \in Seq(Octet) :
          u = <<a, b>> /\ v = <<c, e>> /\ Even(u)
    BY <1>2
  <2>2. u \o v \in Seq(Octet)
    OBVIOUS
  <2>3. Total(0, u \o v) = Total(Total(0, u), v)
    BY <2>1, TotalConcat, 0 \in Nat
  <2>4. QED
    BY <1>2, <2>1, <2>2, <2>3
<1>4. PICK h : h = <<a, b>> \o <<c, e>>
  OBVIOUS
<1>5. Even(h) /\ h \in Seq(Octet) /\ Total(0, h) = x + y
  <2>1. Len(<<a, b>> \o <<c, e>>) = 2 * 2
    OBVIOUS
  <2>2. QED
    BY <1>3, <1>4, <2>1 DEF Even
<1>6. Total(0, h \o R) = Total(x + y, R)
  <2>1. Total(0, h \o R) = Total(Total(0, h), R)
    BY <1>5, TotalConcat, 0 \in Nat
  <2>2. QED
    BY <1>5, <2>1
<1>7. Total(x + y, R) = (x + y) + Total(0, R)
  <2>1. PICK k \in Nat : k = x + y
    OBVIOUS
  <2>2. Total(k, R) = k + Total(0, R)
    BY TotalShift
  <2>3. QED
    BY <2>1, <2>2
<1>8. QED
  BY <1>1, <1>4, <1>6, <1>7

(* The adjusted checksum makes up for the type: the sum is as before, or   *)
(* less by Word - 1.                                                       *)
LEMMA AdjustedIs ==
  ASSUME NEW s \in WordValue
  PROVE  /\ Adjusted(s) \in WordValue
         /\ \/ Adjusted(s) = s + ICMP_ECHO * Byte
            \/ Adjusted(s) + (Word - 1) = s + ICMP_ECHO * Byte
<1>1. PICK W \in Nat, by \in Nat : W = Word /\ by = ICMP_ECHO * Byte /\ by < W
  <2>1. ICMP_ECHO \in Octet /\ 0 \in Octet
    BY ByteSize DEF Octet
  <2>2. ICMP_ECHO * Byte + 0 \in WordValue /\ ICMP_ECHO * Byte \in Nat
    BY <2>1, WordOfBytes
  <2>3. QED
    BY <2>2, ByteSize DEF WordValue
<1>2. s \in Nat /\ s < W /\ WordValue = 0 .. W - 1
  BY <1>1, ByteSize DEF WordValue
<1>3. Adjusted(s) = IF s >= W - 1 - by THEN (s + by + 1) % W ELSE (s + by) % W
  BY <1>1 DEF Adjusted
<1>4. CASE s >= W - 1 - by
  <2>1. PICK r \in 0 .. W - 1 : s + by + 1 = r + W
    <3>1. s + by + 1 - W \in 0 .. W - 1 /\ s + by + 1 = (s + by + 1 - W) + W
      BY <1>1, <1>2, <1>4
    <3>2. QED
      BY <3>1
  <2>2. (s + by + 1) % W = r
    BY <1>1, <2>1
  <2>3. Adjusted(s) = r
    BY <1>3, <1>4, <2>2
  <2>4. Adjusted(s) \in WordValue
    BY <1>2, <2>1, <2>3
  <2>5. QED
    BY <1>1, <1>2, <2>1, <2>3, <2>4
<1>5. CASE ~(s >= W - 1 - by)
  <2>1. s + by \in 0 .. W - 1
    BY <1>1, <1>2, <1>5
  <2>2. (s + by) % W = s + by
    BY <1>1, <2>1
  <2>3. Adjusted(s) = s + by
    BY <1>3, <1>5, <2>2
  <2>4. Adjusted(s) \in WordValue
    BY <1>2, <2>1, <2>3
  <2>5. QED
    BY <1>1, <1>2, <2>1, <2>3, <2>4
<1>6. QED
  BY <1>4, <1>5

LEMMA LessByTheLargest ==
  ASSUME NEW a \in Nat, NEW b \in Nat, NEW m \in Nat \ {0}, a = b \/ b + m = a
  PROVE  a % m = 0 <=> b % m = 0
<1>1. SUFFICES ASSUME b + m = a PROVE a % m = 0 <=> b % m = 0
  OBVIOUS
<1>2. ASSUME NEW q \in Nat, b = q * m PROVE a = (q + 1) * m
  BY <1>1, <1>2
<1>3. ASSUME NEW q \in Nat, a = q * m PROVE \E k \in Nat : b = k * m
  <2>1. q # 0
    BY <1>1, <1>3
  <2>2. q - 1 \in Nat /\ b = (q - 1) * m
    BY <1>1, <1>3, <2>1
  <2>3. QED
    BY <2>2
<1>4. \A q \in Nat : q + 1 \in Nat
  OBVIOUS
<1>5. (\E q \in Nat : a = q * m) <=> (\E q \in Nat : b = q * m)
  BY <1>2, <1>3, <1>4
<1>6. QED
  BY <1>5, MultipleOf

(* The reply has the addresses the other way round, and the data with two  *)
(* words changed.                                                          *)
LEMMA EchoReplyIs ==
  ASSUME NEW p, Packet(p)
  PROVE  LET r == EchoReply(p) IN
         /\ Packet(r) /\ r.len = p.len /\ r.vhl = p.vhl /\ r.proto = p.proto
         /\ r.ipoffset = p.ipoffset /\ r.ipchksum = p.ipchksum
         /\ r.srcipaddr = uip_hostaddr /\ r.destipaddr = p.srcipaddr
         /\ Len(r.data) = Len(p.data)
         /\ r.data[1] = 0 /\ r.data[2] = p.data[2]
         /\ \A i \in 1 .. Len(p.data) - 4 : r.data[4 + i] = p.data[4 + i]
         /\ WordAt(p.data, 3) \in WordValue
         /\ r.data[3] * Byte + r.data[4] = Adjusted(WordAt(p.data, 3))
<1> DEFINE r == EchoReply(p)
           data == <<0, p.data[2]>> \o Bytes(Adjusted(WordAt(p.data, 3)))
                   \o SubSeq(p.data, 5, Len(p.data))
<1>1. PICK d \in Seq(Octet), l \in Nat : d = p.data /\ l = Len(d) /\ 4 <= l
  BY DEF Packet, ICMP_HDR_LEN
<1>2. /\ p.vhl \in Octet /\ p.proto \in Octet /\ p.len \in WordValue
      /\ p.ipoffset \in WordValue /\ p.ipchksum \in WordValue
      /\ p.srcipaddr \in WordValue
      /\ p = [f \in DOMAIN p |-> p[f]]
      /\ {"vhl", "proto", "len", "ipoffset", "ipchksum", "srcipaddr", "destipaddr",
          "data"} \subseteq DOMAIN p
  BY DEF Packet, Largest
<1>3. uip_hostaddr \in WordValue /\ 0 \in Octet
  BY PacketSizes, ByteSize DEF WordValue, Octet
<1>4. d[2] \in Octet /\ d[3] \in Octet /\ d[4] \in Octet
  BY <1>1
<1>5. WordAt(d, 3) \in WordValue
  <2>1. d[3] * Byte + d[4] \in WordValue
    BY <1>4, WordOfBytes
  <2>2. QED
    BY <2>1 DEF WordAt
<1>6. PICK a \in Octet, b \in Octet :
        /\ Bytes(Adjusted(WordAt(d, 3))) = <<a, b>>
        /\ a * Byte + b = Adjusted(WordAt(d, 3))
  BY <1>5, AdjustedIs, BytesOfWord
<1>7. PICK R : /\ R = SubSeq(d, 5, l) /\ R \in Seq(Octet) /\ Len(R) = l - 4
               /\ \A i \in 1 .. l - 4 : R[i] = d[4 + i]
  <2>1. l <= Len(d)
    BY <1>1
  <2>2. /\ SubSeq(d, 5, l) \in Seq(Octet) /\ Len(SubSeq(d, 5, l)) = l - 4
        /\ \A i \in 1 .. l - 4 : 4 + i \in 1 .. Len(d) /\ SubSeq(d, 5, l)[i] = d[4 + i]
    BY <1>1, <2>1, FirstBytes
  <2>3. QED
    BY <2>2
<1>8. PICK h : h = <<0, d[2]>> \o <<a, b>>
  OBVIOUS
<1>9. /\ h \in Seq(Octet) /\ Len(h) = 4
      /\ h[1] = 0 /\ h[2] = d[2] /\ h[3] = a /\ h[4] = b
  BY <1>3, <1>4, <1>8
<1>10. data = h \o R
  BY <1>1, <1>6, <1>7, <1>8
<1> HIDE DEF data
<1>11. /\ data \in Seq(Octet) /\ Len(data) = l
       /\ \A i \in 1 .. l : data[i] = IF i <= 4 THEN h[i] ELSE R[i - 4]
  <2>1. /\ h \o R \in Seq(Octet) /\ Len(h \o R) = Len(h) + Len(R)
        /\ \A i \in 1 .. Len(h) + Len(R) :
             (h \o R)[i] = IF i <= Len(h) THEN h[i] ELSE R[i - Len(h)]
    <3>1. h \in Seq(Octet) /\ R \in Seq(Octet)
      BY <1>7, <1>9
    <3>2. QED
      BY ONLY <3>1, ConcatProperties
  <2>2. Len(h) = 4 /\ Len(R) = l - 4 /\ 4 + (l - 4) = l
    BY <1>7, <1>9
  <2>3. QED
    BY <1>10, <2>1, <2>2
<1>12. data[1] = 0 /\ data[2] = d[2] /\ data[3] = a /\ data[4] = b
  <2>1. 1 \in 1 .. l /\ 2 \in 1 .. l /\ 3 \in 1 .. l /\ 4 \in 1 .. l
    BY <1>1
  <2>2. QED
    BY <1>9, <1>11, <2>1
<1>13. \A i \in 1 .. l - 4 : data[4 + i] = d[4 + i]
  <2>1. ASSUME NEW i \in 1 .. l - 4 PROVE data[4 + i] = d[4 + i]
    <3>1. 4 + i \in 1 .. l /\ ~(4 + i <= 4) /\ 4 + i - 4 = i
      OBVIOUS
    <3>2. QED
      BY <1>7, <1>11, <3>1
  <2>2. QED
    BY <2>1
<1>14. r = [p EXCEPT !.data = data, !.destipaddr = p.srcipaddr,
                     !.srcipaddr = uip_hostaddr]
  BY DEF EchoReply, data
<1>15. /\ r.len = p.len /\ r.vhl = p.vhl /\ r.proto = p.proto
       /\ r.ipoffset = p.ipoffset /\ r.ipchksum = p.ipchksum
       /\ r.srcipaddr = uip_hostaddr /\ r.destipaddr = p.srcipaddr
       /\ r.data = data /\ r = [f \in DOMAIN r |-> r[f]] /\ DOMAIN r = DOMAIN p
  <2>1. /\ DOMAIN r = DOMAIN p /\ r = [f \in DOMAIN r |-> r[f]]
        /\ \A f \in DOMAIN p : r[f] = IF f = "srcipaddr" THEN uip_hostaddr
                                     ELSE IF f = "destipaddr" THEN p.srcipaddr
                                     ELSE IF f = "data" THEN data ELSE p[f]
    <3> HIDE DEF r
    <3>1. QED
      BY <1>2, <1>14
  <2> HIDE DEF r
  <2>2. QED
    BY <1>2, <2>1
<1> HIDE DEF r
<1>16. Packet(r)
  BY <1>1, <1>2, <1>3, <1>11, <1>15 DEF Packet, ICMP_HDR_LEN
<1>17. QED
  BY <1>1, <1>5, <1>6, <1>11, <1>12, <1>13, <1>15, <1>16 DEF r

(* The header of the reply sums up like that of the request.               *)
LEMMA EchoHeader ==
  ASSUME NEW p, Packet(p), p.destipaddr = uip_hostaddr
  PROVE  Total(0, HeaderBytes(EchoReply(p))) = Total(0, HeaderBytes(p))
<1>1. PICK r : r = EchoReply(p)
  OBVIOUS
<1>2. /\ Packet(r) /\ r.len = p.len /\ r.vhl = p.vhl /\ r.proto = p.proto
      /\ r.ipoffset = p.ipoffset /\ r.ipchksum = p.ipchksum
      /\ r.srcipaddr = uip_hostaddr /\ r.destipaddr = p.srcipaddr
  BY <1>1, EchoReplyIs
<1>3. PICK v \in Nat : v = p.vhl * Byte + p.proto
  <2>1. p.vhl * Byte + p.proto \in WordValue
    BY WordOfBytes DEF Packet
  <2>2. QED
    BY <2>1, ByteSize DEF WordValue
<1>4. /\ p.len \in Nat /\ p.ipoffset \in Nat /\ p.ipchksum \in Nat
      /\ p.srcipaddr \in Nat /\ p.destipaddr \in Nat
  BY ByteSize DEF Packet, WordValue
<1>5. Total(0, HeaderBytes(p)) = v + p.len + p.ipoffset + p.ipchksum
                                   + p.srcipaddr + p.destipaddr
  BY <1>3, HeaderTotal
<1>6. Total(0, HeaderBytes(r)) = v + p.len + p.ipoffset + p.ipchksum
                                   + p.destipaddr + p.srcipaddr
  <2>1. Total(0, HeaderBytes(r)) =
              (r.vhl * Byte + r.proto) + r.len + r.ipoffset + r.ipchksum
                + r.srcipaddr + r.destipaddr
    BY <1>2, HeaderTotal
  <2>2. r.vhl * Byte + r.proto = v /\ r.srcipaddr = p.destipaddr
    BY <1>2, <1>3
  <2>3. QED
    BY <1>2, <2>1, <2>2
<1>7. QED
  BY <1>1, <1>4, <1>5, <1>6

(* The checksum of the reply is as right or wrong as that of the request.  *)
LEMMA EchoData ==
  ASSUME NEW p, Packet(p), p.data[1] = ICMP_ECHO,
         UIP_IPH_LEN + ICMP_HDR_LEN <= p.len, p.len <= UIP_IPH_LEN + Len(p.data)
  PROVE  \/ Blank(EchoReply(p))
         \/ IcmpVerifies(EchoReply(p)) <=> IcmpVerifies(p)
<1>1. PICK r : r = EchoReply(p)
  OBVIOUS
<1>2. /\ Packet(r) /\ r.len = p.len /\ Len(r.data) = Len(p.data)
      /\ r.data[1] = 0 /\ r.data[2] = p.data[2]
      /\ \A i \in 1 .. Len(p.data) - 4 : r.data[4 + i] = p.data[4 + i]
      /\ WordAt(p.data, 3) \in WordValue
      /\ r.data[3] * Byte + r.data[4] = Adjusted(WordAt(p.data, 3))
  BY <1>1, EchoReplyIs
<1>3. PICK d \in Seq(Octet), e \in Seq(Octet) : d = p.data /\ e = r.data
  BY <1>2 DEF Packet
<1>4. PICK l \in Nat : l = p.len - UIP_IPH_LEN /\ 4 <= l /\ l <= Len(d)
  <2>1. p.len \in Nat
    BY ByteSize DEF Packet, WordValue
  <2>2. p.len - 12 \in Nat /\ 4 <= p.len - 12 /\ p.len - 12 <= Len(d)
    BY <1>3, <2>1 DEF UIP_IPH_LEN, ICMP_HDR_LEN
  <2>3. QED
    BY <2>2 DEF UIP_IPH_LEN
<1>5. /\ UpperLayer(p) = SubSeq(d, 1, l) /\ UpperLayer(r) = SubSeq(e, 1, l)
      /\ Len(e) = Len(d)
  BY <1>2, <1>3, <1>4 DEF UpperLayer
<1>6. PICK R : /\ R \in Seq(Octet)
               /\ SubSeq(d, 1, l) = (<<d[1], d[2]>> \o <<d[3], d[4]>>) \o R
               /\ SubSeq(e, 1, l) = (<<e[1], e[2]>> \o <<e[3], e[4]>>) \o R
  <2>1. /\ SubSeq(d, 5, l) \in Seq(Octet) /\ Len(SubSeq(d, 5, l)) = l - 4
        /\ \A i \in 1 .. l - 4 : 4 + i \in 1 .. Len(d) /\ SubSeq(d, 5, l)[i] = d[4 + i]
        /\ SubSeq(d, 1, l) = (<<d[1], d[2]>> \o <<d[3], d[4]>>) \o SubSeq(d, 5, l)
    BY <1>4, FirstBytes
  <2>2. /\ SubSeq(e, 5, l) \in Seq(Octet) /\ Len(SubSeq(e, 5, l)) = l - 4
        /\ \A i \in 1 .. l - 4 : SubSeq(e, 5, l)[i] = e[4 + i]
        /\ SubSeq(e, 1, l) = (<<e[1], e[2]>> \o <<e[3], e[4]>>) \o SubSeq(e, 5, l)
    <3>1. l <= Len(e)
      BY <1>4, <1>5
    <3>2. QED
      BY <1>4, <3>1, FirstBytes
  <2>3. ASSUME NEW i \in 1 .. l - 4 PROVE SubSeq(d, 5, l)[i] = SubSeq(e, 5, l)[i]
    <3>1. i \in 1 .. Len(d) - 4
      BY <1>4
    <3>2. e[4 + i] = d[4 + i]
      BY <1>2, <1>3, <3>1
    <3>3. QED
      BY <2>1, <2>2, <3>2
  <2>4. SubSeq(d, 5, l) = SubSeq(e, 5, l)
    <3>1. PICK u \in Seq(Octet), v \in Seq(Octet) :
            u = SubSeq(d, 5, l) /\ v = SubSeq(e, 5, l)
      BY <2>1, <2>2
    <3>2. Len(u) = Len(v) /\ \A i \in 1 .. Len(u) : u[i] = v[i]
      BY <2>1, <2>2, <2>3, <3>1
    <3>3. u = v
      BY <3>2, SeqEqual
    <3>4. QED
      BY <3>1, <3>3
  <2>5. QED
    BY <2>1, <2>2, <2>4
<1>7. /\ d[1] \in Octet /\ d[2] \in Octet /\ d[3] \in Octet /\ d[4] \in Octet
      /\ e[1] \in Octet /\ e[2] \in Octet /\ e[3] \in Octet /\ e[4] \in Octet
  BY <1>4, <1>5
<1>8. PICK by \in Nat, c \in Nat, s \in Nat, t \in Nat, z \in Nat :
        /\ by = d[1] * Byte /\ c = d[2] /\ s = d[3] * Byte + d[4]
        /\ t = e[3] * Byte + e[4] /\ z = Total(0, R)
  <2>1. /\ d[1] * Byte \in Nat /\ d[3] * Byte + d[4] \in WordValue
        /\ e[3] * Byte + e[4] \in WordValue
    BY <1>7, WordOfBytes
  <2>2. Total(0, R) \in Nat
    BY <1>6, TotalShift, 0 \in Nat
  <2>3. WordValue \subseteq Nat /\ Octet \subseteq Nat
    BY ByteSize DEF WordValue, Octet
  <2>4. QED
    BY <1>7, <2>1, <2>2, <2>3
<1>9. Total(0, UpperLayer(p)) = (by + c) + s + z
  <2>1. Total(0, (<<d[1], d[2]>> \o <<d[3], d[4]>>) \o R)
          = (d[1] * Byte + d[2]) + (d[3] * Byte + d[4]) + Total(0, R)
    <3>1. /\ d[1] \in Octet /\ d[2] \in Octet /\ d[3] \in Octet
          /\ d[4] \in Octet /\ R \in Seq(Octet)
      BY <1>6, <1>7
    <3>2. QED
      BY ONLY <3>1, FirstTotal
  <2>2. UpperLayer(p) = (<<d[1], d[2]>> \o <<d[3], d[4]>>) \o R
    BY <1>5, <1>6
  <2>3. QED
    BY <1>8, <2>1, <2>2
<1>10. Total(0, UpperLayer(r)) = c + t + z
  <2>1. Total(0, UpperLayer(r)) = (e[1] * Byte + e[2]) + (e[3] * Byte + e[4]) + Total(0, R)
    <3>1. Total(0, (<<e[1], e[2]>> \o <<e[3], e[4]>>) \o R)
            = (e[1] * Byte + e[2]) + (e[3] * Byte + e[4]) + Total(0, R)
      <4>1. /\ e[1] \in Octet /\ e[2] \in Octet /\ e[3] \in Octet
            /\ e[4] \in Octet /\ R \in Seq(Octet)
        BY <1>6, <1>7
      <4>2. QED
        BY ONLY <4>1, FirstTotal
    <3>2. UpperLayer(r) = (<<e[1], e[2]>> \o <<e[3], e[4]>>) \o R
      BY <1>5, <1>6
    <3>3. QED
      BY <3>1, <3>2
  <2>2. e[1] = 0 /\ e[2] = c
    BY <1>2, <1>3, <1>8
  <2>3. e[1] * Byte + e[2] = c
    BY <2>2, ByteSize
  <2>4. QED
    BY <1>8, <2>1, <2>3
<1>11. PICK M \in Nat \ {0} : M = Word - 1
  BY ByteSize
<1>12. t = s + by \/ t + M = s + by
  <2>1. s \in WordValue /\ t = Adjusted(s)
    BY <1>2, <1>3, <1>8 DEF WordAt
  <2>2. by = ICMP_ECHO * Byte
    BY <1>3, <1>8
  <2>3. QED
    BY <1>11, <2>1, <2>2, AdjustedIs
<1>13. by > 0
  <2>1. ICMP_ECHO \in Octet \ {0} /\ 0 \in Octet
    BY ByteSize DEF Octet
  <2>2. ICMP_ECHO * Byte \in Nat /\ ICMP_ECHO * Byte + 0 # 0
    BY <2>1, WordOfBytes
  <2>3. by = ICMP_ECHO * Byte
    BY <1>3, <1>8
  <2>4. QED
    BY <2>2, <2>3
<1>14. PICK x \in Nat, y \in Nat : x = (by + c) + s + z /\ y = c + t + z
  <2>1. (by + c) + s + z \in Nat /\ c + t + z \in Nat
    OBVIOUS
  <2>2. QED
    BY <2>1
<1>15. x > 0 /\ (x = y \/ y + M = x)
  BY <1>12, <1>13, <1>14
<1>16. x % M = 0 <=> y % M = 0
  BY <1>15, LessByTheLargest
<1>17. y = 0 => Blank(r)
  <2>1. UpperLayer(r) \in Seq(Octet)
    <3>1. UIP_IPH_LEN <= r.len /\ r.len <= UIP_IPH_LEN + Len(r.data)
      <4>1. p.len \in Nat
        BY ByteSize DEF Packet, WordValue
      <4>2. 12 <= p.len
        BY <4>1 DEF UIP_IPH_LEN, ICMP_HDR_LEN
      <4>3. QED
        BY <1>2, <4>2 DEF UIP_IPH_LEN
    <3>2. QED
      BY <1>2, <3>1, UpperLayerIs
  <2>2. y = 0 => \A i \in 1 .. Len(UpperLayer(r)) : UpperLayer(r)[i] = 0
    BY <1>10, <1>14, <2>1, TotalZero, 0 \in Nat
  <2>3. DOMAIN UpperLayer(r) = 1 .. Len(UpperLayer(r))
    BY <2>1
  <2>4. QED
    BY <2>2, <2>3 DEF Blank
<1>18. IcmpVerifies(p) <=> x % M = 0
  BY <1>9, <1>11, <1>14, <1>15 DEF IcmpVerifies, Verifies
<1>19. y # 0 => (IcmpVerifies(r) <=> y % M = 0)
  <2>1. y > 0 <=> y # 0
    BY <1>14
  <2>2. QED
    BY <1>10, <1>11, <1>14, <2>1 DEF IcmpVerifies, Verifies
<1>20. QED
  BY <1>1, <1>16, <1>17, <1>18, <1>19

(* All that EchoIsSound says of a packet that is answered.                 *)
LEMMA EchoRight ==
  ASSUME NEW p, Packet(p), Accepted(p, UIP_IPH_LEN + Len(p.data)), IsEcho(p)
  PROVE  /\ Verifies(0, HeaderBytes(EchoReply(p))) /\ Verifies(0, HeaderBytes(p))
         /\ EchoReply(p).destipaddr = p.srcipaddr
         /\ \/ p.len < UIP_IPH_LEN + ICMP_HDR_LEN
            \/ Blank(EchoReply(p))
            \/ IcmpVerifies(EchoReply(p)) <=> IcmpVerifies(p)
<1>1. /\ p.vhl = VHL /\ p.len <= UIP_IPH_LEN + Len(p.data)
      /\ p.destipaddr = uip_hostaddr /\ uip_ipchksum(p) = Word - 1
      /\ p.data[1] = ICMP_ECHO
  BY DEF Accepted, IsEcho
<1>2. Verifies(0, HeaderBytes(p))
  BY <1>1, HeaderRight
<1>3. Verifies(0, HeaderBytes(EchoReply(p)))
  <2>1. Total(0, HeaderBytes(EchoReply(p))) = Total(0, HeaderBytes(p))
    BY <1>1, EchoHeader
  <2>2. QED
    BY <1>2, <2>1 DEF Verifies
<1>4. EchoReply(p).destipaddr = p.srcipaddr
  BY EchoReplyIs
<1>5. p.len < UIP_IPH_LEN + ICMP_HDR_LEN \/ UIP_IPH_LEN + ICMP_HDR_LEN <= p.len
  <2>1. p.len \in Nat
    BY ByteSize DEF Packet, WordValue
  <2>2. QED
    BY <2>1 DEF UIP_IPH_LEN, ICMP_HDR_LEN
<1>6. QED
  BY <1>1, <1>2, <1>3, <1>4, <1>5, EchoData

-----------------------------------------------------------------------------
(* A packet as it was sent, then damaged, is a packet.                     *)
Sent(p, sum, c, padding, summed, n, whole, padded) ==
  /\ summed = [p EXCEPT !.data = SubSeq(p.data, 1, 2) \o Bytes(sum)
                                 \o SubSeq(p.data, 3, Len(p.data))]
  /\ n = UIP_IPH_LEN + Len(summed.data)
  /\ whole = [summed EXCEPT !.len = n]
  /\ padded = [[whole EXCEPT !.ipchksum = c] EXCEPT !.data = @ \o padding]

LEMMA ExceptIs ==
  ASSUME NEW p, NEW g, g \in DOMAIN p, NEW v, NEW q, q = [p EXCEPT ![g] = v]
  PROVE  /\ DOMAIN q = DOMAIN p /\ q = [f \in DOMAIN q |-> q[f]]
         /\ q[g] = v /\ \A f \in DOMAIN p : f # g => q[f] = p[f]
OBVIOUS

LEMMA DamagedIs ==
  ASSUME NEW p, Packet(p), DOMAIN p = DOMAIN Largest \cup {"data"}, NEW damage \in Damage
  PROVE  /\ Packet(Damaged(p, damage)) /\ Damaged(p, damage).data = p.data
<1>1. PICK r : r = Damaged(p, damage)
  OBVIOUS
<1>2. r = [f \in DOMAIN p |-> IF f \in DOMAIN damage THEN damage[f] ELSE p[f]]
  BY <1>1 DEF Damaged
<1>3. /\ DOMAIN r = DOMAIN p /\ r = [f \in DOMAIN r |-> r[f]]
      /\ \A f \in DOMAIN p : r[f] = IF f \in DOMAIN damage THEN damage[f] ELSE p[f]
  BY <1>2
<1>4. /\ DOMAIN damage \subseteq DOMAIN Largest
      /\ \A f \in DOMAIN damage : damage[f] \in 0 .. Largest[f]
  BY PacketsArePackets
<1>5. DOMAIN Largest = {"vhl", "proto", "len", "ipoffset", "ipchksum",
                        "srcipaddr", "destipaddr"}
  BY DEF Largest
<1>6. \A f \in DOMAIN Largest : p[f] \in 0 .. Largest[f]
  BY <1>5 DEF Packet, Largest, Octet, WordValue
<1>7. \A f \in DOMAIN Largest : r[f] \in 0 .. Largest[f]
  BY <1>3, <1>4, <1>6
<1>8. r.data = p.data
  BY <1>3, <1>4, <1>5
<1>9. /\ r.vhl \in Octet /\ r.proto \in Octet /\ r.len \in WordValue
      /\ r.ipoffset \in WordValue /\ r.ipchksum \in WordValue
      /\ r.srcipaddr \in WordValue /\ r.destipaddr \in WordValue
  BY <1>5, <1>7 DEF Largest, Octet, WordValue
<1>10. Packet(r)
  BY <1>3, <1>8, <1>9 DEF Packet
<1>11. QED
  BY <1>1, <1>8, <1>10

LEMMA SummedIs ==
  ASSUME NEW sum \in WordValue, NEW d \in Seq(Octet), NEW l \in Nat, l = Len(d), 2 <= l
  PROVE  /\ SubSeq(d, 1, 2) \o Bytes(sum) \o SubSeq(d, 3, l) \in Seq(Octet)
         /\ Len(SubSeq(d, 1, 2) \o Bytes(sum) \o SubSeq(d, 3, l)) = l + 2
<1>1. PICK a \in Octet, b \in Octet : Bytes(sum) = <<a, b>>
  BY BytesOfWord
<1>2. \A i \in 1 .. l : d[i] \in Octet
  OBVIOUS
<1>3. SubSeq(d, 1, 2) \in Seq(Octet) /\ Len(SubSeq(d, 1, 2)) = 2
  <2>1. \A i \in 1 .. 2 : d[i] \in Octet
    BY <1>2
  <2>2. /\ SubSeq(d, 1, 2) \in Seq(Octet)
        /\ Len(SubSeq(d, 1, 2)) = IF 1 <= 2 THEN 2 - 1 + 1 ELSE 0
    BY <2>1, SubSeqProperties
  <2>3. QED
    BY <2>2
<1>4. SubSeq(d, 3, l) \in Seq(Octet) /\ Len(SubSeq(d, 3, l)) = l - 2
  <2>1. \A i \in 3 .. l : d[i] \in Octet
    BY <1>2
  <2>2. /\ SubSeq(d, 3, l) \in Seq(Octet)
        /\ Len(SubSeq(d, 3, l)) = IF 3 <= l THEN l - 3 + 1 ELSE 0
    BY <2>1, SubSeqProperties
  <2>3. l - 3 + 1 = l - 2 /\ (3 <= l \/ l - 2 = 0)
    OBVIOUS
  <2>4. QED
    BY <2>2, <2>3
<1>5. PICK u \in Seq(Octet), v \in Seq(Octet), w \in Seq(Octet) :
        /\ u = SubSeq(d, 1, 2) /\ v = Bytes(sum) /\ w = SubSeq(d, 3, l)
        /\ Len(u) = 2 /\ Len(v) = 2 /\ Len(w) = l - 2
  <2>1. <<a, b>> \in Seq(Octet) /\ Len(<<a, b>>) = 2
    OBVIOUS
  <2>2. QED
    BY <1>1, <1>3, <1>4, <2>1
<1>6. PICK x \in Seq(Octet) : x = u \o v /\ Len(x) = 4
  <2>1. u \o v \in Seq(Octet) /\ Len(u \o v) = Len(u) + Len(v)
    BY ConcatProperties
  <2>2. Len(u) + Len(v) = 4
    BY <1>5
  <2>3. QED
    BY <2>1, <2>2
<1>7. x \o w \in Seq(Octet) /\ Len(x \o w) = l + 2
  <2>1. x \o w \in Seq(Octet) /\ Len(x \o w) = Len(x) + Len(w)
    BY ConcatProperties
  <2>2. Len(x) + Len(w) = 4 + (l - 2)
    BY <1>5, <1>6
  <2>4. 4 + (l - 2) = l + 2
    OBVIOUS
  <2>3. QED
    BY <2>1, <2>2, <2>4
<1>8. QED
  BY <1>5, <1>6, <1>7

LEMMA SentIs ==
  ASSUME NEW p \in Packets, NEW sum \in WordValue, NEW padding \in Padding,
         NEW n, NEW c \in WordValue, NEW summed, NEW whole, NEW padded,
         Sent(p, sum, c, padding, summed, n, whole, padded)
  PROVE  /\ Packet(whole) /\ Packet(padded)
         /\ DOMAIN padded = DOMAIN Largest \cup {"data"}
         /\ n + Len(padding) = UIP_IPH_LEN + Len(padded.data)
<1>1. /\ DOMAIN p = DOMAIN Largest \cup {"data"}
      /\ \A f \in DOMAIN Largest : p[f] \in 0 .. Largest[f]
  BY PacketsArePackets
<1>2. PICK d \in Seq(Octet), l \in Nat :
        d = p.data /\ l = Len(d) /\ 2 <= l /\ UIP_IPH_LEN + l + 2 < Word
  <2>1. /\ p.data \in Seq(0 .. Byte - 1) /\ Len(p.data) >= 2
        /\ UIP_IPH_LEN + Len(p.data) + 2 < Word
    BY PacketsArePackets
  <2>2. QED
    BY <2>1 DEF Octet
<1>3. PICK e : /\ e = SubSeq(d, 1, 2) \o Bytes(sum) \o SubSeq(d, 3, l)
               /\ e \in Seq(Octet) /\ Len(e) = l + 2
  <2>1. l = Len(d) /\ 2 <= l
    BY <1>2
  <2>2. SubSeq(d, 1, 2) \o Bytes(sum) \o SubSeq(d, 3, l) \in Seq(Octet)
    BY <2>1, SummedIs
  <2>3. Len(SubSeq(d, 1, 2) \o Bytes(sum) \o SubSeq(d, 3, l)) = l + 2
    BY <2>1, SummedIs
  <2>4. QED
    BY <2>2, <2>3
<1>4. DOMAIN p = {"vhl", "proto", "len", "ipoffset", "ipchksum", "srcipaddr",
                  "destipaddr", "data"}
  BY <1>1 DEF Largest
<1>5. PICK g : /\ g = e \o padding /\ g \in Seq(Octet)
               /\ Len(g) = l + 2 + Len(padding) /\ Len(padding) \in Nat
  <2>1. padding \in Seq(Octet)
    BY PacketsArePackets DEF Octet
  <2>2. e \o padding \in Seq(Octet) /\ Len(e \o padding) = Len(e) + Len(padding)
    BY <1>3, <2>1, ConcatProperties
  <2>3. Len(padding) \in Nat /\ Len(e) = l + 2
    BY <1>3, <2>1
  <2>4. QED
    BY <2>2, <2>3
<1>6. /\ DOMAIN summed = DOMAIN p /\ summed["data"] = e
      /\ \A f \in DOMAIN p : f # "data" => summed[f] = p[f]
  <2>1. summed = [p EXCEPT !["data"] = e]
    BY <1>2, <1>3 DEF Sent
  <2>2. QED
    BY <1>4, <2>1, ExceptIs
<1>7. n = 12 + (l + 2) /\ n \in WordValue
  <2>1. n = 12 + Len(e)
    BY <1>6 DEF Sent, UIP_IPH_LEN
  <2>2. 12 + l + 2 < Word
    BY <1>2 DEF UIP_IPH_LEN
  <2>3. n = 12 + (l + 2) /\ n \in Nat /\ n < Word
    BY <1>3, <2>1, <2>2
  <2>4. QED
    BY <2>3, ByteSize DEF WordValue
<1>8. /\ DOMAIN whole = DOMAIN p /\ whole["data"] = e /\ whole["len"] = n
      /\ whole = [f \in DOMAIN whole |-> whole[f]]
      /\ \A f \in DOMAIN p : f # "data" /\ f # "len" => whole[f] = p[f]
  <2>1. whole = [summed EXCEPT !["len"] = n]
    BY DEF Sent
  <2>2. /\ DOMAIN whole = DOMAIN p /\ whole["len"] = n
        /\ whole = [f \in DOMAIN whole |-> whole[f]]
        /\ \A f \in DOMAIN p : f # "len" => whole[f] = summed[f]
    BY <1>4, <1>6, <2>1, ExceptIs
  <2>3. QED
    BY <1>4, <1>6, <2>2
<1>9. PICK sent : /\ sent = [whole EXCEPT !["ipchksum"] = c]
                  /\ DOMAIN sent = DOMAIN p /\ sent["ipchksum"] = c
                  /\ \A f \in DOMAIN p : f # "ipchksum" => sent[f] = whole[f]
  <2>1. PICK sent : sent = [whole EXCEPT !["ipchksum"] = c]
    OBVIOUS
  <2>2. QED
    BY <1>4, <1>8, <2>1, ExceptIs
<1>10. /\ DOMAIN padded = DOMAIN p /\ padded["data"] = g
       /\ padded = [f \in DOMAIN padded |-> padded[f]]
       /\ \A f \in DOMAIN p : f # "data" => padded[f] = sent[f]
  <2>1. sent["data"] = e
    BY <1>4, <1>8, <1>9
  <2>2. padded = [sent EXCEPT !["data"] = g]
    BY <1>5, <1>9, <2>1 DEF Sent
  <2>3. QED
    BY <1>4, <1>9, <2>2, ExceptIs
<1>11. /\ p.vhl \in Octet /\ p.proto \in Octet /\ p.ipoffset \in WordValue
       /\ p.ipchksum \in WordValue
       /\ p.srcipaddr \in WordValue /\ p.destipaddr \in WordValue
  BY <1>1 DEF Largest, Octet, WordValue
<1>12. Packet(whole)
  <2>1. /\ whole.vhl = p.vhl /\ whole.proto = p.proto /\ whole.len = n
        /\ whole.ipoffset = p.ipoffset /\ whole.ipchksum = p.ipchksum
        /\ whole.srcipaddr = p.srcipaddr /\ whole.destipaddr = p.destipaddr
        /\ whole.data = e
    BY <1>4, <1>8
  <2>2. e \in Seq(Octet) /\ Len(e) >= 4
    <3>1. 2 <= l
      BY <1>2
    <3>2. l + 2 >= 4
      BY <3>1
    <3>3. QED
      BY <1>3, <3>2
  <2>3. QED
    BY <1>1, <1>7, <1>8, <1>11, <2>1, <2>2 DEF Packet, ICMP_HDR_LEN
<1>13. padded.data = g
  BY <1>10
<1>14. Packet(padded)
  <2>1. /\ padded.vhl = p.vhl /\ padded.proto = p.proto /\ padded.len = n
        /\ padded.ipoffset = p.ipoffset /\ padded.ipchksum = c
        /\ padded.srcipaddr = p.srcipaddr /\ padded.destipaddr = p.destipaddr
    BY <1>4, <1>8, <1>9, <1>10
  <2>2. g \in Seq(Octet) /\ Len(g) >= 4
    <3>1. 2 <= l /\ Len(padding) \in Nat
      BY <1>2, <1>5
    <3>2. l + 2 + Len(padding) >= 4
      BY <3>1
    <3>3. QED
      BY <1>5, <3>2
  <2>3. QED
    BY <1>1, <1>7, <1>10, <1>11, <1>13, <2>1, <2>2 DEF Packet, ICMP_HDR_LEN
<1>15. n + Len(padding) = UIP_IPH_LEN + Len(padded.data)
  <2>1. n = 12 + (l + 2) /\ Len(padded.data) = l + 2 + Len(padding)
    BY <1>5, <1>7, <1>13
  <2>2. Len(padding) \in Nat
    BY <1>5
  <2>3. QED
    BY <2>1, <2>2 DEF UIP_IPH_LEN
<1>16. QED
  BY <1>1, <1>10, <1>12, <1>14, <1>15

(* The checksum the sender computes is a word.                             *)
LEMMA ChecksumIsWord ==
  ASSUME NEW data \in Seq(Octet)
  PROVE  Checksum(data) \in WordValue
<1>1. PICK M \in Nat \ {0} : M = Word - 1 /\ WordValue = 0 .. M
  BY ByteSize DEF WordValue
<1>2. PICK t \in Nat : t = Total(0, data)
  BY TotalShift, 0 \in Nat
<1>3. M - (t % M) \in 0 .. M
  OBVIOUS
<1>4. QED
  BY <1>1, <1>2, <1>3 DEF Checksum

(* What is known of a packet before the verdict, and after it.             *)
IpInv ==
  /\ ip_verdict \in {"arrived", "dropped", "tcp", "sent"}
  /\ ip_verdict = "arrived" =>
       /\ Packet(request) /\ uip_buf = request
       /\ uip_len = UIP_IPH_LEN + Len(request.data)
  /\ EchoIsSound

LEMMA IpInvInit ==
  ASSUME IpInit
  PROVE  IpInv
<1>1. PICK p \in Packets, sum \in 0 .. Word - 1, damage \in Damage, padding \in Padding :
        LET summed == [p EXCEPT !.data = SubSeq(p.data, 1, 2) \o Bytes(sum)
                                         \o SubSeq(p.data, 3, Len(p.data))]
            length == UIP_IPH_LEN + Len(summed.data)
            whole  == [summed EXCEPT !.len = length]
            sent   == [whole EXCEPT !.ipchksum = Checksum(HeaderBytes(whole))]
        IN /\ request = Damaged([sent EXCEPT !.data = @ \o padding], damage)
           /\ uip_len = length + Len(padding)
           /\ uip_buf = request
           /\ ip_verdict = "arrived"
  BY DEF IpInit
<1>2. PICK summed, n, whole :
        /\ summed = [p EXCEPT !.data = SubSeq(p.data, 1, 2) \o Bytes(sum)
                                       \o SubSeq(p.data, 3, Len(p.data))]
        /\ n = UIP_IPH_LEN + Len(summed.data)
        /\ whole = [summed EXCEPT !.len = n]
  OBVIOUS
<1>3. sum \in WordValue /\ 0 \in WordValue
  BY ByteSize DEF WordValue
<1>4. Packet(whole)
  <2>1. PICK empty : Sent(p, sum, 0, padding, summed, n, whole, empty)
    BY <1>2 DEF Sent
  <2>2. QED
    BY <1>3, <2>1, SentIs
<1>5. PICK c \in WordValue : c = Checksum(HeaderBytes(whole))
  BY <1>4, HeaderTotal, ChecksumIsWord
<1>6. PICK padded : padded = [[whole EXCEPT !.ipchksum = c] EXCEPT !.data = @ \o padding]
  OBVIOUS
<1>7. /\ request = Damaged(padded, damage)
      /\ uip_len = n + Len(padding) /\ uip_buf = request /\ ip_verdict = "arrived"
  BY <1>1, <1>2, <1>5, <1>6
<1>8. Sent(p, sum, c, padding, summed, n, whole, padded)
  BY <1>2, <1>6 DEF Sent
<1>9. /\ Packet(padded) /\ DOMAIN padded = DOMAIN Largest \cup {"data"}
      /\ n + Len(padding) = UIP_IPH_LEN + Len(padded.data)
  <2>1. Packet(padded)
    BY <1>3, <1>8, SentIs
  <2>2. DOMAIN padded = DOMAIN Largest \cup {"data"}
    BY <1>3, <1>8, SentIs
  <2>3. n + Len(padding) = UIP_IPH_LEN + Len(padded.data)
    BY <1>3, <1>8, SentIs
  <2>4. QED
    BY <2>1, <2>2, <2>3
<1>10. Packet(request) /\ request.data = padded.data
  BY <1>7, <1>9, DamagedIs
<1>11. QED
  BY <1>7, <1>9, <1>10 DEF IpInv, EchoIsSound

(* The verdict.                                                            *)
LEMMA IpInvStep ==
  ASSUME IpInv, uip_process
  PROVE  IpInv'
<1>1. /\ Packet(request) /\ uip_buf = request
      /\ uip_len = UIP_IPH_LEN + Len(request.data)
      /\ ip_verdict = "arrived" /\ request' = request
  BY DEF IpInv, uip_process
<1>2. PICK p : p = request /\ p = uip_buf
  BY <1>1
<1>3. Packet(p) /\ uip_len = UIP_IPH_LEN + Len(p.data)
  BY <1>1, <1>2
<1>4. CASE Accepted(uip_buf, uip_len) /\ IsEcho(uip_buf) /\ Echo
  <2>1. Accepted(p, UIP_IPH_LEN + Len(p.data)) /\ IsEcho(p)
    BY <1>2, <1>3, <1>4
  <2>2. ip_verdict' = "sent" /\ request' = p /\ uip_buf' = EchoReply(p)
    BY <1>1, <1>2, <1>4 DEF Echo
  <2>3. QED
    BY <1>3, <2>1, <2>2, EchoRight DEF IpInv, EchoIsSound
<1>5. CASE Accepted(uip_buf, uip_len) /\ uip_buf.proto = UIP_PROTO_TCP /\ TcpInput
  <2>1. /\ p.vhl = VHL /\ p.len <= UIP_IPH_LEN + Len(p.data)
        /\ p.proto = UIP_PROTO_TCP /\ uip_ipchksum(p) = Word - 1
    BY <1>2, <1>3, <1>5 DEF Accepted
  <2>2. Verifies(0, HeaderBytes(p))
    BY <1>3, <2>1, HeaderRight
  <2>3. PICK sum \in SegmentSums(p) :
          IF sum = Word - 1 THEN ip_verdict' = "tcp" ELSE ip_verdict' = "dropped"
    BY <1>2, <1>5 DEF TcpInput, Drop
  <2>4. ~(p.len < UIP_IPH_LEN) => (sum = Word - 1 <=> TcpVerifies(p))
    <3>1. SUFFICES ASSUME ~(p.len < UIP_IPH_LEN)
                   PROVE  sum = Word - 1 <=> TcpVerifies(p)
      OBVIOUS
    <3>2. sum = upper_layer_chksum(p)
      BY <2>3, <3>1 DEF SegmentSums
    <3>3. UIP_IPH_LEN <= p.len
      <4>1. p.len \in Nat
        BY <1>3, ByteSize DEF Packet, WordValue
      <4>2. QED
        BY <3>1, <4>1 DEF UIP_IPH_LEN
    <3>4. QED
      BY <1>3, <2>1, <3>2, <3>3, SegmentRight
  <2>5. request' = p
    BY <1>1, <1>2
  <2>6. CASE sum = Word - 1
    BY <2>2, <2>3, <2>4, <2>5, <2>6 DEF IpInv, EchoIsSound
  <2>7. CASE sum # Word - 1
    BY <2>1, <2>3, <2>4, <2>5, <2>7 DEF IpInv, EchoIsSound
  <2>8. QED
    BY <2>6, <2>7
<1>6. CASE /\ ~(Accepted(uip_buf, uip_len)
                /\ (uip_buf.proto = UIP_PROTO_TCP \/ IsEcho(uip_buf)))
           /\ Drop
  <2>1. ip_verdict' = "dropped" /\ request' = p
    BY <1>1, <1>2, <1>6 DEF Drop
  <2>2. SUFFICES ASSUME p.vhl = VHL, ~Fragment(p), p.destipaddr = uip_hostaddr,
                        Verifies(0, HeaderBytes(p))
                 PROVE  \/ p.len > UIP_IPH_LEN + Len(p.data)
                        \/ p.proto # UIP_PROTO_TCP /\ ~IsEcho(p)
    BY <2>1 DEF IpInv, EchoIsSound
  <2>3. uip_ipchksum(p) = Word - 1
    BY <1>3, <2>2, HeaderRight
  <2>4. p.len <= UIP_IPH_LEN + Len(p.data) \/ p.len > UIP_IPH_LEN + Len(p.data)
    <3>1. p.len \in Nat /\ Len(p.data) \in Nat
      BY <1>3, ByteSize DEF Packet, WordValue
    <3>2. QED
      BY <3>1 DEF UIP_IPH_LEN
  <2>5. Accepted(p, uip_len) \/ p.len > UIP_IPH_LEN + Len(p.data)
    BY <1>3, <2>2, <2>3, <2>4 DEF Accepted
  <2>6. QED
    BY <1>2, <1>6, <2>5
<1>7. QED
  BY <1>4, <1>5, <1>6 DEF uip_process

(* A ping comes back sound, nothing damaged reaches TCP and nothing sound  *)
(* is dropped (uip_process), for packets of all lengths and all contents.  *)
THEOREM PingsAreSound == IpSpec => []EchoIsSound
<1>1. IpInit => IpInv
  BY IpInvInit
<1>2. IpInv /\ [uip_process]_ip_vars => IpInv'
  <2>1. IpInv /\ UNCHANGED ip_vars => IpInv'
    BY DEF IpInv, EchoIsSound, ip_vars
  <2>2. QED
    BY <2>1, IpInvStep
<1>3. IpInv => EchoIsSound
  BY DEF IpInv
<1>4. QED
  BY <1>1, <1>2, <1>3, PTL DEF IpSpec

=============================================================================
