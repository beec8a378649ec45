----------------------------- MODULE SlipProofs -----------------------------
(* PacketsInOrder and IntactFrameArrives for every size of the buffer and  *)
(* all packets that fit in it.                                             *)
EXTENDS Slip, SequenceTheorems, WellFoundedInduction, TLAPS

-----------------------------------------------------------------------------
(* Induction over the natural numbers, for sets of them.                   *)
LEMMA LeastOf ==
  ASSUME NEW T \in SUBSET Nat, T # {}
  PROVE  \E m \in T : \A k \in T : m <= k
<1> DEFINE R == {p \in Nat \X Nat : p[1] < p[2]}
<1>1. IsWellFoundedOn(R, Nat)
  <2>1. OpToRel(<, Nat) = R
    BY Zenon DEF OpToRel
  <2>2. QED
    BY <2>1, NatLessThanWellFounded
<1>2. \E x \in T : \A y \in T : ~ (<<y, x>> \in R)
  <2> HIDE DEF R
  <2>1. QED
    BY <1>1, WFMin
<1>3. PICK x \in T : \A y \in T : ~ (<<y, x>> \in R)
  BY <1>2
<1>4. ASSUME NEW y \in T PROVE x <= y
  <2>1. x \in Nat /\ y \in Nat
    OBVIOUS
  <2>2. y < x => <<y, x>> \in R
    BY <2>1
  <2> HIDE DEF R
  <2>3. QED
    BY <1>3, <2>1, <2>2
<1>5. QED
  BY <1>4

LEMMA Induct ==
  ASSUME NEW T \in SUBSET Nat, 0 \in T, \A n \in T : n + 1 \in T
  PROVE  T = Nat
<1>1. SUFFICES ASSUME Nat \ T # {} PROVE FALSE
  OBVIOUS
<1>2. PICK m \in Nat \ T : \A k \in Nat \ T : m <= k
  BY <1>1, LeastOf
<1>3. m # 0 /\ m - 1 \in Nat
  BY <1>2
<1>4. m - 1 \notin Nat \ T
  BY <1>2, <1>3
<1>5. (m - 1) + 1 = m
  BY <1>2
<1>6. QED
  BY <1>2, <1>3, <1>4, <1>5

-----------------------------------------------------------------------------
(* What FlattenSeq works with, and that there is such a function.          *)
Flattens(f, seqs, n) ==
  f = [i \in 1 .. n |-> IF i = 1 THEN seqs[i] ELSE f[i - 1] \o seqs[i]]

LEMMA FlattenExists ==
  ASSUME NEW seqs, NEW n \in Nat
  PROVE  \E f : Flattens(f, seqs, n)
<1> DEFINE T == {k \in Nat : \E f : Flattens(f, seqs, k)}
<1>1. 0 \in T
  <2> DEFINE f == <<>>
  <2>1. Flattens(f, seqs, 0)
    BY DEF Flattens
  <2>2. QED
    BY <2>1
<1>2. ASSUME NEW k \in T PROVE k + 1 \in T
  <2>1. PICK f : Flattens(f, seqs, k)
    OBVIOUS
  <2>2. k \in Nat
    OBVIOUS
  <2> DEFINE g == [i \in 1 .. k + 1 |->
                     IF i <= k THEN f[i]
                     ELSE IF i = 1 THEN seqs[i] ELSE f[i - 1] \o seqs[i]]
             h == [i \in 1 .. k + 1 |-> IF i = 1 THEN seqs[i] ELSE g[i - 1] \o seqs[i]]
  <2>3. ASSUME NEW i \in 1 .. k + 1 PROVE g[i] = h[i]
    <3>1. CASE i = 1 /\ i <= k
      BY <2>1, <2>2, <3>1 DEF Flattens
    <3>2. CASE i = 1 /\ ~(i <= k)
      BY <2>2, <3>2
    <3>3. CASE i # 1
      <4>1. i - 1 \in 1 .. k /\ i - 1 \in 1 .. k + 1 /\ i - 1 <= k
        BY <2>2, <3>3
      <4>2. g[i - 1] = f[i - 1]
        BY <4>1
      <4>3. h[i] = f[i - 1] \o seqs[i]
        BY <3>3, <4>2
      <4>4. CASE i <= k
        <5>1. i \in 1 .. k
          BY <4>4
        <5>2. f[i] = f[i - 1] \o seqs[i]
          BY <2>1, <3>3, <5>1 DEF Flattens
        <5>3. QED
          BY <4>3, <4>4, <5>2
      <4>5. CASE ~(i <= k)
        BY <3>3, <4>3, <4>5
      <4>6. QED
        BY <4>4, <4>5
    <3>4. QED
      BY <3>1, <3>2, <3>3
  <2>4. g = h
    <3>1. g = [i \in 1 .. k + 1 |-> g[i]] /\ h = [i \in 1 .. k + 1 |-> h[i]]
      OBVIOUS
    <3> HIDE DEF g, h
    <3>2. QED
      BY <2>3, <3>1
  <2>5. Flattens(g, seqs, k + 1)
    BY <2>4 DEF Flattens
  <2> HIDE DEF g
  <2>6. QED
    BY <2>2, <2>5
<1> HIDE DEF T
<1>3. T \in SUBSET Nat
  BY DEF T
<1>4. T = Nat
  BY <1>1, <1>2, <1>3, Induct
<1>5. QED
  BY <1>4 DEF T

LEMMA FlattenIs ==
  ASSUME NEW seqs, NEW n \in Nat \ {0}, Len(seqs) = n
  PROVE  \E f : Flattens(f, seqs, n) /\ FlattenSeq(seqs) = f[n]
<1> DEFINE G == CHOOSE f : f = [i \in 1 .. n |->
                                  IF i = 1 THEN seqs[i] ELSE f[i - 1] \o seqs[i]]
<1>1. \E f : f = [i \in 1 .. n |-> IF i = 1 THEN seqs[i] ELSE f[i - 1] \o seqs[i]]
  BY FlattenExists DEF Flattens
<1>2. G = [i \in 1 .. n |-> IF i = 1 THEN seqs[i] ELSE G[i - 1] \o seqs[i]]
  BY <1>1
<1>3. FlattenSeq(seqs) = G[n]
  BY DEF FlattenSeq
<1>4. QED
  BY <1>2, <1>3 DEF Flattens

-----------------------------------------------------------------------------
(* One byte or two.                                                        *)
LEMMA EscapeShape ==
  ASSUME NEW c \in Byte
  PROVE  /\ Escape(c) \in Seq(Byte)
         /\ c = END => /\ Len(Escape(c)) = 2
                       /\ Escape(c)[1] = ESC /\ Escape(c)[2] = ESC_END
         /\ c = ESC => /\ Len(Escape(c)) = 2
                       /\ Escape(c)[1] = ESC /\ Escape(c)[2] = ESC_ESC
         /\ c \notin {END, ESC} => Len(Escape(c)) = 1 /\ Escape(c)[1] = c
<1>1. END # ESC /\ {ESC, ESC_END, ESC_ESC} \subseteq Byte
  BY DEF END, ESC, Byte
<1>2. CASE c = END
  <2>1. Escape(c) = <<ESC, ESC_END>>
    BY <1>1, <1>2 DEF Escape
  <2>2. QED
    BY <1>1, <1>2, <2>1
<1>3. CASE c = ESC
  <2>1. Escape(c) = <<ESC, ESC_ESC>>
    BY <1>1, <1>3 DEF Escape
  <2>2. QED
    BY <1>1, <1>3, <2>1
<1>4. CASE c \notin {END, ESC}
  <2>1. Escape(c) = <<c>>
    BY <1>4 DEF Escape
  <2>2. QED
    BY <1>4, <2>1
<1>5. QED
  BY <1>2, <1>3, <1>4

(* The bytes of p[j + 1] lie behind o[j] in s.                             *)
Lies(p, o, s, k) ==
  /\ o \in [0 .. k -> Nat] /\ o[0] = 0 /\ s \in Seq(Byte) /\ Len(s) = o[k]
  /\ \A j \in 0 .. k - 1 :
       /\ o[j + 1] = o[j] + Len(Escape(p[j + 1])) /\ o[j + 1] <= o[k]
       /\ \A i \in 1 .. Len(Escape(p[j + 1])) : s[o[j] + i] = Escape(p[j + 1])[i]

LEMMA FlattenLies ==
  ASSUME NEW p \in Seq(Byte), p # <<>>
  PROVE  \E o : Lies(p, o, FlattenSeq([i \in DOMAIN p |-> Escape(p[i])]), Len(p))
<1> DEFINE e == [i \in DOMAIN p |-> Escape(p[i])]
           n == Len(p)
<1>1. n \in Nat \ {0} /\ DOMAIN p = 1 .. n /\ Len(e) = n /\ \A i \in 1 .. n : p[i] \in Byte
  <2>1. n \in Nat \ {0} /\ DOMAIN p = 1 .. n /\ \A i \in 1 .. n : p[i] \in Byte
    OBVIOUS
  <2>2. \A i \in 1 .. n : Escape(p[i]) \in Seq(Byte)
    BY <2>1, EscapeShape
  <2>3. e \in Seq(Seq(Byte)) /\ Len(e) = n
    BY <2>1, <2>2
  <2>4. QED
    BY <2>1, <2>3
<1>2. \A i \in 1 .. n : e[i] = Escape(p[i])
  BY <1>1
<1> HIDE DEF e, n
<1>3. PICK f : Flattens(f, e, n) /\ FlattenSeq(e) = f[n]
  BY <1>1, FlattenIs
<1> DEFINE T == {k \in Nat : k + 1 <= n => \E o : Lies(p, o, f[k + 1], k + 1)}
<1>4. 0 \in T
  <2>1. f[1] = Escape(p[1]) /\ 1 \in 1 .. n
    BY <1>1, <1>2, <1>3 DEF Flattens
  <2>2. Escape(p[1]) \in Seq(Byte) /\ Len(Escape(p[1])) \in Nat
    BY <1>1, <2>1, EscapeShape
  <2> DEFINE o == [j \in 0 .. 1 |-> IF j = 0 THEN 0 ELSE Len(Escape(p[1]))]
  <2>3. o \in [0 .. 1 -> Nat] /\ o[0] = 0 /\ o[1] = Len(Escape(p[1]))
    BY <2>2
  <2> HIDE DEF o
  <2>4. ASSUME NEW j \in 0 .. 1 - 1
        PROVE  /\ o[j + 1] = o[j] + Len(Escape(p[j + 1])) /\ o[j + 1] <= o[1]
               /\ \A i \in 1 .. Len(Escape(p[j + 1])) :
                    f[1][o[j] + i] = Escape(p[j + 1])[i]
    <3>1. j = 0
      OBVIOUS
    <3>2. QED
      BY <2>1, <2>2, <2>3, <3>1
  <2>5. Lies(p, o, f[1], 1)
    BY <2>1, <2>2, <2>3, <2>4 DEF Lies
  <2>6. 0 + 1 = 1
    OBVIOUS
  <2>7. QED
    BY <2>5, <2>6
<1>5. ASSUME NEW k \in T PROVE k + 1 \in T
  <2> DEFINE m == k + 1
  <2>1. k \in Nat /\ m \in Nat \ {0} /\ m + 1 \in Nat
    OBVIOUS
  <2>2. SUFFICES ASSUME m + 1 <= n
                 PROVE  \E o : Lies(p, o, f[m + 1], m + 1)
    BY <2>1
  <2>3. PICK o : Lies(p, o, f[m], m)
    BY <1>1, <2>1, <2>2
  <2> DEFINE c == Escape(p[m + 1])
             s == f[m]
             t == f[m + 1]
             q == [j \in 0 .. m + 1 |-> IF j <= m THEN o[j] ELSE o[m] + Len(c)]
  <2> HIDE DEF m
  <2>4. m + 1 \in 1 .. n /\ m + 1 # 1 /\ (m + 1) - 1 = m
    BY <1>1, <2>1, <2>2
  <2>5. t = s \o c
    BY <1>2, <1>3, <2>4 DEF Flattens
  <2>6. c \in Seq(Byte) /\ Len(c) \in Nat
    BY <1>1, <2>4, EscapeShape
  <2>7. /\ o \in [0 .. m -> Nat] /\ o[0] = 0 /\ s \in Seq(Byte) /\ Len(s) = o[m]
        /\ \A j \in 0 .. m - 1 :
             /\ o[j + 1] = o[j] + Len(Escape(p[j + 1])) /\ o[j + 1] <= o[m]
             /\ \A i \in 1 .. Len(Escape(p[j + 1])) : s[o[j] + i] = Escape(p[j + 1])[i]
    BY <2>3 DEF Lies
  <2>8. /\ t \in Seq(Byte) /\ Len(t) = Len(s) + Len(c)
        /\ \A i \in 1 .. Len(s) : t[i] = s[i]
        /\ \A i \in 1 .. Len(c) : t[Len(s) + i] = c[i]
    <3> HIDE DEF s, c, t
    <3>1. t \in Seq(Byte) /\ Len(t) = Len(s) + Len(c)
      BY <2>5, <2>6, <2>7, ConcatProperties
    <3>2. \A i \in 1 .. Len(s) + Len(c) :
            t[i] = IF i <= Len(s) THEN s[i] ELSE c[i - Len(s)]
      BY <2>5, <2>6, <2>7, ConcatProperties
    <3>3. Len(s) \in Nat
      BY <2>7
    <3>4. ASSUME NEW i \in 1 .. Len(c) PROVE t[Len(s) + i] = c[i]
      <4>1. /\ Len(s) + i \in 1 .. Len(s) + Len(c) /\ ~(Len(s) + i <= Len(s))
            /\ (Len(s) + i) - Len(s) = i
        BY <2>6, <3>3
      <4>2. QED
        BY <3>2, <4>1
    <3>5. QED
      BY <2>6, <3>1, <3>2, <3>3, <3>4
  <2> HIDE DEF s, t
  <2>9. /\ q \in [0 .. m + 1 -> Nat] /\ q[m + 1] = o[m] + Len(c)
        /\ \A j \in 0 .. m : q[j] = o[j]
    <3>1. o[m] + Len(c) \in Nat /\ \A j \in 0 .. m : o[j] \in Nat
      BY <2>1, <2>6, <2>7
    <3> HIDE DEF c
    <3>2. QED
      BY <2>1, <3>1
  <2> HIDE DEF q
  <2>10. ASSUME NEW j \in 0 .. (m + 1) - 1
         PROVE  /\ q[j + 1] = q[j] + Len(Escape(p[j + 1])) /\ q[j + 1] <= q[m + 1]
                /\ \A i \in 1 .. Len(Escape(p[j + 1])) :
                     t[q[j] + i] = Escape(p[j + 1])[i]
    <3>1. CASE j = m
      <4>1. q[j + 1] = o[m] + Len(c) /\ q[j] = o[m] /\ Escape(p[j + 1]) = c
        BY <2>1, <2>9, <3>1
      <4> HIDE DEF c
      <4>2. QED
        BY <2>1, <2>6, <2>7, <2>8, <2>9, <3>1, <4>1
    <3>2. CASE j # m
      <4>1. j \in 0 .. m - 1 /\ j \in 0 .. m /\ j + 1 \in 0 .. m
        BY <2>1, <3>2
      <4>2. p[j + 1] \in Byte
        BY <1>1, <2>1, <2>2, <4>1
      <4> DEFINE d == Escape(p[j + 1])
      <4>3. Len(d) \in Nat
        BY <4>2, EscapeShape
      <4>4. q[j + 1] = o[j + 1] /\ q[j] = o[j] /\ o[j + 1] = o[j] + Len(d) /\ o[j + 1] <= o[m]
        BY <2>7, <2>9, <4>1
      <4>5. \A i \in 1 .. Len(d) : s[o[j] + i] = d[i]
        BY <2>7, <4>1
      <4> HIDE DEF d, c
      <4>6. o[j] \in Nat /\ o[m] \in Nat
        BY <2>1, <2>7, <4>1
      <4>7. \A i \in 1 .. Len(d) : o[j] + i \in 1 .. Len(s)
        BY <2>7, <4>3, <4>4, <4>6
      <4>8. \A i \in 1 .. Len(d) : t[q[j] + i] = d[i]
        BY <2>8, <4>4, <4>5, <4>7
      <4>9. q[j + 1] = q[j] + Len(d) /\ q[j + 1] <= q[m + 1]
        BY <2>6, <2>9, <4>3, <4>4, <4>6
      <4>10. QED
        BY <4>8, <4>9 DEF d
    <3>3. QED
      BY <3>1, <3>2
  <2>11. q[0] = 0 /\ Len(t) = q[m + 1]
    BY <2>1, <2>7, <2>8, <2>9
  <2>12. Lies(p, q, t, m + 1)
    BY <2>8, <2>9, <2>10, <2>11 DEF Lies
  <2>13. QED
    BY <2>12 DEF t
<1> HIDE DEF T
<1>6. T = Nat
  <2>1. T \in SUBSET Nat
    BY DEF T
  <2>2. QED
    BY <1>4, <1>5, <2>1, Induct
<1>7. \E o : Lies(p, o, f[n], n)
  <2>1. n - 1 \in Nat /\ (n - 1) + 1 = n /\ n <= n
    BY <1>1
  <2>2. QED
    BY <1>6, <2>1 DEF T
<1>8. QED
  BY <1>3, <1>7 DEF e, n

(* Where the bytes of a packet begin in its frame: p[j + 1] behind o[j].   *)
Shape(p, o) ==
  /\ o \in [0 .. Len(p) -> Nat] /\ o[0] = 1
  /\ Frame(p) \in Seq(Byte) /\ Len(Frame(p)) = o[Len(p)] + 1
  /\ Frame(p)[1] = END /\ Frame(p)[o[Len(p)] + 1] = END
  /\ \A j \in 0 .. Len(p) - 1 :
       /\ o[j + 1] = o[j] + Len(Escape(p[j + 1])) /\ o[j + 1] <= o[Len(p)]
       /\ \A i \in 1 .. Len(Escape(p[j + 1])) :
            Frame(p)[o[j] + i] = Escape(p[j + 1])[i]

Start(p) == CHOOSE o : Shape(p, o)

LEMMA FrameShape ==
  ASSUME NEW p \in Packets
  PROVE  /\ p \in Seq(Byte) /\ Len(p) \in Nat \ {0} /\ \A i \in 1 .. Len(p) : p[i] \in Byte
         /\ Shape(p, Start(p))
<1>1. p \in Seq(Byte) /\ p # <<>>
  BY SlipAssumption
<1>2. Len(p) \in Nat \ {0} /\ \A i \in 1 .. Len(p) : p[i] \in Byte
  BY <1>1
<1> DEFINE s == FlattenSeq([i \in DOMAIN p |-> Escape(p[i])])
           n == Len(p)
<1>3. PICK o : Lies(p, o, s, n)
  BY <1>1, FlattenLies
<1>4. Frame(p) = (<<END>> \o s) \o <<END>>
  BY DEF Frame
<1>5. <<END>> \in Seq(Byte) /\ Len(<<END>>) = 1 /\ <<END>>[1] = END
  BY DEF Byte
<1> DEFINE q == [j \in 0 .. n |-> o[j] + 1]
<1> HIDE DEF s, n
<1>6. /\ o \in [0 .. n -> Nat] /\ o[0] = 0 /\ s \in Seq(Byte) /\ Len(s) = o[n]
      /\ \A j \in 0 .. n - 1 :
           /\ o[j + 1] = o[j] + Len(Escape(p[j + 1])) /\ o[j + 1] <= o[n]
           /\ \A i \in 1 .. Len(Escape(p[j + 1])) : s[o[j] + i] = Escape(p[j + 1])[i]
  BY <1>3 DEF Lies
<1>7. /\ <<END>> \o s \in Seq(Byte) /\ Len(<<END>> \o s) = o[n] + 1
      /\ (<<END>> \o s)[1] = END
      /\ \A i \in 1 .. Len(s) : (<<END>> \o s)[i + 1] = s[i]
  <2>1. /\ <<END>> \o s \in Seq(Byte) /\ Len(<<END>> \o s) = 1 + Len(s)
        /\ \A i \in 1 .. 1 + Len(s) :
             (<<END>> \o s)[i] = IF i <= 1 THEN <<END>>[i] ELSE s[i - 1]
    BY <1>5, <1>6, ConcatProperties
  <2>2. Len(s) \in Nat
    BY <1>6
  <2>3. ASSUME NEW i \in 1 .. Len(s) PROVE (<<END>> \o s)[i + 1] = s[i]
    <3>1. i + 1 \in 1 .. 1 + Len(s) /\ ~(i + 1 <= 1) /\ (i + 1) - 1 = i
      BY <2>2
    <3>2. QED
      BY <2>1, <3>1
  <2>4. QED
    BY <1>5, <1>6, <2>1, <2>2, <2>3
<1> DEFINE t == <<END>> \o s
<1> HIDE DEF t
<1>8. t \in Seq(Byte) /\ Len(t) = o[n] + 1 /\ t[1] = END /\ o[n] \in Nat
      /\ \A i \in 1 .. o[n] : t[i + 1] = s[i]
  <2>1. n \in 0 .. n
    BY <1>2 DEF n
  <2>2. QED
    BY <1>6, <1>7, <2>1 DEF t
<1>9. /\ Frame(p) \in Seq(Byte) /\ Len(Frame(p)) = o[n] + 2
      /\ \A i \in 1 .. o[n] + 1 : Frame(p)[i] = t[i]
      /\ Frame(p)[o[n] + 2] = END
  <2> DEFINE u == <<END>>
             f == t \o u
  <2>1. f = Frame(p)
    BY <1>4 DEF t
  <2>2. u \in Seq(Byte) /\ Len(u) = 1 /\ u[1] = END
    BY <1>5
  <2> HIDE DEF u
  <2>3. /\ f \in Seq(Byte) /\ Len(f) = Len(t) + 1
        /\ \A i \in 1 .. Len(t) + 1 : f[i] = IF i <= Len(t) THEN t[i] ELSE u[i - Len(t)]
    <3>1. t \in Seq(Byte)
      BY <1>8
    <3>2. /\ f \in Seq(Byte) /\ Len(f) = Len(t) + Len(u)
          /\ \A i \in 1 .. Len(t) + Len(u) :
               f[i] = IF i <= Len(t) THEN t[i] ELSE u[i - Len(t)]
      BY <2>2, <3>1, ConcatProperties
    <3>3. QED
      BY <2>2, <3>2
  <2> HIDE DEF f
  <2>4. PICK N \in Nat : N = o[n] /\ Len(t) = N + 1
    BY <1>8
  <2>5. f[N + 2] = END
    <3>1. N + 2 \in 1 .. Len(t) + 1 /\ ~(N + 2 <= Len(t)) /\ (N + 2) - Len(t) = 1
      BY <2>4
    <3>2. f[N + 2] = u[(N + 2) - Len(t)]
      BY <2>3, <3>1
    <3>3. QED
      BY <2>2, <3>1, <3>2
  <2>6. ASSUME NEW i \in 1 .. N + 1 PROVE f[i] = t[i]
    <3>1. i \in 1 .. Len(t) + 1 /\ i <= Len(t)
      BY <2>4
    <3>2. QED
      BY <2>3, <3>1
  <2>7. QED
    BY <2>1, <2>3, <2>4, <2>5, <2>6
<1>10. /\ q \in [0 .. n -> Nat] /\ \A j \in 0 .. n : q[j] = o[j] + 1
       /\ n \in Nat /\ q[0] = 1 /\ q[n] = o[n] + 1
  <2>1. n \in Nat /\ 0 \in 0 .. n /\ n \in 0 .. n
    BY <1>2 DEF n
  <2>2. QED
    BY <1>6, <2>1
<1> HIDE DEF q
<1>11. ASSUME NEW j \in 0 .. n - 1
       PROVE  /\ q[j + 1] = q[j] + Len(Escape(p[j + 1])) /\ q[j + 1] <= q[n]
              /\ \A i \in 1 .. Len(Escape(p[j + 1])) :
                   Frame(p)[q[j] + i] = Escape(p[j + 1])[i]
  <2>1. j \in 0 .. n /\ j + 1 \in 0 .. n /\ j + 1 \in 1 .. n
    BY <1>10
  <2>2. p[j + 1] \in Byte
    BY <1>2, <2>1 DEF n
  <2> DEFINE d == Escape(p[j + 1])
  <2>3. Len(d) \in Nat
    BY <2>2, EscapeShape
  <2>4. /\ o[j + 1] = o[j] + Len(d) /\ o[j + 1] <= o[n]
        /\ \A i \in 1 .. Len(d) : s[o[j] + i] = d[i]
    BY <1>6
  <2> HIDE DEF d
  <2>5. o[j] \in Nat /\ o[j + 1] \in Nat
    BY <1>6, <2>1
  <2>6. q[j] = o[j] + 1 /\ q[j + 1] = o[j + 1] + 1
    BY <1>10, <2>1
  <2>7. ASSUME NEW i \in 1 .. Len(d) PROVE Frame(p)[q[j] + i] = d[i]
    <3>1. PICK m \in Nat : m = o[j] /\ m + Len(d) <= o[n]
      BY <2>4, <2>5
    <3>2. m + i \in 1 .. o[n] /\ (m + i) + 1 \in 1 .. o[n] + 1
      <4>1. PICK N \in Nat, l \in Nat : N = o[n] /\ l = Len(d)
        BY <1>8, <2>3
      <4>2. i \in 1 .. l /\ m + l <= N
        BY <3>1, <4>1
      <4>3. m + i \in 1 .. N /\ (m + i) + 1 \in 1 .. N + 1
        BY <4>2
      <4>4. QED
        BY <4>1, <4>3
    <3>3. q[j] + i = (m + i) + 1
      BY <2>3, <2>6, <3>1
    <3>4. Frame(p)[(m + i) + 1] = t[(m + i) + 1] /\ t[(m + i) + 1] = s[m + i]
      BY <1>8, <1>9, <3>2
    <3>5. QED
      BY <2>4, <3>1, <3>3, <3>4
  <2>8. q[j + 1] = q[j] + Len(d) /\ q[j + 1] <= q[n]
    <3>1. PICK a \in Nat, c \in Nat, N \in Nat : a = o[j] /\ c = o[j + 1] /\ N = o[n]
      BY <1>8, <2>5
    <3>2. c = a + Len(d) /\ c <= N /\ q[j] = a + 1 /\ q[j + 1] = c + 1 /\ q[n] = N + 1
      BY <1>10, <2>4, <2>6, <3>1
    <3>3. PICK l \in Nat : l = Len(d)
      BY <2>3
    <3>4. c + 1 = (a + 1) + l /\ c + 1 <= N + 1
      BY <3>2, <3>3
    <3>5. QED
      BY <3>2, <3>3, <3>4
  <2>9. QED
    BY <2>7, <2>8 DEF d
<1>12. Frame(p)[1] = END /\ Len(Frame(p)) = q[n] + 1 /\ Frame(p)[q[n] + 1] = END
  <2>1. PICK N \in Nat : N = o[n]
    BY <1>8
  <2>2. q[n] + 1 = N + 2 /\ 1 \in 1 .. N + 1
    BY <1>10, <2>1
  <2>3. QED
    BY <1>8, <1>9, <2>1, <2>2
<1>13. Shape(p, q)
  BY <1>9, <1>10, <1>11, <1>12 DEF Shape, n
<1>14. Shape(p, Start(p))
  BY <1>13 DEF Start
<1>15. QED
  BY <1>1, <1>2, <1>14

-----------------------------------------------------------------------------
(* No packet is longer than the buffer, which is the peer's part of the    *)
(* bargain: a longer one is lost (slipdev.c, the test of len).             *)
Fits == \A p \in Packets : Len(p) <= UIP_BUFSIZE

(* The receiver has read k bytes of the frame of p: so many bytes of p are *)
(* in the buffer, and perhaps an escape is open.                           *)
Within(p, k) ==
  \E j \in 0 .. Len(p) :
    /\ len = j /\ \A i \in 0 .. j - 1 : slip_buf[i] = p[i + 1]
    /\ \/ k = Start(p)[j] /\ lastc # ESC
       \/ /\ j < Len(p) /\ Len(Escape(p[j + 1])) = 2
          /\ k = Start(p)[j] + 1 /\ lastc = ESC

(* An ordinary byte, or an escaped one, goes into the buffer.              *)
LEMMA StoreByte ==
  ASSUME TypeOK, NEW p \in Packets, Fits, NEW j \in 0 .. Len(p) - 1, len = j,
         \A i \in 0 .. j - 1 : slip_buf[i] = p[i + 1],
         line # <<>>, Head(line).byte \notin {END, ESC}, Unescape(Head(line).byte) = p[j + 1],
         slipdev_poll
  PROVE  /\ len' = j + 1 /\ \A i \in 0 .. j : slip_buf'[i] = p[i + 1]
         /\ lastc' = Head(line).byte /\ received' = received
<1>1. Len(p) \in Nat /\ Len(p) <= UIP_BUFSIZE /\ UIP_BUFSIZE \in Nat \ {0}
  BY FrameShape, SlipAssumption DEF Fits
<1>2. len < UIP_BUFSIZE /\ len # UIP_BUFSIZE /\ j \in Index
  BY <1>1 DEF Index
<1>3. PollData
  BY <1>2 DEF slipdev_poll, PollEscape, PollEnd, PollOverlong
<1>4. /\ lastc' = Head(line).byte /\ received' = received
      /\ slip_buf' = [slip_buf EXCEPT ![j] = p[j + 1]]
      /\ len' = NextLen(j)
  BY <1>3 DEF PollData
<1>5. len' = j + 1
  BY <1>1, <1>4 DEF NextLen
<1>6. slip_buf \in [Index -> Byte]
  BY DEF TypeOK
<1>7. ASSUME NEW i \in 0 .. j PROVE slip_buf'[i] = p[i + 1]
  <2>1. i \in Index
    BY <1>1, <1>2 DEF Index
  <2>2. CASE i = j
    BY <1>2, <1>4, <1>6, <2>2
  <2>3. CASE i # j
    <3>1. i \in 0 .. j - 1
      BY <2>3
    <3>2. QED
      BY <1>4, <1>6, <2>1, <2>3, <3>1
  <2>4. QED
    BY <2>2, <2>3
<1>8. QED
  BY <1>4, <1>5, <1>7

(* Of the bytes of a frame, the first to the last but one, each takes the  *)
(* receiver one on.                                                        *)
LEMMA ReadByte ==
  ASSUME TypeOK, NEW p \in Packets, Fits, NEW k \in Nat, k + 1 < Len(Frame(p)),
         k = 0 \/ Within(p, k), line # <<>>, Head(line).byte = Frame(p)[k + 1],
         slipdev_poll
  PROVE  /\ Within(p, k + 1)'
         /\ k # 0 \/ len = 0 => received' = received
<1> DEFINE o == Start(p)
           b == Head(line).byte
<1>1. /\ Len(p) \in Nat \ {0} /\ \A i \in 1 .. Len(p) : p[i] \in Byte
      /\ o \in [0 .. Len(p) -> Nat] /\ o[0] = 1
      /\ Len(Frame(p)) = o[Len(p)] + 1 /\ Frame(p)[1] = END
  BY FrameShape DEF Shape
<1>2. \A j \in 0 .. Len(p) - 1 :
        /\ o[j + 1] = o[j] + Len(Escape(p[j + 1])) /\ o[j + 1] <= o[Len(p)]
        /\ \A i \in 1 .. Len(Escape(p[j + 1])) :
             Frame(p)[o[j] + i] = Escape(p[j + 1])[i]
  BY FrameShape DEF Shape
<1>3. END # ESC /\ ESC_END \notin {END, ESC} /\ ESC_ESC \notin {END, ESC}
  BY DEF END, ESC, ESC_END, ESC_ESC
<1> HIDE DEF o
<1>4. CASE k = 0
  <2>1. b = END
    BY <1>1, <1>4
  <2>2. PollEnd
    BY <1>3, <2>1 DEF slipdev_poll, PollEscape, PollData, PollOverlong
  <2>3. len' = 0 /\ lastc' = END /\ (len = 0 => received' = received)
    BY <2>2 DEF PollEnd
  <2>4. 0 \in 0 .. Len(p) /\ k + 1 = o[0]
    BY <1>1, <1>4
  <2>5. Within(p, k + 1)'
    BY <1>3, <2>3, <2>4 DEF Within, o
  <2>6. QED
    BY <1>4, <2>3, <2>5
<1>5. CASE Within(p, k)
  <2>1. PICK j \in 0 .. Len(p) :
          /\ len = j /\ \A i \in 0 .. j - 1 : slip_buf[i] = p[i + 1]
          /\ \/ k = o[j] /\ lastc # ESC
             \/ /\ j < Len(p) /\ Len(Escape(p[j + 1])) = 2
                /\ k = o[j] + 1 /\ lastc = ESC
    BY <1>5 DEF Within, o
  <2>2. j \in 0 .. Len(p) - 1 /\ j + 1 \in 1 .. Len(p) /\ j + 1 \in 0 .. Len(p) /\ j \in Nat
    BY <1>1, <2>1
  <2> DEFINE c == p[j + 1]
             e == Escape(c)
  <2>3. c \in Byte
    BY <1>1, <2>2
  <2>4. /\ o[j + 1] = o[j] + Len(e) /\ o[j] \in Nat
        /\ \A i \in 1 .. Len(e) : Frame(p)[o[j] + i] = e[i]
    BY <1>1, <1>2, <2>2
  <2>5. /\ c = END => Len(e) = 2 /\ e[1] = ESC /\ e[2] = ESC_END
        /\ c = ESC => Len(e) = 2 /\ e[1] = ESC /\ e[2] = ESC_ESC
        /\ c \notin {END, ESC} => Len(e) = 1 /\ e[1] = c
    BY <2>3, EscapeShape
  <2> HIDE DEF c, e
  <2>6. CASE k = o[j] /\ lastc # ESC /\ c \in {END, ESC}
    <3>1. b = ESC
      <4>1. Len(e) = 2 /\ e[1] = ESC
        BY <2>5, <2>6
      <4>2. 1 \in 1 .. Len(e) /\ k + 1 = o[j] + 1
        BY <2>6, <4>1
      <4>3. Frame(p)[k + 1] = e[1]
        BY <2>4, <4>2
      <4>4. QED
        BY <4>1, <4>3
    <3>2. PollEscape
      BY <1>3, <3>1 DEF slipdev_poll, PollEnd, PollData, PollOverlong
    <3>3. lastc' = ESC /\ slip_buf' = slip_buf /\ len' = len /\ received' = received
      BY <3>2 DEF PollEscape
    <3>4. Len(Escape(p[j + 1])) = 2 /\ j < Len(p) /\ k + 1 = o[j] + 1
      BY <1>1, <2>2, <2>5, <2>6 DEF c, e
    <3>5. Within(p, k + 1)'
      BY <2>1, <3>3, <3>4 DEF Within, o
    <3>6. QED
      BY <3>3, <3>5
  <2>7. ASSUME b \notin {END, ESC}, Unescape(b) = c, k + 1 = o[j + 1]
        PROVE  Within(p, k + 1)' /\ received' = received
    <3>1. /\ len' = j + 1 /\ \A i \in 0 .. j : slip_buf'[i] = p[i + 1]
          /\ lastc' = b /\ received' = received
      BY <2>1, <2>2, <2>7, StoreByte DEF c
    <3>2. \A i \in 0 .. (j + 1) - 1 : slip_buf'[i] = p[i + 1]
      BY <2>2, <3>1
    <3>3. lastc' # ESC
      BY <2>7, <3>1
    <3> HIDE DEF b
    <3>4. Within(p, k + 1)'
      BY <2>2, <2>7, <3>1, <3>2, <3>3 DEF Within, o
    <3>5. QED
      BY <3>1, <3>4
  <2>8. CASE k = o[j] /\ lastc # ESC /\ c \notin {END, ESC}
    <3>1. b = c /\ k + 1 = o[j + 1]
      <4>1. 1 \in 1 .. Len(e) /\ Len(e) = 1 /\ e[1] = c
        <5>1. Len(e) = 1 /\ e[1] = c
          BY <2>5, <2>8, Zenon
        <5>2. QED
          BY <5>1
      <4>2. Frame(p)[k + 1] = e[1]
        BY <2>4, <2>8, <4>1
      <4>3. QED
        BY <2>4, <2>8, <4>1, <4>2
    <3>2. Unescape(b) = c
      BY <2>8, <3>1 DEF Unescape
    <3>3. QED
      BY <2>7, <2>8, <3>1, <3>2
  <2>9. CASE Len(e) = 2 /\ k = o[j] + 1 /\ lastc = ESC
    <3>1. c \in {END, ESC} /\ b = e[2] /\ k + 1 = o[j + 1]
      <4>1. 2 \in 1 .. Len(e) /\ k + 1 = o[j] + 2
        BY <2>4, <2>9
      <4>2. QED
        BY <2>4, <2>5, <2>9, <4>1
    <3>2. b \notin {END, ESC} /\ Unescape(b) = c
      BY <1>3, <2>5, <2>9, <3>1 DEF Unescape, END, ESC, ESC_END, ESC_ESC
    <3>3. QED
      BY <2>7, <3>1, <3>2
  <2>10. (k = o[j] /\ lastc # ESC) \/ (Len(e) = 2 /\ k = o[j] + 1 /\ lastc = ESC)
    BY <2>1 DEF c, e
  <2>11. QED
    BY <2>6, <2>8, <2>9, <2>10
<1>6. QED
  BY <1>4, <1>5

(* The closing END, after all the others, returns the packet.              *)
LEMMA CloseFrame ==
  ASSUME TypeOK, NEW p \in Packets, NEW k \in Nat, k + 1 = Len(Frame(p)),
         Within(p, k), line # <<>>, Head(line).byte = Frame(p)[k + 1], slipdev_poll
  PROVE  received' = Append(received, p) /\ len' = 0
<1> DEFINE o == Start(p)
<1>1. /\ p \in Seq(Byte)
      /\ Len(p) \in Nat \ {0} /\ \A i \in 1 .. Len(p) : p[i] \in Byte
      /\ o \in [0 .. Len(p) -> Nat]
      /\ Len(Frame(p)) = o[Len(p)] + 1 /\ Frame(p)[o[Len(p)] + 1] = END
  BY FrameShape DEF Shape
<1>2. \A j \in 0 .. Len(p) - 1 :
        o[j + 1] = o[j] + Len(Escape(p[j + 1])) /\ o[j + 1] <= o[Len(p)]
  BY FrameShape DEF Shape
<1> HIDE DEF o
<1>3. k = o[Len(p)] /\ Head(line).byte = END
  BY <1>1
<1>4. PICK j \in 0 .. Len(p) :
        /\ len = j /\ \A i \in 0 .. j - 1 : slip_buf[i] = p[i + 1]
        /\ k = o[j] \/ (j < Len(p) /\ Len(Escape(p[j + 1])) = 2 /\ k = o[j] + 1)
  BY DEF Within, o
<1>5. j = Len(p)
  <2> SUFFICES ASSUME j \in 0 .. Len(p) - 1 PROVE FALSE
    BY <1>1, <1>4
  <2>1. j + 1 \in 1 .. Len(p) /\ j + 1 \in 0 .. Len(p) /\ j \in 0 .. Len(p)
    BY <1>1
  <2>2. p[j + 1] \in Byte
    BY <1>1, <2>1
  <2> DEFINE l == Len(Escape(p[j + 1]))
  <2>3. l \in {1, 2}
    BY <2>2, EscapeShape
  <2>4. /\ o[j + 1] = o[j] + l /\ o[j + 1] <= o[Len(p)] /\ o[j] \in Nat
        /\ k = o[j] \/ (l = 2 /\ k = o[j] + 1)
    BY <1>1, <1>2, <1>4, <2>1
  <2> HIDE DEF l
  <2>5. QED
    BY <1>3, <2>3, <2>4
<1>6. PollEnd
  BY <1>3 DEF slipdev_poll, PollEscape, PollData, PollOverlong, END, ESC
<1>7. /\ len' = 0
      /\ received' = Append(received, [i \in 1 .. Len(p) |-> slip_buf[i - 1]])
  BY <1>1, <1>4, <1>5, <1>6 DEF PollEnd
<1>8. [i \in 1 .. Len(p) |-> slip_buf[i - 1]] = p
  <2>1. \A i \in 1 .. Len(p) : slip_buf[i - 1] = p[i]
    <3> SUFFICES ASSUME NEW i \in 1 .. Len(p) PROVE slip_buf[i - 1] = p[i]
      OBVIOUS
    <3>1. i - 1 \in 0 .. j - 1 /\ (i - 1) + 1 = i
      BY <1>1, <1>5
    <3>2. QED
      BY <1>4, <3>1
  <2>2. p = [i \in 1 .. Len(p) |-> p[i]]
    BY <1>1
  <2>3. QED
    BY <2>1, <2>2
<1>9. QED
  BY <1>7, <1>8

-----------------------------------------------------------------------------
(* The invariant.  A byte of a frame that was not hit (d: those that were) *)
(* is the byte that was sent (s: the packets), and right behind the one    *)
(* before it.                                                              *)
Sound(b, s, d) == /\ b.frame \in 1 .. Len(s) /\ b.at \in 1 .. Len(Frame(s[b.frame]))
                  /\ b.frame \notin d => b.byte = Frame(s[b.frame])[b.at]
Behind(a, b, d) == b.frame \notin d /\ b.at > 1
                     => a.frame = b.frame /\ a.at = b.at - 1

GoodLine(l, s, d) == \A i \in 1 .. Len(l) :
                       /\ Sound(l[i], s, d)
                       /\ i > 1 => Behind(l[i - 1], l[i], d)

(* In the midst of such a frame the receiver has all that came of it.      *)
Reading == line # <<>> /\ Head(line).frame \notin damaged /\ Head(line).at > 1
             => Within(sent[Head(line).frame], Head(line).at - 1)

(* Where no byte is hit, the line holds the frames from the one that is    *)
(* being read to the last, whole, and those before it are received.        *)
Follows(a, b, s) == IF a.at < Len(Frame(s[a.frame]))
                    THEN b.frame = a.frame /\ b.at = a.at + 1
                    ELSE b.frame = a.frame + 1 /\ b.at = 1

WholeLine(l, s) ==
  /\ \A i \in 1 .. Len(l) - 1 : Follows(l[i], l[i + 1], s)
  /\ l # <<>> => /\ l[Len(l)].frame = Len(s)
                 /\ l[Len(l)].at = Len(Frame(s[Len(s)]))

Clean ==
  /\ damaged = {} /\ WholeLine(line, sent)
  /\ Len(received) = IF line = <<>> THEN Len(sent) ELSE Head(line).frame - 1
  /\ \A n \in 1 .. Len(received) : received[n] = sent[n]
  /\ line = <<>> \/ Head(line).at = 1 => len = 0

SlipInv == /\ TypeOK /\ damaged \subseteq 1 .. Len(sent)
           /\ GoodLine(line, sent, damaged) /\ Reading
           /\ faults = 0 => Clean

(* What the front of the line is.                                          *)
LEMMA FrontOfLine ==
  ASSUME SlipInv, line # <<>>
  PROVE  /\ Len(line) \in Nat \ {0} /\ Head(line) = line[1] /\ Head(line) \in Item
         /\ Tail(line) \in Seq(Item) /\ Len(Tail(line)) = Len(line) - 1
         /\ \A i \in 1 .. Len(line) - 1 : Tail(line)[i] = line[i + 1]
         /\ Sound(Head(line), sent, damaged) /\ Head(line).at \in Nat \ {0}
         /\ sent[Head(line).frame] \in Packets
<1>1. line \in Seq(Item) /\ sent \in Seq(Packets)
  BY DEF SlipInv, TypeOK
<1>2. Len(line) \in Nat \ {0} /\ Head(line) = line[1] /\ Head(line) \in Item
  BY <1>1
<1>3. /\ Tail(line) \in Seq(Item) /\ Len(Tail(line)) = Len(line) - 1
      /\ \A i \in 1 .. Len(line) - 1 : Tail(line)[i] = line[i + 1]
  BY <1>1, HeadTailProperties
<1>4. Sound(Head(line), sent, damaged)
  <2>1. 1 \in 1 .. Len(line)
    BY <1>2
  <2>2. QED
    BY <1>2, <2>1 DEF SlipInv, GoodLine
<1>5. Head(line).at \in Nat \ {0}
  BY <1>2 DEF Item
<1>6. sent[Head(line).frame] \in Packets
  BY <1>1, <1>4 DEF Sound
<1>7. QED
  BY <1>2, <1>3, <1>4, <1>5, <1>6

(* The front leaves the line: what comes to the front in its place.        *)
LEMMA TailKeeps ==
  ASSUME SlipInv, line # <<>>, NEW d, damaged \subseteq d
  PROVE  /\ GoodLine(Tail(line), sent, d)
         /\ Tail(line) # <<>> =>
              LET next == Head(Tail(line)) IN
              /\ Len(line) > 1 /\ next = line[2] /\ next \in Item
              /\ Sound(next, sent, damaged) /\ Behind(Head(line), next, damaged)
<1>1. /\ Len(line) \in Nat \ {0} /\ Head(line) = line[1]
      /\ Tail(line) \in Seq(Item) /\ Len(Tail(line)) = Len(line) - 1
      /\ \A i \in 1 .. Len(line) - 1 : Tail(line)[i] = line[i + 1]
  BY FrontOfLine
<1>2. ASSUME NEW i \in 1 .. Len(Tail(line))
      PROVE  /\ Sound(Tail(line)[i], sent, d)
             /\ i > 1 => Behind(Tail(line)[i - 1], Tail(line)[i], d)
  <2>1. i + 1 \in 1 .. Len(line) /\ i + 1 > 1 /\ (i + 1) - 1 = i /\ Tail(line)[i] = line[i + 1]
    BY <1>1
  <2>2. Sound(line[i + 1], sent, damaged) /\ Behind(line[i], line[i + 1], damaged)
    BY <2>1 DEF SlipInv, GoodLine
  <2>3. i > 1 => Tail(line)[i - 1] = line[i]
    BY <1>1
  <2>4. QED
    BY <2>1, <2>2, <2>3 DEF Sound, Behind
<1>3. ASSUME Tail(line) # <<>>
      PROVE  LET next == Head(Tail(line)) IN
             /\ Len(line) > 1 /\ next = line[2] /\ next \in Item
             /\ Sound(next, sent, damaged) /\ Behind(Head(line), next, damaged)
  <2>1. Len(Tail(line)) > 0 /\ Head(Tail(line)) = Tail(line)[1] /\ Head(Tail(line)) \in Item
    BY <1>1, <1>3
  <2>2. 1 \in 1 .. Len(line) - 1 /\ 2 \in 1 .. Len(line) /\ 2 > 1 /\ 2 - 1 = 1 /\ 1 + 1 = 2
    BY <1>1, <2>1
  <2>3. Head(Tail(line)) = line[2]
    BY <1>1, <2>1, <2>2
  <2>4. Sound(line[2], sent, damaged) /\ Behind(line[1], line[2], damaged)
    BY <2>2 DEF SlipInv, GoodLine
  <2>5. QED
    BY <1>1, <2>1, <2>2, <2>3, <2>4
<1>4. QED
  BY <1>2, <1>3 DEF GoodLine

(* A byte is lost or changed: its frame counts as hit.                     *)
LEMMA HitKeeps ==
  ASSUME SlipInv, Lose \/ Corrupt
  PROVE  SlipInv'
<1> DEFINE h == Head(line)
           d == damaged \cup {h.frame}
<1>1. /\ line # <<>> /\ faults' = faults + 1 /\ faults < MaxFaults
      /\ damaged' = d /\ sent' = sent /\ received' = received
      /\ slip_buf' = slip_buf /\ len' = len /\ lastc' = lastc /\ beyond' = beyond
  BY DEF Lose, Corrupt, Hit, recvVars
<1>2. Sound(h, sent, damaged) /\ h \in Item /\ Len(line) \in Nat \ {0} /\ h = line[1]
  BY <1>1, FrontOfLine
<1>3. d \subseteq 1 .. Len(sent) /\ d \subseteq 1 .. MaxFrames
  BY <1>2 DEF SlipInv, TypeOK, Sound, Item
<1>4. faults' \in 0 .. MaxFaults /\ faults' # 0
  BY <1>1, SlipAssumption DEF SlipInv, TypeOK
<1>5. ASSUME line' \in Seq(Item), GoodLine(line', sent, d), Reading' PROVE SlipInv'
  <2>1. TypeOK'
    BY <1>1, <1>3, <1>4, <1>5 DEF SlipInv, TypeOK
  <2>2. QED
    BY <1>1, <1>3, <1>4, <1>5, <2>1 DEF SlipInv
<1>6. CASE Lose
  <2>1. line' = Tail(line)
    BY <1>6 DEF Lose
  <2>2. GoodLine(line', sent, d) /\ line' \in Seq(Item)
    BY <1>1, <2>1, TailKeeps, FrontOfLine
  <2>3. Reading'
    <3> SUFFICES ASSUME line' # <<>>, Head(line').frame \notin d, Head(line').at > 1
                 PROVE  FALSE
      BY <1>1 DEF Reading
    <3>1. Behind(h, Head(line'), damaged)
      BY <1>1, <2>1, TailKeeps
    <3>2. QED
      BY <3>1 DEF Behind
  <2>4. QED
    BY <1>5, <2>2, <2>3
<1>7. CASE Corrupt
  <2>1. PICK b \in Byte : line' = [line EXCEPT ![1].byte = b]
    BY <1>7 DEF Corrupt
  <2>2. PICK g : g = [h EXCEPT !.byte = b]
    OBVIOUS
  <2>3. g \in Item /\ g.frame = h.frame /\ g.at = h.at
    BY <1>2, <2>2 DEF Item
  <2>4. line' = [line EXCEPT ![1] = g]
    BY <1>2, <2>1, <2>2
  <2>5. line \in Seq(Item) /\ 1 \in 1 .. Len(line)
    BY <1>2 DEF SlipInv, TypeOK
  <2>6. /\ line' \in Seq(Item) /\ Len(line') = Len(line)
        /\ \A i \in 1 .. Len(line) : line'[i] = IF i = 1 THEN g ELSE line[i]
    BY <2>3, <2>4, <2>5, ExceptSeq
  <2>7. ASSUME NEW i \in 1 .. Len(line)
        PROVE  /\ Sound(line'[i], sent, d)
               /\ i > 1 => Behind(line'[i - 1], line'[i], d)
    <3>1. Sound(line[i], sent, damaged) /\ (i > 1 => Behind(line[i - 1], line[i], damaged))
      BY DEF SlipInv, GoodLine
    <3>2. line'[i].frame = line[i].frame /\ line'[i].at = line[i].at
      BY <1>2, <2>3, <2>6
    <3>3. i > 1 => /\ i - 1 \in 1 .. Len(line) /\ line'[i - 1].frame = line[i - 1].frame
                   /\ line'[i - 1].at = line[i - 1].at /\ line'[i] = line[i]
      BY <1>2, <2>3, <2>6
    <3>4. i = 1 => line'[i].frame \in d
      BY <1>2, <3>2
    <3>5. i = 1 \/ i > 1
      BY <1>2
    <3>6. QED
      BY <3>1, <3>2, <3>3, <3>4, <3>5 DEF Sound, Behind
  <2>8. GoodLine(line', sent, d)
    BY <2>6, <2>7 DEF GoodLine
  <2>9. Head(line') = g
    BY <1>2, <2>5, <2>6
  <2>10. Reading'
    BY <1>1, <2>3, <2>9 DEF Reading
  <2>11. QED
    BY <1>5, <2>6, <2>8, <2>10
<1>8. QED
  BY <1>6, <1>7

(* A packet is sent: its frame comes behind all others.                    *)
LEMMA SendKeeps ==
  ASSUME SlipInv, NEW p \in Packets, slipdev_send(p)
  PROVE  SlipInv'
<1> DEFINE f == Frame(p)
           N == Len(sent) + 1
           g == [i \in 1 .. Len(f) |-> [byte |-> f[i], frame |-> N, at |-> i]]
<1>1. /\ f \in Seq(Byte) /\ Len(f) \in Nat /\ Len(f) > 1 /\ \A i \in 1 .. Len(f) : f[i] \in Byte
  <2>1. f \in Seq(Byte) /\ Len(f) = Start(p)[Len(p)] + 1
    BY FrameShape DEF Shape
  <2>2. PICK o \in [0 .. Len(p) -> Nat], n \in Nat \ {0} : n = Len(p) /\ o = Start(p)
    BY FrameShape DEF Shape
  <2>3. o[1] = o[0] + Len(Escape(p[1])) /\ o[1] <= o[n] /\ o[0] = 1
    <3>1. 0 \in 0 .. n - 1 /\ 0 + 1 = 1
      BY <2>2
    <3>2. QED
      BY <2>2, <3>1, FrameShape DEF Shape
  <2>4. Len(Escape(p[1])) \in Nat
    <3>1. p[1] \in Byte
      BY <2>2, FrameShape
    <3>2. QED
      BY <3>1, EscapeShape
  <2>5. o[n] \in Nat /\ o[n] >= 1
    BY <2>2, <2>3, <2>4
  <2> HIDE DEF f
  <2>6. Len(f) = o[n] + 1
    BY <2>1, <2>2
  <2>7. QED
    BY <2>1, <2>5, <2>6
<1>2. /\ line \in Seq(Item) /\ sent \in Seq(Packets) /\ Len(sent) \in Nat /\ Len(line) \in Nat
      /\ N \in 1 .. MaxFrames /\ damaged \subseteq 1 .. Len(sent)
  BY SlipAssumption DEF slipdev_send, SlipInv, TypeOK
<1>3. /\ sent' = Append(sent, p) /\ line' = line \o g
      /\ slip_buf' = slip_buf /\ len' = len /\ lastc' = lastc /\ received' = received
      /\ damaged' = damaged /\ faults' = faults /\ beyond' = beyond
  BY DEF slipdev_send, recvVars, lineVars
<1> HIDE DEF f
<1>4. /\ sent' \in Seq(Packets) /\ Len(sent') = N /\ sent'[N] = p
      /\ \A n \in 1 .. Len(sent) : sent'[n] = sent[n]
  BY <1>2, <1>3, AppendProperties
<1> HIDE DEF N
<1>5. \A i \in 1 .. Len(f) : [byte |-> f[i], frame |-> N, at |-> i] \in Item
  BY <1>1, <1>2 DEF Item
<1>6. /\ g \in Seq(Item) /\ Len(g) = Len(f)
      /\ \A i \in 1 .. Len(f) : g[i].byte = f[i] /\ g[i].frame = N /\ g[i].at = i
  <2>1. g \in Seq(Item)
    BY <1>1, <1>5, IsASeq
  <2>2. QED
    BY <1>1, <2>1
<1> HIDE DEF g
<1>7. /\ line' \in Seq(Item) /\ Len(line') = Len(line) + Len(f)
      /\ \A i \in 1 .. Len(line) : line'[i] = line[i]
      /\ \A i \in 1 .. Len(f) : line'[Len(line) + i] = g[i]
  <2>1. /\ line' \in Seq(Item) /\ Len(line') = Len(line) + Len(g)
        /\ \A i \in 1 .. Len(line) + Len(g) :
             line'[i] = IF i <= Len(line) THEN line[i] ELSE g[i - Len(line)]
    <3>1. line \in Seq(Item) /\ g \in Seq(Item)
      BY <1>2, <1>6
    <3>2. /\ line \o g \in Seq(Item) /\ Len(line \o g) = Len(line) + Len(g)
          /\ \A i \in 1 .. Len(line) + Len(g) :
               (line \o g)[i] = IF i <= Len(line) THEN line[i] ELSE g[i - Len(line)]
      BY <3>1, ConcatProperties
    <3>3. line' = line \o g
      BY <1>3
    <3>4. QED
      BY <3>2, <3>3
  <2>2. \A i \in 1 .. Len(f) : /\ Len(line) + i \in 1 .. Len(line) + Len(g)
                               /\ ~(Len(line) + i <= Len(line))
                               /\ (Len(line) + i) - Len(line) = i
    BY <1>1, <1>2, <1>6
  <2>3. \A i \in 1 .. Len(line) : i \in 1 .. Len(line) + Len(g) /\ i <= Len(line)
    BY <1>1, <1>2, <1>6
  <2>4. QED
    BY <1>6, <2>1, <2>2, <2>3
<1>8. ASSUME NEW i \in 1 .. Len(line)
      PROVE  line'[i] = line[i] /\ sent'[line[i].frame] = sent[line[i].frame]
             /\ Sound(line[i], sent, damaged)
             /\ (i > 1 => i - 1 \in 1 .. Len(line) /\ Behind(line[i - 1], line[i], damaged))
  <2>1. Sound(line[i], sent, damaged) /\ (i > 1 => Behind(line[i - 1], line[i], damaged))
    BY DEF SlipInv, GoodLine
  <2>2. line[i].frame \in 1 .. Len(sent)
    BY <2>1 DEF Sound
  <2>3. i > 1 => i - 1 \in 1 .. Len(line)
    BY <1>2
  <2>4. QED
    BY <1>4, <1>7, <2>1, <2>2, <2>3
<1>9. ASSUME NEW i \in 1 .. Len(line')
      PROVE  /\ Sound(line'[i], sent', damaged)
             /\ i > 1 => Behind(line'[i - 1], line'[i], damaged)
  <2>1. CASE i \in 1 .. Len(line)
    <3>1. line'[i].frame \in 1 .. Len(sent')
      <4>1. line[i].frame \in 1 .. Len(sent)
        BY <1>8, <2>1 DEF Sound
      <4>2. QED
        BY <1>2, <1>4, <1>8, <2>1, <4>1 DEF N
    <3>2. Sound(line'[i], sent', damaged)
      <4>1. Frame(sent'[line'[i].frame]) = Frame(sent[line[i].frame]) /\ line'[i] = line[i]
        BY <1>8, <2>1
      <4>2. /\ line[i].at \in 1 .. Len(Frame(sent[line[i].frame]))
            /\ line[i].frame \notin damaged
                 => line[i].byte = Frame(sent[line[i].frame])[line[i].at]
        BY <1>8, <2>1 DEF Sound
      <4>3. QED
        BY <3>1, <4>1, <4>2 DEF Sound
    <3>3. i > 1 => Behind(line'[i - 1], line'[i], damaged)
      BY <1>8, <2>1
    <3>4. QED
      BY <3>2, <3>3
  <2>2. CASE i \notin 1 .. Len(line)
    <3>1. PICK k \in 1 .. Len(f) : i = Len(line) + k
      <4>1. i - Len(line) \in 1 .. Len(f) /\ i = Len(line) + (i - Len(line))
        BY <1>1, <1>2, <1>7, <2>2
      <4>2. QED
        BY <4>1
    <3>2. line'[i].byte = f[k] /\ line'[i].frame = N /\ line'[i].at = k
      BY <1>6, <1>7, <3>1
    <3>3. Sound(line'[i], sent', damaged)
      <4>1. Frame(sent'[line'[i].frame]) = f
        BY <1>4, <3>2 DEF f
      <4>2. line'[i].frame \in 1 .. Len(sent')
        BY <1>2, <1>4, <3>2
      <4>3. QED
        BY <3>2, <4>1, <4>2 DEF Sound
    <3>4. k > 1 => line'[i - 1].frame = N /\ line'[i - 1].at = k - 1
      <4> SUFFICES ASSUME k > 1
                   PROVE  line'[i - 1].frame = N /\ line'[i - 1].at = k - 1
        OBVIOUS
      <4>1. PICK m \in 1 .. Len(f) : m = k - 1 /\ i - 1 = Len(line) + m
        <5>1. k - 1 \in 1 .. Len(f) /\ i - 1 = Len(line) + (k - 1)
          BY <1>1, <1>2, <3>1
        <5>2. QED
          BY <5>1
      <4>2. line'[i - 1] = g[m]
        BY <1>7, <4>1
      <4>3. QED
        BY <1>6, <4>1, <4>2
    <3>5. QED
      BY <3>2, <3>3, <3>4 DEF Behind
  <2>3. QED
    BY <2>1, <2>2
<1>10. GoodLine(line', sent', damaged')
  BY <1>3, <1>9 DEF GoodLine
<1>11. /\ line' # <<>>
       /\ line # <<>> => Head(line') = Head(line)
       /\ line = <<>> => Head(line') = g[1]
  <2>1. Len(line') > 0 /\ Head(line') = line'[1]
    BY <1>1, <1>2, <1>7
  <2>2. line # <<>> => 1 \in 1 .. Len(line) /\ Head(line) = line[1]
    BY <1>2
  <2>3. line = <<>> => Len(line) = 0
    OBVIOUS
  <2>4. 1 \in 1 .. Len(f) /\ 0 + 1 = 1
    BY <1>1
  <2>5. line = <<>> => line'[1] = g[1]
    BY <1>7, <2>3, <2>4
  <2>6. line' # <<>>
    BY <2>1
  <2>7. QED
    BY <1>7, <2>1, <2>2, <2>5, <2>6
<1>12. g[1].frame = N /\ g[1].at = 1
  BY <1>1, <1>6
<1>13. Reading'
  <2>1. CASE line = <<>>
    BY <1>11, <1>12, <2>1 DEF Reading
  <2>2. CASE line # <<>>
    <3>1. Head(line') = Head(line) /\ sent'[Head(line).frame] = sent[Head(line).frame]
      <4>1. Head(line).frame \in 1 .. Len(sent)
        BY <2>2, FrontOfLine DEF Sound
      <4>2. QED
        BY <1>4, <1>11, <2>2, <4>1
    <3>2. PICK q, k : q = sent[Head(line).frame] /\ k = Head(line).at - 1
      OBVIOUS
    <3>3. Head(line).frame \notin damaged /\ Head(line).at > 1 => Within(q, k)'
      BY <1>3, <2>2, <3>2 DEF SlipInv, Reading, Within
    <3>4. QED
      BY <1>3, <3>1, <3>2, <3>3 DEF Reading, Within
  <2>3. QED
    BY <2>1, <2>2
<1>14. ASSUME faults = 0 PROVE Clean'
  <2>1. Clean
    BY <1>14 DEF SlipInv
  <2>2. WholeLine(line', sent')
    <3>1. ASSUME NEW i \in 1 .. Len(line') - 1 PROVE Follows(line'[i], line'[i + 1], sent')
      <4>1. CASE i \in 1 .. Len(line) - 1
        <5>1. i \in 1 .. Len(line) /\ i + 1 \in 1 .. Len(line)
          BY <1>2, <4>1
        <5>2. Follows(line[i], line[i + 1], sent)
          BY <2>1, <4>1 DEF Clean, WholeLine
        <5>3. QED
          BY <1>8, <5>1, <5>2 DEF Follows
      <4>2. CASE i = Len(line)
        <5>1. i \in 1 .. Len(line) /\ line # <<>>
          BY <1>2, <4>2
        <5>2. line[i].frame = Len(sent) /\ line[i].at = Len(Frame(sent[Len(sent)]))
          BY <2>1, <4>2, <5>1 DEF Clean, WholeLine
        <5>3. line'[i] = line[i] /\ sent'[line[i].frame] = sent[line[i].frame]
          BY <1>8, <5>1
        <5>4. line'[i + 1].frame = N /\ line'[i + 1].at = 1
          <6>1. 1 \in 1 .. Len(f)
            BY <1>1
          <6>2. QED
            BY <1>7, <1>12, <4>2, <6>1
        <5>5. line[i].at \in Nat
          <6>1. line[i] \in Item
            BY <1>2, <5>1, ElementOfSeq
          <6>2. QED
            BY <6>1 DEF Item
        <5>6. ~(line'[i].at < Len(Frame(sent'[line'[i].frame])))
          BY <5>2, <5>3, <5>5
        <5>7. QED
          BY <5>2, <5>3, <5>4, <5>6 DEF Follows, N
      <4>3. CASE i > Len(line)
        <5>1. PICK k \in 1 .. Len(f) : i = Len(line) + k /\ k + 1 \in 1 .. Len(f)
          <6>1. /\ i - Len(line) \in 1 .. Len(f) /\ i = Len(line) + (i - Len(line))
                /\ (i - Len(line)) + 1 \in 1 .. Len(f)
            BY <1>1, <1>2, <1>7, <4>3
          <6>2. QED
            BY <6>1
        <5>2. line'[i].frame = N /\ line'[i].at = k
          BY <1>6, <1>7, <5>1
        <5>3. line'[i + 1].frame = N /\ line'[i + 1].at = k + 1
          <6>1. i + 1 = Len(line) + (k + 1)
            BY <1>2, <5>1
          <6>2. QED
            BY <1>6, <1>7, <5>1, <6>1
        <5>4. Frame(sent'[line'[i].frame]) = f /\ k < Len(f)
          BY <1>1, <1>4, <5>1, <5>2 DEF f
        <5>5. QED
          BY <5>2, <5>3, <5>4 DEF Follows
      <4>4. QED
        BY <1>1, <1>2, <1>7, <4>1, <4>2, <4>3
    <3>2. line'[Len(line')].frame = Len(sent') /\ line'[Len(line')].at = Len(Frame(sent'[Len(sent')]))
      <4>1. Len(f) \in 1 .. Len(f)
        BY <1>1
      <4>2. line'[Len(line')].frame = N /\ line'[Len(line')].at = Len(f)
        BY <1>6, <1>7, <4>1
      <4>3. QED
        BY <1>4, <4>2 DEF f
    <3>3. QED
      BY <3>1, <3>2 DEF WholeLine
  <2>3. Len(received) <= Len(sent) /\ Len(received) \in Nat
    <3>1. CASE line = <<>>
      BY <1>2, <2>1, <3>1 DEF Clean
    <3>2. CASE line # <<>>
      <4>1. Head(line).frame \in 1 .. Len(sent)
        BY <3>2, FrontOfLine DEF Sound
      <4>2. QED
        BY <1>2, <2>1, <3>2, <4>1 DEF Clean
    <3>3. QED
      BY <3>1, <3>2
  <2>4. \A n \in 1 .. Len(received') : received'[n] = sent'[n]
    <3>1. \A n \in 1 .. Len(received) : n \in 1 .. Len(sent)
      BY <1>2, <2>3
    <3>2. QED
      BY <1>3, <1>4, <2>1, <3>1 DEF Clean
  <2>5. Len(received') = Head(line').frame - 1
    <3>1. CASE line = <<>>
      BY <1>2, <1>3, <1>11, <1>12, <2>1, <3>1 DEF Clean, N
    <3>2. CASE line # <<>>
      BY <1>3, <1>11, <2>1, <3>2 DEF Clean
    <3>3. QED
      BY <3>1, <3>2
  <2>6. line' = <<>> \/ Head(line').at = 1 => len' = 0
    BY <1>3, <1>11, <2>1 DEF Clean
  <2>7. QED
    BY <1>3, <1>11, <2>1, <2>2, <2>4, <2>5, <2>6 DEF Clean
<1>15. TypeOK'
  BY <1>3, <1>4, <1>7 DEF SlipInv, TypeOK
<1>16. damaged' \subseteq 1 .. Len(sent')
  BY <1>2, <1>3, <1>4 DEF N
<1>17. QED
  BY <1>3, <1>10, <1>13, <1>14, <1>15, <1>16 DEF SlipInv

(* What a turn of the loop of slipdev_poll leaves alone.                   *)
LEMMA PollFrame ==
  ASSUME SlipInv, slipdev_poll
  PROVE  /\ line # <<>> /\ line' = Tail(line)
         /\ sent' = sent /\ damaged' = damaged /\ faults' = faults
         /\ TypeOK'
<1>1. /\ line # <<>> /\ line' = Tail(line)
      /\ sent' = sent /\ damaged' = damaged /\ faults' = faults
  BY DEF slipdev_poll, PollEscape, PollEnd, PollData, PollOverlong, lineVars
<1> DEFINE b == Head(line).byte
<1>2. b \in Byte /\ Tail(line) \in Seq(Item) /\ {END, ESC} \subseteq Byte
  BY <1>1, FrontOfLine DEF Item, Byte
<1>3. /\ slip_buf \in [Index -> Byte] /\ len \in 0 .. UIP_BUFSIZE /\ lastc \in Byte
      /\ received \in Seq(Seq(Byte)) /\ beyond \in BOOLEAN /\ UIP_BUFSIZE \in Nat \ {0}
  BY SlipAssumption DEF SlipInv, TypeOK
<1>4. Unescape(b) \in Byte
  BY <1>2 DEF Unescape, Byte
<1>5. \A l \in 0 .. UIP_BUFSIZE : NextLen(l) \in 0 .. UIP_BUFSIZE
  BY <1>3 DEF NextLen
<1>6. ASSUME slip_buf' \in [Index -> Byte], len' \in 0 .. UIP_BUFSIZE, lastc' \in Byte,
             received' \in Seq(Seq(Byte)), beyond' \in BOOLEAN
      PROVE  TypeOK'
  BY <1>1, <1>2, <1>6 DEF SlipInv, TypeOK
<1>7. ASSUME PollEscape PROVE TypeOK'
  <2>1. /\ lastc' = ESC /\ slip_buf' = slip_buf /\ len' = len
        /\ received' = received /\ beyond' = beyond
    BY <1>7 DEF PollEscape
  <2>2. QED
    BY <1>2, <1>3, <1>6, <2>1
<1>8. ASSUME PollEnd PROVE TypeOK'
  <2> DEFINE r == [i \in 1 .. len |-> slip_buf[i - 1]]
  <2>1. \A i \in 1 .. len : i - 1 \in Index
    BY <1>3 DEF Index
  <2>2. len \in Nat /\ \A i \in 1 .. len : slip_buf[i - 1] \in Byte
    BY <1>3, <2>1
  <2>3. r \in Seq(Byte)
    BY <2>2, IsASeq
  <2>4. received' \in Seq(Seq(Byte))
    <3> HIDE DEF r
    <3>1. Append(received, r) \in Seq(Seq(Byte))
      BY <1>3, <2>3, AppendProperties
    <3>2. received' = received \/ received' = Append(received, r)
      BY <1>8 DEF PollEnd, r
    <3>3. QED
      BY <1>3, <3>1, <3>2
  <2>5. len' = 0 /\ lastc' = END /\ slip_buf' = slip_buf /\ beyond' = beyond
    BY <1>8 DEF PollEnd
  <2>6. QED
    BY <1>2, <1>3, <1>6, <2>4, <2>5
<1>9. ASSUME PollData PROVE TypeOK'
  <2>1. /\ slip_buf' = [slip_buf EXCEPT ![len] = Unescape(b)] /\ len' = NextLen(len)
        /\ lastc' = b /\ received' = received /\ beyond' = beyond
    BY <1>9 DEF PollData
  <2> HIDE DEF b
  <2>2. slip_buf' \in [Index -> Byte] /\ len' \in 0 .. UIP_BUFSIZE
    BY <1>3, <1>4, <1>5, <2>1
  <2>3. QED
    BY <1>2, <1>3, <1>6, <2>1, <2>2
<1>10. ASSUME PollOverlong PROVE TypeOK'
  <2>1. /\ slip_buf' = slip_buf /\ received' = received /\ beyond' = TRUE
        /\ lastc' \in {b, Unescape(b)} /\ \E l \in 0 .. UIP_BUFSIZE : len' = NextLen(l)
    BY <1>3, <1>10 DEF PollOverlong
  <2> HIDE DEF b
  <2>2. QED
    BY <1>2, <1>3, <1>4, <1>5, <1>6, <2>1
<1>11. QED
  BY <1>1, <1>7, <1>8, <1>9, <1>10 DEF slipdev_poll

(* The front of the line, if its frame was not hit, is read as it is meant.*)
LEMMA FrontRead ==
  ASSUME SlipInv, Fits, slipdev_poll, Head(line).frame \notin damaged,
         NEW p, p = sent[Head(line).frame], NEW k, k = Head(line).at
  PROVE  /\ p \in Packets /\ k \in 1 .. Len(Frame(p)) /\ Len(Frame(p)) \in Nat
         /\ k < Len(Frame(p)) => /\ Within(p, k)'
                                 /\ k > 1 \/ len = 0 => received' = received
         /\ k = Len(Frame(p)) => received' = Append(received, p) /\ len' = 0
<1>1. line # <<>> /\ TypeOK
  BY PollFrame DEF SlipInv
<1>2. p \in Packets /\ k \in Nat \ {0} /\ Sound(Head(line), sent, damaged)
  BY <1>1, FrontOfLine
<1>3. Frame(p) \in Seq(Byte) /\ Len(Frame(p)) \in Nat
  <2>1. Frame(p) \in Seq(Byte)
    BY <1>2, FrameShape DEF Shape
  <2>2. QED
    BY <2>1, LenProperties
<1>4. k \in 1 .. Len(Frame(p)) /\ Head(line).byte = Frame(p)[k]
  BY <1>2 DEF Sound
<1>5. PICK m \in Nat : k = m + 1
  <2>1. k - 1 \in Nat /\ k = (k - 1) + 1
    BY <1>2
  <2>2. QED
    BY <2>1
<1>6. m = 0 \/ Within(p, m)
  <2>1. CASE k > 1
    <3>1. Within(p, k - 1)
      BY <1>1, <2>1 DEF SlipInv, Reading
    <3>2. k - 1 = m
      BY <1>2, <1>5
    <3>3. QED
      BY <3>1, <3>2
  <2>2. CASE ~(k > 1)
    BY <1>2, <1>5, <2>2
  <2>3. QED
    BY <2>1, <2>2
<1>7. ASSUME k < Len(Frame(p))
      PROVE  Within(p, k)' /\ (k > 1 \/ len = 0 => received' = received)
  <2>1. m + 1 < Len(Frame(p)) /\ Head(line).byte = Frame(p)[m + 1]
    BY <1>4, <1>5, <1>7
  <2>2. Within(p, m + 1)' /\ (m # 0 \/ len = 0 => received' = received)
    BY <1>1, <1>2, <1>6, <2>1, ReadByte
  <2>3. k > 1 => m # 0
    BY <1>5
  <2>4. QED
    BY <1>5, <2>2, <2>3
<1>8. ASSUME k = Len(Frame(p))
      PROVE  received' = Append(received, p) /\ len' = 0
  <2>1. m + 1 = Len(Frame(p)) /\ Head(line).byte = Frame(p)[m + 1]
    BY <1>4, <1>5, <1>8
  <2>2. Len(Frame(p)) > 1
    <3>1. PICK o \in [0 .. Len(p) -> Nat], n \in Nat \ {0} : n = Len(p) /\ o = Start(p)
      BY <1>2, FrameShape DEF Shape
    <3>2. o[1] = o[0] + Len(Escape(p[1])) /\ o[1] <= o[n] /\ o[0] = 1
      <4>1. 0 \in 0 .. n - 1 /\ 0 + 1 = 1
        BY <3>1
      <4>2. QED
        BY <1>2, <3>1, <4>1, FrameShape DEF Shape
    <3>3. Len(Escape(p[1])) \in Nat
      <4>1. p[1] \in Byte
        BY <1>2, <3>1, FrameShape
      <4>2. QED
        BY <4>1, EscapeShape
    <3>4. o[n] \in Nat /\ o[n] >= 1
      BY <3>1, <3>2, <3>3
    <3>5. Len(Frame(p)) = o[n] + 1
      BY <1>2, <3>1, FrameShape DEF Shape
    <3>6. QED
      BY <3>4, <3>5
  <2>3. Within(p, m)
    BY <1>5, <1>6, <1>8, <2>2
  <2>4. QED
    BY <1>1, <1>2, <2>1, <2>3, CloseFrame
<1>9. QED
  BY <1>2, <1>3, <1>4, <1>7, <1>8

(* A byte is read.                                                         *)
LEMMA PollKeeps ==
  ASSUME SlipInv, Fits, slipdev_poll
  PROVE  SlipInv'
<1> DEFINE h == Head(line)
<1>1. /\ line # <<>> /\ line' = Tail(line)
      /\ sent' = sent /\ damaged' = damaged /\ faults' = faults
      /\ TypeOK'
  BY PollFrame
<1>2. PICK p, k : p = sent[h.frame] /\ k = h.at
  OBVIOUS
<1>3. h.frame \notin damaged =>
        /\ p \in Packets /\ k \in 1 .. Len(Frame(p)) /\ Len(Frame(p)) \in Nat
        /\ k < Len(Frame(p)) => /\ Within(p, k)'
                                /\ k > 1 \/ len = 0 => received' = received
        /\ k = Len(Frame(p)) => received' = Append(received, p) /\ len' = 0
  BY <1>2, FrontRead
<1>4. GoodLine(line', sent', damaged')
  BY <1>1, TailKeeps
<1>5. line' # <<>> =>
        /\ Len(line) > 1 /\ Head(line') = line[2] /\ Head(line') \in Item
        /\ Sound(Head(line'), sent, damaged) /\ Behind(h, Head(line'), damaged)
  BY <1>1, TailKeeps
<1>6. /\ Len(line) \in Nat \ {0} /\ h = line[1] /\ h.at \in Nat \ {0} /\ h.frame \in Nat
      /\ Len(line') = Len(line) - 1
      /\ \A i \in 1 .. Len(line) - 1 : line'[i] = line[i + 1]
      /\ h.frame \in 1 .. Len(sent) /\ Len(sent) \in Nat /\ sent \in Seq(Packets)
  <2>1. line \in Seq(Item) /\ sent \in Seq(Packets)
    BY DEF SlipInv, TypeOK
  <2>2. /\ Len(line) \in Nat \ {0} /\ h = line[1]
        /\ Len(Tail(line)) = Len(line) - 1
        /\ \A i \in 1 .. Len(line) - 1 : Tail(line)[i] = line[i + 1]
    BY <1>1, <2>1
  <2>3. Len(sent) \in Nat
    BY <2>1
  <2>4. h \in Item /\ Sound(h, sent, damaged)
    BY <1>1, FrontOfLine
  <2>5. h.at \in Nat \ {0} /\ h.frame \in 1 .. Len(sent)
    BY <2>4 DEF Sound, Item
  <2>6. h.frame \in Nat
    BY <2>3, <2>5
  <2>7. QED
    BY <1>1, <2>1, <2>2, <2>3, <2>5, <2>6
<1>7. Reading'
  <2>1. CASE line' = <<>>
    BY <2>1 DEF Reading
  <2>2. CASE line' # <<>>
    <3>1. PICK b : b = Head(line')
      OBVIOUS
    <3>2. ASSUME b.frame \notin damaged, b.at > 1
          PROVE  Within(sent[b.frame], b.at - 1)'
      <4>1. h.frame = b.frame /\ h.at = b.at - 1
        BY <1>5, <2>2, <3>1, <3>2 DEF Behind
      <4>2. b.at <= Len(Frame(sent[b.frame])) /\ b.at \in Nat
        BY <1>5, <2>2, <3>1 DEF Sound, Item
      <4>3. k < Len(Frame(p)) /\ k = b.at - 1
        BY <1>2, <1>3, <3>2, <4>1, <4>2
      <4>4. Within(p, k)'
        BY <1>3, <3>2, <4>1, <4>3
      <4>5. sent'[b.frame] = p
        BY <1>1, <1>2, <4>1
      <4>6. QED
        BY <4>3, <4>4, <4>5 DEF Within
    <3>3. QED
      BY <1>1, <3>1, <3>2 DEF Reading
  <2>3. QED
    BY <2>1, <2>2
<1>8. ASSUME faults = 0 PROVE Clean'
  <2>1. Clean
    BY <1>8 DEF SlipInv
  <2>2. h.frame \notin damaged
    BY <2>1 DEF Clean
  <2>3. WholeLine(line', sent)
    <3>1. ASSUME NEW i \in 1 .. Len(line') - 1 PROVE Follows(line'[i], line'[i + 1], sent)
      <4>1. /\ i \in 1 .. Len(line) - 1 /\ i + 1 \in 1 .. Len(line) - 1
        BY <1>6
      <4>2. Follows(line[i + 1], line[(i + 1) + 1], sent)
        BY <2>1, <4>1 DEF Clean, WholeLine
      <4>3. QED
        BY <1>6, <4>1, <4>2
    <3>2. ASSUME line' # <<>>
          PROVE  /\ line'[Len(line')].frame = Len(sent)
                 /\ line'[Len(line')].at = Len(Frame(sent[Len(sent)]))
      <4>1. Len(line) - 1 \in 1 .. Len(line) - 1 /\ (Len(line) - 1) + 1 = Len(line)
        BY <1>5, <1>6, <3>2
      <4>2. line'[Len(line')] = line[Len(line)]
        BY <1>6, <4>1
      <4>3. QED
        BY <1>1, <2>1, <4>2 DEF Clean, WholeLine
    <3>3. QED
      BY <3>1, <3>2 DEF WholeLine
  <2>4. ASSUME line' # <<>> PROVE Follows(h, Head(line'), sent)
    <3>1. 1 \in 1 .. Len(line) - 1 /\ 1 + 1 = 2
      BY <1>5, <1>6, <2>4
    <3>2. Follows(line[1], line[2], sent)
      BY <2>1, <3>1 DEF Clean, WholeLine
    <3>3. QED
      BY <1>5, <1>6, <2>4, <3>2
  <2>5. ASSUME line' = <<>> PROVE h.frame = Len(sent) /\ k = Len(Frame(p))
    <3>1. Len(line') = 0
      BY <2>5
    <3>2. Len(line) = 1
      BY <1>6, <3>1
    <3>3. QED
      BY <1>1, <1>2, <1>6, <2>1, <3>2 DEF Clean, WholeLine
  <2>6. /\ Len(received) = h.frame - 1 /\ \A n \in 1 .. Len(received) : received[n] = sent[n]
        /\ k = 1 => len = 0
    BY <1>1, <1>2, <2>1 DEF Clean
  <2>7. p \in Packets /\ k \in 1 .. Len(Frame(p)) /\ Len(Frame(p)) \in Nat
    BY <1>3, <2>2
  <2>8. CASE k < Len(Frame(p))
    <3>1. received' = received
      BY <1>2, <1>3, <1>6, <2>2, <2>6, <2>8
    <3>2. line' # <<>>
      BY <2>5, <2>7, <2>8
    <3>3. Head(line').frame = h.frame /\ Head(line').at = k + 1
      BY <1>2, <2>4, <2>8, <3>2 DEF Follows
    <3>4. Head(line').at # 1
      BY <2>7, <3>3
    <3>5. QED
      BY <1>1, <2>1, <2>3, <2>6, <3>1, <3>2, <3>3, <3>4 DEF Clean
  <2>9. CASE k = Len(Frame(p))
    <3>1. received' = Append(received, p) /\ len' = 0
      BY <1>3, <2>2, <2>9
    <3>2. received \in Seq(Seq(Byte)) /\ p \in Seq(Byte)
      BY <2>7, SlipAssumption DEF SlipInv, TypeOK
    <3>3. /\ Len(received') = Len(received) + 1
          /\ \A n \in 1 .. Len(received) : received'[n] = received[n]
          /\ received'[Len(received) + 1] = p
      BY <3>1, <3>2, AppendProperties
    <3>4. Len(received') = h.frame /\ Len(received) \in Nat
      BY <1>6, <2>6, <3>3
    <3>5. ASSUME NEW n \in 1 .. Len(received') PROVE received'[n] = sent[n]
      <4>1. CASE n = h.frame
        BY <1>2, <1>6, <2>6, <3>3, <4>1
      <4>2. CASE n # h.frame
        <5>1. n \in 1 .. Len(received)
          BY <1>6, <2>6, <3>4, <4>2
        <5>2. QED
          BY <2>6, <3>3, <5>1
      <4>3. QED
        BY <4>1, <4>2
    <3>6. line' # <<>> => Head(line').frame = h.frame + 1
      BY <1>2, <2>4, <2>7, <2>9 DEF Follows
    <3>7. Len(received') = IF line' = <<>> THEN Len(sent) ELSE Head(line').frame - 1
      BY <1>6, <2>5, <3>4, <3>6
    <3>8. QED
      BY <1>1, <2>1, <2>3, <3>1, <3>5, <3>7 DEF Clean
  <2>10. QED
    BY <2>7, <2>8, <2>9
<1>9. QED
  BY <1>1, <1>4, <1>7, <1>8 DEF SlipInv

-----------------------------------------------------------------------------
LEMMA SlipInitial ==
  ASSUME slipdev_init
  PROVE  SlipInv
<1>1. PICK zero \in Data : slip_buf = [i \in Index |-> zero] /\ lastc = zero
  BY DEF slipdev_init
<1>2. zero \in Byte /\ 0 \in 0 .. UIP_BUFSIZE /\ 0 \in 0 .. MaxFaults
  BY SlipAssumption DEF Byte
<1>3. /\ len = 0 /\ line = <<>> /\ sent = <<>> /\ damaged = {} /\ received = <<>>
      /\ faults = 0 /\ beyond = FALSE
  BY DEF slipdev_init
<1>4. TypeOK
  <2>1. slip_buf \in [Index -> Byte] /\ lastc \in Byte
    BY <1>1, <1>2
  <2>2. line \in Seq(Item) /\ sent \in Seq(Packets) /\ received \in Seq(Seq(Byte))
    BY <1>3
  <2>3. damaged \subseteq 1 .. MaxFrames /\ beyond \in BOOLEAN
    BY <1>3
  <2>4. QED
    BY <1>2, <1>3, <2>1, <2>2, <2>3 DEF TypeOK
<1>5. GoodLine(line, sent, damaged) /\ Reading /\ WholeLine(line, sent)
  BY <1>3 DEF GoodLine, Reading, WholeLine
<1>6. QED
  BY <1>3, <1>4, <1>5 DEF SlipInv, Clean

LEMMA SlipStep ==
  ASSUME SlipInv, Fits, [Next]_vars
  PROVE  SlipInv'
<1>1. CASE UNCHANGED vars
  <2>1. /\ slip_buf' = slip_buf /\ len' = len /\ lastc' = lastc /\ line' = line
        /\ sent' = sent /\ damaged' = damaged /\ faults' = faults
        /\ received' = received /\ beyond' = beyond
    BY <1>1 DEF vars, recvVars, lineVars
  <2>2. TypeOK' /\ Reading' /\ (faults' = 0 => Clean')
    BY <2>1 DEF SlipInv, TypeOK, Reading, Within, Clean
  <2>3. QED
    BY <2>1, <2>2 DEF SlipInv
<1>2. ASSUME NEW p \in Packets, slipdev_send(p) PROVE SlipInv'
  BY <1>2, SendKeeps
<1>3. CASE Lose \/ Corrupt
  BY <1>3, HitKeeps
<1>4. CASE slipdev_poll
  BY <1>4, PollKeeps
<1>5. QED
  BY <1>1, <1>2, <1>3, <1>4 DEF Next

LEMMA SlipAlways == ASSUME Fits PROVE Spec => []SlipInv
<1>1. slipdev_init => SlipInv
  BY SlipInitial
<1>2. SlipInv /\ [Next]_vars => SlipInv'
  BY SlipStep
<1>3. QED
  BY <1>1, <1>2, PTL DEF Spec

(* PacketsInOrder: over a line that hits no byte slipdev_poll returns what *)
(* was sent, whole and in order, for every size of the buffer and all      *)
(* packets that fit in it.                                                 *)
THEOREM CleanLine == ASSUME Fits PROVE Spec => []PacketsInOrder
<1>1. SlipInv => PacketsInOrder
  <2> SUFFICES ASSUME SlipInv, faults = 0 PROVE IsPrefix(received, sent)
    BY DEF PacketsInOrder
  <2>1. Clean /\ sent \in Seq(Packets) /\ received \in Seq(Seq(Byte)) /\ Len(sent) \in Nat
        /\ Len(received) \in Nat
    BY DEF SlipInv, TypeOK
  <2>2. Len(received) <= Len(sent)
    <3>1. CASE line = <<>>
      BY <2>1, <3>1 DEF Clean
    <3>2. CASE line # <<>>
      <4>1. Head(line).frame \in 1 .. Len(sent)
        BY <3>2, FrontOfLine DEF Sound
      <4>2. QED
        BY <2>1, <3>2, <4>1 DEF Clean
    <3>3. QED
      BY <3>1, <3>2
  <2>3. \A n \in 1 .. Len(received) : received[n] = sent[n]
    BY <2>1 DEF Clean
  <2>4. SubSeq(received, 1, Len(received)) = SubSeq(sent, 1, Len(received))
    BY <2>1, <2>2, <2>3
  <2>5. QED
    BY <2>2, <2>4 DEF IsPrefix
<1>2. QED
  BY <1>1, SlipAlways, PTL

(* IntactFrameArrives: a frame that the line left whole is returned when   *)
(* its closing END is read, after whatever damage to the frames before it. *)
THEOREM IntactFrame == ASSUME Fits PROVE Spec => IntactFrameArrives
<1> DEFINE Arrives ==
      \A p \in Packets :
        LET front == Head(line)
        IN  /\ line # <<>> /\ front.frame \notin damaged
            /\ sent[front.frame] = p /\ front.at = Len(Frame(p))
            /\ line' = Tail(line) /\ faults' = faults
            => received' = Append(received, p)
<1>1. SlipInv /\ [Next]_vars => [Arrives]_vars
  <2> SUFFICES ASSUME SlipInv, Next, NEW p \in Packets, line # <<>>,
                      Head(line).frame \notin damaged, sent[Head(line).frame] = p,
                      Head(line).at = Len(Frame(p)), line' = Tail(line), faults' = faults
               PROVE  received' = Append(received, p)
    OBVIOUS
  <2>1. ASSUME Lose \/ Corrupt PROVE FALSE
    <3>1. faults' = faults + 1 /\ faults \in Nat
      BY <2>1, SlipAssumption DEF Lose, Corrupt, Hit, SlipInv, TypeOK
    <3>2. QED
      BY <3>1
  <2>2. ASSUME NEW q \in Packets, slipdev_send(q) PROVE FALSE
    <3>1. /\ line' = line \o [i \in 1 .. Len(Frame(q)) |->
                [byte |-> Frame(q)[i], frame |-> Len(sent) + 1, at |-> i]]
      BY <2>2 DEF slipdev_send
    <3>2. PICK g : /\ g = [i \in 1 .. Len(Frame(q)) |->
                             [byte |-> Frame(q)[i], frame |-> Len(sent) + 1, at |-> i]]
                   /\ line' = line \o g
      BY <3>1
    <3>3. Frame(q) \in Seq(Byte) /\ Len(Frame(q)) \in Nat
      <4>1. Frame(q) \in Seq(Byte)
        BY FrameShape DEF Shape
      <4>2. QED
        BY <4>1, LenProperties
    <3>4. g \in Seq(Item)
      <4>1. /\ Len(sent) + 1 \in 1 .. MaxFrames
            /\ \A i \in 1 .. Len(Frame(q)) : Frame(q)[i] \in Byte
        <5>1. \A i \in 1 .. Len(Frame(q)) : Frame(q)[i] \in Byte
          BY <3>3
        <5>2. Len(sent) + 1 \in 1 .. MaxFrames
          BY <2>2, SlipAssumption DEF slipdev_send, SlipInv, TypeOK
        <5>3. QED
          BY <5>1, <5>2
      <4>2. \A i \in 1 .. Len(Frame(q)) :
              [byte |-> Frame(q)[i], frame |-> Len(sent) + 1, at |-> i] \in Item
        BY <3>3, <4>1 DEF Item
      <4>3. QED
        BY <3>2, <3>3, <4>2, IsASeq
    <3>5. line \in Seq(Item) /\ Len(line) \in Nat /\ Len(Tail(line)) = Len(line) - 1
      BY FrontOfLine DEF SlipInv, TypeOK
    <3>6. Len(line') = Len(line) + Len(g) /\ Len(g) \in Nat
      <4>1. Len(line \o g) = Len(line) + Len(g)
        BY <3>4, <3>5, ConcatProperties
      <4>2. QED
        BY <3>2, <3>4, <4>1, LenProperties
    <3>7. Len(line') = Len(line) - 1
      BY <3>5
    <3>8. QED
      BY <3>5, <3>6, <3>7
  <2>3. CASE slipdev_poll
    BY <2>3, FrontRead
  <2>4. QED
    BY <2>1, <2>2, <2>3 DEF Next
<1> HIDE DEF Arrives
<1>2. Spec => [][Arrives]_vars
  BY <1>1, SlipAlways, PTL DEF Spec
<1>3. QED
  BY <1>2 DEF IntactFrameArrives, Arrives
=============================================================================
