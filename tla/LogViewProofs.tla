---------------------------- MODULE LogViewProofs ----------------------------
(* A page shows its newest messages, each with its text from the column it *)
(* is scrolled to, for every size of the ring, of fragments and of the     *)
(* screen and every set of messages.                                       *)
EXTENDS LogView, ObjectLogProofs, FiniteSetTheorems

-----------------------------------------------------------------------------
(* The two loops over the fragments, as functions of the turns left.       *)

(* Where the loops go from a fragment.                                     *)
LEMMA NextIs ==
  ASSUME Cells(buffer), NEW p \in Ring
  PROVE  /\ objectlog_next(p) = IF buffer[p].final THEN NoMore ELSE Following(p)
         /\ Following(p) \in Ring /\ AtFragment(Following(p)) \in Cursors
         /\ objectlog_next(p) \in Int /\ (objectlog_next(p) < 0 <=> buffer[p].final)
         /\ ~(objectlog_next(p) < 0) => objectlog_next(p) = Following(p)
         /\ AtFragment(p) \in Cursors
<1>1. Size \in Nat /\ Size > 1
  BY Sizes
<1>2. Following(p) \in Ring
  BY FollowingType
<1>3. buffer[p].final \in BOOLEAN /\ buffer[p].len \in Nat
  BY DEF Cells
<1>4. objectlog_next(p) = IF buffer[p].final THEN NoMore ELSE Following(p)
  BY DEF objectlog_next
<1>5. ASSUME NEW q \in Ring PROVE AtFragment(q) \in Cursors
  <2>1. q + 1 \in Nat /\ buffer[q].len \in Nat
    BY <1>1 DEF Cells, Ring
  <2>2. QED
    BY <2>1 DEF AtFragment, Cursor, Cursors
<1>6. PICK n : n = Following(p)
  OBVIOUS
<1>7. n \in Nat
  BY <1>1, <1>2, <1>6 DEF Ring
<1>8. /\ objectlog_next(p) \in Int /\ (objectlog_next(p) < 0 <=> buffer[p].final)
      /\ ~(objectlog_next(p) < 0) => objectlog_next(p) = Following(p)
  BY <1>3, <1>4, <1>6, <1>7 DEF NoMore
<1>9. QED
  BY <1>2, <1>4, <1>5, <1>8

Skipped(c, left, on) ==
  IF left = 0 THEN c
  ELSE IF left < c.len THEN Cursor(c.iter, c.ptr + left, c.len - left) ELSE on

SkipStep(f) ==
  \A turns \in 0 .. Size, c \in Cursors, left \in Nat :
    f[turns][c][left] =
      Skipped(c, left, IF objectlog_next(c.iter) <= 0 \/ turns = 0 THEN Null
                       ELSE f[turns - 1][AtFragment(objectlog_next(c.iter))][left - c.len])

LEMMA SkipIs ==
  ASSUME Cells(buffer)
  PROVE  \E f : SkipStep(f) /\ \A cur, offset : SkipText(cur, offset) = f[Size][cur][offset]
<1>1. Size \in Nat
  BY Sizes
<1> DEFINE V == Cursors \cup {Null}
           D == [Cursors -> [Nat -> V]]
           zero == [c \in Cursors |-> [left \in Nat |-> Skipped(c, left, Null)]]
           step == [k \in Nat \ {0} |-> [g \in D |->
                     [c \in Cursors |-> [left \in Nat |->
                        Skipped(c, left,
                          IF objectlog_next(c.iter) <= 0 THEN Null
                          ELSE g[AtFragment(objectlog_next(c.iter))][left - c.len])]]]]
<1>2. ASSUME NEW c \in Cursors, NEW left \in Nat, NEW on, left < c.len \/ on \in V
      PROVE  Skipped(c, left, on) \in V
  <2>1. c.iter \in Ring /\ c.ptr \in Nat /\ c.len \in Nat
    BY DEF Cursors
  <2>2. CASE left = 0
    BY <2>2 DEF Skipped
  <2>3. CASE left # 0 /\ left < c.len
    <3>1. c.ptr + left \in Nat /\ c.len - left \in Nat
      BY <2>1, <2>3
    <3>2. Cursor(c.iter, c.ptr + left, c.len - left) \in Cursors
      BY <2>1, <3>1 DEF Cursor, Cursors
    <3>3. Skipped(c, left, on) = Cursor(c.iter, c.ptr + left, c.len - left)
      BY <2>3 DEF Skipped
    <3>4. QED
      BY <3>2, <3>3
  <2>4. CASE left # 0 /\ ~(left < c.len)
    BY <1>2, <2>4 DEF Skipped
  <2>5. QED
    BY <2>2, <2>3, <2>4
<1>3. zero \in D
  <2>1. Null \in V
    OBVIOUS
  <2> HIDE DEF V
  <2>2. \A c \in Cursors, left \in Nat : Skipped(c, left, Null) \in V
    BY <1>2, <2>1
  <2>3. QED
    BY <2>2
<1>4. step \in [Nat \ {0} -> [D -> D]]
  <2>1. ASSUME NEW g \in D, NEW c \in Cursors, NEW left \in Nat
        PROVE  Skipped(c, left,
                 IF objectlog_next(c.iter) <= 0 THEN Null
                 ELSE g[AtFragment(objectlog_next(c.iter))][left - c.len]) \in V
    <3>1. c.iter \in Ring /\ c.len \in Nat
      BY DEF Cursors
    <3>2. CASE objectlog_next(c.iter) <= 0
      <4>1. Null \in V
        OBVIOUS
      <4> HIDE DEF V, D
      <4>2. QED
        BY <1>2, <3>2, <4>1
    <3>3. CASE ~(objectlog_next(c.iter) <= 0)
      <4>1. AtFragment(objectlog_next(c.iter)) \in Cursors
        <5>1. ~(objectlog_next(c.iter) < 0)
          BY <3>1, <3>3, NextIs
        <5>2. objectlog_next(c.iter) = Following(c.iter)
          BY <3>1, <5>1, NextIs
        <5>3. AtFragment(Following(c.iter)) \in Cursors
          BY <3>1, NextIs
        <5>4. QED
          BY <5>2, <5>3
      <4>2. PICK d : d = AtFragment(objectlog_next(c.iter))
        OBVIOUS
      <4>3. left < c.len \/ g[d][left - c.len] \in V
        <5>1. left < c.len \/ left - c.len \in Nat
          BY <3>1
        <5> HIDE DEF V
        <5>2. QED
          BY <4>1, <4>2, <5>1
      <4> HIDE DEF V, D
      <4>4. Skipped(c, left, g[d][left - c.len]) \in V
        BY <1>2, <4>3
      <4>5. QED
        BY <3>3, <4>2, <4>4
    <3>4. QED
      BY <3>2, <3>3
  <2>2. ASSUME NEW g \in D
        PROVE  [c \in Cursors |-> [left \in Nat |->
                  Skipped(c, left,
                    IF objectlog_next(c.iter) <= 0 THEN Null
                    ELSE g[AtFragment(objectlog_next(c.iter))][left - c.len])]] \in D
    <3> HIDE DEF V
    <3>1. QED
      BY <2>1
  <2> HIDE DEF D
  <2>3. QED
    BY <2>2
<1>5. PICK f : Recurs(f, D, zero, step, Size)
  <2>1. PICK E, z, st : E = D /\ z = zero /\ st = step
    OBVIOUS
  <2>2. z \in E /\ st \in [Nat \ {0} -> [E -> E]]
    BY <1>3, <1>4, <2>1
  <2>3. PICK f : Recurs(f, E, z, st, Size)
    BY <1>1, <2>2, Recursion, Zenon
  <2>4. QED
    BY <2>1, <2>3
<1>6. f \in [0 .. Size -> D] /\ f[0] = zero /\ \A k \in 1 .. Size : f[k] = step[k][f[k - 1]]
  BY <1>5 DEF Recurs
<1>7. ASSUME NEW k \in 0 .. Size
      PROVE  f[k] = [c \in Cursors |-> [left \in Nat |->
                       Skipped(c, left,
                         IF objectlog_next(c.iter) <= 0 \/ k = 0 THEN Null
                         ELSE f[k - 1][AtFragment(objectlog_next(c.iter))][left - c.len])]]
  <2>1. CASE k = 0
    BY <1>6, <2>1
  <2>2. CASE k # 0
    <3>1. k \in 1 .. Size /\ k \in Nat \ {0} /\ k - 1 \in 0 .. Size
      BY <1>1, <2>2
    <3>2. PICK g \in D : g = f[k - 1]
      <4> HIDE DEF D
      <4>1. QED
        BY <1>6, <3>1
    <3>3. f[k] = step[k][g]
      BY <1>6, <3>1, <3>2
    <3>4. step[k][g] = [c \in Cursors |-> [left \in Nat |->
                         Skipped(c, left,
                           IF objectlog_next(c.iter) <= 0 THEN Null
                           ELSE g[AtFragment(objectlog_next(c.iter))][left - c.len])]]
      <4> HIDE DEF D
      <4>1. QED
        BY <3>1
    <3> HIDE DEF step, D
    <3>5. QED
      BY <2>2, <3>2, <3>3, <3>4
  <2>3. QED
    BY <2>1, <2>2
<1> HIDE DEF zero, step, D
<1>8. f = [k \in 0 .. Size |-> [c \in Cursors |-> [left \in Nat |->
             Skipped(c, left,
               IF objectlog_next(c.iter) <= 0 \/ k = 0 THEN Null
               ELSE f[k - 1][AtFragment(objectlog_next(c.iter))][left - c.len])]]]
  <2>1. f = [k \in 0 .. Size |-> f[k]]
    BY <1>6
  <2>2. QED
    BY <1>7, <2>1
<1> DEFINE G == CHOOSE g : g = [k \in 0 .. Size |-> [c \in Cursors |-> [left \in Nat |->
                  Skipped(c, left,
                    IF objectlog_next(c.iter) <= 0 \/ k = 0 THEN Null
                    ELSE g[k - 1][AtFragment(objectlog_next(c.iter))][left - c.len])]]]
<1>9. G = [k \in 0 .. Size |-> [c \in Cursors |-> [left \in Nat |->
             Skipped(c, left,
               IF objectlog_next(c.iter) <= 0 \/ k = 0 THEN Null
               ELSE G[k - 1][AtFragment(objectlog_next(c.iter))][left - c.len])]]]
  BY <1>8
<1>10. \A cur, offset : SkipText(cur, offset) = G[Size][cur][offset]
  BY DEF SkipText, Skipped
<1> HIDE DEF G
<1>11. SkipStep(G)
  <2>1. ASSUME NEW k \in 0 .. Size, NEW c \in Cursors, NEW left \in Nat
        PROVE  G[k][c][left] =
                 Skipped(c, left, IF objectlog_next(c.iter) <= 0 \/ k = 0 THEN Null
                   ELSE G[k - 1][AtFragment(objectlog_next(c.iter))][left - c.len])
    <3>1. G[k] = [d \in Cursors |-> [l \in Nat |->
             Skipped(d, l,
               IF objectlog_next(d.iter) <= 0 \/ k = 0 THEN Null
               ELSE G[k - 1][AtFragment(objectlog_next(d.iter))][l - d.len])]]
      BY <1>9, Zenon
    <3>2. G[k][c] = [l \in Nat |->
             Skipped(c, l,
               IF objectlog_next(c.iter) <= 0 \/ k = 0 THEN Null
               ELSE G[k - 1][AtFragment(objectlog_next(c.iter))][l - c.len])]
      BY <3>1
    <3>3. QED
      BY <3>2
  <2>2. QED
    BY <2>1 DEF SkipStep
<1>12. QED
  BY <1>10, <1>11

(* What is drawn of the fragment at a cursor, and whether the line ends    *)
(* there.                                                                  *)
Strings == {Bytes(p, n) : p \in Nat, n \in Nat}
Drawing == [x : Nat, text : Strings]
Drawn(c, x) == IF c.len = 0 THEN <<>> ELSE << [x |-> x, text |-> Bytes(c.ptr, c.len)] >>
Column(c, x) == (x + c.len) % ByteSpace
Full(c, x) == c.len > 0 /\ Column(c, x) > Width

DrawStep(f) ==
  \A turns \in 0 .. Size, c \in Cursors, x \in Nat :
    f[turns][c][x] =
      IF Full(c, x) \/ objectlog_next(c.iter) < 0 \/ turns = 0 THEN Drawn(c, x)
      ELSE Drawn(c, x) \o f[turns - 1][AtFragment(objectlog_next(c.iter))][Column(c, x)]

LEMMA DrawnType ==
  ASSUME NEW c \in Cursors, NEW x \in Nat
  PROVE  Drawn(c, x) \in Seq(Drawing) /\ Column(c, x) \in Nat
<1>1. c.ptr \in Nat /\ c.len \in Nat
  BY DEF Cursors
<1>2. Bytes(c.ptr, c.len) \in Strings
  BY <1>1 DEF Strings
<1>3. [x |-> x, text |-> Bytes(c.ptr, c.len)] \in Drawing
  BY <1>2 DEF Drawing
<1>4. Drawn(c, x) \in Seq(Drawing)
  <2>1. PICK d \in Drawing : d = [x |-> x, text |-> Bytes(c.ptr, c.len)]
    BY <1>3
  <2>2. <<>> \in Seq(Drawing) /\ <<d>> \in Seq(Drawing)
    OBVIOUS
  <2>3. QED
    BY <2>1, <2>2 DEF Drawn
<1>5. ByteSpace \in Nat /\ ByteSpace > 0
  BY ViewSizes, Sizes
<1>6. PICK n \in Nat : n = x + c.len
  BY <1>1
<1>7. n % ByteSpace \in Nat
  BY <1>5
<1>8. QED
  BY <1>4, <1>6, <1>7 DEF Column

LEMMA DrawIs ==
  ASSUME Cells(buffer)
  PROVE  \E f : /\ DrawStep(f)
              /\ \A cur : DrawLine(cur) = IF cur = Null THEN <<>> ELSE f[Size][cur][0]
<1>1. Size \in Nat
  BY Sizes
<1> DEFINE V == Seq(Drawing)
           D == [Cursors -> [Nat -> V]]
           zero == [c \in Cursors |-> [x \in Nat |-> Drawn(c, x)]]
           step == [k \in Nat \ {0} |-> [g \in D |->
                     [c \in Cursors |-> [x \in Nat |->
                        IF Full(c, x) \/ objectlog_next(c.iter) < 0 THEN Drawn(c, x)
                        ELSE Drawn(c, x)
                             \o g[AtFragment(objectlog_next(c.iter))][Column(c, x)]]]]]
<1>3. zero \in D
  BY DrawnType
<1>4. step \in [Nat \ {0} -> [D -> D]]
  <2>1. ASSUME NEW g \in D, NEW c \in Cursors, NEW x \in Nat
        PROVE  (IF Full(c, x) \/ objectlog_next(c.iter) < 0 THEN Drawn(c, x)
                ELSE Drawn(c, x)
                     \o g[AtFragment(objectlog_next(c.iter))][Column(c, x)]) \in V
    <3>1. c.iter \in Ring /\ Drawn(c, x) \in V /\ Column(c, x) \in Nat
      BY DrawnType DEF Cursors
    <3>2. CASE Full(c, x) \/ objectlog_next(c.iter) < 0
      BY <3>1, <3>2
    <3>3. CASE ~(Full(c, x) \/ objectlog_next(c.iter) < 0)
      <4>1. AtFragment(objectlog_next(c.iter)) \in Cursors
        BY <3>1, <3>3, NextIs
      <4>2. PICK s \in V : s = g[AtFragment(objectlog_next(c.iter))][Column(c, x)]
        BY <3>1, <4>1
      <4>3. PICK t \in V : t = Drawn(c, x)
        BY <3>1
      <4>4. t \o s \in V
        BY ConcatProperties
      <4>5. QED
        BY <3>3, <4>2, <4>3, <4>4
    <3>4. QED
      BY <3>2, <3>3
  <2>2. ASSUME NEW g \in D
        PROVE  [c \in Cursors |-> [x \in Nat |->
                  IF Full(c, x) \/ objectlog_next(c.iter) < 0 THEN Drawn(c, x)
                  ELSE Drawn(c, x)
                       \o g[AtFragment(objectlog_next(c.iter))][Column(c, x)]]] \in D
    <3> HIDE DEF V
    <3>1. QED
      BY <2>1
  <2> HIDE DEF D
  <2>3. QED
    BY <2>2
<1>5. PICK f : Recurs(f, D, zero, step, Size)
  <2>1. PICK E, z, st : E = D /\ z = zero /\ st = step
    OBVIOUS
  <2>2. z \in E /\ st \in [Nat \ {0} -> [E -> E]]
    BY <1>3, <1>4, <2>1
  <2>3. PICK f : Recurs(f, E, z, st, Size)
    BY <1>1, <2>2, Recursion, Zenon
  <2>4. QED
    BY <2>1, <2>3
<1>6. f \in [0 .. Size -> D] /\ f[0] = zero /\ \A k \in 1 .. Size : f[k] = step[k][f[k - 1]]
  BY <1>5 DEF Recurs
<1>7. ASSUME NEW k \in 0 .. Size
      PROVE  f[k] = [c \in Cursors |-> [x \in Nat |->
                       IF Full(c, x) \/ objectlog_next(c.iter) < 0 \/ k = 0 THEN Drawn(c, x)
                       ELSE Drawn(c, x)
                            \o f[k - 1][AtFragment(objectlog_next(c.iter))][Column(c, x)]]]
  <2>1. CASE k = 0
    BY <1>6, <2>1
  <2>2. CASE k # 0
    <3>1. k \in 1 .. Size /\ k \in Nat \ {0} /\ k - 1 \in 0 .. Size
      BY <1>1, <2>2
    <3>2. PICK g \in D : g = f[k - 1]
      <4> HIDE DEF D
      <4>1. QED
        BY <1>6, <3>1
    <3>3. f[k] = step[k][g]
      BY <1>6, <3>1, <3>2
    <3>4. step[k][g] = [c \in Cursors |-> [x \in Nat |->
                         IF Full(c, x) \/ objectlog_next(c.iter) < 0 THEN Drawn(c, x)
                         ELSE Drawn(c, x)
                              \o g[AtFragment(objectlog_next(c.iter))][Column(c, x)]]]
      <4> HIDE DEF D
      <4>1. QED
        BY <3>1
    <3> HIDE DEF step, D
    <3>5. QED
      BY <2>2, <3>2, <3>3, <3>4
  <2>3. QED
    BY <2>1, <2>2
<1> HIDE DEF zero, step, D
<1>8. f = [k \in 0 .. Size |-> [c \in Cursors |-> [x \in Nat |->
             IF Full(c, x) \/ objectlog_next(c.iter) < 0 \/ k = 0 THEN Drawn(c, x)
             ELSE Drawn(c, x)
                  \o f[k - 1][AtFragment(objectlog_next(c.iter))][Column(c, x)]]]]
  <2>1. f = [k \in 0 .. Size |-> f[k]]
    BY <1>6
  <2>2. QED
    BY <1>7, <2>1
<1> DEFINE G == CHOOSE g : g = [k \in 0 .. Size |-> [c \in Cursors |-> [x \in Nat |->
                  IF Full(c, x) \/ objectlog_next(c.iter) < 0 \/ k = 0 THEN Drawn(c, x)
                  ELSE Drawn(c, x)
                       \o g[k - 1][AtFragment(objectlog_next(c.iter))][Column(c, x)]]]]
<1>9. G = [k \in 0 .. Size |-> [c \in Cursors |-> [x \in Nat |->
             IF Full(c, x) \/ objectlog_next(c.iter) < 0 \/ k = 0 THEN Drawn(c, x)
             ELSE Drawn(c, x)
                  \o G[k - 1][AtFragment(objectlog_next(c.iter))][Column(c, x)]]]]
  BY <1>8
<1>10. \A cur : DrawLine(cur) = IF cur = Null THEN <<>> ELSE G[Size][cur][0]
  BY DEF DrawLine, Drawn, Full, Column
<1> HIDE DEF G
<1>11. DrawStep(G)
  <2>1. ASSUME NEW k \in 0 .. Size, NEW c \in Cursors, NEW x \in Nat
        PROVE  G[k][c][x] =
                 IF Full(c, x) \/ objectlog_next(c.iter) < 0 \/ k = 0 THEN Drawn(c, x)
                 ELSE Drawn(c, x)
                      \o G[k - 1][AtFragment(objectlog_next(c.iter))][Column(c, x)]
    <3>1. G[k] = [d \in Cursors |-> [y \in Nat |->
             IF Full(d, y) \/ objectlog_next(d.iter) < 0 \/ k = 0 THEN Drawn(d, y)
             ELSE Drawn(d, y)
                  \o G[k - 1][AtFragment(objectlog_next(d.iter))][Column(d, y)]]]
      BY <1>9, Zenon
    <3>2. G[k][c] = [y \in Nat |->
             IF Full(c, y) \/ objectlog_next(c.iter) < 0 \/ k = 0 THEN Drawn(c, y)
             ELSE Drawn(c, y)
                  \o G[k - 1][AtFragment(objectlog_next(c.iter))][Column(c, y)]]
      BY <3>1
    <3>3. QED
      BY <3>2
  <2>2. QED
    BY <2>1 DEF DrawStep
<1>12. QED
  BY <1>10, <1>11

-----------------------------------------------------------------------------
(* The fragments of a stored object, one after the other.                  *)
(* The fragment at x, of len bytes, is at p, and the next one begins at y. *)
Linked(a, z, o, H, c, x, p, len, y) ==
  /\ p = At(a, x) /\ len = buffer[p].len /\ y = x + 1 + len
  /\ y <= z /\ p + len < Size /\ x \in 0 .. z - 1 /\ c[x] \in Nat
  /\ y = z => buffer[p].final /\ c[x] = len
  /\ y # z => /\ ~buffer[p].final /\ y \in H /\ c[y] \in Nat
              /\ c[x] = len + c[y] /\ Following(p) = At(a, y)
  /\ \A m \in Nat : c[x] = len + m
       => objectlog_get_fragment(p) = Piece(o, len, m)

LEMMA Link ==
  ASSUME Cells(buffer), NEW a \in Ring, NEW z \in 1 .. Size - 1, NEW o, NEW n,
         NEW H, NEW c, FragmentsAt(buffer, a, z, 0, o, n, 0, H, c), NEW x \in H
  PROVE  \E p \in Ring, len \in Nat, y \in Nat : Linked(a, z, o, H, c, x, p, len, y)
<1>1. Size \in Nat /\ z \in Nat /\ z < Size
  BY Sizes
<1>2. /\ H \in SUBSET (0 .. z - 1) /\ c \in [H -> Nat]
      /\ FragmentAt(buffer, a, z, 0, o, 0, H, c, x)
  BY DEF FragmentsAt
<1>3. x \in 0 .. z - 1 /\ x \in 0 .. Size /\ x \in Nat
  BY <1>1, <1>2
<1>4. PICK p \in Ring : p = At(a, x)
  BY <1>3, AtType
<1>5. PICK len \in Nat : len = buffer[p].len
  BY DEF Cells
<1>6. PICK y \in Nat : y = x + 1 + len
  BY <1>3
<1>7. /\ y <= z /\ p + len < Size
      /\ y = z => buffer[p].final = TRUE /\ c[x] = len
      /\ y # z => buffer[p].final = FALSE /\ y \in H /\ c[x] = len + c[y]
  <2>1. /\ x + 1 + len <= z + 0 /\ p + len < Size
        /\ x + 1 + len = z + 0 => buffer[p].final = (0 = 0) /\ c[x] = len + 0 - 0
        /\ x + 1 + len # z + 0 => /\ buffer[p].final = FALSE /\ x + 1 + len \in H
                                  /\ c[x] = len + c[x + 1 + len]
    BY <1>2, <1>4, <1>5, Zenon DEF FragmentAt
  <2>2. (0 = 0) = TRUE /\ z + 0 = z /\ len + 0 - 0 = len
    BY <1>1
  <2>3. QED
    BY <1>6, <2>1, <2>2
<1>8. Following(p) = At(a, y)
  BY <1>1, <1>3, <1>4, <1>5, <1>6, <1>7, FollowingAt
<1>9. \A k1, m1 \in Nat : k1 = buffer[p].len /\ c[x] = k1 + m1
        => objectlog_get_fragment(p) = Piece(o, k1, m1)
  BY <1>2, <1>3, <1>4, FragmentRead
<1>10. /\ c[x] \in Nat
       /\ y # z => c[y] \in Nat
       /\ \A m \in Nat : c[x] = len + m => objectlog_get_fragment(p) = Piece(o, len, m)
  BY <1>2, <1>5, <1>7, <1>9
<1>11. Linked(a, z, o, H, c, x, p, len, y)
  BY <1>3, <1>4, <1>5, <1>6, <1>7, <1>8, <1>10 DEF Linked
<1>12. QED
  BY <1>11

(* Pieces of an object, one beside the other.                              *)
Adjoin(o, k, j, m) == Piece(o, k, j + m) \o Piece(o, j, m) = Piece(o, k + j, m)

LEMMA PieceJoin ==
  ASSUME NEW o, NEW k \in Nat, NEW j \in Nat, NEW m \in Nat
  PROVE  Adjoin(o, k, j, m)
<1> DEFINE s == Piece(o, k, j + m)
           t == Piece(o, j, m)
<1>1. /\ s \in Seq({o} \X Nat) /\ Len(s) = k
      /\ t \in Seq({o} \X Nat) /\ Len(t) = j
  BY WholeType
<1>2. /\ \A i \in 1 .. k : s[i] = <<o, k + (j + m) + 1 - i>>
      /\ \A i \in 1 .. j : t[i] = <<o, j + m + 1 - i>>
  BY DEF Piece
<1> HIDE DEF s, t
<1>3. /\ s \o t \in Seq({o} \X Nat) /\ Len(s \o t) = k + j
      /\ \A i \in 1 .. k + j : (s \o t)[i] = IF i <= k THEN s[i] ELSE t[i - k]
  BY <1>1, ConcatProperties
<1>4. ASSUME NEW i \in 1 .. k + j PROVE (s \o t)[i] = <<o, (k + j) + m + 1 - i>>
  <2>1. CASE i <= k
    <3>1. i \in 1 .. k /\ k + (j + m) + 1 - i = (k + j) + m + 1 - i
      BY <2>1
    <3>2. QED
      BY <1>2, <1>3, <2>1, <3>1
  <2>2. CASE ~(i <= k)
    <3>1. i - k \in 1 .. j /\ j + m + 1 - (i - k) = (k + j) + m + 1 - i
      BY <2>2
    <3>2. QED
      BY <1>2, <1>3, <2>2, <3>1
  <2>3. QED
    BY <2>1, <2>2
<1>5. s \o t = [i \in 1 .. k + j |-> (s \o t)[i]]
  BY <1>3, LenProperties
<1>6. s \o t = [i \in 1 .. k + j |-> <<o, (k + j) + m + 1 - i>>]
  BY <1>4, <1>5
<1>7. s \o t = Piece(o, k + j, m)
  BY <1>6 DEF Piece
<1>8. QED
  BY <1>7 DEF s, t, Adjoin

(* A cursor in the fragment at x, before the last m bytes of the object.   *)
Points(cur, a, H, c, x, m) ==
  /\ cur \in Cursors /\ x \in H /\ cur.iter = At(a, x) /\ m \in Nat
  /\ \E s \in Nat : /\ s + cur.len = buffer[At(a, x)].len
                    /\ cur.ptr = At(a, x) + 1 + s /\ c[x] = m + s

LEMMA BytesAre ==
  ASSUME Cells(buffer), NEW a \in Ring, NEW z \in 1 .. Size - 1, NEW o, NEW n,
         NEW H, NEW c, FragmentsAt(buffer, a, z, 0, o, n, 0, H, c),
         NEW x, NEW cur, NEW m \in Nat, Points(cur, a, H, c, x, m)
  PROVE  cur.len <= m /\ Bytes(cur.ptr, cur.len) = Piece(o, cur.len, m - cur.len)
<1>1. /\ cur.ptr \in Nat /\ cur.len \in Nat /\ x \in H
      /\ \E s \in Nat : /\ s + cur.len = buffer[At(a, x)].len
                        /\ cur.ptr = At(a, x) + 1 + s /\ c[x] = m + s
  BY DEF Points, Cursors
<1>2a. PICK p \in Ring, len \in Nat, y \in Nat : Linked(a, z, o, H, c, x, p, len, y)
  BY <1>1, Link
<1>2. /\ p = At(a, x) /\ len = buffer[p].len /\ y = x + 1 + len
      /\ y <= z /\ p + len < Size /\ x \in 0 .. z - 1 /\ c[x] \in Nat
      /\ y = z => buffer[p].final /\ c[x] = len
      /\ y # z => /\ ~buffer[p].final /\ y \in H /\ c[y] \in Nat
                  /\ c[x] = len + c[y] /\ Following(p) = At(a, y)
      /\ \A q \in Nat : c[x] = len + q => objectlog_get_fragment(p) = Piece(o, len, q)
  BY <1>2a DEF Linked
<1>3. PICK s \in Nat : s + cur.len = len /\ cur.ptr = p + 1 + s /\ c[x] = m + s
  BY <1>1, <1>2
<1>4. PICK l \in Nat : l = cur.len
  BY <1>1
<1>5. PICK q \in Nat : c[x] = len + q
  <2>1. CASE y = z
    <3>1. c[x] = len + 0
      BY <1>2, <2>1
    <3>2. QED
      BY <3>1
  <2>2. CASE y # z
    BY <1>2, <2>2
  <2>3. QED
    BY <2>1, <2>2
<1>6. /\ s + l = len /\ len + q = m + s
      /\ m - l = q /\ l <= m
  BY <1>3, <1>4, <1>5
<1>7. Size \in Nat /\ p \in Nat
  BY Sizes DEF Ring
<1>8. objectlog_get_fragment(p) = Piece(o, len, q)
  BY <1>2, <1>5
<1>9. ASSUME NEW k \in 1 .. l
      PROVE  /\ cur.ptr + k - 1 \in Ring
             /\ buffer[cur.ptr + k - 1].data = <<o, l + q + 1 - k>>
  <2>1. PICK i \in Nat : i = s + k
    OBVIOUS
  <2>2. i \in 1 .. len /\ cur.ptr + k - 1 = p + i /\ p + i < Size
    BY <1>2, <1>3, <1>6, <1>7, <2>1
  <2>3. p + i \in Ring
    BY <1>7, <2>2 DEF Ring
  <2>4. objectlog_get_fragment(p)[i] = buffer[p + i].data
    BY <1>2, <2>2, <2>3 DEF objectlog_get_fragment
  <2>5. Piece(o, len, q)[i] = <<o, len + q + 1 - i>>
    BY <2>2 DEF Piece
  <2>6. len + q + 1 - i = l + q + 1 - k
    BY <1>6, <2>1
  <2>7. QED
    BY <1>8, <2>2, <2>3, <2>4, <2>5, <2>6
<1>10. Bytes(cur.ptr, l) = Piece(o, l, q)
  BY <1>9 DEF Bytes, Piece
<1>11. QED
  BY <1>4, <1>6, <1>10

LEMMA ReadType ==
  ASSUME Cells(buffer), NEW f, ReadStep(f)
  PROVE  \A k \in 0 .. Size, pos \in Ring :
           f[k][pos] \in Seq(Ring) /\ f[k][pos] # <<>> /\ f[k][pos][1] = pos
<1>1. Size \in Nat
  BY Sizes
<1> DEFINE OK(F, pos) == F \in Seq(Ring) /\ F # <<>> /\ F[1] = pos
<1>2. ASSUME NEW pos \in Ring PROVE OK(<<pos>>, pos)
  OBVIOUS
<1>3. ASSUME NEW pos \in Ring, NEW F \in Seq(Ring) PROVE OK(<<pos>> \o F, pos)
  <2>1. <<pos>> \in Seq(Ring) /\ Len(<<pos>>) = 1 /\ <<pos>>[1] = pos
    OBVIOUS
  <2>2. /\ <<pos>> \o F \in Seq(Ring) /\ Len(<<pos>> \o F) = 1 + Len(F)
        /\ \A i \in 1 .. 1 + Len(F) :
             (<<pos>> \o F)[i] = IF i <= 1 THEN <<pos>>[i] ELSE F[i - 1]
    BY <2>1, ConcatProperties
  <2>3. Len(F) \in Nat
    BY LenProperties
  <2>4. PICK G \in Seq(Ring) : G = <<pos>> \o F
    BY <2>2
  <2>5. Len(G) # 0 /\ G[1] = pos
    BY <2>1, <2>2, <2>3, <2>4
  <2>6. G # <<>>
    BY <2>5
  <2>7. QED
    BY <2>4, <2>5, <2>6
<1> DEFINE T == {k \in Nat : k <= Size => \A pos \in Ring : OK(f[k][pos], pos)}
<1>4. 0 \in T
  <2>1. 0 \in 0 .. Size
    BY <1>1
  <2>2. \A pos \in Ring : f[0][pos] = <<pos>>
    BY <2>1 DEF ReadStep
  <2> HIDE DEF OK
  <2>3. QED
    BY <1>2, <2>2
<1>5. ASSUME NEW k \in T PROVE k + 1 \in T
  <2>1. ASSUME k + 1 <= Size, NEW pos \in Ring PROVE OK(f[k + 1][pos], pos)
    <3>1. k + 1 \in 0 .. Size /\ k + 1 # 0 /\ (k + 1) - 1 = k /\ k <= Size
      BY <1>1, <2>1
    <3>2. f[k + 1][pos] = IF buffer[pos].final THEN <<pos>>
                          ELSE <<pos>> \o f[k][Following(pos)]
      BY <3>1 DEF ReadStep
    <3>3. Following(pos) \in Ring
      BY FollowingType
    <3>4. f[k][Following(pos)] \in Seq(Ring)
      BY <3>1, <3>3
    <3> HIDE DEF OK
    <3>5. QED
      BY <1>2, <1>3, <3>2, <3>4
  <2> HIDE DEF OK
  <2>2. QED
    BY <2>1
<1>6. T \in SUBSET Nat
  OBVIOUS
<1>7. T = Nat
  <2> HIDE DEF T
  <2>1. QED
    BY <1>4, <1>5, <1>6, Induct
<1>8. QED
  BY <1>1, <1>7

-----------------------------------------------------------------------------
(* The cursor that the offset leads to.                                    *)
NoZero(F) == \A j \in 2 .. Len(F) : F[j] # 0

LEMMA ZeroCons ==
  ASSUME NEW p \in Ring, NEW F \in Seq(Ring), F # <<>>, NoZero(<<p>> \o F)
  PROVE  F[1] # 0 /\ NoZero(F)
<1>1. <<p>> \in Seq(Ring) /\ Len(<<p>>) = 1
  OBVIOUS
<1>2. /\ Len(<<p>> \o F) = 1 + Len(F)
      /\ \A i \in 1 .. 1 + Len(F) : (<<p>> \o F)[i] = IF i <= 1 THEN <<p>>[i] ELSE F[i - 1]
  BY <1>1, ConcatProperties
<1>3. PICK n \in Nat : n = Len(F)
  BY LenProperties
<1>4. n # 0
  BY <1>3, EmptySeq
<1>5. PICK G : G = <<p>> \o F
  OBVIOUS
<1>6. ASSUME NEW i \in 1 .. n PROVE F[i] # 0
  <2>1. i + 1 \in 2 .. 1 + n /\ i + 1 \in 1 .. 1 + n /\ ~(i + 1 <= 1) /\ (i + 1) - 1 = i
    OBVIOUS
  <2>2. G[i + 1] = F[i]
    BY <1>2, <1>3, <1>5, <2>1
  <2>3. G[i + 1] # 0
    BY <1>2, <1>3, <1>5, <2>1 DEF NoZero
  <2>4. QED
    BY <2>2, <2>3
<1>7. 1 \in 1 .. n /\ \A i \in 2 .. n : i \in 1 .. n
  BY <1>4
<1>8. QED
  BY <1>3, <1>6, <1>7 DEF NoZero

(* The cursor r is what left of m bytes lead to.                           *)
Skips(r, left, m, a, H, c) ==
  \/ r = Null /\ m <= left
  \/ left <= m /\ \E y \in H : Points(r, a, H, c, y, m - left)

LEMMA SkipsTo ==
  ASSUME Cells(buffer), NEW a \in Ring, NEW z \in 1 .. Size - 1, NEW o, NEW n,
         NEW H, NEW c, FragmentsAt(buffer, a, z, 0, o, n, 0, H, c),
         NEW f, SkipStep(f), NEW g, ReadStep(g)
  PROVE  \A x \in H, t \in 0 .. Size, cur \in Cursors, left \in Nat, m \in Nat :
           /\ z - x <= t /\ Points(cur, a, H, c, x, m)
           /\ left = 0 \/ NoZero(g[t][At(a, x)])
           => Skips(f[t][cur][left], left, m, a, H, c)
<1>1. Size \in Nat /\ z \in Nat /\ z < Size
  BY Sizes
<1> DEFINE Claim(t, x) ==
             \A cur \in Cursors, left \in Nat, m \in Nat :
               /\ Points(cur, a, H, c, x, m) /\ (left = 0 \/ NoZero(g[t][At(a, x)]))
               => Skips(f[t][cur][left], left, m, a, H, c)
           T == {k \in Nat : \A t \in 0 .. Size, x \in H :
                   z - x <= k /\ k <= t => Claim(t, x)}
<1>2. H \in SUBSET (0 .. z - 1)
  BY DEF FragmentsAt
<1>3. 0 \in T
  <2>1. \A x \in H : ~(z - x <= 0)
    BY <1>1, <1>2
  <2>2. QED
    BY <2>1
<1>4. ASSUME NEW k \in T PROVE k + 1 \in T
  <2>1. k \in Nat
    OBVIOUS
  <2>2. \A t \in 0 .. Size, x \in H : z - x <= k /\ k <= t => Claim(t, x)
    OBVIOUS
  <2> HIDE DEF T, Claim
  <2>3. ASSUME NEW t \in 0 .. Size, NEW x \in H, z - x <= k + 1, k + 1 <= t,
               NEW cur \in Cursors, NEW left \in Nat, NEW m \in Nat,
               Points(cur, a, H, c, x, m), left = 0 \/ NoZero(g[t][At(a, x)])
        PROVE  Skips(f[t][cur][left], left, m, a, H, c)
    <3>1. /\ cur \in Cursors /\ cur.iter = At(a, x)
          /\ \E s \in Nat : /\ s + cur.len = buffer[At(a, x)].len
                            /\ cur.ptr = At(a, x) + 1 + s /\ c[x] = m + s
      BY <2>3 DEF Points
    <3>2. cur.iter \in Ring /\ cur.ptr \in Nat /\ cur.len \in Nat
      BY <3>1 DEF Cursors
    <3>3a. PICK p \in Ring, len \in Nat, y \in Nat : Linked(a, z, o, H, c, x, p, len, y)
      BY Link
    <3>3. /\ p = At(a, x) /\ len = buffer[p].len /\ y = x + 1 + len
          /\ y <= z /\ p + len < Size /\ x \in 0 .. z - 1 /\ c[x] \in Nat
          /\ y = z => buffer[p].final /\ c[x] = len
          /\ y # z => /\ ~buffer[p].final /\ y \in H /\ c[y] \in Nat
                      /\ c[x] = len + c[y] /\ Following(p) = At(a, y)
          /\ \A q \in Nat : c[x] = len + q => objectlog_get_fragment(p) = Piece(o, len, q)
      BY <3>3a DEF Linked
    <3>4. PICK s \in Nat : s + cur.len = len /\ cur.ptr = p + 1 + s /\ c[x] = m + s
      BY <3>1, <3>3
    <3>5. PICK l \in Nat : l = cur.len
      BY <3>2
    <3>6. t # 0 /\ p \in Nat
      BY <1>1, <2>1, <2>3, Sizes DEF Ring
    <3>7. f[t][cur][left] =
            Skipped(cur, left, IF objectlog_next(p) <= 0 THEN Null
                               ELSE f[t - 1][AtFragment(objectlog_next(p))][left - l])
      BY <3>1, <3>3, <3>5, <3>6 DEF SkipStep
    <3>8. CASE left = 0
      <4>1. f[t][cur][left] = cur
        BY <3>7, <3>8 DEF Skipped
      <4>2. m - left = m /\ left <= m
        BY <3>8
      <4>3. QED
        BY <2>3, <4>1, <4>2 DEF Skips
    <3>9. CASE left # 0 /\ left < l
      <4>1. PICK r : r = Cursor(p, cur.ptr + left, l - left)
        OBVIOUS
      <4>2. f[t][cur][left] = r
        BY <3>1, <3>3, <3>5, <3>7, <3>9, <4>1 DEF Skipped
      <4>3. cur.ptr + left \in Nat /\ l - left \in Nat
        BY <3>2, <3>9
      <4>4. r \in Cursors /\ r.iter = p /\ r.ptr = cur.ptr + left /\ r.len = l - left
        BY <4>1, <4>3 DEF Cursor, Cursors
      <4>5. l <= m
        <5>1. cur.len <= m
          BY <2>3, BytesAre
        <5>2. QED
          BY <3>5, <5>1
      <4>6. PICK v \in Nat : v = s + left
        OBVIOUS
      <4>7. m - left \in Nat /\ left <= m
        BY <3>9, <4>5
      <4>8. /\ v + r.len = len /\ r.ptr = p + 1 + v
            /\ c[x] = (m - left) + v
        BY <3>2, <3>4, <3>5, <3>6, <3>9, <4>4, <4>6
      <4>9. Points(r, a, H, c, x, m - left)
        BY <3>3, <4>4, <4>7, <4>8 DEF Points
      <4>10. QED
        BY <4>2, <4>7, <4>9 DEF Skips
    <3>10. CASE left # 0 /\ ~(left < l) /\ y = z
      <4>1. objectlog_next(p) < 0 /\ objectlog_next(p) \in Int
        BY <3>3, <3>10, NextIs
      <4>2. objectlog_next(p) <= 0
        BY <4>1
      <4>3. f[t][cur][left] = Null
        BY <3>5, <3>7, <3>10, <4>2 DEF Skipped
      <4>4. m <= left
        <5>1. c[x] = len
          BY <3>3, <3>10
        <5>2. s + l = len /\ len = m + s
          BY <3>4, <3>5, <5>1
        <5>3. QED
          BY <3>10, <5>2
      <4>5. QED
        BY <4>3, <4>4 DEF Skips
    <3>11. CASE left # 0 /\ ~(left < l) /\ y # z
      <4>1. PICK q \in Ring : q = Following(p) /\ q = At(a, y)
        BY <3>3, <3>11, FollowingType
      <4>2. objectlog_next(p) = q
        BY <3>3, <3>11, <4>1, NextIs
      <4>3. t - 1 \in 0 .. Size /\ z - y <= k /\ k <= t - 1
        BY <1>1, <2>1, <2>3, <3>3, <3>6
      <4>4. PICK F : F = g[t - 1][q]
        OBVIOUS
      <4>5. F \in Seq(Ring) /\ F # <<>> /\ F[1] = q
        BY <4>3, <4>4, ReadType
      <4>6. g[t][p] = <<p>> \o F
        BY <3>3, <3>6, <3>11, <4>1, <4>4 DEF ReadStep
      <4>7. NoZero(<<p>> \o F)
        BY <2>3, <3>3, <3>11, <4>6
      <4>8. q # 0 /\ NoZero(F)
        BY <4>5, <4>7, ZeroCons
      <4>9. ~(q <= 0)
        BY <4>8, Sizes DEF Ring
      <4>10. PICK d, h : d = AtFragment(q) /\ h = left - l
        OBVIOUS
      <4>11. h \in Nat
        BY <3>11, <4>10
      <4>12. f[t][cur][left] = f[t - 1][d][h]
        BY <3>5, <3>7, <3>11, <4>2, <4>9, <4>10 DEF Skipped
      <4>13. PICK j \in Nat : j = c[y]
        BY <3>3, <3>11
      <4>14. m = l + j
        <5>1. c[x] = len + j
          BY <3>3, <3>11, <4>13
        <5>2. s + l = len /\ len + j = m + s
          BY <3>4, <3>5, <5>1
        <5>3. QED
          BY <5>2
      <4>15. Points(d, a, H, c, y, j)
        <5>1. d \in Cursors
          BY <4>10, NextIs
        <5>2. d.iter = q /\ d.ptr = q + 1 /\ d.len = buffer[q].len
          BY <4>10 DEF AtFragment, Cursor
        <5>3. q \in Nat /\ buffer[q].len \in Nat
          BY Sizes DEF Ring, Cells
        <5>4. 0 + d.len = buffer[q].len /\ d.ptr = q + 1 + 0 /\ c[y] = j + 0
          BY <4>13, <5>2, <5>3
        <5>5. QED
          BY <3>3, <3>11, <4>1, <5>1, <5>2, <5>4 DEF Points
      <4>16. NoZero(g[t - 1][At(a, y)])
        BY <4>1, <4>4, <4>8
      <4>17. Claim(t - 1, y)
        BY <2>2, <3>3, <3>11, <4>3
      <4>18. Skips(f[t - 1][d][h], h, j, a, H, c)
        <5>1. d \in Cursors
          BY <4>15 DEF Points
        <5>2. QED
          BY <4>11, <4>15, <4>16, <4>17, <5>1 DEF Claim
      <4>19. /\ (j <= h) <=> (m <= left)
             /\ (h <= j) <=> (left <= m)
             /\ j - h = m - left
        <5>1. h = left - l
          BY <4>10
        <5>2. QED
          BY <4>14, <5>1
      <4>20. QED
        BY <4>12, <4>18, <4>19 DEF Skips
    <3>12. QED
      BY <3>8, <3>9, <3>10, <3>11
  <2>4. \A t \in 0 .. Size, x \in H : z - x <= k + 1 /\ k + 1 <= t => Claim(t, x)
    BY <2>3 DEF Claim
  <2>5. k + 1 \in Nat
    BY <2>1
  <2>6. QED
    BY <2>4, <2>5 DEF T
<1>5. T \in SUBSET Nat
  OBVIOUS
<1> HIDE DEF T
<1>6. T = Nat
  BY <1>3, <1>4, <1>5, Induct
<1>7. ASSUME NEW x \in H, NEW t \in 0 .. Size, z - x <= t PROVE Claim(t, x)
  <2>1. z - x \in Nat
    BY <1>1, <1>2
  <2>2. z - x \in T /\ z - x <= z - x /\ z - x <= t
    BY <1>6, <1>7, <2>1
  <2> HIDE DEF Claim
  <2>3. QED
    BY <2>2 DEF T
<1>8. QED
  BY <1>7

-----------------------------------------------------------------------------
(* No header says more than a fragment may hold.                           *)
Bounded == \A i \in Ring : buffer[i].len <= MAX_FRAGMENT_LEN

LEMMA BoundedInit == Init => Bounded
<1>1. MAX_FRAGMENT_LEN \in Nat
  BY Sizes
<1>2. QED
  BY <1>1 DEF Init, Bounded, Zero

LEMMA BoundedNext == Inv /\ Bounded /\ [Next]_vars => Bounded'
<1> SUFFICES ASSUME Inv, Bounded, [Next]_vars PROVE Bounded'
  OBVIOUS
<1>1. MAX_FRAGMENT_LEN \in Nat /\ Size \in Nat
  BY Sizes
<1>2. ASSUME UNCHANGED buffer PROVE Bounded'
  BY <1>2 DEF Bounded
<1>3. CASE UNCHANGED vars
  BY <1>2, <1>3 DEF vars, ring
<1>4. ASSUME NEW sc \in Scatter, Begin(sc) PROVE Bounded'
  BY <1>2, <1>4 DEF Begin, ring
<1>5. CASE Drop
  BY <1>2, <1>5 DEF Drop, ring
<1>6. CASE Start
  BY <1>2, <1>6 DEF Start, ring
<1>7. CASE End
  <2>1. UNCHANGED buffer
    BY <1>7 DEF End, ring
  <2>2. QED
    BY <1>2, <2>1
<1>8. CASE Chunk
  <2>1. pc = "write" /\ write_ptr \in Ring /\ data_len \in Nat /\ fragment_len \in Nat
    <3>1. pc = "write" /\ Kinds /\ InCall
      BY <1>8 DEF Chunk, Inv
    <3>2. QED
      BY <3>1 DEF Kinds, InCall
  <2>2. write_ptr \in Nat /\ write_ptr < Size
    BY <1>1, <2>1 DEF Ring
  <2> DEFINE limit == Least(data_len, FragmentLen - fragment_offset)
  <2>3. fragment_offset = 0 => limit <= MAX_FRAGMENT_LEN
    <3>1. SUFFICES ASSUME fragment_offset = 0 PROVE limit <= MAX_FRAGMENT_LEN
      OBVIOUS
    <3>2. FragmentLen = Least(MAX_FRAGMENT_LEN, Size - write_ptr - 1)
      BY <1>1, <3>1 DEF FragmentLen
    <3>3. PICK e \in Int : e = Size - write_ptr - 1
      BY <1>1, <2>2
    <3>4. FragmentLen \in Int /\ FragmentLen <= MAX_FRAGMENT_LEN
      BY <1>1, <3>2, <3>3 DEF Least
    <3>5. PICK fl \in Int : fl = FragmentLen
      BY <3>4
    <3>6. Least(data_len, fl - 0) <= fl
      BY <2>1 DEF Least
    <3>7. Least(data_len, fl - 0) \in Int
      BY <2>1 DEF Least
    <3>8. QED
      BY <1>1, <3>1, <3>4, <3>5, <3>6, <3>7
  <2> HIDE DEF limit
  <2>4. ASSUME NEW i \in Ring
        PROVE  \/ buffer'[i] = Header(limit, data_len = limit) /\ fragment_offset = 0
               \/ \E k : buffer'[i] = Data(name, k)
               \/ buffer'[i] = buffer[i]
    BY <1>8 DEF Chunk, limit
  <2>5. ASSUME NEW i \in Ring PROVE buffer'[i].len <= MAX_FRAGMENT_LEN
    <3>1. CASE buffer'[i] = Header(limit, data_len = limit) /\ fragment_offset = 0
      BY <2>3, <3>1 DEF Header
    <3>2. CASE \E k : buffer'[i] = Data(name, k)
      BY <1>1, <3>2 DEF Data
    <3>3. CASE buffer'[i] = buffer[i]
      BY <3>3 DEF Bounded
    <3>4. QED
      BY <2>4, <3>1, <3>2, <3>3
  <2>6. QED
    BY <2>5 DEF Bounded
<1>9. QED
  BY <1>3, <1>4, <1>5, <1>6, <1>7, <1>8 DEF Next

(* Where the text of a readable message begins, scrolled by d characters.  *)
LEMMA MessageIs ==
  ASSUME Cells(buffer), Bounded, NEW a \in Ring, NEW z \in 1 .. Size - 1, NEW o,
         NEW n \in Nat, NEW H, NEW c, FragmentsAt(buffer, a, z, 0, o, n, 0, H, c),
         Readable(a), NEW d \in Nat, d = 0 \/ Scrollable(a)
  PROVE  HdrLen <= n /\ Skips(ui_objectlog_get_message(a, d), d, n - HdrLen, a, H, c)
<1>1. Size \in Nat /\ z \in Nat /\ z < Size /\ HdrLen \in Nat /\ ByteSpace \in Nat
      /\ ByteSpace > MAX_FRAGMENT_LEN /\ MAX_FRAGMENT_LEN \in Nat
  BY Sizes, ViewSizes
<1>2. 0 \in H /\ c[0] = n
  BY <1>1 DEF FragmentsAt
<1>3. At(a, 0) = a
  BY <1>1, AtType
<1>4a. PICK p \in Ring, len \in Nat, y \in Nat : Linked(a, z, o, H, c, 0, p, len, y)
  BY <1>2, Link
<1>4. /\ p = At(a, 0) /\ len = buffer[p].len /\ y = 0 + 1 + len
      /\ y <= z /\ p + len < Size /\ 0 \in 0 .. z - 1 /\ c[0] \in Nat
      /\ y = z => buffer[p].final /\ c[0] = len
      /\ y # z => /\ ~buffer[p].final /\ y \in H /\ c[y] \in Nat
                  /\ c[0] = len + c[y] /\ Following(p) = At(a, y)
      /\ \A q \in Nat : c[0] = len + q => objectlog_get_fragment(p) = Piece(o, len, q)
  BY <1>4a DEF Linked
<1>5. p = a /\ a \in Nat
  BY <1>3, <1>4, Sizes DEF Ring
<1>6. HdrLen <= len /\ len <= MAX_FRAGMENT_LEN
  BY <1>4, <1>5 DEF Readable, Bounded
<1>7. len <= n
  <2>1. y = z \/ y # z
    OBVIOUS
  <2>2. QED
    BY <1>2, <1>4, <2>1
<1>8. HdrLen <= n
  BY <1>1, <1>6, <1>7
<1>9. (len - HdrLen) % ByteSpace = len - HdrLen
  <2>1. PICK e \in Nat : e = len - HdrLen
    BY <1>1, <1>6
  <2>2. e < ByteSpace
    BY <1>1, <1>6, <2>1
  <2>3. e % ByteSpace = e
    BY <1>1, <2>2
  <2>4. QED
    BY <2>1, <2>3
<1> DEFINE cur == Cursor(a, a + 1 + HdrLen, len - HdrLen)
<1>10. ui_objectlog_get_message(a, d) = SkipText(cur, d)
  BY <1>4, <1>5, <1>9 DEF ui_objectlog_get_message
<1>11. a + 1 + HdrLen \in Nat /\ len - HdrLen \in Nat /\ HdrLen + (len - HdrLen) = len
       /\ n - HdrLen \in Nat /\ n = (n - HdrLen) + HdrLen
  BY <1>1, <1>5, <1>6, <1>8
<1>12. /\ cur \in Cursors /\ cur.iter = a /\ cur.ptr = a + 1 + HdrLen
       /\ cur.len = len - HdrLen
  BY <1>11 DEF Cursor, Cursors
<1> HIDE DEF cur
<1>13. Points(cur, a, H, c, 0, n - HdrLen)
  BY <1>1, <1>2, <1>3, <1>4, <1>5, <1>11, <1>12 DEF Points
<1>14. PICK f : SkipStep(f) /\ \A r, offset : SkipText(r, offset) = f[Size][r][offset]
  BY SkipIs
<1>15. PICK g : ReadStep(g) /\ \A iter : Fragments(iter) = g[Size][iter]
  BY FragmentsIs
<1>16. d = 0 \/ NoZero(g[Size][At(a, 0)])
  BY <1>3, <1>15 DEF Scrollable, NoZero
<1>17. Size \in 0 .. Size /\ z - 0 <= Size
  BY <1>1
<1>18. Skips(f[Size][cur][d], d, n - HdrLen, a, H, c)
  BY <1>2, <1>11, <1>12, <1>13, <1>14, <1>15, <1>16, <1>17, SkipsTo
<1>19. QED
  BY <1>8, <1>10, <1>14, <1>18

-----------------------------------------------------------------------------
(* A line drawn from a cursor on.                                          *)
Parts(o) == [x : Nat, text : Seq({o} \X Nat)]
TextsOf(P) == [j \in DOMAIN P |-> P[j].text]
Beside(P, x0) ==
  \A j \in DOMAIN P : P[j].x = IF j = 1 THEN x0 ELSE P[j - 1].x + Len(P[j - 1].text)

(* P shows as much of the last m bytes of object o as it should, from      *)
(* column x0 on.                                                           *)
LineIs(P, o, m, x0) ==
  /\ P \in Seq(Parts(o))
  /\ \E l \in Nat :
       /\ l <= m /\ Joined(P) = Piece(o, l, m - l)
       /\ x0 + l < ByteSpace => (l = m \/ x0 + l > Width) /\ Beside(P, x0)

LEMMA ConsIs ==
  ASSUME NEW S, NEW p \in S, NEW P \in Seq(S)
  PROVE  /\ <<p>> \o P \in Seq(S) /\ DOMAIN (<<p>> \o P) = 1 .. 1 + Len(P)
         /\ DOMAIN P = 1 .. Len(P) /\ Len(P) \in Nat /\ Len(<<p>> \o P) = 1 + Len(P)
         /\ (<<p>> \o P)[1] = p /\ \A j \in 1 .. Len(P) : (<<p>> \o P)[j + 1] = P[j]
<1>1. <<p>> \in Seq(S) /\ Len(<<p>>) = 1 /\ <<p>>[1] = p
  OBVIOUS
<1>2. PICK G : G = <<p>> \o P
  OBVIOUS
<1>3. /\ G \in Seq(S) /\ Len(G) = 1 + Len(P)
      /\ \A i \in 1 .. 1 + Len(P) : G[i] = IF i <= 1 THEN <<p>>[i] ELSE P[i - 1]
  BY <1>1, <1>2, ConcatProperties
<1>4. Len(P) \in Nat /\ DOMAIN P = 1 .. Len(P) /\ DOMAIN G = 1 .. 1 + Len(P)
  BY <1>3, LenProperties
<1>5. G[1] = p
  BY <1>1, <1>3, <1>4
<1>6. ASSUME NEW j \in 1 .. Len(P) PROVE G[j + 1] = P[j]
  <2>1. j + 1 \in 1 .. 1 + Len(P) /\ ~(j + 1 <= 1) /\ (j + 1) - 1 = j
    BY <1>4
  <2>2. QED
    BY <1>3, <2>1
<1>7. QED
  BY <1>2, <1>3, <1>4, <1>5, <1>6

LEMMA TextsOfType ==
  ASSUME NEW o, NEW P \in Seq(Parts(o))
  PROVE  /\ TextsOf(P) \in Seq(Seq({o} \X Nat)) /\ Len(TextsOf(P)) = Len(P)
         /\ TextsOf(P) = <<>> <=> P = <<>>
<1>1. Len(P) \in Nat /\ DOMAIN P = 1 .. Len(P) /\ \A j \in 1 .. Len(P) : P[j] \in Parts(o)
  BY LenProperties
<1>2. PICK n \in Nat : n = Len(P)
  BY <1>1
<1>3. PICK S : S = Seq({o} \X Nat)
  OBVIOUS
<1>4. ASSUME NEW j \in 1 .. n PROVE P[j].text \in S
  BY <1>1, <1>2, <1>3 DEF Parts
<1>5. TextsOf(P) = [j \in 1 .. n |-> P[j].text]
  BY <1>1, <1>2 DEF TextsOf
<1>6. TextsOf(P) \in [1 .. n -> S]
  BY <1>4, <1>5
<1>7. TextsOf(P) \in Seq(S) /\ Len(TextsOf(P)) = n
  BY <1>6, LenProperties
<1>8. (TextsOf(P) = <<>> <=> n = 0) /\ (P = <<>> <=> n = 0)
  BY <1>2, <1>7, EmptySeq
<1>9. QED
  BY <1>2, <1>3, <1>7, <1>8

LEMMA TextsOfCons ==
  ASSUME NEW o, NEW p \in Parts(o), NEW P \in Seq(Parts(o))
  PROVE  TextsOf(<<p>> \o P) = <<p.text>> \o TextsOf(P)
<1>1. PICK S : S = Seq({o} \X Nat)
  OBVIOUS
<1>2. p.text \in S /\ TextsOf(P) \in Seq(S) /\ Len(TextsOf(P)) = Len(P)
  BY <1>1, TextsOfType DEF Parts
<1>3. PICK G, T, K : G = <<p>> \o P /\ T = TextsOf(P) /\ K = <<p.text>> \o T
  OBVIOUS
<1>4. /\ DOMAIN G = 1 .. 1 + Len(P) /\ Len(P) \in Nat /\ DOMAIN P = 1 .. Len(P)
      /\ G[1] = p /\ \A j \in 1 .. Len(P) : G[j + 1] = P[j]
  BY <1>3, ConsIs
<1>5. /\ K \in Seq(S) /\ DOMAIN K = 1 .. 1 + Len(P)
      /\ K[1] = p.text /\ \A j \in 1 .. Len(P) : K[j + 1] = T[j]
  <2>1. T \in Seq(S) /\ Len(T) = Len(P)
    BY <1>2, <1>3
  <2>2. PICK t \in S : t = p.text
    BY <1>2
  <2>3. K = <<t>> \o T
    BY <1>3, <2>2
  <2>4. /\ <<t>> \o T \in Seq(S) /\ DOMAIN (<<t>> \o T) = 1 .. 1 + Len(T)
        /\ (<<t>> \o T)[1] = t /\ \A j \in 1 .. Len(T) : (<<t>> \o T)[j + 1] = T[j]
    BY <2>1, ConsIs
  <2>5. QED
    BY <2>1, <2>2, <2>3, <2>4
<1>6. ASSUME NEW j \in 1 .. 1 + Len(P) PROVE G[j].text = K[j]
  <2>1. CASE j = 1
    BY <1>4, <1>5, <2>1
  <2>2. CASE j # 1
    <3>1. j - 1 \in 1 .. Len(P) /\ (j - 1) + 1 = j
      BY <1>4, <2>2
    <3>2. G[j] = P[j - 1] /\ K[j] = T[j - 1]
      BY <1>4, <1>5, <3>1
    <3>3. T[j - 1] = P[j - 1].text
      BY <1>3, <1>4, <3>1 DEF TextsOf
    <3>4. QED
      BY <3>2, <3>3
  <2>3. QED
    BY <2>1, <2>2
<1>7. K = [j \in 1 .. 1 + Len(P) |-> K[j]]
  BY <1>5
<1>8. TextsOf(G) = K
  BY <1>4, <1>6, <1>7 DEF TextsOf
<1>9. QED
  BY <1>3, <1>8

LEMMA JoinedCons ==
  ASSUME NEW o, NEW p \in Parts(o), NEW P \in Seq(Parts(o))
  PROVE  /\ P = <<>> => Joined(<<p>> \o P) = p.text
         /\ P # <<>> => Joined(<<p>> \o P) = p.text \o Joined(P)
<1>1. PICK S : S = {o} \X Nat
  OBVIOUS
<1>2. PICK t \in Seq(S) : t = p.text
  BY <1>1 DEF Parts
<1>3. TextsOf(P) \in Seq(Seq(S)) /\ (TextsOf(P) = <<>> <=> P = <<>>)
  BY <1>1, TextsOfType
<1>4. Joined(P) = FlattenSeq(TextsOf(P)) /\ Joined(<<p>> \o P) = FlattenSeq(<<t>> \o TextsOf(P))
  <2>1. TextsOf(<<p>> \o P) = <<t>> \o TextsOf(P)
    BY <1>2, TextsOfCons
  <2>2. QED
    BY <2>1 DEF Joined, TextsOf
<1>5. CASE P = <<>>
  <2>1. <<t>> \o TextsOf(P) = <<t>>
    <3>1. TextsOf(P) = <<>> /\ <<t>> \in Seq(Seq(S))
      BY <1>3, <1>5
    <3>2. <<t>> \o <<>> = <<t>>
      BY <3>1
    <3>3. QED
      BY <3>1, <3>2
  <2>2. QED
    BY <1>2, <1>4, <1>5, <2>1, FlattenOne
<1>6. CASE P # <<>>
  <2>1. PICK T \in Seq(Seq(S)) : T = TextsOf(P) /\ T # <<>>
    BY <1>3, <1>6
  <2>2. FlattenSeq(<<t>> \o T) = t \o FlattenSeq(T)
    BY <2>1, FlattenCons
  <2>3. QED
    BY <1>2, <1>4, <1>6, <2>1, <2>2
<1>7. QED
  BY <1>5, <1>6

LEMMA JoinedNone == Joined(<<>>) = <<>>
<1>1. [j \in DOMAIN <<>> |-> <<>>[j].text] = <<>>
  OBVIOUS
<1>2. Joined(<<>>) = FlattenSeq(<<>>)
  BY <1>1 DEF Joined
<1>3. Len(<<>>) = 0
  OBVIOUS
<1>4. QED
  BY <1>2, <1>3 DEF FlattenSeq

LEMMA LineNone ==
  ASSUME NEW o, NEW x0 \in Nat
  PROVE  LineIs(<<>>, o, 0, x0)
<1>1. <<>> \in Seq(Parts(o)) /\ Beside(<<>>, x0)
  BY DEF Beside
<1>2. Piece(o, 0, 0) = <<>>
  <2>1. Piece(o, 0, 0) \in Seq({o} \X Nat) /\ Len(Piece(o, 0, 0)) = 0
    BY WholeType
  <2>2. QED
    BY <2>1, EmptySeq
<1>3. 0 \in Nat /\ 0 <= 0 /\ 0 - 0 = 0
  OBVIOUS
<1>4. QED
  BY <1>1, <1>2, <1>3, JoinedNone DEF LineIs

LEMMA LineOne ==
  ASSUME NEW o, NEW l \in Nat, NEW m \in Nat, NEW x0 \in Nat, l <= m,
         l = m \/ (x0 + l < ByteSpace => x0 + l > Width)
  PROVE  LineIs(<< [x |-> x0, text |-> Piece(o, l, m - l)] >>, o, m, x0)
<1> DEFINE p == [x |-> x0, text |-> Piece(o, l, m - l)]
<1>1. p \in Parts(o) /\ p.x = x0 /\ p.text = Piece(o, l, m - l)
  <2>1. m - l \in Nat
    OBVIOUS
  <2>2. Piece(o, l, m - l) \in Seq({o} \X Nat)
    BY <2>1, WholeType
  <2>3. QED
    BY <2>2 DEF Parts
<1> HIDE DEF p
<1>2. PICK S : S = Parts(o)
  OBVIOUS
<1>3. <<>> \in Seq(S) /\ <<p>> \in Seq(S) /\ <<p>> \o <<>> = <<p>>
  BY <1>1, <1>2
<1>4. Joined(<<p>>) = Piece(o, l, m - l)
  <2>1. <<>> = <<>> => Joined(<<p>> \o <<>>) = p.text
    BY <1>1, <1>2, <1>3, JoinedCons
  <2>2. QED
    BY <1>1, <1>3, <2>1
<1>5. Beside(<<p>>, x0)
  <2>1. DOMAIN <<p>> = {1} /\ <<p>>[1] = p
    OBVIOUS
  <2>2. QED
    BY <1>1, <2>1 DEF Beside
<1>6. LineIs(<<p>>, o, m, x0)
  BY <1>2, <1>3, <1>4, <1>5 DEF LineIs
<1>7. QED
  BY <1>6 DEF p

LEMMA LineCons ==
  ASSUME NEW o, NEW l \in Nat, NEW m \in Nat, NEW x0 \in Nat, NEW x1 \in Nat, NEW P,
         x0 + l < ByteSpace => x1 = x0 + l, LineIs(P, o, m, x1)
  PROVE  LineIs(<< [x |-> x0, text |-> Piece(o, l, m)] >> \o P, o, l + m, x0)
<1>0. ByteSpace \in Nat /\ Width \in Nat
  BY ViewSizes
<1> DEFINE p == [x |-> x0, text |-> Piece(o, l, m)]
<1>1. /\ p \in Parts(o) /\ p.x = x0 /\ p.text = Piece(o, l, m)
      /\ p.text \in Seq({o} \X Nat) /\ Len(p.text) = l
  <2>1. Piece(o, l, m) \in Seq({o} \X Nat) /\ Len(Piece(o, l, m)) = l
    BY WholeType
  <2>2. QED
    BY <2>1 DEF Parts
<1> HIDE DEF p
<1>2. PICK j \in Nat :
        /\ P \in Seq(Parts(o)) /\ j <= m /\ Joined(P) = Piece(o, j, m - j)
        /\ x1 + j < ByteSpace => (j = m \/ x1 + j > Width) /\ Beside(P, x1)
  BY DEF LineIs
<1>3. PICK q \in Nat : q = m - j
  BY <1>2
<1>4. PICK G : G = <<p>> \o P
  OBVIOUS
<1>5. /\ G \in Seq(Parts(o)) /\ DOMAIN G = 1 .. 1 + Len(P) /\ DOMAIN P = 1 .. Len(P)
      /\ Len(P) \in Nat /\ G[1] = p /\ \A k \in 1 .. Len(P) : G[k + 1] = P[k]
  <2>1. PICK S : S = Parts(o)
    OBVIOUS
  <2>2. p \in S /\ P \in Seq(S)
    BY <1>1, <1>2, <2>1
  <2>3. /\ <<p>> \o P \in Seq(S) /\ DOMAIN (<<p>> \o P) = 1 .. 1 + Len(P)
        /\ DOMAIN P = 1 .. Len(P) /\ Len(P) \in Nat
        /\ (<<p>> \o P)[1] = p /\ \A k \in 1 .. Len(P) : (<<p>> \o P)[k + 1] = P[k]
    BY <2>2, ConsIs
  <2>4. QED
    BY <1>4, <2>1, <2>3
<1>6. Joined(G) = Piece(o, l + j, q)
  <2>1. m = j + q
    BY <1>3
  <2>2. Piece(o, l, j + q) \o Piece(o, j, q) = Piece(o, l + j, q)
    <3>1. Adjoin(o, l, j, q)
      BY PieceJoin
    <3>2. QED
      BY <3>1 DEF Adjoin
  <2>3. CASE P = <<>>
    <3>1. Len(Piece(o, j, q)) = j /\ Joined(P) = <<>> /\ Len(<<>>) = 0
      BY <2>3, WholeType, JoinedNone
    <3>2. j = 0
      BY <1>2, <1>3, <3>1
    <3>3. Joined(G) = Piece(o, l, m)
      BY <1>1, <1>2, <1>4, <2>3, JoinedCons
    <3>4. l + j = l /\ m = q
      BY <1>3, <3>2
    <3>5. QED
      BY <3>3, <3>4
  <2>4. CASE P # <<>>
    <3>1. Joined(G) = p.text \o Joined(P)
      BY <1>1, <1>2, <1>4, <2>4, JoinedCons
    <3>2. QED
      BY <1>1, <1>2, <1>3, <2>1, <2>2, <3>1
  <2>5. QED
    BY <2>3, <2>4
<1>7. ASSUME x0 + (l + j) < ByteSpace
      PROVE  (l + j = l + m \/ x0 + (l + j) > Width) /\ Beside(G, x0)
  <2>1. x1 = x0 + l /\ x1 + j = x0 + (l + j)
    <3>1. x0 + l < ByteSpace
      BY <1>0, <1>7
    <3>2. x1 = x0 + l
      BY <3>1
    <3>3. QED
      BY <3>2
  <2>2. (j = m \/ x1 + j > Width) /\ Beside(P, x1)
    BY <1>2, <1>7, <2>1
  <2>3. ASSUME NEW k \in DOMAIN G
        PROVE  G[k].x = IF k = 1 THEN x0 ELSE G[k - 1].x + Len(G[k - 1].text)
    <3>1. CASE k = 1
      BY <1>1, <1>5, <3>1
    <3>2. CASE k = 2
      <4>1. 1 \in 1 .. Len(P) /\ 1 + 1 = 2 /\ 2 - 1 = 1
        BY <1>5, <3>2
      <4>2. G[2] = P[1] /\ P[1].x = x1
        BY <1>5, <2>2, <4>1 DEF Beside
      <4>3. G[1].x + Len(G[1].text) = x1
        BY <1>1, <1>5, <2>1
      <4>4. QED
        BY <3>2, <4>1, <4>2, <4>3
    <3>3. CASE k # 1 /\ k # 2
      <4>1. PICK i \in Nat : i = k - 1
        BY <1>5
      <4>2. /\ i \in 1 .. Len(P) /\ i - 1 \in 1 .. Len(P) /\ i # 1 /\ i + 1 = k
            /\ (i - 1) + 1 = k - 1
        BY <1>5, <3>3, <4>1
      <4>3. G[k] = P[i] /\ G[k - 1] = P[i - 1]
        <5>1. G[i + 1] = P[i] /\ G[(i - 1) + 1] = P[i - 1]
          BY <1>5, <4>2
        <5>2. QED
          BY <4>2, <5>1
      <4>4. P[i].x = P[i - 1].x + Len(P[i - 1].text)
        BY <1>5, <2>2, <4>2 DEF Beside
      <4>5. QED
        BY <3>3, <4>3, <4>4
    <3>4. QED
      BY <3>1, <3>2, <3>3
  <2>4. Beside(G, x0)
    BY <2>3 DEF Beside
  <2>5. l + j = l + m \/ x0 + (l + j) > Width
    BY <2>1, <2>2
  <2>6. QED
    BY <2>4, <2>5
<1>8. l + j <= l + m /\ (l + m) - (l + j) = q /\ l + j \in Nat
  BY <1>2, <1>3
<1>9. PICK i \in Nat : i = l + j
  BY <1>8
<1>10. LineIs(G, o, l + m, x0)
  BY <1>5, <1>6, <1>7, <1>8, <1>9 DEF LineIs
<1>11. QED
  BY <1>4, <1>10 DEF p

LEMMA LineFar ==
  ASSUME NEW o, NEW m \in Nat, NEW x0 \in Nat, NEW x1 \in Nat, NEW P,
         LineIs(P, o, m, x1), x0 < ByteSpace => x1 = x0
  PROVE  LineIs(P, o, m, x0)
<1>1. PICK l \in Nat :
        /\ P \in Seq(Parts(o)) /\ l <= m /\ Joined(P) = Piece(o, l, m - l)
        /\ x1 + l < ByteSpace => (l = m \/ x1 + l > Width) /\ Beside(P, x1)
  BY DEF LineIs
<1>2. ByteSpace \in Nat
  BY ViewSizes
<1>3. x0 + l < ByteSpace => x1 = x0
  BY <1>2
<1>4. QED
  BY <1>1, <1>3 DEF LineIs

LEMMA DrawsTo ==
  ASSUME Cells(buffer), NEW a \in Ring, NEW z \in 1 .. Size - 1, NEW o, NEW n,
         NEW H, NEW c, FragmentsAt(buffer, a, z, 0, o, n, 0, H, c),
         NEW f, DrawStep(f)
  PROVE  \A x \in H, t \in 0 .. Size, cur \in Cursors, m \in Nat, x0 \in Nat :
           z - x <= t /\ Points(cur, a, H, c, x, m)
             => LineIs(f[t][cur][x0], o, m, x0)
<1>1. Size \in Nat /\ z \in Nat /\ z < Size /\ ByteSpace \in Nat /\ ByteSpace > 0
  BY Sizes, ViewSizes
<1> DEFINE Claim(t, x) ==
             \A cur \in Cursors, m \in Nat, x0 \in Nat :
               Points(cur, a, H, c, x, m) => LineIs(f[t][cur][x0], o, m, x0)
           T == {k \in Nat : \A t \in 0 .. Size, x \in H :
                   z - x <= k /\ k <= t => Claim(t, x)}
<1>2. H \in SUBSET (0 .. z - 1)
  BY DEF FragmentsAt
<1>3. 0 \in T
  <2>1. \A x \in H : ~(z - x <= 0)
    BY <1>1, <1>2
  <2>2. QED
    BY <2>1
<1>4. ASSUME NEW k \in T PROVE k + 1 \in T
  <2>1. k \in Nat
    OBVIOUS
  <2>2. \A t \in 0 .. Size, x \in H : z - x <= k /\ k <= t => Claim(t, x)
    OBVIOUS
  <2> HIDE DEF T, Claim
  <2>3. ASSUME NEW t \in 0 .. Size, NEW x \in H, z - x <= k + 1, k + 1 <= t,
               NEW cur \in Cursors, NEW m \in Nat, NEW x0 \in Nat,
               Points(cur, a, H, c, x, m)
        PROVE  LineIs(f[t][cur][x0], o, m, x0)
    <3>1. /\ cur.iter = At(a, x)
          /\ \E s \in Nat : /\ s + cur.len = buffer[At(a, x)].len
                            /\ cur.ptr = At(a, x) + 1 + s /\ c[x] = m + s
      BY <2>3 DEF Points
    <3>2. cur.iter \in Ring /\ cur.ptr \in Nat /\ cur.len \in Nat
      BY DEF Cursors
    <3>3a. PICK p \in Ring, len \in Nat, y \in Nat : Linked(a, z, o, H, c, x, p, len, y)
      BY Link
    <3>3. /\ p = At(a, x) /\ len = buffer[p].len /\ y = x + 1 + len
          /\ y <= z /\ p + len < Size /\ x \in 0 .. z - 1 /\ c[x] \in Nat
          /\ y = z => buffer[p].final /\ c[x] = len
          /\ y # z => /\ ~buffer[p].final /\ y \in H /\ c[y] \in Nat
                      /\ c[x] = len + c[y] /\ Following(p) = At(a, y)
          /\ \A q \in Nat : c[x] = len + q => objectlog_get_fragment(p) = Piece(o, len, q)
      BY <3>3a DEF Linked
    <3>4. PICK s \in Nat : s + cur.len = len /\ c[x] = m + s
      BY <3>1, <3>3
    <3>5. PICK l \in Nat : l = cur.len
      BY <3>2
    <3>6. t # 0
      BY <1>1, <2>1, <2>3
    <3>7. PICK x1 \in Nat : x1 = Column(cur, x0)
      BY DrawnType
    <3>8. x0 + l < ByteSpace => x1 = x0 + l
      <4>1. PICK e \in Nat : e = x0 + l
        OBVIOUS
      <4>2. e < ByteSpace => e % ByteSpace = e
        BY <1>1
      <4>3. QED
        BY <3>5, <3>7, <4>1, <4>2 DEF Column
    <3>9. l <= m /\ Bytes(cur.ptr, l) = Piece(o, l, m - l)
      <4>1. cur.len <= m /\ Bytes(cur.ptr, cur.len) = Piece(o, cur.len, m - cur.len)
        BY <2>3, BytesAre
      <4>2. QED
        BY <3>5, <4>1
    <3>10. /\ l = 0 => Drawn(cur, x0) = <<>>
           /\ l # 0 => Drawn(cur, x0) = << [x |-> x0, text |-> Piece(o, l, m - l)] >>
      BY <3>5, <3>9 DEF Drawn
    <3>11. f[t][cur][x0] =
             IF Full(cur, x0) \/ objectlog_next(p) < 0 THEN Drawn(cur, x0)
             ELSE Drawn(cur, x0) \o f[t - 1][AtFragment(objectlog_next(p))][x1]
      <4>1. f[t][cur][x0] =
              IF Full(cur, x0) \/ objectlog_next(cur.iter) < 0 \/ t = 0 THEN Drawn(cur, x0)
              ELSE Drawn(cur, x0)
                   \o f[t - 1][AtFragment(objectlog_next(cur.iter))][Column(cur, x0)]
        BY DEF DrawStep
      <4>2. cur.iter = p
        BY <3>1, <3>3
      <4>3. QED
        BY <3>6, <3>7, <4>1, <4>2
    <3>12. CASE Full(cur, x0)
      <4>1. l # 0 /\ x1 > Width
        BY <3>5, <3>7, <3>12 DEF Full
      <4>2. x0 + l < ByteSpace => x0 + l > Width
        BY <3>8, <4>1
      <4>3. LineIs(<< [x |-> x0, text |-> Piece(o, l, m - l)] >>, o, m, x0)
        BY <3>9, <4>2, LineOne
      <4>4. QED
        BY <3>10, <3>11, <3>12, <4>1, <4>3
    <3>13. CASE ~Full(cur, x0) /\ y = z
      <4>1. objectlog_next(p) < 0
        BY <3>3, <3>13, NextIs
      <4>2. f[t][cur][x0] = Drawn(cur, x0)
        BY <3>11, <4>1
      <4>3. m = l
        <5>1. c[x] = len
          BY <3>3, <3>13
        <5>2. s + l = len /\ len = m + s
          BY <3>4, <3>5, <5>1
        <5>3. QED
          BY <5>2
      <4>4. CASE l = 0
        BY <3>10, <4>2, <4>3, <4>4, LineNone
      <4>5. CASE l # 0
        <5>1. LineIs(<< [x |-> x0, text |-> Piece(o, l, m - l)] >>, o, m, x0)
          BY <3>9, <4>3, LineOne
        <5>2. QED
          BY <3>10, <4>2, <4>5, <5>1
      <4>6. QED
        BY <4>4, <4>5
    <3>14. CASE ~Full(cur, x0) /\ y # z
      <4>1. PICK q \in Ring : q = Following(p) /\ q = At(a, y)
        BY <3>3, <3>14, FollowingType
      <4>2. objectlog_next(p) = q /\ ~(objectlog_next(p) < 0)
        BY <3>3, <3>14, <4>1, NextIs
      <4>3. t - 1 \in 0 .. Size /\ z - y <= k /\ k <= t - 1
        BY <1>1, <2>1, <2>3, <3>3, <3>6
      <4>4. PICK d : d = AtFragment(q)
        OBVIOUS
      <4>5. PICK j \in Nat : j = c[y]
        BY <3>3, <3>14
      <4>6. m = l + j
        <5>1. c[x] = len + j
          BY <3>3, <3>14, <4>5
        <5>2. s + l = len /\ len + j = m + s
          BY <3>4, <3>5, <5>1
        <5>3. QED
          BY <5>2
      <4>7. d \in Cursors /\ Points(d, a, H, c, y, j)
        <5>1. d \in Cursors
          BY <4>4, NextIs
        <5>2. d.iter = q /\ d.ptr = q + 1 /\ d.len = buffer[q].len
          BY <4>4 DEF AtFragment, Cursor
        <5>3. q \in Nat /\ buffer[q].len \in Nat
          BY Sizes DEF Ring, Cells
        <5>4. 0 + d.len = buffer[q].len /\ d.ptr = q + 1 + 0 /\ c[y] = j + 0
          BY <4>5, <5>2, <5>3
        <5>5. QED
          BY <3>3, <3>14, <4>1, <5>1, <5>2, <5>4 DEF Points
      <4>8. Claim(t - 1, y)
        BY <2>2, <3>3, <3>14, <4>3
      <4>9. PICK P : P = f[t - 1][d][x1]
        OBVIOUS
      <4>10. LineIs(P, o, j, x1)
        BY <4>7, <4>8, <4>9 DEF Claim
      <4>11. f[t][cur][x0] = Drawn(cur, x0) \o P
        BY <3>11, <3>14, <4>2, <4>4, <4>9
      <4>12. CASE l = 0
        <5>1. P \in Seq(Parts(o))
          BY <4>10 DEF LineIs
        <5>2. <<>> \o P = P
          <6>1. PICK S : S = Parts(o)
            OBVIOUS
          <6>2. QED
            BY <5>1, <6>1
        <5>3. m = j /\ (x0 < ByteSpace => x1 = x0)
          BY <3>8, <4>6, <4>12
        <5>4. LineIs(P, o, m, x0)
          BY <4>10, <5>3, LineFar
        <5>5. QED
          BY <3>10, <4>11, <4>12, <5>2, <5>4
      <4>13. CASE l # 0
        <5>1. LineIs(<< [x |-> x0, text |-> Piece(o, l, j)] >> \o P, o, l + j, x0)
          BY <3>8, <4>10, LineCons
        <5>2. m - l = j
          BY <4>6
        <5>3. QED
          BY <3>10, <4>6, <4>11, <4>13, <5>1, <5>2
      <4>14. QED
        BY <4>12, <4>13
    <3>15. QED
      BY <3>12, <3>13, <3>14
  <2>4. \A t \in 0 .. Size, x \in H : z - x <= k + 1 /\ k + 1 <= t => Claim(t, x)
    BY <2>3 DEF Claim
  <2>5. k + 1 \in Nat
    BY <2>1
  <2>6. QED
    BY <2>4, <2>5 DEF T
<1>5. T \in SUBSET Nat
  OBVIOUS
<1> HIDE DEF T
<1>6. T = Nat
  BY <1>3, <1>4, <1>5, Induct
<1>7. ASSUME NEW x \in H, NEW t \in 0 .. Size, z - x <= t PROVE Claim(t, x)
  <2>1. z - x \in Nat
    BY <1>1, <1>2
  <2>2. z - x \in T /\ z - x <= z - x /\ z - x <= t
    BY <1>6, <1>7, <2>1
  <2> HIDE DEF Claim
  <2>3. QED
    BY <2>2 DEF T
<1>8. QED
  BY <1>7

(* The line of a message shows what is due.                                *)
LEMMA RestIs ==
  ASSUME NEW o, NEW n \in Nat, NEW d \in Nat
  PROVE  /\ n < HdrLen + d + 1 => Rest(<<o, n>>, d) = <<>>
         /\ \A m \in Nat : n = HdrLen + d + m => Rest(<<o, n>>, d) = Piece(o, m, 0)
<1>1. HdrLen \in Nat
  BY ViewSizes
<1>2. PICK b \in Nat : b = HdrLen + d + 1
  BY <1>1
<1>3. Rest(<<o, n>>, d) = SubSeq(Whole(o, n), b, n)
  BY <1>2 DEF Rest
<1>4. ASSUME n < b PROVE Rest(<<o, n>>, d) = <<>>
  <2>1. PICK W : W = Whole(o, n)
    OBVIOUS
  <2>2. b \in Int /\ n \in Int
    OBVIOUS
  <2>3. SubSeq(W, b, n) = <<>>
    BY <1>4, <2>2, SubSeqEmpty
  <2>4. QED
    BY <1>3, <2>1, <2>3
<1>5. ASSUME NEW m \in Nat, n = HdrLen + d + m PROVE Rest(<<o, n>>, d) = Piece(o, m, 0)
  <2>1. PICK S : S = {o} \X Nat
    OBVIOUS
  <2>2. n - b + 1 = m /\ ((b <= n) <=> (m # 0))
    BY <1>1, <1>2, <1>5
  <2>3. ASSUME NEW i \in b .. n PROVE Whole(o, n)[i] = <<o, n + 1 - i>> /\ Whole(o, n)[i] \in S
    <3>1. i \in 1 .. n /\ n + 1 - i \in Nat
      BY <1>2, <1>1
    <3>2. QED
      BY <2>1, <3>1 DEF Whole
  <2>4. PICK s : s = SubSeq(Whole(o, n), b, n)
    OBVIOUS
  <2>5. /\ s \in Seq(S) /\ Len(s) = (IF b <= n THEN n - b + 1 ELSE 0)
        /\ \A i \in 1 .. n - b + 1 : s[i] = Whole(o, n)[b + i - 1]
    BY <2>3, <2>4, SubSeqProperties
  <2>6. Len(s) = m
    BY <2>2, <2>5
  <2>7. ASSUME NEW i \in 1 .. m PROVE s[i] = <<o, m + 0 + 1 - i>>
    <3>1. b + i - 1 \in b .. n /\ n + 1 - (b + i - 1) = m + 0 + 1 - i
      BY <1>2, <2>2
    <3>2. s[i] = Whole(o, n)[b + i - 1]
      BY <2>2, <2>5
    <3>3. PICK e : e = b + i - 1
      OBVIOUS
    <3>4. Whole(o, n)[e] = <<o, n + 1 - e>>
      BY <2>3, <3>1, <3>3
    <3>5. QED
      BY <3>1, <3>2, <3>3, <3>4
  <2>8. s = [i \in 1 .. m |-> s[i]]
    BY <2>5, <2>6, LenProperties
  <2>9. s = Piece(o, m, 0)
    BY <2>7, <2>8 DEF Piece
  <2>10. QED
    BY <1>3, <2>4, <2>9
<1>6. n < HdrLen + d + 1 => Rest(<<o, n>>, d) = <<>>
  BY <1>2, <1>4
<1>7. QED
  BY <1>5, <1>6

LEMMA NullShows ==
  ASSUME NEW o, NEW n \in Nat, NEW d \in Nat, n <= HdrLen + d
  PROVE  Shows(DrawLine(Null), Rest(<<o, n>>, d))
<1>1. HdrLen \in Nat /\ n < HdrLen + d + 1
  BY ViewSizes
<1>2. Rest(<<o, n>>, d) = <<>>
  BY <1>1, RestIs
<1>3. DrawLine(Null) = <<>>
  BY DEF DrawLine
<1>4. Len(Joined(<<>>)) = 0 /\ Len(<<>>) = 0
  BY JoinedNone
<1>5. SubSeq(<<>>, 1, 0) = <<>>
  <2>1. PICK e : e = <<>>
    OBVIOUS
  <2>2. 1 \in Int /\ 0 \in Int /\ 0 < 1
    OBVIOUS
  <2>3. SubSeq(e, 1, 0) = <<>>
    BY <2>2, SubSeqEmpty
  <2>4. QED
    BY <2>1, <2>3
<1>6. SideBySide(<<>>)
  BY DEF SideBySide
<1>7. Shows(<<>>, <<>>)
  BY <1>4, <1>5, <1>6, JoinedNone DEF Shows
<1>8. QED
  BY <1>2, <1>3, <1>7

LEMMA LineShows ==
  ASSUME NEW P, NEW o, NEW m \in Nat, LineIs(P, o, m, 0)
  PROVE  Shows(P, Piece(o, m, 0))
<1>1. PICK l \in Nat :
        /\ P \in Seq(Parts(o)) /\ l <= m /\ Joined(P) = Piece(o, l, m - l)
        /\ 0 + l < ByteSpace => (l = m \/ 0 + l > Width) /\ Beside(P, 0)
  BY DEF LineIs
<1>2. ByteSpace \in Nat /\ m - l \in Nat /\ 0 + l = l
  BY <1>1, ViewSizes
<1>3. Len(Joined(P)) = l
  <2>1. PICK e \in Nat : e = m - l
    BY <1>2
  <2>2. Joined(P) = Piece(o, l, e)
    BY <1>1, <2>1
  <2>3. Len(Piece(o, l, e)) = l
    BY WholeType
  <2>4. QED
    BY <2>2, <2>3
<1>4. SubSeq(Piece(o, m, 0), 1, l) = Piece(o, l, m - l)
  <2>1. PICK W : W = Piece(o, m, 0)
    OBVIOUS
  <2>2. PICK S : S = {o} \X Nat
    OBVIOUS
  <2>3. ASSUME NEW i \in 1 .. l PROVE W[i] = <<o, m + 1 - i>> /\ W[i] \in S
    <3>1. i \in 1 .. m /\ m + 0 + 1 - i = m + 1 - i /\ m + 1 - i \in Nat
      BY <1>1
    <3>2. W[i] = <<o, m + 0 + 1 - i>>
      BY <2>1, <3>1 DEF Piece
    <3>3. QED
      BY <2>2, <3>1, <3>2
  <2>4. PICK s : s = SubSeq(W, 1, l)
    OBVIOUS
  <2>5. /\ s \in Seq(S) /\ Len(s) = (IF 1 <= l THEN l - 1 + 1 ELSE 0)
        /\ \A i \in 1 .. l - 1 + 1 : s[i] = W[1 + i - 1]
    BY <2>3, <2>4, SubSeqProperties
  <2>6. Len(s) = l /\ l - 1 + 1 = l
    BY <2>5
  <2>7. ASSUME NEW i \in 1 .. l PROVE s[i] = <<o, l + (m - l) + 1 - i>>
    <3>1. 1 + i - 1 = i /\ l + (m - l) + 1 - i = m + 1 - i
      OBVIOUS
    <3>2. s[i] = W[i]
      BY <2>5, <2>6, <3>1
    <3>3. QED
      BY <2>3, <3>1, <3>2
  <2>8. s = [i \in 1 .. l |-> s[i]]
    BY <2>5, <2>6, LenProperties
  <2>9. s = Piece(o, l, m - l)
    BY <2>7, <2>8 DEF Piece
  <2>10. QED
    BY <2>1, <2>4, <2>9
<1>5. Len(Piece(o, m, 0)) = m
  BY WholeType
<1>6. CASE l >= ByteSpace
  BY <1>3, <1>6 DEF Shows
<1>7. CASE ~(l >= ByteSpace)
  <2>1. (l = m \/ l > Width) /\ Beside(P, 0)
    BY <1>1, <1>2, <1>7
  <2>2. SideBySide(P)
    BY <2>1 DEF SideBySide, Beside
  <2>3. QED
    BY <1>1, <1>3, <1>4, <1>5, <2>1, <2>2 DEF Shows
<1>8. QED
  BY <1>6, <1>7

(* Object k is shown as it should be, and is taken to its page.            *)
LEMMA MessageShows ==
  ASSUME Kinds, Bounded, NEW off, Placed(off), NEW k \in 1 .. num_entries,
         Readable(objectlog_iterator(k - 1))
  PROVE  /\ objectlog_iterator(k - 1) # Failed
         /\ buffer[objectlog_iterator(k - 1) + 1].data[1] = written[k][1]
         /\ \A d \in Nat : d = 0 \/ Scrollable(objectlog_iterator(k - 1))
              => Shows(DrawLine(ui_objectlog_get_message(objectlog_iterator(k - 1), d)),
                       Rest(written[k], d))
<1>1. Cells(buffer) /\ Size \in Nat /\ HdrLen \in Nat \ {0}
  BY Sizes, ViewSizes DEF Kinds
<1>2. PICK a, z, o, n :
        a = At(ptr_first, off[k]) /\ z = off[k + 1] - off[k]
        /\ o = written[k][1] /\ n = written[k][2]
  OBVIOUS
<1>3. a \in Ring /\ z \in 1 .. Size - 1 /\ n \in Nat /\ Stored(buffer, a, z, o, n)
  BY <1>2, ObjectIs
<1>4. written[k] = <<o, n>>
  <2>1. written[k] \in (0 .. Names - 1) \X Nat
    BY ObjectIs
  <2>2. QED
    BY <1>2, <2>1
<1>5. objectlog_iterator(k - 1) = a
  BY <1>2, Found
<1>6. PICK H, c : FragmentsAt(buffer, a, z, 0, o, n, 0, H, c)
  BY <1>3 DEF Stored, Fragmented
<1>7. Readable(a)
  BY <1>5
<1>8. a # Failed
  BY <1>3, Sizes DEF Ring, Failed
<1>9. buffer[a + 1].data[1] = o
  <2>1. 0 \in H /\ At(a, 0) = a
    <3>1. z # 0 /\ 0 \in 0 .. Size
      BY <1>1, <1>3
    <3>2. QED
      BY <1>3, <1>6, <3>1, AtType DEF FragmentsAt
  <2>2. PICK p \in Ring, len \in Nat, y \in Nat : Linked(a, z, o, H, c, 0, p, len, y)
    BY <1>1, <1>3, <1>6, <2>1, Link
  <2>3. /\ p = a /\ len = buffer[a].len /\ p + len < Size
        /\ y = z => c[0] = len
        /\ y # z => c[y] \in Nat /\ c[0] = len + c[y]
        /\ \A m \in Nat : c[0] = len + m => objectlog_get_fragment(p) = Piece(o, len, m)
    BY <2>1, <2>2 DEF Linked
  <2>4. PICK m \in Nat : c[0] = len + m
    <3>1. CASE y = z
      <4>1. c[0] = len + 0
        BY <2>3, <3>1
      <4>2. QED
        BY <4>1
    <3>2. CASE y # z
      BY <2>3, <3>2
    <3>3. QED
      BY <3>1, <3>2
  <2>5. HdrLen <= len
    BY <1>7, <2>3 DEF Readable
  <2>6. 1 \in 1 .. len
    BY <1>1, <2>5
  <2>7. a + 1 \in Ring
    BY <1>1, <1>3, <2>3, <2>6 DEF Ring
  <2>8. objectlog_get_fragment(a)[1] = buffer[a + 1].data
    BY <2>3, <2>6, <2>7 DEF objectlog_get_fragment
  <2>9. Piece(o, len, m)[1] = <<o, len + m + 1 - 1>>
    BY <2>6 DEF Piece
  <2>10. QED
    BY <2>3, <2>4, <2>8, <2>9
<1>10. ASSUME NEW d \in Nat, d = 0 \/ Scrollable(a)
       PROVE  Shows(DrawLine(ui_objectlog_get_message(a, d)), Rest(<<o, n>>, d))
  <2>1. PICK cur : cur = ui_objectlog_get_message(a, d)
    OBVIOUS
  <2>2. HdrLen <= n /\ Skips(cur, d, n - HdrLen, a, H, c)
    BY <1>1, <1>3, <1>6, <1>7, <1>10, <2>1, MessageIs
  <2>3. PICK e \in Nat : e = n - HdrLen
    BY <1>1, <1>3, <2>2
  <2>4. CASE cur = Null /\ e <= d
    <3>1. n <= HdrLen + d
      BY <1>1, <1>3, <2>3, <2>4
    <3>2. QED
      BY <1>3, <2>1, <2>4, <3>1, NullShows
  <2>5. CASE d <= e /\ \E y \in H : Points(cur, a, H, c, y, e - d)
    <3>1. PICK y \in H : Points(cur, a, H, c, y, e - d)
      BY <2>5
    <3>2. PICK m \in Nat : m = e - d
      BY <2>5
    <3>3. cur \in Cursors /\ cur.iter \in Ring
      BY <3>1 DEF Points, Cursors
    <3>4. cur # Null
      <4>1. Null.iter = Failed
        BY DEF Null, Cursor
      <4>2. cur.iter # Failed
        BY <3>3, Sizes DEF Ring, Failed
      <4>3. QED
        BY <4>1, <4>2
    <3>5. PICK f : DrawStep(f)
                   /\ \A r : DrawLine(r) = IF r = Null THEN <<>> ELSE f[Size][r][0]
      BY <1>1, DrawIs
    <3>6. Size \in 0 .. Size /\ z - y <= Size /\ 0 \in Nat
      <4>1. y \in 0 .. z - 1
        BY <1>6 DEF FragmentsAt
      <4>2. QED
        BY <1>1, <1>3, <4>1
    <3>7. Points(cur, a, H, c, y, m)
      BY <3>1, <3>2
    <3>8. LineIs(f[Size][cur][0], o, m, 0)
      BY <1>1, <1>3, <1>6, <3>3, <3>5, <3>6, <3>7, DrawsTo
    <3>9. DrawLine(cur) = f[Size][cur][0]
      BY <3>4, <3>5
    <3>10. n = HdrLen + d + m
      BY <1>1, <1>3, <2>3, <2>5, <3>2
    <3>11. Rest(<<o, n>>, d) = Piece(o, m, 0)
      BY <1>3, <3>10, RestIs
    <3>12. QED
      BY <2>1, <3>8, <3>9, <3>11, LineShows
  <2>6. QED
    BY <2>2, <2>3, <2>4, <2>5 DEF Skips
<1>11. QED
  BY <1>2, <1>4, <1>5, <1>8, <1>9, <1>10

-----------------------------------------------------------------------------
(* The object a page looks at in turn i, and the turn that looks at an     *)
(* object: the oldest, then the newest, the newest but one and so on.      *)
Turn(n, i) == IF i = 1 THEN 1 ELSE n - i + 2

LEMMA TurnType ==
  ASSUME NEW n \in Nat, NEW i \in 1 .. n
  PROVE  Turn(n, i) \in 1 .. n /\ Turn(n, Turn(n, i)) = i
<1>1. CASE i = 1
  BY <1>1 DEF Turn
<1>2. CASE i # 1
  <2>1. n - i + 2 \in 1 .. n /\ n - i + 2 # 1 /\ n - (n - i + 2) + 2 = i
    BY <1>2
  <2>2. QED
    BY <1>2, <2>1 DEF Turn
<1>3. QED
  BY <1>1, <1>2

LEMMA IterIs ==
  ASSUME Inv, pc = "idle", NEW i \in 1 .. num_entries
  PROVE  objectlog_iterator(Indices[i]) = objectlog_iterator(Turn(num_entries, i) - 1)
<1>1. num_entries \in Nat
  BY DEF Inv, Kinds
<1>2. Indices[i] = -(i - 1)
  BY DEF Indices
<1>3. CASE i = 1
  <2>1. Indices[i] = 0 /\ Turn(num_entries, i) - 1 = 0
    <3>1. PICK k \in Int : k = i - 1
      OBVIOUS
    <3>2. k = 0 /\ Turn(num_entries, i) = 1
      BY <1>3, <3>1 DEF Turn
    <3>3. -k = 0 - k
      OBVIOUS
    <3>4. 0 - k = 0 /\ Turn(num_entries, i) - 1 = 0
      BY <3>2
    <3>5. Indices[i] = -k
      BY <1>2, <3>1
    <3>6. QED
      BY <3>3, <3>4, <3>5
  <2>2. QED
    BY <2>1
<1>4. CASE i # 1
  <2>1. PICK j \in 1 .. num_entries - 1 : j = i - 1
    BY <1>1, <1>4
  <2>2. objectlog_iterator(-j) = objectlog_iterator(num_entries - j)
    BY InvEnds DEF EndsMeet
  <2>3. Indices[i] = -j
    BY <1>2, <2>1
  <2>4. Turn(num_entries, i) - 1 = num_entries - j
    BY <1>1, <1>4, <2>1 DEF Turn
  <2>5. QED
    BY <2>2, <2>3, <2>4
<1>5. QED
  BY <1>3, <1>4

(* The message of turn i as a page draws it, and whether it is on the page.*)
Asked(i) == objectlog_iterator(Indices[i])
DrawnLine(i, d) == DrawLine(ui_objectlog_get_message(Asked(i), d))
OnPage(i, page) ==
  Asked(i) # Failed /\ PageOf(buffer[Asked(i) + 1].data[1]) = page

(* f has the lines of the page after each of n turns, where turn i has the *)
(* line g[i] if it is among those of mine.                                 *)
Collects(f, g, mine, n, max) ==
  /\ f[0] = <<>>
  /\ \A i \in 1 .. n :
       f[i] = IF Len(f[i - 1]) < max /\ i \in mine THEN Append(f[i - 1], g[i])
              ELSE f[i - 1]

LEMMA LinesIs ==
  ASSUME num_entries \in Nat, NEW page, NEW d
  PROVE  \E f, g :
           /\ Collects(f, g, {i \in 1 .. num_entries : OnPage(i, page)}, num_entries, MaxLines)
           /\ \A i \in 1 .. num_entries : g[i] = DrawnLine(i, d)
           /\ ui_render_logs(page, d) = f[num_entries]
<1> DEFINE V == {DrawnLine(i, d) : i \in Nat}
           D == Seq(V)
           taken == [i \in Nat |-> OnPage(i, page)]
           g == [i \in Nat |-> DrawnLine(i, d)]
           step == [k \in Nat \ {0} |-> [s \in D |->
                     IF Len(s) < MaxLines /\ taken[k] THEN Append(s, g[k]) ELSE s]]
<1>1. <<>> \in D
  OBVIOUS
<1>2. step \in [Nat \ {0} -> [D -> D]]
  <2>1. ASSUME NEW k \in Nat \ {0}, NEW s \in D PROVE Append(s, g[k]) \in D
    <3>1. g[k] \in V
      OBVIOUS
    <3> HIDE DEF V, g
    <3>2. QED
      BY <3>1
  <2> HIDE DEF D, g, taken
  <2>2. QED
    BY <2>1
<1>3. PICK f : Recurs(f, D, <<>>, step, num_entries)
  <2>1. PICK E, z, st : E = D /\ z = <<>> /\ st = step
    OBVIOUS
  <2>2. z \in E /\ st \in [Nat \ {0} -> [E -> E]]
    BY <1>1, <1>2, <2>1
  <2>3. PICK f : Recurs(f, E, z, st, num_entries)
    BY <2>2, Recursion, Zenon
  <2>4. QED
    BY <2>1, <2>3
<1>4. /\ f \in [0 .. num_entries -> D] /\ f[0] = <<>>
      /\ \A k \in 1 .. num_entries : f[k] = step[k][f[k - 1]]
  BY <1>3 DEF Recurs
<1>5. ASSUME NEW k \in 1 .. num_entries
      PROVE  f[k] = IF Len(f[k - 1]) < MaxLines /\ OnPage(k, page)
                    THEN Append(f[k - 1], DrawnLine(k, d)) ELSE f[k - 1]
  <2>1. k \in Nat \ {0} /\ k \in Nat /\ k - 1 \in 0 .. num_entries
    OBVIOUS
  <2>2. PICK s \in D : s = f[k - 1]
    <3> HIDE DEF D
    <3>1. QED
      BY <1>4, <2>1
  <2>3. f[k] = step[k][s]
    BY <1>4, <2>2
  <2>4. step[k][s] = IF Len(s) < MaxLines /\ taken[k] THEN Append(s, g[k]) ELSE s
    <3> HIDE DEF D, g, taken
    <3>1. QED
      BY <2>1
  <2>5. taken[k] = OnPage(k, page)
    BY <2>1
  <2>6. g[k] = DrawnLine(k, d)
    BY <2>1
  <2> HIDE DEF step, D, g, taken
  <2>7. QED
    BY <2>2, <2>3, <2>4, <2>5, <2>6
<1> HIDE DEF step, D, taken
<1> DEFINE body(h) == [i \in 0 .. num_entries |->
                  IF i = 0 THEN <<>>
                  ELSE IF Len(h[i - 1]) < MaxLines /\ OnPage(i, page)
                       THEN Append(h[i - 1], DrawnLine(i, d)) ELSE h[i - 1]]
<1>6. f = body(f)
  <2>1. f = [i \in 0 .. num_entries |-> f[i]]
    BY <1>4
  <2>2. ASSUME NEW i \in 0 .. num_entries
        PROVE  f[i] = IF i = 0 THEN <<>>
                  ELSE IF Len(f[i - 1]) < MaxLines /\ OnPage(i, page)
                       THEN Append(f[i - 1], DrawnLine(i, d)) ELSE f[i - 1]
    <3>1. CASE i = 0
      BY <1>4, <3>1
    <3>2. CASE i # 0
      <4>1. i \in 1 .. num_entries
        BY <3>2
      <4>2. QED
        BY <1>5, <3>2, <4>1
    <3>3. QED
      BY <3>1, <3>2
  <2>3. QED
    BY <2>1, <2>2
<1> DEFINE G == CHOOSE h : h = body(h)
<1>7. G = body(G)
  <2> HIDE DEF body
  <2>1. QED
    BY <1>6, Zenon
<1>8. ui_render_logs(page, d) = G[num_entries]
  BY DEF ui_render_logs, OnPage, DrawnLine, Asked
<1> HIDE DEF G
<1>9. Collects(G, g, {i \in 1 .. num_entries : OnPage(i, page)}, num_entries, MaxLines)
  <2>1. G[0] = <<>>
    <3>1. 0 \in 0 .. num_entries
      OBVIOUS
    <3>2. QED
      BY <1>7, <3>1
  <2>2. ASSUME NEW i \in 1 .. num_entries
        PROVE  G[i] = IF Len(G[i - 1]) < MaxLines /\ i \in {j \in 1 .. num_entries : OnPage(j, page)}
                      THEN Append(G[i - 1], g[i]) ELSE G[i - 1]
    <3>1. i \in 0 .. num_entries /\ i # 0 /\ i \in Nat
      OBVIOUS
    <3>2. G[i] = IF Len(G[i - 1]) < MaxLines /\ OnPage(i, page)
                 THEN Append(G[i - 1], DrawnLine(i, d)) ELSE G[i - 1]
      BY <1>7, <3>1
    <3>3. g[i] = DrawnLine(i, d)
      BY <3>1
    <3> HIDE DEF g
    <3>4. QED
      BY <3>2, <3>3
  <2> HIDE DEF g
  <2>3. QED
    BY <2>1, <2>2 DEF Collects
<1>10. \A i \in 1 .. num_entries : g[i] = DrawnLine(i, d)
  OBVIOUS
<1> HIDE DEF g
<1>11. QED
  BY <1>8, <1>9, <1>10

-----------------------------------------------------------------------------
(* Which line an object gets: those of its page that earlier turns looked  *)
(* at come first.                                                          *)
Seen(mine, n, k) == {o \in mine : Turn(n, o) <= k}
Count(mine, n, k) == Cardinality(Seen(mine, n, k))
Line(mine, o) == Cardinality({j \in mine : j = 1 \/ (o # 1 /\ j >= o)})

LEMMA SeenIs ==
  ASSUME NEW n \in Nat, NEW mine \in SUBSET (1 .. n)
  PROVE  /\ \A k : Count(mine, n, k) \in Nat
         /\ Seen(mine, n, 0) = {} /\ Count(mine, n, 0) = 0
         /\ Count(mine, n, n) = Cardinality(mine)
         /\ Seen(mine, n, n) = mine
         /\ \A o \in mine : Line(mine, o) = Count(mine, n, Turn(n, o))
<1>1. IsFiniteSet(mine)
  <2>1. 1 \in Int /\ n \in Int
    OBVIOUS
  <2>2. IsFiniteSet(1 .. n)
    BY <2>1, FS_Interval
  <2>3. QED
    BY <2>2, FS_Subset
<1>2. ASSUME NEW k PROVE Count(mine, n, k) \in Nat
  <2>1. PICK S : S = Seen(mine, n, k)
    OBVIOUS
  <2>2. S \in SUBSET mine
    BY <2>1 DEF Seen
  <2>3. IsFiniteSet(S)
    BY <1>1, <2>2, FS_Subset
  <2>4. Cardinality(S) \in Nat
    BY <2>3, FS_CardinalityType
  <2>5. QED
    BY <2>1, <2>4 DEF Count
<1>3. \A o \in mine : Turn(n, o) \in 1 .. n
  BY TurnType
<1>4. Seen(mine, n, 0) = {}
  <2>1. \A o \in mine : ~(Turn(n, o) <= 0)
    BY <1>3
  <2>2. QED
    BY <2>1 DEF Seen
<1>5. Seen(mine, n, n) = mine
  <2>1. \A o \in mine : Turn(n, o) <= n
    BY <1>3
  <2>2. QED
    BY <2>1 DEF Seen
<1>6. Count(mine, n, 0) = 0
  BY <1>4, FS_EmptySet DEF Count
<1>7. ASSUME NEW o \in mine PROVE Line(mine, o) = Count(mine, n, Turn(n, o))
  <2>1. ASSUME NEW j \in mine
        PROVE  (j = 1 \/ (o # 1 /\ j >= o)) <=> (Turn(n, j) <= Turn(n, o))
    <3>1. j \in 1 .. n /\ o \in 1 .. n
      OBVIOUS
    <3>2. QED
      BY <3>1 DEF Turn
  <2>2. {j \in mine : j = 1 \/ (o # 1 /\ j >= o)} = Seen(mine, n, Turn(n, o))
    BY <2>1 DEF Seen
  <2>3. QED
    BY <2>2 DEF Line, Count
<1>8. QED
  BY <1>2, <1>4, <1>5, <1>6, <1>7 DEF Count

LEMMA SeenNext ==
  ASSUME NEW n \in Nat, NEW mine \in SUBSET (1 .. n), NEW k \in 1 .. n
  PROVE  /\ Turn(n, k) \in mine =>
              /\ Count(mine, n, k) = Count(mine, n, k - 1) + 1
              /\ \A o \in Seen(mine, n, k) :
                   o \in Seen(mine, n, k - 1) \/ Turn(n, o) = k
         /\ Turn(n, k) \notin mine =>
              /\ Count(mine, n, k) = Count(mine, n, k - 1)
              /\ Seen(mine, n, k) = Seen(mine, n, k - 1)
<1>1. PICK p \in 1 .. n : p = Turn(n, k) /\ Turn(n, p) = k
  BY TurnType
<1>2. ASSUME NEW o \in mine, Turn(n, o) = k PROVE o = p
  <2>1. o \in 1 .. n
    OBVIOUS
  <2>2. Turn(n, Turn(n, o)) = o
    BY <2>1, TurnType
  <2>3. QED
    BY <1>1, <1>2, <2>2
<1>3. ASSUME NEW o \in mine
      PROVE  (Turn(n, o) <= k) <=> (Turn(n, o) <= k - 1 \/ o = p)
  <2>1. o \in 1 .. n
    OBVIOUS
  <2>2. Turn(n, o) \in 1 .. n
    BY <2>1, TurnType
  <2>3. PICK t \in 1 .. n : t = Turn(n, o)
    BY <2>2
  <2>4. t = k <=> o = p
    BY <1>1, <1>2, <2>3
  <2>5. t <= k <=> (t <= k - 1 \/ t = k)
    BY <2>3
  <2>6. QED
    BY <2>3, <2>4, <2>5
<1>4. PICK S : S = Seen(mine, n, k - 1)
  OBVIOUS
<1>5. S \in SUBSET mine /\ IsFiniteSet(S) /\ Cardinality(S) = Count(mine, n, k - 1)
  <2>1. S \in SUBSET mine
    BY <1>4 DEF Seen
  <2>2. S \in SUBSET (1 .. n)
    BY <2>1
  <2>3. 1 \in Int /\ n \in Int
    OBVIOUS
  <2>4. IsFiniteSet(1 .. n)
    BY <2>3, FS_Interval
  <2>5. IsFiniteSet(S)
    BY <2>2, <2>4, FS_Subset
  <2>6. QED
    BY <1>4, <2>1, <2>5 DEF Count
<1>6. CASE Turn(n, k) \in mine
  <2>1. p \in mine
    BY <1>1, <1>6
  <2>2. Seen(mine, n, k) = S \cup {p}
    BY <1>3, <1>4, <2>1 DEF Seen
  <2>3. p \notin S
    <3>1. ~(k <= k - 1)
      OBVIOUS
    <3>2. QED
      BY <1>1, <1>4, <3>1 DEF Seen
  <2>4. Cardinality(S \cup {p}) = Cardinality(S) + 1
    BY <1>5, <2>3, FS_AddElement
  <2>5. Count(mine, n, k) = Count(mine, n, k - 1) + 1
    BY <1>5, <2>2, <2>4 DEF Count
  <2>6. ASSUME NEW o \in Seen(mine, n, k)
        PROVE  o \in Seen(mine, n, k - 1) \/ Turn(n, o) = k
    BY <1>1, <1>4, <2>2
  <2>7. QED
    BY <1>6, <2>5, <2>6
<1>7. CASE Turn(n, k) \notin mine
  <2>1. p \notin mine
    BY <1>1, <1>7
  <2>2. Seen(mine, n, k) = Seen(mine, n, k - 1)
    BY <1>3, <2>1 DEF Seen
  <2>3. QED
    BY <1>7, <2>2 DEF Count
<1>8. QED
  BY <1>6, <1>7

(* What the loop has collected after n turns.                              *)
LEMMA Ranks ==
  ASSUME NEW n \in Nat, NEW mine \in SUBSET (1 .. n), NEW max \in Nat, NEW f, NEW g,
         Collects(f, g, {i \in 1 .. n : Turn(n, i) \in mine}, n, max)
  PROVE  /\ Len(f[n]) = Least(max, Cardinality(mine))
         /\ \A o \in mine : Line(mine, o) <= max
                              => f[n][Line(mine, o)] = g[Turn(n, o)]
<1> DEFINE G == {g[i] : i \in 1 .. n}
           C(k) == Count(mine, n, k)
           Claim(k) ==
             /\ f[k] \in Seq(G) /\ Len(f[k]) = Least(max, C(k))
             /\ \A o \in Seen(mine, n, k) :
                  /\ C(Turn(n, o)) \in 1 .. C(k)
                  /\ C(Turn(n, o)) <= max => f[k][C(Turn(n, o))] = g[Turn(n, o)]
           T == {k \in Nat : k <= n => Claim(k)}
<1>1. 0 \in T
  <2>1. f[0] = <<>> /\ C(0) = 0 /\ Seen(mine, n, 0) = {}
    BY SeenIs DEF Collects
  <2>2. Least(max, 0) = 0
    BY DEF Least
  <2>3. Len(<<>>) = 0 /\ <<>> \in Seq(G)
    OBVIOUS
  <2> HIDE DEF C, G
  <2>4. Claim(0)
    BY <2>1, <2>2, <2>3
  <2> HIDE DEF Claim
  <2>5. QED
    BY <2>4
<1>2. ASSUME NEW j \in T PROVE j + 1 \in T
  <2>1. SUFFICES ASSUME j + 1 <= n PROVE Claim(j + 1)
    <3> HIDE DEF Claim
    <3>1. QED
      OBVIOUS
  <2>2. PICK k \in 1 .. n : k = j + 1
    BY <2>1
  <2>3. k - 1 = j /\ j <= n
    BY <2>2
  <2>4. Claim(j)
    <3> HIDE DEF Claim
    <3>1. QED
      BY <2>3
  <2>5. PICK s : s = f[j]
    OBVIOUS
  <2>6. PICK c \in Nat : c = C(j)
    BY SeenIs
  <2>7. /\ s \in Seq(G) /\ Len(s) = Least(max, c)
        /\ \A o \in Seen(mine, n, j) :
             /\ C(Turn(n, o)) \in 1 .. c
             /\ C(Turn(n, o)) <= max => s[C(Turn(n, o))] = g[Turn(n, o)]
    <3> HIDE DEF C, G
    <3>1. QED
      BY <2>4, <2>5, <2>6
  <2>8. f[k] = IF Len(s) < max /\ Turn(n, k) \in mine THEN Append(s, g[k]) ELSE s
    BY <2>3, <2>5 DEF Collects
  <2>9. CASE Turn(n, k) \notin mine
    <3>1. f[k] = s /\ C(k) = c /\ Seen(mine, n, k) = Seen(mine, n, j)
      <4>1. /\ Count(mine, n, k) = Count(mine, n, k - 1)
            /\ Seen(mine, n, k) = Seen(mine, n, k - 1)
        BY <2>9, SeenNext
      <4>2. Count(mine, n, k) = Count(mine, n, j) /\ Seen(mine, n, k) = Seen(mine, n, j)
        BY <2>3, <4>1
      <4>3. QED
        BY <2>6, <2>8, <2>9, <4>2
    <3> HIDE DEF C, G
    <3>2. Claim(k)
      BY <2>7, <3>1
    <3>3. QED
      BY <2>2, <3>2
  <2>10. CASE Turn(n, k) \in mine
    <3>1. C(k) = c + 1
      BY <2>3, <2>6, <2>10, SeenNext
    <3>2. \A o \in Seen(mine, n, k) : o \in Seen(mine, n, j) \/ Turn(n, o) = k
      <4>1. \A o \in Seen(mine, n, k) : o \in Seen(mine, n, k - 1) \/ Turn(n, o) = k
        BY <2>10, SeenNext
      <4>2. QED
        BY <2>3, <4>1
    <3>3. g[k] \in G
      OBVIOUS
    <3> HIDE DEF C, G
    <3>4. CASE Len(s) < max
      <4>1. c < max /\ Len(s) = c /\ Least(max, c + 1) = c + 1
        BY <2>7, <3>4 DEF Least
      <4>2. f[k] = Append(s, g[k])
        BY <2>8, <2>10, <3>4
      <4>3. PICK e \in G : e = g[k]
        BY <3>3
      <4>4. /\ Append(s, e) \in Seq(G) /\ Len(Append(s, e)) = c + 1
            /\ Append(s, e)[c + 1] = e
            /\ \A i \in 1 .. c : Append(s, e)[i] = s[i]
        BY <2>7, <4>1
      <4>5. ASSUME NEW o \in Seen(mine, n, k)
            PROVE  /\ C(Turn(n, o)) \in 1 .. c + 1
                   /\ C(Turn(n, o)) <= max => f[k][C(Turn(n, o))] = g[Turn(n, o)]
        <5>1. CASE Turn(n, o) = k
          BY <3>1, <4>2, <4>3, <4>4, <5>1
        <5>2. CASE o \in Seen(mine, n, j)
          <6>1. PICK i \in 1 .. c : i = C(Turn(n, o))
            BY <2>7, <5>2
          <6>2. i \in 1 .. c + 1
            OBVIOUS
          <6>3. i <= max => s[i] = g[Turn(n, o)]
            BY <2>7, <5>2, <6>1
          <6>4. f[k][i] = s[i]
            BY <4>2, <4>3, <4>4
          <6>5. QED
            BY <6>1, <6>2, <6>3, <6>4
        <5>3. QED
          BY <3>2, <5>1, <5>2
      <4>6. f[k] \in Seq(G) /\ Len(f[k]) = Least(max, C(k))
        BY <3>1, <4>1, <4>2, <4>3, <4>4
      <4>7. Claim(k)
        BY <3>1, <4>5, <4>6
      <4> HIDE DEF Claim
      <4>8. QED
        BY <2>2, <4>7
    <3>5. CASE ~(Len(s) < max)
      <4>1. ~(c + 1 <= max) /\ Len(s) = Least(max, c + 1)
        BY <2>7, <3>5 DEF Least
      <4>2. f[k] = s
        BY <2>8, <3>5
      <4>3. ASSUME NEW o \in Seen(mine, n, k)
            PROVE  /\ C(Turn(n, o)) \in 1 .. c + 1
                   /\ C(Turn(n, o)) <= max => f[k][C(Turn(n, o))] = g[Turn(n, o)]
        <5>1. CASE Turn(n, o) = k
          <6>1. c + 1 \in 1 .. c + 1
            OBVIOUS
          <6>2. QED
            BY <3>1, <4>1, <5>1, <6>1
        <5>2. CASE o \in Seen(mine, n, j)
          <6>1. PICK i \in 1 .. c : i = C(Turn(n, o))
            BY <2>7, <5>2
          <6>2. i \in 1 .. c + 1
            OBVIOUS
          <6>3. i <= max => s[i] = g[Turn(n, o)]
            BY <2>7, <5>2, <6>1
          <6>4. QED
            BY <4>2, <6>1, <6>2, <6>3
        <5>3. QED
          BY <3>2, <5>1, <5>2
      <4>4. Claim(k)
        BY <2>7, <3>1, <4>1, <4>2, <4>3
      <4>5. QED
        BY <2>2, <4>4
    <3>6. QED
      BY <3>4, <3>5
  <2>11. QED
    BY <2>9, <2>10
<1>3. T = Nat
  <2>1. T \in SUBSET Nat
    OBVIOUS
  <2> HIDE DEF T
  <2>2. QED
    BY <1>1, <1>2, <2>1, Induct
<1>4. Claim(n)
  <2>1. n \in T /\ n <= n
    BY <1>3
  <2> HIDE DEF Claim
  <2>2. QED
    BY <2>1
<1>5. Len(f[n]) = Least(max, Cardinality(mine))
  BY <1>4, SeenIs
<1>6. ASSUME NEW o \in mine, Line(mine, o) <= max
      PROVE  f[n][Line(mine, o)] = g[Turn(n, o)]
  <2>1. Line(mine, o) = C(Turn(n, o)) /\ o \in Seen(mine, n, n)
    BY SeenIs
  <2> HIDE DEF C
  <2>2. QED
    BY <1>4, <1>6, <2>1
<1>7. QED
  BY <1>5, <1>6

-----------------------------------------------------------------------------
(* Which messages a page has, and that it shows them.                      *)
Mine(page) == {i \in DOMAIN written : PageOf(written[i][1]) = page}

LEMMA PageShows ==
  ASSUME Inv, Bounded, pc = "idle", NEW page, NEW d \in Nat,
         \A i \in 1 .. num_entries : Readable(objectlog_iterator(i - 1))
  PROVE  /\ Len(ui_render_logs(page, d)) = Least(MaxLines, Cardinality(Mine(page)))
         /\ \A o \in Mine(page) :
              (/\ Line(Mine(page), o) <= MaxLines
               /\ d = 0 \/ Scrollable(objectlog_iterator(o - 1)))
                => Shows(ui_render_logs(page, d)[Line(Mine(page), o)], Rest(written[o], d))
<1>1. PICK off : Kinds /\ Placed(off)
  BY DEF Inv
<1>2. PICK n \in Nat : n = num_entries /\ DOMAIN written = 1 .. n
  BY <1>1 DEF Kinds
<1>3. Mine(page) \in SUBSET (1 .. n)
  BY <1>2 DEF Mine
<1>4. MaxLines \in Nat
  BY ViewSizes
<1>5. ASSUME NEW i \in 1 .. n
      PROVE  OnPage(i, page) <=> Turn(n, i) \in Mine(page)
  <2>1. PICK k \in 1 .. n : k = Turn(n, i)
    BY TurnType
  <2>2. k \in 1 .. num_entries
    BY <1>2
  <2>3. Readable(objectlog_iterator(k - 1))
    BY <2>2
  <2>4. Asked(i) = objectlog_iterator(k - 1)
    BY <1>2, <2>1, IterIs DEF Asked
  <2>5. Asked(i) # Failed /\ buffer[Asked(i) + 1].data[1] = written[k][1]
    BY <1>1, <2>2, <2>3, <2>4, MessageShows
  <2>6. OnPage(i, page) <=> PageOf(written[k][1]) = page
    BY <2>5 DEF OnPage
  <2>7. k \in Mine(page) <=> PageOf(written[k][1]) = page
    BY <1>2 DEF Mine
  <2>8. QED
    BY <2>1, <2>6, <2>7
<1>6. PICK f, g :
        /\ Collects(f, g, {i \in 1 .. num_entries : OnPage(i, page)}, num_entries, MaxLines)
        /\ \A i \in 1 .. num_entries : g[i] = DrawnLine(i, d)
        /\ ui_render_logs(page, d) = f[num_entries]
  BY <1>2, LinesIs
<1>7. Collects(f, g, {i \in 1 .. n : Turn(n, i) \in Mine(page)}, n, MaxLines)
  <2>1. {i \in 1 .. n : OnPage(i, page)} = {i \in 1 .. n : Turn(n, i) \in Mine(page)}
    BY <1>5
  <2>2. QED
    BY <1>2, <1>6, <2>1
<1>8. /\ Len(f[n]) = Least(MaxLines, Cardinality(Mine(page)))
      /\ \A o \in Mine(page) : Line(Mine(page), o) <= MaxLines
                                 => f[n][Line(Mine(page), o)] = g[Turn(n, o)]
  BY <1>3, <1>4, <1>7, Ranks
<1>9. ASSUME NEW o \in Mine(page), Line(Mine(page), o) <= MaxLines,
             d = 0 \/ Scrollable(objectlog_iterator(o - 1))
      PROVE  Shows(f[n][Line(Mine(page), o)], Rest(written[o], d))
  <2>1. o \in 1 .. n
    BY <1>3
  <2>2. PICK i \in 1 .. n : i = Turn(n, o) /\ Turn(n, i) = o
    BY <2>1, TurnType
  <2>3. Asked(i) = objectlog_iterator(o - 1)
    BY <1>2, <2>2, IterIs DEF Asked
  <2>4. o \in 1 .. num_entries /\ Readable(objectlog_iterator(o - 1))
    BY <1>2, <2>1
  <2>5. Shows(DrawLine(ui_objectlog_get_message(objectlog_iterator(o - 1), d)),
              Rest(written[o], d))
    BY <1>1, <1>9, <2>4, MessageShows
  <2>6. g[i] = DrawLine(ui_objectlog_get_message(objectlog_iterator(o - 1), d))
    BY <1>2, <1>6, <2>3 DEF DrawnLine
  <2>7. f[n][Line(Mine(page), o)] = g[i]
    BY <1>8, <1>9, <2>2
  <2>8. QED
    BY <2>5, <2>6, <2>7
<1>10. QED
  BY <1>2, <1>6, <1>8, <1>9

LEMMA InvShows == Inv /\ Bounded => PageShowsNewest
<1> SUFFICES ASSUME Inv, Bounded, pc = "idle",
                    \A i \in 1 .. num_entries : Readable(objectlog_iterator(i - 1)),
                    NEW page \in 0 .. Pages - 1, NEW d \in Scrolls
             PROVE  /\ Len(ui_render_logs(page, d))
                         = Least(MaxLines, Cardinality(Mine(page)))
                    /\ \A o \in Mine(page) :
                         (/\ Line(Mine(page), o) <= MaxLines
                          /\ d = 0 \/ Scrollable(objectlog_iterator(o - 1)))
                           => Shows(ui_render_logs(page, d)[Line(Mine(page), o)],
                                    Rest(written[o], d))
  BY DEF PageShowsNewest, Mine, Line
<1>1. d \in Nat
  BY ViewSizes
<1>2. QED
  BY <1>1, PageShows

(* In every state between two writes in which the messages are Readable,   *)
(* every page shows its newest messages from the bottom line up, each with *)
(* its text from the column the page is scrolled to, if it is Scrollable   *)
(* (ui_render_logs, ui_objectlog_get_message).                             *)
THEOREM PageAlwaysShowsNewest == Spec => []PageShowsNewest
<1>1. Init => Inv /\ Bounded
  BY InvInit, BoundedInit
<1>2. Inv /\ Bounded /\ [Next]_vars => Inv' /\ Bounded'
  BY InvNext, BoundedNext
<1>3. QED
  BY <1>1, <1>2, InvShows, PTL DEF Spec

=============================================================================
