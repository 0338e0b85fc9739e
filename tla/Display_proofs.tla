--------------------------- MODULE Display_proofs ----------------------------
(***************************************************************************)
(* Copies on the screen, of any size and over any distance, and the table of *)
(* messages that says what to draw again, for any number of slots; first the *)
(* copies.                                                                   *)
(***************************************************************************)
EXTENDS AesMessages, RasterCopy, WellFoundedInduction, TLAPS

\* A set of naturals has a least element: the induction used below.
LEMMA LeastNat ==
    ASSUME NEW T, T \subseteq Nat, T # {}
    PROVE  \E m \in T : \A y \in T : m <= y
<1> DEFINE Less == OpToRel(<, Nat)
<1>1. IsWellFoundedOn(Less, Nat)
  BY NatLessThanWellFounded
<1>2. \A x, y \in Nat : <<y, x>> \in Less <=> y < x
  BY DEF OpToRel
<1> HIDE DEF Less
<1>3. PICK x \in T : \A y \in T : <<y, x>> \notin Less
  BY <1>1, WFMin
<1>4. \A y \in T : x <= y
  <2> TAKE y \in T
  <2>1. x \in Nat /\ y \in Nat
    BY <1>3
  <2>2. ~(y < x)
    BY <1>2, <1>3, <2>1, Zenon
  <2>3. \A m, n \in Nat : ~(n < m) => m <= n
    OBVIOUS
  <2> QED
    BY <2>1, <2>2, <2>3, Zenon
<1> QED
  BY <1>4


-----------------------------------------------------------------------------
(* Copies on the screen.  A loop that copies row by row, pixel by pixel or    *)
(* piece by piece is a recursive function; each is shown to do what copying   *)
(* all at once would.                                                         *)

Images == [Places -> Places \cup {Outside}]

\* The places of S hold what lay at their distance, all at once.
Shifted(p, S, dx, dy) ==
    [c \in Places |-> IF c \in S THEN Sample(p, Moved(c, dx, dy)) ELSE p[c]]

\* A loop of m turns, each of which makes another element of S of the last.
Turns(f, S, m, first, G) ==
    /\ f \in [0..m -> S]
    /\ \A n \in 0..m : f[n] = IF n = 0 THEN first ELSE G[n][f[n - 1]]

LEMMA Iterates ==
    ASSUME NEW S, NEW m \in Nat, NEW first \in S, NEW G \in [1..m -> [S -> S]]
    PROVE  \E f : Turns(f, S, m, first, G)
<1> USE DEF Turns
<1> DEFINE Is(f, k) == Turns(f, S, k, first, G)
           Bad == {k \in 0..m : ~\E f : Is(f, k)}
<1>1. SUFFICES Bad = {}
  <2>1. m \in 0..m
    OBVIOUS
  <2> QED BY <1>1, <2>1
<1>2. SUFFICES ASSUME Bad # {}
               PROVE  FALSE
  OBVIOUS
<1>3. PICK k \in Bad : \A y \in Bad : k <= y
  <2>1. Bad \subseteq Nat
    OBVIOUS
  <2> QED BY <1>2, <2>1, LeastNat
<1>4. CASE k = 0
  <2> DEFINE g == [n \in 0..0 |-> first]
  <2>1. Is(g, 0)
    OBVIOUS
  <2> QED BY <1>3, <1>4, <2>1
<1>5. CASE k # 0
  <2>1. k - 1 \in 0..m /\ k \in 1..m /\ k - 1 \notin Bad
    <3>1. k \in 0..m
      OBVIOUS
    <3> HIDE DEF Bad
    <3> QED BY <1>3, <1>5, <3>1
  <2>2. PICK f : Is(f, k - 1)
    BY <2>1
  <2> DEFINE g == [n \in 0..k |-> IF n = k THEN G[k][f[k - 1]] ELSE f[n]]
  <2>3. f[k - 1] \in S /\ G[k][f[k - 1]] \in S
    BY <2>1, <2>2
  <2>4. g \in [0..k -> S]
    BY <2>1, <2>2, <2>3
  <2>5. \A n \in 0..k : g[n] = IF n = 0 THEN first ELSE G[n][g[n - 1]]
    <3> TAKE n \in 0..k
    <3>1. CASE n = k
      <4>1. n # 0 /\ g[n] = G[k][f[k - 1]] /\ g[n - 1] = f[k - 1]
        BY <2>1, <3>1
      <4> QED BY <3>1, <4>1
    <3>2. CASE n # k
      <4>1. n \in 0..k - 1 /\ (n # 0 => n - 1 \in 0..k - 1 /\ n - 1 # k)
        BY <2>1, <3>2
      <4>2. g[n] = f[n] /\ (n # 0 => g[n - 1] = f[n - 1])
        BY <2>1, <3>2, <4>1
      <4> QED BY <2>2, <4>1, <4>2
    <3> QED BY <3>1, <3>2
  <2> HIDE DEF g
  <2>6. Is(g, k)
    BY <2>4, <2>5
  <2> QED BY <1>3, <2>6
<1> QED BY <1>4, <1>5

\* A property that the first image has, and every turn hands on, the last has.
LEMMA TurnByTurn ==
    ASSUME NEW m \in Nat, NEW P \in [0..m -> BOOLEAN], P[0],
           \A n \in 1..m : P[n - 1] => P[n]
    PROVE  \A n \in 0..m : P[n]
<1> DEFINE Bad == {n \in 0..m : ~P[n]}
<1>1. SUFFICES ASSUME Bad # {}
               PROVE  FALSE
  OBVIOUS
<1>2. PICK k \in Bad : \A y \in Bad : k <= y
  <2>1. Bad \subseteq Nat
    OBVIOUS
  <2> QED BY <1>1, <2>1, LeastNat
<1>3. k \in 1..m /\ k - 1 \in 0..m
  BY <1>2
<1>4. k - 1 \notin Bad
  <2> HIDE DEF Bad
  <2> QED BY <1>2, <1>3
<1> QED BY <1>2, <1>3, <1>4

LEMMA AreaFacts ==
    ASSUME NEW d \in Areas
    PROVE  /\ d.x0 \in Nat /\ d.x1 \in Nat /\ d.y0 \in Nat /\ d.y1 \in Nat
           /\ d.x0 <= d.x1 /\ d.y0 <= d.y1 /\ d.x1 < PixelsWide /\ d.y1 < PixelsHigh
           /\ d.x1 - d.x0 + 1 \in Nat /\ d.y1 - d.y0 + 1 \in Nat
           /\ Inside(d) \subseteq Places
BY RasterAssumption DEF Areas, Columns, Lines, Inside, Places

LEMMA ShiftedIsImage ==
    ASSUME NEW p \in Images, NEW S, NEW dx \in Int, NEW dy \in Int
    PROVE  Shifted(p, S, dx, dy) \in Images
BY DEF Shifted, Images, Sample

\* What is copied later and does not read what was copied before is as good as
\* copied with it.
LEMMA ShiftedTwice ==
    ASSUME NEW p \in Images, NEW S, NEW T, NEW dx \in Int, NEW dy \in Int,
           \A c \in T : c \notin S /\ Moved(c, dx, dy) \notin S
    PROVE  Shifted(Shifted(p, S, dx, dy), T, dx, dy) = Shifted(p, S \cup T, dx, dy)
<1> DEFINE q == Shifted(p, S, dx, dy)
<1>1. \A c \in Places : Shifted(q, T, dx, dy)[c] = Shifted(p, S \cup T, dx, dy)[c]
  <2> TAKE c \in Places
  <2>1. CASE c \in T
    BY <2>1 DEF Shifted, Sample
  <2>2. CASE c \notin T
    BY <2>2 DEF Shifted
  <2> QED BY <2>1, <2>2
<1> QED BY <1>1 DEF Shifted

-----------------------------------------------------------------------------
\* A row is copied at once.
LEMMA RowAtOnce ==
    ASSUME NEW p \in Images, NEW d \in Areas, NEW y \in d.y0..d.y1, NEW dx \in Int, NEW dy \in Int,
           \A c \in Inside(d) : Moved(c, dx, dy) \in Places
    PROVE  RowCopied(p, d, y, dx, dy) = Shifted(p, (d.x0..d.x1) \X {y}, dx, dy)
<1>1. \A c \in Places : c \in Inside(d) /\ c[2] = y <=> c \in (d.x0..d.x1) \X {y}
  BY DEF Inside, Places
<1> DEFINE edge(c) == c[1] \div ByteWidth \in {d.x0 \div ByteWidth, d.x1 \div ByteWidth}
<1>2. RowCopied(p, d, y, dx, dy) =
        [c \in Places |->
            IF c \in Inside(d) /\ c[2] = y /\ edge(c) THEN p[Moved(c, dx, dy)]
            ELSE IF c \in Inside(d) /\ c[2] = y /\ ~edge(c) THEN p[Moved(c, dx, dy)]
            ELSE p[c]]
  BY DEF RowCopied
<1> HIDE DEF edge
<1>3. \A c \in Places :
        (IF c \in Inside(d) /\ c[2] = y /\ edge(c) THEN p[Moved(c, dx, dy)]
         ELSE IF c \in Inside(d) /\ c[2] = y /\ ~edge(c) THEN p[Moved(c, dx, dy)]
         ELSE p[c])
        = IF c \in (d.x0..d.x1) \X {y} THEN Sample(p, Moved(c, dx, dy)) ELSE p[c]
  BY <1>1 DEF Sample
<1> QED BY <1>2, <1>3 DEF Shifted

\* Row by row, away from the overlap, is all rows at once.
LEMMA RowsAtOnce ==
    ASSUME NEW p \in Images, NEW d \in Areas, NEW dx \in Int, NEW dy \in Int,
           \A c \in Inside(d) : Moved(c, dx, dy) \in Places
    PROVE  RowsCopied(p, d, dx, dy) = Shifted(p, Inside(d), dx, dy)
<1> DEFINE m == d.y1 - d.y0 + 1
           order == RowOrder(d, dy)
           turn(q, n) == RowCopied(q, d, order[n], dx, dy)
           part(n) == (d.x0..d.x1) \X {order[i] : i \in 1..n}
           G == [n \in 1..m |-> [q \in Images |-> turn(q, n)]]
<1>0. \A i \in 1..m : order[i] = IF dy > 0 THEN d.y1 - i + 1 ELSE d.y0 + i - 1
  BY DEF RowOrder
<1>1. m \in Nat /\ order \in [1..m -> d.y0..d.y1] /\ Len(order) = m
  BY AreaFacts DEF RowOrder
<1>2. ASSUME NEW q \in Images, NEW n \in 1..m
      PROVE  /\ turn(q, n) = Shifted(q, (d.x0..d.x1) \X {order[n]}, dx, dy)
             /\ turn(q, n) \in Images
  <2>1. order[n] \in d.y0..d.y1
    BY <1>1
  <2> HIDE DEF order
  <2> QED BY <2>1, RowAtOnce, ShiftedIsImage
<1>3. G \in [1..m -> [Images -> Images]]
  BY <1>2
<1>31. \A n \in 1..m, q \in Images : G[n][q] = RowCopied(q, d, order[n], dx, dy)
  OBVIOUS
<1> HIDE DEF G, m, order
<1>4. PICK f : Turns(f, Images, m, p, G)
  BY <1>1, <1>3, Iterates
<1>5. \A n \in 1..m : n - 1 \in 0..m /\ f[n - 1] \in Images
  BY <1>1, <1>4 DEF Turns
<1>6. f = [n \in 0..m |-> IF n = 0 THEN p ELSE RowCopied(f[n - 1], d, order[n], dx, dy)]
  <2>1. \A n \in 0..m : f[n] = IF n = 0 THEN p ELSE RowCopied(f[n - 1], d, order[n], dx, dy)
    <3> TAKE n \in 0..m
    <3>1. n # 0 => n \in 1..m
      BY <1>1
    <3> QED BY <1>4, <1>5, <1>31, <3>1 DEF Turns
  <2> QED BY <1>4, <2>1 DEF Turns
<1> DEFINE Is(g) == g = [n \in 0..m |-> IF n = 0 THEN p ELSE RowCopied(g[n - 1], d, order[n], dx, dy)]
           g == CHOOSE h : Is(h)
<1>7. RowsCopied(p, d, dx, dy) = g[m] /\ Is(g)
  <2>1. RowsCopied(p, d, dx, dy) = g[m]
    BY <1>1 DEF RowsCopied, order
  <2>2. Is(f)
    BY <1>6
  <2> HIDE DEF Is
  <2> QED BY <2>1, <2>2
<1> HIDE DEF g
<1>8. \A n \in 0..m : g[n] = IF n = 0 THEN p ELSE turn(g[n - 1], n)
  BY <1>7
<1> HIDE DEF Is
<1> DEFINE P == [n \in 0..m |-> g[n] = Shifted(p, part(n), dx, dy)]
<1>9. P[0]
  <2>1. part(0) = {}
    OBVIOUS
  <2>2. Shifted(p, {}, dx, dy) = p
    BY DEF Shifted, Images
  <2>3. 0 \in 0..m
    BY <1>1
  <2> QED BY <1>8, <2>1, <2>2, <2>3
<1>10. ASSUME NEW n \in 1..m, g[n - 1] = Shifted(p, part(n - 1), dx, dy)
       PROVE  g[n] = Shifted(p, part(n), dx, dy)
  <2> DEFINE q == g[n - 1]  row == (d.x0..d.x1) \X {order[n]}
  <2>1. q \in Images
    BY <1>10, ShiftedIsImage
  <2>2. g[n] = Shifted(q, row, dx, dy)
    BY <1>1, <1>2, <1>8, <2>1
  <2>3. {order[i] : i \in 1..n} = {order[i] : i \in 1..n - 1} \cup {order[n]}
    BY <1>1
  <2>4. \A c \in row : /\ c \in Inside(d) /\ c \notin part(n - 1)
                       /\ Moved(c, dx, dy) \in Places /\ Moved(c, dx, dy) \notin part(n - 1)
    <3> TAKE c \in row
    <3>1. c \in Inside(d) /\ Moved(c, dx, dy) \in Places /\ c[2] = order[n]
      BY <1>1 DEF Inside
    <3>2. \A i \in 1..n - 1 : order[i] # order[n] - dy /\ order[i] # order[n]
      <4>1. d.y0 \in Nat /\ d.y1 \in Nat /\ m = d.y1 - d.y0 + 1
        BY AreaFacts DEF m
      <4> TAKE i \in 1..n - 1
      <4>2. i \in 1..m /\ i \in Nat /\ n \in Nat /\ i < n
        BY <1>1
      <4>3. order[n] = IF dy > 0 THEN d.y1 - n + 1 ELSE d.y0 + n - 1
        BY <1>0
      <4>4. order[i] = IF dy > 0 THEN d.y1 - i + 1 ELSE d.y0 + i - 1
        BY <1>0, <4>2
      <4> HIDE DEF order, m
      <4> QED BY <4>1, <4>2, <4>3, <4>4
    <3>3. Moved(c, dx, dy)[2] = order[n] - dy
      BY <3>1 DEF Moved
    <3> QED BY <3>1, <3>2, <3>3
  <2>5. part(n) = part(n - 1) \cup row
    BY <1>1, <2>3
  <2> HIDE DEF part, row
  <2> QED BY <1>10, <2>2, <2>4, <2>5, ShiftedTwice
<1>11. \A n \in 0..m : P[n]
  <2>1. P \in [0..m -> BOOLEAN] /\ m \in Nat
    BY <1>1
  <2>2. \A n \in 1..m : P[n - 1] => P[n]
    <3> TAKE n \in 1..m
    <3>1. n - 1 \in 0..m /\ n \in 0..m
      BY <1>1
    <3> HIDE DEF part
    <3> QED BY <1>10, <3>1
  <2> HIDE DEF P
  <2> QED BY <1>9, <2>1, <2>2, TurnByTurn
<1>12. part(m) = Inside(d)
  <2>1. {order[i] : i \in 1..m} = d.y0..d.y1
    <3>1. ASSUME NEW y \in d.y0..d.y1
          PROVE  \E i \in 1..m : order[i] = y
      <4>1. CASE dy > 0
        <5>1. d.y1 - y + 1 \in 1..m
          BY AreaFacts DEF m
        <5>2. order[d.y1 - y + 1] = y
          BY <1>0, <4>1, <5>1, AreaFacts DEF m
        <5> QED BY <5>1, <5>2
      <4>2. CASE ~(dy > 0)
        <5>1. y - d.y0 + 1 \in 1..m
          BY AreaFacts DEF m
        <5>2. order[y - d.y0 + 1] = y
          BY <1>0, <4>2, <5>1, AreaFacts DEF m
        <5> QED BY <5>1, <5>2
      <4> QED BY <4>1, <4>2
    <3> QED BY <1>1, <3>1
  <2> QED BY <2>1 DEF Inside
<1>13. m \in 0..m
  BY <1>1
<1> HIDE DEF part
<1> QED BY <1>7, <1>11, <1>12, <1>13
\* Pixel by pixel is a line at once, when nothing is read that is written.
LEMMA LineAtOnce ==
    ASSUME NEW p \in Images, NEW d \in Areas, NEW y \in d.y0..d.y1, NEW dx \in Int, NEW dy \in Int,
           \A c \in Inside(d) : Moved(c, dx, dy) \notin Inside(d)
    PROVE  LineCopied(p, d, y, dx, dy) = Shifted(p, (d.x0..d.x1) \X {y}, dx, dy)
<1> DEFINE m == d.x1 - d.x0 + 1
           at(n) == <<d.x0 + n - 1, y>>
           turn(q, n) == [q EXCEPT ![at(n)] = Sample(q, Moved(at(n), dx, dy))]
           part(n) == (d.x0..d.x0 + n - 1) \X {y}
           G == [n \in 1..m |-> [q \in Images |-> turn(q, n)]]
<1>1. m \in Nat /\ d.x0 \in Nat /\ d.x1 = d.x0 + m - 1
  BY AreaFacts
<1>2. ASSUME NEW n \in 1..m
      PROVE  at(n) \in Inside(d) /\ at(n) \in Places
  BY <1>1, AreaFacts DEF Inside
<1>3. ASSUME NEW q \in Images, NEW n \in 1..m
      PROVE  /\ turn(q, n) = Shifted(q, {at(n)}, dx, dy)
             /\ turn(q, n) \in Images
  <2>1. at(n) \in Places
    BY <1>2
  <2> HIDE DEF at
  <2>2. turn(q, n) = Shifted(q, {at(n)}, dx, dy)
    BY <2>1 DEF Shifted, Images
  <2> QED BY <2>2, ShiftedIsImage
<1>4. G \in [1..m -> [Images -> Images]]
  BY <1>3
<1>5. \A n \in 1..m, q \in Images : G[n][q] = turn(q, n)
  OBVIOUS
<1> HIDE DEF G, m
<1>6. PICK f : Turns(f, Images, m, p, G)
  BY <1>1, <1>4, Iterates
<1> DEFINE Is(h) == h = [n \in 0..m |-> IF n = 0 THEN p ELSE turn(h[n - 1], n)]
           g == CHOOSE h : Is(h)
<1>7. Is(f)
  <2>1. \A n \in 0..m : f[n] = IF n = 0 THEN p ELSE turn(f[n - 1], n)
    <3> TAKE n \in 0..m
    <3>1. n # 0 => n \in 1..m /\ f[n - 1] \in Images
      BY <1>1, <1>6 DEF Turns
    <3> HIDE DEF turn
    <3> QED BY <1>5, <1>6, <3>1 DEF Turns
  <2> HIDE DEF turn
  <2> QED BY <1>6, <2>1 DEF Turns
<1>8. LineCopied(p, d, y, dx, dy) = g[m]
  BY DEF LineCopied, m
<1>9. Is(g)
  <2> HIDE DEF Is
  <2> QED BY <1>7
<1> HIDE DEF g
<1>10. \A n \in 0..m : g[n] = IF n = 0 THEN p ELSE turn(g[n - 1], n)
  <2> HIDE DEF turn
  <2> QED BY <1>9
<1> HIDE DEF Is
<1> DEFINE P == [n \in 0..m |-> g[n] = Shifted(p, part(n), dx, dy)]
<1>11. P[0]
  <2>1. part(0) = {}
    BY <1>1
  <2>2. Shifted(p, {}, dx, dy) = p
    BY DEF Shifted, Images
  <2>3. 0 \in 0..m
    BY <1>1
  <2> QED BY <1>10, <2>1, <2>2, <2>3
<1>12. ASSUME NEW n \in 1..m, g[n - 1] = Shifted(p, part(n - 1), dx, dy)
       PROVE  g[n] = Shifted(p, part(n), dx, dy)
  <2> DEFINE q == g[n - 1]
  <2>1. q \in Images
    BY <1>12, ShiftedIsImage
  <2>2. g[n] = Shifted(q, {at(n)}, dx, dy)
    <3> HIDE DEF turn, at
    <3> QED BY <1>1, <1>3, <1>10, <2>1
  <2>3. part(n) = part(n - 1) \cup {at(n)}
    BY <1>1
  <2>4. part(n - 1) \subseteq Inside(d)
    BY <1>1, AreaFacts DEF Inside
  <2>5. at(n) \notin part(n - 1)
    BY <1>1
  <2>6. Moved(at(n), dx, dy) \notin part(n - 1)
    <3> HIDE DEF at, part
    <3> QED BY <1>2, <2>4
  <2> HIDE DEF part, at
  <2> QED BY <1>12, <2>2, <2>3, <2>5, <2>6, ShiftedTwice
<1>13. \A n \in 0..m : P[n]
  <2>1. P \in [0..m -> BOOLEAN] /\ m \in Nat
    BY <1>1
  <2>2. \A n \in 1..m : P[n - 1] => P[n]
    <3> TAKE n \in 1..m
    <3>1. n - 1 \in 0..m /\ n \in 0..m
      BY <1>1
    <3> HIDE DEF part
    <3> QED BY <1>12, <3>1
  <2> HIDE DEF P
  <2> QED BY <1>11, <2>1, <2>2, TurnByTurn
<1>14. part(m) = (d.x0..d.x1) \X {y} /\ m \in 0..m
  BY <1>1
<1> HIDE DEF part
<1> QED BY <1>8, <1>13, <1>14

\* So is line by line.
LEMMA LinesAtOnce ==
    ASSUME NEW p \in Images, NEW d \in Areas, NEW dx \in Int, NEW dy \in Int,
           \A c \in Inside(d) : Moved(c, dx, dy) \notin Inside(d)
    PROVE  PixelsCopied(p, d, dx, dy) = Shifted(p, Inside(d), dx, dy)
<1> DEFINE m == d.y1 - d.y0 + 1
           line(n) == (d.x0..d.x1) \X {d.y0 + n - 1}
           turn(q, n) == LineCopied(q, d, d.y0 + n - 1, dx, dy)
           part(n) == (d.x0..d.x1) \X (d.y0..d.y0 + n - 1)
           G == [n \in 1..m |-> [q \in Images |-> turn(q, n)]]
<1>1. m \in Nat /\ d.y0 \in Nat /\ d.y1 = d.y0 + m - 1
  BY AreaFacts
<1>2. ASSUME NEW q \in Images, NEW n \in 1..m
      PROVE  /\ turn(q, n) = Shifted(q, line(n), dx, dy)
             /\ turn(q, n) \in Images
  <2>1. d.y0 + n - 1 \in d.y0..d.y1
    BY <1>1
  <2> QED BY <2>1, LineAtOnce, ShiftedIsImage
<1>3. G \in [1..m -> [Images -> Images]]
  BY <1>2
<1>4. \A n \in 1..m, q \in Images : G[n][q] = turn(q, n)
  OBVIOUS
<1> HIDE DEF G, m
<1>5. PICK f : Turns(f, Images, m, p, G)
  BY <1>1, <1>3, Iterates
<1> DEFINE Is(h) == h = [n \in 0..m |-> IF n = 0 THEN p ELSE turn(h[n - 1], n)]
           g == CHOOSE h : Is(h)
<1>6. Is(f)
  <2>1. \A n \in 0..m : f[n] = IF n = 0 THEN p ELSE turn(f[n - 1], n)
    <3> TAKE n \in 0..m
    <3>1. n # 0 => n \in 1..m /\ f[n - 1] \in Images
      BY <1>1, <1>5 DEF Turns
    <3> HIDE DEF turn
    <3> QED BY <1>4, <1>5, <3>1 DEF Turns
  <2> HIDE DEF turn
  <2> QED BY <1>5, <2>1 DEF Turns
<1>7. PixelsCopied(p, d, dx, dy) = g[m]
  BY DEF PixelsCopied, m
<1>8. Is(g)
  <2> HIDE DEF Is
  <2> QED BY <1>6
<1> HIDE DEF g
<1>9. \A n \in 0..m : g[n] = IF n = 0 THEN p ELSE turn(g[n - 1], n)
  <2> HIDE DEF turn
  <2> QED BY <1>8
<1> HIDE DEF Is
<1> DEFINE P == [n \in 0..m |-> g[n] = Shifted(p, part(n), dx, dy)]
<1>10. P[0]
  <2>1. part(0) = {}
    BY <1>1
  <2>2. Shifted(p, {}, dx, dy) = p
    BY DEF Shifted, Images
  <2>3. 0 \in 0..m
    BY <1>1
  <2> QED BY <1>9, <2>1, <2>2, <2>3
<1>11. ASSUME NEW n \in 1..m, g[n - 1] = Shifted(p, part(n - 1), dx, dy)
       PROVE  g[n] = Shifted(p, part(n), dx, dy)
  <2> DEFINE q == g[n - 1]
  <2>1. q \in Images
    BY <1>11, ShiftedIsImage
  <2>2. g[n] = Shifted(q, line(n), dx, dy)
    <3> HIDE DEF turn, line
    <3> QED BY <1>1, <1>2, <1>9, <2>1
  <2>3. part(n) = part(n - 1) \cup line(n)
    BY <1>1
  <2>4. part(n - 1) \subseteq Inside(d) /\ line(n) \subseteq Inside(d)
    BY <1>1 DEF Inside
  <2>5. \A c \in line(n) : c \notin part(n - 1)
    BY <1>1
  <2>6. \A c \in line(n) : Moved(c, dx, dy) \notin part(n - 1)
    <3> HIDE DEF line, part
    <3> QED BY <2>4
  <2> HIDE DEF part, line
  <2> QED BY <1>11, <2>2, <2>3, <2>5, <2>6, ShiftedTwice
<1>12. \A n \in 0..m : P[n]
  <2>1. P \in [0..m -> BOOLEAN] /\ m \in Nat
    BY <1>1
  <2>2. \A n \in 1..m : P[n - 1] => P[n]
    <3> TAKE n \in 1..m
    <3>1. n - 1 \in 0..m /\ n \in 0..m
      BY <1>1
    <3> HIDE DEF part
    <3> QED BY <1>11, <3>1
  <2> HIDE DEF P
  <2> QED BY <1>10, <2>1, <2>2, TurnByTurn
<1>13. part(m) = Inside(d) /\ m \in 0..m
  BY <1>1 DEF Inside
<1> HIDE DEF part
<1> QED BY <1>7, <1>12, <1>13

-----------------------------------------------------------------------------
\* One piece, by either path.
LEMMA PieceAtOnce ==
    ASSUME NEW p \in Images, NEW dst \in Areas, NEW dx \in Int, NEW dy \in Int,
           NEW clip \in Areas,
           \/ \A c \in Inside(dst) : Moved(c, dx, dy) \notin Inside(dst)
           \/ ByBytes(Clipped(dst, clip), dx, dy)
    PROVE  Blitted(p, dst, dx, dy, clip) = Shifted(p, Inside(Clipped(dst, clip)), dx, dy)
<1> DEFINE d == Clipped(dst, clip)
<1>1. /\ d.x0 \in Columns /\ d.x1 \in Columns /\ d.y0 \in Lines /\ d.y1 \in Lines
      /\ Inside(d) \subseteq Inside(dst)
  BY AreaFacts DEF Areas, Clipped, AtLeast, AtMost, Columns, Lines, Inside
<1>2. d \in [x0 : Columns, x1 : Columns, y0 : Lines, y1 : Lines]
  BY <1>1 DEF Clipped
<1> HIDE DEF d
<1>3. CASE d \notin Areas
  <2>1. ~(d.x0 <= d.x1 /\ d.y0 <= d.y1)
    BY <1>2, <1>3 DEF Areas
  <2>2. d.x0 \in Int /\ d.x1 \in Int /\ d.y0 \in Int /\ d.y1 \in Int
    BY <1>1, RasterAssumption DEF Columns, Lines
  <2>3. Inside(d) = {}
    BY <2>1, <2>2 DEF Inside
  <2>4. Shifted(p, {}, dx, dy) = p
    BY DEF Shifted, Images
  <2> QED BY <1>3, <2>3, <2>4 DEF Blitted, d
<1>4. CASE d \in Areas /\ ByBytes(d, dx, dy)
  <2>1. \A c \in Inside(d) : Moved(c, dx, dy) \in Places
    BY <1>4 DEF ByBytes
  <2> QED BY <1>4, <2>1, RowsAtOnce DEF Blitted, d
<1>5. CASE d \in Areas /\ ~ByBytes(d, dx, dy)
  <2>1. \A c \in Inside(d) : Moved(c, dx, dy) \notin Inside(d)
    BY <1>1, <1>5 DEF d
  <2> QED BY <1>5, <2>1, LinesAtOnce DEF Blitted, d
<1> QED BY <1>3, <1>4, <1>5

\* The pieces are on the screen, and together they are the screen.
LEMMA ClipFacts ==
    ASSUME NEW clips \in Clips, NEW dst \in Areas
    PROVE  /\ clips \in Seq(Areas) /\ Len(clips) \in {1, 2}
           /\ Len(clips) = 1 => Clipped(dst, clips[1]) = dst
           /\ Len(clips) = 2 =>
                 Inside(dst) = Inside(Clipped(dst, clips[1])) \cup Inside(Clipped(dst, clips[2]))
           /\ Len(clips) = 2 =>
                 Inside(Clipped(dst, clips[1])) \cap Inside(Clipped(dst, clips[2])) = {}
<1>1. /\ WholeScreen \in Areas
      /\ WholeScreen.x0 = 0 /\ WholeScreen.x1 = PixelsWide - 1
      /\ WholeScreen.y0 = 0 /\ WholeScreen.y1 = PixelsHigh - 1
  BY RasterAssumption DEF WholeScreen, Areas, Columns, Lines
<1>2. Clipped(dst, WholeScreen) = dst
  BY <1>1, AreaFacts DEF Clipped, AtLeast, AtMost, Areas, Columns, Lines
<1> DEFINE Parts(a, b) ==
        /\ a \in Areas /\ b \in Areas
        /\ Inside(dst) = Inside(Clipped(dst, a)) \cup Inside(Clipped(dst, b))
        /\ Inside(Clipped(dst, a)) \cap Inside(Clipped(dst, b)) = {}
<1>3. ASSUME NEW k \in XCuts
      PROVE  Parts([WholeScreen EXCEPT !.x1 = k], [WholeScreen EXCEPT !.x0 = k + 1])
  BY AreaFacts, RasterAssumption
     DEF WholeScreen, Areas, Columns, Lines, Clipped, AtLeast, AtMost, Inside
<1>4. ASSUME NEW k \in YCuts
      PROVE  Parts([WholeScreen EXCEPT !.y1 = k], [WholeScreen EXCEPT !.y0 = k + 1])
  BY AreaFacts, RasterAssumption
     DEF WholeScreen, Areas, Columns, Lines, Clipped, AtLeast, AtMost, Inside
<1>5. \A a, b : Parts(a, b) => Parts(b, a)
  OBVIOUS
<1> HIDE DEF Parts
<1>6. CASE clips = <<WholeScreen>>
  BY <1>1, <1>2, <1>6
<1>7. CASE clips # <<WholeScreen>>
  <2>1. \E a, b : clips = <<a, b>> /\ Parts(a, b)
    BY <1>3, <1>4, <1>5, <1>7 DEF Clips, Halves
  <2>2. PICK a, b : clips = <<a, b>> /\ Parts(a, b)
    BY <2>1
  <2> QED BY <2>2 DEF Parts
<1> QED BY <1>6, <1>7
\* Calls that clients make and the code gets right.
Sound(k) ==
    Overlapping(k) => ByBytes(k.dst, k.dx, k.dy) /\ Len(k.clips) = 1

\* Piece by piece is the whole at once.
LEMMA PiecesAtOnce ==
    ASSUME NEW p \in Images,
           NEW k \in [dst : Areas, dx : Shifts, dy : Shifts, clips : Clips], Sound(k)
    PROVE  PiecesCopied(p, k) = Shifted(p, Inside(k.dst), k.dx, k.dy)
<1> DEFINE m == Len(k.clips)
           d(n) == Clipped(k.dst, k.clips[n])
           turn(q, n) == Blitted(q, k.dst, k.dx, k.dy, k.clips[n])
           G == [n \in 1..m |-> [q \in Images |-> turn(q, n)]]
<1>1. /\ k.dst \in Areas /\ k.clips \in Clips /\ k.dx \in Int /\ k.dy \in Int
      /\ m \in {1, 2} /\ \A n \in 1..m : k.clips[n] \in Areas
  BY ClipFacts, RasterAssumption DEF Shifts
<1>2. ASSUME NEW q \in Images, NEW n \in 1..m
      PROVE  /\ turn(q, n) = Shifted(q, Inside(d(n)), k.dx, k.dy)
             /\ turn(q, n) \in Images
  <2>1. \/ \A c \in Inside(k.dst) : Moved(c, k.dx, k.dy) \notin Inside(k.dst)
        \/ ByBytes(d(n), k.dx, k.dy)
    <3>1. CASE Overlapping(k)
      <4>0. m = 1 /\ ByBytes(k.dst, k.dx, k.dy)
        BY <3>1, Zenon DEF Sound
      <4>1. n = 1 /\ m = 1 /\ ByBytes(k.dst, k.dx, k.dy)
        <5> HIDE DEF m
        <5> QED BY <4>0
      <4> QED BY <1>1, <4>1, ClipFacts
    <3>2. CASE ~Overlapping(k)
      BY <3>2 DEF Overlapping
    <3> QED BY <3>1, <3>2
  <2> QED BY <1>1, <2>1, PieceAtOnce, ShiftedIsImage
<1>3. m \in Nat /\ G \in [1..m -> [Images -> Images]]
  BY <1>1, <1>2
<1>4. \A n \in 1..m, q \in Images : G[n][q] = turn(q, n)
  OBVIOUS
<1> HIDE DEF G, m
<1>5. PICK f : Turns(f, Images, m, p, G)
  BY <1>3, Iterates
<1> DEFINE Is(h) == h = [n \in 0..m |-> IF n = 0 THEN p ELSE turn(h[n - 1], n)]
           g == CHOOSE h : Is(h)
<1>6. Is(f)
  <2>1. \A n \in 0..m : f[n] = IF n = 0 THEN p ELSE turn(f[n - 1], n)
    <3> TAKE n \in 0..m
    <3>1. n # 0 => n \in 1..m /\ f[n - 1] \in Images
      BY <1>1, <1>5 DEF Turns
    <3> HIDE DEF turn
    <3> QED BY <1>4, <1>5, <3>1 DEF Turns
  <2> HIDE DEF turn
  <2> QED BY <1>5, <2>1 DEF Turns
<1>7. PiecesCopied(p, k) = g[m]
  BY DEF PiecesCopied, m
<1>8. Is(g)
  <2> HIDE DEF Is
  <2> QED BY <1>6
<1> HIDE DEF g
<1>9. g[0] = p /\ \A n \in 1..m : g[n] = turn(g[n - 1], n)
  <2> HIDE DEF turn
  <2> QED BY <1>1, <1>8
<1> HIDE DEF Is
<1>10. g[1] = Shifted(p, Inside(d(1)), k.dx, k.dy)
  BY <1>1, <1>2, <1>9
<1>11. CASE m = 1
  BY <1>1, <1>7, <1>10, <1>11, ClipFacts DEF m
<1>12. CASE m = 2
  <2>1. g[1] \in Images
    BY <1>1, <1>10, ShiftedIsImage
  <2>2. g[2] = Shifted(g[1], Inside(d(2)), k.dx, k.dy)
    BY <1>2, <1>9, <1>12, <2>1
  <2>3. /\ Inside(k.dst) = Inside(d(1)) \cup Inside(d(2))
        /\ Inside(d(1)) \cap Inside(d(2)) = {}
    BY <1>1, <1>12, ClipFacts DEF m
  <2>4. ~Overlapping(k)
    BY <1>12 DEF Sound, m
  <2>5. \A c \in Inside(d(2)) : c \notin Inside(d(1)) /\ Moved(c, k.dx, k.dy) \notin Inside(d(1))
    BY <2>3, <2>4 DEF Overlapping
  <2> QED BY <1>1, <1>7, <1>10, <1>12, <2>2, <2>3, <2>5, ShiftedTwice
<1> QED BY <1>1, <1>11, <1>12

CopyInv ==
    /\ CopyTypeOK
    /\ Sound(copy)
    /\ ~done => pixels = [c \in Places |-> c]
    /\ CopyExact

LEMMA CopyInvariance ==
    ASSUME Exposed = {}
    PROVE  CopySpec => []CopyInv
<1>1. CopyInit => CopyInv
  BY DEF CopyInit, CopyInv, CopyTypeOK, Sound, CopyExact
<1>2. ASSUME CopyInv, [CopyNext]_copyVars
      PROVE  CopyInv'
  <2>1. CASE UNCHANGED copyVars
    BY <1>2, <2>1 DEF copyVars, CopyInv, CopyTypeOK, Sound, Overlapping, CopyExact
  <2>2. CASE Copy
    <3> DEFINE start == [c \in Places |-> c]
    <3>1. pixels = start /\ start \in Images /\ copy' = copy /\ done'
      BY <1>2, <2>2 DEF Copy, CopyInv, Images
    <3>2. copy \in [dst : Areas, dx : Shifts, dy : Shifts, clips : Clips] /\ Sound(copy)
      BY <1>2 DEF CopyInv, CopyTypeOK
    <3>3. pixels' = Shifted(start, Inside(copy.dst), copy.dx, copy.dy)
      BY <2>2, <3>1, <3>2, PiecesAtOnce DEF Copy
    <3>4. copy.dx \in Int /\ copy.dy \in Int
      BY <3>2, RasterAssumption DEF Shifts
    <3>5. pixels' \in Images
      BY <3>1, <3>3, <3>4, ShiftedIsImage
    <3>6. CopyTypeOK' /\ Sound(copy)'
      BY <1>2, <2>2, <3>1, <3>5 DEF CopyInv, CopyTypeOK, Images, Copy, Sound, Overlapping
    <3>7. CopyExact'
      BY <3>1, <3>3 DEF CopyExact, Shifted
    <3> QED BY <3>1, <3>6, <3>7 DEF CopyInv
  <2> QED BY <1>2, <2>1, <2>2 DEF CopyNext
<1> QED BY <1>1, <1>2, PTL DEF CopySpec

(***************************************************************************)
(* A copy on the screen writes what its source held before and touches      *)
(* nothing else, row by row and pixel by pixel, in one piece or two         *)
(* (raster.c 94-231, dispatch_vdi.c 278-328): on a screen of any size, with *)
(* bytes of any width, over any distance.                                   *)
(***************************************************************************)
THEOREM CopiesReadFirst ==
    ASSUME Exposed = {}
    PROVE  CopySpec => []CopyExact
BY CopyInvariance, PTL DEF CopyInv

-----------------------------------------------------------------------------
(***************************************************************************)
(* The message table's invariants for any number of slots, applications,    *)
(* windows and pixels.  MsgInv is inductive: that a window has at most one  *)
(* pending redraw is what lets the merge look at the first match only, and  *)
(* it is what makes reading that one redraw settle all the window's damage. *)
(***************************************************************************)

USE MessagesAssumption DEF MessagesAssumption, Slots, Pixels

MsgInv ==
    /\ TypeOK
    /\ SeqsDistinct
    /\ OneRedrawPerWindow
    /\ DamageCovered

-----------------------------------------------------------------------------
\* The hull of two rectangles is a rectangle on the screen that covers both
\* (aes_union_message_rects() converts to corners and back without loss).
LEMMA UnionCoversBoth ==
    ASSUME NEW r \in Redraws, NEW s \in Redraws
    PROVE  /\ UnionRect(r, s) \in Redraws
           /\ UnionRect(r, s).about = r.about
           /\ Covered(r) \subseteq Covered(UnionRect(r, s))
           /\ Covered(s) \subseteq Covered(UnionRect(r, s))
  <1> DEFINE first == Smaller(r.start, s.start)
             last == Larger(LastPixel(r), LastPixel(s))
             u == UnionRect(r, s)
  <1>1. /\ r.start \in Pixels /\ s.start \in Pixels
        /\ r.size \in 1..Width /\ s.size \in 1..Width
        /\ r.start + r.size <= Width /\ s.start + s.size <= Width
    BY DEF Redraws
  <1>2. /\ first \in Pixels /\ last \in Pixels
        /\ first <= r.start /\ first <= s.start
        /\ LastPixel(r) <= last /\ LastPixel(s) <= last
        /\ first <= last
    BY <1>1 DEF Smaller, Larger, LastPixel
  <1>3. u = [redraw |-> TRUE, about |-> r.about, start |-> first,
             size |-> last - first + 1]
    BY DEF UnionRect
  <1> HIDE DEF first, last, u
  <1>4. u \in Redraws /\ u.about = r.about /\ u.start = first
        /\ LastPixel(u) = last
    <2>1. last - first + 1 \in 1..Width /\ first + (last - first + 1) <= Width
      BY <1>2
    <2>2. r.about \in Windows
      BY DEF Redraws
    <2>3. first + (last - first + 1) - 1 = last
      BY <1>2
    <2>4. QED BY <1>2, <1>3, <2>1, <2>2, <2>3 DEF Redraws, LastPixel
  <1>5. Covered(r) \subseteq Covered(u) /\ Covered(s) \subseteq Covered(u)
    <2>1. LastPixel(r) \in Int /\ LastPixel(s) \in Int
      BY <1>1 DEF LastPixel
    <2>2. QED BY <1>1, <1>2, <1>4, <2>1 DEF Covered
  <1>6. QED BY <1>4, <1>5 DEF u

\* A used slot holds a message.
LEMMA UsedIsMessage ==
    ASSUME TypeOK, NEW i \in Slots, Used(i)
    PROVE  messages[i] \in Messages
  BY DEF TypeOK, Used

-----------------------------------------------------------------------------
\* Empty queues are as they should be.
LEMMA InitMsgInv == Init => MsgInv
  BY DEF Init, MsgInv, TypeOK, SeqsDistinct, OneRedrawPerWindow, DamageCovered,
         SameRedraw, Used

\* Merging changes one rectangle to a larger one and nothing else.
LEMMA MergedKeepsMsgInv ==
    ASSUME MsgInv, NEW a \in Apps, NEW b \in Bodies, WriteMerged(a, b)
    PROVE  MsgInv'
  <1>1. PICK i \in Slots :
           /\ i \in SameRedraw(a, b.about)
           /\ messages' = [messages EXCEPT ![i].body = UnionRect(@, b)]
    BY DEF WriteMerged, IsFirst
  <1>2. /\ Used(i) /\ messages[i] \in Messages /\ messages[i].dest = a
        /\ messages[i].body \in Redraws /\ b \in Redraws
        /\ messages[i].body.about = b.about
    <2>1. Used(i) /\ messages[i] \in Messages /\ messages[i].dest = a
          /\ messages[i].body.redraw /\ messages[i].body.about = b.about
      BY <1>1, UsedIsMessage DEF SameRedraw, MsgInv
    <2>2. messages[i].body \in Bodies
      BY <2>1 DEF Messages
    <2>3. messages[i].body \in Redraws /\ b \in Redraws
      BY <2>1, <2>2 DEF Bodies, Controls, Redraws, WriteMerged
    <2>4. QED BY <2>1, <2>3
  <1> DEFINE u == UnionRect(messages[i].body, b)
  <1>3. /\ u \in Redraws /\ u.about = b.about
        /\ Covered(messages[i].body) \subseteq Covered(u)
        /\ Covered(b) \subseteq Covered(u)
    BY <1>2, UnionCoversBoth
  <1> HIDE DEF u
  <1>4. /\ messages' \in [Slots -> Messages \cup {Empty}]
        /\ messages'[i] = [messages[i] EXCEPT !.body = u]
        /\ \A j \in Slots \ {i} : messages'[j] = messages[j]
    BY <1>1, <1>2, <1>3 DEF u, MsgInv, TypeOK, Messages, Bodies
  <1>5. messages'[i] = [dest |-> a, seq |-> messages[i].seq, body |-> u]
    BY <1>2, <1>4 DEF Messages
  <1>6. \A j \in Slots : Used(j)' <=> Used(j)
    <2>1. messages'[i] \in Messages
      BY <1>2, <1>3, <1>5 DEF Messages, Bodies
    <2>2. QED BY <1>2, <1>4, <2>1 DEF Used
  <1>7. \A c \in Apps, w \in Windows : SameRedraw(c, w)' = SameRedraw(c, w)
    <2>1. /\ messages'[i].dest = messages[i].dest
          /\ messages'[i].body.redraw = messages[i].body.redraw
          /\ messages'[i].body.about = messages[i].body.about
      <3>1. messages'[i].dest = a /\ messages'[i].body = u
        BY <1>5
      <3>2. u.redraw = TRUE /\ messages[i].body.redraw = TRUE
        BY <1>2, <1>3 DEF Redraws
      <3>3. QED BY <1>2, <1>3, <3>1, <3>2
    <2>2. ASSUME NEW c \in Apps, NEW w \in Windows, NEW j \in Slots
          PROVE  j \in SameRedraw(c, w)' <=> j \in SameRedraw(c, w)
      <3>1. CASE j = i
        BY <1>6, <2>1, <3>1 DEF SameRedraw
      <3>2. CASE j # i
        BY <1>4, <1>6, <3>2 DEF SameRedraw
      <3>3. QED BY <3>1, <3>2
    <2>3. QED BY <2>2 DEF SameRedraw
  <1>8. TypeOK'
    <2>1. messages' \in [Slots -> Messages \cup {Empty}]
      BY <1>4
    <2>2. damage' \in [Apps -> SUBSET (Windows \X Pixels)]
      <3>1. DamageOf(b) \in SUBSET (Windows \X Pixels)
        BY <1>2 DEF DamageOf, Covered, Redraws
      <3>2. QED BY <3>1 DEF WriteMerged, MsgInv, TypeOK
    <2>3. QED BY <2>1, <2>2 DEF WriteMerged, MsgInv, TypeOK
  <1>9. SeqsDistinct'
    BY <1>4, <1>5, <1>6 DEF WriteMerged, MsgInv, SeqsDistinct
  <1>10. OneRedrawPerWindow'
    BY <1>7 DEF MsgInv, OneRedrawPerWindow
  <1>11. DamageCovered'
    <2> SUFFICES ASSUME NEW c \in Apps, NEW wp \in damage'[c]
                 PROVE  \E k \in SameRedraw(c, wp[1])' :
                           wp[2] \in Covered(messages'[k].body)
      BY DEF DamageCovered
    <2>1. CASE wp \in damage[c]
      <3>1. PICK k \in SameRedraw(c, wp[1]) :
               wp[2] \in Covered(messages[k].body)
        BY <2>1 DEF MsgInv, DamageCovered
      <3>2. k \in Slots /\ wp[1] \in Windows
        BY <2>1 DEF SameRedraw, MsgInv, TypeOK
      <3>3. Covered(messages[k].body) \subseteq Covered(messages'[k].body)
        BY <1>3, <1>4, <1>5, <3>2
      <3>4. QED BY <1>7, <3>1, <3>2, <3>3
    <2>2. CASE c = a /\ wp \in DamageOf(b)
      <3>1. wp[1] = b.about /\ wp[2] \in Covered(b) /\ b.about \in Windows
        BY <1>2, <2>2 DEF DamageOf, Redraws
      <3>2. i \in SameRedraw(a, wp[1])'
        BY <1>1, <1>7, <3>1
      <3>3. wp[2] \in Covered(messages'[i].body)
        BY <1>3, <1>5, <3>1
      <3>4. QED BY <2>2, <3>2, <3>3
    <2>3. QED BY <2>1, <2>2 DEF WriteMerged, MsgInv, TypeOK
  <1>12. QED BY <1>8, <1>9, <1>10, <1>11 DEF MsgInv

\* A message put in a free slot is the newest, and a redraw is the only one.
LEMMA QueuedKeepsMsgInv ==
    ASSUME MsgInv, NEW a \in Apps, NEW b \in Bodies, WriteQueued(a, b)
    PROVE  MsgInv'
  <1> DEFINE m == [dest |-> a, seq |-> nextSeq, body |-> b]
  <1>1. PICK i \in Slots :
           i \in FreeSlots /\ messages' = [messages EXCEPT ![i] = m]
    BY DEF WriteQueued, IsFirst
  <1>2. m \in Messages /\ m # Empty
    BY DEF Messages, MsgInv, TypeOK
  <1>3. ~Used(i) /\ messages'[i] = m
        /\ \A j \in Slots \ {i} : messages'[j] = messages[j]
    BY <1>1 DEF FreeSlots, MsgInv, TypeOK
  <1>4. Used(i)' /\ \A j \in Slots \ {i} : Used(j)' <=> Used(j)
    BY <1>2, <1>3 DEF Used
  <1>5. b.redraw \in BOOLEAN /\ (b.redraw => b \in Redraws)
    BY DEF Bodies, Redraws, Controls
  <1>6. \A c \in Apps, w \in Windows :
          /\ SameRedraw(c, w) \subseteq SameRedraw(c, w)' \ {i}
          /\ SameRedraw(c, w)' \subseteq SameRedraw(c, w) \cup {i}
          /\ i \in SameRedraw(c, w)' <=> c = a /\ b.redraw /\ b.about = w
    BY <1>3, <1>4 DEF SameRedraw
  <1>7. TypeOK'
    <2>1. messages' \in [Slots -> Messages \cup {Empty}]
      BY <1>1, <1>2 DEF MsgInv, TypeOK
    <2>2. damage' \in [Apps -> SUBSET (Windows \X Pixels)]
      <3>1. DamageOf(b) \in SUBSET (Windows \X Pixels)
        BY <1>5 DEF DamageOf, Covered, Redraws
      <3>2. QED BY <3>1 DEF WriteQueued, MsgInv, TypeOK
    <2>3. nextSeq' \in Nat \ {0}
      BY DEF WriteQueued, MsgInv, TypeOK
    <2>4. QED BY <2>1, <2>2, <2>3 DEF WriteQueued, MsgInv, TypeOK
  <1>8. SeqsDistinct'
    <2>1. nextSeq' = nextSeq + 1 /\ nextSeq \in Nat
      BY DEF WriteQueued, MsgInv, TypeOK
    <2>2. \A j \in Slots \ {i} : Used(j)' =>
             messages'[j] = messages[j] /\ Used(j)
             /\ messages[j].seq \in Nat /\ messages[j].seq < nextSeq
      BY <1>3, <1>4, UsedIsMessage DEF MsgInv, SeqsDistinct, Messages
    <2>3. messages'[i].seq = nextSeq
      BY <1>3
    <2>4. \A j, k \in Slots \ {i} : Used(j)' /\ Used(k)' =>
             (messages'[j].seq = messages'[k].seq => j = k)
      BY <2>2 DEF MsgInv, SeqsDistinct
    <2>5. QED BY <2>1, <2>2, <2>3, <2>4 DEF SeqsDistinct
  <1>9. OneRedrawPerWindow'
    <2> SUFFICES ASSUME NEW c \in Apps, NEW w \in Windows,
                        NEW j \in SameRedraw(c, w)', NEW k \in SameRedraw(c, w)'
                 PROVE  j = k
      BY DEF OneRedrawPerWindow
    <2>1. CASE i \in SameRedraw(c, w)'
      <3>1. c = a /\ b.redraw /\ b.about = w
        BY <1>6, <2>1
      <3>2. SameRedraw(c, w) = {}
        BY <3>1 DEF WriteQueued, MustQueue
      <3>3. QED BY <1>6, <3>2
    <2>2. CASE i \notin SameRedraw(c, w)'
      <3>1. j \in SameRedraw(c, w) /\ k \in SameRedraw(c, w)
        BY <1>6, <2>2
      <3>2. QED BY <3>1 DEF MsgInv, OneRedrawPerWindow, SameRedraw
    <2>3. QED BY <2>1, <2>2
  <1>10. DamageCovered'
    <2> SUFFICES ASSUME NEW c \in Apps, NEW wp \in damage'[c]
                 PROVE  \E k \in SameRedraw(c, wp[1])' :
                           wp[2] \in Covered(messages'[k].body)
      BY DEF DamageCovered
    <2>1. CASE wp \in damage[c]
      <3>1. PICK k \in SameRedraw(c, wp[1]) :
               wp[2] \in Covered(messages[k].body)
        BY <2>1 DEF MsgInv, DamageCovered
      <3>2. k \in Slots /\ wp[1] \in Windows
        BY <2>1 DEF SameRedraw, MsgInv, TypeOK
      <3>3. k \in SameRedraw(c, wp[1])' /\ k # i
        BY <1>6, <3>1, <3>2
      <3>4. QED BY <1>3, <3>1, <3>2, <3>3
    <2>2. CASE c = a /\ wp \in DamageOf(b)
      <3>1. wp[1] = b.about /\ wp[2] \in Covered(b) /\ b.redraw
            /\ b.about \in Windows
        BY <1>5, <2>2 DEF DamageOf, Redraws
      <3>2. i \in SameRedraw(c, wp[1])'
        BY <1>6, <2>2, <3>1
      <3>3. QED BY <1>3, <3>1, <3>2
    <2>3. QED BY <2>1, <2>2 DEF WriteQueued, MsgInv, TypeOK
  <1>11. QED BY <1>7, <1>8, <1>9, <1>10 DEF MsgInv

\* What freeing slots does, whoever frees them.
LEMMA FreedSlots ==
    ASSUME MsgInv, NEW Freed \in SUBSET Slots,
           messages' = [i \in Slots |-> IF i \in Freed THEN Empty
                                        ELSE messages[i]],
           nextSeq' = nextSeq
    PROVE  /\ messages' \in [Slots -> Messages \cup {Empty}]
           /\ SeqsDistinct'
           /\ OneRedrawPerWindow'
           /\ \A a \in Apps, w \in Windows :
                 SameRedraw(a, w)' = SameRedraw(a, w) \ Freed
  <1>1. messages' \in [Slots -> Messages \cup {Empty}]
    BY DEF MsgInv, TypeOK
  <1>2. \A i \in Slots : Used(i)' => /\ i \notin Freed /\ Used(i)
                                     /\ messages'[i] = messages[i]
    BY DEF Used
  <1>3. \A i \in Slots \ Freed : /\ messages'[i] = messages[i]
                                  /\ Used(i)' <=> Used(i)
    BY DEF Used
  <1>4. SeqsDistinct'
    BY <1>2 DEF MsgInv, SeqsDistinct
  <1>5. ASSUME NEW a \in Apps, NEW w \in Windows
        PROVE  SameRedraw(a, w)' = SameRedraw(a, w) \ Freed
    <2>1. \A i \in Slots : i \in SameRedraw(a, w)'
                              <=> i \in SameRedraw(a, w) /\ i \notin Freed
      BY <1>2, <1>3 DEF SameRedraw
    <2>2. QED BY <2>1 DEF SameRedraw
  <1>6. OneRedrawPerWindow'
    BY <1>5 DEF MsgInv, OneRedrawPerWindow
  <1>7. QED BY <1>1, <1>4, <1>5, <1>6

\* Reading a redraw settles all its window's damage: there is no second one.
LEMMA ReadKeepsMsgInv ==
    ASSUME MsgInv, NEW a \in Apps, ApplRead(a)
    PROVE  MsgInv'
  <1>1. PICK i \in Slots :
           /\ i \in Inbox(a, FALSE) \cup Inbox(a, TRUE)
           /\ messages' = [messages EXCEPT ![i] = Empty]
           /\ damage' = [damage EXCEPT ![a] = @ \ DamageOf(messages[i].body)]
    BY DEF ApplRead, IsOldest
  <1>2. messages' = [j \in Slots |-> IF j \in {i} THEN Empty ELSE messages[j]]
    BY <1>1 DEF MsgInv, TypeOK
  <1>3. nextSeq' = nextSeq
    BY DEF ApplRead
  <1>4. /\ messages' \in [Slots -> Messages \cup {Empty}]
        /\ SeqsDistinct'
        /\ OneRedrawPerWindow'
        /\ \A c \in Apps, w \in Windows :
              SameRedraw(c, w)' = SameRedraw(c, w) \ {i}
    BY <1>2, <1>3, FreedSlots
  <1>5. /\ damage' \in [Apps -> SUBSET (Windows \X Pixels)]
        /\ \A c \in Apps : damage'[c] \subseteq damage[c]
        /\ damage'[a] = damage[a] \ DamageOf(messages[i].body)
    BY <1>1 DEF MsgInv, TypeOK
  <1>6. TypeOK'
    BY <1>4, <1>5 DEF ApplRead, MsgInv, TypeOK
  <1>7. DamageCovered'
    <2> SUFFICES ASSUME NEW c \in Apps, NEW wp \in damage'[c]
                 PROVE  \E k \in SameRedraw(c, wp[1])' :
                           wp[2] \in Covered(messages'[k].body)
      BY DEF DamageCovered
    <2>1. wp \in damage[c] /\ wp[1] \in Windows /\ wp = <<wp[1], wp[2]>>
      BY <1>5 DEF MsgInv, TypeOK
    <2>2. PICK k \in SameRedraw(c, wp[1]) :
             wp[2] \in Covered(messages[k].body)
      BY <2>1 DEF MsgInv, DamageCovered
    <2>3. k \in Slots /\ messages[k].dest = c /\ messages[k].body.redraw
          /\ messages[k].body.about = wp[1]
      BY <2>2 DEF SameRedraw
    <2>4. k # i
      <3>1. SUFFICES ASSUME k = i PROVE FALSE
        OBVIOUS
      <3>2. c = a
        BY <1>1, <2>3, <3>1 DEF Inbox
      <3>3. wp \in DamageOf(messages[i].body)
        BY <2>1, <2>2, <2>3, <3>1 DEF DamageOf
      <3>4. QED BY <1>5, <3>2, <3>3
    <2>5. QED BY <1>2, <1>4, <2>1, <2>2, <2>3, <2>4
  <1>8. QED BY <1>4, <1>6, <1>7 DEF MsgInv

\* An exit frees only what was addressed to the leaving application.
LEMMA LeaveKeepsMsgInv ==
    ASSUME MsgInv, NEW a \in Apps, Leave(a)
    PROVE  MsgInv'
  <1> DEFINE Freed == {i \in Slots : Used(i) /\ messages[i].dest = a}
  <1>1. messages' = [j \in Slots |-> IF j \in Freed THEN Empty ELSE messages[j]]
    BY DEF Leave
  <1>2. nextSeq' = nextSeq
    BY DEF Leave
  <1>3. /\ messages' \in [Slots -> Messages \cup {Empty}]
        /\ SeqsDistinct'
        /\ OneRedrawPerWindow'
        /\ \A c \in Apps, w \in Windows :
              SameRedraw(c, w)' = SameRedraw(c, w) \ Freed
    <2> HIDE DEF Freed
    <2>1. Freed \in SUBSET Slots
      BY DEF Freed
    <2>2. QED BY <1>1, <1>2, <2>1, FreedSlots
  <1>4. /\ damage'[a] = {}
        /\ \A c \in Apps \ {a} : damage'[c] = damage[c]
    BY DEF Leave, MsgInv, TypeOK
  <1>5. TypeOK'
    BY <1>3 DEF Leave, MsgInv, TypeOK
  <1>6. DamageCovered'
    <2> SUFFICES ASSUME NEW c \in Apps, NEW wp \in damage'[c]
                 PROVE  \E k \in SameRedraw(c, wp[1])' :
                           wp[2] \in Covered(messages'[k].body)
      BY DEF DamageCovered
    <2>1. c # a /\ wp \in damage[c] /\ wp[1] \in Windows
      BY <1>4 DEF MsgInv, TypeOK
    <2>2. PICK k \in SameRedraw(c, wp[1]) :
             wp[2] \in Covered(messages[k].body)
      BY <2>1 DEF MsgInv, DamageCovered
    <2>3. k \in Slots \ Freed
      BY <2>1, <2>2 DEF SameRedraw
    <2>4. QED BY <1>1, <1>3, <2>1, <2>2, <2>3
  <1>7. QED BY <1>3, <1>5, <1>6 DEF MsgInv

\* Steps that leave the table and its history alone.
LEMMA UntouchedKeepsMsgInv ==
    ASSUME MsgInv, UNCHANGED <<messages, nextSeq, damage>>,
           live' \in SUBSET Apps, accepted' \in BOOLEAN
    PROVE  MsgInv'
  BY DEF MsgInv, TypeOK, SeqsDistinct, OneRedrawPerWindow, DamageCovered,
         SameRedraw, Used

\* Every operation on a pipe keeps its queue as it should be.
LEMMA MsgInvInductive == MsgInv /\ [Next]_vars => MsgInv'
  <1> SUFFICES ASSUME MsgInv, [Next]_vars PROVE MsgInv'
    OBVIOUS
  <1>0. live \in SUBSET Apps /\ accepted \in BOOLEAN
    BY DEF MsgInv, TypeOK
  <1>1. ASSUME NEW a \in Apps, ApplInit(a) PROVE MsgInv'
    BY <1>0, <1>1, UntouchedKeepsMsgInv DEF ApplInit
  <1>2. ASSUME NEW a \in Apps, Leave(a) PROVE MsgInv'
    BY <1>2, LeaveKeepsMsgInv
  <1>3. ASSUME NEW a \in Apps, ApplRead(a) PROVE MsgInv'
    BY <1>3, ReadKeepsMsgInv
  <1>4. ASSUME NEW a \in Apps, NEW b \in Bodies, WriteMerged(a, b) PROVE MsgInv'
    BY <1>4, MergedKeepsMsgInv
  <1>5. ASSUME NEW a \in Apps, NEW b \in Bodies, WriteQueued(a, b) PROVE MsgInv'
    BY <1>5, QueuedKeepsMsgInv
  <1>6. ASSUME NEW a \in Apps, NEW b \in Bodies, WriteRefused(a, b) PROVE MsgInv'
    BY <1>0, <1>6, UntouchedKeepsMsgInv DEF WriteRefused
  <1>7. CASE UNCHANGED vars
    BY <1>0, <1>7, UntouchedKeepsMsgInv DEF vars
  <1>8. QED BY <1>1, <1>2, <1>3, <1>4, <1>5, <1>6, <1>7 DEF Next

-----------------------------------------------------------------------------
\* The inductive invariant holds in every behaviour.
THEOREM MessagesInvariant == Spec => []MsgInv
  BY InitMsgInv, MsgInvInductive, PTL DEF Spec

\* The table always holds well-formed messages (aes_message_t).
THEOREM MessagesTypeCorrect == Spec => []TypeOK
  BY MessagesInvariant, PTL DEF MsgInv

\* The oldest message of a class is unique in every table size, so
\* appl_read() never has to break a tie (aes.c 189-208).
THEOREM OrderIsStrict == Spec => []SeqsDistinct
  BY MessagesInvariant, PTL DEF MsgInv

\* At most one redraw per window and application (aes.c 150-160).
THEOREM RedrawsMerge == Spec => []OneRedrawPerWindow
  BY MessagesInvariant, PTL DEF MsgInv

\* Accepted damage is covered by a pending redraw until it is read.
THEOREM DamageNeverLost == Spec => []DamageCovered
  BY MessagesInvariant, PTL DEF MsgInv
=============================================================================
