------------------------- MODULE WindowStack_proofs -------------------------
(***************************************************************************)
(* The window server's screen, for any number of windows, applications     *)
(* and cells.  Proved of it: what one can draw in is exactly what can be   *)
(* seen; the presenter is told of every change of what is in front of an   *)
(* overlay; and what a cell shows is what is on top there, or its drawing  *)
(* is owed.                                                                *)
(*                                                                         *)
(* The argument.  Sound says that the table of windows is a total order    *)
(* of owned windows.  Fresh says of a cell that it is in order or has      *)
(* been asked for: Redraw makes its rectangle so (Painting), and where an  *)
(* operation does not redraw, what is seen is Alike before and after;      *)
(* together, the step Follows the change.  Every step that changes         *)
(* windows does (Redrawn), one window after another for those of an exit   *)
(* (SweptFacts), so that nothing is stale as long as what an application   *)
(* is still drawing stays in sight (Held, by the update lock) and where    *)
(* it was asked to (InPlace, or it has been asked again).                  *)
(***************************************************************************)
EXTENDS WindowStack, WellFoundedInduction, TLAPS

\* A set of naturals has a least element: the induction used below.
LEMMA LeastNat ==
    ASSUME NEW T, T \subseteq Nat, T # {}
    PROVE  \E m \in T : \A y \in T : m <= y
<1> DEFINE Less == OpToRel(<, Nat)
<1>1. IsWellFoundedOn(Less, Nat)
  BY NatLessThanWellFounded
<1>2. \A x, y \in Nat : <<y, x>> \in Less <=> y < x
  BY DEF OpToRel
<1> HIDE DEF Less
<1>3. PICK x \in T : \A y \in T : <<y, x>> \notin Less
  BY <1>1, WFMin
<1>4. \A y \in T : x <= y
  <2> TAKE y \in T
  <2>1. x \in Nat /\ y \in Nat
    BY <1>3
  <2>2. ~(y < x)
    BY <1>2, <1>3, <2>1, Zenon
  <2>3. \A m, n \in Nat : ~(n < m) => m <= n
    OBVIOUS
  <2> QED
    BY <2>1, <2>2, <2>3, Zenon
<1> QED
  BY <1>4

\* A loop of m turns, each of which makes another element of S of the last.
Turns(f, S, m, first, G) ==
    /\ f \in [0..m -> S]
    /\ \A n \in 0..m : f[n] = IF n = 0 THEN first ELSE G[n][f[n - 1]]

\* A loop of m turns ends: there is a function of its values.
LEMMA Iterates ==
    ASSUME NEW S, NEW m \in Nat, NEW first \in S, NEW G \in [1..m -> [S -> S]]
    PROVE  \E f : Turns(f, S, m, first, G)
<1> USE DEF Turns
<1> DEFINE Is(f, k) == Turns(f, S, k, first, G)
           Bad == {k \in 0..m : ~\E f : Is(f, k)}
<1>1. SUFFICES Bad = {}
  <2>1. m \in 0..m
    OBVIOUS
  <2> QED BY <1>1, <2>1
<1>2. SUFFICES ASSUME Bad # {}
               PROVE  FALSE
  OBVIOUS
<1>3. PICK k \in Bad : \A y \in Bad : k <= y
  <2>1. Bad \subseteq Nat
    OBVIOUS
  <2> QED BY <1>2, <2>1, LeastNat
<1>4. CASE k = 0
  <2> DEFINE g == [n \in 0..0 |-> first]
  <2>1. Is(g, 0)
    OBVIOUS
  <2> QED BY <1>3, <1>4, <2>1
<1>5. CASE k # 0
  <2>1. k - 1 \in 0..m /\ k \in 1..m /\ k - 1 \notin Bad
    <3>1. k \in 0..m
      OBVIOUS
    <3> HIDE DEF Bad
    <3> QED BY <1>3, <1>5, <3>1
  <2>2. PICK f : Is(f, k - 1)
    BY <2>1
  <2> DEFINE g == [n \in 0..k |-> IF n = k THEN G[k][f[k - 1]] ELSE f[n]]
  <2>3. f[k - 1] \in S /\ G[k][f[k - 1]] \in S
    BY <2>1, <2>2
  <2>4. g \in [0..k -> S]
    BY <2>1, <2>2, <2>3
  <2>5. \A n \in 0..k : g[n] = IF n = 0 THEN first ELSE G[n][g[n - 1]]
    <3> TAKE n \in 0..k
    <3>1. CASE n = k
      <4>1. n # 0 /\ g[n] = G[k][f[k - 1]] /\ g[n - 1] = f[k - 1]
        BY <2>1, <3>1
      <4> QED BY <3>1, <4>1
    <3>2. CASE n # k
      <4>1. n \in 0..k - 1 /\ (n # 0 => n - 1 \in 0..k - 1 /\ n - 1 # k)
        BY <2>1, <3>2
      <4>2. g[n] = f[n] /\ (n # 0 => g[n - 1] = f[n - 1])
        BY <2>1, <3>2, <4>1
      <4> QED BY <2>2, <4>1, <4>2
    <3> QED BY <3>1, <3>2
  <2> HIDE DEF g
  <2>6. Is(g, k)
    BY <2>4, <2>5
  <2> QED BY <1>3, <2>6
<1> QED BY <1>4, <1>5

\* A property that the first image has, and every turn hands on, the last has.
LEMMA TurnByTurn ==
    ASSUME NEW m \in Nat, NEW P \in [0..m -> BOOLEAN], P[0],
           \A n \in 1..m : P[n - 1] => P[n]
    PROVE  \A n \in 0..m : P[n]
<1> DEFINE Bad == {n \in 0..m : ~P[n]}
<1>1. SUFFICES ASSUME Bad # {}
               PROVE  FALSE
  OBVIOUS
<1>2. PICK k \in Bad : \A y \in Bad : k <= y
  <2>1. Bad \subseteq Nat
    OBVIOUS
  <2> QED BY <1>1, <2>1, LeastNat
<1>3. k \in 1..m /\ k - 1 \in 0..m
  BY <1>2
<1>4. k - 1 \notin Bad
  <2> HIDE DEF Bad
  <2> QED BY <1>2, <1>3
<1> QED BY <1>2, <1>3, <1>4

-----------------------------------------------------------------------------
(* Rectangles.                                                               *)

\* The cells of the plane.
Plane == Int \X Int

\* What the cells of a rectangle are.
LEMMA InCells ==
    ASSUME NEW r \in Rectangles, NEW c \in Plane
    PROVE  c \in Cells(r) <=> /\ r.x <= c[1] /\ c[1] < r.x + r.w
                              /\ r.y <= c[2] /\ c[2] < r.y + r.h
<1>1. r.x \in Int /\ r.y \in Int /\ r.w \in Int /\ r.h \in Int
  BY DEF Rectangles
<1>2. c = <<c[1], c[2]>> /\ c[1] \in Int /\ c[2] \in Int
  BY DEF Plane
<1>3. c \in Cells(r) <=> c[1] \in r.x .. r.x + r.w - 1 /\ c[2] \in r.y .. r.y + r.h - 1
  BY <1>2 DEF Cells
<1> QED BY <1>1, <1>2, <1>3

\* They are cells of the plane.
LEMMA OnPlane ==
    ASSUME NEW r \in Rectangles
    PROVE  Cells(r) \subseteq Plane
<1>1. r.x \in Int /\ r.y \in Int /\ r.w \in Int /\ r.h \in Int
  BY DEF Rectangles
<1> QED BY <1>1 DEF Cells, Plane

\* The fields of a rectangle made from its corner and size.
LEMMA RectIs ==
    ASSUME NEW x \in Int, NEW y \in Int, NEW w \in Int, NEW h \in Int
    PROVE  /\ Rect(x, y, w, h) \in Rectangles
           /\ Rect(x, y, w, h).x = x /\ Rect(x, y, w, h).y = y
           /\ Rect(x, y, w, h).w = w /\ Rect(x, y, w, h).h = h
BY DEF Rect, Rectangles

\* The empty rectangle has no cell.
LEMMA Nothing == NoRect \in Rectangles /\ Cells(NoRect) = {}
BY DEF NoRect, Rect, Rectangles, Cells

\* Intersecting two rectangles intersects their cells.
LEMMA WithinFacts ==
    ASSUME NEW r \in Rectangles, NEW s \in Rectangles
    PROVE  /\ Within(r, s) \in Rectangles
           /\ Cells(Within(r, s)) = Cells(r) \cap Cells(s)
           /\ Within(r, s) # NoRect =>
                LET o == Within(r, s)
                IN /\ r.x <= o.x /\ o.x + o.w <= r.x + r.w /\ o.w > 0
                   /\ r.y <= o.y /\ o.y + o.h <= r.y + r.h /\ o.h > 0
<1> DEFINE x0 == Greatest(r.x, s.x)
           y0 == Greatest(r.y, s.y)
           x1 == Least(r.x + r.w, s.x + s.w)
           y1 == Least(r.y + r.h, s.y + s.h)
           o == Within(r, s)
<1>1. /\ r.x \in Int /\ r.y \in Int /\ r.w \in Int /\ r.h \in Int
      /\ s.x \in Int /\ s.y \in Int /\ s.w \in Int /\ s.h \in Int
  BY DEF Rectangles
<1>2. x0 \in Int /\ y0 \in Int /\ x1 \in Int /\ y1 \in Int
  BY <1>1 DEF Greatest, Least
<1>3. /\ r.x <= x0 /\ s.x <= x0 /\ r.y <= y0 /\ s.y <= y0
      /\ x1 <= r.x + r.w /\ x1 <= s.x + s.w /\ y1 <= r.y + r.h /\ y1 <= s.y + s.h
  BY <1>1 DEF Greatest, Least
<1>4. \A c \in Plane : c \in Cells(r) /\ c \in Cells(s) <=>
                         x0 <= c[1] /\ c[1] < x1 /\ y0 <= c[2] /\ c[2] < y1
  <2> TAKE c \in Plane
  <2>1. c[1] \in Int /\ c[2] \in Int
    BY DEF Plane
  <2>2. c \in Cells(r) <=> r.x <= c[1] /\ c[1] < r.x + r.w /\ r.y <= c[2] /\ c[2] < r.y + r.h
    BY InCells
  <2>3. c \in Cells(s) <=> s.x <= c[1] /\ c[1] < s.x + s.w /\ s.y <= c[2] /\ c[2] < s.y + s.h
    BY InCells
  <2>4. x0 <= c[1] <=> r.x <= c[1] /\ s.x <= c[1]
    BY <1>1, <2>1 DEF Greatest
  <2>5. y0 <= c[2] <=> r.y <= c[2] /\ s.y <= c[2]
    BY <1>1, <2>1 DEF Greatest
  <2>6. c[1] < x1 <=> c[1] < r.x + r.w /\ c[1] < s.x + s.w
    BY <1>1, <2>1 DEF Least
  <2>7. c[2] < y1 <=> c[2] < r.y + r.h /\ c[2] < s.y + s.h
    BY <1>1, <2>1 DEF Least
  <2> QED BY <2>2, <2>3, <2>4, <2>5, <2>6, <2>7
<1>5. o = IF x0 < x1 /\ y0 < y1 THEN Rect(x0, y0, x1 - x0, y1 - y0) ELSE NoRect
  BY DEF Within
<1> HIDE DEF x0, y0, x1, y1, o
<1>6. CASE x0 < x1 /\ y0 < y1
  <2>1. /\ o \in Rectangles /\ o.x = x0 /\ o.y = y0 /\ o.w = x1 - x0 /\ o.h = y1 - y0
    BY <1>2, <1>5, <1>6, RectIs
  <2>2. \A c \in Plane : c \in Cells(o) <=> c \in Cells(r) /\ c \in Cells(s)
    <3> TAKE c \in Plane
    <3>1. c[1] \in Int /\ c[2] \in Int
      BY DEF Plane
    <3>2. c \in Cells(o) <=> o.x <= c[1] /\ c[1] < o.x + o.w /\ o.y <= c[2] /\ c[2] < o.y + o.h
      BY <2>1, InCells
    <3> QED BY <1>2, <1>4, <2>1, <3>1, <3>2
  <2>3. Cells(o) = Cells(r) \cap Cells(s)
    BY <2>1, <2>2, OnPlane
  <2>4. /\ r.x <= o.x /\ o.x + o.w <= r.x + r.w /\ o.w > 0
        /\ r.y <= o.y /\ o.y + o.h <= r.y + r.h /\ o.h > 0
    BY <1>1, <1>2, <1>3, <1>6, <2>1
  <2> QED BY <2>1, <2>3, <2>4 DEF o
<1>7. CASE ~(x0 < x1 /\ y0 < y1)
  <2>1. o = NoRect
    BY <1>5, <1>7
  <2>2. \A c \in Plane : ~(c \in Cells(r) /\ c \in Cells(s))
    <3> TAKE c \in Plane
    <3>1. c[1] \in Int /\ c[2] \in Int
      BY DEF Plane
    <3> QED BY <1>2, <1>4, <1>7, <3>1
  <2>3. Cells(r) \cap Cells(s) = {}
    BY <2>2, OnPlane
  <2> QED BY <2>1, <2>3, Nothing DEF o
<1> QED BY <1>6, <1>7

\* The hull of two rectangles covers both.
LEMMA HullFacts ==
    ASSUME NEW r \in Rectangles, NEW s \in Rectangles
    PROVE  /\ Hull(r, s) \in Rectangles
           /\ Cells(r) \subseteq Cells(Hull(r, s))
           /\ Cells(s) \subseteq Cells(Hull(r, s))
<1> DEFINE x0 == Least(r.x, s.x)
           y0 == Least(r.y, s.y)
           x1 == Greatest(r.x + r.w, s.x + s.w)
           y1 == Greatest(r.y + r.h, s.y + s.h)
           o == Hull(r, s)
<1>1. /\ r.x \in Int /\ r.y \in Int /\ r.w \in Int /\ r.h \in Int
      /\ s.x \in Int /\ s.y \in Int /\ s.w \in Int /\ s.h \in Int
  BY DEF Rectangles
<1>2. x0 \in Int /\ y0 \in Int /\ x1 \in Int /\ y1 \in Int
  BY <1>1 DEF Greatest, Least
<1>3. /\ x0 <= r.x /\ x0 <= s.x /\ y0 <= r.y /\ y0 <= s.y
      /\ r.x + r.w <= x1 /\ s.x + s.w <= x1 /\ r.y + r.h <= y1 /\ s.y + s.h <= y1
  BY <1>1 DEF Greatest, Least
<1>4. o = Rect(x0, y0, x1 - x0, y1 - y0)
  BY DEF Hull
<1> HIDE DEF x0, y0, x1, y1, o
<1>5. o \in Rectangles /\ o.x = x0 /\ o.y = y0 /\ o.w = x1 - x0 /\ o.h = y1 - y0
  BY <1>2, <1>4, RectIs
<1>6. \A c \in Plane : c \in Cells(r) \/ c \in Cells(s) => c \in Cells(o)
  <2> TAKE c \in Plane
  <2>1. c[1] \in Int /\ c[2] \in Int
    BY DEF Plane
  <2>2. c \in Cells(r) <=> r.x <= c[1] /\ c[1] < r.x + r.w /\ r.y <= c[2] /\ c[2] < r.y + r.h
    BY InCells
  <2>3. c \in Cells(s) <=> s.x <= c[1] /\ c[1] < s.x + s.w /\ s.y <= c[2] /\ c[2] < s.y + s.h
    BY InCells
  <2>4. c \in Cells(o) <=> o.x <= c[1] /\ c[1] < o.x + o.w /\ o.y <= c[2] /\ c[2] < o.y + o.h
    BY <1>5, InCells
  <2> QED BY <1>1, <1>2, <1>3, <1>5, <2>1, <2>2, <2>3, <2>4
<1> QED BY <1>5, <1>6, OnPlane DEF o

\* What is left of a rectangle once another is cut out of it.
LEMMA SubtractFacts ==
    ASSUME NEW r \in Rectangles, NEW s \in Rectangles
    PROVE  LET list == Subtract(r, s)
           IN /\ list \in Seq(Rectangles) /\ Len(list) \in Nat \ {0}
              /\ DOMAIN list = 1..Len(list)
              /\ \A c \in Plane : (\E k \in 1..Len(list) : c \in Cells(list[k]))
                                  <=> c \in Cells(r) /\ c \notin Cells(s)
              /\ \A k, l \in 1..Len(list) :
                    k # l => Cells(list[k]) \cap Cells(list[l]) = {}
<1> DEFINE o == Within(r, s)
           list == Subtract(r, s)
<1>1. /\ r.x \in Int /\ r.y \in Int /\ r.w \in Int /\ r.h \in Int
      /\ o \in Rectangles /\ Cells(o) = Cells(r) \cap Cells(s)
      /\ o # NoRect => /\ r.x <= o.x /\ o.x + o.w <= r.x + r.w /\ o.w > 0
                       /\ r.y <= o.y /\ o.y + o.h <= r.y + r.h /\ o.h > 0
  BY WithinFacts DEF Rectangles
<1>2. o.x \in Int /\ o.y \in Int /\ o.w \in Int /\ o.h \in Int
  BY <1>1 DEF Rectangles
<1> DEFINE b1 == Rect(r.x, r.y, r.w, o.y - r.y)
           b2 == Rect(r.x, o.y + o.h, r.w, r.y + r.h - o.y - o.h)
           b3 == Rect(r.x, o.y, o.x - r.x, o.h)
           b4 == Rect(o.x + o.w, o.y, r.x + r.w - o.x - o.w, o.h)
<1>3. list = IF o = NoRect THEN <<r>> ELSE <<b1, b2, b3, b4>>
  BY DEF Subtract
<1> HIDE DEF list, o
<1>4. CASE o = NoRect
  <2>1. list \in Seq(Rectangles) /\ Len(list) = 1 /\ list[1] = r /\ DOMAIN list = 1..1
    BY <1>3, <1>4
  <2>2. Cells(r) \cap Cells(s) = {}
    BY <1>1, <1>4, Nothing
  <2> QED BY <2>1, <2>2 DEF list
<1>5. CASE o # NoRect
  <2>1. /\ b1 \in Rectangles /\ b1.x = r.x /\ b1.y = r.y /\ b1.w = r.w /\ b1.h = o.y - r.y
        /\ b2 \in Rectangles /\ b2.x = r.x /\ b2.y = o.y + o.h /\ b2.w = r.w
        /\ b2.h = r.y + r.h - o.y - o.h
        /\ b3 \in Rectangles /\ b3.x = r.x /\ b3.y = o.y /\ b3.w = o.x - r.x /\ b3.h = o.h
        /\ b4 \in Rectangles /\ b4.x = o.x + o.w /\ b4.y = o.y
        /\ b4.w = r.x + r.w - o.x - o.w /\ b4.h = o.h
    <3>1. /\ o.y - r.y \in Int /\ o.y + o.h \in Int /\ r.y + r.h - o.y - o.h \in Int
          /\ o.x - r.x \in Int /\ o.x + o.w \in Int /\ r.x + r.w - o.x - o.w \in Int
      BY <1>1, <1>2
    <3>2. /\ b1 \in Rectangles /\ b1.x = r.x /\ b1.y = r.y /\ b1.w = r.w
          /\ b1.h = o.y - r.y
      BY <1>1, <3>1 DEF Rect, Rectangles
    <3>3. /\ b2 \in Rectangles /\ b2.x = r.x /\ b2.y = o.y + o.h /\ b2.w = r.w
          /\ b2.h = r.y + r.h - o.y - o.h
      BY <1>1, <3>1 DEF Rect, Rectangles
    <3>4. /\ b3 \in Rectangles /\ b3.x = r.x /\ b3.y = o.y /\ b3.w = o.x - r.x
          /\ b3.h = o.h
      BY <1>1, <1>2, <3>1 DEF Rect, Rectangles
    <3>5. /\ b4 \in Rectangles /\ b4.x = o.x + o.w /\ b4.y = o.y
          /\ b4.w = r.x + r.w - o.x - o.w /\ b4.h = o.h
      BY <1>2, <3>1 DEF Rect, Rectangles
    <3> QED BY <3>2, <3>3, <3>4, <3>5
  <2>2. /\ list \in Seq(Rectangles) /\ Len(list) = 4 /\ DOMAIN list = 1..4
        /\ list[1] = b1 /\ list[2] = b2 /\ list[3] = b3 /\ list[4] = b4
    <3> HIDE DEF b1, b2, b3, b4
    <3> QED BY <1>3, <1>5, <2>1
  <2> HIDE DEF b1, b2, b3, b4
  <2> DEFINE In(c, t) == /\ t.x <= c[1] /\ c[1] < t.x + t.w
                         /\ t.y <= c[2] /\ c[2] < t.y + t.h
  <2>3. \A c \in Plane :
           /\ c[1] \in Int /\ c[2] \in Int
           /\ c \in Cells(b1) <=> In(c, b1)
           /\ c \in Cells(b2) <=> In(c, b2)
           /\ c \in Cells(b3) <=> In(c, b3)
           /\ c \in Cells(b4) <=> In(c, b4)
           /\ c \in Cells(r) <=> In(c, r)
           /\ c \in Cells(o) <=> In(c, o)
    BY <1>1, <2>1, InCells DEF Plane
  <2>4. \A c \in Plane : (\E k \in 1..4 : c \in Cells(list[k])) <=>
              \/ c \in Cells(b1) \/ c \in Cells(b2) \/ c \in Cells(b3) \/ c \in Cells(b4)
    BY <2>2
  <2>5. \A c \in Plane :
            c \in Cells(b1) \/ c \in Cells(b2) \/ c \in Cells(b3) \/ c \in Cells(b4)
            <=> c \in Cells(r) /\ c \notin Cells(o)
    <3> TAKE c \in Plane
    <3> QED BY <1>1, <1>2, <1>5, <2>1, <2>3
  <2>6. \A c \in Plane : c \in Cells(r) /\ c \notin Cells(o) <=> c \in Cells(r) /\ c \notin Cells(s)
    BY <1>1
  <2>7. \A c \in Plane :
            /\ ~(In(c, b1) /\ In(c, b2)) /\ ~(In(c, b1) /\ In(c, b3)) /\ ~(In(c, b1) /\ In(c, b4))
            /\ ~(In(c, b2) /\ In(c, b3)) /\ ~(In(c, b2) /\ In(c, b4)) /\ ~(In(c, b3) /\ In(c, b4))
    <3> TAKE c \in Plane
    <3>1. c[1] \in Int /\ c[2] \in Int
      BY <2>3
    <3> QED BY <1>1, <1>2, <1>5, <2>1, <3>1
  <2>8. /\ Cells(b1) \cap Cells(b2) = {} /\ Cells(b1) \cap Cells(b3) = {}
        /\ Cells(b1) \cap Cells(b4) = {} /\ Cells(b2) \cap Cells(b3) = {}
        /\ Cells(b2) \cap Cells(b4) = {} /\ Cells(b3) \cap Cells(b4) = {}
    <3>1. \A t \in {b1, b2, b3, b4} : Cells(t) \subseteq Plane
      BY <2>1, OnPlane
    <3> HIDE DEF In
    <3> QED BY <2>3, <2>7, <3>1
  <2>9. \A k, l \in 1..4 : k # l => Cells(list[k]) \cap Cells(list[l]) = {}
    <3> TAKE k, l \in 1..4
    <3>1. k \in {1, 2, 3, 4} /\ l \in {1, 2, 3, 4}
      OBVIOUS
    <3> QED BY <2>2, <2>8, <3>1
  <2> HIDE DEF In
  <2>10. Len(list) = 4 /\ Len(list) \in Nat \ {0}
    BY <2>2
  <2>11. \A c \in Plane : (\E k \in 1..Len(list) : c \in Cells(list[k]))
                          <=> c \in Cells(r) /\ c \notin Cells(s)
    BY <2>4, <2>5, <2>6, <2>10
  <2>12. DOMAIN list = 1..Len(list) /\ list \in Seq(Rectangles)
    BY <2>2
  <2>13. \A k, l \in 1..Len(list) :
            k # l => Cells(list[k]) \cap Cells(list[l]) = {}
    BY <2>9, <2>10
  <2> QED BY <2>10, <2>11, <2>12, <2>13 DEF list
<1> QED BY <1>4, <1>5

\* A rectangle without width or height has no cell.
LEMMA NoCells ==
    ASSUME NEW r \in Rectangles, ~(r.w > 0 /\ r.h > 0)
    PROVE  Cells(r) = {}
<1>1. r.x \in Int /\ r.y \in Int /\ r.w \in Int /\ r.h \in Int
  BY DEF Rectangles
<1>2. \A c \in Plane : c \notin Cells(r)
  <2> TAKE c \in Plane
  <2>1. c[1] \in Int /\ c[2] \in Int
    BY DEF Plane
  <2> QED BY <1>1, <2>1, InCells
<1> QED BY <1>2, OnPlane

\* The rectangles of the list have cells, share none, and cover those of S.
Tiling(list, S) ==
    /\ list \subseteq Rectangles
    /\ \A r \in list : r.w > 0 /\ r.h > 0
    /\ \A r, s \in list : r # s => Cells(r) \cap Cells(s) = {}
    /\ Shows(list) = S

\* Cutting one rectangle out of a tiling leaves a tiling of the rest.
LEMMA CutFacts ==
    ASSUME NEW list, NEW S, Tiling(list, S), NEW cover \in Rectangles
    PROVE  Tiling(Cut(list, cover), S \ Cells(cover))
<1> DEFINE after == Cut(list, cover)
           part(s, k) == Subtract(s, cover)[k]
<1>1. /\ list \subseteq Rectangles
      /\ \A r, s \in list : r # s => Cells(r) \cap Cells(s) = {}
      /\ \A c : c \in S <=> \E r \in list : c \in Cells(r)
  BY DEF Tiling, Shows
<1>2. ASSUME NEW s \in list
      PROVE  /\ DOMAIN Subtract(s, cover) = 1..Len(Subtract(s, cover))
             /\ \A k \in DOMAIN Subtract(s, cover) : part(s, k) \in Rectangles
             /\ \A c \in Plane : (\E k \in DOMAIN Subtract(s, cover) : c \in Cells(part(s, k)))
                                 <=> c \in Cells(s) /\ c \notin Cells(cover)
             /\ \A k, l \in DOMAIN Subtract(s, cover) :
                   k # l => Cells(part(s, k)) \cap Cells(part(s, l)) = {}
  <2> DEFINE cut == Subtract(s, cover)
  <2>1. s \in Rectangles
    BY <1>1
  <2>2. /\ cut \in Seq(Rectangles) /\ DOMAIN cut = 1..Len(cut)
        /\ \A c \in Plane : (\E k \in 1..Len(cut) : c \in Cells(cut[k]))
                            <=> c \in Cells(s) /\ c \notin Cells(cover)
        /\ \A k, l \in 1..Len(cut) : k # l => Cells(cut[k]) \cap Cells(cut[l]) = {}
    BY <2>1, SubtractFacts
  <2> HIDE DEF cut
  <2>3. \A k \in DOMAIN cut : cut[k] \in Rectangles
    BY <2>2
  <2>4. /\ DOMAIN cut = 1..Len(cut)
        /\ \A k \in DOMAIN cut : cut[k] \in Rectangles
        /\ \A c \in Plane : (\E k \in DOMAIN cut : c \in Cells(cut[k]))
                            <=> c \in Cells(s) /\ c \notin Cells(cover)
        /\ \A k, l \in DOMAIN cut : k # l => Cells(cut[k]) \cap Cells(cut[l]) = {}
    BY <2>2, <2>3
  <2> QED BY <2>4 DEF cut
<1>3. \A r : r \in after <=> /\ \E s \in list : \E k \in DOMAIN Subtract(s, cover) : r = part(s, k)
                             /\ r.w > 0 /\ r.h > 0
  BY DEF Cut, Members
<1> HIDE DEF after
<1>4. after \subseteq Rectangles /\ \A r \in after : r.w > 0 /\ r.h > 0
  BY <1>2, <1>3
<1>5. ASSUME NEW s \in list, NEW k \in DOMAIN Subtract(s, cover)
      PROVE  Cells(part(s, k)) \subseteq Cells(s)
  <2>1. Cells(part(s, k)) \subseteq Plane
    BY <1>2, OnPlane
  <2> QED BY <1>2, <2>1
<1>6. \A q, r \in after : q # r => Cells(q) \cap Cells(r) = {}
  <2> SUFFICES ASSUME NEW q \in after, NEW r \in after, q # r
               PROVE  Cells(q) \cap Cells(r) = {}
    OBVIOUS
  <2>1. PICK s \in list : \E k \in DOMAIN Subtract(s, cover) : q = part(s, k)
    BY <1>3
  <2>2. PICK k \in DOMAIN Subtract(s, cover) : q = part(s, k)
    BY <2>1
  <2>3. PICK t \in list : \E l \in DOMAIN Subtract(t, cover) : r = part(t, l)
    BY <1>3
  <2>4. PICK l \in DOMAIN Subtract(t, cover) : r = part(t, l)
    BY <2>3
  <2> HIDE DEF part
  <2>5. CASE s = t
    <3>1. k # l /\ l \in DOMAIN Subtract(s, cover) /\ r = part(s, l)
      BY <2>2, <2>4, <2>5
    <3> QED BY <1>2, <2>2, <3>1
  <2>6. CASE s # t
    <3>1. Cells(s) \cap Cells(t) = {}
      BY <1>1, <2>6
    <3>2. Cells(q) \subseteq Cells(s) /\ Cells(r) \subseteq Cells(t)
      BY <1>5, <2>2, <2>4
    <3> QED BY <3>1, <3>2
  <2> QED BY <2>5, <2>6
<1>7. \A c : c \in Shows(after) <=> c \in S /\ c \notin Cells(cover)
  <2> TAKE c
  <2>1. c \in Shows(after) <=> \E r \in after : c \in Cells(r)
    BY DEF Shows
  <2>2. ASSUME NEW r \in after, c \in Cells(r)
        PROVE  c \in S /\ c \notin Cells(cover)
    <3>1. PICK s \in list : \E k \in DOMAIN Subtract(s, cover) : r = part(s, k)
      BY <1>3
    <3>2. c \in Plane
      BY <1>4, <2>2, OnPlane
    <3>3. c \in Cells(s) /\ c \notin Cells(cover)
      BY <1>2, <2>2, <3>1, <3>2
    <3> QED BY <1>1, <3>3
  <2>3. ASSUME c \in S, c \notin Cells(cover)
        PROVE  \E r \in after : c \in Cells(r)
    <3>1. PICK s \in list : c \in Cells(s)
      BY <1>1, <2>3
    <3>2. c \in Plane
      BY <1>1, <3>1, OnPlane
    <3>3. PICK k \in DOMAIN Subtract(s, cover) : c \in Cells(part(s, k))
      BY <1>2, <2>3, <3>1, <3>2
    <3>4. part(s, k) \in Rectangles
      BY <1>2
    <3>5. part(s, k).w > 0 /\ part(s, k).h > 0
      BY <3>3, <3>4, NoCells
    <3>6. part(s, k) \in after
      BY <1>3, <3>5
    <3> QED BY <3>3, <3>6
  <2> QED BY <2>1, <2>2, <2>3
<1> QED BY <1>4, <1>6, <1>7 DEF Tiling, after

-----------------------------------------------------------------------------
(* The table of windows.                                                     *)

Desks == [on : SUBSET Items, over : [Items -> SUBSET Items],
          outer : [Handles -> Rects \cup {NoRect}],
          owner : [Handles -> Clients \cup {Nobody}],
          desktop : Clients \cup {Nobody}, form : Clients \cup {Nobody},
          tree : BOOLEAN, gone : SUBSET Clients]

\* The outer rectangle of a slot, if it has one.
Outers == Rects \cup {NoRect}

\* The rectangles derived from a window's outer one are rectangles.
LEMMA OuterFacts ==
    ASSUME NEW r \in Outers
    PROVE  /\ r \in Rectangles /\ Shadowed(r) \in Rectangles /\ Work(r) \in Rectangles
           /\ TitleStrip(r) \in Rectangles
           /\ r.x \in Int /\ r.y \in Int /\ r.w \in Int /\ r.h \in Int
           /\ r \in Rects => r.w > 0 /\ r.h > 0
<1>1. r \in Rectangles /\ (r \in Rects => r.w > 0 /\ r.h > 0)
  BY StackAssumption, Nothing DEF Outers
<1>2. r.x \in Int /\ r.y \in Int /\ r.w \in Int /\ r.h \in Int
  BY <1>1 DEF Rectangles
<1>3. Shadowed(r) \in Rectangles /\ Work(r) \in Rectangles /\ TitleStrip(r) \in Rectangles
  BY <1>2, Nothing DEF Shadowed, Work, TitleStrip, Rect, Rectangles
<1> QED BY <1>1, <1>2, <1>3

\* The windows, the form and the desktop are different things.
LEMMA ItemKinds ==
    /\ Form \notin Handles /\ 0 \notin Handles /\ 0 \notin Items /\ Form \in Items
    /\ Handles \subseteq Items /\ \A i \in Items : i # Form => i \in Handles
    /\ Nobody \notin Items /\ Handles \subseteq Nat \ {0} /\ MaxWindows \in Nat
    /\ Form # 0 /\ Nobody # 0 /\ Items \subseteq Int
BY StackAssumption DEF Handles, Items, Form

\* An item covers its rectangle, a window with its shadow.
LEMMA CoverFacts ==
    ASSUME NEW d \in Desks, NEW i \in Items
    PROVE  /\ Cover(d, i) \in Rectangles
           /\ i = Form => Cover(d, i) = FormRect
           /\ i # Form => /\ i \in Handles /\ d.outer[i] \in Outers
                          /\ Cover(d, i) = Shadowed(d.outer[i])
<1>1. CASE i = Form
  BY <1>1, StackAssumption DEF Cover
<1>2. CASE i # Form
  <2>1. i \in Handles /\ d.outer[i] \in Outers
    BY <1>2, ItemKinds DEF Desks, Outers
  <2>2. Cover(d, i) = Shadowed(d.outer[i])
    BY <1>2 DEF Cover
  <2> QED BY <1>2, <2>1, <2>2, OuterFacts
<1> QED BY <1>1, <1>2

-----------------------------------------------------------------------------
(* What can be seen, as rectangles.                                          *)

\* The list of visible rectangles tiles what nothing above covers.
LEMMA VisibleFacts ==
    ASSUME NEW d \in Desks, NEW above \in SUBSET Items, NEW base \in Rectangles
    PROVE  Tiling(Visible(d, above, base), Cells(base) \ Coverage(d, above))
<1> DEFINE m == MaxWindows
           first == {r \in {base} : r.w > 0 /\ r.h > 0}
           turn(L, k) == IF k \in above THEN Cut(L, Cover(d, k)) ELSE L
           Lists == SUBSET Rectangles
           G == [k \in 1..m |-> [L \in Lists |-> turn(L, k)]]
           seen(n) == Cells(base) \ UNION {Cells(Cover(d, i)) : i \in above \cap 1..n}
<1>1. m \in Nat /\ first \in Lists /\ \A k \in 1..m : k \in Items /\ Cover(d, k) \in Rectangles
  BY StackAssumption, ItemKinds, CoverFacts DEF Handles
<1>2. \A L, k : turn(L, k) \in Lists \/ ~(L \in Lists /\ k \in 1..m)
  <2> SUFFICES ASSUME NEW L \in Lists, NEW k \in 1..m
               PROVE  turn(L, k) \in Lists
    OBVIOUS
  <2>1. \A s \in L : \A i \in DOMAIN Subtract(s, Cover(d, k)) :
            Subtract(s, Cover(d, k))[i] \in Rectangles
    <3> TAKE s \in L
    <3> DEFINE cut == Subtract(s, Cover(d, k))
    <3>1. cut \in Seq(Rectangles)
      BY <1>1, SubtractFacts
    <3> HIDE DEF cut
    <3>2. \A i \in DOMAIN cut : cut[i] \in Rectangles
      BY <3>1
    <3> QED BY <3>2 DEF cut
  <2> QED BY <2>1 DEF Cut, Members
<1>3. G \in [1..m -> [Lists -> Lists]]
  BY <1>2
<1>4. \A k \in 1..m, L \in Lists : G[k][L] = turn(L, k)
  OBVIOUS
<1> HIDE DEF G, m, first, turn
<1>5. PICK f : Turns(f, Lists, m, first, G)
  BY <1>1, <1>3, Iterates
<1>6. f = [k \in 0..m |-> IF k = 0 THEN first ELSE turn(f[k - 1], k)]
  <2>1. \A k \in 0..m : f[k] = IF k = 0 THEN first ELSE turn(f[k - 1], k)
    <3> TAKE k \in 0..m
    <3>1. k # 0 => k \in 1..m /\ k - 1 \in 0..m
      BY <1>1
    <3>2. k # 0 => f[k - 1] \in Lists
      BY <1>5, <3>1 DEF Turns
    <3> QED BY <1>4, <1>5, <3>1, <3>2 DEF Turns
  <2> QED BY <1>5, <2>1 DEF Turns
<1> DEFINE Is(g) == g = [k \in 0..m |-> IF k = 0 THEN first ELSE turn(g[k - 1], k)]
           g == CHOOSE h : Is(h)
<1>7. Is(g)
  <2>1. Is(f)
    BY <1>6
  <2> HIDE DEF Is
  <2> QED BY <2>1
<1>8. Visible(d, above, base) = IF Form \in above THEN Cut(g[m], FormRect) ELSE g[m]
  <2>1. g = CHOOSE h : h = [k \in 0..MaxWindows |->
                               IF k = 0 THEN {r \in {base} : r.w > 0 /\ r.h > 0}
                               ELSE IF k \in above THEN Cut(h[k - 1], Cover(d, k))
                               ELSE h[k - 1]]
    BY DEF m, first, turn
  <2> HIDE DEF g
  <2> QED BY <2>1 DEF Visible, m
<1> HIDE DEF g
<1>9. \A k \in 0..m : g[k] = IF k = 0 THEN first ELSE turn(g[k - 1], k)
  BY <1>7
<1> HIDE DEF Is
<1> DEFINE P == [n \in 0..m |-> Tiling(g[n], seen(n))]
<1>10. P[0]
  <2>1. g[0] = first /\ 0 \in 0..m
    BY <1>1, <1>9
  <2>2. \A r, s \in first : r = s
    BY DEF first
  <2>3. Shows(first) = Cells(base)
    <3>1. CASE base.w > 0 /\ base.h > 0
      BY <3>1 DEF Shows, first
    <3>2. CASE ~(base.w > 0 /\ base.h > 0)
      BY <3>2, NoCells DEF Shows, first
    <3> QED BY <3>1, <3>2
  <2>4. seen(0) = Cells(base)
    OBVIOUS
  <2>5. \A r \in first : r \in Rectangles /\ r.w > 0 /\ r.h > 0
    BY DEF first
  <2>6. Tiling(first, Cells(base))
    BY <2>2, <2>3, <2>5 DEF Tiling
  <2> QED BY <2>1, <2>4, <2>6
<1>11. ASSUME NEW n \in 1..m, P[n - 1]
       PROVE  P[n]
  <2>1. n - 1 \in 0..m /\ n \in 0..m /\ n # 0 /\ n \in Items /\ Cover(d, n) \in Rectangles
    BY <1>1
  <2>2. Tiling(g[n - 1], seen(n - 1))
    BY <1>11, <2>1
  <2>3. g[n] = turn(g[n - 1], n)
    BY <1>9, <2>1
  <2>4. 1..n = (1..n - 1) \cup {n}
    BY <2>1
  <2>5. CASE n \in above
    <3>1. g[n] = Cut(g[n - 1], Cover(d, n))
      BY <2>3, <2>5 DEF turn
    <3>2. seen(n) = seen(n - 1) \ Cells(Cover(d, n))
      BY <2>4, <2>5
    <3>3. Tiling(g[n], seen(n - 1) \ Cells(Cover(d, n)))
      <4> HIDE DEF seen
      <4> QED BY <2>1, <2>2, <3>1, CutFacts
    <3> HIDE DEF seen
    <3> QED BY <2>1, <3>2, <3>3
  <2>6. CASE n \notin above
    <3>1. g[n] = g[n - 1]
      BY <2>3, <2>6 DEF turn
    <3>2. above \cap 1..n = above \cap 1..n - 1
      BY <2>4, <2>6
    <3> QED BY <2>1, <2>2, <3>1, <3>2
  <2> QED BY <2>5, <2>6
<1>12. Tiling(g[m], seen(m))
  <2>1. P \in [0..m -> BOOLEAN]
    BY DEF Tiling
  <2> HIDE DEF P
  <2>2. \A n \in 0..m : P[n]
    BY <1>1, <1>10, <1>11, <2>1, TurnByTurn
  <2>3. m \in 0..m
    BY <1>1
  <2>4. P[m] = Tiling(g[m], seen(m))
    BY <2>3 DEF P
  <2> QED BY <2>2, <2>3, <2>4
<1>13. above = (above \cap 1..m) \cup (above \cap {Form})
  BY DEF m, Items, Handles
<1>14. CASE Form \in above
  <2>1. \A c : c \in Coverage(d, above) <=>
                 \/ c \in UNION {Cells(Cover(d, i)) : i \in above \cap 1..m}
                 \/ c \in Cells(FormRect)
    <3> TAKE c
    <3>1. c \in Coverage(d, above) <=> \E i \in above : c \in Cells(Cover(d, i))
      BY DEF Coverage
    <3>2. \A i \in above : i \in above \cap 1..m \/ i = Form
      BY <1>13
    <3>3. Cover(d, Form) = FormRect
      BY DEF Cover
    <3>4. c \in UNION {Cells(Cover(d, i)) : i \in above \cap 1..m} <=>
            \E i \in above \cap 1..m : c \in Cells(Cover(d, i))
      OBVIOUS
    <3> QED BY <1>14, <3>1, <3>2, <3>3, <3>4
  <2>2. Cells(base) \ Coverage(d, above) = seen(m) \ Cells(FormRect)
    <3> DEFINE U == UNION {Cells(Cover(d, i)) : i \in above \cap 1..m}
    <3>1. \A c : c \in Coverage(d, above) <=> c \in U \/ c \in Cells(FormRect)
      BY <2>1
    <3>2. seen(m) = Cells(base) \ U
      OBVIOUS
    <3> HIDE DEF U, seen
    <3> QED BY <3>1, <3>2
  <2> HIDE DEF seen
  <2>3. Tiling(Cut(g[m], FormRect), seen(m) \ Cells(FormRect))
    BY <1>12, CutFacts, StackAssumption
  <2> QED BY <1>8, <1>14, <2>2, <2>3
<1>15. CASE Form \notin above
  <2>1. above = above \cap 1..m
    BY <1>13, <1>15
  <2>2. Coverage(d, above) = UNION {Cells(Cover(d, i)) : i \in above \cap 1..m}
    BY <2>1 DEF Coverage
  <2> QED BY <1>8, <1>12, <1>15, <2>2
<1> QED BY <1>14, <1>15

\* A cell is covered when one of the items covers it.
LEMMA CoverageIs ==
    ASSUME NEW d, NEW S, NEW c
    PROVE  c \in Coverage(d, S) <=> \E i \in S : c \in Cells(Cover(d, i))
BY DEF Coverage

-----------------------------------------------------------------------------
(* The order of the stack.                                                   *)

\* What is over an item is open, and what is over that is over the item too;
\* of any two open items one is over the other.
Ordered(d) ==
    /\ \A i \in Items : /\ d.over[i] \subseteq d.on \ {i}
                        /\ i \notin d.on => d.over[i] = {}
                        /\ \A j \in d.over[i] : d.over[j] \subseteq d.over[i]
    /\ \A i, j \in d.on : i # j => j \in d.over[i] \/ i \in d.over[j]

\* Of some open items exactly one has none of the others over it.
LEMMA UppermostFacts ==
    ASSUME NEW d \in Desks, Ordered(d), NEW S \in SUBSET d.on, S # {}
    PROVE  /\ Uppermost(d, S) \in S /\ d.over[Uppermost(d, S)] \cap S = {}
           /\ \A u \in S : d.over[u] \cap S = {} => u = Uppermost(d, S)
<1> DEFINE m == MaxWindows
           Upto(n) == {Form} \cup 1..n
           P == [n \in 0..m |-> S \cap Upto(n) # {} =>
                   \E u \in S \cap Upto(n) : d.over[u] \cap (S \cap Upto(n)) = {}]
<1>1. m \in Nat /\ d.on \subseteq Items /\ S \subseteq Items /\ Items = Upto(m)
  BY StackAssumption DEF Desks, Items, Handles
<1>2. \A i \in Items : /\ d.over[i] \subseteq d.on \ {i}
                       /\ \A j \in d.over[i] : d.over[j] \subseteq d.over[i]
  BY DEF Ordered
<1>3. P[0]
  <2>1. Upto(0) = {Form} /\ 0 \in 0..m
    BY <1>1
  <2>2. ASSUME S \cap {Form} # {}
        PROVE  Form \in S \cap {Form} /\ d.over[Form] \cap (S \cap {Form}) = {}
    BY <2>2, <1>1, <1>2
  <2> QED BY <2>1, <2>2
<1>4. ASSUME NEW n \in 1..m, P[n - 1]
      PROVE  P[n]
  <2>1. /\ n - 1 \in 0..m /\ n \in 0..m /\ Upto(n) = Upto(n - 1) \cup {n}
    BY <1>1
  <2> DEFINE A == S \cap Upto(n - 1)
             B == S \cap Upto(n)
  <2>2. A # {} => \E u \in A : d.over[u] \cap A = {}
    BY <1>4, <2>1
  <2>3. SUFFICES ASSUME B # {} PROVE \E u \in B : d.over[u] \cap B = {}
    BY <2>1
  <2>4. B \subseteq Items /\ B \subseteq A \cup {n} /\ A \subseteq B
    BY <1>1, <2>1
  <2>5. CASE n \notin S
    <3>1. A = B
      BY <2>1, <2>5
    <3> QED BY <2>2, <2>3, <3>1
  <2>6. CASE n \in S
    <3>1. n \in B /\ n \in Items
      BY <1>1, <2>1, <2>6
    <3> HIDE DEF A, B
    <3>2. CASE A = {}
      <4>1. d.over[n] \cap B = {}
        BY <1>2, <2>4, <3>1, <3>2
      <4> QED BY <3>1, <4>1
    <3>3. CASE A # {}
      <4>1. PICK u \in A : d.over[u] \cap A = {}
        BY <2>2, <3>3
      <4>2. u \in B /\ u \in Items
        BY <2>4, <4>1
      <4>3. CASE n \notin d.over[u]
        <5>1. d.over[u] \cap B = {}
          BY <2>4, <4>1, <4>3
        <5> QED BY <4>2, <5>1
      <4>4. CASE n \in d.over[u]
        <5>1. d.over[n] \subseteq d.over[u] /\ n \notin d.over[n]
          BY <1>2, <3>1, <4>2, <4>4
        <5>2. d.over[n] \cap B = {}
          BY <2>4, <4>1, <5>1
        <5> QED BY <3>1, <5>2
      <4> QED BY <4>3, <4>4
    <3> QED BY <3>2, <3>3
  <2> QED BY <2>5, <2>6
<1>5. PICK u \in S : d.over[u] \cap S = {}
  <2>1. P \in [0..m -> BOOLEAN]
    OBVIOUS
  <2> HIDE DEF P
  <2>2. P[m]
    <3>1. \A n \in 0..m : P[n]
      BY <1>1, <1>3, <1>4, <2>1, TurnByTurn
    <3> QED BY <1>1, <3>1
  <2>3. m \in 0..m /\ S \cap Upto(m) = S
    BY <1>1
  <2> QED BY <2>2, <2>3 DEF P
<1>6. \A v, w \in S : d.over[v] \cap S = {} /\ d.over[w] \cap S = {} => v = w
  BY DEF Ordered
<1> DEFINE t == CHOOSE i \in S : d.over[i] \cap S = {}
<1>7. t \in S /\ d.over[t] \cap S = {}
  BY <1>5
<1>8. Uppermost(d, S) = t
  BY DEF Uppermost
<1> HIDE DEF t
<1> QED BY <1>6, <1>7, <1>8

\* What is seen at a cell is what covers it, with nothing over it that does.
LEMMA SeenFacts ==
    ASSUME NEW d \in Desks, Ordered(d), NEW c
    PROVE  /\ Seen(d, c) \in d.on \cup {0}
           /\ Seen(d, c) = 0 <=> c \notin Coverage(d, d.on)
           /\ \A i \in d.on : Seen(d, c) = i <=> /\ c \in Cells(Cover(d, i))
                                                 /\ c \notin Coverage(d, d.over[i])
<1> DEFINE here == {i \in d.on : c \in Cells(Cover(d, i))}
<1>1. Seen(d, c) = IF here = {} THEN 0 ELSE Uppermost(d, here)
  BY DEF Seen
<1>2. c \notin Coverage(d, d.on) <=> here = {}
  BY CoverageIs
<1>3. d.on \subseteq Items /\ 0 \notin Items /\ here \in SUBSET d.on
  BY ItemKinds DEF Desks
<1>4. \A i \in d.on : c \notin Coverage(d, d.over[i]) <=> d.over[i] \cap here = {}
  <2> TAKE i \in d.on
  <2>1. d.over[i] \subseteq d.on
    BY <1>3 DEF Ordered
  <2> QED BY <2>1, CoverageIs
<1>5. \A i \in d.on : i \in here <=> c \in Cells(Cover(d, i))
  OBVIOUS
<1> HIDE DEF here
<1>6. CASE here = {}
  BY <1>1, <1>2, <1>3, <1>4, <1>5, <1>6
<1>7. CASE here # {}
  <2> DEFINE u == Uppermost(d, here)
  <2>1. /\ u \in here /\ d.over[u] \cap here = {}
        /\ \A i \in here : d.over[i] \cap here = {} => i = u
    BY <1>3, <1>7, UppermostFacts
  <2>2. Seen(d, c) = u
    BY <1>1, <1>7
  <2> HIDE DEF u
  <2>3. u \in d.on /\ u # 0
    BY <1>3, <2>1
  <2> QED BY <1>2, <1>4, <1>5, <1>7, <2>1, <2>2, <2>3
<1> QED BY <1>6, <1>7

\* The top window is the one over every other, under the form only.
LEMMA TopFacts ==
    ASSUME NEW d \in Desks, Ordered(d)
    PROVE  /\ Top(d) \in Handles \cup {Nobody}
           /\ Top(d) = Nobody <=> d.on \subseteq {Form}
           /\ \A h \in Handles : Top(d) = h <=> h \in d.on /\ d.over[h] \subseteq {Form}
<1> DEFINE S == d.on \ {Form}
<1>1. /\ Top(d) = IF d.on \subseteq {Form} THEN Nobody ELSE Uppermost(d, S)
      /\ S \in SUBSET d.on /\ S \subseteq Handles /\ d.on \subseteq Items
  BY ItemKinds DEF Top, Desks
<1>2. \A h \in Handles : h # Nobody /\ h # Form /\ h \in Items
  BY ItemKinds
<1>3. CASE d.on \subseteq {Form}
  BY <1>1, <1>2, <1>3
<1>4. CASE ~(d.on \subseteq {Form})
  <2> DEFINE u == Uppermost(d, S)
  <2>1. /\ u \in S /\ d.over[u] \cap S = {}
        /\ \A i \in S : d.over[i] \cap S = {} => i = u
    BY <1>1, <1>4, UppermostFacts
  <2>2. Top(d) = u
    BY <1>1, <1>4
  <2>3. \A h \in Handles : h \in d.on /\ d.over[h] \subseteq {Form}
                           <=> h \in S /\ d.over[h] \cap S = {}
    BY <1>2 DEF Ordered
  <2> HIDE DEF u
  <2>4. u \in Handles /\ u # Nobody
    BY <1>1, <1>2, <2>1
  <2>5. \A h \in Handles : u = h <=> h \in S /\ d.over[h] \cap S = {}
    BY <2>1
  <2> QED BY <1>4, <2>2, <2>3, <2>4, <2>5
<1> QED BY <1>3, <1>4

\* Raising an item puts it over all the others and keeps their order.
LEMMA RaisedIs ==
    ASSUME NEW d \in Desks, Ordered(d), NEW i \in Items
    PROVE  LET e == Raised(d, i)
           IN /\ e \in Desks /\ Ordered(e) /\ e.on = d.on \cup {i}
              /\ \A j \in Items : j = i \/ j \notin d.on => e.over[j] = {}
              /\ \A j \in Items : j # i /\ j \in d.on => e.over[j] = d.over[j] \cup {i}
              /\ e.outer = d.outer /\ e.owner = d.owner /\ e.desktop = d.desktop
              /\ e.form = d.form /\ e.tree = d.tree /\ e.gone = d.gone
<1> DEFINE e == Raised(d, i)
<1>0. /\ e.on = d.on \cup {i}
      /\ \A j \in Items : e.over[j] = IF j = i \/ j \notin d.on THEN {}
                                      ELSE d.over[j] \cup {i}
  BY DEF Desks, Raised
<1>1. /\ e.outer = d.outer /\ e.owner = d.owner /\ e.desktop = d.desktop
      /\ e.form = d.form /\ e.tree = d.tree /\ e.gone = d.gone
  BY DEF Desks, Raised
<1>2. e \in Desks
  BY DEF Desks, Raised
<1>3. /\ \A j \in Items : /\ d.over[j] \subseteq d.on \ {j}
                          /\ j \notin d.on => d.over[j] = {}
                          /\ \A k \in d.over[j] : d.over[k] \subseteq d.over[j]
      /\ \A j, k \in d.on : j # k => k \in d.over[j] \/ j \in d.over[k]
      /\ d.on \subseteq Items
  BY DEF Ordered, Desks
<1> HIDE DEF e
<1>4. \A j \in Items : /\ e.over[j] \subseteq e.on \ {j}
                       /\ j \notin e.on => e.over[j] = {}
  <2> TAKE j \in Items
  <2>1. CASE j = i \/ j \notin d.on
    <3>1. e.over[j] = {}
      BY <1>0, <2>1
    <3> QED BY <3>1
  <2>2. CASE j # i /\ j \in d.on
    <3>1. e.over[j] = d.over[j] \cup {i} /\ d.over[j] \subseteq d.on \ {j}
      BY <1>0, <1>3, <2>2
    <3> QED BY <1>0, <2>2, <3>1
  <2> QED BY <2>1, <2>2
<1>5. \A j \in Items : \A k \in e.over[j] : e.over[k] \subseteq e.over[j]
  <2> TAKE j \in Items
  <2> TAKE k \in e.over[j]
  <2>1. k \in Items /\ j # i /\ j \in d.on /\ e.over[j] = d.over[j] \cup {i}
    <3>1. j # i /\ j \in d.on
      BY <1>0
    <3>2. e.over[j] = d.over[j] \cup {i}
      BY <1>0, <3>1
    <3>3. d.over[j] \subseteq Items
      BY <1>3, <3>1
    <3> QED BY <3>1, <3>2, <3>3
  <2>2. CASE k = i
    BY <1>0, <2>1, <2>2
  <2>3. CASE k # i
    <3>1. k \in d.over[j] /\ k \in d.on /\ d.over[k] \subseteq d.over[j]
      BY <1>3, <2>1, <2>3
    <3>2. e.over[k] = d.over[k] \cup {i}
      BY <1>0, <2>1, <2>3, <3>1
    <3> QED BY <2>1, <3>1, <3>2
  <2> QED BY <2>2, <2>3
<1>6. \A j, k \in e.on : j # k => k \in e.over[j] \/ j \in e.over[k]
  <2> SUFFICES ASSUME NEW j \in e.on, NEW k \in e.on, j # k
               PROVE  k \in e.over[j] \/ j \in e.over[k]
    OBVIOUS
  <2>1. j \in Items /\ k \in Items
    BY <1>0, <1>3
  <2>2. CASE j = i
    BY <1>0, <2>1, <2>2
  <2>3. CASE k = i
    BY <1>0, <2>1, <2>3
  <2>4. CASE j # i /\ k # i
    <3>1. j \in d.on /\ k \in d.on
      BY <1>0, <2>4
    <3>2. e.over[j] = d.over[j] \cup {i} /\ e.over[k] = d.over[k] \cup {i}
      BY <1>0, <2>1, <2>4, <3>1
    <3>3. k \in d.over[j] \/ j \in d.over[k]
      BY <1>3, <3>1
    <3> QED BY <3>2, <3>3
  <2> QED BY <2>2, <2>3, <2>4
<1>7. Ordered(e)
  BY <1>4, <1>5, <1>6 DEF Ordered
<1> QED BY <1>0, <1>1, <1>2, <1>7 DEF e

\* Taking an item off the stack keeps the order of the others.
LEMMA LoweredIs ==
    ASSUME NEW d \in Desks, Ordered(d), NEW i \in Items
    PROVE  LET e == Lowered(d, i)
           IN /\ e \in Desks /\ Ordered(e) /\ e.on = d.on \ {i}
              /\ e.over[i] = {}
              /\ \A j \in Items : j # i => e.over[j] = d.over[j] \ {i}
              /\ e.outer = d.outer /\ e.owner = d.owner /\ e.desktop = d.desktop
              /\ e.form = d.form /\ e.tree = d.tree /\ e.gone = d.gone
<1> DEFINE e == Lowered(d, i)
<1>0. /\ e.on = d.on \ {i}
      /\ \A j \in Items : e.over[j] = IF j = i THEN {} ELSE d.over[j] \ {i}
  BY DEF Desks, Lowered
<1>1. /\ e.outer = d.outer /\ e.owner = d.owner /\ e.desktop = d.desktop
      /\ e.form = d.form /\ e.tree = d.tree /\ e.gone = d.gone
  BY DEF Desks, Lowered
<1>2. e \in Desks
  BY DEF Desks, Lowered
<1>3. /\ \A j \in Items : /\ d.over[j] \subseteq d.on \ {j}
                          /\ j \notin d.on => d.over[j] = {}
                          /\ \A k \in d.over[j] : d.over[k] \subseteq d.over[j]
      /\ \A j, k \in d.on : j # k => k \in d.over[j] \/ j \in d.over[k]
      /\ d.on \subseteq Items
  BY DEF Ordered, Desks
<1> HIDE DEF e
<1>4. \A j \in Items : /\ e.over[j] \subseteq e.on \ {j}
                       /\ j \notin e.on => e.over[j] = {}
  <2> TAKE j \in Items
  <2>1. CASE j = i
    <3>1. e.over[j] = {}
      BY <1>0, <2>1
    <3> QED BY <3>1
  <2>2. CASE j # i
    <3>1. /\ e.over[j] = d.over[j] \ {i} /\ d.over[j] \subseteq d.on \ {j}
          /\ j \notin d.on => d.over[j] = {}
      BY <1>0, <1>3, <2>2
    <3> QED BY <1>0, <2>2, <3>1
  <2> QED BY <2>1, <2>2
<1>5. \A j \in Items : \A k \in e.over[j] : e.over[k] \subseteq e.over[j]
  <2> TAKE j \in Items
  <2> TAKE k \in e.over[j]
  <2>1. j # i /\ k \in d.over[j] /\ k # i /\ k \in Items
    <3>1. j # i
      BY <1>0
    <3>2. e.over[j] = d.over[j] \ {i}
      BY <1>0, <3>1
    <3>3. d.over[j] \subseteq Items
      BY <1>3, <3>1
    <3> QED BY <3>1, <3>2, <3>3
  <2>2. e.over[k] = d.over[k] \ {i} /\ e.over[j] = d.over[j] \ {i}
    BY <1>0, <2>1
  <2> QED BY <1>3, <2>1, <2>2
<1>6. \A j, k \in e.on : j # k => k \in e.over[j] \/ j \in e.over[k]
  <2> SUFFICES ASSUME NEW j \in e.on, NEW k \in e.on, j # k
               PROVE  k \in e.over[j] \/ j \in e.over[k]
    OBVIOUS
  <2>1. j \in d.on /\ k \in d.on /\ j # i /\ k # i /\ j \in Items /\ k \in Items
    BY <1>0, <1>3
  <2>2. e.over[j] = d.over[j] \ {i} /\ e.over[k] = d.over[k] \ {i}
    BY <1>0, <2>1
  <2>3. k \in d.over[j] \/ j \in d.over[k]
    BY <1>3, <2>1
  <2> QED BY <2>1, <2>2, <2>3
<1>7. Ordered(e)
  BY <1>4, <1>5, <1>6 DEF Ordered
<1> QED BY <1>0, <1>1, <1>2, <1>7 DEF e

-----------------------------------------------------------------------------
(* Who owns what.                                                            *)

\* Whoever is on the stack belongs to somebody.
Owned(d) ==
    /\ Form \in d.on <=> d.form # Nobody
    /\ d.tree => d.form # Nobody
    /\ \A h \in Handles : d.owner[h] \in Clients => d.outer[h] \in Rects
    /\ \A h \in Handles \cap d.on : d.owner[h] \in Clients

Sound(d) == d \in Desks /\ Ordered(d) /\ Owned(d)

\* What is known of a window in a sound table.
LEMMA OnFacts ==
    ASSUME NEW d, Sound(d), NEW h \in Handles
    PROVE  /\ h \in Items /\ h # Form /\ d.outer[h] \in Outers
           /\ Cover(d, h) = Shadowed(d.outer[h])
           /\ d.owner[h] \in Clients \cup {Nobody}
           /\ d.over[h] \subseteq d.on \ {h}
           /\ h \in d.on => d.outer[h] \in Rects /\ d.owner[h] \in Clients
<1>1. d \in Desks /\ Ordered(d) /\ Owned(d)
  BY DEF Sound
<1>2. h \in Items /\ h # Form
  BY ItemKinds
<1>3. d.outer[h] \in Outers /\ Cover(d, h) = Shadowed(d.outer[h])
  BY <1>1, <1>2, CoverFacts
<1>4. d.owner[h] \in Clients \cup {Nobody}
  BY <1>1 DEF Desks
<1>5. d.over[h] \subseteq d.on \ {h}
  BY <1>1, <1>2 DEF Ordered
<1> QED BY <1>1, <1>2, <1>3, <1>4, <1>5 DEF Owned

\* Raising a window somebody owns keeps the table sound.
LEMMA RaisedSound ==
    ASSUME NEW d, Sound(d), NEW h \in Handles, d.owner[h] \in Clients
    PROVE  Sound(Raised(d, h))
<1>1. d \in Desks /\ Ordered(d) /\ Owned(d) /\ h \in Items /\ h # Form
  BY ItemKinds DEF Sound
<1> DEFINE e == Raised(d, h)
<1>2. e \in Desks /\ Ordered(e) /\ e.on = d.on \cup {h}
  BY <1>1, RaisedIs
<1>3. e.outer = d.outer /\ e.owner = d.owner /\ e.form = d.form /\ e.tree = d.tree
  BY <1>1, RaisedIs
<1> HIDE DEF e
<1>4. Owned(e)
  BY <1>1, <1>2, <1>3 DEF Owned
<1> QED BY <1>2, <1>4 DEF Sound, e

\* Closing a window keeps the table sound.
LEMMA LoweredSound ==
    ASSUME NEW d, Sound(d), NEW h \in Handles
    PROVE  Sound(Lowered(d, h))
<1>1. d \in Desks /\ Ordered(d) /\ Owned(d) /\ h \in Items /\ h # Form
  BY ItemKinds DEF Sound
<1> DEFINE e == Lowered(d, h)
<1>2. e \in Desks /\ Ordered(e) /\ e.on = d.on \ {h}
  BY <1>1, LoweredIs
<1>3. e.outer = d.outer /\ e.owner = d.owner /\ e.form = d.form /\ e.tree = d.tree
  BY <1>1, LoweredIs
<1> HIDE DEF e
<1>4. Owned(e)
  BY <1>1, <1>2, <1>3 DEF Owned
<1> QED BY <1>2, <1>4 DEF Sound, e

\* A window is given another rectangle.
Placed(d, h, r) == [d EXCEPT !.outer[h] = r]

\* Moving a window changes its rectangle and nothing else.
LEMMA PlacedIs ==
    ASSUME NEW d, Sound(d), NEW h \in Handles, NEW r \in Rects
    PROVE  LET e == Placed(d, h, r)
           IN /\ Sound(e) /\ e.on = d.on /\ e.over = d.over
              /\ e.outer[h] = r /\ \A k \in Handles : k # h => e.outer[k] = d.outer[k]
              /\ e.owner = d.owner /\ e.desktop = d.desktop
              /\ e.form = d.form /\ e.tree = d.tree /\ e.gone = d.gone
<1>1. d \in Desks /\ Ordered(d) /\ Owned(d)
  BY DEF Sound
<1> DEFINE e == Placed(d, h, r)
<1>2. /\ e.on = d.on /\ e.over = d.over
      /\ e.owner = d.owner /\ e.desktop = d.desktop
      /\ e.form = d.form /\ e.tree = d.tree /\ e.gone = d.gone
  BY <1>1 DEF Desks, Placed
<1>3. e.outer[h] = r /\ \A k \in Handles : k # h => e.outer[k] = d.outer[k]
  BY <1>1 DEF Desks, Placed
<1>4. e \in Desks
  BY <1>1 DEF Desks, Placed
<1> HIDE DEF e
<1>5. Ordered(e)
  BY <1>1, <1>2 DEF Ordered
<1>6. Owned(e)
  BY <1>1, <1>2, <1>3 DEF Owned
<1> QED BY <1>2, <1>3, <1>4, <1>5, <1>6 DEF Sound, e

\* Deleting a closed window frees its slot and changes no other.
LEMMA DeletedIs ==
    ASSUME NEW d, Sound(d), NEW h \in Handles, h \notin d.on
    PROVE  LET e == Deleted(d, h)
           IN /\ Sound(e) /\ e.on = d.on /\ e.over = d.over
              /\ e.owner[h] = Nobody
              /\ \A k \in Handles : k # h => /\ e.outer[k] = d.outer[k]
                                             /\ e.owner[k] = d.owner[k]
              /\ e.desktop = d.desktop
              /\ e.form = d.form /\ e.tree = d.tree /\ e.gone = d.gone
<1>1. d \in Desks /\ Ordered(d) /\ Owned(d) /\ Nobody \notin Clients
  BY StackAssumption DEF Sound
<1> DEFINE e == Deleted(d, h)
<1>2. /\ e.on = d.on /\ e.over = d.over /\ e.desktop = d.desktop
      /\ e.form = d.form /\ e.tree = d.tree /\ e.gone = d.gone
  BY <1>1 DEF Desks, Deleted
<1>3. /\ e.owner[h] = Nobody
      /\ \A k \in Handles : k # h => /\ e.outer[k] = d.outer[k]
                                     /\ e.owner[k] = d.owner[k]
  BY <1>1 DEF Desks, Deleted
<1>4. e \in Desks
  BY <1>1 DEF Desks, Deleted
<1> HIDE DEF e
<1>5. Ordered(e)
  BY <1>1, <1>2 DEF Ordered
<1>6. Owned(e)
  BY <1>1, <1>2, <1>3 DEF Owned
<1> QED BY <1>2, <1>3, <1>4, <1>5, <1>6 DEF Sound, e

Created(d, h, a, r) == [d EXCEPT !.owner[h] = a, !.outer[h] = r]

\* Creating a window fills a free slot and changes no other.
LEMMA CreatedIs ==
    ASSUME NEW d, Sound(d), NEW h \in Handles, d.owner[h] = Nobody,
           NEW a \in Clients, NEW r \in Rects
    PROVE  LET e == Created(d, h, a, r)
           IN /\ Sound(e) /\ e.on = d.on /\ e.over = d.over /\ h \notin d.on
              /\ e.owner[h] = a
              /\ \A k \in Handles : k # h => /\ e.outer[k] = d.outer[k]
                                             /\ e.owner[k] = d.owner[k]
              /\ e.desktop = d.desktop
              /\ e.form = d.form /\ e.tree = d.tree /\ e.gone = d.gone
<1>1. d \in Desks /\ Ordered(d) /\ Owned(d) /\ Nobody \notin Clients
  BY StackAssumption DEF Sound
<1> USE DEF Created
<1> DEFINE e == Created(d, h, a, r)
<1>2. /\ e.on = d.on /\ e.over = d.over /\ e.desktop = d.desktop
      /\ e.form = d.form /\ e.tree = d.tree /\ e.gone = d.gone
  BY <1>1 DEF Desks
<1>3. /\ e.owner[h] = a /\ e.outer[h] = r
      /\ \A k \in Handles : k # h => /\ e.outer[k] = d.outer[k]
                                     /\ e.owner[k] = d.owner[k]
  BY <1>1 DEF Desks
<1>4. e \in Desks
  BY <1>1 DEF Desks
<1>7. h \notin d.on
  BY <1>1 DEF Owned
<1> HIDE DEF e
<1>5. Ordered(e)
  BY <1>1, <1>2 DEF Ordered
<1>6. Owned(e)
  BY <1>1, <1>2, <1>3, <1>7 DEF Owned
<1> QED BY <1>2, <1>3, <1>4, <1>5, <1>6, <1>7 DEF Sound, e

\* Ending a form takes it off the stack and keeps the windows.
LEMMA FormlessIs ==
    ASSUME NEW d, Sound(d)
    PROVE  LET e == Formless(d)
           IN /\ Sound(e) /\ e.on = d.on \ {Form}
              /\ e.over[Form] = {}
              /\ \A j \in Items : j # Form => e.over[j] = d.over[j] \ {Form}
              /\ e.outer = d.outer /\ e.owner = d.owner /\ e.desktop = d.desktop
              /\ e.form = Nobody /\ ~e.tree /\ e.gone = d.gone
<1>1. d \in Desks /\ Ordered(d) /\ Owned(d) /\ Form \in Items
  BY ItemKinds DEF Sound
<1> DEFINE l == Lowered(d, Form)
           e == Formless(d)
<1>2. l \in Desks /\ Ordered(l) /\ l.on = d.on \ {Form}
  BY <1>1, LoweredIs
<1>3. /\ l.over[Form] = {}
      /\ \A j \in Items : j # Form => l.over[j] = d.over[j] \ {Form}
  BY <1>1, LoweredIs
<1>4. l.outer = d.outer /\ l.owner = d.owner /\ l.desktop = d.desktop /\ l.gone = d.gone
  BY <1>1, LoweredIs
<1>5. e = [l EXCEPT !.form = Nobody, !.tree = FALSE]
  BY DEF Formless
<1> HIDE DEF l, e
<1>6. /\ e.on = l.on /\ e.over = l.over /\ e.outer = l.outer /\ e.owner = l.owner
      /\ e.desktop = l.desktop /\ e.gone = l.gone /\ e.form = Nobody /\ e.tree = FALSE
  BY <1>2, <1>5 DEF Desks
<1>7. e \in Desks
  BY <1>2, <1>5 DEF Desks
<1>8. Ordered(e)
  BY <1>2, <1>6 DEF Ordered
<1>9. Owned(e)
  BY <1>1, <1>2, <1>4, <1>6 DEF Owned
<1>10. /\ e.over[Form] = {}
       /\ \A j \in Items : j # Form => e.over[j] = d.over[j] \ {Form}
  BY <1>3, <1>6
<1>11. Sound(e) /\ e.on = d.on \ {Form}
  BY <1>2, <1>6, <1>7, <1>8, <1>9 DEF Sound
<1> QED BY <1>4, <1>6, <1>10, <1>11 DEF e

\* The form is put on top.
LEMMA DialledIs ==
    ASSUME NEW d, Sound(d), d.form = Nobody, NEW a \in Clients
    PROVE  LET e == [Raised(d, Form) EXCEPT !.form = a]
           IN /\ Sound(e) /\ e.on = d.on \cup {Form} /\ Form \notin d.on
              /\ \A j \in Items : j = Form \/ j \notin d.on => e.over[j] = {}
              /\ \A j \in Items :
                    j # Form /\ j \in d.on => e.over[j] = d.over[j] \cup {Form}
              /\ e.outer = d.outer /\ e.owner = d.owner /\ e.desktop = d.desktop
              /\ e.form = a /\ ~e.tree /\ e.gone = d.gone
<1>1. d \in Desks /\ Ordered(d) /\ Owned(d) /\ Form \in Items /\ Nobody \notin Clients
  BY ItemKinds, StackAssumption DEF Sound
<1> DEFINE l == Raised(d, Form)
           e == [l EXCEPT !.form = a]
<1>2. l \in Desks /\ Ordered(l) /\ l.on = d.on \cup {Form}
  BY <1>1, RaisedIs
<1>3. /\ \A j \in Items : j = Form \/ j \notin d.on => l.over[j] = {}
      /\ \A j \in Items :
            j # Form /\ j \in d.on => l.over[j] = d.over[j] \cup {Form}
  BY <1>1, RaisedIs
<1>4. /\ l.outer = d.outer /\ l.owner = d.owner /\ l.desktop = d.desktop /\ l.gone = d.gone
      /\ l.tree = d.tree
  BY <1>1, RaisedIs
<1>5. d.tree = FALSE /\ Form \notin d.on
  BY <1>1 DEF Owned, Desks
<1> HIDE DEF l
<1>6. /\ e.on = l.on /\ e.over = l.over /\ e.outer = l.outer /\ e.owner = l.owner
      /\ e.desktop = l.desktop /\ e.gone = l.gone /\ e.form = a /\ e.tree = l.tree
  BY <1>2 DEF Desks
<1>7. e \in Desks
  BY <1>2 DEF Desks
<1> HIDE DEF e
<1>8. Ordered(e)
  BY <1>2, <1>6 DEF Ordered
<1>9. Owned(e)
  <2>1. Form \in e.on /\ e.form # Nobody
    BY <1>1, <1>2, <1>6
  <2>2. \A h \in Handles : h \in e.on => h \in d.on
    BY <1>2, <1>6, ItemKinds
  <2>3. e.outer = d.outer /\ e.owner = d.owner
    BY <1>4, <1>6
  <2>4. \A h \in Handles \cap e.on : e.owner[h] \in Clients
    BY <1>1, <2>2, <2>3 DEF Owned
  <2>5. \A h \in Handles : e.owner[h] \in Clients => e.outer[h] \in Rects
    BY <1>1, <2>3 DEF Owned
  <2> QED BY <2>1, <2>4, <2>5 DEF Owned
<1>10. /\ \A j \in Items : j = Form \/ j \notin d.on => e.over[j] = {}
       /\ \A j \in Items :
             j # Form /\ j \in d.on => e.over[j] = d.over[j] \cup {Form}
  BY <1>3, <1>6
<1>11. Sound(e) /\ e.on = d.on \cup {Form}
  BY <1>2, <1>6, <1>7, <1>8, <1>9 DEF Sound
<1>12. /\ e.outer = d.outer /\ e.owner = d.owner /\ e.desktop = d.desktop
       /\ e.form = a /\ ~e.tree /\ e.gone = d.gone /\ Form \notin d.on
  BY <1>4, <1>5, <1>6
<1> QED BY <1>10, <1>11, <1>12 DEF e, l

\* Showing a form that was dialled keeps the table sound.
LEMMA FormRaisedSound ==
    ASSUME NEW d, Sound(d), d.form # Nobody
    PROVE  Sound(Raised(d, Form))
<1>1. d \in Desks /\ Ordered(d) /\ Owned(d) /\ Form \in Items
  BY ItemKinds DEF Sound
<1> DEFINE e == Raised(d, Form)
<1>2. e \in Desks /\ Ordered(e) /\ e.on = d.on \cup {Form}
  BY <1>1, RaisedIs
<1>3. e.outer = d.outer /\ e.owner = d.owner /\ e.form = d.form /\ e.tree = d.tree
  BY <1>1, RaisedIs
<1> HIDE DEF e
<1>4. Owned(e)
  <2>1. e.on = d.on
    BY <1>1, <1>2 DEF Owned
  <2> QED BY <1>1, <1>3, <2>1 DEF Owned
<1> QED BY <1>2, <1>4 DEF Sound, e

-----------------------------------------------------------------------------
(* What is shown and queued.                                                 *)

\* Work area, frame and notches of a window are within its cover.
LEMMA WorkFacts ==
    ASSUME NEW r \in Outers
    PROVE  /\ Cells(Work(r)) \subseteq Cells(Shadowed(r))
           /\ Interior(Work(r)) \subseteq Cells(Work(r))
           /\ Cells(Work(r)) \cap Notches(r) = {}
           /\ Framed(r) \subseteq Cells(Shadowed(r))
<1>1. /\ r \in Rectangles /\ r.x \in Int /\ r.y \in Int /\ r.w \in Int /\ r.h \in Int
  BY OuterFacts
<1> DEFINE w == Work(r)
           i == Rect(w.x + 1, w.y + 1, w.w - 2, w.h - 2)
           s == Rect(r.x, r.y, r.w + 1, r.h + 1)
<1>2. /\ w \in Rectangles /\ w.x = r.x + 1 /\ w.y = r.y + 2 /\ w.w = r.w - 2 /\ w.h = r.h - 3
  BY <1>1 DEF Work, Rect, Rectangles
<1>3. /\ i \in Rectangles /\ i.x = w.x + 1 /\ i.y = w.y + 1 /\ i.w = w.w - 2 /\ i.h = w.h - 2
  <2> HIDE DEF w
  <2> QED BY <1>1, <1>2 DEF Rect, Rectangles
<1>4. /\ s \in Rectangles /\ s.x = r.x /\ s.y = r.y /\ s.w = r.w + 1 /\ s.h = r.h + 1
  BY <1>1 DEF Rect, Rectangles
<1>5. Interior(w) = Cells(i)
  BY DEF Interior
<1> HIDE DEF w, i, s
<1>6. \A c \in Plane :
         /\ c[1] \in Int /\ c[2] \in Int
         /\ c \in Cells(w) <=> w.x <= c[1] /\ c[1] < w.x + w.w /\ w.y <= c[2] /\ c[2] < w.y + w.h
         /\ c \in Cells(i) <=> i.x <= c[1] /\ c[1] < i.x + i.w /\ i.y <= c[2] /\ c[2] < i.y + i.h
         /\ c \in Cells(s) <=> s.x <= c[1] /\ c[1] < s.x + s.w /\ s.y <= c[2] /\ c[2] < s.y + s.h
  BY <1>2, <1>3, <1>4, InCells DEF Plane
<1>7. Cells(w) \subseteq Plane /\ Cells(i) \subseteq Plane
  BY <1>2, <1>3, OnPlane
<1>8. \A c \in Plane : c \in Cells(i) => c \in Cells(w)
  <2> TAKE c \in Plane
  <2>1. c[1] \in Int /\ c[2] \in Int
    BY <1>6
  <2> QED BY <1>1, <1>2, <1>3, <1>6, <2>1
<1>9. \A c \in Plane : c \in Cells(w) => c \in Cells(Shadowed(r))
  <2> TAKE c \in Plane
  <2>1. c[1] \in Int /\ c[2] \in Int
    BY <1>6
  <2>2. CASE r.w <= 0 \/ r.h <= 0
    BY <1>1, <1>2, <1>6, <2>1, <2>2
  <2>3. CASE ~(r.w <= 0 \/ r.h <= 0)
    <3>1. Shadowed(r) = s
      BY <2>3 DEF Shadowed, s
    <3>2. c \in Cells(w) => c \in Cells(s)
      BY <1>1, <1>2, <1>4, <1>6, <2>1
    <3> QED BY <3>1, <3>2
  <2> QED BY <2>2, <2>3
<1>10. \A c \in Plane : c \in Cells(w) => c \notin Notches(r)
  <2> TAKE c \in Plane
  <2>1. c[1] \in Int /\ c[2] \in Int
    BY <1>6
  <2>2. ASSUME c \in Cells(w), c \in Notches(r)
        PROVE  FALSE
    <3>1. c[1] = r.x + r.w \/ c[1] = r.x
      BY <2>2 DEF Notches
    <3> QED BY <1>1, <1>2, <1>6, <2>1, <2>2, <3>1
  <2> QED BY <2>2
<1>11. Framed(r) \subseteq Cells(Shadowed(r))
  BY DEF Framed
<1> QED BY <1>5, <1>7, <1>8, <1>9, <1>10, <1>11 DEF w

\* A cell of the frame that is not of the title looks the same on top or not.
LEMMA TitleFacts ==
    ASSUME NEW r \in Rects, NEW c \in Plane, c \notin Cells(TitleStrip(r))
    PROVE  ~(c[2] = r.y + 1 /\ c[1] \in r.x + 1 .. r.x + r.w - 2)
<1>1. r \in Outers
  BY DEF Outers
<1>2. /\ r.x \in Int /\ r.y \in Int /\ r.w \in Int /\ r.h \in Int /\ r.w > 0
  BY <1>1, OuterFacts
<1> DEFINE t == TitleStrip(r)
<1>3. /\ t \in Rectangles /\ t.x = r.x /\ t.y = r.y /\ t.w = r.w + 1 /\ t.h = 2
  BY <1>2 DEF TitleStrip, Rect, Rectangles
<1> HIDE DEF t
<1>4. c[1] \in Int /\ c[2] \in Int
  BY DEF Plane
<1>5. ~(t.x <= c[1] /\ c[1] < t.x + t.w /\ t.y <= c[2] /\ c[2] < t.y + t.h)
  BY <1>3, InCells DEF t
<1> QED BY <1>2, <1>3, <1>4, <1>5

\* What a cell can show apart from an application's drawing.
Colours == {Line, Desk, Checker, FormCell}
           \cup {<<"title", h, b>> : h \in Handles, b \in BOOLEAN}
           \cup (Int \X Int \X Int)

Ports == Handles \cup {0}

Screens == [pixels : [Cells(Screen) -> Colours],
            mail : [Clients -> [Ports -> Rectangles]]]

\* The frame of a window has colours.
LEMMA FrameCellType ==
    ASSUME NEW d, NEW h \in Handles, NEW c
    PROVE  FrameCell(d, h, c) \in Colours
<1>1. \A b \in BOOLEAN : <<"title", h, b>> \in Colours
  BY DEF Colours
<1>2. (Top(d) = h) \in BOOLEAN
  OBVIOUS
<1>3. Line \in Colours
  BY DEF Colours
<1>4. <<"title", h, Top(d) = h>> \in Colours
  BY <1>1, <1>2
<1> QED BY <1>3, <1>4 DEF FrameCell

\* Merging two dirty rectangles loses none of their cells.
LEMMA MergedFacts ==
    ASSUME NEW r \in Rectangles, NEW s \in Rectangles
    PROVE  /\ Merged(r, s) \in Rectangles
           /\ Cells(r) \subseteq Cells(Merged(r, s))
           /\ Cells(s) \subseteq Cells(Merged(r, s))
BY HullFacts, Nothing DEF Merged

\* Where the owner of a window, or of the desktop, may draw.
LEMMA AreaFacts ==
    ASSUME NEW d, Sound(d), NEW h \in Ports
    PROVE  /\ Area(d, h) \in Rectangles
           /\ h = 0 => Area(d, h) = Screen /\ OwnerOf(d, h) = d.desktop
           /\ h # 0 => /\ h \in Handles /\ Area(d, h) = Work(d.outer[h])
                       /\ OwnerOf(d, h) = d.owner[h]
<1>1. CASE h = 0
  BY <1>1, StackAssumption DEF Area, OwnerOf
<1>2. CASE h # 0
  <2>1. h \in Handles
    BY <1>2 DEF Ports
  <2>2. d.outer[h] \in Outers
    BY <2>1, OnFacts
  <2> QED BY <1>2, <2>1, <2>2, OuterFacts DEF Area, OwnerOf
<1> QED BY <1>1, <1>2

\* A redraw paints each cell of its rectangle and merges the requests.
LEMMA RedrawIs ==
    ASSUME NEW d, Sound(d), NEW s \in Screens, NEW dirty \in Rectangles
    PROVE  LET t == Redraw(d, s, dirty)
               r == Within(dirty, Screen)
           IN /\ t \in Screens
              /\ \A c \in Cells(Screen) : c \in Cells(r) =>
                    t.pixels[c] = Painted(d, Seen(d, c), c, s.pixels[c])
              /\ \A c \in Cells(Screen) : c \notin Cells(r) =>
                    t.pixels[c] = s.pixels[c]
              /\ \A a \in Clients, h \in Ports :
                    \/ t.mail[a][h] = Merged(s.mail[a][h], Within(Area(d, h), r))
                    \/ /\ t.mail[a][h] = s.mail[a][h]
                       /\ ~(/\ OwnerOf(d, h) = a
                            /\ \E c \in Cells(Within(Area(d, h), r)) : Seen(d, c) = h)
<1> DEFINE r == Within(dirty, Screen)
           seen == [c \in Cells(r) |-> Seen(d, c)]
           asked(a, h) == /\ OwnerOf(d, h) = a
                          /\ \E c \in Cells(Within(Area(d, h), r)) : seen[c] = h
           P == [c \in Cells(Screen) |->
                      IF c \in Cells(r) THEN Painted(d, seen[c], c, s.pixels[c])
                                        ELSE s.pixels[c]]
           M == [a \in Clients |-> [h \in Handles \cup {0} |->
                    IF asked(a, h)
                    THEN Merged(s.mail[a][h], Within(Area(d, h), r))
                    ELSE s.mail[a][h]]]
           t == Redraw(d, s, dirty)
<1>1. t = [pixels |-> P, mail |-> M]
  BY DEF Redraw
<1>2. r \in Rectangles /\ d \in Desks /\ Ordered(d)
  BY WithinFacts, StackAssumption DEF Sound
<1>3. /\ s.pixels \in [Cells(Screen) -> Colours]
      /\ s.mail \in [Clients -> [Ports -> Rectangles]]
  BY DEF Screens
<1>4. \A c \in Cells(r) : seen[c] = Seen(d, c)
  OBVIOUS
<1>5. \A h \in Ports : /\ Within(Area(d, h), r) \in Rectangles
                       /\ Cells(Within(Area(d, h), r)) \subseteq Cells(r)
  BY <1>2, AreaFacts, WithinFacts
<1>6. \A c \in Cells(Screen) : Painted(d, Seen(d, c), c, s.pixels[c]) \in Colours
  <2> TAKE c \in Cells(Screen)
  <2>1. Seen(d, c) \in d.on \cup {0} /\ d.on \subseteq Items
    BY <1>2, SeenFacts DEF Desks
  <2>2. s.pixels[c] \in Colours
    BY <1>3
  <2>3. CASE Seen(d, c) = 0
    <3>1. Painted(d, Seen(d, c), c, s.pixels[c]) = Checker
      BY <2>3, ItemKinds DEF Painted
    <3> QED BY <3>1 DEF Colours
  <2>4. CASE Seen(d, c) = Form
    <3>1. Painted(d, Form, c, s.pixels[c]) = IF d.tree THEN FormCell ELSE s.pixels[c]
      BY DEF Painted, Form
    <3> QED BY <2>2, <2>4, <3>1 DEF Colours
  <2>5. CASE Seen(d, c) # 0 /\ Seen(d, c) # Form
    <3>1. Seen(d, c) \in Handles
      BY <2>1, <2>5, ItemKinds
    <3>2. FrameCell(d, Seen(d, c), c) \in Colours
      BY <3>1, FrameCellType
    <3>3. Painted(d, Seen(d, c), c, s.pixels[c]) =
            IF c \in Framed(d.outer[Seen(d, c)]) THEN FrameCell(d, Seen(d, c), c)
            ELSE s.pixels[c]
      BY <2>5 DEF Painted
    <3> QED BY <2>2, <3>2, <3>3
  <2> QED BY <2>3, <2>4, <2>5
<1>7. P \in [Cells(Screen) -> Colours]
  <2>1. \A c \in Cells(Screen) : P[c] \in Colours
    BY <1>3, <1>4, <1>6
  <2> QED BY <2>1
<1>8. /\ \A c \in Cells(Screen) : c \in Cells(r) => P[c] = Painted(d, Seen(d, c), c, s.pixels[c])
      /\ \A c \in Cells(Screen) : c \notin Cells(r) => P[c] = s.pixels[c]
  BY <1>4
<1>9. \A a \in Clients, h \in Ports :
         /\ M[a][h] = IF asked(a, h) THEN Merged(s.mail[a][h], Within(Area(d, h), r))
                      ELSE s.mail[a][h]
         /\ M[a][h] \in Rectangles
  <2> TAKE a \in Clients, h \in Ports
  <2>1. M[a][h] = IF asked(a, h) THEN Merged(s.mail[a][h], Within(Area(d, h), r))
                  ELSE s.mail[a][h]
    BY DEF Ports
  <2>2. s.mail[a][h] \in Rectangles
    BY <1>3
  <2>3. Merged(s.mail[a][h], Within(Area(d, h), r)) \in Rectangles
    BY <1>5, <2>2, MergedFacts
  <2> HIDE DEF M, asked
  <2> QED BY <2>1, <2>2, <2>3
<1>10. M \in [Clients -> [Ports -> Rectangles]]
  <2>1. M = [a \in Clients |-> [h \in Ports |-> M[a][h]]]
    BY DEF Ports
  <2> HIDE DEF M
  <2> QED BY <1>9, <2>1
<1>11. \A a \in Clients, h \in Ports :
          asked(a, h) <=> /\ OwnerOf(d, h) = a
                          /\ \E c \in Cells(Within(Area(d, h), r)) : Seen(d, c) = h
  <2> TAKE a \in Clients, h \in Ports
  <2>1. \A c \in Cells(Within(Area(d, h), r)) : seen[c] = Seen(d, c)
    BY <1>4, <1>5
  <2> HIDE DEF seen
  <2> QED BY <2>1
<1> HIDE DEF P, M, asked, seen
<1>12. t \in Screens /\ t.pixels = P /\ t.mail = M
  BY <1>1, <1>7, <1>10 DEF Screens
<1> HIDE DEF t
<1>13. \A a \in Clients, h \in Ports :
          \/ t.mail[a][h] = Merged(s.mail[a][h], Within(Area(d, h), r))
          \/ t.mail[a][h] = s.mail[a][h] /\ ~asked(a, h)
  BY <1>9, <1>12
<1>14. \A a \in Clients, h \in Ports :
          \/ t.mail[a][h] = Merged(s.mail[a][h], Within(Area(d, h), r))
          \/ /\ t.mail[a][h] = s.mail[a][h]
             /\ ~(/\ OwnerOf(d, h) = a
                  /\ \E c \in Cells(Within(Area(d, h), r)) : Seen(d, c) = h)
  BY <1>11, <1>13
<1> QED BY <1>8, <1>12, <1>14 DEF t

-----------------------------------------------------------------------------
(* What redrawing repairs.                                                   *)

\* Cell c shows what is seen there, or its owner has been asked to draw it.
Fresh(d, s, c) ==
    /\ Seen(d, c) = 0 =>
          /\ s.pixels[c] = Checker
          /\ d.desktop = Nobody \/ c \in Cells(s.mail[d.desktop][0])
    /\ Seen(d, c) = Form => (d.tree => s.pixels[c] = FormCell)
    /\ \A h \in Handles : Seen(d, c) = h =>
          \/ c \in Notches(d.outer[h])
          \/ /\ c \in Framed(d.outer[h]) \ Cells(Work(d.outer[h]))
             /\ s.pixels[c] = FrameCell(d, h, c)
          \/ /\ c \in Cells(Work(d.outer[h]))
             /\ c \in Cells(s.mail[d.owner[h]][h])

\* Nothing that is asked for is taken back.
Grows(s0, s) ==
    \A a \in Clients, h \in Ports : Cells(s0.mail[a][h]) \subseteq Cells(s.mail[a][h])

\* From s0 to s, the cells of C have been redrawn, and others perhaps.
Painting(d, s0, s, C) ==
    /\ s0 \in Screens /\ s \in Screens /\ Grows(s0, s)
    /\ \A c \in Cells(Screen) \cap C : Fresh(d, s, c)
    /\ \A c \in Cells(Screen) : Fresh(d, s, c) \/ s.pixels[c] = s0.pixels[c]

\* A cell that is in order stays so while nothing is taken back.
LEMMA FreshStays ==
    ASSUME NEW d, Sound(d), NEW s \in Screens, NEW t \in Screens, Grows(s, t),
           NEW c, Fresh(d, s, c), t.pixels[c] = s.pixels[c]
    PROVE  Fresh(d, t, c)
<1>1. d \in Desks /\ Ordered(d) /\ Owned(d) /\ 0 \in Ports /\ Handles \subseteq Ports
  BY DEF Sound, Ports
<1>2. d.desktop \in Clients \cup {Nobody}
  BY <1>1 DEF Desks
<1>3. Seen(d, c) = 0 => /\ t.pixels[c] = Checker
                        /\ d.desktop = Nobody \/ c \in Cells(t.mail[d.desktop][0])
  BY <1>1, <1>2 DEF Fresh, Grows
<1>4. Seen(d, c) = Form => (d.tree => t.pixels[c] = FormCell)
  BY DEF Fresh
<1>5. ASSUME NEW h \in Handles, Seen(d, c) = h
      PROVE  \/ c \in Notches(d.outer[h])
             \/ /\ c \in Framed(d.outer[h]) \ Cells(Work(d.outer[h]))
                /\ t.pixels[c] = FrameCell(d, h, c)
             \/ /\ c \in Cells(Work(d.outer[h]))
                /\ c \in Cells(t.mail[d.owner[h]][h])
  <2>1. h \in d.on /\ h \in Ports
    BY <1>1, <1>5, SeenFacts, ItemKinds
  <2>2. d.owner[h] \in Clients
    BY <2>1, OnFacts
  <2>3. Cells(s.mail[d.owner[h]][h]) \subseteq Cells(t.mail[d.owner[h]][h])
    BY <2>1, <2>2 DEF Grows
  <2>4. \/ c \in Notches(d.outer[h])
        \/ /\ c \in Framed(d.outer[h]) \ Cells(Work(d.outer[h]))
           /\ s.pixels[c] = FrameCell(d, h, c)
        \/ /\ c \in Cells(Work(d.outer[h]))
           /\ c \in Cells(s.mail[d.owner[h]][h])
    BY <1>5 DEF Fresh
  <2> QED BY <2>3, <2>4
<1> QED BY <1>3, <1>4, <1>5 DEF Fresh

\* A redraw puts its rectangle in order and touches no other cell.
LEMMA RedrawFacts ==
    ASSUME NEW d, Sound(d), NEW s \in Screens, NEW dirty \in Rectangles
    PROVE  LET t == Redraw(d, s, dirty)
           IN /\ t \in Screens /\ Grows(s, t)
              /\ \A c \in Cells(Screen) \cap Cells(dirty) : Fresh(d, t, c)
              /\ \A c \in Cells(Screen) \ Cells(dirty) : t.pixels[c] = s.pixels[c]
<1> DEFINE t == Redraw(d, s, dirty)
           r == Within(dirty, Screen)
<1>1. /\ t \in Screens
      /\ \A c \in Cells(Screen) : c \in Cells(r) =>
            t.pixels[c] = Painted(d, Seen(d, c), c, s.pixels[c])
      /\ \A c \in Cells(Screen) : c \notin Cells(r) => t.pixels[c] = s.pixels[c]
  BY RedrawIs
<1>2. \A a \in Clients, h \in Ports :
         \/ t.mail[a][h] = Merged(s.mail[a][h], Within(Area(d, h), r))
         \/ /\ t.mail[a][h] = s.mail[a][h]
            /\ ~(/\ OwnerOf(d, h) = a
                 /\ \E c \in Cells(Within(Area(d, h), r)) : Seen(d, c) = h)
  BY RedrawIs
<1>3. r \in Rectangles /\ Cells(r) = Cells(dirty) \cap Cells(Screen)
  BY WithinFacts, StackAssumption
<1> HIDE DEF t, r
<1>4. \A h \in Ports : /\ Within(Area(d, h), r) \in Rectangles
                       /\ Cells(Within(Area(d, h), r)) = Cells(Area(d, h)) \cap Cells(r)
  BY <1>3, AreaFacts, WithinFacts
<1>5. \A a \in Clients, h \in Ports : s.mail[a][h] \in Rectangles
  BY DEF Screens
<1>6. Grows(s, t)
  BY <1>2, <1>4, <1>5, MergedFacts DEF Grows
<1>7. ASSUME NEW h \in Ports, NEW c \in Cells(r), Seen(d, c) = h,
             c \in Cells(Area(d, h)), OwnerOf(d, h) \in Clients
      PROVE  c \in Cells(t.mail[OwnerOf(d, h)][h])
  <2>1. c \in Cells(Within(Area(d, h), r))
    BY <1>4, <1>7
  <2>2. t.mail[OwnerOf(d, h)][h] = Merged(s.mail[OwnerOf(d, h)][h], Within(Area(d, h), r))
    BY <1>2, <1>7, <2>1
  <2> QED BY <1>4, <1>5, <1>7, <2>1, <2>2, MergedFacts
<1>8. d \in Desks /\ Ordered(d) /\ Owned(d)
  BY DEF Sound
<1>9. ASSUME NEW c \in Cells(Screen) \cap Cells(dirty)
      PROVE  Fresh(d, t, c)
  <2>1. /\ c \in Cells(r) /\ c \in Cells(Screen)
        /\ t.pixels[c] = Painted(d, Seen(d, c), c, s.pixels[c])
    BY <1>1, <1>3
  <2>2. ASSUME Seen(d, c) = 0
        PROVE  /\ t.pixels[c] = Checker
               /\ d.desktop = Nobody \/ c \in Cells(t.mail[d.desktop][0])
    <3>1. t.pixels[c] = Checker
      BY <2>1, <2>2, ItemKinds DEF Painted
    <3>2. 0 \in Ports /\ Area(d, 0) = Screen /\ OwnerOf(d, 0) = d.desktop
      BY AreaFacts DEF Ports
    <3>3. d.desktop \in Clients \cup {Nobody}
      BY <1>8 DEF Desks
    <3> QED BY <1>7, <2>1, <2>2, <3>1, <3>2, <3>3
  <2>3. ASSUME Seen(d, c) = Form, d.tree
        PROVE  t.pixels[c] = FormCell
    BY <2>1, <2>3 DEF Painted, Form
  <2>4. ASSUME NEW h \in Handles, Seen(d, c) = h
        PROVE  \/ c \in Notches(d.outer[h])
               \/ /\ c \in Framed(d.outer[h]) \ Cells(Work(d.outer[h]))
                  /\ t.pixels[c] = FrameCell(d, h, c)
               \/ /\ c \in Cells(Work(d.outer[h]))
                  /\ c \in Cells(t.mail[d.owner[h]][h])
    <3>1. h \in d.on /\ h \in Ports /\ h # 0 /\ h # Form /\ h \in Items
      BY <1>8, <2>4, SeenFacts, ItemKinds DEF Ports
    <3>2. /\ d.owner[h] \in Clients /\ d.outer[h] \in Outers
          /\ Cover(d, h) = Shadowed(d.outer[h])
      BY <3>1, OnFacts
    <3>3. Area(d, h) = Work(d.outer[h]) /\ OwnerOf(d, h) = d.owner[h]
      BY <3>1, AreaFacts
    <3>4. c \in Cells(Shadowed(d.outer[h]))
      BY <1>8, <2>4, <3>1, <3>2, SeenFacts
    <3>5. CASE c \in Cells(Work(d.outer[h]))
      BY <1>7, <2>1, <2>4, <3>1, <3>2, <3>3, <3>5
    <3>6. CASE c \notin Cells(Work(d.outer[h])) /\ c \notin Notches(d.outer[h])
      <4>1. c \in Framed(d.outer[h])
        BY <3>2, <3>4, <3>6, WorkFacts DEF Framed
      <4>2. t.pixels[c] = FrameCell(d, h, c)
        BY <2>1, <2>4, <3>1, <4>1 DEF Painted
      <4> QED BY <3>6, <4>1, <4>2
    <3> QED BY <3>5, <3>6
  <2> QED BY <2>2, <2>3, <2>4 DEF Fresh
<1>10. \A c \in Cells(Screen) \ Cells(dirty) : t.pixels[c] = s.pixels[c]
  BY <1>1, <1>3
<1> QED BY <1>1, <1>6, <1>9, <1>10 DEF t

\* Doing nothing paints nothing.
LEMMA NothingPainted ==
    ASSUME NEW d, NEW s \in Screens
    PROVE  Painting(d, s, s, {})
BY DEF Painting, Grows

\* One more step of drawing, which redraws the cells of D and no other.
LEMMA PaintMore ==
    ASSUME NEW d, Sound(d), NEW s0, NEW s, NEW C, Painting(d, s0, s, C),
           NEW t \in Screens, Grows(s, t), NEW D,
           \A c \in Cells(Screen) \cap D : Fresh(d, t, c),
           \A c \in Cells(Screen) \ D : t.pixels[c] = s.pixels[c]
    PROVE  Painting(d, s0, t, C \cup D)
<1>1. /\ s0 \in Screens /\ s \in Screens /\ Grows(s0, s)
      /\ \A c \in Cells(Screen) \cap C : Fresh(d, s, c)
      /\ \A c \in Cells(Screen) : Fresh(d, s, c) \/ s.pixels[c] = s0.pixels[c]
  BY DEF Painting
<1>2. Grows(s0, t)
  BY <1>1 DEF Grows
<1>3. \A c \in Cells(Screen) : Fresh(d, s, c) => Fresh(d, t, c)
  BY <1>1, FreshStays
<1>4. \A c \in Cells(Screen) \cap (C \cup D) : Fresh(d, t, c)
  BY <1>1, <1>3
<1>5. \A c \in Cells(Screen) : Fresh(d, t, c) \/ t.pixels[c] = s0.pixels[c]
  BY <1>1, <1>3
<1> QED BY <1>1, <1>2, <1>4, <1>5 DEF Painting

\* One more redraw adds its cells to what has been painted.
LEMMA RedrawPaints ==
    ASSUME NEW d, Sound(d), NEW s0, NEW s, NEW C, Painting(d, s0, s, C),
           NEW dirty \in Rectangles
    PROVE  Painting(d, s0, Redraw(d, s, dirty), C \cup Cells(dirty))
<1> DEFINE t == Redraw(d, s, dirty)
<1>1. s \in Screens
  BY DEF Painting
<1>2. /\ t \in Screens /\ Grows(s, t)
      /\ \A c \in Cells(Screen) \cap Cells(dirty) : Fresh(d, t, c)
      /\ \A c \in Cells(Screen) \ Cells(dirty) : t.pixels[c] = s.pixels[c]
  BY <1>1, RedrawFacts
<1> HIDE DEF t
<1>3. Painting(d, s0, t, C \cup Cells(dirty))
  BY <1>2, PaintMore
<1> QED BY <1>3 DEF t

\* What has been painted has been painted in part.
LEMMA PaintLess ==
    ASSUME NEW d, NEW s0, NEW s, NEW C, Painting(d, s0, s, C), NEW D,
           Cells(Screen) \cap D \subseteq C
    PROVE  Painting(d, s0, s, D)
BY DEF Painting

\* Redrawing a list of rectangles paints the cells of all of them.
LEMMA RedrawAllPaints ==
    ASSUME NEW d, Sound(d), NEW s \in Screens, NEW rects \in Seq(Rectangles)
    PROVE  Painting(d, s, RedrawAll(d, s, rects),
                    UNION {Cells(rects[k]) : k \in 1..Len(rects)})
<1> DEFINE m == Len(rects)
           turn(x, k) == Redraw(d, x, rects[k])
           G == [k \in 1..m |-> [x \in Screens |-> turn(x, k)]]
           done(n) == UNION {Cells(rects[k]) : k \in 1..n}
<1>1. m \in Nat /\ \A k \in 1..m : rects[k] \in Rectangles
  OBVIOUS
<1>2. \A k \in 1..m, x \in Screens : turn(x, k) \in Screens
  BY <1>1, RedrawFacts
<1>3. G \in [1..m -> [Screens -> Screens]]
  <2> HIDE DEF turn, m
  <2> QED BY <1>2
<1>4. \A k \in 1..m, x \in Screens : G[k][x] = turn(x, k)
  OBVIOUS
<1> HIDE DEF G, m, turn
<1>5. PICK f : Turns(f, Screens, m, s, G)
  BY <1>1, <1>3, Iterates
<1>6. f = [k \in 0..m |-> IF k = 0 THEN s ELSE turn(f[k - 1], k)]
  <2>1. \A k \in 0..m : f[k] = IF k = 0 THEN s ELSE turn(f[k - 1], k)
    <3> TAKE k \in 0..m
    <3>1. k # 0 => k \in 1..m /\ k - 1 \in 0..m
      BY <1>1
    <3>2. k # 0 => f[k - 1] \in Screens
      BY <1>5, <3>1 DEF Turns
    <3> QED BY <1>4, <1>5, <3>1, <3>2 DEF Turns
  <2> QED BY <1>5, <2>1 DEF Turns
<1> DEFINE Is(g) == g = [k \in 0..m |-> IF k = 0 THEN s ELSE turn(g[k - 1], k)]
           g == CHOOSE h : Is(h)
<1>7. Is(g)
  <2>1. Is(f)
    BY <1>6
  <2> HIDE DEF Is
  <2> QED BY <2>1
<1>8. RedrawAll(d, s, rects) = g[m]
  <2>1. g = CHOOSE h : h = [k \in 0..Len(rects) |->
                               IF k = 0 THEN s ELSE Redraw(d, h[k - 1], rects[k])]
    BY DEF m, turn
  <2> HIDE DEF g
  <2> QED BY <2>1 DEF RedrawAll, m
<1> HIDE DEF g
<1>9. \A k \in 0..m : g[k] = IF k = 0 THEN s ELSE turn(g[k - 1], k)
  BY <1>7
<1> HIDE DEF Is
<1> DEFINE P == [n \in 0..m |-> Painting(d, s, g[n], done(n))]
<1>10. P[0]
  <2>1. g[0] = s /\ 0 \in 0..m
    BY <1>1, <1>9
  <2>2. done(0) = {}
    OBVIOUS
  <2> QED BY <2>1, <2>2, NothingPainted
<1>11. ASSUME NEW n \in 1..m, P[n - 1]
       PROVE  P[n]
  <2>1. n - 1 \in 0..m /\ n \in 0..m /\ n # 0 /\ 1..n = (1..n - 1) \cup {n}
    BY <1>1
  <2>2. Painting(d, s, g[n - 1], done(n - 1))
    BY <1>11, <2>1
  <2>3. g[n] = Redraw(d, g[n - 1], rects[n])
    BY <1>9, <2>1 DEF turn
  <2>4. done(n) = done(n - 1) \cup Cells(rects[n])
    BY <2>1
  <2> HIDE DEF done
  <2>5. Painting(d, s, Redraw(d, g[n - 1], rects[n]), done(n - 1) \cup Cells(rects[n]))
    BY <1>1, <2>2, RedrawPaints
  <2> QED BY <2>1, <2>3, <2>4, <2>5
<1>12. Painting(d, s, g[m], done(m))
  <2>1. P \in [0..m -> BOOLEAN]
    BY DEF Painting
  <2> HIDE DEF P
  <2>2. \A n \in 0..m : P[n]
    BY <1>1, <1>10, <1>11, <2>1, TurnByTurn
  <2>3. m \in 0..m
    BY <1>1
  <2>4. P[m] = Painting(d, s, g[m], done(m))
    BY <2>3 DEF P
  <2> QED BY <2>2, <2>3, <2>4
<1> QED BY <1>8, <1>12 DEF m

\* A change of a window repaints where it was and where it is.
LEMMA ChangePaints ==
    ASSUME NEW d, Sound(d), NEW s \in Screens, NEW before \in Outers, NEW after \in Outers
    PROVE  Painting(d, s, Change(d, s, before, after),
                    Cells(Shadowed(before)) \cup Cells(Shadowed(after)))
<1> DEFINE b == Shadowed(before)
           e == Shadowed(after)
           cut == Subtract(b, e)
           list == Append(cut, e)
<1>1. b \in Rectangles /\ e \in Rectangles
  BY OuterFacts
<1>2. /\ cut \in Seq(Rectangles) /\ Len(cut) \in Nat
      /\ \A c \in Plane : (\E k \in 1..Len(cut) : c \in Cells(cut[k]))
                          <=> c \in Cells(b) /\ c \notin Cells(e)
  BY <1>1, SubtractFacts
<1>3. Change(d, s, before, after) = RedrawAll(d, s, list)
  BY DEF Change
<1> HIDE DEF b, e, cut
<1>4. /\ list \in Seq(Rectangles) /\ Len(list) = Len(cut) + 1
      /\ list[Len(cut) + 1] = e /\ \A k \in 1..Len(cut) : list[k] = cut[k]
  BY <1>1, <1>2
<1> HIDE DEF list
<1> DEFINE C == UNION {Cells(list[k]) : k \in 1..Len(list)}
<1>5. Painting(d, s, RedrawAll(d, s, list), C)
  BY <1>4, RedrawAllPaints
<1>6. \A c : c \in Cells(b) \/ c \in Cells(e) => \E k \in 1..Len(list) : c \in Cells(list[k])
  <2> TAKE c
  <2>1. CASE c \in Cells(e)
    <3>1. Len(cut) + 1 \in 1..Len(list)
      BY <1>2, <1>4
    <3> QED BY <1>4, <2>1, <3>1
  <2>2. CASE c \in Cells(b) /\ c \notin Cells(e)
    <3>1. c \in Plane
      BY <1>1, <2>2, OnPlane
    <3>2. PICK k \in 1..Len(cut) : c \in Cells(cut[k])
      BY <1>2, <2>2, <3>1
    <3>3. k \in 1..Len(list) /\ list[k] = cut[k]
      BY <1>2, <1>4
    <3> QED BY <3>2, <3>3
  <2> QED BY <2>1, <2>2
<1>7. Cells(b) \cup Cells(e) \subseteq C
  BY <1>6
<1> HIDE DEF C
<1>8. Painting(d, s, RedrawAll(d, s, list), Cells(b) \cup Cells(e))
  BY <1>5, <1>7, PaintLess
<1> QED BY <1>3, <1>8 DEF b, e

\* The title strips of the open ones of two windows.
Strips(d, p, n) == UNION {Cells(TitleStrip(d.outer[k])) : k \in {p, n} \cap d.on}

\* Redrawing a title repaints its strip.
LEMMA TitledPaints ==
    ASSUME NEW d, Sound(d), NEW s0, NEW s, NEW C, Painting(d, s0, s, C),
           NEW h \in Handles \cup {Nobody}
    PROVE  Painting(d, s0, Titled(d, s, h), C \cup Strips(d, h, h))
<1>1. d.on \subseteq Items
  BY DEF Sound, Desks
<1>2. CASE h \in d.on
  <2>1. h \in Handles /\ d.outer[h] \in Outers
    BY <1>1, <1>2, ItemKinds, OnFacts
  <2>2. Titled(d, s, h) = Redraw(d, s, TitleStrip(d.outer[h]))
    BY <1>2 DEF Titled
  <2>3. Strips(d, h, h) = Cells(TitleStrip(d.outer[h]))
    BY <1>2 DEF Strips
  <2>4. TitleStrip(d.outer[h]) \in Rectangles
    BY <2>1, OuterFacts
  <2> QED BY <2>2, <2>3, <2>4, RedrawPaints
<1>3. CASE h \notin d.on
  <2>1. Titled(d, s, h) = s /\ C \cup Strips(d, h, h) = C
    BY <1>3 DEF Titled, Strips
  <2> QED BY <2>1
<1> QED BY <1>2, <1>3

\* Redrawing the titles of the old and the new top repaints both strips.
LEMMA TitlesPaint ==
    ASSUME NEW d, Sound(d), NEW s0, NEW s, NEW C, Painting(d, s0, s, C),
           NEW p \in Handles \cup {Nobody}, NEW n \in Handles \cup {Nobody}
    PROVE  Painting(d, s0, Titles(d, s, p, n), C \cup Strips(d, p, n))
<1>1. CASE n = p
  BY <1>1, TitledPaints DEF Titles
<1>2. CASE n # p
  <2>1. Titles(d, s, p, n) = Titled(d, Titled(d, s, p), n)
    BY <1>2 DEF Titles
  <2>2. Painting(d, s0, Titled(d, s, p), C \cup Strips(d, p, p))
    BY TitledPaints
  <2>3. Painting(d, s0, Titled(d, Titled(d, s, p), n),
                 (C \cup Strips(d, p, p)) \cup Strips(d, n, n))
    BY <2>2, TitledPaints
  <2>4. (C \cup Strips(d, p, p)) \cup Strips(d, n, n) = C \cup Strips(d, p, n)
    BY DEF Strips
  <2> QED BY <2>1, <2>3, <2>4
<1> QED BY <1>1, <1>2

\* The window on top is drawn whole.
LEMMA ReframedPaints ==
    ASSUME NEW d, Sound(d), NEW s0, NEW s, NEW C, Painting(d, s0, s, C),
           NEW h \in Handles, h \in d.on, d.over[h] = {}
    PROVE  Painting(d, s0, Reframed(d, s, h), C \cup Cells(Shadowed(d.outer[h])))
<1> DEFINE r == d.outer[h]
           asked(a, k) == k = h /\ d.owner[h] = a /\ Cells(Work(r)) # {}
           P == [c \in Cells(Screen) |-> IF c \in Framed(r) THEN FrameCell(d, h, c)
                                         ELSE s.pixels[c]]
           M == [a \in Clients |-> [k \in Handles \cup {0} |->
                    IF asked(a, k) THEN Merged(s.mail[a][k], Work(r)) ELSE s.mail[a][k]]]
           t == Reframed(d, s, h)
<1>1. t = [pixels |-> P, mail |-> M]
  BY DEF Reframed
<1>2. /\ d \in Desks /\ Ordered(d) /\ Owned(d) /\ h \in Items /\ h # 0 /\ h # Form
      /\ r \in Outers /\ Cover(d, h) = Shadowed(r) /\ d.owner[h] \in Clients
  BY OnFacts, ItemKinds DEF Sound
<1>3. Work(r) \in Rectangles /\ s \in Screens
  BY <1>2, OuterFacts DEF Painting
<1>4. /\ s.pixels \in [Cells(Screen) -> Colours]
      /\ s.mail \in [Clients -> [Ports -> Rectangles]]
  BY <1>3 DEF Screens
<1>5. P \in [Cells(Screen) -> Colours]
  <2> HIDE DEF r
  <2> QED BY <1>4, FrameCellType
<1>6. \A a \in Clients, k \in Ports :
         /\ M[a][k] = IF asked(a, k) THEN Merged(s.mail[a][k], Work(r)) ELSE s.mail[a][k]
         /\ M[a][k] \in Rectangles
  <2> TAKE a \in Clients, k \in Ports
  <2>1. M[a][k] = IF asked(a, k) THEN Merged(s.mail[a][k], Work(r)) ELSE s.mail[a][k]
    BY DEF Ports
  <2>2. s.mail[a][k] \in Rectangles
    BY <1>4
  <2>3. Merged(s.mail[a][k], Work(r)) \in Rectangles
    BY <1>3, <2>2, MergedFacts
  <2> HIDE DEF M, asked
  <2> QED BY <2>1, <2>2, <2>3
<1>7. M \in [Clients -> [Ports -> Rectangles]]
  <2>1. M = [a \in Clients |-> [k \in Ports |-> M[a][k]]]
    BY DEF Ports
  <2> HIDE DEF M
  <2> QED BY <1>6, <2>1
<1>8. \A c \in Cells(Screen) : P[c] = IF c \in Framed(r) THEN FrameCell(d, h, c) ELSE s.pixels[c]
  OBVIOUS
<1> HIDE DEF P, M, r
<1>9. t \in Screens /\ t.pixels = P /\ t.mail = M
  BY <1>1, <1>5, <1>7 DEF Screens
<1> HIDE DEF t
<1>10. Grows(s, t)
  <2> SUFFICES ASSUME NEW a \in Clients, NEW k \in Ports
               PROVE  Cells(s.mail[a][k]) \subseteq Cells(t.mail[a][k])
    BY DEF Grows
  <2>1. s.mail[a][k] \in Rectangles
    BY <1>4
  <2> QED BY <1>3, <1>6, <1>9, <2>1, MergedFacts
<1>11. \A c \in Cells(Screen) \ Cells(Shadowed(r)) : t.pixels[c] = s.pixels[c]
  BY <1>2, <1>8, <1>9, WorkFacts
<1>12. ASSUME NEW c \in Cells(Screen) \cap Cells(Shadowed(r))
       PROVE  Fresh(d, t, c)
  <2>1. c \notin Coverage(d, d.over[h])
    BY CoverageIs
  <2>2. Seen(d, c) = h
    BY <1>2, <2>1, SeenFacts
  <2>3. \/ c \in Notches(r)
        \/ c \in Framed(r) \ Cells(Work(r)) /\ t.pixels[c] = FrameCell(d, h, c)
        \/ c \in Cells(Work(r)) /\ c \in Cells(t.mail[d.owner[h]][h])
    <3>1. CASE c \in Cells(Work(r))
      <4>1. h \in Ports /\ asked(d.owner[h], h)
        BY <3>1 DEF Ports
      <4>2. t.mail[d.owner[h]][h] = Merged(s.mail[d.owner[h]][h], Work(r))
        BY <1>2, <1>6, <1>9, <4>1
      <4>3. s.mail[d.owner[h]][h] \in Rectangles
        BY <1>2, <1>4, <4>1
      <4> QED BY <1>3, <3>1, <4>2, <4>3, MergedFacts
    <3>2. CASE c \notin Cells(Work(r)) /\ c \notin Notches(r)
      <4>1. c \in Framed(r)
        BY <1>2, <3>2, WorkFacts DEF Framed
      <4> QED BY <1>8, <1>9, <3>2, <4>1
    <3> QED BY <3>1, <3>2
  <2> QED BY <1>2, <2>2, <2>3, ItemKinds DEF Fresh, r
<1>13. Painting(d, s0, t, C \cup Cells(Shadowed(r)))
  BY <1>9, <1>10, <1>11, <1>12, PaintMore
<1> QED BY <1>13 DEF t, r

-----------------------------------------------------------------------------
(* What a change of the stack leaves alone.                                  *)

\* From table d0 to d, the same is to be seen at cell c, and is in order there
\* if it was.
Alike(d0, d, c) ==
    /\ Seen(d0, c) = Seen(d, c)
    /\ Seen(d, c) = 0 => d.desktop \in {d0.desktop, Nobody}
    /\ Seen(d, c) = Form => (d.tree => d0.tree)
    /\ \A h \in Handles : Seen(d, c) = h =>
          /\ d.outer[h] = d0.outer[h]
          /\ d.owner[h] = d0.owner[h]
          /\ FrameCell(d, h, c) = FrameCell(d0, h, c)

\* A step from d0 and s0 to d and s has redrawn each cell of C or left it alone.
Follows(C, d0, s0, d, s) ==
    /\ s0 \in Screens /\ s \in Screens /\ Grows(s0, s)
    /\ \A c \in C : \/ Fresh(d, s, c)
                    \/ Alike(d0, d, c) /\ s.pixels[c] = s0.pixels[c]

\* The screen is on the plane.
LEMMA ScreenCells == Cells(Screen) \subseteq Plane
BY OnPlane, StackAssumption

\* The same covers in the same order show the same at a cell.
LEMMA SeenSame ==
    ASSUME NEW d0 \in Desks, Ordered(d0), NEW d \in Desks, Ordered(d), NEW c,
           \A i \in Items : i \in d.on /\ c \in Cells(Cover(d, i))
                            <=> i \in d0.on /\ c \in Cells(Cover(d0, i)),
           \A i, j \in d.on : c \in Cells(Cover(d, i)) /\ c \in Cells(Cover(d, j))
                              => (j \in d.over[i] <=> j \in d0.over[i])
    PROVE  Seen(d, c) = Seen(d0, c)
<1>1. d.on \subseteq Items /\ d0.on \subseteq Items /\ 0 \notin Items
  BY ItemKinds DEF Desks
<1>2. CASE Seen(d, c) = 0
  <2>1. \A i \in d.on : c \notin Cells(Cover(d, i))
    BY <1>2, SeenFacts, CoverageIs
  <2>2. \A i \in d0.on : c \notin Cells(Cover(d0, i))
    BY <1>1, <2>1
  <2>3. c \notin Coverage(d0, d0.on)
    BY <2>2, CoverageIs
  <2> QED BY <1>2, <2>3, SeenFacts
<1>3. CASE Seen(d, c) # 0
  <2> DEFINE i == Seen(d, c)
  <2>1. i \in d.on
    BY <1>3, SeenFacts
  <2>2. c \in Cells(Cover(d, i)) /\ \A j \in d.over[i] : c \notin Cells(Cover(d, j))
    BY <2>1, SeenFacts, CoverageIs
  <2> HIDE DEF i
  <2>3. i \in d0.on /\ c \in Cells(Cover(d0, i)) /\ i \in Items
    BY <1>1, <2>1, <2>2
  <2>4. \A j \in d0.over[i] : c \notin Cells(Cover(d0, j))
    <3> SUFFICES ASSUME NEW j \in d0.over[i], c \in Cells(Cover(d0, j))
                 PROVE  FALSE
      OBVIOUS
    <3>1. j \in d0.on /\ j \in Items
      BY <1>1, <2>3 DEF Ordered
    <3>2. j \in d.on /\ c \in Cells(Cover(d, j))
      BY <3>1
    <3>3. j \in d.over[i]
      BY <2>1, <2>2, <3>2
    <3> QED BY <2>2, <3>2, <3>3
  <2>5. c \notin Coverage(d0, d0.over[i])
    BY <2>4, CoverageIs
  <2>6. Seen(d0, c) = i
    BY <2>3, <2>5, SeenFacts
  <2> QED BY <2>6 DEF i
<1> QED BY <1>2, <1>3

\* A frame looks the same unless its title changed between top and not.
LEMMA FrameSame ==
    ASSUME NEW d0, NEW d, NEW h \in Handles, d.outer[h] = d0.outer[h],
           d.outer[h] \in Rects, NEW c \in Plane,
           (Top(d) = h <=> Top(d0) = h) \/ c \notin Cells(TitleStrip(d.outer[h]))
    PROVE  FrameCell(d, h, c) = FrameCell(d0, h, c)
<1> DEFINE r == d.outer[h]
           title == c[2] = r.y + 1 /\ c[1] \in r.x + 1 .. r.x + r.w - 2
<1>1. CASE c \in Cells(TitleStrip(r))
  <2>1. (Top(d) = h) = (Top(d0) = h)
    BY <1>1
  <2> QED BY <2>1 DEF FrameCell
<1>2. CASE c \notin Cells(TitleStrip(r))
  <2>1. ~title
    BY <1>2, TitleFacts
  <2>2. FrameCell(d, h, c) = Line
    BY <2>1 DEF FrameCell
  <2>3. FrameCell(d0, h, c) = Line
    BY <2>1 DEF FrameCell
  <2> QED BY <2>2, <2>3
<1> QED BY <1>1, <1>2

\* When a cell is left alone by a change of the table.
LEMMA AlikeIf ==
    ASSUME NEW d0, Sound(d0), NEW d, Sound(d), NEW c \in Plane,
           Seen(d, c) = Seen(d0, c),
           d.desktop \in {d0.desktop, Nobody},
           Seen(d, c) = Form => (d.tree => d0.tree),
           \A h \in Handles : Seen(d, c) = h =>
              /\ d.outer[h] = d0.outer[h] /\ d.owner[h] = d0.owner[h]
              /\ (Top(d) = h <=> Top(d0) = h) \/ c \notin Cells(TitleStrip(d.outer[h]))
    PROVE  Alike(d0, d, c)
<1>1. \A h \in Handles : Seen(d, c) = h => FrameCell(d, h, c) = FrameCell(d0, h, c)
  <2> SUFFICES ASSUME NEW h \in Handles, Seen(d, c) = h
               PROVE  FrameCell(d, h, c) = FrameCell(d0, h, c)
    OBVIOUS
  <2>1. h \in d.on
    BY SeenFacts, ItemKinds DEF Sound
  <2>2. d.outer[h] \in Rects
    BY <2>1, OnFacts
  <2> QED BY <2>2, FrameSame
<1> QED BY <1>1 DEF Alike

\* A cell left alone twice is left alone.
LEMMA AlikeTwice ==
    ASSUME NEW d0, NEW d1, NEW d, NEW c, Alike(d0, d1, c), Alike(d1, d, c)
    PROVE  Alike(d0, d, c)
BY DEF Alike

\* What is in order and left alone is in order.
LEMMA FreshAlike ==
    ASSUME NEW d0, Sound(d0), NEW d, Sound(d), NEW s0 \in Screens, NEW s \in Screens,
           Grows(s0, s), NEW c, Alike(d0, d, c), s.pixels[c] = s0.pixels[c],
           Fresh(d0, s0, c)
    PROVE  Fresh(d, s, c)
<1>1. /\ d \in Desks /\ Ordered(d) /\ Owned(d) /\ d0 \in Desks
      /\ 0 \in Ports /\ Handles \subseteq Ports
  BY DEF Sound, Ports
<1>2. d.desktop \in Clients \cup {Nobody} /\ Seen(d0, c) = Seen(d, c)
  BY <1>1 DEF Desks, Alike
<1>3. ASSUME Seen(d, c) = 0
      PROVE  /\ s.pixels[c] = Checker
             /\ d.desktop = Nobody \/ c \in Cells(s.mail[d.desktop][0])
  <2>1. /\ s0.pixels[c] = Checker
        /\ d0.desktop = Nobody \/ c \in Cells(s0.mail[d0.desktop][0])
    BY <1>2, <1>3 DEF Fresh
  <2>2. d.desktop = d0.desktop \/ d.desktop = Nobody
    BY <1>3 DEF Alike
  <2>3. d.desktop \in Clients => Cells(s0.mail[d.desktop][0]) \subseteq Cells(s.mail[d.desktop][0])
    BY <1>1 DEF Grows
  <2> QED BY <1>2, <2>1, <2>2, <2>3
<1>4. ASSUME Seen(d, c) = Form, d.tree
      PROVE  s.pixels[c] = FormCell
  BY <1>2, <1>4 DEF Fresh, Alike
<1>5. ASSUME NEW h \in Handles, Seen(d, c) = h
      PROVE  \/ c \in Notches(d.outer[h])
             \/ /\ c \in Framed(d.outer[h]) \ Cells(Work(d.outer[h]))
                /\ s.pixels[c] = FrameCell(d, h, c)
             \/ /\ c \in Cells(Work(d.outer[h]))
                /\ c \in Cells(s.mail[d.owner[h]][h])
  <2>1. h \in d.on /\ h \in Ports
    BY <1>1, <1>5, SeenFacts, ItemKinds
  <2>2. d.owner[h] \in Clients
    BY <2>1, OnFacts
  <2>3. Cells(s0.mail[d.owner[h]][h]) \subseteq Cells(s.mail[d.owner[h]][h])
    BY <2>1, <2>2 DEF Grows
  <2>4. /\ d.outer[h] = d0.outer[h] /\ d.owner[h] = d0.owner[h]
        /\ FrameCell(d, h, c) = FrameCell(d0, h, c)
    BY <1>5 DEF Alike
  <2>5. \/ c \in Notches(d0.outer[h])
        \/ /\ c \in Framed(d0.outer[h]) \ Cells(Work(d0.outer[h]))
           /\ s0.pixels[c] = FrameCell(d0, h, c)
        \/ /\ c \in Cells(Work(d0.outer[h]))
           /\ c \in Cells(s0.mail[d0.owner[h]][h])
    BY <1>2, <1>5 DEF Fresh
  <2> QED BY <2>3, <2>4, <2>5
<1> QED BY <1>3, <1>4, <1>5 DEF Fresh

\* One step after another redraws what either of them changes.
LEMMA FollowsTwice ==
    ASSUME NEW C, NEW d0, Sound(d0), NEW d1, Sound(d1), NEW d, Sound(d),
           NEW s0, NEW s1, NEW s,
           Follows(C, d0, s0, d1, s1), Follows(C, d1, s1, d, s)
    PROVE  Follows(C, d0, s0, d, s)
<1>1. /\ s0 \in Screens /\ s1 \in Screens /\ s \in Screens
      /\ Grows(s0, s1) /\ Grows(s1, s)
  BY DEF Follows
<1>2. Grows(s0, s)
  BY <1>1 DEF Grows
<1>3. ASSUME NEW c \in C
      PROVE  Fresh(d, s, c) \/ (Alike(d0, d, c) /\ s.pixels[c] = s0.pixels[c])
  <2>1. CASE Fresh(d, s, c)
    BY <2>1
  <2>2. CASE Alike(d1, d, c) /\ s.pixels[c] = s1.pixels[c]
    <3>1. CASE Fresh(d1, s1, c)
      BY <1>1, <2>2, <3>1, FreshAlike
    <3>2. CASE Alike(d0, d1, c) /\ s1.pixels[c] = s0.pixels[c]
      BY <2>2, <3>2, AlikeTwice
    <3> QED BY <3>1, <3>2 DEF Follows
  <2> QED BY <2>1, <2>2 DEF Follows
<1> QED BY <1>1, <1>2, <1>3 DEF Follows

\* A painting follows a change that leaves all unpainted cells alone.
LEMMA PaintingFollows ==
    ASSUME NEW d0, NEW d, NEW s0, NEW s, NEW P, Painting(d, s0, s, P),
           NEW C \in SUBSET Cells(Screen), \A c \in C \ P : Alike(d0, d, c)
    PROVE  Follows(C, d0, s0, d, s)
<1>1. /\ s0 \in Screens /\ s \in Screens /\ Grows(s0, s)
      /\ \A c \in Cells(Screen) \cap P : Fresh(d, s, c)
      /\ \A c \in Cells(Screen) : Fresh(d, s, c) \/ s.pixels[c] = s0.pixels[c]
  BY DEF Painting
<1>2. \A c \in C : Fresh(d, s, c) \/ (Alike(d0, d, c) /\ s.pixels[c] = s0.pixels[c])
  BY <1>1
<1> QED BY <1>1, <1>2 DEF Follows

-----------------------------------------------------------------------------
(* Each operation redraws what it changes.                                   *)

\* Nothing is moved, covered or uncovered.
LEMMA QuietFollows ==
    ASSUME NEW d0, Sound(d0), NEW d, Sound(d), NEW s \in Screens,
           d.on = d0.on, d.over = d0.over,
           \A h \in Handles \cap d.on : /\ d.outer[h] = d0.outer[h]
                                        /\ d.owner[h] = d0.owner[h],
           d.desktop \in {d0.desktop, Nobody}, d.tree => d0.tree
    PROVE  Follows(Cells(Screen), d0, s, d, s)
<1>1. d0 \in Desks /\ Ordered(d0) /\ d \in Desks /\ Ordered(d)
  BY DEF Sound
<1>2. \A i \in d.on : i \in Items /\ Cover(d, i) = Cover(d0, i)
  <2> TAKE i \in d.on
  <2>1. i \in Items
    BY <1>1 DEF Desks
  <2> QED BY <2>1, ItemKinds DEF Cover
<1>3. \A h \in Handles : Top(d) = h <=> Top(d0) = h
  BY <1>1, TopFacts
<1>4. ASSUME NEW c \in Cells(Screen)
      PROVE  Alike(d0, d, c)
  <2>1. Seen(d, c) = Seen(d0, c)
    BY <1>1, <1>2, SeenSame
  <2>2. \A h \in Handles : Seen(d, c) = h => h \in d.on
    BY <1>1, SeenFacts, ItemKinds
  <2>3. c \in Plane
    BY ScreenCells
  <2> QED BY <1>3, <2>1, <2>2, <2>3, AlikeIf
<1> QED BY <1>4 DEF Follows, Grows

\* Moving or sizing a window redraws all it changes.
LEMMA MovedFollows ==
    ASSUME NEW d0, Sound(d0), NEW s \in Screens, NEW h \in Handles, NEW r \in Rects
    PROVE  LET d == Placed(d0, h, r)
               t == Change(d, s, d0.outer[h], r)
           IN /\ Follows(Cells(Screen), d0, s, d, t)
              /\ \A c \in Cells(Screen) \cap Cells(Shadowed(d0.outer[h])) : Fresh(d, t, c)
<1> DEFINE d == Placed(d0, h, r)
           t == Change(d, s, d0.outer[h], r)
           P == Cells(Shadowed(d0.outer[h])) \cup Cells(Shadowed(r))
<1>1. /\ Sound(d) /\ d.on = d0.on /\ d.over = d0.over
      /\ d.outer[h] = r /\ \A k \in Handles : k # h => d.outer[k] = d0.outer[k]
      /\ d.owner = d0.owner /\ d.desktop = d0.desktop /\ d.tree = d0.tree
  BY PlacedIs
<1> HIDE DEF d
<1>2. d0.outer[h] \in Outers /\ r \in Outers
  BY OnFacts DEF Outers
<1>3. Painting(d, s, t, P)
  BY <1>1, <1>2, ChangePaints
<1> HIDE DEF t
<1>4. d0 \in Desks /\ Ordered(d0) /\ d \in Desks /\ Ordered(d)
  BY <1>1 DEF Sound
<1>5. \A k \in Handles : Top(d) = k <=> Top(d0) = k
  BY <1>1, <1>4, TopFacts
<1>6. Cover(d, h) = Shadowed(r) /\ Cover(d0, h) = Shadowed(d0.outer[h])
  BY <1>1, OnFacts
<1>7. \A i \in Items : i # h => Cover(d, i) = Cover(d0, i)
  BY <1>1, ItemKinds DEF Cover
<1>8. ASSUME NEW c \in Cells(Screen) \ P
      PROVE  Alike(d0, d, c)
  <2>1. c \notin Cells(Cover(d, h)) /\ c \notin Cells(Cover(d0, h))
    BY <1>6
  <2>2. \A i \in Items : i \in d.on /\ c \in Cells(Cover(d, i))
                         <=> i \in d0.on /\ c \in Cells(Cover(d0, i))
    BY <1>1, <1>7, <2>1
  <2>3. Seen(d, c) = Seen(d0, c)
    BY <1>1, <1>4, <2>2, SeenSame
  <2>4. \A k \in Handles : Seen(d, c) = k => k # h
    BY <1>4, <2>1, SeenFacts, ItemKinds
  <2>5. c \in Plane
    BY ScreenCells
  <2> QED BY <1>1, <1>5, <2>3, <2>4, <2>5, AlikeIf
<1>9. Follows(Cells(Screen), d0, s, d, t)
  <2> HIDE DEF P
  <2> QED BY <1>3, <1>8, PaintingFollows
<1>10. \A c \in Cells(Screen) \cap Cells(Shadowed(d0.outer[h])) : Fresh(d, t, c)
  BY <1>3 DEF Painting
<1> QED BY <1>9, <1>10 DEF d, t

\* wind_open() of a window that was closed.
LEMMA OpenedFollows ==
    ASSUME NEW d0, Sound(d0), NEW s \in Screens, NEW h \in Handles, NEW r \in Rects,
           h \notin d0.on, d0.owner[h] \in Clients
    PROVE  LET d == Raised(Placed(d0, h, r), h)
               t == Titles(d, Change(d, s, NoRect, r), Top(d0), h)
           IN /\ Sound(d) /\ Follows(Cells(Screen), d0, s, d, t)
              /\ d.on = d0.on \cup {h} /\ d.owner = d0.owner /\ d.desktop = d0.desktop
              /\ d.form = d0.form /\ d.tree = d0.tree /\ d.gone = d0.gone
<1> DEFINE p == Placed(d0, h, r)
           d == Raised(p, h)
           u == Change(d, s, NoRect, r)
           t == Titles(d, u, Top(d0), h)
           P == (Cells(Shadowed(NoRect)) \cup Cells(Shadowed(r))) \cup Strips(d, Top(d0), h)
<1>1. /\ Sound(p) /\ p.on = d0.on /\ p.over = d0.over
      /\ p.outer[h] = r /\ \A k \in Handles : k # h => p.outer[k] = d0.outer[k]
      /\ p.owner = d0.owner /\ p.desktop = d0.desktop /\ p.tree = d0.tree
      /\ p.form = d0.form /\ p.gone = d0.gone
  BY PlacedIs
<1> HIDE DEF p
<1>2. Sound(d) /\ h \in Items
  BY <1>1, RaisedSound, ItemKinds
<1>3. p \in Desks /\ Ordered(p)
  BY <1>1 DEF Sound
<1>4. /\ d.on = d0.on \cup {h}
      /\ d.over[h] = {}
      /\ \A j \in Items : j # h /\ j \in d0.on => d.over[j] = d0.over[j] \cup {h}
  BY <1>1, <1>2, <1>3, RaisedIs
<1>5. /\ d.outer[h] = r /\ \A k \in Handles : k # h => d.outer[k] = d0.outer[k]
      /\ d.owner = d0.owner /\ d.desktop = d0.desktop /\ d.tree = d0.tree
      /\ d.form = d0.form /\ d.gone = d0.gone
  BY <1>1, <1>2, <1>3, RaisedIs
<1> HIDE DEF d
<1>6. NoRect \in Outers /\ r \in Outers
  BY DEF Outers
<1>7. d0 \in Desks /\ Ordered(d0) /\ d \in Desks /\ Ordered(d)
  BY <1>2 DEF Sound
<1>8. Top(d0) \in Handles \cup {Nobody}
  BY <1>7, TopFacts
<1>9. Painting(d, s, t, P)
  <2>1. Painting(d, s, u, Cells(Shadowed(NoRect)) \cup Cells(Shadowed(r)))
    BY <1>2, <1>6, ChangePaints
  <2> HIDE DEF u
  <2> QED BY <1>2, <1>8, <2>1, TitlesPaint
<1> HIDE DEF t
<1>10. Cover(d, h) = Shadowed(r)
  BY <1>2, <1>5, OnFacts
<1>11. \A i \in Items : i # h => Cover(d, i) = Cover(d0, i)
  BY <1>5, ItemKinds DEF Cover
<1>12. ASSUME NEW c \in Cells(Screen) \ P
       PROVE  Alike(d0, d, c)
  <2>1. c \notin Cells(Cover(d, h)) /\ c \notin Strips(d, Top(d0), h)
    BY <1>10
  <2>2. \A i \in Items : i \in d.on /\ c \in Cells(Cover(d, i))
                         <=> i \in d0.on /\ c \in Cells(Cover(d0, i))
    BY <1>4, <1>11, <2>1
  <2>3. \A i, j \in d.on : c \in Cells(Cover(d, i)) /\ c \in Cells(Cover(d, j))
                           => (j \in d.over[i] <=> j \in d0.over[i])
    <3> SUFFICES ASSUME NEW i \in d.on, NEW j \in d.on, c \in Cells(Cover(d, i)),
                        c \in Cells(Cover(d, j))
                 PROVE  j \in d.over[i] <=> j \in d0.over[i]
      OBVIOUS
    <3>1. i # h /\ j # h /\ i \in Items /\ i \in d0.on
      BY <1>4, <1>7, <2>1 DEF Desks
    <3>2. d.over[i] = d0.over[i] \cup {h}
      BY <1>4, <3>1
    <3> QED BY <3>1, <3>2
  <2>4. Seen(d, c) = Seen(d0, c)
    BY <1>7, <2>2, <2>3, SeenSame
  <2>5. \A k \in Handles : Seen(d, c) = k =>
           /\ k # h
           /\ (Top(d) = k <=> Top(d0) = k) \/ c \notin Cells(TitleStrip(d.outer[k]))
    <3> SUFFICES ASSUME NEW k \in Handles, Seen(d, c) = k
                 PROVE  /\ k # h
                        /\ (Top(d) = k <=> Top(d0) = k) \/ c \notin Cells(TitleStrip(d.outer[k]))
      OBVIOUS
    <3>1. k \in d.on /\ k # h
      BY <1>7, <2>1, SeenFacts, ItemKinds
    <3>2. Top(d) # k
      <4>1. Top(d) = h
        BY <1>4, <1>7, TopFacts
      <4> QED BY <3>1, <4>1
    <3>3. CASE Top(d0) = k
      BY <2>1, <3>1, <3>3 DEF Strips
    <3> QED BY <3>1, <3>2, <3>3
  <2>6. c \in Plane
    BY ScreenCells
  <2> QED BY <1>2, <1>5, <2>4, <2>5, <2>6, AlikeIf
<1>13. Follows(Cells(Screen), d0, s, d, t)
  <2> HIDE DEF P
  <2> QED BY <1>9, <1>12, PaintingFollows
<1> QED BY <1>2, <1>4, <1>5, <1>13 DEF d, t, p

\* aes_top_window(): all but what it is hidden at, and that too if it is
\* reframed or hidden nowhere.
LEMMA ToppedFollows ==
    ASSUME NEW d0, Sound(d0), NEW s \in Screens, NEW h \in Handles, h \in d0.on,
           Top(d0) # h
    PROVE  LET d == Raised(d0, h)
               t == Topped(d0, s, h)
               C == Cells(Shadowed(d0.outer[h]))
           IN /\ Sound(d) /\ t \in Screens
              /\ Follows(Cells(Screen) \ C, d0, s, d, t)
              /\ Obscured(d0, h) \/ Hidden(d0, h) = {}
                    => Follows(Cells(Screen), d0, s, d, t)
<1> DEFINE d == Raised(d0, h)
           C == Cells(Shadowed(d0.outer[h]))
           u == Titles(d, s, Top(d0), h)
           t == Topped(d0, s, h)
           P == {} \cup Strips(d, Top(d0), h)
<1>1. d0 \in Desks /\ Ordered(d0) /\ h \in Items /\ d0.owner[h] \in Clients
  BY OnFacts DEF Sound
<1>2. Sound(d)
  BY <1>1, RaisedSound
<1>3. /\ d.on = d0.on
      /\ d.over[h] = {}
      /\ \A j \in Items : j # h /\ j \in d0.on => d.over[j] = d0.over[j] \cup {h}
  <2>1. d.on = d0.on \cup {h}
    BY <1>1, RaisedIs
  <2>2. d.over[h] = {}
    BY <1>1, RaisedIs
  <2>3. \A j \in Items : j # h /\ j \in d0.on => d.over[j] = d0.over[j] \cup {h}
    BY <1>1, RaisedIs
  <2> HIDE DEF d
  <2> QED BY <2>1, <2>2, <2>3
<1>4. d.outer = d0.outer /\ d.owner = d0.owner /\ d.desktop = d0.desktop /\ d.tree = d0.tree
  BY <1>1, RaisedIs
<1>5. t = IF Obscured(d0, h) THEN Reframed(d, u, h) ELSE u
  BY DEF Topped
<1> HIDE DEF d
<1>6. d \in Desks /\ Ordered(d) /\ Top(d0) \in Handles \cup {Nobody}
  BY <1>1, <1>2, TopFacts DEF Sound
<1>7. Painting(d, s, u, P)
  BY <1>2, <1>6, NothingPainted, TitlesPaint
<1> HIDE DEF u, t
<1>8. \A i \in Items : Cover(d, i) = Cover(d0, i)
  BY <1>4 DEF Cover
<1>9. Cover(d, h) = Shadowed(d0.outer[h])
  BY <1>2, <1>4, OnFacts
<1>10. ASSUME NEW c \in Cells(Screen) \ P, Seen(d, c) = Seen(d0, c)
       PROVE  Alike(d0, d, c)
  <2>1. \A k \in Handles : Seen(d, c) = k =>
           (Top(d) = k <=> Top(d0) = k) \/ c \notin Cells(TitleStrip(d.outer[k]))
    <3> SUFFICES ASSUME NEW k \in Handles, Seen(d, c) = k
                 PROVE  (Top(d) = k <=> Top(d0) = k) \/ c \notin Cells(TitleStrip(d.outer[k]))
      OBVIOUS
    <3>1. k \in d.on
      BY <1>6, SeenFacts, ItemKinds
    <3>2. Top(d) = h
      BY <1>3, <1>6, TopFacts
    <3>3. CASE k = h \/ k = Top(d0)
      BY <3>1, <3>3 DEF Strips
    <3> QED BY <3>2, <3>3
  <2>2. c \in Plane
    BY ScreenCells
  <2> QED BY <1>2, <1>4, <1>10, <2>1, <2>2, AlikeIf
<1>11. ASSUME NEW c, c \notin C
       PROVE  Seen(d, c) = Seen(d0, c)
  <2>1. \A i, j \in d.on : c \in Cells(Cover(d, i)) /\ c \in Cells(Cover(d, j))
                           => (j \in d.over[i] <=> j \in d0.over[i])
    <3> SUFFICES ASSUME NEW i \in d.on, NEW j \in d.on, c \in Cells(Cover(d, i)),
                        c \in Cells(Cover(d, j))
                 PROVE  j \in d.over[i] <=> j \in d0.over[i]
      OBVIOUS
    <3>1. i # h /\ j # h /\ i \in Items /\ i \in d0.on
      BY <1>3, <1>6, <1>9, <1>11 DEF Desks
    <3>2. d.over[i] = d0.over[i] \cup {h}
      BY <1>3, <3>1
    <3> QED BY <3>1, <3>2
  <2> QED BY <1>1, <1>3, <1>6, <1>8, <2>1, SeenSame
<1>12. Painting(d, s, t, P) /\ (Obscured(d0, h) => Painting(d, s, t, P \cup C))
  <2>1. CASE Obscured(d0, h)
    <3>1. t = Reframed(d, u, h) /\ d.outer[h] = d0.outer[h] /\ h \in d.on
      BY <1>3, <1>4, <1>5, <2>1
    <3>2. Painting(d, s, Reframed(d, u, h), P \cup Cells(Shadowed(d.outer[h])))
      <4> HIDE DEF P
      <4> QED BY <1>2, <1>3, <1>7, <3>1, ReframedPaints
    <3>3. Painting(d, s, t, P \cup C)
      BY <3>1, <3>2
    <3> QED BY <3>3, PaintLess
  <2>2. CASE ~Obscured(d0, h)
    BY <1>5, <1>7, <2>2
  <2> QED BY <2>1, <2>2
<1>13. Follows(Cells(Screen) \ C, d0, s, d, t)
  <2> HIDE DEF P, C
  <2> QED BY <1>10, <1>11, <1>12, PaintingFollows
<1>14. ASSUME Obscured(d0, h)
       PROVE  Follows(Cells(Screen), d0, s, d, t)
  <2>1. \A c \in Cells(Screen) \ (P \cup C) : Alike(d0, d, c)
    BY <1>10, <1>11
  <2> HIDE DEF P, C
  <2> QED BY <1>12, <1>14, <2>1, PaintingFollows
<1>15. ASSUME Hidden(d0, h) = {}
       PROVE  Follows(Cells(Screen), d0, s, d, t)
  <2>1. \A c \in C : Seen(d0, c) = h
    BY <1>15 DEF Hidden
  <2>2. \A c \in C : Seen(d, c) = h
    <3> TAKE c \in C
    <3>1. c \in Cells(Cover(d, h)) /\ h \in d.on /\ c \notin Coverage(d, d.over[h])
      BY <1>3, <1>9, CoverageIs
    <3> QED BY <1>6, <3>1, SeenFacts
  <2>3. \A c \in Cells(Screen) \ P : Alike(d0, d, c)
    <3> HIDE DEF P, C
    <3> QED BY <1>10, <1>11, <2>1, <2>2
  <2> HIDE DEF P, C
  <2> QED BY <1>12, <2>3, PaintingFollows
<1>16. t \in Screens
  BY <1>13 DEF Follows
<1> QED BY <1>2, <1>13, <1>14, <1>15, <1>16 DEF d, t

\* Closing a window redraws all it changes.
LEMMA ClosedFollows ==
    ASSUME NEW d0, Sound(d0), NEW s \in Screens, NEW h \in Handles
    PROVE  LET d == Lowered(d0, h)
               t == Closed(d0, s, h)[2]
           IN /\ Closed(d0, s, h)[1] = d /\ Sound(d)
              /\ Follows(Cells(Screen), d0, s, d, t)
<1> DEFINE d == Lowered(d0, h)
           u == Change(d, s, d0.outer[h], NoRect)
           t == Closed(d0, s, h)[2]
           C == Cells(Shadowed(d0.outer[h])) \cup Cells(Shadowed(NoRect))
           P == IF Top(d0) = h THEN C \cup Strips(d, Nobody, Top(d)) ELSE C
<1>1. d0 \in Desks /\ Ordered(d0) /\ h \in Items
  BY OnFacts DEF Sound
<1>2. Sound(d)
  BY LoweredSound
<1>3. /\ d.on = d0.on \ {h}
      /\ \A j \in Items : j # h => d.over[j] = d0.over[j] \ {h}
  BY <1>1, LoweredIs
<1>4. d.outer = d0.outer /\ d.owner = d0.owner /\ d.desktop = d0.desktop /\ d.tree = d0.tree
  BY <1>1, LoweredIs
<1>5. /\ Closed(d0, s, h)[1] = d
      /\ t = IF Top(d0) = h THEN Titles(d, u, Nobody, Top(d)) ELSE u
  BY DEF Closed
<1> HIDE DEF d
<1>6. d \in Desks /\ Ordered(d) /\ Top(d) \in Handles \cup {Nobody}
  BY <1>2, TopFacts DEF Sound
<1>7. NoRect \in Outers /\ d0.outer[h] \in Outers
  BY OnFacts DEF Outers
<1>8. Painting(d, s, u, C)
  BY <1>2, <1>7, ChangePaints
<1> HIDE DEF u, t, C
<1>9. Painting(d, s, t, P)
  <2>1. CASE Top(d0) = h
    <3>1. Painting(d, s, Titles(d, u, Nobody, Top(d)), C \cup Strips(d, Nobody, Top(d)))
      BY <1>2, <1>6, <1>8, TitlesPaint
    <3> QED BY <1>5, <2>1, <3>1
  <2>2. CASE Top(d0) # h
    BY <1>5, <1>8, <2>2
  <2> QED BY <2>1, <2>2
<1>10. /\ Cover(d, h) = Shadowed(d0.outer[h])
       /\ \A i \in Items : Cover(d, i) = Cover(d0, i)
  BY <1>2, <1>4, OnFacts DEF Cover
<1>11. ASSUME NEW c \in Cells(Screen) \ P
       PROVE  Alike(d0, d, c)
  <2>1. c \notin Cells(Cover(d, h))
    BY <1>10 DEF C
  <2>2. \A i \in Items : i \in d.on /\ c \in Cells(Cover(d, i))
                         <=> i \in d0.on /\ c \in Cells(Cover(d0, i))
    BY <1>3, <1>10, <2>1
  <2>3. \A i, j \in d.on : c \in Cells(Cover(d, i)) /\ c \in Cells(Cover(d, j))
                           => (j \in d.over[i] <=> j \in d0.over[i])
    <3> SUFFICES ASSUME NEW i \in d.on, NEW j \in d.on
                 PROVE  j \in d.over[i] <=> j \in d0.over[i]
      OBVIOUS
    <3>1. i # h /\ j # h /\ i \in Items
      BY <1>3, <1>6 DEF Desks
    <3>2. d.over[i] = d0.over[i] \ {h}
      BY <1>3, <3>1
    <3> QED BY <3>1, <3>2
  <2>4. Seen(d, c) = Seen(d0, c)
    BY <1>1, <1>6, <2>2, <2>3, SeenSame
  <2>5. \A k \in Handles : Seen(d, c) = k =>
           (Top(d) = k <=> Top(d0) = k) \/ c \notin Cells(TitleStrip(d.outer[k]))
    <3> SUFFICES ASSUME NEW k \in Handles, Seen(d, c) = k,
                        c \in Cells(TitleStrip(d.outer[k]))
                 PROVE  Top(d) = k <=> Top(d0) = k
      OBVIOUS
    <3>1. k \in d.on /\ k # h /\ k \in Items /\ k \in d0.on
      BY <1>3, <1>6, SeenFacts, ItemKinds
    <3>2. CASE Top(d0) = h
      <4>1. c \notin Strips(d, Nobody, Top(d))
        BY <3>2
      <4>2. Top(d) # k
        BY <3>1, <4>1 DEF Strips
      <4> QED BY <3>1, <3>2, <4>2
    <3>3. CASE Top(d0) # h
      <4>1. d.over[k] = d0.over[k] \ {h}
        BY <1>3, <3>1
      <4>2. /\ Top(d) = k <=> d.over[k] \subseteq {Form}
            /\ Top(d0) = k <=> d0.over[k] \subseteq {Form}
        BY <1>1, <1>6, <3>1, TopFacts
      <4>3. ASSUME h \in d0.over[k]
            PROVE  ~(d.over[k] \subseteq {Form})
        <5>1. h \in d0.on /\ d0.over[h] \subseteq d0.over[k] /\ h \notin d0.over[h]
          BY <1>1, <3>1, <4>3 DEF Ordered
        <5>2. ~(d0.over[h] \subseteq {Form})
          BY <1>1, <3>3, <5>1, TopFacts
        <5> QED BY <4>1, <5>1, <5>2
      <4>4. h # Form
        BY ItemKinds
      <4> QED BY <4>1, <4>2, <4>3, <4>4
    <3> QED BY <3>2, <3>3
  <2>6. c \in Plane
    BY ScreenCells
  <2> QED BY <1>2, <1>4, <2>4, <2>5, <2>6, AlikeIf
<1>12. Follows(Cells(Screen), d0, s, d, t)
  <2> HIDE DEF P
  <2> QED BY <1>9, <1>11, PaintingFollows
<1> QED BY <1>2, <1>5, <1>12 DEF d, t

\* The form comes or goes, or is raised: outside of it nothing changes.
LEMMA FormAside ==
    ASSUME NEW d0, Sound(d0), NEW d, Sound(d),
           \A k \in Handles : k \in d.on <=> k \in d0.on,
           \A k \in Handles \cap d.on : d.over[k] \ {Form} = d0.over[k] \ {Form},
           d.outer = d0.outer, d.owner = d0.owner, d.desktop = d0.desktop,
           NEW c \in Cells(Screen) \ Cells(FormRect)
    PROVE  Alike(d0, d, c)
<1>1. d0 \in Desks /\ Ordered(d0) /\ d \in Desks /\ Ordered(d)
  BY DEF Sound
<1>2. \A i \in Items : Cover(d, i) = Cover(d0, i)
  BY DEF Cover
<1>3. Cover(d, Form) = FormRect
  BY DEF Cover
<1>4. \A i \in Items : i \in d.on /\ c \in Cells(Cover(d, i))
                       <=> i \in d0.on /\ c \in Cells(Cover(d0, i))
  <2> TAKE i \in Items
  <2>1. CASE i = Form
    BY <1>2, <1>3, <2>1
  <2>2. CASE i # Form
    BY <1>2, <2>2, ItemKinds
  <2> QED BY <2>1, <2>2
<1>5. \A i, j \in d.on : c \in Cells(Cover(d, i)) /\ c \in Cells(Cover(d, j))
                         => (j \in d.over[i] <=> j \in d0.over[i])
  <2> SUFFICES ASSUME NEW i \in d.on, NEW j \in d.on, c \in Cells(Cover(d, i)),
                      c \in Cells(Cover(d, j))
               PROVE  j \in d.over[i] <=> j \in d0.over[i]
    OBVIOUS
  <2>1. i # Form /\ j # Form /\ i \in Handles
    BY <1>1, <1>3, ItemKinds DEF Desks
  <2>2. d.over[i] \ {Form} = d0.over[i] \ {Form}
    BY <2>1
  <2> QED BY <2>1, <2>2
<1>6. Seen(d, c) = Seen(d0, c)
  BY <1>1, <1>4, <1>5, SeenSame
<1>7. \A k \in Handles : Seen(d, c) = k => (Top(d) = k <=> Top(d0) = k)
  <2> SUFFICES ASSUME NEW k \in Handles, Seen(d, c) = k
               PROVE  Top(d) = k <=> Top(d0) = k
    OBVIOUS
  <2>1. k \in d.on /\ k \in d0.on
    BY <1>1, SeenFacts, ItemKinds
  <2>2. d.over[k] \ {Form} = d0.over[k] \ {Form}
    BY <2>1
  <2>3. /\ Top(d) = k <=> d.over[k] \subseteq {Form}
        /\ Top(d0) = k <=> d0.over[k] \subseteq {Form}
    BY <1>1, <2>1, TopFacts
  <2> QED BY <2>2, <2>3
<1>8. Seen(d, c) # Form
  <2>1. Form \in d.on => c \notin Cells(Cover(d, Form))
    BY <1>3
  <2> QED BY <1>1, <2>1, SeenFacts, ItemKinds
<1>9. c \in Plane
  BY ScreenCells
<1> QED BY <1>6, <1>7, <1>8, <1>9, AlikeIf

\* Dialling a form, which has no tree yet, shows nothing that is wrong.
LEMMA DialledFollows ==
    ASSUME NEW d0, Sound(d0), d0.form = Nobody, NEW a \in Clients, NEW s \in Screens
    PROVE  Follows(Cells(Screen), d0, s, [Raised(d0, Form) EXCEPT !.form = a], s)
<1> DEFINE d == [Raised(d0, Form) EXCEPT !.form = a]
<1>1. /\ Sound(d) /\ d.on = d0.on \cup {Form}
      /\ d.outer = d0.outer /\ d.owner = d0.owner /\ d.desktop = d0.desktop /\ ~d.tree
  BY DialledIs
<1>2. /\ d.over[Form] = {}
      /\ \A j \in Items : j # Form /\ j \in d0.on => d.over[j] = d0.over[j] \cup {Form}
  BY DialledIs, ItemKinds
<1> HIDE DEF d
<1>3. \A k \in Handles : k \in d.on <=> k \in d0.on
  BY <1>1, ItemKinds
<1>4. \A k \in Handles \cap d.on : d.over[k] \ {Form} = d0.over[k] \ {Form}
  <2> TAKE k \in Handles \cap d.on
  <2>1. d.over[k] = d0.over[k] \cup {Form}
    BY <1>2, <1>3, ItemKinds
  <2> QED BY <2>1
<1>5. ASSUME NEW c \in Cells(FormRect)
      PROVE  Fresh(d, s, c)
  <2>1. c \notin Coverage(d, d.over[Form]) /\ Form \in d.on /\ c \in Cells(Cover(d, Form))
    BY <1>1, <1>2, CoverageIs DEF Cover
  <2>2. Seen(d, c) = Form
    BY <1>1, <2>1, SeenFacts DEF Sound
  <2> QED BY <1>1, <2>2, ItemKinds DEF Fresh
<1>6. \A c \in Cells(Screen) \ Cells(FormRect) : Alike(d0, d, c)
  BY <1>1, <1>3, <1>4, FormAside
<1>7. Follows(Cells(Screen), d0, s, d, s)
  BY <1>5, <1>6 DEF Follows, Grows
<1> QED BY <1>7 DEF d

\* Ending a form redraws what it covered.
LEMMA FormlessFollows ==
    ASSUME NEW d0, Sound(d0), NEW s \in Screens
    PROVE  Follows(Cells(Screen), d0, s, Formless(d0), Redraw(Formless(d0), s, FormRect))
<1> DEFINE d == Formless(d0)
<1>1. /\ Sound(d) /\ d.on = d0.on \ {Form}
      /\ d.outer = d0.outer /\ d.owner = d0.owner /\ d.desktop = d0.desktop
  BY FormlessIs
<1>2. \A j \in Items : j # Form => d.over[j] = d0.over[j] \ {Form}
  BY FormlessIs
<1> HIDE DEF d
<1>3. \A k \in Handles : k \in d.on <=> k \in d0.on
  BY <1>1, ItemKinds
<1>4. \A k \in Handles \cap d.on : d.over[k] \ {Form} = d0.over[k] \ {Form}
  <2> TAKE k \in Handles \cap d.on
  <2>1. d.over[k] = d0.over[k] \ {Form}
    BY <1>2, ItemKinds
  <2> QED BY <2>1
<1>5. \A c \in Cells(Screen) \ Cells(FormRect) : Alike(d0, d, c)
  BY <1>1, <1>3, <1>4, FormAside
<1>6. Painting(d, s, Redraw(d, s, FormRect), {} \cup Cells(FormRect))
  BY <1>1, NothingPainted, RedrawPaints, StackAssumption
<1>7. Follows(Cells(Screen), d0, s, d, Redraw(d, s, FormRect))
  BY <1>5, <1>6, PaintingFollows
<1> QED BY <1>7 DEF d

\* Showing a form redraws what it covers.
LEMMA FormRaisedFollows ==
    ASSUME NEW d0, Sound(d0), d0.form # Nobody, NEW s \in Screens
    PROVE  Follows(Cells(Screen), d0, s, Raised(d0, Form),
                   Redraw(Raised(d0, Form), s, FormRect))
<1> DEFINE d == Raised(d0, Form)
<1>1. d0 \in Desks /\ Ordered(d0) /\ Form \in Items
  BY ItemKinds DEF Sound
<1>2. Sound(d)
  BY FormRaisedSound
<1>3. d.on = d0.on \cup {Form}
  BY <1>1, RaisedIs
<1>4. d.outer = d0.outer /\ d.owner = d0.owner /\ d.desktop = d0.desktop
  BY <1>1, RaisedIs
<1>5. \A j \in Items : j # Form /\ j \in d0.on => d.over[j] = d0.over[j] \cup {Form}
  BY <1>1, RaisedIs
<1> HIDE DEF d
<1>6. \A k \in Handles : k \in d.on <=> k \in d0.on
  BY <1>3, ItemKinds
<1>7. \A k \in Handles \cap d.on : d.over[k] \ {Form} = d0.over[k] \ {Form}
  <2> TAKE k \in Handles \cap d.on
  <2>1. d.over[k] = d0.over[k] \cup {Form}
    BY <1>5, <1>6, ItemKinds
  <2> QED BY <2>1
<1>8. \A c \in Cells(Screen) \ Cells(FormRect) : Alike(d0, d, c)
  BY <1>2, <1>4, <1>6, <1>7, FormAside
<1>9. Painting(d, s, Redraw(d, s, FormRect), {} \cup Cells(FormRect))
  BY <1>2, NothingPainted, RedrawPaints, StackAssumption
<1>10. Follows(Cells(Screen), d0, s, d, Redraw(d, s, FormRect))
  BY <1>8, <1>9, PaintingFollows
<1> QED BY <1>10 DEF d

\* objc_draw() of the form.
LEMMA ShownFollows ==
    ASSUME NEW d0, Sound(d0), d0.form # Nobody, NEW s \in Screens
    PROVE  LET seen == Shows(Visible(d0, d0.over[Form], FormRect))
               d == [d0 EXCEPT !.tree = TRUE]
               t == [s EXCEPT !.pixels = [c \in Cells(Screen) |->
                        IF c \in seen THEN FormCell ELSE @[c]]]
           IN /\ Sound(d) /\ d.on = d0.on /\ d.over = d0.over /\ d.outer = d0.outer
              /\ d.owner = d0.owner /\ d.form = d0.form
              /\ Follows(Cells(Screen), d0, s, d, t)
<1> DEFINE seen == Shows(Visible(d0, d0.over[Form], FormRect))
           d == [d0 EXCEPT !.tree = TRUE]
           t == [s EXCEPT !.pixels = [c \in Cells(Screen) |->
                    IF c \in seen THEN FormCell ELSE @[c]]]
<1>1. d0 \in Desks /\ Ordered(d0) /\ Owned(d0) /\ Form \in Items /\ Form \in d0.on
  BY ItemKinds DEF Sound, Owned
<1>2. /\ d.on = d0.on /\ d.over = d0.over /\ d.outer = d0.outer /\ d.owner = d0.owner
      /\ d.desktop = d0.desktop /\ d.form = d0.form /\ d.tree
  BY <1>1 DEF Desks
<1>3. d \in Desks
  BY <1>1 DEF Desks
<1> HIDE DEF d
<1>4. Ordered(d) /\ Owned(d)
  <2>1. Ordered(d)
    BY <1>1, <1>2 DEF Ordered
  <2>2. Owned(d)
    BY <1>1, <1>2 DEF Owned
  <2> QED BY <2>1, <2>2
<1>5. Sound(d)
  BY <1>3, <1>4 DEF Sound
<1>6. \A i \in Items : Cover(d, i) = Cover(d0, i)
  BY <1>2 DEF Cover
<1>7. \A c \in Cells(Screen) : Seen(d, c) = Seen(d0, c)
  BY <1>1, <1>2, <1>3, <1>4, <1>6, SeenSame
<1>8. \A c : c \in seen <=> Seen(d0, c) = Form
  <2>1. Tiling(Visible(d0, d0.over[Form], FormRect),
               Cells(FormRect) \ Coverage(d0, d0.over[Form]))
    BY <1>1, VisibleFacts, StackAssumption DEF Desks
  <2>2. Cover(d0, Form) = FormRect
    BY DEF Cover
  <2> QED BY <1>1, <2>1, <2>2, SeenFacts DEF Tiling
<1> HIDE DEF seen
<1>9. /\ t \in Screens /\ t.mail = s.mail
      /\ \A c \in Cells(Screen) : t.pixels[c] = IF c \in seen THEN FormCell ELSE s.pixels[c]
  <2>1. FormCell \in Colours
    BY DEF Colours
  <2>2. \A c \in Cells(Screen) : s.pixels[c] \in Colours
    BY DEF Screens
  <2> DEFINE p == [c \in Cells(Screen) |-> IF c \in seen THEN FormCell ELSE s.pixels[c]]
  <2>3. p \in [Cells(Screen) -> Colours]
    <3> HIDE DEF Colours
    <3> QED BY <2>1, <2>2
  <2>4. t = [s EXCEPT !.pixels = p]
    BY DEF Screens
  <2>5. \A c \in Cells(Screen) : p[c] = IF c \in seen THEN FormCell ELSE s.pixels[c]
    OBVIOUS
  <2> HIDE DEF p, t
  <2> QED BY <2>3, <2>4, <2>5 DEF Screens
<1> HIDE DEF t
<1>10. ASSUME NEW c \in Cells(Screen)
       PROVE  Fresh(d, t, c) \/ (Alike(d0, d, c) /\ t.pixels[c] = s.pixels[c])
  <2>1. CASE c \in seen
    <3>1. Seen(d, c) = Form /\ t.pixels[c] = FormCell
      BY <1>7, <1>8, <1>9, <2>1
    <3> QED BY <3>1, ItemKinds DEF Fresh
  <2>2. CASE c \notin seen
    <3>1. Seen(d, c) = Seen(d0, c) /\ Seen(d, c) # Form
      BY <1>7, <1>8, <2>2
    <3>2. \A h \in Handles : Top(d) = h <=> Top(d0) = h
      BY <1>1, <1>2, <1>3, <1>4, TopFacts
    <3>3. c \in Plane
      BY ScreenCells
    <3>4. Alike(d0, d, c)
      BY <1>2, <1>5, <3>1, <3>2, <3>3, AlikeIf
    <3> QED BY <1>9, <2>2, <3>4
  <2> QED BY <2>1, <2>2
<1>11. Follows(Cells(Screen), d0, s, d, t)
  BY <1>9, <1>10 DEF Follows, Grows
<1> QED BY <1>2, <1>5, <1>11 DEF d, t, seen

\* A drag: what raising the window leaves undrawn, moving it draws.
LEMMA DraggedFollows ==
    ASSUME NEW d0, Sound(d0), NEW s \in Screens, NEW h \in Handles, h \in d0.on,
           NEW r \in Rects, NEW up \in BOOLEAN, up => Top(d0) # h
    PROVE  LET d1 == IF up THEN Raised(d0, h) ELSE d0
               s1 == IF up THEN Topped(d0, s, h) ELSE s
               d == Placed(d1, h, r)
               t == Change(d, s1, d0.outer[h], r)
           IN /\ Sound(d) /\ d.on = d0.on /\ d.owner = d0.owner /\ d.form = d0.form
              /\ Follows(Cells(Screen), d0, s, d, t)
<1> DEFINE d1 == Raised(d0, h)
           s1 == Topped(d0, s, h)
           d == Placed(d1, h, r)
           t == Change(d, s1, d0.outer[h], r)
           C == Cells(Shadowed(d0.outer[h]))
<1>1. CASE ~up
  <2>1. Follows(Cells(Screen), d0, s, Placed(d0, h, r),
                Change(Placed(d0, h, r), s, d0.outer[h], r))
    BY MovedFollows
  <2> QED BY <1>1, <2>1, PlacedIs
<1>2. CASE up
  <2>1. d0 \in Desks /\ Ordered(d0) /\ h \in Items
    BY OnFacts DEF Sound
  <2>2. /\ Sound(d1) /\ s1 \in Screens
        /\ Follows(Cells(Screen) \ C, d0, s, d1, s1)
    BY <1>2, ToppedFollows
  <2>3. d1.on = d0.on \cup {h}
    BY <2>1, RaisedIs
  <2>4. d1.outer = d0.outer /\ d1.owner = d0.owner /\ d1.form = d0.form
    BY <2>1, RaisedIs
  <2> HIDE DEF d1, s1
  <2>5. Sound(d) /\ d.on = d1.on /\ d.owner = d1.owner /\ d.form = d1.form
    BY <2>2, PlacedIs
  <2>6. /\ Follows(Cells(Screen), d1, s1, d, t)
        /\ \A c \in Cells(Screen) \cap C : Fresh(d, t, c)
    BY <2>2, <2>4, MovedFollows
  <2>7. d1.on = d0.on
    BY <2>3
  <2> HIDE DEF d, t, C
  <2>8. Follows(Cells(Screen) \ C, d1, s1, d, t)
    BY <2>6 DEF Follows
  <2>9. Follows(Cells(Screen) \ C, d0, s, d, t)
    BY <2>2, <2>5, <2>8, FollowsTwice
  <2>10. Follows(Cells(Screen), d0, s, d, t)
    BY <2>6, <2>9 DEF Follows
  <2> QED BY <1>2, <2>4, <2>5, <2>7, <2>10 DEF d, t, d1, s1
<1> QED BY <1>1, <1>2

-----------------------------------------------------------------------------
(* The windows of an application that leaves.                                *)

\* Windows of a are gone; those of others are where they were.
Spared(d, e, a) ==
    /\ e.on \subseteq d.on
    /\ \A j \in Items : e.over[j] \subseteq d.over[j]
    /\ \A j \in Handles : e.owner[j] \in {d.owner[j], Nobody}
    /\ \A j \in Handles : d.owner[j] # a =>
          /\ e.owner[j] = d.owner[j] /\ e.outer[j] = d.outer[j]
          /\ j \in d.on => j \in e.on

\* What two sweeps spare both together spare.
LEMMA SparedTwice ==
    ASSUME NEW d, NEW e, NEW f, NEW a, Spared(d, e, a), Spared(e, f, a)
    PROVE  Spared(d, f, a)
BY DEF Spared

\* Sweeping one window of an application redraws all it changes.
LEMMA SweptOnce ==
    ASSUME NEW d, Sound(d), NEW s \in Screens, NEW k \in Handles, NEW a,
           d.owner[k] = a
    PROVE  LET e == Deleted(Closed(d, s, k)[1], k)
               t == Closed(d, s, k)[2]
           IN /\ Sound(e) /\ Follows(Cells(Screen), d, s, e, t)
              /\ Spared(d, e, a) /\ e.owner[k] = Nobody /\ e.desktop = d.desktop
              /\ \A j \in Handles : j # k => e.owner[j] = d.owner[j]
<1> DEFINE c == Lowered(d, k)
           t == Closed(d, s, k)[2]
           e == Deleted(c, k)
<1>1. d \in Desks /\ Ordered(d) /\ k \in Items /\ k # Form
  BY OnFacts DEF Sound
<1>2. /\ Closed(d, s, k)[1] = c /\ Sound(c)
      /\ Follows(Cells(Screen), d, s, c, t)
  BY ClosedFollows
<1>3. /\ c.on = d.on \ {k} /\ c.over[k] = {}
      /\ \A j \in Items : j # k => c.over[j] = d.over[j] \ {k}
  BY <1>1, LoweredIs
<1>4. /\ c.outer = d.outer /\ c.owner = d.owner /\ c.desktop = d.desktop
      /\ c.form = d.form /\ c.tree = d.tree /\ c.gone = d.gone
  BY <1>1, LoweredIs
<1> HIDE DEF c, t
<1>5. k \notin c.on
  BY <1>3
<1>6. /\ Sound(e) /\ e.on = c.on /\ e.over = c.over /\ e.owner[k] = Nobody
      /\ \A j \in Handles : j # k => /\ e.outer[j] = c.outer[j]
                                     /\ e.owner[j] = c.owner[j]
      /\ e.desktop = c.desktop /\ e.form = c.form /\ e.tree = c.tree /\ e.gone = c.gone
  BY <1>2, <1>5, DeletedIs
<1> HIDE DEF e
<1>7. t \in Screens
  BY <1>2 DEF Follows
<1>8. Follows(Cells(Screen), c, t, e, t)
  BY <1>2, <1>5, <1>6, <1>7, QuietFollows
<1>9. Follows(Cells(Screen), d, s, e, t)
  BY <1>2, <1>6, <1>8, FollowsTwice
<1>10. Spared(d, e, a)
  <2>1. \A j \in Items : e.over[j] \subseteq d.over[j]
    BY <1>3, <1>6
  <2>2. e.on \subseteq d.on
    BY <1>1, <1>3, <1>6
  <2>3. \A j \in Handles : d.owner[j] # a =>
           /\ e.owner[j] = d.owner[j] /\ e.outer[j] = d.outer[j]
           /\ j \in d.on => j \in e.on
    BY <1>3, <1>4, <1>6
  <2>4. \A j \in Handles : e.owner[j] \in {d.owner[j], Nobody}
    BY <1>4, <1>6
  <2> QED BY <2>1, <2>2, <2>3, <2>4 DEF Spared
<1> QED BY <1>2, <1>4, <1>6, <1>9, <1>10 DEF e, c, t

\* So does sweeping all its windows, and others keep theirs.
LEMMA SweptFacts ==
    ASSUME NEW d, Sound(d), NEW s \in Screens, NEW a \in Clients
    PROVE  LET e == Swept(d, s, a)[1]
               t == Swept(d, s, a)[2]
           IN /\ Sound(e) /\ Follows(Cells(Screen), d, s, e, t)
              /\ Spared(d, e, a) /\ \A h \in Handles : e.owner[h] # a
              /\ e.desktop = d.desktop
              /\ (\A h \in Handles : d.owner[h] # a) => e = d
<1> DEFINE m == MaxWindows
           Pairs == {p \in Desks \X Screens : Sound(p[1])}
           turn(p, k) == IF d.owner[k] # a THEN p
                         ELSE LET c == Closed(p[1], p[2], k)
                              IN <<Deleted(c[1], k), c[2]>>
           G == [k \in 1..m |-> [p \in Pairs |-> turn(p, k)]]
           first == <<d, s>>
<1>1. m \in Nat /\ Handles = 1..m /\ first \in Pairs
  BY StackAssumption DEF Handles, Sound
<1>2. \A k \in 1..m, p \in Pairs : turn(p, k) \in Pairs
  <2> SUFFICES ASSUME NEW k \in 1..m, NEW p \in Pairs
               PROVE  turn(p, k) \in Pairs
    OBVIOUS
  <2>1. Sound(p[1]) /\ p[2] \in Screens /\ k \in Handles
    BY <1>1
  <2> DEFINE e == Deleted(Closed(p[1], p[2], k)[1], k)
             t == Closed(p[1], p[2], k)[2]
  <2>2. Sound(e) /\ Follows(Cells(Screen), p[1], p[2], e, t)
    BY <2>1, SweptOnce
  <2>3. turn(p, k) = IF d.owner[k] # a THEN p ELSE <<e, t>>
    OBVIOUS
  <2> HIDE DEF e, t, turn
  <2>4. <<e, t>> \in Pairs
    BY <2>2 DEF Sound, Follows
  <2> QED BY <2>3, <2>4
<1>3. G \in [1..m -> [Pairs -> Pairs]]
  <2> HIDE DEF turn, m, Pairs
  <2> QED BY <1>2
<1>4. \A k \in 1..m, p \in Pairs : G[k][p] = turn(p, k)
  OBVIOUS
<1> HIDE DEF G, m, turn, Pairs, first
<1>5. PICK f : Turns(f, Pairs, m, first, G)
  BY <1>1, <1>3, Iterates
<1>6. f = [k \in 0..m |-> IF k = 0 THEN first ELSE turn(f[k - 1], k)]
  <2>1. \A k \in 0..m : f[k] = IF k = 0 THEN first ELSE turn(f[k - 1], k)
    <3> TAKE k \in 0..m
    <3>1. k # 0 => k \in 1..m /\ k - 1 \in 0..m
      BY <1>1
    <3>2. k # 0 => f[k - 1] \in Pairs
      BY <1>5, <3>1 DEF Turns
    <3> QED BY <1>4, <1>5, <3>1, <3>2 DEF Turns
  <2> QED BY <1>5, <2>1 DEF Turns
<1> DEFINE Is(g) == g = [k \in 0..m |-> IF k = 0 THEN first ELSE turn(g[k - 1], k)]
           g == CHOOSE h : Is(h)
<1>7. Is(g)
  <2>1. Is(f)
    BY <1>6
  <2> HIDE DEF Is
  <2> QED BY <2>1
<1>8. Swept(d, s, a) = g[m]
  <2>1. g = CHOOSE h : h = [k \in 0..MaxWindows |->
                IF k = 0 THEN <<d, s>>
                ELSE IF d.owner[k] # a THEN h[k - 1]
                ELSE LET c == Closed(h[k - 1][1], h[k - 1][2], k)
                     IN <<Deleted(c[1], k), c[2]>>]
    BY DEF m, turn, first
  <2> HIDE DEF g
  <2> QED BY <2>1 DEF Swept, m
<1> HIDE DEF g
<1>9. \A k \in 0..m : g[k] = IF k = 0 THEN first ELSE turn(g[k - 1], k)
  BY <1>7
<1> HIDE DEF Is
<1> DEFINE Done(p, n) ==
              /\ Sound(p[1]) /\ p[2] \in Screens
              /\ Follows(Cells(Screen), d, s, p[1], p[2])
              /\ Spared(d, p[1], a) /\ \A h \in 1..n : p[1].owner[h] # a
              /\ p[1].desktop = d.desktop
              /\ \A h \in n + 1 .. m : p[1].owner[h] = d.owner[h]
              /\ (\A h \in 1..n : d.owner[h] # a) => p[1] = d
           P == [n \in 0..m |-> Done(g[n], n)]
<1>10. P[0]
  <2>1. g[0] = <<d, s>> /\ 0 \in 0..m
    BY <1>1, <1>9 DEF first
  <2>2. Follows(Cells(Screen), d, s, d, s)
    BY QuietFollows
  <2>3. Spared(d, d, a)
    BY DEF Spared
  <2>4. \A h \in 1..0 : FALSE
    OBVIOUS
  <2>5. Done(<<d, s>>, 0)
    BY <2>2, <2>3, <2>4
  <2> HIDE DEF Done
  <2> QED BY <2>1, <2>5
<1>11. ASSUME NEW n \in 1..m, P[n - 1]
       PROVE  P[n]
  <2>1. n - 1 \in 0..m /\ n \in 0..m /\ n # 0 /\ n \in Handles
    BY <1>1
  <2>2. /\ \A h : h \in 1..n <=> h \in 1..n - 1 \/ h = n
        /\ \A h : h \in (n - 1) + 1 .. m <=> h \in n + 1 .. m \/ h = n
        /\ \A h \in n + 1 .. m : h # n /\ h \in Handles
        /\ \A h \in 1..n - 1 : h # n /\ h \in Handles
    BY <1>1
  <2> DEFINE q == g[n - 1]
             e == Deleted(Closed(q[1], q[2], n)[1], n)
             t == Closed(q[1], q[2], n)[2]
  <2>3. Done(q, n - 1)
    <3> HIDE DEF Done
    <3> QED BY <1>11, <2>1
  <2>4. g[n] = IF d.owner[n] # a THEN q ELSE <<e, t>>
    BY <1>9, <2>1 DEF turn
  <2> HIDE DEF q
  <2>5. q[1].owner[n] = d.owner[n]
    BY <2>2, <2>3
  <2>6. CASE d.owner[n] # a
    <3>1. Done(q, n)
      BY <2>2, <2>3, <2>5, <2>6
    <3> QED BY <2>1, <2>4, <2>6, <3>1
  <2>7. CASE d.owner[n] = a
    <3>1. /\ Sound(e) /\ Follows(Cells(Screen), q[1], q[2], e, t)
          /\ Spared(q[1], e, a) /\ e.owner[n] = Nobody
          /\ e.desktop = q[1].desktop
          /\ \A j \in Handles : j # n => e.owner[j] = q[1].owner[j]
      BY <2>1, <2>3, <2>5, <2>7, SweptOnce
    <3> HIDE DEF e, t
    <3>2. Follows(Cells(Screen), d, s, e, t)
      BY <2>3, <3>1, FollowsTwice
    <3>3. Spared(d, e, a)
      BY <2>3, <3>1, SparedTwice
    <3>4. Nobody # a
      BY StackAssumption
    <3>5. \A h \in 1..n : e.owner[h] # a
      BY <2>2, <2>3, <3>1, <3>4
    <3>6. \A h \in n + 1 .. m : e.owner[h] = d.owner[h]
      BY <2>2, <2>3, <3>1
    <3>7. n \in 1..n
      BY <2>2
    <3>8. t \in Screens
      BY <3>2 DEF Follows
    <3>9. Done(<<e, t>>, n)
      BY <2>3, <2>7, <3>1, <3>2, <3>3, <3>5, <3>6, <3>7, <3>8
    <3> QED BY <2>1, <2>4, <2>7, <3>9, <3>4
  <2> QED BY <2>6, <2>7
<1>12. Done(g[m], m)
  <2>1. P \in [0..m -> BOOLEAN]
    BY DEF Sound, Follows, Spared
  <2> HIDE DEF Done
  <2>2. \A n \in 0..m : P[n]
    <3> HIDE DEF P
    <3> QED BY <1>1, <1>10, <1>11, <2>1, TurnByTurn
  <2>3. m \in 0..m
    BY <1>1
  <2> QED BY <2>2, <2>3
<1> QED BY <1>1, <1>8, <1>12

-----------------------------------------------------------------------------
(* The steps.                                                                *)

ClientRecords == [window : Ports \cup {Nobody}, dirty : Rectangles, at : Rectangles,
                  locked : BOOLEAN, left : SUBSET Rectangles]

\* The steps that change the windows, but for an exit.
Reshaping ==
    \/ \E a \in Clients :
         \/ FormDial(a) \/ FormShow(a) \/ FormFinish(a)
         \/ \E h \in Handles :
              \/ WindClose(a, h) \/ WindDelete(a, h) \/ WindSetTop(a, h)
              \/ OverlayMap(a, h)
              \/ \E r \in Rects :
                   WindCreate(a, h, r) \/ WindOpen(a, h, r) \/ WindSetRect(a, h, r)
    \/ \E h \in Handles :
         \/ UserTop(h)
         \/ \E r \in Rects, raise \in BOOLEAN : UserDrag(h, r, raise)
    \/ FormClick

\* What those steps have in common: what they change they redraw, and an
\* application that is answering a redraw keeps its windows.
Redrawn ==
    /\ Sound(desk') /\ screen' \in Screens
    /\ \A a \in Clients, h \in Handles :
          desk.owner[h] = a /\ client[a] # Idle => desk'.owner[h] = a
    /\ "raise" \notin Careless
          => Follows(Cells(Screen), desk, screen, desk', screen')

\* A step that redraws what it changes is Redrawn.
LEMMA FollowsRedrawn ==
    ASSUME Sound(desk'), Follows(Cells(Screen), desk, screen, desk', screen'),
           \A a \in Clients, h \in Handles :
              desk.owner[h] = a /\ client[a] # Idle => desk'.owner[h] = a
    PROVE  Redrawn
BY DEF Redrawn, Follows

\* The window calls of an application redraw what they change.
LEMMA WindowsRedrawn ==
    ASSUME Sound(desk), screen \in Screens, NEW a \in Clients, NEW h \in Handles,
           \/ WindClose(a, h) \/ WindDelete(a, h) \/ OverlayMap(a, h)
           \/ \E r \in Rects :
                WindCreate(a, h, r) \/ WindOpen(a, h, r) \/ WindSetRect(a, h, r)
    PROVE  Redrawn
<1>1. ASSUME NEW r \in Rects, WindCreate(a, h, r)
      PROVE  Redrawn
  <2> DEFINE d == Created(desk, h, a, r)
  <2>1. desk' = d /\ screen' = screen /\ desk.owner[h] = Nobody
    BY <1>1 DEF WindCreate, Created
  <2>2. /\ Sound(d) /\ d.on = desk.on /\ d.over = desk.over /\ h \notin desk.on
        /\ d.owner[h] = a
        /\ \A k \in Handles : k # h => /\ d.outer[k] = desk.outer[k]
                                       /\ d.owner[k] = desk.owner[k]
        /\ d.desktop = desk.desktop
        /\ d.form = desk.form /\ d.tree = desk.tree /\ d.gone = desk.gone
    BY <2>1, CreatedIs
  <2> HIDE DEF d
  <2>3. Follows(Cells(Screen), desk, screen, d, screen)
    BY <2>2, QuietFollows
  <2>4. Nobody \notin Clients
    BY StackAssumption
  <2> QED BY <2>1, <2>2, <2>3, <2>4, FollowsRedrawn
<1>2. ASSUME NEW r \in Rects, WindOpen(a, h, r)
      PROVE  Redrawn
  <2>1. desk.owner[h] = a
    BY <1>2 DEF WindOpen
  <2>2. CASE h \in desk.on
    <3> DEFINE d == Placed(desk, h, r)
               t == Change(d, screen, desk.outer[h], r)
    <3>1. desk' = d /\ screen' = t
      BY <1>2, <2>2 DEF WindOpen, Placed
    <3>2. Sound(d) /\ d.owner = desk.owner
      BY PlacedIs
    <3>3. Follows(Cells(Screen), desk, screen, d, t)
      BY MovedFollows
    <3> HIDE DEF d, t
    <3> QED BY <3>1, <3>2, <3>3, FollowsRedrawn
  <2>3. CASE h \notin desk.on
    <3> DEFINE d == Raised(Placed(desk, h, r), h)
               t == Titles(d, Change(d, screen, NoRect, r), Top(desk), h)
    <3>1. desk' = d /\ screen' = t
      BY <1>2, <2>3 DEF WindOpen, Placed
    <3>2. Sound(d) /\ d.owner = desk.owner /\ Follows(Cells(Screen), desk, screen, d, t)
      BY <2>1, <2>3, OpenedFollows
    <3> HIDE DEF d, t
    <3> QED BY <3>1, <3>2, FollowsRedrawn
  <2> QED BY <2>2, <2>3
<1>3. CASE WindClose(a, h)
  <2> DEFINE d == Lowered(desk, h)
             t == Closed(desk, screen, h)[2]
  <2>1. /\ Closed(desk, screen, h)[1] = d /\ Sound(d)
        /\ Follows(Cells(Screen), desk, screen, d, t)
    BY ClosedFollows
  <2>2. desk' = d /\ screen' = t
    BY <1>3, <2>1 DEF WindClose
  <2>3. d.owner = desk.owner
    BY LoweredIs, OnFacts DEF Sound
  <2> HIDE DEF d, t
  <2> QED BY <2>1, <2>2, <2>3, FollowsRedrawn
<1>4. CASE WindDelete(a, h)
  <2> DEFINE d == Deleted(desk, h)
  <2>1. /\ desk' = d /\ screen' = screen /\ h \notin desk.on
        /\ client[a] = Idle /\ desk.owner[h] = a
    BY <1>4 DEF WindDelete, Calls
  <2>2. /\ Sound(d) /\ d.on = desk.on /\ d.over = desk.over
        /\ \A k \in Handles : k # h => /\ d.outer[k] = desk.outer[k]
                                       /\ d.owner[k] = desk.owner[k]
        /\ d.desktop = desk.desktop /\ d.tree = desk.tree
    BY <2>1, DeletedIs
  <2> HIDE DEF d
  <2>3. Follows(Cells(Screen), desk, screen, d, screen)
    BY <2>1, <2>2, QuietFollows
  <2> QED BY <2>1, <2>2, <2>3, FollowsRedrawn
<1>5. ASSUME NEW r \in Rects, WindSetRect(a, h, r)
      PROVE  Redrawn
  <2> DEFINE d == Placed(desk, h, r)
  <2>1. desk' = d
    BY <1>5 DEF WindSetRect, Placed
  <2>2. /\ Sound(d) /\ d.owner = desk.owner /\ d.on = desk.on /\ d.over = desk.over
        /\ \A k \in Handles : k # h => d.outer[k] = desk.outer[k]
        /\ d.desktop = desk.desktop /\ d.tree = desk.tree
    BY PlacedIs
  <2>3. CASE h \in desk.on
    <3>1. screen' = Change(d, screen, desk.outer[h], r)
      BY <1>5, <2>1, <2>3 DEF WindSetRect
    <3>2. Follows(Cells(Screen), desk, screen, d, Change(d, screen, desk.outer[h], r))
      BY MovedFollows
    <3> HIDE DEF d
    <3> QED BY <2>1, <2>2, <3>1, <3>2, FollowsRedrawn
  <2>4. CASE h \notin desk.on
    <3>1. screen' = screen
      BY <1>5, <2>4 DEF WindSetRect
    <3> HIDE DEF d
    <3>2. Follows(Cells(Screen), desk, screen, d, screen)
      BY <2>2, <2>4, QuietFollows
    <3> QED BY <2>1, <2>2, <3>1, <3>2, FollowsRedrawn
  <2> QED BY <2>3, <2>4
<1>6. CASE OverlayMap(a, h)
  <2>1. desk' = desk /\ screen' = screen
    BY <1>6 DEF OverlayMap
  <2>2. Follows(Cells(Screen), desk, screen, desk, screen)
    BY QuietFollows
  <2> QED BY <2>1, <2>2, FollowsRedrawn
<1> QED BY <1>1, <1>2, <1>3, <1>4, <1>5, <1>6

\* So do the calls and the drags that raise a window.
LEMMA RaisesRedrawn ==
    ASSUME Sound(desk), screen \in Screens, NEW h \in Handles,
           RaiseWindow(h) \/ \E r \in Rects, raise \in BOOLEAN : UserDrag(h, r, raise)
    PROVE  Redrawn
<1>1. CASE RaiseWindow(h)
  <2> DEFINE d == Raised(desk, h)
             t == Topped(desk, screen, h)
  <2>1. /\ desk' = d /\ screen' = t /\ h \in desk.on /\ Top(desk) # h
        /\ Obscured(desk, h) \/ Hidden(desk, h) = {} \/ "raise" \in Careless
    BY <1>1 DEF RaiseWindow
  <2>2. /\ Sound(d) /\ t \in Screens
        /\ Obscured(desk, h) \/ Hidden(desk, h) = {}
              => Follows(Cells(Screen), desk, screen, d, t)
    BY <2>1, ToppedFollows
  <2>3. d.owner = desk.owner
    BY RaisedIs, OnFacts DEF Sound
  <2> HIDE DEF d, t
  <2> QED BY <2>1, <2>2, <2>3 DEF Redrawn
<1>2. ASSUME NEW r \in Rects, NEW raise \in BOOLEAN, UserDrag(h, r, raise)
      PROVE  Redrawn
  <2> DEFINE up == raise /\ Top(desk) # h
             d1 == IF up THEN Raised(desk, h) ELSE desk
             s1 == IF up THEN Topped(desk, screen, h) ELSE screen
             d == Placed(d1, h, r)
             t == Change(d, s1, desk.outer[h], r)
  <2>1. desk' = d /\ screen' = t /\ h \in desk.on
    BY <1>2 DEF UserDrag, Placed
  <2>2. up \in BOOLEAN /\ (up => Top(desk) # h)
    OBVIOUS
  <2> HIDE DEF up
  <2>3. Sound(d) /\ d.owner = desk.owner /\ Follows(Cells(Screen), desk, screen, d, t)
    BY <2>1, <2>2, DraggedFollows
  <2> HIDE DEF d, t
  <2> QED BY <2>1, <2>3, FollowsRedrawn
<1> QED BY <1>1, <1>2

\* So do the steps of a form.
LEMMA FormsRedrawn ==
    ASSUME Sound(desk), screen \in Screens,
           \/ \E a \in Clients : FormDial(a) \/ FormShow(a) \/ FormFinish(a)
           \/ FormClick
    PROVE  Redrawn
<1>1. ASSUME NEW a \in Clients, FormDial(a)
      PROVE  Redrawn
  <2> DEFINE d == [Raised(desk, Form) EXCEPT !.form = a]
  <2>1. desk' = d /\ screen' = screen /\ desk.form = Nobody
    BY <1>1 DEF FormDial
  <2>2. Sound(d) /\ d.owner = desk.owner
    BY <2>1, DialledIs
  <2>3. Follows(Cells(Screen), desk, screen, d, screen)
    BY <2>1, DialledFollows
  <2> HIDE DEF d
  <2> QED BY <2>1, <2>2, <2>3, FollowsRedrawn
<1>2. ASSUME NEW a \in Clients, FormShow(a)
      PROVE  Redrawn
  <2> DEFINE seen == Shows(Visible(desk, desk.over[Form], FormRect))
             d == [desk EXCEPT !.tree = TRUE]
             t == [screen EXCEPT !.pixels = [c \in Cells(Screen) |->
                      IF c \in seen THEN FormCell ELSE @[c]]]
  <2>1. desk' = d /\ screen' = t /\ desk.form = a
    BY <1>2 DEF FormShow
  <2>2. desk.form # Nobody
    BY <2>1, StackAssumption
  <2>3. Sound(d) /\ d.owner = desk.owner /\ Follows(Cells(Screen), desk, screen, d, t)
    BY <2>2, ShownFollows
  <2> HIDE DEF d, t
  <2> QED BY <2>1, <2>3, FollowsRedrawn
<1>3. ASSUME NEW a \in Clients, FormFinish(a)
      PROVE  Redrawn
  <2> DEFINE d == Formless(desk)
             t == Redraw(d, screen, FormRect)
  <2>1. desk' = d /\ screen' = t
    BY <1>3 DEF FormFinish
  <2>2. Sound(d) /\ d.owner = desk.owner
    BY FormlessIs
  <2>3. Follows(Cells(Screen), desk, screen, d, t)
    BY FormlessFollows
  <2> HIDE DEF d, t
  <2> QED BY <2>1, <2>2, <2>3, FollowsRedrawn
<1>4. CASE FormClick
  <2> DEFINE d == Raised(desk, Form)
             t == Redraw(d, screen, FormRect)
  <2>1. desk' = d /\ screen' = t /\ desk.form # Nobody
    BY <1>4 DEF FormClick
  <2>2. Sound(d)
    BY <2>1, FormRaisedSound
  <2>3. d.owner = desk.owner
    BY RaisedIs, ItemKinds DEF Sound
  <2>4. Follows(Cells(Screen), desk, screen, d, t)
    BY <2>1, FormRaisedFollows
  <2> HIDE DEF d, t
  <2> QED BY <2>1, <2>2, <2>3, <2>4, FollowsRedrawn
<1> QED BY <1>1, <1>2, <1>3, <1>4

\* So do all the steps that change the windows, but for an exit.
LEMMA ReshapingRedraws ==
    ASSUME Sound(desk), screen \in Screens, Reshaping
    PROVE  Redrawn /\ client' = client /\ ~Locked
<1>1. Redrawn
  <2>1. ASSUME NEW a \in Clients, NEW h \in Handles, WindSetTop(a, h)
        PROVE  Redrawn
    BY <2>1, RaisesRedrawn DEF WindSetTop
  <2>2. ASSUME NEW h \in Handles, UserTop(h)
        PROVE  Redrawn
    BY <2>2, RaisesRedrawn DEF UserTop
  <2>3. ASSUME NEW h \in Handles, NEW r \in Rects, NEW raise \in BOOLEAN,
               UserDrag(h, r, raise)
        PROVE  Redrawn
    BY <2>3, RaisesRedrawn
  <2>4. ASSUME NEW a \in Clients, NEW h \in Handles,
               \/ WindClose(a, h) \/ WindDelete(a, h) \/ OverlayMap(a, h)
               \/ \E r \in Rects :
                    WindCreate(a, h, r) \/ WindOpen(a, h, r) \/ WindSetRect(a, h, r)
        PROVE  Redrawn
    BY <2>4, WindowsRedrawn
  <2> QED BY <2>1, <2>2, <2>3, <2>4, FormsRedrawn DEF Reshaping
<1>2. client' = client /\ ~Locked
  <2>1. ASSUME NEW a \in Clients, NEW h \in Handles,
               \/ WindClose(a, h) \/ WindDelete(a, h) \/ WindSetTop(a, h)
               \/ OverlayMap(a, h)
        PROVE  client' = client /\ ~Locked
    BY <2>1 DEF WindClose, WindDelete, WindSetTop, OverlayMap, RaiseWindow, Calls
  <2>2. ASSUME NEW a \in Clients, NEW h \in Handles, NEW r \in Rects,
               WindCreate(a, h, r) \/ WindOpen(a, h, r) \/ WindSetRect(a, h, r)
        PROVE  client' = client /\ ~Locked
    BY <2>2 DEF WindCreate, WindOpen, WindSetRect, Calls
  <2>3. ASSUME NEW a \in Clients, FormDial(a) \/ FormShow(a) \/ FormFinish(a)
        PROVE  client' = client /\ ~Locked
    BY <2>3 DEF FormDial, FormShow, FormFinish, Calls
  <2>4. ASSUME NEW h \in Handles, UserTop(h)
        PROVE  client' = client /\ ~Locked
    BY <2>4 DEF UserTop, RaiseWindow, Input
  <2>5. ASSUME NEW h \in Handles, NEW r \in Rects, NEW raise \in BOOLEAN,
               UserDrag(h, r, raise)
        PROVE  client' = client /\ ~Locked
    BY <2>5 DEF UserDrag, Input
  <2>6. CASE FormClick
    BY <2>6 DEF FormClick, Input
  <2> QED BY <2>1, <2>2, <2>3, <2>4, <2>5, <2>6 DEF Reshaping
<1> QED BY <1>1, <1>2

\* An exit is a redraw of all that the application leaves behind, after which
\* nothing is queued for it.
LEMMA CleanupRedraws ==
    ASSUME Sound(desk), screen \in Screens, NEW a \in Clients, CleanupApp(a)
    PROVE  /\ Sound(desk') /\ Spared(desk, desk', a)
           /\ desk'.desktop # a /\ \A h \in Handles : desk'.owner[h] # a
           /\ desk.form # a /\ (\A h \in Handles : desk.owner[h] # a) =>
                 desk'.on = desk.on /\ desk'.over = desk.over /\ desk'.outer = desk.outer
           /\ \E s : /\ Follows(Cells(Screen), desk, screen, desk', s)
                     /\ screen' = [s EXCEPT !.mail = Purged(@, a)]
<1> DEFINE left == [desk EXCEPT !.gone = @ \cup {a},
                                !.desktop = IF @ = a THEN Nobody ELSE @]
           ended == desk.form = a
           d == IF ended THEN Formless(left) ELSE left
           s == IF ended THEN Redraw(d, screen, FormRect) ELSE screen
           e == Swept(d, s, a)[1]
           t == Swept(d, s, a)[2]
<1>1. desk' = e /\ screen' = [t EXCEPT !.mail = Purged(@, a)]
  BY DEF CleanupApp
<1>2. desk \in Desks /\ Ordered(desk) /\ Owned(desk) /\ a # Nobody
  BY StackAssumption DEF Sound
<1>3. /\ left.on = desk.on /\ left.over = desk.over /\ left.outer = desk.outer
      /\ left.owner = desk.owner /\ left.form = desk.form /\ left.tree = desk.tree
      /\ left.desktop = IF desk.desktop = a THEN Nobody ELSE desk.desktop
  BY <1>2 DEF Desks
<1>4. left \in Desks
  BY <1>2 DEF Desks
<1> HIDE DEF left
<1>5. Sound(left)
  <2>1. Ordered(left)
    BY <1>2, <1>3 DEF Ordered
  <2>2. Owned(left)
    BY <1>2, <1>3 DEF Owned
  <2> QED BY <1>4, <2>1, <2>2 DEF Sound
<1>6. Follows(Cells(Screen), desk, screen, left, screen)
  BY <1>3, <1>5, QuietFollows
<1>7. Spared(desk, left, a) /\ left.desktop # a
  BY <1>2, <1>3 DEF Spared
<1>8. /\ Sound(d) /\ Spared(left, d, a) /\ Follows(Cells(Screen), left, screen, d, s)
      /\ d.desktop = left.desktop /\ d.owner = left.owner
      /\ ~ended => d = left
  <2>1. CASE ended
    <3> DEFINE f == Formless(left)
    <3>1. /\ Sound(f) /\ f.on = left.on \ {Form} /\ f.over[Form] = {}
          /\ \A j \in Items : j # Form => f.over[j] = left.over[j] \ {Form}
          /\ f.outer = left.outer /\ f.owner = left.owner /\ f.desktop = left.desktop
      BY <1>5, FormlessIs
    <3>2. Follows(Cells(Screen), left, screen, f, Redraw(f, screen, FormRect))
      BY <1>5, FormlessFollows
    <3> HIDE DEF f
    <3>3. Spared(left, f, a)
      <4>1. \A j \in Items : f.over[j] \subseteq left.over[j]
        BY <3>1
      <4>2. f.on \subseteq left.on /\ \A j \in Handles : j \in left.on => j \in f.on
        BY <3>1, ItemKinds
      <4> QED BY <3>1, <4>1, <4>2 DEF Spared
    <3>4. d = f /\ s = Redraw(f, screen, FormRect)
      BY <2>1 DEF f
    <3> HIDE DEF d, s, ended
    <3> QED BY <2>1, <3>1, <3>2, <3>3, <3>4
  <2>2. CASE ~ended
    <3>1. d = left /\ s = screen
      BY <2>2
    <3>2. Follows(Cells(Screen), left, screen, left, screen)
      BY <1>5, QuietFollows
    <3>3. Spared(left, left, a)
      BY DEF Spared
    <3> HIDE DEF d, s, ended
    <3> QED BY <1>5, <2>2, <3>1, <3>2, <3>3
  <2> QED BY <2>1, <2>2
<1> HIDE DEF d, s
<1>9. s \in Screens
  BY <1>8 DEF Follows
<1>10. /\ Sound(e) /\ Follows(Cells(Screen), d, s, e, t)
       /\ Spared(d, e, a) /\ \A h \in Handles : e.owner[h] # a
       /\ e.desktop = d.desktop
       /\ (\A h \in Handles : d.owner[h] # a) => e = d
  BY <1>8, <1>9, SweptFacts
<1> HIDE DEF e, t
<1>11. Spared(desk, e, a)
  BY <1>7, <1>8, <1>10, SparedTwice
<1>12. Follows(Cells(Screen), desk, screen, e, t)
  BY <1>5, <1>6, <1>8, <1>10, FollowsTwice
<1>13. desk.form # a /\ (\A h \in Handles : desk.owner[h] # a) => e = left
  BY <1>3, <1>8, <1>10 DEF ended
<1>14. e.desktop # a
  BY <1>7, <1>8, <1>10
<1> HIDE DEF ended
<1> QED BY <1>1, <1>3, <1>10, <1>11, <1>12, <1>13, <1>14

-----------------------------------------------------------------------------
(* The types.                                                                *)

OneLocked ==
    /\ \A a, b \in Clients : client[a].locked /\ client[b].locked => a = b
    /\ \A a \in Clients : client[a].locked => client[a].window # Nobody

StackIInv ==
    /\ Sound(desk) /\ screen \in Screens /\ client \in [Clients -> ClientRecords]
    /\ OneLocked

\* Every step changes windows, answers a redraw or is an exit.
LEMMA StackSteps ==
    ASSUME StackNext
    PROVE  \/ Reshaping
           \/ \E a \in Clients :
                \/ BeginRedraw(a) \/ CleanupApp(a)
                \/ \E h \in Ports : TakeRedraw(a, h)
                \/ \E r \in client[a].left : DrawNext(a, r)
BY DEF StackNext, Reshaping, Ports

\* What WF_FIRSTXYWH and WF_NEXTXYWH yield is what can be seen of the work area.
LEMMA EnumeratedFacts ==
    ASSUME NEW d, Sound(d), NEW h \in Ports
    PROVE  /\ Enumerated(d, h) \subseteq Rectangles
           /\ \A c : c \in Shows(Enumerated(d, h))
                     <=> Seen(d, c) = h /\ c \in Cells(Area(d, h))
<1>1. d \in Desks /\ Ordered(d)
  BY DEF Sound
<1>2. CASE h = 0
  <2>1. d.on \in SUBSET Items /\ Screen \in Rectangles
    BY <1>1, StackAssumption DEF Desks
  <2>2. Tiling(Visible(d, d.on, Screen), Cells(Screen) \ Coverage(d, d.on))
    BY <1>1, <2>1, VisibleFacts
  <2>3. Enumerated(d, h) = Visible(d, d.on, Screen) /\ Area(d, h) = Screen
    BY <1>2, AreaFacts DEF Enumerated
  <2> QED BY <1>1, <1>2, <2>2, <2>3, SeenFacts DEF Tiling
<1>3. CASE h # 0 /\ h \notin d.on
  <2>1. Enumerated(d, h) = {}
    BY <1>3 DEF Enumerated
  <2>2. \A c : Seen(d, c) # h
    BY <1>1, <1>3, SeenFacts
  <2>3. Shows({}) = {}
    BY DEF Shows
  <2> QED BY <2>1, <2>2, <2>3
<1>4. CASE h # 0 /\ h \in d.on
  <2>1. h \in Handles /\ Area(d, h) = Work(d.outer[h])
    BY <1>4, AreaFacts
  <2>2. d.outer[h] \in Outers /\ Cover(d, h) = Shadowed(d.outer[h])
    BY <2>1, OnFacts
  <2>3. d.over[h] \in SUBSET Items /\ Work(d.outer[h]) \in Rectangles
    BY <1>1, <1>4, <2>2, OuterFacts DEF Desks
  <2>4. Tiling(Visible(d, d.over[h], Work(d.outer[h])),
               Cells(Work(d.outer[h])) \ Coverage(d, d.over[h]))
    BY <1>1, <2>3, VisibleFacts
  <2>5. Enumerated(d, h) = Visible(d, d.over[h], Work(d.outer[h]))
    BY <1>4 DEF Enumerated
  <2>6. Cells(Work(d.outer[h])) \subseteq Cells(Cover(d, h))
    BY <2>2, WorkFacts
  <2>7. \A c : Seen(d, c) = h <=> /\ c \in Cells(Cover(d, h))
                                  /\ c \notin Coverage(d, d.over[h])
    BY <1>1, <1>4, SeenFacts
  <2> QED BY <2>1, <2>4, <2>5, <2>6, <2>7 DEF Tiling
<1> QED BY <1>2, <1>3, <1>4

\* An application that answers nothing holds no lock.
LEMMA IdleType == Idle \in ClientRecords /\ ~Idle.locked /\ Idle.window = Nobody
BY Nothing DEF Idle, ClientRecords

\* A rectangle is drawn: the cells of the clip, and no others.
LEMMA DrawnIs ==
    ASSUME screen \in Screens, client \in [Clients -> ClientRecords],
           NEW a \in Clients, NEW r \in client[a].left, DrawNext(a, r),
           client[a].window # Nobody
    PROVE  LET q == client[a]
               clip == Within(Within(r, q.dirty), q.at)
           IN /\ q.locked /\ screen' \in Screens /\ screen'.mail = screen.mail
              /\ Cells(clip) = Cells(r) \cap Cells(q.dirty) \cap Cells(q.at)
              /\ \A c \in Cells(Screen) : c \notin Cells(clip) =>
                    screen'.pixels[c] = screen.pixels[c]
              /\ \A c \in Cells(Screen) \cap Cells(clip) : q.window = 0 =>
                    screen'.pixels[c] = Desk
              /\ \A c \in Cells(Screen) \cap Cells(clip) : q.window # 0 =>
                    screen'.pixels[c] = WorkCell(q.window, c[1] - q.at.x, c[2] - q.at.y)
<1> DEFINE q == client[a]
           clip == Within(Within(r, q.dirty), q.at)
           new(c) == IF c \notin Cells(clip) THEN screen.pixels[c]
                     ELSE IF q.window = 0 THEN Desk
                     ELSE WorkCell(q.window, c[1] - q.at.x, c[2] - q.at.y)
           p == [c \in Cells(Screen) |-> new(c)]
<1>1. /\ q.window \in Ports /\ q.dirty \in Rectangles /\ q.at \in Rectangles
      /\ r \in Rectangles
  BY DEF ClientRecords
<1>2. Cells(clip) = Cells(r) \cap Cells(q.dirty) \cap Cells(q.at)
  <2>1. /\ Within(r, q.dirty) \in Rectangles
        /\ Cells(Within(r, q.dirty)) = Cells(r) \cap Cells(q.dirty)
    BY <1>1, WithinFacts
  <2> HIDE DEF q
  <2> QED BY <1>1, <2>1, WithinFacts
<1>3. screen' = [screen EXCEPT !.pixels = p] /\ q.locked
  BY DEF DrawNext, Screens
<1>4. \A c \in Cells(Screen) : new(c) \in Colours
  <2> TAKE c \in Cells(Screen)
  <2>1. screen.pixels[c] \in Colours
    BY DEF Screens
  <2>2. Desk \in Colours
    BY DEF Colours
  <2>3. WorkCell(q.window, c[1] - q.at.x, c[2] - q.at.y) \in Colours
    <3>1. c[1] \in Int /\ c[2] \in Int
      <4>1. c \in Plane
        BY ScreenCells
      <4> QED BY <4>1 DEF Plane
    <3> HIDE DEF q
    <3>2. q.window \in Int /\ q.at.x \in Int /\ q.at.y \in Int
      <4>1. \A h \in Ports : h \in Int
        BY ItemKinds DEF Ports
      <4>2. \A s \in Rectangles : s.x \in Int /\ s.y \in Int
        BY DEF Rectangles
      <4> QED BY <1>1, <4>1, <4>2
    <3>3. c[1] - q.at.x \in Int /\ c[2] - q.at.y \in Int
      BY <3>1, <3>2
    <3> QED BY <3>2, <3>3 DEF WorkCell, Colours
  <2> HIDE DEF q, clip
  <2> QED BY <2>1, <2>2, <2>3
<1>5. \A c \in Cells(Screen) : p[c] = new(c)
  OBVIOUS
<1>6. p \in [Cells(Screen) -> Colours]
  <2> HIDE DEF new
  <2> QED BY <1>4
<1> HIDE DEF p
<1>7. screen' \in Screens /\ screen'.mail = screen.mail /\ screen'.pixels = p
  BY <1>3, <1>6 DEF Screens
<1> HIDE DEF q, clip
<1> QED BY <1>2, <1>3, <1>5, <1>7 DEF q, clip

\* Purging an application's messages leaves those of others.
LEMMA CleanedScreen ==
    ASSUME NEW s \in Screens, NEW a \in Clients
    PROVE  LET t == [s EXCEPT !.mail = Purged(@, a)]
           IN /\ t \in Screens /\ t.pixels = s.pixels
              /\ \A b \in Clients : b # a => t.mail[b] = s.mail[b]
<1> DEFINE m == [s.mail EXCEPT ![a] = [h \in Ports |-> NoRect]]
<1>1. Purged(s.mail, a) = m
  BY DEF Purged, Ports
<1>2. [h \in Ports |-> NoRect] \in [Ports -> Rectangles]
  BY Nothing
<1>3. s.mail \in [Clients -> [Ports -> Rectangles]]
  BY DEF Screens
<1>4. /\ m \in [Clients -> [Ports -> Rectangles]]
      /\ \A b \in Clients : b # a => m[b] = s.mail[b]
  BY <1>2, <1>3
<1> HIDE DEF m
<1>5. [s EXCEPT !.mail = Purged(@, a)] = [s EXCEPT !.mail = m]
  BY <1>1 DEF Screens
<1> QED BY <1>4, <1>5 DEF Screens

\* Taking a redraw message leaves the other messages.
LEMMA TakenScreen ==
    ASSUME NEW s \in Screens, NEW a \in Clients, NEW h \in Ports
    PROVE  LET t == [s EXCEPT !.mail[a][h] = NoRect]
           IN /\ t \in Screens /\ t.pixels = s.pixels
              /\ \A b \in Clients, k \in Ports :
                    b # a \/ k # h => t.mail[b][k] = s.mail[b][k]
<1> DEFINE m == [s.mail EXCEPT ![a][h] = NoRect]
<1>1. s.mail \in [Clients -> [Ports -> Rectangles]] /\ NoRect \in Rectangles
  BY Nothing DEF Screens
<1>2. s.mail[a] \in [Ports -> Rectangles]
  BY <1>1
<1>3. [s.mail[a] EXCEPT ![h] = NoRect] \in [Ports -> Rectangles]
  BY <1>1, <1>2
<1>4. m \in [Clients -> [Ports -> Rectangles]]
  BY <1>1, <1>3
<1>5. \A b \in Clients, k \in Ports : b # a \/ k # h => m[b][k] = s.mail[b][k]
  BY <1>1, <1>2
<1>6. [s EXCEPT !.mail[a][h] = NoRect] = [s EXCEPT !.mail = m]
  BY DEF Screens
<1> HIDE DEF m
<1> QED BY <1>4, <1>5, <1>6 DEF Screens

\* The invariant holds at first.
LEMMA StackInitHolds == StackInit => StackIInv
<1> SUFFICES ASSUME StackInit
             PROVE  StackIInv
  OBVIOUS
<1>1. /\ desk.on = {} /\ desk.over = [i \in Items |-> {}]
      /\ desk.outer = [h \in Handles |-> NoRect]
      /\ desk.owner = [h \in Handles |-> Nobody] /\ desk.desktop = Desktop
      /\ desk.form = Nobody /\ desk.tree = FALSE /\ desk.gone = {}
  BY DEF StackInit
<1>2. desk \in Desks
  <2>1. /\ [i \in Items |-> {}] \in [Items -> SUBSET Items]
        /\ [h \in Handles |-> NoRect] \in [Handles -> Rects \cup {NoRect}]
        /\ [h \in Handles |-> Nobody] \in [Handles -> Clients \cup {Nobody}]
        /\ {} \in SUBSET Items /\ {} \in SUBSET Clients
        /\ Desktop \in Clients \cup {Nobody} /\ Nobody \in Clients \cup {Nobody}
    BY StackAssumption
  <2> QED BY <2>1 DEF StackInit, Desks
<1>3. Ordered(desk)
  BY <1>1 DEF Ordered
<1>4. Owned(desk)
  BY <1>1, StackAssumption DEF Owned
<1>5. screen \in Screens
  <2>1. Checker \in Colours /\ Desk \in Colours
    BY DEF Colours
  <2>2. [c \in Cells(Screen) |-> IF Desktop = Nobody THEN Checker ELSE Desk]
           \in [Cells(Screen) -> Colours]
    BY <2>1
  <2>3. [a \in Clients |-> [h \in Ports |-> NoRect]] \in [Clients -> [Ports -> Rectangles]]
    BY Nothing
  <2> QED BY <2>2, <2>3 DEF StackInit, Screens, Ports
<1>6. client \in [Clients -> ClientRecords] /\ OneLocked
  BY IdleType DEF StackInit, OneLocked
<1> QED BY <1>2, <1>3, <1>4, <1>5, <1>6 DEF StackIInv, Sound

\* An application takes a redraw.
LEMMA TakeIs ==
    ASSUME StackIInv, NEW a \in Clients, NEW h \in Ports, TakeRedraw(a, h)
    PROVE  /\ desk' = desk /\ client[a] = Idle /\ ~Locked
           /\ screen' \in Screens /\ screen'.pixels = screen.pixels
           /\ \A b \in Clients, k \in Ports :
                 b # a \/ k # h => screen'.mail[b][k] = screen.mail[b][k]
           /\ \A b \in Clients : b # a => client'[b] = client[b]
           /\ client' \in [Clients -> ClientRecords]
           /\ \/ client' = client /\ OwnerOf(desk, h) # a
              \/ /\ client'[a].window = h /\ client'[a].dirty = screen.mail[a][h]
                 /\ client'[a].at = Area(desk, h) /\ ~client'[a].locked
                 /\ h = 0 \/ OwnerOf(desk, h) = a
<1> DEFINE new == [Idle EXCEPT !.window = h, !.dirty = screen.mail[a][h],
                               !.at = Area(desk, h)]
<1>1. /\ new.window = h /\ new.dirty = screen.mail[a][h]
      /\ new.at = Area(desk, h) /\ ~new.locked
  BY DEF Idle
<1>2. new \in ClientRecords
  <2>1. screen.mail[a][h] \in Rectangles /\ Area(desk, h) \in Rectangles
    BY AreaFacts DEF StackIInv, Screens
  <2> QED BY <2>1 DEF Idle, ClientRecords
<1> HIDE DEF new
<1>3. /\ desk' = desk /\ client[a] = Idle /\ ~Locked
      /\ screen' = [screen EXCEPT !.mail[a][h] = NoRect]
      /\ client' = IF h = 0 \/ OwnerOf(desk, h) = a THEN [client EXCEPT ![a] = new]
                   ELSE client
  BY DEF TakeRedraw, new
<1>4. client \in [Clients -> ClientRecords]
  BY DEF StackIInv
<1>5. /\ screen' \in Screens /\ screen'.pixels = screen.pixels
      /\ \A b \in Clients, k \in Ports :
            b # a \/ k # h => screen'.mail[b][k] = screen.mail[b][k]
  BY <1>3, TakenScreen DEF StackIInv
<1>6. CASE h = 0 \/ OwnerOf(desk, h) = a
  BY <1>1, <1>2, <1>3, <1>4, <1>5, <1>6
<1>7. CASE ~(h = 0 \/ OwnerOf(desk, h) = a)
  BY <1>3, <1>4, <1>5, <1>7
<1> QED BY <1>6, <1>7

\* What locking the screen and listing the rectangles to draw does.
LEMMA BeginIs ==
    ASSUME StackIInv, NEW a \in Clients, BeginRedraw(a)
    PROVE  /\ desk' = desk /\ screen' = screen /\ ~Locked /\ client[a].window \in Ports
           /\ \A b \in Clients : b # a => client'[b] = client[b]
           /\ client' \in [Clients -> ClientRecords]
           /\ \/ client'[a] = Idle /\ Enumerated(desk, client[a].window) = {}
              \/ /\ client'[a].window = client[a].window
                 /\ client'[a].dirty = client[a].dirty /\ client'[a].at = client[a].at
                 /\ client'[a].locked
                 /\ client'[a].left = Enumerated(desk, client[a].window)
<1> DEFINE list == Enumerated(desk, client[a].window)
           new == [client[a] EXCEPT !.locked = TRUE, !.left = list]
<1>1. client \in [Clients -> ClientRecords] /\ client[a] \in ClientRecords
  BY DEF StackIInv
<1>2. client[a].window \in Ports
  BY <1>1 DEF BeginRedraw, ClientRecords
<1>3. list \in SUBSET Rectangles
  BY <1>2, EnumeratedFacts DEF StackIInv
<1>4. /\ client' = [client EXCEPT ![a] = IF list = {} THEN Idle ELSE new]
      /\ desk' = desk /\ screen' = screen /\ ~Locked
  BY DEF BeginRedraw
<1> HIDE DEF list
<1>5. /\ new \in ClientRecords /\ new.window = client[a].window
      /\ new.dirty = client[a].dirty /\ new.at = client[a].at
      /\ new.locked /\ new.left = list
  BY <1>1, <1>3 DEF ClientRecords
<1> HIDE DEF new
<1>6. CASE list = {}
  BY <1>1, <1>2, <1>4, <1>6, IdleType DEF list
<1>7. CASE list # {}
  <2>1. client' = [client EXCEPT ![a] = new]
    BY <1>4, <1>7
  <2> QED BY <1>1, <1>2, <1>4, <1>5, <2>1 DEF list
<1> QED BY <1>6, <1>7

\* What drawing one of them does, but for the pixels.
LEMMA DrawLeaves ==
    ASSUME StackIInv, NEW a \in Clients, NEW r \in client[a].left, DrawNext(a, r)
    PROVE  /\ desk' = desk /\ client[a].locked
           /\ \A b \in Clients : b # a => client'[b] = client[b]
           /\ client' \in [Clients -> ClientRecords]
           /\ \/ client'[a] = Idle /\ client[a].left = {r}
              \/ /\ client'[a].window = client[a].window
                 /\ client'[a].dirty = client[a].dirty /\ client'[a].at = client[a].at
                 /\ client'[a].locked /\ client'[a].left = client[a].left \ {r}
<1> DEFINE q == client[a]
           new == [q EXCEPT !.left = @ \ {r}]
<1>1. client \in [Clients -> ClientRecords] /\ q \in ClientRecords
  BY DEF StackIInv
<1>2. /\ client' = [client EXCEPT ![a] = IF q.left = {r} THEN Idle ELSE new]
      /\ desk' = desk /\ q.locked
  BY DEF DrawNext
<1> HIDE DEF q
<1>3. /\ new \in ClientRecords /\ new.window = q.window
      /\ new.dirty = q.dirty /\ new.at = q.at
      /\ new.locked = q.locked /\ new.left = q.left \ {r}
  BY <1>1 DEF ClientRecords
<1> HIDE DEF new
<1>4. CASE q.left = {r}
  BY <1>1, <1>2, <1>4, IdleType DEF q
<1>5. CASE q.left # {r}
  <2>1. client' = [client EXCEPT ![a] = new]
    BY <1>2, <1>5
  <2> QED BY <1>1, <1>2, <1>3, <2>1 DEF q
<1> QED BY <1>4, <1>5

\* What an exit does to the applications.
LEMMA CleanupLeaves ==
    ASSUME StackIInv, NEW a \in Clients, CleanupApp(a)
    PROVE  /\ screen' \in Screens
           /\ client' \in [Clients -> ClientRecords] /\ client'[a] = Idle
           /\ \A b \in Clients : b # a => client'[b] = client[b]
<1>1. screen' \in Screens
  <2>1. PICK s : /\ Follows(Cells(Screen), desk, screen, desk', s)
                 /\ screen' = [s EXCEPT !.mail = Purged(@, a)]
    BY CleanupRedraws DEF StackIInv
  <2>2. s \in Screens
    BY <2>1 DEF Follows
  <2> QED BY <2>1, <2>2, CleanedScreen
<1>2. client' = [client EXCEPT ![a] = Idle]
  BY DEF CleanupApp
<1> QED BY <1>1, <1>2, IdleType DEF StackIInv

\* Every step keeps the table sound, and one application locked at most.
LEMMA StackInductive == StackIInv /\ [StackNext]_stackVars => StackIInv'
<1> SUFFICES ASSUME StackIInv, [StackNext]_stackVars
             PROVE  StackIInv'
  OBVIOUS
<1>1. /\ Sound(desk) /\ screen \in Screens /\ client \in [Clients -> ClientRecords]
      /\ \A a, b \in Clients : client[a].locked /\ client[b].locked => a = b
      /\ \A a \in Clients : client[a].locked => client[a].window # Nobody
  BY DEF StackIInv, OneLocked
<1>2. CASE Reshaping
  <2>1. Redrawn /\ client' = client
    BY <1>1, <1>2, ReshapingRedraws
  <2> QED BY <1>1, <2>1 DEF StackIInv, OneLocked, Redrawn
<1>3. ASSUME NEW a \in Clients, BeginRedraw(a)
      PROVE  StackIInv'
  <2>1. /\ desk' = desk /\ screen' = screen /\ ~Locked /\ client[a].window \in Ports
        /\ \A b \in Clients : b # a => client'[b] = client[b]
        /\ client' \in [Clients -> ClientRecords]
    BY <1>3, BeginIs
  <2>2. client'[a] = Idle \/ client'[a].window = client[a].window
    BY <1>3, BeginIs
  <2>3. \A b \in Clients : client'[b].locked => b = a
    BY <2>1 DEF Locked
  <2>4. client'[a].locked => client'[a].window # Nobody
    BY <2>1, <2>2, IdleType, ItemKinds, StackAssumption DEF Ports
  <2> QED BY <1>1, <2>1, <2>3, <2>4 DEF StackIInv, OneLocked
<1>4. ASSUME NEW a \in Clients, NEW h \in Ports, TakeRedraw(a, h)
      PROVE  StackIInv'
  <2>1. /\ desk' = desk /\ ~Locked /\ screen' \in Screens
        /\ \A b \in Clients : b # a => client'[b] = client[b]
        /\ client' \in [Clients -> ClientRecords]
    BY <1>4, TakeIs
  <2>2. client' = client \/ ~client'[a].locked
    BY <1>4, TakeIs
  <2>3. \A b \in Clients : ~client'[b].locked
    BY <2>1, <2>2 DEF Locked
  <2> QED BY <1>1, <2>1, <2>3 DEF StackIInv, OneLocked
<1>5. ASSUME NEW a \in Clients, NEW r \in client[a].left, DrawNext(a, r)
      PROVE  StackIInv'
  <2>1. /\ desk' = desk /\ client[a].locked
        /\ \A b \in Clients : b # a => client'[b] = client[b]
        /\ client' \in [Clients -> ClientRecords]
    BY <1>5, DrawLeaves
  <2>2. client'[a] = Idle \/ client'[a].window = client[a].window
    BY <1>5, DrawLeaves
  <2>3. screen' \in Screens
    BY <1>1, <1>5, <2>1, DrawnIs
  <2>4. \A b \in Clients : client'[b].locked => b = a
    BY <1>1, <2>1
  <2>5. client'[a].locked => client'[a].window # Nobody
    BY <1>1, <2>1, <2>2, IdleType
  <2> QED BY <1>1, <2>1, <2>3, <2>4, <2>5 DEF StackIInv, OneLocked
<1>6. ASSUME NEW a \in Clients, CleanupApp(a)
      PROVE  StackIInv'
  <2>1. Sound(desk')
    BY <1>1, <1>6, CleanupRedraws
  <2>2. /\ screen' \in Screens
        /\ client' \in [Clients -> ClientRecords] /\ client'[a] = Idle
        /\ \A b \in Clients : b # a => client'[b] = client[b]
    BY <1>6, CleanupLeaves
  <2>3. \A b \in Clients : client'[b].locked => b # a /\ client'[b] = client[b]
    BY <2>2, IdleType
  <2> QED BY <1>1, <2>1, <2>2, <2>3 DEF StackIInv, OneLocked
<1>7. CASE UNCHANGED stackVars
  BY <1>1, <1>7 DEF stackVars, StackIInv, OneLocked
<1> QED BY <1>2, <1>3, <1>4, <1>5, <1>6, <1>7, StackSteps

\* So it is always.
LEMMA StackInvariant == StackSpec => []StackIInv
<1> QED BY StackInitHolds, StackInductive, PTL DEF StackSpec

\* The table, the order of the stack, the queues and the answers of the
\* applications (aes_state.windows, z_order, the message slots) are what
\* StackTypeOK says, after any calls, drags, clicks, redraws and exits.
THEOREM StackTypes == StackSpec => []StackTypeOK
<1>1. StackIInv => StackTypeOK
  <2> SUFFICES ASSUME StackIInv
               PROVE  StackTypeOK
    OBVIOUS
  <2>1. desk \in Desks /\ screen \in Screens
    BY DEF StackIInv, Sound
  <2>2. /\ desk.on \subseteq Items /\ desk.over \in [Items -> SUBSET Items]
        /\ desk.outer \in [Handles -> Rects \cup {NoRect}]
        /\ desk.owner \in [Handles -> Clients \cup {Nobody}]
    BY <2>1 DEF Desks
  <2>3. /\ DOMAIN screen.pixels = Cells(Screen)
        /\ \A a \in Clients, h \in Handles \cup {0} : screen.mail[a][h] \in Rectangles
    BY <2>1 DEF Screens, Ports
  <2> QED BY <2>2, <2>3 DEF StackTypeOK, StackIInv, OneLocked
<1> QED BY <1>1, StackInvariant, PTL

\* What is left of the desktop, of a work area, of a frame or of the form once
\* all that is above has been cut out of it (aes_build_visible_rects() and
\* aes_clip_layer_rects(), window_visible.c 76-172) is what can be seen of it,
\* in rectangles that do not meet: for any windows, in any order, of any sizes.
THEOREM VisibleIsExact == StackSpec => []VisibleExact
<1>1. StackIInv => VisibleExact
  <2> SUFFICES ASSUME StackIInv
               PROVE  VisibleExact
    OBVIOUS
  <2>1. Sound(desk) /\ desk \in Desks
    BY DEF StackIInv, Sound
  <2>2. ASSUME NEW above \in SUBSET Items, NEW base \in Rectangles
        PROVE  ExactFor(above, base)
    <3> DEFINE list == Visible(desk, above, base)
    <3>1. Tiling(list, Cells(base) \ Coverage(desk, above))
      BY <2>1, <2>2, VisibleFacts
    <3> HIDE DEF list
    <3>2. ASSUME NEW r \in list, NEW s \in list, r # s
          PROVE  ~Overlaps(r, s)
      <4>1. r \in Rectangles /\ s \in Rectangles /\ Cells(r) \cap Cells(s) = {}
        BY <3>1, <3>2 DEF Tiling
      <4>2. Cells(Within(r, s)) = {}
        BY <4>1, WithinFacts
      <4>3. ASSUME Within(r, s) # NoRect
            PROVE  FALSE
        <5> DEFINE o == Within(r, s)
        <5>1. o \in Rectangles /\ o.w > 0 /\ o.h > 0
          BY <4>1, <4>3, WithinFacts
        <5> HIDE DEF o
        <5>2. o.x \in Int /\ o.y \in Int /\ o.w \in Int /\ o.h \in Int
          BY <5>1 DEF Rectangles
        <5>3. <<o.x, o.y>> \in Plane /\ <<o.x, o.y>>[1] = o.x /\ <<o.x, o.y>>[2] = o.y
          BY <5>2 DEF Plane
        <5>4. <<o.x, o.y>> \in Cells(o)
          BY <5>1, <5>2, <5>3, InCells
        <5> QED BY <4>2, <5>4 DEF o
      <4> QED BY <4>3 DEF Overlaps
    <3>3. Shows(list) = Cells(base) \ Coverage(desk, above)
      BY <3>1 DEF Tiling
    <3> QED BY <3>2, <3>3 DEF ExactFor, list
  <2>3. desk.on \in SUBSET Items /\ Form \in Items
    BY <2>1, ItemKinds DEF Desks
  <2>4. ASSUME NEW h \in desk.on \ {Form}
        PROVE  /\ desk.over[h] \in SUBSET Items
               /\ Work(desk.outer[h]) \in Rectangles
               /\ Shadowed(desk.outer[h]) \in Rectangles
    <3>1. h \in Handles
      BY <2>3, ItemKinds
    <3>2. desk.outer[h] \in Outers
      BY <2>1, <3>1, OnFacts
    <3> QED BY <2>1, <2>3, <3>2, OuterFacts DEF Desks
  <2>5. ExactFor(desk.on, Screen)
    BY <2>2, <2>3, StackAssumption
  <2>6. \A h \in desk.on \ {Form} :
           \A base \in {Work(desk.outer[h]), Shadowed(desk.outer[h])} :
              ExactFor(desk.over[h], base)
    BY <2>2, <2>4
  <2>7. desk.over[Form] \in SUBSET Items
    BY <2>1, <2>3 DEF Desks
  <2>8. ExactFor(desk.over[Form], FormRect)
    BY <2>2, <2>7, StackAssumption
  <2> QED BY <2>5, <2>6, <2>8 DEF VisibleExact
<1> QED BY <1>1, StackInvariant, PTL

-----------------------------------------------------------------------------
(* The overlays.                                                             *)

OverlayRecords == [mapped : BOOLEAN, shown : BOOLEAN, masked : SUBSET Plane]

\* What is in front of the work area of a window.
Mask(d, h) == UNION {Cells(Within(Cover(d, i), Work(d.outer[h]))) : i \in d.over[h]}

\* The presenter was told how things are.
Told(d, o) ==
    /\ o \in [Overlaid -> OverlayRecords]
    /\ \A h \in Overlaid : o[h].mapped =>
          /\ o[h].shown <=> h \in d.on
          /\ h \in d.on => o[h].masked = Mask(d, h)

\* The mask of a window is what is in front of its work area.
LEMMA MaskFacts ==
    ASSUME NEW d, Sound(d), NEW h \in Handles
    PROVE  /\ Mask(d, h) \subseteq Plane
           /\ Mask(d, h) = Cells(Work(d.outer[h])) \cap Coverage(d, d.over[h])
<1>1. d \in Desks /\ Work(d.outer[h]) \in Rectangles /\ d.over[h] \subseteq Items
  BY OnFacts, OuterFacts DEF Sound, Desks
<1>2. \A i \in d.over[h] : Cells(Within(Cover(d, i), Work(d.outer[h])))
                              = Cells(Cover(d, i)) \cap Cells(Work(d.outer[h]))
  <2> TAKE i \in d.over[h]
  <2>1. Cover(d, i) \in Rectangles
    BY <1>1, CoverFacts
  <2> QED BY <1>1, <2>1, WithinFacts
<1>3. \A c : c \in Mask(d, h) <=> /\ c \in Cells(Work(d.outer[h]))
                                  /\ \E i \in d.over[h] : c \in Cells(Cover(d, i))
  BY <1>2 DEF Mask
<1>4. Cells(Work(d.outer[h])) \subseteq Plane
  BY <1>1, OnPlane
<1> QED BY <1>3, <1>4, CoverageIs

\* After a notification the presenter knows how things are.
LEMMA NotifiedTells ==
    ASSUME NEW d, Sound(d), NEW o \in [Overlaid -> OverlayRecords]
    PROVE  Told(d, Notified(d, o))
<1> DEFINE n == Notified(d, o)
<1>1. ASSUME NEW h \in Overlaid
      PROVE  /\ n[h] \in OverlayRecords
             /\ n[h].mapped => /\ n[h].shown <=> h \in d.on
                               /\ h \in d.on => n[h].masked = Mask(d, h)
  <2>1. n[h] = IF ~o[h].mapped THEN o[h]
               ELSE IF h \notin d.on THEN [o[h] EXCEPT !.shown = FALSE]
               ELSE [mapped |-> TRUE, shown |-> TRUE, masked |-> Mask(d, h)]
    BY DEF Notified, Mask
  <2>2. o[h] \in OverlayRecords
    OBVIOUS
  <2>3. Mask(d, h) \in SUBSET Plane
    BY MaskFacts, StackAssumption
  <2> HIDE DEF n
  <2>4. CASE ~o[h].mapped
    BY <2>1, <2>2, <2>4
  <2>5. CASE o[h].mapped /\ h \notin d.on
    <3>1. n[h] = [o[h] EXCEPT !.shown = FALSE]
      BY <2>1, <2>5
    <3> QED BY <2>2, <2>5, <3>1 DEF OverlayRecords
  <2>6. CASE o[h].mapped /\ h \in d.on
    <3>1. n[h] = [mapped |-> TRUE, shown |-> TRUE, masked |-> Mask(d, h)]
      BY <2>1, <2>6
    <3> QED BY <2>3, <2>6, <3>1 DEF OverlayRecords
  <2> QED BY <2>4, <2>5, <2>6
<1>2. n = [h \in Overlaid |-> n[h]]
  BY DEF Notified
<1> HIDE DEF n
<1>3. n \in [Overlaid -> OverlayRecords]
  BY <1>1, <1>2
<1> QED BY <1>1, <1>3 DEF Told, n

\* The windows that are open, their order and their places stay.
LEMMA StaysTold ==
    ASSUME NEW d, Sound(d), NEW e, Sound(e), NEW o, Told(d, o),
           e.on = d.on, e.over = d.over,
           \A h \in Handles \cap d.on : e.outer[h] = d.outer[h]
    PROVE  Told(e, o)
<1>1. ASSUME NEW h \in Handles \cap d.on
      PROVE  Mask(e, h) = Mask(d, h)
  <2>1. \A i \in d.over[h] : Cover(e, i) = Cover(d, i)
    <3> TAKE i \in d.over[h]
    <3>1. i \in d.on /\ (i = Form \/ i \in Handles)
      BY OnFacts, ItemKinds DEF Sound, Desks
    <3> QED BY <3>1 DEF Cover
  <2> QED BY <2>1 DEF Mask
<1>2. Overlaid \subseteq Handles
  BY StackAssumption
<1> QED BY <1>1, <1>2 DEF Told

\* Every step that changes windows notifies, but for a click on a form.
LEMMA ReshapingTells ==
    ASSUME Sound(desk), screen \in Screens, Told(desk, overlay), Reshaping,
           "click" \notin Careless
    PROVE  Told(desk', overlay')
<1>1. Sound(desk') /\ overlay \in [Overlaid -> OverlayRecords]
  BY ReshapingRedraws DEF Redrawn, Told
<1>2. CASE overlay' = Notified(desk', overlay)
  BY <1>1, <1>2, NotifiedTells
<1>3. ASSUME NEW a \in Clients, NEW h \in Handles, OverlayMap(a, h)
      PROVE  Told(desk', overlay')
  <2> DEFINE new == [mapped |-> TRUE, shown |-> TRUE, masked |-> {}]
             o == [overlay EXCEPT ![h] = new]
  <2>1. desk' = desk /\ overlay' = Notified(desk, o)
    BY <1>3 DEF OverlayMap
  <2>2. new \in OverlayRecords
    BY DEF OverlayRecords
  <2>3. o \in [Overlaid -> OverlayRecords]
    BY <1>1, <2>2
  <2> HIDE DEF o
  <2> QED BY <2>1, <2>3, NotifiedTells
<1>4. ASSUME overlay' = overlay, desk'.on = desk.on, desk'.over = desk.over,
             \A h \in Handles \cap desk.on : desk'.outer[h] = desk.outer[h]
      PROVE  Told(desk', overlay')
  BY <1>1, <1>4, StaysTold
<1>5. ASSUME NEW a \in Clients, NEW h \in Handles, NEW r \in Rects, WindCreate(a, h, r)
      PROVE  Told(desk', overlay')
  <2>1. desk' = Created(desk, h, a, r) /\ overlay' = overlay /\ desk.owner[h] = Nobody
    BY <1>5 DEF WindCreate, Created
  <2> DEFINE d == Created(desk, h, a, r)
  <2>2. /\ d.on = desk.on /\ d.over = desk.over /\ h \notin desk.on
        /\ \A k \in Handles : k # h => d.outer[k] = desk.outer[k]
    BY <2>1, CreatedIs
  <2> HIDE DEF d
  <2> QED BY <1>4, <2>1, <2>2 DEF d
<1>6. ASSUME NEW a \in Clients, NEW h \in Handles, WindDelete(a, h)
      PROVE  Told(desk', overlay')
  <2> DEFINE d == Deleted(desk, h)
  <2>1. desk' = d /\ overlay' = overlay /\ h \notin desk.on
    BY <1>6 DEF WindDelete
  <2>2. /\ d.on = desk.on /\ d.over = desk.over
        /\ \A k \in Handles : k # h => d.outer[k] = desk.outer[k]
    BY <2>1, DeletedIs
  <2> HIDE DEF d
  <2> QED BY <1>4, <2>1, <2>2
<1>7. ASSUME NEW a \in Clients, NEW h \in Handles, NEW r \in Rects, WindSetRect(a, h, r)
      PROVE  Told(desk', overlay')
  <2> DEFINE d == Placed(desk, h, r)
  <2>1. desk' = d
    BY <1>7 DEF WindSetRect, Placed
  <2>2. /\ d.on = desk.on /\ d.over = desk.over
        /\ \A k \in Handles : k # h => d.outer[k] = desk.outer[k]
    BY PlacedIs
  <2>3. CASE h \in desk.on
    BY <1>2, <1>7, <2>3 DEF WindSetRect, Notify
  <2>4. CASE h \notin desk.on
    <3>1. overlay' = overlay
      BY <1>7, <2>4 DEF WindSetRect
    <3> HIDE DEF d
    <3> QED BY <1>4, <2>1, <2>2, <2>4, <3>1
  <2> QED BY <2>3, <2>4
<1>8. ASSUME NEW a \in Clients, FormShow(a)
      PROVE  Told(desk', overlay')
  <2>1. desk' = [desk EXCEPT !.tree = TRUE] /\ overlay' = overlay
    BY <1>8 DEF FormShow
  <2>2. desk'.on = desk.on /\ desk'.over = desk.over /\ desk'.outer = desk.outer
    BY <2>1 DEF Sound, Desks
  <2> QED BY <1>4, <2>1, <2>2
<1>9. ASSUME NEW a \in Clients, NEW h \in Handles,
             \/ WindClose(a, h) \/ WindSetTop(a, h)
             \/ \E r \in Rects : WindOpen(a, h, r)
      PROVE  Told(desk', overlay')
  BY <1>2, <1>9 DEF WindClose, WindSetTop, RaiseWindow, WindOpen, Notify
<1>10. ASSUME NEW h \in Handles,
              \/ UserTop(h)
              \/ \E r \in Rects, raise \in BOOLEAN : UserDrag(h, r, raise)
       PROVE  Told(desk', overlay')
  BY <1>2, <1>10 DEF UserTop, RaiseWindow, UserDrag, Notify
<1>11. ASSUME NEW a \in Clients, FormDial(a) \/ FormFinish(a)
       PROVE  Told(desk', overlay')
  BY <1>2, <1>11 DEF FormDial, FormFinish, Notify
<1>12. ~FormClick
  BY DEF FormClick
<1> QED BY <1>3, <1>5, <1>6, <1>7, <1>8, <1>9, <1>10, <1>11, <1>12 DEF Reshaping

\* So does an exit, but for one without windows of its own.
LEMMA CleanupTells ==
    ASSUME StackIInv, Told(desk, overlay), NEW a \in Clients, CleanupApp(a),
           "leave" \notin Careless
    PROVE  Told(desk', overlay')
<1> DEFINE mapped == [h \in Overlaid |-> IF desk.owner[h] = a THEN Unmapped
                                                             ELSE overlay[h]]
<1>1. /\ desk.form # a
      /\ overlay' = IF \A h \in Handles : desk.owner[h] # a THEN mapped
                    ELSE Notified(desk', mapped)
  BY DEF CleanupApp
<1>2. /\ Sound(desk) /\ Sound(desk')
      /\ desk.form # a /\ (\A h \in Handles : desk.owner[h] # a) =>
            desk'.on = desk.on /\ desk'.over = desk.over /\ desk'.outer = desk.outer
  BY CleanupRedraws DEF StackIInv
<1>3. overlay \in [Overlaid -> OverlayRecords] /\ Overlaid \subseteq Handles
  BY StackAssumption DEF Told
<1>4. Unmapped \in OverlayRecords
  BY DEF Unmapped, OverlayRecords
<1>5. mapped \in [Overlaid -> OverlayRecords]
  BY <1>3, <1>4
<1>6. CASE \A h \in Handles : desk.owner[h] # a
  <2>1. mapped = overlay
    BY <1>3, <1>6
  <2> HIDE DEF mapped
  <2>2. overlay' = overlay
    BY <1>1, <1>6, <2>1
  <2> QED BY <1>1, <1>2, <1>6, <2>2, StaysTold
<1>7. CASE ~\A h \in Handles : desk.owner[h] # a
  <2> HIDE DEF mapped
  <2> QED BY <1>1, <1>2, <1>5, <1>7, NotifiedTells
<1> QED BY <1>6, <1>7

\* The presenter is told of every change, when those two are left out.
LEMMA ToldInductive ==
    ASSUME Careless \cap {"click", "leave"} = {}
    PROVE  StackIInv /\ Told(desk, overlay) /\ [StackNext]_stackVars
              => Told(desk, overlay)'
<1> SUFFICES ASSUME StackIInv, Told(desk, overlay), [StackNext]_stackVars
             PROVE  Told(desk', overlay')
  OBVIOUS
<1>1. "click" \notin Careless /\ "leave" \notin Careless
  OBVIOUS
<1>2. CASE Reshaping
  BY <1>1, <1>2, ReshapingTells DEF StackIInv
<1>3. ASSUME NEW a \in Clients,
             \/ BeginRedraw(a)
             \/ \E h \in Ports : TakeRedraw(a, h)
             \/ \E r \in client[a].left : DrawNext(a, r)
      PROVE  Told(desk', overlay')
  BY <1>3 DEF BeginRedraw, TakeRedraw, DrawNext
<1>4. ASSUME NEW a \in Clients, CleanupApp(a)
      PROVE  Told(desk', overlay')
  BY <1>1, <1>4, CleanupTells
<1>5. CASE UNCHANGED stackVars
  BY <1>5 DEF stackVars
<1> QED BY <1>2, <1>3, <1>4, <1>5, StackSteps

\* gemd_overlay_window_top_changed() is called wherever the stack changes: the
\* presenter shows an overlay only over an open window and never over what is
\* in front of it, but for the two steps after which it is not told, a press on
\* the form and an exit under a form of one's own (overlay.c, GEMSCAPE.md 117).
THEOREM OverlaysMasked ==
    ASSUME Careless \cap {"click", "leave"} = {}
    PROVE  StackSpec => []OverlayMasked
<1>1. StackInit => Told(desk, overlay)
  <2> SUFFICES ASSUME StackInit
               PROVE  Told(desk, overlay)
    OBVIOUS
  <2>1. Unmapped \in OverlayRecords /\ ~Unmapped.mapped
    BY DEF Unmapped, OverlayRecords
  <2> QED BY <2>1 DEF StackInit, Told
<1>2. StackIInv /\ Told(desk, overlay) /\ [StackNext]_stackVars => Told(desk, overlay)'
  BY ToldInductive
<1>3. StackIInv /\ Told(desk, overlay) => OverlayMasked
  <2> SUFFICES ASSUME StackIInv, Told(desk, overlay), NEW h \in Overlaid,
                      overlay[h].mapped
               PROVE  /\ overlay[h].shown <=> h \in desk.on
                      /\ h \in desk.on =>
                            overlay[h].masked \cap Cells(Work(desk.outer[h])) =
                               {c \in Cells(Work(desk.outer[h])) : Seen(desk, c) # h}
    BY DEF OverlayMasked
  <2>1. h \in Handles /\ Sound(desk) /\ desk \in Desks /\ Ordered(desk)
    BY StackAssumption DEF StackIInv, Sound
  <2>2. overlay[h].shown <=> h \in desk.on
    BY DEF Told
  <2>3. ASSUME h \in desk.on
        PROVE  overlay[h].masked \cap Cells(Work(desk.outer[h])) =
                  {c \in Cells(Work(desk.outer[h])) : Seen(desk, c) # h}
    <3>1. overlay[h].masked
             = Cells(Work(desk.outer[h])) \cap Coverage(desk, desk.over[h])
      BY <2>1, <2>3, MaskFacts DEF Told
    <3>2. Cells(Work(desk.outer[h])) \subseteq Cells(Cover(desk, h))
      BY <2>1, OnFacts, WorkFacts
    <3>3. \A c : Seen(desk, c) = h <=> /\ c \in Cells(Cover(desk, h))
                                       /\ c \notin Coverage(desk, desk.over[h])
      BY <2>1, <2>3, SeenFacts
    <3> QED BY <3>1, <3>2, <3>3
  <2> QED BY <2>2, <2>3
<1> QED BY <1>1, <1>2, <1>3, StackInvariant, PTL DEF StackSpec

-----------------------------------------------------------------------------
(* Nothing stale.                                                            *)

\* What NothingStale says of one cell.
Right(c) ==
    /\ Seen(desk, c) = 0 => DesktopRight(c)
    /\ Seen(desk, c) = Form => (desk.tree => screen.pixels[c] = FormCell)
    /\ \A h \in Handles : Seen(desk, c) = h => WindowRight(h, c)

\* A redraw is answered by the owner of the window.
Mine == \A a \in Clients, h \in Handles : client[a].window = h => desk.owner[h] = a

\* Under the update lock what is left to draw stays in sight.
Held ==
    \A a \in Clients : client[a].locked =>
        \A c \in Shows(client[a].left) :
            /\ Seen(desk, c) = client[a].window
            /\ c \in Cells(Area(desk, client[a].window))

\* An application that answers for a window that was moved meanwhile has
\* another redraw coming, for all that can be seen of it.
InPlace ==
    \A a \in Clients, h \in Handles \cap desk.on :
        client[a].window = h /\ client[a].at # Work(desk.outer[h]) =>
            \A c \in Cells(Screen) \cap Cells(Work(desk.outer[h])) :
                Seen(desk, c) = h => c \in Cells(screen.mail[a][h])

StaleIInv == NothingStale /\ Mine /\ Held /\ InPlace

\* NothingStale cell by cell.
LEMMA StaleIs == Sound(desk) => (NothingStale <=> \A c \in Cells(Screen) : Right(c))
<1> SUFFICES ASSUME Sound(desk)
             PROVE  NothingStale <=> \A c \in Cells(Screen) : Right(c)
  OBVIOUS
<1>1. \A c : Seen(desk, c) \in Items \cup {0}
  <2>1. desk \in Desks /\ Ordered(desk) /\ desk.on \subseteq Items
    BY DEF Sound, Desks
  <2> QED BY <2>1, SeenFacts
<1>2. ASSUME NEW c \in Cells(Screen)
      PROVE  (LET i == Seen(desk, c)
              IN CASE i = 0 -> DesktopRight(c)
                   [] i = Form -> desk.tree => screen.pixels[c] = FormCell
                   [] OTHER -> WindowRight(i, c)) <=> Right(c)
  <2>1. CASE Seen(desk, c) = 0
    BY <2>1, ItemKinds DEF Right
  <2>2. CASE Seen(desk, c) = Form
    BY <2>2, ItemKinds DEF Right
  <2>3. CASE Seen(desk, c) \in Handles
    BY <2>3, ItemKinds DEF Right
  <2> QED BY <1>1, <2>1, <2>2, <2>3, ItemKinds
<1> QED BY <1>2 DEF NothingStale

\* A step that redraws what it changes, after which those of X have nothing.
LEMMA FollowsRight ==
    ASSUME Sound(desk), Sound(desk'), NEW X,
           NEW s, Follows(Cells(Screen), desk, screen, desk', s),
           screen'.pixels = s.pixels,
           \A b \in Clients : b \notin X =>
              screen'.mail[b] = s.mail[b] /\ client'[b] = client[b],
           desk'.desktop \notin X, \A h \in Handles : desk'.owner[h] \notin X,
           NEW c \in Cells(Screen), Right(c)
    PROVE  Right(c)'
<1>1. Fresh(desk', s, c) \/ (Alike(desk, desk', c) /\ s.pixels[c] = screen.pixels[c])
  BY DEF Follows
<1>2. /\ desk' \in Desks /\ Ordered(desk') /\ desk'.desktop \in Clients \cup {Nobody}
      /\ desk'.on \subseteq Items
  BY DEF Sound, Desks
<1>3. \A h \in Handles : Seen(desk', c) = h => desk'.owner[h] \in Clients
  <2> TAKE h \in Handles
  <2>1. Seen(desk', c) = h => h \in desk'.on
    BY <1>2, SeenFacts, ItemKinds
  <2> QED BY <2>1, OnFacts
<1>4. \A b \in Clients, h \in Ports :
         Cells(screen.mail[b][h]) \subseteq Cells(s.mail[b][h])
  BY DEF Follows, Grows
<1>5. CASE Fresh(desk', s, c)
  <2>1. Seen(desk', c) = 0 => DesktopRight(c)'
    <3> SUFFICES ASSUME Seen(desk', c) = 0
                 PROVE  DesktopRight(c)'
      OBVIOUS
    <3>1. /\ screen'.pixels[c] = Checker
          /\ desk'.desktop = Nobody \/ c \in Cells(s.mail[desk'.desktop][0])
      BY <1>5 DEF Fresh
    <3>2. desk'.desktop # Nobody => screen'.mail[desk'.desktop] = s.mail[desk'.desktop]
      BY <1>2
    <3> QED BY <3>1, <3>2 DEF DesktopRight, Owed
  <2>2. Seen(desk', c) = Form => (desk'.tree => screen'.pixels[c] = FormCell)
    BY <1>5 DEF Fresh
  <2>3. ASSUME NEW h \in Handles, Seen(desk', c) = h
        PROVE  WindowRight(h, c)'
    <3>1. \/ c \in Notches(desk'.outer[h])
          \/ /\ c \in Framed(desk'.outer[h]) \ Cells(Work(desk'.outer[h]))
             /\ s.pixels[c] = FrameCell(desk', h, c)
          \/ /\ c \in Cells(Work(desk'.outer[h]))
             /\ c \in Cells(s.mail[desk'.owner[h]][h])
      BY <1>5, <2>3 DEF Fresh
    <3>2. screen'.mail[desk'.owner[h]] = s.mail[desk'.owner[h]]
      BY <1>3, <2>3
    <3> QED BY <3>1, <3>2 DEF WindowRight, Owed
  <2> QED BY <2>1, <2>2, <2>3 DEF Right
<1>6. CASE Alike(desk, desk', c) /\ s.pixels[c] = screen.pixels[c]
  <2>1. Seen(desk, c) = Seen(desk', c) /\ screen'.pixels[c] = screen.pixels[c]
    BY <1>6 DEF Alike
  <2>2. ASSUME NEW b \in Clients, b \notin X, NEW h \in Ports, Owed(b, h, c),
               Area(desk', h) = Area(desk, h)
        PROVE  Owed(b, h, c)'
    <3>1. screen'.mail[b] = s.mail[b] /\ client'[b] = client[b]
      BY <2>2
    <3> QED BY <1>4, <2>2, <3>1 DEF Owed
  <2>3. Seen(desk', c) = 0 => DesktopRight(c)'
    <3> SUFFICES ASSUME Seen(desk', c) = 0
                 PROVE  DesktopRight(c)'
      OBVIOUS
    <3>1. DesktopRight(c) /\ desk'.desktop \in {desk.desktop, Nobody}
      BY <1>6, <2>1 DEF Right, Alike
    <3>2. Area(desk', 0) = Area(desk, 0) /\ 0 \in Ports
      BY DEF Area, Ports
    <3>3. ASSUME NEW b \in Clients, b = desk'.desktop, Owed(b, 0, c)
          PROVE  Owed(b, 0, c)'
      BY <2>2, <3>2, <3>3
    <3>4. CASE screen.pixels[c] = Desk \/ desk'.desktop = Nobody
      BY <2>1, <3>1, <3>4 DEF DesktopRight
    <3>5. CASE ~(screen.pixels[c] = Desk \/ desk'.desktop = Nobody)
      <4>1. /\ screen.pixels[c] = Checker /\ desk'.desktop = desk.desktop
            /\ desk'.desktop \in Clients /\ Owed(desk.desktop, 0, c)
        BY <1>2, <3>1, <3>5 DEF DesktopRight
      <4>2. PICK b \in Clients : b = desk'.desktop
        BY <4>1
      <4>3. Owed(b, 0, c)'
        BY <3>3, <4>1, <4>2
      <4> QED BY <2>1, <4>1, <4>2, <4>3 DEF DesktopRight, Owed
    <3> QED BY <3>4, <3>5
  <2>4. Seen(desk', c) = Form => (desk'.tree => screen'.pixels[c] = FormCell)
    BY <1>6, <2>1 DEF Right, Alike
  <2>5. ASSUME NEW h \in Handles, Seen(desk', c) = h
        PROVE  WindowRight(h, c)'
    <3>1. /\ WindowRight(h, c) /\ desk'.outer[h] = desk.outer[h]
          /\ desk'.owner[h] = desk.owner[h]
          /\ FrameCell(desk', h, c) = FrameCell(desk, h, c)
      BY <1>6, <2>1, <2>5 DEF Right, Alike
    <3>2. Area(desk', h) = Area(desk, h) /\ h \in Ports
      BY <3>1, ItemKinds DEF Area, Ports
    <3>3. CASE ~Owed(desk.owner[h], h, c)
      BY <2>1, <3>1, <3>3 DEF WindowRight
    <3>4. CASE Owed(desk.owner[h], h, c)
      <4>1. PICK b \in Clients : b = desk'.owner[h]
        BY <1>3, <2>5
      <4>2. Owed(b, h, c)'
        BY <2>2, <3>1, <3>2, <3>4, <4>1
      <4> QED BY <2>1, <3>1, <4>1, <4>2 DEF WindowRight, Owed
    <3> QED BY <3>3, <3>4
  <2> QED BY <2>3, <2>4, <2>5 DEF Right
<1> QED BY <1>1, <1>5, <1>6

\* A change that is redrawn also asks those who draw for an old place.
LEMMA FollowsInPlace ==
    ASSUME Sound(desk), Sound(desk'), NEW X,
           NEW s, Follows(Cells(Screen), desk, screen, desk', s),
           \A b \in Clients : b \notin X =>
              screen'.mail[b] = s.mail[b] /\ client'[b] = client[b],
           \A b \in X : client'[b].window = Nobody,
           \A a \in Clients, h \in Handles : client'[a].window = h => desk'.owner[h] = a,
           InPlace
    PROVE  InPlace'
<1> SUFFICES ASSUME NEW a \in Clients, NEW h \in Handles, h \in desk'.on,
                    client'[a].window = h, client'[a].at # Work(desk'.outer[h]),
                    NEW c \in Cells(Screen), c \in Cells(Work(desk'.outer[h])),
                    Seen(desk', c) = h
             PROVE  c \in Cells(screen'.mail[a][h])
  BY DEF InPlace
<1>1. a \notin X
  BY ItemKinds
<1>2. screen'.mail[a] = s.mail[a] /\ client'[a] = client[a]
  BY <1>1
<1>3. desk'.owner[h] = a
  OBVIOUS
<1>4. Fresh(desk', s, c) \/ Alike(desk, desk', c)
  BY DEF Follows
<1>5. Cells(screen.mail[a][h]) \subseteq Cells(s.mail[a][h])
  BY DEF Follows, Grows, Ports
<1>6. CASE Fresh(desk', s, c)
  <2>1. Cells(Work(desk'.outer[h])) \cap Notches(desk'.outer[h]) = {}
    BY OnFacts, WorkFacts
  <2>2. c \in Cells(s.mail[desk'.owner[h]][h])
    BY <1>6, <2>1 DEF Fresh
  <2> QED BY <1>2, <1>3, <2>2
<1>7. CASE Alike(desk, desk', c)
  <2>1. Seen(desk, c) = h /\ desk.outer[h] = desk'.outer[h]
    BY <1>7 DEF Alike
  <2>2. h \in desk.on
    BY <2>1, SeenFacts, ItemKinds DEF Sound
  <2>3. c \in Cells(screen.mail[a][h])
    BY <1>2, <2>1, <2>2 DEF InPlace
  <2> QED BY <1>2, <1>5, <2>3
<1> QED BY <1>4, <1>6, <1>7

\* Where the windows of others are seen they still are after an exit.
LEMMA SparedSeen ==
    ASSUME NEW d, Sound(d), NEW e, Sound(e), NEW a \in Clients, Spared(d, e, a),
           \A h \in Handles : e.owner[h] # a,
           NEW h \in Ports, h # 0 => d.owner[h] # a, NEW c, Seen(d, c) = h
    PROVE  Seen(e, c) = h /\ Area(e, h) = Area(d, h)
<1>1. d \in Desks /\ Ordered(d) /\ e \in Desks /\ Ordered(e) /\ e.on \subseteq Items
  BY DEF Sound, Desks
<1>2. ASSUME NEW i \in e.on
      PROVE  Cover(e, i) = Cover(d, i)
  <2>1. i = Form \/ i \in Handles
    BY <1>1, ItemKinds
  <2>2. CASE i = Form
    BY <2>2 DEF Cover
  <2>3. CASE i \in Handles
    <3>1. e.owner[i] \in Clients /\ e.owner[i] # a /\ e.owner[i] \in {d.owner[i], Nobody}
      BY <1>2, <2>3, OnFacts DEF Spared
    <3>2. d.owner[i] # a
      BY <3>1, StackAssumption
    <3>3. e.outer[i] = d.outer[i]
      BY <2>3, <3>2 DEF Spared
    <3> QED BY <3>3 DEF Cover
  <2> QED BY <2>1, <2>2, <2>3
<1>3. CASE h = 0
  <2>1. c \notin Coverage(d, d.on) /\ e.on \subseteq d.on
    BY <1>1, <1>3, SeenFacts DEF Spared
  <2>2. c \notin Coverage(e, e.on)
    BY <1>2, <2>1, CoverageIs
  <2> QED BY <1>1, <1>3, <2>2, SeenFacts DEF Area
<1>4. CASE h # 0
  <2>1. h \in Handles /\ h \in Items /\ h \in d.on
    BY <1>1, <1>4, SeenFacts, ItemKinds DEF Ports
  <2>2. c \in Cells(Cover(d, h)) /\ c \notin Coverage(d, d.over[h])
    BY <1>1, <2>1, SeenFacts
  <2>3. /\ h \in e.on /\ e.over[h] \subseteq d.over[h] /\ e.over[h] \subseteq e.on
        /\ e.outer[h] = d.outer[h]
    BY <1>1, <1>4, <2>1 DEF Spared, Ordered
  <2>4. c \notin Coverage(e, e.over[h])
    BY <1>2, <2>2, <2>3, CoverageIs
  <2>5. c \in Cells(Cover(e, h))
    BY <1>2, <2>2, <2>3
  <2> QED BY <1>1, <2>3, <2>4, <2>5, SeenFacts DEF Area
<1> QED BY <1>3, <1>4

\* A step of an application that answers: what a cell shows stays, and what
\* was owed there still is.
LEMMA AnswerRight ==
    ASSUME Sound(desk), desk' = desk, NEW c \in Cells(Screen),
           screen'.pixels[c] = screen.pixels[c], Right(c),
           \A b \in Clients, h \in Ports :
              /\ OwnerOf(desk, h) = b /\ Seen(desk, c) = h /\ c \in Cells(Area(desk, h))
              /\ Owed(b, h, c)
              => Owed(b, h, c)'
    PROVE  Right(c)'
<1>1. Seen(desk, c) = 0 => DesktopRight(c)'
  <2> SUFFICES ASSUME Seen(desk, c) = 0
               PROVE  DesktopRight(c)'
    OBVIOUS
  <2>1. DesktopRight(c)
    BY DEF Right
  <2>2. CASE screen.pixels[c] = Desk \/ desk.desktop = Nobody
    BY <2>1, <2>2 DEF DesktopRight
  <2>3. CASE ~(screen.pixels[c] = Desk \/ desk.desktop = Nobody)
    <3>1. screen.pixels[c] = Checker /\ Owed(desk.desktop, 0, c)
      BY <2>1, <2>3 DEF DesktopRight
    <3>2. PICK b \in Clients : b = desk.desktop
      BY <2>3 DEF Sound, Desks
    <3>3. /\ 0 \in Ports /\ OwnerOf(desk, 0) = b /\ Area(desk, 0) = Screen
          /\ Owed(b, 0, c)
      BY <3>1, <3>2 DEF Ports, OwnerOf, Area
    <3>4. Owed(b, 0, c)'
      BY <3>3
    <3> QED BY <3>1, <3>2, <3>4 DEF DesktopRight, Owed
  <2> QED BY <2>2, <2>3
<1>2. Seen(desk, c) = Form => (desk.tree => screen'.pixels[c] = FormCell)
  BY DEF Right
<1>3. ASSUME NEW h \in Handles, Seen(desk, c) = h
      PROVE  WindowRight(h, c)'
  <2>1. WindowRight(h, c)
    BY <1>3 DEF Right
  <2>2. CASE ~(c \in Cells(Work(desk.outer[h])) /\ Owed(desk.owner[h], h, c))
    BY <2>1, <2>2 DEF WindowRight
  <2>3. CASE c \in Cells(Work(desk.outer[h])) /\ Owed(desk.owner[h], h, c)
    <3>1. h \in desk.on
      BY <1>3, SeenFacts, ItemKinds DEF Sound
    <3>2. PICK b \in Clients : b = desk.owner[h]
      BY <3>1, OnFacts
    <3>3. /\ h \in Ports /\ OwnerOf(desk, h) = b /\ c \in Cells(Area(desk, h))
          /\ Owed(b, h, c)
      BY <2>3, <3>2, ItemKinds DEF Ports, OwnerOf, Area
    <3>4. Owed(b, h, c)'
      BY <1>3, <3>3
    <3> QED BY <2>3, <3>2, <3>4 DEF WindowRight, Owed
  <2> QED BY <2>2, <2>3
<1> QED BY <1>1, <1>2, <1>3 DEF Right

\* A change of the windows leaves nothing stale.
LEMMA ReshapingStale ==
    ASSUME StackIInv, StaleIInv, "raise" \notin Careless, Reshaping
    PROVE  StaleIInv'
<1>1. /\ Sound(desk) /\ Sound(desk') /\ screen \in Screens
      /\ Follows(Cells(Screen), desk, screen, desk', screen')
      /\ client' = client /\ ~Locked
      /\ \A a \in Clients, h \in Handles :
            desk.owner[h] = a /\ client[a] # Idle => desk'.owner[h] = a
  BY ReshapingRedraws DEF Redrawn, StackIInv
<1>2. Mine'
  <2>1. \A a \in Clients, h \in Handles : client[a].window = h => client[a] # Idle
    BY IdleType, ItemKinds
  <2> QED BY <1>1, <2>1 DEF StaleIInv, Mine
<1>3. Held'
  BY <1>1 DEF Held, Locked
<1>4. InPlace'
  <2> DEFINE X == {}
  <2>1. /\ InPlace
        /\ \A a \in Clients, h \in Handles : client'[a].window = h => desk'.owner[h] = a
    BY <1>2 DEF StaleIInv, Mine
  <2>2. /\ \A b \in Clients : b \notin X => client'[b] = client[b]
        /\ \A b \in X : client'[b].window = Nobody
    BY <1>1
  <2> HIDE DEF X
  <2> QED BY <1>1, <2>1, <2>2, FollowsInPlace
<1>5. \A c \in Cells(Screen) : Right(c)
  BY <1>1, StaleIs DEF StaleIInv
<1>6. ASSUME NEW c \in Cells(Screen)
      PROVE  Right(c)'
  <2>1. Right(c)
    BY <1>5
  <2> DEFINE X == {}
  <2>2. /\ \A b \in Clients : b \notin X => client'[b] = client[b]
        /\ desk'.desktop \notin X /\ \A h \in Handles : desk'.owner[h] \notin X
    BY <1>1
  <2> HIDE DEF X
  <2> QED BY <1>1, <2>1, <2>2, FollowsRight
<1>7. NothingStale'
  <2>1. (Sound(desk) => (NothingStale <=> \A c \in Cells(Screen) : Right(c)))'
    BY StaleIs, PTL
  <2> QED BY <1>1, <1>6, <2>1
<1> QED BY <1>2, <1>3, <1>4, <1>7 DEF StaleIInv

\* An exit leaves nothing stale: what it uncovers is redrawn.
LEMMA CleanupStale ==
    ASSUME StackIInv, StaleIInv, NEW a \in Clients, CleanupApp(a)
    PROVE  StaleIInv'
<1>1. Sound(desk) /\ screen \in Screens
  BY DEF StackIInv
<1>2. /\ Sound(desk') /\ Spared(desk, desk', a)
      /\ desk'.desktop # a /\ \A h \in Handles : desk'.owner[h] # a
  BY <1>1, CleanupRedraws
<1>3. PICK s : /\ Follows(Cells(Screen), desk, screen, desk', s)
               /\ screen' = [s EXCEPT !.mail = Purged(@, a)]
  BY <1>1, CleanupRedraws
<1>4. client'[a] = Idle /\ \A b \in Clients : b # a => client'[b] = client[b]
  BY CleanupLeaves
<1>5. screen'.pixels = s.pixels /\ \A b \in Clients : b # a => screen'.mail[b] = s.mail[b]
  BY <1>3, CleanedScreen DEF Follows
<1>6. Mine'
  <2> SUFFICES ASSUME NEW b \in Clients, NEW h \in Handles, client'[b].window = h
               PROVE  desk'.owner[h] = b
    BY DEF Mine
  <2>1. b # a
    BY <1>4, IdleType, ItemKinds
  <2>2. desk.owner[h] = b
    BY <1>4, <2>1 DEF StaleIInv, Mine
  <2> QED BY <1>2, <2>1, <2>2 DEF Spared
<1>7. Held'
  <2> SUFFICES ASSUME NEW b \in Clients, client'[b].locked,
                      NEW c \in Shows(client'[b].left)
               PROVE  /\ Seen(desk', c) = client'[b].window
                      /\ c \in Cells(Area(desk', client'[b].window))
    BY DEF Held
  <2>1. b # a /\ client'[b] = client[b]
    BY <1>4, IdleType
  <2>2. /\ Seen(desk, c) = client[b].window /\ c \in Cells(Area(desk, client[b].window))
        /\ client[b].window # Nobody
    BY <2>1 DEF StaleIInv, Held, StackIInv, OneLocked
  <2>3. client[b].window \in Ports
    BY <2>2 DEF StackIInv, ClientRecords
  <2>4. client[b].window # 0 => desk.owner[client[b].window] # a
    BY <2>1, <2>3 DEF StaleIInv, Mine, Ports
  <2>5. /\ Seen(desk', c) = client[b].window
        /\ Area(desk', client[b].window) = Area(desk, client[b].window)
    BY <1>1, <1>2, <2>2, <2>3, <2>4, SparedSeen
  <2> QED BY <2>1, <2>2, <2>5
<1>8. InPlace'
  <2> DEFINE X == {a}
  <2>1. \A b \in X : client'[b].window = Nobody
    BY <1>4, IdleType
  <2>2. \A b \in Clients : b \notin X =>
           screen'.mail[b] = s.mail[b] /\ client'[b] = client[b]
    BY <1>4, <1>5
  <2>3. /\ InPlace
        /\ \A b \in Clients, h \in Handles : client'[b].window = h => desk'.owner[h] = b
    BY <1>6 DEF StaleIInv, Mine
  <2> HIDE DEF X
  <2> QED BY <1>1, <1>2, <1>3, <2>1, <2>2, <2>3, FollowsInPlace
<1>9. \A c \in Cells(Screen) : Right(c)
  BY <1>1, StaleIs DEF StaleIInv
<1>10. ASSUME NEW c \in Cells(Screen)
       PROVE  Right(c)'
  <2>1. Right(c)
    BY <1>9
  <2>2. \A b \in Clients : b \notin {a} =>
           screen'.mail[b] = s.mail[b] /\ client'[b] = client[b]
    BY <1>4, <1>5
  <2>3. desk'.desktop \notin {a} /\ \A h \in Handles : desk'.owner[h] \notin {a}
    BY <1>2
  <2> QED BY <1>1, <1>2, <1>3, <1>5, <2>1, <2>2, <2>3, FollowsRight
<1>11. NothingStale'
  <2>1. (Sound(desk) => (NothingStale <=> \A c \in Cells(Screen) : Right(c)))'
    BY StaleIs, PTL
  <2> QED BY <1>2, <1>10, <2>1
<1> QED BY <1>6, <1>7, <1>8, <1>11 DEF StaleIInv

\* Taking a redraw message moves what is owed from queue to application.
LEMMA TakeStale ==
    ASSUME StackIInv, StaleIInv, NEW a \in Clients, NEW h \in Ports, TakeRedraw(a, h)
    PROVE  StaleIInv'
<1>1. /\ desk' = desk /\ client[a] = Idle /\ ~Locked /\ screen'.pixels = screen.pixels
      /\ \A b \in Clients, k \in Ports :
            b # a \/ k # h => screen'.mail[b][k] = screen.mail[b][k]
      /\ \A b \in Clients : b # a => client'[b] = client[b]
  BY TakeIs
<1>2. \/ client'[a] = Idle /\ OwnerOf(desk, h) # a
      \/ /\ client'[a].window = h /\ client'[a].dirty = screen.mail[a][h]
         /\ client'[a].at = Area(desk, h) /\ ~client'[a].locked
         /\ h = 0 \/ OwnerOf(desk, h) = a
  BY <1>1, TakeIs
<1>3. Sound(desk) /\ Idle.window = Nobody /\ ~Idle.locked
  BY IdleType DEF StackIInv
<1>4. Mine'
  <2> SUFFICES ASSUME NEW b \in Clients, NEW k \in Handles, client'[b].window = k
               PROVE  desk.owner[k] = b
    BY <1>1 DEF Mine
  <2>1. CASE b = a
    <3>1. k = h /\ h # 0 /\ OwnerOf(desk, h) = a
      BY <1>2, <1>3, <2>1, ItemKinds
    <3> QED BY <2>1, <3>1 DEF OwnerOf
  <2>2. CASE b # a
    BY <1>1, <2>2 DEF StaleIInv, Mine
  <2> QED BY <2>1, <2>2
<1>5. Held'
  <2>1. \A b \in Clients : ~client'[b].locked
    BY <1>1, <1>2, <1>3 DEF Locked
  <2> QED BY <2>1 DEF Held
<1>6. InPlace'
  <2> SUFFICES ASSUME NEW b \in Clients, NEW k \in Handles, k \in desk.on,
                      client'[b].window = k, client'[b].at # Work(desk.outer[k]),
                      NEW c \in Cells(Screen), c \in Cells(Work(desk.outer[k])),
                      Seen(desk, c) = k
               PROVE  c \in Cells(screen'.mail[b][k])
    BY <1>1 DEF InPlace
  <2>1. CASE b = a
    <3>1. k = h /\ client'[a].at = Area(desk, h)
      BY <1>2, <1>3, <2>1, ItemKinds
    <3> QED BY <2>1, <3>1, ItemKinds DEF Area
  <2>2. CASE b # a
    <3>1. screen'.mail[b][k] = screen.mail[b][k] /\ client'[b] = client[b]
      BY <1>1, <2>2 DEF Ports
    <3> QED BY <3>1 DEF StaleIInv, InPlace
  <2> QED BY <2>1, <2>2
<1>7. ASSUME NEW c \in Cells(Screen), NEW b \in Clients, NEW k \in Ports,
             OwnerOf(desk, k) = b, Owed(b, k, c)
      PROVE  Owed(b, k, c)'
  <2>1. CASE b # a
    <3>1. screen'.mail[b][k] = screen.mail[b][k] /\ client'[b] = client[b]
      BY <1>1, <2>1
    <3> QED BY <1>1, <1>7, <3>1 DEF Owed
  <2>2. CASE b = a
    <3>1. c \in Cells(screen.mail[a][k])
      BY <1>1, <1>3, <1>7, <2>2, ItemKinds DEF Owed, Ports
    <3>2. CASE k = h
      BY <1>1, <1>2, <1>7, <2>2, <3>1, <3>2 DEF Owed
    <3>3. CASE k # h
      BY <1>1, <2>2, <3>1, <3>3 DEF Owed
    <3> QED BY <3>2, <3>3
  <2> QED BY <2>1, <2>2
<1>8. ASSUME NEW c \in Cells(Screen)
      PROVE  Right(c)'
  <2>1. Right(c)
    BY <1>3, StaleIs DEF StaleIInv
  <2> QED BY <1>1, <1>3, <1>7, <2>1, AnswerRight
<1>9. NothingStale'
  <2>1. (Sound(desk) => (NothingStale <=> \A c \in Cells(Screen) : Right(c)))'
    BY StaleIs, PTL
  <2> QED BY <1>1, <1>3, <1>8, <2>1
<1> QED BY <1>4, <1>5, <1>6, <1>9 DEF StaleIInv

\* Listing the visible rectangles forgets no cell that is owed.
LEMMA BeginStale ==
    ASSUME StackIInv, StaleIInv, NEW a \in Clients, BeginRedraw(a)
    PROVE  StaleIInv'
<1> DEFINE h == client[a].window
<1>1. /\ desk' = desk /\ screen' = screen /\ ~Locked /\ h \in Ports
      /\ \A b \in Clients : b # a => client'[b] = client[b]
  BY BeginIs
<1>2. \/ client'[a] = Idle /\ Enumerated(desk, h) = {}
      \/ /\ client'[a].window = h /\ client'[a].dirty = client[a].dirty
         /\ client'[a].at = client[a].at /\ client'[a].locked
         /\ client'[a].left = Enumerated(desk, h)
  BY BeginIs
<1> HIDE DEF h
<1>3. Sound(desk) /\ Idle.window = Nobody /\ ~Idle.locked
  BY IdleType DEF StackIInv
<1>4. \A c : c \in Shows(Enumerated(desk, h))
             <=> Seen(desk, c) = h /\ c \in Cells(Area(desk, h))
  BY <1>1, <1>3, EnumeratedFacts
<1>5. Mine'
  <2> SUFFICES ASSUME NEW b \in Clients, NEW k \in Handles, client'[b].window = k
               PROVE  desk.owner[k] = b
    BY <1>1 DEF Mine
  <2>1. client[b].window = k
    BY <1>1, <1>2, <1>3, ItemKinds DEF h
  <2> QED BY <2>1 DEF StaleIInv, Mine
<1>6. Held'
  <2> SUFFICES ASSUME NEW b \in Clients, client'[b].locked,
                      NEW c \in Shows(client'[b].left)
               PROVE  /\ Seen(desk, c) = client'[b].window
                      /\ c \in Cells(Area(desk, client'[b].window))
    BY <1>1 DEF Held
  <2>1. b = a
    BY <1>1 DEF Locked
  <2>2. client'[a].window = h /\ client'[a].left = Enumerated(desk, h)
    BY <1>2, <1>3, <2>1
  <2> QED BY <1>4, <2>1, <2>2
<1>7. InPlace'
  <2> SUFFICES ASSUME NEW b \in Clients, NEW k \in Handles, k \in desk.on,
                      client'[b].window = k, client'[b].at # Work(desk.outer[k]),
                      NEW c \in Cells(Screen), c \in Cells(Work(desk.outer[k])),
                      Seen(desk, c) = k
               PROVE  c \in Cells(screen.mail[b][k])
    BY <1>1 DEF InPlace
  <2>1. client[b].window = k /\ client'[b].at = client[b].at
    BY <1>1, <1>2, <1>3, ItemKinds DEF h
  <2> QED BY <2>1 DEF StaleIInv, InPlace
<1>8. ASSUME NEW c \in Cells(Screen), NEW b \in Clients, NEW k \in Ports,
             Seen(desk, c) = k, c \in Cells(Area(desk, k)), Owed(b, k, c)
      PROVE  Owed(b, k, c)'
  <2>1. CASE b # a
    BY <1>1, <1>8, <2>1 DEF Owed
  <2>2. CASE b = a /\ c \in Cells(screen.mail[b][k])
    BY <1>1, <2>2 DEF Owed
  <2>3. CASE b = a /\ c \notin Cells(screen.mail[b][k])
    <3>1. h = k /\ c \in Cells(client[a].dirty) /\ client[a].at = Area(desk, k)
      BY <1>8, <2>3 DEF Owed, h
    <3>2. c \in Shows(Enumerated(desk, h))
      BY <1>4, <1>8, <3>1
    <3>3. Enumerated(desk, h) # {}
      BY <3>2 DEF Shows
    <3> QED BY <1>1, <1>2, <2>3, <3>1, <3>2, <3>3 DEF Owed
  <2> QED BY <2>1, <2>2, <2>3
<1>9. ASSUME NEW c \in Cells(Screen)
      PROVE  Right(c)'
  <2>1. Right(c)
    BY <1>3, StaleIs DEF StaleIInv
  <2> QED BY <1>1, <1>3, <1>8, <2>1, AnswerRight
<1>10. NothingStale'
  <2>1. (Sound(desk) => (NothingStale <=> \A c \in Cells(Screen) : Right(c)))'
    BY StaleIs, PTL
  <2> QED BY <1>1, <1>3, <1>9, <2>1
<1> QED BY <1>5, <1>6, <1>7, <1>10 DEF StaleIInv

\* Drawing a rectangle pays for its cells and touches no other window.
LEMMA DrawStale ==
    ASSUME StackIInv, StaleIInv, NEW a \in Clients, NEW r \in client[a].left,
           DrawNext(a, r)
    PROVE  StaleIInv'
<1> DEFINE q == client[a]
           h == q.window
           clip == Within(Within(r, q.dirty), q.at)
<1>1. /\ desk' = desk /\ q.locked
      /\ \A b \in Clients : b # a => client'[b] = client[b]
  BY DrawLeaves
<1>2. \/ client'[a] = Idle /\ q.left = {r}
      \/ /\ client'[a].window = h /\ client'[a].dirty = q.dirty /\ client'[a].at = q.at
         /\ client'[a].locked /\ client'[a].left = q.left \ {r}
  BY DrawLeaves
<1>3. /\ Sound(desk) /\ screen \in Screens /\ client \in [Clients -> ClientRecords]
      /\ h # Nobody
      /\ \A b \in Clients : client[b].locked => b = a
  BY <1>1 DEF StackIInv, OneLocked
<1>4. /\ screen' \in Screens /\ screen'.mail = screen.mail
      /\ Cells(clip) = Cells(r) \cap Cells(q.dirty) \cap Cells(q.at)
      /\ \A c \in Cells(Screen) : c \notin Cells(clip) =>
            screen'.pixels[c] = screen.pixels[c]
      /\ \A c \in Cells(Screen) \cap Cells(clip) : h = 0 => screen'.pixels[c] = Desk
      /\ \A c \in Cells(Screen) \cap Cells(clip) : h # 0 =>
            screen'.pixels[c] = WorkCell(h, c[1] - q.at.x, c[2] - q.at.y)
  BY <1>3, DrawnIs
<1>5. h \in Ports
  BY <1>3 DEF ClientRecords
<1>6. \A c \in Shows(q.left) : Seen(desk, c) = h /\ c \in Cells(Area(desk, h))
  BY <1>1 DEF StaleIInv, Held
<1>7. \A c \in Cells(r) : c \in Shows(q.left)
  BY DEF Shows
<1>8. Idle.window = Nobody /\ ~Idle.locked
  BY IdleType
<1>9. Mine'
  <2> SUFFICES ASSUME NEW b \in Clients, NEW k \in Handles, client'[b].window = k
               PROVE  desk.owner[k] = b
    BY <1>1 DEF Mine
  <2>1. client[b].window = k
    BY <1>1, <1>2, <1>8, ItemKinds
  <2> QED BY <2>1 DEF StaleIInv, Mine
<1>10. Held'
  <2> SUFFICES ASSUME NEW b \in Clients, client'[b].locked,
                      NEW c \in Shows(client'[b].left)
               PROVE  /\ Seen(desk, c) = client'[b].window
                      /\ c \in Cells(Area(desk, client'[b].window))
    BY <1>1 DEF Held
  <2>1. b = a
    BY <1>1, <1>3
  <2>2. client'[a].window = h /\ c \in Shows(q.left)
    BY <1>2, <1>8, <2>1 DEF Shows
  <2> QED BY <1>6, <2>1, <2>2
<1>11. InPlace'
  <2> SUFFICES ASSUME NEW b \in Clients, NEW k \in Handles, k \in desk.on,
                      client'[b].window = k, client'[b].at # Work(desk.outer[k]),
                      NEW c \in Cells(Screen), c \in Cells(Work(desk.outer[k])),
                      Seen(desk, c) = k
               PROVE  c \in Cells(screen.mail[b][k])
    BY <1>1, <1>4 DEF InPlace
  <2>1. client[b].window = k /\ client'[b].at = client[b].at
    BY <1>1, <1>2, <1>8, ItemKinds
  <2> QED BY <2>1 DEF StaleIInv, InPlace
<1> HIDE DEF clip
<1>12. ASSUME NEW c \in Cells(Screen), c \notin Cells(clip), NEW b \in Clients,
              NEW k \in Ports, c \in Cells(Area(desk, k)), Owed(b, k, c)
       PROVE  Owed(b, k, c)'
  <2>1. CASE b # a
    BY <1>1, <1>4, <1>12, <2>1 DEF Owed
  <2>2. CASE b = a /\ c \in Cells(screen.mail[b][k])
    BY <1>4, <2>2 DEF Owed
  <2>3. CASE b = a /\ c \notin Cells(screen.mail[b][k])
    <3>1. /\ h = k /\ c \in Cells(q.dirty) /\ q.at = Area(desk, k)
          /\ c \in Shows(q.left)
      BY <1>1, <1>12, <2>3 DEF Owed
    <3>2. c \notin Cells(r)
      BY <1>4, <1>12, <3>1
    <3>3. q.left # {r} /\ c \in Shows(q.left \ {r})
      BY <3>1, <3>2 DEF Shows
    <3> HIDE DEF h, q
    <3> QED BY <1>1, <1>2, <2>3, <3>1, <3>3 DEF Owed
  <2> QED BY <2>1, <2>2, <2>3
<1>13. ASSUME NEW c \in Cells(Screen)
       PROVE  Right(c)'
  <2>1. Right(c)
    BY <1>3, StaleIs DEF StaleIInv
  <2>2. CASE c \notin Cells(clip)
    BY <1>1, <1>3, <1>4, <1>12, <2>1, <2>2, AnswerRight
  <2>3. CASE c \in Cells(clip)
    <3>1. /\ Seen(desk, c) = h /\ c \in Cells(Area(desk, h))
          /\ c \in Cells(q.at)
      BY <1>4, <1>6, <1>7, <2>3
    <3> HIDE DEF h, q
    <3>2. CASE h = 0
      <4>1. screen'.pixels[c] = Desk
        BY <1>4, <2>3, <3>2
      <4> QED BY <1>1, <3>1, <3>2, <4>1, ItemKinds DEF Right, DesktopRight
    <3>3. CASE h # 0
      <4>1. /\ h \in Handles /\ h \in desk.on /\ Area(desk, h) = Work(desk.outer[h])
            /\ h # Form
        BY <1>3, <1>5, <3>1, <3>3, SeenFacts, ItemKinds DEF Ports, Area, Sound
      <4>2. screen'.pixels[c] = WorkCell(h, c[1] - q.at.x, c[2] - q.at.y)
        BY <1>4, <2>3, <3>3
      <4>3. PICK k \in Handles : k = h
        BY <4>1
      <4>4. WindowRight(k, c)'
        <5>1. CASE q.at = Work(desk.outer[k])
          BY <1>1, <3>1, <4>1, <4>2, <4>3, <5>1 DEF WindowRight
        <5>2. CASE q.at # Work(desk.outer[k])
          <6>1. desk.owner[k] = a
            BY <4>3 DEF StaleIInv, Mine, h, q
          <6>2. c \in Cells(screen.mail[a][k])
            BY <3>1, <4>1, <4>3, <5>2 DEF StaleIInv, InPlace, h, q
          <6>3. Owed(a, k, c)'
            BY <1>4, <6>2 DEF Owed
          <6> QED BY <1>1, <3>1, <4>1, <4>3, <6>1, <6>3 DEF WindowRight, Owed
        <5> QED BY <5>1, <5>2
      <4> QED BY <1>1, <3>1, <3>3, <4>1, <4>3, <4>4, ItemKinds DEF Right
    <3> QED BY <3>2, <3>3
  <2> QED BY <2>2, <2>3
<1>14. NothingStale'
  <2>1. (Sound(desk) => (NothingStale <=> \A c \in Cells(Screen) : Right(c)))'
    BY StaleIs, PTL
  <2> QED BY <1>1, <1>3, <1>13, <2>1
<1> QED BY <1>9, <1>10, <1>11, <1>14 DEF StaleIInv

\* Nothing is stale at first.
LEMMA StaleInitHolds == StackInit => StaleIInv
<1> SUFFICES ASSUME StackInit
             PROVE  StaleIInv
  OBVIOUS
<1>1. Sound(desk)
  BY StackInitHolds DEF StackIInv
<1>2. \A a \in Clients : client[a].window = Nobody /\ ~client[a].locked
  BY IdleType DEF StackInit
<1>3. Mine /\ Held /\ InPlace
  <2>1. Mine
    BY <1>2, ItemKinds DEF Mine
  <2>2. Held
    BY <1>2 DEF Held
  <2>3. InPlace
    BY <1>2, ItemKinds DEF InPlace
  <2> QED BY <2>1, <2>2, <2>3
<1>4. ASSUME NEW c \in Cells(Screen)
      PROVE  Right(c)
  <2>1. desk.on = {} /\ desk.desktop = Desktop
        /\ screen.pixels[c] = IF Desktop = Nobody THEN Checker ELSE Desk
    BY DEF StackInit
  <2>2. Seen(desk, c) = 0
    BY <1>1, <2>1, SeenFacts DEF Sound
  <2>3. DesktopRight(c)
    BY <2>1 DEF DesktopRight
  <2> QED BY <2>2, <2>3, ItemKinds DEF Right
<1>5. NothingStale
  BY <1>1, <1>4, StaleIs
<1> QED BY <1>3, <1>5 DEF StaleIInv

\* No step leaves anything stale.
LEMMA StaleInductive ==
    ASSUME "raise" \notin Careless
    PROVE  StackIInv /\ StaleIInv /\ [StackNext]_stackVars => StaleIInv'
<1> SUFFICES ASSUME StackIInv, StaleIInv, [StackNext]_stackVars
             PROVE  StaleIInv'
  OBVIOUS
<1>1. CASE Reshaping
  BY <1>1, ReshapingStale
<1>2. ASSUME NEW a \in Clients, BeginRedraw(a)
      PROVE  StaleIInv'
  BY <1>2, BeginStale
<1>3. ASSUME NEW a \in Clients, CleanupApp(a)
      PROVE  StaleIInv'
  BY <1>3, CleanupStale
<1>4. ASSUME NEW a \in Clients, NEW h \in Ports, TakeRedraw(a, h)
      PROVE  StaleIInv'
  BY <1>4, TakeStale
<1>5. ASSUME NEW a \in Clients, NEW r \in client[a].left, DrawNext(a, r)
      PROVE  StaleIInv'
  BY <1>5, DrawStale
<1>6. CASE UNCHANGED stackVars
  <2>1. desk' = desk /\ screen' = screen /\ client' = client
    BY <1>6 DEF stackVars
  <2>2. NothingStale'
    BY <2>1 DEF StaleIInv, NothingStale, DesktopRight, WindowRight, Owed
  <2>3. Mine' /\ Held' /\ InPlace'
    BY <2>1 DEF StaleIInv, Mine, Held, InPlace
  <2> QED BY <2>2, <2>3 DEF StaleIInv
<1> QED BY <1>1, <1>2, <1>3, <1>4, <1>5, <1>6, StackSteps

\* Whatever the windows, the screen, the order of opening, raising, dragging,
\* closing and leaving, and the moments at which applications answer, a cell
\* shows what is on top there or its drawing is still owed (SECURITY_AUDIT.md
\* 211, window_redraw.c 350-368 and 485-503) -- but for a window raised from
\* under a mere shadow or the form ("raise"), which nobody draws again.
THEOREM NothingIsStale ==
    ASSUME "raise" \notin Careless
    PROVE  StackSpec => []NothingStale
<1>1. StackIInv /\ StaleIInv /\ [StackNext]_stackVars => StaleIInv'
  BY StaleInductive
<1>2. StaleIInv => NothingStale
  BY DEF StaleIInv
<1> QED BY <1>1, <1>2, StaleInitHolds, StackInvariant, PTL DEF StackSpec
=============================================================================
