-------------------------- MODULE VdiScreen_proofs --------------------------
(***************************************************************************)
(* The display shows what was drawn, for a screen, a pointer and hot spots  *)
(* of any size and any nesting of updates.                                  *)
(*                                                                          *)
(* ShownIsDrawn compares what is shown with what was asked for; the drawing *)
(* goes through a surface that also holds the pointer, and may wait there.  *)
(* ScreenInv follows it:                                                    *)
(*   Kept     but under the pointer the surface is the picture, and what    *)
(*            the pointer covers was saved from it                          *)
(*   Sound    the presenter has been told where the surface's pointer is    *)
(*   Covered  what is not shown yet, or a pointer shown where the surface   *)
(*            has it no longer, is in the dirty rectangle                   *)
(*   Current  unless a presentation is pending everything is shown          *)
(* Covered is about the surface's pointer (Under), Current about the place  *)
(* where one may be seen (Place): AES shows a region it has painted without *)
(* drawing the pointer again, so its old image stays, and stays marked.     *)
(* The operators take a state to a state, so each has a lemma about any     *)
(* state and any picture; an action is one or two of them.  Exposed names   *)
(* the calls that may draw under the pointer, which the code does not keep  *)
(* from it: the theorems are about behaviours without them.                 *)
(***************************************************************************)
EXTENDS VdiScreen, WellFoundedInduction, TLAPS

USE ScreenAssumption DEF ScreenAssumption, Cells

Pictures == [Cells -> Colours]

\* Where the surface holds the pointer, and where the display may.
Under(s) == IF s.drawn THEN Box(s.at) ELSE {}
Place(s) == IF s.hidden THEN {} ELSE Box(s.at)

\* The surface is the picture but under the pointer, where it was saved.
Kept(s, pic) ==
    /\ s.drawn => ~s.hidden
    /\ \A c \in Cells : IF c \in Under(s)
                        THEN s.surface[c] = Pointer /\ s.saved[c] = pic[c]
                        ELSE s.surface[c] = pic[c]

Sound(s, pic) == Kept(s, pic) /\ s.masked = Under(s)

\* What a cell should show of a picture, or of the pointer in a place.
Due(pic, c) == IF c \in Layered THEN Layer ELSE pic[c]
Fits(s, pic, c, place) ==
    s.shown[c] = Due(pic, c) \/ (c \in place /\ s.shown[c] = Pointer)

\* What does not show is marked.
Covered(s, pic) ==
    ~s.replaced => \A c \in Cells : c \in s.dirty \/ Fits(s, pic, c, Under(s))

\* Everything shows.
Current(s, pic) ==
    ~s.replaced => \A c \in Cells : Fits(s, pic, c, Place(s))

Good(s, pic) ==
    /\ Sound(s, pic) /\ Covered(s, pic)
    /\ s.pending => s.depth > 0
    /\ ~s.pending => Current(s, pic)

ScreenInv == ScreenTypeOK /\ Good(vdi, canvas)

-----------------------------------------------------------------------------

\* A set of naturals has a least element, and a least one from above.
LEMMA LeastCell ==
    ASSUME NEW T, T \subseteq Nat, T # {}
    PROVE  \E x \in T : \A y \in T : x <= y
<1> DEFINE Less == OpToRel(<, Nat)
<1>1. IsWellFoundedOn(Less, Nat)
  BY NatLessThanWellFounded
<1>2. \A x, y \in Nat : <<y, x>> \in Less <=> y < x
  BY DEF OpToRel
<1> HIDE DEF Less
<1>3. PICK x \in T : \A y \in T : <<y, x>> \notin Less
  BY <1>1, WFMin
<1>4. \A y \in T : x <= y
  <2> TAKE y \in T
  <2>1. x \in Nat /\ y \in Nat
    BY <1>3
  <2>2. ~(y < x)
    BY <1>2, <1>3, <2>1, Zenon
  <2>3. \A m, n \in Nat : ~(n < m) => m <= n
    OBVIOUS
  <2> QED
    BY <2>1, <2>2, <2>3, Zenon
<1> QED
  BY <1>4

\* The dirty rectangle covers what is marked.
LEMMA HullFacts ==
    ASSUME NEW S \in SUBSET Cells
    PROVE  /\ Hull(S) \in Intervals \cup {{}} /\ Hull(S) \in SUBSET Cells
           /\ S \subseteq Hull(S)
<1>1. CASE S = {}
  BY <1>1 DEF Hull
<1>2. CASE S # {}
  <2>1. Min(S) \in S /\ \A y \in S : Min(S) <= y
    <3>1. S \subseteq Nat
      OBVIOUS
    <3>2. \E x \in S : \A y \in S : x <= y
      BY <1>2, <3>1, LeastCell
    <3> QED
      BY <3>2 DEF Min
  <2>2. Max(S) \in S /\ \A y \in S : Max(S) >= y
    <3> DEFINE T == {Width - y : y \in S}
    <3>0. \A y \in S : Width - y \in Nat
      OBVIOUS
    <3>1. T \subseteq Nat /\ T # {}
      BY <1>2, <3>0
    <3>2. PICK x \in T : \A y \in T : x <= y
      BY <3>1, LeastCell
    <3>3. PICK z \in S : x = Width - z
      BY <3>2
    <3>4. \A y \in S : z >= y
      <4> TAKE y \in S
      <4>1. Width - y \in T
        OBVIOUS
      <4>2. Width - z <= Width - y
        BY <3>2, <3>3, <4>1
      <4> QED
        BY <4>2, y \in 1..Width, z \in 1..Width
    <3> QED
      BY <3>4 DEF Max
  <2> DEFINE i == Min(S)
             j == Max(S)
  <2>3. i \in Cells /\ j \in Cells
    BY <2>1, <2>2
  <2>4. Hull(S) = {c \in Cells : i <= c /\ c <= j}
    <3> HIDE DEF i, j
    <3>1. i..j = {c \in Cells : i <= c /\ c <= j}
      BY <2>3
    <3> QED
      BY <1>2, <3>1 DEF Hull, i, j
  <2>5. {c \in Cells : i <= c /\ c <= j} \in Intervals \cup {{}}
    <3> HIDE DEF i, j
    <3> QED
      BY <2>3 DEF Intervals
  <2>6. S \subseteq {c \in Cells : i <= c /\ c <= j}
    BY <2>1, <2>2
  <2> QED
    BY <2>4, <2>5, <2>6
<1> QED
  BY <1>1, <1>2

\* All these are cells, and what is presented around the pointer has its box.
LEMMA PlaceFacts ==
    /\ \A x \in Int : Box(x) \in SUBSET Cells /\ Cleared(x) \in SUBSET Cells
    /\ \A x \in Int : Box(x) \subseteq Cleared(x)
    /\ Intervals \subseteq SUBSET Cells
BY DEF Box, Cleared, Intervals

-----------------------------------------------------------------------------

\* Nothing but where the pointer is drawn, and the marks, is another.
Alike(d, s) ==
    /\ d.mouse = s.mouse /\ d.hot = s.hot /\ d.at = s.at /\ d.hidden = s.hidden
    /\ d.depth = s.depth /\ d.pending = s.pending
    /\ d.shown = s.shown /\ d.replaced = s.replaced

\* A mark changes the dirty rectangle only, and covers what it should.
LEMMA MarkedFacts ==
    ASSUME NEW s \in Screens, NEW cells \in SUBSET Cells
    PROVE  LET d == Marked(s, cells)
           IN  /\ d \in Screens /\ Alike(d, s)
               /\ d.surface = s.surface /\ d.saved = s.saved
               /\ d.drawn = s.drawn /\ d.masked = s.masked
               /\ s.dirty \cup cells \subseteq d.dirty
<1>1. s.dirty \cup cells \in SUBSET Cells
  BY PlaceFacts DEF Screens
<1>2. /\ Hull(s.dirty \cup cells) \in Intervals \cup {{}}
      /\ s.dirty \cup cells \subseteq Hull(s.dirty \cup cells)
  BY <1>1, HullFacts
<1> QED
  BY <1>2 DEF Marked, Screens, Alike

\* The presenter's mask is then the place of the pointer.
LEMMA SyncedFacts ==
    ASSUME NEW s \in Screens, s.drawn => ~s.hidden
    PROVE  LET d == Synced(s)
           IN  /\ d \in Screens /\ Alike(d, s)
               /\ d.surface = s.surface /\ d.saved = s.saved
               /\ d.drawn = s.drawn /\ d.dirty = s.dirty
               /\ d.masked = Under(d)
<1>1. s.at \in Int
  BY DEF Screens
<1>2. Box(s.at) \in SUBSET Cells
  BY <1>1, PlaceFacts
<1> QED
  BY <1>2 DEF Synced, Screens, Alike, Under

\* Without the pointer the surface is the picture; where it was is marked.
LEMMA RestoredFacts ==
    ASSUME NEW s \in Screens, NEW pic \in Pictures, Kept(s, pic)
    PROVE  LET d == Restored(s)
           IN  /\ d \in Screens /\ Alike(d, s)
               /\ d.surface = pic /\ ~d.drawn
               /\ s.dirty \cup Under(s) \subseteq d.dirty
<1>1. CASE ~s.drawn
  <2>1. s.surface = pic
    BY <1>1 DEF Kept, Under, Screens, Pictures
  <2> QED
    BY <1>1, <2>1 DEF Restored, Alike, Under, Screens
<1>2. CASE s.drawn
  <2> DEFINE r == [s EXCEPT !.surface = [c \in Cells |->
                              IF c \in Box(s.at) THEN s.saved[c] ELSE @[c]],
                            !.drawn = FALSE]
  <2>1. [c \in Cells |-> IF c \in Box(s.at) THEN s.saved[c] ELSE s.surface[c]] = pic
    BY <1>2 DEF Kept, Under, Pictures
  <2>2. r = [s EXCEPT !.surface = pic, !.drawn = FALSE]
    BY <2>1
  <2>3. r \in Screens /\ Alike(r, s) /\ r.surface = pic /\ ~r.drawn /\ r.dirty = s.dirty
    BY <2>2 DEF Screens, Alike, Pictures
  <2>4. s.at \in Int
    BY DEF Screens
  <2>5. Box(s.at) \in SUBSET Cells
    BY <2>4, PlaceFacts
  <2> HIDE DEF r
  <2>6. LET d == Marked(r, Box(s.at))
        IN  /\ d \in Screens /\ Alike(d, r)
            /\ d.surface = r.surface /\ d.drawn = r.drawn
            /\ r.dirty \cup Box(s.at) \subseteq d.dirty
    BY <2>3, <2>5, MarkedFacts
  <2>7. Restored(s) = Marked(r, Box(s.at))
    BY <1>2 DEF Restored, r
  <2> QED
    BY <1>2, <2>3, <2>6, <2>7 DEF Alike, Under
<1> QED
  BY <1>1, <1>2

\* A surface without the pointer is the picture.
Bare(s, pic) == ~s.drawn /\ s.surface = pic /\ s.masked = {}

\* Nothing is under a pointer that is not drawn.
LEMMA BareFacts ==
    ASSUME NEW s \in Screens, NEW pic \in Pictures, Bare(s, pic)
    PROVE  Sound(s, pic) /\ Under(s) = {}
BY DEF Bare, Sound, Kept, Under

\* What every drawing call does first leaves the picture alone.
LEMMA PreparedFacts ==
    ASSUME NEW s \in Screens, NEW pic \in Pictures, Kept(s, pic)
    PROVE  LET d == Prepared(s)
           IN  /\ d \in Screens /\ Alike(d, s) /\ Bare(d, pic)
               /\ s.dirty \cup Under(s) \subseteq d.dirty
               /\ Covered(s, pic) => Covered(d, pic)
<1> DEFINE r == Restored(s)
<1>1. /\ r \in Screens /\ Alike(r, s)
      /\ r.surface = pic /\ ~r.drawn
      /\ s.dirty \cup Under(s) \subseteq r.dirty
  BY RestoredFacts
<1> HIDE DEF r
<1>2. LET d == Synced(r)
      IN  /\ d \in Screens /\ Alike(d, r)
          /\ d.surface = r.surface /\ d.saved = r.saved
          /\ d.drawn = r.drawn /\ d.dirty = r.dirty
          /\ d.masked = Under(d)
  BY <1>1, SyncedFacts
<1>3. Prepared(s) = Synced(r)
  BY DEF Prepared, r
<1> QED
  BY <1>1, <1>2, <1>3 DEF Alike, Bare, Under, Covered, Fits

\* The pointer is drawn over the picture, unless it is hidden.
LEMMA PointedFacts ==
    ASSUME NEW s \in Screens, NEW pic \in Pictures, Kept(s, pic)
    PROVE  LET d == Synced(Pointed(s))
           IN  /\ d \in Screens /\ Alike(d, s) /\ Sound(d, pic)
               /\ d.dirty = s.dirty /\ Under(d) = Place(d)
               /\ Under(s) \subseteq Under(d)
<1> DEFINE p == Pointed(s)
<1>1. s.at \in Int
  BY DEF Screens
<1>2. Box(s.at) \in SUBSET Cells
  BY <1>1, PlaceFacts
<1>3. /\ p \in Screens /\ Alike(p, s) /\ p.dirty = s.dirty
      /\ Kept(p, pic) /\ p.drawn = ~p.hidden
  <2>1. CASE s.hidden \/ s.drawn
    BY <2>1 DEF Pointed, Alike, Kept, Screens
  <2>2. CASE ~(s.hidden \/ s.drawn)
    <3> DEFINE under == [c \in Box(s.at) |-> s.surface[c]]
               over  == [c \in Cells |-> IF c \in Box(s.at) THEN Pointer ELSE s.surface[c]]
    <3>1. under \in [Box(s.at) -> Colours \cup {Pointer}]
      BY <1>2 DEF Screens
    <3>2. under \in UNION {[S -> Colours \cup {Pointer}] : S \in SUBSET Cells}
      BY <1>2, <3>1
    <3>3. over \in [Cells -> Colours \cup {Pointer}]
      BY DEF Screens
    <3>4. p = [s EXCEPT !.saved = under, !.surface = over, !.drawn = TRUE]
      BY <2>2 DEF Pointed
    <3>5. \A c \in Cells : s.surface[c] = pic[c]
      BY <2>2 DEF Kept, Under
    <3>6. \A c \in Cells :
             IF c \in Box(s.at) THEN over[c] = Pointer /\ under[c] = pic[c]
                                ELSE over[c] = pic[c]
      BY <3>5
    <3> HIDE DEF under, over, p
    <3>7. /\ p \in Screens /\ Alike(p, s) /\ p.dirty = s.dirty
          /\ p.saved = under /\ p.surface = over /\ p.drawn
      BY <3>2, <3>3, <3>4 DEF Screens, Alike
    <3> QED
      BY <2>2, <3>6, <3>7 DEF Kept, Under, Alike
  <2> QED
    BY <2>1, <2>2
<1> HIDE DEF p
<1>4. LET d == Synced(p)
      IN  /\ d \in Screens /\ Alike(d, p)
          /\ d.surface = p.surface /\ d.saved = p.saved
          /\ d.drawn = p.drawn /\ d.dirty = p.dirty
          /\ d.masked = Under(d)
  BY <1>3, SyncedFacts
<1>5. Synced(Pointed(s)) = Synced(p)
  BY DEF p
<1>6. s.drawn => ~s.hidden
  BY DEF Kept
<1> DEFINE d == Synced(p)
<1> HIDE DEF d
<1>7. /\ d \in Screens /\ Alike(d, s) /\ d.dirty = s.dirty
      /\ d.drawn = ~d.hidden /\ d.masked = Under(d)
      /\ d.surface = p.surface /\ d.saved = p.saved
  BY <1>3, <1>4 DEF Alike, d
<1>8. Under(d) = Place(d) /\ Under(s) \subseteq Under(d)
  BY <1>6, <1>7 DEF Under, Place, Alike
<1>9. Under(d) = Under(p)
  BY <1>3, <1>7 DEF Under, Alike
<1>10. Kept(d, pic)
  BY <1>3, <1>7, <1>9 DEF Kept
<1> QED
  BY <1>5, <1>7, <1>8, <1>10 DEF Sound, d

\* What is shown fits the picture; what is not stays.
LEMMA PublishedFacts ==
    ASSUME NEW s \in Screens, NEW pic \in Pictures, Sound(s, pic),
           NEW cells \in SUBSET Cells
    PROVE  LET d == Published(s, cells)
           IN  /\ d \in Screens /\ Sound(d, pic) /\ ~d.replaced
               /\ d.mouse = s.mouse /\ d.hot = s.hot /\ d.at = s.at
               /\ d.hidden = s.hidden /\ d.drawn = s.drawn /\ d.depth = s.depth
               /\ d.pending = s.pending /\ d.dirty = s.dirty
               /\ d.surface = s.surface /\ d.saved = s.saved /\ d.masked = s.masked
               /\ \A c \in Cells : IF s.replaced \/ c \in cells
                                    THEN Fits(d, pic, c, Under(d))
                                    ELSE d.shown[c] = s.shown[c]
<1> DEFINE all == IF s.replaced THEN Cells ELSE cells
           new == [c \in Cells |-> IF c \in all THEN Composed(s, c) ELSE s.shown[c]]
           d == Published(s, cells)
<1>1. d = [s EXCEPT !.shown = new, !.replaced = FALSE]
  BY DEF Published
<1>2. \A c \in Cells : /\ Composed(s, c) \in Colours \cup {Pointer, Layer, Lost}
                       /\ \/ Composed(s, c) = Due(pic, c)
                          \/ c \in Under(s) /\ Composed(s, c) = Pointer
  BY DEF Composed, Screens, Sound, Kept, Due
<1>3. new \in [Cells -> Colours \cup {Pointer, Layer, Lost}]
  BY <1>2 DEF Screens
<1>4. \A c \in Cells : new[c] = IF c \in all THEN Composed(s, c) ELSE s.shown[c]
  OBVIOUS
<1> HIDE DEF new, d
<1>5. /\ d \in Screens /\ ~d.replaced /\ d.shown = new
      /\ d.mouse = s.mouse /\ d.hot = s.hot /\ d.at = s.at
      /\ d.hidden = s.hidden /\ d.drawn = s.drawn /\ d.depth = s.depth
      /\ d.pending = s.pending /\ d.dirty = s.dirty
      /\ d.surface = s.surface /\ d.saved = s.saved /\ d.masked = s.masked
  BY <1>1, <1>3 DEF Screens
<1>6. Under(d) = Under(s) /\ Sound(d, pic)
  BY <1>5 DEF Under, Sound, Kept
<1>7. \A c \in Cells : IF s.replaced \/ c \in cells
                       THEN Fits(d, pic, c, Under(d))
                       ELSE d.shown[c] = s.shown[c]
  BY <1>2, <1>4, <1>5, <1>6 DEF Fits
<1> QED
  BY <1>5, <1>6, <1>7 DEF d

-----------------------------------------------------------------------------

Presentable(s, pic) ==
    /\ Sound(s, pic)
    /\ s.pending => s.depth > 0
    /\ Covered(s, pic) \/ (s.hidden /\ s.dirty = {} /\ s.depth = 0)

\* What every drawing call does last leaves the display good.
LEMMA PresentedFacts ==
    ASSUME NEW s \in Screens, NEW pic \in Pictures, Presentable(s, pic)
    PROVE  LET d == Presented(s)
           IN  /\ d \in Screens /\ Good(d, pic)
               /\ d.mouse = s.mouse /\ d.hot = s.hot /\ d.at = s.at
               /\ d.hidden = s.hidden /\ d.depth = s.depth
               /\ d.pending <=> s.depth > 0
               /\ s.depth > 0 => d = [s EXCEPT !.pending = TRUE]
<1>1. CASE s.depth > 0
  <2>1. Presented(s) = [s EXCEPT !.pending = TRUE]
    BY <1>1 DEF Presented
  <2> DEFINE d == [s EXCEPT !.pending = TRUE]
  <2>2. /\ d \in Screens /\ d.pending /\ d.surface = s.surface /\ d.saved = s.saved
        /\ d.mouse = s.mouse /\ d.hot = s.hot /\ d.at = s.at /\ d.hidden = s.hidden
        /\ d.drawn = s.drawn /\ d.depth = s.depth /\ d.dirty = s.dirty
        /\ d.shown = s.shown /\ d.masked = s.masked /\ d.replaced = s.replaced
    BY DEF Screens
  <2> HIDE DEF d
  <2>3. Under(d) = Under(s)
    BY <2>2 DEF Under
  <2>4. Sound(d, pic) /\ Covered(d, pic)
    BY <1>1, <2>2, <2>3 DEF Presentable, Sound, Kept, Covered, Fits
  <2>5. Good(d, pic)
    BY <1>1, <2>2, <2>4 DEF Good
  <2> QED
    BY <1>1, <2>1, <2>2, <2>5 DEF d
<1>2. CASE ~(s.depth > 0)
  <2> DEFINE d == Synced(Pointed(s))
             m == IF d.drawn /\ ~d.hidden THEN Marked(d, Cleared(d.at)) ELSE d
             cells == IF m.dirty = {} THEN Cells ELSE m.dirty
             e == Published(m, cells)
             f == [e EXCEPT !.dirty = {}]
  <2>0. Presented(s) = f
    BY <1>2 DEF Presented
  <2>1. /\ d \in Screens /\ Alike(d, s) /\ Sound(d, pic)
        /\ d.dirty = s.dirty /\ Under(d) = Place(d)
        /\ Under(s) \subseteq Under(d)
    BY PointedFacts DEF Presentable, Sound
  <2>2. d.at \in Int
    BY <2>1 DEF Screens
  <2> HIDE DEF d
  <2>3. /\ m \in Screens /\ Alike(m, d)
        /\ m.surface = d.surface /\ m.saved = d.saved
        /\ m.drawn = d.drawn /\ m.masked = d.masked
        /\ d.dirty \subseteq m.dirty
        /\ d.hidden => m.dirty = d.dirty
    <3>1. CASE d.drawn /\ ~d.hidden
      <4>1. Cleared(d.at) \in SUBSET Cells
        BY <2>2, PlaceFacts
      <4>2. m = Marked(d, Cleared(d.at))
        BY <3>1
      <4> QED
        BY <2>1, <3>1, <4>1, <4>2, MarkedFacts
    <3>2. CASE ~(d.drawn /\ ~d.hidden)
      BY <2>1, <3>2 DEF Alike
    <3> QED
      BY <3>1, <3>2
  <2> HIDE DEF m
  <2>4. Sound(m, pic) /\ Under(m) = Under(d)
    BY <2>1, <2>3 DEF Sound, Kept, Under, Alike
  <2>5. cells \in SUBSET Cells
    BY <2>3, PlaceFacts DEF Screens
  <2>6. /\ e \in Screens /\ Sound(e, pic) /\ ~e.replaced
        /\ e.mouse = m.mouse /\ e.hot = m.hot /\ e.at = m.at
        /\ e.hidden = m.hidden /\ e.drawn = m.drawn /\ e.depth = m.depth
        /\ e.pending = m.pending
        /\ \A c \in Cells : IF m.replaced \/ c \in cells
                             THEN Fits(e, pic, c, Under(e))
                             ELSE e.shown[c] = m.shown[c]
    <3> HIDE DEF cells
    <3> QED
      BY <2>3, <2>4, <2>5, PublishedFacts
  <2>7. Under(e) = Under(m)
    BY <2>6 DEF Under
  <2>8. \A c \in Cells : Fits(e, pic, c, Under(e))
    <3> TAKE c \in Cells
    <3>1. CASE m.replaced \/ c \in cells
      BY <2>6, <3>1
    <3>2. CASE ~m.replaced /\ c \notin cells
      <4>1. m.dirty # {} /\ c \notin m.dirty
        BY <3>2
      <4>2. Covered(s, pic)
        BY <2>1, <2>3, <4>1 DEF Presentable, Alike
      <4>3. ~s.replaced /\ c \notin s.dirty /\ e.shown[c] = s.shown[c]
        BY <2>1, <2>3, <2>6, <3>2, <4>1 DEF Alike
      <4>4. Fits(s, pic, c, Under(s))
        BY <4>2, <4>3 DEF Covered
      <4> QED
        BY <2>1, <2>4, <2>7, <4>3, <4>4 DEF Fits
    <3> QED
      BY <3>1, <3>2
  <2> HIDE DEF e
  <2>9. /\ f \in Screens /\ f.dirty = {} /\ ~f.replaced /\ f.shown = e.shown
        /\ f.mouse = e.mouse /\ f.hot = e.hot /\ f.at = e.at
        /\ f.hidden = e.hidden /\ f.drawn = e.drawn /\ f.depth = e.depth
        /\ f.pending = e.pending /\ f.surface = e.surface /\ f.saved = e.saved
        /\ f.masked = e.masked
    BY <2>6 DEF Screens
  <2> HIDE DEF f
  <2>10. Under(f) = Under(e) /\ Sound(f, pic) /\ Place(f) = Place(d)
    BY <2>3, <2>6, <2>9 DEF Under, Sound, Kept, Place, Alike
  <2>11. \A c \in Cells : Fits(f, pic, c, Under(f)) /\ Fits(f, pic, c, Place(f))
    BY <2>1, <2>4, <2>7, <2>8, <2>9, <2>10 DEF Fits
  <2>12. ~f.pending
    BY <1>2, <2>1, <2>3, <2>6, <2>9 DEF Presentable, Alike
  <2>13. Good(f, pic)
    BY <2>10, <2>11, <2>12 DEF Good, Covered, Current
  <2>14. /\ f.mouse = s.mouse /\ f.hot = s.hot /\ f.at = s.at
         /\ f.hidden = s.hidden /\ f.depth = s.depth
    BY <2>1, <2>3, <2>6, <2>9 DEF Alike
  <2> QED
    BY <1>2, <2>0, <2>9, <2>12, <2>13, <2>14
<1> QED
  BY <1>1, <1>2

-----------------------------------------------------------------------------

\* Drawing that leaves the pointer's place alone draws the picture.
LEMMA WrittenFacts ==
    ASSUME NEW s \in Screens, NEW pic \in Pictures, Sound(s, pic),
           NEW cells \in SUBSET Cells, cells \cap Under(s) = {}, NEW ink \in Inks
    PROVE  LET d == Written(s, cells, ink)
               new == Painted(pic, cells, ink)
           IN  /\ d \in Screens /\ Alike(d, s) /\ new \in Pictures /\ Sound(d, new)
               /\ d.drawn = s.drawn /\ d.masked = s.masked /\ d.dirty = s.dirty
               /\ d.surface = Painted(s.surface, cells, ink)
               /\ \A c \in Cells \ cells : Due(new, c) = Due(pic, c)
<1> DEFINE d == Written(s, cells, ink)
           new == Painted(pic, cells, ink)
           surface == Painted(s.surface, cells, ink)
<1>1. \A old \in Colours \cup {Pointer} : Inked(old, ink) \in Colours \cup {Pointer}
  BY DEF Inked, Inks, Colours, Black, White, Flip
<1>2. \A old \in Colours : Inked(old, ink) \in Colours
  BY DEF Inked, Inks, Colours, Black, White, Flip
<1>3. surface \in [Cells -> Colours \cup {Pointer}]
  BY <1>1 DEF Painted, Screens
<1>4. new \in Pictures
  BY <1>2 DEF Painted, Pictures
<1>5. \A c \in Cells : /\ surface[c] = IF c \in cells THEN Inked(s.surface[c], ink)
                                       ELSE s.surface[c]
                       /\ new[c] = IF c \in cells THEN Inked(pic[c], ink) ELSE pic[c]
  BY DEF Painted
<1> HIDE DEF surface, new, d
<1>6. /\ d \in Screens /\ Alike(d, s) /\ d.surface = surface /\ d.saved = s.saved
      /\ d.drawn = s.drawn /\ d.masked = s.masked /\ d.dirty = s.dirty
  BY <1>3 DEF d, surface, Written, Screens, Alike
<1>7. Sound(d, new)
  BY <1>5, <1>6 DEF Sound, Kept, Under, Alike
<1>8. \A c \in Cells \ cells : Due(new, c) = Due(pic, c)
  BY <1>5 DEF Due
<1> QED
  BY <1>4, <1>6, <1>7, <1>8 DEF d, new, surface

\* The same, marked: what does not show any more is marked.
LEMMA MarkedWrittenFacts ==
    ASSUME NEW s \in Screens, NEW pic \in Pictures, Sound(s, pic), Covered(s, pic),
           NEW cells \in SUBSET Cells, cells \cap Under(s) = {}, NEW ink \in Inks
    PROVE  LET d == Written(Marked(s, cells), cells, ink)
               new == Painted(pic, cells, ink)
           IN  /\ d \in Screens /\ Alike(d, s) /\ new \in Pictures /\ Sound(d, new)
               /\ Covered(d, new) /\ d.drawn = s.drawn /\ d.masked = s.masked
               /\ d.surface = Painted(s.surface, cells, ink)
               /\ s.dirty \cup cells \subseteq d.dirty
<1> DEFINE m == Marked(s, cells)
           d == Written(m, cells, ink)
           new == Painted(pic, cells, ink)
<1>1. /\ m \in Screens /\ Alike(m, s)
      /\ m.surface = s.surface /\ m.saved = s.saved
      /\ m.drawn = s.drawn /\ m.masked = s.masked
      /\ s.dirty \cup cells \subseteq m.dirty
  BY MarkedFacts
<1> HIDE DEF m
<1>2. Under(m) = Under(s) /\ Sound(m, pic)
  BY <1>1 DEF Sound, Kept, Under, Alike
<1>3. /\ d \in Screens /\ Alike(d, m) /\ new \in Pictures /\ Sound(d, new)
      /\ d.drawn = m.drawn /\ d.masked = m.masked /\ d.dirty = m.dirty
      /\ d.surface = Painted(m.surface, cells, ink)
      /\ \A c \in Cells \ cells : Due(new, c) = Due(pic, c)
  BY <1>1, <1>2, WrittenFacts
<1> HIDE DEF d, new
<1>4. Covered(d, new)
  BY <1>1, <1>3 DEF Covered, Fits, Under, Alike
<1> QED
  BY <1>1, <1>3, <1>4 DEF Alike, d, m, new

\* A drawing call that prepares: the pointer is away, the rectangle drawn.
LEMMA RectFacts ==
    ASSUME NEW s \in Screens, NEW pic \in Pictures, Sound(s, pic), Covered(s, pic),
           NEW cells \in SUBSET Cells, NEW ink \in Inks
    PROVE  LET d == Rect(s, cells, ink)
               new == Painted(pic, cells, ink)
           IN  /\ d \in Screens /\ Alike(d, s) /\ new \in Pictures
               /\ Bare(d, new) /\ Covered(d, new)
               /\ s.dirty \cup Under(s) \cup cells \subseteq d.dirty
<1> DEFINE p == Prepared(s)
           d == Written(Marked(p, cells), cells, ink)
           new == Painted(pic, cells, ink)
<1>1. /\ p \in Screens /\ Alike(p, s) /\ Bare(p, pic)
      /\ s.dirty \cup Under(s) \subseteq p.dirty /\ Covered(p, pic)
  BY PreparedFacts DEF Sound
<1> HIDE DEF p
<1>2. Sound(p, pic) /\ Under(p) = {}
  BY <1>1, BareFacts
<1>3. /\ d \in Screens /\ Alike(d, p) /\ new \in Pictures /\ Sound(d, new)
      /\ Covered(d, new) /\ d.drawn = p.drawn /\ d.masked = p.masked
      /\ d.surface = Painted(p.surface, cells, ink)
      /\ p.dirty \cup cells \subseteq d.dirty
  BY <1>1, <1>2, MarkedWrittenFacts
<1>4. Rect(s, cells, ink) = d
  BY DEF Rect, p
<1> HIDE DEF d, new
<1>5. Bare(d, new)
  BY <1>1, <1>3 DEF Bare, new
<1> QED
  BY <1>1, <1>3, <1>4, <1>5 DEF Alike, new

-----------------------------------------------------------------------------

\* Showing more never hurts.
LEMMA PublishedGood ==
    ASSUME NEW s \in Screens, NEW pic \in Pictures, Good(s, pic),
           NEW cells \in SUBSET Cells
    PROVE  LET d == Published(s, cells)
           IN  /\ d \in Screens /\ Good(d, pic)
               /\ d.mouse = s.mouse /\ d.hot = s.hot /\ d.at = s.at
               /\ d.hidden = s.hidden /\ d.depth = s.depth /\ d.pending = s.pending
<1> DEFINE d == Published(s, cells)
<1>1. /\ d \in Screens /\ Sound(d, pic) /\ ~d.replaced
      /\ d.mouse = s.mouse /\ d.hot = s.hot /\ d.at = s.at
      /\ d.hidden = s.hidden /\ d.drawn = s.drawn /\ d.depth = s.depth
      /\ d.pending = s.pending /\ d.dirty = s.dirty
      /\ \A c \in Cells : IF s.replaced \/ c \in cells
                           THEN Fits(d, pic, c, Under(d))
                           ELSE d.shown[c] = s.shown[c]
  BY PublishedFacts DEF Good
<1> HIDE DEF d
<1>2. Under(d) = Under(s) /\ Place(d) = Place(s) /\ Under(s) \subseteq Place(s)
  BY <1>1 DEF Under, Place, Good, Sound, Kept
<1>3. Covered(d, pic)
  BY <1>1, <1>2 DEF Good, Covered, Fits
<1>4. Current(s, pic) => Current(d, pic)
  BY <1>1, <1>2 DEF Current, Fits
<1> QED
  BY <1>1, <1>3, <1>4 DEF Good, d

\* The pointer taken up, moved and put down again, with its places shown.
LEMMA MouseAtFacts ==
    ASSUME NEW s \in Screens, NEW pic \in Pictures, Good(s, pic), NEW x \in Cells
    PROVE  LET d == MouseAt(s, x)
           IN  d \in Screens /\ Good(d, pic) /\ d.hidden = s.hidden /\ d.depth = s.depth
<1> DEFINE r == Restored(s)
           moved == [r EXCEPT !.mouse = x, !.at = x - s.hot]
           d == Synced(Pointed(moved))
           cells == Cleared(s.at) \cup Cleared(d.at)
           p == Published(d, cells)
<1>1. /\ r \in Screens /\ Alike(r, s)
      /\ r.surface = pic /\ ~r.drawn
      /\ s.dirty \cup Under(s) \subseteq r.dirty
  BY RestoredFacts DEF Good, Sound
<1>2. s.at \in Int /\ x - s.hot \in Int
  <2>1. s.at \in Int /\ s.hot \in HotSpots
    BY DEF Screens
  <2>2. HotSpots \subseteq Int
    OBVIOUS
  <2>3. s.hot \in Int
    BY <2>1, <2>2, Zenon
  <2> QED
    BY <2>1, <2>3
<1> HIDE DEF r
<1>3. /\ moved \in Screens /\ moved.surface = pic /\ ~moved.drawn
      /\ moved.dirty = r.dirty /\ moved.hidden = s.hidden /\ moved.depth = s.depth
      /\ moved.pending = s.pending /\ moved.shown = s.shown
      /\ moved.replaced = s.replaced
  BY <1>1, <1>2 DEF Screens, Alike
<1> HIDE DEF moved
<1>4. Kept(moved, pic)
  BY <1>3 DEF Kept, Under
<1>5. /\ d \in Screens /\ Alike(d, moved) /\ Sound(d, pic)
      /\ d.dirty = moved.dirty /\ Under(d) = Place(d)
  BY <1>3, <1>4, PointedFacts
<1>6. MouseAt(s, x) = IF d.hidden THEN d ELSE p
  BY DEF MouseAt, p, cells, d, moved, r
<1> HIDE DEF d
<1>7. Covered(d, pic)
  BY <1>1, <1>3, <1>5 DEF Good, Covered, Fits, Alike
<1>8. CASE s.hidden
  <2>1. d.hidden /\ Place(d) = {} /\ Place(s) = {}
    BY <1>3, <1>5, <1>8 DEF Alike, Place
  <2>2. Current(s, pic) => Current(d, pic)
    BY <1>3, <1>5, <2>1 DEF Current, Fits, Alike
  <2>3. Good(d, pic)
    BY <1>3, <1>5, <1>7, <2>2 DEF Good, Alike
  <2> QED
    BY <1>3, <1>5, <1>6, <2>1, <2>3 DEF Alike
<1>9. CASE ~s.hidden
  <2>1. d.at \in Int
    BY <1>5 DEF Screens
  <2>2. cells \in SUBSET Cells /\ Box(s.at) \subseteq cells
    BY <1>2, <2>1, PlaceFacts
  <2> HIDE DEF cells
  <2>3. LET q == Published(d, cells)
        IN  /\ q \in Screens /\ Sound(q, pic) /\ ~q.replaced
            /\ q.mouse = d.mouse /\ q.hot = d.hot /\ q.at = d.at
            /\ q.hidden = d.hidden /\ q.drawn = d.drawn /\ q.depth = d.depth
            /\ q.pending = d.pending /\ q.dirty = d.dirty
            /\ q.surface = d.surface /\ q.saved = d.saved /\ q.masked = d.masked
            /\ \A c \in Cells : IF d.replaced \/ c \in cells
                                 THEN Fits(q, pic, c, Under(q))
                                 ELSE q.shown[c] = d.shown[c]
    BY <1>5, <2>2, PublishedFacts
  <2>4. d.shown = s.shown /\ d.replaced = s.replaced /\ d.pending = s.pending
    BY <1>3, <1>5 DEF Alike
  <2>5. Under(p) = Under(d) /\ Place(p) = Place(d)
    BY <2>3 DEF Under, Place
  <2>6. Covered(p, pic)
    BY <1>7, <2>3, <2>5 DEF Covered, Fits
  <2>7. ASSUME Current(s, pic) PROVE Current(p, pic)
    <3> SUFFICES ASSUME NEW c \in Cells PROVE Fits(p, pic, c, Place(p))
      BY DEF Current
    <3>1. CASE d.replaced \/ c \in cells
      BY <1>5, <2>3, <2>5, <3>1
    <3>2. CASE ~d.replaced /\ c \notin cells
      <4>1. Fits(s, pic, c, Place(s)) /\ c \notin Box(s.at)
        BY <2>2, <2>4, <2>7, <3>2 DEF Current
      <4> QED
        BY <2>3, <2>4, <3>2, <4>1 DEF Fits, Place
    <3> QED
      BY <3>1, <3>2
  <2>8. Good(p, pic)
    BY <1>3, <1>5, <2>3, <2>4, <2>6, <2>7 DEF Good, Alike
  <2> QED
    BY <1>3, <1>5, <1>6, <1>9, <2>3, <2>8 DEF Alike
<1> QED
  BY <1>8, <1>9 DEF Screens

\* The pointer is taken away, and so is its image on the display.
LEMMA HiddenNowFacts ==
    ASSUME NEW s \in Screens, NEW pic \in Pictures, Good(s, pic)
    PROVE  LET d == HiddenNow(s)
           IN  d \in Screens /\ Good(d, pic) /\ d.hidden /\ d.depth = s.depth
<1>1. CASE s.hidden
  BY <1>1 DEF HiddenNow
<1>2. CASE ~s.hidden
  <2> DEFINE h == [s EXCEPT !.hidden = TRUE]
             d == Prepared(h)
             cells == Cleared(s.at)
             p == Published(d, cells)
  <2>1. s.at \in Int
    BY DEF Screens
  <2>2. cells \in SUBSET Cells /\ Box(s.at) \subseteq cells
    BY <2>1, PlaceFacts
  <2>3. HiddenNow(s) = p
    BY <1>2 DEF HiddenNow
  <2> HIDE DEF cells
  <2>4. /\ d \in Screens /\ d.hidden /\ Bare(d, pic) /\ Covered(d, pic)
        /\ d.depth = s.depth /\ d.pending = s.pending
        /\ d.shown = s.shown /\ d.replaced = s.replaced
    <3>1. /\ h \in Screens /\ h.hidden /\ h.at = s.at /\ h.drawn = s.drawn
          /\ h.surface = s.surface /\ h.saved = s.saved /\ h.depth = s.depth
          /\ h.pending = s.pending /\ h.dirty = s.dirty
          /\ h.shown = s.shown /\ h.replaced = s.replaced
      BY DEF Screens
    <3> DEFINE r == Restored(h)
    <3>2. r = [Restored(s) EXCEPT !.hidden = TRUE]
      BY DEF Restored, Marked, Screens
    <3>3. /\ Restored(s) \in Screens /\ Alike(Restored(s), s)
          /\ Restored(s).surface = pic /\ ~Restored(s).drawn
          /\ s.dirty \cup Under(s) \subseteq Restored(s).dirty
      BY RestoredFacts DEF Good, Sound
    <3> DEFINE t == Restored(s)
    <3> HIDE DEF t, h
    <3>4. /\ r \in Screens /\ r.hidden /\ ~r.drawn /\ r.surface = pic
          /\ r.dirty = t.dirty /\ r.depth = s.depth /\ r.pending = s.pending
          /\ r.shown = s.shown /\ r.replaced = s.replaced
      BY <3>2, <3>3 DEF Screens, Alike, t
    <3> HIDE DEF r
    <3>5. /\ Synced(r) \in Screens /\ Alike(Synced(r), r)
          /\ Synced(r).surface = r.surface /\ Synced(r).drawn = r.drawn
          /\ Synced(r).dirty = r.dirty /\ Synced(r).masked = Under(Synced(r))
      BY <3>4, SyncedFacts
    <3>6. d = Synced(r)
      BY DEF Prepared, r, h
    <3> HIDE DEF d
    <3>7. Bare(d, pic) /\ Under(d) = {}
      BY <3>4, <3>5, <3>6 DEF Bare, Under
    <3>8. s.dirty \cup Under(s) \subseteq d.dirty /\ d.shown = s.shown
          /\ d.replaced = s.replaced
      BY <3>3, <3>4, <3>5, <3>6 DEF Alike, t
    <3>9. Covered(d, pic)
      BY <3>7, <3>8 DEF Good, Covered, Fits
    <3> QED
      BY <3>4, <3>5, <3>6, <3>7, <3>8, <3>9 DEF Alike
  <2> HIDE DEF d
  <2>5. Sound(d, pic) /\ Under(d) = {}
    BY <2>4, BareFacts
  <2>6. d \in Screens /\ Sound(d, pic) /\ cells \in SUBSET Cells
    BY <2>2, <2>4, <2>5
  <2>7. LET q == Published(d, cells)
        IN  /\ q \in Screens /\ Sound(q, pic) /\ ~q.replaced
            /\ q.mouse = d.mouse /\ q.hot = d.hot /\ q.at = d.at
            /\ q.hidden = d.hidden /\ q.drawn = d.drawn /\ q.depth = d.depth
            /\ q.pending = d.pending /\ q.dirty = d.dirty
            /\ q.surface = d.surface /\ q.saved = d.saved /\ q.masked = d.masked
            /\ \A c \in Cells : IF d.replaced \/ c \in cells
                                 THEN Fits(q, pic, c, Under(q))
                                 ELSE q.shown[c] = d.shown[c]
    BY <2>6, PublishedFacts
  <2>8. Under(p) = {} /\ Place(p) = {}
    BY <2>4, <2>7 DEF Under, Place, Bare
  <2>9. Covered(p, pic)
    BY <2>4, <2>5, <2>7, <2>8 DEF Covered, Fits
  <2>10. ASSUME Current(s, pic) PROVE Current(p, pic)
    BY <2>2, <2>4, <2>7, <2>8, <2>10 DEF Current, Fits, Place
  <2>11. Good(p, pic)
    BY <2>4, <2>7, <2>9, <2>10 DEF Good
  <2> QED
    BY <2>3, <2>4, <2>7, <2>11
<1> QED
  BY <1>1, <1>2

\* The pointer comes back where the mouse is.
LEMMA ShownNowFacts ==
    ASSUME NEW s \in Screens, NEW pic \in Pictures, Good(s, pic)
    PROVE  LET d == ShownNow(s) IN d \in Screens /\ Good(d, pic) /\ d.depth = s.depth
<1>1. CASE ~s.hidden
  BY <1>1 DEF ShownNow
<1>2. CASE s.hidden
  <2> DEFINE v == [s EXCEPT !.hidden = FALSE]
             x == s.mouse
  <2>1. /\ v \in Screens /\ ~v.hidden /\ v.surface = s.surface /\ v.saved = s.saved
        /\ v.at = s.at /\ v.drawn = s.drawn /\ v.depth = s.depth
        /\ v.pending = s.pending /\ v.dirty = s.dirty /\ v.shown = s.shown
        /\ v.masked = s.masked /\ v.replaced = s.replaced /\ x \in Cells
    BY DEF Screens
  <2>2. ShownNow(s) = MouseAt(v, x)
    BY <1>2 DEF ShownNow
  <2> HIDE DEF v, x
  <2>3. Under(v) = Under(s) /\ Place(s) = {}
    BY <1>2, <2>1 DEF Under, Place
  <2>4. Sound(v, pic) /\ Covered(v, pic)
    BY <2>1, <2>3 DEF Good, Sound, Kept, Covered, Fits
  <2>5. Current(s, pic) => Current(v, pic)
    BY <2>1, <2>3 DEF Current, Fits
  <2>6. Good(v, pic)
    BY <2>1, <2>4, <2>5 DEF Good
  <2>7. LET d == MouseAt(v, x)
        IN  d \in Screens /\ Good(d, pic) /\ d.hidden = v.hidden /\ d.depth = v.depth
    BY <2>1, <2>6, MouseAtFacts
  <2> QED
    BY <2>1, <2>2, <2>7
<1> QED
  BY <1>1, <1>2

\* Updates begin and end.
LEMMA BegunFacts ==
    ASSUME NEW s \in Screens, NEW pic \in Pictures, Good(s, pic)
    PROVE  LET d == Begun(s)
           IN  /\ d \in Screens /\ Good(d, pic) /\ d.depth = s.depth + 1 /\ d.depth > 0
               /\ d.at = s.at /\ d.hidden = s.hidden /\ d.drawn = s.drawn
               /\ d.pending = s.pending /\ d.shown = s.shown /\ d.replaced = s.replaced
<1> DEFINE d == Begun(s)
           n == s.depth + 1
<1>1. s.depth \in Nat
  BY DEF Screens
<1>2. n \in Nat /\ n > 0
  BY <1>1
<1>3. d = [s EXCEPT !.depth = n]
  BY DEF Begun
<1> HIDE DEF n, d
<1>4. /\ d \in Screens /\ d.depth = n
      /\ d.surface = s.surface /\ d.saved = s.saved
      /\ d.at = s.at /\ d.hidden = s.hidden /\ d.drawn = s.drawn
      /\ d.pending = s.pending /\ d.dirty = s.dirty /\ d.shown = s.shown
      /\ d.masked = s.masked /\ d.replaced = s.replaced
  BY <1>2, <1>3 DEF Screens
<1>5. Under(d) = Under(s) /\ Place(d) = Place(s)
  BY <1>4 DEF Under, Place
<1>6. Sound(d, pic) /\ Covered(d, pic)
  BY <1>4, <1>5 DEF Good, Sound, Kept, Covered, Fits
<1>7. Current(s, pic) => Current(d, pic)
  BY <1>4, <1>5 DEF Current, Fits
<1>8. Good(d, pic)
  BY <1>2, <1>4, <1>6, <1>7 DEF Good
<1> QED
  BY <1>2, <1>4, <1>8 DEF d, n

LEMMA EndedFacts ==
    ASSUME NEW s \in Screens, NEW pic \in Pictures, Good(s, pic), s.depth > 0
    PROVE  LET d == Ended(s) IN d \in Screens /\ Good(d, pic) /\ d.depth = s.depth - 1
<1> DEFINE n == s.depth - 1
           e == [s EXCEPT !.depth = n]
           f == [e EXCEPT !.pending = FALSE]
<1>1. s.depth \in Nat
  BY DEF Screens
<1>2. n \in Nat
  BY <1>1
<1>3. Ended(s) = IF e.depth = 0 /\ e.pending THEN Presented(f) ELSE e
  BY DEF Ended
<1> HIDE DEF n
<1>4. /\ e \in Screens /\ e.depth = n
      /\ e.surface = s.surface /\ e.saved = s.saved
      /\ e.at = s.at /\ e.hidden = s.hidden /\ e.drawn = s.drawn
      /\ e.pending = s.pending /\ e.dirty = s.dirty /\ e.shown = s.shown
      /\ e.masked = s.masked /\ e.replaced = s.replaced
  BY <1>2 DEF Screens
<1> HIDE DEF e
<1>5. Under(e) = Under(s) /\ Place(e) = Place(s)
  BY <1>4 DEF Under, Place
<1>6. Sound(e, pic) /\ Covered(e, pic) /\ (Current(s, pic) => Current(e, pic))
  BY <1>4, <1>5 DEF Good, Sound, Kept, Covered, Current, Fits
<1>7. CASE e.depth = 0 /\ e.pending
  <2>1. /\ f \in Screens /\ ~f.pending /\ f.depth = e.depth
        /\ f.surface = e.surface /\ f.saved = e.saved
        /\ f.at = e.at /\ f.hidden = e.hidden /\ f.drawn = e.drawn
        /\ f.dirty = e.dirty /\ f.shown = e.shown
        /\ f.masked = e.masked /\ f.replaced = e.replaced
    BY <1>4 DEF Screens
  <2> HIDE DEF f
  <2>2. Under(f) = Under(e)
    BY <2>1 DEF Under
  <2>3. Presentable(f, pic)
    BY <1>6, <2>1, <2>2 DEF Presentable, Sound, Kept, Covered, Fits
  <2>4. LET d == Presented(f)
        IN  /\ d \in Screens /\ Good(d, pic)
            /\ d.mouse = f.mouse /\ d.hot = f.hot /\ d.at = f.at
            /\ d.hidden = f.hidden /\ d.depth = f.depth
            /\ d.pending <=> f.depth > 0
            /\ f.depth > 0 => d = [f EXCEPT !.pending = TRUE]
    BY <2>1, <2>3, PresentedFacts
  <2> QED
    BY <1>4, <1>3, <1>7, <2>1, <2>4 DEF n
<1>8. CASE ~(e.depth = 0 /\ e.pending)
  <2>1. e.pending => e.depth > 0
    BY <1>2, <1>4, <1>8
  <2>2. Good(e, pic)
    BY <1>4, <1>6, <2>1 DEF Good
  <2> QED
    BY <1>4, <1>3, <1>8, <2>2 DEF n
<1> QED
  BY <1>7, <1>8

\* Another form at another place: shown, or pending with its old place marked.
LEMMA FormedFacts ==
    ASSUME NEW s \in Screens, NEW pic \in Pictures, Good(s, pic), NEW hot \in HotSpots
    PROVE  LET d == Formed(s, hot) IN d \in Screens /\ Good(d, pic) /\ d.depth = s.depth
<1> DEFINE r == Restored(s)
           moved == [r EXCEPT !.hot = hot, !.at = s.mouse - hot]
           d == Synced(Pointed(moved))
           all == Cells
<1>1. /\ r \in Screens /\ Alike(r, s)
      /\ r.surface = pic /\ ~r.drawn
      /\ s.dirty \cup Under(s) \subseteq r.dirty
  BY RestoredFacts DEF Good, Sound
<1>2. s.mouse - hot \in Int
  <2>1. HotSpots \subseteq Int
    OBVIOUS
  <2>2. hot \in Int
    BY <2>1, Zenon
  <2>3. s.mouse \in Int
    BY DEF Screens
  <2> QED
    BY <2>2, <2>3
<1> HIDE DEF r
<1>3. /\ moved \in Screens /\ moved.surface = pic /\ ~moved.drawn
      /\ moved.dirty = r.dirty /\ moved.hidden = s.hidden /\ moved.depth = s.depth
      /\ moved.pending = s.pending /\ moved.shown = s.shown
      /\ moved.replaced = s.replaced
  BY <1>1, <1>2 DEF Screens, Alike
<1> HIDE DEF moved
<1>4. Kept(moved, pic)
  BY <1>3 DEF Kept, Under
<1>5. /\ d \in Screens /\ Alike(d, moved) /\ Sound(d, pic)
      /\ d.dirty = moved.dirty /\ Under(d) = Place(d)
  BY <1>3, <1>4, PointedFacts
<1>6. Formed(s, hot) = IF d.depth = 0 THEN Published(d, all) ELSE [d EXCEPT !.pending = TRUE]
  BY DEF Formed, d, moved, r
<1> HIDE DEF d
<1>7. Covered(d, pic)
  BY <1>1, <1>3, <1>5 DEF Good, Covered, Fits, Alike
<1>8. d.depth = s.depth /\ d.pending = s.pending
  BY <1>3, <1>5 DEF Alike
<1>9. CASE d.depth = 0
  <2>1. all \in SUBSET Cells /\ \A c \in Cells : c \in all
    OBVIOUS
  <2> HIDE DEF all
  <2>2. LET q == Published(d, all)
        IN  /\ q \in Screens /\ Sound(q, pic) /\ ~q.replaced
            /\ q.mouse = d.mouse /\ q.hot = d.hot /\ q.at = d.at
            /\ q.hidden = d.hidden /\ q.drawn = d.drawn /\ q.depth = d.depth
            /\ q.pending = d.pending /\ q.dirty = d.dirty
            /\ q.surface = d.surface /\ q.saved = d.saved /\ q.masked = d.masked
            /\ \A c \in Cells : IF d.replaced \/ c \in all
                                 THEN Fits(q, pic, c, Under(q))
                                 ELSE q.shown[c] = d.shown[c]
    BY <1>5, <2>1, PublishedFacts
  <2> DEFINE q == Published(d, all)
  <2> HIDE DEF q
  <2>3. /\ q \in Screens /\ Sound(q, pic) /\ q.depth = d.depth /\ q.pending = d.pending
        /\ \A c \in Cells : Fits(q, pic, c, Under(q))
    BY <2>1, <2>2 DEF q
  <2>4. Under(q) \subseteq Place(q)
    BY <2>3 DEF Under, Place, Sound, Kept
  <2>5. Covered(q, pic) /\ Current(q, pic)
    BY <2>3, <2>4 DEF Covered, Current, Fits
  <2>6. Good(q, pic)
    BY <1>8, <1>9, <2>3, <2>5 DEF Good
  <2> QED
    BY <1>6, <1>8, <1>9, <2>3, <2>6 DEF q
<1>10. CASE d.depth # 0
  <2> DEFINE q == [d EXCEPT !.pending = TRUE]
  <2>1. /\ q \in Screens /\ q.pending /\ q.depth = d.depth
        /\ q.surface = d.surface /\ q.saved = d.saved
        /\ q.at = d.at /\ q.hidden = d.hidden /\ q.drawn = d.drawn
        /\ q.dirty = d.dirty /\ q.shown = d.shown
        /\ q.masked = d.masked /\ q.replaced = d.replaced /\ d.depth \in Nat
    BY <1>5 DEF Screens
  <2>2. Formed(s, hot) = q
    BY <1>6, <1>10
  <2> HIDE DEF q
  <2>3. Under(q) = Under(d)
    BY <2>1 DEF Under
  <2>4. Sound(q, pic) /\ Covered(q, pic)
    BY <1>5, <1>7, <2>1, <2>3 DEF Sound, Kept, Covered, Fits
  <2> QED
    BY <1>8, <1>10, <2>1, <2>2, <2>4 DEF Good
<1> QED
  BY <1>9, <1>10

\* A region painted by AES itself, shown at once although nothing else is.
LEMMA RegionFacts ==
    ASSUME NEW s \in Screens, NEW pic \in Pictures, Good(s, pic),
           NEW cells \in SUBSET Cells, NEW ink \in Inks
    PROVE  LET d == RegionRedrawn(s, cells, ink)
               new == Painted(pic, cells, ink)
           IN  d \in Screens /\ new \in Pictures /\ Good(d, new) /\ d.depth = s.depth
<1> DEFINE new == Painted(pic, cells, ink)
           b == Begun(s)
           p == Prepared(b)
           w == Written(p, cells, ink)
           m == Marked(w, cells)
           r == Presented(m)
           n == r.depth - 1
           e == EndedNoPresent(r)
<1>1. /\ b \in Screens /\ Good(b, pic) /\ b.depth = s.depth + 1 /\ b.depth > 0
      /\ b.at = s.at /\ b.hidden = s.hidden /\ b.drawn = s.drawn
      /\ b.pending = s.pending /\ b.shown = s.shown /\ b.replaced = s.replaced
  BY BegunFacts
<1> HIDE DEF b
<1>2. /\ p \in Screens /\ Alike(p, b) /\ Bare(p, pic)
      /\ b.dirty \cup Under(b) \subseteq p.dirty /\ Covered(p, pic)
  BY <1>1, PreparedFacts DEF Good, Sound
<1> HIDE DEF p
<1>3. Sound(p, pic) /\ Under(p) = {}
  BY <1>2, BareFacts
<1>4. /\ w \in Screens /\ Alike(w, p) /\ new \in Pictures /\ Sound(w, new)
      /\ w.drawn = p.drawn /\ w.masked = p.masked /\ w.dirty = p.dirty
      /\ w.surface = Painted(p.surface, cells, ink)
      /\ \A c \in Cells \ cells : Due(new, c) = Due(pic, c)
  BY <1>2, <1>3, WrittenFacts
<1> HIDE DEF w, new
<1>5. /\ m \in Screens /\ Alike(m, w)
      /\ m.surface = w.surface /\ m.saved = w.saved
      /\ m.drawn = w.drawn /\ m.masked = w.masked
      /\ w.dirty \cup cells \subseteq m.dirty
  BY <1>4, MarkedFacts
<1> HIDE DEF m
<1>6. /\ Under(m) = {} /\ Sound(m, new)
  BY <1>2, <1>4, <1>5 DEF Sound, Kept, Under, Alike, Bare
<1>7. /\ m.shown = s.shown /\ m.replaced = s.replaced /\ m.depth = b.depth
      /\ m.at = s.at /\ m.hidden = s.hidden /\ m.pending = s.pending
  BY <1>1, <1>2, <1>4, <1>5 DEF Alike
<1>8. Covered(m, new)
  BY <1>2, <1>3, <1>4, <1>5, <1>6 DEF Covered, Fits, Alike
<1>9. Presentable(m, new)
  BY <1>1, <1>6, <1>7, <1>8 DEF Presentable, Good
<1>10. r = [m EXCEPT !.pending = TRUE] /\ r \in Screens /\ Good(r, new) /\ r.depth = b.depth
  BY <1>1, <1>4, <1>5, <1>7, <1>9, PresentedFacts
<1>11. /\ r.pending /\ r.at = s.at /\ r.hidden = s.hidden /\ ~r.drawn /\ r.dirty = m.dirty
       /\ r.shown = s.shown /\ r.replaced = s.replaced
  BY <1>2, <1>4, <1>5, <1>7, <1>10 DEF Screens, Bare
<1> HIDE DEF r
<1>12. n = s.depth /\ n \in Nat
  <2>1. s.depth \in Nat /\ r.depth = s.depth + 1
    BY <1>1, <1>10 DEF Screens
  <2> QED
    BY <2>1
<1> DEFINE l == [r EXCEPT !.depth = n]
           live == l.pending /\ l.depth > 0
<1>13. e = [l EXCEPT !.pending = live] /\ live \in BOOLEAN
  BY DEF EndedNoPresent
<1> HIDE DEF n
<1>14. /\ l \in Screens /\ l.depth = n /\ l.pending = r.pending
       /\ l.surface = r.surface /\ l.saved = r.saved /\ l.mouse = r.mouse
       /\ l.at = r.at /\ l.hidden = r.hidden /\ l.drawn = r.drawn
       /\ l.dirty = r.dirty /\ l.shown = r.shown
       /\ l.masked = r.masked /\ l.replaced = r.replaced
  BY <1>10, <1>12 DEF Screens
<1>15. live <=> n > 0
  BY <1>11, <1>14
<1> HIDE DEF l, live, e
<1>16. /\ e \in Screens /\ e.pending = live /\ e.depth = l.depth
       /\ e.surface = l.surface /\ e.saved = l.saved /\ e.mouse = l.mouse
       /\ e.at = l.at /\ e.hidden = l.hidden /\ e.drawn = l.drawn
       /\ e.dirty = l.dirty /\ e.shown = l.shown
       /\ e.masked = l.masked /\ e.replaced = l.replaced
  BY <1>13, <1>14 DEF Screens
<1>17. /\ e \in Screens /\ e.depth = n /\ (e.pending <=> n > 0)
       /\ e.surface = r.surface /\ e.saved = r.saved /\ e.mouse = r.mouse
       /\ e.at = r.at /\ e.hidden = r.hidden /\ e.drawn = r.drawn
       /\ e.dirty = r.dirty /\ e.shown = r.shown
       /\ e.masked = r.masked /\ e.replaced = r.replaced
  BY <1>14, <1>15, <1>16
<1>18. Under(e) = Under(r) /\ Under(e) = {} /\ Place(e) = Place(s)
  BY <1>11, <1>17 DEF Under, Place
<1>19. Sound(e, new) /\ Covered(e, new)
  BY <1>10, <1>17, <1>18 DEF Good, Sound, Kept, Covered, Fits
<1>20. RegionRedrawn(s, cells, ink) = IF e.depth = 0 THEN Published(e, cells) ELSE e
  BY DEF RegionRedrawn, e, r, m, w, p, b
<1>21. CASE n # 0
  <2>1. e.pending /\ e.depth > 0
    BY <1>12, <1>17, <1>21
  <2>2. Good(e, new)
    BY <1>19, <2>1 DEF Good
  <2> QED
    BY <1>4, <1>12, <1>17, <1>20, <1>21, <2>2 DEF new
<1>22. CASE n = 0
  <2> DEFINE q == Published(e, cells)
  <2>1. /\ q \in Screens /\ Sound(q, new) /\ ~q.replaced
        /\ q.mouse = e.mouse /\ q.hot = e.hot /\ q.at = e.at
        /\ q.hidden = e.hidden /\ q.drawn = e.drawn /\ q.depth = e.depth
        /\ q.pending = e.pending /\ q.dirty = e.dirty
        /\ q.surface = e.surface /\ q.saved = e.saved /\ q.masked = e.masked
        /\ \A c \in Cells : IF e.replaced \/ c \in cells
                             THEN Fits(q, new, c, Under(q))
                             ELSE q.shown[c] = e.shown[c]
    BY <1>4, <1>17, <1>19, PublishedFacts
  <2> HIDE DEF q
  <2>2. Under(q) = {} /\ Place(q) = Place(s)
    BY <1>18, <2>1 DEF Under, Place
  <2>3. Covered(q, new)
    BY <1>18, <1>19, <2>1, <2>2 DEF Covered, Fits
  <2>4. ~s.pending
    BY <1>12, <1>22 DEF Good
  <2>5. Current(q, new)
    <3> SUFFICES ASSUME NEW c \in Cells PROVE Fits(q, new, c, Place(q))
      BY DEF Current
    <3>1. CASE e.replaced \/ c \in cells
      BY <2>1, <2>2, <3>1 DEF Fits
    <3>2. CASE ~e.replaced /\ c \notin cells
      <4>1. Fits(s, pic, c, Place(s))
        BY <1>11, <1>17, <2>4, <3>2 DEF Good, Current
      <4> QED
        BY <1>4, <1>11, <1>17, <2>1, <2>2, <3>2, <4>1 DEF Fits
    <3> QED
      BY <3>1, <3>2
  <2>6. Good(q, new)
    BY <1>17, <1>22, <2>1, <2>3, <2>5 DEF Good
  <2> QED
    BY <1>4, <1>12, <1>17, <1>20, <1>22, <2>1, <2>6 DEF new, q
<1> QED
  BY <1>21, <1>22

\* The outline of a drag: the pointer hidden, drawn over, and shown again.
LEMMA OutlineFacts ==
    ASSUME NEW s \in Screens, NEW pic \in Pictures, Good(s, pic),
           NEW cells \in SUBSET Cells
    PROVE  LET d == OutlineDrawn(s, cells)
               new == Painted(pic, cells, Flip)
           IN  d \in Screens /\ new \in Pictures /\ Good(d, new) /\ d.depth = s.depth
<1> DEFINE new == Painted(pic, cells, Flip)
           b == Begun(s)
           h == HiddenNow(b)
           r == Rect(h, cells, Flip)
           d == Presented(r)
           p == Published(d, cells)
           v == ShownNow(p)
<1>1. /\ b \in Screens /\ Good(b, pic) /\ b.depth = s.depth + 1 /\ b.depth > 0
  BY BegunFacts
<1> HIDE DEF b
<1>2. h \in Screens /\ Good(h, pic) /\ h.hidden /\ h.depth = b.depth
  BY <1>1, HiddenNowFacts
<1> HIDE DEF h
<1>3. Flip \in Inks
  BY DEF Inks
<1>4. /\ r \in Screens /\ Alike(r, h) /\ new \in Pictures
      /\ Bare(r, new) /\ Covered(r, new)
  BY <1>2, <1>3, RectFacts DEF Good
<1> HIDE DEF r, new
<1>5. Presentable(r, new)
  BY <1>2, <1>4, BareFacts DEF Presentable, Good, Alike
<1>6. d \in Screens /\ Good(d, new) /\ d.depth = r.depth
  BY <1>4, <1>5, PresentedFacts
<1> HIDE DEF d
<1>7. p \in Screens /\ Good(p, new) /\ p.depth = d.depth
  BY <1>4, <1>6, PublishedGood
<1> HIDE DEF p
<1>8. v \in Screens /\ Good(v, new) /\ v.depth = p.depth
  BY <1>4, <1>7, ShownNowFacts
<1> HIDE DEF v
<1>9. v.depth = s.depth + 1 /\ v.depth > 0 /\ s.depth \in Nat
  BY <1>1, <1>2, <1>4, <1>6, <1>7, <1>8 DEF Alike, Screens
<1>10. Ended(v) \in Screens /\ Good(Ended(v), new) /\ Ended(v).depth = v.depth - 1
  BY <1>4, <1>8, <1>9, EndedFacts
<1>11. OutlineDrawn(s, cells) = Ended(v)
  BY DEF OutlineDrawn, v, p, d, r, h, b
<1> QED
  BY <1>4, <1>9, <1>10, <1>11 DEF new

-----------------------------------------------------------------------------

\* What is left of the screen when everything is drawn at its end.
LEMMA DrawnFacts ==
    ASSUME NEW s \in Screens, NEW pic \in Pictures, Sound(s, pic), Covered(s, pic),
           s.pending => s.depth > 0
    PROVE  LET d == Presented(s) IN d \in Screens /\ Good(d, pic) /\ d.depth = s.depth
<1>1. Presentable(s, pic)
  BY DEF Presentable
<1> QED
  BY <1>1, PresentedFacts

\* With the pointer elsewhere, the surface and the picture have one region.
LEMMA RegionAgrees ==
    ASSUME NEW s \in Screens, NEW pic \in Pictures, Sound(s, pic), NEW c \in Cells,
           s.hidden \/ Region(pic, c) \cap Box(s.at) = {}
    PROVE  /\ Region(s.surface, c) = Region(pic, c)
           /\ Region(pic, c) \in SUBSET Cells
           /\ Region(pic, c) \cap Under(s) = {}
<1> DEFINE Fit(p, I) == c \in I /\ \A d \in I : p[d] = p[c]
<1>1. Under(s) = {} \/ (Under(s) = Box(s.at) /\ Region(pic, c) \cap Under(s) = {})
  BY DEF Under, Sound, Kept
<1>2. \A I \in Intervals : I \in SUBSET Cells
  BY PlaceFacts
<1>3. {c} \in Intervals
  <2>1. {c} = {d \in Cells : c <= d /\ d <= c}
    OBVIOUS
  <2> QED
    BY <2>1 DEF Intervals
<1>4. c \in Region(pic, c)
  BY <1>3 DEF Region
<1>5. c \notin Under(s)
  BY <1>1, <1>4
<1>6. \A I \in Intervals : Fit(pic, I) => I \subseteq Region(pic, c)
  BY DEF Region
<1>7. \A I \in Intervals : Fit(pic, I) => I \cap Under(s) = {}
  BY <1>1, <1>6
<1>8. \A I \in Intervals : Fit(s.surface, I) => I \cap Under(s) = {}
  <2> SUFFICES ASSUME NEW I \in Intervals, Fit(s.surface, I), NEW d \in I, d \in Under(s)
               PROVE  FALSE
    OBVIOUS
  <2>1. s.surface[c] = pic[c] /\ pic[c] \in Colours
    BY <1>5 DEF Sound, Kept, Pictures
  <2>2. s.surface[d] = Pointer
    BY <1>2 DEF Sound, Kept
  <2> QED
    BY <2>1, <2>2 DEF Colours, Black, White, Pointer
<1>9. \A I \in Intervals : I \cap Under(s) = {} => (Fit(pic, I) <=> Fit(s.surface, I))
  BY <1>2, <1>5 DEF Sound, Kept
<1>10. \A I \in Intervals : Fit(pic, I) <=> Fit(s.surface, I)
  BY <1>7, <1>8, <1>9
<1>11. Region(s.surface, c) = Region(pic, c)
  BY <1>10 DEF Region
<1> QED
  BY <1>1, <1>2, <1>11 DEF Region

-----------------------------------------------------------------------------

\* The screen as v_opnvwk() leaves it.
LEMMA InitScreen == ScreenInit => ScreenInv
<1> SUFFICES ASSUME ScreenInit PROVE ScreenInv
  OBVIOUS
<1> DEFINE s == [surface |-> canvas, saved |-> <<>>,
                 mouse |-> 1, hot |-> 0, at |-> 1, hidden |-> TRUE,
                 drawn |-> FALSE, depth |-> 0, pending |-> FALSE, dirty |-> {},
                 shown |-> [c \in Cells |-> Lost],
                 masked |-> {}, replaced |-> FALSE]
<1>1. canvas \in Pictures /\ vdi = Presented(s)
  BY DEF ScreenInit, Pictures, Colours
<1>2. <<>> \in UNION {[S -> Colours \cup {Pointer}] : S \in SUBSET Cells}
  <2>1. <<>> \in [{} -> Colours \cup {Pointer}]
    OBVIOUS
  <2> QED
    BY <2>1
<1>3. s \in Screens
  BY <1>1, <1>2 DEF Screens, Pictures
<1>4. Bare(s, canvas) /\ s.hidden /\ s.dirty = {} /\ s.depth = 0 /\ ~s.pending
  BY DEF Bare
<1> HIDE DEF s
<1>5. Presentable(s, canvas)
  BY <1>1, <1>3, <1>4, BareFacts DEF Presentable
<1>6. Presented(s) \in Screens /\ Good(Presented(s), canvas) /\ Presented(s).depth = 0
  BY <1>1, <1>3, <1>4, <1>5, PresentedFacts
<1> QED
  BY <1>1, <1>6 DEF ScreenInv, ScreenTypeOK, Pictures

\* Every step keeps the invariant.
LEMMA ScreenStep ==
    ASSUME Exposed = {}
    PROVE  ScreenInv /\ [ScreenNext]_screenVars => ScreenInv'
<1> SUFFICES ASSUME ScreenInv, [ScreenNext]_screenVars PROVE ScreenInv'
  OBVIOUS
<1>1. /\ vdi \in Screens /\ vdi.depth <= MaxDepth /\ canvas \in Pictures
      /\ Good(vdi, canvas) /\ Sound(vdi, canvas) /\ Covered(vdi, canvas)
      /\ vdi.pending => vdi.depth > 0
  BY DEF ScreenInv, ScreenTypeOK, Pictures, Good
<1> SUFFICES /\ vdi' \in Screens /\ vdi'.depth <= MaxDepth /\ canvas' \in Pictures
             /\ Good(vdi', canvas')
  BY DEF ScreenInv, ScreenTypeOK, Pictures
<1>2. \A I \in Intervals : I \in SUBSET Cells
  BY PlaceFacts
<1>3. CASE Draw
  <2>1. PICK cells \in Intervals, ink \in Inks :
           /\ vdi' = Presented(Rect(vdi, cells, ink))
           /\ canvas' = Painted(canvas, cells, ink)
    BY <1>3 DEF Draw
  <2> DEFINE d == Rect(vdi, cells, ink)
  <2>2. /\ d \in Screens /\ Alike(d, vdi) /\ canvas' \in Pictures
        /\ Bare(d, canvas') /\ Covered(d, canvas')
    BY <1>1, <1>2, <2>1, RectFacts
  <2> HIDE DEF d
  <2>3. Sound(d, canvas') /\ (d.pending => d.depth > 0)
    BY <1>1, <2>2, BareFacts DEF Alike
  <2>4. Presented(d) \in Screens /\ Good(Presented(d), canvas') /\ Presented(d).depth = d.depth
    BY <2>2, <2>3, DrawnFacts
  <2> QED
    BY <1>1, <2>1, <2>2, <2>4 DEF Alike, d
<1>4. ASSUME NEW cells \in SUBSET Cells, NEW ink \in Inks, cells \cap Under(vdi) = {},
             vdi' = Presented(Rows(vdi, cells, ink)),
             canvas' = Painted(canvas, cells, ink)
      PROVE  /\ vdi' \in Screens /\ vdi'.depth <= MaxDepth /\ canvas' \in Pictures
             /\ Good(vdi', canvas')
  <2> DEFINE d == Rows(vdi, cells, ink)
  <2>1. /\ d \in Screens /\ Alike(d, vdi) /\ canvas' \in Pictures
        /\ Sound(d, canvas') /\ Covered(d, canvas')
    BY <1>1, <1>4, MarkedWrittenFacts DEF Rows
  <2> HIDE DEF d
  <2>2. d.pending => d.depth > 0
    BY <1>1, <2>1 DEF Alike
  <2>3. Presented(d) \in Screens /\ Good(Presented(d), canvas') /\ Presented(d).depth = d.depth
    BY <2>1, <2>2, DrawnFacts
  <2> QED
    BY <1>1, <1>4, <2>1, <2>3 DEF Alike, d
<1>5. CASE DrawPolygon
  <2>1. PICK cells \in Intervals, ink \in Inks :
           /\ Safe("polygon", cells)
           /\ vdi' = Presented(Rows(vdi, cells, ink))
           /\ canvas' = Painted(canvas, cells, ink)
    BY <1>5 DEF DrawPolygon
  <2>2. cells \cap Under(vdi) = {}
    BY <1>1, <2>1 DEF Safe, Under, Sound, Kept
  <2> QED
    BY <1>4, <1>2, <2>1, <2>2
<1>6. CASE FillContour
  <2>1. PICK c \in Cells, ink \in Colours :
           /\ Safe("contour", Region(canvas, c))
           /\ vdi' = Presented(Rows(vdi, Region(vdi.surface, c), ink))
           /\ canvas' = Painted(canvas, Region(canvas, c), ink)
    BY <1>6 DEF FillContour
  <2>2. /\ Region(vdi.surface, c) = Region(canvas, c)
        /\ Region(canvas, c) \in SUBSET Cells
        /\ Region(canvas, c) \cap Under(vdi) = {}
    BY <1>1, <2>1, RegionAgrees DEF Safe
  <2>3. ink \in Inks
    BY <2>1 DEF Inks
  <2> QED
    BY <1>4, <2>1, <2>2, <2>3
<1>7. CASE ClearScreen
  <2> DEFINE all == Cells
             p == Prepared(vdi)
             d == Written(p, all, Black)
  <2>1. /\ vdi.hidden /\ vdi.dirty = {} /\ vdi.depth = 0
        /\ vdi' = Presented(d) /\ canvas' = Painted(canvas, all, Black)
    BY <1>7 DEF ClearScreen, Erased
  <2>2. ~vdi.drawn
    BY <1>1, <2>1 DEF Sound, Kept
  <2>3. p = Synced(vdi)
    BY <2>2 DEF Prepared, Restored
  <2>4. /\ p \in Screens /\ Alike(p, vdi) /\ Bare(p, canvas) /\ p.dirty = vdi.dirty
    <3>1. p \in Screens /\ Alike(p, vdi) /\ Bare(p, canvas)
      BY <1>1, PreparedFacts DEF Sound
    <3> QED
      BY <1>1, <2>2, <2>3, <3>1, SyncedFacts
  <2> HIDE DEF p
  <2>5. Sound(p, canvas) /\ Under(p) = {}
    BY <1>1, <2>4, BareFacts
  <2>6. all \in SUBSET Cells /\ Black \in Inks
    BY DEF Inks, Colours
  <2> HIDE DEF all
  <2>7. /\ d \in Screens /\ Alike(d, p) /\ canvas' \in Pictures /\ Sound(d, canvas')
        /\ d.dirty = p.dirty
    BY <1>1, <2>1, <2>4, <2>5, <2>6, WrittenFacts
  <2> HIDE DEF d
  <2>8. Presentable(d, canvas')
    BY <1>1, <2>1, <2>4, <2>7 DEF Presentable, Alike
  <2>9. Presented(d) \in Screens /\ Good(Presented(d), canvas') /\ Presented(d).depth = d.depth
    BY <2>7, <2>8, PresentedFacts
  <2> QED
    BY <1>1, <2>1, <2>4, <2>7, <2>9 DEF Alike
<1>8. CASE RedrawRegion
  <2>1. PICK cells \in Intervals, ink \in Inks :
           /\ vdi' = RegionRedrawn(vdi, cells, ink)
           /\ canvas' = Painted(canvas, cells, ink)
    BY <1>8 DEF RedrawRegion
  <2> QED
    BY <1>1, <1>2, <2>1, RegionFacts
<1>9. CASE DragOutline
  <2>1. PICK cells \in Intervals :
           /\ vdi' = OutlineDrawn(vdi, cells)
           /\ canvas' = Painted(canvas, cells, Flip)
    BY <1>9 DEF DragOutline
  <2> QED
    BY <1>1, <1>2, <2>1, OutlineFacts
<1>10. CASE BeginUpdate
  <2>1. vdi.depth < MaxDepth /\ vdi' = Begun(vdi) /\ canvas' = canvas
    BY <1>10 DEF BeginUpdate, Quietly
  <2>2. Begun(vdi) \in Screens /\ Good(Begun(vdi), canvas) /\ Begun(vdi).depth = vdi.depth + 1
    BY <1>1, BegunFacts
  <2>3. vdi.depth \in Nat
    BY <1>1 DEF Screens
  <2>4. vdi'.depth <= MaxDepth
    BY <2>1, <2>2, <2>3
  <2> QED
    BY <1>1, <2>1, <2>2, <2>4
<1>11. CASE EndUpdate
  <2>1. vdi.depth > 0 /\ vdi' = Ended(vdi) /\ canvas' = canvas
    BY <1>11 DEF EndUpdate, Quietly
  <2>2. Ended(vdi) \in Screens /\ Good(Ended(vdi), canvas) /\ Ended(vdi).depth = vdi.depth - 1
    BY <1>1, <2>1, EndedFacts
  <2>3. vdi.depth \in Nat
    BY <1>1 DEF Screens
  <2>4. vdi'.depth <= MaxDepth
    BY <1>1, <2>1, <2>2, <2>3
  <2> QED
    BY <1>1, <2>1, <2>2, <2>4
<1>12. CASE HidePointer
  BY <1>1, <1>12, HiddenNowFacts DEF HidePointer, Quietly
<1>13. CASE ShowPointer
  BY <1>1, <1>13, ShownNowFacts DEF ShowPointer, Quietly
<1>14. CASE MoveMouse
  BY <1>1, <1>14, MouseAtFacts DEF MoveMouse, Quietly
<1>15. CASE SetForm
  BY <1>1, <1>15, FormedFacts DEF SetForm, Quietly
<1>16. CASE UpdateLayer
  <2>1. Layered \in SUBSET Cells
    OBVIOUS
  <2> QED
    BY <1>1, <1>16, <2>1, PublishedGood DEF UpdateLayer, Quietly
<1>17. CASE ReplaceFramebuffer
  <2> DEFINE blank == [c \in Cells |-> Lost]
             d == [vdi EXCEPT !.shown = blank, !.replaced = TRUE]
  <2>1. vdi' = d /\ canvas' = canvas
    BY <1>17 DEF ReplaceFramebuffer, Quietly
  <2>2. blank \in [Cells -> Colours \cup {Pointer, Layer, Lost}]
    OBVIOUS
  <2> HIDE DEF blank
  <2>3. /\ d \in Screens /\ d.replaced /\ d.depth = vdi.depth /\ d.pending = vdi.pending
        /\ d.surface = vdi.surface /\ d.saved = vdi.saved /\ d.at = vdi.at
        /\ d.hidden = vdi.hidden /\ d.drawn = vdi.drawn /\ d.masked = vdi.masked
    BY <1>1, <2>2 DEF Screens
  <2> HIDE DEF d
  <2>4. Sound(d, canvas) /\ Covered(d, canvas) /\ Current(d, canvas)
    BY <1>1, <2>3 DEF Sound, Kept, Under, Covered, Current
  <2> QED
    BY <1>1, <2>1, <2>3, <2>4 DEF Good
<1>18. CASE UNCHANGED screenVars
  BY <1>1, <1>18 DEF screenVars
<1> QED
  BY <1>3, <1>5, <1>6, <1>7, <1>8, <1>9, <1>10, <1>11, <1>12, <1>13, <1>14, <1>15,
     <1>16, <1>17, <1>18 DEF ScreenNext

\* The invariant: surface, save-under, marks and display agree with the
\* picture through every drawing call, update and move (cursor.c, vdi_core.c).
THEOREM ScreenInvariant ==
    ASSUME Exposed = {}
    PROVE  ScreenSpec => []ScreenInv
BY InitScreen, ScreenStep, PTL DEF ScreenSpec

\* Every variable keeps its type; updates never end that were not begun
\* (vdi_end_update()).
THEOREM ScreenTypes ==
    ASSUME Exposed = {}
    PROVE  ScreenSpec => []ScreenTypeOK
<1>1. ScreenInv => ScreenTypeOK
  BY DEF ScreenInv
<1> QED
  BY <1>1, ScreenInvariant, PTL

\* What the display shows is what was drawn last, and the pointer where it is
\* now: vdi_present() and the calls before it forget nothing (cursor.c 1-5).
THEOREM DisplayIsDrawing ==
    ASSUME Exposed = {}
    PROVE  ScreenSpec => []ShownIsDrawn
<1>1. ScreenInv => ShownIsDrawn
  <2> SUFFICES ASSUME ScreenInv, ~vdi.replaced, NEW c \in Cells,
                      vdi.depth = 0 \/ c \notin vdi.dirty
               PROVE  \/ vdi.shown[c] = Wanted(c)
                      \/ vdi.shown[c] = Pointer /\ ~vdi.hidden /\ c \in Box(vdi.at)
    BY DEF ShownIsDrawn
  <2>1. Wanted(c) = Due(canvas, c)
    BY DEF Wanted, Due
  <2>2. CASE vdi.depth = 0
    <3>1. ~vdi.pending
      BY <2>2 DEF ScreenInv, Good
    <3> QED
      BY <2>1, <3>1 DEF ScreenInv, Good, Current, Fits, Place
  <2>3. CASE c \notin vdi.dirty
    BY <2>1, <2>3 DEF ScreenInv, Good, Sound, Kept, Covered, Fits, Under
  <2> QED
    BY <2>2, <2>3
<1> QED
  BY <1>1, ScreenInvariant, PTL
=============================================================================
