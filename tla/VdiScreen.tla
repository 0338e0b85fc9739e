----------------------------- MODULE VdiScreen -----------------------------
(* How drawing reaches the display (vdi/cursor.c, vdi_core.c, the drawing    *)
(* calls of vdi/ and lib/platform/rasta/raster.c).  Everybody draws into one  *)
(* monochrome surface.  The pointer is drawn into it too: what is under it is *)
(* saved, and has to be put back before anything else is drawn.  What was     *)
(* drawn is remembered as one dirty rectangle and shown by the presenter at   *)
(* once, or, inside an update, when the last update ends; the presenter puts  *)
(* an application's colour layer over it, but not over the pointer.           *)
(*                                                                            *)
(* The screen is one row of cells.  Every cell under the pointer's box is     *)
(* taken to be the pointer's, and its pixels differ from drawn ones.          *)
EXTENDS Integers, FiniteSetsExt

CONSTANTS Width,         \* cells of the screen
          PointerWidth,  \* cells under the pointer
          HotSpots,      \* offsets of the pointer's hot spot, by form
          Work,          \* cells of a client's window that can be seen
          Layered,       \* cells covered by an overlay
          MaxDepth,      \* bound on the nesting of updates
          Exposed        \* calls made although the pointer may be over them:
                         \* "polygon", "contour", "clear", "eeos"

ASSUME ScreenAssumption ==
    /\ Width \in Nat \ {0} /\ PointerWidth \in Nat /\ MaxDepth \in Nat
    /\ HotSpots \subseteq Int /\ 0 \in HotSpots
    /\ Layered \subseteq 1..Width /\ Work \subseteq 1..Width

VARIABLES vdi,           \* vdi_state, the surface and the presenter
          canvas         \* what the calls so far have asked for

screenVars == <<vdi, canvas>>

Cells   == 1..Width
Black   == "black"
White   == "white"
Colours == {Black, White}
Pointer == "pointer"
Layer   == "layer"
Lost    == "lost"
Flip    == "flip"          \* XOR writing with a set colour
Inks    == Colours \cup {Flip}

Intervals == {{c \in Cells : i <= c /\ c <= j} : i, j \in Cells} \ {{}}

Screens == [surface : [Cells -> Colours \cup {Pointer}],
            saved : UNION {[S -> Colours \cup {Pointer}] : S \in SUBSET Cells},
            mouse : Cells, hot : HotSpots, at : Int,
            hidden : BOOLEAN, drawn : BOOLEAN,
            depth : Nat, pending : BOOLEAN, dirty : Intervals \cup {{}},
            shown : [Cells -> Colours \cup {Pointer, Layer, Lost}],
            masked : SUBSET Cells, replaced : BOOLEAN]

ScreenTypeOK ==
    /\ vdi \in Screens /\ vdi.depth <= MaxDepth
    /\ canvas \in [Cells -> Colours]

-----------------------------------------------------------------------------
(* The presenter                                                             *)

Box(x)     == (x..x + PointerWidth - 1) \cap Cells
Cleared(x) == (x..x + PointerWidth) \cap Cells     \* what is presented around it

Composed(s, c) ==
    IF c \in Layered /\ c \notin s.masked THEN Layer ELSE s.surface[c]

\* Cells are shown: all of them if the viewer has a new framebuffer.
Published(s, cells) ==
    LET all == IF s.replaced THEN Cells ELSE cells
    IN  [s EXCEPT !.shown = [c \in Cells |-> IF c \in all THEN Composed(s, c) ELSE @[c]],
                  !.replaced = FALSE]

\* The presenter is told where the pointer is.
Synced(s) ==
    [s EXCEPT !.masked = IF s.drawn /\ ~s.hidden THEN Box(s.at) ELSE {}]

-----------------------------------------------------------------------------
(* The pointer, the dirty rectangle and updates                              *)

Hull(S) == IF S = {} THEN {} ELSE Min(S)..Max(S)
Marked(s, cells) == [s EXCEPT !.dirty = Hull(@ \cup cells)]

\* Mutant: the pointer is erased without a mark.
RestoredUnmarked(s) ==
    IF ~s.drawn THEN s
    ELSE [s EXCEPT !.surface = [c \in Cells |-> IF c \in Box(s.at) THEN s.saved[c] ELSE @[c]],
                   !.drawn = FALSE]

\* The pixels under the pointer are put back.
Restored(s) ==
    IF ~s.drawn THEN s
    ELSE Marked([s EXCEPT !.surface = [c \in Cells |->
                              IF c \in Box(s.at) THEN s.saved[c] ELSE @[c]],
                          !.drawn = FALSE],
                Box(s.at))

\* The pointer is drawn, and what it covers saved.
Pointed(s) ==
    IF s.hidden \/ s.drawn THEN s
    ELSE [s EXCEPT !.saved = [c \in Box(s.at) |-> s.surface[c]],
                   !.surface = [c \in Cells |-> IF c \in Box(s.at) THEN Pointer ELSE @[c]],
                   !.drawn = TRUE]

\* What every drawing call should do first.
Prepared(s) == Synced(Restored(s))

\* What every drawing call does last.
Presented(s) ==
    IF s.depth > 0 THEN [s EXCEPT !.pending = TRUE]
    ELSE LET d == Synced(Pointed(s))
             m == IF d.drawn /\ ~d.hidden THEN Marked(d, Cleared(d.at)) ELSE d
         IN  [Published(m, IF m.dirty = {} THEN Cells ELSE m.dirty) EXCEPT !.dirty = {}]

Begun(s) == [s EXCEPT !.depth = @ + 1]

Ended(s) ==
    LET d == [s EXCEPT !.depth = @ - 1]
    IN  IF d.depth = 0 /\ d.pending THEN Presented([d EXCEPT !.pending = FALSE]) ELSE d

\* The end of an update whose drawing is shown by other means.
EndedNoPresent(s) ==
    LET d == [s EXCEPT !.depth = @ - 1]
    IN  [d EXCEPT !.pending = @ /\ d.depth > 0]

\* The mouse at x: the pointer's old and new places are shown, even inside an
\* update.
MouseAt(s, x) ==
    LET d == Synced(Pointed([Restored(s) EXCEPT !.mouse = x, !.at = x - s.hot]))
    IN  IF d.hidden THEN d ELSE Published(d, Cleared(s.at) \cup Cleared(d.at))

HiddenNow(s) ==
    IF s.hidden THEN s
    ELSE Published(Prepared([s EXCEPT !.hidden = TRUE]), Cleared(s.at))

ShownNow(s) == IF s.hidden THEN MouseAt([s EXCEPT !.hidden = FALSE], s.mouse) ELSE s

\* Another form, with its own hot spot.
Formed(s, hot) ==
    LET d == Synced(Pointed([Restored(s) EXCEPT !.hot = hot, !.at = s.mouse - hot]))
    IN  IF d.depth = 0 THEN Published(d, Cells) ELSE [d EXCEPT !.pending = TRUE]

-----------------------------------------------------------------------------
(* Drawing                                                                   *)

Inked(old, ink) == CASE ink # Flip -> ink
                     [] ink = Flip /\ old = Black -> White
                     [] ink = Flip /\ old = White -> Black
                     [] OTHER -> old
Painted(pixels, cells, ink) ==
    [c \in Cells |-> IF c \in cells THEN Inked(pixels[c], ink) ELSE pixels[c]]
Written(s, cells, ink) == [s EXCEPT !.surface = Painted(@, cells, ink)]

\* The cells of one colour around a cell.
Region(pixels, c) ==
    UNION {I \in Intervals : c \in I /\ \A d \in I : pixels[d] = pixels[c]}

\* Lines, bars, text and copies to the screen: vdi_fill_rect() for them all.
Rect(s, cells, ink) == Written(Marked(Prepared(s), cells), cells, ink)

\* Polygons and contours write row by row, and leave the pointer where it is.
Rows(s, cells, ink) == Written(Marked(s, cells), cells, ink)

\* vdi_clear_screen() marks nothing.
Erased(s) == Written(Prepared(s), Cells, Black)

\* AES paints a region of the screen, and shows that much of it.
RegionRedrawn(s, cells, ink) ==
    LET d == Written(Prepared(Begun(s)), cells, ink)
        e == EndedNoPresent(Presented(Marked(d, cells)))
    IN  IF e.depth = 0 THEN Published(e, cells) ELSE e

\* The rubber band of a drag: shown at once, whatever updates are open.
OutlineDrawn(s, cells) ==
    LET d == Presented(Rect(HiddenNow(Begun(s)), cells, Flip))
    IN  Ended(ShownNow(Published(d, cells)))

\* May a call that leaves the pointer where it is draw these cells?
Safe(call, cells) ==
    call \in Exposed \/ vdi.hidden \/ cells \cap Box(vdi.at) = {}

Draw ==
    \E cells \in Intervals, ink \in Inks :
        /\ vdi' = Presented(Rect(vdi, cells, ink))
        /\ canvas' = Painted(canvas, cells, ink)

DrawPolygon ==
    \E cells \in Intervals, ink \in Inks :
        /\ Safe("polygon", cells)
        /\ vdi' = Presented(Rows(vdi, cells, ink))
        /\ canvas' = Painted(canvas, cells, ink)

\* v_contourfill() reads the surface to find what to fill.
FillContour ==
    \E c \in Cells, ink \in Colours :
        /\ Safe("contour", Region(canvas, c))
        /\ vdi.surface[c] # ink
        /\ vdi' = Presented(Rows(vdi, Region(vdi.surface, c), ink))
        /\ canvas' = Painted(canvas, Region(canvas, c), ink)

\* v_clrwk() of a standalone client, or v_eeos(), which is the same call, of
\* one with a window.  Nothing is marked: it is right while nothing else is.
ClearScreen ==
    /\ \/ "clear" \in Exposed
       \/ vdi.hidden /\ vdi.dirty = {} /\ vdi.depth = 0
    /\ \E cells \in IF "eeos" \in Exposed THEN {Cells, Work} ELSE {Cells} :
           /\ vdi' = Presented(Erased(vdi))
           /\ canvas' = Painted(canvas, cells, Black)

RedrawRegion ==
    /\ vdi.depth < MaxDepth
    /\ \E cells \in Intervals, ink \in Inks :
           /\ vdi' = RegionRedrawn(vdi, cells, ink)
           /\ canvas' = Painted(canvas, cells, ink)

DragOutline ==
    /\ vdi.depth < MaxDepth
    /\ \E cells \in Intervals :
           /\ vdi' = OutlineDrawn(vdi, cells)
           /\ canvas' = Painted(canvas, cells, Flip)

Quietly(s) == vdi' = s /\ UNCHANGED canvas

BeginUpdate == vdi.depth < MaxDepth /\ Quietly(Begun(vdi))
EndUpdate   == vdi.depth > 0 /\ Quietly(Ended(vdi))
HidePointer == Quietly(HiddenNow(vdi))
ShowPointer == Quietly(ShownNow(vdi))
MoveMouse   == \E x \in Cells : Quietly(MouseAt(vdi, x))
SetForm     == \E hot \in HotSpots : Quietly(Formed(vdi, hot))

\* The application's layer has a new picture.
UpdateLayer == Layered # {} /\ Quietly(Published(vdi, Layered))

\* The viewer replaces the framebuffer file.
ReplaceFramebuffer ==
    Quietly([vdi EXCEPT !.shown = [c \in Cells |-> Lost], !.replaced = TRUE])

-----------------------------------------------------------------------------

\* v_opnvwk() has cleared the screen and shown it, the pointer still hidden.
ScreenInit ==
    /\ canvas = [c \in Cells |-> Black]
    /\ vdi = Presented([surface |-> canvas, saved |-> <<>>,
                        mouse |-> 1, hot |-> 0, at |-> 1, hidden |-> TRUE,
                        drawn |-> FALSE, depth |-> 0, pending |-> FALSE, dirty |-> {},
                        shown |-> [c \in Cells |-> Lost],
                        masked |-> {}, replaced |-> FALSE])

ScreenNext ==
    \/ Draw \/ DrawPolygon \/ FillContour \/ ClearScreen \/ RedrawRegion \/ DragOutline
    \/ BeginUpdate \/ EndUpdate \/ HidePointer \/ ShowPointer \/ MoveMouse \/ SetForm
    \/ UpdateLayer \/ ReplaceFramebuffer

ScreenSpec == ScreenInit /\ [][ScreenNext]_screenVars

-----------------------------------------------------------------------------

\* What a cell should show: the layer over it, or what was drawn there.
Wanted(c) == IF c \in Layered THEN Layer ELSE canvas[c]

\* Outside updates every cell shows what was drawn there last, or the pointer
\* where it is now; inside one, every cell that is not waiting to be shown
\* does.  No trace of an old pointer, no pixel brought back that was drawn
\* over, no hole in the layer, nothing drawn and not shown (cursor.c 1-5,
\* vdi_core.c 115-127).
ShownIsDrawn ==
    ~vdi.replaced =>
        \A c \in Cells : vdi.depth = 0 \/ c \notin vdi.dirty =>
            vdi.shown[c] \in {Wanted(c)} \cup
                {p \in {Pointer} : ~vdi.hidden /\ c \in Box(vdi.at)}
=============================================================================
