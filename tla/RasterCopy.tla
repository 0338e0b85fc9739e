----------------------------- MODULE RasterCopy -----------------------------
(* Copies from the screen to the screen: vro_cpyfm() in replace mode, without *)
(* scaling (vdi/raster.c), done once for every rectangle of the client's      *)
(* window that can be seen (gemd/dispatch_vdi.c).  Source and destination may *)
(* overlap: what is read must not have been overwritten.                      *)
(*                                                                            *)
(* A pixel's value is the place it had at first: no two are alike, so that    *)
(* runs of one colour, which the code writes at once, have length one.        *)
EXTENDS Integers, Sequences

CONSTANTS PixelsWide,     \* of the screen
          PixelsHigh,
          ByteWidth,      \* pixels in a byte
          MaxShift,       \* bound on the distance of a copy
          XCuts, YCuts,   \* last columns and rows of a first piece
          Exposed         \* overlapping copies that clients make: "sampled",
                          \* by no whole number of bytes or from beyond the
                          \* edge of the screen, or in "pieces"

ASSUME RasterAssumption ==
    /\ PixelsWide \in Nat \ {0} /\ PixelsHigh \in Nat \ {0} /\ ByteWidth \in Nat \ {0}
    /\ MaxShift \in Nat
    /\ \A k \in XCuts : k \in Nat /\ k < PixelsWide - 1
    /\ \A k \in YCuts : k \in Nat /\ k < PixelsHigh - 1

VARIABLES copy,           \* the call: destination, distance, clip rectangles
          pixels,         \* the screen
          done

copyVars == <<copy, pixels, done>>

Columns == 0..PixelsWide - 1
Lines   == 0..PixelsHigh - 1
Shifts  == -MaxShift..MaxShift
Places  == Columns \X Lines
Outside == <<-1, -1>>

Areas == {r \in [x0 : Columns, x1 : Columns, y0 : Lines, y1 : Lines] :
              r.x0 <= r.x1 /\ r.y0 <= r.y1}
Inside(r) == (r.x0..r.x1) \X (r.y0..r.y1)
Moved(c, dx, dy) == <<c[1] - dx, c[2] - dy>>
Sample(p, c) == IF c \in Places THEN p[c] ELSE Outside

WholeScreen == [x0 |-> 0, x1 |-> PixelsWide - 1, y0 |-> 0, y1 |-> PixelsHigh - 1]

\* What can be seen of the window: all of it, or two pieces, in either order.
Halves == {<<[WholeScreen EXCEPT !.x1 = k], [WholeScreen EXCEPT !.x0 = k + 1]>> :
               k \in XCuts}
          \cup {<<[WholeScreen EXCEPT !.y1 = k], [WholeScreen EXCEPT !.y0 = k + 1]>> :
               k \in YCuts}
Clips == {<<WholeScreen>>} \cup Halves \cup {<<h[2], h[1]>> : h \in Halves}

CopyTypeOK ==
    /\ copy \in [dst : Areas, dx : Shifts, dy : Shifts,
                 clips : Clips]
    /\ pixels \in [Places -> Places \cup {Outside}]
    /\ done \in BOOLEAN

-----------------------------------------------------------------------------

\* One row of whole bytes.  The bytes at both edges are read before those
\* between them are moved, and merged through masks.
RowCopied(p, d, y, dx, dy) ==
    LET byte(x)  == x \div ByteWidth
        edge(x)  == byte(x) \in {byte(d.x0), byte(d.x1)}
        from(q, c) == q[Moved(c, dx, dy)]
        moved == [c \in Places |-> IF c \in Inside(d) /\ c[2] = y /\ ~edge(c[1])
                                   THEN from(p, c) ELSE p[c]]
    IN  [c \in Places |-> IF c \in Inside(d) /\ c[2] = y /\ edge(c[1])
                          THEN from(p, c) ELSE moved[c]]

\* Mutant: top row first, whatever the direction.
RowsDown(d, dy) == [i \in 1..d.y1 - d.y0 + 1 |-> d.y0 + i - 1]

\* The rows in an order that leads away from the overlap.
RowOrder(d, dy) ==
    [i \in 1..d.y1 - d.y0 + 1 |-> IF dy > 0 THEN d.y1 - i + 1 ELSE d.y0 + i - 1]

RowsCopied(p, d, dx, dy) ==
    LET order == RowOrder(d, dy)
        rows[n \in 0..Len(order)] ==
            IF n = 0 THEN p ELSE RowCopied(rows[n - 1], d, order[n], dx, dy)
    IN  rows[Len(order)]

\* Pixel by pixel, left to right and down.
LineCopied(p, d, y, dx, dy) ==
    LET line[n \in 0..d.x1 - d.x0 + 1] ==
            LET c == <<d.x0 + n - 1, y>>
            IN  IF n = 0 THEN p
                ELSE [line[n - 1] EXCEPT ![c] = Sample(line[n - 1], Moved(c, dx, dy))]
    IN  line[d.x1 - d.x0 + 1]

PixelsCopied(p, d, dx, dy) ==
    LET lines[n \in 0..d.y1 - d.y0 + 1] ==
            IF n = 0 THEN p ELSE LineCopied(lines[n - 1], d, d.y0 + n - 1, dx, dy)
    IN  lines[d.y1 - d.y0 + 1]

AtLeast(a, b)  == IF a < b THEN b ELSE a
AtMost(a, b) == IF a < b THEN a ELSE b
Clipped(r, clip) == [x0 |-> AtLeast(r.x0, clip.x0), x1 |-> AtMost(r.x1, clip.x1),
                     y0 |-> AtLeast(r.y0, clip.y0), y1 |-> AtMost(r.y1, clip.y1)]

\* The bytes of the source lie on those of the destination, all on the screen.
ByBytes(d, dx, dy) ==
    dx % ByteWidth = 0 /\ \A c \in Inside(d) : Moved(c, dx, dy) \in Places

\* vdi_blit_bitmap(), within one clip rectangle.
Blitted(p, dst, dx, dy, clip) ==
    LET d == Clipped(dst, clip)
    IN  CASE d \notin Areas -> p
          [] d \in Areas /\ ByBytes(d, dx, dy) -> RowsCopied(p, d, dx, dy)
          [] OTHER -> PixelsCopied(p, d, dx, dy)

-----------------------------------------------------------------------------

Overlapping(k) == \E c \in Inside(k.dst) : Moved(c, k.dx, k.dy) \in Inside(k.dst)

CopyInit ==
    /\ copy \in [dst : Areas, dx : Shifts, dy : Shifts,
                 clips : Clips]
    /\ Overlapping(copy) => /\ "sampled" \in Exposed \/ ByBytes(copy.dst, copy.dx, copy.dy)
                            /\ "pieces" \in Exposed \/ Len(copy.clips) = 1
    /\ pixels = [c \in Places |-> c]
    /\ done = FALSE

\* The copy is made once for every rectangle that can be seen.
PiecesCopied(p, k) ==
    LET pieces[n \in 0..Len(k.clips)] ==
            IF n = 0 THEN p ELSE Blitted(pieces[n - 1], k.dst, k.dx, k.dy, k.clips[n])
    IN  pieces[Len(k.clips)]

Copy ==
    /\ ~done
    /\ pixels' = PiecesCopied(pixels, copy)
    /\ done' = TRUE
    /\ UNCHANGED copy

CopyNext == Copy

CopySpec == CopyInit /\ [][CopyNext]_copyVars

-----------------------------------------------------------------------------

\* The destination holds what the source held before, and no other pixel has
\* changed (raster.c 88-93).
CopyExact ==
    done => pixels = [c \in Places |-> IF c \in Inside(copy.dst)
                                       THEN Sample([d \in Places |-> d],
                                                   Moved(c, copy.dx, copy.dy))
                                       ELSE c]
=============================================================================
