----------------------------- MODULE WindowStack -----------------------------
(***************************************************************************)
(* The windows of the AES server and what the screen shows of them.  Every  *)
(* wind_xxx() call, drag, click and exit changes the stack of windows, then *)
(* redraws a few rectangles: the server paints frames, the empty desktop    *)
(* and the modal form where nothing covers them, and asks the applications  *)
(* (WM_REDRAW) for the rest.  An application answers under the update lock, *)
(* drawing what WF_FIRSTXYWH and WF_NEXTXYWH call visible.                  *)
(*                                                                          *)
(* A cell of the screen stands for a block of pixels.  Frames are those of  *)
(* a NAME | MOVER | CLOSER window, one cell thick (the title two), and the  *)
(* shadow is one cell.  The stack is the order of z_order; the counter that *)
(* yields it, the menu bar, sliders, window texts and the limit of 64       *)
(* rectangles to a list are left out.                                       *)
(***************************************************************************)
EXTENDS Integers, Sequences, FiniteSets

CONSTANTS Clients,    \* application ids
          Desktop,    \* the application that owns the desktop, or Nobody
          MaxOwned,   \* 8: windows gemd_authorized() grants an application
          MaxWindows, \* AES_MAX_WINDOWS
          Rects,      \* the outer rectangles windows are given
          Screen,     \* the rectangle of the display
          FormRect,   \* the rectangle of the one modal form
          FormApps,   \* applications that open the form
          Overlaid,   \* windows that carry a presenter overlay
          MaxSteps,   \* bound: changes of the stack
          Careless,   \* steps included: "click", "leave", "raise"
          Nobody      \* no application

Handles == 1..MaxWindows
Rectangles == [x : Int, y : Int, w : Int, h : Int]

ASSUME StackAssumption ==
    /\ MaxWindows \in Nat
    /\ Rects \subseteq {r \in Rectangles : r.w > 0 /\ r.h > 0}
    /\ Screen \in Rectangles
    /\ FormRect \in Rectangles
    /\ Overlaid \subseteq Handles
    /\ Desktop \in Clients \cup {Nobody}
    /\ Nobody \notin Clients \cup Int

VARIABLES desk,       \* aes_state.windows, their order, the modal form
          screen,     \* what each cell shows, and the one WM_REDRAW queued
                      \* per application and window
          client,     \* the WM_REDRAW an application is answering
          steps,      \* changes of the stack so far
          overlay     \* what the presenter shows of each overlay

stackVars == <<desk, screen, client, steps, overlay>>

Rect(x, y, w, h) == [x |-> x, y |-> y, w |-> w, h |-> h]
NoRect == Rect(0, 0, 0, 0)
Cells(r) == (r.x .. r.x + r.w - 1) \X (r.y .. r.y + r.h - 1)
Least(i, j) == IF i < j THEN i ELSE j
Greatest(i, j) == IF i > j THEN i ELSE j

Within(r, s) ==
    LET x0 == Greatest(r.x, s.x)
        y0 == Greatest(r.y, s.y)
        x1 == Least(r.x + r.w, s.x + s.w)
        y1 == Least(r.y + r.h, s.y + s.h)
    IN IF x0 < x1 /\ y0 < y1 THEN Rect(x0, y0, x1 - x0, y1 - y0) ELSE NoRect

Hull(r, s) ==
    LET x0 == Least(r.x, s.x)
        y0 == Least(r.y, s.y)
    IN Rect(x0, y0, Greatest(r.x + r.w, s.x + s.w) - x0,
                    Greatest(r.y + r.h, s.y + s.h) - y0)

\* Mutant: the fragments left and right are as tall as the source.
SubtractTall(source, cover) ==
    LET o == Within(source, cover)
    IN IF o = NoRect THEN <<source>>
       ELSE <<Rect(source.x, source.y, source.w, o.y - source.y),
              Rect(source.x, source.y, o.x - source.x, source.h),
              Rect(o.x + o.w, source.y,
                   source.x + source.w - o.x - o.w, source.h)>>

(***************************************************************************)
(* aes_subtract_rect(): the bands above and below the overlap, then what is *)
(* left of it and right of it (those without a cell count for nothing).     *)
(***************************************************************************)
Subtract(source, cover) ==
    LET o == Within(source, cover)
    IN IF o = NoRect THEN <<source>>
       ELSE <<Rect(source.x, source.y, source.w, o.y - source.y),
              Rect(source.x, o.y + o.h, source.w,
                   source.y + source.h - o.y - o.h),
              Rect(source.x, o.y, o.x - source.x, o.h),
              Rect(o.x + o.w, o.y, source.x + source.w - o.x - o.w, o.h)>>

-----------------------------------------------------------------------------
\* The items of the stack: window handles, and the modal form.  Window 0 is
\* the desktop, below everything.  d.on are those that are open, d.over[i]
\* those of a higher z_order than i.
Form == -1
Items == Handles \cup {Form}
Shadowed(r) ==
    IF r.w <= 0 \/ r.h <= 0 THEN NoRect ELSE Rect(r.x, r.y, r.w + 1, r.h + 1)
Work(r) == Rect(r.x + 1, r.y + 2, r.w - 2, r.h - 3)
TitleStrip(r) == Rect(r.x, r.y, r.w + 1, 2)

Cover(d, i) == IF i = Form THEN FormRect ELSE Shadowed(d.outer[i])
Coverage(d, items) == UNION {Cells(Cover(d, i)) : i \in items}

\* The highest of the items of S.
Uppermost(d, S) == CHOOSE i \in S : d.over[i] \cap S = {}

\* aes_find_top_window(): the form is not asked for.
Top(d) == IF d.on \subseteq {Form} THEN Nobody ELSE Uppermost(d, d.on \ {Form})

Raised(d, i) ==
    [d EXCEPT !.on = @ \cup {i},
              !.over = [j \in Items |-> IF j = i \/ j \notin d.on THEN {}
                                        ELSE @[j] \cup {i}]]

Lowered(d, i) ==
    [d EXCEPT !.on = @ \ {i},
              !.over = [j \in Items |-> IF j = i THEN {} ELSE @[j] \ {i}]]

Members(list) == {list[k] : k \in DOMAIN list}

\* Every rectangle of the list is cut along the cover.
Cut(list, cover) ==
    {r \in UNION {Members(Subtract(s, cover)) : s \in list} :
        r.w > 0 /\ r.h > 0}

(***************************************************************************)
(* aes_clip_layer_rects(): what is left of base once everything above has   *)
(* been cut out of it, one cover at a time, in the order of the table and   *)
(* the modal form last.  The order of the rectangles is left out.           *)
(***************************************************************************)
Visible(d, above, base) ==
    LET left[k \in 0..MaxWindows] ==
            IF k = 0 THEN {r \in {base} : r.w > 0 /\ r.h > 0}
            ELSE IF k \in above THEN Cut(left[k - 1], Cover(d, k))
            ELSE left[k - 1]
    IN IF Form \in above THEN Cut(left[MaxWindows], FormRect)
                         ELSE left[MaxWindows]

Shows(list) == UNION {Cells(r) : r \in list}

-----------------------------------------------------------------------------
\* What the screen shows at a cell.
Line == <<"line">>
Desk == <<"desk">>
Checker == <<"checker">>
FormCell == <<"form">>
WorkCell(h, x, y) == <<h, x, y>>

\* The corners of the cover that neither the frame nor its shadow reaches.
Notches(r) == {<<r.x + r.w, r.y>>, <<r.x, r.y + r.h>>}

\* aes_draw_window_frame(): the border, the box round the work area, the
\* shadow and the title, shaded when the window is on top.
FrameCell(d, h, c) ==
    LET r == d.outer[h]
    IN IF c[2] = r.y + 1 /\ c[1] \in r.x + 1 .. r.x + r.w - 2
       THEN <<"title", h, Top(d) = h>> ELSE Line

Interior(r) == Cells(Rect(r.x + 1, r.y + 1, r.w - 2, r.h - 2))
Framed(r) == Cells(Shadowed(r)) \ (Notches(r) \cup Interior(Work(r)))

Overlaps(r, s) == Within(r, s) # NoRect

\* The item of the stack that is seen at cell c, or 0 for the desktop.
Seen(d, c) ==
    LET here == {i \in d.on : c \in Cells(Cover(d, i))}
    IN IF here = {} THEN 0 ELSE Uppermost(d, here)

\* Where window h is drawn by its application.
Area(d, h) == IF h = 0 THEN Screen ELSE Work(d.outer[h])
OwnerOf(d, h) == IF h = 0 THEN d.desktop ELSE d.owner[h]

\* appl_write() merges a redraw into the one queued for the same window.
Merged(old, r) == IF old = NoRect THEN r ELSE Hull(old, r)

\* What cell c of item i shows once it is redrawn.
Painted(d, i, c, old) ==
    CASE i = 0 -> Checker
      [] i = Form -> IF d.tree THEN FormCell ELSE old
      [] OTHER -> IF c \in Framed(d.outer[i]) THEN FrameCell(d, i, c) ELSE old

(***************************************************************************)
(* aes_redraw_region(), on a screen and its queues, cell by cell (what can  *)
(* be seen as rectangles is VisibleExact's concern): the empty desktop, the *)
(* frames and the form, each where nothing above covers it; and a redraw    *)
(* for every application whose window or desktop was hit.                   *)
(***************************************************************************)
Redraw(d, s, dirty) ==
    LET r == Within(dirty, Screen)
        seen == [c \in Cells(r) |-> Seen(d, c)]
        asked(a, h) == /\ OwnerOf(d, h) = a
                       /\ \E c \in Cells(Within(Area(d, h), r)) : seen[c] = h
    IN [pixels |-> [c \in Cells(Screen) |->
                      IF c \in Cells(r) THEN Painted(d, seen[c], c, s.pixels[c])
                                        ELSE s.pixels[c]],
        mail |-> [a \in Clients |-> [h \in Handles \cup {0} |->
                    IF asked(a, h)
                    THEN Merged(s.mail[a][h], Within(Area(d, h), r))
                    ELSE s.mail[a][h]]]]

RedrawAll(d, s, rects) ==
    LET after[k \in 0..Len(rects)] ==
            IF k = 0 THEN s ELSE Redraw(d, after[k - 1], rects[k])
    IN after[Len(rects)]

\* aes_redraw_window_change(): what the window uncovers, then the window.
Change(d, s, before, after) ==
    RedrawAll(d, s, Append(Subtract(Shadowed(before), Shadowed(after)),
                           Shadowed(after)))

\* aes_redraw_window_title_states()
Titled(d, s, h) ==
    IF h \in d.on THEN Redraw(d, s, TitleStrip(d.outer[h])) ELSE s
Titles(d, s, previous, new) ==
    IF new = previous THEN Titled(d, s, previous)
    ELSE Titled(d, Titled(d, s, previous), new)

\* aes_draw_window_frame() with no clip, then the whole work area.
Reframed(d, s, h) ==
    LET r == d.outer[h]
        asked(a, k) == k = h /\ d.owner[h] = a /\ Cells(Work(r)) # {}
    IN [pixels |-> [c \in Cells(Screen) |->
                      IF c \in Framed(r) THEN FrameCell(d, h, c)
                                         ELSE s.pixels[c]],
        mail |-> [a \in Clients |-> [k \in Handles \cup {0} |->
                    IF asked(a, k) THEN Merged(s.mail[a][k], Work(r))
                    ELSE s.mail[a][k]]]]

\* aes_window_rect_is_obscured(), which asks of windows without their shadow.
Obscured(d, h) ==
    \E i \in d.over[h] \ {Form} : Overlaps(d.outer[i], d.outer[h])

\* Mutant: asked once the window has been raised.
ToppedLate(d, s, h) ==
    LET raised == Raised(d, h)
        t == Titles(raised, s, Top(d), h)
    IN IF Obscured(raised, h) THEN Reframed(raised, t, h) ELSE t

\* aes_top_window()
Topped(d, s, h) ==
    LET raised == Raised(d, h)
        t == Titles(raised, s, Top(d), h)
    IN IF Obscured(d, h) THEN Reframed(raised, t, h) ELSE t

-----------------------------------------------------------------------------
Unmapped == [mapped |-> FALSE, shown |-> FALSE, masked |-> {}]

\* Mutant: only windows cover an overlay.
NotifiedByWindows(d, o) ==
    [h \in Overlaid |->
        IF ~o[h].mapped THEN o[h]
        ELSE IF h \notin d.on THEN [o[h] EXCEPT !.shown = FALSE]
        ELSE [mapped |-> TRUE, shown |-> TRUE,
              masked |-> UNION {Cells(Within(Cover(d, i), Work(d.outer[h]))) :
                                    i \in d.over[h] \ {Form}}]]

(***************************************************************************)
(* gemd_overlay_window_top_changed(): the presenter hides the overlays of   *)
(* windows that are not open and is told what covers the others.            *)
(***************************************************************************)
Notified(d, o) ==
    [h \in Overlaid |->
        IF ~o[h].mapped THEN o[h]
        ELSE IF h \notin d.on THEN [o[h] EXCEPT !.shown = FALSE]
        ELSE [mapped |-> TRUE, shown |-> TRUE,
              masked |-> UNION {Cells(Within(Cover(d, i), Work(d.outer[h]))) :
                                    i \in d.over[h]}]]

Idle == [window |-> Nobody, dirty |-> NoRect, at |-> NoRect,
         locked |-> FALSE, left |-> {}]
Locked == \E a \in Clients : client[a].locked
Alive(a) == a \notin desk.gone

\* A call of its own by application a: it is not answering a redraw, and
\* nobody holds the update lock.
Calls(a) == Alive(a) /\ client[a] = Idle /\ ~Locked
Input == ~Locked

Counted == steps < MaxSteps /\ steps' = steps + 1
Notify == overlay' = Notified(desk', overlay)

\* The desktop starts painted, before the first window.
StackInit ==
    /\ desk = [on |-> {}, over |-> [i \in Items |-> {}],
               outer |-> [h \in Handles |-> NoRect],
               owner |-> [h \in Handles |-> Nobody], desktop |-> Desktop,
               form |-> Nobody, tree |-> FALSE, gone |-> {}]
    /\ screen = [pixels |-> [c \in Cells(Screen) |->
                                IF Desktop = Nobody THEN Checker ELSE Desk],
                 mail |-> [a \in Clients |->
                              [h \in Handles \cup {0} |-> NoRect]]]
    /\ client = [a \in Clients |-> Idle]
    /\ overlay = [h \in Overlaid |-> Unmapped]
    /\ steps = 0

\* wind_create() takes the first free slot of the table.
WindCreate(a, h, r) ==
    /\ Calls(a)
    /\ desk.owner[h] = Nobody
    /\ \A k \in 1..h - 1 : desk.owner[k] # Nobody
    /\ Cardinality({k \in Handles : desk.owner[k] = a}) < MaxOwned
    /\ desk' = [desk EXCEPT !.owner[h] = a, !.outer[h] = r]
    /\ UNCHANGED <<steps, screen, client, overlay>>

\* wind_open() raises a window that was closed, and only redraws one that
\* was open.
WindOpen(a, h, r) ==
    LET was == h \in desk.on
        placed == [desk EXCEPT !.outer[h] = r]
        d == IF was THEN placed ELSE Raised(placed, h)
        s == Change(d, screen, IF was THEN desk.outer[h] ELSE NoRect, r)
    IN /\ Calls(a)
       /\ desk.owner[h] = a
       /\ Counted
       /\ desk' = d
       /\ screen' = IF was THEN s ELSE Titles(d, s, Top(desk), h)
       /\ Notify
       /\ UNCHANGED client

\* The windows and the screen after wind_close(), as a pair.
Closed(d, s, h) ==
    LET e == Lowered(d, h)
        t == Change(e, s, d.outer[h], NoRect)
    IN <<e, IF Top(d) = h THEN Titles(e, t, Nobody, Top(e)) ELSE t>>

WindClose(a, h) ==
    /\ Calls(a)
    /\ desk.owner[h] = a
    /\ Counted
    /\ LET c == Closed(desk, screen, h) IN desk' = c[1] /\ screen' = c[2]
    /\ Notify
    /\ UNCHANGED client

Deleted(d, h) == [d EXCEPT !.owner[h] = Nobody, !.outer[h] = NoRect]

\* wind_delete() repaints nothing: it is called on a closed window.
WindDelete(a, h) ==
    /\ Calls(a)
    /\ desk.owner[h] = a /\ h \notin desk.on
    /\ desk' = Deleted(desk, h)
    /\ UNCHANGED <<steps, screen, client, overlay>>

\* What raising a window brings to light.
Hidden(d, h) == {c \in Cells(Shadowed(d.outer[h])) : Seen(d, c) # h}

\* aes_top_window() looks for windows on top of this one, and not for the
\* form or a mere shadow ("raise").
RaiseWindow(h) ==
    /\ h \in desk.on /\ Top(desk) # h
    /\ Obscured(desk, h) \/ Hidden(desk, h) = {} \/ "raise" \in Careless
    /\ Counted
    /\ desk' = Raised(desk, h)
    /\ screen' = Topped(desk, screen, h)
    /\ Notify
    /\ UNCHANGED client

\* wind_set(WF_TOP), and a press on a window that is not on top.
WindSetTop(a, h) == Calls(a) /\ desk.owner[h] = a /\ RaiseWindow(h)
UserTop(h) == Input /\ RaiseWindow(h)

\* wind_set(WF_WXYWH) with the rectangle the window has redraws nothing.
WindSetRect(a, h, r) ==
    /\ Calls(a)
    /\ desk.owner[h] = a /\ desk.outer[h] # r
    /\ Counted
    /\ desk' = [desk EXCEPT !.outer[h] = r]
    /\ IF h \in desk.on
       THEN screen' = Change(desk', screen, desk.outer[h], r) /\ Notify
       ELSE UNCHANGED <<screen, overlay>>
    /\ UNCHANGED client

(***************************************************************************)
(* aes_track_move(), aes_track_size() and the right button on the fuller:   *)
(* the server gives the window its new rectangle; a title dragged from      *)
(* under another window raises it first.                                    *)
(***************************************************************************)
UserDrag(h, r, raise) ==
    LET up == raise /\ Top(desk) # h
        d == [(IF up THEN Raised(desk, h) ELSE desk) EXCEPT !.outer[h] = r]
        s == IF up THEN Topped(desk, screen, h) ELSE screen
    IN /\ Input
       /\ h \in desk.on
       /\ Counted
       /\ desk' = d
       /\ screen' = Change(d, s, desk.outer[h], r)
       /\ Notify
       /\ UNCHANGED client

-----------------------------------------------------------------------------
\* form_dial(FMD_START): the form covers what is below it at once.
FormDial(a) ==
    /\ a \in FormApps /\ Calls(a)
    /\ desk.form = Nobody
    /\ Counted
    /\ desk' = [Raised(desk, Form) EXCEPT !.form = a]
    /\ Notify
    /\ UNCHANGED <<screen, client>>

\* objc_draw() of the form, then form_do(), from which on the server repaints
\* it; no other call is let in between the two.
FormShow(a) ==
    LET seen == Shows(Visible(desk, desk.over[Form], FormRect))
    IN /\ Calls(a)
       /\ desk.form = a /\ ~desk.tree
       /\ screen' = [screen EXCEPT !.pixels = [c \in Cells(Screen) |->
                        IF c \in seen THEN FormCell ELSE @[c]]]
       /\ desk' = [desk EXCEPT !.tree = TRUE]
       /\ UNCHANGED <<steps, client, overlay>>

Formless(d) == [Lowered(d, Form) EXCEPT !.form = Nobody, !.tree = FALSE]

\* form_dial(FMD_FINISH)
FormFinish(a) ==
    /\ Calls(a)
    /\ desk.form = a
    /\ Counted
    /\ desk' = Formless(desk)
    /\ screen' = Redraw(desk', screen, FormRect)
    /\ Notify
    /\ UNCHANGED client

\* aes_activate_input_target(): a press on the form raises it, and tells
\* the presenter nothing.
FormClick ==
    /\ "click" \in Careless /\ Input
    /\ desk.form # Nobody
    /\ Top(desk) \in desk.over[Form]
    /\ Counted
    /\ desk' = Raised(desk, Form)
    /\ screen' = Redraw(desk', screen, FormRect)
    /\ UNCHANGED <<client, overlay>>

-----------------------------------------------------------------------------
\* An application takes a redraw and reads its work area (WF_CXYWH); one for
\* a window it no longer has is dropped.
TakeRedraw(a, h) ==
    /\ Alive(a) /\ client[a] = Idle /\ ~Locked
    /\ screen.mail[a][h] # NoRect
    /\ screen' = [screen EXCEPT !.mail[a][h] = NoRect]
    /\ client' = IF h = 0 \/ OwnerOf(desk, h) = a
                 THEN [client EXCEPT ![a] =
                        [Idle EXCEPT !.window = h, !.dirty = screen.mail[a][h],
                                     !.at = Area(desk, h)]]
                 ELSE client
    /\ UNCHANGED <<steps, desk, overlay>>

\* aes_build_visible_rects(), for WF_FIRSTXYWH and WF_NEXTXYWH.
Enumerated(d, h) ==
    IF h = 0 THEN Visible(d, d.on, Screen)
    ELSE IF h \notin d.on THEN {}
    ELSE Visible(d, d.over[h], Work(d.outer[h]))

\* BEG_UPDATE and WF_FIRSTXYWH; with nothing to see, END_UPDATE at once.
BeginRedraw(a) ==
    LET list == Enumerated(desk, client[a].window)
    IN /\ Alive(a) /\ client[a].window # Nobody /\ ~Locked
       /\ client' = [client EXCEPT ![a] =
                        IF list = {} THEN Idle
                        ELSE [@ EXCEPT !.locked = TRUE, !.left = list]]
       /\ UNCHANGED <<steps, desk, screen, overlay>>

\* One rectangle of the list is drawn, WF_NEXTXYWH asks for another, and the
\* last is followed by END_UPDATE.
DrawNext(a, r) ==
    LET q == client[a]
        clip == Within(Within(r, q.dirty), q.at)
    IN /\ q.locked /\ r \in q.left
       /\ screen' = [screen EXCEPT !.pixels = [c \in Cells(Screen) |->
                        IF c \notin Cells(clip) THEN @[c]
                        ELSE IF q.window = 0 THEN Desk
                        ELSE WorkCell(q.window, c[1] - q.at.x, c[2] - q.at.y)]]
       /\ client' = [client EXCEPT ![a] =
                        IF q.left = {r} THEN Idle
                        ELSE [q EXCEPT !.left = @ \ {r}]]
       /\ UNCHANGED <<steps, desk, overlay>>

\* gemd_cleanup_app() drops what was addressed to the application.
Purged(m, a) == [m EXCEPT ![a] = [h \in Handles \cup {0} |-> NoRect]]

\* It closes and deletes the windows of a in the order of the table: the
\* windows and the screen, as a pair.
Swept(d, s, a) ==
    LET after[k \in 0..MaxWindows] ==
            IF k = 0 THEN <<d, s>>
            ELSE IF d.owner[k] # a THEN after[k - 1]
            ELSE LET c == Closed(after[k - 1][1], after[k - 1][2], k)
                 IN <<Deleted(c[1], k), c[2]>>
    IN after[MaxWindows]

(***************************************************************************)
(* gemd_cleanup_app(), from APPL_EXIT or a lost connection, even under the  *)
(* update lock of another application: overlays, form, windows, messages.   *)
(***************************************************************************)
CleanupApp(a) ==
    LET left == [desk EXCEPT !.gone = @ \cup {a},
                             !.desktop = IF @ = a THEN Nobody ELSE @]
        ended == desk.form = a
        d == IF ended THEN Formless(left) ELSE left
        s == IF ended THEN Redraw(d, screen, FormRect) ELSE screen
        last == Swept(d, s, a)
        mapped == [h \in Overlaid |-> IF desk.owner[h] = a THEN Unmapped
                                                           ELSE overlay[h]]
    IN /\ Alive(a)
       /\ ended => "leave" \in Careless
       /\ desk' = last[1]
       /\ screen' = [last[2] EXCEPT !.mail = Purged(@, a)]
       /\ client' = [client EXCEPT ![a] = Idle]
       /\ overlay' = IF \A h \in Handles : desk.owner[h] # a THEN mapped
                     ELSE Notified(desk', mapped)
       /\ UNCHANGED steps

\* gem_overlay_create() or gem_overlay_map() on a window of the application.
OverlayMap(a, h) ==
    /\ Calls(a)
    /\ h \in Overlaid /\ desk.owner[h] = a
    /\ overlay' = Notified(desk, [overlay EXCEPT ![h] =
                                    [mapped |-> TRUE, shown |-> TRUE,
                                     masked |-> {}]])
    /\ UNCHANGED <<steps, desk, screen, client>>

StackNext ==
    \/ \E a \in Clients :
         \/ FormDial(a) \/ FormShow(a) \/ FormFinish(a)
         \/ BeginRedraw(a) \/ CleanupApp(a)
         \/ \E h \in Handles \cup {0} : TakeRedraw(a, h)
         \/ \E r \in client[a].left : DrawNext(a, r)
         \/ \E h \in Handles :
              \/ WindClose(a, h) \/ WindDelete(a, h) \/ WindSetTop(a, h)
              \/ OverlayMap(a, h)
              \/ \E r \in Rects :
                   WindCreate(a, h, r) \/ WindOpen(a, h, r) \/ WindSetRect(a, h, r)
    \/ \E h \in Handles :
         \/ UserTop(h)
         \/ \E r \in Rects, raise \in BOOLEAN : UserDrag(h, r, raise)
    \/ FormClick

StackSpec == StackInit /\ [][StackNext]_stackVars

-----------------------------------------------------------------------------
\* The table, the order of the stack, the queues and the applications'
\* answers are what their types say, and one application is locked at most.
StackTypeOK ==
    /\ desk.on \subseteq Items
    /\ desk.over \in [Items -> SUBSET Items]
    /\ desk.outer \in [Handles -> Rects \cup {NoRect}]
    /\ desk.owner \in [Handles -> Clients \cup {Nobody}]
    /\ DOMAIN screen.pixels = Cells(Screen)
    /\ \A a \in Clients, h \in Handles \cup {0} :
          screen.mail[a][h] \in Rectangles
    /\ \A a, b \in Clients : client[a].locked /\ client[b].locked => a = b

\* Application a will draw cell c of window h: a redraw is queued, or it is
\* answering one and has not come to that cell, knowing where the window is.
Owed(a, h, c) ==
    LET q == client[a]
    IN \/ c \in Cells(screen.mail[a][h])
       \/ /\ q.window = h
          /\ c \in Cells(q.dirty)
          /\ q.at = Area(desk, h)
          /\ q.locked => c \in Shows(q.left)

DesktopRight(c) ==
    \/ screen.pixels[c] = Desk
    \/ /\ screen.pixels[c] = Checker
       /\ desk.desktop = Nobody \/ Owed(desk.desktop, 0, c)

WindowRight(h, c) ==
    LET w == Work(desk.outer[h])
    IN \/ c \in Notches(desk.outer[h])
       \/ /\ c \in Framed(desk.outer[h]) \ Cells(w)
          /\ screen.pixels[c] = FrameCell(desk, h, c)
       \/ /\ c \in Cells(w)
          /\ \/ screen.pixels[c] = WorkCell(h, c[1] - w.x, c[2] - w.y)
             \/ Owed(desk.owner[h], h, c)

(***************************************************************************)
(* Every cell shows what is on top there -- the right frame, the work area  *)
(* drawn for where the window is now, the form, the desktop -- or somebody  *)
(* still owes it: no order of opening, raising, dragging, closing, crashing *)
(* and answering leaves another window's pixels on the screen for good       *)
(* (SECURITY_AUDIT.md 211, window_redraw.c 350-368 and 485-503).            *)
(***************************************************************************)
NothingStale ==
    \A c \in Cells(Screen) :
        LET i == Seen(desk, c)
        IN CASE i = 0 -> DesktopRight(c)
             [] i = Form -> desk.tree => screen.pixels[c] = FormCell
             [] OTHER -> WindowRight(i, c)

(***************************************************************************)
(* The rectangles that are left of the desktop, of a work area, of a whole  *)
(* frame or of the form cover what can be seen of it once each, and nothing *)
(* else: what an application is given to draw, and what                     *)
(* aes_redraw_region() is clipped to (window_visible.c 76-172).             *)
(***************************************************************************)
ExactFor(above, base) ==
    LET list == Visible(desk, above, base)
    IN /\ Shows(list) = Cells(base) \ Coverage(desk, above)
       /\ \A r, s \in list : r # s => ~Overlaps(r, s)

VisibleExact ==
    /\ ExactFor(desk.on, Screen)
    /\ \A h \in desk.on \ {Form} :
          \A base \in {Work(desk.outer[h]), Shadowed(desk.outer[h])} :
              ExactFor(desk.over[h], base)
    /\ Form \in desk.on => ExactFor(desk.over[Form], FormRect)

(***************************************************************************)
(* The presenter shows an overlay only over an open window, and never over  *)
(* a window or form in front of it (GEMSCAPE.md 117-120: the overlay        *)
(* excludes the dialog and its shadow during repainting).                   *)
(***************************************************************************)
OverlayMasked ==
    \A h \in Overlaid : overlay[h].mapped /\ desk.owner[h] # Nobody =>
        /\ overlay[h].shown <=> h \in desk.on
        /\ h \in desk.on =>
              overlay[h].masked \cap Cells(Work(desk.outer[h])) =
                  {c \in Cells(Work(desk.outer[h])) : Seen(desk, c) # h}
=============================================================================
