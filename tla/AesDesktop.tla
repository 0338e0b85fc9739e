----------------------------- MODULE AesDesktop -----------------------------
(***************************************************************************)
(* Who owns what on the shared desktop: windows, the menu bar, keyboard     *)
(* focus, the desktop itself, the form layer and the window of a standard   *)
(* alert.  Every request and click moves some of these, and an application  *)
(* may leave at any time, holding any of them.                              *)
(*                                                                          *)
(* Rectangles are not modelled: a click names the window it falls on.       *)
(* Scheduling is in Gemd; of it only this is left here, that an alert keeps *)
(* its requester waiting while the others go on.                            *)
(***************************************************************************)
EXTENDS Integers, FiniteSets

CONSTANTS Apps,          \* application ids
          Nobody,        \* id 0
          NumWindows,    \* AES_MAX_WINDOWS
          MaxOwn         \* 8: windows one application may create

ASSUME DesktopAssumption ==
    /\ Nobody \notin Apps
    /\ NumWindows \in Nat \ {0} /\ MaxOwn \in Nat \ {0}

Handles == 1..NumWindows
Owners == Apps \cup {Nobody}

VARIABLES
    live,       \* applications in aes_state.apps
    menu,       \* those with menu_visible and a menu_tree
    bar,        \* what the bar shows: the application whose tree is
                \* aes_state.menu_tree, menu_owner_app_id and active_app_id
    window,     \* aes_state.windows, by handle
    above,      \* the pairs of used windows of which the first has the
                \* greater z_order
    focus,      \* input_focus_app_id
    desktop,    \* desktop_owner_app_id
    formOwner,  \* modal_form_owner_app_id
    alert       \* the suspended form_alert(): its window and its application

vars == <<live, menu, bar, window, above, focus, desktop, formOwner, alert>>

NoAlert == [open |-> FALSE, app |-> Nobody, win |-> 0, system |-> FALSE]

Free == [used |-> FALSE, owner |-> Nobody, open |-> FALSE]

\* z_order orders the used windows, each above or below every other.
Ordered(w, z) ==
    \A f, g, h \in Handles :
        /\ <<f, g>> \in z => w[f].used /\ w[g].used /\ <<g, f>> \notin z
        /\ w[f].used /\ w[g].used /\ f # g => <<f, g>> \in z \/ <<g, f>> \in z
        /\ <<f, g>> \in z /\ <<g, h>> \in z => <<f, h>> \in z

TypeOK ==
    /\ live \in SUBSET Apps /\ menu \in SUBSET live
    /\ bar \in [tree : Owners, owner : Owners, active : Owners]
    /\ window \in [Handles -> [used : BOOLEAN, owner : Owners, open : BOOLEAN]]
    /\ \A h \in Handles : window[h].used \/ window[h] = Free
    /\ above \in SUBSET (Handles \X Handles) /\ Ordered(window, above)
    /\ focus \in Owners /\ desktop \in Owners /\ formOwner \in Owners
    /\ alert \in [open : BOOLEAN, app : Owners, win : 0..NumWindows,
                  system : BOOLEAN]

Init ==
    /\ live = {} /\ menu = {}
    /\ bar = [tree |-> Nobody, owner |-> Nobody, active |-> Nobody]
    /\ window = [h \in Handles |-> Free] /\ above = {}
    /\ focus = Nobody /\ desktop = Nobody /\ formOwner = Nobody
    /\ alert = NoAlert

-----------------------------------------------------------------------------
(* The window table *)

\* aes_find_top_window(), as a set of at most one handle.
Tops(w, z) ==
    {h \in Handles : /\ w[h].open
                     /\ \A g \in Handles \ {h} : w[g].open => <<h, g>> \in z}

\* The owner of the top window, or another one's id if there is none.
TopOwner(w, z, other) ==
    IF Tops(w, z) = {} THEN other ELSE w[CHOOSE h \in Tops(w, z) : TRUE].owner

Dropped(z, h) == z \cap ((Handles \ {h}) \X (Handles \ {h}))

\* A z_order greater than all there are, for h among the used windows of w.
Raised(w, z, h) ==
    Dropped(z, h) \cup {<<h, g>> : g \in {g \in Handles \ {h} : w[g].used}}

Owned(a) == {h \in Handles : window[h].used /\ window[h].owner = a}

\* wind_create() takes the first free entry; none if the table is full.
FirstFree == {h \in Handles : /\ ~window[h].used
                              /\ \A g \in 1..(h - 1) : window[g].used}

Created(h, owner, open) ==
    /\ window' = [window EXCEPT ![h] = [used |-> TRUE, owner |-> owner, open |-> open]]
    /\ above' = Raised(window, above, h)

-----------------------------------------------------------------------------
(* The menu bar *)

\* aes_menu_switch_to_app(), with the applications alive and their menus: the
\* owner is left as it is when the tree shown does not change.
SwitchedTo(b, a, alive, menus) ==
    LET active == IF a \in alive THEN a ELSE Nobody
        tree == IF a \in alive \cap menus THEN a ELSE Nobody
    IN  IF tree = b.tree THEN [b EXCEPT !.active = active]
        ELSE [tree |-> tree, owner |-> tree, active |-> active]

\* The windows, their order and the bar, which a closed window moves together.
Desk(b) == [window |-> window, above |-> above, bar |-> b]

\* wind_close(): the bar follows if the top window went and another is left.
Closed(desk, h, menus) ==
    LET w == [desk.window EXCEPT ![h].open = FALSE]
        z == desk.above
    IN  [window |-> w,
         above |-> z,
         bar |-> IF h \in Tops(desk.window, z) /\ Tops(w, z) # {}
                 THEN SwitchedTo(desk.bar, TopOwner(w, z, Nobody), live, menus)
                 ELSE desk.bar]

\* wind_delete() clears the entry.
Deleted(desk, h) == [window |-> [desk.window EXCEPT ![h] = Free],
                     above |-> Dropped(desk.above, h),
                     bar |-> desk.bar]

ClosedAndDeleted(desk, h, menus) == Deleted(Closed(desk, h, menus), h)

-----------------------------------------------------------------------------
(* Requests.  The application of an open alert waits for its answer.        *)

\* Mutant: the session of an open panel can be closed like any other.
NeverWaits(a) == FALSE

\* A panel's requester is served, and closed, only after the panel.
Waiting(a) == alert.open /\ ~alert.system /\ alert.app = a

Requests(a) == a \in live /\ ~Waiting(a)

\* appl_init() makes the newcomer active without switching the bar.
ApplInit(a) ==
    /\ a \notin live
    /\ live' = live \cup {a}
    /\ bar' = [bar EXCEPT !.active = a]
    /\ focus' = a
    /\ UNCHANGED <<menu, window, above, desktop, formOwner, alert>>

\* MENU_BAR with a tree; hiding the application's previous one leaves no trace.
MenuShow(a) ==
    /\ Requests(a)
    /\ menu' = menu \cup {a}
    /\ bar' = [tree |-> a, owner |-> a, active |-> a]
    /\ desktop' = IF desktop = Nobody THEN a ELSE desktop
    /\ UNCHANGED <<live, window, above, focus, formOwner, alert>>

\* Mutant: the bar is emptied for the active application only.
HiddenIfActive(a) == IF bar.active = a
                     THEN [tree |-> Nobody, owner |-> a, active |-> a] ELSE bar

\* menu_bar() with show = 0: only the bar's owner empties it.
HiddenBy(a) == IF bar.owner = a
               THEN [tree |-> Nobody, owner |-> a, active |-> a] ELSE bar

MenuHide(a) ==
    /\ Requests(a)
    /\ menu' = menu \ {a}
    /\ bar' = HiddenBy(a)
    /\ UNCHANGED <<live, window, above, focus, desktop, formOwner, alert>>

WindCreate(a) ==
    /\ Requests(a)
    /\ Cardinality(Owned(a)) < MaxOwn
    /\ \E h \in FirstFree : Created(h, a, FALSE)
    /\ UNCHANGED <<live, menu, bar, focus, desktop, formOwner, alert>>

\* A window that was not open comes to the top, its owner's menu to the bar.
WindOpen(a, h) ==
    /\ Requests(a) /\ h \in Owned(a) /\ ~window[h].open
    /\ window' = [window EXCEPT ![h].open = TRUE]
    /\ above' = Raised(window, above, h)
    /\ bar' = SwitchedTo(bar, a, live, menu)
    /\ UNCHANGED <<live, menu, focus, desktop, formOwner, alert>>

WindClose(a, h) ==
    /\ Requests(a) /\ h \in Owned(a)
    /\ LET closed == Closed(Desk(bar), h, menu)
       IN  window' = closed.window /\ bar' = closed.bar
    /\ UNCHANGED <<live, menu, above, focus, desktop, formOwner, alert>>

\* wind_delete() does not close: the bar stays as it is.
WindDelete(a, h) ==
    /\ Requests(a) /\ h \in Owned(a)
    /\ LET deleted == Deleted(Desk(bar), h)
       IN  window' = deleted.window /\ above' = deleted.above
    /\ UNCHANGED <<live, menu, bar, focus, desktop, formOwner, alert>>

\* aes_top_window()
Topped(h) ==
    /\ UNCHANGED window
    /\ IF window[h].open /\ h \notin Tops(window, above)
       THEN /\ above' = Raised(window, above, h)
            /\ bar' = SwitchedTo(bar, window[h].owner, live, menu)
       ELSE UNCHANGED <<above, bar>>

WindSetTop(a, h) ==
    /\ Requests(a) /\ h \in Owned(a)
    /\ Topped(h)
    /\ UNCHANGED <<live, menu, focus, desktop, formOwner, alert>>

\* form_dial(FMD_START) takes the form layer, and the activity without the bar.
FormStart(a) ==
    /\ Requests(a)
    /\ formOwner' = a /\ focus' = a
    /\ bar' = [bar EXCEPT !.active = a]
    /\ UNCHANGED <<live, menu, window, above, desktop, alert>>

FormFinish(a) ==
    /\ Requests(a)
    /\ formOwner' = IF formOwner = a THEN Nobody ELSE formOwner
    /\ UNCHANGED <<live, menu, bar, window, above, focus, desktop, alert>>

-----------------------------------------------------------------------------
(* Alerts: form_alert() makes a window of the current application's, waits,  *)
(* and closes and deletes that handle whatever has become of it.            *)

OpenAlert(c, system) ==
    /\ ~alert.open
    /\ IF FirstFree = {}
       THEN /\ alert' = [open |-> TRUE, app |-> c, win |-> 0, system |-> system]
            /\ UNCHANGED <<window, above, bar>>
       ELSE \E h \in FirstFree :
            /\ alert' = [open |-> TRUE, app |-> c, win |-> h, system |-> system]
            /\ Created(h, c, TRUE)
            /\ bar' = SwitchedTo(bar, c, live, menu)
    /\ UNCHANGED <<live, menu, focus, desktop, formOwner>>

\* The server's own confirmations (Shutdown in the system menu) run as whoever
\* was served last, or as nobody if he has left.
SystemAlert ==
    /\ desktop # Nobody
    /\ \E c \in live \cup {Nobody} : OpenAlert(c, TRUE)

FormAlert(a) == Requests(a) /\ OpenAlert(a, FALSE)

CloseAlert ==
    /\ alert.open
    /\ alert' = NoAlert
    /\ IF alert.win # 0 /\ window[alert.win].used
       THEN LET desk == ClosedAndDeleted(Desk(bar), alert.win, menu)
            IN  window' = desk.window /\ above' = desk.above /\ bar' = desk.bar
       ELSE UNCHANGED <<window, above, bar>>
    /\ UNCHANGED <<live, menu, focus, desktop, formOwner>>

-----------------------------------------------------------------------------
(* Clicks, which an open alert keeps to itself *)

\* A press on a window: focus and bar at once; most parts also raise it.
ClickWindow(h) ==
    /\ ~alert.open /\ window[h].open
    /\ focus' = window[h].owner
    /\ bar' = SwitchedTo(bar, window[h].owner, live, menu)
    /\ above' \in {above, Raised(window, above, h)}
    /\ UNCHANGED <<live, menu, window, desktop, formOwner, alert>>

\* A press in the form's rectangle; a window that lies there too is raised.
ClickForm ==
    /\ ~alert.open /\ formOwner # Nobody
    /\ focus' = formOwner
    /\ \/ UNCHANGED <<window, above, bar>>
       \/ \E h \in Handles : window[h].used /\ Topped(h)
    /\ UNCHANGED <<live, menu, desktop, formOwner, alert>>

\* A press on the background focuses the desktop owner; the bar stays.
ClickDesktop ==
    /\ ~alert.open /\ desktop # Nobody
    /\ focus' = desktop
    /\ UNCHANGED <<live, menu, bar, window, above, desktop, formOwner, alert>>

-----------------------------------------------------------------------------
(* gemd_cleanup_app() *)

\* The bar's owner leaves: the tree is detached while it still exists.
Detached(a) == IF bar.owner = a
               THEN [tree |-> Nobody, owner |-> Nobody, active |-> a] ELSE bar

\* Mutant: the focus stays with the application that left.
FocusKept(a) == focus

FocusAfter(a) == IF focus = a THEN Nobody ELSE focus

ClosedIfOwn(desk, h, a, menus) ==
    IF desk.window[h].used /\ desk.window[h].owner = a
    THEN ClosedAndDeleted(desk, h, menus) ELSE desk

\* Its windows go one by one, in the order of their handles.
WindowsClosed(a, b, menus) ==
    LET desk[h \in 0..NumWindows] ==
            IF h = 0 THEN Desk(b) ELSE ClosedIfOwn(desk[h - 1], h, a, menus)
    IN  desk[NumWindows]

\* Mutant: the bar falls back to the desktop at once.
FollowsDesktop(desk, a, menus, next) ==
    IF a \in {desk.bar.owner, desk.bar.active}
    THEN SwitchedTo(desk.bar, next, live, menus) ELSE desk.bar

\* The bar goes to the window now on top, or to the desktop owner.
Follows(desk, a, menus, next) ==
    IF a \in {desk.bar.owner, desk.bar.active}
    THEN SwitchedTo(desk.bar, TopOwner(desk.window, desk.above, next), live, menus)
    ELSE desk.bar

\* Mutant: nobody takes over the desktop.
DesktopNotInherited(owner, menus) == {owner}

\* Somebody with a menu takes over a desktop that has lost its owner.
DesktopHeirs(owner, menus) ==
    IF owner # Nobody \/ menus = {} THEN {owner} ELSE menus

Leave(a) ==
    /\ Requests(a)
    /\ live' = live \ {a} /\ menu' = menu \ {a}
    /\ focus' = FocusAfter(a)
    /\ formOwner' = IF formOwner = a THEN Nobody ELSE formOwner
    /\ LET menus == IF bar.owner = a THEN menu \ {a} ELSE menu
           kept == IF desktop = a THEN Nobody ELSE desktop
           desk == WindowsClosed(a, Detached(a), menus)
           followed == Follows(desk, a, menus, kept)
       IN  /\ window' = desk.window /\ above' = desk.above
           /\ desktop' \in DesktopHeirs(kept, menu')
           /\ bar' = IF followed.active \in live' THEN followed
                     ELSE SwitchedTo(followed, TopOwner(window', above', desktop'),
                                     live', menu')
    /\ UNCHANGED alert

Next ==
    \/ SystemAlert \/ CloseAlert \/ ClickForm \/ ClickDesktop
    \/ \E h \in Handles : ClickWindow(h)
    \/ \E a \in Apps :
          \/ ApplInit(a) \/ Leave(a) \/ MenuShow(a) \/ MenuHide(a)
          \/ WindCreate(a) \/ FormStart(a) \/ FormFinish(a) \/ FormAlert(a)
          \/ \E h \in Handles : \/ WindOpen(a, h) \/ WindClose(a, h)
                                \/ WindDelete(a, h) \/ WindSetTop(a, h)

Spec == Init /\ [][Next]_vars

-----------------------------------------------------------------------------
MenuOf(a, menus) == IF a \in menus THEN a ELSE Nobody

\* Whoever leaves, in whatever order and holding whatever, nothing is left in
\* his name: each owner, and each window's owner, is a live application, but for
\* the window of an alert of the server's own (session.c 101-144, 204-217). Every
\* variable keeps its type.
OwnersLive ==
    /\ TypeOK
    /\ {bar.owner, bar.active, focus, desktop, formOwner} \subseteq live \cup {Nobody}
    /\ \A h \in Handles : window[h].used =>
          window[h].owner \in live \/ (alert.system /\ h = alert.win)

\* The tree on the bar is one that a live application has installed and that
\* menu selections are sent to: never one that went with its session, although
\* focus, windows and menus change hands separately (session.c 107-112).
BarIsLive == bar.tree # Nobody => bar.tree \in live \cap menu /\ bar.owner = bar.tree

(***************************************************************************)
(* The alert that was suspended closes its own window and leaves the others *)
(* as they are (main.c 269: restoration keeps the suspended call intact).   *)
(***************************************************************************)
AlertClosesOwn ==
    [][alert.open /\ ~alert'.open =>
          \A h \in Handles : window[h].owner # alert.app => window'[h] = window[h]]_vars

\* An application's suspended alert keeps what it runs with: its application,
\* and the window whose handle it will close (main.c 269).
SuspendedCallIntact ==
    alert.open /\ ~alert.system =>
        /\ alert.app \in live
        /\ alert.win # 0 => alert.win \in Owned(alert.app) /\ window[alert.win].open

\* The exit of the active application, or of the desktop's owner, selects a
\* surviving one if any has a menu (SECURITY.md 117-118).
ExitSelectsSurvivor ==
    [][\A a \in live \ live' :
          menu' # {} => /\ desktop' \in live'
                        /\ bar.active = a /\ ~alert.system => bar'.active \in live']_vars

\* When an application exits that was active, on the bar or on top, the bar
\* follows the window now on top (API_TRANSPORT.md 119); with none left it goes
\* to the desktop owner, if it was the leaver's.
ExitBarFollowsTop ==
    [][\A a \in live \ live' :
          /\ a \in {bar.active, bar.tree, TopOwner(window, above, Nobody)}
             /\ Tops(window', above') # {}
             => LET top == TopOwner(window', above', Nobody)
                IN  bar'.active = top /\ bar'.tree = MenuOf(top, menu')
          /\ a \in {bar.active, bar.tree} /\ Tops(window', above') = {}
             => bar'.active = desktop' /\ bar'.tree = MenuOf(desktop', menu')]_vars
=============================================================================
