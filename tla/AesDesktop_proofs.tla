------------------------- MODULE AesDesktop_proofs -------------------------
(***************************************************************************)
(* Applications come, open windows, take menus and alerts and leave at any  *)
(* time, and nothing on the desktop is left in their names: for any number  *)
(* of applications and windows.                                             *)
(*                                                                          *)
(* BarIsLive is not inductive: the bar's owner and active application move  *)
(* apart from its tree, and a leaving application's windows close while it  *)
(* is still in the table, each switching the bar, to the leaver even.       *)
(*   BarOf      the bar, for the applications alive and with menus          *)
(*   Table      entries are used or clear, and z_order orders the used ones *)
(*   Windows    every window has a living owner; only the window of an      *)
(*              alert of the server's own may be nobody's                   *)
(*   Others     an owner of anything else lives; no alert, no remains of it *)
(* For the loop of gemd_cleanup_app(), Turn says what has become of windows *)
(* and bar when it has come to handle k.                                    *)
(***************************************************************************)
EXTENDS AesDesktop, WellFoundedInduction, TLAPS

\* A bar that shows nothing of an application that is gone.
BarOf(b, alive, menus) ==
    /\ b \in [tree : Owners, owner : Owners, active : Owners]
    /\ {b.owner, b.active} \subseteq alive \cup {Nobody}
    /\ b.tree # Nobody => b.tree \in alive \cap menus /\ b.owner = b.tree

\* Entries are in use or clear, and ordered.
Table(w, z) ==
    /\ w \in [Handles -> [used : BOOLEAN, owner : Owners, open : BOOLEAN]]
    /\ \A h \in Handles : w[h].used \/ w[h] = Free
    /\ z \in SUBSET (Handles \X Handles)
    /\ Ordered(w, z)

\* Only the window of a system alert can be nobody's.
Windows(w) ==
    \A h \in Handles : w[h].used =>
        w[h].owner \in live \/ (w[h].owner = Nobody /\ alert.system /\ h = alert.win)

\* The applications and what else they own.
Others ==
    /\ live \in SUBSET Apps /\ menu \in SUBSET live
    /\ {focus, desktop, formOwner} \subseteq live \cup {Nobody}
    /\ alert \in [open : BOOLEAN, app : Owners, win : 0..NumWindows, system : BOOLEAN]
    /\ alert.open \/ alert = NoAlert

\* The inductive invariant.
DesktopInv ==
    /\ Others
    /\ BarOf(bar, live, menu)
    /\ Table(window, above)
    /\ Windows(window)
    /\ SuspendedCallIntact

\* It is stronger than what the runs check.
LEMMA InvImplies == DesktopInv => TypeOK /\ OwnersLive /\ BarIsLive
BY DEF DesktopInv, Others, BarOf, Table, Windows, TypeOK, OwnersLive, BarIsLive, Owners

\* A set of naturals has a least element: the induction used below.
LEMMA LeastNat ==
    ASSUME NEW T, T \subseteq Nat, T # {}
    PROVE  \E m \in T : \A y \in T : m <= y
<1> DEFINE Less == OpToRel(<, Nat)
<1>1. IsWellFoundedOn(Less, Nat)
  BY NatLessThanWellFounded
<1>2. \A x, y \in Nat : <<y, x>> \in Less <=> y < x
  BY DEF OpToRel
<1> HIDE DEF Less
<1>3. PICK x \in T : \A y \in T : <<y, x>> \notin Less
  BY <1>1, WFMin
<1>4. \A y \in T : x <= y
  <2> TAKE y \in T
  <2>1. x \in Nat /\ y \in Nat
    BY <1>3
  <2>2. ~(y < x)
    BY <1>2, <1>3, <2>1, Zenon
  <2>3. \A m, n \in Nat : ~(n < m) => m <= n
    OBVIOUS
  <2> QED
    BY <2>1, <2>2, <2>3, Zenon
<1> QED
  BY <1>4

-----------------------------------------------------------------------------
(* gemd_cleanup_app()'s loop over the windows, as a recursive function *)

\* f holds the desks of the first n turns.
Loop(f, n, a, b, menus) ==
    f = [h \in 0..n |-> IF h = 0 THEN Desk(b) ELSE ClosedIfOwn(f[h - 1], h, a, menus)]

\* Such a function exists.
LEMMA LoopExists ==
    ASSUME NEW a, NEW b, NEW menus
    PROVE  \E f : Loop(f, NumWindows, a, b, menus)
<1> DEFINE Is(f, n) == Loop(f, n, a, b, menus)
           Bad == {n \in Nat : ~\E f : Is(f, n)}
<1> USE DEF Loop
<1>1. SUFFICES Bad = {}
  BY DesktopAssumption
<1>2. SUFFICES ASSUME Bad # {} PROVE FALSE
  OBVIOUS
<1>3. PICK m \in Bad : \A y \in Bad : m <= y
  BY <1>2, LeastNat
<1>4. CASE m = 0
  <2> DEFINE g == [h \in 0..0 |-> Desk(b)]
  <2>1. Is(g, 0)
    OBVIOUS
  <2> QED
    BY <1>3, <1>4, <2>1
<1>5. CASE m # 0
  <2>1. m - 1 \in Nat /\ m - 1 \notin Bad
    <3>1. m \in Nat
      OBVIOUS
    <3> HIDE DEF Bad
    <3> QED
      BY <1>3, <1>5, <3>1
  <2>2. PICK f : Is(f, m - 1)
    BY <2>1
  <2> DEFINE g == [h \in 0..m |-> IF h = m THEN ClosedIfOwn(f[m - 1], m, a, menus)
                                  ELSE f[h]]
  <2>3. \A h \in 0..m : g[h] = IF h = 0 THEN Desk(b) ELSE ClosedIfOwn(g[h - 1], h, a, menus)
    <3> TAKE h \in 0..m
    <3>1. CASE h = m
      <4>1. g[h - 1] = f[m - 1]
        BY <3>1, <1>5, <2>1
      <4> QED
        BY <3>1, <4>1, <1>5
    <3>2. CASE h # m
      <4>1. h \in 0..(m - 1) /\ (h # 0 => h - 1 \in 0..(m - 1) /\ h - 1 \in 0..m /\ h - 1 # m)
        BY <3>2, <2>1, <1>3
      <4>2. g[h] = f[h] /\ (h # 0 => g[h - 1] = f[h - 1])
        BY <3>2, <4>1
      <4>3. f[h] = IF h = 0 THEN Desk(b) ELSE ClosedIfOwn(f[h - 1], h, a, menus)
        BY <2>2, <4>1
      <4> QED
        BY <4>2, <4>3
    <3> QED
      BY <3>1, <3>2
  <2>4. g = [h \in 0..m |-> g[h]]
    OBVIOUS
  <2> HIDE DEF g
  <2>5. Is(g, m)
    BY <2>3, <2>4
  <2> QED
    BY <1>3, <2>5
<1> QED
  BY <1>4, <1>5

\* So WindowsClosed is what one turn after the other yields.
LEMMA Pass ==
    ASSUME NEW a, NEW b, NEW menus
    PROVE  \E f : /\ f[0] = Desk(b)
                  /\ \A h \in Handles : f[h] = ClosedIfOwn(f[h - 1], h, a, menus)
                  /\ WindowsClosed(a, b, menus) = f[NumWindows]
<1> DEFINE f == CHOOSE f : Loop(f, NumWindows, a, b, menus)
<1>1. Loop(f, NumWindows, a, b, menus)
  BY LoopExists
<1>2. WindowsClosed(a, b, menus) = f[NumWindows]
  BY DEF WindowsClosed, Loop
<1> HIDE DEF f
<1>3. 0 \in 0..NumWindows /\ \A h \in Handles : h \in 0..NumWindows /\ h # 0
  BY DesktopAssumption DEF Handles
<1> QED
  BY <1>1, <1>2, <1>3 DEF Loop

-----------------------------------------------------------------------------
(* The table and the bar *)

Entries == [used : BOOLEAN, owner : Owners, open : BOOLEAN]

\* The order without h.
LEMMA Drop ==
    ASSUME NEW z \in SUBSET (Handles \X Handles), NEW h \in Handles
    PROVE  /\ Dropped(z, h) \in SUBSET (Handles \X Handles)
           /\ \A f, g \in Handles : <<f, g>> \in Dropped(z, h) <=>
                                      <<f, g>> \in z /\ f # h /\ g # h
BY DEF Dropped

\* The order with h above all that are in use.
LEMMA Raise ==
    ASSUME NEW w, NEW z \in SUBSET (Handles \X Handles), NEW h \in Handles
    PROVE  /\ Raised(w, z, h) \in SUBSET (Handles \X Handles)
           /\ \A f, g \in Handles : <<f, g>> \in Raised(w, z, h) <=>
                 \/ <<f, g>> \in z /\ f # h /\ g # h
                 \/ f = h /\ g # h /\ w[g].used
<1> DEFINE Over == {<<h, g>> : g \in {g \in Handles \ {h} : w[g].used}}
<1>1. Over \in SUBSET (Handles \X Handles)
  OBVIOUS
<1>2. \A f, g \in Handles : <<f, g>> \in Over <=> f = h /\ g # h /\ w[g].used
  OBVIOUS
<1>3. Raised(w, z, h) = Dropped(z, h) \cup Over
  BY DEF Raised
<1> HIDE DEF Over
<1> QED
  BY <1>1, <1>2, <1>3, Drop

\* The entry of h may change in any way that leaves it in use, on top or not.
LEMMA TableRaised ==
    ASSUME NEW w, NEW z, Table(w, z), NEW h \in Handles, NEW r \in Entries, r.used
    PROVE  Table([w EXCEPT ![h] = r], Raised(w, z, h))
<1> DEFINE v == [w EXCEPT ![h] = r]
           y == Raised(w, z, h)
<1>1. v \in [Handles -> Entries] /\ \A g \in Handles : v[g] = IF g = h THEN r ELSE w[g]
  BY DEF Table, Entries
<1>2. z \in SUBSET (Handles \X Handles) /\ Ordered(w, z)
  BY DEF Table
<1>3. /\ y \in SUBSET (Handles \X Handles)
      /\ \A f, g \in Handles : <<f, g>> \in y <=> \/ <<f, g>> \in z /\ f # h /\ g # h
                                                  \/ f = h /\ g # h /\ w[g].used
  BY <1>2, Raise
<1>4. \A g \in Handles : v[g].used \/ v[g] = Free
  BY <1>1 DEF Table
<1> HIDE DEF v, y
<1>5. Ordered(v, y)
  BY <1>1, <1>2, <1>3 DEF Ordered
<1> QED
  BY <1>1, <1>3, <1>4, <1>5 DEF Table, Entries, v, y

\* An entry in use may change without a change of order.
LEMMA TableSet ==
    ASSUME NEW w, NEW z, Table(w, z), NEW h \in Handles, w[h].used,
           NEW r \in Entries, r.used
    PROVE  Table([w EXCEPT ![h] = r], z)
<1> DEFINE v == [w EXCEPT ![h] = r]
<1>1. v \in [Handles -> Entries] /\ \A g \in Handles : v[g] = IF g = h THEN r ELSE w[g]
  BY DEF Table, Entries
<1>2. \A g \in Handles : v[g].used <=> w[g].used
  BY <1>1
<1>3. \A g \in Handles : v[g].used \/ v[g] = Free
  BY <1>1 DEF Table
<1>4. Ordered(v, z)
  BY <1>2 DEF Table, Ordered
<1> QED
  BY <1>1, <1>3, <1>4 DEF Table, Entries

\* Only the windows of K are left.
LEMMA TableRestricted ==
    ASSUME NEW w, NEW z, Table(w, z), NEW K \in SUBSET Handles
    PROVE  Table([g \in Handles |-> IF g \in K THEN w[g] ELSE Free], z \cap (K \X K))
<1> DEFINE v == [g \in Handles |-> IF g \in K THEN w[g] ELSE Free]
           y == z \cap (K \X K)
<1>0. Free \in Entries /\ ~Free.used
  BY DEF Free, Entries, Owners
<1>1. v \in [Handles -> Entries] /\ \A g \in Handles : v[g].used <=> g \in K /\ w[g].used
  BY <1>0 DEF Table, Entries
<1>2. y \in SUBSET (Handles \X Handles)
  BY DEF Table
<1>3. \A f, g \in Handles : <<f, g>> \in y <=> <<f, g>> \in z /\ f \in K /\ g \in K
  OBVIOUS
<1>4. \A g \in Handles : v[g].used \/ v[g] = Free
  BY DEF Table
<1>5. Ordered(w, z)
  BY DEF Table
<1> HIDE DEF v, y
<1>6. Ordered(v, y)
  BY <1>1, <1>3, <1>5 DEF Ordered
<1> QED
  BY <1>1, <1>2, <1>4, <1>6 DEF Table, Entries, v, y

\* wind_delete()
LEMMA TableDeleted ==
    ASSUME NEW w, NEW z, Table(w, z), NEW h \in Handles
    PROVE  Table([w EXCEPT ![h] = Free], Dropped(z, h))
<1> DEFINE K == Handles \ {h}
<1>1. [w EXCEPT ![h] = Free] = [g \in Handles |-> IF g \in K THEN w[g] ELSE Free]
  BY DEF Table
<1>2. Dropped(z, h) = z \cap (K \X K)
  BY DEF Dropped
<1> HIDE DEF K
<1>3. K \in SUBSET Handles
  BY DEF K
<1> QED
  BY <1>1, <1>2, <1>3, TableRestricted

\* aes_menu_switch_to_app() to whomever, alive or not, leaves such a bar.
LEMMA SwitchKeeps ==
    ASSUME NEW b, NEW x, NEW alive \in SUBSET Apps, NEW menus, BarOf(b, alive, menus)
    PROVE  BarOf(SwitchedTo(b, x, alive, menus), alive, menus)
<1> DEFINE s == SwitchedTo(b, x, alive, menus)
<1>1. /\ s \in [tree : Owners, owner : Owners, active : Owners]
      /\ s.active = IF x \in alive THEN x ELSE Nobody
      /\ s.tree = IF x \in alive \cap menus THEN x ELSE Nobody
      /\ (s.tree = b.tree /\ s.owner = b.owner) \/ s.owner = s.tree
  BY DEF SwitchedTo, BarOf, Owners
<1> HIDE DEF s
<1>2. {s.owner, s.active} \subseteq alive \cup {Nobody}
  BY <1>1 DEF BarOf
<1>3. s.tree # Nobody => s.tree \in alive \cap menus /\ s.owner = s.tree
  BY <1>1 DEF BarOf
<1> QED
  BY <1>1, <1>2, <1>3 DEF BarOf, s

-----------------------------------------------------------------------------
(* One window closed and deleted *)

Closing(w, h) == [w EXCEPT ![h].open = FALSE]

\* The bar when wind_close() has closed h.
BarAfter(w, z, c, h, menus) ==
    IF h \in Tops(w, z) /\ Tops(Closing(w, h), z) # {}
    THEN SwitchedTo(c, TopOwner(Closing(w, h), z, Nobody), live, menus) ELSE c

\* wind_close() and wind_delete() together.
LEMMA CloseStep ==
    ASSUME NEW w \in [Handles -> Entries], NEW z, NEW c, NEW h \in Handles, NEW menus
    PROVE  ClosedAndDeleted([window |-> w, above |-> z, bar |-> c], h, menus)
             = [window |-> [w EXCEPT ![h] = Free], above |-> Dropped(z, h),
                bar |-> BarAfter(w, z, c, h, menus)]
<1> DEFINE d == [window |-> w, above |-> z, bar |-> c]
           v == Closing(w, h)
<1>1. Closed(d, h, menus) = [window |-> v, above |-> z, bar |-> BarAfter(w, z, c, h, menus)]
  BY DEF Closed, Closing, BarAfter
<1>2. [v EXCEPT ![h] = Free] = [w EXCEPT ![h] = Free]
  BY DEF Closing
<1> HIDE DEF d, v
<1>3. Deleted([window |-> v, above |-> z, bar |-> BarAfter(w, z, c, h, menus)], h)
        = [window |-> [v EXCEPT ![h] = Free], above |-> Dropped(z, h),
           bar |-> BarAfter(w, z, c, h, menus)]
  BY DEF Deleted
<1>4. ClosedAndDeleted(d, h, menus) = Deleted(Closed(d, h, menus), h)
  BY DEF ClosedAndDeleted
<1>5. ClosedAndDeleted(d, h, menus)
        = [window |-> [w EXCEPT ![h] = Free], above |-> Dropped(z, h),
           bar |-> BarAfter(w, z, c, h, menus)]
  BY <1>1, <1>2, <1>3, <1>4, Zenon
<1> QED
  BY <1>5 DEF d

-----------------------------------------------------------------------------
(* The top window *)

\* No two windows are on top.
LEMMA TopUnique ==
    ASSUME NEW w, NEW z, Table(w, z), NEW s \in Tops(w, z), NEW t \in Tops(w, z)
    PROVE  s = t
BY DEF Tops, Table, Ordered

\* Of open windows one is on top.
LEMMA TopExists ==
    ASSUME NEW w, NEW z, Table(w, z), NEW e \in Handles, w[e].open
    PROVE  Tops(w, z) # {}
<1> DEFINE Upto(n) == {h \in Handles : w[h].open /\ h <= n}
           Topmost(t, n) == /\ t \in Upto(n)
                            /\ \A g \in Upto(n) : g # t => <<t, g>> \in z
           Bad == {n \in Nat : Upto(n) # {} /\ ~\E t : Topmost(t, n)}
<1>1. \A f, g, h \in Handles :
          /\ w[f].open /\ w[g].open /\ f # g => <<f, g>> \in z \/ <<g, f>> \in z
          /\ <<f, g>> \in z /\ <<g, h>> \in z => <<f, h>> \in z
  <2>1. \A h \in Handles : w[h].open => w[h].used
    BY DEF Table, Free
  <2> QED
    BY <2>1 DEF Table, Ordered
<1>2. \A h \in Handles : h \in Nat /\ h >= 1 /\ h <= NumWindows
  BY DesktopAssumption DEF Handles
<1>3. ASSUME Bad # {} PROVE FALSE
  <2>1. Bad \subseteq Nat
    OBVIOUS
  <2>2. PICK m \in Bad : \A y \in Bad : m <= y
    BY <1>3, <2>1, LeastNat
  <2>3. m \in Nat /\ Upto(m) # {} /\ ~\E t : Topmost(t, m)
    OBVIOUS
  <2>4. m - 1 \in Nat /\ ~(m <= m - 1)
    <3>1. PICK h \in Handles : h <= m
      BY <2>3
    <3>2. h \in Nat /\ h >= 1 /\ m \in Nat
      BY <1>2, <2>3
    <3> HIDE DEF Bad, Upto
    <3> QED
      BY <3>1, <3>2
  <2>5. Upto(m - 1) = {} \/ \E t : Topmost(t, m - 1)
    BY <2>2, <2>4
  <2>6. \A h \in Handles : h <= m <=> h <= m - 1 \/ h = m
    <3>1. \A i, j \in Nat : i <= j <=> i <= j - 1 \/ i = j
      OBVIOUS
    <3>2. m \in Nat
      OBVIOUS
    <3> HIDE DEF Bad, Upto
    <3> QED
      BY <1>2, <3>1, <3>2
  <2>7. Upto(m) = Upto(m - 1) \cup {h \in {m} : h \in Handles /\ w[h].open}
    BY <1>2, <2>3, <2>6
  <2>8. CASE Upto(m) = Upto(m - 1)
    BY <2>3, <2>5, <2>8
  <2>9. CASE Upto(m) # Upto(m - 1)
    <3>1. m \in Handles /\ w[m].open /\ Upto(m) = Upto(m - 1) \cup {m}
      BY <2>7, <2>9
    <3>2. CASE Upto(m - 1) = {}
      <4>1. Upto(m) = {m}
        BY <3>1, <3>2
      <4> HIDE DEF Upto
      <4>2. Topmost(m, m)
        BY <4>1
      <4> QED
        BY <2>3, <4>2
    <3>3. ASSUME NEW t, Topmost(t, m - 1) PROVE FALSE
      <4>1. t \in Handles /\ w[t].open /\ \A g \in Upto(m - 1) : g \in Handles
        BY <3>3
      <4>2. CASE t = m
        BY <2>4, <3>3, <4>2
      <4>3. CASE t # m
        <5>1. <<t, m>> \in z \/ <<m, t>> \in z
          BY <1>1, <3>1, <4>1, <4>3
        <5> HIDE DEF Upto
        <5>2. <<t, m>> \in z => Topmost(t, m)
          BY <3>1, <3>3
        <5>3. <<m, t>> \in z => Topmost(m, m)
          BY <1>1, <3>1, <3>3, <4>1
        <5> QED
          BY <2>3, <5>1, <5>2, <5>3
      <4> QED
        BY <4>2, <4>3
    <3> QED
      BY <2>5, <3>2, <3>3
  <2> QED
    BY <2>8, <2>9
<1>4. e \in Upto(NumWindows) /\ NumWindows \in Nat
  BY <1>2, DesktopAssumption
<1>5. PICK t : Topmost(t, NumWindows)
  BY <1>3, <1>4
<1>6. t \in Tops(w, z)
  BY <1>2, <1>5 DEF Tops
<1> QED
  BY <1>6

\* A window that goes leaves the top one on top, or gives way to the next.
LEMMA TopsAfter ==
    ASSUME NEW w, NEW z, Table(w, z), NEW h \in Handles, NEW other
    PROVE  LET v == [w EXCEPT ![h] = Free]
               y == Dropped(z, h)
           IN  /\ Tops(Closing(w, h), z) = Tops(v, y)
               /\ TopOwner(Closing(w, h), z, other) = TopOwner(v, y, other)
               /\ h \notin Tops(w, z) => /\ Tops(w, z) = Tops(v, y)
                                         /\ TopOwner(w, z, other) = TopOwner(v, y, other)
<1> DEFINE v == [w EXCEPT ![h] = Free]
           y == Dropped(z, h)
           u == Closing(w, h)
<1>0. w \in [Handles -> Entries] /\ z \in SUBSET (Handles \X Handles)
  BY DEF Table, Entries
<1>1. /\ \A g \in Handles : g # h => v[g] = w[g] /\ u[g] = w[g]
      /\ ~v[h].open /\ ~u[h].open
  BY <1>0 DEF Closing, Free, Entries
<1>2. \A f, g \in Handles : <<f, g>> \in y <=> <<f, g>> \in z /\ f # h /\ g # h
  BY <1>0, Drop
<1>3. Table(v, y)
  BY TableDeleted
<1> HIDE DEF v, y, u
<1>4. Tops(u, z) = Tops(v, y)
  BY <1>1, <1>2 DEF Tops
<1>5. Tops(v, y) \subseteq Handles \ {h}
  BY <1>1 DEF Tops
<1>6. TopOwner(u, z, other) = TopOwner(v, y, other)
  <2> DEFINE t == CHOOSE g \in Tops(v, y) : TRUE
  <2>1. Tops(v, y) # {} => t \in Tops(v, y)
    OBVIOUS
  <2>2. Tops(v, y) # {} => u[t] = v[t]
    BY <1>1, <1>5, <2>1
  <2> QED
    BY <1>4, <2>2 DEF TopOwner
<1>7. ASSUME h \notin Tops(w, z)
      PROVE  Tops(w, z) = Tops(v, y) /\ TopOwner(w, z, other) = TopOwner(v, y, other)
  <2>1. Tops(w, z) \subseteq Tops(v, y)
    BY <1>1, <1>2, <1>7 DEF Tops
  <2>2. ASSUME NEW t \in Tops(v, y) PROVE t \in Tops(w, z)
    <3>1. t \in Handles /\ w[t].open
      BY <1>1, <1>5 DEF Tops
    <3>2. PICK s : s \in Tops(w, z)
      BY <3>1, TopExists
    <3>3. s \in Tops(v, y)
      BY <2>1, <3>2
    <3>4. s = t
      BY <1>3, <3>3, TopUnique
    <3> QED
      BY <3>2, <3>4
  <2>3. Tops(w, z) = Tops(v, y)
    BY <2>1, <2>2
  <2> DEFINE t == CHOOSE g \in Tops(v, y) : TRUE
  <2>4. Tops(v, y) # {} => t \in Tops(v, y)
    OBVIOUS
  <2>5. Tops(v, y) # {} => w[t] = v[t]
    BY <1>1, <1>5, <2>4
  <2>6. TopOwner(w, z, other) = TopOwner(v, y, other)
    BY <2>3, <2>5 DEF TopOwner
  <2> QED
    BY <2>3, <2>6
<1> QED
  BY <1>4, <1>6, <1>7 DEF v, y, u

\* What is left when the loop has come to handle k.
Kept(a, k) == {g \in Handles : ~(g \in Owned(a) /\ g <= k)}
Left(K) == [g \in Handles |-> IF g \in K THEN window[g] ELSE Free]
Among(K) == above \cap (K \X K)

\* One handle more.
LEMMA KeptSteps ==
    ASSUME NEW a, NEW h \in Handles
    PROVE  /\ Kept(a, 0) = Handles
           /\ h \in Owned(a) => h \in Kept(a, h - 1) /\ Kept(a, h) = Kept(a, h - 1) \ {h}
           /\ h \notin Owned(a) => Kept(a, h) = Kept(a, h - 1)
           /\ Kept(a, NumWindows) = Handles \ Owned(a)
<1>1. \A g \in Handles : g \in Nat /\ ~(g <= 0) /\ g <= NumWindows
  BY DesktopAssumption DEF Handles
<1>2. \A g \in Handles : (g <= h <=> g <= h - 1 \/ g = h) /\ ~(h <= h - 1)
  BY <1>1
<1> QED
  BY <1>1, <1>2 DEF Kept

\* While windows close, the bar shows the top window's owner, or the leaver, or
\* will be switched when his window, now on top, closes.
Shows(w, z, c, a, menus) ==
    \/ a \in {c.owner, c.active}
    \/ Tops(w, z) = {}
    \/ TopOwner(w, z, Nobody) = a
    \/ c.active = TopOwner(w, z, Nobody) /\ c.tree = MenuOf(c.active, menus)

\* Unless it shows the leaver, there is a window on top that will stay.
Stays(w, z, c, a) ==
    \/ a \in {c.owner, c.active}
    \/ Tops(w, z) # {} /\ TopOwner(w, z, Nobody) # a

\* The desk d after the turn for handle k, the loop having begun with bar b.
Turn(b, d, a, menus, k) ==
    \E c : /\ d = [window |-> Left(Kept(a, k)), above |-> Among(Kept(a, k)), bar |-> c]
           /\ BarOf(c, live, menus)
           /\ c.owner = a => c.tree = a
           /\ Shows(window, above, b, a, menus) =>
                 Shows(Left(Kept(a, k)), Among(Kept(a, k)), c, a, menus)
           /\ Stays(window, above, b, a) =>
                 Stays(Left(Kept(a, k)), Among(Kept(a, k)), c, a)

\* The bar when one more of the leaver's windows has closed.
LEMMA BarStep ==
    ASSUME live \in SUBSET Apps, NEW menus \in SUBSET live, NEW a \in live,
           NEW w, NEW z, Table(w, z), Windows(w), NEW h \in Handles, w[h].used, w[h].owner = a,
           NEW c, BarOf(c, live, menus)
    PROVE  LET v == [w EXCEPT ![h] = Free]
               y == Dropped(z, h)
               e == BarAfter(w, z, c, h, menus)
           IN  /\ Shows(w, z, c, a, menus) => Shows(v, y, e, a, menus)
               /\ Stays(w, z, c, a) => Stays(v, y, e, a)
<1> DEFINE v == [w EXCEPT ![h] = Free]
           y == Dropped(z, h)
           e == BarAfter(w, z, c, h, menus)
           x == TopOwner(v, y, Nobody)
<1>1. /\ Tops(Closing(w, h), z) = Tops(v, y)
      /\ TopOwner(Closing(w, h), z, Nobody) = x
      /\ h \notin Tops(w, z) => Tops(w, z) = Tops(v, y) /\ TopOwner(w, z, Nobody) = x
  BY TopsAfter
<1>2. e = IF h \in Tops(w, z) /\ Tops(v, y) # {} THEN SwitchedTo(c, x, live, menus) ELSE c
  BY <1>1 DEF BarAfter
<1>3. x \in live \cup {Nobody}
  <2> DEFINE t == CHOOSE g \in Tops(v, y) : TRUE
  <2>1. Tops(v, y) # {} => t \in Tops(v, y)
    OBVIOUS
  <2>2. \A g \in Handles : v[g].used => v[g] = w[g]
    BY DEF Table, Free
  <2>3. \A g \in Handles : v[g].open => v[g].used
    BY DEF Table, Free
  <2>4. \A g \in Handles : v[g].open => v[g].owner \in live \cup {Nobody}
    BY <2>2, <2>3 DEF Windows
  <2> HIDE DEF v, y
  <2>5. Tops(v, y) # {} => t \in Handles /\ v[t].open
    BY <2>1 DEF Tops
  <2> HIDE DEF t
  <2>6. Tops(v, y) # {} => v[t].owner \in live \cup {Nobody}
    BY <2>4, <2>5
  <2>7. x = IF Tops(v, y) = {} THEN Nobody ELSE v[t].owner
    BY DEF TopOwner, t
  <2> QED
    BY <2>6, <2>7
<1>4. h \in Tops(w, z) => Tops(w, z) # {} /\ TopOwner(w, z, Nobody) = a
  <2> DEFINE t == CHOOSE g \in Tops(w, z) : TRUE
  <2>1. h \in Tops(w, z) => t \in Tops(w, z)
    OBVIOUS
  <2>2. h \in Tops(w, z) => t = h
    BY <2>1, TopUnique
  <2> QED
    BY <2>2 DEF TopOwner
<1>5. a # Nobody /\ Nobody \notin menus
  BY DesktopAssumption
<1> HIDE DEF v, y, e, x
<1>6. CASE h \in Tops(w, z) /\ Tops(v, y) # {}
  <2>1. e.active = x /\ e.tree = MenuOf(x, menus)
    BY <1>2, <1>3, <1>5, <1>6, DesktopAssumption DEF SwitchedTo, MenuOf, BarOf
  <2>2. Shows(v, y, e, a, menus)
    BY <2>1 DEF Shows, x
  <2>3. Stays(v, y, e, a)
    BY <1>6, <2>1 DEF Stays, x
  <2> QED
    BY <2>2, <2>3 DEF v, y, e
<1>7. CASE h \in Tops(w, z) /\ Tops(v, y) = {}
  <2>1. e = c
    BY <1>2, <1>7
  <2>2. Shows(v, y, e, a, menus)
    BY <1>7 DEF Shows
  <2>3. Stays(w, z, c, a) => Stays(v, y, e, a)
    BY <1>4, <1>7, <2>1 DEF Stays
  <2> QED
    BY <2>2, <2>3 DEF v, y, e
<1>8. CASE h \notin Tops(w, z)
  <2>1. e = c /\ Tops(w, z) = Tops(v, y) /\ TopOwner(w, z, Nobody) = TopOwner(v, y, Nobody)
    BY <1>1, <1>2, <1>8 DEF x
  <2>2. Shows(w, z, c, a, menus) => Shows(v, y, e, a, menus)
    BY <2>1 DEF Shows
  <2>3. Stays(w, z, c, a) => Stays(v, y, e, a)
    BY <2>1 DEF Stays
  <2> QED
    BY <2>2, <2>3 DEF v, y, e
<1> QED
  BY <1>6, <1>7, <1>8

\* A turn for the next handle, whether the leaver's or not.
LEMMA LoopStep ==
    ASSUME Table(window, above), Windows(window), live \in SUBSET Apps,
           NEW menus \in SUBSET live, NEW a \in live,
           NEW b, NEW d, NEW h \in Handles, Turn(b, d, a, menus, h - 1)
    PROVE  Turn(b, ClosedIfOwn(d, h, a, menus), a, menus, h)
<1> DEFINE K == Kept(a, h - 1)
           w == Left(K)
           z == Among(K)
<1>0. PICK c : /\ d = [window |-> w, above |-> z, bar |-> c]
               /\ BarOf(c, live, menus)
               /\ c.owner = a => c.tree = a
               /\ Shows(window, above, b, a, menus) => Shows(w, z, c, a, menus)
               /\ Stays(window, above, b, a) => Stays(w, z, c, a)
  BY DEF Turn
<1>1. h \in Owned(a) => h \in K /\ Kept(a, h) = K \ {h}
  BY KeptSteps
<1>2. h \notin Owned(a) => Kept(a, h) = K
  BY KeptSteps
<1>3. K \in SUBSET Handles
  BY DEF Kept
<1>4. d.window = w
  BY <1>0
<1> HIDE DEF K
<1>5. /\ h \in Owned(a) => w[h].used /\ w[h].owner = a
      /\ w[h].used /\ w[h].owner = a => h \in Owned(a)
  <2>1. w[h] = IF h \in K THEN window[h] ELSE Free
    BY DEF Left
  <2>2. ~Free.used
    BY DEF Free
  <2> QED
    BY <1>1, <2>1, <2>2 DEF Owned
<1>6. w \in [Handles -> Entries]
  <2>1. Table(w, z)
    BY <1>3, TableRestricted DEF Left, Among
  <2> QED
    BY <2>1 DEF Table, Entries
<1>7. CASE h \notin Owned(a)
  <2>1. ClosedIfOwn(d, h, a, menus) = d
    BY <1>4, <1>5, <1>7 DEF ClosedIfOwn
  <2> QED
    BY <1>0, <1>2, <1>7, <2>1 DEF Turn
<1>8. CASE h \in Owned(a)
  <2> DEFINE e == BarAfter(w, z, c, h, menus)
             J == K \ {h}
  <2>1. ClosedIfOwn(d, h, a, menus)
          = [window |-> [w EXCEPT ![h] = Free], above |-> Dropped(z, h), bar |-> e]
    <3>1. ClosedIfOwn(d, h, a, menus) = ClosedAndDeleted(d, h, menus)
      BY <1>4, <1>5, <1>8 DEF ClosedIfOwn
    <3> HIDE DEF w, z
    <3> QED
      BY <1>0, <1>6, <3>1, CloseStep
  <2>2. [w EXCEPT ![h] = Free] = Left(J)
    BY <1>3 DEF Left
  <2>3. Dropped(z, h) = Among(J)
    BY <1>3 DEF Dropped, Among
  <2>4. BarOf(e, live, menus)
    <3> HIDE DEF w, z
    <3>1. e = c \/ \E x : e = SwitchedTo(c, x, live, menus)
      BY DEF BarAfter
    <3> HIDE DEF e
    <3> QED
      BY <1>0, <3>1, SwitchKeeps
  <2>5. e.owner = a => e.tree = a
    <3> HIDE DEF w, z
    <3>1. e = c \/ \E x : e = SwitchedTo(c, x, live, menus)
      BY DEF BarAfter
    <3> HIDE DEF e
    <3>2. ASSUME NEW x, e = SwitchedTo(c, x, live, menus) PROVE e.owner = a => e.tree = a
      BY <1>0, <3>2 DEF SwitchedTo, BarOf
    <3> QED
      BY <1>0, <3>1, <3>2
  <2>6. /\ Shows(w, z, c, a, menus) => Shows(Left(J), Among(J), e, a, menus)
        /\ Stays(w, z, c, a) => Stays(Left(J), Among(J), e, a)
    <3>1. Table(w, z)
      BY <1>3, TableRestricted DEF Left, Among
    <3>2. Windows(w)
      BY DEF Windows, Left, Free
    <3> HIDE DEF w, z, e
    <3>3. /\ Shows(w, z, c, a, menus) =>
                Shows([w EXCEPT ![h] = Free], Dropped(z, h), e, a, menus)
          /\ Stays(w, z, c, a) => Stays([w EXCEPT ![h] = Free], Dropped(z, h), e, a)
      BY <1>0, <1>5, <1>8, <3>1, <3>2, BarStep DEF e
    <3> QED
      BY <2>2, <2>3, <3>3
  <2> HIDE DEF e, w, z
  <2> QED
    BY <1>0, <1>1, <1>8, <2>1, <2>2, <2>3, <2>4, <2>5, <2>6 DEF Turn
<1> QED
  BY <1>7, <1>8

\* What gemd_cleanup_app() finds after its loop.
LEMMA LoopEnd ==
    ASSUME Table(window, above), Windows(window), live \in SUBSET Apps,
           NEW menus \in SUBSET live, NEW a \in live,
           NEW b, BarOf(b, live, menus), b.owner = a => b.tree = a
    PROVE  Turn(b, WindowsClosed(a, b, menus), a, menus, NumWindows)
<1>1. PICK f : /\ f[0] = Desk(b)
               /\ \A h \in Handles : f[h] = ClosedIfOwn(f[h - 1], h, a, menus)
               /\ WindowsClosed(a, b, menus) = f[NumWindows]
  BY Pass
<1> DEFINE Bad == {n \in 0..NumWindows : ~Turn(b, f[n], a, menus, n)}
<1>2. Turn(b, f[0], a, menus, 0)
  <2>1. Left(Handles) = window /\ Among(Handles) = above
    BY DEF Left, Among, Table
  <2>2. Kept(a, 0) = Handles
    BY DesktopAssumption DEF Kept, Handles
  <2>3. f[0] = [window |-> Left(Kept(a, 0)), above |-> Among(Kept(a, 0)), bar |-> b]
    BY <1>1, <2>1, <2>2 DEF Desk
  <2>4. /\ Left(Kept(a, 0)) = window /\ Among(Kept(a, 0)) = above
    BY <2>1, <2>2
  <2> QED
    BY <2>3, <2>4 DEF Turn
<1>3. SUFFICES Bad = {}
  BY <1>1, DesktopAssumption
<1>4. SUFFICES ASSUME Bad # {} PROVE FALSE
  OBVIOUS
<1>5. Bad \subseteq Nat
  BY DesktopAssumption
<1>6. PICK m \in Bad : \A y \in Bad : m <= y
  BY <1>4, <1>5, LeastNat
<1>7. m \in 0..NumWindows /\ ~Turn(b, f[m], a, menus, m)
  OBVIOUS
<1>8. m \in Handles /\ m - 1 \in 0..NumWindows /\ ~(m <= m - 1)
  <2>1. m # 0
    BY <1>2, <1>7
  <2> QED
    BY <1>7, <2>1, DesktopAssumption DEF Handles
<1>9. Turn(b, f[m - 1], a, menus, m - 1)
  BY <1>6, <1>8
<1>10. Turn(b, f[m], a, menus, m)
  BY <1>1, <1>8, <1>9, LoopStep
<1> QED
  BY <1>7, <1>10

-----------------------------------------------------------------------------
(* The steps *)

\* What a new entry is.
LEMMA EntriesFacts ==
    ASSUME NEW a \in Owners, NEW o \in BOOLEAN
    PROVE  [used |-> TRUE, owner |-> a, open |-> o] \in Entries
BY DEF Entries

\* Raising a window changes no entry.
LEMMA RaisedOnly ==
    ASSUME NEW h \in Handles, Table(window, above), window[h].used
    PROVE  Table(window, Raised(window, above, h))
<1>1. window[h] \in Entries /\ window = [window EXCEPT ![h] = window[h]]
  BY DEF Table, Entries
<1> DEFINE r == window[h]
<1>2. r \in Entries /\ r.used
  BY <1>1
<1> HIDE DEF r
<1>3. Table([window EXCEPT ![h] = r], Raised(window, above, h))
  BY <1>2, TableRaised
<1> QED
  BY <1>1, <1>3 DEF r

\* A server that has just started.
LEMMA InitStep == Init => DesktopInv
<1> SUFFICES ASSUME Init PROVE DesktopInv
  OBVIOUS
<1>1. Others
  BY DesktopAssumption DEF Init, Others, NoAlert, Owners
<1>2. BarOf(bar, live, menu)
  BY DEF Init, BarOf, Owners
<1>3. Table(window, above)
  BY DEF Init, Table, Ordered, Free, Owners
<1>4. Windows(window)
  BY DEF Init, Windows, Free
<1>5. SuspendedCallIntact
  BY DEF Init, SuspendedCallIntact, NoAlert
<1> QED
  BY <1>1, <1>2, <1>3, <1>4, <1>5 DEF DesktopInv

\* Requests that move the bar, the focus or the form layer, but no window.
LEMMA BarSteps ==
    ASSUME DesktopInv, NEW a \in Apps,
           ApplInit(a) \/ MenuShow(a) \/ MenuHide(a) \/ FormStart(a) \/ FormFinish(a)
    PROVE  DesktopInv'
<1> USE DEF DesktopInv
<1>1. Table(window, above)'
  BY DEF ApplInit, MenuShow, MenuHide, FormStart, FormFinish, Table, Ordered
<1>2. live \subseteq live' /\ UNCHANGED <<window, alert>>
  BY DEF ApplInit, MenuShow, MenuHide, FormStart, FormFinish
<1>3. Windows(window)'
  BY <1>2 DEF Windows
<1>4. SuspendedCallIntact'
  BY <1>2 DEF SuspendedCallIntact, Owned
<1>5. Others'
  BY DEF Others, ApplInit, MenuShow, MenuHide, FormStart, FormFinish, Requests
<1>6. BarOf(bar, live, menu)'
  <2>1. a \in Owners
    BY DEF Owners
  <2>2. CASE ApplInit(a)
    BY <2>1, <2>2 DEF Others, BarOf, ApplInit
  <2>3. CASE MenuShow(a)
    BY <2>1, <2>3 DEF Others, BarOf, MenuShow, Requests
  <2>4. CASE MenuHide(a)
    BY <2>1, <2>4 DEF Others, BarOf, MenuHide, HiddenBy, Requests, Owners
  <2>5. CASE FormStart(a)
    BY <2>1, <2>5 DEF Others, BarOf, FormStart, Requests
  <2>6. CASE FormFinish(a)
    BY <2>6 DEF BarOf, FormFinish
  <2> QED
    BY <2>2, <2>3, <2>4, <2>5, <2>6
<1> QED
  BY <1>1, <1>3, <1>4, <1>5, <1>6

\* Clicks raise a window at most.
LEMMA ClickSteps ==
    ASSUME DesktopInv,
           ClickForm \/ ClickDesktop \/ \E h \in Handles : ClickWindow(h)
    PROVE  DesktopInv'
<1> USE DEF DesktopInv
<1>1. UNCHANGED <<live, menu, window, desktop, formOwner, alert>> /\ ~alert.open
  BY DEF ClickForm, ClickDesktop, ClickWindow, Topped
<1>2. above' = above \/ \E h \in Handles : window[h].used /\ above' = Raised(window, above, h)
  <2>1. \A h \in Handles : window[h].open => window[h].used
    BY DEF Table, Free
  <2> QED
    BY <2>1 DEF ClickForm, ClickDesktop, ClickWindow, Topped
<1>3. bar' = bar \/ \E x : bar' = SwitchedTo(bar, x, live, menu)
  BY DEF ClickForm, ClickDesktop, ClickWindow, Topped
<1>4. focus' \in live \cup {Nobody}
  <2>1. \A h \in Handles : window[h].open => window[h].owner \in live \cup {Nobody}
    BY DEF Table, Free, Windows
  <2> QED
    BY <2>1 DEF ClickForm, ClickDesktop, ClickWindow, Others
<1>5. Others'
  BY <1>1, <1>4 DEF Others
<1>6. BarOf(bar, live, menu)'
  <2>1. live \in SUBSET Apps
    BY DEF Others
  <2>2. BarOf(bar', live, menu)
    BY <1>3, <2>1, SwitchKeeps
  <2> QED
    BY <1>1, <2>2 DEF BarOf
<1>7. Table(window, above)'
  <2>1. Table(window, above')
    BY <1>2, RaisedOnly
  <2> QED
    BY <1>1, <2>1 DEF Table, Ordered
<1>8. Windows(window)'
  BY <1>1 DEF Windows
<1>9. SuspendedCallIntact'
  BY <1>1 DEF SuspendedCallIntact
<1> QED
  BY <1>5, <1>6, <1>7, <1>8, <1>9

\* Requests about a window change one entry, the requester's own or a free one.
LEMMA WindowSteps ==
    ASSUME DesktopInv, NEW a \in Apps, NEW h \in Handles,
           \/ WindOpen(a, h) \/ WindClose(a, h) \/ WindDelete(a, h) \/ WindSetTop(a, h)
           \/ WindCreate(a)
    PROVE  DesktopInv'
<1> USE DEF DesktopInv
<1>1. UNCHANGED <<live, menu, focus, desktop, formOwner, alert>> /\ Requests(a)
  BY DEF WindOpen, WindClose, WindDelete, WindSetTop, WindCreate
<1>2. bar' = bar \/ \E x : bar' = SwitchedTo(bar, x, live, menu)
  BY DEF WindOpen, WindClose, WindDelete, WindSetTop, WindCreate, Topped, Closed, Desk
<1> DEFINE Put(g, r) == /\ r \in Entries /\ r.used /\ r.owner = a
                        /\ window' = [window EXCEPT ![g] = r]
                        /\ \/ above' = Raised(window, above, g)
                           \/ above' = above /\ g \in Owned(a)
           Edit(g) == /\ g \in Owned(a) \/ ~window[g].used
                      /\ \/ window' = window /\ above' = above
                         \/ window' = [window EXCEPT ![g] = Free] /\ above' = Dropped(above, g)
                         \/ \E r : Put(g, r)
<1>3. \E g \in Handles : Edit(g)
  <2>0. a \in Owners /\ window \in [Handles -> Entries]
    BY DEF Owners, Table, Entries
  <2>1. CASE WindOpen(a, h)
    <3>1. [window[h] EXCEPT !.open = TRUE] \in Entries
      BY <2>0 DEF Entries
    <3> DEFINE r == [window[h] EXCEPT !.open = TRUE]
    <3>2. /\ h \in Owned(a) /\ r.used /\ r.owner = a
          /\ window' = [window EXCEPT ![h] = r] /\ above' = Raised(window, above, h)
      BY <2>0, <2>1 DEF WindOpen, Owned, Entries
    <3> HIDE DEF r
    <3> QED
      BY <3>1, <3>2 DEF r
  <2>2. CASE WindClose(a, h)
    <3>1. [window[h] EXCEPT !.open = FALSE] \in Entries
      BY <2>0 DEF Entries
    <3> DEFINE r == [window[h] EXCEPT !.open = FALSE]
    <3>2. /\ h \in Owned(a) /\ r.used /\ r.owner = a
          /\ window' = [window EXCEPT ![h] = r] /\ above' = above
      BY <2>0, <2>2 DEF WindClose, Owned, Entries, Closed, Desk
    <3> HIDE DEF r
    <3> QED
      BY <3>1, <3>2 DEF r
  <2>3. CASE WindDelete(a, h)
    BY <2>3 DEF WindDelete, Deleted, Desk
  <2>4. CASE WindSetTop(a, h)
    <3>1. h \in Owned(a)
      BY <2>4 DEF WindSetTop
    <3> DEFINE r == window[h]
    <3>2. r \in Entries /\ r.used /\ r.owner = a /\ window' = [window EXCEPT ![h] = r]
      BY <2>0, <2>4, <3>1 DEF WindSetTop, Topped, Owned
    <3>3. above' = above \/ above' = Raised(window, above, h)
      BY <2>4 DEF WindSetTop, Topped
    <3> HIDE DEF r
    <3> QED
      BY <3>1, <3>2, <3>3
  <2>5. CASE WindCreate(a)
    <3>1. PICK g \in FirstFree : Created(g, a, FALSE)
      BY <2>5 DEF WindCreate
    <3> DEFINE r == [used |-> TRUE, owner |-> a, open |-> FALSE]
    <3>2. r \in Entries /\ r.used /\ r.owner = a
      BY <2>0, EntriesFacts
    <3>3. g \in Handles /\ ~window[g].used
      BY DEF FirstFree
    <3>4. window' = [window EXCEPT ![g] = r] /\ above' = Raised(window, above, g)
      BY <3>1 DEF Created
    <3> HIDE DEF r
    <3>5. Put(g, r)
      BY <3>2, <3>4
    <3> HIDE DEF Put
    <3>6. Edit(g)
      BY <3>3, <3>5
    <3> HIDE DEF Edit
    <3> QED
      BY <3>3, <3>6
  <2> QED
    BY <2>1, <2>2, <2>3, <2>4, <2>5
<1>4. PICK g \in Handles : Edit(g)
  BY <1>3
<1>5. Others'
  BY <1>1 DEF Others
<1>6. BarOf(bar, live, menu)'
  <2>1. live \in SUBSET Apps
    BY DEF Others
  <2>2. BarOf(bar', live, menu)
    BY <1>2, <2>1, SwitchKeeps
  <2> QED
    BY <1>1, <2>2 DEF BarOf
<1>7. Table(window', above')
  <2>1. g \in Owned(a) => window[g].used
    BY DEF Owned
  <2> QED
    BY <1>4, <2>1, TableDeleted, TableRaised, TableSet
<1>8. window \in [Handles -> Entries] /\ \A f \in Handles : f # g => window'[f] = window[f]
  BY <1>4 DEF Table, Entries
<1>9. Windows(window)'
  <2>1. window'[g].used => window'[g].owner = a \/ window'[g] = window[g]
    BY <1>4, <1>8 DEF Free
  <2>2. a \in live
    BY <1>1 DEF Requests
  <2> QED
    BY <1>1, <1>8, <2>1, <2>2 DEF Windows
<1>10. SuspendedCallIntact'
  <2>1. alert.open /\ ~alert.system => alert.app # a
    BY <1>1 DEF Requests, Waiting
  <2>2. alert.open /\ ~alert.system /\ alert.win # 0 =>
          alert.win \in Owned(alert.app) /\ window[alert.win].open
    BY DEF SuspendedCallIntact
  <2>3. alert.open /\ ~alert.system /\ alert.win # 0 =>
          alert.win \in Handles /\ alert.win # g
    BY <1>4, <2>1, <2>2 DEF Owned
  <2> QED
    BY <1>1, <1>8, <2>2, <2>3 DEF SuspendedCallIntact, Owned
<1>11. Table(window, above)'
  BY <1>7 DEF Table, Ordered
<1> QED
  BY <1>5, <1>6, <1>9, <1>10, <1>11

\* form_alert() takes a free entry for an application or for nobody.
LEMMA OpenAlertStep ==
    ASSUME DesktopInv, NEW c \in live \cup {Nobody}, NEW system \in BOOLEAN,
           system \/ c \in live, OpenAlert(c, system)
    PROVE  DesktopInv'
<1> USE DEF DesktopInv
<1>1. UNCHANGED <<live, menu, focus, desktop, formOwner>> /\ ~alert.open
  BY DEF OpenAlert
<1>2. live \in SUBSET Apps /\ c \in Owners /\ alert = NoAlert
  BY <1>1 DEF Others, Owners
<1>3. \A h \in Handles : window[h].used => window[h].owner \in live
  BY <1>2 DEF Windows, NoAlert
<1>4. CASE FirstFree = {}
  <2>1. /\ alert' = [open |-> TRUE, app |-> c, win |-> 0, system |-> system]
        /\ UNCHANGED <<window, above, bar>>
    BY <1>4 DEF OpenAlert
  <2>2. Others'
    BY <1>1, <1>2, <2>1, DesktopAssumption DEF Others
  <2>3. BarOf(bar, live, menu)'
    BY <1>1, <2>1 DEF BarOf
  <2>4. Table(window, above)'
    BY <2>1 DEF Table, Ordered
  <2>5. Windows(window)'
    BY <1>1, <1>3, <2>1 DEF Windows
  <2>6. SuspendedCallIntact'
    BY <1>1, <2>1 DEF SuspendedCallIntact
  <2> QED
    BY <2>2, <2>3, <2>4, <2>5, <2>6
<1>5. CASE FirstFree # {}
  <2>1. PICK h \in FirstFree :
            /\ alert' = [open |-> TRUE, app |-> c, win |-> h, system |-> system]
            /\ Created(h, c, TRUE)
            /\ bar' = SwitchedTo(bar, c, live, menu)
    BY <1>5 DEF OpenAlert
  <2>2. h \in Handles /\ h \in 0..NumWindows /\ h # 0
    BY DesktopAssumption DEF FirstFree, Handles
  <2> DEFINE r == [used |-> TRUE, owner |-> c, open |-> TRUE]
  <2>3. r \in Entries /\ r.used /\ r.owner = c /\ r.open
    BY <1>2, EntriesFacts
  <2>4. window' = [window EXCEPT ![h] = r] /\ above' = Raised(window, above, h)
    BY <2>1 DEF Created
  <2> HIDE DEF r
  <2>5. Table(window', above')
    BY <2>2, <2>3, <2>4, TableRaised
  <2>6. window'[h] = r /\ \A g \in Handles : g # h => window'[g] = window[g]
    BY <2>2, <2>4 DEF Table
  <2>7. Others'
    BY <1>1, <1>2, <2>1, <2>2 DEF Others
  <2>8. BarOf(bar, live, menu)'
    <3>1. BarOf(bar', live, menu)
      BY <1>2, <2>1, SwitchKeeps
    <3> QED
      BY <1>1, <3>1 DEF BarOf
  <2>9. Table(window, above)'
    BY <2>5 DEF Table, Ordered
  <2>10. Windows(window)'
    BY <1>1, <1>3, <2>1, <2>3, <2>6 DEF Windows
  <2>11. SuspendedCallIntact'
    BY <1>1, <2>1, <2>2, <2>3, <2>6 DEF SuspendedCallIntact, Owned
  <2> QED
    BY <2>7, <2>8, <2>9, <2>10, <2>11
<1> QED
  BY <1>4, <1>5

\* It gives its handle back, and with it the only window that could be nobody's.
LEMMA CloseAlertStep ==
    ASSUME DesktopInv, CloseAlert
    PROVE  DesktopInv'
<1> USE DEF DesktopInv
<1>1. UNCHANGED <<live, menu, focus, desktop, formOwner>> /\ alert' = NoAlert
  BY DEF CloseAlert
<1>2. live \in SUBSET Apps /\ window \in [Handles -> Entries]
      /\ alert.win \in 0..NumWindows
  BY DEF Others, Table, Entries
<1>3. \/ window' = window /\ above' = above /\ bar' = bar
         /\ (alert.win \in Handles => ~window[alert.win].used)
      \/ /\ alert.win \in Handles
         /\ window' = [window EXCEPT ![alert.win] = Free]
         /\ above' = Dropped(above, alert.win)
         /\ bar' = BarAfter(window, above, bar, alert.win, menu)
  <2>1. CASE alert.win # 0 /\ window[alert.win].used
    <3>1. alert.win \in Handles
      BY <1>2, <2>1, DesktopAssumption DEF Handles
    <3>2. ClosedAndDeleted(Desk(bar), alert.win, menu)
            = [window |-> [window EXCEPT ![alert.win] = Free],
               above |-> Dropped(above, alert.win),
               bar |-> BarAfter(window, above, bar, alert.win, menu)]
      BY <1>2, <3>1, CloseStep DEF Desk
    <3> QED
      BY <2>1, <3>1, <3>2 DEF CloseAlert
  <2>2. CASE ~(alert.win # 0 /\ window[alert.win].used)
    <3>1. alert.win \in Handles => alert.win # 0
      BY DesktopAssumption DEF Handles
    <3> QED
      BY <2>2, <3>1 DEF CloseAlert
  <2> QED
    BY <2>1, <2>2
<1>4. Others'
  BY <1>1, DesktopAssumption DEF Others, NoAlert, Owners
<1>5. BarOf(bar, live, menu)'
  <2>1. bar' = bar \/ \E x : bar' = SwitchedTo(bar, x, live, menu)
    BY <1>3 DEF BarAfter
  <2>2. BarOf(bar', live, menu)
    BY <1>2, <2>1, SwitchKeeps
  <2> QED
    BY <1>1, <2>2 DEF BarOf
<1>6. Table(window, above)'
  <2>1. Table(window', above')
    BY <1>3, TableDeleted
  <2> QED
    BY <2>1 DEF Table, Ordered
<1>7. Windows(window)'
  <2>1. \A h \in Handles : window'[h].used =>
            window'[h] = window[h] /\ h # alert.win
    BY <1>2, <1>3 DEF Free
  <2> QED
    BY <1>1, <2>1 DEF Windows
<1>8. SuspendedCallIntact'
  BY <1>1 DEF SuspendedCallIntact, NoAlert
<1> QED
  BY <1>4, <1>5, <1>6, <1>7, <1>8

-----------------------------------------------------------------------------
(* An application leaves *)

\* Once its windows are gone nothing is left in its name, and the bar has followed.
LEMMA LeaveFacts ==
    ASSUME DesktopInv, NEW a \in Apps, Leave(a)
    PROVE  LET K == Handles \ Owned(a)
               top == TopOwner(window', above', Nobody)
           IN  /\ window' = Left(K) /\ above' = Among(K)
               /\ a \notin {bar'.tree, bar'.owner, bar'.active}
               /\ BarOf(bar', live', menu')
               /\ desktop' \in live' \cup {Nobody}
               /\ menu' # {} => desktop' \in live'
               /\ menu' # {} /\ ~alert.system => bar'.active \in live'
               /\ a \in {bar.active, bar.tree, TopOwner(window, above, Nobody)}
                  /\ Tops(window', above') # {}
                  => bar'.active = top /\ bar'.tree = MenuOf(top, menu')
               /\ a \in {bar.active, bar.tree} /\ Tops(window', above') = {}
                  => bar'.active = desktop' /\ bar'.tree = MenuOf(desktop', menu')
<1> USE DEF DesktopInv
<1> DEFINE K == Handles \ Owned(a)
           menus == IF bar.owner = a THEN menu \ {a} ELSE menu
           kept == IF desktop = a THEN Nobody ELSE desktop
           b == Detached(a)
           desk == WindowsClosed(a, b, menus)
           followed == Follows(desk, a, menus, kept)
<1>1. a \in live /\ live \in SUBSET Apps /\ menu \in SUBSET live /\ a # Nobody
  BY DesktopAssumption DEF Leave, Requests, Others
<1>2. /\ live' = live \ {a} /\ menu' = menu \ {a} /\ UNCHANGED alert
      /\ window' = desk.window /\ above' = desk.above
      /\ desktop' \in DesktopHeirs(kept, menu')
      /\ bar' = IF followed.active \in live' THEN followed
                ELSE SwitchedTo(followed, TopOwner(window', above', desktop'), live', menu')
  BY DEF Leave
<1>3. BarOf(b, live, menus) /\ (b.owner = a => b.tree = a) /\ (a \in menus => bar.owner # a)
  BY <1>1 DEF Detached, BarOf, Owners
<1>4. Turn(b, desk, a, menus, NumWindows)
  BY <1>1, <1>3, LoopEnd
<1> HIDE DEF b, desk
<1>5. Kept(a, NumWindows) = K
  BY DesktopAssumption DEF Kept, Handles
<1>6. PICK c : /\ desk = [window |-> Left(K), above |-> Among(K), bar |-> c]
               /\ BarOf(c, live, menus)
               /\ c.owner = a => c.tree = a
               /\ Shows(window, above, b, a, menus) => Shows(Left(K), Among(K), c, a, menus)
               /\ Stays(window, above, b, a) => Stays(Left(K), Among(K), c, a)
  BY <1>4, <1>5 DEF Turn
<1>7. window' = Left(K) /\ above' = Among(K) /\ desk.bar = c
  BY <1>2, <1>6
<1>8. kept # a /\ kept \in live' \cup {Nobody}
  BY <1>1, <1>2 DEF Others
<1>9. desktop' \in live' \cup {Nobody} /\ (menu' # {} => desktop' \in live')
  BY <1>1, <1>2, <1>8 DEF DesktopHeirs
\* The owner of any window that is left has not gone.
<1>10. \A h \in Handles : Left(K)[h].open =>
          /\ Left(K)[h].owner # a
          /\ Left(K)[h].owner \in live' \/ (Left(K)[h].owner = Nobody /\ alert.system)
  <2>1. \A h \in Handles : Left(K)[h] = IF h \in K THEN window[h] ELSE Free
    BY DEF Left
  <2>2. \A h \in Handles : window[h].open => window[h].used
    BY DEF Table, Free
  <2> QED
    BY <1>1, <1>2, <2>1, <2>2 DEF Free, Windows, Owned
<1>11. \A other : LET x == TopOwner(Left(K), Among(K), other)
                  IN  \/ x = other
                      \/ x # a /\ (x \in live' \/ alert.system)
  <2> TAKE other
  <2> DEFINE T == Tops(Left(K), Among(K))
             t == CHOOSE h \in T : TRUE
  <2>1. T = {} => TopOwner(Left(K), Among(K), other) = other
    BY DEF TopOwner
  <2>2. T # {} => t \in T
    OBVIOUS
  <2>3. T # {} => TopOwner(Left(K), Among(K), other) = Left(K)[t].owner
    BY DEF TopOwner
  <2>4. T # {} => t \in Handles /\ Left(K)[t].open
    BY <2>2 DEF Tops
  <2> HIDE DEF T, t
  <2> QED
    BY <1>10, <2>1, <2>3, <2>4
<1>12. /\ BarOf(followed, live, menus)
       /\ a \notin {followed.tree, followed.owner, followed.active}
  <2> DEFINE x == TopOwner(Left(K), Among(K), kept)
  <2>1. x # a
    BY <1>8, <1>11
  <2>2. followed = IF a \in {c.owner, c.active} THEN SwitchedTo(c, x, live, menus) ELSE c
    BY <1>6 DEF Follows
  <2> HIDE DEF x, followed
  <2>3. CASE a \notin {c.owner, c.active}
    BY <1>1, <1>6, <2>2, <2>3 DEF BarOf
  <2>4. CASE a \in {c.owner, c.active}
    <3>1. followed = SwitchedTo(c, x, live, menus)
      BY <2>2, <2>4
    <3>2. BarOf(followed, live, menus)
      BY <1>1, <1>6, <3>1, SwitchKeeps
    <3>3. a \notin {followed.tree, followed.owner, followed.active}
      BY <1>1, <1>6, <2>1, <2>4, <3>1 DEF SwitchedTo, BarOf
    <3> QED
      BY <3>2, <3>3
  <2> QED
    BY <2>3, <2>4
<1> HIDE DEF followed
<1>13. BarOf(followed, live', menu')
  BY <1>1, <1>2, <1>12 DEF BarOf
<1>14. BarOf(bar', live', menu') /\ a \notin {bar'.tree, bar'.owner, bar'.active}
  <2> DEFINE y == TopOwner(window', above', desktop')
  <2>1. bar' = followed \/ bar' = SwitchedTo(followed, y, live', menu')
    BY <1>2
  <2>2. live' \in SUBSET Apps /\ a \notin live'
    BY <1>1, <1>2
  <2> HIDE DEF y
  <2>3. BarOf(bar', live', menu')
    BY <1>13, <2>1, <2>2, SwitchKeeps
  <2> QED
    BY <1>1, <2>2, <2>3 DEF BarOf
<1>15. menu' # {} /\ ~alert.system => bar'.active \in live'
  <2> DEFINE y == TopOwner(window', above', desktop')
  <2>1. menu' # {} /\ ~alert.system => y \in live'
    BY <1>7, <1>9, <1>11
  <2>2. bar' = IF followed.active \in live' THEN followed
               ELSE SwitchedTo(followed, y, live', menu')
    BY <1>2
  <2> HIDE DEF y
  <2> QED
    BY <1>13, <2>1, <2>2 DEF SwitchedTo, BarOf
<1> DEFINE top == TopOwner(Left(K), Among(K), Nobody)
           Empty == Tops(Left(K), Among(K)) = {}
<1>16. a \in {bar.active, bar.tree} => a \in {b.owner, b.active}
  BY <1>1 DEF Detached, BarOf, b
<1>17. /\ a \in {bar.active, bar.tree, TopOwner(window, above, Nobody)} =>
             Shows(window, above, b, a, menus)
       /\ a \in {bar.active, bar.tree} => Stays(window, above, b, a)
  BY <1>16 DEF Shows, Stays
<1>18. top \in live' \cup {Nobody} /\ top # a
  <2> DEFINE T == Tops(Left(K), Among(K))
             t == CHOOSE h \in T : TRUE
  <2>1. T # {} => t \in T
    OBVIOUS
  <2>2. T # {} => t \in Handles /\ Left(K)[t].open
    BY <2>1 DEF Tops
  <2>3. top = IF T = {} THEN Nobody ELSE Left(K)[t].owner
    BY DEF TopOwner
  <2> HIDE DEF T, t, top
  <2> QED
    BY <1>1, <1>10, <2>2, <2>3
<1>19. \A n : TopOwner(Left(K), Among(K), n) = IF Empty THEN n ELSE top
  BY DEF TopOwner
<1>20. followed = IF a \in {c.owner, c.active}
                  THEN SwitchedTo(c, IF Empty THEN kept ELSE top, live, menus) ELSE c
  BY <1>6, <1>19 DEF Follows, followed
<1>21. bar' = IF followed.active \in live' THEN followed
              ELSE SwitchedTo(followed, IF Empty THEN desktop' ELSE top, live', menu')
  BY <1>2, <1>7, <1>19
<1>22. /\ Shows(Left(K), Among(K), c, a, menus) =>
             a \in {c.owner, c.active} \/ Empty \/ (c.active = top /\ c.tree = MenuOf(top, menus))
       /\ Stays(Left(K), Among(K), c, a) => a \in {c.owner, c.active} \/ ~Empty
  BY <1>18 DEF Shows, Stays
<1>23. menu' \subseteq live' /\ Nobody \notin live' /\ live' \subseteq live
       /\ \A x \in live' : x \in menus <=> x \in menu'
  BY <1>1, <1>2, DesktopAssumption
<1>24. \A x, alive, ms : \A y \in [tree : Owners, owner : Owners, active : Owners] :
          LET q == SwitchedTo(y, x, alive, ms)
          IN  /\ x \in alive => q.active = x /\ q.tree = (IF x \in ms THEN x ELSE Nobody)
              /\ x \notin alive => q.active = Nobody /\ q.tree = Nobody
  BY DEF SwitchedTo
<1>25. /\ c \in [tree : Owners, owner : Owners, active : Owners]
       /\ followed \in [tree : Owners, owner : Owners, active : Owners]
  BY <1>6, <1>12 DEF BarOf
<1> HIDE DEF menus, kept, top, Empty
<1>26. ASSUME a \in {bar.active, bar.tree, TopOwner(window, above, Nobody)}, ~Empty
       PROVE  bar'.active = top /\ bar'.tree = MenuOf(top, menu')
  <2>1. a \in {c.owner, c.active} \/ (c.active = top /\ c.tree = MenuOf(top, menus))
    BY <1>6, <1>17, <1>22, <1>26
  <2>2. MenuOf(top, menus) = MenuOf(top, menu') /\ (top \notin live' => top \notin live)
    BY <1>1, <1>2, <1>18, <1>23 DEF MenuOf
  <2>3. followed.active = top /\ followed.tree = MenuOf(top, menus)
    <3>1. CASE a \in {c.owner, c.active}
      <4>1. followed = SwitchedTo(c, top, live, menus)
        BY <1>20, <1>26, <3>1
      <4> QED
        BY <1>18, <1>23, <1>24, <1>25, <2>2, <4>1 DEF MenuOf
    <3>2. CASE a \notin {c.owner, c.active}
      BY <1>20, <2>1, <3>2
    <3> QED
      BY <3>1, <3>2
  <2>4. CASE top \in live'
    BY <1>21, <2>2, <2>3, <2>4
  <2>5. CASE top \notin live'
    <3>1. bar' = SwitchedTo(followed, top, live', menu')
      BY <1>21, <1>26, <2>3, <2>5
    <3>2. bar'.active = Nobody /\ bar'.tree = Nobody
      BY <1>24, <1>25, <2>5, <3>1
    <3> QED
      BY <1>18, <2>5, <3>2 DEF MenuOf
  <2> QED
    BY <2>4, <2>5
<1>27. ASSUME a \in {bar.active, bar.tree}, Empty
       PROVE  bar'.active = desktop' /\ bar'.tree = MenuOf(desktop', menu')
  <2>1. followed = SwitchedTo(c, kept, live, menus)
    BY <1>6, <1>17, <1>20, <1>22, <1>27
  <2>2. CASE kept \in live'
    <3>1. desktop' = kept
      BY <1>2, <1>23, <2>2 DEF DesktopHeirs
    <3>2. followed.active = kept /\ followed.tree = MenuOf(kept, menu')
      BY <1>23, <1>24, <1>25, <2>1, <2>2 DEF MenuOf
    <3> QED
      BY <1>21, <2>2, <3>1, <3>2
  <2>3. CASE kept \notin live'
    <3>1. kept = Nobody /\ kept \notin live
      BY <1>1, <1>2, <1>8, <2>3, DesktopAssumption
    <3>2. followed.active = Nobody
      BY <1>24, <1>25, <2>1, <3>1
    <3>3. bar' = SwitchedTo(followed, desktop', live', menu')
      BY <1>21, <1>23, <1>27, <3>2
    <3> QED
      BY <1>9, <1>23, <1>24, <1>25, <3>3 DEF MenuOf
  <2> QED
    BY <2>2, <2>3
<1>28. Tops(window', above') = Tops(Left(K), Among(K)) /\ TopOwner(window', above', Nobody) = top
  BY <1>7 DEF top
<1> QED
  BY <1>7, <1>9, <1>14, <1>15, <1>26, <1>27, <1>28 DEF Empty

\* gemd_cleanup_app() as a whole.
LEMMA LeaveStep ==
    ASSUME DesktopInv, NEW a \in Apps, Leave(a)
    PROVE  DesktopInv'
<1> DEFINE K == Handles \ Owned(a)
<1>1. /\ window' = Left(K) /\ above' = Among(K)
      /\ BarOf(bar', live', menu')
      /\ desktop' \in live' \cup {Nobody}
  BY LeaveFacts
<1> USE DEF DesktopInv
<1>2. /\ a \in live /\ ~Waiting(a)
      /\ live' = live \ {a} /\ menu' = menu \ {a} /\ UNCHANGED alert
      /\ focus' = (IF focus = a THEN Nobody ELSE focus)
      /\ formOwner' = (IF formOwner = a THEN Nobody ELSE formOwner)
  BY DEF Leave, Requests, FocusAfter
<1>3. Others'
  BY <1>1, <1>2 DEF Others
<1>4. BarOf(bar, live, menu)'
  BY <1>1 DEF BarOf
<1>5. Table(window, above)'
  <2>1. Table(Left(K), Among(K))
    BY TableRestricted DEF Left, Among
  <2> QED
    BY <1>1, <2>1 DEF Table, Ordered
<1>6. \A h \in Handles : window'[h] = IF h \in K THEN window[h] ELSE Free
  BY <1>1 DEF Left
<1>7. Windows(window)'
  BY <1>2, <1>6 DEF Windows, Owned, Free
<1>8. SuspendedCallIntact'
  <2>1. alert.open /\ ~alert.system => alert.app # a
    BY <1>2 DEF Waiting
  <2> QED
    BY <1>2, <1>6, <2>1 DEF SuspendedCallIntact, Owned
<1> QED
  BY <1>3, <1>4, <1>5, <1>7, <1>8

\* Every step.
LEMMA NextStep ==
    ASSUME DesktopInv, [Next]_vars
    PROVE  DesktopInv'
<1>1. CASE SystemAlert
  <2>1. PICK c \in live \cup {Nobody} : OpenAlert(c, TRUE)
    BY <1>1 DEF SystemAlert
  <2> QED
    BY <2>1, OpenAlertStep
<1>2. CASE CloseAlert
  BY <1>2, CloseAlertStep
<1>3. CASE ClickForm \/ ClickDesktop \/ \E h \in Handles : ClickWindow(h)
  BY <1>3, ClickSteps
<1>4. ASSUME NEW a \in Apps, ApplInit(a) \/ MenuShow(a) \/ MenuHide(a)
                               \/ FormStart(a) \/ FormFinish(a)
      PROVE  DesktopInv'
  BY <1>4, BarSteps
<1>5. ASSUME NEW a \in Apps, Leave(a) PROVE DesktopInv'
  BY <1>5, LeaveStep
<1>6. ASSUME NEW a \in Apps, NEW h \in Handles,
             WindOpen(a, h) \/ WindClose(a, h) \/ WindDelete(a, h) \/ WindSetTop(a, h)
      PROVE  DesktopInv'
  BY <1>6, WindowSteps
<1>7. ASSUME NEW a \in Apps, WindCreate(a) PROVE DesktopInv'
  <2>1. 1 \in Handles
    BY DesktopAssumption DEF Handles
  <2> QED
    BY <1>7, <2>1, WindowSteps
<1>8. ASSUME NEW a \in Apps, FormAlert(a) PROVE DesktopInv'
  <2>1. a \in live /\ OpenAlert(a, FALSE)
    BY <1>8 DEF FormAlert, Requests
  <2> QED
    BY <2>1, OpenAlertStep
<1>9. CASE UNCHANGED vars
  BY <1>9 DEF vars, DesktopInv, Others, BarOf, Table, Ordered, Windows,
              SuspendedCallIntact, Owned
<1> QED
  BY <1>1, <1>2, <1>3, <1>4, <1>5, <1>6, <1>7, <1>8, <1>9 DEF Next

\* The invariant, for any numbers of applications and windows.
THEOREM DesktopInvariance == Spec => []DesktopInv
<1>1. Init => DesktopInv
  BY InitStep
<1>2. DesktopInv /\ [Next]_vars => DesktopInv'
  BY NextStep
<1> QED
  BY <1>1, <1>2, PTL DEF Spec

\* Whoever leaves, nothing is left in his name (session.c 101-144, 204-217).
THEOREM OwnersTheorem == Spec => []OwnersLive
<1>1. DesktopInv => OwnersLive
  BY InvImplies
<1> QED
  BY <1>1, DesktopInvariance, PTL

\* The tree on the bar belongs to a live application that gets its selections
\* (session.c 107-112).
THEOREM BarTheorem == Spec => []BarIsLive
<1>1. DesktopInv => BarIsLive
  BY InvImplies
<1> QED
  BY <1>1, DesktopInvariance, PTL

\* A suspended alert keeps its application and its window (main.c 269).
THEOREM SuspendedTheorem == Spec => []SuspendedCallIntact
<1>1. DesktopInv => SuspendedCallIntact
  BY DEF DesktopInv
<1> QED
  BY <1>1, DesktopInvariance, PTL

\* Only an exit takes an application away.
LEMMA ExitsOnly ==
    ASSUME [Next]_vars, NEW a \in live \ live', DesktopInv
    PROVE  a \in Apps /\ Leave(a)
<1>1. a \in Apps
  BY DEF DesktopInv, Others
<1>2. \A c \in Apps : Leave(c) => live' = live \ {c}
  BY DEF Leave
<1>3. live' # live => \E c \in Apps : ApplInit(c) \/ Leave(c)
  BY DEF Next, vars, SystemAlert, OpenAlert, CloseAlert, ClickForm, ClickDesktop,
         ClickWindow, MenuShow, MenuHide, WindCreate, FormStart, FormFinish, FormAlert,
         WindOpen, WindClose, WindDelete, WindSetTop
<1>4. \A c \in Apps : ApplInit(c) => live \subseteq live'
  BY DEF ApplInit
<1> QED
  BY <1>1, <1>2, <1>3, <1>4

\* Who leaves the desktop or the activity hands it to a survivor with a menu
\* (session.c 203-217).
THEOREM SurvivorTheorem == Spec => ExitSelectsSurvivor
<1> DEFINE Selects == \A a \in live \ live' :
              menu' # {} => /\ desktop' \in live'
                            /\ bar.active = a /\ ~alert.system => bar'.active \in live'
<1>1. ASSUME DesktopInv, [Next]_vars PROVE [Selects]_vars
  <2>1. ASSUME NEW a \in live \ live', menu' # {}
        PROVE  desktop' \in live' /\ (~alert.system => bar'.active \in live')
    <3>1. a \in Apps /\ Leave(a)
      BY <1>1, ExitsOnly
    <3> QED
      BY <1>1, <2>1, <3>1, LeaveFacts
  <2> QED
    BY <2>1
<1> QED
  BY <1>1, DesktopInvariance, PTL DEF Spec, ExitSelectsSurvivor

\* After an exit the bar is the top window's owner's, or the desktop owner's
\* (session.c 150-159, 213-217).
THEOREM BarFollowsTheorem == Spec => ExitBarFollowsTop
<1> DEFINE FollowsTop == \A a \in live \ live' :
              /\ a \in {bar.active, bar.tree, TopOwner(window, above, Nobody)}
                 /\ Tops(window', above') # {}
                 => LET top == TopOwner(window', above', Nobody)
                    IN  bar'.active = top /\ bar'.tree = MenuOf(top, menu')
              /\ a \in {bar.active, bar.tree} /\ Tops(window', above') = {}
                 => bar'.active = desktop' /\ bar'.tree = MenuOf(desktop', menu')
<1>1. ASSUME DesktopInv, [Next]_vars PROVE [FollowsTop]_vars
  <2>1. ASSUME NEW a \in live \ live' PROVE a \in Apps /\ Leave(a)
    BY <1>1, <2>1, ExitsOnly
  <2>2. FollowsTop
    BY <1>1, <2>1, LeaveFacts
  <2> QED
    BY <2>2
<1> QED
  BY <1>1, DesktopInvariance, PTL DEF Spec, ExitBarFollowsTop
=============================================================================
