--------------------------- MODULE Devices_proofs ----------------------------
(***************************************************************************)
(* The keyboard's queues and the Terminal's buffer, for any number of        *)
(* applications, keys and events, and for windows of any size; first the     *)
(* keyboard.                                                                 *)
(***************************************************************************)
EXTENDS Terminal, InputQueue, SequenceTheorems, WellFoundedInduction, TLAPS

\* A set of naturals has a least element: the induction used below.
LEMMA LeastNat ==
    ASSUME NEW T, T \subseteq Nat, T # {}
    PROVE  \E m \in T : \A y \in T : m <= y
<1> DEFINE Lower == OpToRel(<, Nat)
<1>1. IsWellFoundedOn(Lower, Nat)
  BY NatLessThanWellFounded
<1>2. \A x, y \in Nat : <<y, x>> \in Lower <=> y < x
  BY DEF OpToRel
<1> HIDE DEF Lower
<1>3. PICK x \in T : \A y \in T : <<y, x>> \notin Lower
  BY <1>1, WFMin
<1>4. \A y \in T : x <= y
  <2> TAKE y \in T
  <2>1. x \in Nat /\ y \in Nat
    BY <1>3
  <2>2. ~(y < x)
    BY <1>2, <1>3, <2>1, Zenon
  <2>3. \A m, n \in Nat : ~(n < m) => m <= n
    OBVIOUS
  <2> QED
    BY <2>1, <2>2, <2>3, Zenon
<1> QED
  BY <1>4

-----------------------------------------------------------------------------
(* The keyboard.  InputInv says besides types that an application that does   *)
(* not read physical keys believes none held, that the slot of one that has   *)
(* gone is empty, and that only the keyboard's owner may believe any held     *)
(* once it has read its queue, but for what it was misled about: the others   *)
(* will hear of no release.                                                   *)

\* What a reader believes that believed the keys of h held.
Reads(h, queue) ==
    {k \in Keys : IF {n \in DOMAIN queue : queue[n].key = k} = {} THEN k \in h
                  ELSE \E n \in DOMAIN queue :
                         /\ queue[n].key = k /\ queue[n].press
                         /\ \A m \in DOMAIN queue : queue[m].key = k => m <= n}

MayBelieve(a) == IF a = KeyOwner THEN down ELSE {}

Standard == \A a \in Apps : ~physical[a] => held[a] = {}
Absentees == \A a \in Apps \ live : events[a] = <<>> /\ held[a] = {}
InTouch ==
    \A a \in live :
       ~reset[a] => Reads(held[a], events[a]) \subseteq MayBelieve(a) \union missed[a]

InputInv == InputTypeOK /\ Standard /\ Absentees /\ InTouch


LEMMA BelievedReads ==
    /\ \A a, q : Believed(a, q) = Reads(held[a], q)
    /\ \A a \in Apps : (Believed(a, events[a]))' = Reads(held'[a], events'[a])
BY DEF Believed, Reads

\* What was believed before matters only for what it says.
LEMMA ReadsMore == \A g, h, q : Reads(g, q) \subseteq Reads(h, q) \union (g \ h)
BY DEF Reads

\* Nothing read, nothing changed.
LEMMA ReadsNothing ==
    ASSUME NEW h \in SUBSET Keys
    PROVE  Reads(h, <<>>) = h
BY DEF Reads

\* The last event decides about its key.
LEMMA ReadsLast ==
    ASSUME NEW h \in SUBSET Keys, NEW q \in Seq(Event), NEW e \in Event
    PROVE  Reads(h, q \o <<e>>) = Pressed(Reads(h, q), e)
<1> DEFINE all == q \o <<e>>
<1>1. /\ all \in Seq(Event) /\ Len(all) = Len(q) + 1 /\ all[Len(q) + 1] = e
      /\ \A n \in 1..Len(q) : all[n] = q[n]
  OBVIOUS
<1>2. DOMAIN all = 1..Len(q) + 1 /\ DOMAIN q = 1..Len(q) /\ Len(q) \in Nat
  BY <1>1
<1> HIDE DEF all
<1>3. ASSUME NEW k \in Keys, k # e.key
      PROVE  k \in Reads(h, all) <=> k \in Reads(h, q)
  <2>1. \A n \in DOMAIN all : all[n].key = k => n \in DOMAIN q /\ q[n].key = k
    BY <1>1, <1>2, <1>3
  <2>2. \A n \in DOMAIN q : n \in DOMAIN all /\ all[n] = q[n]
    BY <1>1, <1>2
  <2> QED BY <2>1, <2>2, <1>2 DEF Reads
<1>4. e.key \in Reads(h, all) <=> e.press
  <2>1. Len(q) + 1 \in DOMAIN all /\ all[Len(q) + 1].key = e.key
    BY <1>1, <1>2
  <2>2. \A n \in DOMAIN all : n <= Len(q) + 1
    BY <1>2
  <2>3. e.key \in Keys
    BY DEF Event
  <2>4. CASE e.press
    BY <2>1, <2>2, <2>3, <2>4, <1>1 DEF Reads
  <2>5. CASE ~e.press
    <3>1. ASSUME NEW n \in DOMAIN all, all[n].press, \A m \in DOMAIN all : all[m].key = e.key => m <= n
          PROVE  FALSE
      <4>1. n = Len(q) + 1
        BY <3>1, <2>1, <2>2, <1>2
      <4> QED BY <4>1, <3>1, <2>5, <1>1
    <3> QED BY <3>1, <2>1, <2>3, <2>5 DEF Reads
  <2> QED BY <2>4, <2>5
<1>5. Reads(h, all) \subseteq Keys /\ Reads(h, q) \subseteq Keys /\ e.key \in Keys
  BY DEF Reads, Event
<1> QED BY <1>3, <1>4, <1>5 DEF Pressed, all

\* To have read an event is to read it first.
LEMMA ReadsFirst ==
    ASSUME NEW h \in SUBSET Keys, NEW q \in Seq(Event), q # <<>>
    PROVE  Reads(Pressed(h, Head(q)), Tail(q)) = Reads(h, q)
<1> DEFINE e == Head(q)  t == Tail(q)
<1>1. /\ t \in Seq(Event) /\ Len(q) = Len(t) + 1 /\ q[1] = e /\ e \in Event
      /\ \A n \in 1..Len(t) : t[n] = q[n + 1]
  OBVIOUS
<1>2. DOMAIN q = 1..Len(t) + 1 /\ DOMAIN t = 1..Len(t) /\ Len(t) \in Nat
  BY <1>1
<1> HIDE DEF e, t
<1>3. ASSUME NEW k \in Keys
      PROVE  k \in Reads(Pressed(h, e), t) <=> k \in Reads(h, q)
  <2>1. \A n \in DOMAIN t : n + 1 \in DOMAIN q /\ q[n + 1] = t[n]
    BY <1>1, <1>2
  <2>2. \A n \in DOMAIN q : n # 1 => n - 1 \in DOMAIN t /\ t[n - 1] = q[n]
    BY <1>1, <1>2
  <2>3. CASE \E n \in DOMAIN t : t[n].key = k
    <3>1. PICK n \in DOMAIN t : t[n].key = k
      BY <2>3
    <3>2. ASSUME NEW m \in DOMAIN t, t[m].key = k, t[m].press,
                 \A j \in DOMAIN t : t[j].key = k => j <= m
          PROVE  \A j \in DOMAIN q : q[j].key = k => j <= m + 1
      <4> TAKE j \in DOMAIN q
      <4>1. CASE j = 1
        BY <4>1, <1>2
      <4>2. CASE j # 1
        BY <4>2, <2>2, <3>2, <1>2
      <4> QED BY <4>1, <4>2
    <3>3. ASSUME NEW m \in DOMAIN q, q[m].key = k, q[m].press,
                 \A j \in DOMAIN q : q[j].key = k => j <= m
          PROVE  m # 1 /\ \A j \in DOMAIN t : t[j].key = k => j <= m - 1
      <4>1. n + 1 <= m
        BY <3>1, <3>3, <2>1
      <4>2. ASSUME NEW j \in DOMAIN t, t[j].key = k
            PROVE  j <= m - 1
        BY <4>2, <3>3, <2>1, <1>2
      <4> QED BY <4>1, <4>2, <1>2
    <3>4. k \in Reads(Pressed(h, e), t) => k \in Reads(h, q)
      <4>1. SUFFICES ASSUME k \in Reads(Pressed(h, e), t)
                     PROVE  k \in Reads(h, q)
        OBVIOUS
      <4>2. PICK m \in DOMAIN t : t[m].key = k /\ t[m].press
                                  /\ \A j \in DOMAIN t : t[j].key = k => j <= m
        BY <4>1, <3>1 DEF Reads
      <4>3. m + 1 \in DOMAIN q /\ q[m + 1].key = k /\ q[m + 1].press
        BY <4>2, <2>1
      <4>4. \A j \in DOMAIN q : q[j].key = k => j <= m + 1
        BY <4>2, <3>2
      <4> QED BY <4>3, <4>4 DEF Reads
    <3>5. k \in Reads(h, q) => k \in Reads(Pressed(h, e), t)
      <4>1. SUFFICES ASSUME k \in Reads(h, q)
                     PROVE  k \in Reads(Pressed(h, e), t)
        OBVIOUS
      <4>2. n + 1 \in DOMAIN q /\ q[n + 1].key = k
        BY <3>1, <2>1
      <4>3. PICK m \in DOMAIN q : q[m].key = k /\ q[m].press
                                  /\ \A j \in DOMAIN q : q[j].key = k => j <= m
        BY <4>1, <4>2 DEF Reads
      <4>4. m # 1 /\ \A j \in DOMAIN t : t[j].key = k => j <= m - 1
        BY <4>3, <3>3
      <4>5. m - 1 \in DOMAIN t /\ t[m - 1].key = k /\ t[m - 1].press
        BY <4>3, <4>4, <2>2
      <4> QED BY <4>4, <4>5 DEF Reads
    <3> QED BY <3>4, <3>5
  <2>4. CASE /\ \A n \in DOMAIN t : t[n].key # k
             /\ e.key = k
    <3>1. k \in Reads(Pressed(h, e), t) <=> e.press
      BY <2>4 DEF Reads, Pressed
    <3>2. \A n \in DOMAIN q : q[n].key = k <=> n = 1
      BY <2>4, <2>2, <1>1, <1>2
    <3>3. 1 \in DOMAIN q
      BY <1>2
    <3> QED BY <3>1, <3>2, <3>3, <1>1 DEF Reads
  <2>5. CASE /\ \A n \in DOMAIN t : t[n].key # k
             /\ e.key # k
    <3>1. \A n \in DOMAIN q : q[n].key # k
      BY <2>5, <2>2, <1>1
    <3> QED BY <3>1, <2>5 DEF Reads, Pressed
  <2> QED BY <2>3, <2>4, <2>5
<1> QED BY <1>3 DEF Reads, e, t

\* The keyboard's owner, of a table, a focus and an active application.
Owner(table, focused, activated) ==
    CASE table = {}                                            -> 0
      [] table # {} /\ focused # 0                            -> focused
      [] table # {} /\ focused = 0 /\ activated # 0          -> activated
      [] OTHER                                                 -> First(table)

LEMMA OwnerFacts ==
    ASSUME NEW table \in SUBSET Apps, NEW focused \in {0} \cup table,
           NEW activated \in {0} \cup table
    PROVE  /\ Owner(table, focused, activated) \in {0} \cup table
           /\ Owner(table, focused, activated) = 0 <=> table = {}
           /\ focused # 0 => Owner(table, focused, activated) = focused
<1>1. table # {} => First(table) \in table
  <2>1. SUFFICES ASSUME table # {}
                 PROVE  \E a \in table : \A b \in table : a <= b
    BY DEF First
  <2>2. table \subseteq Nat /\ table # {}
    BY <2>1, InputAssumption
  <2> QED BY <2>2, LeastNat
<1>2. 0 \notin table
  BY InputAssumption
<1> QED BY <1>1, <1>2 DEF Owner

LEMMA OwnerNow ==
    /\ KeyOwner = Owner(live, focus, active)
    /\ KeyOwner' = Owner(live', focus', active')
BY DEF KeyOwner, Owner

\* What is queued keeps its type, and is all there unless the reader is reset.
LEMMA QueueFacts ==
    ASSUME NEW q \in Seq(Event), NEW arriving \in Seq(Event)
    PROVE  /\ Queued(q, arriving) \in Seq(Event)
           /\ Len(Queued(q, arriving)) <= QueueSize
           /\ Overflows(q, arriving) \in BOOLEAN
           /\ ~Overflows(q, arriving) => Queued(q, arriving) = q \o arriving
<1> DEFINE all == q \o arriving
<1>1. all \in Seq(Event) /\ Len(all) \in Nat
  OBVIOUS
<1> HIDE DEF all
<1>2. CASE Len(all) > QueueSize
  <2>1. QueueSize <= Len(all) /\ QueueSize \in Nat
    BY <1>1, <1>2, InputAssumption
  <2>2. /\ SubSeq(all, 1, QueueSize) \in Seq(Event)
        /\ Len(SubSeq(all, 1, QueueSize)) = QueueSize
    BY <1>1, <2>1, SubSeqProperties
  <2> QED BY <1>2, <2>1, <2>2 DEF Queued, Overflows, all
<1>3. CASE ~(Len(all) > QueueSize)
  BY <1>1, <1>3, InputAssumption DEF Queued, Overflows, all
<1> QED BY <1>2, <1>3
-----------------------------------------------------------------------------
\* InputTypeOK without the history.
Typed ==
    /\ down \subseteq Keys /\ live \subseteq Apps
    /\ focus \in {0} \union live /\ active \in {0} \union live
    /\ events \in [Apps -> Seq(Event)]
    /\ \A a \in Apps : Len(events[a]) <= QueueSize
    /\ reset \in [Apps -> BOOLEAN] /\ physical \in [Apps -> BOOLEAN]
    /\ held \in [Apps -> SUBSET Keys]

LEMMA InputInitStep == InputInit => InputInv
<1> SUFFICES ASSUME InputInit
             PROVE  InputInv
  OBVIOUS
<1>1. InputTypeOK
  <2>1. <<>> \in Seq(Event) /\ Len(<<>>) = 0 /\ QueueSize >= 0
    BY InputAssumption
  <2> QED BY <2>1 DEF InputInit, InputTypeOK
<1> QED BY <1>1 DEF InputInit, InputInv, Standard, Absentees, InTouch

\* What a step has to show: what its history says nothing of.
LEMMA HistoryStep ==
    ASSUME InputInv, Typed', Standard', Absentees',
           NEW apps, NEW keys, Misses(apps, keys),
           \A c \in live' : ~reset'[c] =>
              Reads(held'[c], events'[c])
                 \subseteq (IF c = KeyOwner' THEN down' ELSE {})
                             \union missed[c] \union (IF c \in apps THEN keys ELSE {})
    PROVE  InputInv'
<1>1. \A a \in Apps : Reads(held'[a], events'[a]) \subseteq Keys
  BY DEF Reads
<1>2. missed' = [a \in Apps |-> (missed[a] \union (IF a \in apps THEN keys ELSE {}))
                                  \intersect Reads(held'[a], events'[a])]
  BY BelievedReads DEF Misses
<1>3. missed' \in [Apps -> SUBSET Keys]
  BY <1>1, <1>2
<1>4. InputTypeOK'
  BY <1>3 DEF Typed, InputTypeOK
<1>5. ASSUME NEW c \in live', ~reset'[c]
      PROVE  Reads(held'[c], events'[c]) \subseteq MayBelieve(c)' \union missed'[c]
  <2>1. c \in Apps
    BY <1>5 DEF Typed
  <2>2. missed'[c] = (missed[c] \union (IF c \in apps THEN keys ELSE {}))
                        \intersect Reads(held'[c], events'[c])
    BY <1>2, <2>1
  <2>3. MayBelieve(c)' = IF c = KeyOwner' THEN down' ELSE {}
    BY DEF MayBelieve
  <2>4. Reads(held'[c], events'[c])
           \subseteq (IF c = KeyOwner' THEN down' ELSE {})
                       \union missed[c] \union (IF c \in apps THEN keys ELSE {})
    BY <1>5
  <2> QED BY <2>2, <2>3, <2>4
<1>6. InTouch'
  BY <1>5 DEF InTouch
<1> QED BY <1>4, <1>6 DEF InputInv

\* One event in a queue: what its reader will believe, and no other's.
LEMMA EnqueueFacts ==
    ASSUME InputTypeOK, NEW a \in Apps, NEW q \in Seq(Event), Len(q) <= QueueSize,
           NEW e \in Event
    PROVE  /\ Queued(q, <<e>>) \in Seq(Event) /\ Len(Queued(q, <<e>>)) <= QueueSize
           /\ Overflows(q, <<e>>) \in BOOLEAN
           /\ ~Overflows(q, <<e>>) =>
                Reads(held[a], Queued(q, <<e>>)) = Pressed(Reads(held[a], q), e)
<1>1. <<e>> \in Seq(Event)
  OBVIOUS
<1>2. held[a] \in SUBSET Keys
  BY DEF InputTypeOK
<1> QED BY <1>1, <1>2, QueueFacts, ReadsLast

\* A key, dispatched or tracked.
LEMMA KeySteps ==
    ASSUME InputInv, NEW k \in Keys, DispatchKey(k) \/ TrackedKey(k)
    PROVE  InputInv'
<1> DEFINE evt == [key |-> k, press |-> k \notin down]
<1> USE DEF InputInv
<1>1. evt \in Event
  BY DEF Event
<1>2. KeyOwner' = KeyOwner /\ down' \subseteq Keys
  BY OwnerNow DEF DispatchKey, TrackedKey, Keyboard, InputTypeOK
<1>3. KeyOwner \in {0} \cup live /\ (KeyOwner = 0 <=> live = {})
  BY OwnerFacts, OwnerNow DEF InputTypeOK
<1>4. ASSUME NEW a \in live, a = KeyOwner, Enqueue(a, <<evt>>), Keyboard(k),
             UNCHANGED <<live, focus, active, physical, held>>, Informed
      PROVE  InputInv'
  <2>1. events[a] \in Seq(Event) /\ a \in Apps /\ Len(events[a]) <= QueueSize
        /\ reset[a] \in BOOLEAN
    BY DEF InputTypeOK
  <2> HIDE DEF evt
  <2>2. Typed'
    BY <1>1, <1>2, <1>4, <2>1, EnqueueFacts DEF InputTypeOK, Typed, Enqueue
  <2>3. ASSUME NEW c \in live', ~reset'[c]
        PROVE  Reads(held'[c], events'[c])
                  \subseteq (IF c = KeyOwner' THEN down' ELSE {}) \union missed[c]
    <3>1. CASE c = a
      <4>1. /\ reset'[a] = (reset[a] \/ Overflows(events[a], <<evt>>))
            /\ events'[a] = Queued(events[a], <<evt>>)
        BY <1>4, <2>1 DEF Enqueue, InputTypeOK
      <4>2. ~reset[a] /\ Reads(held[a], events'[a]) = Pressed(Reads(held[a], events[a]), evt)
        <5>1. ~reset[a] /\ ~Overflows(events[a], <<evt>>)
          BY <2>3, <3>1, <4>1
        <5> QED BY <1>1, <2>1, <4>1, <5>1, EnqueueFacts
      <4>3. Reads(held[a], events[a]) \subseteq down \union missed[a]
        BY <1>4, <4>2 DEF InTouch, MayBelieve
      <4>4. Pressed(Reads(held[a], events[a]), evt) \subseteq down' \union missed[a]
        BY <4>3, <1>4 DEF Pressed, Keyboard, evt
      <4> QED BY <3>1, <4>2, <4>4, <1>2, <1>4
    <3>2. CASE c # a
      <4>1. events'[c] = events[c] /\ reset'[c] = reset[c] /\ held'[c] = held[c] /\ c \in live
        BY <1>4, <3>2, <2>3 DEF Enqueue, InputTypeOK
      <4>2. Reads(held[c], events[c]) \subseteq missed[c]
        BY <1>4, <2>3, <3>2, <4>1 DEF InTouch, MayBelieve
      <4> QED BY <4>1, <4>2
    <3> QED BY <3>1, <3>2
  <2>4. Standard' /\ Absentees'
    BY <1>4 DEF Standard, Absentees, Enqueue, InputTypeOK
  <2> QED BY <1>4, <2>2, <2>3, <2>4, HistoryStep DEF Informed
<1>5. ASSUME Keyboard(k), UNCHANGED <<live, focus, active, events, reset, physical, held>>,
             NEW apps, Misses(apps, {k}), KeyOwner # 0 => KeyOwner \in apps
      PROVE  InputInv'
  <2>1. Typed' /\ Standard' /\ Absentees'
    BY <1>2, <1>5 DEF InputTypeOK, Typed, Standard, Absentees
  <2>2. ASSUME NEW c \in live', ~reset'[c]
        PROVE  Reads(held'[c], events'[c])
                  \subseteq (IF c = KeyOwner' THEN down' ELSE {})
                              \union missed[c] \union (IF c \in apps THEN {k} ELSE {})
    <3>1. Reads(held[c], events[c]) \subseteq MayBelieve(c) \union missed[c]
      BY <1>5, <2>2 DEF InTouch
    <3>2. c = KeyOwner => c \in apps
      BY <1>3, <1>5, <2>2
    <3>3. down \subseteq down' \union {k}
      BY <1>5 DEF Keyboard
    <3> QED BY <1>2, <1>5, <3>1, <3>2, <3>3 DEF MayBelieve
  <2> QED BY <1>5, <2>1, <2>2, HistoryStep
<1>6. CASE DispatchKey(k)
  <2>1. KeyOwner # 0 => KeyOwner \in live
    BY <1>3
  <2>2. CASE KeyOwner # 0 /\ Enqueue(KeyOwner, <<evt>>) /\ Informed
    BY <1>4, <1>6, <2>1, <2>2 DEF DispatchKey
  <2>3. CASE KeyOwner # 0 /\ UNCHANGED <<events, reset>> /\ Misses({KeyOwner}, {k})
    BY <1>5, <1>6, <2>3 DEF DispatchKey
  <2>4. CASE KeyOwner = 0 /\ UNCHANGED <<events, reset>> /\ Informed
    <3>1. live' = {} /\ Keyboard(k)
          /\ UNCHANGED <<live, focus, active, events, reset, physical, held>>
      BY <1>3, <1>6, <2>4 DEF DispatchKey
    <3>2. Typed' /\ Standard' /\ Absentees'
      BY <1>2, <3>1 DEF InputTypeOK, Typed, Standard, Absentees
    <3> QED BY <2>4, <3>1, <3>2, HistoryStep DEF Informed
  <2> QED BY <1>6, <2>2, <2>3, <2>4 DEF DispatchKey
<1>7. CASE TrackedKey(k)
  BY <1>5, <1>7 DEF TrackedKey
<1> QED BY <1>6, <1>7

\* Another owner of the keyboard: the old one is reset, or gone, or its
\* history says what it may now be wrong about.
LEMMA OwnerStep ==
    ASSUME InputInv, Typed', Standard', Absentees', down' = down,
           NEW apps, NEW keys, Misses(apps, keys),
           \A c \in live' : events'[c] = events[c] /\ held'[c] = held[c],
           \A c \in live' : c \in live \/ (events[c] = <<>> /\ held[c] = {}),
           \A c \in live' : c \in live /\ reset[c] => reset'[c],
           \/ KeyOwner' = KeyOwner
           \/ KeyOwner \notin live'
           \/ reset'[KeyOwner]
           \/ KeyOwner \in apps /\ keys = Keys
    PROVE  InputInv'
<1>1. ASSUME NEW c \in live', ~reset'[c]
      PROVE  Reads(held'[c], events'[c])
                \subseteq (IF c = KeyOwner' THEN down' ELSE {})
                            \union missed[c] \union (IF c \in apps THEN keys ELSE {})
  <2>1. CASE c \in live
    <3>1. Reads(held[c], events[c]) \subseteq MayBelieve(c) \union missed[c]
      BY <1>1, <2>1 DEF InputInv, InTouch
    <3>2. Reads(held[c], events[c]) \subseteq Keys
      BY DEF Reads
    <3>3. c = KeyOwner => KeyOwner' = KeyOwner \/ (c \in apps /\ keys = Keys)
      BY <1>1
    <3> QED BY <1>1, <3>1, <3>2, <3>3 DEF MayBelieve
  <2>2. CASE c \notin live
    <3>1. held'[c] = {} /\ events'[c] = <<>>
      BY <1>1, <2>2
    <3>2. Reads(held'[c], events'[c]) = {}
      BY <3>1, ReadsNothing
    <3> QED BY <3>2
  <2> QED BY <2>1, <2>2
<1> QED BY <1>1, HistoryStep

\* A click, a form, a menu bar, a newcomer.
LEMMA FocusSteps ==
    ASSUME InputInv, NEW a \in Apps,
           Click(a) \/ FirstClick(a) \/ ApplInit(a) \/ FormDial(a) \/ Activate(a)
    PROVE  InputInv'
<1> USE DEF InputInv
<1>1. KeyOwner \in {0} \cup live /\ (focus # 0 => KeyOwner = focus)
  BY OwnerFacts, OwnerNow DEF InputTypeOK
<1>2. a # 0
  BY InputAssumption
<1>3. CASE Click(a)
  <2>1. Typed' /\ Standard' /\ Absentees'
    BY <1>3 DEF Click, InputTypeOK, Typed, Standard, Absentees
  <2>2. KeyOwner' = a
    BY <1>2, <1>3, <2>1, OwnerFacts, OwnerNow DEF Click, Typed
  <2>3. KeyOwner' = KeyOwner \/ reset'[KeyOwner]
    BY <1>1, <1>3, <2>2 DEF Click, InputTypeOK
  <2>4. \A c \in live' : c \in live /\ (reset[c] => reset'[c])
    BY <1>3 DEF Click, InputTypeOK
  <2>5. \A c \in live' : ~reset'[c] =>
            Reads(held'[c], events'[c])
               \subseteq (IF c = KeyOwner' THEN down' ELSE {}) \union missed[c]
    BY <1>3, <2>3, <2>4 DEF Click, InTouch, MayBelieve
  <2> QED BY <1>3, <2>1, <2>5, HistoryStep DEF Click, Informed
<1>4. ASSUME FirstClick(a) \/ ApplInit(a) \/ FormDial(a) \/ Activate(a)
      PROVE  InputInv'
  <2>1. Typed' /\ Standard' /\ Absentees'
    BY <1>4 DEF FirstClick, ApplInit, FormDial, Activate, InputTypeOK, Typed, Standard, Absentees
  <2>2. UNCHANGED <<down, events, reset, physical, held>> /\ Unannounced
    BY <1>4 DEF FirstClick, ApplInit, FormDial, Activate
  <2>3. \A c \in live' : c \in live \/ (events[c] = <<>> /\ held[c] = {})
    BY <2>1 DEF Absentees, Typed
  <2> QED BY <2>1, <2>2, <2>3, OwnerStep DEF Unannounced
<1> QED BY <1>3, <1>4

\* An exit, which clears the slot.
LEMMA ExitStep ==
    ASSUME InputInv, NEW a \in Apps, ApplExit(a)
    PROVE  InputInv'
<1> USE DEF InputInv
<1>1. Typed'
  <2>1. <<>> \in Seq(Event) /\ Len(<<>>) = 0 /\ QueueSize >= 0
    BY InputAssumption
  <2> QED BY <2>1 DEF ApplExit, InputTypeOK, Typed
<1>2. Standard' /\ Absentees'
  BY DEF ApplExit, InputTypeOK, Standard, Absentees
<1>3. ASSUME NEW c \in live'
      PROVE  /\ c \in live /\ events'[c] = events[c] /\ reset'[c] = reset[c]
             /\ held'[c] = held[c]
  BY <1>3 DEF ApplExit, InputTypeOK
<1>4. down' = down /\ Misses({}, {})
  BY DEF ApplExit, Informed
<1>5. KeyOwner' = KeyOwner \/ KeyOwner \notin live'
  <2>1. /\ live' = live \ {a} /\ focus' = (IF focus = a THEN 0 ELSE focus)
        /\ active # a => active' = active
    BY DEF ApplExit
  <2>2. CASE KeyOwner = a \/ KeyOwner = 0
    BY <2>1, <2>2, InputAssumption DEF InputTypeOK
  <2>3. CASE KeyOwner \notin {0, a}
    <3>1. live # {} /\ live' # {} /\ focus # a /\ (focus # 0 => KeyOwner = focus)
          /\ KeyOwner \in live
      <4>1. KeyOwner \in {0} \cup live /\ (focus # 0 => KeyOwner = focus)
        BY OwnerFacts, OwnerNow DEF InputTypeOK
      <4> QED BY <2>1, <2>3, <4>1, InputAssumption
    <3>2. CASE focus # 0
      BY <2>1, <3>1, <3>2 DEF KeyOwner
    <3>3. CASE focus = 0 /\ active # 0
      BY <2>1, <2>3, <3>1, <3>3 DEF KeyOwner
    <3>4. CASE focus = 0 /\ active = 0
      <4>1. KeyOwner = First(live) /\ KeyOwner' = First(live')
        BY <1>1, <2>1, <3>1, <3>4, InputAssumption DEF KeyOwner
      <4>2. First(live) = First(live')
        <5>1. First(live) \in live' /\ live \subseteq Nat
          BY <2>1, <2>3, <3>1, <4>1, InputAssumption DEF InputTypeOK
        <5>2. \A c \in live : First(live) <= c
          <6>1. \E m \in live : \A y \in live : m <= y
            BY <3>1, <5>1, LeastNat
          <6> QED BY <6>1 DEF First
        <5>3. First(live') \in live' /\ \A c \in live' : First(live') <= c
          <6>1. \E m \in live' : \A y \in live' : m <= y
            BY <2>1, <3>1, <5>1, LeastNat
          <6> QED BY <6>1 DEF First
        <5>4. /\ First(live) \in Nat /\ First(live') \in Nat
              /\ First(live) <= First(live')
          BY <2>1, <5>1, <5>2, <5>3
        <5>5. First(live') <= First(live)
          BY <5>1, <5>3
        <5> QED BY <5>4, <5>5
      <4> QED BY <4>1, <4>2
    <3> QED BY <3>2, <3>3, <3>4
  <2> QED BY <2>2, <2>3
<1> QED BY <1>1, <1>2, <1>3, <1>4, <1>5, OwnerStep

\* An event goes to the owner of the keyboard.
LEMMA ForwardStep ==
    ASSUME InputInv, NEW a \in Apps, EvntForward(a)
    PROVE  InputInv'
<1> USE DEF InputInv
<1> DEFINE b == KeyOwner
           e == Head(events[a])
<1>1. b \in live /\ b # a /\ a \in live /\ b \in Apps
  BY OwnerFacts, OwnerNow DEF InputTypeOK, EvntForward
<1>2. KeyOwner' = b /\ down' = down /\ live' = live
  BY OwnerNow DEF EvntForward
<1>3. /\ events[a] \in Seq(Event) /\ events[b] \in Seq(Event)
      /\ events[a] # <<>> /\ e \in Event /\ Tail(events[a]) \in Seq(Event)
      /\ Len(Tail(events[a])) <= QueueSize /\ Len(events[b]) <= QueueSize
      /\ \A c \in Apps : held[c] \in SUBSET Keys
      /\ reset[b] \in BOOLEAN
  <2>1. Len(events[a]) <= QueueSize /\ QueueSize \in Nat
    BY <1>1, InputAssumption DEF InputTypeOK
  <2> QED BY <1>1, <2>1 DEF InputTypeOK, EvntForward
<1>4. /\ events' = [events EXCEPT ![a] = Tail(events[a]), ![b] = Queued(events[b], <<e>>)]
      /\ reset' = [reset EXCEPT ![b] = reset[b] \/ Overflows(events[b], <<e>>)]
      /\ UNCHANGED <<live, focus, active, physical, held>>
      /\ Misses({a, b}, {e.key})
  BY <1>1 DEF EvntForward, InputTypeOK
<1> HIDE DEF b, e
<1>5. Typed'
  BY <1>1, <1>2, <1>3, <1>4, EnqueueFacts DEF InputTypeOK, Typed
<1>6. Standard' /\ Absentees'
  BY <1>1, <1>4 DEF Standard, Absentees, InputTypeOK
<1>7. ASSUME NEW c \in live', ~reset'[c]
      PROVE  Reads(held'[c], events'[c])
                \subseteq (IF c = KeyOwner' THEN down' ELSE {})
                            \union missed[c] \union (IF c \in {a, b} THEN {e.key} ELSE {})
  <2>1. CASE c = a
    <3>1. events'[a] = Tail(events[a]) /\ held'[a] = held[a] /\ ~reset[a]
      BY <1>1, <1>4, <1>7, <2>1 DEF InputTypeOK
    <3>2. Reads(held[a], events[a]) \subseteq missed[a]
      BY <1>1, <3>1 DEF InTouch, MayBelieve, b
    <3>3. Reads(Pressed(held[a], e), Tail(events[a])) = Reads(held[a], events[a])
      BY <1>1, <1>3, ReadsFirst DEF e
    <3>4. Reads(held[a], Tail(events[a]))
             \subseteq Reads(held[a], events[a]) \union (held[a] \ Pressed(held[a], e))
      BY <3>3, ReadsMore
    <3>5. held[a] \ Pressed(held[a], e) \subseteq {e.key}
      BY DEF Pressed
    <3> QED BY <2>1, <3>1, <3>2, <3>4, <3>5
  <2>2. CASE c = b
    <3>1. /\ reset'[b] = (reset[b] \/ Overflows(events[b], <<e>>)) /\ held'[b] = held[b]
          /\ events'[b] = Queued(events[b], <<e>>)
      BY <1>1, <1>4 DEF InputTypeOK
    <3>2. ~reset[b] /\ Reads(held[b], events'[b]) = Pressed(Reads(held[b], events[b]), e)
      <4>1. ~reset[b] /\ ~Overflows(events[b], <<e>>)
        BY <1>7, <2>2, <3>1
      <4> QED BY <1>1, <1>3, <3>1, <4>1, EnqueueFacts
    <3>3. Reads(held[b], events[b]) \subseteq down \union missed[b]
      BY <1>1, <3>2 DEF InTouch, MayBelieve, b
    <3>4. Pressed(Reads(held[b], events[b]), e) \subseteq down \union missed[b] \union {e.key}
      BY <3>3 DEF Pressed
    <3> QED BY <1>2, <2>2, <3>1, <3>2, <3>4
  <2>3. CASE c \notin {a, b}
    <3>1. events'[c] = events[c] /\ reset'[c] = reset[c] /\ held'[c] = held[c]
      BY <1>4, <1>7, <2>3, <1>2 DEF InputTypeOK
    <3>2. Reads(held[c], events[c]) \subseteq missed[c]
      BY <1>2, <1>7, <2>3, <3>1 DEF InTouch, MayBelieve, b
    <3> QED BY <3>1, <3>2
  <2> QED BY <2>1, <2>2, <2>3
<1> DEFINE apps == {a, b}
           keys == {e.key}
<1>8. \A c \in live' : ~reset'[c] =>
         Reads(held'[c], events'[c])
            \subseteq (IF c = KeyOwner' THEN down' ELSE {})
                        \union missed[c] \union (IF c \in apps THEN keys ELSE {})
  BY <1>7
<1>9. Misses(apps, keys)
  BY <1>4
<1> HIDE DEF apps, keys
<1> QED BY <1>5, <1>6, <1>8, <1>9, HistoryStep

\* What evnt_multi() does to its caller's own queue.
LEMMA ReaderSteps ==
    ASSUME InputInv, NEW a \in Apps,
           \/ EvntReset(a) \/ EvntKey(a) \/ EvntTake(a)
           \/ \E choice \in BOOLEAN : EvntAsks(a, choice)
    PROVE  InputInv'
<1> USE DEF InputInv
<1>1. a \in live /\ KeyOwner' = KeyOwner /\ down' = down /\ UNCHANGED <<live, focus, active>>
  BY OwnerNow DEF EvntReset, EvntKey, EvntTake, EvntAsks
<1>2. /\ events[a] \in Seq(Event) /\ held[a] \in SUBSET Keys /\ Len(events[a]) <= QueueSize
      /\ <<>> \in Seq(Event) /\ Len(<<>>) = 0 /\ QueueSize >= 0 /\ QueueSize \in Nat
  BY InputAssumption DEF InputTypeOK
<1>3. ASSUME NEW c \in Apps, c # a
      PROVE  events'[c] = events[c] /\ reset'[c] = reset[c] /\ held'[c] = held[c]
  BY <1>3 DEF EvntReset, EvntKey, EvntTake, EvntAsks, InputTypeOK
<1>4. ASSUME Typed', Standard', NEW apps, NEW keys, Misses(apps, keys),
             ~reset'[a] => Reads(held'[a], events'[a])
                              \subseteq MayBelieve(a) \union missed[a]
                                          \union (IF a \in apps THEN keys ELSE {})
      PROVE  InputInv'
  <2>1. Absentees'
    BY <1>1, <1>3 DEF Absentees
  <2>2. ASSUME NEW c \in live', ~reset'[c]
        PROVE  Reads(held'[c], events'[c])
                  \subseteq (IF c = KeyOwner' THEN down' ELSE {})
                              \union missed[c] \union (IF c \in apps THEN keys ELSE {})
    <3>1. CASE c = a
      BY <1>1, <1>4, <2>2, <3>1 DEF MayBelieve
    <3>2. CASE c # a
      <4>1. c \in Apps /\ c \in live
        BY <1>1, <2>2 DEF InputTypeOK
      <4>2. events'[c] = events[c] /\ reset'[c] = reset[c] /\ held'[c] = held[c]
        BY <1>3, <3>2, <4>1
      <4>3. Reads(held[c], events[c]) \subseteq MayBelieve(c) \union missed[c]
        BY <2>2, <4>1, <4>2 DEF InTouch
      <4> QED BY <1>1, <4>2, <4>3 DEF MayBelieve
    <3> QED BY <3>1, <3>2
  <2> QED BY <1>4, <2>1, <2>2, HistoryStep
<1>5. ~reset[a] => Reads(held[a], events[a]) \subseteq MayBelieve(a) \union missed[a]
  BY <1>1 DEF InTouch
<1>6. CASE EvntReset(a)
  <2>1. Typed' /\ Standard'
    BY <1>2, <1>6 DEF EvntReset, InputTypeOK, Typed, Standard
  <2>2. Reads(held'[a], events'[a]) = {}
    BY <1>6, ReadsNothing DEF EvntReset, InputTypeOK
  <2> QED BY <1>4, <1>6, <2>1, <2>2 DEF EvntReset, Informed
<1>7. ASSUME events[a] # <<>>
      PROVE  /\ Head(events[a]) \in Event /\ Tail(events[a]) \in Seq(Event)
             /\ Len(Tail(events[a])) <= QueueSize
             /\ Reads(Pressed(held[a], Head(events[a])), Tail(events[a]))
                   = Reads(held[a], events[a])
  BY <1>2, <1>7, ReadsFirst
<1>8. CASE EvntKey(a)
  <2>1. Pressed(held[a], Head(events[a])) \in SUBSET Keys
    BY <1>2, <1>7, <1>8 DEF EvntKey, Pressed, Event
  <2>2. Typed' /\ Standard'
    BY <1>2, <1>7, <1>8, <2>1 DEF EvntKey, InputTypeOK, Typed, Standard
  <2>3. reset'[a] = reset[a] /\ Reads(held'[a], events'[a]) = Reads(held[a], events[a])
    BY <1>7, <1>8 DEF EvntKey, InputTypeOK
  <2> QED BY <1>4, <1>5, <1>8, <2>2, <2>3 DEF EvntKey, Informed
<1>9. CASE EvntTake(a)
  <2> DEFINE e == Head(events[a])
  <2>1. events[a] # <<>> /\ UNCHANGED <<reset, physical, held>>
        /\ Misses(IF physical[a] THEN {a} ELSE {}, {e.key})
    BY <1>9 DEF EvntTake
  <2>2. Typed' /\ Standard'
    BY <1>2, <1>7, <1>9 DEF EvntTake, InputTypeOK, Typed, Standard
  <2>3. events'[a] = Tail(events[a])
    BY <1>9 DEF EvntTake, InputTypeOK
  <2>4. Reads(held[a], Tail(events[a]))
           \subseteq Reads(held[a], events[a]) \union (held[a] \ Pressed(held[a], e))
    BY <1>7, <2>1, ReadsMore
  <2>5. held[a] \ Pressed(held[a], e) \subseteq IF physical[a] THEN {e.key} ELSE {}
    <3>1. held[a] \ Pressed(held[a], e) \subseteq {e.key}
      BY DEF Pressed
    <3>2. ~physical[a] => held[a] = {}
      BY DEF Standard
    <3> QED BY <3>1, <3>2
  <2> HIDE DEF e
  <2>6. ~reset'[a] => Reads(held'[a], events'[a])
                         \subseteq MayBelieve(a) \union missed[a]
                                     \union (IF a \in (IF physical[a] THEN {a} ELSE {})
                                              THEN {e.key} ELSE {})
    BY <1>5, <2>1, <2>3, <2>4, <2>5
  <2> QED BY <1>4, <2>1, <2>2, <2>6
<1>10. CASE \E choice \in BOOLEAN : EvntAsks(a, choice)
  <2>1. PICK choice \in BOOLEAN : EvntAsks(a, choice)
    BY <1>10
  <2>2. Typed' /\ Standard'
    BY <1>2, <2>1 DEF EvntAsks, InputTypeOK, Typed, Standard
  <2>3. held'[a] \subseteq held[a] /\ UNCHANGED <<events, reset>>
    BY <2>1 DEF EvntAsks, InputTypeOK
  <2>4. Reads(held'[a], events[a]) \subseteq Reads(held[a], events[a])
    BY <2>3, ReadsMore
  <2> QED BY <1>4, <1>5, <2>1, <2>2, <2>3, <2>4 DEF EvntAsks, Informed
<1> QED BY <1>6, <1>8, <1>9, <1>10

LEMMA InputStep ==
    ASSUME InputInv, [InputNext]_inputVars
    PROVE  InputInv'
<1>1. CASE UNCHANGED inputVars
  <2>1. KeyOwner' = KeyOwner
    BY <1>1, OwnerNow DEF inputVars
  <2>2. InputTypeOK' /\ Standard' /\ Absentees'
    BY <1>1 DEF inputVars, InputInv, InputTypeOK, Standard, Absentees
  <2>3. InTouch'
    BY <1>1, <2>1 DEF inputVars, InputInv, InTouch, MayBelieve
  <2> QED BY <2>2, <2>3 DEF InputInv
<1>2. CASE InputNext
  BY <1>2, KeySteps, FocusSteps, ExitStep, ForwardStep, ReaderSteps DEF InputNext
<1> QED BY <1>1, <1>2

LEMMA InputInvariance == InputSpec => []InputInv
<1>1. InputInv /\ [InputNext]_inputVars => InputInv'
  BY InputStep
<1> QED BY InputInitStep, <1>1, PTL DEF InputSpec

(***************************************************************************)
(* Whatever overflows, whoever is clicked and however readers change their  *)
(* ways, nobody who reads physical keys will believe held what has been     *)
(* released, unless a reset waits for it (event.c 88-95, 151-168, 370-422)  *)
(* or the key is one it was misled about, by a step that raises none: for   *)
(* any number of applications and keys, and queues of any length.           *)
(***************************************************************************)
THEOREM ReadersStayInStep == InputSpec => []InStep
<1>1. InputInv => InStep
  BY BelievedReads DEF InputInv, InTouch, MayBelieve, InStep
<1> QED BY InputInvariance, <1>1, PTL

\* The focus and the activity are some living application's, and no queue is
\* longer than AES_APP_INPUT_QUEUE_SIZE.
THEOREM InputTypes == InputSpec => []InputTypeOK
BY InputInvariance, PTL DEF InputInv

-----------------------------------------------------------------------------
(***************************************************************************)
(* The offsets of the Terminal's buffer, for a buffer and a window of any   *)
(* size.  The window must not change under the alternate screen: there the  *)
(* primary screen comes back with the cursor and margins of another size.   *)
(*                                                                          *)
(* OnScreen is not inductive.  It says nothing of the primary buffer that   *)
(* is put away, nor that the margins and the view stay what they are when   *)
(* older rows are thrown away to make a new one.                            *)
(*   Buffer     offsets in the buffer and margins in the screen; the cursor *)
(*              may be below the screen, as when its size has just changed  *)
(*   Placed     with the cursor on the screen                               *)
(*   Sound      with the view over the buffer                               *)
(* Rows are made by Ensured: what makes it harmless is that no sequence     *)
(* asks for a row so far below the top of the screen that this would go.    *)
(***************************************************************************)

USE TerminalAssumption DEF TerminalAssumption

\* The rows of a buffer.
Lines == [Rows -> [Columns -> {Letter, Blank}]]

\* A buffer whose cursor may still be below the screen.
Buffer(t) ==
    /\ t \in State
    /\ t.rows \in 1..MaxLines /\ t.cols \in 1..MaxCols
    /\ t.marginTop <= t.marginBottom /\ t.marginBottom <= t.rows - 1
    /\ t.top <= t.row /\ t.row < t.total /\ t.total <= MaxLines

\* One whose cursor is on the screen.
Placed(t) ==
    /\ Buffer(t)
    /\ t.row <= t.top + t.rows - 1
    /\ t.col <= t.cols - 1

Sound(t) == Placed(t) /\ t.scrollRow <= MaxOffset(t)

\* The heights a window may have.
Heights == {size[1] : size \in Sizes}

\* The invariant: both screens, of one size while the alternate one is shown.
TerminalInv ==
    /\ Sound(term) /\ Sound(primary)
    /\ fed \in 0..MaxSequences
    /\ term.rows \in Heights /\ primary.rows \in Heights
    /\ term.alternate => /\ primary.rows = term.rows /\ primary.cols = term.cols

-----------------------------------------------------------------------------
\* A blank row is a row.
LEMMA BlankLineType == BlankLine \in [Columns -> {Letter, Blank}] /\ NoLines \in Lines
BY DEF BlankLine, NoLines, Lines

\* Blanking rows changes lines only.
LEMMA ClearedFacts ==
    ASSUME NEW t \in State, NEW set
    PROVE  /\ Cleared(t, set) \in State
           /\ \E l \in Lines : Cleared(t, set) = [t EXCEPT !.lines = l]
<1> DEFINE l == [r \in Rows |-> IF r \in set THEN BlankLine ELSE t.lines[r]]
<1>1. l \in Lines
  BY BlankLineType DEF State, Lines
<1>2. Cleared(t, set) = [t EXCEPT !.lines = l]
  BY DEF Cleared
<1> HIDE DEF l
<1>3. [t EXCEPT !.lines = l] \in State
  BY <1>1 DEF State, Lines
<1> QED
  BY <1>1, <1>2, <1>3

\* Only the lines differ.
LEMMA LinesOnly ==
    ASSUME NEW t \in State, NEW l \in Lines
    PROVE  LET u == [t EXCEPT !.lines = l]
           IN  /\ u \in State
               /\ Buffer(t) => Buffer(u)
               /\ Placed(t) => Placed(u)
               /\ Sound(t) => Sound(u)
<1> DEFINE u == [t EXCEPT !.lines = l]
<1>1. u \in State
  BY DEF State, Lines
<1>2. /\ u.row = t.row /\ u.col = t.col /\ u.top = t.top /\ u.total = t.total
      /\ u.rows = t.rows /\ u.cols = t.cols /\ u.marginTop = t.marginTop
      /\ u.marginBottom = t.marginBottom /\ u.scrollRow = t.scrollRow
  BY DEF State
<1> HIDE DEF u
<1> QED
  BY <1>1, <1>2 DEF Buffer, Placed, Sound, MaxOffset, u

\* How many rows have to go for one past the end, and where that one then is.
LEMMA ExcessFacts ==
    ASSUME NEW row \in Nat
    PROVE  /\ Excess(row) \in Nat /\ Made(row) \in Nat
           /\ Made(row) = row - Excess(row) /\ Made(row) <= MaxLines - 1
           /\ \A n \in Nat : row <= n + MaxLines - 1 => Excess(row) <= n
BY DEF Excess, Less, Made

\* Without its oldest rows a buffer has smaller offsets.
LEMMA DroppedFacts ==
    ASSUME NEW t \in State, NEW n \in Nat
    PROVE  LET d == Dropped(t, n)
           IN  /\ d \in State
               /\ d.row = Less(t.row, n) /\ d.top = Less(t.top, n)
               /\ d.total = Less(t.total, n) /\ d.scrollRow = Less(t.scrollRow, n)
               /\ d.col = t.col /\ d.rows = t.rows /\ d.cols = t.cols
               /\ d.marginTop = t.marginTop /\ d.marginBottom = t.marginBottom
               /\ d.origin = t.origin /\ d.wrap = t.wrap /\ d.insert = t.insert
               /\ d.autoWrap = t.autoWrap /\ d.alternate = t.alternate /\ d.follow = t.follow
<1> DEFINE l == [r \in Rows |-> IF r + n \in Rows THEN t.lines[r + n] ELSE BlankLine]
           d == [t EXCEPT !.lines = l, !.row = Less(t.row, n), !.top = Less(t.top, n),
                          !.total = Less(t.total, n), !.scrollRow = Less(t.scrollRow, n)]
<1>1. l \in Lines
  BY BlankLineType DEF State, Lines
<1>2. Dropped(t, n) = d
  BY DEF Dropped
<1> HIDE DEF l
<1>3. \A m \in Nat : Less(m, n) \in Nat
  BY DEF Less
<1>4. d \in State
  BY <1>1, <1>3 DEF State, Lines
<1>5. /\ d.row = Less(t.row, n) /\ d.top = Less(t.top, n)
      /\ d.total = Less(t.total, n) /\ d.scrollRow = Less(t.scrollRow, n)
      /\ d.col = t.col /\ d.rows = t.rows /\ d.cols = t.cols
      /\ d.marginTop = t.marginTop /\ d.marginBottom = t.marginBottom
      /\ d.origin = t.origin /\ d.wrap = t.wrap /\ d.insert = t.insert
      /\ d.autoWrap = t.autoWrap /\ d.alternate = t.alternate /\ d.follow = t.follow
  BY DEF State
<1> HIDE DEF d
<1> QED
  BY <1>2, <1>4, <1>5

\* A row that is made changes lines, and offsets by what had to go.
LEMMA EnsuredFields ==
    ASSUME NEW t \in State, NEW row \in Nat
    PROVE  LET u == Ensured(t, row)
               n == Excess(row)
           IN  /\ u \in State
               /\ u.total = Larger(Less(t.total, n), Made(row) + 1)
               /\ u.row = Less(t.row, n) /\ u.top = Less(t.top, n)
               /\ u.scrollRow = Less(t.scrollRow, n)
               /\ u.col = t.col /\ u.rows = t.rows /\ u.cols = t.cols
               /\ u.marginTop = t.marginTop /\ u.marginBottom = t.marginBottom
               /\ u.origin = t.origin /\ u.alternate = t.alternate
<1> DEFINE n == Excess(row)
           m == Made(row)
           d == Dropped(t, n)
           c == Cleared(d, d.total..m)
           u == [c EXCEPT !.total = Larger(c.total, m + 1)]
<1>1. n \in Nat /\ m \in Nat
  BY ExcessFacts
<1>2. Ensured(t, row) = u
  BY DEF Ensured
<1> HIDE DEF n, m
<1>3. /\ d \in State
      /\ d.row = Less(t.row, n) /\ d.top = Less(t.top, n)
      /\ d.total = Less(t.total, n) /\ d.scrollRow = Less(t.scrollRow, n)
      /\ d.col = t.col /\ d.rows = t.rows /\ d.cols = t.cols
      /\ d.marginTop = t.marginTop /\ d.marginBottom = t.marginBottom
      /\ d.origin = t.origin /\ d.alternate = t.alternate
  BY <1>1, DroppedFacts
<1> HIDE DEF d
<1>4. PICK l \in Lines : c = [d EXCEPT !.lines = l]
  BY <1>3, ClearedFacts
<1>5. /\ c \in State
      /\ c.row = d.row /\ c.top = d.top /\ c.total = d.total /\ c.scrollRow = d.scrollRow
      /\ c.col = t.col /\ c.rows = t.rows /\ c.cols = t.cols
      /\ c.marginTop = t.marginTop /\ c.marginBottom = t.marginBottom
      /\ c.origin = t.origin /\ c.alternate = t.alternate
  BY <1>3, <1>4 DEF State, Lines
<1> HIDE DEF c
<1>6. Larger(c.total, m + 1) \in Nat
  BY <1>1, <1>5 DEF Larger, State
<1>7. /\ u \in State /\ u.total = Larger(c.total, m + 1)
      /\ u.row = d.row /\ u.top = d.top /\ u.scrollRow = d.scrollRow
      /\ u.col = t.col /\ u.rows = t.rows /\ u.cols = t.cols
      /\ u.marginTop = t.marginTop /\ u.marginBottom = t.marginBottom
      /\ u.origin = t.origin /\ u.alternate = t.alternate
  BY <1>5, <1>6 DEF State
<1> HIDE DEF u
<1> QED
  BY <1>2, <1>3, <1>5, <1>7 DEF n, m

\* What may be told of the view when rows go or come.
ViewKept(t, u) == t.scrollRow <= MaxOffset(t) => u.scrollRow <= MaxOffset(u)

\* No row of a screen is far enough below it to take the screen's top away.
LEMMA EnsuredFacts ==
    ASSUME NEW t, Buffer(t), NEW row \in Nat, row <= t.top + MaxLines - 1
    PROVE  LET u == Ensured(t, row)
               n == Excess(row)
           IN  /\ Buffer(u) /\ ViewKept(t, u)
               /\ n \in Nat /\ n <= t.top /\ Made(row) = row - n
               /\ u.row = t.row - n /\ u.top = t.top - n
               /\ Made(row) < u.total /\ Made(row) \in Rows
               /\ u.col = t.col /\ u.rows = t.rows /\ u.cols = t.cols
               /\ u.marginTop = t.marginTop /\ u.marginBottom = t.marginBottom
               /\ u.origin = t.origin /\ u.alternate = t.alternate
<1> DEFINE n == Excess(row)
           m == Made(row)
           u == Ensured(t, row)
<1>1. t \in State /\ t.top \in Nat /\ t.row \in Nat /\ t.total \in Nat /\ t.scrollRow \in Nat
      /\ t.rows \in Nat /\ MaxLines \in Nat
  BY DEF Buffer, State
<1>2. n \in Nat /\ m \in Nat /\ m = row - n /\ m <= MaxLines - 1 /\ n <= t.top
  BY <1>1, ExcessFacts
<1>3. /\ u \in State
      /\ u.total = Larger(Less(t.total, n), m + 1)
      /\ u.row = Less(t.row, n) /\ u.top = Less(t.top, n)
      /\ u.scrollRow = Less(t.scrollRow, n)
      /\ u.col = t.col /\ u.rows = t.rows /\ u.cols = t.cols
      /\ u.marginTop = t.marginTop /\ u.marginBottom = t.marginBottom
      /\ u.origin = t.origin /\ u.alternate = t.alternate
  BY <1>1, EnsuredFields
<1> HIDE DEF n, m, u
<1>4. u.row = t.row - n /\ u.top = t.top - n /\ u.total = Larger(t.total - n, m + 1)
  BY <1>1, <1>2, <1>3 DEF Less, Buffer
<1>5. m < u.total /\ u.row < u.total /\ u.total <= MaxLines /\ m \in Rows
  BY <1>1, <1>2, <1>4 DEF Buffer, Larger, Rows
<1>6. Buffer(u)
  BY <1>1, <1>2, <1>3, <1>4, <1>5 DEF Buffer
<1>7. ViewKept(t, u)
  BY <1>1, <1>2, <1>3, <1>4 DEF ViewKept, MaxOffset, Less, Larger, Buffer
<1> QED
  BY <1>2, <1>3, <1>4, <1>5, <1>6, <1>7 DEF n, m, u

-----------------------------------------------------------------------------
\* A value brought into an interval.
LEMMA ClampFacts ==
    ASSUME NEW v \in Int, NEW low \in Int, NEW high \in Int, low <= high
    PROVE  /\ Clamp(v, low, high) \in low..high
           /\ v \in low..high => Clamp(v, low, high) = v
BY DEF Clamp

\* The types of a buffer's fields.
LEMMA BufferTypes ==
    ASSUME NEW t, Buffer(t)
    PROVE  /\ t \in State
           /\ t.row \in Nat /\ t.col \in Nat /\ t.top \in Nat /\ t.total \in Nat
           /\ t.rows \in Nat /\ t.cols \in Nat /\ t.rows >= 1 /\ t.cols >= 1
           /\ t.marginTop \in Nat /\ t.marginBottom \in Nat /\ t.scrollRow \in Nat
           /\ t.savedRow \in Nat /\ t.savedCol \in Nat
           /\ t.wrap \in BOOLEAN /\ t.autoWrap \in BOOLEAN /\ t.origin \in BOOLEAN
           /\ t.lines \in Lines
           /\ t.rows <= MaxLines /\ t.cols <= MaxCols /\ MaxLines \in Nat /\ MaxCols \in Nat
BY DEF Buffer, State, Lines

\* The cursor's row on the screen; clamped only while it is outside.
LEMMA ScreenRowFacts ==
    ASSUME NEW t, Buffer(t)
    PROVE  /\ ScreenRow(t) \in 0..t.rows - 1
           /\ Placed(t) => ScreenRow(t) = t.row - t.top
<1>1. /\ t.row - t.top \in Int /\ t.rows - 1 \in Int /\ 0 \in Int /\ 0 <= t.rows - 1
  BY BufferTypes
<1>2. /\ ScreenRow(t) \in 0..t.rows - 1
      /\ t.row - t.top \in 0..t.rows - 1 => ScreenRow(t) = t.row - t.top
  BY <1>1, ClampFacts DEF ScreenRow
<1>3. Placed(t) => t.row - t.top \in 0..t.rows - 1
  BY BufferTypes DEF Placed, Buffer
<1> QED
  BY <1>2, <1>3

\* What every sequence but a switch of the screens leaves alone.
SameWindow(t, u) == u.rows = t.rows /\ u.cols = t.cols /\ u.alternate = t.alternate

\* The cursor moved within a line, with or without a line break pending.
LEMMA ColumnSet ==
    ASSUME NEW t, Sound(t), NEW c \in 0..t.cols - 1, NEW w \in BOOLEAN
    PROVE  /\ Sound([t EXCEPT !.col = c, !.wrap = w]) /\ Sound([t EXCEPT !.col = c])
           /\ Sound([t EXCEPT !.wrap = w])
           /\ SameWindow(t, [t EXCEPT !.col = c, !.wrap = w])
           /\ SameWindow(t, [t EXCEPT !.col = c]) /\ SameWindow(t, [t EXCEPT !.wrap = w])
<1> DEFINE u == [t EXCEPT !.col = c, !.wrap = w]
           v == [t EXCEPT !.col = c]
           x == [t EXCEPT !.wrap = w]
<1>1. t \in State /\ c \in Nat /\ t.cols \in Nat /\ c <= t.cols - 1
  BY BufferTypes DEF Sound, Placed
<1>2. /\ u \in State /\ u.row = t.row /\ u.col = c /\ u.top = t.top /\ u.total = t.total
      /\ u.rows = t.rows /\ u.cols = t.cols /\ u.marginTop = t.marginTop
      /\ u.marginBottom = t.marginBottom /\ u.scrollRow = t.scrollRow
      /\ u.alternate = t.alternate
  BY <1>1 DEF State
<1>3. /\ v \in State /\ v.row = t.row /\ v.col = c /\ v.top = t.top /\ v.total = t.total
      /\ v.rows = t.rows /\ v.cols = t.cols /\ v.marginTop = t.marginTop
      /\ v.marginBottom = t.marginBottom /\ v.scrollRow = t.scrollRow
      /\ v.alternate = t.alternate
  BY <1>1 DEF State
<1>4. /\ x \in State /\ x.row = t.row /\ x.col = t.col /\ x.top = t.top
      /\ x.total = t.total
      /\ x.rows = t.rows /\ x.cols = t.cols /\ x.marginTop = t.marginTop
      /\ x.marginBottom = t.marginBottom /\ x.scrollRow = t.scrollRow
      /\ x.alternate = t.alternate
  BY <1>1 DEF State
<1> HIDE DEF u, v, x
<1>5. Sound(u)
  BY <1>1, <1>2 DEF Sound, Placed, Buffer, MaxOffset
<1>6. Sound(v)
  BY <1>1, <1>3 DEF Sound, Placed, Buffer, MaxOffset
<1>7. Sound(x)
  BY <1>1, <1>4 DEF Sound, Placed, Buffer, MaxOffset
<1>8. SameWindow(t, u) /\ SameWindow(t, v) /\ SameWindow(t, x)
  BY <1>2, <1>3, <1>4 DEF SameWindow
<1> QED
  BY <1>5, <1>6, <1>7, <1>8 DEF u, v, x

\* The cursor moved to another row of the screen.
LEMMA RowSet ==
    ASSUME NEW t, Buffer(t), t.scrollRow <= MaxOffset(t), NEW r \in Nat,
           t.top <= r, r <= t.top + t.rows - 1, r < t.total
    PROVE  LET u == [t EXCEPT !.row = r]
           IN  SameWindow(t, u) /\ (t.col <= t.cols - 1 => Sound(u))
<1> DEFINE u == [t EXCEPT !.row = r]
<1>1. t \in State
  BY DEF Buffer
<1>2. /\ u \in State /\ u.row = r /\ u.col = t.col /\ u.top = t.top /\ u.total = t.total
      /\ u.rows = t.rows /\ u.cols = t.cols /\ u.marginTop = t.marginTop
      /\ u.marginBottom = t.marginBottom /\ u.scrollRow = t.scrollRow
      /\ u.alternate = t.alternate
  BY <1>1 DEF State
<1> HIDE DEF u
<1>3. t.col <= t.cols - 1 => Sound(u)
  BY <1>2 DEF Sound, Placed, Buffer, MaxOffset
<1> QED
  BY <1>2, <1>3 DEF u, SameWindow

\* A row above the cursor's or at it can be made without moving it off.
LEMMA EnsuredSound ==
    ASSUME NEW t, Sound(t), NEW row \in Nat, row <= t.top + t.rows - 1
    PROVE  LET u == Ensured(t, row)
           IN  /\ Sound(u)
               /\ Excess(row) \in Nat /\ Excess(row) <= t.top
               /\ Made(row) = row - Excess(row) /\ Made(row) < u.total /\ Made(row) \in Rows
               /\ u.row = t.row - Excess(row) /\ u.top = t.top - Excess(row)
               /\ u.col = t.col /\ u.rows = t.rows /\ u.cols = t.cols
               /\ u.marginTop = t.marginTop /\ u.marginBottom = t.marginBottom
               /\ u.origin = t.origin /\ u.alternate = t.alternate
<1> DEFINE u == Ensured(t, row)
           n == Excess(row)
<1>1. Buffer(t) /\ t.scrollRow <= MaxOffset(t) /\ t.row <= t.top + t.rows - 1
      /\ t.col <= t.cols - 1
  BY DEF Sound, Placed
<1>2. row <= t.top + MaxLines - 1
  BY <1>1, BufferTypes
<1>3. /\ Buffer(u) /\ ViewKept(t, u)
      /\ n \in Nat /\ n <= t.top /\ Made(row) = row - n
      /\ u.row = t.row - n /\ u.top = t.top - n
      /\ Made(row) < u.total /\ Made(row) \in Rows
      /\ u.col = t.col /\ u.rows = t.rows /\ u.cols = t.cols
      /\ u.marginTop = t.marginTop /\ u.marginBottom = t.marginBottom
      /\ u.origin = t.origin /\ u.alternate = t.alternate
  BY <1>1, <1>2, EnsuredFacts
<1> HIDE DEF u, n
<1>4. Sound(u)
  BY <1>1, <1>3, BufferTypes DEF Sound, Placed, ViewKept
<1> QED
  BY <1>3, <1>4 DEF u, n

-----------------------------------------------------------------------------
\* Everything but the lines and the pending line break.
SameScreen(t, u) ==
    /\ u.row = t.row /\ u.col = t.col /\ u.top = t.top /\ u.total = t.total
    /\ u.rows = t.rows /\ u.cols = t.cols /\ u.alternate = t.alternate

OneLine == [Columns -> {Letter, Blank}]

\* Other lines on the same screen.
LEMMA LinesSet ==
    ASSUME NEW t, Sound(t), NEW l \in Lines
    PROVE  LET u == [t EXCEPT !.lines = l] IN Sound(u) /\ SameScreen(t, u)
<1>1. t \in State
  BY BufferTypes DEF Sound, Placed
<1>2. Sound([t EXCEPT !.lines = l])
  BY <1>1, LinesOnly
<1>3. SameScreen(t, [t EXCEPT !.lines = l])
  BY <1>1 DEF SameScreen, State
<1> QED
  BY <1>2, <1>3

\* The cursor's cell is in the buffer.
LEMMA CursorRow ==
    ASSUME NEW t, Sound(t) PROVE t.row \in Rows /\ t.col \in Columns /\ t.col < t.cols
<1>1. Buffer(t) /\ t.col <= t.cols - 1 /\ t.row < t.total /\ t.total <= MaxLines
  BY DEF Sound, Placed, Buffer
<1> QED
  BY <1>1, BufferTypes DEF Rows, Columns

\* Another line in one row.
LEMMA LineSet ==
    ASSUME NEW t, Sound(t), NEW row \in Rows, NEW l \in OneLine
    PROVE  LET u == [t EXCEPT !.lines[row] = l] IN Sound(u) /\ SameScreen(t, u)
<1>1. t \in State /\ t.lines \in Lines
  BY BufferTypes DEF Sound, Placed
<1>2. [t.lines EXCEPT ![row] = l] \in Lines
  BY <1>1 DEF Lines, OneLine
<1>3. [t EXCEPT !.lines[row] = l] = [t EXCEPT !.lines = [t.lines EXCEPT ![row] = l]]
  OBVIOUS
<1> QED
  BY <1>2, <1>3, LinesSet

\* Cells blanked in one row.
LEMMA WipedSound ==
    ASSUME NEW t, Sound(t), NEW row \in Rows, NEW set
    PROVE  Sound(Wiped(t, row, set)) /\ SameScreen(t, Wiped(t, row, set))
<1> DEFINE l == [c \in Columns |-> IF c \in set THEN Blank ELSE t.lines[row][c]]
<1>1. t.lines \in Lines
  BY BufferTypes DEF Sound, Placed
<1>2. l \in OneLine
  BY <1>1 DEF Lines, OneLine
<1>3. Wiped(t, row, set) = [t EXCEPT !.lines[row] = l]
  BY DEF Wiped
<1> HIDE DEF l
<1> QED
  BY <1>2, <1>3, LineSet

\* Rows blanked.
LEMMA ClearedSound ==
    ASSUME NEW t, Sound(t), NEW set
    PROVE  Sound(Cleared(t, set)) /\ SameScreen(t, Cleared(t, set))
<1>1. t \in State
  BY BufferTypes DEF Sound, Placed
<1>2. PICK l \in Lines : Cleared(t, set) = [t EXCEPT !.lines = l]
  BY <1>1, ClearedFacts
<1> QED
  BY <1>2, LinesSet

\* Lines inserted, deleted or scrolled inside a part of the screen.
LEMMA ScrolledSound ==
    ASSUME NEW t, Sound(t), NEW a \in Int, NEW b \in Int, NEW k \in Int,
           NEW downward \in BOOLEAN
    PROVE  /\ Sound(Scrolled(t, a, b, k, downward))
           /\ SameWindow(t, Scrolled(t, a, b, k, downward))
<1> DEFINE top    == Clamp(a, 0, t.rows - 1)
           bottom == Clamp(b, top, t.rows - 1)
           n      == Clamp(k, 1, bottom - top + 1)
           row    == t.top + bottom
           u      == Ensured(t, row)
           region == u.top + top..u.top + bottom
           from(r) == IF downward THEN r - n ELSE r + n
           l == [r \in Rows |-> CASE r \notin region -> u.lines[r]
                                  [] r \in region /\ from(r) \in region -> u.lines[from(r)]
                                  [] OTHER -> BlankLine]
<1>1. Buffer(t) /\ t.top \in Nat /\ t.rows \in Nat /\ t.rows >= 1
  BY BufferTypes DEF Sound, Placed
<1>2. top \in 0..t.rows - 1
  <2>1. 0 \in Int /\ t.rows - 1 \in Int /\ 0 <= t.rows - 1
    BY <1>1
  <2> QED
    BY <2>1 DEF Clamp
<1>3. bottom \in top..t.rows - 1
  <2> HIDE DEF top
  <2>1. top \in Int /\ t.rows - 1 \in Int /\ top <= t.rows - 1
    BY <1>1, <1>2
  <2> QED
    BY <2>1 DEF Clamp
<1>4. Scrolled(t, a, b, k, downward) = [u EXCEPT !.lines = l]
  BY DEF Scrolled
<1> HIDE DEF top, bottom, n
<1>5. row \in Nat /\ row <= t.top + t.rows - 1 /\ row = t.top + bottom
  BY <1>1, <1>2, <1>3
<1> HIDE DEF row
<1>6. /\ Sound(u) /\ Made(row) \in Rows /\ Made(row) = row - Excess(row)
      /\ u.top = t.top - Excess(row) /\ Excess(row) \in Nat /\ SameWindow(t, u)
  BY <1>5, EnsuredSound DEF SameWindow
<1> HIDE DEF u
<1>7. u.top \in Nat /\ u.lines \in Lines
  BY <1>6, BufferTypes DEF Sound, Placed
<1>8. u.top + bottom \in Rows
  BY <1>1, <1>2, <1>3, <1>5, <1>6
<1>9. region \subseteq Rows
  BY <1>2, <1>7, <1>8 DEF Rows
<1> HIDE DEF region, from
<1>10. l \in Lines
  BY <1>7, <1>9, BlankLineType DEF Lines
<1> HIDE DEF l
<1> QED
  BY <1>4, <1>6, <1>10, LinesSet DEF SameScreen, SameWindow

\* The screen's last line goes up and the history takes the first one: with as
\* many rows as the buffer has, the screen reaches below it until it is moved.
LEMMA ScrolledAwaySound ==
    ASSUME NEW t, Sound(t), t.row = t.top + t.rows - 1
    PROVE  Sound(ScrolledAway(t)) /\ SameWindow(t, ScrolledAway(t))
<1> DEFINE row == t.row + 1
           n == Excess(row)
           m == Made(row)
           u == Ensured(t, row)
           v == [u EXCEPT !.row = m, !.top = @ + 1]
<1>1. /\ t \in State /\ t.row \in Nat /\ t.col \in Nat /\ t.top \in Nat /\ t.total \in Nat
      /\ t.rows \in Nat /\ t.scrollRow \in Nat /\ t.rows >= 1 /\ t.rows <= MaxLines
      /\ MaxLines \in Nat /\ MaxLines >= 2
  BY BufferTypes DEF Sound, Placed
<1>2. row \in Nat /\ row = t.row + 1
  BY <1>1
<1> HIDE DEF row
<1>3. n \in Nat /\ m \in Nat /\ m = row - n /\ n = Less(row, MaxLines - 1)
  BY <1>2, ExcessFacts DEF Excess
<1>4. /\ u \in State
      /\ u.total = Larger(Less(t.total, n), m + 1)
      /\ u.row = Less(t.row, n) /\ u.top = Less(t.top, n)
      /\ u.scrollRow = Less(t.scrollRow, n)
      /\ u.col = t.col /\ u.rows = t.rows /\ u.cols = t.cols
      /\ u.marginTop = t.marginTop /\ u.marginBottom = t.marginBottom
      /\ u.alternate = t.alternate
  BY <1>1, <1>2, EnsuredFields
<1> HIDE DEF n, m, u
<1>5. u.top + 1 \in Nat
  BY <1>4 DEF State
<1>6. /\ v \in State /\ v.row = m /\ v.top = u.top + 1 /\ v.total = u.total
      /\ v.scrollRow = u.scrollRow /\ v.col = t.col /\ v.rows = t.rows /\ v.cols = t.cols
      /\ v.marginTop = t.marginTop /\ v.marginBottom = t.marginBottom
      /\ v.alternate = t.alternate
  BY <1>3, <1>4, <1>5 DEF State
<1>7. ScrolledAway(t) = Cleared(v, {m})
  BY DEF ScrolledAway, u, m, row
<1> HIDE DEF v
<1>8. t.row < t.total /\ t.total <= MaxLines /\ t.scrollRow <= Less(t.total, t.rows)
      /\ t.top <= t.row
  BY DEF Sound, Placed, Buffer, MaxOffset
<1>9. /\ v.top <= v.row /\ v.row < v.total /\ v.total <= MaxLines
      /\ v.row <= v.top + v.rows - 1
  BY <1>1, <1>2, <1>3, <1>4, <1>6, <1>8 DEF Less, Larger
<1>10. v.scrollRow <= Less(v.total, v.rows)
  <2>1. \A a, b, k, r \in Nat : a <= Less(b, r) => Less(a, k) <= Less(Less(b, k), r)
    BY DEF Less
  <2>2. \A a, b, r \in Nat : a <= b => Less(a, r) <= Less(b, r)
    BY DEF Less
  <2>3. \A a, b \in Nat : Less(a, b) \in Nat /\ Larger(a, b) \in Nat /\ a <= Larger(a, b)
    BY DEF Less, Larger
  <2>4. Less(t.scrollRow, n) <= Less(Less(t.total, n), t.rows)
    <3>1. /\ t.scrollRow \in Nat /\ t.total \in Nat /\ n \in Nat /\ t.rows \in Nat
          /\ t.scrollRow <= Less(t.total, t.rows)
      BY <1>1, <1>3, <1>8
    <3> QED
      BY <2>1, <3>1, Zenon
  <2>5. /\ t.total \in Nat /\ n \in Nat /\ t.rows \in Nat /\ t.scrollRow \in Nat
        /\ m + 1 \in Nat
    BY <1>1, <1>3
  <2>6. /\ Less(t.total, n) \in Nat /\ Less(t.scrollRow, n) \in Nat
        /\ Less(Less(t.total, n), t.rows) \in Nat
    BY <2>3, <2>5, Zenon
  <2>7. /\ v.total \in Nat /\ Less(t.total, n) <= v.total
        /\ Less(v.total, t.rows) \in Nat
    <3>1. v.total = Larger(Less(t.total, n), m + 1)
      BY <1>4, <1>6
    <3>2. /\ Larger(Less(t.total, n), m + 1) \in Nat
          /\ Less(t.total, n) <= Larger(Less(t.total, n), m + 1)
      BY <2>3, <2>5, <2>6, Zenon
    <3>3. v.total \in Nat /\ Less(t.total, n) <= v.total
      BY <3>1, <3>2, Zenon
    <3> QED
      BY <2>3, <2>5, <3>3, Zenon
  <2>8. Less(Less(t.total, n), t.rows) <= Less(v.total, t.rows)
    BY <2>2, <2>5, <2>6, <2>7, Zenon
  <2>9. Less(t.scrollRow, n) <= Less(v.total, t.rows)
    <3>1. \A a, b, k \in Nat : a <= b /\ b <= k => a <= k
      OBVIOUS
    <3> QED
      BY <2>4, <2>6, <2>7, <2>8, <3>1, Zenon
  <2> QED
    BY <1>4, <1>6, <2>9
<1>11. Sound(v)
  BY <1>6, <1>9, <1>10 DEF Sound, Placed, Buffer, MaxOffset
<1>12. SameWindow(t, v)
  BY <1>6 DEF SameWindow
<1> QED
  BY <1>7, <1>11, <1>12, ClearedSound DEF SameScreen, SameWindow

\* One line down, by whichever of the three ways.
LEMMA IndexedSound ==
    ASSUME NEW t, Sound(t)
    PROVE  Sound(Indexed(t)) /\ SameWindow(t, Indexed(t))
<1> DEFINE atMargin == ScreenRow(t) = t.marginBottom
           away == FullMargins(t) /\ ~t.alternate
           row == t.row + 1
           lower == [Ensured(t, row) EXCEPT !.row = Made(row)]
           scrolled == Scrolled(t, t.marginTop, t.marginBottom, 1, FALSE)
           moved == CASE atMargin /\ away -> ScrolledAway(t)
                      [] atMargin /\ ~away -> scrolled
                      [] ~atMargin /\ ScreenRow(t) < t.rows - 1 -> lower
                      [] OTHER -> t
<1>1. /\ t.row \in Nat /\ t.top \in Nat /\ t.rows \in Nat /\ t.marginTop \in Nat
      /\ t.marginBottom \in Nat /\ ScreenRow(t) = t.row - t.top
      /\ t.row <= t.top + t.rows - 1 /\ t.col <= t.cols - 1 /\ t.top <= t.row
  BY BufferTypes, ScreenRowFacts DEF Sound, Placed, Buffer
<1>2. atMargin /\ away => Sound(ScrolledAway(t)) /\ SameWindow(t, ScrolledAway(t))
  <2> SUFFICES ASSUME atMargin, away
               PROVE  Sound(ScrolledAway(t)) /\ SameWindow(t, ScrolledAway(t))
    OBVIOUS
  <2>1. t.row = t.top + t.rows - 1
    BY <1>1 DEF FullMargins
  <2> QED
    BY <2>1, ScrolledAwaySound
<1>3. Sound(scrolled) /\ SameWindow(t, scrolled)
  <2>1. t.marginTop \in Int /\ t.marginBottom \in Int /\ 1 \in Int
    BY <1>1
  <2> QED
    BY <2>1, ScrolledSound
<1>4. ScreenRow(t) < t.rows - 1 => Sound(lower) /\ SameWindow(t, lower)
  <2> SUFFICES ASSUME ScreenRow(t) < t.rows - 1
               PROVE  Sound(lower) /\ SameWindow(t, lower)
    OBVIOUS
  <2>1. row \in Nat /\ row <= t.top + t.rows - 1 /\ t.top <= row
    BY <1>1
  <2> DEFINE u == Ensured(t, row)
  <2>2. /\ Sound(u) /\ Excess(row) \in Nat /\ Excess(row) <= t.top
        /\ Made(row) = row - Excess(row) /\ Made(row) < u.total
        /\ u.top = t.top - Excess(row) /\ u.col = t.col /\ u.rows = t.rows
        /\ u.cols = t.cols /\ u.alternate = t.alternate
    <3> HIDE DEF row
    <3> QED BY <2>1, EnsuredSound
  <2> HIDE DEF u, row
  <2>3. /\ Made(row) \in Nat /\ u.top <= Made(row) /\ Made(row) <= u.top + u.rows - 1
    BY <1>1, <2>1, <2>2
  <2>4. Buffer(u) /\ u.scrollRow <= MaxOffset(u) /\ u.col <= u.cols - 1
    BY <2>2 DEF Sound, Placed
  <2>5. Sound([u EXCEPT !.row = Made(row)]) /\ SameWindow(u, [u EXCEPT !.row = Made(row)])
    BY <2>2, <2>3, <2>4, RowSet
  <2> QED
    BY <2>2, <2>5 DEF u, SameWindow
<1>5. Indexed(t) = [moved EXCEPT !.wrap = FALSE]
  BY DEF Indexed
<1> HIDE DEF lower, scrolled
<1>6. Sound(moved) /\ SameWindow(t, moved)
  <2>1. SameWindow(t, t)
    BY DEF SameWindow
  <2> QED
    BY <1>2, <1>3, <1>4, <2>1
<1> HIDE DEF moved
<1>7. 0 \in 0..moved.cols - 1
  BY <1>6, BufferTypes DEF Sound, Placed
<1>8. FALSE \in BOOLEAN
  OBVIOUS
<1>9. Sound([moved EXCEPT !.wrap = FALSE]) /\ SameWindow(moved, [moved EXCEPT !.wrap = FALSE])
  BY <1>6, <1>7, <1>8, ColumnSet, Zenon
<1> QED
  BY <1>5, <1>6, <1>9 DEF SameWindow

\* One line up.
LEMMA ReverseIndexedSound ==
    ASSUME NEW t, Sound(t)
    PROVE  Sound(ReverseIndexed(t)) /\ SameWindow(t, ReverseIndexed(t))
<1> DEFINE scrolled == Scrolled(t, t.marginTop, t.marginBottom, 1, TRUE)
           up == [t EXCEPT !.row = t.row - 1]
           moved == CASE ScreenRow(t) = t.marginTop -> scrolled
                      [] ScreenRow(t) \notin {0, t.marginTop} -> up
                      [] OTHER -> t
<1>1. /\ t.row \in Nat /\ t.top \in Nat /\ t.marginTop \in Nat /\ t.rows \in Nat
      /\ t.marginBottom \in Nat /\ ScreenRow(t) = t.row - t.top /\ t.total \in Nat
      /\ t.row <= t.top + t.rows - 1 /\ t.top <= t.row /\ t.row < t.total
      /\ Buffer(t) /\ t.scrollRow <= MaxOffset(t) /\ t.col <= t.cols - 1
  BY BufferTypes, ScreenRowFacts DEF Sound, Placed, Buffer
<1>2. Sound(scrolled) /\ SameWindow(t, scrolled)
  <2>1. t.marginTop \in Int /\ t.marginBottom \in Int /\ 1 \in Int
    BY <1>1
  <2> QED
    BY <2>1, ScrolledSound
<1>3. ScreenRow(t) \notin {0, t.marginTop} => Sound(up) /\ SameWindow(t, up)
  <2> SUFFICES ASSUME ScreenRow(t) # 0 PROVE Sound(up) /\ SameWindow(t, up)
    OBVIOUS
  <2> DEFINE r == t.row - 1
  <2>1. r \in Nat /\ t.top <= r /\ r <= t.top + t.rows - 1 /\ r < t.total
    BY <1>1
  <2>2. up = [t EXCEPT !.row = r]
    OBVIOUS
  <2> HIDE DEF r, up
  <2> QED
    BY <1>1, <2>1, <2>2, RowSet
<1>4. ReverseIndexed(t) = [moved EXCEPT !.wrap = FALSE]
  BY DEF ReverseIndexed
<1> HIDE DEF up, scrolled
<1>5. Sound(moved) /\ SameWindow(t, moved)
  <2>1. SameWindow(t, t)
    BY DEF SameWindow
  <2> QED
    BY <1>2, <1>3, <2>1
<1> HIDE DEF moved
<1>6. 0 \in 0..moved.cols - 1
  BY <1>5, BufferTypes DEF Sound, Placed
<1>7. FALSE \in BOOLEAN
  OBVIOUS
<1>8. Sound([moved EXCEPT !.wrap = FALSE]) /\ SameWindow(moved, [moved EXCEPT !.wrap = FALSE])
  BY <1>5, <1>6, <1>7, ColumnSet, Zenon
<1> QED
  BY <1>4, <1>5, <1>8 DEF SameWindow

\* Wherever a cursor is sent, it is on the screen: also one that has been left
\* outside it by a change of its size.
LEMMA CursorAtPlaced ==
    ASSUME NEW t, Buffer(t), NEW row \in Int, NEW col \in Int
    PROVE  LET u == CursorAt(t, row, col)
           IN  Placed(u) /\ ViewKept(t, u) /\ u.rows = t.rows /\ u.cols = t.cols
               /\ u.alternate = t.alternate
<1> DEFINE low  == IF t.origin THEN t.marginTop ELSE 0
           high == IF t.origin THEN t.marginBottom ELSE t.rows - 1
           at == Clamp(row, low, high)
           to == t.top + at
           c == Clamp(col, 0, t.cols - 1)
           e == Ensured(t, to)
           m == Made(to)
           u == [e EXCEPT !.row = m, !.wrap = FALSE, !.col = c]
<1>1. /\ t.top \in Nat /\ t.rows \in Nat /\ t.cols \in Nat /\ t.rows >= 1 /\ t.cols >= 1
      /\ t.marginTop \in Nat /\ t.marginBottom \in Nat /\ t.rows <= MaxLines
      /\ MaxLines \in Nat
  BY BufferTypes
<1>2. low \in Nat /\ high \in Nat /\ low <= high /\ high <= t.rows - 1
  BY <1>1 DEF Buffer
<1> HIDE DEF low, high
<1>3. at \in low..high
  BY <1>2 DEF Clamp
<1>4. c \in 0..t.cols - 1
  BY <1>1 DEF Clamp
<1> HIDE DEF at, c
<1>5. to \in Nat /\ to <= t.top + t.rows - 1 /\ t.top <= to /\ to <= t.top + MaxLines - 1
  BY <1>1, <1>2, <1>3
<1>6. CursorAt(t, row, col) = u
  BY DEF CursorAt, u, at, low, high, c
<1> HIDE DEF to
<1>7. /\ Buffer(e) /\ ViewKept(t, e)
      /\ Excess(to) \in Nat /\ Excess(to) <= t.top /\ m = to - Excess(to)
      /\ e.top = t.top - Excess(to) /\ m < e.total /\ m \in Rows
      /\ e.rows = t.rows /\ e.cols = t.cols /\ e.alternate = t.alternate
  BY <1>5, EnsuredFacts
<1> HIDE DEF e, m
<1>8. m \in Nat /\ c \in Nat /\ e \in State
  BY <1>1, <1>4, <1>7, BufferTypes DEF Rows
<1>9. /\ u \in State /\ u.row = m /\ u.col = c /\ u.top = e.top /\ u.total = e.total
      /\ u.rows = e.rows /\ u.cols = e.cols /\ u.marginTop = e.marginTop
      /\ u.marginBottom = e.marginBottom /\ u.scrollRow = e.scrollRow
      /\ u.alternate = e.alternate
  BY <1>8 DEF State
<1> HIDE DEF u
<1>10. e.top <= m /\ m <= e.top + t.rows - 1 /\ c <= t.cols - 1
  BY <1>1, <1>4, <1>5, <1>7
<1>11. Placed(u)
  BY <1>7, <1>9, <1>10 DEF Placed, Buffer
<1>12. ViewKept(t, u)
  BY <1>7, <1>9 DEF ViewKept, MaxOffset
<1> QED
  BY <1>6, <1>7, <1>9, <1>11, <1>12

\* A cursor addressed on a sound screen.
LEMMA CursorAtSound ==
    ASSUME NEW t, Sound(t), NEW row \in Int, NEW col \in Int
    PROVE  Sound(CursorAt(t, row, col)) /\ SameWindow(t, CursorAt(t, row, col))
<1>1. Buffer(t) /\ t.scrollRow <= MaxOffset(t)
  BY DEF Sound, Placed
<1>2. /\ Placed(CursorAt(t, row, col)) /\ ViewKept(t, CursorAt(t, row, col))
      /\ SameWindow(t, CursorAt(t, row, col))
  BY <1>1, CursorAtPlaced DEF SameWindow
<1> QED
  BY <1>1, <1>2 DEF Sound, ViewKept

-----------------------------------------------------------------------------
\* A character: the line break that was pending, the row, the line, the column.
LEMMA PrintedSound ==
    ASSUME NEW t, Sound(t)
    PROVE  Sound(Printed(t)) /\ SameWindow(t, Printed(t))
<1> DEFINE b == [t EXCEPT !.col = 0]
           u == IF t.wrap THEN Indexed(b) ELSE t
           v == Ensured(u, u.row)
           col == Clamp(v.col, 0, v.cols - 1)
           last == col = v.cols - 1
           line == [c \in Columns |->
                       CASE c = col -> Letter
                         [] v.insert /\ c > col /\ c < v.cols -> v.lines[v.row][c - 1]
                         [] OTHER -> v.lines[v.row][c]]
           w == [v EXCEPT !.lines[v.row] = line]
           wrap == IF last THEN v.autoWrap ELSE v.wrap
           to == IF last THEN v.col ELSE col + 1
<1>1. Sound(u) /\ SameWindow(t, u)
  <2>1. 0 \in 0..t.cols - 1
    BY BufferTypes DEF Sound, Placed
  <2>2. Sound(b) /\ SameWindow(t, b)
    BY <2>1, ColumnSet, BufferTypes DEF Sound, Placed
  <2> HIDE DEF b
  <2>3. Sound(Indexed(b)) /\ SameWindow(t, Indexed(b))
    BY <2>2, IndexedSound DEF SameWindow
  <2>4. SameWindow(t, t)
    BY DEF SameWindow
  <2> QED
    BY <2>3, <2>4
<1>2. Printed(t) = [v EXCEPT !.lines[v.row] = line, !.wrap = wrap, !.col = to]
  BY DEF Printed
<1> HIDE DEF u
<1>3. Sound(v) /\ SameWindow(t, v)
  <2>1. u.row \in Nat /\ u.row <= u.top + u.rows - 1
    BY <1>1, BufferTypes DEF Sound, Placed
  <2> QED
    BY <1>1, <2>1, EnsuredSound DEF SameWindow
<1> HIDE DEF v
<1>4. /\ v \in State /\ v.lines \in Lines /\ v.col \in 0..v.cols - 1 /\ v.cols \in Nat
      /\ v.wrap \in BOOLEAN /\ v.autoWrap \in BOOLEAN /\ v.row \in Rows
      /\ v.cols <= MaxCols
  BY <1>3, BufferTypes, CursorRow DEF Sound, Placed
<1>5. col = v.col
  BY <1>4 DEF Clamp
<1>6. to \in 0..v.cols - 1
  BY <1>4, <1>5
<1>7. wrap \in BOOLEAN
  BY <1>4
<1>8. line \in OneLine
  <2> HIDE DEF col
  <2>1. \A c \in Columns : c > col /\ col \in Nat => c - 1 \in Columns
    BY DEF Columns
  <2>2. col \in Nat
    BY <1>4, <1>5
  <2> QED
    BY <1>4, <2>1, <2>2 DEF Lines, OneLine
<1> HIDE DEF line, to, wrap
<1>9. Sound(w) /\ SameScreen(v, w)
  BY <1>3, <1>4, <1>8, LineSet
<1>10. Printed(t) = [w EXCEPT !.col = to, !.wrap = wrap]
  BY <1>2, <1>4 DEF State
<1> HIDE DEF w
<1>11. w.cols = v.cols
  BY <1>9 DEF SameScreen
<1>12. Sound(Printed(t)) /\ SameWindow(w, Printed(t))
  <2>1. to \in 0..w.cols - 1
    BY <1>6, <1>11
  <2>2. Sound([w EXCEPT !.col = to, !.wrap = wrap])
        /\ SameWindow(w, [w EXCEPT !.col = to, !.wrap = wrap])
    BY <1>7, <1>9, <2>1, ColumnSet, Zenon
  <2> QED
    BY <1>10, <2>2
<1> QED
  BY <1>3, <1>9, <1>12 DEF SameWindow, SameScreen

\* The cursor's line from the cursor on, or up to it.
LEMMA CursorWipedSound ==
    ASSUME NEW t, Sound(t), NEW mode
    PROVE  Sound(CursorWiped(t, mode)) /\ SameScreen(t, CursorWiped(t, mode))
<1>1. t.row \in Rows
  BY CursorRow
<1>2. SameScreen(t, t)
  BY DEF SameScreen
<1> QED
  BY <1>1, <1>2, WipedSound DEF CursorWiped

\* That, or all of the line.
LEMMA LineErasedSound ==
    ASSUME NEW t, Sound(t), NEW mode
    PROVE  Sound(LineErased(t, mode)) /\ SameWindow(t, LineErased(t, mode))
BY CursorWipedSound, ClearedSound DEF LineErased, SameScreen, SameWindow

\* The last row of a part of the screen.
LEMMA LastOfInterval ==
    ASSUME NEW a \in Nat, NEW b \in Int, a <= b
    PROVE  Max(a..b) = b
<1>1. b \in a..b /\ \A y \in a..b : b >= y
  OBVIOUS
<1>2. \A x \in a..b : (\A y \in a..b : x >= y) => x = b
  BY <1>1
<1> QED
  BY <1>1, <1>2 DEF Max

\* The rows to erase are rows of the screen, made before they are blanked.
LEMMA DisplayErasedSound ==
    ASSUME NEW t, Sound(t), NEW mode
    PROVE  Sound(DisplayErased(t, mode)) /\ SameWindow(t, DisplayErased(t, mode))
<1> DEFINE rows == ErasedRows(t, mode)
           wiped == CursorWiped(t, mode)
           row == t.top + Max(rows)
           u == IF rows = {} THEN wiped ELSE Ensured(wiped, row)
<1>1. DisplayErased(t, mode) = Cleared(u, {u.top + r : r \in rows})
  BY DEF DisplayErased
<1>2. Sound(wiped) /\ SameScreen(t, wiped)
  BY CursorWipedSound
<1>3. ScreenRow(t) \in 0..t.rows - 1 /\ t.rows \in Nat /\ t.top \in Nat
  BY ScreenRowFacts, BufferTypes DEF Sound, Placed
<1>4. rows # {} => Max(rows) \in 0..t.rows - 1
  <2> SUFFICES ASSUME rows # {} PROVE Max(rows) \in 0..t.rows - 1
    OBVIOUS
  <2>1. PICK a \in Nat, b \in 0..t.rows - 1 : rows = a..b
    <3>1. \/ rows = ScreenRow(t) + 1..t.rows - 1
          \/ rows = 0..ScreenRow(t) - 1
          \/ rows = 0..t.rows - 1
      BY DEF ErasedRows
    <3>2. CASE rows = ScreenRow(t) + 1..t.rows - 1
      BY <1>3, <3>2
    <3>3. CASE rows = 0..ScreenRow(t) - 1
      BY <1>3, <3>3
    <3>4. CASE rows = 0..t.rows - 1
      BY <1>3, <3>4
    <3> QED
      BY <3>1, <3>2, <3>3, <3>4
  <2> HIDE DEF rows
  <2>2. a <= b /\ b \in Int
    BY <2>1, <1>3
  <2>3. Max(rows) = b
    BY <2>1, <2>2, LastOfInterval
  <2> QED
    BY <2>1, <2>3
<1> HIDE DEF rows, wiped
<1>5. Sound(u) /\ SameWindow(t, u)
  <2>1. CASE rows = {}
    BY <1>2, <2>1 DEF SameScreen, SameWindow
  <2>2. CASE rows # {}
    <3>1. row \in Nat /\ row <= wiped.top + wiped.rows - 1
      BY <1>2, <1>3, <1>4, <2>2 DEF SameScreen
    <3> HIDE DEF row
    <3> QED
      BY <1>2, <2>2, <3>1, EnsuredSound DEF SameScreen, SameWindow
  <2> QED
    BY <2>1, <2>2
<1> HIDE DEF u
<1> QED
  BY <1>1, <1>5, ClearedSound DEF SameScreen, SameWindow

\* Characters move within their line.
LEMMA CharsMovedSound ==
    ASSUME NEW t, Sound(t), NEW k \in Int, NEW insert \in BOOLEAN
    PROVE  Sound(CharsMoved(t, k, insert)) /\ SameWindow(t, CharsMoved(t, k, insert))
<1> DEFINE n == Clamp(k, 1, t.cols - t.col)
           part == t.col..t.cols - 1
           from(c) == IF insert THEN c - n ELSE c + n
           line == [c \in Columns |->
                       CASE c \notin part -> t.lines[t.row][c]
                         [] c \in part /\ from(c) \in part -> t.lines[t.row][from(c)]
                         [] OTHER -> Blank]
<1>1. CharsMoved(t, k, insert) = [t EXCEPT !.lines[t.row] = line]
  BY DEF CharsMoved
<1>2. /\ t.lines \in Lines /\ t.row \in Rows
      /\ part \subseteq Columns
  BY BufferTypes, CursorRow DEF Sound, Placed, Columns
<1> HIDE DEF n, from, part
<1>3. line \in OneLine
  BY <1>2 DEF Lines, OneLine
<1> HIDE DEF line
<1> QED
  BY <1>1, <1>2, <1>3, LineSet DEF SameScreen, SameWindow

-----------------------------------------------------------------------------
(* The history: the rows above the screen                                   *)

\* Nothing above the screen has changed.
HistoryStays(t, u) ==
    /\ u.top = t.top /\ t.total <= u.total
    /\ \A r \in 0..t.top - 1 : u.lines[r] = t.lines[r]

\* Its oldest rows may be gone, because the buffer is full.
HistoryDrops(t, u) ==
    \E lost \in 0..MaxLines :
        /\ lost > 0 => u.total = MaxLines
        /\ u.top + lost = t.top
        /\ \A r \in 0..u.top - 1 : u.lines[r] = t.lines[r + lost]

\* What HistoryKept says of a buffer before and after: it may also have taken
\* the first line of the screen.
HistoryMoves(t, u) ==
    \E lost \in 0..MaxLines :
        /\ lost > 0 => u.total = MaxLines
        /\ u.top + lost \in {t.top, t.top + 1}
        /\ \A r \in 0..u.top - 1 : u.lines[r] = t.lines[r + lost]

\* What stays does not count.
LEMMA HistoryTransitive ==
    ASSUME NEW t, Buffer(t), NEW u, Buffer(u), NEW v, Buffer(v)
    PROVE  /\ HistoryStays(t, u) /\ HistoryStays(u, v) => HistoryStays(t, v)
           /\ HistoryStays(t, u) /\ HistoryDrops(u, v) => HistoryDrops(t, v)
           /\ HistoryDrops(t, u) /\ HistoryStays(u, v) => HistoryDrops(t, v)
           /\ HistoryMoves(t, u) /\ HistoryStays(u, v) => HistoryMoves(t, v)
<1>1. /\ t.top \in Nat /\ u.top \in Nat /\ v.top \in Nat
      /\ t.total \in Nat /\ u.total \in Nat /\ v.total \in Nat /\ MaxLines \in Nat
      /\ t.total <= MaxLines /\ u.total <= MaxLines /\ v.total <= MaxLines
  BY BufferTypes DEF Buffer
<1>2. HistoryStays(t, u) /\ HistoryStays(u, v) => HistoryStays(t, v)
  BY <1>1 DEF HistoryStays
<1>3. ASSUME HistoryStays(t, u), HistoryDrops(u, v) PROVE HistoryDrops(t, v)
  <2>1. PICK lost \in 0..MaxLines :
           /\ lost > 0 => v.total = MaxLines
           /\ v.top + lost = u.top
           /\ \A r \in 0..v.top - 1 : v.lines[r] = u.lines[r + lost]
    BY <1>3 DEF HistoryDrops
  <2>2. \A r \in 0..v.top - 1 : r + lost \in 0..u.top - 1
    BY <1>1, <2>1
  <2> QED
    BY <1>1, <1>3, <2>1, <2>2 DEF HistoryStays, HistoryDrops
<1>4. ASSUME HistoryStays(u, v),
             NEW lost \in 0..MaxLines, lost > 0 => u.total = MaxLines,
             \A r \in 0..u.top - 1 : u.lines[r] = t.lines[r + lost]
      PROVE  /\ lost > 0 => v.total = MaxLines
             /\ \A r \in 0..v.top - 1 : v.lines[r] = t.lines[r + lost]
  BY <1>1, <1>4 DEF HistoryStays
<1>5. HistoryDrops(t, u) /\ HistoryStays(u, v) => HistoryDrops(t, v)
  BY <1>4 DEF HistoryStays, HistoryDrops
<1>6. HistoryMoves(t, u) /\ HistoryStays(u, v) => HistoryMoves(t, v)
  BY <1>4 DEF HistoryStays, HistoryMoves
<1> QED
  BY <1>2, <1>3, <1>5, <1>6

LEMMA HistoryWeakens ==
    ASSUME NEW t, Buffer(t), NEW u
    PROVE  /\ HistoryStays(t, u) => HistoryDrops(t, u)
           /\ HistoryDrops(t, u) => HistoryMoves(t, u)
           /\ u.lines = t.lines /\ u.top = t.top /\ u.total = t.total => HistoryStays(t, u)
<1>1. t.top \in Nat /\ t.total \in Nat /\ MaxLines \in Nat
  BY BufferTypes
<1>2. ASSUME HistoryStays(t, u) PROVE HistoryDrops(t, u)
  <2>1. 0 \in 0..MaxLines /\ u.top + 0 = t.top /\ \A r \in 0..u.top - 1 : r + 0 = r
    BY <1>1, <1>2 DEF HistoryStays
  <2> QED
    BY <1>2, <2>1 DEF HistoryStays, HistoryDrops
<1>3. HistoryDrops(t, u) => HistoryMoves(t, u)
  BY DEF HistoryDrops, HistoryMoves
<1>4. u.lines = t.lines /\ u.top = t.top /\ u.total = t.total => HistoryStays(t, u)
  BY <1>1 DEF HistoryStays
<1> QED
  BY <1>2, <1>3, <1>4

\* The rows of a buffer in which one has been made.
LEMMA EnsuredLines ==
    ASSUME NEW t \in State, NEW row \in Nat, NEW r \in Rows, r < Less(t.total, Excess(row))
    PROVE  Ensured(t, row).lines[r] =
              IF r + Excess(row) \in Rows THEN t.lines[r + Excess(row)] ELSE BlankLine
<1> DEFINE n == Excess(row)
           m == Made(row)
           d == Dropped(t, n)
           c == Cleared(d, d.total..m)
<1>1. n \in Nat /\ m \in Nat
  BY ExcessFacts
<1>2. Ensured(t, row).lines = c.lines
  <2>1. c \in State
    BY <1>1, DroppedFacts, ClearedFacts
  <2>2. Ensured(t, row) = [c EXCEPT !.total = Larger(c.total, m + 1)]
    BY DEF Ensured
  <2> HIDE DEF c
  <2> QED
    BY <2>1, <2>2 DEF State
<1> HIDE DEF n, m
<1>3. d \in State /\ d.total = Less(t.total, n)
  BY <1>1, DroppedFacts
<1>4. d.lines = [q \in Rows |-> IF q + n \in Rows THEN t.lines[q + n] ELSE BlankLine]
  BY DEF Dropped, State
<1> HIDE DEF d
<1>5. c.lines = [q \in Rows |-> IF q \in d.total..m THEN BlankLine ELSE d.lines[q]]
  BY <1>3 DEF Cleared, State
<1> HIDE DEF c
<1>6. d.total \in Nat /\ r < d.total /\ r \in Nat
  BY <1>3 DEF State, Rows, n
<1>7. r \notin d.total..m
  BY <1>1, <1>6
<1>8. c.lines[r] = d.lines[r]
  BY <1>5, <1>7
<1>9. d.lines[r] = IF r + n \in Rows THEN t.lines[r + n] ELSE BlankLine
  BY <1>4
<1> QED
  BY <1>2, <1>8, <1>9 DEF n

\* A row that is made takes only the oldest ones, and none if it was there.
LEMMA EnsuredHistory ==
    ASSUME NEW t, Buffer(t), NEW row \in Nat, row <= t.top + MaxLines - 1
    PROVE  /\ HistoryDrops(t, Ensured(t, row))
           /\ row \in Rows => HistoryStays(t, Ensured(t, row))
<1> DEFINE n == Excess(row)
           u == Ensured(t, row)
<1>1. /\ t \in State /\ t.top \in Nat /\ t.row \in Nat /\ t.total \in Nat /\ MaxLines \in Nat
      /\ t.top < t.total /\ t.total <= MaxLines
  BY BufferTypes DEF Buffer
<1>2. /\ Buffer(u) /\ n \in Nat /\ n <= t.top /\ Made(row) = row - n
      /\ u.top = t.top - n /\ Made(row) < u.total
      /\ n = Less(row, MaxLines - 1)
  BY EnsuredFacts DEF Excess
<1>3. u.total \in Nat /\ u.total <= MaxLines /\ u.top \in Nat
  BY <1>2, BufferTypes DEF Buffer
<1>4. \A r \in 0..u.top - 1 : u.lines[r] = t.lines[r + n]
  <2> SUFFICES ASSUME NEW r \in 0..u.top - 1 PROVE u.lines[r] = t.lines[r + n]
    OBVIOUS
  <2>1. Less(t.total, n) = t.total - n
    BY <1>1, <1>2 DEF Less
  <2>2. r \in Rows /\ r + n \in Rows /\ r < t.total - n
    BY <1>1, <1>2, <1>3 DEF Rows
  <2>3. r < Less(t.total, Excess(row))
    BY <2>1, <2>2
  <2> QED
    BY <1>1, <2>2, <2>3, EnsuredLines
<1>5. n > 0 => u.total = MaxLines
  BY <1>1, <1>2, <1>3 DEF Less
<1>6. u.top + n = t.top /\ n \in 0..MaxLines
  BY <1>1, <1>2, <1>3
<1> HIDE DEF u
<1>7. HistoryDrops(t, u)
  <2> HIDE DEF n
  <2> QED
    BY <1>4, <1>5, <1>6 DEF HistoryDrops
<1>8. ASSUME row \in Rows PROVE HistoryStays(t, u)
  <2>1. n = 0
    BY <1>1, <1>2, <1>8 DEF Less, Rows
  <2>2. u.total = Larger(Less(t.total, n), Made(row) + 1)
    BY <1>1, EnsuredFields DEF u
  <2>3. t.total <= u.total
    BY <1>1, <1>2, <2>1, <2>2 DEF Less, Larger
  <2>4. \A r \in 0..t.top - 1 : r + n = r /\ r \in 0..u.top - 1
    BY <1>1, <1>2, <2>1
  <2> QED
    BY <1>1, <1>2, <1>4, <2>1, <2>3, <2>4 DEF HistoryStays
<1> QED
  BY <1>7, <1>8 DEF u

\* The history is in the lines, the screen's top and the number of rows.
LEMMA HistoryAlike ==
    ASSUME NEW t, NEW u, NEW v, v.lines = u.lines, v.top = u.top, v.total = u.total
    PROVE  /\ HistoryStays(t, u) => HistoryStays(t, v)
           /\ HistoryDrops(t, u) => HistoryDrops(t, v)
           /\ HistoryMoves(t, u) => HistoryMoves(t, v)
           /\ HistoryMoves(u, t) => HistoryMoves(v, t)
           /\ HistoryDrops(u, t) => HistoryDrops(v, t)
BY DEF HistoryStays, HistoryDrops, HistoryMoves

\* Other lines on the screen.
LEMMA LinesHistory ==
    ASSUME NEW t, Buffer(t), NEW l, \A r \in 0..t.top - 1 : l[r] = t.lines[r]
    PROVE  HistoryStays(t, [t EXCEPT !.lines = l])
<1> DEFINE u == [t EXCEPT !.lines = l]
<1>1. t \in State /\ t.top \in Nat /\ t.total \in Nat
  BY BufferTypes
<1>2. u.lines = l /\ u.top = t.top /\ u.total = t.total
  BY <1>1 DEF State
<1> HIDE DEF u
<1>3. HistoryStays(t, u)
  BY <1>1, <1>2 DEF HistoryStays
<1> QED
  BY <1>3 DEF u

\* Another line in the cursor's row.
LEMMA LineHistory ==
    ASSUME NEW t, Sound(t), NEW l
    PROVE  HistoryStays(t, [t EXCEPT !.lines[t.row] = l])
<1> DEFINE ls == [t.lines EXCEPT ![t.row] = l]
<1>1. /\ Buffer(t) /\ t.lines \in Lines /\ t.top \in Nat /\ t.row \in Nat /\ t.top <= t.row
      /\ t.row < MaxLines /\ MaxLines \in Nat
  BY BufferTypes DEF Sound, Placed, Buffer
<1>2. \A r \in 0..t.top - 1 : r \in Rows /\ r # t.row
  BY <1>1 DEF Rows
<1>3. \A r \in 0..t.top - 1 : ls[r] = t.lines[r]
  BY <1>1, <1>2 DEF Lines
<1>4. [t EXCEPT !.lines[t.row] = l] = [t EXCEPT !.lines = ls]
  OBVIOUS
<1> HIDE DEF ls
<1> QED
  BY <1>1, <1>3, <1>4, LinesHistory

\* Rows of the screen blanked.
LEMMA ClearedHistory ==
    ASSUME NEW t, Buffer(t), NEW set, \A r \in 0..t.top - 1 : r \notin set
    PROVE  HistoryStays(t, Cleared(t, set))
<1> DEFINE l == [r \in Rows |-> IF r \in set THEN BlankLine ELSE t.lines[r]]
<1>1. t.top \in Nat /\ t.top < MaxLines /\ MaxLines \in Nat
  BY BufferTypes DEF Buffer
<1>2. \A r \in 0..t.top - 1 : r \in Rows
  BY <1>1 DEF Rows
<1>3. \A r \in 0..t.top - 1 : l[r] = t.lines[r]
  BY <1>2
<1>4. Cleared(t, set) = [t EXCEPT !.lines = l]
  BY DEF Cleared
<1> HIDE DEF l
<1> QED
  BY <1>3, <1>4, LinesHistory

\* The cursor's line, from the cursor on, up to it, or cells of it.
LEMMA CursorWipedHistory ==
    ASSUME NEW t, Sound(t), NEW mode, NEW set
    PROVE  HistoryStays(t, CursorWiped(t, mode)) /\ HistoryStays(t, Wiped(t, t.row, set))
<1>1. ASSUME NEW cells PROVE HistoryStays(t, Wiped(t, t.row, cells))
  <2> DEFINE l == [c \in Columns |-> IF c \in cells THEN Blank ELSE t.lines[t.row][c]]
  <2>1. Wiped(t, t.row, cells) = [t EXCEPT !.lines[t.row] = l]
    BY DEF Wiped
  <2> HIDE DEF l
  <2> QED
    BY <2>1, LineHistory
<1>2. HistoryStays(t, t)
  BY HistoryWeakens DEF Sound, Placed
<1> QED
  BY <1>1, <1>2 DEF CursorWiped

LEMMA LineErasedHistory ==
    ASSUME NEW t, Sound(t), NEW mode
    PROVE  HistoryStays(t, LineErased(t, mode))
<1>1. Buffer(t) /\ \A r \in 0..t.top - 1 : r \notin {t.row}
  BY BufferTypes DEF Sound, Placed, Buffer
<1>2. HistoryStays(t, Cleared(t, {t.row}))
  BY <1>1, ClearedHistory
<1> QED
  BY <1>2, CursorWipedHistory DEF LineErased

LEMMA CharsMovedHistory ==
    ASSUME NEW t, Sound(t), NEW k, NEW insert
    PROVE  HistoryStays(t, CharsMoved(t, k, insert))
BY LineHistory DEF CharsMoved

\* A part of the screen scrolled: the rows made for it may take old ones.
LEMMA ScrolledHistory ==
    ASSUME NEW t, Sound(t), NEW a \in Int, NEW b \in Int, NEW k \in Int,
           NEW downward \in BOOLEAN
    PROVE  HistoryDrops(t, Scrolled(t, a, b, k, downward))
<1> DEFINE top    == Clamp(a, 0, t.rows - 1)
           bottom == Clamp(b, top, t.rows - 1)
           n      == Clamp(k, 1, bottom - top + 1)
           row    == t.top + bottom
           u      == Ensured(t, row)
           region == u.top + top..u.top + bottom
           from(r) == IF downward THEN r - n ELSE r + n
           l == [r \in Rows |-> CASE r \notin region -> u.lines[r]
                                  [] r \in region /\ from(r) \in region -> u.lines[from(r)]
                                  [] OTHER -> BlankLine]
<1>1. Buffer(t) /\ t.top \in Nat /\ t.rows \in Nat /\ t.rows >= 1 /\ t.rows <= MaxLines
      /\ MaxLines \in Nat
  BY BufferTypes DEF Sound, Placed
<1>2. top \in 0..t.rows - 1
  BY <1>1 DEF Clamp
<1>3. bottom \in top..t.rows - 1
  <2> HIDE DEF top
  <2> QED
    BY <1>1, <1>2 DEF Clamp
<1>4. Scrolled(t, a, b, k, downward) = [u EXCEPT !.lines = l]
  BY DEF Scrolled
<1> HIDE DEF top, bottom, n
<1>5. row \in Nat /\ row <= t.top + t.rows - 1 /\ row <= t.top + MaxLines - 1
  BY <1>1, <1>2, <1>3
<1> HIDE DEF row
<1>6. Buffer(u) /\ HistoryDrops(t, u)
  BY <1>1, <1>5, EnsuredFacts, EnsuredHistory
<1> HIDE DEF u
<1>7. u.top \in Nat /\ u.top < MaxLines
  BY <1>1, <1>6, BufferTypes DEF Buffer
<1>8. \A r \in 0..u.top - 1 : r \in Rows /\ r \notin region
  BY <1>1, <1>2, <1>3, <1>7 DEF Rows
<1> HIDE DEF region, from
<1>9. \A r \in 0..u.top - 1 : l[r] = u.lines[r]
  BY <1>8
<1>10. Scrolled(t, a, b, k, downward) \in State /\ Buffer(Scrolled(t, a, b, k, downward))
  BY ScrolledSound, BufferTypes DEF Sound, Placed
<1> HIDE DEF l
<1>11. HistoryStays(u, [u EXCEPT !.lines = l])
  BY <1>6, <1>9, LinesHistory
<1> QED
  BY <1>1, <1>4, <1>6, <1>10, <1>11, HistoryTransitive

\* The first line of the screen becomes the last one of the history.  With as
\* many rows on the screen as in the buffer it would be lost.
LEMMA ScrolledAwayHistory ==
    ASSUME NEW t, Sound(t), t.row = t.top + t.rows - 1, t.rows < MaxLines
    PROVE  HistoryMoves(t, ScrolledAway(t))
<1> DEFINE row == t.row + 1
           n == Excess(row)
           m == Made(row)
           u == Ensured(t, row)
           v == [u EXCEPT !.row = m, !.top = @ + 1]
           w == Cleared(v, {m})
<1>1. /\ Buffer(t) /\ t.row \in Nat /\ t.top \in Nat /\ t.total \in Nat /\ t.rows \in Nat
      /\ MaxLines \in Nat /\ t.row < t.total /\ t.total <= MaxLines /\ t.rows >= 1
      /\ t \in State
  BY BufferTypes DEF Sound, Placed, Buffer
<1>2. row \in Nat /\ row <= t.top + MaxLines - 1 /\ row = t.row + 1
  BY <1>1
<1> HIDE DEF row
<1>3. /\ Buffer(u) /\ u.top = t.top - n /\ n \in Nat /\ n <= t.top
      /\ m = row - n /\ m < u.total /\ m \in Rows /\ n = Less(row, MaxLines - 1)
  BY <1>1, <1>2, EnsuredFacts DEF Excess
<1>4. u \in State /\ u.total \in Nat /\ u.total <= MaxLines /\ u.lines \in Lines
  BY <1>3, BufferTypes DEF Buffer
<1>5. \A r \in Rows : r < Less(t.total, n) =>
          u.lines[r] = IF r + n \in Rows THEN t.lines[r + n] ELSE BlankLine
  BY <1>1, <1>2, EnsuredLines
<1>6. ScrolledAway(t) = w
  BY DEF ScrolledAway, u, m, row
<1> HIDE DEF u, n, m
<1>7. u.top \in Nat /\ u.top + 1 \in Nat /\ m \in Nat
  BY <1>1, <1>3, <1>4 DEF Rows
<1>8. /\ v \in State /\ v.lines = u.lines /\ v.top = u.top + 1 /\ v.total = u.total
  BY <1>4, <1>7 DEF State
<1> HIDE DEF v
<1>9. w.lines = [r \in Rows |-> IF r \in {m} THEN BlankLine ELSE v.lines[r]]
      /\ w.top = v.top /\ w.total = v.total
  BY <1>8 DEF Cleared, State
<1> HIDE DEF w
<1>10. n > 0 => w.total = MaxLines
  <2>1. n > 0 => row - n = MaxLines - 1
    BY <1>1, <1>2, <1>3 DEF Less
  <2>2. n > 0 => u.total = MaxLines
    BY <1>1, <1>2, <1>3, <1>4, <1>7, <2>1
  <2> QED
    BY <1>8, <1>9, <2>2
<1>11. w.top + n = t.top + 1 /\ n \in 0..MaxLines /\ w.top \in Nat
  BY <1>1, <1>2, <1>3, <1>7, <1>8, <1>9
<1>12. \A r \in 0..w.top - 1 : w.lines[r] = t.lines[r + n]
  <2> SUFFICES ASSUME NEW r \in 0..w.top - 1 PROVE w.lines[r] = t.lines[r + n]
    OBVIOUS
  <2>1. Less(t.total, n) = t.total - n
    BY <1>1, <1>3 DEF Less
  <2>2. /\ r \in Nat /\ r + n <= t.top /\ t.top < MaxLines
        /\ t.top <= t.row /\ t.row < t.total
    BY <1>1, <1>3, <1>11 DEF Buffer
  <2>3. r \in Rows /\ r + n \in Rows /\ r < Less(t.total, n)
    BY <1>1, <1>3, <2>1, <2>2 DEF Rows
  <2>4. r # m
    BY <1>1, <1>2, <1>3, <2>2
  <2>5. u.lines[r] = t.lines[r + n]
    BY <1>5, <2>3
  <2>6. w.lines[r] = v.lines[r]
    BY <1>9, <2>3, <2>4
  <2> QED
    BY <1>8, <2>5, <2>6
<1>13. HistoryMoves(t, w)
  <2>1. w.top + n \in {t.top, t.top + 1}
    BY <1>11
  <2> QED
    BY <1>10, <1>11, <1>12, <2>1 DEF HistoryMoves
<1> QED
  BY <1>6, <1>13

\* One line down.
LEMMA IndexedHistory ==
    ASSUME NEW t, Sound(t), t.rows < MaxLines
    PROVE  HistoryMoves(t, Indexed(t))
<1> DEFINE atMargin == ScreenRow(t) = t.marginBottom
           away == FullMargins(t) /\ ~t.alternate
           row == t.row + 1
           e == Ensured(t, row)
           lower == [e EXCEPT !.row = Made(row)]
           scrolled == Scrolled(t, t.marginTop, t.marginBottom, 1, FALSE)
           moved == CASE atMargin /\ away -> ScrolledAway(t)
                      [] atMargin /\ ~away -> scrolled
                      [] ~atMargin /\ ScreenRow(t) < t.rows - 1 -> lower
                      [] OTHER -> t
           u == [moved EXCEPT !.wrap = FALSE]
<1>1. /\ Buffer(t) /\ t.row \in Nat /\ t.top \in Nat /\ t.rows \in Nat
      /\ t.marginTop \in Int /\ t.marginBottom \in Int /\ ScreenRow(t) = t.row - t.top
      /\ t.row <= t.top + t.rows - 1 /\ t \in State /\ MaxLines \in Nat
  BY BufferTypes, ScreenRowFacts DEF Sound, Placed, Buffer
<1>2. ASSUME atMargin, away PROVE HistoryMoves(t, ScrolledAway(t)) /\ Sound(ScrolledAway(t))
  <2>1. t.row = t.top + t.rows - 1
    BY <1>1, <1>2 DEF FullMargins
  <2> QED
    BY <2>1, ScrolledAwayHistory, ScrolledAwaySound
<1>3. HistoryMoves(t, scrolled) /\ Sound(scrolled)
  <2>1. 1 \in Int /\ FALSE \in BOOLEAN
    OBVIOUS
  <2>2. HistoryDrops(t, scrolled) /\ Sound(scrolled)
    BY <1>1, <2>1, ScrolledHistory, ScrolledSound
  <2> QED
    BY <1>1, <2>2, HistoryWeakens
<1>4. HistoryMoves(t, lower) /\ lower \in State
  <2>1. row \in Nat /\ row <= t.top + MaxLines - 1
    BY <1>1
  <2> HIDE DEF row
  <2>2. HistoryDrops(t, e) /\ Buffer(e) /\ Made(row) \in Nat
    BY <1>1, <2>1, EnsuredFacts, EnsuredHistory DEF Rows
  <2> HIDE DEF e
  <2>3. e \in State
    BY <2>2 DEF Buffer
  <2>4. lower \in State /\ lower.lines = e.lines /\ lower.top = e.top /\ lower.total = e.total
    BY <2>2, <2>3 DEF State
  <2> HIDE DEF lower
  <2>5. HistoryMoves(t, e)
    BY <1>1, <2>2, HistoryWeakens
  <2> QED
    BY <2>4, <2>5, HistoryAlike
<1>5. Indexed(t) = u
  BY DEF Indexed
<1> HIDE DEF lower, scrolled
<1>6. HistoryMoves(t, t)
  BY <1>1, HistoryWeakens
<1>7. HistoryMoves(t, moved) /\ moved \in State
  <2>1. scrolled \in State /\ (Sound(ScrolledAway(t)) => ScrolledAway(t) \in State)
    BY <1>3 DEF Sound, Placed, Buffer
  <2> QED
    BY <1>1, <1>2, <1>3, <1>4, <1>6, <2>1
<1> HIDE DEF moved
<1>8. u.lines = moved.lines /\ u.top = moved.top /\ u.total = moved.total
  BY <1>7 DEF State
<1> HIDE DEF u
<1> QED
  BY <1>5, <1>7, <1>8, HistoryAlike

\* One line up.
LEMMA ReverseIndexedHistory ==
    ASSUME NEW t, Sound(t)
    PROVE  HistoryDrops(t, ReverseIndexed(t))
<1> DEFINE scrolled == Scrolled(t, t.marginTop, t.marginBottom, 1, TRUE)
           up == [t EXCEPT !.row = t.row - 1]
           moved == CASE ScreenRow(t) = t.marginTop -> scrolled
                      [] ScreenRow(t) \notin {0, t.marginTop} -> up
                      [] OTHER -> t
           u == [moved EXCEPT !.wrap = FALSE]
<1>1. /\ Buffer(t) /\ t \in State /\ t.marginTop \in Int /\ t.marginBottom \in Int
      /\ 1 \in Int /\ TRUE \in BOOLEAN
  BY BufferTypes DEF Sound, Placed
<1>2. HistoryDrops(t, scrolled) /\ Sound(scrolled)
  BY <1>1, ScrolledHistory, ScrolledSound
<1>3. /\ up.lines = t.lines /\ up.top = t.top /\ up.total = t.total
      /\ up = [f \in DOMAIN t |-> IF f = "row" THEN t.row - 1 ELSE t[f]]
  BY <1>1 DEF State
<1>4. HistoryDrops(t, t)
  BY <1>1, HistoryWeakens
<1>5. HistoryDrops(t, up)
  BY <1>3, <1>4, HistoryAlike
<1>6. ReverseIndexed(t) = u
  BY DEF ReverseIndexed
<1>7. HistoryDrops(t, [scrolled EXCEPT !.wrap = FALSE])
  <2>1. scrolled \in State
    BY <1>2 DEF Sound, Placed, Buffer
  <2> HIDE DEF scrolled
  <2> DEFINE x == [scrolled EXCEPT !.wrap = FALSE]
  <2>2. x.lines = scrolled.lines /\ x.top = scrolled.top /\ x.total = scrolled.total
    BY <2>1 DEF State
  <2> HIDE DEF x
  <2>3. HistoryDrops(t, x)
    BY <1>2, <2>2, HistoryAlike
  <2> QED
    BY <2>3 DEF x
<1>8. HistoryDrops(t, [up EXCEPT !.wrap = FALSE])
  <2> DEFINE x == [up EXCEPT !.wrap = FALSE]
  <2>1. x.lines = t.lines /\ x.top = t.top /\ x.total = t.total
    BY <1>1 DEF State
  <2> HIDE DEF x
  <2>2. HistoryDrops(t, x)
    BY <1>4, <2>1, HistoryAlike
  <2> QED
    BY <2>2 DEF x
<1>9. HistoryDrops(t, [t EXCEPT !.wrap = FALSE])
  <2> DEFINE x == [t EXCEPT !.wrap = FALSE]
  <2>1. x.lines = t.lines /\ x.top = t.top /\ x.total = t.total
    BY <1>1 DEF State
  <2> HIDE DEF x
  <2>2. HistoryDrops(t, x)
    BY <1>4, <2>1, HistoryAlike
  <2> QED
    BY <2>2 DEF x
<1> HIDE DEF scrolled, up
<1> QED
  BY <1>6, <1>7, <1>8, <1>9

\* A cursor addressed on a screen that may have changed its size.
LEMMA CursorAtHistory ==
    ASSUME NEW t, Buffer(t), NEW row \in Int, NEW col \in Int
    PROVE  HistoryDrops(t, CursorAt(t, row, col))
<1> DEFINE low  == IF t.origin THEN t.marginTop ELSE 0
           high == IF t.origin THEN t.marginBottom ELSE t.rows - 1
           at == Clamp(row, low, high)
           to == t.top + at
           c == Clamp(col, 0, t.cols - 1)
           e == Ensured(t, to)
           u == [e EXCEPT !.row = Made(to), !.wrap = FALSE, !.col = c]
<1>1. /\ t.top \in Nat /\ t.rows \in Nat /\ t.rows >= 1
      /\ t.marginTop \in Nat /\ t.marginBottom \in Nat /\ t.rows <= MaxLines
      /\ MaxLines \in Nat
  BY BufferTypes
<1>2. low \in Nat /\ high \in Nat /\ low <= high /\ high <= t.rows - 1
  BY <1>1 DEF Buffer
<1> HIDE DEF low, high
<1>3. at \in low..high
  BY <1>2 DEF Clamp
<1> HIDE DEF at
<1>4. to \in Nat /\ to <= t.top + MaxLines - 1
  BY <1>1, <1>2, <1>3
<1>5. CursorAt(t, row, col) = u
  BY DEF CursorAt, at, low, high
<1> HIDE DEF to
<1>6. e \in State /\ HistoryDrops(t, e)
  BY <1>4, EnsuredFacts, EnsuredHistory, BufferTypes
<1> HIDE DEF e, c
<1>7. u.lines = e.lines /\ u.top = e.top /\ u.total = e.total
  BY <1>6 DEF State
<1> HIDE DEF u
<1> QED
  BY <1>5, <1>6, <1>7, HistoryAlike

\* A character: only the line break before it moves anything.
LEMMA PrintedHistory ==
    ASSUME NEW t, Sound(t), t.rows < MaxLines
    PROVE  HistoryMoves(t, Printed(t))
<1> DEFINE b == [t EXCEPT !.col = 0]
           u == IF t.wrap THEN Indexed(b) ELSE t
           v == Ensured(u, u.row)
           col == Clamp(v.col, 0, v.cols - 1)
           last == col = v.cols - 1
           line == [c \in Columns |->
                       CASE c = col -> Letter
                         [] v.insert /\ c > col /\ c < v.cols -> v.lines[v.row][c - 1]
                         [] OTHER -> v.lines[v.row][c]]
           ls == [v.lines EXCEPT ![v.row] = line]
           w == [v EXCEPT !.lines[v.row] = line]
           wrap == IF last THEN v.autoWrap ELSE v.wrap
           to == IF last THEN v.col ELSE col + 1
           x == [v EXCEPT !.lines[v.row] = line, !.wrap = wrap, !.col = to]
<1>1. Sound(u) /\ HistoryMoves(t, u)
  <2>1. 0 \in 0..t.cols - 1 /\ t \in State /\ Buffer(t)
    BY BufferTypes DEF Sound, Placed
  <2>2. Sound(b) /\ SameWindow(t, b)
    BY <2>1, ColumnSet
  <2>3. b.lines = t.lines /\ b.top = t.top /\ b.total = t.total
    BY <2>1 DEF State
  <2> HIDE DEF b
  <2>4. Sound(Indexed(b)) /\ HistoryMoves(b, Indexed(b))
    BY <2>2, IndexedSound, IndexedHistory DEF SameWindow
  <2>5. HistoryMoves(t, Indexed(b))
    BY <2>3, <2>4, HistoryAlike
  <2>6. HistoryMoves(t, t)
    BY <2>1, HistoryWeakens
  <2> QED
    BY <2>4, <2>5, <2>6
<1>2. Printed(t) = x
  BY DEF Printed
<1> HIDE DEF u
<1>3. Buffer(t) /\ Buffer(u) /\ Buffer(Printed(t))
  BY <1>1, PrintedSound DEF Sound, Placed
<1>4. Sound(v) /\ HistoryStays(u, v)
  <2>1. /\ u.row \in Nat /\ u.row <= u.top + u.rows - 1
        /\ u.row <= u.top + MaxLines - 1 /\ u.row \in Rows
    BY <1>1, <1>3, BufferTypes, CursorRow DEF Sound, Placed
  <2> QED
    BY <1>1, <1>3, <2>1, EnsuredSound, EnsuredHistory
<1> HIDE DEF v
<1>5. v \in State /\ Buffer(v)
  BY <1>4, BufferTypes DEF Sound, Placed
<1>6. HistoryStays(v, w)
  BY <1>4, LineHistory
<1>7. x.lines = w.lines /\ x.top = w.top /\ x.total = w.total
  BY <1>5 DEF State
<1> HIDE DEF x, w
<1>8. HistoryStays(v, x)
  BY <1>6, <1>7, HistoryAlike
<1>9. HistoryMoves(t, v)
  BY <1>1, <1>3, <1>4, <1>5, HistoryTransitive
<1> QED
  BY <1>2, <1>3, <1>5, <1>8, <1>9, HistoryTransitive

\* Erased rows are rows of the screen.
LEMMA DisplayErasedHistory ==
    ASSUME NEW t, Sound(t), NEW mode
    PROVE  HistoryDrops(t, DisplayErased(t, mode))
<1> DEFINE rows == ErasedRows(t, mode)
           wiped == CursorWiped(t, mode)
           row == t.top + Max(rows)
           u == IF rows = {} THEN wiped ELSE Ensured(wiped, row)
           set == {u.top + r : r \in rows}
<1>1. DisplayErased(t, mode) = Cleared(u, set)
  BY DEF DisplayErased
<1>2. Sound(wiped) /\ SameScreen(t, wiped) /\ HistoryStays(t, wiped)
  BY CursorWipedSound, CursorWipedHistory
<1>3. ScreenRow(t) \in 0..t.rows - 1 /\ t.rows \in Nat /\ t.top \in Nat /\ Buffer(t)
  BY ScreenRowFacts, BufferTypes DEF Sound, Placed
<1>4. rows \subseteq Nat /\ (rows # {} => Max(rows) \in 0..t.rows - 1)
  <2>1. PICK a \in Nat, b \in Int : rows = a..b /\ b <= t.rows - 1
    <3>1. \/ rows = ScreenRow(t) + 1..t.rows - 1
          \/ rows = 0..ScreenRow(t) - 1
          \/ rows = 0..t.rows - 1
      BY DEF ErasedRows
    <3>2. CASE rows = ScreenRow(t) + 1..t.rows - 1
      BY <1>3, <3>2
    <3>3. CASE rows = 0..ScreenRow(t) - 1
      BY <1>3, <3>3
    <3>4. CASE rows = 0..t.rows - 1
      BY <1>3, <3>4
    <3> QED
      BY <3>1, <3>2, <3>3, <3>4
  <2> HIDE DEF rows
  <2>2. rows \subseteq Nat
    BY <2>1
  <2>3. ASSUME rows # {} PROVE Max(rows) \in 0..t.rows - 1
    <3>1. a <= b
      BY <2>1, <2>3
    <3>2. Max(rows) = b
      BY <2>1, <3>1, LastOfInterval
    <3> QED
      BY <1>3, <2>1, <3>1, <3>2
  <2> QED
    BY <2>2, <2>3
<1> HIDE DEF rows, wiped
<1>5. Buffer(u) /\ HistoryDrops(t, u)
  <2>1. Buffer(wiped)
    BY <1>2 DEF Sound, Placed
  <2>2. CASE rows = {}
    BY <1>2, <1>3, <2>1, <2>2, HistoryWeakens
  <2>3. CASE rows # {}
    <3>1. row \in Nat /\ row <= wiped.top + MaxLines - 1
      BY <1>2, <1>3, <1>4, <2>3, BufferTypes DEF SameScreen
    <3> HIDE DEF row
    <3>2. Buffer(Ensured(wiped, row)) /\ HistoryDrops(wiped, Ensured(wiped, row))
      BY <2>1, <3>1, EnsuredFacts, EnsuredHistory
    <3> QED
      BY <1>2, <1>3, <2>1, <2>3, <3>2, HistoryTransitive
  <2> QED
    BY <2>2, <2>3
<1> HIDE DEF u
<1>6. \A r \in 0..u.top - 1 : r \notin set
  BY <1>4, <1>5, BufferTypes
<1> HIDE DEF set
<1>7. HistoryStays(u, Cleared(u, set))
  BY <1>5, <1>6, ClearedHistory
<1>8. Buffer(Cleared(u, set))
  BY <1>1, DisplayErasedSound DEF Sound, Placed
<1> QED
  BY <1>1, <1>3, <1>5, <1>7, <1>8, HistoryTransitive

\* A window of another size.
LEMMA ResizedHistory ==
    ASSUME NEW t, Sound(t), NEW rows \in 1..MaxLines, NEW cols \in 1..MaxCols
    PROVE  HistoryDrops(t, Resized(t, rows, cols))
<1> DEFINE top    == IF FullMargins(t) THEN 0 ELSE Clamp(t.marginTop, 0, rows - 1)
           bottom == IF FullMargins(t) THEN rows - 1
                                       ELSE Clamp(t.marginBottom, top, rows - 1)
           v == [t EXCEPT !.rows = rows, !.cols = cols,
                          !.marginTop = top, !.marginBottom = bottom]
<1>1. /\ t \in State /\ t.marginTop \in Nat /\ t.marginBottom \in Nat
      /\ rows \in Nat /\ cols \in Nat /\ rows >= 1 /\ MaxLines \in Nat /\ MaxCols \in Nat
  BY BufferTypes DEF Sound, Placed
<1>2. top \in 0..rows - 1
  BY <1>1 DEF Clamp
<1> HIDE DEF top
<1>3. bottom \in top..rows - 1
  BY <1>1, <1>2 DEF Clamp
<1>4. Resized(t, rows, cols) = CursorAt(v, ScreenRow(v), v.col)
  BY DEF Resized, top
<1> HIDE DEF bottom
<1>5. top \in Nat /\ bottom \in Nat
  BY <1>1, <1>2, <1>3
<1>6. /\ v \in State /\ v.row = t.row /\ v.col = t.col /\ v.top = t.top
      /\ v.total = t.total /\ v.rows = rows /\ v.cols = cols /\ v.lines = t.lines
      /\ v.marginTop = top /\ v.marginBottom = bottom
  BY <1>1, <1>5 DEF State
<1> HIDE DEF v
<1>7. Buffer(v)
  BY <1>1, <1>2, <1>3, <1>6 DEF Sound, Placed, Buffer
<1>8. ScreenRow(v) \in Int /\ v.col \in Int
  <2>1. ScreenRow(v) \in 0..v.rows - 1
    BY <1>7, ScreenRowFacts
  <2> QED
    BY <1>7, <2>1, BufferTypes
<1>9. HistoryDrops(v, CursorAt(v, ScreenRow(v), v.col))
  BY <1>7, <1>8, CursorAtHistory
<1> QED
  BY <1>4, <1>6, <1>9 DEF HistoryDrops

-----------------------------------------------------------------------------
(* The actions                                                              *)

\* A state with the same cursor, screen and view, and margins inside the screen.
LEMMA SoundCopy ==
    ASSUME NEW t, Sound(t), NEW u \in State,
           u.row = t.row, u.col = t.col, u.top = t.top, u.total = t.total,
           u.rows = t.rows, u.cols = t.cols, u.scrollRow = t.scrollRow,
           u.marginTop <= u.marginBottom, u.marginBottom <= t.rows - 1
    PROVE  Sound(u)
BY DEF Sound, Placed, Buffer, MaxOffset

\* The view set to where it may be.
LEMMA ViewSet ==
    ASSUME NEW t, Placed(t), NEW s \in Nat, s <= MaxOffset(t), NEW f \in BOOLEAN
    PROVE  /\ Sound([t EXCEPT !.scrollRow = s, !.follow = f])
           /\ SameWindow(t, [t EXCEPT !.scrollRow = s, !.follow = f])
<1> DEFINE u == [t EXCEPT !.scrollRow = s, !.follow = f]
<1>1. t \in State
  BY BufferTypes DEF Placed
<1>2. /\ u \in State /\ u.row = t.row /\ u.col = t.col /\ u.top = t.top
      /\ u.total = t.total /\ u.rows = t.rows /\ u.cols = t.cols
      /\ u.marginTop = t.marginTop /\ u.marginBottom = t.marginBottom
      /\ u.scrollRow = s /\ u.alternate = t.alternate
  BY <1>1 DEF State
<1> HIDE DEF u
<1>3. Sound(u) /\ SameWindow(t, u)
  BY <1>2 DEF Sound, Placed, Buffer, MaxOffset, SameWindow
<1> QED
  BY <1>3 DEF u

\* The largest scroll offset is a number of rows.
LEMMA MaxOffsetType ==
    ASSUME NEW t, Buffer(t) PROVE MaxOffset(t) \in Nat
BY BufferTypes DEF MaxOffset, Less

\* Whatever the view was, a change of the screen leaves it inside the buffer.
LEMMA SyncedSound ==
    ASSUME NEW t, Placed(t)
    PROVE  Sound(Synced(t)) /\ SameWindow(t, Synced(t))
<1> DEFINE s == Clamp(t.scrollRow, 0, MaxOffset(t))
<1>1. t \in State /\ MaxOffset(t) \in Nat /\ t.scrollRow \in Nat /\ t.follow \in BOOLEAN
  BY BufferTypes, MaxOffsetType DEF Placed, State
<1>2. s \in Nat /\ s <= MaxOffset(t)
  BY <1>1 DEF Clamp
<1>3. Synced(t) = [t EXCEPT !.scrollRow = s]
  BY DEF Synced
<1> HIDE DEF s
<1>4. Synced(t) = [t EXCEPT !.scrollRow = s, !.follow = t.follow]
  BY <1>1, <1>3 DEF State
<1>5. /\ Sound([t EXCEPT !.scrollRow = s, !.follow = t.follow])
      /\ SameWindow(t, [t EXCEPT !.scrollRow = s, !.follow = t.follow])
  BY <1>1, <1>2, ViewSet, Zenon
<1> QED
  BY <1>4, <1>5

\* A sequence ends by adjusting the view to its new screen.
LEMMA Shown ==
    ASSUME NEW t, Sound(t), fed \in 0..MaxSequences, Show(t)
    PROVE  Sound(term') /\ SameWindow(t, term') /\ fed' \in 0..MaxSequences
<1>1. fed' \in 0..MaxSequences
  BY DEF Show
<1>2. Placed(t) /\ MaxOffset(t) \in Nat /\ SameWindow(t, t) /\ TRUE \in BOOLEAN
  BY MaxOffsetType DEF Sound, Placed, SameWindow
<1>3. /\ Sound([t EXCEPT !.scrollRow = MaxOffset(t), !.follow = TRUE])
      /\ SameWindow(t, [t EXCEPT !.scrollRow = MaxOffset(t), !.follow = TRUE])
  <2>1. MaxOffset(t) <= MaxOffset(t)
    BY <1>2
  <2> QED
    BY <1>2, <2>1, ViewSet, Zenon
<1>4. CASE term' = Followed(t)
  BY <1>1, <1>2, <1>3, <1>4 DEF Followed
<1>5. CASE term' = Synced(t)
  BY <1>1, <1>2, <1>5, SyncedSound
<1> QED
  BY <1>1, <1>4, <1>5 DEF Show

\* A sequence whose effect leaves the window alone.
LEMMA SequenceKeeps ==
    ASSUME TerminalInv, NEW t, Sound(t), SameWindow(term, t), Show(t),
           UNCHANGED primary
    PROVE  TerminalInv'
<1>1. Sound(term') /\ SameWindow(t, term') /\ fed' \in 0..MaxSequences
  BY Shown DEF TerminalInv
<1>2. Sound(primary') /\ primary'.rows \in Heights
  BY DEF TerminalInv
<1> QED
  BY <1>1, <1>2 DEF TerminalInv, SameWindow

\* A window of another size: margins first, then a cursor that may be outside.
LEMMA ResizedPlaced ==
    ASSUME NEW t, Sound(t), NEW rows \in 1..MaxLines, NEW cols \in 1..MaxCols
    PROVE  LET u == Resized(t, rows, cols)
           IN  Placed(u) /\ u.alternate = t.alternate /\ u.rows = rows
<1> DEFINE top    == IF FullMargins(t) THEN 0 ELSE Clamp(t.marginTop, 0, rows - 1)
           bottom == IF FullMargins(t) THEN rows - 1
                                       ELSE Clamp(t.marginBottom, top, rows - 1)
           v == [t EXCEPT !.rows = rows, !.cols = cols,
                          !.marginTop = top, !.marginBottom = bottom]
<1>1. /\ t \in State /\ t.marginTop \in Nat /\ t.marginBottom \in Nat
      /\ rows \in Nat /\ cols \in Nat /\ rows >= 1 /\ MaxLines \in Nat /\ MaxCols \in Nat
  BY BufferTypes DEF Sound, Placed
<1>2. top \in 0..rows - 1
  BY <1>1 DEF Clamp
<1> HIDE DEF top
<1>3. bottom \in top..rows - 1
  BY <1>1, <1>2 DEF Clamp
<1>4. Resized(t, rows, cols) = CursorAt(v, ScreenRow(v), v.col)
  BY DEF Resized, top
<1> HIDE DEF bottom
<1>5. top \in Nat /\ bottom \in Nat
  BY <1>1, <1>2, <1>3
<1>6. /\ v \in State /\ v.row = t.row /\ v.col = t.col /\ v.top = t.top
      /\ v.total = t.total /\ v.rows = rows /\ v.cols = cols
      /\ v.marginTop = top /\ v.marginBottom = bottom /\ v.alternate = t.alternate
  BY <1>1, <1>5 DEF State
<1> HIDE DEF v
<1>7. Buffer(v)
  BY <1>1, <1>2, <1>3, <1>6 DEF Sound, Placed, Buffer
<1>8. ScreenRow(v) \in Int /\ v.col \in Int
  <2>1. ScreenRow(v) \in 0..v.rows - 1
    BY <1>7, ScreenRowFacts
  <2> QED
    BY <1>7, <2>1, BufferTypes
<1> QED
  BY <1>4, <1>6, <1>7, <1>8, CursorAtPlaced

\* A terminal that has just been opened or reset.
LEMMA OpenedSound ==
    ASSUME NEW rows \in 1..MaxLines, NEW cols \in 1..MaxCols
    PROVE  Sound(Opened(rows, cols)) /\ SameWindow(Opened(rows, cols), Opened(rows, cols))
           /\ Opened(rows, cols).rows = rows /\ Opened(rows, cols).cols = cols
           /\ ~Opened(rows, cols).alternate
<1> DEFINE u == Opened(rows, cols)
<1>1. rows \in Nat /\ cols \in Nat /\ rows - 1 \in Nat /\ rows <= MaxLines /\ cols >= 1
  OBVIOUS
<1>2. /\ u \in State /\ u.row = 0 /\ u.col = 0 /\ u.top = 0 /\ u.total = 1
      /\ u.rows = rows /\ u.cols = cols /\ u.marginTop = 0
      /\ u.marginBottom = rows - 1 /\ u.scrollRow = 0 /\ u.alternate = FALSE
  BY <1>1, BlankLineType DEF Opened, State, Lines
<1> HIDE DEF u
<1>3. Sound(u)
  BY <1>1, <1>2 DEF Sound, Placed, Buffer, MaxOffset, Less
<1> QED
  BY <1>2, <1>3 DEF u, SameWindow

\* A terminal is opened sound.
LEMMA InitTerminal == Init => TerminalInv
<1> SUFFICES ASSUME Init PROVE TerminalInv
  OBVIOUS
<1>1. PICK size \in Sizes : term = Opened(size[1], size[2])
  BY DEF Init
<1>2. size[1] \in 1..MaxLines /\ size[2] \in 1..MaxCols
  BY <1>1
<1>3. Sound(term) /\ ~term.alternate /\ term.rows \in Heights
  BY <1>1, <1>2, OpenedSound DEF Heights
<1>4. fed \in 0..MaxSequences
  BY DEF Init
<1> QED
  BY <1>3, <1>4 DEF Init, TerminalInv

\* Every sequence, every resize and the user's scrolling keep it so.
LEMMA NextTerminal ==
    ASSUME ~ResizesAlternate, TerminalInv, [Next]_terminalVars
    PROVE  TerminalInv'
<1> DEFINE Kept(t) == Sound(t) /\ SameWindow(term, t)
<1>1. /\ Sound(term) /\ Placed(term) /\ Buffer(term) /\ term \in State
      /\ SameWindow(term, term) /\ fed \in 0..MaxSequences
  BY BufferTypes DEF TerminalInv, Sound, Placed, SameWindow
<1>2. /\ term.row \in Nat /\ term.col \in 0..term.cols - 1 /\ term.top \in Nat
      /\ term.rows \in 1..MaxLines /\ term.cols \in 1..MaxCols
      /\ term.marginTop \in Nat /\ term.marginBottom \in Nat
      /\ term.savedRow \in Nat /\ term.savedCol \in Nat
      /\ term.row \in Rows /\ ScreenRow(term) \in 0..term.rows - 1
      /\ term.origin \in BOOLEAN /\ TRUE \in BOOLEAN /\ FALSE \in BOOLEAN
      /\ term.follow \in BOOLEAN /\ term.alternate \in BOOLEAN
      /\ term.rows - 1 \in Nat /\ 0 \in Int
  BY <1>1, BufferTypes, CursorRow, ScreenRowFacts DEF Placed, Buffer, State
<1> HIDE DEF Kept
<1>3. ASSUME NEW t, Kept(t), Show(t), UNCHANGED primary PROVE TerminalInv'
  BY <1>3, SequenceKeeps DEF Kept
<1>4. ASSUME NEW c \in 0..term.cols - 1
      PROVE  Kept([term EXCEPT !.col = c, !.wrap = FALSE]) /\ Kept([term EXCEPT !.col = c])
  BY <1>1, <1>2, <1>4, ColumnSet DEF Kept
<1>5. ASSUME NEW row \in Int, NEW col \in Int PROVE Kept(CursorAt(term, row, col))
  BY <1>1, <1>5, CursorAtSound DEF Kept
<1>6. CASE Character
  <2>1. Kept(Printed(term))
    BY <1>1, PrintedSound DEF Kept
  <2> QED
    BY <1>3, <1>6, <2>1 DEF Character
<1>7. CASE LineFeed
  <2>1. Kept(Indexed(term))
    BY <1>1, IndexedSound DEF Kept
  <2> QED
    BY <1>3, <1>7, <2>1 DEF LineFeed
<1>8. CASE NextLine
  <2> DEFINE b == [term EXCEPT !.col = 0]
  <2>1. Kept(b)
    <3>1. 0 \in 0..term.cols - 1
      BY <1>2
    <3> QED
      BY <1>4, <3>1
  <2> HIDE DEF b
  <2>2. Kept(Indexed(b))
    BY <2>1, IndexedSound DEF Kept, SameWindow
  <2> QED
    BY <1>3, <1>8, <2>2 DEF NextLine, b
<1>9. CASE ReverseIndex
  <2>1. Kept(ReverseIndexed(term))
    BY <1>1, ReverseIndexedSound DEF Kept
  <2> QED
    BY <1>3, <1>9, <2>1 DEF ReverseIndex
<1>10. CASE CarriageReturn
  <2>1. 0 \in 0..term.cols - 1
    BY <1>2
  <2> QED
    BY <1>3, <1>4, <1>10, <2>1 DEF CarriageReturn
<1>11. CASE Backspace
  <2>1. Less(term.col, 1) \in 0..term.cols - 1
    BY <1>2 DEF Less
  <2> QED
    BY <1>3, <1>4, <1>11, <2>1 DEF Backspace
<1>12. CASE Tab
  <2>1. PICK c \in term.col + 1..term.cols - 1 \union {term.cols - 1} :
           Show([term EXCEPT !.col = c, !.wrap = FALSE])
    BY <1>12 DEF Tab
  <2>2. c \in 0..term.cols - 1
    BY <1>2
  <2> QED
    BY <1>3, <1>4, <1>12, <2>1, <2>2 DEF Tab
<1>13. CASE MoveCursor
  <2>1. PICK row \in -1..term.rows, col \in {-1, 0, term.cols} :
           Show(CursorAt(term, row, col))
    BY <1>13 DEF MoveCursor
  <2>2. row \in Int /\ col \in Int
    BY <1>2
  <2> QED
    BY <1>3, <1>5, <1>13, <2>1, <2>2 DEF MoveCursor
<1>14. CASE Erase
  <2>1. PICK mode : Show(DisplayErased(term, mode)) \/ Show(LineErased(term, mode))
    BY <1>14 DEF Erase
  <2>2. Kept(DisplayErased(term, mode)) /\ Kept(LineErased(term, mode))
    BY <1>1, DisplayErasedSound, LineErasedSound DEF Kept
  <2> QED
    BY <1>3, <1>14, <2>1, <2>2 DEF Erase
<1>15. CASE MoveChars
  <2>1. PICK insert \in BOOLEAN, count \in 1..2 : Show(CharsMoved(term, count, insert))
    BY <1>15 DEF MoveChars
  <2>2. count \in Int
    OBVIOUS
  <2>3. Kept(CharsMoved(term, count, insert))
    BY <1>1, <2>2, CharsMovedSound DEF Kept
  <2> QED
    BY <1>3, <1>15, <2>1, <2>3 DEF MoveChars
<1>16. CASE EraseChars
  <2>1. PICK set : Show(Wiped(term, term.row, set))
    BY <1>16 DEF EraseChars
  <2>2. Kept(Wiped(term, term.row, set))
    BY <1>1, <1>2, WipedSound DEF Kept, SameScreen, SameWindow
  <2> QED
    BY <1>3, <1>16, <2>1, <2>2 DEF EraseChars
<1>17. ASSUME NEW a \in Int, NEW b \in Int, NEW k \in Int, NEW downward \in BOOLEAN
       PROVE  Kept(Scrolled(term, a, b, k, downward))
  BY <1>1, ScrolledSound DEF Kept
<1>18. CASE MoveLines
  <2>1. PICK insert \in BOOLEAN, count \in 1..2 :
           Show(Scrolled(term, ScreenRow(term), term.marginBottom, count, insert))
    BY <1>18 DEF MoveLines
  <2>2. count \in Int /\ ScreenRow(term) \in Int /\ term.marginBottom \in Int
    BY <1>2
  <2>3. Kept(Scrolled(term, ScreenRow(term), term.marginBottom, count, insert))
    BY <1>17, <2>2
  <2> QED
    BY <1>3, <1>18, <2>1, <2>3 DEF MoveLines
<1>19. CASE ScrollLines
  <2>1. PICK downward \in BOOLEAN, count \in 1..2 :
           Show(Scrolled(term, term.marginTop, term.marginBottom, count, downward))
    BY <1>19 DEF ScrollLines
  <2>2. count \in Int /\ term.marginTop \in Int /\ term.marginBottom \in Int
    BY <1>2
  <2>3. Kept(Scrolled(term, term.marginTop, term.marginBottom, count, downward))
    BY <1>17, <2>2
  <2> QED
    BY <1>3, <1>19, <2>1, <2>3 DEF ScrollLines
<1>20. CASE SetMargins
  <2>1. PICK top \in 0..term.rows - 1, bottom \in 0..term.rows - 1 :
           /\ top < bottom
           /\ Show(CursorAt([term EXCEPT !.marginTop = top, !.marginBottom = bottom],
                            IF term.origin THEN top ELSE 0, 0))
    BY <1>20 DEF SetMargins
  <2> DEFINE u == [term EXCEPT !.marginTop = top, !.marginBottom = bottom]
             row == IF term.origin THEN top ELSE 0
  <2>2. top \in Nat /\ bottom \in Nat /\ row \in Int
    BY <1>2
  <2>3. /\ u \in State /\ u.row = term.row /\ u.col = term.col /\ u.top = term.top
        /\ u.total = term.total /\ u.rows = term.rows /\ u.cols = term.cols
        /\ u.scrollRow = term.scrollRow /\ u.marginTop = top /\ u.marginBottom = bottom
        /\ u.alternate = term.alternate
    BY <1>1, <2>2 DEF State
  <2> HIDE DEF u, row
  <2>4. Sound(u) /\ SameWindow(term, u)
    <3>1. u.marginTop <= u.marginBottom /\ u.marginBottom <= term.rows - 1
      BY <1>2, <2>1, <2>2, <2>3
    <3> QED
      BY <1>1, <2>3, <3>1, SoundCopy DEF SameWindow
  <2>5. Kept(CursorAt(u, row, 0))
    BY <1>2, <2>2, <2>4, CursorAtSound DEF Kept, SameWindow
  <2> QED
    BY <1>3, <1>20, <2>1, <2>5 DEF SetMargins, u, row
<1>21. CASE SetMode
  <2>1. PICK on \in BOOLEAN :
           \/ Show(CursorAt([term EXCEPT !.origin = on],
                            IF on THEN term.marginTop ELSE 0, 0))
           \/ Show([term EXCEPT !.autoWrap = on, !.wrap = FALSE])
           \/ Show([term EXCEPT !.insert = on])
    BY <1>21 DEF SetMode
  <2> DEFINE u == [term EXCEPT !.origin = on]
             v == [term EXCEPT !.autoWrap = on, !.wrap = FALSE]
             x == [term EXCEPT !.insert = on]
             row == IF on THEN term.marginTop ELSE 0
             Alike(y) ==
                /\ y \in State /\ y.row = term.row /\ y.col = term.col /\ y.top = term.top
                /\ y.total = term.total /\ y.rows = term.rows /\ y.cols = term.cols
                /\ y.scrollRow = term.scrollRow /\ y.marginTop = term.marginTop
                /\ y.marginBottom = term.marginBottom /\ y.alternate = term.alternate
  <2>2. Alike(u) /\ Alike(v) /\ Alike(x)
    <3>1. Alike(u)
      BY <1>1 DEF State
    <3>2. Alike(v)
      BY <1>1, <1>2 DEF State
    <3>3. Alike(x)
      BY <1>1 DEF State
    <3> QED
      BY <3>1, <3>2, <3>3
  <2>3. row \in Int
    BY <1>2
  <2> HIDE DEF u, v, x, row
  <2>4. Kept(u) /\ Kept(v) /\ Kept(x)
    <3>1. term.marginTop <= term.marginBottom /\ term.marginBottom <= term.rows - 1
      BY <1>1 DEF Buffer
    <3>2. ASSUME NEW y, Alike(y) PROVE Kept(y)
      BY <1>1, <3>1, <3>2, SoundCopy DEF SameWindow, Kept
    <3> HIDE DEF Alike
    <3> QED
      BY <2>2, <3>2
  <2>5. Kept(CursorAt(u, row, 0))
    BY <1>2, <2>3, <2>4, CursorAtSound DEF Kept, SameWindow
  <2>6. Show(CursorAt(u, row, 0)) \/ Show(v) \/ Show(x)
    BY <2>1 DEF u, v, x, row
  <2>7. UNCHANGED primary
    BY <1>21 DEF SetMode
  <2> QED
    BY <1>3, <2>4, <2>5, <2>6, <2>7
<1>22. CASE SaveCursor
  <2> DEFINE u == [term EXCEPT !.savedRow = ScreenRow(term), !.savedCol = term.col]
  <2>1. ScreenRow(term) \in Nat /\ term.col \in Nat
    BY <1>2
  <2>2. /\ u \in State /\ u.row = term.row /\ u.col = term.col /\ u.top = term.top
        /\ u.total = term.total /\ u.rows = term.rows /\ u.cols = term.cols
        /\ u.scrollRow = term.scrollRow /\ u.marginTop = term.marginTop
        /\ u.marginBottom = term.marginBottom /\ u.alternate = term.alternate
    BY <1>1, <2>1 DEF State
  <2>3. Show(u) /\ UNCHANGED primary
    BY <1>22 DEF SaveCursor
  <2> HIDE DEF u
  <2>4. term.marginTop <= term.marginBottom /\ term.marginBottom <= term.rows - 1
    BY <1>1 DEF Buffer
  <2>5. Kept(u)
    BY <1>1, <2>2, <2>4, SoundCopy DEF SameWindow, Kept
  <2> QED
    BY <1>3, <2>3, <2>5
<1>23. CASE RestoreCursor
  BY <1>2, <1>3, <1>5, <1>23 DEF RestoreCursor
<1>24. CASE EnterAlternate
  <2> DEFINE u == [term EXCEPT !.lines = NoLines, !.alternate = TRUE, !.row = 0, !.col = 0,
                               !.top = 0, !.total = 1, !.scrollRow = 0, !.marginTop = 0,
                               !.marginBottom = term.rows - 1, !.wrap = FALSE]
  <2>1. /\ u \in State /\ u.row = 0 /\ u.col = 0 /\ u.top = 0 /\ u.total = 1
        /\ u.rows = term.rows /\ u.cols = term.cols /\ u.marginTop = 0
        /\ u.marginBottom = term.rows - 1 /\ u.scrollRow = 0
    BY <1>1, <1>2, BlankLineType DEF State, Lines
  <2>2. Show(u) /\ primary' = term
    BY <1>24 DEF EnterAlternate
  <2> HIDE DEF u
  <2>3. Sound(u)
    BY <1>2, <2>1 DEF Sound, Placed, Buffer, MaxOffset, Less
  <2>4. Sound(term') /\ SameWindow(u, term') /\ fed' \in 0..MaxSequences
    BY <1>1, <2>2, <2>3, Shown
  <2> QED
    BY <1>1, <2>1, <2>2, <2>4 DEF TerminalInv, SameWindow
<1>25. CASE LeaveAlternate
  <2> DEFINE u == [primary EXCEPT !.rows = term.rows, !.cols = term.cols, !.wrap = FALSE,
                                  !.savedRow = term.savedRow, !.savedCol = term.savedCol,
                                  !.follow = term.follow]
  <2>1. /\ Sound(primary) /\ primary \in State /\ Buffer(primary)
        /\ primary.rows = term.rows /\ primary.cols = term.cols
    BY <1>25, BufferTypes DEF LeaveAlternate, TerminalInv, Sound, Placed
  <2>2. /\ u \in State /\ u.row = primary.row /\ u.col = primary.col /\ u.top = primary.top
        /\ u.total = primary.total /\ u.rows = primary.rows /\ u.cols = primary.cols
        /\ u.scrollRow = primary.scrollRow /\ u.marginTop = primary.marginTop
        /\ u.marginBottom = primary.marginBottom
    BY <1>2, <2>1, BufferTypes DEF State
  <2>3. Show(u) /\ primary' = primary
    BY <1>25 DEF LeaveAlternate
  <2> HIDE DEF u
  <2>4. primary.marginTop <= primary.marginBottom
        /\ primary.marginBottom <= primary.rows - 1
    BY <2>1 DEF Buffer
  <2>5. Sound(u)
    BY <2>1, <2>2, <2>4, SoundCopy
  <2>6. Sound(term') /\ SameWindow(u, term') /\ fed' \in 0..MaxSequences
    BY <1>1, <2>3, <2>5, Shown
  <2> QED
    BY <2>1, <2>2, <2>3, <2>6 DEF TerminalInv, SameWindow
<1>26. CASE Reset
  <2> DEFINE o == Opened(term.rows, term.cols)
             u == [o EXCEPT !.alternate = term.alternate, !.follow = term.follow,
                            !.savedRow = term.savedRow, !.savedCol = term.savedCol]
  <2>1. Sound(o) /\ o.rows = term.rows /\ o.cols = term.cols /\ o \in State /\ Buffer(o)
    BY <1>2, OpenedSound, BufferTypes DEF Sound, Placed
  <2>2. Show(u) /\ UNCHANGED primary
    BY <1>26 DEF Reset
  <2> HIDE DEF o
  <2>3. /\ u \in State /\ u.row = o.row /\ u.col = o.col /\ u.top = o.top
        /\ u.total = o.total /\ u.rows = o.rows /\ u.cols = o.cols
        /\ u.scrollRow = o.scrollRow /\ u.marginTop = o.marginTop
        /\ u.marginBottom = o.marginBottom /\ u.alternate = term.alternate
    BY <1>2, <2>1 DEF State
  <2> HIDE DEF u
  <2>4. o.marginTop <= o.marginBottom /\ o.marginBottom <= o.rows - 1
    BY <2>1 DEF Buffer
  <2>5. Kept(u)
    BY <2>1, <2>3, <2>4, SoundCopy DEF Kept, SameWindow
  <2> QED
    BY <1>3, <2>2, <2>5
<1>27. CASE Resize
  <2>1. PICK size \in Sizes :
           LET t == Synced(Resized(term, size[1], size[2]))
           IN  term' = IF t.follow THEN [t EXCEPT !.scrollRow = MaxOffset(t)] ELSE t
    BY <1>27 DEF Resize
  <2> DEFINE u == Resized(term, size[1], size[2])
             t == Synced(u)
  <2>2. size[1] \in 1..MaxLines /\ size[2] \in 1..MaxCols
    BY <2>1
  <2>3. Placed(u) /\ u.alternate = term.alternate /\ u.rows \in Heights
    BY <1>1, <2>1, <2>2, ResizedPlaced DEF Heights
  <2> HIDE DEF u
  <2>4. Sound(t) /\ SameWindow(u, t)
    BY <2>3, SyncedSound
  <2>5. term' = IF t.follow THEN [t EXCEPT !.scrollRow = MaxOffset(t)] ELSE t
    BY <2>1 DEF u
  <2> HIDE DEF t
  <2>6. t \in State /\ Placed(t) /\ MaxOffset(t) \in Nat /\ t.follow \in BOOLEAN
    BY <2>4, BufferTypes, MaxOffsetType DEF Sound, Placed, State
  <2>7. [t EXCEPT !.scrollRow = MaxOffset(t)]
           = [t EXCEPT !.scrollRow = MaxOffset(t), !.follow = t.follow]
    BY <2>6 DEF State
  <2>8. MaxOffset(t) <= MaxOffset(t)
    BY <2>6
  <2>9. /\ Sound([t EXCEPT !.scrollRow = MaxOffset(t), !.follow = t.follow])
        /\ SameWindow(t, [t EXCEPT !.scrollRow = MaxOffset(t), !.follow = t.follow])
    BY <2>6, <2>8, ViewSet, Zenon
  <2>10. Sound(term') /\ term'.alternate = term.alternate /\ term'.rows \in Heights
    BY <2>3, <2>4, <2>5, <2>7, <2>9 DEF SameWindow
  <2>11. ~term.alternate /\ UNCHANGED <<primary, fed>>
    BY <1>27 DEF Resize
  <2> QED
    BY <2>10, <2>11 DEF TerminalInv
<1>28. CASE Scroll
  <2>1. PICK offset \in 0..MaxOffset(term) :
           term' = [term EXCEPT !.scrollRow = offset, !.follow = FALSE]
    BY <1>28 DEF Scroll
  <2>2. MaxOffset(term) \in Nat
    BY <1>1, MaxOffsetType
  <2>3. offset \in Nat /\ offset <= MaxOffset(term)
    BY <2>2
  <2>4. Sound(term') /\ SameWindow(term, term')
    BY <1>1, <1>2, <2>1, <2>3, ViewSet, Zenon
  <2>5. UNCHANGED <<primary, fed>>
    BY <1>28 DEF Scroll
  <2> QED
    BY <2>4, <2>5 DEF TerminalInv, SameWindow
<1>29. CASE UNCHANGED terminalVars
  BY <1>29 DEF terminalVars, TerminalInv
<1> QED
  BY <1>6, <1>7, <1>8, <1>9, <1>10, <1>11, <1>12, <1>13, <1>14, <1>15, <1>16, <1>18,
     <1>19, <1>20, <1>21, <1>22, <1>23, <1>24, <1>25, <1>26, <1>27, <1>28, <1>29
  DEF Next

-----------------------------------------------------------------------------
\* The view is not part of the history.
LEMMA ShownAlike ==
    ASSUME NEW t \in State, Show(t)
    PROVE  /\ term'.lines = t.lines /\ term'.top = t.top /\ term'.total = t.total
           /\ term'.alternate = t.alternate
<1>1. CASE term' = Followed(t)
  BY <1>1 DEF Followed, State
<1>2. CASE term' = Synced(t)
  BY <1>2 DEF Synced, State
<1> QED
  BY <1>1, <1>2 DEF Show

\* What a sequence does to the buffer in use matters under the primary screen.
LEMMA SequenceHistory ==
    ASSUME TerminalInv, NEW t \in State, Show(t), UNCHANGED primary,
           t.alternate = term.alternate, ~term.alternate => HistoryMoves(term, t)
    PROVE  HistoryMoves(Main, Main')
<1>1. /\ term'.lines = t.lines /\ term'.top = t.top /\ term'.total = t.total
      /\ term'.alternate = t.alternate
  BY ShownAlike
<1>2. CASE term.alternate
  <2>1. Main = primary /\ Main' = primary
    BY <1>1, <1>2 DEF Main
  <2>2. Buffer(primary)
    BY DEF TerminalInv, Sound, Placed
  <2>3. HistoryMoves(primary, primary)
    BY <2>2, HistoryWeakens
  <2> QED
    BY <2>1, <2>3
<1>3. CASE ~term.alternate
  <2>1. Main = term /\ Main' = term'
    BY <1>1, <1>3 DEF Main
  <2>2. HistoryMoves(term, term')
    BY <1>1, <1>3, HistoryAlike
  <2> QED
    BY <2>1, <2>2
<1> QED
  BY <1>2, <1>3

\* The step of HistoryKept, sequence by sequence.
LEMMA NextHistory ==
    ASSUME ~ResizesAlternate, \A size \in Sizes : size[1] < MaxLines,
           TerminalInv, [Next]_terminalVars
    PROVE  Main'.total = 1 \/ HistoryMoves(Main, Main')
<1> DEFINE Moves(t) == t \in State /\ t.alternate = term.alternate /\ HistoryMoves(term, t)
<1>1. /\ Sound(term) /\ Placed(term) /\ Buffer(term) /\ term \in State
      /\ term.rows < MaxLines /\ Sound(primary) /\ Buffer(primary) /\ primary \in State
  BY BufferTypes DEF TerminalInv, Sound, Placed, Heights
<1>2. /\ term.marginTop \in Int /\ term.marginBottom \in Int /\ ScreenRow(term) \in Int
      /\ term.rows \in Nat /\ term.cols \in Nat /\ term.savedRow \in Int
      /\ term.savedCol \in Int /\ 0 \in Int /\ term.col \in 0..term.cols - 1
      /\ 0 \in 0..term.cols - 1 /\ 1 \in Int
      /\ term.origin \in BOOLEAN /\ FALSE \in BOOLEAN /\ term.alternate \in BOOLEAN
  <2>1. ScreenRow(term) \in 0..term.rows - 1
    BY <1>1, ScreenRowFacts
  <2> QED
    BY <1>1, <2>1, BufferTypes DEF Placed, State
<1>3. ASSUME NEW t, Moves(t), Show(t), UNCHANGED primary PROVE HistoryMoves(Main, Main')
  BY <1>3, SequenceHistory
<1>4. ASSUME NEW t, Sound(t), SameWindow(term, t), HistoryDrops(term, t) \/ HistoryStays(term, t)
      PROVE  Moves(t)
  BY <1>1, <1>4, HistoryWeakens, BufferTypes DEF SameWindow, Sound, Placed
<1>5. ASSUME NEW t, Sound(t), SameWindow(term, t), HistoryMoves(term, t)
      PROVE  Moves(t)
  BY <1>5, BufferTypes DEF SameWindow, Sound, Placed
<1>6. ASSUME NEW t \in State, t.lines = term.lines, t.top = term.top, t.total = term.total,
             t.alternate = term.alternate
      PROVE  Moves(t)
  BY <1>1, <1>6, HistoryWeakens
<1> HIDE DEF Moves
<1>7. ASSUME NEW row \in Int, NEW col \in Int PROVE Moves(CursorAt(term, row, col))
  BY <1>1, <1>4, <1>7, CursorAtSound, CursorAtHistory
<1>8. ASSUME NEW a \in Int, NEW b \in Int, NEW k \in Int, NEW downward \in BOOLEAN
      PROVE  Moves(Scrolled(term, a, b, k, downward))
  BY <1>1, <1>4, <1>8, ScrolledSound, ScrolledHistory
<1>9. CASE Character
  <2>1. Moves(Printed(term))
    BY <1>1, <1>5, PrintedSound, PrintedHistory
  <2> QED
    BY <1>3, <1>9, <2>1 DEF Character
<1>10. CASE LineFeed
  <2>1. Moves(Indexed(term))
    BY <1>1, <1>5, IndexedSound, IndexedHistory
  <2> QED
    BY <1>3, <1>10, <2>1 DEF LineFeed
<1>11. CASE NextLine
  <2> DEFINE b == [term EXCEPT !.col = 0]
  <2>1. Sound(b) /\ SameWindow(term, b)
    BY <1>1, <1>2, ColumnSet
  <2>2. b.lines = term.lines /\ b.top = term.top /\ b.total = term.total
    BY <1>1 DEF State
  <2>3. Show(Indexed(b)) /\ UNCHANGED primary
    BY <1>11 DEF NextLine
  <2> HIDE DEF b
  <2>4. Sound(Indexed(b)) /\ SameWindow(term, Indexed(b)) /\ HistoryMoves(b, Indexed(b))
    BY <1>1, <2>1, IndexedSound, IndexedHistory DEF SameWindow
  <2>5. Moves(Indexed(b))
    BY <1>5, <2>2, <2>4, HistoryAlike
  <2> QED
    BY <1>3, <2>3, <2>5
<1>12. CASE ReverseIndex
  <2>1. Moves(ReverseIndexed(term))
    BY <1>1, <1>4, ReverseIndexedSound, ReverseIndexedHistory
  <2> QED
    BY <1>3, <1>12, <2>1 DEF ReverseIndex
<1>13. ASSUME NEW c \in Nat PROVE Moves([term EXCEPT !.col = c, !.wrap = FALSE])
  <2> DEFINE u == [term EXCEPT !.col = c, !.wrap = FALSE]
  <2>1. /\ u \in State /\ u.lines = term.lines /\ u.top = term.top /\ u.total = term.total
        /\ u.alternate = term.alternate
    BY <1>1, <1>2 DEF State
  <2> HIDE DEF u
  <2>2. Moves(u)
    BY <1>6, <2>1
  <2> QED
    BY <2>2 DEF u
<1>14. CASE CarriageReturn
  BY <1>3, <1>13, <1>14 DEF CarriageReturn
<1>15. CASE Backspace
  <2>1. Less(term.col, 1) \in Nat
    BY <1>2 DEF Less
  <2> QED
    BY <1>3, <1>13, <1>15, <2>1 DEF Backspace
<1>16. CASE Tab
  <2>1. PICK c \in term.col + 1..term.cols - 1 \union {term.cols - 1} :
           Show([term EXCEPT !.col = c, !.wrap = FALSE])
    BY <1>16 DEF Tab
  <2>2. c \in Nat
    BY <1>2
  <2> QED
    BY <1>3, <1>13, <1>16, <2>1, <2>2 DEF Tab
<1>17. CASE MoveCursor
  <2>1. PICK row \in -1..term.rows, col \in {-1, 0, term.cols} :
           Show(CursorAt(term, row, col))
    BY <1>17 DEF MoveCursor
  <2>2. row \in Int /\ col \in Int
    BY <1>2
  <2> QED
    BY <1>3, <1>7, <1>17, <2>1, <2>2 DEF MoveCursor
<1>18. CASE Erase
  <2>1. PICK mode : Show(DisplayErased(term, mode)) \/ Show(LineErased(term, mode))
    BY <1>18 DEF Erase
  <2>2. Moves(DisplayErased(term, mode))
    BY <1>1, <1>4, DisplayErasedSound, DisplayErasedHistory
  <2>3. Moves(LineErased(term, mode))
    BY <1>1, <1>4, LineErasedSound, LineErasedHistory
  <2> QED
    BY <1>3, <1>18, <2>1, <2>2, <2>3 DEF Erase
<1>19. CASE MoveChars
  <2>1. PICK insert \in BOOLEAN, count \in 1..2 : Show(CharsMoved(term, count, insert))
    BY <1>19 DEF MoveChars
  <2>2. count \in Int
    OBVIOUS
  <2>3. Moves(CharsMoved(term, count, insert))
    BY <1>1, <1>4, <2>2, CharsMovedSound, CharsMovedHistory
  <2> QED
    BY <1>3, <1>19, <2>1, <2>3 DEF MoveChars
<1>20. CASE EraseChars
  <2>1. PICK set : Show(Wiped(term, term.row, set))
    BY <1>20 DEF EraseChars
  <2>2. term.row \in Rows
    BY <1>1, CursorRow
  <2>3. Moves(Wiped(term, term.row, set))
    BY <1>1, <1>4, <2>2, WipedSound, CursorWipedHistory DEF SameScreen, SameWindow
  <2> QED
    BY <1>3, <1>20, <2>1, <2>3 DEF EraseChars
<1>21. CASE MoveLines
  <2>1. PICK insert \in BOOLEAN, count \in 1..2 :
           Show(Scrolled(term, ScreenRow(term), term.marginBottom, count, insert))
    BY <1>21 DEF MoveLines
  <2>2. count \in Int
    OBVIOUS
  <2>3. Moves(Scrolled(term, ScreenRow(term), term.marginBottom, count, insert))
    BY <1>2, <1>8, <2>2
  <2> QED
    BY <1>3, <1>21, <2>1, <2>3 DEF MoveLines
<1>22. CASE ScrollLines
  <2>1. PICK downward \in BOOLEAN, count \in 1..2 :
           Show(Scrolled(term, term.marginTop, term.marginBottom, count, downward))
    BY <1>22 DEF ScrollLines
  <2>2. count \in Int
    OBVIOUS
  <2>3. Moves(Scrolled(term, term.marginTop, term.marginBottom, count, downward))
    BY <1>2, <1>8, <2>2
  <2> QED
    BY <1>3, <1>22, <2>1, <2>3 DEF ScrollLines
<1>23. ASSUME NEW u \in State, Sound(u), SameWindow(term, u), u.lines = term.lines,
              u.top = term.top, u.total = term.total, NEW row \in Int
       PROVE  Moves(CursorAt(u, row, 0))
  <2>1. Buffer(u)
    BY <1>23 DEF Sound, Placed
  <2>2. HistoryDrops(u, CursorAt(u, row, 0)) /\ Sound(CursorAt(u, row, 0))
        /\ SameWindow(term, CursorAt(u, row, 0))
    BY <1>2, <1>23, <2>1, CursorAtHistory, CursorAtSound DEF SameWindow
  <2>3. HistoryDrops(term, CursorAt(u, row, 0))
    BY <1>23, <2>2, HistoryAlike
  <2> QED
    BY <1>4, <2>2, <2>3
<1>24. CASE SetMargins
  <2>1. PICK top \in 0..term.rows - 1, bottom \in 0..term.rows - 1 :
           /\ top < bottom
           /\ Show(CursorAt([term EXCEPT !.marginTop = top, !.marginBottom = bottom],
                            IF term.origin THEN top ELSE 0, 0))
    BY <1>24 DEF SetMargins
  <2> DEFINE u == [term EXCEPT !.marginTop = top, !.marginBottom = bottom]
             row == IF term.origin THEN top ELSE 0
  <2>2. top \in Nat /\ bottom \in Nat /\ row \in Int /\ bottom <= term.rows - 1
    BY <1>2
  <2>3. /\ u \in State /\ u.row = term.row /\ u.col = term.col /\ u.top = term.top
        /\ u.total = term.total /\ u.rows = term.rows /\ u.cols = term.cols
        /\ u.scrollRow = term.scrollRow /\ u.marginTop = top /\ u.marginBottom = bottom
        /\ u.alternate = term.alternate /\ u.lines = term.lines
    BY <1>1, <2>2 DEF State
  <2>4. Show(CursorAt(u, row, 0)) /\ UNCHANGED primary
    BY <1>24, <2>1 DEF SetMargins
  <2> HIDE DEF u, row
  <2>5. Sound(u) /\ SameWindow(term, u)
    <3>1. u.marginTop <= u.marginBottom /\ u.marginBottom <= term.rows - 1
      BY <1>2, <2>1, <2>2, <2>3
    <3> QED
      BY <1>1, <2>3, <3>1, SoundCopy DEF SameWindow
  <2>6. Moves(CursorAt(u, row, 0))
    BY <1>23, <2>2, <2>3, <2>5
  <2> QED
    BY <1>3, <2>4, <2>6
<1>25. CASE SetMode
  <2>1. PICK on \in BOOLEAN :
           \/ Show(CursorAt([term EXCEPT !.origin = on],
                            IF on THEN term.marginTop ELSE 0, 0))
           \/ Show([term EXCEPT !.autoWrap = on, !.wrap = FALSE])
           \/ Show([term EXCEPT !.insert = on])
    BY <1>25 DEF SetMode
  <2> DEFINE u == [term EXCEPT !.origin = on]
             v == [term EXCEPT !.autoWrap = on, !.wrap = FALSE]
             x == [term EXCEPT !.insert = on]
             row == IF on THEN term.marginTop ELSE 0
  <2>2. /\ u \in State /\ u.row = term.row /\ u.col = term.col /\ u.top = term.top
        /\ u.total = term.total /\ u.rows = term.rows /\ u.cols = term.cols
        /\ u.scrollRow = term.scrollRow /\ u.marginTop = term.marginTop
        /\ u.marginBottom = term.marginBottom /\ u.alternate = term.alternate
        /\ u.lines = term.lines
    BY <1>1 DEF State
  <2>3. /\ v \in State /\ v.lines = term.lines /\ v.top = term.top /\ v.total = term.total
        /\ v.alternate = term.alternate
    BY <1>1, <1>2 DEF State
  <2>4. /\ x \in State /\ x.lines = term.lines /\ x.top = term.top /\ x.total = term.total
        /\ x.alternate = term.alternate
    BY <1>1 DEF State
  <2>5. row \in Int
    BY <1>2
  <2>6. (Show(CursorAt(u, row, 0)) \/ Show(v) \/ Show(x)) /\ UNCHANGED primary
    BY <1>25, <2>1 DEF SetMode
  <2> HIDE DEF u, v, x, row
  <2>7. Moves(v) /\ Moves(x)
    BY <1>6, <2>3, <2>4
  <2>8. Sound(u) /\ SameWindow(term, u)
    <3>1. u.marginTop <= u.marginBottom /\ u.marginBottom <= term.rows - 1
      BY <1>1, <2>2 DEF Buffer
    <3> QED
      BY <1>1, <2>2, <3>1, SoundCopy DEF SameWindow
  <2>9. Moves(CursorAt(u, row, 0))
    BY <1>23, <2>2, <2>5, <2>8
  <2> QED
    BY <1>3, <2>6, <2>7, <2>9
<1>26. CASE SaveCursor
  <2> DEFINE u == [term EXCEPT !.savedRow = ScreenRow(term), !.savedCol = term.col]
  <2>1. ScreenRow(term) \in 0..term.rows - 1
    BY <1>1, ScreenRowFacts
  <2>2. ScreenRow(term) \in Nat /\ term.col \in Nat
    BY <1>2, <2>1
  <2>3. /\ u \in State /\ u.lines = term.lines /\ u.top = term.top /\ u.total = term.total
        /\ u.alternate = term.alternate
    BY <1>1, <2>2 DEF State
  <2>4. Show(u) /\ UNCHANGED primary
    BY <1>26 DEF SaveCursor
  <2> HIDE DEF u
  <2> QED
    BY <1>3, <1>6, <2>3, <2>4
<1>27. CASE RestoreCursor
  BY <1>2, <1>3, <1>7, <1>27 DEF RestoreCursor
<1>28. CASE EnterAlternate
  <2> DEFINE u == [term EXCEPT !.lines = NoLines, !.alternate = TRUE, !.row = 0, !.col = 0,
                               !.top = 0, !.total = 1, !.scrollRow = 0, !.marginTop = 0,
                               !.marginBottom = term.rows - 1, !.wrap = FALSE]
  <2>1. term.rows - 1 \in Nat
    BY <1>1, BufferTypes
  <2>2. u \in State /\ u.alternate = TRUE
    BY <1>1, <2>1, BlankLineType DEF State, Lines
  <2>3. Show(u) /\ primary' = term /\ ~term.alternate
    BY <1>28 DEF EnterAlternate
  <2> HIDE DEF u
  <2>4. Main = term /\ Main' = term
    BY <2>2, <2>3, ShownAlike DEF Main
  <2> QED
    BY <1>1, <2>4, HistoryWeakens
<1>29. CASE LeaveAlternate
  <2> DEFINE u == [primary EXCEPT !.rows = term.rows, !.cols = term.cols, !.wrap = FALSE,
                                  !.savedRow = term.savedRow, !.savedCol = term.savedCol,
                                  !.follow = term.follow]
  <2>1. /\ term.savedRow \in Nat /\ term.savedCol \in Nat /\ term.follow \in BOOLEAN
    BY <1>1 DEF State
  <2>2. /\ u \in State /\ u.lines = primary.lines /\ u.top = primary.top
        /\ u.total = primary.total
    BY <1>1, <1>2, <2>1 DEF State
  <2>3. Show(u) /\ primary' = primary /\ term.alternate
    BY <1>29 DEF LeaveAlternate
  <2> HIDE DEF u
  <2>4. /\ term'.lines = primary.lines /\ term'.top = primary.top
        /\ term'.total = primary.total
    BY <2>2, <2>3, ShownAlike
  <2>5. HistoryMoves(primary, primary)
    BY <1>1, HistoryWeakens
  <2>6. HistoryMoves(primary, term')
    BY <2>4, <2>5, HistoryAlike
  <2>7. Main = primary /\ Main' \in {primary, term'}
    BY <2>3 DEF Main
  <2> QED
    BY <2>5, <2>6, <2>7
<1>30. CASE Reset
  <2> DEFINE u == [Opened(term.rows, term.cols) EXCEPT
                      !.alternate = term.alternate, !.follow = term.follow,
                      !.savedRow = term.savedRow, !.savedCol = term.savedCol]
  <2>1. term.rows \in 1..MaxLines /\ term.cols \in 1..MaxCols
    BY <1>1 DEF Buffer
  <2>2. Opened(term.rows, term.cols) \in State
    BY <2>1, OpenedSound, BufferTypes DEF Sound, Placed
  <2>3. /\ term.savedRow \in Nat /\ term.savedCol \in Nat /\ term.follow \in BOOLEAN
    BY <1>1 DEF State
  <2>4. u \in State /\ u.alternate = term.alternate
    BY <1>2, <2>2, <2>3 DEF State
  <2>5. u.total = 1
    BY DEF Opened
  <2>6. Show(u) /\ UNCHANGED primary
    BY <1>30 DEF Reset
  <2> HIDE DEF u
  <2>7. term'.total = 1 /\ term'.alternate = term.alternate
    BY <2>4, <2>5, <2>6, ShownAlike
  <2>8. CASE term.alternate
    <3>1. Main = primary /\ Main' = primary
      BY <2>6, <2>7, <2>8 DEF Main
    <3> QED
      BY <1>1, <3>1, HistoryWeakens
  <2>9. CASE ~term.alternate
    BY <2>7, <2>9 DEF Main
  <2> QED
    BY <2>8, <2>9
<1>31. CASE Resize
  <2>1. PICK size \in Sizes :
           LET t == Synced(Resized(term, size[1], size[2]))
           IN  term' = IF t.follow THEN [t EXCEPT !.scrollRow = MaxOffset(t)] ELSE t
    BY <1>31 DEF Resize
  <2> DEFINE u == Resized(term, size[1], size[2])
             t == Synced(u)
  <2>2. size[1] \in 1..MaxLines /\ size[2] \in 1..MaxCols
    BY <2>1
  <2>3. u \in State /\ HistoryDrops(term, u) /\ u.alternate = term.alternate
    BY <1>1, <2>2, ResizedPlaced, ResizedHistory, BufferTypes DEF Placed
  <2> HIDE DEF u
  <2>4. /\ t.lines = u.lines /\ t.top = u.top /\ t.total = u.total
        /\ t.alternate = u.alternate /\ DOMAIN t = DOMAIN u
    BY <2>3 DEF Synced, State
  <2>5. term' = IF t.follow THEN [t EXCEPT !.scrollRow = MaxOffset(t)] ELSE t
    BY <2>1 DEF u
  <2>6. /\ term'.lines = u.lines /\ term'.top = u.top /\ term'.total = u.total
        /\ term'.alternate = u.alternate
    <3> HIDE DEF t
    <3> QED
      BY <2>3, <2>4, <2>5 DEF State
  <2>7. ~term.alternate
    BY <1>31 DEF Resize
  <2>8. Main = term /\ Main' = term'
    BY <2>3, <2>6, <2>7 DEF Main
  <2>9. HistoryMoves(term, u)
    BY <1>1, <2>3, HistoryWeakens
  <2>10. HistoryMoves(term, term')
    BY <2>6, <2>9, HistoryAlike
  <2> QED
    BY <2>8, <2>10
<1>32. CASE Scroll
  <2>1. PICK offset : term' = [term EXCEPT !.scrollRow = offset, !.follow = FALSE]
    BY <1>32 DEF Scroll
  <2>2. /\ term'.lines = term.lines /\ term'.top = term.top /\ term'.total = term.total
        /\ term'.alternate = term.alternate
    BY <1>1, <2>1 DEF State
  <2>3. primary' = primary
    BY <1>32 DEF Scroll
  <2>4. \/ Main = primary /\ Main' = primary
        \/ Main = term /\ Main' = term'
    BY <2>2, <2>3 DEF Main
  <2>5. HistoryMoves(term, term) /\ HistoryMoves(primary, primary)
    BY <1>1, HistoryWeakens
  <2>6. HistoryMoves(term, term')
    BY <2>2, <2>5, HistoryAlike
  <2> QED
    BY <2>4, <2>5, <2>6
<1>33. CASE UNCHANGED terminalVars
  <2>1. Main' = Main /\ Main \in {primary, term}
    BY <1>33 DEF terminalVars, Main
  <2> QED
    BY <1>1, <2>1, HistoryWeakens
<1> QED
  BY <1>9, <1>10, <1>11, <1>12, <1>14, <1>15, <1>16, <1>17, <1>18, <1>19, <1>20, <1>21,
     <1>22, <1>24, <1>25, <1>26, <1>27, <1>28, <1>29, <1>30, <1>31, <1>32, <1>33
  DEF Next

-----------------------------------------------------------------------------
(***************************************************************************)
(* The inductive invariant of the Terminal's screens (vt100.c, screen.c).   *)
(***************************************************************************)
THEOREM TerminalInvariant ==
    ASSUME ~ResizesAlternate PROVE Spec => []TerminalInv
BY InitTerminal, NextTerminal, PTL DEF Spec

(***************************************************************************)
(* Both buffers keep their types; no offset of vt100.c becomes negative.    *)
(***************************************************************************)
THEOREM TerminalTypes ==
    ASSUME ~ResizesAlternate PROVE Spec => []TypeOK
<1>1. TerminalInv => TypeOK
  BY DEF TerminalInv, Sound, Placed, Buffer, TypeOK
<1> QED
  BY <1>1, TerminalInvariant, PTL

(***************************************************************************)
(* Cursor and margins stay on the screen, the screen's cursor row in the    *)
(* buffer and the view over it, after any sequences, resizes and switches   *)
(* of the screens: what every array access of vt100.c takes for granted.    *)
(***************************************************************************)
THEOREM StaysOnScreen ==
    ASSUME ~ResizesAlternate PROVE Spec => []OnScreen
<1>1. TerminalInv => OnScreen
  BY BufferTypes DEF TerminalInv, Sound, Placed, Buffer, OnScreen
<1> QED
  BY <1>1, TerminalInvariant, PTL

(***************************************************************************)
(* Scrolled-back text stays as it was: whatever sequences arrive, the rows  *)
(* above the screen take the line that leaves its top, lose the oldest ones *)
(* of a full buffer, and nothing else, until a reset.  The window has fewer *)
(* rows than the buffer: with as many, the line that leaves would be lost.  *)
(***************************************************************************)
THEOREM HistoryIsKept ==
    ASSUME ~ResizesAlternate, \A size \in Sizes : size[1] < MaxLines
    PROVE  Spec => HistoryKept
<1> DEFINE Step == \/ Main'.total = 1
                   \/ \E lost \in 0..MaxLines :
                         /\ lost > 0 => Main'.total = MaxLines
                         /\ Main'.top + lost \in {Main.top, Main.top + 1}
                         /\ \A r \in 0..Main'.top - 1 : Main'.lines[r] = Main.lines[r + lost]
<1>1. TerminalInv /\ [Next]_terminalVars => [Step]_terminalVars
  BY NextHistory DEF HistoryMoves
<1>2. HistoryKept <=> [][Step]_terminalVars
  BY DEF HistoryKept
<1> HIDE DEF Step
<1> QED
  BY <1>1, <1>2, TerminalInvariant, PTL DEF Spec
=============================================================================
