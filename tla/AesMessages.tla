---------------------------- MODULE AesMessages ----------------------------
(***************************************************************************)
(* The AES message pipe: one table of slots for all applications, written   *)
(* by appl_write() (from clients and from the window manager itself), read  *)
(* by appl_read() and purged by gemd_cleanup_app().  A WM_REDRAW is merged  *)
(* into the one already pending for its window; reading prefers control     *)
(* messages to redraws and the oldest within each class.                    *)
(*                                                                          *)
(* A WM_REDRAW's rectangle is represented by one axis, (start, size): the   *)
(* two axes of a GRECT are united independently.                            *)
(***************************************************************************)
EXTENDS Integers

CONSTANTS Apps,       \* application ids, live or not
          Windows,    \* window handles (data[3] of a WM_REDRAW)
          Tags,       \* control messages: every kind but WM_REDRAW
          Width,      \* pixels on the axis
          NumSlots,   \* AES_MAX_MESSAGES, 64
          Empty       \* an unused slot

Slots == 1..NumSlots
Pixels == 0..(Width - 1)

\* A body is what is written; a message is a body with its address and order.
Redraws == {r \in [redraw : {TRUE}, about : Windows, start : Pixels,
                   size : 1..Width] : r.start + r.size <= Width}
Controls == [redraw : {FALSE}, about : Tags, start : {0}, size : {0}]
Bodies == Redraws \cup Controls
Messages == [dest : Apps, seq : Nat, body : Bodies]

ASSUME MessagesAssumption ==
    /\ NumSlots \in Nat \ {0}
    /\ Width \in Nat \ {0}
    /\ Empty \notin Messages

VARIABLES messages,   \* aes_state.messages
          nextSeq,    \* aes_state.next_message_seq
          live,       \* applications that are still in aes_state.apps
          accepted,   \* what the last appl_write() returned
          damage      \* history: accepted damage not yet read, per application

vars == <<messages, nextSeq, live, accepted, damage>>

TypeOK ==
    /\ messages \in [Slots -> Messages \cup {Empty}]
    /\ nextSeq \in Nat \ {0}
    /\ live \in SUBSET Apps
    /\ accepted \in BOOLEAN
    /\ damage \in [Apps -> SUBSET (Windows \X Pixels)]

Init ==
    /\ messages = [i \in Slots |-> Empty]
    /\ nextSeq = 1
    /\ live = {}
    /\ accepted = TRUE
    /\ damage = [a \in Apps |-> {}]

-----------------------------------------------------------------------------
Used(i) == messages[i] # Empty

\* Slots holding a redraw of window w for application a.
SameRedraw(a, w) ==
    {i \in Slots : /\ Used(i)
                   /\ messages[i].dest = a
                   /\ messages[i].body.redraw
                   /\ messages[i].body.about = w}

FreeSlots == {i \in Slots : ~Used(i)}

\* The scans of appl_write() stop at the first slot that fits.
IsFirst(i, S) == i \in S /\ \A j \in S : i <= j

Smaller(x, y) == IF x < y THEN x ELSE y
Larger(x, y) == IF x > y THEN x ELSE y
LastPixel(r) == r.start + r.size - 1

\* Mutant: the newer rectangle replaces the older.
UnionLatest(r, s) == s

\* aes_union_message_rects(): the hull, kept as a start and a size.
UnionRect(r, s) ==
    LET first == Smaller(r.start, s.start)
        last  == Larger(LastPixel(r), LastPixel(s))
    IN  [redraw |-> TRUE, about |-> r.about,
         start |-> first, size |-> last - first + 1]

\* The pixels a redraw asks for.
Covered(r) == {p \in Pixels : r.start <= p /\ p <= LastPixel(r)}

\* What accepting body b adds to the damage its reader must repaint.
DamageOf(b) == IF b.redraw THEN {b.about} \X Covered(b) ELSE {}

-----------------------------------------------------------------------------
\* appl_write(): a redraw is merged into the pending one for its window.
WriteMerged(a, b) ==
    /\ b.redraw
    /\ \E i \in Slots :
          /\ IsFirst(i, SameRedraw(a, b.about))
          /\ messages' = [messages EXCEPT ![i].body = UnionRect(@, b)]
    /\ accepted' = TRUE
    /\ damage' = [damage EXCEPT ![a] = @ \cup DamageOf(b)]
    /\ UNCHANGED <<nextSeq, live>>

MustQueue(a, b) == b.redraw => SameRedraw(a, b.about) = {}

\* ... otherwise it takes the first free slot, whoever the destination is.
WriteQueued(a, b) ==
    /\ MustQueue(a, b)
    /\ \E i \in Slots :
          /\ IsFirst(i, FreeSlots)
          /\ messages' = [messages EXCEPT
                            ![i] = [dest |-> a, seq |-> nextSeq, body |-> b]]
    /\ nextSeq' = nextSeq + 1
    /\ accepted' = TRUE
    /\ damage' = [damage EXCEPT ![a] = @ \cup DamageOf(b)]
    /\ UNCHANGED live

\* ... or is dropped with a zero status when there is none.
WriteRefused(a, b) ==
    /\ MustQueue(a, b)
    /\ FreeSlots = {}
    /\ accepted' = FALSE
    /\ UNCHANGED <<messages, nextSeq, live, damage>>

Inbox(a, isRedraw) ==
    {i \in Slots : /\ Used(i)
                   /\ messages[i].dest = a
                   /\ messages[i].body.redraw = isRedraw}

\* Mutant: the newest message is read first.
IsNewest(i, S) == i \in S /\ \A j \in S : messages[i].seq >= messages[j].seq

IsOldest(i, S) == i \in S /\ \A j \in S : messages[i].seq <= messages[j].seq

\* appl_read(): the oldest control message, or else the oldest redraw.
ApplRead(a) ==
    /\ a \in live
    /\ \E i \in Slots :
          /\ \/ IsOldest(i, Inbox(a, FALSE))
             \/ Inbox(a, FALSE) = {} /\ IsOldest(i, Inbox(a, TRUE))
          /\ messages' = [messages EXCEPT ![i] = Empty]
          /\ damage' = [damage EXCEPT ![a] = @ \ DamageOf(messages[i].body)]
    /\ UNCHANGED <<nextSeq, live, accepted>>

ApplInit(a) ==
    /\ a \notin live
    /\ live' = live \cup {a}
    /\ UNCHANGED <<messages, nextSeq, accepted, damage>>

\* gemd_cleanup_app() drops what is addressed to the leaving application only.
Leave(a) ==
    /\ a \in live
    /\ live' = live \ {a}
    /\ messages' = [i \in Slots |-> IF Used(i) /\ messages[i].dest = a
                                    THEN Empty ELSE messages[i]]
    /\ damage' = [damage EXCEPT ![a] = {}]
    /\ UNCHANGED <<nextSeq, accepted>>

Next ==
    \E a \in Apps :
        \/ ApplInit(a) \/ Leave(a) \/ ApplRead(a)
        \/ \E b \in Bodies :
              WriteMerged(a, b) \/ WriteQueued(a, b) \/ WriteRefused(a, b)

Spec == Init /\ [][Next]_vars

-----------------------------------------------------------------------------
\* Sequence numbers order the table strictly: the oldest message is unique,
\* and no slot survives from before it was last freed (aes.c 164-170, 213-222).
SeqsDistinct ==
    \A i, j \in Slots : Used(i) /\ Used(j) =>
        /\ messages[i].seq < nextSeq
        /\ messages[i].seq = messages[j].seq => i = j

\* A window never has two redraws queued for one application, so clients that
\* repaint on each cannot exhaust the shared table (aes.c 150-160).
OneRedrawPerWindow ==
    \A a \in Apps, w \in Windows, i, j \in Slots :
        i \in SameRedraw(a, w) /\ j \in SameRedraw(a, w) => i = j

\* No accepted damage is lost on the way: until it is read, some pending
\* redraw for that window covers it (aes.c 150-157 and 229-256).
DamageCovered ==
    \A a \in Apps : \A wp \in damage[a] :
        \E i \in SameRedraw(a, wp[1]) : wp[2] \in Covered(messages[i].body)
=============================================================================
