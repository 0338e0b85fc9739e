------------------------------ MODULE Mailbox ------------------------------
(***************************************************************************)
(* What the AES message pipe promises an application: its control messages  *)
(* arrive in the order they were accepted; each of its windows has at most  *)
(* one redraw outstanding, and that one covers all the damage accepted for  *)
(* it since the last; redraws wait until no control message is left; and a  *)
(* message is refused only when the whole server has Capacity of them       *)
(* outstanding.  AesMessages is the slot table that implements it.          *)
(***************************************************************************)
EXTENDS Integers, Sequences, FiniteSets

CONSTANTS Apps,      \* application ids
          Windows,   \* window handles
          Tags,      \* control messages
          Pixels,    \* positions on the screen (one axis)
          Capacity   \* messages the server can hold

VARIABLES live,      \* applications that can read
          control,   \* per application, its control messages in order
          redraws,   \* per application, its [win, area] redraws in order
          accepted   \* whether the last message posted was accepted

vars == <<live, control, redraws, accepted>>

Init ==
    /\ live = {}
    /\ control = [a \in Apps |-> <<>>]
    /\ redraws = [a \in Apps |-> <<>>]
    /\ accepted = TRUE

\* Every outstanding message, named by its application, queue and place.
Outstanding ==
    UNION {    {<<a, "control", i>> : i \in DOMAIN control[a]}
           \cup {<<a, "redraw", i>> : i \in DOMAIN redraws[a]} : a \in Apps}

Full == Cardinality(Outstanding) = Capacity

\* The position of the outstanding redraw of window w, if it has one.
PendingAt(a, w) == {i \in 1..Len(redraws[a]) : redraws[a][i].win = w}

Join(a) ==
    /\ a \notin live
    /\ live' = live \cup {a}
    /\ UNCHANGED <<control, redraws, accepted>>

\* The exit of an application discards its own messages and no other's.
Leave(a) ==
    /\ a \in live
    /\ live' = live \ {a}
    /\ control' = [control EXCEPT ![a] = <<>>]
    /\ redraws' = [redraws EXCEPT ![a] = <<>>]
    /\ UNCHANGED accepted

PostControl(a, t) ==
    /\ ~Full
    /\ control' = [control EXCEPT ![a] = Append(@, t)]
    /\ accepted' = TRUE
    /\ UNCHANGED <<live, redraws>>

PostRedraw(a, w) ==
    /\ PendingAt(a, w) = {}
    /\ ~Full
    /\ redraws' \in {[redraws EXCEPT ![a] = Append(@, [win |-> w, area |-> area])] :
                        area \in SUBSET Pixels}
    /\ accepted' = TRUE
    /\ UNCHANGED <<live, control>>

\* More damage to a window that has a redraw outstanding: the area grows.
GrowRedraw(a, w) ==
    /\ \E i \in PendingAt(a, w) :
          redraws' \in {[redraws EXCEPT ![a][i].area = @ \cup more] :
                           more \in SUBSET Pixels}
    /\ accepted' = TRUE
    /\ UNCHANGED <<live, control>>

Refuse ==
    /\ Full
    /\ accepted' = FALSE
    /\ UNCHANGED <<live, control, redraws>>

ReadControl(a) ==
    /\ a \in live
    /\ control[a] # <<>>
    /\ control' = [control EXCEPT ![a] = Tail(@)]
    /\ UNCHANGED <<live, redraws, accepted>>

ReadRedraw(a) ==
    /\ a \in live
    /\ control[a] = <<>> /\ redraws[a] # <<>>
    /\ redraws' = [redraws EXCEPT ![a] = Tail(@)]
    /\ UNCHANGED <<live, control, accepted>>

Next ==
    \/ Refuse
    \/ \E a \in Apps :
        \/ Join(a) \/ Leave(a) \/ ReadControl(a) \/ ReadRedraw(a)
        \/ \E t \in Tags : PostControl(a, t)
        \/ \E w \in Windows : PostRedraw(a, w) \/ GrowRedraw(a, w)

Spec == Init /\ [][Next]_vars
=============================================================================
