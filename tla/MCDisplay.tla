----------------------------- MODULE MCDisplay -----------------------------
(***************************************************************************)
(* The display from three sides, told apart by the first state.  "careless"  *)
(* is WindowStack on six by six cells of a desktop of application 1, with    *)
(* two windows and a form that overlap, and no overlay; "overlaid" the same  *)
(* on the server's own desktop, with an overlay on window 1 and without the  *)
(* steps that leave its mask behind.  "told" is AesMessages, by which        *)
(* applications are told what to draw again: a table of two messages, which  *)
(* fills up while redraws to merge still arrive and while messages for a     *)
(* dead application stay in it.                                              *)
(***************************************************************************)
EXTENDS AesMessages, WindowStack, TLC

CONSTANT MaxSeq         \* bound on the messages queued in a behaviour

VARIABLE display

SeqBound == nextSeq <= MaxSeq

\* What messages are about is only compared.
Symmetry == Permutations(Windows) \cup Permutations(Tags)

Overlapping == {Rect(0, 0, 3, 4), Rect(1, 1, 4, 4)}
SmallScreen == Rect(0, 0, 6, 6)
SmallForm == Rect(1, 2, 3, 2)

Careful == INSTANCE WindowStack
               WITH Desktop <- Nobody, Careless <- {}, MaxSteps <- 2

-----------------------------------------------------------------------------
\* The slots of S that were queued before slot i.
Before(i, S) == {j \in S : messages[j].seq < messages[i].seq}

\* The messages of one class addressed to a, oldest first.
InOrder(a, isRedraw) ==
    LET S == Inbox(a, isRedraw)
    IN  [k \in 1..Cardinality(S) |->
            messages[CHOOSE i \in S : Cardinality(Before(i, S)) = k - 1].body]

ControlQueue ==
    [a \in Apps |-> LET queue == InOrder(a, FALSE)
                    IN  [k \in DOMAIN queue |-> queue[k].about]]

RedrawQueue ==
    [a \in Apps |-> LET queue == InOrder(a, TRUE)
                    IN  [k \in DOMAIN queue |-> [win |-> queue[k].about,
                                                 area |-> Covered(queue[k])]]]

Pipe == INSTANCE Mailbox WITH Capacity <- NumSlots,
                              control <- ControlQueue,
                              redraws <- RedrawQueue

-----------------------------------------------------------------------------
DisplayInit ==
    /\ Init
    /\ \/ display \in {"careless", "told"} /\ StackInit
       \/ display = "overlaid" /\ Careful!StackInit

DisplayNext ==
    /\ \/ /\ display = "careless" /\ StackNext
          /\ \A h \in Overlaid : ~overlay'[h].mapped
          /\ UNCHANGED vars
       \/ display = "overlaid" /\ Careful!StackNext /\ UNCHANGED vars
       \/ display = "told" /\ Next /\ UNCHANGED stackVars
    /\ UNCHANGED display

DisplaySpec == DisplayInit /\ [][DisplayNext]_<<display, stackVars, vars>>

\* The slot table keeps the promises of Mailbox: order, priority, one growing
\* redraw per window, and refusal only when every slot is taken.  (Pipe!Spec: a
\* step of the other sides leaves the table alone, so it is not looked at.)
ImplementsMailbox ==
    Pipe!Init /\ [][display = "told" => [Pipe!Next]_(Pipe!vars)]_vars
=============================================================================
