---------------------------- MODULE ScreenOwner ----------------------------
(***************************************************************************)
(* What BEG_UPDATE / END_UPDATE promise an application: while it draws, the *)
(* screen is its own.  This is the abstract specification of the update     *)
(* lock; UpdateLock is the counting lock that gemd keeps.                   *)
(***************************************************************************)

CONSTANTS Apps,     \* application ids
          Nobody    \* the holder while the screen is free

VARIABLE holder     \* the application that owns the screen, or Nobody

Init == holder = Nobody

\* The screen is taken only while it is free ...
Take(a) == holder = Nobody /\ holder' = a

\* ... and given back by whoever has it, never passed on directly.
GiveBack == holder # Nobody /\ holder' = Nobody

Next == GiveBack \/ \E a \in Apps : Take(a)

Spec == Init /\ [][Next]_holder
=============================================================================
