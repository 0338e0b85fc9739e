---------------------------- MODULE MCAesDesktop ----------------------------
(* Three interchangeable applications and three windows, so that one that   *)
(* leaves can have a window above and one below another's, with a third     *)
(* application in the background.                                           *)
EXTENDS AesDesktop, TLC

CONSTANTS a1, a2, a3

Symmetry == Permutations(Apps)

\* Bound: a form is open, or an alert, or three windows, but not together.
OneExtra ==
    Cardinality({i \in 1..3 : <<formOwner # Nobody, alert.open, \A h \in Handles : window[h].used>>[i]}) < 2
=============================================================================
