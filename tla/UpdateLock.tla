----------------------------- MODULE UpdateLock -----------------------------
(***************************************************************************)
(* The update lock of the AES server.  aes_state.update_depth is one        *)
(* counter shared by every application: it freezes physical input and, by   *)
(* gemd_session_may_run(), every client that owes none of it.  Each         *)
(* application also has its own count of BEG_UPDATEs not yet matched, so    *)
(* that gemd can unwind exactly what a leaving application owed.            *)
(*                                                                          *)
(* Sessions, queues and panels are in Gemd; here an application either      *)
(* runs a request, is inside graf_dragbox() (which holds the counter once,  *)
(* on nobody's account, across calls of the cooperative wait hook), or has  *)
(* left.                                                                    *)
(***************************************************************************)
EXTENDS Integers

CONSTANTS Apps,       \* application ids
          Nobody,     \* no application
          MaxDepth,   \* 64: BEG_UPDATEs one application may nest
          WordLimit   \* 32766: wind_update() refuses to count further

ASSUME LockAssumption ==
    /\ Nobody \notin Apps
    /\ MaxDepth \in Nat \ {0}
    /\ WordLimit \in Nat
    /\ MaxDepth + 1 < WordLimit

VARIABLES live,         \* applications in aes_state.apps
          depth,        \* aes_app_t.update_depth
          updateDepth,  \* aes_state.update_depth
          dragger       \* the application inside graf_dragbox(), or Nobody

vars == <<live, depth, updateDepth, dragger>>

TypeOK ==
    /\ live \in SUBSET Apps
    /\ depth \in [Apps -> 0..MaxDepth]
    /\ updateDepth \in 0..(MaxDepth + 1)
    /\ dragger \in Apps \cup {Nobody}

Init ==
    /\ live = {}
    /\ depth = [a \in Apps |-> 0]
    /\ updateDepth = 0
    /\ dragger = Nobody

\* Mutant: any application runs while the counter is up.
MayRunAnyApp(a) == dragger # a /\ (updateDepth = 0 \/ a \in live)

(***************************************************************************)
(* gemd_session_may_run(): with the counter up, only an application that    *)
(* contributes to it is dispatched.  An application inside graf_dragbox()   *)
(* is still handling that request.                                          *)
(***************************************************************************)
MayRun(a) ==
    /\ dragger # a
    /\ updateDepth = 0 \/ (a \in live /\ depth[a] > 0)

\* APPL_INIT gives the session an application; its count starts at zero.
ApplInit(a) ==
    /\ a \notin live
    /\ MayRun(a)
    /\ live' = live \cup {a}
    /\ UNCHANGED <<depth, updateDepth, dragger>>

\* Mutant: the nesting is bounded by wind_update()'s WORD guard only.
BegUpdateUnbounded(a) ==
    /\ a \in live /\ MayRun(a)
    /\ updateDepth < WordLimit /\ depth[a] < WordLimit
    /\ updateDepth' = updateDepth + 1
    /\ depth' = [depth EXCEPT ![a] = @ + 1]
    /\ UNCHANGED <<live, dragger>>

\* gemd_authorized() bounds the nesting, wind_update() guards the WORD.
BegUpdate(a) ==
    /\ a \in live /\ MayRun(a)
    /\ depth[a] < MaxDepth
    /\ updateDepth < WordLimit /\ depth[a] < WordLimit
    /\ updateDepth' = updateDepth + 1
    /\ depth' = [depth EXCEPT ![a] = @ + 1]
    /\ UNCHANGED <<live, dragger>>

EndUpdate(a) ==
    /\ a \in live /\ MayRun(a)
    /\ depth[a] > 0
    /\ updateDepth > 0
    /\ updateDepth' = updateDepth - 1
    /\ depth' = [depth EXCEPT ![a] = @ - 1]
    /\ UNCHANGED <<live, dragger>>

\* graf_dragbox(): aes_begin_interaction_lock() counts without an account.
DragBegin(a) ==
    /\ a \in live /\ MayRun(a)
    /\ dragger = Nobody
    /\ dragger' = a
    /\ updateDepth' = updateDepth + 1
    /\ UNCHANGED <<live, depth>>

DragEnd ==
    /\ dragger # Nobody
    /\ updateDepth > 0
    /\ dragger' = Nobody
    /\ updateDepth' = updateDepth - 1
    /\ UNCHANGED <<live, depth>>

\* Mutants: the counter stays up; the counter is cleared altogether.
UnwoundNothing(owed) == updateDepth

\* The END_UPDATEs of a leaving application, each of which stops at zero.
Unwound(owed) == IF updateDepth > owed THEN updateDepth - owed ELSE 0

(***************************************************************************)
(* gemd_cleanup_app(): the loop of END_UPDATEs unwinds what the application *)
(* owed and no more; each call stops at zero.  It runs from APPL_EXIT, or   *)
(* from gemd_close_session() whatever the application was doing -- except   *)
(* that the session of an open drag is cancelled first, never closed under  *)
(* its panel.                                                               *)
(***************************************************************************)
Leave(a) ==
    /\ a \in live
    /\ dragger # a
    /\ live' = live \ {a}
    /\ depth' = [depth EXCEPT ![a] = 0]
    /\ updateDepth' = Unwound(depth[a])
    /\ UNCHANGED dragger

Next ==
    \/ DragEnd
    \/ \E a \in Apps : \/ ApplInit(a) \/ Leave(a)
                       \/ BegUpdate(a) \/ EndUpdate(a) \/ DragBegin(a)

Spec == Init /\ [][Next]_vars

-----------------------------------------------------------------------------
\* Everything that freezes the desktop on behalf of application a.
Holds(a) == depth[a] > 0 \/ dragger = a

\* What the interaction lock adds to the shared counter.
Tracking == IF dragger = Nobody THEN 0 ELSE 1

(***************************************************************************)
(* At most one application freezes the desktop, although the shared counter *)
(* would let several contribute (session.c 174 says they may interleave).   *)
(***************************************************************************)
ExclusiveHolder == \A a, b \in Apps : Holds(a) /\ Holds(b) => a = b

(***************************************************************************)
(* The shared counter is exactly what is owed: it is never stuck above zero *)
(* with nobody to bring it down, and never loses a live holder's share      *)
(* (session.c 168-190, after a crash between BEG_UPDATE and END_UPDATE).    *)
(***************************************************************************)
CounterIsOwed ==
    \/ \E a \in Apps : depth[a] > 0 /\ updateDepth = depth[a] + Tracking
    \/ (\A a \in Apps : depth[a] = 0) /\ updateDepth = Tracking

\* An application that has left owes nothing and tracks nothing, so the
\* next one to get a slot starts clean (session.c 180-202).
DeadOweNothing == \A a \in Apps \ live : ~Holds(a)

\* Whoever enters the lock from outside finds it free: no application starts
\* drawing while another one owns the screen (main.c 520-523).
EnteredFree ==
    [][\A a \in Apps : ~Holds(a) /\ Holds(a)' => updateDepth = 0]_vars

(***************************************************************************)
(* Another application's exit, exit by crash included, leaves a holder's    *)
(* share of the counter alone: as long as it holds, the desktop is frozen   *)
(* (SECURITY.md: disconnect unwinds only the owner's lock depth).           *)
(***************************************************************************)
HolderKeepsLock ==
    [][\A a \in Apps : Holds(a) /\ Holds(a)' => updateDepth' > 0]_vars

(***************************************************************************)
(* The counting lock implements the abstract one: the holder is whoever has *)
(* a count or a drag.                                                       *)
(***************************************************************************)
Holder == IF \E a \in Apps : Holds(a) THEN CHOOSE a \in Apps : Holds(a)
          ELSE Nobody

Screen == INSTANCE ScreenOwner WITH holder <- Holder

OwnsScreen == Screen!Spec
=============================================================================
