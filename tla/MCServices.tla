----------------------------- MODULE MCServices -----------------------------
(***************************************************************************)
(* Four services of gemd that share no state, each checked by itself in     *)
(* one run: `part` says which one moves.  The update lock has three         *)
(* applications and four nested updates; a client makes five calls on two   *)
(* connections, with two call-backs in a drawing; desktop.cfg is replaced   *)
(* four times; a screen of three rows of four bytes is copied to itself.    *)
(***************************************************************************)
EXTENDS UpdateLock, RpcTransport, RasterCopy

CONSTANTS a1, a2, a3, l1, l2, NoLocation

VARIABLES part,
          file, cache, seen, gemdStep, asked, hooked, selected, changed, shown,
          unsaved

Config == INSTANCE DesktopConfig WITH
    Locations <- {l1, l2}, MaxSaves <- 4, MaxAsked <- 2, Overlap <- FALSE

configVars == <<file, cache, seen, gemdStep, asked, hooked, selected, changed,
                shown, unsaved>>
serviceVars == <<vars, part, transportVars, configVars, copyVars>>

\* Where there is nothing to copy.
NoCopy == copy = <<>> /\ pixels = <<>> /\ done = FALSE

ServicesInit ==
    /\ \/ part \in {"lock", "transport", "config"} /\ NoCopy
       \/ part = "copy" /\ CopyInit
    /\ Init /\ TransportInit /\ Config!Init
    /\ part # "config" => file.locations = {}

ServicesNext ==
    /\ \/ /\ part = "lock" /\ Next
          /\ UNCHANGED <<transportVars, configVars, copyVars>>
       \/ /\ part = "transport" /\ TransportNext
          /\ UNCHANGED <<vars, configVars, copyVars>>
       \/ /\ part = "config" /\ Config!Next
          /\ UNCHANGED <<vars, transportVars, copyVars>>
       \/ /\ part = "copy" /\ CopyNext
          /\ UNCHANGED <<vars, transportVars, configVars>>
    /\ UNCHANGED part

\* A service that does not move has nothing to do that fairness would demand.
ServicesSpec ==
    /\ ServicesInit /\ [][ServicesNext]_serviceVars
    /\ TransportFairness /\ Config!Fairness

\* Every variable keeps its type.
ServicesTypeOK == TypeOK /\ TransportTypeOK /\ Config!TypeOK

\* The Desktop's icons end up being the locations of desktop.cfg.
Converges == Config!Converges
=============================================================================
