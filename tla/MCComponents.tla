---------------------------- MODULE MCComponents ----------------------------
(***************************************************************************)
(* Three components that share no state, each checked by itself in one run: *)
(* `part` says which one moves.  The Trash has two files and two names, one *)
(* of them on another file system; three processes are launched with two    *)
(* records and three ids; the VDI's screen has three cells, two of them     *)
(* under the pointer.                                                       *)
(***************************************************************************)
EXTENDS Trash, ShellLaunch, VdiScreen, TLC

CONSTANTS f1, f2,         \* files
          p1, p2, p3,     \* processes
          c1, c2          \* command lines

VARIABLE part

Symmetry == Permutations(Files) \cup Permutations(Commands)

ComponentsInit ==
    /\ part \in {"trash", "launch", "screen"}
    /\ Init /\ LaunchInit /\ ScreenInit
    /\ part # "trash" => kept = {}

ComponentsNext ==
    /\ \/ part = "trash" /\ Next /\ UNCHANGED <<launchVars, screenVars>>
       \/ part = "launch" /\ LaunchNext /\ UNCHANGED <<trashVars, screenVars>>
       \/ part = "screen" /\ ScreenNext /\ UNCHANGED <<trashVars, launchVars>>
    /\ UNCHANGED part

ComponentsSpec ==
    ComponentsInit /\ [][ComponentsNext]_<<part, trashVars, launchVars, screenVars>>
=============================================================================
