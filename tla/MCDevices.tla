----------------------------- MODULE MCDevices -----------------------------
(***************************************************************************)
(* Three components that share no state, each checked by itself in one run: *)
(* `part` says which one moves.  The disk image has three clusters and two  *)
(* root entries; two applications share a keyboard of one key; the Terminal *)
(* takes five control sequences on four rows, in a window of two sizes.     *)
(***************************************************************************)
EXTENDS Terminal, InputQueue

CONSTANTS Absent, Directory

VARIABLES part,
          image, readable, done

TwoSizes == {<<3, 1>>, <<2, 2>>}

Volume == INSTANCE FatVolume WITH
    Names <- {"a", "b"}, Blocks <- {"x", "y"},
    Contents <- {<<>>, <<"x">>, <<"y", "x">>},
    RootEntries <- 2, PerCluster <- 3, LastCluster <- 4

volumeVars == <<image, readable, done>>

DevicesInit ==
    /\ part \in {"volume", "keyboard", "terminal"}
    /\ Volume!Init /\ InputInit /\ Init
    /\ part # "terminal" => term.rows = 3

DevicesNext ==
    /\ \/ /\ part = "volume" /\ Volume!Next
          /\ UNCHANGED <<inputVars, terminalVars>>
       \/ /\ part = "keyboard" /\ InputNext
          /\ UNCHANGED <<volumeVars, terminalVars>>
       \/ /\ part = "terminal" /\ Next
          /\ UNCHANGED <<volumeVars, inputVars>>
    /\ UNCHANGED part

DevicesSpec ==
    DevicesInit /\ [][DevicesNext]_<<part, volumeVars, inputVars, terminalVars>>

\* The volume's chains are disjoint, end, and hold every allocated cluster.
SoundVolume == part = "volume" => Volume!SoundVolume

\* Reading the image back yields a store of files by path.
ImplementsStore == Volume!ImplementsStore
=============================================================================
