------------------------------ MODULE FatVolume ------------------------------
(***************************************************************************)
(* A writable .ST disk image (lib/stout/disk_write.c over lib/fat12): the   *)
(* allocation table, the fixed root directory and directories in cluster    *)
(* chains of their own, one level deep here.                                *)
(*                                                                          *)
(* A file's bytes are one block per cluster; names are 8.3 names already    *)
(* parsed; attributes and dates are left out.  Every operation works on the *)
(* image in memory, writes the image file atomically and, on any failure,   *)
(* puts the image back from a backup: a step either replaces the image or   *)
(* leaves it.  The copies of the table, always written together, are one.   *)
(***************************************************************************)
EXTENDS Naturals, Sequences, SequencesExt, FiniteSets, FiniteSetsExt

CONSTANTS Names,        \* names of files and directories
          Blocks,       \* contents of a cluster
          Contents,     \* sequences of blocks that are written
          RootEntries,  \* slots of the root directory
          PerCluster,   \* slots of a directory cluster, more than two
          LastCluster,
          Absent, Directory

Clusters == 2..LastCluster
Unused == 0
EndOfChain == 4095

EndSlot == [kind |-> "end"]          \* first byte 0x00
DeletedSlot == [kind |-> "deleted"]  \* first byte 0xe5
DotSlot == [kind |-> "dot"]

VARIABLES image,    \* stout_disk_t.data: table, clusters and root directory
          readable, \* what is read back from it under each path
          done      \* the operation that succeeded last

EmptySlots(n) == [i \in 1..n |-> EndSlot]

Paths == {<<n>> : n \in Names} \cup (Names \X Names)

EmptyImage == [fat |-> [c \in Clusters |-> Unused],
               data |-> [c \in Clusters |-> <<>>],
               root |-> EmptySlots(RootEntries)]

-----------------------------------------------------------------------------
\* The clusters of the chain that starts at c, at most all of them.
Chain(img, c) ==
    LET chain[n \in 0..Cardinality(Clusters), d \in Clusters \cup {Unused, EndOfChain}] ==
            IF n = 0 \/ d \notin Clusters THEN <<>>
            ELSE <<d>> \o chain[n - 1, img.fat[d]]
    IN  chain[Cardinality(Clusters), c]

FreeClusters(img) == {c \in Clusters : img.fat[c] = Unused}

\* stout_disk_alloc_cluster() takes the lowest: n of them in ascending order.
Lowest(img, n) == SubSeq(SetToSortSeq(FreeClusters(img), <), 1, n)

\* stout_disk_free_chain(); what an unused cluster still holds is left out.
Freed(img, c) ==
    LET freed == ToSet(Chain(img, c))
    IN  [img EXCEPT
            !.fat = [d \in Clusters |-> IF d \in freed THEN Unused ELSE img.fat[d]],
            !.data = [d \in Clusters |-> IF d \in freed THEN <<>> ELSE img.data[d]]]

\* Links the clusters of a sequence into a chain.
Linked(img, seq) ==
    [img EXCEPT !.fat = [d \in Clusters |->
        IF \E i \in 1..Len(seq) : seq[i] = d
        THEN LET i == CHOOSE j \in 1..Len(seq) : seq[j] = d
             IN  IF i < Len(seq) THEN seq[i + 1] ELSE EndOfChain
        ELSE img.fat[d]]]

-----------------------------------------------------------------------------
\* The places of the slots of a directory; cluster zero stands for the root.
Places(img, dir) ==
    IF dir = 0 THEN [i \in 1..RootEntries |-> <<0, i>>]
    ELSE LET chain == Chain(img, dir)
         IN  [k \in 1..(Len(chain) * PerCluster) |->
                 <<chain[((k - 1) \div PerCluster) + 1],
                   ((k - 1) % PerCluster) + 1>>]

Slot(img, place) == IF place[1] = 0 THEN img.root[place[2]]
                    ELSE img.data[place[1]][place[2]]

SetSlot(img, place, slot) ==
    IF place[1] = 0 THEN [img EXCEPT !.root[place[2]] = slot]
    ELSE [img EXCEPT !.data[place[1]][place[2]] = slot]

IsEntry(slot) == slot.kind \in {"file", "directory"}

\* stout_disk_find_region(): nothing is looked at beyond an end slot.
Found(img, dir, name) ==
    LET places == Places(img, dir)
    IN  {places[k] : k \in {k \in DOMAIN places :
            /\ IsEntry(Slot(img, places[k]))
            /\ Slot(img, places[k]).name = name
            /\ \A j \in 1..(k - 1) : Slot(img, places[j]) # EndSlot}}

Vacant(img, dir) ==
    LET places == Places(img, dir)
    IN  {k \in DOMAIN places : Slot(img, places[k]) \in {EndSlot, DeletedSlot}}

\* Mutant: the new cluster is not linked behind the last one.
ExtendedLoose(img, dir) ==
    LET new == Min(FreeClusters(img))
    IN  [Linked(img, <<new>>) EXCEPT !.data[new] = EmptySlots(PerCluster)]

\* A full directory grows by one cleared cluster.
Extended(img, dir) ==
    LET new == Min(FreeClusters(img))
    IN  [Linked(img, <<Last(Chain(img, dir)), new>>)
            EXCEPT !.data[new] = EmptySlots(PerCluster)]

(***************************************************************************)
(* stout_disk_find_entry() for writing: where the entry of that name is or  *)
(* goes, with the image after a growth; none when there is no room.         *)
(***************************************************************************)
Room(img, dir, name) ==
    IF Found(img, dir, name) # {}
    THEN {[img |-> img, at |-> p] : p \in Found(img, dir, name)}
    ELSE IF Vacant(img, dir) # {}
    THEN {[img |-> img, at |-> Places(img, dir)[Min(Vacant(img, dir))]]}
    ELSE IF dir # 0 /\ FreeClusters(img) # {}
    THEN {[img |-> Extended(img, dir), at |-> <<Min(FreeClusters(img)), 1>>]}
    ELSE {}

\* stout_disk_make_directory() of a name that is not there yet.
WithDirectory(img, name) ==
    {LET new == Min(FreeClusters(r.img))
         slots == <<DotSlot, DotSlot>> \o EmptySlots(PerCluster - 2)
     IN  SetSlot([Linked(r.img, <<new>>) EXCEPT !.data[new] = slots], r.at,
                 [kind |-> "directory", name |-> name, first |-> new])
       : r \in {s \in Room(img, 0, name) : FreeClusters(s.img) # {}}}

\* stout_disk_parent(): the directory a path is in, as an image and a cluster.
Parent(img, path) ==
    IF Len(path) = 1 THEN {0}
    ELSE {Slot(img, p).first : p \in {p \in Found(img, 0, path[1]) :
                                        Slot(img, p).kind = "directory"}}

Leaf(path) == Last(path)
Missing(img, path) == Len(path) = 2 /\ Found(img, 0, path[1]) = {}

\* Mutant: the old chain stays allocated when a file is replaced.
WrittenOver(img, room, name, content) ==
    LET clusters == Lowest(img, Len(content))
        linked == Linked(img, clusters)
        filled == [linked EXCEPT !.data = [c \in Clusters |->
                      IF c \in ToSet(clusters)
                      THEN content[CHOOSE i \in 1..Len(content) : clusters[i] = c]
                      ELSE linked.data[c]]]
    IN  SetSlot(filled, room,
                [kind |-> "file", name |-> name, size |-> Len(content),
                 first |-> IF content = <<>> THEN 0 ELSE clusters[1]])

\* The clusters of the content, then the entry that leads to them.
Written(img, room, name, content) ==
    LET old == Slot(img, room)
        base == IF old.kind = "file" THEN Freed(img, old.first) ELSE img
    IN  WrittenOver(base, room, name, content)

-----------------------------------------------------------------------------
FreeAfter(img, room) ==
    Cardinality(FreeClusters(img)) +
        (IF Slot(img, room).kind = "file"
         THEN Len(Chain(img, Slot(img, room).first)) ELSE 0)

\* stout_disk_write_path(), with the directory it may have to make.
WritePath(path, content) ==
    \E img \in IF Missing(image, path) THEN WithDirectory(image, path[1])
               ELSE {image} :
    \E dir \in Parent(img, path) :
    \E r \in Room(img, dir, Leaf(path)) :
        /\ Slot(r.img, r.at).kind # "directory"
        /\ Len(content) <= FreeAfter(r.img, r.at)
        /\ image' = Written(r.img, r.at, Leaf(path), content)
        /\ done' = <<"write", path, content>>

\* stout_disk_delete_path(): files only.
DeletePath(path) ==
    \E dir \in Parent(image, path) : \E p \in Found(image, dir, Leaf(path)) :
        /\ Slot(image, p).kind = "file"
        /\ image' = SetSlot(Freed(image, Slot(image, p).first), p, DeletedSlot)
        /\ done' = <<"delete", path>>

(***************************************************************************)
(* stout_disk_rename_path(): within a directory the name is overwritten in  *)
(* place; a file that moves to another one gets an entry there first.       *)
(***************************************************************************)
RenamePath(old, new) ==
    \E from \in Parent(image, old), to \in Parent(image, new) :
    \E p \in Found(image, from, Leaf(old)) :
        LET renamed == [Slot(image, p) EXCEPT !.name = Leaf(new)]
        IN  /\ Found(image, to, Leaf(new)) = {}
            /\ \/ /\ from = to
                  /\ image' = SetSlot(image, p, renamed)
               \/ /\ from # to
                  /\ Slot(image, p).kind = "file"
                  /\ \E r \in Room(image, to, Leaf(new)) :
                        image' = SetSlot(SetSlot(r.img, r.at, renamed), p,
                                         DeletedSlot)
              /\ done' = <<"rename", old, new>>

\* stout_disk_create_directory().
CreateDirectory(name) ==
    /\ Found(image, 0, name) = {}
    /\ \E img \in WithDirectory(image, name) : image' = img
    /\ done' = <<"make", <<name>>>>

Operation ==
    \E path \in Paths : \/ \E content \in Contents : WritePath(path, content)
                        \/ DeletePath(path)
                        \/ \E new \in Paths : RenamePath(path, new)
                        \/ Len(path) = 1 /\ CreateDirectory(path[1])

(***************************************************************************)
(* stout_disk_read_path() and stout_disk_directory_exists(): the size in    *)
(* the entry, read along its chain.                                         *)
(***************************************************************************)
ReadPath(img, path) ==
    LET places == UNION {Found(img, dir, Leaf(path)) : dir \in Parent(img, path)}
        Read(slot) == LET chain == Chain(img, slot.first)
                      IN  IF slot.kind = "directory" THEN Directory
                          ELSE IF Len(chain) < slot.size THEN Absent
                          ELSE [i \in 1..slot.size |-> img.data[chain[i]]]
    IN  IF places = {} THEN Absent ELSE Read(Slot(img, CHOOSE p \in places : TRUE))

Init ==
    /\ image = EmptyImage
    /\ readable = [path \in Paths |-> Absent]
    /\ done = <<>>

Next ==
    /\ Operation
    /\ readable' = [path \in Paths |-> ReadPath(image', path)]

volumeVars == <<image, readable, done>>

Spec == Init /\ [][Next]_volumeVars

-----------------------------------------------------------------------------
\* The places of all entries, in the root and in each directory of it.
RootPlaces == ToSet(Places(image, 0))
EntryPlaces ==
    {p \in RootPlaces \cup UNION {ToSet(Places(image, Slot(image, q).first)) :
           q \in {q \in RootPlaces : Slot(image, q).kind = "directory"}} :
        IsEntry(Slot(image, p))}

(***************************************************************************)
(* The volume stays sound over every order of operations: chains end, share *)
(* no cluster, are as long as their file, and every allocated cluster is on *)
(* one -- the space of what was replaced, deleted or failed comes back.     *)
(***************************************************************************)
SoundVolume ==
    LET ChainAt(p) == Chain(image, Slot(image, p).first)
    IN  /\ \A p \in EntryPlaces :
              LET chain == ChainAt(p)
              IN  /\ chain # <<>> => image.fat[Last(chain)] = EndOfChain
                  /\ Slot(image, p).kind = "file" => Len(chain) = Slot(image, p).size
                  /\ \A q \in EntryPlaces \ {p} :
                         ToSet(chain) \cap ToSet(ChainAt(q)) = {}
        /\ Clusters \ FreeClusters(image)
              = UNION {ToSet(ChainAt(p)) : p \in EntryPlaces}

\* What is read through the table and the directories is what a store of
\* files by path would hold: an operation that succeeds does there what it was
\* asked, to its own paths and no other, and one that fails nothing.
Store == INSTANCE FileStore WITH tree <- readable

ImplementsStore == Store!Spec
=============================================================================
