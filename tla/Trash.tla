------------------------------- MODULE Trash --------------------------------
(***************************************************************************)
(* The freedesktop Trash of the Desktop (gem_trash.c) over the moves, copies *)
(* and removals of the platform layer (os.c), one system call per step.     *)
(*                                                                          *)
(* An entry of a file system is a file of the user, whole or cut short; the *)
(* trees under it, its metadata and the text of its .trashinfo record are   *)
(* left out, a record being the name it restores to.  The Desktop runs one  *)
(* command at a time and may be killed between any two system calls; other  *)
(* programs create and remove files outside the Trash at any time, also     *)
(* under the names a command is at work on.                                  *)
(***************************************************************************)
EXTENDS Naturals, FiniteSets

CONSTANTS Names,      \* paths outside the Trash, all with one leaf name
          Near,       \* those on the file system of the Trash store
          Files,      \* the user's files, by content
          Absent,     \* no entry
          LastSuffix, \* 99999: the last suffix tried for a unique name
          MaxHidden   \* bound: hidden remnants at a time

Slots == 0..LastSuffix

VARIABLES tree,     \* entry under each name
          payload,  \* entries of <store>/files
          record,   \* entries of <store>/info
          hidden,   \* entries under a .gem-move-<pid>-<n> name
          task,     \* the command under way
          kept      \* files the program may not lose (history): those that
                    \* were there when its last command began, or came since
                    \* and not in the way of that command

trashVars == <<tree, payload, record, hidden, task, kept>>

Contents == [file : Files, whole : BOOLEAN]

ASSUME TrashAssumption ==
    /\ Absent \notin Contents /\ Absent \notin Names
    /\ LastSuffix \in Nat

Whole(f) == [file |-> f, whole |-> TRUE]
CutShort(entry) == [entry EXCEPT !.whole = FALSE]

Name(n) == [in |-> "tree", at |-> n]
Payload(k) == [in |-> "payload", at |-> k]
Places == {Name(n) : n \in Names} \cup {Payload(k) : k \in Slots}
Entry(p) == IF p.in = "tree" THEN tree[p.at] ELSE payload[p.at]

Idle == [verb |-> "idle"]
Verbs == {"put", "restore", "export", "copy", "move"}
Phases == {"record", "move", "rename", "create", "fill", "clash", "unstage",
           "discard", "cleanup", "moved", "failed"}

TypeOK ==
    /\ tree \in [Names -> Contents \cup {Absent}]
    /\ payload \in [Slots -> Contents \cup {Absent}]
    /\ record \in [Slots -> Names \cup {Absent}]
    /\ hidden \subseteq Contents
    /\ kept \subseteq Files
    /\ \/ task = Idle
       \/ task \in [verb : {"purge", "unlink"}, slot : Slots]
       \/ task \in [verb : Verbs, from : Places, to : Places, phase : Phases,
                    entry : Contents, slot : Slots]

Init ==
    /\ tree \in [Names -> {Whole(f) : f \in Files} \cup {Absent}]
    /\ \A m, n \in Names : m # n /\ tree[m] # Absent => tree[m] # tree[n]
    /\ payload = [k \in Slots |-> Absent]
    /\ record = [k \in Slots |-> Absent]
    /\ hidden = {}
    /\ task = Idle
    /\ kept = {f \in Files : \E n \in Names : tree[n] = Whole(f)}

\* Leaves entry e at place p.
Write(p, e) ==
    IF p.in = "tree" THEN tree' = [tree EXCEPT ![p.at] = e] /\ UNCHANGED payload
    ELSE payload' = [payload EXCEPT ![p.at] = e] /\ UNCHANGED tree

\* rename() of whatever is at p, to a place that is free.
Rename(p, q) ==
    LET Moved(n, in) == IF [in |-> in, at |-> n] = p THEN Absent
                        ELSE IF [in |-> in, at |-> n] = q THEN Entry(p)
                        ELSE Entry([in |-> in, at |-> n])
    IN  /\ tree' = [n \in Names |-> Moved(n, "tree")]
        /\ payload' = [k \in Slots |-> Moved(k, "payload")]

OnStore(p) == p.in = "payload" \/ p.at \in Near

\* rename() works within one file system and fails with EXDEV otherwise.
SameDevice(p, q) == OnStore(p) <=> OnStore(q)

-----------------------------------------------------------------------------
\* The files that lie whole under some name.
Lying == {f \in Files : \E p \in Places : Entry(p) = Whole(f)}

\* A command of the user begins.
Begin(verb, from, to, phase, k) ==
    /\ task = Idle
    /\ Entry(from) # Absent
    /\ task' = [verb |-> verb, from |-> from, to |-> to, phase |-> phase,
                entry |-> Entry(from), slot |-> k]
    /\ kept' = kept \cup Lying
    /\ UNCHANGED <<tree, payload, record, hidden>>

Free(k) == payload[k] = Absent /\ record[k] = Absent

\* gem_trash_unique_paths(): the first suffix with neither file nor record.
Unique(k) == Free(k) /\ \A j \in Slots : j < k => ~Free(j)

\* gem_trash_put(): first the record, then the move.
Put(n) == \E k \in Slots :
    Unique(k) /\ Begin("put", Name(n), Payload(k), "record", k)

\* What gem_trash_list() shows: records with something under their name.
Listed == {k \in Slots : record[k] # Absent /\ payload[k] # Absent}

\* gem_trash_restore_to(): the recorded name or, when that is taken,
\* gem_trash_restore_renamed()'s first free one.
Restore(k, n) ==
    /\ k \in Listed
    /\ tree[n] = Absent
    /\ record[k] = n \/ tree[record[k]] # Absent
    /\ Begin("restore", Payload(k), Name(n), "move", k)

\* gem_trash_export() of a cut or copied Trash item.
Export(k, n) ==
    /\ k \in Listed
    /\ tree[n] = Absent
    /\ \/ Begin("export", Payload(k), Name(n), "move", k)
       \/ Begin("copy", Payload(k), Name(n), "create", k)

\* clipboard_paste() and the Rename dialog, outside the Trash.
Paste(m, n) ==
    /\ tree[n] = Absent
    /\ \/ Begin("move", Name(m), Name(n), "move", 0)
       \/ Begin("copy", Name(m), Name(n), "create", 0)

\* gem_trash_purge(); gem_trash_empty() purges every listed item in turn.
Purge(k) ==
    /\ task = Idle
    /\ k \in Listed
    /\ task' = [verb |-> "purge", slot |-> k]
    /\ kept' = (kept \cup Lying) \ {f \in Files : payload[k] = Whole(f)}
    /\ UNCHANGED <<tree, payload, record, hidden>>

-----------------------------------------------------------------------------
At(phase) == task.verb \in Verbs /\ task.phase = phase
Goto(phase) == task' = [task EXCEPT !.phase = phase]

\* gem_os_write_file_atomic(): there after its rename, or not at all.
WriteRecord ==
    /\ At("record")
    /\ \/ record' = [record EXCEPT ![task.slot] = task.from.at] /\ Goto("move")
       \/ record' = record /\ task' = Idle
    /\ UNCHANGED <<tree, payload, hidden, kept>>

(***************************************************************************)
(* gem_os_move_path(): a rename that replaces nothing or, where the kernel  *)
(* has no such rename, a look at the destination and then, a call later, a  *)
(* plain one.  Across file systems the source first goes under a hidden     *)
(* name beside itself.  What is moved is what is at the source by then.     *)
(***************************************************************************)
Stage ==
    /\ Entry(task.from) # Absent /\ ~SameDevice(task.from, task.to)
    /\ Cardinality(hidden) < MaxHidden
    /\ hidden' = hidden \cup {Entry(task.from)}
    /\ Write(task.from, Absent)
    /\ task' = [task EXCEPT !.entry = Entry(task.from), !.phase = "create"]

Relocate ==
    /\ Entry(task.from) # Absent /\ SameDevice(task.from, task.to)
    /\ Rename(task.from, task.to)
    /\ Goto("moved") /\ UNCHANGED hidden

MoveBegin ==
    /\ At("move")
    /\ \/ Entry(task.to) = Absent /\ Relocate
       \/ Stage
       \/ /\ Entry(task.to) = Absent
          /\ Goto("rename") /\ UNCHANGED <<tree, payload, hidden>>
       \/ Goto("failed") /\ UNCHANGED <<tree, payload, hidden>>
    /\ UNCHANGED <<record, kept>>

MoveRename ==
    /\ At("rename")
    /\ \/ Relocate
       \/ Stage
       \/ Goto("failed") /\ UNCHANGED <<tree, payload, hidden>>
    /\ UNCHANGED <<record, kept>>

\* The copy under way is the second half of a move.
Moving == task.verb # "copy"

\* Where a failed copy goes on: a move gives the source its name back first.
\* What fails by EEXIST leaves the destination alone.
Failed == Goto(IF Moving THEN "unstage" ELSE "discard")
Clashed == Goto(IF Moving THEN "clash" ELSE "failed")

\* gem_os_copy_entry_path() opens its source, then its destination with O_EXCL.
\* When it fails otherwise, what another program has put there meanwhile is
\* taken for the copy's own leftovers, and its safety forfeited.
CopyCreate ==
    LET original == IF Moving THEN task.entry ELSE Entry(task.from)
    IN  /\ At("create")
        /\ \/ /\ original # Absent /\ Entry(task.to) = Absent
              /\ Write(task.to, CutShort(original))
              /\ task' = [task EXCEPT !.entry = original, !.phase = "fill"]
              /\ UNCHANGED kept
           \/ /\ original # Absent /\ Entry(task.to) # Absent
              /\ Clashed /\ UNCHANGED <<tree, payload, kept>>
           \/ /\ Failed /\ UNCHANGED <<tree, payload>>
              /\ kept' = kept \ {f \in Files : Entry(task.to) = Whole(f)}
        /\ UNCHANGED <<record, hidden>>

\* The data go to the entry created, which may have lost its name; a copy that
\* fails unlinks the name, whatever is there, or leaves a tree half copied.
CopyFill ==
    /\ At("fill")
    /\ \/ /\ IF Entry(task.to) = CutShort(task.entry) THEN Write(task.to, task.entry)
             ELSE UNCHANGED <<tree, payload>>
          /\ Goto(IF Moving THEN "cleanup" ELSE "moved")
       \/ /\ Write(task.to, Absent) \/ UNCHANGED <<tree, payload>>
          /\ Failed
       \/ Clashed /\ UNCHANGED <<tree, payload>>
    /\ UNCHANGED <<record, hidden, kept>>

\* Mutant: the staged original goes as soon as the copy has failed.
UnstageDrops ==
    /\ At("clash") \/ At("unstage")
    /\ hidden' = hidden \ {task.entry}
    /\ Goto(IF At("clash") THEN "failed" ELSE "discard")
    /\ UNCHANGED <<tree, payload, record, kept>>

\* The failed copy of a move: rename(temporary, old_path), which replaces what
\* is there by then and whose own failure is ignored.
Unstage ==
    /\ At("clash") \/ At("unstage")
    /\ \/ hidden' = hidden \ {task.entry} /\ Write(task.from, task.entry)
       \/ UNCHANGED <<hidden, tree, payload>>
    /\ Goto(IF At("clash") THEN "failed" ELSE "discard")
    /\ UNCHANGED <<record, kept>>

\* gem_os_remove_tree_under() of the destination, whatever is there: it goes,
\* resists, or goes in part.
Discard ==
    /\ At("discard")
    /\ \/ Write(task.to, Absent)
       \/ Entry(task.to) # Absent /\ Write(task.to, CutShort(Entry(task.to)))
       \/ UNCHANGED <<tree, payload>>
    /\ Goto("failed")
    /\ UNCHANGED <<record, hidden, kept>>

\* The staged source of a finished move goes, or stays hidden, in part or whole.
Cleanup ==
    /\ At("cleanup")
    /\ \E left \in {{}, {task.entry}, {CutShort(task.entry)}} :
          hidden' = (hidden \ {task.entry}) \cup left
    /\ Goto("moved")
    /\ UNCHANGED <<tree, payload, record, kept>>

Unlink(k) == record' = [record EXCEPT ![k] = Absent] /\ task' = Idle
Keep == record' = record /\ task' = Idle

\* gem_trash_put() takes the record back; other failures leave it alone.
EndFailed ==
    /\ At("failed")
    /\ Keep \/ (task.verb = "put" /\ Unlink(task.slot))
    /\ UNCHANGED <<tree, payload, hidden, kept>>

\* What left the Trash loses its record; a cut item whose record cannot be
\* unlinked is moved back.
EndMoved ==
    /\ At("moved")
    /\ \/ task.verb \in {"put", "copy", "move"} /\ Keep
       \/ task.verb \in {"restore", "export"} /\ Unlink(task.slot)
       \/ task.verb = "restore" /\ Keep
       \/ /\ task.verb = "export"
          /\ task' = [task EXCEPT !.verb = "move", !.from = task.to,
                                  !.to = task.from, !.phase = "move"]
          /\ UNCHANGED record
    /\ UNCHANGED <<tree, payload, hidden, kept>>

\* Mutant: the record goes before what it describes.
PurgeRecordFirst ==
    /\ \/ /\ task.verb = "purge"
          /\ record' = [record EXCEPT ![task.slot] = Absent]
          /\ task' = [task EXCEPT !.verb = "unlink"] /\ UNCHANGED payload
       \/ /\ task.verb = "unlink"
          /\ payload' = [payload EXCEPT ![task.slot] = Absent]
          /\ UNCHANGED record /\ task' = Idle
    /\ UNCHANGED <<tree, hidden, kept>>

\* gem_os_remove_tree_under() may stop half way, and then the record stays.
PurgeStep ==
    /\ \/ /\ task.verb = "purge"
          /\ \/ /\ payload' = [payload EXCEPT ![task.slot] = Absent]
                /\ task' = [task EXCEPT !.verb = "unlink"]
             \/ /\ payload' = [payload EXCEPT ![task.slot] = CutShort(@)]
                /\ task' = Idle
          /\ UNCHANGED record
       \/ /\ task.verb = "unlink"
          /\ Keep \/ Unlink(task.slot)
          /\ UNCHANGED payload
    /\ UNCHANGED <<tree, hidden, kept>>

\* The Desktop is killed.
Crash ==
    /\ task # Idle
    /\ task' = Idle
    /\ UNCHANGED <<tree, payload, record, hidden, kept>>

-----------------------------------------------------------------------------
(***************************************************************************)
(* Another program creates or removes a file, at any time.  The file it     *)
(* creates may be lost to the command under way (Endangered) under the name *)
(* of a destination that was found free and is about to be renamed over,    *)
(* that is being written or that a failed copy will remove, and under the   *)
(* name of a staged source, which a failed copy renames back.               *)
(***************************************************************************)
Endangered(n) ==
    /\ task.verb \in Verbs
    /\ \/ task.to = Name(n) /\ task.phase \in {"rename", "fill", "unstage", "discard"}
       \/ /\ task.from = Name(n) /\ Moving
          /\ task.phase \in {"create", "fill", "clash", "unstage"}

Create(n, f) ==
    /\ tree[n] = Absent
    /\ Whole(f) \notin hidden /\ f \notin Lying
    /\ tree' = [tree EXCEPT ![n] = Whole(f)]
    /\ kept' = IF Endangered(n) THEN kept ELSE kept \cup {f}
    /\ UNCHANGED <<payload, record, hidden, task>>

Remove(n) ==
    /\ tree[n] # Absent
    /\ tree' = [tree EXCEPT ![n] = Absent]
    /\ kept' = kept \ {tree[n].file}
    /\ UNCHANGED <<payload, record, hidden, task>>

\* The user finds a hidden remnant and deletes it.
RemoveHidden(e) ==
    /\ task = Idle
    /\ e \in hidden
    /\ hidden' = hidden \ {e}
    /\ kept' = kept \ {e.file}
    /\ UNCHANGED <<tree, payload, record, task>>

Next ==
    \/ \E n \in Names : \/ Put(n) \/ Remove(n)
                        \/ \E m \in Names : Paste(m, n)
                        \/ \E k \in Slots : Restore(k, n) \/ Export(k, n)
                        \/ \E f \in Files : Create(n, f)
    \/ \E k \in Slots : Purge(k)
    \/ \E e \in hidden : RemoveHidden(e)
    \/ WriteRecord \/ MoveBegin \/ MoveRename \/ CopyCreate \/ CopyFill \/ Unstage
    \/ Discard \/ Cleanup \/ EndFailed \/ EndMoved \/ PurgeStep \/ Crash

Spec == Init /\ [][Next]_trashVars

-----------------------------------------------------------------------------
(***************************************************************************)
(* No failure, race or crash loses a file that was there when the command   *)
(* began, or that another program made outside its way, unless somebody     *)
(* deletes it for good: it exists whole, under some name (os.c 1267-1326).  *)
(***************************************************************************)
NothingLost ==
    \A f \in kept : \/ \E p \in Places : Entry(p) = Whole(f)
                    \/ Whole(f) \in hidden

\* Whatever lies whole in the Trash is listed there, and so can be restored
\* (gem_trash.c 408-415 writes the record before the move).
TrashIsListed == \A k \in Slots : payload[k] # Absent /\ payload[k].whole => k \in Listed
=============================================================================
