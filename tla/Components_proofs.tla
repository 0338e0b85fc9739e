--------------------------- MODULE Components_proofs ---------------------------
(***************************************************************************)
(* What was proved of two components that share no state: no crash, failure *)
(* or race of the Desktop's Trash loses a file, for any set of names, files *)
(* and suffixes; and applications launched at once read their own commands, *)
(* for any number of processes, launch records and ids.                     *)
(***************************************************************************)
EXTENDS Trash, ShellLaunch, WellFoundedInduction, TLAPS

-----------------------------------------------------------------------------
(* The Trash.  TrashInv, the inductive invariant, says for every phase of   *)
(* the command under way what may be lost at its two places:                *)
(*   Route     where the command goes from and to, and whose slot it is     *)
(*   Source    a source that was staged is hidden, and what stands under    *)
(*             its name since then was not promised to anybody              *)
(*   Target    what the command may still replace or remove at the          *)
(*             destination was not promised either; a copy that was is      *)
(*             where the move put it                                        *)
(*   Recorded  a place in the Trash that it uses has its record             *)
(*   Removing  what is being removed for good is nobody's file any more     *)

Moves == [verb : Verbs, from : Places, to : Places, phase : Phases,
             entry : Contents, slot : Slots]
Removals == [verb : {"purge", "unlink"}, slot : Slots]

Route ==
    /\ task.from # task.to
    /\ task.verb = "put" => task.from.in = "tree" /\ task.to = Payload(task.slot)
    /\ task.verb \in {"restore", "export"} =>
          task.from = Payload(task.slot) /\ task.to.in = "tree"
    /\ task.phase = "record" => task.verb = "put"

\* No file that may not be lost stands whole at place p.
Unpromised(p) == \A f \in kept : Entry(p) # Whole(f)

NotWholeAt(p) == \A f \in Files : Entry(p) # Whole(f)

Staged == {"create", "fill", "clash", "unstage"}

Source ==
    /\ task.phase \in Staged /\ Moving =>
          /\ task.entry \in hidden /\ Unpromised(task.from)
          /\ task.from.in = "payload" => Entry(task.from) = Absent
    /\ task.phase \in {"clash", "unstage", "cleanup"} => Moving
    /\ task.phase = "cleanup" => task.entry \in hidden
    /\ task.phase \in {"cleanup", "moved"} /\ Moving /\ task.from.in = "payload" =>
          Entry(task.from) = Absent

\* The entry of a move that may not be lost is, at its destination, e.
Arrived(e) == (\E f \in kept : task.entry = Whole(f)) => Entry(task.to) = e

Target ==
    /\ task.phase \in {"record", "move", "rename", "create"} /\ task.to.in = "payload" =>
          Entry(task.to) = Absent
    /\ task.phase \in {"rename", "fill", "unstage", "discard"} => Unpromised(task.to)
    /\ task.phase \in {"fill", "clash", "unstage", "discard", "failed"}
       /\ task.to.in = "payload" => NotWholeAt(task.to)
    /\ task.phase = "fill" /\ Moving => Arrived(CutShort(task.entry))
    /\ task.phase = "cleanup" => Arrived(task.entry)

Recorded ==
    task.phase # "record" =>
       \A k \in Slots : Payload(k) \in {task.from, task.to} => record[k] # Absent

Flight == task.verb \in Verbs => Route /\ Source /\ Target /\ Recorded

Removing ==
    /\ task.verb = "purge" =>
          /\ payload[task.slot] # Absent
          /\ \A f \in kept : payload[task.slot] # Whole(f)
    /\ task.verb = "unlink" => payload[task.slot] = Absent

TrashInv == TypeOK /\ NothingLost /\ TrashIsListed /\ Flight /\ Removing

-----------------------------------------------------------------------------
(* Places and what is in them.                                              *)

\* A place is a name or a slot, never both.
LEMMA PlaceFacts ==
    /\ \A n \in Names : Name(n) \in Places /\ Name(n).in = "tree" /\ Name(n).at = n
    /\ \A k \in Slots : Payload(k) \in Places /\ Payload(k).in = "payload"
                        /\ Payload(k).at = k
    /\ \A p \in Places :
          \/ p.in = "tree" /\ p.at \in Names /\ p = Name(p.at)
          \/ p.in = "payload" /\ p.at \in Slots /\ p = Payload(p.at)
<1>1. ASSUME NEW n \in Names
      PROVE  Name(n) \in Places /\ Name(n).in = "tree" /\ Name(n).at = n
  <2>1. Name(n) \in Places
    BY DEF Places
  <2> QED
    BY <2>1 DEF Name
<1>2. ASSUME NEW k \in Slots
      PROVE  Payload(k) \in Places /\ Payload(k).in = "payload" /\ Payload(k).at = k
  <2>1. Payload(k) \in Places
    BY DEF Places
  <2> QED
    BY <2>1 DEF Payload
<1>3. ASSUME NEW p \in Places
      PROVE  \/ p.in = "tree" /\ p.at \in Names /\ p = Name(p.at)
             \/ p.in = "payload" /\ p.at \in Slots /\ p = Payload(p.at)
  <2>1. (\E n \in Names : p = Name(n)) \/ (\E k \in Slots : p = Payload(k))
    BY DEF Places
  <2> QED
    BY <1>1, <1>2, <2>1
<1> QED
  BY <1>1, <1>2, <1>3

\* An entry is one of Contents or none.
LEMMA EntryType ==
    ASSUME TypeOK, NEW p \in Places
    PROVE  Entry(p) \in Contents \cup {Absent}
<1>1. tree \in [Names -> Contents \cup {Absent}] /\ payload \in [Slots -> Contents \cup {Absent}]
  BY DEF TypeOK
<1>2. p.in = "tree" => p.at \in Names
  BY PlaceFacts
<1>3. p.in # "tree" => p.at \in Slots
  BY PlaceFacts
<1> QED
  BY <1>1, <1>2, <1>3 DEF Entry

\* What is written is there, and nothing else changes.
LEMMA WriteFacts ==
    ASSUME TypeOK, NEW p \in Places, NEW e \in Contents \cup {Absent}, Write(p, e)
    PROVE  /\ tree' \in [Names -> Contents \cup {Absent}]
           /\ payload' \in [Slots -> Contents \cup {Absent}]
           /\ \A q \in Places : Entry(q)' = IF q = p THEN e ELSE Entry(q)
<1>1. tree \in [Names -> Contents \cup {Absent}] /\ payload \in [Slots -> Contents \cup {Absent}]
  BY DEF TypeOK
<1>2. CASE p.in = "tree"
  <2>1. tree' = [tree EXCEPT ![p.at] = e] /\ payload' = payload
    BY <1>2 DEF Write
  <2>2. p.at \in Names /\ p = Name(p.at)
    BY <1>2, PlaceFacts
  <2>3. ASSUME NEW q \in Places PROVE Entry(q)' = IF q = p THEN e ELSE Entry(q)
    <3>1. CASE q.in = "tree"
      <4>1. q.at \in Names /\ q = Name(q.at)
        BY <3>1, PlaceFacts
      <4>2. q = p <=> q.at = p.at
        BY <4>1, <2>2
      <4> QED
        BY <1>1, <2>1, <2>2, <3>1, <4>1, <4>2 DEF Entry
    <3>2. CASE q.in # "tree"
      BY <1>2, <2>1, <3>2 DEF Entry
    <3> QED
      BY <3>1, <3>2
  <2> QED
    BY <1>1, <2>1, <2>2, <2>3
<1>3. CASE p.in # "tree"
  <2>1. payload' = [payload EXCEPT ![p.at] = e] /\ tree' = tree
    BY <1>3 DEF Write
  <2>2. p.at \in Slots /\ p = Payload(p.at)
    BY <1>3, PlaceFacts
  <2>3. ASSUME NEW q \in Places PROVE Entry(q)' = IF q = p THEN e ELSE Entry(q)
    <3>1. CASE q.in # "tree"
      <4>1. q.at \in Slots /\ q = Payload(q.at)
        BY <3>1, PlaceFacts
      <4>2. q = p <=> q.at = p.at
        BY <4>1, <2>2
      <4> QED
        BY <1>1, <2>1, <2>2, <3>1, <4>1, <4>2 DEF Entry
    <3>2. CASE q.in = "tree"
      BY <1>3, <2>1, <3>2 DEF Entry
    <3> QED
      BY <3>1, <3>2
  <2> QED
    BY <1>1, <2>1, <2>2, <2>3
<1> QED
  BY <1>2, <1>3

\* A rename moves one entry.
LEMMA RenameFacts ==
    ASSUME TypeOK, NEW p \in Places, NEW t \in Places, Rename(p, t)
    PROVE  /\ tree' \in [Names -> Contents \cup {Absent}]
           /\ payload' \in [Slots -> Contents \cup {Absent}]
           /\ \A q \in Places : Entry(q)' = IF q = p THEN Absent
                                            ELSE IF q = t THEN Entry(p) ELSE Entry(q)
<1>1. \A q \in Places : Entry(q) \in Contents \cup {Absent}
  BY EntryType
<1> DEFINE After(q) == IF q = p THEN Absent ELSE IF q = t THEN Entry(p) ELSE Entry(q)
<1>2. tree' = [n \in Names |-> After(Name(n))]
  BY DEF Rename, Name
<1>3. payload' = [k \in Slots |-> After(Payload(k))]
  BY DEF Rename, Payload
<1>4. \A q \in Places : After(q) \in Contents \cup {Absent}
  BY <1>1
<1> HIDE DEF After
<1>5. \A q \in Places : Entry(q)' = After(q)
  <2> TAKE q \in Places
  <2>1. CASE q.in = "tree"
    <3>1. q.at \in Names /\ q = Name(q.at)
      BY <2>1, PlaceFacts
    <3>2. Entry(q)' = tree'[q.at]
      BY <2>1 DEF Entry
    <3> QED
      BY <1>2, <3>1, <3>2
  <2>2. CASE q.in # "tree"
    <3>1. q.at \in Slots /\ q = Payload(q.at)
      BY <2>2, PlaceFacts
    <3>2. Entry(q)' = payload'[q.at]
      BY <2>2 DEF Entry
    <3> QED
      BY <1>3, <3>1, <3>2
  <2> QED
    BY <2>1, <2>2
<1>6. tree' \in [Names -> Contents \cup {Absent}] /\ payload' \in [Slots -> Contents \cup {Absent}]
  BY <1>2, <1>3, <1>4, PlaceFacts
<1> QED
  BY <1>5, <1>6 DEF After

-----------------------------------------------------------------------------
(* What a step has to show.                                                 *)

\* Entries stay where the step leaves tree and payload alone.
LEMMA EntriesStay ==
    ASSUME UNCHANGED <<tree, payload>>
    PROVE  \A q \in Places : Entry(q)' = Entry(q)
BY DEF Entry

\* The three kinds of task.
LEMMA TaskKinds ==
    ASSUME TypeOK
    PROVE  /\ task.verb \in Verbs => task \in Moves
           /\ task.verb \in {"purge", "unlink"} => task \in Removals
           /\ task.verb = "idle" => task = Idle
           /\ task.verb \in Verbs \cup {"purge", "unlink", "idle"}
<1>1. Idle.verb = "idle"
  BY DEF Idle
<1>2. task = Idle \/ task \in Removals \/ task \in Moves
  BY DEF TypeOK, Removals, Moves
<1>3. task \in Removals => task.verb \in {"purge", "unlink"}
  BY DEF Removals
<1>4. task \in Moves => task.verb \in Verbs
  BY DEF Moves
<1>5. "idle" \notin Verbs /\ "purge" \notin Verbs /\ "unlink" \notin Verbs
  BY DEF Verbs
<1> QED
  BY <1>1, <1>2, <1>3, <1>4, <1>5

\* A command goes on to another phase, with its verb, places and slot.
Onward(ph) ==
    /\ task' \in Moves
    /\ task'.verb = task.verb /\ task'.from = task.from /\ task'.to = task.to
    /\ task'.slot = task.slot /\ task'.phase = ph

LEMMA GotoFacts ==
    ASSUME TypeOK, task.verb \in Verbs, NEW ph \in Phases
    PROVE  /\ Goto(ph) => Onward(ph) /\ task'.entry = task.entry /\ (Moving' <=> Moving)
           /\ \A e \in Contents : task' = [task EXCEPT !.entry = e, !.phase = ph]
                 => Onward(ph) /\ task'.entry = e /\ (Moving' <=> Moving)
BY TaskKinds DEF Goto, Moves, Onward, Moving

\* No command, nothing to say.
LEMMA AtRest ==
    ASSUME task' = Idle
    PROVE  Flight' /\ Removing'
BY DEF Idle, Flight, Removing, Verbs

\* A command is no removal.
LEMMA NoRemoval ==
    ASSUME task'.verb \in Verbs
    PROVE  Removing'
BY DEF Removing, Verbs

Somewhere(e) == e \in hidden \/ \E p \in Places : Entry(p) = e

\* Nothing is lost when nothing that was somewhere is nowhere.
LEMMA StillThere ==
    ASSUME NothingLost, kept' \subseteq kept,
           \A f \in kept' : Somewhere(Whole(f)) => Somewhere(Whole(f))'
    PROVE  NothingLost'
BY DEF NothingLost, Somewhere

\* TrashIsListed of an entry at a place.
LEMMA ListedAt ==
    /\ TrashIsListed <=> \A k \in Slots : Entry(Payload(k)) # Absent /\ Entry(Payload(k)).whole
                            => record[k] # Absent
    /\ TrashIsListed' <=> \A k \in Slots :
                            Entry(Payload(k))' # Absent /\ Entry(Payload(k))'.whole
                            => record'[k] # Absent
<1>1. \A k \in Slots : Entry(Payload(k)) = payload[k] /\ Entry(Payload(k))' = payload'[k]
  BY DEF Entry, Payload
<1> QED
  BY <1>1 DEF TrashIsListed, Listed

\* A step that moves no entry and takes no record away.
LEMMA QuietStep ==
    ASSUME TrashInv, UNCHANGED <<tree, payload, hidden, kept>>,
           \A k \in Slots : record[k] # Absent => record'[k] # Absent
    PROVE  NothingLost' /\ TrashIsListed'
<1>1. \A q \in Places : Entry(q)' = Entry(q)
  BY EntriesStay
<1>2. NothingLost'
  BY <1>1 DEF TrashInv, NothingLost
<1>3. \A k \in Slots : Entry(Payload(k))' = Entry(Payload(k))
  BY <1>1, PlaceFacts
<1>4. TrashIsListed'
  BY <1>3, ListedAt DEF TrashInv
<1> QED
  BY <1>2, <1>4

-----------------------------------------------------------------------------
(* A command begins.                                                        *)

LEMMA BeginFacts ==
    ASSUME TrashInv, NEW verb \in Verbs, NEW from \in Places,
           NEW to \in Places, NEW phase \in {"record", "move", "create"}, NEW k \in Slots,
           phase = "create" => verb = "copy",
           to.in = "payload" => Entry(to) = Absent,
           Begin(verb, from, to, phase, k)
    PROVE  /\ TypeOK' /\ NothingLost' /\ TrashIsListed' /\ Removing'
           /\ Source' /\ Target' /\ task'.from = from /\ task'.to = to
           /\ task'.verb = verb /\ task'.phase = phase /\ task'.slot = k
           /\ Entry(from) \in Contents /\ record' = record
<1>1. Entry(from) \in Contents
  BY EntryType DEF TrashInv, Begin
<1>2. task' = [verb |-> verb, from |-> from, to |-> to, phase |-> phase,
               entry |-> Entry(from), slot |-> k]
  BY DEF Begin
<1>3. task' \in Moves
  BY <1>1, <1>2 DEF Moves, Phases
<1>4. UNCHANGED <<tree, payload, record, hidden>> /\ kept' = kept \cup Lying
  BY DEF Begin
<1>5. TypeOK'
  BY <1>3, <1>4 DEF TrashInv, TypeOK, Moves, Lying
<1>6. \A q \in Places : Entry(q)' = Entry(q)
  BY <1>4, EntriesStay
<1>7. NothingLost'
  BY <1>4, <1>6 DEF TrashInv, NothingLost, Lying, Whole
<1>8. TrashIsListed'
  BY <1>4 DEF TrashInv, TrashIsListed, Listed
<1>9. task'.verb = verb /\ task'.from = from /\ task'.to = to
      /\ task'.phase = phase /\ task'.slot = k
  BY <1>2
<1>10. Removing'
  BY <1>9, NoRemoval
<1>11. Source'
  BY <1>9 DEF Source, Staged, Moving
<1>12. Target'
  BY <1>6, <1>9 DEF Target
<1> QED
  BY <1>1, <1>4, <1>5, <1>7, <1>8, <1>9, <1>10, <1>11, <1>12

\* gem_trash_put() takes a slot that is free.
LEMMA PutStep ==
    ASSUME TrashInv, NEW n \in Names, Put(n)
    PROVE  TrashInv'
<1>1. PICK k \in Slots : Unique(k) /\ Begin("put", Name(n), Payload(k), "record", k)
  BY DEF Put
<1>2. Name(n) \in Places /\ Name(n).in = "tree" /\ Payload(k) \in Places
      /\ Payload(k).in = "payload" /\ Payload(k).at = k
  BY PlaceFacts
<1>3. Entry(Payload(k)) = Absent
  BY <1>1, <1>2 DEF Unique, Free, Entry
<1>4. /\ TypeOK' /\ NothingLost' /\ TrashIsListed' /\ Removing' /\ Source' /\ Target'
      /\ task'.verb = "put" /\ task'.from = Name(n) /\ task'.to = Payload(k)
      /\ task'.phase = "record" /\ task'.slot = k
  BY <1>1, <1>2, <1>3, BeginFacts DEF Verbs
<1>5. Route'
  BY <1>2, <1>4 DEF Route
<1>6. Recorded'
  BY <1>4 DEF Recorded
<1> QED
  BY <1>4, <1>5, <1>6 DEF TrashInv, Flight

\* What leaves the Trash is listed in it.
LEMMA TakenOut ==
    ASSUME TrashInv, NEW k \in Listed, NEW n \in Names,
           NEW verb \in {"restore", "export", "copy"}, NEW phase \in {"move", "create"},
           phase = "create" => verb = "copy",
           Begin(verb, Payload(k), Name(n), phase, k)
    PROVE  TrashInv'
<1>1. k \in Slots /\ record[k] # Absent
  BY DEF Listed
<1>2. Name(n) \in Places /\ Name(n).in = "tree" /\ Payload(k) \in Places
      /\ Payload(k).in = "payload" /\ Payload(k).at = k
  BY <1>1, PlaceFacts
<1>3. /\ TypeOK' /\ NothingLost' /\ TrashIsListed' /\ Removing' /\ Source' /\ Target'
      /\ task'.verb = verb /\ task'.from = Payload(k) /\ task'.to = Name(n)
      /\ task'.phase = phase /\ task'.slot = k /\ record' = record
  BY <1>1, <1>2, BeginFacts DEF Verbs
<1>4. \A j \in Slots : Payload(j) \in {Payload(k), Name(n)} => j = k
  BY <1>1, <1>2, PlaceFacts
<1>5. Route'
  BY <1>2, <1>3 DEF Route
<1>6. Recorded'
  BY <1>1, <1>3, <1>4 DEF Recorded
<1> QED
  BY <1>3, <1>5, <1>6 DEF TrashInv, Flight

\* A move or a copy outside the Trash has nothing to do with its slots.
LEMMA PasteStep ==
    ASSUME TrashInv, NEW m \in Names, NEW n \in Names, Paste(m, n)
    PROVE  TrashInv'
<1>1. 0 \in Slots
  BY TrashAssumption DEF Slots
<1>2. PICK verb \in {"move", "copy"}, phase \in {"move", "create"} :
         /\ verb = "copy" <=> phase = "create"
         /\ Begin(verb, Name(m), Name(n), phase, 0)
  BY DEF Paste
<1>3. /\ Name(n) \in Places /\ Name(n).in = "tree" /\ Name(n).at = n
      /\ Name(m) \in Places /\ Name(m).in = "tree" /\ Name(m).at = m
  BY PlaceFacts
<1>4. /\ TypeOK' /\ NothingLost' /\ TrashIsListed' /\ Removing' /\ Source' /\ Target'
      /\ task'.verb = verb /\ task'.from = Name(m) /\ task'.to = Name(n)
      /\ task'.phase = phase /\ Entry(Name(m)) \in Contents
  BY <1>1, <1>2, <1>3, BeginFacts DEF Verbs
<1>5. Entry(Name(n)) = Absent
  BY <1>3 DEF Paste, Entry
<1>6. Name(m) # Name(n)
  BY TrashAssumption, <1>4, <1>5
<1>7. \A j \in Slots : Payload(j) \notin {Name(m), Name(n)}
  BY <1>3, PlaceFacts
<1>8. Route'
  BY <1>2, <1>3, <1>4, <1>6 DEF Route
<1>9. Recorded'
  BY <1>4, <1>7 DEF Recorded
<1> QED
  BY <1>4, <1>8, <1>9 DEF TrashInv, Flight

-----------------------------------------------------------------------------
(* A command goes on.  From the first move to the end it only changes what  *)
(* is at its two places.                                                    *)

\* What the invariant says of a command under way.
LEMMA UnderWay ==
    ASSUME TrashInv, task.verb \in Verbs
    PROVE  /\ TypeOK /\ task \in Moves
           /\ task.from \in Places /\ task.to \in Places /\ task.from # task.to
           /\ task.entry \in Contents /\ task.slot \in Slots
           /\ Route /\ Source /\ Target /\ Recorded
<1>1. task \in Moves
  BY TaskKinds DEF TrashInv
<1>2. Route /\ Source /\ Target /\ Recorded
  BY DEF TrashInv, Flight
<1> QED
  BY <1>1, <1>2 DEF Moves, TrashInv, Route

\* Only what stands at the two places, or is hidden, can be lost.
LEMMA CommandStep ==
    ASSUME TrashInv, task.verb \in Verbs, task.phase # "record",
           NEW ph \in Phases \ {"record"}, Onward(ph),
           UNCHANGED record, kept' \subseteq kept,
           tree' \in [Names -> Contents \cup {Absent}],
           payload' \in [Slots -> Contents \cup {Absent}],
           hidden' \subseteq Contents,
           \A q \in Places \ {task.from, task.to} : Entry(q)' = Entry(q),
           \A f \in kept : Whole(f) \in {Entry(task.from), Entry(task.to)} \cup hidden
              => Somewhere(Whole(f))',
           Source', Target'
    PROVE  TrashInv'
<1>1. /\ TypeOK /\ Route /\ Recorded
  BY UnderWay
<1>2. /\ task' \in Moves
      /\ task'.verb = task.verb /\ task'.from = task.from /\ task'.to = task.to
      /\ task'.slot = task.slot /\ task'.phase = ph
  BY DEF Onward
<1>3. TypeOK'
  BY <1>1, <1>2 DEF TypeOK, Moves
<1>4. NothingLost'
  <2>1. ASSUME NEW f \in kept', Somewhere(Whole(f)) PROVE Somewhere(Whole(f))'
    <3>1. f \in kept
      OBVIOUS
    <3>2. CASE Whole(f) \in {Entry(task.from), Entry(task.to)} \cup hidden
      BY <3>1, <3>2
    <3>3. CASE Whole(f) \notin {Entry(task.from), Entry(task.to)} \cup hidden
      <4>1. PICK q \in Places : Entry(q) = Whole(f)
        BY <2>1, <3>3 DEF Somewhere
      <4>2. Entry(q)' = Whole(f)
        BY <3>3, <4>1
      <4> QED
        BY <4>2 DEF Somewhere, Whole
    <3> QED
      BY <3>2, <3>3
  <2> QED
    BY <2>1, StillThere DEF TrashInv
<1>5. TrashIsListed'
  <2>1. ASSUME NEW k \in Slots, Entry(Payload(k))' # Absent, Entry(Payload(k))'.whole
        PROVE  record'[k] # Absent
    <3>1. CASE Payload(k) \in {task.from, task.to}
      BY <1>1, <3>1 DEF Recorded
    <3>2. CASE Payload(k) \notin {task.from, task.to}
      <4>1. Entry(Payload(k))' = Entry(Payload(k))
        BY <3>2, PlaceFacts
      <4> QED
        BY <2>1, <4>1, ListedAt DEF TrashInv
    <3> QED
      BY <3>1, <3>2
  <2> QED
    BY <2>1, ListedAt
<1>6. Route'
  BY <1>1, <1>2 DEF Route
<1>7. Recorded'
  BY <1>1, <1>2 DEF Recorded
<1>8. Removing'
  BY <1>2, NoRemoval
<1> QED
  BY <1>3, <1>4, <1>5, <1>6, <1>7, <1>8 DEF TrashInv, Flight

\* A phase after which nothing at the two places is different.
LEMMA PhaseStep ==
    ASSUME TrashInv, task.verb \in Verbs, task.phase # "record",
           NEW ph \in Phases \ {"record"}, Goto(ph),
           UNCHANGED <<tree, payload, record, hidden>>, kept' \subseteq kept,
           Source', Target'
    PROVE  TrashInv'
<1>1. Onward(ph) /\ TypeOK /\ task.from \in Places /\ task.to \in Places
  BY UnderWay, GotoFacts
<1>2. \A q \in Places : Entry(q)' = Entry(q)
  BY EntriesStay
<1>3. \A f \in kept : Whole(f) \in {Entry(task.from), Entry(task.to)} \cup hidden
         => Somewhere(Whole(f))'
  BY <1>1, <1>2 DEF Somewhere, Whole
<1>4. /\ tree' \in [Names -> Contents \cup {Absent}]
      /\ payload' \in [Slots -> Contents \cup {Absent}] /\ hidden' \subseteq Contents
  BY <1>1 DEF TypeOK
<1> QED
  BY <1>1, <1>2, <1>3, <1>4, CommandStep

\* The record is there before the move.
LEMMA WriteRecordStep ==
    ASSUME TrashInv, WriteRecord
    PROVE  TrashInv'
<1>1. task.verb \in Verbs /\ task.phase = "record"
  BY DEF WriteRecord, At
<1>2. /\ TypeOK /\ task \in Moves
      /\ task.from \in Places /\ task.to \in Places /\ task.slot \in Slots
      /\ Route /\ Source /\ Target
  BY <1>1, UnderWay
<1>3. task.verb = "put" /\ task.from.in = "tree" /\ task.to = Payload(task.slot)
  BY <1>1, <1>2 DEF Route
<1>4. task.from.at \in Names
  BY <1>2, <1>3, PlaceFacts
<1>5. UNCHANGED <<tree, payload, hidden, kept>>
  BY DEF WriteRecord
<1>6. \A q \in Places : Entry(q)' = Entry(q)
  BY <1>5, EntriesStay
<1>7. CASE record' = record /\ task' = Idle
  <2>1. TypeOK'
    BY <1>2, <1>5, <1>7 DEF TypeOK
  <2>2. NothingLost' /\ TrashIsListed'
    BY <1>5, <1>7, QuietStep
  <2> QED
    BY <1>7, <2>1, <2>2, AtRest DEF TrashInv
<1>8. CASE record' = [record EXCEPT ![task.slot] = task.from.at] /\ Goto("move")
  <2>1. record \in [Slots -> Names \cup {Absent}]
    BY <1>2 DEF TypeOK
  <2>2. /\ record' \in [Slots -> Names \cup {Absent}]
        /\ record'[task.slot] # Absent
        /\ \A k \in Slots : record[k] # Absent => record'[k] # Absent
    BY TrashAssumption, <1>2, <1>4, <1>8, <2>1
  <2>3. /\ task' \in Moves
        /\ task'.verb = task.verb /\ task'.from = task.from /\ task'.to = task.to
        /\ task'.slot = task.slot /\ task'.phase = "move"
    BY <1>1, <1>2, <1>8, GotoFacts DEF Phases, Onward
  <2>4. TypeOK'
    BY <1>2, <1>5, <2>2, <2>3 DEF TypeOK, Moves
  <2>5. NothingLost' /\ TrashIsListed'
    BY <1>5, <2>2, QuietStep
  <2>6. Route'
    BY <1>2, <2>3 DEF Route
  <2>7. Source'
    BY <2>3 DEF Source, Staged
  <2>8. Target'
    BY <1>1, <1>2, <1>6, <2>3 DEF Target
  <2>9. \A k \in Slots : Payload(k) \in {task.from, task.to} => k = task.slot
    BY <1>2, <1>3, PlaceFacts
  <2>10. Recorded'
    BY <2>2, <2>3, <2>9 DEF Recorded
  <2>11. Removing'
    BY <1>1, <2>3, NoRemoval
  <2> QED
    BY <2>4, <2>5, <2>6, <2>7, <2>8, <2>10, <2>11 DEF TrashInv, Flight
<1> QED
  BY <1>7, <1>8 DEF WriteRecord

\* An entry cut short is not whole, nor is none.
LEMMA NotWhole ==
    ASSUME NEW e \in Contents, NEW f \in Files
    PROVE  /\ Whole(f) \in Contents /\ Whole(f) # Absent
           /\ CutShort(e) \in Contents /\ CutShort(e) # Absent /\ Whole(f) # CutShort(e)
<1>1. Whole(f) \in Contents /\ Whole(f).whole
  BY DEF Whole, Contents
<1>2. CutShort(e) \in Contents /\ ~CutShort(e).whole
  BY DEF CutShort, Contents
<1> QED
  BY TrashAssumption, <1>1, <1>2

\* What a step of a command under way starts from.
LEMMA Standing ==
    ASSUME TrashInv, task.verb \in Verbs
    PROVE  /\ \A q \in Places : Entry(q) \in Contents \cup {Absent}
           /\ kept \subseteq Files /\ hidden \subseteq Contents
           /\ \A f \in kept : Whole(f) # Absent /\ Whole(f) # CutShort(task.entry)
           /\ CutShort(task.entry) \in Contents
<1>1. TypeOK /\ task.entry \in Contents
  BY UnderWay
<1>2. kept \subseteq Files /\ hidden \subseteq Contents
  BY <1>1 DEF TypeOK
<1>3. \A q \in Places : Entry(q) \in Contents \cup {Absent}
  BY <1>1, EntryType
<1>4. CutShort(task.entry) \in Contents
  BY <1>1 DEF CutShort, Contents
<1>5. \A f \in Files : Whole(f) # Absent /\ Whole(f) # CutShort(task.entry)
  BY <1>1, NotWhole
<1> QED
  BY <1>2, <1>3, <1>4, <1>5

\* The source is hidden beside itself.
LEMMA StageStep ==
    ASSUME TrashInv, task.verb \in Verbs, task.phase \in {"move", "rename"},
           Stage, UNCHANGED <<record, kept>>
    PROVE  TrashInv'
<1>1. /\ TypeOK /\ task.from \in Places /\ task.to \in Places /\ task.from # task.to
      /\ Source /\ Target
  BY UnderWay
<1>2. /\ Entry(task.from) \in Contents /\ hidden \subseteq Contents
      /\ \A f \in kept : Whole(f) # Absent
  BY <1>1, Standing DEF Stage
<1>3. /\ hidden' = hidden \cup {Entry(task.from)} /\ Write(task.from, Absent)
      /\ task' = [task EXCEPT !.entry = Entry(task.from), !.phase = "create"]
  BY DEF Stage
<1>4. Onward("create") /\ task'.entry = Entry(task.from)
  BY <1>1, <1>2, <1>3, GotoFacts DEF Phases
<1>5. task'.from = task.from /\ task'.to = task.to /\ task'.phase = "create"
  BY <1>4 DEF Onward
<1>6. /\ tree' \in [Names -> Contents \cup {Absent}]
      /\ payload' \in [Slots -> Contents \cup {Absent}]
      /\ \A q \in Places : Entry(q)' = IF q = task.from THEN Absent ELSE Entry(q)
  BY <1>1, <1>3, WriteFacts
<1>7. Entry(task.from)' = Absent
  BY <1>1, <1>5, <1>6
<1>8. Source'
  BY <1>2, <1>3, <1>4, <1>5, <1>7 DEF Source, Unpromised, Whole
<1>9. Target'
  BY <1>1, <1>5, <1>6 DEF Target
<1>10. \A f \in kept : Whole(f) \in {Entry(task.from), Entry(task.to)} \cup hidden
         => Somewhere(Whole(f))'
  BY <1>1, <1>3, <1>6 DEF Somewhere, Whole
<1>11. hidden' \subseteq Contents
  BY <1>2, <1>3
<1> QED
  BY <1>4, <1>6, <1>8, <1>9, <1>10, <1>11, CommandStep DEF Phases

\* The source is at the destination, where nothing promised was.
LEMMA RelocateStep ==
    ASSUME TrashInv, task.verb \in Verbs, task.phase \in {"move", "rename"},
           Relocate, Unpromised(task.to), UNCHANGED <<record, kept>>
    PROVE  TrashInv'
<1>1. /\ TypeOK /\ task.from \in Places /\ task.to \in Places /\ task.from # task.to
  BY UnderWay
<1>2. Rename(task.from, task.to) /\ Goto("moved") /\ hidden' = hidden
  BY DEF Relocate
<1>3. Onward("moved") /\ task'.from = task.from /\ task'.to = task.to
      /\ task'.phase = "moved"
  BY <1>1, <1>2, GotoFacts DEF Phases, Onward
<1>4. /\ tree' \in [Names -> Contents \cup {Absent}]
      /\ payload' \in [Slots -> Contents \cup {Absent}]
      /\ \A q \in Places : Entry(q)' = IF q = task.from THEN Absent
                                       ELSE IF q = task.to THEN Entry(task.from)
                                       ELSE Entry(q)
  BY <1>1, <1>2, RenameFacts
<1>5. Entry(task.from)' = Absent /\ Entry(task.to)' = Entry(task.from)
  BY <1>1, <1>3, <1>4
<1>6. Source'
  BY <1>3, <1>5 DEF Source, Staged
<1>7. Target'
  BY <1>3 DEF Target
<1>8. \A f \in kept : Whole(f) \in {Entry(task.from), Entry(task.to)} \cup hidden
         => Somewhere(Whole(f))'
  <2> TAKE f \in kept
  <2>1. Entry(task.to) # Whole(f)
    BY DEF Unpromised
  <2>2. \A q \in Places : q = task.to => Entry(q)' = Entry(task.from)
    BY <1>1, <1>4
  <2> QED
    BY <1>1, <1>2, <2>1, <2>2 DEF Somewhere, Whole
<1>9. hidden' \subseteq Contents
  BY <1>1, <1>2 DEF TypeOK
<1> QED
  BY <1>3, <1>4, <1>6, <1>7, <1>8, <1>9, CommandStep DEF Phases

\* Nothing has moved; the rename failed or comes later.
LEMMA NotMovedStep ==
    ASSUME TrashInv, task.verb \in Verbs, task.phase \in {"move", "rename"},
           NEW ph \in {"rename", "failed"}, Goto(ph),
           ph = "rename" => Entry(task.to) = Absent,
           UNCHANGED <<tree, payload, hidden, record, kept>>
    PROVE  TrashInv'
<1>1. /\ TypeOK /\ task.to \in Places /\ Target
  BY UnderWay
<1>2. Onward(ph) /\ task'.to = task.to /\ task'.phase = ph
  BY <1>1, GotoFacts DEF Phases, Onward
<1>3. Entry(task.to)' = Entry(task.to)
  BY <1>1, <1>2, EntriesStay
<1>4. \A f \in Files : Whole(f) # Absent
  BY NotWhole, UnderWay
<1>5. Source'
  BY <1>2 DEF Source, Staged
<1>6. kept \subseteq Files
  BY Standing
<1>7. Target'
  BY <1>1, <1>2, <1>3, <1>4, <1>6 DEF Target, Unpromised, NotWholeAt, Whole
<1> QED
  BY <1>5, <1>7, PhaseStep DEF Phases

LEMMA MoveBeginStep ==
    ASSUME TrashInv, MoveBegin
    PROVE  TrashInv'
<1>1. task.verb \in Verbs /\ task.phase = "move" /\ UNCHANGED <<record, kept>>
  BY DEF MoveBegin, At
<1>2. CASE Entry(task.to) = Absent /\ Relocate
  <2>1. Unpromised(task.to)
    BY <1>1, <1>2, Standing DEF Unpromised
  <2> QED
    BY <1>1, <1>2, <2>1, RelocateStep
<1>3. CASE Stage
  BY <1>1, <1>3, StageStep
<1>4. CASE Entry(task.to) = Absent /\ Goto("rename") /\ UNCHANGED <<tree, payload, hidden>>
  BY <1>1, <1>4, NotMovedStep
<1>5. CASE Goto("failed") /\ UNCHANGED <<tree, payload, hidden>>
  BY <1>1, <1>5, NotMovedStep
<1> QED
  BY <1>2, <1>3, <1>4, <1>5 DEF MoveBegin

LEMMA MoveRenameStep ==
    ASSUME TrashInv, MoveRename
    PROVE  TrashInv'
<1>1. task.verb \in Verbs /\ task.phase = "rename" /\ UNCHANGED <<record, kept>>
  BY DEF MoveRename, At
<1>2. Unpromised(task.to)
  BY <1>1, UnderWay DEF Target
<1>3. CASE Relocate
  BY <1>1, <1>2, <1>3, RelocateStep
<1>4. CASE Stage
  BY <1>1, <1>4, StageStep
<1>5. CASE Goto("failed") /\ UNCHANGED <<tree, payload, hidden>>
  BY <1>1, <1>5, NotMovedStep
<1> QED
  BY <1>3, <1>4, <1>5 DEF MoveRename

\* A copy has failed: a move gives its source its name back, then, unless
\* something was there (Clashed), the destination goes.
LEMMA FailedStep ==
    ASSUME TrashInv, task.verb \in Verbs, task.phase \in {"create", "fill"},
           Failed \/ Clashed,
           tree' \in [Names -> Contents \cup {Absent}],
           payload' \in [Slots -> Contents \cup {Absent}],
           UNCHANGED <<record, hidden>>, kept' \subseteq kept,
           \A q \in Places : Entry(q)' = Entry(q) \/ (q = task.to /\ Entry(q)' = Absent),
           task.phase = "fill" \/ UNCHANGED <<tree, payload>>,
           Failed /\ task.phase = "create" =>
              kept' = kept \ {f \in Files : Entry(task.to) = Whole(f)}
    PROVE  TrashInv'
<1>1. /\ TypeOK /\ task.from \in Places /\ task.to \in Places /\ task.from # task.to
      /\ task.entry \in Contents /\ Source /\ Target
  BY UnderWay
<1>2. /\ kept \subseteq Files /\ hidden' \subseteq Contents
      /\ \A f \in Files : Whole(f) # Absent
  BY <1>1, Standing, NotWhole
<1>3. PICK ph \in {"clash", "failed", "unstage", "discard"} :
         /\ Goto(ph) /\ (ph \in {"clash", "unstage"} <=> Moving)
         /\ ph \in {"unstage", "discard"} => Failed
  BY DEF Failed, Clashed
<1>4. ph \in Phases \ {"record"}
  BY DEF Phases
<1>5. Onward(ph) /\ task'.from = task.from /\ task'.to = task.to /\ task'.phase = ph
      /\ task'.entry = task.entry /\ (Moving' <=> Moving)
  BY <1>1, <1>3, <1>4, GotoFacts DEF Onward
<1>6. Entry(task.from)' = Entry(task.from) /\ Entry(task.to)' \in {Entry(task.to), Absent}
  BY <1>1, <1>5
<1>7. Source'
  BY <1>1, <1>2, <1>3, <1>5, <1>6 DEF Source, Staged, Unpromised, Whole
<1>8. ph \in {"unstage", "discard"} => Unpromised(task.to)'
  <2>1. CASE task.phase = "fill"
    BY <1>1, <1>2, <1>6, <2>1 DEF Target, Unpromised, Whole
  <2>2. CASE task.phase = "create"
    BY <1>2, <1>3, <1>6, <2>2 DEF Unpromised, Whole
  <2> QED
    BY <2>1, <2>2
<1>9. task.to.in = "payload" => NotWholeAt(task.to)'
  BY <1>1, <1>2, <1>6 DEF Target, NotWholeAt, Whole
<1>10. Target'
  BY <1>3, <1>5, <1>8, <1>9 DEF Target, Unpromised, NotWholeAt
<1>11. \A f \in kept : Whole(f) \in {Entry(task.from), Entry(task.to)} \cup hidden
         => Somewhere(Whole(f))'
  <2> TAKE f \in kept
  <2>1. CASE Whole(f) = Entry(task.from)
    BY <1>1, <1>6, <2>1 DEF Somewhere, Whole
  <2>2. CASE Whole(f) = Entry(task.to)
    <3>1. CASE task.phase = "fill"
      BY <1>1, <2>2, <3>1 DEF Target, Unpromised
    <3>2. CASE UNCHANGED <<tree, payload>>
      BY <1>1, <2>2, <3>2, EntriesStay DEF Somewhere, Whole
    <3> QED
      BY <3>1, <3>2
  <2>3. CASE Whole(f) \in hidden
    BY <2>3 DEF Somewhere, Whole
  <2> QED
    BY <2>1, <2>2, <2>3
<1> QED
  BY <1>1, <1>2, <1>4, <1>5, <1>7, <1>10, <1>11, CommandStep

\* The destination is created, is somebody else's, or cannot be created.
LEMMA CopyCreateStep ==
    ASSUME TrashInv, CopyCreate
    PROVE  TrashInv'
<1> DEFINE original == IF Moving THEN task.entry ELSE Entry(task.from)
<1>1. task.verb \in Verbs /\ task.phase = "create" /\ UNCHANGED <<record, hidden>>
  BY DEF CopyCreate, At
<1>2. /\ TypeOK /\ task.from \in Places /\ task.to \in Places /\ task.from # task.to
      /\ task.entry \in Contents /\ Source /\ Target
  BY <1>1, UnderWay
<1>3. CASE /\ original # Absent /\ Entry(task.to) = Absent
           /\ Write(task.to, CutShort(original))
           /\ task' = [task EXCEPT !.entry = original, !.phase = "fill"]
           /\ UNCHANGED kept
  <2>1. original \in Contents
    BY <1>1, <1>2, <1>3, Standing
  <2>2. /\ CutShort(original) \in Contents
        /\ \A f \in Files : Whole(f) # CutShort(original) /\ Whole(f) # Absent
    BY <2>1, NotWhole DEF CutShort, Contents
  <2> HIDE DEF original
  <2>3. Onward("fill") /\ task'.entry = original /\ (Moving' <=> Moving)
    BY <1>1, <1>2, <1>3, <2>1, GotoFacts DEF Phases
  <2>4. task'.from = task.from /\ task'.to = task.to /\ task'.phase = "fill"
    BY <2>3 DEF Onward
  <2>5. /\ tree' \in [Names -> Contents \cup {Absent}]
        /\ payload' \in [Slots -> Contents \cup {Absent}]
        /\ \A q \in Places : Entry(q)' = IF q = task.to THEN CutShort(original)
                                         ELSE Entry(q)
    BY <1>2, <1>3, <2>2, WriteFacts
  <2>6. Entry(task.to)' = CutShort(original) /\ Entry(task.from)' = Entry(task.from)
    BY <1>2, <2>4, <2>5
  <2>7. Moving => original = task.entry
    BY DEF original
  <2>8. Source'
    BY <1>1, <1>2, <1>3, <2>3, <2>4, <2>6, <2>7 DEF Source, Staged, Unpromised, Whole
  <2>9. kept \subseteq Files /\ hidden' \subseteq Contents
    BY <1>1, Standing
  <2>10. Target'
    BY <1>3, <2>2, <2>3, <2>4, <2>6, <2>9
       DEF Target, Unpromised, NotWholeAt, Arrived, Whole, CutShort
  <2>11. \A f \in kept : Whole(f) \in {Entry(task.from), Entry(task.to)} \cup hidden
            => Somewhere(Whole(f))'
    BY <1>1, <1>2, <1>3, <2>2, <2>6, <2>9 DEF Somewhere, Whole
  <2> QED
    BY <1>1, <1>3, <2>3, <2>5, <2>8, <2>9, <2>10, <2>11, CommandStep DEF Phases
<1>4. ASSUME UNCHANGED <<tree, payload>>
      PROVE  /\ tree' \in [Names -> Contents \cup {Absent}]
             /\ payload' \in [Slots -> Contents \cup {Absent}]
             /\ \A q \in Places : Entry(q)' = Entry(q)
  BY <1>2, <1>4, EntriesStay DEF TypeOK
<1>5. CASE /\ Entry(task.to) # Absent /\ Clashed /\ UNCHANGED <<tree, payload, kept>>
  <2>1. ~Failed
    BY <1>2, <1>5, UnderWay, <1>1 DEF Failed, Clashed, Goto, Moves
  <2> QED
    BY <1>1, <1>4, <1>5, <2>1, FailedStep
<1>6. CASE /\ Failed /\ UNCHANGED <<tree, payload>>
           /\ kept' = kept \ {f \in Files : Entry(task.to) = Whole(f)}
  BY <1>1, <1>4, <1>6, FailedStep
<1> QED
  BY <1>3, <1>5, <1>6 DEF CopyCreate

\* The copy is complete, or its name is gone, or it fails and is undone.
LEMMA CopyFillStep ==
    ASSUME TrashInv, CopyFill
    PROVE  TrashInv'
<1>1. task.verb \in Verbs /\ task.phase = "fill" /\ UNCHANGED <<record, hidden, kept>>
  BY DEF CopyFill, At
<1>2. /\ TypeOK /\ task.from \in Places /\ task.to \in Places /\ task.from # task.to
      /\ task.entry \in Contents /\ Source /\ Target
  BY <1>1, UnderWay
<1>3. ASSUME UNCHANGED <<tree, payload>>
      PROVE  /\ tree' \in [Names -> Contents \cup {Absent}]
             /\ payload' \in [Slots -> Contents \cup {Absent}]
             /\ \A q \in Places : Entry(q)' = Entry(q)
  BY <1>2, <1>3, EntriesStay DEF TypeOK
<1>4. CASE /\ IF Entry(task.to) = CutShort(task.entry) THEN Write(task.to, task.entry)
              ELSE UNCHANGED <<tree, payload>>
           /\ Goto(IF Moving THEN "cleanup" ELSE "moved")
  <2>1. PICK ph \in {"cleanup", "moved"} : Goto(ph) /\ (ph = "cleanup" <=> Moving)
    BY <1>4
  <2>2. Onward(ph) /\ task'.from = task.from /\ task'.to = task.to /\ task'.phase = ph
        /\ task'.entry = task.entry /\ (Moving' <=> Moving)
    BY <1>1, <1>2, <2>1, GotoFacts DEF Phases, Onward
  <2>3. /\ tree' \in [Names -> Contents \cup {Absent}]
        /\ payload' \in [Slots -> Contents \cup {Absent}]
        /\ \A q \in Places \ {task.to} : Entry(q)' = Entry(q)
        /\ Entry(task.to) = CutShort(task.entry) => Entry(task.to)' = task.entry
    BY <1>2, <1>3, <1>4, <2>2, WriteFacts
  <2>4. Source'
    BY <1>1, <1>2, <2>1, <2>2, <2>3 DEF Source, Staged
  <2>5. Target'
    BY <1>1, <1>2, <2>1, <2>2, <2>3 DEF Target, Arrived, Whole
  <2>6. \A f \in kept : Whole(f) \in {Entry(task.from), Entry(task.to)} \cup hidden
           => Somewhere(Whole(f))'
    BY <1>1, <1>2, <2>3 DEF Somewhere, Whole, Target, Unpromised
  <2>7. hidden' \subseteq Contents /\ ph \in Phases \ {"record"}
    BY <1>1, Standing DEF Phases
  <2> QED
    BY <1>1, <2>2, <2>3, <2>4, <2>5, <2>6, <2>7, CommandStep
<1>5. CASE (Write(task.to, Absent) \/ UNCHANGED <<tree, payload>>) /\ Failed
  <2>1. /\ tree' \in [Names -> Contents \cup {Absent}]
        /\ payload' \in [Slots -> Contents \cup {Absent}]
        /\ \A q \in Places : Entry(q)' = Entry(q) \/ (q = task.to /\ Entry(q)' = Absent)
    BY <1>2, <1>3, <1>5, WriteFacts
  <2> QED
    BY <1>1, <1>5, <2>1, FailedStep
<1>6. CASE Clashed /\ UNCHANGED <<tree, payload>>
  BY <1>1, <1>3, <1>6, FailedStep
<1> QED
  BY <1>4, <1>5, <1>6 DEF CopyFill

\* The source gets its name back, or stays hidden.
LEMMA UnstageStep ==
    ASSUME TrashInv, Unstage
    PROVE  TrashInv'
<1>1. task.verb \in Verbs /\ task.phase \in {"clash", "unstage"} /\ UNCHANGED <<record, kept>>
  BY DEF Unstage, At
<1>2. /\ TypeOK /\ task.from \in Places /\ task.to \in Places /\ task.from # task.to
      /\ task.entry \in Contents /\ Source /\ Target
  BY <1>1, UnderWay
<1>3. Unpromised(task.from)
  BY <1>1, <1>2 DEF Source, Staged
<1>4. PICK ph \in {"failed", "discard"} : Goto(ph) /\ (ph = "failed" <=> task.phase = "clash")
  BY <1>1 DEF Unstage, At
<1>5. ph \in Phases \ {"record"}
  BY DEF Phases
<1>6. Onward(ph) /\ task'.from = task.from /\ task'.to = task.to /\ task'.phase = ph
      /\ (Moving' <=> Moving)
  BY <1>1, <1>2, <1>4, <1>5, GotoFacts DEF Onward
<1>7. Source'
  BY <1>4, <1>6 DEF Source, Staged
<1>8. Entry(task.to)' = Entry(task.to) => Target'
  BY <1>1, <1>2, <1>4, <1>6 DEF Target, Unpromised, NotWholeAt, Whole
<1>9. CASE hidden' = hidden \ {task.entry} /\ Write(task.from, task.entry)
  <2>1. /\ tree' \in [Names -> Contents \cup {Absent}]
        /\ payload' \in [Slots -> Contents \cup {Absent}]
        /\ \A q \in Places : Entry(q)' = IF q = task.from THEN task.entry ELSE Entry(q)
    BY <1>2, <1>9, WriteFacts
  <2>2. Entry(task.to)' = Entry(task.to)
    BY <1>2, <1>6, <2>1
  <2>3. \A f \in kept : Whole(f) \in {Entry(task.from), Entry(task.to)} \cup hidden
           => Somewhere(Whole(f))'
    <3> TAKE f \in kept
    <3>1. Entry(task.from) # Whole(f)
      BY <1>3 DEF Unpromised
    <3> QED
      BY <1>2, <1>9, <2>1, <3>1 DEF Somewhere, Whole
  <2>4. hidden' \subseteq Contents
    BY <1>1, <1>9, Standing
  <2> QED
    BY <1>1, <1>5, <1>6, <1>7, <1>8, <2>1, <2>2, <2>3, <2>4, CommandStep
<1>10. CASE UNCHANGED <<hidden, tree, payload>>
  <2>1. Entry(task.to)' = Entry(task.to)
    BY <1>2, <1>6, <1>10, EntriesStay
  <2> QED
    BY <1>1, <1>4, <1>5, <1>7, <1>8, <1>10, <2>1, PhaseStep
<1> QED
  BY <1>9, <1>10 DEF Unstage

\* What is discarded was not promised.
LEMMA DiscardStep ==
    ASSUME TrashInv, Discard
    PROVE  TrashInv'
<1>1. task.verb \in Verbs /\ task.phase = "discard" /\ Goto("failed")
      /\ UNCHANGED <<record, hidden, kept>>
  BY DEF Discard, At
<1>2. /\ TypeOK /\ task.from \in Places /\ task.to \in Places /\ task.from # task.to
      /\ Source /\ Target
  BY <1>1, UnderWay
<1>3. /\ Entry(task.to) \in Contents \cup {Absent}
      /\ \A f \in Files : Whole(f) # Absent /\ Whole(f) # CutShort(task.entry)
  BY <1>1, Standing, NotWhole, UnderWay
<1>4. PICK e \in Contents \cup {Absent} :
         /\ e = Entry(task.to) \/ \A f \in Files : e # Whole(f)
         /\ Write(task.to, e) \/ (e = Entry(task.to) /\ UNCHANGED <<tree, payload>>)
  <2>1. CASE Write(task.to, Absent)
    BY <1>3, <2>1
  <2>2. CASE Entry(task.to) # Absent /\ Write(task.to, CutShort(Entry(task.to)))
    BY <1>3, <2>2, NotWhole DEF CutShort, Contents
  <2>3. CASE UNCHANGED <<tree, payload>>
    BY <1>3, <2>3
  <2> QED
    BY <2>1, <2>2, <2>3 DEF Discard
<1>5. /\ tree' \in [Names -> Contents \cup {Absent}]
      /\ payload' \in [Slots -> Contents \cup {Absent}]
      /\ \A q \in Places : Entry(q)' = IF q = task.to THEN e ELSE Entry(q)
  BY <1>2, <1>4, WriteFacts, EntriesStay DEF TypeOK
<1>6. Onward("failed") /\ task'.to = task.to /\ task'.phase = "failed"
  BY <1>1, <1>2, GotoFacts DEF Phases, Onward
<1>7. Source'
  BY <1>6 DEF Source, Staged
<1>8. Entry(task.to)' = e
  BY <1>2, <1>5, <1>6
<1>9. Target'
  BY <1>1, <1>2, <1>4, <1>6, <1>8 DEF Target, NotWholeAt, Whole
<1>10. \A f \in kept : Whole(f) \in {Entry(task.from), Entry(task.to)} \cup hidden
          => Somewhere(Whole(f))'
  <2> TAKE f \in kept
  <2>1. Entry(task.to) # Whole(f)
    BY <1>1, <1>2 DEF Target, Unpromised
  <2> QED
    BY <1>1, <1>2, <1>5, <2>1 DEF Somewhere, Whole
<1>11. hidden' \subseteq Contents
  BY <1>1, Standing
<1> QED
  BY <1>1, <1>5, <1>6, <1>7, <1>9, <1>10, <1>11, CommandStep DEF Phases

\* The staged source of a finished move is at the destination, if promised.
LEMMA CleanupStep ==
    ASSUME TrashInv, Cleanup
    PROVE  TrashInv'
<1>1. task.verb \in Verbs /\ task.phase = "cleanup" /\ Goto("moved")
      /\ UNCHANGED <<tree, payload, record, kept>>
  BY DEF Cleanup, At
<1>2. /\ TypeOK /\ task.from \in Places /\ task.to \in Places
      /\ task.entry \in Contents /\ Source /\ Target
  BY <1>1, UnderWay
<1>3. PICK left \in {{}, {task.entry}, {CutShort(task.entry)}} :
         hidden' = (hidden \ {task.entry}) \cup left
  BY DEF Cleanup
<1>4. Onward("moved") /\ task'.from = task.from /\ task'.phase = "moved"
      /\ (Moving' <=> Moving)
  BY <1>1, <1>2, GotoFacts DEF Phases, Onward
<1>5. /\ \A q \in Places : Entry(q)' = Entry(q)
      /\ tree' \in [Names -> Contents \cup {Absent}]
      /\ payload' \in [Slots -> Contents \cup {Absent}]
  BY <1>1, <1>2, EntriesStay DEF TypeOK
<1>6. Source'
  BY <1>1, <1>2, <1>4, <1>5 DEF Source, Staged
<1>7. Target'
  BY <1>4 DEF Target
<1>8. hidden' \subseteq Contents
  BY <1>1, <1>2, <1>3, Standing
<1>9. \A f \in kept : Whole(f) \in {Entry(task.from), Entry(task.to)} \cup hidden
         => Somewhere(Whole(f))'
  <2> TAKE f \in kept
  <2>1. CASE Whole(f) = Entry(task.from) \/ Whole(f) = Entry(task.to)
    BY <1>2, <1>5, <2>1 DEF Somewhere, Whole
  <2>2. CASE Whole(f) = task.entry
    <3>1. Entry(task.to) = task.entry
      BY <1>1, <1>2, <2>2 DEF Target, Arrived
    <3> QED
      BY <1>2, <1>5, <2>2, <3>1 DEF Somewhere, Whole
  <2>3. CASE Whole(f) \in hidden /\ Whole(f) # task.entry
    BY <1>3, <2>3 DEF Somewhere, Whole
  <2> QED
    BY <2>1, <2>2, <2>3
<1> QED
  BY <1>1, <1>4, <1>5, <1>6, <1>7, <1>8, <1>9, CommandStep DEF Phases

-----------------------------------------------------------------------------
(* A command ends.                                                          *)

\* A record that goes describes nothing whole.
LEMMA EndsAfterUnlink ==
    ASSUME TrashInv, NEW k \in Slots,
           NotWholeAt(Payload(k)),
           Unlink(k), UNCHANGED <<tree, payload, hidden, kept>>
    PROVE  TrashInv'
<1>1. TypeOK
  BY DEF TrashInv
<1>2. record' = [record EXCEPT ![k] = Absent] /\ task' = Idle
  BY DEF Unlink
<1>3. TypeOK'
  BY <1>1, <1>2 DEF TypeOK
<1>4. \A q \in Places : Entry(q)' = Entry(q)
  BY EntriesStay
<1>5. NothingLost'
  BY <1>4 DEF TrashInv, NothingLost
<1>6. \A j \in Slots : Entry(Payload(j))' = Entry(Payload(j))
  BY <1>4, PlaceFacts
<1>7. \A j \in Slots : j # k => record'[j] = record[j]
  BY <1>1, <1>2 DEF TypeOK
<1>8. Entry(Payload(k)) = Absent \/ ~Entry(Payload(k)).whole
  <2>1. Entry(Payload(k)) \in Contents \cup {Absent}
    BY <1>1, EntryType, PlaceFacts
  <2>2. ASSUME Entry(Payload(k)) \in Contents, Entry(Payload(k)).whole PROVE FALSE
    <3>1. Entry(Payload(k)).file \in Files
          /\ Entry(Payload(k)) = Whole(Entry(Payload(k)).file)
      BY <2>2 DEF Contents, Whole
    <3> QED
      BY <3>1 DEF NotWholeAt
  <2> QED
    BY <2>1, <2>2 DEF Contents
<1>9. TrashIsListed'
  BY <1>6, <1>7, <1>8, ListedAt DEF TrashInv
<1> QED
  BY <1>2, <1>3, <1>5, <1>9, AtRest DEF TrashInv

\* Nothing changes but that the command is over.
LEMMA EndsQuietly ==
    ASSUME TrashInv, task' = Idle,
           UNCHANGED <<tree, payload, record, hidden, kept>>
    PROVE  TrashInv'
<1>1. TypeOK'
  BY DEF TrashInv, TypeOK
<1>2. NothingLost' /\ TrashIsListed'
  BY QuietStep
<1> QED
  BY <1>1, <1>2, AtRest DEF TrashInv

\* A failed gem_trash_put() left nothing whole under its record.
LEMMA EndFailedStep ==
    ASSUME TrashInv, EndFailed
    PROVE  TrashInv'
<1>1. task.verb \in Verbs /\ task.phase = "failed"
  BY DEF EndFailed, At
<1>2. task.entry \in Contents /\ task.slot \in Slots /\ Route /\ Target
  BY <1>1, UnderWay
<1>3. UNCHANGED <<tree, payload, hidden, kept>>
  BY DEF EndFailed
<1>4. CASE Keep
  BY <1>3, <1>4, EndsQuietly DEF Keep
<1>5. CASE task.verb = "put" /\ Unlink(task.slot)
  <2>1. task.to = Payload(task.slot) /\ task.to.in = "payload"
    BY <1>2, <1>5, PlaceFacts DEF Route
  <2>2. NotWholeAt(Payload(task.slot))
    BY <1>1, <1>2, <2>1 DEF Target
  <2> QED
    BY <1>2, <1>3, <1>5, <2>2, EndsAfterUnlink
<1> QED
  BY <1>4, <1>5 DEF EndFailed

\* What left the Trash has left its slot; a cut item turns back.
LEMMA EndMovedStep ==
    ASSUME TrashInv, EndMoved
    PROVE  TrashInv'
<1>1. task.verb \in Verbs /\ task.phase = "moved"
  BY DEF EndMoved, At
<1>2. /\ TypeOK /\ task \in Moves /\ task.entry \in Contents /\ task.slot \in Slots
      /\ task.from \in Places /\ task.to \in Places
      /\ Route /\ Source /\ Target /\ Recorded
  BY <1>1, UnderWay
<1>3. UNCHANGED <<tree, payload, hidden, kept>>
  BY DEF EndMoved
<1>4. CASE Keep
  BY <1>3, <1>4, EndsQuietly DEF Keep
<1>5. CASE task.verb \in {"restore", "export"} /\ Unlink(task.slot)
  <2>1. task.from = Payload(task.slot) /\ task.from.in = "payload"
    BY <1>2, <1>5, PlaceFacts DEF Route
  <2>2. NotWholeAt(Payload(task.slot))
    BY <1>1, <1>2, <1>5, <2>1, NotWhole DEF Source, Moving, NotWholeAt
  <2> QED
    BY <1>2, <1>3, <1>5, <2>2, EndsAfterUnlink
<1>6. CASE /\ task.verb = "export" /\ UNCHANGED record
           /\ task' = [task EXCEPT !.verb = "move", !.from = task.to,
                                   !.to = task.from, !.phase = "move"]
  <2>1. task' \in Moves
    BY <1>2, <1>6 DEF Moves, Verbs, Phases
  <2>2. task'.verb = "move" /\ task'.from = task.to /\ task'.to = task.from
        /\ task'.phase = "move"
    BY <1>2, <1>6 DEF Moves
  <2>3. TypeOK'
    BY <1>2, <1>3, <1>6, <2>1 DEF TypeOK, Moves
  <2>4. NothingLost' /\ TrashIsListed'
    BY <1>3, <1>6, QuietStep
  <2>5. \A q \in Places : Entry(q)' = Entry(q)
    BY <1>3, EntriesStay
  <2>6. Route'
    BY <1>2, <2>2 DEF Route
  <2>7. Source'
    BY <2>2 DEF Source, Staged
  <2>8. Target'
    BY <1>1, <1>2, <1>6, <2>2, <2>5 DEF Source, Target, Moving
  <2>9. Recorded'
    BY <1>1, <1>2, <1>6, <2>2 DEF Recorded
  <2>10. Removing'
    BY <2>2, NoRemoval DEF Verbs
  <2> QED
    BY <2>3, <2>4, <2>6, <2>7, <2>8, <2>9, <2>10 DEF TrashInv, Flight
<1> QED
  BY <1>4, <1>5, <1>6 DEF EndMoved

-----------------------------------------------------------------------------
(* Removal for good.                                                        *)

\* What the user deletes is nobody's file from then on.
LEMMA PurgeBegins ==
    ASSUME TrashInv, NEW k \in Slots, Purge(k)
    PROVE  TrashInv'
<1>1. TypeOK /\ payload[k] # Absent
  BY DEF TrashInv, Purge, Listed
<1>2. /\ UNCHANGED <<tree, payload, record, hidden>>
      /\ kept' = (kept \cup Lying) \ {f \in Files : payload[k] = Whole(f)}
      /\ task' = [verb |-> "purge", slot |-> k]
  BY DEF Purge
<1>3. task' \in Removals /\ task'.verb = "purge" /\ task'.slot = k
  BY <1>2 DEF Removals
<1>4. TypeOK'
  BY <1>1, <1>2, <1>3 DEF TypeOK, Removals, Lying
<1>5. \A q \in Places : Entry(q)' = Entry(q)
  BY <1>2, EntriesStay
<1>6. NothingLost'
  BY <1>2, <1>5 DEF TrashInv, NothingLost, Lying, Whole
<1>7. TrashIsListed'
  BY <1>2 DEF TrashInv, TrashIsListed, Listed
<1>8. Flight'
  BY <1>3 DEF Flight, Verbs
<1>9. Removing'
  BY <1>1, <1>2, <1>3, <1>4 DEF Removing, Whole, TypeOK, Lying
<1> QED
  BY <1>4, <1>6, <1>7, <1>8, <1>9 DEF TrashInv

\* The removal takes the entry, half of it, or the record that is left.
LEMMA PurgeGoesOn ==
    ASSUME TrashInv, PurgeStep
    PROVE  TrashInv'
<1>1. task.verb \in {"purge", "unlink"}
  BY DEF PurgeStep
<1>2. TypeOK /\ task \in Removals /\ task.slot \in Slots /\ Removing
  BY <1>1, TaskKinds DEF TrashInv, Removals
<1>3. UNCHANGED <<tree, hidden, kept>>
  BY DEF PurgeStep
<1>4. /\ Payload(task.slot) \in Places /\ Entry(Payload(task.slot)) = payload[task.slot]
      /\ \A q \in Places : q # Payload(task.slot) => q.in = "tree" \/ q.at # task.slot
  BY <1>2, PlaceFacts DEF Entry, Payload
<1>5. ASSUME task.verb = "purge", UNCHANGED record,
             NEW e \in Contents \cup {Absent}, payload' = [payload EXCEPT ![task.slot] = e],
             e = Absent \/ ~e.whole,
             task' = Idle \/ (e = Absent /\ task' = [task EXCEPT !.verb = "unlink"])
      PROVE  TrashInv'
  <2>1. /\ payload[task.slot] # Absent
        /\ \A f \in kept : payload[task.slot] # Whole(f)
    BY <1>2, <1>5 DEF Removing
  <2>2. payload' \in [Slots -> Contents \cup {Absent}] /\ payload'[task.slot] = e
        /\ \A k \in Slots : k # task.slot => payload'[k] = payload[k]
    BY <1>2, <1>5 DEF TypeOK
  <2>3. \A q \in Places : q # Payload(task.slot) => Entry(q)' = Entry(q)
    BY <1>3, <1>4, <2>2, PlaceFacts DEF Entry
  <2>4. task' = Idle \/ (e = Absent /\ task' = [verb |-> "unlink", slot |-> task.slot])
    BY <1>2, <1>5 DEF Removals
  <2>5. TypeOK'
    BY <1>2, <1>3, <1>5, <2>2, <2>4 DEF TypeOK
  <2>6. NothingLost'
    <3>1. ASSUME NEW f \in kept, Entry(Payload(task.slot)) = Whole(f) PROVE FALSE
      BY <1>4, <2>1, <3>1
    <3>2. ASSUME NEW f \in kept PROVE Somewhere(Whole(f))'
      <4>1. CASE Whole(f) \in hidden
        BY <1>3, <4>1 DEF Somewhere, Whole
      <4>2. CASE \E q \in Places : Entry(q) = Whole(f)
        BY <2>3, <3>1, <4>2 DEF Somewhere, Whole
      <4> QED
        BY <4>1, <4>2 DEF TrashInv, NothingLost
    <3> QED
      BY <1>3, <3>2, StillThere DEF TrashInv
  <2>7. TrashIsListed'
    BY <1>5, <2>2 DEF TrashInv, TrashIsListed, Listed
  <2>8. Flight'
    BY <2>4, AtRest DEF Flight, Verbs
  <2>9. Removing'
    BY <1>2, <2>2, <2>4, AtRest DEF Removing
  <2> QED
    BY <2>5, <2>6, <2>7, <2>8, <2>9 DEF TrashInv
<1>6. CASE /\ task.verb = "purge" /\ payload' = [payload EXCEPT ![task.slot] = Absent]
           /\ task' = [task EXCEPT !.verb = "unlink"] /\ UNCHANGED record
  BY <1>5, <1>6
<1>7. CASE /\ task.verb = "purge" /\ task' = Idle /\ UNCHANGED record
           /\ payload' = [payload EXCEPT ![task.slot] = CutShort(@)]
  <2>1. payload[task.slot] \in Contents
    BY <1>2, <1>7 DEF Removing, TypeOK
  <2>2. CutShort(payload[task.slot]) \in Contents /\ ~CutShort(payload[task.slot]).whole
    BY <2>1 DEF CutShort, Contents
  <2>3. payload' = [payload EXCEPT ![task.slot] = CutShort(payload[task.slot])]
    BY <1>2, <1>7 DEF TypeOK
  <2> QED
    BY <1>5, <1>7, <2>2, <2>3
<1>8. CASE task.verb = "unlink" /\ Keep /\ UNCHANGED payload
  BY <1>3, <1>8, EndsQuietly DEF Keep
<1>9. CASE task.verb = "unlink" /\ Unlink(task.slot) /\ UNCHANGED payload
  <2>1. NotWholeAt(Payload(task.slot))
    <3>1. \A f \in Files : Whole(f) # Absent
      <4>1. \A f \in Files : Whole(f) \in Contents
        BY DEF Whole, Contents
      <4> QED
        BY TrashAssumption, <4>1
    <3> QED
      BY <1>2, <1>4, <1>9, <3>1 DEF Removing, NotWholeAt
  <2> QED
    BY <1>2, <1>3, <1>9, <2>1, EndsAfterUnlink
<1> QED
  BY <1>6, <1>7, <1>8, <1>9 DEF PurgeStep

-----------------------------------------------------------------------------
(* The rest of the system.                                                  *)

\* What another program does to a name is no loss of what was promised: e is a
\* file nobody was promised, in the way of the command or out of it, or none.
LEMMA Outside ==
    ASSUME TrashInv, NEW n \in Names, NEW e \in Contents \cup {Absent},
           tree' = [tree EXCEPT ![n] = e],
           UNCHANGED <<payload, record, hidden, task>>, kept' \subseteq Files,
           \/ e = Absent /\ kept' = kept \ {tree[n].file} /\ tree[n] # Absent
           \/ /\ tree[n] = Absent
              /\ \E f \in Files : /\ e = Whole(f) /\ f \notin Lying \cup kept
                                  /\ Whole(f) \notin hidden
                                  /\ kept' = IF Endangered(n) THEN kept ELSE kept \cup {f}
    PROVE  /\ TypeOK' /\ TrashIsListed' /\ Flight'
           /\ Name(n) \in Places
           /\ \A q \in Places : Entry(q)' = IF q = Name(n) THEN e ELSE Entry(q)
<1>1. TypeOK
  BY DEF TrashInv
<1>2. TypeOK'
  BY <1>1 DEF TypeOK
<1>3. Name(n) \in Places /\ Name(n).in = "tree" /\ Write(Name(n), e)
      /\ Entry(Name(n)) = tree[n]
  BY PlaceFacts DEF Write, Entry
<1>4. \A q \in Places : Entry(q)' = IF q = Name(n) THEN e ELSE Entry(q)
  BY <1>1, <1>3, WriteFacts
<1>5. TrashIsListed'
  BY DEF TrashInv, TrashIsListed, Listed
<1>6. /\ kept \subseteq Files
      /\ \A f \in Files : Whole(f) # Absent
  <2>1. \A f \in Files : Whole(f) \in Contents
    BY DEF Whole, Contents
  <2> QED
    BY <1>1, <2>1, TrashAssumption DEF TypeOK
<1>7. ASSUME task.verb \in Verbs
      PROVE  Route' /\ Source' /\ Target' /\ Recorded'
  <2>1. /\ task \in Moves /\ task.from \in Places /\ task.to \in Places
        /\ task.entry \in Contents
        /\ Route /\ Source /\ Target /\ Recorded
    BY <1>7, UnderWay
  <2>2. (Moving' <=> Moving) /\ task' = task
    BY DEF Moving
  <2>3. Route' /\ Recorded'
    BY <2>1, <2>2 DEF Route, Recorded
  <2>4. \A p \in Places : p.in = "payload" => Entry(p)' = Entry(p)
    BY <1>3, <1>4
  <2>5. ASSUME NEW p \in Places, Unpromised(p), p = Name(n) => Endangered(n)
        PROVE  Unpromised(p)'
    <3> SUFFICES ASSUME NEW f \in kept', Entry(p)' = Whole(f)
                 PROVE  FALSE
      BY DEF Unpromised, Whole
    <3>1. CASE e = Absent
      BY <1>4, <1>6, <2>5, <3>1 DEF Unpromised
    <3>2. CASE e # Absent
      <4>1. PICK g \in Files : /\ e = Whole(g) /\ g \notin Lying \cup kept
                               /\ kept' = IF Endangered(n) THEN kept ELSE kept \cup {g}
        BY <3>2
      <4>2. CASE p = Name(n)
        BY <1>4, <2>5, <4>1, <4>2 DEF Whole
      <4>3. CASE p # Name(n)
        BY <1>4, <2>5, <4>1, <4>3 DEF Unpromised, Lying, Whole
      <4> QED
        BY <4>2, <4>3
    <3> QED
      BY <3>1, <3>2
  <2>6. Source'
    <3>1. task.phase \in Staged /\ Moving => Unpromised(task.from)'
      BY <1>7, <2>1, <2>5 DEF Source, Staged, Endangered
    <3> QED
      BY <2>1, <2>2, <2>4, <3>1 DEF Source
  <2>7. task.phase \in {"rename", "fill", "unstage", "discard"} => Unpromised(task.to)'
    BY <1>7, <2>1, <2>5 DEF Target, Endangered
  <2>8. ASSUME NEW c, c # Absent, c = task.entry \/ c = CutShort(task.entry),
               task.entry \in hidden, Arrived(c)
        PROVE  Arrived(c)'
    <3> SUFFICES ASSUME NEW f \in kept', task.entry = Whole(f)
                 PROVE  Entry(task.to)' = c
      BY <2>2 DEF Arrived, Whole
    <3>1. f \in kept
      BY <2>8
    <3>2. Entry(task.to) = c
      BY <2>8, <3>1 DEF Arrived
    <3>3. task.to # Name(n)
      <4>1. ASSUME e = Absent, task.to = Name(n) PROVE FALSE
        <5>1. tree[n].file = f
          BY <1>3, <2>8, <3>2, <4>1 DEF CutShort, Whole
        <5> QED
          BY <4>1, <5>1, <1>6
      <4>2. ASSUME tree[n] = Absent PROVE task.to # Name(n)
        BY <1>3, <2>8, <3>2, <4>2
      <4> QED
        BY <4>1, <4>2, <1>6
    <3> QED
      BY <1>4, <2>1, <3>2, <3>3
  <2>9. CutShort(task.entry) # Absent /\ task.entry # Absent
    BY <2>1, TrashAssumption DEF CutShort, Contents
  <2>10. Target'
    <3>1. task.phase = "fill" /\ Moving => Arrived(CutShort(task.entry))'
      BY <2>1, <2>8, <2>9 DEF Target, Source, Staged
    <3>2. task.phase = "cleanup" => Arrived(task.entry)'
      BY <2>1, <2>8, <2>9 DEF Target, Source
    <3>3. NotWholeAt(task.to) /\ task.to.in = "payload" => NotWholeAt(task.to)'
      BY <2>1, <2>4 DEF NotWholeAt, Whole
    <3> QED
      BY <2>1, <2>2, <2>4, <2>7, <3>1, <3>2, <3>3
         DEF Target, Unpromised, NotWholeAt, Arrived, CutShort
  <2> QED
    BY <2>3, <2>6, <2>10
<1>8. Flight'
  BY <1>7 DEF Flight
<1> QED
  BY <1>2, <1>3, <1>4, <1>5, <1>8

\* A file is created under a free name.
LEMMA CreateStep ==
    ASSUME TrashInv, NEW n \in Names, NEW f \in Files, Create(n, f)
    PROVE  TrashInv'
<1>1. /\ tree[n] = Absent
      /\ tree' = [tree EXCEPT ![n] = Whole(f)]
      /\ kept' = IF Endangered(n) THEN kept ELSE kept \cup {f}
      /\ UNCHANGED <<payload, record, hidden, task>>
      /\ Whole(f) \notin hidden /\ f \notin Lying
  BY DEF Create
<1>2. TypeOK
  BY DEF TrashInv
<1>3. Whole(f) \in Contents
  BY DEF Whole, Contents
<1>4. kept' \subseteq Files
  BY <1>1, <1>2 DEF TypeOK
<1>5. f \notin kept
  BY <1>1 DEF TrashInv, NothingLost, Lying
<1>6. /\ TypeOK' /\ TrashIsListed' /\ Flight' /\ Name(n) \in Places
      /\ \A q \in Places : Entry(q)' = IF q = Name(n) THEN Whole(f) ELSE Entry(q)
  BY <1>1, <1>3, <1>4, <1>5, Outside
<1>7. Entry(Name(n)) = Absent
  BY <1>1 DEF Entry, Name
<1>8. NothingLost'
  <2>1. ASSUME NEW g \in kept' PROVE Somewhere(Whole(g))'
    <3>1. CASE g = f
      BY <1>6, <3>1 DEF Somewhere, Whole
    <3>2. CASE g # f
      <4>1. g \in kept /\ g \in Files
        BY <1>1, <1>2, <3>2 DEF TypeOK
      <4>2. Whole(g) # Absent
        BY <1>3, <4>1, NotWhole
      <4>3. Somewhere(Whole(g))
        BY <4>1 DEF TrashInv, NothingLost, Somewhere
      <4> QED
        BY <1>1, <1>6, <1>7, <4>2, <4>3 DEF Somewhere, Whole
    <3> QED
      BY <3>1, <3>2
  <2> QED
    BY <2>1 DEF NothingLost, Somewhere
<1>9. Removing'
  <2>1. Removing /\ (task.verb = "purge" => task.slot \in Slots)
    BY <1>2, TaskKinds DEF TrashInv, Removals
  <2>2. ASSUME task.verb = "purge" PROVE payload[task.slot] # Whole(f)
    <3>1. Payload(task.slot) \in Places /\ Entry(Payload(task.slot)) = payload[task.slot]
      BY <2>1, <2>2, PlaceFacts DEF Entry
    <3> QED
      BY <1>1, <3>1 DEF Lying
  <2> QED
    BY <1>1, <2>1, <2>2 DEF Removing, Whole
<1> QED
  BY <1>6, <1>8, <1>9 DEF TrashInv

\* A file is removed for good.
LEMMA RemoveStep ==
    ASSUME TrashInv, NEW n \in Names, Remove(n)
    PROVE  TrashInv'
<1>1. /\ tree[n] # Absent
      /\ tree' = [tree EXCEPT ![n] = Absent] /\ kept' = kept \ {tree[n].file}
      /\ UNCHANGED <<payload, record, hidden, task>>
  BY DEF Remove
<1>2. kept' \subseteq kept /\ kept' \subseteq Files
  BY <1>1 DEF TrashInv, TypeOK
<1>3. /\ TypeOK' /\ TrashIsListed' /\ Flight' /\ Name(n) \in Places
      /\ \A q \in Places : Entry(q)' = IF q = Name(n) THEN Absent ELSE Entry(q)
  BY <1>1, <1>2, Outside
<1>4. Entry(Name(n)) = tree[n]
  BY DEF Entry, Name
<1>5. NothingLost'
  <2>1. ASSUME NEW g \in kept', Somewhere(Whole(g)) PROVE Somewhere(Whole(g))'
    <3>1. Entry(Name(n)) # Whole(g)
      BY <1>1, <1>4 DEF Whole
    <3> QED
      BY <1>1, <1>3, <2>1, <3>1 DEF Somewhere, Whole
  <2> QED
    BY <1>2, <2>1, StillThere DEF TrashInv
<1>6. Removing'
  BY <1>1, <1>2 DEF TrashInv, Removing, Whole
<1> QED
  BY <1>3, <1>5, <1>6 DEF TrashInv

\* A hidden remnant is removed for good.
LEMMA RemoveHiddenStep ==
    ASSUME TrashInv, NEW e \in hidden, RemoveHidden(e)
    PROVE  TrashInv'
<1>1. /\ task' = Idle /\ hidden' = hidden \ {e} /\ kept' = kept \ {e.file}
      /\ UNCHANGED <<tree, payload, record>>
  BY DEF RemoveHidden
<1>2. kept' \subseteq kept
  BY <1>1
<1>3. TypeOK'
  BY <1>1, <1>2 DEF TrashInv, TypeOK
<1>4. \A q \in Places : Entry(q)' = Entry(q)
  BY <1>1, EntriesStay
<1>5. NothingLost'
  <2>1. ASSUME NEW g \in kept', Somewhere(Whole(g)) PROVE Somewhere(Whole(g))'
    <3>1. e # Whole(g)
      BY <1>1 DEF Whole
    <3> QED
      BY <1>1, <1>4, <2>1, <3>1 DEF Somewhere, Whole
  <2> QED
    BY <1>2, <2>1, StillThere DEF TrashInv
<1>6. TrashIsListed'
  BY <1>1 DEF TrashInv, TrashIsListed, Listed
<1> QED
  BY <1>1, <1>3, <1>5, <1>6, AtRest DEF TrashInv

-----------------------------------------------------------------------------
LEMMA InitInv ==
    ASSUME Init
    PROVE  TrashInv
<1>1. \A f \in Files : Whole(f) \in Contents
  BY DEF Whole, Contents
<1>2. TypeOK
  BY <1>1 DEF Init, TypeOK
<1>3. NothingLost
  <2>1. ASSUME NEW f \in kept PROVE \E p \in Places : Entry(p) = Whole(f)
    <3>1. PICK n \in Names : tree[n] = Whole(f)
      BY <2>1 DEF Init
    <3>2. Name(n) \in Places /\ Entry(Name(n)) = Whole(f)
      BY <3>1, PlaceFacts DEF Entry
    <3> QED
      BY <3>2
  <2> QED
    BY <2>1 DEF NothingLost
<1>4. TrashIsListed
  BY DEF Init, TrashIsListed
<1>5. task.verb = "idle"
  BY DEF Init, Idle
<1>6. Flight /\ Removing
  BY <1>5 DEF Flight, Removing, Verbs
<1> QED
  BY <1>2, <1>3, <1>4, <1>6 DEF TrashInv

LEMMA NextInv ==
    ASSUME TrashInv, [Next]_trashVars
    PROVE  TrashInv'
<1>1. CASE \E n \in Names : Put(n)
  BY <1>1, PutStep
<1>2. CASE \E n \in Names : Remove(n)
  BY <1>2, RemoveStep
<1>3. CASE \E n, m \in Names : Paste(m, n)
  BY <1>3, PasteStep
<1>4. ASSUME NEW n \in Names, NEW k \in Slots, Restore(k, n) \/ Export(k, n)
      PROVE  TrashInv'
  <2>1. k \in Listed
    BY <1>4 DEF Restore, Export
  <2>2. \E verb \in {"restore", "export", "copy"}, phase \in {"move", "create"} :
           /\ phase = "create" => verb = "copy"
           /\ Begin(verb, Payload(k), Name(n), phase, k)
    BY <1>4 DEF Restore, Export
  <2> QED
    BY <2>1, <2>2, TakenOut
<1>5. CASE \E n \in Names, f \in Files : Create(n, f)
  BY <1>5, CreateStep
<1>6. CASE \E k \in Slots : Purge(k)
  BY <1>6, PurgeBegins
<1>7. CASE \E e \in hidden : RemoveHidden(e)
  BY <1>7, RemoveHiddenStep
<1>8. CASE WriteRecord
  BY <1>8, WriteRecordStep
<1>9. CASE MoveBegin
  BY <1>9, MoveBeginStep
<1>20. CASE MoveRename
  BY <1>20, MoveRenameStep
<1>10. CASE CopyCreate
  BY <1>10, CopyCreateStep
<1>11. CASE CopyFill
  BY <1>11, CopyFillStep
<1>12. CASE Unstage
  BY <1>12, UnstageStep
<1>13. CASE Discard
  BY <1>13, DiscardStep
<1>14. CASE Cleanup
  BY <1>14, CleanupStep
<1>15. CASE EndFailed
  BY <1>15, EndFailedStep
<1>16. CASE EndMoved
  BY <1>16, EndMovedStep
<1>17. CASE PurgeStep
  BY <1>17, PurgeGoesOn
<1>18. CASE Crash
  BY <1>18, EndsQuietly DEF Crash
<1>19. CASE UNCHANGED trashVars
  <2>1. UNCHANGED <<tree, payload, record, hidden, task, kept>>
    BY <1>19 DEF trashVars
  <2>2. NothingLost' /\ TrashIsListed' /\ \A q \in Places : Entry(q)' = Entry(q)
    BY <2>1, QuietStep, EntriesStay
  <2>3. TypeOK' /\ Removing'
    BY <2>1 DEF TrashInv, TypeOK, Removing
  <2>4. ASSUME task.verb \in Verbs PROVE Route' /\ Source' /\ Target' /\ Recorded'
    <3>1. task.from \in Places /\ task.to \in Places
          /\ Route /\ Source /\ Target /\ Recorded
      BY <2>4, UnderWay
    <3>2. Route' /\ Recorded' /\ (Moving' <=> Moving)
      BY <2>1, <3>1 DEF Route, Recorded, Moving
    <3>3. /\ Entry(task.from)' = Entry(task.from) /\ Entry(task.to)' = Entry(task.to)
          /\ Unpromised(task.from)' <=> Unpromised(task.from)
          /\ Unpromised(task.to)' <=> Unpromised(task.to)
          /\ NotWholeAt(task.to)' <=> NotWholeAt(task.to)
      BY <2>1, <2>2, <3>1 DEF Unpromised, NotWholeAt, Whole
    <3>4. Source'
      BY <2>1, <3>1, <3>2, <3>3 DEF Source, Unpromised
    <3>5. Target'
      BY <2>1, <3>1, <3>2, <3>3 DEF Target, Arrived, Unpromised, NotWholeAt, CutShort, Whole
    <3> QED
      BY <3>1, <3>2, <3>4, <3>5
  <2> QED
    BY <2>1, <2>2, <2>3, <2>4 DEF TrashInv, Flight
<1> QED
  BY <1>1, <1>2, <1>3, <1>4, <1>5, <1>6, <1>7, <1>8, <1>9, <1>10, <1>11, <1>12, <1>13,
     <1>14, <1>15, <1>16, <1>17, <1>18, <1>19, <1>20 DEF Next

-----------------------------------------------------------------------------
(***************************************************************************)
(* The inductive invariant of the Trash (gem_trash.c, os.c).                *)
(***************************************************************************)
THEOREM TrashInvariant == Spec => []TrashInv
<1>1. Init => TrashInv
  BY InitInv
<1>2. TrashInv /\ [Next]_trashVars => TrashInv'
  BY NextInv
<1> QED
  BY <1>1, <1>2, PTL DEF Spec

(***************************************************************************)
(* Every variable keeps its type, the command under way included.           *)
(***************************************************************************)
THEOREM TrashTypeCorrect == Spec => []TypeOK
<1>1. TrashInv => TypeOK
  BY DEF TrashInv
<1> QED
  BY <1>1, TrashInvariant, PTL

(***************************************************************************)
(* No failure, race or crash between two system calls loses a file that the *)
(* user did not delete for good: it is whole under some name.               *)
(***************************************************************************)
THEOREM NoFileLost == Spec => []NothingLost
<1>1. TrashInv => NothingLost
  BY DEF TrashInv
<1> QED
  BY <1>1, TrashInvariant, PTL

(***************************************************************************)
(* What lies whole in the Trash is listed there and can be restored.        *)
(***************************************************************************)
THEOREM TrashListsAll == Spec => []TrashIsListed
<1>1. TrashInv => TrashIsListed
  BY DEF TrashInv
<1> QED
  BY <1>1, TrashInvariant, PTL

-----------------------------------------------------------------------------
(* Launching.  OwnCommand is not inductive: shel_read() finds a record by   *)
(* id or by pid, so an id must never be both a record's and a stranger's.   *)
(* LaunchInv says whose every record is (Launching), that no two share an   *)
(* id or a process (Distinct), and that an application that has no record   *)
(* runs under an id that is no record's (Strangers).  Strangers is what     *)
(* fails when somebody else's appl_init() may overtake that of a launched   *)
(* application.                                                             *)

\* A record of a process that runs under it or has ended.
Launching(row, procs) ==
    /\ row.id \in Ids /\ row.pid \in Processes /\ row.cmd \in Commands
    /\ appId[row.pid] \in {0, row.id}
    /\ \/ procs[row.pid].state = "exited"
       \/ /\ procs[row.pid].state = "running"
          /\ procs[row.pid].env = row.id
          /\ procs[row.pid].cmd = row.cmd

Distinct(table) ==
    \A r, s \in Records : r # s /\ table[r].id # 0 /\ table[s].id # 0 =>
        table[r].id # table[s].id /\ table[r].pid # table[s].pid

Strangers(table) ==
    \A p \in Processes : appId[p] # 0 /\ (\A r \in Records : table[r].pid # p) =>
        \A r \in Records : table[r].id # appId[p]

\* Of the table and the processes, before or after exited children are reaped.
TableInv(table, procs) ==
    /\ \A r \in Records : table[r] = NoLaunch \/ Launching(table[r], procs)
    /\ Distinct(table)
    /\ Strangers(table)

LaunchInv == LaunchTypeOK /\ TableInv(launches, process)

-----------------------------------------------------------------------------
(* Ids and records in order.                                                *)

\* A set of naturals has a least element, which Min picks.
LEMMA LeastNat ==
    ASSUME NEW T, T \subseteq Nat, T # {}
    PROVE  Min(T) \in T /\ \A y \in T : Min(T) <= y
<1> DEFINE Less == OpToRel(<, Nat)
<1>1. IsWellFoundedOn(Less, Nat)
  BY NatLessThanWellFounded
<1>2. \A x, y \in Nat : <<y, x>> \in Less <=> y < x
  BY DEF OpToRel
<1> HIDE DEF Less
<1>3. PICK x \in T : \A y \in T : <<y, x>> \notin Less
  BY <1>1, WFMin
<1>4. \A y \in T : x <= y
  <2> TAKE y \in T
  <2>1. x \in Nat /\ y \in Nat
    BY <1>3
  <2>2. ~(y < x)
    BY <1>2, <1>3, <2>1, Zenon
  <2>3. \A m, n \in Nat : ~(n < m) => m <= n
    OBVIOUS
  <2> QED
    BY <2>1, <2>2, <2>3, Zenon
<1> QED
  BY <1>4 DEF Min

\* The ids that are tried are ids, and the first is the one to start with.
LEMMA TriedFacts ==
    ASSUME NEW start \in Ids
    PROVE  /\ \A n \in Nat : Tried(start, n) \in Ids
           /\ Tried(start, 0) = start
<1>1. LastId \in Nat /\ LastId > 0 /\ start \in 1..LastId
  BY LaunchAssumption DEF Ids
<1>2. \A n \in Nat : (start - 1 + n) % LastId \in 0..(LastId - 1)
  BY <1>1
<1>3. (start - 1 + 0) % LastId = start - 1
  BY <1>1
<1> QED
  BY <1>1, <1>2, <1>3 DEF Tried, Ids

\* An id that is found is not taken, and none is found only when all are taken;
\* the one asked for is found when it is free.
LEMMA FirstOutsideFacts ==
    ASSUME NEW start \in Ids, NEW taken
    PROVE  /\ FirstOutside(start, taken) \in 0..LastId
           /\ FirstOutside(start, taken) # 0 => FirstOutside(start, taken) \notin taken
           /\ start \notin taken => FirstOutside(start, taken) = start
<1> DEFINE fits == {n \in 0..(LastId - 1) : Tried(start, n) \notin taken}
<1>1. LastId \in Nat /\ LastId > 0
  BY LaunchAssumption
<1>2. fits \subseteq Nat
  BY <1>1
<1>3. FirstOutside(start, taken) = IF fits = {} THEN 0 ELSE Tried(start, Min(fits))
  BY DEF FirstOutside
<1>4. CASE fits = {}
  <2>1. FirstOutside(start, taken) = 0
    BY <1>3, <1>4
  <2>2. 0 \notin fits
    BY <1>4
  <2>3. start \in taken
    BY <1>1, <2>2, TriedFacts
  <2> QED
    BY <1>1, <2>1, <2>3
<1>5. CASE fits # {}
  <2>1. Min(fits) \in fits /\ \A y \in fits : Min(fits) <= y
    BY <1>2, <1>5, LeastNat
  <2>2. Tried(start, Min(fits)) \in Ids /\ Tried(start, Min(fits)) \notin taken
    BY <1>2, <2>1, TriedFacts
  <2>3. ASSUME start \notin taken PROVE Tried(start, Min(fits)) = start
    <3>1. 0 \in fits
      BY <1>1, <2>3, TriedFacts
    <3>2. Min(fits) = 0
      BY <1>2, <2>1, <3>1
    <3> QED
      BY <3>2, TriedFacts
  <2> QED
    BY <1>1, <1>3, <1>5, <2>2, <2>3 DEF Ids
<1> QED
  BY <1>4, <1>5

-----------------------------------------------------------------------------
(* The table.                                                               *)

LEMMA FreeFacts ==
    /\ NoLaunch.id = 0 /\ NoLaunch.pid = Nothing
    /\ \A rec, procs : Launching(rec, procs) => rec.id # 0
    /\ \A rec, procs : Launching(rec, procs) => rec.pid # Nothing
BY LaunchAssumption DEF NoLaunch, Launching, Ids

\* Reaping takes the records of the dead and nothing else, and a process that
\* may be spawned then has no record.
LEMMA ReapedFacts ==
    ASSUME LaunchInv
    PROVE  /\ Reaped \in [Records -> [id : 0..LastId, pid : Processes \union {Nothing},
                                      cmd : Commands \union {Nothing}]]
           /\ Buried \in [Processes -> ProcessInfo]
           /\ TableInv(Reaped, Buried)
           /\ \A p \in Processes : Buried[p].state = "unused" =>
                 \A r \in Records : Reaped[r].pid # p
<1>1. LaunchTypeOK /\ TableInv(launches, process)
  BY DEF LaunchInv
<1>2. NoLaunch \in [id : 0..LastId, pid : Processes \union {Nothing}, cmd : Commands \union {Nothing}]
  BY LaunchAssumption DEF NoLaunch
<1>3. Reaped \in [Records -> [id : 0..LastId, pid : Processes \union {Nothing},
                              cmd : Commands \union {Nothing}]]
  BY <1>1, <1>2 DEF Reaped, LaunchTypeOK
<1>4. Unused \in ProcessInfo
  BY LaunchAssumption DEF Unused, ProcessInfo
<1>5. Buried \in [Processes -> ProcessInfo]
  BY <1>1, <1>4 DEF Buried, LaunchTypeOK
<1>6. \A r \in Records : \/ Reaped[r] = NoLaunch
                         \/ /\ Reaped[r] = launches[r]
                            /\ Launching(launches[r], process)
                            /\ process[launches[r].pid].state = "running"
  <2> TAKE r \in Records
  <2>1. launches[r] = NoLaunch \/ Launching(launches[r], process)
    BY <1>1 DEF TableInv
  <2>2. Reaped[r] = NoLaunch \/ (Reaped[r] = launches[r] /\ ~(launches[r].pid # Nothing
                             /\ process[launches[r].pid].state = "exited"))
    BY DEF Reaped
  <2>3. Launching(launches[r], process) => launches[r].pid # Nothing
    BY FreeFacts
  <2> QED
    BY <2>1, <2>2, <2>3 DEF Launching
<1>7. \A p \in Processes : process[p].state # "exited" => Buried[p] = process[p]
  BY DEF Buried
<1>8. ASSUME NEW r \in Records PROVE Reaped[r] = NoLaunch \/ Launching(Reaped[r], Buried)
  BY <1>6, <1>7 DEF Launching
<1>9. Distinct(Reaped)
  BY <1>1, <1>6, FreeFacts DEF TableInv, Distinct
<1>10. Strangers(Reaped)
  <2>1. ASSUME NEW p \in Processes, appId[p] # 0, \A r \in Records : Reaped[r].pid # p,
               NEW r \in Records, Reaped[r].id = appId[p]
        PROVE  FALSE
    <3>1. Reaped[r] = launches[r] /\ launches[r].id = appId[p] /\ launches[r].pid # p
      BY <1>6, <2>1, FreeFacts
    <3>2. PICK s \in Records : launches[s].pid = p
      BY <1>1, <2>1, <3>1 DEF TableInv, Strangers
    <3>3. launches[s] # NoLaunch
      BY LaunchAssumption, <2>1, <3>2, FreeFacts
    <3>4. Launching(launches[s], process)
      BY <1>1, <3>3 DEF TableInv
    <3>5. launches[s].id = appId[p] /\ launches[s].id # 0
      BY <2>1, <3>2, <3>4 DEF Launching, Ids
    <3>6. r = s
      BY <1>1, <3>1, <3>5 DEF TableInv, Distinct
    <3> QED
      BY <3>1, <3>2, <3>6
  <2> QED
    BY <2>1 DEF Strangers
<1>11. ASSUME NEW p \in Processes, Buried[p].state = "unused", NEW r \in Records
       PROVE  Reaped[r].pid # p
  <2>1. CASE Reaped[r] = NoLaunch
    BY LaunchAssumption, <2>1, FreeFacts
  <2>2. CASE Reaped[r] # NoLaunch
    BY <1>6, <1>7, <1>11, <2>2
  <2> QED
    BY <2>1, <2>2
<1> QED
  BY <1>3, <1>5, <1>8, <1>9, <1>10, <1>11 DEF TableInv

\* A launched process has one record, which is its own.
LEMMA LaunchedFacts ==
    ASSUME LaunchInv, NEW p \in Processes, NEW r \in Records,
           launches[r].pid = p
    PROVE  /\ Launching(launches[r], process) /\ launches[r].id \in Ids
           /\ \A s \in Records : launches[s].pid = p => s = r
           /\ \A s \in Records : launches[s].id = launches[r].id => s = r
<1>1. TableInv(launches, process)
  BY DEF LaunchInv
<1>2. \A s \in Records : launches[s].pid = p => Launching(launches[s], process)
  BY LaunchAssumption, <1>1, FreeFacts DEF TableInv
<1>3. Launching(launches[r], process) /\ launches[r].id \in Ids /\ launches[r].id # 0
  BY <1>2, FreeFacts DEF Launching
<1>4. \A s \in Records : launches[s].pid = p => launches[s].id # 0
  BY <1>2, FreeFacts
<1> QED
  BY <1>1, <1>3, <1>4 DEF TableInv, Distinct

-----------------------------------------------------------------------------
(* Steps.                                                                   *)

LEMMA RefusedStep ==
    ASSUME LaunchInv, LaunchRefused
    PROVE  LaunchInv'
<1>1. launches' = Reaped /\ process' = Buried /\ appId' = appId
  BY DEF LaunchRefused
<1>2. /\ launches' \in [Records -> [id : 0..LastId, pid : Processes \union {Nothing},
                                    cmd : Commands \union {Nothing}]]
      /\ process' \in [Processes -> ProcessInfo]
      /\ TableInv(launches, process)'
  BY <1>1, ReapedFacts DEF TableInv, Launching, Distinct, Strangers
<1>3. nextId' \in Ids
  <2>1. nextId \in Ids /\ LastId \in Nat \ {0}
    BY LaunchAssumption DEF LaunchInv, LaunchTypeOK
  <2>2. ReserveId(Reaped) \in 0..LastId
    BY <2>1, FirstOutsideFacts DEF ReserveId
  <2> QED
    BY <2>1, <2>2 DEF LaunchRefused, Next1, Ids
<1> QED
  BY <1>1, <1>2, <1>3 DEF LaunchInv, LaunchTypeOK

\* The new record has an id and a process that no other has.
LEMMA ShelWriteStep ==
    ASSUME LaunchInv, NEW p \in Processes, NEW cmd \in Commands,
           NEW spawned \in BOOLEAN, ShelWrite(p, cmd, spawned)
    PROVE  LaunchInv'
<1> DEFINE id == ReserveId(Reaped)
           spare == {r \in Records : Reaped[r].id = 0}
           own == Min(spare)
<1>1. /\ Reaped \in [Records -> [id : 0..LastId, pid : Processes \union {Nothing},
                                 cmd : Commands \union {Nothing}]]
      /\ Buried \in [Processes -> ProcessInfo]
      /\ TableInv(Reaped, Buried)
      /\ \A r \in Records : Reaped[r].pid # p
  BY ReapedFacts DEF ShelWrite
<1>2. /\ id # 0 /\ appId[p] = 0 /\ spare # {} /\ appId' = appId /\ nextId' = Next1(id)
      /\ launches' = [Reaped EXCEPT ![own] =
             IF spawned THEN [id |-> id, pid |-> p, cmd |-> cmd] ELSE NoLaunch]
      /\ process' = [Buried EXCEPT ![p] =
             IF spawned THEN [state |-> "running", env |-> id, told |-> cmd, cmd |-> cmd]
             ELSE Unused]
  BY DEF ShelWrite
<1>3. id \in Ids /\ id \notin LiveIds /\ id \notin Reserved(Reaped)
  <2>1. nextId \in Ids
    BY DEF LaunchInv, LaunchTypeOK
  <2>2. id \in 0..LastId /\ id \notin LiveIds \union Reserved(Reaped)
    BY <1>2, <2>1, FirstOutsideFacts DEF ReserveId
  <2> QED
    BY LaunchAssumption, <1>2, <2>2 DEF Ids
<1>4. \A r \in Records : Reaped[r].id # id
  BY <1>2, <1>3 DEF Reserved
<1>5. \A q \in Processes : appId[q] # id
  BY <1>2, <1>3 DEF LiveIds, Live
<1>6. own \in Records /\ Reaped[own].id = 0
  <2>1. spare \subseteq Nat
    BY LaunchAssumption DEF Records
  <2> HIDE DEF spare
  <2>2. own \in spare
    BY <1>2, <2>1, LeastNat
  <2> QED
    BY <2>2 DEF spare
<1> DEFINE new == [id |-> id, pid |-> p, cmd |-> cmd]
<1> HIDE DEF id, own, spare
<1>7. /\ launches'[own] = IF spawned THEN new ELSE NoLaunch
      /\ \A r \in Records : r # own => launches'[r] = Reaped[r]
  BY <1>1, <1>2, <1>6
<1>8. /\ spawned => process'[p].state = "running" /\ process'[p].env = id /\ process'[p].cmd = cmd
      /\ \A q \in Processes : q # p => process'[q] = Buried[q]
  BY <1>1, <1>2
<1>9. new.id = id /\ new.pid = p /\ new.cmd = cmd
  OBVIOUS
<1> HIDE DEF new
<1>10. ASSUME NEW r \in Records PROVE launches'[r] = NoLaunch \/ Launching(launches[r], process)'
  <2>1. CASE r # own
    <3>1. Reaped[r] = NoLaunch \/ Launching(Reaped[r], Buried)
      BY <1>1 DEF TableInv
    <3> QED
      BY <1>1, <1>2, <1>7, <1>8, <2>1, <3>1 DEF Launching
  <2>2. CASE r = own /\ spawned
    BY <1>2, <1>3, <1>7, <1>8, <1>9, <2>2 DEF Launching
  <2>3. CASE r = own /\ ~spawned
    BY <1>7, <2>3
  <2> QED
    BY <2>1, <2>2, <2>3
<1>11. Distinct(launches)'
  <2>1. Distinct(Reaped)
    BY <1>1 DEF TableInv
  <2>2. \A r \in Records : r # own =>
           launches'[r].id = Reaped[r].id /\ launches'[r].pid = Reaped[r].pid
    BY <1>7
  <2>3. launches'[own].id # 0 => launches'[own].id = id /\ launches'[own].pid = p
    BY <1>7, <1>9, FreeFacts
  <2> QED
    BY <1>1, <1>4, <2>1, <2>2, <2>3 DEF Distinct
<1>12. Strangers(launches)'
  <2>1. ASSUME NEW q \in Processes, appId[q] # 0, \A r \in Records : launches'[r].pid # q,
               NEW r \in Records
        PROVE  launches'[r].id # appId[q]
    <3>1. \A s \in Records : Reaped[s].pid # q
      <4>1. ASSUME NEW s \in Records, Reaped[s].pid = q PROVE FALSE
        <5>1. s = own
          BY <1>7, <2>1, <4>1
        <5>2. Reaped[own] # NoLaunch
          BY LaunchAssumption, <4>1, <5>1, FreeFacts
        <5>3. Reaped[own].id # 0
          BY <1>1, <1>6, <5>2, FreeFacts DEF TableInv
        <5> QED
          BY <1>6, <5>3
      <4> QED
        BY <4>1
    <3>2. Reaped[r].id # appId[q]
      BY <1>1, <2>1, <3>1 DEF TableInv, Strangers
    <3> QED
      BY <1>5, <1>7, <1>9, <2>1, <3>2, FreeFacts
  <2> QED
    BY <1>2, <2>1 DEF Strangers
<1>13. LaunchTypeOK'
  <2>1. new \in [id : 0..LastId, pid : Processes \union {Nothing},
                 cmd : Commands \union {Nothing}]
    BY <1>3 DEF new, Ids
  <2>2. NoLaunch \in [id : 0..LastId, pid : Processes \union {Nothing},
                  cmd : Commands \union {Nothing}]
    BY LaunchAssumption DEF NoLaunch
  <2>3. [state |-> "running", env |-> id, told |-> cmd, cmd |-> cmd] \in ProcessInfo
    BY <1>3 DEF Ids, ProcessInfo
  <2>4. Unused \in ProcessInfo
    BY LaunchAssumption DEF Unused, ProcessInfo
  <2>5. nextId' \in Ids
    BY LaunchAssumption, <1>2, <1>3 DEF Next1, Ids
  <2>6. launches' \in [Records -> [id : 0..LastId, pid : Processes \union {Nothing},
                                   cmd : Commands \union {Nothing}]]
    BY <1>1, <1>2, <2>1, <2>2 DEF new
  <2>7. process' \in [Processes -> ProcessInfo]
    BY <1>1, <1>2, <2>3, <2>4
  <2> QED
    BY <1>2, <2>5, <2>6, <2>7 DEF LaunchInv, LaunchTypeOK
<1> QED
  BY <1>10, <1>11, <1>12, <1>13 DEF LaunchInv, TableInv

\* Only the record of the caller itself is claimed.
LEMMA ClaimFacts ==
    ASSUME LaunchInv, NEW p \in Processes, Running(p)
    PROVE  /\ \A r \in Claimable(p) : r \in Records /\ launches[r].pid = p
           /\ \A r \in Records : launches[r].pid = p => r \in Claimable(p)
<1>1. \A r \in Records : launches[r].pid = p =>
         launches[r].id = process[p].env /\ launches[r].id # 0
  <2> TAKE r \in Records
  <2> HAVE launches[r].pid = p
  <2>1. Launching(launches[r], process)
    BY LaunchedFacts
  <2> QED
    BY <2>1, FreeFacts DEF Launching, Running
<1>2. \A r \in Records : launches[r].id # 0 => launches[r].pid # Nothing
  BY FreeFacts DEF LaunchInv, TableInv
<1> QED
  BY <1>1, <1>2 DEF Claimable

\* A launched application gets the id that was reserved for it; another one an
\* id that nobody waits for.
LEMMA ApplInitStep ==
    ASSUME ~Overtaking, LaunchInv, NEW p \in Processes, ApplInit(p)
    PROVE  LaunchInv'
<1> DEFINE wanted == IF Claimable(p) = {} THEN nextId ELSE launches[Min(Claimable(p))].id
           id == FirstOutside(wanted, LiveIds)
<1>1. /\ Running(p) /\ appId[p] = 0 /\ process' = process
      /\ Launched(p) \/ \A q \in Processes : Launched(q) => appId[q] # 0
      /\ appId' = [appId EXCEPT ![p] = id] /\ nextId' = Next1(id)
      /\ launches' = [r \in Records |->
                        IF r \in Claimable(p) /\ r = Min(Claimable(p))
                        THEN [launches[r] EXCEPT !.pid = p] ELSE launches[r]]
  BY DEF ApplInit
<1>2. LaunchTypeOK /\ TableInv(launches, process)
  BY DEF LaunchInv
<1>3. \A r \in Claimable(p) : r \in Records /\ launches[r].pid = p
  BY <1>1, ClaimFacts
<1>4. launches' = launches
  <2>1. launches \in [Records -> [id : 0..LastId, pid : Processes \union {Nothing},
                                  cmd : Commands \union {Nothing}]]
    BY <1>2 DEF LaunchTypeOK
  <2>2. \A r \in Records : r \in Claimable(p) => [launches[r] EXCEPT !.pid = p] = launches[r]
    BY <1>3, <2>1
  <2>3. launches' = [r \in Records |-> launches[r]]
    BY <1>1, <2>2
  <2> QED
    BY <2>1, <2>3
<1>5. wanted \in Ids
  <2>1. CASE Claimable(p) = {}
    BY <1>2, <2>1 DEF LaunchTypeOK
  <2>2. CASE Claimable(p) # {}
    <3>1. Claimable(p) \subseteq Nat
      BY LaunchAssumption, <1>3 DEF Records
    <3>2. Min(Claimable(p)) \in Claimable(p)
      BY <2>2, <3>1, LeastNat
    <3>3. Min(Claimable(p)) \in Records /\ launches[Min(Claimable(p))].pid = p
      BY <1>3, <3>2
    <3>4. launches[Min(Claimable(p))].id \in Ids
      BY <3>3, LaunchedFacts
    <3> QED
      BY <2>2, <3>4
  <2> QED
    BY <2>1, <2>2
<1> HIDE DEF wanted
<1>6. id \in 0..LastId /\ (id # 0 => id \notin LiveIds)
      /\ (wanted \notin LiveIds => id = wanted)
  BY <1>5, FirstOutsideFacts
<1>7. ASSUME NEW r \in Records, launches[r].pid = p PROVE id = launches[r].id
  <2>1. /\ launches[r].id \in Ids /\ Launching(launches[r], process)
        /\ \A s \in Records : launches[s].pid = p => s = r
        /\ \A s \in Records : launches[s].id = launches[r].id => s = r
    BY <1>7, LaunchedFacts
  <2>2. r \in Claimable(p) /\ Claimable(p) = {r}
    BY <1>1, <1>3, <1>7, <2>1, ClaimFacts
  <2>3. Min(Claimable(p)) = r
    <3>1. Claimable(p) \subseteq Nat
      BY LaunchAssumption, <1>3 DEF Records
    <3> QED
      BY <2>2, <3>1, LeastNat
  <2>4. wanted = launches[r].id
    BY <2>2, <2>3 DEF wanted
  <2>5. ASSUME NEW q \in Processes, appId[q] = launches[r].id PROVE FALSE
    <3>1. appId[q] # 0 /\ q # p
      BY <1>1, <2>1, <2>5 DEF Ids
    <3>2. PICK s \in Records : launches[s].pid = q
      BY <1>2, <2>5, <3>1 DEF TableInv, Strangers
    <3>3. launches[s].id = appId[q]
      BY <3>1, <3>2, LaunchedFacts DEF Launching
    <3>4. s = r
      BY <2>1, <2>5, <3>3
    <3> QED
      BY <1>7, <3>1, <3>2, <3>4
  <2>6. wanted \notin LiveIds
    BY <2>4, <2>5 DEF LiveIds, Live
  <2> QED
    BY <1>6, <2>4, <2>6
<1> HIDE DEF id
<1>8. /\ appId'[p] = id
      /\ \A q \in Processes : q # p => appId'[q] = appId[q]
  BY <1>1, <1>2 DEF LaunchTypeOK
<1>9. \A r \in Records : launches[r] = NoLaunch \/ Launching(launches[r], process)'
  <2> TAKE r \in Records
  <2>1. launches[r] = NoLaunch \/ Launching(launches[r], process)
    BY <1>2 DEF TableInv
  <2> QED
    BY <1>1, <1>4, <1>7, <1>8, <2>1 DEF Launching
<1>10. Strangers(launches)'
  <2>1. ASSUME NEW q \in Processes, appId'[q] # 0, \A r \in Records : launches[r].pid # q,
               NEW r \in Records
        PROVE  launches[r].id # appId'[q]
    <3>1. CASE q # p
      BY <1>2, <1>8, <2>1, <3>1 DEF TableInv, Strangers
    <3>2. CASE q = p /\ launches[r] = NoLaunch
      BY <2>1, <3>2, FreeFacts
    <3>3. CASE q = p /\ launches[r] # NoLaunch
      <4>1. Launching(launches[r], process)
        BY <1>2, <3>3 DEF TableInv
      <4>2. launches[r].pid \in Processes /\ Launched(launches[r].pid) /\ ~Launched(p)
        BY <2>1, <3>3, <4>1 DEF Launching, Launched
      <4>3. appId[launches[r].pid] # 0
        BY <1>1, <4>2
      <4>4. launches[r].id \in LiveIds
        BY <4>1, <4>2, <4>3 DEF Launching, LiveIds, Live
      <4> QED
        BY <1>6, <1>8, <2>1, <3>3, <4>4
    <3> QED
      BY <3>1, <3>2, <3>3
  <2> QED
    BY <1>4, <2>1 DEF Strangers
<1>11. Distinct(launches)'
  BY <1>2, <1>4 DEF TableInv, Distinct
<1>12. LaunchTypeOK'
  <2>1. nextId' \in Ids
    BY LaunchAssumption, <1>1, <1>6 DEF Next1, Ids
  <2> QED
    BY <1>1, <1>2, <1>4, <1>6, <2>1 DEF LaunchTypeOK
<1> QED
  BY <1>4, <1>9, <1>10, <1>11, <1>12 DEF LaunchInv, TableInv

LEMMA ApplExitStep ==
    ASSUME LaunchInv, NEW p \in Processes, ApplExit(p)
    PROVE  LaunchInv'
<1>1. LaunchTypeOK /\ TableInv(launches, process)
  BY DEF LaunchInv
<1>2. /\ launches' = launches /\ process' = process /\ nextId' = nextId
      /\ appId' \in [Processes -> 0..LastId]
      /\ \A q \in Processes : appId'[q] = IF q = p THEN 0 ELSE appId[q]
  BY LaunchAssumption, <1>1 DEF ApplExit, LaunchTypeOK
<1>3. \A r \in Records : launches[r] = NoLaunch \/ Launching(launches[r], process)'
  BY <1>1, <1>2 DEF TableInv, Launching
<1>4. Strangers(launches)'
  BY <1>1, <1>2 DEF TableInv, Strangers
<1>5. Distinct(launches)'
  BY <1>1, <1>2 DEF TableInv, Distinct
<1> QED
  BY <1>1, <1>2, <1>3, <1>4, <1>5 DEF LaunchInv, TableInv, LaunchTypeOK

LEMMA ReapStep ==
    ASSUME LaunchInv, ReapChildren
    PROVE  LaunchInv'
<1>1. launches' = Reaped /\ process' = Buried /\ appId' = appId /\ nextId' = nextId
  BY DEF ReapChildren
<1>2. /\ launches' \in [Records -> [id : 0..LastId, pid : Processes \union {Nothing},
                                    cmd : Commands \union {Nothing}]]
      /\ process' \in [Processes -> ProcessInfo]
      /\ TableInv(launches, process)'
  BY <1>1, ReapedFacts DEF TableInv, Launching, Distinct, Strangers
<1> QED
  BY <1>1, <1>2 DEF LaunchInv, LaunchTypeOK

\* Nobody else takes a process that has a record.
LEMMA ProcessStep ==
    ASSUME LaunchInv, NEW p \in Processes,
           ProcessExits(p) \/ \E cmd \in Commands : StartElsewhere(p, cmd)
    PROVE  LaunchInv'
<1>1. LaunchTypeOK /\ TableInv(launches, process)
  BY DEF LaunchInv
<1>2. launches' = launches /\ nextId' = nextId /\ appId' = appId
  BY DEF ProcessExits, StartElsewhere
<1>3. PICK new \in ProcessInfo :
         /\ process' = [process EXCEPT ![p] = new]
         /\ Launched(p) => new.state = "exited"
  <2>1. CASE ProcessExits(p)
    <3>1. /\ [Unused EXCEPT !.state = "exited"] \in ProcessInfo
          /\ Unused \in ProcessInfo
          /\ [Unused EXCEPT !.state = "exited"].state = "exited"
      BY LaunchAssumption DEF Unused, ProcessInfo
    <3> QED
      BY <2>1, <3>1 DEF ProcessExits
  <2>2. CASE \E cmd \in Commands : StartElsewhere(p, cmd)
    <3>1. PICK cmd \in Commands,
               heir \in {Unused} \union {process[q] : q \in {q \in Processes : Running(q)}} :
             process' = [process EXCEPT ![p] =
                [state |-> "running", env |-> heir.env, told |-> heir.told, cmd |-> cmd]]
      BY <2>2 DEF StartElsewhere
    <3>2. [state |-> "running", env |-> heir.env, told |-> heir.told, cmd |-> cmd]
             \in ProcessInfo
      <4>1. Unused \in ProcessInfo
        BY LaunchAssumption DEF Unused, ProcessInfo
      <4>2. heir \in ProcessInfo
        BY <1>1, <4>1 DEF LaunchTypeOK
      <4> QED
        BY <4>2 DEF ProcessInfo
    <3>3. ~Launched(p)
      BY <2>2 DEF StartElsewhere
    <3> QED
      BY <3>1, <3>2, <3>3
  <2> QED
    BY <2>1, <2>2
<1>4. /\ process' \in [Processes -> ProcessInfo]
      /\ process'[p] = new /\ \A q \in Processes : q # p => process'[q] = process[q]
  BY <1>1, <1>3 DEF LaunchTypeOK
<1>5. \A r \in Records : launches[r] = NoLaunch \/ Launching(launches[r], process)'
  <2> TAKE r \in Records
  <2>1. launches[r] = NoLaunch \/ Launching(launches[r], process)
    BY <1>1 DEF TableInv
  <2>2. launches[r].pid = p => new.state = "exited"
    BY <1>3 DEF Launched
  <2> QED
    BY <1>2, <1>4, <2>1, <2>2 DEF Launching
<1>6. Strangers(launches)'
  BY <1>1, <1>2 DEF TableInv, Strangers
<1>7. Distinct(launches)'
  BY <1>1, <1>2 DEF TableInv, Distinct
<1> QED
  BY <1>1, <1>2, <1>4, <1>5, <1>6, <1>7 DEF LaunchInv, TableInv, LaunchTypeOK

LEMMA InitLaunches ==
    ASSUME LaunchInit
    PROVE  LaunchInv
<1>1. NoLaunch \in [id : 0..LastId, pid : Processes \union {Nothing},
                cmd : Commands \union {Nothing}]
  BY LaunchAssumption DEF NoLaunch
<1>2. Unused \in ProcessInfo
  BY LaunchAssumption DEF Unused, ProcessInfo
<1>3. LaunchTypeOK
  BY LaunchAssumption, <1>1, <1>2 DEF LaunchInit, LaunchTypeOK, Ids
<1>4. \A r \in Records : launches[r] = NoLaunch
  BY DEF LaunchInit
<1>5. Distinct(launches)
  BY <1>4, FreeFacts DEF Distinct
<1>6. Strangers(launches)
  BY DEF LaunchInit, Strangers
<1> QED
  BY <1>3, <1>4, <1>5, <1>6 DEF LaunchInv, TableInv

LEMMA NextLaunches ==
    ASSUME ~Overtaking, LaunchInv, [LaunchNext]_launchVars
    PROVE  LaunchInv'
<1>1. CASE UNCHANGED launchVars
  BY <1>1 DEF launchVars, LaunchInv, LaunchTypeOK, TableInv, Launching, Distinct, Strangers
<1>2. CASE LaunchNext
  BY <1>2, RefusedStep, ReapStep, ShelWriteStep, ApplInitStep, ApplExitStep, ProcessStep
     DEF LaunchNext
<1> QED
  BY <1>1, <1>2

-----------------------------------------------------------------------------
(***************************************************************************)
(* The inductive invariant of launching (aes_shel.c, appl_init()).          *)
(***************************************************************************)
THEOREM LaunchInvariant ==
    ASSUME ~Overtaking
    PROVE  LaunchSpec => []LaunchInv
<1>1. LaunchInit => LaunchInv
  BY InitLaunches
<1>2. LaunchInv /\ [LaunchNext]_launchVars => LaunchInv'
  BY NextLaunches
<1> QED
  BY <1>1, <1>2, PTL DEF LaunchSpec

(***************************************************************************)
(* Several applications launched at once each read their own command and    *)
(* run under the id reserved for them, and one that was started elsewhere   *)
(* is told no record's command, in whatever order they connect, leave and   *)
(* are reaped, unless one started elsewhere overtakes them.                 *)
(***************************************************************************)
THEOREM LaunchesReadTheirOwn ==
    ASSUME ~Overtaking
    PROVE  LaunchSpec => []OwnCommand
<1>1. LaunchInv => OwnCommand
  <2> SUFFICES ASSUME LaunchInv, NEW p \in Processes, Running(p)
               PROVE  IF Launched(p)
                      THEN ShelRead(p) = process[p].cmd /\ appId[p] \in {0, process[p].env}
                      ELSE ShelRead(p) = ProcessLaunch(p)
    BY DEF OwnCommand
  <2> DEFINE found == {r \in Records : \/ appId[p] # 0 /\ launches[r].id = appId[p]
                                       \/ launches[r].pid = p}
  <2>1. ShelRead(p) = IF found = {} THEN ProcessLaunch(p) ELSE launches[Min(found)].cmd
    BY DEF ShelRead
  <2>2. CASE Launched(p)
    <3>1. PICK r \in Records : launches[r].pid = p
      BY <2>2 DEF Launched
    <3>2. /\ Launching(launches[r], process)
          /\ \A s \in Records : launches[s].pid = p => s = r
          /\ \A s \in Records : launches[s].id = launches[r].id => s = r
      BY <3>1, LaunchedFacts
    <3>3. /\ appId[p] \in {0, launches[r].id} /\ launches[r].id = process[p].env
          /\ launches[r].cmd = process[p].cmd
      BY <3>1, <3>2 DEF Launching, Running
    <3>4. found = {r}
      BY <3>1, <3>2, <3>3
    <3>5. {r} \subseteq Nat
      BY LaunchAssumption DEF Records
    <3>6. Min({r}) = r
      BY <3>5, LeastNat
    <3> QED
      BY <2>1, <2>2, <3>3, <3>4, <3>6
  <2>3. CASE ~Launched(p)
    <3>1. found = {}
      BY <2>3 DEF Launched, LaunchInv, TableInv, Strangers
    <3> QED
      BY <2>1, <2>3, <3>1
  <2> QED
    BY <2>2, <2>3
<1> QED
  BY <1>1, LaunchInvariant, PTL

(***************************************************************************)
(* Records, ids and processes keep their types: in particular an id that    *)
(* wraps round stays in 1..LastId.                                          *)
(***************************************************************************)
THEOREM LaunchTypeCorrect ==
    ASSUME ~Overtaking
    PROVE  LaunchSpec => []LaunchTypeOK
<1>1. LaunchInv => LaunchTypeOK
  BY DEF LaunchInv
<1> QED
  BY <1>1, LaunchInvariant, PTL
=============================================================================
