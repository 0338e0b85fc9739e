----------------------------- MODULE Gemd_proofs -----------------------------
(***************************************************************************)
(* The server's safety, for any number of slots and connections and any     *)
(* nesting of waits.  The hazard is that a request's frame outlives what it *)
(* knew: while it waits, the hook it calls closes, accepts and serves other *)
(* sessions.  Inv is the inductive invariant:                               *)
(*   Shape       only the oldest frame is a panel of g_modal_session's or   *)
(*               the server's; what waits inside it is the hook, a command, *)
(*               LOCATION_REMOVE or EVNT_MULTI, and never for that session  *)
(*   Hooked      the hook and g_modal_session are what the oldest frame     *)
(*               makes them, and its session keeps its connection           *)
(*   Counted     one session at most holds the update lock, a drag included,*)
(*               and the shared counter is what it owes                     *)
(*   Consistent  free slots are clean and connections are all different     *)
(*   OwnersAlive of Gemd                                                    *)
(* Shape makes the oldest frame the one whose end clears the hook (Hooked); *)
(* Hooked keeps the hook from closing that session, so that its drag is     *)
(* still counted as its own (Counted); Counted lets only the holder start   *)
(* a drag, so that there is one (Shape, Counted).  Each part leans on the   *)
(* others.  Core(st) states them of a stack st that need not be             *)
(* the current one: the steps under the hook first move its frame on.       *)
(***************************************************************************)
EXTENDS Gemd, SequenceTheorems, TLAPS

USE GemdAssumption DEF GemdAssumption, Slots

Sessions == [gen : 0..MaxGeneration, peer : {"idle", "waiting", "stuck", "gone"},
             wire : Requests \cup {None}, io : {"idle", "ready", "out"},
             op : Requests \cup {None}, to : 0..MaxGeneration,
             handling : BOOLEAN, inited : BOOLEAN, depth : 0..MaxDepth,
             menu : BOOLEAN, late : SUBSET {"io", "init", "lock"}]

\* The oldest frame: everything else on the stack runs inside its wait.
Root(st) == st[Len(st)]

\* The requests that stay on the stack.
Waiting == {"PANEL", "FORM", "DRAG", "LOCREM", "EVNT"}

\* What a frame may be, and what it may wait in.
FrameFits(st, i) ==
    /\ st[i].kind = "request" => /\ st[i].slot \in Slots /\ st[i].gen # 0
                                 /\ st[i].op \in Waiting
    /\ st[i].kind # "request" => st[i].op = None
    /\ i < Len(st) =>
         /\ st[i].kind # "system"
         /\ st[i].kind = "request" => st[i].op \in {"LOCREM", "EVNT"} /\ st[i].slot # modal
         /\ st[i].kind = "command" => st[i + 1].op \in {"FORM", "EVNT"}
    /\ i = Len(st) => st[i].kind \in {"system", "request"} /\ st[i].op # "EVNT"

\* Only a hook's wait has another one inside.
Shape(st) ==
    /\ \A i \in 1..Len(st) : FrameFits(st, i)
    /\ Len(st) > 1 => hook

\* The oldest frame decides who is modal, and its connection stays.
Hooked(st) ==
    /\ hook <=> st # <<>> /\ (Root(st).kind = "system" \/ IsModal(Root(st)))
    /\ modal = IF st # <<>> /\ IsModal(Root(st)) THEN Root(st).slot ELSE 0
    /\ st # <<>> /\ Root(st).kind = "request" =>
          /\ sess[Root(st).slot].gen = Root(st).gen
          /\ sess[Root(st).slot].handling

\* Who holds the update lock: by a count, or by dragging.
Drags(st) == st # <<>> /\ Root(st).op = "DRAG"
Tracked(st) == IF Drags(st) THEN 1 ELSE 0
Holder(st, s) == sess[s].depth > 0 \/ (Drags(st) /\ Root(st).slot = s)

\* One holder at most, and the counter is what it owes.
Counted(st) ==
    /\ \A s, t \in Slots : Holder(st, s) /\ Holder(st, t) => s = t
    /\ \/ \E s \in Slots : sess[s].depth > 0 /\ updateDepth = sess[s].depth + Tracked(st)
       \/ (\A s \in Slots : sess[s].depth = 0) /\ updateDepth = Tracked(st)

\* A free slot owes nothing; a connection is a generation.
Consistent ==
    /\ \A s \in Slots :
          /\ sess[s].gen = 0 => ~sess[s].inited /\ sess[s].io = "idle"
          /\ ~sess[s].inited => sess[s].depth = 0 /\ ~sess[s].menu
          /\ sess[s].gen <= nextGen
    /\ \A s, t \in Slots : sess[s].gen = sess[t].gen /\ sess[s].gen # 0 => s = t

\* TypeOK, of a stack st and without the counter's bound, which Counted gives.
Typed(st) ==
    /\ sess \in [Slots -> Sessions]
    /\ nextGen \in 0..MaxGeneration
    /\ updateDepth \in Nat
    /\ formOwner \in 0..MaxGeneration /\ desktop \in 0..MaxGeneration
    /\ st \in Seq(Frames)
    /\ modal \in 0..NumSlots /\ hook \in BOOLEAN

Core(st) == /\ Typed(st) /\ Shape(st) /\ Hooked(st) /\ Counted(st)
            /\ Consistent /\ OwnersAlive

-----------------------------------------------------------------------------
\* Pushing a frame, and taking it off again.
LEMMA PushProps ==
    ASSUME NEW T, NEW f \in T, NEW st \in Seq(T)
    PROVE  /\ Push(f, st) \in Seq(T) /\ Len(Push(f, st)) = Len(st) + 1
           /\ Push(f, st)[1] = f /\ \A i \in 1..Len(st) : Push(f, st)[i + 1] = st[i]
           /\ Head(Push(f, st)) = f /\ Tail(Push(f, st)) = st
           /\ Push(f, st) # <<>>
  <1>1. <<f>> \in Seq(T) /\ Len(<<f>>) = 1 /\ <<f>>[1] = f
    OBVIOUS
  <1>2. /\ Push(f, st) \in Seq(T) /\ Len(Push(f, st)) = Len(st) + 1
        /\ Push(f, st)[1] = f /\ \A i \in 1..Len(st) : Push(f, st)[i + 1] = st[i]
    BY <1>1, ConcatProperties DEF Push
  <1>3. Push(f, st) # <<>>
    BY <1>2
  <1>4. /\ Head(Push(f, st)) = f /\ Tail(Push(f, st)) \in Seq(T)
        /\ Len(Tail(Push(f, st))) = Len(st)
        /\ \A i \in 1..Len(st) : Tail(Push(f, st))[i] = Push(f, st)[i + 1]
    BY <1>2, <1>3, HeadTailProperties, LenProperties
  <1>5. Tail(Push(f, st)) = st
    <2> DEFINE u == Tail(Push(f, st))
    <2>1. u \in Seq(T) /\ Len(u) = Len(st) /\ \A i \in 1..Len(u) : u[i] = st[i]
      BY <1>2, <1>4
    <2> HIDE DEF u
    <2>2. u = st
      BY <2>1, SeqEqual
    <2>3. QED BY <2>2 DEF u
  <1>6. QED BY <1>2, <1>3, <1>4, <1>5

\* The first frame of a stack, and the rest.
LEMMA TailProps ==
    ASSUME NEW T, NEW st \in Seq(T), st # <<>>
    PROVE  /\ Head(st) \in T /\ Head(st) = st[1] /\ Tail(st) \in Seq(T)
           /\ Len(st) \in Nat \ {0} /\ Len(Tail(st)) = Len(st) - 1
           /\ \A i \in 1..Len(Tail(st)) : Tail(st)[i] = st[i + 1]
           /\ Tail(st) = <<>> <=> Len(st) = 1
  <1>1. Len(st) \in Nat \ {0}
    BY EmptySeq, LenProperties
  <1>2. Head(st) = st[1]
    OBVIOUS
  <1>3. /\ Head(st) \in T /\ Tail(st) \in Seq(T) /\ Len(Tail(st)) = Len(st) - 1
        /\ \A i \in 1..Len(Tail(st)) : Tail(st)[i] = st[i + 1]
    BY HeadTailProperties
  <1>4. Tail(st) = <<>> <=> Len(st) = 1
    <2>1. ASSUME Tail(st) = <<>> PROVE Len(st) = 1
      BY <2>1, <1>1, <1>3, EmptySeq
    <2>2. ASSUME Len(st) = 1 PROVE Tail(st) = <<>>
      <3>1. Len(Tail(st)) = 0
        BY <2>2, <1>3
      <3>2. QED BY <3>1, <1>3, EmptySeq
    <2>3. QED BY <2>1, <2>2
  <1>5. QED BY <1>1, <1>2, <1>3, <1>4

\* What a stack is after f was pushed on st, element by element.
Pushed(new, f, st) ==
    /\ new \in Seq(Frames) /\ Len(new) = Len(st) + 1 /\ new # <<>>
    /\ new[1] = f /\ \A i \in 1..Len(st) : new[i + 1] = st[i]

\* Push, said element by element with one opaque predicate.
LEMMA PushedStack ==
    ASSUME NEW f \in Frames, NEW st \in Seq(Frames)
    PROVE  Pushed(Push(f, st), f, st)
  <1>1. /\ Push(f, st) \in Seq(Frames) /\ Len(Push(f, st)) = Len(st) + 1
        /\ Push(f, st) # <<>> /\ Push(f, st)[1] = f
        /\ \A i \in 1..Len(st) : Push(f, st)[i + 1] = st[i]
    BY PushProps
  <1>2. QED BY <1>1, Zenon DEF Pushed

\* The top of a stack is what was pushed last.
LEMMA PushedTop ==
    ASSUME NEW f \in Frames, NEW st \in Seq(Frames)
    PROVE  Head(Push(f, st)) = f /\ Tail(Push(f, st)) = st
  BY PushProps

\* The frame of a request that waits.
LEMMA FrameTypes ==
    ASSUME NEW s \in Slots, NEW g \in 0..MaxGeneration, NEW o \in Waiting
    PROVE  LET f == RequestFrame(s, g, o)
           IN  /\ f \in Frames /\ f.kind = "request" /\ f.slot = s /\ f.gen = g
               /\ f.op = o
  <1>1. o \in Requests \cup {None} /\ s \in 0..NumSlots /\ 0 \in 0..(NumSlots + 1)
    BY DEF Waiting, Requests
  <1>2. QED BY <1>1 DEF RequestFrame, Frames

\* The I/O of a visit changes neither the application nor the reply's addressee.
LEMMA TransferKeeps ==
    ASSUME NEW r \in Sessions, NEW event
    PROVE  /\ Transfer(r, event) \in Sessions
           /\ Transfer(r, event).gen = r.gen
           /\ Transfer(r, event).inited = r.inited
           /\ Transfer(r, event).depth = r.depth
           /\ Transfer(r, event).menu = r.menu
           /\ Transfer(r, event).handling = r.handling
           /\ Transfer(r, event).io = "out" => r.io = "out" /\ Transfer(r, event).to = r.to
  <1>1. /\ r.wire # None => Received(r) \in Sessions
        /\ Received(r).gen = r.gen /\ Received(r).inited = r.inited
        /\ Received(r).depth = r.depth /\ Received(r).menu = r.menu
        /\ Received(r).handling = r.handling /\ Received(r).io = "ready"
    BY DEF Received, Sessions
  <1>2. /\ Drained(r) \in Sessions
        /\ Drained(r).gen = r.gen /\ Drained(r).inited = r.inited
        /\ Drained(r).depth = r.depth /\ Drained(r).menu = r.menu
        /\ Drained(r).handling = r.handling /\ Drained(r).io = "idle"
    <2>1. r.late \ {"io"} \in SUBSET {"io", "init", "lock"}
      BY DEF Sessions
    <2>2. 0 \in 0..MaxGeneration
      OBVIOUS
    <2>3. QED BY <2>1, <2>2 DEF Drained, Sessions
  <1>3. Transfer(r, event) \in {r, Drained(r)}
        \/ (r.wire # None /\ Transfer(r, event) = Received(r))
    BY DEF Transfer
  <1>4. QED BY <1>1, <1>2, <1>3

\* gemd_reply() changes only the I/O of a session.
LEMMA ReplyKeeps ==
    ASSUME NEW r \in Sessions, NEW g \in 0..MaxGeneration
    PROVE  /\ Reply(r, g) \in Sessions
           /\ Reply(r, g).gen = r.gen
           /\ Reply(r, g).inited = r.inited
           /\ Reply(r, g).depth = r.depth
           /\ Reply(r, g).menu = r.menu
           /\ Reply(r, g).handling = r.handling
           /\ Reply(r, g).io = "out" /\ Reply(r, g).to = g
  BY DEF Reply, Sessions, None

\* The reply to the session's own client.
LEMMA OwnReply ==
    ASSUME NEW r \in Sessions
    PROVE  /\ Reply(r, r.gen) \in Sessions
           /\ Reply(r, r.gen).gen = r.gen
           /\ Reply(r, r.gen).inited = r.inited
           /\ Reply(r, r.gen).depth = r.depth
           /\ Reply(r, r.gen).menu = r.menu
           /\ Reply(r, r.gen).handling = r.handling
           /\ Reply(r, r.gen).io = "out" /\ Reply(r, r.gen).to = r.gen
  <1>1. r.gen \in 0..MaxGeneration
    BY DEF Sessions
  <1>2. QED BY <1>1, ReplyKeeps

-----------------------------------------------------------------------------
\* The invariant reads only the kind, slot, generation and request of a frame.
LEMMA SameShape ==
    ASSUME NEW st, NEW new \in Seq(Frames), Core(st), Len(new) = Len(st),
           \A i \in 1..Len(st) : /\ new[i].kind = st[i].kind /\ new[i].slot = st[i].slot
                                 /\ new[i].gen = st[i].gen /\ new[i].op = st[i].op
    PROVE  Core(new)
  <1>1. Len(st) \in Nat /\ (st # <<>> <=> Len(st) > 0) /\ (new # <<>> <=> Len(st) > 0)
    BY LenProperties, EmptySeq DEF Core, Typed
  <1>2. Typed(new)
    BY DEF Core, Typed
  <1>3. Shape(new)
    BY <1>1 DEF Core, Shape, FrameFits
  <1>4. Len(st) > 0 => /\ Root(new).kind = Root(st).kind /\ Root(new).slot = Root(st).slot
                       /\ Root(new).gen = Root(st).gen /\ Root(new).op = Root(st).op
    BY <1>1 DEF Root
  <1>5. Hooked(new)
    BY <1>1, <1>4 DEF Core, Hooked, IsModal
  <1>6. Counted(new)
    BY <1>1, <1>4 DEF Core, Counted, Holder, Tracked, Drags
  <1>7. QED BY <1>2, <1>3, <1>5, <1>6 DEF Core

\* The hook, or a command, may wait on top of any serviced wait.
LEMMA PushCore ==
    ASSUME NEW st, NEW f \in Frames, Core(st), st # <<>>, hook, f.op = None,
           f.kind = "service" \/ (f.kind = "command" /\ Head(st).op \in {"FORM", "EVNT"})
    PROVE  Core(Push(f, st))
  <1> DEFINE new == Push(f, st)
  <1>1. st \in Seq(Frames) /\ Len(st) \in Nat \ {0} /\ Head(st) = st[1]
    BY TailProps DEF Core, Typed
  <1>2. /\ new \in Seq(Frames) /\ Len(new) = Len(st) + 1 /\ new # <<>>
        /\ new[1] = f /\ \A i \in 1..Len(st) : new[i + 1] = st[i]
    BY <1>1, PushProps
  <1> HIDE DEF new
  <1>3. Root(new) = Root(st)
    BY <1>1, <1>2 DEF Root
  <1>4. Typed(new)
    BY <1>2 DEF Core, Typed
  <1>5. Shape(new)
    <2>1. FrameFits(new, 1)
      BY <1>1, <1>2 DEF FrameFits
    <2>2. ASSUME NEW i \in 1..Len(st) PROVE FrameFits(new, i + 1)
      <3>1. FrameFits(st, i)
        BY DEF Core, Shape
      <3>2. new[i + 1] = st[i] /\ (i < Len(st) => new[i + 1 + 1] = st[i + 1])
        BY <1>1, <1>2
      <3>3. QED BY <1>1, <1>2, <3>1, <3>2 DEF FrameFits
    <2>3. \A j \in 1..Len(new) : j = 1 \/ \E i \in 1..Len(st) : j = i + 1
      <3>1. \A j \in 1..Len(new) : j # 1 => j - 1 \in 1..Len(st) /\ j = (j - 1) + 1
        BY <1>1, <1>2
      <3>2. QED BY <3>1
    <2>4. QED BY <2>1, <2>2, <2>3 DEF Shape
  <1>6. Hooked(new)
    BY <1>2, <1>3 DEF Core, Hooked
  <1>7. Counted(new)
    BY <1>2, <1>3 DEF Core, Counted, Holder, Tracked, Drags
  <1>8. Core(new)
    BY <1>4, <1>5, <1>6, <1>7 DEF Core
  <1>9. QED BY <1>8 DEF new

\* What is left when a frame that is not the root is taken off.
LEMMA PopCore ==
    ASSUME NEW st, Core(st), Len(st) > 1
    PROVE  /\ Core(Tail(st)) /\ Tail(st) # <<>> /\ Root(Tail(st)) = Root(st)
           /\ hook
           /\ Head(st).kind = "request" => Head(st).slot # modal
           /\ Head(st).kind # "system" /\ Head(st).op # "DRAG"
  <1> DEFINE new == Tail(st)
  <1>0. st \in Seq(Frames) /\ st # <<>>
    BY EmptySeq DEF Core, Typed
  <1>1. Len(st) \in Nat \ {0} /\ Head(st) = st[1]
    BY <1>0, TailProps
  <1>2. /\ new \in Seq(Frames) /\ Len(new) = Len(st) - 1 /\ new # <<>>
        /\ \A i \in 1..Len(new) : new[i] = st[i + 1]
    BY <1>0, TailProps
  <1> HIDE DEF new
  <1>3. Root(new) = Root(st)
    BY <1>1, <1>2 DEF Root
  <1>4. Typed(new)
    BY <1>2 DEF Core, Typed
  <1>5. Shape(new)
    <2>1. ASSUME NEW i \in 1..Len(new) PROVE FrameFits(new, i)
      <3>1. FrameFits(st, i + 1)
        BY <1>1, <1>2 DEF Core, Shape
      <3>2. new[i] = st[i + 1] /\ (i < Len(new) => new[i + 1] = st[i + 1 + 1])
        BY <1>1, <1>2
      <3>3. QED BY <1>1, <1>2, <3>1, <3>2 DEF FrameFits
    <2>2. QED BY <2>1, <1>1, <1>2 DEF Core, Shape
  <1>6. Hooked(new)
    BY <1>0, <1>2, <1>3 DEF Core, Hooked
  <1>7. Counted(new)
    BY <1>0, <1>2, <1>3 DEF Core, Counted, Holder, Tracked, Drags
  <1>8. Core(new)
    BY <1>4, <1>5, <1>6, <1>7 DEF Core
  <1>9. FrameFits(st, 1)
    BY <1>1 DEF Core, Shape
  <1>10. QED BY <1>1, <1>2, <1>3, <1>8, <1>9 DEF new, FrameFits, Core, Shape, None

-----------------------------------------------------------------------------
\* The session whose request is at the bottom of the stack.
IsRoot(st, s) == st # <<>> /\ Root(st).kind = "request" /\ Root(st).slot = s

\* A step that changes nothing of a session but its I/O, its peer or the
\* deadlines that have passed.
LEMMA SessionCore ==
    ASSUME NEW st, Core(st), NEW s \in Slots, NEW r \in Sessions,
           r.gen = sess[s].gen, r.inited = sess[s].inited,
           r.depth = sess[s].depth, r.menu = sess[s].menu,
           r.handling = sess[s].handling \/ ~IsRoot(st, s),
           r.gen = 0 => r.io = "idle",
           sess' = [sess EXCEPT ![s] = r], stack' = st,
           UNCHANGED <<nextGen, updateDepth, formOwner, desktop, modal, hook>>
    PROVE  Core(stack)'
  <1>1. /\ sess' \in [Slots -> Sessions] /\ sess'[s] = r
        /\ \A t \in Slots \ {s} : sess'[t] = sess[t]
    BY DEF Core, Typed
  <1>2. \A t \in Slots : /\ sess'[t].gen = sess[t].gen /\ sess'[t].inited = sess[t].inited
                         /\ sess'[t].depth = sess[t].depth /\ sess'[t].menu = sess[t].menu
                         /\ IsRoot(st, t) => sess'[t].handling = sess[t].handling
    BY <1>1
  <1>3. Typed(stack)'
    BY <1>1 DEF Core, Typed
  <1>4. Shape(stack)'
    BY DEF Core, Shape, FrameFits
  <1>5. Hooked(stack)'
    <2>1. st # <<>> /\ Root(st).kind = "request" => Root(st).slot \in Slots
      BY LenProperties, EmptySeq DEF Core, Typed, Shape, FrameFits, Root
    <2>2. QED BY <1>2, <2>1 DEF Core, Hooked, IsRoot, Root
  <1>6. Counted(stack)'
    BY <1>2 DEF Core, Counted, Holder, Tracked, Drags, Root
  <1>7. Consistent'
    BY <1>1, <1>2 DEF Core, Consistent
  <1>8. OwnersAlive'
    BY <1>2 DEF Core, OwnersAlive
  <1>9. QED BY <1>3, <1>4, <1>5, <1>6, <1>7, <1>8 DEF Core

\* What Sessions says of one session.
LEMMA SessionTypes ==
    ASSUME sess \in [Slots -> Sessions], NEW s \in Slots
    PROVE  /\ sess[s] \in Sessions
           /\ sess[s].gen \in 0..MaxGeneration /\ sess[s].gen \in Nat
           /\ sess[s].depth \in 0..MaxDepth /\ sess[s].depth \in Nat
           /\ sess[s].inited \in BOOLEAN /\ sess[s].menu \in BOOLEAN
           /\ sess[s].handling \in BOOLEAN
  BY DEF Sessions

\* A slot that gemd_close_session() cleared.
LEMMA FreeIsSession ==
    /\ Free \in Sessions
    /\ Free.gen = 0 /\ ~Free.inited /\ Free.depth = 0 /\ ~Free.menu
    /\ Free.io = "idle" /\ ~Free.handling
  <1>1. 0 \in 0..MaxGeneration /\ 0 \in 0..MaxDepth
        /\ {} \in SUBSET {"io", "init", "lock"}
    OBVIOUS
  <1>2. QED BY <1>1 DEF Free, Sessions

\* A slot that gemd_accept_client() filled.
LEMMA NewIsSession ==
    ASSUME NEW g \in 0..MaxGeneration
    PROVE  LET r == [Free EXCEPT !.gen = g]
           IN  /\ r \in Sessions /\ r.gen = g /\ ~r.inited /\ r.depth = 0
               /\ ~r.menu /\ r.io = "idle"
  <1>1. 0 \in 0..MaxGeneration /\ 0 \in 0..MaxDepth
        /\ {} \in SUBSET {"io", "init", "lock"}
    OBVIOUS
  <1>2. QED BY <1>1 DEF Free, Sessions

\* gemd_accept_client() keeps the invariant: the new generation is nobody else's.
LEMMA AcceptCore ==
    ASSUME NEW st, Core(st), TryAccept, stack' = st,
           UNCHANGED <<updateDepth, formOwner, desktop, modal, hook>>
    PROVE  Core(stack)'
  <1>1. CASE UNCHANGED <<sess, nextGen>>
    BY <1>1 DEF Core, Typed, Shape, FrameFits, Hooked, Root, Counted, Holder,
                Tracked, Drags, Consistent, OwnersAlive
  <1>2. CASE Accept
    <2>1. PICK s \in Slots : /\ IsFirstFree(s)
                             /\ sess' = [sess EXCEPT ![s] = [Free EXCEPT !.gen = nextGen + 1]]
      BY <1>2 DEF Accept
    <2> DEFINE r == [Free EXCEPT !.gen = nextGen + 1]
    <2>2. nextGen + 1 \in 1..MaxGeneration /\ nextGen' = nextGen + 1 /\ nextGen \in Nat
      BY <1>2 DEF Accept, Core, Typed
    <2>3. /\ r \in Sessions /\ r.gen = nextGen + 1 /\ ~r.inited /\ r.depth = 0
          /\ ~r.menu /\ r.io = "idle"
      BY <2>2, NewIsSession
    <2> HIDE DEF r
    <2>4. /\ sess' \in [Slots -> Sessions] /\ sess'[s] = r
          /\ \A t \in Slots \ {s} : sess'[t] = sess[t]
      BY <2>1, <2>3 DEF Core, Typed, r
    <2>5. sess[s].gen = 0 /\ ~sess[s].inited /\ sess[s].depth = 0 /\ ~sess[s].menu
      BY <2>1 DEF IsFirstFree, Connected, Core, Consistent
    <2>6. Typed(stack)'
      BY <2>2, <2>4 DEF Core, Typed
    <2>7. Shape(stack)'
      BY DEF Core, Shape, FrameFits
    <2>8. Hooked(stack)'
      <3>1. st # <<>> /\ Root(st).kind = "request"
            => Root(st).slot \in Slots /\ Root(st).gen # 0
        BY LenProperties, EmptySeq DEF Core, Typed, Shape, FrameFits, Root
      <3>2. QED BY <2>4, <2>5, <3>1 DEF Core, Hooked, Root
    <2>9. Counted(stack)'
      <3>1. \A t \in Slots : sess'[t].depth = sess[t].depth
        BY <2>3, <2>4, <2>5
      <3>2. QED BY <3>1 DEF Core, Counted, Holder, Tracked, Drags, Root
    <2>10. Consistent'
      <3>1. \A t \in Slots : sess[t].gen \in Nat /\ sess[t].gen <= nextGen
        BY SessionTypes DEF Core, Consistent, Typed
      <3>2. QED BY <2>2, <2>3, <2>4, <3>1 DEF Core, Consistent
    <2>11. OwnersAlive'
      <3>1. \A t \in Slots : sess[t].inited \/ sess'[t].inited
                              => t # s /\ sess'[t] = sess[t]
        BY <2>3, <2>4, <2>5
      <3>2. QED BY <3>1 DEF Core, OwnersAlive
    <2>12. QED BY <2>6, <2>7, <2>8, <2>9, <2>10, <2>11 DEF Core
  <1>3. QED BY <1>1, <1>2 DEF TryAccept

\* What a departing application's clean-up does to the counts, the form layer
\* and the desktop, when nothing of the lock but its count is its own.
LEMMA CleanupCounts ==
    ASSUME NEW st, Core(st), NEW s \in Slots, ~IsRoot(st, s),
           updateDepth' = (IF updateDepth > sess[s].depth
                           THEN updateDepth - sess[s].depth ELSE 0),
           sess' \in [Slots -> Sessions], sess'[s].depth = 0,
           \A t \in Slots \ {s} : sess'[t] = sess[t]
    PROVE  /\ updateDepth' \in Nat
           /\ \A t, u \in Slots : /\ sess'[t].depth > 0 \/ (Drags(st) /\ Root(st).slot = t)
                                  /\ sess'[u].depth > 0 \/ (Drags(st) /\ Root(st).slot = u)
                                  => t = u
           /\ \/ \E t \in Slots : sess'[t].depth > 0
                                  /\ updateDepth' = sess'[t].depth + Tracked(st)
              \/ (\A t \in Slots : sess'[t].depth = 0) /\ updateDepth' = Tracked(st)
  <1>1. \A t \in Slots : sess[t].depth \in Nat
    BY SessionTypes DEF Core, Typed
  <1>2. Drags(st) => Root(st).kind = "request" /\ Root(st).slot \in Slots \ {s}
    BY LenProperties, EmptySeq DEF Core, Typed, Shape, FrameFits, Root, Drags, IsRoot, None
  <1>3. CASE sess[s].depth = 0
    <2>1. updateDepth' = updateDepth /\ \A t \in Slots : sess'[t].depth = sess[t].depth
      BY <1>3 DEF Core, Typed
    <2>2. QED BY <2>1 DEF Core, Typed, Counted, Holder
  <1>4. CASE sess[s].depth > 0
    <2>1. ~Drags(st) /\ \A t \in Slots \ {s} : sess[t].depth = 0
      BY <1>1, <1>2, <1>4 DEF Core, Counted, Holder
    <2>2. Tracked(st) = 0 /\ updateDepth = sess[s].depth
      BY <1>1, <1>4, <2>1 DEF Core, Counted, Tracked
    <2>3. updateDepth' = 0 /\ \A t \in Slots : sess'[t].depth = 0
      BY <1>1, <2>1, <2>2
    <2>4. QED BY <2>1, <2>2, <2>3
  <1>5. QED BY <1>1, <1>3, <1>4

\* gemd_cleanup_app() leaves the form and the desktop to live applications.
LEMMA CleanupOwners ==
    ASSUME NEW st, Core(st), NEW s \in Slots, Connected(s), CleanupApp(s),
           sess' \in [Slots -> Sessions], ~sess'[s].inited,
           \A t \in Slots \ {s} : sess'[t] = sess[t]
    PROVE  /\ OwnersAlive'
           /\ formOwner' \in 0..MaxGeneration /\ desktop' \in 0..MaxGeneration
  <1> DEFINE heirs == {t \in Slots \ {s} : sess[t].inited /\ sess[t].menu}
  <1>1. \A t \in Slots : sess[t].gen \in 0..MaxGeneration /\ (sess[t].inited => sess[t].gen # 0)
    BY SessionTypes DEF Core, Typed, Consistent
  <1>2. formOwner' = 0 \/ (formOwner' = formOwner /\ formOwner # sess[s].gen)
    BY DEF CleanupApp
  <1>3. \/ desktop' = desktop /\ desktop \notin {0, sess[s].gen}
        \/ heirs = {} /\ desktop' = 0
        \/ \E t \in heirs : desktop' = sess[t].gen
    BY DEF CleanupApp, DesktopAfter
  <1>4. formOwner' # 0 => \E t \in Slots : sess'[t].gen = formOwner' /\ sess'[t].inited
    BY <1>2 DEF Core, OwnersAlive
  <1>5. desktop' # 0 => \E t \in Slots : sess'[t].gen = desktop' /\ sess'[t].inited
    BY <1>3 DEF Core, OwnersAlive
  <1>6. (\E t \in Slots : sess'[t].inited /\ sess'[t].menu) => desktop' # 0
    <2>1. (\E t \in Slots : sess'[t].inited /\ sess'[t].menu) => heirs # {}
      OBVIOUS
    <2>2. QED BY <1>1, <1>3, <2>1
  <1>7. formOwner' \in 0..MaxGeneration /\ desktop' \in 0..MaxGeneration
    BY <1>1, <1>2, <1>3 DEF Core, Typed
  <1>8. QED BY <1>4, <1>5, <1>6, <1>7 DEF OwnersAlive

\* gemd_close_session() keeps the invariant, unless the session's request is the
\* oldest on the stack.
LEMMA CloseCore ==
    ASSUME NEW st, Core(st), NEW s \in Slots, Connected(s), ~IsRoot(st, s),
           CloseSession(s), stack' = st, UNCHANGED nextGen
    PROVE  Core(stack)'
  <1>1. /\ sess' \in [Slots -> Sessions] /\ sess'[s] = Free
        /\ \A t \in Slots \ {s} : sess'[t] = sess[t]
        /\ UNCHANGED <<modal, hook>> /\ CleanupApp(s)
    BY FreeIsSession DEF Core, Typed, CloseSession
  <1>2. sess'[s].gen = 0 /\ ~sess'[s].inited /\ sess'[s].depth = 0
        /\ ~sess'[s].menu /\ sess'[s].io = "idle"
    BY <1>1, FreeIsSession
  <1>3. Counted(stack)' /\ updateDepth' \in Nat
    <2>1. updateDepth' = (IF updateDepth > sess[s].depth
                          THEN updateDepth - sess[s].depth ELSE 0)
      BY <1>1 DEF CleanupApp
    <2>2. QED BY <1>1, <1>2, <2>1, CleanupCounts DEF Counted, Holder, Tracked, Drags, Root
  <1>4. OwnersAlive' /\ formOwner' \in 0..MaxGeneration /\ desktop' \in 0..MaxGeneration
    BY <1>1, <1>2, CleanupOwners
  <1>5. Typed(stack)'
    BY <1>1, <1>3, <1>4 DEF Core, Typed
  <1>6. Shape(stack)'
    BY <1>1 DEF Core, Shape, FrameFits
  <1>7. Hooked(stack)'
    <2>1. st # <<>> /\ Root(st).kind = "request" => Root(st).slot \in Slots \ {s}
      BY LenProperties, EmptySeq DEF Core, Typed, Shape, FrameFits, Root, IsRoot
    <2>2. QED BY <1>1, <2>1 DEF Core, Hooked, Root
  <1>8. Consistent'
    <2>1. sess[s].gen \in Nat /\ nextGen \in Nat
      BY SessionTypes DEF Core, Typed
    <2>2. QED BY <1>1, <1>2, <2>1 DEF Core, Consistent
  <1>9. QED BY <1>3, <1>4, <1>5, <1>6, <1>7, <1>8 DEF Core

-----------------------------------------------------------------------------
\* Whoever may run has the whole of the shared counter, which may be nothing.
LEMMA RunnerCounts ==
    ASSUME NEW st, Core(st), NEW s \in Slots, ~IsRoot(st, s),
           updateDepth = 0 \/ sess[s].depth > 0
    PROVE  /\ ~Drags(st) /\ Tracked(st) = 0
           /\ \A t \in Slots \ {s} : sess[t].depth = 0
           /\ updateDepth = sess[s].depth
  <1>1. \A t \in Slots : sess[t].depth \in Nat
    BY SessionTypes DEF Core, Typed
  <1>2. Drags(st) => Root(st).kind = "request" /\ Root(st).slot \in Slots \ {s}
    BY LenProperties, EmptySeq DEF Core, Typed, Shape, FrameFits, Root, Drags, IsRoot, None
  <1>3. CASE updateDepth = 0
    BY <1>1, <1>3 DEF Core, Counted, Tracked
  <1>4. CASE sess[s].depth > 0
    <2>1. ~Drags(st) /\ \A t \in Slots \ {s} : sess[t].depth = 0
      BY <1>1, <1>2, <1>4 DEF Core, Counted, Holder
    <2>2. QED BY <1>1, <1>4, <2>1 DEF Core, Counted, Tracked
  <1>5. QED BY <1>3, <1>4

\* What no request of a session that is not the root's disturbs.
LEMMA AtSession ==
    ASSUME NEW st, Core(st), NEW s \in Slots, ~IsRoot(st, s),
           NEW q \in Sessions, q.gen = sess[s].gen,
           sess' = [sess EXCEPT ![s] = q], stack' = st,
           UNCHANGED <<modal, hook>>
    PROVE  /\ sess' \in [Slots -> Sessions] /\ sess'[s] = q
           /\ \A t \in Slots \ {s} : sess'[t] = sess[t]
           /\ \A t \in Slots : sess'[t].gen = sess[t].gen
           /\ Shape(stack)' /\ Hooked(stack)'
  <1>1. /\ sess' \in [Slots -> Sessions] /\ sess'[s] = q
        /\ \A t \in Slots \ {s} : sess'[t] = sess[t]
    BY DEF Core, Typed
  <1>2. st # <<>> /\ Root(st).kind = "request" => Root(st).slot \in Slots \ {s}
    BY LenProperties, EmptySeq DEF Core, Typed, Shape, FrameFits, Root, IsRoot
  <1>3. Shape(stack)'
    BY DEF Core, Shape, FrameFits
  <1>4. Hooked(stack)'
    BY <1>1, <1>2 DEF Core, Hooked, Root
  <1>5. QED BY <1>1, <1>3, <1>4

\* A request that counts: BEG_UPDATE and END_UPDATE of one that may run.
LEMMA CountCore ==
    ASSUME NEW st, Core(st), NEW s \in Slots, Connected(s), ~IsRoot(st, s),
           NEW q \in Sessions, q.gen = sess[s].gen, q.inited, sess[s].inited,
           q.menu = sess[s].menu,
           updateDepth = 0 \/ sess[s].depth > 0, updateDepth' = q.depth,
           sess' = [sess EXCEPT ![s] = q], stack' = st,
           UNCHANGED <<nextGen, formOwner, desktop, modal, hook>>
    PROVE  Core(stack)'
  <1>1. /\ sess' \in [Slots -> Sessions] /\ sess'[s] = q
        /\ \A t \in Slots \ {s} : sess'[t] = sess[t]
        /\ \A t \in Slots : sess'[t].gen = sess[t].gen
        /\ Shape(stack)' /\ Hooked(stack)'
    BY AtSession
  <1>2. q.depth \in Nat
    BY DEF Sessions
  <1>3. Typed(stack)'
    BY <1>1, <1>2 DEF Core, Typed
  <1>4. Counted(stack)'
    <2>1. ~Drags(st) /\ \A t \in Slots \ {s} : sess'[t].depth = 0
      BY <1>1, RunnerCounts
    <2>2. ~Drags(stack)' /\ Tracked(stack)' = 0
      BY <2>1 DEF Drags, Tracked, Root
    <2>3. \A t \in Slots : Holder(stack, t)' => t = s
      BY <2>1, <2>2 DEF Holder
    <2>4. (sess'[s].depth > 0 /\ updateDepth' = sess'[s].depth)
          \/ (sess'[s].depth = 0 /\ updateDepth' = 0)
      BY <1>1, <1>2
    <2>5. QED BY <1>1, <1>2, <2>1, <2>2, <2>3, <2>4 DEF Counted
  <1>5. Consistent'
    BY <1>1 DEF Core, Consistent, Connected
  <1>6. \A t \in Slots : sess'[t].inited = sess[t].inited /\ sess'[t].menu = sess[t].menu
    <2>1. sess[s].inited = q.inited
      BY SessionTypes DEF Core, Typed, Sessions
    <2>2. QED BY <1>1, <2>1
  <1>7. OwnersAlive'
    BY <1>1, <1>6 DEF Core, OwnersAlive
  <1>8. QED BY <1>1, <1>3, <1>4, <1>5, <1>7 DEF Core

\* Any other request that replies: it counts nothing, and may initialize its
\* application, give it a menu, or change the owners.
LEMMA ReplyCore ==
    ASSUME NEW st, Core(st), NEW s \in Slots, Connected(s), ~IsRoot(st, s),
           NEW q \in Sessions, q.gen = sess[s].gen, q.depth = sess[s].depth,
           sess[s].inited => q.inited, sess[s].menu => q.menu, q.menu => q.inited,
           formOwner' \in {formOwner, 0}
              \/ (formOwner' = q.gen /\ q.inited),
           desktop' = (IF q.menu /\ desktop = 0 THEN q.gen ELSE desktop),
           sess' = [sess EXCEPT ![s] = q], stack' = st,
           UNCHANGED <<nextGen, updateDepth, modal, hook>>
    PROVE  Core(stack)'
  <1>1. /\ sess' \in [Slots -> Sessions] /\ sess'[s] = q
        /\ \A t \in Slots \ {s} : sess'[t] = sess[t]
        /\ \A t \in Slots : sess'[t].gen = sess[t].gen
        /\ Shape(stack)' /\ Hooked(stack)'
    BY AtSession
  <1>2. \A t \in Slots : /\ sess'[t].depth = sess[t].depth
                         /\ sess[t].inited => sess'[t].inited
    BY <1>1
  <1>3. Typed(stack)'
    BY <1>1, SessionTypes DEF Core, Typed
  <1>4. Counted(stack)'
    BY <1>2 DEF Core, Counted, Holder, Tracked, Drags, Root
  <1>5. Consistent'
    BY <1>1 DEF Core, Consistent, Connected
  <1>6. OwnersAlive'
    <2>1. formOwner' # 0 => \E t \in Slots : sess'[t].gen = formOwner' /\ sess'[t].inited
      BY <1>1, <1>2 DEF Core, OwnersAlive
    <2>2. desktop' # 0 => \E t \in Slots : sess'[t].gen = desktop' /\ sess'[t].inited
      BY <1>1, <1>2 DEF Core, OwnersAlive
    <2>3. (\E t \in Slots : sess'[t].inited /\ sess'[t].menu) => desktop' # 0
      BY <1>1 DEF Core, OwnersAlive, Connected
    <2>4. QED BY <2>1, <2>2, <2>3 DEF OwnersAlive
  <1>7. QED BY <1>1, <1>3, <1>4, <1>5, <1>6 DEF Core

\* Who owns the form layer and the desktop is alive while nobody's identity,
\* menu or ownership changes.
LEMMA SameOwners ==
    ASSUME OwnersAlive, UNCHANGED <<formOwner, desktop>>,
           \A t \in Slots : /\ sess'[t].gen = sess[t].gen
                            /\ sess'[t].inited = sess[t].inited
                            /\ sess'[t].menu = sess[t].menu
    PROVE  OwnersAlive'
  BY DEF OwnersAlive

\* What a stack is made of.
LEMMA StackTypes ==
    ASSUME NEW st, Typed(st)
    PROVE  st \in Seq(Frames) /\ Len(st) \in Nat /\ (st = <<>> <=> Len(st) = 0)
  BY LenProperties, EmptySeq DEF Typed

\* A request from the main loop that waits: its frame is the root.
LEMMA RootTypes ==
    ASSUME NEW s \in Slots, NEW o, Typed(<<>>),
           updateDepth' = (IF o = "DRAG" THEN updateDepth + 1 ELSE updateDepth),
           IF MayWait(o) THEN modal' = s /\ hook' = TRUE ELSE UNCHANGED <<modal, hook>>
    PROVE  modal' \in 0..NumSlots /\ hook' \in BOOLEAN /\ updateDepth' \in Nat
  <1>1. updateDepth' \in Nat
    BY DEF Typed
  <1>2. CASE MayWait(o)
    <2>1. modal' = s /\ hook' = TRUE
      BY <1>2
    <2>2. s \in 0..NumSlots
      OBVIOUS
    <2>3. QED BY <1>1, <2>1, <2>2
  <1>3. CASE ~MayWait(o)
    <2>1. modal' = modal /\ hook' = hook
      BY <1>3
    <2>2. QED BY <1>1, <2>1 DEF Typed
  <1>4. QED BY <1>2, <1>3

\* A stack of one frame fits.
LEMMA RootShape ==
    ASSUME NEW new, NEW f \in Frames, Pushed(new, f, <<>>), f.kind = "request",
           f.slot \in Slots, f.gen # 0, f.op \in Waiting \ {"EVNT"},
           new = stack'
    PROVE  Shape(stack)' /\ Root(new) = f
  <1>1. Len(new) = 1 /\ new[1] = f
    BY EmptySeq DEF Pushed
  <1>2. FrameFits(stack, 1)'
    BY <1>1 DEF FrameFits
  <1>3. QED BY <1>1, <1>2 DEF Shape, Root

\* A request that opens the first wait keeps the invariant.
LEMMA RootCore ==
    ASSUME Core(<<>>), NEW s \in Slots, Connected(s),
           NEW q \in Sessions, q.gen = sess[s].gen, q.handling,
           q.inited = sess[s].inited, q.depth = sess[s].depth, q.menu = sess[s].menu,
           NEW f \in Frames, f.kind = "request", f.slot = s, f.gen = q.gen,
           f.op \in Waiting \ {"EVNT"},
           f.op = "DRAG" => updateDepth = 0 \/ sess[s].depth > 0,
           updateDepth' = (IF f.op = "DRAG" THEN updateDepth + 1 ELSE updateDepth),
           IF MayWait(f.op) THEN modal' = s /\ hook' = TRUE ELSE UNCHANGED <<modal, hook>>,
           sess' = [sess EXCEPT ![s] = q], Pushed(stack', f, <<>>),
           UNCHANGED <<nextGen, formOwner, desktop>>
    PROVE  Core(stack)'
  <1>1. /\ sess' \in [Slots -> Sessions] /\ sess'[s] = q
        /\ \A t \in Slots \ {s} : sess'[t] = sess[t]
        /\ \A t \in Slots : /\ sess'[t].gen = sess[t].gen /\ sess'[t].inited = sess[t].inited
                            /\ sess'[t].depth = sess[t].depth /\ sess'[t].menu = sess[t].menu
    BY DEF Core, Typed
  <1>2. f.gen # 0
    BY DEF Connected
  <1>3. modal' \in 0..NumSlots /\ hook' \in BOOLEAN /\ updateDepth' \in Nat
    <2>1. Typed(<<>>)
      BY DEF Core
    <2>2. QED BY <2>1, RootTypes
  <1>4. stack' # <<>> /\ stack' \in Seq(Frames)
    BY DEF Pushed
  <1>5. Typed(stack)'
    BY <1>1, <1>3, <1>4 DEF Core, Typed
  <1>6. Shape(stack)' /\ Root(stack') = f
    BY <1>2, RootShape
  <1>7. ~hook /\ modal = 0
    BY DEF Core, Hooked
  <1>8. Hooked(stack)'
    BY <1>1, <1>4, <1>6, <1>7 DEF Hooked, IsModal
  <1>9. ~Drags(<<>>) /\ Tracked(<<>>) = 0 /\ ~IsRoot(<<>>, s)
    BY DEF Drags, Tracked, IsRoot
  <1>10. Counted(stack)'
    <2>1. CASE f.op = "DRAG"
      <3>1. updateDepth = sess[s].depth /\ \A t \in Slots \ {s} : sess[t].depth = 0
        BY <1>9, <2>1, RunnerCounts
      <3>2. Drags(stack)' /\ Tracked(stack)' = 1
        BY <1>4, <1>6, <2>1 DEF Drags, Tracked
      <3>3. \A t \in Slots : Holder(stack, t)' => t = s
        BY <1>1, <1>6, <3>1 DEF Holder
      <3>4. sess[s].depth \in Nat
        BY SessionTypes DEF Core, Typed
      <3>5. updateDepth' = sess'[s].depth + 1
        BY <1>1, <2>1, <3>1
      <3>6. QED BY <1>1, <3>1, <3>2, <3>3, <3>4, <3>5 DEF Counted
    <2>2. CASE f.op # "DRAG"
      <3>1. ~Drags(stack)' /\ Tracked(stack)' = 0
        BY <1>4, <1>6, <2>2 DEF Drags, Tracked
      <3>2. QED BY <1>1, <1>9, <2>2, <3>1 DEF Core, Counted, Holder
    <2>3. QED BY <2>1, <2>2
  <1>11. Consistent'
    BY <1>1 DEF Core, Consistent, Connected
  <1>12. OwnersAlive'
    <2>1. OwnersAlive /\ UNCHANGED <<formOwner, desktop>>
      BY DEF Core
    <2>2. QED BY <1>1, <2>1, SameOwners
  <1>13. QED BY <1>5, <1>6, <1>8, <1>10, <1>11, <1>12 DEF Core

\* A request that waits nested, inside the wait of a frame that has the hook.
LEMMA NestShape ==
    ASSUME NEW st \in Seq(Frames), st # <<>>, Shape(st), hook, NEW f \in Frames,
           Pushed(stack', f, st), f.kind = "request", f.slot \in Slots \ {modal},
           f.gen # 0, f.op \in {"LOCREM", "EVNT"}, UNCHANGED <<modal, hook>>
    PROVE  Shape(stack)' /\ Root(stack') = Root(st)
  <1>1. Len(st) \in Nat \ {0}
    BY LenProperties, EmptySeq
  <1>2. /\ Len(stack') = Len(st) + 1 /\ stack'[1] = f
        /\ \A i \in 1..Len(st) : stack'[i + 1] = st[i]
    BY DEF Pushed
  <1>3. FrameFits(stack, 1)'
    BY <1>1, <1>2 DEF FrameFits, Waiting
  <1>4. ASSUME NEW i \in 1..Len(st) PROVE FrameFits(stack, i + 1)'
    <2>1. FrameFits(st, i)
      BY DEF Shape
    <2>2. i < Len(st) => i + 1 \in 1..Len(st)
      BY <1>1
    <2>3. stack'[i + 1] = st[i] /\ (i < Len(st) => stack'[i + 1 + 1] = st[i + 1])
      BY <1>2, <2>2, Zenon
    <2>4. i + 1 < Len(stack') <=> i < Len(st)
      BY <1>1, <1>2
    <2>5. i + 1 = Len(stack') <=> i = Len(st)
      BY <1>1, <1>2
    <2>6. QED BY <2>1, <2>3, <2>4, <2>5 DEF FrameFits
  <1>5. \A j \in 1..Len(stack') : j = 1 \/ \E i \in 1..Len(st) : j = i + 1
    <2>1. \A j \in 1..Len(stack') : j # 1 => j - 1 \in 1..Len(st) /\ j = (j - 1) + 1
      BY <1>1, <1>2
    <2>2. QED BY <2>1
  <1>6. QED BY <1>1, <1>2, <1>3, <1>4, <1>5 DEF Shape, Root

\* So does one that waits inside another's wait, on top of the hook.
LEMMA NestCore ==
    ASSUME NEW st, Core(st), st # <<>>, hook, NEW s \in Slots, Connected(s),
           s # modal, ~IsRoot(st, s),
           NEW q \in Sessions, q.gen = sess[s].gen, q.handling,
           q.inited = sess[s].inited, q.depth = sess[s].depth, q.menu = sess[s].menu,
           NEW f \in Frames, f.kind = "request", f.slot = s, f.gen = q.gen,
           f.op \in {"LOCREM", "EVNT"},
           sess' = [sess EXCEPT ![s] = q], Pushed(stack', f, st),
           UNCHANGED <<nextGen, updateDepth, formOwner, desktop, modal, hook>>
    PROVE  Core(stack)'
  <1>1. /\ sess' \in [Slots -> Sessions] /\ sess'[s] = q
        /\ \A t \in Slots \ {s} : sess'[t] = sess[t]
        /\ \A t \in Slots : /\ sess'[t].gen = sess[t].gen /\ sess'[t].inited = sess[t].inited
                            /\ sess'[t].depth = sess[t].depth /\ sess'[t].menu = sess[t].menu
    BY DEF Core, Typed
  <1>2. f.gen # 0
    BY DEF Connected
  <1>3. stack' # <<>> /\ stack' \in Seq(Frames)
    BY DEF Pushed
  <1>4. Typed(stack)'
    BY <1>1, <1>3 DEF Core, Typed
  <1>5. st \in Seq(Frames) /\ Len(st) \in Nat \ {0}
    BY StackTypes DEF Core
  <1>6. Shape(stack)' /\ Root(stack') = Root(st)
    <2>1. Shape(st)
      BY DEF Core
    <2>2. QED BY <1>2, <1>5, <2>1, NestShape
  <1>7. Root(st).kind = "request" => Root(st).slot \in Slots \ {s}
    BY <1>5 DEF Core, Shape, FrameFits, Root, IsRoot
  <1>8. Hooked(stack)'
    BY <1>1, <1>3, <1>6, <1>7 DEF Core, Hooked
  <1>9. Counted(stack)'
    BY <1>1, <1>3, <1>6 DEF Core, Counted, Holder, Tracked, Drags
  <1>10. Consistent'
    BY <1>1 DEF Core, Consistent, Connected
  <1>11. OwnersAlive'
    <2>1. OwnersAlive /\ UNCHANGED <<formOwner, desktop>>
      BY DEF Core
    <2>2. QED BY <1>1, <2>1, SameOwners
  <1>12. QED BY <1>4, <1>6, <1>8, <1>9, <1>10, <1>11 DEF Core

-----------------------------------------------------------------------------
\* What the end of a request leaves of the session that gets its reply.
LEMMA EndedKeeps ==
    ASSUME NEW r \in Sessions, NEW g \in 0..MaxGeneration
    PROVE  /\ Ended(r, g) \in Sessions
           /\ Ended(r, g).gen = r.gen /\ Ended(r, g).inited = r.inited
           /\ Ended(r, g).depth = r.depth /\ Ended(r, g).menu = r.menu
           /\ ~Ended(r, g).handling
           /\ Ended(r, g).io = "out" /\ Ended(r, g).to = g
  <1> DEFINE q == [r EXCEPT !.handling = FALSE]
  <1>1. /\ q \in Sessions /\ q.gen = r.gen /\ q.inited = r.inited
        /\ q.depth = r.depth /\ q.menu = r.menu /\ ~q.handling
    BY DEF Sessions
  <1>2. Ended(r, g) = Reply(q, g)
    BY DEF Ended
  <1> HIDE DEF q
  <1>3. QED BY <1>1, <1>2, ReplyKeeps

\* A step that changes nothing the invariant reads.
LEMMA SameCore ==
    ASSUME NEW st, Core(st), stack' = st,
           UNCHANGED <<sess, nextGen, updateDepth, formOwner, desktop, modal, hook>>
    PROVE  Core(stack)'
  BY DEF Core, Typed, Shape, FrameFits, Hooked, Root, Counted, Holder, Tracked, Drags,
         Consistent, OwnersAlive

\* Under the hook, the oldest frame's session is the modal one.
LEMMA RootIsModal ==
    ASSUME NEW st, Core(st), hook, NEW s \in Slots, s # modal
    PROVE  ~IsRoot(st, s)
  BY DEF Core, Hooked, IsRoot

\* The slot and generation of the first frame.
LEMMA FrameSlot ==
    ASSUME NEW st, Core(st), st # <<>>
    PROVE  /\ Head(st) \in Frames /\ Head(st).gen \in 0..MaxGeneration
           /\ Head(st).kind = "request" => Head(st).slot \in Slots /\ Head(st).gen # 0
           /\ Head(st).kind # "request" => Head(st).op = None
  <1>1. /\ Head(st) \in Frames /\ Head(st) = st[1] /\ 1 \in 1..Len(st)
    BY TailProps DEF Core, Typed
  <1>2. FrameFits(st, 1)
    BY <1>1 DEF Core, Shape
  <1>3. QED BY <1>1, <1>2 DEF FrameFits, Frames

\* The end of a wait that another one surrounds.
LEMMA NestedEnds ==
    ASSUME NEW st, Core(st), Len(st) > 1, FinishFrame(st), UNCHANGED nextGen
    PROVE  Core(stack)'
  <1> DEFINE f == Head(st)
  <1>1. /\ Core(Tail(st)) /\ hook /\ f.kind # "system" /\ f.op # "DRAG"
        /\ f.kind = "request" => f.slot # modal
    BY PopCore
  <1>2. st # <<>>
    BY EmptySeq DEF Core, Typed
  <1>3. /\ f.gen \in 0..MaxGeneration
        /\ f.kind = "request" => f.slot \in Slots
    BY <1>2, FrameSlot
  <1>4. /\ stack' = Tail(st)
        /\ sess' = (IF f.kind = "request" /\ Connected(f.slot)
                    THEN [sess EXCEPT ![f.slot] = Ended(@, f.gen)] ELSE sess)
        /\ UNCHANGED <<updateDepth, hook, modal, formOwner, desktop>>
    <2>1. ~Clears(f)
      BY <1>1 DEF Clears
    <2>2. hook' = (hook /\ ~Clears(f)) /\ modal' = IF Clears(f) THEN 0 ELSE modal
      BY DEF FinishFrame
    <2>3. hook' = hook /\ modal' = modal
      BY <1>1, <2>1, <2>2 DEF Core, Typed
    <2>4. QED BY <1>1, <2>3 DEF FinishFrame
  <1> HIDE DEF f
  <1>5. CASE f.kind = "request" /\ Connected(f.slot)
    <2> DEFINE s == f.slot
               r == Ended(sess[s], f.gen)
    <2>1. s \in Slots /\ s # modal /\ sess[s] \in Sessions
      BY <1>1, <1>3, <1>5, SessionTypes DEF Core, Typed
    <2>2. /\ r \in Sessions /\ r.gen = sess[s].gen /\ r.inited = sess[s].inited
          /\ r.depth = sess[s].depth /\ r.menu = sess[s].menu
      BY <1>3, <2>1, EndedKeeps
    <2>3. sess' = [sess EXCEPT ![s] = r]
      BY <1>4, <1>5
    <2>4. r.gen # 0
      BY <1>5, <2>2 DEF Connected
    <2>5. ~IsRoot(Tail(st), s)
      BY <1>1, <2>1, RootIsModal
    <2> HIDE DEF r, s
    <2>6. QED BY <1>1, <1>4, <2>1, <2>2, <2>3, <2>4, <2>5, SessionCore
  <1>6. CASE ~(f.kind = "request" /\ Connected(f.slot))
    BY <1>1, <1>4, <1>6, SameCore
  <1>7. QED BY <1>5, <1>6

\* The end of the oldest wait: the server is back in its loop, without a panel.
LEMMA RootEnds ==
    ASSUME NEW st, Core(st), Len(st) = 1, FinishFrame(st), UNCHANGED nextGen
    PROVE  Core(stack)'
  <1> DEFINE f == Head(st)
  <1>1. st # <<>> /\ st \in Seq(Frames)
    BY StackTypes DEF Core
  <1>2. f = Root(st) /\ f = st[1] /\ Tail(st) = <<>>
    BY <1>1, TailProps DEF Root
  <1>3. FrameFits(st, 1)
    BY DEF Core, Shape
  <1>4. /\ f.kind \in {"system", "request"} /\ f.gen \in 0..MaxGeneration
        /\ f.kind = "request" => f.slot \in Slots /\ f.gen # 0
        /\ f.kind = "system" => f.op = None
    BY <1>1, <1>2, <1>3, FrameSlot DEF FrameFits
  <1>5. f.kind = "request" => sess[f.slot].gen = f.gen /\ Connected(f.slot)
    BY <1>1, <1>2, <1>4 DEF Core, Hooked, Connected
  <1>6. /\ hook <=> f.kind = "system" \/ IsModal(f)
        /\ modal = IF IsModal(f) THEN f.slot ELSE 0
    BY <1>1, <1>2 DEF Core, Hooked
  <1>7. /\ stack' = <<>>
        /\ sess' = (IF f.kind = "request" /\ Connected(f.slot)
                    THEN [sess EXCEPT ![f.slot] = Ended(@, f.gen)] ELSE sess)
        /\ updateDepth' = (IF f.op = "DRAG" /\ updateDepth > 0 THEN updateDepth - 1
                           ELSE updateDepth)
        /\ hook' = (hook /\ ~Clears(f)) /\ modal' = (IF Clears(f) THEN 0 ELSE modal)
        /\ UNCHANGED <<formOwner, desktop>>
    BY <1>2 DEF FinishFrame
  <1> HIDE DEF f
  <1>8. ~hook' /\ modal' = 0 /\ hook' \in BOOLEAN
    <2>1. hook => Clears(f)
      BY <1>6, <1>4 DEF Clears, IsModal
    <2>2. modal # 0 => Clears(f)
      BY <1>6, <1>4 DEF Clears, IsModal
    <2>3. QED BY <1>7, <2>1, <2>2
  <1>9. /\ sess' \in [Slots -> Sessions]
        /\ \A t \in Slots : /\ sess'[t].gen = sess[t].gen /\ sess'[t].inited = sess[t].inited
                            /\ sess'[t].depth = sess[t].depth /\ sess'[t].menu = sess[t].menu
                            /\ sess'[t].gen = 0 => sess'[t] = sess[t]
    <2>1. CASE f.kind = "request"
      <3> DEFINE r == Ended(sess[f.slot], f.gen)
      <3>1. sess[f.slot] \in Sessions
        BY <1>4, <2>1, SessionTypes DEF Core, Typed
      <3>2. /\ r \in Sessions /\ r.gen = sess[f.slot].gen /\ r.inited = sess[f.slot].inited
            /\ r.depth = sess[f.slot].depth /\ r.menu = sess[f.slot].menu
        BY <1>4, <3>1, EndedKeeps
      <3>3. sess' = [sess EXCEPT ![f.slot] = r]
        BY <1>5, <1>7, <2>1
      <3> HIDE DEF r
      <3>4. sess' \in [Slots -> Sessions] /\ sess'[f.slot] = r
            /\ \A t \in Slots \ {f.slot} : sess'[t] = sess[t]
        BY <1>4, <2>1, <3>2, <3>3 DEF Core, Typed
      <3>5. r.gen # 0
        BY <1>4, <1>5, <2>1, <3>2
      <3>6. QED BY <3>2, <3>4, <3>5
    <2>2. CASE f.kind # "request"
      BY <1>7, <2>2 DEF Core, Typed
    <2>3. QED BY <2>1, <2>2
  <1>10. /\ ~Drags(stack)' /\ Tracked(stack)' = 0
         /\ Drags(st) <=> f.op = "DRAG"
         /\ Tracked(st) = (IF f.op = "DRAG" THEN 1 ELSE 0)
    BY <1>1, <1>2, <1>7 DEF Drags, Tracked
  <1>11. Counted(stack)' /\ updateDepth' \in Nat
    <2>1. \A t \in Slots : sess[t].depth \in Nat
      BY SessionTypes DEF Core, Typed
    <2>2. \A t \in Slots : Holder(stack, t)' => Holder(st, t)
      BY <1>9, <1>10 DEF Holder
    <2>3. \A s, t \in Slots : Holder(stack, s)' /\ Holder(stack, t)' => s = t
      BY <2>2 DEF Core, Counted
    <2>4. updateDepth' = updateDepth - Tracked(st)
      BY <1>7, <1>10, <2>1 DEF Core, Counted, Typed
    <2>5. \/ \E s \in Slots : sess'[s].depth > 0 /\ updateDepth' = sess'[s].depth
          \/ (\A s \in Slots : sess'[s].depth = 0) /\ updateDepth' = 0
      BY <1>9, <1>10, <2>1, <2>4 DEF Core, Counted
    <2>6. \A t \in Slots : sess'[t].depth \in Nat
      BY <1>9, <2>1
    <2>7. QED BY <1>10, <2>3, <2>5, <2>6 DEF Counted
  <1>12. stack' \in Seq(Frames) /\ Len(stack') = 0
    BY <1>7, EmptySeq
  <1>13. Typed(stack)'
    BY <1>7, <1>8, <1>9, <1>11, <1>12 DEF Core, Typed
  <1>14. Shape(stack)' /\ Hooked(stack)'
    BY <1>7, <1>8, <1>12 DEF Shape, Hooked
  <1>15. Consistent'
    BY <1>9 DEF Core, Consistent
  <1>16. OwnersAlive'
    <2>1. OwnersAlive /\ UNCHANGED <<formOwner, desktop>>
      BY <1>7 DEF Core
    <2>2. QED BY <1>9, <2>1, SameOwners
  <1>17. QED BY <1>11, <1>13, <1>14, <1>15, <1>16 DEF Core

\* The end of any wait keeps the invariant.
LEMMA FinishCore ==
    ASSUME NEW st, Core(st), st # <<>>, FinishFrame(st), UNCHANGED nextGen
    PROVE  Core(stack)'
  <1>1. Len(st) \in Nat \ {0}
    BY StackTypes DEF Core
  <1>2. CASE Len(st) = 1
    BY <1>2, RootEnds
  <1>3. CASE Len(st) > 1
    BY <1>3, NestedEnds
  <1>4. \A n \in Nat \ {0} : n = 1 \/ n > 1
    OBVIOUS
  <1>5. QED BY <1>1, <1>2, <1>3, <1>4, Zenon

-----------------------------------------------------------------------------
\* What a request does to its own session before the reply is queued.
LEMMA InitKeeps ==
    ASSUME NEW r \in Sessions
    PROVE  LET q == [r EXCEPT !.inited = TRUE, !.late = @ \ {"init"}]
           IN  /\ q \in Sessions /\ q.gen = r.gen /\ q.inited /\ q.depth = r.depth
               /\ q.menu = r.menu /\ q.handling = r.handling
  <1>1. r.late \ {"init"} \in SUBSET {"io", "init", "lock"}
    BY DEF Sessions
  <1>2. QED BY <1>1 DEF Sessions

\* The session after APPL_EXIT.
LEMMA ExitKeeps ==
    ASSUME NEW r \in Sessions
    PROVE  LET q == [r EXCEPT !.inited = FALSE, !.depth = 0, !.menu = FALSE,
                              !.late = @ \ {"lock", "init"}]
           IN  /\ q \in Sessions /\ q.gen = r.gen /\ ~q.inited /\ q.depth = 0
               /\ ~q.menu /\ q.handling = r.handling
  <1>1. /\ r.late \ {"lock", "init"} \in SUBSET {"io", "init", "lock"}
        /\ 0 \in 0..MaxDepth
    BY DEF Sessions
  <1>2. QED BY <1>1 DEF Sessions

\* The session after BEG_UPDATE.
LEMMA BegKeeps ==
    ASSUME NEW r \in Sessions, r.depth < MaxDepth
    PROVE  LET q == [r EXCEPT !.depth = @ + 1]
           IN  /\ q \in Sessions /\ q.gen = r.gen /\ q.inited = r.inited
               /\ q.depth = r.depth + 1 /\ q.menu = r.menu /\ q.handling = r.handling
  <1>1. r.depth + 1 \in 0..MaxDepth
    BY DEF Sessions
  <1>2. QED BY <1>1 DEF Sessions

\* The session after END_UPDATE.
LEMMA EndKeeps ==
    ASSUME NEW r \in Sessions, r.depth > 0
    PROVE  LET q == [r EXCEPT !.depth = @ - 1,
                              !.late = IF r.depth = 1 THEN @ \ {"lock"} ELSE @]
           IN  /\ q \in Sessions /\ q.gen = r.gen /\ q.inited = r.inited
               /\ q.depth = r.depth - 1 /\ q.menu = r.menu /\ q.handling = r.handling
  <1>1. /\ r.depth - 1 \in 0..MaxDepth
        /\ (IF r.depth = 1 THEN r.late \ {"lock"} ELSE r.late)
           \in SUBSET {"io", "init", "lock"}
    BY DEF Sessions
  <1>2. QED BY <1>1 DEF Sessions

\* The session after MENU_BAR.
LEMMA MenuKeeps ==
    ASSUME NEW r \in Sessions
    PROVE  LET q == [r EXCEPT !.menu = TRUE]
           IN  /\ q \in Sessions /\ q.gen = r.gen /\ q.inited = r.inited
               /\ q.depth = r.depth /\ q.menu /\ q.handling = r.handling
  BY DEF Sessions

\* The session whose request waits.
LEMMA WaitKeeps ==
    ASSUME NEW r \in Sessions
    PROVE  LET q == [r EXCEPT !.handling = TRUE]
           IN  /\ q \in Sessions /\ q.gen = r.gen /\ q.inited = r.inited
               /\ q.depth = r.depth /\ q.menu = r.menu /\ q.handling
  BY DEF Sessions

\* A session whose visible menu would leave the desktop without owner is none.
LEMMA MenuHasDesktop ==
    ASSUME NEW st, Core(st), NEW s \in Slots, sess[s].menu
    PROVE  sess[s].inited /\ desktop # 0
  BY DEF Core, Consistent, OwnersAlive

-----------------------------------------------------------------------------
\* The visit of one session s, whose record after its I/O is r: from the main
\* loop with an empty stack, or from a panel's hook, where s is not the panel's.
Visited(st, s, r, serving) ==
    /\ Core(st) /\ Connected(s) /\ ~IsRoot(st, s)
    /\ r.gen = sess[s].gen /\ r.inited = sess[s].inited /\ r.depth = sess[s].depth
    /\ r.menu = sess[s].menu /\ r.handling = sess[s].handling
    /\ IF serving THEN st # <<>> /\ hook /\ s # modal ELSE st = <<>>

\* A request that is refused, or about something else.
LEMMA AnswerCore ==
    ASSUME NEW st, NEW s \in Slots, NEW r \in Sessions, NEW serving,
           Visited(st, s, r, serving), Replied(s, r, st),
           UNCHANGED <<nextGen, updateDepth, formOwner, desktop, modal, hook>>
    PROVE  Core(stack)'
  <1> DEFINE q == Reply(r, r.gen)
  <1>1. r.gen \in 0..MaxGeneration
    BY DEF Sessions
  <1>2. /\ q \in Sessions /\ q.gen = r.gen /\ q.inited = r.inited /\ q.depth = r.depth
        /\ q.menu = r.menu /\ q.handling = r.handling
    BY <1>1, ReplyKeeps
  <1>3. sess' = [sess EXCEPT ![s] = q] /\ stack' = st
    BY DEF Replied
  <1> HIDE DEF q
  <1>4. /\ Core(st) /\ ~IsRoot(st, s) /\ q.gen # 0
        /\ q.gen = sess[s].gen /\ q.inited = sess[s].inited /\ q.depth = sess[s].depth
        /\ q.menu = sess[s].menu /\ q.handling = sess[s].handling
    BY <1>2 DEF Visited, Connected
  <1>5. QED BY <1>2, <1>3, <1>4, SessionCore

\* A visit that dispatches nothing.
LEMMA IdleCore ==
    ASSUME NEW st, NEW s \in Slots, NEW r \in Sessions, NEW serving,
           Visited(st, s, r, serving), sess' = [sess EXCEPT ![s] = r], stack' = st,
           UNCHANGED <<nextGen, updateDepth, formOwner, desktop, modal, hook>>
    PROVE  Core(stack)'
  <1>1. /\ Core(st) /\ ~IsRoot(st, s) /\ r.gen # 0
        /\ r.gen = sess[s].gen /\ r.inited = sess[s].inited /\ r.depth = sess[s].depth
        /\ r.menu = sess[s].menu /\ r.handling = sess[s].handling
    BY DEF Visited, Connected
  <1>2. QED BY <1>1, SessionCore

\* APPL_INIT.
LEMMA InitCore ==
    ASSUME NEW st, NEW s \in Slots, NEW r \in Sessions, NEW serving,
           Visited(st, s, r, serving), ApplInit(s, r, st), UNCHANGED nextGen
    PROVE  Core(stack)'
  <1> DEFINE i == [r EXCEPT !.inited = TRUE, !.late = @ \ {"init"}]
             q == Reply(i, i.gen)
  <1>1. /\ i \in Sessions /\ i.gen = r.gen /\ i.inited /\ i.depth = r.depth
        /\ i.menu = r.menu
    BY InitKeeps
  <1>2. sess' = [sess EXCEPT ![s] = q] /\ stack' = st
        /\ UNCHANGED <<nextGen, updateDepth, formOwner, desktop, modal, hook>>
    BY DEF ApplInit, Replied
  <1>3. i.gen \in 0..MaxGeneration
    BY <1>1 DEF Sessions
  <1> HIDE DEF i
  <1>4. /\ q \in Sessions /\ q.gen = r.gen /\ q.inited /\ q.depth = r.depth
        /\ q.menu = r.menu
    BY <1>1, <1>3, ReplyKeeps
  <1> HIDE DEF q
  <1>5. /\ Core(st) /\ Connected(s) /\ ~IsRoot(st, s)
        /\ q.gen = sess[s].gen /\ q.depth = sess[s].depth /\ q.menu = sess[s].menu
    BY <1>4 DEF Visited
  <1>6. desktop' = (IF q.menu /\ desktop = 0 THEN q.gen ELSE desktop)
    BY <1>2, <1>5, MenuHasDesktop
  <1>7. QED BY <1>2, <1>4, <1>5, <1>6, ReplyCore

\* FORM_DIAL.
LEMMA FormDialCore ==
    ASSUME NEW st, NEW s \in Slots, NEW r \in Sessions, NEW serving,
           Visited(st, s, r, serving), r.inited, FormDial(s, r, st), UNCHANGED nextGen
    PROVE  Core(stack)'
  <1> DEFINE q == Reply(r, r.gen)
  <1>1. r.gen \in 0..MaxGeneration
    BY DEF Sessions
  <1>2. /\ q \in Sessions /\ q.gen = r.gen /\ q.inited /\ q.depth = r.depth
        /\ q.menu = r.menu
    BY <1>1, ReplyKeeps
  <1>3. sess' = [sess EXCEPT ![s] = q] /\ stack' = st
        /\ UNCHANGED <<nextGen, updateDepth, desktop, modal, hook>>
    BY DEF FormDial, Replied
  <1>4. formOwner' \in {formOwner, 0} \/ formOwner' = r.gen
    BY DEF FormDial
  <1> HIDE DEF q
  <1>5. /\ Core(st) /\ Connected(s) /\ ~IsRoot(st, s)
        /\ q.gen = sess[s].gen /\ q.depth = sess[s].depth /\ q.menu = sess[s].menu
    BY <1>2 DEF Visited
  <1>6. q.menu => desktop # 0
    BY <1>5, MenuHasDesktop
  <1>7. desktop' = (IF q.menu /\ desktop = 0 THEN q.gen ELSE desktop)
    <2>1. desktop' = desktop
      BY <1>3
    <2>2. QED BY <1>6, <2>1, Zenon
  <1>8. formOwner' \in {formOwner, 0} \/ (formOwner' = q.gen /\ q.inited)
    BY <1>2, <1>4
  <1>9. QED BY <1>2, <1>3, <1>5, <1>7, <1>8, ReplyCore

\* MENU_BAR.
LEMMA MenuBarCore ==
    ASSUME NEW st, NEW s \in Slots, NEW r \in Sessions, NEW serving,
           Visited(st, s, r, serving), r.inited, MenuBar(s, r, st), UNCHANGED nextGen
    PROVE  Core(stack)'
  <1> DEFINE i == [r EXCEPT !.menu = TRUE]
             q == Reply(i, i.gen)
  <1>1. /\ i \in Sessions /\ i.gen = r.gen /\ i.inited /\ i.depth = r.depth /\ i.menu
    BY MenuKeeps
  <1>2. sess' = [sess EXCEPT ![s] = q] /\ stack' = st
        /\ UNCHANGED <<nextGen, updateDepth, formOwner, modal, hook>>
        /\ desktop' = (IF desktop = 0 THEN r.gen ELSE desktop)
    BY DEF MenuBar, Replied
  <1>3. i.gen \in 0..MaxGeneration
    BY <1>1 DEF Sessions
  <1> HIDE DEF i
  <1>4. /\ q \in Sessions /\ q.gen = r.gen /\ q.inited /\ q.depth = r.depth /\ q.menu
    BY <1>1, <1>3, ReplyKeeps
  <1> HIDE DEF q
  <1>5. /\ Core(st) /\ Connected(s) /\ ~IsRoot(st, s)
        /\ q.gen = sess[s].gen /\ q.depth = sess[s].depth
    BY <1>4 DEF Visited
  <1>6. desktop' = (IF q.menu /\ desktop = 0 THEN q.gen ELSE desktop)
    BY <1>2, <1>4
  <1>7. QED BY <1>2, <1>4, <1>5, <1>6, ReplyCore

\* BEG_UPDATE and END_UPDATE: the counter moves with the caller's count.
LEMMA WindUpdateCore ==
    ASSUME NEW st, NEW s \in Slots, NEW r \in Sessions, NEW serving,
           Visited(st, s, r, serving), Authorized(r), MayRun(r),
           WindUpdate(s, r, st), UNCHANGED nextGen
    PROVE  Core(stack)'
  <1>1. /\ Core(st) /\ Connected(s) /\ ~IsRoot(st, s)
        /\ r.gen = sess[s].gen /\ r.inited = sess[s].inited
        /\ r.depth = sess[s].depth /\ r.menu = sess[s].menu
    BY DEF Visited
  <1>2. updateDepth = 0 \/ sess[s].depth > 0
    BY <1>1 DEF MayRun
  <1>3. updateDepth = r.depth
    BY <1>1, <1>2, RunnerCounts
  <1>4. \E i \in Sessions :
           /\ i.gen = r.gen /\ i.inited /\ i.menu = r.menu /\ r.inited
           /\ updateDepth' = i.depth /\ Replied(s, i, st)
    <2>1. CASE r.op = "BEG"
      <3> DEFINE i == [r EXCEPT !.depth = @ + 1]
      <3>1. r.inited /\ r.depth < MaxDepth
        BY <2>1 DEF Authorized
      <3>2. /\ i \in Sessions /\ i.gen = r.gen /\ i.inited = r.inited
            /\ i.depth = r.depth + 1 /\ i.menu = r.menu
        BY <3>1, BegKeeps
      <3>3. updateDepth' = updateDepth + 1 /\ Replied(s, i, st)
        BY <2>1 DEF WindUpdate
      <3> HIDE DEF i
      <3>4. QED BY <1>3, <3>1, <3>2, <3>3
    <2>2. CASE r.op = "END"
      <3> DEFINE i == [r EXCEPT !.depth = @ - 1,
                                !.late = IF r.depth = 1 THEN @ \ {"lock"} ELSE @]
      <3>1. r.inited /\ r.depth > 0
        BY <2>2 DEF Authorized
      <3>2. /\ i \in Sessions /\ i.gen = r.gen /\ i.inited = r.inited
            /\ i.depth = r.depth - 1 /\ i.menu = r.menu
        BY <3>1, EndKeeps
      <3>3. updateDepth' = updateDepth - 1 /\ Replied(s, i, st)
        BY <2>2 DEF WindUpdate
      <3> HIDE DEF i
      <3>4. QED BY <1>3, <3>1, <3>2, <3>3
    <2>3. QED BY <2>1, <2>2 DEF WindUpdate
  <1>5. PICK i \in Sessions :
           /\ i.gen = r.gen /\ i.inited /\ i.menu = r.menu /\ r.inited
           /\ updateDepth' = i.depth /\ Replied(s, i, st)
    BY <1>4
  <1> DEFINE q == Reply(i, i.gen)
  <1>6. sess' = [sess EXCEPT ![s] = q] /\ stack' = st
    BY <1>5 DEF Replied
  <1>7. UNCHANGED <<nextGen, formOwner, desktop, modal, hook>>
    BY DEF WindUpdate
  <1>9. /\ q \in Sessions /\ q.gen = i.gen /\ q.inited = i.inited
        /\ q.depth = i.depth /\ q.menu = i.menu
    BY OwnReply, Zenon
  <1> HIDE DEF q
  <1>10. /\ q.gen = sess[s].gen /\ q.inited /\ sess[s].inited /\ q.menu = sess[s].menu
         /\ updateDepth' = q.depth
    BY <1>1, <1>5, <1>9
  <1>11. QED BY <1>1, <1>2, <1>6, <1>7, <1>9, <1>10, CountCore

\* APPL_EXIT unwinds what the application owed.
LEMMA ExitCore ==
    ASSUME NEW st, NEW s \in Slots, NEW r \in Sessions, NEW serving,
           Visited(st, s, r, serving), ApplExit(s, r, st), UNCHANGED nextGen
    PROVE  Core(stack)'
  <1> DEFINE i == [r EXCEPT !.inited = FALSE, !.depth = 0, !.menu = FALSE,
                            !.late = @ \ {"lock", "init"}]
             q == Reply(i, i.gen)
  <1>1. i \in Sessions /\ i.gen = r.gen /\ ~i.inited /\ i.depth = 0 /\ ~i.menu
    BY ExitKeeps
  <1>2. sess' = [sess EXCEPT ![s] = q] /\ stack' = st /\ CleanupApp(s)
        /\ UNCHANGED <<nextGen, modal, hook>>
    BY DEF ApplExit, Replied
  <1>3. i.gen \in 0..MaxGeneration
    BY <1>1 DEF Sessions
  <1> HIDE DEF i
  <1>4. q \in Sessions /\ q.gen = r.gen /\ ~q.inited /\ q.depth = 0 /\ ~q.menu
    BY <1>1, <1>3, ReplyKeeps
  <1> HIDE DEF q
  <1>5. Core(st) /\ Connected(s) /\ ~IsRoot(st, s) /\ q.gen = sess[s].gen
    BY <1>4 DEF Visited
  <1>6. /\ sess' \in [Slots -> Sessions] /\ sess'[s] = q
        /\ \A t \in Slots \ {s} : sess'[t] = sess[t]
        /\ \A t \in Slots : sess'[t].gen = sess[t].gen
        /\ Shape(stack)' /\ Hooked(stack)'
    BY <1>2, <1>4, <1>5, AtSession
  <1>7. Counted(stack)' /\ updateDepth' \in Nat
    <2>1. updateDepth' = (IF updateDepth > sess[s].depth
                          THEN updateDepth - sess[s].depth ELSE 0)
      BY <1>2 DEF CleanupApp
    <2>2. QED BY <1>2, <1>4, <1>5, <1>6, <2>1, CleanupCounts
              DEF Counted, Holder, Tracked, Drags, Root
  <1>8. OwnersAlive' /\ formOwner' \in 0..MaxGeneration /\ desktop' \in 0..MaxGeneration
    BY <1>2, <1>4, <1>5, <1>6, CleanupOwners
  <1>9. Typed(stack)'
    BY <1>2, <1>5, <1>6, <1>7, <1>8 DEF Core, Typed
  <1>10. Consistent'
    BY <1>2, <1>4, <1>5, <1>6 DEF Core, Consistent, Connected
  <1>11. QED BY <1>6, <1>7, <1>8, <1>9, <1>10 DEF Core

\* A request that waits, opened from the main loop or nested under the hook.
LEMMA WaitCore ==
    ASSUME NEW st, NEW s \in Slots, NEW r \in Sessions, NEW serving,
           Visited(st, s, r, serving),
           r.op \in Waiting, serving => r.op \in {"LOCREM", "EVNT"},
           ~serving => r.op # "EVNT",
           r.op = "DRAG" => updateDepth = 0 \/ sess[s].depth > 0,
           updateDepth' = (IF r.op = "DRAG" THEN updateDepth + 1 ELSE updateDepth),
           IF MayWait(r.op) THEN modal' = s /\ hook' = TRUE ELSE UNCHANGED <<modal, hook>>,
           sess' = [sess EXCEPT ![s] = [r EXCEPT !.handling = TRUE]],
           stack' = Push(RequestFrame(s, r.gen, r.op), st),
           UNCHANGED <<nextGen, formOwner, desktop>>
    PROVE  Core(stack)'
  <1> DEFINE q == [r EXCEPT !.handling = TRUE]
             f == RequestFrame(s, r.gen, r.op)
  <1>1. /\ q \in Sessions /\ q.gen = r.gen /\ q.inited = r.inited
        /\ q.depth = r.depth /\ q.menu = r.menu /\ q.handling
    BY WaitKeeps
  <1>2. /\ f \in Frames /\ f.kind = "request" /\ f.slot = s /\ f.gen = r.gen
        /\ f.op = r.op
    <2>1. r.gen \in 0..MaxGeneration
      BY DEF Sessions
    <2>2. QED BY <2>1, FrameTypes
  <1>3. /\ Core(st) /\ Connected(s) /\ ~IsRoot(st, s)
        /\ q.gen = sess[s].gen /\ q.inited = sess[s].inited
        /\ q.depth = sess[s].depth /\ q.menu = sess[s].menu /\ f.gen = q.gen
    BY <1>1, <1>2 DEF Visited
  <1>4. Pushed(stack', f, st)
    <2>1. st \in Seq(Frames)
      BY <1>3 DEF Core, Typed
    <2>2. QED BY <1>2, <2>1, PushedStack
  <1>5. sess' = [sess EXCEPT ![s] = q]
    OBVIOUS
  <1> HIDE DEF q, f
  <1>6. CASE serving
    <2>1. st # <<>> /\ hook /\ s # modal
      BY <1>6 DEF Visited
    <2>2. f.op \in {"LOCREM", "EVNT"}
      BY <1>2, <1>6
    <2>3. UNCHANGED <<nextGen, updateDepth, formOwner, desktop, modal, hook>>
      BY <1>2, <2>2 DEF MayWait
    <2>4. QED BY <1>1, <1>2, <1>3, <1>4, <1>5, <2>1, <2>2, <2>3, NestCore
  <1>7. CASE ~serving
    <2>1. st = <<>>
      BY <1>7 DEF Visited
    <2>2. f.op \in Waiting \ {"EVNT"}
      BY <1>2, <1>7
    <2>3. /\ f.op = "DRAG" => updateDepth = 0 \/ sess[s].depth > 0
          /\ updateDepth' = (IF f.op = "DRAG" THEN updateDepth + 1 ELSE updateDepth)
      BY <1>2
    <2>4. IF MayWait(f.op) THEN modal' = s /\ hook' = TRUE ELSE UNCHANGED <<modal, hook>>
      BY <1>2
    <2>5. Core(<<>>) /\ Pushed(stack', f, <<>>)
      BY <1>3, <1>4, <2>1
    <2>6. UNCHANGED <<nextGen, formOwner, desktop>>
      OBVIOUS
    <2>7. QED BY <1>1, <1>2, <1>3, <1>5, <2>2, <2>3, <2>4, <2>5, <2>6, RootCore
  <1>8. QED BY <1>6, <1>7

\* EVNT_MULTI, answered or nested.
LEMMA EvntCore ==
    ASSUME NEW st, NEW s \in Slots, NEW r \in Sessions, NEW serving,
           Visited(st, s, r, serving), EvntMulti(s, r, st), UNCHANGED nextGen
    PROVE  Core(stack)'
  <1>1. CASE hook /\ formOwner # 0
    <2>1. serving
      BY <1>1 DEF Visited, Core, Hooked
    <2>2. /\ sess' = [sess EXCEPT ![s] = [r EXCEPT !.handling = TRUE]]
          /\ stack' = Push(RequestFrame(s, r.gen, r.op), st)
      BY <1>1 DEF EvntMulti
    <2>3. r.op = "EVNT" /\ UNCHANGED <<updateDepth, formOwner, desktop, modal, hook>>
      BY DEF EvntMulti
    <2>4. r.op \in Waiting /\ ~MayWait(r.op)
      BY <2>3 DEF Waiting, MayWait
    <2>5. QED BY <2>1, <2>2, <2>3, <2>4, WaitCore
  <1>2. CASE ~(hook /\ formOwner # 0)
    <2>1. Replied(s, r, st) /\ UNCHANGED <<nextGen, updateDepth, formOwner, desktop, modal, hook>>
      BY <1>2 DEF EvntMulti
    <2>2. QED BY <2>1, AnswerCore
  <1>3. QED BY <1>1, <1>2

\* The requests that open a panel, a form or a drag.
LEMMA OpenCore ==
    ASSUME NEW st, NEW s \in Slots, NEW r \in Sessions, NEW serving,
           Visited(st, s, r, serving), MayRun(r), serving => ~MayWait(r.op),
           OpenPanel(s, r, st), UNCHANGED nextGen
    PROVE  Core(stack)'
  <1>1. r.op \in {"PANEL", "FORM", "DRAG", "LOCREM"}
    BY DEF OpenPanel
  <1>2. r.op \in Waiting /\ r.op # "EVNT" /\ (serving => r.op \in {"LOCREM", "EVNT"})
    BY <1>1 DEF Waiting, MayWait
  <1>3. /\ sess' = [sess EXCEPT ![s] = [r EXCEPT !.handling = TRUE]]
        /\ stack' = Push(RequestFrame(s, r.gen, r.op), st)
        /\ UNCHANGED <<nextGen, formOwner, desktop>>
    BY DEF OpenPanel
  <1>4. updateDepth' = (IF r.op = "DRAG" THEN updateDepth + 1 ELSE updateDepth)
    BY DEF OpenPanel
  <1>5. IF MayWait(r.op) THEN modal' = s /\ hook' = TRUE ELSE UNCHANGED <<modal, hook>>
    BY DEF OpenPanel
  <1>6. updateDepth = 0 \/ sess[s].depth > 0
    BY DEF MayRun, Visited
  <1>7. QED BY <1>2, <1>3, <1>4, <1>5, <1>6, WaitCore

\* One visit, whatever the request.
LEMMA HandleCore ==
    ASSUME NEW st, NEW s \in Slots, NEW r \in Sessions, NEW serving,
           Visited(st, s, r, serving), HandleRequest(s, r, st, serving), UNCHANGED nextGen
    PROVE  Core(stack)'
  <1>1. CASE ~Runs(r, serving)
    <2>1. /\ sess' = [sess EXCEPT ![s] = r] /\ stack' = st
          /\ UNCHANGED <<nextGen, updateDepth, formOwner, desktop, modal, hook>>
      BY <1>1 DEF HandleRequest
    <2>2. QED BY <2>1, IdleCore
  <1>2. CASE Runs(r, serving)
    <2>1. MayRun(r) /\ (serving => ~MayWait(r.op))
      BY <1>2 DEF Runs
    <2>2. Dispatch(s, r, st)
      BY <1>2 DEF HandleRequest
    <2>3. CASE Answer(s, r, st)
      <3>1. /\ Replied(s, r, st)
            /\ UNCHANGED <<nextGen, updateDepth, formOwner, desktop, modal, hook>>
        BY <2>3 DEF Answer
      <3>2. QED BY <3>1, AnswerCore
    <2>4. CASE ApplInit(s, r, st)
      BY <2>4, InitCore
    <2>5. CASE ApplExit(s, r, st)
      BY <2>5, ExitCore
    <2>6. CASE Authorized(r) /\ WindUpdate(s, r, st)
      BY <2>1, <2>6, WindUpdateCore
    <2>7. CASE Authorized(r) /\ FormDial(s, r, st)
      <3>1. r.inited
        BY <2>7 DEF Authorized, FormDial
      <3>2. QED BY <2>7, <3>1, FormDialCore
    <2>8. CASE Authorized(r) /\ MenuBar(s, r, st)
      <3>1. r.inited
        BY <2>8 DEF Authorized, MenuBar
      <3>2. QED BY <2>8, <3>1, MenuBarCore
    <2>9. CASE EvntMulti(s, r, st)
      BY <2>9, EvntCore
    <2>10. CASE OpenPanel(s, r, st)
      BY <2>1, <2>10, OpenCore
    <2>11. QED BY <2>2, <2>3, <2>4, <2>5, <2>6, <2>7, <2>8, <2>9, <2>10 DEF Dispatch
  <1>3. QED BY <1>1, <1>2

-----------------------------------------------------------------------------
(* The invariant of the whole server, and its steps.                        *)

\* The place in main()'s loop.
Loop ==
    /\ phase \in {"poll", "pump", "serve", "pump2", "down"}
    /\ turn \in 0..(NumSlots + MaxHid + 1)
    /\ snapshot \in [Slots -> [gen : 0..MaxGeneration,
                               event : {"none", "in", "out", "hup"}]]
    /\ stopping \in BOOLEAN
    /\ phase = "down" => stack = <<>> /\ stopping

Inv == Core(stack) /\ Loop

\* The server starts with nobody connected and nothing waiting.
LEMMA InitInv == Init => Inv
  <1> SUFFICES ASSUME Init PROVE Inv
    OBVIOUS
  <1>1. sess = [s \in Slots |-> Free] /\ \A s \in Slots : sess[s] = Free
    BY DEF Init
  <1>2. stack = <<>> /\ stack \in Seq(Frames) /\ Len(stack) = 0
    BY EmptySeq DEF Init
  <1>3. Typed(stack)
    <2>1. sess \in [Slots -> Sessions]
      BY <1>1, FreeIsSession
    <2>2. /\ nextGen = 0 /\ updateDepth = 0 /\ formOwner = 0 /\ desktop = 0 /\ modal = 0
          /\ hook = FALSE
      BY DEF Init
    <2>3. 0 \in 0..MaxGeneration /\ 0 \in Nat /\ 0 \in 0..NumSlots
      OBVIOUS
    <2>4. QED BY <1>2, <2>1, <2>2, <2>3 DEF Typed
  <1>4. Shape(stack) /\ Hooked(stack)
    BY <1>2 DEF Init, Shape, Hooked
  <1>5. ~Drags(stack) /\ Tracked(stack) = 0
    BY <1>2 DEF Drags, Tracked
  <1>6. Counted(stack)
    BY <1>1, <1>5, FreeIsSession DEF Init, Counted, Holder
  <1>7. Consistent /\ OwnersAlive
    BY <1>1, FreeIsSession DEF Init, Consistent, OwnersAlive
  <1>8. Loop
    <2>1. [gen |-> 0, event |-> "none"] \in [gen : 0..MaxGeneration,
                                             event : {"none", "in", "out", "hup"}]
      OBVIOUS
    <2>2. snapshot \in [Slots -> [gen : 0..MaxGeneration,
                                  event : {"none", "in", "out", "hup"}]]
      BY <2>1 DEF Init
    <2>3. phase = "poll" /\ turn = 0 /\ stopping = FALSE
      BY DEF Init
    <2>4. 0 \in 0..(NumSlots + MaxHid + 1)
      OBVIOUS
    <2>5. QED BY <2>2, <2>3, <2>4 DEF Loop
  <1>9. QED BY <1>3, <1>4, <1>6, <1>7, <1>8 DEF Inv, Core

\* The counter never exceeds what one application may nest, and a drag.
LEMMA InvTypes == Inv => TypeOK
  <1> SUFFICES ASSUME Inv PROVE TypeOK
    OBVIOUS
  <1>1. Typed(stack) /\ Counted(stack)
    BY DEF Inv, Core
  <1>2. updateDepth \in 0..(MaxDepth + 1)
    <2>1. \A s \in Slots : sess[s].depth \in 0..MaxDepth
      BY <1>1, SessionTypes DEF Typed
    <2>2. Tracked(stack) \in {0, 1}
      BY DEF Tracked
    <2>3. QED BY <1>1, <2>1, <2>2 DEF Counted
  <1>3. QED BY <1>1, <1>2 DEF Inv, Loop, Typed, TypeOK, Sessions

\* What RequesterStays, HookCoversPanel and OwnersAlive say follows from the
\* root's place at the bottom: no other frame is modal.
LEMMA OnlyRootIsModal ==
    ASSUME Core(stack)
    PROVE  /\ \A i \in DOMAIN stack : stack[i].kind = "system" \/ IsModal(stack[i])
                  => stack # <<>> /\ stack[i] = Root(stack)
           /\ stack # <<>> => \E i \in DOMAIN stack : stack[i] = Root(stack)
  <1>1. /\ stack \in Seq(Frames) /\ DOMAIN stack = 1..Len(stack) /\ Len(stack) \in Nat
        /\ stack = <<>> <=> Len(stack) = 0
    BY StackTypes, LenProperties DEF Core
  <1>2. ASSUME NEW i \in DOMAIN stack, stack[i].kind = "system" \/ IsModal(stack[i])
        PROVE  stack # <<>> /\ stack[i] = Root(stack)
    <2>1. FrameFits(stack, i)
      BY <1>1 DEF Core, Shape
    <2>2. ~(i < Len(stack))
      BY <1>2, <2>1 DEF FrameFits, IsModal, MayWait
    <2>3. QED BY <1>1, <2>2 DEF Root
  <1>3. stack # <<>> => Len(stack) \in DOMAIN stack
    BY <1>1
  <1>4. QED BY <1>2, <1>3 DEF Root

\* The invariant implies three of the properties the runs check.
LEMMA CoreSafe ==
    ASSUME Core(stack) PROVE RequesterStays /\ HookCoversPanel /\ OwnersAlive
  <1>1. RequesterStays
    <2>1. ASSUME NEW i \in DOMAIN stack, IsModal(stack[i])
          PROVE  modal = stack[i].slot /\ sess[modal].gen = stack[i].gen
      <3>1. stack # <<>> /\ stack[i] = Root(stack)
        BY <2>1, OnlyRootIsModal
      <3>2. QED BY <2>1, <3>1 DEF Core, Hooked, IsModal
    <2>2. modal # 0 => stack # <<>> /\ IsModal(Root(stack))
      BY DEF Core, Hooked
    <2>3. QED BY <2>1, <2>2, OnlyRootIsModal DEF RequesterStays
  <1>2. HookCoversPanel
    <2>1. hook => \E i \in DOMAIN stack : stack[i].kind = "system" \/ IsModal(stack[i])
      BY OnlyRootIsModal DEF Core, Hooked
    <2>2. (\E i \in DOMAIN stack : stack[i].kind = "system" \/ IsModal(stack[i])) => hook
      BY OnlyRootIsModal DEF Core, Hooked
    <2>3. QED BY <2>1, <2>2 DEF HookCoversPanel
  <1>3. QED BY <1>1, <1>2 DEF Core

-----------------------------------------------------------------------------
\* The frames that the hook adds, moves on and takes off.
LEMMA ServiceFrames ==
    /\ OtherFrame("service", 1) \in Frames /\ OtherFrame("service", 1).op = None
    /\ OtherFrame("service", 1).kind = "service"
    /\ OtherFrame("command", 0) \in Frames /\ OtherFrame("command", 0).op = None
    /\ OtherFrame("command", 0).kind = "command"
    /\ OtherFrame("system", 0) \in Frames /\ OtherFrame("system", 0).op = None
    /\ OtherFrame("system", 0).kind = "system"
  <1>1. 0 \in 0..NumSlots /\ 0 \in 0..MaxGeneration /\ 0 \in 0..(NumSlots + 1)
        /\ 1 \in 0..(NumSlots + 1)
    OBVIOUS
  <1>2. QED BY <1>1 DEF OtherFrame, Frames

\* A service runs inside a wait: its frame is not the oldest.
LEMMA ServiceNotRoot ==
    ASSUME NEW st, Core(st), st # <<>>, Head(st).kind = "service"
    PROVE  Len(st) > 1
  <1>1. Len(st) \in Nat \ {0} /\ Head(st) = st[1]
    BY TailProps DEF Core, Typed
  <1>2. FrameFits(st, 1)
    BY <1>1 DEF Core, Shape
  <1>3. Len(st) # 1
    BY <1>1, <1>2 DEF FrameFits
  <1>4. \A n \in Nat \ {0} : n # 1 => n > 1
    OBVIOUS
  <1>5. QED BY <1>1, <1>3, <1>4

\* A frame that only notes its progress is the same frame.
LEMMA ReplaceTop ==
    ASSUME NEW st, Core(st), st # <<>>, NEW f \in Frames,
           f.kind = Head(st).kind, f.slot = Head(st).slot,
           f.gen = Head(st).gen, f.op = Head(st).op
    PROVE  Core(Push(f, Tail(st))) /\ Push(f, Tail(st)) # <<>>
           /\ Head(Push(f, Tail(st))) = f
  <1> DEFINE new == Push(f, Tail(st))
  <1>1. /\ st \in Seq(Frames) /\ Head(st) = st[1] /\ Len(st) \in Nat \ {0}
        /\ Tail(st) \in Seq(Frames) /\ Len(Tail(st)) = Len(st) - 1
        /\ \A i \in 1..Len(Tail(st)) : Tail(st)[i] = st[i + 1]
    BY TailProps DEF Core, Typed
  <1>2. /\ new \in Seq(Frames) /\ Len(new) = Len(Tail(st)) + 1 /\ new[1] = f
        /\ \A i \in 1..Len(Tail(st)) : new[i + 1] = Tail(st)[i]
        /\ new # <<>> /\ Head(new) = f
    <2>1. Tail(st) \in Seq(Frames)
      BY <1>1
    <2>2. Pushed(new, f, Tail(st)) /\ Head(new) = f
      BY <2>1, PushedStack, PushedTop, Zenon
    <2>3. QED BY <2>2 DEF Pushed
  <1> HIDE DEF new
  <1>3. Len(new) = Len(st)
    BY <1>1, <1>2
  <1>4. \A i \in 1..Len(st) : i = 1 \/ new[i] = st[i]
    <2>1. ASSUME NEW i \in 1..Len(st), i # 1 PROVE new[i] = st[i]
      <3>1. i - 1 \in 1..Len(Tail(st)) /\ (i - 1) + 1 = i
        BY <1>1, <2>1
      <3>2. QED BY <1>1, <1>2, <3>1
    <2>2. QED BY <2>1
  <1>5. \A i \in 1..Len(st) : /\ new[i].kind = st[i].kind /\ new[i].slot = st[i].slot
                              /\ new[i].gen = st[i].gen /\ new[i].op = st[i].op
    BY <1>1, <1>2, <1>4
  <1>6. Core(new)
    BY <1>2, <1>3, <1>5, SameShape
  <1>7. QED BY <1>2, <1>6 DEF new

\* The frame of a service that has visited one more session.
LEMMA OnwardCore ==
    ASSUME Core(stack), InService, Top.next \in Slots
    PROVE  Core(Onward) /\ Onward # <<>> /\ hook
  <1> DEFINE f == [Top EXCEPT !.next = @ + 1]
  <1>1. Head(stack) \in Frames /\ stack # <<>> /\ Head(stack).kind = "service"
    BY FrameSlot DEF InService, Top
  <1>2. Head(stack).next + 1 \in 0..(NumSlots + 1)
    BY DEF Top
  <1>3. /\ f \in Frames /\ f.kind = Head(stack).kind /\ f.slot = Head(stack).slot
        /\ f.gen = Head(stack).gen /\ f.op = Head(stack).op
    BY <1>1, <1>2 DEF Frames, Top
  <1>4. Onward = Push(f, Tail(stack))
    BY DEF Onward
  <1> HIDE DEF f
  <1>5. Core(Onward) /\ Onward # <<>>
    BY <1>1, <1>3, <1>4, ReplaceTop
  <1>6. hook
    <2>1. Len(stack) > 1
      BY <1>1, ServiceNotRoot
    <2>2. QED BY <2>1 DEF Core, Shape
  <1>7. QED BY <1>5, <1>6

\* Under the hook, the stack a service runs on.
LEMMA ServiceTail ==
    ASSUME Core(stack), InService
    PROVE  Core(Tail(stack)) /\ Tail(stack) # <<>> /\ hook
  <1>1. Len(stack) > 1
    BY ServiceNotRoot DEF InService, Top
  <1>2. QED BY <1>1, PopCore

\* The record of a session after the I/O of a visit.
LEMMA VisitedAfterIO ==
    ASSUME NEW st, Core(st), NEW s \in Slots, Connected(s), ~IsRoot(st, s),
           NEW event, NEW serving,
           IF serving THEN st # <<>> /\ hook /\ s # modal ELSE st = <<>>
    PROVE  /\ Transfer(sess[s], event) \in Sessions
           /\ Visited(st, s, Transfer(sess[s], event), serving)
  <1>1. sess[s] \in Sessions
    BY SessionTypes DEF Core, Typed
  <1>2. QED BY <1>1, TransferKeeps DEF Visited

-----------------------------------------------------------------------------
\* A panel calls its hook.
LEMMA CallHookCore ==
    ASSUME Core(stack), CallHook PROVE Core(stack)'
  <1>1. stack # <<>> /\ hook
    BY DEF CallHook, AtPanel
  <1>2. CASE Cancelled
    <2>1. FinishFrame(stack) /\ UNCHANGED nextGen
      BY <1>2 DEF CallHook
    <2>2. QED BY <1>1, <2>1, FinishCore
  <1>3. CASE ~Cancelled
    <2> DEFINE new == Push(OtherFrame("service", 1), stack)
    <2>1. /\ TryAccept /\ stack' = new
          /\ UNCHANGED <<updateDepth, formOwner, desktop, modal, hook>>
      BY <1>3 DEF CallHook
    <2>2. Core(new)
      BY <1>1, ServiceFrames, PushCore
    <2> HIDE DEF new
    <2>3. QED BY <2>1, <2>2, AcceptCore
  <1>4. QED BY <1>2, <1>3

\* The hook visits one session.
LEMMA ServiceVisitCore ==
    ASSUME Core(stack), ServiceVisit PROVE Core(stack)'
  <1> DEFINE s == Top.next
             event == Poll(sess[s])
             r == Transfer(sess[s], event)
             overdue == modal # 0 /\ "lock" \in sess[s].late
  <1>1. InService /\ s \in Slots /\ UNCHANGED nextGen
    BY DEF ServiceVisit
  <1>2. Core(Onward) /\ Onward # <<>> /\ hook
    BY <1>1, OnwardCore
  <1>3. CASE /\ stack' = Onward
             /\ UNCHANGED <<sess, updateDepth, formOwner, desktop, modal, hook>>
    BY <1>1, <1>2, <1>3, SameCore
  <1>4. CASE FinishFrame(Tail(stack))
    BY <1>1, <1>4, ServiceTail, FinishCore
  <1>5. CASE Connected(s) /\ ~IsRequester(s) /\ CloseSession(s) /\ stack' = Onward
    <2>1. ~IsRoot(Onward, s)
      BY <1>1, <1>2, <1>5, RootIsModal DEF IsRequester
    <2>2. QED BY <1>1, <1>2, <1>5, <2>1, CloseCore
  <1>6. CASE Connected(s) /\ ~IsRequester(s) /\ HandleRequest(s, r, Onward, TRUE)
    <2>1. s # modal /\ ~IsRoot(Onward, s)
      BY <1>1, <1>2, <1>6, RootIsModal DEF IsRequester
    <2>2. r \in Sessions /\ Visited(Onward, s, r, TRUE)
      BY <1>1, <1>2, <1>6, <2>1, VisitedAfterIO
    <2>3. HandleRequest(s, r, Onward, TRUE)
      BY <1>6
    <2> HIDE DEF r, s
    <2>4. QED BY <1>1, <2>2, <2>3, HandleCore
  <1>7. \/ /\ stack' = Onward
           /\ UNCHANGED <<sess, updateDepth, formOwner, desktop, modal, hook>>
        \/ FinishFrame(Tail(stack))
        \/ Connected(s) /\ ~IsRequester(s) /\ CloseSession(s) /\ stack' = Onward
        \/ Connected(s) /\ ~IsRequester(s) /\ HandleRequest(s, r, Onward, TRUE)
    BY DEF ServiceVisit
  <1>8. QED BY <1>3, <1>4, <1>5, <1>6, <1>7

\* The hook returns to the wait.
LEMMA ServiceReturnCore ==
    ASSUME Core(stack), ServiceReturn PROVE Core(stack)'
  <1> DEFINE st == Tail(stack)
             f == [Head(st) EXCEPT !.polled = TRUE]
  <1>1. Core(st) /\ st # <<>>
    BY ServiceTail DEF ServiceReturn
  <1>2. Head(st) \in Frames
    BY <1>1, FrameSlot
  <1>3. /\ stack' = Push(f, Tail(st))
        /\ UNCHANGED <<sess, nextGen, updateDepth, formOwner, desktop, modal, hook>>
    BY DEF ServiceReturn
  <1> HIDE DEF st
  <1>4. /\ f \in Frames /\ f.kind = Head(st).kind /\ f.slot = Head(st).slot
        /\ f.gen = Head(st).gen /\ f.op = Head(st).op
    BY <1>2 DEF Frames
  <1> HIDE DEF f
  <1>5. Core(Push(f, Tail(st)))
    BY <1>1, <1>4, ReplaceTop
  <1>6. QED BY <1>3, <1>5, SameCore

\* A system-menu command opens inside a wait.
LEMMA UserCommandsCore ==
    ASSUME Core(stack), UserCommands PROVE Core(stack)'
  <1> DEFINE f == [Top EXCEPT !.polled = FALSE]
             st == Push(f, Tail(stack))
  <1>1. stack # <<>> /\ hook /\ Head(stack).op \in {"FORM", "EVNT"}
    BY DEF UserCommands, AtPanel, Top
  <1>2. Head(stack) \in Frames
    BY <1>1, FrameSlot
  <1>3. /\ stack' = Push(OtherFrame("command", 0), st)
        /\ UNCHANGED <<sess, nextGen, updateDepth, formOwner, desktop, modal, hook>>
    BY DEF UserCommands
  <1>4. /\ f \in Frames /\ f.kind = Head(stack).kind /\ f.slot = Head(stack).slot
        /\ f.gen = Head(stack).gen /\ f.op = Head(stack).op
    BY <1>2 DEF Frames, Top
  <1> HIDE DEF f
  <1>5. Core(st) /\ st # <<>> /\ Head(st) = f
    BY <1>1, <1>4, ReplaceTop
  <1>6. Head(st).op \in {"FORM", "EVNT"}
    BY <1>1, <1>4, <1>5
  <1> HIDE DEF st
  <1>7. Core(Push(OtherFrame("command", 0), st))
    BY <1>1, <1>5, <1>6, ServiceFrames, PushCore
  <1>8. QED BY <1>3, <1>7, SameCore

\* The main loop visits one session.
LEMMA MainVisitCore ==
    ASSUME Core(stack), MainVisit PROVE Core(stack)'
  <1> DEFINE r == sess[turn]
             event == snapshot[turn].event
  <1>1. stack = <<>> /\ turn \in Slots /\ UNCHANGED nextGen
    BY DEF MainVisit
  <1>2. ~IsRoot(stack, turn)
    BY <1>1 DEF IsRoot
  <1>3. CASE UNCHANGED <<sess, updateDepth, formOwner, desktop, stack, modal, hook>>
    BY <1>1, <1>3, SameCore
  <1>4. CASE Connected(turn) /\ CloseSession(turn) /\ UNCHANGED stack
    BY <1>1, <1>2, <1>4, CloseCore
  <1>5. CASE Connected(turn) /\ HandleRequest(turn, Transfer(r, event), stack, FALSE)
    <2>1. /\ Transfer(r, event) \in Sessions
          /\ Visited(stack, turn, Transfer(r, event), FALSE)
      BY <1>1, <1>2, <1>5, VisitedAfterIO
    <2> HIDE DEF r, event
    <2>2. QED BY <1>1, <1>5, <2>1, HandleCore
  <1>6. \/ UNCHANGED <<sess, updateDepth, formOwner, desktop, stack, modal, hook>>
        \/ Connected(turn) /\ CloseSession(turn) /\ UNCHANGED stack
        \/ Connected(turn) /\ HandleRequest(turn, Transfer(r, event), stack, FALSE)
    BY DEF MainVisit, Polled
  <1>7. QED BY <1>3, <1>4, <1>5, <1>6

\* A physical event opens a panel of the server's own.
LEMMA PumpEventCore ==
    ASSUME Core(stack), PumpEvent PROVE Core(stack)'
  <1>1. stack = <<>> /\ stack' = <<OtherFrame("system", 0)>> /\ modal' = 0 /\ hook' = TRUE
        /\ UNCHANGED <<sess, nextGen, updateDepth, formOwner, desktop>>
    BY DEF PumpEvent
  <1> DEFINE f == OtherFrame("system", 0)
  <1>2. f \in Frames /\ f.op = None /\ f.kind = "system"
    BY ServiceFrames
  <1> HIDE DEF f
  <1>3. stack' \in Seq(Frames) /\ Len(stack') = 1 /\ stack' # <<>> /\ stack'[1] = f
    BY <1>1, <1>2 DEF f
  <1>4. Root(stack') = f
    BY <1>3 DEF Root
  <1>5. Typed(stack)'
    <2>1. modal' \in 0..NumSlots /\ hook' \in BOOLEAN
      BY <1>1
    <2>2. QED BY <1>1, <1>3, <2>1 DEF Core, Typed
  <1>6. Shape(stack)'
    <2>1. FrameFits(stack, 1)'
      BY <1>2, <1>3 DEF FrameFits, None
    <2>2. QED BY <1>3, <2>1 DEF Shape
  <1>7. Hooked(stack)'
    BY <1>1, <1>2, <1>3, <1>4 DEF Hooked, IsModal
  <1>8. ~Drags(stack)' /\ Tracked(stack)' = 0 /\ ~Drags(<<>>) /\ Tracked(<<>>) = 0
    BY <1>2, <1>4 DEF Drags, Tracked, None
  <1>9. Counted(stack)'
    BY <1>1, <1>8 DEF Core, Counted, Holder
  <1>10. Consistent'
    BY <1>1 DEF Core, Consistent
  <1>11. OwnersAlive'
    BY <1>1 DEF Core, OwnersAlive
  <1>12. QED BY <1>5, <1>6, <1>7, <1>9, <1>10, <1>11 DEF Core

\* The clients and the clock change what a session waits for, and nothing else.
LEMMA EnvironmentCore ==
    ASSUME Core(stack), NEW s \in Slots,
           Send(s) \/ Stall(s) \/ Gone(s) \/ \E kind \in {"io", "init", "lock"} : Expire(s, kind)
    PROVE  Core(stack)'
  <1>1. Connected(s) /\ sess[s] \in Sessions /\ sess \in [Slots -> Sessions]
    BY SessionTypes DEF Core, Typed, Send, Stall, Gone, Expire
  <1>2. stack' = stack /\ UNCHANGED <<nextGen, updateDepth, formOwner, desktop, modal, hook>>
    BY DEF Send, Stall, Gone, Expire, OnlySessions
  <1>3. \E r \in Sessions : /\ sess' = [sess EXCEPT ![s] = r]
                            /\ r.gen = sess[s].gen /\ r.inited = sess[s].inited
                            /\ r.depth = sess[s].depth /\ r.menu = sess[s].menu
                            /\ r.handling = sess[s].handling
    <2>1. CASE Send(s)
      <3>1. PICK o \in Ops : sess' = [sess EXCEPT ![s].peer = "waiting", ![s].wire = o]
        BY <2>1 DEF Send
      <3> DEFINE r == [sess[s] EXCEPT !.peer = "waiting", !.wire = o]
      <3>2. sess' = [sess EXCEPT ![s] = r]
        BY <1>1, <3>1
      <3>3. o \in Requests \cup {None}
        OBVIOUS
      <3>4. /\ r \in Sessions /\ r.gen = sess[s].gen /\ r.inited = sess[s].inited
            /\ r.depth = sess[s].depth /\ r.menu = sess[s].menu
            /\ r.handling = sess[s].handling
        BY <1>1, <3>3 DEF Sessions
      <3> HIDE DEF r
      <3>5. QED BY <3>2, <3>4
    <2>2. CASE Stall(s) \/ Gone(s)
      <3>1. PICK p \in {"stuck", "gone"} : sess' = [sess EXCEPT ![s].peer = p]
        BY <2>2 DEF Stall, Gone
      <3> DEFINE r == [sess[s] EXCEPT !.peer = p]
      <3>2. sess' = [sess EXCEPT ![s] = r]
        BY <1>1, <3>1
      <3>3. /\ r \in Sessions /\ r.gen = sess[s].gen /\ r.inited = sess[s].inited
            /\ r.depth = sess[s].depth /\ r.menu = sess[s].menu
            /\ r.handling = sess[s].handling
        BY <1>1 DEF Sessions
      <3> HIDE DEF r
      <3>4. QED BY <3>2, <3>3
    <2>3. CASE \E kind \in {"io", "init", "lock"} : Expire(s, kind)
      <3>1. PICK kind \in {"io", "init", "lock"} :
               sess' = [sess EXCEPT ![s].late = @ \cup {kind}]
        BY <2>3 DEF Expire
      <3> DEFINE r == [sess[s] EXCEPT !.late = @ \cup {kind}]
      <3>2. sess' = [sess EXCEPT ![s] = r]
        BY <1>1, <3>1
      <3>3. sess[s].late \cup {kind} \in SUBSET {"io", "init", "lock"}
        BY <1>1 DEF Sessions
      <3>4. /\ r \in Sessions /\ r.gen = sess[s].gen /\ r.inited = sess[s].inited
            /\ r.depth = sess[s].depth /\ r.menu = sess[s].menu
            /\ r.handling = sess[s].handling
        BY <1>1, <3>3 DEF Sessions
      <3> HIDE DEF r
      <3>5. QED BY <3>2, <3>4
    <2>4. QED BY <2>1, <2>2, <2>3
  <1>4. PICK r \in Sessions : /\ sess' = [sess EXCEPT ![s] = r]
                              /\ r.gen = sess[s].gen /\ r.inited = sess[s].inited
                              /\ r.depth = sess[s].depth /\ r.menu = sess[s].menu
                              /\ r.handling = sess[s].handling
    BY <1>3
  <1>5. r.gen # 0
    BY <1>1, <1>4 DEF Connected
  <1>6. QED BY <1>2, <1>4, <1>5, SessionCore

-----------------------------------------------------------------------------
\* What poll() reports of a session.
LEMMA PollTypes ==
    ASSUME NEW r PROVE Poll(r) \in {"none", "in", "out", "hup"}
  BY DEF Poll

\* The indices of main()'s inner loops.
Places == 0..(NumSlots + MaxHid + 1)

\* The places of the main loop.
LEMMA PlaceFacts ==
    /\ 0 \in Places /\ 1 \in Places /\ MaxHid \in Places
    /\ \A t \in Slots : t + 1 \in Places
    /\ \A t \in Places : t > 0 => t - 1 \in Places
  BY DEF Places

\* pollfds[] after a poll().
LEMMA SnapshotTypes ==
    ASSUME Typed(stack)
    PROVE  /\ [s \in Slots |-> [gen |-> sess[s].gen, event |-> Poll(sess[s])]]
              \in [Slots -> [gen : 0..MaxGeneration, event : {"none", "in", "out", "hup"}]]
           /\ NoSnapshot
              \in [Slots -> [gen : 0..MaxGeneration, event : {"none", "in", "out", "hup"}]]
  <1>1. \A s \in Slots : sess[s].gen \in 0..MaxGeneration
    BY SessionTypes DEF Typed
  <1>2. 0 \in 0..MaxGeneration
    OBVIOUS
  <1>3. QED BY <1>1, <1>2, PollTypes DEF NoSnapshot

\* A step that leaves the loop where it is, and panics nobody.
LEMMA SamePlace ==
    ASSUME Loop, UNCHANGED <<phase, turn, snapshot, stopping>>,
           stack # <<>> \/ stack' = stack
    PROVE  Loop'
  BY DEF Loop

\* Every step keeps to the main loop; gemd_shutdown() runs with nothing waiting.
LEMMA LoopStep ==
    ASSUME Inv, Next PROVE Loop'
  <1>1. /\ phase \in {"poll", "pump", "serve", "pump2", "down"} /\ turn \in Places
        /\ snapshot \in [Slots -> [gen : 0..MaxGeneration,
                                   event : {"none", "in", "out", "hup"}]]
        /\ stopping \in BOOLEAN /\ (phase = "down" => stack = <<>> /\ stopping)
    BY DEF Inv, Loop, Places
  <1>2. SUFFICES
          /\ phase' \in {"poll", "pump", "serve", "pump2", "down"} /\ turn' \in Places
          /\ snapshot' \in [Slots -> [gen : 0..MaxGeneration,
                                      event : {"none", "in", "out", "hup"}]]
          /\ stopping' \in BOOLEAN /\ (phase' = "down" => stack' = <<>> /\ stopping')
    BY DEF Loop, Places
  <1>3. Typed(stack)
    BY DEF Inv, Core
  <1>4. CASE CallHook \/ ServiceVisit \/ ServiceReturn \/ EvntReturns \/ UserAnswers
             \/ UserCommands
    <2>1. stack # <<>> /\ UNCHANGED <<phase, turn, snapshot, stopping>>
      BY <1>4 DEF CallHook, ServiceVisit, ServiceReturn, EvntReturns, UserAnswers,
                  UserCommands, AtPanel, InService
    <2>2. QED BY <1>1, <2>1
  <1>5. CASE UserConfirms
    <2>1. stack # <<>> /\ UNCHANGED <<phase, turn, snapshot>> /\ stopping' \in BOOLEAN
      BY <1>1, <1>5 DEF UserConfirms, AtPanel
    <2>2. QED BY <1>1, <2>1
  <1>6. CASE PollSockets
    <2>1. /\ phase' \in {"pump", "serve"} /\ turn' \in {1, MaxHid} /\ stopping' = stopping
          /\ snapshot' = [s \in Slots |-> [gen |-> sess[s].gen, event |-> Poll(sess[s])]]
      BY <1>6 DEF PollSockets, EnterPump
    <2>2. QED BY <1>1, <1>3, <2>1, PlaceFacts, SnapshotTypes
  <1>7. CASE PumpDone
    <2>1. /\ phase' \in {"poll", "serve"} /\ turn' \in {0, 1}
          /\ UNCHANGED <<snapshot, stopping>>
      BY <1>7 DEF PumpDone
    <2>2. QED BY <1>1, <2>1, PlaceFacts
  <1>8. CASE MainVisit
    <2>1. /\ phase = "serve" /\ turn \in Slots /\ turn' = turn + 1
          /\ UNCHANGED <<phase, snapshot, stopping>>
      BY <1>8 DEF MainVisit
    <2>2. turn' \in Places
      BY <2>1, PlaceFacts
    <2>3. QED BY <1>1, <2>1, <2>2
  <1>9. CASE MainAccept
    <2>1. /\ phase' \in {"pump2", "poll"} /\ turn' \in {0, MaxHid} /\ stopping' = stopping
          /\ snapshot' = NoSnapshot
      BY <1>9 DEF MainAccept, EnterPump
    <2>2. QED BY <1>1, <1>3, <2>1, PlaceFacts, SnapshotTypes
  <1>10. CASE Stop
    <2>1. /\ phase' = "down" /\ turn' = 1 /\ stack = <<>> /\ stopping
          /\ UNCHANGED <<stack, snapshot, stopping>>
      BY <1>10 DEF Stop
    <2>2. QED BY <1>1, <2>1, PlaceFacts
  <1>11. CASE ShutdownVisit
    <2>1. /\ turn \in Slots /\ turn' = turn + 1
          /\ UNCHANGED <<stack, phase, snapshot, stopping>>
      BY <1>11 DEF ShutdownVisit
    <2>2. turn' \in Places
      BY <2>1, PlaceFacts
    <2>3. QED BY <1>1, <2>1, <2>2
  <1>12. CASE PumpEvent
    <2>1. /\ phase # "down" /\ turn > 0 /\ turn' = turn - 1
          /\ UNCHANGED <<phase, snapshot, stopping>>
      BY <1>12 DEF PumpEvent
    <2>2. turn' \in Places
      BY <1>1, <2>1, PlaceFacts
    <2>3. QED BY <1>1, <2>1, <2>2
  <1>13. CASE Signal
    <2>1. stopping' = TRUE /\ UNCHANGED <<stack, phase, turn, snapshot>>
      BY <1>13 DEF Signal
    <2>2. QED BY <1>1, <2>1
  <1>14. CASE \E s \in Slots : \/ Send(s) \/ Stall(s) \/ Gone(s)
                               \/ \E kind \in {"io", "init", "lock"} : Expire(s, kind)
    <2>1. UNCHANGED <<stack, phase, turn, snapshot, stopping>>
      BY <1>14 DEF Send, Stall, Gone, Expire, OnlySessions
    <2>2. QED BY <1>1, <2>1
  <1>15. CASE Terminated
    BY <1>1, <1>15 DEF Terminated, vars
  <1>16. QED BY <1>4, <1>5, <1>6, <1>7, <1>8, <1>9, <1>10, <1>11, <1>12, <1>13, <1>14, <1>15
             DEF Next, ServerStep, UserStep, Environment

\* Every step keeps the invariant.
LEMMA CoreStep ==
    ASSUME Inv, Next PROVE Core(stack)'
  <1>1. Core(stack) /\ (phase = "down" => stack = <<>>)
    BY DEF Inv, Loop
  <1>2. CASE CallHook
    BY <1>1, <1>2, CallHookCore
  <1>3. CASE ServiceVisit
    BY <1>1, <1>3, ServiceVisitCore
  <1>4. CASE ServiceReturn
    BY <1>1, <1>4, ServiceReturnCore
  <1>5. CASE PollSockets \/ PumpDone \/ Stop \/ Signal \/ Terminated
    <2>1. UNCHANGED <<sess, nextGen, updateDepth, formOwner, desktop, stack, modal, hook>>
      BY <1>5 DEF PollSockets, PumpDone, Stop, Signal, Terminated, vars
    <2>2. QED BY <1>1, <2>1, SameCore
  <1>6. CASE MainVisit
    BY <1>1, <1>6, MainVisitCore
  <1>7. CASE MainAccept
    <2>1. /\ TryAccept /\ stack' = stack
          /\ UNCHANGED <<updateDepth, formOwner, desktop, modal, hook>>
      BY <1>7 DEF MainAccept
    <2>2. QED BY <1>1, <2>1, AcceptCore
  <1>8. CASE ShutdownVisit
    <2>1. /\ phase = "down" /\ turn \in Slots /\ stack' = stack /\ UNCHANGED nextGen
          /\ IF Connected(turn) THEN CloseSession(turn)
             ELSE UNCHANGED <<sess, updateDepth, formOwner, desktop, modal, hook>>
      BY <1>8 DEF ShutdownVisit
    <2>2. ~IsRoot(stack, turn)
      BY <1>1, <2>1 DEF IsRoot
    <2>3. CASE Connected(turn)
      <3>1. CloseSession(turn)
        BY <2>1, <2>3
      <3>2. QED BY <1>1, <2>1, <2>2, <2>3, <3>1, CloseCore
    <2>4. CASE ~Connected(turn)
      <3>1. UNCHANGED <<sess, updateDepth, formOwner, desktop, modal, hook>>
        BY <2>1, <2>4
      <3>2. QED BY <1>1, <2>1, <3>1, SameCore
    <2>5. QED BY <2>3, <2>4
  <1>9. CASE EvntReturns \/ UserAnswers \/ UserConfirms
    <2>1. stack # <<>> /\ FinishFrame(stack) /\ UNCHANGED nextGen
      BY <1>9 DEF EvntReturns, UserAnswers, UserConfirms, AtPanel
    <2>2. QED BY <1>1, <2>1, FinishCore
  <1>10. CASE UserCommands
    BY <1>1, <1>10, UserCommandsCore
  <1>11. CASE PumpEvent
    BY <1>1, <1>11, PumpEventCore
  <1>12. CASE \E s \in Slots : \/ Send(s) \/ Stall(s) \/ Gone(s)
                               \/ \E kind \in {"io", "init", "lock"} : Expire(s, kind)
    BY <1>1, <1>12, EnvironmentCore
  <1>13. QED BY <1>2, <1>3, <1>4, <1>5, <1>6, <1>7, <1>8, <1>9, <1>10, <1>11, <1>12
             DEF Next, ServerStep, UserStep, Environment

\* The server's bookkeeping holds whatever is closed, accepted or served while a
\* request is on the C stack: the generations, g_modal_session, the hook and the
\* counts of the update lock agree in every state.
THEOREM Invariance == Spec => []Inv
  <1>1. Init => Inv
    BY InitInv
  <1>2. Inv /\ [Next]_vars => Inv'
    <2>1. ASSUME Inv, Next PROVE Inv'
      BY <2>1, CoreStep, LoopStep DEF Inv
    <2>2. ASSUME Inv, UNCHANGED vars PROVE Inv'
      <3>1. Core(stack) /\ Loop
        BY <2>2 DEF Inv
      <3>2. UNCHANGED <<sess, nextGen, updateDepth, formOwner, desktop, stack, modal, hook>>
            /\ UNCHANGED <<phase, turn, snapshot, stopping>>
        BY <2>2 DEF vars
      <3>3. Core(stack)'
        BY <3>1, <3>2, SameCore
      <3>4. Loop'
        BY <3>1, <3>2, SamePlace
      <3>5. QED BY <3>3, <3>4 DEF Inv
    <2>3. QED BY <2>1, <2>2
  <1>3. QED BY <1>1, <1>2, PTL DEF Spec

\* Every variable stays in its range: the shared counter never exceeds one
\* application's nesting and a drag, and no slot is given out twice at once.
THEOREM TypeCorrect == Spec => []TypeOK
  <1>1. Inv => TypeOK
    BY InvTypes
  <1>2. QED BY <1>1, Invariance, PTL

\* g_modal_session never dangles, whatever the hook closes, accepts and serves
\* while a panel waits.
THEOREM RequesterTheorem == Spec => []RequesterStays
  <1>1. Inv => RequesterStays
    BY CoreSafe DEF Inv
  <1>2. QED BY <1>1, Invariance, PTL

\* The hook is there exactly while a serviced panel is, however waits nest.
THEOREM HookTheorem == Spec => []HookCoversPanel
  <1>1. Inv => HookCoversPanel
    BY CoreSafe DEF Inv
  <1>2. QED BY <1>1, Invariance, PTL

\* The form layer and the desktop never belong to an application that left.
THEOREM OwnersTheorem == Spec => []OwnersAlive
  <1>1. Inv => OwnersAlive
    BY CoreSafe DEF Inv
  <1>2. QED BY <1>1, Invariance, PTL

-----------------------------------------------------------------------------
\* A client's request waits inside another wait: LOCATION_REMOVE, or an
\* EVNT_MULTI with a form open, dispatched by a panel's hook.
NestedWait == \E i \in DOMAIN stack : i < Len(stack) /\ stack[i].kind = "request"

\* Unless waits nest, a panel is the root, or a command inside a form's wait.
LEMMA OnePanelCore ==
    ASSUME Core(stack), ~NestedWait PROVE OnePanel
  <1>1. /\ stack \in Seq(Frames) /\ DOMAIN stack = 1..Len(stack) /\ Len(stack) \in Nat
    BY StackTypes, LenProperties DEF Core
  <1>2. ASSUME NEW i \in 1..Len(stack), IsPanel(stack[i]), i # Len(stack)
        PROVE  /\ i + 1 = Len(stack) /\ stack[i + 1].op = "FORM"
               /\ stack[i + 1].kind = "request"
    <2>1. FrameFits(stack, i) /\ i < Len(stack) /\ i + 1 \in 1..Len(stack)
      <3>1. \A n \in Nat : \A m \in 1..n : m # n => m < n /\ m + 1 \in 1..n
        OBVIOUS
      <3>2. i < Len(stack) /\ i + 1 \in 1..Len(stack)
        BY <1>1, <1>2, <3>1
      <3>3. FrameFits(stack, i)
        BY DEF Core, Shape
      <3>4. QED BY <3>2, <3>3
    <2>2. stack[i].kind # "request"
      BY <1>1, <2>1 DEF NestedWait
    <2>3. stack[i].kind = "command"
      BY <1>2, <2>1, <2>2 DEF FrameFits, IsPanel, None
    <2>4. stack[i + 1].op \in {"FORM", "EVNT"}
      BY <2>1, <2>3 DEF FrameFits
    <2>5. FrameFits(stack, i + 1)
      BY <2>1 DEF Core, Shape
    <2>6. stack[i + 1].kind = "request"
      BY <2>4, <2>5 DEF FrameFits, None
    <2>7. ~(i + 1 < Len(stack))
      BY <1>1, <2>1, <2>6 DEF NestedWait
    <2>8. i + 1 = Len(stack)
      <3>1. \A n \in Nat : \A m \in 1..n : ~(m < n) => m = n
        OBVIOUS
      <3>2. QED BY <1>1, <2>1, <2>7, <3>1
    <2>9. stack[i + 1].op # "EVNT"
      BY <2>5, <2>8 DEF FrameFits
    <2>10. QED BY <2>4, <2>6, <2>8, <2>9
  <1>3. ASSUME NEW i \in 1..Len(stack), IsPanel(stack[i]), i # Len(stack)
        PROVE  ~IsPanel(stack[Len(stack)])
    BY <1>2, <1>3 DEF IsPanel
  <1>4. \A i, j \in 1..Len(stack) : i # Len(stack) /\ j # Len(stack)
           /\ IsPanel(stack[i]) /\ IsPanel(stack[j]) => i = j
    <2>1. \A i, j \in 1..Len(stack) : i + 1 = Len(stack) /\ j + 1 = Len(stack) => i = j
      BY <1>1
    <2>2. QED BY <1>2, <2>1
  <1>5. QED BY <1>1, <1>3, <1>4 DEF OnePanel

\* One interactive panel at a time, unless a request waits inside another one's
\* wait: the requests that the hook is installed for never nest.
THEOREM OnePanelTheorem == Spec => [](~NestedWait => OnePanel)
  <1>1. Inv => (~NestedWait => OnePanel)
    BY OnePanelCore DEF Inv
  <1>2. QED BY <1>1, Invariance, PTL

-----------------------------------------------------------------------------
(* What one step may do to one session.                                     *)

KeepsConnection(s) ==
    /\ sess'[s].gen = sess[s].gen
    /\ sess[s].peer = "gone" => sess'[s].peer = "gone"

\* Its I/O, its peer or its deadlines move; no request of its starts or ends.
Moves(s) ==
    /\ KeepsConnection(s)
    /\ sess'[s].io = "out" => sess[s].io = "out" /\ sess'[s].to = sess[s].to
    /\ sess'[s].handling = sess[s].handling

\* Its request is dispatched, and is answered or waits.
IsServed(s) ==
    /\ KeepsConnection(s)
    /\ Connected(s) /\ ~IsRoot(stack, s)
    /\ updateDepth = 0 \/ sess[s].depth > 0
    /\ sess'[s].io = "out" => sess'[s].to = sess[s].gen

\* A wait ends, and whoever has its slot gets the reply.
IsAnswered(s) ==
    /\ KeepsConnection(s)
    /\ \E i \in DOMAIN stack : /\ stack[i].kind = "request" /\ stack[i].slot = s
                               /\ sess'[s].to = stack[i].gen

HasCause(s) == sess[s].peer = "gone" \/ sess[s].late # {} \/ stopping

IsClosed(s) == Connected(s) /\ HasCause(s) /\ sess'[s] = Free

IsOpened(s) ==
    /\ ~Connected(s) /\ sess'[s].io = "idle"
    /\ sess'[s].gen = nextGen + 1 /\ nextGen' = nextGen + 1

SessionStep(s) ==
    Moves(s) \/ IsServed(s) \/ IsAnswered(s) \/ IsClosed(s) \/ IsOpened(s)

\* A step that leaves the sessions alone.
LEMMA SameSteps ==
    ASSUME UNCHANGED sess, NEW s \in Slots PROVE SessionStep(s)
  BY DEF SessionStep, Moves, KeepsConnection

\* gemd_accept_client() opens one session.
LEMMA AcceptSteps ==
    ASSUME Core(stack), TryAccept, NEW s \in Slots PROVE SessionStep(s)
  <1>1. CASE UNCHANGED <<sess, nextGen>>
    BY <1>1, SameSteps
  <1>2. CASE Accept
    <2>1. PICK t \in Slots : /\ IsFirstFree(t)
                             /\ sess' = [sess EXCEPT ![t] = [Free EXCEPT !.gen = nextGen + 1]]
      BY <1>2 DEF Accept
    <2> DEFINE r == [Free EXCEPT !.gen = nextGen + 1]
    <2>2. nextGen + 1 \in 0..MaxGeneration /\ nextGen' = nextGen + 1
      BY <1>2 DEF Accept, Core, Typed
    <2>3. r.gen = nextGen + 1 /\ r.io = "idle"
      BY <2>2, NewIsSession
    <2> HIDE DEF r
    <2>4. sess'[t] = r /\ \A u \in Slots \ {t} : sess'[u] = sess[u]
      BY <2>1 DEF Core, Typed, r
    <2>5. CASE s = t
      BY <2>1, <2>2, <2>3, <2>4, <2>5 DEF IsFirstFree, SessionStep, IsOpened
    <2>6. CASE s # t
      BY <2>4, <2>6 DEF SessionStep, Moves, KeepsConnection
    <2>7. QED BY <2>5, <2>6
  <1>3. QED BY <1>1, <1>2 DEF TryAccept

\* gemd_close_session() closes one, for a cause.
LEMMA CloseSteps ==
    ASSUME Core(stack), NEW t \in Slots, Connected(t), HasCause(t), CloseSession(t),
           NEW s \in Slots
    PROVE  SessionStep(s)
  <1>1. sess'[t] = Free /\ \A u \in Slots \ {t} : sess'[u] = sess[u]
    BY DEF Core, Typed, CloseSession
  <1>2. CASE s = t
    BY <1>1, <1>2 DEF SessionStep, IsClosed
  <1>3. CASE s # t
    BY <1>1, <1>3 DEF SessionStep, Moves, KeepsConnection
  <1>4. QED BY <1>2, <1>3

\* A client or the clock moves one session.
LEMMA EnvironmentSteps ==
    ASSUME Core(stack), NEW t \in Slots, NEW s \in Slots,
           Send(t) \/ Stall(t) \/ Gone(t) \/ \E kind \in {"io", "init", "lock"} : Expire(t, kind)
    PROVE  SessionStep(s)
  <1>1. sess \in [Slots -> Sessions] /\ sess[t] \in Sessions
    BY SessionTypes DEF Core, Typed
  <1>2. /\ sess'[t].gen = sess[t].gen
        /\ sess[t].peer = "gone" => sess'[t].peer = "gone"
        /\ sess'[t].io = sess[t].io /\ sess'[t].to = sess[t].to
        /\ sess'[t].handling = sess[t].handling
        /\ \A u \in Slots \ {t} : sess'[u] = sess[u]
    <2>1. CASE Send(t)
      <3>1. PICK o \in Ops : sess' = [sess EXCEPT ![t].peer = "waiting", ![t].wire = o]
        BY <2>1 DEF Send
      <3> DEFINE r == [sess[t] EXCEPT !.peer = "waiting", !.wire = o]
      <3>2. sess' = [sess EXCEPT ![t] = r] /\ sess[t].peer = "idle"
        BY <1>1, <2>1, <3>1 DEF Send
      <3>3. /\ r.gen = sess[t].gen /\ r.io = sess[t].io /\ r.to = sess[t].to
            /\ r.handling = sess[t].handling
        BY <1>1 DEF Sessions
      <3> HIDE DEF r
      <3>4. QED BY <1>1, <3>2, <3>3
    <2>2. CASE Stall(t)
      BY <1>1, <2>2 DEF Stall, Sessions
    <2>3. CASE Gone(t)
      BY <1>1, <2>3 DEF Gone, Sessions
    <2>4. CASE \E kind \in {"io", "init", "lock"} : Expire(t, kind)
      BY <1>1, <2>4 DEF Expire, Sessions
    <2>5. QED BY <2>1, <2>2, <2>3, <2>4
  <1>3. QED BY <1>2 DEF SessionStep, Moves, KeepsConnection

\* The end of the wait that is first, or behind the running service.
LEMMA FinishSteps ==
    ASSUME Core(stack), NEW i \in DOMAIN stack, NEW f, f = stack[i],
           f.kind = "request" => f.slot \in Slots,
           sess' = (IF f.kind = "request" /\ Connected(f.slot)
                    THEN [sess EXCEPT ![f.slot] = Ended(@, f.gen)] ELSE sess),
           NEW s \in Slots
    PROVE  SessionStep(s)
  <1>1. CASE ~(f.kind = "request" /\ Connected(f.slot))
    BY <1>1, SameSteps
  <1>2. CASE f.kind = "request" /\ Connected(f.slot)
    <2>1. sess \in [Slots -> Sessions] /\ sess[f.slot] \in Sessions
      BY <1>2, SessionTypes DEF Core, Typed
    <2>2. /\ sess'[f.slot] = Ended(sess[f.slot], f.gen)
          /\ \A u \in Slots \ {f.slot} : sess'[u] = sess[u]
      BY <1>2, <2>1
    <2>3. /\ Ended(sess[f.slot], f.gen).gen = sess[f.slot].gen
          /\ Ended(sess[f.slot], f.gen).peer = sess[f.slot].peer
          /\ Ended(sess[f.slot], f.gen).to = f.gen
      BY <2>1 DEF Ended, Reply, Sessions
    <2>4. CASE s = f.slot
      BY <1>2, <2>2, <2>3, <2>4 DEF SessionStep, IsAnswered, KeepsConnection
    <2>5. CASE s # f.slot
      BY <2>2, <2>5 DEF SessionStep, Moves, KeepsConnection
    <2>6. QED BY <2>4, <2>5
  <1>3. QED BY <1>1, <1>2

\* I/O neither brings a peer back nor makes anybody late.
LEMMA TransferSteps ==
    ASSUME NEW r \in Sessions, NEW event
    PROVE  /\ r.peer = "gone" => Transfer(r, event).peer = "gone"
           /\ Transfer(r, event).late \subseteq r.late
  <1>1. Received(r).peer = r.peer /\ Received(r).late = r.late
    BY DEF Received, Sessions
  <1>2. Drained(r).late \subseteq r.late
    BY DEF Drained, Sessions
  <1>3. QED BY <1>1, <1>2 DEF Transfer

\* A visit's request, if it runs, replies to its own connection or waits.
Outcome(r, q) ==
    /\ q.gen = r.gen /\ q.peer = r.peer
    /\ \/ q.io = r.io /\ q.to = r.to /\ q.handling = r.handling
       \/ MayRun(r) /\ (q.io = "out" => q.to = r.gen)

\* A reply is addressed to the request's own connection.
LEMMA ReplyOutcome ==
    ASSUME NEW r \in Sessions, MayRun(r), NEW i \in Sessions,
           i.gen = r.gen, i.peer = r.peer
    PROVE  Outcome(r, Reply(i, i.gen))
  <1>1. Reply(i, i.gen).gen = i.gen /\ Reply(i, i.gen).to = i.gen
        /\ Reply(i, i.gen).peer = i.peer
    BY DEF Reply, Sessions
  <1>2. QED BY <1>1 DEF Outcome

\* The outcome of a visit, whatever the request.
LEMMA HandleOutcome ==
    ASSUME NEW s \in Slots, NEW r \in Sessions, NEW st, NEW serving,
           HandleRequest(s, r, st, serving)
    PROVE  \E q : sess' = [sess EXCEPT ![s] = q] /\ Outcome(r, q)
  <1>1. CASE ~Runs(r, serving)
    BY <1>1 DEF HandleRequest, Outcome
  <1>2. CASE Runs(r, serving)
    <2>1. MayRun(r) /\ r.io = "ready" /\ Dispatch(s, r, st)
      BY <1>2 DEF Runs, HandleRequest
    <2>2. CASE \E i \in Sessions : i.gen = r.gen /\ i.peer = r.peer /\ Replied(s, i, st)
      <3>1. PICK i \in Sessions : i.gen = r.gen /\ i.peer = r.peer /\ Replied(s, i, st)
        BY <2>2
      <3>2. Outcome(r, Reply(i, i.gen))
        BY <2>1, <3>1, ReplyOutcome
      <3>3. sess' = [sess EXCEPT ![s] = Reply(i, i.gen)]
        BY <3>1 DEF Replied
      <3>4. QED BY <3>2, <3>3
    <2>3. CASE sess' = [sess EXCEPT ![s] = [r EXCEPT !.handling = TRUE]]
      <3> DEFINE q == [r EXCEPT !.handling = TRUE]
      <3>1. q.gen = r.gen /\ q.peer = r.peer /\ q.io = "ready"
        BY <2>1 DEF Sessions
      <3>2. Outcome(r, q)
        BY <2>1, <3>1 DEF Outcome
      <3> HIDE DEF q
      <3>3. QED BY <2>3, <3>2 DEF q
    <2>4. CASE Answer(s, r, st)
      BY <2>2, <2>4 DEF Answer
    <2>5. CASE ApplInit(s, r, st)
      <3> DEFINE i == [r EXCEPT !.inited = TRUE, !.late = @ \ {"init"}]
      <3>1. i \in Sessions /\ i.gen = r.gen
        BY InitKeeps
      <3>2. i.peer = r.peer
        BY DEF Sessions
      <3>3. Replied(s, i, st)
        BY <2>5 DEF ApplInit
      <3> HIDE DEF i
      <3>4. QED BY <2>2, <3>1, <3>2, <3>3
    <2>6. CASE ApplExit(s, r, st)
      <3> DEFINE i == [r EXCEPT !.inited = FALSE, !.depth = 0, !.menu = FALSE,
                                !.late = @ \ {"lock", "init"}]
      <3>1. i \in Sessions /\ i.gen = r.gen
        BY ExitKeeps
      <3>2. i.peer = r.peer
        BY DEF Sessions
      <3>3. Replied(s, i, st)
        BY <2>6 DEF ApplExit
      <3> HIDE DEF i
      <3>4. QED BY <2>2, <3>1, <3>2, <3>3
    <2>7. CASE Authorized(r) /\ WindUpdate(s, r, st)
      <3>1. CASE r.op = "BEG"
        <4> DEFINE i == [r EXCEPT !.depth = @ + 1]
        <4>1. r.depth < MaxDepth
          BY <2>7, <3>1 DEF Authorized
        <4>2. i \in Sessions /\ i.gen = r.gen
          BY <4>1, BegKeeps
        <4>3. i.peer = r.peer
          BY DEF Sessions
        <4>4. Replied(s, i, st)
          BY <2>7, <3>1 DEF WindUpdate
        <4> HIDE DEF i
        <4>5. QED BY <2>2, <4>2, <4>3, <4>4
      <3>2. CASE r.op = "END"
        <4> DEFINE i == [r EXCEPT !.depth = @ - 1,
                                  !.late = IF r.depth = 1 THEN @ \ {"lock"} ELSE @]
        <4>1. r.depth > 0
          BY <2>7, <3>2 DEF Authorized
        <4>2. i \in Sessions /\ i.gen = r.gen
          BY <4>1, EndKeeps
        <4>3. i.peer = r.peer
          BY DEF Sessions
        <4>4. Replied(s, i, st)
          BY <2>7, <3>2 DEF WindUpdate
        <4> HIDE DEF i
        <4>5. QED BY <2>2, <4>2, <4>3, <4>4
      <3>3. QED BY <2>7, <3>1, <3>2 DEF WindUpdate
    <2>8. CASE FormDial(s, r, st)
      BY <2>2, <2>8 DEF FormDial
    <2>9. CASE MenuBar(s, r, st)
      <3> DEFINE i == [r EXCEPT !.menu = TRUE]
      <3>1. i \in Sessions /\ i.gen = r.gen
        BY MenuKeeps
      <3>2. i.peer = r.peer
        BY DEF Sessions
      <3>3. Replied(s, i, st)
        BY <2>9 DEF MenuBar
      <3> HIDE DEF i
      <3>4. QED BY <2>2, <3>1, <3>2, <3>3
    <2>10. CASE EvntMulti(s, r, st)
      BY <2>2, <2>3, <2>10 DEF EvntMulti
    <2>11. CASE OpenPanel(s, r, st)
      BY <2>3, <2>11 DEF OpenPanel
    <2>12. QED BY <2>1, <2>4, <2>5, <2>6, <2>7, <2>8, <2>9, <2>10, <2>11 DEF Dispatch
  <1>3. QED BY <1>1, <1>2

\* A visit serves its session and moves no other.
LEMMA VisitSteps ==
    ASSUME Core(stack), NEW t \in Slots, Connected(t), ~IsRoot(stack, t), NEW event,
           NEW st, NEW serving, HandleRequest(t, Transfer(sess[t], event), st, serving),
           NEW s \in Slots
    PROVE  SessionStep(s)
  <1> DEFINE r == Transfer(sess[t], event)
  <1>1. sess \in [Slots -> Sessions] /\ sess[t] \in Sessions
    BY SessionTypes DEF Core, Typed
  <1>2. /\ r \in Sessions /\ r.gen = sess[t].gen /\ r.inited = sess[t].inited
        /\ r.depth = sess[t].depth /\ r.handling = sess[t].handling
        /\ r.io = "out" => sess[t].io = "out" /\ r.to = sess[t].to
    BY <1>1, TransferKeeps
  <1>3. sess[t].peer = "gone" => r.peer = "gone"
    BY <1>1, TransferSteps
  <1>4. HandleRequest(t, r, st, serving)
    OBVIOUS
  <1> HIDE DEF r
  <1>5. PICK q : sess' = [sess EXCEPT ![t] = q] /\ Outcome(r, q)
    BY <1>2, <1>4, HandleOutcome
  <1>6. sess'[t] = q /\ \A u \in Slots \ {t} : sess'[u] = sess[u]
    BY <1>1, <1>5
  <1>7. CASE s = t
    <2>1. KeepsConnection(s)
      BY <1>2, <1>3, <1>5, <1>6, <1>7 DEF Outcome, KeepsConnection
    <2>2. CASE q.io = r.io /\ q.to = r.to /\ q.handling = r.handling
      BY <1>2, <1>6, <1>7, <2>1, <2>2 DEF SessionStep, Moves
    <2>3. CASE MayRun(r) /\ (q.io = "out" => q.to = r.gen)
      <3>1. updateDepth = 0 \/ sess[s].depth > 0
        BY <1>2, <1>7, <2>3 DEF MayRun
      <3>2. QED BY <1>2, <1>6, <1>7, <2>1, <2>3, <3>1 DEF SessionStep, IsServed
    <2>4. QED BY <1>5, <2>2, <2>3 DEF Outcome
  <1>8. CASE s # t
    BY <1>6, <1>8 DEF SessionStep, Moves, KeepsConnection
  <1>9. QED BY <1>7, <1>8

\* A hang-up that poll() recorded is still the slot's own: a slot that changed
\* hands since has a later generation.
Snapped ==
    \A s \in Slots :
       /\ snapshot[s].gen <= nextGen
       /\ snapshot[s].event = "hup" => /\ snapshot[s].gen # 0
                                       /\ sess[s].gen = snapshot[s].gen
                                          => sess[s].peer = "gone"

\* What one call of the hook does to a session.
LEMMA CallHookSteps ==
    ASSUME Core(stack), CallHook, NEW s \in Slots PROVE SessionStep(s)
  <1>1. stack # <<>>
    BY DEF CallHook, AtPanel
  <1>2. CASE Cancelled
    <2>1. FinishFrame(stack)
      BY <1>2 DEF CallHook
    <2>2. 1 \in DOMAIN stack /\ Head(stack) = stack[1]
      BY <1>1, TailProps, LenProperties DEF Core, Typed
    <2>3. Head(stack).kind = "request" => Head(stack).slot \in Slots
      BY <1>1, FrameSlot
    <2>4. QED BY <2>1, <2>2, <2>3, FinishSteps DEF FinishFrame
  <1>3. CASE ~Cancelled
    BY <1>3, AcceptSteps DEF CallHook
  <1>4. QED BY <1>2, <1>3

\* What the end of a wait does to a session.
LEMMA EndSteps ==
    ASSUME Core(stack), stack # <<>>, FinishFrame(stack), NEW s \in Slots
    PROVE  SessionStep(s)
  <1>1. 1 \in DOMAIN stack /\ Head(stack) = stack[1]
    BY TailProps, LenProperties DEF Core, Typed
  <1>2. Head(stack).kind = "request" => Head(stack).slot \in Slots
    BY FrameSlot
  <1>3. QED BY <1>1, <1>2, FinishSteps DEF FinishFrame

\* What a visit from the hook does to a session.
LEMMA ServiceVisitSteps ==
    ASSUME Core(stack), ServiceVisit, NEW s \in Slots PROVE SessionStep(s)
  <1> DEFINE t == Top.next
             event == Poll(sess[t])
             r == Transfer(sess[t], event)
             overdue == modal # 0 /\ "lock" \in sess[t].late
  <1>1. InService /\ t \in Slots
    BY DEF ServiceVisit
  <1>2. Core(Tail(stack)) /\ Tail(stack) # <<>> /\ hook
    BY <1>1, ServiceTail
  <1>3. sess[t] \in Sessions
    BY <1>1, SessionTypes DEF Core, Typed
  <1>4. CASE UNCHANGED sess
    BY <1>4, SameSteps
  <1>5. CASE FinishFrame(Tail(stack))
    <2>1. stack \in Seq(Frames) /\ stack # <<>>
      BY <1>1 DEF Core, Typed, InService
    <2>2. Len(stack) > 1
      BY <1>1, ServiceNotRoot DEF InService, Top
    <2>3. Head(Tail(stack)) = stack[2]
      <3>1. Head(Tail(stack)) = Tail(stack)[1] /\ Tail(stack) \in Seq(Frames)
        BY <1>2, <2>1, TailProps
      <3>2. Len(Tail(stack)) = Len(stack) - 1 /\ Len(stack) \in Nat
        BY <2>1, TailProps
      <3>3. 1 \in 1..Len(Tail(stack))
        BY <2>2, <3>2
      <3>4. QED BY <2>1, <3>1, <3>3, TailProps
    <2>4. 2 \in DOMAIN stack
      <3>1. DOMAIN stack = 1..Len(stack) /\ Len(stack) \in Nat
        BY <2>1, LenProperties
      <3>2. QED BY <2>2, <3>1
    <2>5. Head(Tail(stack)).kind = "request" => Head(Tail(stack)).slot \in Slots
      BY <1>2, FrameSlot
    <2>6. QED BY <1>5, <2>3, <2>4, <2>5, FinishSteps DEF FinishFrame
  <1>6. CASE /\ Connected(t) /\ CloseSession(t)
             /\ \/ overdue \/ Failed(sess[t], event)
                \/ modal # 0 /\ r.late \cap {"io", "init"} # {}
    <2>1. CASE overdue
      <3>1. HasCause(t)
        BY <2>1 DEF HasCause
      <3>2. QED BY <1>1, <1>6, <3>1, CloseSteps
    <2>2. CASE Failed(sess[t], event)
      <3>1. HasCause(t)
        BY <2>2 DEF HasCause, Failed, Poll
      <3>2. QED BY <1>1, <1>6, <3>1, CloseSteps
    <2>3. CASE r.late \cap {"io", "init"} # {}
      <3>1. r.late \subseteq sess[t].late
        BY <1>3, TransferSteps
      <3>2. HasCause(t)
        BY <2>3, <3>1 DEF HasCause
      <3>3. QED BY <1>1, <1>6, <3>2, CloseSteps
    <2>4. QED BY <1>6, <2>1, <2>2, <2>3
  <1>7. CASE Connected(t) /\ ~IsRequester(t) /\ HandleRequest(t, r, Onward, TRUE)
    <2>1. ~IsRoot(stack, t)
      BY <1>1, <1>2, <1>7, RootIsModal DEF IsRequester
    <2> HIDE DEF t, event
    <2>2. QED BY <1>1, <1>7, <2>1, VisitSteps
  <1>8. \/ UNCHANGED sess
        \/ FinishFrame(Tail(stack))
        \/ /\ Connected(t) /\ CloseSession(t)
           /\ \/ overdue \/ Failed(sess[t], event)
              \/ modal # 0 /\ r.late \cap {"io", "init"} # {}
        \/ Connected(t) /\ ~IsRequester(t) /\ HandleRequest(t, r, Onward, TRUE)
    BY DEF ServiceVisit
  <1>9. QED BY <1>4, <1>5, <1>6, <1>7, <1>8

\* What a visit from the main loop does to a session.
LEMMA MainVisitSteps ==
    ASSUME Core(stack), Snapped, MainVisit, NEW s \in Slots PROVE SessionStep(s)
  <1> DEFINE r == sess[turn]
             event == snapshot[turn].event
  <1>1. stack = <<>> /\ turn \in Slots
    BY DEF MainVisit
  <1>2. CASE UNCHANGED sess
    BY <1>2, SameSteps
  <1>3. CASE Polled(turn) /\ (Late(r) \/ Failed(r, event)) /\ CloseSession(turn)
    <2>1. event = "hup" => r.peer = "gone"
      BY <1>1, <1>3 DEF Snapped, Polled
    <2>2. HasCause(turn)
      BY <1>3, <2>1 DEF HasCause, Late, Failed
    <2>3. QED BY <1>1, <1>3, <2>2, CloseSteps DEF Polled
  <1>4. CASE Polled(turn) /\ HandleRequest(turn, Transfer(r, event), stack, FALSE)
    <2>1. ~IsRoot(stack, turn)
      BY <1>1 DEF IsRoot
    <2> HIDE DEF event
    <2>2. QED BY <1>1, <1>4, <2>1, VisitSteps DEF Polled
  <1>5. \/ UNCHANGED sess
        \/ Polled(turn) /\ (Late(r) \/ Failed(r, event)) /\ CloseSession(turn)
        \/ Polled(turn) /\ HandleRequest(turn, Transfer(r, event), stack, FALSE)
    BY DEF MainVisit
  <1>6. QED BY <1>2, <1>3, <1>4, <1>5

\* A step moves, serves, answers, closes or opens a session.
LEMMA EveryStep ==
    ASSUME Inv, Snapped, [Next]_vars, NEW s \in Slots PROVE SessionStep(s)
  <1>1. Core(stack) /\ Loop
    BY DEF Inv
  <1>2. CASE CallHook
    BY <1>1, <1>2, CallHookSteps
  <1>3. CASE ServiceVisit
    BY <1>1, <1>3, ServiceVisitSteps
  <1>4. CASE UNCHANGED sess
    BY <1>4, SameSteps
  <1>5. CASE MainVisit
    BY <1>1, <1>5, MainVisitSteps
  <1>6. CASE MainAccept
    BY <1>1, <1>6, AcceptSteps DEF MainAccept
  <1>7. CASE ShutdownVisit
    <2>1. /\ phase = "down" /\ turn \in Slots
          /\ IF Connected(turn) THEN CloseSession(turn)
             ELSE UNCHANGED <<sess, updateDepth, formOwner, desktop, modal, hook>>
      BY <1>7 DEF ShutdownVisit
    <2>2. HasCause(turn)
      BY <1>1, <2>1 DEF Loop, HasCause
    <2>3. CASE Connected(turn)
      <3>1. CloseSession(turn)
        BY <2>1, <2>3
      <3>2. QED BY <1>1, <2>1, <2>2, <2>3, <3>1, CloseSteps
    <2>4. CASE ~Connected(turn)
      BY <2>1, <2>4, SameSteps
    <2>5. QED BY <2>3, <2>4
  <1>8. CASE EvntReturns \/ UserAnswers \/ UserConfirms
    <2>1. stack # <<>> /\ FinishFrame(stack)
      BY <1>8 DEF EvntReturns, UserAnswers, UserConfirms, AtPanel
    <2>2. QED BY <1>1, <2>1, EndSteps
  <1>9. CASE \E t \in Slots : \/ Send(t) \/ Stall(t) \/ Gone(t)
                              \/ \E kind \in {"io", "init", "lock"} : Expire(t, kind)
    BY <1>1, <1>9, EnvironmentSteps
  <1>10. CASE ServiceReturn \/ PollSockets \/ PumpDone \/ Stop \/ Signal \/ Terminated
              \/ UserCommands \/ PumpEvent \/ UNCHANGED vars
    <2>1. UNCHANGED sess
      BY <1>10 DEF ServiceReturn, PollSockets, PumpDone, Stop, Signal, Terminated,
                   UserCommands, PumpEvent, vars
    <2>2. QED BY <2>1, SameSteps
  <1>11. QED BY <1>2, <1>3, <1>5, <1>6, <1>7, <1>8, <1>9, <1>10
             DEF Next, ServerStep, UserStep, Environment

\* g_next_generation never goes back.
LEMMA GenerationsGrow ==
    ASSUME Inv, [Next]_vars PROVE nextGen' \in Nat /\ nextGen \in Nat /\ nextGen' >= nextGen
  <1>1. nextGen \in Nat
    BY DEF Inv, Core, Typed
  <1>2. CASE CallHook \/ MainAccept
    <2>1. nextGen' \in {nextGen, nextGen + 1}
      BY <1>2 DEF CallHook, MainAccept, TryAccept, Accept
    <2>2. QED BY <1>1, <2>1
  <1>3. CASE UNCHANGED nextGen
    BY <1>1, <1>3
  <1>4. CallHook \/ MainAccept \/ UNCHANGED nextGen
    BY DEF Next, ServerStep, UserStep, Environment, ServiceVisit, ServiceReturn,
           PollSockets, PumpDone, MainVisit, Stop, ShutdownVisit, EvntReturns,
           UserAnswers, UserCommands, UserConfirms, PumpEvent, Signal, Send, Stall,
           Gone, Expire, OnlySessions, Terminated, vars
  <1>5. QED BY <1>2, <1>3, <1>4

\* Every step keeps what is known of the recorded hang-ups.
LEMMA SnappedStep ==
    ASSUME Inv, Snapped, [Next]_vars PROVE Snapped'
  <1>1. /\ nextGen \in Nat /\ nextGen' \in Nat /\ nextGen' >= nextGen
        /\ sess \in [Slots -> Sessions] /\ sess' \in [Slots -> Sessions]
        /\ snapshot \in [Slots -> [gen : 0..MaxGeneration,
                                   event : {"none", "in", "out", "hup"}]]
    <2>1. Inv'
      BY CoreStep, LoopStep, SameCore, SamePlace DEF Inv, vars
    <2>2. QED BY <2>1, GenerationsGrow DEF Inv, Core, Typed, Loop
  <1>2. CASE PollSockets
    <2>1. /\ snapshot' = [s \in Slots |-> [gen |-> sess[s].gen, event |-> Poll(sess[s])]]
          /\ UNCHANGED <<sess, nextGen>>
      BY <1>2 DEF PollSockets
    <2>2. \A s \in Slots : sess[s].gen <= nextGen
      BY DEF Inv, Core, Consistent
    <2>3. \A s \in Slots : Poll(sess[s]) = "hup" => sess[s].gen # 0 /\ sess[s].peer = "gone"
      BY DEF Poll
    <2>4. QED BY <1>1, <2>1, <2>2, <2>3 DEF Snapped
  <1>3. CASE MainAccept
    <2>1. snapshot' = [s \in Slots |-> [gen |-> 0, event |-> "none"]]
      BY <1>3 DEF MainAccept, NoSnapshot
    <2>2. \A s \in Slots : snapshot'[s].gen = 0 /\ snapshot'[s].event = "none"
      BY <2>1
    <2>3. QED BY <1>1, <2>2 DEF Snapped
  <1>4. CASE UNCHANGED snapshot
    <2> SUFFICES ASSUME NEW s \in Slots
                 PROVE  /\ snapshot[s].gen <= nextGen'
                        /\ snapshot[s].event = "hup"
                           => /\ snapshot[s].gen # 0
                              /\ sess'[s].gen = snapshot[s].gen => sess'[s].peer = "gone"
      BY <1>4 DEF Snapped
    <2>1. snapshot[s].gen \in Nat /\ sess[s].gen \in Nat /\ snapshot[s].gen <= nextGen
      BY <1>1, SessionTypes DEF Snapped
    <2>2. snapshot[s].gen <= nextGen'
      BY <1>1, <2>1
    <2>3. snapshot[s].event = "hup"
             => snapshot[s].gen # 0
                /\ (sess[s].gen = snapshot[s].gen => sess[s].peer = "gone")
      BY DEF Snapped
    <2>4. CASE KeepsConnection(s)
      BY <2>2, <2>3, <2>4 DEF KeepsConnection
    <2>5. CASE IsClosed(s)
      <3>1. sess'[s].gen = 0
        BY <2>5, FreeIsSession DEF IsClosed
      <3>2. QED BY <2>2, <2>3, <3>1
    <2>6. CASE IsOpened(s)
      <3>1. sess'[s].gen = nextGen + 1
        BY <2>6 DEF IsOpened
      <3>2. sess'[s].gen # snapshot[s].gen
        BY <1>1, <2>1, <3>1
      <3>3. QED BY <2>2, <2>3, <3>2
    <2>7. KeepsConnection(s) \/ IsClosed(s) \/ IsOpened(s)
      BY EveryStep DEF SessionStep, Moves, IsServed, IsAnswered
    <2>8. QED BY <2>4, <2>5, <2>6, <2>7
  <1>5. PollSockets \/ MainAccept \/ UNCHANGED snapshot
    BY DEF Next, ServerStep, UserStep, Environment, CallHook, ServiceVisit, ServiceReturn,
           PumpDone, MainVisit, Stop, ShutdownVisit, EvntReturns,
           UserAnswers, UserCommands, UserConfirms, PumpEvent, Signal, Send, Stall,
           Gone, Expire, OnlySessions, Terminated, vars
  <1>6. QED BY <1>2, <1>3, <1>4, <1>5

\* A recorded hang-up is of a connection that is gone, or of none any more.
LEMMA SnappedAlways == Spec => []Snapped
  <1>1. Init => Snapped
    <2> SUFFICES ASSUME Init PROVE Snapped
      OBVIOUS
    <2>1. nextGen = 0 /\ \A s \in Slots : snapshot[s].gen = 0 /\ snapshot[s].event = "none"
      BY DEF Init
    <2>2. QED BY <2>1 DEF Snapped
  <1>2. Inv /\ Snapped /\ [Next]_vars => Snapped'
    BY SnappedStep
  <1>3. QED BY <1>1, <1>2, Invariance, PTL DEF Spec

\* A connection is closed for a cause of its own, never for what poll() said of
\* the slot's previous one, from the main loop or from a panel's hook.
THEOREM CauseTheorem == Spec => ClosedForCause
  <1>1. ASSUME Inv, Snapped, [Next]_vars
        PROVE  \A s \in Slots : Connected(s) /\ sess'[s].gen # sess[s].gen =>
                  sess[s].peer = "gone" \/ sess[s].late # {} \/ stopping
    <2> SUFFICES ASSUME NEW s \in Slots, Connected(s), sess'[s].gen # sess[s].gen
                 PROVE  HasCause(s)
      BY DEF HasCause
    <2>1. SessionStep(s)
      BY <1>1, EveryStep
    <2>2. QED BY <2>1 DEF SessionStep, Moves, IsServed, IsAnswered, IsClosed, IsOpened,
                          KeepsConnection
  <1>2. Inv /\ Snapped /\ [Next]_vars =>
           [\A s \in Slots : Connected(s) /\ sess'[s].gen # sess[s].gen =>
               sess[s].peer = "gone" \/ sess[s].late # {} \/ stopping]_vars
    BY <1>1
  <1>3. QED BY <1>2, Invariance, SnappedAlways, PTL DEF Spec, ClosedForCause

-----------------------------------------------------------------------------
\* Unless waits nest, the only request on the stack is the root's, and its
\* session is still the one that made it.
LEMMA AnsweredIsRoot ==
    ASSUME Core(stack), ~NestedWait, NEW i \in DOMAIN stack, stack[i].kind = "request"
    PROVE  /\ stack[i].slot \in Slots
           /\ sess[stack[i].slot].gen = stack[i].gen /\ sess[stack[i].slot].handling
  <1>1. /\ DOMAIN stack = 1..Len(stack) /\ Len(stack) \in Nat
        /\ stack = <<>> <=> Len(stack) = 0
    BY StackTypes, LenProperties DEF Core
  <1>2. ~(i < Len(stack)) /\ i \in 1..Len(stack)
    BY <1>1 DEF NestedWait
  <1>3. \A n \in Nat : \A m \in 1..n : ~(m < n) => m = n /\ n # 0
    OBVIOUS
  <1>4. stack # <<>> /\ stack[i] = Root(stack)
    BY <1>1, <1>2, <1>3 DEF Root
  <1>5. FrameFits(stack, i)
    BY <1>2 DEF Core, Shape
  <1>6. QED BY <1>4, <1>5 DEF Core, Hooked, FrameFits

\* The reply in a session's one slot is its own client's, as long as no request
\* waits inside another one's wait. (With nested waits it is not: the run
\* "reply" has the behaviour.)
THEOREM ReplyTheorem == Spec /\ []~NestedWait => []ReplyToRequester
  <1>1. Init => ReplyToRequester
    <2>1. Init => \A s \in Slots : sess[s] = Free
      BY DEF Init
    <2>2. QED BY <2>1, FreeIsSession DEF ReplyToRequester
  <1>2. ASSUME Inv, Snapped, ~NestedWait, ReplyToRequester, [Next]_vars
        PROVE  ReplyToRequester'
    <2> SUFFICES ASSUME NEW s \in Slots, sess'[s].io = "out"
                 PROVE  sess'[s].to = sess'[s].gen
      BY DEF ReplyToRequester
    <2>1. SessionStep(s) /\ Core(stack)
      BY <1>2, EveryStep DEF Inv
    <2>2. CASE Moves(s)
      BY <1>2, <2>2 DEF Moves, KeepsConnection, ReplyToRequester
    <2>3. CASE IsServed(s)
      BY <2>3 DEF IsServed, KeepsConnection
    <2>4. CASE IsAnswered(s)
      <3>1. PICK i \in DOMAIN stack : /\ stack[i].kind = "request" /\ stack[i].slot = s
                                      /\ sess'[s].to = stack[i].gen
        BY <2>4 DEF IsAnswered
      <3>2. sess[s].gen = stack[i].gen
        BY <1>2, <2>1, <3>1, AnsweredIsRoot
      <3>3. QED BY <2>4, <3>1, <3>2 DEF IsAnswered, KeepsConnection
    <2>5. CASE IsClosed(s) \/ IsOpened(s)
      BY <2>5, FreeIsSession DEF IsClosed, IsOpened
    <2>6. QED BY <2>1, <2>2, <2>3, <2>4, <2>5 DEF SessionStep
  <1>3. Inv /\ Snapped /\ ~NestedWait /\ ReplyToRequester /\ [Next]_vars
           => ReplyToRequester'
    BY <1>2
  <1>4. QED BY <1>1, <1>3, Invariance, SnappedAlways, PTL DEF Spec

\* While an application holds the update lock, no other one's request starts,
\* as long as no request waits inside another one's wait.
THEOREM DrawsAloneTheorem == Spec /\ []~NestedWait => DrawsAlone
  <1>1. ASSUME Inv, Snapped, ~NestedWait, [Next]_vars
        PROVE  \A s, t \in Slots : Starts(s) /\ s # t => sess[t].depth = 0
    <2> SUFFICES ASSUME NEW s \in Slots, NEW t \in Slots, Starts(s), s # t
                 PROVE  sess[t].depth = 0
      OBVIOUS
    <2>1. SessionStep(s) /\ Core(stack)
      BY <1>1, EveryStep DEF Inv
    <2>2. ~Moves(s)
      BY DEF Starts, Moves
    <2>3. ~IsAnswered(s)
      <3>1. SUFFICES ASSUME NEW i \in DOMAIN stack, stack[i].kind = "request",
                            stack[i].slot = s
                     PROVE  FALSE
        BY DEF IsAnswered
      <3>2. sess[s].handling
        BY <1>1, <2>1, <3>1, AnsweredIsRoot
      <3>3. QED BY <3>2 DEF Starts
    <2>4. ~IsClosed(s)
      BY FreeIsSession DEF IsClosed, Starts, Connected
    <2>5. ~IsOpened(s)
      <3>1. nextGen \in Nat
        BY <2>1 DEF Core, Typed
      <3>2. QED BY <3>1 DEF IsOpened, Starts, Connected
    <2>6. IsServed(s)
      BY <2>1, <2>2, <2>3, <2>4, <2>5 DEF SessionStep
    <2>7. QED BY <2>1, <2>6, RunnerCounts DEF IsServed
  <1>2. Inv /\ Snapped /\ ~NestedWait /\ [Next]_vars =>
           [\A s, t \in Slots : Starts(s) /\ s # t => sess[t].depth = 0]_vars
    BY <1>1
  <1>3. QED BY <1>2, Invariance, SnappedAlways, PTL DEF Spec, DrawsAlone

-----------------------------------------------------------------------------
(***************************************************************************)
(* When waits cannot nest.  The last three results hold as long as no       *)
(* request waits inside another one's wait.  Two requests alone can do so:  *)
(* LOCATION_REMOVE, which opens a panel without being one that "may wait",  *)
(* and EVNT_MULTI, which waits while a form is open.  Without them the      *)
(* three results are invariants of the server.                              *)
(*                                                                          *)
(* The argument: whatever a frame waits for was sent by a client (Asked), a *)
(* frame that is not the oldest is the hook's, a command's or one of those  *)
(* two requests' (Shape), so without the two there is no nested request.    *)
(***************************************************************************)

\* The request in the socket and the one being served are a client's.
Asks(q) == q.wire \in Ops \cup {None} /\ q.op \in Ops \cup {None}

SessionsAsk == \A s \in Slots : Asks(sess[s])

FramesAsk(st) == \A i \in DOMAIN st : st[i].op \in Ops \cup {None}

Asked == SessionsAsk /\ FramesAsk(stack)

-----------------------------------------------------------------------------
\* A free slot asks for nothing.
LEMMA FreeAsks == Asks(Free)
  BY DEF Asks, Free

\* What is received was in the socket.
LEMMA TransferAsks ==
    ASSUME NEW r \in Sessions, Asks(r), NEW event PROVE Asks(Transfer(r, event))
  <1>1. Asks(Received(r))
    BY DEF Asks, Received, Sessions
  <1>2. Asks(Drained(r))
    BY DEF Asks, Drained, Sessions
  <1>3. QED BY <1>1, <1>2 DEF Transfer

\* A reply is no request.
LEMMA ReplyAsks ==
    ASSUME NEW r \in Sessions, Asks(r), NEW g PROVE Asks(Reply(r, g))
  BY DEF Asks, Reply, Sessions

\* Nor is the one that ends a wait.
LEMMA EndedAsks ==
    ASSUME NEW r \in Sessions, Asks(r), NEW g PROVE Asks(Ended(r, g))
  BY DEF Asks, Ended, Reply, Sessions

\* One session's record changes.
LEMMA OneAsks ==
    ASSUME Core(stack), SessionsAsk, NEW s \in Slots, NEW q, Asks(q),
           sess' = [sess EXCEPT ![s] = q]
    PROVE  SessionsAsk'
  <1>1. sess'[s] = q /\ \A t \in Slots \ {s} : sess'[t] = sess[t]
    BY DEF Core, Typed
  <1>2. QED BY <1>1 DEF SessionsAsk, Asks

\* A frame is pushed.
LEMMA PushAsks ==
    ASSUME NEW st \in Seq(Frames), FramesAsk(st), NEW f \in Frames,
           f.op \in Ops \cup {None}
    PROVE  FramesAsk(Push(f, st))
  <1> DEFINE new == Push(f, st)
  <1>1. Pushed(new, f, st)
    BY PushedStack
  <1> HIDE DEF new
  <1>2. /\ DOMAIN new = 1..Len(new) /\ DOMAIN st = 1..Len(st) /\ Len(st) \in Nat
        /\ Len(new) = Len(st) + 1 /\ new[1] = f
        /\ \A i \in 1..Len(st) : new[i + 1] = st[i]
    BY <1>1, LenProperties DEF Pushed
  <1>3. ASSUME NEW i \in DOMAIN new PROVE new[i].op \in Ops \cup {None}
    <2>1. \A n \in Nat : \A j \in 1..(n + 1) : j = 1 \/ (j - 1 \in 1..n /\ (j - 1) + 1 = j)
      OBVIOUS
    <2>2. i = 1 \/ (i - 1 \in 1..Len(st) /\ (i - 1) + 1 = i)
      BY <1>2, <2>1
    <2>3. QED BY <1>2, <2>2 DEF FramesAsk
  <1>4. QED BY <1>3 DEF FramesAsk, new

\* A frame is taken off.
LEMMA TailAsks ==
    ASSUME NEW st \in Seq(Frames), st # <<>>, FramesAsk(st)
    PROVE  Tail(st) \in Seq(Frames) /\ FramesAsk(Tail(st)) /\ Head(st).op \in Ops \cup {None}
  <1>1. /\ Head(st) = st[1] /\ Tail(st) \in Seq(Frames) /\ Len(st) \in Nat \ {0}
        /\ Len(Tail(st)) = Len(st) - 1
        /\ \A i \in 1..Len(Tail(st)) : Tail(st)[i] = st[i + 1]
    BY TailProps
  <1>2. DOMAIN st = 1..Len(st) /\ DOMAIN Tail(st) = 1..Len(Tail(st))
    BY <1>1, LenProperties
  <1>3. \A n \in Nat \ {0} : 1 \in 1..n /\ \A j \in 1..(n - 1) : j + 1 \in 1..n
    OBVIOUS
  <1>4. \A i \in DOMAIN Tail(st) : i + 1 \in DOMAIN st
    BY <1>1, <1>2, <1>3
  <1>5. QED BY <1>1, <1>2, <1>3, <1>4 DEF FramesAsk

\* A visit answers, or leaves on the stack the request that it was given.
LEMMA HandleAsks ==
    ASSUME Core(stack), SessionsAsk, NEW s \in Slots, NEW r \in Sessions, Asks(r),
           NEW st \in Seq(Frames), FramesAsk(st), NEW serving,
           HandleRequest(s, r, st, serving)
    PROVE  SessionsAsk' /\ FramesAsk(stack')
  <1>1. ASSUME NEW i \in Sessions, Asks(i), Replied(s, i, st)
        PROVE  SessionsAsk' /\ FramesAsk(stack')
    <2>1. Asks(Reply(i, i.gen))
      BY <1>1, ReplyAsks
    <2>2. sess' = [sess EXCEPT ![s] = Reply(i, i.gen)] /\ stack' = st
      BY <1>1 DEF Replied
    <2>3. QED BY <2>1, <2>2, OneAsks
  <1>2. ASSUME sess' = [sess EXCEPT ![s] = [r EXCEPT !.handling = TRUE]],
               stack' = Push(RequestFrame(s, r.gen, r.op), st), r.op \in Waiting
        PROVE  SessionsAsk' /\ FramesAsk(stack')
    <2> DEFINE q == [r EXCEPT !.handling = TRUE]
               f == RequestFrame(s, r.gen, r.op)
    <2>1. Asks(q)
      BY DEF Asks, Sessions
    <2>2. f \in Frames /\ f.op = r.op
      BY <1>2, FrameTypes DEF Sessions
    <2>3. f.op \in Ops \cup {None}
      BY <2>2 DEF Asks
    <2>4. sess' = [sess EXCEPT ![s] = q] /\ stack' = Push(f, st)
      BY <1>2
    <2> HIDE DEF q, f
    <2>5. QED BY <2>1, <2>2, <2>3, <2>4, OneAsks, PushAsks
  <1>3. CASE ~Runs(r, serving)
    BY <1>3, OneAsks DEF HandleRequest
  <1>4. CASE Runs(r, serving)
    <2>1. Dispatch(s, r, st)
      BY <1>4 DEF HandleRequest
    <2>2. CASE Answer(s, r, st)
      BY <1>1, <2>2 DEF Answer
    <2>3. CASE ApplInit(s, r, st)
      <3> DEFINE i == [r EXCEPT !.inited = TRUE, !.late = @ \ {"init"}]
      <3>1. i \in Sessions /\ Asks(i)
        BY InitKeeps DEF Asks, Sessions
      <3>2. Replied(s, i, st)
        BY <2>3 DEF ApplInit
      <3> HIDE DEF i
      <3>3. QED BY <1>1, <3>1, <3>2
    <2>4. CASE ApplExit(s, r, st)
      <3> DEFINE i == [r EXCEPT !.inited = FALSE, !.depth = 0, !.menu = FALSE,
                                !.late = @ \ {"lock", "init"}]
      <3>1. i \in Sessions
        BY ExitKeeps
      <3>2. Asks(i)
        BY DEF Asks, Sessions
      <3>3. Replied(s, i, st)
        BY <2>4 DEF ApplExit
      <3> HIDE DEF i
      <3>4. QED BY <1>1, <3>1, <3>2, <3>3
    <2>5. CASE Authorized(r) /\ WindUpdate(s, r, st)
      <3>1. CASE r.op = "BEG"
        <4> DEFINE i == [r EXCEPT !.depth = @ + 1]
        <4>1. r.depth < MaxDepth
          BY <2>5, <3>1 DEF Authorized
        <4>2. i \in Sessions
          BY <4>1, BegKeeps
        <4>3. Asks(i)
          BY DEF Asks, Sessions
        <4>4. Replied(s, i, st)
          BY <2>5, <3>1 DEF WindUpdate
        <4> HIDE DEF i
        <4>5. QED BY <1>1, <4>2, <4>3, <4>4
      <3>2. CASE r.op = "END"
        <4> DEFINE i == [r EXCEPT !.depth = @ - 1,
                                  !.late = IF r.depth = 1 THEN @ \ {"lock"} ELSE @]
        <4>1. r.depth > 0
          BY <2>5, <3>2 DEF Authorized
        <4>2. i \in Sessions
          BY <4>1, EndKeeps
        <4>3. Asks(i)
          BY DEF Asks, Sessions
        <4>4. Replied(s, i, st)
          BY <2>5, <3>2 DEF WindUpdate
        <4> HIDE DEF i
        <4>5. QED BY <1>1, <4>2, <4>3, <4>4
      <3>3. QED BY <2>5, <3>1, <3>2 DEF WindUpdate
    <2>6. CASE FormDial(s, r, st)
      BY <1>1, <2>6 DEF FormDial
    <2>7. CASE MenuBar(s, r, st)
      <3> DEFINE i == [r EXCEPT !.menu = TRUE]
      <3>1. i \in Sessions
        BY MenuKeeps
      <3>2. Asks(i)
        BY DEF Asks, Sessions
      <3>3. Replied(s, i, st)
        BY <2>7 DEF MenuBar
      <3> HIDE DEF i
      <3>4. QED BY <1>1, <3>1, <3>2, <3>3
    <2>8. CASE EvntMulti(s, r, st)
      <3>1. r.op \in Waiting
        BY <2>8 DEF EvntMulti, Waiting
      <3>2. QED BY <1>1, <1>2, <2>8, <3>1 DEF EvntMulti
    <2>9. CASE OpenPanel(s, r, st)
      <3>1. r.op \in Waiting
        BY <2>9 DEF OpenPanel, Waiting
      <3>2. QED BY <1>2, <2>9, <3>1 DEF OpenPanel
    <2>10. QED BY <2>1, <2>2, <2>3, <2>4, <2>5, <2>6, <2>7, <2>8, <2>9 DEF Dispatch
  <1>5. QED BY <1>3, <1>4

-----------------------------------------------------------------------------
(* Every step of the server.                                                *)

\* A wait ends.
LEMMA FinishAsks ==
    ASSUME Core(stack), SessionsAsk, NEW st, Core(st), st # <<>>, FramesAsk(st),
           FinishFrame(st)
    PROVE  SessionsAsk' /\ FramesAsk(stack')
  <1> DEFINE f == Head(st)
  <1>1. f.kind = "request" => f.slot \in Slots
    BY FrameSlot
  <1>2. /\ stack' = Tail(st)
        /\ sess' = (IF f.kind = "request" /\ Connected(f.slot)
                    THEN [sess EXCEPT ![f.slot] = Ended(@, f.gen)] ELSE sess)
    BY DEF FinishFrame
  <1> HIDE DEF f
  <1>3. FramesAsk(stack')
    BY <1>2, TailAsks DEF Core, Typed
  <1>4. CASE f.kind = "request" /\ Connected(f.slot)
    <2> DEFINE q == Ended(sess[f.slot], f.gen)
    <2>1. f.slot \in Slots /\ sess[f.slot] \in Sessions /\ Asks(sess[f.slot])
      BY <1>1, <1>4, SessionTypes DEF Core, Typed, SessionsAsk
    <2>2. Asks(q) /\ sess' = [sess EXCEPT ![f.slot] = q]
      BY <1>2, <1>4, <2>1, EndedAsks
    <2> HIDE DEF q
    <2>3. QED BY <1>3, <2>1, <2>2, OneAsks
  <1>5. CASE ~(f.kind = "request" /\ Connected(f.slot))
    BY <1>2, <1>3, <1>5 DEF SessionsAsk
  <1>6. QED BY <1>4, <1>5

\* A connection opens.
LEMMA AcceptAsks ==
    ASSUME Core(stack), SessionsAsk, TryAccept PROVE SessionsAsk'
  <1>1. CASE UNCHANGED <<sess, nextGen>>
    BY <1>1 DEF SessionsAsk
  <1>2. CASE Accept
    <2>1. PICK s \in Slots : sess' = [sess EXCEPT ![s] = [Free EXCEPT !.gen = nextGen + 1]]
      BY <1>2 DEF Accept
    <2> DEFINE q == [Free EXCEPT !.gen = nextGen + 1]
    <2>2. Asks(q)
      BY DEF Asks, Free
    <2> HIDE DEF q
    <2>3. QED BY <2>1, <2>2, OneAsks DEF q
  <1>3. QED BY <1>1, <1>2 DEF TryAccept

\* A connection closes.
LEMMA CloseAsks ==
    ASSUME Core(stack), SessionsAsk, NEW s \in Slots, CloseSession(s) PROVE SessionsAsk'
  BY FreeAsks, OneAsks DEF CloseSession

\* The requests that clients send are Ops.
LEMMA EnvironmentAsks ==
    ASSUME Core(stack), SessionsAsk, NEW s \in Slots,
           Send(s) \/ Stall(s) \/ Gone(s) \/ \E kind \in {"io", "init", "lock"} : Expire(s, kind)
    PROVE  SessionsAsk'
  <1>1. sess \in [Slots -> Sessions] /\ sess[s] \in Sessions /\ Asks(sess[s])
    BY SessionTypes DEF Core, Typed, SessionsAsk
  <1>2. CASE Send(s)
    <2>1. PICK o \in Ops : sess' = [sess EXCEPT ![s].peer = "waiting", ![s].wire = o]
      BY <1>2 DEF Send
    <2> DEFINE q == [sess[s] EXCEPT !.peer = "waiting", !.wire = o]
    <2>2. sess' = [sess EXCEPT ![s] = q]
      BY <1>1, <2>1
    <2>3. Asks(q)
      BY <1>1 DEF Asks, Sessions
    <2> HIDE DEF q
    <2>4. QED BY <2>2, <2>3, OneAsks
  <1>3. CASE Stall(s) \/ Gone(s)
    <2>1. PICK p \in {"stuck", "gone"} : sess' = [sess EXCEPT ![s].peer = p]
      BY <1>3 DEF Stall, Gone
    <2> DEFINE q == [sess[s] EXCEPT !.peer = p]
    <2>2. sess' = [sess EXCEPT ![s] = q] /\ Asks(q)
      BY <1>1, <2>1 DEF Asks, Sessions
    <2> HIDE DEF q
    <2>3. QED BY <2>2, OneAsks
  <1>4. CASE \E kind \in {"io", "init", "lock"} : Expire(s, kind)
    <2>1. PICK kind \in {"io", "init", "lock"} :
             sess' = [sess EXCEPT ![s].late = @ \cup {kind}]
      BY <1>4 DEF Expire
    <2> DEFINE q == [sess[s] EXCEPT !.late = @ \cup {kind}]
    <2>2. sess' = [sess EXCEPT ![s] = q] /\ Asks(q)
      BY <1>1, <2>1 DEF Asks, Sessions
    <2> HIDE DEF q
    <2>3. QED BY <2>2, OneAsks
  <1>5. QED BY <1>2, <1>3, <1>4

\* The hook visits one session.
LEMMA ServiceVisitAsks ==
    ASSUME Core(stack), Asked, ServiceVisit PROVE Asked'
  <1> DEFINE s == Top.next
             event == Poll(sess[s])
             r == Transfer(sess[s], event)
  <1>1. /\ InService /\ s \in Slots /\ stack # <<>> /\ stack \in Seq(Frames)
        /\ SessionsAsk /\ FramesAsk(stack)
    BY DEF ServiceVisit, InService, Core, Typed, Asked
  <1>2. Core(Onward) /\ Onward \in Seq(Frames)
    BY <1>1, OnwardCore DEF Core, Typed
  <1>3. FramesAsk(Onward)
    <2> DEFINE f == [Top EXCEPT !.next = @ + 1]
    <2>1. Head(stack) \in Frames
      BY <1>1, FrameSlot
    <2>2. Head(stack).next + 1 \in 0..(NumSlots + 1)
      BY <1>1, GemdAssumption DEF Top, Slots, GemdAssumption
    <2>3. f \in Frames /\ f.op = Head(stack).op
      BY <2>1, <2>2 DEF Frames, Top
    <2>4. Onward = Push(f, Tail(stack))
      BY DEF Onward
    <2> HIDE DEF f
    <2>5. Tail(stack) \in Seq(Frames) /\ FramesAsk(Tail(stack)) /\ f.op \in Ops \cup {None}
      BY <1>1, <2>3, TailAsks
    <2>6. QED BY <2>3, <2>4, <2>5, PushAsks
  <1>4. CASE stack' = Onward /\ UNCHANGED sess
    BY <1>1, <1>3, <1>4 DEF Asked, SessionsAsk
  <1>5. CASE FinishFrame(Tail(stack))
    <2>1. Core(Tail(stack)) /\ Tail(stack) # <<>> /\ FramesAsk(Tail(stack))
      BY <1>1, ServiceTail, TailAsks
    <2>2. QED BY <1>1, <1>5, <2>1, FinishAsks DEF Asked
  <1>6. CASE CloseSession(s) /\ stack' = Onward
    BY <1>1, <1>3, <1>6, CloseAsks DEF Asked
  <1>7. CASE HandleRequest(s, r, Onward, TRUE)
    <2>1. sess[s] \in Sessions /\ Asks(sess[s])
      BY <1>1, SessionTypes DEF Core, Typed, SessionsAsk
    <2>2. r \in Sessions /\ Asks(r)
      BY <2>1, TransferKeeps, TransferAsks
    <2> HIDE DEF r, s
    <2>3. QED BY <1>1, <1>2, <1>3, <1>7, <2>2, HandleAsks DEF Asked
  <1>8. \/ stack' = Onward /\ UNCHANGED sess
        \/ FinishFrame(Tail(stack))
        \/ CloseSession(s) /\ stack' = Onward
        \/ HandleRequest(s, r, Onward, TRUE)
    BY DEF ServiceVisit
  <1>9. QED BY <1>4, <1>5, <1>6, <1>7, <1>8

\* The hook's own frames, and a command's, ask for nothing.
LEMMA FrameMovesAsk ==
    ASSUME Core(stack), Asked, ServiceReturn \/ UserCommands \/ PumpEvent PROVE Asked'
  <1>1. stack \in Seq(Frames) /\ FramesAsk(stack) /\ SessionsAsk'
    BY DEF Core, Typed, Asked, SessionsAsk, ServiceReturn, UserCommands, PumpEvent
  <1>2. CASE ServiceReturn
    <2> DEFINE st == Tail(stack)
               f == [Head(st) EXCEPT !.polled = TRUE]
    <2>1. stack # <<>> /\ Core(st) /\ st # <<>>
      BY <1>2, ServiceTail DEF ServiceReturn, InService
    <2>2. st \in Seq(Frames) /\ FramesAsk(st)
      BY <1>1, <2>1, TailAsks
    <2>3. stack' = Push(f, Tail(st))
      BY <1>2 DEF ServiceReturn
    <2> HIDE DEF st
    <2>4. Head(st) \in Frames
      BY <2>1, FrameSlot
    <2>5. f \in Frames /\ f.op = Head(st).op
      BY <2>4 DEF Frames
    <2> HIDE DEF f
    <2>6. Tail(st) \in Seq(Frames) /\ FramesAsk(Tail(st)) /\ f.op \in Ops \cup {None}
      BY <2>1, <2>2, <2>5, TailAsks
    <2>7. QED BY <1>1, <2>3, <2>5, <2>6, PushAsks DEF Asked
  <1>3. CASE UserCommands
    <2> DEFINE f == [Top EXCEPT !.polled = FALSE]
               st == Push(f, Tail(stack))
               c == OtherFrame("command", 0)
    <2>1. stack # <<>> /\ stack' = Push(c, st)
      BY <1>3 DEF UserCommands, AtPanel
    <2>2. f \in Frames /\ f.op = Head(stack).op
      BY <2>1, FrameSlot DEF Frames, Top
    <2>3. c \in Frames /\ c.op \in Ops \cup {None}
      BY ServiceFrames
    <2> HIDE DEF f, c
    <2>4. Tail(stack) \in Seq(Frames) /\ FramesAsk(Tail(stack)) /\ f.op \in Ops \cup {None}
      BY <1>1, <2>1, <2>2, TailAsks
    <2>5. FramesAsk(st) /\ st \in Seq(Frames)
      BY <2>2, <2>4, PushAsks, PushProps
    <2> HIDE DEF st
    <2>6. QED BY <1>1, <2>1, <2>3, <2>5, PushAsks DEF Asked
  <1>4. CASE PumpEvent
    <2>1. stack' = <<OtherFrame("system", 0)>>
      BY <1>4 DEF PumpEvent
    <2>2. OtherFrame("system", 0).op = None
      BY ServiceFrames
    <2>3. DOMAIN stack' = {1} /\ stack'[1] = OtherFrame("system", 0)
      BY <2>1
    <2>4. QED BY <1>1, <2>2, <2>3 DEF Asked, FramesAsk
  <1>5. QED BY <1>2, <1>3, <1>4

\* Every step leaves on the stack only what clients asked for.
LEMMA EveryStepAsks ==
    ASSUME Inv, Asked, [Next]_vars PROVE Asked'
  <1>1. /\ Core(stack) /\ stack \in Seq(Frames) /\ SessionsAsk /\ FramesAsk(stack)
        /\ (phase = "down" => stack = <<>>)
    BY DEF Inv, Loop, Core, Typed, Asked
  <1>2. CASE UNCHANGED <<sess, stack>>
    BY <1>1, <1>2 DEF Asked, SessionsAsk
  <1>3. CASE CallHook
    <2>1. stack # <<>>
      BY <1>3 DEF CallHook, AtPanel
    <2>2. CASE Cancelled
      BY <1>1, <1>3, <2>1, <2>2, FinishAsks DEF CallHook, Asked
    <2>3. CASE ~Cancelled
      <3> DEFINE f == OtherFrame("service", 1)
      <3>1. TryAccept /\ stack' = Push(f, stack)
        BY <1>3, <2>3 DEF CallHook
      <3>2. f \in Frames /\ f.op \in Ops \cup {None}
        BY ServiceFrames
      <3> HIDE DEF f
      <3>3. QED BY <1>1, <3>1, <3>2, AcceptAsks, PushAsks DEF Asked
    <2>4. QED BY <2>2, <2>3
  <1>4. CASE ServiceVisit
    BY <1>1, <1>4, ServiceVisitAsks
  <1>5. CASE ServiceReturn \/ UserCommands \/ PumpEvent
    BY <1>1, <1>5, FrameMovesAsk
  <1>6. CASE MainVisit
    <2> DEFINE r == Transfer(sess[turn], snapshot[turn].event)
    <2>1. turn \in Slots /\ sess[turn] \in Sessions /\ Asks(sess[turn])
      BY <1>1, <1>6, SessionTypes DEF MainVisit, Core, Typed, SessionsAsk
    <2>2. r \in Sessions /\ Asks(r)
      BY <2>1, TransferKeeps, TransferAsks
    <2>3. CASE CloseSession(turn) /\ UNCHANGED stack
      BY <1>1, <2>1, <2>3, CloseAsks DEF Asked
    <2>4. CASE HandleRequest(turn, r, stack, FALSE)
      <3> HIDE DEF r
      <3>1. QED BY <1>1, <2>1, <2>2, <2>4, HandleAsks DEF Asked
    <2>5. \/ UNCHANGED <<sess, stack>>
          \/ CloseSession(turn) /\ UNCHANGED stack
          \/ HandleRequest(turn, r, stack, FALSE)
      BY <1>6 DEF MainVisit
    <2>6. QED BY <1>2, <2>3, <2>4, <2>5
  <1>7. CASE MainAccept
    BY <1>1, <1>7, AcceptAsks DEF MainAccept, Asked
  <1>8. CASE ShutdownVisit
    <2>1. turn \in Slots /\ UNCHANGED stack /\ (CloseSession(turn) \/ UNCHANGED sess)
      BY <1>8 DEF ShutdownVisit
    <2>2. QED BY <1>1, <1>2, <2>1, CloseAsks DEF Asked
  <1>9. CASE EvntReturns \/ UserAnswers \/ UserConfirms
    <2>1. stack # <<>> /\ FinishFrame(stack)
      BY <1>9 DEF EvntReturns, UserAnswers, UserConfirms, AtPanel
    <2>2. QED BY <1>1, <2>1, FinishAsks DEF Asked
  <1>10. CASE \E s \in Slots : \/ Send(s) \/ Stall(s) \/ Gone(s)
                               \/ \E kind \in {"io", "init", "lock"} : Expire(s, kind)
    <2>1. UNCHANGED stack
      BY <1>10 DEF Send, Stall, Gone, Expire, OnlySessions
    <2>2. QED BY <1>1, <1>10, <2>1, EnvironmentAsks DEF Asked
  <1>11. CASE PollSockets \/ PumpDone \/ Stop \/ Signal \/ Terminated \/ UNCHANGED vars
    <2>1. UNCHANGED <<sess, stack>>
      BY <1>11 DEF PollSockets, PumpDone, Stop, Signal, Terminated, vars
    <2>2. QED BY <1>2, <2>1
  <1>12. QED BY <1>3, <1>4, <1>5, <1>6, <1>7, <1>8, <1>9, <1>10, <1>11
             DEF Next, ServerStep, UserStep, Environment

-----------------------------------------------------------------------------
\* Without the two requests, only the oldest frame is a request.
LEMMA NoNestedWait ==
    ASSUME Core(stack), Asked, Ops \cap {"LOCREM", "EVNT"} = {} PROVE ~NestedWait
  <1> SUFFICES ASSUME NEW i \in DOMAIN stack, i < Len(stack), stack[i].kind = "request"
               PROVE  FALSE
    BY DEF NestedWait
  <1>1. DOMAIN stack = 1..Len(stack)
    BY LenProperties DEF Core, Typed
  <1>2. FrameFits(stack, i)
    BY <1>1 DEF Core, Shape
  <1>3. stack[i].op \in Ops \cup {None} /\ stack[i].op \in {"LOCREM", "EVNT"}
    BY <1>2 DEF FrameFits, Asked, FramesAsk
  <1>4. QED BY <1>3 DEF None

\* Without LOCATION_REMOVE and EVNT_MULTI, no client's request ever waits inside
\* another one's wait: the hook refuses the three requests that "may wait", and
\* no other one calls it (main.c 158-162, 269).
THEOREM NoNesting ==
    ASSUME Ops \cap {"LOCREM", "EVNT"} = {} PROVE Spec => []~NestedWait
  <1>1. Init => Asked
    <2> SUFFICES ASSUME Init PROVE Asked
      OBVIOUS
    <2>1. stack = <<>> /\ \A s \in Slots : sess[s] = Free
      BY DEF Init
    <2>2. QED BY <2>1, FreeAsks DEF Asked, SessionsAsk, FramesAsk
  <1>2. Inv /\ Asked /\ [Next]_vars => Asked'
    BY EveryStepAsks
  <1>3. Inv /\ Asked => ~NestedWait
    BY NoNestedWait DEF Inv
  <1>4. QED BY <1>1, <1>2, <1>3, Invariance, PTL DEF Spec

\* There is one interactive panel at a time: the server's own, a command's, or
\* one client's, however many clients ask for one.
THEOREM OnePanelAlways ==
    ASSUME Ops \cap {"LOCREM", "EVNT"} = {} PROVE Spec => []OnePanel
  <1>1. QED BY NoNesting, OnePanelTheorem, PTL

\* A reply is its own client's, although the slot of a request that waits can be
\* closed and given to another client meanwhile.
THEOREM ReplyAlways ==
    ASSUME Ops \cap {"LOCREM", "EVNT"} = {} PROVE Spec => []ReplyToRequester
  <1>1. QED BY NoNesting, ReplyTheorem, PTL

\* Whoever holds the update lock, a drag included, is the only one whose
\* requests start.
THEOREM DrawsAloneAlways ==
    ASSUME Ops \cap {"LOCREM", "EVNT"} = {} PROVE Spec => DrawsAlone
  <1>1. QED BY NoNesting, DrawsAloneTheorem, PTL

-----------------------------------------------------------------------------
(***************************************************************************)
(* The server implements UpdateLock: an application is a connection (its    *)
(* generation), live once APPL_INIT gave it an application id; its count is *)
(* its session's; the dragger is the connection of the DRAG frame.  The     *)
(* mapping reads no history.                                                *)
(*                                                                          *)
(* The argument has three parts.  Distinct connections make the mapping a   *)
(* function of one session at a time (AppChanges, AppLeaves, AppsSame).     *)
(* Only the oldest frame drags, so everything that happens on top of it     *)
(* leaves the dragger alone (DraggerFacts, PushDragger, ReplaceDragger).    *)
(* And whoever may run owns the whole counter (RunnerCounts, LockRunner),   *)
(* which gives the guards of the lock's actions; a session that is closed   *)
(* or exits is never the one that drags, because it is not the modal one.   *)
(***************************************************************************)

HIDE GemdAssumption DEF GemdAssumption, Slots

\* A session's connection is one application: no two share it.
Distinct(S) ==
    /\ S \in [Slots -> Sessions]
    /\ \A s, t \in Slots : S[s].gen = S[t].gen /\ S[s].gen # 0 => s = t

\* What the mapping reads of the sessions.
LiveIn(S) == {S[s].gen : s \in {t \in Slots : S[t].inited}}

DepthIn(S) == [g \in 1..MaxGeneration |->
                  IF \E s \in Slots : S[s].gen = g
                  THEN S[CHOOSE s \in Slots : S[s].gen = g].depth ELSE 0]

\* A connection's count is its session's.
LEMMA DepthFacts ==
    ASSUME NEW S, Distinct(S)
    PROVE  /\ DepthIn(S) \in [1..MaxGeneration -> Nat]
           /\ \A s \in Slots : S[s].gen # 0 => /\ S[s].gen \in 1..MaxGeneration
                                               /\ DepthIn(S)[S[s].gen] = S[s].depth
           /\ \A g \in 1..MaxGeneration : (\A s \in Slots : S[s].gen # g) => DepthIn(S)[g] = 0
  <1>1. \A s \in Slots : /\ S[s].gen \in 0..MaxGeneration /\ S[s].depth \in 0..MaxDepth
                         /\ S[s].inited \in BOOLEAN
    BY DEF Distinct, Sessions
  <1>2. \A s \in Slots : S[s].gen # 0 => S[s].gen \in 1..MaxGeneration
    BY <1>1
  <1>3. ASSUME NEW g \in 1..MaxGeneration, NEW s \in Slots, S[s].gen = g
        PROVE  DepthIn(S)[g] = S[s].depth
    <2> DEFINE c == CHOOSE t \in Slots : S[t].gen = g
    <2>1. c \in Slots /\ S[c].gen = g
      BY <1>3
    <2>2. c = s
      BY <1>3, <2>1 DEF Distinct
    <2>3. DepthIn(S)[g] = S[c].depth
      BY <1>3 DEF DepthIn
    <2>4. QED BY <2>2, <2>3
  <1>4. ASSUME NEW g \in 1..MaxGeneration, \A s \in Slots : S[s].gen # g
        PROVE  DepthIn(S)[g] = 0
    BY <1>4 DEF DepthIn
  <1>5. DepthIn(S) \in [1..MaxGeneration -> Nat]
    <2>1. \A g \in 1..MaxGeneration : DepthIn(S)[g] \in Nat
      BY <1>1, <1>3, <1>4
    <2>2. DepthIn(S) = [g \in 1..MaxGeneration |-> DepthIn(S)[g]]
      BY DEF DepthIn
    <2>3. QED BY <2>1, <2>2
  <1>6. QED BY <1>2, <1>3, <1>4, <1>5

\* One application's record changes, its connection stays.
LEMMA AppChanges ==
    ASSUME NEW S, Distinct(S), NEW T, Distinct(T), NEW s \in Slots,
           \A t \in Slots \ {s} : T[t] = S[t], S[s].gen # 0, T[s].gen = S[s].gen
    PROVE  /\ DepthIn(T) = [DepthIn(S) EXCEPT ![S[s].gen] = T[s].depth]
           /\ LiveIn(T) = IF T[s].inited THEN LiveIn(S) \cup {S[s].gen}
                          ELSE LiveIn(S) \ {S[s].gen}
           /\ S[s].gen \in LiveIn(S) <=> S[s].inited
  <1> DEFINE a == S[s].gen
  <1>1. a \in 1..MaxGeneration /\ DepthIn(T)[a] = T[s].depth
    BY DepthFacts
  <1>2. \A t \in Slots : T[t].gen = S[t].gen
    OBVIOUS
  <1>3. ASSUME NEW g \in 1..MaxGeneration, g # a PROVE DepthIn(T)[g] = DepthIn(S)[g]
    <2>1. CASE \E t \in Slots : S[t].gen = g
      <3>1. PICK t \in Slots : S[t].gen = g
        BY <2>1
      <3>2. t # s /\ T[t] = S[t] /\ S[t].gen # 0
        BY <1>3, <3>1
      <3>3. DepthIn(T)[g] = T[t].depth /\ DepthIn(S)[g] = S[t].depth
        BY <3>1, <3>2, DepthFacts
      <3>4. QED BY <3>2, <3>3
    <2>2. CASE ~\E t \in Slots : S[t].gen = g
      BY <1>2, <2>2, DepthFacts
    <2>3. QED BY <2>1, <2>2
  <1>4. DepthIn(T) = [DepthIn(S) EXCEPT ![a] = T[s].depth]
    <2>1. DepthIn(S) \in [1..MaxGeneration -> Nat] /\ DepthIn(T) \in [1..MaxGeneration -> Nat]
      BY DepthFacts
    <2>2. QED BY <1>1, <1>3, <2>1
  <1>5. \A t \in Slots : S[t].gen = a => t = s
    BY DEF Distinct
  <1>6. LiveIn(T) = IF T[s].inited THEN LiveIn(S) \cup {a} ELSE LiveIn(S) \ {a}
    BY <1>2, <1>5 DEF LiveIn
  <1>7. a \in LiveIn(S) <=> S[s].inited
    BY <1>5 DEF LiveIn
  <1>8. QED BY <1>4, <1>6, <1>7

\* A connection is closed: its application is gone, and owes nothing.
LEMMA AppLeaves ==
    ASSUME NEW S, Distinct(S), NEW T, Distinct(T), NEW s \in Slots,
           \A t \in Slots \ {s} : T[t] = S[t], S[s].gen # 0,
           T[s].gen = 0, ~T[s].inited
    PROVE  /\ DepthIn(T) = [DepthIn(S) EXCEPT ![S[s].gen] = 0]
           /\ LiveIn(T) = LiveIn(S) \ {S[s].gen}
           /\ S[s].gen \in LiveIn(S) <=> S[s].inited
  <1> DEFINE a == S[s].gen
  <1>1. \A t \in Slots : S[t].gen = a => t = s
    BY DEF Distinct
  <1>2. a \in 1..MaxGeneration /\ DepthIn(T)[a] = 0
    <2>1. \A t \in Slots : T[t].gen # a
      BY <1>1
    <2>2. QED BY <2>1, DepthFacts
  <1>3. ASSUME NEW g \in 1..MaxGeneration, g # a PROVE DepthIn(T)[g] = DepthIn(S)[g]
    <2>1. CASE \E t \in Slots : S[t].gen = g
      <3>1. PICK t \in Slots : S[t].gen = g
        BY <2>1
      <3>2. t # s /\ T[t] = S[t] /\ S[t].gen # 0
        BY <1>3, <3>1
      <3>3. DepthIn(T)[g] = T[t].depth /\ DepthIn(S)[g] = S[t].depth
        BY <3>1, <3>2, DepthFacts
      <3>4. QED BY <3>2, <3>3
    <2>2. CASE ~\E t \in Slots : S[t].gen = g
      <3>1. \A t \in Slots : T[t].gen # g
        BY <2>2
      <3>2. QED BY <2>2, <3>1, DepthFacts
    <2>3. QED BY <2>1, <2>2
  <1>4. DepthIn(T) = [DepthIn(S) EXCEPT ![a] = 0]
    <2>1. DepthIn(S) \in [1..MaxGeneration -> Nat] /\ DepthIn(T) \in [1..MaxGeneration -> Nat]
      BY DepthFacts
    <2>2. QED BY <1>2, <1>3, <2>1
  <1>5. LiveIn(T) = LiveIn(S) \ {a}
    BY <1>1 DEF LiveIn
  <1>6. a \in LiveIn(S) <=> S[s].inited
    BY <1>1 DEF LiveIn
  <1>7. QED BY <1>4, <1>5, <1>6

\* Nothing of the sessions that the lock can see changes.
LEMMA AppsSame ==
    ASSUME NEW S, Distinct(S), NEW T, Distinct(T),
           \A t \in Slots : \/ /\ T[t].gen = S[t].gen /\ T[t].inited = S[t].inited
                               /\ T[t].depth = S[t].depth
                            \/ /\ ~S[t].inited /\ ~T[t].inited
                               /\ S[t].depth = 0 /\ T[t].depth = 0
    PROVE  DepthIn(T) = DepthIn(S) /\ LiveIn(T) = LiveIn(S)
  <1>1. ASSUME NEW g \in 1..MaxGeneration PROVE DepthIn(T)[g] = DepthIn(S)[g]
    <2>1. \A t \in Slots : S[t].gen = g => DepthIn(S)[g] = S[t].depth
      BY DepthFacts
    <2>2. \A t \in Slots : T[t].gen = g => DepthIn(T)[g] = T[t].depth
      BY DepthFacts
    <2>3. (\A t \in Slots : S[t].gen # g) => DepthIn(S)[g] = 0
      BY DepthFacts
    <2>4. (\A t \in Slots : T[t].gen # g) => DepthIn(T)[g] = 0
      BY DepthFacts
    <2>5. QED BY <2>1, <2>2, <2>3, <2>4
  <1>2. DepthIn(S) \in [1..MaxGeneration -> Nat] /\ DepthIn(T) \in [1..MaxGeneration -> Nat]
    BY DepthFacts
  <1>3. DepthIn(T) = DepthIn(S)
    <2>1. DepthIn(T) = [g \in 1..MaxGeneration |-> DepthIn(T)[g]]
          /\ DepthIn(S) = [g \in 1..MaxGeneration |-> DepthIn(S)[g]]
      BY DEF DepthIn
    <2>2. [g \in 1..MaxGeneration |-> DepthIn(T)[g]] = [g \in 1..MaxGeneration |-> DepthIn(S)[g]]
      BY <1>1, Zenon
    <2>3. QED BY <2>1, <2>2, Zenon
  <1>4. LiveIn(T) = LiveIn(S)
    BY DEF LiveIn
  <1>5. QED BY <1>3, <1>4

-----------------------------------------------------------------------------
\* Who drags, read from the bottom of the stack.
DraggerOf(st) == IF Drags(st) THEN Root(st).gen ELSE 0

DraggerIn(st) == IF \E i \in DOMAIN st : st[i].op = "DRAG"
                 THEN st[CHOOSE i \in DOMAIN st : st[i].op = "DRAG"].gen ELSE 0

\* Only the oldest frame drags.
LEMMA DraggerFacts ==
    ASSUME NEW st \in Seq(Frames), \A i \in 1..Len(st) : i < Len(st) => st[i].op # "DRAG"
    PROVE  DraggerIn(st) = DraggerOf(st)
  <1>1. DOMAIN st = 1..Len(st) /\ Len(st) \in Nat /\ (st = <<>> <=> Len(st) = 0)
    BY LenProperties, EmptySeq
  <1>2. \A i \in DOMAIN st : st[i].op = "DRAG" => i = Len(st)
    <2>1. \A n \in Nat : \A m \in 1..n : ~(m < n) => m = n
      OBVIOUS
    <2>2. QED BY <1>1, <2>1
  <1>3. CASE Drags(st)
    <2>1. Len(st) \in DOMAIN st /\ st[Len(st)].op = "DRAG"
      BY <1>1, <1>3 DEF Drags, Root
    <2>2. (CHOOSE i \in DOMAIN st : st[i].op = "DRAG") = Len(st)
      BY <1>2, <2>1
    <2>3. QED BY <1>3, <2>1, <2>2 DEF DraggerIn, DraggerOf, Root
  <1>4. CASE ~Drags(st)
    <2>1. ~\E i \in DOMAIN st : st[i].op = "DRAG"
      BY <1>1, <1>2, <1>4 DEF Drags, Root
    <2>2. QED BY <1>4, <2>1 DEF DraggerIn, DraggerOf
  <1>5. QED BY <1>3, <1>4

\* What is pushed on a wait does not drag.
LEMMA PushDragger ==
    ASSUME NEW st \in Seq(Frames), NEW f \in Frames, NEW new, Pushed(new, f, st),
           st # <<>> \/ f.op # "DRAG"
    PROVE  DraggerOf(new) = DraggerOf(st)
  <1>1. Len(st) \in Nat /\ (st = <<>> <=> Len(st) = 0)
    BY LenProperties, EmptySeq
  <1>2. /\ Len(new) = Len(st) + 1 /\ new # <<>> /\ new[1] = f
        /\ \A i \in 1..Len(st) : new[i + 1] = st[i]
    BY DEF Pushed
  <1>3. CASE st = <<>>
    BY <1>1, <1>2, <1>3 DEF DraggerOf, Drags, Root
  <1>4. CASE st # <<>>
    <2>1. Len(st) \in 1..Len(st)
      BY <1>1, <1>4
    <2>2. Root(new) = Root(st)
      BY <1>2, <2>1 DEF Root
    <2>3. QED BY <1>2, <1>4, <2>2 DEF DraggerOf, Drags
  <1>5. QED BY <1>3, <1>4

\* The refinement mapping, on both sides of a step.
Mapped ==
    /\ Distinct(sess) /\ Distinct(sess')
    /\ LiveApps = LiveIn(sess) /\ LiveApps' = LiveIn(sess')
    /\ DepthOf = DepthIn(sess) /\ DepthOf' = DepthIn(sess')
    /\ Dragger = DraggerOf(stack) /\ Dragger' = DraggerOf(stack')

\* Both ends of a step are mapped as said above.
LEMMA StepIsMapped ==
    ASSUME Core(stack), Core(stack)' PROVE Mapped
  <1>1. Distinct(sess) /\ Distinct(sess')
    BY DEF Core, Typed, Consistent, Distinct
  <1>2. LiveApps = LiveIn(sess) /\ LiveApps' = LiveIn(sess')
    BY DEF LiveApps, LiveIn
  <1>3. DepthOf = DepthIn(sess) /\ DepthOf' = DepthIn(sess')
    BY DEF DepthOf, DepthIn
  <1>4. Dragger = DraggerIn(stack) /\ Dragger' = DraggerIn(stack')
    BY DEF Dragger, DraggerIn
  <1>5. stack \in Seq(Frames) /\ \A i \in 1..Len(stack) : i < Len(stack) => stack[i].op # "DRAG"
    BY DEF Core, Typed, Shape, FrameFits, None
  <1>6. stack' \in Seq(Frames)
        /\ \A i \in 1..Len(stack') : i < Len(stack') => stack'[i].op # "DRAG"
    BY DEF Core, Typed, Shape, FrameFits, None
  <1>7. DraggerIn(stack) = DraggerOf(stack)
    BY <1>5, DraggerFacts
  <1>8. DraggerIn(stack') = DraggerOf(stack')
    BY <1>6, DraggerFacts
  <1>9. QED BY <1>1, <1>2, <1>3, <1>4, <1>7, <1>8 DEF Mapped

LockStep == Lock!Next \/ UNCHANGED <<LiveApps, DepthOf, updateDepth, Dragger>>

\* A step that changes no application, no count and no drag.
LEMMA LockStutters ==
    ASSUME Mapped, UNCHANGED updateDepth, DraggerOf(stack') = DraggerOf(stack),
           \A t \in Slots : \/ /\ sess'[t].gen = sess[t].gen /\ sess'[t].inited = sess[t].inited
                               /\ sess'[t].depth = sess[t].depth
                            \/ /\ ~sess[t].inited /\ ~sess'[t].inited
                               /\ sess[t].depth = 0 /\ sess'[t].depth = 0
    PROVE  LockStep
  <1>1. DepthIn(sess') = DepthIn(sess) /\ LiveIn(sess') = LiveIn(sess)
    BY AppsSame DEF Mapped
  <1>2. QED BY <1>1 DEF LockStep, Mapped

\* An application leaves: its session is not the one that drags.
LEMMA LockLeave ==
    ASSUME Mapped, Core(stack), NEW s \in Slots, Connected(s), ~IsRoot(stack, s),
           \A t \in Slots \ {s} : sess'[t] = sess[t],
           sess'[s].gen \in {0, sess[s].gen}, ~sess'[s].inited, sess'[s].depth = 0,
           updateDepth' = (IF updateDepth > sess[s].depth
                           THEN updateDepth - sess[s].depth ELSE 0),
           DraggerOf(stack') = DraggerOf(stack)
    PROVE  LockStep
  <1> DEFINE a == sess[s].gen
  <1>1. a # 0 /\ a \in 1..MaxGeneration /\ DepthOf[a] = sess[s].depth
    BY DepthFacts DEF Mapped, Connected
  <1>2. /\ DepthOf' = [DepthOf EXCEPT ![a] = 0]
        /\ LiveApps' = LiveApps \ {a}
        /\ a \in LiveApps <=> sess[s].inited
    <2>1. CASE sess'[s].gen = 0
      BY <1>1, <2>1, AppLeaves DEF Mapped
    <2>2. CASE sess'[s].gen = a
      BY <1>1, <2>2, AppChanges DEF Mapped
    <2>3. QED BY <2>1, <2>2
  <1>3. Dragger # a /\ Dragger' = Dragger
    <2>1. Drags(stack) => /\ Root(stack).kind = "request" /\ Root(stack).slot \in Slots \ {s}
                          /\ sess[Root(stack).slot].gen = Root(stack).gen
      BY LenProperties, EmptySeq, GemdAssumption
         DEF Core, Typed, Shape, Hooked, FrameFits, Root, Drags, IsRoot, None
    <2>2. QED BY <1>1, <2>1 DEF Mapped, DraggerOf, Distinct
  <1>4. CASE sess[s].inited
    <2>1. updateDepth' = Lock!Unwound(DepthOf[a])
      BY <1>1 DEF Lock!Unwound
    <2>2. Lock!Leave(a)
      BY <1>2, <1>3, <1>4, <2>1 DEF Lock!Leave
    <2>3. QED BY <1>1, <2>2 DEF LockStep, Lock!Next
  <1>5. CASE ~sess[s].inited
    <2>1. sess[s].depth = 0 /\ updateDepth \in Nat
      BY <1>5 DEF Core, Consistent, Typed
    <2>2. updateDepth' = updateDepth
      BY <2>1
    <2>3. LiveApps' = LiveApps
      BY <1>2, <1>5
    <2>4. DepthOf' = DepthOf
      <3>1. DepthOf \in [1..MaxGeneration -> Nat] /\ DepthOf[a] = 0
        BY <1>1, <2>1, DepthFacts DEF Mapped
      <3>2. QED BY <1>2, <3>1
    <2>5. QED BY <1>3, <2>2, <2>3, <2>4 DEF LockStep
  <1>6. QED BY <1>4, <1>5

\* APPL_INIT: only a free lock lets an application in.
LEMMA LockInit ==
    ASSUME Mapped, Core(stack), NEW s \in Slots, Connected(s), ~IsRoot(stack, s),
           \A t \in Slots \ {s} : sess'[t] = sess[t],
           sess'[s].gen = sess[s].gen, sess'[s].inited, sess'[s].depth = sess[s].depth,
           updateDepth = 0 \/ (sess[s].inited /\ sess[s].depth > 0),
           UNCHANGED updateDepth, DraggerOf(stack') = DraggerOf(stack)
    PROVE  LockStep
  <1> DEFINE a == sess[s].gen
  <1>1. a # 0 /\ a \in 1..MaxGeneration /\ DepthOf[a] = sess[s].depth
        /\ DepthOf \in [1..MaxGeneration -> Nat]
    BY DepthFacts DEF Mapped, Connected
  <1>2. /\ DepthOf' = [DepthOf EXCEPT ![a] = sess[s].depth]
        /\ LiveApps' = LiveApps \cup {a}
        /\ a \in LiveApps <=> sess[s].inited
    BY <1>1, AppChanges DEF Mapped
  <1>3. DepthOf' = DepthOf
    BY <1>1, <1>2
  <1>4. CASE sess[s].inited
    BY <1>2, <1>3, <1>4 DEF LockStep, Mapped
  <1>5. CASE ~sess[s].inited
    <2>1. updateDepth = 0
      BY <1>5
    <2>2. ~Drags(stack)
      BY <2>1, RunnerCounts
    <2>3. Dragger = 0 /\ Dragger' = Dragger
      BY <2>2 DEF Mapped, DraggerOf
    <2>4. Lock!ApplInit(a)
      BY <1>1, <1>2, <1>3, <1>5, <2>1, <2>3 DEF Lock!ApplInit, Lock!MayRun
    <2>5. QED BY <1>1, <2>4 DEF LockStep, Lock!Next
  <1>6. QED BY <1>4, <1>5

\* What whoever may run sees of the lock.
LEMMA LockRunner ==
    ASSUME Mapped, Core(stack), NEW s \in Slots, Connected(s), ~IsRoot(stack, s),
           updateDepth = 0 \/ sess[s].depth > 0, sess[s].inited
    PROVE  /\ sess[s].gen \in 1..MaxGeneration /\ sess[s].gen # 0
           /\ sess[s].gen \in LiveApps
           /\ DepthOf[sess[s].gen] = sess[s].depth
           /\ Lock!MayRun(sess[s].gen) /\ Dragger = 0
           /\ updateDepth = sess[s].depth /\ sess[s].depth \in 0..MaxDepth
           /\ DraggerOf(stack) = 0
  <1> DEFINE a == sess[s].gen
  <1>1. a # 0 /\ a \in 1..MaxGeneration /\ DepthOf[a] = sess[s].depth
    BY DepthFacts DEF Mapped, Connected
  <1>2. ~Drags(stack) /\ updateDepth = sess[s].depth
    BY RunnerCounts
  <1>3. Dragger = 0 /\ DraggerOf(stack) = 0
    BY <1>2 DEF Mapped, DraggerOf
  <1>4. a \in LiveApps
    BY DEF Mapped, LiveIn
  <1>5. Lock!MayRun(a)
    BY <1>1, <1>3, <1>4 DEF Lock!MayRun
  <1>6. sess[s].depth \in 0..MaxDepth
    BY SessionTypes DEF Core, Typed
  <1>7. QED BY <1>1, <1>2, <1>3, <1>4, <1>5, <1>6

\* BEG_UPDATE and END_UPDATE of an application that may run.
LEMMA LockCounts ==
    ASSUME Mapped, Core(stack), NEW s \in Slots, Connected(s), ~IsRoot(stack, s),
           updateDepth = 0 \/ sess[s].depth > 0, sess[s].inited,
           \A t \in Slots \ {s} : sess'[t] = sess[t],
           sess'[s].gen = sess[s].gen, sess'[s].inited,
           \/ /\ sess[s].depth < MaxDepth
              /\ updateDepth' = updateDepth + 1 /\ sess'[s].depth = sess[s].depth + 1
           \/ /\ sess[s].depth > 0
              /\ updateDepth' = updateDepth - 1 /\ sess'[s].depth = sess[s].depth - 1,
           DraggerOf(stack') = DraggerOf(stack)
    PROVE  LockStep
  <1> DEFINE a == sess[s].gen
  <1>1. /\ a \in 1..MaxGeneration /\ a # 0 /\ a \in LiveApps
        /\ DepthOf[a] = sess[s].depth /\ Lock!MayRun(a) /\ Dragger = 0
        /\ updateDepth = sess[s].depth /\ sess[s].depth \in 0..MaxDepth
    BY LockRunner
  <1>2. /\ DepthOf' = [DepthOf EXCEPT ![a] = sess'[s].depth]
        /\ LiveApps' = LiveApps \cup {a}
    BY <1>1, AppChanges DEF Mapped
  <1>3. LiveApps' = LiveApps /\ Dragger' = Dragger
    BY <1>1, <1>2 DEF Mapped
  <1>4. MaxDepth \in Nat
    BY GemdAssumption DEF GemdAssumption
  <1>5. CASE sess[s].depth < MaxDepth /\ updateDepth' = updateDepth + 1
             /\ sess'[s].depth = sess[s].depth + 1
    <2>1. /\ DepthOf[a] < MaxDepth /\ updateDepth < MaxDepth + 2
          /\ DepthOf[a] < MaxDepth + 2
      BY <1>1, <1>4, <1>5
    <2>2. DepthOf' = [DepthOf EXCEPT ![a] = DepthOf[a] + 1]
      BY <1>1, <1>2, <1>5
    <2>3. Lock!BegUpdate(a)
      BY <1>1, <1>3, <1>5, <2>1, <2>2 DEF Lock!BegUpdate
    <2>4. QED BY <1>1, <2>3 DEF LockStep, Lock!Next
  <1>6. CASE sess[s].depth > 0 /\ updateDepth' = updateDepth - 1
             /\ sess'[s].depth = sess[s].depth - 1
    <2>1. DepthOf[a] > 0 /\ updateDepth > 0
      BY <1>1, <1>6
    <2>2. DepthOf' = [DepthOf EXCEPT ![a] = DepthOf[a] - 1]
      BY <1>1, <1>2, <1>6
    <2>3. Lock!EndUpdate(a)
      BY <1>1, <1>3, <1>6, <2>1, <2>2 DEF Lock!EndUpdate
    <2>4. QED BY <1>1, <2>3 DEF LockStep, Lock!Next
  <1>7. QED BY <1>5, <1>6

\* graf_dragbox() takes the lock from inside its request.
LEMMA LockDrags ==
    ASSUME Mapped, Core(stack), NEW s \in Slots, Connected(s), ~IsRoot(stack, s),
           updateDepth = 0 \/ sess[s].depth > 0, sess[s].inited,
           \A t \in Slots : /\ sess'[t].gen = sess[t].gen /\ sess'[t].depth = sess[t].depth
                            /\ sess'[t].inited = sess[t].inited,
           updateDepth' = updateDepth + 1, DraggerOf(stack') = sess[s].gen
    PROVE  LockStep
  <1> DEFINE a == sess[s].gen
  <1>1. a \in 1..MaxGeneration /\ a \in LiveApps /\ Lock!MayRun(a) /\ Dragger = 0
    BY LockRunner
  <1>2. DepthOf' = DepthOf /\ LiveApps' = LiveApps
    BY AppsSame DEF Mapped
  <1>3. Dragger' = a
    BY DEF Mapped
  <1>4. Lock!DragBegin(a)
    BY <1>1, <1>2, <1>3 DEF Lock!DragBegin
  <1>5. QED BY <1>1, <1>4 DEF LockStep, Lock!Next

-----------------------------------------------------------------------------
\* The visit of a session, as the lock sees it.
LEMMA HandleLock ==
    ASSUME Core(stack), Mapped, NEW st, DraggerOf(st) = DraggerOf(stack),
           NEW s \in Slots, ~IsRoot(stack, s), NEW r \in Sessions, NEW serving,
           Visited(st, s, r, serving), HandleRequest(s, r, st, serving)
    PROVE  LockStep
  <1>1. /\ Connected(s) /\ Core(st) /\ st \in Seq(Frames) /\ sess \in [Slots -> Sessions]
        /\ r.gen = sess[s].gen /\ r.inited = sess[s].inited /\ r.depth = sess[s].depth
        /\ (~serving => st = <<>>)
    BY DEF Visited, Core, Typed
  <1>2. ASSUME NEW i \in Sessions, Replied(s, i, st)
        PROVE  /\ \A t \in Slots \ {s} : sess'[t] = sess[t]
               /\ sess'[s].gen = i.gen /\ sess'[s].inited = i.inited
               /\ sess'[s].depth = i.depth
               /\ DraggerOf(stack') = DraggerOf(stack)
    <2> DEFINE q == Reply(i, i.gen)
    <2>1. q.gen = i.gen /\ q.inited = i.inited /\ q.depth = i.depth
      BY OwnReply
    <2>2. sess' = [sess EXCEPT ![s] = q] /\ stack' = st
      BY <1>2 DEF Replied
    <2> HIDE DEF q
    <2>3. sess'[s] = q /\ \A t \in Slots \ {s} : sess'[t] = sess[t]
      BY <1>1, <2>2
    <2>4. QED BY <2>1, <2>2, <2>3
  <1>3. CASE UNCHANGED updateDepth /\ Replied(s, r, st)
    <2>1. \A t \in Slots : /\ sess'[t].gen = sess[t].gen /\ sess'[t].inited = sess[t].inited
                           /\ sess'[t].depth = sess[t].depth
      BY <1>1, <1>2, <1>3
    <2>2. DraggerOf(stack') = DraggerOf(stack)
      BY <1>2, <1>3
    <2>3. QED BY <1>3, <2>1, <2>2, LockStutters
  <1>4. CASE ~Runs(r, serving)
    <2>1. sess' = [sess EXCEPT ![s] = r] /\ stack' = st /\ UNCHANGED updateDepth
      BY <1>4 DEF HandleRequest
    <2>2. \A t \in Slots : /\ sess'[t].gen = sess[t].gen /\ sess'[t].inited = sess[t].inited
                           /\ sess'[t].depth = sess[t].depth
      BY <1>1, <2>1
    <2>3. QED BY <2>1, <2>2, LockStutters
  <1>5. ASSUME Runs(r, serving), sess' = [sess EXCEPT ![s] = [r EXCEPT !.handling = TRUE]],
               stack' = Push(RequestFrame(s, r.gen, r.op), st), r.op \in Waiting,
               serving => r.op # "DRAG", r.inited,
               updateDepth' = IF r.op = "DRAG" THEN updateDepth + 1 ELSE updateDepth
        PROVE  LockStep
    <2> DEFINE q == [r EXCEPT !.handling = TRUE]
               f == RequestFrame(s, r.gen, r.op)
    <2>1. q.gen = r.gen /\ q.inited = r.inited /\ q.depth = r.depth
      BY WaitKeeps
    <2>2. f \in Frames /\ f.op = r.op /\ f.gen = r.gen
      <3>1. r.gen \in 0..MaxGeneration
        BY DEF Sessions
      <3>2. QED BY <1>5, <3>1, FrameTypes
    <2>3. sess' = [sess EXCEPT ![s] = q] /\ stack' = Push(f, st)
      BY <1>5
    <2> HIDE DEF q, f
    <2>4. Pushed(stack', f, st)
      BY <1>1, <2>2, <2>3, PushedStack
    <2>5. \A t \in Slots : /\ sess'[t].gen = sess[t].gen /\ sess'[t].inited = sess[t].inited
                           /\ sess'[t].depth = sess[t].depth
      BY <1>1, <2>1, <2>3
    <2>6. CASE r.op # "DRAG"
      <3>1. DraggerOf(stack') = DraggerOf(stack) /\ UNCHANGED updateDepth
        BY <1>1, <1>5, <2>2, <2>4, <2>6, PushDragger
      <3>2. QED BY <2>5, <3>1, LockStutters
    <2>7. CASE r.op = "DRAG"
      <3>1. st = <<>>
        <4>1. ~serving
          BY <1>5, <2>7
        <4>2. QED BY <1>1, <4>1
      <3>2. Len(stack') = 1 /\ stack' # <<>> /\ stack'[1] = f
        BY <2>4, <3>1, EmptySeq DEF Pushed
      <3>3. DraggerOf(stack') = sess[s].gen
        BY <1>1, <2>2, <2>7, <3>2 DEF DraggerOf, Drags, Root
      <3>4. updateDepth' = updateDepth + 1 /\ sess[s].inited
            /\ (updateDepth = 0 \/ sess[s].depth > 0)
        BY <1>1, <1>5, <2>7 DEF Runs, MayRun
      <3>5. QED BY <1>1, <2>5, <3>3, <3>4, LockDrags
    <2>8. QED BY <2>6, <2>7
  <1>6. CASE Runs(r, serving)
    <2>1. MayRun(r) /\ Dispatch(s, r, st)
      BY <1>6 DEF Runs, HandleRequest
    <2>2. updateDepth = 0 \/ (sess[s].inited /\ sess[s].depth > 0)
      BY <1>1, <2>1 DEF MayRun
    <2>3. CASE Answer(s, r, st)
      BY <1>3, <2>3 DEF Answer
    <2>4. CASE ApplInit(s, r, st)
      <3> DEFINE i == [r EXCEPT !.inited = TRUE, !.late = @ \ {"init"}]
      <3>1. i \in Sessions /\ i.gen = r.gen /\ i.inited /\ i.depth = r.depth
        BY InitKeeps
      <3>2. Replied(s, i, st) /\ UNCHANGED updateDepth
        BY <2>4 DEF ApplInit
      <3> HIDE DEF i
      <3>3. /\ \A t \in Slots \ {s} : sess'[t] = sess[t]
            /\ sess'[s].gen = sess[s].gen /\ sess'[s].inited
            /\ sess'[s].depth = sess[s].depth
            /\ DraggerOf(stack') = DraggerOf(stack)
        BY <1>1, <1>2, <3>1, <3>2
      <3>4. QED BY <1>1, <2>2, <3>2, <3>3, LockInit
    <2>5. CASE ApplExit(s, r, st)
      <3> DEFINE i == [r EXCEPT !.inited = FALSE, !.depth = 0, !.menu = FALSE,
                                !.late = @ \ {"lock", "init"}]
      <3>1. i \in Sessions /\ i.gen = r.gen /\ ~i.inited /\ i.depth = 0
        BY ExitKeeps
      <3>2. Replied(s, i, st) /\ CleanupApp(s)
        BY <2>5 DEF ApplExit
      <3> HIDE DEF i
      <3>3. /\ \A t \in Slots \ {s} : sess'[t] = sess[t]
            /\ sess'[s].gen = sess[s].gen /\ ~sess'[s].inited /\ sess'[s].depth = 0
            /\ DraggerOf(stack') = DraggerOf(stack)
        BY <1>1, <1>2, <3>1, <3>2
      <3>4. updateDepth' = (IF updateDepth > sess[s].depth
                            THEN updateDepth - sess[s].depth ELSE 0)
        BY <3>2 DEF CleanupApp
      <3>5. QED BY <1>1, <3>3, <3>4, LockLeave
    <2>6. CASE Authorized(r) /\ WindUpdate(s, r, st)
      <3>1. updateDepth = 0 \/ sess[s].depth > 0
        BY <2>2
      <3>2. CASE r.op = "BEG"
        <4> DEFINE i == [r EXCEPT !.depth = @ + 1]
        <4>1. r.inited /\ r.depth < MaxDepth
          BY <2>6, <3>2 DEF Authorized
        <4>2. i \in Sessions /\ i.gen = r.gen /\ i.inited = r.inited /\ i.depth = r.depth + 1
          BY <4>1, BegKeeps
        <4>3. Replied(s, i, st) /\ updateDepth' = updateDepth + 1
          BY <2>6, <3>2 DEF WindUpdate
        <4> HIDE DEF i
        <4>4. /\ \A t \in Slots \ {s} : sess'[t] = sess[t]
              /\ sess'[s].gen = sess[s].gen /\ sess'[s].inited /\ sess[s].inited
              /\ sess'[s].depth = sess[s].depth + 1 /\ sess[s].depth < MaxDepth
              /\ DraggerOf(stack') = DraggerOf(stack)
          BY <1>1, <1>2, <4>1, <4>2, <4>3
        <4>5. QED BY <1>1, <3>1, <4>3, <4>4, LockCounts
      <3>3. CASE r.op = "END"
        <4> DEFINE i == [r EXCEPT !.depth = @ - 1,
                                  !.late = IF r.depth = 1 THEN @ \ {"lock"} ELSE @]
        <4>1. r.inited /\ r.depth > 0
          BY <2>6, <3>3 DEF Authorized
        <4>2. i \in Sessions /\ i.gen = r.gen /\ i.inited = r.inited /\ i.depth = r.depth - 1
          BY <4>1, EndKeeps
        <4>3. Replied(s, i, st) /\ updateDepth' = updateDepth - 1
          BY <2>6, <3>3 DEF WindUpdate
        <4> HIDE DEF i
        <4>4. /\ \A t \in Slots \ {s} : sess'[t] = sess[t]
              /\ sess'[s].gen = sess[s].gen /\ sess'[s].inited /\ sess[s].inited
              /\ sess'[s].depth = sess[s].depth - 1 /\ sess[s].depth > 0
              /\ DraggerOf(stack') = DraggerOf(stack)
          BY <1>1, <1>2, <4>1, <4>2, <4>3
        <4>5. QED BY <1>1, <3>1, <4>3, <4>4, LockCounts
      <3>4. QED BY <2>6, <3>2, <3>3 DEF WindUpdate
    <2>7. CASE FormDial(s, r, st)
      BY <1>3, <2>7 DEF FormDial
    <2>8. CASE MenuBar(s, r, st)
      <3> DEFINE i == [r EXCEPT !.menu = TRUE]
      <3>1. i \in Sessions /\ i.gen = r.gen /\ i.inited = r.inited /\ i.depth = r.depth
        BY MenuKeeps
      <3>2. Replied(s, i, st) /\ UNCHANGED updateDepth
        BY <2>8 DEF MenuBar
      <3> HIDE DEF i
      <3>3. \A t \in Slots : /\ sess'[t].gen = sess[t].gen
                             /\ sess'[t].inited = sess[t].inited
                             /\ sess'[t].depth = sess[t].depth
        BY <1>1, <1>2, <3>1, <3>2
      <3>4. DraggerOf(stack') = DraggerOf(stack)
        BY <1>2, <3>1, <3>2
      <3>5. QED BY <3>2, <3>3, <3>4, LockStutters
    <2>9. CASE Authorized(r) /\ EvntMulti(s, r, st)
      <3>1. r.op = "EVNT" /\ UNCHANGED updateDepth
        BY <2>9 DEF EvntMulti
      <3>2. r.inited /\ r.op \in Waiting
        BY <2>9, <3>1 DEF Authorized, Waiting
      <3>3. CASE hook /\ formOwner # 0
        BY <1>5, <1>6, <2>9, <3>1, <3>2, <3>3 DEF EvntMulti
      <3>4. CASE ~(hook /\ formOwner # 0)
        BY <1>3, <2>9, <3>1, <3>4 DEF EvntMulti
      <3>5. QED BY <3>3, <3>4
    <2>10. CASE Authorized(r) /\ OpenPanel(s, r, st)
      <3>1. r.op \in {"PANEL", "FORM", "DRAG", "LOCREM"}
        BY <2>10 DEF OpenPanel
      <3>2. r.inited /\ r.op \in Waiting /\ (serving => r.op # "DRAG")
        BY <1>6, <2>10, <3>1 DEF Authorized, Waiting, Runs, MayWait
      <3>3. /\ sess' = [sess EXCEPT ![s] = [r EXCEPT !.handling = TRUE]]
            /\ stack' = Push(RequestFrame(s, r.gen, r.op), st)
            /\ updateDepth' = IF r.op = "DRAG" THEN updateDepth + 1 ELSE updateDepth
        BY <2>10 DEF OpenPanel
      <3>4. QED BY <1>5, <1>6, <3>2, <3>3
    <2>11. QED BY <2>1, <2>3, <2>4, <2>5, <2>6, <2>7, <2>8, <2>9, <2>10 DEF Dispatch
  <1>7. QED BY <1>4, <1>6

-----------------------------------------------------------------------------
(* The steps that end a wait, open or close a connection, or move a frame.  *)

\* The reply that ends a wait is all that the applications see of it.
LEMMA EndKeepsApps ==
    ASSUME NEW st, Core(st), st # <<>>, FinishFrame(st), NEW t \in Slots
    PROVE  /\ sess'[t].gen = sess[t].gen /\ sess'[t].inited = sess[t].inited
           /\ sess'[t].depth = sess[t].depth
  <1> DEFINE f == Head(st)
  <1>1. /\ f.gen \in 0..MaxGeneration
        /\ f.kind = "request" => f.slot \in Slots
    BY FrameSlot
  <1>2. sess' = (IF f.kind = "request" /\ Connected(f.slot)
                 THEN [sess EXCEPT ![f.slot] = Ended(@, f.gen)] ELSE sess)
    BY DEF FinishFrame
  <1> HIDE DEF f
  <1>3. CASE f.kind = "request" /\ Connected(f.slot)
    <2> DEFINE r == Ended(sess[f.slot], f.gen)
    <2>1. f.slot \in Slots /\ sess[f.slot] \in Sessions /\ sess \in [Slots -> Sessions]
      BY <1>1, <1>3, SessionTypes DEF Core, Typed
    <2>2. /\ r.gen = sess[f.slot].gen /\ r.inited = sess[f.slot].inited
          /\ r.depth = sess[f.slot].depth
      BY <1>1, <2>1, EndedKeeps
    <2>3. sess' = [sess EXCEPT ![f.slot] = r]
      BY <1>2, <1>3
    <2> HIDE DEF r
    <2>4. QED BY <2>1, <2>2, <2>3
  <1>4. CASE ~(f.kind = "request" /\ Connected(f.slot))
    BY <1>2, <1>4
  <1>5. QED BY <1>3, <1>4

\* The end of a drag gives the lock back; the end of any other wait is not seen.
LEMMA LockFinish ==
    ASSUME Mapped, NEW st, Core(st), st # <<>>, FinishFrame(st),
           DraggerOf(st) = DraggerOf(stack)
    PROVE  LockStep
  <1> DEFINE f == Head(st)
  <1>1. \A t \in Slots : /\ sess'[t].gen = sess[t].gen /\ sess'[t].inited = sess[t].inited
                         /\ sess'[t].depth = sess[t].depth
    BY EndKeepsApps
  <1>2. /\ st \in Seq(Frames) /\ f = st[1] /\ Len(st) \in Nat \ {0}
        /\ Tail(st) = <<>> <=> Len(st) = 1
    BY TailProps DEF Core, Typed
  <1>3. /\ stack' = Tail(st)
        /\ updateDepth' = (IF f.op = "DRAG" /\ updateDepth > 0 THEN updateDepth - 1
                           ELSE updateDepth)
    BY DEF FinishFrame
  <1>4. f.kind = "request" => f.gen # 0
    BY FrameSlot
  <1>5. f.kind # "request" => f.op = None
    BY FrameSlot
  <1> HIDE DEF f
  <1>6. CASE Len(st) = 1
    <2>1. f = Root(st) /\ stack' = <<>>
      BY <1>2, <1>3, <1>6 DEF Root
    <2>2. DraggerOf(stack') = 0 /\ (Drags(st) <=> f.op = "DRAG")
      BY <2>1 DEF DraggerOf, Drags
    <2>3. CASE f.op = "DRAG"
      <3>1. Dragger = f.gen /\ f.gen # 0 /\ Dragger' = 0
        BY <1>4, <1>5, <2>1, <2>2, <2>3 DEF Mapped, DraggerOf, None
      <3>2. updateDepth > 0
        <4>1. \A s \in Slots : sess[s].depth \in Nat
          BY SessionTypes DEF Core, Typed
        <4>2. Tracked(st) = 1
          BY <2>2, <2>3 DEF Tracked
        <4>3. QED BY <4>1, <4>2 DEF Core, Counted
      <3>3. updateDepth' = updateDepth - 1
        BY <1>3, <2>3, <3>2
      <3>4. LiveApps' = LiveApps /\ DepthOf' = DepthOf
        BY <1>1, AppsSame DEF Mapped
      <3>5. Lock!DragEnd
        BY <3>1, <3>2, <3>3, <3>4 DEF Lock!DragEnd
      <3>6. QED BY <3>5 DEF LockStep, Lock!Next
    <2>4. CASE f.op # "DRAG"
      <3>1. DraggerOf(stack') = DraggerOf(stack) /\ UNCHANGED updateDepth
        BY <1>3, <2>2, <2>4 DEF DraggerOf
      <3>2. QED BY <1>1, <3>1, LockStutters
    <2>5. QED BY <2>3, <2>4
  <1>7. CASE Len(st) > 1
    <2>1. Root(Tail(st)) = Root(st) /\ Tail(st) # <<>> /\ f.op # "DRAG"
      BY <1>7, PopCore DEF f
    <2>2. DraggerOf(stack') = DraggerOf(stack) /\ UNCHANGED updateDepth
      BY <1>3, <2>1 DEF DraggerOf, Drags
    <2>3. QED BY <1>1, <2>2, LockStutters
  <1>8. \A n \in Nat \ {0} : n = 1 \/ n > 1
    OBVIOUS
  <1>9. QED BY <1>2, <1>6, <1>7, <1>8

\* A connection that opens is no application yet.
LEMMA LockAccept ==
    ASSUME Mapped, Core(stack), TryAccept, UNCHANGED updateDepth,
           DraggerOf(stack') = DraggerOf(stack)
    PROVE  LockStep
  <1>1. CASE UNCHANGED <<sess, nextGen>>
    BY <1>1, LockStutters
  <1>2. CASE Accept
    <2>1. PICK s \in Slots : /\ IsFirstFree(s)
                             /\ sess' = [sess EXCEPT ![s] = [Free EXCEPT !.gen = nextGen + 1]]
      BY <1>2 DEF Accept
    <2> DEFINE r == [Free EXCEPT !.gen = nextGen + 1]
    <2>2. ~r.inited /\ r.depth = 0
      BY DEF Free
    <2>3. ~sess[s].inited /\ sess[s].depth = 0
      BY <2>1 DEF IsFirstFree, Connected, Core, Consistent
    <2> HIDE DEF r
    <2>4. sess'[s] = r /\ \A t \in Slots \ {s} : sess'[t] = sess[t]
      BY <2>1 DEF Core, Typed, r
    <2>5. QED BY <2>2, <2>3, <2>4, LockStutters
  <1>3. QED BY <1>1, <1>2 DEF TryAccept

\* Whoever is disconnected has left the lock.
LEMMA LockClose ==
    ASSUME Mapped, Core(stack), NEW s \in Slots, Connected(s), ~IsRoot(stack, s),
           CloseSession(s), DraggerOf(stack') = DraggerOf(stack)
    PROVE  LockStep
  <1>1. /\ \A t \in Slots \ {s} : sess'[t] = sess[t]
        /\ sess'[s].gen = 0 /\ ~sess'[s].inited /\ sess'[s].depth = 0
    BY DEF Core, Typed, CloseSession, Free
  <1>2. updateDepth' = (IF updateDepth > sess[s].depth
                        THEN updateDepth - sess[s].depth ELSE 0)
    BY DEF CloseSession, CleanupApp
  <1>3. QED BY <1>1, <1>2, LockLeave

\* A frame that notes its progress drags, or not, as before.
LEMMA ReplaceDragger ==
    ASSUME NEW st \in Seq(Frames), st # <<>>, NEW f \in Frames,
           f.op = Head(st).op, f.gen = Head(st).gen
    PROVE  DraggerOf(Push(f, Tail(st))) = DraggerOf(st)
  <1> DEFINE new == Push(f, Tail(st))
  <1>1. /\ Head(st) = st[1] /\ Len(st) \in Nat \ {0}
        /\ Tail(st) \in Seq(Frames) /\ Len(Tail(st)) = Len(st) - 1
        /\ \A i \in 1..Len(Tail(st)) : Tail(st)[i] = st[i + 1]
    BY TailProps
  <1>2. Pushed(new, f, Tail(st))
    BY <1>1, PushedStack
  <1> HIDE DEF new
  <1>3. /\ Len(new) = Len(st) /\ new # <<>> /\ new[1] = f
        /\ \A i \in 1..Len(Tail(st)) : new[i + 1] = Tail(st)[i]
    BY <1>1, <1>2 DEF Pushed
  <1>4. Root(new).op = Root(st).op /\ Root(new).gen = Root(st).gen
    <2>1. CASE Len(st) = 1
      BY <1>1, <1>3, <2>1 DEF Root
    <2>2. CASE Len(st) # 1
      <3>1. Len(st) - 1 \in 1..Len(Tail(st)) /\ (Len(st) - 1) + 1 = Len(st)
        BY <1>1, <2>2
      <3>2. QED BY <1>1, <1>3, <3>1 DEF Root
    <2>3. QED BY <2>1, <2>2
  <1>5. DraggerOf(new) = DraggerOf(st)
    BY <1>3, <1>4 DEF DraggerOf, Drags
  <1>6. QED BY <1>5 DEF new

-----------------------------------------------------------------------------
(* The steps of the server, as the lock sees them.                          *)

\* A panel calls its hook.
LEMMA CallHookLock ==
    ASSUME Core(stack), Mapped, CallHook PROVE LockStep
  <1>1. stack # <<>> /\ stack \in Seq(Frames)
    BY DEF CallHook, AtPanel, Core, Typed
  <1>2. CASE Cancelled
    BY <1>1, <1>2, LockFinish DEF CallHook
  <1>3. CASE ~Cancelled
    <2> DEFINE f == OtherFrame("service", 1)
    <2>1. TryAccept /\ UNCHANGED updateDepth /\ stack' = Push(f, stack)
      BY <1>3 DEF CallHook
    <2>2. f \in Frames /\ f.op = None
      BY ServiceFrames
    <2> HIDE DEF f
    <2>3. Pushed(stack', f, stack)
      BY <1>1, <2>1, <2>2, PushedStack
    <2>4. DraggerOf(stack') = DraggerOf(stack)
      BY <1>1, <2>2, <2>3, PushDragger
    <2>5. QED BY <2>1, <2>4, LockAccept
  <1>4. QED BY <1>2, <1>3

\* The hook visits one session.
LEMMA ServiceVisitLock ==
    ASSUME Core(stack), Mapped, ServiceVisit PROVE LockStep
  <1> DEFINE s == Top.next
             event == Poll(sess[s])
             r == Transfer(sess[s], event)
  <1>1. InService /\ s \in Slots /\ stack # <<>> /\ stack \in Seq(Frames)
    BY DEF ServiceVisit, InService, Core, Typed
  <1>2. Core(Onward) /\ Onward # <<>> /\ hook
    BY <1>1, OnwardCore
  <1>3. DraggerOf(Onward) = DraggerOf(stack)
    <2> DEFINE f == [Top EXCEPT !.next = @ + 1]
    <2>1. Head(stack) \in Frames
      BY <1>1, FrameSlot
    <2>2. Head(stack).next + 1 \in 0..(NumSlots + 1)
      BY <1>1, GemdAssumption DEF Top, Slots, GemdAssumption
    <2>3. f \in Frames /\ f.op = Head(stack).op /\ f.gen = Head(stack).gen
      BY <2>1, <2>2 DEF Frames, Top
    <2>4. Onward = Push(f, Tail(stack))
      BY DEF Onward
    <2> HIDE DEF f
    <2>5. QED BY <1>1, <2>3, <2>4, ReplaceDragger
  <1>4. CASE stack' = Onward /\ UNCHANGED <<sess, updateDepth>>
    BY <1>3, <1>4, LockStutters
  <1>5. CASE FinishFrame(Tail(stack))
    <2>1. Core(Tail(stack)) /\ Tail(stack) # <<>>
      BY <1>1, ServiceTail
    <2>2. Root(Tail(stack)) = Root(stack)
      BY <1>1, ServiceNotRoot, PopCore DEF InService, Top
    <2>3. DraggerOf(Tail(stack)) = DraggerOf(stack)
      BY <1>1, <2>1, <2>2 DEF DraggerOf, Drags
    <2>4. QED BY <1>5, <2>1, <2>3, LockFinish
  <1>6. CASE Connected(s) /\ ~IsRequester(s) /\ CloseSession(s) /\ stack' = Onward
    <2>1. ~IsRoot(stack, s)
      BY <1>1, <1>2, <1>6, RootIsModal DEF IsRequester
    <2>2. QED BY <1>1, <1>3, <1>6, <2>1, LockClose
  <1>7. CASE Connected(s) /\ ~IsRequester(s) /\ HandleRequest(s, r, Onward, TRUE)
    <2>1. s # modal /\ ~IsRoot(stack, s) /\ ~IsRoot(Onward, s)
      BY <1>1, <1>2, <1>7, RootIsModal DEF IsRequester
    <2>2. r \in Sessions /\ Visited(Onward, s, r, TRUE)
      BY <1>1, <1>2, <1>7, <2>1, VisitedAfterIO
    <2>3. HandleRequest(s, r, Onward, TRUE)
      BY <1>7
    <2> HIDE DEF r, s
    <2>4. QED BY <1>1, <1>3, <2>1, <2>2, <2>3, HandleLock
  <1>8. \/ stack' = Onward /\ UNCHANGED <<sess, updateDepth>>
        \/ FinishFrame(Tail(stack))
        \/ Connected(s) /\ ~IsRequester(s) /\ CloseSession(s) /\ stack' = Onward
        \/ Connected(s) /\ ~IsRequester(s) /\ HandleRequest(s, r, Onward, TRUE)
    BY DEF ServiceVisit
  <1>9. QED BY <1>4, <1>5, <1>6, <1>7, <1>8

\* The hook returns.
LEMMA ServiceReturnLock ==
    ASSUME Core(stack), Mapped, ServiceReturn PROVE LockStep
  <1> DEFINE st == Tail(stack)
             f == [Head(st) EXCEPT !.polled = TRUE]
  <1>1. InService /\ stack # <<>>
    BY DEF ServiceReturn, InService
  <1>2. Core(st) /\ st # <<>>
    BY <1>1, ServiceTail
  <1>3. Root(st) = Root(stack)
    BY <1>1, ServiceNotRoot, PopCore DEF InService, Top
  <1>4. stack' = Push(f, Tail(st)) /\ UNCHANGED <<sess, updateDepth>>
    BY DEF ServiceReturn
  <1>5. DraggerOf(st) = DraggerOf(stack)
    BY <1>1, <1>2, <1>3 DEF DraggerOf, Drags
  <1> HIDE DEF st
  <1>6. f \in Frames /\ f.op = Head(st).op /\ f.gen = Head(st).gen
    BY <1>2, FrameSlot DEF Frames
  <1> HIDE DEF f
  <1>7. DraggerOf(stack') = DraggerOf(st)
    BY <1>2, <1>4, <1>6, ReplaceDragger DEF Core, Typed
  <1>8. QED BY <1>4, <1>5, <1>7, LockStutters

\* A command opens.
LEMMA UserCommandsLock ==
    ASSUME Core(stack), Mapped, UserCommands PROVE LockStep
  <1> DEFINE f == [Top EXCEPT !.polled = FALSE]
             st == Push(f, Tail(stack))
             c == OtherFrame("command", 0)
  <1>1. stack # <<>> /\ stack \in Seq(Frames)
    BY DEF UserCommands, AtPanel, Core, Typed
  <1>2. stack' = Push(c, st) /\ UNCHANGED <<sess, updateDepth>>
    BY DEF UserCommands
  <1>3. /\ f \in Frames /\ f.kind = Head(stack).kind /\ f.slot = Head(stack).slot
        /\ f.gen = Head(stack).gen /\ f.op = Head(stack).op
    BY <1>1, FrameSlot DEF Frames, Top
  <1>4. c \in Frames /\ c.op = None
    BY ServiceFrames
  <1> HIDE DEF f, c
  <1>5. Core(st) /\ st # <<>> /\ DraggerOf(st) = DraggerOf(stack)
    BY <1>1, <1>3, ReplaceTop, ReplaceDragger
  <1> HIDE DEF st
  <1>6. Pushed(stack', c, st) /\ st \in Seq(Frames)
    BY <1>2, <1>4, <1>5, PushedStack DEF Core, Typed
  <1>7. DraggerOf(stack') = DraggerOf(st)
    BY <1>4, <1>5, <1>6, PushDragger
  <1>8. QED BY <1>2, <1>5, <1>7, LockStutters

\* The main loop visits one session.
LEMMA MainVisitLock ==
    ASSUME Core(stack), Mapped, MainVisit PROVE LockStep
  <1> DEFINE r == Transfer(sess[turn], snapshot[turn].event)
  <1>1. stack = <<>> /\ turn \in Slots
    BY DEF MainVisit
  <1>2. ~IsRoot(stack, turn)
    BY <1>1 DEF IsRoot
  <1>3. CASE UNCHANGED <<sess, updateDepth, stack>>
    BY <1>3, LockStutters
  <1>4. CASE Connected(turn) /\ CloseSession(turn) /\ UNCHANGED stack
    BY <1>1, <1>2, <1>4, LockClose
  <1>5. CASE Connected(turn) /\ HandleRequest(turn, r, stack, FALSE)
    <2>1. r \in Sessions /\ Visited(stack, turn, r, FALSE)
      BY <1>1, <1>2, <1>5, VisitedAfterIO
    <2> HIDE DEF r
    <2>2. QED BY <1>1, <1>2, <1>5, <2>1, HandleLock
  <1>6. \/ UNCHANGED <<sess, updateDepth, stack>>
        \/ Connected(turn) /\ CloseSession(turn) /\ UNCHANGED stack
        \/ Connected(turn) /\ HandleRequest(turn, r, stack, FALSE)
    BY DEF MainVisit, Polled
  <1>7. QED BY <1>3, <1>4, <1>5, <1>6

\* A panel of the server's own opens.
LEMMA PumpEventLock ==
    ASSUME Mapped, PumpEvent PROVE LockStep
  <1> DEFINE f == OtherFrame("system", 0)
  <1>1. stack = <<>> /\ stack' = <<f>> /\ UNCHANGED <<sess, updateDepth>>
    BY DEF PumpEvent
  <1>2. f.op # "DRAG"
    BY DEF OtherFrame, None
  <1> HIDE DEF f
  <1>3. Root(stack') = f
    BY <1>1 DEF Root
  <1>4. DraggerOf(stack') = 0 /\ DraggerOf(stack) = 0
    BY <1>1, <1>2, <1>3 DEF DraggerOf, Drags
  <1>5. QED BY <1>1, <1>4, LockStutters

\* A client or the clock moves.
LEMMA EnvironmentLock ==
    ASSUME Core(stack), Mapped, NEW s \in Slots,
           Send(s) \/ Stall(s) \/ Gone(s) \/ \E kind \in {"io", "init", "lock"} : Expire(s, kind)
    PROVE  LockStep
  <1>1. sess \in [Slots -> Sessions] /\ sess[s] \in Sessions
    BY SessionTypes DEF Core, Typed
  <1>2. UNCHANGED <<stack, updateDepth>>
    BY DEF Send, Stall, Gone, Expire, OnlySessions
  <1>3. /\ sess'[s].gen = sess[s].gen /\ sess'[s].inited = sess[s].inited
        /\ sess'[s].depth = sess[s].depth
        /\ \A t \in Slots \ {s} : sess'[t] = sess[t]
    <2>1. CASE Send(s)
      <3>1. PICK o \in Ops : sess' = [sess EXCEPT ![s].peer = "waiting", ![s].wire = o]
        BY <2>1 DEF Send
      <3> DEFINE r == [sess[s] EXCEPT !.peer = "waiting", !.wire = o]
      <3>2. sess' = [sess EXCEPT ![s] = r]
        BY <1>1, <3>1
      <3>3. r.gen = sess[s].gen /\ r.inited = sess[s].inited /\ r.depth = sess[s].depth
        BY <1>1 DEF Sessions
      <3> HIDE DEF r
      <3>4. QED BY <1>1, <3>2, <3>3
    <2>2. CASE Stall(s)
      BY <1>1, <2>2 DEF Stall, Sessions
    <2>3. CASE Gone(s)
      BY <1>1, <2>3 DEF Gone, Sessions
    <2>4. CASE \E kind \in {"io", "init", "lock"} : Expire(s, kind)
      BY <1>1, <2>4 DEF Expire, Sessions
    <2>5. QED BY <2>1, <2>2, <2>3, <2>4
  <1>4. \A t \in Slots : /\ sess'[t].gen = sess[t].gen /\ sess'[t].inited = sess[t].inited
                         /\ sess'[t].depth = sess[t].depth
    BY <1>3
  <1>5. QED BY <1>2, <1>4, LockStutters

\* Every step of the server is a step of the lock, or a stutter.
LEMMA EveryLockStep ==
    ASSUME Inv, [Next]_vars PROVE LockStep
  <1>1. Core(stack) /\ (phase = "down" => stack = <<>>)
    BY DEF Inv, Loop
  <1>2. ASSUME UNCHANGED vars PROVE LockStep
    BY <1>2 DEF vars, LockStep, LiveApps, DepthOf, Dragger
  <1>3. ASSUME Next PROVE LockStep
    <2>1. Mapped
      BY <1>1, <1>3, CoreStep, StepIsMapped
    <2>2. CASE CallHook
      BY <1>1, <2>1, <2>2, CallHookLock
    <2>3. CASE ServiceVisit
      BY <1>1, <2>1, <2>3, ServiceVisitLock
    <2>4. CASE ServiceReturn
      BY <1>1, <2>1, <2>4, ServiceReturnLock
    <2>5. CASE PollSockets \/ PumpDone \/ Stop \/ Signal \/ Terminated
      <3>1. UNCHANGED <<sess, updateDepth, stack>>
        BY <2>5 DEF PollSockets, PumpDone, Stop, Signal, Terminated, vars
      <3>2. QED BY <2>1, <3>1, LockStutters
    <2>6. CASE MainVisit
      BY <1>1, <2>1, <2>6, MainVisitLock
    <2>7. CASE MainAccept
      <3>1. TryAccept /\ UNCHANGED <<updateDepth, stack>>
        BY <2>7 DEF MainAccept
      <3>2. QED BY <1>1, <2>1, <3>1, LockAccept
    <2>8. CASE ShutdownVisit
      <3>1. /\ turn \in Slots /\ stack = <<>> /\ UNCHANGED stack
            /\ IF Connected(turn) THEN CloseSession(turn)
               ELSE UNCHANGED <<sess, updateDepth, formOwner, desktop, modal, hook>>
        BY <1>1, <2>8 DEF ShutdownVisit
      <3>2. ~IsRoot(stack, turn)
        BY <3>1 DEF IsRoot
      <3>3. CASE Connected(turn)
        <4>1. CloseSession(turn)
          BY <3>1, <3>3
        <4>2. QED BY <1>1, <2>1, <3>1, <3>2, <3>3, <4>1, LockClose
      <3>4. CASE ~Connected(turn)
        BY <2>1, <3>1, <3>4, LockStutters
      <3>5. QED BY <3>3, <3>4
    <2>9. CASE EvntReturns \/ UserAnswers \/ UserConfirms
      <3>1. stack # <<>> /\ FinishFrame(stack)
        BY <2>9 DEF EvntReturns, UserAnswers, UserConfirms, AtPanel
      <3>2. QED BY <1>1, <2>1, <3>1, LockFinish
    <2>10. CASE UserCommands
      BY <1>1, <2>1, <2>10, UserCommandsLock
    <2>11. CASE PumpEvent
      BY <2>1, <2>11, PumpEventLock
    <2>12. CASE \E s \in Slots : \/ Send(s) \/ Stall(s) \/ Gone(s)
                                 \/ \E kind \in {"io", "init", "lock"} : Expire(s, kind)
      BY <1>1, <2>1, <2>12, EnvironmentLock
    <2>13. QED BY <1>3, <2>2, <2>3, <2>4, <2>5, <2>6, <2>7, <2>8, <2>9, <2>10, <2>11, <2>12
               DEF Next, ServerStep, UserStep, Environment
  <1>4. QED BY <1>2, <1>3

\* The whole server, with its re-entrant dispatch, its panels and the clients
\* that crash, is one counting lock that clients enter, leave and drag with:
\* what Services_proofs shows of that lock holds of the server.
THEOREM ServerImplementsLock == Spec => ImplementsUpdateLock
  <1>1. Init => Lock!Init
    <2> SUFFICES ASSUME Init PROVE Lock!Init
      OBVIOUS
    <2>1. \A s \in Slots : sess[s].gen = 0 /\ ~sess[s].inited
      BY DEF Init, Free
    <2>2. stack = <<>> /\ updateDepth = 0
      BY DEF Init
    <2>3. LiveApps = {}
      BY <2>1 DEF LiveApps
    <2>4. DepthOf = [g \in 1..MaxGeneration |-> 0]
      <3>1. \A g \in 1..MaxGeneration : ~\E s \in Slots : sess[s].gen = g
        BY <2>1
      <3>2. \A g \in 1..MaxGeneration :
               (IF \E s \in Slots : sess[s].gen = g
                THEN sess[CHOOSE s \in Slots : sess[s].gen = g].depth ELSE 0) = 0
        BY <3>1
      <3>3. QED BY <3>2, Zenon DEF DepthOf
    <2>5. Dragger = 0
      BY <2>2 DEF Dragger
    <2>6. QED BY <2>2, <2>3, <2>4, <2>5 DEF Lock!Init
  <1>2. Inv /\ [Next]_vars => [Lock!Next]_(Lock!vars)
    BY EveryLockStep DEF LockStep, Lock!vars
  <1>3. QED BY <1>1, <1>2, Invariance, PTL DEF Spec, ImplementsUpdateLock, Lock!Spec
=============================================================================
