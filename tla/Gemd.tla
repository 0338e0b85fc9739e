-------------------------------- MODULE Gemd --------------------------------
(***************************************************************************)
(* The display server's control flow: gemd is one thread that polls its     *)
(* client sockets, pumps physical input and dispatches requests, and that   *)
(* can be stopped in the middle of a request by a panel (an alert, a file   *)
(* selector, a form, a drag) waiting for the user.  A waiting panel calls   *)
(* aes_wait_hook, gemd_service_modal(), which serves the other clients from *)
(* inside the request: dispatch is re-entrant, and sessions come and go     *)
(* while a request for one of them is still on the C stack.                 *)
(*                                                                          *)
(* The C stack is the variable "stack" (innermost frame first).  A step is  *)
(* what the server does for one session between two points where a client   *)
(* or the user can be noticed.                                              *)
(***************************************************************************)
EXTENDS Integers, Sequences

CONSTANTS
    NumSlots,        \* GEMD_MAX_SESSIONS
    MaxGeneration,   \* bound: connections accepted in a behaviour
    MaxDepth,        \* 64: BEG_UPDATEs one application may nest
    MaxHid,          \* 128: physical events one pump dispatches (here: those
                     \* that open a panel of the server's own)
    MaxCommands,     \* bound: system-menu commands open inside one another
    Ops,             \* the requests clients make
    Faults           \* what the environment does besides making requests

Requests == {"INIT", "EXIT", "BEG", "END", "PANEL", "FORM", "DRAG", "START",
             "FINISH", "EVNT", "LOCREM", "MENU", "CALL"}

ASSUME GemdAssumption ==
    /\ NumSlots \in Nat \ {0} /\ MaxGeneration \in Nat
    /\ MaxDepth \in Nat \ {0} /\ MaxHid \in Nat /\ MaxCommands \in Nat
    /\ Ops \subseteq Requests
    /\ Faults \subseteq {"gone", "stuck", "signal", "io", "init", "lock"}

Slots == 1..NumSlots
None == "none"

VARIABLES
    sess,          \* g_sessions, with the client at the other end
    nextGen,       \* g_next_generation
    updateDepth,   \* aes_state.update_depth
    formOwner,     \* aes_state.modal_form_owner_app_id, as a generation
    desktop,       \* aes_state.desktop_owner_app_id, as a generation
    stack,         \* the frames of the C stack that wait, innermost first
    modal,         \* g_modal_session, as a slot
    hook,          \* aes_wait_hook is gemd_service_modal
    phase, turn,   \* place in main()'s loop, and the index of its inner loop
    snapshot,      \* pollfds[] and poll_generation[]
    stopping       \* g_stopping

vars == <<sess, nextGen, updateDepth, formOwner, desktop, stack, modal, hook,
          phase, turn, snapshot, stopping>>

(***************************************************************************)
(* A session.  An application is identified by its connection's generation. *)
(*   gen       0 while the slot is free (fd < 0)                            *)
(*   peer,wire the client: idle, waiting for a reply, stuck (not reading)   *)
(*             or gone, and its request while still in the socket           *)
(*   io,op,to  gemd_io_t: idle, a request ready, or a reply out; the        *)
(*             request; the generation whose request the reply answers      *)
(*   handling  handling_request                                             *)
(*   inited    app_id # 0;  depth  its update_depth;  menu  menu_visible    *)
(*   late      the deadlines that have passed: io.started, accepted_at,     *)
(*             update_started                                               *)
(***************************************************************************)
Free == [gen |-> 0, peer |-> "idle", wire |-> None, io |-> "idle", op |-> None,
         to |-> 0, handling |-> FALSE, inited |-> FALSE, depth |-> 0,
         menu |-> FALSE, late |-> {}]

Frames == [kind : {"request", "system", "command", "service"}, slot : 0..NumSlots,
           gen : 0..MaxGeneration, op : Requests \cup {None},
           polled : BOOLEAN, next : 0..(NumSlots + 1)]

RequestFrame(s, g, o) == [kind |-> "request", slot |-> s, gen |-> g, op |-> o,
                          polled |-> FALSE, next |-> 0]
OtherFrame(k, n) == [kind |-> k, slot |-> 0, gen |-> 0, op |-> None,
                     polled |-> FALSE, next |-> n]

TypeOK ==
    /\ sess \in [Slots -> [gen : 0..MaxGeneration,
                           peer : {"idle", "waiting", "stuck", "gone"},
                           wire : Requests \cup {None},
                           io : {"idle", "ready", "out"},
                           op : Requests \cup {None},
                           to : 0..MaxGeneration,
                           handling : BOOLEAN, inited : BOOLEAN,
                           depth : 0..MaxDepth, menu : BOOLEAN,
                           late : SUBSET {"io", "init", "lock"}]]
    /\ nextGen \in 0..MaxGeneration
    /\ updateDepth \in 0..(MaxDepth + 1)
    /\ formOwner \in 0..MaxGeneration /\ desktop \in 0..MaxGeneration
    /\ stack \in Seq(Frames)
    /\ modal \in 0..NumSlots /\ hook \in BOOLEAN
    /\ phase \in {"poll", "pump", "serve", "pump2", "down"}
    /\ turn \in 0..(NumSlots + MaxHid + 1)
    /\ snapshot \in [Slots -> [gen : 0..MaxGeneration,
                               event : {"none", "in", "out", "hup"}]]
    /\ stopping \in BOOLEAN

Init ==
    /\ sess = [s \in Slots |-> Free]
    /\ nextGen = 0 /\ updateDepth = 0 /\ formOwner = 0 /\ desktop = 0
    /\ stack = <<>> /\ modal = 0 /\ hook = FALSE
    /\ phase = "poll" /\ turn = 0
    /\ snapshot = [s \in Slots |-> [gen |-> 0, event |-> "none"]]
    /\ stopping = FALSE

Connected(s) == sess[s].gen # 0
Top == Head(stack)
Push(f, st) == <<f>> \o st

-----------------------------------------------------------------------------
(* transport.c and poll(): one session's socket, without blocking *)

\* What poll() reports for a session, with the events gemd asks for.
Poll(r) ==
    IF r.gen = 0 THEN "none"
    ELSE IF r.peer = "gone" THEN "hup"
    ELSE IF r.io = "out" /\ r.peer # "stuck" THEN "out"
    ELSE IF r.io = "idle" /\ r.wire # None THEN "in"
    ELSE "none"

\* gemd_receive() and gemd_send() fail only on a closed connection.
Failed(r, event) ==
    \/ event = "hup"
    \/ event = "in" /\ r.io = "idle" /\ r.wire = None /\ r.peer = "gone"
    \/ event = "out" /\ r.io = "out" /\ r.peer = "gone"

Received(r) == [r EXCEPT !.io = "ready", !.op = r.wire, !.wire = None]

Drained(r) == [r EXCEPT !.io = "idle", !.to = 0, !.peer = "idle",
                        !.late = @ \ {"io"}]

\* The I/O of one visit; an event that no longer applies does nothing.
Transfer(r, event) ==
    IF event = "in" /\ r.io = "idle" /\ r.wire # None THEN Received(r)
    ELSE IF event = "out" /\ r.io = "out" /\ r.peer # "gone" THEN Drained(r)
    ELSE r

\* gemd_reply(): the answer to generation g's request, queued in session r.
Reply(r, g) == [r EXCEPT !.io = "out", !.op = None, !.to = g,
                         !.late = @ \ {"io"}]

-----------------------------------------------------------------------------
(* session.c *)

\* gemd_accept_client(): the first free slot, zeroed, with a new generation.
IsFirstFree(s) == ~Connected(s) /\ \A t \in Slots : t < s => Connected(t)

Accept ==
    /\ nextGen < MaxGeneration
    /\ \E s \in Slots :
          /\ IsFirstFree(s)
          /\ sess' = [sess EXCEPT ![s] = [Free EXCEPT !.gen = nextGen + 1]]
    /\ nextGen' = nextGen + 1

\* accept() may also find nobody, or no slot to put the client in.
TryAccept == Accept \/ UNCHANGED <<sess, nextGen>>

\* Mutant: having initialized is enough, as if every application were holder.
MayRunAnyApp(r) == updateDepth = 0 \/ r.inited

\* gemd_session_may_run()
MayRun(r) == updateDepth = 0 \/ (r.inited /\ r.depth > 0)

\* Mutant: BEG_UPDATE may nest without limit.
AuthorizedAnyDepth(r) == r.op = "INIT" \/ (r.inited /\ (r.op = "END" => r.depth > 0))

\* gemd_authorized(): the connection's identity decides.
Authorized(r) ==
    \/ r.op = "INIT"
    \/ /\ r.inited
       /\ r.op = "BEG" => r.depth < MaxDepth
       /\ r.op = "END" => r.depth > 0
       /\ r.op = "LOCREM" => r.gen = desktop

\* Mutant: the desktop is left without an owner.
DesktopForgotten(s) == {IF desktop = sess[s].gen THEN 0 ELSE desktop}

\* A departing desktop owner is replaced by an application with a menu.
DesktopAfter(s) ==
    LET heirs == {t \in Slots \ {s} : sess[t].inited /\ sess[t].menu}
    IN  IF desktop \notin {0, sess[s].gen} THEN {desktop}
        ELSE IF heirs = {} THEN {0} ELSE {sess[t].gen : t \in heirs}

\* Mutant: the whole counter is cleared, another application's share included.
CleanupUnlocks(s) ==
    /\ updateDepth' = 0
    /\ formOwner' = IF formOwner = sess[s].gen THEN 0 ELSE formOwner
    /\ desktop' \in DesktopAfter(s)

\* gemd_cleanup_app(), as far as scheduling goes: the lock is unwound by what
\* this application owed, and it stops owning the form and the desktop.
CleanupApp(s) ==
    /\ updateDepth' = IF updateDepth > sess[s].depth
                      THEN updateDepth - sess[s].depth ELSE 0
    /\ formOwner' = IF formOwner = sess[s].gen THEN 0 ELSE formOwner
    /\ desktop' \in DesktopAfter(s)

\* gemd_close_session(): the slot is free at once, whoever still points to it.
CloseSession(s) ==
    /\ sess' = [sess EXCEPT ![s] = Free]
    /\ CleanupApp(s)
    /\ UNCHANGED <<modal, hook>>

-----------------------------------------------------------------------------
(* gemd_handle_request() and gemd_dispatch(), for a session s whose record,  *)
(* after the I/O of this visit, is r.  "rest" is the stack to return to.     *)

\* Mutants: the hook is not installed for alerts, or not for form_do().
MayWaitButAlerts(o) == o \in {"FORM", "DRAG"}
MayWaitButForms(o) == o \in {"PANEL", "DRAG"}

\* gemd_request_may_wait(): the requests that wait under the service hook.
MayWait(o) == o \in {"PANEL", "FORM", "DRAG"}

Replied(s, r, rest) ==
    /\ sess' = [sess EXCEPT ![s] = Reply(r, r.gen)]
    /\ stack' = rest

\* A request that changes nothing here: refused, or about something else.
Answer(s, r, rest) ==
    /\ ~Authorized(r) \/ r.op = "CALL"
    /\ Replied(s, r, rest)
    /\ UNCHANGED <<updateDepth, formOwner, desktop, modal, hook>>

ApplInit(s, r, rest) ==
    /\ r.op = "INIT"
    /\ Replied(s, [r EXCEPT !.inited = TRUE, !.late = @ \ {"init"}], rest)
    /\ UNCHANGED <<updateDepth, formOwner, desktop, modal, hook>>

\* APPL_EXIT keeps the connection and restarts its initialization deadline.
ApplExit(s, r, rest) ==
    /\ r.op = "EXIT"
    /\ Replied(s, [r EXCEPT !.inited = FALSE, !.depth = 0, !.menu = FALSE,
                            !.late = @ \ {"lock", "init"}], rest)
    /\ CleanupApp(s)
    /\ UNCHANGED <<modal, hook>>

\* WIND_UPDATE: update_started is set by the outermost BEG_UPDATE only.
WindUpdate(s, r, rest) ==
    /\ \/ /\ r.op = "BEG"
          /\ updateDepth' = updateDepth + 1
          /\ Replied(s, [r EXCEPT !.depth = @ + 1], rest)
       \/ /\ r.op = "END"
          /\ updateDepth' = updateDepth - 1
          /\ Replied(s, [r EXCEPT !.depth = @ - 1,
                                  !.late = IF r.depth = 1 THEN @ \ {"lock"} ELSE @],
                     rest)
    /\ UNCHANGED <<formOwner, desktop, modal, hook>>

\* FORM_DIAL: FMD_START takes the form layer, FMD_FINISH gives back one's own.
FormDial(s, r, rest) ==
    /\ \/ r.op = "START" /\ formOwner' = r.gen
       \/ /\ r.op = "FINISH"
          /\ formOwner' = IF formOwner = r.gen THEN 0 ELSE formOwner
    /\ Replied(s, r, rest)
    /\ UNCHANGED <<updateDepth, desktop, modal, hook>>

MenuBar(s, r, rest) ==
    /\ r.op = "MENU"
    /\ desktop' = IF desktop = 0 THEN r.gen ELSE desktop
    /\ Replied(s, [r EXCEPT !.menu = TRUE], rest)
    /\ UNCHANGED <<updateDepth, formOwner, modal, hook>>

(***************************************************************************)
(* EVNT_MULTI answers at once, except under a panel's hook while a form is  *)
(* open: then it runs evnt_multi(), which calls the hook itself.            *)
(***************************************************************************)
EvntMulti(s, r, rest) ==
    /\ r.op = "EVNT"
    /\ IF hook /\ formOwner # 0
       THEN /\ sess' = [sess EXCEPT ![s] = [r EXCEPT !.handling = TRUE]]
            /\ stack' = Push(RequestFrame(s, r.gen, r.op), rest)
       ELSE Replied(s, r, rest)
    /\ UNCHANGED <<updateDepth, formOwner, desktop, modal, hook>>

(***************************************************************************)
(* The requests that wait for the user.  A drag holds the counter while it  *)
(* lasts.  LOCATION_REMOVE opens its confirmation too, but is not one of    *)
(* the requests the hook is installed for.                                  *)
(***************************************************************************)
OpenPanel(s, r, rest) ==
    /\ r.op \in {"PANEL", "FORM", "DRAG", "LOCREM"}
    /\ sess' = [sess EXCEPT ![s] = [r EXCEPT !.handling = TRUE]]
    /\ stack' = Push(RequestFrame(s, r.gen, r.op), rest)
    /\ updateDepth' = IF r.op = "DRAG" THEN updateDepth + 1 ELSE updateDepth
    /\ IF MayWait(r.op) THEN modal' = s /\ hook' = TRUE
                        ELSE UNCHANGED <<modal, hook>>
    /\ UNCHANGED <<formOwner, desktop>>

Dispatch(s, r, rest) ==
    \/ Answer(s, r, rest)
    \/ /\ Authorized(r)
       /\ \/ ApplInit(s, r, rest) \/ ApplExit(s, r, rest)
          \/ WindUpdate(s, r, rest) \/ FormDial(s, r, rest)
          \/ MenuBar(s, r, rest) \/ EvntMulti(s, r, rest)
          \/ OpenPanel(s, r, rest)

\* Mutant: the hook opens panels.
RunsPanels(r, serving) == r.io = "ready" /\ ~r.handling /\ MayRun(r)

\* Whether this visit dispatches: from a panel's hook, no second panel.
Runs(r, serving) ==
    /\ r.io = "ready" /\ ~r.handling
    /\ MayRun(r)
    /\ serving => ~MayWait(r.op)

HandleRequest(s, r, rest, serving) ==
    IF Runs(r, serving) THEN Dispatch(s, r, rest)
    ELSE /\ sess' = [sess EXCEPT ![s] = r]
         /\ stack' = rest
         /\ UNCHANGED <<updateDepth, formOwner, desktop, modal, hook>>

-----------------------------------------------------------------------------
(* Frames of the stack that end, and the hook that runs inside them *)

\* The end of gemd_handle_request(), for generation g's request.
Ended(r, g) == Reply([r EXCEPT !.handling = FALSE], g)

\* Mutant: gemd_handle_request() leaves the hook installed.
SystemClears(f) == f.kind = "system"

\* The frames whose end uninstalls the hook.
Clears(f) == f.kind = "system" \/ (f.kind = "request" /\ f.slot = modal)

(***************************************************************************)
(* The wait of the first frame of st is over: the rest of                   *)
(* gemd_handle_request(), which replies to whoever has the slot by now, or  *)
(* of the system event.                                                     *)
(***************************************************************************)
FinishFrame(st) ==
    LET f == Head(st) IN
    /\ stack' = Tail(st)
    /\ sess' = IF f.kind = "request" /\ Connected(f.slot)
               THEN [sess EXCEPT ![f.slot] = Ended(@, f.gen)] ELSE sess
    /\ updateDepth' = IF f.op = "DRAG" /\ updateDepth > 0 THEN updateDepth - 1
                      ELSE updateDepth
    /\ hook' = (hook /\ ~Clears(f))
    /\ modal' = IF Clears(f) THEN 0 ELSE modal
    /\ UNCHANGED <<formOwner, desktop>>

AtPanel == stack # <<>> /\ Top.kind # "service"

RequesterGone == modal # 0 /\ sess[modal].peer = "gone"

\* Mutant: a panel outlives the server's decision to stop.
CancelledByRequester == RequesterGone

Cancelled == stopping \/ RequesterGone

(***************************************************************************)
(* gemd_service_modal(): cancel the wait if the server stops or the panel's *)
(* requester is gone; otherwise accept a client and visit every session.    *)
(***************************************************************************)
CallHook ==
    /\ AtPanel /\ hook
    /\ IF Cancelled
       THEN FinishFrame(stack) /\ UNCHANGED nextGen
       ELSE /\ TryAccept
            /\ stack' = Push(OtherFrame("service", 1), stack)
            /\ UNCHANGED <<updateDepth, formOwner, desktop, modal, hook>>
    /\ UNCHANGED <<phase, turn, snapshot, stopping>>

InService == stack # <<>> /\ Top.kind = "service"

\* The service frame, moved on to its next session.
Onward == Push([Top EXCEPT !.next = @ + 1], Tail(stack))

\* Mutant: the panel's own session is visited like the others.
NoRequester(s) == FALSE

IsRequester(s) == s = modal

\* The update lock's deadline comes first: it cancels the panel if it is the
\* requester's, and disconnects any other session.
ServiceVisit ==
    /\ InService /\ Top.next \in Slots
    /\ LET s == Top.next
           event == Poll(sess[s])
           r == Transfer(sess[s], event)
           overdue == modal # 0 /\ "lock" \in sess[s].late
       IN  \/ /\ ~Connected(s) \/ (IsRequester(s) /\ ~overdue)
              /\ stack' = Onward
              /\ UNCHANGED <<sess, updateDepth, formOwner, desktop, modal, hook>>
           \/ IsRequester(s) /\ overdue /\ FinishFrame(Tail(stack))
           \/ /\ Connected(s) /\ ~IsRequester(s)
              /\ IF \/ overdue \/ Failed(sess[s], event)
                    \/ modal # 0 /\ r.late \cap {"io", "init"} # {}
                 THEN CloseSession(s) /\ stack' = Onward
                 ELSE HandleRequest(s, r, Onward, TRUE)
    /\ UNCHANGED <<nextGen, phase, turn, snapshot, stopping>>

\* The hook returns 1 and the wait goes on.
ServiceReturn ==
    /\ InService /\ Top.next > NumSlots
    /\ LET waiting == Tail(stack)
       IN  stack' = Push([Head(waiting) EXCEPT !.polled = TRUE], Tail(waiting))
    /\ UNCHANGED <<sess, nextGen, updateDepth, formOwner, desktop, modal, hook,
                   phase, turn, snapshot, stopping>>

\* The wait that a frame is in has called the hook, or has none to call.
Waits(f) == hook => f.polled

\* The user answers a client's panel, or lets the dragged box go.
UserAnswers ==
    /\ AtPanel /\ Top.kind = "request" /\ Top.op # "EVNT" /\ Waits(Top)
    /\ FinishFrame(stack)
    /\ UNCHANGED <<nextGen, phase, turn, snapshot, stopping>>

\* The nested evnt_multi() has no timeout: it returns what it has found.
EvntReturns ==
    /\ AtPanel /\ Top.op = "EVNT" /\ Waits(Top)
    /\ FinishFrame(stack)
    /\ UNCHANGED <<nextGen, phase, turn, snapshot, stopping>>

IsCommand(f) == f.kind = "command"

\* evnt_multi() under a hook takes physical input itself, system menu
\* included: Shutdown asks for confirmation with an alert of the server's, and
\* the loop then starts over with the hook.
UserCommands ==
    /\ AtPanel /\ Top.op \in {"FORM", "EVNT"} /\ hook /\ Waits(Top)
    /\ Len(SelectSeq(stack, IsCommand)) < MaxCommands
    /\ stack' = Push(OtherFrame("command", 0),
                     Push([Top EXCEPT !.polled = FALSE], Tail(stack)))
    /\ UNCHANGED <<sess, nextGen, updateDepth, formOwner, desktop, modal, hook,
                   phase, turn, snapshot, stopping>>

\* The user answers a panel of the server's own; the answer may be Shutdown.
UserConfirms ==
    /\ AtPanel /\ Top.kind \in {"system", "command"} /\ Waits(Top)
    /\ FinishFrame(stack)
    /\ stopping' \in {stopping, TRUE}
    /\ UNCHANGED <<nextGen, phase, turn, snapshot>>

-----------------------------------------------------------------------------
(* main()'s loop.  Its steps happen only with nothing else on the stack.    *)

NoSnapshot == [s \in Slots |-> [gen |-> 0, event |-> "none"]]

\* gemd_pump_hid() reads the update lock once, when it is entered.
EnterPump(pump, next, first) ==
    IF updateDepth > 0 THEN phase' = next /\ turn' = first
                       ELSE phase' = pump /\ turn' = MaxHid

PollSockets ==
    /\ phase = "poll" /\ stack = <<>> /\ ~stopping
    /\ snapshot' = [s \in Slots |-> [gen |-> sess[s].gen, event |-> Poll(sess[s])]]
    /\ EnterPump("pump", "serve", 1)
    /\ UNCHANGED <<sess, nextGen, updateDepth, formOwner, desktop, stack, modal,
                   hook, stopping>>

\* A physical event that opens a panel of the server's own: nobody's session
\* is modal, but the panel is serviced too.
PumpEvent ==
    /\ phase \in {"pump", "pump2"} /\ stack = <<>>
    /\ turn > 0
    /\ turn' = turn - 1
    /\ stack' = <<OtherFrame("system", 0)>>
    /\ modal' = 0 /\ hook' = TRUE
    /\ UNCHANGED <<sess, nextGen, updateDepth, formOwner, desktop, phase,
                   snapshot, stopping>>

PumpDone ==
    /\ phase \in {"pump", "pump2"} /\ stack = <<>>
    /\ IF phase = "pump" THEN phase' = "serve" /\ turn' = 1
                         ELSE phase' = "poll" /\ turn' = 0
    /\ UNCHANGED <<sess, nextGen, updateDepth, formOwner, desktop, stack, modal,
                   hook, snapshot, stopping>>

\* Mutant: the slot is taken for the connection that was polled.
SameSlot(s) == Connected(s)

Polled(s) == Connected(s) /\ sess[s].gen = snapshot[s].gen

\* Mutant: the update lock has no deadline in the main loop.
LateToTalk(r) == r.late \ {"lock"} # {}

Late(r) == r.late # {}

\* One session of the poll set, unless the slot has changed hands since.
MainVisit ==
    /\ phase = "serve" /\ stack = <<>> /\ turn \in Slots
    /\ turn' = turn + 1
    /\ LET r == sess[turn]
           event == snapshot[turn].event
       IN  IF ~Polled(turn)
           THEN UNCHANGED <<sess, updateDepth, formOwner, desktop, stack, modal, hook>>
           ELSE IF Late(r) \/ Failed(r, event)
           THEN CloseSession(turn) /\ UNCHANGED stack
           ELSE HandleRequest(turn, Transfer(r, event), stack, FALSE)
    /\ UNCHANGED <<nextGen, phase, snapshot, stopping>>

MainAccept ==
    /\ phase = "serve" /\ stack = <<>> /\ turn > NumSlots
    /\ TryAccept
    /\ EnterPump("pump2", "poll", 0)
    /\ snapshot' = NoSnapshot
    /\ UNCHANGED <<updateDepth, formOwner, desktop, stack, modal, hook, stopping>>

\* gemd_shutdown() closes every session.
Stop ==
    /\ phase = "poll" /\ stack = <<>> /\ stopping
    /\ phase' = "down" /\ turn' = 1
    /\ UNCHANGED <<sess, nextGen, updateDepth, formOwner, desktop, stack, modal,
                   hook, snapshot, stopping>>

ShutdownVisit ==
    /\ phase = "down" /\ turn \in Slots
    /\ turn' = turn + 1
    /\ IF Connected(turn) THEN CloseSession(turn)
       ELSE UNCHANGED <<sess, updateDepth, formOwner, desktop, modal, hook>>
    /\ UNCHANGED <<nextGen, stack, phase, snapshot, stopping>>

Terminated == phase = "down" /\ turn > NumSlots /\ UNCHANGED vars

-----------------------------------------------------------------------------
(* The clients, the clock and the signals *)

OnlySessions == UNCHANGED <<nextGen, updateDepth, formOwner, desktop, stack,
                            modal, hook, phase, turn, snapshot, stopping>>

\* libgem is synchronous: one request, then its reply.
Send(s) ==
    /\ Connected(s) /\ sess[s].peer = "idle"
    /\ \E o \in Ops : sess' = [sess EXCEPT ![s].peer = "waiting", ![s].wire = o]
    /\ OnlySessions

\* A client that stops reading while its reply is due.
Stall(s) ==
    /\ "stuck" \in Faults
    /\ Connected(s) /\ sess[s].peer = "waiting"
    /\ sess' = [sess EXCEPT ![s].peer = "stuck"]
    /\ OnlySessions

Gone(s) ==
    /\ "gone" \in Faults
    /\ Connected(s) /\ sess[s].peer # "gone"
    /\ sess' = [sess EXCEPT ![s].peer = "gone"]
    /\ OnlySessions

(***************************************************************************)
(* A deadline passes: an unread reply (2 s), a connection without appl_init *)
(* (5 s), an update lock (5 s).  gemd_pump_hid() moves the clocks past the  *)
(* time its own panels take, so none passes under a system frame (one that  *)
(* was started in the panel is not looked at before the panel ends).        *)
(***************************************************************************)
ClockRuns(r, kind) ==
    \/ kind = "io" /\ r.io = "out"
    \/ kind = "init" /\ ~r.inited
    \/ kind = "lock" /\ r.depth > 0

IsSystem(f) == f.kind = "system"

Expire(s, kind) ==
    /\ kind \in Faults
    /\ Connected(s) /\ kind \notin sess[s].late
    /\ SelectSeq(stack, IsSystem) = <<>>
    /\ ClockRuns(sess[s], kind)
    /\ sess' = [sess EXCEPT ![s].late = @ \cup {kind}]
    /\ OnlySessions

\* SIGTERM or SIGINT: gemd_stop() only sets the flag.
Signal ==
    /\ "signal" \in Faults
    /\ ~stopping
    /\ stopping' = TRUE
    /\ UNCHANGED <<sess, nextGen, updateDepth, formOwner, desktop, stack, modal,
                   hook, phase, turn, snapshot>>

-----------------------------------------------------------------------------
ServerStep ==
    \/ CallHook \/ ServiceVisit \/ ServiceReturn
    \/ PollSockets \/ PumpDone \/ MainVisit \/ MainAccept \/ Stop \/ ShutdownVisit

UserStep == UserAnswers \/ UserCommands \/ UserConfirms \/ PumpEvent

Environment ==
    \/ Signal
    \/ \E s \in Slots : \/ Send(s) \/ Stall(s) \/ Gone(s)
                        \/ \E kind \in {"io", "init", "lock"} : Expire(s, kind)

Next == ServerStep \/ EvntReturns \/ UserStep \/ Environment \/ Terminated

Spec == Init /\ [][Next]_vars

(***************************************************************************)
(* The server's thread keeps running and time passes; nothing is assumed of *)
(* the user, who may leave a panel open forever, or of the clients.  The    *)
(* nested evnt_multi() returns although its hook can be called again.       *)
(***************************************************************************)
Fairness ==
    /\ WF_vars(ServerStep)
    /\ SF_vars(EvntReturns)
    /\ \A s \in Slots : WF_vars(Expire(s, "lock"))

FairSpec == Spec /\ Fairness

-----------------------------------------------------------------------------
(* Safety *)

IsModal(f) == f.kind = "request" /\ MayWait(f.op)
IsPanel(f) == f.kind \in {"system", "command"} \/ f.op \in {"PANEL", "DRAG", "LOCREM"}

\* The requests of session s that are on the stack.
InFlight(s) == {i \in DOMAIN stack : /\ stack[i].kind = "request"
                                     /\ stack[i].slot = s
                                     /\ stack[i].gen = sess[s].gen}

(***************************************************************************)
(* g_modal_session never dangles: however the hook closes and reuses slots  *)
(* while a panel is open, the slot it points to still has the connection    *)
(* that opened the panel (main.c 272-350).                                  *)
(***************************************************************************)
RequesterStays ==
    /\ \A i \in DOMAIN stack :
          IsModal(stack[i]) => /\ modal = stack[i].slot
                               /\ sess[modal].gen = stack[i].gen
    /\ modal # 0 => \E i \in DOMAIN stack : IsModal(stack[i])

\* The service hook is installed exactly while a panel that may be serviced
\* is open: a nested request's end does not take it from an outer panel, and
\* it never outlives its panel (main.c 158-162, 250-259).
HookCoversPanel ==
    hook <=> \E i \in DOMAIN stack : stack[i].kind = "system" \/ IsModal(stack[i])

\* A reply goes to the connection that made the request: the one reply slot of
\* a session is never filled by a request of the slot's previous client.
ReplyToRequester ==
    \A s \in Slots : sess[s].io = "out" => sess[s].to = sess[s].gen

\* One interactive panel at a time: while one waits, no request or command
\* opens a second (main.c 269, SECURITY.md 128).
OnePanel == \A i, j \in DOMAIN stack :
                IsPanel(stack[i]) /\ IsPanel(stack[j]) => i = j

\* The form layer and the desktop belong to connected applications: whoever
\* leaves, in whatever order, is replaced or forgotten, and a desktop that has
\* menus to show has an owner (session.c 121-136, 204-217).
OwnersAlive ==
    /\ \A g \in {formOwner, desktop} \ {0} :
          \E s \in Slots : sess[s].gen = g /\ sess[s].inited
    /\ (\E s \in Slots : sess[s].inited /\ sess[s].menu) => desktop # 0

(***************************************************************************)
(* A connection is closed for a cause of its own: its peer went, one of its *)
(* deadlines passed, or the server stops.  A readiness result recorded for  *)
(* the slot's previous connection is no cause (main.c 485-492).             *)
(***************************************************************************)
ClosedForCause ==
    [][\A s \in Slots : Connected(s) /\ sess'[s].gen # sess[s].gen =>
          sess[s].peer = "gone" \/ sess[s].late # {} \/ stopping]_vars

(***************************************************************************)
(* While an application holds the update lock, no other application's       *)
(* request starts, from the main loop or from a panel's hook, whatever was  *)
(* received in the meantime (main.c 520-523, session.c 356-370).            *)
(***************************************************************************)
Starts(s) == /\ ~sess[s].handling
             /\ sess'[s].handling \/ (sess[s].io # "out" /\ sess'[s].io = "out")
             /\ sess[s].gen = sess'[s].gen

DrawsAlone ==
    [][\A s, t \in Slots : Starts(s) /\ s # t => sess[t].depth = 0]_vars

-----------------------------------------------------------------------------
(* The lock that clients see is UpdateLock: one application per connection. *)

\* The applications, the count of each, and the one inside graf_dragbox().
LiveApps == {sess[s].gen : s \in {t \in Slots : sess[t].inited}}

DepthOf == [g \in 1..MaxGeneration |->
               IF \E s \in Slots : sess[s].gen = g
               THEN sess[CHOOSE s \in Slots : sess[s].gen = g].depth ELSE 0]

Dragger == IF \E i \in DOMAIN stack : stack[i].op = "DRAG"
           THEN stack[CHOOSE i \in DOMAIN stack : stack[i].op = "DRAG"].gen ELSE 0

Lock == INSTANCE UpdateLock WITH
    Apps <- 1..MaxGeneration, Nobody <- 0, WordLimit <- MaxDepth + 2,
    live <- LiveApps, depth <- DepthOf, dragger <- Dragger

\* The whole server, re-entrant dispatch and crashes included, implements the
\* update lock of UpdateLock.
ImplementsUpdateLock == Lock!Spec

-----------------------------------------------------------------------------
(* Liveness: with a user who may never answer *)

Pending(s) ==
    /\ Connected(s)
    /\ \/ sess[s].peer \in {"waiting", "stuck"} /\ sess[s].wire = "CALL"
       \/ sess[s].io = "ready" /\ sess[s].op = "CALL"

\* An ordinary request is answered, or its connection closed, even if a panel
\* of another application, or of the server, is left open forever
\* (SECURITY.md 125-127).
CallsServed == \A s \in Slots : Pending(s) ~> ~Pending(s)

\* An application that does not give the lock back loses it (SECURITY.md,
\* "Outstanding update lock | 5 seconds absolute").
LockGivenUp == \A s \in Slots : (sess[s].depth > 0) ~> (sess[s].depth = 0)

\* A signal ends the server, panel or no panel.
Stops == stopping ~> (phase = "down" /\ turn > NumSlots)
=============================================================================
