----------------------------- MODULE InputQueue -----------------------------
(* Key events on their way from the keyboard to the applications (event.c):   *)
(* which application owns the keyboard, the bounded queue of each one, what   *)
(* evnt_multi() takes from it in its different uses, and the reset that tells *)
(* a user of physical keys (GEM_MU_KEY) to forget the keys it believes held.  *)
(*                                                                            *)
(* The code changes the owner of the keyboard, and consumes key events, in    *)
(* several places that raise no reset. missed is a history of what these cost *)
(* each application: the keys whose release it was not told of, or not in     *)
(* their order. No action reads it.                                           *)
EXTENDS Naturals, Sequences

CONSTANTS Apps,           \* slots of the application table, 1..n
          Keys,           \* keys of the keyboard
          QueueSize       \* AES_APP_INPUT_QUEUE_SIZE

ASSUME InputAssumption == Apps \subseteq Nat \ {0} /\ QueueSize \in Nat

VARIABLES down,           \* the keys that are physically held
          live,           \* applications
          focus,          \* aes_state.input_focus_app_id, or 0
          active,         \* the active application or the menu owner, or 0
          events,         \* input_events of each application
          reset,          \* physical_key_reset of each application
          physical,       \* physical_key_events of each application
          held,           \* the keys each application believes held
          missed          \* of these and the queued ones, those it was misled about

inputVars == <<down, live, focus, active, events, reset, physical, held, missed>>

Event == [key : Keys, press : BOOLEAN]

InputTypeOK ==
    /\ down \subseteq Keys /\ live \subseteq Apps
    /\ focus \in {0} \union live /\ active \in {0} \union live
    /\ events \in [Apps -> Seq(Event)]
    /\ \A a \in Apps : Len(events[a]) <= QueueSize
    /\ reset \in [Apps -> BOOLEAN] /\ physical \in [Apps -> BOOLEAN]
    /\ held \in [Apps -> SUBSET Keys] /\ missed \in [Apps -> SUBSET Keys]

InputInit ==
    /\ down = {} /\ live = {} /\ focus = 0 /\ active = 0
    /\ events = [a \in Apps |-> <<>>]
    /\ reset = [a \in Apps |-> FALSE]
    /\ physical = [a \in Apps |-> FALSE]
    /\ held = [a \in Apps |-> {}]
    /\ missed = [a \in Apps |-> {}]

\* aes_input_event_owner() for a key: the focus, or the active application,
\* or the first one of the table.
First(set)   == CHOOSE a \in set : \A b \in set : a <= b
KeyOwner     == CASE live = {}                             -> 0
                  [] live # {} /\ focus # 0               -> focus
                  [] live # {} /\ focus = 0 /\ active # 0 -> active
                  [] OTHER                                 -> First(live)

Pressed(keys, evt) == IF evt.press THEN keys \union {evt.key} ELSE keys \ {evt.key}

\* The keys an application believes held once it has read what is queued: those
\* whose last event is a press, and those it holds that have none.
Believed(a, queue) ==
    LET of(k) == {n \in DOMAIN queue : queue[n].key = k}
    IN  {k \in Keys : IF of(k) = {} THEN k \in held[a]
                      ELSE \E n \in of(k) : queue[n].press /\ \A m \in of(k) : m <= n}

\* The history after a step that misleads these applications about these keys.
\* A key that is not believed held after it is put right.
Misses(apps, keys) ==
    missed' = [a \in Apps |->
                 LET lost == IF a \in apps THEN keys ELSE {}
                 IN  (missed[a] \union lost) \intersect (Believed(a, events[a]))']
Informed == Misses({}, {})

\* Another owner of the keyboard, perhaps, and the old one is sent no reset: it
\* will hear of no release of the keys it knows of.
Unannounced == Misses({KeyOwner} \ {KeyOwner'}, Keys)

-----------------------------------------------------------------------------
(* Queues                                                                     *)

\* aes_queue_input_event(): what does not fit is dropped and the reader reset.
Queued(queue, arriving) ==
    LET all == queue \o arriving
    IN  IF Len(all) > QueueSize THEN SubSeq(all, 1, QueueSize) ELSE all

NeverOverflows(queue, arriving) == FALSE                              \* mutant
Overflows(queue, arriving)      == Len(queue \o arriving) > QueueSize

Enqueue(a, arriving) ==
    /\ events' = [events EXCEPT ![a] = Queued(@, arriving)]
    /\ reset' = [reset EXCEPT ![a] = @ \/ Overflows(events[a], arriving)]

Keyboard(k) == down' = IF k \in down THEN down \ {k} ELSE down \union {k}

\* aes_dispatch_hid_event(): a key goes to its owner, unless a standard
\* application's menu or the system's Delete takes it.
DispatchKey(k) ==
    LET a   == KeyOwner
        evt == [key |-> k, press |-> k \notin down]
    IN  /\ Keyboard(k)
        /\ UNCHANGED <<live, focus, active, physical, held>>
        /\ \/ a # 0 /\ Enqueue(a, <<evt>>) /\ Informed
           \/ a # 0 /\ ~physical[a] /\ UNCHANGED <<events, reset>> /\ Misses({a}, {k})
           \/ a = 0 /\ UNCHANGED <<events, reset>> /\ Informed

\* A panel, the menu, or a drag polls the keyboard and drops the key: its
\* owner hears nothing of it.
TrackedKey(k) ==
    /\ Keyboard(k)
    /\ UNCHANGED <<live, focus, active, events, reset, physical, held>>
    /\ Misses({KeyOwner}, {k})

-----------------------------------------------------------------------------
(* The owner of the keyboard                                                  *)

\* aes_set_input_owner(), from a click on a window, the desktop or a form:
\* who had the focus is reset.
Click(a) ==
    /\ a \in live /\ focus # 0
    /\ focus' = a
    /\ reset' = [reset EXCEPT ![focus] = @ \/ focus # a]
    /\ active' \in {active, a}        \* aes_menu_switch_to_app(), for a window
    /\ UNCHANGED <<down, live, events, physical, held>>
    /\ Informed

\* The same when nobody had the focus: whoever was active is not told.
FirstClick(a) ==
    /\ a \in live /\ focus = 0
    /\ focus' = a
    /\ active' \in {active, a}
    /\ UNCHANGED <<down, live, events, reset, physical, held>>
    /\ Unannounced

\* appl_init(): the newcomer gets the keyboard.
ApplInit(a) ==
    /\ a \notin live
    /\ live' = live \union {a} /\ focus' = a /\ active' = a
    /\ UNCHANGED <<down, events, reset, physical, held>>
    /\ Unannounced

\* form_dial(FMD_START).
FormDial(a) ==
    /\ a \in live
    /\ focus' = a /\ active' = a
    /\ UNCHANGED <<down, live, events, reset, physical, held>>
    /\ Unannounced

\* menu_bar(), or a window that comes to the top.
Activate(a) ==
    /\ a \in live /\ active # a
    /\ active' = a
    /\ UNCHANGED <<down, live, focus, events, reset, physical, held>>
    /\ Unannounced

\* gemd_cleanup_app(): the slot is cleared, and the activity goes to the owner
\* of the window on top or of the desktop. The keyboard changes hands only when
\* its owner has gone.
ApplExit(a) ==
    /\ a \in live
    /\ live' = live \ {a}
    /\ focus' = IF focus = a THEN 0 ELSE focus
    /\ active' \in IF active = a THEN {0} \union live' ELSE {active}
    /\ events' = [events EXCEPT ![a] = <<>>]
    /\ reset' = [reset EXCEPT ![a] = FALSE]
    /\ physical' = [physical EXCEPT ![a] = FALSE]
    /\ held' = [held EXCEPT ![a] = {}]
    /\ UNCHANGED down
    /\ Informed

-----------------------------------------------------------------------------
(* evnt_multi()                                                               *)

\* GEM_MU_KEY or MU_KEYBD choose how the application sees the keyboard,
\* whatever is queued or pending; a call that asks for neither leaves the
\* choice. A standard reader holds no keys.
EvntAsks(a, choice) ==
    /\ a \in live
    /\ physical' = [physical EXCEPT ![a] = choice]
    /\ held' = [held EXCEPT ![a] = IF choice THEN @ ELSE {}]
    /\ UNCHANGED <<down, live, focus, active, events, reset>>
    /\ Informed

\* In a call for physical keys the reset comes before everything that is
\* queued, and empties the queue.
EvntReset(a) ==
    /\ a \in live /\ physical[a] /\ reset[a]
    /\ reset' = [reset EXCEPT ![a] = FALSE]
    /\ events' = [events EXCEPT ![a] = <<>>]
    /\ held' = [held EXCEPT ![a] = {}]
    /\ UNCHANGED <<down, live, focus, active, physical>>
    /\ Informed

\* The next event of an application that has lost the keyboard goes to the
\* owner, behind what came later: neither need know what became of the key.
\* A pending reset stops only a call for physical keys.
EvntForward(a) ==
    LET b   == KeyOwner
        evt == Head(events[a])
    IN  /\ a \in live /\ b # a /\ events[a] # <<>>
        /\ events' = [events EXCEPT ![a] = Tail(@), ![b] = Queued(@, <<evt>>)]
        /\ reset' = [reset EXCEPT ![b] = @ \/ Overflows(events[b], <<evt>>)]
        /\ UNCHANGED <<down, live, focus, active, physical, held>>
        /\ Misses({a, b}, {evt.key})

\* A physical reader takes one event, press or release.
EvntKey(a) ==
    /\ a \in live /\ physical[a] /\ KeyOwner = a /\ ~reset[a] /\ events[a] # <<>>
    /\ held' = [held EXCEPT ![a] = Pressed(@, Head(events[a]))]
    /\ events' = [events EXCEPT ![a] = Tail(@)]
    /\ UNCHANGED <<down, live, focus, active, reset, physical>>
    /\ Informed

\* A standard reader takes a press and drops a release; a call that asks for
\* no keys drops both, also those of an application that reads physical keys
\* in other calls.
EvntTake(a) ==
    /\ a \in live /\ KeyOwner = a /\ events[a] # <<>>
    /\ events' = [events EXCEPT ![a] = Tail(@)]
    /\ UNCHANGED <<down, live, focus, active, reset, physical, held>>
    /\ Misses(IF physical[a] THEN {a} ELSE {}, {Head(events[a]).key})

-----------------------------------------------------------------------------

InputNext ==
    \/ \E k \in Keys : DispatchKey(k) \/ TrackedKey(k)
    \/ \E a \in Apps :
          \/ Click(a) \/ FirstClick(a) \/ ApplInit(a) \/ FormDial(a)
          \/ Activate(a) \/ ApplExit(a)
          \/ EvntReset(a) \/ EvntForward(a) \/ EvntKey(a) \/ EvntTake(a)
          \/ \E choice \in BOOLEAN : EvntAsks(a, choice)

InputSpec == InputInit /\ [][InputNext]_inputVars

-----------------------------------------------------------------------------
(* Properties                                                                 *)

\* Unless a reset is waiting for it, an application that reads physical keys
\* will, once it has read its queue, believe no key held that the user has
\* released: whatever overflows, whoever is clicked, and however readers
\* change their ways in between. What it was misled about without a reset is
\* left out, key by key: nothing else goes wrong with it, nor with the others.
InStep ==
    \A a \in live :
       physical[a] /\ ~reset[a] => Believed(a, events[a]) \subseteq down \union missed[a]
=============================================================================
