---------------------------- MODULE DesktopConfig ----------------------------
(***************************************************************************)
(* The locations in desktop.cfg: the user's file, the parsed cache gemd     *)
(* keeps of it (main.c, dispatch_aes.c, gemconf.c), the icons the Desktop   *)
(* shows, and an independent libgemconf client that saves the same file.    *)
(*                                                                          *)
(* A configuration is the set of its locations; other sections, the system  *)
(* layers under the user's file and the directories the locations name are  *)
(* left out.  The device, inode, size and times gemd compares are one       *)
(* number, which every atomic replacement of the file raises.  LOCATION     *)
(* messages queued for the Desktop are one flag: reading one refreshes all. *)
(***************************************************************************)
EXTENDS Naturals, Sequences

CONSTANTS Locations,  \* paths of folders and disk images
          NoLocation,
          MaxSaves,   \* bound: replacements of the file
          MaxAsked,   \* bound: confirmations one above another
          Overlap     \* may a client save between gemd's read() and stat()?

VARIABLES file,      \* the user's desktop.cfg: its locations and identity
          cache,     \* g_gemd_config
          seen,      \* g_desktop_config_identity
          gemdStep,  \* what gemd is in the middle of
          asked,     \* locations of the confirmations on the screen, last first
          hooked,    \* their panels serve the clients (aes_wait_hook)
          selected,  \* g_gemd_selected_location
          changed,   \* a GEM_MSG_LOCATION_CHANGED is queued for the Desktop
          shown,     \* locations among the Desktop's icons
          unsaved    \* a save of the cache has failed since (history)

configVars == <<file, cache, seen, gemdStep, asked, hooked, selected, changed,
                shown, unsaved>>
asking == <<asked, hooked>>

Idle == [at |-> "idle"]

TypeOK ==
    /\ file \in [locations : SUBSET Locations, identity : 0..MaxSaves]
    /\ cache \subseteq Locations
    /\ seen \in 0..MaxSaves
    /\ gemdStep \in {Idle} \cup [at : {"identify"}, after : {"load", "save"}]
                   \cup [at : {"put"}, locations : SUBSET Locations]
    /\ asked \in Seq(Locations) /\ Len(asked) <= MaxAsked
    /\ hooked \in BOOLEAN
    /\ selected \in Locations \cup {NoLocation}
    /\ changed \in BOOLEAN
    /\ shown \subseteq Locations
    /\ unsaved \in BOOLEAN

Init ==
    /\ file \in [locations : SUBSET Locations, identity : {0}]
    /\ cache = file.locations
    /\ seen = 0
    /\ gemdStep = Idle
    /\ asked = <<>> /\ hooked = FALSE
    /\ selected = NoLocation
    /\ changed = FALSE
    /\ shown = cache
    /\ unsaved = FALSE

\* gemd takes a request: in its round, or from a confirmation's hook.
Serving == gemdStep = Idle /\ (asked = <<>> \/ hooked)

IdentifyAfter(what) == gemdStep' = [at |-> "identify", after |-> what]

\* gemconf_save() replaces the file whole.
Replace(locations) ==
    /\ file.identity < MaxSaves
    /\ file' = [locations |-> locations, identity |-> file.identity + 1]

\* gemconf_set() or gemconf_remove() on the cache, and the save of it; when
\* that fails the call does, and the cache keeps the change.
SaveCache(locations) ==
    /\ cache' = locations
    /\ \/ Replace(locations) /\ IdentifyAfter("save") /\ unsaved' = FALSE
       \/ UNCHANGED file /\ gemdStep' = Idle /\ unsaved' = TRUE

\* gemd_desktop_config_watch(), every tenth of a second outside a panel: a
\* load that fails is tried again.
Watch ==
    /\ gemdStep = Idle /\ asked = <<>>
    /\ file.identity # seen
    /\ cache' = file.locations
    /\ IdentifyAfter("load")
    /\ unsaved' = FALSE
    /\ UNCHANGED <<file, seen, asking, selected, changed, shown>>

\* Mutant: whatever the file was when it was saved, nobody is told.
IdentifySilently ==
    /\ gemdStep.at = "identify"
    /\ seen' = file.identity
    /\ gemdStep' = Idle
    /\ UNCHANGED <<file, cache, asking, selected, changed, shown, unsaved>>

(***************************************************************************)
(* The end of gemd_desktop_config_reload() and gemd_desktop_config_saved(): *)
(* the identity of the file as it is now, after it was read or written.     *)
(***************************************************************************)
Identify ==
    /\ gemdStep.at = "identify"
    /\ seen' = file.identity
    /\ changed' = TRUE
    /\ gemdStep' = Idle
    /\ UNCHANGED <<file, cache, asking, selected, shown, unsaved>>

\* gemd_location_add(): the cache, with the new location, replaces the file.
LocationAdd(l) ==
    /\ Serving
    /\ SaveCache(cache \cup {l})
    /\ UNCHANGED <<seen, asking, selected, changed, shown>>

(***************************************************************************)
(* gemd_location_remove() asks first.  gemd_pump_hid() installs the hook    *)
(* for the Delete key; main() does not for a LOCATION_REMOVE, which finds   *)
(* it installed when it comes from the hook of a panel.                     *)
(***************************************************************************)
Ask(l, serves) ==
    /\ Len(asked) < MaxAsked
    /\ l \in cache
    /\ asked' = <<l>> \o asked /\ hooked' = serves
    /\ UNCHANGED <<file, cache, seen, gemdStep, selected, changed, shown, unsaved>>

LocationRemove(l) ==
    /\ Serving
    /\ \E serves \in BOOLEAN : /\ asked # <<>> => serves
                             /\ Ask(l, serves)

DeleteKey ==
    /\ gemdStep = Idle /\ asked = <<>>
    /\ selected # NoLocation
    /\ Ask(selected, TRUE)

\* The alert ends: Cancel, or the cache without the location is saved, if it
\* is still there.
Confirmed ==
    /\ gemdStep = Idle /\ asked # <<>>
    /\ asked' = Tail(asked)
    /\ hooked' = (hooked /\ asked' # <<>>)
    /\ \/ UNCHANGED <<file, cache, gemdStep, unsaved>>
       \/ Head(asked) \in cache /\ SaveCache(cache \ {Head(asked)})
    /\ UNCHANGED <<seen, selected, changed, shown>>

(***************************************************************************)
(* desktop_inf_config_put() loads the file itself and keeps as many of its  *)
(* locations as the legacy image has items, then gemd reloads.              *)
(***************************************************************************)
ShelPutLoad ==
    /\ Serving
    /\ \E kept \in SUBSET file.locations :
           gemdStep' = [at |-> "put", locations |-> kept]
    /\ UNCHANGED <<file, cache, seen, asking, selected, changed, shown, unsaved>>

ShelPutSave ==
    /\ gemdStep.at = "put"
    /\ \/ /\ Replace(gemdStep.locations)
          /\ cache' = gemdStep.locations
          /\ IdentifyAfter("load")
          /\ unsaved' = FALSE
       \/ gemdStep' = Idle /\ UNCHANGED <<file, cache, unsaved>>
    /\ UNCHANGED <<seen, asking, selected, changed, shown>>

\* LOCATION_SELECT of an icon the cache still knows.
Select(l) ==
    /\ Serving
    /\ l \in shown
    /\ selected' = IF l \in cache THEN l ELSE NoLocation
    /\ UNCHANGED <<file, cache, seen, gemdStep, asking, changed, shown, unsaved>>

\* desktop_refresh_locations(): LOCATION_LIST, and no icon is selected.
Refresh ==
    /\ Serving
    /\ changed
    /\ changed' = FALSE
    /\ shown' = cache
    /\ selected' = NoLocation
    /\ UNCHANGED <<file, cache, seen, gemdStep, asking, unsaved>>

(***************************************************************************)
(* Another libgemconf client adds or removes a location of the file.  Its   *)
(* transaction does not overlap gemd's own writes (SECURITY.md asks that of *)
(* cooperating applications); it may fall between gemd's answers, while a   *)
(* confirmation waits and, with Overlap, inside a reload.                   *)
(***************************************************************************)
OtherSaves(l) ==
    /\ \/ gemdStep = Idle
       \/ Overlap /\ gemdStep = [at |-> "identify", after |-> "load"]
    /\ Replace(file.locations \cup {l}) \/ Replace(file.locations \ {l})
    /\ UNCHANGED <<cache, seen, gemdStep, asking, selected, changed, shown, unsaved>>

Next ==
    \/ Watch \/ Identify \/ Confirmed \/ ShelPutLoad \/ ShelPutSave
    \/ DeleteKey \/ Refresh
    \/ \E l \in Locations : \/ LocationAdd(l) \/ LocationRemove(l)
                            \/ Select(l) \/ OtherSaves(l)

(***************************************************************************)
(* main() looks at the file before it serves the requests of each round,    *)
(* and the Desktop reads its messages between two requests of its own; a    *)
(* confirmation is answered, though requests, and confirmations above it,   *)
(* come before.                                                             *)
(***************************************************************************)
Fairness ==
    /\ WF_configVars(Identify) /\ WF_configVars(ShelPutSave)
    /\ \A n \in 1..MaxAsked : SF_configVars(Len(asked) = n /\ Confirmed)
    /\ SF_configVars(Watch) /\ SF_configVars(Refresh)

Spec == Init /\ [][Next]_configVars /\ Fairness

-----------------------------------------------------------------------------
(***************************************************************************)
(* When nobody saves any more, the icons end up being the locations of the  *)
(* file, whatever was added, removed, put or saved elsewhere before, unless *)
(* gemd's own last save failed (main.c 76-118).                             *)
(***************************************************************************)
Converges == <>[](unsaved \/ shown = file.locations)

(***************************************************************************)
(* A file whose identity gemd has recorded is the one it has parsed, so     *)
(* that "reloads its parsed cache when an independent libgemconf client     *)
(* saves it" (API_TRANSPORT.md 152-154) needs no second save.               *)
(***************************************************************************)
SeenIsCached ==
    gemdStep = Idle /\ seen = file.identity /\ ~unsaved => cache = file.locations
=============================================================================
