# Verification of the gemd display server and its desktop

TLA+ models of the GEM desktop in this repository: the single-threaded display
server `gemd`, the AES and VDI it links, the applications that talk to it over
Unix sockets, and the parts of those applications that change files or keep a
state of their own. The server is small, but everything that is hard about it is
hard to test: it re-enters its own dispatcher while a panel waits for the user,
its clients crash at any point, and half a dozen pieces of global state
(`aes_state`, `vdi_state`) are shared by all of them.

Line numbers are those of the commit these modules were written for; paths are
relative to the repository.

## 1. Inventory

| Component | Where | State | Operations |
|---|---|---|---|
| Main loop, panel service | `src/gemd/main.c` | `g_stopping`, `g_modal_session`, `aes_wait_hook`, the poll set with its generations | `main()`, `gemd_pump_hid()`, `gemd_handle_request()`, `gemd_service_modal()`, signals |
| Sessions | `src/gemd/session.c` | `g_sessions[]`: fd, generation, application id, deadlines, `handling_request` | accept, authorize, may-run, close, `gemd_cleanup_app()`, shutdown |
| Transport | `src/gemd/transport.c`, `src/gem/client.c` | per session: a partial frame or one reply | receive, send, reply; the client's synchronous call |
| Dispatch | `src/gemd/dispatch_aes.c`, `dispatch_vdi.c` | the selected location | one case per request; USERDEF call-backs; desktop locations; drawing piece by piece |
| AES messages | `src/aes/aes.c` | one table of 64 slots, sequence counter | `appl_write`, `appl_read`, redraw merging, purge |
| AES update lock | `src/aes/window.c`, `window_drag.c`, `event.c` | shared counter, one count per application | `BEG_UPDATE`, `END_UPDATE`, interaction lock, unwinding |
| AES windows and menus | `window*.c`, `menu*.c`, `system_menu.c` | windows with owner and z-order, menu tree and owner, active application, desktop owner | create, open, close, delete, top; menu bar; system items |
| AES geometry | `window_visible.c`, `window_redraw.c`, `aes_geometry.c` | what the screen shows | visible rectangles, redraws, drags |
| AES events | `src/aes/event.c` | input focus, one event queue per application, keys held | `evnt_multi`, activation by click, queueing, resets |
| AES panels | `form.c`, `alert.c`, `file_selector.c` | the C stack; the form layer | `form_alert`, `form_do`, `form_dial`, selectors |
| AES launching | `src/aes/aes_shel.c` | reserved ids, child records | `shel_write`, `shel_read`, reaping |
| AES objects | `object_*.c`, `resource.c` | trees | drawing, editing, encoding |
| Overlays | `src/gemd/overlay.c` | surfaces above a window | create, update, remap, clean up |
| VDI | `src/vdi/` | surface, pointer's save-under, update depth, dirty rectangle | drawing, copies, presenting |
| Presenter | `lib/platform/rasta/raster.c` | framebuffer file, overlays, pointer mask | publish, resynchronise |
| Configuration | `lib/gemconf`, `src/gemd/main.c` | `desktop.cfg`, its cache and identity | load, atomic save, watch |
| Desktop | `src/apps/desktop/` | the Trash, the icons, browsers | put, restore, export, purge, paste; refresh |
| Terminal | `src/apps/terminal/` | buffer, margins, alternate screen | one operation per control sequence |
| Disk images | `lib/stout/disk_write.c`, `lib/fat12` | allocation table, directories | write, delete, make, rename |
| Applications, Stout | `src/apps/`, `lib/stout` | their own | clients of the server |

How they interact: a client sends one request and waits for its reply. `main()`
polls, dispatches physical input, visits every session, accepts, and starts over.
A request that opens a panel does not return until the user answers; the panel's
loop calls `aes_wait_hook`, which is `gemd_service_modal()`, which visits all
other sessions and so runs `gemd_dispatch()` again, below the suspended call.
Physical input can open a panel of the server's own (Shutdown) the same way. A
tree with a USERDEF object is drawn with calls in the other direction, from the
server to the client that waits for the drawing. The AES has no locks: what
protects one client from another is the order of the code and the checks each
visit repeats.

What is hard about it:

* *Re-entrancy.* Slots are closed and reused, locks taken, windows deleted and
  applications gone between two lines of a suspended call.
* *Crashes.* A client can go with a lock, a window, a menu, the desktop, the
  form layer or a panel; `gemd_cleanup_app()` must undo exactly that. The Desktop
  can be killed between two system calls of a move.
* *Stale readings.* `poll()` results, session pointers, window handles and
  application ids are kept across calls that can recycle them; the file's
  identity and the parsed copy of it are read at two moments.
* *Late answers.* Redraws are asked for now and drawn later, under another
  stacking; a call-back may be answered after its deadline.
* *Deadlines.* Unread replies, silent connections and held locks expire, with
  different rules in the main loop, under a client's panel and under the
  server's own.
* *Shared state.* One counter, one message table, one bar, one surface with the
  pointer in it serve everybody; several bounded tables can be full.

What makes each component correct:

* main loop and panels: the requester of a panel stays, the hook is installed
  exactly as long as a panel, a reply goes to whoever asked, one standard panel at
  a time, everybody else is served meanwhile, and the server can be stopped;
* transport: a call returns its own answer or fails with its connection, is
  carried out at most once, and returns;
* update lock: one holder, who draws alone, a counter equal to what is owed,
  and a lock that is always given up;
* messages: per application a first-in first-out queue of control messages that
  goes before its redraws, and no damage lost;
* desktop: nothing belongs to an application that has left, and what the others
  see after an exit is what the documents promise;
* windows and redraws: every cell of the screen shows what is on top there, or
  somebody still owes it;
* input: nobody who reads physical keys believes a key held that is not, but for
  what the code takes from a reader without a reset;
* launching: each application that was launched reads its own command under its
  own id, every other one what its environment hands down;
* configuration: the Desktop's icons end up being those of the file;
* Trash: no file is lost, but for another program's that gets in a command's way,
  and whatever lies whole in the Trash can be restored;
* disk images: chains stay disjoint and complete, and operations are those of a
  store of files by path;
* Terminal: cursor, margins and view stay on the screen, the history as it was;
* VDI: the display shows what was drawn last and the pointer where it is; a copy
  reads its source before writing over it.

`PROJECT.json` lists the components with their status and every hazard with its
line.

## 2. Modules

| Module | Stands for | Abstract specification |
|---|---|---|
| `UpdateLock` | the update counter, its per-application counts and the drag lock | `ScreenOwner` |
| `AesMessages` | the message table | `Mailbox` |
| `Gemd` | the server: sessions, main loop, stack of waits, panel service, deadlines, shutdown, and its clients | `UpdateLock` (for the lock it keeps) |
| `AesDesktop` | who owns windows, bar, activity, focus, desktop, form layer and an alert's window | – |
| `RpcTransport` | one client's calls, frames in pieces, call-backs, both ends | `RemoteCall` |
| `DesktopConfig` | `desktop.cfg`, gemd's cache, the Desktop's icons, another writer | – |
| `ShellLaunch` | launch records, reserved ids, processes | – |
| `InputQueue` | key events, their queues and the keyboard's owner | – |
| `WindowStack` | window stack, redraws, visible rectangles, overlays' masks | – |
| `VdiScreen` | the surface, the pointer in it, updates, presenting | – |
| `RasterCopy` | copies from the screen to the screen | – |
| `Trash` | the Trash over moves, copies and removals | – |
| `FatVolume` | a writable FAT12 image | `FileStore` |
| `Terminal` | the Terminal's buffer under control sequences | – |
| `AesDesktop_proofs`, `VdiScreen_proofs`, `WindowStack_proofs` | theorems about the module of that name | |
| `Services_proofs` | theorems about `UpdateLock` and `RpcTransport` | |
| `Display_proofs` | theorems about `AesMessages` and `RasterCopy` | |
| `Devices_proofs` | theorems about `Terminal` and `InputQueue` | |
| `Gemd_proofs` | the server's theorems: its invariant, what holds while waits cannot nest, and that it implements `UpdateLock` | |
| `Components_proofs` | theorems about `Trash` and `ShellLaunch` | |
| `MCGemd`, `MCAesDesktop`, `MCServices`, `MCComponents`, `MCDevices`, `MCDisplay` | instances for TLC | |

`MCServices`, `MCComponents`, `MCDevices` and `MCDisplay` each hold several components that share no state;
a variable (`part`, `display`) chosen in the first state says which one moves.
So one run answers several questions, and a component's states are added to
the others', not multiplied.

### UpdateLock

`live`, `depth`, `updateDepth` are the application table, `aes_app_t.update_depth`
and `aes_state.update_depth`; `dragger` is the application inside
`graf_dragbox()`, which counts once in the shared counter on nobody's account.
`MayRun` is `gemd_session_may_run()`; it guards every action of a client, as
`main()` and the hook do. `Leave` is the unwinding loop of `gemd_cleanup_app()`,
whose `END_UPDATE`s each stop at zero. The mapping to `ScreenOwner` names as
holder whoever has a count or a drag: that this is one application is what the
code has to achieve with counters.

### AesMessages

The slots, `next_message_seq` and the two scans of `appl_write()` and
`appl_read()`: the first slot that fits, the oldest message of the preferred
class. `appl_write()` asks nothing of the destination, so ids that nobody reads
are among `Apps`. A rectangle is one axis, a start and a size; the two axes of
`aes_union_message_rects()` are independent. `damage` is a history variable:
pixels accepted and not yet read. The refinement mapping to `Mailbox` (in
`MCDisplay`) sorts the slots by sequence number.

### Gemd

`sess` is `g_sessions`, with the client at the other end of each socket
(`peer`, `wire`). A connection is named by its generation, which also stands for
its application. `stack` is the part of the C stack that waits, innermost first:

* `request`: `gemd_handle_request()` inside a panel, a form, a drag, the
  confirmation of a removed location, or the nested `evnt_multi()`;
* `system`: a panel opened by physical input; `command`: one opened by
  `evnt_multi()` itself, under another's hook;
* `service`: `gemd_service_modal()`, with the session it visits next.

| Action | Code |
|---|---|
| `PollSockets`, `PumpEvent`, `PumpDone`, `MainVisit`, `MainAccept` | one part of an iteration of `main()` each |
| `CallHook`, `ServiceVisit`, `ServiceReturn` | `gemd_service_modal()`: the cancel tests and the accept, one session, the return |
| `HandleRequest`, `Dispatch` and below | `gemd_handle_request()` and the cases of `gemd_dispatch()` that change this state; all other requests are `CALL` |
| `FinishFrame` in `UserAnswers`, `EvntReturns`, `UserConfirms` | what runs after a wait: the unlock of a drag, the end of the hook, the reply |
| `CloseSession`, `CleanupApp` | `gemd_close_session()` with `gemd_cleanup_app()` |
| `Stop`, `ShutdownVisit` | the end of `main()` and `gemd_shutdown()` |
| `Send`, `Stall`, `Gone`, `Expire`, `Signal` | clients, clock, signals |

A visit's I/O and dispatch are one step because nothing else runs between them.
Frames arrive whole here; that they arrive in pieces is `RpcTransport`'s subject.

### AesDesktop

`window` is the window table by handle; `above` has the pairs of windows in use
that `z_order` orders, all that is ever asked of that number; the top window is
the open one with no open one above it. `menu_owner_app_id`, the active
application and the top window are three things the code sets together in some
places and apart in others. `Leave` is `gemd_cleanup_app()` in its order: detach
the menu, give up desktop, focus and form layer, close and delete the windows one
handle at a time (each of which may switch the bar), let the bar follow, find an
heir for the desktop, look at the active application again. `OpenAlert` and
`CloseAlert` are the two ends of `form_alert()`, between which other
applications go on. That an alert's requester stays meanwhile is what `Gemd`
shows (`RequesterStays`); that the server's own alert has no requester to keep is
why `SystemAlert` may run as anybody who was served before.

### RpcTransport

`stack` and `sock` are the client: the calls it is in, one inside the other when a
drawing function makes calls, and its socket. `link` holds both ends of each
connection with the pieces under way, `io` is `gemd_io_t`, `drawing` the tree the
server draws and the call-back it waits in. `Exchange` is one visit of
`gemd_receive()` and `gemd_send()`, which take what the socket has; `AskUser`,
`CallbackExchange`, `CallbackServe` and `CallbackEnds` are
`gemd_user_callback()`, which puts the session's frame aside and serves the
client's own drawing calls until it acknowledges or two seconds pass. What the
client cannot know, that it reconnected inside a drawing function, is modelled:
`CallbackLost`.

### DesktopConfig, ShellLaunch, InputQueue

`DesktopConfig` has the file with its identity, gemd's parsed cache and the
identity it recorded, and the Desktop's icons. `Watch` reads and `Identify` then
looks at the file again, two steps as in `main.c`. `LocationRemove` and the Delete
key stop at a confirmation; `asked` is the stack of those on the screen. Under the
Delete key's, which has the hook (`main.c:149-152`), and under a `LOCATION_REMOVE`
that came from a hook, other clients add, select, put and remove locations, and
`Watch` does not run; under one from the main loop nobody is served. Another
libgemconf client saves the same file between gemd's answers.

`ShellLaunch` follows an id: `ShelWrite` reserves it and puts it in the
environment of the process it spawns; `ApplInit` takes the id on record for the
pid, or the next of the circle; `ReapChildren` frees the record. Processes
connect, leave and exit in any order, and their pids are used again. Without a
record `shel_read()` asks `gem_os_process_launch()`, which prefers
`GEM_SHEL_CMD` and `GEM_SHEL_TAIL_*` of the environment to the command line
(`os.c:736-739`): `told` is what a process's environment says, its own command
for a launched one and its parent's for one that a launched one has started
(`ProcessLaunch`).

`InputQueue` has the keys physically held, the queue of each application and what
it believes. `DispatchKey` is `aes_dispatch_key()` with its overflow; the `Evnt*`
actions are the uses of `evnt_multi()` and `evnt_keybd()`: `EvntAsks` chooses how
the application sees the keyboard, with whatever is queued or pending, `EvntReset`,
`EvntKey` and `EvntTake` take one event each, and `EvntForward` passes on one that
was queued for another owner. Nothing keeps the owner from changing, or a panel
from taking a key, while a key is believed held. Where the code does so without
raising the reset, the history variable `missed` records for the application
misled the keys it was misled about, until it no longer believes them held:
`Unannounced` for the four changes of owner that do not go through
`aes_set_input_owner()`, `Misses` for keys taken, dropped or forwarded.

### WindowStack, VdiScreen, RasterCopy

`WindowStack` is the screen as cells. Every window call computes the new stack,
then what the server paints itself (frames, desktop, the modal form) and what it
asks of applications; these take a redraw, lock the screen, walk the visible
rectangles and draw one at a time while the stack may change before and after.
`Subtract` and `Visible` are the rectangle lists of `window_visible.c`.

`VdiScreen` is one row of cells of the monochrome surface, everything in
`vdi_state` about the pointer, updates and damage, and what the presenter's
framebuffer shows. The pointer is drawn into the surface, so a drawing call must
put back what it covers (`Prepared`), mark what it draws (`Marked`) and present
(`Presented`). `Rect` stands for all that go through `vdi_fill_rect()`; polygons,
contours, clears, region redraws and drags take other ways and are actions of
their own. `canvas`, what the calls asked for, is a history variable.

`RasterCopy` gives every pixel another value and makes every copy within
`MaxShift`, row by row with edge bytes and a block move, or pixel by pixel, as
`vdi_blit_bitmap()` chooses, once for each visible piece of the window.

### Trash, FatVolume, Terminal

`Trash` takes one system call per step: a move is a rename that replaces nothing,
the look and plain rename the code falls back to (`MoveRename`), or across file
systems a rename to a hidden name, a copy to the destination and a clean-up
(`Stage` to `Cleanup`), each of which may fail; `Crash` may follow any of them. A
copy that fails by `EEXIST` leaves the destination alone; one that fails otherwise
gives the source its name back, over whatever is there, and removes the
destination, whatever is there. Payload and `.trashinfo` record are apart. Other
programs create and remove files at any time and under any name, those a command
is at work on included. `kept` is a history: the files the program may not lose.
Those are the ones that were there when the last command began and those created
since, unless created where the command under way would write over them or remove
them (`Endangered`, and `CopyCreate` for what it takes for its own leftovers).

`FatVolume` has the allocation table, the fixed root and directories in chains of
their own. Every operation works in memory and restores a backup on failure, so
it is one step; inside, it allocates, extends, frees and fills in the code's
order. `readable` is what is read back under each path, which must be a
`FileStore`.

`Terminal` has one action per complete control sequence, with the cursor a row of
the buffer and margins rows of the screen as in `vt100.c`, the primary screen put
away under an alternate one, and the two things the user does: resize and scroll.

## 3. What is checked

| Run | Question | Instance | States |
|---|---|---|---|
| `services` | lock: is the counter an exclusive lock, through drags, nesting and exits? transport: does a call return its answer, once? config: do the icons follow the file? copy: does it read what it overwrites? | lock: 3 applications, nesting 4; transport: 5 calls, 2 connections, 2 pieces per socket, 2 call-backs; config: 2 locations, 4 saves, 2 confirmations; copy: 8x3 pixels, distances up to 2 | 130 k |
| `components` | trash: is any file lost? launch: does everybody launched read his own command? screen: does the display show what was drawn? | trash: 2 files, 2 names on 2 file systems; launch: 3 processes, 2 records, 3 ids; screen: 3 cells, pointer of 2, nesting 2 | 1.3 M |
| `devices` | volume: is it sound, and a store of files? keyboard: does anybody believe a released key held? terminal: do offsets and history survive every sequence? | volume: 3 clusters, 2 root entries; keyboard: 2 applications, 1 key, queue of 3; terminal: 5 sequences, 4 rows, windows 3x1 and 2x2 | 416 k |
| `display` | does the screen show the stacking, is what is handed out what can be seen, does an overlay stay behind what covers it? does the message table implement the mailbox, full or not? | an application's desktop and the server's, 36 cells, 2 windows, a form, 3 changes, with overlays 2; messages: 2 ids, 2 windows, 2 slots, 2 pixels, 3 messages | 86 k |
| `panels` | what do panels and reused slots do to hook, requester and replies? | 2 slots, 3 connections, 1 physical event | 2.1 M |
| `locks` | does the server keep the lock's promises with every deadline? | 2 slots, 3 connections, nesting 2 | 1.7 M |
| `forms` | forms, nested event calls, menus, exits; is everybody served? | 2 slots, 2 connections, 1 nested command | 174 k |
| `live` | is everybody served, the lock given up, the server stopped? | 2 slots, 2 connections | 107 k |
| `desktop` | who owns what after every exit? | 3 applications, 3 windows | 324 k |
| `reply`, `location`, `alert` | see *Findings* | | violations |

Properties worth naming, in the order of the runs:

* `CounterIsOwed`, `OwnsScreen`: the update counter is never
  stuck and never lost. The comment at `session.c:174` expects `BEG`/`END` pairs
  of several applications to interleave; `ExclusiveHolder` shows that
  `gemd_session_may_run()` never lets them.
* `ImplementsRemoteCall`: frames in pieces, call-backs inside calls and a late
  acknowledgement never hand a call another one's answer. `CallsReturn`: every
  call returns, though connections are lost and call-backs time out.
* `Converges`: once nobody saves any more, the icons are those of the file, also
  when locations came and went under a confirmation.
* `NothingLost`, `TrashIsListed`: at every crash point and failing call, and
  whatever another program does. What lies there when a command begins survives
  it; so does what another program creates meanwhile, anywhere but in its way.
* `OwnCommand`: a launched application reads its own command and id whatever the
  order of connecting, exiting and reaping, and one that was not launched reads
  what its environment says.
* `SoundVolume`, `ImplementsStore`: no leaked or shared cluster; an operation
  happens whole or not at all.
* `InStep`: overflows, resets, clicks that change the focus, and readers that
  change how they see the keyboard never leave a key believed held that the
  reader was not misled about (`missed`). It does not say that a change of focus
  is safe: four of the code's ways are not, and what they cost is in `missed` (see
  *Findings*). What it excludes is a loss the code has made no such step for: a
  queue that drops a release, a reset that is forgotten, comes late or leaves old
  events behind, a release overtaken by its press.
* `OnScreen`, `HistoryKept`: the offsets of `vt100.c` and the scrolled-back text.
* `NothingStale`: every cell shows what is on top there, or somebody owes it;
  `VisibleExact`: the rectangle lists are the visible set, each cell once;
  `OverlayMasked`: an overlay stays behind what is in front of its window.
* `ShownIsDrawn`: through save-under, nested updates, dirty rectangles and a new
  framebuffer, the display is the drawing. `CopyExact`: copies read first.
* `DamageCovered`, `ImplementsMailbox`: a merged redraw covers what it replaced,
  and slots reused in any order still deliver in the order of acceptance.
* `RequesterStays`, `HookCoversPanel`, `ReplyToRequester`, `OnePanel`: the
  suspended call finds what it left.
* `DrawsAlone`, `ClosedForCause`, `ImplementsUpdateLock`: the whole server, with
  its re-entrant dispatch, implements `UpdateLock`, and no connection is closed
  for another one's event or deadline.
* `OwnersAlive`, and in `AesDesktop` `OwnersLive`, `BarIsLive`,
  `SuspendedCallIntact`, `ExitSelectsSurvivor`, `ExitBarFollowsTop`: nothing
  survives in a leaver's name, and the bystanders see what the documents say.
* `CallsServed`, `LockGivenUp`, `Stops`.

Every property is also run against a mutated definition (`PROJECT.json`,
`mutants`): a plausible bug in the mapped code that must break it. The mutated
forms stand in the modules before the definitions they replace.

### Bounds

*Server.* Two slots are enough for a requester and another client, and three
connections for a slot to be reused while its previous owner's frame, poll result
or deadline is still around; a third slot adds only a second bystander. Nesting 2
distinguishes the outermost `BEG_UPDATE` (which starts the deadline) from an
inner one. One physical event per pump (`MaxHid`) is enough to put a server panel
below or above any visit. `MaxCommands` bounds the panels that `evnt_multi()`
opens inside itself; each one adds the same frame again. Three applications and
three windows let a leaver have a window above and one below another's, with a
bystander; the constraint `OneExtra` keeps a form, an alert and a third window
from all being there at once. The requests of each run (`Ops`) are the ones its
question is about, because all thirteen together are out of reach; across the
runs every action and every disjunct is taken.

*Services.* `Calls` 1..5 on two connections let a lost connection be replaced
inside a drawing function and the stale one still answer; `Buffer` 2 tears every
payload of three pieces and no header; `MaxAsks` 2 makes a second call-back follow
one that timed out. `MaxSaves` 4 lets two writers each save before and after the
other. The lock's `WordLimit` is just above the nesting and the drag, as 32766 is
above 64.

*Components.* `LastSuffix` 1 gives a name two places in the Trash and lets them
run out; `MaxHidden` 1 lets one remnant of a crashed move be there while others
move. Three ids for two applications make the circle wrap, `NumLaunches` 2 makes
the records run out with a third process to reuse a pid or be started with the
environment of a launched one. Three cells with a
pointer of two leave one cell that is not under it, one that is under it at two
places, and an edge that clips it; nesting 2 tells an inner end of an update from
the last.

*Devices.* Three clusters let a file of two meet a full volume, and a directory
take one; `PerCluster` 3 leaves a directory one entry beside its dots before it
has to grow. A queue of three overflows with a press still in it; two applications
are an owner and the one that loses or gets the keyboard, and a third, which only
hands it between two others, is left to `ReadersStayInStep`. Five sequences
(`MaxSequences`) on four rows reach a full buffer with margins, an alternate
screen and a resize.

*Display.* Two windows and a form overlap pairwise on six by six cells; three
changes of the stack (`MaxSteps`) let two be outstanding when the third comes. Two
slots fill the message table while a merge still goes through; `MaxSeq` bounds the
messages. In `services`, four bytes in a row give a copy two edges and a middle that
moves, three rows an overlap in both directions.

*Symmetry* is used for applications in `desktop`, for files and command lines in
`components` and for what messages are about in `display`, which are only compared; no run with a liveness property uses it.

### What the parameters leave out

Some modules take a parameter that names calls the code accepts and gets wrong.
The runs take the value with which the properties hold, so that they show
everything else; *Findings* says what happens with the others.

| Parameter | Taken | Left out |
|---|---|---|
| `WindowStack!Careless` | `{}` with an overlay, all but `"raise"` without | a click that raises a form, an exit with a form; a raise from under the form or a shadow |
| `ShellLaunch!Overtaking` | FALSE | an unrelated application connects before a launched one |
| `DesktopConfig!Overlap` | FALSE | a save between gemd's `read()` and `stat()` |
| `Terminal!ResizesAlternate` | FALSE | a resize under the alternate screen |
| `VdiScreen!Exposed` | `{}` | polygons and contours over the pointer, clears inside updates |
| `RasterCopy!Exposed` | `{}` | overlapping copies that are unaligned or in pieces |
| `Gemd!MaxHid` in `live`, `forms` | 0 | server panels while a lock is held |

### Fairness

`FairSpec` of `Gemd` assumes weak fairness of the server's own steps (a thread
that keeps running), strong fairness of the return of the nested `evnt_multi()`
(its loop has no wait of its own once `timeout` is zero, but each turn calls the
hook again), and that a held lock's five seconds pass. Nothing is assumed of the
user, who may leave a panel open for ever, nor of clients, who may hold a lock,
stop reading or vanish. Two limits are the code's own and are not hidden by
fairness:

* Under a panel of the server's own, `g_modal_session` is NULL and
  `gemd_service_modal()` looks at neither the lock's nor the transport's
  deadline. With `MaxHid = 1` `LockGivenUp` fails: a Shutdown question nobody
  answers keeps a lock for ever. `API_TRANSPORT.md` says that time in native
  tracking is excluded from deadlines, so this is listed as a hazard, and the
  liveness runs use `MaxHid = 0`.
* `forms` takes no `gone`: with it `CallsServed` fails for the reason of
  finding `reply`.

`RpcTransport` assumes weak fairness of the server's main loop and deadlines, of
the client's reads and writes inside a synchronous call, and that drawing functions
return. That is what `gem_rpc_call()` and `gemd_user_callback()` loop over. It is not assumed that a
call-back is answered in time. `DesktopConfig` assumes that gemd goes
on from its half-done steps, and with strong fairness, because requests keep
coming in between, that the confirmations at each depth are answered, that gemd
looks at the file and that the Desktop reads its messages.

## 4. Findings

With a run of their own:

* **`reply`** (`main.c:264`). An `EVNT_MULTI` dispatched by a panel's hook while a
  form is open runs `evnt_multi()`, which calls the hook again; there its own
  session can be closed and the slot accepted anew. The finished call then
  clears `handling_request` and queues its reply in a session of another client.
* **`location`** (`main.c:253`). `LOCATION_REMOVE` opens a `form_alert()` but is
  not in `gemd_request_may_wait()`: from the main loop it waits with no hook, and
  nobody is served, no deadline runs and no signal is seen until the user
  answers. For the same reason a panel's hook dispatches it and it opens a second
  panel on top of the first. The nested `evnt_multi()` also takes physical input
  itself and can open the Shutdown alert over a panel.
* **`alert`** (`alert.c:687`). The Shutdown alert's window belongs to whoever was
  served last. If he leaves meanwhile his clean-up deletes it, the handle is
  given to another application's new window, and the alert closes and deletes
  that one when the user answers.

Shown by the other value of a parameter of the module; change it in the MC module
and the run named fails:

* **Bar of a background application** (`menu.c:28`): `menu_bar()` of a background
  application takes the bar from the top window's owner, contrary to
  `API_TRANSPORT.md:115-116`. (Not a parameter: `AesDesktop` models it, and
  `ExitBarFollowsTop` is stated of exits only.)
* **Keys believed held** (not a parameter: `InputQueue` models it, and `InStep`
  leaves out what `missed` records; without it the property fails). `appl_init()`
  (`aes.c:79`), `form_dial()` (`form.c:296`), window activation and the first
  click (`event.c:90-95`) change the keyboard's owner without a reset to the old
  one; panels, calls that ask for no keys (`event.c:406`) and forwarding
  (`event.c:418-423`) consume key events. So the reset of `API_TRANSPORT.md:209`
  is not raised, and a key released later is believed held.
* **Another program's file in a command's way** (not a parameter: `Trash` models it,
  and `NothingLost` is stated of `kept`). A copy that fails for another reason than
  `EEXIST` unlinks or removes the destination it did not create (`os.c:1090`,
  `1245-1246`, `1316-1317`); where the kernel has no `RENAME_NOREPLACE` a move
  looks and then renames over what has appeared (`1258-1264`); and a failed move
  renames its source back over what has appeared there (`1315`).
  `SECURITY.md:155-168` says that a failed copy "removes its partial destination",
  that restores "never overwrite an existing entry" and that exports "preserve
  destination entries".
* **Somebody else's command** (`components`, `OwnCommand`, `Overtaking`):
  `appl_init()` of an application started elsewhere may be given an id that is
  reserved for one that has not connected (`aes.c:60-72`), against
  `API_TRANSPORT.md:164-173`. (Not a parameter: what a launched application starts
  itself inherits `GEM_SHEL_CMD` and reads its parent's command, `os.c:736-739`;
  `OwnCommand` says so of those that were not launched.)
* **A save that is not seen** (`services`, `DesktopConfig!SeenIsCached`,
  `Overlap`): gemd reads the file and takes its identity afterwards
  (`main.c:93`); a save in between is recorded and never loaded, against
  `API_TRANSPORT.md:152-154`.
* **Stale overlay masks** (`display`, `OverlayMasked`, `WindowStack!Careless`): a
  click that raises a form's window (`event.c:113`) and an exit (`session.c:121`)
  change what is in front without telling `overlay.c`.
* **Raised from under a form** (`display`, `NothingStale`, `WindowStack!Careless`
  with `"raise"`; with windows that lie side by side and six changes):
  `aes_top_window()` asks `aes_window_rect_is_obscured()` (`window_redraw.c:519`),
  which looks for windows above this one, not at the modal form nor at a shadow. A
  window that only a form covers is raised above it with its title painted again
  and nothing else, and the form's pixels stay, against `window_redraw.c:486` and
  `CHANGELOG.md:305-308`.
* **Terminal** (`devices`, `OnScreen`, `ResizesAlternate`): leaving the alternate
  screen after a resize restores the cursor and margins of another size
  (`vt100.c:510-538`), against `terminal.h:165` and `CHANGELOG.md:236-242`.
* **Drawing under the pointer** (`components`, `ShownIsDrawn`, `VdiScreen!Exposed`):
  `v_fillarea()` and `v_contourfill()` write rows without
  `vdi_prepare_screen_write()`, so the pointer's save-under brings back what was
  there before; a contour also takes the pointer for part of the picture.
  `vdi_clear_screen()` marks nothing, so with a visible pointer or inside an
  update less than the screen is shown; `v_eeos()` of a client with a window
  clears the whole screen, although `dispatch_vdi.c:275` confines raster writes
  to its visible work areas.
* **Overlapping copies** (`services`, `CopyExact`, `RasterCopy!Exposed`): the
  sampling path of `vdi_blit_bitmap()` goes left to right and down whatever the
  direction, and `gemd_draw_owned()` repeats a copy for every visible piece, so
  that a later piece reads what an earlier one has written.

Seen while reading, not modelled: `overlay.h:28` promises that an unmapped
overlay keeps its pixels, but the presenter's copy is destroyed and not restored;
a resize to the same size clears only gemd's copy; an overlay keeps the handle of
a window that was deleted.

## 5. What is proved

TLAPS checks these for every value of the constants that satisfies the named
assumptions. Each inductive invariant was an invariant of a TLC run before it
was proved.

| Assumption | Says | Justified by |
|---|---|---|
| `LockAssumption` | the nesting bound is at least 1 and, with the one drag, below the limit of the `WORD` counter | 64 and 32766 in the code |
| `MessagesAssumption` | at least one slot and one pixel; an empty slot is not a message | the table's size, `in_use` |
| `GemdAssumption` | at least one slot and one nested update; bounds are naturals; clients and faults do what the module names | `g_sessions`, the 64 of `session.c:410` |
| `DesktopAssumption` | id 0 is nobody's; at least one window, one of them per application | ids start at 1, `AES_MAX_WINDOWS` |
| `TrashAssumption` | no file is neither a file's content nor a name; the last suffix is a natural | `ENOENT`, the suffix loop's bound |
| `LaunchAssumption` | there is at least one id; no process and no command is neither | ids run from 1 to `INT16_MAX` |
| `TerminalAssumption` | the buffer has two rows or more; a window has one row and column at least and no more than the buffer | `TERM_MAX_LINES`, `TERM_MAX_COLS`; `vt100.c:826-827` |
| `ScreenAssumption` | the screen has a cell; pointer width and nesting are naturals; hot spots are integers, 0 among them; layer and work lie on the screen | `VDI` surfaces, `vsc_form()`'s hot spot |
| `InputAssumption` | application ids are numbers from 1; the queue's size is a natural | `appl_init()`, `AES_APP_INPUT_QUEUE_SIZE` |
| `RasterAssumption` | the screen has a pixel, a byte a width; cuts lie inside the screen | `vdi_state`, visible pieces |
| `StackAssumption` | rectangles are of integers, those of windows not empty; overlays are of windows; nobody is no application and no handle | `GRECT`; a window without a cell covers nothing and shows nothing, and is left out; ids start at 1 |
| `TransportAssumption` | calls are numbered; connections too, from 1; a socket takes at least one piece; call-backs are bounded by a natural | `gemd_connect()`, `write()` to a socket |

Each is stated in the module of its constants and evaluated by TLC on every run
of that module. What a theorem assumes beyond them is written in it and named
below.

**`Services_proofs`, of `UpdateLock`.** None of the properties is inductive: that the counter
is what one application owes depends on nobody else owing anything, which in
turn depends on `MayRun` having read the right counter. `LockInv` joins the type
invariant, `ExclusiveHolder`, `CounterIsOwed` and `DeadOweNothing`. `RunnerHolds`
is the step the code relies on: an application that may run finds the counter at
zero, and then nobody holds, or is itself the holder. Each action's proof is
that lemma and arithmetic. From `LockInv` follow `TypeCorrect`, `Exclusive`,
`Owed`, `EnteredOnlyFree` and `HolderKeepsItsLock`; `WordGuardUnreached` (the
guard in `wind_update()` never decides); and `ImplementsScreenOwner`, by
`ScreenStep`: every step takes the free screen, gives it back, or leaves it.

**`Display_proofs`, of `AesMessages`.** `DamageCovered` needs the merge to go to *the* pending
redraw, hence `OneRedrawPerWindow`; that needs slots to be well-formed and new
messages to have new numbers. `MsgInv` joins the type invariant, `SeqsDistinct`,
`OneRedrawPerWindow` and `DamageCovered`. `UnionCoversBoth` is the lemma about
`aes_union_message_rects()`: the union stays on the screen and covers both. Each
writer and reader has a lemma of its own. Then `MessagesTypeCorrect`,
`OrderIsStrict`, `RedrawsMerge` and `DamageNeverLost`.

**`Gemd_proofs`.** A request's frame outlives what it knew: while it waits, the
hook closes, accepts and serves other sessions. `Inv` holds of the stack and of
any stack a step moves on before it calls something else, so it is stated of an
argument (`Core(st)`). Its parts lean on each other:

* `Shape`: only the oldest frame is a panel of `g_modal_session`'s or the
  server's; whatever waits inside is the hook, a command, `LOCATION_REMOVE` or
  `EVNT_MULTI`, and never for that session. So the oldest frame's end is the one
  that clears the hook.
* `Hooked`: hook and `g_modal_session` are what the oldest frame makes them, and
  its session keeps its connection. So a drag is still its session's when it ends.
* `Counted`: at most one session holds the lock, a drag included, and the shared
  counter is what it owes. So only the holder may start a drag.
* `Consistent`, `OwnersAlive`: free slots are clean, connections all different,
  desktop and form layer somebody's who is there; `Loop`: where the main loop is.

`Invariance` gives `TypeCorrect`, `RequesterTheorem`, `HookTheorem` and
`OwnersTheorem`. `CauseTheorem` (`ClosedForCause`) needs besides that a recorded
hang-up is that of a connection which is gone, or was closed since (`Snapped`): the
answer of `poll()` is used on slots accepted anew, and closes nobody for it.

Three more results are false as they stand, as runs `reply` and `location` show:
`OnePanelTheorem`, `ReplyTheorem` and `DrawsAloneTheorem` hold of behaviours in
which no request waits inside another's wait (`~NestedWait`). They say that
nesting is the *only* reason. The last part of the module shows what that takes:
every waiting request was some client's (`Asked`), and by `Shape` one that is
not the oldest is `LOCATION_REMOVE` or `EVNT_MULTI`. Without these two among `Ops`
there is no `NestedWait` (`NoNesting`), and the three hold always
(`OnePanelAlways`, `ReplyAlways`, `DrawsAloneAlways`).

**The end of `Gemd_proofs`.** `ServerImplementsLock`: a connection with an application
id is a live application, its session's count is its own, the `DRAG` frame's
connection drags. The mapping reads no history. Connections being distinct makes
it a function of one session at a time; only the oldest frame drags, so what
happens on top of it leaves the dragger alone; whoever may run owns the whole
counter, which gives the guards of the lock's actions. With it, what
`Services_proofs` shows of the lock holds of the server's: with the constants of
the instance `LockAssumption` follows from `GemdAssumption`.

**`AesDesktop_proofs`.** `BarIsLive` is not inductive: bar, owner and active
application move apart, and the leaver's windows close while it is still in the
table, each close switching the bar, to the leaver's even. `DesktopInv` has
`BarOf` (for given sets of the living and of those with menus), `Table` (entries
in use or clear, `z_order` a strict order of those in use), `Windows` (every
owner lives; only the window of a server's own alert may be nobody's), `Others`
and `SuspendedCallIntact`. The loop of `gemd_cleanup_app()` over the handles is a
recursive function; `Pass` says what one turn does, and `Turn(k)` what has become
of windows and bar when it comes to handle `k`. `Shows` and `Stays` are what
`ExitBarFollowsTop` needs of it: the bar follows the top window among those left,
and stays when none of them was closed. From `DesktopInv`: `OwnersTheorem`,
`BarTheorem`, `SuspendedTheorem`, `SurvivorTheorem`, `BarFollowsTheorem`.

**`Components_proofs`, of `Trash`.** Where a command's entry is depends on the phase it is in, and
a crash may come in each; and another program may at any time have put a file of
its own where the command expects none, or taken away what it expects. So the
invariant says of each phase what the command may count on. `Route` says where it
goes and whose slot it uses; `Source`, that from staging to clean-up the original
of a move lies under its hidden name, and that nobody's file of `kept` lies where
it may be renamed back to; `Target`, that what the next call may replace or remove
at the destination is none of `kept` (`Unpromised`), that a place in the Trash holds
no whole file while it is written, and what is there once it is (`Arrived`); `Recorded`, that a
used place in the Trash has its record; `Removing`, that what is removed for good
is nobody's file any more. They give `NoFileLost` and `TrashListsAll`, after every
failed call, every crash, and everything other programs do. What these lose by
getting in the way is not promised: `kept` leaves it out, and *Findings* names it.

**`Components_proofs`, of `ShellLaunch`.** `shel_read()` finds a record by id or by pid, so an id
must never be a record's and a stranger's. `Launching` says whose each record is,
`Distinct` that no two share an id or a process, `Strangers` that an application
without a record runs under an id that is no record's. What a launched process's
environment says is its own command from the spawn on, and stays that when its
record is gone. `Strangers` fails when
somebody else's `appl_init()` may overtake (`Overtaking`, see *Findings*), so
`LaunchesReadTheirOwn` and `LaunchInvariant` assume `~Overtaking`.

**`Devices_proofs`, of `Terminal`.** `OnScreen` says nothing of the buffer put away under the
alternate screen, and every sequence may have to make a row, for which a full
buffer drops its oldest ones and shifts all offsets. `TerminalInv` has, of both
buffers, `Sound`: `Buffer` (offsets in the buffer, margins in the screen; the
cursor may be below a screen that has just become smaller), `Placed` (it is not)
and the view; besides, that both have one size while the alternate screen is
shown. `EnsuredFacts` is the lemma about making a row: no sequence asks for one so
far below the screen's top that the top would go. Every operation has a lemma
that it keeps a screen sound and its window's size; then `StaysOnScreen` and
`TerminalTypes`. For `HistoryIsKept`, an action property, operations are sorted by what
they do above the screen: nothing (`HistoryStays`), drop the oldest rows of a full
buffer (`HistoryDrops`), or also add the line that leaves the screen
(`HistoryMoves`). All assume `~ResizesAlternate` (see *Findings*). `HistoryIsKept`
assumes besides that a window has fewer rows than the buffer, which is necessary:
with 2048 rows a full screen's line would be dropped, not kept, and the screen
would reach below the buffer. No display is that high.

**`VdiScreen_proofs`.** `ShownIsDrawn` compares display and drawing, but between
them lies a surface with the pointer in it, put back and drawn again within one
call. So the invariant is stated of a screen and a picture that a call takes from
one point to the next. `Kept`: under a drawn pointer the surface is its, and what
is saved is the picture; elsewhere the surface is the picture. `Sound`: besides,
the presenter knows where the pointer is. `Covered`: what does not show is dirty,
unless the viewer has a new framebuffer. `Current`: once nothing is pending
everything shows, but for the pointer in its place. `Under` (where it is drawn)
and `Place` (where it would be) differ while a call has it hidden, and lemmas
about the two boxes do the work. From them `ScreenInvariant`, `ScreenTypes` and
`DisplayIsDrawing` (`ShownIsDrawn`), for any screen, pointer, hot spots, layer and
nesting. They assume `Exposed = {}` (see *Findings*).

**`Services_proofs`, of `RpcTransport`.** `RemoteCall` speaks of the calls alone; that a request
is served once and a reply reaches its own call depends on what is on its way, so
`TransportInv` says whose every piece is. `Nesting`: a call is made alone or from
a call-back of a tree's call. `Connected`, `Sending`, `Upstream`, `Ready`: what
the socket has not taken, and the pieces on their way on the client's own
connection, are the innermost request's; on another, those of a call that failed;
at most one frame, which nobody has served; and a frame that is ready is whole.
`Drawing`, `CalledBack`: the tree that is drawn is the outermost call's, and while
a call-back runs the server waits for its result. `Downstream`: nothing is on its
way to the client (`Silent`), or one reply for the innermost call (`Answered`),
or behind the acknowledgement of a call-back's result one for the outermost
(`Acknowledged`). `gemd_user_callback()` makes this hard: the frame put aside
comes back whatever the other one still held, so the acknowledgement may be lost,
and the tree's answer is what comes instead. Each step has a lemma; then
`TransportInvariant`, `TransportTypes`, and `TransportIsRemoteCall`
(`ImplementsRemoteCall`), for any calls, connections, socket and number of
call-backs. `CallsReturn` is liveness and stays with TLC.

**`Devices_proofs`, of `InputQueue`.** `InStep` looks at an empty queue; what an
application will believe depends on what is still queued. `InputInv` says of each
one that reads physical keys and has no reset coming: reading its whole queue
makes it believe at most what is down, and that only if it is the keyboard's owner
(`InTouch`). `Standard` and `Absentees` say the same of those that read no physical
keys. The last event of a key in the queue decides (`Believed`); `ReadsMore` says what
one more event does, an overflow leaves a reset (`EnqueueFacts`), and
`HistoryStep` reduces every action to what it does to beliefs, keys held down and
`missed`. `ReadersStayInStep` and `InputTypes` assume nothing beyond the
constants: for any number of applications, keys and any queue.

**`Display_proofs`, of `RasterCopy`.** The loops are recursive functions of their turns.
`Shifted` is a copy made all at once, and `ShiftedTwice` says when a second copy is
as good as made with the first: when it reads nothing the first has written. With
it each loop -- edge bytes and middle of a row, the rows in their order, the pixels
of a line, the lines, the pieces -- is shown to be `Shifted` of what it covers:
`CopiesReadFirst`, for `Exposed = {}`.

**`WindowStack_proofs`.** Rectangles come first: `CutFacts` and `VisibleFacts` say of the
recursive lists of `window_visible.c` that they tile what nothing above covers, and
`VisibleIsExact` (`VisibleExact`) is a consequence. `Sound` is the invariant of the
table: what is open is totally ordered by what is over what, and owned.
`StackIInv` adds the types of screen and applications, and that one application at
most holds the lock; it gives `StackTypes`.
`NothingStale` says of each cell that it is in order or owed, but not why a step
that moves a window may leave a cell alone. `Fresh` is that a cell is in order or
its owner has been asked; `Painting`, that a redraw made its cells `Fresh` and
touched no other; `Alike`, that a cell shows the same of the table before and after.
An operation is right when its change `Follows`: every cell is `Fresh` or was left
alone and is `Alike`. Each window call, drag and form step is shown to be so
(`Redrawn`), and an exit by composing one close after another (`SweptFacts`). An
application answering a redraw needs three facts more: the window is its own
(`Mine`); what it still has to draw is in sight as long as it holds the lock
(`Held`), because nothing else moves then; and if its window moved before it took
the lock, it has been asked again for what is seen of it (`InPlace`). Together they are
inductive: `NothingIsStale`, for any windows, screen and applications, with
`"raise" \notin Careless`. `Told`, that the presenter knows what is in front of
each mapped overlay, is inductive if every change is notified:
`OverlaysMasked`, when `Careless` has neither `"click"` nor `"leave"`. Both
assumptions are those of the run, and what they leave out is under *Findings*.

Induction over naturals (a loop's turns, the next free id) is done by the least
counterexample of a set (`LeastNat`), since the library's induction theorems take
an operator that the provers cannot instantiate.

**Model-checked only.** `AlertClosesOwn` of `AesDesktop` is refuted (`alert`).
Model-checked are also: the refinement of `Mailbox` (its queues are built by sorting
slots, an induction over data that the provers cannot do) and of `FileStore`; the
invariants of `DesktopConfig` and `FatVolume`. Liveness (`CallsReturn`, `Converges`, `CallsServed`,
`LockGivenUp`, `Stops`) and `ENABLED` are outside the prover's reach.

## 6. What is not modelled

* *Windows*: sliders, gadgets and texts, shadow notches, the menu bar's own
  drawing, what an alert covers, the exposure between `objc_draw()` and
  `form_do()`, `wind_delete()` of an open window, the limit of 64 rectangles. After
  the exit of the desktop's owner `WindowStack` has the server's own desktop and
  not that of the heir `session.c:203-212` chooses (`AesDesktop` has him), and a
  redraw is never dropped because the message table is full
  (`window_redraw.c:361-368`; `AesMessages` has the full table).
* *Overlays*: their pixels, handles and resizing (see *Findings*).
* *VDI*: fonts, patterns, curves, bitmaps in memory, scaling and writing modes of
  copies, workstation attributes, request-mode input; the pointer's irregular
  mask; dirty rectangles in two dimensions; reads of the surface under the pointer
  (`v_get_pixel`); the saved regions of menus and alerts. The rest of `src/vdi`
  and the object trees are sequential and covered by rendering tests.
* *Input*: mouse rectangles, timers, double clicks.
* *Configuration*: a confirmation that overwrites another writer's save, a
  `LOCATION_CHANGED` dropped because the message table is full, the syntax of the
  file.
* *Trash and files*: the trees under an entry, metadata, several stores.
* *Disk images*: raw sector writes, times and attributes, an image mounted twice,
  directories more than one level deep; MSA and PRG decoding.
* *Terminal*: the parser's bytes, attributes and character sets, positions of tab
  stops, drawing, the pseudo terminal.
* *Integer widths* of sequence numbers and application ids in `AesMessages` (2^32
  messages); ids do wrap in `ShellLaunch`.
* *Applications* (Browser windows of the Desktop, Gemscape, Gemread, Ted and
  others), Stout's traps and GEMDOS, form editing, resource files: clients without a
  protocol of their own, or pure decoders.
* Musashi is third-party; samples, tools and tests are not part of the system.

## 7. Plan

Done, in this order: `UpdateLock` with `ScreenOwner` and its proofs;
`AesMessages` with `Mailbox` and its proofs; `Gemd`; `AesDesktop`; `RpcTransport`
with `RemoteCall`; `DesktopConfig`; `Trash`; `ShellLaunch`; `FatVolume` with
`FileStore`; `InputQueue`; `Terminal`; `WindowStack`; `VdiScreen`; `RasterCopy`.

Proved: `UpdateLock`, `AesMessages`, `Gemd` with its refinement of `UpdateLock`,
`AesDesktop`, `Trash`, `ShellLaunch`, `Terminal`, `VdiScreen`, `InputQueue`,
`RasterCopy`, `WindowStack`, and `RpcTransport` with its refinement of `RemoteCall`.

Next, most important first:

1. Proofs: `SoundVolume` of `FatVolume`, `SeenIsCached` of `DesktopConfig`.
2. `Overlays`: pixels, handles and the presenter's copies, on top of
   `WindowStack`.
3. The Desktop's browser: a directory read while it changes, the selection and
   the drag that outlive it.
4. Form editing and the field cursor; MSA's run-length decoder against a
   reference definition.
