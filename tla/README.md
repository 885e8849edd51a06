# Formal models of the nookobo system software

nookobo turns a BNRV700 e-reader into a small multi-application device: KOReader,
Plato and NetSurf share one E-Ink panel, six buttons, a cover sensor and a few
kilobytes of state files under `/tmp`. There is no window system and no message
bus. Coordination is done with files, signals, `killall`, FIFOs and unlocked
shared memory. Over USB the device is an MTP responder, umtprd, the largest part
of the code: several threads over one file database. That coordination is what
these TLA+ modules are about.

TLC checks each module on a small instance; TLAPS proves the main safety
properties for every value of the constants.

    tlc -config btn_gestures.cfg MCBtnWatcher
    tlapm BtnWatcherProofs.tla

`PROJECT.json` lists runs, theorems, the source lines each definition stands for
and the hazards. An operator defined just before another and named for a slip
(`QueueEventOverruns` before `queue_event`) is a *mutant*: put in its place, the
property it belongs to must fail. No specification uses it.

## 1. Inventory

### 1.1 Parts, their state and operations

| part | state | operations | module |
|---|---|---|---|
| `btn-watcher.c` | gesture flags and time stamps, media mode, card, toast, keys down on the uinput device | four timer checks, one handler per key and edge, chords | `BtnWatcher` |
| `init_system.sh` loop, `start_*.sh` | `/tmp/current_app`, `/tmp/active_reader`, the process it waits for | poll, kill the other reader, launch, reset files | `AppSupervisor` |
| chords, plugins, `app-switcher.c` | the same files; processes stopped with SIGSTOP | write, write, kill; stop, continue; spawn | `AppSupervisor` |
| `sdl_fb0_shim.c` timers | `g_timers[16]` under `g_timer_mutex` | `SDL_AddTimer`, `SDL_RemoveTimer`, `timer_worker` | `TimerPool` |
| `sdl_fb0_shim.c` queue | ring of 2048 under `eq_mutex` | `queue_event`, `dequeue_event`, poll, wait | `EventQueue`, `EventFifo` |
| `sdl_fb0_shim.c` input thread | touch state, keyboard flags, URL line | touch reports, OSK keys, hardware keys, FIFO commands | `ShimTouch` |
| `sdl_fb0_shim.c` screen | framebuffer, `osk_backup`, `osk_active` (no lock) | `show_osk`, `hide_osk`, `SDL_UpdateRect` | `OskScreen` |
| `audiocontrol.sh` | seven files, a daemon, a player process | nine commands, the daemon loop | `AudioControl` |
| umtprd `fs_handles_db.c`, `inotify.c`, `msgqueue.c` | list of entries with handles, deletion marks and watches; storages | scan, add, find, build a path; file events; mount, lock, add and remove a storage | `MtpHandles` |
| umtprd `mtp.c`, `mtp_operations/` | session, `SendObjInfoHandle`, `cancel_req`, two mutexes, buffers | 23 MTP operations | `UsbTransfer` (locks, answers), `MtpHandles` (database), `FileStream` (bytes) |
| umtprd `usb_gadget.c`, `umtprd.c` | endpoints, packet thread, stop and shutdown flags | ep0 events, cancel, join, start, re-initialise | `UsbTransfer` |
| `plato_shim.c` | 128-event ring, SYN state machine | `read`, `ioctl`, `open`, `poll` | - |
| `boot_linux.sh` | pid file, payload and checksum on `/data` | guard, verify, unpack, delete | - |
| `toggle_frontlight.sh` | three sysfs values, saved level | toggle | - |
| `nook-webkey.c` | none beyond the FIFO it writes | one HTTP request at a time | - |
| KOReader overlays | power state, update markers | suspend, resume, refresh | - |

The rest (drawing, tables, encoders, build and deployment scripts, bench tools)
is listed in `PROJECT.json` with the reason it is left out.

### 1.2 How the parts interact

* The kernel delivers keys to `btn-watcher`, which grabs them and re-emits some on
  a virtual device for the readers; the rest become commands: `killall`,
  `audiocontrol.sh`, `toggle_frontlight.sh &`, writes to the state files.
* The supervisor blocks in the script of one application; switching means
  rewriting the files, then killing the application so that the loop reads them
  again. The loop and `start_plato.sh` write the same files.
* In NetSurf three threads meet: the main thread (SDL client), the input thread
  and the timer thread. They share the event ring and the timer pool under locks
  and the screen and keyboard flags without one.
* `audiocontrol.sh` runs as a new process per command, several at a time, against
  its daemon; they share files only.
* umtprd has four threads: the main thread (the control endpoint, or the packet
  loop itself with `/dev/mtp_usb`), the packet thread, the inotify thread and the
  message queue thread. `inotify_mutex` guards the database, `cancel_mutex` the end
  of a transfer; SIGUSR1 breaks a blocked call, SIGTERM ends the program.

### 1.3 What is hard, and what makes each part correct

* **Gestures**: one process, several clocks, a handler that sleeps 550 ms while
  input queues up. Correct when flags never contradict each other or the keys, no
  virtual key hangs, and each pending decision is taken.
* **Switching**: requests take several steps and race with the supervisor's reset.
  Correct when the two readers never run together, a request is served, and
  something always comes back on the screen.
* **Timers**: the lock is dropped around callbacks. Correct when no slot serves two
  timers, nothing starts after its removal, nothing is lost.
* **Event ring**: wrap-round and the full ring. Correct when it is a FIFO.
* **Touch and keyboard**: groups of events posted singly, with the keyboard opening
  between press and release. Correct when clicks land where they were made, no
  button hangs, and buffers are not outgrown.
* **Screen**: two unlocked writers. Correct when the keyboard is visible while
  active and the page is back when it is gone.
* **Music**: concurrent shell processes over pid files. Correct when no player
  outlives all control, and there is one voice.
* **MTP database**: the disk changes under it, and some of its writers take no lock.
  Correct when a watched folder shows what is on the disk, a handle means one
  object for the whole session, and an upload reaches the file it was announced for.
* **MTP transfers**: the host may cancel, suspend or unplug at any instruction.
  Correct when each command is answered once, locks come back, a cancelled
  transfer stops, joins return and the database is not dropped under an operation.
* **MTP data**: pages, blocks, packets and requests with four different sizes.
  Correct when the right bytes go over in a data phase whose end the host can see.

## 2. Modules

### BtnWatcher (MCBtnWatcher, BtnWatcherProofs)
The main loop alternates between `Timers` (all four checks at the top of the loop,
in the code's order) and one event (`Read` plus one handler) or `SelectTimeout`.
`pc = "hold"` is the sleep of the KOReader chord, during which the environment
keeps queueing. Stamps are ages that saturate past every threshold. Times are
ticks: only their order matters (double click < long press <= hold). `OtherWriter`
stands for all other writers of `/tmp/current_app`. `out` is what the last step
did outside; `chorded` and `forgotten` are history. Drawing is reduced to "is on
screen"; the framebuffer may be missing (`fb_mem`) and the buffers of what an overlay
covers may not be allocated (`backups`), at each overlay anew. Exit on read errors and
device set-up are left out.

`MCBtnWatcher` fixes at the start a set of keys, a queue length, the apps named by
others and the overlays whose buffers `malloc` may deny, which covers every handler with far fewer states
than all seven inputs at once.

### AppSupervisor (AppSupervisorProofs)
`sup` is the position in the loop of `init_system.sh` and in the script it called.
Each file write, kill and launch is a step. Requesters are handlers with a pc:
`chord` (btn-watcher), `plugin` (three KOReader plugins) and `switcher` (dialog).
Processes are tracked per launcher, since NetSurf has three. Exit code 85 restarts
KOReader inside its script. `want` and `from` are history: the last completed
request and what ran at that moment, if the file the supervisor reads still named the
request then (`Asked`). Bound: one browser per launcher.

### TimerPool (ShimProofs)
One step per locked section. The scan of `timer_worker` is cut where it unlocks,
that is around each callback; a slot added, removed or re-armed since the scan took
its clock sample is not due in it any more. `life` and `racy` are history. Clients
may add and remove at any point, also from inside a callback.

### EventFifo, EventQueue (ShimProofs)
`EventFifo` is the promise (bounded FIFO, newest dropped when full); `EventQueue`
is the ring. `ImplementsFifo` maps the ring to the sequence of waiting events.

### ShimTouch (ShimTouchProofs)
Each branch of `input_worker`, `handle_osk_touch` and `handle_fifo_command` is an
action. It decides at once and leaves events in `todo`, which `Post` puts on the
queue one by one while `Take` (NetSurf) runs in between. The panel is five regions;
characters are lengths. Keys, FIFO commands and NetSurf's caret come at any time, under
a finger too. `KeepsUp` says that the main thread leaves room for one handler's events.
`press` is history: what became of the last DOWN.

### OskScreen (ShimProofs)
The rows under the keyboard as vertical strips, each holding a version of the page
or key pixels. Every loop over pixels and every flag assignment of `show_osk`,
`hide_osk` and `SDL_UpdateRect` is a step of its own thread. `overlap` and `narrow`
are history.

### AudioControl (AudioControlProofs)
A command is the sequence of its remaining steps (`todo`); every file write, signal
and kill is a step. The n-th command is also the name of the daemon it may start
and of that daemon's player; a new player has a new pid, so pids remembered by
others become nobody's. A player is forked as a shell (`DaemonStart`) and gets the name
`pkill -x` goes by when it executes (`PlayerExecs`). `tight` and `missed` are history:
something happened before everything had settled; a sweep passed a player over before
its exec. Track names, output devices and volume are left out.

### MtpHandles (MCMtpHandles, MtpHandlesProofs)
`entries` are the `fs_entry` records in order of allocation, newest last (the code's
list has the newest first), with the bucket each is in: a lookup by name sees only the
bucket of that name, and `moved` is when a rename put the entry at the bucket's end.
The responder's operations are one step per locked section; GetObjectHandles
is cut between scan and watch, SendPartialObject between command and data, OpenSession
per storage. A rename takes no lock and is four steps: the entry gets the new name, then
the old one back, `rename()` succeeds or fails, and the entry moves to its new bucket;
`tried` marks the entries this was begun for. Handle 0 is the first storage's root, and
DeleteObject and renames take it like any other. The inotify thread is a step per event and folder entry and keeps its entry
pointer in between; CloseSession can leave it dangling, which is a choice between no
match and a crash. Folders are created with a new generation number, as a new inode
has a new watch descriptor; an event still queued for a watch that was given up
becomes one that matches no entry (`LostEvent`). The names a scan finds are distinct,
so those the database lacks are added at once (`AddFound`). `disk`, `roots`, `inode`,
`watches` and `pending` are the kernel and other programs. `blind`, `steady` and
`announced` are history. File content is in
`FileStream`; failing allocations are left out.

### UsbTransfer (UsbTransferProofs)
The packet thread (`io`), the main thread (`main`), one thread that pushes events
(`aux`), host and cable. Each operation is a profile: does it need a session, does it
lock, what does it check, what does it transfer; the thread then runs the steps these
profiles stand for: lock, check, load, test `cancel_req`, enter the call, be in the
call, settle, unlock, respond. Between test and call lies a step of its own, in which
a SIGUSR1 is lost. The three modes are FunctionFS, GadgetFS and `/dev/mtp_usb`. The
pthread_cancel of GadgetFS takes effect at a cancellation point, whatever is locked.
A host that gave up its data phase sends its next command, which a thread still waiting
for data takes for data (`IoSwallow`). pthread_create, reads of the control endpoint,
the opening of endpoints and responses may fail.
`killed`, `missed`, `stale`, `late`, `owed`, `sending` and `swallowed` are history: a
thread was cancelled holding a lock, a signal hit no call, a cancel outlived its
transfer, blocks after a cancel, the command whose response the host has not taken yet,
the host is in a data phase, its last command was taken for data.

### FileStream (FileStreamProofs)
One file as bytes that say where they come from. `SendBlock` is one turn of the loop
of `send_file_data` with its page buffer, `ReceiveBlock` one of the loop of SendObject;
`ends` are the places in the data phase where the USB writes ended. A descriptor left
open, the size kept in the entry, truncation and other programs that cut or replace the
file are included. GetPartialObject keeps a length in an int: from half its range on
(`IntRange`) it is negative and the first `memcpy` ends the process (kind `"fault"`).
Sizes are scaled down; a page is a power of two and a write buffer smaller than it, as
buildconf.h asks.

## 3. Runs

| run | instance | what it shows |
|---|---|---|
| `btn_gestures` | six choices of keys, queue 1-2, double click 1, long press 2, toast 1, hold 2 | no tap fires into a held Home; a chord's swallowing ends with its press; media mode shows its card where there is a framebuffer; KEY_HOME is down for as long as a long press; the watcher's view of Home and the readers' view of the cover catch up with the hardware; everything settles |
| `sup_exclusive` | chords, plugins and dialog together | the readers are mutually exclusive; requests made in KOReader are served; the screen is not left empty |
| `timer_race` | 2 slots, 5 timers, intervals 1-2 | the pool's slots and lives agree; no start after removal; none lost, each called |
| `queue_fifo` | ring of 4, three events | the ring implements the FIFO |
| `touch_prompt` | queue 6, URL buffer 7, strings of 1 and 5 | clicks hit; a button stays held only when the keyboard opened under the finger; the URL fits |
| `osk_threads` | 2 strips, 3 page updates | keyboard whole while active under any interleaving; page restored without overlap |
| `audio_commands` | 3 commands of nine kinds, 2 tracks | under any overlap, a player is orphaned only if it was between fork and exec when it was swept for; one voice and a true PAUSED for commands given in peace |
| `mtp_handles` | one storage, two folders, files of one name inside and outside; 4 entries, 2 waiting events, 2 changes, 2 storage commands | watched folders show the disk; no duplicate entry; handles are not reused; uploads go where they were announced; a mounted storage has its root |
| `usb_control` | all three modes; 2 blocks per file, 3 packets, 4 control events, 2 faults, pushes or signals, 7 inputs in all | locks returned, one answer per command, at most one block after a cancel, no database dropped under an operation; cancelled transfers settle, joins return |
| `file_stream` | header 1, packet 4, buffers 12 and 8, page 16; 3 commands, 1 change by another program | downloads and uploads exact, data phases framed and read to their end |

Two runs end in a counterexample and document where the code differs from what a
document or a message of it says:

| run | what is said | what happens |
|---|---|---|
| `sup_doc_from_browser` | BUTTONS.md: the Plato chord switches to Plato | made in the browser, the supervisor resets `current_app` when `start_browser.sh` returns, and KOReader starts |
| `usb_doc_shutdown` | umtprd.c: a signal is answered by "initiating graceful shutdown" | SIGTERM between two calls: the packet loop tests only the endpoint and blocks in the next read |

Other disagreements met on the way are noted with their hazard in `PROJECT.json`; the
models contain them: a long press that turns into another chord than KOReader's leaves
KEY_HOME down, its release swallowed (BUTTONS.md:97); a timer removed under its callback
ends the next one in its slot (ARCHITECTURE.md); a full queue drops the motion of a click and not its press; a
narrow update puts keys into the backup of the page (USER_GUIDE.md); an object gone
together with its folder makes umtprd compare a NULL path.

**Bounds.** Time thresholds keep the order of the real ones; two queued events are
needed behind the 550 ms sleep and a longer queue only delays the same handlers.
Two slots and five timers let a slot be reused, twice, under a callback while
another slot is due. The ring has the same arithmetic for every size (and is
proved for all). The URL buffer of 7 lets each limit (`- 1`, `- 2`, `- 6`) be hit.
Two strips tell "some columns" from "all". Three commands are a player, a command
that interferes and a third between the two; two tracks tell wrap-round from
staying. In `mtp_handles` two changes are a removal and a re-creation, or a folder and
its content, or a rename against another program; four entries are the root, the folder
and two generations of a file; once no change is left the host no longer calls what
changes the disk (`MayChange`). In `usb_control` three packets are a session, a transfer and what a late cancel could
harm; four control events are a connection, a cancel, its status request and a
disconnection; a push, fault or signal counts three of the seven inputs, so that one
comes with a full handshake or two with each other. In `file_stream` the sizes hit
each boundary: empty, a packet, a full read buffer, past a page on a packet boundary,
several blocks over a page with a length beyond the int. `Deadlock` is off for timers,
music and umtprd, where the instance is used up.

**Conditions on properties.** Some properties hold only in part of the behaviours
and say so. Without these conditions TLC finds counterexamples in the same models.

* `MediaModeShowsCard` needs a framebuffer. `LongPressHoldsHome` leaves out the press
  a chord took over: once the long press was sent, its release is swallowed and
  KEY_HOME stays down until the next one is passed on.
* `FromKOReaderServed` covers requests complete while KOReader ran that
  `/tmp/current_app` still names then. A file rewritten between the request's write and
  its kill loses it; every request of `switch_plato.koplugin` is lost, which promises
  Plato (its `main.lua:44`) and writes only a file the supervisor does not read.
  `ScreenOwned` assumes the dialog is not used (choosing NetSurf while a stopped NetSurf
  is the active app neither kills nor continues it).
* `NotLost` and `Fires` assume no timer is removed under its own callback or after it
  ended. `PageRestored` assumes no overlap and full-width updates. `touch_prompt`
  assumes that the main thread keeps up; `NoStuckButton` names the one case in which the
  button stays held, a keyboard that opened between press and release.
* `OneVoice` and `PausedTrue` assume commands given once all is settled. `NoOrphan` leaves
  out a player that was between fork and exec at the last sweep.
* `InSync` leaves out folders that changed between scan and watch, are listed under the
  id of another storage, or that a rename was tried on, or on something in them, with
  or without success. `NoDuplicate` leaves out the entries a rename was tried on.
  `WrittenAsAnnounced` leaves out a deleted folder, a folder inside another whose name
  changed, and announcements followed by SendPartialObject or a rename. `RootPresent`
  leaves out storages that were locked or removed and roots that the host deleted or tried
  to rename.
* `CancelSettles`, `LocksReturned` and `JoinReturns` leave out what follows a lost signal,
  a thread cancelled with a lock, or a push under way with the lock. `OneResponse` leaves
  out transfers that were cancelled, commands read while the end of their connection waits
  to be served, a command swallowed as data, and what follows a cancel that outlived its
  transfer or a thread that was cancelled.
* `DownloadExact` and `UploadExact` leave out a stale size or descriptor and changes by
  others meanwhile. A download that does not come to its end was asked for 2 GiB or more.

**Fairness.** Weak fairness of each process that can run: the watcher and the
clock; the supervisor and each handler that has begun; the timer thread and the
clock. These are ordinary runnable processes under a fair scheduler, with timeouts
in `select` and `usleep` loops. In `UsbTransfer`: the packet thread, the main thread
and the event thread, outside calls that wait for the host; a call on an endpoint that
went down returns where the driver fails it (GadgetFS, writes of `/dev/mtp_usb`).
Users, hosts, cables, applications and clients are never forced to act.

## 4. Proofs

All theorems hold for every value of the constants that meets the named
assumptions (`TimeAssumption`, `PoolAssumption`, `RingAssumption`,
`ScreenAssumption`, `ConstantsAssumption`, `BuffersAssumption`, `AudioAssumption`,
`PathsAssumption`, ...): every queue length, number of strips, blocks, packets, commands,
tracks, storages or files, and every size of buffers and pages. `AudioAssumption` asks
for one track at least; `PathsAssumption` for finitely many paths of the shape
storage, name or storage, folder, name, with no name that is empty or has a slash.
Most invariants of the runs are not inductive; what follows is what was missing.

* `BtnWatcherProofs`: `TypeCorrect`; then `IInv`, the conjunction of
  `NoTapWhileHeld`, `ComboOnlyWhileHeld`, `MediaModeShowsCard`,
  `LongPressHoldsHome` and `HoldIsChord` (the sleep happens only in a press used
  for a chord and still held). The last part is needed because the end of the sleep
  releases KEY_HOME and clears the combo flag. That KEY_HOME is up outside a long press
  also needs `Turns`: the events of Home alternate, so a press is read only after the
  release of the one before. One step per action. `HomeTrackedCorrect` and
  `CoverTrackedCorrect` speak of an empty queue only; `CatchesUp` says for any queue
  that its events, replayed on what the watcher knows (`After`), give what the
  hardware is. Two lemmas tell what a new event and the reading of one do to it.
* `AppSupervisorProofs`: `OneReaderCorrect`. No requester starts a reader
  (`RequestsStartNoReader`), and the supervisor leaves its wait for a reader only
  when that reader is gone (`WaitsForReader`); together they are inductive.
* `ShimProofs`, the timer pool: `IInv` adds `ScanInv` to `ActiveIsLive`: slots still due in the
  scan are active and lie ahead of it, so a removed timer cannot be
  called (`StartsLiveCorrect`). For `NotLostCorrect`, `KeepInv` adds that, unless
  some removal was late, the slot a callback was started from is still its own.
* `ShimProofs`, the event ring: `RingIsFifo`, a refinement. `Contents` is a sequence of
  events (`ContentsType`), a full ring is a full sequence (`FullIs`), and each
  operation maps to its abstract one (`PostRefines`, `TakeRefines`,
  `EmptyRefines`).
* `ShimTouchProofs`: `TouchTypeCorrect`, for any queue. `UrlFitsCorrect`; the line is a
  natural number below the buffer size after every writer. `ClickHitsCorrect` and
  `NoStuckButtonCorrect` (both for `KeepsUp`) look at the queue and the events still to
  be posted as one pipe, which posting does not change. `PipeInv`: it fits the queue, so
  nothing is dropped, and each press in it comes right behind its motion. `TouchInv`:
  the button is held once the pipe is empty exactly when the last DOWN has no UP, and
  then its finger is on the panel or was lifted under the keyboard.
* `ShimProofs`, the screen: `ScreenTypeCorrect` with `Saved` (who is past saving has a backup).
  `KeyboardVisibleCorrect` by `Repaired`: while the keyboard is active, either the
  screen has all its keys or some thread has still to draw them. The proof goes
  through every pair of positions of the two threads. `PageRestoredCorrect` by
  `PageKept`, which says at each position where the newest page is, and `Alone`: with
  no overlap one of the threads is idle.
* `UsbTransferProofs`, for all three modes and any host. `TypeCorrect`. `LifeInv`: the
  packet thread exists only while `started` (or inside the main loop of `mtp_usb`).
  `LockInv`: which mutex is held at which position, in both directions; it gives
  `LocksReturnedCorrect` and `MutualExclusion`. `LateInv`: a block that went out
  after the cancel was the last (`CancelStopsCorrect`). `DropsIdleDbCorrect`, an
  action property, from `LifeInv`: the database goes only after the join.
  `OneResponseCorrect` is the hardest: `OpInv` (only a transfer, or a command whose data
  are still to come, is left without an answer), `OwedInv` (what is owed belongs to the
  packet at hand, and no pending cancel, failing call or end of the connection will keep
  it back), `QueueInv` (the host polls from its CANCEL to the status that answers it) and
  `HandshakeInv` (a cancel is pending only while the host polls or a transfer that
  will drop it is under way, and in either case it cannot silence another operation).
* `FileStreamProofs`, for all sizes. `TypeCorrect` with `Running`; a length is what was
  asked for or what an int makes of it (`Conversion`), and only a negative one is a fault
  (`FaultAsked`).
  `UploadConsumedCorrect` on the first read and each next one. `UploadExactCorrect` by
  `Receiving`: the file, overwritten with what is still to be read, is what the host
  expects; the lemma `WriteTwice` (two writes next to each other are one) carries
  it over a block. `DownloadExactCorrect` by `Sending`: the host has the first `j`
  bytes and the page buffer holds the file's bytes; the lemma `Blocks` covers a block
  over one page, over two, and the last one. `DataFramedCorrect` by `Framing`: each
  write ends on a packet boundary while there is more to come; the arithmetic of
  remainders is in five small lemmas.
* `AudioControlProofs`, for any number of commands at the same time. A command is the
  rest of a program, so `ProgramInv` says what such a rest is: each step is one that may
  follow the step before it in a program with that last step (`Rest`, `Follows`,
  `Goal`), and a command that still runs has started no daemon. `DaemonInv` (the pid
  file names a daemon that was started) and it give `AudioTypeCorrect`.
  `NoOrphanCorrect` by `PlayerInv`: a player exists only under a daemon that has just
  started it, waits for it or was killed; and whoever kills a daemon still has `pkill`
  ahead, which takes every player but those before their exec (`missed`). `OneVoiceCorrect` and `PausedTrueCorrect` by `VoiceInv`, for commands in
  peace: `PeaceInv` (one command at work and one daemon at most, and the pid files name
  it and its player), `CommandInv` (what a command finds at each of its steps: nobody
  active before, no player and then no daemon left while it stops) and `PauseInv`
  (status and player agree everywhere but between the two steps of a pause and before
  the player is killed).
* `MtpHandlesProofs`, for any storages, folders and files, and any interleaving of the
  four actors, renames step by step and crashes included. `DatabaseOK` holds of the entries
  as a sequence, and each operator of the model has a lemma that keeps it (`AddEntryOK`,
  `AddFoundOK`, `ScanOK`, `DiscardOK`, `AllocRootOK`, `RetouchedOK`): every handle is
  below `NextHandle`, which counts those given out (`Counted`), so the next one is new
  (`HandleUniqueCorrect`); an entry no rename was tried on is in the bucket of its name
  (`Bucketed`) and so is found, and one is added only where none like it is found, so
  there is one at most (`NoDuplicateCorrect`). `RootInv`, for `RootPresentCorrect`:
  an entry with handle 0 is a root and has its name unless a rename was tried on it; only
  the host's DeleteObject of handle 0 deletes one, which ends the storage's steadiness
  (`KeptBut`, `RootsKept` for all other steps), and no event does, as none has the name of
  a root (`EventsOK`, over the kernel's queue); the slots before a steady one are filled,
  so OpenSession reaches it. `PathInv`, for `WrittenAsAnnouncedCorrect`: folders that always
  had their name lie directly under a root, or in a folder that was renamed (`Folded`,
  `Shallow`), so the walk of `build_full_path` is at most one folder long; what was
  announced is where the entry is by its own name and parent (`Places`); a rename is under
  way only with no announcement in force, and of a root it never gets past `rename()`
  (`RenameOK`). `KernelInv`, `LabelInv` and `ScalarInv` add what
  is left of the types (`MtpTypeCorrect`): what is watched is a folder, because an entry
  that is a folder and has a name has the name of a folder.

Every component states its type invariant, and TLAPS proves it for all of them. It is
`TypeOK`, or `PoolTypeOK`, `RingTypeOK` and `ScreenTypeOK` in the three components of the
shim that `ShimProofs` extends together, whose definitions are told apart by these
prefixes. Runs that would only repeat it leave it out and spend their properties on what
could be wrong.

Only model-checked:

* liveness (`Settles`, `FromKOReaderServed`, `ScreenOwned`, `Fires`, `CancelSettles`,
  `JoinReturns`, and the two runs that end in a counterexample): fairness is outside the
  prover;
* `InSync`. It compares the disk with the database through every queued event, and it
  is a property of one storage only: with two, a host that lists a folder of one storage
  under the id of the other gets it watched while its own children were never scanned,
  and TLC finds the difference. So there is no theorem for every value of the constants;
  the run checks it for one storage.

## 5. Where the project stands

Modelled: everything that switches applications, reads buttons and touch, shares the
screen, plays music, and umtprd. Every safety property of a passing run is proved, except
`InSync` (above).

Not in a module, each small and apart from the rest: `plato_shim.c` (the ring that
drops its oldest event), the payload part of `boot_linux.sh`, `toggle_frontlight.sh`,
suspend and resume in `kobo_device.lua`, update markers in `framebuffer_mxcfb.lua`, and
the Wi-Fi scripts. The set of runs is kept small, and these parts come after the ones
where several actors share state.

## 6. Further hazards, without a property

`PROJECT.json` lists the hazards that matter most. Also met while reading, and left:

* A page release is forwarded by the mode at release time (`btn-watcher.c:728`);
  `home_double_consumed` survives a double tap that becomes a chord (`:601`).
* `switch_plato.koplugin` writes one of two files and is overruled by the other;
  `current_app` does not say netsurf for a browser that is a child of KOReader.
* TEXT from the phone goes to the URL line whoever has the caret
  (`sdl_fb0_shim.c:1215`); a FIFO line longer than 255 bytes becomes two commands.
* During a scan the playlist is empty and the daemon divides by zero
  (`audiocontrol.sh:130`).
* A storage slot is emptied and reused without the mutex (`mtp.c:793`); endpoints that
  were opened before one failed stay open (`usb_gadget.c:380`); a failed `write()` of an
  upload is answered OK (`mtp_op_sendobject.c:137`); buffer sizes come unchecked from
  the configuration (`mtp_cfg.c:451`); a read error leaves `transferring_file_data` set
  (`mtp_ops_helpers.c:112`); with `/dev/mtp_usb` events and data share a descriptor.
* The payload is deleted whatever `tar` reported (`boot_linux.sh:232`); two frontlight
  toggles can save a zero (`toggle_frontlight.sh:13`); the ring of `plato_shim.c` drops
  its oldest event, which may be a press.

## 7. Not modelled

Drawing, fonts and refresh waveforms; byte layouts and property tables of MTP;
configuration parsing; URL decoding and HTML; Bluetooth and speech helpers (straight
lines of commands); build, packaging, recovery and CI scripts; hand-run probes; the
older copy of the switcher under `src/patches`, which no build file compiles.
