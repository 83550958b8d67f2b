# hdesk in TLA+

hdesk is a remote desktop (a fork of RustDesk): a *controlled* computer runs a
server that captures its screens, sound, clipboard and cursor and injects input;
a *controlling* computer connects to it, through a rendezvous server (hbbs) that
knows where each id lives. This directory models the controlled side: the
services and their subscribers, the flow of video, the list of displays, the
mediator that keeps the computer known to the rendezvous servers, how connections
log in and what they share: sessions, privacy mode, terminals, the wake lock.

All paths below are relative to `src/src/` unless they start with `libs/`
(`src/libs/`). Lines are given in `PROJECT.json` ("map").

## 1. Inventory

| Component (source) | State | Operations | Talks to | What is hard | What makes it correct |
|---|---|---|---|---|---|
| Service template (`server/service.rs`) | two maps of subscribers (`subscribes`, `new_subscribes`) behind one RwLock, `active`, `handle`, `options` | `on_subscribe`, `on_unsubscribe`, `is_subed`, `snapshot`, `swap_new_subscribes`, `repeat`, `run`, `join` | connections send it subscriptions under Server's lock; its thread sends to their channels, without that lock | the thread runs between any two critical sections of a Server operation; `is_subed` takes the lock twice | nobody subscribed twice, leaked or uninformed; an unused service resets; `join` waits and returns |
| Server (`server.rs`) | services, connections, `id_count` | `add_connection`, `remove_connection`, `subscribe`, `capture_displays`, `close_connections`, `Drop` | services, connections (weakly held both ways), mediator | dropped while connections still run | a removed connection is nowhere |
| Cursor service (`server/input_service.rs`) | `StateCursor`: the cursor last broadcast | `run_cursor` | system, subscribers | subscriptions between snapshot and swap | subscribers know the current cursor |
| Video service (`server/video_service.rs`) | capturer, encoder, `OPTION_REFRESH`, per-display notifiers and `DISPLAY_CONN_IDS` | `run`, `handle_one_frame`, `try_broadcast_display_changed`, `VideoFrameController` | connections report frames through channels; `VIDEO_QOS` | who shares which encoder; reports late, missing or for another service of the same index | a key frame first; refreshes served; waits end |
| Connection and login (`server/connection.rs`) | password, `require_2fa`, `authorized`, `SESSIONS`, the temporary password | `on_message`, `validate_password`, `is_recent_session`, `check_remove_session`, the end of `start` | everything above, the connection manager over IPC | connections of one session that come, break and close in any order; the password replaced meanwhile | a broken remote control can be made again; a temporary password is used once |
| Authorized connections (`server/connection.rs`, mod `raii`; `server/display_service.rs`) | `AUTHED_CONNS`, wake lock thread and its channel, `CHANGED_RESOLUTIONS` | `AuthedConnID::new`, `drop`, `check_wake_lock`, `change_resolution`, `restore_resolutions` | option store, system | counts read under two locks, sent under a third; last remote gone vs. new remote | wake lock matches the sessions; the screen is put back |
| Rendezvous mediator (`rendezvous_mediator.rs`) | `SHOULD_EXIT`, `MANUAL_RESTARTED`, one task per server | `start_all`, `start_udp`, `start_tcp`, `restart`, `handle_resp` | configuration, hbbs, Server | two flags set, cleared and read one by one by many threads | a restart takes effect; no task serves stale servers |
| Registration (`rendezvous_mediator.rs`, `libs/hbb_common/src/config.rs`) | id, key pair and its cache, `key_confirmed`, `keys_confirmed`, `SOLVING_PK_MISMATCH`, `SENT_REGISTER_PK` | `register_peer`, `register_pk`, `handle_uuid_mismatch`, `CheckIfResendPk`, setting the id | hbbs over UDP or TCP, IPC, config sync | lost, late and reordered answers, ids that are taken, id or key changed meanwhile | a confirmed server knows this id and key; registration settles |
| Configuration and IPC (`libs/hbb_common/src/config.rs`, `ipc.rs`) | options, id, keys; one process each, synchronised | get/set, `CheckIfRestart`, watch loop in `server.rs` | mediator, UI, root process | two processes overwrite each other | changes are neither lost nor undone |
| Display service (`server/display_service.rs`) | `SYNC_DISPLAYS`: displays and `is_synced`; `TEMP_IGNORE_DISPLAYS_CHANGED` | `check_changed`, `get_update_sync_displays`, `check_display_changed`, `temp_ignore_displays_changed`, `run` | video services, logins, privacy mode | five kinds of threads read the system's displays and compare later | a change reaches subscribers and the capturer |
| Video QoS (`server/video_qos.rs`) | users, delays, fps, ratio | per-user updates, adjustments per second | connections, video services | min/max over users that come and go | users who left have no influence |
| Privacy mode (`privacy_mode.rs` and below) | `PRIVACY_MODE`: implementation and `conn_id`; the hook's thread | turn on (sync, or in a thread for 7.5 s), turn off, `switch`, the owner's close, Ctrl+P | connections, display service, system | a time limit on a thread that goes on; a hook that ends later than it is told to | blocked and covered while on; on only for who is there |
| Terminal (`server/terminal_service.rs`) | `TERMINAL_SERVICES`, sessions with channel and buffer, `is_persistent`, `needs_session_sync` | `get_or_create_service`, `handle_open`, `handle_close`, `read_outputs`, `remove_service`, the clean-up | connections, shells | an old connection's thread still reads; reconnection vs. removal | output whole, in order and before the closing; nothing left behind |
| File transfer (`libs/hbb_common/src/fs.rs`) | read and write jobs | start, confirm, block, done, cancel | connections, disk | resumption, overwriting | blocks in order, jobs end |
| Connection manager (`ui_cm_interface.rs`) | clients | add, authorize, remove over IPC | connections | the two sides disagree | a removed client is gone |
| Audio, clipboard (`server/audio_service.rs`, `server/clipboard_service.rs`) | as repeating services | | | devices | as service template |
| Portable service, port forwarding, LAN discovery, KCP, HTTP services, controlling client, UI and FFI, platform code | see `PROJECT.json` | | | I/O, system calls, presentation | not modelled |

`PROJECT.json` ("hazards") lists, line by line, what is hard to test in this code
and which properties cover it. A hazard without a property, or one the code lets
happen in part, says so in its note.

## 2. Modules and how they correspond to the code

Conventions. One action is one critical section, or the code between two awaits
that other actors can observe; a step that only reads a shared flag is an action
of its own when the outcome can be stale by the time it is used. A program
counter (`pc`, `task`, `op`, `joiner`, ...) says where each thread or task is.
Variables marked *history* record what happened for a property to speak of, and
no guard of the code's actions reads them. Operators whose name begins with
`Slip` are plausible mistakes (a dropped guard, a missing reset); they are not
part of any specification and serve to show that the properties would notice.

**`ServiceTmpl`** — what all services share: the two maps, `active` and the
handle, Server's operations on them and `join`. Server's write lock is `op`:
`Server::subscribe` holds it over three steps (`is_subed`'s two reads, then
`on_subscribe`/`on_unsubscribe`), while the worker may take steps between them.
`ServerUp` is the upgrade of a connection's weak pointer to Server.

**`RepeatService`** (extends `ServiceTmpl`) — `ServiceTmpl::repeat` with
`run_cursor` as the callback: check `active`, check subscribers (or reset once),
poll the cursor and broadcast, snapshot, swap. `PollError` is a callback that
returns `Err`, which skips the snapshot. Audio and clipboard have the same shape.

**`VideoService`** (extends `ServiceTmpl`) — `ServiceTmpl::run` with
`video_service::run` as the callback: making an encoder, `while sp.ok()`,
refresh, switch, display change, capture, `handle_one_frame` with its snapshot,
whose callback answers `SWITCH` if others are served already. A frame is a key
frame or a delta: all the data a decoder's start depends on. What the system
does (no image, an encoder that fails or cannot be made, a display that changes)
is a choice. Quality and codec are left out: they only cause `Switch`.

**`FrameFlow`**, instantiated by **`MCFrameFlow`** — `VideoFrameController`: send
to all, record them in `DISPLAY_CONN_IDS`, wait up to 10 times 300 ms on the
receiver of the display *index*, count reports, clear the record; and the
connections' side: report when a frame is taken off the queue, or when the peer
acknowledges (`video_ack_required`), or for all displays on closing. `Begin`,
`subs` and `RemoveConnection` are the parts of the service template it needs.
The clock is `waits`, the number of 300 ms waits that timed out. A pass without
an image (`NoFrame`) waits for nobody but still removes the record.

**`Mediator`**, instantiated by **`MCMediator`** — `start_all`, a generation of tasks,
`restart`'s two stores, and the threads that call it. A change of the options is a
scope (`CheckIfRestart` in `ipc.rs`): they are read (`NewCheck`), set (`SetOptions`)
and, at the end, read again and compared one by one (`DropCheck`); a task does the
same on `ConfigureUpdate` (`SetServers`, `CompareServers`). Scopes overlap. Reading
the servers, clearing `SHOULD_EXIT` and clearing `MANUAL_RESTARTED` are three steps,
in that order. A task sees `SHOULD_EXIT` only at its timer (`Tick`). Connections that
tasks let in log in later. Those that show a screen or a camera are put among
Server's (`open`), at the login or once a Windows session is chosen (`apart`, then
`ChooseSession`), and are told to close in a round without tasks
(`close_connections`); file transfers, terminals and forwardings never are.

**`Registration`** — the tasks of one generation against hbbs, UDP or TCP
(`udp`): `register_peer`, `register_pk` (key read and cached, then id, then sent,
then `SENT_REGISTER_PK`), the answers and their handling step by step,
`handle_uuid_mismatch` under the lock of `SOLVING_PK_MISMATCH`, the setting of
the id over IPC (which unconfirms first and sets afterwards), `ForceUpdatePk`,
and `CheckIfResendPk` around `Config::set` when the root process's configuration
is taken over. `SetKeyConfirmed` keeps the code's early return. The server and
the network are external: a table of ids and keys, ids that are taken, and a set
of messages per server, which reorders and (UDP) loses them.

**`AuthedConns`**, instantiated by **`MCAuthedConns`** — `AuthedConnID::new` and `drop`, `check_wake_lock` (two counts
under two locks, sent under a third), the wake lock thread, the one-second timer,
`change_resolution` (look up, record unless recorded, change) and
`restore_resolutions` (screen under a read lock, where an error is only logged, and
records under a write lock, cleared all the same). Connections have a `kind`: only
remote ones change the resolution, and a forwarding is in the list but need not look
at the option, since the loop it goes over to has no such timer.

**`Subscription`** — the abstract specification of a service: a connection
subscribes at once or not at all, waits or is served, is told what is broadcast
while it is served, and leaves for good. It knows no locks, threads or halves of
an operation. `RepeatService` and `VideoService` map their states to it (`Status`,
`Gone`, `Promise`); runs `repeat` and `video` check that they keep it
(`KeepsPromise`). For the video service all frames are one value: which frame a
subscriber starts with is `KeyFrameFirst`, and the promise is that frames go to who
is served, and to nobody after the service has stopped.

**`Stream`** — the abstract specification of a terminal to the connection that
opened it: its output grows, the opener is sent all of it in order, from the
beginning or, when there is more than fits a replay (`ReplayMax`), from a point near
the end, and is told of the closing with the end of it. Output is lost only when the
terminal is stopped, and never a chunk that was sent. `Terminal` maps every session
to a `Stream` of its own as long as no other connection's thread takes output from
it (`Followed`): what is in the buffer and the channel is `output`, and passes,
locks, ids and reconnections are gone. Run `terminal` checks it (`IsStream`).

**`PrivacyMode`** — Windows. `PRIVACY_MODE` is a mutex held for a whole turning
on (`holder`); a connection's handler is at a point between its calls (`pc`). The
two implementations that differ in their control are `topmost` (magnifier and
exclude-from-capture) and `virtual`, which is turned on in a thread that the
handler stops waiting for (`Timeout`). The hook is told to exit (`Unhook`) and
does so later (`HookExits`); Ctrl+P turns off from inside it. `Replaced` is what
an implementation leaves behind when another takes its place.

**`Terminal`**, instantiated by **`MCTerminal`** — one service id, its sessions,
and the connections that attach to it, each with a thread. The thread is that of
`ServiceTmpl::run`: it enters the callback when it finds the connection subscribed
(`Enter`), and ends without having done so if that has left before (`Miss`). A pass
of the callback (`ReadPersistence`, `ListSessions`, then `CheckFinished` and `Drain`
for each session, then `Respond` or `CleanClosed`) takes the sessions' locks one at a
time; the callback ends with the removal of a service that is not persistent
(`Exit`, `RemoveAtExit`). What is sent is a sequence of chunk numbers, all that order,
loss and repetition depend on. A terminal that is opened again is replayed the end of
its history, at most `ReplayMax` chunks of it for the 8 KB of
`DEFAULT_RECONNECT_BUFFER_BYTES` (`LeftOut`). A session that is closed is stopped when
the last list that holds it lets go (`Holds`). Time is left out: the hourly clean-up
may come at any time. The two phases of SIGWINCH and the helper process of Windows
change nothing here.

**`Login`**, instantiated by **`MCLogin`** — connections with one `SessionKey`:
LoginRequest, `validate_password` (the temporary password is read in one step and
`SESSIONS` updated in another), the code, the click, which may come while the code is
asked for, `SESSIONS` with its shared clock (`stale`, `holds`), closings after which
the peer does not retry (`CheckRemoveSession`) and breaks after which it does, and a
forwarding's second loop. The 30 s of the entry pass (`Age`) whether or not the silent
connection closes itself at its own timer: until then it may be heard of again
(`Hear`), or any login may drop the entry (`Retain`). A forwarding that leaves the
main loop other than by `Forward` ends like the others: `on_close` has taken its
socket (`connection.rs:4325`), so `try_port_forward_loop` returns at once. The peer is
a client of this program.

**`DisplayService`** (extends `ServiceTmpl`), instantiated by
**`MCDisplayService`** — `SYNC_DISPLAYS` between the service's thread, logins
(`LoginRead`, `LoginUpdate`, `LoginCopy`), the refresh and the one-second check of
a video service, and the holder that has changes ignored. Each reads the system's
displays in one step and compares in another.

**`...Proofs`** — theorems (section 5), each module beside the one it extends:
`RepeatServiceProofs`, `VideoServiceProofs`, `FrameFlowProofs`, `MediatorProofs`,
`AuthedConnsProofs`, `PrivacyModeProofs`, `TerminalProofs`, `LoginProofs`. Two of
them have a second part about a module that is close to theirs and that they
extend as well: `MediatorProofs` proves about `Registration` and
`VideoServiceProofs` about `DisplayService`. What the two modules of such a pair
would both define has a prefix there (`RegSpec`, `RegTypeOK`, `DisplaySpec`,
`DisplayTypeOK`), and the theorems of a second part are about `RegSpec` or
`DisplaySpec`.

How they fit together: `RepeatService`, `VideoService` and `DisplayService` are three
compositions of `ServiceTmpl` (the worker of one service with Server and its
connections); the first two implement `Subscription`.
`FrameFlow` refines the step `SendVideoFrame` of `VideoService` into send, record,
wait; it is kept apart because neither looks at the other's state except who
subscribes. `Mediator` and `Registration` are the life cycle of a generation and
what happens during one. `PrivacyMode`'s turning off is the holder of
`DisplayService`, and `Login` ends where the services' subscriptions begin.

## 3. Runs

Twelve runs; ten pass, two show a disagreement between a comment or message and
the code.

| Run | Question | Bounds | States |
|---|---|---|---|
| `repeat` | Is anybody leaked or uninformed, whatever the worker is doing while connections subscribe, toggle and leave? Is a waiting connection swapped in? Does the service implement `Subscription`? | 2 connections, 2 cursors | 70k |
| `video` | Is the first frame a subscriber is sent a key frame? Does a refresh lead to an encoder that has still to give its key frame? Does join return although the callback loops? Does the service implement `Subscription`? | 2 connections | 122k |
| `video_unsubscribe` | Does `Server::subscribe(.., false)` leave the connection unsubscribed? (**no**) | 3 connections | until violated |
| `flow` | Does the record of who is to report outlive the wait, does every wait end, and with one service is a full 3 s wait always owed to a missing report? | the monitor and the camera of one index, an acknowledging and a native client, who both watch the monitor or of whom one watches both; 1 frame, 1 time-out | 41k |
| `mediator` | Do surviving tasks serve the configured servers? Is the long pause taken after a restart? Does a restart lead to a new round, is every connection of Server's told to close once the service is stopped? | 2 servers, 1 of 2 calling threads and the task of one server change them; or 1 server, both threads and 1 connection, and the service is stopped and started | 346k |
| `authed` | Does the wake lock match the sessions once all is quiet, is the resolution put back, does a changed setting arrive? | a remote connection and one of any kind, queue of 1 for the timer | 1.14M |
| `registration` | Does a confirmed server know this id and key, and does registration settle? | ids 0..2 of which 0 is taken, 2 messages; one server and one change of the id, one server over TCP and a configuration taken over, or two servers | 28k |
| `privacy` | Is the input blocked and the screen covered while privacy mode is on, and is its owner there? | 3 connections | 1.55M |
| `privacy_others` | Does a connection that fails to turn it on leave another's on? (**no**) | 2 connections | until violated |
| `terminal` | Is what a connection is sent of a terminal its history from where the replay began, once and in order, with the closing last? Does a service that is not persistent have somebody to remove it? Is each terminal a `Stream` to whoever opened it, across reconnections, removals and stops? | 2 connections, 2 ids, 2 sessions, a channel of 1, a replay of 1, 2 chunks; two connections at once share the first id and the second chunk comes when one is gone, two terminals at once have one connection (a `CONSTRAINT`) | 1.35M |
| `login` | Can a remote control that breaks be made again? Is a temporary password used once? | 2 connections, 2 replacements | 4.8M |
| `displays` | Has everyone subscribed been sent the list that counts as sent? Do the list and the capturer become those of the system? | 1 or 2 displays, 2 connections and the holder; or 1 connection and a video service, the captured display changing its geometry too | 360k |

Why these bounds are enough. Every interference modelled is between one
connection and the worker, two connections, one connection and `join`, or one
caller and `start_all`; two connections and one change show each of them, and
three connections (video, privacy) or a second client
(flow) have been checked without finding more. Connections may toggle, and a
service may restart its loop, without limit; only ids are used once, as in
`get_new_id` (a third connection of `Login` would meet nothing of the first but the
entry of `SESSIONS`, which the second meets too). `MaxWaits` only says after how many waits the 3 s
are over. `MaxNet` bounds when a task *begins* to send, so answers and retries
still pile up beyond it. A channel of one chunk overflows as soon as a second is
written, and a replay of one leaves out the first of two. A system that has no display at all, for a while, is left out of the
run's lists and to the theorems about `DisplayService`. The MC modules' `Few...` formulas
restrict what happens *together*, and name each combination they leave:
`MCMediator`, `MCRegistration` and `MCDisplayService` check the two or three
compositions the properties speak of, one beside the other; the theorems about them
know no such restriction.

Deadlock is checked for `mediator`, `registration` and `privacy`. It is not for
`repeat`, `video*` and `displays` (once Server is dropped, the thread has left and
the connections are gone, nothing is left to do), `flow` (the bound on frames is
reached), `terminal` (all connections gone, the shells done), `login` (the bound
on replacements is reached) and `authed` (each connection is authorized once).

### What the properties except, and why

Several invariants name the one situation in which the code does not establish
what one would like, with a history variable. These exceptions are themselves
results:

- `SubscribersInSync` — who subscribes between the snapshot and its swap (`late`)
  is swapped in uninformed and waits for the next change of the cursor.
- `KeyFrameFirst` — `sps.has_subscribes` looks at `subscribes` only. If all who
  were served left since the loop last looked, a newcomer takes over an encoder
  that has produced frames (`takeover`), and starts with a delta frame.
- `FreshUnlessSwallowed`, `LongPauseUnlessRestarted` — `start_all` reads the
  servers *before* it clears the flags: a restart in between is swallowed, and
  the old servers are served until something else ends the tasks. `FreshUnlessSwallowed`
  also excepts changes that overlap (`reverted`): one that sets an option back to what
  its own `CheckIfRestart` had read finds no difference and does not restart, while
  the round may have begun with what another one had set in between.
- `StopClosesConnections` — the same two exceptions; and it speaks of Server's
  connections: file transfers, terminals and forwardings go on.
- `WakeLockUnlessOvertaken` — counts are read under one lock and sent under
  another, so the message sent last may hold counts that are no longer true.
  The thread then drops the wake lock in a session, or keeps it without one,
  until the next message.
- `RestoredUnlessIntruded` — a remote connection that is authorized between the
  count of remotes and the clearing of the records loses its own record (`intruded`).
  And a resolution that cannot be restored stays as it is (`refused`): the error is
  logged and the record cleared, so nobody will try again.
- `SettingIsApplied` — speaks of connections other than forwardings, whose loop
  (`connection.rs:1149`) does not look at the setting.
- `ConfirmedUnlessCrossed` — a confirmation of an outdated registration, noted
  after or in the middle of a change (`crossed`), stands for the new id or key.
  So does one that was taken back between its two notes (key, then host): the
  host stays confirmed, and the next `set_key_confirmed(false)` returns early.
  Over UDP the server's `request_pk` makes up for an unknown id; over TCP,
  which never sends `RegisterPeer`, nothing does (`Settles` says so). Nor does
  anything clear `SOLVING_PK_MISMATCH` when the root's configuration is taken
  over, confirmations and all, in the middle of a mismatch. `CheckIfResendPk`
  makes up for a new key pair only as far as its cached key and its flag tell.
- `NoSpuriousStall` — speaks of a display whose index no other service shares
  (`Alone`): with a monitor and a camera of one index each takes the other's
  reports. Reports are counted, not attributed (`video_service.rs:957`), so a wait
  can also end too early; that is not excluded by any property.
- `BlockedWhileOn` — an earlier hook's thread that has not gone yet (or the
  system) makes `hook()` fail, which the virtual display ignores (`missed`): it is
  on and the local input is not blocked. `win_input.rs:33` calls this branch
  unreachable.
- `OwnerIsThere` — a connection that gave up before its thread had got
  `PRIVACY_MODE` (`overtaken`) finds it off, closes, and is then made its owner,
  until somebody at the computer turns it off. Given up later, it waits for the
  mutex and turns it off.
- `StreamIsWhole`, `DataBeforeClosed` — while an old connection's thread is still
  reading, it takes output the new one is not sent (`taken`). What does not fit
  the channel is dropped by the reader (the code says so), and a replay is the last
  8 KB (`past` begins with what was left out). Beyond what the
  properties say: the closing of a persistent session is reported once, so a
  connection that comes later is not told; `CleanClosed` removes by id, so a
  terminal that was remapped to the id meanwhile goes with it.
- `NonPersistentIsServed` — a connection that is dropped before its thread has
  entered the callback (which usually sleeps 30 ms first) leaves a service that is not
  persistent to the hourly clean-up, if it was the last (`missed`).
- `RetryIsLetIn` — another close of the session, or a newer temporary password shown
  by another connection, make the code forget what this connection has shown
  (`undone`). So does a look-up by any login when nothing has been heard of the session
  for 30 s (`stale`): the silent connection may be heard of again before it closes
  itself, and lives on without its entry.
- `SyncedIsSent`, `SubscribersKnow` — who subscribes when nobody is served
  (`alone`) is not sent the list: `sps.has_subscribes` looks at `subscribes` only.
  It has the list of its login, which is an older one if the displays changed
  before it subscribed; with a choice of Windows sessions that can be long.

### Disagreements found

1. `video_unsubscribe`: `is_subed` reads the two maps under two read locks. If
   the worker swaps the connection from the second into the first between them,
   it answers *false*, `subscribe(.., false)` returns early, and the display goes
   on being captured — while `connection.rs:3725` says unnecessary capturers
   will be removed.
2. `privacy_others`: when turning privacy mode on fails, `connection.rs:4238` turns
   off whatever is on with `INVALID_PRIVACY_MODE_CONN_ID`, which
   `check_off_conn_id` lets pass. So a connection that is refused because another
   one has it (`OCCUPIED`) ends that one's, while the message for such an attempt,
   `TURN_OFF_OTHER_ID` (`privacy_mode.rs:37`), is that it failed.

## 4. Fairness

Only what the scheduling of threads and tasks provides:

- the worker threads, tasks that are runnable, and an operation once begun
  (`Server::subscribe`, `join`, a change of the options, a registration, a drop) go on: weak
  fairness. Whether connections come, toggle, leave, acknowledge or hang is
  theirs: no fairness.
- `Mediator`: strong fairness of `Tick`. `select!` polls its arms in random order,
  so messages, whose steps disable it for an instant, do not starve the timer.
- `FrameFlow`: strong fairness of `LockReceiver`, tokio's mutex being first come
  first served. No fairness of the connections, on purpose.
- `AuthedConns`: strong fairness of `SecondTick`: the one-second timer of a
  connection that stays open, in a `select!` loop too; not of a forwarding's.
- `DisplayService`: strong fairness of reading the displays and of making a
  capturer, which may fail, but not for ever. Nobody need refresh, log in or have
  changes ignored.
- `Registration`: strong fairness of the timer, of a server's answers to keys and
  to ids, and of their arrival: a network that loses any message but not all of
  them. Without it nothing settles.

`PrivacyMode`, `Terminal` and `Login` are checked for safety and state no fairness.

`WaitingIsSwapped` and `RefreshIsServed` also assume, in the formula itself, that
the callback gets as far as its snapshot, or can make an encoder, again and again.

## 5. Proofs

TLAPS proves, for every value of the constants (any number of connections,
cursors, servers, callers, services, terminals, passwords; any lists of displays;
any bounds), every safety property the passing runs check, that `RepeatService`
and `VideoService` implement `Subscription`, and that `Terminal` implements `Stream`:

| Module | Theorems | Property of a run |
|---|---|---|
| `RepeatServiceProofs` | `TypeCorrect`, `NoLeak`, `InSync` | `TypeOK`, `NoLeakedSubscription`, `SubscribersInSync` |
| | `Refinement` | `KeepsPromise` |
| | `Disjoint`, `JoinWaits` | none: what the promise rests on |
| `VideoServiceProofs` | `TypeCorrect` | none: `TypeOK` |
| | `KeyFirst` | `KeyFrameFirst` |
| | `Refinement` | `KeepsPromise` |
| (`DisplayService`) | `DisplayTypeCorrect`, `Synced` | `DisplayTypeOK`, `SyncedIsSent` |
| `FrameFlowProofs` | `TypeCorrect`, `RecordPending`, `StallHasCause` | `TypeOK`, `RecordOnlyWhilePending`, `NoSpuriousStall` |
| `MediatorProofs` | `TypeCorrect`, `Fresh` | `TypeOK`, `FreshUnlessSwallowed` |
| | `ShortPause` | `LongPauseUnlessRestarted` (an action property) |
| (`Registration`) | `RegistrationTypeCorrect`, `Registered` | `RegTypeOK`, `ConfirmedUnlessCrossed` |
| `AuthedConnsProofs` | `TypeCorrect`, `WakeLockRight`, `ScreenRestored` | `TypeOK`, `WakeLockUnlessOvertaken`, `RestoredUnlessIntruded` |
| `PrivacyModeProofs` | `TypeCorrect`, `Blocked`, `Covered`, `OwnerThere` | `TypeOK`, `BlockedWhileOn`, `CoveredWhileOn`, `OwnerIsThere` |
| `TerminalProofs` | `TypeCorrect` | none: `TypeOK` |
| | `Whole`, `ClosedLast`, `Served` | `StreamIsWhole`, `DataBeforeClosed`, `NonPersistentIsServed` |
| | `Refinement` | `IsStream` |
| `LoginProofs` | `TypeCorrect`, `RetryLetIn`, `UsedOnce` | `TypeOK`, `RetryIsLetIn`, `OneTime` |

The type invariants of `VideoService` and `Terminal` are proved and not repeated in
their runs. The theorems are about the components' own specifications: where a run
restricts what happens together (the MC modules' `Few...` formulas), the theorem
does not.

### Assumptions

Those of the modules on their constants, and no others:

- `NoOp`, `NoCursor`, `Nothing`, `NoHost` and `None` are values of their own: `None` is no
  connection, session, password or history (`Seq(Nat)`), and no list of displays.
- `NeedSnapshot` is Boolean, and true for a video service and for the display
  service, which are made with snapshots (`video_service.rs:262`,
  `display_service.rs:175`); `RepeatService` is proved for both values.
- The connections of a run are finitely many (`AuthedConns`, `FrameFlow`, `Terminal`),
  which counting them needs; ids of terminals are numbers.
- A list of displays is a sequence (`ListsAssumption`); it may be empty.
- There is a server (`Mediator`), and the ids and bounds of `Registration` are numbers.

### The arguments

None of these properties is inductive alone. Each module defines the inductive
invariant (`IInv`; `RInv` and `DInv` in the second parts), of named conjuncts, has
one lemma per kind of step or per conjunct, and reads the theorems off
`Invariance`. Each invariant was checked by TLC before it was proved.

*RepeatService*. That a connection which ended is
nowhere needs `OpIsLive` — Server's lock is held by a connection still running,
so `EndSubscribe` cannot bring back one that ended — and `DisjointSubscribes`,
since `on_unsubscribe` removes from one map only (`OnUnsubscribeLemma`).
`SubscribersInSync` needs `SnapshotSent`, the same statement about those who
*wait* while the thread is between snapshot and swap, and `WaitForSnapshot`:
without snapshots nobody waits, and a new subscriber counts as late.
`JoinedAfterExit` needs `HandleTaken`, that the handle is there until join has
taken it.

`Refinement`: every step of the service is mapped to a step of `Subscription` or a
stutter, one lemma per kind of step. That a subscription happens at once follows
from `DisjointSubscribes` and from Server's lock (a connection in `op` is neither
gone nor, when `EndSubscribe` adds it, subscribed already: `OpWhileUpStep`); that a
snapshot is the value broadcast last from the same facts as `InSync`; that nothing
is sent once stopped from `JoinedAfterExit`. `Toggling` a connection that is not
subscribed, or is already, stutters.

*VideoService*. `KeyFirst` needs `EncoderIsKnown` — whoever is served by an encoder
that has given frames has been sent one since it subscribed, or took it over —
at each point of the loop where a frame may still be sent with that encoder, and
`NobodyJoins`: between the callback's look at `subscribes` and the swap, nobody is
added to them, since a newcomer always waits (this is where snapshots matter).

`Refinement` goes as for `RepeatService`, with the same facts (`Orderly`: `Disjoint`,
`OpIsLive`, `HandleTaken`, `JoinedAfterExit`) shown of this loop, which leaves its
callback at many more places. `KeyFirst`'s invariant is not needed for it.

*DisplayService* (`DInv`). `is_synced` can go wrong at three places. A message
on its way has the list, or the flag is down again (`MessageIsCurrent`). Who is
about to be served beside others finds the flag down, because the callback took
it down or because changes were ignored when it looked, and then a message is
asked for at the end (`JoinersAreSent`, with `IgnoredWhileHeld`: the flag
`TEMP_IGNORE_DISPLAYS_CHANGED` is up just while somebody holds it). And a login copies
only before it subscribes (`ServedHaveCopied`), and never the list the service
begins with, which is no list of the system's (`Compared`).

*FrameFlow*. `StallHasCause` needs that no report gets lost (`NoReportLost`: what was
reported to a service that has its index for itself is in the channel or has
been counted, from the record to the end of the wait) and that the wait goes on
only when too few were counted (`WaitsForMore`). That a report is not of a frame
to come, so that a new record begins without any, is `OnlySent`; `Waits` says
where the two counters are zero.

*Mediator*. `Fresh` needs `StaleIsNoticed`, option by option: whenever what the round
has read is out of date, a thread or task is in the middle of a change and will find
the option different from what it saw (`NoticesStop`, `NoticesServers`), or has found
a difference and is about to set the first flag (`WillRestart`), or has set it in this
round, or the change restored what it had seen (`Excused`). With `FlagsUp` (a flag
set in this round is up, or this round cleared it) nobody is left who could have
changed the configuration unnoticed. `ShortPause` needs `SecondFlag` (who set the first
flag sets the second) and `TasksAreJoined`, by which no *task* is between its two stores
when `start_all` is past the join — the exception names calling threads only.

*Registration* (`RInv`). `Pairs`: the key pair a registration is made with goes from
the local one to the root process's and never back, so neither does a
registration or a message. As long as nothing crossed: no host is left confirmed
when the key is not (`NoneLeft` — the early return of `SetKeyConfirmed` is sound
only because of it); what is on its way, or was accepted, was sent, and what was
accepted is known to the server, but for the local pair once the root's is in
place (`AcceptedIsKnown`); the registration of the root process stands until this
one sends its own (`RootIsKnown`); hence `ConfirmedIsKnown`. The messages of any
number of servers may be lost, late or reordered.

*AuthedConns*. `WakeLockRight`: the counts sent last are those of the list once nobody
is between a change and its send (`LastIsTruth`), and so is the lock when the thread
has handled them all (`LockIsTruth`, with `LastDisplayIsLock` for its cached
`last_display`). `ScreenRestored`: while nobody intruded and no
restoring failed, the record is of the screen's
own resolution (`RecordIsNative`), somebody is left to restore it (`RecordHasOwner`) and
restores it alone (`RestoredAlone`); `Listed` ties the list to where handlers are.

*PrivacyMode*. `Blocked` and `Covered` are inductive with the types. `OwnerThere` needs
`AskedIsThere`: who has a turning-on under way waits for it, has given up with
`PRIVACY_MODE` held (so that its next call waits for the mutex), or counts as
overtaken; with `HolderAsks` and `NotBeforeLogin`.

*Terminal*. `Whole` needs, per session: that it has one id however terminals are
renumbered (`OneId`), so that a pass comes to it once (`ReadOnce`); that what was opened is active,
and replayed, until it is stopped (`Replays`); and that a session not yet used has left
nothing anywhere (`UnusedIsFresh`). `ClosedLast` needs `FoundIsRead` and `ToldIsSent`: what a
pass found to have closed, or somebody was told of, has been read to its end and
was sent, or is sent with the same responses. `Served` is inductive with `Threads`, which says where
the thread of a connection can be that has left, or not come.
`Generations` bounds the services by the connections that came. `Lowest`, a `CHOOSE`, is
shown to exist by a lemma on sets of numbers (`LeastNat`).

`Refinement`: what every step does to one session (`Moves`) is a step of `Stream` or a
stutter, by one lemma for each kind of effect: nothing a reader sees (`StaysStreams`),
a chunk more (`WritesStreams`), an opening (`OpensStreams`), the end of the following
(`ForgetsStreams`), and responses sent (`ResponsesMoves`). `IInv` is not enough: of a
session that `stop()` has ended, `StreamIsWhole` says nothing, yet responses a pass
had collected before are still sent. `SentIsPrefix` says that what was sent, and is on
its way, is a prefix of what was read; it is carried from step to step by the lemmas
themselves, since a session without an active reader is sent nothing new (`Keeps`).
That the closing comes with the end of the output is `FoundIsRead`; that nothing
follows it is `ToldIsSent`.

*Login*. `UsedOnce` needs `KnownTemps` (a temporary password is known only when it has
been current) and `Stages`. `RetryLetIn`, a promise about a login still to come, needs
`Entering` and `Keeping`: from the check of its password on, what a connection has
shown can be shown again (an entry that a look-up drops is dropped for who is on the
way in, too), and while it controls remotely it shares the clock of an entry that is
there; with `Codes`, who needs the second factor.

### Model-checked only

Liveness and everything under fairness (`WaitingIsSwapped`, `RefreshIsServed`,
`JoinReturns`, `WaitEnds`, `RestartIsServed`, `StopClosesConnections`, `SettingIsApplied`,
`Settles`, `SubscribersKnow`, `CapturerSettles`): the prover does not handle ENABLED.

## 6. Not modelled

Most of the repository is not control that a model checker can say something
about: bytes, codecs, devices, formatting and logging; tables of key codes; calls
to three operating systems; user interfaces and their generated bindings; requests
to an HTTP server. Of the parts that are modelled, these are left out:

- `send_to`, `send_to_others`, `send_without`; services of the shape of
  `RepeatService` (audio, clipboard, position).
- Holes, relays and the direct server, beyond the connections they let in.
- Connections: permissions, switching sides, Windows sessions, file jobs, and what
  an authorized connection's messages do beyond what services, privacy mode,
  terminals and resolutions see.
- Privacy mode: macOS, and system calls that fail when it is turned off.
- Terminals: input, resizing, the helper process, the bytes and size limits of a
  buffer (where `append` miscounts, see the hazard at `terminal_service.rs:437`),
  services beyond `MAX_SERVICES` (an attach may fail, which is modelled).
- Displays: Wayland; `SwitchDisplay` being announced from a list that another
  thread has replaced (listed as a hazard without a property, as is the watch
  loop of the configuration).

`PROJECT.json` gives the reason for each component without a module.

## 7. Plan

1. Done: all modules above; proofs of all safety properties, of the action property of
   `Mediator`, and of three refinements.
2. Open: a refinement for `DisplayService`, the third composition of `ServiceTmpl`: its
   subscribers have the list of their login or one they were sent, so an abstract
   specification of it needs a history of both.
3. Open: further action properties, of what a step may never take away (a served
   connection leaves `subscribes` only by its own operation; `confirmed` is taken back
   only by a change of the id or the key, or an answer).
4. Open: the hazards without a property (`SwitchDisplay` announced from a list that was
   replaced, the watch loop of the configuration, the bytes of a terminal's history).
