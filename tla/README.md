# hermytt in TLA+

hermytt is a terminal multiplexer: one server process owns shell sessions and offers them over REST,
web sockets, MQTT and TCP; hosts ("shytti") connect to it, or are connected to by it, and run
further shells on its behalf.  This directory holds a TLA+ model of the parts of it that are hard to
get right, TLC configurations that check it on small instances, and TLAPS proofs of its safety
properties for every instance.

## 1. The system

| Component | State | Operations | Hard behaviour | What makes it correct |
|---|---|---|---|---|
| session manager (`hermytt-core/session.rs`) | map id -> session behind an RwLock; per session the child, the keystroke receiver, the retained slave end, the output ring, the scrollback | create, register, unregister, take_stdin_rx, default, cleanup_dead, is_alive, resize, rename | look-then-act in `default_session` and `cleanup_dead`; end of a PTY seen only when every slave end is closed | bound on the map, no session displaced or robbed of its keystrokes, dead shells leave with a farewell |
| control hub (`hermytt-core/control.rs`) | name -> sender of a bounded queue; pending spawns; two async mutexes | register, unregister, heartbeat, spawn, handle_spawn_ok/err, send_to, kill, resize | mutex held across an await, timer against answer, request cut off by its client, reconnect under the same name | entries have live tasks, answers reach their call or nobody, every call returns |
| control web socket (`hermytt-transport/control_ws.rs`) | per connection: its queue, `shells_requested`; a forwarder per session | the `select!` loop over reports and queue, in both directions of connecting; reconnect with backoff | lost connections, two connections of one host, recovery by `list_shells` | keystrokes in order at most once, live shells listed again |
| service registry (`registry.rs`) | name -> service, last seen | register, unregister, heartbeat, expiry | writes of two owners of a name | a listed name has a task |
| output buffering (`buffer.rs`) | a receiver of a 256-slot broadcast ring, bytes, deadline | recv, flush | lag, deadline against data | nothing reordered or duplicated |
| terminal clients (`rest.rs`, `tcp.rs`, `mqtt_pty.rs`) | a receiver each | attach, scrollback, output, keystrokes | subscribe before reading the scrollback, lag, exit sentinel, polling by id | each client sees every byte it was not told it missed, and the exit |
| recording (`recording.rs`, `rest.rs`) | map id -> handle; recorder task | start, stop | check-then-act, entry of a recording that ended | no recorder runs on that nobody can stop |
| execution (`exec.rs`, `mqtt.rs`) | 8 permits | exec | cap on output, timeout, cancellation | at most 8 running, always answers |
| authentication (`auth.rs`) | users, sessions, users file and its temporary file | login, logout, add, delete, password, save, load; the add-user command | saves in any order, a stop between write and rename, login against deletion, a request dropped at an await, another process writing | file follows memory, login stays required, deleted users have no session |
| pairing (`pairing.rs`) | hosts file | pair, load, reconnect loop | backoff, two loops of one name | backoff within 1..30 |
| telegram bridge (`pyttch-bridge`) | per chat: in-flight slot, status message, progress; the bots in the file, in memory and running | listener, handler threads, updater, `/kill`, delivery; add, update and delete a bot, restart | slot tested and set apart, late edit, calls to Telegram that fail or are not answered, a connection to apytti that breaks, exit in the middle of an ask or a call | slot never left set, replies whole, changes of bots durable and in force |
| proxy, TLS, bootstrap, platform, CLI, configuration, web pages | none shared | | | presentation, start-up or stateless I/O |

How they interact: the transports call the session manager and hold a `SessionHandle` (the sender of
keystrokes, the sender of output, the scrollback); REST's `spawn_on_host` calls the hub; a
connection's task calls the session manager, the hub and the registry; a forwarder task takes a
managed session's keystroke receiver and calls `hub.send_to`; the server's loop calls `cleanup_dead`
every five seconds; the MQTT loop polls the session list every second; the recording handlers hold a
session's handle.  The bridge is a process of its own: it asks apytti over HTTP, edits messages of
Telegram, and shares no state with the server.  The user store is touched by the server's handlers
and by a second process, the add-user command, through the file only.

## 2. The modules

| Module | Models | Composes |
|---|---|---|
| `SessionManager` | `session.rs` and the cleanup loop of `main.rs` | |
| `ControlHub` | `control.rs` and the part of each connection's task that touches the hub and the registry | |
| `ControlPlane` | one remote host: its shells, its connections, their tasks, sessions and forwarders | the map of `SessionManager` and the queue of `ControlHub`, each reduced to what recovery needs |
| `OutputPlane` | the output of one session: reader thread, scrollback, broadcast ring, `BufferedOutput`, terminal sockets, event streams, MQTT forwarders | the life of a session in `SessionManager`, reduced to one shell and its place in the map |
| `SessionClients` | those who follow managed sessions by name: the attach loop of `mqtt_pty.rs`, the recordings of `rest.rs` and `recording.rs` | the map of `SessionManager`, reduced to names that come and go |
| `AuthStore` | `auth.rs` and the add-user command | |
| `ResponseSplit` | `split_response` of `status.rs`, as loops over sequences | |
| `BridgeChat` | one (bot, chat) pair of `pyttch-bridge`: `bot.rs` and `status.rs` | `ResponseSplit` |
| `BridgeControl` | `control.rs`, `config.rs` and the life of the process in `main.rs` | |
| `ConfigService` | no code: what the control surface promises of its bots | |
| `Bridge` | the process: a chat and the control surface, with exits that end both | `BridgeChat`, `BridgeControl`; implements `ConfigService` |
| `SessionManagerProofs`, `ControlHubProofs`, `ControlPlaneProofs`, `OutputPlaneProofs`, `SessionClientsProofs`, `AuthStoreProofs`, `ResponseSplitProofs` | theorems | extend the module they are about |
| `BridgeProofs` | theorems of `BridgeChat` alone and of the whole `Bridge` | extends `Bridge` and `ResponseSplitProofs` |
| `MC*` | instances | extend the module they check |

Operators named as "mutated" stand before the definition they distort.  They are used by no
specification; each is a plausible bug that the property paired with it in `PROJECT.json` must
detect.

### SessionManager

`sessions` is the map, `object` the `Arc<Session>` objects with the state of their shell, `cleaner`
the program counter and notes of `cleanup_dead`, `defaulting` the callers of `default_session`
between its two halves.  Every other operation is one critical section of the RwLock and one action
(`CreateSession`, `RegisterSession`, `UnregisterSession`, `TakeStdinRx`);
`CleanupBegin/Scan/Release/Remove` is one call of `cleanup_dead`, and `WriteLockFree` keeps writers
out while it scans.  A PTY session draws a fresh UUID (`FreshIds`); a managed session takes the id
its caller names, which may be one used before.  `ShellExits` and `JobsExit` are the environment: a
shell ends with or without leaving processes that hold the terminal open.  `ReaderEof` needs the
terminal closed by everybody, the session's own `_slave` included: that is the object having left
the map.

### ControlHub

`hub` is `connections`, `lock` the only holder that keeps its mutex across an await (`send_to`),
`conn` and `queue` the tasks of `handle_control_ws` and `run_outbound_control` (the same protocol
from either end) with their bounded queue, `spawner` and `pending` the calls of `hub.spawn` and
their entries, `asked` the requests a host has been sent and not answered.  A task joins
(`HubRegister`, `RegistryRegister`), loops (heartbeats, answers, `Forward`) and leaves
(`HubUnregister`, `RegistryUnregister`, after which its receiver is gone).  Critical sections that
end without an await only need `lock = None`; `send_to` is `SendLock` then `SendPush`.  A request
dropped by its HTTP client is `SpawnCancel` at any await.

### ControlPlane

`uplink` carries the host's reports to the task, `queue` the keystrokes to the host, `session` each
session's undelivered keystrokes and its forwarder, `arrived` what the shells read.  `Adopt` is
`register_session` then `take_stdin_rx` then the spawn of a forwarder, for one id (`RecvSpawnOk`) or
a list (`RecvShellsList`); the rest of a list is dropped when the map is full.  The host's side is
external and modelled from what `control_ws.rs` relies on: one connection at a time, reports in
order, an answer to `list_shells` that names the shells alive.  The map and its room have no other
users here.

`lock` is the hub's mutex in the hands of a forwarder: `hub.send_to` takes it and finds the
connection (`FwdLock`), then waits with it held until the connection's bounded queue has room
(`FwdPush`).  A task needs the mutex to join, to leave and for a heartbeat: `RecvHeartbeat` reads
one, after every report written before it, and `Beat` is what happens under the mutex; in between
the task reads neither its socket nor its queue.  `Stuck` is the hang this makes possible, and is
excused where it matters (section 3). The two twins of the task, `handle_control_ws` and
`run_outbound_control`, are one task here; each report is mapped to one or the other.

`Adopt` is atomic while the code releases the map's lock between the ids of a list and between
registering and taking the receiver; the only other takers of a managed session's receiver are the
internal pipe and a second connection's task.  `SessionManager` has those calls apart.

### OutputPlane

`shell` is "running", "jobs" once the shell has ended and others still hold the terminal, then
"gone". The clean-up asks for the shell alone (`Cleanup`), and sends no farewell; `ReaderEof`, which
does, waits for the jobs too.  `sent` is everything ever put in a session's broadcast ring, of which
the last `Cap` are still there; `Ready`, `Lagged` and `Closed` are the three results of tokio's
`recv` (the ring is external).  The reader thread pushes a chunk to the scrollback and sends it in
two steps, and a chunk that is not UTF-8 is never pushed.  A terminal socket looks the session up,
subscribes, reads the history and follows the ring, each step apart from the others, since other
threads run between them; its task keeps a handle and thereby a sender, so for it the channel never
closes.  While it passes input on it reads nothing ("typing"): the input is taken (`SocketTyped`),
or refused when the terminal is closed (`SocketRefused`), or waits.  A stream is a `BufferedOutput`
in either of its two uses: an MQTT forwarder, which looks for the sentinel at the end of what it was
given, or an event stream, which does not.  One step of `StreamTake`, `StreamLagged`, `StreamClosed`
or `StreamDeadline` is one turn of `recv_buffered`'s loop.  `buf` and `out` hold places of the ring,
so that two equal messages are told apart.  A chunk is one line of scrollback and one unit of
`max_bytes`; what a terminal types is left out, only the wait is there.  So is a publication that
fails: `publish` does so only when the event loop is gone, and `poll_eventloop` never returns.

### SessionClients

`listed` is the manager's map restricted to managed sessions, whose names may return; every
registration is a session of its own, told apart by its number.  `poll` is the attach loop between
the list it took and what it still has to attach, `attached` its set of names, `forwarder` the tasks
it spawned.  `Poll`, `Attach` per name and `Retain` are one turn; registrations run between any two
of these.  `recordings` is `AppState.recordings`; `request` holds, per call of the start handler,
how far it is, its recorder and the state of the stop channel.  `StartRecording` tests the map and
releases it; `SpawnRecorder` and `InsertRecording` come later, and the insertion drops the handle it
replaces; a client that goes drops its request at either wait (`CreateFails`, `RequestDropped`).
`farewell` says how a recorder learns that its session is over: by the "sentinel" if it had
subscribed by then and does not lag past it (`RecorderLags`), otherwise by the channel, "closed" or
still "held open" by an internal pipe or a terminal, which may disconnect (`PipeCloses`) or not.
Left out: waits of the loop and of forwarders for the broker, the output itself (`OutputPlane`), and
PTY sessions, whose names never return.

### AuthStore

`users` and `sessions` are the two locked maps, `file` and `tmp` the two files, `call` what each
request is in the middle of.  A handler is its critical section on `users` (`Login`, `AddUser`,
`DeleteUser`, `ChangePassword`), `Kick` for a deletion, then the three steps of `save`: `Snapshot`,
`WriteTmp`, `Rename`, each of which may fail, then its answer.  A request is dropped with its client
where it waits for a lock (`HangUp`): before it changes a password, before it drops the sessions of
a user it deleted, before it copies the users to save them, before it inserts a session; what it
changed stays changed.  An account carries its creation time, so that a name deleted and added again
is another account.  Two writes of the temporary file that overlap may leave a mixture (`Torn`),
which loads as a store without users.  `CliRead` is `add_user_to_file`, which works on the file and
not on the memory of the server.  `Stop` may come between any two steps and loses what is in memory;
`Start` loads.  Left out: hashing, cookies as text, `last_login` and `last_seen`, which no decision
depends on.

History, for the properties: `overlap` and `foreign` (saves that overlapped; a save of the command
beside a running server), `doubt` (users that a request changed and did not save, until a save
does), `orphaned` (accounts whose deletion was dropped before their sessions were) and `added`.

### ResponseSplit, BridgeChat, BridgeControl, ConfigService, Bridge

`ResponseSplit` has the loops of `split_response` over paragraphs, lines and characters, on texts
whose characters are numbers and whose newline is 0.  Every loop is `Loop`, a recursive function of
the number of elements read, so that one family of lemmas reasons about all of them.

In `BridgeChat` each message of the chat has a handler thread (`pc`).  `TakeMessage` tests the slot
in the listener; `SetSlot` sets it in the thread it spawned; `ClearSlot` is the thread's last
assignment.  Between them `StartStatus`, `Post`, the events of the stream, and delivery: `Finalize`
(one edit), `Fallback`, `SendChunk` (one call of `send_split`) or `SendReply`.  `StreamBreaks` is a
connection that broke: nothing of the answer is read after it, and the reading may end
(`StreamEnds`) or give errors for ever, which `bot.rs:396` skips.  `Look` and `Edit` are the
updater, which renders under the lock and edits without it.  Every call to Telegram has three
outcomes: done and answered, refused, done and not answered (`Outcome`).  Telegram and apytti are
external.  `/kill` tests the slot, then cancels what runs at apytti by then.

`BridgeControl` serves one call at a time: `Receive`, `Check`, `Save`, `Keep`, `Reply`; `Keep` also
spawns the thread that exits the process (`Restart`).  `running` is what `bot::spawn` copied at the
start; `Start` reads the file.  A bot is a token and its chats; the handlers for chats and for names
have the shape of update.

`Bridge` puts both into one process: an exit or a crash ends every thread of the chat (`ChatExit`),
and a chat listens while its bot was configured when the process started. `ConfigService` is the
abstract specification: the bots are one value, a call changes the bot it names once or not at all,
and an answer may be lost.  `Service` is the refinement mapping: the value is the file, and a call
takes effect when its save renames it.

Left out of the bridge: the typing pinger, downloads of attachments and the announcement to the
registry (they share no state with the rest), and a panic of a listener or of a handler: a handler
that panics between `bot.rs:107` and 112 would leave the slot set.

## 3. The runs

| Run | Instance | Shows |
|---|---|---|
| `session_manager` | 3 ids, 3 objects, 2 places, 1 caller of the default session | invariants and liveness of the session manager |
| `control_hub` | 1 name, 2 connections, 1 spawn, 1 forwarder, queue of 1, 2 inputs | invariants, the timer against the answer, calls and displaced tasks end |
| `hub_last_writer` (violation) | queue of 2, 1 input | the clean-up of a displaced task removes the connection that displaced it |
| `hub_backpressure` (violation) | 1 connection, queue of 1, 2 inputs | `send_to` waits for room with the mutex held, the task that makes room waits for the mutex |
| `control_plane` | 1 shell, 2 objects, 2 connections, queue of 1, 1 place, 2 keystrokes | order of keystrokes, no keystroke kept for ever, recovery of live shells, but for a stuck hub |
| `plane_recovery` (violation) | same | a session whose forwarder ended while the host was away is not given another |
| `plane_spawn_full` (violation) | 2 shells | a spawn is answered with an id that has no session |
| `output_plane` | 1 terminal, 1 buffered reader of either kind, 2 chunks, ring of 2, scrollback of 1, buffer of 2 | the terminal's view has no hole, the buffer loses nothing the ring kept, exits are told |
| `session_clients` | 2 names, 2 requests to record, in their order, 2 registrations | no session published twice, a name that was seen to go is attached again, recorders nobody can stop or whose session is over end |
| `auth_store` | 2 users, 2 passwords, 2 requests and the command, 2 of the three at a time, 3 accounts, 4 accounts and troubles, 1 token | what was saved survives a restart, login stays required, no session outlives its account, also when requests are dropped |
| `bridge_chat` | 2 messages (asks or commands), 1 tool, messages of at most 3 characters, 1 failed call to Telegram, connections to apytti that break, verbosity "kind", pinned session | the slot is never left set, replies are whole, a cancelled ask frees the chat, the status catches up; `SplitAssumption`: every text of up to nine characters is split faithfully |
| `bridge` | a chat with 1 message, verbosity "minimal" and no failure; 1 bot, 2 tokens, 2 calls, 1 crash | implements `ConfigService`, changes come into force, a deleted bot falls silent |

Why the bounds are enough.  Three ids and objects are what it takes for a full map (two), an id used
twice and a scan that spans both.  Two connections are one displacement, and the properties are
about a connection and the one that follows it.  A queue of one with two inputs is a full queue with
a waiting sender; the real 64 only makes that rarer, and the proofs below cover any capacity.  One
session object more than there are ids lets a shell's session be registered again after it left.
`LiveShellsListed` excuses a full map: with one id and one place it is full only of the session in
question, so the excuse is empty in this run.  Two chunks and the two sentinels that a session can
end with (of the removal and of the terminal) are four messages on a ring of two, so both readers
lag; a buffer of two holds a chunk and the sentinel behind it; a scrollback of one drops a line;
readers affect each other only through the handle a terminal keeps, so one of each is enough.  Two
registrations are a name that goes and returns, or two names at once; two requests are two
recordings of one session or one after the other.  Two users are the last user but one and two
changes at once; three accounts are a name that is deleted and added again (a deletion leaves one
user, so it takes two accounts before it); the second and third account may come from the command.
A trouble is a stop, a failed save or a dropped request: three accounts leave room for one, two
accounts for two.  Two messages are two asks that passed the test of the slot together, an ask and a
`/kill`, or an ask that was dropped; the texts replied are empty, one message long, and several
chunks of two paragraphs with a line too long for a chunk.

The names of the bounds: `Objs`, `Conns`, `Reqs`, `Sockets`, `Streams`, `MaxChunks`, `MaxSessions`
and `MaxRequests` of `SessionClients`, `MaxAccounts`, `MaxMsgs`, `MaxCalls` of the bridge (things
ever created or asked for); `MaxInputs`, `MaxKeys` (messages ever sent); `MaxUses` (tools the
progress of all asks names), `MaxFaults` (calls to Telegram that fail), `MaxCrashes`; `QueueCap` (64
in the code).  In `AuthStore`, `MaxCalls` is how many calls are under way at a time, the command's
among them, and `MaxEvents` the accounts made and the troubles together (`Trouble`, `NameFor`).
`MayBegin` is a bound as well: once two saves have overlapped, or until the next start once the
command wrote beside the server, the calls under way go on and no call begins; the properties claim
nothing of such a store.  Names are alike, so the first to be used is fixed (`NameFor`, `Register`).
`HistCap` is the code's 20, and `TelegramMax` its 4096, made small.  Callers and passwords of
`auth_store` are symmetric, and it checks invariants only.

Deadlock checking is off in every run: with those bounds used up nothing is left to do.  The real
deadlock, in the hub, is what `hub_backpressure` shows, as a task that waits for ever although
others may go on.

### Fairness

The session manager assumes the cleaner runs (a loop of the server) and a reader thread returns from
a read that can return.  The hub assumes that tokio runs every task that can run (weak fairness per
task), that its fair mutex starves nobody, and that `select!`, which polls its branches in random
order, does not starve the queue (strong fairness of the queue's branch).  A write to a socket is
assumed to end.  Nothing is assumed of hosts and clients there.  The plane also assumes of a host
that keeps its connection that it beats, answers `list_shells` and notices a closed socket: recovery
is a promise about such hosts.  A keystroke in the plane takes the mutex at most once, and
keystrokes are bounded, so weak fairness is enough for those who wait for it.  The output plane
assumes that a blocking read that can return does, that the task of a socket or stream runs, and
that timers fire; a socket's `select!` polls in random order, so that a client who types does not
starve the output (strong fairness of `SocketFollow`).  That input is taken is assumed only once the
terminal is closed, when the write fails.  The attach loop, start handlers and recorders are tasks
that run; the loop is assumed not to wait for the broker (`mqtt_pty.rs:107-114`).  No pipe or
terminal is assumed to disconnect.  `AuthStore` has no liveness.  In the bridge its threads run, a
call to Telegram is answered (the bound on failures says how often it is not), apytti ends the
stream of an ask it was asked to cancel, unless its connection broke, and systemd restarts the
process, which `control.rs:232` relies on.  Shells and people are never assumed to do anything, and
an ask that nobody cancels may stream for ever.

`SpawnReturns` and `ReplacedCloses` of the hub, `KeysLeaveSession` and `LiveShellsListed` of the
plane carry the alternative `<>[]Stuck`, the state in which `send_to` holds the mutex before a full
queue for ever.  That is the defect `hub_backpressure` shows; without the alternative all four would
fail for that one reason and say nothing else.

## 4. What the violations say

* `LastWriterWins` - `control.rs:114` promises that the newer connection wins; the older task's
  clean-up (`control_ws.rs:219`) unregisters by name and takes the newer one out.
* `FirstHeartbeatListsShells` - `control.rs:206-210` and `control.rs:132`, as above.
* `RecoveredTakesInput` - `control_ws.rs:174` skips sessions that are in the map, also those whose
  forwarder ended (`control_ws.rs:130,188`).
* `ReportedSpawnHasSession` - `control_ws.rs:114` drops the result of the registration.

Met while modelling and not claimed as findings, because the repository states nothing about them: a
report that a shell died is lost with its connection and the session stays in the map; a list of
shells read after a report of death revives a session; a spawn cut off by its client leaves its
entry until the host answers; removing a PTY session by hand leaves its shell running.  Of the
output plane: an MQTT forwarder drops the output that shares a buffer with the sentinel; it does not
see a sentinel that more output follows, as after a removal by hand; a chunk that splits a UTF-8
character is missing from every later client's history; a terminal that looked its session up just
before the removal and subscribed just after is never told, and its own handle keeps the channel
open (`SocketEnds` speaks of those who had subscribed).  The clean-up removes a session as soon as
its shell has ended; jobs that still hold the terminal keep its farewell back until they end, and a
terminal attached to it is told nothing before.  A terminal whose input nobody takes reads no output
while it waits (`rest.rs:644,647`).  The output an MQTT forwarder drops is not claimed by any
property. `cleanup_dead` removes by id without a second look (`session.rs:431-435`), so a managed
session that is registered, during the scan, under the id of a PTY session goes with it;
`CleanupSparesLivePty` speaks of PTY sessions.

Of the clients by name: an id that leaves and returns between two polls keeps its ended forwarder
and is not published (`mqtt_pty.rs:93-95`), which `NameIsServedAgain` excuses; the "exited" of an
old session can follow the "created" of the new one on the same topic; a recording that ended by
itself leaves its entry, and the session is "already being recorded" until somebody stops it
(`rest.rs:721-725`); stop answers after 100 ms whether or not the recorder has closed the file.  A
recorder that subscribes after its session was removed, or lags past the sentinel, gets none; it
runs on for as long as an internal pipe (`rest.rs:1094-1147`) or a terminal holds the dead session's
handle, and until somebody stops it, which a handle that was replaced or dropped leaves to nobody.

Of the user store: saves that overlap lose a change or leave a file that does not parse, which the
next start takes for an empty store (`auth.rs:64-68`), against the "atomic" of `auth.rs:7`, which we
read of one save; a request that its client leaves while it waits to copy the users (`auth.rs:97`)
has changed memory and not the file, until the next save; a deletion left before it drops the
sessions (`auth.rs:316`) leaves sessions that a user added again under the name inherits; a save
that fails is answered 500 and the change stays in memory; a login checked before a deletion inserts
its session after it; a user added by the command beside a running server is lost by the server's
next save.  The properties name each of these as an excuse.  Nothing else is excused; `HangUp` comes
at every await of a handler that changes the store, and `save` has none after its copy.

Of the bridge: two messages can both pass the test of the slot (`bot.rs:87-98`, set at 105) and be
asked at once; an edit that is under way when the reply is delivered overwrites a reply that lives
in the status message (`stale` in `ReplyWhole`); an edit that was done and not answered leaves a
wrong `last_text`, which may hide a later difference; `/kill` before the ask is posted cancels
nothing; a connection to apytti that broke may leave its handler reading errors, and the slot set,
for ever (`bot.rs:396`), which `KilledAskFreesChat` excuses; `/kill` of a bot with a pinned session
cancels the asks of its other chats too; an exit leaves the status message as it was.

`RegistryHasTask` speaks of control connections; the announcements over HTTP, which write the same
registry (`rest.rs:286-317`), are left out of the model.

`exec`, the MQTT input and the paired hosts were read and are not modelled yet, see section 6.

## 5. The proofs

Every invariant and every action property of a passing run, and the refinement `ServesConfig`, is a
theorem: it holds for any sets of ids, objects, names, connections, requests, texts and users and
any bounds.  The assumptions are the named ones of the modules: bounds are naturals (`QueueCap`,
`TelegramMax`, the ring and the buffer not zero), `None` and the sentinel are no identifier and no
chunk, `"input"` is not a request, there is a name to attach, and the configuration the bridge
starts with is one.  In each module the argument is the same: `IInv` is the inductive invariant,
`Init => IInv`, one lemma or step per action shows that it is kept, and each property follows from
it.  What `IInv` adds to the properties is what they need.

**SessionManager** (`SessionManagerProofs`).  `IInv` is the type, the capacity bound and: what is
stored under an id is a born object of that id (`OwnId`); only PTY sessions have a child; no two PTY
objects ever share an id (`PtyIdUnique`); a scan's list is within the map (`ScanIsOfMap`, because
the read lock keeps writers out); every id the cleaner noted belonged to a PTY session with a dead
shell (`NotedDead`).  The last three are what `CleanupSparesLivePty` needs: the cleaner acts on
stale ids, yet whatever PTY session has such an id is the dead one it saw, since PTY ids are never
drawn twice.  Proved: `TypeOK`, `CapacityBound`, `FarewellMeansGone`, `NoSilentDisplacement`,
`CleanupSparesLivePty`, and `PtyStdinNotStolen` (which no run checks: in the model no receiver of a
PTY session is ever within reach of a caller).

**ControlHub** (`ControlHubProofs`).  `IInv` adds: a connection that exists has a name (`Named`); a
call under way holds a sender (`TxHeld`); an answer is stored only in a call that waits and whose
entry is gone (`AnswerTaken`); a request that no call has sent, or that was given up as lost, is in
no queue and with no host (`UnsentIsNowhere`); only a finished call has a result.  `HubNeverDangles`
and `SendTargetStays` lean on each other: the entry a sender waits for stays because unregistering
takes the mutex.  `AnswerTaken` is what keeps a second answer from overwriting the first, and
`UnsentIsNowhere` is why "connection lost" is safe to retry.  Proved: `TypeOK`, `HubNeverDangles`,
`SendTargetStays`, `PendingOwned`, `LostWasNeverAsked`, `RegistryHasTask`, `AnswerInTimeIsReturned`.

**ControlPlane** (`ControlPlaneProofs`).  `KeysInOrder` speaks of what the shells read and is not
inductive.  A keystroke goes from the session's channel over the forwarder's hand and a connection's
queue to the shell, and `IInv` says that no place holds one that is older than what the next place
has: the channel is sorted and ahead of the hand (`SessionInOrder`), the hand ahead of every queue
and of what arrived (`QueuesInOrder`, `ArrivedLeft`).  Queues of several connections exist at once,
and only the one of the host's current connection is ahead of what arrived (`CurrentIsAhead`); the
queue of one that was given up may hold older keystrokes, which is why it matters that it is never
read again. That a new connection starts empty (`NewConnIsEmpty`) is what makes the hand-over keep
the order. The hand empties into the queue with the mutex held, and whoever holds it has a keystroke
and a connection that is in the hub (`LockHeld`, part of `Shape` with the types): a task leaves only
with the mutex free.  `StuckForEver` says that no step leads out of `Stuck`, which is why the
liveness properties cannot do without it. Proved: `TypeOK`, `KeysInOrder`, `StuckForEver`.

**OutputPlane** (`OutputPlaneProofs`).  The invariant of the reader thread says that the scrollback
has every chunk of text read so far, but for what a full one dropped for newer ones
(`ScrollIsNewest`), and that whatever the ring has had was read before, once (`SentWereRead`): a
socket that subscribes first and reads the history then has every chunk on one side or the other.
`SocketOK` and `StreamOK` say of each reader what it has of the places it has passed; that a stream
which has ended has left nothing in the ring needs that nobody is left who could send.  Proved:
`TypeOK`, `SocketSeesNoGap`, `StreamComplete`.  `StreamComplete` says "in order, once each, and
exactly what was not overwritten" as an increasing sequence with a given range.

**SessionClients** (`SessionClientsProofs`).  `OneForwarder` needs `Followed`: a listed session that
is forwarded is known by its name, and the list the loop works from has that name until the loop is
done with it, so the stale list cannot make the loop forget it.  For the recordings: a map entry
holds an open handle of its own name (`Held`), and a handler that is about to insert one has one
nobody stopped (`Spawned`).  Proved: `TypeOK`, `OneForwarder`.

**AuthStore** (`AuthStoreProofs`).  `IInv` follows a save.  Unless saves overlapped, one is under
way (`OneSave`), the temporary file is what it wrote (`TmpIsData`), and its copy of the users agrees
with memory about every user whom no other request has changed and not saved (`DataIsUsers`): a
request may change memory while another's copy is on its way to the file.  A user whom a request
changed and left unsaved is in doubt until a copy that agrees with memory is renamed.  `Settled` is
`AckedChangeIsDurable` from the moment of the rename on, not only from the answer.  For the
sessions, `Stamped` gives every login, and every deletion that is yet to drop sessions, the stamp of
the account it was checked against, and `Accounted` says whose each session is: of an account that
is there with that stamp, of one whose deletion is about to drop it, of one whose deletion was
dropped, or of one that went before the login was done.  `LoginStaysRequired` needs that a request
under way found or made a user (`Populated`), that a copy has one (`SavesSomeone`) and that the file
keeps one (`FileKept`), so that a restart loads one.  Proved: `TypeOK`, `AckedChangeIsDurable`,
`LoginStaysRequired`, `SessionsHaveAccounts`.

**ResponseSplit** (`ResponseSplitProofs`).  `SplitKeepsText` says, for every text and every limit,
what `SplitAssumption` of the run has TLC check up to nine characters: the messages have the letters
of the text in order, none is longer than the limit and none is blank.  The library's induction
theorems take an operator as a parameter, which the installed provers cannot instantiate; so
`LeastNumber` derives induction from the well-foundedness of finite sets, and `Induction` and
`SequenceInduction` state it of sets instead of predicates.  A `Loop` is then characterised by its
first value and its step (`LoopStarts`, `LoopGrows`), its step given as a function of states and
elements (`Machine`), so that the same lemmas serve the loops over characters, lines and paragraphs.
`Letters` of a concatenation is that of the parts (`LettersConcat`); reading into paragraphs, into
lines, trimming newlines and cutting into pieces keep it (`ParagraphsKeep`, `LinesKeep`,
`TrimEndKeeps`, `PiecesKeep`).  The invariant of the code's two loops is the set `Filling`: the
chunks pushed are messages, and the one being filled fits and is empty or not blank; each step adds
to it exactly the letters of its line or paragraph (`AddLineFills`, `AddParagraphFills`).

**Bridge** (`BridgeProofs`).  For the control surface `IInv` relates file and memory at each step of
a call: they differ only between the rename of a save and the assignment after it, or while the
process is down (`MemoryIsFile`), and what is saved is the answer to the call, from what is in the
file (`NewIsEdited`). With it each step of the bridge is a step of `ConfigService` or a stutter;
every step of the chat is a stutter (`ServesConfig`).  For the chat `ChatIInv` is the type, the slot
and delivery.  `SlotMeansBusy` needs only that messages are taken in order, so that no new handler
is one that already runs. `ReplyWhole` speaks of handlers that are done; `DeliveryInv` says at each
point of a handler what has been sent: nothing before delivery, then the text is what was sent
followed by the chunks still to send, or what the status message shows, and by then the updater's
flag is down, so that an edit still to come counts as late.  It holds for any number of failures
(the run has one, so an edit and a chunk refused in one delivery are the theorem's alone).  That the
chunks make up the reply is `SplitKeepsText`.  Both are theorems of a chat alone (`ChatSpec`) and of
the process (`Spec`), where exits may come at any step.  Proved: `TypeOK`, `ServesConfig`,
`SlotMeansBusy`, `ReplyWhole`.

Each `IInv` was checked by TLC on the run's instance before it was proved.

Only model-checked: the liveness properties (`DeadShellFarewell`, `SpawnReturns`, `ReplacedCloses`,
`KeysLeaveSession`, `LiveShellsListed`, `ForwarderAnnouncesExit`, `SocketEnds`, `NameIsServedAgain`,
`RecorderYields`, `KilledAskFreesChat`, `StatusCatchesUp`, `RunningCatchesUp`,
`DeletedBotFallsSilent`): they rest on fairness, and the prover has no rules for ENABLED that they
would need.  The expected violations are counterexamples and have nothing to prove.

## 6. Not modelled, and the plan

Not modelled at all: configuration, TLS, bootstrap, the proxy, the TCP transport, the CLI, platform
code and the web pages: they share no state or are presentation.

Next, in this order:

1. Proofs: what is left is on the abstract specifications of item 4, once they are stated.  Every
   safety property a passing run checks is proved (section 5).
2. `Exec`: permits, caps, timeout, cancellation, and the MQTT queue in front of it; input from
   topics, where one session whose keystrokes nobody takes holds up the others (`mqtt_pty.rs:84`).
3. `PairedHosts`: backoff, two loops under one name, the pairing call, on top of `ControlHub`; the
   expiry of the registry.
4. Abstract specifications: a request that is answered, timed out or lost exactly once, implemented by
   `ControlHub`'s spawn; a reliable-prefix channel of keystrokes, implemented by `ControlPlane`.
