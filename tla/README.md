# A verified model of omarchy-sony

omarchy-sony connects Sony ULT WEAR headphones to the Omarchy desktop: a daemon
speaks Sony's MDR protocol over Bluetooth RFCOMM and publishes `status.json`, a
command line client talks to the daemon over a UNIX socket, and a QML panel
shows the status and runs the client. This directory holds TLA+ specifications of
that program, the TLC configurations that check them and proofs checked by TLAPS.
Line numbers refer to the sources: `main.cpp`, `BluetoothManager.cpp`,
`MDRProtocol.cpp`, `StateEngine.cpp` and `IpcServer.cpp` in `daemon/src`,
`cli/src/main.cpp`, `Service.qml`, `Model.js` and `Panel.qml`.

## 1. Inventory

The daemon is one thread around one `poll` loop (main.cpp:470-552): signals, the
Bluetooth socket, IPC clients, then `tick` and the acknowledgement timer, at least
every 100 ms. Handlers call each other synchronously, so there are no data races;
what is hard is re-entrancy (a failing send tears the session down underneath its
caller), what survives the end of a session, and the other parties: a headset that
is silent, late or gone, clients, a second daemon, a panel that guesses ahead.

| Component | State | Operations | Interacts with | What makes it correct |
|---|---|---|---|---|
| Transmit queue and callbacks (main.cpp:212-338, 540-551) | `txSeq`, `txQueue`, `txPending`, `txSentAt`, `StreamFramer` | `pumpTx`, `enqueueTx`, `onConnected`, `onDisconnected`, `onDataReceived`, ack timer | calls BluetoothManager, is called back by it; writes the status | handshake first, one frame at a time, bits alternate, never wedged, nothing survives a session |
| BluetoothManager | `state_`, `sendQueue_`, `retryCount_`, deadlines | `start`, `stop`, `disconnect`, attempt, `handleSocketEvent`, `sendPacket`, `scheduleReconnect`, `tick` | transport, discovery, SDP; calls back main.cpp | bytes stay in order over short writes; some attempt always follows; backoff respected and reset |
| Frame codec, StreamFramer (MDRProtocol.cpp:57-194) | `buffer_` | escape, pack, unpack, append, nextFrame, reset | `onDataReceived` | every frame once, however the stream is cut; resynchronises |
| Payloads (MDRProtocol.cpp:196-395) | none | serializers, `parseInboundPayload` | queue, StateEngine | what is parsed is what was reported |
| StateEngine | `HeadphoneState`, `status.json`, temporary file | mutators, `commit`, `writeAtomic`, `cleanup` | daemon writes, panel reads | a reader sees an old or a new file, never a part; the status is true |
| IpcServer | listening socket, per client `inBuffer`, `outBuffer` | accept, read, write, close, commands | clients; callbacks into main.cpp | each complete line is answered once, in order |
| Client `sony-ctl` | none | one request, one answer, 2 s timeouts | IpcServer | exit code tells whether the command was accepted |
| Panel service | optimistic overrides, settle timer, command queue | setters, `applyStatus`, `dispatchNext` | runs `sony-ctl`, watches `status.json` | shows the wanted value until it is settled, then the real one |
| Panel, icon | cursor | key navigation | service | presentation only |
| Discovery, SDP (BluetoothManager.cpp:159-452) | none | blocking D-Bus and SDP calls | BlueZ | finds the paired headset and its channel |
| Test hooks | | SIGUSR1, SIGUSR2, IPC verbs `_disconnect`, `_reconnect`, `_set_battery` | link and status | present in production too; must not wedge the daemon |

Hard behaviours, each listed with its line in `PROJECT.json`: a write that fails
inside a nested handler; acknowledgements that are late; short writes; SIGUSR1,
which drops the link without `onDisconnected`; a headset that never acknowledges;
reconnection from every state; reads that cut frames anywhere; an optimistic status
that the headset never confirmed; a crash between the steps of `writeAtomic`; two
daemons sharing one socket path and one status file; pipelined IPC commands; the
panel's overrides and their one timer.

## 2. Plan

1. `Session` with `TxSequencer`: the connection, the queue, the callbacks and the
   headset; the promise of the queue as an abstract specification. Proofs in
   `SessionProofs`.
2. `Reconnect`: the timers of the same component, with time. Proofs in
   `ReconnectProofs`.
3. `Framing`: the byte level below Session's view of a frame. Proofs in `FramingProofs`.
4. `StatusFile`: the steps of `writeAtomic` and `cleanup`, the start and end of
   daemons, kills, power cuts and a reader. Proofs in `StatusFileProofs`.
5. `IpcServer` with its clients, which implements `LineServer`. Proofs in `IpcProofs`.
6. `Commands` and `Ctl`: the command language on both sides of the socket, and runs
   of `sony-ctl` against a daemon that is slow, blocked or gone. Proofs in `CtlProofs`.
7. `SettingSync`: the values behind the commands, over the queue of `TxSequencer`.
   Proofs in `SettingProofs`.
8. `PanelService`: overrides, settle timer and command queue. Proofs in `PanelProofs`.

All of these are written. Every invariant that the runs check is proved, and so are both
refinements; section 5 says what stays with TLC.

How the modules fit together: `Framing` justifies frames as units in `Session`;
`Session` implements `TxSequencer`, and `SettingSync` uses `TxSequencer` as its queue;
`IpcServer` justifies lines as units in `Ctl`, which uses `Commands`; `StatusFile`
justifies that `PanelService` and `SettingSync` treat the status as one variable; that
every `sony-ctl` run ends, shown by `Ctl`, is an assumption of `PanelService`, which
repeats of `Ctl` only what can reorder commands: a line that outlives its sender, the
snapshot of a `poll`, and the hangup that wins over input.

## 3. Modules

### Session

State: `daemon` is the record of the daemon's memory and of the two kernel buffers
of its socket; `running`, `reachable` (the headset is on and in range), `alive` (it
is at the other end of this socket) and `heard` (what it last read) are the rest of
the world. The fields `expired` and `simulated` are history variables for
properties: whether the acknowledgement timer fired in this session, and whether
SIGUSR1 dropped the link since the last proper loss.

Because the handlers nest, each one is an operator from daemon records to daemon
records (`PumpTx`, `EnqueueTx`, `SendPacket`, `ScheduleReconnect`, `OnConnected`,
`OnFrame`, ...), composed as the calls nest in the code; an action is one handler
run to its end. In particular `PumpTx` sets `txPending` after a send that may just
have cleared the queue, `OnConnected` goes on enqueueing after such a send, and
`OnFrame` goes on to `connected = TRUE` after an acknowledgement that lost the link.

| Code | Action or operator |
|---|---|
| process start, `start()` | `Boot`, `Start`, `AttemptDiscovery` |
| SIGINT, SIGTERM, an error of `poll` | `Exit` |
| SIGKILL, crash; `Restart=on-failure` of the service unit | `Die`; `Restart` |
| `tick`: backoff over, connect timeout | `Retry`, `ConnectFails` |
| `handleConnecting` | `ConnectSucceeds`, `ConnectFails` |
| `handleSocketEvent`, `handleConnectedRead` / `Write` | `Hangup`, `ReadPart`, `ReadFrame`, `HandleConnectedWrite` |
| IPC setters | `IpcSet` |
| acknowledgement timer | `TxTimeout` |
| SIGUSR1, SIGUSR2, `_disconnect` and `_reconnect` | `SimulateDisconnect`, `SimulateReconnect`, `PretendConnected` |

`daemon.connected` is the flag in `status.json`, so it outlives the process: `Exit`
runs the shutdown code (main.cpp:554-576), which takes the file away, while `Die` leaves
the flag as it was published last, until the next `Boot` replaces the file. A process
that is killed inside a handler leaves the flag that it had before the handler, or one
that the handler published; each is also left by a death before or after it, or by the
death of a daemon whose handler took another branch.

Abstractions. Frames are records of a kind and a bit. A `recv` that returns several
frames is several `ReadFrame` steps, which allows more interleavings than the code
has. A short write leaves the whole frame in `sendQueue`, a cut frame being of no
use to the headset before its last byte. The StreamFramer is empty, holds the first
part of a frame, or holds parts of different frames run together; `Framing` checks
that the last case loses exactly the frame that completes it. The D-Bus and SDP
lookups are reduced to their outcome. Signals that arrive when they change nothing
are steps that change nothing.

### TxSequencer

What the queue promises, with no sockets, errors or headset: in every session the
handshake leaves first with bit 0, the four queries wait behind it, commands are
accepted in order, released once each with alternating bits, and one frame at a
time is unsettled. `Session` defines the refinement mapping (`Sequencer`), under
which every state without a link maps to the closed queue: what lingers in
`txQueue` after a send failed inside `onConnected` must never show up in a session.

### Reconnect

`SetState`, `ScheduleReconnect`, `Attempts` and `Tick` with millisecond deadlines,
kept relative to now, and the order of one iteration of the loop: poll, then one
signal or socket event, then `tick`, then possibly an acknowledgement timeout whose
frame loses the link. Attempts take no time here: the blocking D-Bus and SDP calls
happen before the timers of an attempt start. `sinceAttempt` is history.

### Framing

The codec as pure operators on sequences of bytes, and a stream: the headset sends
frames, reads of any length up to `ReadSize` are appended and `Extract` runs the
loop of `onDataReceived`, one `Turn` per frame. Sessions end with a reset (`Lose`) or
without (`SimulateDisconnect`). The loops of `calculateChecksum`, `unescapeBytes` and
`onDataReceived` are recursive functions over the bytes. `unpackFrame`'s optional is a
sequence of at most one frame. `LengthWord` has no bound on the length: what
`buffer_` can hold fits into the 32 bits.

### StatusFile

Names lead to inodes: `status` is the inode of `status.json`, `tmp[p]` that of
`status.json.tmp.<pid>`, `socket` the owner of the socket path. A document is written
and read in pieces, each stamped with its writer and value; a file that is not
synced may lose any of them in a power cut. `process` holds how far a daemon's start
and its `writeAtomic` have come. `overlapped` (history) says that two daemons were up
at the same time, `orphans` (history) which temporary files a kill left behind.

| Code | Action |
|---|---|
| `initialize`, a mutator's `commit` | `Start`, `Mutate` |
| `writeAtomic`: open, write, fsync, rename, and each error path | `OpenTmp`, `WritePart`, `Fsync`, `Rename`, `WriteFails` |
| `IpcServer::start` | `UnlinkSocket`, `Bind`, `Listen`, `StartFails` |
| `IpcServer::stop`, `StateEngine::cleanup` | `Stop`, `Cleanup` |
| SIGKILL, crash; power cut | `Kill`, `PowerCut` |
| the panel's FileView | `ReaderOpens`, `ReaderReads`, `ReaderCloses` |

A pid may be used again, so that a new daemon truncates the leftover of an old one.
Readers see pieces one at a time while writers and renames go on.

### LineServer and IpcServer

`LineServer` is the promise: each client's lines are executed once each, in order, and
its answers are heard in that order, until the conversation is over. `IpcServer` has
the buffers: a client sends its script piece by piece, `toServer` and `toClient` are
the kernel's, `session` is `ClientSession`. `Poll` takes the snapshot of ready
descriptors that `pollOnce` serves one after the other (`AcceptClients`, `ServeHangup`,
`ServeReady`), and `handleClientRead` is a sequence of `recv` calls (`Execute`,
`Refuse`, `ReadEnds`) between which clients act. Clients half-close (`HalfClose`),
vanish (`Vanish`) or read slowly; `Stop` ends the server between two events. What
the code does and the model shows: a client that shuts down its sending side has its
commands executed but may lose answers still in `outBuffer`; the line limit is
compared with everything in the buffer, so whether a line slightly under the limit is
accepted depends on how `recv` cuts the stream (`LineLimit` states the margin).

### Commands and Ctl

`Commands` holds the two halves of the command language as operators: `CommandLine`
is what `sony-ctl` makes of its arguments (exit code or line), `HandleBuiltinCommand`
what the daemon makes of a line (callback and answer). A number is
`high * 2^32 + low`, because the daemon casts a `long` to `int` before it checks the
range. `Ctl` runs both: `Connect`, `Send`, `Receive` and `TimeOut` are the client,
`RunOther` is any other program that writes a line, `Start`, `End`, `Accept`, `Poll`,
`ServeHangup` and `ServeLine` are the daemon, with nothing said about how long it
takes. What a command line is meant to do is written beside it in `MCCtl`
(`[args, means]`), from the usage text, so that neither program defines its own
correctness; `UsageUnderstood` compares the two. `earlier` (history) is the set of runs that had ended when a run started.

### SettingSync

`published` is the status, `actual` what the headset does; `wanted`, `heard` and
`dropped` are history. The queue is `TxSequencer`, the frames carry values. A setter
publishes and then queues (`SetLinked`), or publishes only (`SetUnlinked`): without a
link the command is answered OK and never sent, also when the link comes back. A
session starts with the queries, which do not include the equalizer. Reports of old
values may arrive at any later time (`ReceiveReport`), frames may be dropped
(`HeadsetDrops`), and the user may touch the headset (`Touch`). The noise setting is a
pair of mode and voice focus, since four setters build the same frame from what is
published; `Setter` says for each what it shows, sends and allows.

Beside mode and focus the status shows an ambient level. `SetAmbientLevel` publishes it
(main.cpp:388-390); `SerializeNoiseMode` takes it and drops it, as `serializeNoiseMode`
does, whose last byte is always 0; every report of the noise control and the two other
setters set it to 0. So the level in the status is never what the headset does: an
`ambient-level` switches the headset to ambient, and the level stays shown until a report
comes, which is for ever if the headset was ambient already. `Tells`, the relation that
`QuietTruth` asks of status and headset, therefore says of a level only that none is
shown in another mode than ambient, and `Obeyed` asks of an `ambient-level` only the
mode.

`Parsed` is `parseInboundPayload`, which loses more: an ULT mode above 2 is shown as 2, a
preset without a name as "off" (MDRProtocol.cpp:345, 401-414). For such values `Tells`
asks nothing; the status has no way to say them. The equalizer's value is its preset;
its bands, which `setCustomEq` publishes and sends unchanged within -10 to 10 and which
`setEqPreset` leaves as they were, are left out, as are the one-byte payloads 0x10 to 0x14
of the test's mock. `Connect` may publish the battery level that BlueZ knows
(main.cpp:266-269). The hook `_set_battery` is left out: it puts any level into the status,
which is its purpose.

The headset is external: it acknowledges every frame it reads, answers every query
and reports every change, in order, and says that it focuses on voice in ambient mode
only. This is what the code relies on.

### PanelService

`desired` holds the overrides, `real` the status applied last, and `Effective` what is
shown. Setters override, restart the timer and enqueue (`Set`); `ReadFile` and
`ApplyStatus` are apart because FileView loads asynchronously, so that an older status
may be applied after a newer command; `SettleTimerTriggered` drops all overrides,
including those of commands that still wait.

| Code | Action |
|---|---|
| `sony-ctl` connects and sends (cli/src/main.cpp:93-121) | `CtlSends` |
| it ends after its command was executed, with or without the answer | `CtlExits` |
| it finds no daemon, gives up after 2 s, or loses the daemon | `CtlFails` |
| the daemon's `poll` and the events it reports (main.cpp:485-497) | `DaemonPolls` |
| `handleClientRead` and the setter | `DaemonExecutes` |
| the daemon stops or is killed | `DaemonEnds` |
| headset, link and start of the daemon | `StatusChanges` |

The daemon takes any time. A `sony-ctl` that gives up leaves its line in the socket
(`lines`), and the panel starts the next command at once (Service.qml:101-109), so a line
can be executed after its process has ended and while another runs. What the daemon may
still execute then is what its last `poll` found readable (`polled`): at the next one the
connection has hung up, and the hangup wins over the input (IpcServer.cpp:373-376,
`Readable`). That is all that keeps the commands in order; if input were looked at first,
`Accounted` would fail (`ReadableInputFirst`). `failed` are the commands whose `sony-ctl`
ended first; such a command may still be done. Three settings stand for six: `ult` for
those that one command sets by itself, noise and voice for the pair that is coupled.
An override may be ended by an old status that happens to agree, and the panel then
flickers back until the command runs; only the end state is promised.

`MCSession`, `MCReconnect`, `MCFraming`, `MCStatusFile`, `MCIpcServer`, `MCCtl` and
`MCSettingSync` instantiate the modules for TLC and hold the statements of the
documentation that the code does not meet. Operators whose comment begins "Fault:" are
plausible mistakes, kept beside the definition they would replace; each property of a
passing run has one that violates it.

## 4. Runs

| Run | Bounds | Shows |
|---|---|---|
| `session_safety` | 2 commands, all hooks, `MaxQueue` 5, `MaxInbound` 2, `MaxOutbound` 3 | types; no wedge; frames leave as handshake, then alternating bits, over short writes; at most one unacknowledged until a timeout; framer in step; the inductive invariant; refinement of `TxSequencer` |
| `session_liveness` | 1 command, the two signals, 4 / 1 / 2 | a live link is published; commands are released; the link comes back; a false `connected` is corrected, also after a crash |
| `session_loss_published` | 1 command, no hooks | violated: a loss is published and then overwritten |
| `session_late_ack` | 1 command, no hooks | violated: a late acknowledgement releases the wrong frame |
| `reconnect_timers` | constants of `BluetoothConfig`, 100 ms poll, 50 ms grid, `MaxRetries` 11 | attempts in bounded time, backoff respected, reset by success |
| `reconnect_initial_delay` | the same | violated: the first delay is 3000 ms |
| `framing_chunks` | 5 frames, 2 per session, leftovers of 1 session, reads up to 12 bytes | no frame lost, duplicated or invented by chunking; leftovers cost one frame |
| `status_file` | 2 pids, 4 inodes, 2 values, 2 parts | a reader gets whole documents over failures, kills and power cuts; a daemon alone shows its last write and owns the socket path; temporary files only after kills |
| `ipc_server` | 2 clients; lines of 1 and 3, and of 4 and 5 pieces; limit 4, reads of 2, answers of 2, window 3 | implements `LineServer`; answers arrive; half-closing loses no command; the line limit |
| `ctl_commands` | 2 runs, 16 command lines, 7 lines of other programs, backlog 1 | exit codes tell the truth; both programs agree; values in range; a command given up never undoes a later one; every run ends |
| `setting_sync` | 2 commands, 2 sessions, 1 touch, 1 drop, 1 timeout | in quiet periods the status is true and the headset obeys, without a drop; of an ambient level only the mode |
| `panel_service` | 2 commands, 1 other change of the file; the daemon takes any time and may be killed | no command lost, doubled or overtaken, also after `sony-ctl` gave up; the panel converges to the status |

Why the bounds are enough. `MaxQueue` 5 lets a command queue behind all four queries
and a second one behind it; a setter does not queue a command that already waits,
since a third equal entry shows nothing new. `MaxInbound` 2 lets an acknowledgement
and a report, or two acknowledgements, cross; `MaxOutbound` 3 lets a command, an
acknowledgement of ours and one more frame be in flight, which is when a short write
can reorder. The exponent of the backoff saturates at 10, so 11 retries reach the
end; the cap of 10 s is reached at the third. The frames of `MCFraming` are chosen to
put every marker, the escape sentry and their escaped forms into payload and
checksum, and to overflow the 8-bit sum. The limit `MaxBuffer` is, as in the code,
above what unfinished frames and one read can reach; a frame can only be lost to it
if that is not so.

In `status_file` two processes and the reader hold at most two temporary files, the
published file and one that was replaced while it is read: four inodes. `Symmetry`
permutes inodes and pids, which the specification only compares, and no liveness is
checked in that run. `View` leaves out what no action or property reads before it is
overwritten: the bytes of an inode without name and descriptor, a state in memory
between two writes (`Mutate` chooses the next one freely), and what a daemon last
published once it was up together with another. Two parts suffice for
a torn file. In `ipc_server` the steady client's answers overrun the window, so that
`outBuffer` and POLLOUT are used; the other client's lines are at and over the limit,
and a read may hold the end of one line and the start of the next. `ctl_commands`
needs two runs because its properties relate pairs of commands; its command lines
contain each verb, values at and outside the limits, numbers that an `int` cannot
hold, and lines that only the client or only the server refuses. With one place in the
backlog the second run's `connect` blocks. `setting_sync` lets two commands for one or
two settings race with the queries of their session, a touch and an early release
after a timeout; the second session starts with what the first left in the status
and the headset. The headset may start with an ULT mode and a preset that the status
cannot show. In `panel_service` the first command can have been given up, its line still
in the socket, while the second runs, or the second waits while the first runs; and the
file changes once by what is none of theirs. That three and more commands stay in order
is proved.

### Findings

* `session_loss_published`: when our acknowledgement of a report cannot be written,
  `onDisconnected` publishes `connected:false`, and the rest of `onDataReceived`
  publishes `connected:true` for the whole backoff (main.cpp:308-321).
  `StatusHeals` shows that this is corrected by the next attempt.
* `session_late_ack`: acknowledgements are not matched with frames, so after a
  timeout a late one releases a frame too early (main.cpp:328-332). `OneAtATime`
  shows that without a timeout this cannot happen.
* `reconnect_initial_delay`: the "Initial reconnect delay (2s)" never occurs, the
  first delay is 3 s (BluetoothManager.cpp:844-846).

### Fairness

`FairSpec` assumes weak fairness of the handlers that the poll loop runs whenever
their condition holds: the loop wakes at least every 100 ms, serves every ready
descriptor and runs both timers. For the environment it assumes that a headset in
range reads what was sent to it, and strong fairness of `alive /\ ConnectSucceeds`:
a headset that stays in range does not let every connection attempt time out. There
is no fairness for acknowledgements, clients or signals: `CommandReleased`
holds with a headset that never acknowledges. Of the service manager it assumes that a
daemon that died while the status said connected is started again (`Restart`), which
is `Restart=on-failure` of `sony-headphones.service`; one that was stopped need not be
started, nor need one whose status is right. `StatusHeals` depends on it: a daemon started
by hand is not restarted, and the status that it leaves when killed stays until somebody
starts the next. `Reconnects` is conditional on the
daemon running and the headset staying in range, and excludes `DISCONNECTED`, where
only SIGUSR1 leads and which the code leaves only on SIGUSR2.

The fairness of `Session` is in its `FairSpec`; the others are as narrow.
`IpcServer` assumes that the loop polls and serves what it reported, and of the steady
client that it connects, sends and reads; nothing is assumed of the other, and a
daemon may stop at any time. `Ctl` assumes fairness of the client's process only,
which its receive and send timeouts justify; the daemon may block for ever.
`PanelService` assumes that the event loop of the shell delivers file changes, loads
and timers, and that `sony-ctl` ends, which is `AlwaysEnds` of `Ctl`. Nothing is assumed of
the daemon, which need not poll or execute anything.

Deadlock is checked in every run but two. In `ipc_server` the clients have finite
scripts and the server may stop; in `setting_sync` the world acts a bounded number of
times. Elsewhere the headset can always come and go, time can always pass, a daemon
can always end or start.

## 5. Proofs

All theorems hold for every value of the constants that satisfies the module's
assumption: `SessionAssumption` (commands are not named like the opening requests, hooks
are among the four, bounds are naturals), `ReconnectAssumption` (delays are positive,
the poll is no finer than the clock's grid, the exponent may saturate),
`StatusFileAssumption` (a document has at least one piece, `None` is none of the
values), `FramingAssumption` and `RoomAssumption` (frames consist of bytes, and
`buffer_` has room for the unfinished frames of `MaxDrops` + 1 sessions and one read: 64
KiB in the code, against frames of some dozens of bytes and reads of 1024),
`SettingAssumption` (the settings are the four of the code, an ULT mode is a byte, and
commands carry values that `handleBuiltinCommand` lets through), `CtlAssumption` (there are finitely many
runs, and room for one connection), `PanelAssumption` (bounds are naturals) and
`IpcAssumption` (every line has at least its newline, limits and sizes are positive, and
one read fits into the limit of a line, as 2048 into 4096 in the code).

`SessionProofs` proves `Spec => []IInv`. `NeverWedged` alone is not inductive: a
send that fails in the middle of `PumpTx` leaves a queue whose emptiness depends on
what `ScheduleReconnect` did, and whether the framer is in step depends on the kernel
buffers being empty without a link. `IInv` therefore says of the daemon record that
it is `Coherent`: no bytes wait for a link that is down, the framer agrees with what
was read unless SIGUSR1 was used, a live link is published, and a waiting request
implies a pending frame. Since handlers are operators, there is one lemma per
operator, in the order in which they call each other (`LinkCoherent` is the part that
holds even in the middle of `PumpTx`), then one step per action. `TypeCorrect`,
`QueueNeverWedges`, `LivePublished` and `FramerStaysInStep` follow.

`SessionProofs` also proves `Spec => QueueKeepsPromise`. A lemma per operator says what
happens to the four fields that the abstract queue sees: either the link is down
afterwards, or the fields change as stated. Lemmas from a pair of daemons to a step of
`TxSequencer` (`DownToUp` is `Open`, `UpToDown` is `Close`, ...) then make each action
a step or a stutter. `IInv` is needed for `Release`, which requires that waiting
requests imply a busy queue, and for `Boot`, which starts from a closed session.

Its last part proves `InSequence` and `OneAtATime`. Both are about `Sent`, the frames in
the kernel followed by those in `sendQueue_`, since a short write only moves the border
between the two. `InSequence` alone says nothing of the next frame, so `LinkInOrder`
adds that the last control frame sent, or else the last one heard, carries the
complement of `txSeq`, and that no second handshake can wait. For `OneAtATime` it adds
that without a timeout either one control frame or one acknowledgement is on its way
but never both, and neither while `txPending` is false.
`IInv` is used throughout, for what a loss in the middle of a handler leaves behind.

`ReconnectProofs` proves `TypeOK`, `Attended`, `Patient` and `FirstRetryIsSoon`. None of
the bounds is inductive: `Timely` adds that in the backoff the age of the last attempt
and the time left never exceed one timeout, one poll and the longest delay together,
that the age of the state and the time left never fall below the shortest delay, and
that `retryCount` is 0 while connected. The provers know powers of numerals only; the
exponent of the code saturates at 10, so `Powers` lists the ten cases.

`StatusFileProofs` proves `Spec => []IInv` of `StatusFile` and from it `TypeOK`,
`NeverTorn`, `Truthful`, `Leftovers` and `OneServed`. What keeps a reader's document
whole is that the temporary names, the public name and the reader's file never lead
to an inode that is being written (`NamesApart`), that only complete and synced files
get the public name (`Sound`, `WriterInStep`), and that a power cut touches only files
that are not synced.

`SettingProofs` proves `TypeOK`, `QuietTruth` and `Obeyed`. Messages pass four stages in
order: `waiting`, `wire`, the headset, `inbound`. The invariant `Synced` says for each
setting that the last report under way is how the headset is (`Current`), that a
difference between status and headset, as far as `Tells` goes, is covered by a report, by a query or by a
command that would change the headset (`Covered`), and that the last command under
way, or else the headset, is as it was asked (`Heeded`). A setter publishes before it
queues, a report overwrites what a later command published: each keeps `Covered` through
the message that is still behind it. Dropped frames end the claim for their session.

`CtlProofs` proves all five invariants of `Ctl`. `InOrder` is not inductive: a run that
ended may still have a line in the kernel. `Overtaken` is what is missing: a `poll`
that finds the later run's line finds the earlier run's hangup, which wins over
its input, so that once the later line is served no earlier one can be. `InRange`
needs one lemma per verb about the order of parsing, cast and range check. `Agreement`
needs, for each verb, that what `CommandLine` lets through `HandleBuiltinCommand` does
not answer with ERR, for every word and every number, including those beyond `int`
(`NumberReadBack`, `CustomEqAgrees`, ...), and then that a run's answer is the answer to
its own line (`Course`). `ExitCodes` has a hypothesis, `UsageUnderstood`: for each command
line in `Usage`, what its author says it means is what the daemon's callback does with
the line that is sent. That is a fact about the list in `MCCtl`, where TLC evaluates it
as an assumption; a change of either parser that contradicts the usage text fails there.
What the theorem adds is that no interleaving with a daemon that is slow, ends or is
replaced makes the exit code lie.

`PanelProofs` proves `Accounted` and `TypeOK`. The invariant of `Accounted` numbers the
commands: those that wait are the last ones given, one after the other, the one that
runs comes right before them, and all before it ended (`Lined`, `InTurn`, `Ended`). Of
the lines in the daemon's sockets `LineInv` says that each belongs to the command that
runs or to one before it, that at most one was found readable by the last `poll`, and
that all that was executed is older than it. A `poll` finds at most the line of the
process that runs, and while that line waits to be served no other `poll` happens; so a
late execution comes before that of every newer command, however late it is.
`OverridesAreTimed` is a fact that no run checks: as long as a setting is overridden,
the timer that ends it runs, although each applied status may stop the timer and clear
some overrides only.

`IpcProofs` proves `TypeOK`, `LineLimit` and `Spec => KeepsPromise` for any clients with
any scripts. None of the three says where a byte is, so none is inductive. `IInv` is an
account of both streams of each client: the lines that were executed, `inBuffer`, the
kernel's buffer and what is still to be sent follow each other on the stream without a
gap or an overlap, and no line in `inBuffer` is complete (`Buffered`); what the client
has heard, the kernel's window and `outBuffer` are the answers to what was executed
(`Heard`, with what remains of that when an end is closed). These predicates are about
values, so what `recv`, `send`, parsing and closing do to them are lemmas without
states (`TakeLines`, `SendKeepsHeard`, ...), and the steps only put them together.
What the model computes by folds and recursive functions is characterised first:
`FlattenSeq` by its partial results, the stream by the ends of its lines (`Laid`),
`LinesIn` by the newlines in the buffer. The library's induction theorems need an operator
as a parameter, but the same holds for sets, as `Induction` derives from the
well-foundedness of `<`, and that suffices. A refused client had a line over the margin
because `inBuffer` never holds a complete one (`RefusedIsLong`). Two things of the model
were found by these proofs: `EndAll` of `LineServer` ended all conversations at once,
which with three clients is false when one of them is away as the daemon stops; and a
client could have borne the name of the value with which `reading` marks the stop, which
`IpcAssumption` now excludes.

`FramingProofs` proves `Lossless`, `Resynchronises` and `TypeOK` of `Framing` for any
frames and sessions of any length, byte by byte. None of them is inductive, since none
says what is in `buffer_`. `IInv` does (`Explained`): there are cut frames, at most
`stale` of them, and a number k of frames of this session that have come in full, such
that the buffer is the bytes that were read after the end of frame k, and while k is 0
the cut frames before them; and `delivered` is what these k frames make. The argument
goes from the codec up. What is escaped contains no marker, and unescapes to what it was
(`EscapeType`, `UnescapeEscape`), so `packFrame` is undone by `unpackFrame`
(`UnpackPacked`) and has its markers at the ends only (`PackFrameIs`). Cut frames in a
row therefore begin with a start marker and have no end marker (`LeftIs`), and the first
end marker in the buffer is the end of this session's next frame (`TurnHeld`). Each turn
takes one frame, a frame has at least one byte, so the turns suffice (`Extraction`). That
`append` never discards follows from what the buffer holds and `RoomAssumption`
(`ExplainedFits`). What the recursive functions compute is characterised by their
partial results (`FlattenSteps`, `ReadBytesSteps`, `ExtractSteps`) and `Induction` over
sets as above.

`FramingResynchronises` has the hypothesis `NoAccident`: no cut frames followed by a frame
pass for a frame. Without it the property is false, since a checksum of 8 bits and
a length can fit by chance; then a frame that nobody sent is delivered. It is a fact about
a set of frames, which TLC evaluates for those of `MCFraming` as an assumption.
`FramingLossless` and `FramingTypeCorrect` do not need it.

Only model-checked:

* The liveness properties: `CommandReleased`, `Reconnects`, `StatusHeals`, `Answered`,
  `HalfClosedExecuted`, `AlwaysEnds` and `Converges`. Fairness and `ENABLED` are out
  of the prover's reach.

## 6. Not modelled

* Mock mode and `autoReconnect = false`, which production never uses.
* Discovery and SDP beyond their outcome; how long these blocking calls take. `Ctl`
  lets the daemon block for ever, `Reconnect` treats an attempt as instantaneous.
* The daemon's options, and the directories and socket paths that both programs choose
  by default. The client's options are part of `Commands`.
* `pollOnce` and `handlePollEvents` as separate entry points; status listeners.
* The byte layout of payloads: `SettingSync` has what is sent and parsed as values.
* The panel's layout and key navigation, the icon, the setup script, build files.
* Limits that the code does not have: `outBuffer`, `txQueue` and `sendQueue_` grow with
  what clients send, and one client that never pauses keeps `handleClientRead` in its
  loop. The models bound these and no property refers to them.
