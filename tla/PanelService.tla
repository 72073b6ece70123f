---------------------------- MODULE PanelService ----------------------------
(***************************************************************************)
(* The panel's service: overrides that show the wanted value before the    *)
(* status confirms it, one timer that ends them all, a queue of sony-ctl   *)
(* runs, and a status file that is read after it changes.                  *)
(*                                                                         *)
(* A run of sony-ctl leaves its line in a socket of the daemon, which may  *)
(* read it after the run has given up and the next one was started; how    *)
(* the two get along by themselves is the subject of Ctl.                  *)
(*                                                                         *)
(* ult stands for all settings that one command sets by itself; the focus  *)
(* on voice is set together with the noise mode.                           *)
(***************************************************************************)
EXTENDS Naturals, Sequences, SequencesExt, FiniteSets

CONSTANTS
    MaxSets,      \* commands that the user gives
    MaxReports,   \* changes of the status that no command made
    None          \* no override, no file, no process

ASSUME PanelAssumption == {MaxSets, MaxReports} \subseteq Nat

VARIABLES
    desired,     \* setting -> its override
    real,        \* setting -> the value of the status applied last
    settleTimer, \* the timer is running
    commandQueue,
    ctlProcess,  \* the command that runs, and how far it is
    lastError,   \* a message is shown
    file,        \* status.json: a document, or None
    changed,     \* the file has changed since it was last read
    loading,     \* what was read but not applied yet
    lines,       \* commands whose lines are in the daemon's sockets, unread
    polled,      \* those that the last poll() of the daemon found readable
    given,       \* history: commands given
    done,        \* history: commands executed by the daemon, in that order
    failed,      \* history: commands whose sony-ctl ended before they were executed
    reports      \* bound: changes of the file that no command made

panel == <<desired, real, settleTimer, commandQueue, ctlProcess, lastError>>
world == <<file, changed, reports>>
sockets == <<lines, polled>>
vars == <<panel, world, sockets, loading, given, done, failed>>

Settings == {"noise", "voice", "ult"}
Values == [noise |-> {"anc", "ambient"}, voice |-> BOOLEAN, ult |-> {0, 1}]

\* What no status says of any setting.
Unknown == [noise |-> "unknown", voice |-> FALSE, ult |-> 0]

Document == [connected : BOOLEAN, noise : Values.noise, voice : Values.voice, ult : Values.ult]

Idle == [at |-> "idle"]

NoOverrides == [s \in Settings |-> None]

Wellformed(command) ==
    /\ command.id \in 1 .. MaxSets
    /\ command.verb \in Settings
    /\ command.value \in Values[command.verb]

TypeOK ==
    /\ \A s \in Settings :
        /\ desired[s] = None \/ desired[s] \in Values[s]
        /\ real[s] \in Values[s] \/ real[s] = Unknown[s]
    /\ settleTimer \in BOOLEAN
    /\ \A i \in 1 .. Len(commandQueue) : Wellformed(commandQueue[i])
    /\ ctlProcess.at \in {"idle", "started", "sent", "executed"}
    /\ ctlProcess.at # "idle" => Wellformed(ctlProcess.command)
    /\ polled \subseteq lines /\ \A command \in lines : Wellformed(command)
    /\ lastError \in BOOLEAN
    /\ file = None \/ file \in Document
    /\ changed \in BOOLEAN
    /\ loading.has => loading.content = None \/ loading.content \in Document
    /\ given \in 0 .. MaxSets /\ reports \in 0 .. MaxReports
    /\ ToSet(done) \cup failed \subseteq 1 .. given

Init ==
    /\ desired = NoOverrides /\ real = Unknown /\ settleTimer = FALSE
    /\ commandQueue = <<>> /\ ctlProcess = Idle
    /\ lastError = FALSE
    /\ file \in {None, [connected |-> TRUE, noise |-> "anc", voice |-> FALSE, ult |-> 0]}
    /\ changed = TRUE
    /\ loading = [has |-> FALSE]
    /\ lines = {} /\ polled = {}
    /\ given = 0 /\ done = <<>> /\ failed = {} /\ reports = 0

-----------------------------------------------------------------------------
(* The status *)

\* Fault: nothing stands for a mode that no status names.
ParseStatusUnnamed(content) ==
    IF content = None \/ ~content.connected THEN [Unknown EXCEPT !.noise = None]
    ELSE [noise |-> content.noise, voice |-> content.voice, ult |-> content.ult]

\* parseStatus: without a document or a connection there are only defaults.
ParseStatus(content) ==
    IF content = None \/ ~content.connected THEN Unknown
    ELSE [noise |-> content.noise, voice |-> content.voice, ult |-> content.ult]

\* An override ends when the status agrees with it.
Reconciled(status) == [s \in Settings |-> IF desired[s] = status[s] THEN None ELSE desired[s]]

\* Fault: one setting is left out of the test.
SettledButUlt(overrides) == overrides["noise"] = None /\ overrides["voice"] = None

Settled(overrides) == overrides = NoOverrides

\* FileView reads the file that changed, and tells the service later.
ReadFile ==
    /\ changed /\ ~loading.has
    /\ loading' = [has |-> TRUE, content |-> file]
    /\ changed' = FALSE
    /\ UNCHANGED <<panel, file, reports, sockets, given, done, failed>>

\* onLoaded, onLoadFailed: applyStatus.  A message of its own replaces lastError.
ApplyStatus ==
    /\ loading.has
    /\ real' = ParseStatus(loading.content)
    /\ desired' = Reconciled(real')
    /\ settleTimer' = (settleTimer /\ ~Settled(desired'))
    /\ lastError' = (loading.content = None)
    /\ loading' = [has |-> FALSE]
    /\ UNCHANGED <<commandQueue, ctlProcess, world, sockets, given, done, failed>>

\* refresh, and the first load.
Refresh ==
    /\ changed' = TRUE
    /\ UNCHANGED <<panel, file, reports, sockets, loading, given, done, failed>>

\* clearOptimisticOverrides
SettleTimerTriggered ==
    /\ settleTimer
    /\ settleTimer' = FALSE
    /\ desired' = NoOverrides
    /\ UNCHANGED <<real, commandQueue, ctlProcess, lastError, world, sockets, loading, given,
                   done, failed>>

-----------------------------------------------------------------------------
(* The commands *)

\* What the panel shows.
Effective(s) == IF desired[s] # None THEN desired[s] ELSE real[s]

\* One process at a time.
DispatchNext(commands, process) ==
    IF process.at # "idle" \/ commands = <<>> THEN [queue |-> commands, process |-> process]
    ELSE [queue |-> Tail(commands), process |-> [at |-> "started", command |-> Head(commands)]]

\* A setter: overrides, restart of the timer, runCommand.
Set(overrides, verb, value) ==
    /\ given < MaxSets
    /\ given' = given + 1
    /\ desired' = overrides
    /\ settleTimer' = TRUE
    /\ LET command == [id |-> given + 1, verb |-> verb, value |-> value]
           next == DispatchNext(Append(commandQueue, command), ctlProcess)
       IN  commandQueue' = next.queue /\ ctlProcess' = next.process
    /\ UNCHANGED <<real, lastError, world, sockets, loading, done, failed>>

SetNoiseMode == \E mode \in Values.noise : Set([desired EXCEPT !["noise"] = mode], "noise", mode)

\* The panel toggles what it shows; the focus on voice implies ambient sound.
SetVoiceFocus ==
    LET enabled == ~Effective("voice")
    IN  Set([desired EXCEPT !["noise"] = "ambient", !["voice"] = enabled], "voice", enabled)

\* The same steps set DSEE, the level and the equalizer.
SetUltMode == \E mode \in Values.ult : Set([desired EXCEPT !["ult"] = mode], "ult", mode)

-----------------------------------------------------------------------------
(* sony-ctl *)

\* The line is in the daemon's socket.  With no file there is no daemon.
CtlSends ==
    /\ ctlProcess.at = "started" /\ file # None
    /\ ctlProcess' = [ctlProcess EXCEPT !.at = "sent"]
    /\ lines' = lines \cup {ctlProcess.command}
    /\ UNCHANGED <<desired, real, settleTimer, commandQueue, lastError, world, polled, loading,
                   given, done, failed>>

\* onExited
Exited(error) ==
    /\ LET next == DispatchNext(commandQueue, Idle)
       IN  commandQueue' = next.queue /\ ctlProcess' = next.process
    /\ lastError' = (lastError \/ error)
    /\ UNCHANGED <<desired, real, settleTimer, loading, given>>

\* sony-ctl ends after its command was executed; it may not have heard the answer.
CtlExits ==
    /\ ctlProcess.at = "executed"
    /\ \E error \in BOOLEAN : Exited(error)
    /\ UNCHANGED <<world, sockets, done, failed>>

\* It finds no daemon, or none that makes room for it; or it gives up waiting, or
\* loses the daemon, after its line was sent.  The line stays where it is.
CtlFails ==
    /\ ctlProcess.at \in {"started", "sent"}
    /\ Exited(TRUE)
    /\ failed' = failed \cup {ctlProcess.command.id}
    /\ UNCHANGED <<world, sockets, done>>

-----------------------------------------------------------------------------
(* The daemon, as far as the panel meets it *)

Runs(command) == ctlProcess.at # "idle" /\ ctlProcess.command = command

\* Fault: input is looked for before the hangup.
ReadableInputFirst(command) == TRUE

\* The hangup of a sony-ctl that has ended wins over its line.
Readable(command) == Runs(command)

\* The events of a poll() are served before the next one; the connections that hung
\* up are closed with their lines unread.
DaemonPolls ==
    /\ polled = {} /\ lines # {}
    /\ polled' = {command \in lines : Readable(command)}
    /\ lines' = polled'
    /\ UNCHANGED <<panel, world, loading, given, done, failed>>

\* What a setter of the daemon publishes.
Publishes(document, command) ==
    CASE command.verb = "noise" -> [document EXCEPT !.noise = command.value]
      [] command.verb = "voice" -> [document EXCEPT !.noise = "ambient", !.voice = command.value]
      [] command.verb = "ult" -> [document EXCEPT !.ult = command.value]

\* A line that was found readable is executed, whether its sony-ctl still runs or
\* has ended since the poll.
DaemonExecutes ==
    \E command \in polled :
        /\ file' = Publishes(file, command)
        /\ changed' = TRUE
        /\ done' = Append(done, command.id)
        /\ polled' = polled \ {command} /\ lines' = lines \ {command}
        /\ ctlProcess' = IF Runs(command) THEN [ctlProcess EXCEPT !.at = "executed"]
                         ELSE ctlProcess
        /\ UNCHANGED <<desired, real, settleTimer, commandQueue, lastError, reports, loading,
                       given, failed>>

\* A report of the headset, a lost link, the start of the daemon.
StatusChanges ==
    /\ reports < MaxReports
    /\ reports' = reports + 1
    /\ file' \in Document
    /\ changed' = TRUE
    /\ UNCHANGED <<panel, sockets, loading, given, done, failed>>

\* The lines are lost with the sockets, the file only with an orderly end.
DaemonEnds ==
    /\ file # None
    /\ \/ /\ reports < MaxReports /\ reports' = reports + 1
          /\ file' = None /\ changed' = TRUE
       \/ UNCHANGED world
    /\ lines' = {} /\ polled' = {}
    /\ UNCHANGED <<panel, loading, given, done, failed>>

-----------------------------------------------------------------------------
Next ==
    \/ ReadFile \/ ApplyStatus \/ Refresh \/ SettleTimerTriggered
    \/ SetNoiseMode \/ SetVoiceFocus \/ SetUltMode
    \/ CtlSends \/ CtlExits \/ CtlFails
    \/ DaemonPolls \/ DaemonExecutes \/ StatusChanges \/ DaemonEnds

Spec == Init /\ [][Next]_vars

\* The event loop of the shell delivers timers, file events and exits; sony-ctl
\* always ends (Ctl!AlwaysEnds).  Nothing is assumed of the daemon.
FairSpec ==
    /\ Spec
    /\ WF_vars(ReadFile) /\ WF_vars(ApplyStatus) /\ WF_vars(SettleTimerTriggered)
    /\ WF_vars(CtlSends \/ CtlExits \/ CtlFails)

-----------------------------------------------------------------------------
(* Properties *)

Running == IF ctlProcess.at = "idle" THEN <<>> ELSE <<ctlProcess.command>>

IdsOf(commands) == [i \in 1 .. Len(commands) |-> commands[i].id]

\* The daemon executes the user's commands in the order in which they were given,
\* each at most once, also those whose sony-ctl had given up by then; and none is
\* forgotten: it was executed, its sony-ctl failed, it runs or it waits
\* (Service.qml:83-110, IpcServer.cpp:360-385).
Accounted ==
    /\ \A i, j \in 1 .. Len(done) : i < j => done[i] < done[j]
    /\ 1 .. given = ToSet(done) \cup failed \cup ToSet(IdsOf(Running \o commandQueue))
    /\ \A i, j \in 1 .. Len(commandQueue) : i < j => commandQueue[i].id < commandQueue[j].id

\* Whatever fails or races, every command ends and the panel comes to show what the
\* status file says: no override is left behind (Service.qml:63-78, 127-166).
Converges ==
    <>[](/\ commandQueue = <<>> /\ ctlProcess.at = "idle"
         /\ \A s \in Settings : Effective(s) = ParseStatus(file)[s])
=============================================================================
