----------------------------- MODULE SettingSync -----------------------------
(***************************************************************************)
(* The values behind the commands: what the user asked for, what the       *)
(* daemon publishes, what travels, and what the headset does.              *)
(*                                                                         *)
(* A setter publishes the wanted value at once and queues a frame if there *)
(* is a link; reports of earlier values may still arrive and overwrite it. *)
(* The transmit queue is TxSequencer, which Session implements; this       *)
(* module adds what the released frames carry and what comes back.         *)
(*                                                                         *)
(* A noise setting is a mode and the focus on voice.  Beside it the status *)
(* shows an ambient level, which travels in neither direction: the frames  *)
(* say 0 whatever was commanded, and every report sets it to 0.  The other *)
(* settings are single values, that of the equalizer is its preset.        *)
(***************************************************************************)
EXTENDS Integers, Sequences, SequencesExt

CONSTANTS
    Values,        \* the single-valued settings -> what the headset may report
    Commands,      \* commands that clients give: [name, value]
    Initially,     \* what the headset may be set to when the daemon starts
    MaxCommands, MaxSessions, MaxTouches, MaxDrops, MaxTimeouts   \* bounds of count

Modes == {"anc", "ambient", "off"}
Levels == 0 .. 20

\* The presets that eqPresetToString has a name for.
EqPresets == {"off", "bright", "excited", "mellow", "relaxed", "vocal", "treble",
              "bass", "speech", "custom"}

Settings == {"noise"} \cup DOMAIN Values

\* What status.json can say of the noise control, and what the headset can do.
Shown == [mode : Modes, voice : BOOLEAN, level : Levels]
Effective == {n \in [mode : Modes, voice : BOOLEAN] : n.voice => n.mode = "ambient"}

\* StateEngine as it is constructed.
Default == [noise |-> [mode |-> "anc", voice |-> FALSE, level |-> 0], battery |-> 85,
            ult |-> 0, dsee |-> TRUE, eq |-> "off"]

EffectiveOf == [s \in Settings |-> IF s = "noise" THEN Effective ELSE Values[s]]
ShownOf == [s \in Settings |->
               CASE s = "noise" -> Shown
                 [] s = "ult" -> 0 .. 2
                 [] s = "eq" -> EqPresets
                 [] OTHER -> Values[s] \cup {Default[s]}]

\* A value for every setting.
Each(sets) == [noise : sets["noise"], battery : sets["battery"], ult : sets["ult"],
               dsee : sets["dsee"], eq : sets["eq"]]

\* ipcCb rejects any other command before it reaches a setter.
ASSUME SettingAssumption ==
    /\ DOMAIN Values = {"battery", "ult", "dsee", "eq"}
    /\ Values["ult"] \subseteq 0 .. 255
    /\ Initially \subseteq Each(EffectiveOf)
    /\ \A command \in Commands :
          \/ command.name = "noise" /\ command.value \in Modes
          \/ command.name = "voice-focus" /\ command.value \in BOOLEAN
          \/ command.name = "ambient-level" /\ command.value \in Levels
          \/ /\ command.name \in {"ult", "dsee", "eq"}
             /\ command.value \in Values[command.name] \cap ShownOf[command.name]

VARIABLES
    open, waiting, bit, busy,   \* the transmit queue
    wire,        \* frames on their way to the headset
    inbound,     \* acknowledgements and reports on their way back
    published,   \* setting -> the value in status.json
    actual,      \* setting -> the value in the headset
    wanted,      \* history: setting -> the values that the last command allows
    heard,       \* history: settings reported in this session
    dropped,     \* history: the headset dropped a frame in this session
    count        \* how often these happened: commands, sessions, touches, drops, timeouts

queue == <<open, waiting, bit, busy>>
vars == <<queue, wire, inbound, published, actual, wanted, heard, dropped, count>>

Ack == [kind |-> "ack"]
Report(s, value) == [kind |-> "report", setting |-> s, value |-> value]
Ask(s) == [kind |-> "ask", setting |-> s]
Put(s, value) == [kind |-> "put", setting |-> s, value |-> value]

\* onConnected: no query for the equalizer.
Queries == <<Ask("battery"), Ask("noise"), Ask("ult"), Ask("dsee")>>

Frame(m) ==
    \/ m.kind = "handshake"
    \/ m.kind = "ask" /\ m.setting \in Settings
    \/ m.kind = "put" /\ m.setting \in Settings /\ m.value \in EffectiveOf[m.setting]

Reply(m) ==
    \/ m = Ack
    \/ m.kind = "report" /\ m.setting \in Settings /\ m.value \in EffectiveOf[m.setting]

\* The commands that the queue accepts are the frames that setters build.
Queue == INSTANCE TxSequencer WITH
    Commands <- UNION {{Put(s, v) : v \in EffectiveOf[s]} : s \in Settings}

TypeOK ==
    /\ open \in BOOLEAN /\ busy \in BOOLEAN /\ bit \in {0, 1}
    /\ \A i \in 1 .. Len(waiting) : Frame(waiting[i])
    /\ \A i \in 1 .. Len(wire) : Frame(wire[i])
    /\ \A i \in 1 .. Len(inbound) : Reply(inbound[i])
    /\ published \in Each(ShownOf)
    /\ actual \in Each(EffectiveOf)
    /\ \A s \in Settings : wanted[s] \subseteq EffectiveOf[s]
    /\ heard \subseteq Settings
    /\ dropped \in BOOLEAN

Init ==
    /\ open = FALSE /\ waiting = <<>> /\ bit = 0 /\ busy = FALSE
    /\ wire = <<>> /\ inbound = <<>>
    /\ actual \in Initially
    /\ published = Default
    /\ wanted = EffectiveOf
    /\ heard = {} /\ dropped = FALSE
    /\ count = [commands |-> 0, sessions |-> 0, touches |-> 0, drops |-> 0,
                timeouts |-> 0]

-----------------------------------------------------------------------------
(* The commands: ipcCb of main.cpp *)

\* Fault: the focus on voice is sent in every mode.
SerializeNoiseModeAlways(mode, level, voice) == [mode |-> mode, voice |-> voice]

\* serializeNoiseMode: the voice byte is only set in ambient mode, the level
\* byte is 0 for every level.
SerializeNoiseMode(mode, level, voice) ==
    [mode |-> mode, voice |-> mode = "ambient" /\ voice]

\* What a setter writes into the status, and the value of the frame it builds.
SetNoiseMode(mode) ==
    LET voice == published["noise"].voice
    IN  [setting |-> "noise", shows |-> [mode |-> mode, voice |-> voice, level |-> 0],
         sends |-> SerializeNoiseMode(mode, 0, voice),
         allows |-> {n \in Effective : n.mode = mode}]

\* Fault: the mode that was published is sent along.
SetVoiceFocusInMode(enabled) ==
    [setting |-> "noise", shows |-> [mode |-> "ambient", voice |-> enabled, level |-> 0],
     sends |-> SerializeNoiseMode(published["noise"].mode, 0, enabled),
     allows |-> {[mode |-> "ambient", voice |-> enabled]}]

SetVoiceFocus(enabled) ==
    [setting |-> "noise", shows |-> [mode |-> "ambient", voice |-> enabled, level |-> 0],
     sends |-> SerializeNoiseMode("ambient", 0, enabled),
     allows |-> {[mode |-> "ambient", voice |-> enabled]}]

\* The level is published and not sent, the mode is sent and not published.  All
\* that a headset without levels can do is to go to ambient.
SetAmbientLevel(level) ==
    [setting |-> "noise", shows |-> [published["noise"] EXCEPT !.level = level],
     sends |-> SerializeNoiseMode("ambient", level, published["noise"].voice),
     allows |-> {n \in Effective : n.mode = "ambient"}]

\* setUltMode, setDsee, setEqPreset and setCustomEq.
SetValue(s, value) ==
    [setting |-> s, shows |-> value, sends |-> value, allows |-> {value}]

Setter(command) ==
    CASE command.name = "noise" -> SetNoiseMode(command.value)
      [] command.name = "voice-focus" -> SetVoiceFocus(command.value)
      [] command.name = "ambient-level" -> SetAmbientLevel(command.value)
      [] OTHER -> SetValue(command.name, command.value)

Counted(what) == count' = [count EXCEPT ![what] = @ + 1]

\* Publish, then queue the frame or, with nothing pending, send it at once.
SetLinked(command) ==
    /\ count.commands < MaxCommands /\ Counted("commands")
    /\ LET set == Setter(command)
           frame == Put(set.setting, set.sends)
       IN  /\ published' = [published EXCEPT ![set.setting] = set.shows]
           /\ wanted' = [wanted EXCEPT ![set.setting] = set.allows]
           /\ \/ Queue!Accept(frame) /\ UNCHANGED wire
              \/ Queue!Pass /\ wire' = Append(wire, frame)
    /\ UNCHANGED <<inbound, actual, heard, dropped>>

\* Without a link the command is answered OK and goes no further.
SetUnlinked(command) ==
    /\ ~open
    /\ count.commands < MaxCommands /\ Counted("commands")
    /\ LET set == Setter(command)
       IN  published' = [published EXCEPT ![set.setting] = set.shows]
    /\ UNCHANGED <<queue, wire, inbound, actual, wanted, heard, dropped>>

-----------------------------------------------------------------------------
(* The session *)

\* onConnected publishes the battery level that BlueZ knows, if it knows one.
Connect ==
    /\ count.sessions < MaxSessions /\ Counted("sessions")
    /\ Queue!Open
    /\ wire' = <<[kind |-> "handshake"]>>
    /\ \/ UNCHANGED published
       \/ \E level \in Values["battery"] :
              published' = [published EXCEPT !["battery"] = level]
    /\ UNCHANGED <<inbound, actual, wanted, heard, dropped>>

\* The link is lost with all that was queued or under way.
Lose ==
    /\ open' = FALSE /\ waiting' = <<>> /\ bit' = 0 /\ busy' = FALSE
    /\ Queue!Close
    /\ wire' = <<>> /\ inbound' = <<>>
    /\ wanted' = EffectiveOf
    /\ heard' = {} /\ dropped' = FALSE
    /\ UNCHANGED <<published, actual, count>>

\* pumpTx after an acknowledgement or the timer.
Pump ==
    \/ Queue!Release /\ wire' = Append(wire, Head(waiting))
    \/ Queue!Settle /\ UNCHANGED wire
    \/ open /\ ~busy /\ UNCHANGED <<queue, wire>>

ReceiveAck ==
    /\ inbound # <<>> /\ Head(inbound) = Ack
    /\ Pump
    /\ inbound' = Tail(inbound)
    /\ UNCHANGED <<published, actual, wanted, heard, dropped, count>>

TxTimeout ==
    /\ busy /\ Pump
    /\ count.timeouts < MaxTimeouts /\ Counted("timeouts")
    /\ UNCHANGED <<inbound, published, actual, wanted, heard, dropped>>

\* Fault: a report of the noise control leaves the focus on voice as it was.
ParsedModeOnly(s, value) ==
    IF s = "noise" THEN [published[s] EXCEPT !.mode = value.mode] ELSE value

\* parseInboundPayload: what the status has no name for becomes something else.
Parsed(s, value) ==
    CASE s = "noise" -> [mode |-> value.mode, voice |-> value.voice, level |-> 0]
      [] s = "ult" -> IF value > 2 THEN 2 ELSE value
      [] s = "eq" -> IF value \in EqPresets THEN value ELSE "off"
      [] OTHER -> value

ReceiveReport ==
    /\ inbound # <<>> /\ Head(inbound) # Ack
    /\ LET s == Head(inbound).setting
       IN  /\ published' = [published EXCEPT ![s] = Parsed(s, Head(inbound).value)]
           /\ heard' = heard \cup {s}
    /\ inbound' = Tail(inbound)
    /\ UNCHANGED <<queue, wire, actual, wanted, dropped, count>>

-----------------------------------------------------------------------------
(* The headset: one acknowledgement per frame, an answer to every query, and a *)
(* report of every change, whoever made it                                     *)

HeadsetReads ==
    /\ wire # <<>>
    /\ wire' = Tail(wire)
    /\ LET frame == Head(wire)
       IN  CASE frame.kind = "handshake" ->
                    inbound' = Append(inbound, Ack) /\ UNCHANGED actual
             [] frame.kind = "ask" ->
                    /\ inbound' = inbound \o <<Ack, Report(frame.setting, actual[frame.setting])>>
                    /\ UNCHANGED actual
             [] frame.kind = "put" ->
                    /\ inbound' = inbound \o
                          IF actual[frame.setting] = frame.value THEN <<Ack>>
                          ELSE <<Ack, Report(frame.setting, frame.value)>>
                    /\ actual' = [actual EXCEPT ![frame.setting] = frame.value]
    /\ UNCHANGED <<queue, published, wanted, heard, dropped, count>>

\* A frame is dropped "with no error of any kind".
HeadsetDrops ==
    /\ wire # <<>> /\ count.drops < MaxDrops /\ Counted("drops")
    /\ wire' = Tail(wire)
    /\ dropped' = TRUE
    /\ UNCHANGED <<queue, inbound, published, actual, wanted, heard>>

\* The buttons on the headset, or another app.
Touch ==
    /\ count.touches < MaxTouches /\ Counted("touches")
    /\ \E s \in Settings : \E v \in EffectiveOf[s] \ {actual[s]} :
        /\ actual' = [actual EXCEPT ![s] = v]
        /\ wanted' = [wanted EXCEPT ![s] = EffectiveOf[s]]
        /\ inbound' = IF open THEN Append(inbound, Report(s, v)) ELSE inbound
    /\ UNCHANGED <<queue, wire, published, heard, dropped>>

-----------------------------------------------------------------------------
Next ==
    \/ \E command \in Commands : SetLinked(command) \/ SetUnlinked(command)
    \/ Connect \/ Lose \/ ReceiveAck \/ TxTimeout \/ ReceiveReport
    \/ HeadsetReads \/ HeadsetDrops \/ Touch

Spec == Init /\ [][Next]_vars

-----------------------------------------------------------------------------
(* Properties *)

Quiet == open /\ waiting = <<>> /\ ~busy /\ wire = <<>> /\ inbound = <<>>

\* The status says of the headset what it has a name for: mode and focus, not the
\* level, which may only be shown while the mode is ambient; of the other settings
\* the values that it can show.
Tells(s, shown, value) ==
    IF s = "noise"
    THEN /\ shown.mode = value.mode /\ shown.voice = value.voice
         /\ shown.level # 0 => value.mode = "ambient"
    ELSE value \in ShownOf[s] => shown = value

\* When nothing is under way and no frame was dropped, the status tells the truth
\* about every setting that is asked for at the start of a session or was reported
\* since, whatever raced with whatever; but for the ambient level, of which it only
\* holds that none is shown in another mode (main.cpp:279-283, 318-327, 348-430;
\* MDRProtocol.cpp:331-353).
QuietTruth ==
    Quiet /\ ~dropped =>
        \A s \in Settings : s # "eq" \/ s \in heard => Tells(s, published[s], actual[s])

\* And the headset does what the last command for a setting said, unless it was
\* given without a link or the headset was touched since.  Of a level only the
\* mode it belongs to can be obeyed (main.cpp:348-430; MDRProtocol.cpp:204-219).
Obeyed ==
    Quiet /\ ~dropped => \A s \in Settings : actual[s] \in wanted[s]
=============================================================================
