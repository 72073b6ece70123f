------------------------------ MODULE Session ------------------------------
(***************************************************************************)
(* The daemon's RFCOMM session: BluetoothManager's connection state        *)
(* machine, the transmit queue and the callbacks of main.cpp, the          *)
(* connected flag they publish, and the headset at the other end.          *)
(*                                                                         *)
(* The daemon is one thread around one poll loop, and its handlers call    *)
(* each other synchronously: a failing send inside pumpTx runs             *)
(* scheduleReconnect and onDisconnected before pumpTx continues.  A        *)
(* handler is therefore an operator from daemon records to daemon records, *)
(* composed as the calls nest, and an action is one handler run to its     *)
(* end.  Time is left out: a timer whose deadline may have passed may      *)
(* fire.                                                                   *)
(***************************************************************************)
EXTENDS Naturals, Sequences, FiniteSets

CONSTANTS
    Commands,     \* control frames that IPC clients can ask for
    TestHooks,    \* the simulation signals and IPC verbs in use
    MaxQueue,     \* bound: commands are offered while txQueue is shorter
    MaxInbound,   \* bound: frames on their way from the headset
    MaxOutbound   \* bound: frames on their way to the headset

Bits == {0, 1}

\* What onConnected enqueues: the handshake, then four state queries.
Opening == {"handshake", "battery", "noise", "ult", "dsee"}

ASSUME SessionAssumption ==
    /\ Commands \cap (Opening \cup {"ack"}) = {}
    /\ TestHooks \subseteq {"SIGUSR1", "SIGUSR2", "_disconnect", "_reconnect"}
    /\ MaxQueue \in Nat
    /\ MaxInbound \in Nat
    /\ MaxOutbound \in Nat

\* DISCOVERING and RESOLVING_SDP begin and end within one handler.
ConnectionState == {"DISCONNECTED", "CONNECTING", "CONNECTED", "RECONNECT_BACKOFF"}

Request == Opening \cup Commands

\* A control frame carries the daemon's alternating bit.  Our own
\* acknowledgements carry the headset's, which no property here tells apart.
ControlFrame == [kind : Request, seq : Bits]
AckFrame == [kind |-> "ack", seq |-> 0]
OutboundFrame == ControlFrame \cup {AckFrame}

\* parseInboundPayload recognises a "report" and ignores any "other" payload.
InboundFrame == [kind : {"ack", "report", "other"}, seq : Bits]

\* StreamFramer's buffer between two reads: nothing, the first part of a
\* frame, or parts of two different frames run together.
Buffered == {"empty", "partial", "merged"}

NoBit == 2

(***************************************************************************)
(* The daemon's memory and the two kernel buffers of its socket.           *)
(*   wire       accepted by the kernel, not yet read by the headset        *)
(*   inbound    sent by the headset, not yet read by the daemon            *)
(*   headRead   the first part of Head(inbound) is in the StreamFramer     *)
(*   connected  status.json exists and says so; it outlives the process    *)
(*   expired    history: a frame of this session was released by timeout   *)
(*   simulated  history: SIGUSR1 dropped the link, no later loss reset it  *)
(***************************************************************************)
Daemon ==
    [state : ConnectionState, sendQueue : Seq(OutboundFrame), txQueue : Seq(Request),
     txPending : BOOLEAN, txSeq : Bits, framer : Buffered, connected : BOOLEAN,
     wire : Seq(OutboundFrame), inbound : Seq(InboundFrame), headRead : BOOLEAN,
     expired : BOOLEAN, simulated : BOOLEAN]

VARIABLES
    running,    \* the daemon process exists
    daemon,     \* its memory and its socket
    reachable,  \* the headset is switched on and in range
    alive,      \* the headset is still at the other end of the daemon's socket
    heard       \* bit of the last control frame the headset read in this session

vars == <<running, daemon, reachable, alive, heard>>

-----------------------------------------------------------------------------
(* main.cpp's callbacks and BluetoothManager's methods.  A definition whose  *)
(* comment begins "Fault:" is no part of the model: it is a mistake that the *)
(* definition after it could contain, and that some property must notice.    *)

\* Fault: the queued requests survive the link.
OnDisconnectedKeepsQueue(d) ==
    [d EXCEPT !.txSeq = 0, !.txPending = FALSE,
              !.framer = "empty", !.connected = FALSE, !.simulated = FALSE]

\* Fault: the partial frame survives the link.
OnDisconnectedKeepsFramer(d) ==
    [d EXCEPT !.txSeq = 0, !.txQueue = <<>>, !.txPending = FALSE,
              !.connected = FALSE, !.simulated = FALSE]

\* Fault: the loss of the link is not published.
OnDisconnectedSilently(d) ==
    [d EXCEPT !.txSeq = 0, !.txQueue = <<>>, !.txPending = FALSE,
              !.framer = "empty", !.simulated = FALSE]

OnDisconnected(d) ==
    [d EXCEPT !.txSeq = 0, !.txQueue = <<>>, !.txPending = FALSE,
              !.framer = "empty", !.connected = FALSE, !.simulated = FALSE]

\* Fault: bytes that a short write left behind wait for the next link.
CloseTransportKeepsQueue(d) ==
    [d EXCEPT !.wire = <<>>, !.inbound = <<>>, !.headRead = FALSE]

\* transport_->disconnect() and sendQueue_.clear()
CloseTransport(d) ==
    [d EXCEPT !.sendQueue = <<>>, !.wire = <<>>, !.inbound = <<>>, !.headRead = FALSE]

\* Fault: the simulated disconnect leaves the link as it is.
DisconnectNothing(d) == d

\* The manager drops the link without telling main.cpp.
Disconnect(d) == [CloseTransport(d) EXCEPT !.state = "DISCONNECTED"]

ScheduleReconnect(d) ==
    OnDisconnected([CloseTransport(d) EXCEPT !.state = "RECONNECT_BACKOFF"])

\* What the kernel may answer to a write: all of it, less than all, an error.
Outcomes == {"sent", "short"} \cup (IF alive THEN {} ELSE {"error"})

\* Fault: a frame overtakes those that a short write left in sendQueue_.
SendPacketAtOnce(d, frame, outcome) ==
    IF d.state # "CONNECTED" THEN d
    ELSE IF outcome = "short" THEN [d EXCEPT !.sendQueue = Append(@, frame)]
    ELSE IF outcome = "sent" THEN [d EXCEPT !.wire = Append(@, frame)]
    ELSE ScheduleReconnect(d)

SendPacket(d, frame, outcome) ==
    IF d.state # "CONNECTED" THEN d
    ELSE IF d.sendQueue # <<>> \/ outcome = "short"
         THEN [d EXCEPT !.sendQueue = Append(@, frame)]
    ELSE IF outcome = "sent" THEN [d EXCEPT !.wire = Append(@, frame)]
    ELSE ScheduleReconnect(d)

\* Fault: the sequence byte is incremented where it must be toggled.
NextSeqCounts(seq) == seq + 1

NextSeq(seq) == 1 - seq

\* txPending is set after the send, also when that send has lost the link.
PumpTx(d, outcome) ==
    IF d.txQueue = <<>> THEN [d EXCEPT !.txPending = FALSE]
    ELSE LET frame == [kind |-> Head(d.txQueue), seq |-> d.txSeq]
             popped == [d EXCEPT !.txQueue = Tail(@), !.txSeq = NextSeq(@)]
         IN  [SendPacket(popped, frame, outcome) EXCEPT !.txPending = TRUE]

\* Fault: a new request does not wait for the frame on its way.
EnqueueTxEagerly(d, request, outcome) ==
    PumpTx([d EXCEPT !.txQueue = Append(@, request)], outcome)

EnqueueTx(d, request, outcome) ==
    LET queued == [d EXCEPT !.txQueue = Append(@, request)]
    IN  IF d.txPending THEN queued ELSE PumpTx(queued, outcome)

\* Fault: requests queued before the session stay in front of the handshake.
FreshSessionKeepsQueue(d) ==
    [d EXCEPT !.txSeq = 0, !.connected = TRUE, !.txPending = FALSE, !.expired = FALSE]

FreshSession(d) ==
    [d EXCEPT !.txSeq = 0, !.connected = TRUE, !.txQueue = <<>>, !.txPending = FALSE,
              !.expired = FALSE]

OnConnected(d, outcome) ==
    LET opened == EnqueueTx(FreshSession(d), "handshake", outcome)
        battery == EnqueueTx(opened, "battery", outcome)
        noise == EnqueueTx(battery, "noise", outcome)
        ult == EnqueueTx(noise, "ult", outcome)
    IN  EnqueueTx(ult, "dsee", outcome)

BecomeConnected(d, outcome) == OnConnected([d EXCEPT !.state = "CONNECTED"], outcome)

\* attemptDiscovery, attemptSdp and attemptConnect, which run into each other:
\* no usable device and a failed connect() both end in scheduleReconnect.
AttemptResults == {"inProgress"} \cup (IF reachable THEN {"connected"} ELSE {"failed"})

\* Fault: a failed attempt is not followed by another one.
AttemptDiscoveryOnce(d, result, outcome) ==
    CASE result = "failed" -> [d EXCEPT !.state = "DISCOVERING"]
      [] result = "inProgress" -> [d EXCEPT !.state = "CONNECTING"]
      [] result = "connected" -> BecomeConnected(d, outcome)

AttemptDiscovery(d, result, outcome) ==
    CASE result = "failed" -> ScheduleReconnect(d)
      [] result = "inProgress" -> [d EXCEPT !.state = "CONNECTING"]
      [] result = "connected" -> BecomeConnected(d, outcome)

Start(d, result, outcome) ==
    IF d.state \in {"CONNECTED", "CONNECTING"} THEN d
    ELSE AttemptDiscovery(d, result, outcome)

\* The StreamFramer holds exactly the part of Head(inbound) already read.
InStep(d) == d.framer = IF d.headRead THEN "partial" ELSE "empty"

\* One complete frame leaves the StreamFramer.
OnFrame(d, frame, outcome) ==
    IF frame.kind = "ack" THEN PumpTx(d, outcome)
    ELSE LET replied == SendPacket(d, AckFrame, outcome)
         IN  IF frame.kind = "report" THEN [replied EXCEPT !.connected = TRUE]
             ELSE replied

\* The last part of Head(inbound) arrives.  Parts of different frames run
\* together do not unpack, and all of them are dropped.
OnDataReceived(d, outcome) ==
    LET read == [d EXCEPT !.framer = "empty", !.inbound = Tail(@), !.headRead = FALSE]
    IN  IF InStep(d) THEN OnFrame(read, Head(d.inbound), outcome) ELSE read

-----------------------------------------------------------------------------
(* Actions *)

HasSocket(d) == d.state \in {"CONNECTING", "CONNECTED"}

NewProcess ==
    [state |-> "DISCONNECTED", sendQueue |-> <<>>, txQueue |-> <<>>, txPending |-> FALSE,
     txSeq |-> 0, framer |-> "empty", connected |-> FALSE, wire |-> <<>>, inbound |-> <<>>,
     headRead |-> FALSE, expired |-> FALSE, simulated |-> FALSE]

Init ==
    /\ running = FALSE
    /\ daemon = NewProcess
    /\ reachable \in BOOLEAN
    /\ alive = FALSE
    /\ heard = NoBit

\* A handler leaves the daemon in d; a socket that it opens has the headset at
\* the other end if the headset is there now.
Becomes(d) ==
    /\ daemon' = d
    /\ alive' = IF HasSocket(daemon) THEN alive /\ HasSocket(d)
                                     ELSE reachable /\ HasSocket(d)
    /\ heard' = IF daemon.state = "CONNECTED" /\ d.state = "CONNECTED"
                THEN heard ELSE NoBit
    /\ UNCHANGED reachable

\* main: StateEngine starts disconnected and the manager tries at once.
Boot ==
    /\ ~running
    /\ running' = TRUE
    /\ \E result \in AttemptResults, outcome \in {"sent", "short"} :
           Becomes(Start(NewProcess, result, outcome))

\* SIGINT, SIGTERM, or an error of poll: the shutdown code takes status.json away.
Exit ==
    /\ running
    /\ running' = FALSE
    /\ Becomes(NewProcess)

\* The process is killed or crashes: memory and socket are gone, status.json
\* stays as it was published last.
Die ==
    /\ running
    /\ running' = FALSE
    /\ Becomes([NewProcess EXCEPT !.connected = daemon.connected])

\* Restart=on-failure: the service manager starts a daemon that died again, and
\* not one that was stopped.  Only a death can leave connected:true behind.
Restart == daemon.connected /\ Boot

Retry ==
    /\ running /\ UNCHANGED running
    /\ daemon.state = "RECONNECT_BACKOFF"
    /\ \E result \in AttemptResults, outcome \in {"sent", "short"} :
           Becomes(AttemptDiscovery(daemon, result, outcome))

\* connect() completed, perhaps before the headset went away again.
ConnectSucceeds ==
    /\ running /\ UNCHANGED running
    /\ daemon.state = "CONNECTING"
    /\ \E outcome \in Outcomes : Becomes(BecomeConnected(daemon, outcome))

\* connect() failed, or tick found that it takes longer than connectTimeoutMs.
ConnectFails ==
    /\ running /\ UNCHANGED running
    /\ daemon.state = "CONNECTING"
    /\ Becomes(ScheduleReconnect(daemon))

\* POLLERR, POLLHUP, end of stream or a read error
Hangup ==
    /\ running /\ UNCHANGED running
    /\ daemon.state = "CONNECTED" /\ ~alive
    /\ Becomes(ScheduleReconnect(daemon))

Backlog == Len(daemon.wire) + Len(daemon.sendQueue)

\* recv returns the first part of a frame.
ReadPart ==
    /\ running /\ UNCHANGED running
    /\ daemon.state = "CONNECTED" /\ daemon.inbound # <<>> /\ ~daemon.headRead
    /\ Becomes([daemon EXCEPT !.headRead = TRUE,
                              !.framer = IF @ = "empty" THEN "partial" ELSE "merged"])

\* recv returns the rest of a frame.
ReadFrame ==
    /\ running /\ UNCHANGED running
    /\ daemon.state = "CONNECTED" /\ daemon.inbound # <<>>
    /\ Backlog + 1 < MaxOutbound
    /\ \E outcome \in Outcomes : Becomes(OnDataReceived(daemon, outcome))

\* handleConnectedWrite: the kernel takes n whole frames of sendQueue, the
\* bytes of a cut frame staying behind, or the write fails.
HandleConnectedWrite ==
    /\ running /\ UNCHANGED running
    /\ daemon.state = "CONNECTED" /\ daemon.sendQueue # <<>>
    /\ \/ \E n \in 1 .. Len(daemon.sendQueue) :
              Becomes([daemon EXCEPT
                  !.wire = @ \o SubSeq(daemon.sendQueue, 1, n),
                  !.sendQueue = SubSeq(@, n + 1, Len(@))])
       \/ "error" \in Outcomes /\ Becomes(ScheduleReconnect(daemon))

\* The IPC setters: without a link the command only changes the status.
IpcSet(command) ==
    /\ running /\ UNCHANGED running
    /\ daemon.state = "CONNECTED"
    /\ Len(daemon.txQueue) < MaxQueue /\ Backlog < MaxOutbound
    /\ \A i \in 1 .. Len(daemon.txQueue) : daemon.txQueue[i] # command
    /\ \E outcome \in Outcomes : Becomes(EnqueueTx(daemon, command, outcome))

\* Fault: the timer runs only while no acknowledgement is awaited.
AckOverdueWhenIdle(d) == ~d.txPending /\ d.txQueue # <<>>

\* The oldest unacknowledged frame has waited for more than 1500 ms.
AckOverdue(d) == d.txPending /\ d.txQueue # <<>>

TxTimeout ==
    /\ running /\ UNCHANGED running
    /\ AckOverdue(daemon)
    /\ Backlog < MaxOutbound
    /\ \E outcome \in Outcomes :
           Becomes([PumpTx(daemon, outcome) EXCEPT !.expired = TRUE])

SimulateDisconnect ==
    /\ running /\ UNCHANGED running
    /\ "SIGUSR1" \in TestHooks
    /\ Becomes(Disconnect([daemon EXCEPT !.connected = FALSE, !.simulated = TRUE]))

SimulateReconnect ==
    /\ running /\ UNCHANGED running
    /\ "SIGUSR2" \in TestHooks
    /\ \E result \in AttemptResults, outcome \in {"sent", "short"} :
           Becomes(Start([daemon EXCEPT !.connected = TRUE], result, outcome))

\* The IPC verbs _disconnect and _reconnect touch the published flag alone.
PretendConnected(connected) ==
    /\ running /\ UNCHANGED running
    /\ (IF connected THEN "_reconnect" ELSE "_disconnect") \in TestHooks
    /\ Becomes([daemon EXCEPT !.connected = connected])

-----------------------------------------------------------------------------
(* The headset, as docs/xm3-protocol.md and the code's use of it describe it *)

\* It acknowledges a control frame once, or drops it without a word.
HeadsetReads ==
    /\ alive /\ daemon.wire # <<>>
    /\ LET frame == Head(daemon.wire)
           read == [daemon EXCEPT !.wire = Tail(@)]
       IN  /\ heard' = IF frame.kind = "ack" THEN heard ELSE frame.seq
           /\ \/ daemon' = read
              \/ /\ frame.kind # "ack" /\ Len(daemon.inbound) < MaxInbound
                 /\ daemon' = [read EXCEPT
                        !.inbound = Append(@, [kind |-> "ack", seq |-> 1 - frame.seq])]
    /\ UNCHANGED <<running, reachable, alive>>

\* Replies and notifications; none before the handshake.
HeadsetReports ==
    /\ alive /\ heard # NoBit
    /\ Len(daemon.inbound) < MaxInbound
    /\ \E kind \in {"report", "other"} :
           daemon' = [daemon EXCEPT !.inbound = Append(@, [kind |-> kind, seq |-> 0])]
    /\ UNCHANGED <<running, reachable, alive, heard>>

HeadsetLeaves ==
    /\ reachable
    /\ reachable' = FALSE
    /\ alive' = FALSE
    /\ UNCHANGED <<running, daemon, heard>>

HeadsetReturns ==
    /\ ~reachable
    /\ reachable' = TRUE
    /\ UNCHANGED <<running, daemon, alive, heard>>

-----------------------------------------------------------------------------

Next ==
    \/ Boot \/ Exit \/ Die
    \/ Retry \/ ConnectSucceeds \/ ConnectFails \/ Hangup
    \/ ReadPart \/ ReadFrame \/ HandleConnectedWrite
    \/ \E command \in Commands : IpcSet(command)
    \/ TxTimeout
    \/ SimulateDisconnect \/ SimulateReconnect
    \/ \E connected \in BOOLEAN : PretendConnected(connected)
    \/ HeadsetReads \/ HeadsetReports \/ HeadsetLeaves \/ HeadsetReturns

Spec == Init /\ [][Next]_vars

(***************************************************************************)
(* The poll loop wakes at least every 100 ms, serves every ready           *)
(* descriptor and then runs tick and the acknowledgement timer, so each    *)
(* handler that stays enabled runs.  A headset that stays in range reads   *)
(* its bytes, and does not let every single connect() time out.  The        *)
(* service manager restarts what died.                                     *)
(***************************************************************************)
Fairness ==
    /\ WF_vars(Restart)
    /\ WF_vars(Retry) /\ WF_vars(ConnectFails) /\ SF_vars(alive /\ ConnectSucceeds)
    /\ WF_vars(Hangup)
    /\ WF_vars(ReadFrame) /\ WF_vars(HandleConnectedWrite) /\ WF_vars(TxTimeout)
    /\ WF_vars(HeadsetReads)

FairSpec == Spec /\ Fairness

-----------------------------------------------------------------------------
(* Safety *)

TypeOK ==
    /\ running \in BOOLEAN
    /\ daemon \in Daemon
    /\ reachable \in BOOLEAN
    /\ alive \in BOOLEAN
    /\ heard \in Bits \cup {NoBit}

\* Whenever a request waits in txQueue a frame counts as unacknowledged, so
\* that an acknowledgement or the 1500 ms timer will release the request, also
\* after a send failed in the middle of pumpTx or of onConnected
\* (main.cpp:237-258, 540-551).
NeverWedged == daemon.txQueue # <<>> => daemon.txPending

\* A link that is up is never published as disconnected, unless the IPC verb
\* _disconnect says so (main.cpp:265, 292, 441-444, 509).
LiveLinkPublished ==
    "_disconnect" \notin TestHooks /\ daemon.state = "CONNECTED" => daemon.connected

Control(s) == {i \in 1 .. Len(s) : s[i].kind # "ack"}

\* The control frames that the headset reads in a session, whether written at
\* once or held in sendQueue_ after a short write, begin with the handshake
\* and carry the bits 0, 1, 0, ... without a gap (main.cpp:228-229;
\* MDRProtocol.hpp:130-132).
InSequence ==
    LET sent == daemon.wire \o daemon.sendQueue
        Follows(i, bit) == sent[i].kind # "handshake" /\ sent[i].seq = 1 - bit
    IN  \A i \in Control(sent) :
            LET before == {j \in Control(sent) : j < i}
            IN  IF before # {}
                THEN \E j \in before : (\A k \in before : k <= j) /\ Follows(i, sent[j].seq)
                ELSE IF heard # NoBit THEN Follows(i, heard)
                ELSE sent[i] = [kind |-> "handshake", seq |-> 0]

\* Control frames on their way to the headset, and acknowledgements on their
\* way back.
Outstanding ==
    Cardinality(Control(daemon.wire \o daemon.sendQueue))
    + Cardinality({i \in 1 .. Len(daemon.inbound) : daemon.inbound[i].kind = "ack"})

\* Until the acknowledgement timer fires in a session, at most one control
\* frame is unacknowledged, and none while the queue believes itself idle
\* (main.cpp:222-226).
OneAtATime ==
    daemon.state = "CONNECTED" /\ ~daemon.expired =>
        Outstanding <= IF daemon.txPending THEN 1 ELSE 0

\* The StreamFramer never holds bytes of an earlier session, unless the link
\* was dropped by SIGUSR1, which bypasses onDisconnected (main.cpp:291, 512):
\* then the first frame of the next session can be lost.
FramerInStep == daemon.state = "CONNECTED" /\ ~daemon.simulated => InStep(daemon)

\* No byte waits for a link that is down, and the StreamFramer agrees with what
\* was read in every state, not only while connected.
LinkCoherent(d) ==
    /\ d \in Daemon
    /\ d.state # "CONNECTED" =>
           d.sendQueue = <<>> /\ d.wire = <<>> /\ d.inbound = <<>> /\ ~d.headRead
    /\ ~d.simulated => InStep(d)
    /\ "_disconnect" \notin TestHooks /\ d.state = "CONNECTED" => d.connected

Coherent(d) == LinkCoherent(d) /\ (d.txQueue # <<>> => d.txPending)

\* The inductive invariant behind NeverWedged, LiveLinkPublished and
\* FramerInStep: what every handler needs to find and leaves behind
\* (main.cpp:237-335; BluetoothManager.cpp:602-853).
IInv ==
    /\ TypeOK
    /\ Coherent(daemon)
    /\ heard # NoBit => daemon.state = "CONNECTED"
    /\ ~running => daemon.state = "DISCONNECTED"

-----------------------------------------------------------------------------
(* Refinement *)

InSession == daemon.state = "CONNECTED"

\* The transmit queue as a session sees it.
Sequencer == INSTANCE TxSequencer WITH
    Queries <- <<"battery", "noise", "ult", "dsee">>,
    open <- InSession,
    waiting <- IF InSession THEN daemon.txQueue ELSE <<>>,
    bit <- IF InSession THEN daemon.txSeq ELSE 0,
    busy <- InSession /\ daemon.txPending

\* The daemon's queue keeps the promise of TxSequencer across every loss of
\* the link, timeout and simulated disconnect (main.cpp:233-296).
QueueKeepsPromise == Sequencer!Spec

-----------------------------------------------------------------------------
(* Liveness *)

\* A queued command leaves the queue even if the headset never acknowledges
\* anything (main.cpp:540-551).
CommandReleased ==
    \A command \in Commands :
        LET Queued == \E i \in 1 .. Len(daemon.txQueue) : daemon.txQueue[i] = command
        IN  Queued ~> ~Queued

\* If the headset stays in range, the daemon ends up connected to it and stays
\* so, whatever happened before; only SIGUSR1 stops it from trying
\* (BluetoothManager.cpp:827-873; main.cpp:512).
Reconnects ==
    <>[](running /\ reachable /\ daemon.state # "DISCONNECTED")
        => <>[](daemon.state = "CONNECTED")

\* A status that says connected while the link is down is corrected: by the
\* next attempt that fails or by the one that succeeds, and where the daemon
\* died with the link up by the one that the service starts in its place
\* (main.cpp:169-170, 287-294; BluetoothManager.cpp:827-873).
StatusHeals ==
    "_reconnect" \notin TestHooks =>
        (daemon.connected /\ daemon.state # "CONNECTED") ~>
            (daemon.connected <=> daemon.state = "CONNECTED")
=============================================================================
