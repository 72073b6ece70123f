--------------------------- MODULE SessionProofs ---------------------------
(***************************************************************************)
(* Machine-checked facts about Session, for every set of commands and test *)
(* hooks and every bound.                                                  *)
(*                                                                         *)
(* The handlers are operators on daemon records, so the argument has two   *)
(* layers: a lemma for each operator says that it takes a coherent daemon  *)
(* to a coherent daemon, in the order in which the operators call each     *)
(* other, and the theorems then treat one action per step.                 *)
(***************************************************************************)
EXTENDS Session, FiniteSetTheorems, SequenceTheorems, TLAPS

LEMMA EmptySequence == \A S : <<>> \in Seq(S)
  OBVIOUS

\* The atoms that the queues are made of.
LEMMA FrameTypes ==
    /\ AckFrame \in OutboundFrame
    /\ \A request \in Request, bit \in Bits :
           [kind |-> request, seq |-> bit] \in OutboundFrame
    /\ Opening \subseteq Request
    /\ Commands \subseteq Request
  BY DEF AckFrame, OutboundFrame, ControlFrame, Request

-----------------------------------------------------------------------------
(* The operators preserve Coherent *)

\* Whatever the daemon held, scheduleReconnect leaves it coherent.
LEMMA ScheduleReconnectCoherent ==
  ASSUME NEW d \in Daemon
  PROVE  /\ Coherent(ScheduleReconnect(d))
         /\ ScheduleReconnect(d).state = "RECONNECT_BACKOFF"
<1> DEFINE e == ScheduleReconnect(d)
<1>1. e \in Daemon
  BY EmptySequence
     DEF ScheduleReconnect, OnDisconnected, CloseTransport, Daemon, ConnectionState, Bits,
         Buffered
<1>2. /\ e.state = "RECONNECT_BACKOFF" /\ e.txQueue = <<>> /\ e.sendQueue = <<>>
      /\ e.wire = <<>> /\ e.inbound = <<>> /\ e.headRead = FALSE /\ e.framer = "empty"
  BY DEF ScheduleReconnect, OnDisconnected, CloseTransport, Daemon
<1> QED BY <1>1, <1>2 DEF Coherent, LinkCoherent, InStep

LEMMA SendPacketCoherent ==
  ASSUME NEW d, LinkCoherent(d), NEW frame \in OutboundFrame, NEW outcome
  PROVE  LinkCoherent(SendPacket(d, frame, outcome))
<1>1. /\ Append(d.sendQueue, frame) \in Seq(OutboundFrame)
      /\ Append(d.wire, frame) \in Seq(OutboundFrame)
  BY DEF LinkCoherent, Daemon
<1>2. CASE d.state = "CONNECTED" /\ (d.sendQueue # <<>> \/ outcome = "short")
  BY <1>1, <1>2 DEF SendPacket, LinkCoherent, InStep, Daemon
<1>3. CASE d.state = "CONNECTED" /\ d.sendQueue = <<>> /\ outcome = "sent"
  BY <1>1, <1>3 DEF SendPacket, LinkCoherent, InStep, Daemon
<1>4. CASE d.state # "CONNECTED"
  BY <1>4 DEF SendPacket
<1>5. CASE d.state = "CONNECTED" /\ d.sendQueue = <<>> /\ outcome \notin {"sent", "short"}
  BY <1>5, ScheduleReconnectCoherent DEF SendPacket, LinkCoherent, Coherent
<1> QED BY <1>2, <1>3, <1>4, <1>5

\* pumpTx repairs the queue: a request may wait for nothing before, not after.
LEMMA PumpTxCoherent ==
  ASSUME NEW d, LinkCoherent(d), NEW outcome
  PROVE  Coherent(PumpTx(d, outcome))
<1>1. CASE d.txQueue = <<>>
  <2>1. [d EXCEPT !.txPending = FALSE] \in Daemon
    BY DEF LinkCoherent, Daemon
  <2> QED BY <1>1, <2>1 DEF PumpTx, Coherent, LinkCoherent, InStep, Daemon
<1>2. CASE d.txQueue # <<>>
  <2> DEFINE frame == [kind |-> Head(d.txQueue), seq |-> d.txSeq]
             popped == [d EXCEPT !.txQueue = Tail(@), !.txSeq = NextSeq(@)]
             sent == SendPacket(popped, frame, outcome)
  <2>1. /\ Head(d.txQueue) \in Request
        /\ Tail(d.txQueue) \in Seq(Request)
        /\ d.txSeq \in Bits
        /\ NextSeq(d.txSeq) \in Bits
    BY <1>2 DEF LinkCoherent, Daemon, NextSeq, Bits
  <2>2. frame \in OutboundFrame
    BY <2>1, FrameTypes
  <2>3. LinkCoherent(popped)
    BY <2>1 DEF LinkCoherent, InStep, Daemon
  <2>4. LinkCoherent(sent)
    BY <2>2, <2>3, SendPacketCoherent
  <2>5. Coherent([sent EXCEPT !.txPending = TRUE])
    BY <2>4 DEF Coherent, LinkCoherent, InStep, Daemon
  <2> QED BY <1>2, <2>5 DEF PumpTx
<1> QED BY <1>1, <1>2

LEMMA EnqueueTxCoherent ==
  ASSUME NEW d, Coherent(d), NEW request \in Request, NEW outcome
  PROVE  Coherent(EnqueueTx(d, request, outcome))
<1> DEFINE queued == [d EXCEPT !.txQueue = Append(@, request)]
<1>1. Append(d.txQueue, request) \in Seq(Request)
  BY DEF Coherent, LinkCoherent, Daemon
<1>2. LinkCoherent(queued) /\ queued.txPending = d.txPending
  BY <1>1 DEF Coherent, LinkCoherent, InStep, Daemon
<1>3. CASE d.txPending
  BY <1>2, <1>3 DEF EnqueueTx, Coherent
<1>4. CASE ~d.txPending
  BY <1>2, <1>4, PumpTxCoherent DEF EnqueueTx
<1> QED BY <1>3, <1>4

LEMMA OnConnectedCoherent ==
  ASSUME NEW d, Coherent(d), d.state # "CONNECTED", NEW outcome
  PROVE  Coherent(BecomeConnected(d, outcome))
<1> DEFINE up == [d EXCEPT !.state = "CONNECTED"]
           opened == EnqueueTx(FreshSession(up), "handshake", outcome)
           battery == EnqueueTx(opened, "battery", outcome)
           noise == EnqueueTx(battery, "noise", outcome)
           ult == EnqueueTx(noise, "ult", outcome)
<1>1. FreshSession(up) \in Daemon
  BY EmptySequence DEF FreshSession, Coherent, LinkCoherent, Daemon, ConnectionState, Bits
<1>2. /\ FreshSession(up).txQueue = <<>> /\ FreshSession(up).connected = TRUE
      /\ FreshSession(up).simulated = d.simulated /\ FreshSession(up).framer = d.framer
      /\ FreshSession(up).headRead = d.headRead /\ FreshSession(up).state = "CONNECTED"
  BY DEF FreshSession, Coherent, LinkCoherent, Daemon
<1>3. Coherent(FreshSession(up))
  BY <1>1, <1>2 DEF Coherent, LinkCoherent, InStep
<1>4. \A request \in {"handshake", "battery", "noise", "ult", "dsee"} : request \in Request
  BY DEF Request, Opening
<1>5. Coherent(opened)
  BY <1>3, <1>4, EnqueueTxCoherent
<1>6. Coherent(battery)
  BY <1>5, <1>4, EnqueueTxCoherent
<1>7. Coherent(noise)
  BY <1>6, <1>4, EnqueueTxCoherent
<1>8. Coherent(ult)
  BY <1>7, <1>4, EnqueueTxCoherent
<1>9. Coherent(EnqueueTx(ult, "dsee", outcome))
  BY <1>8, <1>4, EnqueueTxCoherent
<1> QED BY <1>9 DEF BecomeConnected, OnConnected

LEMMA AttemptDiscoveryCoherent ==
  ASSUME NEW d, Coherent(d), ~HasSocket(d), NEW result \in AttemptResults, NEW outcome
  PROVE  Coherent(AttemptDiscovery(d, result, outcome))
<1>1. CASE result = "failed"
  BY <1>1, ScheduleReconnectCoherent DEF AttemptDiscovery, Coherent, LinkCoherent
<1>2. CASE result = "inProgress"
  <2>1. Coherent([d EXCEPT !.state = "CONNECTING"])
    BY DEF Coherent, LinkCoherent, InStep, HasSocket, Daemon, ConnectionState
  <2> QED BY <1>2, <2>1 DEF AttemptDiscovery
<1>3. CASE result = "connected"
  BY <1>3, OnConnectedCoherent DEF AttemptDiscovery, HasSocket
<1> QED BY <1>1, <1>2, <1>3 DEF AttemptResults

LEMMA StartCoherent ==
  ASSUME NEW d, Coherent(d), NEW result \in AttemptResults, NEW outcome
  PROVE  Coherent(Start(d, result, outcome))
  BY AttemptDiscoveryCoherent DEF Start, HasSocket

LEMMA OnFrameCoherent ==
  ASSUME NEW d, Coherent(d), NEW frame, NEW outcome
  PROVE  Coherent(OnFrame(d, frame, outcome))
<1> DEFINE replied == SendPacket(d, AckFrame, outcome)
<1>1. CASE frame.kind = "ack"
  BY <1>1, PumpTxCoherent DEF OnFrame, Coherent
<1>2. CASE frame.kind # "ack"
  <2>1. LinkCoherent(replied)
    BY SendPacketCoherent, FrameTypes DEF Coherent
  <2>2. \/ replied.txQueue = d.txQueue /\ replied.txPending = d.txPending
        \/ replied.txQueue = <<>>
    BY ScheduleReconnectCoherent
       DEF SendPacket, ScheduleReconnect, OnDisconnected, CloseTransport, Coherent,
           LinkCoherent, Daemon
  <2>3. Coherent(replied)
    BY <2>1, <2>2 DEF Coherent
  <2>4. Coherent([replied EXCEPT !.connected = TRUE])
    BY <2>3 DEF Coherent, LinkCoherent, InStep, Daemon
  <2> QED BY <1>2, <2>3, <2>4 DEF OnFrame
<1> QED BY <1>1, <1>2

LEMMA OnDataReceivedCoherent ==
  ASSUME NEW d, Coherent(d), d.state = "CONNECTED", d.inbound # <<>>, NEW outcome
  PROVE  Coherent(OnDataReceived(d, outcome))
<1> DEFINE read == [d EXCEPT !.framer = "empty", !.inbound = Tail(@), !.headRead = FALSE]
<1>1. Tail(d.inbound) \in Seq(InboundFrame)
  BY DEF Coherent, LinkCoherent, Daemon
<1>2. Coherent(read)
  BY <1>1 DEF Coherent, LinkCoherent, InStep, Daemon, Buffered
<1> QED BY <1>2, OnFrameCoherent DEF OnDataReceived

-----------------------------------------------------------------------------
(* The invariant *)

LEMMA NewProcessCoherent == Coherent(NewProcess)
<1>1. NewProcess \in Daemon
  BY EmptySequence DEF NewProcess, Daemon, ConnectionState, Bits, Buffered
<1> QED BY <1>1 DEF Coherent, LinkCoherent, InStep, NewProcess

\* What a process that died leaves behind.
LEMMA DeadCoherent ==
  ASSUME daemon \in Daemon
  PROVE  /\ Coherent([NewProcess EXCEPT !.connected = daemon.connected])
         /\ [NewProcess EXCEPT !.connected = daemon.connected].state = "DISCONNECTED"
<1> DEFINE d == [NewProcess EXCEPT !.connected = daemon.connected]
<1>1. d \in Daemon
  BY NewProcessCoherent DEF Coherent, LinkCoherent, Daemon
<1>2. d.state = "DISCONNECTED" /\ d.sendQueue = <<>> /\ d.wire = <<>> /\ d.inbound = <<>>
      /\ d.headRead = FALSE /\ d.framer = "empty" /\ d.txQueue = <<>>
  BY DEF NewProcess
<1> QED BY <1>1, <1>2 DEF Coherent, LinkCoherent, InStep

\* Every handler ends in Becomes, which keeps the rest of the state well typed.
LEMMA BecomesInvariant ==
  ASSUME IInv, NEW d, Coherent(d), Becomes(d),
         running' \in BOOLEAN, ~running' => d.state = "DISCONNECTED"
  PROVE  IInv'
<1>1. daemon' \in Daemon /\ Coherent(daemon')
  BY DEF Becomes, Coherent, LinkCoherent
<1>2. alive' \in BOOLEAN
  BY DEF Becomes, HasSocket, IInv, TypeOK
<1>3. heard' \in Bits \cup {NoBit} /\ reachable' \in BOOLEAN
  BY DEF Becomes, IInv, TypeOK
<1>4. Coherent(daemon)'
  BY <1>1 DEF Coherent, LinkCoherent, InStep
<1>5. /\ heard' # NoBit => daemon'.state = "CONNECTED"
      /\ ~running' => daemon'.state = "DISCONNECTED"
  BY DEF Becomes
<1> QED BY <1>1, <1>2, <1>3, <1>4, <1>5 DEF IInv, TypeOK

\* The headset touches the two kernel buffers, and only of a live socket.
LEMMA BuffersInvariant ==
  ASSUME IInv, daemon.state = "CONNECTED",
         NEW wire \in Seq(OutboundFrame), NEW inbound \in Seq(InboundFrame),
         daemon' = [daemon EXCEPT !.wire = wire, !.inbound = inbound],
         heard' \in Bits \cup {NoBit}, UNCHANGED <<running, reachable, alive>>
  PROVE  IInv'
<1>1. Coherent(daemon')
  BY DEF IInv, Coherent, LinkCoherent, InStep, Daemon
<1>2. Coherent(daemon)'
  BY <1>1 DEF Coherent, LinkCoherent, InStep
<1>3. daemon'.state = "CONNECTED" /\ running'
  BY DEF IInv, Coherent, LinkCoherent, Daemon
<1> QED BY <1>1, <1>2, <1>3 DEF IInv, TypeOK, Coherent, LinkCoherent

LEMMA InitInvariant == Init => IInv
<1>1. Coherent(NewProcess) /\ NewProcess \in Daemon
  BY NewProcessCoherent DEF Coherent, LinkCoherent
<1>2. NewProcess.state = "DISCONNECTED"
  BY DEF NewProcess
<1> QED BY <1>1, <1>2 DEF Init, IInv, TypeOK

LEMMA StepInvariant == IInv /\ [Next]_vars => IInv'
<1> SUFFICES ASSUME IInv, [Next]_vars
             PROVE  IInv'
  OBVIOUS
<1> USE DEF IInv
<1>c. Coherent(daemon) /\ daemon \in Daemon
  BY DEF Coherent, LinkCoherent
<1>1. CASE Boot
  BY <1>1, NewProcessCoherent, StartCoherent, BecomesInvariant DEF Boot
<1>2. CASE Exit
  BY <1>2, NewProcessCoherent, BecomesInvariant DEF Exit, NewProcess
<1>d. CASE Die
  BY <1>d, <1>c, DeadCoherent, BecomesInvariant DEF Die
<1>3. CASE Retry
  <2>1. ~HasSocket(daemon)
    BY <1>3 DEF Retry, HasSocket
  <2> QED BY <1>3, <2>1, AttemptDiscoveryCoherent, BecomesInvariant DEF Retry, TypeOK
<1>4. CASE ConnectSucceeds
  <2>1. \A outcome : Coherent(BecomeConnected(daemon, outcome))
    BY <1>4, OnConnectedCoherent DEF ConnectSucceeds
  <2> QED BY <1>4, <2>1, BecomesInvariant DEF ConnectSucceeds, TypeOK
<1>5. CASE ConnectFails
  BY <1>5, <1>c, ScheduleReconnectCoherent, BecomesInvariant DEF ConnectFails, TypeOK
<1>6. CASE Hangup
  BY <1>6, <1>c, ScheduleReconnectCoherent, BecomesInvariant DEF Hangup, TypeOK
<1>7. CASE ReadPart
  <2> DEFINE d == [daemon EXCEPT !.headRead = TRUE,
                       !.framer = IF @ = "empty" THEN "partial" ELSE "merged"]
  <2>1. Coherent(d)
    BY <1>7 DEF ReadPart, Coherent, LinkCoherent, InStep, Daemon, Buffered
  <2> QED BY <1>7, <2>1, BecomesInvariant DEF ReadPart, TypeOK
<1>8. CASE ReadFrame
  <2>1. \A outcome : Coherent(OnDataReceived(daemon, outcome))
    BY <1>8, OnDataReceivedCoherent DEF ReadFrame
  <2> QED BY <1>8, <2>1, BecomesInvariant DEF ReadFrame, TypeOK
<1>9. CASE HandleConnectedWrite
  <2>1. ASSUME NEW n \in 1 .. Len(daemon.sendQueue),
               Becomes([daemon EXCEPT
                  !.wire = @ \o SubSeq(daemon.sendQueue, 1, n),
                  !.sendQueue = SubSeq(@, n + 1, Len(@))])
        PROVE  IInv'
    <3> DEFINE d == [daemon EXCEPT
                  !.wire = @ \o SubSeq(daemon.sendQueue, 1, n),
                  !.sendQueue = SubSeq(@, n + 1, Len(@))]
    <3>1. /\ SubSeq(daemon.sendQueue, 1, n) \in Seq(OutboundFrame)
          /\ SubSeq(daemon.sendQueue, n + 1, Len(daemon.sendQueue)) \in Seq(OutboundFrame)
      BY <1>c DEF Daemon
    <3>2. daemon.wire \o SubSeq(daemon.sendQueue, 1, n) \in Seq(OutboundFrame)
      BY <1>c, <3>1 DEF Daemon
    <3>3. Coherent(d)
      BY <1>9, <3>1, <3>2
         DEF HandleConnectedWrite, Coherent, LinkCoherent, InStep, Daemon
    <3> QED BY <1>9, <2>1, <3>3, BecomesInvariant DEF HandleConnectedWrite, TypeOK
  <2>2. CASE Becomes(ScheduleReconnect(daemon))
    BY <1>9, <2>2, <1>c, ScheduleReconnectCoherent, BecomesInvariant
       DEF HandleConnectedWrite, TypeOK
  <2> QED BY <1>9, <2>1, <2>2 DEF HandleConnectedWrite
<1>10. ASSUME NEW command \in Commands, IpcSet(command)
       PROVE  IInv'
  <2>1. \A outcome : Coherent(EnqueueTx(daemon, command, outcome))
    BY EnqueueTxCoherent, FrameTypes
  <2> QED BY <1>10, <2>1, BecomesInvariant DEF IpcSet, TypeOK
<1>11. CASE TxTimeout
  <2>1. ASSUME NEW outcome
        PROVE  Coherent([PumpTx(daemon, outcome) EXCEPT !.expired = TRUE])
    <3>1. Coherent(PumpTx(daemon, outcome))
      BY PumpTxCoherent DEF Coherent
    <3> QED BY <3>1 DEF Coherent, LinkCoherent, InStep, Daemon
  <2> QED BY <1>11, <2>1, BecomesInvariant DEF TxTimeout, TypeOK
<1>12. CASE SimulateDisconnect
  <2> DEFINE d == Disconnect([daemon EXCEPT !.connected = FALSE, !.simulated = TRUE])
  <2>1. Coherent(d)
    BY EmptySequence
       DEF Disconnect, CloseTransport, Coherent, LinkCoherent, InStep, Daemon,
           ConnectionState
  <2> QED BY <1>12, <2>1, BecomesInvariant DEF SimulateDisconnect, TypeOK
<1>13. CASE SimulateReconnect
  <2>1. Coherent([daemon EXCEPT !.connected = TRUE])
    BY DEF Coherent, LinkCoherent, InStep, Daemon
  <2> QED BY <1>13, <2>1, StartCoherent, BecomesInvariant DEF SimulateReconnect, TypeOK
<1>14. ASSUME NEW connected \in BOOLEAN, PretendConnected(connected)
       PROVE  IInv'
  <2>1. Coherent([daemon EXCEPT !.connected = connected])
    BY <1>14 DEF PretendConnected, Coherent, LinkCoherent, InStep, Daemon
  <2> QED BY <1>14, <2>1, BecomesInvariant DEF PretendConnected, TypeOK
<1>15. CASE HeadsetReads
  <2>1. daemon.state = "CONNECTED"
    BY <1>15 DEF HeadsetReads, Coherent, LinkCoherent
  <2>2. /\ Tail(daemon.wire) \in Seq(OutboundFrame)
        /\ Head(daemon.wire) \in OutboundFrame
    BY <1>15, <1>c DEF HeadsetReads, Daemon
  <2>3. Head(daemon.wire).kind # "ack" => Head(daemon.wire).seq \in Bits
    BY <2>2 DEF OutboundFrame, ControlFrame, AckFrame
  <2>4. heard' \in Bits \cup {NoBit}
    BY <1>15, <2>3 DEF HeadsetReads, TypeOK
  <2>5. CASE daemon' = [daemon EXCEPT !.wire = Tail(@)]
    <3>1. daemon' = [daemon EXCEPT !.wire = Tail(daemon.wire),
                                   !.inbound = daemon.inbound]
      BY <2>5, <1>c DEF Daemon
    <3> QED BY <1>15, <1>c, <2>1, <2>2, <2>4, <3>1, BuffersInvariant
            DEF HeadsetReads, Daemon
  <2>6. CASE /\ Head(daemon.wire).kind # "ack"
             /\ daemon' = [[daemon EXCEPT !.wire = Tail(@)] EXCEPT !.inbound =
                    Append(@, [kind |-> "ack", seq |-> 1 - Head(daemon.wire).seq])]
    <3> DEFINE more == Append(daemon.inbound,
                              [kind |-> "ack", seq |-> 1 - Head(daemon.wire).seq])
    <3>1. [kind |-> "ack", seq |-> 1 - Head(daemon.wire).seq] \in InboundFrame
      BY <2>3, <2>6 DEF InboundFrame, Bits
    <3>2. more \in Seq(InboundFrame)
      BY <3>1, <1>c DEF Daemon
    <3>3. daemon' = [daemon EXCEPT !.wire = Tail(daemon.wire), !.inbound = more]
      BY <2>6, <1>c DEF Daemon
    <3> QED BY <1>15, <2>1, <2>2, <2>4, <3>2, <3>3, BuffersInvariant DEF HeadsetReads
  <2> QED BY <1>15, <2>5, <2>6 DEF HeadsetReads
<1>16. CASE HeadsetReports
  <2>1. PICK kind \in {"report", "other"} :
            daemon' = [daemon EXCEPT !.inbound = Append(@, [kind |-> kind, seq |-> 0])]
    BY <1>16 DEF HeadsetReports
  <2>2. Append(daemon.inbound, [kind |-> kind, seq |-> 0]) \in Seq(InboundFrame)
    BY <1>c DEF Daemon, InboundFrame, Bits
  <2>3. daemon.state = "CONNECTED"
    BY <1>16 DEF HeadsetReports
  <2>4. daemon' = [daemon EXCEPT !.wire = daemon.wire,
                       !.inbound = Append(daemon.inbound, [kind |-> kind, seq |-> 0])]
    BY <2>1, <1>c DEF Daemon
  <2> QED BY <1>16, <1>c, <2>2, <2>3, <2>4, BuffersInvariant
          DEF HeadsetReports, TypeOK, Daemon
<1>17. CASE HeadsetLeaves
  BY <1>17 DEF HeadsetLeaves, TypeOK
<1>18. CASE HeadsetReturns
  BY <1>18 DEF HeadsetReturns, TypeOK
<1>19. CASE UNCHANGED vars
  BY <1>19 DEF vars, TypeOK, Coherent, LinkCoherent, InStep
<1> QED BY <1>1, <1>2, <1>d, <1>3, <1>4, <1>5, <1>6, <1>7, <1>8, <1>9, <1>10, <1>11, <1>12,
           <1>13, <1>14, <1>15, <1>16, <1>17, <1>18, <1>19 DEF Next

THEOREM Invariance == Spec => []IInv
<1>1. Init => IInv
  BY InitInvariant
<1>2. IInv /\ [Next]_vars => IInv'
  BY StepInvariant
<1> QED BY <1>1, <1>2, PTL DEF Spec

\* Every variable keeps its type.
THEOREM TypeCorrect == Spec => []TypeOK
<1>1. IInv => TypeOK
  BY DEF IInv
<1> QED BY <1>1, Invariance, PTL

\* Nothing waits in txQueue without a frame whose acknowledgement or timeout
\* releases it (main.cpp:237-258, 540-551).
THEOREM QueueNeverWedges == Spec => []NeverWedged
<1>1. IInv => NeverWedged
  BY DEF IInv, Coherent, NeverWedged
<1> QED BY <1>1, Invariance, PTL

\* A live link is published as connected unless _disconnect is in use
\* (main.cpp:265, 509).
THEOREM LivePublished == Spec => []LiveLinkPublished
<1>1. IInv => LiveLinkPublished
  BY DEF IInv, Coherent, LinkCoherent, LiveLinkPublished
<1> QED BY <1>1, Invariance, PTL

\* No bytes of an earlier session reach the parser unless SIGUSR1 was used
\* (main.cpp:291, 512).
THEOREM FramerStaysInStep == Spec => []FramerInStep
<1>1. IInv => FramerInStep
  BY DEF IInv, Coherent, LinkCoherent, FramerInStep
<1> QED BY <1>1, Invariance, PTL

-----------------------------------------------------------------------------
(* The daemon's queue implements TxSequencer, for every set of commands and *)
(* every bound.  TxSequencer sees four fields of the daemon and only while  *)
(* a session is open, so each operator gets a lemma about those four fields;*)
(* whatever ends the session maps to Close.                                 *)

Down(d) == d.state # "CONNECTED"

\* e is connected and its queue fields have the given values.
Up(e, queue, seq, pending) ==
    e.state = "CONNECTED" /\ e.txQueue = queue /\ e.txSeq = seq /\ e.txPending = pending

Same(d, e) == Up(e, d.txQueue, d.txSeq, d.txPending)

\* The provers compare functions, but not a tuple with an Append.
LEMMA QueriesInOrder ==
    /\ Append(<<>>, "battery") = <<"battery">>
    /\ Append(<<"battery">>, "noise") = <<"battery", "noise">>
    /\ Append(<<"battery", "noise">>, "ult") = <<"battery", "noise", "ult">>
    /\ Append(<<"battery", "noise", "ult">>, "dsee") = <<"battery", "noise", "ult", "dsee">>
<1>1. Append(<<>>, "battery") = <<"battery">>
  OBVIOUS
<1>2. Append(<<"battery">>, "noise") = <<"battery", "noise">>
  <2> DEFINE f == [i \in 1..2 |-> IF i = 2 THEN "noise" ELSE <<"battery">>[i]]
  <2>1. Len(<<"battery">>) = 1
    OBVIOUS
  <2>2. Append(<<"battery">>, "noise") = f
    BY <2>1
  <2>3. <<"battery", "noise">> = f
    OBVIOUS
  <2> QED BY <2>2, <2>3
<1>3. Append(<<"battery", "noise">>, "ult") = <<"battery", "noise", "ult">>
  <2> DEFINE f == [i \in 1..3 |-> IF i = 3 THEN "ult" ELSE <<"battery", "noise">>[i]]
  <2>1. Len(<<"battery", "noise">>) = 2
    OBVIOUS
  <2>2. Append(<<"battery", "noise">>, "ult") = f
    BY <2>1
  <2>3. <<"battery", "noise", "ult">> = f
    OBVIOUS
  <2> QED BY <2>2, <2>3
<1>4. Append(<<"battery", "noise", "ult">>, "dsee") = <<"battery", "noise", "ult", "dsee">>
  <2> DEFINE f == [i \in 1..4 |-> IF i = 4 THEN "dsee" ELSE <<"battery", "noise", "ult">>[i]]
  <2>1. Len(<<"battery", "noise", "ult">>) = 3
    OBVIOUS
  <2>2. Append(<<"battery", "noise", "ult">>, "dsee") = f
    BY <2>1
  <2>3. <<"battery", "noise", "ult", "dsee">> = f
    OBVIOUS
  <2> QED BY <2>2, <2>3
<1> QED BY <1>1, <1>2, <1>3, <1>4

-----------------------------------------------------------------------------
(* What the operators do to the four fields *)

LEMMA SendPacketView ==
  ASSUME NEW d \in Daemon, NEW frame, NEW outcome
  PROVE  LET e == SendPacket(d, frame, outcome)
         IN  Down(e) \/ (~Down(d) /\ Same(d, e))
<1>1. CASE d.state # "CONNECTED"
  BY <1>1 DEF SendPacket, Down
<1>2. CASE d.state = "CONNECTED" /\ (d.sendQueue # <<>> \/ outcome = "short")
  BY <1>2 DEF SendPacket, Down, Same, Up, Daemon
<1>3. CASE d.state = "CONNECTED" /\ d.sendQueue = <<>> /\ outcome = "sent"
  BY <1>3 DEF SendPacket, Down, Same, Up, Daemon
<1>4. CASE d.state = "CONNECTED" /\ d.sendQueue = <<>> /\ outcome \notin {"sent", "short"}
  BY <1>4, ScheduleReconnectCoherent DEF SendPacket, Down
<1> QED BY <1>1, <1>2, <1>3, <1>4

LEMMA PumpTxView ==
  ASSUME NEW d, LinkCoherent(d), NEW outcome
  PROVE  LET e == PumpTx(d, outcome)
         IN  \/ Down(e)
             \/ ~Down(d) /\ d.txQueue = <<>> /\ Up(e, <<>>, d.txSeq, FALSE)
             \/ ~Down(d) /\ d.txQueue # <<>> /\ Up(e, Tail(d.txQueue), 1 - d.txSeq, TRUE)
<1>1. CASE d.txQueue = <<>>
  BY <1>1 DEF PumpTx, Down, Up, LinkCoherent, Daemon
<1>2. CASE d.txQueue # <<>>
  <2> DEFINE frame == [kind |-> Head(d.txQueue), seq |-> d.txSeq]
             popped == [d EXCEPT !.txQueue = Tail(@), !.txSeq = NextSeq(@)]
             sent == SendPacket(popped, frame, outcome)
  <2>1. Tail(d.txQueue) \in Seq(Request) /\ NextSeq(d.txSeq) \in Bits
    BY <1>2 DEF LinkCoherent, Daemon, NextSeq, Bits
  <2>2. popped \in Daemon
    BY <2>1 DEF LinkCoherent, Daemon
  <2>3. /\ popped.state = d.state /\ popped.txQueue = Tail(d.txQueue)
        /\ popped.txSeq = 1 - d.txSeq
    BY DEF LinkCoherent, Daemon, NextSeq
  <2>4. Down(sent) \/ (~Down(popped) /\ Same(popped, sent))
    BY <2>2, SendPacketView
  <2>5. LinkCoherent(popped)
    BY <2>2, <2>1 DEF LinkCoherent, InStep, Daemon
  <2>6. \A r \in Request : [kind |-> r, seq |-> d.txSeq] \in OutboundFrame
    BY FrameTypes DEF LinkCoherent, Daemon
  <2>7. Head(d.txQueue) \in Request
    BY <1>2 DEF LinkCoherent, Daemon
  <2>8. sent \in Daemon
    BY <2>5, <2>6, <2>7, SendPacketCoherent DEF LinkCoherent
  <2>9. \/ Down([sent EXCEPT !.txPending = TRUE])
        \/ ~Down(d) /\ Up([sent EXCEPT !.txPending = TRUE], Tail(d.txQueue), 1 - d.txSeq, TRUE)
    BY <2>3, <2>4, <2>8 DEF Down, Same, Up, Daemon
  <2> QED BY <1>2, <2>9 DEF PumpTx
<1> QED BY <1>1, <1>2

LEMMA EnqueueTxView ==
  ASSUME NEW d, Coherent(d), NEW request \in Request, NEW outcome
  PROVE  LET e == EnqueueTx(d, request, outcome)
         IN  \/ Down(e)
             \/ ~Down(d) /\ d.txPending = TRUE
                /\ Up(e, Append(d.txQueue, request), d.txSeq, TRUE)
             \/ ~Down(d) /\ d.txPending = FALSE /\ d.txQueue = <<>>
                /\ Up(e, <<>>, 1 - d.txSeq, TRUE)
<1> DEFINE queued == [d EXCEPT !.txQueue = Append(@, request)]
<1>1. Append(d.txQueue, request) \in Seq(Request)
  BY DEF Coherent, LinkCoherent, Daemon
<1>2. LinkCoherent(queued)
  BY <1>1 DEF Coherent, LinkCoherent, InStep, Daemon
<1>3. /\ queued.txPending = d.txPending /\ queued.state = d.state
      /\ queued.txQueue = Append(d.txQueue, request) /\ queued.txSeq = d.txSeq
  BY DEF Coherent, LinkCoherent, Daemon
<1>4. d.txPending \in BOOLEAN
  BY DEF Coherent, LinkCoherent, Daemon
<1>5. CASE d.txPending = TRUE
  BY <1>3, <1>5 DEF EnqueueTx, Down, Up
<1>6. CASE d.txPending = FALSE
  <2>1. d.txQueue = <<>>
    BY <1>6 DEF Coherent
  <2>2. queued.txQueue # <<>> /\ Tail(queued.txQueue) = <<>>
    BY <1>3, <2>1
  <2>3. \/ Down(PumpTx(queued, outcome))
        \/ ~Down(d) /\ Up(PumpTx(queued, outcome), <<>>, 1 - d.txSeq, TRUE)
    BY <1>2, <1>3, <2>2, PumpTxView DEF Down
  <2> QED BY <1>6, <2>1, <2>3 DEF EnqueueTx
<1> QED BY <1>4, <1>5, <1>6

\* A request that finds the queue busy waits behind the others.
LEMMA EnqueueBehind ==
  ASSUME NEW d, Coherent(d), NEW queue, NEW seq, Down(d) \/ Up(d, queue, seq, TRUE),
         NEW request \in Request, NEW outcome, NEW e, e = EnqueueTx(d, request, outcome)
  PROVE  Coherent(e) /\ (Down(e) \/ Up(e, Append(queue, request), seq, TRUE))
<1>1. Coherent(e)
  BY EnqueueTxCoherent
<1>2. \/ Down(e)
      \/ ~Down(d) /\ d.txPending = TRUE
         /\ Up(e, Append(d.txQueue, request), d.txSeq, TRUE)
      \/ ~Down(d) /\ d.txPending = FALSE
  BY EnqueueTxView
<1> QED BY <1>1, <1>2 DEF Up, Down

LEMMA BecomeConnectedView ==
  ASSUME NEW d, Coherent(d), Down(d), NEW outcome
  PROVE  LET e == BecomeConnected(d, outcome)
         IN  Down(e) \/ Up(e, <<"battery", "noise", "ult", "dsee">>, 1, TRUE)
<1> DEFINE up == [d EXCEPT !.state = "CONNECTED"]
           fresh == FreshSession(up)
           opened == EnqueueTx(fresh, "handshake", outcome)
           battery == EnqueueTx(opened, "battery", outcome)
           noise == EnqueueTx(battery, "noise", outcome)
           ult == EnqueueTx(noise, "ult", outcome)
           dsee == EnqueueTx(ult, "dsee", outcome)
<1>1. fresh \in Daemon
  BY EmptySequence DEF FreshSession, Coherent, LinkCoherent, Daemon, ConnectionState, Bits
<1>2. /\ Up(fresh, <<>>, 0, FALSE) /\ fresh.connected = TRUE
      /\ fresh.simulated = d.simulated /\ fresh.framer = d.framer
      /\ fresh.headRead = d.headRead
  BY DEF FreshSession, Coherent, LinkCoherent, Daemon, Up
<1>3. Coherent(fresh)
  BY <1>1, <1>2 DEF Coherent, LinkCoherent, InStep, Up
<1>4. \A request \in {"handshake", "battery", "noise", "ult", "dsee"} : request \in Request
  BY DEF Request, Opening
<1>5. Coherent(opened) /\ (Down(opened) \/ Up(opened, <<>>, 1, TRUE))
  <2>1. Coherent(opened)
    BY <1>3, <1>4, EnqueueTxCoherent
  <2>2. \/ Down(opened)
        \/ fresh.txPending = TRUE
        \/ Up(opened, <<>>, 1 - fresh.txSeq, TRUE)
    BY <1>3, <1>4, EnqueueTxView
  <2> QED BY <1>2, <2>1, <2>2 DEF Up
<1> HIDE DEF opened
<1>6. Coherent(battery) /\ (Down(battery) \/ Up(battery, <<"battery">>, 1, TRUE))
  BY <1>4, <1>5, QueriesInOrder, EnqueueBehind
<1> HIDE DEF battery
<1>7. Coherent(noise) /\ (Down(noise) \/ Up(noise, <<"battery", "noise">>, 1, TRUE))
  BY <1>4, <1>6, QueriesInOrder, EnqueueBehind
<1> HIDE DEF noise
<1>8. Coherent(ult) /\ (Down(ult) \/ Up(ult, <<"battery", "noise", "ult">>, 1, TRUE))
  BY <1>4, <1>7, QueriesInOrder, EnqueueBehind
<1> HIDE DEF ult
<1>9. Down(dsee) \/ Up(dsee, <<"battery", "noise", "ult", "dsee">>, 1, TRUE)
  BY <1>4, <1>8, QueriesInOrder, EnqueueBehind
<1> QED BY <1>9 DEF BecomeConnected, OnConnected, opened, battery, noise, ult

LEMMA AttemptDiscoveryView ==
  ASSUME NEW d, Coherent(d), Down(d), NEW result \in AttemptResults, NEW outcome
  PROVE  LET e == AttemptDiscovery(d, result, outcome)
         IN  Down(e) \/ Up(e, <<"battery", "noise", "ult", "dsee">>, 1, TRUE)
<1>0. d \in Daemon
  BY DEF Coherent, LinkCoherent
<1>1. CASE result = "failed"
  BY <1>0, <1>1, ScheduleReconnectCoherent DEF AttemptDiscovery, Down
<1>2. CASE result = "inProgress"
  <2>1. AttemptDiscovery(d, result, outcome) = [d EXCEPT !.state = "CONNECTING"]
    BY <1>2 DEF AttemptDiscovery
  <2>2. Down([d EXCEPT !.state = "CONNECTING"])
    BY <1>0 DEF Down, Daemon
  <2> QED BY <2>1, <2>2
<1>3. CASE result = "connected"
  <2>1. AttemptDiscovery(d, result, outcome) = BecomeConnected(d, outcome)
    BY <1>3 DEF AttemptDiscovery
  <2> QED BY <2>1, BecomeConnectedView
<1> QED BY <1>1, <1>2, <1>3 DEF AttemptResults

LEMMA OnDataReceivedView ==
  ASSUME NEW d, Coherent(d), d.state = "CONNECTED", d.inbound # <<>>, NEW outcome
  PROVE  LET e == OnDataReceived(d, outcome)
         IN  \/ Down(e) \/ Same(d, e)
             \/ d.txQueue = <<>> /\ Up(e, <<>>, d.txSeq, FALSE)
             \/ d.txQueue # <<>> /\ Up(e, Tail(d.txQueue), 1 - d.txSeq, TRUE)
<1> DEFINE read == [d EXCEPT !.framer = "empty", !.inbound = Tail(@), !.headRead = FALSE]
           frame == Head(d.inbound)
           replied == SendPacket(read, AckFrame, outcome)
<1>1. Tail(d.inbound) \in Seq(InboundFrame)
  BY DEF Coherent, LinkCoherent, Daemon
<1>2. LinkCoherent(read) /\ read \in Daemon
  BY <1>1 DEF Coherent, LinkCoherent, InStep, Daemon, Buffered
<1>3. Same(d, read)
  BY DEF Same, Up, Coherent, LinkCoherent, Daemon
<1> HIDE DEF read
<1>4. CASE OnDataReceived(d, outcome) = read
  BY <1>3, <1>4
<1>5. CASE OnDataReceived(d, outcome) = PumpTx(read, outcome)
  <2> DEFINE e == PumpTx(read, outcome)
  <2>1. \/ Down(e)
        \/ read.txQueue = <<>> /\ Up(e, <<>>, read.txSeq, FALSE)
        \/ read.txQueue # <<>> /\ Up(e, Tail(read.txQueue), 1 - read.txSeq, TRUE)
    BY <1>2, PumpTxView
  <2>2. read.txQueue = d.txQueue /\ read.txSeq = d.txSeq
    BY <1>3 DEF Same, Up
  <2> QED BY <1>5, <2>1, <2>2
<1>6. Down(replied) \/ Same(d, replied)
  BY <1>2, <1>3, SendPacketView DEF Same, Up
<1>7. LinkCoherent(replied)
  BY <1>2, SendPacketCoherent, FrameTypes
<1>8. CASE OnDataReceived(d, outcome) \in {replied, [replied EXCEPT !.connected = TRUE]}
  BY <1>6, <1>7, <1>8 DEF Down, Same, Up, LinkCoherent, Daemon
<1> QED BY <1>4, <1>5, <1>8 DEF OnDataReceived, OnFrame, read

-----------------------------------------------------------------------------
(* The steps of TxSequencer that a pair of daemons can show *)

LEMMA DownToDown ==
  ASSUME Down(daemon), Down(daemon')
  PROVE  UNCHANGED Sequencer!vars
  BY DEF Down, Sequencer!vars, InSession

LEMMA DownToUp ==
  ASSUME Down(daemon), Up(daemon', <<"battery", "noise", "ult", "dsee">>, 1, TRUE)
  PROVE  Sequencer!Next
  BY DEF Down, Up, Sequencer!Next, Sequencer!Open, InSession

LEMMA UpToDown ==
  ASSUME ~Down(daemon), Down(daemon')
  PROVE  Sequencer!Next
  BY DEF Down, Sequencer!Next, Sequencer!Close, Sequencer!Closed, InSession

LEMMA UpToSame ==
  ASSUME ~Down(daemon), Same(daemon, daemon')
  PROVE  UNCHANGED Sequencer!vars
  BY DEF Down, Same, Up, Sequencer!vars, InSession

LEMMA UpSettles ==
  ASSUME ~Down(daemon), Coherent(daemon), daemon.txQueue = <<>>,
         Up(daemon', <<>>, daemon.txSeq, FALSE)
  PROVE  [Sequencer!Next]_Sequencer!vars
<1>1. daemon.txPending \in BOOLEAN
  BY DEF Coherent, LinkCoherent, Daemon
<1>2. CASE daemon.txPending = TRUE
  BY <1>2 DEF Down, Up, Sequencer!Next, Sequencer!Settle, InSession
<1>3. CASE daemon.txPending = FALSE
  BY <1>3 DEF Down, Up, Sequencer!vars, InSession
<1> QED BY <1>1, <1>2, <1>3

LEMMA UpReleases ==
  ASSUME ~Down(daemon), Coherent(daemon), daemon.txQueue # <<>>,
         Up(daemon', Tail(daemon.txQueue), 1 - daemon.txSeq, TRUE)
  PROVE  Sequencer!Next
<1>1. daemon.txPending = TRUE
  BY DEF Coherent, LinkCoherent, Daemon
<1> QED BY <1>1 DEF Down, Up, Sequencer!Next, Sequencer!Release, InSession

LEMMA UpAccepts ==
  ASSUME ~Down(daemon), daemon.txPending = TRUE, NEW command \in Commands,
         Up(daemon', Append(daemon.txQueue, command), daemon.txSeq, TRUE)
  PROVE  Sequencer!Next
  BY DEF Down, Up, Sequencer!Next, Sequencer!Accept, InSession

LEMMA UpPasses ==
  ASSUME ~Down(daemon), daemon.txPending = FALSE, daemon.txQueue = <<>>,
         Up(daemon', <<>>, 1 - daemon.txSeq, TRUE)
  PROVE  Sequencer!Next
  BY DEF Down, Up, Sequencer!Next, Sequencer!Pass, InSession

-----------------------------------------------------------------------------
(* Every step of Session is a step of TxSequencer or changes nothing in it *)

LEMMA StepSimulation ==
  ASSUME IInv, [Next]_vars
  PROVE  [Sequencer!Next]_Sequencer!vars
<1>c. Coherent(daemon) /\ daemon \in Daemon
  BY DEF IInv, Coherent, LinkCoherent
<1>s. (~Down(daemon) /\ Same(daemon, daemon')) \/ (Down(daemon) /\ Down(daemon'))
        => [Sequencer!Next]_Sequencer!vars
  BY DownToDown, UpToSame
<1>1. CASE Boot
  <2>1. Down(daemon)
    BY <1>1 DEF Boot, IInv, Down
  <2>2. Coherent(NewProcess) /\ Down(NewProcess) /\ NewProcess.state = "DISCONNECTED"
    BY NewProcessCoherent DEF Down, NewProcess
  <2>3. \/ Down(daemon')
        \/ Up(daemon', <<"battery", "noise", "ult", "dsee">>, 1, TRUE)
    BY <1>1, <2>2, AttemptDiscoveryView DEF Boot, Becomes, Start
  <2> QED BY <2>1, <2>3, DownToDown, DownToUp
<1>2. CASE Exit
  <2>1. Down(daemon')
    BY <1>2 DEF Exit, Becomes, Down, NewProcess
  <2> QED BY <2>1, DownToDown, UpToDown
<1>d. CASE Die
  <2>1. Down(daemon')
    BY <1>c, <1>d, DeadCoherent DEF Die, Becomes, Down
  <2> QED BY <2>1, DownToDown, UpToDown
<1>3. CASE Retry
  <2>1. Down(daemon)
    BY <1>3 DEF Retry, Down
  <2>2. \/ Down(daemon')
        \/ Up(daemon', <<"battery", "noise", "ult", "dsee">>, 1, TRUE)
    BY <1>3, <1>c, <2>1, AttemptDiscoveryView DEF Retry, Becomes
  <2> QED BY <2>1, <2>2, DownToDown, DownToUp
<1>4. CASE ConnectSucceeds
  <2>1. Down(daemon)
    BY <1>4 DEF ConnectSucceeds, Down
  <2>2. \/ Down(daemon')
        \/ Up(daemon', <<"battery", "noise", "ult", "dsee">>, 1, TRUE)
    BY <1>4, <1>c, <2>1, BecomeConnectedView DEF ConnectSucceeds, Becomes
  <2> QED BY <2>1, <2>2, DownToDown, DownToUp
<1>5. CASE ConnectFails \/ Hangup
  <2>1. Down(daemon')
    BY <1>5, <1>c, ScheduleReconnectCoherent DEF ConnectFails, Hangup, Becomes, Down
  <2> QED BY <2>1, DownToDown, UpToDown
<1>7. CASE ReadPart
  <2>1. ~Down(daemon) /\ Same(daemon, daemon')
    BY <1>7, <1>c DEF ReadPart, Becomes, Same, Up, Down, Daemon
  <2> QED BY <2>1, <1>s
<1>8. CASE ReadFrame
  <2>1. \/ Down(daemon') \/ Same(daemon, daemon')
        \/ daemon.txQueue = <<>> /\ Up(daemon', <<>>, daemon.txSeq, FALSE)
        \/ daemon.txQueue # <<>> /\ Up(daemon', Tail(daemon.txQueue), 1 - daemon.txSeq, TRUE)
    BY <1>8, <1>c, OnDataReceivedView DEF ReadFrame, Becomes
  <2>2. ~Down(daemon)
    BY <1>8 DEF ReadFrame, Down
  <2> QED BY <2>1, <2>2, <1>c, <1>s, UpToDown, UpSettles, UpReleases
<1>9. CASE HandleConnectedWrite
  <2>1. Down(daemon') \/ (~Down(daemon) /\ Same(daemon, daemon'))
    BY <1>9, <1>c, ScheduleReconnectCoherent
       DEF HandleConnectedWrite, Becomes, Same, Up, Down, Daemon
  <2> QED BY <2>1, <1>s, DownToDown, UpToDown
<1>10. ASSUME NEW command \in Commands, IpcSet(command)
       PROVE  [Sequencer!Next]_Sequencer!vars
  <2>1. \/ Down(daemon')
        \/ daemon.txPending = TRUE
           /\ Up(daemon', Append(daemon.txQueue, command), daemon.txSeq, TRUE)
        \/ daemon.txPending = FALSE /\ daemon.txQueue = <<>>
           /\ Up(daemon', <<>>, 1 - daemon.txSeq, TRUE)
    BY <1>10, <1>c, FrameTypes, EnqueueTxView DEF IpcSet, Becomes
  <2>2. ~Down(daemon)
    BY <1>10 DEF IpcSet, Down
  <2> QED BY <2>1, <2>2, UpToDown, UpAccepts, UpPasses
<1>11. CASE TxTimeout
  <2>1. PICK outcome : daemon' = [PumpTx(daemon, outcome) EXCEPT !.expired = TRUE]
    BY <1>11 DEF TxTimeout, Becomes
  <2> DEFINE e == PumpTx(daemon, outcome)
  <2>2. \/ Down(e)
        \/ ~Down(daemon) /\ daemon.txQueue = <<>> /\ Up(e, <<>>, daemon.txSeq, FALSE)
        \/ ~Down(daemon) /\ daemon.txQueue # <<>>
           /\ Up(e, Tail(daemon.txQueue), 1 - daemon.txSeq, TRUE)
    BY <1>c, PumpTxView DEF Coherent
  <2>3. e \in Daemon
    BY <1>c, PumpTxCoherent DEF Coherent, LinkCoherent
  <2> HIDE DEF e
  <2>4. /\ daemon'.state = e.state /\ daemon'.txQueue = e.txQueue
        /\ daemon'.txSeq = e.txSeq /\ daemon'.txPending = e.txPending
    BY <2>1, <2>3 DEF Daemon, e
  <2>5. \/ Down(daemon')
        \/ ~Down(daemon) /\ daemon.txQueue = <<>> /\ Up(daemon', <<>>, daemon.txSeq, FALSE)
        \/ ~Down(daemon) /\ daemon.txQueue # <<>>
           /\ Up(daemon', Tail(daemon.txQueue), 1 - daemon.txSeq, TRUE)
    BY <2>2, <2>4 DEF Down, Up
  <2> QED BY <2>5, <1>c, DownToDown, UpToDown, UpSettles, UpReleases
<1>12. CASE SimulateDisconnect
  <2>1. Down(daemon')
    BY <1>12, <1>c DEF SimulateDisconnect, Becomes, Disconnect, CloseTransport, Down, Daemon
  <2> QED BY <2>1, DownToDown, UpToDown
<1>13. CASE SimulateReconnect
  <2> DEFINE d == [daemon EXCEPT !.connected = TRUE]
  <2>1. Coherent(d)
    BY <1>c DEF Coherent, LinkCoherent, InStep, Daemon
  <2>2. CASE ~Down(daemon)
    <3>1. Same(daemon, d) /\ d.state = "CONNECTED"
      BY <1>c, <2>2 DEF Same, Up, Down, Daemon
    <3> HIDE DEF d
    <3>2. daemon' = d
      BY <1>13, <3>1 DEF SimulateReconnect, Becomes, Start, d
    <3> QED BY <2>2, <3>1, <3>2, <1>s
  <2>3. CASE Down(daemon)
    <3>1. Coherent(d) /\ Down(d)
      BY <1>c, <2>1, <2>3 DEF Down, Daemon
    <3> HIDE DEF d
    <3>2. \/ Down(daemon')
          \/ Up(daemon', <<"battery", "noise", "ult", "dsee">>, 1, TRUE)
      BY <1>13, <3>1, AttemptDiscoveryView DEF SimulateReconnect, Becomes, Start, d
    <3> QED BY <2>3, <3>2, DownToDown, DownToUp
  <2> QED BY <2>2, <2>3
<1>14. ASSUME NEW connected \in BOOLEAN, PretendConnected(connected)
       PROVE  [Sequencer!Next]_Sequencer!vars
  <2>1. (~Down(daemon) /\ Same(daemon, daemon')) \/ (Down(daemon) /\ Down(daemon'))
    BY <1>14, <1>c DEF PretendConnected, Becomes, Same, Up, Down, Daemon
  <2> QED BY <2>1, <1>s
<1>15. CASE HeadsetReads \/ HeadsetReports
  <2>1. (~Down(daemon) /\ Same(daemon, daemon')) \/ (Down(daemon) /\ Down(daemon'))
    BY <1>15, <1>c DEF HeadsetReads, HeadsetReports, Same, Up, Down, Daemon
  <2> QED BY <2>1, <1>s
<1>16. CASE HeadsetLeaves \/ HeadsetReturns \/ UNCHANGED vars
  <2>1. (~Down(daemon) /\ Same(daemon, daemon')) \/ (Down(daemon) /\ Down(daemon'))
    BY <1>16 DEF HeadsetLeaves, HeadsetReturns, vars, Same, Up, Down
  <2> QED BY <2>1, <1>s
<1> QED BY <1>1, <1>2, <1>d, <1>3, <1>4, <1>5, <1>7, <1>8, <1>9, <1>10, <1>11, <1>12, <1>13,
           <1>14, <1>15, <1>16 DEF Next

\* For any commands, hooks and bounds, the queue that a session sees sends the
\* handshake, the queries and then each accepted command once, in order, with
\* alternating bits (main.cpp:233-296).
THEOREM QueueImplementsSequencer == Spec => QueueKeepsPromise
<1>1. Init => Sequencer!Init
  BY DEF Init, NewProcess, Sequencer!Init, Sequencer!Closed, InSession
<1>2. IInv /\ [Next]_vars => [Sequencer!Next]_Sequencer!vars
  BY StepSimulation
<1> QED BY <1>1, <1>2, Invariance, PTL DEF Spec, QueueKeepsPromise, Sequencer!Spec

-----------------------------------------------------------------------------
(* What the headset gets to read: control frames whose bits alternate from *)
(* the handshake on, and one of them at a time until the acknowledgement   *)
(* timer fires.                                                            *)
(*                                                                         *)
(* A frame that a short write leaves in sendQueue is on its way like one   *)
(* that the kernel took, so the argument is about Sent, the two together:  *)
(* a handler appends to it, the headset takes its head, and                *)
(* handleConnectedWrite leaves it alone.                                   *)

Sent(d) == d.wire \o d.sendQueue

Acks(inbound) == {i \in 1 .. Len(inbound) : inbound[i].kind = "ack"}

AtMostOne(S) == \A a, b \in S : a = b

Follows(frame, bit) == frame.kind # "handshake" /\ frame.seq = 1 - bit

\* InSequence, of any frames on their way and any bit heard before them.
Alternating(sent, bit) ==
    \A i \in Control(sent) :
        LET before == {j \in Control(sent) : j < i}
        IN  IF before # {}
            THEN \E j \in before : (\A k \in before : k <= j) /\ Follows(sent[i], sent[j].seq)
            ELSE IF bit # NoBit THEN Follows(sent[i], bit)
            ELSE sent[i] = [kind |-> "handshake", seq |-> 0]

\* The last control frame that was sent, whether still on its way or heard,
\* carries the complement of next.
NextIs(sent, bit, next) ==
    IF Control(sent) = {} THEN bit # NoBit /\ bit = 1 - next
    ELSE \E j \in Control(sent) : (\A k \in Control(sent) : k <= j) /\ sent[j].seq = 1 - next

\* At most one control frame or acknowledgement is on its way, and none
\* unless the queue waits for one.
OneWaits(sent, inbound, pending) ==
    /\ AtMostOne(Control(sent)) /\ AtMostOne(Acks(inbound))
    /\ Control(sent) = {} \/ Acks(inbound) = {}
    /\ ~pending => Control(sent) = {} /\ Acks(inbound) = {}

\* The inductive invariant behind InSequence and OneAtATime, of a daemon and
\* the last bit heard.
LinkInOrder(d, bit) ==
    d.state = "CONNECTED" =>
        /\ Alternating(Sent(d), bit)
        /\ NextIs(Sent(d), bit, d.txSeq)
        /\ d.txQueue \in Seq(Request \ {"handshake"})
        /\ ~d.expired => OneWaits(Sent(d), d.inbound, d.txPending)

WireInv == LinkInOrder(daemon, heard)

-----------------------------------------------------------------------------
(* Sequences of frames *)

LEMMA FrameBits ==
  ASSUME NEW f \in OutboundFrame
  PROVE  f.kind = "ack" \/ (f.kind \in Request /\ f.seq \in Bits)
  BY DEF OutboundFrame, AckFrame, ControlFrame

LEMMA RequestIsNoAck == "ack" \notin Request
  BY SessionAssumption DEF Request, Opening

LEMMA AppendFrame ==
  ASSUME NEW s \in Seq(OutboundFrame), NEW f \in OutboundFrame
  PROVE  LET t == Append(s, f)
         IN  /\ t \in Seq(OutboundFrame)
             /\ Len(s) \in Nat /\ Len(t) = Len(s) + 1
             /\ \A i \in 1 .. Len(s) : t[i] = s[i]
             /\ t[Len(s) + 1] = f
             /\ Control(s) \subseteq 1 .. Len(s)
             /\ Control(t) = IF f.kind = "ack" THEN Control(s)
                                               ELSE Control(s) \cup {Len(s) + 1}
<1> DEFINE t == Append(s, f)
<1>1. /\ t \in Seq(OutboundFrame)
      /\ Len(s) \in Nat /\ Len(t) = Len(s) + 1
      /\ \A i \in 1 .. Len(s) : t[i] = s[i]
      /\ t[Len(s) + 1] = f
  BY AppendProperties, LenProperties
<1> HIDE DEF t
<1>2. 1 .. Len(t) = (1 .. Len(s)) \cup {Len(s) + 1}
  BY <1>1
<1>3. Control(t) = IF f.kind = "ack" THEN Control(s) ELSE Control(s) \cup {Len(s) + 1}
  BY <1>1, <1>2 DEF Control
<1> QED BY <1>1, <1>3 DEF Control, t

\* The frames on their way lose their head.
LEMMA TailFrame ==
  ASSUME NEW s \in Seq(OutboundFrame), s # <<>>
  PROVE  LET t == Tail(s)
         IN  /\ t \in Seq(OutboundFrame)
             /\ \A i \in Control(s) : i \in Nat /\ i >= 1
             /\ \A i \in Control(t) : i \in Nat /\ i >= 1 /\ i + 1 \in Control(s) /\ t[i] = s[i + 1]
             /\ \A i \in Control(s) : i # 1 => i - 1 \in Control(t) /\ t[i - 1] = s[i]
             /\ 1 \in Control(s) <=> Head(s).kind # "ack"
             /\ Head(s) = s[1]
<1> DEFINE t == Tail(s)
<1>1. /\ t \in Seq(OutboundFrame) /\ Len(s) \in Nat /\ Len(s) >= 1
      /\ Len(t) = Len(s) - 1
      /\ \A i \in 1 .. Len(t) : t[i] = s[i + 1]
  BY HeadTailProperties, LenProperties, EmptySeq
<1>2. Head(s) = s[1]
  OBVIOUS
<1> HIDE DEF t
<1>3. \A i \in Control(t) : i \in Nat /\ i >= 1 /\ i + 1 \in Control(s) /\ t[i] = s[i + 1]
  BY <1>1 DEF Control
<1>4. \A i \in Control(s) : i # 1 => i - 1 \in Control(t) /\ t[i - 1] = s[i]
  <2> SUFFICES ASSUME NEW i \in Control(s), i # 1
               PROVE  i - 1 \in Control(t) /\ t[i - 1] = s[i]
    OBVIOUS
  <2>1. i \in Nat /\ i - 1 \in 1 .. Len(t) /\ (i - 1) + 1 = i
    BY <1>1 DEF Control
  <2>2. t[i - 1] = s[i]
    BY <1>1, <2>1
  <2> QED BY <2>1, <2>2 DEF Control
<1>5. 1 \in Control(s) <=> Head(s).kind # "ack"
  BY <1>1, <1>2 DEF Control
<1> QED BY <1>1, <1>2, <1>3, <1>4, <1>5 DEF Control, t

\* An acknowledgement of ours changes nothing for the control frames.
LEMMA AppendAck ==
  ASSUME NEW s \in Seq(OutboundFrame), NEW f \in OutboundFrame, f.kind = "ack",
         NEW bit, NEW next, Alternating(s, bit), NextIs(s, bit, next)
  PROVE  Alternating(Append(s, f), bit) /\ NextIs(Append(s, f), bit, next)
<1> DEFINE t == Append(s, f)
<1>1. Control(t) = Control(s) /\ \A i \in Control(s) : t[i] = s[i]
  BY AppendFrame
<1> HIDE DEF t
<1>2. Alternating(t, bit)
  BY <1>1 DEF Alternating
<1>3. NextIs(t, bit, next)
  BY <1>1 DEF NextIs
<1> QED BY <1>2, <1>3 DEF t

\* A control frame with the next bit keeps the alternation going.
LEMMA AppendNext ==
  ASSUME NEW s \in Seq(OutboundFrame), NEW f \in OutboundFrame,
         f.kind \notin {"ack", "handshake"},
         NEW bit \in Bits \cup {NoBit}, NEW next \in Bits, f.seq = next,
         Alternating(s, bit), NextIs(s, bit, next)
  PROVE  Alternating(Append(s, f), bit) /\ NextIs(Append(s, f), bit, 1 - next)
<1> DEFINE t == Append(s, f)
           n == Len(s) + 1
<1>1. /\ n \in Nat /\ n \notin Control(s)
      /\ Control(t) = Control(s) \cup {n}
      /\ t[n] = f
      /\ \A i \in Control(s) : t[i] = s[i] /\ i \in Nat /\ i < n
  BY AppendFrame
<1>2. next = 1 - (1 - next)
  BY DEF Bits
<1> HIDE DEF t, n
<1>3. ASSUME NEW i \in Control(s)
      PROVE  {j \in Control(t) : j < i} = {j \in Control(s) : j < i}
  BY <1>1
<1>4. {j \in Control(t) : j < n} = Control(s)
  BY <1>1
<1>5. ASSUME Control(s) # {}
      PROVE  \E j \in Control(s) : (\A k \in Control(s) : k <= j) /\ Follows(t[n], t[j].seq)
  <2>1. PICK j \in Control(s) : (\A k \in Control(s) : k <= j) /\ s[j].seq = 1 - next
    BY <1>5 DEF NextIs
  <2>2. Follows(t[n], t[j].seq)
    BY <1>1, <1>2, <2>1 DEF Follows
  <2> QED BY <2>1, <2>2
<1>6. ASSUME Control(s) = {}
      PROVE  bit # NoBit /\ Follows(t[n], bit)
  BY <1>1, <1>2, <1>6 DEF NextIs, Follows
<1>7. Alternating(t, bit)
  <2> SUFFICES ASSUME NEW i \in Control(t)
               PROVE  LET before == {j \in Control(t) : j < i}
                      IN  IF before # {}
                          THEN \E j \in before : /\ \A k \in before : k <= j
                                                 /\ Follows(t[i], t[j].seq)
                          ELSE IF bit # NoBit THEN Follows(t[i], bit)
                          ELSE t[i] = [kind |-> "handshake", seq |-> 0]
    BY DEF Alternating
  <2>1. CASE i \in Control(s)
    <3> DEFINE before == {j \in Control(s) : j < i}
    <3>1. \A j \in before : t[j] = s[j]
      BY <1>1
    <3>2. t[i] = s[i]
      BY <1>1, <2>1
    <3>3. IF before # {}
          THEN \E j \in before : (\A k \in before : k <= j) /\ Follows(s[i], s[j].seq)
          ELSE IF bit # NoBit THEN Follows(s[i], bit)
          ELSE s[i] = [kind |-> "handshake", seq |-> 0]
      BY <2>1 DEF Alternating
    <3>4. {j \in Control(t) : j < i} = before
      BY <1>3, <2>1
    <3> HIDE DEF before
    <3> QED BY <3>1, <3>2, <3>3, <3>4
  <2>2. CASE i = n
    BY <1>4, <1>5, <1>6, <2>2
  <2> QED BY <1>1, <2>1, <2>2
<1>8. NextIs(t, bit, 1 - next)
  <2>1. \A k \in Control(t) : k <= n
    BY <1>1
  <2>2. t[n].seq = 1 - (1 - next)
    BY <1>1, <1>2
  <2> QED BY <1>1, <2>1, <2>2 DEF NextIs
<1> QED BY <1>7, <1>8 DEF t

\* The headset reads the head; if that is a control frame it has heard its bit.
LEMMA TailInOrder ==
  ASSUME NEW s \in Seq(OutboundFrame), s # <<>>,
         NEW bit \in Bits \cup {NoBit}, NEW next \in Bits,
         Alternating(s, bit), NextIs(s, bit, next)
  PROVE  LET now == IF Head(s).kind = "ack" THEN bit ELSE Head(s).seq
         IN  Alternating(Tail(s), now) /\ NextIs(Tail(s), now, next)
<1> DEFINE t == Tail(s)
           now == IF Head(s).kind = "ack" THEN bit ELSE Head(s).seq
<1>1. /\ \A i \in Control(s) : i \in Nat /\ i >= 1
      /\ \A i \in Control(t) : i \in Nat /\ i >= 1 /\ i + 1 \in Control(s) /\ t[i] = s[i + 1]
      /\ \A i \in Control(s) : i # 1 => i - 1 \in Control(t) /\ t[i - 1] = s[i]
      /\ 1 \in Control(s) <=> Head(s).kind # "ack"
      /\ Head(s) = s[1]
  BY TailFrame
<1>2. 1 \in Control(s) => now = s[1].seq /\ now # NoBit
  <2>1. 1 \in Control(s) => Head(s) \in OutboundFrame
    BY HeadTailProperties
  <2> QED BY <1>1, <2>1, FrameBits DEF Bits, NoBit
<1>3. 1 \notin Control(s) => now = bit
  BY <1>1
<1> HIDE DEF t, now
<1>4. Alternating(t, now)
  <2> SUFFICES ASSUME NEW i \in Control(t)
               PROVE  LET before == {j \in Control(t) : j < i}
                      IN  IF before # {}
                          THEN \E j \in before : /\ \A k \in before : k <= j
                                                 /\ Follows(t[i], t[j].seq)
                          ELSE IF now # NoBit THEN Follows(t[i], now)
                          ELSE t[i] = [kind |-> "handshake", seq |-> 0]
    BY DEF Alternating
  <2> DEFINE before == {j \in Control(t) : j < i}
             older == {j \in Control(s) : j < i + 1}
  <2>1. i + 1 \in Control(s) /\ t[i] = s[i + 1] /\ i \in Nat /\ i >= 1
    BY <1>1
  <2>2. IF older # {}
        THEN \E j \in older : (\A k \in older : k <= j) /\ Follows(s[i + 1], s[j].seq)
        ELSE IF bit # NoBit THEN Follows(s[i + 1], bit)
        ELSE s[i + 1] = [kind |-> "handshake", seq |-> 0]
    BY <2>1 DEF Alternating
  <2>3. CASE before # {}
    <3>1. PICK b \in before : TRUE
      BY <2>3
    <3>2. b + 1 \in older /\ b >= 1 /\ b \in Nat
      BY <1>1, <2>1
    <3>3. PICK j \in older : (\A k \in older : k <= j) /\ Follows(s[i + 1], s[j].seq)
      BY <2>2, <3>2
    <3>4. j \in Control(s) /\ j \in Nat /\ j < i + 1 /\ j # 1
      BY <1>1, <3>2, <3>3
    <3>5. j - 1 \in before /\ t[j - 1] = s[j]
      BY <1>1, <2>1, <3>4
    <3>6. ASSUME NEW k \in before
          PROVE  k <= j - 1
      <4>1. k \in Nat /\ k + 1 \in older
        BY <1>1, <2>1
      <4> QED BY <3>3, <3>4, <4>1
    <3> QED BY <2>1, <2>3, <3>3, <3>5, <3>6
  <2>4. CASE before = {}
    <3>1. \A j \in older : j = 1
      <4> SUFFICES ASSUME NEW j \in older, j # 1
                   PROVE  FALSE
        OBVIOUS
      <4>1. j - 1 \in before
        BY <1>1, <2>1
      <4> QED BY <4>1, <2>4
    <3>2. CASE 1 \in Control(s)
      <4>1. 1 \in older
        BY <2>1, <3>2
      <4>2. Follows(s[i + 1], s[1].seq)
        BY <2>2, <3>1, <4>1
      <4> QED BY <1>2, <2>1, <2>4, <3>2, <4>2
    <3>3. CASE 1 \notin Control(s)
      <4>1. older = {}
        BY <3>1, <3>3
      <4> QED BY <1>3, <2>1, <2>2, <2>4, <3>3, <4>1
    <3> QED BY <3>2, <3>3
  <2> QED BY <2>3, <2>4
<1>5. NextIs(t, now, next)
  <2>1. CASE Control(t) # {}
    <3>1. PICK b \in Control(t) : TRUE
      BY <2>1
    <3>2. b + 1 \in Control(s) /\ b \in Nat /\ b >= 1
      BY <1>1
    <3>3. PICK j \in Control(s) : (\A k \in Control(s) : k <= j) /\ s[j].seq = 1 - next
      BY <3>2 DEF NextIs
    <3>4. j \in Nat /\ j # 1
      BY <1>1, <3>2, <3>3
    <3>5. j - 1 \in Control(t) /\ t[j - 1] = s[j]
      BY <1>1, <3>4
    <3>6. \A k \in Control(t) : k <= j - 1
      BY <1>1, <3>3, <3>4
    <3> QED BY <2>1, <3>3, <3>5, <3>6 DEF NextIs
  <2>2. CASE Control(t) = {}
    <3>1. \A j \in Control(s) : j = 1
      BY <1>1, <2>2
    <3>2. CASE 1 \in Control(s)
      <4>1. s[1].seq = 1 - next
        BY <3>1, <3>2 DEF NextIs
      <4> QED BY <1>2, <2>2, <3>2, <4>1 DEF NextIs
    <3>3. CASE 1 \notin Control(s)
      <4>1. Control(s) = {}
        BY <3>1, <3>3
      <4> QED BY <1>3, <2>2, <3>3, <4>1 DEF NextIs
    <3> QED BY <3>2, <3>3
  <2> QED BY <2>1, <2>2
<1> QED BY <1>4, <1>5 DEF t, now

\* An acknowledgement leaves the inbound buffer, or another frame does.
LEMMA TailAcks ==
  ASSUME NEW s \in Seq(InboundFrame), s # <<>>, AtMostOne(Acks(s))
  PROVE  /\ Head(s).kind = "ack" => Acks(s) # {} /\ Acks(Tail(s)) = {}
         /\ AtMostOne(Acks(Tail(s)))
         /\ Acks(s) = {} => Acks(Tail(s)) = {}
<1> DEFINE t == Tail(s)
<1>1. /\ Len(s) \in Nat /\ Len(s) >= 1 /\ Len(t) = Len(s) - 1
      /\ \A i \in 1 .. Len(t) : t[i] = s[i + 1]
  BY HeadTailProperties, LenProperties, EmptySeq
<1>2. Head(s) = s[1]
  OBVIOUS
<1> HIDE DEF t
<1>3. \A i \in Acks(t) : i \in Nat /\ i >= 1 /\ i + 1 \in Acks(s)
  BY <1>1 DEF Acks
<1>4. Head(s).kind = "ack" => 1 \in Acks(s)
  BY <1>1, <1>2 DEF Acks
<1>5. \A a, b \in Acks(t) : a + 1 = b + 1 /\ a \in Nat /\ b \in Nat
  BY <1>3 DEF AtMostOne
<1> QED BY <1>3, <1>4, <1>5 DEF AtMostOne, t

LEMMA AppendInbound ==
  ASSUME NEW s \in Seq(InboundFrame), NEW f \in InboundFrame
  PROVE  /\ f.kind = "ack" /\ Acks(s) = {} => AtMostOne(Acks(Append(s, f)))
         /\ f.kind # "ack" => Acks(Append(s, f)) = Acks(s)
<1> DEFINE t == Append(s, f)
           n == Len(s) + 1
<1>1. /\ Len(s) \in Nat /\ Len(t) = Len(s) + 1
      /\ \A i \in 1 .. Len(s) : t[i] = s[i]
      /\ t[n] = f
  BY AppendProperties, LenProperties
<1> HIDE DEF t
<1>2. 1 .. Len(t) = (1 .. Len(s)) \cup {n}
  BY <1>1
<1>3. Acks(t) = IF f.kind = "ack" THEN Acks(s) \cup {n} ELSE Acks(s)
  BY <1>1, <1>2 DEF Acks
<1> QED BY <1>3 DEF AtMostOne, t

-----------------------------------------------------------------------------
(* What the operators do to the frames on their way *)

\* A write adds a frame at the end, to the wire or to what a short write left.
LEMMA SentGrows ==
  ASSUME NEW w \in Seq(OutboundFrame), NEW q \in Seq(OutboundFrame),
         NEW f \in OutboundFrame
  PROVE  /\ w \o Append(q, f) = Append(w \o q, f)
         /\ Append(w, f) \o <<>> = Append(w \o <<>>, f)
<1>1. <<f>> \in Seq(OutboundFrame) /\ w \o q \in Seq(OutboundFrame)
  BY ConcatProperties
<1>2. Append(w \o q, f) = (w \o q) \o <<f>> /\ Append(q, f) = q \o <<f>>
  BY <1>1, AppendIsConcat
<1>3. w \o (q \o <<f>>) = (w \o q) \o <<f>>
  BY <1>1, ConcatAssociative
<1>4. Append(w, f) \in Seq(OutboundFrame)
  BY AppendProperties
<1>5. Append(w, f) \o <<>> = Append(w, f) /\ w \o <<>> = w
  BY <1>4, ConcatEmptySeq
<1> QED BY <1>2, <1>3, <1>5

LEMMA SentType ==
  ASSUME NEW d \in Daemon
  PROVE  Sent(d) \in Seq(OutboundFrame)
  BY ConcatProperties DEF Sent, Daemon

Wired(e, sent, inbound, expired) ==
    Sent(e) = sent /\ e.inbound = inbound /\ e.expired = expired

LEMMA SendPacketWire ==
  ASSUME NEW d \in Daemon, NEW frame \in OutboundFrame, NEW outcome
  PROVE  LET e == SendPacket(d, frame, outcome)
         IN  Down(e) \/ (~Down(d) /\ Wired(e, Append(Sent(d), frame), d.inbound, d.expired))
<1>1. CASE d.state # "CONNECTED"
  BY <1>1 DEF SendPacket, Down
<1>2. CASE d.state = "CONNECTED" /\ (d.sendQueue # <<>> \/ outcome = "short")
  <2> DEFINE e == [d EXCEPT !.sendQueue = Append(@, frame)]
  <2>1. e.wire = d.wire /\ e.sendQueue = Append(d.sendQueue, frame)
        /\ e.inbound = d.inbound /\ e.expired = d.expired
    BY DEF Daemon
  <2>2. d.wire \o Append(d.sendQueue, frame) = Append(d.wire \o d.sendQueue, frame)
    BY SentGrows DEF Daemon
  <2> HIDE DEF e
  <2>3. Wired(e, Append(Sent(d), frame), d.inbound, d.expired)
    BY <2>1, <2>2 DEF Wired, Sent
  <2> QED BY <1>2, <2>3 DEF SendPacket, Down, e
<1>3. CASE d.state = "CONNECTED" /\ d.sendQueue = <<>> /\ outcome = "sent"
  <2> DEFINE e == [d EXCEPT !.wire = Append(@, frame)]
  <2>1. e.wire = Append(d.wire, frame) /\ e.sendQueue = <<>>
        /\ e.inbound = d.inbound /\ e.expired = d.expired
    BY <1>3 DEF Daemon
  <2>2. Append(d.wire, frame) \o <<>> = Append(d.wire \o <<>>, frame)
    BY SentGrows DEF Daemon
  <2> HIDE DEF e
  <2>3. Wired(e, Append(Sent(d), frame), d.inbound, d.expired)
    BY <1>3, <2>1, <2>2 DEF Wired, Sent
  <2> QED BY <1>3, <2>3 DEF SendPacket, Down, e
<1>4. CASE d.state = "CONNECTED" /\ d.sendQueue = <<>> /\ outcome \notin {"sent", "short"}
  BY <1>4, ScheduleReconnectCoherent DEF SendPacket, Down
<1> QED BY <1>1, <1>2, <1>3, <1>4

LEMMA PumpTxWire ==
  ASSUME NEW d, LinkCoherent(d), NEW outcome
  PROVE  LET e == PumpTx(d, outcome)
             frame == [kind |-> Head(d.txQueue), seq |-> d.txSeq]
         IN  \/ Down(e)
             \/ ~Down(d) /\ d.txQueue = <<>> /\ Wired(e, Sent(d), d.inbound, d.expired)
             \/ ~Down(d) /\ d.txQueue # <<>>
                /\ Wired(e, Append(Sent(d), frame), d.inbound, d.expired)
<1>1. CASE d.txQueue = <<>>
  BY <1>1 DEF PumpTx, Down, Wired, Sent, LinkCoherent, Daemon
<1>2. CASE d.txQueue # <<>>
  <2> DEFINE frame == [kind |-> Head(d.txQueue), seq |-> d.txSeq]
             popped == [d EXCEPT !.txQueue = Tail(@), !.txSeq = NextSeq(@)]
             sent == SendPacket(popped, frame, outcome)
             e == [sent EXCEPT !.txPending = TRUE]
  <2>1. /\ Head(d.txQueue) \in Request /\ Tail(d.txQueue) \in Seq(Request)
        /\ d.txSeq \in Bits /\ NextSeq(d.txSeq) \in Bits
    BY <1>2 DEF LinkCoherent, Daemon, NextSeq, Bits
  <2>2. frame \in OutboundFrame
    BY <2>1, FrameTypes
  <2>3. LinkCoherent(popped) /\ popped \in Daemon
    BY <2>1 DEF LinkCoherent, InStep, Daemon
  <2>4. /\ popped.state = d.state /\ Sent(popped) = Sent(d)
        /\ popped.inbound = d.inbound /\ popped.expired = d.expired
    BY DEF LinkCoherent, Daemon, Sent
  <2>5. PumpTx(d, outcome) = e
    BY <1>2 DEF PumpTx
  <2> HIDE DEF frame, popped
  <2>6. sent \in Daemon
    BY <2>2, <2>3, SendPacketCoherent DEF LinkCoherent
  <2>7. Down(sent) \/ (~Down(popped) /\ Wired(sent, Append(Sent(popped), frame),
                                             popped.inbound, popped.expired))
    BY <2>2, <2>3, SendPacketWire
  <2> HIDE DEF sent
  <2>8. /\ e.state = sent.state /\ Sent(e) = Sent(sent)
        /\ e.inbound = sent.inbound /\ e.expired = sent.expired
    BY <2>6 DEF Daemon, Sent
  <2> HIDE DEF e
  <2>9. Down(e) \/ (~Down(d) /\ Wired(e, Append(Sent(d), frame), d.inbound, d.expired))
    BY <2>4, <2>7, <2>8 DEF Down, Wired
  <2> QED BY <1>2, <2>5, <2>9 DEF frame
<1> QED BY <1>1, <1>2

-----------------------------------------------------------------------------
(* The operators keep the link in order *)

\* The provers find the parts of LinkInOrder one by one.
LEMMA InOrder ==
  ASSUME NEW e, NEW bit,
         \/ Down(e)
         \/ /\ Alternating(Sent(e), bit) /\ NextIs(Sent(e), bit, e.txSeq)
            /\ e.txQueue \in Seq(Request \ {"handshake"})
            /\ ~e.expired => OneWaits(Sent(e), e.inbound, e.txPending)
  PROVE  LinkInOrder(e, bit)
  BY DEF LinkInOrder, Down

LEMMA PumpTxInOrder ==
  ASSUME NEW d, LinkCoherent(d), NEW bit \in Bits \cup {NoBit}, NEW outcome,
         d.txQueue \in Seq(Request \ {"handshake"}),
         Alternating(Sent(d), bit), NextIs(Sent(d), bit, d.txSeq),
         ~d.expired => Control(Sent(d)) = {} /\ Acks(d.inbound) = {}
  PROVE  LinkInOrder(PumpTx(d, outcome), bit)
<1> DEFINE e == PumpTx(d, outcome)
           frame == [kind |-> Head(d.txQueue), seq |-> d.txSeq]
<1>0. d \in Daemon /\ d.txSeq \in Bits
  BY DEF LinkCoherent, Daemon
<1>1. \/ Down(e)
      \/ d.txQueue = <<>> /\ Up(e, <<>>, d.txSeq, FALSE)
      \/ d.txQueue # <<>> /\ Up(e, Tail(d.txQueue), 1 - d.txSeq, TRUE)
  BY PumpTxView
<1>2. \/ Down(e)
      \/ d.txQueue = <<>> /\ Wired(e, Sent(d), d.inbound, d.expired)
      \/ d.txQueue # <<>> /\ Wired(e, Append(Sent(d), frame), d.inbound, d.expired)
  BY PumpTxWire
<1> HIDE DEF e
<1>3. CASE Down(e)
  BY <1>3, InOrder DEF e
<1>4. CASE ~Down(e) /\ d.txQueue = <<>>
  <2>1. /\ Sent(e) = Sent(d) /\ e.inbound = d.inbound /\ e.expired = d.expired
        /\ e.txQueue = d.txQueue /\ e.txSeq = d.txSeq
    BY <1>1, <1>2, <1>4 DEF Up, Wired
  <2>2. ~e.expired => OneWaits(Sent(e), e.inbound, e.txPending)
    BY <2>1 DEF OneWaits, AtMostOne
  <2> QED BY <2>1, <2>2, InOrder DEF e
<1>5. CASE ~Down(e) /\ d.txQueue # <<>>
  <2>1. /\ Sent(e) = Append(Sent(d), frame) /\ e.inbound = d.inbound
        /\ e.expired = d.expired
        /\ e.txQueue = Tail(d.txQueue) /\ e.txSeq = 1 - d.txSeq /\ e.txPending = TRUE
    BY <1>1, <1>2, <1>5 DEF Up, Wired
  <2>2. /\ Head(d.txQueue) \in Request \ {"handshake"}
        /\ Tail(d.txQueue) \in Seq(Request \ {"handshake"})
    BY <1>5, HeadTailProperties
  <2>3. /\ frame \in OutboundFrame /\ frame.seq = d.txSeq
        /\ frame.kind \notin {"ack", "handshake"}
    BY <1>0, <2>2, FrameTypes, RequestIsNoAck
  <2> HIDE DEF frame
  <2>4. Sent(d) \in Seq(OutboundFrame)
    BY <1>0, SentType
  <2>5. Alternating(Sent(e), bit) /\ NextIs(Sent(e), bit, e.txSeq)
    BY <1>0, <2>1, <2>3, <2>4, AppendNext
  <2>6. Control(Append(Sent(d), frame)) = Control(Sent(d)) \cup {Len(Sent(d)) + 1}
    BY <2>3, <2>4, AppendFrame
  <2>7. ~e.expired => OneWaits(Sent(e), e.inbound, e.txPending)
    BY <2>1, <2>6 DEF OneWaits, AtMostOne
  <2> QED BY <2>1, <2>2, <2>5, <2>7, InOrder DEF e
<1> QED BY <1>3, <1>4, <1>5 DEF e

\* The fields that LinkInOrder speaks of.
SameLink(d, e) == Same(d, e) /\ Wired(e, Sent(d), d.inbound, d.expired)

LEMMA EnqueueTxInOrder ==
  ASSUME NEW d, Coherent(d), NEW bit \in Bits \cup {NoBit}, LinkInOrder(d, bit),
         NEW request \in Request \ {"handshake"}, NEW outcome
  PROVE  LinkInOrder(EnqueueTx(d, request, outcome), bit)
<1> DEFINE queued == [d EXCEPT !.txQueue = Append(@, request)]
<1>1. d \in Daemon /\ d.txPending \in BOOLEAN
  BY DEF Coherent, LinkCoherent, Daemon
<1>2. CASE Down(d)
  <2>1. Down(EnqueueTx(d, request, outcome))
    BY <1>2, EnqueueTxView
  <2> QED BY <2>1, InOrder
<1>3. CASE ~Down(d)
  <2>1. /\ Alternating(Sent(d), bit) /\ NextIs(Sent(d), bit, d.txSeq)
        /\ d.txQueue \in Seq(Request \ {"handshake"})
        /\ ~d.expired => OneWaits(Sent(d), d.inbound, d.txPending)
    BY <1>3 DEF LinkInOrder, Down
  <2>2. /\ Append(d.txQueue, request) \in Seq(Request \ {"handshake"})
        /\ Append(d.txQueue, request) \in Seq(Request)
    BY <2>1, <1>1, AppendProperties DEF Daemon
  <2>3. LinkCoherent(queued)
    BY <2>2 DEF Coherent, LinkCoherent, InStep, Daemon
  <2>4. /\ Wired(queued, Sent(d), d.inbound, d.expired)
        /\ Up(queued, Append(d.txQueue, request), d.txSeq, d.txPending)
    BY <1>1, <1>3 DEF Wired, Sent, Up, Down, Daemon
  <2>5. EnqueueTx(d, request, outcome) = IF d.txPending THEN queued ELSE PumpTx(queued, outcome)
    BY DEF EnqueueTx
  <2> HIDE DEF queued
  <2>6. CASE d.txPending = TRUE
    <3>1. LinkInOrder(queued, bit)
      BY <2>1, <2>2, <2>4, InOrder DEF Wired, Up
    <3> QED BY <2>5, <2>6, <3>1
  <2>7. CASE d.txPending = FALSE
    <3>1. ~d.expired => Control(Sent(d)) = {} /\ Acks(d.inbound) = {}
      BY <2>1, <2>7 DEF OneWaits
    <3>2. LinkInOrder(PumpTx(queued, outcome), bit)
      BY <2>1, <2>2, <2>3, <2>4, <3>1, PumpTxInOrder DEF Wired, Up
    <3> QED BY <2>5, <2>7, <3>2
  <2> QED BY <1>1, <2>6, <2>7
<1> QED BY <1>2, <1>3

\* The first frame of a session is the handshake with bit 0, before any query.
LEMMA BecomeConnectedInOrder ==
  ASSUME NEW d, Coherent(d), Down(d), NEW outcome
  PROVE  LinkInOrder(BecomeConnected(d, outcome), NoBit)
<1> DEFINE up == [d EXCEPT !.state = "CONNECTED"]
           fresh == FreshSession(up)
           opened == EnqueueTx(fresh, "handshake", outcome)
           battery == EnqueueTx(opened, "battery", outcome)
           noise == EnqueueTx(battery, "noise", outcome)
           ult == EnqueueTx(noise, "ult", outcome)
           dsee == EnqueueTx(ult, "dsee", outcome)
           queued == [fresh EXCEPT !.txQueue = Append(@, "handshake")]
           first == [kind |-> "handshake", seq |-> 0]
<1>1. fresh \in Daemon
  BY EmptySequence DEF FreshSession, Coherent, LinkCoherent, Daemon, ConnectionState, Bits
<1>2. /\ Up(fresh, <<>>, 0, FALSE) /\ fresh.connected = TRUE /\ fresh.expired = FALSE
      /\ fresh.simulated = d.simulated /\ fresh.framer = d.framer
      /\ fresh.headRead = d.headRead
      /\ fresh.wire = <<>> /\ fresh.sendQueue = <<>> /\ fresh.inbound = <<>>
  BY DEF FreshSession, Coherent, LinkCoherent, Daemon, Up, Down
<1>3. Coherent(fresh)
  BY <1>1, <1>2 DEF Coherent, LinkCoherent, InStep, Up
<1> HIDE DEF fresh
<1>4. /\ {"battery", "noise", "ult", "dsee"} \subseteq Request \ {"handshake"}
      /\ "handshake" \in Request
  BY DEF Request, Opening
<1>5. opened = PumpTx(queued, outcome)
  BY <1>2 DEF EnqueueTx, Up
<1>6. Append(fresh.txQueue, "handshake") = <<"handshake">>
  BY <1>2 DEF Up
<1>7. queued \in Daemon
  BY <1>1, <1>4, <1>6 DEF Daemon
<1>8. /\ Up(queued, <<"handshake">>, 0, FALSE) /\ Sent(queued) = <<>> \o <<>>
      /\ queued.inbound = <<>> /\ queued.expired = FALSE
  BY <1>1, <1>2, <1>6 DEF Up, Sent, Daemon
<1>9. LinkCoherent(queued)
  BY <1>1, <1>3, <1>7 DEF Coherent, LinkCoherent, InStep, Daemon
<1> HIDE DEF queued
<1>10. Sent(queued) = <<>>
  BY <1>8, ConcatEmptySeq, EmptySequence
<1>11. Head(<<"handshake">>) = "handshake" /\ Tail(<<"handshake">>) = <<>>
       /\ <<"handshake">> # <<>>
  OBVIOUS
<1>12. Down(opened) \/ Up(opened, <<>>, 1, TRUE)
  <2>1. \/ Down(PumpTx(queued, outcome))
        \/ queued.txQueue = <<>>
        \/ Up(PumpTx(queued, outcome), Tail(queued.txQueue), 1 - queued.txSeq, TRUE)
    BY <1>9, PumpTxView
  <2> QED BY <1>5, <1>8, <1>11, <2>1 DEF Up
<1>13. Down(opened) \/ Wired(opened, Append(<<>>, first), <<>>, FALSE)
  <2>1. \/ Down(PumpTx(queued, outcome))
        \/ queued.txQueue = <<>>
        \/ Wired(PumpTx(queued, outcome),
                 Append(Sent(queued), [kind |-> Head(queued.txQueue), seq |-> queued.txSeq]),
                 queued.inbound, queued.expired)
    BY <1>9, PumpTxWire
  <2> QED BY <1>5, <1>8, <1>10, <1>11, <2>1 DEF Up
<1>14. Coherent(opened)
  BY <1>3, <1>4, EnqueueTxCoherent
<1>15. LinkInOrder(opened, NoBit)
  <2> DEFINE s == Append(<<>>, first)
  <2>1. Len(s) = 1 /\ s[1] = first /\ first.kind # "ack" /\ first.seq = 0
    OBVIOUS
  <2> HIDE DEF s
  <2>2. Control(s) = {1}
    BY <2>1 DEF Control
  <2>3. Alternating(s, NoBit)
    BY <2>1, <2>2 DEF Alternating
  <2>4. NextIs(s, NoBit, 1)
    BY <2>1, <2>2 DEF NextIs
  <2>5. Acks(<<>>) = {}
    BY DEF Acks
  <2>6. OneWaits(s, <<>>, TRUE)
    BY <2>2, <2>5 DEF OneWaits, AtMostOne
  <2>7. CASE ~Down(opened)
    <3>1. /\ Sent(opened) = s /\ opened.inbound = <<>> /\ opened.txQueue = <<>>
          /\ opened.txSeq = 1 /\ opened.txPending = TRUE
      BY <1>12, <1>13, <2>7 DEF Up, Wired, s
    <3> QED BY <2>3, <2>4, <2>6, <3>1, EmptySequence, InOrder
  <2> QED BY <2>7, InOrder
<1> HIDE DEF opened
<1>16. Coherent(battery) /\ LinkInOrder(battery, NoBit)
  BY <1>4, <1>14, <1>15, EnqueueTxCoherent, EnqueueTxInOrder
<1> HIDE DEF battery
<1>17. Coherent(noise) /\ LinkInOrder(noise, NoBit)
  BY <1>4, <1>16, EnqueueTxCoherent, EnqueueTxInOrder
<1> HIDE DEF noise
<1>18. Coherent(ult) /\ LinkInOrder(ult, NoBit)
  BY <1>4, <1>17, EnqueueTxCoherent, EnqueueTxInOrder
<1> HIDE DEF ult
<1>19. LinkInOrder(dsee, NoBit)
  BY <1>4, <1>18, EnqueueTxInOrder
<1> QED BY <1>19 DEF BecomeConnected, OnConnected, opened, battery, noise, ult, fresh

LEMMA SameLinkInOrder ==
  ASSUME NEW d, NEW e, NEW bit, SameLink(d, e), d.state = "CONNECTED", LinkInOrder(d, bit)
  PROVE  LinkInOrder(e, bit)
  BY InOrder DEF LinkInOrder, SameLink, Same, Up, Wired

LEMMA AttemptDiscoveryInOrder ==
  ASSUME NEW d, Coherent(d), Down(d), NEW result \in AttemptResults, NEW outcome
  PROVE  LinkInOrder(AttemptDiscovery(d, result, outcome), NoBit)
<1>0. d \in Daemon
  BY DEF Coherent, LinkCoherent
<1>1. CASE result = "failed"
  <2>1. Down(ScheduleReconnect(d))
    BY <1>0, ScheduleReconnectCoherent DEF Down
  <2> QED BY <1>1, <2>1, InOrder DEF AttemptDiscovery
<1>2. CASE result = "inProgress"
  <2>1. AttemptDiscovery(d, result, outcome) = [d EXCEPT !.state = "CONNECTING"]
    BY <1>2 DEF AttemptDiscovery
  <2>2. Down([d EXCEPT !.state = "CONNECTING"])
    BY <1>0 DEF Down, Daemon
  <2> QED BY <2>1, <2>2, InOrder
<1>3. CASE result = "connected"
  <2>1. AttemptDiscovery(d, result, outcome) = BecomeConnected(d, outcome)
    BY <1>3 DEF AttemptDiscovery
  <2> QED BY <2>1, BecomeConnectedInOrder
<1> QED BY <1>1, <1>2, <1>3 DEF AttemptResults

\* The daemon's acknowledgement of a report goes between control frames.
LEMMA ReplyInOrder ==
  ASSUME NEW d, LinkCoherent(d), NEW bit, NEW outcome, LinkInOrder(d, bit)
  PROVE  LinkInOrder(SendPacket(d, AckFrame, outcome), bit)
<1> DEFINE e == SendPacket(d, AckFrame, outcome)
<1>1. d \in Daemon /\ AckFrame \in OutboundFrame /\ AckFrame.kind = "ack"
  BY FrameTypes DEF LinkCoherent, AckFrame
<1>2. Down(e) \/ (~Down(d) /\ Wired(e, Append(Sent(d), AckFrame), d.inbound, d.expired))
  BY <1>1, SendPacketWire
<1>3. Down(e) \/ (~Down(d) /\ Same(d, e))
  BY <1>1, SendPacketView
<1> HIDE DEF e
<1>4. CASE ~Down(e)
  <2>1. /\ Sent(e) = Append(Sent(d), AckFrame) /\ e.inbound = d.inbound
        /\ e.expired = d.expired /\ e.txQueue = d.txQueue /\ e.txSeq = d.txSeq
        /\ e.txPending = d.txPending /\ d.state = "CONNECTED"
    BY <1>2, <1>3, <1>4 DEF Wired, Same, Up, Down
  <2>2. Sent(d) \in Seq(OutboundFrame)
    BY <1>1, SentType
  <2>3. /\ Alternating(Sent(d), bit) /\ NextIs(Sent(d), bit, d.txSeq)
        /\ d.txQueue \in Seq(Request \ {"handshake"})
        /\ ~d.expired => OneWaits(Sent(d), d.inbound, d.txPending)
    BY <2>1 DEF LinkInOrder
  <2>4. Alternating(Sent(e), bit) /\ NextIs(Sent(e), bit, e.txSeq)
    BY <1>1, <2>1, <2>2, <2>3, AppendAck
  <2>5. Control(Sent(e)) = Control(Sent(d))
    BY <1>1, <2>1, <2>2, AppendFrame
  <2>6. ~e.expired => OneWaits(Sent(e), e.inbound, e.txPending)
    BY <2>1, <2>3, <2>5 DEF OneWaits
  <2> QED BY <2>1, <2>3, <2>4, <2>6, InOrder DEF e
<1> QED BY <1>4, InOrder DEF e

LEMMA OnDataReceivedInOrder ==
  ASSUME NEW d, Coherent(d), d.state = "CONNECTED", d.inbound # <<>>,
         NEW bit \in Bits \cup {NoBit}, LinkInOrder(d, bit), NEW outcome
  PROVE  LinkInOrder(OnDataReceived(d, outcome), bit)
<1> DEFINE read == [d EXCEPT !.framer = "empty", !.inbound = Tail(@), !.headRead = FALSE]
           frame == Head(d.inbound)
           replied == SendPacket(read, AckFrame, outcome)
<1>1. d \in Daemon /\ d.inbound \in Seq(InboundFrame) /\ Tail(d.inbound) \in Seq(InboundFrame)
  BY DEF Coherent, LinkCoherent, Daemon
<1>2. LinkCoherent(read)
  BY <1>1 DEF Coherent, LinkCoherent, InStep, Daemon, Buffered
<1>3. Same(d, read) /\ Wired(read, Sent(d), Tail(d.inbound), d.expired)
  BY <1>1 DEF Same, Up, Wired, Sent, Daemon
<1>4. /\ Alternating(Sent(d), bit) /\ NextIs(Sent(d), bit, d.txSeq)
      /\ d.txQueue \in Seq(Request \ {"handshake"})
      /\ ~d.expired => OneWaits(Sent(d), d.inbound, d.txPending)
  BY DEF LinkInOrder
<1>5. OnDataReceived(d, outcome) =
          IF InStep(d) THEN OnFrame(read, frame, outcome) ELSE read
  BY DEF OnDataReceived
<1> HIDE DEF read
<1>6. LinkInOrder(read, bit)
  <2>1. ~d.expired => OneWaits(Sent(d), Tail(d.inbound), d.txPending)
    BY <1>1, <1>4, TailAcks DEF OneWaits
  <2> QED BY <1>3, <1>4, <2>1, InOrder DEF Same, Up, Wired
<1>7. CASE OnDataReceived(d, outcome) = read
  BY <1>6, <1>7
<1>8. CASE frame.kind = "ack" /\ OnDataReceived(d, outcome) = PumpTx(read, outcome)
  <2>1. ~d.expired => Control(Sent(d)) = {} /\ Acks(Tail(d.inbound)) = {}
    BY <1>1, <1>4, <1>8, TailAcks DEF OneWaits
  <2>2. LinkInOrder(PumpTx(read, outcome), bit)
    BY <1>2, <1>3, <1>4, <2>1, PumpTxInOrder DEF Same, Up, Wired
  <2> QED BY <1>8, <2>2
<1>9. LinkInOrder(replied, bit)
  BY <1>2, <1>6, ReplyInOrder
<1>10. LinkInOrder([replied EXCEPT !.connected = TRUE], bit)
  <2> DEFINE e == [replied EXCEPT !.connected = TRUE]
  <2>1. replied \in Daemon
    BY <1>2, FrameTypes, SendPacketCoherent DEF LinkCoherent
  <2> HIDE DEF replied
  <2>2. /\ e.state = replied.state /\ Sent(e) = Sent(replied) /\ e.txSeq = replied.txSeq
        /\ e.txQueue = replied.txQueue /\ e.expired = replied.expired
        /\ e.inbound = replied.inbound /\ e.txPending = replied.txPending
    BY <2>1 DEF Daemon, Sent
  <2> HIDE DEF e
  <2>3. LinkInOrder(e, bit)
    BY <1>9, <2>2 DEF LinkInOrder
  <2> QED BY <2>3 DEF e
<1> QED BY <1>5, <1>7, <1>8, <1>9, <1>10 DEF OnFrame

\* Taking the head of the wire takes the head of all that was sent.
LEMMA HeadOfConcat ==
  ASSUME NEW S, NEW w \in Seq(S), NEW q \in Seq(S), w # <<>>
  PROVE  w \o q # <<>> /\ Head(w \o q) = Head(w) /\ Tail(w \o q) = Tail(w) \o q
<1> DEFINE s == w \o q
           t == Tail(w) \o q
<1>1. /\ s \in Seq(S) /\ Len(s) = Len(w) + Len(q)
      /\ \A i \in 1 .. Len(w) + Len(q) : s[i] = IF i <= Len(w) THEN w[i] ELSE q[i - Len(w)]
  BY ConcatProperties
<1>2. Len(w) \in Nat /\ Len(w) >= 1 /\ Len(q) \in Nat
  BY EmptySeq, LenProperties
<1>3. /\ Tail(w) \in Seq(S) /\ Len(Tail(w)) = Len(w) - 1
      /\ \A i \in 1 .. Len(Tail(w)) : Tail(w)[i] = w[i + 1]
  BY HeadTailProperties
<1>4. /\ t \in Seq(S) /\ Len(t) = Len(Tail(w)) + Len(q)
      /\ \A i \in 1 .. Len(Tail(w)) + Len(q) :
             t[i] = IF i <= Len(Tail(w)) THEN Tail(w)[i] ELSE q[i - Len(Tail(w))]
  BY <1>3, ConcatProperties
<1> HIDE DEF s, t
<1>5. s # <<>>
  BY <1>1, <1>2
<1>6. s[1] = w[1]
  BY <1>1, <1>2
<1>7. Head(s) = s[1] /\ Head(w) = w[1]
  OBVIOUS
<1>8. /\ Tail(s) \in Seq(S) /\ Len(Tail(s)) = Len(s) - 1
      /\ \A i \in 1 .. Len(Tail(s)) : Tail(s)[i] = s[i + 1]
  BY <1>1, <1>5, HeadTailProperties
<1>9. \A i \in 1 .. Len(Tail(s)) : Tail(s)[i] = t[i]
  BY <1>1, <1>2, <1>3, <1>4, <1>8
<1>10. Tail(s) = t
  BY <1>1, <1>2, <1>3, <1>4, <1>8, <1>9, SeqEqual
<1> QED BY <1>5, <1>6, <1>7, <1>10 DEF s, t

\* The headset takes the head of the wire, and may answer a control frame.
LEMMA HeadsetReadsInOrder ==
  ASSUME IInv, WireInv, HeadsetReads
  PROVE  WireInv'
<1> DEFINE frame == Head(daemon.wire)
           read == [daemon EXCEPT !.wire = Tail(@)]
           ack == [kind |-> "ack", seq |-> 1 - frame.seq]
           s == Sent(daemon)
<1>1. /\ daemon \in Daemon /\ daemon.wire # <<>> /\ daemon.state = "CONNECTED"
      /\ daemon.wire \in Seq(OutboundFrame) /\ daemon.sendQueue \in Seq(OutboundFrame)
      /\ daemon.inbound \in Seq(InboundFrame) /\ daemon.txSeq \in Bits
      /\ heard \in Bits \cup {NoBit}
  BY DEF IInv, Coherent, LinkCoherent, TypeOK, HeadsetReads, Daemon
<1>2. s \in Seq(OutboundFrame) /\ s # <<>> /\ Head(s) = frame
      /\ Tail(s) = Tail(daemon.wire) \o daemon.sendQueue
  <2> DEFINE w == daemon.wire
             q == daemon.sendQueue
  <2>1. w \in Seq(OutboundFrame) /\ q \in Seq(OutboundFrame) /\ w # <<>>
    BY <1>1
  <2>2. s = w \o q /\ frame = Head(w)
    BY DEF Sent
  <2> HIDE DEF w, q, s, frame
  <2>3. w \o q \in Seq(OutboundFrame)
    BY ONLY <2>1, ConcatProperties
  <2>4. w \o q # <<>> /\ Head(w \o q) = Head(w) /\ Tail(w \o q) = Tail(w) \o q
    BY ONLY <2>1, HeadOfConcat
  <2>5. s \in Seq(OutboundFrame) /\ s # <<>> /\ Head(s) = frame /\ Tail(s) = Tail(w) \o q
    BY <2>2, <2>3, <2>4, Zenon
  <2> QED BY <2>5, Zenon DEF w, q
<1>3. /\ Alternating(s, heard) /\ NextIs(s, heard, daemon.txSeq)
      /\ daemon.txQueue \in Seq(Request \ {"handshake"})
      /\ ~daemon.expired => OneWaits(s, daemon.inbound, daemon.txPending)
  BY <1>1 DEF WireInv, LinkInOrder
<1>4. heard' = IF Head(s).kind = "ack" THEN heard ELSE Head(s).seq
  BY <1>2 DEF HeadsetReads
<1>5. Alternating(Tail(s), heard') /\ NextIs(Tail(s), heard', daemon.txSeq)
  BY <1>1, <1>2, <1>3, <1>4, TailInOrder
<1>6. /\ \A i \in Control(s) : i \in Nat /\ i >= 1
      /\ \A i \in Control(Tail(s)) : i \in Nat /\ i >= 1 /\ i + 1 \in Control(s)
      /\ 1 \in Control(s) <=> frame.kind # "ack"
  BY <1>2, TailFrame
<1>7. \/ daemon' = read
      \/ frame.kind # "ack" /\ daemon' = [read EXCEPT !.inbound = Append(@, ack)]
  BY DEF HeadsetReads
<1>8. /\ daemon'.wire = Tail(daemon.wire) /\ daemon'.sendQueue = daemon.sendQueue
      /\ daemon'.txQueue = daemon.txQueue /\ daemon'.txSeq = daemon.txSeq
      /\ daemon'.txPending = daemon.txPending /\ daemon'.expired = daemon.expired
      /\ \/ daemon'.inbound = daemon.inbound
         \/ frame.kind # "ack" /\ daemon'.inbound = Append(daemon.inbound, ack)
  BY <1>1, <1>7 DEF Daemon
<1>9. Sent(daemon') = Tail(s)
  BY <1>2, <1>8 DEF Sent
<1>10. frame.kind # "ack" => ack \in InboundFrame
  <2>1. frame \in OutboundFrame
    BY <1>1, HeadTailProperties
  <2> HIDE DEF frame
  <2>2. frame.kind # "ack" => 1 - frame.seq \in Bits
    BY <2>1, FrameBits DEF Bits
  <2> QED BY <2>2 DEF InboundFrame
<1> HIDE DEF s, frame, ack
<1>11. ASSUME ~daemon.expired
       PROVE  OneWaits(Tail(s), daemon'.inbound, daemon.txPending)
  <2>1. OneWaits(s, daemon.inbound, daemon.txPending)
    BY <1>3, <1>11
  <2>2. \A a, b \in Control(Tail(s)) : a \in Nat /\ b \in Nat /\ a + 1 = b + 1
    BY <1>6, <2>1 DEF OneWaits, AtMostOne
  <2>3. AtMostOne(Control(Tail(s))) /\ (Control(s) = {} => Control(Tail(s)) = {})
    BY <1>6, <2>2 DEF AtMostOne
  <2>4. CASE daemon'.inbound = daemon.inbound
    BY <2>1, <2>3, <2>4 DEF OneWaits
  <2>5. CASE frame.kind # "ack" /\ daemon'.inbound = Append(daemon.inbound, ack)
    <3>1. 1 \in Control(s)
      BY <1>6, <2>5
    <3>2. Acks(daemon.inbound) = {} /\ daemon.txPending
      BY <2>1, <3>1 DEF OneWaits
    <3>3. AtMostOne(Acks(daemon'.inbound))
      BY <1>1, <1>10, <2>5, <3>2, AppendInbound DEF ack
    <3>4. Control(Tail(s)) = {}
      <4> SUFFICES ASSUME NEW i \in Control(Tail(s))
                   PROVE  FALSE
        OBVIOUS
      <4>1. i \in Nat /\ i >= 1 /\ i + 1 \in Control(s)
        BY <1>6
      <4>2. i + 1 = 1
        BY <2>1, <3>1, <4>1 DEF OneWaits, AtMostOne
      <4> QED BY <4>1, <4>2
    <3> QED BY <3>2, <3>3, <3>4 DEF OneWaits, AtMostOne
  <2> QED BY <1>8, <2>4, <2>5
<1>12. LinkInOrder(daemon', heard')
  BY <1>3, <1>5, <1>8, <1>9, <1>11, InOrder
<1> QED BY <1>12 DEF WireInv

LEMMA Regroup ==
  ASSUME NEW w \in Seq(OutboundFrame), NEW a \in Seq(OutboundFrame),
         NEW b \in Seq(OutboundFrame)
  PROVE  (w \o a) \o b = w \o (a \o b)
  BY ConcatAssociative

\* handleConnectedWrite hands frames to the kernel and changes no order.
LEMMA WriteKeepsSent ==
  ASSUME NEW w \in Seq(OutboundFrame), NEW q \in Seq(OutboundFrame), NEW n \in 1 .. Len(q)
  PROVE  (w \o SubSeq(q, 1, n)) \o SubSeq(q, n + 1, Len(q)) = w \o q
<1> DEFINE a == SubSeq(q, 1, n)
           b == SubSeq(q, n + 1, Len(q))
<1>1. Len(q) \in Nat /\ \A i \in 1 .. Len(q) : q[i] \in OutboundFrame
  BY LenProperties
<1>2. a \in Seq(OutboundFrame) /\ b \in Seq(OutboundFrame)
  BY <1>1, SubSeqProperties
<1>3. a \o b = SubSeq(q, 1, Len(q))
  BY <1>1, ConcatAdjacentSubSeq
<1>4. SubSeq(q, 1, Len(q)) = q
  BY SubSeqFull
<1> HIDE DEF a, b
<1>5. (w \o a) \o b = w \o (a \o b)
  BY <1>2, Regroup
<1> QED BY <1>3, <1>4, <1>5 DEF a, b

-----------------------------------------------------------------------------
(* The invariant *)

\* A handler that starts without a link begins a new session, if any.
LEMMA NewSession ==
  ASSUME Down(daemon), NEW d, Becomes(d), LinkInOrder(d, NoBit)
  PROVE  WireInv'
<1>1. daemon' = d /\ heard' = NoBit
  BY DEF Becomes, Down
<1> QED BY <1>1 DEF WireInv

\* A handler that starts with a link keeps the session or ends it.
LEMMA SameSession ==
  ASSUME ~Down(daemon), NEW d, Becomes(d), LinkInOrder(d, heard)
  PROVE  WireInv'
<1>1. CASE Down(d)
  <2>1. LinkInOrder(daemon', heard')
    BY <1>1, InOrder DEF Becomes
  <2> QED BY <2>1 DEF WireInv
<1>2. CASE ~Down(d)
  <2>1. daemon' = d /\ heard' = heard
    BY <1>2 DEF Becomes, Down
  <2> QED BY <2>1 DEF WireInv
<1> QED BY <1>1, <1>2

LEMMA LosesSession ==
  ASSUME NEW d, Becomes(d), Down(d)
  PROVE  WireInv'
<1>1. LinkInOrder(daemon', heard')
  BY InOrder DEF Becomes
<1> QED BY <1>1 DEF WireInv

LEMMA WireStep ==
  ASSUME IInv, WireInv, [Next]_vars
  PROVE  WireInv'
<1>c. Coherent(daemon) /\ daemon \in Daemon /\ heard \in Bits \cup {NoBit}
  BY DEF IInv, Coherent, LinkCoherent, TypeOK
<1>w. LinkInOrder(daemon, heard)
  BY DEF WireInv
<1>1. CASE Boot
  <2>1. Down(daemon)
    BY <1>1 DEF Boot, IInv, Down
  <2>2. Coherent(NewProcess) /\ Down(NewProcess) /\ NewProcess.state = "DISCONNECTED"
    BY NewProcessCoherent DEF Down, NewProcess
  <2>3. PICK result \in AttemptResults, outcome \in {"sent", "short"} :
            Becomes(AttemptDiscovery(NewProcess, result, outcome))
    BY <1>1, <2>2 DEF Boot, Start
  <2> QED BY <2>1, <2>2, <2>3, AttemptDiscoveryInOrder, NewSession
<1>2. CASE Exit
  <2>1. Down(NewProcess)
    BY DEF Down, NewProcess
  <2> QED BY <1>2, <2>1, LosesSession DEF Exit
<1>d. CASE Die
  <2>1. Down([NewProcess EXCEPT !.connected = daemon.connected])
    BY <1>c, DeadCoherent DEF Down
  <2> QED BY <1>d, <2>1, LosesSession DEF Die
<1>3. CASE Retry
  <2>1. Down(daemon)
    BY <1>3 DEF Retry, Down
  <2>2. PICK result \in AttemptResults, outcome \in {"sent", "short"} :
            Becomes(AttemptDiscovery(daemon, result, outcome))
    BY <1>3 DEF Retry
  <2> QED BY <1>c, <2>1, <2>2, AttemptDiscoveryInOrder, NewSession
<1>4. CASE ConnectSucceeds
  <2>1. Down(daemon)
    BY <1>4 DEF ConnectSucceeds, Down
  <2>2. PICK outcome \in Outcomes : Becomes(BecomeConnected(daemon, outcome))
    BY <1>4 DEF ConnectSucceeds
  <2> QED BY <1>c, <2>1, <2>2, BecomeConnectedInOrder, NewSession
<1>5. CASE ConnectFails \/ Hangup
  <2>1. Down(ScheduleReconnect(daemon))
    BY <1>c, ScheduleReconnectCoherent DEF Down
  <2> QED BY <1>5, <2>1, LosesSession DEF ConnectFails, Hangup
<1>6. CASE ReadPart
  <2> DEFINE d == [daemon EXCEPT !.headRead = TRUE,
                                 !.framer = IF @ = "empty" THEN "partial" ELSE "merged"]
  <2>1. daemon.state = "CONNECTED" /\ Becomes(d)
    BY <1>6 DEF ReadPart
  <2>2. SameLink(daemon, d)
    BY <1>c, <2>1 DEF SameLink, Same, Up, Wired, Sent, Daemon
  <2> HIDE DEF d
  <2>3. LinkInOrder(d, heard)
    BY <1>w, <2>1, <2>2, SameLinkInOrder
  <2> QED BY <2>1, <2>3, SameSession DEF Down
<1>7. CASE ReadFrame
  <2>1. PICK outcome \in Outcomes : Becomes(OnDataReceived(daemon, outcome))
    BY <1>7 DEF ReadFrame
  <2>2. daemon.state = "CONNECTED" /\ daemon.inbound # <<>>
    BY <1>7 DEF ReadFrame
  <2>3. LinkInOrder(OnDataReceived(daemon, outcome), heard)
    BY <1>c, <1>w, <2>2, OnDataReceivedInOrder
  <2> QED BY <2>1, <2>2, <2>3, SameSession DEF Down
<1>8. CASE HandleConnectedWrite
  <2>1. daemon.state = "CONNECTED"
    BY <1>8 DEF HandleConnectedWrite
  <2>2. ASSUME NEW n \in 1 .. Len(daemon.sendQueue),
               Becomes([daemon EXCEPT !.wire = @ \o SubSeq(daemon.sendQueue, 1, n),
                                      !.sendQueue = SubSeq(@, n + 1, Len(@))])
        PROVE  WireInv'
    <3> DEFINE d == [daemon EXCEPT !.wire = @ \o SubSeq(daemon.sendQueue, 1, n),
                                   !.sendQueue = SubSeq(@, n + 1, Len(@))]
    <3>1. Sent(d) = Sent(daemon)
      <4>1. /\ d.wire = daemon.wire \o SubSeq(daemon.sendQueue, 1, n)
            /\ d.sendQueue = SubSeq(daemon.sendQueue, n + 1, Len(daemon.sendQueue))
        BY <1>c DEF Daemon
      <4>2. daemon.wire \in Seq(OutboundFrame) /\ daemon.sendQueue \in Seq(OutboundFrame)
        BY <1>c DEF Daemon
      <4>3. (daemon.wire \o SubSeq(daemon.sendQueue, 1, n))
                \o SubSeq(daemon.sendQueue, n + 1, Len(daemon.sendQueue))
            = daemon.wire \o daemon.sendQueue
        BY <4>2, WriteKeepsSent
      <4> QED BY <4>1, <4>3 DEF Sent
    <3>2. SameLink(daemon, d)
      BY <1>c, <2>1, <3>1 DEF SameLink, Same, Up, Wired, Daemon
    <3>3. Becomes(d)
      BY <2>2
    <3> HIDE DEF d
    <3>4. LinkInOrder(d, heard)
      BY <1>w, <2>1, <3>2, SameLinkInOrder
    <3> QED BY <2>1, <3>3, <3>4, SameSession DEF Down
  <2>3. CASE Becomes(ScheduleReconnect(daemon))
    BY <1>c, <2>3, ScheduleReconnectCoherent, LosesSession DEF Down
  <2> QED BY <1>8, <2>2, <2>3 DEF HandleConnectedWrite
<1>9. ASSUME NEW command \in Commands, IpcSet(command)
      PROVE  WireInv'
  <2>1. PICK outcome \in Outcomes : Becomes(EnqueueTx(daemon, command, outcome))
    BY <1>9 DEF IpcSet
  <2>2. command \in Request \ {"handshake"}
    BY SessionAssumption DEF Request, Opening
  <2>3. LinkInOrder(EnqueueTx(daemon, command, outcome), heard)
    BY <1>c, <1>w, <2>2, EnqueueTxInOrder
  <2>4. ~Down(daemon)
    BY <1>9 DEF IpcSet, Down
  <2> QED BY <2>1, <2>3, <2>4, SameSession
<1>10. CASE TxTimeout
  <2>1. PICK outcome \in Outcomes :
            Becomes([PumpTx(daemon, outcome) EXCEPT !.expired = TRUE])
    BY <1>10 DEF TxTimeout
  <2> DEFINE aged == [daemon EXCEPT !.expired = TRUE]
             e == PumpTx(daemon, outcome)
             d == [e EXCEPT !.expired = TRUE]
  <2>2. e \in Daemon
    BY <1>c, PumpTxCoherent DEF Coherent, LinkCoherent
  <2>3. CASE Down(e)
    <3>1. Down(d)
      BY <2>2, <2>3 DEF Down, Daemon
    <3> QED BY <2>1, <3>1, LosesSession
  <2>4. CASE ~Down(e)
    <3> DEFINE frame == [kind |-> Head(daemon.txQueue), seq |-> daemon.txSeq]
    <3>1. /\ ~Down(daemon) /\ daemon.txQueue # <<>>
          /\ Up(e, Tail(daemon.txQueue), 1 - daemon.txSeq, TRUE)
      BY <1>10, <1>c, <2>4, PumpTxView DEF TxTimeout, AckOverdue, Coherent
    <3>2. Sent(e) = Append(Sent(daemon), frame)
      BY <1>c, <2>4, <3>1, PumpTxWire DEF Coherent, Wired
    <3>3. /\ Alternating(Sent(daemon), heard) /\ NextIs(Sent(daemon), heard, daemon.txSeq)
          /\ daemon.txQueue \in Seq(Request \ {"handshake"})
      BY <1>w, <3>1 DEF LinkInOrder, Down
    <3>4. /\ Head(daemon.txQueue) \in Request \ {"handshake"}
          /\ Tail(daemon.txQueue) \in Seq(Request \ {"handshake"})
          /\ daemon.txSeq \in Bits
      BY <1>c, <3>1, <3>3, HeadTailProperties DEF Daemon
    <3>5. /\ frame \in OutboundFrame /\ frame.seq = daemon.txSeq
          /\ frame.kind \notin {"ack", "handshake"}
      BY <3>4, FrameTypes, RequestIsNoAck
    <3> HIDE DEF e
    <3>6. /\ Sent(d) = Sent(e) /\ d.txQueue = e.txQueue /\ d.txSeq = e.txSeq
          /\ d.expired = TRUE
      BY <2>2 DEF Daemon, Sent
    <3> HIDE DEF d, frame
    <3>7. Alternating(Sent(d), heard) /\ NextIs(Sent(d), heard, 1 - daemon.txSeq)
      BY <1>c, <3>2, <3>3, <3>4, <3>5, <3>6, SentType, AppendNext
    <3>8. d.txSeq = 1 - daemon.txSeq /\ d.txQueue = Tail(daemon.txQueue)
      BY <3>1, <3>6 DEF Up
    <3>9. LinkInOrder(d, heard)
      BY <3>4, <3>6, <3>7, <3>8, InOrder
    <3> QED BY <2>1, <3>1, <3>9, SameSession DEF d, e
  <2> QED BY <2>3, <2>4
<1>11. CASE SimulateDisconnect
  <2>1. Down(Disconnect([daemon EXCEPT !.connected = FALSE, !.simulated = TRUE]))
    BY <1>c DEF Disconnect, CloseTransport, Down, Daemon
  <2> QED BY <1>11, <2>1, LosesSession DEF SimulateDisconnect
<1>12. CASE SimulateReconnect
  <2> DEFINE d == [daemon EXCEPT !.connected = TRUE]
  <2>1. Coherent(d) /\ d.state = daemon.state
    BY <1>c DEF Coherent, LinkCoherent, InStep, Daemon
  <2>2. PICK result \in AttemptResults, outcome \in {"sent", "short"} :
            Becomes(Start(d, result, outcome))
    BY <1>12 DEF SimulateReconnect
  <2>3. CASE ~Down(daemon)
    <3>1. SameLink(daemon, d)
      BY <1>c, <2>3 DEF SameLink, Same, Up, Wired, Sent, Down, Daemon
    <3> HIDE DEF d
    <3>2. Becomes(d)
      BY <2>1, <2>2, <2>3 DEF Start, Down
    <3>3. LinkInOrder(d, heard)
      BY <1>w, <2>3, <3>1, SameLinkInOrder DEF Down
    <3> QED BY <2>3, <3>2, <3>3, SameSession
  <2>4. CASE Down(daemon)
    <3> HIDE DEF d
    <3>1. Start(d, result, outcome) \in {d, AttemptDiscovery(d, result, outcome)}
      BY DEF Start
    <3>2. LinkInOrder(Start(d, result, outcome), NoBit)
      BY <2>1, <2>4, <3>1, AttemptDiscoveryInOrder, InOrder DEF Down
    <3> QED BY <2>2, <2>4, <3>2, NewSession
  <2> QED BY <2>3, <2>4
<1>13. ASSUME NEW connected \in BOOLEAN, PretendConnected(connected)
       PROVE  WireInv'
  <2> DEFINE d == [daemon EXCEPT !.connected = connected]
  <2>1. Becomes(d)
    BY <1>13 DEF PretendConnected
  <2>2. CASE Down(daemon)
    <3>1. Down(d)
      BY <1>c, <2>2 DEF Down, Daemon
    <3> QED BY <2>1, <3>1, LosesSession
  <2>3. CASE ~Down(daemon)
    <3>1. SameLink(daemon, d)
      BY <1>c, <2>3 DEF SameLink, Same, Up, Wired, Sent, Down, Daemon
    <3> HIDE DEF d
    <3>2. LinkInOrder(d, heard)
      BY <1>w, <2>3, <3>1, SameLinkInOrder DEF Down
    <3> QED BY <2>1, <2>3, <3>2, SameSession
  <2> QED BY <2>2, <2>3
<1>14. CASE HeadsetReads
  BY <1>14, HeadsetReadsInOrder
<1>15. CASE HeadsetReports
  <2>1. PICK kind \in {"report", "other"} :
            daemon' = [daemon EXCEPT !.inbound = Append(@, [kind |-> kind, seq |-> 0])]
    BY <1>15 DEF HeadsetReports
  <2>2. heard' = heard
    BY <1>15 DEF HeadsetReports
  <2> DEFINE report == [kind |-> kind, seq |-> 0]
  <2>3. report \in InboundFrame /\ report.kind # "ack"
    BY DEF InboundFrame, Bits
  <2> HIDE DEF report
  <2>4. /\ daemon'.inbound = Append(daemon.inbound, report) /\ Sent(daemon') = Sent(daemon)
        /\ daemon'.state = daemon.state /\ daemon'.txQueue = daemon.txQueue
        /\ daemon'.txSeq = daemon.txSeq /\ daemon'.txPending = daemon.txPending
        /\ daemon'.expired = daemon.expired
    BY <1>c, <2>1 DEF Daemon, Sent, report
  <2>5. Acks(daemon'.inbound) = Acks(daemon.inbound)
    BY <1>c, <2>3, <2>4, AppendInbound DEF Daemon
  <2>6. LinkInOrder(daemon', heard')
    BY <1>w, <2>2, <2>4, <2>5 DEF LinkInOrder, OneWaits
  <2> QED BY <2>6 DEF WireInv
<1>16. CASE HeadsetLeaves \/ HeadsetReturns \/ UNCHANGED vars
  <2>1. daemon' = daemon /\ heard' = heard
    BY <1>16 DEF HeadsetLeaves, HeadsetReturns, vars
  <2> QED BY <1>w, <2>1 DEF WireInv
<1> QED BY <1>1, <1>2, <1>d, <1>3, <1>4, <1>5, <1>6, <1>7, <1>8, <1>9, <1>10, <1>11, <1>12,
           <1>13, <1>14, <1>15, <1>16 DEF Next

THEOREM WireInvariance == Spec => []WireInv
<1>1. Init => WireInv
  BY DEF Init, NewProcess, WireInv, LinkInOrder
<1>2. IInv /\ WireInv /\ [Next]_vars => WireInv'
  BY WireStep
<1> QED BY <1>1, <1>2, Invariance, PTL DEF Spec

\* For any commands, hooks and bounds, the headset reads control frames that
\* begin with the handshake and alternate their bit without a gap, across
\* short writes, timeouts and reconnections (main.cpp:228-229).
THEOREM FramesInSequence == Spec => []InSequence
<1>1. IInv /\ WireInv => InSequence
  <2> SUFFICES ASSUME IInv, WireInv
               PROVE  InSequence
    OBVIOUS
  <2>1. CASE daemon.state = "CONNECTED"
    BY <2>1 DEF WireInv, LinkInOrder, Alternating, Follows, Sent, InSequence
  <2>2. CASE daemon.state # "CONNECTED"
    <3>1. daemon.wire = <<>> /\ daemon.sendQueue = <<>>
      BY <2>2 DEF IInv, Coherent, LinkCoherent
    <3>2. daemon.wire \o daemon.sendQueue = <<>>
      BY <3>1, ConcatEmptySeq, EmptySequence
    <3>3. Control(<<>>) = {}
      BY DEF Control
    <3> QED BY <3>2, <3>3 DEF InSequence
  <2> QED BY <2>1, <2>2
<1> QED BY <1>1, Invariance, WireInvariance, PTL

\* For any commands, hooks and bounds, at most one control frame of a session
\* is unacknowledged until the acknowledgement timer fires, and none while the
\* queue believes itself idle (main.cpp:222-226).
THEOREM OneFrameAtATime == Spec => []OneAtATime
<1>1. IInv /\ WireInv => OneAtATime
  <2> SUFFICES ASSUME IInv, WireInv, daemon.state = "CONNECTED", ~daemon.expired
               PROVE  Outstanding <= IF daemon.txPending THEN 1 ELSE 0
    BY DEF OneAtATime
  <2> DEFINE controls == Control(daemon.wire \o daemon.sendQueue)
             acks == {i \in 1 .. Len(daemon.inbound) : daemon.inbound[i].kind = "ack"}
  <2>1. /\ AtMostOne(controls) /\ AtMostOne(acks)
        /\ controls = {} \/ acks = {}
        /\ ~daemon.txPending => controls = {} /\ acks = {}
    BY DEF WireInv, LinkInOrder, OneWaits, Sent, Acks
  <2>2. Outstanding = Cardinality(controls) + Cardinality(acks)
    BY DEF Outstanding
  <2> HIDE DEF controls, acks
  <2>3. ASSUME NEW S, AtMostOne(S)
        PROVE  Cardinality(S) = IF S = {} THEN 0 ELSE 1
    <3>1. CASE S = {}
      BY <3>1, FS_EmptySet
    <3>2. CASE S # {}
      <4>1. PICK x \in S : TRUE
        BY <3>2
      <4>2. S = {x}
        BY <2>3, <4>1 DEF AtMostOne
      <4> QED BY <3>2, <4>2, FS_Singleton
    <3> QED BY <3>1, <3>2
  <2> QED BY <2>1, <2>2, <2>3
<1> QED BY <1>1, Invariance, WireInvariance, PTL
=============================================================================
