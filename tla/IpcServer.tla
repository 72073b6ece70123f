----------------------------- MODULE IpcServer -----------------------------
(***************************************************************************)
(* The daemon's command socket: clients that send lines in arbitrary       *)
(* pieces, half-close or vanish, and the server's share of the poll loop.  *)
(*                                                                         *)
(* poll() takes a snapshot of the ready sockets, which are then served one *)
(* after the other while the clients go on; handleClientRead takes as many *)
(* recv() calls as it needs, and a client can act between any two.  A line *)
(* is a number of pieces, the last of which is its newline.                *)
(***************************************************************************)
EXTENDS Naturals, Sequences, FiniteSets, SequencesExt, FiniteSetsExt

CONSTANTS
    Clients,
    Script,       \* client -> the lengths of the lines it sends
    Steady,       \* clients that neither half-close nor close on their own
    MaxLine,      \* maxLineLength_
    ReadSize,     \* the buffer of one recv
    AnswerSize,   \* pieces of an answer
    Window,       \* pieces that the kernel holds on their way to a client
    None

ASSUME IpcAssumption ==
    /\ Script \in [Clients -> Seq(Nat \ {0})]
    /\ Steady \subseteq Clients
    /\ {MaxLine, ReadSize, AnswerSize, Window} \subseteq Nat \ {0}
    /\ ReadSize <= MaxLine
    /\ None \notin Clients /\ "stopped" \notin Clients \cup {None}

VARIABLES
    client,     \* client -> its end: phase, pieces sent, half-closed, closed
    toServer,   \* client -> pieces in the kernel, not yet read
    toClient,   \* client -> pieces of answers in the kernel
    got,        \* client -> pieces of answers it has read
    session,    \* client -> the server's ClientSession
    revents,    \* client -> events of poll() that are still to be served
    listening,  \* the listening socket is among them
    reading     \* the client inside handleClientRead's loop, None, or "stopped"

vars == <<client, toServer, toClient, got, session, revents, listening, reading>>

\* The k-th piece of a client's n-th line.
Piece(c) == UNION {{n} \X (1 .. Script[c][n]) : n \in 1 .. Len(Script[c])}

LinePieces(c, n) == [k \in 1 .. Script[c][n] |-> <<n, k>>]

\* All that a client has to send.
Stream == [c \in Clients |-> FlattenSeq([n \in 1 .. Len(Script[c]) |-> LinePieces(c, n)])]

IsNewline(c, piece) == piece[2] = Script[c][piece[1]]

\* The answer to a client's n-th line; line 0 is "ERR line too long".
Answer(n) == [k \in 1 .. AnswerSize |-> <<n, k>>]

AnswerPiece(c) == (0 .. Len(Script[c])) \X (1 .. AnswerSize)

Fresh == [state |-> "none", inBuffer |-> <<>>, outBuffer |-> <<>>,
          executed |-> <<>>, refused |-> FALSE]

TypeOK ==
    /\ client \in [Clients -> [phase : {"away", "waiting", "accepted"}, sent : Nat,
                               shut : BOOLEAN, closed : BOOLEAN]]
    /\ \A c \in Clients :
        /\ toServer[c] \in Seq(Piece(c))
        /\ toClient[c] \in Seq(AnswerPiece(c)) /\ Len(toClient[c]) <= Window
        /\ got[c] \in Seq(AnswerPiece(c))
        /\ session[c].state \in {"none", "open", "ended"}
        /\ session[c].inBuffer \in Seq(Piece(c)) /\ Len(session[c].inBuffer) <= MaxLine
        /\ session[c].outBuffer \in Seq(AnswerPiece(c))
        /\ session[c].executed \in Seq(1 .. Len(Script[c]))
    /\ revents \in [Clients -> SUBSET {"POLLIN", "POLLOUT", "POLLHUP"}]
    /\ listening \in BOOLEAN
    /\ reading \in Clients \cup {None, "stopped"}

Init ==
    /\ client = [c \in Clients |->
           [phase |-> "away", sent |-> 0, shut |-> FALSE, closed |-> FALSE]]
    /\ toServer = [c \in Clients |-> <<>>]
    /\ toClient = [c \in Clients |-> <<>>]
    /\ got = [c \in Clients |-> <<>>]
    /\ session = [c \in Clients |-> Fresh]
    /\ revents = [c \in Clients |-> {}]
    /\ listening = FALSE
    /\ reading = None

-----------------------------------------------------------------------------
(* The clients *)

server == <<session, revents, listening, reading>>

Connect(c) ==
    /\ client[c].phase = "away" /\ reading # "stopped"
    /\ client' = [client EXCEPT ![c].phase = "waiting"]
    /\ UNCHANGED <<toServer, toClient, got, server>>

Writable(c) ==
    /\ client[c].phase # "away" /\ ~client[c].shut /\ ~client[c].closed
    /\ session[c].state # "ended"

\* A write of any length: it may end inside a line or span several.
Send(c) ==
    /\ Writable(c)
    /\ \E n \in client[c].sent + 1 .. Len(Stream[c]) :
        /\ toServer' = [toServer EXCEPT ![c] =
                            @ \o SubSeq(Stream[c], client[c].sent + 1, n)]
        /\ client' = [client EXCEPT ![c].sent = n]
    /\ UNCHANGED <<toClient, got, server>>

Receive(c) ==
    /\ ~client[c].closed /\ toClient[c] # <<>>
    /\ got' = [got EXCEPT ![c] = @ \o toClient[c]]
    /\ toClient' = [toClient EXCEPT ![c] = <<>>]
    /\ UNCHANGED <<client, toServer, server>>

\* shutdown(SHUT_WR): the client goes on to read.
HalfClose(c) ==
    /\ Writable(c) /\ c \notin Steady
    /\ client' = [client EXCEPT ![c].shut = TRUE]
    /\ UNCHANGED <<toServer, toClient, got, server>>

\* What the client has not read is gone; what it sent stays readable.
Vanish(c) ==
    /\ client[c].phase # "away" /\ ~client[c].closed /\ c \notin Steady
    /\ client' = [client EXCEPT ![c].closed = TRUE]
    /\ toClient' = [toClient EXCEPT ![c] = <<>>]
    /\ UNCHANGED <<toServer, got, server>>

-----------------------------------------------------------------------------
(* The server's operators on one session and the kernel's buffer behind it *)

\* close(): what was in inBuffer and outBuffer is lost with the session.
Closed(s) == [s EXCEPT !.state = "ended", !.inBuffer = <<>>, !.outBuffer = <<>>]

Room(c) == Window - Len(toClient[c])

\* Fault: the kernel's limit is ignored.
SendableAll(c, out) == out

\* flushClientOutBuffer: send until the buffer is empty or the kernel's is full.
Sendable(c, out) == SubSeq(out, 1, Min({Room(c), Len(out)}))
Unsent(c, out) == SubSeq(out, Min({Room(c), Len(out)}) + 1, Len(out))

\* The lines that are complete in a buffer, and what follows the last of them.
LinesIn(c, buffer) ==
    LET taken[i \in 0 .. Len(buffer)] ==
            IF i = 0 THEN <<>>
            ELSE IF IsNewline(c, buffer[i]) THEN Append(taken[i - 1], buffer[i][1])
            ELSE taken[i - 1]
    IN  taken[Len(buffer)]

\* Fault: the newline of the last line stays.
RestWithNewline(c, buffer) ==
    LET ends == {i \in 1 .. Len(buffer) : IsNewline(c, buffer[i])}
    IN  IF ends = {} THEN buffer ELSE SubSeq(buffer, Max(ends), Len(buffer))

Rest(c, buffer) ==
    LET ends == {i \in 1 .. Len(buffer) : IsNewline(c, buffer[i])}
    IN  IF ends = {} THEN buffer ELSE SubSeq(buffer, Max(ends) + 1, Len(buffer))

AnswersTo(lines) == FlattenSeq([i \in 1 .. Len(lines) |-> Answer(lines[i])])

\* Fault: the limit is only compared with what is left after the last line.
TooLongAfterLines(c, buffer) == Len(Rest(c, buffer)) > MaxLine

\* The limit is compared with the whole buffer before lines are taken out.
TooLong(c, buffer) == Len(buffer) > MaxLine

-----------------------------------------------------------------------------
(* The poll loop *)

\* Fault: room to write is never asked for.
EventsWithoutOut(c) ==
    IF session[c].state # "open" THEN {}
    ELSE {e \in {"POLLIN", "POLLHUP"} :
          \/ e = "POLLIN" /\ (toServer[c] # <<>> \/ client[c].shut \/ client[c].closed)
          \/ e = "POLLHUP" /\ client[c].closed}

\* Fault: a half-closed connection counts as a hangup.
EventsWithRdHup(c) ==
    IF session[c].state # "open" THEN {}
    ELSE {e \in {"POLLIN", "POLLOUT", "POLLHUP"} :
          \/ e = "POLLIN" /\ (toServer[c] # <<>> \/ client[c].shut \/ client[c].closed)
          \/ e = "POLLOUT" /\ session[c].outBuffer # <<>> /\ Room(c) > 0
          \/ e = "POLLHUP" /\ (client[c].closed \/ client[c].shut)}

\* What appendPollFds asks for and poll() reports of a session.
Events(c) ==
    IF session[c].state # "open" THEN {}
    ELSE {e \in {"POLLIN", "POLLOUT", "POLLHUP"} :
          \/ e = "POLLIN" /\ (toServer[c] # <<>> \/ client[c].shut \/ client[c].closed)
          \/ e = "POLLOUT" /\ session[c].outBuffer # <<>> /\ Room(c) > 0
          \/ e = "POLLHUP" /\ client[c].closed}

Waiting == {c \in Clients : client[c].phase = "waiting"}

Poll ==
    /\ reading = None /\ ~listening /\ \A c \in Clients : revents[c] = {}
    /\ \/ Waiting # {}
       \/ \E c \in Clients : Events(c) # {}
    /\ listening' = (Waiting # {})
    /\ revents' = [c \in Clients |-> Events(c)]
    /\ UNCHANGED <<client, toServer, toClient, got, session, reading>>

\* The listening socket comes first, and accepts until nobody waits.
AcceptClients ==
    /\ listening
    /\ listening' = FALSE
    /\ client' = [c \in Clients |->
           IF c \in Waiting THEN [client[c] EXCEPT !.phase = "accepted"] ELSE client[c]]
    /\ session' = [c \in Clients |->
           IF c \in Waiting THEN [Fresh EXCEPT !.state = "open"] ELSE session[c]]
    /\ UNCHANGED <<toServer, toClient, got, revents, reading>>

Serving(c) == ~listening /\ reading = None /\ revents[c] # {}

\* Error and hangup close before anything is read.
ServeHangup(c) ==
    /\ Serving(c) /\ "POLLHUP" \in revents[c]
    /\ session' = [session EXCEPT ![c] = Closed(@)]
    /\ revents' = [revents EXCEPT ![c] = {}]
    /\ UNCHANGED <<client, toServer, toClient, got, listening, reading>>

\* POLLOUT first; the session survives it only if the peer is there.
ServeReady(c) ==
    /\ Serving(c) /\ "POLLHUP" \notin revents[c]
    /\ LET broken == "POLLOUT" \in revents[c] /\ client[c].closed
           out == IF "POLLOUT" \in revents[c] /\ ~broken THEN session[c].outBuffer ELSE <<>>
       IN  /\ session' = [session EXCEPT ![c] =
                  IF broken THEN Closed(@)
                  ELSE IF "POLLOUT" \in revents[c]
                  THEN [@ EXCEPT !.outBuffer = Unsent(c, session[c].outBuffer)] ELSE @]
           /\ toClient' = [toClient EXCEPT ![c] = @ \o Sendable(c, out)]
           /\ reading' = IF "POLLIN" \in revents[c] /\ ~broken THEN c ELSE None
    /\ revents' = [revents EXCEPT ![c] = {}]
    /\ UNCHANGED <<client, toServer, got, listening>>

-----------------------------------------------------------------------------
(* handleClientRead: one recv and what follows from it *)

\* The bytes of the next recv, and the buffer with them.
Chunk(c) == SubSeq(toServer[c], 1, Min({ReadSize, Len(toServer[c])}))
Filled(c) == session[c].inBuffer \o Chunk(c)
Remaining(c) == SubSeq(toServer[c], Len(Chunk(c)) + 1, Len(toServer[c]))

\* Too long: "ERR line too long", the rest of the input is drained, close.
Refuse(c) ==
    /\ reading = c /\ toServer[c] # <<>> /\ TooLong(c, Filled(c))
    /\ session' = [session EXCEPT ![c] = [Closed(@) EXCEPT !.refused = TRUE]]
    /\ toClient' = IF client[c].closed THEN toClient
                   ELSE [toClient EXCEPT ![c] =
                            @ \o Sendable(c, session[c].outBuffer \o Answer(0))]
    /\ toServer' = [toServer EXCEPT ![c] = <<>>]
    /\ reading' = None
    /\ UNCHANGED <<client, got, revents, listening>>

\* Every complete line is executed and answered; an answer that cannot be sent
\* because the client is gone closes, and the lines after it stay unexecuted.
Execute(c) ==
    /\ reading = c /\ toServer[c] # <<>> /\ ~TooLong(c, Filled(c))
    /\ LET lines == LinesIn(c, Filled(c))
           done == session[c].executed
           waiting == session[c].outBuffer
           out == waiting \o AnswersTo(lines)
       IN  IF client[c].closed /\ lines # <<>>
           THEN /\ session' = [session EXCEPT ![c] =
                       [Closed(@) EXCEPT !.executed = Append(done, Head(lines))]]
                /\ reading' = None
                /\ UNCHANGED toClient
           ELSE /\ session' = [session EXCEPT ![c] =
                       [@ EXCEPT !.inBuffer = Rest(c, Filled(c)),
                                 !.outBuffer = IF lines = <<>> THEN waiting ELSE Unsent(c, out),
                                 !.executed = done \o lines]]
                /\ toClient' = IF lines = <<>> THEN toClient
                               ELSE [toClient EXCEPT ![c] = @ \o Sendable(c, out)]
                /\ reading' = c
    /\ toServer' = [toServer EXCEPT ![c] = Remaining(c)]
    /\ UNCHANGED <<client, got, revents, listening>>

\* recv returns 0 at the end of the stream, EAGAIN before it.
ReadEnds(c) ==
    /\ reading = c /\ toServer[c] = <<>>
    /\ session' = IF client[c].shut \/ client[c].closed
                  THEN [session EXCEPT ![c] = Closed(@)] ELSE session
    /\ reading' = None
    /\ UNCHANGED <<client, toServer, toClient, got, revents, listening>>

\* The daemon ends between two events: stop() closes every session.
Stop ==
    /\ reading = None
    /\ reading' = "stopped"
    /\ session' = [c \in Clients |->
           IF client[c].phase = "away" THEN session[c] ELSE Closed(session[c])]
    /\ revents' = [c \in Clients |-> {}]
    /\ listening' = FALSE
    /\ UNCHANGED <<client, toServer, toClient, got>>

-----------------------------------------------------------------------------
Served(c) == ServeHangup(c) \/ ServeReady(c) \/ Refuse(c) \/ Execute(c) \/ ReadEnds(c)

Next ==
    \/ \E c \in Clients :
           \/ Connect(c) \/ Send(c) \/ Receive(c) \/ HalfClose(c) \/ Vanish(c)
           \/ Served(c)
    \/ Poll \/ AcceptClients \/ Stop

Spec == Init /\ [][Next]_vars

\* The loop serves what poll reported; steady clients connect, send their lines
\* and read their answers.
FairSpec ==
    /\ Spec
    /\ WF_vars(Poll) /\ WF_vars(AcceptClients)
    /\ \A c \in Clients : WF_vars(Served(c))
    /\ \A c \in Steady : WF_vars(Connect(c)) /\ WF_vars(Send(c)) /\ WF_vars(Receive(c))

-----------------------------------------------------------------------------
(* Properties *)

Lines(c) == 1 .. Len(Script[c])

\* A line longer than the limit is never executed, and only a client with a line
\* that one recv can push over the limit is refused: pipelining short commands
\* is safe, however recv cuts them (IpcServer.cpp:262-286; IpcServer.hpp:103).
LineLimit ==
    \A c \in Clients :
        /\ \A i \in 1 .. Len(session[c].executed) :
               Script[c][session[c].executed[i]] <= MaxLine
        /\ session[c].refused =>
               \E n \in Lines(c) : Script[c][n] > MaxLine - ReadSize + 1

Short(c) == \A n \in Lines(c) : Script[c][n] <= MaxLine - ReadSize + 1

Promise == INSTANCE LineServer WITH
    Count <- [c \in Clients |-> Len(Script[c])],
    said <- [c \in Clients |->
                Cardinality({i \in 1 .. client[c].sent : IsNewline(c, Stream[c][i])})],
    executed <- [c \in Clients |-> session[c].executed],
    heard <- got,
    over <- [c \in Clients |-> session[c].state = "ended"]

AllAnswers ==
    [c \in Clients |-> FlattenSeq([n \in 1 .. Len(Script[c]) |-> Answer(n)])]

\* Lines are executed once and in order, answers arrive whole and in order, for
\* each client apart (IpcServer.cpp:254-408).
KeepsPromise == Promise!Spec

\* A client that stays gets the answer to every short line, however slowly it
\* reads and whatever the other clients do (IpcServer.cpp:288-318, 330-342).
Answered ==
    \A c \in Steady : Short(c) =>
        <>(got[c] = AllAnswers[c] \/ reading = "stopped")

\* Half-closing does not lose commands: all lines sent before are executed,
\* unless one was too long or the client vanishes as well
\* (IpcServer.cpp:262-286, 344-372).
HalfClosedExecuted ==
    \A c \in Clients :
        (client[c].shut ~>
            \/ \A i \in 1 .. client[c].sent :
                   IsNewline(c, Stream[c][i]) =>
                       \E j \in 1 .. Len(session[c].executed) :
                           session[c].executed[j] = Stream[c][i][1]
            \/ session[c].refused \/ client[c].closed \/ reading = "stopped")
=============================================================================
