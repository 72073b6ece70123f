-------------------------------- MODULE Ctl --------------------------------
(***************************************************************************)
(* Runs of sony-ctl, and of other programs that write to the socket,       *)
(* against a daemon that may be away, slow, blocked or replaced.           *)
(*                                                                         *)
(* sony-ctl sends one line and waits up to 2 s for one line of answer; the *)
(* daemon accepts, polls and serves in its own time, so a run can give up  *)
(* at any point before its line is read, or after.  What a command is      *)
(* meant to do comes with the command (Usage), not from either program.    *)
(***************************************************************************)
EXTENDS Commands, FiniteSets

CONSTANTS
    Runs,       \* runs of a program, each at most once
    Usage,      \* command lines: [args, means]
    RawLines,   \* lines other programs may send
    Backlog     \* connections that wait to be accepted before connect() blocks

ASSUME CtlAssumption == Backlog \in Nat \ {0} /\ IsFiniteSet(Runs)

VARIABLES
    run,        \* run -> what the process knows
    conn,       \* run -> its connection on the daemon's side
    unread,     \* run -> its line is in the kernel, not yet read
    reply,      \* run -> the answer in the kernel, "" if none
    serving,    \* the daemon's socket is listening
    revents,    \* run -> the event of poll() that is still to be served, or ""
    executed    \* history: the calls made, [run, call], in their order

vars == <<run, conn, unread, reply, serving, revents, executed>>
daemon == <<conn, serving, revents, executed>>

\* What the usage text promises is what the daemon makes of the line that is sent.
UsageUnderstood ==
    \A u \in Usage :
        LET does == CommandLine(u.args)
        IN  u.means = IF does.exit = -1 /\ does.socket = ""
                      THEN HandleBuiltinCommand(does.line).call ELSE Nothing

Unused == [phase |-> "ready", raw |-> FALSE, means |-> Nothing, line |-> <<>>,
           status |-> FALSE, exit |-> -1, refused |-> FALSE, earlier |-> {}]

TypeOK ==
    /\ \A r \in Runs :
        /\ run[r].phase \in {"ready", "connecting", "sending", "waiting", "ended"}
        /\ run[r].exit \in {-1, 0, 1, 2}
        /\ run[r].exit # -1 <=> run[r].phase = "ended"
        /\ reply[r] # "" => conn[r] \in {"open", "lost"} \/ run[r].phase = "ended"
    /\ conn \in [Runs -> {"none", "backlog", "open", "lost"}]
    /\ unread \in [Runs -> BOOLEAN]
    /\ reply \in [Runs -> {"", "OK", "ERR", "JSON"}]
    /\ serving \in BOOLEAN
    /\ revents \in [Runs -> {"", "POLLIN", "POLLHUP"}]
    /\ executed \in Seq([run : Runs, call : {e.call : e \in ToSet(executed)}])
    /\ Len(executed) <= Cardinality(Runs)

Init ==
    /\ run = [r \in Runs |-> Unused]
    /\ conn = [r \in Runs |-> "none"]
    /\ unread = [r \in Runs |-> FALSE]
    /\ reply = [r \in Runs |-> ""]
    /\ serving = FALSE
    /\ revents = [r \in Runs |-> ""]
    /\ executed = <<>>

-----------------------------------------------------------------------------
(* sony-ctl *)

\* The process ends; the kernel closes its end of the connection.
EndsWith(r, code) ==
    run' = [run EXCEPT ![r].phase = "ended", ![r].exit = code,
                       ![r].refused = reply[r] = "ERR"]

Ended == {r \in Runs : run[r].phase = "ended"}

\* A process that has something to send, or that ends at once.
Launched(raw, means, line, status, exit) ==
    [phase |-> IF exit = -1 THEN "connecting" ELSE "ended", raw |-> raw, means |-> means,
     line |-> line, status |-> status, exit |-> exit, refused |-> FALSE, earlier |-> Ended]

Run(r) ==
    /\ run[r].phase = "ready"
    /\ \E u \in Usage :
        LET does == CommandLine(u.args)
        IN  run' = [run EXCEPT ![r] =
                \* Nobody listens on the path that option -s names.
                IF does.exit = -1 /\ does.socket # "" THEN Launched(FALSE, u.means, <<>>, FALSE, 2)
                ELSE Launched(FALSE, u.means, does.line, does.status, does.exit)]
    /\ UNCHANGED <<unread, reply, daemon>>

\* Another program that sends a line and behaves like sony-ctl otherwise.
RunOther(r) ==
    /\ run[r].phase = "ready"
    /\ \E line \in RawLines :
        run' = [run EXCEPT ![r] = Launched(TRUE, Nothing, line, FALSE, -1)]
    /\ UNCHANGED <<unread, reply, daemon>>

Waiting == {r \in Runs : conn[r] = "backlog"}

Connect(r) ==
    /\ run[r].phase = "connecting" /\ serving /\ Cardinality(Waiting) < Backlog
    /\ conn' = [conn EXCEPT ![r] = "backlog"]
    /\ run' = [run EXCEPT ![r].phase = "sending"]
    /\ UNCHANGED <<unread, reply, serving, revents, executed>>

\* Refused, or no room for 2 s.
ConnectFails(r) ==
    /\ run[r].phase = "connecting" /\ (~serving \/ Cardinality(Waiting) >= Backlog)
    /\ EndsWith(r, 2)
    /\ UNCHANGED <<unread, reply, daemon>>

\* The line fits the kernel's buffer.
Send(r) ==
    /\ run[r].phase = "sending"
    /\ IF conn[r] = "lost"
       THEN EndsWith(r, 1) /\ UNCHANGED unread
       ELSE /\ unread' = [unread EXCEPT ![r] = TRUE]
            /\ run' = [run EXCEPT ![r].phase = "waiting"]
    /\ UNCHANGED <<reply, daemon>>

\* Fault: only an ERR is a failure, so that an empty response is none.
ExitCodeUnlessErr(status, response) == IF response = "ERR" THEN 1 ELSE 0

\* The end of send_command; the response is empty at the end of the stream.
ExitCode(status, response) ==
    IF response = "OK" \/ (status /\ response \notin {"", "ERR"}) THEN 0 ELSE 1

Receive(r) ==
    /\ run[r].phase = "waiting" /\ (reply[r] # "" \/ conn[r] = "lost")
    /\ EndsWith(r, ExitCode(run[r].status, reply[r]))
    /\ UNCHANGED <<unread, reply, daemon>>

\* Fault: the receive timeout is not set.
TimeOutNever(r) == FALSE /\ UNCHANGED vars

\* recv fails with EAGAIN after 2 s, however far the daemon has come.
TimeOut(r) ==
    /\ run[r].phase = "waiting" /\ reply[r] = "" /\ conn[r] # "lost"
    /\ EndsWith(r, 1)
    /\ UNCHANGED <<unread, reply, daemon>>

-----------------------------------------------------------------------------
(* The daemon *)

Start ==
    /\ ~serving
    /\ serving' = TRUE
    /\ UNCHANGED <<run, conn, unread, reply, revents, executed>>

\* The end of the daemon, orderly or not; answers already sent stay readable.
End ==
    /\ serving
    /\ serving' = FALSE
    /\ conn' = [r \in Runs |-> IF conn[r] = "none" THEN "none" ELSE "lost"]
    /\ unread' = [r \in Runs |-> FALSE]
    /\ revents' = [r \in Runs |-> ""]
    /\ UNCHANGED <<run, reply, executed>>

Accept(r) ==
    /\ conn[r] = "backlog"
    /\ conn' = [conn EXCEPT ![r] = "open"]
    /\ UNCHANGED <<run, unread, reply, serving, revents, executed>>

\* Fault: input is looked for before the hangup.
EventInputFirst(r) ==
    IF conn[r] # "open" THEN ""
    ELSE IF unread[r] THEN "POLLIN"
    ELSE IF run[r].phase = "ended" THEN "POLLHUP" ELSE ""

\* What poll() reports that decides how a connection is served: a hangup wins.
Event(r) ==
    IF conn[r] # "open" THEN ""
    ELSE IF run[r].phase = "ended" THEN "POLLHUP"
    ELSE IF unread[r] THEN "POLLIN" ELSE ""

\* The next poll() comes when the events of the last one are served.
Poll ==
    /\ \A r \in Runs : revents[r] = ""
    /\ \E r \in Runs : Event(r) # ""
    /\ revents' = [r \in Runs |-> Event(r)]
    /\ UNCHANGED <<run, conn, unread, reply, serving, executed>>

ServeHangup(r) ==
    /\ revents[r] = "POLLHUP"
    /\ conn' = [conn EXCEPT ![r] = "lost"]
    /\ unread' = [unread EXCEPT ![r] = FALSE]
    /\ revents' = [revents EXCEPT ![r] = ""]
    /\ UNCHANGED <<run, reply, serving, executed>>

\* Fault: the line stays in the buffer after it was executed.
ServeLineTwice(r) ==
    /\ revents[r] = "POLLIN"
    /\ LET answer == HandleBuiltinCommand(run[r].line)
       IN  /\ executed' = IF answer.call = Nothing THEN executed
                          ELSE Append(executed, [run |-> r, call |-> answer.call])
           /\ reply' = [reply EXCEPT ![r] = answer.reply]
    /\ revents' = [revents EXCEPT ![r] = ""]
    /\ UNCHANGED <<run, conn, unread, serving>>

\* The line is executed although its sender may have gone since the poll.
ServeLine(r) ==
    /\ revents[r] = "POLLIN"
    /\ LET answer == HandleBuiltinCommand(run[r].line)
       IN  /\ executed' = IF answer.call = Nothing THEN executed
                          ELSE Append(executed, [run |-> r, call |-> answer.call])
           /\ IF run[r].phase = "ended"
              THEN conn' = [conn EXCEPT ![r] = "lost"] /\ UNCHANGED reply
              ELSE reply' = [reply EXCEPT ![r] = answer.reply] /\ UNCHANGED conn
    /\ unread' = [unread EXCEPT ![r] = FALSE]
    /\ revents' = [revents EXCEPT ![r] = ""]
    /\ UNCHANGED <<run, serving>>

-----------------------------------------------------------------------------
Process(r) == Connect(r) \/ ConnectFails(r) \/ Send(r) \/ Receive(r) \/ TimeOut(r)

Next ==
    \/ \E r \in Runs : Run(r) \/ RunOther(r) \/ Process(r)
    \/ \E r \in Runs : Accept(r) \/ ServeHangup(r) \/ ServeLine(r)
    \/ Start \/ End \/ Poll

Spec == Init /\ [][Next]_vars

\* A started run goes on, by its timeouts if need be; of the daemon, which may
\* block for as long as it likes, nothing is assumed.
FairSpec == Spec /\ \A r \in Runs : WF_vars(Process(r))

-----------------------------------------------------------------------------
(* Properties *)

\* Where a run's calls are in the history.
CallsOf(r) == {i \in 1 .. Len(executed) : executed[i].run = r}

\* A run of sony-ctl has done nothing, or once what its arguments mean; exit code 0
\* promises that it was done, 2 that it was not and never will be
\* (cli/src/main.cpp:93-97, 153-173).
ExitCodes ==
    \A r \in Runs :
        LET meant == run[r].means
        IN  ~run[r].raw =>
                /\ \A i \in CallsOf(r) : CallsOf(r) = {i} /\ executed[i].call = meant
                /\ run[r].exit = 0 /\ meant # Nothing => CallsOf(r) # {}
                /\ run[r].exit = 2 => CallsOf(r) = {} /\ ~unread[r]

\* What sony-ctl lets through the daemon does not refuse: the two programs check
\* the same things (cli/src/main.cpp:231-360, IpcServer.cpp:447-635).
Agreement == \A r \in Runs : ~run[r].raw => ~run[r].refused

\* What the values of a call may be; battery levels are not checked at all.
Limits(call) ==
    CASE call.name = "setAmbientLevel" -> 0 .. 20
      [] call.name = "setCustomEq" -> -10 .. 10
      [] call.name = "setUltMode" -> 0 .. 2
      [] OTHER -> {call.values[k] : k \in DOMAIN call.values}

WithinLimits(call) == \A k \in DOMAIN call.values : call.values[k] \in Limits(call)

\* Whoever writes to the socket, a setter is only called with a value in its range,
\* also for numbers that int cannot hold (IpcServer.cpp:56-66, 499-582).
InRange == \A i \in 1 .. Len(executed) : WithinLimits(executed[i].call)

\* A command that its sender gave up can still be executed, but never after one
\* that was started later: it cannot undo it (IpcServer.cpp:360-384).
InOrder ==
    \A i, j \in 1 .. Len(executed) :
        i < j => executed[j].run \notin run[executed[i].run].earlier

\* sony-ctl always ends, also when the daemon is blocked (cli/src/main.cpp:76-81).
AlwaysEnds == \A r \in Runs : run[r].phase # "ready" ~> run[r].phase = "ended"
=============================================================================
