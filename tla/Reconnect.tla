----------------------------- MODULE Reconnect -----------------------------
(***************************************************************************)
(* The timers of BluetoothManager: exponential backoff between connection  *)
(* attempts, the timeout of an attempt, and the poll loop that serves      *)
(* events first and looks at the timers afterwards.                        *)
(*                                                                         *)
(* Times are milliseconds on a grid of Quantum.  Deadlines are kept        *)
(* relative to now, so that the state space is finite.                     *)
(***************************************************************************)
EXTENDS Integers

CONSTANTS
    InitialBackoffMs, MaxBackoffMs, ConnectTimeoutMs,
    PollMs,      \* longest poll() of the event loop
    Quantum,     \* grid of the model's clock
    MaxRetries   \* bound: retryCount_ is counted up to here

ASSUME ReconnectAssumption ==
    /\ Quantum \in Nat \ {0}
    /\ PollMs \in Nat /\ PollMs >= Quantum
    /\ \A ms \in {InitialBackoffMs, MaxBackoffMs, ConnectTimeoutMs} : ms \in Nat \ {0}
    /\ InitialBackoffMs <= MaxBackoffMs
    /\ MaxRetries \in Nat /\ MaxRetries > 10

VARIABLES
    manager,       \* state, retryCount, sinceChange, untilReconnect
    phase,         \* where the event loop is: "poll", "serve" or "tick"
    sinceAttempt   \* history: time since the last attempt began

vars == <<manager, phase, sinceAttempt>>

LesserOf(a, b) == IF a < b THEN a ELSE b

\* Fault: the delay grows without an upper limit.
BackoffUncapped(retryCount) ==
    (InitialBackoffMs * 3 ^ LesserOf(retryCount, 10)) \div 2 ^ LesserOf(retryCount, 10)

\* initialBackoffMs * pow(1.5, min(retryCount, 10)), then at most maxBackoffMs.
Backoff(retryCount) ==
    LET exponent == LesserOf(retryCount, 10)
    IN  LesserOf((InitialBackoffMs * 3 ^ exponent) \div 2 ^ exponent, MaxBackoffMs)

-----------------------------------------------------------------------------
(* BluetoothManager *)

SetState(m, state) ==
    IF m.state = state THEN m ELSE [m EXCEPT !.state = state, !.sinceChange = 0]

\* Fault: the next attempt is due at once.
ScheduleReconnectAtOnce(m) ==
    [SetState(m, "RECONNECT_BACKOFF") EXCEPT
        !.retryCount = LesserOf(@ + 1, MaxRetries),
        !.untilReconnect = 0]

ScheduleReconnect(m) ==
    LET retryCount == LesserOf(m.retryCount + 1, MaxRetries)
    IN  [SetState(m, "RECONNECT_BACKOFF") EXCEPT
            !.retryCount = retryCount,
            !.untilReconnect = Backoff(retryCount)]

\* Fault: a streak of failures outlives a connection.
ConnectedKeepsCount(m) == SetState(m, "CONNECTED")

Connected(m) == [SetState(m, "CONNECTED") EXCEPT !.retryCount = 0]

\* A first write of the session that fails has lost the link again.
Connections(m) == {Connected(m), ScheduleReconnect(Connected(m))}

\* No usable device, a connection in progress, or connect() done at once.
Attempts(m) ==
    LET resolving == SetState(SetState(m, "DISCOVERING"), "RESOLVING_SDP")
        connecting == SetState(resolving, "CONNECTING")
    IN  {ScheduleReconnect(SetState(m, "DISCOVERING")), connecting,
         ScheduleReconnect(connecting)} \cup Connections(connecting)

Attempt(m) ==
    /\ manager' \in Attempts(m)
    /\ sinceAttempt' = 0

-----------------------------------------------------------------------------
(* The event loop *)

\* main calls start() before it enters the loop.
Init ==
    /\ manager \in Attempts([state |-> "DISCONNECTED", retryCount |-> 0,
                             sinceChange |-> 0, untilReconnect |-> 0])
    /\ phase = "poll"
    /\ sinceAttempt = 0

Earlier(ms) == IF ms > 0 THEN ms ELSE 0

\* poll() returns when there is something to serve or after PollMs.  What a
\* settled state does with its age is of no consequence, so the clock stops.
Poll ==
    /\ phase = "poll"
    /\ phase' = "serve"
    /\ IF manager.state \in {"CONNECTED", "DISCONNECTED"}
       THEN UNCHANGED <<manager, sinceAttempt>>
       ELSE \E n \in 1 .. PollMs \div Quantum :
                LET ms == n * Quantum
                IN  /\ manager' = [manager EXCEPT
                           !.sinceChange = @ + ms,
                           !.untilReconnect = Earlier(@ - ms)]
                    /\ sinceAttempt' = sinceAttempt + ms

ServeNothing ==
    /\ phase = "serve"
    /\ phase' = "tick"
    /\ UNCHANGED <<manager, sinceAttempt>>

\* handleConnecting: the connection is up, or failed.
ServeConnecting ==
    /\ phase = "serve" /\ manager.state = "CONNECTING"
    /\ phase' = "tick"
    /\ manager' \in Connections(manager) \cup {ScheduleReconnect(manager)}
    /\ UNCHANGED sinceAttempt

\* The link breaks.
ServeConnected ==
    /\ phase = "serve" /\ manager.state = "CONNECTED"
    /\ phase' = "tick"
    /\ manager' = ScheduleReconnect(manager)
    /\ UNCHANGED sinceAttempt

\* SIGUSR1
Disconnect ==
    /\ phase = "serve"
    /\ phase' = "tick"
    /\ manager' = SetState(manager, "DISCONNECTED")
    /\ UNCHANGED sinceAttempt

\* SIGUSR2
Start ==
    /\ phase = "serve"
    /\ phase' = "tick"
    /\ IF manager.state \in {"CONNECTED", "CONNECTING"}
       THEN UNCHANGED <<manager, sinceAttempt>>
       ELSE Attempt([manager EXCEPT !.retryCount = 0])

\* Fault: only a socket event can end an attempt.
ConnectOverdueNever(m) == FALSE

ConnectOverdue(m) == m.sinceChange > ConnectTimeoutMs

RetryDue(m) == m.untilReconnect <= 0

Tick ==
    /\ phase = "tick"
    /\ phase' = "poll"
    /\ CASE manager.state = "CONNECTING" /\ ConnectOverdue(manager) ->
              manager' = ScheduleReconnect(manager) /\ UNCHANGED sinceAttempt
         [] manager.state = "RECONNECT_BACKOFF" /\ RetryDue(manager) ->
              Attempt(manager)
         [] OTHER -> UNCHANGED <<manager, sinceAttempt>>

\* The acknowledgement timer runs after tick, and its frame loses the link.
ReleaseFails ==
    /\ phase = "tick" /\ manager.state = "CONNECTED"
    /\ phase' = "poll"
    /\ manager' = ScheduleReconnect(manager)
    /\ UNCHANGED sinceAttempt

Next ==
    \/ Poll
    \/ ServeNothing \/ ServeConnecting \/ ServeConnected \/ Disconnect \/ Start
    \/ Tick \/ ReleaseFails

Spec == Init /\ [][Next]_vars

-----------------------------------------------------------------------------
(* Properties *)

TypeOK ==
    /\ manager \in [state : {"DISCONNECTED", "CONNECTING", "CONNECTED", "RECONNECT_BACKOFF"},
                    retryCount : 0 .. MaxRetries,
                    sinceChange : Nat,
                    untilReconnect : 0 .. MaxBackoffMs]
    /\ phase \in {"poll", "serve", "tick"}
    /\ sinceAttempt \in Nat

\* While the daemon is without a link and has not been told to stay so, an
\* attempt began no longer ago than one timeout, one full backoff and the two
\* polls that notice their ends (BluetoothManager.cpp:827-873; main.cpp:492, 538).
Attended ==
    /\ manager.state = "CONNECTING" => sinceAttempt <= ConnectTimeoutMs + PollMs
    /\ manager.state = "RECONNECT_BACKOFF" =>
           sinceAttempt <= ConnectTimeoutMs + MaxBackoffMs + 2 * PollMs

\* An attempt that no signal asked for waits for its backoff: it begins no
\* earlier than 1.5 times the initial delay after the attempt before it and
\* after the link was lost (BluetoothManager.cpp:844-848, 867-872).
Patient ==
    [][phase = "tick" /\ manager.state = "RECONNECT_BACKOFF" /\ sinceAttempt' < sinceAttempt
        => LET least == LesserOf((3 * InitialBackoffMs) \div 2, MaxBackoffMs)
           IN  sinceAttempt >= least /\ manager.sinceChange >= least]_vars

\* A link that was up is sought again after the shortest delay, however many
\* attempts had failed before it came up (BluetoothManager.cpp:695, 752, 844).
FirstRetryIsSoon ==
    [][manager.state = "CONNECTED" /\ manager'.state = "RECONNECT_BACKOFF"
        => manager'.untilReconnect = Backoff(1)]_vars
=============================================================================
