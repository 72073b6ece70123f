--------------------------- MODULE ReconnectProofs ---------------------------
(***************************************************************************)
(* The timers of BluetoothManager, for every configuration of the delays,  *)
(* the poll and the clock's grid: an attempt is always in sight, and never *)
(* too early.                                                              *)
(*                                                                         *)
(* The two bounds meet in the backoff: the age of the last attempt and the *)
(* time that is left together never exceed one timeout, one poll and the   *)
(* longest delay, and the age of the state and the time that is left never *)
(* fall below the shortest delay.                                          *)
(***************************************************************************)
EXTENDS Reconnect, TLAPS

\* Every state of the code, also those that begin and end within one handler.
States == {"DISCONNECTED", "DISCOVERING", "RESOLVING_SDP", "CONNECTING", "CONNECTED",
           "RECONNECT_BACKOFF"}

Managers(states) ==
    [state : states, retryCount : 0 .. MaxRetries, sinceChange : Nat,
     untilReconnect : 0 .. MaxBackoffMs]

Settled == {"DISCONNECTED", "CONNECTING", "CONNECTED", "RECONNECT_BACKOFF"}

\* The shortest delay before an attempt that no signal asked for.
Least == LesserOf((3 * InitialBackoffMs) \div 2, MaxBackoffMs)

\* The inductive invariant behind Attended, Patient and FirstRetryIsSoon, of a
\* manager, a phase and the age of the last attempt.
Timely(m, p, age) ==
    /\ m.state = "CONNECTING" =>
           /\ age = m.sinceChange
           /\ age <= ConnectTimeoutMs + PollMs
           /\ p = "poll" => age <= ConnectTimeoutMs
    /\ m.state = "CONNECTED" => m.retryCount = 0 /\ age <= ConnectTimeoutMs + PollMs
    /\ m.state = "RECONNECT_BACKOFF" =>
           /\ m.sinceChange <= age
           /\ Least <= m.sinceChange + m.untilReconnect
           /\ m.untilReconnect > 0 =>
                  age + m.untilReconnect <= ConnectTimeoutMs + PollMs + MaxBackoffMs
           /\ m.untilReconnect = 0 =>
                  p # "poll" /\ age <= ConnectTimeoutMs + MaxBackoffMs + 2 * PollMs

TimerInv == TypeOK /\ Timely(manager, phase, sinceAttempt)

-----------------------------------------------------------------------------
(* The delay *)

\* The provers know the powers of numerals only.
LEMMA Powers ==
  ASSUME NEW n \in 1 .. 10
  PROVE  3 ^ n \in Nat /\ 2 ^ n \in Nat \ {0} /\ 3 * 2 ^ n <= 2 * 3 ^ n
<1> DEFINE Grows(k) == 3 ^ k \in Nat /\ 2 ^ k \in Nat \ {0} /\ 3 * 2 ^ k <= 2 * 3 ^ k
<1>1. Grows(1) /\ Grows(2) /\ Grows(3) /\ Grows(4) /\ Grows(5)
  OBVIOUS
<1>2. Grows(6) /\ Grows(7) /\ Grows(8) /\ Grows(9) /\ Grows(10)
  OBVIOUS
<1>3. n \in {1, 2, 3, 4, 5, 6, 7, 8, 9, 10}
  OBVIOUS
<1> HIDE DEF Grows
<1>4. Grows(n)
  BY <1>1, <1>2, <1>3
<1> QED BY <1>4 DEF Grows

LEMMA Delays ==
    /\ InitialBackoffMs \in Nat \ {0} /\ MaxBackoffMs \in Nat \ {0}
    /\ ConnectTimeoutMs \in Nat /\ PollMs \in Nat /\ Quantum \in Nat \ {0}
    /\ MaxRetries \in Nat /\ MaxRetries > 10
  BY ReconnectAssumption

LEMMA Quotient ==
  ASSUME NEW i \in Nat, NEW a \in Nat, NEW b \in Nat \ {0}, 3 * b <= 2 * a
  PROVE  /\ (i * a) \div b \in Nat
         /\ (3 * i) \div 2 \in Nat
         /\ (3 * i) \div 2 <= (i * a) \div b
<1>1. i * a \in Nat /\ 3 * i \in Nat
  OBVIOUS
<1>2. (i * a) \div b \in Nat /\ (3 * i) \div 2 \in Nat
  BY <1>1
<1>3. (3 * i) \div 2 <= (i * a) \div b
  OBVIOUS
<1> QED BY <1>2, <1>3

\* After any failure the delay lies between 1.5 times the initial one and the
\* longest one, and is not zero.
LEMMA BackoffBounds ==
  ASSUME NEW n \in Nat \ {0}
  PROVE  /\ Backoff(n) \in 1 .. MaxBackoffMs
         /\ Least \in Nat
         /\ Least <= Backoff(n)
<1> DEFINE e == LesserOf(n, 10)
           delay == (InitialBackoffMs * 3 ^ e) \div 2 ^ e
           first == (3 * InitialBackoffMs) \div 2
<1>1. InitialBackoffMs \in Nat \ {0} /\ MaxBackoffMs \in Nat \ {0}
  BY Delays
<1>2. e \in 1 .. 10
  BY DEF LesserOf
<1>3. delay \in Nat /\ first \in Nat /\ first <= delay
  <2> DEFINE i == InitialBackoffMs
             a == 3 ^ e
             b == 2 ^ e
  <2>1. delay = (i * a) \div b /\ first = (3 * i) \div 2
    OBVIOUS
  <2>2. i \in Nat
    BY <1>1
  <2> HIDE DEF e, i
  <2>3. a \in Nat /\ b \in Nat \ {0} /\ 3 * b <= 2 * a
    BY ONLY <1>2, Powers
  <2> HIDE DEF a, b, delay, first
  <2>4. (i * a) \div b \in Nat /\ (3 * i) \div 2 \in Nat /\ (3 * i) \div 2 <= (i * a) \div b
    BY ONLY <2>2, <2>3, Quotient
  <2> QED BY ONLY <2>1, <2>4
<1>4. first >= 1
  BY <1>1
<1>5. Backoff(n) = LesserOf(delay, MaxBackoffMs) /\ Least = LesserOf(first, MaxBackoffMs)
  BY DEF Backoff, Least
<1> HIDE DEF delay, first
<1> QED BY <1>1, <1>3, <1>4, <1>5 DEF LesserOf

-----------------------------------------------------------------------------
(* The methods *)

LEMMA SetStateType ==
  ASSUME NEW m \in Managers(States), NEW state \in States
  PROVE  LET e == SetState(m, state)
         IN  /\ e \in Managers(States)
             /\ e.state = state /\ e.retryCount = m.retryCount
             /\ e.untilReconnect = m.untilReconnect
             /\ e.sinceChange = IF m.state = state THEN m.sinceChange ELSE 0
  BY DEF SetState, Managers, States

\* A link or an attempt that fails is tried again after its delay.
LEMMA ScheduleReconnectTimely ==
  ASSUME NEW m \in Managers(States), m.state # "RECONNECT_BACKOFF",
         NEW age \in Nat, age <= ConnectTimeoutMs + PollMs, NEW p
  PROVE  LET e == ScheduleReconnect(m)
         IN  /\ e \in Managers(Settled)
             /\ e.state = "RECONNECT_BACKOFF"
             /\ m.retryCount = 0 => e.untilReconnect = Backoff(1)
             /\ Timely(e, p, age)
<1> DEFINE s == SetState(m, "RECONNECT_BACKOFF")
           n == LesserOf(m.retryCount + 1, MaxRetries)
           e == ScheduleReconnect(m)
<1>1. MaxRetries \in Nat /\ MaxRetries > 10 /\ MaxBackoffMs \in Nat
      /\ ConnectTimeoutMs \in Nat /\ PollMs \in Nat
  BY Delays
<1>2. m.retryCount \in 0 .. MaxRetries
  BY DEF Managers
<1>3. n \in 1 .. MaxRetries /\ (m.retryCount = 0 => n = 1)
  BY <1>1, <1>2 DEF LesserOf
<1>4. Backoff(n) \in 1 .. MaxBackoffMs /\ Least \in Nat /\ Least <= Backoff(n)
  BY <1>1, <1>3, BackoffBounds
<1>5. s \in Managers(States) /\ s.state = "RECONNECT_BACKOFF" /\ s.sinceChange = 0
  BY SetStateType DEF States
<1>6. e = [s EXCEPT !.retryCount = n, !.untilReconnect = Backoff(n)]
  BY DEF ScheduleReconnect
<1> HIDE DEF s, n, e
<1>7. /\ e.state = "RECONNECT_BACKOFF" /\ e.sinceChange = 0
      /\ e.untilReconnect = Backoff(n)
  BY <1>5, <1>6 DEF Managers
<1>8. e \in Managers(Settled)
  <2>1. n \in 0 .. MaxRetries /\ Backoff(n) \in 0 .. MaxBackoffMs
    BY <1>1, <1>3, <1>4
  <2>2. "RECONNECT_BACKOFF" \in Settled
    BY DEF Settled
  <2> QED BY <1>5, <1>6, <2>1, <2>2 DEF Managers
<1>9. Timely(e, p, age)
  BY <1>1, <1>4, <1>7 DEF Timely
<1> QED BY <1>3, <1>7, <1>8, <1>9 DEF e

LEMMA ConnectionsTimely ==
  ASSUME NEW m \in Managers(States), m.state = "CONNECTING",
         NEW age \in Nat, age <= ConnectTimeoutMs + PollMs, NEW p,
         NEW e \in Connections(m)
  PROVE  e \in Managers(Settled) /\ Timely(e, p, age)
<1> DEFINE c == Connected(m)
<1>1. /\ c \in Managers(States) \cap Managers(Settled)
      /\ c.state = "CONNECTED" /\ c.retryCount = 0
  BY Delays, SetStateType DEF Connected, Managers, States, Settled
<1> HIDE DEF c
<1>2. CASE e = c
  BY <1>1, <1>2 DEF Timely
<1>3. CASE e = ScheduleReconnect(c)
  BY <1>1, <1>3, ScheduleReconnectTimely
<1> QED BY <1>2, <1>3 DEF Connections, c

\* Whatever comes of an attempt, the clock of attempts starts again.
LEMMA AttemptsTimely ==
  ASSUME NEW m \in Managers(Settled), NEW p, NEW e \in Attempts(m)
  PROVE  e \in Managers(Settled) /\ Timely(e, p, 0)
<1> DEFINE discovering == SetState(m, "DISCOVERING")
           resolving == SetState(discovering, "RESOLVING_SDP")
           connecting == SetState(resolving, "CONNECTING")
<1>1. 0 \in Nat /\ 0 <= ConnectTimeoutMs + PollMs /\ 0 <= ConnectTimeoutMs
  BY Delays
<1>2. m \in Managers(States)
  BY DEF Managers, Settled, States
<1>3. discovering \in Managers(States) /\ discovering.state = "DISCOVERING"
  BY <1>2, SetStateType DEF States
<1> HIDE DEF discovering
<1>4. resolving \in Managers(States) /\ resolving.state = "RESOLVING_SDP"
  BY <1>3, SetStateType DEF States
<1> HIDE DEF resolving
<1>5. /\ connecting \in Managers(States) /\ connecting.state = "CONNECTING"
      /\ connecting.sinceChange = 0
  BY <1>4, SetStateType DEF States
<1> HIDE DEF connecting
<1>6. CASE e \in {ScheduleReconnect(discovering), ScheduleReconnect(connecting)}
  BY <1>1, <1>3, <1>5, <1>6, ScheduleReconnectTimely
<1>7. CASE e = connecting
  BY <1>1, <1>5, <1>7 DEF Timely, Managers, Settled
<1>8. CASE e \in Connections(connecting)
  BY <1>1, <1>5, <1>8, ConnectionsTimely
<1> QED BY <1>6, <1>7, <1>8 DEF Attempts, discovering, resolving, connecting

-----------------------------------------------------------------------------
(* The event loop *)

\* The bounds of the phases between two polls are the same.
LEMMA LaterPhase ==
  ASSUME NEW m, NEW p, NEW q, q # "poll", NEW age, Timely(m, p, age)
  PROVE  Timely(m, q, age)
  BY DEF Timely

\* Time passes in poll() alone, at most PollMs of it.
LEMMA PollTimely ==
  ASSUME TimerInv, Poll
  PROVE  TimerInv'
<1>1. /\ manager \in Managers(Settled) /\ sinceAttempt \in Nat
      /\ Timely(manager, "poll", sinceAttempt) /\ phase' = "serve"
  BY DEF TimerInv, TypeOK, Managers, Settled, Poll
<1>2. CASE manager.state \in {"CONNECTED", "DISCONNECTED"}
  <2>1. manager' = manager /\ sinceAttempt' = sinceAttempt
    BY <1>2 DEF Poll
  <2>2. Timely(manager', phase', sinceAttempt')
    BY <1>1, <2>1, LaterPhase
  <2> QED BY <1>1, <2>1, <2>2 DEF TimerInv, TypeOK
<1>3. CASE manager.state \in {"CONNECTING", "RECONNECT_BACKOFF"}
  <2>1. PICK n \in 1 .. PollMs \div Quantum :
            /\ manager' = [manager EXCEPT !.sinceChange = @ + n * Quantum,
                                          !.untilReconnect = Earlier(@ - n * Quantum)]
            /\ sinceAttempt' = sinceAttempt + n * Quantum
    BY <1>3 DEF Poll
  <2> DEFINE ms == n * Quantum
  <2>2. ms \in Nat /\ ms > 0 /\ ms <= PollMs
    BY Delays
  <2>3. manager' = [manager EXCEPT !.sinceChange = @ + ms, !.untilReconnect = Earlier(@ - ms)]
        /\ sinceAttempt' = sinceAttempt + ms
    BY <2>1
  <2> HIDE DEF ms
  <2>4. /\ manager.state \in Settled /\ manager.retryCount \in 0 .. MaxRetries
        /\ manager.sinceChange \in Nat /\ manager.untilReconnect \in 0 .. MaxBackoffMs
    BY <1>1 DEF Managers
  <2>5. /\ manager'.state = manager.state /\ manager'.retryCount = manager.retryCount
        /\ manager'.sinceChange = manager.sinceChange + ms
        /\ manager'.untilReconnect = Earlier(manager.untilReconnect - ms)
    BY <1>1, <2>3 DEF Managers
  <2>6. /\ manager'.sinceChange \in Nat /\ manager'.untilReconnect \in 0 .. MaxBackoffMs
        /\ sinceAttempt' \in Nat
    BY <1>1, <2>2, <2>3, <2>4, <2>5, Delays DEF Earlier
  <2>7. manager' \in Managers(Settled)
    BY <1>1, <2>3, <2>5, <2>6 DEF Managers
  <2>8. ASSUME manager.state = "CONNECTING"
       PROVE  Timely(manager', phase', sinceAttempt')
    <3>1. sinceAttempt = manager.sinceChange /\ sinceAttempt <= ConnectTimeoutMs
      BY <1>1, <2>8 DEF Timely
    <3>2. /\ sinceAttempt' = manager'.sinceChange
          /\ sinceAttempt' <= ConnectTimeoutMs + PollMs
      BY <1>1, <2>2, <2>3, <2>4, <2>5, <3>1, Delays
    <3> QED BY <1>1, <2>5, <2>8, <3>2 DEF Timely
  <2>9. ASSUME manager.state = "RECONNECT_BACKOFF"
       PROVE  Timely(manager', phase', sinceAttempt')
    <3>1. /\ manager.sinceChange <= sinceAttempt
          /\ Least <= manager.sinceChange + manager.untilReconnect
          /\ manager.untilReconnect > 0
          /\ sinceAttempt + manager.untilReconnect
                 <= ConnectTimeoutMs + PollMs + MaxBackoffMs
      BY <1>1, <2>4, <2>9, Delays DEF Timely
    <3>2. Least \in Nat
      BY BackoffBounds
    <3>3. /\ manager'.sinceChange <= sinceAttempt'
          /\ Least <= manager'.sinceChange + manager'.untilReconnect
          /\ manager'.untilReconnect > 0 =>
                 sinceAttempt' + manager'.untilReconnect
                     <= ConnectTimeoutMs + PollMs + MaxBackoffMs
          /\ manager'.untilReconnect = 0 =>
                 sinceAttempt' <= ConnectTimeoutMs + MaxBackoffMs + 2 * PollMs
      BY <1>1, <2>2, <2>3, <2>4, <2>5, <3>1, <3>2, Delays DEF Earlier
    <3> QED BY <1>1, <2>5, <2>9, <3>3 DEF Timely
  <2>10. Timely(manager', phase', sinceAttempt')
    BY <1>3, <2>8, <2>9
  <2> QED BY <1>1, <2>6, <2>7, <2>10 DEF TimerInv, TypeOK, Managers, Settled
<1> QED BY <1>1, <1>2, <1>3 DEF Managers, Settled

\* A handler leaves a manager that is in time.
LEMMA ServeTimely ==
  ASSUME NEW e \in Managers(Settled), manager' = e, phase' \in {"tick", "poll"},
         sinceAttempt' \in Nat, Timely(e, phase', sinceAttempt')
  PROVE  TimerInv'
  BY DEF TimerInv, TypeOK, Managers, Settled

LEMMA TimerStep ==
  ASSUME TimerInv, [Next]_vars
  PROVE  TimerInv'
<1>1. /\ manager \in Managers(Settled) /\ manager \in Managers(States)
      /\ sinceAttempt \in Nat /\ Timely(manager, phase, sinceAttempt)
  BY DEF TimerInv, TypeOK, Managers, Settled, States
<1>2. /\ manager.state \in {"CONNECTING", "CONNECTED"} =>
             sinceAttempt <= ConnectTimeoutMs + PollMs
  BY <1>1 DEF Timely
<1>3. CASE Poll
  BY <1>3, PollTimely
<1>4. CASE ServeNothing
  <2>1. Timely(manager', phase', sinceAttempt')
    BY <1>1, <1>4, LaterPhase DEF ServeNothing
  <2> QED BY <1>1, <1>4, <2>1, ServeTimely DEF ServeNothing
<1>5. CASE ServeConnecting
  <2>1. /\ manager.state = "CONNECTING" /\ phase' = "tick" /\ sinceAttempt' = sinceAttempt
        /\ manager' \in Connections(manager) \cup {ScheduleReconnect(manager)}
    BY <1>5 DEF ServeConnecting
  <2>2. manager' \in Managers(Settled) /\ Timely(manager', phase', sinceAttempt')
    BY <1>1, <1>2, <2>1, ConnectionsTimely, ScheduleReconnectTimely
  <2> QED BY <1>1, <2>1, <2>2, ServeTimely
<1>6. CASE ServeConnected \/ ReleaseFails
  <2>1. /\ manager.state = "CONNECTED" /\ phase' \in {"tick", "poll"}
        /\ sinceAttempt' = sinceAttempt /\ manager' = ScheduleReconnect(manager)
    BY <1>6 DEF ServeConnected, ReleaseFails
  <2>2. manager' \in Managers(Settled) /\ Timely(manager', phase', sinceAttempt')
    BY <1>1, <1>2, <2>1, ScheduleReconnectTimely
  <2> QED BY <1>1, <2>1, <2>2, ServeTimely
<1>7. CASE Disconnect
  <2>1. /\ phase' = "tick" /\ sinceAttempt' = sinceAttempt
        /\ manager' = SetState(manager, "DISCONNECTED")
    BY <1>7 DEF Disconnect
  <2>2. manager' \in Managers(States) /\ manager'.state = "DISCONNECTED"
    BY <1>1, <2>1, SetStateType DEF States
  <2>3. manager' \in Managers(Settled)
    BY <2>2 DEF Managers, Settled
  <2>4. Timely(manager', phase', sinceAttempt')
    BY <2>2 DEF Timely
  <2> QED BY <1>1, <2>1, <2>3, <2>4, ServeTimely
<1>8. CASE Start
  <2>1. phase' = "tick"
    BY <1>8 DEF Start
  <2>2. CASE UNCHANGED <<manager, sinceAttempt>>
    <3>1. Timely(manager', phase', sinceAttempt')
      BY <1>1, <2>1, <2>2, LaterPhase
    <3> QED BY <1>1, <2>1, <2>2, <3>1, ServeTimely
  <2>3. CASE Attempt([manager EXCEPT !.retryCount = 0])
    <3>1. [manager EXCEPT !.retryCount = 0] \in Managers(Settled)
      BY <1>1, Delays DEF Managers
    <3>2. /\ manager' \in Attempts([manager EXCEPT !.retryCount = 0])
          /\ sinceAttempt' = 0
      BY <2>3 DEF Attempt
    <3>3. manager' \in Managers(Settled) /\ Timely(manager', phase', sinceAttempt')
      BY <3>1, <3>2, AttemptsTimely
    <3> QED BY <2>1, <3>2, <3>3, ServeTimely
  <2> QED BY <1>8, <2>2, <2>3 DEF Start
<1>9. CASE Tick
  <2>1. phase = "tick" /\ phase' = "poll"
    BY <1>9 DEF Tick
  <2>2. CASE manager.state = "CONNECTING" /\ ConnectOverdue(manager)
    <3>1. manager' = ScheduleReconnect(manager) /\ sinceAttempt' = sinceAttempt
      BY <1>9, <2>2 DEF Tick
    <3>2. manager' \in Managers(Settled) /\ Timely(manager', phase', sinceAttempt')
      BY <1>1, <1>2, <2>2, <3>1, ScheduleReconnectTimely
    <3> QED BY <1>1, <2>1, <3>1, <3>2, ServeTimely
  <2>3. CASE manager.state = "RECONNECT_BACKOFF" /\ RetryDue(manager)
    <3>1. manager' \in Attempts(manager) /\ sinceAttempt' = 0
      BY <1>9, <2>3 DEF Tick, Attempt
    <3>2. manager' \in Managers(Settled) /\ Timely(manager', phase', sinceAttempt')
      BY <1>1, <3>1, AttemptsTimely
    <3> QED BY <2>1, <3>1, <3>2, ServeTimely
  <2>4. CASE /\ ~(manager.state = "CONNECTING" /\ ConnectOverdue(manager))
             /\ ~(manager.state = "RECONNECT_BACKOFF" /\ RetryDue(manager))
    <3>1. manager' = manager /\ sinceAttempt' = sinceAttempt
      BY <1>9, <2>4 DEF Tick
    <3>2. /\ manager.sinceChange \in Nat /\ manager.untilReconnect \in 0 .. MaxBackoffMs
      BY <1>1 DEF Managers
    <3>3. manager.state = "CONNECTING" => manager.sinceChange <= ConnectTimeoutMs
      BY <2>4, <3>2, Delays DEF ConnectOverdue
    <3>4. manager.state = "RECONNECT_BACKOFF" => manager.untilReconnect # 0
      BY <2>4 DEF RetryDue
    <3>5. Timely(manager', phase', sinceAttempt')
      BY <1>1, <3>1, <3>3, <3>4 DEF Timely
    <3> QED BY <1>1, <2>1, <3>1, <3>5, ServeTimely
  <2> QED BY <2>2, <2>3, <2>4
<1>10. CASE UNCHANGED vars
  BY <1>10 DEF vars, TimerInv, TypeOK
<1> QED BY <1>3, <1>4, <1>5, <1>6, <1>7, <1>8, <1>9, <1>10 DEF Next

-----------------------------------------------------------------------------
(* The theorems *)

LEMMA TimerInit == Init => TimerInv
<1> SUFFICES ASSUME Init
             PROVE  TimerInv
  OBVIOUS
<1> DEFINE m == [state |-> "DISCONNECTED", retryCount |-> 0, sinceChange |-> 0,
                 untilReconnect |-> 0]
<1>1. m \in Managers(Settled)
  BY Delays DEF Managers, Settled
<1>2. manager \in Attempts(m) /\ phase = "poll" /\ sinceAttempt = 0
  BY DEF Init
<1> HIDE DEF m
<1>3. manager \in Managers(Settled) /\ Timely(manager, phase, sinceAttempt)
  BY <1>1, <1>2, AttemptsTimely
<1> QED BY <1>2, <1>3 DEF TimerInv, TypeOK, Managers, Settled

LEMMA TimerInvariance == Spec => []TimerInv
  BY TimerInit, TimerStep, PTL DEF Spec

\* For any delays, poll and grid of the clock, the state of the manager, its
\* retry count and its deadline stay in their ranges (BluetoothManager.cpp:827-873).
THEOREM ReconnectTypeCorrect == Spec => []TypeOK
<1>1. TimerInv => TypeOK
  BY DEF TimerInv
<1> QED BY <1>1, TimerInvariance, PTL

\* For any delays, poll and grid of the clock, a daemon without a link began an
\* attempt no longer ago than one timeout, one full backoff and two polls
\* (BluetoothManager.cpp:827-873; main.cpp:492, 538).
THEOREM AttemptInSight == Spec => []Attended
<1>1. TimerInv => Attended
  <2> SUFFICES ASSUME TimerInv
               PROVE  Attended
    OBVIOUS
  <2>1. manager.untilReconnect \in 0 .. MaxBackoffMs /\ sinceAttempt \in Nat
    BY DEF TimerInv, TypeOK
  <2>2. manager.state = "RECONNECT_BACKOFF" =>
            sinceAttempt <= ConnectTimeoutMs + MaxBackoffMs + 2 * PollMs
    BY <2>1, Delays DEF TimerInv, Timely
  <2> QED BY <2>2 DEF TimerInv, Timely, Attended
<1> QED BY <1>1, TimerInvariance, PTL

\* For any delays, poll and grid of the clock, an attempt that no signal asked
\* for begins no earlier than the shortest delay after the one before it and
\* after the loss (BluetoothManager.cpp:844-848, 867-872).
THEOREM AttemptsArePatient == Spec => Patient
<1>1. ASSUME TimerInv, phase = "tick", manager.state = "RECONNECT_BACKOFF",
             sinceAttempt' < sinceAttempt, [Next]_vars
      PROVE  sinceAttempt >= Least /\ manager.sinceChange >= Least
  <2>1. /\ manager.untilReconnect \in 0 .. MaxBackoffMs /\ sinceAttempt \in Nat
        /\ manager.sinceChange \in Nat
    BY <1>1 DEF TimerInv, TypeOK
  <2>2. ~UNCHANGED <<manager, sinceAttempt>>
    BY <1>1, <2>1
  <2>3. Tick
    BY <1>1, <2>2 DEF Next, vars, Poll, ServeNothing, ServeConnecting, ServeConnected,
                      Disconnect, Start, ReleaseFails
  <2>4. manager.untilReconnect = 0
    BY <1>1, <2>1, <2>2, <2>3 DEF Tick, RetryDue
  <2>5. Least <= manager.sinceChange + manager.untilReconnect
        /\ manager.sinceChange <= sinceAttempt
    BY <1>1 DEF TimerInv, Timely
  <2>6. Least \in Nat
    BY BackoffBounds
  <2> QED BY <2>1, <2>4, <2>5, <2>6
<1>2. TimerInv /\ [Next]_vars =>
        [phase = "tick" /\ manager.state = "RECONNECT_BACKOFF" /\ sinceAttempt' < sinceAttempt
          => LET least == LesserOf((3 * InitialBackoffMs) \div 2, MaxBackoffMs)
             IN  sinceAttempt >= least /\ manager.sinceChange >= least]_vars
  BY <1>1 DEF Least
<1> QED BY <1>2, TimerInvariance, PTL DEF Spec, Patient

\* For any delays, poll and grid of the clock, the loss of a link that was up
\* starts the shortest delay (BluetoothManager.cpp:695, 752, 844).
THEOREM LossStartsShortestDelay == Spec => FirstRetryIsSoon
<1>1. ASSUME TimerInv, [Next]_vars, manager.state = "CONNECTED",
             manager'.state = "RECONNECT_BACKOFF"
      PROVE  manager'.untilReconnect = Backoff(1)
  <2>1. manager \in Managers(States) /\ sinceAttempt \in Nat
    BY <1>1 DEF TimerInv, TypeOK, Managers, States
  <2>2. manager.retryCount = 0 /\ sinceAttempt <= ConnectTimeoutMs + PollMs
    BY <1>1 DEF TimerInv, Timely
  <2>3. ~(manager' = SetState(manager, "DISCONNECTED"))
    BY <1>1, <2>1, SetStateType DEF States
  <2>4. manager' = ScheduleReconnect(manager)
    BY <1>1, <2>3 DEF Next, vars, Poll, ServeNothing, ServeConnecting, ServeConnected,
                      Disconnect, Start, ReleaseFails, Tick
  <2> QED BY <1>1, <2>1, <2>2, <2>4, ScheduleReconnectTimely
<1>2. TimerInv /\ [Next]_vars =>
        [manager.state = "CONNECTED" /\ manager'.state = "RECONNECT_BACKOFF"
          => manager'.untilReconnect = Backoff(1)]_vars
  BY <1>1
<1> QED BY <1>2, TimerInvariance, PTL DEF Spec, FirstRetryIsSoon
=============================================================================
