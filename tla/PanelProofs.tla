----------------------------- MODULE PanelProofs -----------------------------
(***************************************************************************)
(* Proofs about PanelService: no command of the user is lost, doubled or   *)
(* overtaken, for any number of them.                                      *)
(*                                                                         *)
(* Commands are numbered as they are given.  The argument is that those    *)
(* that wait are always the last ones given, one number after the other,   *)
(* that the one that runs comes right before them, and that all before it  *)
(* have been executed or have lost their sony-ctl.  A line that is left    *)
(* behind is executed in its turn or never, because a poll finds none but  *)
(* that of the process that runs, and the next poll comes after it.        *)
(***************************************************************************)
EXTENDS PanelService, TLAPS

\* The commands that wait are the last ones of n.
Lined(q, n) ==
    /\ \E S : q \in Seq(S)
    /\ Len(q) <= n
    /\ \A i \in 1 .. Len(q) : q[i].id = n - Len(q) + i

\* The commands of n that came to an end, while q waits: were executed, or have lost
\* their sony-ctl.
Ended(process, q, n) ==
    IF process.at \in {"started", "sent"} THEN n - Len(q) - 1 ELSE n - Len(q)

\* The commands of n whose sony-ctl has ended.
Before(process, q, n) == IF process.at = "idle" THEN n - Len(q) ELSE n - Len(q) - 1

\* The process runs the command before those that wait.
InTurn(process, q, n) ==
    \/ process.at = "idle" /\ q = <<>>
    \/ /\ process.at \in {"started", "sent", "executed"}
       /\ process = [at |-> process.at, command |-> process.command]
       /\ process.command.id = n - Len(q) /\ n - Len(q) >= 1

QueueInv ==
    /\ given \in Nat
    /\ Lined(commandQueue, given)
    /\ InTurn(ctlProcess, commandQueue, given)

DoneInv ==
    /\ done \in Seq(Nat)
    /\ \A i, j \in 1 .. Len(done) : i < j => done[i] < done[j]
    /\ ToSet(done) \cup failed = 1 .. Ended(ctlProcess, commandQueue, given)

\* A line in a socket belongs to the command that runs or to one before it; the
\* daemon is about to execute at most one, and none after it was executed yet.
LineInv ==
    /\ polled \subseteq lines
    /\ \A line \in lines :
          \/ line.id \in 1 .. Before(ctlProcess, commandQueue, given)
          \/ ctlProcess.at = "sent" /\ line = ctlProcess.command
    /\ \A line, other \in polled : line = other
    /\ \A line \in polled : \A i \in 1 .. Len(done) : done[i] < line.id

PanelInv == QueueInv /\ DoneInv /\ LineInv

-----------------------------------------------------------------------------
(* The queue *)

LEMMA LinedAppend ==
  ASSUME NEW q, NEW n \in Nat, Lined(q, n), NEW command, command.id = n + 1
  PROVE  Lined(Append(q, command), n + 1) /\ Len(Append(q, command)) = Len(q) + 1
<1>1. PICK S : q \in Seq(S)
  BY DEF Lined
<1> DEFINE T == S \cup {command}
<1>2. q \in Seq(T)
  BY <1>1
<1>3. command \in T
  OBVIOUS
<1> HIDE DEF T
<1>4. /\ Append(q, command) \in Seq(T) /\ Len(Append(q, command)) = Len(q) + 1
      /\ Len(q) \in Nat /\ Append(q, command)[Len(q) + 1] = command
      /\ \A i \in 1 .. Len(q) : Append(q, command)[i] = q[i]
  BY <1>2, <1>3
<1>5. ASSUME NEW i \in 1 .. Len(q) + 1
      PROVE  Append(q, command)[i].id = (n + 1) - (Len(q) + 1) + i
  <2>1. CASE i \in 1 .. Len(q)
    BY <1>4, <2>1 DEF Lined
  <2>2. CASE i = Len(q) + 1
    BY <1>4, <2>2
  <2> QED BY <1>4, <2>1, <2>2
<1> QED BY <1>4, <1>5 DEF Lined

LEMMA LinedTail ==
  ASSUME NEW q, NEW n \in Nat, Lined(q, n), q # <<>>
  PROVE  /\ Lined(Tail(q), n) /\ Len(Tail(q)) = Len(q) - 1
         /\ Len(q) \in Nat \ {0} /\ Len(q) <= n
         /\ Head(q).id = n - Len(q) + 1
<1>1. PICK S : q \in Seq(S)
  BY DEF Lined
<1>2. /\ Tail(q) \in Seq(S) /\ Len(Tail(q)) = Len(q) - 1 /\ Len(q) \in Nat \ {0}
      /\ Head(q) = q[1] /\ \A i \in 1 .. Len(q) - 1 : Tail(q)[i] = q[i + 1]
  BY <1>1
<1>3. ASSUME NEW i \in 1 .. Len(q) - 1
      PROVE  Tail(q)[i].id = n - (Len(q) - 1) + i
  BY <1>2 DEF Lined
<1> QED BY <1>2, <1>3 DEF Lined

\* Taking the next command ends none.
LEMMA Dispatched ==
  ASSUME NEW q, NEW n \in Nat, Lined(q, n), NEW process, process.at = "idle",
         NEW next, next = DispatchNext(q, process)
  PROVE  /\ Lined(next.queue, n)
         /\ InTurn(next.process, next.queue, n)
         /\ Ended(next.process, next.queue, n) = n - Len(q)
         /\ Before(next.process, next.queue, n) = n - Len(q)
         /\ next.process.at # "sent"
<1>1. CASE q = <<>>
  BY <1>1 DEF DispatchNext, InTurn, Ended, Before
<1>2. CASE q # <<>>
  <2>1. /\ next.queue = Tail(q)
        /\ next.process = [at |-> "started", command |-> Head(q)]
    BY <1>2 DEF DispatchNext
  <2> DEFINE rest == Tail(q)
             first == Head(q)
  <2>2. /\ Lined(rest, n) /\ Len(rest) = Len(q) - 1
        /\ Len(q) \in Nat \ {0} /\ Len(q) <= n /\ first.id = n - Len(q) + 1
    BY <1>2, LinedTail
  <2>3. next.queue = rest /\ next.process = [at |-> "started", command |-> first]
    BY <2>1
  <2> HIDE DEF rest, first
  <2>4. n - Len(rest) = n - Len(q) + 1 /\ n - Len(rest) >= 1
        /\ n - Len(rest) - 1 = n - Len(q)
    BY <2>2
  <2>5. /\ next.process.at = "started" /\ next.process.command = first
        /\ next.process = [at |-> next.process.at, command |-> next.process.command]
    BY <2>3
  <2> QED BY <2>2, <2>3, <2>4, <2>5 DEF InTurn, Ended, Before
<1> QED BY <1>1, <1>2

\* A process that runs keeps the others waiting.
LEMMA Postponed ==
  ASSUME NEW q, NEW process, process.at # "idle"
  PROVE  DispatchNext(q, process) = [queue |-> q, process |-> process]
  BY DEF DispatchNext

-----------------------------------------------------------------------------
(* The commands that ended *)

LEMMA ToSetAppend ==
  ASSUME NEW s \in Seq(Nat), NEW e \in Nat
  PROVE  ToSet(Append(s, e)) = ToSet(s) \cup {e}
<1>1. /\ Append(s, e) \in Seq(Nat) /\ DOMAIN Append(s, e) = 1 .. Len(s) + 1
      /\ DOMAIN s = 1 .. Len(s) /\ Len(s) \in Nat
      /\ Append(s, e)[Len(s) + 1] = e
      /\ \A i \in 1 .. Len(s) : Append(s, e)[i] = s[i]
  OBVIOUS
<1>2. \A i : i \in 1 .. Len(s) + 1 <=> i \in 1 .. Len(s) \/ i = Len(s) + 1
  BY <1>1
<1> HIDE DEF ToSet
<1> QED BY <1>1, <1>2 DEF ToSet

\* A command that comes after all that were executed keeps their order.
LEMMA Later ==
  ASSUME NEW s \in Seq(Nat), NEW e \in Nat,
         \A i, j \in 1 .. Len(s) : i < j => s[i] < s[j],
         \A i \in 1 .. Len(s) : s[i] < e
  PROVE  /\ Append(s, e) \in Seq(Nat)
         /\ \A i, j \in 1 .. Len(Append(s, e)) :
                i < j => Append(s, e)[i] < Append(s, e)[j]
         /\ ToSet(Append(s, e)) = ToSet(s) \cup {e}
<1> DEFINE t == Append(s, e)
<1>1. /\ t \in Seq(Nat) /\ Len(t) = Len(s) + 1 /\ Len(s) \in Nat /\ t[Len(s) + 1] = e
      /\ \A i \in 1 .. Len(s) : t[i] = s[i]
  OBVIOUS
<1> HIDE DEF t
<1>2. ASSUME NEW i \in 1 .. Len(t), NEW j \in 1 .. Len(t), i < j
      PROVE  t[i] < t[j]
  <2>1. i \in 1 .. Len(s)
    BY <1>1, <1>2
  <2>2. CASE j \in 1 .. Len(s)
    BY <1>1, <1>2, <2>1, <2>2
  <2>3. CASE j = Len(s) + 1
    BY <1>1, <2>1, <2>3
  <2> QED BY <1>1, <2>2, <2>3
<1> QED BY <1>1, <1>2, ToSetAppend DEF t

-----------------------------------------------------------------------------
(* The steps *)

LEMMA PanelInit == Init => PanelInv
<1> SUFFICES ASSUME Init PROVE PanelInv
  OBVIOUS
<1>1. commandQueue = <<>> /\ given = 0 /\ ctlProcess = Idle /\ done = <<>> /\ failed = {}
  BY DEF Init
<1>2. Len(commandQueue) = 0 /\ commandQueue \in Seq({}) /\ done \in Seq(Nat) /\ Len(done) = 0
  BY <1>1
<1>3. ToSet(done) = {}
  BY <1>1 DEF ToSet
<1>4. ctlProcess.at = "idle"
  BY <1>1 DEF Idle
<1>5. Ended(ctlProcess, commandQueue, given) = 0
  <2>1. 0 - Len(commandQueue) = 0 /\ ctlProcess.at \notin {"started", "sent"}
    BY <1>2, <1>4
  <2> QED BY <1>1, <2>1 DEF Ended
<1>6. Lined(commandQueue, given)
  BY <1>1, <1>2 DEF Lined
<1>7. InTurn(ctlProcess, commandQueue, given)
  BY <1>1, <1>4 DEF InTurn
<1>8. ToSet(done) \cup failed = 1 .. 0
  BY <1>1, <1>3
<1>9. DoneInv
  BY <1>2, <1>5, <1>8 DEF DoneInv
<1>10. QueueInv
  BY <1>1, <1>6, <1>7 DEF QueueInv
<1>11. LineInv
  BY DEF Init, LineInv
<1> QED BY <1>9, <1>10, <1>11 DEF PanelInv

LEMMA PanelSet ==
  ASSUME PanelInv, NEW overrides, NEW verb, NEW value, Set(overrides, verb, value)
  PROVE  PanelInv'
<1> DEFINE command == [id |-> given + 1, verb |-> verb, value |-> value]
           longer == Append(commandQueue, command)
           next == DispatchNext(longer, ctlProcess)
<1>1. /\ given' = given + 1 /\ commandQueue' = next.queue /\ ctlProcess' = next.process
      /\ UNCHANGED <<done, failed, lines, polled>>
  BY DEF Set, sockets
<1>2. command.id = given + 1
  OBVIOUS
<1> HIDE DEF command
<1>3. /\ given \in Nat /\ Lined(commandQueue, given)
      /\ InTurn(ctlProcess, commandQueue, given) /\ DoneInv /\ LineInv
  BY DEF PanelInv, QueueInv
<1>4. Lined(longer, given + 1) /\ Len(longer) = Len(commandQueue) + 1
  BY <1>2, <1>3, LinedAppend
<1>5. given + 1 \in Nat /\ Len(commandQueue) \in Nat
  BY <1>3 DEF Lined
<1> HIDE DEF longer
<1>6. /\ Lined(next.queue, given + 1) /\ InTurn(next.process, next.queue, given + 1)
      /\ Ended(next.process, next.queue, given + 1)
            = Ended(ctlProcess, commandQueue, given)
      /\ Before(next.process, next.queue, given + 1)
            = Before(ctlProcess, commandQueue, given)
      /\ ctlProcess.at = "sent" => next.process = ctlProcess
  <2>1. CASE ctlProcess.at = "idle"
    <3> DEFINE count == given + 1
    <3>0. count \in Nat /\ Lined(longer, count)
      BY <1>4, <1>5
    <3> HIDE DEF count
    <3>1. /\ Ended(next.process, next.queue, count) = count - Len(longer)
          /\ Before(next.process, next.queue, count) = count - Len(longer)
          /\ Lined(next.queue, count) /\ InTurn(next.process, next.queue, count)
      BY <2>1, <3>0, Dispatched
    <3>2. /\ Ended(ctlProcess, commandQueue, given) = given - Len(commandQueue)
          /\ Before(ctlProcess, commandQueue, given) = given - Len(commandQueue)
      BY <2>1 DEF Ended, Before
    <3>3. count - Len(longer) = given - Len(commandQueue)
      BY <1>3, <1>4, <1>5 DEF count
    <3> HIDE DEF next
    <3> QED BY <2>1, <3>1, <3>2, <3>3 DEF count
  <2>2. CASE ctlProcess.at # "idle"
    <3>1. next.queue = longer /\ next.process = ctlProcess
      BY <2>2, Postponed
    <3> HIDE DEF next
    <3>2. InTurn(ctlProcess, longer, given + 1)
      BY <1>3, <1>4, <1>5, <2>2 DEF InTurn
    <3> QED BY <1>3, <1>4, <1>5, <2>2, <3>1, <3>2 DEF Ended, Before
  <2> QED BY <2>1, <2>2
<1> HIDE DEF next
<1>7. QueueInv'
  BY <1>1, <1>5, <1>6 DEF QueueInv
<1>8. DoneInv'
  BY <1>1, <1>3, <1>6 DEF DoneInv
<1>9. LineInv'
  BY <1>1, <1>3, <1>6 DEF LineInv
<1> QED BY <1>7, <1>8, <1>9 DEF PanelInv

\* The command that ran has ended before the next one starts.
LEMMA PanelExited ==
  ASSUME PanelInv, NEW error, Exited(error), ctlProcess.at # "idle"
  PROVE  /\ QueueInv' /\ given' = given
         /\ Ended(ctlProcess', commandQueue', given') = given - Len(commandQueue)
         /\ UNCHANGED <<lines, polled, done>> => LineInv'
<1> DEFINE next == DispatchNext(commandQueue, Idle)
<1>1. commandQueue' = next.queue /\ ctlProcess' = next.process /\ given' = given
  BY DEF Exited
<1>2. given \in Nat /\ Lined(commandQueue, given)
  BY DEF PanelInv, QueueInv
<1>3. Idle.at = "idle"
  BY DEF Idle
<1>4. /\ Lined(next.queue, given) /\ InTurn(next.process, next.queue, given)
      /\ Ended(next.process, next.queue, given) = given - Len(commandQueue)
      /\ Before(next.process, next.queue, given) = given - Len(commandQueue)
  BY <1>2, <1>3, Dispatched
<1> HIDE DEF next
<1>5. ASSUME NEW line \in lines
      PROVE  line.id \in 1 .. given - Len(commandQueue)
  <2>1. given - Len(commandQueue) \in Nat \ {0}
    BY <1>2 DEF PanelInv, QueueInv, Lined, InTurn
  <2>2. CASE line.id \in 1 .. Before(ctlProcess, commandQueue, given)
    BY <2>1, <2>2 DEF Before
  <2>3. CASE ctlProcess.at = "sent" /\ line = ctlProcess.command
    <3>1. line.id = given - Len(commandQueue)
      BY <2>3 DEF PanelInv, QueueInv, InTurn
    <3> QED BY <2>1, <3>1
  <2> QED BY <2>2, <2>3 DEF PanelInv, LineInv
<1>6. ASSUME UNCHANGED <<lines, polled, done>>
      PROVE  LineInv'
  BY <1>1, <1>4, <1>5, <1>6 DEF PanelInv, LineInv
<1> QED BY <1>1, <1>2, <1>4, <1>6 DEF QueueInv

LEMMA PanelCtlExits ==
  ASSUME PanelInv, CtlExits
  PROVE  PanelInv'
<1>1. ctlProcess.at = "executed" /\ UNCHANGED <<done, failed, lines, polled>>
  BY DEF CtlExits, sockets
<1>2. PICK error : Exited(error)
  BY DEF CtlExits
<1>3. /\ QueueInv' /\ LineInv'
      /\ Ended(ctlProcess', commandQueue', given') = given - Len(commandQueue)
  BY <1>1, <1>2, PanelExited
<1>4. Ended(ctlProcess, commandQueue, given) = given - Len(commandQueue)
  BY <1>1 DEF Ended
<1> QED BY <1>1, <1>3, <1>4 DEF PanelInv, DoneInv

LEMMA Counts ==
  ASSUME PanelInv
  PROVE  /\ Ended(ctlProcess, commandQueue, given) \in Nat
         /\ Before(ctlProcess, commandQueue, given) \in Nat
         /\ Before(ctlProcess, commandQueue, given)
               <= Ended(ctlProcess, commandQueue, given)
<1>1. /\ given \in Nat /\ Len(commandQueue) \in Nat /\ Len(commandQueue) <= given
      /\ ctlProcess.at # "idle" => given - Len(commandQueue) >= 1
  BY DEF PanelInv, QueueInv, Lined, InTurn
<1> QED BY <1>1 DEF Ended, Before

\* The process that runs has a line in a socket only after it was sent and until it
\* was executed.
LEMMA OneAtATime ==
  ASSUME PanelInv, ctlProcess.at # "idle", ctlProcess.command \in lines
  PROVE  ctlProcess.at = "sent"
<1>1. /\ given \in Nat /\ Len(commandQueue) \in Nat
      /\ ctlProcess.command.id = given - Len(commandQueue)
  BY DEF PanelInv, QueueInv, Lined, InTurn
<1>2. ctlProcess.command.id \notin 1 .. Before(ctlProcess, commandQueue, given)
  BY <1>1 DEF Before
<1> QED BY <1>2 DEF PanelInv, LineInv

\* What an executed or failed command adds to those that ended.
LEMMA OneMore ==
  ASSUME PanelInv, ctlProcess.at \in {"started", "sent"}
  PROVE  /\ given - Len(commandQueue) \in Nat \ {0}
         /\ ctlProcess.command.id = given - Len(commandQueue)
         /\ Ended(ctlProcess, commandQueue, given) = given - Len(commandQueue) - 1
         /\ 1 .. given - Len(commandQueue)
               = (ToSet(done) \cup failed) \cup {ctlProcess.command.id}
<1>1. /\ given \in Nat /\ Len(commandQueue) \in Nat
      /\ ctlProcess.command.id = given - Len(commandQueue) /\ given - Len(commandQueue) >= 1
  BY DEF PanelInv, QueueInv, Lined, InTurn
<1>2. Ended(ctlProcess, commandQueue, given) = given - Len(commandQueue) - 1
  BY DEF Ended
<1>3. ToSet(done) \cup failed = 1 .. given - Len(commandQueue) - 1
  BY <1>2 DEF PanelInv, DoneInv
<1>4. \A n \in Nat \ {0} : 1 .. n = (1 .. n - 1) \cup {n}
  OBVIOUS
<1> QED BY <1>1, <1>2, <1>3, <1>4

LEMMA PanelCtlFails ==
  ASSUME PanelInv, CtlFails
  PROVE  PanelInv'
<1>1. /\ ctlProcess.at \in {"started", "sent"} /\ Exited(TRUE)
      /\ failed' = failed \cup {ctlProcess.command.id}
      /\ UNCHANGED <<done, lines, polled>>
  BY DEF CtlFails, sockets
<1>2. /\ QueueInv' /\ LineInv'
      /\ Ended(ctlProcess', commandQueue', given') = given - Len(commandQueue)
  BY <1>1, PanelExited
<1>3. ToSet(done)' \cup failed' = 1 .. given - Len(commandQueue)
  BY <1>1, OneMore
<1> QED BY <1>1, <1>2, <1>3 DEF PanelInv, DoneInv

LEMMA PanelDaemonExecutes ==
  ASSUME PanelInv, DaemonExecutes
  PROVE  PanelInv'
<1>1. PICK command \in polled :
        /\ done' = Append(done, command.id)
        /\ polled' = polled \ {command} /\ lines' = lines \ {command}
        /\ ctlProcess' = IF Runs(command) THEN [ctlProcess EXCEPT !.at = "executed"]
                         ELSE ctlProcess
        /\ UNCHANGED <<commandQueue, given, failed>>
  BY DEF DaemonExecutes
<1> DEFINE id == command.id
           ended == Ended(ctlProcess, commandQueue, given)
           before == Before(ctlProcess, commandQueue, given)
<1>2. /\ QueueInv /\ DoneInv /\ LineInv /\ given \in Nat /\ Len(commandQueue) \in Nat
      /\ ended \in Nat /\ before \in Nat /\ before <= ended
  BY Counts DEF PanelInv, QueueInv, Lined
<1>b. /\ done \in Seq(Nat)
      /\ \A i, j \in 1 .. Len(done) : i < j => done[i] < done[j]
      /\ \A i \in 1 .. Len(done) : done[i] < id
  BY <1>1, <1>2 DEF DoneInv, LineInv
<1>3. CASE Runs(command)
  <2>1. ctlProcess.at # "idle" /\ ctlProcess.command = command
    BY <1>3 DEF Runs
  <2>2. ctlProcess.at = "sent"
    BY <1>1, <1>2, <2>1, OneAtATime DEF LineInv
  <2>3. /\ given - Len(commandQueue) \in Nat \ {0}
        /\ id = given - Len(commandQueue) /\ ended = id - 1
        /\ 1 .. id = (ToSet(done) \cup failed) \cup {id}
    BY <2>1, <2>2, OneMore
  <2>4. ctlProcess = [at |-> "sent", command |-> command]
    BY <1>2, <2>1, <2>2 DEF QueueInv, InTurn
  <2>5. ctlProcess' = [at |-> "executed", command |-> command]
    BY <1>1, <1>3, <2>4
  <2>6. InTurn(ctlProcess', commandQueue', given')
    BY <1>1, <2>3, <2>5 DEF InTurn
  <2>7. QueueInv'
    BY <1>1, <1>2, <2>6 DEF QueueInv, Lined
  <2>8. /\ Ended(ctlProcess', commandQueue', given') = id
        /\ Before(ctlProcess', commandQueue', given') = before
    BY <1>1, <2>2, <2>3, <2>5 DEF Ended, Before
  <2>9. /\ done' \in Seq(Nat)
        /\ \A i, j \in 1 .. Len(done') : i < j => done'[i] < done'[j]
        /\ ToSet(done') = ToSet(done) \cup {id}
    BY <1>1, <1>2, <1>b, <2>3, Later
  <2>10. DoneInv'
    BY <1>1, <2>3, <2>8, <2>9 DEF DoneInv
  <2>11. LineInv'
    BY <1>1, <1>2, <2>1, <2>8 DEF LineInv
  <2> QED BY <2>7, <2>10, <2>11 DEF PanelInv
<1>4. CASE ~Runs(command)
  <2>1. command \in lines
    BY <1>1, <1>2 DEF LineInv
  <2>2. ~(ctlProcess.at = "sent" /\ command = ctlProcess.command)
    BY <1>4 DEF Runs
  <2>3. id \in 1 .. before
    BY <1>2, <2>1, <2>2 DEF LineInv
  <2>4. id \in Nat /\ id \in 1 .. ended
    BY <1>2, <2>3
  <2>5. UNCHANGED <<commandQueue, given, failed, ctlProcess>>
    BY <1>1, <1>4
  <2>6. /\ done' \in Seq(Nat)
        /\ \A i, j \in 1 .. Len(done') : i < j => done'[i] < done'[j]
        /\ ToSet(done') = ToSet(done) \cup {id}
    BY <1>1, <1>2, <1>b, <2>4, Later
  <2>7. DoneInv'
    BY <1>2, <2>4, <2>5, <2>6 DEF DoneInv
  <2>8. LineInv'
    BY <1>1, <1>2, <2>5 DEF LineInv
  <2> QED BY <1>2, <2>5, <2>7, <2>8 DEF PanelInv, QueueInv
<1> QED BY <1>3, <1>4

LEMMA PanelCtlSends ==
  ASSUME PanelInv, CtlSends
  PROVE  PanelInv'
<1> DEFINE command == ctlProcess.command
<1>1. /\ ctlProcess.at = "started" /\ ctlProcess' = [ctlProcess EXCEPT !.at = "sent"]
      /\ lines' = lines \cup {command}
      /\ UNCHANGED <<commandQueue, polled, given, done, failed>>
  BY DEF CtlSends
<1>2. ctlProcess = [at |-> "started", command |-> command]
  BY <1>1 DEF PanelInv, QueueInv, InTurn
<1>3. ctlProcess' = [at |-> "sent", command |-> command]
  BY <1>1, <1>2
<1>4. InTurn(ctlProcess', commandQueue', given')
  BY <1>1, <1>3 DEF PanelInv, QueueInv, InTurn
<1>5. /\ Ended(ctlProcess', commandQueue', given') = Ended(ctlProcess, commandQueue, given)
      /\ Before(ctlProcess', commandQueue', given') = Before(ctlProcess, commandQueue, given)
  BY <1>1, <1>3 DEF Ended, Before
<1> HIDE DEF command
<1>6. QueueInv'
  BY <1>1, <1>4 DEF PanelInv, QueueInv
<1>7. DoneInv'
  BY <1>1, <1>5 DEF PanelInv, DoneInv
<1>8. LineInv'
  <2>1. \A line \in lines' :
          \/ line.id \in 1 .. Before(ctlProcess', commandQueue', given')
          \/ ctlProcess'.at = "sent" /\ line = ctlProcess'.command
    BY <1>1, <1>3, <1>5 DEF PanelInv, LineInv
  <2> QED BY <1>1, <2>1 DEF PanelInv, LineInv
<1> QED BY <1>6, <1>7, <1>8 DEF PanelInv

\* A poll finds no line but the one of the process that runs.
LEMMA PanelDaemonPolls ==
  ASSUME PanelInv, DaemonPolls
  PROVE  PanelInv'
<1>1. /\ polled' = {command \in lines : Readable(command)} /\ lines' = polled'
      /\ UNCHANGED <<commandQueue, ctlProcess, given, done, failed>>
  BY DEF DaemonPolls, panel
<1>2. QueueInv /\ DoneInv /\ LineInv
  BY DEF PanelInv
<1>3. QueueInv' /\ DoneInv'
  BY <1>1, <1>2 DEF QueueInv, DoneInv
<1>4. ASSUME NEW command \in polled'
      PROVE  /\ command \in lines /\ command = ctlProcess.command
             /\ ctlProcess.at = "sent"
             /\ \A i \in 1 .. Len(done) : done[i] < command.id
  <2>1. command \in lines /\ ctlProcess.at # "idle" /\ ctlProcess.command = command
    BY <1>1 DEF Readable, Runs
  <2>2. ctlProcess.at = "sent"
    BY <2>1, OneAtATime
  <2>3. /\ command.id \in Nat \ {0}
        /\ ToSet(done) \cup failed = 1 .. command.id - 1
    BY <2>1, <2>2, OneMore DEF PanelInv, DoneInv
  <2>4. \A i \in 1 .. Len(done) : done[i] \in ToSet(done)
    BY <1>2 DEF DoneInv, ToSet
  <2> QED BY <2>1, <2>2, <2>3, <2>4
<1>5. LineInv'
  BY <1>1, <1>4 DEF LineInv
<1> QED BY <1>3, <1>5 DEF PanelInv

\* The lines of a daemon that ends are lost; no other step of the panel moves any.
LEMMA PanelDaemonEnds ==
  ASSUME PanelInv, DaemonEnds
  PROVE  PanelInv'
<1>1. /\ lines' = {} /\ polled' = {}
      /\ UNCHANGED <<commandQueue, ctlProcess, given, done, failed>>
  BY DEF DaemonEnds, panel
<1>2. QueueInv' /\ DoneInv'
  BY <1>1 DEF PanelInv, QueueInv, DoneInv
<1>3. LineInv'
  BY <1>1 DEF LineInv
<1> QED BY <1>2, <1>3 DEF PanelInv

LEMMA PanelNext == PanelInv /\ [Next]_vars => PanelInv'
<1> SUFFICES ASSUME PanelInv, [Next]_vars PROVE PanelInv'
  OBVIOUS
<1>1. CASE SetNoiseMode \/ SetVoiceFocus \/ SetUltMode
  BY <1>1, PanelSet DEF SetNoiseMode, SetVoiceFocus, SetUltMode
<1>2. CASE CtlSends \/ CtlExits \/ CtlFails
  BY <1>2, PanelCtlSends, PanelCtlExits, PanelCtlFails
<1>d. CASE DaemonPolls \/ DaemonExecutes \/ DaemonEnds
  BY <1>d, PanelDaemonPolls, PanelDaemonExecutes, PanelDaemonEnds
<1>3. CASE UNCHANGED <<given, commandQueue, ctlProcess, done, failed, lines, polled>>
  BY <1>3 DEF PanelInv, QueueInv, DoneInv, LineInv
<1>4. CASE ReadFile \/ ApplyStatus \/ Refresh \/ SettleTimerTriggered
  BY <1>3, <1>4 DEF ReadFile, ApplyStatus, Refresh, SettleTimerTriggered, panel, sockets
<1>5. CASE StatusChanges \/ UNCHANGED vars
  BY <1>3, <1>5 DEF StatusChanges, vars, panel, sockets
<1> QED BY <1>1, <1>2, <1>d, <1>4, <1>5 DEF Next

-----------------------------------------------------------------------------
\* The numbers of the command that runs and of those that wait.
LEMMA Pending ==
  ASSUME QueueInv
  PROVE  ToSet(IdsOf(Running \o commandQueue))
           = Ended(ctlProcess, commandQueue, given) + 1 .. given
         \cup IF ctlProcess.at = "executed" THEN {given - Len(commandQueue)} ELSE {}
<1>1. /\ given \in Nat /\ Len(commandQueue) \in Nat /\ Len(commandQueue) <= given
      /\ \A i \in 1 .. Len(commandQueue) :
             commandQueue[i].id = given - Len(commandQueue) + i
  BY DEF QueueInv, Lined
<1>2. CASE ctlProcess.at = "idle"
  <2>1. commandQueue = <<>> /\ Running \o commandQueue = <<>>
    BY <1>2 DEF QueueInv, InTurn, Running
  <2>2. DOMAIN IdsOf(<<>>) = {}
    BY DEF IdsOf
  <2>3. ToSet(IdsOf(<<>>)) = {}
    BY <2>2 DEF ToSet
  <2>4. Ended(ctlProcess, commandQueue, given) = given
    BY <1>1, <1>2, <2>1 DEF Ended
  <2>5. given + 1 .. given = {}
    BY <1>1
  <2> QED BY <1>2, <2>1, <2>3, <2>4, <2>5
<1>3. CASE ctlProcess.at # "idle"
  <2> DEFINE command == ctlProcess.command
             first == given - Len(commandQueue)
             all == <<command>> \o commandQueue
  <2>1. /\ first \in Nat \ {0} /\ command.id = first
        /\ ctlProcess.at \in {"started", "sent", "executed"}
    BY <1>1, <1>3 DEF QueueInv, InTurn
  <2>2. Running = <<command>>
    BY <1>3 DEF Running
  <2>3. /\ Len(all) = Len(commandQueue) + 1
        /\ all[1] = command
        /\ \A i \in 2 .. Len(commandQueue) + 1 : all[i] = commandQueue[i - 1]
    <3>1. PICK S : commandQueue \in Seq(S)
      BY DEF QueueInv, Lined
    <3> HIDE DEF command
    <3>2. commandQueue \in Seq(S \cup {command}) /\ <<command>> \in Seq(S \cup {command})
      BY <3>1
    <3> QED BY <3>2
  <2> HIDE DEF all, command
  <2>4. \A i \in 1 .. Len(commandQueue) + 1 : all[i].id = first + i - 1
    <3> SUFFICES ASSUME NEW i \in 1 .. Len(commandQueue) + 1
                 PROVE  all[i].id = first + i - 1
      OBVIOUS
    <3>1. CASE i = 1
      BY <2>1, <2>3, <3>1
    <3>2. CASE i # 1
      <4>1. i - 1 \in 1 .. Len(commandQueue) /\ all[i] = commandQueue[i - 1]
        BY <1>1, <2>3, <3>2
      <4>2. commandQueue[i - 1].id = first + (i - 1)
        BY <1>1, <4>1
      <4> QED BY <1>1, <4>1, <4>2
    <3> QED BY <3>1, <3>2
  <2>5. /\ DOMAIN IdsOf(all) = 1 .. Len(commandQueue) + 1
        /\ \A i \in 1 .. Len(commandQueue) + 1 : IdsOf(all)[i] = first + i - 1
    BY <2>3, <2>4 DEF IdsOf
  <2>6. ToSet(IdsOf(all)) = first .. given
    <3>1. \A n \in first .. given :
            /\ n - first + 1 \in 1 .. Len(commandQueue) + 1
            /\ n = first + (n - first + 1) - 1
      <4> DEFINE size == Len(commandQueue)
      <4>1. size \in Nat /\ first \in Nat /\ given = first + size
        BY <1>1, <2>1
      <4> HIDE DEF first, size
      <4>2. \A n \in first .. given :
              n - first + 1 \in 1 .. size + 1 /\ n = first + (n - first + 1) - 1
        BY ONLY <4>1
      <4> QED BY <4>2 DEF size
    <3>2. \A i \in 1 .. Len(commandQueue) + 1 : first + i - 1 \in first .. given
      BY <1>1, <2>1
    <3> HIDE DEF first
    <3> QED BY <2>5, <3>1, <3>2 DEF ToSet
  <2>7. first .. given = (first + 1 .. given) \cup {first}
    BY <1>1, <2>1
  <2>8. CASE ctlProcess.at \in {"started", "sent"}
    <3>1. Ended(ctlProcess, commandQueue, given) + 1 = first
      BY <1>1, <2>8 DEF Ended
    <3> QED BY <2>2, <2>6, <2>8, <3>1 DEF all
  <2>9. CASE ctlProcess.at = "executed"
    <3>1. Ended(ctlProcess, commandQueue, given) = first
      BY <2>9 DEF Ended
    <3> QED BY <2>2, <2>6, <2>7, <2>9, <3>1 DEF all
  <2> QED BY <2>1, <2>8, <2>9
<1> QED BY <1>2, <1>3

LEMMA InvAccounts == PanelInv => Accounted
<1> SUFFICES ASSUME PanelInv PROVE Accounted
  OBVIOUS
<1> DEFINE ended == Ended(ctlProcess, commandQueue, given)
           pending == ToSet(IdsOf(Running \o commandQueue))
<1>1. /\ given \in Nat /\ Len(commandQueue) \in Nat /\ Len(commandQueue) <= given
      /\ \A i \in 1 .. Len(commandQueue) :
             commandQueue[i].id = given - Len(commandQueue) + i
      /\ ToSet(done) \cup failed = 1 .. ended
      /\ \A i, j \in 1 .. Len(done) : i < j => done[i] < done[j]
  BY DEF PanelInv, QueueInv, DoneInv, Lined
<1>2. /\ ended \in 0 .. given
      /\ ctlProcess.at = "executed" =>
            ended = given - Len(commandQueue) /\ ended \in 1 .. given
  BY <1>1 DEF PanelInv, QueueInv, InTurn, Ended
<1>3. pending = (ended + 1 .. given)
                  \cup IF ctlProcess.at = "executed" THEN {given - Len(commandQueue)} ELSE {}
  BY Pending DEF PanelInv
<1> HIDE DEF ended, pending
<1>4. 1 .. given = (1 .. ended) \cup (ended + 1 .. given)
  BY <1>1, <1>2
<1>5. 1 .. given = ToSet(done) \cup failed \cup pending
  <2>1. CASE ctlProcess.at = "executed"
    BY <1>1, <1>2, <1>3, <1>4, <2>1
  <2>2. CASE ctlProcess.at # "executed"
    BY <1>1, <1>3, <1>4, <2>2
  <2> QED BY <2>1, <2>2
<1>6. \A i, j \in 1 .. Len(commandQueue) :
        i < j => commandQueue[i].id < commandQueue[j].id
  BY <1>1
<1> QED BY <1>1, <1>5, <1>6 DEF Accounted, pending

\* Commands are executed in the order in which the user gave them, each at most
\* once, also after their sony-ctl gave up, and none is forgotten
\* (Service.qml:83-110, IpcServer.cpp:387-420).
THEOREM NoneForgotten == Spec => []Accounted
  BY PanelInit, PanelNext, InvAccounts, PTL DEF Spec

-----------------------------------------------------------------------------
(* What the panel shows *)

\* Commands that the daemon understands, in a queue and in the process.
Understood(q, process) ==
    /\ \A i \in 1 .. Len(q) : Wellformed(q[i])
    /\ process.at # "idle" => Wellformed(process.command)

Overriding(overrides) ==
    /\ overrides = [s \in Settings |-> overrides[s]]
    /\ \A s \in Settings : overrides[s] = None \/ overrides[s] \in Values[s]

Shown ==
    /\ Overriding(desired)
    /\ \A s \in Settings : real[s] \in Values[s] \/ real[s] = Unknown[s]

IsContent(content) == content = None \/ content \in Document

Bounded == given \in 0 .. MaxSets /\ reports \in 0 .. MaxReports

World ==
    /\ IsContent(file) /\ (loading.has => IsContent(loading.content))
    /\ changed \in BOOLEAN /\ lastError \in BOOLEAN /\ settleTimer \in BOOLEAN
    /\ lines # {} => file \in Document
    /\ \A line \in lines : Wellformed(line)

\* An override has a timer that will end it.
Timed == desired = NoOverrides \/ settleTimer

ShownInv ==
    PanelInv /\ Understood(commandQueue, ctlProcess) /\ Shown /\ World /\ Bounded /\ Timed

LEMMA DispatchedUnderstood ==
  ASSUME NEW q, NEW process, NEW S, q \in Seq(S), Understood(q, process)
  PROVE  Understood(DispatchNext(q, process).queue, DispatchNext(q, process).process)
<1>1. CASE process.at # "idle" \/ q = <<>>
  BY <1>1 DEF DispatchNext
<1>2. CASE ~(process.at # "idle" \/ q = <<>>)
  <2> DEFINE first == Head(q)
             rest == Tail(q)
  <2>1. DispatchNext(q, process)
          = [queue |-> rest, process |-> [at |-> "started", command |-> first]]
    BY <1>2 DEF DispatchNext
  <2>2. /\ Len(q) \in Nat \ {0} /\ first = q[1] /\ Len(rest) = Len(q) - 1
        /\ \A i \in 1 .. Len(q) - 1 : rest[i] = q[i + 1]
    BY <1>2
  <2>3. Wellformed(first) /\ \A i \in 1 .. Len(rest) : Wellformed(rest[i])
    BY <2>2 DEF Understood
  <2> HIDE DEF first, rest
  <2> QED BY <2>1, <2>3 DEF Understood
<1> QED BY <1>1, <1>2

LEMMA AppendedUnderstood ==
  ASSUME NEW q, NEW process, NEW S, q \in Seq(S), Understood(q, process),
         NEW command, Wellformed(command)
  PROVE  Understood(Append(q, command), process) /\ \E T : Append(q, command) \in Seq(T)
<1> DEFINE longer == Append(q, command)
           T == S \cup {command}
<1>1. q \in Seq(T) /\ command \in T
  OBVIOUS
<1> HIDE DEF T
<1>2. /\ longer \in Seq(T) /\ Len(longer) = Len(q) + 1 /\ Len(q) \in Nat
      /\ longer[Len(q) + 1] = command /\ \A i \in 1 .. Len(q) : longer[i] = q[i]
  BY <1>1
<1> HIDE DEF longer
<1>3. \A i \in 1 .. Len(longer) : i \in 1 .. Len(q) \/ longer[i] = command
  BY <1>2
<1>4. \A i \in 1 .. Len(longer) : Wellformed(longer[i])
  BY <1>2, <1>3 DEF Understood
<1>5. Understood(longer, process)
  BY <1>4 DEF Understood
<1> QED BY <1>2, <1>5 DEF longer

\* The commands that wait and the one that runs stay as they are, or the next one is
\* started after the process has ended.
LEMMA ExitedUnderstood ==
  ASSUME ShownInv, NEW error, Exited(error)
  PROVE  Understood(commandQueue', ctlProcess')
<1>1. PICK S : commandQueue \in Seq(S)
  BY DEF ShownInv, PanelInv, QueueInv, Lined
<1>2. Understood(commandQueue, Idle)
  BY DEF ShownInv, Understood, Idle
<1> DEFINE next == DispatchNext(commandQueue, Idle)
<1>3. Understood(next.queue, next.process)
  BY <1>1, <1>2, DispatchedUnderstood
<1>4. commandQueue' = next.queue /\ ctlProcess' = next.process
  BY DEF Exited
<1> HIDE DEF next
<1> QED BY <1>3, <1>4

LEMMA ShownInit == Init => ShownInv
<1> SUFFICES ASSUME Init PROVE ShownInv
  OBVIOUS
<1>1. Understood(commandQueue, ctlProcess)
  BY DEF Init, Understood, Idle
<1>2. Shown
  BY DEF Init, Shown, Overriding, NoOverrides, Unknown
<1>3. World
  <2> DEFINE first == [connected |-> TRUE, noise |-> "anc", voice |-> FALSE, ult |-> 0]
  <2>1. "anc" \in Values.noise /\ FALSE \in Values.voice /\ 0 \in Values.ult
    BY DEF Values
  <2>2. first \in Document
    BY <2>1 DEF Document
  <2>3. file = None \/ file = first
    BY DEF Init
  <2> HIDE DEF first
  <2>4. IsContent(file)
    BY <2>2, <2>3 DEF IsContent
  <2>5. /\ ~loading.has /\ changed \in BOOLEAN /\ lastError \in BOOLEAN
        /\ settleTimer \in BOOLEAN /\ lines = {}
    BY DEF Init
  <2> QED BY <2>4, <2>5 DEF World
<1>4. Bounded
  BY PanelAssumption DEF Init, Bounded
<1>5. Timed
  BY DEF Init, Timed
<1> QED BY <1>1, <1>2, <1>3, <1>4, <1>5, PanelInit DEF ShownInv

LEMMA ShownSet ==
  ASSUME ShownInv, NEW overrides, Overriding(overrides),
         NEW verb \in Settings, NEW value \in Values[verb], Set(overrides, verb, value)
  PROVE  ShownInv'
<1> DEFINE command == [id |-> given + 1, verb |-> verb, value |-> value]
           longer == Append(commandQueue, command)
           next == DispatchNext(longer, ctlProcess)
<1>1. /\ given < MaxSets /\ given' = given + 1 /\ desired' = overrides /\ settleTimer' = TRUE
      /\ commandQueue' = next.queue /\ ctlProcess' = next.process
      /\ UNCHANGED <<real, lastError, file, changed, reports, loading, lines>>
  BY DEF Set, world, sockets
<1>2. Shown /\ World /\ Bounded /\ Understood(commandQueue, ctlProcess)
  BY DEF ShownInv
<1>3. given + 1 \in 1 .. MaxSets
  BY <1>1, <1>2, PanelAssumption DEF Bounded
<1>4. Wellformed(command)
  BY <1>3 DEF Wellformed
<1> HIDE DEF command
<1>5. PICK S : commandQueue \in Seq(S)
  BY DEF ShownInv, PanelInv, QueueInv, Lined
<1>6. Understood(longer, ctlProcess) /\ \E T : longer \in Seq(T)
  BY <1>2, <1>4, <1>5, AppendedUnderstood
<1> HIDE DEF longer
<1>7. PICK T : longer \in Seq(T)
  BY <1>6
<1>8. Understood(next.queue, next.process)
  BY <1>6, <1>7, DispatchedUnderstood
<1> HIDE DEF next
<1>9. Understood(commandQueue', ctlProcess')
  BY <1>1, <1>8
<1>10. Shown'
  BY <1>1, <1>2 DEF Shown
<1>11. World'
  BY <1>1, <1>2 DEF World
<1>12. Bounded'
  BY <1>1, <1>2, PanelAssumption DEF Bounded
<1>13. Timed'
  BY <1>1 DEF Timed
<1>14. PanelInv'
  BY PanelSet DEF ShownInv
<1> QED BY <1>9, <1>10, <1>11, <1>12, <1>13, <1>14 DEF ShownInv

LEMMA Overridden ==
  ASSUME Overriding(desired), NEW s \in Settings, NEW v \in Values[s]
  PROVE  Overriding([desired EXCEPT ![s] = v])
  BY DEF Overriding

\* The focus on voice sets the noise mode, too.
LEMMA ShownSetters ==
  ASSUME ShownInv, SetNoiseMode \/ SetVoiceFocus \/ SetUltMode
  PROVE  ShownInv'
<1>1. Overriding(desired)
  BY DEF ShownInv, Shown
<1>2. {"noise", "voice", "ult"} \subseteq Settings /\ "ambient" \in Values["noise"]
  BY DEF Settings, Values
<1>3. ASSUME NEW mode \in Values.noise, Set([desired EXCEPT !["noise"] = mode], "noise", mode)
      PROVE  ShownInv'
  <2> DEFINE s == "noise"
             overrides == [desired EXCEPT ![s] = mode]
  <2>1. s \in Settings /\ mode \in Values[s] /\ Set(overrides, s, mode)
    BY <1>2, <1>3 DEF Values
  <2> HIDE DEF s
  <2>2. Overriding(overrides)
    BY <1>1, <2>1, Overridden
  <2> HIDE DEF overrides
  <2> QED BY <2>1, <2>2, ShownSet
<1>4. ASSUME NEW mode \in Values.ult, Set([desired EXCEPT !["ult"] = mode], "ult", mode)
      PROVE  ShownInv'
  <2> DEFINE s == "ult"
             overrides == [desired EXCEPT ![s] = mode]
  <2>1. s \in Settings /\ mode \in Values[s] /\ Set(overrides, s, mode)
    BY <1>2, <1>4 DEF Values
  <2> HIDE DEF s
  <2>2. Overriding(overrides)
    BY <1>1, <2>1, Overridden
  <2> HIDE DEF overrides
  <2> QED BY <2>1, <2>2, ShownSet
<1>5. CASE SetVoiceFocus
  <2> DEFINE s == "voice"
             enabled == ~Effective("voice")
             overrides == [desired EXCEPT !["noise"] = "ambient", ![s] = enabled]
  <2>1. s \in Settings /\ enabled \in Values[s] /\ Set(overrides, s, enabled)
    BY <1>2, <1>5 DEF Values, SetVoiceFocus
  <2>2. s # "noise"
    OBVIOUS
  <2> HIDE DEF s, enabled
  <2>3. Overriding(overrides)
    BY <1>1, <1>2, <2>1, <2>2 DEF Overriding
  <2> HIDE DEF overrides
  <2> QED BY <2>1, <2>3, ShownSet
<1> QED BY <1>3, <1>4, <1>5 DEF SetNoiseMode, SetUltMode

LEMMA Parsed ==
  ASSUME NEW content, IsContent(content)
  PROVE  \A s \in Settings : \/ ParseStatus(content)[s] \in Values[s]
                            \/ ParseStatus(content)[s] = Unknown[s]
<1>1. CASE content = None \/ ~content.connected
  BY <1>1 DEF ParseStatus
<1>2. CASE content \in Document /\ ~(content = None \/ ~content.connected)
  <2>1. /\ content.noise \in Values.noise /\ content.voice \in Values.voice
        /\ content.ult \in Values.ult
    BY <1>2 DEF Document
  <2>2. ParseStatus(content)
          = [noise |-> content.noise, voice |-> content.voice, ult |-> content.ult]
    BY <1>2 DEF ParseStatus
  <2> QED BY <2>1, <2>2 DEF Settings, Values
<1> QED BY <1>1, <1>2 DEF IsContent

LEMMA ShownApply ==
  ASSUME ShownInv, ApplyStatus
  PROVE  ShownInv'
<1>1. /\ loading.has /\ real' = ParseStatus(loading.content)
      /\ desired' = [s \in Settings |-> IF desired[s] = real'[s] THEN None ELSE desired[s]]
      /\ settleTimer' = (settleTimer /\ ~Settled(desired'))
      /\ lastError' = (loading.content = None) /\ loading' = [has |-> FALSE]
      /\ UNCHANGED <<commandQueue, ctlProcess, file, changed, reports, lines, given, done,
                     failed>>
  BY DEF ApplyStatus, Reconciled, world, sockets
<1>2. PanelInv /\ Understood(commandQueue, ctlProcess) /\ Shown /\ World /\ Bounded /\ Timed
  BY DEF ShownInv
<1>3. PanelInv'
  BY <1>2, PanelNext DEF Next
<1>4. Shown'
  <2>1. Overriding(desired')
    BY <1>1, <1>2 DEF Shown, Overriding
  <2>2. \A s \in Settings : real'[s] \in Values[s] \/ real'[s] = Unknown[s]
    BY <1>1, <1>2, Parsed DEF World
  <2> QED BY <2>1, <2>2 DEF Shown
<1>5. World'
  BY <1>1, <1>2 DEF World
<1>6. Timed'
  <2>1. CASE desired = NoOverrides
    BY <1>1, <2>1 DEF Timed, NoOverrides
  <2>2. CASE settleTimer
    BY <1>1, <2>2 DEF Timed, Settled
  <2> QED BY <1>2, <2>1, <2>2 DEF Timed
<1>7. Understood(commandQueue, ctlProcess)' /\ Bounded'
  BY <1>1, <1>2 DEF Understood, Bounded
<1> QED BY <1>3, <1>4, <1>5, <1>6, <1>7 DEF ShownInv

LEMMA ShownDaemonExecutes ==
  ASSUME ShownInv, DaemonExecutes
  PROVE  ShownInv'
<1>1. PICK command \in polled :
        /\ file' = Publishes(file, command)
        /\ changed' = TRUE /\ lines' = lines \ {command}
        /\ ctlProcess' = IF Runs(command) THEN [ctlProcess EXCEPT !.at = "executed"]
                         ELSE ctlProcess
        /\ UNCHANGED <<desired, real, settleTimer, commandQueue, lastError, reports, loading,
                       given>>
  BY DEF DaemonExecutes
<1>2. PanelInv /\ Understood(commandQueue, ctlProcess) /\ Shown /\ World /\ Bounded /\ Timed
  BY DEF ShownInv
<1>3. PanelInv'
  BY <1>2, PanelDaemonExecutes
<1>4. command \in lines /\ Wellformed(command)
  BY <1>1, <1>2 DEF PanelInv, LineInv, World
<1>5. ctlProcess.at # "idle" => ctlProcess = [at |-> ctlProcess.at, command |-> ctlProcess.command]
  BY <1>2 DEF PanelInv, QueueInv, InTurn
<1>6. ctlProcess' = ctlProcess \/ ctlProcess' = [at |-> "executed", command |-> command]
  BY <1>1, <1>5 DEF Runs
<1>7. Understood(commandQueue, ctlProcess)'
  BY <1>1, <1>2, <1>4, <1>6 DEF Understood
<1>8. file' \in Document
  <2>1. file \in Document
    BY <1>2, <1>4 DEF World
  <2>2. file = [connected |-> file.connected, noise |-> file.noise, voice |-> file.voice,
                ult |-> file.ult]
        /\ file.connected \in BOOLEAN /\ file.noise \in Values.noise
        /\ file.voice \in Values.voice /\ file.ult \in Values.ult
    BY <2>1 DEF Document
  <2>3. command.verb \in Settings /\ command.value \in Values[command.verb]
    BY <1>4 DEF Wellformed
  <2>4. CASE command.verb = "noise"
    <3>1. command.value \in Values.noise
      BY <2>3, <2>4
    <3>2. file' = [file EXCEPT !.noise = command.value]
      BY <1>1, <2>4 DEF Publishes
    <3> QED BY <2>1, <3>1, <3>2 DEF Document
  <2>5. CASE command.verb = "voice"
    <3>1. command.value \in Values.voice /\ "ambient" \in Values.noise
      BY <2>3, <2>5 DEF Values
    <3>2. file' = [file EXCEPT !.noise = "ambient", !.voice = command.value]
      BY <1>1, <2>5 DEF Publishes
    <3> QED BY <2>1, <3>1, <3>2 DEF Document
  <2>6. CASE command.verb = "ult"
    <3>1. command.value \in Values.ult
      BY <2>3, <2>6
    <3>2. file' = [file EXCEPT !.ult = command.value]
      BY <1>1, <2>6 DEF Publishes
    <3> QED BY <2>1, <3>1, <3>2 DEF Document
  <2> QED BY <2>3, <2>4, <2>5, <2>6 DEF Settings
<1>9. World'
  BY <1>1, <1>2, <1>8 DEF World, IsContent
<1>10. Shown' /\ Bounded' /\ Timed'
  BY <1>1, <1>2 DEF Shown, Bounded, Timed
<1> QED BY <1>3, <1>7, <1>9, <1>10 DEF ShownInv

LEMMA ShownCtlSends ==
  ASSUME ShownInv, CtlSends
  PROVE  ShownInv'
<1> DEFINE command == ctlProcess.command
<1>1. /\ ctlProcess.at = "started" /\ file # None
      /\ ctlProcess' = [ctlProcess EXCEPT !.at = "sent"] /\ lines' = lines \cup {command}
      /\ UNCHANGED <<desired, real, settleTimer, commandQueue, lastError, file, changed, reports,
                     loading, given>>
  BY DEF CtlSends, world
<1>2. PanelInv /\ Understood(commandQueue, ctlProcess) /\ Shown /\ World /\ Bounded /\ Timed
  BY DEF ShownInv
<1>3. PanelInv'
  BY <1>2, PanelCtlSends
<1>4. Wellformed(command)
  BY <1>1, <1>2 DEF Understood
<1>5. ctlProcess' = [at |-> "sent", command |-> command]
  BY <1>1, <1>2 DEF PanelInv, QueueInv, InTurn
<1> HIDE DEF command
<1>6. Understood(commandQueue, ctlProcess)'
  BY <1>1, <1>2, <1>4, <1>5 DEF Understood
<1>7. World'
  BY <1>1, <1>2, <1>4 DEF World, IsContent
<1>8. Shown' /\ Bounded' /\ Timed'
  BY <1>1, <1>2 DEF Shown, Bounded, Timed
<1> QED BY <1>3, <1>6, <1>7, <1>8 DEF ShownInv

LEMMA ShownExits ==
  ASSUME ShownInv, CtlExits \/ CtlFails
  PROVE  ShownInv'
<1>1. PICK error \in BOOLEAN : Exited(error)
  BY DEF CtlExits, CtlFails
<1>2. UNCHANGED <<desired, real, settleTimer, loading, given, file, changed, reports, lines>>
  BY <1>1 DEF Exited, CtlExits, CtlFails, world, sockets
<1>3. lastError' \in BOOLEAN
  BY <1>1 DEF Exited
<1>4. Understood(commandQueue', ctlProcess')
  BY <1>1, ExitedUnderstood
<1>5. PanelInv'
  BY PanelCtlExits, PanelCtlFails DEF ShownInv
<1>6. Shown' /\ World' /\ Bounded' /\ Timed'
  BY <1>2, <1>3 DEF ShownInv, Shown, World, Bounded, Timed
<1> QED BY <1>4, <1>5, <1>6 DEF ShownInv

\* Steps of the file, of the timer and of poll(); no command of the panel moves.
LEMMA ShownOther ==
  ASSUME ShownInv, ReadFile \/ Refresh \/ SettleTimerTriggered \/ StatusChanges
                   \/ DaemonPolls \/ DaemonEnds \/ UNCHANGED vars
  PROVE  ShownInv'
<1>1. PanelInv /\ Understood(commandQueue, ctlProcess) /\ Shown /\ World /\ Bounded /\ Timed
  BY DEF ShownInv
<1>2. PanelInv'
  BY <1>1, PanelNext DEF Next
<1>3. UNCHANGED <<commandQueue, ctlProcess, real, lastError, given>>
  BY DEF ReadFile, Refresh, SettleTimerTriggered, StatusChanges, DaemonPolls, DaemonEnds, vars,
         panel
<1>4. Understood(commandQueue, ctlProcess)'
  BY <1>1, <1>3 DEF Understood
<1>5. Shown' /\ Timed'
  <2>1. CASE SettleTimerTriggered
    <3>1. Overriding(NoOverrides)
      BY DEF Overriding, NoOverrides
    <3> QED BY <1>1, <1>3, <2>1, <3>1 DEF SettleTimerTriggered, Shown, Timed
  <2>2. CASE UNCHANGED <<desired, settleTimer>>
    BY <1>1, <1>3, <2>2 DEF Shown, Timed
  <2> QED BY <2>1, <2>2 DEF ReadFile, Refresh, StatusChanges, DaemonPolls, DaemonEnds, vars,
                            panel
<1>6. World' /\ Bounded'
  <2>1. CASE ReadFile
    BY <1>1, <1>3, <2>1 DEF ReadFile, World, Bounded, panel, sockets
  <2>2. CASE Refresh
    BY <1>1, <1>3, <2>2 DEF Refresh, World, Bounded, panel, sockets
  <2>3. CASE SettleTimerTriggered
    BY <1>1, <1>3, <2>3 DEF SettleTimerTriggered, World, Bounded, world, sockets
  <2>4. CASE StatusChanges
    <3>1. /\ reports < MaxReports /\ reports' = reports + 1
          /\ file' \in Document /\ IsContent(file')
          /\ changed' = TRUE /\ UNCHANGED <<loading, settleTimer, lines>>
      BY <2>4 DEF StatusChanges, IsContent, panel, sockets
    <3> QED BY <1>1, <1>3, <3>1, PanelAssumption DEF World, Bounded
  <2>5. CASE UNCHANGED vars
    BY <1>1, <1>3, <2>5 DEF vars, panel, world, sockets, World, Bounded
  <2>6. CASE DaemonPolls
    <3>1. /\ lines' \subseteq lines
          /\ UNCHANGED <<file, changed, loading, settleTimer, reports>>
      BY <2>6 DEF DaemonPolls, panel, world
    <3> QED BY <1>1, <1>3, <3>1 DEF World, Bounded
  <2>7. CASE DaemonEnds
    <3>1. /\ lines' = {} /\ (file' = None \/ file' = file)
          /\ changed' \in {TRUE, changed}
          /\ \/ reports' = reports
             \/ reports < MaxReports /\ reports' = reports + 1
          /\ UNCHANGED <<loading, settleTimer>>
      BY <2>7 DEF DaemonEnds, panel, world
    <3>2. IsContent(file')
      BY <1>1, <3>1 DEF World, IsContent
    <3>3. World'
      BY <1>1, <1>3, <3>1, <3>2 DEF World
    <3>4. Bounded'
      BY <1>1, <1>3, <3>1, PanelAssumption DEF Bounded
    <3> QED BY <3>3, <3>4
  <2> QED BY <2>1, <2>2, <2>3, <2>4, <2>5, <2>6, <2>7
<1> QED BY <1>2, <1>4, <1>5, <1>6 DEF ShownInv

LEMMA ShownNext == ShownInv /\ [Next]_vars => ShownInv'
<1> SUFFICES ASSUME ShownInv, [Next]_vars PROVE ShownInv'
  OBVIOUS
<1>1. CASE SetNoiseMode \/ SetVoiceFocus \/ SetUltMode
  BY <1>1, ShownSetters
<1>2. CASE CtlExits \/ CtlFails
  BY <1>2, ShownExits
<1>s. CASE CtlSends
  BY <1>s, ShownCtlSends
<1>3. CASE DaemonExecutes
  BY <1>3, ShownDaemonExecutes
<1>4. CASE ApplyStatus
  BY <1>4, ShownApply
<1>5. CASE \/ ReadFile \/ Refresh \/ SettleTimerTriggered \/ StatusChanges
            \/ DaemonPolls \/ DaemonEnds \/ UNCHANGED vars
  BY <1>5, ShownOther
<1> QED BY <1>1, <1>2, <1>s, <1>3, <1>4, <1>5 DEF Next

\* TypeOK: also that every command queued is one the daemon can be told, and every
\* override a value of its setting.
THEOREM PanelTypeCorrect == Spec => []TypeOK
<1>1. ShownInv => TypeOK
  <2> SUFFICES ASSUME ShownInv PROVE TypeOK
    OBVIOUS
  <2>1. /\ \A s \in Settings : desired[s] = None \/ desired[s] \in Values[s]
        /\ \A s \in Settings : real[s] \in Values[s] \/ real[s] = Unknown[s]
        /\ \A i \in 1 .. Len(commandQueue) : Wellformed(commandQueue[i])
        /\ ctlProcess.at # "idle" => Wellformed(ctlProcess.command)
    BY DEF ShownInv, Shown, Overriding, Understood
  <2>2. /\ file = None \/ file \in Document
        /\ loading.has => loading.content = None \/ loading.content \in Document
        /\ changed \in BOOLEAN /\ lastError \in BOOLEAN /\ settleTimer \in BOOLEAN
        /\ given \in 0 .. MaxSets /\ reports \in 0 .. MaxReports
    BY DEF ShownInv, World, IsContent, Bounded
  <2>3. /\ ctlProcess.at \in {"idle", "started", "sent", "executed"}
        /\ polled \subseteq lines /\ \A command \in lines : Wellformed(command)
    BY DEF ShownInv, World, PanelInv, QueueInv, LineInv, InTurn
  <2>4. ToSet(done) \cup failed \subseteq 1 .. given
    BY InvAccounts DEF ShownInv, Accounted
  <2> QED BY <2>1, <2>2, <2>3, <2>4 DEF TypeOK
<1> QED BY ShownInit, ShownNext, <1>1, PTL DEF Spec

\* The one timer runs as long as any setting is overridden, whichever setters, partial
\* confirmations and timeouts came before: no override outlives it (Service.qml:63-78).
THEOREM OverridesAreTimed == Spec => [](desired = NoOverrides \/ settleTimer)
<1>1. ShownInv => desired = NoOverrides \/ settleTimer
  BY DEF ShownInv, Timed
<1> QED BY ShownInit, ShownNext, <1>1, PTL DEF Spec
=============================================================================
