----------------------------- MODULE CtlProofs -----------------------------
(***************************************************************************)
(* Machine-checked facts about Ctl, for every set of runs, command lines   *)
(* and lines of other programs.                                            *)
(*                                                                         *)
(* InOrder is not inductive.  A run that ended before another one started  *)
(* may still have a line in the kernel; what keeps it from being executed  *)
(* later is that a poll() which finds the later run's line finds the       *)
(* hangup of the earlier one, and that hangups win.                        *)
(*                                                                         *)
(* ExitCodes and Agreement follow from CtlInv, which says of each run what *)
(* the daemon holds of it and has done for it: nothing before its line was *)
(* sent, nothing while the line is unread, and afterwards once what the    *)
(* line says.                                                              *)
(***************************************************************************)
EXTENDS Ctl, SequenceTheorems, FiniteSetTheorems, TLAPS

IsProcess(p) ==
    /\ p = [field \in DOMAIN p |-> p[field]]
    /\ {"phase", "earlier"} \subseteq DOMAIN p

Shape ==
    /\ run = [r \in Runs |-> run[r]] /\ \A r \in Runs : IsProcess(run[r])
    /\ conn = [r \in Runs |-> conn[r]]
    /\ unread = [r \in Runs |-> unread[r]]
    /\ reply = [r \in Runs |-> reply[r]]
    /\ revents = [r \in Runs |-> revents[r]]
    /\ \E S : executed \in Seq(S)
    /\ \A i \in 1 .. Len(executed) : executed[i].run \in Runs

Did(r) == \E i \in 1 .. Len(executed) : executed[i].run = r

\* The daemon knows nothing of a run that has not started.
Unknown ==
    \A r \in Runs : run[r].phase = "ready" =>
        conn[r] = "none" /\ revents[r] = "" /\ ~Did(r)

EarlierEnded ==
    \A r \in Runs : \A e \in run[r].earlier : e \in Runs /\ run[e].phase = "ended"

\* Once a poll() has found a run's line, no line of an earlier run is served.
Overtaken ==
    \A r \in Runs : revents[r] = "POLLIN" \/ Did(r) =>
        \A e \in run[r].earlier : revents[e] # "POLLIN"

OrderInv == Shape /\ Unknown /\ EarlierEnded /\ Overtaken /\ InOrder

-----------------------------------------------------------------------------
LEMMA Appended ==
  ASSUME NEW S, NEW s \in Seq(S), NEW e
  PROVE  /\ \E T : Append(s, e) \in Seq(T)
         /\ Len(Append(s, e)) = Len(s) + 1 /\ Len(s) \in Nat
         /\ \A i \in 1 .. Len(s) : Append(s, e)[i] = s[i]
         /\ Append(s, e)[Len(s) + 1] = e
<1>1. s \in Seq(S \cup {e})
  OBVIOUS
<1> QED BY <1>1

LEMMA Empty == \E S : <<>> \in Seq(S)
<1>1. <<>> \in Seq({})
  OBVIOUS
<1> QED BY <1>1

LEMMA OrderInit == Init => OrderInv
<1> SUFFICES ASSUME Init PROVE OrderInv
  OBVIOUS
<1>1. \A r \in Runs : IsProcess(run[r])
  BY DEF Init, IsProcess, Unused
<1>2. 1 .. Len(executed) = {}
  <2>1. Len(executed) = 0
    BY DEF Init
  <2> QED BY <2>1
<1>3. \E S : executed \in Seq(S)
  BY Empty DEF Init
<1>4. Shape
  <2>1. /\ run = [r \in Runs |-> run[r]] /\ conn = [r \in Runs |-> conn[r]]
        /\ unread = [r \in Runs |-> unread[r]] /\ reply = [r \in Runs |-> reply[r]]
        /\ revents = [r \in Runs |-> revents[r]]
    BY DEF Init
  <2> QED BY <1>1, <1>2, <1>3, <2>1 DEF Shape
<1>5. /\ \A r \in Runs : conn[r] = "none" /\ revents[r] = "" /\ run[r].earlier = {}
      /\ \A r \in Runs : ~Did(r)
  BY <1>2 DEF Init, Unused, Did
<1> QED BY <1>2, <1>4, <1>5 DEF OrderInv, Unknown, EarlierEnded, Overtaken, InOrder

\* A step of a started run: only its phase matters here.
LEMMA ClientStep ==
  ASSUME OrderInv, NEW r \in Runs, run[r].phase \notin {"ready", "ended"},
         UNCHANGED <<revents, executed>>, Shape',
         \A q \in Runs : run'[q].earlier = run[q].earlier,
         \A q \in Runs : q # r => run'[q].phase = run[q].phase,
         run'[r].phase # "ready",
         \A q \in Runs : q # r => conn'[q] = conn[q]
  PROVE  OrderInv'
<1>1. \A q \in Runs : Did(q)' = Did(q)
  BY DEF Did
<1>2. Unknown'
  BY <1>1 DEF OrderInv, Unknown
<1>3. EarlierEnded'
  BY DEF OrderInv, EarlierEnded
<1>4. Overtaken'
  BY <1>1 DEF OrderInv, EarlierEnded, Overtaken
<1>5. InOrder'
  BY DEF OrderInv, Shape, InOrder
<1> QED BY <1>2, <1>3, <1>4, <1>5 DEF OrderInv

\* A step of the daemon that serves no line.
LEMMA DaemonStep ==
  ASSUME OrderInv, UNCHANGED <<run, executed>>, Shape',
         \A q \in Runs : run[q].phase = "ready" /\ conn[q] = "none" => conn'[q] = "none",
         \A q \in Runs : revents'[q] \in {revents[q], ""}
  PROVE  OrderInv'
<1>1. \A q \in Runs : Did(q)' = Did(q)
  BY DEF Did
<1>2. Unknown'
  BY <1>1 DEF OrderInv, Unknown
<1>3. EarlierEnded'
  BY DEF OrderInv, EarlierEnded
<1>4. Overtaken'
  BY <1>1 DEF OrderInv, EarlierEnded, Overtaken
<1>5. InOrder'
  BY DEF OrderInv, InOrder
<1> QED BY <1>2, <1>3, <1>4, <1>5 DEF OrderInv

\* A run starts: what has ended by now is earlier, and nothing of it is known.
LEMMA StartStep ==
  ASSUME OrderInv, NEW r \in Runs, run[r].phase = "ready",
         UNCHANGED <<conn, revents, executed>>, Shape',
         run'[r].earlier = Ended, run'[r].phase # "ready",
         \A q \in Runs : q # r => run'[q] = run[q]
  PROVE  OrderInv'
<1>1. \A q \in Runs : Did(q)' = Did(q)
  BY DEF Did
<1>2. revents[r] = "" /\ ~Did(r)
  BY DEF OrderInv, Unknown
<1>3. \A e \in Ended : e \in Runs /\ e # r /\ run'[e].phase = "ended"
  BY DEF Ended
<1>4. Unknown'
  BY <1>1 DEF OrderInv, Unknown
<1>5. EarlierEnded'
  BY <1>3 DEF OrderInv, EarlierEnded
<1>6. Overtaken'
  BY <1>1, <1>2 DEF OrderInv, Overtaken
<1>7. InOrder'
  BY <1>2 DEF OrderInv, Shape, InOrder, Did
<1> QED BY <1>4, <1>5, <1>6, <1>7 DEF OrderInv

-----------------------------------------------------------------------------
(* What the steps do to the shape of the state *)

LEMMA PhaseUpdate ==
  ASSUME NEW p, IsProcess(p), NEW a, NEW q, q = [p EXCEPT !.phase = a]
  PROVE  IsProcess(q) /\ q.phase = a /\ q.earlier = p.earlier
  BY DEF IsProcess

\* A process moves to another phase.
LEMMA PhaseStep ==
  ASSUME Shape, NEW r \in Runs, NEW a, run' = [run EXCEPT ![r].phase = a]
  PROVE  /\ run' = [q \in Runs |-> run'[q]] /\ \A q \in Runs : IsProcess(run'[q])
         /\ \A q \in Runs : run'[q].earlier = run[q].earlier
         /\ \A q \in Runs : q # r => run'[q] = run[q]
         /\ run'[r].phase = a
<1>1. run' = [q \in Runs |-> IF q = r THEN [run[r] EXCEPT !.phase = a] ELSE run[q]]
  BY DEF Shape
<1> DEFINE e == [run[r] EXCEPT !.phase = a]
<1>2. IsProcess(run[r])
  BY DEF Shape
<1>3. IsProcess(e) /\ e.phase = a /\ e.earlier = run[r].earlier
  BY <1>2, PhaseUpdate
<1> HIDE DEF e
<1>4. run' = [q \in Runs |-> IF q = r THEN e ELSE run[q]]
  BY <1>1 DEF e
<1> QED BY <1>3, <1>4 DEF Shape

LEMMA EndsWithStep ==
  ASSUME Shape, NEW r \in Runs, NEW code, EndsWith(r, code)
  PROVE  /\ run' = [q \in Runs |-> run'[q]] /\ \A q \in Runs : IsProcess(run'[q])
         /\ \A q \in Runs : run'[q].earlier = run[q].earlier
         /\ \A q \in Runs : q # r => run'[q] = run[q]
         /\ run'[r].phase = "ended"
<1> DEFINE e == [run[r] EXCEPT !.phase = "ended", !.exit = code, !.refused = (reply[r] = "ERR")]
<1>1. run' = [q \in Runs |-> IF q = r THEN e ELSE run[q]]
  BY DEF Shape, EndsWith
<1>2. IsProcess(run[r])
  BY DEF Shape
<1>3. IsProcess(e) /\ e.phase = "ended" /\ e.earlier = run[r].earlier
  <2> DEFINE refused == (reply[r] = "ERR")
  <2> HIDE DEF refused
  <2>1. e = [run[r] EXCEPT !.phase = "ended", !.exit = code, !.refused = refused]
    BY DEF refused
  <2> HIDE DEF e
  <2> QED BY <1>2, <2>1 DEF IsProcess
<1> QED BY <1>1, <1>3 DEF Shape

LEMMA LaunchedProcess ==
  ASSUME NEW raw, NEW means, NEW line, NEW status, NEW exit
  PROVE  /\ IsProcess(Launched(raw, means, line, status, exit))
         /\ Launched(raw, means, line, status, exit).earlier = Ended
         /\ Launched(raw, means, line, status, exit).phase # "ready"
<1> DEFINE phase == IF exit = -1 THEN "connecting" ELSE "ended"
           p == [phase |-> phase, raw |-> raw, means |-> means, line |-> line,
                 status |-> status, exit |-> exit, refused |-> FALSE, earlier |-> Ended]
<1>1. phase # "ready"
  OBVIOUS
<1>2. Launched(raw, means, line, status, exit) = p
  BY DEF Launched
<1> HIDE DEF phase
<1>3. p = [field \in DOMAIN p |-> p[field]] /\ {"phase", "earlier"} \subseteq DOMAIN p
  OBVIOUS
<1>4. p.earlier = Ended /\ p.phase = phase
  OBVIOUS
<1> HIDE DEF p
<1> QED BY <1>1, <1>2, <1>3, <1>4 DEF IsProcess

\* Whatever command line or raw line a run is started with.
LEMMA Started ==
  ASSUME Shape, NEW r \in Runs, Run(r) \/ RunOther(r)
  PROVE  /\ run' = [q \in Runs |-> run'[q]] /\ \A q \in Runs : IsProcess(run'[q])
         /\ run'[r].earlier = Ended /\ run'[r].phase # "ready"
         /\ \A q \in Runs : q # r => run'[q] = run[q]
<1>1. \E p : /\ IsProcess(p) /\ p.earlier = Ended /\ p.phase # "ready"
             /\ run' = [run EXCEPT ![r] = p]
  <2>1. \E raw, means, line, status, exit :
            run' = [run EXCEPT ![r] = Launched(raw, means, line, status, exit)]
    <3>1. CASE Run(r)
      <4>1. PICK u \in Usage :
              LET does == CommandLine(u.args)
              IN  run' = [run EXCEPT ![r] =
                      IF does.exit = -1 /\ does.socket # ""
                      THEN Launched(FALSE, u.means, <<>>, FALSE, 2)
                      ELSE Launched(FALSE, u.means, does.line, does.status, does.exit)]
        BY <3>1 DEF Run
      <4> DEFINE does == CommandLine(u.args)
      <4>2. CASE does.exit = -1 /\ does.socket # ""
        BY <4>1, <4>2
      <4>3. CASE ~(does.exit = -1 /\ does.socket # "")
        BY <4>1, <4>3
      <4> QED BY <4>2, <4>3
    <3>2. CASE RunOther(r)
      BY <3>2 DEF RunOther
    <3> QED BY <3>1, <3>2
  <2>2. PICK raw, means, line, status, exit :
            run' = [run EXCEPT ![r] = Launched(raw, means, line, status, exit)]
    BY <2>1
  <2> DEFINE p == Launched(raw, means, line, status, exit)
  <2>3. IsProcess(p) /\ p.earlier = Ended /\ p.phase # "ready"
    BY LaunchedProcess
  <2>4. run' = [run EXCEPT ![r] = p]
    BY <2>2
  <2> HIDE DEF p
  <2> QED BY <2>3, <2>4
<1>2. PICK p : /\ IsProcess(p) /\ p.earlier = Ended /\ p.phase # "ready"
               /\ run' = [run EXCEPT ![r] = p]
  BY <1>1
<1>3. run' = [q \in Runs |-> IF q = r THEN p ELSE run[q]]
  BY <1>2 DEF Shape
<1> QED BY <1>2, <1>3 DEF Shape

-----------------------------------------------------------------------------
(* Every action preserves the invariant *)

\* The parts of the shape that an action leaves alone.
LEMMA Unchanged ==
  ASSUME Shape
  PROVE  /\ UNCHANGED conn => conn' = [q \in Runs |-> conn'[q]]
         /\ UNCHANGED unread => unread' = [q \in Runs |-> unread'[q]]
         /\ UNCHANGED reply => reply' = [q \in Runs |-> reply'[q]]
         /\ UNCHANGED revents => revents' = [q \in Runs |-> revents'[q]]
         /\ UNCHANGED run => /\ run' = [q \in Runs |-> run'[q]]
                             /\ \A q \in Runs : IsProcess(run'[q])
         /\ UNCHANGED executed => /\ \E S : executed' \in Seq(S)
                                  /\ \A i \in 1 .. Len(executed') : executed'[i].run \in Runs
  BY DEF Shape

LEMMA OrderRun ==
  ASSUME OrderInv, NEW r \in Runs, Run(r) \/ RunOther(r)
  PROVE  OrderInv'
<1>1. Shape /\ UNCHANGED <<conn, unread, reply, revents, executed>>
  BY DEF OrderInv, Run, RunOther, daemon
<1>2. run[r].phase = "ready"
  BY DEF Run, RunOther
<1>3. Shape'
  BY <1>1, Started, Unchanged DEF Shape
<1> QED BY <1>1, <1>2, <1>3, Started, StartStep

LEMMA OrderProcess ==
  ASSUME OrderInv, NEW r \in Runs, Process(r)
  PROVE  OrderInv'
<1>1. Shape
  BY DEF OrderInv
<1>2. CASE Connect(r)
  <2>1. /\ run[r].phase = "connecting" /\ run' = [run EXCEPT ![r].phase = "sending"]
        /\ conn' = [conn EXCEPT ![r] = "backlog"]
        /\ UNCHANGED <<unread, reply, revents, executed>>
    BY <1>2 DEF Connect
  <2>2. conn' = [q \in Runs |-> conn'[q]] /\ \A q \in Runs : q # r => conn'[q] = conn[q]
    BY <1>1, <2>1 DEF Shape
  <2>3. Shape'
    BY <1>1, <2>1, <2>2, PhaseStep, Unchanged DEF Shape
  <2> QED BY <1>1, <2>1, <2>2, <2>3, PhaseStep, ClientStep
<1>3. CASE ConnectFails(r)
  <2>1. /\ run[r].phase = "connecting" /\ EndsWith(r, 2)
        /\ UNCHANGED <<conn, unread, reply, revents, executed>>
    BY <1>3 DEF ConnectFails, daemon
  <2>2. Shape'
    BY <1>1, <2>1, EndsWithStep, Unchanged DEF Shape
  <2> QED BY <1>1, <2>1, <2>2, EndsWithStep, ClientStep
<1>4. CASE Send(r)
  <2>1. run[r].phase = "sending" /\ UNCHANGED <<conn, reply, revents, executed>>
    BY <1>4 DEF Send, daemon
  <2>2. CASE EndsWith(r, 1) /\ UNCHANGED unread
    <3>1. Shape'
      BY <1>1, <2>1, <2>2, EndsWithStep, Unchanged DEF Shape
    <3> QED BY <1>1, <2>1, <2>2, <3>1, EndsWithStep, ClientStep
  <2>3. CASE /\ run' = [run EXCEPT ![r].phase = "waiting"]
             /\ unread' = [unread EXCEPT ![r] = TRUE]
    <3>1. unread' = [q \in Runs |-> unread'[q]]
      BY <1>1, <2>3 DEF Shape
    <3>2. Shape'
      BY <1>1, <2>1, <2>3, <3>1, PhaseStep, Unchanged DEF Shape
    <3> QED BY <1>1, <2>1, <2>3, <3>2, PhaseStep, ClientStep
  <2> QED BY <1>4, <2>2, <2>3 DEF Send
<1>5. CASE Receive(r) \/ TimeOut(r)
  <2>1. PICK code : EndsWith(r, code)
    BY <1>5 DEF Receive, TimeOut
  <2>2. run[r].phase = "waiting" /\ UNCHANGED <<conn, unread, reply, revents, executed>>
    BY <1>5 DEF Receive, TimeOut, daemon
  <2>3. Shape'
    BY <1>1, <2>1, <2>2, EndsWithStep, Unchanged DEF Shape
  <2> QED BY <1>1, <2>1, <2>2, <2>3, EndsWithStep, ClientStep
<1> QED BY <1>2, <1>3, <1>4, <1>5 DEF Process

LEMMA OrderDaemon ==
  ASSUME OrderInv, Start \/ End \/ \E r \in Runs : Accept(r) \/ ServeHangup(r)
  PROVE  OrderInv'
<1>1. Shape
  BY DEF OrderInv
<1>2. CASE Start
  <2>1. UNCHANGED <<run, conn, unread, reply, revents, executed>>
    BY <1>2 DEF Start
  <2>2. Shape'
    BY <1>1, <2>1, Unchanged DEF Shape
  <2> QED BY <1>1, <2>1, <2>2, DaemonStep
<1>3. CASE End
  <2>1. /\ UNCHANGED <<run, reply, executed>>
        /\ conn' = [r \in Runs |-> IF conn[r] = "none" THEN "none" ELSE "lost"]
        /\ unread' = [r \in Runs |-> FALSE] /\ revents' = [r \in Runs |-> ""]
    BY <1>3 DEF End
  <2>2. Shape'
    BY <1>1, <2>1, Unchanged DEF Shape
  <2> QED BY <1>1, <2>1, <2>2, DaemonStep
<1>4. ASSUME NEW r \in Runs, Accept(r)
      PROVE  OrderInv'
  <2>1. /\ UNCHANGED <<run, unread, reply, revents, executed>>
        /\ conn[r] = "backlog" /\ conn' = [conn EXCEPT ![r] = "open"]
    BY <1>4 DEF Accept
  <2>2. Shape'
    BY <1>1, <2>1, Unchanged DEF Shape
  <2> QED BY <1>1, <2>1, <2>2, DaemonStep DEF Shape
<1>5. ASSUME NEW r \in Runs, ServeHangup(r)
      PROVE  OrderInv'
  <2>1. /\ UNCHANGED <<run, reply, executed>>
        /\ revents[r] = "POLLHUP" /\ conn' = [conn EXCEPT ![r] = "lost"]
        /\ unread' = [unread EXCEPT ![r] = FALSE]
        /\ revents' = [revents EXCEPT ![r] = ""]
    BY <1>5 DEF ServeHangup
  <2>2. Shape'
    BY <1>1, <2>1, Unchanged DEF Shape
  <2>3. run[r].phase # "ready"
    BY <2>1 DEF OrderInv, Unknown
  <2> QED BY <1>1, <2>1, <2>2, <2>3, DaemonStep DEF Shape
<1> QED BY <1>2, <1>3, <1>4, <1>5

\* A poll() that finds a line finds the hangup of every run that ended before.
LEMMA OrderPoll ==
  ASSUME OrderInv, Poll
  PROVE  OrderInv'
<1>1. /\ UNCHANGED <<run, conn, unread, reply, executed>>
      /\ revents' = [r \in Runs |-> Event(r)]
  BY DEF Poll
<1>2. \A r \in Runs : Did(r)' = Did(r)
  BY <1>1 DEF Did
<1>3. Shape'
  BY <1>1, Unchanged DEF OrderInv, Shape
<1>4. Unknown'
  <2>1. \A r \in Runs : conn[r] = "none" => revents'[r] = ""
    BY <1>1 DEF Event
  <2> QED BY <1>1, <1>2, <2>1 DEF OrderInv, Unknown
<1>5. EarlierEnded'
  BY <1>1 DEF OrderInv, EarlierEnded
<1>6. \A e \in Runs : run[e].phase = "ended" => revents'[e] # "POLLIN"
  BY <1>1 DEF Event
<1>7. Overtaken'
  BY <1>1, <1>6 DEF OrderInv, EarlierEnded, Overtaken
<1>8. InOrder'
  BY <1>1 DEF OrderInv, InOrder
<1> QED BY <1>3, <1>4, <1>5, <1>7, <1>8 DEF OrderInv

LEMMA OrderServeLine ==
  ASSUME OrderInv, NEW r \in Runs, ServeLine(r)
  PROVE  OrderInv'
<1> DEFINE call == HandleBuiltinCommand(run[r].line).call
<1>1. /\ UNCHANGED run /\ revents[r] = "POLLIN"
      /\ executed' = IF call = Nothing THEN executed
                     ELSE Append(executed, [run |-> r, call |-> call])
      /\ \/ conn' = [conn EXCEPT ![r] = "lost"] /\ UNCHANGED reply
         \/ UNCHANGED conn /\ \E answer : reply' = [reply EXCEPT ![r] = answer]
      /\ unread' = [unread EXCEPT ![r] = FALSE]
      /\ revents' = [revents EXCEPT ![r] = ""]
  BY DEF ServeLine
<1> HIDE DEF call
<1>2. Shape /\ Unknown /\ EarlierEnded /\ Overtaken /\ InOrder
  BY DEF OrderInv
<1>3. /\ \E S : executed' \in Seq(S)
      /\ Len(executed) \in Nat /\ Len(executed') \in {Len(executed), Len(executed) + 1}
      /\ \A i \in 1 .. Len(executed) : executed'[i] = executed[i]
      /\ \A i \in 1 .. Len(executed') : i > Len(executed) => executed'[i].run = r
  <2>1. PICK S : executed \in Seq(S)
    BY <1>2 DEF Shape
  <2>2. CASE call = Nothing
    <3>1. executed' = executed
      BY <1>1, <2>2
    <3>2. Len(executed) \in Nat
      BY <2>1
    <3> QED BY <2>1, <3>1, <3>2
  <2>3. CASE call # Nothing
    <3> DEFINE entry == [run |-> r, call |-> call]
    <3>1. executed' = Append(executed, entry) /\ entry.run = r
      BY <1>1, <2>3
    <3> HIDE DEF entry
    <3>2. /\ \E T : Append(executed, entry) \in Seq(T)
          /\ Len(Append(executed, entry)) = Len(executed) + 1 /\ Len(executed) \in Nat
          /\ \A i \in 1 .. Len(executed) : Append(executed, entry)[i] = executed[i]
          /\ Append(executed, entry)[Len(executed) + 1] = entry
      BY ONLY <2>1, Appended
    <3> QED BY <3>1, <3>2
  <2> QED BY <2>2, <2>3
<1>4. /\ conn' = [q \in Runs |-> conn'[q]] /\ unread' = [q \in Runs |-> unread'[q]]
      /\ reply' = [q \in Runs |-> reply'[q]] /\ revents' = [q \in Runs |-> revents'[q]]
  BY <1>1, <1>2 DEF Shape
<1>5. /\ \A q \in Runs : q # r => conn'[q] = conn[q]
      /\ \A q \in Runs : revents'[q] = IF q = r THEN "" ELSE revents[q]
  BY <1>1, <1>2 DEF Shape
<1>6. \A q \in Runs : Did(q)' => Did(q) \/ q = r
  BY <1>3 DEF Did
<1>7. run[r].phase # "ready" /\ \A e \in run[r].earlier : revents[e] # "POLLIN"
  BY <1>1, <1>2 DEF Unknown, Overtaken
<1>8. Shape'
  <2>1. \A i \in 1 .. Len(executed') : executed'[i].run \in Runs
    BY <1>2, <1>3 DEF Shape
  <2>2. run' = [q \in Runs |-> run'[q]] /\ \A q \in Runs : IsProcess(run'[q])
    BY <1>1, <1>2 DEF Shape
  <2> QED BY <1>3, <1>4, <2>1, <2>2 DEF Shape
<1>9. Unknown'
  BY <1>1, <1>2, <1>5, <1>6, <1>7 DEF Unknown
<1>10. EarlierEnded'
  BY <1>1, <1>2 DEF EarlierEnded
<1>11. Overtaken'
  BY <1>1, <1>2, <1>5, <1>6, <1>7 DEF Overtaken, EarlierEnded
<1>12. InOrder'
  <2> SUFFICES ASSUME NEW i \in 1 .. Len(executed'), NEW j \in 1 .. Len(executed'), i < j
               PROVE  executed'[j].run \notin run[executed'[i].run].earlier
    BY <1>1 DEF InOrder
  <2>1. i \in 1 .. Len(executed) /\ executed'[i] = executed[i]
    BY <1>3
  <2>2. CASE j \in 1 .. Len(executed)
    BY <1>2, <1>3, <2>1, <2>2 DEF InOrder
  <2>3. CASE j \notin 1 .. Len(executed)
    <3>1. executed'[j].run = r
      BY <1>3, <2>3
    <3>2. executed[i].run \in Runs /\ Did(executed[i].run)
      BY <1>2, <2>1 DEF Shape, Did
    <3> QED BY <1>1, <1>2, <2>1, <3>1, <3>2 DEF Overtaken
  <2> QED BY <2>2, <2>3
<1> QED BY <1>8, <1>9, <1>10, <1>11, <1>12 DEF OrderInv

LEMMA OrderNext == OrderInv /\ [Next]_vars => OrderInv'
<1> SUFFICES ASSUME OrderInv, [Next]_vars PROVE OrderInv'
  OBVIOUS
<1>1. ASSUME NEW r \in Runs, Run(r) \/ RunOther(r) PROVE OrderInv'
  BY <1>1, OrderRun
<1>2. ASSUME NEW r \in Runs, Process(r) PROVE OrderInv'
  BY <1>2, OrderProcess
<1>3. CASE Start \/ End \/ \E r \in Runs : Accept(r) \/ ServeHangup(r)
  BY <1>3, OrderDaemon
<1>4. CASE Poll
  BY <1>4, OrderPoll
<1>5. ASSUME NEW r \in Runs, ServeLine(r) PROVE OrderInv'
  BY <1>5, OrderServeLine
<1>6. CASE UNCHANGED vars
  BY <1>6 DEF vars, OrderInv, Shape, Unknown, EarlierEnded, Overtaken, InOrder, Did
<1> QED BY <1>1, <1>2, <1>3, <1>4, <1>5, <1>6 DEF Next

\* A command that its sender gave up is never executed after one that was started
\* later (IpcServer.cpp:360-384).
THEOREM NeverUndone == Spec => []InOrder
<1>1. OrderInv => InOrder
  BY DEF OrderInv
<1> QED BY OrderInit, OrderNext, <1>1, PTL DEF Spec

-----------------------------------------------------------------------------
(* The range of what setters are called with *)

LEMMA NothingWithin == WithinLimits(Nothing)
  BY DEF WithinLimits, Limits, Nothing, Call

\* A callback of any other name takes what it is given.
LEMMA OtherWithin ==
  ASSUME NEW name, NEW word, NEW values,
         name \notin {"setAmbientLevel", "setCustomEq", "setUltMode"}
  PROVE  WithinLimits(Call(name, word, values))
  BY DEF WithinLimits, Limits, Call

LEMMA ServeWithin ==
  ASSUME NEW line
  PROVE  /\ WithinLimits(ServeAmbientLevel(line).call)
         /\ WithinLimits(ServeUlt(line).call)
         /\ WithinLimits(ServeCustomEq(line).call)
         /\ WithinLimits(ServeNoise(line).call)
         /\ WithinLimits(ServeVoiceFocus(line).call)
         /\ WithinLimits(ServeEq(line).call)
         /\ WithinLimits(ServeDsee(line).call)
         /\ WithinLimits(ServeSetBattery(line).call)
<1>1. \A condition, answer :
        WithinLimits(When(condition, answer).call) <=> (condition => WithinLimits(answer.call))
  BY NothingWithin DEF When, Err
<1>2. \A call : Ok(call).call = call
  BY DEF Ok
<1>3. WithinLimits(ServeAmbientLevel(line).call)
  <2> DEFINE level == ServerInt(line[2])
  <2> HIDE DEF level
  <2>1. Level(level) => WithinLimits(Call("setAmbientLevel", "", <<level>>))
    BY DEF Level, WithinLimits, Limits, Call
  <2> DEFINE checked == Len(line) >= 2 /\ ServerParses(line[2]) /\ Level(level)
             call == Call("setAmbientLevel", "", <<level>>)
  <2>2. ServeAmbientLevel(line) = When(checked, Ok(call))
    BY DEF ServeAmbientLevel, level
  <2>3. checked => WithinLimits(call)
    BY <2>1
  <2> HIDE DEF checked, call
  <2> QED BY <1>1, <1>2, <2>2, <2>3
<1>4. WithinLimits(ServeUlt(line).call)
  <2>1. \A text \in DOMAIN UltMode : UltMode[text] \in 0 .. 2
    BY DEF UltMode
  <2>2. \A n \in 0 .. 2 : WithinLimits(Call("setUltMode", "", <<n>>))
    BY DEF WithinLimits, Limits, Call
  <2> DEFINE known == Len(line) >= 2 /\ line[2].text \in DOMAIN UltMode
             call == Call("setUltMode", "", <<UltMode[line[2].text]>>)
  <2>3. ServeUlt(line) = When(known, Ok(call))
    BY DEF ServeUlt
  <2>4. known => WithinLimits(call)
    BY <2>1, <2>2
  <2> HIDE DEF known, call
  <2> QED BY <1>1, <1>2, <2>3, <2>4
<1>5. WithinLimits(ServeCustomEq(line).call)
  <2> DEFINE bands == [i \in 1 .. 6 |-> ServerInt(line[i + 2])]
  <2>1. (\A i \in 3 .. 8 : Band(ServerInt(line[i])))
          => WithinLimits(Call("setCustomEq", "", bands))
    <3> SUFFICES ASSUME \A i \in 3 .. 8 : Band(ServerInt(line[i]))
                 PROVE  WithinLimits(Call("setCustomEq", "", bands))
      OBVIOUS
    <3>1. DOMAIN bands = 1 .. 6 /\ \A i \in 1 .. 6 : bands[i] \in -10 .. 10
      BY DEF Band
    <3> QED BY <3>1 DEF WithinLimits, Limits, Call
  <2> DEFINE checked == /\ Len(line) >= 8
                        /\ \A i \in 3 .. 8 : ServerParses(line[i]) /\ Band(ServerInt(line[i]))
             call == Call("setCustomEq", "", bands)
  <2>2. ServeCustomEq(line) = When(checked, Ok(call))
    BY DEF ServeCustomEq
  <2>3. checked => WithinLimits(call)
    BY <2>1
  <2> HIDE DEF checked, call
  <2> QED BY <1>1, <1>2, <2>2, <2>3
<1>6. /\ WithinLimits(ServeNoise(line).call) /\ WithinLimits(ServeVoiceFocus(line).call)
      /\ WithinLimits(ServeDsee(line).call) /\ WithinLimits(ServeSetBattery(line).call)
  <2>1. WithinLimits(ServeNoise(line).call)
    BY <1>1, <1>2, OtherWithin DEF ServeNoise
  <2>2. WithinLimits(ServeVoiceFocus(line).call)
    BY <1>1, <1>2, OtherWithin DEF ServeVoiceFocus
  <2>3. WithinLimits(ServeDsee(line).call)
    BY <1>1, <1>2, OtherWithin DEF ServeDsee
  <2>4. WithinLimits(ServeSetBattery(line).call)
    BY <1>1, <1>2, OtherWithin DEF ServeSetBattery
  <2> QED BY <2>1, <2>2, <2>3, <2>4
<1>7. WithinLimits(ServeEq(line).call)
  BY <1>1, <1>2, <1>5, OtherWithin DEF ServeEq
<1> QED BY <1>3, <1>4, <1>5, <1>6, <1>7

LEMMA HandledWithin ==
  ASSUME NEW line
  PROVE  WithinLimits(HandleBuiltinCommand(line).call)
<1>1. WithinLimits(Err.call) /\ WithinLimits(ServeStatus.call)
  BY NothingWithin DEF Err, ServeStatus
<1>2. \A call : Ok(call).call = call
  BY DEF Ok
<1>3. /\ WithinLimits(Ok(Call("onTestDisconnect", "", <<>>)).call)
      /\ WithinLimits(Ok(Call("onTestReconnect", "", <<>>)).call)
  BY <1>2, OtherWithin
<1> QED BY <1>1, <1>3, ServeWithin DEF HandleBuiltinCommand

\* Only ServeLine calls setters, and it calls what HandleBuiltinCommand says
\* (IpcServer.cpp:499-582).
THEOREM SettersInRange == Spec => []InRange
<1> DEFINE RangeInv == (\E S : executed \in Seq(S)) /\ InRange
<1>1. Init => RangeInv
  <2> SUFFICES ASSUME Init PROVE RangeInv
    OBVIOUS
  <2>1. Len(executed) = 0 /\ \E S : executed \in Seq(S)
    BY Empty DEF Init
  <2> QED BY <2>1 DEF InRange
<1>2. RangeInv /\ [Next]_vars => RangeInv'
  <2> SUFFICES ASSUME RangeInv, [Next]_vars PROVE RangeInv'
    OBVIOUS
  <2>1. CASE UNCHANGED executed
    BY <2>1 DEF InRange
  <2>2. ASSUME NEW r \in Runs, ServeLine(r) PROVE RangeInv'
    <3> DEFINE call == HandleBuiltinCommand(run[r].line).call
               entry == [run |-> r, call |-> call]
    <3>1. \/ executed' = executed
          \/ executed' = Append(executed, entry)
      BY <2>2 DEF ServeLine
    <3>2. entry.call = call /\ WithinLimits(call)
      BY HandledWithin
    <3> HIDE DEF call, entry
    <3>3. CASE executed' = executed
      BY <2>1, <3>3
    <3>4. CASE executed' = Append(executed, entry)
      <4>1. PICK S : executed \in Seq(S)
        OBVIOUS
      <4>2. /\ \E T : Append(executed, entry) \in Seq(T)
            /\ Len(Append(executed, entry)) = Len(executed) + 1 /\ Len(executed) \in Nat
            /\ \A i \in 1 .. Len(executed) : Append(executed, entry)[i] = executed[i]
            /\ Append(executed, entry)[Len(executed) + 1] = entry
        BY ONLY <4>1, Appended
      <4>3. ASSUME NEW i \in 1 .. Len(executed') PROVE WithinLimits(executed'[i].call)
        <5>1. CASE i = Len(executed) + 1
          BY <3>2, <3>4, <4>2, <5>1
        <5>2. CASE i \in 1 .. Len(executed)
          BY <3>4, <4>2, <5>2 DEF InRange
        <5> QED BY <3>4, <4>2, <5>1, <5>2
      <4> QED BY <3>4, <4>2, <4>3 DEF InRange
    <3> QED BY <3>1, <3>3, <3>4
  <2>3. Next => UNCHANGED executed \/ \E r \in Runs : ServeLine(r)
    BY DEF Next, Run, RunOther, Process, Connect, ConnectFails, Send, Receive, TimeOut,
           Accept, ServeHangup, Start, End, Poll, daemon
  <2> QED BY <2>1, <2>2, <2>3 DEF vars
<1>3. RangeInv => InRange
  OBVIOUS
<1> QED BY <1>1, <1>2, <1>3, PTL DEF Spec

-----------------------------------------------------------------------------
(* What a run can rely on *)

Answer(r) == HandleBuiltinCommand(run[r].line)

IsRun(p) ==
    /\ p = [phase |-> p.phase, raw |-> p.raw, means |-> p.means, line |-> p.line,
            status |-> p.status, exit |-> p.exit, refused |-> p.refused,
            earlier |-> p.earlier]
    /\ p.phase \in {"ready", "connecting", "sending", "waiting", "ended"}
    /\ p.exit \in {-1, 0, 1, 2}
    /\ p.exit # -1 <=> p.phase = "ended"

Kinds ==
    /\ run = [r \in Runs |-> run[r]] /\ \A r \in Runs : IsRun(run[r])
    /\ conn \in [Runs -> {"none", "backlog", "open", "lost"}]
    /\ unread \in [Runs -> BOOLEAN]
    /\ reply \in [Runs -> {"", "OK", "ERR", "JSON"}]
    /\ serving \in BOOLEAN
    /\ revents \in [Runs -> {"", "POLLIN", "POLLHUP"}]
    /\ \E S : executed \in Seq(S)
    /\ \A i \in 1 .. Len(executed) :
          /\ executed[i] = [run |-> executed[i].run, call |-> executed[i].call]
          /\ executed[i].run \in Runs

\* What the daemon holds of a run, and what it has done for it.
Course(r) ==
    /\ run[r].phase \in {"ready", "connecting", "sending"} =>
          ~unread[r] /\ reply[r] = "" /\ CallsOf(r) = {}
    /\ revents[r] = "POLLIN" => unread[r] /\ conn[r] = "open"
    /\ unread[r] => CallsOf(r) = {}
    /\ reply[r] # "" => /\ conn[r] \in {"open", "lost"} \/ run[r].phase = "ended"
                        /\ reply[r] = Answer(r).reply
                        /\ Answer(r).call # Nothing => CallsOf(r) # {}
    /\ \A i \in CallsOf(r) : CallsOf(r) = {i} /\ executed[i].call = Answer(r).call
    /\ run[r].exit = 2 => CallsOf(r) = {} /\ ~unread[r]

\* A line of sony-ctl that may still be read is one that the daemon accepts.
Agreed(r) ==
    ~run[r].raw =>
        /\ run[r].phase \in {"connecting", "sending", "waiting"} => Answer(r).reply # "ERR"
        /\ ~run[r].refused

Meant(r) ==
    ~run[r].raw =>
        /\ \/ run[r].phase \in {"connecting", "sending", "waiting"}
           \/ unread[r] \/ CallsOf(r) # {}
           => Answer(r).call = run[r].means
        /\ run[r].exit = 0 /\ run[r].means # Nothing => CallsOf(r) # {}

RunInv(r) == Course(r) /\ Agreed(r) /\ (UsageUnderstood => Meant(r))

CtlInv == Kinds /\ \A r \in Runs : RunInv(r)

-----------------------------------------------------------------------------
(* The two halves of the command language *)

LEMMA Replies ==
  ASSUME NEW line
  PROVE  HandleBuiltinCommand(line).reply \in {"OK", "ERR", "JSON"}
<1>1. \A condition, call : When(condition, Ok(call)).reply \in {"OK", "ERR", "JSON"}
  BY DEF When, Ok, Err
<1>2. /\ \A call : Ok(call).reply = "OK"
      /\ Err.reply = "ERR" /\ ServeStatus.reply = "JSON"
  BY DEF Ok, Err, ServeStatus
<1>3. /\ ServeAmbientLevel(line).reply \in {"OK", "ERR", "JSON"}
      /\ ServeUlt(line).reply \in {"OK", "ERR", "JSON"}
      /\ ServeCustomEq(line).reply \in {"OK", "ERR", "JSON"}
      /\ ServeNoise(line).reply \in {"OK", "ERR", "JSON"}
      /\ ServeVoiceFocus(line).reply \in {"OK", "ERR", "JSON"}
      /\ ServeDsee(line).reply \in {"OK", "ERR", "JSON"}
      /\ ServeSetBattery(line).reply \in {"OK", "ERR", "JSON"}
  BY <1>1, <1>2 DEF ServeAmbientLevel, ServeUlt, ServeCustomEq, ServeNoise,
     ServeVoiceFocus, ServeDsee, ServeSetBattery
<1>4. ServeEq(line).reply \in {"OK", "ERR", "JSON"}
  BY <1>1, <1>3 DEF ServeEq
<1> QED BY <1>2, <1>3, <1>4 DEF HandleBuiltinCommand

\* The daemon accepts a condition's line if it finds the condition to hold too.
LEMMA Accepted ==
  ASSUME NEW condition, condition, NEW call
  PROVE  When(condition, Ok(call)).reply = "OK"
  BY DEF When, Ok

LEMMA Sending ==
  ASSUME NEW condition, NEW line
  PROVE  /\ SendIf(condition, line).exit \in {-1, 1}
         /\ SendIf(condition, line).exit = -1 => condition /\ SendIf(condition, line).line = line
  BY DEF SendIf, Sends, Ends

LEMMA TwoWords ==
  ASSUME NEW verb, NEW arg
  PROVE  LET line == <<Word(verb), arg>>
         IN  line # <<>> /\ Len(line) = 2 /\ line[1].text = verb /\ line[2] = arg
  BY DEF Word

LEMMA NoiseAgrees ==
  ASSUME NEW arg, arg.text \in NoiseModes
  PROVE  HandleBuiltinCommand(<<Word("noise"), arg>>).reply = "OK"
<1> DEFINE line == <<Word("noise"), arg>>
<1>1. line # <<>> /\ Len(line) >= 2 /\ line[1].text = "noise" /\ line[2] = arg
  BY TwoWords
<1> HIDE DEF line
<1>2. ServeNoise(line).reply = "OK"
  BY <1>1, Accepted DEF ServeNoise
<1>3. HandleBuiltinCommand(line) = ServeNoise(line)
  BY <1>1 DEF HandleBuiltinCommand
<1> QED BY <1>2, <1>3 DEF line

LEMMA VoiceFocusAgrees ==
  ASSUME NEW arg, arg.text \in {"on", "off"}
  PROVE  HandleBuiltinCommand(<<Word("voice-focus"), arg>>).reply = "OK"
<1> DEFINE line == <<Word("voice-focus"), arg>>
<1>1. line # <<>> /\ Len(line) >= 2 /\ line[1].text = "voice-focus" /\ line[2] = arg
  BY TwoWords
<1> HIDE DEF line
<1>2. ServeVoiceFocus(line).reply = "OK"
  BY <1>1, Accepted DEF ServeVoiceFocus
<1>3. HandleBuiltinCommand(line) = ServeVoiceFocus(line)
  BY <1>1 DEF HandleBuiltinCommand
<1> QED BY <1>2, <1>3 DEF line

LEMMA DseeAgrees ==
  ASSUME NEW arg, arg.text \in {"on", "off"}
  PROVE  HandleBuiltinCommand(<<Word("dsee"), arg>>).reply = "OK"
<1> DEFINE line == <<Word("dsee"), arg>>
<1>1. line # <<>> /\ Len(line) >= 2 /\ line[1].text = "dsee" /\ line[2] = arg
  BY TwoWords
<1> HIDE DEF line
<1>2. ServeDsee(line).reply = "OK"
  BY <1>1, Accepted DEF ServeDsee
<1>3. HandleBuiltinCommand(line) = ServeDsee(line)
  BY <1>1 DEF HandleBuiltinCommand
<1> QED BY <1>2, <1>3 DEF line

LEMMA UltAgrees ==
  ASSUME NEW arg, arg.text \in DOMAIN UltMode
  PROVE  HandleBuiltinCommand(<<Word("ult"), arg>>).reply = "OK"
<1> DEFINE line == <<Word("ult"), arg>>
<1>1. line # <<>> /\ Len(line) >= 2 /\ line[1].text = "ult" /\ line[2] = arg
  BY TwoWords
<1> HIDE DEF line
<1>2. ServeUlt(line).reply = "OK"
  BY <1>1, Accepted DEF ServeUlt
<1>3. HandleBuiltinCommand(line) = ServeUlt(line)
  BY <1>1 DEF HandleBuiltinCommand
<1> QED BY <1>2, <1>3 DEF line

LEMMA PresetAgrees ==
  ASSUME NEW arg, arg.text \in Presets
  PROVE  HandleBuiltinCommand(<<Word("eq"), arg>>).reply = "OK"
<1> DEFINE line == <<Word("eq"), arg>>
<1>1. line # <<>> /\ Len(line) >= 2 /\ line[1].text = "eq" /\ line[2] = arg
  BY TwoWords
<1> HIDE DEF line
<1>2. arg.text # "custom"
  BY DEF Presets
<1>3. ServeEq(line).reply = "OK"
  BY <1>1, <1>2, Accepted DEF ServeEq
<1>4. HandleBuiltinCommand(line) = ServeEq(line)
  BY <1>1 DEF HandleBuiltinCommand
<1> QED BY <1>3, <1>4 DEF line

\* A number that the client prints is read back by the daemon.
LEMMA NumberReadBack ==
  ASSUME NEW word
  PROVE  ServerParses(Number(word)) /\ ServerInt(Number(word)) = ClientInt(word)
  BY DEF ServerParses, ServerInt, ClientInt, Number, Digits

LEMMA LevelAgrees ==
  ASSUME NEW arg, ClientInt(arg) \in 0 .. 20
  PROVE  HandleBuiltinCommand(<<Word("ambient-level"), Number(arg)>>).reply = "OK"
<1> DEFINE number == Number(arg)
           line == <<Word("ambient-level"), number>>
<1>1. ServerParses(number) /\ Level(ServerInt(number))
  BY NumberReadBack DEF Level
<1> HIDE DEF number
<1>2. line # <<>> /\ Len(line) >= 2 /\ line[1].text = "ambient-level" /\ line[2] = number
  BY TwoWords
<1> HIDE DEF line
<1>3. ServeAmbientLevel(line).reply = "OK"
  BY <1>1, <1>2, Accepted DEF ServeAmbientLevel
<1>4. HandleBuiltinCommand(line) = ServeAmbientLevel(line)
  BY <1>2 DEF HandleBuiltinCommand
<1> QED BY <1>3, <1>4 DEF line, number

LEMMA NotEmpty ==
  ASSUME NEW q, Len(q) = 8
  PROVE  q # <<>>
  OBVIOUS

LEMMA BandsFollow ==
  ASSUME NEW S, NEW a \in S, NEW b \in S, NEW bands \in [1 .. 6 -> S]
  PROVE  LET line == <<a, b>> \o bands
         IN  /\ line # <<>> /\ Len(line) = 8 /\ line[1] = a /\ line[2] = b
             /\ \A i \in 3 .. 8 : line[i] = bands[i - 2]
<1> DEFINE line == <<a, b>> \o bands
<1>1. bands \in Seq(S) /\ Len(bands) = 6
  <2>1. bands \in Seq(S)
    BY SeqDef
  <2>2. DOMAIN bands = 1 .. 6 /\ DOMAIN bands = 1 .. Len(bands) /\ Len(bands) \in Nat
    BY <2>1, LenProperties
  <2> QED BY <2>1, <2>2
<1>2. <<a, b>> \in Seq(S) /\ Len(<<a, b>>) = 2 /\ <<a, b>>[1] = a /\ <<a, b>>[2] = b
  OBVIOUS
<1>3. /\ line \in Seq(S) /\ Len(line) = 8
      /\ \A i \in 1 .. 8 : line[i] = IF i <= 2 THEN <<a, b>>[i] ELSE bands[i - 2]
  <2> DEFINE ab == <<a, b>>
  <2>1. ab \in Seq(S) /\ Len(ab) = 2
    BY <1>2
  <2> HIDE DEF ab
  <2>2. /\ ab \o bands \in Seq(S) /\ Len(ab \o bands) = 8
        /\ \A i \in 1 .. 8 : (ab \o bands)[i] = IF i <= 2 THEN ab[i] ELSE bands[i - 2]
    <3>1. /\ ab \o bands \in Seq(S) /\ Len(ab \o bands) = Len(ab) + Len(bands)
          /\ \A i \in 1 .. Len(ab) + Len(bands) :
                (ab \o bands)[i] = IF i <= Len(ab) THEN ab[i] ELSE bands[i - Len(ab)]
      BY <1>1, <2>1, ConcatProperties
    <3> QED BY <1>1, <2>1, <3>1
  <2> QED BY <2>2 DEF ab
<1> HIDE DEF line
<1>4. line # <<>>
  BY <1>3, NotEmpty
<1> QED BY <1>2, <1>3, <1>4 DEF line

LEMMA CustomEqAgrees ==
  ASSUME NEW args, \A i \in 3 .. 8 : ClientInt(args[i]) \in -10 .. 10
  PROVE  HandleBuiltinCommand(<<Word("eq"), Word("custom")>>
             \o [i \in 1 .. 6 |-> Number(args[i + 2])]).reply = "OK"
<1> DEFINE bands == [i \in 1 .. 6 |-> Number(args[i + 2])]
           line == <<Word("eq"), Word("custom")>> \o bands
           S == {Word("eq"), Word("custom")} \cup {bands[i] : i \in 1 .. 6}
<1>1. Word("eq") \in S /\ Word("custom") \in S /\ bands \in [1 .. 6 -> S]
  OBVIOUS
<1>2. \A i \in 3 .. 8 : bands[i - 2] = Number(args[i])
  OBVIOUS
<1> HIDE DEF bands, S
<1>3. /\ line # <<>> /\ Len(line) = 8 /\ line[1] = Word("eq") /\ line[2] = Word("custom")
      /\ \A i \in 3 .. 8 : line[i] = bands[i - 2]
  BY <1>1, BandsFollow
<1> HIDE DEF line
<1>4. line[1].text = "eq" /\ line[2].text = "custom"
  BY <1>3 DEF Word
<1>5. \A i \in 3 .. 8 : ServerParses(line[i]) /\ Band(ServerInt(line[i]))
  BY <1>2, <1>3, NumberReadBack DEF Band
<1>6. ServeCustomEq(line).reply = "OK"
  <2> DEFINE call == Call("setCustomEq", "", [i \in 1 .. 6 |-> ServerInt(line[i + 2])])
             checked == /\ Len(line) >= 8
                        /\ \A i \in 3 .. 8 : ServerParses(line[i]) /\ Band(ServerInt(line[i]))
  <2>1. checked
    BY <1>3, <1>5
  <2>2. ServeCustomEq(line) = When(checked, Ok(call))
    BY DEF ServeCustomEq
  <2> HIDE DEF call, checked
  <2> QED BY <2>1, <2>2, Accepted
<1>7. HandleBuiltinCommand(line) = ServeCustomEq(line)
  <2>1. ServeEq(line) = ServeCustomEq(line)
    BY <1>3, <1>4 DEF ServeEq
  <2> QED BY <1>3, <1>4, <2>1 DEF HandleBuiltinCommand
<1> QED BY <1>6, <1>7 DEF line, bands

\* Whatever the arguments are: a line that sony-ctl sends is not refused.
LEMMA TypedIsAccepted ==
  ASSUME NEW args
  PROVE  /\ TypeCommand(args).exit \in {-1, 1}
         /\ TypeCommand(args).exit = -1
              => HandleBuiltinCommand(TypeCommand(args).line).reply # "ERR"
<1> DEFINE Fits(does) ==
             /\ does.exit \in {-1, 1}
             /\ does.exit = -1 => HandleBuiltinCommand(does.line).reply # "ERR"
<1>1. Fits([Sends(<<Word("status")>>) EXCEPT !.status = TRUE])
  <2> DEFINE line == <<Word("status")>>
  <2>1. line # <<>> /\ line[1].text = "status"
    BY DEF Word
  <2> HIDE DEF line
  <2>2. HandleBuiltinCommand(line).reply = "JSON"
    BY <2>1 DEF HandleBuiltinCommand, ServeStatus
  <2>3. /\ [Sends(line) EXCEPT !.status = TRUE].exit = -1
        /\ [Sends(line) EXCEPT !.status = TRUE].line = line
    BY DEF Sends
  <2> QED BY <2>2, <2>3 DEF line
<1>2. Fits(TypeNoise(args))
  BY Sending, NoiseAgrees DEF TypeNoise
<1>3. Fits(TypeVoiceFocus(args))
  <2> DEFINE known == Len(args) >= 2 /\ args[2].text \in {"on", "off"}
             line == <<Word("voice-focus"), args[2]>>
  <2>1. known => HandleBuiltinCommand(line).reply = "OK"
    BY VoiceFocusAgrees
  <2>2. TypeVoiceFocus(args) = SendIf(known, line)
    BY DEF TypeVoiceFocus
  <2> HIDE DEF known, line
  <2> QED BY <2>1, <2>2, Sending
<1>4. Fits(TypeUlt(args))
  BY Sending, UltAgrees DEF TypeUlt
<1>5. Fits(TypeAmbientLevel(args))
  BY Sending, LevelAgrees DEF TypeAmbientLevel
<1>6. Fits(TypeEq(args))
  <2>1. Fits(TypeCustomEq(args))
    BY Sending, CustomEqAgrees DEF TypeCustomEq
  <2> QED BY <2>1, Sending, PresetAgrees DEF TypeEq
<1>7. Fits(TypeDsee(args))
  <2> DEFINE known == Len(args) >= 2 /\ args[2].text \in {"on", "off"}
             line == <<Word("dsee"), args[2]>>
  <2>1. known => HandleBuiltinCommand(line).reply = "OK"
    BY DseeAgrees
  <2>2. TypeDsee(args) = SendIf(known, line)
    BY DEF TypeDsee
  <2> HIDE DEF known, line
  <2> QED BY <2>1, <2>2, Sending
<1>8. Fits(Ends(1))
  BY DEF Ends
<1> HIDE DEF Fits
<1>9. Fits(TypeCommand(args))
  BY <1>1, <1>2, <1>3, <1>4, <1>5, <1>6, <1>7, <1>8 DEF TypeCommand
<1> QED BY <1>9 DEF Fits

LEMMA CommandLineIsAccepted ==
  ASSUME NEW args
  PROVE  /\ CommandLine(args).exit \in {-1, 0, 1}
         /\ CommandLine(args).exit = -1
              => HandleBuiltinCommand(CommandLine(args).line).reply # "ERR"
<1> DEFINE s == FoldLeft(Scan, Scanned, args)
           does == IF s.bad \/ s.wantsPath THEN Ends(1)
                   ELSE IF s.help \/ s.version THEN Ends(0)
                   ELSE IF s.rest = <<>> THEN Ends(1)
                   ELSE TypeCommand(s.rest)
<1>1. CommandLine(args).exit = does.exit /\ CommandLine(args).line = does.line
  BY DEF CommandLine
<1> HIDE DEF s
<1>2. Ends(0).exit = 0 /\ Ends(1).exit = 1
  BY DEF Ends
<1> QED BY <1>1, <1>2, TypedIsAccepted

-----------------------------------------------------------------------------
(* How a run goes on *)

\* The run of r becomes p and the others stay as they are.
Becomes(r, p) ==
    /\ run' = [q \in Runs |-> run'[q]] /\ \A q \in Runs : IsRun(run'[q])
    /\ \A q \in Runs : q # r => run'[q] = run[q]
    /\ run'[r] = p

LEMMA RunAt ==
  ASSUME Kinds, NEW r \in Runs, NEW p, IsRun(p), run' = [run EXCEPT ![r] = p]
  PROVE  Becomes(r, p)
<1>1. run = [q \in Runs |-> run[q]] /\ \A q \in Runs : IsRun(run[q])
  BY DEF Kinds
<1>2. run' = [q \in Runs |-> IF q = r THEN p ELSE run[q]]
  BY <1>1
<1>3. run' = [q \in Runs |-> run'[q]]
  BY <1>2
<1>4. \A q \in Runs : run'[q] = IF q = r THEN p ELSE run[q]
  BY <1>2
<1> QED BY <1>1, <1>3, <1>4 DEF Becomes

RunRecord(a, b, c, d, e, f, g, h) ==
    [phase |-> a, raw |-> b, means |-> c, line |-> d, status |-> e, exit |-> f,
     refused |-> g, earlier |-> h]

\* What a run keeps once it is started.
Keeps(r) ==
    run'[r].raw = run[r].raw /\ run'[r].means = run[r].means /\ run'[r].line = run[r].line

LEMMA Moved ==
  ASSUME Kinds, NEW r \in Runs, NEW a \in {"sending", "waiting"},
         run[r].phase # "ended", run' = [run EXCEPT ![r].phase = a]
  PROVE  /\ \E p : Becomes(r, p)
         /\ run'[r].phase = a /\ run'[r].exit = -1 /\ run'[r].refused = run[r].refused
         /\ Keeps(r)
<1> DEFINE p == run[r]
           n == [phase |-> a, raw |-> p.raw, means |-> p.means, line |-> p.line,
                 status |-> p.status, exit |-> p.exit, refused |-> p.refused,
                 earlier |-> p.earlier]
<1>1. IsRun(p) /\ p.phase # "ended"
  BY DEF Kinds
<1>2. p.exit = -1
  BY <1>1 DEF IsRun
<1>3. [p EXCEPT !.phase = a] = n
  BY <1>1 DEF IsRun
<1>4. run' = [run EXCEPT ![r] = n]
  BY <1>3
<1> HIDE DEF p
<1>5. IsRun(n)
  BY <1>2 DEF IsRun
<1>6. /\ n.phase = a /\ n.exit = -1 /\ n.refused = p.refused
      /\ n.raw = p.raw /\ n.means = p.means /\ n.line = p.line
  BY <1>2
<1> HIDE DEF n
<1>7. Becomes(r, n)
  BY <1>4, <1>5, RunAt
<1> QED BY <1>6, <1>7 DEF Becomes, Keeps, p

LEMMA FinishedRecord ==
  ASSUME NEW p, IsRun(p), NEW code, NEW refused
  PROVE  [p EXCEPT !.phase = "ended", !.exit = code, !.refused = refused]
         = [phase |-> "ended", raw |-> p.raw, means |-> p.means, line |-> p.line,
            status |-> p.status, exit |-> code, refused |-> refused, earlier |-> p.earlier]
<1>1. p = RunRecord(p.phase, p.raw, p.means, p.line, p.status, p.exit, p.refused, p.earlier)
  BY DEF IsRun, RunRecord
<1>2. [RunRecord(p.phase, p.raw, p.means, p.line, p.status, p.exit, p.refused, p.earlier) EXCEPT !.phase = "ended"]
      = RunRecord("ended", p.raw, p.means, p.line, p.status, p.exit, p.refused, p.earlier)
  BY DEF RunRecord
<1>3. [RunRecord("ended", p.raw, p.means, p.line, p.status, p.exit, p.refused, p.earlier) EXCEPT !.exit = code]
      = RunRecord("ended", p.raw, p.means, p.line, p.status, code, p.refused, p.earlier)
  BY DEF RunRecord
<1>4. [RunRecord("ended", p.raw, p.means, p.line, p.status, code, p.refused, p.earlier) EXCEPT !.refused = refused]
      = RunRecord("ended", p.raw, p.means, p.line, p.status, code, refused, p.earlier)
  BY DEF RunRecord
<1>5. [RunRecord(p.phase, p.raw, p.means, p.line, p.status, p.exit, p.refused, p.earlier)
         EXCEPT !.phase = "ended", !.exit = code, !.refused = refused]
      = RunRecord("ended", p.raw, p.means, p.line, p.status, code, refused, p.earlier)
  BY <1>2, <1>3, <1>4, Zenon
<1>6. [p EXCEPT !.phase = "ended", !.exit = code, !.refused = refused]
      = RunRecord("ended", p.raw, p.means, p.line, p.status, code, refused, p.earlier)
  BY <1>1, <1>5, Zenon
<1> QED BY <1>6 DEF RunRecord

LEMMA Finished ==
  ASSUME Kinds, NEW r \in Runs, NEW code \in {0, 1, 2}, EndsWith(r, code)
  PROVE  /\ \E p : Becomes(r, p)
         /\ run'[r].phase = "ended" /\ run'[r].exit = code
         /\ run'[r].refused => reply[r] = "ERR"
         /\ Keeps(r)
<1> DEFINE p == run[r]
           refused == (reply[r] = "ERR")
<1>1. IsRun(p)
  BY DEF Kinds
<1>2. run' = [run EXCEPT ![r] = [p EXCEPT !.phase = "ended", !.exit = code, !.refused = refused]]
  BY DEF EndsWith
<1>3. refused => reply[r] = "ERR"
  OBVIOUS
<1> HIDE DEF refused
<1> DEFINE n == [phase |-> "ended", raw |-> p.raw, means |-> p.means, line |-> p.line,
                 status |-> p.status, exit |-> code, refused |-> refused,
                 earlier |-> p.earlier]
<1>4. [p EXCEPT !.phase = "ended", !.exit = code, !.refused = refused] = n
  BY <1>1, FinishedRecord
<1>5. run' = [run EXCEPT ![r] = n]
  BY <1>2, <1>4
<1> HIDE DEF p
<1>6. IsRun(n)
  BY DEF IsRun
<1>7. /\ n.phase = "ended" /\ n.exit = code /\ n.refused = refused
      /\ n.raw = p.raw /\ n.means = p.means /\ n.line = p.line
  OBVIOUS
<1> HIDE DEF n
<1>8. Becomes(r, n)
  BY <1>5, <1>6, RunAt
<1> QED BY <1>3, <1>7, <1>8 DEF Becomes, Keeps, p

\* A run that nothing happens to.
LEMMA OtherRun ==
  ASSUME NEW q \in Runs, RunInv(q), run'[q] = run[q], conn'[q] = conn[q],
         unread'[q] = unread[q], reply'[q] = reply[q], revents'[q] = revents[q],
         CallsOf(q)' = CallsOf(q), \A i \in CallsOf(q) : executed'[i] = executed[i]
  PROVE  RunInv(q)'
<1>1. Answer(q)' = Answer(q)
  BY DEF Answer
<1>2. Course(q)'
  BY <1>1 DEF RunInv, Course
<1>3. Agreed(q)'
  BY <1>1 DEF RunInv, Agreed
<1>4. UsageUnderstood => Meant(q)'
  BY <1>1 DEF RunInv, Meant
<1> QED BY <1>2, <1>3, <1>4 DEF RunInv

\* A step of one run that calls nothing.
LEMMA OneRun ==
  ASSUME CtlInv, NEW r \in Runs, Kinds', RunInv(r)', UNCHANGED executed,
         \A q \in Runs : q # r =>
             /\ run'[q] = run[q] /\ conn'[q] = conn[q] /\ unread'[q] = unread[q]
             /\ reply'[q] = reply[q] /\ revents'[q] = revents[q]
  PROVE  CtlInv'
<1>1. ASSUME NEW q \in Runs, q # r
      PROVE  RunInv(q)'
  <2>1. CallsOf(q)' = CallsOf(q)
    BY DEF CallsOf
  <2> QED BY <1>1, <2>1, OtherRun DEF CtlInv
<1> QED BY <1>1 DEF CtlInv

-----------------------------------------------------------------------------
(* Every action preserves what a run can rely on *)

\* The parts of Kinds that a client leaves alone.
LEMMA ClientKinds ==
  ASSUME Kinds, NEW r \in Runs, \E p : Becomes(r, p),
         conn' \in [Runs -> {"none", "backlog", "open", "lost"}],
         unread' \in [Runs -> BOOLEAN], UNCHANGED <<reply, serving, revents, executed>>
  PROVE  Kinds'
  BY DEF Kinds, Becomes

LEMMA ExitCodeCases ==
  ASSUME NEW status, NEW response
  PROVE  /\ ExitCode(status, response) \in {0, 1, 2}
         /\ ExitCode(status, response) # 2
         /\ ExitCode(status, response) = 0 => response # ""
<1> DEFINE known == response = "OK" \/ (status /\ response \notin {"", "ERR"})
<1>1. known => response # ""
  OBVIOUS
<1> HIDE DEF known
<1>2. (IF known THEN 0 ELSE 1) \in {0, 1, 2} /\ (IF known THEN 0 ELSE 1) # 2
      /\ ((IF known THEN 0 ELSE 1) = 0 => known)
  OBVIOUS
<1> QED BY <1>1, <1>2 DEF ExitCode, known

\* The end of a run whose line was never sent, or was waited for.
LEMMA EndStep ==
  ASSUME CtlInv, NEW r \in Runs, NEW code \in {0, 1, 2}, EndsWith(r, code),
         run[r].phase \in {"connecting", "sending", "waiting"},
         UNCHANGED <<conn, unread, reply, serving, revents, executed>>,
         code = 2 => run[r].phase = "connecting",
         code = 0 => reply[r] # ""
  PROVE  CtlInv'
<1>1. /\ \E p : Becomes(r, p)
      /\ run'[r].phase = "ended" /\ run'[r].exit = code
      /\ run'[r].refused => reply[r] = "ERR"
      /\ Keeps(r)
  BY Finished DEF CtlInv
<1>2. Kinds
  BY DEF CtlInv
<1>3. Kinds'
  BY <1>1, <1>2, ClientKinds DEF Kinds
<1>4. Answer(r)' = Answer(r) /\ CallsOf(r)' = CallsOf(r)
  BY <1>1 DEF Answer, CallsOf, Keeps
<1>5. Course(r) /\ Agreed(r) /\ (UsageUnderstood => Meant(r))
  BY DEF CtlInv, RunInv
<1>6. Course(r)'
  BY <1>1, <1>4, <1>5 DEF Course
<1>7. Agreed(r)'
  BY <1>1, <1>4, <1>5 DEF Agreed, Course, Keeps
<1>8. ASSUME UsageUnderstood
      PROVE  Meant(r)'
  BY <1>1, <1>4, <1>5, <1>8 DEF Meant, Course, Keeps
<1>9. RunInv(r)'
  BY <1>6, <1>7, <1>8 DEF RunInv
<1>10. \A q \in Runs : q # r => run'[q] = run[q]
  BY <1>1 DEF Becomes
<1> QED BY <1>3, <1>9, <1>10, OneRun

LEMMA ProcessStep ==
  ASSUME CtlInv, NEW r \in Runs, Process(r)
  PROVE  CtlInv'
<1>1. Kinds
  BY DEF CtlInv
<1>2. Course(r) /\ Agreed(r) /\ (UsageUnderstood => Meant(r))
  BY DEF CtlInv, RunInv
<1>3. CASE Connect(r)
  <2>1. /\ run[r].phase = "connecting" /\ run' = [run EXCEPT ![r].phase = "sending"]
        /\ conn' = [conn EXCEPT ![r] = "backlog"]
        /\ UNCHANGED <<unread, reply, serving, revents, executed>>
    BY <1>3 DEF Connect
  <2>2. /\ \E p : Becomes(r, p)
        /\ run'[r].phase = "sending" /\ run'[r].exit = -1
        /\ run'[r].refused = run[r].refused /\ Keeps(r)
    BY <1>1, <2>1, Moved
  <2>3. /\ conn' \in [Runs -> {"none", "backlog", "open", "lost"}]
        /\ \A q \in Runs : q # r => conn'[q] = conn[q]
    BY <1>1, <2>1 DEF Kinds
  <2>4. Kinds'
    BY <1>1, <2>1, <2>2, <2>3, ClientKinds DEF Kinds
  <2>5. Answer(r)' = Answer(r) /\ CallsOf(r)' = CallsOf(r)
    BY <2>1, <2>2 DEF Answer, CallsOf, Keeps
  <2>6. Course(r)'
    BY <1>2, <2>1, <2>2, <2>5 DEF Course
  <2>7. Agreed(r)'
    BY <1>2, <2>1, <2>2, <2>5 DEF Agreed, Keeps
  <2>8. ASSUME UsageUnderstood
        PROVE  Meant(r)'
    BY <1>2, <2>1, <2>2, <2>5, <2>8 DEF Meant, Keeps
  <2>9. RunInv(r)'
    BY <2>6, <2>7, <2>8 DEF RunInv
  <2>10. \A q \in Runs : q # r => run'[q] = run[q]
    BY <2>2 DEF Becomes
  <2> QED BY <2>1, <2>3, <2>4, <2>9, <2>10, OneRun
<1>4. CASE ConnectFails(r)
  <2>1. /\ run[r].phase = "connecting" /\ EndsWith(r, 2)
        /\ UNCHANGED <<conn, unread, reply, serving, revents, executed>>
    BY <1>4 DEF ConnectFails, daemon
  <2> DEFINE code == 2
  <2>2. EndsWith(r, code) /\ code \in {0, 1, 2} /\ code # 0
    BY <2>1
  <2> HIDE DEF code
  <2> QED BY <2>1, <2>2, EndStep
<1>5. CASE Send(r) /\ EndsWith(r, 1) /\ UNCHANGED unread
  <2>1. /\ run[r].phase = "sending"
        /\ UNCHANGED <<conn, unread, reply, serving, revents, executed>>
    BY <1>5 DEF Send, daemon
  <2> DEFINE code == 1
  <2>2. EndsWith(r, code) /\ code \in {0, 1, 2} /\ code # 2 /\ code # 0
    BY <1>5
  <2> HIDE DEF code
  <2> QED BY <1>5, <2>1, <2>2, EndStep
<1>6. CASE /\ Send(r) /\ unread' = [unread EXCEPT ![r] = TRUE]
           /\ run' = [run EXCEPT ![r].phase = "waiting"]
  <2>1. run[r].phase = "sending" /\ UNCHANGED <<conn, reply, serving, revents, executed>>
    BY <1>6 DEF Send, daemon
  <2>2. /\ \E p : Becomes(r, p)
        /\ run'[r].phase = "waiting" /\ run'[r].exit = -1
        /\ run'[r].refused = run[r].refused /\ Keeps(r)
    BY <1>1, <1>6, <2>1, Moved
  <2>3. /\ unread' \in [Runs -> BOOLEAN]
        /\ \A q \in Runs : q # r => unread'[q] = unread[q]
    BY <1>1, <1>6 DEF Kinds
  <2>4. Kinds'
    BY <1>1, <2>1, <2>2, <2>3, ClientKinds DEF Kinds
  <2>5. Answer(r)' = Answer(r) /\ CallsOf(r)' = CallsOf(r)
    BY <2>1, <2>2 DEF Answer, CallsOf, Keeps
  <2>x. ~unread[r] /\ reply[r] = "" /\ CallsOf(r) = {} /\ revents[r] # "POLLIN"
    BY <1>2, <2>1 DEF Course
  <2>y. reply'[r] = "" /\ CallsOf(r)' = {} /\ revents'[r] # "POLLIN"
    BY <2>1, <2>5, <2>x
  <2>6. Course(r)'
    <3>1. run'[r].phase \notin {"ready", "connecting", "sending"} /\ run'[r].exit # 2
      BY <2>2
    <3> QED BY <2>y, <3>1 DEF Course
  <2>7. Agreed(r)'
    BY <1>2, <2>1, <2>2, <2>5 DEF Agreed, Keeps
  <2>8. ASSUME UsageUnderstood
        PROVE  Meant(r)'
    BY <1>2, <2>1, <2>2, <2>5, <2>8 DEF Meant, Keeps
  <2>9. RunInv(r)'
    BY <2>6, <2>7, <2>8 DEF RunInv
  <2>10. \A q \in Runs : q # r => run'[q] = run[q]
    BY <2>2 DEF Becomes
  <2> QED BY <2>1, <2>3, <2>4, <2>9, <2>10, OneRun
<1>7. CASE Receive(r)
  <2> DEFINE code == ExitCode(run[r].status, reply[r])
  <2>1. /\ run[r].phase = "waiting" /\ EndsWith(r, code)
        /\ UNCHANGED <<conn, unread, reply, serving, revents, executed>>
    BY <1>7 DEF Receive, daemon
  <2>2. code \in {0, 1, 2} /\ code # 2 /\ (code = 0 => reply[r] # "")
    BY ExitCodeCases
  <2> HIDE DEF code
  <2> QED BY <2>1, <2>2, EndStep
<1>8. CASE TimeOut(r)
  <2>1. /\ run[r].phase = "waiting" /\ EndsWith(r, 1)
        /\ UNCHANGED <<conn, unread, reply, serving, revents, executed>>
    BY <1>8 DEF TimeOut, daemon
  <2> DEFINE code == 1
  <2>2. EndsWith(r, code) /\ code \in {0, 1, 2} /\ code # 2 /\ code # 0
    BY <2>1
  <2> HIDE DEF code
  <2> QED BY <2>1, <2>2, EndStep
<1> QED BY <1>3, <1>4, <1>5, <1>6, <1>7, <1>8 DEF Process, Send

\* A run of either program starts: nothing is known of it.
LEMMA StartedStep ==
  ASSUME CtlInv, NEW r \in Runs, run[r].phase = "ready", NEW p, IsRun(p),
         run' = [run EXCEPT ![r] = p],
         UNCHANGED <<conn, unread, reply, serving, revents, executed>>,
         ~p.raw => /\ p.phase \in {"connecting", "sending", "waiting"}
                        => HandleBuiltinCommand(p.line).reply # "ERR"
                   /\ ~p.refused,
         ~p.raw /\ UsageUnderstood =>
             /\ p.phase # "ended" => HandleBuiltinCommand(p.line).call = p.means
             /\ p.exit = 0 => p.means = Nothing,
         p.phase # "ready"
  PROVE  CtlInv'
<1>1. Kinds /\ Course(r)
  BY DEF CtlInv, RunInv
<1>2. Becomes(r, p)
  BY <1>1, RunAt
<1>3. Kinds'
  BY <1>1, <1>2, ClientKinds DEF Kinds
<1>4. run'[r] = p /\ \A q \in Runs : q # r => run'[q] = run[q]
  BY <1>2 DEF Becomes
<1>5. Answer(r)' = HandleBuiltinCommand(p.line)
  BY <1>4 DEF Answer
<1>6. CallsOf(r)' = CallsOf(r) /\ CallsOf(r) = {} /\ ~unread[r] /\ reply[r] = ""
  BY <1>1 DEF CallsOf, Course
<1>7. Course(r)'
  BY <1>1, <1>4, <1>6 DEF Course
<1>8. Agreed(r)'
  BY <1>4, <1>5 DEF Agreed
<1>9. ASSUME UsageUnderstood
      PROVE  Meant(r)'
  BY <1>4, <1>5, <1>6, <1>9 DEF Meant
<1>10. RunInv(r)'
  BY <1>7, <1>8, <1>9 DEF RunInv
<1> QED BY <1>3, <1>4, <1>10, OneRun

LEMMA LaunchedRun ==
  ASSUME NEW raw, NEW means, NEW line, NEW status, NEW exit \in {-1, 0, 1, 2}
  PROVE  /\ IsRun(Launched(raw, means, line, status, exit))
         /\ Launched(raw, means, line, status, exit).raw = raw
         /\ Launched(raw, means, line, status, exit).means = means
         /\ Launched(raw, means, line, status, exit).line = line
         /\ Launched(raw, means, line, status, exit).exit = exit
         /\ Launched(raw, means, line, status, exit).phase
               = IF exit = -1 THEN "connecting" ELSE "ended"
         /\ ~Launched(raw, means, line, status, exit).refused
  BY DEF Launched, IsRun

LEMMA RunStep ==
  ASSUME CtlInv, NEW r \in Runs, Run(r)
  PROVE  CtlInv'
<1>1. PICK u \in Usage :
        LET does == CommandLine(u.args)
        IN  run' = [run EXCEPT ![r] =
                IF does.exit = -1 /\ does.socket # ""
                THEN Launched(FALSE, u.means, <<>>, FALSE, 2)
                ELSE Launched(FALSE, u.means, does.line, does.status, does.exit)]
  BY DEF Run
<1> DEFINE does == CommandLine(u.args)
           means == u.means
<1>2. /\ run[r].phase = "ready"
      /\ UNCHANGED <<conn, unread, reply, serving, revents, executed>>
  BY DEF Run, daemon
<1>3. /\ does.exit \in {-1, 0, 1, 2}
      /\ does.exit = -1 => HandleBuiltinCommand(does.line).reply # "ERR"
  BY CommandLineIsAccepted
<1>4. UsageUnderstood =>
          means = IF does.exit = -1 /\ does.socket = ""
                  THEN HandleBuiltinCommand(does.line).call ELSE Nothing
  BY DEF UsageUnderstood
<1>5. CASE does.exit = -1 /\ does.socket # ""
  <2> DEFINE exit == 2
             raw == FALSE
             line == <<>>
             p == Launched(raw, means, line, raw, exit)
  <2>1. run' = [run EXCEPT ![r] = p]
    BY <1>1, <1>5
  <2>2. exit \in {-1, 0, 1, 2} /\ exit # -1 /\ exit # 0 /\ ~raw
    OBVIOUS
  <2> HIDE DEF exit, means, does, raw, line
  <2>3. /\ IsRun(p) /\ p.raw = raw /\ p.means = means /\ p.exit = exit
        /\ p.phase = (IF exit = -1 THEN "connecting" ELSE "ended") /\ ~p.refused
    BY <2>2, LaunchedRun
  <2>4. p.phase = "ended" /\ ~p.raw /\ p.exit # 0
    BY <2>2, <2>3
  <2> HIDE DEF p
  <2> QED BY <1>2, <2>1, <2>3, <2>4, StartedStep
<1>6. CASE ~(does.exit = -1 /\ does.socket # "")
  <2> DEFINE raw == FALSE
             line == does.line
             status == does.status
             exit == does.exit
             socket == does.socket
             p == Launched(raw, means, line, status, exit)
  <2>1. run' = [run EXCEPT ![r] = p]
    BY <1>1, <1>6
  <2>2. /\ exit \in {-1, 0, 1, 2} /\ ~raw
        /\ exit = -1 => HandleBuiltinCommand(line).reply # "ERR"
    BY <1>3
  <2>3. /\ UsageUnderstood /\ exit = -1 => means = HandleBuiltinCommand(line).call
        /\ UsageUnderstood /\ exit # -1 => means = Nothing
    BY <1>4, <1>6
  <2> HIDE DEF means, does, raw, line, status, exit
  <2>4. /\ IsRun(p) /\ p.raw = raw /\ p.means = means /\ p.exit = exit
        /\ p.line = line /\ ~p.refused
        /\ p.phase = IF exit = -1 THEN "connecting" ELSE "ended"
    BY <2>2, LaunchedRun
  <2> HIDE DEF p
  <2>5. ~p.raw /\ p.phase # "ready"
    BY <2>2, <2>4
  <2>6. p.phase \in {"connecting", "sending", "waiting"}
            => HandleBuiltinCommand(p.line).reply # "ERR"
    BY <2>2, <2>4
  <2>7. ASSUME UsageUnderstood
        PROVE  /\ p.phase # "ended" => HandleBuiltinCommand(p.line).call = p.means
               /\ p.exit = 0 => p.means = Nothing
    <3>1. CASE exit = -1
      BY <2>3, <2>4, <2>7, <3>1
    <3>2. CASE exit # -1
      BY <2>3, <2>4, <2>7, <3>2
    <3> QED BY <3>1, <3>2
  <2> QED BY <1>2, <2>1, <2>4, <2>5, <2>6, <2>7, StartedStep
<1> QED BY <1>5, <1>6

LEMMA RunOtherStep ==
  ASSUME CtlInv, NEW r \in Runs, RunOther(r)
  PROVE  CtlInv'
<1>1. PICK line \in RawLines : run' = [run EXCEPT ![r] = Launched(TRUE, Nothing, line, FALSE, -1)]
  BY DEF RunOther
<1>2. /\ run[r].phase = "ready"
      /\ UNCHANGED <<conn, unread, reply, serving, revents, executed>>
  BY DEF RunOther, daemon
<1> DEFINE exit == -1
           raw == TRUE
           status == FALSE
           p == Launched(raw, Nothing, line, status, exit)
<1>3. run' = [run EXCEPT ![r] = p]
  BY <1>1
<1>4. exit \in {-1, 0, 1, 2} /\ exit = -1
  OBVIOUS
<1>5. raw
  OBVIOUS
<1> HIDE DEF exit, raw, status
<1>6. /\ IsRun(p) /\ p.raw = raw
      /\ p.phase = IF exit = -1 THEN "connecting" ELSE "ended"
  BY <1>4, LaunchedRun
<1>7. p.raw /\ p.phase = "connecting"
  BY <1>4, <1>5, <1>6
<1> HIDE DEF p
<1> QED BY <1>2, <1>3, <1>6, <1>7, StartedStep

\* A step of the daemon that reads no line; those that it can still read get fewer.
LEMMA WithoutALine ==
  ASSUME CtlInv, Kinds', UNCHANGED <<run, reply, executed>>,
         \A q \in Runs :
             /\ unread'[q] => unread[q]
             /\ conn[q] \in {"open", "lost"} => conn'[q] \in {"open", "lost"}
             /\ revents'[q] = "POLLIN" => unread'[q] /\ conn'[q] = "open"
  PROVE  CtlInv'
<1>1. ASSUME NEW q \in Runs
      PROVE  RunInv(q)'
  <2>1. Course(q) /\ Agreed(q) /\ (UsageUnderstood => Meant(q))
    BY DEF CtlInv, RunInv
  <2>2. CallsOf(q)' = CallsOf(q) /\ Answer(q)' = Answer(q)
    BY DEF CallsOf, Answer
  <2>3. Course(q)'
    BY <2>1, <2>2 DEF Course
  <2>4. Agreed(q)'
    BY <2>1, <2>2 DEF Agreed
  <2>5. UsageUnderstood => Meant(q)'
    BY <2>1, <2>2 DEF Meant
  <2> QED BY <2>3, <2>4, <2>5 DEF RunInv
<1> QED BY <1>1 DEF CtlInv

LEMMA WithoutALineStep ==
  ASSUME CtlInv, Start \/ End \/ Poll \/ \E r \in Runs : Accept(r) \/ ServeHangup(r)
  PROVE  CtlInv'
<1>1. Kinds
  BY DEF CtlInv
<1>2. \A q \in Runs : revents[q] = "POLLIN" => unread[q] /\ conn[q] = "open"
  BY DEF CtlInv, RunInv, Course
<1>3. CASE Start
  <2>1. /\ UNCHANGED <<run, conn, unread, reply, revents, executed>> /\ serving' = TRUE
    BY <1>3 DEF Start
  <2>2. Kinds'
    BY <1>1, <2>1 DEF Kinds
  <2> QED BY <1>2, <2>1, <2>2, WithoutALine
<1>4. CASE End
  <2>1. /\ UNCHANGED <<run, reply, executed>> /\ serving' = FALSE
        /\ conn' = [r \in Runs |-> IF conn[r] = "none" THEN "none" ELSE "lost"]
        /\ unread' = [r \in Runs |-> FALSE]
        /\ revents' = [r \in Runs |-> ""]
    BY <1>4 DEF End
  <2>2. Kinds'
    BY <1>1, <2>1 DEF Kinds
  <2> QED BY <2>1, <2>2, WithoutALine
<1>5. CASE Poll
  <2>1. UNCHANGED <<run, conn, unread, reply, serving, executed>>
    BY <1>5 DEF Poll
  <2>2. /\ revents' = [r \in Runs |-> revents'[r]]
        /\ \A r \in Runs : revents'[r] = Event(r)
    BY <1>5 DEF Poll
  <2>3. \A r \in Runs : /\ Event(r) \in {"", "POLLIN", "POLLHUP"}
                        /\ Event(r) = "POLLIN" => unread[r] /\ conn[r] = "open"
    BY DEF Event
  <2>4. revents' \in [Runs -> {"", "POLLIN", "POLLHUP"}]
    BY <2>2, <2>3
  <2>5. Kinds'
    BY <1>1, <2>1, <2>4 DEF Kinds
  <2> QED BY <2>1, <2>2, <2>3, <2>5, WithoutALine
<1>6. ASSUME NEW r \in Runs, Accept(r)
      PROVE  CtlInv'
  <2>1. /\ UNCHANGED <<run, unread, reply, serving, revents, executed>>
        /\ conn[r] = "backlog" /\ conn' = [conn EXCEPT ![r] = "open"]
    BY <1>6 DEF Accept
  <2>2. /\ conn' \in [Runs -> {"none", "backlog", "open", "lost"}]
        /\ \A q \in Runs : conn'[q] = IF q = r THEN "open" ELSE conn[q]
    BY <1>1, <2>1 DEF Kinds
  <2>3. Kinds'
    BY <1>1, <2>1, <2>2 DEF Kinds
  <2> QED BY <1>2, <2>1, <2>2, <2>3, WithoutALine
<1>7. ASSUME NEW r \in Runs, ServeHangup(r)
      PROVE  CtlInv'
  <2>1. UNCHANGED <<run, reply, serving, executed>>
    BY <1>7 DEF ServeHangup
  <2>2. /\ conn' \in [Runs -> {"none", "backlog", "open", "lost"}]
        /\ unread' \in [Runs -> BOOLEAN]
        /\ revents' \in [Runs -> {"", "POLLIN", "POLLHUP"}]
        /\ \A q \in Runs : /\ q = r => conn'[q] = "lost" /\ ~unread'[q] /\ revents'[q] = ""
                           /\ q # r => /\ conn'[q] = conn[q] /\ unread'[q] = unread[q]
                                       /\ revents'[q] = revents[q]
    <3>1. /\ conn' = [conn EXCEPT ![r] = "lost"] /\ unread' = [unread EXCEPT ![r] = FALSE]
          /\ revents' = [revents EXCEPT ![r] = ""]
      BY <1>7 DEF ServeHangup
    <3>2. /\ conn \in [Runs -> {"none", "backlog", "open", "lost"}]
          /\ unread \in [Runs -> BOOLEAN]
          /\ revents \in [Runs -> {"", "POLLIN", "POLLHUP"}]
      BY <1>1 DEF Kinds
    <3> QED BY <3>1, <3>2
  <2>3. Kinds'
    BY <1>1, <2>1, <2>2 DEF Kinds
  <2> QED BY <1>2, <2>1, <2>2, <2>3, WithoutALine
<1> QED BY <1>3, <1>4, <1>5, <1>6, <1>7

\* A line is read once: it is unread, so nothing was done for its sender yet.
LEMMA ServeLineStep ==
  ASSUME CtlInv, NEW r \in Runs, ServeLine(r)
  PROVE  CtlInv'
<1> DEFINE call == Answer(r).call
           entry == [run |-> r, call |-> call]
           answer == Answer(r).reply
<1>1. /\ revents[r] = "POLLIN" /\ UNCHANGED <<run, serving>>
      /\ executed' = IF call = Nothing THEN executed ELSE Append(executed, entry)
      /\ \/ /\ run[r].phase = "ended" /\ UNCHANGED reply
            /\ conn' = [conn EXCEPT ![r] = "lost"]
         \/ /\ run[r].phase # "ended" /\ UNCHANGED conn
            /\ reply' = [reply EXCEPT ![r] = answer]
      /\ unread' = [unread EXCEPT ![r] = FALSE]
      /\ revents' = [revents EXCEPT ![r] = ""]
  BY DEF ServeLine, Answer
<1>2. Kinds /\ Course(r) /\ Agreed(r) /\ (UsageUnderstood => Meant(r))
  BY DEF CtlInv, RunInv
<1>3. /\ unread[r] /\ conn[r] = "open" /\ CallsOf(r) = {} /\ run[r].exit # 2
      /\ run[r].phase \notin {"ready", "connecting", "sending"}
      /\ reply[r] # "" => reply[r] = answer /\ call = Nothing
  BY <1>1, <1>2 DEF Course
<1>4. answer \in {"OK", "ERR", "JSON"}
  BY Replies DEF Answer
<1>5. entry = [run |-> entry.run, call |-> entry.call] /\ entry.run = r /\ entry.call = call
  OBVIOUS
<1>6. Answer(r)' = Answer(r)
  BY <1>1 DEF Answer
<1>7. call = Answer(r).call /\ answer = Answer(r).reply
  OBVIOUS
<1> HIDE DEF entry, call, answer
<1>8. \E S : executed \in Seq(S)
  BY <1>2 DEF Kinds
<1>9. /\ \E S : executed' \in Seq(S)
      /\ Len(executed) \in Nat
      /\ \A i \in 1 .. Len(executed) : executed'[i] = executed[i]
      /\ call = Nothing => executed' = executed
      /\ call # Nothing => /\ Len(executed') = Len(executed) + 1
                          /\ executed'[Len(executed) + 1] = entry
  <2>1. PICK S : executed \in Seq(S)
    BY <1>8
  <2>2. /\ \E T : Append(executed, entry) \in Seq(T)
        /\ Len(Append(executed, entry)) = Len(executed) + 1 /\ Len(executed) \in Nat
        /\ \A i \in 1 .. Len(executed) : Append(executed, entry)[i] = executed[i]
        /\ Append(executed, entry)[Len(executed) + 1] = entry
    BY ONLY <2>1, Appended
  <2>3. CASE call = Nothing
    BY <1>1, <1>8, <2>2, <2>3
  <2>4. CASE call # Nothing
    BY <1>1, <2>2, <2>4
  <2> QED BY <2>3, <2>4
<1>10. /\ conn' \in [Runs -> {"none", "backlog", "open", "lost"}]
       /\ unread' \in [Runs -> BOOLEAN]
       /\ reply' \in [Runs -> {"", "OK", "ERR", "JSON"}]
       /\ revents' \in [Runs -> {"", "POLLIN", "POLLHUP"}]
       /\ \A q \in Runs : q # r => /\ conn'[q] = conn[q] /\ unread'[q] = unread[q]
                                   /\ reply'[q] = reply[q] /\ revents'[q] = revents[q]
       /\ ~unread'[r] /\ revents'[r] = "" /\ conn'[r] \in {"open", "lost"}
       /\ reply'[r] # "" => reply'[r] = answer
  <2>1. /\ conn \in [Runs -> {"none", "backlog", "open", "lost"}]
        /\ unread \in [Runs -> BOOLEAN]
        /\ reply \in [Runs -> {"", "OK", "ERR", "JSON"}]
        /\ revents \in [Runs -> {"", "POLLIN", "POLLHUP"}]
    BY <1>2 DEF Kinds
  <2>2. /\ unread' \in [Runs -> BOOLEAN]
        /\ revents' \in [Runs -> {"", "POLLIN", "POLLHUP"}]
        /\ \A q \in Runs : q # r => unread'[q] = unread[q] /\ revents'[q] = revents[q]
        /\ ~unread'[r] /\ revents'[r] = ""
    BY <1>1, <2>1
  <2>3. CASE UNCHANGED reply /\ conn' = [conn EXCEPT ![r] = "lost"]
    BY <1>3, <2>1, <2>2, <2>3
  <2>4. CASE UNCHANGED conn /\ reply' = [reply EXCEPT ![r] = answer]
    BY <1>3, <1>4, <2>1, <2>2, <2>4
  <2> QED BY <1>1, <2>3, <2>4
<1>11. Kinds'
  <2>1. \A i \in 1 .. Len(executed') :
          /\ executed'[i] = [run |-> executed'[i].run, call |-> executed'[i].call]
          /\ executed'[i].run \in Runs
    <3>1. \A i \in 1 .. Len(executed) :
            /\ executed[i] = [run |-> executed[i].run, call |-> executed[i].call]
            /\ executed[i].run \in Runs
      BY <1>2 DEF Kinds
    <3>2. ASSUME NEW i \in 1 .. Len(executed')
          PROVE  i \in 1 .. Len(executed) \/ executed'[i] = entry
      BY <1>9
    <3>3. \A i \in 1 .. Len(executed) : executed'[i] = executed[i]
      BY <1>9
    <3> QED BY <1>5, <3>1, <3>2, <3>3, Zenon
  <2>2. run' = [q \in Runs |-> run'[q]] /\ \A q \in Runs : IsRun(run'[q])
    BY <1>1, <1>2 DEF Kinds
  <2>3. serving' \in BOOLEAN /\ \E S : executed' \in Seq(S)
    BY <1>1, <1>2, <1>9 DEF Kinds
  <2> QED BY <1>10, <2>1, <2>2, <2>3 DEF Kinds
<1>12. \A q \in Runs : q # r => CallsOf(q)' = CallsOf(q)
  BY <1>5, <1>9 DEF CallsOf
<1>13. /\ call = Nothing => CallsOf(r)' = {}
       /\ call # Nothing => CallsOf(r)' = {Len(executed) + 1}
  <2>1. \A i \in 1 .. Len(executed) : executed'[i].run # r
    BY <1>3, <1>9 DEF CallsOf
  <2>2. CASE call = Nothing
    BY <1>9, <2>1, <2>2 DEF CallsOf
  <2>3. CASE call # Nothing
    <3>1. /\ 1 .. Len(executed') = (1 .. Len(executed)) \cup {Len(executed) + 1}
          /\ executed'[Len(executed) + 1].run = r
      BY <1>5, <1>9, <2>3
    <3> QED BY <2>1, <2>3, <3>1 DEF CallsOf
  <2> QED BY <2>2, <2>3
<1>14. \A q \in Runs : CallsOf(q) \subseteq 1 .. Len(executed)
  BY DEF CallsOf
<1>15. ASSUME NEW q \in Runs, q # r
       PROVE  RunInv(q)'
  <2>1. RunInv(q)
    BY DEF CtlInv
  <2>2. \A i \in CallsOf(q) : executed'[i] = executed[i]
    BY <1>9, <1>14
  <2> QED BY <1>1, <1>10, <1>12, <1>15, <2>1, <2>2, OtherRun
<1>16. Course(r)'
  <2>1. \A i \in CallsOf(r)' : CallsOf(r)' = {i} /\ executed'[i].call = call
    BY <1>5, <1>9, <1>13
  <2>2. UNCHANGED run /\ (Answer(r).call # Nothing => CallsOf(r)' # {})
    BY <1>1, <1>7, <1>13
  <2>3. /\ ~unread'[r] /\ revents'[r] = "" /\ conn'[r] \in {"open", "lost"}
        /\ reply'[r] # "" => reply'[r] = Answer(r)'.reply
    BY <1>6, <1>7, <1>10
  <2>4. /\ run'[r].phase \notin {"ready", "connecting", "sending"}
        /\ run'[r].exit # 2
    BY <1>3, <2>2
  <2>5. \A i \in CallsOf(r)' : CallsOf(r)' = {i} /\ executed'[i].call = Answer(r)'.call
    BY <1>6, <1>7, <2>1
  <2>6. Answer(r)'.call # Nothing => CallsOf(r)' # {}
    BY <1>6, <2>2
  <2> QED BY <2>3, <2>4, <2>5, <2>6 DEF Course
<1>17. Agreed(r)'
  BY <1>1, <1>2, <1>6 DEF Agreed
<1>18. ASSUME UsageUnderstood
       PROVE  Meant(r)'
  BY <1>1, <1>2, <1>3, <1>6, <1>18 DEF Meant
<1>19. RunInv(r)'
  BY <1>16, <1>17, <1>18 DEF RunInv
<1> QED BY <1>11, <1>15, <1>19 DEF CtlInv

LEMMA CtlInit == Init => CtlInv
<1> SUFFICES ASSUME Init PROVE CtlInv
  OBVIOUS
<1>1. IsRun(Unused) /\ Unused.phase = "ready" /\ Unused.exit = -1 /\ ~Unused.refused
  BY DEF IsRun, Unused
<1>2. \A r \in Runs : /\ run[r] = Unused /\ conn[r] = "none" /\ ~unread[r]
                      /\ reply[r] = "" /\ revents[r] = ""
  BY DEF Init
<1>3. 1 .. Len(executed) = {} /\ \E S : executed \in Seq(S)
  <2>1. Len(executed) = 0
    BY DEF Init
  <2>2. \E S : executed \in Seq(S)
    BY Empty DEF Init
  <2> QED BY <2>1, <2>2
<1>4. Kinds
  <2>1. run = [r \in Runs |-> run[r]] /\ \A r \in Runs : IsRun(run[r])
    BY <1>1, <1>2 DEF Init
  <2>2. /\ conn \in [Runs -> {"none", "backlog", "open", "lost"}]
        /\ unread \in [Runs -> BOOLEAN] /\ reply \in [Runs -> {"", "OK", "ERR", "JSON"}]
        /\ serving \in BOOLEAN /\ revents \in [Runs -> {"", "POLLIN", "POLLHUP"}]
    BY DEF Init
  <2> QED BY <1>3, <2>1, <2>2 DEF Kinds
<1>5. ASSUME NEW r \in Runs
      PROVE  RunInv(r)
  <2>1. CallsOf(r) = {}
    BY <1>3 DEF CallsOf
  <2>2. Course(r)
    BY <1>1, <1>2, <2>1 DEF Course
  <2>3. Agreed(r)
    BY <1>1, <1>2 DEF Agreed
  <2>4. Meant(r)
    <3>1. Unused.phase = "ready" /\ Unused.exit # 0
      BY DEF Unused
    <3>2. run[r] = Unused /\ ~unread[r]
      BY <1>2
    <3> QED BY <2>1, <3>1, <3>2, Zenon DEF Meant
  <2> QED BY <2>2, <2>3, <2>4 DEF RunInv
<1> QED BY <1>4, <1>5 DEF CtlInv

LEMMA CtlNext == CtlInv /\ [Next]_vars => CtlInv'
<1> SUFFICES ASSUME CtlInv, [Next]_vars PROVE CtlInv'
  OBVIOUS
<1>1. ASSUME NEW r \in Runs, Run(r) PROVE CtlInv'
  BY <1>1, RunStep
<1>2. ASSUME NEW r \in Runs, RunOther(r) PROVE CtlInv'
  BY <1>2, RunOtherStep
<1>3. ASSUME NEW r \in Runs, Process(r) PROVE CtlInv'
  BY <1>3, ProcessStep
<1>4. CASE Start \/ End \/ Poll \/ \E r \in Runs : Accept(r) \/ ServeHangup(r)
  BY <1>4, WithoutALineStep
<1>5. ASSUME NEW r \in Runs, ServeLine(r) PROVE CtlInv'
  BY <1>5, ServeLineStep
<1>6. CASE UNCHANGED vars
  <2>1. UNCHANGED <<run, conn, unread, reply, serving, revents, executed>>
    BY <1>6 DEF vars
  <2>2. Kinds'
    BY <2>1 DEF CtlInv, Kinds
  <2>3. ASSUME NEW q \in Runs
        PROVE  RunInv(q)'
    <3>1. CallsOf(q)' = CallsOf(q)
      BY <2>1 DEF CallsOf
    <3> QED BY <2>1, <3>1, OtherRun DEF CtlInv
  <2> QED BY <2>2, <2>3 DEF CtlInv
<1> QED BY <1>1, <1>2, <1>3, <1>4, <1>5, <1>6 DEF Next

-----------------------------------------------------------------------------
(* What follows for the runs *)

\* Every run is in the history at most once, so that the history is no longer than
\* the number of the runs.
LEMMA HistoryIsShort ==
  ASSUME CtlInv
  PROVE  Len(executed) <= Cardinality(Runs)
<1>1. Len(executed) \in Nat /\ \A i \in 1 .. Len(executed) : executed[i].run \in Runs
  <2>1. PICK S : executed \in Seq(S)
    BY DEF CtlInv, Kinds
  <2>2. \A i \in 1 .. Len(executed) : executed[i].run \in Runs
    BY DEF CtlInv, Kinds
  <2>3. Len(executed) \in Nat
    BY <2>1
  <2> QED BY <2>2, <2>3
<1> DEFINE f == [i \in 1 .. Len(executed) |-> executed[i].run]
<1>2. f \in Injection(1 .. Len(executed), Runs)
  <2>1. ASSUME NEW i \in 1 .. Len(executed), NEW j \in 1 .. Len(executed),
               executed[i].run = executed[j].run
        PROVE  i = j
    <3> DEFINE q == executed[i].run
    <3>1. q \in Runs /\ i \in CallsOf(q) /\ j \in CallsOf(q)
      BY <1>1, <2>1 DEF CallsOf
    <3>2. CallsOf(q) = {i} /\ CallsOf(q) = {j}
      BY <3>1 DEF CtlInv, RunInv, Course
    <3> QED BY <3>2
  <2>2. f \in [1 .. Len(executed) -> Runs]
    BY <1>1
  <2>3. \A i, j \in 1 .. Len(executed) : f[i] = f[j] => i = j
    BY <2>1
  <2> QED BY <2>2, <2>3 DEF Injection, IsInjective
<1> HIDE DEF f
<1>3. Cardinality(1 .. Len(executed)) <= Cardinality(Runs)
  BY <1>2, CtlAssumption, FS_Injection
<1>4. Cardinality(1 .. Len(executed)) = Len(executed)
  <2> DEFINE n == Len(executed)
             one == 1
  <2>1. n \in Int /\ n >= 0 /\ one \in Int /\ one = 1
    BY <1>1
  <2> HIDE DEF n, one
  <2>2. Cardinality(one .. n) = IF one > n THEN 0 ELSE n - one + 1
    BY <2>1, FS_Interval
  <2>3. Cardinality(one .. n) = n
    BY <2>1, <2>2
  <2> QED BY <2>1, <2>3 DEF n
<1> QED BY <1>3, <1>4

LEMMA HistoryType ==
  ASSUME CtlInv
  PROVE  executed \in Seq([run : Runs, call : {e.call : e \in ToSet(executed)}])
<1>1. PICK S : executed \in Seq(S)
  BY DEF CtlInv, Kinds
<1> DEFINE calls == {e.call : e \in ToSet(executed)}
           entries == [run : Runs, call : calls]
<1>2. Len(executed) \in Nat /\ DOMAIN executed = 1 .. Len(executed)
  BY <1>1
<1>3. ASSUME NEW i \in 1 .. Len(executed)
      PROVE  executed[i] \in entries
  <2>1. executed[i] \in ToSet(executed)
    BY <1>2 DEF ToSet
  <2>2. executed[i].call \in calls
    BY <2>1
  <2> HIDE DEF calls
  <2>3. /\ executed[i] = [run |-> executed[i].run, call |-> executed[i].call]
        /\ executed[i].run \in Runs
    BY DEF CtlInv, Kinds
  <2> QED BY <2>2, <2>3
<1> HIDE DEF entries
<1>4. executed = [i \in 1 .. Len(executed) |-> executed[i]]
  BY <1>1
<1>5. executed \in [1 .. Len(executed) -> entries]
  BY <1>3, <1>4
<1>6. executed \in Seq(entries)
  BY <1>2, <1>5, SeqDef
<1> QED BY <1>6 DEF entries

\* TypeOK.
THEOREM CtlTypeCorrect == Spec => []TypeOK
<1>1. CtlInv => TypeOK
  <2> SUFFICES ASSUME CtlInv PROVE TypeOK
    OBVIOUS
  <2>1. ASSUME NEW r \in Runs
        PROVE  /\ run[r].phase \in {"ready", "connecting", "sending", "waiting", "ended"}
               /\ run[r].exit \in {-1, 0, 1, 2}
               /\ run[r].exit # -1 <=> run[r].phase = "ended"
    BY DEF CtlInv, Kinds, IsRun
  <2>2. ASSUME NEW r \in Runs
        PROVE  reply[r] # "" => conn[r] \in {"open", "lost"} \/ run[r].phase = "ended"
    BY DEF CtlInv, RunInv, Course
  <2>3. /\ conn \in [Runs -> {"none", "backlog", "open", "lost"}]
        /\ unread \in [Runs -> BOOLEAN] /\ reply \in [Runs -> {"", "OK", "ERR", "JSON"}]
        /\ serving \in BOOLEAN /\ revents \in [Runs -> {"", "POLLIN", "POLLHUP"}]
    BY DEF CtlInv, Kinds
  <2> QED BY <2>1, <2>2, <2>3, HistoryIsShort, HistoryType DEF TypeOK
<1> QED BY CtlInit, CtlNext, <1>1, PTL DEF Spec

\* Whatever is typed, a line that sony-ctl sends is one the daemon accepts: no run of
\* it ever reads an ERR (cli/src/main.cpp:231-360, IpcServer.cpp:447-635).
THEOREM ProgramsAgree == Spec => []Agreement
<1>1. CtlInv => Agreement
  BY DEF CtlInv, RunInv, Agreed, Agreement
<1> QED BY CtlInit, CtlNext, <1>1, PTL DEF Spec

\* If the usage text says what the daemon makes of each line, sony-ctl's exit code tells
\* what was done, in every interleaving with the daemon (cli/src/main.cpp:153-173).
THEOREM ExitCodesTrue ==
  ASSUME UsageUnderstood
  PROVE  Spec => []ExitCodes
<1>1. CtlInv => ExitCodes
  <2> SUFFICES ASSUME CtlInv, NEW r \in Runs, ~run[r].raw
               PROVE  /\ \A i \in CallsOf(r) : /\ CallsOf(r) = {i}
                                               /\ executed[i].call = run[r].means
                      /\ run[r].exit = 0 /\ run[r].means # Nothing => CallsOf(r) # {}
                      /\ run[r].exit = 2 => CallsOf(r) = {} /\ ~unread[r]
    BY DEF ExitCodes
  <2>1. Course(r) /\ Meant(r)
    BY UsageUnderstood DEF CtlInv, RunInv
  <2>2. CallsOf(r) # {} => Answer(r).call = run[r].means
    BY <2>1 DEF Meant
  <2>3. \A i \in CallsOf(r) : CallsOf(r) = {i} /\ executed[i].call = Answer(r).call
    BY <2>1 DEF Course
  <2>4. run[r].exit = 0 /\ run[r].means # Nothing => CallsOf(r) # {}
    BY <2>1 DEF Meant
  <2>5. run[r].exit = 2 => CallsOf(r) = {} /\ ~unread[r]
    BY <2>1 DEF Course
  <2> QED BY <2>2, <2>3, <2>4, <2>5
<1> QED BY CtlInit, CtlNext, <1>1, PTL DEF Spec
=============================================================================
