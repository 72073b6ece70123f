---------------------------- MODULE SettingProofs ----------------------------
(***************************************************************************)
(* The status and the headset agree once nothing is under way, for every   *)
(* set of values and commands and whatever races with whatever.            *)
(*                                                                         *)
(* What is under way passes four stages in order: waiting, wire, the       *)
(* headset, inbound.  A difference between the status and the headset must *)
(* be covered by a message in one of the stages, and the command that came *)
(* last must be the last one that the headset will read.                   *)
(***************************************************************************)
EXTENDS SettingSync, SequenceTheorems, TLAPS

FrameSet ==
    {[kind |-> "handshake"]} \cup {Ask(s) : s \in Settings}
    \cup UNION {{Put(s, v) : v \in EffectiveOf[s]} : s \in Settings}

ReplySet == {Ack} \cup UNION {{Report(s, v) : v \in EffectiveOf[s]} : s \in Settings}

\* A value of its set for every setting and nothing else.
Stored(f, sets) == f = [s \in Settings |-> f[s]] /\ \A s \in Settings : f[s] \in sets[s]

WantedOf == [s \in Settings |-> SUBSET EffectiveOf[s]]

Concerns(m, kind, s) == m.kind = kind /\ m.setting = s

\* Some message of the kind is about the setting.
Has(q, kind, s) == \E i \in 1 .. Len(q) : Concerns(q[i], kind, s)

\* Some command would change a setting that has the value v.
Changes(q, s, v) == \E i \in 1 .. Len(q) : Concerns(q[i], "put", s) /\ q[i].value # v

\* The last message of the kind about the setting, if any, carries a value of W.
LastIn(q, kind, s, W) ==
    \A i \in 1 .. Len(q) :
        Concerns(q[i], kind, s) =>
            \/ q[i].value \in W
            \/ \E j \in 1 .. Len(q) : i < j /\ Concerns(q[j], kind, s)

-----------------------------------------------------------------------------
(* The inductive invariant *)

Typed ==
    /\ open \in BOOLEAN /\ busy \in BOOLEAN /\ bit \in {0, 1}
    /\ waiting \in Seq(FrameSet) /\ wire \in Seq(FrameSet) /\ inbound \in Seq(ReplySet)
    /\ Stored(published, ShownOf)
    /\ Stored(actual, EffectiveOf)
    /\ Stored(wanted, WantedOf)
    /\ heard \subseteq Settings
    /\ dropped \in BOOLEAN

\* Nothing is left over between two sessions.
Idle ==
    /\ waiting # <<>> => busy
    /\ ~open => /\ waiting = <<>> /\ wire = <<>> /\ inbound = <<>>
                /\ heard = {} /\ dropped = FALSE
                /\ \A s \in Settings : actual[s] \in wanted[s]

\* What the headset reported last is how it is.
Current(s) == LastIn(inbound, "report", s, {actual[s]})

\* A status that differs from the headset will be told, or will come true.
Covered(s) ==
    s # "eq" \/ s \in heard =>
        \/ Tells(s, published[s], actual[s])
        \/ Has(inbound, "report", s)
        \/ Has(waiting, "ask", s) \/ Has(wire, "ask", s)
        \/ Changes(waiting, s, actual[s]) \/ Changes(wire, s, actual[s])

\* The last command under way, or else the headset, is as it was asked.
Heeded(s) ==
    IF Has(waiting, "put", s) THEN LastIn(waiting, "put", s, wanted[s])
    ELSE IF Has(wire, "put", s) THEN LastIn(wire, "put", s, wanted[s])
    ELSE actual[s] \in wanted[s]

Synced == \A s \in Settings : Current(s) /\ (open /\ ~dropped => Covered(s) /\ Heeded(s))

SyncInv == Typed /\ Idle /\ Synced

-----------------------------------------------------------------------------
(* Queues of messages *)

LEMMA AppendMessage ==
  ASSUME NEW S, NEW q \in Seq(S), NEW m \in S, NEW kind, NEW s
  PROVE  /\ Append(q, m) \in Seq(S)
         /\ Has(Append(q, m), kind, s) <=> Has(q, kind, s) \/ Concerns(m, kind, s)
         /\ \A v : Changes(Append(q, m), s, v)
                     <=> Changes(q, s, v) \/ (Concerns(m, "put", s) /\ m.value # v)
         /\ \A W : IF Concerns(m, kind, s)
                   THEN m.value \in W => LastIn(Append(q, m), kind, s, W)
                   ELSE LastIn(q, kind, s, W) => LastIn(Append(q, m), kind, s, W)
<1> DEFINE t == Append(q, m)
           n == Len(q) + 1
<1>1. /\ t \in Seq(S) /\ Len(q) \in Nat /\ Len(t) = n /\ n \in Nat
      /\ \A i \in 1 .. Len(q) : t[i] = q[i] /\ i < n
      /\ t[n] = m
  BY AppendProperties, LenProperties
<1> HIDE DEF t
<1>2. 1 .. Len(t) = (1 .. Len(q)) \cup {n}
  BY <1>1
<1> HIDE DEF n
<1>3. Has(t, kind, s) <=> Has(q, kind, s) \/ Concerns(m, kind, s)
  BY <1>1, <1>2 DEF Has
<1>4. ASSUME NEW v
      PROVE  Changes(t, s, v) <=> Changes(q, s, v) \/ (Concerns(m, "put", s) /\ m.value # v)
  BY <1>1, <1>2 DEF Changes
<1>5. ASSUME NEW W, Concerns(m, kind, s), m.value \in W
      PROVE  LastIn(t, kind, s, W)
  BY <1>1, <1>2, <1>5 DEF LastIn
<1>6. ASSUME NEW W, ~Concerns(m, kind, s), LastIn(q, kind, s, W)
      PROVE  LastIn(t, kind, s, W)
  BY <1>1, <1>2, <1>6 DEF LastIn
<1> QED BY <1>1, <1>3, <1>4, <1>5, <1>6 DEF t

LEMMA TailMessage ==
  ASSUME NEW S, NEW q \in Seq(S), q # <<>>, NEW kind, NEW s
  PROVE  /\ Head(q) \in S /\ Tail(q) \in Seq(S)
         /\ Has(q, kind, s) <=> Has(Tail(q), kind, s) \/ Concerns(Head(q), kind, s)
         /\ \A v : Changes(q, s, v)
                     <=> Changes(Tail(q), s, v) \/ (Concerns(Head(q), "put", s) /\ Head(q).value # v)
         /\ \A W : LastIn(q, kind, s, W) =>
                       /\ LastIn(Tail(q), kind, s, W)
                       /\ Concerns(Head(q), kind, s) /\ ~Has(Tail(q), kind, s)
                              => Head(q).value \in W
<1> DEFINE t == Tail(q)
           h == Head(q)
<1>1. /\ h \in S /\ t \in Seq(S) /\ Len(q) \in Nat /\ Len(q) >= 1 /\ Len(t) = Len(q) - 1
      /\ \A i \in 1 .. Len(t) : t[i] = q[i + 1]
  BY HeadTailProperties, LenProperties, EmptySeq
<1>2. h = q[1]
  OBVIOUS
<1> HIDE DEF t, h
<1>3. /\ \A i \in 1 .. Len(t) : i + 1 \in 1 .. Len(q) /\ t[i] = q[i + 1]
      /\ \A i \in 1 .. Len(q) : i # 1 => i - 1 \in 1 .. Len(t) /\ t[i - 1] = q[i]
      /\ 1 \in 1 .. Len(q)
  <2>1. \A i \in 1 .. Len(q) : i # 1 => i - 1 \in 1 .. Len(t) /\ (i - 1) + 1 = i
    BY <1>1
  <2> QED BY <1>1, <2>1
<1>4. Has(q, kind, s) <=> Has(t, kind, s) \/ Concerns(h, kind, s)
  BY <1>2, <1>3 DEF Has
<1>5. ASSUME NEW v
      PROVE  Changes(q, s, v) <=> Changes(t, s, v) \/ (Concerns(h, "put", s) /\ h.value # v)
  <2>1. Changes(t, s, v) \/ (Concerns(h, "put", s) /\ h.value # v) => Changes(q, s, v)
    BY <1>2, <1>3 DEF Changes
  <2>2. ASSUME NEW i \in 1 .. Len(q), Concerns(q[i], "put", s), q[i].value # v
        PROVE  Changes(t, s, v) \/ (Concerns(h, "put", s) /\ h.value # v)
    <3>1. CASE i = 1
      BY <1>2, <2>2, <3>1
    <3>2. CASE i # 1
      <4>1. i - 1 \in 1 .. Len(t) /\ t[i - 1] = q[i]
        BY <1>3, <3>2
      <4>2. Changes(t, s, v)
        BY <2>2, <4>1 DEF Changes
      <4> QED BY <4>2
    <3> QED BY <3>1, <3>2
  <2>3. Changes(q, s, v) => Changes(t, s, v) \/ (Concerns(h, "put", s) /\ h.value # v)
    BY <2>2 DEF Changes
  <2> QED BY <2>1, <2>3
<1>6. ASSUME NEW W, LastIn(q, kind, s, W)
      PROVE  LastIn(t, kind, s, W)
  <2> SUFFICES ASSUME NEW i \in 1 .. Len(t), Concerns(t[i], kind, s), t[i].value \notin W
               PROVE  \E j \in 1 .. Len(t) : i < j /\ Concerns(t[j], kind, s)
    BY DEF LastIn
  <2>1. PICK j \in 1 .. Len(q) : i + 1 < j /\ Concerns(q[j], kind, s)
    BY <1>3, <1>6 DEF LastIn
  <2>2. j - 1 \in 1 .. Len(t) /\ t[j - 1] = q[j] /\ i < j - 1
    BY <1>1, <1>3, <2>1
  <2> QED BY <2>1, <2>2
<1>7. ASSUME NEW W, LastIn(q, kind, s, W), Concerns(h, kind, s), ~Has(t, kind, s)
      PROVE  h.value \in W
  <2> SUFFICES ASSUME h.value \notin W
               PROVE  FALSE
    OBVIOUS
  <2>1. PICK j \in 1 .. Len(q) : 1 < j /\ Concerns(q[j], kind, s)
    BY <1>2, <1>3, <1>7 DEF LastIn
  <2> QED BY <1>3, <1>7, <2>1 DEF Has
<1> QED BY <1>1, <1>4, <1>5, <1>6, <1>7 DEF t, h

\* An acknowledgement and the report behind it.
LEMMA AppendTwo ==
  ASSUME NEW S, NEW q \in Seq(S), NEW a \in S, NEW b \in S
  PROVE  q \o <<a, b>> = Append(Append(q, a), b) /\ q \o <<a>> = Append(q, a)
<1> DEFINE t == q \o <<a, b>>
           u == Append(Append(q, a), b)
<1>1. <<a, b>> \in Seq(S) /\ Len(<<a, b>>) = 2 /\ <<a, b>>[1] = a /\ <<a, b>>[2] = b
  OBVIOUS
<1>2. /\ t \in Seq(S) /\ Len(q) \in Nat /\ Len(t) = Len(q) + 2
      /\ \A i \in 1 .. Len(q) + 2 : t[i] = IF i <= Len(q) THEN q[i] ELSE <<a, b>>[i - Len(q)]
  BY <1>1, ConcatProperties, LenProperties
<1>3. /\ Append(q, a) \in Seq(S) /\ Len(Append(q, a)) = Len(q) + 1
      /\ \A i \in 1 .. Len(q) : Append(q, a)[i] = q[i]
      /\ Append(q, a)[Len(q) + 1] = a
  BY AppendProperties
<1>4. /\ u \in Seq(S) /\ Len(u) = Len(q) + 2
      /\ \A i \in 1 .. Len(q) + 1 : u[i] = Append(q, a)[i]
      /\ u[Len(q) + 2] = b
  BY <1>2, <1>3, AppendProperties
<1> HIDE DEF t, u
<1>5. \A i \in 1 .. Len(t) : t[i] = u[i]
  <2> SUFFICES ASSUME NEW i \in 1 .. Len(t)
               PROVE  t[i] = u[i]
    OBVIOUS
  <2>1. i \in 1 .. Len(q) \/ i = Len(q) + 1 \/ i = Len(q) + 2
    BY <1>2
  <2>2. CASE i \in 1 .. Len(q)
    BY <1>2, <1>3, <1>4, <2>2
  <2>3. CASE i = Len(q) + 1
    BY <1>1, <1>2, <1>3, <1>4, <2>3
  <2>4. CASE i = Len(q) + 2
    BY <1>1, <1>2, <1>4, <2>4
  <2> QED BY <2>1, <2>2, <2>3, <2>4
<1>6. t = u
  BY <1>2, <1>4, <1>5, SeqEqual
<1>7. q \o <<a>> = Append(q, a)
  BY AppendIsConcat
<1> QED BY <1>6, <1>7 DEF t, u

LEMMA NothingInEmpty ==
  ASSUME NEW kind, NEW s
  PROVE  /\ ~Has(<<>>, kind, s)
         /\ \A v : ~Changes(<<>>, s, v)
         /\ \A W : LastIn(<<>>, kind, s, W)
  BY DEF Has, Changes, LastIn

\* What each message is about.
LEMMA Subjects ==
  ASSUME NEW s \in Settings, NEW t \in Settings, NEW v
  PROVE  /\ Concerns(Put(t, v), "put", s) <=> s = t
         /\ Put(t, v).value = v /\ ~Concerns(Put(t, v), "ask", s)
         /\ Concerns(Ask(t), "ask", s) <=> s = t
         /\ ~Concerns(Ask(t), "put", s)
         /\ Concerns(Report(t, v), "report", s) <=> s = t
         /\ Report(t, v).value = v
         /\ ~Concerns(Ack, "report", s)
         /\ ~Concerns([kind |-> "handshake"], "put", s)
         /\ ~Concerns([kind |-> "handshake"], "ask", s)
  BY DEF Concerns, Put, Ask, Report, Ack

LEMMA Frames ==
  ASSUME NEW m \in FrameSet
  PROVE  \/ m.kind = "handshake" /\ m = [kind |-> "handshake"]
         \/ \E s \in Settings : m.kind = "ask" /\ m.setting = s /\ m = Ask(s)
         \/ \E s \in Settings : \E v \in EffectiveOf[s] :
                m.kind = "put" /\ m.setting = s /\ m.value = v /\ m = Put(s, v)
  BY DEF FrameSet, Ask, Put

LEMMA Replies ==
  ASSUME NEW m \in ReplySet, m # Ack
  PROVE  \E s \in Settings : \E v \in EffectiveOf[s] :
             m.setting = s /\ m.value = v /\ m = Report(s, v)
  BY DEF ReplySet, Report

LEMMA MessageTypes ==
  /\ [kind |-> "handshake"] \in FrameSet
  /\ Ack \in ReplySet
  /\ \A s \in Settings : Ask(s) \in FrameSet
  /\ \A s \in Settings : \A v \in EffectiveOf[s] :
         Put(s, v) \in FrameSet /\ Report(s, v) \in ReplySet
<1>1. ASSUME NEW s \in Settings, NEW v \in EffectiveOf[s]
      PROVE  Put(s, v) \in FrameSet /\ Report(s, v) \in ReplySet
  <2>1. Put(s, v) \in {Put(s, w) : w \in EffectiveOf[s]}
    OBVIOUS
  <2>2. Report(s, v) \in {Report(s, w) : w \in EffectiveOf[s]}
    OBVIOUS
  <2> QED BY <2>1, <2>2 DEF FrameSet, ReplySet
<1> QED BY <1>1 DEF FrameSet, ReplySet

-----------------------------------------------------------------------------
(* The stores *)

LEMMA SettingNames ==
    /\ Settings = {"noise", "battery", "ult", "dsee", "eq"}
    /\ EffectiveOf["noise"] = Effective
    /\ ShownOf["noise"] = Shown
    /\ ShownOf["ult"] = 0 .. 2 /\ ShownOf["eq"] = EqPresets
    /\ \A s \in {"battery", "ult", "dsee", "eq"} : EffectiveOf[s] = Values[s]
    /\ \A s \in {"battery", "dsee"} : ShownOf[s] = Values[s] \cup {Default[s]}
<1>1. Settings = {"noise", "battery", "ult", "dsee", "eq"}
  BY SettingAssumption DEF Settings
<1>2. EffectiveOf["noise"] = Effective /\ ShownOf["noise"] = Shown
  BY <1>1 DEF EffectiveOf, ShownOf
<1>3. \A s \in {"battery", "ult", "dsee", "eq"} : EffectiveOf[s] = Values[s]
  BY <1>1 DEF EffectiveOf
<1>4. \A s \in {"battery", "dsee"} : ShownOf[s] = Values[s] \cup {Default[s]}
  BY <1>1 DEF ShownOf
<1>5. ShownOf["ult"] = 0 .. 2 /\ ShownOf["eq"] = EqPresets
  BY <1>1 DEF ShownOf
<1> QED BY <1>1, <1>2, <1>3, <1>4, <1>5

\* What the parser makes of a report is something that the status can show, and
\* true as far as the status has a name for it.
LEMMA ParsedTells ==
  ASSUME NEW s \in Settings, NEW v \in EffectiveOf[s]
  PROVE  Parsed(s, v) \in ShownOf[s] /\ Tells(s, Parsed(s, v), v)
<1>1. CASE s = "noise"
  <2>1. v.mode \in Modes /\ v.voice \in BOOLEAN
    BY <1>1, SettingNames DEF Effective
  <2>2. Parsed(s, v) = [mode |-> v.mode, voice |-> v.voice, level |-> 0]
    BY <1>1 DEF Parsed
  <2>3. 0 \in Levels
    BY DEF Levels
  <2>4. Parsed(s, v) \in Shown
    BY <2>1, <2>2, <2>3 DEF Shown
  <2>5. Tells(s, Parsed(s, v), v)
    BY <1>1, <2>2 DEF Tells
  <2> QED BY <1>1, <2>4, <2>5, SettingNames
<1>2. CASE s = "ult"
  <2>1. v \in 0 .. 255 /\ ShownOf[s] = 0 .. 2
    BY <1>2, SettingNames, SettingAssumption
  <2>2. Parsed(s, v) = IF v > 2 THEN 2 ELSE v
    BY <1>2 DEF Parsed
  <2> QED BY <1>2, <2>1, <2>2 DEF Tells
<1>3. CASE s = "eq"
  <2>1. Parsed(s, v) = IF v \in EqPresets THEN v ELSE "off"
    BY <1>3 DEF Parsed
  <2>2. "off" \in EqPresets
    BY DEF EqPresets
  <2> QED BY <1>3, <2>1, <2>2, SettingNames DEF Tells
<1>4. CASE s \in {"battery", "dsee"}
  <2>1. Parsed(s, v) = v
    BY <1>4 DEF Parsed
  <2>2. v \in ShownOf[s]
    BY <1>4, SettingNames
  <2> QED BY <1>4, <2>1, <2>2 DEF Tells
<1> QED BY <1>1, <1>2, <1>3, <1>4, SettingNames

\* One value of a store is replaced.
Replaced(g, f, s, v) == g = [f EXCEPT ![s] = v]

LEMMA Store ==
  ASSUME NEW sets, NEW f, Stored(f, sets), NEW s \in Settings, NEW v \in sets[s],
         NEW g, Replaced(g, f, s, v)
  PROVE  /\ Stored(g, sets)
         /\ \A t \in Settings : g[t] = IF t = s THEN v ELSE f[t]
<1>1. f = [t \in Settings |-> f[t]]
  BY DEF Stored
<1>2. g = [t \in Settings |-> IF t = s THEN v ELSE f[t]]
  BY <1>1 DEF Replaced
<1>3. \A t \in Settings : g[t] = IF t = s THEN v ELSE f[t]
  BY <1>2
<1>4. g = [t \in Settings |-> g[t]]
  BY <1>2
<1>5. \A t \in Settings : f[t] \in sets[t]
  BY DEF Stored
<1>6. Stored(g, sets)
  BY <1>3, <1>4, <1>5 DEF Stored
<1> QED BY <1>3, <1>6

LEMMA EachIsStored ==
  ASSUME NEW sets, NEW f
  PROVE  f \in Each(sets) <=> Stored(f, sets)
<1>1. Settings = {"noise", "battery", "ult", "dsee", "eq"}
  BY SettingNames
<1>2. f \in Each(sets) => Stored(f, sets)
  BY <1>1 DEF Each, Stored
<1>3. Stored(f, sets) => f \in Each(sets)
  BY <1>1 DEF Each, Stored
<1> QED BY <1>2, <1>3

LEMMA DefaultStored == Stored(Default, ShownOf)
<1>1. Settings = {"noise", "battery", "ult", "dsee", "eq"}
  BY SettingNames
<1>2. Default = [s \in Settings |-> Default[s]]
  BY <1>1 DEF Default
<1>3. Default["noise"] \in Shown
  BY DEF Default, Shown, Modes, Levels
<1>u. Default["ult"] \in 0 .. 2 /\ Default["eq"] \in EqPresets
  BY DEF Default, EqPresets
<1>4. \A s \in Settings : Default[s] \in ShownOf[s]
  BY <1>1, <1>3, <1>u, SettingNames
<1> QED BY <1>2, <1>4 DEF Stored

-----------------------------------------------------------------------------
(* The setters *)

\* A setter publishes a value that the status can show and sends one that the
\* headset can have and that the command allows; what it shows is true of what it
\* sends, or else the status was not true of it before.
SetterFacts(set) ==
    /\ set.setting \in Settings
    /\ set.shows \in ShownOf[set.setting]
    /\ set.sends \in EffectiveOf[set.setting]
    /\ set.sends \in set.allows
    /\ set.allows \subseteq EffectiveOf[set.setting]
    /\ \/ Tells(set.setting, set.shows, set.sends)
       \/ ~Tells(set.setting, published[set.setting], set.sends)

LEMMA SetterType ==
  ASSUME Typed, NEW command \in Commands
  PROVE  SetterFacts(Setter(command))
<1>0. published["noise"] \in Shown
  BY SettingNames DEF Typed, Stored
<1>n. "noise" \in Settings /\ EffectiveOf["noise"] = Effective /\ ShownOf["noise"] = Shown
  BY SettingNames
<1>1. CASE command.name = "noise" /\ command.value \in Modes
  <2> DEFINE mode == command.value
             voice == published["noise"].voice
             shows == [mode |-> mode, voice |-> voice, level |-> 0]
             sends == SerializeNoiseMode(mode, 0, voice)
             set == SetNoiseMode(mode)
  <2>1. voice \in BOOLEAN
    BY <1>0 DEF Shown
  <2>2. sends = [mode |-> mode, voice |-> mode = "ambient" /\ voice]
    BY DEF SerializeNoiseMode
  <2>3. sends \in Effective /\ sends.mode = mode
    <3> DEFINE carried == mode = "ambient" /\ voice
    <3>1. carried \in BOOLEAN /\ sends = [mode |-> mode, voice |-> carried]
      BY <2>2
    <3>2. carried => mode = "ambient"
      OBVIOUS
    <3> HIDE DEF carried, sends
    <3> QED BY <1>1, <3>1, <3>2 DEF Effective
  <2>4. shows \in Shown
    BY <1>1, <2>1 DEF Shown, Levels
  <2>5. Tells("noise", shows, sends) \/ ~Tells("noise", published["noise"], sends)
    <3>1. shows.mode = mode /\ shows.voice = voice /\ shows.level = 0
      OBVIOUS
    <3>2. sends.voice = voice \/ ~(voice = sends.voice)
      BY <2>1, <2>2
    <3> HIDE DEF shows, sends
    <3> QED BY <2>3, <3>1, <3>2 DEF Tells
  <2>6. /\ set.setting = "noise" /\ set.shows = shows
        /\ set.sends = sends /\ set.allows = {n \in Effective : n.mode = mode}
    BY DEF SetNoiseMode
  <2>7. Setter(command) = set
    BY <1>1 DEF Setter
  <2> HIDE DEF shows, sends, set, voice, mode
  <2> QED BY <1>n, <2>3, <2>4, <2>5, <2>6, <2>7 DEF SetterFacts
<1>2. CASE command.name = "voice-focus" /\ command.value \in BOOLEAN
  <2> DEFINE shows == [mode |-> "ambient", voice |-> command.value, level |-> 0]
             value == [mode |-> "ambient", voice |-> command.value]
             set == SetVoiceFocus(command.value)
  <2>1. value \in Effective /\ shows \in Shown
    BY <1>2 DEF Effective, Shown, Modes, Levels
  <2>2. SerializeNoiseMode("ambient", 0, command.value) = value
    BY <1>2 DEF SerializeNoiseMode
  <2>3. Tells("noise", shows, value)
    BY DEF Tells
  <2>4. /\ set.setting = "noise" /\ set.shows = shows
        /\ set.sends = value /\ set.allows = {value}
    BY <2>2 DEF SetVoiceFocus
  <2>5. Setter(command) = set
    BY <1>2 DEF Setter
  <2> HIDE DEF shows, value, set
  <2> QED BY <1>n, <2>1, <2>3, <2>4, <2>5 DEF SetterFacts
<1>3. CASE command.name = "ambient-level" /\ command.value \in Levels
  <2> DEFINE before == published["noise"]
             shows == [before EXCEPT !.level = command.value]
             sends == SerializeNoiseMode("ambient", command.value, before.voice)
             set == SetAmbientLevel(command.value)
  <2>1. /\ before \in Shown /\ before.voice \in BOOLEAN
        /\ shows.mode = before.mode /\ shows.voice = before.voice
        /\ shows \in Shown
    BY <1>0, <1>3 DEF Shown
  <2>2. sends = [mode |-> "ambient", voice |-> before.voice]
    BY <2>1 DEF SerializeNoiseMode
  <2>3. sends \in Effective /\ sends.mode = "ambient" /\ sends.voice = before.voice
    BY <2>1, <2>2 DEF Effective, Modes
  <2>4. /\ set.setting = "noise" /\ set.shows = shows /\ set.sends = sends
        /\ set.allows = {n \in Effective : n.mode = "ambient"}
    BY DEF SetAmbientLevel
  <2>5. Setter(command) = set
    BY <1>3 DEF Setter
  <2> HIDE DEF before, shows, sends, set
  <2>6. Tells("noise", shows, sends) \/ ~Tells("noise", before, sends)
    BY <2>1, <2>3 DEF Tells
  <2> QED BY <1>n, <2>1, <2>3, <2>4, <2>5, <2>6 DEF SetterFacts, before
<1>4. CASE /\ command.name \in {"ult", "dsee", "eq"}
           /\ command.value \in Values[command.name] \cap ShownOf[command.name]
  <2> DEFINE set == SetValue(command.name, command.value)
  <2>1. /\ set.setting = command.name /\ set.shows = command.value
        /\ set.sends = command.value /\ set.allows = {command.value}
    BY DEF SetValue
  <2>2. Setter(command) = set
    BY <1>4 DEF Setter
  <2>3. /\ command.name \in Settings
        /\ command.value \in EffectiveOf[command.name]
        /\ command.value \in ShownOf[command.name]
        /\ Tells(command.name, command.value, command.value)
    BY <1>4, SettingNames DEF Tells
  <2> HIDE DEF set
  <2> QED BY <2>1, <2>2, <2>3 DEF SetterFacts
<1> QED BY <1>1, <1>2, <1>3, <1>4, SettingAssumption

-----------------------------------------------------------------------------
(* The steps *)

\* A setter's frame joins the last stage that is in use before the headset.
LEMMA CommandSynced ==
  ASSUME SyncInv, open, NEW set, SetterFacts(set),
         UNCHANGED <<open, inbound, actual, heard, dropped>>,
         \A s \in Settings : published'[s] = IF s = set.setting THEN set.shows ELSE published[s],
         \A s \in Settings : wanted'[s] = IF s = set.setting THEN set.allows ELSE wanted[s],
         \/ waiting' = Append(waiting, Put(set.setting, set.sends)) /\ wire' = wire
         \/ waiting = <<>> /\ waiting' = <<>>
            /\ wire' = Append(wire, Put(set.setting, set.sends))
  PROVE  Synced'
<1> DEFINE st == set.setting
           v == set.sends
           frame == Put(st, v)
<1>1. /\ st \in Settings /\ v \in EffectiveOf[st] /\ v \in set.allows
      /\ Tells(st, set.shows, v) \/ ~Tells(st, published[st], v)
      /\ frame \in FrameSet
  BY MessageTypes DEF SetterFacts
<1>2. waiting \in Seq(FrameSet) /\ wire \in Seq(FrameSet)
  BY DEF SyncInv, Typed
<1> SUFFICES ASSUME NEW s \in Settings
             PROVE  (Current(s) /\ (open /\ ~dropped => Covered(s) /\ Heeded(s)))'
  BY DEF Synced
<1>3. Current(s)'
  BY DEF SyncInv, Synced, Current
<1> SUFFICES ASSUME ~dropped
             PROVE  Covered(s)' /\ Heeded(s)'
  BY <1>3
<1>4. Covered(s) /\ Heeded(s)
  BY DEF SyncInv, Synced
<1>5. /\ Concerns(frame, "put", s) <=> s = st
      /\ frame.value = v /\ ~Concerns(frame, "ask", s)
  BY <1>1, Subjects
<1> HIDE DEF frame
<1>6. CASE waiting' = Append(waiting, frame) /\ wire' = wire
  <2>1. /\ Has(waiting', "ask", s) <=> Has(waiting, "ask", s)
        /\ Has(waiting', "put", s) <=> Has(waiting, "put", s) \/ s = st
    BY <1>1, <1>2, <1>5, <1>6, AppendMessage
  <2>2. Changes(waiting', s, actual[s])
            <=> Changes(waiting, s, actual[s]) \/ (s = st /\ v # actual[s])
    BY <1>1, <1>2, <1>5, <1>6, AppendMessage
  <2>3. IF s = st THEN LastIn(waiting', "put", s, set.allows)
        ELSE LastIn(waiting, "put", s, wanted[s]) => LastIn(waiting', "put", s, wanted[s])
    BY <1>1, <1>2, <1>5, <1>6, AppendMessage
  <2>4. Covered(s)'
    BY <1>1, <1>4, <1>6, <2>1, <2>2 DEF Covered
  <2>5. Heeded(s)'
    BY <1>4, <1>6, <2>1, <2>3 DEF Heeded
  <2> QED BY <2>4, <2>5
<1>7. CASE waiting = <<>> /\ waiting' = <<>> /\ wire' = Append(wire, frame)
  <2>1. /\ Has(wire', "ask", s) <=> Has(wire, "ask", s)
        /\ Has(wire', "put", s) <=> Has(wire, "put", s) \/ s = st
    BY <1>1, <1>2, <1>5, <1>7, AppendMessage
  <2>2. Changes(wire', s, actual[s])
            <=> Changes(wire, s, actual[s]) \/ (s = st /\ v # actual[s])
    BY <1>1, <1>2, <1>5, <1>7, AppendMessage
  <2>3. IF s = st THEN LastIn(wire', "put", s, set.allows)
        ELSE LastIn(wire, "put", s, wanted[s]) => LastIn(wire', "put", s, wanted[s])
    BY <1>1, <1>2, <1>5, <1>7, AppendMessage
  <2>4. ~Has(waiting, "put", s)
    BY <1>7, NothingInEmpty
  <2>5. Covered(s)'
    BY <1>1, <1>4, <1>7, <2>1, <2>2 DEF Covered
  <2>6. Heeded(s)'
    BY <1>4, <1>7, <2>1, <2>3, <2>4 DEF Heeded
  <2> QED BY <2>5, <2>6
<1> QED BY <1>6, <1>7 DEF frame

LEMMA SetLinkedStep ==
  ASSUME SyncInv, NEW command \in Commands, SetLinked(command)
  PROVE  SyncInv'
<1> DEFINE set == Setter(command)
           frame == Put(set.setting, set.sends)
<1>1. Typed /\ Idle /\ SetterFacts(set)
  BY SetterType DEF SyncInv
<1>2. /\ published' = [published EXCEPT ![set.setting] = set.shows]
      /\ wanted' = [wanted EXCEPT ![set.setting] = set.allows]
      /\ \/ Queue!Accept(frame) /\ UNCHANGED wire
         \/ Queue!Pass /\ wire' = Append(wire, frame)
      /\ UNCHANGED <<inbound, actual, heard, dropped>>
  BY DEF SetLinked
<1> HIDE DEF set
<1>3. frame \in FrameSet
  BY <1>1, MessageTypes DEF SetterFacts
<1>4. /\ Stored(published', ShownOf)
      /\ \A s \in Settings :
             published'[s] = IF s = set.setting THEN set.shows ELSE published[s]
  <2>1. /\ Stored(published, ShownOf) /\ set.setting \in Settings
        /\ set.shows \in ShownOf[set.setting]
    BY <1>1 DEF Typed, SetterFacts
  <2>2. Replaced(published', published, set.setting, set.shows)
    BY <1>2 DEF Replaced
  <2> QED BY <2>1, <2>2, Store
<1>5. /\ Stored(wanted', WantedOf)
      /\ \A s \in Settings : wanted'[s] = IF s = set.setting THEN set.allows ELSE wanted[s]
  <2>1. set.allows \in WantedOf[set.setting]
    BY <1>1 DEF SetterFacts, WantedOf
  <2>2. Stored(wanted, WantedOf) /\ set.setting \in Settings
    BY <1>1 DEF Typed, SetterFacts
  <2>3. Replaced(wanted', wanted, set.setting, set.allows)
    BY <1>2 DEF Replaced
  <2> QED BY <2>1, <2>2, <2>3, Store
<1> HIDE DEF frame
<1>6. /\ open /\ open' = open /\ busy' = TRUE
      /\ bit' \in {bit, 1 - bit}
      /\ \/ waiting' = Append(waiting, frame) /\ wire' = wire
         \/ waiting = <<>> /\ waiting' = <<>> /\ wire' = Append(wire, frame)
  BY <1>1, <1>2 DEF Queue!Accept, Queue!Pass, Idle, Typed
<1>7. waiting' \in Seq(FrameSet) /\ wire' \in Seq(FrameSet)
  <2>1. waiting \in Seq(FrameSet) /\ wire \in Seq(FrameSet)
    BY <1>1 DEF Typed
  <2>2. /\ Append(waiting, frame) \in Seq(FrameSet)
        /\ Append(wire, frame) \in Seq(FrameSet)
    BY <1>3, <2>1, AppendProperties
  <2> QED BY <1>6, <2>1, <2>2
<1>8. Typed'
  BY <1>1, <1>2, <1>4, <1>5, <1>6, <1>7 DEF Typed
<1>9. Idle'
  BY <1>6 DEF Idle
<1>10. Synced'
  BY <1>1, <1>2, <1>4, <1>5, <1>6, CommandSynced DEF frame
<1> QED BY <1>8, <1>9, <1>10 DEF SyncInv

LEMMA SetUnlinkedStep ==
  ASSUME SyncInv, NEW command \in Commands, SetUnlinked(command)
  PROVE  SyncInv'
<1> DEFINE set == Setter(command)
<1>1. Typed /\ Idle /\ Synced /\ SetterFacts(set)
  BY SetterType DEF SyncInv
<1>2. /\ ~open
      /\ published' = [published EXCEPT ![set.setting] = set.shows]
      /\ UNCHANGED <<open, waiting, bit, busy, wire, inbound, actual, wanted, heard, dropped>>
  BY DEF SetUnlinked, queue
<1> HIDE DEF set
<1>3. Stored(published', ShownOf)
  <2>1. /\ Stored(published, ShownOf) /\ set.setting \in Settings
        /\ set.shows \in ShownOf[set.setting]
    BY <1>1 DEF Typed, SetterFacts
  <2>2. Replaced(published', published, set.setting, set.shows)
    BY <1>2 DEF Replaced
  <2> QED BY <2>1, <2>2, Store
<1>4. Typed'
  BY <1>1, <1>2, <1>3 DEF Typed
<1>5. Idle'
  BY <1>1, <1>2 DEF Idle
<1>6. Synced'
  BY <1>1, <1>2 DEF Synced, Current
<1> QED BY <1>4, <1>5, <1>6 DEF SyncInv

\* The queries ask for every setting but the equalizer and change none.
LEMMA QueriesAsk ==
  /\ Queries \in Seq(FrameSet) /\ Queries # <<>>
  /\ \A s \in Settings : s # "eq" => Has(Queries, "ask", s)
  /\ \A s \in Settings : ~Has(Queries, "put", s)
<1>1. /\ Len(Queries) = 4
      /\ Queries[1] = Ask("battery") /\ Queries[2] = Ask("noise")
      /\ Queries[3] = Ask("ult") /\ Queries[4] = Ask("dsee")
  BY DEF Queries
<1>2. Settings = {"noise", "battery", "ult", "dsee", "eq"}
  BY SettingNames
<1>3. Queries \in Seq(FrameSet) /\ Queries # <<>>
  <2>1. /\ Ask("battery") \in FrameSet /\ Ask("noise") \in FrameSet
        /\ Ask("ult") \in FrameSet /\ Ask("dsee") \in FrameSet
    BY <1>2, MessageTypes
  <2> QED BY <2>1 DEF Queries
<1>4. 1 .. Len(Queries) = {1, 2, 3, 4}
  BY <1>1
<1>5. \A s \in Settings : Concerns(Ask(s), "ask", s) /\ \A t \in Settings : ~Concerns(Ask(s), "put", t)
  BY Subjects
<1>6. ASSUME NEW s \in Settings, s # "eq"
      PROVE  Has(Queries, "ask", s)
  BY <1>1, <1>2, <1>4, <1>5, <1>6 DEF Has
<1>7. ASSUME NEW s \in Settings
      PROVE  ~Has(Queries, "put", s)
  BY <1>1, <1>2, <1>4, <1>5 DEF Has
<1> QED BY <1>3, <1>6, <1>7

LEMMA ConnectStep ==
  ASSUME SyncInv, Connect
  PROVE  SyncInv'
<1> DEFINE handshake == [kind |-> "handshake"]
<1>1. Typed /\ Idle
  BY DEF SyncInv
<1>2. /\ ~open /\ open' = TRUE /\ waiting' = Queries /\ bit' = 1 /\ busy' = TRUE
      /\ wire' = <<handshake>>
      /\ UNCHANGED <<inbound, actual, wanted, heard, dropped>>
  BY DEF Connect, Queue!Open
<1>p. Stored(published', ShownOf)
  <2>1. Stored(published, ShownOf) /\ "battery" \in Settings
    BY <1>1, SettingNames DEF Typed
  <2>2. CASE UNCHANGED published
    BY <2>1, <2>2
  <2>3. ASSUME NEW level \in Values["battery"],
               published' = [published EXCEPT !["battery"] = level]
        PROVE  Stored(published', ShownOf)
    <3>1. level \in ShownOf["battery"]
      BY SettingNames
    <3>2. Replaced(published', published, "battery", level)
      BY <2>3 DEF Replaced
    <3> QED BY <2>1, <3>1, <3>2, Store
  <2> QED BY <2>2, <2>3 DEF Connect
<1>3. handshake \in FrameSet
  BY MessageTypes
<1>4. Len(<<handshake>>) = 1 /\ <<handshake>>[1] = handshake
  OBVIOUS
<1>5. \A s \in Settings : ~Concerns(handshake, "put", s)
  BY Subjects
<1> HIDE DEF handshake
<1>6. wire' \in Seq(FrameSet)
  BY <1>2, <1>3
<1>7. Typed'
  BY <1>1, <1>2, <1>p, <1>6, QueriesAsk DEF Typed
<1>8. Idle'
  BY <1>2 DEF Idle
<1>9. Synced'
  <2> SUFFICES ASSUME NEW s \in Settings
               PROVE  Current(s)' /\ Covered(s)' /\ Heeded(s)'
    BY DEF Synced
  <2>1. Current(s)'
    BY <1>1, <1>2, NothingInEmpty DEF Idle, Current
  <2>2. Covered(s)'
    BY <1>1, <1>2, QueriesAsk DEF Idle, Covered
  <2>3. ~Has(waiting', "put", s)
    BY <1>2, QueriesAsk
  <2>4. ~Has(wire', "put", s)
    <3>1. 1 .. Len(wire') = {1} /\ wire'[1] = handshake
      BY <1>2, <1>4
    <3> QED BY <1>5, <3>1 DEF Has
  <2>5. Heeded(s)'
    BY <1>1, <1>2, <2>3, <2>4 DEF Idle, Heeded
  <2> QED BY <2>1, <2>2, <2>5
<1> QED BY <1>7, <1>8, <1>9 DEF SyncInv

LEMMA LoseStep ==
  ASSUME SyncInv, Lose
  PROVE  SyncInv'
<1>1. Typed
  BY DEF SyncInv
<1>2. /\ open' = FALSE /\ waiting' = <<>> /\ bit' = 0 /\ busy' = FALSE
      /\ wire' = <<>> /\ inbound' = <<>>
      /\ wanted' = EffectiveOf /\ heard' = {} /\ dropped' = FALSE
      /\ UNCHANGED <<published, actual>>
  BY DEF Lose
<1>3. Stored(EffectiveOf, WantedOf)
  BY DEF Stored, WantedOf, EffectiveOf
<1>t. waiting' \in Seq(FrameSet) /\ wire' \in Seq(FrameSet) /\ inbound' \in Seq(ReplySet)
  BY <1>2
<1>w. Stored(wanted', WantedOf)
  BY <1>2, <1>3
<1>p. Stored(published', ShownOf) /\ Stored(actual', EffectiveOf)
  BY <1>1, <1>2 DEF Typed
<1>4. Typed'
  BY <1>2, <1>t, <1>w, <1>p DEF Typed
<1>5. Idle'
  BY <1>1, <1>2 DEF Idle, Typed, Stored
<1>6. Synced'
  BY <1>2, NothingInEmpty DEF Synced, Current
<1> QED BY <1>4, <1>5, <1>6 DEF SyncInv

\* pumpTx moves the head of the queue to the end of the wire: nothing that covers
\* a setting is lost, and the last command stays the last one.
LEMMA PumpMoves ==
  ASSUME SyncInv, Pump
  PROVE  /\ open' = open /\ busy' \in BOOLEAN /\ bit' \in {0, 1}
         /\ waiting' \in Seq(FrameSet) /\ wire' \in Seq(FrameSet)
         /\ waiting' # <<>> => busy'
         /\ ~open => waiting' = waiting /\ wire' = wire
         /\ \A s \in Settings :
               /\ Has(waiting', "ask", s) \/ Has(wire', "ask", s)
                     <=> Has(waiting, "ask", s) \/ Has(wire, "ask", s)
               /\ \A v : Changes(waiting', s, v) \/ Changes(wire', s, v)
                            <=> Changes(waiting, s, v) \/ Changes(wire, s, v)
               /\ Heeded(s) /\ UNCHANGED <<actual, wanted>> => Heeded(s)'
<1>1. /\ Typed /\ Idle
      /\ waiting \in Seq(FrameSet) /\ wire \in Seq(FrameSet)
  BY DEF SyncInv, Typed
<1>2. CASE Queue!Release /\ wire' = Append(wire, Head(waiting))
  <2> DEFINE h == Head(waiting)
             t == Tail(waiting)
  <2>1. /\ open /\ busy /\ waiting # <<>> /\ open' = open /\ busy' = busy
        /\ waiting' = t /\ wire' = Append(wire, h) /\ bit' = 1 - bit
    BY <1>2 DEF Queue!Release
  <2>2. h \in FrameSet /\ t \in Seq(FrameSet)
    BY <1>1, <2>1, HeadTailProperties
  <2>3. wire' \in Seq(FrameSet)
    BY <1>1, <2>1, <2>2, AppendProperties
  <2>4. bit' \in {0, 1}
    BY <1>1, <2>1 DEF Typed
  <2>5. ASSUME NEW kind, NEW s
        PROVE  /\ Has(waiting, kind, s) <=> Has(t, kind, s) \/ Concerns(h, kind, s)
               /\ \A v : Changes(waiting, s, v)
                            <=> Changes(t, s, v) \/ (Concerns(h, "put", s) /\ h.value # v)
               /\ \A W : LastIn(waiting, kind, s, W) =>
                              /\ LastIn(t, kind, s, W)
                              /\ Concerns(h, kind, s) /\ ~Has(t, kind, s) => h.value \in W
    BY <1>1, <2>1, TailMessage
  <2> HIDE DEF h, t
  <2>6. ASSUME NEW kind, NEW s
        PROVE  /\ Has(wire', kind, s) <=> Has(wire, kind, s) \/ Concerns(h, kind, s)
               /\ \A v : Changes(wire', s, v)
                            <=> Changes(wire, s, v) \/ (Concerns(h, "put", s) /\ h.value # v)
               /\ \A W : IF Concerns(h, kind, s)
                          THEN h.value \in W => LastIn(wire', kind, s, W)
                          ELSE LastIn(wire, kind, s, W) => LastIn(wire', kind, s, W)
    BY <1>1, <2>1, <2>2, AppendMessage
  <2>7. ASSUME NEW s \in Settings
        PROVE  /\ Has(waiting', "ask", s) \/ Has(wire', "ask", s)
                     <=> Has(waiting, "ask", s) \/ Has(wire, "ask", s)
               /\ \A v : Changes(waiting', s, v) \/ Changes(wire', s, v)
                            <=> Changes(waiting, s, v) \/ Changes(wire, s, v)
               /\ Heeded(s) /\ UNCHANGED <<actual, wanted>> => Heeded(s)'
    <3>1. Has(waiting', "ask", s) \/ Has(wire', "ask", s)
              <=> Has(waiting, "ask", s) \/ Has(wire, "ask", s)
      BY <2>1, <2>5, <2>6
    <3>2. \A v : Changes(waiting', s, v) \/ Changes(wire', s, v)
                     <=> Changes(waiting, s, v) \/ Changes(wire, s, v)
      BY <2>1, <2>5, <2>6
    <3>3. ASSUME Heeded(s), UNCHANGED <<actual, wanted>>
          PROVE  Heeded(s)'
      <4>1. CASE Has(t, "put", s)
        BY <2>1, <2>5, <3>3, <4>1 DEF Heeded
      <4>2. CASE ~Has(t, "put", s) /\ Concerns(h, "put", s)
        <5>1. h.value \in wanted[s]
          BY <2>5, <3>3, <4>2 DEF Heeded
        <5>2. LastIn(wire', "put", s, wanted[s]) /\ Has(wire', "put", s)
          BY <2>6, <4>2, <5>1
        <5> QED BY <2>1, <3>3, <4>2, <5>2 DEF Heeded
      <4>3. CASE ~Has(t, "put", s) /\ ~Concerns(h, "put", s)
        BY <2>1, <2>5, <2>6, <3>3, <4>3 DEF Heeded
      <4> QED BY <4>1, <4>2, <4>3
    <3> QED BY <3>1, <3>2, <3>3
  <2> QED BY <1>1, <2>1, <2>2, <2>3, <2>4, <2>7 DEF Typed
<1>3. CASE Queue!Settle /\ UNCHANGED wire
  <2>1. /\ open /\ open' = open /\ waiting' = waiting /\ bit' = bit /\ busy' = FALSE
        /\ waiting = <<>> /\ wire' = wire
    BY <1>3 DEF Queue!Settle
  <2> QED BY <1>1, <2>1 DEF Typed, Heeded
<1>4. CASE open /\ ~busy /\ UNCHANGED <<queue, wire>>
  <2>1. UNCHANGED <<open, waiting, bit, busy, wire>>
    BY <1>4 DEF queue
  <2> QED BY <1>1, <2>1 DEF Typed, Idle, Heeded
<1> QED BY <1>2, <1>3, <1>4 DEF Pump

LEMMA ReceiveAckStep ==
  ASSUME SyncInv, ReceiveAck
  PROVE  SyncInv'
<1>1. Typed /\ Idle /\ Synced
  BY DEF SyncInv
<1>2. /\ inbound # <<>> /\ Head(inbound) = Ack /\ Pump /\ inbound' = Tail(inbound)
      /\ UNCHANGED <<published, actual, wanted, heard, dropped>>
  BY DEF ReceiveAck
<1>3. inbound \in Seq(ReplySet)
  BY <1>1 DEF Typed
<1>4. ASSUME NEW s \in Settings
      PROVE  /\ Has(inbound', "report", s) <=> Has(inbound, "report", s)
             /\ \A W : LastIn(inbound, "report", s, W) => LastIn(inbound', "report", s, W)
  <2>1. ~Concerns(Ack, "report", s)
    BY Subjects
  <2> QED BY <1>2, <1>3, <2>1, TailMessage
<1>5. inbound' \in Seq(ReplySet)
  BY <1>2, <1>3, HeadTailProperties
<1>6. Typed'
  BY <1>1, <1>2, <1>5, PumpMoves DEF Typed
<1>7. Idle'
  BY <1>1, <1>2, PumpMoves DEF Idle
<1>8. Synced'
  <2> SUFFICES ASSUME NEW s \in Settings
               PROVE  (Current(s) /\ (open /\ ~dropped => Covered(s) /\ Heeded(s)))'
    BY DEF Synced
  <2>1. Current(s)'
    BY <1>1, <1>2, <1>4 DEF Synced, Current
  <2>2. ASSUME Covered(s)
        PROVE  Covered(s)'
    BY <1>2, <1>4, <2>2, PumpMoves DEF Covered
  <2>3. ASSUME Heeded(s)
        PROVE  Heeded(s)'
    BY <1>2, <2>3, PumpMoves
  <2> QED BY <1>1, <1>2, <2>1, <2>2, <2>3, PumpMoves DEF Synced
<1> QED BY <1>6, <1>7, <1>8 DEF SyncInv

LEMMA TxTimeoutStep ==
  ASSUME SyncInv, TxTimeout
  PROVE  SyncInv'
<1>1. Typed /\ Idle /\ Synced
  BY DEF SyncInv
<1>2. Pump /\ UNCHANGED <<inbound, published, actual, wanted, heard, dropped>>
  BY DEF TxTimeout
<1>3. Typed'
  BY <1>1, <1>2, PumpMoves DEF Typed
<1>4. Idle'
  BY <1>1, <1>2, PumpMoves DEF Idle
<1>5. Synced'
  <2> SUFFICES ASSUME NEW s \in Settings
               PROVE  (Current(s) /\ (open /\ ~dropped => Covered(s) /\ Heeded(s)))'
    BY DEF Synced
  <2>1. Current(s)'
    BY <1>1, <1>2 DEF Synced, Current
  <2>2. ASSUME Covered(s)
        PROVE  Covered(s)'
    BY <1>2, <2>2, PumpMoves DEF Covered
  <2>3. ASSUME Heeded(s)
        PROVE  Heeded(s)'
    BY <1>2, <2>3, PumpMoves
  <2> QED BY <1>1, <1>2, <2>1, <2>2, <2>3, PumpMoves DEF Synced
<1> QED BY <1>3, <1>4, <1>5 DEF SyncInv

LEMMA ReceiveReportStep ==
  ASSUME SyncInv, ReceiveReport
  PROVE  SyncInv'
<1> DEFINE h == Head(inbound)
<1>1. Typed /\ Idle /\ Synced /\ inbound \in Seq(ReplySet)
  BY DEF SyncInv, Typed
<1>2. /\ inbound # <<>> /\ h # Ack /\ inbound' = Tail(inbound)
      /\ published' = [published EXCEPT ![h.setting] = Parsed(h.setting, h.value)]
      /\ heard' = heard \cup {h.setting}
      /\ UNCHANGED <<open, waiting, bit, busy, wire, actual, wanted, dropped>>
  BY DEF ReceiveReport, queue
<1>3. h \in ReplySet /\ inbound' \in Seq(ReplySet)
  BY <1>1, <1>2, HeadTailProperties
<1>4. ASSUME NEW s \in Settings
      PROVE  /\ Has(inbound, "report", s) <=> Has(inbound', "report", s) \/ Concerns(h, "report", s)
             /\ \A W : LastIn(inbound, "report", s, W) =>
                           /\ LastIn(inbound', "report", s, W)
                           /\ Concerns(h, "report", s) /\ ~Has(inbound', "report", s)
                                => h.value \in W
  BY <1>1, <1>2, TailMessage
<1> HIDE DEF h
<1>5. PICK st \in Settings : \E v \in EffectiveOf[st] :
          h.setting = st /\ h.value = v /\ h = Report(st, v)
  BY <1>2, <1>3, Replies
<1>6. \A s \in Settings : Concerns(h, "report", s) <=> s = st
  BY <1>5, Subjects
<1>7. /\ Stored(published', ShownOf)
      /\ \A s \in Settings : published'[s] = IF s = st THEN Parsed(st, h.value) ELSE published[s]
  <2>1. Stored(published, ShownOf) /\ Parsed(st, h.value) \in ShownOf[st]
    BY <1>1, <1>5, ParsedTells DEF Typed
  <2>2. Replaced(published', published, st, Parsed(st, h.value))
    BY <1>2, <1>5 DEF Replaced
  <2> QED BY <2>1, <2>2, Store
<1>8. Typed'
  BY <1>1, <1>2, <1>3, <1>5, <1>7 DEF Typed
<1>9. Idle'
  BY <1>1, <1>2 DEF Idle
<1>10. Synced'
  <2> SUFFICES ASSUME NEW s \in Settings
               PROVE  (Current(s) /\ (open /\ ~dropped => Covered(s) /\ Heeded(s)))'
    BY DEF Synced
  <2>1. Current(s) /\ (open /\ ~dropped => Covered(s) /\ Heeded(s))
    BY <1>1 DEF Synced
  <2>2. Current(s)'
    BY <1>2, <1>4, <2>1 DEF Current
  <2>3. ASSUME Covered(s)
        PROVE  Covered(s)'
    <3>1. CASE s = st
      <4>1. Has(inbound', "report", s) \/ h.value = actual[s]
        BY <1>4, <1>6, <2>1, <3>1 DEF Current
      <4>2. Tells(st, Parsed(st, h.value), h.value)
        BY <1>5, ParsedTells
      <4> QED BY <1>2, <1>7, <3>1, <4>1, <4>2 DEF Covered
    <3>2. CASE s # st
      <4>1. s \in heard' <=> s \in heard
        BY <1>2, <1>5, <3>2
      <4>2. Has(inbound', "report", s) <=> Has(inbound, "report", s)
        BY <1>4, <1>6, <3>2
      <4> QED BY <1>2, <1>7, <2>3, <3>2, <4>1, <4>2 DEF Covered
    <3> QED BY <3>1, <3>2
  <2>4. ASSUME Heeded(s)
        PROVE  Heeded(s)'
    BY <1>2, <2>4 DEF Heeded
  <2> QED BY <1>2, <2>1, <2>2, <2>3, <2>4
<1> QED BY <1>8, <1>9, <1>10 DEF SyncInv

LEMMA HeadsetDropsStep ==
  ASSUME SyncInv, HeadsetDrops
  PROVE  SyncInv'
<1>1. Typed /\ Idle /\ Synced /\ wire \in Seq(FrameSet)
  BY DEF SyncInv, Typed
<1>2. /\ wire # <<>> /\ wire' = Tail(wire) /\ dropped' = TRUE
      /\ UNCHANGED <<open, waiting, bit, busy, inbound, published, actual, wanted, heard>>
  BY DEF HeadsetDrops, queue
<1>3. wire' \in Seq(FrameSet)
  BY <1>1, <1>2, HeadTailProperties
<1>4. Typed'
  BY <1>1, <1>2, <1>3 DEF Typed
<1>5. Idle'
  BY <1>1, <1>2 DEF Idle
<1>6. Synced'
  BY <1>1, <1>2 DEF Synced, Current
<1> QED BY <1>4, <1>5, <1>6 DEF SyncInv

\* No frame asks for what the headset cannot have.
LEMMA PutsAreEffective ==
  ASSUME NEW q \in Seq(FrameSet), NEW s \in Settings
  PROVE  LastIn(q, "put", s, EffectiveOf[s])
<1> SUFFICES ASSUME NEW i \in 1 .. Len(q), Concerns(q[i], "put", s)
             PROVE  q[i].value \in EffectiveOf[s]
  BY DEF LastIn
<1>1. q[i] \in FrameSet
  BY ElementOfSeq
<1>2. q[i].kind = "put" /\ q[i].setting = s
  BY DEF Concerns
<1> QED BY <1>1, <1>2, Frames

LEMMA TouchStep ==
  ASSUME SyncInv, Touch
  PROVE  SyncInv'
<1>1. Typed /\ Idle /\ Synced
  BY DEF SyncInv
<1>s. PICK st \in Settings : \E v \in EffectiveOf[st] :
          /\ actual' = [actual EXCEPT ![st] = v]
          /\ wanted' = [wanted EXCEPT ![st] = EffectiveOf[st]]
          /\ inbound' = IF open THEN Append(inbound, Report(st, v)) ELSE inbound
  BY DEF Touch
<1>2. PICK v \in EffectiveOf[st] :
          /\ actual' = [actual EXCEPT ![st] = v]
          /\ wanted' = [wanted EXCEPT ![st] = EffectiveOf[st]]
          /\ inbound' = IF open THEN Append(inbound, Report(st, v)) ELSE inbound
  BY <1>s
<1>3. UNCHANGED <<open, waiting, bit, busy, wire, published, heard, dropped>>
  BY DEF Touch, queue
<1>4. waiting \in Seq(FrameSet) /\ wire \in Seq(FrameSet) /\ inbound \in Seq(ReplySet)
  BY <1>1 DEF Typed
<1>5. /\ Stored(actual', EffectiveOf)
      /\ \A s \in Settings : actual'[s] = IF s = st THEN v ELSE actual[s]
  <2>1. Stored(actual, EffectiveOf)
    BY <1>1 DEF Typed
  <2>2. Replaced(actual', actual, st, v)
    BY <1>2 DEF Replaced
  <2> QED BY <2>1, <2>2, Store
<1>6. /\ Stored(wanted', WantedOf)
      /\ \A s \in Settings : wanted'[s] = IF s = st THEN EffectiveOf[st] ELSE wanted[s]
  <2>1. Stored(wanted, WantedOf) /\ EffectiveOf[st] \in WantedOf[st]
    BY <1>1 DEF Typed, WantedOf
  <2>2. Replaced(wanted', wanted, st, EffectiveOf[st])
    BY <1>2 DEF Replaced
  <2> QED BY <2>1, <2>2, Store
<1> DEFINE report == Report(st, v)
<1>7. /\ report \in ReplySet /\ report.value = v
      /\ \A s \in Settings : Concerns(report, "report", s) <=> s = st
  BY MessageTypes, Subjects
<1>8. inbound' = IF open THEN Append(inbound, report) ELSE inbound
  BY <1>2
<1> HIDE DEF report
<1>9. inbound' \in Seq(ReplySet)
  BY <1>4, <1>7, <1>8, AppendProperties
<1>10. Typed'
  BY <1>1, <1>3, <1>5, <1>6, <1>9 DEF Typed
<1>11. Idle'
  BY <1>1, <1>3, <1>5, <1>6, <1>8 DEF Idle
<1>12. Synced'
  <2> SUFFICES ASSUME NEW s \in Settings
               PROVE  (Current(s) /\ (open /\ ~dropped => Covered(s) /\ Heeded(s)))'
    BY DEF Synced
  <2>1. CASE ~open
    BY <1>1, <1>3, <1>8, <2>1, NothingInEmpty DEF Idle, Current
  <2>2. CASE open
    <3>1. /\ Has(inbound', "report", s) <=> Has(inbound, "report", s) \/ s = st
          /\ \A W : IF s = st
                     THEN v \in W => LastIn(inbound', "report", s, W)
                     ELSE LastIn(inbound, "report", s, W) => LastIn(inbound', "report", s, W)
      BY <1>4, <1>7, <1>8, <2>2, AppendMessage
    <3>2. Current(s) /\ (~dropped => Covered(s) /\ Heeded(s))
      BY <1>1, <2>2 DEF Synced
    <3>3. Current(s)'
      BY <1>5, <3>1, <3>2 DEF Current
    <3>4. ASSUME Covered(s)
          PROVE  Covered(s)'
      BY <1>3, <1>5, <3>1, <3>4 DEF Covered
    <3>5. ASSUME Heeded(s)
          PROVE  Heeded(s)'
      BY <1>3, <1>4, <1>5, <1>6, <3>5, PutsAreEffective DEF Heeded
    <3> QED BY <1>3, <3>2, <3>3, <3>4, <3>5
  <2> QED BY <2>1, <2>2
<1> QED BY <1>10, <1>11, <1>12 DEF SyncInv

\* The headset reads a frame that changes nothing: it comes back as an
\* acknowledgement only.
LEMMA ReadsNothingNew ==
  ASSUME SyncInv, wire # <<>>, wire' = Tail(wire), inbound' = Append(inbound, Ack),
         \A s \in Settings : ~Concerns(Head(wire), "ask", s),
         \A s \in Settings : Concerns(Head(wire), "put", s) => Head(wire).value = actual[s],
         UNCHANGED <<open, waiting, bit, busy, published, actual, wanted, heard, dropped>>
  PROVE  SyncInv'
<1>1. /\ Typed /\ Idle /\ Synced
      /\ wire \in Seq(FrameSet) /\ inbound \in Seq(ReplySet) /\ Ack \in ReplySet
  BY MessageTypes DEF SyncInv, Typed
<1>2. wire' \in Seq(FrameSet) /\ inbound' \in Seq(ReplySet)
  BY <1>1, HeadTailProperties, AppendProperties
<1>3. Typed'
  BY <1>1, <1>2 DEF Typed
<1>4. open
  BY <1>1 DEF Idle, Typed
<1>5. Idle'
  BY <1>1, <1>4 DEF Idle
<1>6. Synced'
  <2> SUFFICES ASSUME NEW s \in Settings
               PROVE  (Current(s) /\ (open /\ ~dropped => Covered(s) /\ Heeded(s)))'
    BY DEF Synced
  <2>1. /\ Has(inbound', "report", s) <=> Has(inbound, "report", s)
        /\ \A W : LastIn(inbound, "report", s, W) => LastIn(inbound', "report", s, W)
    <3>1. ~Concerns(Ack, "report", s)
      BY Subjects
    <3> QED BY <1>1, <3>1, AppendMessage
  <2>2. /\ Has(wire', "ask", s) <=> Has(wire, "ask", s)
        /\ Has(wire, "put", s) <=> Has(wire', "put", s) \/ Concerns(Head(wire), "put", s)
        /\ Changes(wire, s, actual[s]) <=> Changes(wire', s, actual[s])
    BY <1>1, TailMessage
  <2>3. LastIn(wire, "put", s, wanted[s]) =>
            /\ LastIn(wire', "put", s, wanted[s])
            /\ Concerns(Head(wire), "put", s) /\ ~Has(wire', "put", s)
                   => actual[s] \in wanted[s]
    BY <1>1, TailMessage
  <2>4. Current(s) /\ (~dropped => Covered(s) /\ Heeded(s))
    BY <1>1, <1>4 DEF Synced
  <2>5. Current(s)'
    BY <2>1, <2>4 DEF Current
  <2>6. ASSUME Covered(s)
        PROVE  Covered(s)'
    BY <2>1, <2>2, <2>6 DEF Covered
  <2>7. ASSUME Heeded(s)
        PROVE  Heeded(s)'
    BY <2>2, <2>3, <2>7 DEF Heeded
  <2> QED BY <1>4, <2>4, <2>5, <2>6, <2>7
<1> QED BY <1>3, <1>5, <1>6 DEF SyncInv

\* The headset answers a query, or tells that a command changed a setting.
LEMMA ReadsAndReports ==
  ASSUME SyncInv, wire # <<>>, wire' = Tail(wire), NEW st \in Settings, NEW v \in EffectiveOf[st],
         inbound' = inbound \o <<Ack, Report(st, v)>>,
         \/ Head(wire) = Ask(st) /\ v = actual[st] /\ actual' = actual
         \/ Head(wire) = Put(st, v) /\ actual' = [actual EXCEPT ![st] = v],
         UNCHANGED <<open, waiting, bit, busy, published, wanted, heard, dropped>>
  PROVE  SyncInv'
<1> DEFINE report == Report(st, v)
           acked == Append(inbound, Ack)
           h == Head(wire)
<1>1. /\ Typed /\ Idle /\ Synced
      /\ wire \in Seq(FrameSet) /\ inbound \in Seq(ReplySet) /\ Ack \in ReplySet
      /\ report \in ReplySet
  BY MessageTypes DEF SyncInv, Typed
<1>2. /\ acked \in Seq(ReplySet) /\ inbound' = Append(acked, report)
      /\ inbound' \in Seq(ReplySet)
  <2>1. acked \in Seq(ReplySet) /\ Append(acked, report) \in Seq(ReplySet)
    BY <1>1, AppendProperties
  <2>2. inbound' = Append(acked, report)
    BY <1>1, AppendTwo
  <2> QED BY <2>1, <2>2
<1>3. wire' \in Seq(FrameSet)
  BY <1>1, HeadTailProperties
<1>4. /\ Stored(actual', EffectiveOf)
      /\ \A s \in Settings : actual'[s] = IF s = st THEN v ELSE actual[s]
  <2>1. Stored(actual, EffectiveOf)
    BY <1>1 DEF Typed
  <2>2. CASE actual' = actual /\ v = actual[st]
    BY <2>1, <2>2
  <2>3. CASE actual' = [actual EXCEPT ![st] = v]
    <3>1. Replaced(actual', actual, st, v)
      BY <2>3 DEF Replaced
    <3> QED BY <2>1, <3>1, Store
  <2> QED BY <2>2, <2>3
<1>5. Typed'
  BY <1>1, <1>2, <1>3, <1>4 DEF Typed
<1>6. open
  BY <1>1 DEF Idle, Typed
<1>7. Idle'
  BY <1>1, <1>6 DEF Idle
<1>8. ASSUME NEW s \in Settings
      PROVE  /\ Has(inbound', "report", s) <=> Has(inbound, "report", s) \/ s = st
             /\ \A W : IF s = st
                        THEN v \in W => LastIn(inbound', "report", s, W)
                        ELSE LastIn(inbound, "report", s, W) => LastIn(inbound', "report", s, W)
  <2>1. /\ ~Concerns(Ack, "report", s) /\ report.value = v
        /\ Concerns(report, "report", s) <=> s = st
    BY Subjects
  <2> HIDE DEF report
  <2>2. /\ Has(acked, "report", s) <=> Has(inbound, "report", s)
        /\ \A W : LastIn(inbound, "report", s, W) => LastIn(acked, "report", s, W)
    BY <1>1, <2>1, AppendMessage
  <2> HIDE DEF acked
  <2>3. /\ Has(inbound', "report", s) <=> Has(acked, "report", s) \/ s = st
        /\ \A W : IF s = st
                   THEN v \in W => LastIn(inbound', "report", s, W)
                   ELSE LastIn(acked, "report", s, W) => LastIn(inbound', "report", s, W)
    <3>1. acked \in Seq(ReplySet) /\ report \in ReplySet
      BY <1>1, <1>2
    <3>2. /\ Has(Append(acked, report), "report", s)
                <=> Has(acked, "report", s) \/ Concerns(report, "report", s)
          /\ \A W : IF Concerns(report, "report", s)
                     THEN report.value \in W => LastIn(Append(acked, report), "report", s, W)
                     ELSE LastIn(acked, "report", s, W)
                            => LastIn(Append(acked, report), "report", s, W)
      BY <3>1, AppendMessage
    <3> QED BY <1>2, <2>1, <3>2
  <2> QED BY <2>2, <2>3
<1>9. ASSUME NEW s \in Settings
      PROVE  /\ Concerns(h, "ask", s) => s = st
             /\ Concerns(h, "put", s) => s = st /\ h.value = v
             /\ s = st /\ ~Concerns(h, "put", s) => v = actual[s]
  BY Subjects
<1> HIDE DEF h, report, acked
<1>10. Synced'
  <2> SUFFICES ASSUME NEW s \in Settings
               PROVE  (Current(s) /\ (open /\ ~dropped => Covered(s) /\ Heeded(s)))'
    BY DEF Synced
  <2>1. /\ Has(wire, "ask", s) <=> Has(wire', "ask", s) \/ Concerns(h, "ask", s)
        /\ Has(wire, "put", s) <=> Has(wire', "put", s) \/ Concerns(h, "put", s)
        /\ Changes(wire, s, actual[s])
               <=> Changes(wire', s, actual[s]) \/ (Concerns(h, "put", s) /\ h.value # actual[s])
    BY <1>1, TailMessage DEF h
  <2>2. LastIn(wire, "put", s, wanted[s]) =>
            /\ LastIn(wire', "put", s, wanted[s])
            /\ Concerns(h, "put", s) /\ ~Has(wire', "put", s) => h.value \in wanted[s]
    BY <1>1, TailMessage DEF h
  <2>3. Current(s) /\ (~dropped => Covered(s) /\ Heeded(s))
    BY <1>1, <1>6 DEF Synced
  <2>4. Current(s)'
    BY <1>4, <1>8, <2>3 DEF Current
  <2>5. ASSUME Covered(s)
        PROVE  Covered(s)'
    BY <1>4, <1>8, <1>9, <2>1, <2>5 DEF Covered
  <2>6. ASSUME Heeded(s)
        PROVE  Heeded(s)'
    BY <1>4, <1>9, <2>1, <2>2, <2>6 DEF Heeded
  <2> QED BY <1>6, <2>3, <2>4, <2>5, <2>6
<1> QED BY <1>5, <1>7, <1>10 DEF SyncInv

LEMMA HeadsetReadsStep ==
  ASSUME SyncInv, HeadsetReads
  PROVE  SyncInv'
<1> DEFINE h == Head(wire)
<1>1. /\ Typed /\ wire \in Seq(FrameSet) /\ inbound \in Seq(ReplySet) /\ Ack \in ReplySet
  BY MessageTypes DEF SyncInv, Typed
<1>2. /\ wire # <<>> /\ wire' = Tail(wire)
      /\ UNCHANGED <<open, waiting, bit, busy, published, wanted, heard, dropped>>
  BY DEF HeadsetReads, queue
<1>3. h \in FrameSet
  BY <1>1, <1>2, HeadTailProperties
<1>4. CASE h.kind = "handshake" /\ h = [kind |-> "handshake"]
  <2>1. inbound' = Append(inbound, Ack) /\ actual' = actual
    BY <1>4 DEF HeadsetReads
  <2>2. \A s \in Settings : ~Concerns(h, "ask", s) /\ ~Concerns(h, "put", s)
    BY <1>4 DEF Concerns
  <2> QED BY <1>2, <2>1, <2>2, ReadsNothingNew
<1>5. ASSUME NEW st \in Settings, h.kind = "ask", h.setting = st, h = Ask(st)
      PROVE  SyncInv'
  <2>1. inbound' = inbound \o <<Ack, Report(st, actual[st])>> /\ actual' = actual
    BY <1>5 DEF HeadsetReads
  <2>2. actual[st] \in EffectiveOf[st]
    BY <1>1 DEF Typed, Stored
  <2> QED BY <1>2, <1>5, <2>1, <2>2, ReadsAndReports
<1>6. ASSUME NEW st \in Settings, NEW v \in EffectiveOf[st],
             h.kind = "put", h.setting = st, h.value = v, h = Put(st, v)
      PROVE  SyncInv'
  <2>1. /\ inbound' = inbound \o IF actual[st] = v THEN <<Ack>> ELSE <<Ack, Report(st, v)>>
        /\ actual' = [actual EXCEPT ![st] = v]
    BY <1>6 DEF HeadsetReads
  <2>2. CASE actual[st] = v
    <3>1. inbound' = Append(inbound, Ack)
      BY <1>1, <2>1, <2>2, AppendTwo
    <3>2. actual' = actual
      <4>1. actual = [s \in Settings |-> actual[s]]
        BY <1>1 DEF Typed, Stored
      <4> QED BY <2>1, <2>2, <4>1
    <3>3. \A s \in Settings : /\ ~Concerns(h, "ask", s)
                              /\ Concerns(h, "put", s) => h.value = actual[s]
      BY <1>6, <2>2, Subjects
    <3> QED BY <1>2, <3>1, <3>2, <3>3, ReadsNothingNew
  <2>3. CASE actual[st] # v
    <3>1. inbound' = inbound \o <<Ack, Report(st, v)>>
      BY <2>1, <2>3
    <3> QED BY <1>2, <1>6, <2>1, <3>1, ReadsAndReports
  <2> QED BY <2>2, <2>3
<1> QED BY <1>3, <1>4, <1>5, <1>6, Frames

-----------------------------------------------------------------------------
(* The theorems *)

LEMMA SyncStep ==
  ASSUME SyncInv, [Next]_vars
  PROVE  SyncInv'
<1>1. CASE \E command \in Commands : SetLinked(command) \/ SetUnlinked(command)
  BY <1>1, SetLinkedStep, SetUnlinkedStep
<1>2. CASE Connect
  BY <1>2, ConnectStep
<1>3. CASE Lose
  BY <1>3, LoseStep
<1>4. CASE ReceiveAck
  BY <1>4, ReceiveAckStep
<1>5. CASE TxTimeout
  BY <1>5, TxTimeoutStep
<1>6. CASE ReceiveReport
  BY <1>6, ReceiveReportStep
<1>7. CASE HeadsetReads
  BY <1>7, HeadsetReadsStep
<1>8. CASE HeadsetDrops
  BY <1>8, HeadsetDropsStep
<1>9. CASE Touch
  BY <1>9, TouchStep
<1>10. CASE UNCHANGED vars
  <2>1. UNCHANGED <<open, waiting, bit, busy, wire, inbound, published, actual, wanted,
                    heard, dropped>>
    BY <1>10 DEF vars, queue
  <2>2. Typed'
    BY <2>1 DEF SyncInv, Typed
  <2>3. Idle'
    BY <2>1 DEF SyncInv, Idle
  <2>4. Synced'
    BY <2>1 DEF SyncInv, Synced, Current, Covered, Heeded
  <2> QED BY <2>2, <2>3, <2>4 DEF SyncInv
<1> QED BY <1>1, <1>2, <1>3, <1>4, <1>5, <1>6, <1>7, <1>8, <1>9, <1>10 DEF Next

LEMMA SyncInit ==
  ASSUME Init
  PROVE  SyncInv
<1>1. Stored(actual, EffectiveOf)
  BY SettingAssumption, EachIsStored DEF Init
<1>2. Stored(published, ShownOf)
  BY DefaultStored DEF Init
<1>3. Stored(wanted, WantedOf)
  BY DEF Init, Stored, WantedOf, EffectiveOf
<1>4. /\ open = FALSE /\ busy = FALSE /\ bit = 0
      /\ waiting = <<>> /\ wire = <<>> /\ inbound = <<>>
      /\ wanted = EffectiveOf /\ heard = {} /\ dropped = FALSE
  BY DEF Init
<1>5. waiting \in Seq(FrameSet) /\ wire \in Seq(FrameSet) /\ inbound \in Seq(ReplySet)
  BY <1>4
<1>6. Typed
  BY <1>1, <1>2, <1>3, <1>4, <1>5 DEF Typed
<1>7. Idle
  BY <1>1, <1>4 DEF Idle, Stored
<1>8. Synced
  BY <1>4, NothingInEmpty DEF Synced, Current
<1> QED BY <1>6, <1>7, <1>8 DEF SyncInv

\* A difference between the status and the headset is always covered by a message
\* under way, and the last command is the last one that the headset reads
\* (main.cpp:279-283, 318-327, 348-430).
THEOREM SyncInvariance == Spec => []SyncInv
<1>1. Init => SyncInv
  BY SyncInit
<1>2. SyncInv /\ [Next]_vars => SyncInv'
  BY SyncStep
<1> QED BY <1>1, <1>2, PTL DEF Spec

\* Every frame, report and status value is one that its setting can have
\* (main.cpp:348-430).
THEOREM SettingsTypeCorrect == Spec => []TypeOK
<1>1. ASSUME NEW m \in FrameSet
      PROVE  Frame(m)
  BY Frames DEF Frame
<1>2. ASSUME NEW m \in ReplySet
      PROVE  Reply(m)
  BY Replies, MessageTypes DEF Reply, Report
<1>3. ASSUME Typed
      PROVE  TypeOK
  <2>1. /\ \A i \in 1 .. Len(waiting) : Frame(waiting[i])
        /\ \A i \in 1 .. Len(wire) : Frame(wire[i])
    BY <1>1, <1>3, ElementOfSeq DEF Typed
  <2>2. \A i \in 1 .. Len(inbound) : Reply(inbound[i])
    BY <1>2, <1>3, ElementOfSeq DEF Typed
  <2>3. published \in Each(ShownOf) /\ actual \in Each(EffectiveOf)
    BY <1>3, EachIsStored DEF Typed
  <2>4. \A s \in Settings : wanted[s] \subseteq EffectiveOf[s]
    BY <1>3 DEF Typed, Stored, WantedOf
  <2> QED BY <1>3, <2>1, <2>2, <2>3, <2>4 DEF Typed, TypeOK
<1>4. SyncInv => TypeOK
  BY <1>3 DEF SyncInv
<1> QED BY <1>4, SyncInvariance, PTL

\* When nothing is under way and no frame was dropped, the status tells the truth
\* about every setting that was asked for or reported, but for the ambient level
\* (main.cpp:279-283, 318-327, 348-430; MDRProtocol.cpp:331-353).
THEOREM StatusTellsTheTruth == Spec => []QuietTruth
<1>1. ASSUME SyncInv, Quiet, ~dropped, NEW s \in Settings, s # "eq" \/ s \in heard
      PROVE  Tells(s, published[s], actual[s])
  <2>1. open /\ waiting = <<>> /\ wire = <<>> /\ inbound = <<>>
    BY <1>1 DEF Quiet
  <2>2. Covered(s)
    BY <1>1, <2>1 DEF SyncInv, Synced
  <2> QED BY <1>1, <2>1, <2>2, NothingInEmpty DEF Covered
<1>2. SyncInv => QuietTruth
  BY <1>1 DEF QuietTruth
<1> QED BY <1>2, SyncInvariance, PTL

\* And the headset does what the last command for a setting said; of an ambient
\* level it does no more than to go to ambient (main.cpp:348-430;
\* MDRProtocol.cpp:204-219).
THEOREM LastCommandObeyed == Spec => []Obeyed
<1>1. ASSUME SyncInv, Quiet, ~dropped, NEW s \in Settings
      PROVE  actual[s] \in wanted[s]
  <2>1. open /\ waiting = <<>> /\ wire = <<>>
    BY <1>1 DEF Quiet
  <2>2. Heeded(s)
    BY <1>1, <2>1 DEF SyncInv, Synced
  <2> QED BY <2>1, <2>2, NothingInEmpty DEF Heeded
<1>2. SyncInv => Obeyed
  BY <1>1 DEF Obeyed
<1> QED BY <1>2, SyncInvariance, PTL
=============================================================================
