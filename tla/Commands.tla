------------------------------ MODULE Commands ------------------------------
(***************************************************************************)
(* What sony-ctl makes of its arguments and what the daemon makes of a     *)
(* line: the two halves of the command language, which check the same      *)
(* things with different code.                                             *)
(*                                                                         *)
(* Both programs compare words in lower case, so a word has its text in    *)
(* lower case; the value of a decimal number is high * 2^32 + low, with    *)
(* low in the range of int.  A line is a sequence of words.                *)
(***************************************************************************)
EXTENDS Integers, Sequences, Folds, SequencesExt

Word(text) == [text |-> text, number |-> FALSE, high |-> 0, low |-> 0]

Digits(text, high, low) == [text |-> text, number |-> TRUE, high |-> high, low |-> low]

NoiseModes == {"anc", "ambient", "off"}
Presets == {"off", "bright", "excited", "mellow", "relaxed", "vocal", "treble", "bass", "speech"}

\* A call of one of the daemon's callbacks.
Call(name, word, values) == [name |-> name, word |-> word, values |-> values]

Nothing == Call("nothing", "", <<>>)

-----------------------------------------------------------------------------
(* The daemon: IpcServer::handleBuiltinCommand *)

\* strtol, then a cast to int that drops the high part.
ServerParses(word) == word.number
ServerInt(word) == word.low

\* Fault: only the upper end of the range is tested.
LevelUpTo(n) == n <= 20

Level(n) == n \in 0 .. 20

Band(n) == n \in -10 .. 10

Ok(call) == [reply |-> "OK", call |-> call]
Err == [reply |-> "ERR", call |-> Nothing]

When(condition, answer) == IF condition THEN answer ELSE Err

ServeStatus == [reply |-> "JSON", call |-> Nothing]

ServeNoise(line) ==
    When(Len(line) >= 2 /\ line[2].text \in NoiseModes,
         Ok(Call("setNoiseMode", line[2].text, <<>>)))

ServeAmbientLevel(line) ==
    When(Len(line) >= 2 /\ ServerParses(line[2]) /\ Level(ServerInt(line[2])),
         Ok(Call("setAmbientLevel", "", <<ServerInt(line[2])>>)))

ServeVoiceFocus(line) ==
    When(Len(line) >= 2 /\ line[2].text \in {"on", "off"},
         Ok(Call("setVoiceFocus", line[2].text, <<>>)))

UltMode == [text \in {"off", "0", "1", "ult1", "2", "ult2"} |->
            CASE text \in {"off", "0"} -> 0 [] text \in {"1", "ult1"} -> 1 [] OTHER -> 2]

ServeUlt(line) ==
    When(Len(line) >= 2 /\ line[2].text \in DOMAIN UltMode,
         Ok(Call("setUltMode", "", <<UltMode[line[2].text]>>)))

\* Five bands and the clear bass are checked one after the other.
ServeCustomEq(line) ==
    When(/\ Len(line) >= 8
         /\ \A i \in 3 .. 8 : ServerParses(line[i]) /\ Band(ServerInt(line[i])),
         Ok(Call("setCustomEq", "", [i \in 1 .. 6 |-> ServerInt(line[i + 2])])))

ServeEq(line) ==
    IF Len(line) >= 2 /\ line[2].text = "custom" THEN ServeCustomEq(line)
    ELSE When(Len(line) >= 2 /\ line[2].text \in Presets,
              Ok(Call("setEqPreset", line[2].text, <<>>)))

ServeDsee(line) ==
    When(Len(line) >= 2 /\ line[2].text \in {"on", "off"},
         Ok(Call("setDsee", line[2].text, <<>>)))

\* A level that cannot be parsed stays 85; one out of range is published.
ServeSetBattery(line) ==
    Ok(Call("onTestSetBattery",
            IF Len(line) >= 3 /\ line[3].text \in {"true", "1", "yes"} THEN "true" ELSE "false",
            <<IF Len(line) >= 2 /\ ServerParses(line[2]) THEN ServerInt(line[2]) ELSE 85>>))

HandleBuiltinCommand(line) ==
    IF line = <<>> THEN Err
    ELSE LET verb == line[1].text
         IN  CASE verb = "status" -> ServeStatus
               [] verb = "noise" -> ServeNoise(line)
               [] verb = "ambient-level" -> ServeAmbientLevel(line)
               [] verb = "voice-focus" -> ServeVoiceFocus(line)
               [] verb = "ult" -> ServeUlt(line)
               [] verb = "eq" -> ServeEq(line)
               [] verb = "dsee" -> ServeDsee(line)
               [] verb = "_set_battery" -> ServeSetBattery(line)
               [] verb = "_disconnect" -> Ok(Call("onTestDisconnect", "", <<>>))
               [] verb = "_reconnect" -> Ok(Call("onTestReconnect", "", <<>>))
               [] OTHER -> Err

-----------------------------------------------------------------------------
(* sony-ctl: main *)

\* strtol and a test that the value fits an int.
ClientParses(word) == word.number /\ word.high = 0
ClientInt(word) == word.low

\* std::to_string of a number that was parsed.
Number(word) == Digits(word.text, 0, ClientInt(word))

\* Either the program ends at once, or it sends a line to the daemon.
Ends(code) == [exit |-> code, line |-> <<>>, status |-> FALSE]
Sends(line) == [exit |-> -1, line |-> line, status |-> FALSE]

SendIf(condition, line) == IF condition THEN Sends(line) ELSE Ends(1)

TypeNoise(args) ==
    SendIf(Len(args) >= 2 /\ args[2].text \in NoiseModes, <<Word("noise"), args[2]>>)

TypeVoiceFocus(args) ==
    SendIf(Len(args) >= 2 /\ args[2].text \in {"on", "off"},
           <<Word("voice-focus"), args[2]>>)

TypeUlt(args) ==
    SendIf(Len(args) >= 2 /\ args[2].text \in DOMAIN UltMode, <<Word("ult"), args[2]>>)

TypeAmbientLevel(args) ==
    SendIf(Len(args) >= 2 /\ ClientParses(args[2]) /\ ClientInt(args[2]) \in 0 .. 20,
           <<Word("ambient-level"), Number(args[2])>>)

TypeCustomEq(args) ==
    SendIf(/\ Len(args) >= 8
           /\ \A i \in 3 .. 8 : ClientParses(args[i]) /\ ClientInt(args[i]) \in -10 .. 10,
           <<Word("eq"), Word("custom")>> \o [i \in 1 .. 6 |-> Number(args[i + 2])])

TypeEq(args) ==
    IF Len(args) >= 2 /\ args[2].text = "custom" THEN TypeCustomEq(args)
    ELSE SendIf(Len(args) >= 2 /\ args[2].text \in Presets, <<Word("eq"), args[2]>>)

\* Fault: the argument goes out unchecked.
TypeDseeUnchecked(args) ==
    SendIf(Len(args) >= 2, <<Word("dsee"), args[2]>>)

TypeDsee(args) ==
    SendIf(Len(args) >= 2 /\ args[2].text \in {"on", "off"}, <<Word("dsee"), args[2]>>)

TypeCommand(args) ==
    LET subcmd == args[1].text
    IN  CASE subcmd = "status" -> [Sends(<<Word("status")>>) EXCEPT !.status = TRUE]
          [] subcmd = "noise" -> TypeNoise(args)
          [] subcmd = "voice-focus" -> TypeVoiceFocus(args)
          [] subcmd = "ult" -> TypeUlt(args)
          [] subcmd = "ambient-level" -> TypeAmbientLevel(args)
          [] subcmd = "eq" -> TypeEq(args)
          [] subcmd = "dsee" -> TypeDsee(args)
          [] OTHER -> Ends(1)

-----------------------------------------------------------------------------
(* The options of sony-ctl *)

Scanned == [rest |-> <<>>, help |-> FALSE, version |-> FALSE, socket |-> "",
            wantsPath |-> FALSE, verbatim |-> FALSE, bad |-> FALSE]

\* Options are recognised everywhere up to "--"; what only looks like one is an
\* error before the subcommand and an argument after it.
Scan(s, arg) ==
    IF s.bad THEN s
    ELSE IF s.verbatim THEN [s EXCEPT !.rest = Append(@, arg)]
    ELSE IF s.wantsPath THEN [s EXCEPT !.socket = arg.text, !.wantsPath = FALSE]
    ELSE CASE arg.text \in {"-h", "--help"} -> [s EXCEPT !.help = TRUE]
           [] arg.text \in {"-v", "--version"} -> [s EXCEPT !.version = TRUE]
           [] arg.text \in {"-s", "--socket"} -> [s EXCEPT !.wantsPath = TRUE]
           [] arg.text = "--" -> [s EXCEPT !.verbatim = TRUE]
           [] arg.text = "-x" /\ s.rest = <<>> -> [s EXCEPT !.bad = TRUE]
           [] OTHER -> [s EXCEPT !.rest = Append(@, arg)]

\* What the program does before it opens a socket, and the socket's path, which is
\* empty for the default one.
CommandLine(args) ==
    LET s == FoldLeft(Scan, Scanned, args)
        does == IF s.bad \/ s.wantsPath THEN Ends(1)
                ELSE IF s.help \/ s.version THEN Ends(0)
                ELSE IF s.rest = <<>> THEN Ends(1)
                ELSE TypeCommand(s.rest)
    IN  [exit |-> does.exit, line |-> does.line, status |-> does.status,
         socket |-> s.socket]
=============================================================================
