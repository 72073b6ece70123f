------------------------------- MODULE MCCtl -------------------------------
(***************************************************************************)
(* Ctl with command lines of every subcommand and option, what they mean   *)
(* according to the usage text, and lines that sony-ctl would never send.  *)
(***************************************************************************)
EXTENDS Ctl

CONSTANTS first, second

W(text) == Word(text)
N(text, n) == Digits(text, 0, n)

\* 2^32 + n
Beyond(text, n) == Digits(text, 1, n)

Six(a, b) == <<N("a", a), N("0", 0), N("0", 0), N("0", 0), N("0", 0), N("b", b)>>

Means(args, call) == [args |-> args, means |-> call]

MCUsage == {
    Means(<<W("status")>>, Nothing),
    Means(<<W("noise"), W("ambient")>>, Call("setNoiseMode", "ambient", <<>>)),
    Means(<<W("-s"), W("elsewhere"), W("noise"), W("off")>>, Nothing),
    Means(<<W("voice-focus"), W("on"), W("-x")>>, Call("setVoiceFocus", "on", <<>>)),
    Means(<<W("--"), W("ult"), W("ult1")>>, Call("setUltMode", "", <<1>>)),
    Means(<<W("ambient-level"), N("20", 20)>>, Call("setAmbientLevel", "", <<20>>)),
    Means(<<W("ambient-level"), Beyond("4294967301", 5)>>, Nothing),
    Means(<<W("ambient-level"), N("-5", -5)>>, Nothing),
    Means(<<W("eq"), W("bass")>>, Call("setEqPreset", "bass", <<>>)),
    Means(<<W("eq"), W("custom")>> \o Six(-10, 10),
          Call("setCustomEq", "", <<-10, 0, 0, 0, 0, 10>>)),
    Means(<<W("eq"), W("custom")>> \o Six(0, 11), Nothing),
    Means(<<W("dsee"), W("maybe")>>, Nothing),
    Means(<<W("dsee"), W("on"), W("--help")>>, Nothing),
    Means(<<W("-x"), W("dsee"), W("on")>>, Nothing),
    Means(<<W("--version"), W("-s")>>, Nothing),
    Means(<<>>, Nothing)}

MCRawLines == {
    <<>>,
    <<W("ambient-level"), Beyond("4294967301", 5)>>,
    <<W("ambient-level"), N("-1", -1)>>,
    <<W("eq"), W("custom")>> \o Six(11, 0),
    <<W("_set_battery"), N("300", 300), W("yes")>>,
    <<W("_disconnect")>>,
    <<W("_reconnect")>>}

ASSUME MCUsageUnderstood == UsageUnderstood
=============================================================================
