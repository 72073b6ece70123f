--------------------------- MODULE MCSettingSync ---------------------------
(***************************************************************************)
(* SettingSync with the noise commands and one of each other kind.  The    *)
(* headset may report an ULT mode and a preset that the daemon has no name *)
(* for.                                                                    *)
(***************************************************************************)
EXTENDS SettingSync

MCValues == [battery |-> {50}, ult |-> {1, 3}, dsee |-> {TRUE},
             eq |-> {"off", "unknown"}]

Actual(mode, voice, ult, eq) ==
    [noise |-> [mode |-> mode, voice |-> voice], battery |-> 50, ult |-> ult,
     dsee |-> TRUE, eq |-> eq]

MCInitially == {Actual("ambient", TRUE, 3, "off"), Actual("off", FALSE, 1, "unknown")}

Command(name, value) == [name |-> name, value |-> value]

MCCommands == {Command("noise", "anc"), Command("noise", "ambient"),
               Command("voice-focus", TRUE), Command("voice-focus", FALSE),
               Command("ambient-level", 7), Command("ult", 1), Command("eq", "off")}
=============================================================================
