CONSTANTS
    Commands = {c1}
    TestHooks = {"SIGUSR1", "SIGUSR2"}
    MaxQueue = 4
    MaxInbound = 1
    MaxOutbound = 2
SPECIFICATION FairSpec
INVARIANTS LiveLinkPublished
PROPERTIES CommandReleased Reconnects StatusHeals
