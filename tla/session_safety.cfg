\* Every test hook in use; two commands can queue behind the four queries.
CONSTANTS
    Commands = {c1, c2}
    TestHooks = {"SIGUSR1", "SIGUSR2", "_disconnect", "_reconnect"}
    MaxQueue = 5
    MaxInbound = 2
    MaxOutbound = 3
SPECIFICATION Spec
INVARIANTS TypeOK NeverWedged InSequence OneAtATime FramerInStep IInv
PROPERTIES QueueKeepsPromise
