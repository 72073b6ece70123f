CONSTANTS
    Commands = {c1}
    TestHooks = {}
    MaxQueue = 5
    MaxInbound = 2
    MaxOutbound = 3
SPECIFICATION Spec
PROPERTIES LossPublished
