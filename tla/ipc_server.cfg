\* Answers longer than the kernel's window, lines up to one piece over the limit.
CONSTANTS
    steady = steady
    hasty = hasty
    Clients = {steady, hasty}
    Script <- MCScript
    Steady = {steady}
    MaxLine = 4
    ReadSize = 2
    AnswerSize = 2
    Window = 3
    None = None
SPECIFICATION FairSpec
INVARIANTS TypeOK LineLimit
PROPERTIES KeepsPromise Answered HalfClosedExecuted
CHECK_DEADLOCK FALSE
