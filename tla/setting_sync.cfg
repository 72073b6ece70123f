\* Two commands over two sessions, a touch and a dropped frame at any point.
CONSTANTS
    Values <- MCValues
    Commands <- MCCommands
    MaxCommands = 2
    MaxSessions = 2
    MaxTouches = 1
    MaxDrops = 1
    MaxTimeouts = 1
    Initially <- MCInitially
SPECIFICATION Spec
INVARIANTS TypeOK QuietTruth Obeyed
CHECK_DEADLOCK FALSE
