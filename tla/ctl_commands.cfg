\* Two runs, of which the second may start after the first has ended.
CONSTANTS
    first = first
    second = second
    Runs = {first, second}
    Usage <- MCUsage
    RawLines <- MCRawLines
    Backlog = 1
SPECIFICATION FairSpec
INVARIANTS TypeOK ExitCodes Agreement InRange InOrder
PROPERTIES AlwaysEnds
