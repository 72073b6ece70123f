\* Two daemons; with their temporary files, status.json and the reader's file
\* four inodes can be in use.
CONSTANTS
    Pids = {p1, p2}
    Inodes = {i1, i2, i3, i4}
    Values = {off, on}
    Disconnected = off
    Parts = 2
    None = None
SPECIFICATION Spec
SYMMETRY Symmetry
VIEW View
INVARIANTS TypeOK NeverTorn Truthful Leftovers OneServed
