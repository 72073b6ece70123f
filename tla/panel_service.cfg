\* Two commands, one of which may be given up or wait while the other runs, one
\* other change of the status, then the user stops.
CONSTANTS
    MaxSets = 2
    MaxReports = 1
    None = None
SPECIFICATION FairSpec
INVARIANTS TypeOK Accounted
PROPERTIES Converges
