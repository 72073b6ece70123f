\* Room for one read beside the unfinished frames of two sessions.
CONSTANTS
    Frames <- MCFrames
    MaxFrames = 2
    MaxDrops = 1
    ReadSize = 12
    MaxBuffer = 44
SPECIFICATION Spec
INVARIANTS TypeOK Lossless Resynchronises
