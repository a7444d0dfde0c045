SPECIFICATION Spec
CONSTANTS
    b1 = b1
    b2 = b2
    b3 = b3
    b4 = b4
    o1 = o1
    o2 = o2
    Blocks <- MCBlocks
    Objects <- MCObjects
    Ids <- MCIds
    TextLengths <- MCTextLengths
    MaxAllocs = 3
SYMMETRY Symmetry
INVARIANTS
    OwnedIsLive
    OneCopy
