SPECIFICATION Spec
CONSTANTS
    Half = 2
    Scratch = 4
    Chunk = 6
    OneShotMax = 5
    MaxData = 12
INVARIANTS TypeOK TagCoversTheWire PadsAreUsedOnce OpenedIsSealed
