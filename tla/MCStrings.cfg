SPECIFICATION Spec
CONSTANTS
    null = null
    Size = 4
    Bytes = {0, 1, 200}
    Ints <- MCInts
    NULL = null
INVARIANTS CallExact ReadsInBounds
