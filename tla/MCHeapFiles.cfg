SPECIFICATION Spec
CONSTANTS
    f1 = f1  f2 = f2  null = null
    HeapSize = 12
    ALIGN = 2
    Files = {f1, f2}
    Bytes = {0, 1, 2, 9}
    Memories <- MCMemories
    Writes <- MCWrites
    Objects <- MCObjects
    MaxOffset = 3
    NULL = null
SYMMETRY FileSymmetry
VIEW WithoutRet
INVARIANTS BlocksSound
PROPERTIES NeighboursUntouched WrongOnlyByMove
