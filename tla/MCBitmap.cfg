SPECIFICATION Spec
CONSTANTS
    null = null
    Word = 32
    Bytes = 3
    Bits = {0, 8, 10}
    Garbage <- MCGarbage
    Indices <- MCIndices
    Counts = {0, 1, 2, 9}
    NULL = null
VIEW WithoutCall
INVARIANTS TypeOK AreaExact AnswersExact
PROPERTIES Implements OutsideUntouched
