SPECIFICATION Spec
CONSTANTS
    h1 = h1  h2 = h2  h3 = h3  n1 = n1  n2 = n2  n3 = n3  null = null
    Heads = {h1, h2, h3}
    Nodes = {n1, n2, n3}
    NULL = null
SYMMETRY CellSymmetry
INVARIANTS Rings LoopExact
PROPERTIES Implements
