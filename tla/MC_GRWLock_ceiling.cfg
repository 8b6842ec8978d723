CONSTANTS
    t1 = t1  t2 = t2  t3 = t3  t4 = t4
    NULL = NULL
    Threads <- MCThreads
    MaxDepth = 3
    ReaderMax = 1
SPECIFICATION Spec
SYMMETRY Symmetry
PROPERTY Refines
