CONSTANTS
    t1 = t1  t2 = t2  v1 = v1  v2 = v2
    NULL = NULL
    Threads <- MCThreads
    Values <- MCValues
SPECIFICATION Spec
SYMMETRY Symmetry
PROPERTY ReadyGetSeesOwnSet
