CONSTANTS
    t1 = t1  t2 = t2  t3 = t3
    a1 = a1  a2 = a2  a3 = a3  a4 = a4
    NULL = NULL
    Threads <- MCThreads
    Addrs <- MCAddrs
    MaxDepth = 2
    NativeMax = 1
SPECIFICATION Spec
SYMMETRY Symmetry
INVARIANT MutualExclusion
