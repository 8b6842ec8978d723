CONSTANTS
    h1 = h1  h2 = h2
    Handles <- MCHandles
    Hints = {0, 8, 32, 128}
    SysconfVals <- MCSysconfVals
    LongBits = 8
    StackMin = 16
    StackMax = 200
    DefaultStack = 64
SPECIFICATION Spec
INVARIANT StackHintApplied
