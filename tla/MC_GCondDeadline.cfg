CONSTANTS
    NULL = NULL
    TimeVals <- MCTimeVals
    AbsTimes <- MCAbsTimes
    Now = 1000000
SPECIFICATION Spec
INVARIANT SignalledOnlyBeforeDeadline
INVARIANT CanonicalNeverAborts
