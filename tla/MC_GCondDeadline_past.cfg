CONSTANTS
    NULL = NULL
    TimeVals <- MCCanonTimeVals
    AbsTimes <- MCAbsTimes
    Now = 1000000
SPECIFICATION Spec
INVARIANT PastDeadlineReturnsFalse
