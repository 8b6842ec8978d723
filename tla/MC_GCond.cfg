CONSTANTS
    p1 = p1  p2 = p2  c1 = c1  c2 = c2
    NULL = NULL
    MaxSpurious = 1
    Producers <- MCProducers
    Consumers <- MCConsumers
    TimedWaiters <- MCTimedWaiters
SPECIFICATION Spec
INVARIANT HoldsMutexInCS
INVARIANT ItemsConserved
PROPERTY Termination
