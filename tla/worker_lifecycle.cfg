SPECIFICATION Spec
\* All processes have stopped and the clock has reached its bound.
CHECK_DEADLOCK FALSE
CONSTANTS
    w1 = w1
    w2 = w2
    Procs = {w1, w2}
    Ttl = 2
    Horizon = 2
    MaxQueue = 1
    MaxAways = 1
INVARIANT StaleMeansSilent
INVARIANT OkMeansRunning
PROPERTY JobsEndFirst
PROPERTY StopEnds
