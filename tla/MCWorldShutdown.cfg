\* Shutdown requests, cancels and countdowns with a wall clock that moves 1 s per tick.
CONSTANTS
    Delays <- MCDelays
    Masks <- MCMasks
    ExitCodes = {0, 2}
    ClockDeltas = {1}
    ClockModulus <- MCClockModulus
    MaxSessions = 1
    MaxRequests = 2
SPECIFICATION Spec
INVARIANT TypeOK
PROPERTY StopIsFinal
PROPERTY ShutdownNotEarly
PROPERTY ShutdownCompletes
