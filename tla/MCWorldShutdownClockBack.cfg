\* The system clock steps back one second between two ticks.
CONSTANTS
    Delays <- MCDelays
    Masks <- MCMasks
    ExitCodes = {0, 2}
    ClockDeltas <- MCClockBack
    ClockModulus <- MCClockModulus
    MaxSessions = 1
    MaxRequests = 2
SPECIFICATION Spec
PROPERTY ShutdownNotEarly
