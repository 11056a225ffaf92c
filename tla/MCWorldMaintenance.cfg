\* Day 10 is a Wednesday-like day, day 11 the maintenance day; one restart.
CONSTANTS
    Delays <- MCDelays
    Masks <- MCMasks
    ExitCodes = {0, 2}
    ClockDeltas = {10}
    ClockModulus <- MCClockModulus
    MaxSessions = 1
    MaxRequests = 2
    MaintenanceDay = 3
    FirstDay = 10
    MaxDay = 11
    StoredDates = {4, 11}
    NoDate = NoDate
    InitChecker = 1000
    MaxRestarts = 1
    MaxCancels = 2
SPECIFICATION Spec
CHECK_DEADLOCK FALSE
INVARIANT TypeOK
INVARIANT NoRestartLoop
PROPERTY MaintenanceRestarts
