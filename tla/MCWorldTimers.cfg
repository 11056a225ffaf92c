CONSTANTS
    Diffs <- MCDiffs
    InitTimes <- MCInitTimes
    UptimeMinutes = {10, 90}
    AutoBroadcastMs <- MCABMs
    EventDelays <- MCEventDelays
    ABTable <- MCABTable
    ABCenter = 0
    InitArmed = FALSE
SPECIFICATION Spec
INVARIANT TypeOK
PROPERTY AutoBroadcastContinues
VIEW TimersView
