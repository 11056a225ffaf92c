CONSTANTS
    Diffs <- MCMinuteDiffs
    InitTimes <- MCMailInitTimes
    UptimeMinutes = {10}
    AutoBroadcastMs <- MCABMs
    EventDelays <- MCEventDelays
    ABTable <- MCABTable
    ABCenter = 0
    InitArmed = FALSE
SPECIFICATION Spec
INVARIANT MailReturnInWindow
VIEW MailView
