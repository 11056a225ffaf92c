\* One world loop: two players under limit 1, which the operator may lift or
\* turn into a security level,
\* kicks, and a shutdown command (now or in 1 s, plain or idle-mode) that may
\* be cancelled; the stop runs KickAll and the last UpdateSessions.
CONSTANTS
    s1 = s1
    s2 = s2
    s3 = s3
    s4 = s4
    s5 = s5
    NoSession = NoSession
    NoAuth = NoAuth
    AuthOk = AuthOk
    NAccounts = 3
    SessionIds <- MCCoreSessionIds
    Acct <- MCAcct
    Sec <- MCSec
    InitLimit = 1
    LimitChoices <- MCCoreLimitChoices
    KickLevels = {1}
    BanResults = {}
    BanAuthor = 0
    Delays <- MCCoreDelays
    Masks <- MCCoreMasks
    ExitCodes = {2}
    ClockDeltas = {1}
    ClockModulus = 65536
    MaxRequests = 1
SPECIFICATION CoreSpec
INVARIANT CoreTypeOK
INVARIANT QueueConsistent
PROPERTY AdmissionRespectsLimit
PROPERTY ShutdownReachesExit
