\* An idle-mode shutdown fires while a player waits in addSessQueue; the same
\* Update admits the player, and KickAll disconnects it.
CONSTANTS
    s1 = s1
    s2 = s2
    s3 = s3
    s4 = s4
    s5 = s5
    NoSession = NoSession
    NoAuth = NoAuth
    AuthOk = AuthOk
    NAccounts = 3
    SessionIds <- MCCoreSessionIds
    Acct <- MCAcct
    Sec <- MCSec
    InitLimit = 1
    LimitChoices <- MCCoreLimitChoices
    KickLevels = {1}
    BanResults = {}
    BanAuthor = 0
    Delays <- MCCoreDelays
    Masks <- MCCoreMasks
    ExitCodes = {2}
    ClockDeltas = {1}
    ClockModulus = 65536
    MaxRequests = 1
SPECIFICATION CoreSpec
PROPERTY IdleStopKicksNobody
