\* An operator raises the limit to unlimited (0) while players wait in the queue.
CONSTANTS
    s1 = s1
    s2 = s2
    s3 = s3
    s4 = s4
    s5 = s5
    NoSession = NoSession
    NoAuth = NoAuth
    AuthOk = AuthOk
    NAccounts = 3
    SessionIds <- MCSessionIds
    Acct <- MCAcct
    Sec <- MCSec
    InitLimit = 1
    LimitChoices = {0}
    KickLevels = {1}
    BanResults = {}
    BanAuthor = 0
SPECIFICATION Spec
PROPERTY NoQueueJumping
