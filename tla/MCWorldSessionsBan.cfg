\* Bans issued while an authenticated session may wait in addSessQueue.
CONSTANTS
    s1 = s1
    s2 = s2
    s3 = s3
    s4 = s4
    s5 = s5
    NoSession = NoSession
    NoAuth = NoAuth
    AuthOk = AuthOk
    NAccounts = 3
    SessionIds <- MCSessionIds4
    Acct <- MCAcct
    Sec <- MCSec
    InitLimit = 1
    LimitChoices = {}
    KickLevels = {1}
    BanResults = {{2, 3}}
    BanAuthor = 3
SPECIFICATION Spec
INVARIANT BannedKicked
