\* Fixed player limit of 1: admission, queueing, promotion, replacement and
\* an IP ban hitting two accounts, issued by the player of the second (so
\* not kicked); all checked against the abstract admission queue.
CONSTANTS
    s1 = s1
    s2 = s2
    s3 = s3
    s4 = s4
    s5 = s5
    NoSession = NoSession
    NoAuth = NoAuth
    AuthOk = AuthOk
    NAccounts = 3
    SessionIds <- MCSessionIds4
    Acct <- MCAcct
    Sec <- MCSec
    InitLimit = 1
    LimitChoices = {}
    KickLevels = {1}
    BanResults = {{2, 3}}
    BanAuthor = 3
SPECIFICATION Spec
INVARIANT TypeOK
INVARIANT QueueOnlyWhenFull
INVARIANT PeaksCoverCurrent
INVARIANT AuthStateReported
PROPERTY AdmissionQueueRefined
