--------------------------- MODULE WorldSessions ---------------------------
(***************************************************************************)
(* The session directory and admission controller of World.cpp:            *)
(*   m_sessions        the map account -> WorldSession*   (smap)           *)
(*   m_QueuedSessions  the admission wait-queue             (queue)         *)
(*   addSessQueue      the locked handoff queue filled by the network      *)
(*                     thread and drained by World::UpdateSessions          *)
(* The world thread runs World::Update in a loop; of it this module keeps   *)
(* the three steps that touch sessions, in their order within one tick:    *)
(* the drain of addSessQueue (AddSession_ per entry), the update pass over  *)
(* m_sessions, and ProcessCliCommands (kick, player limit).  The network    *)
(* thread and the clients act between any two of these steps.              *)
(***************************************************************************)
EXTENDS Integers, Sequences, FiniteSets, SequencesExt

CONSTANTS
    NAccounts,      \* accounts are 1..NAccounts; std::map iterates in this order
    SessionIds,     \* every WorldSession object the network layer may create
    Acct,           \* Acct[s]: account id of session s
    Sec,            \* Sec[a]: security level of account a (0 = SEC_PLAYER)
    InitLimit,      \* m_playerLimit at start (config PlayerLimit)
    LimitChoices,   \* values an operator may pass to SetPlayerLimit
    KickLevels,     \* levels an operator may pass to KickAllLess
    BanResults,     \* account sets a ban's SELECT may return (non-empty)
    BanAuthor,      \* account whose player issues the bans (0: the console)
    NoSession,      \* model value: no entry / NULL
    NoAuth,         \* model value: no SMSG_AUTH_RESPONSE sent yet
    AuthOk          \* model value: SMSG_AUTH_RESPONSE with AUTH_OK

Accounts == 1..NAccounts
SEC_PLAYER == 0
SEC_ADMINISTRATOR == 3

ASSUME /\ \A s \in SessionIds : Acct[s] \in Accounts
       /\ Sec \in [Accounts -> 0..SEC_ADMINISTRATOR]
       /\ NoSession \notin SessionIds
       /\ BanResults \subseteq (SUBSET Accounts \ {{}})
       /\ BanAuthor \in Accounts \cup {0}

VARIABLES
    addSessQueue,   \* World::addSessQueue (ACE locked queue)
    born,           \* sessions the network layer has created so far
    smap,           \* World::m_sessions
    queue,          \* World::m_QueuedSessions
    inQueue,        \* sessions whose WorldSession::SetInQueue(true) holds
    closed,         \* sessions whose socket is closed (KickPlayer or client)
    loading,        \* sessions with WorldSession::PlayerLoading() true
    authMsg,        \* last auth response sent: NoAuth, AuthOk or a queue position
    limit,          \* World::m_playerLimit
    maxActive,      \* World::m_maxActiveSessionCount
    maxQueued,      \* World::m_maxQueuedSessionCount
    phase,          \* step of World::Update the world thread is in
    cursor,         \* next account visited by the UpdateSessions loop
    stopping,       \* CleanupsBeforeStop has begun
    banned          \* accounts with an active account_banned (or ip_banned) row

vars == <<addSessQueue, born, smap, queue, inQueue, closed, loading, authMsg,
          limit, maxActive, maxQueued, phase, cursor, stopping, banned>>

-----------------------------------------------------------------------------
(* Derived counts, World.h (not in src): GetActiveAndQueuedSessionCount is  *)
(* m_sessions.size(), GetActiveSessionCount subtracts the queue's size.     *)
Listed(m) == {m[a] : a \in {b \in Accounts : m[b] # NoSession}}
ActiveAndQueuedCount == Cardinality(Listed(smap))
ActiveCount(q) == ActiveAndQueuedCount - Len(q)
Active == Listed(smap) \ ToSet(queue)

\* World::GetPlayerAmountLimit: a negative limit is a security level, no cap
AmountLimit == IF limit >= 0 THEN limit ELSE 0

MaxOf(x, y) == IF x >= y THEN x ELSE y

\* 1-based position of s in q, 0 if absent (World::GetQueuedSessionPos)
QueuedSessionPos(q, s) ==
    IF s \in ToSet(q) THEN CHOOSE i \in 1..Len(q) : q[i] = s ELSE 0

(* Fault variants of RemoveQueuedSession, for mutation analysis: the      *)
(* count of the leaving active session is never subtracted, or positions  *)
(* are re-announced from one past the removed entry.                       *)
RemoveQueuedSessionNoDecrement(s, q, iq, msg) ==
    LET idx == QueuedSessionPos(q, s)
        q1 == IF idx # 0 THEN RemoveAt(q, idx) ELSE q
        promote == (limit = 0 \/ ActiveCount(q) < limit) /\ q1 # <<>>
        q2 == IF promote THEN Tail(q1) ELSE q1
        from == IF promote THEN 1 ELSE IF idx # 0 THEN idx ELSE Len(q2) + 1
    IN [queue |-> q2, found |-> idx # 0,
        inQueue |-> iq \ ((IF idx # 0 THEN {s} ELSE {}) \cup
                           IF promote THEN {Head(q1)} ELSE {}),
        authMsg |-> [x \in SessionIds |->
                       IF promote /\ x = Head(q1) THEN 0
                       ELSE IF \E i \in from..Len(q2) : q2[i] = x
                            THEN QueuedSessionPos(q2, x) ELSE msg[x]]]

RemoveQueuedSessionRenumberLate(s, q, iq, msg) ==
    LET idx == QueuedSessionPos(q, s)
        q1 == IF idx # 0 THEN RemoveAt(q, idx) ELSE q
        sessions == IF idx = 0 /\ ActiveCount(q) > 0 THEN ActiveCount(q) - 1
                    ELSE ActiveCount(q)
        promote == (limit = 0 \/ sessions < limit) /\ q1 # <<>>
        q2 == IF promote THEN Tail(q1) ELSE q1
        from == IF promote THEN 1 ELSE IF idx # 0 THEN idx + 1 ELSE Len(q2) + 1
    IN [queue |-> q2, found |-> idx # 0,
        inQueue |-> iq \ ((IF idx # 0 THEN {s} ELSE {}) \cup
                           IF promote THEN {Head(q1)} ELSE {}),
        authMsg |-> [x \in SessionIds |->
                       IF promote /\ x = Head(q1) THEN 0
                       ELSE IF \E i \in from..Len(q2) : q2[i] = x
                            THEN QueuedSessionPos(q2, x) ELSE msg[x]]]

(***************************************************************************)
(* World::RemoveQueuedSession(s) as a function of the state it reads:       *)
(* removes s from the queue if listed, then, when capacity allows, pops the *)
(* head (SendAuthWaitQue(0)) and re-announces positions from the first one  *)
(* that changed.  Returns the new queue, flags, messages and `found`.       *)
(***************************************************************************)
RemoveQueuedSession(s, q, iq, msg) ==
    LET sessions0 == ActiveCount(q)
        idx       == QueuedSessionPos(q, s)
        found     == idx # 0
        q1        == IF found THEN RemoveAt(q, idx) ELSE q
        sessions  == IF ~found /\ sessions0 > 0 THEN sessions0 - 1 ELSE sessions0
        promote   == (limit = 0 \/ sessions < limit) /\ q1 # <<>>
        popped    == IF promote THEN {Head(q1)} ELSE {}
        q2        == IF promote THEN Tail(q1) ELSE q1
        from      == IF promote THEN 1 ELSE IF found THEN idx ELSE Len(q2) + 1
    IN [queue   |-> q2,
        found   |-> found,
        inQueue |-> iq \ ((IF found THEN {s} ELSE {}) \cup popped),
        authMsg |-> [x \in SessionIds |->
                       IF x \in popped THEN 0
                       ELSE IF \E i \in from..Len(q2) : q2[i] = x
                            THEN QueuedSessionPos(q2, x)
                            ELSE msg[x]]]

\* Fault variant: only the queued peak is maintained
MaxCountersQueuedOnly(m, q) ==
    /\ maxActive' = maxActive
    /\ maxQueued' = MaxOf(maxQueued, Len(q))

\* World::UpdateMaxSessionCounters on the state being produced
MaxCounters(m, q) ==
    /\ maxActive' = MaxOf(maxActive, Cardinality(Listed(m)) - Len(q))
    /\ maxQueued' = MaxOf(maxQueued, Len(q))

-----------------------------------------------------------------------------
Init ==
    /\ addSessQueue = <<>>
    /\ born = {}
    /\ smap = [a \in Accounts |-> NoSession]
    /\ queue = <<>>
    /\ inQueue = {}
    /\ closed = {}
    /\ loading = {}
    /\ authMsg = [s \in SessionIds |-> NoAuth]
    /\ limit = InitLimit
    /\ maxActive = 0
    /\ maxQueued = 0
    /\ phase = "drain"
    /\ cursor = 1
    /\ stopping = FALSE
    /\ banned = {}

(* Network thread: a socket finished authentication; World::AddSession.    *)
(* The authentication itself (WorldSocket, not in src) refuses an account  *)
(* with an active ban.                                                     *)
AddSession(s) ==
    /\ s \notin born
    /\ Acct[s] \notin banned
    /\ born' = born \cup {s}
    /\ addSessQueue' = Append(addSessQueue, s)
    /\ UNCHANGED <<smap, queue, inQueue, closed, loading, authMsg, limit,
                   maxActive, maxQueued, phase, cursor>>

(* A client drops its connection at any time.                              *)
ClientDisconnect(s) ==
    /\ s \in ToSet(addSessQueue) \cup Listed(smap)
    /\ s \notin closed
    /\ closed' = closed \cup {s}
    /\ UNCHANGED <<addSessQueue, born, smap, queue, inQueue, loading, authMsg,
                   limit, maxActive, maxQueued, phase, cursor>>

(* Fault variant: the new session is queued only above the limit.         *)
MustQueueOffByOne(s, sessions) ==
    /\ AmountLimit > 0
    /\ sessions > AmountLimit
    /\ Sec[Acct[s]] = SEC_PLAYER

(* AddSession_'s test: a player waits when the other sessions, active and  *)
(* queued, already fill a positive limit.                                  *)
MustQueue(s, sessions) ==
    /\ AmountLimit > 0
    /\ sessions >= AmountLimit
    /\ Sec[Acct[s]] = SEC_PLAYER

(* World::AddQueuedSession: mark s in queue, append it, and send it the    *)
(* wait-queue auth response with its position (GetQueuedSessionPos).       *)
AddQueuedSession(s, q, iq, am) ==
    LET q2 == Append(q, s)
    IN  [queue |-> q2, inQueue |-> iq \cup {s},
         authMsg |-> [am EXCEPT ![s] = QueuedSessionPos(q2, s)]]

(***************************************************************************)
(* World::AddSession_ for the head of addSessQueue.  RemoveSession on the   *)
(* account first: an old session still loading its player makes the new   *)
(* one be kicked and deleted; otherwise the old one is kicked, taken off    *)
(* the queue (which may promote the head) and deleted, and the new one is   *)
(* queued or admitted against the limit.                                   *)
(***************************************************************************)
AddSession_ ==
    /\ phase = "drain"
    /\ addSessQueue # <<>>
    /\ LET s   == Head(addSessQueue)
           a   == Acct[s]
           old == smap[a]
       IN /\ addSessQueue' = Tail(addSessQueue)
          /\ IF old # NoSession /\ old \in loading
             THEN /\ closed' = closed \cup {s}
                  /\ UNCHANGED <<smap, queue, inQueue, loading, authMsg,
                                 maxActive, maxQueued>>
             ELSE LET r == IF old # NoSession
                           THEN RemoveQueuedSession(old, queue, inQueue, authMsg)
                           ELSE [queue |-> queue, found |-> FALSE,
                                 inQueue |-> inQueue, authMsg |-> authMsg]
                      m == [smap EXCEPT ![a] = s]
                      sessions == Cardinality(Listed(m)) - (IF r.found THEN 0 ELSE 1)
                      queueIt  == MustQueue(s, sessions)
                      aq == IF queueIt
                            THEN AddQueuedSession(s, r.queue, r.inQueue, r.authMsg)
                            ELSE [queue |-> r.queue, inQueue |-> r.inQueue,
                                  authMsg |-> [r.authMsg EXCEPT ![s] = AuthOk]]
                      q == aq.queue
                  IN /\ smap' = m
                     /\ queue' = q
                     /\ inQueue' = aq.inQueue
                     /\ authMsg' = aq.authMsg
                     /\ closed' = IF old # NoSession THEN closed \cup {old} ELSE closed
                     /\ loading' = loading \ {old}
                     /\ MaxCounters(m, q)
    /\ UNCHANGED <<born, limit, phase, cursor>>

(* The drain loop ends when it finds addSessQueue empty.                   *)
DrainDone ==
    /\ phase = "drain"
    /\ addSessQueue = <<>>
    /\ phase' = "update"
    /\ cursor' = 1
    /\ UNCHANGED <<addSessQueue, born, smap, queue, inQueue, closed, loading,
                   authMsg, limit, maxActive, maxQueued>>

(* A session whose Update reports it dead (its socket closed) is taken off *)
(* the queue, erased from m_sessions and deleted.                          *)
RemoveDeadSessionNoDequeue(a) ==
    /\ smap' = [smap EXCEPT ![a] = NoSession]
    /\ loading' = loading \ {smap[a]}
    /\ UNCHANGED <<queue, inQueue, authMsg>>

RemoveDeadSession(a) ==
    LET r == RemoveQueuedSession(smap[a], queue, inQueue, authMsg) IN
    /\ queue' = r.queue
    /\ inQueue' = r.inQueue
    /\ authMsg' = r.authMsg
    /\ smap' = [smap EXCEPT ![a] = NoSession]
    /\ loading' = loading \ {smap[a]}

(* A live session's Update may begin or end loading a player (a queued     *)
(* client cannot log a character in).                                      *)
UpdateLiveSession(a) ==
    /\ \E login \in BOOLEAN :
          loading' = IF login /\ smap[a] \notin ToSet(queue)
                     THEN loading \cup {smap[a]} ELSE loading \ {smap[a]}
    /\ UNCHANGED <<smap, queue, inQueue, authMsg>>

(* Fault variant: the loop iterator is advanced twice per iteration.       *)
UpdateSessionDoubleStep ==
    /\ phase = "update"
    /\ cursor \in Accounts
    /\ cursor' = cursor + 2
    /\ \/ smap[cursor] = NoSession /\ UNCHANGED <<smap, queue, inQueue, loading, authMsg>>
       \/ smap[cursor] \in closed /\ RemoveDeadSession(cursor)
       \/ smap[cursor] \in SessionIds \ closed /\ UpdateLiveSession(cursor)
    /\ UNCHANGED <<addSessQueue, born, closed, limit, maxActive, maxQueued, phase>>

(* One iteration of the UpdateSessions loop, at account `cursor`.          *)
UpdateSession ==
    /\ phase = "update"
    /\ cursor \in Accounts
    /\ cursor' = cursor + 1
    /\ \/ smap[cursor] = NoSession /\ UNCHANGED <<smap, queue, inQueue, loading, authMsg>>
       \/ smap[cursor] \in closed /\ RemoveDeadSession(cursor)
       \/ smap[cursor] \in SessionIds \ closed /\ UpdateLiveSession(cursor)
    /\ UNCHANGED <<addSessQueue, born, closed, limit, maxActive, maxQueued, phase>>

(* The update pass ends; after the last UpdateSessions of a stop the world *)
(* thread returns instead of going on to the CLI commands.                 *)
UpdateDone ==
    /\ phase = "update"
    /\ cursor = NAccounts + 1
    /\ phase' = IF stopping THEN "halted" ELSE "cli"
    /\ UNCHANGED <<addSessQueue, born, smap, queue, inQueue, closed, loading,
                   authMsg, limit, maxActive, maxQueued, cursor>>

(* World::RemoveSession from a kick command: refused while loading.        *)
RemoveSession(a) ==
    /\ phase = "cli"
    /\ smap[a] # NoSession
    /\ smap[a] \notin loading
    /\ closed' = closed \cup {smap[a]}
    /\ UNCHANGED <<addSessQueue, born, smap, queue, inQueue, loading, authMsg,
                   limit, maxActive, maxQueued, phase, cursor>>

(* World::KickAllLess: kick every listed session below level `sec`.        *)
KickAllLess(sec) ==
    /\ phase = "cli"
    /\ closed' = closed \cup {s \in Listed(smap) : Sec[Acct[s]] < sec}
    /\ UNCHANGED <<addSessQueue, born, smap, queue, inQueue, loading, authMsg,
                   limit, maxActive, maxQueued, phase, cursor>>

(* World::SetPlayerLimit: clamped below at -SEC_ADMINISTRATOR.             *)
SetPlayerLimit(l) ==
    /\ phase = "cli"
    /\ limit' = IF l < -SEC_ADMINISTRATOR THEN -SEC_ADMINISTRATOR ELSE l
    /\ UNCHANGED <<addSessQueue, born, smap, queue, inQueue, closed, loading,
                   authMsg, maxActive, maxQueued, phase, cursor>>

(***************************************************************************)
(* World::BanAccount whose SELECT returned the accounts `accts`: a ban row *)
(* per account, then FindSession(account) and KickPlayer unless the        *)
(* session's player is the ban's author.  FindSession looks in m_sessions   *)
(* only.  An empty result (BAN_NOTFOUND) changes nothing.                   *)
(***************************************************************************)
BanAccount(accts) ==
    /\ phase = "cli"
    /\ banned' = banned \cup accts
    /\ closed' = closed \cup {smap[a] : a \in {b \in accts \ {BanAuthor} :
                                                smap[b] # NoSession}}
    /\ UNCHANGED <<addSessQueue, born, smap, queue, inQueue, loading, authMsg,
                   limit, maxActive, maxQueued, phase, cursor>>

(* World::RemoveBanAccount for an account that exists: the ban row is set  *)
(* inactive; sessions are not touched.                                     *)
RemoveBanAccount(a) ==
    /\ phase = "cli"
    /\ a \in banned
    /\ banned' = banned \ {a}
    /\ UNCHANGED <<addSessQueue, born, smap, queue, inQueue, closed, loading,
                   authMsg, limit, maxActive, maxQueued, phase, cursor>>

(* ProcessCliCommands has drained the command queue; the next tick begins. *)
CliDone ==
    /\ phase = "cli"
    /\ phase' = "drain"
    /\ UNCHANGED <<addSessQueue, born, smap, queue, inQueue, closed, loading,
                   authMsg, limit, maxActive, maxQueued, cursor>>

(***************************************************************************)
(* The world loop has seen the stop event after an Update: CleanupsBefore-  *)
(* Stop calls KickAll, which clears m_QueuedSessions (without SetInQueue    *)
(* (false)) and kicks every session of m_sessions, then UpdateSessions(1),  *)
(* a drain and an update pass that delete the kicked sessions.  The stop  *)
(* event belongs to the shutdown controller: WorldCore takes this step     *)
(* when m_stopEvent is set, and the steps below never set stopping.        *)
(***************************************************************************)
KickAll ==
    /\ phase = "cli"
    /\ queue' = <<>>
    /\ closed' = closed \cup Listed(smap)
    /\ stopping' = TRUE
    /\ phase' = "drain"
    /\ UNCHANGED <<addSessQueue, born, smap, inQueue, loading, authMsg, limit,
                   maxActive, maxQueued, cursor, banned>>

(* The world thread has returned; the network thread may still hand off    *)
(* sessions that nobody drains.                                            *)
Halted ==
    /\ phase = "halted"
    /\ UNCHANGED vars

SessionStep ==
    \/ \E s \in SessionIds : AddSession(s)
    \/ \E s \in SessionIds : ClientDisconnect(s)
    \/ AddSession_
    \/ DrainDone
    \/ UpdateSession
    \/ UpdateDone
    \/ \E a \in Accounts : RemoveSession(a)
    \/ \E sec \in KickLevels : KickAllLess(sec)
    \/ \E l \in LimitChoices : SetPlayerLimit(l)
    \/ CliDone

Next ==
    \/ SessionStep /\ UNCHANGED <<stopping, banned>>
    \/ \E accts \in BanResults : BanAccount(accts) /\ UNCHANGED stopping
    \/ \E a \in Accounts : RemoveBanAccount(a) /\ UNCHANGED stopping

(* The world thread runs its loop without end: its drain and update steps *)
(* are weakly fair.  Clients, the network thread and operators need not act. *)
WorldThread ==
    /\ AddSession_ \/ DrainDone \/ UpdateSession \/ UpdateDone
    /\ UNCHANGED <<stopping, banned>>

Spec == Init /\ [][Next]_vars /\ WF_vars(WorldThread)

-----------------------------------------------------------------------------
TypeOK ==
    /\ addSessQueue \in Seq(SessionIds)
    /\ born \subseteq SessionIds
    /\ smap \in [Accounts -> SessionIds \cup {NoSession}]
    /\ queue \in Seq(SessionIds)
    /\ inQueue \subseteq SessionIds
    /\ closed \subseteq SessionIds
    /\ loading \subseteq SessionIds
    /\ authMsg \in [SessionIds -> {NoAuth, AuthOk} \cup (0..Cardinality(SessionIds))]
    /\ limit \in Int
    /\ maxActive \in Nat /\ maxQueued \in Nat
    /\ phase \in {"drain", "update", "cli", "halted"}
    /\ stopping \in BOOLEAN
    /\ cursor \in 1..NAccounts + 1
    /\ banned \subseteq Accounts

(* The wait-queue never holds a deleted or replaced session, nor one twice, *)
(* and its members carry the in-queue flag: AddSession_ and UpdateSessions *)
(* must both call RemoveQueuedSession before they delete.  A listed        *)
(* session off the queue may keep the flag only once it is kicked: KickAll *)
(* clears the queue without SetInQueue(false), and RemoveQueuedSession     *)
(* resets the flag only of a session it finds in the queue.                *)
QueueConsistent ==
    /\ IsInjective(queue)
    /\ ToSet(queue) \subseteq Listed(smap) \cap inQueue
    /\ (inQueue \cap Listed(smap)) \ ToSet(queue) \subseteq closed

(* Every listed session was last told its true state: a queued session its *)
(* current 1-based position, an active one AUTH_OK or position 0 (spec §8: *)
(* reported positions equal the index in the wait-queue).  A kicked        *)
(* session is told nothing more: KickAll leaves its last position.         *)
AuthStateReported ==
    /\ \A i \in 1..Len(queue) : authMsg[queue[i]] = i
    /\ \A s \in Active \ closed : authMsg[s] \in {AuthOk, 0}

(* A player (SEC_PLAYER) is only made active, admitted by AddSession_ or    *)
(* promoted by RemoveQueuedSession, when the number of active players then *)
(* stays within a positive player limit (higher levels bypass the limit). *)
(* The queued sessions KickAll kicks drop out of the queue, not in.        *)
ActivePlayers == {s \in Active : Sec[Acct[s]] = SEC_PLAYER}

AdmissionRespectsLimit ==
    [][\A s \in SessionIds :
         (/\ s \notin Active /\ s \in Active' /\ s \notin closed'
          /\ Sec[Acct[s]] = SEC_PLAYER
          /\ AmountLimit > 0)
         => Cardinality(ActivePlayers') <= AmountLimit]_vars

(* The recorded peaks (written to the uptime table) are never below the    *)
(* current active and queued counts.                                       *)
PeaksCoverCurrent ==
    /\ maxActive >= Cardinality(Active)
    /\ maxQueued >= Len(queue)

(* Nobody waits in the queue while a slot is free under the limit.         *)
QueueOnlyWhenFull ==
    queue # <<>> => AmountLimit > 0 /\ Cardinality(Active) >= AmountLimit

(* FIFO (spec §4.1): a player is never admitted straight past players that *)
(* are still waiting in the queue.                                         *)
NoQueueJumping ==
    [][\A s \in SessionIds :
         (/\ s \notin Listed(smap) /\ s \in Active' /\ Sec[Acct[s]] = SEC_PLAYER)
         => queue' = <<>>]_vars

(* A ban disconnects every affected player (the comment in BanAccount):    *)
(* once an account is banned, none of its sessions stays listed with an    *)
(* open socket, unless its player is the ban's author.                     *)
BannedKicked ==
    \A a \in banned \ {BanAuthor} : smap[a] = NoSession \/ smap[a] \in closed

-----------------------------------------------------------------------------
(***************************************************************************)
(* Refinement.  Under a player limit that the operator leaves alone, the    *)
(* directory implements AdmissionQueue: its active set is the listed        *)
(* sessions off the wait-queue, its queue is m_QueuedSessions, privileged   *)
(* sessions are those of accounts above SEC_PLAYER, and its capacity is    *)
(* GetPlayerAmountLimit of the start-up limit.  A deletion in the update   *)
(* pass is a Leave, a drain of a new account an Admit, a drain that        *)
(* replaces a session of the same account a Reconnect; kicks, client      *)
(* disconnects and the network thread's hand-off leave both sets alone.    *)
(***************************************************************************)
AQ == INSTANCE AdmissionQueue
        WITH Sessions   <- SessionIds,
             Privileged <- {s \in SessionIds : Sec[Acct[s]] > SEC_PLAYER},
             Cap        <- IF InitLimit >= 0 THEN InitLimit ELSE 0,
             active     <- Active,
             waiting    <- queue

(* The code's admission, promotion and replacement steps are those of the  *)
(* abstract FIFO admission controller (spec §4.1).                         *)
AdmissionQueueRefined == AQ!Spec

=============================================================================
