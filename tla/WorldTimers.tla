---------------------------- MODULE WorldTimers ----------------------------
(***************************************************************************)
(* The periodic tasks of World::Update and the IntervalTimer set behind    *)
(* them (m_timers[WUPDATE_*]).  Each update advances every timer by diff,  *)
(* then each task whose timer has passed resets it and runs: auctions      *)
(* (with the mail-return counter mail_timer), the AH bot, the uptime row,  *)
(* old-character deletion, corpses, game events (whose period is the time  *)
(* to the next event) and, while the config says AutoBroadcast.On = 1, the *)
(* auto-broadcast, which follows the `next` chain of the autobroadcast     *)
(* table from a static nextid.  The tasks' external effects are left out   *)
(* except mail returns and broadcasts, which the properties are about.    *)
(*                                                                         *)
(* IntervalTimer lives outside this repository; it is taken as the spec    *)
(* describes it (§3): a counter decreased by the elapsed time, passed at   *)
(* zero or below, and reset to the period.  Whether a fresh timer starts   *)
(* passed or armed is left open (InitArmed).                                *)
(***************************************************************************)
EXTENDS Integers, FiniteSets

CONSTANTS
    Diffs,          \* diff (ms) of one World::Update
    InitTimes,      \* local time of day (ms) at SetInitialWorldSettings
    UptimeMinutes,  \* values of the UpdateUptimeInterval config (minutes)
    AutoBroadcastMs,\* the AutoBroadcast.Timer config (ms), read once
    EventDelays,    \* values GameEventMgr returns for the next event (ms)
    ABTable,        \* autobroadcast table: id -> value of its `next` column
    ABCenter,       \* the AutoBroadcast.Center config
    InitArmed       \* TRUE: fresh timers start at their period; FALSE: at 0

MINUTE_MS == 60 * 1000
HOUR_MS == 60 * MINUTE_MS
DAY_MS == 24 * HOUR_MS

(* Periods set by SetInitialWorldSettings that the code fixes.              *)
FixedInterval ==
    [auctions |-> MINUTE_MS, corpses |-> 20 * MINUTE_MS,
     deletechars |-> DAY_MS, ahbot |-> 20 * 1000]

Tasks == {"auctions", "ahbot", "uptime", "deletechars", "corpses", "events",
          "autobroadcast"}

ASSUME /\ ABTable \in [DOMAIN ABTable -> 0..300] /\ 0 \notin DOMAIN ABTable
       /\ \A d \in Diffs : d > 0

VARIABLES
    period,     \* IntervalTimer interval, per task
    current,    \* IntervalTimer counter, per task
    tod,        \* local time of day (ms)
    mailTimer,  \* World::mail_timer
    abOn,       \* the AutoBroadcast.On config as last read
    nextid,     \* the static nextid of World::SendBroadcast
    sent,       \* the auto-broadcast text sent by the last update, or 0
    mailReturned \* the last update called ReturnOrDeleteOldMails

vars == <<period, current, tod, mailTimer, abOn, nextid, sent, mailReturned>>

(* mail_timer_expires: updates of the auction timer in a day.               *)
MailTimerExpires == DAY_MS \div FixedInterval.auctions

(* Fault variant: the timers' advance without the clamp: an overdue       *)
(* counter keeps falling.                                                  *)
AdvanceNoClamp(c, diff) == c - diff

(* The timer loop at the top of World::Update: a counter still at or above *)
(* zero is advanced by diff, a negative one is set back to 0.              *)
Advance(c, diff) == IF c >= 0 THEN c - diff ELSE 0

(* Fault variant: the chain is followed from nextid even when it is 0.     *)
SendBroadcastNoRandom(id) ==
    IF id \in DOMAIN ABTable THEN {id} ELSE {}

(* The rows World::SendBroadcast may read: row nextid when it is set, any  *)
(* row (ORDER BY RAND() LIMIT 1) when it is 0; none when there is no such  *)
(* row, and the call returns without sending.                              *)
SendBroadcastRows(id) ==
    IF id # 0
    THEN IF id \in DOMAIN ABTable THEN {id} ELSE {}
    ELSE DOMAIN ABTable

(* The text SendBroadcast sends from row r: abcenter 0 (world text), 1     *)
(* (notification) or 2 (both) send it; any other value sends nothing,      *)
(* though nextid has already moved on.                                      *)
BroadcastSent(r) == IF ABCenter \in {0, 1, 2} THEN r ELSE 0

Init ==
    /\ \E up \in UptimeMinutes, ev \in EventDelays :
          period = [t \in Tasks |->
                      CASE t = "uptime" -> up * MINUTE_MS
                        [] t = "events" -> ev
                        [] t = "autobroadcast" -> AutoBroadcastMs
                        [] OTHER -> FixedInterval[t]]
    /\ current = [t \in Tasks |-> IF InitArmed THEN period[t] ELSE 0]
    /\ tod \in InitTimes
    /\ mailTimer = ((((tod \div HOUR_MS) + 20) % 24) * HOUR_MS)
                     \div FixedInterval.auctions
    /\ abOn \in {0, 1}
    /\ nextid = 0
    /\ sent = 0
    /\ mailReturned = FALSE

-----------------------------------------------------------------------------
(***************************************************************************)
(* The timer part of one World::Update(diff): advance the timers, then run *)
(* the passed tasks in the code's order.  A passed task resets its timer   *)
(* to the period; the events task first takes the time to the next event  *)
(* as its new period; the auto-broadcast task runs only while the config   *)
(* has it on, and an overdue timer of a task that did not run stays        *)
(* passed.                                                                 *)
(***************************************************************************)
Update ==
    \E diff \in Diffs, ev \in EventDelays :
        LET c   == [t \in Tasks |-> Advance(current[t], diff)]
            due == {t \in Tasks : c[t] <= 0}
            abRun == "autobroadcast" \in due /\ abOn = 1
            fired == (due \ {"autobroadcast"}) \cup
                     (IF abRun THEN {"autobroadcast"} ELSE {})
            p   == IF "events" \in due THEN [period EXCEPT !.events = ev]
                   ELSE period
            mt  == IF "auctions" \in due THEN mailTimer + 1 ELSE mailTimer
            ret == "auctions" \in due /\ mt > MailTimerExpires
            rows == IF abRun THEN SendBroadcastRows(nextid) ELSE {}
        IN  /\ period' = p
            /\ current' = [t \in Tasks |-> IF t \in fired THEN p[t] ELSE c[t]]
            /\ tod' = (tod + diff) % DAY_MS
            /\ mailTimer' = IF ret THEN 0 ELSE mt
            /\ mailReturned' = ret
            /\ IF rows = {}
               THEN UNCHANGED nextid /\ sent' = 0
               ELSE \E r \in rows :
                       /\ nextid' = ABTable[r] % 256
                       /\ sent' = BroadcastSent(r)
            /\ UNCHANGED abOn

(* A config reload (LoadConfigSettings(true)): AutoBroadcast.On is read     *)
(* again by the next update, and the uptime timer takes the new interval   *)
(* and is reset.                                                            *)
ReloadConfig ==
    \E on \in {0, 1}, up \in UptimeMinutes :
        /\ abOn' = on
        /\ period' = [period EXCEPT !.uptime = up * MINUTE_MS]
        /\ current' = [current EXCEPT !.uptime = up * MINUTE_MS]
        /\ sent' = 0
        /\ mailReturned' = FALSE
        /\ UNCHANGED <<tod, mailTimer, nextid>>

Next == Update \/ ReloadConfig

(* The world thread runs World::Update without end; reloads need not come. *)
Spec == Init /\ [][Next]_vars /\ WF_vars(Update)

-----------------------------------------------------------------------------
MaxDiff == CHOOSE d \in Diffs : \A e \in Diffs : e <= d

(* The clamp keeps every counter within one diff below zero, so a timer    *)
(* whose task did not run (auto-broadcast switched off) does not build up  *)
(* overdue time.                                                           *)
TypeOK ==
    /\ period \in [Tasks -> Nat]
    /\ \A t \in Tasks : current[t] \in -MaxDiff..period[t]
    /\ tod \in 0..(DAY_MS - 1)
    /\ mailTimer \in 0..MailTimerExpires
    /\ abOn \in {0, 1}
    /\ nextid \in 0..255
    /\ sent \in {0} \cup DOMAIN ABTable
    /\ mailReturned \in BOOLEAN

(* Once AutoBroadcast.On stays 1, broadcasts keep coming: SendBroadcast    *)
(* always finds a row, from the chain or at random.                        *)
AutoBroadcastContinues ==
    <>[](abOn = 1) => []<>(sent # 0)

(* Old mail is returned between 4 and 5 am, as the comment on mail_timer   *)
(* in SetInitialWorldSettings says.                                        *)
MailReturnInWindow ==
    mailReturned => tod \in (4 * HOUR_MS)..(5 * HOUR_MS - 1)

=============================================================================
