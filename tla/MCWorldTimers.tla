--------------------------- MODULE MCWorldTimers ---------------------------
EXTENDS WorldTimers

(* One autobroadcast chain 1 -> 2 -> 0 (back to a random row) and a row    *)
(* that ends its own chain.                                                *)
MCABTable == [i \in {1, 2, 3} |-> IF i = 1 THEN 2 ELSE 0]

(* A row whose `next` names a row that is not there (deleted, or above 255 *)
(* so that GetUInt8 truncates it: 300 % 256 = 44).                          *)
MCABDangling == [i \in {1, 2} |-> IF i = 1 THEN 300 ELSE 0]

MCInitTimes == {0, 5 * HOUR_MS}
MCMailInitTimes == {4 * HOUR_MS + 59 * MINUTE_MS}
MCDiffs == {20 * MINUTE_MS, HOUR_MS}
MCMinuteDiffs == {MINUTE_MS}
MCEventDelays == {2 * HOUR_MS}
MCABMs == 2 * HOUR_MS

(* The time of day and mail_timer never influence the timers, the config   *)
(* or the broadcasts, so a run whose properties are about those identifies *)
(* states that differ only in them.                                         *)
TimersView == <<period, current, abOn, nextid, sent>>
(* The mail return depends only on the clock, mail_timer and the auctions  *)
(* timer; nothing else in World::Update writes them.                        *)
MailView == <<tod, mailTimer, mailReturned, current["auctions"]>>
=============================================================================
