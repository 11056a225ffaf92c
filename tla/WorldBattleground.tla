------------------------- MODULE WorldBattleground -------------------------
(***************************************************************************)
(* The battleground opening windows of World.cpp.  Two windows a day, kept *)
(* in memory as battleground_time_Start1/End1/Start2/End2 and in the       *)
(* characters_battleground rows 1 and 3 (flag, start, end).  Every         *)
(* World::Update steps battleground_kaiguan 0 -> 1 -> 2 -> 3 -> 0 through  *)
(* four consecutive tests against the game time (window 1 opens, closes,   *)
(* window 2 opens, everything is cleared), so one update may take several  *)
(* steps.  SetHuoLib installs a new day's times in memory and in the rows, *)
(* SetHuoLia rewrites the rows only, and a new process reads the times     *)
(* back with GetBattleGroundTime.                                           *)
(***************************************************************************)
EXTENDS Integers, FiniteSets

CONSTANTS
    Bases,          \* values of next_reset - 86400 (game-time seconds)
    Offsets,        \* [normal |-> <<s1,e1,s2,e2>>, xp |-> ...] config offsets
    InitRows,       \* contents of rows 1 and 3 when the first process starts
    NoRow,          \* a missing characters_battleground row
    TimeSteps,      \* game-time seconds between two updates
    Horizon,        \* game time after which no test changes any more
    MaxReschedules, \* bound on SetHuoLib/SetHuoLia calls
    MaxRestarts     \* bound on process restarts

Ids == {1, 3}
Row(flag, start, end) == [flag |-> flag, start |-> start, end |-> end]

ASSUME /\ \A b \in Bases, k \in DOMAIN Offsets, i \in 1..4 :
              b + Offsets[k][i] <= Horizon
       /\ \A d \in TimeSteps : d > 0

VARIABLES
    now,        \* GetGameTime(), capped at Horizon
    kaiguan,    \* World::battleground_kaiguan
    bgTime,     \* <<Start1, End1, Start2, End2>> in memory
    rows,       \* characters_battleground rows 1 and 3 (or NoRow)
    reschedules, restarts

vars == <<now, kaiguan, bgTime, rows, reschedules, restarts>>

MinOf(x, y) == IF x <= y THEN x ELSE y

(* An UPDATE ... WHERE id = i leaves a missing row missing.                *)
SetRow(rs, i, r) == IF rs[i] = NoRow THEN rs ELSE [rs EXCEPT ![i] = r]
SetFlag(rs, i, f) ==
    IF rs[i] = NoRow THEN rs ELSE [rs EXCEPT ![i].flag = f]

(* World::GetBattleGroundTime(id, 2 or 3): start or end of the row, 0 when *)
(* the row is missing.                                                      *)
GetBattleGroundTime(rs, i, field) ==
    IF rs[i] = NoRow THEN 0 ELSE rs[i][field]

RowTimes(rs) ==
    << GetBattleGroundTime(rs, 1, "start"), GetBattleGroundTime(rs, 1, "end"),
       GetBattleGroundTime(rs, 3, "start"), GetBattleGroundTime(rs, 3, "end") >>

(* One window test of World::Update on st = [k, tm, rows] at game time t:  *)
(* time i is set and reached in state from: go to state to and set the     *)
(* flag of row id.                                                          *)
WindowStep(st, t, i, from, to, id, flag) ==
    IF st.tm[i] # 0 /\ st.k = from /\ st.tm[i] <= t
    THEN [st EXCEPT !.k = to, !.rows = SetFlag(st.rows, id, flag)]
    ELSE st

(* Fault variant: the last step clears the times but not kaiguan.          *)
CycleEndNoReset(st, t) ==
    IF st.tm[4] # 0 /\ st.k = 3 /\ st.tm[4] <= t
    THEN [st EXCEPT !.tm = <<0, 0, 0, 0>>,
                    !.rows = SetRow(SetRow(st.rows, 1, Row(1, 1, 1)), 3, Row(1, 1, 1))]
    ELSE st

(* The last test: window 2 is over; both rows are set to (1, 1, 1), the    *)
(* times are cleared and kaiguan returns to 0.                              *)
CycleEnd(st, t) ==
    IF st.tm[4] # 0 /\ st.k = 3 /\ st.tm[4] <= t
    THEN [k |-> 0, tm |-> <<0, 0, 0, 0>>,
          rows |-> SetRow(SetRow(st.rows, 1, Row(1, 1, 1)), 3, Row(1, 1, 1))]
    ELSE st

(* Fault variant: next_reset used without going back the day (86400 s).  *)
ScheduleNoDayBack(base, kind) == [i \in 1..4 |-> base + 86400 + Offsets[kind][i]]

(* The times SetHuoLia/SetHuoLib compute from the base and the offsets of  *)
(* the day kind (the two days after maintenance use the xp offsets).       *)
Schedule(base, kind) == [i \in 1..4 |-> base + Offsets[kind][i]]

Init ==
    /\ now = 0
    /\ kaiguan = 0
    /\ rows \in InitRows
    /\ bgTime = RowTimes(rows)
    /\ reschedules = 0
    /\ restarts = 0

-----------------------------------------------------------------------------
(* World::Update: _UpdateGameTime moves the game time, then the four       *)
(* window tests run one after the other on the new time.                   *)
Update ==
    \E d \in TimeSteps :
        LET t  == MinOf(now + d, Horizon)
            s0 == [k |-> kaiguan, tm |-> bgTime, rows |-> rows]
            s1 == WindowStep(s0, t, 1, 0, 1, 1, 1)
            s2 == WindowStep(s1, t, 2, 1, 2, 1, 0)
            s3 == WindowStep(s2, t, 3, 2, 3, 3, 1)
            s4 == CycleEnd(s3, t)
        IN  /\ now' = t
            /\ kaiguan' = s4.k
            /\ bgTime' = s4.tm
            /\ rows' = s4.rows
            /\ UNCHANGED <<reschedules, restarts>>

(* World::SetHuoLib(next_reset): save the players, write the new times to  *)
(* both rows with the flag cleared, and install them in memory; kaiguan is *)
(* left as it is.                                                          *)
SetHuoLib ==
    /\ reschedules < MaxReschedules
    /\ reschedules' = reschedules + 1
    /\ \E base \in Bases, kind \in DOMAIN Offsets :
          LET tm == Schedule(base, kind) IN
          /\ rows' = SetRow(SetRow(rows, 1, Row(0, tm[1], tm[2])),
                            3, Row(0, tm[3], tm[4]))
          /\ bgTime' = tm
    /\ UNCHANGED <<now, kaiguan, restarts>>

(* World::SetHuoLia(t, ...): when t is outside [now, nextWeek] it is moved *)
(* to the next period and the rows are rewritten; memory is not touched.   *)
SetHuoLia ==
    /\ reschedules < MaxReschedules
    /\ reschedules' = reschedules + 1
    /\ \E base \in Bases, kind \in DOMAIN Offsets :
          LET tm == Schedule(base, kind) IN
          rows' = SetRow(SetRow(rows, 1, Row(0, tm[1], tm[2])),
                         3, Row(0, tm[3], tm[4]))
    /\ UNCHANGED <<now, kaiguan, bgTime, restarts>>

(* A new process: SetInitialWorldSettings resets kaiguan and reads the     *)
(* four times back from the rows.                                           *)
Restart ==
    /\ restarts < MaxRestarts
    /\ restarts' = restarts + 1
    /\ kaiguan' = 0
    /\ bgTime' = RowTimes(rows)
    /\ UNCHANGED <<now, rows, reschedules>>

Next == Update \/ SetHuoLib \/ SetHuoLia \/ Restart

(* World::Update runs without end; rescheduling and restarts need not come.*)
Spec == Init /\ [][Next]_vars /\ WF_vars(Update)

-----------------------------------------------------------------------------
TypeOK ==
    /\ now \in 0..Horizon
    /\ kaiguan \in 0..3
    /\ bgTime \in [1..4 -> 0..Horizon]
    /\ \A i \in Ids : rows[i] = NoRow \/
          rows[i] \in [flag : {0, 1}, start : 0..Horizon, end : 0..Horizon]
    /\ reschedules \in 0..MaxReschedules /\ restarts \in 0..MaxRestarts

(* A battleground window that has opened is closed again: kaiguan leaves   *)
(* 1 (window 1 open) and 3 (window 2 open) whatever the rescheduling and   *)
(* restarts in between.                                                    *)
WindowsClose ==
    \A w \in {1, 3} : (kaiguan = w) ~> (kaiguan # w)

=============================================================================
