-------------------------- MODULE WorldMaintenance --------------------------
(***************************************************************************)
(* The weekly maintenance restart of World.cpp, composed with the shutdown *)
(* controller.  At start-up InitServerMaintenanceCheck reads the stored    *)
(* NextMaintenanceDate (saved_variables), and ServerMaintenanceStart moves *)
(* it a week ahead when it is due.  Every World::Update, once the day has  *)
(* reached m_NextMaintenanceDate, the check counts m_MaintenanceTimeChecker*)
(* down by diff and calls ShutdownServ(30, SHUTDOWN_MASK_RESTART, 2)        *)
(* whenever it runs out, then re-arms it with 600000 ms.  The process      *)
(* exits once m_stopEvent is set; a service manager starts it again when   *)
(* the exit code is the restart code, and the stored date survives that.   *)
(*                                                                         *)
(* One World::Update is split into the steps that touch this state, in the *)
(* code's order: the timers and _UpdateGameTime ("time"), UpdateSessions   *)
(* ("sessions"), the maintenance check ("maint") and ProcessCliCommands    *)
(* ("cli").  Days are counted by GetDateToday(); a day rolls over between  *)
(* two steps.                                                              *)
(***************************************************************************)
EXTENDS Integers, FiniteSets

CONSTANTS
    Delays, Masks, ExitCodes, ClockDeltas, ClockModulus, MaxSessions,
    MaxRequests,        \* the parameters of WorldShutdown
    MaintenanceDay,     \* weekday offset used by GetDateLastMaintenanceDay
    FirstDay,           \* GetDateToday() when the first process starts
    MaxDay,             \* last day the model follows
    StoredDates,        \* NextMaintenanceDate rows the database may hold
    NoDate,             \* no saved_variables row
    InitChecker,        \* config Maintenance.TimeChecker (ms)
    MaxRestarts,        \* bound on process restarts
    MaxCancels          \* bound on operator cancel commands

VARIABLES
    stopEvent, shutdownTimer, shutdownMask, exitCode, sessionCount, msg,
    requests, requestDelay, realSince,  \* the shutdown controller
    today,          \* GetDateToday()
    nextMaintDate,  \* World::m_NextMaintenanceDate
    storedDate,     \* saved_variables.NextMaintenanceDate (persistent)
    checker,        \* World::m_MaintenanceTimeChecker (ms)
    diff,           \* the diff (ms) of the World::Update in progress
    phase,          \* step of World::Update in progress, or "exited"
    startDay,       \* history: the day the running process started
    restarts,       \* process restarts so far
    cancels         \* operator cancel commands so far

SD == INSTANCE WorldShutdown

RESTART_EXIT_CODE == 2
RECHECK_MS == 600000    \* the checker is re-armed with 10 minutes

sdVars == <<stopEvent, shutdownTimer, shutdownMask, exitCode, sessionCount,
            msg, requests, requestDelay, realSince>>
vars == <<sdVars, today, nextMaintDate, storedDate, checker, diff, phase,
          startDay, restarts, cancels>>

ASSUME /\ RESTART_EXIT_CODE \in ExitCodes
       /\ FirstDay \in Nat /\ MaxDay >= FirstDay
       /\ NoDate \notin Nat /\ StoredDates \subseteq Nat

(* GetDateLastMaintenanceDay(): the latest maintenance weekday not after   *)
(* day t.                                                                  *)
LastMaintenanceDay(t) == t - ((t + MaintenanceDay) % 7)

(* World::ServerMaintenanceStart: the next date is a week after the last   *)
(* maintenance day, and a further week if that is not in the future.       *)
ServerMaintenanceStart(t) ==
    LET next == LastMaintenanceDay(t) + 7
    IN  IF next <= t THEN next + 7 ELSE next

(* Fault variant: the stored date is taken as it is, even when it is due.  *)
InitServerMaintenanceCheckNoAdvance(t, stored) ==
    IF stored = NoDate
    THEN IF LastMaintenanceDay(t) = t THEN t ELSE LastMaintenanceDay(t) + 7
    ELSE stored

(* World::InitServerMaintenanceCheck on day t with the stored row: the     *)
(* date found (or, without a row, this week's maintenance day), moved on   *)
(* by ServerMaintenanceStart when it is due.  Both branches write the row. *)
InitServerMaintenanceCheck(t, stored) ==
    LET found == IF stored = NoDate
                 THEN IF LastMaintenanceDay(t) = t
                      THEN t ELSE LastMaintenanceDay(t) + 7
                 ELSE stored
    IN  IF found <= t THEN ServerMaintenanceStart(t) ELSE found

(* A fresh process: World::World, SetInitialWorldSettings (checker from     *)
(* the config, then InitServerMaintenanceCheck).                           *)
StartProcess(t, stored) ==
    /\ stopEvent' = FALSE
    /\ shutdownTimer' = 0
    /\ shutdownMask' = {}
    /\ exitCode' = SD!SHUTDOWN_EXIT_CODE
    /\ msg' = SD!NoMsg
    /\ requestDelay' = 0
    /\ realSince' = 0
    /\ nextMaintDate' = InitServerMaintenanceCheck(t, stored)
    /\ storedDate' = nextMaintDate'
    /\ checker' = InitChecker
    /\ diff' = 0
    /\ phase' = "time"
    /\ startDay' = t

Init ==
    /\ today = FirstDay
    /\ sessionCount \in 0..MaxSessions
    /\ requests = 0
    /\ restarts = 0
    /\ cancels = 0
    /\ \E stored \in StoredDates \cup {NoDate} :
          /\ stopEvent = FALSE /\ shutdownTimer = 0 /\ shutdownMask = {}
          /\ exitCode = SD!SHUTDOWN_EXIT_CODE /\ msg = SD!NoMsg
          /\ requestDelay = 0 /\ realSince = 0
          /\ nextMaintDate = InitServerMaintenanceCheck(FirstDay, stored)
          /\ storedDate = nextMaintDate
          /\ checker = InitChecker /\ diff = 0
          /\ phase = "time" /\ startDay = FirstDay

-----------------------------------------------------------------------------
(* World::Update, timers and _UpdateGameTime: the wall clock moved d       *)
(* seconds, and diff is the same interval in milliseconds.                 *)
UpdateTime ==
    /\ phase = "time"
    /\ \E d \in ClockDeltas :
          /\ d > 0
          /\ SD!UpdateGameTime(d)
          /\ diff' = d * 1000
    /\ phase' = "sessions"
    /\ UNCHANGED <<today, nextMaintDate, storedDate, checker, startDay, restarts, cancels>>

(* UpdateSessions: clients may have come or gone by the end of it.         *)
UpdateSessions ==
    /\ phase = "sessions"
    /\ \/ \E n \in 0..MaxSessions : SD!SessionsChange(n)
       \/ UNCHANGED sdVars
    /\ phase' = "maint"
    /\ UNCHANGED <<today, nextMaintDate, storedDate, checker, diff, startDay,
                   restarts, cancels>>

(* Fault variant: the checker is tested for zero instead of against diff, *)
(* so the decrement runs past zero.                                       *)
MaintenanceCheckZeroTest ==
    /\ phase = "maint"
    /\ IF today >= nextMaintDate
       THEN IF checker = 0
            THEN /\ SD!ShutdownServ(30, {"restart"}, RESTART_EXIT_CODE)
                 /\ checker' = RECHECK_MS
                 /\ UNCHANGED requests
            ELSE /\ checker' = checker - diff
                 /\ UNCHANGED sdVars
       ELSE UNCHANGED <<sdVars, checker>>
    /\ phase' = "cli"
    /\ UNCHANGED <<today, nextMaintDate, storedDate, diff, startDay, restarts, cancels>>

(* Fault variant: the checker is not re-armed after the request.           *)
MaintenanceCheckNoRearm ==
    /\ phase = "maint"
    /\ IF today >= nextMaintDate
       THEN IF checker < diff
            THEN /\ SD!ShutdownServ(30, {"restart"}, RESTART_EXIT_CODE)
                 /\ UNCHANGED <<requests, checker>>
            ELSE /\ checker' = checker - diff
                 /\ UNCHANGED sdVars
       ELSE UNCHANGED <<sdVars, checker>>
    /\ phase' = "cli"
    /\ UNCHANGED <<today, nextMaintDate, storedDate, diff, startDay, restarts, cancels>>

(* The maintenance check of World::Update.  The quest-status deletes it    *)
(* issues with the request are left out.                                   *)
MaintenanceCheck ==
    /\ phase = "maint"
    /\ IF today >= nextMaintDate
       THEN IF checker < diff
            THEN /\ SD!ShutdownServ(30, {"restart"}, RESTART_EXIT_CODE)
                 /\ checker' = RECHECK_MS
                 /\ UNCHANGED requests
            ELSE /\ checker' = checker - diff
                 /\ UNCHANGED sdVars
       ELSE UNCHANGED <<sdVars, checker>>
    /\ phase' = "cli"
    /\ UNCHANGED <<today, nextMaintDate, storedDate, diff, startDay, restarts, cancels>>

(* Operator commands drained by ProcessCliCommands.                        *)
CliCommand ==
    /\ phase = "cli"
    /\ \/ /\ \E t \in Delays, m \in Masks, c \in ExitCodes :
                 SD!OperatorShutdown(t, m, c)
          /\ UNCHANGED cancels
       \/ /\ cancels < MaxCancels
          /\ cancels' = cancels + 1
          /\ SD!ShutdownCancel
    /\ UNCHANGED <<today, nextMaintDate, storedDate, checker, diff, phase,
                   startDay, restarts>>

(* End of World::Update: the world loop goes on unless m_stopEvent is set. *)
UpdateDone ==
    /\ phase = "cli"
    /\ phase' = IF stopEvent THEN "exited" ELSE "time"
    /\ UNCHANGED <<sdVars, today, nextMaintDate, storedDate, checker, diff,
                   startDay, restarts, cancels>>

(* The service manager starts the process again after a restart exit.      *)
Restart ==
    /\ phase = "exited"
    /\ exitCode = RESTART_EXIT_CODE
    /\ restarts < MaxRestarts
    /\ restarts' = restarts + 1
    /\ StartProcess(today, storedDate)
    /\ sessionCount' = 0
    /\ UNCHANGED <<today, requests, cancels>>

(* GetDateToday() moves to the next day.                                    *)
DayRollover ==
    /\ today < MaxDay
    /\ today' = today + 1
    /\ UNCHANGED <<sdVars, nextMaintDate, storedDate, checker, diff, phase,
                   startDay, restarts, cancels>>

WorldStep == UpdateTime \/ UpdateSessions \/ MaintenanceCheck \/ UpdateDone

Next == WorldStep \/ CliCommand \/ Restart \/ DayRollover

(* The world thread runs World::Update without end until it stops, and the *)
(* service manager restarts a process that exits with the restart code.    *)
Spec == Init /\ [][Next]_vars /\ WF_vars(WorldStep) /\ WF_vars(Restart)

-----------------------------------------------------------------------------
TypeOK ==
    /\ SD!TypeOK
    /\ today \in FirstDay..MaxDay
    /\ nextMaintDate \in Nat /\ storedDate \in Nat
    /\ checker \in Nat /\ (checker <= RECHECK_MS \/ checker = InitChecker)
    /\ diff \in {d * 1000 : d \in ClockDeltas} \cup {0}
    /\ phase \in {"time", "sessions", "maint", "cli", "exited"}
    /\ startDay \in FirstDay..MaxDay /\ restarts \in 0..MaxRestarts
    /\ cancels \in 0..MaxCancels

(* A process never starts with its maintenance already due: the date read *)
(* back by InitServerMaintenanceCheck after a maintenance restart (the row *)
(* is not rewritten while the world runs) is moved past the restart day,   *)
(* so a restart does not trigger the next one.                             *)
NoRestartLoop ==
    nextMaintDate > startDay

(* Once the maintenance day has come, the running world stops (to be       *)
(* restarted), however operators cancel or replace the restart request in *)
(* between (a bounded number of times): the check asks again every 10      *)
(* minutes.                                                                *)
MaintenanceRestarts ==
    (phase # "exited" /\ today >= nextMaintDate) ~> (phase = "exited")

=============================================================================
