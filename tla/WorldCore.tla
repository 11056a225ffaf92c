----------------------------- MODULE WorldCore -----------------------------
(***************************************************************************)
(* The session directory and the shutdown controller in one world loop.    *)
(* One World::Update runs _UpdateGameTime (line 1653) before UpdateSessions *)
(* (1683) and ProcessCliCommands (1804), which may carry an operator's      *)
(* shutdown or cancel.  The controller's session count is the size of      *)
(* m_sessions (GetActiveAndQueuedSessionCount).  The loop tests            *)
(* m_stopEvent after each Update: while it is unset the next Update        *)
(* begins; once set, CleanupsBeforeStop runs KickAll and the last          *)
(* UpdateSessions, and the world thread returns.                           *)
(***************************************************************************)
EXTENDS WorldSessions

CONSTANTS
    Delays,         \* shutdown delays (seconds) an operator may request
    Masks,          \* option masks: subsets of {"idle", "restart"}
    ExitCodes,      \* exit codes a request may carry
    ClockDeltas,    \* wall-clock seconds between two Updates
    ClockModulus,   \* 2^w of the uint32 elapsed time
    MaxRequests     \* bound on the operator's shutdown commands

VARIABLES
    stopEvent, shutdownTimer, shutdownMask, exitCode, msg, requests,
    requestDelay, realSince,
    ticked          \* _UpdateGameTime of the current Update has run

sdVars == <<stopEvent, shutdownTimer, shutdownMask, exitCode, msg, requests,
            requestDelay, realSince>>

coreVars == <<vars, sdVars, ticked>>

SD == INSTANCE WorldShutdown
        WITH sessionCount <- ActiveAndQueuedCount, MaxSessions <- NAccounts

CoreInit == Init /\ SD!Init /\ ticked = FALSE

(* _UpdateGameTime at the top of an Update, before the session drain.      *)
GameTimeStep ==
    /\ phase = "drain" /\ ~ticked
    /\ ticked' = TRUE
    /\ UNCHANGED vars
    /\ SD!Tick

(* The steps of WorldSessions that leave the controller alone; the drain   *)
(* of an Update follows its _UpdateGameTime.  Bans are left out here.      *)
SessionsStep ==
    /\ \/ \E s \in SessionIds : AddSession(s) \/ ClientDisconnect(s)
       \/ ticked /\ (AddSession_ \/ DrainDone)
       \/ UpdateSession \/ UpdateDone
       \/ \E a \in Accounts : RemoveSession(a)
       \/ \E sec \in KickLevels : KickAllLess(sec)
       \/ \E l \in LimitChoices : SetPlayerLimit(l)
    /\ UNCHANGED <<stopping, banned, sdVars, ticked>>

(* Shutdown and cancel commands run from the CLI queue.                    *)
CliShutdownCommand ==
    /\ phase = "cli"
    /\ UNCHANGED <<vars, ticked>>
    /\ \/ \E t \in Delays, m \in Masks, c \in ExitCodes :
             SD!OperatorShutdown(t, m, c)
       \/ SD!ShutdownCancel

(* Fault variant: the loop goes on with the next Update whatever           *)
(* m_stopEvent says.                                                       *)
LoopTestIgnoresStop ==
    \/ /\ CliDone /\ ticked' = FALSE
       /\ UNCHANGED <<stopping, banned, sdVars>>
    \/ /\ stopEvent
       /\ KickAll
       /\ UNCHANGED <<sdVars, ticked>>

(* End of an Update: the loop begins the next one while m_stopEvent is     *)
(* unset, and otherwise leaves for CleanupsBeforeStop (KickAll).           *)
LoopTest ==
    \/ /\ ~stopEvent
       /\ CliDone /\ ticked' = FALSE
       /\ UNCHANGED <<stopping, banned, sdVars>>
    \/ /\ stopEvent
       /\ KickAll
       /\ UNCHANGED <<sdVars, ticked>>

(* The world thread has returned (main joins it and exits).                *)
CoreHalted == Halted /\ UNCHANGED <<sdVars, ticked>>

CoreNext ==
    \/ GameTimeStep
    \/ SessionsStep
    \/ CliShutdownCommand
    \/ LoopTest
    \/ CoreHalted

(* The world thread's own steps: the loop itself never waits for a client, *)
(* an operator or the network thread.                                      *)
WorldLoop ==
    \/ GameTimeStep
    \/ /\ ticked /\ (AddSession_ \/ DrainDone)
       /\ UNCHANGED <<stopping, banned, sdVars, ticked>>
    \/ (UpdateSession \/ UpdateDone) /\ UNCHANGED <<stopping, banned, sdVars, ticked>>
    \/ LoopTest

CoreSpec == CoreInit /\ [][CoreNext]_coreVars /\ WF_coreVars(WorldLoop)

-----------------------------------------------------------------------------
CoreTypeOK == TypeOK /\ SD!TypeOK /\ ticked \in BOOLEAN

(* A countdown that is not idle-mode, once no further command can replace *)
(* it, ends in the world thread's return unless it is cancelled: the       *)
(* session pump between two _UpdateGameTime calls never stalls the clock,  *)
(* and the stop leads through KickAll and the last UpdateSessions.         *)
ShutdownReachesExit ==
    (SD!Counting /\ "idle" \notin shutdownMask /\ requests = MaxRequests)
        ~> (phase = "halted" \/ msg.kind = "cancel")

(* An idle-mode shutdown disconnects nobody (spec §4.3 and glossary: it    *)
(* waits for the active session count to reach zero): when the stop's      *)
(* KickAll runs for an idle-mode shutdown, m_sessions is empty, including  *)
(* the sessions the drain of that same Update took from addSessQueue.     *)
IdleStopKicksNobody ==
    [][(~stopping /\ stopping' /\ "idle" \in shutdownMask)
         => Listed(smap) = {}]_coreVars

=============================================================================
