--------------------------- MODULE WorldShutdown ---------------------------
(***************************************************************************)
(* The shutdown controller of World.cpp: m_stopEvent, m_ShutdownTimer,      *)
(* m_ShutdownMask and m_ExitCode, driven by World::ShutdownServ (operator   *)
(* command or the maintenance check in World::Update), World::ShutdownCancel*)
(* and World::_UpdateGameTime, which runs once per World::Update with the   *)
(* wall-clock seconds elapsed since the previous tick.  The number of       *)
(* active and queued sessions is an input here (sessionCount); the module   *)
(* WorldSessions models where it comes from.                                *)
(***************************************************************************)
EXTENDS Integers, FiniteSets

CONSTANTS
    Delays,         \* shutdown delays (seconds) an operator may request
    Masks,          \* option masks: subsets of {"idle", "restart"}
    ExitCodes,      \* exit codes a request may carry
    ClockDeltas,    \* wall-clock steps between two ticks (may be negative)
    ClockModulus,   \* 2^w: elapsed is computed as uint32(thisTime - m_gameTime)
    MaxSessions,    \* bound on GetActiveAndQueuedSessionCount()
    MaxRequests     \* bound on the number of ShutdownServ calls

SHUTDOWN_EXIT_CODE == 0
MINUTE == 60
HOUR == 60 * MINUTE

ASSUME /\ Masks \subseteq SUBSET {"idle", "restart"}
       /\ Delays \subseteq Nat /\ ExitCodes \subseteq Nat
       /\ \A d \in ClockDeltas : d > -ClockModulus /\ d < ClockModulus

NoMsg == [kind |-> "none", idle |-> FALSE, restart |-> FALSE, t |-> 0]

VARIABLES
    stopEvent,      \* World::m_stopEvent
    shutdownTimer,  \* World::m_ShutdownTimer (seconds left)
    shutdownMask,   \* World::m_ShutdownMask, as a set of flags
    exitCode,       \* World::m_ExitCode
    sessionCount,   \* GetActiveAndQueuedSessionCount(), set by the sessions
    msg,            \* server message broadcast by the last step (or NoMsg)
    requests,       \* ShutdownServ calls so far (bounded by MaxRequests)
    requestDelay,   \* history: delay asked by the request in effect
    realSince       \* history: real seconds since that request (capped)

vars == <<stopEvent, shutdownTimer, shutdownMask, exitCode, sessionCount,
          msg, requests, requestDelay, realSince>>

\* the history counter realSince stops growing at RealCap
RealCap == (CHOOSE d \in Delays : \A e \in Delays : d >= e) + 1

MinOf(x, y) == IF x <= y THEN x ELSE y

-----------------------------------------------------------------------------
(* The milestone test of World::ShutdownMsg: 12 h, 1 h, 5 min, 1 min, 15 s. *)
ShutdownMsgDue(t) ==
    \/ t < 5 * MINUTE /\ t % 15 = 0
    \/ t < 15 * MINUTE /\ t % MINUTE = 0
    \/ t < 30 * MINUTE /\ t % (5 * MINUTE) = 0
    \/ t < 12 * HOUR /\ t % HOUR = 0
    \/ t >= 12 * HOUR /\ t % (12 * HOUR) = 0

(* World::ShutdownMsg(show): the message a step sends for the timer t and   *)
(* mask m; nothing in idle mode.                                            *)
ShutdownMsg(show, t, m) ==
    IF "idle" \notin m /\ (show \/ ShutdownMsgDue(t))
    THEN [kind |-> "time", idle |-> FALSE, restart |-> "restart" \in m, t |-> t]
    ELSE NoMsg

(* The stop condition shared by ShutdownServ and _UpdateGameTime: not an   *)
(* idle-mode shutdown, or no session active or queued.                     *)
MayStop(m) == "idle" \notin m \/ sessionCount = 0

(* Fault variants of the overdue test: strict, or one second early.        *)
OverdueStrict(elapsed) == shutdownTimer < elapsed
OverdueOneEarly(elapsed) == shutdownTimer <= elapsed + 1

(* _UpdateGameTime: the timer is overdue.                                   *)
Overdue(elapsed) == shutdownTimer <= elapsed

Init ==
    /\ stopEvent = FALSE
    /\ shutdownTimer = 0
    /\ shutdownMask = {}
    /\ exitCode = SHUTDOWN_EXIT_CODE
    /\ sessionCount \in 0..MaxSessions
    /\ msg = NoMsg
    /\ requests = 0
    /\ requestDelay = 0
    /\ realSince = 0

(* World::ShutdownServ(time, options, exitcode).                            *)
ShutdownServ(time, options, code) ==
    /\ IF stopEvent
       THEN UNCHANGED <<stopEvent, shutdownTimer, shutdownMask, exitCode, msg,
                        requestDelay, realSince>>
       ELSE /\ shutdownMask' = options
            /\ exitCode' = code
            /\ requestDelay' = time
            /\ realSince' = 0
            /\ IF time = 0
               THEN IF MayStop(options)
                    THEN /\ stopEvent' = TRUE
                         /\ UNCHANGED shutdownTimer
                    ELSE /\ shutdownTimer' = 1
                         /\ UNCHANGED stopEvent
               ELSE /\ shutdownTimer' = time
                    /\ UNCHANGED stopEvent
            /\ msg' = IF time = 0 THEN NoMsg ELSE ShutdownMsg(TRUE, time, options)
    /\ UNCHANGED sessionCount

(* An operator's shutdown command, run from the CLI queue                  *)
(* (ProcessCliCommands); the number of commands is bounded by MaxRequests. *)
OperatorShutdown(time, options, code) ==
    /\ requests < MaxRequests
    /\ requests' = requests + 1
    /\ ShutdownServ(time, options, code)

(* Fault variants of ShutdownCancel: no "too late" guard, or the exit     *)
(* code reset to ERROR_EXIT_CODE instead of the default.                   *)
ShutdownCancelAfterStop ==
    /\ shutdownTimer # 0
    /\ shutdownMask' = {}
    /\ shutdownTimer' = 0
    /\ exitCode' = SHUTDOWN_EXIT_CODE
    /\ msg' = [kind |-> "cancel", idle |-> "idle" \in shutdownMask,
               restart |-> "restart" \in shutdownMask, t |-> 0]
    /\ UNCHANGED <<stopEvent, sessionCount, requests, requestDelay, realSince>>

ShutdownCancelErrorCode ==
    /\ shutdownTimer # 0
    /\ ~stopEvent
    /\ shutdownMask' = {}
    /\ shutdownTimer' = 0
    /\ exitCode' = 1
    /\ msg' = [kind |-> "cancel", idle |-> "idle" \in shutdownMask,
               restart |-> "restart" \in shutdownMask, t |-> 0]
    /\ UNCHANGED <<stopEvent, sessionCount, requests, requestDelay, realSince>>

(* World::ShutdownCancel: nothing to cancel, or too late, returns early.    *)
ShutdownCancel ==
    /\ shutdownTimer # 0
    /\ ~stopEvent
    /\ shutdownMask' = {}
    /\ shutdownTimer' = 0
    /\ exitCode' = SHUTDOWN_EXIT_CODE
    /\ msg' = [kind |-> "cancel", idle |-> "idle" \in shutdownMask,
               restart |-> "restart" \in shutdownMask, t |-> 0]
    /\ UNCHANGED <<stopEvent, sessionCount, requests, requestDelay, realSince>>

(***************************************************************************)
(* World::_UpdateGameTime with the wall clock moved by d seconds since the  *)
(* last tick: elapsed is the uint32 difference.  An overdue timer stops the *)
(* world, or in idle mode with sessions left waits at 1; otherwise the      *)
(* timer is decreased and a countdown milestone is announced.               *)
(***************************************************************************)
UpdateGameTime(d) ==
    LET elapsed == d % ClockModulus IN
    /\ realSince' = IF d > 0 /\ shutdownTimer > 0 /\ ~stopEvent
                     THEN MinOf(realSince + d, RealCap) ELSE realSince
    /\ IF ~stopEvent /\ shutdownTimer > 0 /\ elapsed > 0
       THEN IF Overdue(elapsed)
            THEN /\ IF MayStop(shutdownMask)
                    THEN /\ stopEvent' = TRUE
                         /\ UNCHANGED shutdownTimer
                    ELSE /\ shutdownTimer' = 1
                         /\ UNCHANGED stopEvent
                 /\ msg' = NoMsg
            ELSE /\ shutdownTimer' = shutdownTimer - elapsed
                 /\ msg' = ShutdownMsg(FALSE, shutdownTimer - elapsed, shutdownMask)
                 /\ UNCHANGED stopEvent
       ELSE /\ msg' = NoMsg
            /\ UNCHANGED <<stopEvent, shutdownTimer>>
    /\ UNCHANGED <<shutdownMask, exitCode, sessionCount, requests, requestDelay>>

(* Sessions come and go between ticks (UpdateSessions, AddSession_).        *)
SessionsChange(n) ==
    /\ n # sessionCount
    /\ sessionCount' = n
    /\ msg' = NoMsg
    /\ UNCHANGED <<stopEvent, shutdownTimer, shutdownMask, exitCode, requests,
                   requestDelay, realSince>>

Tick == \E d \in ClockDeltas : UpdateGameTime(d)

Next ==
    \/ \E t \in Delays, m \in Masks, c \in ExitCodes : OperatorShutdown(t, m, c)
    \/ ShutdownCancel
    \/ Tick
    \/ \E n \in 0..MaxSessions : SessionsChange(n)

(* The world loop calls World::Update for as long as m_stopEvent is unset.  *)
Spec == Init /\ [][Next]_vars /\ WF_vars(~stopEvent /\ Tick)

-----------------------------------------------------------------------------
TypeOK ==
    /\ stopEvent \in BOOLEAN
    /\ shutdownTimer \in Nat
    /\ shutdownMask \in Masks \cup {{}}
    /\ exitCode \in ExitCodes \cup {SHUTDOWN_EXIT_CODE}
    /\ sessionCount \in 0..MaxSessions
    /\ msg \in [kind : {"none", "time", "cancel"}, idle : BOOLEAN,
                restart : BOOLEAN, t : Nat]
    /\ requests \in 0..MaxRequests
    /\ requestDelay \in Nat /\ realSince \in 0..RealCap

Counting == ~stopEvent /\ shutdownTimer > 0

(* Once m_stopEvent is set nothing reverts it, and neither a later request  *)
(* nor a cancel (both may still run in the same tick, from the CLI queue    *)
(* or the maintenance check) changes the exit code the process ends with.   *)
StopIsFinal ==
    [][stopEvent => stopEvent' /\ exitCode' = exitCode]_vars

(* The world never stops before the real time asked for by the request in  *)
(* effect has passed.                                                       *)
ShutdownNotEarly ==
    [][~stopEvent /\ stopEvent' => realSince' >= requestDelay']_vars

(* Once no further request can replace it, a non-idle shutdown that is not *)
(* cancelled stops the world: the countdown cannot stall short of firing.  *)
ShutdownCompletes ==
    (Counting /\ "idle" \notin shutdownMask /\ requests = MaxRequests)
        ~> (stopEvent \/ msg.kind = "cancel")
=============================================================================
