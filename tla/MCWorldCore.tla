---------------------------- MODULE MCWorldCore ----------------------------
(* Model of the composed world loop: the two player accounts of            *)
(* MCWorldSessions under a limit of one, so that one of them can wait in   *)
(* the queue, and shutdowns due now or at the next tick.                    *)
EXTENDS WorldCore, MCWorldSessions

MCCoreSessionIds == {s1, s2}

\* unlimited, and a security level below -SEC_ADMINISTRATOR (clamped)
MCCoreLimitChoices == {0, -5}

MCCoreDelays == {0, 1}
MCCoreMasks == {{}, {"idle"}}
=============================================================================
