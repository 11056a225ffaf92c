------------------------- MODULE MCWorldSessions --------------------------
(* Model of the session directory: three accounts, the third a moderator   *)
(* (SEC_MODERATOR bypasses the limit); accounts 1 and 2 can reconnect with *)
(* a second session each.                                                  *)
EXTENDS WorldSessions

CONSTANTS s1, s2, s3, s4, s5

MCSessionIds == {s1, s2, s3, s4, s5}
MCAcct == (s1 :> 1) @@ (s2 :> 2) @@ (s3 :> 3) @@ (s4 :> 1) @@ (s5 :> 2)
MCSec  == <<0, 0, 1>>

\* without the second session of account 2, for the runs that vary the limit
MCSessionIds4 == {s1, s2, s3, s4}

\* one session per account, for the run that also checks liveness
MCSessionIds3 == {s1, s2, s3}

\* raise, unlimited, and a security level below -SEC_ADMINISTRATOR (clamped)
MCLimitChoices == {0, 2, -5}
=============================================================================
