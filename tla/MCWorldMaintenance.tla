------------------------- MODULE MCWorldMaintenance -------------------------
EXTENDS WorldMaintenance

\* shutdown delays an operator may ask for: at once, or 40 s
MCDelays == {0, 40}
\* an ordinary or idle-mode shutdown, or a restart (the mask the check uses)
MCMasks == {{}, {"idle"}, {"restart"}}
MCClockModulus == 2^16
=============================================================================
