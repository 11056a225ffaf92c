------------------------- MODULE MCWorldShutdown --------------------------
(* Model of the shutdown controller.  Delays reach the 5 min and 30 min    *)
(* bands of the countdown announcements; the clock width is narrowed from  *)
(* 32 bits to 16: only "elapsed exceeds every timer" matters for the wrap. *)
EXTENDS WorldShutdown

MCDelays == {0, 3, 320}
MCMasks == {{}, {"restart"}, {"idle"}}
MCClockModulus == 2^16
\* the clock stepping back one second between two ticks (NTP correction)
MCClockBack == {-1, 1}
=============================================================================
