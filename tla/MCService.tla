------------------------------ MODULE MCService ------------------------------
(* One tick is 2.5 s of the deployed unit: a watchdog of 10 s, stop limit of   *)
(* 20 s, restart after 5 s, alerts of 5 s; sleeps shorter than a chunk, of a   *)
(* chunk and a bit, and longer than the watchdog.                              *)
EXTENDS Service

MCWatchdogSec == 4
MCRestartSec == 2
MCTimeoutStopSec == 8
MCHttpTimeout == 2
MCSleepSecs == {0, 1, 3, 5}
=============================================================================
