---------------------------- MODULE MCAcquisition ----------------------------
(* One tick is 100 ms of the real deadlines (force 100 ms, backstop 300 ms);   *)
(* the acquisition timeout is cut short, the loop does nothing new in between. *)
EXTENDS Acquisition

MCForceAt == 1
MCBackstop == 3
MCAcqTimeout == 6
MCPollSleep == 1
MCMaxCall == 2
=============================================================================
