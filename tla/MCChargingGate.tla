---------------------------- MODULE MCChargingGate ----------------------------
(* A gate of five polls, evidence of two greens two polls apart, a window of    *)
(* three frames: long enough for evidence to be built, broken and rebuilt.     *)
EXTENDS ChargingGate

MCFrames == {{}, {"green"}, {"red"}, {"green", "red"}, NoHue}
MCReadFailLimit == 1
MCStaleAfter == 1
MCDropLimit == 2
MCWindowFrames == 3
MCHueMinFrames == 2
MCAgreement == 2
MCGreenWindow == 3
MCGreenFrames == 2
MCGreenSpan == 2
MCGateTimeout == 5
MCMaxSleep == 2

ASSUME SteadyPolls == PollsOftenEnough
=============================================================================
