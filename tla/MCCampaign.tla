------------------------------ MODULE MCCampaign ------------------------------
(* Three cycles and streak limits of two: a campaign can retry, complete a     *)
(* cycle, retry again and exhaust either limit.                                *)
EXTENDS Campaign

MCTarget == 3
MCCycles == 1 .. MCTarget
MCNoTripLimit == 2
MCOtherLimit == 2
=============================================================================
