----------------------------- MODULE MCEquipment -----------------------------
(* Six cycles with a scheduled refresh every third and a reactive one after    *)
(* two: both kinds come first, second and together; a call has two attempts.   *)
(* A cycle finds no files, or some that two earlier attempts left.             *)
EXTENDS Equipment

MCTarget == 6
MCInterval == 3
MCThreshold == 2
MCAttempts == 2
MCLeftovers == {{}, {"scope_timeout.png", "controller_exception.json"}}
=============================================================================
