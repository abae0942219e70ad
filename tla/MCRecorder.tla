------------------------------ MODULE MCRecorder ------------------------------
(* Three cycles: one committed, one skipped and one interrupted, in any order, *)
(* with any number of crashes.  Written in binary, the indices of cycles 2 and *)
(* 3 have two digits, and a tear between them names cycle 1.                   *)
EXTENDS Recorder

MCTarget == 3
MCRadix == 2
MCFaultSets == {{}, {"torn_row"}, RareEvent}
MCRewriteCrash == {{"rewrite_crash"}}
=============================================================================
