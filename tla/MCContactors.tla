---------------------------- MODULE MCContactors ----------------------------
(* Two charging gate tokens and two pulses: one token is spent while another *)
(* closes K3 again.  Stagger windows of no, one and two ticks.               *)
EXTENDS SelfTest

MCCycles == {1, 2}
MCMaxPulses == 2
MCMaxStagger == 2
=============================================================================
