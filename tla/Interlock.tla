------------------------------ MODULE Interlock ------------------------------
(* What the contactor controller promises to whoever drives it, without       *)
(* saying how: the rig is at one of four energy levels, the two mains legs    *)
(* move one at a time, leakage is injected only from full mains, a charging   *)
(* gate token buys at most one injection per process, and the only way out of *)
(* an injection is back to full mains.                                        *)

CONSTANT Cycles       \* indices a charging gate token can carry

VARIABLES
  energy,             \* "off", "partial" (one mains leg), "mains", "injecting"
  spent               \* tokens already used for an injection

vars == <<energy, spent>>

Init == energy = "off" /\ spent = {}

(* One mains leg closes or opens. *)
MoveLeg ==
  /\ <<energy, energy'>> \in {<<"off", "partial">>, <<"partial", "off">>,
                              <<"partial", "mains">>, <<"mains", "partial">>}
  /\ UNCHANGED spent

(* K3 closes on the token of cycle c. *)
Inject(c) ==
  /\ energy \in {"mains", "injecting"}
  /\ c \notin spent
  /\ energy' = "injecting"
  /\ spent' = spent \union {c}

(* K3 opens. *)
Release ==
  /\ energy = "injecting"
  /\ energy' = "mains"
  /\ UNCHANGED spent

(* The process restarts: a new controller, all outputs inactive. *)
PowerUp == energy' = "off" /\ spent' = {}

Next == MoveLeg \/ Release \/ PowerUp \/ \E c \in Cycles : Inject(c)

Spec == Init /\ [][Next]_vars
=============================================================================
