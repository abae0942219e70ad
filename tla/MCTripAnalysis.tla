---------------------------- MODULE MCTripAnalysis ----------------------------
(* A half cycle of six samples, with samples on the ramps between the collapse *)
(* and the conduction thresholds, as the scope's dense sampling has them.      *)
(* The records: every single burst; four bursts with a stray sample anywhere;  *)
(* and current that comes back after a short or a long burst, for a blip or    *)
(* until the record ends.                                                      *)
EXTENDS TripAnalysis

MCWave == [i \in 0 .. 5 |-> CASE i = 0 -> 1 [] i \in {1, 5} -> 3 [] i = 3 -> 14 [] OTHER -> 10]

Flow(a, b, c, d, stray) == [a |-> a, b |-> b, c |-> c, d |-> d, stray |-> stray]

MCFlows ==
  {f \in {Flow(a, b, b, b, None) : a \in Index, b \in 1 .. Size} : f.a < f.b}
  \cup {Flow(15, b, b, b, i) : b \in {22, 27, 33, Size}, i \in Index}
  \cup {f \in {Flow(a, b, c, d, None) :
                a \in {0, 2, 15}, b \in {1, 3, 5, 16, 18, 24, 30, 36}, c \in Index,
                d \in {16, 24, 30, 36, Size}} : f.a < f.b /\ f.b < f.c /\ f.c < f.d}

(* What the theorems suppose holds here: one sample that conducts is a burst   *)
(* already, and one low sample in a row at most lies between two that are not. *)
ASSUME RealRecords == Records /\ CurrentsLast(1)
ASSUME RealCurrent == /\ CurrentsBurst(1) /\ StartsLoud
                      /\ Reaches(On, Window - 1) /\ Reaches(Off, 1) /\ Rises(0)
=============================================================================
