------------------------------ MODULE DurableLog ------------------------------
(* What the recorder promises: an append-only record of cycles, each recorded  *)
(* once, in increasing order and in one indivisible step, that no crash or     *)
(* resume can shorten, and a heartbeat that only certifies recorded cycles.    *)
EXTENDS Integers

CONSTANT Cycles

VARIABLES
  log,                \* the cycles recorded
  certified           \* the cycle of the last heartbeat, 0 before the first

logVars == <<log, certified>>

Init == log = {} /\ certified = 0

Record(c) ==
  /\ \A d \in log : d < c
  /\ log' = log \union {c}
  /\ UNCHANGED certified

Certify(c) ==
  /\ c \in log
  /\ certified' = c
  /\ UNCHANGED log

Next == \E c \in Cycles : Record(c) \/ Certify(c)

Spec == Init /\ [][Next]_logVars
=============================================================================
