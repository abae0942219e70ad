--------------------------- MODULE InjectionWindow ---------------------------
(* What one injection promises to the cycle it belongs to, without saying how *)
(* long it lasts or what triggers the scope: K3 is commanded closed at most    *)
(* once for an attempt, and the poll gives its answer only after K3 has been   *)
(* commanded open again.  An attempt that fails may leave K3 closed, and       *)
(* nothing new begins before it is open.                                       *)

VARIABLES
  stage,              \* "preparing", "polling", "captured", "timedout", "over": none
  closed              \* K3 is commanded closed

windowVars == <<stage, closed>>

Answered == {"captured", "timedout"}

Init == stage \in {"preparing", "over"} /\ closed = FALSE

(* K3 closes, once everything is prepared. *)
Inject == stage = "preparing" /\ stage' = "polling" /\ closed' = TRUE

(* The backstop opens K3 and polling goes on; or the poll is over, and opens   *)
(* K3 before it answers.                                                       *)
Open ==
  /\ stage = "polling" /\ closed
  /\ stage' \in {"polling"} \union Answered
  /\ closed' = FALSE

Answer == stage = "polling" /\ ~closed /\ stage' \in Answered /\ UNCHANGED closed

(* An error, a halt or the commit ends the attempt, with K3 as it is. *)
End == stage # "over" /\ stage' = "over" /\ UNCHANGED closed

(* safe_off reaches K3. *)
Release == stage = "over" /\ closed /\ closed' = FALSE /\ UNCHANGED stage

(* The next attempt. *)
Begin == stage = "over" /\ ~closed /\ stage' = "preparing" /\ UNCHANGED closed

Next == Inject \/ Open \/ Answer \/ End \/ Release \/ Begin

Spec == Init /\ [][Next]_windowVars
=============================================================================
