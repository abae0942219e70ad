----------------------------- MODULE Acquisition -----------------------------
(* From the arming of the scope to the answer of the acquisition poll:         *)
(* _attempt_cycle from configure_for_cycle on, _poll_acquisition_with_backstop *)
(* and _issue_forced_diagnostic_trigger (ccid/sequencer.py), against an        *)
(* oscilloscope that triggers when it likes (external).  Time is counted in    *)
(* ticks from the closing of K3; a query or a write, and each snapshot that    *)
(* _record_diagnostic_stage takes is a query, lasts up to MaxCall ticks with   *)
(* its repetitions, and nothing in the single thread can interrupt it.         *)
EXTENDS Integers

CONSTANTS
  ForceAt,            \* _FORCED_DIAGNOSTIC_DELAY_S
  Backstop,           \* timing.k3_backstop_s
  AcqTimeout,         \* timing.scope_acquisition_timeout_s
  PollSleep,          \* the 10 ms sleep of the loop, and the driver's own
  MaxCall             \* the longest a query or a write can block

ASSUME TimingAssumption ==
  /\ {ForceAt, Backstop, AcqTimeout, PollSleep} \subseteq Nat \ {0}
  /\ MaxCall \in Nat

VARIABLES
  pc,                 \* the next step of the program
  dev,                \* the acquisition of the scope
  ter,                \* its trigger event register, cleared by every read
  trig,               \* history: what triggered the acquisition
  terLost,            \* history: a read cleared a set register unseen
  forceRaised,        \* history: force_trigger raised
  k3,                 \* K3 is closed
  now,                \* ticks since K3 closed
  start,              \* start_s of the poll
  nowS,               \* now_s, read at the top of the loop
  opened,             \* opened
  checked,            \* forced_diagnostic_checked
  forced,             \* force_command_return_monotonic_s is set
  live                \* live_trigger_event_seen

scope   == <<dev, ter, trig>>
history == <<terLost, forceRaised>>
relay   == <<k3, opened>>
clock   == <<now, start, nowS>>
flags   == <<checked, forced, live>>
vars    == <<pc, scope, history, relay, clock, flags>>

Answer   == {"success", "timeout", "halt"}
ArmedPc  == {"armed1", "armed2", "armed3", "ter_pre"}
Running  == dev \in {"armed", "filling"}     \* the run bit
Natural  == {"early", "gap", "injection", "late"}

-----------------------------------------------------------------------------
(* External: a trigger arrives while the scope is armed; the record fills up.  *)
Phase ==
  IF pc \in ArmedPc THEN "early" ELSE IF pc = "close_k3" THEN "gap"
  ELSE IF k3 THEN "injection" ELSE "late"

Trigger ==
  /\ dev = "armed" /\ pc \notin Answer
  /\ dev' = "filling" /\ ter' = TRUE /\ trig' = Phase
  /\ UNCHANGED <<pc, history, relay, clock, flags>>

Fill ==
  /\ dev = "filling" /\ pc \notin Answer
  /\ dev' = "done"
  /\ UNCHANGED <<pc, ter, trig, history, relay, clock, flags>>

-----------------------------------------------------------------------------
(* :TER? is read and cleared.  _retry_io sends it again when the answer is     *)
(* lost, and the second read then finds it clear.                              *)
ReadTer(seen) ==
  /\ seen \in {ter, FALSE}
  /\ ter' = FALSE
  /\ terLost' = (terLost \/ (ter /\ ~seen))
  /\ UNCHANGED <<dev, trig, forceRaised>>

Halt == pc' = "halt" /\ UNCHANGED <<scope, history>>

Idle == UNCHANGED <<relay, clock, flags>>

BaselineTer ==
  /\ \/ pc = "ter_clear" /\ (Halt \/ \E s \in BOOLEAN : ReadTer(s) /\ pc' = "ter_verify")
     \/ pc = "ter_verify"
        /\ (Halt \/ \E s \in BOOLEAN : ReadTer(s) /\ pc' = IF s THEN "halt" ELSE "arm")
  /\ Idle

ArmSingle ==
  /\ pc = "arm"
  /\ \/ pc' = "armed1" /\ dev' = "armed" /\ UNCHANGED <<ter, trig, history>>
     \/ Halt
  /\ Idle

(* _poll_scope_armed looks at the run bit, three times before the injection. *)
AfterArmed == [armed1 |-> "armed2", armed2 |-> "armed3", armed3 |-> "ter_pre"]

PollArmed ==
  /\ pc \in DOMAIN AfterArmed
  /\ Halt \/ (Running /\ pc' = AfterArmed[pc] /\ UNCHANGED <<scope, history>>)
  /\ Idle

PreInjectionTer ==
  /\ pc = "ter_pre"
  /\ Halt \/ \E s \in BOOLEAN : ReadTer(s) /\ pc' = IF s THEN "halt" ELSE "close_k3"
  /\ Idle

(* The commands of the contactors never block; the clock starts here. *)
CloseK3 ==
  /\ pc = "close_k3"
  /\ \/ pc' = "injected" /\ k3' = TRUE /\ UNCHANGED <<scope, history, opened>>
     \/ Halt /\ UNCHANGED relay
  /\ UNCHANGED <<clock, flags>>

-----------------------------------------------------------------------------
(* The loop cannot look at anything while calls run, one after another.        *)
Calls(n) == \E d \in 0 .. n * MaxCall : now' = now + d

(* The "k3_close" snapshot and the mismatch check come before the poll, whose  *)
(* timeout starts after them; the deadlines of K3 started when it closed.      *)
Injected ==
  /\ pc = "injected"
  /\ Calls(1) /\ start' = now'
  /\ (pc' = "top" /\ UNCHANGED <<scope, history>>) \/ Halt
  /\ UNCHANGED <<relay, nowS, flags>>

LoopTop ==
  /\ pc = "top"
  /\ IF now - start > AcqTimeout
       THEN pc' = "expire" /\ UNCHANGED <<nowS, checked>>
       ELSE LET due == ~checked /\ ~opened /\ now >= ForceAt IN
            /\ nowS' = now
            /\ checked' = (checked \/ due)
            /\ pc' = IF due THEN "force_ter" ELSE "backstop"
  /\ UNCHANGED <<scope, history, relay, now, start, forced, live>>

(* A failed read is only logged; one that answers is followed by a snapshot.   *)
ForceTer ==
  /\ pc = "force_ter"
  /\ \/ \E s \in BOOLEAN : /\ ReadTer(s)
                           /\ live' = s
                           /\ pc' = IF s THEN "backstop" ELSE "force_cmd"
        /\ Calls(2)
     \/ /\ ReadTer(FALSE) \/ UNCHANGED <<scope, history>>
        /\ pc' = "backstop"
        /\ Calls(1) /\ UNCHANGED live
  /\ UNCHANGED <<relay, start, nowS, checked, forced>>

(* :TRIGger:FORCe ends the armed acquisition.  When the write raises, the      *)
(* scope may have executed it all the same.                                    *)
ForceEffect ==
  IF dev = "armed"
    THEN dev' = "filling" /\ trig' = "forced" /\ ter' \in {ter, TRUE}
    ELSE UNCHANGED scope

(* A snapshot, the write, and after one that did not raise another snapshot.   *)
ForceCmd ==
  /\ pc = "force_cmd"
  /\ pc' = "backstop"
  /\ \/ ForceEffect /\ Calls(3) /\ forced' = TRUE /\ UNCHANGED forceRaised
     \/ ForceEffect /\ Calls(2) /\ forceRaised' = TRUE /\ UNCHANGED forced
     \/ UNCHANGED scope /\ Calls(2) /\ forceRaised' = TRUE /\ UNCHANGED forced
  /\ UNCHANGED <<relay, start, nowS, checked, live, terLost>>

(* open_k3, then the "k3_open" snapshot. *)
OpenK3 == k3' = FALSE /\ opened' = TRUE /\ Calls(1)

(* Mutant: a forced trigger also disarms the backstop. *)
BackstopUnlessForced ==
  /\ pc = "backstop"
  /\ IF ~opened /\ ~forced /\ nowS >= Backstop
       THEN OpenK3 /\ pc' = "wait"
       ELSE pc' = "wait" /\ UNCHANGED <<relay, now>>
  /\ UNCHANGED <<scope, history, start, nowS, flags>>

BackstopCheck ==
  /\ pc = "backstop"
  /\ IF ~opened /\ nowS >= Backstop
       THEN \/ OpenK3 /\ pc' = "wait" /\ UNCHANGED <<scope, history>>
            \/ Halt /\ UNCHANGED <<relay, now>>
       ELSE pc' = "wait" /\ UNCHANGED <<scope, history, relay, now>>
  /\ UNCHANGED <<start, nowS, flags>>

TimeLeft == now - start < AcqTimeout

(* Mutant: a forced acquisition counts as complete. *)
WaitTrustsForce ==
  /\ pc = "wait"
  /\ Calls(1)
  /\ pc' = IF TimeLeft /\ ~Running THEN "complete" ELSE "sleep"
  /\ UNCHANGED <<scope, history, relay, start, nowS, flags>>

(* Without a force the clearing of the run bit is the measurement, asked for   *)
(* while time remains: wait_until_acquisition_complete, whose own sleep uses   *)
(* up the 10 ms it is given.  It answers without a look when these are over    *)
(* before it begins.                                                           *)
AskComplete ==
  /\ TimeLeft
  /\ \/ pc' = "complete" /\ ~Running /\ Calls(1)
     \/ pc' = "sleep" /\ Running
        /\ \E d \in 0 .. MaxCall : now' = now + d + PollSleep
     \/ pc' = "halt" /\ Calls(1)

(* After a force it is only observed, until seen once, and that with a         *)
(* snapshot.                                                                   *)
ObserveForced == pc' = "sleep" /\ Calls(IF Running THEN 1 ELSE 2)

Wait ==
  /\ pc = "wait"
  /\ IF forced THEN ObserveForced
     ELSE AskComplete \/ (pc' = "sleep" /\ UNCHANGED now)
  /\ UNCHANGED <<scope, history, relay, start, nowS, flags>>

(* Mutant: K3 is left to the backstop alone. *)
OpenThenNever(answer) ==
  pc' = answer /\ UNCHANGED <<relay, scope, history, clock, flags>>

OpenThen(answer) ==
  /\ IF opened
       THEN pc' = answer /\ UNCHANGED <<relay, now>>
       ELSE \/ OpenK3 /\ pc' = answer
            \/ pc' = "halt" /\ UNCHANGED <<relay, now>>
  /\ UNCHANGED <<scope, history, start, nowS, flags>>

Complete == pc = "complete" /\ OpenThen("success")

Expire == pc = "expire" /\ OpenThen("timeout")

(* The sleep raises StopRequested once a signal has come. *)
Sleep ==
  /\ pc = "sleep"
  /\ pc' \in {"top", "halt"}
  /\ now' = now + PollSleep
  /\ UNCHANGED <<scope, history, relay, start, nowS, flags>>

-----------------------------------------------------------------------------
(* configure_for_cycle has stopped the scope; the register may hold anything.  *)
Init ==
  /\ pc = "ter_clear" /\ dev = "stopped" /\ ter \in BOOLEAN /\ trig = "none"
  /\ terLost = FALSE /\ forceRaised = FALSE
  /\ k3 = FALSE /\ opened = FALSE /\ now = 0 /\ start = 0 /\ nowS = 0
  /\ checked = FALSE /\ forced = FALSE /\ live = FALSE

Program ==
  \/ BaselineTer \/ ArmSingle \/ PollArmed \/ PreInjectionTer \/ CloseK3 \/ Injected
  \/ LoopTop \/ ForceTer \/ ForceCmd \/ BackstopCheck \/ Wait \/ Complete \/ Sleep
  \/ Expire

Next == Program \/ Trigger \/ Fill

Spec == Init /\ [][Next]_vars /\ WF_vars(Program)

-----------------------------------------------------------------------------
(* However the calls stretch, K3 is closed for at most one backstop, seven     *)
(* calls and two sleeps.  The turn that forces makes five calls before it      *)
(* compares the deadline with the reading it began on, and two more before the *)
(* next reading; every other turn makes one call, and may sleep in the driver  *)
(* before it sleeps in the loop.                                               *)
K3ClosedBounded ==
  k3 /\ pc # "halt" => now < Backstop + 7 * MaxCall + 2 * PollSleep

(* The answer of the poll tells what triggered the acquisition.  A trigger     *)
(* that came before the last check ahead of the injection never becomes a      *)
(* measurement, unless a retried read lost it; nor does a forced one, unless   *)
(* force_trigger raised; and after a timeout the evidence of a natural trigger *)
(* is still there for the halt reason, in the flag or in the register.         *)
AnswerTellsTrigger ==
  /\ pc = "success" =>
       /\ trig = "early" => terLost
       /\ trig = "forced" => forceRaised
  /\ pc = "timeout" /\ trig \in Natural => live \/ ter \/ terLost

(* The poll implements the injection window: no answer before K3 is open.      *)
WindowStage ==
  CASE pc = "success" -> "captured" [] pc = "timeout" -> "timedout" [] pc = "halt" -> "over"
    [] pc \in ArmedPc \union {"ter_clear", "ter_verify", "arm", "close_k3"} -> "preparing"
    [] OTHER -> "polling"

Window == INSTANCE InjectionWindow WITH stage <- WindowStage, closed <- k3

ImplementsWindow == Window!Spec

(* The injection always ends. *)
PollEnds == k3 ~> (~k3 \/ pc = "halt")
=============================================================================
