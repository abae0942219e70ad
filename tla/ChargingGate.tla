----------------------------- MODULE ChargingGate -----------------------------
(* The vision gate of a cycle: await_charging_gate with its green-evidence     *)
(* policy and its window classifier (ccid/classify.py), polling the camera     *)
(* whose reader thread runs beside it (ccid/hal/camera_real.py).  A frame is   *)
(* the set of hues present in it, lit without one, or unusable.  Time is       *)
(* counted in polls from the start of a call; a blocked reader is one that     *)
(* takes no step.                                                              *)
EXTENDS Integers, FiniteSets, Sequences

CONSTANTS
  Frames,             \* the frames the camera can deliver
  ReadFailLimit,      \* read_fail_limit of the camera
  StaleAfter,         \* stale_after_s
  DropLimit,          \* max_consecutive_dropped_frames
  WindowFrames,       \* window_frames of the classifier
  HueMinFrames,       \* window_hue_min_frames
  Agreement,          \* consecutive_agreement_frames
  GreenWindow,        \* charging_green_window_s
  GreenFrames,        \* charging_green_required_frames
  GreenSpan,          \* charging_green_min_span_s
  GateTimeout,        \* boot_timeout_s
  MaxSleep            \* how long the sleep between two polls can really take

Hue == {"red", "green", "blue"}
NoHue    == {"unknown"}                    \* lit, but in none of the hues
Unusable == {"unusable"}

ASSUME GateAssumption ==
  /\ Frames \subseteq (SUBSET Hue) \union {NoHue, Unusable}
  /\ {ReadFailLimit, StaleAfter, DropLimit, WindowFrames, HueMinFrames, Agreement,
      GreenWindow, GreenFrames, GreenSpan, GateTimeout, MaxSleep} \subseteq Nat \ {0}
  /\ Agreement <= WindowFrames /\ GreenSpan <= GreenWindow

VARIABLES
  latest,             \* _latest of the camera, or NoFrame
  age,                \* polls since it was captured, StaleAfter + 1 for all older
  failures,           \* _consecutive_read_failures
  running,            \* _running
  pc,                 \* "idle" between calls, or the next step of the call
  t,                  \* now_s - start_s
  greens,             \* _green_timestamps
  granted,            \* granted of the current poll
  dropped,            \* _consecutive_dropped
  window,             \* _window: the last WindowFrames frames observed
  pending,            \* <<_pending_color, _agreement_count>>
  stable,             \* _stable_color
  answer,             \* what the last call returned
  seen,               \* history: what the polls of this call have seen
  greenAt,            \* history: those of them that saw green alone
  lastBad             \* history: the last of them that saw red or blue

camera     == <<latest, age, failures, running>>
policy     == <<greens, granted>>
classifier == <<dropped, window, pending, stable>>
history    == <<seen, greenAt, lastBad>>
vars == <<camera, pc, t, policy, classifier, answer, history>>

NoFrame  == {"no_frame"}
Nothing  == <<"none", 0>>
Color    == Hue \union {"booting", "off", "unknown"}
LeastOf(a, b) == IF a <= b THEN a ELSE b

-----------------------------------------------------------------------------
(* The reader thread, and the stop() and start() of an equipment refresh,      *)
(* which keep the last frame.                                                  *)
Capture ==
  /\ running
  /\ latest' \in Frames
  /\ age' = 0
  /\ failures' = 0
  /\ UNCHANGED <<running, pc, t, policy, classifier, answer, history>>

ReadFails ==
  /\ running /\ failures < ReadFailLimit
  /\ failures' = failures + 1
  /\ UNCHANGED <<latest, age, running, pc, t, policy, classifier, answer, history>>

Refresh ==
  /\ pc = "idle"
  /\ running' \in BOOLEAN                    \* start() may raise
  /\ failures' = IF running' THEN 0 ELSE failures
  /\ UNCHANGED <<latest, age, pc, t, policy, classifier, answer, history>>

(* The rest of the cycle, and its cooldown, go by between two calls. *)
TimePasses ==
  /\ pc = "idle"
  /\ age' = StaleAfter + 1
  /\ UNCHANGED <<latest, failures, running, pc, t, policy, classifier, answer, history>>

-----------------------------------------------------------------------------
(* Mutant: the classifier and the policy are not reset. *)
BeginGateUnreset ==
  /\ pc = "idle"
  /\ pc' = "poll" /\ answer' = "none" /\ t' = 0
  /\ seen' = {} /\ greenAt' = {} /\ lastBad' = -1
  /\ UNCHANGED <<camera, policy, classifier>>

BeginGate ==
  /\ pc = "idle"
  /\ pc' = "poll" /\ answer' = "none" /\ t' = 0
  /\ greens' = {} /\ granted' = FALSE
  /\ dropped' = 0 /\ window' = <<>> /\ pending' = Nothing /\ stable' = "none"
  /\ seen' = {} /\ greenAt' = {} /\ lastBad' = -1
  /\ UNCHANGED camera

(* classify_frame_detailed, from the hues present. *)
FrameColor(f) ==
  IF Cardinality(f) >= 2 THEN "booting" ELSE IF f = {} THEN "off" ELSE CHOOSE h \in f : TRUE

(* window_classification: a hue counts once enough frames of the window show   *)
(* it, two hues are the boot animation, and none is off if half of it is dark. *)
Shown(w, h)   == Cardinality({i \in DOMAIN w : h \in w[i]})
Present(w)    == {h \in Hue : Shown(w, h) >= LeastOf(HueMinFrames, Len(w))}
Dark(w)        == Cardinality({i \in DOMAIN w : w[i] = {}})
WindowColor(w) ==
  IF w # <<>> /\ (Present(w) # {} \/ 2 * Dark(w) >= Len(w)) THEN FrameColor(Present(w))
  ELSE "unknown"

(* observe and _update_agreement. *)
Observe(f) ==
  LET w == IF Len(window) < WindowFrames THEN Append(window, f) ELSE Append(Tail(window), f)
      color == WindowColor(w)
      count == IF pending[1] = color THEN pending[2] + 1 ELSE 1
  IN /\ dropped' = 0
     /\ window' = w
     /\ IF Len(w) < WindowFrames
          THEN pending' = Nothing /\ UNCHANGED stable
          ELSE /\ pending' = <<color, LeastOf(count, Agreement)>>
               /\ stable' = IF count >= Agreement THEN color ELSE stable

(* Mutant: red or blue only keeps this frame from counting. *)
RecordForgiving(f) ==
  LET evidence == {s \in greens : s >= t - GreenWindow} \union
                    (IF FrameColor(f) = "green" THEN {t} ELSE {})
  IN /\ greens' = evidence
     /\ granted' = (/\ FrameColor(f) = "green"
                    /\ Cardinality(evidence) >= GreenFrames
                    /\ \E s \in evidence : t - s >= GreenSpan)

(* Mutant: evidence is dropped before it can span GreenSpan. *)
RecordImpatient(f) ==
  LET evidence == IF FrameColor(f) = "green"
                    THEN {s \in greens : s >= t - GreenSpan + 1} \union {t} ELSE {}
  IN /\ greens' = evidence
     /\ granted' = (\E s \in evidence : t - s >= GreenSpan)

(* ChargingGatePolicy.record. *)
Record(f) ==
  LET recent == {s \in greens : s >= t - GreenWindow}
      evidence == IF f \intersect {"red", "blue"} # {} THEN {}
                  ELSE IF f = {"green"} THEN recent \union {t} ELSE recent
  IN /\ greens' = evidence
     /\ granted' = (/\ f = {"green"}
                    /\ Cardinality(evidence) >= GreenFrames
                    /\ \E s \in evidence : t - s >= GreenSpan)

-----------------------------------------------------------------------------
(* One poll: what sample_state returns decides what is done with the frame.    *)
(* Its health is only compared with FAILED, so an old frame is observed too.   *)
Usable == failures < ReadFailLimit /\ latest \notin {NoFrame, Unusable}

Drop ==
  /\ dropped' = dropped + 1
  /\ granted' = FALSE
  /\ UNCHANGED <<greens, window, pending, stable>>

Poll ==
  /\ pc = "poll" /\ t < GateTimeout /\ running
  /\ pc' = "judge"
  /\ IF Usable
       THEN /\ Observe(latest) /\ Record(latest)
            /\ seen' = seen \union {FrameColor(latest)}
            /\ greenAt' = IF latest = {"green"} THEN greenAt \union {t} ELSE greenAt
            /\ lastBad' = IF latest \intersect {"red", "blue"} # {} THEN t ELSE lastBad
       ELSE Drop /\ seen' = seen \union {"nothing"} /\ UNCHANGED <<greenAt, lastBad>>
  /\ UNCHANGED <<camera, t, answer>>

(* A camera that is not running makes sample_state raise. *)
PollRaises ==
  /\ pc = "poll" /\ t < GateTimeout /\ ~running
  /\ pc' = "degrade"
  /\ dropped' = dropped + 1
  /\ UNCHANGED <<camera, t, policy, window, pending, stable, answer, history>>

Judge ==
  /\ pc = "judge"
  /\ IF dropped >= DropLimit THEN pc' = "degrade" /\ UNCHANGED answer
     ELSE IF granted THEN pc' = "idle" /\ answer' = "granted"
     ELSE pc' = "sleep" /\ UNCHANGED answer
  /\ UNCHANGED <<camera, t, policy, classifier, history>>

(* Mutant: start_s is read at every poll, so the deadline never comes. *)
SleepRestartsClock ==
  /\ pc = "sleep"
  /\ \/ \E d \in 1 .. MaxSleep :
          /\ pc' = "poll" /\ t' = 0
          /\ age' = LeastOf(age + d, StaleAfter + 1) /\ UNCHANGED answer
     \/ pc' = "idle" /\ answer' = "stopped" /\ UNCHANGED <<t, age>>
  /\ UNCHANGED <<latest, failures, running, policy, classifier, history>>

(* A sleep ends the call when it notices the stop signal. *)
SleepOrStop ==
  /\ pc = "sleep"
  /\ \/ \E d \in 1 .. MaxSleep :
          /\ pc' = "poll" /\ t' = t + d
          /\ age' = LeastOf(age + d, StaleAfter + 1) /\ UNCHANGED answer
     \/ pc' = "idle" /\ answer' = "stopped" /\ UNCHANGED <<t, age>>
  /\ UNCHANGED <<latest, failures, running, policy, classifier, history>>

FixedWait ==
  /\ pc = "degrade"
  /\ pc' = "idle"
  /\ answer' \in {"degraded", "stopped"}
  /\ UNCHANGED <<camera, t, policy, classifier, history>>

(* observed_state at the deadline, and gate_timeout_action on it. *)
Observed == IF stable # "none" THEN stable ELSE WindowColor(window)

TimeOut ==
  /\ pc = "poll" /\ t >= GateTimeout
  /\ pc' = "idle"
  /\ answer' = IF Observed = "red" THEN "retry" ELSE "halt"
  /\ UNCHANGED <<camera, t, policy, classifier, history>>

-----------------------------------------------------------------------------
Init ==
  /\ latest = NoFrame /\ age = StaleAfter + 1 /\ failures = 0 /\ running = TRUE
  /\ pc = "idle" /\ t = 0 /\ greens = {} /\ granted = FALSE
  /\ dropped = 0 /\ window = <<>> /\ pending = Nothing /\ stable = "none"
  /\ answer = "none" /\ seen = {} /\ greenAt = {} /\ lastBad = -1

Reader == Capture \/ ReadFails

Gate == Poll \/ PollRaises \/ Judge \/ SleepOrStop \/ FixedWait \/ TimeOut

Next == Reader \/ Refresh \/ TimePasses \/ BeginGate \/ Gate

(* The main thread runs on; nothing is assumed of the reader thread. *)
Spec == Init /\ [][Next]_vars /\ WF_vars(Gate)

-----------------------------------------------------------------------------
(* A green segment of the boot animation never grants the gate: for GreenSpan  *)
(* before a grant no poll of this call has seen red or blue, however dark,     *)
(* lost and green frames alternate.                                            *)
BootAnimationNeverGrants == answer = "granted" => t - lastBad > GreenSpan

(* An answer rests on the polls of this very call, never on what an earlier    *)
(* one left in the policy or the classifier: the polls of this call that saw   *)
(* green, after the last red or blue and within the window, are by themselves  *)
(* enough for the grant, and one of its polls saw the red of a retry.  Which   *)
(* frame a poll looks at is another matter: see GrantedOnFreshFrame.           *)
NothingCarriedOver ==
  /\ answer = "granted" =>
       LET own == {s \in greenAt : s > lastBad /\ s >= t - GreenWindow} IN
         Cardinality(own) >= GreenFrames /\ \E s \in own : t - s >= GreenSpan
  /\ answer = "retry" => seen \intersect {"red", "booting"} # {}

(* The polls come often enough for the evidence: whatever the sleeps, a window *)
(* of steady green holds enough frames, far enough apart, before the deadline. *)
(* config.yaml's numbers do so with two seconds to spare; the configuration is *)
(* only checked for GreenSpan <= GreenWindow.                                  *)
PollsOftenEnough ==
  /\ GreenSpan + MaxSleep <= GreenWindow + 1
  /\ GreenSpan + MaxSleep <= GateTimeout
  /\ (GreenFrames - 1) * MaxSleep <= GreenWindow
  /\ (GreenFrames - 1) * MaxSleep < GateTimeout

(* The deadline never turns away a car whose LED was green in every poll.      *)
SteadyGreenIsGranted == answer \in {"retry", "halt"} => seen # {"green"}

(* The gate answers, whatever the reader thread does.                          *)
GateAnswers == pc = "poll" ~> pc = "idle"

-----------------------------------------------------------------------------
(* docs/hardware-abstraction-layer.md: a stale frame is reported as such       *)
(* rather than classified as if it were current, so it never grants the gate.  *)
GrantedOnFreshFrame == pc = "judge" /\ granted => age <= StaleAfter
=============================================================================
