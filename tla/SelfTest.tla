------------------------------- MODULE SelfTest -------------------------------
(* tools/gpio_selftest.py, the commissioning tool, and the mains mismatch      *)
(* detector it probes, on the contactor controller.  A behaviour is either any *)
(* client of the controller that also polls the detector, or one run of the    *)
(* tool: `exercise` of one contactor or `mismatch-test`, on real GPIO whose    *)
(* calls may fail or on the simulator (ccid/hal/gpio_sim.py), whose calls fail *)
(* only by injection, which the tool never asks for.                           *)
EXTENDS Contactors, Integers

CONSTANTS
  MaxPulses,          \* bound: pulses of one exercise
  MaxStagger          \* bound: largest stagger window, in clock ticks

ASSUME SelfTestAssumption ==
  MaxPulses \in Nat /\ 1..MaxPulses \subseteq Cycles /\ MaxStagger \in Nat

Off == -1             \* a timer that is not running

VARIABLES
  user,               \* "client", "exercise" or "probe"
  real,               \* --real: GPIO that may fail
  selected,           \* the contactor an exercise pulses
  pulses,             \* --pulses
  step,               \* the tool's next call, or "ended"
  pulse,              \* pulse_index
  stagger,            \* allowed_stagger_ms
  timer,              \* age of _mismatch_started_s
  seen,               \* history: age of the first poll that saw this mismatch
  answer              \* what the detector has just answered

toolVars     == <<user, real, selected, pulses, step, pulse>>
detectorVars == <<stagger, timer, seen, answer>>
selfTestVars == <<contactorVars, toolVars, detectorVars>>

SelfTestInit ==
  /\ ContactorInit
  /\ user \in {"client", "exercise", "probe"}
  /\ real \in IF user = "client" THEN {TRUE} ELSE BOOLEAN
  /\ selected \in IF user = "exercise" THEN Contactor ELSE {"K1"}
  /\ pulses \in IF user = "exercise" THEN 1..MaxPulses ELSE {1}
  /\ step = IF user = "exercise" THEN "first_off" ELSE "close_k1"
  /\ pulse = 0
  /\ stagger \in 0..MaxStagger
  /\ timer = Off /\ seen = Off /\ answer = "none"

-----------------------------------------------------------------------------
(* detect_mains_command_mismatch: the timer starts at the poll that first sees *)
(* the commands differ and is cleared only by a poll that sees them agree.     *)
Differ == commanded["K1"] # commanded["K2"]

Started(age) == IF age = Off THEN 0 ELSE age

(* Mutant: the timer starts again at every poll. *)
TimerAtPollRestarts == IF Differ THEN 0 ELSE Off

TimerAtPoll == IF Differ THEN Started(timer) ELSE Off

Flags == Differ /\ IF timer = Off THEN stagger = 0 ELSE TimerAtPoll > stagger

Poll ==
  /\ timer' = TimerAtPoll
  /\ seen' = IF Differ THEN Started(seen) ELSE Off
  /\ answer' = IF Flags THEN "mismatch" ELSE "clear"
  /\ UNCHANGED <<stagger, contactorVars>>

(* Time passes for a running timer; past the widest window its age no longer   *)
(* matters.                                                                    *)
Aged(age, ticks) ==
  IF age = Off THEN Off
  ELSE IF age + ticks > MaxStagger THEN MaxStagger + 1 ELSE age + ticks

Elapse(ticks) ==
  /\ timer' = Aged(timer, ticks)
  /\ seen' = Aged(seen, ticks)
  /\ answer' = "none"
  /\ UNCHANGED <<stagger, contactorVars>>

(* A call to the controller: a mismatch it ends is no longer the one seen. *)
Called ==
  /\ seen' = IF commanded'["K1"] = commanded'["K2"] THEN Off ELSE seen
  /\ answer' = "none"
  /\ UNCHANGED <<stagger, timer>>

-----------------------------------------------------------------------------
(* Any client, as in Contactors, that polls whenever it likes. *)
Client ==
  /\ user = "client"
  /\ \/ (ClientCall \/ SafeOffBegin \/ SafeOffCall \/ SafeOffReturn) /\ Called
     \/ /\ Restart
        /\ timer' = Off /\ seen' = Off /\ answer' = "none"
        /\ UNCHANGED stagger
     \/ offStep = "idle" /\ Poll
     \/ Elapse(1)
  /\ UNCHANGED toolVars

-----------------------------------------------------------------------------
(* The tool's calls.  One that raises, or Ctrl-C, ends the body: the finally   *)
(* clause runs safe_off.  Only the first safe_off stands outside the try, with *)
(* everything still open.                                                      *)
Body == {"close_k1", "close_k2", "close", "hold", "open", "cooldown",
         "poll", "settle", "poll_again"}

AfterMains == IF user = "probe" THEN "poll"
              ELSE IF step = "close_k1" THEN "close_k2" ELSE "close"

(* Mutant: every pulse carries the same gate token. *)
GateTokenReused == 1

GateToken == pulse + 1

Closing == CASE step = "close_k1" -> "K1"
             [] step = "close_k2" -> "K2"
             [] step = "close" -> selected

ToolCloses ==
  /\ step \in {"close_k1", "close_k2", "close"}
  /\ IF Closing \in Mains THEN CloseMains(Closing) ELSE CloseK3(GateToken)
  /\ step' = IF step = "close" THEN "hold" ELSE AfterMains
  /\ pulse' = IF step = "close" THEN pulse + 1 ELSE pulse
  /\ UNCHANGED offVars

ToolOpens ==
  /\ step = "open"
  /\ Open(selected)
  /\ step' = IF pulse < pulses THEN "cooldown" ELSE "last_off"
  /\ UNCHANGED <<offVars, pulse>>

(* The device raises, or the interlock refuses. *)
Refused ==
  \/ step = "close" /\ selected = "K3" /\ ~MayCloseK3(GateToken)
  \/ step = "open" /\ ~MayOpen(selected)

ToolCallRaises ==
  /\ step \in {"close_k1", "close_k2", "close", "open"}
  /\ IF Refused THEN UNCHANGED deviceVars
     ELSE real /\ IF step = "open" THEN OpenFails(selected) ELSE CloseFails(Closing)
  /\ step' = "last_off"
  /\ UNCHANGED <<offVars, pulse>>

ToolInterrupted ==
  /\ step \in Body
  /\ step' = "last_off"
  /\ UNCHANGED <<contactorVars, pulse>>

(* safe_off, whose calls fail only on real GPIO; an error it reports ends the  *)
(* tool, before the body or after it.                                          *)
ToolSafeOff ==
  /\ step \in {"first_off", "last_off"}
  /\ \/ SafeOffBegin /\ UNCHANGED step
     \/ /\ SafeOffCall
        /\ real \/ \A k \in Contactor : lastOk'[k]
        /\ UNCHANGED step
     \/ /\ SafeOffReturn
        /\ step' = IF step = "last_off" \/ offFailed # {} THEN "ended"
                   ELSE IF selected = "K3" THEN "close_k1" ELSE "close"
  /\ UNCHANGED pulse

Exercises ==
  /\ ToolCloses \/ ToolOpens \/ ToolCallRaises \/ ToolInterrupted \/ ToolSafeOff
  /\ Called

(* clock.sleep of a hold or a cooldown; the probe sleeps the window and a     *)
(* margin.                                                                     *)
ToolSleeps ==
  /\ \/ step = "hold" /\ step' = "open" /\ Elapse(1)
     \/ step = "cooldown" /\ step' = "close" /\ Elapse(1)
     \/ step = "settle" /\ step' = "poll_again" /\ Elapse(stagger + 1)
  /\ UNCHANGED pulse

ToolPolls ==
  /\ \/ step = "poll" /\ step' = "settle"
     \/ step = "poll_again" /\ step' = "last_off"
  /\ Poll
  /\ UNCHANGED pulse

Tool ==
  /\ user # "client"
  /\ Exercises \/ ToolSleeps \/ ToolPolls
  /\ UNCHANGED <<user, real, selected, pulses>>

ToolEnded == step = "ended" /\ UNCHANGED selfTestVars

SelfTestNext == Client \/ Tool \/ ToolEnded

SelfTestSpec == SelfTestInit /\ [][SelfTestNext]_selfTestVars

-----------------------------------------------------------------------------
(* The tool drives the interlocked API the way the interlock wants it: no call *)
(* of an exercise is refused, however many pulses and whatever the device did  *)
(* before; a refusal would end a commissioning run half way.                   *)
ToolNeverRefused == user # "client" => ~Refused

(* The detector is never late: whatever was commanded and polled before, a     *)
(* poll that finds a mismatch an earlier poll already saw, longer ago than the *)
(* stagger window, reports it.  On a fresh detector, as mismatch-test has it,  *)
(* it is never early either, but for a window of nothing, which the first poll *)
(* already finds exceeded.                                                     *)
DetectorKeepsWindow ==
  /\ answer = "clear" /\ Differ => seen <= stagger
  /\ answer = "mismatch" /\ user = "probe" => stagger = 0 \/ seen > stagger
=============================================================================
