------------------------------- MODULE Service -------------------------------
(* `ccid resume --latest` as a systemd service (ccid/main.py with              *)
(* deploy/ccid-automation.service): the watchdog and the sleep that pings it,  *)
(* SIGTERM and its time limit, the kill that leaves the contactors as they     *)
(* are, the restart, and the resume that a halt mark in runstate.json or an    *)
(* edited configuration refuses before anything touches the contactors.  Time  *)
(* is counted in ticks; what a campaign does between two sleeps takes any      *)
(* number of them.                                                             *)
EXTENDS Integers, FiniteSetsExt

CONSTANTS
  WatchdogSec,        \* systemd kills a service that has not pinged for so long
  RestartSec,         \* and starts it again after so long
  TimeoutStopSec,     \* a service told to stop is killed after so long
  HttpTimeout,        \* an alert is given up after so long
  SleepSecs           \* how long the campaign asks to sleep

(* A watchdog of one tick would be pinged at the full interval. *)
ASSUME ServiceAssumption ==
  /\ WatchdogSec \in Nat \ {0, 1} /\ RestartSec \in Nat /\ TimeoutStopSec \in Nat \ {0}
  /\ HttpTimeout \in 0 .. WatchdogSec - 1
  /\ SleepSecs \subseteq Nat

VARIABLES
  proc,               \* the service: see Proc
  phase,              \* of the campaign, while the process works or sleeps
  at,                 \* where in sleep() the process is, or "none"
  chunk, remaining,   \* of the sleep, still to come
  energized,          \* a contactor is closed, whether a process runs or not
  mark,               \* runstate.json has a halt_reason
  edited,             \* config.yaml no longer has the hash of runstate.json
  stop,               \* the service has been told to stop
  sincePing,          \* ticks since READY=1 or the last WATCHDOG=1
  sinceStop,          \* ticks since SIGTERM
  down,               \* ticks since the process ended
  worked,             \* history: of sincePing, the ticks not spent in sleep()
  unresolved          \* history: a halt that no later committed cycle followed

sleepVars == <<at, chunk, remaining>>
clocks    == <<sincePing, sinceStop, down, worked>>
vars == <<proc, phase, sleepVars, energized, mark, edited, stop, clocks, unresolved>>

Proc  == {"down", "loading", "alerting", "working", "sleeping", "stopped", "completed"}
Phase == {"rest", "attempt", "halting", "cooling", "ending"}
Alive == proc \in {"loading", "alerting", "working", "sleeping"}

(* Mutant: pinged at the full interval. *)
StepFull == WatchdogSec

(* _watchdog_interval_s: half of the interval, at least a tick. *)
Step == Max({1, WatchdogSec \div 2})

Init ==
  /\ proc = "loading" /\ phase = "rest" /\ at = "none" /\ chunk = 0 /\ remaining = 0
  /\ energized = FALSE /\ mark = FALSE /\ edited = FALSE /\ stop = FALSE
  /\ sincePing = 0 /\ sinceStop = 0 /\ down = 0 /\ worked = 0 /\ unresolved = FALSE

-----------------------------------------------------------------------------
(* Time passes: not past a deadline of systemd's without its kill.  Reading    *)
(* runstate.json takes none, an alert at most HttpTimeout.                     *)
Tick ==
  /\ \/ /\ proc = "down" /\ down < RestartSec
        /\ down' = down + 1
        /\ UNCHANGED <<chunk, sincePing, sinceStop, worked>>
     \/ /\ proc \in {"alerting", "working", "sleeping"}
        /\ sincePing < WatchdogSec /\ sinceStop < TimeoutStopSec
        /\ proc = "alerting" => worked < HttpTimeout
        /\ proc = "sleeping" => chunk > 0
        /\ chunk' = IF proc = "sleeping" THEN chunk - 1 ELSE chunk
        /\ worked' = IF proc = "sleeping" THEN worked ELSE worked + 1
        /\ sincePing' = sincePing + 1
        /\ sinceStop' = IF stop THEN sinceStop + 1 ELSE sinceStop
        /\ UNCHANGED down
  /\ UNCHANGED <<proc, phase, at, remaining, energized, mark, edited, stop, unresolved>>

(* The service is over, killed or not: it is started again unless it was told  *)
(* to stop.                                                                    *)
Over ==
  /\ proc' = IF stop THEN "stopped" ELSE "down"
  /\ phase' = "rest" /\ at' = "none" /\ chunk' = 0 /\ remaining' = 0
  /\ sincePing' = 0 /\ sinceStop' = 0 /\ down' = 0 /\ worked' = 0

(* A killed process runs no handler: the contactors stay as they are. *)
Kill ==
  /\ Alive
  /\ sincePing = WatchdogSec \/ sinceStop = TimeoutStopSec
  /\ Over
  /\ UNCHANGED <<energized, mark, edited, stop, unresolved>>

(* systemctl stop: SIGTERM, and no restart. *)
Stop ==
  /\ Alive /\ ~stop
  /\ stop' = TRUE
  /\ UNCHANGED <<proc, phase, sleepVars, energized, mark, edited, clocks, unresolved>>

Edit ==
  /\ edited' = TRUE
  /\ UNCHANGED <<proc, phase, sleepVars, energized, mark, stop, clocks, unresolved>>

(* READY=1 is the first thing the new process sends. *)
Restart ==
  /\ proc = "down" /\ down = RestartSec
  /\ proc' = "loading"
  /\ UNCHANGED <<phase, sleepVars, energized, mark, edited, stop, clocks, unresolved>>

-----------------------------------------------------------------------------
(* _cmd_resume: load_run_state raises, or the resume is announced.  Nothing    *)
(* has touched the contactors yet.                                             *)
Refused ==
  /\ proc = "loading" /\ (mark \/ edited)
  /\ Over
  /\ UNCHANGED <<energized, mark, edited, stop, unresolved>>

Load ==
  /\ proc = "loading" /\ ~mark /\ ~edited
  /\ proc' = "alerting"
  /\ UNCHANGED <<phase, sleepVars, energized, mark, edited, stop, clocks, unresolved>>

(* An operator overrides what refuses, on a service that is not running. *)
OperatorResumes ==
  /\ proc = "stopped"
  /\ proc' = "alerting" /\ stop' = FALSE
  /\ UNCHANGED <<phase, sleepVars, energized, mark, edited, clocks, unresolved>>

(* Mutant: the outputs are taken over as they are found. *)
BuildKeepsOutputs ==
  /\ proc = "alerting"
  /\ proc' = "working"
  /\ UNCHANGED <<phase, sleepVars, energized, mark, edited, stop, clocks, unresolved>>

(* build_hal_bundle: the outputs are claimed inactive. *)
Build ==
  /\ proc = "alerting"
  /\ proc' = "working" /\ energized' = FALSE
  /\ UNCHANGED <<phase, sleepVars, mark, edited, stop, clocks, unresolved>>

-----------------------------------------------------------------------------
(* The campaign, as far as the service is concerned. *)
Working(p) == proc = "working" /\ phase = p
Enter(p)   == phase' = p /\ UNCHANGED <<proc, sleepVars>>

Energize ==
  /\ Working("rest")
  /\ Enter("attempt") /\ energized' = TRUE
  /\ UNCHANGED <<mark, edited, stop, clocks, unresolved>>

(* record_cycle replaces runstate.json, halt mark included. *)
Commit ==
  /\ Working("attempt")
  /\ mark' \in BOOLEAN /\ unresolved' = mark'
  /\ Enter(IF mark' THEN "halting" ELSE "cooling")
  /\ UNCHANGED <<energized, edited, stop, clocks>>

(* _mark_halt_state comes before the safe_off of run(). *)
Halt ==
  /\ Working("attempt")
  /\ mark' = TRUE /\ unresolved' = TRUE
  /\ Enter("halting")
  /\ UNCHANGED <<energized, edited, stop, clocks>>

(* An error that no handler of the sequencer takes: safe_off, and a traceback. *)
Escape ==
  /\ Working("attempt")
  /\ energized' = FALSE
  /\ Enter("ending")
  /\ UNCHANGED <<mark, edited, stop, clocks, unresolved>>

(* sleep(seconds) begins: nothing is pinged before its first chunk is over.    *)
BeginSleep ==
  /\ proc' = "sleeping" /\ at' = "check" /\ chunk' = 0 /\ remaining' \in SleepSecs

AttemptSleeps ==
  /\ Working("attempt")
  /\ BeginSleep
  /\ UNCHANGED <<phase, energized, mark, edited, stop, clocks, unresolved>>

(* Mutant: the auto-retry clears the mark in the file too. *)
SafeOffThenSleepClears ==
  /\ proc = "working" /\ phase \in {"cooling", "halting"}
  /\ energized' = FALSE /\ mark' = FALSE
  /\ BeginSleep /\ phase' = "rest"
  /\ UNCHANGED <<edited, stop, clocks, unresolved>>

(* safe_off, then the cooldown of a cycle or of the auto-retry, which takes    *)
(* the halt out of its own state but not out of the file.                      *)
SafeOffThenSleep ==
  /\ proc = "working" /\ phase \in {"cooling", "halting"}
  /\ energized' = FALSE
  /\ BeginSleep /\ phase' = "rest"
  /\ UNCHANGED <<mark, edited, stop, clocks, unresolved>>

(* safe_off, and the streak limit is reached: the alerts of a halt are sent.   *)
GiveUp ==
  /\ Working("halting")
  /\ energized' = FALSE
  /\ Enter("ending")
  /\ UNCHANGED <<mark, edited, stop, clocks, unresolved>>

Exit ==
  /\ Working("ending")
  /\ Over
  /\ UNCHANGED <<energized, mark, edited, stop, unresolved>>

Complete ==
  /\ Working("rest")
  /\ proc' = "completed"
  /\ UNCHANGED <<phase, sleepVars, energized, mark, edited, stop, clocks, unresolved>>

-----------------------------------------------------------------------------
(* SystemdNotifier.sleep. *)
NextChunk ==
  /\ chunk' = Min({Step, remaining})
  /\ remaining' = remaining - chunk'
  /\ at' = "chunk"
  /\ UNCHANGED <<proc, phase, energized, mark, unresolved>>

Awake ==
  /\ proc' = "working" /\ at' = "none"
  /\ UNCHANGED <<phase, chunk, remaining, energized, mark, unresolved>>

(* StopRequested: in an attempt a halt like any other, so that the next check  *)
(* is the auto-retry's; elsewhere it ends the campaign.                        *)
Interrupted ==
  /\ proc' = "working" /\ at' = "none" /\ chunk' = 0 /\ remaining' = 0
  /\ UNCHANGED energized
  /\ IF phase = "attempt"
       THEN phase' = "halting" /\ mark' = TRUE /\ unresolved' = TRUE
       ELSE phase' = "ending" /\ UNCHANGED <<mark, unresolved>>

(* Mutant: the stop is looked at only when the sleep is over. *)
SleepLate ==
  /\ proc = "sleeping" /\ at = "check"
  /\ IF remaining > 0 THEN NextChunk ELSE IF stop THEN Interrupted ELSE Awake
  /\ UNCHANGED <<edited, stop, clocks>>

Sleep ==
  /\ proc = "sleeping" /\ at = "check"
  /\ IF stop THEN Interrupted ELSE IF remaining > 0 THEN NextChunk ELSE Awake
  /\ UNCHANGED <<edited, stop, clocks>>

Ping ==
  /\ proc = "sleeping" /\ at = "chunk" /\ chunk = 0
  /\ at' = "check" /\ sincePing' = 0 /\ worked' = 0
  /\ UNCHANGED <<proc, phase, chunk, remaining, energized, mark, edited, stop, sinceStop, down,
                 unresolved>>

Systemd  == Restart \/ Kill
Campaign ==
  \/ Refused \/ Load \/ Build \/ Energize \/ Commit \/ Halt \/ Escape
  \/ AttemptSleeps \/ SafeOffThenSleep \/ GiveUp \/ Exit \/ Complete \/ Sleep \/ Ping

Next == Tick \/ Systemd \/ Campaign \/ Stop \/ Edit \/ OperatorResumes

(* Time passes, systemd does what the unit says, and a process that is there   *)
(* gets to run; that a campaign ends, or an operator comes, is not assumed.    *)
Spec ==
  /\ Init /\ [][Next]_vars
  /\ WF_vars(Tick) /\ WF_vars(Restart) /\ WF_vars(Load) /\ WF_vars(Build)

-----------------------------------------------------------------------------
(* However long a sleep, the watchdog can strike in it only for what came      *)
(* before it: a campaign that had gone half an interval or more without a ping *)
(* when it fell asleep, and then only in the first chunk.                      *)
SleepOutlivesWatchdog ==
  proc = "sleeping" /\ sincePing = WatchdogSec => 2 * worked >= WatchdogSec

(* A stop that comes while the campaign sleeps ends the sleep within one       *)
(* chunk, whatever is left of the sleep and however late the stop came in it;  *)
(* one that came earlier is seen by the first check.                           *)
StopEndsSleep ==
  proc = "sleeping" /\ at = "chunk" => sinceStop <= Step - chunk

(* A halt that auto-retry went past is not forgotten by a kill: until a cycle  *)
(* commits after it, runstate.json still says so and a restart is refused.     *)
HaltNotForgotten == unresolved => mark

(* A process killed with the contactors closed is replaced by one that opens   *)
(* them, if resume is not refused.                                             *)
ReopenedAfterKill ==
  (proc = "down" /\ energized /\ ~mark /\ ~edited) ~> (~energized \/ edited)
=============================================================================
