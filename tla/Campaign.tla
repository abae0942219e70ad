------------------------------- MODULE Campaign -------------------------------
(* A whole `ccid start` (ccid/main.py): Sequencer.run called again and again   *)
(* by _run_campaign_with_auto_retry, and the shutdown of _execute_campaign,    *)
(* composed with module CycleSequencer.  The process ends with an exit code.   *)
EXTENDS CycleSequencer, FiniteSets

CONSTANTS
  NoTripLimit,        \* _NO_TRIP_RETRY_LIMIT
  OtherLimit          \* _OTHER_HALT_RETRY_LIMIT

ASSUME LimitAssumption == NoTripLimit \in Nat \ {0} /\ OtherLimit \in Nat \ {0}

VARIABLES
  noTripStreak,       \* no_trip_streak
  otherStreak,        \* other_streak
  exitCode,           \* of the process: -1 while undecided, 1 after a traceback
  alerts,             \* the notifications sent when the campaign ends
  lateInjections      \* history: injections since the stop signal came

campaignVars == <<noTripStreak, otherStreak, exitCode, alerts>>
vars == <<sequencerVars, campaignVars, lateInjections>>

CampaignPc   == {"start", "auto_sleep", "exec_stop", "exec_finally", "exit"}
CampaignSite == {"exec_stop", "exec_finally"}

-----------------------------------------------------------------------------
(* camera.start, the first thing inside the try block of _execute_campaign. *)
StartCamera ==
  /\ pc = "start"
  /\ \/ Goto("connect") /\ UNCHANGED exitCode
     \/ Goto("exec_finally") /\ exitCode' = 1
  /\ UNCHANGED <<contactorVars, position, store, world, noTripStreak, otherStreak,
                 alerts, lateInjections>>

(* Mutant: the streak limits are compared with >. *)
AutoRetryLate ==
  /\ pc = "returned"
  /\ LET base(streak) == IF progress THEN 0 ELSE streak
         noTrip == base(noTripStreak) + (IF outcome = "no_trip" THEN 1 ELSE 0)
         other  == base(otherStreak) + (IF outcome = "no_trip" THEN 0 ELSE 1)
     IN IF outcome = "complete" \/ noTrip > NoTripLimit \/ other > OtherLimit
          THEN Goto("exec_finally") /\ UNCHANGED <<noTripStreak, otherStreak>>
          ELSE noTripStreak' = noTrip /\ otherStreak' = other /\ Goto("auto_sleep")
  /\ UNCHANGED <<contactorVars, position, store, world, exitCode, alerts, lateInjections>>

(* One turn of the auto-retry loop, after run() has returned. *)
AutoRetry ==
  /\ pc = "returned"
  /\ LET base(streak) == IF progress THEN 0 ELSE streak
         noTrip == base(noTripStreak) + (IF outcome = "no_trip" THEN 1 ELSE 0)
         other  == base(otherStreak) + (IF outcome = "no_trip" THEN 0 ELSE 1)
         exhausted == IF outcome = "no_trip" THEN noTrip >= NoTripLimit
                                             ELSE other >= OtherLimit
     IN IF outcome = "complete"
          THEN Goto("exec_finally") /\ UNCHANGED <<noTripStreak, otherStreak>>
          ELSE /\ noTripStreak' = noTrip
               /\ otherStreak' = other
               /\ Goto(IF exhausted THEN "exec_finally" ELSE "auto_sleep")
  /\ UNCHANGED <<contactorVars, position, store, world, exitCode, alerts, lateInjections>>

(* The cooldown, then the next run starts past the cycle just attempted. *)
AutoSleep ==
  /\ pc = "auto_sleep"
  /\ IF Interrupted
       THEN pc' = "exec_stop" /\ outcome' = "stop" /\ UNCHANGED <<site, position>>
       ELSE /\ pc' = "connect" /\ outcome' = "running"
            /\ last' = IF last > cycle THEN last ELSE cycle
            /\ cycle' = last' + 1
            /\ progress' = FALSE
            /\ UNCHANGED <<site, retryUsed>>
  /\ UNCHANGED <<contactorVars, store, world, campaignVars, lateInjections>>

(* An exception has left run(): only StopRequested has a handler. *)
RunEscaped ==
  /\ pc = "escaped"
  /\ IF outcome = "stop"
       THEN Goto("exec_stop") /\ UNCHANGED exitCode
       ELSE Goto("exec_finally") /\ exitCode' = 1
  /\ UNCHANGED <<contactorVars, position, store, world, noTripStreak, otherStreak,
                 alerts, lateInjections>>

(* safe_off in the handler, and in the finally clause after camera.stop. *)
StopHandler ==
  /\ pc = "exec_stop"
  /\ StartSafeOff("exec_stop")
  /\ UNCHANGED <<position, store, world, campaignVars, lateInjections>>

ExecFinally ==
  /\ pc = "exec_finally"
  /\ StartSafeOff("exec_finally")
  /\ exitCode' \in {exitCode, 1}             \* camera.stop may raise
  /\ UNCHANGED <<position, store, world, noTripStreak, otherStreak, alerts, lateInjections>>

(* _finalize_result: reached only when nothing was raised on the way. *)
ExitCode(o) ==
  CASE o = "complete" -> 0 [] o = "no_trip" -> 2 [] o = "rig_fault" -> 3 [] OTHER -> 4

Finalize ==
  /\ Goto("exit")
  /\ IF exitCode = -1
       THEN /\ exitCode' = ExitCode(outcome)
            /\ alerts' = IF outcome = "complete" THEN {"complete"}
                         ELSE {"fault", "heartbeat_fail"}
       ELSE UNCHANGED <<exitCode, alerts>>

StopHandled ==
  /\ Goto("exec_finally")
  /\ IF offFailed = {} THEN exitCode' = 130 /\ alerts' = {"fault"}
                       ELSE exitCode' = 1 /\ UNCHANGED alerts

ShutdownSafeOffDone ==
  /\ pc = "safe_off"
  /\ site \in CampaignSite
  /\ SafeOffReturn
  /\ IF site = "exec_stop" THEN StopHandled ELSE Finalize
  /\ UNCHANGED <<position, store, world, noTripStreak, otherStreak, lateInjections>>

-----------------------------------------------------------------------------
Init ==
  /\ RunInit
  /\ pc = "start"
  /\ noTripStreak = 0 /\ otherStreak = 0 /\ exitCode = -1 /\ alerts = {}
  /\ lateInjections = 0

StopSignal == Signal /\ UNCHANGED <<campaignVars, lateInjections>>

CycleStep ==
  /\ RunStep
  /\ lateInjections' = lateInjections
       + (IF stop /\ usedGateCycles' # usedGateCycles THEN 1 ELSE 0)
  /\ UNCHANGED campaignVars

CampaignStep ==
  \/ StartCamera \/ CycleStep \/ AutoRetry \/ AutoSleep \/ RunEscaped \/ StopHandler \/ ExecFinally
  \/ ShutdownSafeOffDone

Next == CampaignStep \/ (pc # "exit" /\ StopSignal)

Spec == Init /\ [][Next]_vars /\ WF_vars(CampaignStep)

-----------------------------------------------------------------------------
TypeOK ==
  /\ ContactorTypeOK
  /\ pc \in RunPc \union CampaignPc /\ site \in RunSite \union CampaignSite
  /\ outcome \in {"running", "complete"} \union Halt \union Escape
  /\ cycle \in 1 .. Target + 1 /\ last \in 0 .. Target
  /\ retryUsed \in BOOLEAN /\ progress \in BOOLEAN
  /\ verdict \in Verdict \union {"none"}
  /\ rows \in [Cycles -> Verdict \union {"none"}]
  /\ disk \in [last : 0 .. Target, halt : Halt \union {"none"}]
  /\ scopeUsable \in BOOLEAN /\ stop \in BOOLEAN
  /\ noTripStreak \in 0 .. NoTripLimit /\ otherStreak \in 0 .. OtherLimit
  /\ exitCode \in {-1, 0, 1, 2, 3, 4, 130}
  /\ alerts \subseteq {"complete", "fault", "heartbeat_fail"}
  /\ lateInjections \in Nat

(* The waits of the whole campaign, the auto-retry cooldown included, find     *)
(* every contactor open.                                                       *)
CampaignWaitsDeenergized == pc \in RestPc \union {"auto_sleep"} => Deenergized

(* When the process ends, whatever ended it, the only contactors that can      *)
(* still be closed are those whose last open call failed.                      *)
ExitDeenergized ==
  pc = "exit" => \A k \in Contactor \ offFailed : ~commanded[k] /\ ~pin[k]

(* Auto-retry never goes on past a streak limit: over the cycles since the     *)
(* last measured one, fewer than NoTripLimit were NO_TRIP and fewer than       *)
(* OtherLimit ended otherwise, whatever order the two kinds came in.           *)
Good(c) == rows[c] = "MEASURED"
StreaksBounded ==
  \A a, b \in Cycles :
    b < cycle /\ (\A c \in a .. b : ~Good(c)) =>
      LET noTrips == {c \in a .. b : rows[c] = "NO_TRIP"} IN
        /\ Cardinality(noTrips) < NoTripLimit
        /\ Cardinality((a .. b) \ noTrips) < OtherLimit

(* Once the stop signal has come at most one more injection takes place.       *)
AtMostOneInjectionAfterStop == lateInjections <= 1

(* The exit code agrees with what runstate.json makes a later resume see: a    *)
(* halt that ended the campaign is on disk under its own kind, and exit code 2 *)
(* means that the cycle tried last is committed as a NO_TRIP.  Every exit but  *)
(* a traceback was reported, and as complete only with exit code 0.            *)
ExitCodeOnDisk ==
  pc = "exit" =>
    /\ exitCode = 2 => disk = [last |-> cycle, halt |-> "no_trip"] /\ rows[cycle] = "NO_TRIP"
    /\ exitCode = 3 => disk.halt = "rig_fault"
    /\ exitCode = 4 => disk.halt \in {"halted", "stop_halt"}
    /\ exitCode # 1 => alerts # {} /\ ("complete" \in alerts <=> exitCode = 0)

(* No cycle is run twice in a campaign, and none is committed out of turn: a   *)
(* row that exists never changes, and a new one is for a cycle past all        *)
(* others.                                                                     *)
RowsWrittenOnceInOrder ==
  [][\A c \in Cycles : rows'[c] # rows[c] =>
       \A d \in Cycles : rows[d] # "none" => d < c]_vars

(* Every campaign ends, with or without a signal. *)
CampaignEnds == <>(pc = "exit")

-----------------------------------------------------------------------------
(* The attempts of a campaign implement the injection window, one after the    *)
(* other: no second injection for an attempt, no answer before K3 is commanded *)
(* open, no new attempt before that.                                           *)
WindowStage ==
  CASE pc \in {"injected", "acquire", "acquire_open"} -> "polling"
    [] pc \in {"capture", "analyze", "commit", "commit_state"} -> "captured"
    [] pc \in {"timeout", "diag"} \/ (pc = "safe_off" /\ site = "timeout") -> "timedout"
    [] pc \in {"disk", "close_k1", "close_k2", "check_mains", "gate", "close_k3"} \union ScopeStage
       \/ (pc = "safe_off" /\ site = "start") -> "preparing"
    [] OTHER -> "over"

Window == INSTANCE InjectionWindow WITH stage <- WindowStage, closed <- commanded["K3"]

ImplementsWindow == Window!Spec

-----------------------------------------------------------------------------
(* Said by the source, and refuted by what it does. *)

(* ccid/main.py: exit code 0 means that the target cycle count was completed.  *)
ExitZeroMeansCompleted == pc = "exit" /\ exitCode = 0 => disk.last = Target

(* docs/cli-lifecycle-and-monitoring.md: StopRequested is caught only by    *)
(* _execute_campaign, so a stop never becomes a halt of the run.               *)
StopIsNotAHalt == disk.halt # "stop_halt"
=============================================================================
