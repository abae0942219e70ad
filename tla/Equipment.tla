------------------------------ MODULE Equipment ------------------------------
(* The bench equipment over a whole campaign: Sequencer.run, the refresh at    *)
(* the head of a cycle, every call a cycle makes to the oscilloscope with the  *)
(* handler its failure finds, the diagnostics after a timeout and the files    *)
(* they leave, and the auto-retry that calls run() again.  Contactors and      *)
(* runstate.json are modules CycleSequencer's and Recorder's.                  *)
EXTENDS ScopeSession, Sequences

CONSTANTS
  Target,             \* target_cycles
  Interval,           \* equipment_refresh_interval_cycles; 0: no schedule
  Threshold,          \* equipment_refresh_after_consecutive_camera_unavailable
  Leftovers           \* what an earlier process can have left of a cycle's files

ASSUME EquipmentAssumption == Target \in Nat \ {0} /\ Interval \in Nat /\ Threshold \in Nat

VARIABLES
  pc,                 \* what the program does next
  stage,              \* the call of the cycle that is running, or "none"
  observing,          \* a best-effort read runs, after (or during) that stage
  probe,              \* the next operation of capture_timeout_diagnostics
  ending,             \* why run() is being left: "none", "halt", "escape", "complete"
  cycle,              \* cycle_index
  streak,             \* camera_unavailable_streak, local to run()
  flagged,            \* camera_unavailable is among the cycle's degraded_flags
  camera,             \* the camera is started
  evidence,           \* files this attempt wrote under diagnostics/<cycle>/
  leftover,           \* the others there, an earlier process's
  committed,          \* cycles.csv has the row of this cycle
  worn, wornInRun     \* history: cycles in a row without the camera, since the
                      \* last refresh and, of these, in this run()

files     == <<evidence, leftover>>
cycleVars == <<stage, observing, probe, flagged, files, committed>>
wearVars  == <<streak, worn, wornInRun>>
vars == <<sessionVars, pc, ending, cycle, camera, cycleVars, wearVars>>

Goto(where) == pc' = where

-----------------------------------------------------------------------------
(* Sequencer.run: connect is outside its try block. *)
RunBegins ==
  /\ pc = "connect"
  /\ \/ ConnectOk /\ Goto("head")
     \/ ConnectRaises /\ Goto("exit")
  /\ streak' = 0 /\ wornInRun' = 0 /\ ending' = "none"
  /\ UNCHANGED <<cycle, camera, cycleVars, worn>>

(* Mutant: the reactive refresh comes one cycle late. *)
DueLate ==
  \/ Interval > 0 /\ cycle % Interval = 0
  \/ Threshold > 0 /\ streak > Threshold

(* _maybe_refresh_equipment: on schedule, or after a streak. *)
Due ==
  \/ Interval > 0 /\ cycle % Interval = 0
  \/ Threshold > 0 /\ streak >= Threshold

(* The head of the loop.  A cycle starts with nothing of its own, but nothing  *)
(* is deleted: a cycle attempted before a resume finds the files of then.      *)
BeginCycle ==
  /\ pc = "head"
  /\ IF cycle > Target
       THEN Goto("finally") /\ ending' = "complete" /\ UNCHANGED <<wearVars, cycleVars>>
       ELSE /\ stage' = "none" /\ observing' = FALSE /\ probe' = "none"
            /\ flagged' = FALSE /\ committed' = FALSE
            /\ evidence' = {} /\ leftover' \in Leftovers
            /\ UNCHANGED ending
            /\ IF Due THEN Goto("refresh") /\ streak' = 0 /\ worn' = 0 /\ wornInRun' = 0
                      ELSE Goto("gate") /\ UNCHANGED wearVars
  /\ UNCHANGED <<sessionVars, cycle, camera>>

(* _refresh_equipment: camera, then oscilloscope; what raises is swallowed, so *)
(* each half can end after any of its calls.                                   *)
RefreshCamera ==
  /\ pc = "refresh"
  /\ camera' \in BOOLEAN
  /\ Goto("disconnect")
  /\ UNCHANGED <<sessionVars, ending, cycle, cycleVars, wearVars>>

RefreshDisconnect ==
  /\ pc = "disconnect"
  /\ Disconnect
  /\ Goto("reconnect") \/ (DisconnectMayRaise /\ Goto("gate"))
  /\ UNCHANGED <<ending, cycle, camera, cycleVars, wearVars>>

RefreshReconnect ==
  /\ pc = "reconnect"
  /\ ConnectOk \/ ConnectRaises
  /\ Goto("gate")
  /\ UNCHANGED <<ending, cycle, camera, cycleVars, wearVars>>

(* From the disk check to the answer of the charging gate.  A camera that is   *)
(* not started can only be unavailable.  The one retry of a gate that timed    *)
(* out comes back here, unless its safe_off or its cooldown raises.            *)
Gate ==
  /\ pc = "gate"
  /\ \/ /\ Goto("stage") /\ stage' = "stop"
        /\ flagged' \in (IF camera THEN BOOLEAN ELSE {TRUE})
        /\ UNCHANGED ending
     \/ /\ \/ pc' \in {"halt", "exception"} /\ UNCHANGED ending
           \/ Goto("finally") /\ ending' = "escape"
        /\ flagged' \in BOOLEAN
        /\ UNCHANGED stage
  /\ UNCHANGED <<sessionVars, cycle, camera, observing, probe, files, committed, wearVars>>

-----------------------------------------------------------------------------
(* configure_for_cycle: stop and see it stopped, the settings, the barrier,    *)
(* then the error queue.                                                       *)
NextSetting ==
  [stop |-> "stopped", stopped |-> "settings", settings |-> "opc", opc |-> "errors"]

(* The calls of a cycle, in order.  After each of those past the configuration *)
(* and up to the injection, and during the acquisition, the operation          *)
(* condition is read for the timeline only.                                    *)
AfterConfigure ==
  [errors |-> "baseline", baseline |-> "arm", arm |-> "armed", armed |-> "pretrigger",
   pretrigger |-> "acquire", acquire |-> "acquire"]
Observable == DOMAIN AfterConfigure
Attempted  == DOMAIN NextSetting \union Observable

(* The stages whose answer can itself end the cycle: a scope that does not     *)
(* stop, a rejected setting, a stale or early trigger, a scope that is not     *)
(* armed, a K3 that does not move; a value that does not parse, or a stop.     *)
Decisive == {"stopped", "errors", "baseline", "armed", "pretrigger", "acquire"}

BeginCall ==
  /\ pc = "stage" /\ CallBegins
  /\ UNCHANGED <<pc, ending, cycle, camera, cycleVars, wearVars>>

FailedAttempt ==
  /\ pc = "stage" /\ AttemptFails
  /\ UNCHANGED <<pc, ending, cycle, camera, cycleVars, wearVars>>

(* The handler each call finds: none for an observation or the forced capture, *)
(* whose failures are logged; the except clauses of _run_cycle in an attempt;  *)
(* and for the transfer of a measurement, none before the caller of run().     *)
CallRaised(handled) ==
  IF observing
    THEN observing' = FALSE /\ stage' = AfterConfigure[stage] /\ UNCHANGED <<pc, probe, ending>>
  ELSE IF stage = "forced"
    THEN Goto("probe") /\ probe' = "timeout" /\ stage' = "none" /\ UNCHANGED <<observing, ending>>
  ELSE IF stage = "capture"
    THEN Goto("finally") /\ ending' = "escape" /\ UNCHANGED <<stage, observing, probe>>
  ELSE Goto(handled) /\ UNCHANGED <<stage, observing, probe, ending>>

(* ScopeRealError when there is no session or no attempt is left; the          *)
(* exception of the VISA library when no session can be opened again.          *)
CallRaises ==
  /\ pc = "stage"
  /\ \/ attempt = 0 /\ ~Connected /\ UNCHANGED sessionVars /\ CallRaised("halt")
     \/ CallExhausted /\ CallRaised("halt")
     \/ ReopenRaises /\ CallRaised("exception")
  /\ UNCHANGED <<cycle, camera, flagged, files, committed, wearVars>>

Observed ==
  /\ pc = "stage" /\ observing /\ CallAnswers
  /\ observing' = FALSE /\ stage' = AfterConfigure[stage]
  /\ UNCHANGED <<pc, ending, cycle, camera, probe, flagged, files, committed, wearVars>>

StageAnswered ==
  /\ pc = "stage" /\ stage \in Attempted /\ ~observing /\ CallAnswers
  /\ \/ /\ stage \in DOMAIN NextSetting
        /\ stage' = NextSetting[stage] /\ UNCHANGED <<pc, observing>>
     \/ stage \in Observable /\ observing' = TRUE /\ UNCHANGED <<pc, stage>>
     \/ stage \in Decisive /\ pc' \in {"halt", "exception"} /\ UNCHANGED <<stage, observing>>
  /\ UNCHANGED <<ending, cycle, camera, probe, flagged, files, committed, wearVars>>

(* The acquisition is over: a record to transfer, or a timeout, whose          *)
(* diagnostics come after safe_off, the forced capture first if there was one. *)
Acquired ==
  /\ pc = "stage" /\ stage = "acquire" /\ ~observing /\ CallAnswers
  /\ \/ stage' \in {"capture", "forced"} /\ UNCHANGED <<pc, probe>>
     \/ Goto("probe") /\ probe' = "timeout" /\ stage' = "none"
  /\ UNCHANGED <<ending, cycle, camera, observing, flagged, files, committed, wearVars>>

-----------------------------------------------------------------------------
(* What the recorder writes under diagnostics/<cycle>/, file by file; a write  *)
(* that fails ends the rest, and is logged.                                    *)
WriteFiles(names) ==
  \E n \in 0 .. Len(names) : LET written == {names[i] : i \in 1 .. n} IN
    evidence' = evidence \union written /\ leftover' = leftover \ written

WriteTimeout   == WriteFiles(<<"scope_timeout.png", "scope_state.json", "scope_errors.txt">>)
WriteForced    == WriteFiles(<<"forced_waveform.npz", "forced_scope.png", "forced_state.json">>)
WriteException == WriteFiles(<<"controller_exception.json">>)

ForcedCapture ==
  /\ pc = "stage" /\ stage = "forced" /\ CallAnswers
  /\ Goto("probe") /\ probe' = "timeout" /\ stage' = "none"
  /\ WriteForced
  /\ UNCHANGED <<ending, cycle, camera, observing, flagged, committed, wearVars>>

(* capture_timeout_diagnostics: nothing without a session; else one operation  *)
(* after another until one raises or the budget is spent.                      *)
Diagnose ==
  /\ pc = "probe"
  /\ IF ~Connected
       THEN UNCHANGED sessionVars /\ Goto("bundle") /\ UNCHANGED probe
       ELSE \/ ProbeAnswers(probe) /\ probe' = NextProbe[probe]
               /\ Goto(IF probe = "png" THEN "bundle" ELSE "probe")
            \/ ProbeRaises(probe) /\ Goto("bundle") /\ UNCHANGED probe
            \/ OutOfBudget(probe) /\ UNCHANGED sessionVars /\ Goto("bundle") /\ UNCHANGED probe
  /\ UNCHANGED <<ending, cycle, camera, stage, observing, flagged, files, committed, wearVars>>

Bundle ==
  /\ pc = "bundle"
  /\ WriteTimeout
  /\ Goto("halt")
  /\ UNCHANGED <<sessionVars, ending, cycle, camera, stage, observing, probe, flagged, committed,
                 wearVars>>

(* Mutant: the handler of unexpected exceptions goes on to the transfer. *)
UnexpectedFallsThrough ==
  /\ pc = "exception"
  /\ WriteException
  /\ Goto("stage") /\ stage' = "capture" /\ observing' = FALSE
  /\ UNCHANGED <<sessionVars, ending, cycle, camera, probe, flagged, committed, wearVars>>

Unexpected ==
  /\ pc = "exception"
  /\ WriteException
  /\ Goto("halt")
  /\ UNCHANGED <<sessionVars, ending, cycle, camera, stage, observing, probe, flagged, committed,
                 wearVars>>

-----------------------------------------------------------------------------
(* After every cycle, halted or not, run() counts those without the camera.    *)
CountCamera ==
  LET next(n) == IF flagged THEN n + 1 ELSE 0 IN
  streak' = next(streak) /\ worn' = next(worn) /\ wornInRun' = next(wornInRun)

(* The halt mark is written, or not. *)
HaltCycle ==
  /\ pc = "halt"
  /\ Goto("finally") /\ ending' \in {"halt", "escape"}
  /\ CountCamera
  /\ UNCHANGED <<sessionVars, cycle, camera, cycleVars>>

(* The record is transferred, analysed and committed; the verdict may halt.  A *)
(* write that fails, before or after the row, escapes from run().              *)
Commit ==
  /\ pc = "stage" /\ stage = "capture" /\ CallAnswers
  /\ \/ /\ committed' = TRUE /\ CountCamera
        /\ \/ Goto("head") /\ cycle' = cycle + 1 /\ UNCHANGED ending
           \/ Goto("finally") /\ ending' = "halt" /\ UNCHANGED cycle
     \/ /\ committed' \in BOOLEAN
        /\ Goto("finally") /\ ending' = "escape" /\ UNCHANGED <<cycle, wearVars>>
  /\ UNCHANGED <<camera, stage, observing, probe, flagged, files>>

(* The finally clause of run(): safe_off, then disconnect, which runs even     *)
(* when safe_off raised.  Either may replace the result by an exception.       *)
Finally ==
  /\ pc = "finally"
  /\ Disconnect
  /\ \/ ending = "halt" /\ Goto("auto")
     \/ Goto("exit")
  /\ UNCHANGED <<ending, cycle, camera, cycleVars, wearVars>>

(* The auto-retry goes past the cycle just attempted, or gives up. *)
AutoRetry ==
  /\ pc = "auto"
  /\ \/ Goto("connect") /\ cycle' = cycle + 1
     \/ Goto("exit") /\ UNCHANGED cycle
  /\ UNCHANGED <<sessionVars, ending, camera, cycleVars, wearVars>>

Init ==
  /\ SessionInit
  /\ pc = "connect" /\ ending = "none" /\ cycle = 1 /\ camera = TRUE
  /\ stage = "none" /\ observing = FALSE /\ probe = "none" /\ flagged = FALSE
  /\ evidence = {} /\ leftover = {} /\ committed = FALSE
  /\ streak = 0 /\ worn = 0 /\ wornInRun = 0

Next ==
  \/ RunBegins \/ BeginCycle \/ RefreshCamera \/ RefreshDisconnect \/ RefreshReconnect \/ Gate
  \/ BeginCall \/ FailedAttempt \/ CallRaises \/ Observed \/ StageAnswered \/ Acquired
  \/ ForcedCapture \/ Diagnose \/ Bundle \/ Unexpected
  \/ HaltCycle \/ Commit \/ Finally \/ AutoRetry

Spec == Init /\ [][Next]_vars

-----------------------------------------------------------------------------
(* Once a diagnostics query has failed nothing touches the instrument again,   *)
(* not even a close, whatever handlers and auto-retries come after; and no     *)
(* further cycle begins, so no EVSE is energized for a scope that cannot       *)
(* measure.                                                                    *)
WedgedLeftAlone ==
  wedged => /\ ~touched
            /\ pc \in {"bundle", "halt", "finally", "auto", "connect", "exit"}

(* Every attempt of every call of a cycle runs on an open session that has its *)
(* full timeout: never on one the refresh or a failed reconnection dropped,    *)
(* and never on the one whose timeout the diagnostics cut to a second.         *)
CallsOnFullSession == attempt > 0 => inst /\ ~quick

(* Whatever ended run(), it holds no session afterwards, so the next run()     *)
(* opens one of its own; only a connect that failed keeps a resource manager.  *)
SessionReleased ==
  /\ pc \in {"auto", "connect", "exit"} => ~inst
  /\ pc \in {"auto", "connect"} => ~rm

(* A camera that stays unavailable is refreshed in time: within a run() after  *)
(* Threshold cycles, and, since every auto-retry starts the streak from        *)
(* nothing, after Interval cycles by the schedule.                             *)
RefreshDue ==
  /\ Threshold > 0 => wornInRun <= Threshold
  /\ Interval > 0 => worn <= Interval

(* An attempt that wrote down a failure, a timeout or an exception, commits no *)
(* row: what it saw fail is never also counted as measured.  The row of a      *)
(* later attempt, after a resume, can lie beside the files of this one.        *)
FailedAttemptHasNoRow == committed => evidence = {}
=============================================================================
