---------------------------- MODULE CycleSequencer ----------------------------
(* One call of Sequencer.run (ccid/sequencer.py): the per-cycle protocol, with *)
(* every place an exception can leave it, driving the contactors of module     *)
(* Contactors.  pc names what the program does next.  The scope and the camera *)
(* are external: each call may answer, refuse or raise.  A stop signal only    *)
(* sets a flag; StopRequested is raised by the sleeps, which poll it.          *)
EXTENDS Contactors, Integers

CONSTANT Target       \* target_cycles

ASSUME CyclesAssumption == Target \in Nat \ {0} /\ Cycles = 1 .. Target

VARIABLES
  pc,                 \* the next step of the program
  site,               \* which call of safe_off is running
  outcome,            \* how the current cycle, or the run, ends
  cycle,              \* cycle_index
  last,               \* state.last_completed_cycle, in memory
  retryUsed,          \* retry_used of _run_cycle
  progress,           \* a cycle of this run completed: len(result.cycles) > 1
  verdict,            \* what the analysis says the CSV row will hold
  rows,               \* cycles.csv: cycle -> row
  disk,               \* runstate.json
  scopeUsable,        \* ~_connection_unusable
  stop                \* LifecycleSignals._requested is set

control  == <<pc, site, outcome>>
position == <<cycle, last, retryUsed, progress>>
store    == <<verdict, rows, disk>>
world    == <<scopeUsable, stop>>
sequencerVars == <<contactorVars, control, position, store, world>>

(* PASS and FAIL, which the control never tells apart, are MEASURED; REJECTED  *)
(* is a committed capture that failed a sanity check.                          *)
Verdict == {"MEASURED", "NO_TRIP", "REJECTED"}
Halt    == {"no_trip", "rig_fault", "halted", "stop_halt"}  \* stop_halt: unexpected:StopRequested
Escape  == {"stop", "error"}             \* the exception leaving run()

NextStage ==
  [configure |-> "ter", ter |-> "arm", arm |-> "armed1", armed1 |-> "armed2",
   armed2 |-> "armed3", armed3 |-> "ter_pre", ter_pre |-> "close_k3"]
ScopeStage   == DOMAIN NextStage
ScopeCheck   == ScopeStage \ {"configure", "arm"}    \* stages that may refuse
ThenSleeps   == {"armed1", "armed2"}                 \* followed by a plain sleep
PollSleeps   == {"armed1", "armed2", "armed3"}       \* sleep between polls

RunPc ==
  {"connect", "loop", "disk", "close_k1", "close_k2", "check_mains", "gate",
   "close_k3", "injected", "acquire", "acquire_open", "timeout", "diag", "capture",
   "analyze", "commit", "commit_state", "cooldown", "retry", "retry_sleep", "halt",
   "unwind", "safe_off", "returned", "escaped"} \union ScopeStage

AttemptSite == {"start", "gate_retry", "gate_halt", "scope", "timeout"}
RunSite     == AttemptSite \union {"retry", "commit", "finally"}

-----------------------------------------------------------------------------
Goto(p) == pc' = p /\ UNCHANGED <<site, outcome>>

(* LifecycleSignals.check, which every sleep calls: it raises once a signal has *)
(* come.  Mutant: the sleeps are plain ones.                                    *)
InterruptedNever == FALSE
Interrupted      == stop

(* An exception inside the try block of _run_cycle ends in its halt handlers. *)
Raise(o) == pc' = "halt" /\ outcome' = o /\ UNCHANGED site

(* One outside it leaves run() through the finally clause. *)
Unwind(o) == pc' = "unwind" /\ outcome' = o /\ UNCHANGED site

StartSafeOff(s) ==
  pc' = "safe_off" /\ site' = s /\ SafeOffBegin /\ UNCHANGED outcome

NoContactors == UNCHANGED contactorVars

Connect ==
  /\ pc = "connect"
  /\ \/ scopeUsable /\ Goto("loop")
     \/ pc' = "escaped" /\ outcome' = "error" /\ UNCHANGED site
  /\ UNCHANGED <<contactorVars, position, store, world>>

Loop ==
  /\ pc = "loop"
  /\ IF cycle > Target THEN Unwind("complete") ELSE Goto("disk")
  /\ retryUsed' = FALSE
  /\ verdict' = "none"
  /\ UNCHANGED <<contactorVars, cycle, last, progress, rows, disk, world>>

CheckDisk ==
  /\ pc = "disk"
  /\ StartSafeOff("start") \/ (Raise("halted") /\ NoContactors)
  /\ UNCHANGED <<position, store, world>>

CloseMain(k, here, next) ==
  /\ pc = here
  /\ \/ CloseMains(k) /\ Goto(next)
     \/ CloseFails(k) /\ Raise("halted")
  /\ UNCHANGED <<offVars, position, store, world>>

CheckMains(here, next) ==
  /\ pc = here
  /\ IF commanded["K1"] # commanded["K2"] THEN Raise("rig_fault") ELSE Goto(next)
  /\ UNCHANGED <<contactorVars, position, store, world>>

(* Charging was seen or the camera is lost; the DUT is faulted; it never       *)
(* charged; or a sleep of the gate noticed the stop signal.                    *)
Gate ==
  /\ pc = "gate"
  /\ \/ Goto("configure") /\ NoContactors
     \/ StartSafeOff("gate_retry")
     \/ StartSafeOff("gate_halt")
     \/ Interrupted /\ Raise("stop_halt") /\ NoContactors
  /\ UNCHANGED <<position, store, world>>

Scope(s) ==
  /\ pc = s
  /\ \/ (s \in ThenSleeps => ~Interrupted) /\ Goto(NextStage[s]) /\ NoContactors
     \/ s \in ScopeCheck /\ StartSafeOff("scope")
     \/ Raise("halted") /\ NoContactors
     \/ s \in PollSleeps /\ Interrupted /\ Raise("stop_halt") /\ NoContactors
  /\ UNCHANGED <<position, store, world>>

Inject ==
  /\ pc = "close_k3"
  /\ IF MayCloseK3(cycle)
       THEN \/ CloseK3(cycle) /\ Goto("injected")
            \/ CloseFails("K3") /\ Raise("halted")
       ELSE Raise("halted") /\ UNCHANGED deviceVars
  /\ UNCHANGED <<offVars, position, store, world>>

-----------------------------------------------------------------------------
(* The acquisition poll, seen from outside (module Acquisition opens it up):   *)
(* K3 is opened by the backstop, on completion or on timeout, before the poll  *)
(* gives its answer, and every one of its calls may raise.                     *)
(* Mutant: the answer of the poll does not wait for K3. *)
InjectionStaysClosed ==
  /\ pc = "acquire"
  /\ \E p \in {"capture", "timeout"} : Goto(p)
  /\ UNCHANGED <<contactorVars, position, store, world>>

OpenInjection ==
  /\ pc = "acquire"
  /\ \/ Open("K3") /\ \E p \in {"acquire_open", "capture", "timeout"} : Goto(p)
     \/ OpenFails("K3") /\ Raise("halted")
  /\ UNCHANGED <<offVars, position, store, world>>

AcquireEnds ==
  /\ \/ pc = "acquire_open" /\ \E p \in {"capture", "timeout"} : Goto(p)
     \/ pc \in {"acquire", "acquire_open"} /\ Raise("halted")
     \/ pc \in {"acquire", "acquire_open"} /\ Interrupted /\ Raise("stop_halt")
  /\ UNCHANGED <<contactorVars, position, store, world>>

(* Mutant: the slow diagnostics come before safe_off. *)
TimeoutDiagnosesFirst ==
  pc = "timeout" /\ Goto("diag") /\ UNCHANGED <<contactorVars, position, store, world>>

Timeout ==
  pc = "timeout" /\ StartSafeOff("timeout") /\ UNCHANGED <<position, store, world>>

Diagnose ==
  /\ pc = "diag"
  /\ scopeUsable' \in {scopeUsable, FALSE}
  /\ Raise("rig_fault")
  /\ UNCHANGED <<contactorVars, position, store, stop>>

-----------------------------------------------------------------------------
(* After the try block: transfer, analysis, commit. *)
Capture ==
  /\ pc = "capture"
  /\ Goto("analyze") \/ Unwind("error")
  /\ UNCHANGED <<contactorVars, position, store, world>>

VerdictOutcome(v) ==
  CASE v = "NO_TRIP" -> "no_trip" [] v = "REJECTED" -> "rig_fault" [] OTHER -> "running"

Analyze ==
  /\ pc = "analyze"
  /\ \/ \E v \in Verdict :
          verdict' = v /\ pc' = "commit" /\ outcome' = VerdictOutcome(v) /\ UNCHANGED site
     \/ Unwind("error") /\ UNCHANGED verdict
  /\ UNCHANGED <<contactorVars, position, rows, disk, world>>

(* record_cycle: the row first, then runstate.json; either write may fail. *)
(* Mutant: the CSV is opened for writing, not for appending. *)
CommitRowTruncates ==
  /\ pc = "commit"
  /\ rows' = [c \in Cycles |-> IF c = cycle THEN verdict ELSE "none"]
  /\ Goto("commit_state")
  /\ UNCHANGED <<contactorVars, position, verdict, disk, world>>

CommitRow ==
  /\ pc = "commit"
  /\ \/ /\ cycle = last + 1
        /\ rows' = [rows EXCEPT ![cycle] = verdict]
        /\ Goto("commit_state")
     \/ Unwind("error") /\ UNCHANGED rows
  /\ UNCHANGED <<contactorVars, position, verdict, disk, world>>

HaltField == IF outcome = "running" THEN "none" ELSE outcome

CommitState ==
  /\ pc = "commit_state"
  /\ \/ /\ disk' = [last |-> cycle, halt |-> HaltField]
        /\ last' = cycle
        /\ StartSafeOff("commit")
     \/ Unwind("error") /\ NoContactors /\ UNCHANGED <<disk, last>>
  /\ UNCHANGED <<cycle, retryUsed, progress, verdict, rows, world>>

(* Mutant: the index does not move on. *)
CooldownSameCycle ==
  /\ pc = "cooldown"
  /\ Goto("loop")
  /\ UNCHANGED <<contactorVars, position, store, world>>

Cooldown ==
  /\ pc = "cooldown"
  /\ IF Interrupted
       THEN Unwind("stop") /\ UNCHANGED <<cycle, progress>>
       ELSE Goto("loop") /\ cycle' = cycle + 1 /\ progress' = TRUE
  /\ UNCHANGED <<contactorVars, last, retryUsed, store, world>>

-----------------------------------------------------------------------------
(* Mutant: the retry is not noted, so a gate that asks for one again gets it. *)
RetryForgetsItself ==
  /\ pc = "retry"
  /\ StartSafeOff("retry")
  /\ UNCHANGED <<position, store, world>>

(* The handlers of _run_cycle. *)
Retry ==
  /\ pc = "retry"
  /\ IF retryUsed
       THEN Raise("halted") /\ NoContactors /\ UNCHANGED retryUsed
       ELSE StartSafeOff("retry") /\ retryUsed' = TRUE
  /\ UNCHANGED <<cycle, last, progress, store, world>>

RetrySleep ==
  /\ pc = "retry_sleep"
  /\ IF Interrupted THEN Unwind("stop") ELSE Goto("disk")
  /\ UNCHANGED <<contactorVars, position, store, world>>

(* Mutants: the handler falls through to the analysis; the mark is never saved. *)
MarkHaltFallsThrough ==
  /\ pc = "halt"
  /\ disk' = [last |-> last, halt |-> outcome]
  /\ Goto("analyze")
  /\ UNCHANGED <<contactorVars, position, verdict, rows, world>>

MarkHaltUnsaved ==
  /\ pc = "halt"
  /\ Unwind(outcome)
  /\ UNCHANGED <<contactorVars, position, store, world>>

MarkHalt ==
  /\ pc = "halt"
  /\ \/ disk' = [last |-> last, halt |-> outcome] /\ Unwind(outcome)
     \/ Unwind("error") /\ UNCHANGED disk
  /\ UNCHANGED <<contactorVars, position, verdict, rows, world>>

Finally ==
  pc = "unwind" /\ StartSafeOff("finally") /\ UNCHANGED <<position, store, world>>

SafeOffStep ==
  /\ pc = "safe_off"
  /\ SafeOffCall
  /\ UNCHANGED <<control, position, store, world>>

(* safe_off gives control back to its call site, or raises there. *)
SafeOffOk(s) ==
  CASE s = "start"      -> Goto("close_k1")
    [] s = "gate_retry" -> Goto("retry")
    [] s = "gate_halt"  -> Raise("halted")
    [] s = "scope"      -> Raise("rig_fault")
    [] s = "timeout"    -> Goto("diag")
    [] s = "retry"      -> Goto("retry_sleep")
    [] s = "commit"     -> Goto(IF outcome = "running" THEN "cooldown" ELSE "unwind")
    [] s = "finally"    -> \/ Goto(IF outcome \in Escape THEN "escaped" ELSE "returned")
                           \/ pc' = "escaped" /\ outcome' = "error" /\ UNCHANGED site

SafeOffRaises(s) ==
  CASE s \in AttemptSite         -> Raise("halted")
    [] s \in {"retry", "commit"} -> Unwind("error")
    [] s = "finally"             -> pc' = "escaped" /\ outcome' = "error" /\ UNCHANGED site

SafeOffDone ==
  /\ pc = "safe_off"
  /\ site \in RunSite
  /\ SafeOffReturn
  /\ IF offFailed = {} THEN SafeOffOk(site) ELSE SafeOffRaises(site)
  /\ UNCHANGED <<position, store, world>>

Signal ==
  /\ ~stop
  /\ stop' = TRUE
  /\ UNCHANGED <<contactorVars, control, position, store, scopeUsable>>

-----------------------------------------------------------------------------
(* pc is up to the composition. *)
RunInit ==
  /\ ContactorInit
  /\ site = "finally" /\ outcome = "running"
  /\ cycle = 1 /\ last = 0 /\ retryUsed = FALSE /\ progress = FALSE
  /\ verdict = "none" /\ rows = [c \in Cycles |-> "none"]
  /\ disk = [last |-> 0, halt |-> "none"]
  /\ scopeUsable = TRUE /\ stop = FALSE

RunStep ==
  \/ Connect \/ Loop \/ CheckDisk
  \/ CloseMain("K1", "close_k1", "close_k2")
  \/ CloseMain("K2", "close_k2", "check_mains")
  \/ CheckMains("check_mains", "gate") \/ CheckMains("injected", "acquire")
  \/ Gate \/ (\E s \in ScopeStage : Scope(s)) \/ Inject
  \/ OpenInjection \/ AcquireEnds \/ Timeout \/ Diagnose
  \/ Capture \/ Analyze \/ CommitRow \/ CommitState \/ Cooldown
  \/ Retry \/ RetrySleep \/ MarkHalt \/ Finally \/ SafeOffStep \/ SafeOffDone

-----------------------------------------------------------------------------
Deenergized == \A k \in Contactor : ~commanded[k] /\ ~pin[k]

(* Every place run() can stay in for long, or that the code says runs "never   *)
(* while anything is energized" (_refresh_equipment, run at "loop").           *)
RestPc == {"connect", "loop", "disk", "retry", "retry_sleep", "diag", "cooldown",
           "returned"}

(* K3 is physically closed only inside the injection window, or while a        *)
(* failure of this very cycle is on its way to the safe_off of run().          *)
K3OnlyDuringInjection ==
  pin["K3"] => pc \in {"injected", "acquire"} \/ outcome \in Halt \union Escape

(* The charging gate token of the cycle is always fresh and the mains are      *)
(* always closed when the sequencer injects: the interlock of the controller   *)
(* is a second line of defence that the protocol never runs into.              *)
InterlockNeverRefuses == pc = "close_k3" => MayCloseK3(cycle)

(* A verdict is only ever recorded for a cycle that was really injected,       *)
(* whatever retries, halts and skipped cycles came before it.                  *)
RowsStemFromInjections == \A c \in Cycles : rows[c] # "none" => c \in usedGateCycles
=============================================================================
