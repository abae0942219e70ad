--------------------------- MODULE Campaign_proofs ---------------------------
(* A campaign of any length, with any streak limits, is a legal client of the  *)
(* contactor controller, so everything proved of the controller holds in it;   *)
(* and its own order of operations, retries, halts and shutdowns keeps the     *)
(* contactors open wherever it waits, the gate tokens fresh and the rows of    *)
(* cycles.csv tied to injections.                                              *)
EXTENDS Campaign, Contactors_proofs, FiniteSetTheorems

(* Where an attempt stands. *)
PreInjection ==
  {"start", "connect", "loop", "disk", "close_k1", "close_k2", "check_mains", "gate",
   "close_k3", "retry", "retry_sleep"} \union ScopeStage
Injected   == {"injected", "acquire", "acquire_open", "capture", "analyze", "commit"}
Attempting == PreInjection \union (Injected \ {"commit"}) \union {"timeout", "diag", "cooldown"}
RetrySite  == {"start", "gate_retry", "retry"}
OverSite   == {"exec_stop", "exec_finally"}

(* Control: types, who owns safe_off, and which outcome goes with which step.  *)
ControlOK ==
  /\ pc \in RunPc \union CampaignPc /\ site \in RunSite \union CampaignSite
  /\ outcome \in {"running", "complete"} \union Halt \union Escape
  /\ offStep = "idle" <=> pc # "safe_off"
  /\ pc \in Attempting \/ (pc = "safe_off" /\ site \in AttemptSite \union {"retry"})
       => outcome = "running"
  /\ pc \in {"commit", "commit_state"} \/ (pc = "safe_off" /\ site = "commit")
       => outcome \in {"running", "no_trip", "rig_fault"}
  /\ pc \in {"halt", "auto_sleep"} => outcome \in Halt
  /\ pc = "returned" => outcome \in Halt \union {"complete"}
  /\ pc = "unwind" \/ (pc = "safe_off" /\ site = "finally") => outcome # "running"

(* Position: the index leaves the range of the run only to complete it.        *)
PositionOK ==
  /\ cycle \in 1 .. Target + 1 /\ last \in 0 .. Target
  /\ cycle <= Target \/ pc \in {"connect", "loop"} \/ outcome \in {"complete", "error"}

StoreOK ==
  /\ verdict \in Verdict \union {"none"}
  /\ rows \in [Cycles -> Verdict \union {"none"}]
  /\ disk \in [last : 0 .. Target, halt : Halt \union {"none"}]

FlagsOK ==
  /\ retryUsed \in BOOLEAN /\ progress \in BOOLEAN
  /\ scopeUsable \in BOOLEAN /\ stop \in BOOLEAN

(* Both streaks are below their limits until the campaign gives up.            *)
StreaksOK ==
  /\ noTripStreak \in 0 .. NoTripLimit /\ otherStreak \in 0 .. OtherLimit
  /\ pc \in {"exec_finally", "exit"} \/ (pc = "safe_off" /\ site = "exec_finally")
       \/ (noTripStreak < NoTripLimit /\ otherStreak < OtherLimit)
  /\ exitCode \in {-1, 0, 1, 2, 3, 4, 130}
  /\ alerts \subseteq {"complete", "fault", "heartbeat_fail"}

ProgramInv == ControlOK /\ PositionOK /\ StoreOK /\ FlagsOK /\ StreaksOK

(* The seven scope operations before K3 closes, and where each one leads. *)
LEMMA StageFacts ==
  /\ ScopeStage = {"configure", "ter", "arm", "armed1", "armed2", "armed3", "ter_pre"}
  /\ \A s \in ScopeStage : NextStage[s] \in ScopeStage \union {"close_k3"}
<1>1. DOMAIN NextStage = {"configure", "ter", "arm", "armed1", "armed2", "armed3", "ter_pre"}
  BY DEF NextStage
<1>2. \A s \in DOMAIN NextStage : NextStage[s] \in DOMAIN NextStage \union {"close_k3"}
  BY <1>1 DEF NextStage
<1> QED BY <1>1, <1>2 DEF ScopeStage

(* A campaign starts in order. *)
LEMMA ProgramInit == Init => ProgramInv
<1> SUFFICES ASSUME Init PROVE ProgramInv
  OBVIOUS
<1> USE DEF Init, RunInit, ContactorInit
<1>1. ControlOK
  BY DEF ControlOK, CampaignPc, RunSite
<1>2. PositionOK
  <2>1. 1 \in 1 .. Target + 1 /\ 0 \in 0 .. Target /\ 1 <= Target
    BY CyclesAssumption
  <2> QED BY <2>1 DEF PositionOK
<1>3. StoreOK
  <2>1. rows \in [Cycles -> Verdict \union {"none"}]
    OBVIOUS
  <2>2. disk \in [last : 0 .. Target, halt : Halt \union {"none"}]
    BY CyclesAssumption
  <2> QED BY <2>1, <2>2 DEF StoreOK
<1>4. StreaksOK
  <2>1. 0 \in 0 .. NoTripLimit /\ 0 < NoTripLimit /\ 0 \in 0 .. OtherLimit /\ 0 < OtherLimit
    BY LimitAssumption
  <2> QED BY <2>1 DEF StreaksOK
<1>5. FlagsOK
  BY DEF FlagsOK
<1> QED BY <1>1, <1>2, <1>3, <1>4, <1>5 DEF ProgramInv

(* Which step follows which, and with which outcome. *)
LEMMA RunKeepsControl ==
  ASSUME ControlOK, RunStep
  PROVE  ControlOK'
<1> USE StageFacts
    DEF ControlOK, RunPc, CampaignPc, RunSite, AttemptSite, CampaignSite, Attempting,
        PreInjection, Injected, Halt, Escape, contactorVars, offVars, control,
        Goto, Raise, Unwind, NoContactors
<1>1. CASE Connect
  BY <1>1 DEF Connect
<1>2. CASE Loop
  BY <1>2 DEF Loop
<1>3. CASE CheckDisk
  BY <1>3 DEF CheckDisk, StartSafeOff, SafeOffBegin
<1>4. CASE CloseMain("K1", "close_k1", "close_k2")
  BY <1>4 DEF CloseMain
<1>5. CASE CloseMain("K2", "close_k2", "check_mains")
  BY <1>5 DEF CloseMain
<1>6. CASE CheckMains("check_mains", "gate")
  BY <1>6 DEF CheckMains
<1>7. CASE CheckMains("injected", "acquire")
  BY <1>7 DEF CheckMains
<1>8. CASE Gate
  BY <1>8 DEF Gate, StartSafeOff, SafeOffBegin
<1>9. ASSUME NEW s \in ScopeStage, Scope(s) PROVE ControlOK'
  BY <1>9 DEF Scope, StartSafeOff, SafeOffBegin
<1>10. CASE Inject
  BY <1>10 DEF Inject
<1>11. CASE OpenInjection
  BY <1>11 DEF OpenInjection
<1>12. CASE AcquireEnds
  BY <1>12 DEF AcquireEnds
<1>13. CASE Timeout
  BY <1>13 DEF Timeout, StartSafeOff, SafeOffBegin
<1>14. CASE Diagnose \/ Capture
  BY <1>14 DEF Diagnose, Capture
<1>15. CASE Analyze
  BY <1>15 DEF Analyze, VerdictOutcome
<1>16. CASE CommitRow
  BY <1>16 DEF CommitRow
<1>17. CASE CommitState
  BY <1>17 DEF CommitState, StartSafeOff, SafeOffBegin
<1>18. CASE Cooldown \/ RetrySleep \/ MarkHalt
  BY <1>18 DEF Cooldown, RetrySleep, MarkHalt
<1>19. CASE Retry
  BY <1>19 DEF Retry, StartSafeOff, SafeOffBegin
<1>20. CASE Finally
  BY <1>20 DEF Finally, StartSafeOff, SafeOffBegin
<1>21. CASE SafeOffStep
  BY <1>21 DEF SafeOffStep, SafeOffCall, AfterOpen, Contactor, Mains
<1>22. CASE SafeOffDone
  <2>1. pc = "safe_off" /\ site \in RunSite /\ offStep' = "idle"
    BY <1>22 DEF SafeOffDone, SafeOffReturn
  <2>2. CASE SafeOffOk(site)
    <3>1. CASE site \in AttemptSite
      BY <2>1, <2>2, <3>1 DEF SafeOffOk
    <3>2. CASE site = "retry"
      BY <2>1, <2>2, <3>2 DEF SafeOffOk
    <3>3. CASE site = "commit"
      BY <2>1, <2>2, <3>3 DEF SafeOffOk
    <3>4. CASE site = "finally"
      BY <2>1, <2>2, <3>4 DEF SafeOffOk
    <3> QED BY <2>1, <3>1, <3>2, <3>3, <3>4
  <2>3. CASE SafeOffRaises(site)
    <3>1. CASE site \in AttemptSite
      BY <2>1, <2>3, <3>1 DEF SafeOffRaises
    <3>2. CASE site = "retry"
      BY <2>1, <2>3, <3>2 DEF SafeOffRaises
    <3>3. CASE site = "commit"
      BY <2>1, <2>3, <3>3 DEF SafeOffRaises
    <3>4. CASE site = "finally"
      BY <2>1, <2>3, <3>4 DEF SafeOffRaises
    <3> QED BY <2>1, <3>1, <3>2, <3>3, <3>4
  <2> QED BY <1>22, <2>2, <2>3 DEF SafeOffDone
<1> QED
  BY <1>1, <1>2, <1>3, <1>4, <1>5, <1>6, <1>7, <1>8, <1>9, <1>10, <1>11, <1>12, <1>13,
     <1>14, <1>15, <1>16, <1>17, <1>18, <1>19, <1>20, <1>21, <1>22 DEF RunStep

(* Where a cycle is at stake the index is one of the campaign. *)
AtCycle == (Attempting \ {"start", "connect", "loop"}) \union {"commit", "commit_state", "halt"}

(* There the cycle is at most Target. *)
LEMMA CycleAtStake ==
  ASSUME ControlOK, PositionOK,
         pc \in AtCycle \/ (pc = "safe_off" /\ site \in RunSite \ {"finally"})
  PROVE  cycle \in Cycles
<1>1. outcome \notin {"complete", "error"} /\ pc \notin {"connect", "loop"}
  BY DEF AtCycle, ControlOK, Attempting, Halt, RunSite
<1>2. cycle \in 1 .. Target + 1 /\ cycle <= Target
  BY <1>1 DEF PositionOK
<1> QED BY <1>2, CyclesAssumption

(* The index is past the target only when the run is about to say so. *)
LEMMA RunKeepsPosition ==
  ASSUME ControlOK, PositionOK, RunStep
  PROVE  PositionOK'
<1> USE CyclesAssumption DEF PositionOK, position
<1>1. CASE Connect \/ Finally \/ SafeOffStep
  BY <1>1 DEF Connect, Finally, SafeOffStep, control, StartSafeOff, Goto
<1>2. CASE Loop
  BY <1>2 DEF Loop, Unwind, Goto
<1>3. CASE CommitState \/ Cooldown \/ Retry
  <2>1. cycle \in 1 .. Target
    BY <1>3, CycleAtStake DEF CommitState, Cooldown, Retry, AtCycle, Attempting, PreInjection
  <2>2. CASE CommitState
    BY <2>1, <2>2 DEF CommitState
  <2>3. CASE Cooldown
    BY <2>1, <2>3 DEF Cooldown, Goto, Unwind
  <2>4. CASE Retry
    BY <2>1, <2>4 DEF Retry
  <2> QED BY <1>3, <2>2, <2>3, <2>4
<1>4. CASE SafeOffDone
  <2>1. UNCHANGED position
    BY <1>4 DEF SafeOffDone
  <2>2. CASE site = "finally"
    <3>1. outcome' \in {outcome, "error"} /\ pc # "connect" /\ pc # "loop"
      BY <1>4, <2>2 DEF SafeOffDone, SafeOffOk, SafeOffRaises, Goto, AttemptSite
    <3> QED BY <2>1, <3>1
  <2>3. CASE site \in RunSite \ {"finally"}
    BY <1>4, <2>1, <2>3, CycleAtStake DEF SafeOffDone
  <2> QED BY <1>4, <2>2, <2>3 DEF SafeOffDone
<1>5. CASE \/ CheckDisk \/ CloseMain("K1", "close_k1", "close_k2")
           \/ CloseMain("K2", "close_k2", "check_mains")
           \/ CheckMains("check_mains", "gate") \/ CheckMains("injected", "acquire")
           \/ Gate \/ (\E s \in ScopeStage : Scope(s)) \/ Inject
           \/ OpenInjection \/ AcquireEnds \/ Timeout \/ Diagnose
           \/ Capture \/ Analyze \/ CommitRow \/ RetrySleep \/ MarkHalt
  <2>1. UNCHANGED position
    BY <1>5 DEF CheckDisk, CloseMain, CheckMains, Gate, Scope, Inject, OpenInjection,
                AcquireEnds, Timeout, Diagnose, Capture, Analyze, CommitRow, RetrySleep,
                MarkHalt
  <2>2. pc \in AtCycle
    BY <1>5, StageFacts
       DEF CheckDisk, CloseMain, CheckMains, Gate, Scope, Inject, OpenInjection,
           AcquireEnds, Timeout, Diagnose, Capture, Analyze, CommitRow, RetrySleep,
           MarkHalt, AtCycle, Attempting, PreInjection, Injected
  <2> QED BY <2>1, <2>2, CycleAtStake
<1> QED
  BY <1>1, <1>2, <1>3, <1>4, <1>5 DEF RunStep

(* The flags of the finally clause and of the injection stay flags. *)
LEMMA RunKeepsFlags ==
  ASSUME FlagsOK, RunStep
  PROVE  FlagsOK'
BY DEF FlagsOK, RunStep, Connect, Loop, CheckDisk, CloseMain, CheckMains, Gate, Scope,
       Inject, OpenInjection, AcquireEnds, Timeout, Diagnose, Capture, Analyze, CommitRow,
       CommitState, Cooldown, Retry, RetrySleep, MarkHalt, Finally, SafeOffStep,
       SafeOffDone, position, world

(* The rows and the marks written to disk are of their kinds. *)
LEMMA RunKeepsStore ==
  ASSUME ControlOK, PositionOK, StoreOK, RunStep
  PROVE  StoreOK'
<1>1. CASE UNCHANGED store
  BY <1>1 DEF StoreOK, store
<1>2. CASE UNCHANGED <<rows, disk>> /\ verdict' \in Verdict \union {"none"}
  BY <1>2 DEF StoreOK
<1>3. CASE CommitRow
  BY <1>3 DEF CommitRow, StoreOK
<1>4. ASSUME UNCHANGED <<verdict, rows>>, NEW l \in 0 .. Target, NEW h \in Halt \union {"none"},
             disk' = [last |-> l, halt |-> h]
      PROVE  StoreOK'
  BY <1>4 DEF StoreOK
<1>5. CASE CommitState
  <2>1. cycle \in 0 .. Target
    BY <1>5, CycleAtStake, CyclesAssumption DEF CommitState, AtCycle
  <2>2. HaltField \in Halt \union {"none"}
    BY <1>5 DEF CommitState, HaltField, ControlOK, Halt
  <2> QED BY <1>1, <1>4, <1>5, <2>1, <2>2 DEF CommitState, store
<1>6. CASE MarkHalt
  <2>1. last \in 0 .. Target /\ outcome \in Halt \union {"none"}
    BY <1>6 DEF MarkHalt, PositionOK, ControlOK
  <2> QED BY <1>1, <1>4, <1>6, <2>1 DEF MarkHalt, store
<1> QED
  BY <1>1, <1>2, <1>3, <1>5, <1>6
     DEF RunStep, Connect, Loop, CheckDisk, CloseMain, CheckMains, Gate, Scope,
         Inject, OpenInjection, AcquireEnds, Timeout, Diagnose, Capture, Analyze,
         Cooldown, Retry, RetrySleep, Finally, SafeOffStep, SafeOffDone, store

(* No step of a run is taken after the campaign has given up. *)
LEMMA RunKeepsStreaks ==
  ASSUME ControlOK, StreaksOK, RunStep, UNCHANGED campaignVars
  PROVE  StreaksOK'
<1>1. \/ pc \in RunPc \ {"safe_off"}
      \/ pc = "safe_off" /\ (site \in RunSite \/ UNCHANGED control)
  BY StageFacts
     DEF RunStep, Connect, Loop, CheckDisk, CloseMain, CheckMains, Gate, Scope,
         Inject, OpenInjection, AcquireEnds, Timeout, Diagnose, Capture, Analyze, CommitRow,
         CommitState, Cooldown, Retry, RetrySleep, MarkHalt, Finally, SafeOffStep,
         SafeOffDone, RunPc
<1>2. CASE UNCHANGED control
  BY <1>2 DEF StreaksOK, control, campaignVars
<1>3. CASE pc \in RunPc \ {"safe_off"} \/ site \in RunSite
  <2>1. noTripStreak < NoTripLimit /\ otherStreak < OtherLimit
    BY <1>1, <1>2, <1>3, StageFacts DEF StreaksOK, RunPc, RunSite, AttemptSite
  <2> QED BY <2>1 DEF StreaksOK, campaignVars
<1> QED BY <1>1, <1>2, <1>3

(* One turn of the auto-retry loop gives up before a streak passes its limit. *)
LEMMA AutoRetryKeepsStreaks ==
  ASSUME ControlOK, StreaksOK, AutoRetry
  PROVE  StreaksOK'
<1>1. noTripStreak \in 0 .. NoTripLimit - 1 /\ otherStreak \in 0 .. OtherLimit - 1
  BY LimitAssumption DEF AutoRetry, StreaksOK
<1>2. CASE UNCHANGED <<noTripStreak, otherStreak>>
  BY <1>1, <1>2, LimitAssumption DEF AutoRetry, StreaksOK
<1> DEFINE n == (IF progress THEN 0 ELSE noTripStreak) + (IF outcome = "no_trip" THEN 1 ELSE 0)
           o == (IF progress THEN 0 ELSE otherStreak) + (IF outcome = "no_trip" THEN 0 ELSE 1)
<1>3. CASE noTripStreak' = n /\ otherStreak' = o
  <2>1. n \in 0 .. NoTripLimit /\ o \in 0 .. OtherLimit
    BY <1>1, LimitAssumption
  <2>2. outcome = "no_trip" => o < OtherLimit
    BY <1>1, LimitAssumption
  <2>3. outcome # "no_trip" => n < NoTripLimit
    BY <1>1, LimitAssumption
  <2>4. \/ pc' = "exec_finally"
        \/ ~(IF outcome = "no_trip" THEN n >= NoTripLimit ELSE o >= OtherLimit)
    BY ZenonT(20) DEF AutoRetry, Goto
  <2> HIDE DEF n, o
  <2>5. pc' = "exec_finally" \/ (n < NoTripLimit /\ o < OtherLimit)
    BY <2>1, <2>2, <2>3, <2>4, LimitAssumption
  <2> QED BY <1>3, <2>1, <2>5 DEF AutoRetry, StreaksOK
<1> QED BY <1>2, <1>3 DEF AutoRetry

(* The auto-retry resumes after the last cycle written down. *)
LEMMA AutoSleepKeepsPosition ==
  ASSUME ControlOK, PositionOK, AutoSleep
  PROVE  PositionOK'
<1>1. cycle \in 1 .. Target /\ last \in 0 .. Target
  BY DEF AutoSleep, PositionOK, ControlOK, Halt
<1>2. CASE UNCHANGED position
  BY <1>1, <1>2, CyclesAssumption DEF PositionOK, position
<1>3. CASE pc' = "connect" /\ last' \in {last, cycle} /\ cycle' = last' + 1
  <2>1. last' \in 0 .. Target
    BY <1>1, <1>3, CyclesAssumption
  <2>2. cycle' = last' + 1
    BY <1>3
  <2>3. \A l \in 0 .. Target : l + 1 \in 1 .. Target + 1
    BY CyclesAssumption
  <2>4. cycle' \in 1 .. Target + 1
    BY <2>1, <2>2, <2>3
  <2> QED BY <1>3, <2>1, <2>4 DEF PositionOK
<1>4. UNCHANGED position \/ (pc' = "connect" /\ last' \in {last, cycle} /\ cycle' = last' + 1)
  BY DEF AutoSleep
<1> QED BY <1>2, <1>3, <1>4

(* The shutdown of _execute_campaign, and its auto-retry loop. *)
LEMMA CampaignKeepsProgram ==
  ASSUME ProgramInv, CampaignStep, ~CycleStep
  PROVE  ProgramInv'
<1> USE DEF ProgramInv
<1>1. ControlOK'
  <2> USE StageFacts
      DEF ControlOK, RunPc, CampaignPc, RunSite, AttemptSite, CampaignSite, Attempting,
              PreInjection, Injected, Halt, Escape, contactorVars, offVars, Goto
  <2>1. CASE StartCamera
    BY <2>1 DEF StartCamera
  <2>2. CASE AutoRetry
    BY <2>2 DEF AutoRetry
  <2>3. CASE AutoSleep
    BY <2>3 DEF AutoSleep
  <2>4. CASE RunEscaped
    BY <2>4 DEF RunEscaped
  <2>5. CASE StopHandler
    BY <2>5 DEF StopHandler, StartSafeOff, SafeOffBegin
  <2>6. CASE ExecFinally
    BY <2>6 DEF ExecFinally, StartSafeOff, SafeOffBegin
  <2>7. CASE ShutdownSafeOffDone
    BY <2>7 DEF ShutdownSafeOffDone, SafeOffReturn, StopHandled, Finalize
  <2> QED BY <2>1, <2>2, <2>3, <2>4, <2>5, <2>6, <2>7 DEF CampaignStep
<1>2. PositionOK'
  <2>1. CASE AutoSleep
    BY <2>1, AutoSleepKeepsPosition
  <2>2. CASE UNCHANGED position /\ (UNCHANGED outcome /\ pc \notin {"connect", "loop"})
    BY <2>2 DEF PositionOK, position
  <2> QED
    BY <2>1, <2>2 DEF CampaignStep, StartCamera, AutoRetry, RunEscaped, StopHandler,
       ExecFinally, ShutdownSafeOffDone, StopHandled, Finalize, Goto, StartSafeOff
<1>3. StoreOK' /\ FlagsOK'
  BY DEF CampaignStep, StartCamera, AutoRetry, AutoSleep, RunEscaped, StopHandler,
         ExecFinally, ShutdownSafeOffDone, StoreOK, FlagsOK, position, store, world
<1>4. StreaksOK'
  <2>1. CASE AutoRetry
    BY <2>1, AutoRetryKeepsStreaks
  <2> USE DEF StreaksOK, campaignVars, Goto
  <2>2. CASE StartCamera \/ AutoSleep
    BY <2>2 DEF StartCamera, AutoSleep
  <2>3. CASE RunEscaped \/ StopHandler \/ ExecFinally
    BY <2>3 DEF RunEscaped, StopHandler, ExecFinally, StartSafeOff
  <2>4. CASE ShutdownSafeOffDone
    BY <2>4 DEF ShutdownSafeOffDone, StopHandled, Finalize, ExitCode, CampaignSite
  <2> QED BY <2>1, <2>2, <2>3, <2>4 DEF CampaignStep
<1> QED BY <1>1, <1>2, <1>3, <1>4

(* Every step of a campaign keeps it in order. *)
LEMMA ProgramStep == ProgramInv /\ [Next]_vars => ProgramInv'
<1> SUFFICES ASSUME ProgramInv, [Next]_vars PROVE ProgramInv'
  OBVIOUS
<1>1. CASE CycleStep
  BY <1>1, RunKeepsControl, RunKeepsPosition, RunKeepsStore, RunKeepsFlags, RunKeepsStreaks
     DEF ProgramInv, CycleStep
<1>2. CASE CampaignStep /\ ~CycleStep
  BY <1>2, CampaignKeepsProgram
<1>3. CASE StopSignal
  BY <1>3 DEF StopSignal, Signal, ProgramInv, ControlOK, PositionOK, StoreOK, FlagsOK,
              StreaksOK, contactorVars, offVars, control, position, store, campaignVars
<1>4. CASE UNCHANGED vars
  BY <1>4 DEF vars, sequencerVars, ProgramInv, ControlOK, PositionOK, StoreOK, FlagsOK,
              StreaksOK, contactorVars, offVars, control, position, store, world, campaignVars
<1> QED BY <1>1, <1>2, <1>3, <1>4 DEF Next

(* Control, position, rows and streaks agree in every campaign. *)
THEOREM ProgramInvariant == Spec => []ProgramInv
BY ProgramInit, ProgramStep, PTL DEF Spec

-----------------------------------------------------------------------------
(* A campaign is a client of the controller: every one of its steps is one    *)
(* call, or none.                                                             *)
LEMMA CampaignIsAClient ==
  ASSUME ProgramInv, [Next]_vars
  PROVE  [ContactorNext]_contactorVars
<1> USE DEF ProgramInv, ContactorNext
<1>1. CASE CycleStep
  <2>1. RunStep
    BY <1>1 DEF CycleStep
  <2>2. pc # "safe_off" => offStep = "idle"
    BY DEF ControlOK
  <2>3. CASE \/ CloseMain("K1", "close_k1", "close_k2")
             \/ CloseMain("K2", "close_k2", "check_mains")
    BY <2>2, <2>3 DEF CloseMain, ClientCall, Mains
  <2>4. CASE Inject
    <3>1. pc = "close_k3" /\ cycle \in Cycles
      BY <2>4, CycleAtStake DEF Inject, AtCycle, Attempting, PreInjection
    <3> QED BY <2>2, <2>4, <3>1 DEF Inject, ClientCall, contactorVars
  <2>5. CASE OpenInjection
    BY <2>2, <2>5 DEF OpenInjection, ClientCall, Contactor
  <2>6. CASE \/ CheckDisk \/ Gate \/ (\E s \in ScopeStage : Scope(s)) \/ Timeout
             \/ CommitState \/ Retry \/ Finally
    BY <2>6 DEF CheckDisk, Gate, Scope, Timeout, CommitState, Retry, Finally,
                StartSafeOff, NoContactors
  <2>7. CASE SafeOffStep \/ SafeOffDone
    BY <2>7 DEF SafeOffStep, SafeOffDone
  <2>8. CASE \/ Connect \/ Loop \/ CheckMains("check_mains", "gate")
             \/ CheckMains("injected", "acquire") \/ AcquireEnds \/ Diagnose \/ Capture
             \/ Analyze \/ CommitRow \/ Cooldown \/ RetrySleep \/ MarkHalt
    BY <2>8 DEF Connect, Loop, CheckMains, AcquireEnds, Diagnose, Capture, Analyze,
                CommitRow, Cooldown, RetrySleep, MarkHalt
  <2> QED BY <2>1, <2>3, <2>4, <2>5, <2>6, <2>7, <2>8 DEF RunStep
<1>2. CASE CampaignStep /\ ~CycleStep
  BY <1>2 DEF CampaignStep, StartCamera, AutoRetry, AutoSleep, RunEscaped, StopHandler,
              ExecFinally, ShutdownSafeOffDone, StartSafeOff
<1>3. CASE StopSignal \/ UNCHANGED vars
  BY <1>3 DEF StopSignal, Signal, vars, sequencerVars
<1> QED BY <1>1, <1>2, <1>3 DEF Next

(* Whatever is proved of the controller under any client holds in a campaign. *)
THEOREM CampaignDrivesController == Spec => ContactorSpec
<1>1. Init => ContactorInit
  BY DEF Init, RunInit
<1> QED
  BY <1>1, CampaignIsAClient, ProgramInvariant, PTL DEF Spec, ContactorSpec

-----------------------------------------------------------------------------
(* Where every contactor is open, where the mains are closed, and where K3    *)
(* may be.                                                                    *)
Cold == RestPc \union {"start", "auto_sleep", "close_k1"}
Live == {"check_mains", "gate", "close_k3"} \union ScopeStage

K3Contained ==
  \/ pc \in {"injected", "acquire"} \/ outcome \in Halt \union Escape
  \/ ~commanded["K3"] /\ ~pin["K3"]

EnergyOK ==
  /\ pc \in Cold => Deenergized
  /\ pc = "close_k2" => commanded["K1"]
  /\ pc \in Live => commanded["K1"] /\ commanded["K2"]
  /\ K3Contained
  /\ ExitDeenergized

(* A safe_off that names no contactor leaves none closed. *)
LEMMA CleanSafeOff ==
  ASSUME ContactorInv, offStep = "done", offFailed = {}
  PROVE  Deenergized
BY DEF ContactorInv, SafeOffProgress, Visited, Deenergized

(* Steps that move no contactor. *)
LEMMA QuietKeepsEnergy ==
  ASSUME EnergyOK, UNCHANGED deviceVars,
         pc' \in Cold => pc \in Cold,
         pc' \in Live => pc \in Live,
         pc' \notin {"close_k2", "exit"},
         \/ outcome' \in Halt \union Escape
         \/ UNCHANGED outcome /\ (pc \in {"injected", "acquire"} => pc' = "acquire")
         \/ pc \in Cold
  PROVE  EnergyOK'
BY DEF EnergyOK, K3Contained, Deenergized, ExitDeenergized, deviceVars, Contactor

(* No step of a cycle leaves a contactor closed where all must be open. *)
LEMMA RunKeepsEnergy ==
  ASSUME ProgramInv, ContactorInv, EnergyOK, RunStep
  PROVE  EnergyOK'
<1> USE StageFacts
<1>1. CASE Connect \/ Loop \/ Cooldown \/ RetrySleep \/ Diagnose
  BY <1>1, QuietKeepsEnergy
     DEF Connect, Loop, Cooldown, RetrySleep, Diagnose, Cold, RestPc, Live, Goto, Raise,
         Unwind, Halt, Escape, contactorVars
<1>2. CASE CheckDisk \/ Retry
  BY <1>2, QuietKeepsEnergy
     DEF CheckDisk, Retry, Cold, RestPc, Live, Raise, StartSafeOff, SafeOffBegin, Halt,
         NoContactors, contactorVars
<1>3. CASE CheckMains("check_mains", "gate") \/ CheckMains("injected", "acquire")
  BY <1>3, QuietKeepsEnergy
     DEF CheckMains, Cold, RestPc, Live, Goto, Raise, Halt, contactorVars
<1>4. CASE Gate
  BY <1>4, QuietKeepsEnergy
     DEF Gate, Cold, RestPc, Live, Goto, Raise, StartSafeOff, SafeOffBegin, Halt,
         NoContactors, contactorVars
<1>5. ASSUME NEW s \in ScopeStage, Scope(s) PROVE EnergyOK'
  BY <1>5, QuietKeepsEnergy
     DEF Scope, Cold, RestPc, Live, Goto, Raise, StartSafeOff, SafeOffBegin, Halt,
         NoContactors, contactorVars
<1>6. CASE AcquireEnds \/ Capture \/ CommitRow \/ MarkHalt
  BY <1>6, QuietKeepsEnergy
     DEF AcquireEnds, Capture, CommitRow, MarkHalt, ProgramInv, ControlOK, Cold, RestPc, Live,
         Goto, Raise, Unwind, Halt, Escape, contactorVars
<1>7. CASE Analyze
  BY <1>7, QuietKeepsEnergy
     DEF Analyze, VerdictOutcome, ProgramInv, ControlOK, Attempting, Injected, Cold, RestPc,
         Live, Unwind, Halt, Escape, contactorVars
<1>8. CASE Timeout \/ CommitState \/ Finally
  BY <1>8, QuietKeepsEnergy
     DEF Timeout, CommitState, Finally, Cold, RestPc, Live, Unwind, StartSafeOff, SafeOffBegin,
         Escape, NoContactors, contactorVars
<1> USE DEF EnergyOK, Cold, Live, RestPc, K3Contained, Deenergized, ExitDeenergized,
            ContactorInv, ContactorTypeOK, Contactor, Mains
<1>9. CASE CloseMain("K1", "close_k1", "close_k2")
  BY <1>9 DEF CloseMain, CloseMains, CloseFails, Drive, DriveFails, Goto, Raise, Halt
<1>10. CASE CloseMain("K2", "close_k2", "check_mains")
  <2>1. ~commanded["K3"] /\ ~pin["K3"]
    BY <1>10 DEF CloseMain, ProgramInv, ControlOK, Attempting, PreInjection, Halt, Escape
  <2> QED
    BY <1>10, <2>1 DEF CloseMain, CloseMains, CloseFails, Drive, DriveFails, Goto, Raise, Halt
<1>11. CASE Inject
  BY <1>11 DEF Inject, CloseK3, CloseFails, Drive, DriveFails, Goto, Raise, Halt
<1>12. CASE OpenInjection
  BY <1>12 DEF OpenInjection, Open, OpenFails, Drive, DriveFails, Goto, Raise, Halt
<1>13. CASE SafeOffStep
  BY <1>13 DEF SafeOffStep, SafeOffCall, Open, OpenFails, Drive, DriveFails, control, deviceVars
<1>14. CASE SafeOffDone
  <2>1. CASE offFailed = {} /\ SafeOffOk(site)
    <3>1. Deenergized'
      BY <1>14, <2>1, CleanSafeOff DEF SafeOffDone, SafeOffReturn, deviceVars
    <3>2. pc' \notin Live \union {"close_k2", "exit"}
      BY <1>14, <2>1 DEF SafeOffDone, SafeOffOk, Goto, Raise, RunSite, AttemptSite
    <3> QED BY <3>1, <3>2
  <2>2. CASE SafeOffRaises(site)
    BY <1>14, <2>2 DEF SafeOffDone, SafeOffRaises, Raise, Unwind, RunSite, AttemptSite,
                       Halt, Escape
  <2> QED BY <1>14, <2>1, <2>2 DEF SafeOffDone
<1> QED
  BY <1>1, <1>2, <1>3, <1>4, <1>5, <1>6, <1>7, <1>8, <1>9, <1>10, <1>11, <1>12, <1>13,
     <1>14 DEF RunStep

(* Nor does any other step of the campaign. *)
LEMMA CampaignKeepsEnergy ==
  ASSUME ProgramInv, ContactorInv, EnergyOK, [Next]_vars
  PROVE  EnergyOK'
<1>1. CASE CycleStep
  BY <1>1, RunKeepsEnergy DEF CycleStep
<1>2. CASE StartCamera \/ AutoRetry \/ AutoSleep
  BY <1>2, StageFacts, QuietKeepsEnergy
     DEF StartCamera, AutoRetry, AutoSleep, Cold, RestPc, Live, Goto, contactorVars
<1>3. CASE RunEscaped \/ StopHandler \/ ExecFinally
  BY <1>3, StageFacts, QuietKeepsEnergy
     DEF RunEscaped, StopHandler, ExecFinally, Cold, RestPc, Live, Goto, StartSafeOff,
         SafeOffBegin, contactorVars
<1>4. CASE ShutdownSafeOffDone
  <2>1. UNCHANGED <<deviceVars, outcome, offFailed>> /\ pc' \in {"exec_finally", "exit"}
    BY <1>4 DEF ShutdownSafeOffDone, SafeOffReturn, StopHandled, Finalize, Goto
  <2>2. \A k \in Contactor \ offFailed : ~commanded[k] /\ ~pin[k]
    BY <1>4 DEF ShutdownSafeOffDone, SafeOffReturn, ContactorInv, SafeOffProgress, Visited
  <2>3. K3Contained'
    BY <1>4, <2>1 DEF ShutdownSafeOffDone, EnergyOK, K3Contained, deviceVars
  <2> QED
    BY <2>1, <2>2, <2>3, StageFacts
       DEF EnergyOK, ExitDeenergized, Cold, RestPc, Live, deviceVars
<1>5. CASE StopSignal \/ UNCHANGED vars
  BY <1>5 DEF StopSignal, Signal, vars, sequencerVars, contactorVars, control, deviceVars,
              offVars, EnergyOK, K3Contained, Deenergized, ExitDeenergized
<1> QED BY <1>1, <1>2, <1>3, <1>4, <1>5 DEF Next, CampaignStep

(* At the start everything is open. *)
LEMMA EnergyInit == Init => EnergyOK
BY StageFacts
   DEF Init, RunInit, ContactorInit, EnergyOK, Live, K3Contained, Deenergized,
       ExitDeenergized, Contactor, Mains

(* What may be energised follows from where the program stands. *)
THEOREM EnergyInvariant == Spec => []EnergyOK
<1>1. Spec => []ContactorInv
  BY CampaignDrivesController, ControllerInvariant, PTL
<1> QED
  BY <1>1, EnergyInit, CampaignKeepsEnergy, ProgramInvariant, PTL DEF Spec

(* A step that leaves the commands alone is a stutter of the window, unless it *)
(* answers, ends an attempt or begins one.                                     *)
LEMMA QuietWindow ==
  ASSUME UNCHANGED commanded,
         \/ WindowStage' = WindowStage
         \/ WindowStage' = "over"
         \/ WindowStage = "over" /\ WindowStage' = "preparing" /\ ~commanded["K3"]
         \/ /\ WindowStage = "polling" /\ WindowStage' \in {"captured", "timedout"}
            /\ ~commanded["K3"]
  PROVE  [Window!Next]_(Window!windowVars)
BY DEF Window!Next, Window!windowVars, Window!Answered, Window!Answer, Window!End, Window!Begin

(* The steps of a cycle, seen as steps of the injection window.                *)
LEMMA RunIsWindow ==
  ASSUME ProgramInv, ContactorInv, EnergyOK, RunStep
  PROVE  [Window!Next]_(Window!windowVars)
<1> USE StageFacts DEF WindowStage
<1>1. CASE Connect \/ Loop \/ CheckDisk \/ Cooldown \/ Retry \/ RetrySleep
  <2>1. UNCHANGED commanded /\ (pc \in {"loop", "retry_sleep"} => ~commanded["K3"])
    BY <1>1 DEF Connect, Loop, CheckDisk, Cooldown, Retry, RetrySleep, StartSafeOff, SafeOffBegin,
                NoContactors, contactorVars, deviceVars, EnergyOK, Cold, RestPc, Deenergized,
                Contactor
  <2> QED BY <1>1, <2>1, QuietWindow
          DEF Connect, Loop, CheckDisk, Cooldown, Retry, RetrySleep, StartSafeOff, Goto, Raise,
              Unwind
<1>2. CASE CheckMains("check_mains", "gate") \/ CheckMains("injected", "acquire") \/ Gate
  BY <1>2, QuietWindow DEF CheckMains, Gate, Goto, Raise, StartSafeOff, SafeOffBegin,
                           NoContactors, contactorVars, deviceVars
<1>3. ASSUME NEW s \in ScopeStage, Scope(s) PROVE [Window!Next]_(Window!windowVars)
  BY <1>3, QuietWindow DEF Scope, Goto, Raise, StartSafeOff, SafeOffBegin, NoContactors,
                           contactorVars, deviceVars
<1>4. CASE AcquireEnds
  <2>1. UNCHANGED commanded /\ (pc = "acquire_open" => ~commanded["K3"])
    BY <1>4 DEF AcquireEnds, contactorVars, deviceVars, EnergyOK, K3Contained, ProgramInv,
                ControlOK, Attempting, Injected, Halt, Escape
  <2> QED BY <1>4, <2>1, QuietWindow DEF AcquireEnds, Goto, Raise
<1>5. CASE Timeout \/ Diagnose \/ Capture \/ Analyze
  BY <1>5, QuietWindow DEF Timeout, Diagnose, Capture, Analyze, Goto, Raise, Unwind,
                           StartSafeOff, SafeOffBegin, contactorVars, deviceVars
<1>6. CASE CommitRow \/ CommitState \/ MarkHalt \/ Finally
  BY <1>6, QuietWindow DEF CommitRow, CommitState, MarkHalt, Finally, Goto, Unwind, NoContactors,
                           StartSafeOff, SafeOffBegin, contactorVars, deviceVars
<1>7. CASE \/ CloseMain("K1", "close_k1", "close_k2")
           \/ CloseMain("K2", "close_k2", "check_mains")
  <2>1. commanded'["K3"] = commanded["K3"]
    BY <1>7 DEF CloseMain, CloseMains, CloseFails, Drive, DriveFails, ContactorInv,
                ContactorTypeOK, Contactor, Mains
  <2>2. WindowStage = "preparing" /\ WindowStage' \in {"preparing", "over"}
    BY <1>7 DEF CloseMain, Goto, Raise
  <2> QED BY <2>1, <2>2 DEF Window!Next, Window!windowVars, Window!End
<1>8. CASE Inject
  <2>1. pc = "close_k3"
    BY <1>8 DEF Inject
  <2>2. CASE commanded'["K3"] = TRUE /\ pc' = "injected"
    BY <2>1, <2>2 DEF Window!Next, Window!windowVars, Window!Inject
  <2>3. CASE UNCHANGED commanded /\ pc' = "halt"
    BY <2>1, <2>3, QuietWindow
  <2> QED BY <1>8, <2>2, <2>3 DEF Inject, CloseK3, CloseFails, Drive, DriveFails, Goto, Raise,
                                  deviceVars, ContactorInv, ContactorTypeOK, Contactor
<1>9. CASE OpenInjection
  <2>1. pc = "acquire" /\ commanded \in [Contactor -> BOOLEAN]
    BY <1>9 DEF OpenInjection, ContactorInv, ContactorTypeOK
  <2>2. CASE commanded'["K3"] = FALSE /\ pc' \in {"acquire_open", "capture", "timeout"}
    BY <2>1, <2>2 DEF Window!Next, Window!windowVars, Window!Open, Window!Answer,
                      Window!Answered, Contactor, Mains
  <2>3. CASE UNCHANGED commanded /\ pc' = "halt"
    BY <2>1, <2>3, QuietWindow
  <2> QED BY <1>9, <2>1, <2>2, <2>3 DEF OpenInjection, Open, OpenFails, Drive, DriveFails, Goto,
                                        Raise, Contactor
<1>10. CASE SafeOffStep
  <2>1. pc = "safe_off" /\ UNCHANGED <<pc, site>>
    BY <1>10 DEF SafeOffStep, control
  <2>2. commanded'["K3"] = commanded["K3"] \/ commanded'["K3"] = FALSE
    BY <1>10 DEF SafeOffStep, SafeOffCall, Open, OpenFails, Drive, DriveFails, deviceVars,
                 ContactorInv, ContactorTypeOK, Contactor, Mains
  <2>3. site \in AttemptSite => commanded["K3"] = FALSE
    BY <2>1 DEF EnergyOK, K3Contained, ProgramInv, ControlOK, Halt, Escape, ContactorInv,
                ContactorTypeOK, Contactor
  <2>4. commanded["K3"] \in BOOLEAN
    BY DEF ContactorInv, ContactorTypeOK, Contactor
  <2> QED BY <2>1, <2>2, <2>3, <2>4
          DEF AttemptSite, Window!Next, Window!windowVars, Window!Release
<1>11. CASE SafeOffDone
  <2>1. UNCHANGED commanded /\ pc = "safe_off"
    BY <1>11 DEF SafeOffDone, SafeOffReturn, deviceVars
  <2> QED BY <1>11, <2>1, QuietWindow
          DEF SafeOffDone, SafeOffOk, SafeOffRaises, Goto, Raise, Unwind, RunSite, AttemptSite
<1> QED
  BY <1>1, <1>2, <1>3, <1>4, <1>5, <1>6, <1>7, <1>8, <1>9, <1>10, <1>11 DEF RunStep

(* The other steps of a campaign are between two attempts. *)
LEMMA CampaignIsWindow ==
  ASSUME ProgramInv, ContactorInv, EnergyOK, [Next]_vars
  PROVE  [Window!Next]_(Window!windowVars)
<1> USE StageFacts DEF WindowStage
<1>1. CASE CycleStep
  BY <1>1, RunIsWindow DEF CycleStep
<1>2. CASE StartCamera \/ AutoRetry \/ AutoSleep \/ RunEscaped
  BY <1>2, QuietWindow DEF StartCamera, AutoRetry, AutoSleep, RunEscaped, Goto, contactorVars,
                           deviceVars
<1>3. CASE StopHandler \/ ExecFinally \/ ShutdownSafeOffDone
  BY <1>3, QuietWindow
     DEF StopHandler, ExecFinally, ShutdownSafeOffDone, StartSafeOff, SafeOffBegin, SafeOffReturn,
         StopHandled, Finalize, Goto, CampaignSite, contactorVars, deviceVars
<1>4. CASE StopSignal \/ UNCHANGED vars
  BY <1>4, QuietWindow DEF StopSignal, Signal, vars, sequencerVars, contactorVars, control,
                           deviceVars
<1> QED BY <1>1, <1>2, <1>3, <1>4 DEF Next, CampaignStep

(* The attempts of a campaign, with every retry, halt and shutdown between     *)
(* them, implement the injection window that the acquisition implements too.   *)
THEOREM AttemptsImplementWindow == Spec => ImplementsWindow
<1>1. Init => Window!Init
  BY StageFacts DEF Init, RunInit, ContactorInit, Window!Init, WindowStage, Contactor
<1>2. ProgramInv /\ ContactorInv /\ EnergyOK /\ [Next]_vars
        => [Window!Next]_(Window!windowVars)
  BY CampaignIsWindow
<1>3. Spec => []ContactorInv
  BY CampaignDrivesController, ControllerInvariant, PTL
<1> QED
  BY <1>1, <1>2, <1>3, ProgramInvariant, EnergyInvariant, PTL
     DEF Spec, ImplementsWindow, Window!Spec

(* Every wait of the campaign, however long, finds all contactors open. *)
THEOREM WaitsDeenergized == Spec => []CampaignWaitsDeenergized
<1>1. EnergyOK => CampaignWaitsDeenergized
  BY DEF EnergyOK, CampaignWaitsDeenergized, Cold
<1> QED BY <1>1, EnergyInvariant, PTL

(* K3 stays closed only in the injection window or on the way to a safe_off. *)
THEOREM InjectionContained == Spec => []K3OnlyDuringInjection
<1>1. EnergyOK => K3OnlyDuringInjection
  BY DEF EnergyOK, K3Contained, K3OnlyDuringInjection
<1> QED BY <1>1, EnergyInvariant, PTL

(* However the process ends, what is still closed is what failed to open. *)
THEOREM ExitsDeenergized == Spec => []ExitDeenergized
<1>1. EnergyOK => ExitDeenergized
  BY DEF EnergyOK
<1> QED BY <1>1, EnergyInvariant, PTL

-----------------------------------------------------------------------------
(* The gate tokens, the rows they pay for, and injections after a stop.  An   *)
(* attempt that can still inject is fresh: its token is unused.               *)
Fresh == pc \in PreInjection \/ (pc = "safe_off" /\ site \in RetrySite)

TokensOK ==
  /\ usedGateCycles \subseteq Cycles /\ \A c \in usedGateCycles : c <= cycle
  /\ Fresh => cycle \notin usedGateCycles
  /\ pc \in Injected => cycle \in usedGateCycles /\ rows[cycle] = "none"
  /\ RowsStemFromInjections
  /\ lateInjections = 0 \/ (lateInjections = 1 /\ stop /\ ~Fresh)

(* Steps that use no token, write no row and stay in their cycle. *)
LEMMA QuietKeepsTokens ==
  ASSUME TokensOK, UNCHANGED <<usedGateCycles, rows, cycle, lateInjections>>,
         stop => stop',
         Fresh' => Fresh,
         pc' \in Injected => pc \in Injected
  PROVE  TokensOK'
BY DEF TokensOK, RowsStemFromInjections

(* The next cycle starts with a fresh token, and not after a stop signal. *)
LEMMA NextCycleKeepsTokens ==
  ASSUME PositionOK, TokensOK, ~stop, UNCHANGED <<usedGateCycles, rows, lateInjections>>,
         cycle' \in Nat, cycle' > cycle, pc' \notin Injected
  PROVE  TokensOK'
<1>1. \A c \in usedGateCycles : c <= cycle' /\ c # cycle'
  BY CyclesAssumption DEF TokensOK, PositionOK
<1> QED BY <1>1 DEF TokensOK, RowsStemFromInjections

(* A cycle spends its gate token once, and has no row before. *)
LEMMA CycleKeepsTokens ==
  ASSUME ProgramInv, TokensOK, CycleStep
  PROVE  TokensOK'
<1> USE StageFacts
<1>0. RunStep
  BY DEF CycleStep
<1>q. UNCHANGED usedGateCycles => UNCHANGED lateInjections
  BY DEF CycleStep, TokensOK
<1> DEFINE Quiet == /\ UNCHANGED <<usedGateCycles, rows, cycle, stop>>
                    /\ Fresh' => Fresh
                    /\ pc' \in Injected => pc \in Injected
<1>r. Quiet => TokensOK'
  BY <1>q, QuietKeepsTokens
<1>1. CASE Connect \/ Loop \/ RetrySleep \/ Diagnose \/ MarkHalt
  <2>1. Quiet
    BY <1>1 DEF Connect, Loop, RetrySleep, Diagnose, MarkHalt, Fresh, PreInjection, Injected,
                Goto, Raise, Unwind, position, store, world, contactorVars, deviceVars
  <2> QED BY <2>1, <1>r
<1>2. CASE \/ CheckDisk \/ Gate \/ (\E s \in ScopeStage : Scope(s)) \/ Timeout
           \/ CommitState \/ Retry \/ Finally
  <2>1. Quiet
    BY <1>2 DEF CheckDisk, Gate, Scope, Timeout, CommitState, Retry, Finally, Fresh,
                PreInjection, Injected, RetrySite, Goto, Raise, Unwind, StartSafeOff,
                SafeOffBegin, NoContactors, position, store, world, contactorVars, deviceVars
  <2> QED BY <2>1, <1>r
<1>3. CASE \/ CloseMain("K1", "close_k1", "close_k2")
           \/ CloseMain("K2", "close_k2", "check_mains")
           \/ CheckMains("check_mains", "gate") \/ CheckMains("injected", "acquire")
  <2>1. Quiet
    BY <1>3 DEF CloseMain, CloseMains, CloseFails, CheckMains, Fresh, PreInjection, Injected,
                Goto, Raise, position, store, world, contactorVars, deviceVars
  <2> QED BY <2>1, <1>r
<1>4. CASE OpenInjection \/ AcquireEnds \/ Capture \/ Analyze
  <2>1. Quiet
    BY <1>4 DEF OpenInjection, Open, OpenFails, AcquireEnds, Capture, Analyze, Fresh,
                PreInjection, Injected, Goto, Raise, Unwind, position, store, world,
                contactorVars, deviceVars
  <2> QED BY <2>1, <1>r
<1>5. CASE SafeOffStep
  <2>1. Quiet
    BY <1>5 DEF SafeOffStep, SafeOffCall, Open, OpenFails, Fresh, position, store, world,
                control, deviceVars
  <2> QED BY <2>1, <1>r
<1>6. CASE SafeOffDone
  <2>1. UNCHANGED <<usedGateCycles, rows, cycle, stop>>
    BY <1>6 DEF SafeOffDone, SafeOffReturn, position, store, world, deviceVars
  <2>2. /\ Fresh' => Fresh
        /\ pc' \in Injected => pc \in Injected
    <3>1. CASE offFailed = {}
      BY <1>6, <3>1 DEF SafeOffDone, SafeOffOk, Fresh, PreInjection, Injected, RetrySite,
                        RunSite, AttemptSite, Goto, Raise
    <3>2. CASE offFailed # {}
      BY <1>6, <3>2 DEF SafeOffDone, SafeOffRaises, Fresh, PreInjection, Injected,
                        RunSite, AttemptSite, Raise, Unwind
    <3> QED BY <3>1, <3>2
  <2> QED BY <2>1, <2>2, <1>r
<1>7. CASE Inject
  <2>1. Fresh /\ cycle \in Cycles /\ cycle \notin usedGateCycles /\ rows[cycle] = "none"
    BY <1>7, CycleAtStake
       DEF Inject, ProgramInv, AtCycle, Attempting, Fresh, PreInjection, TokensOK,
           RowsStemFromInjections
  <2>2. CASE UNCHANGED usedGateCycles /\ pc' = "halt"
    BY <1>7, <2>2, <1>r DEF Inject, Fresh, PreInjection, Injected, position, store, world
  <2>3. CASE usedGateCycles' = usedGateCycles \union {cycle} /\ pc' = "injected"
    <3>1. UNCHANGED <<rows, cycle, stop>> /\ ~Fresh'
      BY <1>7, <2>3 DEF Inject, Fresh, PreInjection, position, store, world
    <3>2. lateInjections' = 0 \/ (lateInjections' = 1 /\ stop)
      BY <2>1, <2>3 DEF CycleStep, TokensOK
    <3>3. cycle <= cycle
      BY DEF ProgramInv, PositionOK
    <3> QED BY <2>1, <2>3, <3>1, <3>2, <3>3 DEF TokensOK, RowsStemFromInjections
  <2> QED
    BY <1>7, <2>2, <2>3 DEF Inject, CloseK3, CloseFails, Goto, Raise, deviceVars
<1>8. CASE CommitRow
  <2>1. UNCHANGED <<usedGateCycles, cycle, stop>> /\ ~Fresh /\ ~Fresh' /\ pc' \notin Injected
    BY <1>8 DEF CommitRow, Fresh, PreInjection, Injected, Goto, Unwind, position, world,
                contactorVars, deviceVars
  <2>2. cycle \in usedGateCycles
    BY <1>8 DEF CommitRow, TokensOK, Injected
  <2>3. RowsStemFromInjections'
    BY <1>8, <2>1, <2>2 DEF CommitRow, TokensOK, RowsStemFromInjections, ProgramInv, StoreOK
  <2> QED BY <1>q, <2>1, <2>3 DEF TokensOK
<1>9. CASE Cooldown
  <2>1. CASE stop
    BY <1>9, <2>1, <1>r
       DEF Interrupted, Cooldown, Fresh, PreInjection, Injected, Unwind, store, world,
           contactorVars, deviceVars
  <2>2. CASE ~stop
    <3>1. UNCHANGED <<usedGateCycles, rows, lateInjections>> /\ pc' \notin Injected
      BY <1>9, <2>2, <1>q
         DEF Interrupted, Cooldown, Goto, Injected, store, contactorVars, deviceVars
    <3>2. cycle \in Nat /\ cycle' = cycle + 1
      BY <1>9, <2>2 DEF Interrupted, Cooldown, ProgramInv, PositionOK
    <3>3. cycle' \in Nat /\ cycle' > cycle
      BY <3>2
    <3> QED BY <2>2, <3>1, <3>3, NextCycleKeepsTokens DEF ProgramInv
  <2> QED BY <2>1, <2>2
<1> QED
  BY <1>0, <1>1, <1>2, <1>3, <1>4, <1>5, <1>6, <1>7, <1>8, <1>9 DEF RunStep

(* No other step spends a token. *)
LEMMA CampaignKeepsTokens ==
  ASSUME ProgramInv, TokensOK, [Next]_vars
  PROVE  TokensOK'
<1>1. CASE CycleStep
  BY <1>1, CycleKeepsTokens
<1>2. CASE AutoSleep
  <2>1. CASE stop
    BY <1>2, <2>1, QuietKeepsTokens
       DEF Interrupted, AutoSleep, Fresh, PreInjection, Injected, ScopeStage, NextStage,
           position, store, world, contactorVars, deviceVars
  <2>2. CASE ~stop
    <3>1. UNCHANGED <<usedGateCycles, rows, lateInjections>> /\ pc' \notin Injected
      BY <1>2, <2>2 DEF Interrupted, AutoSleep, Injected, store, contactorVars, deviceVars
    <3>2. cycle \in Nat /\ last \in Nat /\ cycle' = (IF last > cycle THEN last ELSE cycle) + 1
      BY <1>2, <2>2 DEF Interrupted, AutoSleep, ProgramInv, PositionOK
    <3>3. cycle' \in Nat /\ cycle' > cycle
      BY <3>2
    <3> QED BY <2>2, <3>1, <3>3, NextCycleKeepsTokens DEF ProgramInv
  <2> QED BY <2>1, <2>2
<1>3. CASE StartCamera \/ AutoRetry \/ RunEscaped \/ StopHandler \/ ExecFinally
  BY <1>3, StageFacts, QuietKeepsTokens
     DEF StartCamera, AutoRetry, RunEscaped, StopHandler, ExecFinally, Fresh, PreInjection,
         Injected, RetrySite, Goto, StartSafeOff, SafeOffBegin, position, store, world,
         contactorVars, deviceVars
<1>4. CASE ShutdownSafeOffDone
  BY <1>4, StageFacts, QuietKeepsTokens
     DEF ShutdownSafeOffDone, SafeOffReturn, StopHandled, Finalize, Fresh, PreInjection,
         Injected, Goto, position, store, world, deviceVars
<1>5. CASE StopSignal \/ UNCHANGED vars
  BY <1>5, QuietKeepsTokens
     DEF StopSignal, Signal, vars, sequencerVars, Fresh, control, position, store, world,
         contactorVars, deviceVars
<1> QED BY <1>1, <1>2, <1>3, <1>4, <1>5 DEF Next, CampaignStep

(* At the start no token is spent. *)
LEMMA TokensInit == Init => TokensOK
<1> SUFFICES ASSUME Init PROVE TokensOK
  OBVIOUS
<1>1. usedGateCycles = {} /\ pc = "start" /\ lateInjections = 0
  BY DEF Init, RunInit, ContactorInit
<1>2. RowsStemFromInjections
  BY DEF Init, RunInit, RowsStemFromInjections
<1> QED BY <1>1, <1>2 DEF TokensOK, Injected

(* Tokens spent, rows and late injections agree in every campaign. *)
THEOREM TokensInvariant == Spec => []TokensOK
BY TokensInit, CampaignKeepsTokens, ProgramInvariant, PTL DEF Spec

(* The protocol never runs into the interlock of the controller: wherever it  *)
(* injects, the token is fresh and both mains legs are closed.                *)
THEOREM InterlockUntouched == Spec => []InterlockNeverRefuses
<1>1. TokensOK /\ EnergyOK => InterlockNeverRefuses
  BY DEF TokensOK, EnergyOK, InterlockNeverRefuses, MayCloseK3, Fresh, PreInjection, Live, Mains
<1> QED BY <1>1, TokensInvariant, EnergyInvariant, PTL

(* Every row of cycles.csv is the verdict on a cycle that was injected. *)
THEOREM RowsAreEarned == Spec => []RowsStemFromInjections
<1>1. TokensOK => RowsStemFromInjections
  BY DEF TokensOK
<1> QED BY <1>1, TokensInvariant, PTL

(* After the stop signal no second injection starts, whatever retries and     *)
(* auto-retry cooldowns were under way.                                       *)
THEOREM StopAllowsOneInjection == Spec => []AtMostOneInjectionAfterStop
<1>1. TokensOK => AtMostOneInjectionAfterStop
  BY DEF TokensOK, AtMostOneInjectionAfterStop
<1> QED BY <1>1, TokensInvariant, PTL

(* Only the commit writes a row. *)
LEMMA OnlyCommitWritesRows ==
  ASSUME [Next]_vars, rows' # rows
  PROVE  CommitRow
BY DEF Next, CampaignStep, CycleStep, StopSignal, Signal, StartCamera, AutoRetry, AutoSleep,
       RunEscaped, StopHandler, ExecFinally, ShutdownSafeOffDone, RunStep, Connect, Loop,
       CheckDisk, CloseMain, CheckMains, Gate, Scope, Inject, OpenInjection, AcquireEnds,
       Timeout, Diagnose, Capture, Analyze, CommitState, Cooldown, Retry, RetrySleep,
       MarkHalt, Finally, SafeOffStep, SafeOffDone, store, vars, sequencerVars

(* Rows are written in cycle order, and none is ever written again. *)
THEOREM RowsAreFinal == Spec => RowsWrittenOnceInOrder
<1> DEFINE InOrder == \A c \in Cycles : rows'[c] # rows[c] =>
                        \A d \in Cycles : rows[d] # "none" => d < c
<1>1. ProgramInv /\ TokensOK /\ [Next]_vars => [InOrder]_vars
  <2> SUFFICES ASSUME ProgramInv, TokensOK, [Next]_vars,
                      NEW c \in Cycles, rows'[c] # rows[c],
                      NEW d \in Cycles, rows[d] # "none"
               PROVE  d < c
    OBVIOUS
  <2>1. CommitRow
    BY OnlyCommitWritesRows
  <2>2. c = cycle /\ rows[cycle] = "none"
    BY <2>1 DEF CommitRow, TokensOK, Injected, ProgramInv, StoreOK
  <2>3. d <= cycle /\ d # cycle
    BY <2>2 DEF TokensOK, RowsStemFromInjections
  <2> QED BY <2>2, <2>3, CyclesAssumption
<1> QED BY <1>1, ProgramInvariant, TokensInvariant, PTL DEF Spec, RowsWrittenOnceInOrder

-----------------------------------------------------------------------------
(* What a halt leaves on disk on its way out of run(), and what the shutdown   *)
(* makes of it.  A NO_TRIP is the halt of the cycle tried last, whose row is   *)
(* there; the other halts only promise their kind.                             *)
Final  == pc = "exec_finally" \/ (pc = "safe_off" /\ site = "exec_finally")
OnDisk ==
  /\ disk.halt = outcome
  /\ outcome = "no_trip" => disk.last = cycle /\ rows[cycle] = "NO_TRIP"
Returning ==
  \/ pc \in {"unwind", "returned", "auto_sleep"}
  \/ pc = "safe_off" /\ site \in {"commit", "finally"}
  \/ Final /\ exitCode = -1

MarkOK ==
  /\ pc = "halt" => outcome # "no_trip"
  /\ pc \in {"commit", "commit_state"} => outcome = VerdictOutcome(verdict)
  /\ pc = "commit_state" => rows[cycle] = verdict
  /\ Returning /\ outcome \in Halt => OnDisk

ExitOK ==
  /\ ~Final /\ pc # "exit" => exitCode = -1 /\ alerts = {}
  /\ Final => /\ exitCode \in {-1, 1, 130}
              /\ exitCode = -1 => alerts = {} /\ outcome \in Halt \union {"complete"}
              /\ exitCode = 130 => alerts = {"fault"}
  /\ pc = "exit" => exitCode # -1 /\ ExitCodeOnDisk

(* Until its commit a cycle marks nothing: it goes on, or towards the halt     *)
(* handler, or leaves run() with nothing to mark.                              *)
LEMMA StepsBeforeCommit ==
  ASSUME ControlOK, MarkOK,
         UNCHANGED exitCode,
         \/ Connect \/ Loop \/ CheckDisk
         \/ CloseMain("K1", "close_k1", "close_k2")
         \/ CloseMain("K2", "close_k2", "check_mains")
         \/ CheckMains("check_mains", "gate") \/ CheckMains("injected", "acquire")
         \/ Gate \/ (\E s \in ScopeStage : Scope(s)) \/ Inject
         \/ OpenInjection \/ AcquireEnds \/ Timeout \/ Diagnose
         \/ Capture \/ Cooldown \/ Retry \/ RetrySleep
  PROVE  MarkOK'
<1>1. \/ pc' \in Attempting \ {"commit"} \/ pc' = "escaped" \/ pc' = "analyze"
      \/ pc' = "safe_off" /\ site' \in AttemptSite \union {"retry"}
      \/ pc' = "halt" /\ outcome' \in Halt \ {"no_trip"}
      \/ pc' = "unwind" /\ outcome' \in {"complete", "error", "stop"}
  BY StageFacts
     DEF Connect, Loop, CheckDisk, CloseMain, CheckMains, Gate, Scope, Inject, OpenInjection,
         AcquireEnds, Timeout, Diagnose, Capture, Cooldown, Retry, RetrySleep, Goto, Raise,
         Unwind, StartSafeOff, Attempting, PreInjection, Injected, AttemptSite, Halt
<1> QED
  BY <1>1, StageFacts
     DEF MarkOK, Returning, Final, Attempting, PreInjection, Injected, AttemptSite, Halt

(* The commit, the halt handler and the finally clause. *)
LEMMA RunKeepsMarks ==
  ASSUME ProgramInv, MarkOK, RunStep, UNCHANGED exitCode
  PROVE  MarkOK'
<1> USE DEF ProgramInv
<1>1. CASE Analyze
  BY <1>1 DEF Analyze, Unwind, MarkOK, Returning, Final, Halt
<1>2. CASE CommitRow
  <2>1. cycle \in Cycles
    BY <1>2, CycleAtStake, CyclesAssumption DEF CommitRow, AtCycle
  <2>2. CASE Unwind("error")
    BY <2>2 DEF Unwind, MarkOK, Returning, Final, Halt
  <2>3. CASE rows' = [rows EXCEPT ![cycle] = verdict] /\ Goto("commit_state")
    <3>1. rows'[cycle] = verdict
      BY <2>1, <2>3 DEF StoreOK
    <3> QED BY <1>2, <2>3, <3>1 DEF CommitRow, Goto, MarkOK, Returning, Final, position
  <2> QED BY <1>2, <2>2, <2>3 DEF CommitRow
<1>3. CASE CommitState
  <2>1. CASE Unwind("error")
    BY <2>1 DEF Unwind, MarkOK, Returning, Final, Halt
  <2>2. CASE disk' = [last |-> cycle, halt |-> HaltField] /\ StartSafeOff("commit")
    <3>1. /\ disk'.last = cycle /\ disk'.halt = HaltField /\ UNCHANGED <<outcome, cycle, rows>>
          /\ pc' = "safe_off" /\ rows[cycle] = verdict /\ outcome = VerdictOutcome(verdict)
      BY <1>3, <2>2 DEF CommitState, StartSafeOff, MarkOK
    <3>2. outcome = "no_trip" => verdict = "NO_TRIP"
      BY <3>1 DEF VerdictOutcome
    <3>3. outcome \in Halt => HaltField = outcome
      BY DEF HaltField, Halt
    <3> QED BY <3>1, <3>2, <3>3 DEF MarkOK, OnDisk
  <2> QED BY <1>3, <2>1, <2>2 DEF CommitState
<1>4. CASE MarkHalt
  <2>1. CASE Unwind("error")
    BY <2>1 DEF Unwind, MarkOK, Returning, Final, Halt
  <2>2. CASE disk' = [last |-> last, halt |-> outcome] /\ Unwind(outcome)
    BY <1>4, <2>2 DEF MarkHalt, Unwind, MarkOK, OnDisk
  <2> QED BY <1>4, <2>1, <2>2 DEF MarkHalt
<1>5. CASE Finally
  BY <1>5 DEF Finally, StartSafeOff, MarkOK, Returning, Final, OnDisk, position, store
<1>6. CASE SafeOffStep
  BY <1>6 DEF SafeOffStep, MarkOK, Returning, Final, OnDisk, control, position, store
<1>7. CASE SafeOffDone
  <2>1. UNCHANGED <<cycle, verdict, rows, disk>> /\ pc = "safe_off" /\ site \in RunSite
    BY <1>7 DEF SafeOffDone, position, store
  <2>2. \/ pc' \in Attempting \ {"commit"} \/ pc' = "escaped"
        \/ pc' = "halt" /\ outcome' \in Halt \ {"no_trip"}
        \/ pc' = "unwind" /\ outcome' = "error"
        \/ pc' \in {"unwind", "returned"} /\ outcome' = outcome /\ Returning
    BY <1>7, StageFacts
       DEF SafeOffDone, SafeOffOk, SafeOffRaises, Goto, Raise, Unwind, RunSite, AttemptSite,
           Attempting, PreInjection, Injected, Halt, Returning
  <2> QED
    BY <2>1, <2>2, StageFacts
       DEF MarkOK, Returning, Final, OnDisk, Attempting, PreInjection, Injected, Halt
<1> QED
  BY <1>1, <1>2, <1>3, <1>4, <1>5, <1>6, <1>7, StepsBeforeCommit DEF RunStep

(* A run has nothing to do with the end of the process. *)
LEMMA RunKeepsExit ==
  ASSUME ProgramInv, ExitOK, CycleStep
  PROVE  ExitOK'
<1>1. \/ pc \in RunPc \ {"safe_off"}
      \/ pc = "safe_off" /\ (site \in RunSite \/ UNCHANGED <<control, store, position>>)
  BY StageFacts
     DEF CycleStep, RunStep, Connect, Loop, CheckDisk, CloseMain, CheckMains, Gate, Scope,
         Inject, OpenInjection, AcquireEnds, Timeout, Diagnose, Capture, Analyze, CommitRow,
         CommitState, Cooldown, Retry, RetrySleep, MarkHalt, Finally, SafeOffStep,
         SafeOffDone, RunPc
<1>2. UNCHANGED <<exitCode, alerts>>
  BY DEF CycleStep, campaignVars
<1>3. CASE pc = "safe_off" /\ UNCHANGED <<control, store, position>>
  BY <1>2, <1>3 DEF ExitOK, Final, control, store, position
<1>4. CASE pc \in RunPc \ {"safe_off"} \/ (pc = "safe_off" /\ site \in RunSite)
  <2>1. ~Final /\ pc # "exit"
    BY <1>4, StageFacts DEF Final, RunPc, RunSite, AttemptSite
  <2>2. exitCode = -1 /\ alerts = {}
    BY <2>1 DEF ExitOK
  <2>3. pc' \notin {"exec_finally", "exit"}
        /\ (pc' = "safe_off" => site' \in RunSite)
    BY <1>4, StageFacts
       DEF CycleStep, RunStep, Connect, Loop, CheckDisk, CloseMain, CheckMains, Gate, Scope,
           Inject, OpenInjection, AcquireEnds, Timeout, Diagnose, Capture, Analyze,
           CommitRow, CommitState, Cooldown, Retry, RetrySleep, MarkHalt, Finally,
           SafeOffStep, SafeOffDone, SafeOffOk, SafeOffRaises, RunSite, AttemptSite, Goto,
           Raise, Unwind, StartSafeOff, control
  <2>4. ~Final' /\ pc' # "exit"
    BY <2>3 DEF Final, RunSite, AttemptSite
  <2> QED BY <1>2, <2>2, <2>4 DEF ExitOK
<1> QED BY <1>1, <1>3, <1>4

(* Auto-retry and shutdown carry the mark of the last halt to the exit code.   *)
LEMMA CampaignKeepsMarks ==
  ASSUME ProgramInv, MarkOK, ExitOK, CampaignStep, ~CycleStep
  PROVE  MarkOK' /\ ExitOK'
<1> USE DEF ProgramInv
<1>1. CASE StartCamera
  BY <1>1 DEF StartCamera, Goto, MarkOK, ExitOK, Returning, Final
<1>2. CASE AutoRetry
  <2>1. /\ pc = "returned" /\ pc' \in {"exec_finally", "auto_sleep"}
        /\ UNCHANGED <<outcome, site, cycle, rows, disk, exitCode, alerts>>
    BY <1>2, ZenonT(20) DEF AutoRetry, Goto, position, store
  <2>2. outcome \in Halt \union {"complete"} /\ exitCode = -1 /\ alerts = {}
    BY <2>1 DEF ControlOK, ExitOK, Final
  <2>3. outcome \in Halt => OnDisk
    BY <2>1 DEF MarkOK, Returning
  <2> QED BY <2>1, <2>2, <2>3 DEF MarkOK, ExitOK, Returning, Final, OnDisk
<1>3. CASE AutoSleep
  BY <1>3 DEF AutoSleep, MarkOK, ExitOK, Returning, Final, Halt, campaignVars
<1>4. CASE RunEscaped
  BY <1>4 DEF RunEscaped, Goto, MarkOK, ExitOK, Returning, Final
<1>5. CASE StopHandler
  BY <1>5 DEF StopHandler, StartSafeOff, MarkOK, ExitOK, Returning, Final, campaignVars
<1>6. CASE ExecFinally
  <2>1. /\ pc = "exec_finally" /\ pc' = "safe_off" /\ site' = "exec_finally"
        /\ UNCHANGED <<outcome, cycle, verdict, rows, disk, alerts>>
        /\ exitCode' \in {exitCode, 1}
    BY <1>6 DEF ExecFinally, StartSafeOff, position, store
  <2> QED BY <2>1 DEF MarkOK, ExitOK, Returning, Final, OnDisk
<1>7. CASE ShutdownSafeOffDone
  <2>1. /\ pc = "safe_off" /\ site \in CampaignSite
        /\ UNCHANGED <<cycle, verdict, rows, disk, outcome, site>>
    BY <1>7
    DEF ShutdownSafeOffDone, StopHandled, Finalize, Goto, position, store
  <2>2. CASE site = "exec_stop"
    <3>1. pc' = "exec_finally"
          /\ ((exitCode' = 130 /\ alerts' = {"fault"}) \/ (exitCode' = 1 /\ alerts' = alerts))
      BY <1>7, <2>2 DEF ShutdownSafeOffDone, StopHandled, Goto
    <3> QED BY <2>1, <3>1 DEF MarkOK, ExitOK, Returning, Final
  <2>3. CASE site = "exec_finally"
    <3>1. pc' = "exit" /\ Finalize
      BY <1>7, <2>3 DEF ShutdownSafeOffDone, Finalize, Goto
    <3>2. CASE exitCode = -1
      <4>1. outcome \in Halt \union {"complete"} /\ (outcome \in Halt => OnDisk)
        BY <2>1, <2>3, <3>2 DEF ExitOK, MarkOK, Returning, Final
      <4>2. /\ exitCode' = ExitCode(outcome)
            /\ alerts' = IF outcome = "complete" THEN {"complete"} ELSE {"fault", "heartbeat_fail"}
        BY <3>1, <3>2 DEF Finalize
      <4>3. disk' = disk /\ cycle' = cycle /\ rows' = rows
        BY <2>1
      <4>4. disk = [last |-> disk.last, halt |-> disk.halt]
        BY DEF StoreOK
      <4>5. ExitCodeOnDisk'
        BY <4>1, <4>2, <4>3, <4>4 DEF ExitCode, ExitCodeOnDisk, OnDisk, Halt
      <4>6. exitCode' # -1
        BY <4>1, <4>2 DEF ExitCode, Halt
      <4> QED BY <3>1, <4>5, <4>6 DEF MarkOK, ExitOK, Returning, Final
    <3>3. CASE exitCode # -1
      <4>1. exitCode \in {1, 130} /\ (exitCode = 130 => alerts = {"fault"})
        BY <2>1, <2>3, <3>3 DEF ExitOK, Final
      <4>2. UNCHANGED <<exitCode, alerts>>
        BY <3>1, <3>3 DEF Finalize
      <4> QED BY <3>1, <4>1, <4>2 DEF MarkOK, ExitOK, ExitCodeOnDisk, Returning, Final
    <3> QED BY <3>2, <3>3
  <2> QED BY <2>1, <2>2, <2>3 DEF CampaignSite
<1> QED BY <1>1, <1>2, <1>3, <1>4, <1>5, <1>6, <1>7 DEF CampaignStep

(* Both hold of every campaign. *)
LEMMA MarkInvariant == Spec => [](MarkOK /\ ExitOK)
<1>1. Init => MarkOK /\ ExitOK
  BY DEF Init, RunInit, MarkOK, ExitOK, Returning, Final
<1>2. ProgramInv /\ MarkOK /\ ExitOK /\ [Next]_vars => MarkOK' /\ ExitOK'
  <2> SUFFICES ASSUME ProgramInv, MarkOK, ExitOK, [Next]_vars PROVE MarkOK' /\ ExitOK'
    OBVIOUS
  <2>1. CASE CycleStep
    BY <2>1, RunKeepsMarks, RunKeepsExit DEF CycleStep, campaignVars
  <2>2. CASE CampaignStep /\ ~CycleStep
    BY <2>2, CampaignKeepsMarks
  <2>3. CASE StopSignal
    BY <2>3 DEF StopSignal, Signal, MarkOK, ExitOK, Returning, Final, OnDisk, ExitCodeOnDisk,
       control, position, store, campaignVars
  <2>4. CASE UNCHANGED vars
    BY <2>4 DEF vars, sequencerVars, MarkOK, ExitOK, Returning, Final, OnDisk, ExitCodeOnDisk,
       control, position, store, campaignVars
  <2> QED BY <2>1, <2>2, <2>3, <2>4 DEF Next
<1> QED BY <1>1, <1>2, ProgramInvariant, PTL DEF Spec

(* The exit code is what a later resume finds in runstate.json.               *)
THEOREM ExitCodeIsOnDisk == Spec => []ExitCodeOnDisk
<1>1. ExitOK => ExitCodeOnDisk
  BY DEF ExitOK, ExitCodeOnDisk
<1> QED BY <1>1, MarkInvariant, PTL

-----------------------------------------------------------------------------
(* The streaks and the rows.  Of the cycle at stake: a NO_TRIP row is on its   *)
(* way to the auto-retry, and only a measured one goes to the cooldown.        *)
RowOK ==
  /\ last <= cycle
  /\ cycle \in Cycles /\ rows[cycle] = "NO_TRIP" => outcome \in {"no_trip"} \union Escape
  /\ pc = "commit" => verdict \in Verdict
  /\ outcome = "running" /\ (pc \in {"commit_state", "cooldown"}
                              \/ (pc = "safe_off" /\ site = "commit")) => Good(cycle)

(* No step takes the outcome NO_TRIP back while its cycle lasts. *)
LEMMA OutcomeStays ==
  ASSUME ControlOK, CycleStep \/ CampaignStep, UNCHANGED cycle, ~AutoSleep,
         outcome \in {"no_trip"} \union Escape
  PROVE  outcome' \in {"no_trip"} \union Escape
<1> USE StageFacts DEF Escape
<1>1. pc \notin Attempting /\ ~(pc = "safe_off" /\ site \in AttemptSite \union {"retry"})
  BY DEF ControlOK
<1>2. pc # "halt" \/ outcome = "no_trip"
  BY DEF ControlOK, Halt
<1> QED
  BY <1>1, <1>2
     DEF CycleStep, CampaignStep, StartCamera, AutoRetry, RunEscaped, StopHandler, ExecFinally,
         ShutdownSafeOffDone, StopHandled, Finalize, RunStep, Connect, Loop, CheckDisk,
         CloseMain, CheckMains, Gate, Scope, Inject, OpenInjection, AcquireEnds, Timeout,
         Diagnose, Capture, Analyze, CommitRow, CommitState, Cooldown, Retry, RetrySleep,
         MarkHalt, Finally, SafeOffStep, SafeOffDone, SafeOffOk, SafeOffRaises, Goto, Raise,
         Unwind, StartSafeOff, control, Attempting, PreInjection, Injected, AttemptSite,
         RunSite, CampaignSite

(* A step of its own cycle that neither analyses nor commits. *)
LEMMA RowKept ==
  ASSUME ProgramInv, RowOK, UNCHANGED <<rows, cycle, last>>,
         CycleStep \/ CampaignStep, ~AutoSleep, ~Analyze, ~CommitRow, ~CommitState
  PROVE  RowOK'
<1> DEFINE AtCommit == pc \in {"commit", "commit_state", "cooldown"}
                         \/ (pc = "safe_off" /\ site = "commit")
<1>1. CASE CampaignStep /\ ~CycleStep
  <2>1. ~AtCommit'
    BY <1>1 DEF CampaignStep, StartCamera, AutoRetry, RunEscaped, StopHandler, ExecFinally,
         ShutdownSafeOffDone, StopHandled, Finalize, Goto, StartSafeOff, CampaignSite
  <2> QED BY <1>1, <2>1, OutcomeStays DEF RowOK, ProgramInv
<1>2. CASE CycleStep
  <2>1. CASE SafeOffDone
    <3>1. pc' # "commit" /\ pc' # "commit_state" /\ pc' # "safe_off"
      BY <2>1 DEF SafeOffDone, SafeOffOk, SafeOffRaises, Goto, Raise, Unwind, RunSite,
           AttemptSite
    <3>2. pc' = "cooldown" => pc = "safe_off" /\ site = "commit" /\ outcome' = outcome
      BY <2>1 DEF SafeOffDone, SafeOffOk, SafeOffRaises, Goto, Raise, Unwind, RunSite,
           AttemptSite
    <3> QED BY <1>2, <2>1, <3>1, <3>2, OutcomeStays DEF RowOK, ProgramInv, Good
  <2>2. CASE SafeOffStep
    BY <2>2 DEF SafeOffStep, control, RowOK, Good
  <2>3. CASE ~SafeOffDone /\ ~SafeOffStep
    <3>1. ~AtCommit'
      BY <1>2, <2>3, StageFacts
      DEF CycleStep, RunStep, Connect, Loop, CheckDisk, CloseMain, CheckMains, Gate, Scope,
          Inject, OpenInjection, AcquireEnds, Timeout, Diagnose, Capture, Cooldown, Retry,
          RetrySleep, MarkHalt, Finally, Goto, Raise, Unwind, StartSafeOff
    <3> QED BY <1>2, <3>1, OutcomeStays DEF RowOK, ProgramInv
  <2> QED BY <2>1, <2>2, <2>3
<1> QED BY <1>1, <1>2

(* The next cycle has no row. *)
LEMMA NextRow ==
  ASSUME ProgramInv, TokensOK, UNCHANGED rows, cycle' \in Nat, cycle' > cycle
  PROVE  cycle' \in Cycles => rows'[cycle'] = "none"
<1>1. cycle' \notin usedGateCycles
  BY CyclesAssumption DEF TokensOK, ProgramInv, PositionOK
<1> QED BY <1>1 DEF TokensOK, RowsStemFromInjections

(* Every step keeps what is known of the row at stake. *)
LEMMA RowStep ==
  ASSUME ProgramInv, TokensOK, MarkOK, RowOK, [Next]_vars
  PROVE  RowOK'
<1>0. cycle \in Nat /\ last \in Nat
  BY CyclesAssumption DEF ProgramInv, PositionOK
<1>1. CASE Analyze
  BY <1>1, OutcomeStays DEF Analyze, RowOK, Unwind, position, ProgramInv, ControlOK, Attempting,
     Injected, Escape
<1>2. CASE CommitRow
  <2>1. CASE Unwind("error")
    BY <1>2, <2>1 DEF CommitRow, RowOK, Unwind, position, Escape
  <2>2. CASE rows' = [rows EXCEPT ![cycle] = verdict] /\ Goto("commit_state")
    <3>1. cycle \in Cycles
      BY <1>2, CycleAtStake DEF CommitRow, AtCycle, ProgramInv
    <3>2. /\ rows'[cycle] = verdict /\ UNCHANGED <<outcome, cycle, last>> /\ pc' = "commit_state"
          /\ outcome = VerdictOutcome(verdict) /\ verdict \in Verdict
      BY <1>2, <2>2, <3>1 DEF CommitRow, Goto, position, MarkOK, RowOK, ProgramInv, StoreOK
    <3>3. verdict = "NO_TRIP" => outcome = "no_trip"
      BY <3>2 DEF VerdictOutcome
    <3>4. outcome = "running" => verdict = "MEASURED"
      BY <3>2 DEF VerdictOutcome, Verdict
    <3> QED BY <3>2, <3>3, <3>4 DEF RowOK, Good
  <2> QED BY <1>2, <2>1, <2>2 DEF CommitRow
<1>3. CASE CommitState
  <2>1. CASE Unwind("error")
    BY <1>3, <2>1 DEF CommitState, StartSafeOff, RowOK, Unwind, Escape
  <2>2. CASE last' = cycle /\ StartSafeOff("commit")
    BY <1>0, <1>3, <2>2 DEF CommitState, StartSafeOff, RowOK, Good
  <2> QED BY <1>3, <2>1, <2>2 DEF CommitState
<1>4. CASE Cooldown \/ AutoSleep
  <2>1. CASE UNCHANGED <<rows, cycle, last>> /\ outcome' = "stop" /\ pc' \in {"unwind", "exec_stop"}
    BY <2>1 DEF RowOK, Escape
  <2>2. CASE /\ UNCHANGED rows /\ pc' \in {"loop", "connect"}
             /\ cycle' \in Nat /\ cycle' > cycle /\ last' <= cycle'
    BY <2>2, NextRow DEF RowOK
  <2> QED BY <1>0, <1>4, <2>1, <2>2 DEF Cooldown, AutoSleep, Unwind, Goto, store, position, RowOK
<1>5. CASE StopSignal \/ UNCHANGED vars
  BY <1>5 DEF StopSignal, Signal, vars, sequencerVars, control, position, store, RowOK, Good
<1>6. CASE /\ CampaignStep /\ ~AutoSleep /\ ~Analyze /\ ~CommitRow /\ ~CommitState /\ ~Cooldown
  <2>1. UNCHANGED <<rows, cycle, last>>
    BY <1>6 DEF CampaignStep, CycleStep, StartCamera, AutoRetry, RunEscaped, StopHandler,
       ExecFinally, ShutdownSafeOffDone, RunStep, Connect, Loop, CheckDisk, CloseMain,
       CheckMains, Gate, Scope, Inject, OpenInjection, AcquireEnds, Timeout, Diagnose,
       Capture, Retry, RetrySleep, MarkHalt, Finally, SafeOffStep, SafeOffDone, position, store
  <2> QED BY <1>6, <2>1, RowKept
<1> QED BY <1>1, <1>2, <1>3, <1>4, <1>5, <1>6 DEF Next

-----------------------------------------------------------------------------
(* The cycles from a to b: their NO_TRIPs, and what the streaks must cover.    *)
NoTrips(a, b)      == {c \in a .. b : rows[c] = "NO_TRIP"}
Within(a, b, n, o) ==
  /\ Cardinality(NoTrips(a, b)) <= n
  /\ Cardinality((a .. b) \ NoTrips(a, b)) <= o
Bad(a, b)          == \A c \in a .. b : ~Good(c)
Covered(b, n, o)   == \A a \in Cycles : a <= b /\ Bad(a, b) => Within(a, b, n, o)

Running ==
  /\ pc \notin CampaignPc \ {"start"}
  /\ pc = "safe_off" => site \notin CampaignSite

StreakInv ==
  /\ StreaksBounded
  /\ Running => IF progress THEN cycle > 1 /\ Good(cycle - 1)
                            ELSE Covered(cycle - 1, noTripStreak, otherStreak)
  /\ pc = "auto_sleep" => Covered(cycle, noTripStreak, otherStreak)

(* Intervals of cycles are finite, and so is every part of one. *)
LEMMA FiniteParts ==
  ASSUME NEW a \in Int, NEW b \in Int
  PROVE  /\ IsFiniteSet(NoTrips(a, b)) /\ IsFiniteSet((a .. b) \ NoTrips(a, b))
         /\ Cardinality(NoTrips(a, b)) \in Nat /\ Cardinality((a .. b) \ NoTrips(a, b)) \in Nat
<1>1. IsFiniteSet(a .. b)
  BY FS_Interval
<1>2. NoTrips(a, b) \in SUBSET (a .. b) /\ (a .. b) \ NoTrips(a, b) \in SUBSET (a .. b)
  BY DEF NoTrips
<1>3. IsFiniteSet(NoTrips(a, b)) /\ IsFiniteSet((a .. b) \ NoTrips(a, b))
  BY <1>1, <1>2, FS_Subset
<1> QED BY <1>3, FS_CardinalityType

(* One more cycle counts for one of the two streaks. *)
LEMMA OneMoreCycle ==
  ASSUME NEW a \in Nat, NEW b \in Nat, a <= b, NEW n \in Nat, NEW o \in Nat,
         a < b => Within(a, b - 1, n, o)
  PROVE  IF rows[b] = "NO_TRIP" THEN Within(a, b, n + 1, o) ELSE Within(a, b, n, o + 1)
<1> DEFINE S == NoTrips(a, b - 1)
           T == (a .. b - 1) \ S
<1>1. IsFiniteSet(S) /\ IsFiniteSet(T) /\ Cardinality(S) \in Nat /\ Cardinality(T) \in Nat
  BY FiniteParts
<1>2. Cardinality(S) <= n /\ Cardinality(T) <= o
  <2>1. CASE a < b
    BY <2>1 DEF Within
  <2>2. CASE a = b
    <3>1. S = {} /\ T = {}
      BY <2>2 DEF NoTrips
    <3> QED BY <3>1, FS_EmptySet
  <2> QED BY <2>1, <2>2
<1>3. a .. b = (a .. b - 1) \union {b} /\ b \notin a .. b - 1
  OBVIOUS
<1>4. b \notin S /\ b \notin T
  BY <1>3 DEF NoTrips
<1>5. CASE rows[b] = "NO_TRIP"
  <2>1. NoTrips(a, b) = S \union {b} /\ (a .. b) \ NoTrips(a, b) = T
    BY <1>3, <1>5 DEF NoTrips
  <2>2. Cardinality(S \union {b}) = Cardinality(S) + 1
    BY <1>1, <1>4, FS_AddElement
  <2> HIDE DEF S, T
  <2> QED BY <1>1, <1>2, <1>5, <2>1, <2>2 DEF Within
<1>6. CASE rows[b] # "NO_TRIP"
  <2>1. NoTrips(a, b) = S /\ (a .. b) \ NoTrips(a, b) = T \union {b}
    BY <1>3, <1>6 DEF NoTrips
  <2>2. Cardinality(T \union {b}) = Cardinality(T) + 1
    BY <1>1, <1>4, FS_AddElement
  <2> HIDE DEF S, T
  <2> QED BY <1>1, <1>2, <1>6, <2>1, <2>2 DEF Within
<1> QED BY <1>5, <1>6

(* What is within the streaks is below the limits. *)
LEMMA BelowLimits ==
  ASSUME NEW a \in Int, NEW b \in Int, NEW n \in Nat, NEW o \in Nat,
         n < NoTripLimit, o < OtherLimit, a <= b => Within(a, b, n, o)
  PROVE  /\ Cardinality(NoTrips(a, b)) < NoTripLimit
         /\ Cardinality((a .. b) \ NoTrips(a, b)) < OtherLimit
<1>1. Cardinality(NoTrips(a, b)) <= n /\ Cardinality((a .. b) \ NoTrips(a, b)) <= o
  <2>1. CASE a <= b
    BY <2>1 DEF Within
  <2>2. CASE b < a
    <3>1. NoTrips(a, b) = {} /\ (a .. b) \ NoTrips(a, b) = {}
      BY <2>2 DEF NoTrips
    <3> QED BY <3>1, FS_EmptySet
  <2> QED BY <2>1, <2>2
<1> QED BY <1>1, FiniteParts, LimitAssumption

(* Steps that leave the cycles before the current one alone. *)
LEMMA StreaksKept ==
  ASSUME ProgramInv, StreakInv, UNCHANGED cycle,
         \A c \in Cycles : c < cycle => rows'[c] = rows[c],
         Running' => Running /\ UNCHANGED <<progress, noTripStreak, otherStreak>>,
         pc' = "auto_sleep" => pc = "auto_sleep" /\ UNCHANGED <<rows, noTripStreak, otherStreak>>
  PROVE  StreakInv'
<1>0. cycle \in 1 .. Target + 1 /\ Target \in Nat /\ Cycles = 1 .. Target
  BY CyclesAssumption DEF ProgramInv, PositionOK
<1>1. \A a, b \in Cycles : b < cycle =>
        /\ Bad(a, b)' = Bad(a, b) /\ NoTrips(a, b)' = NoTrips(a, b)
  <2> SUFFICES ASSUME NEW a \in Cycles, NEW b \in Cycles, b < cycle
               PROVE  Bad(a, b)' = Bad(a, b) /\ NoTrips(a, b)' = NoTrips(a, b)
    OBVIOUS
  <2>1. \A c \in a .. b : rows'[c] = rows[c]
    BY <1>0
  <2> QED BY <2>1 DEF Bad, Good, NoTrips
<1>2. StreaksBounded'
  BY <1>1 DEF StreakInv, StreaksBounded, Bad, NoTrips
<1>3. Running' => IF progress' THEN cycle' > 1 /\ Good(cycle - 1)'
                               ELSE Covered(cycle - 1, noTripStreak, otherStreak)'
  <2> SUFFICES ASSUME Running'
               PROVE  IF progress THEN cycle > 1 /\ Good(cycle - 1)'
                                  ELSE Covered(cycle - 1, noTripStreak, otherStreak)'
    OBVIOUS
  <2>1. CASE progress
    <3>1. cycle > 1 /\ Good(cycle - 1)
      BY <2>1 DEF StreakInv
    <3>2. cycle - 1 \in Cycles /\ cycle - 1 < cycle
      BY <1>0, <3>1
    <3>3. rows'[cycle - 1] = rows[cycle - 1]
      BY <3>2
    <3> QED BY <2>1, <3>1, <3>3 DEF Good
  <2>2. CASE ~progress
    <3>1. Covered(cycle - 1, noTripStreak, otherStreak)
      BY <2>2 DEF StreakInv
    <3>2. \A a \in Cycles : a <= cycle - 1 => cycle - 1 \in Cycles /\ cycle - 1 < cycle
      BY <1>0
    <3> QED BY <1>1, <2>2, <3>1, <3>2 DEF Covered, Within
  <2> QED BY <2>1, <2>2
<1>4. pc' = "auto_sleep" => Covered(cycle, noTripStreak, otherStreak)'
  BY DEF StreakInv, Covered, Within, Bad, Good, NoTrips
<1> QED BY <1>2, <1>3, <1>4 DEF StreakInv

(* The next cycle: the one that ends here was measured, or is within the       *)
(* streaks.                                                                    *)
LEMMA StreaksNextCycle ==
  ASSUME ProgramInv, StreakInv, cycle \in Cycles, UNCHANGED rows, cycle' = cycle + 1,
         pc' # "auto_sleep",
         IF progress' THEN Good(cycle) ELSE Covered(cycle, noTripStreak, otherStreak),
         noTripStreak < NoTripLimit, otherStreak < OtherLimit,
         UNCHANGED <<noTripStreak, otherStreak>>
  PROVE  StreakInv'
<1>0. cycle \in Nat \ {0} /\ noTripStreak \in Nat /\ otherStreak \in Nat /\ Cycles = 1 .. Target
  BY CyclesAssumption, LimitAssumption DEF ProgramInv, StreaksOK
<1>1. ASSUME NEW a \in Cycles, NEW b \in Cycles, b < cycle + 1, Bad(a, b)
      PROVE  /\ Cardinality(NoTrips(a, b)) < NoTripLimit
             /\ Cardinality((a .. b) \ NoTrips(a, b)) < OtherLimit
  <2>1. CASE b < cycle
    BY <1>1, <2>1 DEF StreakInv, StreaksBounded, Bad, NoTrips
  <2>2. CASE b = cycle
    <3>1. a <= b => Within(a, b, noTripStreak, otherStreak)
      BY <1>0, <1>1, <2>2 DEF Covered, Bad
    <3>2. a \in Int /\ b \in Int
      BY <1>0
    <3> QED BY <1>0, <3>1, <3>2, BelowLimits
  <2> QED BY <1>0, <1>1, <2>1, <2>2
<1>2. StreaksBounded'
  BY <1>1 DEF StreaksBounded, Bad, Good, NoTrips
<1>3. cycle' - 1 = cycle /\ cycle' > 1
  BY <1>0
<1>4. IF progress' THEN Good(cycle - 1)' ELSE Covered(cycle - 1, noTripStreak, otherStreak)'
  BY <1>3 DEF Good, Covered, Within, Bad, NoTrips
<1> QED BY <1>2, <1>3, <1>4 DEF StreakInv

(* The auto-retry counts the cycle that halted. *)
LEMMA StreaksCountHalt ==
  ASSUME ProgramInv, MarkOK, RowOK, StreakInv, AutoRetry, pc' = "auto_sleep"
  PROVE  StreakInv'
<1>0. /\ pc = "returned" /\ outcome \in Halt /\ cycle \in Cycles /\ Cycles = 1 .. Target
      /\ Target \in Nat /\ UNCHANGED <<rows, cycle, progress>>
  BY CyclesAssumption
     DEF AutoRetry, Goto, ProgramInv, ControlOK, PositionOK, Halt, position, store
<1>1. outcome = "no_trip" <=> rows[cycle] = "NO_TRIP"
  BY <1>0 DEF MarkOK, Returning, OnDisk, RowOK, Halt, Escape
<1> DEFINE n == IF progress THEN 0 ELSE noTripStreak
           o == IF progress THEN 0 ELSE otherStreak
<1>2. n \in Nat /\ o \in Nat
  BY LimitAssumption DEF ProgramInv, StreaksOK
<1>3. /\ noTripStreak' = n + (IF outcome = "no_trip" THEN 1 ELSE 0)
      /\ otherStreak' = o + (IF outcome = "no_trip" THEN 0 ELSE 1)
  BY <1>0, ZenonT(20) DEF AutoRetry, Goto
<1>4. ASSUME NEW a \in Cycles, a <= cycle, Bad(a, cycle)
      PROVE  Within(a, cycle, noTripStreak', otherStreak')
  <2>1. a \in Nat /\ cycle \in Nat
    BY <1>0
  <2>2. ASSUME a < cycle PROVE Within(a, cycle - 1, n, o)
    <3>1. cycle - 1 \in a .. cycle /\ \A c \in a .. cycle - 1 : c \in a .. cycle
      BY <2>1, <2>2
    <3>2. ~Good(cycle - 1) /\ Bad(a, cycle - 1) /\ a <= cycle - 1
      BY <1>4, <2>1, <2>2, <3>1 DEF Bad
    <3>3. ~progress /\ Covered(cycle - 1, noTripStreak, otherStreak)
      BY <1>0, <3>2 DEF StreakInv, Running, CampaignPc
    <3> QED BY <1>4, <3>2, <3>3 DEF Covered
  <2> HIDE DEF n, o
  <2>3. IF rows[cycle] = "NO_TRIP" THEN Within(a, cycle, n + 1, o) ELSE Within(a, cycle, n, o + 1)
    BY <1>2, <1>4, <2>1, <2>2, OneMoreCycle
  <2>4. CASE rows[cycle] = "NO_TRIP"
    <3>1. noTripStreak' = n + 1 /\ otherStreak' = o
      BY <1>1, <1>2, <1>3, <2>4
    <3> QED BY <2>3, <2>4, <3>1
  <2>5. CASE rows[cycle] # "NO_TRIP"
    <3>1. noTripStreak' = n /\ otherStreak' = o + 1
      BY <1>1, <1>2, <1>3, <2>5
    <3> QED BY <2>3, <2>5, <3>1
  <2> QED BY <2>4, <2>5
<1>5. Covered(cycle, noTripStreak, otherStreak)'
  BY <1>0, <1>4 DEF Covered, Bad, Good, Within, NoTrips
<1>6. StreaksBounded'
  <2>1. StreaksBounded /\ rows' = rows /\ cycle' = cycle
    BY <1>0 DEF StreakInv
  <2>2. ASSUME NEW a \in Cycles, NEW b \in Cycles, b < cycle, Bad(a, b)
        PROVE  /\ Cardinality(NoTrips(a, b)) < NoTripLimit
               /\ Cardinality((a .. b) \ NoTrips(a, b)) < OtherLimit
    BY <2>1, <2>2 DEF StreaksBounded, Bad, NoTrips
  <2> QED BY <2>1, <2>2 DEF StreaksBounded, Bad, Good, NoTrips
<1>7. ~Running'
  BY DEF Running, CampaignPc
<1> QED BY <1>5, <1>6, <1>7 DEF StreakInv

(* Every step keeps the streaks ahead of the rows. *)
LEMMA StreakStep ==
  ASSUME ProgramInv, MarkOK, RowOK, StreakInv, [Next]_vars
  PROVE  StreakInv'
<1> USE DEF ProgramInv
<1>1. CASE CommitRow
  <2>1. \A c \in Cycles : c < cycle => rows'[c] = rows[c]
    BY <1>1, CyclesAssumption DEF CommitRow, StoreOK
  <2>2. /\ UNCHANGED <<cycle, progress>> /\ Running /\ pc' \in {"commit_state", "unwind"}
    BY <1>1 DEF CommitRow, Running, CampaignPc, Goto, Unwind, position
  <2>3. UNCHANGED <<noTripStreak, otherStreak>>
    BY <1>1 DEF CommitRow, Next, CampaignStep, CycleStep, campaignVars, StartCamera, AutoRetry,
       AutoSleep, RunEscaped, StopHandler, ExecFinally, ShutdownSafeOffDone, StopSignal, Signal,
       vars, sequencerVars, control
  <2> QED BY <2>1, <2>2, <2>3, StreaksKept
<1>2. CASE Cooldown /\ CycleStep /\ ~stop
  <2>1. /\ pc = "cooldown" /\ pc' = "loop" /\ cycle' = cycle + 1 /\ progress'
        /\ UNCHANGED <<rows, noTripStreak, otherStreak>>
    BY <1>2 DEF Cooldown, Interrupted, Goto, CycleStep, campaignVars, store
  <2>2. cycle \in Cycles
    BY <2>1, CycleAtStake DEF AtCycle, Attempting
  <2>3. Good(cycle)
    BY <2>1 DEF RowOK, ControlOK, Attempting
  <2>4. noTripStreak < NoTripLimit /\ otherStreak < OtherLimit
    BY <2>1 DEF StreaksOK
  <2> QED BY <2>1, <2>2, <2>3, <2>4, StreaksNextCycle
<1>3. CASE AutoSleep /\ ~stop
  <2>1. /\ pc = "auto_sleep" /\ pc' = "connect" /\ ~progress'
        /\ UNCHANGED <<rows, noTripStreak, otherStreak>>
        /\ cycle' = (IF last > cycle THEN last ELSE cycle) + 1
    BY <1>3 DEF AutoSleep, Interrupted, campaignVars, store
  <2>2. cycle \in Cycles /\ cycle \in Nat /\ last \in Nat
    BY <2>1, CyclesAssumption DEF ControlOK, PositionOK, Halt
  <2>3. cycle' = cycle + 1
    BY <2>1, <2>2 DEF RowOK
  <2>4. Covered(cycle, noTripStreak, otherStreak)
    BY <2>1 DEF StreakInv
  <2>5. noTripStreak < NoTripLimit /\ otherStreak < OtherLimit
    BY <2>1 DEF StreaksOK
  <2> QED BY <2>1, <2>2, <2>3, <2>4, <2>5, StreaksNextCycle
<1>4. CASE AutoRetry
  <2>1. pc' \in {"auto_sleep", "exec_finally"} /\ UNCHANGED <<rows, cycle>>
    BY <1>4, ZenonT(20) DEF AutoRetry, Goto, position, store
  <2>2. CASE pc' = "auto_sleep"
    BY <1>4, <2>2, StreaksCountHalt
  <2>3. CASE pc' = "exec_finally"
    BY <2>1, <2>3, StreaksKept DEF Running, CampaignPc
  <2> QED BY <2>1, <2>2, <2>3
<1>5. CASE \/ AutoSleep /\ stop
           \/ StartCamera \/ RunEscaped \/ StopHandler \/ ExecFinally \/ ShutdownSafeOffDone
           \/ StopSignal \/ UNCHANGED vars
  <2>1. UNCHANGED <<rows, cycle, progress, noTripStreak, otherStreak>>
    BY <1>5 DEF AutoSleep, Interrupted, StartCamera, RunEscaped, StopHandler, ExecFinally,
       ShutdownSafeOffDone, StopHandled, Finalize, StopSignal, Signal, vars, sequencerVars,
       campaignVars, position, store
  <2>2. (Running' => Running) /\ (pc' = "auto_sleep" => pc = "auto_sleep")
    BY <1>5 DEF AutoSleep, Interrupted, StartCamera, RunEscaped, StopHandler, ExecFinally,
       ShutdownSafeOffDone, StopHandled, Finalize, StopSignal, Signal, vars, sequencerVars,
       control, Running, CampaignPc, CampaignSite, Goto, StartSafeOff
  <2> QED BY <2>1, <2>2, StreaksKept
<1>6. CASE CycleStep /\ ~CommitRow /\ ~(Cooldown /\ ~stop)
  <2>1. UNCHANGED <<rows, cycle, progress, noTripStreak, otherStreak>>
    BY <1>6 DEF CycleStep, campaignVars, Interrupted, RunStep, Connect, Loop, CheckDisk,
       CloseMain, CheckMains, Gate, Scope, Inject, OpenInjection, AcquireEnds, Timeout,
       Diagnose, Capture, Analyze, CommitState, Cooldown, Retry, RetrySleep, MarkHalt,
       Finally, SafeOffStep, SafeOffDone, position, store
  <2>2. (Running' => Running) /\ pc' # "auto_sleep"
    <3>1. CASE SafeOffStep
      BY <3>1 DEF SafeOffStep, control, Running
    <3>2. CASE ~SafeOffStep
      <4>1. pc \in RunPc /\ (pc = "safe_off" => site \in RunSite)
        BY <1>6, <3>2, StageFacts
        DEF CycleStep, RunStep, Connect, Loop, CheckDisk, CloseMain, CheckMains, Gate, Scope,
            Inject, OpenInjection, AcquireEnds, Timeout, Diagnose, Capture, Analyze, CommitRow,
            CommitState, Cooldown, Retry, RetrySleep, MarkHalt, Finally, SafeOffDone, RunPc
      <4>2. Running
        BY <4>1, StageFacts DEF Running, RunPc, CampaignPc, CampaignSite, RunSite, AttemptSite
      <4>3. pc' # "auto_sleep"
        BY <1>6, StageFacts
        DEF CycleStep, RunStep, Connect, Loop, CheckDisk, CloseMain, CheckMains, Gate, Scope,
            Inject, OpenInjection, AcquireEnds, Timeout, Diagnose, Capture, Analyze, CommitRow,
            CommitState, Cooldown, Retry, RetrySleep, MarkHalt, Finally, SafeOffStep,
            SafeOffDone, SafeOffOk, SafeOffRaises, Goto, Raise, Unwind, StartSafeOff, control,
            RunSite, AttemptSite
      <4> QED BY <4>2, <4>3
    <3> QED BY <1>6, <3>1, <3>2
  <2> QED BY <2>1, <2>2, StreaksKept
<1> QED BY <1>1, <1>2, <1>3, <1>4, <1>5, <1>6 DEF Next, CampaignStep

(* Auto-retry stops at the limits, read off the rows, for any limits and any   *)
(* order of halts.                                                             *)
THEOREM StreaksStayBounded == Spec => []StreaksBounded
<1>1. Init => RowOK /\ StreakInv
  <2> SUFFICES ASSUME Init PROVE RowOK /\ StreakInv
    OBVIOUS
  <2>1. /\ pc = "start" /\ cycle = 1 /\ last = 0 /\ ~progress /\ outcome = "running"
        /\ Cycles = 1 .. Target /\ rows = [c \in Cycles |-> "none"]
    BY CyclesAssumption DEF Init, RunInit
  <2>2. RowOK
    BY <2>1 DEF RowOK
  <2>3. StreakInv
    BY <2>1 DEF StreakInv, StreaksBounded, Covered
  <2> QED BY <2>2, <2>3
<1>2. /\ ProgramInv /\ TokensOK /\ MarkOK /\ RowOK /\ StreakInv /\ [Next]_vars
        => RowOK' /\ StreakInv'
  BY RowStep, StreakStep
<1>3. StreakInv => StreaksBounded
  BY DEF StreakInv
<1> QED BY <1>1, <1>2, <1>3, ProgramInvariant, TokensInvariant, MarkInvariant, PTL DEF Spec

-----------------------------------------------------------------------------
(* The type invariant of the campaign, its controller included. *)
THEOREM TypeCorrect == Spec => []TypeOK
<1>1. ProgramInv /\ TokensOK /\ ContactorInv => TypeOK
  BY DEF ProgramInv, ControlOK, PositionOK, StoreOK, FlagsOK, StreaksOK, TokensOK,
         ContactorInv, TypeOK
<1>2. Spec => []ContactorInv
  BY CampaignDrivesController, ControllerInvariant, PTL
<1> QED BY <1>1, <1>2, ProgramInvariant, TokensInvariant, PTL
=============================================================================
