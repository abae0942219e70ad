---------------------------- MODULE Service_proofs ----------------------------
(* What module Service says of sleep(), of a stop and of a halt that was left  *)
(* behind, for every watchdog, stop limit, restart delay and length of sleep.  *)
EXTENDS Service, TLAPS

TypeOK ==
  /\ proc \in Proc /\ at \in {"none", "check", "chunk"}
  /\ chunk \in Nat /\ remaining \in Nat
  /\ mark \in BOOLEAN /\ stop \in BOOLEAN /\ unresolved \in BOOLEAN
  /\ sincePing \in Nat /\ sinceStop \in Nat /\ worked \in Nat

(* A process is in sleep() exactly when it has a place there, and it waits     *)
(* only in a chunk.                                                            *)
SleepControl ==
  /\ (proc = "sleeping") <=> (at # "none")
  /\ at # "chunk" => chunk = 0
  /\ chunk <= Step

(* Between two chunks every tick without a ping was spent at work; within one, *)
(* the sleep accounts for what is over of the chunk.                           *)
PingBudget ==
  /\ at # "chunk" => sincePing = worked
  /\ at = "chunk" => sincePing + chunk <= worked + Step

(* The clock of a stop runs only once there is one, and a chunk that runs      *)
(* began before it.                                                            *)
StopBudget ==
  /\ ~stop => sinceStop = 0
  /\ proc = "stopped" => sinceStop = 0
  /\ at = "chunk" => sinceStop + chunk <= Step

ServiceInv == TypeOK /\ SleepControl /\ PingBudget /\ StopBudget

-----------------------------------------------------------------------------
(* _watchdog_interval_s is at least a tick and at most half of the interval.   *)
LEMMA StepBounds == Step \in Nat /\ 1 <= Step /\ 2 * Step <= WatchdogSec
<1>1. WatchdogSec \in Nat /\ WatchdogSec >= 2
  BY ServiceAssumption
<1>2. PICK half \in Nat : half = WatchdogSec \div 2 /\ 1 <= half /\ 2 * half <= WatchdogSec
  BY <1>1
<1>3. Step = CHOOSE x \in {1, half} : \A y \in {1, half} : x >= y
  BY <1>2 DEF Step, Max
<1>4. Step \in {1, half} /\ \A y \in {1, half} : Step >= y
  <2>1. \E x \in {1, half} : \A y \in {1, half} : x >= y
    BY <1>2
  <2> QED BY <1>3, <2>1
<1> QED BY <1>2, <1>4

(* The next chunk of a sleep is no longer than the step, nor than what is left *)
(* of the sleep.                                                               *)
LEMMA ChunkBounds ==
  ASSUME NEW left \in Nat
  PROVE  /\ Min({Step, left}) \in Nat
         /\ Min({Step, left}) <= Step /\ Min({Step, left}) <= left
<1>1. Step \in Nat
  BY StepBounds
<1>2. \E x \in {Step, left} : \A y \in {Step, left} : x <= y
  BY <1>1
<1>3. Min({Step, left}) = CHOOSE x \in {Step, left} : \A y \in {Step, left} : x <= y
  BY DEF Min
<1>4. Min({Step, left}) \in {Step, left} /\ \A y \in {Step, left} : Min({Step, left}) <= y
  BY <1>2, <1>3
<1> QED BY <1>1, <1>4

(* The invariant holds when the first process loads its state. *)
LEMMA InvInit == Init => ServiceInv
<1> SUFFICES ASSUME Init PROVE ServiceInv
  OBVIOUS
<1>1. Step \in Nat
  BY StepBounds
<1>2. TypeOK
  BY DEF Init, TypeOK, Proc
<1>3. SleepControl /\ PingBudget /\ StopBudget
  BY <1>1 DEF Init, SleepControl, PingBudget, StopBudget
<1> QED BY <1>2, <1>3 DEF ServiceInv

(* Every process that ends leaves clocks at zero and no sleep. *)
LEMMA OverKeepsInv ==
  ASSUME ServiceInv, Over, UNCHANGED <<mark, stop, unresolved>>
  PROVE  ServiceInv'
BY StepBounds DEF Over, ServiceInv, TypeOK, SleepControl, PingBudget, StopBudget, Proc, Step

(* A step that neither sleeps nor waits keeps it. *)
LEMMA WorkKeepsInv ==
  ASSUME ServiceInv, proc # "sleeping", proc' \in Proc \ {"sleeping", "stopped"},
         UNCHANGED <<sleepVars, clocks>>,
         mark' \in BOOLEAN, unresolved' \in BOOLEAN,
         \/ stop' = stop
         \/ stop' = TRUE
         \/ stop' = FALSE /\ proc = "stopped"
  PROVE  ServiceInv'
BY DEF ServiceInv, TypeOK, SleepControl, PingBudget, StopBudget, Proc, sleepVars, clocks, Step

(* Each action keeps the invariant.  Time and sleep() are what it is about.    *)
LEMMA InvStep == ServiceInv /\ [Next]_vars => ServiceInv'
<1> SUFFICES ASSUME ServiceInv, [Next]_vars PROVE ServiceInv'
  OBVIOUS
<1> USE DEF ServiceInv
<1>1. CASE Tick
  <2>1. CASE proc = "down"
    BY <1>1, <2>1, StepBounds
    DEF Tick, TypeOK, SleepControl, PingBudget, StopBudget, Proc, Step
  <2>2. CASE proc \in {"alerting", "working"}
    BY <1>1, <2>2, StepBounds
    DEF Tick, TypeOK, SleepControl, PingBudget, StopBudget, Proc, Step
  <2>3. CASE proc = "sleeping"
    BY <1>1, <2>3, StepBounds
    DEF Tick, TypeOK, SleepControl, PingBudget, StopBudget, Proc, Step
  <2> QED BY <1>1, <2>1, <2>2, <2>3 DEF Tick
<1>2. CASE Systemd
  <2>1. CASE Restart
    BY <2>1, WorkKeepsInv DEF Restart, TypeOK, Proc
  <2>2. CASE Kill
    BY <2>2, OverKeepsInv DEF Kill
  <2> QED BY <1>2, <2>1, <2>2 DEF Systemd
<1>3. CASE Stop
  BY <1>3, StepBounds
  DEF Stop, Alive, TypeOK, SleepControl, PingBudget, StopBudget, Proc, sleepVars, clocks, Step
<1>4. CASE Edit
  BY <1>4 DEF Edit, TypeOK, SleepControl, PingBudget, StopBudget, Proc, sleepVars, clocks, Step
<1>5. CASE OperatorResumes
  BY <1>5, WorkKeepsInv DEF OperatorResumes, TypeOK, Proc
<1>6. CASE Campaign
  <2>1. CASE Refused \/ Exit
    BY <2>1, OverKeepsInv DEF Refused, Exit
  <2>2. CASE Load \/ Build \/ Complete
    BY <2>2, WorkKeepsInv DEF Load, Build, Complete, Working, TypeOK, Proc
  <2>3. CASE Energize \/ Commit \/ Halt \/ Escape \/ GiveUp
    BY <2>3, WorkKeepsInv
    DEF Energize, Commit, Halt, Escape, GiveUp, Working, Enter, TypeOK, Proc
  <2>4. CASE AttemptSleeps \/ SafeOffThenSleep
    BY <2>4, StepBounds, ServiceAssumption
    DEF AttemptSleeps, SafeOffThenSleep, Working, BeginSleep, TypeOK, SleepControl, PingBudget,
        StopBudget, Proc, clocks, Step
  <2>5. CASE Sleep
    <3>1. CASE stop
      BY <2>5, <3>1, StepBounds
      DEF Sleep, Interrupted, TypeOK, SleepControl, PingBudget, StopBudget, Proc, clocks, Step
    <3>2. CASE ~stop /\ remaining > 0
      <4>1. NextChunk /\ at = "check" /\ UNCHANGED <<stop, clocks>>
        BY <2>5, <3>2 DEF Sleep
      <4>2. chunk' \in Nat /\ chunk' <= Step /\ chunk' <= remaining
        BY <4>1, ChunkBounds DEF NextChunk, TypeOK
      <4>3. Step' = Step /\ Step \in Nat
        BY StepBounds DEF Step
      <4>4. TypeOK'
        BY <4>1, <4>2 DEF NextChunk, TypeOK, clocks
      <4>5. SleepControl' /\ PingBudget' /\ StopBudget'
        BY <3>2, <4>1, <4>2, <4>3
        DEF NextChunk, TypeOK, SleepControl, PingBudget, StopBudget, clocks
      <4> QED BY <4>4, <4>5
    <3>3. CASE ~stop /\ ~(remaining > 0)
      BY <2>5, <3>3, StepBounds
      DEF Sleep, Awake, TypeOK, SleepControl, PingBudget, StopBudget, Proc, clocks, Step
    <3> QED BY <3>1, <3>2, <3>3
  <2>6. CASE Ping
    BY <2>6, StepBounds
    DEF Ping, TypeOK, SleepControl, PingBudget, StopBudget, Proc, Step
  <2> QED BY <1>6, <2>1, <2>2, <2>3, <2>4, <2>5, <2>6 DEF Campaign
<1>7. CASE UNCHANGED vars
  BY <1>7
  DEF vars, TypeOK, SleepControl, PingBudget, StopBudget, Proc, sleepVars, clocks, Step
<1> QED BY <1>1, <1>2, <1>3, <1>4, <1>5, <1>6, <1>7 DEF Next

(* The budgets of a sleep are kept for ever. *)
THEOREM BudgetsKept == Spec => []ServiceInv
BY InvInit, InvStep, PTL DEF Spec

-----------------------------------------------------------------------------
(* However long the campaign sleeps, a watchdog that strikes in its sleep was  *)
(* used up by half before the sleep began (SystemdNotifier.sleep).             *)
THEOREM WatchdogSparesSleep == Spec => []SleepOutlivesWatchdog
<1>1. ServiceInv => SleepOutlivesWatchdog
  <2> SUFFICES ASSUME ServiceInv, proc = "sleeping", sincePing = WatchdogSec
               PROVE  2 * worked >= WatchdogSec
    BY DEF SleepOutlivesWatchdog
  <2>1. WatchdogSec \in Nat
    BY ServiceAssumption
  <2>2. CASE at # "chunk"
    BY <2>1, <2>2 DEF ServiceInv, TypeOK, PingBudget
  <2>3. CASE at = "chunk"
    BY <2>1, <2>3, StepBounds DEF ServiceInv, TypeOK, PingBudget
  <2> QED BY <2>2, <2>3
<1> QED BY <1>1, BudgetsKept, PTL

(* A stop ends the sleep it comes in within one chunk. *)
THEOREM SleepHearsStop == Spec => []StopEndsSleep
<1>1. ServiceInv => StopEndsSleep
  BY StepBounds DEF ServiceInv, TypeOK, StopBudget, StopEndsSleep
<1> QED BY <1>1, BudgetsKept, PTL

(* The halt an auto-retry went past is in runstate.json until a cycle commits  *)
(* after it: every restart before that is refused (load_run_state).            *)
THEOREM HaltKept == Spec => []HaltNotForgotten
<1>1. Init => HaltNotForgotten
  BY DEF Init, HaltNotForgotten
<1>2. HaltNotForgotten /\ [Next]_vars => HaltNotForgotten'
  <2> SUFFICES ASSUME HaltNotForgotten, [Next]_vars PROVE HaltNotForgotten'
    OBVIOUS
  <2>1. CASE UNCHANGED <<mark, unresolved>>
    BY <2>1 DEF HaltNotForgotten
  <2>2. CASE Commit \/ Halt
    BY <2>2 DEF Commit, Halt, HaltNotForgotten
  <2>3. CASE Sleep
    BY <2>3 DEF Sleep, NextChunk, Awake, Interrupted, HaltNotForgotten
  <2>4. CASE Next /\ ~(Commit \/ Halt \/ Sleep)
    BY <2>1, <2>4
    DEF Next, Tick, Systemd, Restart, Kill, Stop, Edit, OperatorResumes, Campaign, Refused, Load,
        Build, Energize, Escape, AttemptSleeps, SafeOffThenSleep, GiveUp, Exit, Complete, Ping
  <2> QED BY <2>1, <2>2, <2>3, <2>4 DEF vars
<1> QED BY <1>1, <1>2, PTL DEF Spec
=============================================================================
