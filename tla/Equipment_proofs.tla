--------------------------- MODULE Equipment_proofs ---------------------------
(* The oscilloscope session and the equipment refresh of module Equipment, for *)
(* every number of cycles, refresh schedule and number of attempts.            *)
EXTENDS Equipment, TLAPS

TypeOK ==
  /\ SessionTypeOK
  /\ flagged \in BOOLEAN /\ committed \in BOOLEAN
  /\ streak \in Nat /\ wornInRun \in Nat

(* The program counters a session that has wedged the instrument can reach.    *)
Wedged == {"bundle", "halt", "finally", "auto", "connect", "exit"}

(* A call runs only in a stage and on an open session with its own timeout;    *)
(* only the diagnostics set another, and the finally clause drops it; the      *)
(* connection is unusable exactly when the instrument wedged, and then left    *)
(* alone.                                                                      *)
SessionOK ==
  /\ attempt > 0 => pc = "stage" /\ inst
  /\ inst => rm
  /\ quick => inst /\ pc \in {"probe", "bundle", "halt", "finally"}
  /\ unusable <=> wedged
  /\ wedged => pc \in Wedged
  /\ ~touched
  /\ pc \in {"auto", "connect", "exit"} => ~inst
  /\ pc \in {"auto", "connect"} => ~rm

(* What an attempt of a cycle has written down about itself. *)
RecordOK ==
  /\ pc \in {"refresh", "disconnect", "reconnect", "gate", "stage"} =>
       ~committed /\ evidence = {}
  /\ pc \in {"probe", "bundle", "exception", "halt"} => ~committed
  /\ committed => evidence = {}

(* The streak run() acts on is the number of cycles it has gone without the    *)
(* camera, and a cycle starts only below the threshold.                        *)
StreakOK ==
  /\ streak = wornInRun
  /\ Threshold > 0 =>
       /\ streak <= Threshold
       /\ pc \notin {"connect", "head", "finally", "auto", "exit"} => streak < Threshold

(* The schedule bounds the cycles without a refresh by the distance from the   *)
(* last multiple of the interval; only a cycle that was counted moves on.      *)
InCycle == {"refresh", "disconnect", "reconnect", "gate", "stage", "probe", "bundle",
            "exception", "halt"}
WornOK ==
  /\ cycle \in Nat \ {0} /\ worn \in Nat
  /\ Interval > 0 =>
       /\ worn <= Interval
       /\ pc \in {"connect", "head"} => worn <= ((cycle - 1) % Interval) + 1
       /\ pc \in InCycle => worn <= cycle % Interval
       /\ pc = "auto" \/ (pc = "finally" /\ ending = "halt") => worn <= (cycle % Interval) + 1

EquipmentInv == TypeOK /\ SessionOK /\ RecordOK /\ StreakOK

-----------------------------------------------------------------------------
(* The constants are numbers; there is at least one attempt.                   *)
LEMMA Constants ==
  Target \in Nat /\ Interval \in Nat /\ Threshold \in Nat /\ Attempts \in Nat \ {0}
BY EquipmentAssumption, AttemptsAssumption

(* The first run() starts without a session and without a record. *)
LEMMA InvInit == Init => EquipmentInv
<1> SUFFICES ASSUME Init PROVE EquipmentInv
  OBVIOUS
<1>1. TypeOK
  <2>1. attempt \in 0 .. Attempts
    BY Constants DEF Init, SessionInit
  <2> QED BY <2>1 DEF Init, SessionInit, TypeOK, SessionTypeOK
<1>2. SessionOK /\ RecordOK /\ StreakOK
  BY Constants DEF Init, SessionInit, SessionOK, RecordOK, StreakOK
<1> QED BY <1>1, <1>2 DEF EquipmentInv

(* Each action is one step of the driver, or none, taken from where the        *)
(* program may take it.                                                        *)
LEMMA SessionStep ==
  ASSUME EquipmentInv, [Next]_vars
  PROVE  SessionTypeOK' /\ SessionOK'
<1> USE Constants DEF EquipmentInv, TypeOK, SessionTypeOK, SessionOK, Wedged, Goto, sessionVars
<1>1. CASE RunBegins
  <2>1. CASE ConnectOk /\ pc' = "head"
    BY <1>1, <2>1 DEF RunBegins, ConnectOk, Operate
  <2>2. CASE ConnectRaises /\ pc' = "exit"
    <3>1. pc = "connect" /\ UNCHANGED <<inst, unusable, quick, attempt, wedged>>
      BY <1>1, <2>2 DEF RunBegins, ConnectRaises
    <3>2. rm' \in BOOLEAN
      BY <2>2 DEF ConnectRaises
    <3>3. touched' = FALSE
      BY <2>2 DEF ConnectRaises, Operate
    <3> QED BY <2>2, <3>1, <3>2, <3>3
  <2> QED BY <1>1, <2>1, <2>2 DEF RunBegins
<1>2. CASE BeginCycle
  BY <1>2 DEF BeginCycle
<1>3. CASE RefreshCamera \/ Gate
  <2>1. UNCHANGED sessionVars
    BY <1>3 DEF RefreshCamera, Gate
  <2>2. pc \in {"refresh", "gate"} /\ pc' \in {"disconnect", "stage", "halt", "exception", "finally"}
    BY <1>3 DEF RefreshCamera, Gate
  <2> QED BY <2>1, <2>2
<1>4. CASE RefreshDisconnect
  BY <1>4 DEF RefreshDisconnect, Disconnect, DisconnectMayRaise, Operate
<1>5. CASE RefreshReconnect
  <2>1. CASE ConnectOk
    BY <1>5, <2>1 DEF RefreshReconnect, ConnectOk, Operate
  <2>2. CASE ConnectRaises
    BY <1>5, <2>2 DEF RefreshReconnect, ConnectRaises, Operate
  <2> QED BY <1>5, <2>1, <2>2 DEF RefreshReconnect
<1>6. CASE BeginCall
  BY <1>6 DEF BeginCall, CallBegins, Connected
<1>7. CASE FailedAttempt
  <2>1. pc = "stage" /\ pc' = pc
    BY <1>7 DEF FailedAttempt
  <2>2. /\ attempt > 0 /\ attempt < Attempts /\ attempt' = attempt + 1
        /\ inst' = rm /\ quick' = FALSE
        /\ UNCHANGED <<rm, unusable, wedged>>
    BY <1>7 DEF FailedAttempt, AttemptFails
  <2>3. ~wedged /\ touched' = FALSE
    BY <1>7, <2>1 DEF FailedAttempt, AttemptFails, Operate
  <2>4. attempt' \in 0 .. Attempts
    BY <2>2
  <2> QED BY <2>1, <2>2, <2>3, <2>4
<1>8. CASE CallRaises
  <2>1. pc = "stage" /\ pc' \in {"stage", "probe", "finally", "halt", "exception"}
    BY <1>8 DEF CallRaises, CallRaised
  <2>2. ~wedged /\ ~quick
    BY <2>1
  <2>3. CASE UNCHANGED sessionVars /\ attempt = 0
    BY <2>1, <2>2, <2>3
  <2>4. CASE CallExhausted \/ ReopenRaises
    <3>1. /\ attempt' = 0 /\ (inst' => rm) /\ quick' = FALSE
          /\ UNCHANGED <<rm, unusable, wedged>>
      BY <2>4 DEF CallExhausted, ReopenRaises
    <3>2. inst' \in BOOLEAN
      BY <2>4 DEF CallExhausted, ReopenRaises
    <3>3. touched' = FALSE
      BY <2>2, <2>4 DEF CallExhausted, ReopenRaises, Operate
    <3>4. SessionTypeOK'
      <4>1. attempt' \in 0 .. Attempts
        BY <3>1
      <4>2. rm' \in BOOLEAN /\ unusable' \in BOOLEAN /\ wedged' \in BOOLEAN
        BY <3>1
      <4> QED BY <3>1, <3>2, <3>3, <4>1, <4>2
    <3> HIDE DEF SessionTypeOK
    <3> QED BY <2>1, <2>2, <3>1, <3>3, <3>4
  <2> QED BY <1>8, <2>3, <2>4 DEF CallRaises
<1>9. CASE Observed
  BY <1>9 DEF Observed, CallAnswers, Operate
<1>10. CASE StageAnswered
  BY <1>10 DEF StageAnswered, CallAnswers, Operate
<1>11. CASE Acquired
  BY <1>11 DEF Acquired, CallAnswers, Operate
<1>12. CASE ForcedCapture
  BY <1>12 DEF ForcedCapture, CallAnswers, Operate
<1>13. CASE Diagnose
  BY <1>13 DEF Diagnose, ProbeAnswers, ProbeRaises, Connected, Operate
<1>14. CASE Bundle \/ Unexpected
  BY <1>14 DEF Bundle, Unexpected
<1>15. CASE HaltCycle
  BY <1>15 DEF HaltCycle
<1>16. CASE Commit
  BY <1>16 DEF Commit, CallAnswers, Operate
<1>17. CASE Finally
  BY <1>17 DEF Finally, Disconnect, Operate
<1>18. CASE AutoRetry
  BY <1>18 DEF AutoRetry
<1>19. CASE UNCHANGED vars
  BY <1>19 DEF vars
<1> QED BY <1>1, <1>2, <1>3, <1>4, <1>5, <1>6, <1>7, <1>8, <1>9, <1>10, <1>11, <1>12, <1>13,
           <1>14, <1>15, <1>16, <1>17, <1>18, <1>19 DEF Next

(* The refresh and the count after a cycle, the evidence and the row. *)
LEMMA RecordStep ==
  ASSUME EquipmentInv, [Next]_vars
  PROVE  RecordOK' /\ StreakOK' /\ TypeOK'
<1> USE Constants DEF EquipmentInv, TypeOK, RecordOK, StreakOK, Goto, files, cycleVars, wearVars
<1>0. SessionTypeOK'
  BY SessionStep
<1>1. CASE RunBegins
  BY <1>0, <1>1 DEF RunBegins
<1>2. CASE BeginCycle
  <2>1. CASE cycle > Target
    BY <1>0, <1>2, <2>1 DEF BeginCycle
  <2>2. CASE ~(cycle > Target) /\ Due
    <3>1. flagged' = FALSE /\ evidence' = {} /\ committed' = FALSE /\ pc' = "refresh"
      BY <1>2, <2>2 DEF BeginCycle
    <3>2. streak' = 0 /\ wornInRun' = 0
      BY <1>2, <2>2 DEF BeginCycle
    <3>3. TypeOK'
      BY <1>0, <3>1, <3>2
    <3>4. RecordOK'
      BY <3>1
    <3>5. StreakOK'
      BY <3>2
    <3> QED BY <3>3, <3>4, <3>5
  <2>3. CASE ~(cycle > Target) /\ ~Due
    <3>1. flagged' = FALSE /\ evidence' = {} /\ committed' = FALSE /\ pc' = "gate"
      BY <1>2, <2>3 DEF BeginCycle
    <3>2. streak' = streak /\ wornInRun' = wornInRun
      BY <1>2, <2>3 DEF BeginCycle
    <3>3. Threshold > 0 => streak < Threshold
      BY <2>3 DEF Due
    <3> QED BY <1>0, <3>1, <3>2, <3>3
  <2> QED BY <2>1, <2>2, <2>3
<1>3. CASE RefreshCamera \/ RefreshDisconnect \/ RefreshReconnect
  BY <1>0, <1>3 DEF RefreshCamera, RefreshDisconnect, RefreshReconnect
<1>4. CASE Gate
  <2>1. flagged' \in BOOLEAN
    BY <1>4 DEF Gate
  <2> QED BY <1>0, <1>4, <2>1 DEF Gate
<1>5. CASE BeginCall \/ FailedAttempt
  BY <1>0, <1>5 DEF BeginCall, FailedAttempt
<1>6. CASE CallRaises
  BY <1>0, <1>6 DEF CallRaises, CallRaised
<1>7. CASE Observed \/ StageAnswered \/ Acquired
  BY <1>0, <1>7 DEF Observed, StageAnswered, Acquired
<1>8. CASE ForcedCapture
  BY <1>0, <1>8 DEF ForcedCapture
<1>9. CASE Diagnose
  BY <1>0, <1>9 DEF Diagnose
<1>10. CASE Bundle \/ Unexpected
  BY <1>0, <1>10 DEF Bundle, Unexpected
<1>11. CASE HaltCycle
  BY <1>0, <1>11 DEF HaltCycle, CountCamera
<1>12. CASE Commit
  <2>1. pc = "stage" /\ pc' \in {"head", "finally"} /\ evidence' = evidence /\ flagged' = flagged
    BY <1>12 DEF Commit
  <2>2. committed' \in BOOLEAN
    BY <1>12 DEF Commit
  <2>3. CountCamera \/ UNCHANGED wearVars
    BY <1>12 DEF Commit
  <2>4. streak' \in Nat /\ wornInRun' = streak' /\ (streak' = 0 \/ streak' <= streak + 1)
    BY <2>3 DEF CountCamera
  <2> QED BY <1>0, <2>1, <2>2, <2>4
<1>13. CASE Finally \/ AutoRetry
  BY <1>0, <1>13 DEF Finally, AutoRetry
<1>14. CASE UNCHANGED vars
  BY <1>0, <1>14 DEF vars
<1> QED BY <1>1, <1>2, <1>3, <1>4, <1>5, <1>6, <1>7, <1>8, <1>9, <1>10, <1>11, <1>12, <1>13,
           <1>14 DEF Next

(* The range of a remainder. *)
LEMMA Remainder ==
  ASSUME NEW n \in Nat \ {0}, NEW c \in Nat
  PROVE  c % n \in 0 .. n - 1
BY Z3

(* A remainder is determined by its equation. *)
LEMMA RemainderUnique ==
  ASSUME NEW n \in Nat \ {0}, NEW c \in Nat, NEW q \in Int, NEW r \in 0 .. n - 1,
         c = n * q + r
  PROVE  c % n = r
BY Z3T(30)

(* Away from a multiple the remainder has gone up by one. *)
LEMMA RemainderCountsUp ==
  ASSUME NEW n \in Nat \ {0}, NEW c \in Nat \ {0}, c % n # 0
  PROVE  ((c - 1) % n) + 1 = c % n
<1>1. c = (c \div n) * n + (c % n) /\ c \div n \in Int
  BY SMTT(30)
<1>2. (c % n) - 1 \in 0 .. n - 1
  BY Remainder
<1>3. c - 1 \in Nat /\ c - 1 = n * (c \div n) + ((c % n) - 1)
  BY <1>1, <1>2
<1>4. (c - 1) % n = (c % n) - 1
  BY <1>1, <1>2, <1>3, RemainderUnique
<1> QED BY <1>2, <1>4

(* The first cycle has nothing behind it. *)
LEMMA WornInit == Init => WornOK
<1> SUFFICES ASSUME Init PROVE WornOK
  OBVIOUS
<1>1. Interval > 0 => (cycle - 1) % Interval \in Nat
  BY Constants, Remainder DEF Init
<1> QED BY <1>1, Constants DEF Init, WornOK, InCycle

(* Only a counted cycle adds to worn, and only on its way to the next one.     *)
LEMMA WornStep ==
  ASSUME WornOK, [Next]_vars
  PROVE  WornOK'
<1> USE Constants DEF WornOK, InCycle, Goto
<1>0. Interval > 0 => /\ cycle % Interval \in 0 .. Interval - 1
                      /\ (cycle - 1) % Interval \in 0 .. Interval - 1
  BY Remainder
<1>1. CASE RunBegins
  BY <1>1 DEF RunBegins
<1>2. CASE BeginCycle
  <2>1. CASE cycle > Target
    BY <1>2, <2>1 DEF BeginCycle, wearVars
  <2>2. CASE ~(cycle > Target) /\ Due
    BY <1>0, <1>2, <2>2 DEF BeginCycle
  <2>3. CASE ~(cycle > Target) /\ ~Due
    <3>1. pc = "head" /\ pc' = "gate" /\ UNCHANGED <<cycle, worn>>
      BY <1>2, <2>3 DEF BeginCycle, wearVars
    <3>2. Interval > 0 => ((cycle - 1) % Interval) + 1 = cycle % Interval
      <4>1. Interval > 0 => cycle % Interval # 0 /\ Interval \in Nat \ {0}
        BY <2>3 DEF Due
      <4> QED BY <4>1, RemainderCountsUp
    <3> QED BY <3>1, <3>2
  <2> QED BY <2>1, <2>2, <2>3
<1>3. CASE \/ RefreshCamera \/ RefreshDisconnect \/ RefreshReconnect \/ Gate
          \/ BeginCall \/ FailedAttempt \/ CallRaises \/ Observed \/ StageAnswered \/ Acquired
          \/ ForcedCapture \/ Diagnose \/ Bundle \/ Unexpected
  <2>1. UNCHANGED <<cycle, worn>>
    BY <1>3 DEF RefreshCamera, RefreshDisconnect, RefreshReconnect, Gate, BeginCall,
         FailedAttempt, CallRaises, Observed, StageAnswered, Acquired, ForcedCapture, Diagnose,
         Bundle, Unexpected, wearVars
  <2>2. pc \in InCycle /\ (pc' \in InCycle \/ (pc' = "finally" /\ ending' = "escape"))
    BY <1>3 DEF RefreshCamera, RefreshDisconnect, RefreshReconnect, Gate, BeginCall,
         FailedAttempt, CallRaises, CallRaised, Observed, StageAnswered, Acquired,
         ForcedCapture, Diagnose, Bundle, Unexpected
  <2> QED BY <2>1, <2>2
<1>4. CASE HaltCycle
  <2>1. pc = "halt" /\ pc' = "finally" /\ cycle' = cycle
    BY <1>4 DEF HaltCycle
  <2>2. worn' \in Nat /\ worn' <= worn + 1
    BY <1>4 DEF HaltCycle, CountCamera
  <2> QED BY <1>0, <2>1, <2>2
<1>5. CASE Commit
  <2>1. pc = "stage" /\ worn' \in Nat /\ worn' <= worn + 1
    BY <1>5 DEF Commit, CountCamera, wearVars
  <2>2. \/ pc' = "head" /\ cycle' = cycle + 1
        \/ pc' = "finally" /\ cycle' = cycle
    BY <1>5 DEF Commit
  <2>3. cycle + 1 - 1 = cycle
    OBVIOUS
  <2> QED BY <1>0, <2>1, <2>2, <2>3
<1>6. CASE Finally
  BY <1>0, <1>6 DEF Finally, wearVars
<1>7. CASE AutoRetry
  <2>1. cycle + 1 - 1 = cycle
    OBVIOUS
  <2> QED BY <1>0, <1>7, <2>1 DEF AutoRetry, wearVars
<1>8. CASE UNCHANGED vars
  BY <1>8 DEF vars, wearVars
<1> QED BY <1>1, <1>2, <1>3, <1>4, <1>5, <1>6, <1>7, <1>8 DEF Next

(* Both halves of the invariant, for ever. *)
LEMMA Invariance == Spec => []EquipmentInv
<1>1. EquipmentInv /\ [Next]_vars => EquipmentInv'
  BY SessionStep, RecordStep DEF EquipmentInv
<1> QED BY InvInit, <1>1, PTL DEF Spec

(* The schedule's bound, for ever. *)
LEMMA WornInvariance == Spec => []WornOK
<1>1. WornOK /\ [Next]_vars => WornOK'
  BY WornStep
<1> QED BY WornInit, <1>1, PTL DEF Spec

-----------------------------------------------------------------------------
(* What a failed diagnostics query leaves is never touched again               *)
(* (_connection_unusable of scope_real.py), and no cycle begins on it.         *)
THEOREM InstrumentLeftAlone == Spec => []WedgedLeftAlone
<1>1. EquipmentInv => WedgedLeftAlone
  BY DEF EquipmentInv, SessionOK, Wedged, WedgedLeftAlone
<1> QED BY <1>1, Invariance, PTL

(* Every attempt of _retry_io has an open session with its full timeout, for   *)
(* any number of attempts.                                                     *)
THEOREM CallsHaveSession == Spec => []CallsOnFullSession
<1>1. EquipmentInv => CallsOnFullSession
  BY DEF EquipmentInv, SessionOK, CallsOnFullSession
<1> QED BY <1>1, Invariance, PTL

(* run() leaves no session behind (its finally clause). *)
THEOREM SessionsReleased == Spec => []SessionReleased
<1>1. EquipmentInv => SessionReleased
  BY DEF EquipmentInv, SessionOK, SessionReleased
<1> QED BY <1>1, Invariance, PTL

(* An attempt that wrote down a failure commits no row. *)
THEOREM FailuresAreNotRows == Spec => []FailedAttemptHasNoRow
<1>1. EquipmentInv => FailedAttemptHasNoRow
  BY DEF EquipmentInv, RecordOK, FailedAttemptHasNoRow
<1> QED BY <1>1, Invariance, PTL

(* The camera is refreshed in time, by the streak within a run() and by the    *)
(* schedule across all of them (_maybe_refresh_equipment), for any schedule.   *)
THEOREM RefreshInTime == Spec => []RefreshDue
<1>1. EquipmentInv /\ WornOK => RefreshDue
  BY DEF EquipmentInv, TypeOK, StreakOK, WornOK, RefreshDue
<1> QED BY <1>1, Invariance, WornInvariance, PTL
=============================================================================
