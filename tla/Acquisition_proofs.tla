-------------------------- MODULE Acquisition_proofs --------------------------
(* How long K3 stays closed, and what the answer of the acquisition poll is    *)
(* worth, for every delay, backstop, timeout and length of a scope call.       *)
EXTENDS Acquisition, TLAPS

Control ==
  {"ter_clear", "ter_verify", "arm", "armed1", "armed2", "armed3", "ter_pre", "close_k3", "injected",
   "top", "force_ter", "force_cmd", "backstop", "wait", "sleep", "complete", "expire"} \union Answer

Before == {"ter_clear", "ter_verify", "arm"} \union ArmedPc \union {"close_k3"}

TypeOK ==
  /\ pc \in Control
  /\ dev \in {"stopped", "armed", "filling", "done"}
  /\ trig \in Natural \union {"none", "forced"}
  /\ ter \in BOOLEAN /\ terLost \in BOOLEAN /\ forceRaised \in BOOLEAN
  /\ k3 \in BOOLEAN /\ opened \in BOOLEAN
  /\ now \in Nat /\ start \in Nat /\ nowS \in Nat
  /\ checked \in BOOLEAN /\ forced \in BOOLEAN /\ live \in BOOLEAN

(* The shape of the program: nothing is closed, opened or forced before the    *)
(* injection, and nothing triggers before the arming.                          *)
Shape ==
  /\ pc \in Before => ~k3 /\ ~opened /\ ~checked /\ now = 0
  /\ k3 => ~opened /\ pc \notin {"success", "timeout"}
  /\ pc \in {"ter_clear", "ter_verify", "arm"} => dev = "stopped" /\ trig = "none"

(* How far each step of a turn may have come while K3 is closed.  The turn     *)
(* that forces is the first past ForceAt, so the turn before it made one call  *)
(* only; a turn that had reached the backstop would have opened K3.            *)
Budget ==
  k3 =>
    /\ pc = "injected" => now = 0 /\ ~checked
    /\ pc = "top" =>
         /\ now < Backstop + 7 * MaxCall + 2 * PollSleep
         /\ ~checked => now < Backstop + MaxCall + 2 * PollSleep
    /\ pc = "force_ter" => /\ checked /\ nowS = now
                           /\ now < Backstop + MaxCall + 2 * PollSleep
    /\ pc = "force_cmd" => /\ checked /\ now <= nowS + 2 * MaxCall
                           /\ nowS < Backstop + MaxCall + 2 * PollSleep
    /\ pc = "backstop" =>
         /\ now < Backstop + 7 * MaxCall + 2 * PollSleep
         /\ now <= nowS + 5 * MaxCall
         /\ ~checked => now = nowS
    /\ pc = "wait" =>
         /\ nowS < Backstop /\ now <= nowS + 5 * MaxCall
         /\ ~checked => now = nowS
    /\ pc \in {"sleep", "complete"} =>
         /\ now < Backstop + 7 * MaxCall + PollSleep
         /\ ~checked => now < Backstop + MaxCall + PollSleep
    /\ pc = "expire" => now < Backstop + 7 * MaxCall + 2 * PollSleep

(* Where the evidence of a trigger is. *)
Evidence ==
  /\ ~checked \/ pc = "force_ter" => ~live
  /\ trig \in Natural /\ pc # "halt" => live \/ ter \/ terLost
  /\ trig = "early" /\ pc \in ArmedPc => ter
  /\ trig = "early" /\ pc \notin ArmedPc /\ pc # "halt" => terLost
  /\ trig = "forced" => forced \/ forceRaised
  /\ pc \in {"complete", "success"} => ~forced
  /\ forced \/ pc \in {"force_ter", "force_cmd"} => checked

AcquisitionInv == TypeOK /\ Shape /\ Budget /\ Evidence

-----------------------------------------------------------------------------
(* The constants are numbers, and no delay but a call's is zero. *)
LEMMA Constants ==
  /\ ForceAt \in Nat \ {0} /\ Backstop \in Nat \ {0} /\ AcqTimeout \in Nat \ {0}
  /\ PollSleep \in Nat \ {0} /\ MaxCall \in Nat
BY TimingAssumption

(* The invariant holds when the register is first read. *)
LEMMA InvInit == Init => AcquisitionInv
<1> SUFFICES ASSUME Init PROVE AcquisitionInv
  OBVIOUS
<1>1. TypeOK
  BY DEF Init, TypeOK, Control, Natural
<1>2. Shape /\ Budget /\ Evidence
  BY DEF Init, Shape, Budget, Evidence, ArmedPc, Natural
<1> QED BY <1>1, <1>2 DEF AcquisitionInv

(* What n calls, one after another, do to the clock. *)
LEMMA CallBounds ==
  ASSUME now \in Nat, NEW n \in Nat, Calls(n)
  PROVE  now' \in Nat /\ now <= now' /\ now' <= now + n * MaxCall
<1>1. n * MaxCall \in Nat
  BY Constants
<1> QED BY <1>1 DEF Calls

(* The steps of the poll make one, two or three calls at a time. *)
LEMMA OneToThree ==
  ASSUME now \in Nat
  PROVE  /\ Calls(1) => now' \in Nat /\ now <= now' /\ now' <= now + MaxCall
         /\ Calls(2) => now' \in Nat /\ now <= now' /\ now' <= now + 2 * MaxCall
         /\ Calls(3) => now' \in Nat /\ now <= now' /\ now' <= now + 3 * MaxCall
<1>1. ASSUME Calls(1) PROVE now' \in Nat /\ now <= now' /\ now' <= now + MaxCall
  <2>1. now' \in Nat /\ now <= now' /\ now' <= now + 1 * MaxCall
    BY <1>1, CallBounds
  <2> QED BY <2>1, Constants
<1>2. ASSUME Calls(2) PROVE now' \in Nat /\ now <= now' /\ now' <= now + 2 * MaxCall
  BY <1>2, CallBounds
<1>3. ASSUME Calls(3) PROVE now' \in Nat /\ now <= now' /\ now' <= now + 3 * MaxCall
  BY <1>3, CallBounds
<1> QED BY <1>1, <1>2, <1>3

(* A turn that waits makes one call and sleeps in the driver, or makes up to   *)
(* two calls after a force.                                                    *)
LEMMA WaitBounds ==
  ASSUME now \in Nat, forced \in BOOLEAN, Wait
  PROVE  /\ pc' \in {"complete", "sleep", "halt"}
         /\ now' \in Nat
         /\ \/ forced /\ now' <= now + 2 * MaxCall
            \/ ~forced /\ now' <= now + MaxCall + PollSleep
<1>1. CASE forced
  <2>1. ObserveForced
    BY <1>1 DEF Wait
  <2>2. CASE Running
    <3>1. Calls(1) /\ pc' = "sleep"
      BY <2>1, <2>2 DEF ObserveForced
    <3> QED BY <1>1, <3>1, OneToThree, Constants
  <2>3. CASE ~Running
    <3>1. Calls(2) /\ pc' = "sleep"
      BY <2>1, <2>3 DEF ObserveForced
    <3> QED BY <1>1, <3>1, OneToThree, Constants
  <2> QED BY <2>2, <2>3
<1>2. CASE ~forced
  <2>1. AskComplete \/ (pc' = "sleep" /\ UNCHANGED now)
    BY <1>2 DEF Wait
  <2>2. CASE Calls(1) /\ pc' \in {"complete", "halt"}
    BY <1>2, <2>2, OneToThree, Constants
  <2>3. CASE pc' = "sleep" /\ \E d \in 0 .. MaxCall : now' = now + d + PollSleep
    BY <1>2, <2>3, Constants
  <2>4. CASE pc' = "sleep" /\ UNCHANGED now
    BY <1>2, <2>4, Constants
  <2> QED BY <2>1, <2>2, <2>3, <2>4 DEF AskComplete
<1> QED BY <1>1, <1>2

(* What opening K3 does: one snapshot follows it. *)
LEMMA OpenBounds ==
  ASSUME now \in Nat, OpenK3
  PROVE  k3' = FALSE /\ opened' = TRUE /\ now' \in Nat
BY OneToThree DEF OpenK3

(* A read of the register: what it answers, it clears; what it clears without  *)
(* an answer is lost.                                                          *)
LEMMA ReadTerFacts ==
  ASSUME TypeOK, NEW seen \in BOOLEAN, ReadTer(seen)
  PROVE  /\ ter' = FALSE /\ terLost' \in BOOLEAN
         /\ dev' = dev /\ trig' = trig /\ forceRaised' = forceRaised
         /\ seen => ter
         /\ ter /\ ~seen => terLost'
         /\ terLost => terLost'
BY DEF TypeOK, ReadTer

(* Types are kept. *)
LEMMA TypeStep == TypeOK /\ [Next]_vars => TypeOK'
<1> SUFFICES ASSUME TypeOK, [Next]_vars PROVE TypeOK'
  OBVIOUS
<1> USE DEF TypeOK, Control, Answer, Idle, Halt, scope, history, relay, clock, flags
<1>1. CASE BaselineTer
  <2>1. CASE Halt
    BY <1>1, <2>1 DEF BaselineTer
  <2>2. CASE \E s \in BOOLEAN : ReadTer(s) /\ pc' \in {"ter_verify", "arm", "halt"}
    <3>1. PICK s \in BOOLEAN : ReadTer(s) /\ pc' \in {"ter_verify", "arm", "halt"}
      BY <2>2
    <3>2. ter' \in BOOLEAN /\ terLost' \in BOOLEAN /\ UNCHANGED <<dev, trig, forceRaised>>
      BY <3>1, ReadTerFacts
    <3> QED BY <1>1, <3>1, <3>2 DEF BaselineTer
  <2> QED BY <1>1, <2>1, <2>2 DEF BaselineTer
<1>2. CASE ArmSingle
  BY <1>2 DEF ArmSingle
<1>3. CASE PollArmed
  BY <1>3 DEF PollArmed, AfterArmed
<1>4. CASE PreInjectionTer
  <2>1. CASE Halt
    BY <1>4, <2>1 DEF PreInjectionTer
  <2>2. CASE \E s \in BOOLEAN : ReadTer(s) /\ pc' \in {"close_k3", "halt"}
    <3>1. PICK s \in BOOLEAN : ReadTer(s) /\ pc' \in {"close_k3", "halt"}
      BY <2>2
    <3>2. ter' \in BOOLEAN /\ terLost' \in BOOLEAN /\ UNCHANGED <<dev, trig, forceRaised>>
      BY <3>1, ReadTerFacts
    <3> QED BY <1>4, <3>1, <3>2 DEF PreInjectionTer
  <2> QED BY <1>4, <2>1, <2>2 DEF PreInjectionTer
<1>5. CASE CloseK3
  <2>1. UNCHANGED <<scope, history, opened, clock, flags>> /\ pc' \in {"injected", "halt"}
    BY <1>5 DEF CloseK3
  <2>2. k3' \in BOOLEAN
    BY <1>5 DEF CloseK3
  <2> QED BY <2>1, <2>2
<1>6. CASE LoopTop
  <2>1. UNCHANGED <<scope, history, relay, now, start, forced, live>>
    BY <1>6 DEF LoopTop
  <2>2. pc' \in {"expire", "force_ter", "backstop"} /\ nowS' \in Nat
    BY <1>6 DEF LoopTop
  <2>3. checked' \in BOOLEAN
    BY <1>6 DEF LoopTop
  <2> QED BY <2>1, <2>2, <2>3
<1>7. CASE ForceTer
  <2>1. now' \in Nat
    BY <1>7, OneToThree DEF ForceTer
  <2>2. UNCHANGED <<relay, start, nowS, checked, forced>> /\ pc' \in {"backstop", "force_cmd"}
    BY <1>7 DEF ForceTer
  <2>3. live' \in BOOLEAN
    BY <1>7 DEF ForceTer
  <2>4. PICK s \in BOOLEAN : ReadTer(s) \/ UNCHANGED <<scope, history>>
    BY <1>7 DEF ForceTer
  <2>5. /\ ter' \in BOOLEAN /\ terLost' \in BOOLEAN
        /\ UNCHANGED <<dev, trig, forceRaised>>
    BY <2>4, ReadTerFacts
  <2> QED BY <2>1, <2>2, <2>3, <2>5
<1>8. CASE ForceCmd
  <2>1. now' \in Nat
    BY <1>8, OneToThree DEF ForceCmd
  <2>2. UNCHANGED <<relay, start, nowS, checked, live, terLost>> /\ pc' = "backstop"
    BY <1>8 DEF ForceCmd
  <2>3. forced' \in BOOLEAN /\ forceRaised' \in BOOLEAN
    BY <1>8 DEF ForceCmd
  <2>4. ForceEffect \/ UNCHANGED scope
    BY <1>8 DEF ForceCmd
  <2>5. /\ dev' \in {"stopped", "armed", "filling", "done"} /\ ter' \in BOOLEAN
        /\ trig' \in Natural \union {"none", "forced"}
    BY <2>4 DEF ForceEffect
  <2> QED BY <2>1, <2>2, <2>3, <2>5
<1>9. CASE BackstopCheck
  <2>1. UNCHANGED <<scope, history, start, nowS, flags>> /\ pc' \in {"wait", "halt"}
    BY <1>9 DEF BackstopCheck
  <2>2. OpenK3 \/ UNCHANGED <<relay, now>>
    BY <1>9 DEF BackstopCheck
  <2>3. k3' \in BOOLEAN /\ opened' \in BOOLEAN /\ now' \in Nat
    BY <2>2, OpenBounds
  <2> QED BY <2>1, <2>3
<1>10. CASE Wait
  <2>1. UNCHANGED <<scope, history, relay, start, nowS, flags>>
    BY <1>10 DEF Wait
  <2> QED BY <1>10, <2>1, WaitBounds
<1>11. CASE Complete \/ Expire
  <2>1. UNCHANGED <<scope, history, start, nowS, flags>> /\ pc' \in Answer
    BY <1>11 DEF Complete, Expire, OpenThen
  <2>2. OpenK3 \/ UNCHANGED <<relay, now>>
    BY <1>11 DEF Complete, Expire, OpenThen
  <2>3. k3' \in BOOLEAN /\ opened' \in BOOLEAN /\ now' \in Nat
    BY <2>2, OpenBounds
  <2> QED BY <2>1, <2>3
<1>12. CASE Sleep
  BY <1>12, Constants DEF Sleep
<1>13. CASE Trigger
  BY <1>13 DEF Trigger, Phase, Natural
<1>14. CASE Fill
  BY <1>14 DEF Fill
<1>15. CASE UNCHANGED vars
  BY <1>15 DEF vars
<1>16. CASE Injected
  <2>1. UNCHANGED <<scope, history, relay, nowS, flags>> /\ pc' \in {"top", "halt"}
    BY <1>16 DEF Injected
  <2>2. now' \in Nat /\ start' \in Nat
    BY <1>16, OneToThree DEF Injected
  <2> QED BY <2>1, <2>2
<1> QED BY <1>1, <1>2, <1>3, <1>4, <1>5, <1>6, <1>7, <1>8, <1>9, <1>10, <1>11, <1>12, <1>13,
           <1>14, <1>15, <1>16 DEF Next, Program

(* The steps up to the injection. *)
LEMMA EarlyStep ==
  ASSUME AcquisitionInv, BaselineTer \/ ArmSingle \/ PollArmed \/ PreInjectionTer \/ CloseK3
  PROVE  Shape' /\ Budget' /\ Evidence'
<1> USE DEF AcquisitionInv, TypeOK, Shape, Budget, Evidence, Before, Answer, ArmedPc, Natural,
            Idle, Halt, scope, history, relay, clock, flags
<1>1. CASE BaselineTer
  BY <1>1 DEF BaselineTer, ReadTer
<1>2. CASE ArmSingle
  BY <1>2 DEF ArmSingle
<1>3. CASE PollArmed
  BY <1>3 DEF PollArmed, AfterArmed
<1>4. CASE PreInjectionTer
  <2>1. CASE Halt
    BY <1>4, <2>1 DEF PreInjectionTer
  <2>2. CASE \E s \in BOOLEAN : ReadTer(s) /\ pc' = IF s THEN "halt" ELSE "close_k3"
    <3>1. PICK s \in BOOLEAN : ReadTer(s) /\ pc' = IF s THEN "halt" ELSE "close_k3"
      BY <2>2
    <3>2. /\ ter /\ ~s => terLost'
          /\ terLost => terLost'
          /\ trig' = trig /\ forceRaised' = forceRaised
      BY <3>1, ReadTerFacts
    <3>3. s => ter
      BY <3>1, ReadTerFacts
    <3>4. UNCHANGED <<relay, clock, flags>> /\ pc = "ter_pre"
      BY <1>4 DEF PreInjectionTer
    <3>5. CASE s
      BY <3>1, <3>2, <3>4, <3>5, ReadTerFacts
    <3>6. CASE ~s
      BY <3>1, <3>2, <3>4, <3>6
    <3> QED BY <3>5, <3>6
  <2> QED BY <1>4, <2>1, <2>2 DEF PreInjectionTer
<1>5. CASE CloseK3
  BY <1>5, Constants DEF CloseK3
<1> QED BY <1>1, <1>2, <1>3, <1>4, <1>5

(* A turn of the loop, one step at a time: the clock. *)
LEMMA LoopBudget ==
  ASSUME AcquisitionInv, TypeOK',
         \/ Injected \/ LoopTop \/ ForceTer \/ ForceCmd \/ BackstopCheck
         \/ Wait \/ Complete \/ Expire \/ Sleep
  PROVE  Shape' /\ Budget'
<1> USE DEF AcquisitionInv, TypeOK, Shape, Budget, Evidence, Before, Answer, ArmedPc,
            Idle, Halt, scope, history, relay, clock, flags
<1>1. CASE LoopTop
  <2>1. pc = "top" /\ UNCHANGED <<k3, opened, now>>
    BY <1>1 DEF LoopTop
  <2>2. CASE now - start > AcqTimeout
    BY <1>1, <2>1, <2>2, Constants DEF LoopTop
  <2>3. CASE ~(now - start > AcqTimeout) /\ ~checked /\ ~opened /\ now >= ForceAt
    <3>1. pc' = "force_ter" /\ nowS' = now /\ checked'
      BY <1>1, <2>3, Constants DEF LoopTop
    <3> QED BY <2>1, <2>3, <3>1, Constants
  <2>4. CASE ~(now - start > AcqTimeout) /\ ~(~checked /\ ~opened /\ now >= ForceAt)
    <3>1. pc' = "backstop" /\ nowS' = now /\ checked' = checked
      BY <1>1, <2>4, Constants DEF LoopTop
    <3> QED BY <2>1, <2>4, <3>1, Constants
  <2> QED BY <2>2, <2>3, <2>4
<1>2. CASE ForceTer
  <2>1. pc = "force_ter" /\ UNCHANGED <<k3, opened, nowS, checked>>
    BY <1>2 DEF ForceTer
  <2>2. pc' \in {"backstop", "force_cmd"}
    BY <1>2 DEF ForceTer
  <2>3. now' \in Nat /\ now <= now' /\ now' <= now + 2 * MaxCall
    <3>1. Calls(1) \/ Calls(2)
      BY <1>2 DEF ForceTer
    <3> HIDE DEF AcquisitionInv, TypeOK, Shape, Budget, Evidence
    <3>2. now \in Nat
      BY DEF AcquisitionInv, TypeOK
    <3> QED BY <3>1, <3>2, OneToThree, Constants
  <2> QED BY <2>1, <2>2, <2>3, Constants
<1>3. CASE ForceCmd
  <2>1. pc = "force_cmd" /\ pc' = "backstop" /\ UNCHANGED <<k3, opened, nowS, checked>>
    BY <1>3 DEF ForceCmd
  <2>2. now' \in Nat /\ now <= now' /\ now' <= now + 3 * MaxCall
    BY <1>3, OneToThree, Constants DEF ForceCmd
  <2> QED BY <2>1, <2>2, Constants
<1>4. CASE BackstopCheck
  <2>1. CASE OpenK3 /\ pc' = "wait"
    <3>1. k3' = FALSE
      BY <2>1 DEF OpenK3
    <3> QED BY <2>1, <3>1
  <2>2. CASE Halt /\ UNCHANGED <<relay, now>>
    BY <2>2
  <2>3. CASE ~(~opened /\ nowS >= Backstop) /\ pc' = "wait" /\ UNCHANGED <<relay, now, nowS, flags>>
    BY <1>4, <2>3, Constants DEF BackstopCheck
  <2> QED BY <1>4, <2>1, <2>2, <2>3 DEF BackstopCheck
<1>5. CASE Wait
  <2>1. pc = "wait" /\ UNCHANGED <<k3, opened, nowS, checked, forced>>
    BY <1>5 DEF Wait
  <2>2. /\ pc' \in {"complete", "sleep", "halt"} /\ now' \in Nat
        /\ \/ forced /\ now' <= now + 2 * MaxCall
           \/ ~forced /\ now' <= now + MaxCall + PollSleep
    BY <1>5, WaitBounds
  <2>3. forced => checked
    OBVIOUS
  <2> QED BY <2>1, <2>2, <2>3, Constants
<1>6. CASE Complete \/ Expire
  <2>1. pc' \in Answer /\ (pc' = "halt" \/ k3' = FALSE)
    BY <1>6 DEF Complete, Expire, OpenThen, OpenK3
  <2>2. k3' => k3 /\ UNCHANGED opened
    BY <1>6 DEF Complete, Expire, OpenThen, OpenK3
  <2> QED BY <2>1, <2>2
<1>7. CASE Sleep
  BY <1>7, Constants DEF Sleep
<1>8. CASE Injected
  <2>1. pc = "injected" /\ pc' \in {"top", "halt"} /\ UNCHANGED <<k3, opened, checked>>
    BY <1>8 DEF Injected
  <2>2. now' \in Nat /\ now' <= now + MaxCall
    BY <1>8, OneToThree DEF Injected
  <2>3. CASE k3
    <3>1. now = 0 /\ ~checked /\ ~opened
      BY <2>1, <2>3
    <3>2. now' < Backstop + MaxCall + 2 * PollSleep /\ now' < Backstop + 7 * MaxCall + 2 * PollSleep
      BY <2>2, <3>1, Constants
    <3> QED BY <2>1, <3>1, <3>2
  <2>4. CASE ~k3
    BY <2>1, <2>4
  <2> QED BY <2>3, <2>4
<1> QED BY <1>1, <1>2, <1>3, <1>4, <1>5, <1>6, <1>7, <1>8

(* A turn of the loop, one step at a time: the evidence. *)
LEMMA LoopEvidence ==
  ASSUME AcquisitionInv,
         \/ Injected \/ LoopTop \/ ForceTer \/ ForceCmd \/ BackstopCheck
         \/ Wait \/ Complete \/ Expire \/ Sleep
  PROVE  Evidence'
<1> USE DEF AcquisitionInv, TypeOK, Evidence, Answer, ArmedPc, Natural, Halt, scope, history,
            relay, clock, flags
<1>1. CASE LoopTop
  BY <1>1 DEF LoopTop
<1>2. CASE ForceTer
  <2>1. pc = "force_ter" /\ ~live /\ UNCHANGED <<checked, forced>>
    BY <1>2 DEF ForceTer
  <2>2. CASE \E s \in BOOLEAN : /\ ReadTer(s) /\ live' = s
                               /\ pc' \in {"backstop", "force_cmd"}
    <3>1. PICK s \in BOOLEAN : /\ ReadTer(s) /\ live' = s
                              /\ pc' \in {"backstop", "force_cmd"}
      BY <2>2
    <3>2. /\ ter => s \/ terLost'
          /\ terLost => terLost'
          /\ trig' = trig /\ forceRaised' = forceRaised
      BY <3>1, ReadTerFacts
    <3> QED BY <2>1, <3>1, <3>2
  <2>3. CASE /\ ReadTer(FALSE) \/ UNCHANGED <<scope, history>>
             /\ pc' = "backstop" /\ UNCHANGED live
    <3>1. /\ ter => ter' \/ terLost'
          /\ terLost => terLost'
          /\ trig' = trig /\ forceRaised' = forceRaised
      BY <2>3, ReadTerFacts
    <3> QED BY <2>1, <2>3, <3>1
  <2> QED BY <1>2, <2>2, <2>3 DEF ForceTer
<1>3. CASE ForceCmd
  <2>1. pc = "force_cmd" /\ pc' = "backstop" /\ UNCHANGED <<checked, live, terLost>>
    BY <1>3 DEF ForceCmd
  <2>2. CASE UNCHANGED <<scope, forced>> /\ forceRaised' = TRUE
    BY <2>1, <2>2
  <2>3. CASE ForceEffect /\ (\/ forced' = TRUE /\ UNCHANGED forceRaised
                             \/ forceRaised' = TRUE /\ UNCHANGED forced)
    <3>1. trig' = "forced" \/ UNCHANGED <<ter, trig>>
      BY <2>3 DEF ForceEffect
    <3>2. (forced => forced') /\ (forceRaised => forceRaised') /\ (forced' \/ forceRaised')
      BY <2>3
    <3>3. checked /\ checked' /\ live' = live
      BY <2>1
    <3>4. CASE trig' = "forced"
      BY <2>1, <3>2, <3>3, <3>4
    <3>5. CASE UNCHANGED <<ter, trig>>
      BY <2>1, <3>2, <3>3, <3>5
    <3> QED BY <3>1, <3>4, <3>5
  <2> QED BY <1>3, <2>2, <2>3 DEF ForceCmd
<1>4. CASE BackstopCheck
  BY <1>4 DEF BackstopCheck, OpenK3
<1>5. CASE Wait
  BY <1>5 DEF Wait, AskComplete, ObserveForced
<1>6. CASE Complete \/ Expire
  BY <1>6 DEF Complete, Expire, OpenThen, OpenK3
<1>7. CASE Sleep
  BY <1>7 DEF Sleep
<1>8. CASE Injected
  BY <1>8 DEF Injected
<1> QED BY <1>1, <1>2, <1>3, <1>4, <1>5, <1>6, <1>7, <1>8

(* Every step of the program and of the oscilloscope keeps the invariant. *)
LEMMA InvStep == AcquisitionInv /\ [Next]_vars => AcquisitionInv'
<1> SUFFICES ASSUME AcquisitionInv, [Next]_vars PROVE AcquisitionInv'
  OBVIOUS
<1>1. TypeOK'
  BY TypeStep DEF AcquisitionInv
<1>2. CASE BaselineTer \/ ArmSingle \/ PollArmed \/ PreInjectionTer \/ CloseK3
  BY <1>1, <1>2, EarlyStep DEF AcquisitionInv
<1>3. CASE \/ Injected \/ LoopTop \/ ForceTer \/ ForceCmd \/ BackstopCheck
           \/ Wait \/ Complete \/ Expire \/ Sleep
  BY <1>1, <1>3, LoopBudget, LoopEvidence DEF AcquisitionInv
<1>4. CASE Trigger \/ Fill
  BY <1>1, <1>4
  DEF Trigger, Fill, Phase, AcquisitionInv, TypeOK, Shape, Budget, Evidence, Before, Answer,
      ArmedPc, Natural, Control, history, relay, clock, flags
<1>5. CASE UNCHANGED vars
  BY <1>1, <1>5
  DEF vars, AcquisitionInv, TypeOK, Shape, Budget, Evidence, scope, history, relay, clock, flags
<1> QED BY <1>2, <1>3, <1>4, <1>5 DEF Next, Program

(* The invariant, for ever. *)
LEMMA Invariance == Spec => []AcquisitionInv
BY InvInit, InvStep, PTL DEF Spec

-----------------------------------------------------------------------------
(* K3 is closed at most one backstop, seven queries or writes and two sleeps,  *)
(* for any timing of _poll_acquisition_with_backstop.                          *)
THEOREM InjectionBounded == Spec => []K3ClosedBounded
<1>1. AcquisitionInv => K3ClosedBounded
  BY Constants
  DEF AcquisitionInv, TypeOK, Shape, Budget, K3ClosedBounded, Control, Answer, Before, ArmedPc
<1> QED BY <1>1, Invariance, PTL

(* A measurement was triggered during the injection, and a timeout keeps the   *)
(* evidence of a trigger, but for an answer that was lost on the way.          *)
THEOREM AnswersAreEarned == Spec => []AnswerTellsTrigger
<1>1. AcquisitionInv => AnswerTellsTrigger
  BY DEF AcquisitionInv, Evidence, AnswerTellsTrigger, ArmedPc
<1> QED BY <1>1, Invariance, PTL

(* The steps of the poll, seen as steps of the injection window: the backstop, *)
(* a completion and an expiry each open K3, the last two unless it is open     *)
(* already; everything else but the injection and the errors stutters.         *)
LEMMA WindowStep ==
  ASSUME AcquisitionInv, [Next]_vars
  PROVE  [Window!Next]_(Window!windowVars)
<1> USE DEF WindowStage, Window!Next, Window!windowVars, Window!Answered, Window!Inject,
            Window!Open, Window!Answer, Window!End, AcquisitionInv, TypeOK, Shape, Before,
            Control, Answer, ArmedPc, relay
<1>1. CASE BaselineTer \/ ArmSingle \/ PollArmed \/ PreInjectionTer
  <2>1. UNCHANGED k3 /\ pc \in Before /\ pc' \in Before \union {"halt"}
    BY <1>1 DEF BaselineTer, ArmSingle, PollArmed, PreInjectionTer, Idle, Halt, AfterArmed
  <2> QED BY <2>1
<1>2. CASE CloseK3
  BY <1>2 DEF CloseK3, Halt
<1>3. CASE Injected \/ LoopTop \/ ForceTer \/ ForceCmd \/ Sleep
  <2>1. UNCHANGED k3 /\ pc' \in {"expire", "force_ter", "force_cmd", "backstop", "top", "halt"}
        /\ pc \in {"injected", "top", "force_ter", "force_cmd", "sleep"}
    BY <1>3 DEF Injected, Halt, LoopTop, ForceTer, ForceCmd, Sleep
  <2> QED BY <2>1
<1>4. CASE BackstopCheck
  BY <1>4 DEF BackstopCheck, OpenK3, Halt
<1>5. CASE Wait
  <2>1. UNCHANGED k3 /\ pc = "wait" /\ pc' \in {"complete", "sleep", "halt"}
    BY <1>5 DEF Wait, AskComplete, ObserveForced
  <2> QED BY <2>1
<1>6. CASE Complete \/ Expire
  BY <1>6 DEF Complete, Expire, OpenThen, OpenK3
<1>7. CASE Trigger \/ Fill \/ UNCHANGED vars
  BY <1>7 DEF Trigger, Fill, vars
<1> QED BY <1>1, <1>2, <1>3, <1>4, <1>5, <1>6, <1>7 DEF Next, Program

(* The acquisition, with its backstop, its forced trigger and every call that  *)
(* may raise, implements the injection window: no answer before K3 is open.    *)
THEOREM Implementation == Spec => ImplementsWindow
<1>1. Init => Window!Init
  BY DEF Init, Window!Init, WindowStage, ArmedPc
<1>2. AcquisitionInv /\ [Next]_vars => [Window!Next]_(Window!windowVars)
  BY WindowStep
<1> QED BY <1>1, <1>2, Invariance, PTL DEF Spec, ImplementsWindow, Window!Spec
=============================================================================
