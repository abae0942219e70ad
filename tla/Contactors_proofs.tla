-------------------------- MODULE Contactors_proofs --------------------------
(* The contactor controller keeps its interlock for any set of cycle indices, *)
(* any client and any pattern of GPIO failures, and implements Interlock; so   *)
(* do the commissioning tool and the mismatch detector built on it.           *)
EXTENDS SelfTest, TLAPS

(* An open call removes a contactor from the ones that are commanded or wired *)
(* closed, so safe_off can be summarised by what it has already visited.      *)
Visited ==
  [idle |-> {}, K3 |-> {}, K2 |-> {"K3"}, K1 |-> {"K3", "K2"}, done |-> Contactor]

SafeOffProgress ==
  \A k \in Visited[offStep] \ offFailed : ~commanded[k] /\ ~pin[k]

(* The strengthening every invariant of the controller follows from. *)
ContactorInv ==
  /\ ContactorTypeOK
  /\ K3NeedsMains
  /\ ShadowTruthful
  /\ SafeOffProgress

(* At the start nothing is closed and the shadow is right. *)
LEMMA InitInv == ContactorInit => ContactorInv
BY DEF ContactorInit, ContactorInv, ContactorTypeOK, K3NeedsMains, ShadowTruthful,
       SafeOffProgress, Visited, Contactor, Mains

(* A call on the device keeps the parts of the invariant that safe_off does   *)
(* not own, whether it works or fails.                                        *)
LEMMA DeviceStep ==
  ASSUME ContactorTypeOK, K3NeedsMains, ShadowTruthful,
         NEW k \in Contactor, NEW closed \in BOOLEAN,
         closed => k \in Mains \/ \A m \in Mains : commanded[m],
         ~closed => MayOpen(k),
         Drive(k, closed) \/ DriveFails(k, closed)
  PROVE  /\ commanded' \in [Contactor -> BOOLEAN]
         /\ pin' \in [Contactor -> BOOLEAN]
         /\ lastOk' \in [Contactor -> BOOLEAN]
         /\ K3NeedsMains'
         /\ ShadowTruthful'
<1>1. CASE Drive(k, closed)
  BY <1>1 DEF Drive, ContactorTypeOK, K3NeedsMains, ShadowTruthful, MayOpen,
              Contactor, Mains
<1>2. CASE DriveFails(k, closed)
  BY <1>2 DEF DriveFails, ContactorTypeOK, K3NeedsMains, ShadowTruthful, MayOpen,
              Contactor, Mains
<1> QED BY <1>1, <1>2

(* Every call, and every failure inside one, keeps the invariant. *)
LEMMA StepInv == ContactorInv /\ [ContactorNext]_contactorVars => ContactorInv'
<1> SUFFICES ASSUME ContactorInv, [ContactorNext]_contactorVars
             PROVE  ContactorInv'
  OBVIOUS
<1> USE DEF ContactorInv
<1>1. CASE ClientCall
  <2>1. offStep = "idle" /\ UNCHANGED offVars
    BY <1>1 DEF ClientCall
  <2>2. SafeOffProgress'
    BY <2>1 DEF SafeOffProgress, Visited, offVars
  <2>3. ASSUME NEW m \in Mains, CloseMains(m) \/ CloseFails(m)
        PROVE  ContactorInv'
    BY <2>1, <2>2, <2>3, DeviceStep
       DEF CloseMains, CloseFails, ContactorTypeOK, offVars, Contactor
  <2>4. ASSUME NEW c \in Cycles, CloseK3(c) \/ (MayCloseK3(c) /\ CloseFails("K3"))
        PROVE  ContactorInv'
    <3>1. Drive("K3", TRUE) \/ DriveFails("K3", TRUE)
      BY <2>4 DEF CloseK3, CloseFails
    <3>2. \A m \in Mains : commanded[m]
      BY <2>4 DEF CloseK3, MayCloseK3
    <3>3. usedGateCycles' \subseteq Cycles
      BY <2>4 DEF CloseK3, CloseFails, ContactorTypeOK
    <3> QED
      BY <2>1, <2>2, <3>1, <3>2, <3>3, DeviceStep
         DEF ContactorTypeOK, offVars, Contactor
  <2>5. ASSUME NEW k \in Contactor, Open(k) \/ OpenFails(k)
        PROVE  ContactorInv'
    BY <2>1, <2>2, <2>5, DeviceStep DEF Open, OpenFails, ContactorTypeOK, offVars
  <2> QED BY <1>1, <2>3, <2>4, <2>5 DEF ClientCall
<1>2. CASE SafeOffBegin
  BY <1>2 DEF SafeOffBegin, deviceVars, ContactorTypeOK, K3NeedsMains,
              ShadowTruthful, SafeOffProgress, Visited, Contactor, Mains
<1>3. CASE SafeOffCall
  <2>1. offStep \in Contactor /\ offStep' = AfterOpen[offStep]
    BY <1>3 DEF SafeOffCall
  <2>2. offStep' \in Contactor \union {"done", "idle"}
    BY <2>1 DEF AfterOpen, Contactor, Mains
  <2>3. CASE Open(offStep) /\ UNCHANGED offFailed
    <3>1. ContactorTypeOK' /\ K3NeedsMains' /\ ShadowTruthful'
      <4>1. MayOpen(offStep) /\ Drive(offStep, FALSE) /\ UNCHANGED usedGateCycles
        BY <2>3 DEF Open
      <4> QED
        BY <2>1, <2>3, <2>2, <4>1, DeviceStep DEF ContactorTypeOK
    <3>2. SafeOffProgress'
      BY <2>1, <2>3 DEF Open, Drive, SafeOffProgress, Visited, AfterOpen,
                        ContactorTypeOK, Contactor, Mains
    <3> QED BY <3>1, <3>2
  <2>4. CASE OpenFails(offStep) /\ offFailed' = offFailed \union {offStep}
    <3>1. ContactorTypeOK' /\ K3NeedsMains' /\ ShadowTruthful'
      <4>1. MayOpen(offStep) /\ DriveFails(offStep, FALSE) /\ UNCHANGED usedGateCycles
        BY <2>4 DEF OpenFails
      <4> QED
        BY <2>1, <2>4, <2>2, <4>1, DeviceStep DEF ContactorTypeOK
    <3>2. SafeOffProgress'
      BY <2>1, <2>4 DEF OpenFails, DriveFails, SafeOffProgress, Visited, AfterOpen,
                        ContactorTypeOK, Contactor, Mains
    <3> QED BY <3>1, <3>2
  <2>5. CASE offFailed' = offFailed \union {offStep} /\ UNCHANGED deviceVars
    BY <2>1, <2>5 DEF deviceVars, ContactorTypeOK, K3NeedsMains, ShadowTruthful,
                      SafeOffProgress, Visited, AfterOpen, Contactor, Mains
  <2> QED BY <1>3, <2>3, <2>4, <2>5 DEF SafeOffCall
<1>4. CASE SafeOffReturn
  BY <1>4 DEF SafeOffReturn, deviceVars, ContactorTypeOK, K3NeedsMains,
              ShadowTruthful, SafeOffProgress, Visited
<1>5. CASE Restart
  BY <1>5 DEF Restart, ContactorTypeOK, K3NeedsMains, ShadowTruthful,
              SafeOffProgress, Visited, Contactor, Mains
<1>6. CASE UNCHANGED contactorVars
  BY <1>6 DEF contactorVars, deviceVars, offVars, ContactorTypeOK, K3NeedsMains,
              ShadowTruthful, SafeOffProgress
<1> QED BY <1>1, <1>2, <1>3, <1>4, <1>5, <1>6 DEF ContactorNext

-----------------------------------------------------------------------------
(* The controller always keeps the strengthened invariant. *)
THEOREM ControllerInvariant == ContactorSpec => []ContactorInv
BY InitInv, StepInv, PTL DEF ContactorSpec

(* Leakage injection is never commanded on a partially opened supply. *)
THEOREM K3Interlock == ContactorSpec => []K3NeedsMains
<1>1. ContactorInv => K3NeedsMains
  BY DEF ContactorInv
<1> QED BY <1>1, ControllerInvariant, PTL

(* The same interlock on the wires, whatever GPIO calls have failed. *)
THEOREM K3WiredInterlock == ContactorSpec => []WiredInterlock
<1>1. ContactorInv => WiredInterlock
  BY DEF ContactorInv, ContactorTypeOK, K3NeedsMains, ShadowTruthful, WiredInterlock,
         Contactor, Mains
<1> QED BY <1>1, ControllerInvariant, PTL

(* safe_off's aggregate error names every contactor it may have left closed. *)
THEOREM SafeOffIsTruthful == ContactorSpec => []SafeOffReportTruthful
<1>1. ContactorInv => SafeOffReportTruthful
  BY DEF ContactorInv, SafeOffProgress, SafeOffReportTruthful, Visited
<1> QED BY <1>1, ControllerInvariant, PTL

(* No call opens a mains leg under a leakage load that K3 is known to carry. *)
THEOREM NeverHotSwitches == ContactorSpec => NoHotSwitching
<1> DEFINE Cold ==
      ~Restart => \A m \in Mains : pin[m] /\ ~pin'[m] => ~pin["K3"] \/ ~lastOk["K3"]
<1>1. ContactorInv /\ [ContactorNext]_contactorVars => [Cold]_contactorVars
  <2> SUFFICES ASSUME ContactorInv, ContactorNext, ~Restart,
                      NEW m \in Mains, pin[m], ~pin'[m], pin["K3"], lastOk["K3"]
               PROVE  FALSE
    BY DEF ContactorInv
  <2>1. commanded["K3"]
    BY DEF ContactorInv, ShadowTruthful, ContactorTypeOK, Contactor
  <2>2. ~MayOpen(m)
    BY <2>1 DEF MayOpen
  <2>3. ASSUME NEW k \in Contactor, Open(k) \/ OpenFails(k) PROVE k = m
    BY <2>3 DEF Open, OpenFails, Drive, DriveFails, ContactorInv, ContactorTypeOK,
                Contactor, Mains
  <2>4. ASSUME NEW k \in Contactor, Drive(k, TRUE) \/ DriveFails(k, TRUE) PROVE FALSE
    BY <2>4 DEF Drive, DriveFails, ContactorInv, ContactorTypeOK, Contactor, Mains
  <2>5. CASE ClientCall
    BY <2>2, <2>3, <2>4, <2>5
       DEF ClientCall, CloseMains, CloseFails, CloseK3, Open, OpenFails, Contactor
  <2>6. CASE SafeOffCall
    BY <2>2, <2>3, <2>6 DEF SafeOffCall, Open, OpenFails, deviceVars
  <2>7. CASE SafeOffBegin \/ SafeOffReturn
    BY <2>7 DEF SafeOffBegin, SafeOffReturn, deviceVars
  <2> QED BY <2>5, <2>6, <2>7 DEF ContactorNext
<1> QED BY <1>1, ControllerInvariant, PTL DEF ContactorSpec, NoHotSwitching

(* Every step of the controller is a step of the interlock it promises, or is *)
(* invisible in it.                                                           *)
THEOREM Implementation == ContactorSpec => ImplementsInterlock
<1> USE DEF Promise!vars, Promise!Next, Promise!MoveLeg, Promise!Inject,
            Promise!Release, Promise!PowerUp, Energy
<1>1. ContactorInit => Promise!Init
  BY DEF ContactorInit, Promise!Init, Contactor, Mains
<1>2. ContactorInv /\ [ContactorNext]_contactorVars => [Promise!Next]_(Promise!vars)
  <2> SUFFICES ASSUME ContactorInv, [ContactorNext]_contactorVars
               PROVE  [Promise!Next]_(Promise!vars)
    OBVIOUS
  <2> USE DEF ContactorInv, ContactorTypeOK, K3NeedsMains, Contactor, Mains
  <2>1. ASSUME NEW k \in Contactor, DriveFails(k, TRUE) \/ DriveFails(k, FALSE),
               UNCHANGED usedGateCycles
        PROVE  UNCHANGED Promise!vars
    BY <2>1 DEF DriveFails
  <2>2. ASSUME NEW m \in Mains, CloseMains(m) PROVE [Promise!Next]_(Promise!vars)
    BY <2>2 DEF CloseMains, Drive
  <2>3. ASSUME NEW c \in Cycles, CloseK3(c) PROVE Promise!Inject(c)
    BY <2>3 DEF CloseK3, MayCloseK3, Drive
  <2>4. ASSUME NEW k \in Contactor, Open(k) PROVE [Promise!Next]_(Promise!vars)
    BY <2>4 DEF Open, MayOpen, Drive
  <2>5. CASE ClientCall
    BY <2>1, <2>2, <2>3, <2>4, <2>5 DEF ClientCall, CloseFails, OpenFails
  <2>6. CASE SafeOffCall
    BY <2>1, <2>4, <2>6 DEF SafeOffCall, OpenFails, deviceVars
  <2>7. CASE SafeOffBegin \/ SafeOffReturn \/ UNCHANGED contactorVars
    BY <2>7 DEF SafeOffBegin, SafeOffReturn, contactorVars, deviceVars
  <2>8. CASE Restart
    BY <2>8 DEF Restart
  <2> QED BY <2>5, <2>6, <2>7, <2>8 DEF ContactorNext
<1> QED
  BY <1>1, <1>2, ControllerInvariant, PTL
     DEF ContactorSpec, ImplementsInterlock, Promise!Spec

-----------------------------------------------------------------------------
(* The commissioning tool.  Its program counter tells which calls it has made: *)
(* which contactors are closed, which gate tokens are spent, and that safe_off *)
(* is not running while it works.                                              *)
Pulsing == {"close", "hold", "open", "cooldown"}

ToolTypeOK ==
  /\ user \in {"client", "exercise", "probe"}
  /\ selected \in Contactor
  /\ step \in Body \union {"first_off", "last_off", "ended"}
  /\ pulse \in Nat /\ pulses \in 1 .. MaxPulses \union {1}
  /\ stagger \in 0 .. MaxStagger
  /\ timer \in Nat \union {Off} /\ seen \in Nat \union {Off}

ToolInv ==
  user # "client" =>
    /\ step \in Body => offStep = "idle"
    /\ user = "exercise" =>
         /\ pulses \in 1 .. MaxPulses
         /\ step \in {"first_off", "close_k1", "close_k2", "close", "cooldown"} => pulse < pulses
         /\ step \in Pulsing /\ selected = "K3" => \A m \in Mains : commanded[m]
         /\ step = "close_k2" => commanded["K1"]
         /\ step \in {"close_k1", "close_k2"} => selected = "K3"
         /\ step \notin {"poll", "settle", "poll_again"}
    /\ user = "probe" =>
         /\ step \notin Pulsing \union {"first_off", "close_k2"}
         /\ selected = "K1"
    /\ selected # "K3" => ~commanded["K3"]
    /\ usedGateCycles \subseteq 1 .. pulse

(* The detector: a mismatch it has seen is still there, and its timer started  *)
(* no later than that; in mismatch-test, exactly then.                         *)
DetectorInv ==
  /\ seen # Off => Differ /\ timer # Off /\ seen <= timer
  /\ user = "probe" /\ step \in {"close_k1", "poll", "settle", "poll_again"} => timer = seen
  /\ user = "probe" /\ step = "close_k1" => timer = Off
  /\ DetectorKeepsWindow

CommissioningInv == ContactorInv /\ ToolTypeOK /\ ToolInv /\ DetectorInv

(* At the start nothing has been called and no timer runs. *)
LEMMA ToolInit == SelfTestInit => ToolTypeOK /\ ToolInv /\ DetectorInv
<1> SUFFICES ASSUME SelfTestInit PROVE ToolTypeOK /\ ToolInv /\ DetectorInv
  OBVIOUS
<1> USE SelfTestAssumption DEF SelfTestInit, ContactorInit, Contactor, Mains, Body, Pulsing
<1>1. ToolTypeOK
  BY DEF ToolTypeOK
<1>2. ToolInv
  BY DEF ToolInv
<1>3. DetectorInv
  BY DEF DetectorInv, DetectorKeepsWindow, Off
<1> QED BY <1>1, <1>2, <1>3

(* What the tool's calls are to the controller: calls of a client. *)
LEMMA ToolIsAClient ==
  ASSUME ToolTypeOK, ToolInv, [SelfTestNext]_selfTestVars
  PROVE  [ContactorNext]_contactorVars
<1>1. CASE Client
  BY <1>1 DEF Client, ContactorNext, Poll, Elapse
<1>2. CASE Tool
  <2>1. ASSUME step \in Body PROVE offStep = "idle"
    BY <1>2, <2>1 DEF Tool, ToolInv
  <2>2. CASE Exercises
    <3>1. CASE ToolCloses
      <4>1. offStep = "idle" /\ UNCHANGED offVars
        BY <2>1, <3>1 DEF ToolCloses, Body
      <4>2. CASE Closing \in Mains
        BY <3>1, <4>1, <4>2 DEF ToolCloses, ContactorNext, ClientCall
      <4>3. CASE Closing \notin Mains
        <5>1. step = "close" /\ user = "exercise" /\ pulse < pulses /\ pulses \in 1 .. MaxPulses
          BY <1>2, <3>1, <4>3
             DEF ToolCloses, Closing, Mains, Tool, ToolInv, ToolTypeOK, Pulsing
        <5>2. GateToken \in Cycles
          BY <5>1, SelfTestAssumption DEF GateToken, ToolTypeOK
        <5> QED BY <3>1, <4>1, <4>3, <5>2 DEF ToolCloses, ContactorNext, ClientCall
      <4> QED BY <4>2, <4>3
    <3>2. CASE ToolOpens
      BY <2>1, <3>2 DEF ToolOpens, Body, ContactorNext, ClientCall, ToolTypeOK
    <3>3. CASE ToolCallRaises
      <4>1. offStep = "idle" /\ UNCHANGED offVars
        BY <2>1, <3>3 DEF ToolCallRaises, Body
      <4>2. CASE Refused
        BY <3>3, <4>1, <4>2 DEF ToolCallRaises, contactorVars
      <4>3. CASE ~Refused /\ step = "open"
        BY <3>3, <4>1, <4>3 DEF ToolCallRaises, ContactorNext, ClientCall, ToolTypeOK
      <4>4. CASE ~Refused /\ step # "open"
        <5>1. CloseFails(Closing)
          BY <3>3, <4>4 DEF ToolCallRaises
        <5>2. CASE Closing \in Mains
          BY <4>1, <5>1, <5>2 DEF ContactorNext, ClientCall
        <5>3. CASE Closing \notin Mains
          <6>1. step = "close" /\ user = "exercise" /\ pulse < pulses /\ pulses \in 1 .. MaxPulses
            BY <1>2, <3>3, <4>4, <5>3
               DEF ToolCallRaises, Closing, Mains, Tool, ToolInv, ToolTypeOK, Pulsing
          <6>2. GateToken \in Cycles
            BY <6>1, SelfTestAssumption DEF GateToken, ToolTypeOK
          <6>3. Closing = "K3" /\ MayCloseK3(GateToken)
            BY <4>4, <5>3, <6>1 DEF Closing, ToolTypeOK, Contactor, Refused
          <6> QED BY <4>1, <5>1, <6>2, <6>3 DEF ContactorNext, ClientCall
        <5> QED BY <5>2, <5>3
      <4> QED BY <4>2, <4>3, <4>4
    <3>4. CASE ToolInterrupted
      BY <3>4 DEF ToolInterrupted
    <3>5. CASE ToolSafeOff
      BY <3>5 DEF ToolSafeOff, ContactorNext
    <3> QED BY <2>2, <3>1, <3>2, <3>3, <3>4, <3>5 DEF Exercises
  <2>3. CASE ToolSleeps \/ ToolPolls
    BY <2>3 DEF ToolSleeps, ToolPolls, Elapse, Poll
  <2> QED BY <1>2, <2>2, <2>3 DEF Tool
<1>3. CASE ToolEnded \/ UNCHANGED selfTestVars
  BY <1>3 DEF ToolEnded, selfTestVars
<1> QED BY <1>1, <1>2, <1>3 DEF SelfTestNext

(* No step of the tool, and none of the detector, breaks the type invariant. *)
LEMMA ToolTypeStep ==
  ASSUME ToolTypeOK, ToolInv, [SelfTestNext]_selfTestVars
  PROVE  ToolTypeOK'
<1> USE SelfTestAssumption DEF ToolTypeOK
<1>1. ASSUME NEW age \in Nat \union {Off}, NEW ticks \in Nat
      PROVE  Aged(age, ticks) \in Nat \union {Off} /\ Started(age) \in Nat
  BY <1>1 DEF Aged, Started, Off
<1>2. /\ Elapse(1) => stagger' = stagger /\ timer' = Aged(timer, 1) /\ seen' = Aged(seen, 1)
      /\ Elapse(stagger + 1) => /\ stagger' = stagger /\ timer' = Aged(timer, stagger + 1)
                                /\ seen' = Aged(seen, stagger + 1)
  BY DEF Elapse
<1>3. Elapse(1) \/ Elapse(stagger + 1) =>
        stagger' = stagger /\ timer' \in Nat \union {Off} /\ seen' \in Nat \union {Off}
  BY <1>1, <1>2
<1>4. Poll => stagger' = stagger /\ timer' \in Nat \union {Off} /\ seen' \in Nat \union {Off}
  BY <1>1 DEF Poll, TimerAtPoll
<1>5. Called => stagger' = stagger /\ timer' \in Nat \union {Off} /\ seen' \in Nat \union {Off}
  BY DEF Called
<1>6. CASE Client
  BY <1>3, <1>4, <1>5, <1>6 DEF Client, toolVars
<1>7. CASE Tool
  <2>1. UNCHANGED <<user, selected, pulses>>
    BY <1>7 DEF Tool
  <2>2. stagger' = stagger /\ timer' \in Nat \union {Off} /\ seen' \in Nat \union {Off}
    BY <1>3, <1>4, <1>5, <1>7 DEF Tool, Exercises, ToolSleeps, ToolPolls
  <2>3. step' \in Body \union {"first_off", "last_off", "ended"}
    BY <1>7 DEF Tool, Exercises, ToolCloses, ToolOpens, ToolCallRaises, ToolInterrupted,
                ToolSafeOff, ToolSleeps, ToolPolls, AfterMains, Body
  <2>4. pulse' \in Nat
    BY <1>7 DEF Tool, Exercises, ToolCloses, ToolOpens, ToolCallRaises, ToolInterrupted,
                ToolSafeOff, ToolSleeps, ToolPolls
  <2> QED BY <2>1, <2>2, <2>3, <2>4
<1>8. CASE ToolEnded \/ UNCHANGED selfTestVars
  BY <1>8 DEF ToolEnded, selfTestVars, toolVars, detectorVars
<1> QED BY <1>6, <1>7, <1>8 DEF SelfTestNext

(* The calls of the tool, in the order its program makes them. *)
LEMMA ToolStep ==
  ASSUME ToolTypeOK, ToolInv, ContactorTypeOK, [SelfTestNext]_selfTestVars
  PROVE  ToolInv'
<1> USE DEF ToolTypeOK, ToolInv, ContactorTypeOK, Contactor, Mains, Body, Pulsing
<1>1. CASE Client \/ ToolEnded \/ UNCHANGED selfTestVars
  BY <1>1 DEF Client, ToolEnded, selfTestVars, toolVars, contactorVars, deviceVars, offVars
<1>2. CASE Tool
  <2>1. user # "client" /\ UNCHANGED <<user, real, selected, pulses>>
    BY <1>2 DEF Tool
  <2>2. CASE ToolCloses
    <3>1. CASE step = "close" /\ selected = "K3"
      <4>1. CloseK3(pulse + 1) /\ step' = "hold" /\ pulse' = pulse + 1 /\ UNCHANGED offVars
        BY <2>2, <3>1 DEF ToolCloses, Closing, GateToken
      <4>2. commanded' = [commanded EXCEPT !["K3"] = TRUE]
            /\ usedGateCycles' = usedGateCycles \union {pulse + 1}
        BY <4>1 DEF CloseK3, Drive
      <4>3. usedGateCycles' \subseteq 1 .. pulse'
        BY <2>1, <4>1, <4>2
      <4> QED BY <2>1, <3>1, <4>1, <4>2, <4>3 DEF offVars
    <3>2. CASE ~(step = "close" /\ selected = "K3")
      <4>1. Closing \in Mains /\ CloseMains(Closing) /\ UNCHANGED offVars
        BY <2>1, <2>2, <3>2 DEF ToolCloses, Closing
      <4>2. commanded' = [commanded EXCEPT ![Closing] = TRUE] /\ usedGateCycles' = usedGateCycles
        BY <4>1 DEF CloseMains, Drive
      <4>3. CASE step = "close"
        <5>1. step' = "hold" /\ pulse' = pulse + 1 /\ user = "exercise" /\ selected # "K3"
          BY <2>1, <2>2, <3>2, <4>3 DEF ToolCloses
        <5>2. usedGateCycles' \subseteq 1 .. pulse'
          BY <2>1, <4>2, <5>1
        <5> QED BY <2>1, <4>1, <4>2, <4>3, <5>1, <5>2 DEF offVars
      <4>4. CASE step = "close_k1"
        BY <2>1, <2>2, <4>1, <4>2, <4>4 DEF ToolCloses, AfterMains, Closing, offVars
      <4>5. CASE step = "close_k2"
        BY <2>1, <2>2, <4>1, <4>2, <4>5 DEF ToolCloses, AfterMains, Closing, offVars
      <4> QED BY <2>2, <4>3, <4>4, <4>5 DEF ToolCloses
    <3> QED BY <3>1, <3>2
  <2>3. CASE ToolOpens
    <3>1. commanded' = [commanded EXCEPT ![selected] = FALSE] /\ usedGateCycles' = usedGateCycles
      BY <2>3 DEF ToolOpens, Open, Drive
    <3>2. user = "exercise" /\ pulse' = pulse /\ UNCHANGED offVars
          /\ step' = IF pulse < pulses THEN "cooldown" ELSE "last_off"
      BY <2>1, <2>3 DEF ToolOpens
    <3> QED BY <2>1, <2>3, <3>1, <3>2 DEF ToolOpens, offVars
  <2>4. CASE ToolCallRaises
    <3>1. UNCHANGED <<commanded, usedGateCycles>>
      BY <2>4 DEF ToolCallRaises, OpenFails, CloseFails, DriveFails, deviceVars
    <3> QED BY <2>1, <2>4, <3>1 DEF ToolCallRaises
  <2>5. CASE ToolInterrupted
    BY <2>1, <2>5 DEF ToolInterrupted, contactorVars, deviceVars
  <2>6. CASE ToolSafeOff
    <3>1. UNCHANGED <<usedGateCycles, pulse>> /\ (~commanded["K3"] => ~commanded'["K3"])
      BY <2>6 DEF ToolSafeOff, SafeOffBegin, SafeOffCall, SafeOffReturn, Open, OpenFails, Drive,
                  DriveFails, deviceVars
    <3>2. CASE step' = step
      BY <2>1, <2>6, <3>1, <3>2 DEF ToolSafeOff
    <3>3. CASE step' # step
      BY <2>1, <2>6, <3>1, <3>3 DEF ToolSafeOff, SafeOffBegin, SafeOffCall, SafeOffReturn
    <3> QED BY <3>2, <3>3
  <2>7. CASE ToolSleeps
    BY <2>1, <2>7 DEF ToolSleeps, Elapse, contactorVars, deviceVars, offVars
  <2>8. CASE ToolPolls
    BY <2>1, <2>8 DEF ToolPolls, Poll, contactorVars, deviceVars, offVars
  <2> QED BY <1>2, <2>2, <2>3, <2>4, <2>5, <2>6, <2>7, <2>8 DEF Tool, Exercises
<1> QED BY <1>1, <1>2 DEF SelfTestNext

(* The age the detector answers with is the age of what it has seen. *)
LEMMA DetectorStep ==
  ASSUME ToolTypeOK, ToolInv, DetectorInv, [SelfTestNext]_selfTestVars
  PROVE  DetectorInv'
<1> DEFINE Fresh == step \in {"close_k1", "poll", "settle", "poll_again"}
           Fresh2 == step' \in {"close_k1", "poll", "settle", "poll_again"}
<1> USE SelfTestAssumption DEF ToolTypeOK, DetectorInv, DetectorKeepsWindow, Off
<1>1. ASSUME Poll, UNCHANGED user, user = "probe" => Fresh /\ step' # "close_k1"
      PROVE  DetectorInv'
  <2>1. UNCHANGED <<commanded, stagger>>
    BY <1>1 DEF Poll, contactorVars, deviceVars
  <2>2. CASE Differ
    <3>1. Differ' /\ timer' = Started(timer) /\ seen' = Started(seen)
          /\ answer' = IF Flags THEN "mismatch" ELSE "clear"
      BY <1>1, <2>1, <2>2 DEF Poll, TimerAtPoll, Differ
    <3>2. seen' \in Nat /\ timer' \in Nat /\ seen' <= timer' /\ (user = "probe" => timer' = seen')
      BY <1>1, <3>1 DEF Started
    <3>3. ~Flags => seen' <= stagger
      BY <2>2, <3>1, <3>2 DEF Flags, TimerAtPoll, Started
    <3>4. Flags /\ user = "probe" => stagger = 0 \/ seen' > stagger
      BY <2>2, <3>1, <3>2 DEF Flags, TimerAtPoll
    <3> QED BY <1>1, <2>1, <3>1, <3>2, <3>3, <3>4
  <2>3. CASE ~Differ
    <3>1. ~Differ' /\ timer' = Off /\ seen' = Off /\ answer' = "clear"
      BY <1>1, <2>1, <2>3 DEF Poll, TimerAtPoll, Flags, Differ
    <3> QED BY <3>1
  <2> QED BY <2>2, <2>3
<1>2. ASSUME NEW ticks \in Nat, Elapse(ticks), UNCHANGED user,
             user = "probe" /\ Fresh2 => Fresh /\ step' # "close_k1"
      PROVE  DetectorInv'
  <2>1. Differ' = Differ /\ answer' = "none" /\ timer' = Aged(timer, ticks)
        /\ seen' = Aged(seen, ticks)
    BY <1>2 DEF Elapse, contactorVars, deviceVars, Differ
  <2> QED BY <1>2, <2>1 DEF Aged
<1>3. ASSUME Called, UNCHANGED user,
             user = "probe" /\ Fresh2 => step' # "close_k1" /\ timer' = seen'
      PROVE  DetectorInv'
  <2>1. answer' = "none" /\ timer' = timer /\ (seen' # Off => seen' = seen /\ Differ')
    BY <1>3 DEF Called, Differ
  <2> QED BY <1>3, <2>1
<1>4. CASE Client
  <2>1. user = "client" /\ UNCHANGED <<user, step>>
    BY <1>4 DEF Client, toolVars
  <2>2. CASE Restart /\ timer' = Off /\ seen' = Off /\ answer' = "none"
    BY <2>1, <2>2
  <2> QED BY <1>1, <1>2, <1>3, <1>4, <2>1, <2>2 DEF Client
<1>5. CASE Tool
  <2>1. UNCHANGED user
    BY <1>5 DEF Tool
  <2>2. CASE Exercises
    <3>1. Called
      BY <2>2 DEF Exercises
    <3>2. CASE user = "probe" /\ Fresh2
      <4>1. step = "close_k1" /\ step' = "poll"
        BY <1>5, <2>2, <3>2 DEF Exercises, ToolCloses, ToolOpens, ToolCallRaises,
           ToolInterrupted, ToolSafeOff, Tool, ToolInv, AfterMains, Closing, Mains, Pulsing,
           SafeOffBegin, SafeOffCall, SafeOffReturn, Body
      <4>2. timer' = Off /\ seen' = Off
        BY <2>1, <3>1, <3>2, <4>1 DEF Called
      <4> QED BY <1>3, <2>1, <3>1, <4>1, <4>2
    <3>3. CASE ~(user = "probe" /\ Fresh2)
      BY <1>3, <2>1, <3>1, <3>3
    <3> QED BY <3>2, <3>3
  <2>3. CASE ToolSleeps
    BY <1>2, <2>1, <2>3 DEF ToolSleeps
  <2>4. CASE ToolPolls
    BY <1>1, <2>1, <2>4 DEF ToolPolls
  <2> QED BY <1>5, <2>2, <2>3, <2>4 DEF Tool
<1>6. CASE ToolEnded \/ UNCHANGED selfTestVars
  BY <1>6 DEF ToolEnded, selfTestVars, contactorVars, deviceVars, toolVars, detectorVars, Differ
<1> QED BY <1>4, <1>5, <1>6 DEF SelfTestNext

(* The controller, its tool and its detector always keep their invariants. *)
THEOREM CommissioningInvariant == SelfTestSpec => []CommissioningInv
<1>1. SelfTestInit => CommissioningInv
  BY InitInv, ToolInit DEF SelfTestInit, CommissioningInv
<1>2. CommissioningInv /\ [SelfTestNext]_selfTestVars => CommissioningInv'
  <2> SUFFICES ASSUME CommissioningInv, [SelfTestNext]_selfTestVars PROVE CommissioningInv'
    OBVIOUS
  <2>1. ContactorInv'
    BY ToolIsAClient, StepInv DEF CommissioningInv
  <2> QED BY <2>1, ToolTypeStep, ToolStep, DetectorStep DEF CommissioningInv, ContactorInv
<1> QED BY <1>1, <1>2, PTL DEF SelfTestSpec

(* The tool, and the client that polls, are clients of the controller: every   *)
(* theorem above holds of a commissioning run.                                 *)
THEOREM CommissioningDrivesController == SelfTestSpec => ContactorSpec
<1>1. SelfTestInit => ContactorInit
  BY DEF SelfTestInit
<1>2. CommissioningInv /\ [SelfTestNext]_selfTestVars => [ContactorNext]_contactorVars
  BY ToolIsAClient DEF CommissioningInv
<1> QED BY <1>1, <1>2, CommissioningInvariant, PTL DEF SelfTestSpec, ContactorSpec

(* No call of an exercise or of mismatch-test is refused by the interlock, for *)
(* any number of pulses and whatever GPIO calls fail before (gpio_selftest).   *)
THEOREM ToolIsNeverRefused == SelfTestSpec => []ToolNeverRefused
<1>1. CommissioningInv => ToolNeverRefused
  <2> SUFFICES ASSUME CommissioningInv, user # "client", Refused PROVE FALSE
    BY DEF ToolNeverRefused
  <2> USE DEF CommissioningInv, ToolTypeOK, ToolInv, Pulsing, Refused
  <2>1. CASE step = "close" /\ selected = "K3" /\ ~MayCloseK3(GateToken)
    <3>1. pulse + 1 \notin usedGateCycles
      BY <2>1
    <3> QED BY <2>1, <3>1 DEF MayCloseK3, GateToken
  <2>2. CASE step = "open" /\ ~MayOpen(selected)
    BY <2>2 DEF MayOpen, Mains
  <2> QED BY <2>1, <2>2
<1> QED BY <1>1, CommissioningInvariant, PTL

(* The mismatch detector is never late, and on a fresh controller never early, *)
(* for any window and any pattern of calls and polls                           *)
(* (detect_mains_command_mismatch).                                            *)
THEOREM DetectorIsPunctual == SelfTestSpec => []DetectorKeepsWindow
<1>1. CommissioningInv => DetectorKeepsWindow
  BY DEF CommissioningInv, DetectorInv
<1> QED BY <1>1, CommissioningInvariant, PTL
=============================================================================
