------------------------- MODULE ChargingGate_proofs -------------------------
(* What a grant and a retry of the vision gate rest on, for every window,      *)
(* evidence policy and camera.                                                 *)
EXTENDS ChargingGate, FiniteSetTheorems, TLAPS

(* What a frame that a poll classifies can show. *)
Shade == Hue \union NoHue

TypeOK ==
  /\ latest \in Frames \union {NoFrame}
  /\ t \in Nat /\ lastBad \in Int
  /\ greens \in SUBSET Int /\ granted \in BOOLEAN
  /\ greenAt \in SUBSET Int /\ IsFiniteSet(greenAt)
  /\ window \in Seq(SUBSET Shade)

(* The evidence for a grant is of this call and younger than its last red or   *)
(* blue, and only the poll that granted is answered with a grant.              *)
Own == {s \in greenAt : s > lastBad /\ s >= t - GreenWindow}
Grant ==
  /\ t - lastBad > GreenSpan
  /\ Cardinality(Own) >= GreenFrames /\ \E s \in Own : t - s >= GreenSpan
GreenOK ==
  /\ \A s \in greens : s > lastBad /\ s \in greenAt
  /\ pc = "poll" => lastBad < t
  /\ pc = "judge" /\ granted => Grant
  /\ pc \in {"judge", "sleep"} => lastBad <= t
  /\ answer = "granted" => pc = "idle" /\ Grant

(* Every red the classifier can still answer with was seen in this call. *)
SawRed == seen \intersect {"red", "booting"} # {}
RedOK ==
  /\ (\E i \in DOMAIN window : "red" \in window[i]) => SawRed
  /\ stable = "red" => SawRed
  /\ answer = "retry" => SawRed

GateInv == TypeOK /\ GreenOK /\ RedOK

-----------------------------------------------------------------------------
(* The limits are positive. *)
LEMMA Constants ==
  /\ WindowFrames \in Nat \ {0} /\ HueMinFrames \in Nat \ {0}
  /\ GreenSpan \in Nat \ {0} /\ MaxSleep \in Nat \ {0}
  /\ GreenWindow \in Nat \ {0} /\ GreenFrames \in Nat \ {0}
BY GateAssumption

(* A frame that a poll classifies is a set of hues. *)
LEMMA UsableFrame == TypeOK /\ Usable => latest \in SUBSET Shade
BY GateAssumption DEF TypeOK, Usable, Shade

(* There are finitely many hues. *)
LEMMA HuesAreFinite == IsFiniteSet(Shade)
<1>1. IsFiniteSet({"red"})
  BY FS_Singleton
<1>2. IsFiniteSet({"red"} \union {"green"})
  BY <1>1, FS_AddElement
<1>3. IsFiniteSet(({"red"} \union {"green"}) \union {"blue"})
  BY <1>2, FS_AddElement
<1>4. IsFiniteSet((({"red"} \union {"green"}) \union {"blue"}) \union {"unknown"})
  BY <1>3, FS_AddElement
<1>5. Shade = (({"red"} \union {"green"}) \union {"blue"}) \union {"unknown"}
  BY DEF Shade, Hue, NoHue
<1> QED BY <1>4, <1>5

(* A frame with red in it is red, or the boot animation. *)
LEMMA RedFrame ==
  ASSUME NEW f \in SUBSET Shade, "red" \in f
  PROVE  FrameColor(f) \in {"red", "booting"}
<1>2. IsFiniteSet(f) /\ Cardinality(f) \in Nat
  BY HuesAreFinite, FS_Subset, FS_CardinalityType
<1>3. CASE Cardinality(f) >= 2
  BY <1>3 DEF FrameColor
<1>4. CASE ~(Cardinality(f) >= 2)
  <2>1. Cardinality(f) = 0 \/ Cardinality(f) = 1
    BY <1>2, <1>4
  <2>2. \E x : f = {x}
    BY <1>2, <2>1, FS_EmptySet, FS_Singleton
  <2>3. f = {"red"}
    BY <2>2
  <2>4. (CHOOSE h \in f : TRUE) = "red"
    BY <2>3
  <2> QED BY <1>4, <2>3, <2>4 DEF FrameColor
<1> QED BY <1>3, <1>4

(* A window is red only if one of its frames shows red. *)
LEMMA RedWindow ==
  ASSUME NEW w \in Seq(SUBSET Shade), WindowColor(w) = "red"
  PROVE  \E i \in DOMAIN w : "red" \in w[i]
<1>1. w # <<>> /\ FrameColor(Present(w)) = "red"
  BY DEF WindowColor
<1>2. Present(w) # {} /\ "red" = CHOOSE h \in Present(w) : TRUE
  BY <1>1 DEF FrameColor
<1>3. "red" \in Present(w)
  BY <1>2
<1>4. Shown(w, "red") >= LeastOf(HueMinFrames, Len(w))
  BY <1>3 DEF Present
<1>5. LeastOf(HueMinFrames, Len(w)) >= 1
  <2>1. Len(w) \in Nat /\ Len(w) # 0
    BY <1>1
  <2> QED BY <2>1, Constants DEF LeastOf
<1>6. CASE {i \in DOMAIN w : "red" \in w[i]} = {}
  <2>1. Shown(w, "red") = 0
    BY <1>6, FS_EmptySet DEF Shown
  <2>2. LeastOf(HueMinFrames, Len(w)) \in Nat
    BY Constants DEF LeastOf
  <2> QED BY <1>4, <1>5, <2>1, <2>2
<1> QED BY <1>6

-----------------------------------------------------------------------------
(* Nothing is seen, and nothing claimed, before the first call. *)
LEMMA InvInit == Init => GateInv
<1> SUFFICES ASSUME Init PROVE GateInv
  OBVIOUS
<1>1. TypeOK
  <2>1. window \in Seq(SUBSET Shade)
    BY DEF Init
  <2>2. latest \in Frames \union {NoFrame} /\ greens \in SUBSET Int
    BY DEF Init
  <2>3. t \in Nat /\ lastBad \in Int
    BY DEF Init
  <2>4. granted \in BOOLEAN /\ greenAt \in SUBSET Int /\ IsFiniteSet(greenAt)
    BY FS_EmptySet DEF Init
  <2> QED BY <2>1, <2>2, <2>3, <2>4 DEF TypeOK
<1>2. GreenOK /\ RedOK
  BY DEF Init, GreenOK, RedOK
<1> QED BY <1>1, <1>2 DEF GateInv

(* A poll that sees a frame. *)
LEMMA PollSees ==
  ASSUME GateInv, Poll, Usable
  PROVE  GateInv'
<1> DEFINE f == latest
           w == IF Len(window) < WindowFrames THEN Append(window, f)
                ELSE Append(Tail(window), f)
<1>1. f \in SUBSET Shade
  BY UsableFrame DEF GateInv
<1>2. /\ pc = "poll" /\ pc' = "judge" /\ t' = t /\ answer' = answer /\ latest' = latest
      /\ Observe(f) /\ Record(f) /\ seen' = seen \union {FrameColor(f)}
      /\ greenAt' = IF f = {"green"} THEN greenAt \union {t} ELSE greenAt
      /\ lastBad' = IF f \intersect {"red", "blue"} # {} THEN t ELSE lastBad
  BY DEF Poll, camera
<1>3. window' = w /\ (stable' = stable \/ stable' = WindowColor(w))
  BY <1>2 DEF Observe
<1>4. w \in Seq(SUBSET Shade)
  <2>1. window \in Seq(SUBSET Shade)
    BY DEF GateInv, TypeOK
  <2>2. CASE Len(window) < WindowFrames
    BY <1>1, <2>1, <2>2
  <2>3. CASE ~(Len(window) < WindowFrames)
    <3>1. window # <<>>
      BY <2>1, <2>3, Constants
    <3> QED BY <1>1, <2>1, <2>3, <3>1
  <2> QED BY <2>2, <2>3
<1>5. \A i \in DOMAIN w : w[i] = f \/ \E j \in DOMAIN window : w[i] = window[j]
  <2>1. window \in Seq(SUBSET Shade)
    BY DEF GateInv, TypeOK
  <2>2. CASE Len(window) < WindowFrames
    BY <1>1, <2>1, <2>2
  <2>3. CASE ~(Len(window) < WindowFrames)
    <3>1. window # <<>>
      BY <2>1, <2>3, Constants
    <3> QED BY <1>1, <2>1, <2>3, <3>1
  <2> QED BY <2>2, <2>3
<1>6. (\E i \in DOMAIN w : "red" \in w[i]) => SawRed'
  <2>1. CASE "red" \in f
    BY <1>1, <1>2, <2>1, RedFrame DEF SawRed
  <2>2. CASE \E j \in DOMAIN window : "red" \in window[j]
    BY <1>2, <2>2 DEF GateInv, RedOK, SawRed
  <2> QED BY <1>5, <2>1, <2>2
<1>7. RedOK'
  <2>1. stable' = "red" => SawRed'
    <3>1. CASE stable' = stable
      BY <1>2, <3>1 DEF GateInv, RedOK, SawRed
    <3>2. CASE stable' = WindowColor(w)
      BY <1>4, <1>6, <3>2, RedWindow
    <3> QED BY <1>3, <3>1, <3>2
  <2>2. answer' = "retry" => SawRed'
    BY <1>2 DEF GateInv, RedOK, SawRed
  <2> QED BY <1>3, <1>6, <2>1, <2>2 DEF RedOK
<1>8. TypeOK' /\ GreenOK'
  <2>1. /\ t \in Nat /\ lastBad \in Int /\ greens \in SUBSET Int /\ lastBad < t
        /\ \A s \in greens : s > lastBad /\ s \in greenAt
        /\ answer # "granted"
    BY <1>2 DEF GateInv, TypeOK, GreenOK
  <2>0. /\ greenAt' \in SUBSET Int /\ IsFiniteSet(greenAt')
        /\ greenAt \subseteq greenAt' /\ (f = {"green"} => t \in greenAt')
    <3>1. greenAt \in SUBSET Int /\ IsFiniteSet(greenAt) /\ t \in Int
      BY DEF GateInv, TypeOK
    <3>2. IsFiniteSet(greenAt \union {t})
      BY <3>1, FS_AddElement
    <3> QED BY <1>2, <3>1, <3>2
  <2>2. latest' \in Frames \union {NoFrame}
    BY <1>2 DEF GateInv, TypeOK
  <2>3. granted' \in BOOLEAN
    BY <1>2 DEF Record
  <2>4. CASE f \intersect {"red", "blue"} # {}
    <3>1. greens' = {} /\ lastBad' = t
      BY <1>2, <2>4 DEF Record
    <3>2. ~granted'
      BY <1>2, <2>4 DEF Record
    <3> QED BY <1>2, <1>3, <1>4, <2>0, <2>1, <2>2, <2>3, <3>1, <3>2 DEF TypeOK, GreenOK
  <2>5. CASE f \intersect {"red", "blue"} = {}
    <3>1. lastBad' = lastBad
      BY <1>2, <2>5
    <3>2. \A s \in greens' : s \in Int /\ s > lastBad /\ s \in greenAt' /\ s >= t - GreenWindow
      <4>1. \/ greens' = {s \in greens : s >= t - GreenWindow}
            \/ greens' = {s \in greens : s >= t - GreenWindow} \union {t} /\ f = {"green"}
        BY <1>2, <2>5 DEF Record
      <4>2. \A s \in greens' : (s \in greens /\ s >= t - GreenWindow) \/ (s = t /\ f = {"green"})
        BY <4>1
      <4>3. t \in Int /\ t > lastBad /\ t >= t - GreenWindow
        BY <2>1, Constants
      <4>4. \A s \in greens : s \in Int /\ s > lastBad /\ s \in greenAt'
        BY <2>0, <2>1
      <4> QED BY <2>0, <4>2, <4>3, <4>4
    <3>3. granted' => /\ Cardinality(greens') >= GreenFrames
                      /\ \E s \in greens' : t - s >= GreenSpan
      BY <1>2, <2>5 DEF Record
    <3>4. granted' => Grant'
      <4> SUFFICES ASSUME granted' PROVE Grant'
        OBVIOUS
      <4>1. greens' \subseteq Own'
        BY <1>2, <3>1, <3>2 DEF Own
      <4>2. IsFiniteSet(Own')
        <5>1. Own' \subseteq greenAt'
          BY DEF Own
        <5> QED BY <2>0, <5>1, FS_Subset
      <4>3. /\ Cardinality(greens') <= Cardinality(Own')
            /\ Cardinality(greens') \in Nat /\ Cardinality(Own') \in Nat
        BY <4>1, <4>2, FS_Subset, FS_CardinalityType
      <4>4. Cardinality(Own') >= GreenFrames
        BY <3>3, <4>3, Constants
      <4>5. PICK s \in greens' : t - s >= GreenSpan
        BY <3>3
      <4>6. t' - lastBad' > GreenSpan
        BY <1>2, <2>1, <3>1, <3>2, <4>5, Constants
      <4> QED BY <1>2, <4>1, <4>4, <4>5, <4>6 DEF Grant
    <3>5. greens' \in SUBSET Int /\ \A s \in greens' : s > lastBad' /\ s \in greenAt'
      BY <3>1, <3>2
    <3> QED BY <1>2, <1>3, <1>4, <2>0, <2>1, <2>2, <2>3, <3>1, <3>4, <3>5 DEF TypeOK, GreenOK
  <2> QED BY <2>4, <2>5
<1> QED BY <1>7, <1>8 DEF GateInv

(* Only a poll that sees a frame can grant or see red; the rest keeps what it  *)
(* found, or starts a call from nothing.                                       *)
LEMMA InvStep == GateInv /\ [Next]_vars => GateInv'
<1> SUFFICES ASSUME GateInv, [Next]_vars PROVE GateInv'
  OBVIOUS
<1> USE DEF GateInv, TypeOK, GreenOK, RedOK, Own, Grant, SawRed, camera, policy, classifier, history
<1>1. CASE Capture \/ ReadFails \/ Refresh \/ TimePasses
  <2>1. UNCHANGED <<pc, t, policy, window, stable, answer, history>>
    BY <1>1 DEF Capture, ReadFails, Refresh, TimePasses
  <2>2. latest' \in Frames \union {NoFrame}
    BY <1>1 DEF Capture, ReadFails, Refresh, TimePasses
  <2> QED BY <2>1, <2>2
<1>2. CASE BeginGate
  <2>1. latest' = latest /\ pc' = "poll" /\ answer' = "none" /\ t' = 0 /\ lastBad' = -1
    BY <1>2 DEF BeginGate
  <2>2. greens' = {} /\ granted' = FALSE /\ window' = <<>> /\ stable' = "none"
    BY <1>2 DEF BeginGate
  <2>3. window' \in Seq(SUBSET Shade) /\ DOMAIN window' = {}
    BY <2>2
  <2>4. TypeOK'
    <3>1. t' \in Nat /\ lastBad' \in Int
      BY <2>1
    <3>2. granted' \in BOOLEAN /\ greens' \in SUBSET Int
      BY <2>2
    <3>3. greenAt' \in SUBSET Int /\ IsFiniteSet(greenAt')
      BY <1>2, FS_EmptySet DEF BeginGate
    <3> QED BY <2>1, <2>3, <3>1, <3>2, <3>3
  <2>5. GreenOK' /\ RedOK'
    BY <2>1, <2>2, <2>3
  <2> QED BY <2>4, <2>5
<1>3. CASE Poll
  <2>1. CASE Usable
    BY <1>3, <2>1, PollSees
  <2>2. CASE ~Usable
    <3>1. pc = "poll" /\ pc' = "judge" /\ seen' = seen \union {"nothing"} /\ granted' = FALSE
      BY <1>3, <2>2 DEF Poll, Drop
    <3>2. UNCHANGED <<latest, t, greenAt, lastBad, greens, window, stable, answer>>
      BY <1>3, <2>2 DEF Poll, Drop
    <3>3. TypeOK'
      BY <3>1, <3>2
    <3>4. GreenOK'
      BY <3>1, <3>2
    <3>5. RedOK'
      BY <3>1, <3>2
    <3> QED BY <3>3, <3>4, <3>5
  <2> QED BY <2>1, <2>2
<1>4. CASE PollRaises
  BY <1>4 DEF PollRaises
<1>5. CASE Judge
  BY <1>5 DEF Judge
<1>6. CASE SleepOrStop
  BY <1>6, Constants DEF SleepOrStop
<1>7. CASE FixedWait
  BY <1>7 DEF FixedWait
<1>8. CASE TimeOut
  <2>1. Observed = "red" => SawRed
    BY RedWindow DEF Observed
  <2> QED BY <1>8, <2>1 DEF TimeOut
<1>9. CASE UNCHANGED vars
  BY <1>9 DEF vars
<1> QED BY <1>1, <1>2, <1>3, <1>4, <1>5, <1>6, <1>7, <1>8, <1>9 DEF Next, Reader, Gate

(* The invariant, for ever. *)
LEMMA Invariance == Spec => []GateInv
BY InvInit, InvStep, PTL DEF Spec

-----------------------------------------------------------------------------
(* No evidence older than a red or blue poll counts towards a grant            *)
(* (ChargingGatePolicy.record), for any span, window and frames.               *)
THEOREM BootAnimationRefused == Spec => []BootAnimationNeverGrants
<1>1. GateInv => BootAnimationNeverGrants
  BY DEF GateInv, GreenOK, Grant, BootAnimationNeverGrants
<1> QED BY <1>1, Invariance, PTL

(* The green polls of this very call are enough for a grant, and one of its    *)
(* polls saw the red of a retry, for any policy and window; what frame a poll  *)
(* looked at is not said (await_charging_gate, ChargingGatePolicy.record).     *)
THEOREM AnswersAreOfThisCall == Spec => []NothingCarriedOver
<1>1. GateInv => NothingCarriedOver
  BY DEF GateInv, GreenOK, RedOK, Own, Grant, SawRed, NothingCarriedOver
<1> QED BY <1>1, Invariance, PTL

-----------------------------------------------------------------------------
(* While every poll has seen green, the evidence holds a poll in every stretch *)
(* of MaxSleep within the window (the first poll at 0 counts for all before),  *)
(* and so far it has not been enough.                                          *)
OnlyGreen == seen = {"green"}
Dense(p) ==
  /\ p \in greens /\ \A s \in greens : s \in 0 .. p
  /\ \A x \in 1 - MaxSleep .. p : p - GreenWindow <= x =>
       \E s \in greens : x <= s /\ s < x + MaxSleep
Enough(p) == Cardinality(greens) >= GreenFrames /\ \E s \in greens : p - s >= GreenSpan
LastPoll(p) == p \in 0 .. GateTimeout - 1 /\ Dense(p) /\ ~Enough(p)

SteadyInv ==
  /\ pc = "poll" /\ seen = {} => t = 0 /\ greens = {}
  /\ pc = "poll" /\ OnlyGreen => \E p \in t - MaxSleep .. t - 1 : LastPoll(p)
  /\ pc = "judge" /\ OnlyGreen =>
       IF granted THEN t \in 0 .. GateTimeout - 1 /\ Dense(t) ELSE LastPoll(t)
  /\ pc = "sleep" /\ OnlyGreen => LastPoll(t)
  /\ pc \in {"judge", "sleep"} => seen # {}
  /\ answer \in {"retry", "halt"} => pc = "idle" /\ seen # {"green"}

(* Blocks of MaxSleep do not overlap. *)
LEMMA Blocks ==
  ASSUME NEW i \in Nat, NEW j \in Nat, i < j, NEW m \in Nat
  PROVE  i * m \in Nat /\ j * m \in Nat /\ i * m + m <= j * m
<1>1. PICK d \in Nat : j = i + 1 + d
  <2>1. j - i - 1 \in Nat /\ j = i + 1 + (j - i - 1)
    OBVIOUS
  <2> QED BY <2>1
<1>2. d * m \in Nat /\ i * m \in Nat
  OBVIOUS
<1>3. j * m = i * m + m + d * m
  BY <1>1
<1> QED BY <1>2, <1>3

(* Dense evidence has a poll for every block that fits. *)
LEMMA DenseCount ==
  ASSUME NEW p \in Nat, Dense(p), NEW x \in Int, NEW k \in Nat,
         p - GreenWindow <= x, 1 - MaxSleep <= x, x + k * MaxSleep <= p
  PROVE  Cardinality(greens) >= k + 1
<1> DEFINE In(j, s) == x + j * MaxSleep <= s /\ s < x + j * MaxSleep + MaxSleep
           poll == [j \in 0 .. k |-> CHOOSE s \in greens : In(j, s)]
<1>0. MaxSleep \in Nat \ {0} /\ GreenWindow \in Nat
  BY GateAssumption
<1>1. ASSUME NEW j \in 0 .. k PROVE poll[j] \in greens /\ In(j, poll[j])
  <2>1. j * MaxSleep \in Nat /\ j * MaxSleep <= k * MaxSleep /\ k * MaxSleep \in Nat
    <3>1. CASE j = k
      BY <1>0, <3>1
    <3>2. CASE j # k
      <4>1. j \in Nat /\ j < k
        BY <3>2
      <4> QED BY <1>0, <4>1, Blocks
    <3> QED BY <3>1, <3>2
  <2>2. \E s \in greens : In(j, s)
    <3> DEFINE y == x + j * MaxSleep
    <3>1. y \in 1 - MaxSleep .. p /\ p - GreenWindow <= y
      BY <1>0, <2>1
    <3> HIDE DEF y
    <3>2. \E s \in greens : y <= s /\ s < y + MaxSleep
      BY <3>1 DEF Dense
    <3> QED BY <3>2 DEF y
  <2>3. poll[j] = CHOOSE s \in greens : In(j, s)
    OBVIOUS
  <2> HIDE DEF poll, In
  <2> QED BY <2>2, <2>3
<1>2. ASSUME NEW i \in 0 .. k, NEW j \in 0 .. k, i < j PROVE poll[i] # poll[j]
  <2>1. In(i, poll[i]) /\ In(j, poll[j]) /\ poll[i] \in greens /\ poll[j] \in greens
    BY <1>1
  <2>2. i * MaxSleep \in Nat /\ j * MaxSleep \in Nat /\ i * MaxSleep + MaxSleep <= j * MaxSleep
    BY <1>0, <1>2, Blocks
  <2>3. \A s \in greens : s \in Int
    BY DEF Dense
  <2> HIDE DEF poll
  <2> QED BY <1>0, <2>1, <2>2, <2>3
<1>3. poll \in Injection(0 .. k, greens)
  <2>1. poll \in [0 .. k -> greens]
    BY <1>1
  <2>2. \A i, j \in 0 .. k : poll[i] = poll[j] => i = j
    <3> HIDE DEF poll
    <3> SUFFICES ASSUME NEW i \in 0 .. k, NEW j \in 0 .. k, i # j PROVE poll[i] # poll[j]
      OBVIOUS
    <3>1. i < j \/ j < i
      OBVIOUS
    <3> QED BY <1>2, <3>1
  <2> HIDE DEF poll
  <2> QED BY <2>1, <2>2 DEF Injection, IsInjective
<1>4. IsFiniteSet(greens)
  <2>0. \A s \in greens : s \in 0 .. p
    BY DEF Dense
  <2> HIDE DEF poll, In
  <2>1. greens \in SUBSET (0 .. p)
    BY <2>0, Zenon
  <2>2. IsFiniteSet(0 .. p)
    BY FS_Interval
  <2> QED BY <2>1, <2>2, FS_Subset
<1>5. Cardinality(0 .. k) = k + 1
  BY FS_Interval
<1> HIDE DEF poll
<1>6. Cardinality(0 .. k) <= Cardinality(greens)
  BY <1>3, <1>4, FS_Injection
<1>7. Cardinality(greens) \in Nat
  BY <1>4, FS_CardinalityType
<1> QED BY <1>5, <1>6, <1>7

(* The last poll before the deadline would have granted. *)
LEMMA DeadlineIsLateEnough ==
  ASSUME PollsOftenEnough, NEW p \in GateTimeout - MaxSleep .. GateTimeout - 1, LastPoll(p)
  PROVE  FALSE
<1>0. /\ MaxSleep \in Nat \ {0} /\ GreenWindow \in Nat \ {0} /\ GreenSpan \in Nat \ {0}
      /\ GreenFrames \in Nat \ {0} /\ GateTimeout \in Nat \ {0}
  BY GateAssumption
<1> DEFINE x == IF p - GreenWindow >= 1 - MaxSleep THEN p - GreenWindow ELSE 1 - MaxSleep
           k == GreenFrames - 1
<1>1. p \in Nat /\ Dense(p) /\ ~Enough(p)
  BY DEF LastPoll
<1>2. x \in Int /\ p - GreenWindow <= x /\ 1 - MaxSleep <= x /\ x <= p /\ k \in Nat
  BY <1>0, <1>1
<1>3. \E s \in greens : p - s >= GreenSpan
  <2>1. PICK s \in greens : x <= s /\ s < x + MaxSleep
    <3> HIDE DEF x
    <3>1. x \in 1 - MaxSleep .. p
      BY <1>0, <1>1, <1>2
    <3> QED BY <1>1, <1>2, <3>1 DEF Dense
  <2>2. s \in Int
    BY <1>1 DEF Dense
  <2>3. p - s >= GreenSpan
    BY <1>0, <1>1, <2>1, <2>2 DEF PollsOftenEnough
  <2> QED BY <2>3
<1>4. x + k * MaxSleep <= p
  <2>1. k * MaxSleep \in Nat
    BY <1>0, <1>2
  <2>2. k * MaxSleep <= GreenWindow /\ k * MaxSleep < GateTimeout
    BY DEF PollsOftenEnough
  <2> HIDE DEF k
  <2> QED BY <1>0, <1>1, <2>1, <2>2
<1>5. Cardinality(greens) >= k + 1
  <2> HIDE DEF x, k
  <2> QED BY <1>1, <1>2, <1>4, DenseCount
<1> QED BY <1>0, <1>1, <1>3, <1>5 DEF Enough

(* Green is green alone. *)
LEMMA OnlyGreenFrame ==
  ASSUME NEW f \in SUBSET Shade, FrameColor(f) = "green"
  PROVE  f = {"green"}
<1>1. ~(Cardinality(f) >= 2) /\ f # {} /\ (CHOOSE h \in f : TRUE) = "green"
  BY DEF FrameColor
<1>2. IsFiniteSet(f) /\ Cardinality(f) \in Nat
  BY FS_Subset, HuesAreFinite, FS_CardinalityType
<1>3. Cardinality(f) = 1
  BY <1>1, <1>2, FS_EmptySet
<1>4. PICK h : f = {h}
  BY <1>2, <1>3, FS_Singleton
<1>5. "green" \in f
  BY <1>1
<1> QED BY <1>4, <1>5

(* A poll that sees green adds itself to the evidence. *)
LEMMA GreenPoll ==
  ASSUME GateInv, SteadyInv, Poll, Usable, OnlyGreen'
  PROVE  /\ t \in 0 .. GateTimeout - 1 /\ Dense(t)'
         /\ granted' <=> Enough(t)'
<1>0. /\ MaxSleep \in Nat \ {0} /\ GreenWindow \in Nat \ {0} /\ GreenSpan \in Nat \ {0}
      /\ GreenFrames \in Nat \ {0} /\ GateTimeout \in Nat \ {0}
  BY GateAssumption
<1>1. /\ pc = "poll" /\ t' = t /\ t \in Nat /\ t < GateTimeout /\ Record(latest)
      /\ seen' = seen \union {FrameColor(latest)}
  BY DEF Poll, GateInv, TypeOK
<1>2. latest = {"green"}
  <2>1. FrameColor(latest) = "green"
    BY <1>1 DEF OnlyGreen
  <2> QED BY <2>1, UsableFrame, OnlyGreenFrame DEF GateInv
<1>3. greens' = {s \in greens : s >= t - GreenWindow} \union {t}
  BY <1>1, <1>2 DEF Record
<1>4. granted' <=> Cardinality(greens') >= GreenFrames /\ \E s \in greens' : t - s >= GreenSpan
  BY <1>1, <1>2, <1>3 DEF Record
<1>5. Dense(t)'
  <2>1. CASE seen = {}
    <3>1. t = 0 /\ greens' = {0}
      BY <1>1, <1>3, <2>1 DEF SteadyInv
    <3> QED BY <1>0, <1>1, <3>1 DEF Dense
  <2>2. CASE seen # {}
    <3>1. OnlyGreen
      BY <1>1, <2>2 DEF OnlyGreen
    <3>2. PICK p \in t - MaxSleep .. t - 1 : LastPoll(p)
      BY <1>1, <3>1 DEF SteadyInv
    <3>3. p \in Nat /\ Dense(p)
      BY <3>2 DEF LastPoll
    <3>10. t \in Nat /\ p < t /\ t <= p + MaxSleep
      BY <1>0, <1>1, <3>2
    <3>4. t \in greens' /\ \A s \in greens' : s \in 0 .. t
      BY <1>0, <1>1, <1>3, <3>2, <3>3 DEF Dense
    <3>5. ASSUME NEW x \in 1 - MaxSleep .. t, t - GreenWindow <= x
          PROVE  \E s \in greens' : x <= s /\ s < x + MaxSleep
      <4>1. CASE x <= p
        <5>1. x \in 1 - MaxSleep .. p /\ p - GreenWindow <= x
          BY <4>1, <1>0, <3>3, <3>10, <3>5
        <5>2. PICK s \in greens : x <= s /\ s < x + MaxSleep
          BY <3>3, <3>5, <4>1, <5>1 DEF Dense
        <5>3. s \in Int
          BY <3>3 DEF Dense
        <5>4. s >= t - GreenWindow
          BY <1>0, <3>5, <3>10, <5>2, <5>3
        <5> QED BY <1>3, <5>2, <5>4
      <4>2. CASE ~(x <= p)
        <5>1. x <= t /\ t < x + MaxSleep
          BY <1>0, <3>3, <3>5, <3>10, <4>2
        <5> QED BY <1>3, <5>1
      <4> QED BY <4>1, <4>2
    <3>6. t' = t
      BY <1>1
    <3> QED BY <3>4, <3>5, <3>6 DEF Dense
  <2> QED BY <2>1, <2>2
<1>6. t \in 0 .. GateTimeout - 1
  BY <1>0, <1>1
<1>7. t' = t
  BY <1>1
<1>8. granted' <=> Enough(t)'
  BY <1>4, <1>7, Zenon DEF Enough
<1> QED BY <1>5, <1>6, <1>8

(* The evidence of a green call grows until it is enough. *)
LEMMA SteadyStep ==
  ASSUME PollsOftenEnough, GateInv, SteadyInv, [Next]_vars
  PROVE  SteadyInv'
<1>0. /\ MaxSleep \in Nat \ {0} /\ GateTimeout \in Nat \ {0}
      /\ t \in Nat
  BY GateAssumption DEF GateInv, TypeOK
<1> USE DEF camera, policy, classifier, history
<1>1. CASE Capture \/ ReadFails \/ Refresh \/ TimePasses \/ UNCHANGED vars
  <2>1. UNCHANGED <<pc, t, policy, answer, history>>
    BY <1>1 DEF Capture, ReadFails, Refresh, TimePasses, vars
  <2> QED BY <2>1 DEF SteadyInv, OnlyGreen, LastPoll, Dense, Enough
<1>2. CASE BeginGate
  BY <1>2 DEF BeginGate, SteadyInv, OnlyGreen
<1>3. CASE Poll
  <2>1. pc = "poll" /\ pc' = "judge" /\ t' = t /\ answer' = answer /\ seen' # {}
    BY <1>3 DEF Poll
  <2>2. CASE Usable /\ OnlyGreen'
    BY <1>3, <2>1, <2>2, GreenPoll DEF SteadyInv, LastPoll
  <2>3. CASE ~Usable /\ OnlyGreen'
    BY <1>3, <2>3 DEF Poll, OnlyGreen
  <2>4. CASE ~OnlyGreen'
    BY <2>1, <2>4 DEF SteadyInv
  <2> QED BY <2>2, <2>3, <2>4
<1>4. CASE PollRaises
  BY <1>4 DEF PollRaises, SteadyInv
<1>5. CASE Judge
  <2>1. UNCHANGED <<t, policy, history>> /\ pc = "judge"
    BY <1>5 DEF Judge
  <2>2. CASE pc' = "sleep"
    <3>1. ~granted /\ answer' = answer
      BY <1>5, <2>2 DEF Judge
    <3> QED BY <2>1, <2>2, <3>1 DEF SteadyInv, OnlyGreen, LastPoll, Dense, Enough
  <2>3. CASE pc' # "sleep"
    BY <1>5, <2>1, <2>3 DEF Judge, SteadyInv
  <2> QED BY <2>2, <2>3
<1>6. CASE SleepOrStop
  <2>1. UNCHANGED <<policy, history>> /\ pc = "sleep"
    BY <1>6 DEF SleepOrStop
  <2>2. CASE pc' = "idle" /\ answer' = "stopped"
    BY <2>2 DEF SteadyInv
  <2>3. CASE pc' = "poll" /\ answer' = answer /\ \E d \in 1 .. MaxSleep : t' = t + d
    <3>1. t \in t' - MaxSleep .. t' - 1
      BY <1>0, <2>3
    <3>2. OnlyGreen' => LastPoll(t)
      BY <2>1 DEF SteadyInv, OnlyGreen
    <3>3. PICK p \in Nat : p = t
      BY <1>0
    <3>4. LastPoll(p) => LastPoll(p)'
      BY <2>1 DEF LastPoll, Dense, Enough
    <3>5. OnlyGreen' => LastPoll(p)' /\ p \in t' - MaxSleep .. t' - 1
      BY <3>1, <3>2, <3>3, <3>4
    <3>6. seen' # {} /\ answer' = answer /\ pc' = "poll"
      BY <2>1, <2>3 DEF SteadyInv
    <3> QED BY <2>1, <3>5, <3>6 DEF SteadyInv
  <2> QED BY <1>6, <2>2, <2>3 DEF SleepOrStop
<1>7. CASE FixedWait
  BY <1>7 DEF FixedWait, SteadyInv
<1>8. CASE TimeOut
  <2>1. pc = "poll" /\ t >= GateTimeout /\ pc' = "idle" /\ UNCHANGED history
    BY <1>8 DEF TimeOut
  <2>2. ~OnlyGreen
    <3> SUFFICES ASSUME OnlyGreen PROVE FALSE
      OBVIOUS
    <3>1. PICK p \in t - MaxSleep .. t - 1 : LastPoll(p)
      BY <2>1 DEF SteadyInv
    <3>2. p \in GateTimeout - MaxSleep .. GateTimeout - 1
      BY <1>0, <2>1, <3>1 DEF LastPoll
    <3> QED BY <3>1, <3>2, DeadlineIsLateEnough
  <2> QED BY <2>1, <2>2 DEF SteadyInv, OnlyGreen
<1> QED BY <1>1, <1>2, <1>3, <1>4, <1>5, <1>6, <1>7, <1>8 DEF Next, Reader, Gate

(* The deadline never turns away a car whose LED was green in every poll, for  *)
(* any window, evidence and jitter that PollsOftenEnough allows                *)
(* (ChargingGatePolicy.record, await_charging_gate).                           *)
THEOREM SteadyGreenGranted ==
  ASSUME PollsOftenEnough
  PROVE  Spec => []SteadyGreenIsGranted
<1>1. Init => SteadyInv
  BY DEF Init, SteadyInv
<1>2. GateInv /\ SteadyInv /\ [Next]_vars => SteadyInv'
  BY SteadyStep
<1>3. SteadyInv => SteadyGreenIsGranted
  BY DEF SteadyInv, SteadyGreenIsGranted
<1> QED BY <1>1, <1>2, <1>3, Invariance, PTL DEF Spec
=============================================================================
