------------------------- MODULE TripAnalysis_proofs -------------------------
(* What the trip-time analysis computes, for every record, window and         *)
(* threshold: the envelope is the maximum over each window, and what the       *)
(* sequencer makes of a measurement follows from where the current stops.  And *)
(* what it measures of the current: for every wave and every flow that satisfy *)
(* the suppositions at the end of TripAnalysis, a burst is measured from end   *)
(* to end, a long one halts the campaign, a pass is earned and current at the  *)
(* start of the record is a fault of the rig.                                  *)
EXTENDS TripAnalysis, FiniteSetTheorems, TLAPS

(* The sizes are positive, a half cycle has two samples or more. *)
LEMMA Constants ==
  /\ Size \in Nat \ {0} /\ Window \in Nat \ {0} /\ Window >= 2
  /\ Floor \in Nat /\ Off \in Nat /\ On \in Nat /\ Floor <= Off /\ Off <= On
  /\ PassLimit \in Nat /\ NoTripLimit \in Nat /\ Uncertainty \in Nat /\ Pretrigger \in Index
  /\ Quarter \in Nat
<1>1. /\ {Size, Pretrigger, Window, Floor, Off, On, PassLimit, NoTripLimit} \subseteq Nat \ {0}
      /\ Uncertainty \in Nat /\ Quarter > 0
      /\ Floor <= Off /\ 5 * Off <= 4 * On /\ Pretrigger < Size
  BY AnalysisAssumption
<1>2. Window >= 2 /\ Quarter \in Nat
  BY <1>1 DEF Quarter
<1> QED BY <1>1, <1>2 DEF Index

-----------------------------------------------------------------------------
(* Induction over data: a set of naturals has a least element, since the       *)
(* initial segments of the naturals are well-founded under inclusion.          *)
LEMMA LeastNumber ==
  ASSUME NEW T \in SUBSET Nat, T # {}
  PROVE  \E n \in T : \A k \in T : n <= k
<1> DEFINE Below == {0 .. n : n \in T}
<1>1. Below \subseteq FiniteSubsetsOf(Nat) /\ Below # {}
  <2>1. ASSUME NEW n \in T PROVE 0 .. n \in SUBSET Nat /\ IsFiniteSet(0 .. n)
    BY FS_Interval
  <2> QED BY <2>1 DEF FiniteSubsetsOf
<1>2. \E B \in Below : \A C \in Below : <<C, B>> \notin StrictSubsetOrdering(Nat)
  <2> HIDE DEF Below
  <2> QED BY <1>1, FS_StrictSubsetOrderingWellFounded, WFMin
<1>3. PICK n \in T : \A k \in T : <<0 .. k, 0 .. n>> \notin StrictSubsetOrdering(Nat)
  BY <1>2
<1>4. ASSUME NEW k \in T, ~(n <= k) PROVE FALSE
  <2>1. 0 .. k \subseteq 0 .. n /\ n \in 0 .. n /\ n \notin 0 .. k
    <3>1. k \in Nat /\ n \in Nat /\ k < n
      BY <1>4
    <3> QED BY <3>1
  <2>2. <<0 .. k, 0 .. n>> \in (SUBSET Nat) \X (SUBSET Nat) /\ 0 .. k # 0 .. n
    BY <2>1
  <2> HIDE DEF Below
  <2>3. <<0 .. k, 0 .. n>> \in StrictSubsetOrdering(Nat)
    BY <2>1, <2>2 DEF StrictSubsetOrdering
  <2> QED BY <1>3, <2>3
<1> QED BY <1>4

(* Min of FiniteSetsExt is that least element. *)
LEMMA MinIsLeast ==
  ASSUME NEW T \in SUBSET Nat, T # {}
  PROVE  Min(T) \in T /\ \A k \in T : Min(T) <= k
BY LeastNumber DEF Min

(* A bounded set has a greatest element: the least of its bounds. *)
LEMMA MaxIsGreatest ==
  ASSUME NEW n \in Nat, NEW T \in SUBSET (0 .. n), T # {}
  PROVE  Max(T) \in T /\ \A k \in T : k <= Max(T)
<1> DEFINE Bounds == {m \in Nat : \A k \in T : k <= m}
<1>1. n \in Bounds /\ Bounds \in SUBSET Nat
  OBVIOUS
<1>2. PICK m \in Bounds : \A k \in Bounds : m <= k
  <2> HIDE DEF Bounds
  <2> QED BY <1>1, LeastNumber
<1>3. m \in T
  <2> SUFFICES ASSUME m \notin T PROVE FALSE
    OBVIOUS
  <2>1. PICK k \in T : TRUE
    OBVIOUS
  <2>2. m >= 1
    BY <2>1
  <2>3. m - 1 \in Bounds
    BY <1>2, <2>2
  <2> QED BY <1>2, <2>3
<1> QED BY <1>2, <1>3 DEF Max

(* Of two numbers. *)
LEMMA OfTwo ==
  ASSUME NEW x \in Int, NEW y \in Int
  PROVE  /\ Max({x, y}) = IF x >= y THEN x ELSE y
         /\ Min({x, y}) = IF x <= y THEN x ELSE y
BY DEF Max, Min

(* A function takes its maximum over an interval, at an index of it.           *)
LEMMA MaxTaken ==
  ASSUME NEW f, NEW a \in Int, NEW b \in Int, a <= b, \A i \in a .. b : f[i] \in Nat
  PROVE  \E m \in a .. b : \A i \in a .. b : f[i] <= f[m]
<1> DEFINE Taken(n) == \E m \in a .. n : \A i \in a .. n : f[i] <= f[m]
           Not == {n \in Nat : a + n <= b /\ ~Taken(a + n)}
<1>1. SUFFICES ASSUME Not # {} PROVE FALSE
  <2>1. PICK n \in Nat : a + n = b
    <3>1. b - a \in Nat /\ a + (b - a) = b
      OBVIOUS
    <3> QED BY <3>1
  <2>2. n \notin Not
    BY <1>1
  <2>3. Taken(a + n)
    BY <2>1, <2>2
  <2> HIDE DEF Not
  <2> QED BY <2>1, <2>3
<1>2. PICK n \in Not : \A k \in Not : n <= k
  <2>1. Not \in SUBSET Nat
    OBVIOUS
  <2> HIDE DEF Not
  <2> QED BY <1>1, <2>1, LeastNumber
<1>3. CASE n = 0
  BY <1>2, <1>3
<1>4. CASE n # 0
  <2>1. n - 1 \in Nat /\ a + (n - 1) <= b /\ n - 1 \notin Not
    <3>1. n \in Nat /\ a + n <= b
      BY <1>2
    <3>2. n - 1 \in Nat /\ a + (n - 1) <= b /\ ~(n <= n - 1)
      BY <3>1, <1>4
    <3> HIDE DEF Not
    <3> QED BY <1>2, <3>2
  <2>2. PICK m \in a .. a + (n - 1) : \A i \in a .. a + (n - 1) : f[i] <= f[m]
    BY <2>1
  <2>3. \A i \in a .. a + n : i \in a .. a + (n - 1) \/ i = a + n
    BY <1>2, <2>1
  <2>4. f[m] \in Nat /\ f[a + n] \in Nat /\ m \in a .. a + n /\ a + n \in a .. a + n
    BY <1>2, <2>1
  <2>5. CASE f[a + n] <= f[m]
    BY <1>2, <2>2, <2>3, <2>4, <2>5
  <2>6. CASE f[m] <= f[a + n]
    <3>1. \A i \in a .. a + n : f[i] <= f[a + n]
      <4>1. ASSUME NEW i \in a .. a + (n - 1) PROVE f[i] <= f[a + n]
        <5>1. f[i] \in Nat /\ f[i] <= f[m]
          BY <2>1, <2>2, <1>2
        <5> QED BY <2>4, <2>6, <5>1
      <4> QED BY <2>3, <2>4, <4>1
    <3> QED BY <1>2, <2>4, <3>1
  <2> QED BY <2>4, <2>5, <2>6
<1> QED BY <1>3, <1>4

(* MaxOver is that value. *)
LEMMA MaxOverIs ==
  ASSUME NEW f, NEW a \in Int, NEW b \in Int, a <= b, \A i \in a .. b : f[i] \in Nat
  PROVE  /\ MaxOver(f, a, b) \in Nat
         /\ \E m \in a .. b : MaxOver(f, a, b) = f[m]
         /\ \A i \in a .. b : f[i] <= MaxOver(f, a, b)
<1>1. PICK m \in a .. b : \A i \in a .. b : f[i] <= f[m]
  BY MaxTaken
<1> DEFINE S == {f[i] : i \in a .. b}
<1>2. f[m] \in S /\ \A y \in S : f[m] >= y
  BY <1>1
<1>3. Max(S) \in S /\ \A y \in S : Max(S) >= y
  BY <1>2 DEF Max
<1> QED BY <1>3 DEF MaxOver

(* That value is the only one taken and not exceeded. *)
LEMMA MaxOverUnique ==
  ASSUME NEW f, NEW a \in Int, NEW b \in Int, a <= b, \A i \in a .. b : f[i] \in Nat,
         NEW x, \E m \in a .. b : x = f[m], \A i \in a .. b : f[i] <= x
  PROVE  x = MaxOver(f, a, b)
BY MaxOverIs

-----------------------------------------------------------------------------
(* A collection of subsets of a finite set has a minimal member. *)
LEMMA LeastSet ==
  ASSUME NEW U, IsFiniteSet(U), NEW B \in SUBSET (SUBSET U), B # {}
  PROVE  \E S \in B : \A R \in B : R \subseteq S => R = S
<1>1. B \subseteq FiniteSubsetsOf(U)
  BY FS_Subset DEF FiniteSubsetsOf
<1>2. PICK S \in B : \A R \in B : <<R, S>> \notin StrictSubsetOrdering(U)
  BY <1>1, FS_StrictSubsetOrderingWellFounded, WFMin
<1>3. ASSUME NEW R \in B, R \subseteq S, R # S PROVE FALSE
  <2>1. <<R, S>> \in (SUBSET U) \X (SUBSET U)
    OBVIOUS
  <2>2. <<R, S>> \in StrictSubsetOrdering(U)
    BY <1>3, <2>1 DEF StrictSubsetOrdering
  <2> QED BY <1>2, <2>2
<1> QED BY <1>2, <1>3

(* The fold of Functions takes one element after the other, in the order of    *)
(* CHOOSE: it is the value of the function that accumulates them.              *)
Taken(s) == CHOOSE x \in s : TRUE
Rest(s)  == s \ {Taken(s)}
Total(f, S) == FoldFunctionOnSet(+, 0, f, S)
Accumulates(g, f, S) ==
  g = [s \in SUBSET S |-> IF s = {} THEN 0 ELSE f[Taken(s)] + g[Rest(s)]]

(* There is one less to take.                                                 *)
LEMMA TakenIs ==
  ASSUME NEW s, s # {}
  PROVE  Taken(s) \in s /\ Rest(s) \subseteq s /\ Rest(s) # s
BY DEF Taken, Rest

(* There is one such function,                                                 *)
LEMMA AccumulatesOnce ==
  ASSUME NEW f, NEW S, IsFiniteSet(S), NEW g, NEW h, Accumulates(g, f, S), Accumulates(h, f, S)
  PROVE  g = h
<1> DEFINE Bad == {s \in SUBSET S : g[s] # h[s]}
<1>1. SUFFICES ASSUME Bad # {} PROVE FALSE
  <2>1. \A s \in SUBSET S : g[s] = h[s]
    BY <1>1
  <2> QED BY <2>1 DEF Accumulates
<1>2. PICK s \in Bad : \A r \in Bad : r \subseteq s => r = s
  <2>1. Bad \in SUBSET (SUBSET S)
    OBVIOUS
  <2> HIDE DEF Bad
  <2> QED BY <1>1, <2>1, LeastSet
<1>3. CASE s = {}
  BY <1>2, <1>3 DEF Accumulates
<1>4. CASE s # {}
  <2>1. Rest(s) \in SUBSET S /\ Rest(s) \notin Bad
    BY <1>2, <1>4, TakenIs
  <2>2. g[s] = f[Taken(s)] + g[Rest(s)] /\ h[s] = f[Taken(s)] + h[Rest(s)]
    BY <1>2, <1>4 DEF Accumulates
  <2> QED BY <1>2, <2>1, <2>2
<1> QED BY <1>3, <1>4

(* inside which those of the subsets are,                                      *)
LEMMA AccumulatesInside ==
  ASSUME NEW f, NEW S, NEW R \in SUBSET S, NEW g, Accumulates(g, f, S)
  PROVE  Accumulates([s \in SUBSET R |-> g[s]], f, R)
<1> DEFINE h == [s \in SUBSET R |-> g[s]]
<1>1. ASSUME NEW s \in SUBSET R
      PROVE  g[s] = IF s = {} THEN 0 ELSE f[Taken(s)] + h[Rest(s)]
  <2>1. g[s] = IF s = {} THEN 0 ELSE f[Taken(s)] + g[Rest(s)]
    BY DEF Accumulates
  <2>2. s # {} => Rest(s) \in SUBSET R
    BY TakenIs
  <2> QED BY <2>1, <2>2
<1> QED BY <1>1 DEF Accumulates

(* and it exists for every finite set, by induction on the subsets.            *)
LEMMA Accumulator ==
  ASSUME NEW f, NEW U, IsFiniteSet(U), NEW S \in SUBSET U
  PROVE  \E g : Accumulates(g, f, S)
<1> DEFINE Bad == {R \in SUBSET U : ~\E g : Accumulates(g, f, R)}
<1>1. SUFFICES ASSUME Bad # {} PROVE FALSE
  BY <1>1
<1>2. PICK R \in Bad : \A Q \in Bad : Q \subseteq R => Q = R
  <2>1. Bad \in SUBSET (SUBSET U)
    OBVIOUS
  <2> HIDE DEF Bad
  <2> QED BY <1>1, <2>1, LeastSet
<1> DEFINE G(Q) == CHOOSE g : Accumulates(g, f, Q)
           h == [s \in SUBSET R |-> IF s = {} THEN 0 ELSE f[Taken(s)] + G(Rest(s))[Rest(s)]]
<1>3. ASSUME NEW Q \in SUBSET R, Q # R PROVE Accumulates(G(Q), f, Q)
  <2>1. \E g : Accumulates(g, f, Q)
    BY <1>2, <1>3
  <2> QED BY <2>1
<1>4. ASSUME NEW s \in SUBSET R, s # {}
      PROVE  G(Rest(s))[Rest(s)] = h[Rest(s)]
  <2> DEFINE t == Rest(s)
  <2>1. t \in SUBSET R /\ t # R
    BY <1>4, TakenIs
  <2>2. Accumulates(G(t), f, t)
    BY <1>3, <2>1
  <2> HIDE DEF t, G
  <2>3. G(t)[t] = IF t = {} THEN 0 ELSE f[Taken(t)] + G(t)[Rest(t)]
    BY <2>2 DEF Accumulates
  <2>4. h[t] = IF t = {} THEN 0 ELSE f[Taken(t)] + G(Rest(t))[Rest(t)]
    BY <2>1
  <2>5. ASSUME t # {} PROVE G(t)[Rest(t)] = G(Rest(t))[Rest(t)]
    <3>1. Rest(t) \in SUBSET t /\ Rest(t) \in SUBSET R /\ Rest(t) # R
      BY <2>1, <2>5, TakenIs
    <3>2. Accumulates(G(Rest(t)), f, Rest(t))
      BY <1>3, <3>1
    <3> DEFINE k == [q \in SUBSET Rest(t) |-> G(t)[q]]
    <3>3. Accumulates(k, f, Rest(t))
      BY <2>2, <3>1, AccumulatesInside
    <3>4. IsFiniteSet(Rest(t))
      BY <1>2, <3>1, FS_Subset
    <3>5. k = G(Rest(t))
      <4> HIDE DEF k
      <4> QED BY <3>2, <3>3, <3>4, AccumulatesOnce
    <3>6. k[Rest(t)] = G(t)[Rest(t)]
      OBVIOUS
    <3> QED BY <3>5, <3>6
  <2>6. h[t] = G(t)[t]
    BY <2>3, <2>4, <2>5
  <2> QED BY <2>6 DEF t
<1>5. Accumulates(h, f, R)
  <2>1. ASSUME NEW s \in SUBSET R
        PROVE  h[s] = IF s = {} THEN 0 ELSE f[Taken(s)] + h[Rest(s)]
    <3> HIDE DEF G
    <3>1. h[s] = IF s = {} THEN 0 ELSE f[Taken(s)] + G(Rest(s))[Rest(s)]
      OBVIOUS
    <3> HIDE DEF h
    <3> QED BY <1>4, <3>1
  <2>2. h = [s \in SUBSET R |-> h[s]]
    OBVIOUS
  <2> HIDE DEF h
  <2> QED BY <2>1, <2>2 DEF Accumulates
<1> QED BY <1>2, <1>5

(* So a total is what the recursion of the fold says.                          *)
LEMMA TotalIs ==
  ASSUME NEW f, NEW S, IsFiniteSet(S)
  PROVE  \A R \in SUBSET S : Total(f, R) = IF R = {} THEN 0 ELSE f[Taken(R)] + Total(f, Rest(R))
<1> DEFINE G(R) == CHOOSE g : Accumulates(g, f, R)
<1>1. ASSUME NEW R PROVE Total(f, R) = G(R)[R]
  BY DEF Total, FoldFunctionOnSet, MapThenFoldSet, Accumulates, Taken, Rest
<1>2. ASSUME NEW R \in SUBSET S PROVE Accumulates(G(R), f, R)
  <2>1. \E g : Accumulates(g, f, R)
    BY Accumulator
  <2> QED BY <2>1
<1> HIDE DEF G
<1>3. ASSUME NEW R \in SUBSET S, R # {} PROVE G(R)[Rest(R)] = G(Rest(R))[Rest(R)]
  <2>1. Rest(R) \in SUBSET R /\ Rest(R) \in SUBSET S /\ IsFiniteSet(Rest(R))
    BY <1>3, TakenIs, FS_Subset
  <2> DEFINE k == [q \in SUBSET Rest(R) |-> G(R)[q]]
  <2>2. Accumulates(k, f, Rest(R)) /\ Accumulates(G(Rest(R)), f, Rest(R))
    BY <1>2, <2>1, AccumulatesInside
  <2>3. k[Rest(R)] = G(R)[Rest(R)]
    OBVIOUS
  <2> HIDE DEF k
  <2> QED BY <2>1, <2>2, <2>3, AccumulatesOnce
<1>4. ASSUME NEW R \in SUBSET S
      PROVE  G(R)[R] = IF R = {} THEN 0 ELSE f[Taken(R)] + G(R)[Rest(R)]
  BY <1>2 DEF Accumulates
<1> QED BY <1>1, <1>3, <1>4

(* In whatever order the fold takes them: one element less. *)
LEMMA TotalLess ==
  ASSUME NEW S, IsFiniteSet(S), NEW f, \A x \in S : f[x] \in Nat
  PROVE  \A R \in SUBSET S : /\ Total(f, R) \in Nat
                             /\ \A x \in R : Total(f, R) = f[x] + Total(f, R \ {x})
<1> DEFINE Good(R) == /\ Total(f, R) \in Nat
                      /\ \A x \in R : Total(f, R) = f[x] + Total(f, R \ {x})
           Bad == {R \in SUBSET S : ~Good(R)}
<1>1. SUFFICES ASSUME Bad # {} PROVE FALSE
  <2>1. \A R \in SUBSET S : Good(R)
    BY <1>1
  <2> QED BY <2>1
<1>2. PICK R \in Bad : \A Q \in Bad : Q \subseteq R => Q = R
  <2>1. Bad \in SUBSET (SUBSET S)
    OBVIOUS
  <2> HIDE DEF Bad
  <2> QED BY <1>1, <2>1, LeastSet
<1>3. R \in SUBSET S /\ ~Good(R) /\ \A Q \in SUBSET R : Q # R => Good(Q)
  BY <1>2
<1> HIDE DEF Bad
<1>4. CASE R = {}
  <2>1. Total(f, {}) = 0
    BY TotalIs
  <2> QED BY <1>3, <1>4, <2>1
<1>5. CASE R # {}
  <2> DEFINE p == Taken(R)
  <2>1. p \in R /\ R \ {p} # R /\ Total(f, R) = f[p] + Total(f, R \ {p})
    BY <1>3, <1>5, TakenIs, TotalIs DEF Rest
  <2> HIDE DEF p
  <2>2. Total(f, R \ {p}) \in Nat /\ f[p] \in Nat
    BY <1>3, <2>1
  <2>3. ASSUME NEW x \in R PROVE Total(f, R) = f[x] + Total(f, R \ {x})
    <3>1. CASE x = p
      BY <2>1, <3>1
    <3>2. CASE x # p
      <4> DEFINE T == (R \ {p}) \ {x}
      <4>1. T = (R \ {x}) \ {p} /\ x \in R \ {p} /\ p \in R \ {x} /\ R \ {x} # R
        BY <2>1, <2>3, <3>2
      <4>2. Good(R \ {p}) /\ Good(R \ {x}) /\ T # R
        BY <1>3, <2>1, <4>1
      <4>2a. Good(T)
        BY <1>3, <4>1, <4>2
      <4>3. Total(f, R \ {p}) = f[x] + Total(f, T)
        BY <4>1, <4>2
      <4>4. Total(f, R \ {x}) = f[p] + Total(f, T)
        BY <4>1, <4>2
      <4>5. f[x] \in Nat /\ Total(f, T) \in Nat
        BY <1>3, <2>3, <4>2a
      <4> HIDE DEF T
      <4> QED BY <2>1, <2>2, <4>3, <4>4, <4>5
    <3> QED BY <3>1, <3>2
  <2>4. Total(f, R) \in Nat
    BY <2>1, <2>2
  <2> QED BY <1>3, <2>3, <2>4
<1> QED BY <1>4, <1>5

(* The sum of an interval, without its last sample; of numbers where there are *)
(* some. *)
LEMMA SumIs ==
  ASSUME NEW a \in Int, NEW b \in Int, NEW f, \A i \in a .. b : f[i] \in Nat
  PROVE  /\ Sum(f, a, b) \in Nat
         /\ b < a => Sum(f, a, b) = 0
         /\ a <= b => Sum(f, a, b) = Sum(f, a, b - 1) + f[b]
         /\ a <= b => Sum(f, a, b) = f[a] + Sum(f, a + 1, b)
<1>1. IsFiniteSet(a .. b)
  BY FS_Interval
<1>2. \A u, v : Sum(f, u, v) = Total(f, u .. v)
  BY DEF Sum, Total
<1>3. Sum(f, a, b) \in Nat /\ \A x \in a .. b : Sum(f, a, b) = f[x] + Total(f, (a .. b) \ {x})
  <2> DEFINE I == a .. b
  <2>1. IsFiniteSet(I) /\ I \in SUBSET I /\ \A x \in I : f[x] \in Nat
    BY <1>1
  <2> HIDE DEF I
  <2>2. Total(f, I) \in Nat /\ \A x \in I : Total(f, I) = f[x] + Total(f, I \ {x})
    BY <2>1, TotalLess
  <2> QED BY <1>2, <2>2 DEF I
<1>4. ASSUME b < a PROVE Sum(f, a, b) = 0
  <2>1. a .. b = {}
    BY <1>4
  <2> QED BY <1>1, <1>2, <2>1, TotalIs
<1>5. ASSUME a <= b PROVE Sum(f, a, b) = Sum(f, a, b - 1) + f[b]
  <2>1. b \in a .. b /\ a .. (b - 1) = (a .. b) \ {b}
    BY <1>5
  <2>2. Total(f, (a .. b) \ {b}) \in Nat /\ f[b] \in Nat
    <3> DEFINE I == a .. b
    <3>1. IsFiniteSet(I) /\ I \ {b} \in SUBSET I /\ \A x \in I : f[x] \in Nat
      BY <1>1
    <3> HIDE DEF I
    <3>2. Total(f, I \ {b}) \in Nat
      BY <3>1, TotalLess
    <3> QED BY <2>1, <3>2 DEF I
  <2>3. Sum(f, a, b) = f[b] + Total(f, (a .. b) \ {b})
    BY <1>3, <2>1
  <2>4. Sum(f, a, b - 1) = Total(f, (a .. b) \ {b})
    BY <1>2, <2>1
  <2> QED BY <2>2, <2>3, <2>4
<1>6. ASSUME a <= b PROVE Sum(f, a, b) = f[a] + Sum(f, a + 1, b)
  <2>1. a \in a .. b /\ (a + 1) .. b = (a .. b) \ {a}
    BY <1>6
  <2> QED BY <1>2, <1>3, <2>1
<1> QED BY <1>3, <1>4, <1>5, <1>6

(* The same samples have the same sum, wherever they are. *)
LEMMA SumShifted ==
  ASSUME NEW a \in Int, NEW b \in Int, NEW u \in Int, NEW f, NEW h,
         \A i \in a .. b : f[i] \in Nat /\ h[i + u] = f[i]
  PROVE  Sum(f, a, b) = Sum(h, a + u, b + u)
<1> DEFINE Bad == {n \in Nat : a + n - 1 <= b /\ Sum(f, a, a + n - 1) # Sum(h, a + u, a + u + n - 1)}
<1>0. CASE b < a
  <2>1. b + u < a + u /\ \A i \in (a + u) .. (b + u) : h[i] \in Nat
    BY <1>0
  <2> QED BY <1>0, <2>1, SumIs
<1>1. CASE a <= b /\ Bad = {}
  <2> DEFINE n == b - a + 1
  <2>1. n \in Nat /\ a + n - 1 = b /\ a + u + n - 1 = b + u
    BY <1>1
  <2>1a. n \notin Bad
    BY <1>1
  <2>2. Sum(f, a, a + n - 1) = Sum(h, a + u, a + u + n - 1)
    BY <2>1, <2>1a
  <2> HIDE DEF n
  <2> QED BY <2>1, <2>2
<1>2. CASE Bad # {}
  <2>1. PICK n \in Bad : \A k \in Bad : n <= k
    <3>1. Bad \in SUBSET Nat
      OBVIOUS
    <3> HIDE DEF Bad
    <3> QED BY <1>2, <3>1, LeastNumber
  <2>2. n \in Nat /\ a + n - 1 <= b /\ Sum(f, a, a + n - 1) # Sum(h, a + u, a + u + n - 1)
    BY <2>1
  <2> DEFINE v == a + n - 1
  <2>3. /\ v \in Int /\ a + u \in Int /\ v + u \in Int /\ a + u + n - 1 = v + u
        /\ \A i \in a .. v : f[i] \in Nat /\ h[i + u] = f[i]
    BY <2>2
  <2>4. \A i \in (a + u) .. (v + u) : h[i] \in Nat
    <3>1. ASSUME NEW i \in (a + u) .. (v + u) PROVE h[i] \in Nat
      <4>1. i - u \in a .. v /\ (i - u) + u = i
        BY <2>3
      <4> QED BY <2>3, <4>1
    <3> QED BY <3>1
  <2>5. CASE n = 0
    <3>1. v < a /\ v + u < a + u
      BY <2>5
    <3>2. Sum(f, a, v) = 0 /\ Sum(h, a + u, v + u) = 0
      BY <2>3, <2>4, <3>1, SumIs
    <3> QED BY <2>2, <2>3, <3>2
  <2>6. CASE n # 0
    <3>1. n - 1 \in Nat /\ a + (n - 1) - 1 <= b /\ n - 1 \notin Bad
      BY <2>1, <2>2, <2>6
    <3>2. Sum(f, a, a + (n - 1) - 1) = Sum(h, a + u, a + u + (n - 1) - 1)
      BY <3>1
    <3>3. a + (n - 1) - 1 = v - 1 /\ a + u + (n - 1) - 1 = (v + u) - 1 /\ a <= v /\ a + u <= v + u
      BY <2>2, <2>6
    <3>4. Sum(f, a, v) = Sum(f, a, v - 1) + f[v]
      BY <2>3, <3>3, SumIs
    <3>5. Sum(h, a + u, v + u) = Sum(h, a + u, (v + u) - 1) + h[v + u]
      BY <2>3, <2>4, <3>3, SumIs
    <3>6. v \in a .. v
      BY <2>3, <3>3
    <3> QED BY <2>2, <2>3, <3>2, <3>3, <3>4, <3>5, <3>6
  <2> QED BY <2>5, <2>6
<1> QED BY <1>0, <1>1, <1>2

(* And where they are.                                                         *)
LEMMA SumSame ==
  ASSUME NEW a \in Int, NEW b \in Int, NEW f, NEW h,
         \A i \in a .. b : f[i] \in Nat /\ h[i] = f[i]
  PROVE  Sum(f, a, b) = Sum(h, a, b)
<1>1. ASSUME NEW u \in Int, u = 0 PROVE Sum(f, a, b) = Sum(h, a, b)
  <2>1. \A i \in a .. b : f[i] \in Nat /\ h[i + u] = f[i]
    BY <1>1
  <2>2. Sum(f, a, b) = Sum(h, a + u, b + u)
    BY <2>1, SumShifted
  <2> QED BY <1>1, <2>2
<1> QED BY <1>1

(* More samples, more energy. *)
LEMMA SumGrows ==
  ASSUME NEW a \in Int, NEW b \in Int, NEW c \in Int, b <= c, NEW f, \A i \in a .. c : f[i] \in Nat
  PROVE  Sum(f, a, b) <= Sum(f, a, c)
<1> DEFINE Bad == {n \in Nat : b + n <= c /\ ~(Sum(f, a, b) <= Sum(f, a, b + n))}
<1>1. CASE Bad = {}
  <2>1. c - b \in Nat /\ b + (c - b) = c
    OBVIOUS
  <2>1a. c - b \notin Bad
    BY <1>1
  <2>2. Sum(f, a, b) <= Sum(f, a, b + (c - b))
    BY <2>1, <2>1a
  <2> QED BY <2>1, <2>2
<1>2. CASE Bad # {}
  <2>1. PICK n \in Bad : \A k \in Bad : n <= k
    <3>1. Bad \in SUBSET Nat
      OBVIOUS
    <3> HIDE DEF Bad
    <3> QED BY <1>2, <3>1, LeastNumber
  <2>2. n \in Nat /\ b + n <= c /\ ~(Sum(f, a, b) <= Sum(f, a, b + n))
    BY <2>1
  <2>3. Sum(f, a, b) \in Nat
    <3>1. \A i \in a .. b : f[i] \in Nat
      OBVIOUS
    <3> QED BY <3>1, SumIs
  <2>4. n # 0
    BY <2>2, <2>3
  <2>5. n - 1 \in Nat /\ b + (n - 1) <= c /\ n - 1 \notin Bad
    BY <2>1, <2>2, <2>4
  <2>6. Sum(f, a, b) <= Sum(f, a, b + (n - 1))
    BY <2>5
  <2> DEFINE v == b + n
  <2>7. v \in Int /\ v <= c /\ b + (n - 1) = v - 1 /\ \A i \in a .. v : f[i] \in Nat
    BY <2>2
  <2>8. \A i \in a .. v - 1 : f[i] \in Nat
    BY <2>7
  <2>9. Sum(f, a, v) \in Nat /\ Sum(f, a, v - 1) \in Nat
    BY <2>7, <2>8, SumIs
  <2>10. CASE a <= v
    <3>1. Sum(f, a, v) = Sum(f, a, v - 1) + f[v] /\ f[v] \in Nat
      BY <2>7, <2>10, SumIs
    <3> QED BY <2>2, <2>3, <2>6, <2>7, <2>9, <3>1
  <2>11. CASE v < a
    <3>1. Sum(f, a, v) = 0 /\ Sum(f, a, b) = 0
      <4>1. b < a /\ \A i \in a .. b : f[i] \in Nat
        BY <2>2, <2>11
      <4> QED BY <2>7, <2>11, <4>1, SumIs
    <3> QED BY <2>2, <3>1
  <2> QED BY <2>7, <2>10, <2>11
<1> QED BY <1>1, <1>2

-----------------------------------------------------------------------------
(* A sample lies in the block that starts at a multiple of Window.             *)
LEMMA BlockIs ==
  ASSUME NEW i \in Nat
  PROVE  /\ BlockStart(i) \in Nat /\ BlockStart(i) <= i /\ i < BlockStart(i) + Window
         /\ \E q \in Nat : BlockStart(i) = Window * q
<1>1. i % Window \in 0 .. Window - 1
  BY Constants, Z3
<1>2. i = (i \div Window) * Window + (i % Window) /\ i \div Window \in Nat
  BY Constants, SMTT(30)
<1>3. BlockStart(i) = Window * (i \div Window)
  BY <1>1, <1>2, Constants DEF BlockStart
<1>4. BlockStart(i) = i - (i % Window)
  BY DEF BlockStart
<1> QED BY <1>1, <1>2, <1>3, <1>4, Constants

(* And in no other one. *)
LEMMA BlockFrom ==
  ASSUME NEW i \in Nat, NEW q \in Nat, Window * q <= i, i < Window * q + Window
  PROVE  BlockStart(i) = Window * q
<1>1. PICK r \in 0 .. Window - 1 : i = Window * q + r
  <2>1. Window * q \in Nat
    BY Constants
  <2>2. i - Window * q \in 0 .. Window - 1 /\ i = Window * q + (i - Window * q)
    BY <2>1, Constants
  <2> QED BY <2>2
<1>2. i % Window = r
  BY <1>1, Constants, Z3T(30)
<1>3. Window * q \in Nat
  BY Constants
<1> QED BY <1>1, <1>2, <1>3 DEF BlockStart

(* The blocks follow each other.                                               *)
LEMMA NextBlock ==
  ASSUME NEW i \in Nat, NEW j \in Nat, BlockStart(i) <= j
  PROVE  /\ j < BlockStart(i) + Window => BlockStart(j) = BlockStart(i)
         /\ BlockStart(i) + Window <= j /\ j < BlockStart(i) + Window + Window
              => BlockStart(j) = BlockStart(i) + Window
<1>1. PICK q \in Nat : BlockStart(i) = Window * q
  BY BlockIs
<1>2. Window * (q + 1) = BlockStart(i) + Window /\ q + 1 \in Nat /\ BlockStart(i) \in Nat
  BY <1>1, Constants
<1>3. CASE j < BlockStart(i) + Window
  BY <1>1, <1>2, <1>3, BlockFrom
<1>4. CASE BlockStart(i) + Window <= j /\ j < BlockStart(i) + Window + Window
  <2>1. Window * (q + 1) <= j /\ j < Window * (q + 1) + Window
    BY <1>2, <1>4
  <2>2. BlockStart(j) = Window * (q + 1)
    BY <1>2, <2>1, BlockFrom
  <2> QED BY <1>2, <1>4, <2>2, Constants
<1> QED BY <1>3, <1>4, <1>2, Constants

(* Padding with zeros changes no maximum that a sample of the record takes     *)
(* part in.                                                                    *)
LEMMA PaddedMaximum ==
  ASSUME NEW f \in [Index -> Nat], NEW i \in Index, NEW to \in Int, i <= to,
         to <= BlockStart(Size - 1) + Window - 1,
         NEW x, \E m \in i .. to : x = Padded(f)[m],
         \A m \in i .. to : Padded(f)[m] <= x
  PROVE  x = MaxOver(f, i, Min({Size - 1, to}))
<1> DEFINE top == Min({Size - 1, to})
           last == BlockStart(Size - 1) + Window - 1
<1>1. last \in Nat /\ i \in Nat /\ i <= Size - 1 /\ Size \in Nat
  <2>1. Size - 1 \in Nat
    BY Constants
  <2>2. BlockStart(Size - 1) \in Nat
    BY <2>1, BlockIs
  <2> QED BY <2>1, <2>2, Constants DEF Index
<1>2. top \in Int /\ top = (IF Size - 1 <= to THEN Size - 1 ELSE to)
  <2>1. Size - 1 \in Int
    BY Constants
  <2> QED BY <2>1, OfTwo
<1>3. i <= top /\ \A m \in i .. top : m \in Index /\ f[m] \in Nat /\ m \in i .. to
  <2>1. i <= top /\ top <= Size - 1 /\ top <= to
    BY <1>1, <1>2
  <2> HIDE DEF top
  <2>2. \A m \in i .. top : m \in Index /\ m \in i .. to
    BY <1>1, <1>2, <2>1 DEF Index
  <2> QED BY <2>1, <2>2
<1>4. \A m \in i .. to : Padded(f)[m] = IF m \in i .. top THEN f[m] ELSE 0
  <2>1. ASSUME NEW m \in i .. to PROVE Padded(f)[m] = IF m \in i .. top THEN f[m] ELSE 0
    <3>1. m \in 0 .. last /\ (m \in Index <=> m \in i .. top)
      BY <1>1, <1>2 DEF Index
    <3> QED BY <3>1 DEF Padded
  <2> QED BY <2>1
<1> HIDE DEF top
<1>5. \A m \in i .. top : f[m] <= x
  BY <1>3, <1>4
<1>6. \E m \in i .. top : x = f[m]
  <2>1. PICK m \in i .. to : x = Padded(f)[m]
    OBVIOUS
  <2>2. CASE m \in i .. top
    BY <1>4, <2>1, <2>2
  <2>3. CASE m \notin i .. top
    <3>1. x = 0 /\ i \in i .. top
      BY <1>1, <1>2, <1>3, <1>4, <2>1, <2>3
    <3>2. f[i] \in Nat /\ f[i] <= 0
      BY <1>3, <1>5, <3>1
    <3> QED BY <3>1, <3>2
  <2> QED BY <2>2, <2>3
<1>7. x = MaxOver(f, i, top)
  <2>1. i \in Int /\ \A m \in i .. top : f[m] \in Nat
    BY <1>1, <1>3
  <2> QED BY <1>2, <1>3, <1>5, <1>6, <2>1, MaxOverUnique
<1> QED BY <1>7 DEF top

(* sliding_max computes the maximum over each window: a suffix of the block a  *)
(* window begins in and a prefix of the one it ends in make the window up.     *)
LEMMA EnvelopeIsMaximum ==
  ASSUME NEW f \in [Index -> Nat]
  PROVE  Envelope(f) = [i \in Index |-> MaxOver(f, i, Min({Size - 1, i + Window - 1}))]
<1> DEFINE p == Padded(f)
           L == BlockStart(Size - 1)
           Suffix(i) == SuffixMax(p, i)
<1>1. L \in Nat /\ L <= Size - 1 /\ Size - 1 < L + Window /\ Size - 1 \in Nat
  <2>1. Size - 1 \in Nat
    BY Constants
  <2> QED BY <2>1, BlockIs
<1>2. \A m \in 0 .. L + Window - 1 : p[m] \in Nat
  BY DEF Padded
<1> DEFINE Value(i) == IF i <= L
                         THEN Max({Suffix(i), PrefixMax(p, i + Window - 1)}) ELSE Suffix(i)
           Exact(i) == MaxOver(f, i, Min({Size - 1, i + Window - 1}))
<1>a. Envelope(f) = [i \in Index |-> Value(i)]
  BY DEF Envelope
<1> SUFFICES ASSUME NEW i \in Index PROVE Value(i) = Exact(i)
  <2> HIDE DEF Value, Exact
  <2>1. (\A i \in Index : Value(i) = Exact(i)) =>
          [i \in Index |-> Value(i)] = [i \in Index |-> Exact(i)]
    OBVIOUS
  <2>2. [i \in Index |-> Exact(i)]
          = [i \in Index |-> MaxOver(f, i, Min({Size - 1, i + Window - 1}))]
    BY DEF Exact
  <2> QED BY <1>a, <2>1, <2>2
<1>3. /\ i \in Nat /\ i <= Size - 1
      /\ BlockStart(i) \in Nat /\ BlockStart(i) <= i /\ i < BlockStart(i) + Window
  <2>1. i \in Nat /\ i <= Size - 1
    BY Constants DEF Index
  <2> QED BY <2>1, BlockIs
<1> HIDE DEF L, p
<1> USE DEF SuffixMax, PrefixMax
<1>4. CASE i <= L
  <2> DEFINE e == BlockStart(i + Window - 1)
  <2>1. i + Window - 1 \in Nat /\ e \in Nat /\ e <= i + Window - 1
    <3>1. i + Window - 1 \in Nat
      BY <1>3, Constants
    <3> QED BY <3>1, BlockIs
  <2>2. (i = BlockStart(i) /\ e = i) \/ e = BlockStart(i) + Window
    <3>1. CASE i = BlockStart(i)
      BY <1>3, <2>1, <3>1, NextBlock, Constants
    <3>2. CASE i # BlockStart(i)
      BY <1>3, <2>1, <3>2, NextBlock, Constants
    <3> QED BY <3>1, <3>2
  <2> HIDE DEF e
  <2>3. /\ Suffix(i) \in Nat
        /\ \E m \in i .. BlockStart(i) + Window - 1 : Suffix(i) = p[m]
        /\ \A m \in i .. BlockStart(i) + Window - 1 : p[m] <= Suffix(i)
    <3>1. i .. BlockStart(i) + Window - 1 \subseteq 0 .. L + Window - 1
      BY <1>1, <1>3, <1>4, Constants
    <3>2. i <= BlockStart(i) + Window - 1 /\ BlockStart(i) + Window - 1 \in Int
      BY <1>3, Constants
    <3> QED BY <1>2, <1>3, <3>1, <3>2, MaxOverIs
  <2> DEFINE pre == MaxOver(p, e, i + Window - 1)
  <2>4. /\ pre \in Nat
        /\ \E m \in e .. i + Window - 1 : pre = p[m]
        /\ \A m \in e .. i + Window - 1 : p[m] <= pre
    <3>1. e .. i + Window - 1 \subseteq 0 .. L + Window - 1
      BY <1>1, <1>3, <1>4, <2>1, Constants
    <3> QED BY <1>2, <2>1, <3>1, MaxOverIs
  <2>5. pre = PrefixMax(p, i + Window - 1)
    BY DEF e
  <2> HIDE DEF pre, Suffix
  <2> DEFINE x == Max({Suffix(i), pre})
  <2>6. x = IF Suffix(i) >= pre THEN Suffix(i) ELSE pre
    BY <2>3, <2>4, OfTwo
  <2>7. \A m \in i .. i + Window - 1 :
          m \in i .. BlockStart(i) + Window - 1 \/ m \in e .. i + Window - 1
    BY <1>3, <2>1, <2>2, Constants
  <2>8. /\ i .. BlockStart(i) + Window - 1 \subseteq i .. i + Window - 1
        /\ e .. i + Window - 1 \subseteq i .. i + Window - 1
    BY <1>3, <2>1, <2>2, Constants
  <2> HIDE DEF x
  <2>9. \E m \in i .. i + Window - 1 : x = p[m]
    BY <2>3, <2>4, <2>6, <2>8
  <2>10. \A m \in i .. i + Window - 1 : p[m] <= x
    <3>1. ASSUME NEW m \in i .. i + Window - 1 PROVE p[m] <= x
      <4>1. p[m] \in Nat
        BY <1>1, <1>2, <1>3, <1>4, Constants
      <4>2. p[m] <= Suffix(i) \/ p[m] <= pre
        BY <2>3, <2>4, <2>7
      <4> QED BY <2>3, <2>4, <2>6, <4>1, <4>2
    <3> QED BY <3>1
  <2>11. x = MaxOver(f, i, Min({Size - 1, i + Window - 1}))
    <3>1. i <= i + Window - 1 /\ i + Window - 1 <= L + Window - 1 /\ i + Window - 1 \in Int
      BY <1>1, <1>3, <1>4, Constants
    <3> QED BY <2>9, <2>10, <3>1, PaddedMaximum DEF p, L
  <2> QED BY <1>4, <2>5, <2>11 DEF x
<1>5. CASE L < i
  <2>1. BlockStart(i) = L
    <3>1. L <= i /\ i < L + Window
      BY <1>1, <1>3, <1>5, Constants
    <3> QED BY <1>1, <1>3, <3>1, NextBlock DEF L
  <2>2. i \in Int /\ i <= L + Window - 1 /\ L + Window - 1 \in Int
    BY <1>1, <1>3, <1>5, Constants
  <2>3. i .. L + Window - 1 \subseteq 0 .. L + Window - 1
    BY <1>1, <1>3
  <2>4. /\ \E m \in i .. L + Window - 1 : Suffix(i) = p[m]
        /\ \A m \in i .. L + Window - 1 : p[m] <= Suffix(i)
    BY <1>2, <2>1, <2>2, <2>3, MaxOverIs
  <2> HIDE DEF Suffix
  <2>5. Suffix(i) = MaxOver(f, i, Min({Size - 1, L + Window - 1}))
    <3>1. L + Window - 1 <= L + Window - 1
      BY <2>2
    <3> QED BY <2>2, <2>4, <3>1, PaddedMaximum DEF p, L
  <2>6. Min({Size - 1, L + Window - 1}) = Min({Size - 1, i + Window - 1})
    <3>1. /\ L + Window - 1 \in Int /\ i + Window - 1 \in Int /\ Size - 1 \in Int
          /\ Size - 1 <= L + Window - 1 /\ Size - 1 <= i + Window - 1
      BY <1>1, <1>3, <1>5, Constants
    <3>2. Min({Size - 1, L + Window - 1}) = Size - 1
      BY <3>1, OfTwo
    <3>3. Min({Size - 1, i + Window - 1}) = Size - 1
      BY <3>1, OfTwo
    <3> QED BY <3>2, <3>3
  <2>7. ~(i <= L)
    BY <1>1, <1>3, <1>5
  <2> QED BY <2>5, <2>6, <2>7
<1> QED BY <1>1, <1>3, <1>4, <1>5

-----------------------------------------------------------------------------
(* First gives the least of a set of indices, or None.                         *)
LEMMA FirstIs ==
  ASSUME NEW S \in SUBSET Nat
  PROVE  /\ First(S) = None => S = {}
         /\ First(S) # None => First(S) \in S /\ \A k \in S : First(S) <= k
<1>1. CASE S = {}
  BY <1>1 DEF First
<1>2. CASE S # {}
  <2>1. Min(S) \in S /\ Min(S) \in Nat /\ \A k \in S : Min(S) <= k
    BY <1>2, MinIsLeast
  <2> QED BY <1>2, <2>1 DEF First, None
<1> QED BY <1>1, <1>2

(* _first_sustained_low returns an index of its range from which the set holds *)
(* for the whole length, and there is no earlier one.                          *)
LEMMA FirstSustainedIs ==
  ASSUME NEW low, NEW length \in Nat, NEW from \in Nat, NEW limit \in Int,
         FirstSustained(low, length, from, limit) # None
  PROVE  LET c == FirstSustained(low, length, from, limit)
         IN /\ c \in Nat /\ from <= c /\ c <= limit /\ c + length <= Size
            /\ c .. c + length - 1 \subseteq low
<1> DEFINE S == {i \in from .. Min({limit, Size - length}) : i .. i + length - 1 \subseteq low}
<1>1. Size - length \in Int /\ Size \in Nat
  BY Constants
<1>2. /\ Min({limit, Size - length}) \in Int
      /\ Min({limit, Size - length}) <= limit /\ Min({limit, Size - length}) <= Size - length
  BY <1>1, OfTwo
<1>3. S \in SUBSET Nat
  BY <1>2
<1>4. First(S) \in S
  <2>1. First(S) # None
    BY DEF FirstSustained
  <2> HIDE DEF S
  <2> QED BY <1>3, <2>1, FirstIs
<1>5. /\ First(S) \in from .. Min({limit, Size - length})
      /\ First(S) .. First(S) + length - 1 \subseteq low
  BY <1>4
<1>6. First(S) = FirstSustained(low, length, from, limit)
  BY DEF FirstSustained
<1> HIDE DEF S
<1> QED BY <1>1, <1>2, <1>5, <1>6

(* It does not miss one.                                                       *)
LEMMA FirstSustainedFinds ==
  ASSUME NEW low, NEW length \in Nat, NEW from \in Nat, NEW limit \in Int,
         NEW j \in Nat, from <= j, j <= limit, j + length <= Size, j .. j + length - 1 \subseteq low
  PROVE  /\ FirstSustained(low, length, from, limit) # None
         /\ FirstSustained(low, length, from, limit) <= j
<1> DEFINE last == Min({limit, Size - length})
           S == {i \in from .. last : i .. i + length - 1 \subseteq low}
<1>1. last = IF limit <= Size - length THEN limit ELSE Size - length
  <2>1. Size - length \in Int
    BY Constants
  <2> QED BY <2>1, OfTwo
<1>2. last \in Int /\ j <= last
  <2> HIDE DEF last
  <2> QED BY <1>1, Constants
<1> HIDE DEF last
<1>3. j \in S /\ S \in SUBSET Nat
  BY <1>2
<1>4. FirstSustained(low, length, from, limit) = First(S)
  BY DEF FirstSustained, last
<1> HIDE DEF S
<1> QED BY <1>3, <1>4, FirstIs

(* _refine_end_index: whatever conducts before the collapse does so up to the  *)
(* end it returns, and it returns a sample above the residual floor, a quarter *)
(* cycle at most after the last one that conducts.                             *)
LEMMA RefineEndIs ==
  ASSUME NEW c \in Index, mag \in [Index -> Nat]
  PROVE  /\ RefineEnd(c) \in Nat
         /\ \A i \in 0 .. c - 1 : mag[i] >= Off => i <= RefineEnd(c)
         /\ (\E i \in 0 .. c - 1 : mag[i] >= Off) =>
              /\ RefineEnd(c) \in Index /\ mag[RefineEnd(c)] >= Floor
              /\ \E i \in 0 .. c - 1 : /\ mag[i] >= Off
                                       /\ i <= RefineEnd(c) /\ RefineEnd(c) <= i + Quarter
<1> DEFINE above == {i \in 0 .. c - 1 : mag[i] >= Off}
           crossing == Max(above)
           bound == Min({Size - 1, crossing + Quarter})
           residual == {i \in crossing .. bound : mag[i] >= Floor}
           r == IF above = {} THEN Max({0, c - 1})
                ELSE IF Floor >= Off THEN crossing ELSE Max(residual)
<1>1. r = RefineEnd(c)
  BY DEF RefineEnd
<1>2. c \in Nat /\ c <= Size - 1 /\ Size - 1 \in Int /\ Quarter \in Nat
  BY Constants DEF Index
<1>3. CASE above = {}
  <2>1. Max({0, c - 1}) \in Nat
    BY <1>2, OfTwo
  <2>2. \A i \in 0 .. c - 1 : ~(mag[i] >= Off)
    BY <1>3
  <2>3. r = Max({0, c - 1})
    BY <1>3
  <2> HIDE DEF r
  <2> QED BY <1>1, <2>1, <2>2, <2>3
<1>4. CASE above # {}
  <2>1. /\ crossing \in 0 .. c - 1 /\ mag[crossing] >= Off
        /\ \A i \in 0 .. c - 1 : mag[i] >= Off => i <= crossing
    <3>1. above \in SUBSET (0 .. c) /\ \A i \in above : i \in 0 .. c - 1 /\ mag[i] >= Off
      BY <1>2
    <3>2. crossing \in above /\ \A i \in above : i <= crossing
      <4> HIDE DEF above
      <4> QED BY <1>2, <1>4, <3>1, MaxIsGreatest
    <3>3. \A i \in 0 .. c - 1 : mag[i] >= Off => i \in above
      OBVIOUS
    <3> HIDE DEF above
    <3> QED BY <3>1, <3>2, <3>3
  <2>2. crossing \in Index /\ crossing \in Nat /\ mag[crossing] \in Nat
    BY <1>2, <2>1 DEF Index
  <2> HIDE DEF crossing
  <2>3. CASE Floor >= Off
    <3>1. r = crossing
      BY <1>4, <2>3
    <3>2. mag[crossing] >= Floor
      BY <2>1, <2>2, <2>3, Constants
    <3> HIDE DEF r
    <3> QED BY <1>1, <1>2, <2>1, <2>2, <3>1, <3>2
  <2>4. CASE ~(Floor >= Off)
    <3>1. /\ bound \in Int /\ crossing <= bound
          /\ bound <= Size - 1 /\ bound <= crossing + Quarter
      <4>1. crossing + Quarter \in Int /\ crossing <= Size - 1 /\ crossing <= crossing + Quarter
        BY <1>2, <2>2 DEF Index
      <4>2. bound = IF Size - 1 <= crossing + Quarter THEN Size - 1 ELSE crossing + Quarter
        BY <1>2, <4>1, OfTwo
      <4> HIDE DEF bound
      <4> QED BY <1>2, <4>1, <4>2
    <3> HIDE DEF bound
    <3>2. crossing \in residual
      BY <2>1, <2>2, <3>1, <2>4, Constants
    <3>3. residual \in SUBSET (0 .. Size - 1) /\ Size - 1 \in Nat
      BY <1>2, <2>2, <3>1, Constants
    <3>4. \A i \in residual : i \in crossing .. bound /\ mag[i] >= Floor
      OBVIOUS
    <3>5. Max(residual) \in residual
      <4> HIDE DEF residual
      <4> QED BY <3>2, <3>3, MaxIsGreatest
    <3>6. r = Max(residual)
      BY <1>4, <2>4
    <3> HIDE DEF r, residual
    <3>7. r \in Index /\ r \in Nat /\ crossing <= r /\ r <= crossing + Quarter /\ mag[r] >= Floor
      <4>1. r \in crossing .. bound /\ mag[r] >= Floor
        BY <3>4, <3>5, <3>6
      <4> QED BY <1>2, <2>2, <3>1, <4>1 DEF Index
    <3>8. \A i \in 0 .. c - 1 : mag[i] >= Off => i <= r
      BY <2>1, <2>2, <3>7
    <3> QED BY <1>1, <2>1, <2>2, <3>7, <3>8
  <2> QED BY <2>3, <2>4
<1> QED BY <1>3, <1>4

-----------------------------------------------------------------------------
Checks == {"no_pretrigger_leakage", "record_spans_no_trip_limit",
           "burst_starts_near_t0", "collapse_is_clean", "no_trip_persistent"}

(* Each quantity is what the one before it makes of it, from the action that   *)
(* derives it on; the record never changes.                                    *)
RecordOK   == mag \in [Index -> Nat]
OnsetOK    == onset \in Index \cup {None}
CollapseOK == pc \in {"collapse", "measured", "analysed"} =>
                collapse = IF onset = None THEN None ELSE Collapse(onset, Valid)
TripOK     == pc \in {"measured", "analysed"} =>
                trip = IF collapse = None THEN None ELSE Max({0, RefineEnd(collapse) - T0})
VerdictOK  == pc = "analysed" =>
                /\ sanity = {s \in Checks : Fails(s)}
                /\ verdict = Decide(trip) /\ outcome = Outcome(sanity, verdict)

AnalysisInv == RecordOK /\ EnvelopeExact /\ OnsetOK /\ CollapseOK /\ TripOK /\ VerdictOK

(* A captured record is an array of magnitudes. *)
LEMMA AnalysisInit == Init => AnalysisInv
<1> SUFFICES ASSUME Init PROVE AnalysisInv
  OBVIOUS
<1>1. RecordOK
  <2>1. PICK phase \in 0 .. Window - 1 : mag = Captured(flow, phase)
    BY DEF Init
  <2>2. ASSUME NEW i \in Index
        PROVE  (IF Flowing(flow, i) THEN Wave[(i + phase) % Window]
                ELSE IF i = flow.stray THEN Floor ELSE 0) \in Nat
    <3>1. i + phase \in Nat /\ Window \in Nat \ {0}
      BY Constants DEF Index
    <3>2. (i + phase) % Window \in 0 .. Window - 1
      BY <3>1, Z3
    <3>3. Wave \in [0 .. Window - 1 -> Nat]
      BY AnalysisAssumption
    <3>4. Wave[(i + phase) % Window] \in Nat
      BY <3>2, <3>3
    <3> QED BY <3>4, Constants
  <2> QED BY <2>1, <2>2 DEF RecordOK, Captured
<1>2. pc = "captured" /\ onset = None
  BY DEF Init
<1> QED BY <1>1, <1>2 DEF AnalysisInv, EnvelopeExact, OnsetOK, CollapseOK, TripOK, VerdictOK

(* The onset, found or refined, is a sample of the record.                     *)
LEMMA OnsetIsASample ==
  ASSUME OnsetOK
  PROVE  /\ BurstStart \in Index \cup {None}
         /\ RefineStart(onset) \in Index \cup {None}
<1>1. BurstStart \in Index \cup {None}
  <2> DEFINE S == {i \in Index :
                     /\ \E j \in Max({0, i - Window + 1}) .. i : mag[j] >= On
                     /\ 4 * Sum(mag, i, Min({i + Window - 1, Size - 1}))
                          >= On * (Min({i + Window - 1, Size - 1}) - i + 1)}
  <2>1. BurstStart = First(S)
    BY DEF BurstStart
  <2>2. S \in SUBSET Index /\ Index \in SUBSET Nat
    BY Constants DEF Index
  <2> HIDE DEF S
  <2>3. First(S) = None \/ First(S) \in S
    BY <2>2, FirstIs
  <2> QED BY <2>1, <2>2, <2>3
<1>2. RefineStart(onset) \in Index \cup {None}
  <2> DEFINE silent    == {i \in 0 .. onset : lead[i] < Floor}
             candidate == Min({onset, Max(silent) + Window})
             sounding  == {i \in Index : mag[i] >= Floor}
             found     == FirstSustained(sounding, Confirm, candidate, onset)
  <2>1. RefineStart(onset) = IF onset <= 0 \/ silent = {} \/ found = None THEN onset ELSE found
    BY DEF RefineStart
  <2>2. CASE onset <= 0 \/ silent = {} \/ found = None
    BY <2>1, <2>2 DEF OnsetOK
  <2>3. CASE ~(onset <= 0 \/ silent = {} \/ found = None)
    <3>1. onset \in Index /\ onset \in Nat /\ Confirm \in Nat
      BY <2>3, Constants, AnalysisAssumption DEF OnsetOK, None, Index
    <3>2. silent \in SUBSET (0 .. onset)
      OBVIOUS
    <3>3. Max(silent) \in 0 .. onset
      <4> HIDE DEF silent
      <4> QED BY <2>3, <3>1, <3>2, MaxIsGreatest
    <3> HIDE DEF silent
    <3>4. Max(silent) + Window \in Nat
      BY <3>1, <3>3, Constants
    <3>5. candidate \in Nat
      <4>1. ASSUME NEW m \in Nat PROVE Min({onset, m}) \in Nat
        <5>1. onset \in Int /\ m \in Int
          BY <3>1
        <5>2. Min({onset, m}) = IF onset <= m THEN onset ELSE m
          BY <5>1, OfTwo
        <5> QED BY <3>1, <5>2
      <4> QED BY <3>4, <4>1
    <3> HIDE DEF candidate, sounding
    <3>6. found \in Nat /\ candidate <= found /\ found <= onset
      BY <2>3, <3>1, <3>5, FirstSustainedIs
    <3>7. RefineStart(onset) = found
      BY <2>1, <2>3
    <3> HIDE DEF found
    <3> QED BY <3>1, <3>6, <3>7, Constants DEF Index
  <2> QED BY <2>2, <2>3
<1> QED BY <1>1, <1>2

(* The checks read the record, the onset and the collapse.                     *)
LEMMA ChecksFollowRecord ==
  ASSUME UNCHANGED <<mag, lead, onset, collapse>>
  PROVE  \A s \in Checks : Fails(s)' <=> Fails(s)
<1> SUFFICES ASSUME NEW s \in Checks PROVE Fails(s)' <=> Fails(s)
  OBVIOUS
<1>1. T0' = T0 /\ Valid' = Valid /\ Live' = Live
  BY DEF T0, Valid, Live
<1>2. NoPretriggerLeakage(T0)' <=> NoPretriggerLeakage(T0)
  <2>1. \A n : Quiet(n)' <=> Quiet(n)
    BY DEF Quiet
  <2> QED BY <1>1, <2>1 DEF NoPretriggerLeakage
<1> QED BY <1>1, <1>2 DEF Fails, Checks

(* Every step derives one quantity from those that stay as they are.           *)
LEMMA AnalysisStep == AnalysisInv /\ [Next]_vars => AnalysisInv'
<1> SUFFICES ASSUME AnalysisInv, [Next]_vars PROVE AnalysisInv'
  OBVIOUS
<1> USE DEF AnalysisInv, Step
<1>1. CASE ExtractEnvelope
  <2>1. UNCHANGED <<mag, onset>> /\ lead' = Envelope(mag) /\ pc' = "enveloped"
    BY <1>1 DEF ExtractEnvelope
  <2>2. lead' = [i \in Index |-> MaxOver(mag, i, Min({Size - 1, i + Window - 1}))]
    BY <2>1, EnvelopeIsMaximum DEF RecordOK
  <2>3. EnvelopeExact'
    BY <2>1, <2>2 DEF EnvelopeExact
  <2> QED BY <2>1, <2>3 DEF RecordOK, OnsetOK, CollapseOK, TripOK, VerdictOK
<1>2. CASE FindBurst
  <2>1. UNCHANGED <<mag, lead>> /\ onset' = BurstStart /\ pc = "enveloped" /\ pc' = "burst"
    BY <1>2 DEF FindBurst
  <2>2. BurstStart \in Index \cup {None}
    BY OnsetIsASample
  <2>3. EnvelopeExact'
    BY <2>1 DEF EnvelopeExact
  <2> QED BY <2>1, <2>2, <2>3 DEF RecordOK, OnsetOK, CollapseOK, TripOK, VerdictOK
<1>3. CASE RefineOnset
  <2>1. UNCHANGED <<mag, lead>> /\ onset' = RefineStart(onset) /\ pc = "burst" /\ pc' = "onset"
    BY <1>3 DEF RefineOnset
  <2>2. RefineStart(onset) \in Index \cup {None}
    BY OnsetIsASample
  <2>3. EnvelopeExact'
    BY <2>1 DEF EnvelopeExact
  <2> QED BY <2>1, <2>2, <2>3 DEF RecordOK, OnsetOK, CollapseOK, TripOK, VerdictOK
<1>4. CASE FindCollapse
  <2>1. /\ UNCHANGED <<mag, lead, onset>> /\ pc = "onset" /\ pc' = "collapse"
        /\ collapse' = IF onset = None THEN None ELSE Collapse(onset, Valid)
    BY <1>4 DEF FindCollapse
  <2>2. Collapse(onset, Valid)' = Collapse(onset, Valid)
    BY <2>1 DEF Collapse, Valid, T0
  <2>3. EnvelopeExact'
    BY <2>1 DEF EnvelopeExact
  <2> QED BY <2>1, <2>2, <2>3 DEF RecordOK, OnsetOK, CollapseOK, TripOK, VerdictOK
<1>5. CASE Measure
  <2>1. /\ UNCHANGED <<mag, lead, onset, collapse>> /\ pc = "collapse" /\ pc' = "measured"
        /\ trip' = IF collapse = None THEN None ELSE Max({0, RefineEnd(collapse) - T0})
    BY <1>5 DEF Measure
  <2>2. Collapse(onset, Valid)' = Collapse(onset, Valid)
    BY <2>1 DEF Collapse, Valid, T0
  <2>3. RefineEnd(collapse)' = RefineEnd(collapse) /\ T0' = T0
    BY <2>1 DEF RefineEnd, T0
  <2>4. EnvelopeExact'
    BY <2>1 DEF EnvelopeExact
  <2> QED BY <2>1, <2>2, <2>3, <2>4 DEF RecordOK, OnsetOK, CollapseOK, TripOK, VerdictOK
<1>6. CASE Judge
  <2>1. UNCHANGED <<mag, lead, onset, collapse, trip>> /\ pc = "measured" /\ pc' = "analysed"
    BY <1>6 DEF Judge
  <2>2. Collapse(onset, Valid)' = Collapse(onset, Valid)
    BY <2>1 DEF Collapse, Valid, T0
  <2>3. RefineEnd(collapse)' = RefineEnd(collapse) /\ T0' = T0
    BY <2>1 DEF RefineEnd, T0
  <2>4. EnvelopeExact'
    BY <2>1 DEF EnvelopeExact
  <2>5. VerdictOK'
    <3>1. /\ sanity' = {s \in Checks : Fails(s)}
          /\ verdict' = Decide(trip) /\ outcome' = Outcome(sanity', verdict')
      BY <1>6 DEF Judge, Checks
    <3>2. {s \in Checks : Fails(s)'} = {s \in Checks : Fails(s)}
      BY <2>1, ChecksFollowRecord
    <3> QED BY <2>1, <3>1, <3>2 DEF VerdictOK
  <2> QED BY <2>1, <2>2, <2>3, <2>4, <2>5 DEF RecordOK, OnsetOK, CollapseOK, TripOK
<1>7. CASE UNCHANGED vars
  <2>1. UNCHANGED <<mag, lead, pc, onset, collapse, trip, sanity, verdict, outcome>>
    BY <1>7 DEF vars
  <2>2. Collapse(onset, Valid)' = Collapse(onset, Valid)
    BY <2>1 DEF Collapse, Valid, T0
  <2>3. RefineEnd(collapse)' = RefineEnd(collapse) /\ T0' = T0
    BY <2>1 DEF RefineEnd, T0
  <2>4. EnvelopeExact'
    BY <2>1 DEF EnvelopeExact
  <2>5. VerdictOK'
    <3>1. {s \in Checks : Fails(s)'} = {s \in Checks : Fails(s)}
      BY <2>1, ChecksFollowRecord
    <3> QED BY <2>1, <3>1 DEF VerdictOK
  <2> QED BY <2>1, <2>2, <2>3, <2>4, <2>5 DEF RecordOK, OnsetOK, CollapseOK, TripOK
<1> QED BY <1>1, <1>2, <1>3, <1>4, <1>5, <1>6, <1>7 DEF Next

(* The analysis derives each quantity from the record as its layers say,       *)
(* whatever the record.                                                        *)
THEOREM AnalysisInvariant == Spec => []AnalysisInv
BY AnalysisInit, AnalysisStep, PTL DEF Spec

(* The block algorithm of sliding_max is exact for every record length and     *)
(* window, and the envelope stays what it computed.                            *)
THEOREM EnvelopeIsExact == Spec => []EnvelopeExact
<1>1. AnalysisInv => EnvelopeExact
  BY DEF AnalysisInv
<1> QED BY <1>1, AnalysisInvariant, PTL

-----------------------------------------------------------------------------
(* The envelope is no lower than any sample of its window.                     *)
LEMMA EnvelopeBounds ==
  ASSUME RecordOK, EnvelopeExact, pc # "captured",
         NEW i \in Index, NEW k \in Index, i <= k, k <= i + Window - 1
  PROVE  /\ mag[k] \in Nat /\ lead[i] \in Nat /\ mag[k] <= lead[i]
<1> DEFINE top == Min({Size - 1, i + Window - 1})
<1>1. lead[i] = MaxOver(mag, i, top)
  BY DEF EnvelopeExact
<1>2. Size - 1 \in Int /\ i + Window - 1 \in Int /\ i \in Nat /\ i <= Size - 1 /\ k <= Size - 1
  BY Constants DEF Index
<1>3. top = IF Size - 1 <= i + Window - 1 THEN Size - 1 ELSE i + Window - 1
  BY <1>2, OfTwo
<1> HIDE DEF top
<1>4. top \in Int /\ i <= top /\ top <= Size - 1 /\ k \in i .. top
  BY <1>2, <1>3, Constants
<1>5. \A m \in i .. top : mag[m] \in Nat
  BY <1>2, <1>4 DEF RecordOK, Index
<1>6. MaxOver(mag, i, top) \in Nat /\ \A m \in i .. top : mag[m] <= MaxOver(mag, i, top)
  BY <1>2, <1>4, <1>5, MaxOverIs
<1> QED BY <1>1, <1>4, <1>5, <1>6

(* The collapse is an index past the onset from which no sample conducts for a *)
(* mains cycle and the half cycle its last window looks ahead.                 *)
LEMMA CollapseIsSilent ==
  ASSUME AnalysisInv, pc \in {"measured", "analysed"}, collapse # None
  PROVE  /\ onset \in Index /\ collapse \in Index /\ onset <= collapse /\ T0 = onset
         /\ collapse <= Valid /\ collapse + Persistence <= Size
         /\ \A k \in Index : collapse <= k /\ k <= collapse + Persistence + Window - 2
                               => mag[k] < Off
<1> DEFINE low == {i \in Index : lead[i] < Off}
           c   == FirstSustained(low, Persistence, onset, Valid)
<1>1. onset # None /\ collapse = Collapse(onset, Valid) /\ onset \in Index /\ T0 = onset
  BY DEF AnalysisInv, CollapseOK, OnsetOK, T0
<1>2. c # 0 /\ collapse = c /\ c # None
  BY <1>1 DEF Collapse
<1>3. onset \in Nat /\ Persistence \in Nat /\ Persistence = 2 * Window /\ Valid \in Int
  <2>1. onset \in Int /\ Size - Window \in Int
    BY <1>1, Constants DEF Index
  <2>2. Valid = IF onset >= Size - Window THEN onset ELSE Size - Window
    BY <1>1, <2>1, OfTwo DEF Valid
  <2> QED BY <1>1, <2>1, <2>2, Constants DEF Persistence, Index
<1> HIDE DEF low
<1>4. /\ c \in Nat /\ onset <= c /\ c <= Valid /\ c + Persistence <= Size
      /\ c .. c + Persistence - 1 \subseteq low
  BY <1>2, <1>3, FirstSustainedIs
<1> HIDE DEF c
<1>5. collapse \in Index
  BY <1>2, <1>3, <1>4, Constants DEF Index
<1>6. ASSUME NEW k \in Index, collapse <= k, k <= collapse + Persistence + Window - 2
      PROVE  mag[k] < Off
  <2>1. PICK i \in collapse .. collapse + Persistence - 1 : i <= k /\ k <= i + Window - 1
    <3>1. k \in Int /\ collapse \in Nat
      BY <1>2, <1>4 DEF Index
    <3>2. CASE k <= collapse + Persistence - 1
      <4>1. k \in collapse .. collapse + Persistence - 1 /\ k <= k /\ k <= k + Window - 1
        BY <1>3, <1>6, <3>1, <3>2, Constants
      <4> QED BY <4>1
    <3>3. CASE k > collapse + Persistence - 1
      <4> DEFINE e == collapse + Persistence - 1
      <4>1. e \in collapse .. collapse + Persistence - 1 /\ e <= k /\ k <= e + Window - 1
        BY <1>3, <1>6, <3>1, <3>3, Constants
      <4> QED BY <4>1
    <3> QED BY <1>3, <3>1, <3>2, <3>3
  <2>2. i \in Index /\ lead[i] < Off
    BY <1>2, <1>4, <2>1 DEF low
  <2>3. mag[k] \in Nat /\ lead[i] \in Nat /\ mag[k] <= lead[i]
    BY <2>1, <2>2, EnvelopeBounds DEF AnalysisInv
  <2> QED BY <2>2, <2>3, Constants
<1> QED BY <1>1, <1>2, <1>4, <1>5, <1>6

(* The trip time reaches every sample that conducts before the collapse.       *)
LEMMA TripReaches ==
  ASSUME AnalysisInv, pc \in {"measured", "analysed"}, collapse # None
  PROVE  /\ trip \in Nat /\ RefineEnd(collapse) \in Nat
         /\ trip = IF RefineEnd(collapse) >= onset THEN RefineEnd(collapse) - onset ELSE 0
         /\ \A i \in Index : i < collapse /\ mag[i] >= Off => i <= onset + trip
<1>1. onset \in Index /\ onset \in Nat /\ collapse \in Index /\ T0 = onset /\ collapse \in Nat
  BY CollapseIsSilent, Constants DEF Index
<1>2. /\ RefineEnd(collapse) \in Nat
      /\ \A i \in 0 .. collapse - 1 : mag[i] >= Off => i <= RefineEnd(collapse)
  BY <1>1, RefineEndIs DEF AnalysisInv, RecordOK
<1>3. trip = Max({0, RefineEnd(collapse) - onset})
  BY <1>1 DEF AnalysisInv, TripOK
<1>4. trip = IF RefineEnd(collapse) >= onset THEN RefineEnd(collapse) - onset ELSE 0
  <2>1. RefineEnd(collapse) - onset \in Int
    BY <1>1, <1>2
  <2>2. trip = IF 0 >= RefineEnd(collapse) - onset THEN 0 ELSE RefineEnd(collapse) - onset
    BY <1>3, <2>1, OfTwo
  <2> QED BY <1>1, <1>2, <2>2
<1>5. \A i \in Index : i < collapse /\ mag[i] >= Off => i \in 0 .. collapse - 1
  BY <1>1, Constants DEF Index
<1>6. \A i \in Index : i < collapse /\ mag[i] >= Off => i <= onset + trip
  BY <1>1, <1>2, <1>4, <1>5 DEF Index
<1> QED BY <1>1, <1>2, <1>4, <1>6

(* The measured trip time is where the current stops: no sample conducts past  *)
(* it, up to the end of the silence that confirms the collapse, it ends on a   *)
(* sample above the residual floor, and one conducted a quarter cycle before   *)
(* it at most.                                                                 *)
TripEndsTheCurrent ==
  Analysed /\ trip # None =>
    /\ \A k \in Index :
         onset + trip < k /\ k <= collapse + Persistence + Window - 2 => mag[k] < Off
    /\ trip > 0 /\ (\E i \in 0 .. collapse - 1 : mag[i] >= Off) =>
         /\ mag[onset + trip] >= Floor
         /\ \E i \in onset + trip - Quarter .. onset + trip : mag[i] >= Off

(* The current that lasts, interrupted for less than the silence of a          *)
(* collapse, up to sample i.                                                   *)
LastsUntil(i) ==
  /\ mag[i] >= Off
  /\ \A j \in onset .. i : \E k \in Index :
       k \in j .. j + Persistence + Window - 2 /\ mag[k] >= Off

(* Current that lasts for the no-trip limit, less its uncertainty, halts the   *)
(* campaign: whatever its shape, no earlier end is measured.                   *)
LastingCurrentHalts ==
  Analysed => \A i \in Index :
    LastsUntil(i) /\ i - onset >= NoTripLimit - Uncertainty => outcome \in {"NO_TRIP", "RIG_FAULT"}

(* A trip time stands for the end of the current, in any record.               *)
THEOREM TripTimeEndsTheCurrent == Spec => []TripEndsTheCurrent
<1>1. AnalysisInv => TripEndsTheCurrent
  <2> SUFFICES ASSUME AnalysisInv, Analysed, trip # None
               PROVE  /\ \A k \in Index : onset + trip < k
                            /\ k <= collapse + Persistence + Window - 2 => mag[k] < Off
                      /\ trip > 0 /\ (\E i \in 0 .. collapse - 1 : mag[i] >= Off) =>
                           /\ mag[onset + trip] >= Floor
                           /\ \E i \in onset + trip - Quarter .. onset + trip : mag[i] >= Off
    BY DEF TripEndsTheCurrent
  <2>1. pc = "analysed" /\ collapse # None
    BY DEF Analysed, AnalysisInv, TripOK
  <2>2. /\ onset \in Index /\ collapse \in Index /\ onset \in Nat /\ collapse \in Nat
        /\ \A k \in Index : collapse <= k /\ k <= collapse + Persistence + Window - 2
                               => mag[k] < Off
    BY <2>1, CollapseIsSilent, Constants DEF Index
  <2>3. /\ trip \in Nat /\ RefineEnd(collapse) \in Nat
        /\ trip = IF RefineEnd(collapse) >= onset THEN RefineEnd(collapse) - onset ELSE 0
        /\ \A i \in Index : i < collapse /\ mag[i] >= Off => i <= onset + trip
    BY <2>1, TripReaches
  <2>4. ASSUME NEW k \in Index, onset + trip < k, k <= collapse + Persistence + Window - 2
        PROVE  mag[k] < Off
    <3>1. mag[k] \in Nat /\ k \in Nat
      BY Constants DEF AnalysisInv, RecordOK, Index
    <3>2. CASE k < collapse
      <4>1. ~(mag[k] >= Off)
        BY <2>2, <2>3, <2>4, <3>1, <3>2
      <4> QED BY <3>1, <4>1, Constants
    <3>3. CASE collapse <= k
      BY <2>2, <2>4, <3>3
    <3> QED BY <2>2, <3>1, <3>2, <3>3
  <2>5. ASSUME trip > 0, \E i \in 0 .. collapse - 1 : mag[i] >= Off
        PROVE  /\ mag[onset + trip] >= Floor
               /\ \E i \in onset + trip - Quarter .. onset + trip : mag[i] >= Off
    <3>1. /\ RefineEnd(collapse) \in Index /\ mag[RefineEnd(collapse)] >= Floor
          /\ \E i \in 0 .. collapse - 1 : /\ mag[i] >= Off /\ i <= RefineEnd(collapse)
                                          /\ RefineEnd(collapse) <= i + Quarter
      BY <2>2, <2>5, RefineEndIs DEF AnalysisInv, RecordOK
    <3>2. onset + trip = RefineEnd(collapse)
      BY <2>2, <2>3, <2>5
    <3>3. PICK i \in 0 .. collapse - 1 : /\ mag[i] >= Off /\ i <= RefineEnd(collapse)
                                         /\ RefineEnd(collapse) <= i + Quarter
      BY <3>1
    <3>4. i \in onset + trip - Quarter .. onset + trip
      BY <2>2, <2>3, <3>2, <3>3, Constants
    <3> QED BY <3>1, <3>2, <3>3, <3>4
  <2> QED BY <2>4, <2>5
<1> QED BY <1>1, AnalysisInvariant, PTL

(* What _decide makes of a trip time, without its half samples.                *)
LEMMA DecideIs ==
  ASSUME NEW t \in Nat
  PROVE  /\ t >= NoTripLimit - Uncertainty => Decide(t) = "NO_TRIP"
         /\ Decide(t) = "PASS" => t <= PassLimit
BY Constants DEF Decide, None

(* The trip time reaches as far as the current lasts.                          *)
LEMMA LastingIsMeasured ==
  ASSUME AnalysisInv, pc \in {"measured", "analysed"}, collapse # None,
         NEW i \in Index, LastsUntil(i)
  PROVE  i < collapse /\ trip \in Nat /\ i <= onset + trip
<1>1. /\ onset \in Index /\ collapse \in Index /\ onset <= collapse
      /\ \A k \in Index : collapse <= k /\ k <= collapse + Persistence + Window - 2
                             => mag[k] < Off
  BY CollapseIsSilent
<1>2. i \in Nat /\ onset \in Nat /\ collapse \in Nat
  BY <1>1, Constants DEF Index
<1>3. i < collapse
  <2> SUFFICES ASSUME collapse <= i PROVE FALSE
    BY <1>2
  <2>1. collapse \in onset .. i
    BY <1>1, <1>2
  <2>2. PICK k \in Index : k \in collapse .. collapse + Persistence + Window - 2 /\ mag[k] >= Off
    BY <2>1 DEF LastsUntil
  <2>3. mag[k] < Off /\ mag[k] \in Nat
    BY <1>1, <1>2, <2>2 DEF AnalysisInv, RecordOK
  <2> QED BY <2>2, <2>3, Constants
<1>4. trip \in Nat /\ i <= onset + trip
  BY <1>3, TripReaches DEF LastsUntil
<1> QED BY <1>3, <1>4

(* The fail-safe half of the verdict table, for any record.                    *)
THEOREM LastingCurrentNeverGoesOn == Spec => []LastingCurrentHalts
<1>1. AnalysisInv => LastingCurrentHalts
  <2> SUFFICES ASSUME AnalysisInv, Analysed, NEW i \in Index, LastsUntil(i),
                      i - onset >= NoTripLimit - Uncertainty
               PROVE  outcome \in {"NO_TRIP", "RIG_FAULT"}
    BY DEF LastingCurrentHalts
  <2>1. pc = "analysed" /\ verdict = Decide(trip) /\ outcome = Outcome(sanity, verdict)
    BY DEF Analysed, AnalysisInv, VerdictOK
  <2>2. SUFFICES ASSUME trip # None PROVE Decide(trip) = "NO_TRIP"
    BY <2>1, <2>2 DEF Outcome, Decide
  <2>3. collapse # None
    BY <2>1, <2>2 DEF AnalysisInv, TripOK
  <2>4. trip \in Nat /\ i <= onset + trip
    BY <2>1, <2>3, LastingIsMeasured
  <2>5. i \in Nat /\ onset \in Nat
    <3>1. onset \in Index
      BY <2>1, <2>3, CollapseIsSilent
    <3> QED BY <3>1, Constants DEF Index
  <2>6. trip >= NoTripLimit - Uncertainty
    BY <2>4, <2>5, Constants
  <2> QED BY <2>4, <2>6, DecideIs
<1> QED BY <1>1, AnalysisInvariant, PTL

(* The half of PassIsEarned that lies beyond the pass limit, for any record:   *)
(* up to the collapse the trip time reaches it, within the valid windows it    *)
(* would be a reignition, and the last valid window sees what follows them.    *)
THEOREM NothingFollowsAPass == Spec => []NothingAfterPass
<1>1. AnalysisInv => NothingAfterPass
  <2> SUFFICES ASSUME AnalysisInv, Analysed, outcome = "PASS", "collapse_is_clean" \notin sanity,
                      NEW i \in 0 .. Size - 2, mag[i] >= On
               PROVE  i <= onset + PassLimit
    BY DEF NothingAfterPass
  <2>1. pc = "analysed" /\ verdict = Decide(trip) /\ outcome = Outcome(sanity, verdict)
    BY DEF Analysed, AnalysisInv, VerdictOK
  <2>2. Decide(trip) = "PASS" /\ trip # None
    BY <2>1 DEF Outcome, Decide
  <2>3. collapse # None
    BY <2>1, <2>2 DEF AnalysisInv, TripOK
  <2>4. /\ onset \in Index /\ collapse \in Index /\ onset <= collapse /\ T0 = onset
        /\ collapse <= Valid /\ collapse + Persistence <= Size
    BY <2>1, <2>3, CollapseIsSilent
  <2>5. /\ i \in Index /\ i \in Nat /\ i <= Size - 2 /\ onset \in Nat /\ collapse \in Nat
        /\ mag[i] \in Nat /\ Persistence = 2 * Window
    BY <2>4, Constants DEF Index, AnalysisInv, RecordOK, Persistence
  <2>6. i < collapse => i <= onset + trip
    <3>1. mag[i] >= Off
      BY <2>5, Constants
    <3> QED BY <2>1, <2>3, <2>5, <3>1, TripReaches
  <2>7. trip \in Nat /\ trip <= PassLimit
    BY <2>1, <2>2, <2>3, TripReaches, DecideIs
  <2>8. Valid = Size - Window /\ collapse < Valid /\ Valid \in Nat /\ Valid > onset
    <3>1. Size - Window \in Int /\ onset < Size - Window /\ collapse < Size - Window
      BY <2>4, <2>5, Constants
    <3>2. Valid = Size - Window
      BY <2>4, <2>5, <3>1, OfTwo DEF Valid
    <3> QED BY <2>5, <3>1, <3>2
  <2>9. \A l \in Index : collapse <= l /\ l < Valid => ~(lead[l] >= On)
    <3>1. ~Fails("collapse_is_clean")
      BY <2>1 DEF AnalysisInv, VerdictOK, Checks
    <3>2. \A l \in Live : ~(l >= collapse)
      BY <2>3, <3>1 DEF Fails
    <3> QED BY <2>4, <2>5, <2>8, <3>2 DEF Live, Index
  <2>10. i < collapse
    <3> SUFFICES ASSUME collapse <= i PROVE FALSE
      BY <2>5
    <3>1. PICK l \in Index : collapse <= l /\ l < Valid /\ l <= i /\ i <= l + Window - 1
      <4>1. CASE i < Valid
        <5>1. i <= i /\ i <= i + Window - 1
          BY <2>5, Constants
        <5> QED BY <2>5, <4>1, <5>1
      <4>2. CASE Valid <= i
        <5> DEFINE l == Valid - 1
        <5>1. l \in Index /\ collapse <= l /\ l < Valid /\ l <= i /\ i <= l + Window - 1
          BY <2>5, <2>8, <4>2, Constants DEF Index
        <5> QED BY <5>1
      <4> QED BY <2>5, <2>8, <4>1, <4>2
    <3>2. lead[l] \in Nat /\ mag[i] <= lead[l]
      BY <2>1, <2>5, <3>1, EnvelopeBounds DEF AnalysisInv
    <3> QED BY <2>5, <2>9, <3>1, <3>2, Constants
  <2> QED BY <2>5, <2>6, <2>7, <2>10, Constants
<1> QED BY <1>1, AnalysisInvariant, PTL

-----------------------------------------------------------------------------
(* The record stays the one captured, and the onset is the refined burst.      *)
RecordIs == flow \in Flows /\ \E p \in Phases : mag = Captured(flow, p)
OnsetIs  == /\ pc = "burst" => onset = BurstStart
            /\ pc \in {"onset", "collapse", "measured", "analysed"} =>
                 onset = RefineStart(BurstStart)

(* They hold from the capture on.                                              *)
LEMMA RecordInvariance == Spec => [](AnalysisInv /\ RecordIs /\ OnsetIs)
<1>1. Init => RecordIs /\ OnsetIs
  BY DEF Init, RecordIs, OnsetIs, Phases
<1>2. RecordIs /\ OnsetIs /\ [Next]_vars => RecordIs' /\ OnsetIs'
  <2> SUFFICES ASSUME RecordIs, OnsetIs, [Next]_vars PROVE RecordIs' /\ OnsetIs'
    OBVIOUS
  <2>1. UNCHANGED <<flow, mag>>
    BY DEF Next, vars, ExtractEnvelope, FindBurst, RefineOnset, FindCollapse, Measure, Judge
  <2>2. RecordIs' /\ BurstStart' = BurstStart
    BY <2>1 DEF RecordIs, BurstStart
  <2>3. CASE ExtractEnvelope
    BY <2>2, <2>3 DEF ExtractEnvelope, Step, OnsetIs
  <2>4. CASE FindBurst
    BY <2>2, <2>4 DEF FindBurst, Step, OnsetIs
  <2>5. CASE RefineOnset
    <3>1. lead' = lead
      BY <2>5 DEF RefineOnset
    <3>2. RefineStart(BurstStart)' = RefineStart(BurstStart)
      BY <2>1, <2>2, <3>1 DEF RefineStart
    <3> QED BY <2>2, <2>5, <3>2 DEF RefineOnset, Step, OnsetIs
  <2>6. CASE FindCollapse \/ Measure \/ Judge \/ UNCHANGED vars
    <3>1. UNCHANGED <<lead, onset>>
      BY <2>6 DEF FindCollapse, Measure, Judge, vars
    <3>2. RefineStart(BurstStart)' = RefineStart(BurstStart)
      BY <2>1, <2>2, <3>1 DEF RefineStart
    <3>3. \/ pc' = pc
          \/ {pc, pc'} \subseteq {"onset", "collapse", "measured", "analysed"}
      BY <2>6 DEF FindCollapse, Measure, Judge, vars, Step
    <3> QED BY <2>2, <3>1, <3>2, <3>3 DEF OnsetIs
  <2> QED BY <2>3, <2>4, <2>5, <2>6 DEF Next
<1> QED BY <1>1, <1>2, AnalysisInvariant, PTL DEF Spec

-----------------------------------------------------------------------------
(* The sizes, relative to the half cycle.                                      *)
LEMMA Sizes ==
  /\ Quarter \in Nat \ {0} /\ Quarter < Window /\ Window \in Nat /\ Persistence = 2 * Window
  /\ 2 * Window < Pretrigger /\ Pretrigger < Size /\ Size \in Nat /\ Pretrigger \in Nat
  /\ Index = 0 .. Size - 1 /\ Confirm \in Nat \ {0}
<1>1. Window \in Nat \ {0} /\ Quarter > 0 /\ {Size, Pretrigger, Confirm} \subseteq Nat \ {0}
      /\ 2 * Window < Pretrigger /\ Pretrigger < Size
  BY AnalysisAssumption DEF Guard
<1>2. Quarter \in Nat /\ Quarter < Window
  BY <1>1 DEF Quarter
<1> QED BY <1>1, <1>2 DEF Persistence, Index

(* A phase later is a sample later.                                            *)
LEMMA LaterPhase ==
  ASSUME NEW u \in Nat, NEW i \in Nat, NEW p \in Nat
  PROVE  /\ (u + p) % Window \in Phases
         /\ (i + ((u + p) % Window)) % Window = ((u + i) + p) % Window
<1> DEFINE x == u + p
           r == x % Window
           q == x \div Window
<1>1. x \in Nat /\ r \in 0 .. Window - 1 /\ q \in Nat /\ x = q * Window + r
  <2>1. x \in Nat
    OBVIOUS
  <2> HIDE DEF x
  <2>2. r \in 0 .. Window - 1
    BY <2>1, Constants, Z3
  <2>3. q \in Nat /\ x = q * Window + r
    BY <2>1, Constants, SMTT(30)
  <2> QED BY <2>1, <2>2, <2>3
<1> HIDE DEF r, q
<1> DEFINE y == i + r
           s == y % Window
           t == y \div Window
<1>2. y \in Nat /\ s \in 0 .. Window - 1 /\ t \in Nat /\ y = t * Window + s
  <2>1. y \in Nat
    BY <1>1
  <2> HIDE DEF y
  <2>2. s \in 0 .. Window - 1
    BY <2>1, Constants, Z3
  <2>3. t \in Nat /\ y = t * Window + s
    BY <2>1, Constants, SMTT(30)
  <2> QED BY <2>1, <2>2, <2>3
<1> HIDE DEF s, t
<1>3. (u + i) + p = (q + t) * Window + s
  <2>1. (q + t) * Window = q * Window + t * Window /\ q * Window \in Nat /\ t * Window \in Nat
    BY <1>1, <1>2, Constants
  <2>2. (u + i) + p = x + i /\ y = i + r
    OBVIOUS
  <2> HIDE DEF x, y
  <2> QED BY <1>1, <1>2, <2>1, <2>2
<1>4. ((u + i) + p) % Window = s
  <2> DEFINE z == (u + i) + p
             v == q + t
  <2>1. z \in Nat /\ v \in Nat /\ z = v * Window + s
    BY <1>1, <1>2, <1>3
  <2> HIDE DEF z, v
  <2>2. z % Window = s
    BY <1>2, <2>1, Constants, Z3T(30)
  <2> QED BY <2>2 DEF z
<1> QED BY <1>1, <1>4 DEF Phases, r, s

(* Every sample is of the wave, of the stray sample or zero; only the wave     *)
(* conducts.                                                                   *)
LEMMA SampleIs ==
  ASSUME NEW f, NEW p \in Phases, NEW i \in Index
  PROVE  LET m == Captured(f, p)[i]
         IN /\ m \in Nat
            /\ Flowing(f, i) => m = Steady(p)[i]
            /\ ~Flowing(f, i) => m = (IF i = f.stray THEN Floor ELSE 0) /\ m < On
            /\ ~Flowing(f, i) /\ m >= Floor => i = f.stray
            /\ ~Flowing(f, i) /\ m >= Off => i = f.stray /\ Off = Floor
<1>1. (i + p) % Window \in 0 .. Window - 1
  <2>1. i + p \in Nat
    BY Constants DEF Index, Phases
  <2> QED BY <2>1, Constants, Z3
<1>2. Wave[(i + p) % Window] \in Nat
  BY <1>1, AnalysisAssumption
<1>3. Off < On /\ Floor < On /\ Off >= 1 /\ Floor >= 1
  <2>1. Floor \in Nat \ {0} /\ Off \in Nat \ {0} /\ On \in Nat \ {0} /\ 5 * Off <= 4 * On /\ Floor <= Off
    BY AnalysisAssumption
  <2> QED BY <2>1
<1>4. Captured(f, p)[i] = IF Flowing(f, i) THEN Wave[(i + p) % Window]
                          ELSE IF i = f.stray THEN Floor ELSE 0
  BY DEF Captured
<1>5. Steady(p)[i] = Wave[(i + p) % Window]
  BY DEF Steady
<1> QED BY <1>2, <1>3, <1>4, <1>5, Constants

(* Within a burst the record is the wave, from any sample u of it on.          *)
LEMMA BurstIsSteady ==
  ASSUME NEW f, NEW p \in Phases, NEW u \in Nat, NEW i \in Nat, u + i \in Index, Flowing(f, u + i)
  PROVE  /\ (u + p) % Window \in Phases
         /\ Steady((u + p) % Window)[i] \in Nat
         /\ Captured(f, p)[u + i] = Steady((u + p) % Window)[i]
<1> DEFINE q == (u + p) % Window
<1>1. p \in Nat /\ i \in Index
  BY Constants DEF Phases, Index
<1>2. q \in Phases /\ (i + q) % Window = ((u + i) + p) % Window
  BY <1>1, LaterPhase
<1>3. Steady(p)[u + i] = Wave[((u + i) + p) % Window] /\ Steady(q)[i] = Wave[(i + q) % Window]
  BY <1>1 DEF Steady
<1> HIDE DEF q
<1>4. Captured(f, p)[u + i] = Steady(p)[u + i] /\ Captured(f, p)[u + i] \in Nat
  BY SampleIs
<1> QED BY <1>2, <1>3, <1>4 DEF q

(* _refine_start_index never moves the onset later, and earlier only to a run  *)
(* of samples above the residual floor, a half cycle or more after the last    *)
(* silent window: the first such run.                                          *)
LEMMA RefineStartIs ==
  ASSUME NEW burst \in Index
  PROVE  LET silent == {i \in 0 .. burst : lead[i] < Floor}
             r      == RefineStart(burst)
         IN /\ r \in Nat /\ r <= burst
            /\ r < burst =>
                 /\ silent # {} /\ Max(silent) + Window <= r
                 /\ \A m \in r .. r + Confirm - 1 : m \in Index /\ mag[m] >= Floor
            /\ silent # {} /\ burst > 0 =>
                 /\ Max(silent) \in silent /\ (\A z \in silent : z <= Max(silent))
                 /\ \A j \in 0 .. burst :
                      /\ burst <= j \/ Max(silent) + Window <= j
                      /\ j + Confirm <= Size
                      /\ \A m \in j .. j + Confirm - 1 : mag[m] >= Floor
                      => r <= j
<1> DEFINE silent    == {i \in 0 .. burst : lead[i] < Floor}
           top       == Max(silent)
           candidate == Min({burst, top + Window})
           sounding  == {i \in Index : mag[i] >= Floor}
           found     == FirstSustained(sounding, Confirm, candidate, burst)
           r         == IF burst <= 0 \/ silent = {} \/ found = None THEN burst ELSE found
<1>1. r = RefineStart(burst)
  BY DEF RefineStart
<1>2. burst \in Nat /\ burst <= Size - 1 /\ Size \in Nat /\ Confirm \in Nat \ {0} /\ Index = 0 .. Size - 1
  BY Constants, AnalysisAssumption DEF Index
<1>3. CASE burst <= 0 \/ silent = {}
  <2>1. r = burst
    BY <1>3
  <2>2. ~(silent # {} /\ burst > 0)
    BY <1>2, <1>3
  <2> HIDE DEF r
  <2> QED BY <1>1, <1>2, <2>1, <2>2
<1>4. CASE burst > 0 /\ silent # {}
  <2>1. top \in silent /\ \A z \in silent : z <= top
    <3>1. silent \in SUBSET (0 .. burst)
      OBVIOUS
    <3> HIDE DEF silent
    <3> QED BY <1>2, <1>4, <3>1, MaxIsGreatest
  <2>2. top \in 0 .. burst
    BY <2>1
  <2> HIDE DEF silent, top
  <2>3. /\ candidate \in Nat /\ candidate <= burst
        /\ candidate = IF burst <= top + Window THEN burst ELSE top + Window
    <3>1. top + Window \in Nat /\ burst \in Int /\ top + Window \in Int
      BY <1>2, <2>2, Constants
    <3>2. candidate = IF burst <= top + Window THEN burst ELSE top + Window
      BY <3>1, OfTwo
    <3> HIDE DEF candidate
    <3> QED BY <1>2, <3>1, <3>2
  <2>4. r = IF found = None THEN burst ELSE found
    BY <1>2, <1>4
  <2>5. ASSUME found # None
        PROVE  /\ found \in Nat /\ candidate <= found /\ found <= burst
               /\ \A m \in found .. found + Confirm - 1 : m \in Index /\ mag[m] >= Floor
    <3> HIDE DEF sounding, candidate
    <3>1. /\ found \in Nat /\ candidate <= found /\ found <= burst
          /\ found .. found + Confirm - 1 \subseteq sounding
      BY <1>2, <2>3, <2>5, FirstSustainedIs
    <3> QED BY <3>1 DEF sounding
  <2>6. ASSUME NEW j \in 0 .. burst, burst <= j \/ top + Window <= j, j + Confirm <= Size,
               \A m \in j .. j + Confirm - 1 : mag[m] >= Floor
        PROVE  found # None /\ found <= j
    <3>1. j \in Nat /\ burst \in Int /\ candidate <= j /\ j <= burst
      BY <1>2, <2>2, <2>3, <2>6, Constants
    <3>2. j .. j + Confirm - 1 \subseteq sounding
      BY <1>2, <2>6
    <3> HIDE DEF candidate, sounding
    <3> QED BY <1>2, <2>3, <2>6, <3>1, <3>2, FirstSustainedFinds
  <2> HIDE DEF candidate, found
  <2>7. r \in Nat /\ r <= burst
    BY <1>2, <2>4, <2>5
  <2>8. r < burst => /\ top + Window <= r
                     /\ \A m \in r .. r + Confirm - 1 : m \in Index /\ mag[m] >= Floor
    <3>1. CASE found = None
      <4>1. r = burst
        BY <2>4, <3>1
      <4> QED BY <1>2, <4>1
    <3>2. CASE found # None
      <4>1. r = found
        BY <2>4, <3>2
      <4>2. candidate <= found /\ top + Window \in Int /\ found \in Nat
        BY <2>2, <2>5, <3>2, Constants
      <4>3. found < burst => top + Window <= found
        BY <1>2, <2>3, <4>2
      <4> HIDE DEF r
      <4> QED BY <2>5, <3>2, <4>1, <4>3
    <3> QED BY <3>1, <3>2
  <2>9. \A j \in 0 .. burst :
           /\ burst <= j \/ top + Window <= j
           /\ j + Confirm <= Size
           /\ \A m \in j .. j + Confirm - 1 : mag[m] >= Floor
           => r <= j
    BY <2>4, <2>6
  <2> HIDE DEF r
  <2> QED BY <1>1, <1>4, <2>1, <2>7, <2>8, <2>9 DEF silent, top
<1> QED BY <1>2, <1>3, <1>4

(* What _find_burst_start looks for, of which it returns the first.            *)
StartsBurst(i) ==
  LET ahead == Min({i + Window - 1, Size - 1}) IN
  /\ \E j \in Max({0, i - Window + 1}) .. i : mag[j] >= On
  /\ 4 * Sum(mag, i, ahead) >= On * (ahead - i + 1)

(* There is none before it.                                                    *)
LEMMA BurstIs ==
  /\ BurstStart = None => \A i \in Index : ~StartsBurst(i)
  /\ BurstStart # None =>
       /\ BurstStart \in Index /\ StartsBurst(BurstStart)
       /\ \A i \in Index : StartsBurst(i) => BurstStart <= i
<1> DEFINE S == {i \in Index : StartsBurst(i)}
<1>1. BurstStart = First(S)
  BY DEF BurstStart, StartsBurst
<1>2. S \in SUBSET Nat
  BY Constants DEF Index
<1>3. /\ First(S) = None => S = {}
      /\ First(S) # None => First(S) \in S /\ \A k \in S : First(S) <= k
  <2> HIDE DEF S
  <2> QED BY <1>2, FirstIs
<1> QED BY <1>1, <1>3

(* A sample that conducts a half cycle or more before the end starts a burst   *)
(* if the half cycle from it on carries the energy.                            *)
LEMMA StartsHere ==
  ASSUME NEW k \in Index, k + Window <= Size, mag[k] >= On, 4 * Sum(mag, k, k + Window - 1) >= On * Window
  PROVE  StartsBurst(k)
<1>1. k \in Nat /\ Size \in Nat /\ Window \in Nat /\ k + Window - 1 \in Int /\ Size - 1 \in Int
  BY Constants DEF Index
<1>2. Min({k + Window - 1, Size - 1}) = k + Window - 1
  <2>1. k + Window - 1 <= Size - 1
    BY <1>1
  <2> QED BY <1>1, <2>1, OfTwo
<1>3. k \in Max({0, k - Window + 1}) .. k
  <2>1. k - Window + 1 \in Int /\ 0 \in Int
    BY <1>1
  <2>2. Max({0, k - Window + 1}) = IF 0 >= k - Window + 1 THEN 0 ELSE k - Window + 1
    BY <2>1, OfTwo
  <2> QED BY <1>1, <2>2, Constants
<1>4. (k + Window - 1) - k + 1 = Window
  BY <1>1
<1> QED BY <1>2, <1>3, <1>4 DEF StartsBurst

-----------------------------------------------------------------------------
(* The first sample of an interval of current that conducts starts a burst:    *)
(* the n samples around it that the interval holds carry the energy.           *)
LEMMA FirstOfInterval ==
  ASSUME NEW n \in 1 .. Window, CurrentsBurst(n),
         NEW f, NEW p \in Phases, mag = Captured(f, p),
         NEW s \in Nat, NEW e \in Nat, e <= Size, s + n <= e \/ e = Size,
         \A i \in s .. e - 1 : Flowing(f, i),
         NEW k \in s .. e - 1, mag[k] >= On, k + Persistence <= Size,
         \A j \in s .. k - 1 : mag[j] < On
  PROVE  k \in Index /\ StartsBurst(k)
<1>1. /\ k \in Nat /\ k \in Index /\ k + Window + Window <= Size
      /\ Index = 0 .. Size - 1 /\ Size \in Nat /\ n \in Nat /\ 1 <= n /\ n <= Window /\ Window \in Nat
  BY Constants DEF Index, Persistence
<1> DEFINE u == IF k + n <= e THEN k ELSE e - n
           q == (u + p) % Window
           l == k - u
<1>2. u \in Nat /\ s <= u /\ u <= k /\ u + n <= e /\ k < u + n
  BY <1>1
<1>3. l \in 0 .. n - 1 /\ u + l = k
  BY <1>1, <1>2
<1> HIDE DEF u, l
<1>4. ASSUME NEW i \in 0 .. n - 1
      PROVE  /\ u + i \in Index /\ i \in Nat
             /\ q \in Phases /\ Steady(q)[i] \in Nat /\ mag[u + i] = Steady(q)[i]
  <2>1. u + i \in Index /\ u + i \in s .. e - 1 /\ i \in Nat
    BY <1>1, <1>2
  <2> QED BY <1>2, <2>1, BurstIsSteady
<1>5. q \in Phases
  BY <1>3, <1>4
<1> HIDE DEF q
<1>6. 4 * Sum(Steady(q), l, n - 1) >= On * Window
  <2>1. Steady(q)[l] >= On
    BY <1>3, <1>4
  <2>2. ASSUME NEW j \in 0 .. l - 1 PROVE Steady(q)[j] < On
    <3>1. j \in 0 .. n - 1 /\ u + j \in s .. k - 1
      BY <1>1, <1>2, <1>3
    <3> QED BY <1>4, <3>1
  <2> QED BY <1>3, <1>5, <2>1, <2>2 DEF CurrentsBurst
<1>7. Sum(Steady(q), l, n - 1) = Sum(mag, l + u, (n - 1) + u)
  <2>1. \A i \in l .. n - 1 : Steady(q)[i] \in Nat /\ mag[i + u] = Steady(q)[i]
    <3>1. ASSUME NEW i \in l .. n - 1 PROVE Steady(q)[i] \in Nat /\ mag[i + u] = Steady(q)[i]
      <4>1. i \in 0 .. n - 1 /\ i + u = u + i
        BY <1>1, <1>2, <1>3
      <4> QED BY <1>4, <4>1
    <3> QED BY <3>1
  <2>2. l \in Int /\ n - 1 \in Int /\ u \in Int
    BY <1>1, <1>2, <1>3
  <2> DEFINE b == n - 1
             F == Steady(q)
  <2>3. b \in Int /\ \A i \in l .. b : F[i] \in Nat /\ mag[i + u] = F[i]
    BY <2>1, <2>2
  <2> HIDE DEF b, F
  <2>4. Sum(F, l, b) = Sum(mag, l + u, b + u)
    BY <2>2, <2>3, SumShifted
  <2> QED BY <2>4 DEF b, F
<1>8. Sum(mag, k, (n - 1) + u) <= Sum(mag, k, k + Window - 1) /\ l + u = k
      /\ Sum(mag, k, (n - 1) + u) \in Nat /\ Sum(mag, k, k + Window - 1) \in Nat
  <2>1. \A i \in k .. k + Window - 1 : mag[i] \in Nat
    <3>1. ASSUME NEW i \in k .. k + Window - 1 PROVE mag[i] \in Nat
      <4>1. i \in Index
        BY <1>1
      <4> QED BY <4>1, SampleIs
    <3> QED BY <3>1
  <2>2. (n - 1) + u <= k + Window - 1 /\ (n - 1) + u \in Int /\ k + Window - 1 \in Int /\ k \in Int
    BY <1>1, <1>2
  <2>3. \A i \in k .. (n - 1) + u : mag[i] \in Nat
    BY <2>1, <2>2
  <2> DEFINE b == (n - 1) + u
             c == k + Window - 1
  <2>4. b \in Int /\ c \in Int /\ b <= c
    BY <2>2
  <2> HIDE DEF b, c
  <2>5. Sum(mag, k, b) <= Sum(mag, k, c)
    BY <2>1, <2>2, <2>4, SumGrows DEF c
  <2>6. Sum(mag, k, b) \in Nat /\ Sum(mag, k, c) \in Nat
    BY <2>1, <2>2, <2>3, <2>4, SumIs DEF b, c
  <2> QED BY <1>2, <1>3, <2>5, <2>6 DEF b, c
<1>9. 4 * Sum(mag, k, k + Window - 1) >= On * Window
  <2> DEFINE x == Sum(mag, k, (n - 1) + u)
             y == Sum(mag, k, k + Window - 1)
             z == On * Window
  <2>1. z \in Nat
    BY Constants
  <2>2. 4 * x >= z /\ x <= y /\ x \in Nat /\ y \in Nat
    BY <1>6, <1>7, <1>8
  <2> HIDE DEF x, y, z
  <2>3. 4 * y >= z
    BY <2>1, <2>2
  <2> QED BY <2>3 DEF y, z
<1>10. k + Window <= Size
  BY <1>1
<1> QED BY <1>1, <1>9, <1>10, StartsHere

(* No current that conducts a mains cycle before the end of the record comes   *)
(* before the burst that is found.                                             *)
LEMMA NoneBeforeTheBurst ==
  ASSUME Records, NEW n \in 1 .. Window, CurrentsLast(n), CurrentsBurst(n), RecordIs,
         NEW i \in Index, mag[i] >= On, i + Persistence <= Size
  PROVE  BurstStart \in Index /\ BurstStart <= i
<1>1. PICK p \in Phases : mag = Captured(flow, p)
  BY DEF RecordIs
<1>2. /\ flow.a \in Nat /\ flow.b \in Nat /\ flow.c \in Nat /\ flow.d \in Nat
      /\ flow.b <= Size /\ flow.d <= Size
      /\ flow.b - flow.a >= n \/ flow.b = Size
      /\ flow.d - flow.c >= n \/ flow.d = Size \/ flow.c = flow.d
  <2>1. flow \in Flows
    BY DEF RecordIs
  <2>2. {flow.a, flow.b, flow.c, flow.d} \subseteq 0 .. Size
    BY <2>1 DEF Records
  <2> QED BY <2>1, <2>2, Constants DEF CurrentsLast
<1>3. i \in Nat /\ n \in Nat /\ Persistence \in Nat /\ Size \in Nat /\ Flowing(flow, i)
  <2>1. On \in Nat /\ Captured(flow, p)[i] \in Nat /\ Flowing(flow, i)
    BY <1>1, SampleIs, Constants
  <2> QED BY <2>1, Constants DEF Index, Persistence
<1>4. PICK s \in Nat, e \in Nat :
        /\ e <= Size /\ (s + n <= e \/ e = Size) /\ s <= i /\ i < e
        /\ \A j \in s .. e - 1 : Flowing(flow, j)
  <2>1. CASE flow.a <= i /\ i < flow.b
    <3>1. \A j \in flow.a .. flow.b - 1 : Flowing(flow, j)
      BY <1>2 DEF Flowing
    <3>2. flow.a + n <= flow.b \/ flow.b = Size
      BY <1>2, <1>3
    <3> QED BY <1>2, <2>1, <3>1, <3>2
  <2>2. CASE flow.c <= i /\ i < flow.d
    <3>1. \A j \in flow.c .. flow.d - 1 : Flowing(flow, j)
      BY <1>2 DEF Flowing
    <3>2. flow.c + n <= flow.d \/ flow.d = Size
      BY <1>2, <1>3, <2>2
    <3> QED BY <1>2, <2>2, <3>1, <3>2
  <2> QED BY <1>3, <2>1, <2>2 DEF Flowing
<1> DEFINE T == {k \in s .. i : mag[k] >= On}
<1>5. PICK k \in T : \A j \in T : k <= j
  <2>1. i \in T /\ T \in SUBSET Nat
    BY <1>3, <1>4
  <2> HIDE DEF T
  <2> QED BY <2>1, LeastNumber
<1>6. k \in s .. e - 1 /\ k <= i /\ k + Persistence <= Size /\ mag[k] >= On /\ k \in Nat
  BY <1>3, <1>4, <1>5
<1>7. \A j \in s .. k - 1 : mag[j] < On
  <2> SUFFICES ASSUME NEW j \in s .. k - 1 PROVE mag[j] < On
    OBVIOUS
  <2>1. j \in s .. i /\ ~(k <= j) /\ j \in Index
    BY <1>3, <1>4, <1>6, Constants DEF Index
  <2>2. ~(mag[j] >= On)
    <3>1. j \notin T
      BY <1>5, <2>1
    <3> QED BY <2>1, <3>1
  <2>3. mag[j] \in Nat
    BY <1>1, <2>1, SampleIs
  <2> QED BY <2>2, <2>3, Constants
<1> HIDE DEF T
<1>8. k \in Index /\ StartsBurst(k)
  BY <1>1, <1>3, <1>4, <1>6, <1>7, FirstOfInterval
<1>9. BurstStart \in Index /\ BurstStart <= k
  BY <1>8, BurstIs
<1>10. BurstStart \in Nat
  BY <1>9, Constants DEF Index
<1> QED BY <1>3, <1>6, <1>9, <1>10

(* A clean PASS is earned.  Current that conducts before the onset would do so *)
(* a mains cycle before the end of the record, where the collapse is, and the  *)
(* burst would have begun no later.                                            *)
THEOREM PassesAreEarned ==
  ASSUME Records, NEW n \in 1 .. Window, CurrentsLast(n), CurrentsBurst(n)
  PROVE  Spec => []PassIsEarned
<1>1. AnalysisInv /\ RecordIs /\ OnsetIs /\ NothingAfterPass => PassIsEarned
  <2> SUFFICES ASSUME AnalysisInv, RecordIs, OnsetIs, Analysed, outcome = "PASS",
                      NEW i \in 0 .. Size - 2, mag[i] >= On, ~(onset <= i)
               PROVE  FALSE
    BY DEF PassIsEarned
  <2>1. pc = "analysed" /\ verdict = Decide(trip) /\ outcome = Outcome(sanity, verdict)
    BY DEF Analysed, AnalysisInv, VerdictOK
  <2>2. collapse # None
    BY <2>1 DEF Outcome, Decide, AnalysisInv, TripOK
  <2>3. onset \in Index /\ collapse \in Index /\ onset <= collapse /\ collapse + Persistence <= Size
    BY <2>1, <2>2, CollapseIsSilent
  <2>4. i \in Index /\ i + Persistence <= Size
    BY <2>3, Constants DEF Index, Persistence
  <2>5. BurstStart \in Index /\ BurstStart <= i
    BY <2>4, NoneBeforeTheBurst
  <2>6. onset = RefineStart(BurstStart) /\ onset \in Nat /\ onset <= BurstStart
    BY <2>1, <2>5, RefineStartIs DEF OnsetIs
  <2> QED BY <2>4, <2>5, <2>6, Constants DEF Index
<1> QED BY <1>1, RecordInvariance, NothingFollowsAPass, PTL

(* Current over the first samples of the record is not quiet.                  *)
LEMMA LoudStart ==
  ASSUME Records, StartsLoud, RecordIs, flow.a = 0, flow.b >= Quarter, NEW n \in 1 .. Quarter,
         n = Quarter \/ \E m \in 0 .. n : mag[m] >= On
  PROVE  ~Quiet(n)
<1>1. PICK p \in Phases : mag = Captured(flow, p)
  BY DEF RecordIs
<1>2. flow.a = 0 /\ flow.b \in Nat /\ flow.b <= Size /\ n \in Nat /\ 1 <= n /\ n <= Quarter
  <2>1. flow \in Flows
    BY DEF RecordIs
  <2>2. {flow.a, flow.b, flow.c, flow.d} \subseteq 0 .. Size
    BY <2>1 DEF Records
  <2> QED BY <2>2, Sizes
<1>3. ASSUME NEW i \in 0 .. n - 1
      PROVE  i \in Index /\ Steady(p)[i] \in Nat /\ mag[i] = Steady(p)[i]
  <2>1. i \in Index /\ Flowing(flow, i)
    BY <1>2, Sizes DEF Flowing
  <2> QED BY <1>1, <2>1, SampleIs
<1>4. n = Quarter \/ \E m \in 0 .. n : Steady(p)[m] >= On
  <2> SUFFICES ASSUME NEW m \in 0 .. n, mag[m] >= On PROVE Steady(p)[m] >= On
    OBVIOUS
  <2>1. m \in Index
    BY <1>2, Sizes
  <2>2. mag[m] \in Nat /\ On \in Nat
    BY <1>1, <2>1, SampleIs, Constants
  <2>3. Flowing(flow, m)
    BY <1>1, <2>1, <2>2, SampleIs
  <2> QED BY <1>1, <2>1, <2>3, SampleIs
<1> DEFINE F == [i \in Index |-> Steady(p)[i] * Steady(p)[i]]
           H == [i \in Index |-> mag[i] * mag[i]]
           l == Leak * Leak * n
<1>5. Sum(F, 0, n - 1) > l
  BY <1>4 DEF StartsLoud
<1>6. \A i \in 0 .. n - 1 : F[i] \in Nat /\ H[i] = F[i]
  <2> SUFFICES ASSUME NEW i \in 0 .. n - 1 PROVE F[i] \in Nat /\ H[i] = F[i]
    OBVIOUS
  <2>1. i \in Index /\ Steady(p)[i] \in Nat /\ mag[i] = Steady(p)[i]
    BY <1>3
  <2>2. F[i] = Steady(p)[i] * Steady(p)[i] /\ H[i] = mag[i] * mag[i]
    BY <2>1
  <2> HIDE DEF F, H
  <2> QED BY <2>1, <2>2
<1>7. Quiet(n) <=> Sum(H, 0, n - 1) <= l
  BY DEF Quiet
<1>8. l \in Int
  BY <1>2, AnalysisAssumption
<1> DEFINE b == n - 1
<1>9. b \in Int
  BY <1>2
<1> HIDE DEF F, H, l, b
<1>10. Sum(F, 0, b) = Sum(H, 0, b)
  <2>1. \A i \in 0 .. b : F[i] \in Nat /\ H[i] = F[i]
    BY <1>6 DEF b
  <2>2. 0 \in Int
    OBVIOUS
  <2> QED BY <1>9, <2>1, <2>2, SumSame
<1>11. Sum(F, 0, b) \in Nat /\ Sum(F, 0, b) > l
  BY <1>5, <1>6, <1>9, SumIs DEF b
<1>12. ~(Sum(H, 0, b) <= l)
  BY <1>8, <1>10, <1>11
<1> QED BY <1>7, <1>12 DEF b

(* Current that flows as the record begins halts the campaign on the rig: over *)
(* a quarter cycle it leaks, and a burst that begins sooner is none the half   *)
(* cycle of silence refines, so that it is preceded by a sample that conducts. *)
THEOREM StuckK3HaltsAlways ==
  ASSUME Records, StartsLoud
  PROVE  Spec => []StuckK3Halts
<1>1. AnalysisInv /\ RecordIs /\ OnsetIs => StuckK3Halts
  <2> SUFFICES ASSUME AnalysisInv, RecordIs, OnsetIs, Analysed, flow.a = 0, flow.b >= Quarter
               PROVE  outcome = "RIG_FAULT"
    BY DEF StuckK3Halts
  <2>1. /\ pc = "analysed" /\ sanity = {s \in Checks : Fails(s)}
        /\ outcome = Outcome(sanity, verdict)
    BY DEF Analysed, AnalysisInv, VerdictOK
  <2>2. T0 \in 0 .. Size - 1 /\ onset \in Index \cup {None} /\ onset = RefineStart(BurstStart)
        /\ T0 = IF onset = None THEN Pretrigger ELSE onset
    BY <2>1, Sizes DEF T0, AnalysisInv, OnsetOK, OnsetIs
  <2> DEFINE want == IF T0 <= 0 THEN Quarter ELSE Min({T0, Quarter})
             n    == Clamp(want)
  <2>3. n = IF T0 = 0 \/ T0 >= Quarter THEN Quarter ELSE T0
    <3>1. T0 \in Int /\ Quarter \in Int
      BY <2>2, Sizes
    <3>2. Min({T0, Quarter}) = IF T0 <= Quarter THEN T0 ELSE Quarter
      BY <3>1, OfTwo
    <3>3. want = IF T0 = 0 \/ T0 >= Quarter THEN Quarter ELSE T0
      BY <2>2, <3>1, <3>2
    <3> HIDE DEF want
    <3>4. want \in Nat /\ want <= Size - 1 /\ want \in Int /\ Size - 1 \in Int
      BY <2>2, <3>3, Sizes
    <3>5. Min({Size - 1, want}) = want
      <4> DEFINE last == Size - 1
      <4>1. last \in Int /\ want <= last
        BY <3>4
      <4> HIDE DEF last
      <4>2. Min({last, want}) = IF last <= want THEN last ELSE want
        BY <3>4, <4>1, OfTwo
      <4>3. Min({last, want}) = want
        BY <3>4, <4>1, <4>2
      <4> QED BY <4>3 DEF last
    <3>6. Max({0, want}) = want
      BY <3>4, OfTwo
    <3> QED BY <3>3, <3>5, <3>6 DEF Clamp
  <2> HIDE DEF want
  <2>4. NoPretriggerLeakage(T0) => Quiet(n)
    BY DEF NoPretriggerLeakage, want
  <2> HIDE DEF n
  <2>5. n \in 1 .. Quarter
    BY <2>2, <2>3, Sizes
  <2>6. n = Quarter \/ \E m \in 0 .. n : mag[m] >= On
    <3> SUFFICES ASSUME n # Quarter PROVE \E m \in 0 .. n : mag[m] >= On
      OBVIOUS
    <3>1. n = T0 /\ n = onset /\ onset # None /\ n < Quarter /\ n \in Nat
      BY <2>2, <2>3, Sizes
    <3>2. BurstStart # None
      BY <2>2, <3>1, Sizes DEF RefineStart, None
    <3>3. BurstStart \in Index /\ StartsBurst(BurstStart)
      BY <3>2, BurstIs
    <3>4. onset = BurstStart
      <4> DEFINE silent == {i \in 0 .. BurstStart : lead[i] < Floor}
      <4>1. /\ onset <= BurstStart
            /\ onset < BurstStart =>
                 /\ Max(silent) + Window <= onset /\ silent # {} /\ BurstStart > 0
                 /\ Max(silent) \in silent
        <5>1. /\ onset <= BurstStart
              /\ onset < BurstStart => silent # {} /\ Max(silent) + Window <= onset
              /\ silent # {} /\ BurstStart > 0 => Max(silent) \in silent
          BY <2>2, <3>3, RefineStartIs
        <5>2. onset < BurstStart => BurstStart > 0
          BY <3>1, <3>3, Sizes
        <5> QED BY <5>1, <5>2
      <4>2. Max(silent) \in silent => Max(silent) \in Nat
        OBVIOUS
      <4> HIDE DEF silent
      <4> QED BY <3>1, <3>3, <4>1, <4>2, Sizes
    <3>5. PICK j \in Max({0, n - Window + 1}) .. n : mag[j] >= On
      BY <3>1, <3>3, <3>4 DEF StartsBurst
    <3>6. j \in 0 .. n
      <4>1. n - Window + 1 \in Int /\ 0 \in Int
        BY <3>1, Sizes
      <4>2. Max({0, n - Window + 1}) = IF 0 >= n - Window + 1 THEN 0 ELSE n - Window + 1
        BY <4>1, OfTwo
      <4> QED BY <3>1, <4>2, Sizes
    <3> QED BY <3>5, <3>6
  <2>7. ~NoPretriggerLeakage(T0)
    BY <2>4, <2>5, <2>6, LoudStart
  <2>8. "no_pretrigger_leakage" \in sanity
    BY <2>1, <2>7 DEF Checks, Fails
  <2> QED BY <2>1, <2>8 DEF Outcome
<1> QED BY <1>1, RecordInvariance, PTL

-----------------------------------------------------------------------------
(* The phase of a record, and its first burst.                                 *)
Phase == CHOOSE p \in Phases : mag = Captured(flow, p)

(* It lies within the record, before any other.                                *)
LEMMA FirstBurst ==
  ASSUME Records, RecordIs
  PROVE  /\ Phase \in Phases /\ mag = Captured(flow, Phase)
         /\ flow.a \in Nat /\ flow.b \in Nat /\ flow.c \in Nat /\ flow.d \in Nat
         /\ flow.a < flow.b /\ flow.b <= flow.c /\ flow.c <= flow.d /\ flow.d <= Size
         /\ flow.stray # None =>
              flow.stray \in Index /\ flow.c = flow.d /\ 2 * Window <= flow.a
<1>1. \E p \in Phases : mag = Captured(flow, p)
  BY DEF RecordIs
<1>2. flow \in Flows
  BY DEF RecordIs
<1>3. /\ {flow.a, flow.b, flow.c, flow.d} \subseteq 0 .. Size
      /\ flow.a < flow.b /\ flow.b <= flow.c /\ flow.c <= flow.d
      /\ flow.stray # None =>
           flow.stray \in Index /\ flow.c = flow.d /\ 2 * Window <= flow.a
  BY <1>2 DEF Records
<1> QED BY <1>1, <1>3, Sizes DEF Phase

(* The samples of the first burst, from any one of them on.                    *)
LEMMA FirstBurstIsSteady ==
  ASSUME Records, RecordIs, NEW u \in Nat, flow.a <= u
  PROVE  \E q \in Phases : \A m \in Nat : u + m < flow.b =>
           u + m \in Index /\ mag[u + m] = Steady(q)[m] /\ mag[u + m] \in Nat
<1> DEFINE q == (u + Phase) % Window
<1>1. Phase \in Phases /\ Phase \in Nat
  BY FirstBurst, Sizes DEF Phases
<1>2. q \in Phases
  BY <1>1, LaterPhase
<1>3. ASSUME NEW m \in Nat, u + m < flow.b
      PROVE  u + m \in Index /\ mag[u + m] = Steady(q)[m] /\ mag[u + m] \in Nat
  <2>1. u + m \in Index /\ Flowing(flow, u + m)
    BY <1>3, FirstBurst, Sizes DEF Flowing
  <2> QED BY <1>1, <2>1, FirstBurst, BurstIsSteady
<1> HIDE DEF q
<1> QED BY <1>2, <1>3

(* A level is reached again and again while it lasts.                          *)
LEMMA BurstReaches ==
  ASSUME Records, RecordIs, NEW level, NEW g \in Nat, Reaches(level, g),
         NEW u \in Nat, flow.a <= u, u + g < flow.b
  PROVE  \E k \in u .. u + g : k \in Index /\ k \in Nat /\ mag[k] >= level
<1>1. PICK q \in Phases : \A m \in Nat : u + m < flow.b =>
             u + m \in Index /\ mag[u + m] = Steady(q)[m]
  BY FirstBurstIsSteady
<1>2. PICK j \in 0 .. g : Steady(q)[j] >= level
  BY DEF Reaches
<1>3. j \in Nat /\ u + j < flow.b /\ u + j \in u .. u + g /\ u + j \in Nat
  BY FirstBurst
<1> QED BY <1>1, <1>2, <1>3

(* It soon rises above the residual floor.                                     *)
LEMMA BurstRises ==
  ASSUME Records, RecordIs, NEW e \in Nat, Rises(e),
         NEW u \in Nat, flow.a <= u, u + e + Confirm <= flow.b
  PROVE  \E k \in u .. u + e : \A m \in k .. k + Confirm - 1 : m \in Index /\ mag[m] >= Floor
<1>1. PICK q \in Phases : \A m \in Nat : u + m < flow.b =>
             u + m \in Index /\ mag[u + m] = Steady(q)[m]
  BY FirstBurstIsSteady
<1>2. PICK j \in 0 .. e : \A m \in j .. j + Confirm - 1 : Steady(q)[m] >= Floor
  BY DEF Rises
<1>3. u + j \in u .. u + e
  OBVIOUS
<1>4. ASSUME NEW m \in (u + j) .. (u + j) + Confirm - 1
      PROVE  m \in Index /\ mag[m] >= Floor
  <2> DEFINE l == m - u
  <2>1. l \in Nat /\ l \in j .. j + Confirm - 1 /\ u + l = m /\ u + l < flow.b
    BY <1>4, FirstBurst, Sizes
  <2> HIDE DEF l
  <2> QED BY <1>1, <1>2, <2>1
<1> QED BY <1>3, <1>4

(* Before it there is at most the stray sample.                                *)
LEMMA BeforeTheBurst ==
  ASSUME Records, RecordIs, NEW i \in Index, i < flow.a
  PROVE  mag[i] \in Nat /\ mag[i] < On /\ (mag[i] >= Floor => i = flow.stray)
<1>1. ~Flowing(flow, i)
  BY FirstBurst, Sizes DEF Flowing
<1> QED BY <1>1, FirstBurst, SampleIs

(* An envelope is low where its whole window is.                               *)
LEMMA SilentWindow ==
  ASSUME RecordOK, EnvelopeExact, pc # "captured", NEW x \in Nat, NEW z \in Index,
         \A k \in Index : z <= k /\ k <= z + Window - 1 => mag[k] < x
  PROVE  lead[z] < x
<1> DEFINE top == Min({Size - 1, z + Window - 1})
<1>1. lead[z] = MaxOver(mag, z, top)
  BY DEF EnvelopeExact
<1>2. Size - 1 \in Int /\ z + Window - 1 \in Int /\ z \in Nat /\ z <= Size - 1
  BY Sizes
<1>3. top = IF Size - 1 <= z + Window - 1 THEN Size - 1 ELSE z + Window - 1
  BY <1>2, OfTwo
<1> HIDE DEF top
<1>4. top \in Int /\ z <= top /\ top <= Size - 1 /\ top <= z + Window - 1
  BY <1>2, <1>3, Sizes
<1>5. \A m \in z .. top : m \in Index /\ mag[m] \in Nat /\ mag[m] < x
  BY <1>2, <1>4, Sizes DEF RecordOK
<1>6. \E m \in z .. top : MaxOver(mag, z, top) = mag[m]
  BY <1>2, <1>4, <1>5, MaxOverIs
<1> QED BY <1>1, <1>5, <1>6

(* A window before the burst is silent: the last one, or the one that ends     *)
(* before the stray sample in it.                                              *)
LEMMA SilenceBeforeTheBurst ==
  ASSUME Records, RecordIs, RecordOK, EnvelopeExact, pc # "captured", Window <= flow.a
  PROVE  \E z \in Nat : /\ z < flow.a /\ z \in Index /\ lead[z] < Floor
                        /\ \/ z + Window = flow.a
                           \/ z + Window = flow.stray /\ flow.a <= flow.stray + Window
<1>0. /\ flow.a \in Nat /\ flow.a < Size /\ Window \in Nat \ {0} /\ Floor \in Nat
      /\ Index = 0 .. Size - 1 /\ Size \in Nat
  BY FirstBurst, Sizes, Constants
<1>1. CASE \A k \in Index : k < flow.a /\ flow.a <= k + Window => k # flow.stray
  <2> DEFINE z == flow.a - Window
  <2>1. z \in Nat /\ z < flow.a /\ z \in Index /\ z + Window = flow.a
    BY <1>0
  <2>2. \A k \in Index : z <= k /\ k <= z + Window - 1 => mag[k] < Floor
    <3>1. ASSUME NEW k \in Index, z <= k, k <= z + Window - 1 PROVE mag[k] < Floor
      <4>1. k < flow.a /\ flow.a <= k + Window
        BY <1>0, <3>1
      <4>2. mag[k] \in Nat /\ ~(mag[k] >= Floor)
        BY <1>1, <4>1, BeforeTheBurst
      <4> QED BY <1>0, <4>2
    <3> QED BY <3>1
  <2> HIDE DEF z
  <2>3. lead[z] < Floor
    BY <1>0, <2>1, <2>2, SilentWindow
  <2> QED BY <2>1, <2>3
<1>2. CASE \E k \in Index : k < flow.a /\ flow.a <= k + Window /\ k = flow.stray
  <2> DEFINE s == flow.stray
             z == s - Window
  <2>1. s \in Index /\ s \in Nat /\ s < flow.a /\ flow.a <= s + Window
    BY <1>0, <1>2
  <2>2. 2 * Window <= flow.a
    <3>1. s # None
      BY <2>1 DEF None
    <3> QED BY <3>1, FirstBurst
  <2>3. z \in Nat /\ z < flow.a /\ z \in Index /\ z + Window = s
    BY <1>0, <2>1, <2>2
  <2>4. \A k \in Index : z <= k /\ k <= z + Window - 1 => mag[k] < Floor
    <3>1. ASSUME NEW k \in Index, z <= k, k <= z + Window - 1 PROVE mag[k] < Floor
      <4>1. k < flow.a /\ k # s
        BY <1>0, <2>1, <3>1
      <4>2. mag[k] \in Nat /\ ~(mag[k] >= Floor)
        BY <4>1, BeforeTheBurst
      <4> QED BY <1>0, <4>2
    <3> QED BY <3>1
  <2> HIDE DEF z
  <2>5. lead[z] < Floor
    BY <1>0, <2>3, <2>4, SilentWindow
  <2> QED BY <2>1, <2>3, <2>5
<1> QED BY <1>1, <1>2

(* The onset is no earlier than the stray sample of the last silence, and only *)
(* there if the burst follows at once: a run of Confirm samples takes two.     *)
LEMMA OnsetNotBefore ==
  ASSUME Records, AnalysisInv, RecordIs, OnsetIs, pc \in {"measured", "analysed"},
         onset # None, Window <= flow.a
  PROVE  /\ BurstStart \in Index /\ BurstStart \in Nat /\ onset = RefineStart(BurstStart)
         /\ onset \in Index /\ onset \in Nat /\ onset <= BurstStart
         /\ flow.a <= BurstStart /\ flow.a <= onset + Window
         /\ onset < flow.a => onset = flow.stray /\ (Confirm >= 2 => onset + 1 = flow.a)
<1>0. /\ flow.a \in Nat /\ Window \in Nat \ {0} /\ Confirm \in Nat \ {0} /\ Floor \in Nat /\ On \in Nat
      /\ Index = 0 .. Size - 1 /\ Size \in Nat
  BY FirstBurst, Sizes, Constants
<1>1. onset = RefineStart(BurstStart)
  BY DEF OnsetIs
<1>2. BurstStart \in Index /\ BurstStart \in Nat /\ StartsBurst(BurstStart)
  <2>1. BurstStart # None
    BY <1>1 DEF RefineStart, None
  <2> QED BY <2>1, BurstIs, <1>0
<1> DEFINE silent == {i \in 0 .. BurstStart : lead[i] < Floor}
           top    == Max(silent)
<1>3. /\ onset \in Nat /\ onset <= BurstStart
      /\ onset < BurstStart =>
           /\ silent # {} /\ top + Window <= onset
           /\ \A m \in onset .. onset + Confirm - 1 : m \in Index /\ mag[m] >= Floor
      /\ silent # {} /\ BurstStart > 0 => top \in silent /\ \A z \in silent : z <= top
  BY <1>1, <1>2, RefineStartIs
<1>4. flow.a <= BurstStart
  <2>1. PICK j \in Max({0, BurstStart - Window + 1}) .. BurstStart : mag[j] >= On
    BY <1>2 DEF StartsBurst
  <2>2. j \in Index /\ j <= BurstStart
    <3>1. BurstStart - Window + 1 \in Int /\ 0 \in Int
      BY <1>0, <1>2
    <3>2. Max({0, BurstStart - Window + 1})
            = IF 0 >= BurstStart - Window + 1 THEN 0 ELSE BurstStart - Window + 1
      BY <3>1, OfTwo
    <3> QED BY <1>0, <1>2, <3>2
  <2>3. j < flow.a => mag[j] \in Nat /\ mag[j] < On
    BY <2>2, BeforeTheBurst
  <2> QED BY <1>0, <1>2, <2>1, <2>2, <2>3
<1>5. ASSUME onset < flow.a
      PROVE  /\ flow.a <= onset + Window /\ onset = flow.stray
             /\ Confirm >= 2 => onset + 1 = flow.a
  <2>1. /\ onset < BurstStart /\ silent # {} /\ BurstStart > 0 /\ onset \in Index
        /\ \A m \in onset .. onset + Confirm - 1 : m \in Index /\ mag[m] >= Floor
    BY <1>0, <1>2, <1>3, <1>4, <1>5
  <2>2. mag[onset] >= Floor
    BY <1>0, <1>3, <2>1
  <2>3. onset = flow.stray
    BY <1>5, <2>1, <2>2, BeforeTheBurst
  <2>4. PICK z \in Nat : /\ z < flow.a /\ lead[z] < Floor
                         /\ \/ z + Window = flow.a
                            \/ z + Window = flow.stray /\ flow.a <= flow.stray + Window
    BY SilenceBeforeTheBurst DEF AnalysisInv
  <2>5. z \in silent
    BY <1>0, <1>2, <1>4, <2>4
  <2>6. z <= top /\ top \in Nat
    <3>1. \A t \in silent : t \in Nat
      OBVIOUS
    <3> HIDE DEF silent
    <3> QED BY <1>3, <2>1, <2>5, <3>1
  <2>7. top + Window <= onset
    BY <1>3, <2>1
  <2> HIDE DEF silent, top
  <2>8. flow.a <= onset + Window
    BY <1>0, <1>3, <1>5, <2>3, <2>4, <2>6, <2>7
  <2>9. ASSUME Confirm >= 2 PROVE onset + 1 = flow.a
    <3> SUFFICES ASSUME onset + 1 < flow.a PROVE FALSE
      BY <1>0, <1>3, <1>5
    <3>1. onset + 1 \in onset .. onset + Confirm - 1
      BY <1>0, <1>3, <2>9
    <3>2. onset + 1 \in Index /\ mag[onset + 1] >= Floor
      BY <2>1, <3>1
    <3>3. onset + 1 = flow.stray
      BY <3>2, BeforeTheBurst
    <3> QED BY <1>3, <2>3, <3>3
  <2> QED BY <2>3, <2>8, <2>9
<1>6. onset \in Index
  BY <1>0, <1>2, <1>3
<1> QED BY <1>0, <1>1, <1>2, <1>3, <1>4, <1>5, <1>6

(* And it is no later than e samples into the burst, if the burst conducts in  *)
(* its first half cycle, a mains cycle before the record ends.                 *)
LEMMA OnsetWithThePeak ==
  ASSUME Records, NEW n \in 1 .. Window, CurrentsLast(n), CurrentsBurst(n),
         NEW e \in Nat, Rises(e), e + Confirm <= Window,
         AnalysisInv, RecordIs, OnsetIs, pc \in {"measured", "analysed"},
         Window <= flow.a, flow.a + Window <= flow.b,
         NEW i \in Index, flow.a <= i, i < flow.a + Window, mag[i] >= On, i + Persistence <= Size
  PROVE  onset # None /\ onset <= flow.a + e
<1>0. /\ flow.a \in Nat /\ flow.b \in Nat /\ Window \in Nat \ {0} /\ Confirm \in Nat \ {0}
      /\ Floor \in Nat /\ On \in Nat /\ Floor <= On
      /\ Index = 0 .. Size - 1 /\ Size \in Nat /\ flow.b <= Size /\ i \in Nat
  BY FirstBurst, Sizes, Constants
<1>1. BurstStart \in Index /\ BurstStart \in Nat /\ BurstStart <= i
  BY <1>0, NoneBeforeTheBurst
<1>2. onset = RefineStart(BurstStart) /\ onset \in Nat /\ onset <= BurstStart
  BY <1>1, RefineStartIs DEF OnsetIs
<1>3. onset # None
  BY <1>2 DEF None
<1>4. flow.a <= BurstStart
  BY <1>3, OnsetNotBefore
<1>5. PICK j \in flow.a .. flow.a + e :
        \A m \in j .. j + Confirm - 1 : m \in Index /\ mag[m] >= Floor
  <2>1. flow.a <= flow.a /\ flow.a + e + Confirm <= flow.b
    BY <1>0
  <2> QED BY <1>0, <2>1, BurstRises
<1> SUFFICES ASSUME flow.a + e < onset PROVE FALSE
  BY <1>0, <1>2, <1>3
<1> DEFINE silent == {t \in 0 .. BurstStart : lead[t] < Floor}
           top    == Max(silent)
<1>6. silent # {} /\ BurstStart > 0
  <2>1. PICK z \in Nat : z < flow.a /\ lead[z] < Floor
    BY SilenceBeforeTheBurst DEF AnalysisInv
  <2>2. z \in 0 .. BurstStart /\ BurstStart > 0
    <3>1. BurstStart \in Nat /\ flow.a \in Nat
      BY <1>0, <1>1
    <3>2. z <= BurstStart /\ z < BurstStart
      BY <1>4, <2>1, <3>1
    <3> QED BY <3>1, <3>2
  <2>3. z \in silent
    BY <2>1, <2>2
  <2> QED BY <2>2, <2>3
<1>7. /\ top \in silent
      /\ \A l \in 0 .. BurstStart :
           /\ BurstStart <= l \/ top + Window <= l
           /\ l + Confirm <= Size
           /\ \A m \in l .. l + Confirm - 1 : mag[m] >= Floor
           => onset <= l
  BY <1>1, <1>2, <1>6, RefineStartIs
<1>8. top \in Nat /\ top <= BurstStart /\ top \in Index /\ lead[top] < Floor
  <2>1. \A t \in silent : t \in 0 .. BurstStart /\ lead[t] < Floor
    OBVIOUS
  <2>2. top \in 0 .. BurstStart /\ lead[top] < Floor
    <3> HIDE DEF silent, top
    <3> QED BY <1>7, <2>1
  <2> QED BY <1>0, <1>1, <2>2
<1> HIDE DEF silent, top
<1>9. ASSUME NEW k \in Index, top <= k, k < top + Window, mag[k] >= Floor PROVE FALSE
  <2>1. top + Window - 1 \in Int /\ k <= top + Window - 1
    BY <1>0, <1>8, <1>9
  <2>2. mag[k] \in Nat /\ lead[top] \in Nat /\ mag[k] <= lead[top]
    BY <1>8, <1>9, <2>1, EnvelopeBounds DEF AnalysisInv
  <2> QED BY <1>0, <1>8, <1>9, <2>2
<1>10. top < flow.a
  <2> SUFFICES ASSUME flow.a <= top PROVE FALSE
    BY <1>0, <1>8
  <2>1. top <= i /\ i < top + Window
    BY <1>0, <1>1, <1>8
  <2>2. mag[i] >= Floor
    <3>1. mag[i] \in Nat
      BY DEF AnalysisInv, RecordOK
    <3> QED BY <1>0, <3>1
  <2> QED BY <1>9, <2>1, <2>2
<1>11. top + Window <= j
  <2> SUFFICES ASSUME j < top + Window PROVE FALSE
    BY <1>0, <1>5, <1>8
  <2>1. j \in j .. j + Confirm - 1 /\ top <= j
    BY <1>0, <1>5, <1>8, <1>10
  <2> QED BY <1>5, <1>9, <2>1
<1>12. j \in 0 .. BurstStart /\ j + Confirm <= Size
  BY <1>0, <1>1, <1>2, <1>5
<1>13. onset <= j
  BY <1>5, <1>7, <1>11, <1>12
<1> QED BY <1>0, <1>2, <1>5, <1>13

(* So it is whenever a collapse follows, which is a mains cycle of silence.    *)
LEMMA OnsetNotAfter ==
  ASSUME Records, NEW n \in 1 .. Window, CurrentsLast(n), CurrentsBurst(n),
         Reaches(On, Window - 1), NEW e \in Nat, Rises(e), e + Confirm <= Window,
         AnalysisInv, RecordIs, OnsetIs, pc \in {"measured", "analysed"},
         collapse # None, Window <= flow.a, flow.a + Window <= flow.b
  PROVE  onset <= flow.a + e
<1>0. /\ flow.a \in Nat /\ flow.b \in Nat /\ Window \in Nat \ {0} /\ On \in Nat /\ Off \in Nat
      /\ Off <= On /\ Size \in Nat /\ Persistence = 2 * Window
  BY FirstBurst, Sizes, Constants
<1>1. /\ onset \in Nat /\ collapse \in Nat /\ onset <= collapse /\ collapse + Persistence <= Size
      /\ \A k \in Index : collapse <= k /\ k <= collapse + Persistence + Window - 2
                             => mag[k] < Off
  BY CollapseIsSilent, Sizes
<1> SUFFICES ASSUME flow.a + e < onset PROVE FALSE
  BY <1>0, <1>1
<1>2. PICK i \in flow.a .. flow.a + (Window - 1) : i \in Index /\ i \in Nat /\ mag[i] >= On
  <2>1. Window - 1 \in Nat /\ flow.a <= flow.a /\ flow.a + (Window - 1) < flow.b
    BY <1>0
  <2> QED BY <1>0, <2>1, BurstReaches
<1>3. i + Persistence <= Size
  <2> SUFFICES ASSUME Size < i + Persistence PROVE FALSE
    BY <1>0, <1>2
  <2>1. collapse <= i /\ i <= collapse + Persistence + Window - 2
    BY <1>0, <1>1, <1>2
  <2>2. mag[i] < Off /\ mag[i] \in Nat
    BY <1>1, <1>2, <2>1 DEF AnalysisInv, RecordOK
  <2> QED BY <1>0, <1>2, <2>2
<1>4. flow.a <= i /\ i < flow.a + Window
  BY <1>0, <1>2
<1>5. onset <= flow.a + e
  BY <1>2, <1>3, <1>4, OnsetWithThePeak
<1> QED BY <1>0, <1>1, <1>5

(* From its onset on, a burst lasts up to its last sample above the collapse   *)
(* threshold, one of the last g and one.                                       *)
LEMMA BurstLasts ==
  ASSUME Records, NEW g \in 0 .. Window - 1, Reaches(Off, g), RecordIs,
         onset \in Nat, flow.a <= onset + Window, flow.a + Window <= flow.b
  PROVE  \E i \in Index : /\ i \in Nat /\ i < flow.b /\ flow.b <= i + g + 1
                          /\ LastsUntil(i)
<1>0. /\ flow.a \in Nat /\ flow.b \in Nat /\ Window \in Nat /\ Window >= 2
      /\ Persistence = 2 * Window /\ g \in Nat /\ g < Window
  BY FirstBurst, Sizes, Constants
<1> DEFINE u == flow.b - 1 - g
<1>1. PICK i \in u .. u + g : i \in Index /\ i \in Nat /\ mag[i] >= Off
  <2>1. u \in Nat /\ flow.a <= u /\ u + g < flow.b
    BY <1>0
  <2> HIDE DEF u
  <2> QED BY <1>0, <2>1, BurstReaches
<1>2. i < flow.b /\ flow.b <= i + g + 1
  BY <1>0, <1>1
<1>3. ASSUME NEW j \in onset .. i
      PROVE  \E k \in Index : k \in j .. j + Persistence + Window - 2 /\ mag[k] >= Off
  <2>1. j \in Nat /\ flow.a <= j + Window /\ j <= i
    BY <1>0, <1>1
  <2>2. CASE j < flow.a
    <3>1. PICK k \in flow.a .. flow.a + g : k \in Index /\ k \in Nat /\ mag[k] >= Off
      <4>1. flow.a + g < flow.b /\ flow.a <= flow.a
        BY <1>0
      <4> QED BY <1>0, <4>1, BurstReaches
    <3>2. k \in j .. j + Persistence + Window - 2
      BY <1>0, <2>1, <2>2, <3>1
    <3> QED BY <3>1, <3>2
  <2>3. CASE flow.a <= j /\ j + g < flow.b
    <3>1. PICK k \in j .. j + g : k \in Index /\ k \in Nat /\ mag[k] >= Off
      BY <1>0, <2>1, <2>3, BurstReaches
    <3>2. k \in j .. j + Persistence + Window - 2
      BY <1>0, <2>1, <3>1
    <3> QED BY <3>1, <3>2
  <2>4. CASE flow.b <= j + g
    <3>1. i \in j .. j + Persistence + Window - 2
      BY <1>0, <1>1, <1>2, <2>1, <2>4
    <3> QED BY <1>1, <3>1
  <2> QED BY <1>0, <2>1, <2>2, <2>3, <2>4
<1>4. LastsUntil(i)
  BY <1>1, <1>3 DEF LastsUntil
<1> QED BY <1>1, <1>2, <1>4

(* A long burst halts the campaign: it is current that lasts, from its onset   *)
(* to its last sample above the collapse threshold, and these are no further   *)
(* from its two ends than the uncertainty allows for.                          *)
THEOREM LongBurstsHalt ==
  ASSUME Records, NEW n \in 1 .. Window, CurrentsLast(n), CurrentsBurst(n),
         Reaches(On, Window - 1), NEW g \in 0 .. Window - 1, Reaches(Off, g),
         NEW e \in Nat, Rises(e), e + Confirm <= Window,
         g + e <= Uncertainty, Window <= NoTripLimit
  PROVE  Spec => []LongBurstHalts
<1>1. AnalysisInv /\ RecordIs /\ OnsetIs /\ LastingCurrentHalts => LongBurstHalts
  <2> SUFFICES ASSUME AnalysisInv, RecordIs, OnsetIs, LastingCurrentHalts,
                      Analysed, Window <= flow.a, NoTripLimit <= Conduction
               PROVE  outcome \in {"NO_TRIP", "RIG_FAULT"}
    BY DEF LongBurstHalts
  <2>1. pc = "analysed" /\ verdict = Decide(trip) /\ outcome = Outcome(sanity, verdict)
    BY DEF Analysed, AnalysisInv, VerdictOK
  <2>2. SUFFICES ASSUME collapse # None PROVE outcome \in {"NO_TRIP", "RIG_FAULT"}
    BY <2>1, <2>2 DEF Outcome, Decide, AnalysisInv, TripOK
  <2>3. /\ flow.a \in Nat /\ flow.b \in Nat /\ Window \in Nat /\ Window >= 2
        /\ Persistence = 2 * Window
        /\ g \in Nat /\ e \in Nat /\ Uncertainty \in Nat /\ NoTripLimit \in Nat
        /\ g < Window /\ g + e <= Uncertainty
        /\ flow.a + NoTripLimit + 1 <= flow.b /\ flow.a + Window <= flow.b
    <3>1. /\ flow.a \in Nat /\ flow.b \in Nat /\ Window \in Nat /\ Window >= 2
          /\ Persistence = 2 * Window /\ Uncertainty \in Nat /\ NoTripLimit \in Nat
      BY FirstBurst, Sizes, Constants
    <3>2. g \in Nat /\ e \in Nat /\ g < Window
      BY <3>1
    <3>3. flow.a + NoTripLimit + 1 <= flow.b
      BY <3>1 DEF Conduction
    <3> QED BY <3>1, <3>2, <3>3
  <2>4. onset # None /\ onset \in Nat /\ flow.a <= onset + Window
    <3>1. onset \in Index
      BY <2>1, <2>2, CollapseIsSilent
    <3>2. onset # None
      BY <3>1, Sizes DEF None
    <3> QED BY <2>1, <3>2, OnsetNotBefore
  <2>5. onset <= flow.a + e
    BY <2>1, <2>2, <2>3, OnsetNotAfter
  <2>6. PICK i \in Index : /\ i \in Nat /\ i < flow.b /\ flow.b <= i + g + 1
                           /\ LastsUntil(i)
    BY <2>3, <2>4, BurstLasts
  <2>7. i - onset >= NoTripLimit - Uncertainty
    BY <2>3, <2>4, <2>5, <2>6
  <2> QED BY <2>6, <2>7 DEF LastingCurrentHalts
<1> QED BY <1>1, RecordInvariance, LastingCurrentNeverGoesOn, PTL

(* After a single burst every window is below the collapse threshold: a        *)
(* collapse is found by then.                                                  *)
LEMMA CollapseByTheEnd ==
  ASSUME Records, Floor < Off, AnalysisInv, RecordIs, pc \in {"measured", "analysed"},
         onset \in Nat, 0 < onset, onset <= flow.b,
         flow.c = flow.d, flow.b + Persistence <= Size
  PROVE  collapse # None /\ collapse \in Index /\ collapse \in Nat /\ collapse <= flow.b
<1>0. /\ flow.a \in Nat /\ flow.b \in Nat /\ Floor \in Nat /\ Off \in Nat /\ Off \in Nat \ {0}
      /\ Window \in Nat \ {0} /\ Persistence \in Nat /\ Size \in Nat /\ Persistence = 2 * Window
      /\ Index = 0 .. Size - 1
  BY FirstBurst, Sizes, Constants
<1> DEFINE low == {i \in Index : lead[i] < Off}
           c   == FirstSustained(low, Persistence, onset, Valid)
<1>1. onset # None /\ collapse = Collapse(onset, Valid)
  <2>1. onset # None
    BY DEF None
  <2> QED BY <2>1 DEF AnalysisInv, CollapseOK
<1>2. Valid \in Int /\ Size - Window <= Valid
  <2>1. T0 = onset
    BY <1>1 DEF T0
  <2>2. T0 \in Int /\ Size - Window \in Int
    BY <1>0, <2>1
  <2>3. Valid = IF T0 >= Size - Window THEN T0 ELSE Size - Window
    BY <2>2, OfTwo DEF Valid
  <2> QED BY <2>2, <2>3
<1>3. ASSUME NEW k \in Index, flow.b <= k PROVE lead[k] < Off
  <2>1. ASSUME NEW m \in Index, k <= m PROVE mag[m] < Off
    <3>1. flow.b <= m /\ m \in Nat
      BY <1>0, <1>3, <2>1
    <3>2. ~Flowing(flow, m)
      BY <1>0, <3>1, FirstBurst DEF Flowing
    <3>3. mag[m] \in Nat /\ ~(mag[m] >= Off)
      BY <1>0, <3>2, FirstBurst, SampleIs
    <3> QED BY <1>0, <3>3
  <2>2. \A m \in Index : k <= m /\ m <= k + Window - 1 => mag[m] < Off
    BY <2>1
  <2> QED BY <1>0, <2>2, SilentWindow DEF AnalysisInv
<1>4. flow.b .. flow.b + Persistence - 1 \subseteq low
  <2> SUFFICES ASSUME NEW k \in flow.b .. flow.b + Persistence - 1 PROVE k \in low
    OBVIOUS
  <2>1. k \in Index /\ flow.b <= k
    BY <1>0
  <2> QED BY <1>3, <2>1
<1>5. flow.b <= Valid
  BY <1>0, <1>2
<1>6. c = Collapse(onset, Valid) \/ c = 0
  BY DEF Collapse
<1> HIDE DEF low
<1>7. c # None /\ c <= flow.b
  BY <1>0, <1>2, <1>4, <1>5, FirstSustainedFinds
<1>8. c \in Nat /\ onset <= c
  BY <1>0, <1>2, <1>7, FirstSustainedIs
<1> HIDE DEF c
<1>9. collapse = c /\ collapse \in Nat /\ collapse <= flow.b
  BY <1>1, <1>6, <1>7, <1>8
<1>10. collapse \in Index
  BY <1>0, <1>9
<1> QED BY <1>7, <1>9, <1>10

(* A single burst is measured to a quarter cycle: the onset is found where it  *)
(* begins, a collapse where it ends, and the trip time reaches its last sample *)
(* above the collapse threshold and no sample of silence beyond a quarter.     *)
THEOREM BurstsAreMeasured ==
  ASSUME Records, NEW n \in 1 .. Window, CurrentsLast(n), CurrentsBurst(n),
         Reaches(On, Window - 1), NEW g \in 0 .. Window - 1, Reaches(Off, g),
         NEW e \in Nat, Rises(e), e + Confirm <= Window, 2 <= Confirm,
         g + e <= Quarter, Floor < Off
  PROVE  Spec => []MeasuredToAQuarter
<1>1. AnalysisInv /\ RecordIs /\ OnsetIs => MeasuredToAQuarter
  <2> SUFFICES ASSUME AnalysisInv, RecordIs, OnsetIs, Analysed, flow.c = flow.d,
                      Window <= flow.a, Window <= Conduction, flow.b + Persistence <= Size
               PROVE  trip # None /\ trip \in Conduction - Quarter .. Conduction + Quarter
    BY DEF MeasuredToAQuarter
  <2>1. pc = "analysed"
    BY DEF Analysed
  <2>2. /\ flow.a \in Nat /\ flow.b \in Nat /\ Window \in Nat /\ Window >= 2 /\ Size \in Nat
        /\ Persistence = 2 * Window /\ Quarter \in Nat /\ Quarter >= 1 /\ Confirm \in Nat
        /\ g \in Nat /\ e \in Nat /\ g < Window /\ g + e <= Quarter /\ e < Window
        /\ flow.a + Window + 1 <= flow.b /\ flow.b + 2 * Window <= Size
        /\ Conduction = flow.b - 1 - flow.a
    <3>1. /\ flow.a \in Nat /\ flow.b \in Nat /\ Window \in Nat /\ Window >= 2 /\ Size \in Nat
          /\ Persistence = 2 * Window /\ Quarter \in Nat /\ Quarter >= 1 /\ Confirm \in Nat
      BY FirstBurst, Sizes, Constants
    <3>2. g \in Nat /\ e \in Nat /\ g < Window /\ e < Window
      BY <3>1
    <3>3. Conduction = flow.b - 1 - flow.a
      BY DEF Conduction
    <3> QED BY <3>1, <3>2, <3>3
  <2>3. PICK i \in Index : flow.a <= i /\ i < flow.a + Window /\ mag[i] >= On /\ i + Persistence <= Size
    <3>1. Window - 1 \in Nat /\ flow.a <= flow.a /\ flow.a + (Window - 1) < flow.b
      BY <2>2
    <3>2. PICK i \in flow.a .. flow.a + (Window - 1) : i \in Index /\ i \in Nat /\ mag[i] >= On
      BY <2>2, <3>1, BurstReaches
    <3>3. flow.a <= i /\ i < flow.a + Window /\ i + Persistence <= Size
      BY <2>2, <3>2
    <3> QED BY <3>2, <3>3
  <2>4. onset # None /\ onset <= flow.a + e
    <3>1. flow.a + Window <= flow.b
      BY <2>2
    <3> QED BY <2>1, <2>2, <2>3, <3>1, OnsetWithThePeak
  <2>5. /\ onset \in Nat /\ flow.a <= onset + Window
        /\ onset < flow.a => onset = flow.stray /\ onset + 1 = flow.a
    BY <2>1, <2>4, OnsetNotBefore
  <2>6. 0 < onset /\ onset <= flow.b
    BY <2>2, <2>4, <2>5
  <2>7. collapse # None /\ collapse \in Index /\ collapse \in Nat /\ collapse <= flow.b
    BY <2>1, <2>5, <2>6, CollapseByTheEnd
  <2>8. PICK j \in Index : j \in Nat /\ j < flow.b /\ flow.b <= j + g + 1 /\ LastsUntil(j)
    <3>1. flow.a + Window <= flow.b
      BY <2>2
    <3> QED BY <2>5, <3>1, BurstLasts
  <2>9. j < collapse /\ trip \in Nat /\ j <= onset + trip /\ mag[j] >= Off
    BY <2>1, <2>7, <2>8, LastingIsMeasured DEF LastsUntil
  <2>10. Conduction - Quarter <= trip
    BY <2>2, <2>4, <2>5, <2>8, <2>9
  <2> DEFINE r == RefineEnd(collapse)
  <2>11. r \in Nat /\ trip = IF r >= onset THEN r - onset ELSE 0
    BY <2>1, <2>7, TripReaches
  <2>12. /\ r \in Index /\ mag[r] >= Floor
         /\ \E m \in 0 .. collapse - 1 : r <= m + Quarter
    <3>1. j \in 0 .. collapse - 1
      BY <2>7, <2>8, <2>9
    <3> QED BY <2>7, <2>9, <3>1, RefineEndIs DEF AnalysisInv, RecordOK
  <2> HIDE DEF r
  <2>13. r <= flow.b - 1 + Quarter
    <3>1. PICK m \in 0 .. collapse - 1 : r <= m + Quarter
      BY <2>12
    <3> QED BY <2>2, <2>7, <2>11, <3>1
  <2>14. onset < flow.a => r < flow.b
    <3> SUFFICES ASSUME onset < flow.a, flow.b <= r PROVE FALSE
      BY <2>2, <2>11
    <3>1. ~Flowing(flow, r)
      BY <2>2, <2>11, FirstBurst DEF Flowing
    <3>2. r = flow.stray
      BY <2>12, <3>1, FirstBurst, SampleIs
    <3> QED BY <2>2, <2>5, <3>2
  <2>15. trip <= Conduction + Quarter
    <3>1. CASE onset < flow.a
      BY <2>2, <2>5, <2>11, <2>14, <3>1
    <3>2. CASE flow.a <= onset
      BY <2>2, <2>5, <2>11, <2>13, <3>2
    <3> QED BY <2>2, <2>5, <3>1, <3>2
  <2>16. trip # None
    BY <2>9 DEF None
  <2> QED BY <2>2, <2>9, <2>10, <2>15, <2>16
<1> QED BY <1>1, RecordInvariance, PTL
=============================================================================
