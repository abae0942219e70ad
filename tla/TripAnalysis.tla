----------------------------- MODULE TripAnalysis -----------------------------
(* The measurement the rig is built for (ccid/analysis.py, algorithm v3): from *)
(* the magnitudes of one waveform to a trip time, its sanity checks, a verdict *)
(* and what the sequencer makes of them.  A record is any pattern of           *)
(* conduction, of an alternating current that crosses zero once in Window      *)
(* samples.  Indices are those of the code, from 0; times are in samples.  The *)
(* thresholds the code derives from the amplitude and the noise of the record  *)
(* are constants here, and no injection time is supplied, as in a campaign.    *)
EXTENDS Integers, FiniteSets, FiniteSetsExt, Functions

CONSTANTS
  Size,               \* samples in a record
  Pretrigger,         \* those before the trigger
  Window,             \* half a mains cycle, the envelope window
  Wave,               \* |v| while conducting, over half a mains cycle
  Flows,              \* the patterns of conduction a record may hold
  Floor, Off, On,     \* residual floor, collapse and conduction thresholds
  Leak,               \* RMS above which a quiet part is leaking
  Confirm,            \* samples that confirm a refined onset
  PassLimit,          \* pass_limit_s
  NoTripLimit,        \* no_trip_limit_s
  Uncertainty         \* endpoint_uncertainty_s

Quarter     == Window \div 2
Persistence == 2 * Window             \* one mains cycle
Guard       == 2 * Window

ASSUME AnalysisAssumption ==
  /\ {Size, Pretrigger, Window, Floor, Off, On, Leak, Confirm, PassLimit, NoTripLimit}
       \subseteq Nat \ {0}
  /\ Uncertainty \in Nat /\ Quarter > 0
  /\ Wave \in [0 .. Window - 1 -> Nat]
  /\ Floor <= Off /\ 5 * Off <= 4 * On /\ PassLimit < NoTripLimit
  /\ Guard < Pretrigger /\ Pretrigger < Size

VARIABLES
  flow,               \* when current flows: two intervals, and a stray sample
  mag,                \* magnitude: the absolute values of the samples
  lead,               \* envelope_end: the leading envelope
  pc,                 \* what has been computed last
  onset,              \* onset_index, or None
  collapse,           \* collapse_index, or None
  trip,               \* trip_time_s in samples, or None
  sanity,             \* the sanity checks that failed
  verdict,            \* the verdict of the table
  outcome             \* what the sequencer does with it

vars == <<flow, mag, lead, pc, onset, collapse, trip, sanity, verdict, outcome>>

Index == 0 .. Size - 1
None  == -1
First(S) == IF S = {} THEN None ELSE Min(S)
Sum(f, from, to) == FoldFunctionOnSet(+, 0, f, from .. to)
Clamp(i) == Max({0, Min({Size - 1, i})})             \* index_of_time

-----------------------------------------------------------------------------
(* sliding_max: the maximum over [i, i + Window), from the prefix and suffix   *)
(* maxima of blocks of Window samples, padded with zeros.                      *)
MaxOver(f, from, to) == Max({f[i] : i \in from .. to})
BlockStart(i) == i - (i % Window)
Padded(f)     == [i \in 0 .. BlockStart(Size - 1) + Window - 1 |->
                    IF i \in Index THEN f[i] ELSE 0]

SuffixMax(p, i) == MaxOver(p, i, BlockStart(i) + Window - 1)
PrefixMax(p, i) == MaxOver(p, BlockStart(i), i)

(* Mutant: the prefix of the wrong block. *)
EnvelopeOneShort(f) ==
  LET p == Padded(f) IN
  [i \in Index |-> IF i <= BlockStart(Size - 1) + 1 /\ Window > 2
                     THEN Max({SuffixMax(p, i), PrefixMax(p, i + Window - 2)})
                     ELSE SuffixMax(p, i)]

Envelope(f) ==
  LET p == Padded(f) IN
  [i \in Index |-> IF i <= BlockStart(Size - 1)
                     THEN Max({SuffixMax(p, i), PrefixMax(p, i + Window - 1)})
                     ELSE SuffixMax(p, i)]

(* _first_sustained_low: the first index of from .. limit from which the set   *)
(* of indices `low` holds for `length` samples.                                *)
FirstSustained(low, length, from, limit) ==
  First({i \in from .. Min({limit, Size - length}) : i .. i + length - 1 \subseteq low})

(* _find_burst_start: conduction was seen within the last half cycle, and the  *)
(* half cycle ahead carries enough energy for it not to be a spike.            *)
BurstStart ==
  LET ahead(i) == Min({i + Window - 1, Size - 1}) IN
  First({i \in Index :
    /\ \E j \in Max({0, i - Window + 1}) .. i : mag[j] >= On
    /\ 4 * Sum(mag, i, ahead(i)) >= On * (ahead(i) - i + 1)})

(* Mutant: the onset of version 2, refined on the envelope alone. *)
RefineStartUnconfirmed(burst) ==
  LET silent == {i \in 0 .. burst : lead[i] < Floor} IN
  IF burst <= 0 \/ silent = {} THEN burst ELSE Min({burst, Max(silent) + Window})

(* _refine_start_index: back through the leading edge, to a run of samples     *)
(* above the residual floor.                                                   *)
RefineStart(burst) ==
  LET silent    == {i \in 0 .. burst : lead[i] < Floor}
      candidate == Min({burst, Max(silent) + Window})
      found     == FirstSustained({i \in Index : mag[i] >= Floor}, Confirm, candidate, burst)
  IN IF burst <= 0 \/ silent = {} \/ found = None THEN burst ELSE found

(* _refine_end_index: the last sample above the collapse threshold, and        *)
(* forward from it, a quarter cycle at most, to the residual floor.            *)
RefineEnd(c) ==
  LET above    == {i \in 0 .. c - 1 : mag[i] >= Off}
      crossing == Max(above)
      residual == {i \in crossing .. Min({Size - 1, crossing + Quarter}) : mag[i] >= Floor}
  IN IF above = {} THEN Max({0, c - 1}) ELSE IF Floor >= Off THEN crossing ELSE Max(residual)

(* check_no_pretrigger_leakage on the first `count` samples. *)
Quiet(count) ==
  LET squares == [i \in Index |-> mag[i] * mag[i]] IN
  Sum(squares, 0, count - 1) <= Leak * Leak * count

(* Mutant: the guard cycle alone. *)
GuardOnly(t0) == Quiet(Clamp(t0 - Guard))

(* _pretrigger_leakage_ok: a guard cycle before t0, and the first quarter      *)
(* cycle of the record.                                                        *)
NoPretriggerLeakage(t0) ==
  /\ Quiet(Clamp(t0 - Guard))
  /\ Quiet(Clamp(IF t0 <= 0 THEN Quarter ELSE Min({t0, Quarter})))

-----------------------------------------------------------------------------
(* Mutant: the pass limit is looked at first, and it is the wrong one. *)
DecidePassFirst(t) ==
  IF t # None /\ t < NoTripLimit + Uncertainty THEN "PASS" ELSE "NO_TRIP"

(* _decide: the verdict table, with half a sample of tolerance. *)
Decide(t) ==
  IF t = None \/ 2 * t >= 2 * (NoTripLimit - Uncertainty) - 1 THEN "NO_TRIP"
  ELSE IF 2 * t <= 2 * PassLimit + 1 THEN "PASS" ELSE "FAIL"

(* The collapse: the envelope stays low for a whole mains cycle.  0 is no      *)
(* collapse.                                                                   *)
Collapse(from, limit) ==
  LET c == FirstSustained({i \in Index : lead[i] < Off}, Persistence, from, limit)
  IN IF c = 0 THEN None ELSE c

(* The sequencer halts on two of the checks, whatever the verdict. *)
Outcome(failed, v) ==
  IF "no_pretrigger_leakage" \in failed \/ "record_spans_no_trip_limit" \in failed
    THEN "RIG_FAULT" ELSE v

(* analyze_samples, one action per quantity it derives. *)
Step(from, to) == pc = from /\ pc' = to

ExtractEnvelope ==
  /\ Step("captured", "enveloped")
  /\ lead' = Envelope(mag)
  /\ UNCHANGED <<flow, mag, onset, collapse, trip, sanity, verdict, outcome>>

FindBurst ==
  /\ Step("enveloped", "burst")
  /\ onset' = BurstStart
  /\ UNCHANGED <<flow, mag, lead, collapse, trip, sanity, verdict, outcome>>

RefineOnset ==
  /\ Step("burst", "onset")
  /\ onset' = RefineStart(onset)
  /\ UNCHANGED <<flow, mag, lead, collapse, trip, sanity, verdict, outcome>>

T0    == IF onset = None THEN Pretrigger ELSE onset
Valid == Max({T0, Size - Window})
Live  == {i \in T0 .. Valid - 1 : lead[i] >= On}

FindCollapse ==
  /\ Step("onset", "collapse")
  /\ collapse' = IF onset = None THEN None ELSE Collapse(onset, Valid)
  /\ UNCHANGED <<flow, mag, lead, onset, trip, sanity, verdict, outcome>>

Measure ==
  /\ Step("collapse", "measured")
  /\ trip' = IF collapse = None THEN None ELSE Max({0, RefineEnd(collapse) - T0})
  /\ UNCHANGED <<flow, mag, lead, onset, collapse, sanity, verdict, outcome>>

(* Mutant: reignition is looked for during the confirming cycle alone. *)
FailsEarly(check) ==
  CASE check = "no_pretrigger_leakage"      -> ~NoPretriggerLeakage(T0)
    [] check = "burst_starts_near_t0"       -> onset = None
    [] check = "record_spans_no_trip_limit" -> Size - 1 - T0 < NoTripLimit
    [] check = "collapse_is_clean"          ->
         collapse # None /\ \E i \in Live : collapse <= i /\ i < collapse + Persistence
    [] check = "no_trip_persistent"         -> collapse = None /\ T0 = Valid

Fails(check) ==
  CASE check = "no_pretrigger_leakage"      -> ~NoPretriggerLeakage(T0)
    [] check = "burst_starts_near_t0"       -> onset = None
    [] check = "record_spans_no_trip_limit" -> Size - 1 - T0 < NoTripLimit
    [] check = "collapse_is_clean"          -> collapse # None /\ \E i \in Live : i >= collapse
    [] check = "no_trip_persistent"         ->
         collapse = None /\ (T0 = Valid \/ 100 * Cardinality(Live) < 95 * (Valid - T0))

(* The checks (without signal_present, which only words a note).  The verdict  *)
(* never looks at them; the sequencer does, before it looks at the verdict.    *)
Judge ==
  /\ Step("measured", "analysed")
  /\ sanity' = {s \in {"no_pretrigger_leakage", "record_spans_no_trip_limit",
                       "burst_starts_near_t0", "collapse_is_clean",
                       "no_trip_persistent"} : Fails(s)}
  /\ verdict' = Decide(trip)
  /\ outcome' = Outcome(sanity', verdict')
  /\ UNCHANGED <<flow, mag, lead, onset, collapse, trip>>

-----------------------------------------------------------------------------
(* External: the current flows over [a, b) and, when it comes back, over       *)
(* [c, d), the wave beginning at any phase; or one sample of a record with a   *)
(* single burst is off by the residual floor.                                  *)
Flowing(f, i) == (f.a <= i /\ i < f.b) \/ (f.c <= i /\ i < f.d)

Captured(f, phase) ==
  [i \in Index |-> IF Flowing(f, i) THEN Wave[(i + phase) % Window]
                   ELSE IF i = f.stray THEN Floor ELSE 0]

Init ==
  /\ flow \in Flows
  /\ \E phase \in 0 .. Window - 1 : mag = Captured(flow, phase)
  /\ lead = [i \in Index |-> 0]
  /\ pc = "captured" /\ onset = None /\ collapse = None /\ trip = None
  /\ sanity = {} /\ verdict = "none" /\ outcome = "none"

Next == ExtractEnvelope \/ FindBurst \/ RefineOnset \/ FindCollapse \/ Measure \/ Judge

Spec == Init /\ [][Next]_vars

-----------------------------------------------------------------------------
(* The block algorithm of sliding_max computes the maximum over each window,   *)
(* cut off by the end of the record.                                           *)
EnvelopeExact ==
  pc # "captured" =>
    lead = [i \in Index |-> MaxOver(mag, i, Min({Size - 1, i + Window - 1}))]

Analysed   == pc = "analysed"
Conduction == flow.b - 1 - flow.a           \* of the first burst, as measured

(* A burst in a quiet record is measured to a quarter cycle, whatever its      *)
(* phase, its length and the stray sample: neither a zero crossing nor noise   *)
(* passes for the start or the end of conduction.                              *)
MeasuredToAQuarter ==
  /\ Analysed /\ flow.c = flow.d
  /\ Window <= flow.a /\ Window <= Conduction /\ flow.b + Persistence <= Size
  => trip # None /\ trip \in Conduction - Quarter .. Conduction + Quarter

(* A device that conducted for the no-trip limit is never let go on: the       *)
(* campaign halts, on the verdict or on the rig, even if current flows again.  *)
LongBurstHalts ==
  Analysed /\ Window <= flow.a /\ NoTripLimit <= Conduction =>
    outcome \in {"NO_TRIP", "RIG_FAULT"}

(* A PASS whose collapse is reported clean is earned: no current flows beyond  *)
(* the pass limit (but in the last sample, which no valid window reaches),     *)
NothingAfterPass ==
  Analysed /\ outcome = "PASS" /\ "collapse_is_clean" \notin sanity =>
    \A i \in 0 .. Size - 2 : mag[i] >= On => i <= onset + PassLimit

(* and none flowed before its onset. *)
PassIsEarned ==
  /\ NothingAfterPass
  /\ Analysed /\ outcome = "PASS" /\ "collapse_is_clean" \notin sanity =>
       \A i \in 0 .. Size - 2 : mag[i] >= On => onset <= i

(* Current that flows as the record begins, and for a quarter cycle at least,  *)
(* is a welded K3, not a measurement, whatever follows: the campaign halts.    *)
StuckK3Halts ==
  Analysed /\ flow.a = 0 /\ flow.b >= Quarter => outcome = "RIG_FAULT"

-----------------------------------------------------------------------------
(* What the theorems suppose of the records and of the current: any wave, any  *)
(* flow would satisfy no property, as the thresholds of the code take a mains  *)
(* current for granted.  A burst may begin at any phase.                       *)
Phases        == 0 .. Window - 1
Steady(phase) == [i \in Index |-> Wave[(i + phase) % Window]]

(* Two intervals of current in order; a stray sample is that of a single burst *)
(* which begins a mains cycle or more after the record.                        *)
Records ==
  \A f \in Flows :
    /\ {f.a, f.b, f.c, f.d} \subseteq 0 .. Size /\ f.a < f.b /\ f.b <= f.c /\ f.c <= f.d
    /\ f.stray # None => f.stray \in Index /\ f.c = f.d /\ 2 * Window <= f.a

(* A burst lasts for n samples, or until the record ends.                      *)
CurrentsLast(n) ==
  \A f \in Flows : /\ f.b - f.a >= n \/ f.b = Size
                   /\ f.d - f.c >= n \/ f.d = Size \/ f.c = f.d

(* n samples of it, from the first that conducts on, are no spike.             *)
CurrentsBurst(n) ==
  \A p \in Phases, k \in 0 .. n - 1 :
    Steady(p)[k] >= On /\ (\A j \in 0 .. k - 1 : Steady(p)[j] < On)
      => 4 * Sum(Steady(p), k, n - 1) >= On * Window

(* Current that flows as the record begins leaks: over a quarter cycle, and up *)
(* to its first sample that conducts.                                          *)
StartsLoud ==
  \A p \in Phases, n \in 1 .. Quarter :
    n = Quarter \/ (\E m \in 0 .. n : Steady(p)[m] >= On)
      => Sum([i \in Index |-> Steady(p)[i] * Steady(p)[i]], 0, n - 1) > Leak * Leak * n

(* Around a zero crossing g samples at most stay below a level, and e at most  *)
(* come before Confirm in a row that rise above the residual floor.            *)
Reaches(level, g) == \A p \in Phases : \E j \in 0 .. g : Steady(p)[j] >= level
Rises(e)          == \A p \in Phases : \E j \in 0 .. e :
                       \A m \in j .. j + Confirm - 1 : Steady(p)[m] >= Floor
=============================================================================
