# Verification of the CCID automation rig

`ccid` drives a test rig that trips a charging circuit interrupting device
(CCID) thousands of times: it powers an EVSE through two mains contactors (K1,
K2), waits until a camera sees its LED charging, injects a leakage current
through a third contactor (K3), records the current with an oscilloscope, and
decides from the record whether the device tripped in time. Campaigns run
unattended for days under systemd. This directory holds TLA+ models of the
program, the TLC configurations that check them, and proofs checked by TLAPS.

## 1. Inventory

| Part (source) | State | Operations | Talks to |
|---|---|---|---|
| Contactor controller (`hal/gpio_real.py`, `hal/gpio_sim.py`), `safe_off` (`safety.py`) | commanded shadow, GPIO outputs, used gate tokens, mismatch timer | close/open K1..K3, mismatch poll, `safe_off` | GPIO |
| Commissioning tool (`tools/gpio_selftest.py`) | pulse number, next call | `exercise`, `mismatch-test`, Ctrl-C | controller |
| Cycle sequencer (`sequencer.py`) | position in the cycle, retry flag, `RunState` | one cycle: gate, scope stages, injection, acquisition, transfer, analysis, commit, cooldown | controller, scope, camera, recorder |
| Campaign lifecycle (`main.py`) | streaks, stop flag, exit code | start, resume, auto-retry, shutdown, alerts | sequencer, signals, notifier |
| Notifier and watchdog (`main.py`, `deploy/`) | time since the last ping, chunk of the sleep | `sleep`, ping, SIGTERM handler, restart | systemd, sequencer |
| Oscilloscope session (`hal/scope_real.py`) | resource manager, session, `_connection_unusable`, timeout | connect, disconnect, every call through `_retry_io`, bounded diagnostics | instrument |
| Equipment refresh (`sequencer.py`) | camera streak, schedule | refresh of scope and camera at the head of a cycle | session, camera |
| Acquisition poll (`sequencer.py`, `hal/scope_real.py`) | deadlines, `opened`, forced trigger | poll, force, backstop, timeout | scope, K3 |
| Recorder (`recorder.py`) | artifacts, `cycles.csv`, `runstate.json`, `diagnostics/` | commit, mark halt, reconcile, evidence | file system, heartbeat |
| Charging gate, LED classifier (`classify.py`), camera (`hal/camera_real.py`) | latest frame, failures, window, green evidence | reader loop, sample, gate, degrade, refresh | camera thread |
| Trip analysis (`analysis.py`) | none | record to trip time, checks and verdict | sequencer |
| Configuration, offline analysis, bench tools, simulated scope and camera, forced-capture report | - | - | not modelled, see section 8 |

How they interact. The program is one thread: every scope or GPIO call blocks
it. Beside it run the camera's reader thread, the signal handler (it only sets
a flag, which sleeps look at), the oscilloscope, the device under test, and
systemd, which kills a process that stops pinging and starts another. Errors
travel as exceptions: an attempt turns most of them into a halt, the
sequencer's `finally` de-energizes and disconnects, `main` retries a halted
campaign past the cycle it failed in.

What is hard. An exception or a signal can surface at nearly every step, with
contactors closed; a GPIO call can raise after it moved the contactor; scope
calls block longer than the deadlines they race, and reconnect inside; the
trigger event register is cleared by the read that a retry repeats; a query of
the diagnostics can wedge the transport for every call that follows; the reader
thread fails by stopping as well as by returning errors; the process can die
between any two writes of a commit; auto-retry skips cycles, so rows and indices
are sparse.

What makes each part correct:

- controller: no leakage on a half-closed supply, no hot switching, one
  injection per token, `safe_off` that reports the truth, a mismatch detector
  that is neither late nor, when fresh, early;
- campaign: nothing energized in any wait or at exit, K3 closed only inside
  an attempt, rows only for injected cycles, bounded retries, an exit code that
  agrees with the disk, an end;
- service: a long sleep is neither killed by the watchdog nor deaf to a stop, a
  halt outlives a kill, contactors a kill left closed are opened again;
- session and refresh: no call on a session that is dropped or half configured,
  a wedged transport left alone, no session left behind, a camera that is
  refreshed in time, no row by an attempt that wrote down a failure;
- acquisition: K3 opens within a bound, the answer tells what triggered;
- recorder: a certified cycle is never lost or counted twice, a resume leaves no
  trace of an uncommitted one;
- gate: the boot animation never grants, an answer rests on the polls of its own
  call, a steady green is granted, the gate answers;
- analysis: an exact envelope, a trip time right to a quarter cycle, no PASS for
  a device that kept conducting or for a welded K3.

`PROJECT.json` lists the hazards, each at its line, with the properties that
cover it or the reason none does.

## 2. Modules

| Module | Models | Composition |
|---|---|---|
| `Interlock` | abstract: four energy levels, single-use tokens | |
| `InjectionWindow` | abstract: one injection of an attempt, K3 open before its answer | |
| `Contactors` | controller, failing GPIO calls, `safe_off` call by call, restart | implements `Interlock` |
| `SelfTest` | mismatch detector with its timer; the commissioning tool on real and simulated GPIO | EXTENDS `Contactors` |
| `CycleSequencer` | `Sequencer.run` and a cycle with every handler | EXTENDS `Contactors` |
| `Campaign` | `_execute_campaign`, auto-retry, shutdown, exit codes | EXTENDS `CycleSequencer`, implements `InjectionWindow` |
| `ScopeSession` | the driver's session: connect, `_retry_io`, diagnostics, disconnect | |
| `Equipment` | every scope call of a campaign, refresh, diagnostics files, auto-retry | EXTENDS `ScopeSession` |
| `Service` | the campaign under systemd: sleep, watchdog, SIGTERM, kill, restart, resume | |
| `Acquisition` | TER checks, injection, poll, backstop, forced trigger, and the scope | implements `InjectionWindow` |
| `DurableLog` | abstract: an append-only log, certified by heartbeats | |
| `Recorder` | commit, halt marks, resume and reconciliation, crashes, torn rows, power loss | implements `DurableLog` |
| `ChargingGate` | reader thread, classifier window, policy, gate | |
| `TripAnalysis` | algorithm v3 on one record | |
| `Contactors_proofs`, `Campaign_proofs`, `Equipment_proofs`, `Service_proofs`, `Acquisition_proofs`, `ChargingGate_proofs`, `Recorder_proofs`, `TripAnalysis_proofs` | theorems | EXTEND their module and `TLAPS`; `Contactors_proofs` covers `SelfTest` too, and `Campaign_proofs` EXTENDS it |
| `MC*` | constants for TLC, each with its `.cfg` files | EXTEND their module |

How state and actions correspond to the code:

- **Contactors.** `commanded` is `_commanded`, `pin` the output in the world,
  `lastOk` remembers whether the latest call of a contactor succeeded. `_apply`
  writes the shadow only after the device call, so a failing call may or may not
  move `pin` and leaves `commanded`. `safe_off` is one action per call, because
  a signal or a crash can fall between two.
- **SelfTest.** `timer` is `_mismatch_started_s` as an age: a poll starts and
  clears it, nothing else does. A behaviour is either an arbitrary client of the
  controller, or one run of `exercise` or `mismatch-test`; on the simulator calls
  do not fail.
- **CycleSequencer.** `pc` is the `CycleState` about to run, `outcome` what is
  being propagated: nothing, a halt, or an exception leaving `run()`. `site`
  remembers which call of `safe_off` is running. `disk` is `runstate.json`,
  `rows` the verdicts in `cycles.csv`. Every stage has its except clauses: an
  attempt's exception becomes a halt, an error outside the `try` escapes.
  The gate, the acquisition and the analysis are choices among their answers here;
  the modules of their own say which answers they give. For the acquisition the two
  views meet in `InjectionWindow`, which `Acquisition` implements tick by tick and
  `Campaign` attempt by attempt.
- **Campaign.** `noTripStreak` and `otherStreak` are the locals of the
  auto-retry loop, `stop` the signal flag, which only the sleeps read
  (`Interrupted`). `exitCode` is -1 while the process
  runs and 1 after a traceback. `lateInjections` is history.
- **ScopeSession, Equipment.** `rm` and `inst` are `_rm` and `_inst`, `quick` says
  that the session still has the one-second timeout of the diagnostics. Every
  operation on the instrument may raise; `attempt` counts those of `_retry_io`.
  `stage` is the call of the cycle, and an exception goes to the handler around
  it; what a cycle does between two calls to the oscilloscope (contactors, camera
  settings) belongs to the stage before. `evidence` is what this attempt wrote under
  `diagnostics/<n>/`, `leftover` what an earlier process left there, which nothing
  deletes. `worn` and `wornInRun` count cycles without a camera since its last refresh,
  which the code's own streak forgets at every auto-retry.
- **Service.** `at`, `chunk` and `remaining` are the loop of
  `SystemdNotifier.sleep`; what the campaign does between two sleeps takes any
  time. `energized` survives the process. `mark` and `edited` are the two grounds on
  which `resume` refuses.
- **Acquisition.** `now` counts ticks since K3 closed, where the deadlines of K3
  begin; `start` is where the timeout begins, after the first snapshot; `nowS` is
  the reading the loop decides on, so the staleness of a clock read before a
  blocking call is in the model. `Calls(n)` is the time of n queries or writes in a
  row, the snapshots of the diagnostic timeline among them: they are best effort,
  but each asks the scope and blocks. `Trigger` and `Fill` are the oscilloscope.
- **Recorder.** `art`, `csv` and `runstate` are the files, `mem` the
  `RunState` in memory, `beat` the last heartbeat, `settled` the
  `runstate.json` a power loss falls back to. `faults` chooses, once, which rare
  events a behaviour is exposed to. An index is a number in base `Radix`, so that a
  torn one is a shorter number (12 becomes 1). The rewrite of `cycles.csv` is
  two steps: opening truncates it, then the kept rows are written back.
- **ChargingGate.** A frame is the set of hues in it, or lit without any of them
  (`NoHue`), or unusable; `greenAt` is the history of the polls of this call that
  saw green. Time counts polls. The
  reader may do nothing for ever, which is a hung camera; `Refresh` is the
  equipment refresh of a later cycle.
- **TripAnalysis.** A record is `|v|` at each index. `flow` is when current
  really flowed, so properties compare the measurement with the truth. `Records` to
  `Rises`, at the end of the module, are what the theorems suppose of `Flows` and
  `Wave`.

`PROJECT.json` "map" gives the lines of every definition.

## 3. Runs

| Run | Question | Bounds |
|---|---|---|
| `contactors` | do the interlock, the report of `safe_off`, the tool and the detector survive failing calls and restarts? | 2 tokens, 2 pulses, stagger window 0..2 ticks |
| `campaign` | what holds of a whole campaign under every failure, signal and retry? | 3 cycles, both streak limits 2 |
| `equipment` | which session does a call find, and what is refreshed and written down? | 6 cycles, schedule every 3, streak of 2, 2 attempts a call; no files or two of an earlier process |
| `service` | what can a sleep survive, and what does a kill leave? | tick 2.5 s: watchdog 4, restart 2, stop limit 8, alert 2; sleeps of 0, 1, 3, 5 |
| `recorder` | do crashes and resumes keep the promise of `DurableLog`, and what survives rarer events? | 3 cycles, base 2; no rare event, torn rows, or all four |
| `acquisition` | how long can K3 stay closed and what can become a measurement? | force 1, backstop 3, timeout 6 ticks; a call blocks 0..2 |
| `charging_gate` | what grants K3? | 5 polls, 3-frame window, 2 greens 2 polls apart, 5 kinds of frame |
| `trip_analysis` | is the measurement right? | 46 samples, 6 per half cycle |

Why the bounds suffice. Three cycles give a first, a repeated and a last cycle, with a
skip between two commits; limits of two exercise reset, increment and exhaustion of both
streaks. Six cycles with a schedule of three let the two kinds of refresh come first,
second and together, and an auto-retry fall between them; a cycle finds no files, or a
file of each of two handlers. The longest sleep of `service` is longer than the watchdog
and takes three chunks, the last a part of one. In base 2 the indices of cycles 2 and 3
have two digits, so a tear inside an index names a smaller cycle. One acquisition tick
is a third of the backstop, so a blocking call can begin before a deadline and end after
it. The gate's five polls let evidence be built, broken and rebuilt before the deadline.
`trip_analysis` takes every single burst at every phase of the current, four bursts with
a stray sample at every place, and a second burst after a short or a long first one. Its
waveform has samples on the ramps between the thresholds: with the scope's dense
sampling there always are some, and a coarser wave would jump over the conditions the
algorithm decides on.

What the passing runs show is stated above each property. The less obvious ones:

- `WiredInterlock` and `NoHotSwitching` speak of the wires; the code decides on
  its shadow, so both hold up to a contactor whose own latest call failed.
- `SafeOffReportTruthful`: if K3 does not open, the mains stay closed too,
  because the interlock refuses `open_k2` and `open_k1`; `safe_off` names all
  three. `docs/sequencer-and-state-machine.md:52` can be read as promising that
  the mains open anyway.
- `DetectorKeepsWindow` says "never late" of any client and "never early" of a
  fresh detector only. A timer left by a mismatch that came and went between two
  polls makes the next answer early. With a window of zero the first poll that sees
  a mismatch answers "mismatch" at once, but a second poll at the same reading of
  the clock compares 0 > 0 and answers "clear".
- `AtMostOneInjectionAfterStop`: a signal is seen by sleeps only, so one
  injection may still begin; never a second.
- `StreaksBounded` reads the limits off the rows, not off the counters.
- `WedgedLeftAlone`: the driver refuses everything after a diagnostics query
  failed. Every later `connect()` then raises, so the auto-retry of such a halt
  ends in a traceback and exit code 1, not in a halt.
- `FailedAttemptHasNoRow` speaks of one attempt. A campaign that is resumed runs the
  halted cycle again, and its row then lies beside the evidence of the first attempt;
  a bundle written in part can mix files of both. A reader has to tell them apart by
  their times, not by the index of the directory.
- `RefreshDue` bounds the streak within one `run()` and the schedule across all of
  them; the reactive streak starts again at every auto-retry.
- `SleepOutlivesWatchdog`: `sleep` pings after a chunk, not before, so a process
  that worked for half the interval before it fell asleep can still be killed in
  the first chunk. That is all a sleep can be blamed for.
- `ReopenedAfterKill` excepts a halt mark and an edited configuration: `resume`
  refuses these before it builds the hardware, and the contactors stay as the
  dead process left them.
- `K3ClosedBounded`: a backstop, seven queries or writes and two sleeps. The turn of
  the loop that forces a trigger makes up to five, the snapshots of the diagnostic
  timeline included, before it compares the backstop with the reading it began on, and
  two more before the next reading; `MaxCall` is one call with its repetitions.
- `AnswerTellsTrigger` excepts a register whose set bit was read by a query
  whose answer was lost (`terLost`): the retry reads a cleared register.
- `ClaimsBacked` and `NoDoubleCount` name the rare events they hold under. A torn
  index leaves a row of a smaller cycle, which a resume keeps.
- `NothingCarriedOver`: a grant has its greens, and a give-up its red or blue, among
  the polls of this call. What a poll looks at is the camera's latest frame, which can
  be older than the call; `charging_gate_stale` is about that.
- `BootAnimationNeverGrants` measures the time since the last red or blue seen
  rather than the policy's own deque.
- `LongBurstHalts`, `StuckK3Halts` and `PassIsEarned` compare the outcome with the
  current that really flowed. `PassIsEarned` needs `collapse_is_clean`: a record
  whose current comes back is a PASS whose check failed, by design of the code,
  and the last sample of a record is in no full window. Its two halves differ in
  kind: nothing beyond the pass limit (`NothingAfterPass`) is true of any record,
  nothing before the onset only where a burst has the energy of a wave.
- `MeasuredToAQuarter` needs a confirmation of two samples. The code confirms an onset
  on `max(1, round(2 us / interval))` samples, so at an interval above 4/3 us a single
  stray sample is the "sustained run" that `config.yaml:83` speaks of, and passes for
  the onset again; with `Confirm = 1` TLC finds it. The records of the rig are denser.
- `SteadyGreenIsGranted` depends on how often the gate polls; `PollsOftenEnough` says
  what it takes. The numbers of `config.yaml` (three greens over 3.5 s in a window of
  6 s) allow 2.5 s between polls; `ccid/config.py` only checks the span against the window.

Four runs show a disagreement between the code and what a doc or comment of the
repository says; each checks one property and TLC finds it violated. The quotes
are in `PROJECT.json` "findings".

| Run | What happens |
|---|---|
| `campaign_stop_as_halt` | a stop signal that a sleep inside an attempt notices (in the trace the first sleep of the charging gate, before which the signal has come) is recorded as the halt `unexpected:StopRequested` |
| `campaign_exit_zero` | a skipped last cycle ends in exit code 0 |
| `recorder_rewrite_crash` | a crash during the in-place rewrite of `cycles.csv` loses committed rows |
| `charging_gate_stale` | the gate is granted on a frame the camera reports as stale |

Smaller disagreements met while modelling, which no run is spent on:

- the hardware doc says a scope call is retried three times, "reconnecting between
  attempts"; a reconnection that fails ends the retry at once with its own exception;
- after a scope refresh failed the log says it continues "with the existing
  connection", although that has been dropped; `connect()` at the next call is what saves it;
- `main.py` says a halted cycle "still has diagnostics/<n>/ evidence"; halts
  raised by a check rather than by a timeout or an unexpected exception leave none;
- `docs/cli-lifecycle-and-monitoring.md:54` says "a long sleep never causes systemd
  to think the process hung"; true from the first ping on (see above);
- the comment at the K3 backstop calls it unconditional; scope calls that block
  delay it, by the amount `K3ClosedBounded` gives.

## 4. Fairness

Weak fairness is assumed of steps of the program: `CampaignStep` for
`CampaignEnds`, `Program` for `PollEnds`, `Gate` for `GateAnswers`. The program
is one thread that nothing suspends for ever; each scope call is bounded by its VISA
timeout and its three attempts, each sleep by its argument. For
`ReopenedAfterKill` time passes (`Tick`), systemd restarts as the unit file says
(`Restart`), and a new process gets to read its files and build its hardware
(`Load`, `Build`); nothing says that a campaign ends or an operator comes.
Nothing is assumed of the signal, the oscilloscope, the device under test or the
camera's reader thread: a signal may never come, a trigger may never happen, the
reader may hang. The other modules need no fairness: their properties are about
safety.

## 5. Proofs

All theorems hold for every value of the constants allowed by the named
assumptions of the modules.

**Controller** (`Contactors_proofs`; any set of tokens). The interlock on the
commands is not inductive with respect to the wires, so `ContactorInv` adds that
the shadow is truthful for every contactor whose latest call succeeded
(`ShadowTruthful`), and how far a running `safe_off` has come and what it has to
show for it (`SafeOffProgress`). From it: `K3WiredInterlock`,
`SafeOffIsTruthful`, `NeverHotSwitches`, and `Implementation`: each step of the
controller is a step of `Interlock` or a stutter.

**Commissioning** (`Contactors_proofs`; any number of pulses, stagger window and poll
spacing). Every step of the tool or of a client that polls the detector is one call
on the controller or leaves it alone (`CommissioningDrivesController`), so
`ContactorInv` holds. `ToolInv` says, for the call the tool is about to make, which
contactors are commanded, that it has spent no token ahead of its pulse, and that no
`safe_off` is under way: hence `ToolIsNeverRefused`. `DetectorInv` compares the age
`timer` with the age of the first poll that saw this mismatch; they agree in
`mismatch-test`, and otherwise the timer is the older: hence `DetectorIsPunctual`.

**Campaign** (`Campaign_proofs`; any number of cycles, any streak limits), in
layers:

1. `ProgramInv`: types and control; which `pc` goes with which `outcome`, `site`
   and streak. `cycle` may be `Target + 1` only where a run is about to return.
   `TypeCorrect` follows.
2. `CampaignDrivesController`: every step of a campaign is one call on the
   controller or leaves it alone. So `Spec => ContactorSpec`, and `ContactorInv`
   with all of the controller's theorems holds in a campaign without being proved again.
3. `EnergyOK`: at which `pc` everything is off, both mains are on, K3 may be on.
   The step that matters is a `safe_off` that reports no failure: by `ContactorInv`
   everything is then open. From it `WaitsDeenergized`, `InjectionContained`,
   `ExitsDeenergized`.
4. `TokensOK`: tokens spent are of cycles up to the current one, fresh until
   injection, and rows only follow spent tokens; a late injection happens at most
   once, since the next cooldown sees the signal. From it `InterlockUntouched`,
   `RowsAreEarned`, `StopAllowsOneInjection`, and with `ProgramInv` the action
   property `RowsAreFinal`.
5. `MarkOK` and `ExitOK`: from the moment a halt is written, through the `finally`
   clause, the auto-retry and the shutdown, `runstate.json` names the halt that is
   on its way out, and a NO_TRIP has its row; exit code and alerts are set once.
   From them `ExitCodeIsOnDisk`.
6. `RowOK` and `StreakInv`: a cycle whose row says NO_TRIP is on its way to the
   auto-retry, and only a measured one reaches the cooldown; so the cycles since the
   last measured one are covered by the two streaks, counted by the cardinality of
   intervals of rows. From them `StreaksStayBounded`: the limits hold of the rows
   themselves, not only of the counters.
7. `AttemptsImplementWindow`: the attempts of a campaign, with every failure, retry,
   halt and shutdown between them, implement `InjectionWindow`. Almost every step is
   `QuietWindow`, which moves neither K3 nor the stage; `EnergyOK` of layer 3 says
   that a new attempt begins with K3 open and that the answer of the poll comes
   after it was opened.

**Equipment** (`Equipment_proofs`; any schedule, threshold, number of attempts and
cycles). `SessionOK` ties `rm`, `inst`, `quick` and `unusable` to where the program
stands; it is what makes `WedgedLeftAlone` inductive, since an exception can leave the
diagnostics from any of their operations. `RecordOK` says of one attempt that it has
written no evidence while it can still commit. `StreakOK` ties the code's streak to the
history of one `run()`; `WornOK` bounds the history across all of them by the remainder
of the cycle index modulo `Interval`, with three lemmas about remainders.

**Service** (`Service_proofs`; any watchdog of two ticks or more, any limits and
sleeps). `StepBounds`: twice a chunk is at most the watchdog. `PingBudget` and
`StopBudget` say what is used up of the two clocks at each point of the sleep;
`HaltNotForgotten` is inductive by itself.

**Acquisition** (`Acquisition_proofs`; any deadlines, poll interval and length of a
call). `Shape` says what `nowS` and `opened` mean at each `pc`; `Budget` bounds `now` at
each `pc` by the backstop, the calls this turn of the loop has made, snapshots included,
and the sleeps: the turn that forces is the first past its deadline, so the turn before
it was a short one; `Evidence` says where a natural, early or forced trigger leaves its
trace until a read takes it. `Implementation`: every step of the poll, the backstop and
the scope is a step of `InjectionWindow` or a stutter, so that what `CycleSequencer`
takes an acquisition to be is what the poll does.

**Gate** (`ChargingGate_proofs`; any window, policy and set of frames). `GreenOK` bounds
every entry of the green evidence by the last red or blue poll, and finds it again among
the polls of this call that saw green (`Own`); `RedOK` traces the red of a retry to a
poll of this call. From them `AnswersAreOfThisCall`, which is about the polls: the frame
that a poll finds can be older than the call. `SteadyGreenGranted` assumes
`PollsOftenEnough` (TLC checks that the instance satisfies it) and rests on `SteadyInv`:
while every poll has seen green, each stretch of `MaxSleep` in the window holds a poll
of the evidence. Choosing one poll from each of `GreenFrames` disjoint stretches counts
enough frames (`DenseCount`), the stretch at the old end of the window gives the span
(`GreenPoll`), so the policy has granted before the deadline (`DeadlineIsLateEnough`).

**Recorder** (`Recorder_proofs`; any number of cycles, base and set of rare
events). `Place`: everything between the last claim and the process's own index was
passed over. `Claims`: the claimed cycles have their artifacts and their number is
the total, for the current `runstate.json` and the one a power loss would leave,
until a second start. `Rows`: no claim without a row as long as nothing worse than a
torn row can happen. `RowsOnce`: with whole rows, one of each and none ahead of the
process, which is what makes the repetition of an interrupted cycle safe. Then
`Log = Claimed(runstate)`, from which `Implementation`: `AdvanceRunstate` records,
`Heartbeat` certifies, all else stutters.

**Analysis** (`TripAnalysis_proofs`; any record of naturals, any window and thresholds
the assumption allows). First the operators:

1. `LeastNumber`: a non-empty set of naturals has a least element. The induction
   theorems of the library are out of reach, since they take an operator, but the
   well-foundedness of inclusion on finite sets is a plain fact, and initial segments
   carry it over to numbers. `MinIsLeast`, `MaxIsGreatest` and `MaxTaken` (a function
   takes its maximum over an interval) follow.
2. Sums. `Sum` is a fold of the library, a function that recurses over subsets in the
   order of `CHOOSE`. `LeastSet` is the same induction for sets; `Accumulator` and
   `AccumulatesOnce` say that the recursion has one solution, `TotalLess` that the order
   does not matter. Then `SumIs` (an interval without its first or last sample),
   `SumShifted` (the same samples somewhere else) and `SumGrows`.
3. `BlockIs`, `BlockFrom`, `NextBlock`: where the blocks of `sliding_max` lie.
   `PaddedMaximum`: padding with zeros changes no maximum. Together
   `EnvelopeIsMaximum`: a suffix of one block and a prefix of the next make up a window.
4. `FirstSustainedIs`, `FirstSustainedFinds`, `BurstIs`, `RefineStartIs`, `RefineEndIs`:
   what the searches return, and that they miss nothing.

`AnalysisInv` then says that every quantity is what its layer makes of the record,
from the action that derives it on. From it:

- `EnvelopeIsExact`;
- `TripTimeEndsTheCurrent`: past the trip time nothing conducts, up to the end of the
  silence that confirms the collapse; a positive one, where anything conducted before
  the collapse, ends on a sample above the residual floor, a quarter cycle at most
  after one that conducted;
- `LastingCurrentNeverGoesOn`: current interrupted for less than that silence, up to
  the no-trip limit less its uncertainty, halts the campaign;
- `NothingFollowsAPass`: before the collapse a conducting sample is within the trip
  time; in the valid windows after it, it would fail `collapse_is_clean`; and past those
  it is in the last valid window.

These hold of any record. The other four compare the measurement with the current
that really flowed, and no algorithm with fixed thresholds measures any current. They
are proved from what the end of `TripAnalysis` supposes, for every wave, phase and
length of record: `CurrentsBurst(n)`, n samples from the first that conducts have the
energy of a burst, and `CurrentsLast(n)`, every burst has n; `Reaches(Off, g)`, at most g
samples of a zero crossing stay below the collapse threshold; `Rises(e)`, at most e
samples come before a confirmed run; `StartsLoud`, current at the start of the record
leaks. A sine that is sampled densely satisfies them with an n of a quarter cycle and
small g and e; TLC evaluates them for the wave and the records of the run (n = g = 1,
e = 0). `RecordInvariance` keeps the record and the refined burst; then

- `PassesAreEarned`: a conducting sample a mains cycle before the end of the record lies
  in an interval whose first conducting sample starts a burst (`FirstOfInterval`: shift
  the n samples around it to the wave), so the onset is no later
  (`NoneBeforeTheBurst`); and the collapse is a mains cycle before the end;
- `StuckK3HaltsAlways`: the part of the record looked at is a quarter cycle, which
  leaks, or ends at an onset that no silent window refined, so that one of its samples
  conducts, and it leaks too (`LoudStart`);
- `LongBurstsHalt` (g + e within the endpoint uncertainty): the onset is not more than a
  half cycle before the burst, because a window there is silent (`OnsetNotBefore`), nor
  more than e after its begin, because no window from there to the burst found is
  (`OnsetWithThePeak`, `OnsetNotAfter`); from there the current lasts up to the last g
  samples (`BurstLasts`), and `LastingCurrentHalts` applies;
- `BurstsAreMeasured` (g + e within a quarter cycle, two samples to confirm an onset, a
  residual floor below the collapse threshold): the same from below, and from above the
  collapse is found where the burst ends (`CollapseByTheEnd`) and the endpoint is a
  quarter cycle at most beyond a sample that conducts.

## 6. Model-checked only

`CampaignEnds`, `PollEnds`, `GateAnswers` and `ReopenedAfterKill` are liveness under
fairness, beyond TLAPS. Every other property of a passing run is a theorem.

## 7. Plan

The order of modelling was by consequence: contactors first (people and hardware),
then the campaign that drives them, the record of what was done, the race around
the injection, what lets it begin, the measurement; after them the session and its
refresh, the service around the process, and the commissioning tool. What would
come next:

1. Refinement of the other choices of `CycleSequencer`, as `InjectionWindow` does for
   the acquisition: its gate and `ChargingGate`, its verdict and `TripAnalysis`, its
   scope calls and `Equipment`.
2. Thresholds of `TripAnalysis` derived from amplitude and noise instead of constants.
3. A reader thread that outlives its one-second join, beside a new one.
4. The suppositions on the wave from bounds on it alone: peak, noise and crossing time.

## 8. Not modelled

- Which SCPI strings are sent and how answers are parsed: an answer is what it can
  make the program do.
- The reclassification of a timeout by the register read in its diagnostics: it
  only chooses the reason that a halt names, not whether it happens; that the evidence
  it looks at is still there is part of `AnswerTellsTrigger`.
- The mismatch check of the mains inside a cycle runs immediately after the
  commands and compares with a positive stagger time, so it cannot fire;
  `CheckMains` lets it, which only adds behaviours.
- Pixels, exposure, ROI and calibration: the hues a frame shows are inputs.
- Algorithm versions 1 and 2, the waveform container, the derivation of
  thresholds and `signal_present`, which only words a note.
- The fields of a row, and a disk that fills inside an artifact in any other way
  than a crash there.
- A SIGTERM sent past systemd: `Service` takes every one for `systemctl stop`. After a
  bare one the process exits with 130, which `Restart=on-failure` restarts.
- A torn last row that a repeated `start` on the same directory appends to, so that two
  rows become one line: `Recorder` has torn rows and repeated starts, but keeps each row
  on a line of its own.
- What the steps between two oscilloscope calls do to the bench in `Equipment`: they
  belong to the stage before them, and to `CycleSequencer` and `Campaign`.
- A process without a watchdog, the wording and transport of alerts, argument
  parsing, the `simulate` and `status` commands.
- Configuration parsing, offline statistics, bench tools other than
  `gpio_selftest`, the simulated scope and camera: sequential code, or doubles of
  drivers that are modelled themselves, without state the properties depend on.
- A reader thread that outlives its one-second join, and real-time bounds of whole
  cycles: listed as hazards.
