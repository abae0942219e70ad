------------------------------- MODULE Recorder -------------------------------
(* Per-cycle persistence (ccid/recorder.py) as one run directory sees it over  *)
(* many processes: record_cycle write by write, the halt marks of the          *)
(* sequencer, the cycles auto-retry skips, a crash between any two writes, and *)
(* the resume that reads runstate.json, deletes orphans and rewrites the CSV.  *)
(* A write that fails raises out of the campaign: for the directory that is a  *)
(* crash at that write.                                                        *)
EXTENDS Integers, FiniteSets

CONSTANTS
  Target,             \* target_cycles
  Radix,              \* of a written cycle index; small, so that tears cut it
  FaultSets           \* the sets of rarer events a behaviour may be exposed to

RareEvent == {"rewrite_crash", "torn_row", "power_loss", "start_again"}

ASSUME RecorderAssumption ==
  /\ Target \in Nat \ {0} /\ Radix \in Nat \ {0, 1}
  /\ FaultSets \subseteq SUBSET RareEvent

Cycles == 1 .. Target

VARIABLES
  faults,             \* the rarer events that can happen, fixed
  pc,                 \* "down", or what the process does next
  mem,                \* last_completed_cycle of the process
  art,                \* cycle -> its artifacts on disk
  csv,                \* cycle -> number of its rows in cycles.csv
  runstate,           \* runstate.json as a reader sees it now
  settled,            \* runstate.json as a power loss would leave it
  kept,               \* kept_rows of _truncate_cycles_csv
  beat,               \* the cycle of the last heartbeat
  skipped,            \* history: cycles passed over by auto-retry
  mishap              \* history: the kind of mishap below there has been

files == <<art, csv, runstate, settled>>
vars  == <<faults, pc, mem, files, kept, beat, skipped, mishap>>

NoRows     == [c \in Cycles |-> 0]

UpTo(f, n) == [c \in Cycles |-> IF c <= n THEN f[c] ELSE 0]

Init ==
  /\ faults \in FaultSets
  /\ pc = "idle" /\ mem = 0
  /\ art = [c \in Cycles |-> "none"] /\ csv = NoRows
  /\ runstate = [last |-> 0, count |-> 0, halted |-> FALSE]
  /\ settled = runstate /\ kept = NoRows /\ beat = 0 /\ skipped = {}
  /\ mishap = "none"

-----------------------------------------------------------------------------
(* _write_runstate_atomic: temporary file, fsync, os.replace.  The directory   *)
(* is not synced, so the old file may still be the one on the platter.         *)
ReplaceRunstate(new) == runstate' = new /\ UNCHANGED settled

Settle ==
  /\ settled # runstate
  /\ settled' = runstate
  /\ UNCHANGED <<pc, mem, art, csv, runstate, kept, beat, skipped, mishap>>

(* record_cycle for the next cycle, one durable effect at a time. *)
WriteArtifacts ==
  /\ pc = "idle" /\ mem < Target
  /\ pc' = "artifacts"
  /\ art' = [art EXCEPT ![mem + 1] = "part"]
  /\ UNCHANGED <<mem, csv, runstate, settled, kept, beat, skipped, mishap>>

FinishArtifacts ==
  /\ pc = "artifacts"
  /\ pc' = "row"
  /\ art' = [art EXCEPT ![mem + 1] = "full"]
  /\ UNCHANGED <<mem, csv, runstate, settled, kept, beat, skipped, mishap>>

(* Mutant: the heartbeat goes out with the row, ahead of runstate.json. *)
AppendRowBeats ==
  /\ pc = "row"
  /\ pc' = "state"
  /\ csv' = [csv EXCEPT ![mem + 1] = @ + 1]
  /\ beat' = mem + 1
  /\ UNCHANGED <<mem, art, runstate, settled, kept, skipped, mishap>>

AppendRow ==
  /\ pc = "row"
  /\ pc' = "state"
  /\ csv' = [csv EXCEPT ![mem + 1] = @ + 1]
  /\ UNCHANGED <<mem, art, runstate, settled, kept, beat, skipped, mishap>>

AdvanceRunstate ==
  /\ pc = "state"
  /\ pc' = "heartbeat"
  /\ \E h \in BOOLEAN :
       ReplaceRunstate([last |-> mem + 1, count |-> runstate.count + 1, halted |-> h])
  /\ UNCHANGED <<mem, art, csv, kept, beat, skipped, mishap>>

Heartbeat ==
  /\ pc = "heartbeat"
  /\ pc' = "idle"
  /\ beat' = mem + 1
  /\ mem' = mem + 1
  /\ UNCHANGED <<files, kept, skipped, mishap>>

(* A cycle halts with nothing to commit; auto-retry then goes past it.         *)
MarkHaltAndSkip ==
  /\ pc = "idle" /\ mem < Target
  /\ ReplaceRunstate([runstate EXCEPT !.last = mem, !.halted = TRUE])
  /\ mem' = mem + 1
  /\ skipped' = skipped \union {mem + 1}
  /\ UNCHANGED <<pc, art, csv, kept, beat, mishap>>

-----------------------------------------------------------------------------
(* `ccid resume`: a halted run needs the operator's override, which            *)
(* --allow-halted-resume gives, so both kinds of runstate can be resumed.      *)
Resume ==
  /\ pc = "down"
  /\ pc' = "unlink"
  /\ mem' = runstate.last
  /\ skipped' = skipped \intersect (1 .. runstate.last)
  /\ UNCHANGED <<files, kept, beat, mishap>>

(* Mutant: the last committed cycle counts as an orphan. *)
OrphansOffByOne == {c \in Cycles : c >= mem /\ art[c] # "none"}

Orphans == {c \in Cycles : c > mem /\ art[c] # "none"}

(* _delete_orphans, one unlink after another. *)
Unlink ==
  /\ pc = "unlink"
  /\ IF Orphans = {}
       THEN pc' = "rewrite" /\ UNCHANGED art
       ELSE /\ \E c \in Orphans : \E left \in {"none", "part"} :
                 art[c] # left /\ art' = [art EXCEPT ![c] = left]
            /\ UNCHANGED pc
  /\ UNCHANGED <<mem, csv, runstate, settled, kept, beat, skipped, mishap>>

(* _truncate_cycles_csv: open(path, "w") empties the file, then the rows that  *)
(* were kept are written back.                                                 *)
(* Mutant: every row is kept. *)
OpenForRewriteKeepsAll ==
  /\ pc = "rewrite"
  /\ pc' = "rewriting"
  /\ kept' = csv
  /\ csv' = NoRows
  /\ UNCHANGED <<mem, art, runstate, settled, beat, skipped, mishap>>

OpenForRewrite ==
  /\ pc = "rewrite"
  /\ pc' = "rewriting"
  /\ kept' = UpTo(csv, mem)
  /\ csv' = NoRows
  /\ UNCHANGED <<mem, art, runstate, settled, beat, skipped, mishap>>

WriteBack ==
  /\ pc = "rewriting"
  /\ pc' = "idle"
  /\ csv' = kept
  /\ kept' = NoRows
  /\ UNCHANGED <<mem, art, runstate, settled, beat, skipped, mishap>>

-----------------------------------------------------------------------------
(* The process ends, on its own account or not, between two writes. *)
Crash ==
  /\ pc \notin {"down", "rewriting"}
  /\ pc' = "down"
  /\ UNCHANGED <<mem, files, kept, beat, skipped, mishap>>

CrashInRewrite ==
  /\ "rewrite_crash" \in faults
  /\ pc = "rewriting"
  /\ pc' = "down"
  /\ \E n \in 0 .. Target : csv' = UpTo(kept, n)
  /\ kept' = NoRows
  /\ UNCHANGED <<mem, art, runstate, settled, beat, skipped, mishap>>

(* Bound: rows a cycle can get from torn writes and second starts. *)
MaxRows == 2

(* Of the three events below, a run directory sees at most one kind. *)
Mishap(event) ==
  event \in faults /\ mishap \in {"none", event} /\ mishap' = event

(* The last os.replace may be undone; every fsynced file stays. *)
PowerLoss ==
  /\ Mishap("power_loss")
  /\ pc \notin {"down", "rewriting"}
  /\ pc' = "down"
  /\ runstate' = settled
  /\ UNCHANGED <<mem, art, csv, settled, kept, beat, skipped>>

(* What a decimal index can be cut to. *)
Prefixes(index) == {index \div Radix ^ digits : digits \in 0 .. Target}

(* A short write of one CSV line, by a full disk or a lost block.  A tear after  *)
(* the index leaves a row of this cycle, a tear inside the index a row of the    *)
(* cycle its first digits name: _truncate_cycles_csv reads both as rows.         *)
TornRow ==
  /\ Mishap("torn_row")
  /\ pc = "row"
  /\ pc' = "down"
  /\ \E c \in Prefixes(mem + 1) \ {0} :
       csv[c] < MaxRows /\ csv' = [csv EXCEPT ![c] = @ + 1]
  /\ UNCHANGED <<mem, art, runstate, settled, kept, beat, skipped>>

(* `ccid start --run-id` on a directory that already holds a run.             *)
StartAgain ==
  /\ Mishap("start_again")
  /\ pc = "down"
  /\ \A c \in Cycles : csv[c] < MaxRows
  /\ pc' = "idle"
  /\ mem' = 0
  /\ ReplaceRunstate([last |-> 0, count |-> 0, halted |-> FALSE])
  /\ skipped' = {}
  /\ UNCHANGED <<art, csv, kept, beat>>

Record == WriteArtifacts \/ FinishArtifacts \/ AppendRow \/ AdvanceRunstate \/ Heartbeat
Reconcile == Resume \/ Unlink \/ OpenForRewrite \/ WriteBack

Next ==
  \/ Record \/ MarkHaltAndSkip \/ Reconcile \/ Settle
  \/ Crash \/ CrashInRewrite \/ PowerLoss \/ TornRow \/ StartAgain

Spec == Init /\ [][Next /\ UNCHANGED faults]_vars

-----------------------------------------------------------------------------
(* The rows a reader will find once a rewrite in progress is over. *)
Table == IF pc = "rewriting" THEN kept ELSE csv

(* Crashes between two writes are the recorder's business, the rarer events    *)
(* are not.                                                                    *)
Ordinary == faults = {}

(* Every cycle runstate.json claims, unless auto-retry passed it by, is backed *)
(* by all its artifacts, and the totals count it once, whatever crashes, tears *)
(* or loses power and through any number of resumes and second starts.  It has *)
(* a row when nothing worse than a torn row can happen, exactly one when rows  *)
(* are whole.                                                                  *)
ClaimsBacked ==
  LET claimed == (1 .. runstate.last) \ skipped IN
  /\ runstate.count = Cardinality(claimed)
  /\ \A c \in claimed :
       /\ art[c] = "full"
       /\ faults = {"torn_row"} => Table[c] >= 1
       /\ Ordinary => Table[c] = 1

(* A cycle is never counted twice, on disk or in the totals of runstate.json.  *)
NoDoubleCount ==
  Ordinary =>
    /\ \A c \in Cycles : Table[c] <= 1
    /\ runstate.count = Cardinality({c \in 1 .. runstate.last : Table[c] = 1})

(* record_cycle, crashes and resumes together implement an append-only record; *)
(* the rarer events are left out of the comparison.                            *)
Log == IF Ordinary THEN {c \in Cycles : c <= runstate.last /\ Table[c] >= 1} ELSE {}
Promise ==
  INSTANCE DurableLog WITH log <- Log, certified <- IF Ordinary THEN beat ELSE 0
ImplementsDurableLog == Promise!Spec

-----------------------------------------------------------------------------
(* Said by the source, and refuted by what it does. *)

(* docs/persistence-and-recovery.md: reconcile_orphans can never lose a        *)
(* legitimately committed cycle.                                               *)
ReconcileLosesNothing ==
  \A c \in (1 .. runstate.last) \ skipped : Table[c] >= 1
=============================================================================
