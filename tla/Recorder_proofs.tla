---------------------------- MODULE Recorder_proofs ----------------------------
(* What runstate.json claims is on disk, for any number of cycles, crashes and *)
(* resumes, and the recorder implements DurableLog.                            *)
EXTENDS Recorder, FiniteSetTheorems, TLAPS

Control ==
  {"down", "idle", "artifacts", "row", "state", "heartbeat", "unlink", "rewrite", "rewriting"}

Runstates == [last : 0 .. Target, count : Nat, halted : BOOLEAN]

TypeOK ==
  /\ pc \in Control /\ mem \in 0 .. Target
  /\ art \in [Cycles -> {"none", "part", "full"}]
  /\ csv \in [Cycles -> Nat] /\ kept \in [Cycles -> Nat]
  /\ runstate \in Runstates /\ settled \in Runstates
  /\ skipped \in SUBSET Cycles

(* Where a process stands: everything between the last cycle runstate.json     *)
(* claims and the one the process is at was passed over.                       *)
Place ==
  /\ pc # "down" => /\ \A c \in skipped : c <= mem
                    /\ \A c \in Cycles : runstate.last < c /\ c <= mem => c \in skipped
  /\ pc \notin {"down", "heartbeat"} => runstate.last <= mem
  /\ pc \in {"unlink", "rewrite", "rewriting"} => runstate.last = mem
  /\ pc = "heartbeat" => runstate.last = mem + 1
  /\ pc \in {"artifacts", "row", "state", "heartbeat"} => mem + 1 \in Cycles
  /\ pc \in {"row", "state"} => art[mem + 1] = "full"

(* The claims of a runstate.json, the current one or the one a power loss      *)
(* would leave; after a second start the latter may be older than the skips.   *)
Claimed(r) == (1 .. r.last) \ skipped
Counted(r) == r.count = Cardinality(Claimed(r))
Claims ==
  /\ Counted(runstate)
  /\ \A c \in Claimed(runstate) : art[c] = "full"
  /\ mishap # "start_again" => Counted(settled) /\ settled.last <= runstate.last

(* While no more than torn rows can happen, every claim has its row. *)
Rows ==
  faults \subseteq {"torn_row"} =>
    /\ \A c \in Claimed(runstate) : Table[c] >= 1
    /\ pc = "state" => csv[mem + 1] >= 1

(* While rows are whole there is one of each, none of a skipped cycle, and     *)
(* none ahead of the process.                                                  *)
RowsOnce ==
  Ordinary =>
    /\ \A c \in Cycles : Table[c] <= 1 /\ (c \in skipped => Table[c] = 0)
    /\ pc \in {"idle", "artifacts", "row", "rewriting"} =>
         \A c \in Cycles : c > mem => Table[c] = 0
    /\ pc \in {"state", "heartbeat"} => \A c \in Cycles : c > mem + 1 => csv[c] = 0

RecorderInv == TypeOK /\ Place /\ Claims /\ Rows /\ RowsOnce

-----------------------------------------------------------------------------
(* There is a cycle to record. *)
LEMMA Constants == Target \in Nat \ {0}
BY RecorderAssumption

(* Sets of cycles are finite. *)
LEMMA FiniteCycles ==
  ASSUME NEW n \in Nat, NEW S
  PROVE  IsFiniteSet((1 .. n) \ S) /\ Cardinality((1 .. n) \ S) \in Nat
<1>1. IsFiniteSet(1 .. n)
  BY FS_Interval
<1>2. (1 .. n) \ S \in SUBSET (1 .. n)
  OBVIOUS
<1>3. IsFiniteSet((1 .. n) \ S)
  BY <1>1, <1>2, FS_Subset
<1> QED BY <1>3, FS_CardinalityType

(* What one more row, and the rows up to a cycle, are. *)
LEMMA OneMoreRow ==
  ASSUME NEW f \in [Cycles -> Nat], NEW c, NEW g, g = [f EXCEPT ![c] = @ + 1]
  PROVE  /\ g \in [Cycles -> Nat]
         /\ \A d \in Cycles : g[d] >= f[d] /\ (d # c => g[d] = f[d])
         /\ c \in Cycles => g[c] = f[c] + 1
<1>1. DOMAIN g = Cycles /\ \A d \in Cycles : g[d] = IF d = c THEN f[d] + 1 ELSE f[d]
  OBVIOUS
<1>2. \A d \in Cycles : f[d] \in Nat
  OBVIOUS
<1>3. \A d \in Cycles : g[d] \in Nat /\ g[d] >= f[d]
  BY <1>1, <1>2
<1>4. g \in [Cycles -> Nat]
  BY <1>1, <1>3
<1> QED BY <1>1, <1>3, <1>4

(* What _truncate_cycles_csv keeps. *)
LEMMA RowsUpTo ==
  ASSUME NEW f \in [Cycles -> Nat], NEW n \in Nat
  PROVE  /\ UpTo(f, n) \in [Cycles -> Nat] /\ NoRows \in [Cycles -> Nat]
         /\ \A c \in Cycles : UpTo(f, n)[c] = IF c <= n THEN f[c] ELSE 0
BY DEF UpTo, NoRows, Cycles

(* The two ways runstate.json is written. *)
LEMMA RunstateWritten ==
  ASSUME TypeOK, NEW n \in 0 .. Target, NEW h \in BOOLEAN
  PROVE  /\ [last |-> n, count |-> runstate.count + 1, halted |-> h] \in Runstates
         /\ [runstate EXCEPT !.last = n, !.halted = TRUE] \in Runstates
         /\ [runstate EXCEPT !.last = n, !.halted = TRUE].last = n
         /\ [runstate EXCEPT !.last = n, !.halted = TRUE].count = runstate.count
<1>1. runstate \in Runstates /\ runstate.count + 1 \in Nat
  BY DEF TypeOK, Runstates
<1>2. [last |-> n, count |-> runstate.count + 1, halted |-> h] \in Runstates
  BY <1>1 DEF Runstates
<1>3. [runstate EXCEPT !.last = n] \in Runstates /\ [runstate EXCEPT !.last = n].last = n
  BY <1>1 DEF Runstates
<1>4. [runstate EXCEPT !.last = n, !.halted = TRUE] \in Runstates
  BY <1>1, <1>3 DEF Runstates
<1>5. /\ [runstate EXCEPT !.last = n, !.halted = TRUE].last = n
      /\ [runstate EXCEPT !.last = n, !.halted = TRUE].count = runstate.count
  BY <1>1 DEF Runstates
<1> QED BY <1>2, <1>4, <1>5

(* A fresh run directory claims nothing. *)
LEMMA InvInit == Init => RecorderInv
<1> SUFFICES ASSUME Init PROVE RecorderInv
  OBVIOUS
<1> USE Constants
<1>1. TypeOK
  BY DEF Init, TypeOK, Control, Runstates, NoRows, Cycles
<1>2. (1 .. 0) \ skipped = {}
  OBVIOUS
<1>3. Claims
  BY <1>2, FS_EmptySet DEF Init, Claims, Claimed, Counted
<1>4. Place /\ Rows /\ RowsOnce
  BY <1>2 DEF Init, Place, Rows, RowsOnce, Claimed, Table, NoRows, Cycles
<1> QED BY <1>1, <1>3, <1>4 DEF RecorderInv

(* Every step keeps the types. *)
LEMMA TypeStep == RecorderInv /\ [Next /\ UNCHANGED faults]_vars => TypeOK'
<1> SUFFICES ASSUME RecorderInv, [Next /\ UNCHANGED faults]_vars PROVE TypeOK'
  OBVIOUS
<1> USE Constants DEF RecorderInv, TypeOK, Control, Cycles, files, ReplaceRunstate
<1>1. CASE Settle
  BY <1>1 DEF Settle
<1>2. CASE WriteArtifacts \/ FinishArtifacts
  BY <1>2 DEF WriteArtifacts, FinishArtifacts
<1>3. CASE AppendRow
  <2>1. csv' \in [Cycles -> Nat]
    BY <1>3, OneMoreRow DEF AppendRow
  <2> QED BY <1>3, <2>1 DEF AppendRow
<1>4. CASE AdvanceRunstate
  <2>1. mem + 1 \in 0 .. Target
    BY <1>4 DEF AdvanceRunstate, Place
  <2>2. runstate' \in Runstates
    <3>1. PICK h \in BOOLEAN :
            runstate' = [last |-> mem + 1, count |-> runstate.count + 1, halted |-> h]
      BY <1>4 DEF AdvanceRunstate
    <3> QED BY <2>1, <3>1, RunstateWritten
  <2> QED BY <1>4, <2>2 DEF AdvanceRunstate
<1>5. CASE Heartbeat
  BY <1>5 DEF Heartbeat, Place
<1>6. CASE MarkHaltAndSkip
  <2>1. mem' \in 0 .. Target /\ skipped' \in SUBSET Cycles
    BY <1>6 DEF MarkHaltAndSkip
  <2>2. runstate' \in Runstates
    BY <1>6, RunstateWritten DEF MarkHaltAndSkip
  <2> QED BY <1>6, <2>1, <2>2 DEF MarkHaltAndSkip
<1>7. CASE Resume
  BY <1>7 DEF Resume, Runstates
<1>8. CASE Unlink
  BY <1>8 DEF Unlink, Orphans
<1>9. CASE OpenForRewrite \/ WriteBack
  <2>0. mem \in Nat
    OBVIOUS
  <2>1. csv' \in [Cycles -> Nat] /\ kept' \in [Cycles -> Nat]
    BY <1>9, <2>0, RowsUpTo DEF OpenForRewrite, WriteBack
  <2> QED BY <1>9, <2>1 DEF OpenForRewrite, WriteBack
<1>10. CASE Crash
  BY <1>10 DEF Crash
<1>11. CASE CrashInRewrite
  BY <1>11 DEF CrashInRewrite, UpTo, NoRows
<1>12. CASE PowerLoss
  BY <1>12 DEF PowerLoss
<1>13. CASE TornRow
  <2>1. csv' \in [Cycles -> Nat]
    BY <1>13, OneMoreRow DEF TornRow
  <2> QED BY <1>13, <2>1 DEF TornRow
<1>14. CASE StartAgain
  BY <1>14 DEF StartAgain, Runstates
<1>15. CASE UNCHANGED vars
  BY <1>15 DEF vars
<1> QED BY <1>1, <1>2, <1>3, <1>4, <1>5, <1>6, <1>7, <1>8, <1>9, <1>10, <1>11, <1>12, <1>13,
           <1>14, <1>15 DEF Next, Record, Reconcile

(* Every step keeps the process where its last claim allows. *)
LEMMA PlaceStep == RecorderInv /\ [Next /\ UNCHANGED faults]_vars => Place'
<1> SUFFICES ASSUME RecorderInv, [Next /\ UNCHANGED faults]_vars PROVE Place'
  OBVIOUS
<1> USE Constants DEF RecorderInv, TypeOK, Control, Runstates, Place, Cycles, files, ReplaceRunstate
<1>1. CASE Settle
  BY <1>1 DEF Settle
<1>2. CASE WriteArtifacts
  BY <1>2 DEF WriteArtifacts
<1>11. CASE FinishArtifacts
  <2>1. mem + 1 \in Cycles /\ art' = [art EXCEPT ![mem + 1] = "full"]
    BY <1>11 DEF FinishArtifacts
  <2>2. art'[mem + 1] = "full"
    BY <2>1
  <2> QED BY <1>11, <2>2 DEF FinishArtifacts
<1>3. CASE AppendRow
  BY <1>3 DEF AppendRow
<1>4. CASE AdvanceRunstate
  BY <1>4 DEF AdvanceRunstate
<1>5. CASE Heartbeat
  BY <1>5 DEF Heartbeat
<1>6. CASE MarkHaltAndSkip
  <2>1. /\ pc = "idle" /\ pc' = "idle" /\ mem' = mem + 1 /\ skipped' = skipped \union {mem + 1}
        /\ mem \in 0 .. Target
    BY <1>6 DEF MarkHaltAndSkip
  <2>2. runstate'.last = mem
    BY <1>6, RunstateWritten DEF MarkHaltAndSkip
  <2>3. \A c \in skipped' : c <= mem'
    BY <2>1
  <2>4. \A c \in Cycles : mem < c /\ c <= mem + 1 => c = mem + 1
    BY <2>1
  <2> QED BY <2>1, <2>2, <2>3, <2>4
<1>7. CASE Resume
  BY <1>7 DEF Resume
<1>8. CASE Unlink
  BY <1>8 DEF Unlink, Orphans
<1>9. CASE OpenForRewrite \/ WriteBack
  <2>1. UNCHANGED <<mem, art, runstate, settled, skipped>>
    BY <1>9 DEF OpenForRewrite, WriteBack
  <2>2. pc \in {"rewrite", "rewriting"} /\ pc' \in {"rewriting", "idle"}
    BY <1>9 DEF OpenForRewrite, WriteBack
  <2> QED BY <2>1, <2>2
<1>10. CASE Crash \/ CrashInRewrite \/ PowerLoss \/ TornRow
  BY <1>10 DEF Crash, CrashInRewrite, PowerLoss, TornRow
<1>14. CASE StartAgain
  BY <1>14 DEF StartAgain
<1>15. CASE UNCHANGED vars
  BY <1>15 DEF vars
<1> QED BY <1>1, <1>2, <1>3, <1>4, <1>5, <1>6, <1>7, <1>8, <1>9, <1>10, <1>11,
           <1>14, <1>15 DEF Next, Record, Reconcile

(* The claims are on the cycles up to the last one, and not on the next. *)
LEMMA ClaimedRange ==
  ASSUME RecorderInv
  PROVE  /\ Claimed(runstate) \subseteq Cycles
         /\ \A c \in Claimed(runstate) : c <= runstate.last /\ c \notin skipped
         /\ pc \notin {"down", "heartbeat"} => \A c \in Claimed(runstate) : c <= mem
         /\ pc \in {"artifacts", "row", "state"} => mem + 1 \notin skipped
<1>1. runstate.last \in 0 .. Target
  BY DEF RecorderInv, TypeOK, Runstates
<1>2. \A c \in Claimed(runstate) : c \in Nat /\ c >= 1 /\ c <= runstate.last /\ c \notin skipped
  BY <1>1 DEF Claimed
<1>3. mem \in Nat
  BY Constants DEF RecorderInv, TypeOK
<1>4. Claimed(runstate) \subseteq Cycles
  BY <1>1, Constants DEF Claimed, Cycles
<1>5. pc \notin {"down", "heartbeat"} => \A c \in Claimed(runstate) : c <= mem
  BY <1>1, <1>2, <1>3 DEF RecorderInv, Place
<1>6. pc \in {"artifacts", "row", "state"} => mem + 1 \notin skipped
  BY <1>3 DEF RecorderInv, Place
<1> QED BY <1>2, <1>4, <1>5, <1>6

(* Steps that write neither runstate.json nor an artifact that is claimed.     *)
LEMMA ClaimsKept ==
  ASSUME RecorderInv, UNCHANGED <<runstate, settled, skipped>>,
         mishap' = mishap \/ (mishap' = "torn_row" /\ mishap # "start_again"),
         \A c \in Claimed(runstate) : art'[c] = art[c]
  PROVE  Claims'
BY DEF RecorderInv, Claims, Claimed, Counted

(* Every step keeps the claims backed: only AdvanceRunstate adds one, of the  *)
(* cycle whose artifacts are complete.                                         *)
LEMMA ClaimsStep == RecorderInv /\ [Next /\ UNCHANGED faults]_vars => Claims'
<1> SUFFICES ASSUME RecorderInv, [Next /\ UNCHANGED faults]_vars PROVE Claims'
  OBVIOUS
<1> USE DEF files, ReplaceRunstate
<1>1. CASE Settle
  BY <1>1 DEF Settle, RecorderInv, TypeOK, Runstates, Claims, Claimed, Counted
<1>2. CASE WriteArtifacts \/ FinishArtifacts
  <2>1. \A c \in Claimed(runstate) : c # mem + 1
    BY <1>2, ClaimedRange, Constants
    DEF WriteArtifacts, FinishArtifacts, RecorderInv, TypeOK, Claimed
  <2>2. \A c \in Claimed(runstate) : art'[c] = art[c]
    BY <1>2, <2>1, ClaimedRange DEF WriteArtifacts, FinishArtifacts, RecorderInv, TypeOK
  <2>3. UNCHANGED <<runstate, settled, skipped, mishap>>
    BY <1>2 DEF WriteArtifacts, FinishArtifacts
  <2> QED BY <2>2, <2>3, ClaimsKept
<1>3. CASE AppendRow \/ Heartbeat \/ OpenForRewrite \/ WriteBack \/ Crash \/ CrashInRewrite
  BY <1>3, ClaimsKept
  DEF AppendRow, Heartbeat, OpenForRewrite, WriteBack, Crash, CrashInRewrite
<1>4. CASE AdvanceRunstate
  <2>1. /\ pc = "state" /\ UNCHANGED <<art, settled, skipped, mishap>>
        /\ runstate'.last = mem + 1 /\ runstate'.count = runstate.count + 1
    BY <1>4 DEF AdvanceRunstate
  <2>2. /\ mem \in Nat /\ runstate.last \in Nat /\ runstate.last <= mem
        /\ settled.last \in Nat
        /\ mem + 1 \notin skipped /\ art[mem + 1] = "full"
        /\ \A c \in Cycles : runstate.last < c /\ c <= mem => c \in skipped
        /\ mem + 1 \in Cycles
    BY <2>1, ClaimedRange, Constants DEF RecorderInv, TypeOK, Runstates, Place
  <2>3. Claimed(runstate)' = Claimed(runstate) \union {mem + 1}
    BY <2>1, <2>2, Constants DEF Claimed, Cycles
  <2>4. mem + 1 \notin Claimed(runstate)
    BY <2>2 DEF Claimed
  <2>5. IsFiniteSet(Claimed(runstate))
    BY <2>2, FiniteCycles DEF Claimed
  <2>6. Cardinality(Claimed(runstate)') = Cardinality(Claimed(runstate)) + 1
    BY <2>3, <2>4, <2>5, FS_AddElement
  <2>7. Counted(runstate)'
    BY <2>1, <2>6 DEF RecorderInv, Claims, Counted
  <2>8. \A c \in Claimed(runstate)' : art'[c] = "full"
    BY <2>1, <2>2, <2>3 DEF RecorderInv, Claims
  <2>9. mishap' # "start_again" => Counted(settled)' /\ settled'.last <= runstate'.last
    BY <2>1, <2>2 DEF RecorderInv, Claims, Counted, Claimed
  <2> QED BY <2>7, <2>8, <2>9 DEF Claims
<1>5. CASE MarkHaltAndSkip
  <2>1. /\ pc = "idle" /\ UNCHANGED <<art, settled, mishap>>
        /\ skipped' = skipped \union {mem + 1}
    BY <1>5 DEF MarkHaltAndSkip
  <2>2. /\ mem \in 0 .. Target /\ runstate.last \in Nat /\ runstate.last <= mem
        /\ settled.last \in Nat
        /\ \A c \in Cycles : runstate.last < c /\ c <= mem => c \in skipped
    BY <2>1 DEF RecorderInv, TypeOK, Runstates, Place
  <2>3. runstate'.last = mem /\ runstate'.count = runstate.count
    BY <1>5, <2>2, RunstateWritten DEF MarkHaltAndSkip, RecorderInv
  <2>4. Claimed(runstate)' = Claimed(runstate)
    BY <2>1, <2>2, <2>3, Constants DEF Claimed, Cycles
  <2>5. mishap # "start_again" => Claimed(settled)' = Claimed(settled)
    BY <2>1, <2>2, Constants DEF Claimed, RecorderInv, Claims
  <2>6. Counted(runstate)' /\ \A c \in Claimed(runstate)' : art'[c] = "full"
    BY <2>1, <2>3, <2>4 DEF RecorderInv, Claims, Counted
  <2>7. mishap' # "start_again" => Counted(settled)' /\ settled'.last <= runstate'.last
    BY <2>1, <2>2, <2>3, <2>5, Constants DEF RecorderInv, Claims, Counted
  <2> QED BY <2>6, <2>7 DEF Claims
<1>6. CASE Resume
  <2>1. /\ UNCHANGED <<art, runstate, settled, mishap>>
        /\ skipped' = skipped \intersect (1 .. runstate.last)
    BY <1>6 DEF Resume
  <2>2. runstate.last \in Nat /\ settled.last \in Nat
    BY DEF RecorderInv, TypeOK, Runstates
  <2>3. Claimed(runstate)' = Claimed(runstate)
    BY <2>1 DEF Claimed
  <2>4. mishap # "start_again" => Claimed(settled)' = Claimed(settled)
    BY <2>1, <2>2 DEF Claimed, RecorderInv, Claims
  <2> QED BY <2>1, <2>3, <2>4 DEF RecorderInv, Claims, Counted
<1>7. CASE Unlink
  <2>1. /\ UNCHANGED <<runstate, settled, skipped, mishap>> /\ pc = "unlink"
        /\ \/ art' = art
           \/ \E c \in Orphans : \E left \in {"none", "part"} : art' = [art EXCEPT ![c] = left]
    BY <1>7 DEF Unlink
  <2>2. mem \in Nat /\ \A c \in Claimed(runstate) : c \in Nat /\ c <= mem
    BY <2>1, ClaimedRange, Constants DEF RecorderInv, TypeOK, Cycles
  <2>3. \A c \in Claimed(runstate) : c \notin Orphans
    BY <2>2 DEF Orphans, Cycles
  <2>4. \A c \in Claimed(runstate) : art'[c] = art[c]
    BY <2>1, <2>3, ClaimedRange DEF RecorderInv, TypeOK
  <2> QED BY <2>1, <2>4, ClaimsKept
<1>8. CASE PowerLoss
  <2>1. /\ UNCHANGED <<art, settled, skipped>> /\ runstate' = settled
        /\ mishap # "start_again" /\ mishap' = "power_loss"
    BY <1>8 DEF PowerLoss, Mishap
  <2>2. runstate.last \in Nat /\ settled.last \in Nat /\ settled.last <= runstate.last
    BY <2>1 DEF RecorderInv, TypeOK, Runstates, Claims
  <2>3. Claimed(settled) \subseteq Claimed(runstate)
    BY <2>2 DEF Claimed
  <2>4. Claimed(runstate)' = Claimed(settled) /\ Claimed(settled)' = Claimed(settled)
    BY <2>1 DEF Claimed
  <2> QED BY <2>1, <2>2, <2>3, <2>4 DEF RecorderInv, Claims, Counted
<1>9. CASE TornRow
  BY <1>9, ClaimsKept DEF TornRow, Mishap
<1>10. CASE StartAgain
  <2>1. runstate'.last = 0 /\ runstate'.count = 0 /\ mishap' = "start_again"
    BY <1>10 DEF StartAgain, Mishap
  <2>2. Claimed(runstate)' = {}
    BY <2>1 DEF Claimed
  <2> QED BY <2>1, <2>2, FS_EmptySet DEF Claims, Counted
<1>11. CASE UNCHANGED vars
  BY <1>11, ClaimsKept DEF vars
<1> QED BY <1>1, <1>2, <1>3, <1>4, <1>5, <1>6, <1>7, <1>8, <1>9, <1>10, <1>11
        DEF Next, Record, Reconcile
-----------------------------------------------------------------------------
(* While no more than torn rows can happen, the claims only grow, by the cycle *)
(* that is being recorded.                                                     *)
LEMMA ClaimedGrows ==
  ASSUME RecorderInv, [Next /\ UNCHANGED faults]_vars, faults \subseteq {"torn_row"}
  PROVE  \/ Claimed(runstate)' = Claimed(runstate)
         \/ AdvanceRunstate /\ Claimed(runstate)' = Claimed(runstate) \union {mem + 1}
<1>1. /\ mem \in 0 .. Target /\ runstate.last \in Nat
      /\ pc \notin {"down", "heartbeat"} => runstate.last <= mem
      /\ pc # "down" => \A c \in Cycles : runstate.last < c /\ c <= mem => c \in skipped
  BY DEF RecorderInv, TypeOK, Runstates, Place
<1>2. CASE AdvanceRunstate
  <2>1. pc = "state" /\ runstate'.last = mem + 1 /\ skipped' = skipped
    BY <1>2 DEF AdvanceRunstate, ReplaceRunstate
  <2>2. mem + 1 \in Cycles /\ mem + 1 \notin skipped
    BY <2>1, ClaimedRange DEF RecorderInv, Place
  <2> QED BY <1>1, <1>2, <2>1, <2>2, Constants DEF Claimed, Cycles
<1>3. CASE MarkHaltAndSkip
  <2>1. pc = "idle" /\ skipped' = skipped \union {mem + 1}
    BY <1>3 DEF MarkHaltAndSkip
  <2>2. runstate'.last = mem
    BY <1>1, <1>3, RunstateWritten DEF MarkHaltAndSkip, ReplaceRunstate, RecorderInv
  <2> QED BY <1>1, <2>1, <2>2, Constants DEF Claimed, Cycles
<1>4. CASE Resume
  BY <1>4 DEF Resume, Claimed, files
<1>5. CASE PowerLoss \/ StartAgain \/ CrashInRewrite
  BY <1>5 DEF PowerLoss, StartAgain, CrashInRewrite, Mishap
<1>6. CASE UNCHANGED <<runstate, skipped>>
  BY <1>6 DEF Claimed
<1> QED BY <1>2, <1>3, <1>4, <1>5, <1>6
        DEF Next, Record, Reconcile, WriteArtifacts, FinishArtifacts, AppendRow, Heartbeat,
            Unlink, OpenForRewrite, WriteBack, Settle, Crash, TornRow, vars, files

(* Steps that leave the rows alone. *)
LEMMA RowsKept ==
  ASSUME RecorderInv, UNCHANGED <<faults, csv, kept>>,
         pc = "rewriting" <=> pc' = "rewriting",
         pc' = "state" => pc = "state" /\ mem' = mem,
         Claimed(runstate)' \subseteq Claimed(runstate)
  PROVE  Rows'
BY DEF RecorderInv, Rows, Table

(* Every step keeps the row of a claim: a resume rewrites only up to mem.      *)
LEMMA RowsStep == RecorderInv /\ [Next /\ UNCHANGED faults]_vars => Rows'
<1> SUFFICES ASSUME RecorderInv, [Next /\ UNCHANGED faults]_vars, faults \subseteq {"torn_row"}
             PROVE  Rows'
  BY DEF Rows, vars
<1>0. /\ faults' = faults /\ csv \in [Cycles -> Nat] /\ kept \in [Cycles -> Nat] /\ mem \in Nat
      /\ \A c \in Claimed(runstate) : c \in Cycles /\ Table[c] >= 1
  BY ClaimedRange, Constants DEF vars, RecorderInv, TypeOK, Rows
<1>1. CASE \/ Settle \/ WriteArtifacts \/ FinishArtifacts \/ Heartbeat \/ MarkHaltAndSkip
          \/ Resume \/ Unlink \/ Crash \/ UNCHANGED vars
  <2>1. ~AdvanceRunstate \/ Claimed(runstate)' = Claimed(runstate)
    BY <1>1 DEF Settle, WriteArtifacts, FinishArtifacts, Heartbeat, MarkHaltAndSkip, Resume,
         Unlink, Crash, vars, files, AdvanceRunstate, Claimed
  <2>2. Claimed(runstate)' = Claimed(runstate)
    BY <2>1, ClaimedGrows
  <2>3. /\ UNCHANGED <<csv, kept>> /\ (pc = "rewriting" <=> pc' = "rewriting")
        /\ pc' = "state" => pc = "state" /\ mem' = mem
    BY <1>1 DEF Settle, WriteArtifacts, FinishArtifacts, Heartbeat, MarkHaltAndSkip, Resume,
         Unlink, Crash, vars, files
  <2> QED BY <1>0, <2>2, <2>3, RowsKept
<1>2. CASE AppendRow
  <2>1. /\ pc = "row" /\ pc' = "state" /\ mem' = mem /\ UNCHANGED <<runstate, skipped>>
        /\ csv' = [csv EXCEPT ![mem + 1] = @ + 1]
    BY <1>2 DEF AppendRow
  <2>2. mem + 1 \in Cycles
    BY <2>1 DEF RecorderInv, Place
  <2>3. csv'[mem + 1] = csv[mem + 1] + 1 /\ \A c \in Cycles : csv'[c] >= csv[c]
    BY <1>0, <2>1, <2>2, OneMoreRow
  <2>4. csv' \in [Cycles -> Nat]
    BY <1>0, <2>1, OneMoreRow
  <2>5. \A c \in Claimed(runstate) : csv'[c] >= 1
    BY <1>0, <2>1, <2>3, <2>4 DEF Table
  <2>6. csv'[mem + 1] >= 1
    BY <1>0, <2>2, <2>3
  <2> QED BY <2>1, <2>5, <2>6 DEF Rows, Table, Claimed
<1>3. CASE AdvanceRunstate
  <2>1. pc = "state" /\ pc' = "heartbeat" /\ csv' = csv
    BY <1>3 DEF AdvanceRunstate
  <2>2. csv[mem + 1] >= 1 /\ \A c \in Claimed(runstate) : csv[c] >= 1
    BY <1>0, <2>1 DEF RecorderInv, Rows, Table
  <2> QED BY <2>1, <2>2, ClaimedGrows DEF Rows, Table
<1>4. CASE OpenForRewrite
  <2>1. /\ pc = "rewrite" /\ pc' = "rewriting" /\ UNCHANGED <<runstate, skipped>>
        /\ kept' = UpTo(csv, mem)
    BY <1>4 DEF OpenForRewrite
  <2>2. \A c \in Claimed(runstate) : c <= mem
    BY <2>1, ClaimedRange
  <2>3. \A c \in Claimed(runstate) : kept'[c] = csv[c]
    BY <1>0, <2>1, <2>2, RowsUpTo
  <2> QED BY <1>0, <2>1, <2>3 DEF Rows, Table, Claimed
<1>5. CASE WriteBack
  BY <1>0, <1>5 DEF WriteBack, Rows, Table, Claimed
<1>6. CASE TornRow
  <2>1. /\ pc = "row" /\ pc' = "down" /\ UNCHANGED <<runstate, skipped>>
        /\ \E c : csv' = [csv EXCEPT ![c] = @ + 1]
    BY <1>6 DEF TornRow
  <2>2. csv' \in [Cycles -> Nat] /\ \A c \in Cycles : csv'[c] >= csv[c]
    <3>1. PICK c : csv' = [csv EXCEPT ![c] = @ + 1]
      BY <2>1
    <3> QED BY <1>0, <3>1, OneMoreRow
  <2>3. \A c \in Claimed(runstate) : csv'[c] >= 1
    BY <1>0, <2>1, <2>2 DEF Table
  <2> QED BY <2>1, <2>3 DEF Rows, Table, Claimed
<1>7. CASE PowerLoss \/ StartAgain \/ CrashInRewrite
  BY <1>7 DEF PowerLoss, StartAgain, CrashInRewrite, Mishap
<1> QED BY <1>1, <1>2, <1>3, <1>4, <1>5, <1>6, <1>7 DEF Next, Record, Reconcile

(* Every step keeps rows single: a resume drops those past the last claim      *)
(* before the cycle is recorded again.                                         *)
LEMMA RowsOnceStep == RecorderInv /\ [Next /\ UNCHANGED faults]_vars => RowsOnce'
<1> SUFFICES ASSUME RecorderInv, [Next /\ UNCHANGED faults]_vars, Ordinary
             PROVE  RowsOnce'
  BY DEF RowsOnce, Ordinary, vars
<1>0. /\ csv \in [Cycles -> Nat] /\ kept \in [Cycles -> Nat] /\ mem \in Nat
      /\ \A c \in Cycles : c \in Nat /\ Table[c] <= 1 /\ (c \in skipped => Table[c] = 0)
      /\ pc \in {"idle", "artifacts", "row", "rewriting"} =>
           \A c \in Cycles : c > mem => Table[c] = 0
      /\ pc \in {"state", "heartbeat"} => \A c \in Cycles : c > mem + 1 => csv[c] = 0
  BY Constants DEF RecorderInv, TypeOK, RowsOnce, Cycles
<1>1. CASE \/ Settle \/ WriteArtifacts \/ FinishArtifacts \/ AdvanceRunstate \/ Heartbeat
          \/ Unlink \/ Crash \/ Resume \/ UNCHANGED vars
  <2>1. UNCHANGED <<csv, kept>> /\ (pc = "rewriting" <=> pc' = "rewriting")
    BY <1>1 DEF Settle, WriteArtifacts, FinishArtifacts, AdvanceRunstate, Heartbeat, Unlink,
         Crash, Resume, vars, files
  <2>2. skipped' \subseteq skipped
    BY <1>1 DEF Settle, WriteArtifacts, FinishArtifacts, AdvanceRunstate, Heartbeat, Unlink,
         Crash, Resume, vars
  <2>3. Table' = Table
    BY <2>1 DEF Table
  <2>4. \/ pc' \in {"down", "unlink", "rewrite"}
        \/ pc' = pc /\ mem' = mem
        \/ pc \in {"idle", "artifacts"} /\ pc' \in {"artifacts", "row"} /\ mem' = mem
        \/ pc = "state" /\ pc' = "heartbeat" /\ mem' = mem
        \/ pc = "heartbeat" /\ pc' = "idle" /\ mem' = mem + 1
    BY <1>1 DEF Settle, WriteArtifacts, FinishArtifacts, AdvanceRunstate, Heartbeat, Unlink,
         Crash, Resume, vars
  <2>5. \A c \in Cycles : Table'[c] <= 1 /\ (c \in skipped' => Table'[c] = 0)
    BY <1>0, <2>2, <2>3
  <2>6. pc' \in {"idle", "artifacts", "row", "rewriting"} =>
          \A c \in Cycles : c > mem' => Table'[c] = 0
    BY <1>0, <2>3, <2>4 DEF Table
  <2>7. pc' \in {"state", "heartbeat"} => \A c \in Cycles : c > mem' + 1 => csv'[c] = 0
    BY <1>0, <2>1, <2>4
  <2> QED BY <2>5, <2>6, <2>7 DEF RowsOnce
<1>2. CASE AppendRow
  <2>1. /\ pc = "row" /\ pc' = "state" /\ mem' = mem /\ skipped' = skipped
        /\ csv' = [csv EXCEPT ![mem + 1] = @ + 1]
    BY <1>2 DEF AppendRow
  <2>2. mem + 1 \in Cycles /\ mem + 1 \notin skipped
    BY <2>1, ClaimedRange DEF RecorderInv, Place
  <2>3. /\ csv'[mem + 1] = csv[mem + 1] + 1
        /\ \A c \in Cycles : c # mem + 1 => csv'[c] = csv[c]
    BY <1>0, <2>1, <2>2, OneMoreRow
  <2>4. csv[mem + 1] = 0 /\ \A c \in Cycles : csv[c] <= 1 /\ (c \in skipped => csv[c] = 0)
    BY <1>0, <2>1, <2>2 DEF Table
  <2>5. \A c \in Cycles : c > mem + 1 => csv[c] = 0
    BY <1>0, <2>1 DEF Table
  <2>6. Table' = csv'
    BY <2>1 DEF Table
  <2>7. \A c \in Cycles : csv'[c] <= 1 /\ (c \in skipped' => csv'[c] = 0)
    BY <2>1, <2>2, <2>3, <2>4
  <2>8. \A c \in Cycles : c > mem' + 1 => csv'[c] = 0
    <3> TAKE c \in Cycles
    <3>1. c \in Nat /\ mem \in Nat
      BY <1>0
    <3> QED BY <2>1, <2>3, <2>5, <3>1
  <2> QED BY <2>1, <2>6, <2>7, <2>8 DEF RowsOnce
<1>3. CASE MarkHaltAndSkip
  <2>1. /\ pc = "idle" /\ pc' = "idle" /\ mem' = mem + 1 /\ csv' = csv
        /\ skipped' = skipped \union {mem + 1}
    BY <1>3 DEF MarkHaltAndSkip
  <2>2. \A c \in Cycles : csv[c] <= 1 /\ (c \in skipped \/ c > mem => csv[c] = 0)
    BY <1>0, <2>1 DEF Table
  <2> QED BY <1>0, <2>1, <2>2 DEF RowsOnce, Table
<1>4. CASE OpenForRewrite
  <2>1. /\ pc = "rewrite" /\ pc' = "rewriting" /\ mem' = mem /\ skipped' = skipped
        /\ kept' = UpTo(csv, mem)
    BY <1>4 DEF OpenForRewrite
  <2>2. \A c \in Cycles : kept'[c] = IF c <= mem THEN csv[c] ELSE 0
    BY <1>0, <2>1, RowsUpTo
  <2>3. \A c \in Cycles : csv[c] <= 1 /\ (c \in skipped => csv[c] = 0)
    BY <1>0, <2>1 DEF Table
  <2> QED BY <1>0, <2>1, <2>2, <2>3 DEF RowsOnce, Table
<1>5. CASE WriteBack
  BY <1>0, <1>5 DEF WriteBack, RowsOnce, Table
<1>6. CASE TornRow \/ PowerLoss \/ StartAgain \/ CrashInRewrite
  BY <1>6 DEF TornRow, PowerLoss, StartAgain, CrashInRewrite, Mishap, Ordinary
<1> QED BY <1>1, <1>2, <1>3, <1>4, <1>5, <1>6 DEF Next, Record, Reconcile

(* The invariant holds of every run directory. *)
LEMMA Invariance == Spec => []RecorderInv
<1>1. RecorderInv /\ [Next /\ UNCHANGED faults]_vars => RecorderInv'
  BY TypeStep, PlaceStep, ClaimsStep, RowsStep, RowsOnceStep DEF RecorderInv
<1> QED BY InvInit, <1>1, PTL DEF Spec

-----------------------------------------------------------------------------
(* What runstate.json claims is there, whatever crashed, tore or lost power.   *)
THEOREM ClaimsAreBacked == Spec => []ClaimsBacked
<1>1. RecorderInv => ClaimsBacked
  <2> SUFFICES ASSUME RecorderInv PROVE ClaimsBacked
    OBVIOUS
  <2>1. runstate.count = Cardinality(Claimed(runstate))
    BY DEF RecorderInv, Claims, Counted
  <2>2. \A c \in Claimed(runstate) : art[c] = "full" /\ c \in Cycles /\ c \notin skipped
    BY ClaimedRange DEF RecorderInv, Claims
  <2>3. faults = {"torn_row"} => \A c \in Claimed(runstate) : Table[c] >= 1
    BY DEF RecorderInv, Rows
  <2>4. Ordinary => \A c \in Claimed(runstate) : Table[c] >= 1 /\ Table[c] <= 1 /\ Table[c] \in Nat
    BY <2>2 DEF RecorderInv, TypeOK, Rows, RowsOnce, Ordinary, Table
  <2>5. Ordinary => \A c \in Claimed(runstate) : Table[c] = 1
    BY <2>4
  <2> QED BY <2>1, <2>2, <2>3, <2>5 DEF ClaimsBacked, Claimed
<1> QED BY <1>1, Invariance, PTL

(* No cycle is counted twice, and the totals are the rows. *)
THEOREM NothingCountedTwice == Spec => []NoDoubleCount
<1>1. RecorderInv => NoDoubleCount
  <2> SUFFICES ASSUME RecorderInv, Ordinary PROVE NoDoubleCount
    BY DEF NoDoubleCount
  <2>1. \A c \in Cycles : Table[c] \in Nat /\ Table[c] <= 1 /\ (c \in skipped => Table[c] = 0)
    BY DEF RecorderInv, TypeOK, RowsOnce, Table
  <2>2. \A c \in Claimed(runstate) : c \in Cycles /\ Table[c] >= 1
    BY ClaimedRange DEF RecorderInv, Rows, Ordinary
  <2>3. 1 .. runstate.last \subseteq Cycles
    BY Constants DEF RecorderInv, TypeOK, Runstates, Cycles
  <2>4. {c \in 1 .. runstate.last : Table[c] = 1} = Claimed(runstate)
    BY <2>1, <2>2, <2>3 DEF Claimed
  <2> QED BY <2>1, <2>4 DEF RecorderInv, Claims, Counted, NoDoubleCount
<1> QED BY <1>1, Invariance, PTL

(* With whole rows, the log DurableLog sees is what runstate.json claims. *)
LogOK == RecorderInv /\ (Ordinary => Log = Claimed(runstate))

(* Every claimed cycle has its row, and every row is claimed. *)
LEMMA LogIsClaimed == RecorderInv => LogOK
<1> SUFFICES ASSUME RecorderInv, Ordinary PROVE Log = Claimed(runstate)
  BY DEF LogOK
<1>1. \A c \in Cycles : c \in skipped => Table[c] = 0
  BY DEF RecorderInv, RowsOnce
<1>2. \A c \in Claimed(runstate) : c \in Cycles /\ c <= runstate.last /\ Table[c] >= 1
  BY ClaimedRange DEF RecorderInv, Rows, Ordinary
<1>3. \A c \in Cycles : c \in Nat /\ c >= 1 /\ runstate.last \in Nat
  BY Constants DEF RecorderInv, TypeOK, Runstates, Cycles
<1> QED BY <1>1, <1>2, <1>3 DEF Log, Claimed

(* record_cycle, the halt marks, crashes and resumes are an append-only log    *)
(* whose heartbeats only certify what it holds.                                *)
THEOREM Implementation == Spec => ImplementsDurableLog
<1>1. Init => Promise!Init
  <2>1. ASSUME Init PROVE Log = {} /\ beat = 0
    BY <2>1, Constants DEF Init, Log, Cycles, Ordinary
  <2> QED BY <2>1 DEF Promise!Init
<1>2. LogOK /\ LogOK' /\ [Next /\ UNCHANGED faults]_vars
        => [Promise!Next]_Promise!logVars
  <2> SUFFICES ASSUME LogOK, LogOK', [Next /\ UNCHANGED faults]_vars
               PROVE  [Promise!Next]_Promise!logVars
    OBVIOUS
  <2>0. faults' = faults /\ RecorderInv
    BY DEF vars, LogOK
  <2>1. CASE ~Ordinary
    <3>1. ~Ordinary'
      BY <2>0, <2>1 DEF Ordinary
    <3> QED BY <2>1, <3>1 DEF Log, Promise!logVars
  <2>2. CASE Ordinary
    <3>0. Ordinary'
      BY <2>0, <2>2 DEF Ordinary
    <3>1. Ordinary' /\ Log = Claimed(runstate) /\ Log' = Claimed(runstate)'
      BY <2>2, <3>0 DEF LogOK
    <3>2. CASE AdvanceRunstate
      <4>1. beat' = beat /\ pc = "state"
        BY <3>2 DEF AdvanceRunstate
      <4>2. Log' = Log \/ Log' = Log \union {mem + 1}
        BY <2>2, <3>1, ClaimedGrows, <2>0 DEF Ordinary
      <4>a. mem + 1 \in Cycles /\ mem \in Nat
        BY <2>0, <4>1, Constants DEF RecorderInv, TypeOK, Place
      <4>b. \A d \in Log : d \in Cycles /\ d <= mem
        BY <2>0, <3>1, <4>1, ClaimedRange
      <4>3. mem + 1 \in Cycles /\ mem \in Nat /\ \A d \in Log : d \in Nat /\ d <= mem
        BY <4>a, <4>b, Constants DEF Cycles
      <4>4. \A d \in Log : d < mem + 1
        BY <4>3
      <4>5. CASE Log' = Log \union {mem + 1}
        <5>1. Promise!Record(mem + 1)
          BY <2>2, <3>1, <4>1, <4>4, <4>5 DEF Promise!Record
        <5> QED BY <4>3, <5>1 DEF Promise!Next
      <4>6. CASE Log' = Log
        BY <2>2, <3>1, <4>1, <4>6 DEF Promise!logVars
      <4> QED BY <4>2, <4>5, <4>6
    <3>3. CASE Heartbeat
      <4>1. pc = "heartbeat" /\ beat' = mem + 1 /\ UNCHANGED <<runstate, skipped>>
        BY <3>3 DEF Heartbeat, files
      <4>2. Log' = Log
        BY <3>1, <4>1 DEF Claimed
      <4>3. /\ mem + 1 \in Cycles /\ mem \in Nat /\ runstate.last = mem + 1
            /\ \A c \in skipped : c <= mem
        BY <2>0, <4>1, Constants DEF RecorderInv, TypeOK, Place
      <4>4. mem + 1 \in Log
        BY <3>1, <4>3 DEF Claimed
      <4>5. Promise!Certify(mem + 1)
        BY <2>2, <3>1, <4>1, <4>2, <4>4 DEF Promise!Certify
      <4> QED BY <4>3, <4>5 DEF Promise!Next
    <3>4. CASE ~AdvanceRunstate /\ ~Heartbeat
      <4>1. Log' = Log
        BY <2>2, <3>1, <3>4, ClaimedGrows, <2>0 DEF Ordinary
      <4>2. beat' = beat
        BY <3>4 DEF Next, Record, Reconcile, WriteArtifacts, FinishArtifacts, AppendRow,
             MarkHaltAndSkip, Resume, Unlink, OpenForRewrite, WriteBack, Settle, Crash,
             CrashInRewrite, PowerLoss, TornRow, StartAgain, vars
      <4> QED BY <2>2, <3>1, <4>1, <4>2 DEF Promise!logVars
    <3> QED BY <3>2, <3>3, <3>4
  <2> QED BY <2>1, <2>2
<1> QED BY <1>1, <1>2, Invariance, LogIsClaimed, PTL DEF Spec, ImplementsDurableLog, Promise!Spec
=============================================================================
