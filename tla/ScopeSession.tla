----------------------------- MODULE ScopeSession -----------------------------
(* The oscilloscope session (ccid/hal/scope_real.py): connect and disconnect,  *)
(* a call that _retry_io repeats over a new session, and the diagnostics that  *)
(* bypass it.  The instrument and its transport are external: any operation on *)
(* them may raise.  The operators are the steps of the driver; module          *)
(* Equipment is the program that takes them.                                   *)
EXTENDS Integers

CONSTANT Attempts     \* reconnect_attempts

ASSUME AttemptsAssumption == Attempts \in Nat \ {0}

VARIABLES
  rm,                 \* _rm is a resource manager
  inst,               \* _inst is an open session
  unusable,           \* _connection_unusable
  quick,              \* the session's timeout is the one diagnostics set
  attempt,            \* which attempt of _retry_io is running; 0: no call is
  wedged,             \* history: an operation of the diagnostics has raised
  touched             \* history: the instrument was operated after that

sessionVars == <<rm, inst, unusable, quick, attempt, wedged, touched>>

SessionTypeOK ==
  /\ rm \in BOOLEAN /\ inst \in BOOLEAN /\ unusable \in BOOLEAN
  /\ quick \in BOOLEAN /\ wedged \in BOOLEAN /\ touched \in BOOLEAN
  /\ attempt \in 0 .. Attempts

SessionInit ==
  /\ rm = FALSE /\ inst = FALSE /\ unusable = FALSE
  /\ quick = FALSE /\ attempt = 0 /\ wedged = FALSE /\ touched = FALSE

(* Every operation on the instrument is noted here. *)
Operate == touched' = (touched \/ wedged)

-----------------------------------------------------------------------------
ConnectOk ==
  /\ ~unusable
  /\ IF inst THEN UNCHANGED <<rm, inst, quick, touched>>
     ELSE rm' = TRUE /\ inst' = TRUE /\ quick' = FALSE /\ Operate
  /\ UNCHANGED <<unusable, attempt, wedged>>

(* Refused, or no resource manager, or one that opens no session: it is kept. *)
ConnectRaises ==
  /\ \/ unusable /\ UNCHANGED <<rm, touched>>
     \/ ~unusable /\ ~inst /\ rm' \in {rm, TRUE} /\ Operate
  /\ UNCHANGED <<inst, unusable, quick, attempt, wedged>>

(* Mutant: a close that raises leaves the references where they are. *)
DisconnectForgets ==
  /\ UNCHANGED <<rm, inst, quick>>
  /\ IF inst /\ ~unusable THEN Operate ELSE UNCHANGED touched
  /\ UNCHANGED <<unusable, attempt, wedged>>

(* The references are dropped whatever close() does; with the connection       *)
(* marked unusable there is no close().  Whether the call raises is up to the  *)
(* caller's action: only the close of an open session can.                     *)
Disconnect ==
  /\ rm' = FALSE /\ inst' = FALSE /\ quick' = FALSE
  /\ IF inst /\ ~unusable THEN Operate ELSE UNCHANGED touched
  /\ UNCHANGED <<unusable, attempt, wedged>>

DisconnectMayRaise == inst /\ ~unusable

-----------------------------------------------------------------------------
(* _require_connected. *)
Connected == inst /\ ~unusable

(* A call: any method that talks to the instrument through _retry_io. *)
CallBegins ==
  /\ Connected
  /\ attempt = 0
  /\ attempt' = 1
  /\ UNCHANGED <<rm, inst, unusable, quick, wedged, touched>>

CallAnswers ==
  /\ attempt > 0 /\ inst
  /\ attempt' = 0
  /\ Operate
  /\ UNCHANGED <<rm, inst, unusable, quick, wedged>>

(* Mutant: a session that cannot be opened again is left for the next attempt. *)
AttemptFailsSwallowed ==
  /\ attempt > 0 /\ attempt < Attempts
  /\ attempt' = attempt + 1
  /\ inst' \in {rm, FALSE} /\ quick' = FALSE
  /\ Operate
  /\ UNCHANGED <<rm, unusable, wedged>>

(* An attempt raises: _reconnect_once closes the session, whatever that does,  *)
(* and opens another one.                                                      *)
AttemptFails ==
  /\ attempt > 0 /\ attempt < Attempts
  /\ attempt' = attempt + 1
  /\ inst' = rm /\ quick' = FALSE
  /\ Operate
  /\ UNCHANGED <<rm, unusable, wedged>>

(* The last attempt raises: a session is opened even then, and the call raises *)
(* ScopeRealError.                                                             *)
CallExhausted ==
  /\ attempt = Attempts
  /\ attempt' = 0
  /\ inst' = rm /\ quick' = FALSE
  /\ Operate
  /\ UNCHANGED <<rm, unusable, wedged>>

(* open_resource raises in _reconnect_once: there is no further attempt, and   *)
(* what raises is the exception of the VISA library.                           *)
ReopenRaises ==
  /\ attempt > 0 /\ rm
  /\ attempt' = 0
  /\ inst' = FALSE /\ quick' = FALSE
  /\ Operate
  /\ UNCHANGED <<rm, unusable, wedged>>

-----------------------------------------------------------------------------
(* capture_timeout_diagnostics, one operation after another, none repeated. *)
NextProbe ==
  [timeout |-> "clear", clear |-> "settings", settings |-> "condition",
   condition |-> "errors", errors |-> "png", png |-> "done"]
Probe == DOMAIN NextProbe

(* The first operation sets the timeout of the session; a device clear the     *)
(* backend does not have is as good as one that worked.                        *)
ProbeAnswers(p) ==
  /\ quick' = (quick \/ p = "timeout")
  /\ Operate
  /\ UNCHANGED <<rm, inst, unusable, attempt, wedged>>

(* Mutant: a failed query does not mark the connection. *)
ProbeRaisesUnmarked(p) ==
  wedged' = TRUE /\ Operate /\ UNCHANGED <<rm, inst, unusable, quick, attempt>>

(* Any other failure ends the diagnostics and the use of the connection. *)
ProbeRaises(p) ==
  /\ unusable' = TRUE /\ wedged' = TRUE
  /\ Operate
  /\ UNCHANGED <<rm, inst, quick, attempt>>

(* The budget is looked at before each query, but not before the clear.  *)
OutOfBudget(p) == p \notin {"timeout", "clear"}
=============================================================================
