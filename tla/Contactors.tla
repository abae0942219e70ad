------------------------------ MODULE Contactors ------------------------------
(* The contactor controller (ccid/hal/gpio_real.py) under any client that      *)
(* calls one operation at a time, and safe_off (ccid/safety.py) as the client  *)
(* sees it: three open calls in the order K3, K2, K1, each with its own        *)
(* outcome.  A GPIO call may fail; the pin is then wherever the device left    *)
(* it, while the commanded shadow keeps its old value.                         *)

CONSTANT Cycles       \* indices a charging gate token can carry

Mains     == {"K1", "K2"}
Contactor == Mains \union {"K3"}

VARIABLES
  commanded,          \* _commanded: contactor -> last successful command
  pin,                \* the physical output of each contactor
  usedGateCycles,     \* _used_gate_cycles
  lastOk,             \* success of the contactor's latest entry in _events
  offStep,            \* safe_off: the call it makes next, "done", or "idle"
  offFailed           \* safe_off: contactors whose open call raised

deviceVars == <<commanded, pin, usedGateCycles, lastOk>>
offVars    == <<offStep, offFailed>>
contactorVars == <<deviceVars, offVars>>

ContactorTypeOK ==
  /\ commanded \in [Contactor -> BOOLEAN]
  /\ pin \in [Contactor -> BOOLEAN]
  /\ lastOk \in [Contactor -> BOOLEAN]
  /\ usedGateCycles \subseteq Cycles
  /\ offStep \in Contactor \union {"done", "idle"}
  /\ offFailed \subseteq Contactor

(* A fresh controller: outputs inactive, then safe_open_all. *)
ContactorInit ==
  /\ commanded = [k \in Contactor |-> FALSE]
  /\ pin = [k \in Contactor |-> FALSE]
  /\ lastOk = [k \in Contactor |-> TRUE]
  /\ usedGateCycles = {}
  /\ offStep = "idle"
  /\ offFailed = {}

-----------------------------------------------------------------------------
(* _apply: the device moves and the shadow follows, or the call raises. *)
Drive(k, closed) ==
  /\ commanded' = [commanded EXCEPT ![k] = closed]
  /\ pin' = [pin EXCEPT ![k] = closed]
  /\ lastOk' = [lastOk EXCEPT ![k] = TRUE]

DriveFails(k, closed) ==
  /\ pin' \in {pin, [pin EXCEPT ![k] = closed]}
  /\ lastOk' = [lastOk EXCEPT ![k] = FALSE]
  /\ UNCHANGED commanded

(* Mutants: an interlock without its mains or its K3 check. *)
MayCloseK3Unpowered(c) == c \notin usedGateCycles
MayOpenAlways(k)       == TRUE

(* The checks made before the device is touched.  A rejected call raises and *)
(* leaves no event.                                                          *)
MayCloseK3(c) == c \notin usedGateCycles /\ \A m \in Mains : commanded[m]
MayOpen(k)    == k \in Mains => ~commanded["K3"]

CloseMains(k) == Drive(k, TRUE) /\ UNCHANGED usedGateCycles

(* Mutant: the charging gate token is not consumed. *)
CloseK3KeepsToken(c) == MayCloseK3(c) /\ Drive("K3", TRUE) /\ UNCHANGED usedGateCycles

CloseK3(c) ==
  /\ MayCloseK3(c)
  /\ Drive("K3", TRUE)
  /\ usedGateCycles' = usedGateCycles \union {c}

CloseFails(k) == DriveFails(k, TRUE) /\ UNCHANGED usedGateCycles

Open(k) ==
  /\ MayOpen(k)
  /\ Drive(k, FALSE)
  /\ UNCHANGED usedGateCycles

OpenFails(k) == MayOpen(k) /\ DriveFails(k, FALSE) /\ UNCHANGED usedGateCycles

-----------------------------------------------------------------------------
(* safe_off: every open call is made, whatever the earlier ones did. *)
AfterOpen == [K3 |-> "K2", K2 |-> "K1", K1 |-> "done"]

SafeOffBegin ==
  /\ offStep = "idle"
  /\ offStep' = "K3"
  /\ offFailed' = {}
  /\ UNCHANGED deviceVars

(* Mutant: the first failure ends safe_off. *)
SafeOffCallStops ==
  /\ offStep \in Contactor
  /\ \/ Open(offStep) /\ offStep' = AfterOpen[offStep] /\ UNCHANGED offFailed
     \/ OpenFails(offStep) /\ offStep' = "done" /\ offFailed' = {offStep}

SafeOffCall ==
  /\ offStep \in Contactor
  /\ offStep' = AfterOpen[offStep]
  /\ \/ Open(offStep) /\ UNCHANGED offFailed
     \/ OpenFails(offStep) /\ offFailed' = offFailed \union {offStep}
     \/ /\ ~MayOpen(offStep)
        /\ offFailed' = offFailed \union {offStep}
        /\ UNCHANGED deviceVars

SafeOffReturn ==
  /\ offStep = "done"
  /\ offStep' = "idle"
  /\ UNCHANGED <<deviceVars, offFailed>>

-----------------------------------------------------------------------------
(* Any client: one call at a time, in any order, and process restarts. *)
ClientCall ==
  /\ offStep = "idle"
  /\ \/ \E m \in Mains : CloseMains(m) \/ CloseFails(m)
     \/ \E c \in Cycles : CloseK3(c) \/ (MayCloseK3(c) /\ CloseFails("K3"))
     \/ \E k \in Contactor : Open(k) \/ OpenFails(k)
  /\ UNCHANGED offVars

Restart ==
  /\ commanded' = [k \in Contactor |-> FALSE]
  /\ pin' = [k \in Contactor |-> FALSE]
  /\ lastOk' = [k \in Contactor |-> TRUE]
  /\ usedGateCycles' = {}
  /\ offStep' = "idle"
  /\ offFailed' = {}

ContactorNext ==
  ClientCall \/ SafeOffBegin \/ SafeOffCall \/ SafeOffReturn \/ Restart

ContactorSpec == ContactorInit /\ [][ContactorNext]_contactorVars

-----------------------------------------------------------------------------
(* K3 is commanded closed only while both mains legs are: no order of calls,  *)
(* failures and rejections may leave leakage injection commanded on a         *)
(* partially opened supply.                                                   *)
K3NeedsMains == commanded["K3"] => \A m \in Mains : commanded[m]

(* The shadow the interlock decides on is the truth for every contactor whose *)
(* latest GPIO call succeeded.                                                *)
ShadowTruthful == \A k \in Contactor : lastOk[k] => pin[k] = commanded[k]

(* The same interlock on the wires: with K3 physically closed by a call that  *)
(* succeeded, a mains leg is physically open only if its own latest call      *)
(* failed.                                                                    *)
WiredInterlock ==
  pin["K3"] /\ lastOk["K3"] => \A m \in Mains : pin[m] \/ ~lastOk[m]

(* safe_off reports the truth even when it fails half way: every contactor it *)
(* does not name in its aggregate error is open, commanded and wired.         *)
SafeOffReportTruthful ==
  offStep = "done" =>
    \A k \in Contactor \ offFailed : ~commanded[k] /\ ~pin[k]

(* A mains leg never breaks the supply under a leakage load: when a call      *)
(* opens it, K3 is already open on the wire, unless K3's own latest call      *)
(* failed.                                                                    *)
NoHotSwitching ==
  [][~Restart =>
       \A m \in Mains : pin[m] /\ ~pin'[m] => ~pin["K3"] \/ ~lastOk["K3"]
    ]_contactorVars

-----------------------------------------------------------------------------
(* The controller implements the interlock promised to its clients. *)
Energy ==
  IF commanded["K3"] THEN "injecting"
  ELSE IF \A m \in Mains : commanded[m] THEN "mains"
  ELSE IF \E m \in Mains : commanded[m] THEN "partial" ELSE "off"

Promise == INSTANCE Interlock WITH energy <- Energy, spent <- usedGateCycles

ImplementsInterlock == Promise!Spec
=============================================================================
