---------------------------- MODULE ChargeLedger ----------------------------
(***************************************************************************)
(* What wallet billing promises about a charge once its delivery started,  *)
(* and nothing about how it is delivered:                                  *)
(*   - the wallet applies it at most once;                                 *)
(*   - it is written off as replayable only if the wallet never applies    *)
(*     it, neither before nor after;                                       *)
(*   - its delivery ends only with the wallet's receipt, a write-off or a  *)
(*     record that says the outcome is in doubt.                           *)
(* This is the contract stated by the comment on charge delivery in        *)
(* backend/services/cost_service.py (lines 217-224). Billing implements it.*)
(***************************************************************************)
EXTENDS Naturals

CONSTANT Charge

VARIABLES
    applied,     \* how often the wallet applied each charge
    replayable,  \* charges recorded with a reason that proves they were not applied
    doubtful,    \* charges recorded with any other reason: they may have been applied
    settled      \* charges whose delivery has ended

ledgerVars == <<applied, replayable, doubtful, settled>>

Init ==
    /\ applied = [c \in Charge |-> 0]
    /\ replayable = {}
    /\ doubtful = {}
    /\ settled = {}

(* The wallet takes the money. The proxy may have stopped waiting for it.  *)
Apply(c) ==
    /\ applied[c] = 0
    /\ c \notin replayable
    /\ applied' = [applied EXCEPT ![c] = 1]
    /\ UNCHANGED <<replayable, doubtful, settled>>

(* The proxy learns that the charge was applied.                           *)
Acknowledge(c) ==
    /\ applied[c] = 1
    /\ c \notin settled
    /\ settled' = settled \cup {c}
    /\ UNCHANGED <<applied, replayable, doubtful>>

(* The proxy knows that the charge was not applied and never will be.      *)
WriteOff(c) ==
    /\ applied[c] = 0
    /\ c \notin settled
    /\ replayable' = replayable \cup {c}
    /\ settled' = settled \cup {c}
    /\ UNCHANGED <<applied, doubtful>>

(* The proxy gives up without knowing; a delivery that had already ended   *)
(* may be put in doubt too, when it is cancelled on its way out.           *)
Doubt(c) ==
    /\ doubtful' = doubtful \cup {c}
    /\ settled' = settled \cup {c}
    /\ UNCHANGED <<applied, replayable>>

Next == \E c \in Charge : Apply(c) \/ Acknowledge(c) \/ WriteOff(c) \/ Doubt(c)

Spec == Init /\ [][Next]_ledgerVars
=============================================================================
