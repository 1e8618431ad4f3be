---------------------------- MODULE BillingProofs ----------------------------
(***************************************************************************)
(* Proofs about Billing, for every set of turns and every number of        *)
(* retries: its type invariant, its safety invariants, and that it         *)
(* implements ChargeLedger.                                                *)
(*                                                                         *)
(* The argument: what a delivery has on the wire decides everything. As    *)
(* long as it may still post, nothing was ever sent (Unsent); so a second  *)
(* post can never follow a first one, and "applied" counts exactly the     *)
(* requests that the wallet has applied (AppliedOnce). A definite reason   *)
(* is recorded only when nothing was sent, and then nothing ever is        *)
(* (DefiniteRecords).                                                      *)
(***************************************************************************)
EXTENDS Billing, TLAPS

(* A delivery that may still post has not posted and has recorded nothing. *)
Unsent ==
    \A c \in Charge : fire[c] \in {"none", "connecting", "backoff"} =>
        wire[c] = "none" /\ dead[c] = {}

(* A delivery that waits to retry has a retry left.                        *)
RetryLeft == \A c \in Charge : fire[c] = "backoff" => attempt[c] < Retries

(* The wallet's count follows the wire.                                    *)
AppliedOnce ==
    \A c \in Charge : applied[c] = IF wire[c] = "applied" THEN 1 ELSE 0

(* A definite reason is recorded last, when nothing has been on the wire.  *)
DefiniteRecords ==
    \A c \in Charge : Records(c, Definite) =>
        /\ fire[c] \in Ended
        /\ wire[c] = "none"

(* A delivery starts only when its billing task is done.                   *)
FireAfterBill == \A c \in Charge : bill[c] # "done" => fire[c] = "none"

IInv ==
    /\ TypeOK
    /\ FireAfterBill
    /\ RetryLeft
    /\ Unsent
    /\ AppliedOnce
    /\ DefiniteRecords
    /\ NothingDropped

-----------------------------------------------------------------------------
(* The inductive invariant.                                                *)

LEMMA InitIInv == Init => IInv
<1> SUFFICES ASSUME Init PROVE IInv
  OBVIOUS
<1>1. TypeOK
  BY BillingAssumption DEF Init, TypeOK, BillState, FireState, Task
<1>2. FireAfterBill /\ RetryLeft /\ Unsent /\ AppliedOnce /\ DefiniteRecords /\ NothingDropped
  BY DEF Init, FireAfterBill, RetryLeft, Unsent, AppliedOnce, DefiniteRecords, Records,
         NothingDropped, Ended
<1> QED
  BY <1>1, <1>2 DEF IInv

(* A step that adds a record of c, of some reason and medium, and leaves   *)
(* the records of the other charges alone.                                 *)
LEMMA DeadLetterType ==
    ASSUME TypeOK, NEW c \in Charge, NEW reason \in Reason, DeadLetter(c, reason)
    PROVE  /\ dead' \in [Charge -> SUBSET (Reason \X Medium)]
           /\ \E m \in Medium : dead'[c] = dead[c] \cup {<<reason, m>>}
           /\ \A d \in Charge : d # c => dead'[d] = dead[d]
BY DEF TypeOK, DeadLetter

(* What a step may do to the records of a charge other than add to them.   *)
LEMMA RecordsAfter ==
    ASSUME TypeOK, NEW c \in Charge, NEW reason \in Reason, DeadLetter(c, reason)
    PROVE  /\ dead'[c] # {}
           /\ Records(c, Definite)' <=> (Records(c, Definite) \/ reason \in Definite)
           /\ Records(c, InDoubt)' <=>
                 (Records(c, InDoubt) \/ reason \in InDoubt)
           /\ \A d \in Charge : d # c =>
                 /\ dead'[d] = dead[d]
                 /\ Records(d, Definite)' <=> Records(d, Definite)
                 /\ Records(d, InDoubt)' <=> Records(d, InDoubt)
<1>1. PICK m \in Medium : dead'[c] = dead[c] \cup {<<reason, m>>}
  BY DeadLetterType
<1>2. ASSUME NEW R PROVE Records(c, R)' <=> (Records(c, R) \/ reason \in R)
  <2>1. <<reason, m>>[1] = reason
    OBVIOUS
  <2>2. (\E r \in dead'[c] : r[1] \in R) <=> ((\E r \in dead[c] : r[1] \in R) \/ reason \in R)
    BY <1>1, <2>1, Zenon
  <2> QED
    BY <2>2, Zenon DEF Records
<1>3. \A d \in Charge : d # c => dead'[d] = dead[d]
  BY DeadLetterType
<1> QED
  BY <1>1, <1>2, <1>3 DEF Records, Definite

-----------------------------------------------------------------------------
(* Each action preserves the inductive invariant.                          *)

LEMMA StepType == TypeOK /\ RetryLeft /\ [Next]_vars => TypeOK'
<1> SUFFICES ASSUME TypeOK, RetryLeft, [Next]_vars PROVE TypeOK'
  OBVIOUS
<1> USE BillingAssumption DEF TypeOK, BillState, FireState, taskVars, walletVars, shutdownVars
<1>1. ASSUME NEW c \in Charge, EndTurn(c) PROVE TypeOK'
  BY <1>1 DEF EndTurn
<1>2. ASSUME NEW c \in Charge, RetryLater(c) PROVE TypeOK'
  BY <1>2 DEF RetryLater, FireRuns
<1>3. ASSUME NEW c \in Charge, WakeUp(c) PROVE TypeOK'
  BY <1>3 DEF WakeUp, FireRuns, RetryLeft
<1>4. ASSUME NEW c \in Charge, Send(c) PROVE TypeOK'
  BY <1>4 DEF Send, FireRuns
<1>5. ASSUME NEW c \in Charge, Delivered(c) PROVE TypeOK'
  BY <1>5 DEF Delivered, FireRuns
<1>6. ASSUME NEW c \in Charge, CloseClient(c) PROVE TypeOK'
  BY <1>6 DEF CloseClient, FireRuns
<1>7. ASSUME NEW c \in Charge, WalletApplies(c) PROVE TypeOK'
  BY <1>7 DEF WalletApplies
<1>8. ASSUME NEW c \in Charge, WalletDoesNotApply(c) PROVE TypeOK'
  BY <1>8 DEF WalletDoesNotApply
<1>9. ASSUME NEW c \in Charge, CancelBill(c) PROVE TypeOK'
  BY <1>9 DEF CancelBill
<1>10. ASSUME NEW c \in Charge, Unreachable(c) PROVE TypeOK'
  <2>1. dead' \in [Charge -> SUBSET (Reason \X Medium)]
    BY <1>10, DeadLetterType DEF Unreachable, Reason, Definite, InDoubt
  <2> QED
    BY <1>10, <2>1 DEF Unreachable, FireRuns
<1>11. ASSUME NEW c \in Charge, OutcomeUnknown(c) PROVE TypeOK'
  <2>1. dead' \in [Charge -> SUBSET (Reason \X Medium)]
    BY <1>11, DeadLetterType DEF OutcomeUnknown, Reason, Definite, InDoubt
  <2> QED
    BY <1>11, <2>1 DEF OutcomeUnknown, FireRuns
<1>12. ASSUME NEW c \in Charge, Refused(c) PROVE TypeOK'
  <2>1. dead' \in [Charge -> SUBSET (Reason \X Medium)]
    BY <1>12, DeadLetterType DEF Refused, Reason, Definite, InDoubt
  <2> QED
    BY <1>12, <2>1 DEF Refused, FireRuns
<1>13. ASSUME NEW c \in Charge, CancelFire(c) PROVE TypeOK'
  <2>1. dead' \in [Charge -> SUBSET (Reason \X Medium)]
    BY <1>13, DeadLetterType DEF CancelFire, Reason, Definite, InDoubt
  <2> QED
    BY <1>13, <2>1 DEF CancelFire
<1>14. ASSUME NEW c \in Charge, SpawnCharge(c) PROVE TypeOK'
  <2>1. dead' \in [Charge -> SUBSET (Reason \X Medium)]
    BY <1>14, DeadLetterType DEF SpawnCharge, Reason, Definite, InDoubt
  <2> QED
    BY <1>14, <2>1 DEF SpawnCharge, BillRuns
<1>15. CASE BeginDrain
  BY <1>15 DEF BeginDrain, Live
<1>16. CASE DrainTimeout
  BY <1>16 DEF DrainTimeout, Live
<1>17. CASE DrainReturns
  BY <1>17 DEF DrainReturns, Live
<1>18. CASE LoopCloses
  BY <1>18 DEF LoopCloses, Live
<1>19. CASE UNCHANGED vars
  BY <1>19 DEF vars
<1> QED
  BY <1>1, <1>2, <1>3, <1>4, <1>5, <1>6, <1>7, <1>8, <1>9, <1>10,
     <1>11, <1>12, <1>13, <1>14, <1>15, <1>16, <1>17, <1>18, <1>19
     DEF Next, FireStep, WalletStep, ShutdownStep

(* The conjuncts of IInv other than the type invariant.                    *)
Safety ==
    FireAfterBill /\ RetryLeft /\ Unsent /\ AppliedOnce /\ DefiniteRecords /\ NothingDropped

LEMMA StepSafety == IInv /\ [Next]_vars => Safety'
<1> SUFFICES ASSUME IInv, [Next]_vars PROVE Safety'
  OBVIOUS
<1> USE BillingAssumption
<1> USE DEF IInv, TypeOK, BillState, FireState, Ended, taskVars, walletVars, shutdownVars,
            Safety, FireAfterBill, RetryLeft, Unsent, AppliedOnce, DefiniteRecords, NothingDropped
<1>1. ASSUME NEW c \in Charge, EndTurn(c) PROVE Safety'
  <2>1. \A d \in Charge : Records(d, Definite)' <=> Records(d, Definite)
    BY <1>1 DEF EndTurn, Records
  <2> QED
    BY <1>1, <2>1 DEF EndTurn
<1>2. ASSUME NEW c \in Charge, RetryLater(c) PROVE Safety'
  <2>1. \A d \in Charge : Records(d, Definite)' <=> Records(d, Definite)
    BY <1>2 DEF RetryLater, Records
  <2> QED
    BY <1>2, <2>1 DEF RetryLater, FireRuns
<1>3. ASSUME NEW c \in Charge, WakeUp(c) PROVE Safety'
  <2>1. \A d \in Charge : Records(d, Definite)' <=> Records(d, Definite)
    BY <1>3 DEF WakeUp, Records
  <2> QED
    BY <1>3, <2>1 DEF WakeUp, FireRuns
<1>4. ASSUME NEW c \in Charge, Send(c) PROVE Safety'
  <2>1. \A d \in Charge : Records(d, Definite)' <=> Records(d, Definite)
    BY <1>4 DEF Send, Records
  <2> QED
    BY <1>4, <2>1 DEF Send, FireRuns
<1>5. ASSUME NEW c \in Charge, Delivered(c) PROVE Safety'
  <2>1. \A d \in Charge : Records(d, Definite)' <=> Records(d, Definite)
    BY <1>5 DEF Delivered, Records
  <2> QED
    BY <1>5, <2>1 DEF Delivered, FireRuns
<1>6. ASSUME NEW c \in Charge, CloseClient(c) PROVE Safety'
  <2>1. \A d \in Charge : Records(d, Definite)' <=> Records(d, Definite)
    BY <1>6 DEF CloseClient, Records
  <2> QED
    BY <1>6, <2>1 DEF CloseClient, FireRuns
<1>7. ASSUME NEW c \in Charge, WalletApplies(c) PROVE Safety'
  <2>1. \A d \in Charge : Records(d, Definite)' <=> Records(d, Definite)
    BY <1>7 DEF WalletApplies, Records
  <2> QED
    BY <1>7, <2>1 DEF WalletApplies
<1>8. ASSUME NEW c \in Charge, WalletDoesNotApply(c) PROVE Safety'
  <2>1. \A d \in Charge : Records(d, Definite)' <=> Records(d, Definite)
    BY <1>8 DEF WalletDoesNotApply, Records
  <2> QED
    BY <1>8, <2>1 DEF WalletDoesNotApply
<1>9. ASSUME NEW c \in Charge, CancelBill(c) PROVE Safety'
  <2>1. \A d \in Charge : Records(d, Definite)' <=> Records(d, Definite)
    BY <1>9 DEF CancelBill, Records
  <2> QED
    BY <1>9, <2>1 DEF CancelBill
<1>10. ASSUME NEW c \in Charge, Unreachable(c) PROVE Safety'
  <2>1. /\ dead'[c] # {}
        /\ Records(c, Definite)' <=> (Records(c, Definite) \/ "unreachable" \in Definite)
        /\ \A d \in Charge : d # c => dead'[d] = dead[d] /\ (Records(d, Definite)' <=> Records(d, Definite))
    BY <1>10, RecordsAfter DEF Unreachable, Reason, Definite, InDoubt
  <2> QED
    BY <1>10, <2>1 DEF Unreachable, FireRuns, Definite
<1>11. ASSUME NEW c \in Charge, OutcomeUnknown(c) PROVE Safety'
  <2>1. /\ dead'[c] # {}
        /\ Records(c, Definite)' <=> (Records(c, Definite) \/ "unknown" \in Definite)
        /\ \A d \in Charge : d # c => dead'[d] = dead[d] /\ (Records(d, Definite)' <=> Records(d, Definite))
    BY <1>11, RecordsAfter DEF OutcomeUnknown, Reason, Definite, InDoubt
  <2> QED
    BY <1>11, <2>1 DEF OutcomeUnknown, FireRuns, Definite
<1>12. ASSUME NEW c \in Charge, Refused(c) PROVE Safety'
  <2>1. /\ dead'[c] # {}
        /\ Records(c, Definite)' <=> (Records(c, Definite) \/ "refused" \in Definite)
        /\ \A d \in Charge : d # c => dead'[d] = dead[d] /\ (Records(d, Definite)' <=> Records(d, Definite))
    BY <1>12, RecordsAfter DEF Refused, Reason, Definite, InDoubt
  <2> QED
    BY <1>12, <2>1 DEF Refused, FireRuns, Definite
<1>13. ASSUME NEW c \in Charge, CancelFire(c) PROVE Safety'
  <2>1. /\ dead'[c] # {}
        /\ Records(c, Definite)' <=> (Records(c, Definite) \/ "cancelled" \in Definite)
        /\ \A d \in Charge : d # c => dead'[d] = dead[d] /\ (Records(d, Definite)' <=> Records(d, Definite))
    BY <1>13, RecordsAfter DEF CancelFire, Reason, Definite, InDoubt
  <2> QED
    BY <1>13, <2>1 DEF CancelFire, Live, Task, Definite
<1>14. ASSUME NEW c \in Charge, SpawnCharge(c) PROVE Safety'
  <2>1. CASE url = "unset"
    <3>1. /\ dead'[c] # {}
          /\ \A d \in Charge : d # c => dead'[d] = dead[d] /\ (Records(d, Definite)' <=> Records(d, Definite))
      BY <1>14, <2>1, RecordsAfter DEF SpawnCharge, Reason, Definite, InDoubt
    <3> QED
      BY <1>14, <2>1, <3>1 DEF SpawnCharge, BillRuns
  <2>2. CASE url # "unset"
    <3>1. \A d \in Charge : Records(d, Definite)' <=> Records(d, Definite)
      BY <1>14, <2>2 DEF SpawnCharge, Records
    <3>2. fire[c] = "none"
      BY <1>14 DEF SpawnCharge, BillRuns
    <3> QED
      BY <1>14, <2>2, <3>1, <3>2 DEF SpawnCharge, BillRuns
  <2> QED
    BY <2>1, <2>2
<1>15. CASE BeginDrain \/ ShutdownStep \/ UNCHANGED vars
  <2>1. UNCHANGED <<taskVars, walletVars, dead>>
    BY <1>15 DEF BeginDrain, ShutdownStep, DrainTimeout, DrainReturns, LoopCloses, vars
  <2>2. \A d \in Charge : Records(d, Definite)' <=> Records(d, Definite)
    BY <2>1 DEF Records
  <2> QED
    BY <2>1, <2>2
<1> QED
  BY <1>1, <1>2, <1>3, <1>4, <1>5, <1>6, <1>7, <1>8, <1>9, <1>10,
     <1>11, <1>12, <1>13, <1>14, <1>15
     DEF Next, FireStep, WalletStep

THEOREM Invariance == Spec => []IInv
<1>1. Init => IInv
  BY InitIInv
<1>2. IInv /\ [Next]_vars => IInv'
  BY StepType, StepSafety DEF IInv, Safety
<1> QED
  BY <1>1, <1>2, PTL DEF Spec

-----------------------------------------------------------------------------
(* What the runs check, for every instance.                                *)

(* The state of the process is always of the type TypeOK gives it: in      *)
(* particular a delivery never makes more than Retries + 1 attempts.       *)
THEOREM TypeCorrect == Spec => []TypeOK
BY Invariance, PTL DEF IInv

(* The wallet takes the money for a turn at most once, whatever is retried,*)
(* times out or is cancelled (_fire_charge).                               *)
THEOREM AtMostOnce == Spec => []NoDoubleCharge
<1>1. ASSUME IInv, NEW c \in Charge PROVE applied[c] <= 1
  <2>1. applied[c] = 1 \/ applied[c] = 0
    BY <1>1 DEF IInv, AppliedOnce
  <2> QED
    BY <2>1
<1>2. IInv => NoDoubleCharge
  BY <1>1 DEF NoDoubleCharge
<1> QED
  BY <1>2, Invariance, PTL

(* A dead letter with a definite reason can always be replayed without     *)
(* charging the user twice (_dead_letter, _fire_charge).                   *)
THEOREM ReplayIsSafe == Spec => []SafeReplay
<1>1. IInv => SafeReplay
  BY DEF IInv, AppliedOnce, DefiniteRecords, SafeReplay
<1> QED
  BY <1>1, Invariance, PTL

(* No delivery ends without the wallet having applied the charge or a dead *)
(* letter recording it (_fire_charge).                                     *)
THEOREM DeliveryLosesNothing == Spec => []NothingDropped
BY Invariance, PTL DEF IInv

-----------------------------------------------------------------------------
(* The refinement: every step of Billing is a step of ChargeLedger or      *)
(* leaves the ledger alone.                                                *)

(* A step that changes neither the wallet's counts, nor the records, nor   *)
(* which deliveries have ended.                                            *)
LEMMA LedgerUntouched ==
    ASSUME UNCHANGED <<applied, dead>>,
           \A c \in Charge : fire'[c] \in Ended <=> fire[c] \in Ended
    PROVE  UNCHANGED Ledger!ledgerVars
<1>1. Replayable' = Replayable /\ Doubtful' = Doubtful
  BY DEF Replayable, Doubtful, Records
<1>2. Settled' = Settled
  BY DEF Settled
<1> QED
  BY <1>1, <1>2 DEF Ledger!ledgerVars

(* A step that settles c with a definite record is a write-off.            *)
LEMMA LedgerWriteOff ==
    ASSUME TypeOK, NEW c \in Charge, NEW reason \in Definite, DeadLetter(c, reason),
           applied[c] = 0, fire[c] \notin Ended, UNCHANGED applied,
           \A d \in Charge : fire'[d] \in Ended <=> d = c \/ fire[d] \in Ended
    PROVE  Ledger!WriteOff(c)
<1>1. reason \in Reason /\ reason \notin InDoubt
  BY DEF Reason, Definite, InDoubt
<1>2. Replayable' = Replayable \cup {c} /\ Doubtful' = Doubtful
  BY <1>1, RecordsAfter DEF Replayable, Doubtful
<1>3. Settled' = Settled \cup {c} /\ c \notin Settled
  BY DEF Settled
<1> QED
  BY <1>2, <1>3 DEF Ledger!WriteOff

(* A step that settles c with a record of doubt.                           *)
LEMMA LedgerDoubt ==
    ASSUME TypeOK, NEW c \in Charge, NEW reason \in InDoubt,
           DeadLetter(c, reason), UNCHANGED applied,
           \A d \in Charge : fire'[d] \in Ended <=> d = c \/ fire[d] \in Ended
    PROVE  Ledger!Doubt(c)
<1>1. reason \in Reason /\ reason \notin Definite
  BY DEF Reason, Definite, InDoubt
<1>2. Replayable' = Replayable /\ Doubtful' = Doubtful \cup {c}
  BY <1>1, RecordsAfter DEF Replayable, Doubtful
<1>3. Settled' = Settled \cup {c}
  BY DEF Settled
<1> QED
  BY <1>2, <1>3 DEF Ledger!Doubt

LEMMA LedgerStep == IInv /\ [Next]_vars => [Ledger!Next]_(Ledger!ledgerVars)
<1> SUFFICES ASSUME IInv, [Next]_vars PROVE Ledger!Next \/ UNCHANGED Ledger!ledgerVars
  OBVIOUS
<1> USE DEF IInv, TypeOK, FireState, Ended, taskVars, walletVars, shutdownVars
<1>1. ASSUME NEW c \in Charge, EndTurn(c) PROVE UNCHANGED Ledger!ledgerVars
  BY <1>1, LedgerUntouched DEF EndTurn
<1>2. ASSUME NEW c \in Charge, RetryLater(c) PROVE UNCHANGED Ledger!ledgerVars
  BY <1>2, LedgerUntouched DEF RetryLater, FireRuns
<1>3. ASSUME NEW c \in Charge, WakeUp(c) PROVE UNCHANGED Ledger!ledgerVars
  BY <1>3, LedgerUntouched DEF WakeUp, FireRuns
<1>4. ASSUME NEW c \in Charge, Send(c) PROVE UNCHANGED Ledger!ledgerVars
  BY <1>4, LedgerUntouched DEF Send, FireRuns
<1>5. ASSUME NEW c \in Charge, CloseClient(c) PROVE UNCHANGED Ledger!ledgerVars
  BY <1>5, LedgerUntouched DEF CloseClient, FireRuns
<1>6. ASSUME NEW c \in Charge, WalletDoesNotApply(c) PROVE UNCHANGED Ledger!ledgerVars
  BY <1>6, LedgerUntouched DEF WalletDoesNotApply
<1>7. ASSUME NEW c \in Charge, CancelBill(c) PROVE UNCHANGED Ledger!ledgerVars
  BY <1>7, LedgerUntouched DEF CancelBill
<1>8. ASSUME NEW c \in Charge, Unreachable(c) PROVE Ledger!WriteOff(c)
  <2>1. \A d \in Charge : fire'[d] \in Ended <=> d = c \/ fire[d] \in Ended
    BY <1>8 DEF Unreachable
  <2>2. applied[c] = 0 /\ fire[c] \notin Ended
    BY <1>8 DEF Unreachable, FireRuns, Unsent, AppliedOnce
  <2> QED
    BY <1>8, <2>1, <2>2, LedgerWriteOff DEF Unreachable, Definite
<1>9. ASSUME NEW c \in Charge, Refused(c) PROVE Ledger!Doubt(c)
  <2>1. \A d \in Charge : fire'[d] \in Ended <=> d = c \/ fire[d] \in Ended
    BY <1>9 DEF Refused
  <2> QED
    BY <1>9, <2>1, LedgerDoubt DEF Refused, InDoubt
<1>10. ASSUME NEW c \in Charge, OutcomeUnknown(c) PROVE Ledger!Doubt(c)
  <2>1. \A d \in Charge : fire'[d] \in Ended <=> d = c \/ fire[d] \in Ended
    BY <1>10 DEF OutcomeUnknown
  <2> QED
    BY <1>10, <2>1, LedgerDoubt DEF OutcomeUnknown, InDoubt
<1>11. ASSUME NEW c \in Charge, CancelFire(c) PROVE Ledger!Doubt(c)
  <2>1. \A d \in Charge : fire'[d] \in Ended <=> d = c \/ fire[d] \in Ended
    BY <1>11 DEF CancelFire
  <2> QED
    BY <1>11, <2>1, LedgerDoubt DEF CancelFire, InDoubt
<1>12. ASSUME NEW c \in Charge, SpawnCharge(c) PROVE Ledger!WriteOff(c) \/ UNCHANGED Ledger!ledgerVars
  <2>1. fire[c] = "none" /\ applied[c] = 0
    BY <1>12 DEF SpawnCharge, BillRuns, FireAfterBill, Unsent, AppliedOnce
  <2>2. CASE url = "unset"
    <3>1. \A d \in Charge : fire'[d] \in Ended <=> d = c \/ fire[d] \in Ended
      BY <1>12, <2>2 DEF SpawnCharge
    <3> QED
      BY <1>12, <2>1, <2>2, <3>1, LedgerWriteOff DEF SpawnCharge, Definite
  <2>3. CASE url # "unset"
    BY <1>12, <2>1, <2>3, LedgerUntouched DEF SpawnCharge
  <2> QED
    BY <2>2, <2>3
<1>13. ASSUME NEW c \in Charge, Delivered(c) PROVE Ledger!Acknowledge(c)
  <2>1. applied[c] = 1 /\ c \notin Settled
    BY <1>13 DEF Delivered, FireRuns, AppliedOnce, Settled
  <2>2. Settled' = Settled \cup {c}
    BY <1>13 DEF Delivered, Settled
  <2>3. Replayable' = Replayable /\ Doubtful' = Doubtful
    BY <1>13 DEF Delivered, Replayable, Doubtful, Records
  <2> QED
    BY <1>13, <2>1, <2>2, <2>3 DEF Delivered, Ledger!Acknowledge
<1>14. ASSUME NEW c \in Charge, WalletApplies(c) PROVE Ledger!Apply(c)
  <2>1. applied[c] = 0 /\ c \notin Replayable
    BY <1>14 DEF WalletApplies, AppliedOnce, DefiniteRecords, Replayable
  <2>2. Settled' = Settled
    BY <1>14 DEF WalletApplies, Settled
  <2>3. Replayable' = Replayable /\ Doubtful' = Doubtful
    BY <1>14 DEF WalletApplies, Replayable, Doubtful, Records
  <2>4. applied' = [applied EXCEPT ![c] = 1]
    BY <1>14, <2>1 DEF WalletApplies
  <2> QED
    BY <2>1, <2>2, <2>3, <2>4 DEF Ledger!Apply
<1>15. CASE BeginDrain \/ ShutdownStep \/ UNCHANGED vars
  <2>1. UNCHANGED <<fire, applied, dead>>
    BY <1>15 DEF BeginDrain, ShutdownStep, DrainTimeout, DrainReturns, LoopCloses, vars
  <2> QED
    BY <2>1, LedgerUntouched
<1> QED
  BY <1>1, <1>2, <1>3, <1>4, <1>5, <1>6, <1>7, <1>8, <1>9, <1>10,
     <1>11, <1>12, <1>13, <1>14, <1>15
     DEF Next, FireStep, WalletStep, Ledger!Next

(* Charge delivery keeps the ledger's contract: at most one application, a *)
(* write-off only of what the wallet never applies, and no end of a        *)
(* delivery without a receipt, a write-off or a record of doubt.           *)
THEOREM Refinement == Spec => ImplementsLedger
<1>1. Init => Ledger!Init
  BY DEF Init, Ledger!Init, Replayable, Doubtful, Settled, Records, Ended
<1>2. IInv /\ [Next]_vars => [Ledger!Next]_(Ledger!ledgerVars)
  BY LedgerStep
<1> QED
  BY <1>1, <1>2, Invariance, PTL DEF Spec, ImplementsLedger, Ledger!Spec
=============================================================================
