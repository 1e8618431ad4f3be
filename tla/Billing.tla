------------------------------- MODULE Billing -------------------------------
(***************************************************************************)
(* Wallet billing of MisterPilot requests, from the end of a turn to the   *)
(* end of the process (backend/services/cost_service.py, and _bill in      *)
(* backend/api/routes/model.py).                                           *)
(*                                                                         *)
(* A turn that ends spawns a billing task (_bill), which prices the turn,  *)
(* waits for the exchange rate and spawns a second task (_fire_charge),    *)
(* which posts the charge to the wallet. The wallet has no idempotency     *)
(* key, so the second task retries only while nothing can have been sent,  *)
(* and writes what it cannot deliver to a dead-letter file. At shutdown    *)
(* drain() waits for the tasks that run at that moment and cancels those   *)
(* that are still running after its timeout; then the event loop closes,   *)
(* and cancels whatever runs by then.                                      *)
(*                                                                         *)
(* All the tasks run on one event loop: an action is the code between two  *)
(* awaits. The wallet and the network are external.                        *)
(***************************************************************************)
EXTENDS Naturals

CONSTANTS
    Charge,    \* the turns of MisterPilot keys that end while the process runs
    Retries    \* len(_CHARGE_RETRY_DELAYS), 3 in the code

ASSUME BillingAssumption == Retries \in Nat

VARIABLES
    url,        \* USAGE_CHARGE_URL: constant while the process runs
    bill,       \* the _bill task of each turn
    fire,       \* the _fire_charge task of each turn
    attempt,    \* its loop variable
    wire,       \* what became of the request it posted (external)
    applied,    \* how often the wallet applied the charge (external)
    dead,       \* the dead-letter records of each charge: <<reason, medium>>
    phase,      \* the process: serving, then the steps of its shutdown
    awaited,    \* the tasks drain() waits for
    cancelled   \* the tasks whose next step is a CancelledError

taskVars     == <<bill, fire, attempt>>
walletVars   == <<wire, applied>>
shutdownVars == <<phase, awaited, cancelled>>
vars == <<url, taskVars, walletVars, dead, shutdownVars>>

Definite == {"no_url", "unreachable"}    \* nothing can have reached the wallet
InDoubt  == {"refused", "unknown", "cancelled"}
Reason   == Definite \cup InDoubt
Medium   == {"file", "log"}
Task     == {"bill", "fire"} \X Charge

BillState == {"none", "pricing", "done", "lost"}
FireState == {"none", "connecting", "backoff", "waiting", "exiting", "done", "crashed"}
Ended     == {"exiting", "done"}     \* the charge itself is dealt with

TypeOK ==
    /\ url \in {"set", "unset", "malformed"}
    /\ bill \in [Charge -> BillState]
    /\ fire \in [Charge -> FireState]
    /\ attempt \in [Charge -> 0..Retries]
    /\ wire \in [Charge -> {"none", "sent", "applied", "dropped"}]
    /\ applied \in [Charge -> Nat]
    /\ dead \in [Charge -> SUBSET (Reason \X Medium)]
    /\ phase \in {"serving", "draining", "gathering", "closing", "closed"}
    /\ awaited \in SUBSET Task
    /\ cancelled \in SUBSET Task

Init ==
    /\ url \in {"set", "unset", "malformed"}
    /\ bill = [c \in Charge |-> "none"]
    /\ fire = [c \in Charge |-> "none"]
    /\ attempt = [c \in Charge |-> 0]
    /\ wire = [c \in Charge |-> "none"]
    /\ applied = [c \in Charge |-> 0]
    /\ dead = [c \in Charge |-> {}]
    /\ phase = "serving"
    /\ awaited = {}
    /\ cancelled = {}

(* _background: the tasks that are not done.                               *)
Live == {t \in Task : \/ t[1] = "bill" /\ bill[t[2]] = "pricing"
                      \/ t[1] = "fire" /\ fire[t[2]] \notin {"none", "done", "crashed"}}

BillRuns(c, state) == bill[c] = state /\ <<"bill", c>> \notin cancelled
FireRuns(c, state) == fire[c] = state /\ <<"fire", c>> \notin cancelled

(* _dead_letter: a record in the file or, if that cannot be written, in    *)
(* the log.                                                                *)
DeadLetter(c, reason) ==
    \E m \in Medium : dead' = [dead EXCEPT ![c] = @ \cup {<<reason, m>>}]

-----------------------------------------------------------------------------
(* Mutations: mistakes this code could have made. Each one replaces the    *)
(* action it is named after, and a property below must then fail.          *)

(* An off-by-one in the retry condition: one retry too many.               *)
RetryLaterOnceMore(c) ==
    /\ FireRuns(c, "connecting")
    /\ attempt[c] <= Retries
    /\ fire' = [fire EXCEPT ![c] = "backoff"]
    /\ UNCHANGED <<url, bill, attempt, walletVars, dead, shutdownVars>>

(* A "while True" whose attempt is never counted.                          *)
WakeUpUncounted(c) ==
    /\ FireRuns(c, "backoff")
    /\ fire' = [fire EXCEPT ![c] = "connecting"]
    /\ UNCHANGED <<url, bill, attempt, walletVars, dead, shutdownVars>>

(* The last connection failure returns without a dead letter.              *)
UnreachableUnrecorded(c) ==
    /\ FireRuns(c, "connecting")
    /\ attempt[c] = Retries
    /\ fire' = [fire EXCEPT ![c] = "exiting"]
    /\ UNCHANGED <<url, bill, attempt, walletVars, dead, shutdownVars>>

(* One handler for every httpx.HTTPError: a read timeout is retried too.   *)
OutcomeUnknownRetried(c) ==
    /\ FireRuns(c, "connecting") \/ FireRuns(c, "waiting")
    /\ attempt[c] < Retries
    /\ fire' = [fire EXCEPT ![c] = "backoff"]
    /\ UNCHANGED <<url, bill, attempt, walletVars, dead, shutdownVars>>

(* ... or is reported as a wallet that could not be reached.               *)
OutcomeUnknownMisreported(c) ==
    /\ FireRuns(c, "connecting") \/ FireRuns(c, "waiting")
    /\ fire' = [fire EXCEPT ![c] = "exiting"]
    /\ DeadLetter(c, "unreachable")
    /\ UNCHANGED <<url, bill, attempt, walletVars, shutdownVars>>

(* A cancellation is taken for a connection failure and is retried.        *)
CancelFireSwallowed(c) ==
    /\ <<"fire", c>> \in cancelled \cap Live
    /\ fire' = [fire EXCEPT ![c] = "backoff"]
    /\ UNCHANGED <<url, bill, attempt, walletVars, dead, shutdownVars>>

(* A cancellation is recorded as if nothing could have been sent.          *)
CancelFireMisreported(c) ==
    /\ <<"fire", c>> \in cancelled \cap Live
    /\ fire' = [fire EXCEPT ![c] = "done"]
    /\ DeadLetter(c, "unreachable")
    /\ UNCHANGED <<url, bill, attempt, walletVars, shutdownVars>>

-----------------------------------------------------------------------------
(* The billing task.                                                       *)

(* A turn ends: spawn(_bill(...)).                                         *)
EndTurn(c) ==
    /\ phase = "serving"
    /\ bill[c] = "none"
    /\ bill' = [bill EXCEPT ![c] = "pricing"]
    /\ UNCHANGED <<url, fire, attempt, walletVars, dead, shutdownVars>>

(* get_inr_rate() has answered, from its cache or after a fetch: calc_cost *)
(* spawns the delivery, which runs up to its first await before anything   *)
(* can cancel it (a new task is scheduled ahead of every later wake-up).   *)
(* Without a URL it ends in a dead letter at once; with one that httpx     *)
(* cannot parse it dies of InvalidURL, which is no HTTPError.              *)
SpawnCharge(c) ==
    /\ BillRuns(c, "pricing")
    /\ bill' = [bill EXCEPT ![c] = "done"]
    /\ \/ /\ url = "set"
          /\ fire' = [fire EXCEPT ![c] = "connecting"]
          /\ UNCHANGED dead
       \/ /\ url = "unset"
          /\ fire' = [fire EXCEPT ![c] = "done"]
          /\ DeadLetter(c, "no_url")
       \/ /\ url = "malformed"
          /\ fire' = [fire EXCEPT ![c] = "crashed"]
          /\ UNCHANGED dead
    /\ UNCHANGED <<url, attempt, walletVars, shutdownVars>>

-----------------------------------------------------------------------------
(* The delivery task. Leaving "async with AsyncClient" awaits the closing  *)
(* of its connections, so a delivery that has dealt with its charge is     *)
(* "exiting" before it is done.                                            *)

(* ConnectError or ConnectTimeout: nothing was sent.                       *)
RetryLater(c) ==
    /\ FireRuns(c, "connecting")
    /\ attempt[c] < Retries
    /\ fire' = [fire EXCEPT ![c] = "backoff"]
    /\ UNCHANGED <<url, bill, attempt, walletVars, dead, shutdownVars>>

WakeUp(c) ==
    /\ FireRuns(c, "backoff")
    /\ fire' = [fire EXCEPT ![c] = "connecting"]
    /\ attempt' = [attempt EXCEPT ![c] = @ + 1]
    /\ UNCHANGED <<url, bill, walletVars, dead, shutdownVars>>

Unreachable(c) ==
    /\ FireRuns(c, "connecting")
    /\ attempt[c] = Retries
    /\ fire' = [fire EXCEPT ![c] = "exiting"]
    /\ DeadLetter(c, "unreachable")
    /\ UNCHANGED <<url, bill, attempt, walletVars, shutdownVars>>

(* Connected, and the request has left.                                    *)
Send(c) ==
    /\ FireRuns(c, "connecting")
    /\ fire' = [fire EXCEPT ![c] = "waiting"]
    /\ wire' = [wire EXCEPT ![c] = "sent"]
    /\ UNCHANGED <<url, bill, attempt, applied, dead, shutdownVars>>

(* Any other httpx.HTTPError: a protocol error, a read timeout, a dropped  *)
(* connection. The wallet may have applied the charge, or may do so later. *)
OutcomeUnknown(c) ==
    /\ FireRuns(c, "connecting") \/ FireRuns(c, "waiting")
    /\ fire' = [fire EXCEPT ![c] = "exiting"]
    /\ DeadLetter(c, "unknown")
    /\ UNCHANGED <<url, bill, attempt, walletVars, shutdownVars>>

(* A 2xx answer: the wallet's, once it has applied the charge.             *)
Delivered(c) ==
    /\ FireRuns(c, "waiting")
    /\ wire[c] = "applied"
    /\ fire' = [fire EXCEPT ![c] = "exiting"]
    /\ UNCHANGED <<url, bill, attempt, walletVars, dead, shutdownVars>>

(* Any other answer: of the wallet, or of a gateway in front of it (502,   *)
(* 504), behind which the charge may have been applied or still may be.    *)
Refused(c) ==
    /\ FireRuns(c, "waiting")
    /\ fire' = [fire EXCEPT ![c] = "exiting"]
    /\ DeadLetter(c, "refused")
    /\ UNCHANGED <<url, bill, attempt, walletVars, shutdownVars>>

CloseClient(c) ==
    /\ FireRuns(c, "exiting")
    /\ fire' = [fire EXCEPT ![c] = "done"]
    /\ UNCHANGED <<url, bill, attempt, walletVars, dead, shutdownVars>>

-----------------------------------------------------------------------------
(* The wallet and the network: a request that was sent is applied, or is   *)
(* refused or lost on its way, whether anybody still waits or not.         *)

WalletApplies(c) ==
    /\ wire[c] = "sent"
    /\ wire' = [wire EXCEPT ![c] = "applied"]
    /\ applied' = [applied EXCEPT ![c] = @ + 1]
    /\ UNCHANGED <<url, taskVars, dead, shutdownVars>>

WalletDoesNotApply(c) ==
    /\ wire[c] = "sent"
    /\ wire' = [wire EXCEPT ![c] = "dropped"]
    /\ UNCHANGED <<url, taskVars, applied, dead, shutdownVars>>

-----------------------------------------------------------------------------
(* Cancellation and shutdown.                                              *)

(* A CancelledError in _bill: "except Exception" does not catch it.        *)
CancelBill(c) ==
    /\ bill[c] = "pricing"
    /\ <<"bill", c>> \in cancelled
    /\ bill' = [bill EXCEPT ![c] = "lost"]
    /\ UNCHANGED <<url, fire, attempt, walletVars, dead, shutdownVars>>

(* A CancelledError in _fire_charge, at whichever await it is.             *)
CancelFire(c) ==
    /\ <<"fire", c>> \in cancelled \cap Live
    /\ fire' = [fire EXCEPT ![c] = "done"]
    /\ DeadLetter(c, "cancelled")
    /\ UNCHANGED <<url, bill, attempt, walletVars, shutdownVars>>

(* The lifespan ends and drain() takes its snapshot of the running tasks.  *)
(* The server has closed its connections by then: no turn ends any more.   *)
BeginDrain ==
    /\ phase = "serving"
    /\ awaited' = Live
    /\ phase' = IF Live = {} THEN "closing" ELSE "draining"
    /\ UNCHANGED <<url, taskVars, walletVars, dead, cancelled>>

(* asyncio.wait returns at its timeout: what is unfinished is cancelled.   *)
DrainTimeout ==
    /\ phase = "draining"
    /\ awaited \cap Live # {}
    /\ phase' = "gathering"
    /\ cancelled' = awaited \cap Live
    /\ UNCHANGED <<url, taskVars, walletVars, dead, awaited>>

(* drain() returns, because all it waited for is done or its gather() is;  *)
(* closing the loop cancels the tasks that were not in the snapshot.       *)
DrainReturns ==
    /\ phase \in {"draining", "gathering"}
    /\ awaited \cap Live = {}
    /\ phase' = "closing"
    /\ cancelled' = Live
    /\ UNCHANGED <<url, taskVars, walletVars, dead, awaited>>

LoopCloses ==
    /\ phase = "closing"
    /\ Live = {}
    /\ phase' = "closed"
    /\ UNCHANGED <<url, taskVars, walletVars, dead, awaited, cancelled>>

-----------------------------------------------------------------------------
FireStep(c) == \/ RetryLater(c) \/ WakeUp(c) \/ Unreachable(c) \/ Send(c)
               \/ OutcomeUnknown(c) \/ Delivered(c) \/ Refused(c) \/ CloseClient(c)

WalletStep(c) == WalletApplies(c) \/ WalletDoesNotApply(c)

ShutdownStep == DrainTimeout \/ DrainReturns \/ LoopCloses

Next ==
    \/ \E c \in Charge : \/ EndTurn(c) \/ SpawnCharge(c) \/ FireStep(c)
                         \/ WalletStep(c) \/ CancelBill(c) \/ CancelFire(c)
    \/ BeginDrain
    \/ ShutdownStep

(* The event loop runs every ready task, and every await of these tasks    *)
(* has a timeout: 5s per operation of a rate request, 3s to connect to the *)
(* wallet, 10s per operation of its request, the retry delays, and 20s in  *)
(* drain(). Nothing is assumed of the wallet or of the users.              *)
Fairness ==
    /\ \A c \in Charge : /\ WF_vars(SpawnCharge(c))
                         /\ WF_vars(FireStep(c))
                         /\ WF_vars(CancelBill(c))
                         /\ WF_vars(CancelFire(c))
    /\ WF_vars(ShutdownStep)

Spec == Init /\ [][Next]_vars
FairSpec == Spec /\ Fairness

-----------------------------------------------------------------------------
(* Properties.                                                             *)

Records(c, reasons) == \E r \in dead[c] : r[1] \in reasons

(* The wallet takes the money for a turn at most once, however often the   *)
(* delivery is retried, times out or is cancelled: the endpoint has no     *)
(* idempotency key, and only the code's choice of what to retry keeps this.*)
NoDoubleCharge == \A c \in Charge : applied[c] <= 1

(* A dead letter whose reason says that the wallet was never reached (no   *)
(* URL, unreachable) can be replayed by hand: the wallet has not applied   *)
(* the charge, and no request is under way that could make it. Nothing is  *)
(* said of "wallet refused: HTTP ...": a gateway's 502 or 504 has the same *)
(* reason, and the wallet may have applied the charge behind it.           *)
SafeReplay ==
    \A c \in Charge : Records(c, Definite) => applied[c] = 0 /\ wire[c] # "sent"

(* A delivery that ends, normally or by a cancellation, leaves a charge    *)
(* that the wallet has applied or that a dead letter records.              *)
NothingDropped ==
    \A c \in Charge : fire[c] \in Ended => applied[c] = 1 \/ dead[c] # {}

(* Every turn that ended is eventually dealt with: its billing task was    *)
(* cancelled or its delivery has ended.                                    *)
EveryTurnSettles ==
    \A c \in Charge :
        bill[c] = "pricing" ~> bill[c] = "lost" \/ fire[c] \in {"done", "crashed"}

(* A shutdown ends, even if the wallet never answers and tasks are spawned *)
(* while drain() waits.                                                    *)
ShutdownCompletes == phase = "draining" ~> phase = "closed"

(* Delivery implements the ledger's contract.                              *)
Replayable == {c \in Charge : Records(c, Definite)}
Doubtful   == {c \in Charge : Records(c, InDoubt)}
Settled    == {c \in Charge : fire[c] \in Ended}

Ledger == INSTANCE ChargeLedger
            WITH replayable <- Replayable, doubtful <- Doubtful, settled <- Settled

ImplementsLedger == Ledger!Spec

(* What the docstring of drain() and the comment in main.py's lifespan     *)
(* claim: once the process has shut down, every turn that ended has been   *)
(* charged or written to the dead letters. A billing task cancelled while  *)
(* it waits for the exchange rate breaks it.                               *)
ShutdownLosesNothing ==
    url = "set" /\ phase = "closed" =>
        \A c \in Charge : bill[c] # "none" => applied[c] = 1 \/ dead[c] # {}
=============================================================================
