------------------------------- MODULE Breaker -------------------------------
(***************************************************************************)
(* The per-model circuit breaker of Auto failover                          *)
(* (backend/services/provider_health.py). Its entries live in one process; *)
(* every operation is synchronous, so it is one step.                      *)
(*                                                                         *)
(* A model without an entry in _states has failures = 0 and opened =       *)
(* FALSE. The code compares open_until with the monotonic clock: here      *)
(* cooling is what is left until open_until, and Tick is the clock.        *)
(***************************************************************************)
EXTENDS Integers

CONSTANTS
    Model,        \* the models of the router's tiers
    Threshold,    \* auto.breaker_failures: any integer the configuration holds
    Cooldown      \* auto.breaker_cooldown_seconds, in ticks

ASSUME BreakerAssumption == Threshold \in Int /\ Cooldown \in Nat

VARIABLES
    failures,     \* _State.failures
    opened,       \* _State.open_until is not 0.0: the breaker has tripped
    cooling       \* the ticks left until open_until

breakerVars == <<failures, opened, cooling>>

(* max(1, cfg.breaker_failures)                                            *)
Limit == IF Threshold < 1 THEN 1 ELSE Threshold

BreakerTypeOK ==
    /\ failures \in [Model -> 0..(Limit - 1)]
    /\ opened \in [Model -> BOOLEAN]
    /\ cooling \in [Model -> 0..Cooldown]

BreakerInit ==
    /\ failures = [m \in Model |-> 0]
    /\ opened = [m \in Model |-> FALSE]
    /\ cooling = [m \in Model |-> 0]

(* is_available                                                            *)
Available(m) == cooling[m] = 0

(* Mutation: a success stops the cooldown but keeps the failures.          *)
RecordSuccessKeepsCount(m) ==
    /\ opened' = [opened EXCEPT ![m] = FALSE]
    /\ cooling' = [cooling EXCEPT ![m] = 0]
    /\ UNCHANGED failures

(* Any success closes the breaker: the entry is removed.                   *)
RecordSuccess(m) ==
    /\ failures' = [failures EXCEPT ![m] = 0]
    /\ opened' = [opened EXCEPT ![m] = FALSE]
    /\ cooling' = [cooling EXCEPT ![m] = 0]

(* Mutation: the count starts one too high after the breaker has tripped.  *)
RecordFailureOffByOne(m) ==
    IF failures[m] + 1 >= Limit
      THEN /\ failures' = [failures EXCEPT ![m] = Limit]
           /\ opened' = [opened EXCEPT ![m] = TRUE]
           /\ cooling' = [cooling EXCEPT ![m] = Cooldown]
      ELSE /\ failures' = [failures EXCEPT ![m] = @ + 1]
           /\ UNCHANGED <<opened, cooling>>

(* The failure that reaches the limit opens the breaker, and leaves it one *)
(* failure short of opening again.                                         *)
RecordFailure(m) ==
    IF failures[m] + 1 >= Limit
      THEN /\ failures' = [failures EXCEPT ![m] = Limit - 1]
           /\ opened' = [opened EXCEPT ![m] = TRUE]
           /\ cooling' = [cooling EXCEPT ![m] = Cooldown]
      ELSE /\ failures' = [failures EXCEPT ![m] = @ + 1]
           /\ UNCHANGED <<opened, cooling>>

Tick ==
    /\ \E m \in Model : cooling[m] > 0
    /\ cooling' = [m \in Model |-> IF cooling[m] = 0 THEN 0 ELSE cooling[m] - 1]
    /\ UNCHANGED <<failures, opened>>
=============================================================================
