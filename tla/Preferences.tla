----------------------------- MODULE Preferences -----------------------------
(***************************************************************************)
(* What a customer asks of MisterPilot Auto, and the daily budget:         *)
(* auto_preferences of services/model_access.py over record_spend and      *)
(* spent_today_usd of services/auto_session.py.  The spend is read when a  *)
(* request arrives and recorded when its turn has been billed.  A step of  *)
(* a tool loop is pinned to the model of its turn: its preferences are     *)
(* read as well, but neither their shift nor their cap is applied.         *)
(* Amounts are whole rupees: the exchange rate, which is cached, does not  *)
(* move.                                                                   *)
(***************************************************************************)
EXTENDS AutoRouter, FiniteSets

CONSTANTS
    Slots,          \* requests that are open or unbilled at one time
    Budgets,        \* what the client sends as the daily budget, 0 for none
    CapNames,       \* what it sends as max_model: models, or names of no model
    CapModels,      \* those of CapNames that are models
    Costs,          \* what a turn may cost
    WARN,           \* budget_warn_ratio, in percent
    BUDGET_SHIFT,   \* budget_shift, which is negative: its size
    BUDGET_CAP,     \* budget_cap_model
    MODE_SHIFT,     \* mode_shifts["economy"] is its negative, ["quality"] itself
    MaxSpend,       \* bound: what is spent in a day
    Days            \* bound: the last day

ASSUME PreferencesAssumption ==
    /\ Budgets \subseteq Nat /\ Costs \subseteq Nat /\ CapModels \subseteq CapNames
    /\ NoModel \notin CapNames
    /\ WARN \in 0..100 /\ BUDGET_SHIFT \in Nat /\ MODE_SHIFT \in Nat
    /\ MaxSpend \in Nat /\ Days \in Nat \ {0}
    /\ IsFiniteSet(Slots) /\ \E c \in Costs : \A d \in Costs : d <= c

VARIABLES
    day,            \* _today()
    spend,          \* _spend of the customer: the day it is for and the total
    asked,          \* the budget and the cap the customer sends with every request
    slot,           \* the requests
    begun,          \* whether the route of some chat of the customer is remembered
    billed          \* history: what was billed today, by kind of request

preferenceVars == <<day, spend, asked, slot, begun, billed>>

Mode == {"economy", "balanced", "quality"}
Shift(mode) == CASE mode = "economy" -> -MODE_SHIFT [] mode = "quality" -> MODE_SHIFT [] OTHER -> 0

Shifts == -(MODE_SHIFT + BUDGET_SHIFT)..MODE_SHIFT
Caps   == CapModels \cup {NoModel, BUDGET_CAP}
Prefs  == [shift : Shifts, cap : Caps, note : {"none", "warned", "reached"}]
Free   == [pc |-> "free", pinned |-> FALSE, prefs |-> [shift |-> 0, cap |-> NoModel, note |-> "none"]]

\* Requests that found the budget not reached; of those that found it reached, the
\* ones that get its cap, and the steps of tool loops, which do not.
NoBills == [before |-> 0, capped |-> 0, loops |-> 0]
Kind(request) == IF request.prefs.note # "reached" THEN "before"
                 ELSE IF request.pinned THEN "loops" ELSE "capped"

PreferencesInit ==
    /\ day = 1
    /\ spend = [day |-> 0, total |-> 0]
    /\ asked \in [budget : Budgets, cap : CapNames \cup {NoModel}]
    /\ slot = [s \in Slots |-> Free]
    /\ begun = FALSE
    /\ billed = NoBills

-----------------------------------------------------------------------------
\* Preferences.

\* The mode: body, header, model alias, in this order; "absent" or unknown names
\* are passed over.
ModeOf(body, header, alias) ==
    LET known == SelectSeq(<<body, header, alias>>, LAMBDA m : m \in Mode)
    IN IF known = <<>> THEN "balanced" ELSE known[1]

Modes == {ModeOf(body, header, alias) :
            body, header \in Mode \cup {"absent"}, alias \in {"absent", "economy", "quality"}}

\* _lower_cap
LowerCap(a, b) ==
    IF a = NoModel \/ b = NoModel THEN IF a # NoModel THEN a ELSE b
    ELSE IF TierIndex(a) = 0 \/ TierIndex(b) = 0 THEN IF TierIndex(a) # 0 THEN a ELSE b
    ELSE IF TierIndex(a) <= TierIndex(b) THEN a ELSE b

\* spent_today_usd
SpentToday == IF spend.day = day THEN spend.total ELSE 0

\* auto_preferences: with no more than the budget left, a stricter cap or a shift.
PrefsFor(mode) ==
    LET cap == IF asked.cap \in CapModels THEN asked.cap ELSE NoModel
        budget == asked.budget
        pressure == IF budget > 0 /\ SpentToday >= budget THEN "reached"
                    ELSE IF budget > 0 /\ 100 * SpentToday >= WARN * budget THEN "warned"
                    ELSE "none"
    IN [shift |-> Shift(mode) - (IF pressure = "warned" THEN BUDGET_SHIFT ELSE 0),
        cap   |-> IF pressure = "reached" THEN LowerCap(cap, BUDGET_CAP) ELSE cap,
        note  |-> pressure]

-----------------------------------------------------------------------------
\* The day of a customer.

\* A request arrives: the next turn of a chat, or a step of its tool loop if the chat
\* is remembered. It saves its route, unless it has no score or is a side job.
Opened(s) ==
    /\ slot[s].pc = "free" /\ SpentToday < MaxSpend
    /\ \E mode \in Modes, pinned \in {FALSE, begun} :
          slot' = [slot EXCEPT ![s] = [pc |-> "open", pinned |-> pinned, prefs |-> PrefsFor(mode)]]
    /\ begun' \in {begun, TRUE}
    /\ UNCHANGED <<day, spend, asked, billed>>

\* Mutation: the spend is overwritten, not added to.
OverwriteSpend(cost) == spend' = [day |-> day, total |-> cost]

\* record_spend
RecordSpend(cost) ==
    spend' = [day |-> day, total |-> (IF spend.day = day THEN spend.total ELSE 0) + cost]

\* The turn is billed, or the charge fails and nothing is recorded.
Billed(s) ==
    /\ slot[s].pc = "open"
    /\ slot' = [slot EXCEPT ![s] = Free]
    /\ \/ \E cost \in Costs :
            /\ RecordSpend(cost)
            /\ billed' = [billed EXCEPT ![Kind(slot[s])] = @ + cost]
       \/ UNCHANGED <<spend, billed>>
    /\ UNCHANGED <<day, asked, begun>>

Midnight ==
    /\ day < Days
    /\ day' = day + 1
    /\ billed' = NoBills
    /\ UNCHANGED <<spend, asked, slot, begun>>

PreferencesNext ==
    \/ \E s \in Slots : Opened(s) \/ Billed(s)
    \/ Midnight

PreferencesSpec == PreferencesInit /\ [][PreferencesNext]_preferenceVars

(***************************************************************************)
(* Properties.                                                             *)
(***************************************************************************)

MaxCost == CHOOSE c \in Costs : \A d \in Costs : d <= c

\* Types of the state.
PreferencesTypeOK ==
    /\ day \in 1..Days
    /\ spend \in [day : 0..Days, total : 0..(MaxSpend + Cardinality(Slots) * MaxCost)]
    /\ asked \in [budget : Budgets, cap : CapNames \cup {NoModel}]
    /\ slot \in [Slots -> [pc : {"free", "open"}, pinned : BOOLEAN, prefs : Prefs]]
    /\ begun \in BOOLEAN
    /\ billed \in [before : Nat, capped : Nat, loops : Nat]

\* Concurrent requests that read the same spend overrun a budget by no more than what
\* those cost that were under way when it was reached (auto_preferences, record_spend):
\* all other spending of the day is that of requests which got the budget's cap, and of
\* steps of tool loops. These are pinned to their model, whatever it costs, and may go
\* on spending: nothing bounds them.
OverrunBounded ==
    /\ SpentToday = billed.before + billed.capped + billed.loops
    /\ asked.budget > 0 => billed.before <= asked.budget - 1 + Cardinality(Slots) * MaxCost
    /\ asked.budget = 0 => billed.capped = 0 /\ billed.loops = 0

\* Every route that a request may be given.
RouteFor(score, shift, cap) ==
    LET decision == SelectModel(score, shift, cap)
    IN [chain |-> <<decision.model>> \o decision.candidates, effort |-> decision.effort]
Routes == [score \in Scores |-> [shift \in Shifts |-> [cap \in Caps |-> RouteFor(score, shift, cap)]]]

WithinCap(model, cap) == TierIndex(model) <= CapIndex(cap) \/ model = FallbackModel

\* Whatever the score and the mode, a request that is not pinned is routed within
\* the customer's cap, and within the budget's once it is reached, the fallback
\* model excepted; every model of a tier that the cap allows is among its
\* candidates, once; and a harder task never gets a weaker tier or, in its tier,
\* less effort (auto_preferences, select_model, candidates).
RoutedAsAsked ==
    \A s \in Slots, score \in Scores :
        LET prefs == slot[s].prefs
            routed(n) == Routes[n][prefs.shift][prefs.cap]
            chain == routed(score).chain
            top == CapIndex(prefs.cap)
        IN slot[s].pc = "open" /\ ~slot[s].pinned =>
            /\ \A m \in ToSet(chain) :
                  /\ asked.cap \in CapModels => WithinCap(m, asked.cap)
                  /\ prefs.note = "reached" => WithinCap(m, BUDGET_CAP)
            /\ Cardinality(ToSet(chain)) = Len(chain)
            /\ \A i \in 1..top : Tiers[i].model \in ToSet(chain)
            /\ score > MIN_SCORE =>
                LET easier == routed(score - 1) IN
                /\ TierIndex(easier.chain[1]) <= TierIndex(chain[1])
                /\ easier.chain[1] = chain[1] =>
                      EffortRank(easier.effort) <= EffortRank(routed(score).effort)
=============================================================================
