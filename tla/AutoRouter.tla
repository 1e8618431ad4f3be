----------------------------- MODULE AutoRouter -----------------------------
(***************************************************************************)
(* The routing table of services/auto_router.py: from a complexity score   *)
(* to a model, its reasoning effort and the candidates to fail over to.    *)
(* A score that could not be used is NoScore, an absent cap NoModel, an    *)
(* absent effort NoEffort.                                                 *)
(***************************************************************************)
EXTENDS Integers, Sequences, FiniteSets, SequencesExt

CONSTANTS
    Tiers,              \* AutoRouter.tiers
    FallbackModel       \* AutoRouter.fallback_model, auto.model in config.yaml

MIN_SCORE == 1
MAX_SCORE == 20
Scores    == MIN_SCORE..MAX_SCORE
NoScore   == 0
NoModel   == "none"
NoEffort  == "none"
EFFORT_ORDER == <<"low", "medium", "high", "xhigh", "max">>

Tier(low, high, model, alternates, efforts) ==
    [low |-> low, high |-> high, model |-> model, alternates |-> alternates, efforts |-> efforts]

DEFAULT_TIERS == <<
    Tier( 1,  3, "deepseek-flash",  <<"gpt-5.4-nano", "deepseek-v4-pro">>,    <<>>),
    Tier( 4,  6, "deepseek-v4-pro", <<"gpt-5.4-mini">>,                       <<>>),
    Tier( 7, 10, "gpt-5.4-mini",    <<"deepseek-v4-pro", "claude-haiku-4-5">>, <<"low", "medium">>),
    Tier(11, 14, "claude-sonnet-5", <<"gpt-5.4", "gpt-5.5">>,                 <<"medium", "high">>),
    Tier(15, 17, "gpt-5.5",         <<"claude-sonnet-5", "claude-opus-5-5">>, <<"medium", "high">>),
    Tier(18, 20, "claude-opus-5-5", <<"gpt-5.5", "claude-sonnet-5">>,         <<"high", "high", "xhigh">>) >>

\* _check_tiers: contiguous from MIN_SCORE to MAX_SCORE.
ASSUME CheckTiers ==
    /\ Tiers \in Seq([low : Int, high : Int, model : STRING, alternates : Seq(STRING), efforts : Seq(STRING)])
    /\ FallbackModel \in STRING \ {NoModel}
    /\ Tiers # <<>> /\ Tiers[1].low = MIN_SCORE /\ Tiers[Len(Tiers)].high = MAX_SCORE
    /\ \A i \in DOMAIN Tiers :
          /\ Tiers[i].low <= Tiers[i].high /\ Tiers[i].model # NoModel
          /\ i > 1 => Tiers[i].low = Tiers[i - 1].high + 1
          /\ ToSet(Tiers[i].efforts) \subseteq ToSet(EFFORT_ORDER)

Min2(a, b) == IF a <= b THEN a ELSE b
Max2(a, b) == IF a >= b THEN a ELSE b
Clamp(n, low, high) == Max2(low, Min2(high, n))

-----------------------------------------------------------------------------
\* Lookups.

TierForScore(score) == CHOOSE i \in DOMAIN Tiers : score \in Tiers[i].low..Tiers[i].high

\* The tier a model is the primary of, 0 if none.
TierIndex(model) == SelectInSeq(Tiers, LAMBDA tier : tier.model = model)

\* Mutation: the steps of effort are counted from the top of the tier.
EffortForFromTop(i, score) ==
    LET efforts == Tiers[i].efforts
        span == Tiers[i].high - Tiers[i].low + 1
    IN IF efforts = <<>> THEN NoEffort
       ELSE efforts[1 + Clamp(((Tiers[i].high - score) * Len(efforts)) \div span, 0, Len(efforts) - 1)]

\* effort_for: a tier's range is divided evenly among its levels.
EffortFor(i, score) ==
    LET efforts == Tiers[i].efforts
        span == Tiers[i].high - Tiers[i].low + 1
    IN IF efforts = <<>> THEN NoEffort
       ELSE efforts[1 + Clamp(((score - Tiers[i].low) * Len(efforts)) \div span, 0, Len(efforts) - 1)]

EffortRank(effort) == SelectInSeq(EFFORT_ORDER, LAMBDA e : e = effort)     \* 0: unset

MaxEffort(a, b) == IF EffortRank(a) >= EffortRank(b) THEN a ELSE b

\* boundary_distance: how far a score is from another tier.
BoundaryDistance(score) ==
    LET tier == Tiers[TierForScore(score)] IN
    Min2(IF tier.low > MIN_SCORE THEN score - tier.low + 1 ELSE MAX_SCORE,
         IF tier.high < MAX_SCORE THEN tier.high - score + 1 ELSE MAX_SCORE)

CapIndex(cap) == IF TierIndex(cap) = 0 THEN Len(Tiers) ELSE TierIndex(cap)

\* The elements of a sequence at some of its places, in their order.
At(s, places) ==
    [k \in 1..Cardinality(places) |->
        s[CHOOSE i \in places : Cardinality({j \in places : j <= i}) = k]]

\* Tier i, then its neighbours, nearest first and up before down.
Nearest(i, top) ==
    LET near == [k \in 1..2 * Len(Tiers) - 1 |-> IF k % 2 = 0 THEN i + k \div 2 ELSE i - k \div 2]
    IN At(near, {k \in DOMAIN near : near[k] \in 1..top})

\* A tier's models, the primary first.
Row(i) == <<Tiers[i].model>> \o Tiers[i].alternates

\* candidates, for a tier and the tier of the cap: the models whose tier is within
\* the cap and the fallback model, each at the first place it has.
Failover(index, top) ==
    LET order   == Nearest(Min2(index, top), top)
        names   == FlattenSeq([n \in DOMAIN order |-> Row(order[n])]) \o <<FallbackModel>>
        allowed == {k \in DOMAIN names : TierIndex(names[k]) <= top \/ k = Len(names)}
    IN At(names, {k \in allowed : \A j \in allowed : j < k => names[j] # names[k]})

FailoverTable == [index \in DOMAIN Tiers |-> [top \in DOMAIN Tiers |-> Failover(index, top)]]

\* candidates: the failover order for a tier under a cap.
Candidates(index, cap) == FailoverTable[index][CapIndex(cap)]

-----------------------------------------------------------------------------
\* select_model

Decision(model, score, effort, candidates, fallback) ==
    [model |-> model, score |-> score, effort |-> effort,
     candidates |-> At(candidates, {k \in DOMAIN candidates : candidates[k] # model}), fallback |-> fallback]

\* The score after the mode's shift and the cap.
Effective(score, shift, cap) ==
    Min2(Clamp(score + shift, MIN_SCORE, MAX_SCORE), Tiers[CapIndex(cap)].high)

SelectModel(score, shift, cap) ==
    IF score = NoScore
    THEN Decision(FallbackModel, NoScore, NoEffort,
                  IF TierIndex(FallbackModel) = 0 THEN <<>> ELSE Candidates(TierIndex(FallbackModel), cap),
                  TRUE)
    ELSE LET effective == Effective(score, shift, cap)
             i == TierForScore(effective)
         IN Decision(Tiers[i].model, score, EffortFor(i, effective), Candidates(i, cap), FALSE)
=============================================================================
