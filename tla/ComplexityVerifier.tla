------------------------- MODULE ComplexityVerifier -------------------------
(***************************************************************************)
(* Phase two of the complexity score: services/complexity_verifier.py and  *)
(* _auto_score of services/model_access.py.  A model is asked to check the *)
(* computed score; what it answers is bounded by a guard band, and kept    *)
(* for the next request with the same text and computed score.  A text is  *)
(* the first 4000 characters of a request; its computed score also depends *)
(* on the files that come with it, so it is chosen with each request.      *)
(***************************************************************************)
EXTENDS AutoRouter, TTLStore, FiniteSets

CONSTANTS
    Askers,         \* concurrent requests for a score
    Texts,          \* their texts
    Rigged,         \* those that detect_injection trips over
    Computed,       \* the computed scores that are tried
    Opinions,       \* the scores that the model may answer with, valid or not
    BAND,           \* max_deviation(), ROUTER_VERIFY_MAX_DEVIATION
    MARGIN,         \* verify_boundary_margin
    VERDICT_ITEMS,  \* _verdicts: max_items
    VERDICT_TTL,    \* _verdicts: ttl_seconds
    MaxAsks,        \* bound: requests
    VerifierHorizon \* bound: the last instant of the model

ASSUME VerifierAssumption ==
    /\ Rigged \subseteq Texts /\ Computed \subseteq Scores /\ Opinions \subseteq Nat
    /\ BAND \in 0..19 /\ MARGIN \in Nat /\ VERDICT_ITEMS \in Nat \ {0} /\ VERDICT_TTL \in Nat
    /\ MaxAsks \in Nat /\ VerifierHorizon \in Nat

VARIABLES
    instant,    \* time.monotonic()
    verdicts,   \* _verdicts
    asker,      \* what each request is doing and has got
    answered,   \* history: what the model answered, and for what
    asks        \* how many requests there have been

verifierVars == <<instant, verdicts, asker, answered, asks>>

AGREE_TOLERANCE == 2
CacheableStatuses == {"verified", "corrected", "clamped", "blocked"}
Statuses == CacheableStatuses \cup {"unverified", "skipped"}

NoAnswer == [status |-> "none", score |-> NoScore]
Resting  == [pc |-> "idle", text |-> "none", computed |-> NoScore, cached |-> FALSE, answer |-> NoAnswer]

VerifierInit ==
    /\ instant = 0
    /\ verdicts = <<>>
    /\ asker = [a \in Askers |-> Resting]
    /\ answered = {}
    /\ asks = 0

-----------------------------------------------------------------------------
\* Reconciliation.

\* _computed_final, skip_verification: the computed phase decides.
ComputedFinal(computed, status) == [status |-> status, score |-> computed]

\* parse_ai_verdict: what is not a score from 1 to 20 is no verdict.
Valid(opinion) == opinion \in Scores

Apart(m, n) == Max2(m - n, n - m)

\* reconcile, with a verdict of the model.
Reconcile(computed, opinion, reported) ==
    IF reported THEN ComputedFinal(computed, "blocked")
    ELSE IF Apart(opinion, computed) > BAND
    THEN [status |-> "clamped",
          score |-> Clamp(IF opinion > computed THEN computed + BAND ELSE computed - BAND, MIN_SCORE, MAX_SCORE)]
    ELSE [status |-> IF Apart(opinion, computed) <= AGREE_TOLERANCE THEN "verified" ELSE "corrected", score |-> opinion]

-----------------------------------------------------------------------------
\* Scoring.

\* Mutation: verdicts are found by the text alone.
VerdictKeyTextOnly(text, computed) == text

\* _verdict_key
VerdictKey(text, computed) == <<text, computed>>

Got(a, request, answer) == asker' = [asker EXCEPT ![a] = [request EXCEPT !.pc = "idle", !.answer = answer]]

\* What the check came to is kept, unless it came to nothing.
Keep(request, answer) ==
    IF answer.status \in CacheableStatuses
    THEN verdicts' = AfterPut(verdicts, VerdictKey(request.text, request.computed), answer, instant, VERDICT_ITEMS)
    ELSE UNCHANGED verdicts

\* A confident score that is away from every tier edge is not checked.
Clear(computed) == BoundaryDistance(computed) > MARGIN

\* _auto_score up to the model call: a tool step or a side job is not checked,
\* nor is a clear score; a kept verdict is used again; a rigged text is blocked
\* without asking; a request without text, or with checking switched off, is
\* left unverified.
AskScore(a) ==
    /\ asker[a].pc = "idle" /\ asks < MaxAsks
    /\ asks' = asks + 1
    /\ \E text \in Texts, computed \in Computed, check \in BOOLEAN, confident \in BOOLEAN, able \in BOOLEAN :
         LET request == [Resting EXCEPT !.text = text, !.computed = computed]
             key == VerdictKey(text, computed)
             kept == Lookup(verdicts, key, instant, VERDICT_TTL)
         IN IF ~check \/ (confident /\ Clear(computed))
            THEN /\ Got(a, request, ComputedFinal(computed, "skipped"))
                 /\ UNCHANGED verdicts
            ELSE IF kept # {}
            THEN /\ Got(a, [request EXCEPT !.cached = TRUE], CHOOSE answer \in kept : TRUE)
                 /\ verdicts' = AfterGet(verdicts, key, instant, VERDICT_TTL)
            ELSE IF ~able
            THEN /\ Got(a, request, ComputedFinal(computed, "unverified"))
                 /\ verdicts' = AfterGet(verdicts, key, instant, VERDICT_TTL)
            ELSE IF text \in Rigged
            THEN /\ Got(a, request, ComputedFinal(computed, "blocked"))
                 /\ Keep(request, ComputedFinal(computed, "blocked"))
            ELSE /\ asker' = [asker EXCEPT ![a] = [request EXCEPT !.pc = "checking"]]
                 /\ verdicts' = AfterGet(verdicts, key, instant, VERDICT_TTL)
    /\ UNCHANGED <<instant, answered>>

\* verify_score: the model answers within its time.
Opine(a, opinion, reported) ==
    LET answer == Reconcile(asker[a].computed, opinion, reported) IN
    /\ asker[a].pc = "checking"
    /\ Valid(opinion)
    /\ Got(a, asker[a], answer)
    /\ Keep(asker[a], answer)
    /\ answered' = answered \cup {[text |-> asker[a].text, computed |-> asker[a].computed,
                                   reported |-> reported, score |-> answer.score]}
    /\ UNCHANGED <<instant, asks>>

\* The model does not answer in time, the call fails, or the reply is no verdict.
NoOpinion(a) ==
    LET answer == ComputedFinal(asker[a].computed, "unverified") IN
    /\ asker[a].pc = "checking"
    /\ Got(a, asker[a], answer)
    /\ Keep(asker[a], answer)
    /\ UNCHANGED <<instant, answered, asks>>

VerifierTick ==
    /\ instant < VerifierHorizon
    /\ instant' = instant + 1
    /\ UNCHANGED <<verdicts, asker, answered, asks>>

VerifierNext ==
    \/ \E a \in Askers : \/ AskScore(a) \/ NoOpinion(a)
                         \/ \E opinion \in Opinions, reported \in BOOLEAN : Opine(a, opinion, reported)
    \/ VerifierTick

VerifierSpec == VerifierInit /\ [][VerifierNext]_verifierVars

(***************************************************************************)
(* Properties.                                                             *)
(***************************************************************************)

\* Types of the state: every score that is given out is one of the router's.
VerifierTypeOK ==
    /\ instant \in 0..VerifierHorizon
    /\ StoreOK(verdicts, VERDICT_ITEMS)
    /\ \A a \in Askers :
          /\ asker[a].pc \in {"idle", "checking"}
          /\ asker[a].answer # NoAnswer =>
                asker[a].answer.status \in Statuses /\ asker[a].answer.score \in Scores

\* "However the model was persuaded, the final score moves by at most this much":
\* from the score computed for this very request, also when the verdict was kept
\* from an earlier one with the same text but other files. Manipulation moves
\* nothing: the score of a rigged text, and one that the model gave while
\* reporting manipulation, is the computed one, then and later. An outage of the
\* model is not kept (_auto_score, reconcile).
OpinionIsBounded ==
    \A a \in Askers :
        LET score == asker[a].answer.score IN
        asker[a].answer # NoAnswer =>
            /\ Apart(score, asker[a].computed) <= BAND
            /\ score # asker[a].computed =>
                  /\ asker[a].text \notin Rigged
                  /\ \E g \in answered : /\ g.text = asker[a].text /\ g.computed = asker[a].computed
                                         /\ g.score = score /\ ~g.reported
            /\ asker[a].cached => asker[a].answer.status # "unverified"
=============================================================================
