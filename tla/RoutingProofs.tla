---------------------------- MODULE RoutingProofs ----------------------------
(***************************************************************************)
(* What a conversation keeps, and the check of a score, for any tiers,     *)
(* caps, lifetimes and bounds of the stores.                               *)
(*                                                                         *)
(* The check: whatever is cached or given out is within the guard band, or *)
(* is backed by an answer of the model for that text (VerdictsBacked,      *)
(* RequestBacked).                                                         *)
(*                                                                         *)
(* The conversation: what the store remembers of it is its last route      *)
(* (Remembers), which is not far below the last route line (History), and  *)
(* a request in service is that route (Serviced).  So the floor that the   *)
(* session or the line gives holds for both, and a put by another chat, an *)
(* expiry or a failover cannot come between.                               *)
(*                                                                         *)
(* The types of all that MCRouting puts together follow from the           *)
(* invariants of its parts (AutoTypesKept).                                *)
(***************************************************************************)
EXTENDS MCRouting, RouterProofs

-----------------------------------------------------------------------------
(* The check of a score. *)

Answer      == [status : Statuses, score : Scores]
KeptVerdict == [key : Texts \X Computed, value : [status : CacheableStatuses, score : Scores], at : Nat]
ScoreCheck  == [pc : {"idle", "checking"}, text : Texts \cup {"none"}, computed : Scores \cup {NoScore},
                cached : BOOLEAN, answer : Answer \cup {NoAnswer}]

\* A score that may be given out for a text and its computed score.
Backed(words, computed, score, given) ==
    /\ Apart(score, computed) <= BAND
    /\ score # computed =>
          /\ words \notin Rigged
          /\ \E g \in given : /\ g.text = words /\ g.computed = computed
                              /\ g.score = score /\ ~g.reported

VerdictsBacked ==
    /\ verdicts \in Seq(KeptVerdict) /\ OnePerKey(verdicts) /\ Len(verdicts) <= VERDICT_ITEMS
    /\ \A e \in Entries(verdicts) : Backed(e.key[1], e.key[2], e.value.score, answered)

\* What may be known of one request.
RequestBacked(r, given) ==
    /\ r.pc = "checking" => r.text \in Texts \ Rigged /\ r.computed \in Computed /\ ~r.cached
    /\ r.answer # NoAnswer =>
          /\ Backed(r.text, r.computed, r.answer.score, given)
          /\ r.cached => r.answer.status # "unverified"

VerifierInv ==
    /\ instant \in 0..VerifierHorizon
    /\ asker \in [Askers -> ScoreCheck]
    /\ VerdictsBacked
    /\ \A a \in Askers : RequestBacked(asker[a], answered)

-----------------------------------------------------------------------------
\* What the model has answered is never taken back.
LEMMA BackedLater ==
    ASSUME NEW words, NEW computed, NEW score, NEW given, NEW later, given \subseteq later,
           Backed(words, computed, score, given)
    PROVE  Backed(words, computed, score, later)
BY DEF Backed

\* The computed score itself needs no backing.
LEMMA ComputedIsBacked ==
    ASSUME NEW words, NEW computed \in Scores, NEW given
    PROVE  Backed(words, computed, computed, given)
BY VerifierAssumption DEF Backed, Apart, Max2, Scores, MIN_SCORE, MAX_SCORE

\* The guard band holds whatever the model answers.
LEMMA ReconcileInBand ==
    ASSUME NEW computed \in Scores, NEW opinion \in Scores, NEW reported \in BOOLEAN
    PROVE  LET answer == Reconcile(computed, opinion, reported) IN
           /\ answer \in [status : CacheableStatuses, score : Scores]
           /\ Apart(answer.score, computed) <= BAND
           /\ reported => answer.score = computed
<1> DEFINE answer == Reconcile(computed, opinion, reported)
<1>1. computed \in 1..20 /\ opinion \in 1..20 /\ BAND \in 0..19
  BY VerifierAssumption DEF Scores, MIN_SCORE, MAX_SCORE
<1>2. CASE reported
  BY <1>1, <1>2 DEF Reconcile, ComputedFinal, CacheableStatuses, Scores, Apart, Max2
<1>3. CASE ~reported /\ Apart(opinion, computed) > BAND
  <2> DEFINE score == Clamp(IF opinion > computed THEN computed + BAND ELSE computed - BAND, MIN_SCORE, MAX_SCORE)
  <2>1. score \in 1..20 /\ Apart(score, computed) <= BAND
    BY <1>1 DEF Clamp, Max2, Min2, MIN_SCORE, MAX_SCORE, Apart
  <2>2. answer = [status |-> "clamped", score |-> score]
    BY <1>3 DEF Reconcile
  <2> QED BY <1>3, <2>1, <2>2 DEF CacheableStatuses, Scores, MIN_SCORE, MAX_SCORE
<1>4. CASE ~reported /\ ~(Apart(opinion, computed) > BAND)
  <2>1. Apart(opinion, computed) <= BAND
    BY <1>1, <1>4 DEF Apart, Max2
  <2> QED BY <1>4, <2>1 DEF Reconcile, CacheableStatuses
<1> QED BY <1>2, <1>3, <1>4

LEMMA VerifierStarts == VerifierInit => VerifierInv
<1> SUFFICES ASSUME VerifierInit PROVE VerifierInv
  OBVIOUS
<1>1. verdicts = <<>> /\ VerdictsBacked
  BY VerifierAssumption DEF VerifierInit, VerdictsBacked, OnePerKey, Entries
<1>2. Resting \in ScoreCheck
  BY DEF Resting, ScoreCheck
<1>3. RequestBacked(Resting, {})
  BY DEF RequestBacked, Resting
<1> QED BY <1>1, <1>2, <1>3, VerifierAssumption DEF VerifierInit, VerifierInv

\* One request changes, and what the model answered only grows.
LEMMA OneRequestChanges ==
    ASSUME VerifierInv, NEW a \in Askers, NEW r \in ScoreCheck, asker' = [asker EXCEPT ![a] = r],
           RequestBacked(r, answered'), answered \subseteq answered', VerdictsBacked', instant' = instant
    PROVE  VerifierInv'
<1>1. \A b \in Askers : RequestBacked(asker[b], answered')
  BY BackedLater DEF VerifierInv, RequestBacked
<1>2. \A b \in Askers : asker'[b] = IF b = a THEN r ELSE asker[b]
  BY DEF VerifierInv
<1>3. asker' \in [Askers -> ScoreCheck]
  BY DEF VerifierInv
<1>4. \A b \in Askers : RequestBacked(asker'[b], answered')
  BY <1>1, <1>2
<1> QED BY <1>3, <1>4 DEF VerifierInv

LEMMA LookingKeeps ==
    ASSUME VerifierInv, NEW key, verdicts' = AfterGet(verdicts, key, instant, VERDICT_TTL),
           answered' = answered
    PROVE  VerdictsBacked'
<1>1. verdicts \in Seq(KeptVerdict) /\ OnePerKey(verdicts) /\ Len(verdicts) <= VERDICT_ITEMS
  BY DEF VerifierInv, VerdictsBacked
<1>2. /\ verdicts' \in Seq(KeptVerdict) /\ OnePerKey(verdicts') /\ Len(verdicts') <= Len(verdicts)
      /\ Entries(verdicts') \subseteq Entries(verdicts)
  BY <1>1, GetEntries
<1>3. Len(verdicts') <= VERDICT_ITEMS
  BY <1>1, <1>2, VerifierAssumption
<1>4. \A e \in Entries(verdicts') : Backed(e.key[1], e.key[2], e.value.score, answered)
  BY <1>2 DEF VerifierInv, VerdictsBacked
<1> QED BY <1>2, <1>3, <1>4 DEF VerdictsBacked

\* Keep
LEMMA KeepingKeeps ==
    ASSUME VerifierInv, NEW request, NEW answer \in Answer, Keep(request, answer),
           request.text \in Texts, request.computed \in Computed, answered \subseteq answered',
           Backed(request.text, request.computed, answer.score, answered')
    PROVE  VerdictsBacked'
<1> DEFINE key == VerdictKey(request.text, request.computed)
           new == Entry(key, answer, instant)
<1>1. /\ verdicts \in Seq(KeptVerdict) /\ OnePerKey(verdicts) /\ Len(verdicts) <= VERDICT_ITEMS
      /\ \A e \in Entries(verdicts) : Backed(e.key[1], e.key[2], e.value.score, answered')
  BY BackedLater DEF VerifierInv, VerdictsBacked
<1>2. CASE answer.status \in CacheableStatuses
  <2>1. new \in KeptVerdict /\ new.key[1] = request.text /\ new.key[2] = request.computed /\ new.value = answer
    BY <1>2 DEF Entry, VerdictKey, KeptVerdict, Answer, VerifierInv
  <2>2. verdicts' = AfterPut(verdicts, key, answer, instant, VERDICT_ITEMS)
    BY <1>2 DEF Keep
  <2> HIDE DEF key, new
  <2>3. Entry(key, answer, instant) = new
    BY DEF new
  <2>4. /\ verdicts' \in Seq(KeptVerdict) /\ OnePerKey(verdicts') /\ Len(verdicts') <= VERDICT_ITEMS
        /\ \A e \in Entries(verdicts') : e = new \/ e \in Entries(verdicts)
    BY <1>1, <2>1, <2>2, <2>3, PutEntries, VerifierAssumption
  <2>5. \A e \in Entries(verdicts') : Backed(e.key[1], e.key[2], e.value.score, answered')
    BY <1>1, <2>1, <2>4
  <2> QED BY <2>4, <2>5 DEF VerdictsBacked
<1>3. CASE answer.status \notin CacheableStatuses
  <2>1. verdicts' = verdicts
    BY <1>3 DEF Keep
  <2> QED BY <1>1, <2>1 DEF VerdictsBacked
<1> QED BY <1>2, <1>3

\* What Got makes of a request.
LEMMA GotFields ==
    ASSUME NEW q \in ScoreCheck, NEW answer \in Answer
    PROVE  LET r == [q EXCEPT !.pc = "idle", !.answer = answer] IN
           /\ r \in ScoreCheck /\ r.pc = "idle" /\ r.text = q.text /\ r.computed = q.computed
           /\ r.cached = q.cached /\ r.answer = answer
BY DEF ScoreCheck

LEMMA AskingKeeps ==
    ASSUME VerifierInv, NEW a \in Askers, AskScore(a)
    PROVE  VerifierInv'
<1>1. PICK words \in Texts, computed \in Computed, check \in BOOLEAN, confident \in BOOLEAN, able \in BOOLEAN :
         LET request == [Resting EXCEPT !.text = words, !.computed = computed]
             key == VerdictKey(words, computed)
             kept == Lookup(verdicts, key, instant, VERDICT_TTL)
         IN IF ~check \/ (confident /\ Clear(computed))
            THEN /\ Got(a, request, ComputedFinal(computed, "skipped"))
                 /\ UNCHANGED verdicts
            ELSE IF kept # {}
            THEN /\ Got(a, [request EXCEPT !.cached = TRUE], CHOOSE answer \in kept : TRUE)
                 /\ verdicts' = AfterGet(verdicts, key, instant, VERDICT_TTL)
            ELSE IF ~able
            THEN /\ Got(a, request, ComputedFinal(computed, "unverified"))
                 /\ verdicts' = AfterGet(verdicts, key, instant, VERDICT_TTL)
            ELSE IF words \in Rigged
            THEN /\ Got(a, request, ComputedFinal(computed, "blocked"))
                 /\ Keep(request, ComputedFinal(computed, "blocked"))
            ELSE /\ asker' = [asker EXCEPT ![a] = [request EXCEPT !.pc = "checking"]]
                 /\ verdicts' = AfterGet(verdicts, key, instant, VERDICT_TTL)
  BY Zenon DEF AskScore
<1>2. instant' = instant /\ answered' = answered
  BY DEF AskScore
<1> DEFINE request == [Resting EXCEPT !.text = words, !.computed = computed]
           key == VerdictKey(words, computed)
           kept == Lookup(verdicts, key, instant, VERDICT_TTL)
<1>3. computed \in Scores /\ computed # NoScore
  BY VerifierAssumption DEF Scores, MIN_SCORE, NoScore
<1>4. /\ request \in ScoreCheck /\ request.pc = "idle" /\ request.text = words /\ request.computed = computed
      /\ request.cached = FALSE /\ request.answer = NoAnswer
  <2>1. Resting \in ScoreCheck
    BY DEF Resting, ScoreCheck
  <2>2. request \in ScoreCheck
    BY <1>3, <2>1 DEF ScoreCheck
  <2>3. request.text = words /\ request.computed = computed
    BY <2>1 DEF ScoreCheck
  <2>4. request.pc = "idle" /\ request.cached = FALSE /\ request.answer = NoAnswer
    BY DEF Resting
  <2> QED BY <2>2, <2>3, <2>4
<1>5. ASSUME NEW status \in {"skipped", "unverified", "blocked"}, Got(a, request, ComputedFinal(computed, status)),
             VerdictsBacked'
      PROVE  VerifierInv'
  <2> DEFINE answer == ComputedFinal(computed, status)
             r == [request EXCEPT !.pc = "idle", !.answer = answer]
  <2>1. asker' = [asker EXCEPT ![a] = r]
    BY <1>5 DEF Got
  <2>2. answer \in Answer /\ answer.score = computed
    BY <1>3, <1>5 DEF ComputedFinal, Answer, Statuses, CacheableStatuses
  <2> HIDE DEF request, answer
  <2>3. /\ r \in ScoreCheck /\ r.pc = "idle" /\ r.text = words /\ r.computed = computed
        /\ r.cached = FALSE /\ r.answer = answer
    BY <1>4, <2>2, GotFields
  <2> HIDE DEF r
  <2>4. RequestBacked(r, answered')
    BY <1>3, <2>2, <2>3, ComputedIsBacked DEF RequestBacked
  <2> QED BY <1>2, <1>5, <2>1, <2>3, <2>4, OneRequestChanges
<1>6. CASE ~check \/ (confident /\ Clear(computed))
  <2>1. Got(a, request, ComputedFinal(computed, "skipped")) /\ verdicts' = verdicts
    BY <1>1, <1>6
  <2>2. VerdictsBacked'
    BY <1>2, <2>1 DEF VerifierInv, VerdictsBacked
  <2> QED BY <1>5, <2>1, <2>2
<1>7. CASE ~(~check \/ (confident /\ Clear(computed))) /\ kept # {}
  <2> DEFINE answer == CHOOSE x \in kept : TRUE
             again == [request EXCEPT !.cached = TRUE]
             r == [again EXCEPT !.pc = "idle", !.answer = answer]
  <2>1. Got(a, [request EXCEPT !.cached = TRUE], answer) /\ verdicts' = AfterGet(verdicts, key, instant, VERDICT_TTL)
    BY <1>1, <1>7
  <2>2. asker' = [asker EXCEPT ![a] = r]
    BY <2>1 DEF Got
  <2>3. answer \in kept
    BY <1>7
  <2> HIDE DEF answer
  <2>4. PICK e \in Entries(verdicts) : e.key = key /\ e.value = answer
    BY <2>3, LookupEntries
  <2>5. verdicts \in Seq(KeptVerdict) /\ e \in KeptVerdict
    BY DEF VerifierInv, VerdictsBacked, Entries
  <2>6. answer \in [status : CacheableStatuses, score : Scores] /\ Backed(words, computed, answer.score, answered)
    <3>1. Backed(e.key[1], e.key[2], e.value.score, answered)
      BY DEF VerifierInv, VerdictsBacked
    <3>2. e.key[1] = words /\ e.key[2] = computed
      BY <2>4 DEF VerdictKey
    <3>3. e.value \in [status : CacheableStatuses, score : Scores]
      BY <2>5 DEF KeptVerdict
    <3> QED BY <2>4, <3>1, <3>2, <3>3
  <2> HIDE DEF request
  <2>7. /\ r \in ScoreCheck /\ r.pc = "idle" /\ r.text = words /\ r.computed = computed /\ r.answer = answer
    <3>1. again \in ScoreCheck /\ again.text = words /\ again.computed = computed
      BY <1>4 DEF ScoreCheck
    <3>2. answer \in Answer
      BY <2>6 DEF Answer, Statuses
    <3> HIDE DEF again
    <3> QED BY <3>1, <3>2, GotFields
  <2> HIDE DEF r, again
  <2>8. RequestBacked(r, answered')
    <3>1. answer.status # "unverified"
      BY <2>6 DEF CacheableStatuses
    <3> QED BY <1>2, <2>6, <2>7, <3>1 DEF RequestBacked
  <2>9. VerdictsBacked'
    BY <1>2, <2>1, LookingKeeps
  <2> QED BY <1>2, <2>2, <2>7, <2>8, <2>9, OneRequestChanges
<1>8. CASE ~(~check \/ (confident /\ Clear(computed))) /\ kept = {} /\ ~able
  <2>1. Got(a, request, ComputedFinal(computed, "unverified")) /\ verdicts' = AfterGet(verdicts, key, instant, VERDICT_TTL)
    BY <1>1, <1>8
  <2>2. VerdictsBacked'
    BY <1>2, <2>1, LookingKeeps
  <2> QED BY <1>5, <2>1, <2>2
<1>9. CASE ~(~check \/ (confident /\ Clear(computed))) /\ kept = {} /\ able /\ words \in Rigged
  <2>1. Got(a, request, ComputedFinal(computed, "blocked")) /\ Keep(request, ComputedFinal(computed, "blocked"))
    BY <1>1, <1>9
  <2>2. ComputedFinal(computed, "blocked") \in Answer /\ ComputedFinal(computed, "blocked").score = computed
    BY <1>3 DEF ComputedFinal, Answer, Statuses, CacheableStatuses
  <2>3. Backed(words, computed, computed, answered)
    BY <1>3, ComputedIsBacked
  <2>4. request.text = words /\ request.computed = computed
    BY <1>4
  <2> HIDE DEF request
  <2>5. VerdictsBacked'
    BY <1>2, <2>1, <2>2, <2>3, <2>4, KeepingKeeps
  <2> QED BY <1>5, <2>1, <2>5
<1>10. CASE ~(~check \/ (confident /\ Clear(computed))) /\ kept = {} /\ able /\ words \notin Rigged
  <2> DEFINE r == [request EXCEPT !.pc = "checking"]
  <2>1. asker' = [asker EXCEPT ![a] = r] /\ verdicts' = AfterGet(verdicts, key, instant, VERDICT_TTL)
    BY <1>1, <1>10
  <2> HIDE DEF request
  <2>2. /\ r \in ScoreCheck /\ r.pc = "checking" /\ r.text = words /\ r.computed = computed
        /\ r.cached = FALSE /\ r.answer = NoAnswer
    BY <1>4 DEF ScoreCheck
  <2> HIDE DEF r
  <2>3. RequestBacked(r, answered')
    BY <1>10, <2>2 DEF RequestBacked
  <2>4. VerdictsBacked'
    BY <1>2, <2>1, LookingKeeps
  <2> QED BY <1>2, <2>1, <2>2, <2>3, <2>4, OneRequestChanges
<1> QED BY <1>6, <1>7, <1>8, <1>9, <1>10

LEMMA OpiningKeeps ==
    ASSUME VerifierInv, NEW a \in Askers, NEW opinion \in Opinions, NEW reported \in BOOLEAN,
           Opine(a, opinion, reported)
    PROVE  VerifierInv'
<1> DEFINE old == asker[a]
           answer == Reconcile(old.computed, opinion, reported)
           g == [text |-> old.text, computed |-> old.computed, reported |-> reported, score |-> answer.score]
           r == [old EXCEPT !.pc = "idle", !.answer = answer]
<1>1. /\ old \in ScoreCheck /\ old.pc = "checking" /\ old.text \in Texts \ Rigged
      /\ old.computed \in Computed /\ old.computed \in Scores /\ ~old.cached /\ opinion \in Scores
  BY VerifierAssumption DEF Opine, Valid, VerifierInv, RequestBacked
<1>2. asker' = [asker EXCEPT ![a] = r] /\ Keep(old, answer) /\ answered' = answered \cup {g} /\ instant' = instant
  BY DEF Opine, Got
<1>3. /\ answer \in [status : CacheableStatuses, score : Scores]
      /\ Apart(answer.score, old.computed) <= BAND
      /\ reported => answer.score = old.computed
  BY <1>1, ReconcileInBand
<1> HIDE DEF answer
<1>4. Backed(old.text, old.computed, answer.score, answered')
  <2>1. g \in answered' /\ g.text = old.text /\ g.computed = old.computed /\ g.score = answer.score /\ g.reported = reported
    BY <1>2
  <2> HIDE DEF g
  <2> QED BY <1>1, <1>3, <2>1 DEF Backed
<1>5. answer \in Answer
  BY <1>3 DEF Answer, Statuses
<1>6. VerdictsBacked'
  BY <1>1, <1>2, <1>4, <1>5, KeepingKeeps
<1>7. /\ r \in ScoreCheck /\ r.pc = "idle" /\ r.text = old.text /\ r.computed = old.computed
      /\ r.cached = old.cached /\ r.answer = answer
  BY <1>1, <1>5, GotFields
<1> HIDE DEF r
<1>8. RequestBacked(r, answered')
  BY <1>1, <1>4, <1>7 DEF RequestBacked
<1> QED BY <1>2, <1>6, <1>7, <1>8, OneRequestChanges

LEMMA SilenceKeeps ==
    ASSUME VerifierInv, NEW a \in Askers, NoOpinion(a)
    PROVE  VerifierInv'
<1> DEFINE old == asker[a]
           answer == ComputedFinal(old.computed, "unverified")
           r == [old EXCEPT !.pc = "idle", !.answer = answer]
<1>1. /\ old \in ScoreCheck /\ old.pc = "checking" /\ old.text \in Texts \ Rigged
      /\ old.computed \in Computed /\ old.computed \in Scores /\ ~old.cached
  BY VerifierAssumption DEF NoOpinion, VerifierInv, RequestBacked
<1>2. asker' = [asker EXCEPT ![a] = r] /\ Keep(old, answer) /\ answered' = answered /\ instant' = instant
  BY DEF NoOpinion, Got
<1>3. answer \in Answer /\ answer.score = old.computed
  BY <1>1 DEF Answer, ComputedFinal, Statuses
<1>4. Backed(old.text, old.computed, answer.score, answered')
  BY <1>1, <1>3, ComputedIsBacked
<1> HIDE DEF answer
<1>5. VerdictsBacked'
  BY <1>1, <1>2, <1>3, <1>4, KeepingKeeps
<1>6. /\ r \in ScoreCheck /\ r.pc = "idle" /\ r.text = old.text /\ r.computed = old.computed
      /\ r.cached = old.cached /\ r.answer = answer
  BY <1>1, <1>3, GotFields
<1> HIDE DEF r
<1>7. RequestBacked(r, answered')
  BY <1>1, <1>4, <1>6 DEF RequestBacked
<1> QED BY <1>2, <1>5, <1>6, <1>7, OneRequestChanges

LEMMA VerifierStepKeeps == VerifierInv /\ [VerifierNext]_verifierVars => VerifierInv'
<1> SUFFICES ASSUME VerifierInv, [VerifierNext]_verifierVars PROVE VerifierInv'
  OBVIOUS
<1>1. ASSUME NEW a \in Askers, AskScore(a) PROVE VerifierInv'
  BY <1>1, AskingKeeps
<1>2. ASSUME NEW a \in Askers, NoOpinion(a) PROVE VerifierInv'
  BY <1>2, SilenceKeeps
<1>3. ASSUME NEW a \in Askers, NEW opinion \in Opinions, NEW reported \in BOOLEAN, Opine(a, opinion, reported)
      PROVE  VerifierInv'
  BY <1>3, OpiningKeeps
<1>4. CASE VerifierTick
  <2>1. instant' \in 0..VerifierHorizon /\ UNCHANGED <<verdicts, asker, answered>>
    BY <1>4, VerifierAssumption DEF VerifierTick, VerifierInv
  <2> QED BY <2>1 DEF VerifierInv, VerdictsBacked
<1>5. CASE UNCHANGED verifierVars
  BY <1>5 DEF verifierVars, VerifierInv, VerdictsBacked
<1> QED BY <1>1, <1>2, <1>3, <1>4, <1>5 DEF VerifierNext

LEMMA VerifierInvariance == VerifierSpec => []VerifierInv
BY VerifierStarts, VerifierStepKeeps, PTL DEF VerifierSpec

\* verify, _reconcile: no score that is given out is further than the guard band from the
\* computed one, and one that differs from it is what the model answered for that very
\* text and computed score, not a text that it reported, for any caches and time-outs.
THEOREM OpinionAlwaysBounded == VerifierSpec => []OpinionIsBounded
<1>1. VerifierInv => OpinionIsBounded
  BY DEF VerifierInv, RequestBacked, Backed, OpinionIsBounded
<1> QED BY <1>1, VerifierInvariance, PTL

\* The types of the requests and of the cache, which is never over its limit.
THEOREM VerifierTypesKept == VerifierSpec => []VerifierTypeOK
<1>1. VerifierInv => VerifierTypeOK
  BY DEF VerifierInv, VerdictsBacked, OnePerKey, StoreOK, ScoreCheck, Answer, VerifierTypeOK
<1> QED BY <1>1, VerifierInvariance, PTL

-----------------------------------------------------------------------------
(* Decisions. *)

\* A decision within a cap.
Right(d, top) ==
    /\ d.model \in Models /\ d.score \in Scores \cup {NoScore} /\ d.effort \in Efforts
    /\ d.fallback \in BOOLEAN /\ d.candidates \in Seq(Models)
    /\ \A m \in {d.model} \cup ToSet(d.candidates) : WithinTop(m, top)

LEMMA ModelsAreNames == Models \subseteq STRING
<1> SUFFICES ASSUME NEW m \in Models, m # FallbackModel PROVE m \in STRING
  BY CheckTiers
<1>1. PICK i \in 1..Len(Tiers) : m = Tiers[i].model \/ m \in ToSet(Tiers[i].alternates)
  BY TierTypes DEF Models
<1>2. CASE m = Tiers[i].model
  BY <1>2, TierTypes
<1>3. CASE m \in ToSet(Tiers[i].alternates)
  <2>1. PICK k \in DOMAIN Tiers[i].alternates : m = Tiers[i].alternates[k]
    BY <1>3 DEF ToSet
  <2>2. Tiers[i].alternates \in Seq(STRING)
    BY TierTypes
  <2> QED BY <2>1, <2>2
<1> QED BY <1>1, <1>2, <1>3

LEMMA TierModelIsKnown ==
    ASSUME NEW i \in 1..Len(Tiers), NEW m \in TierModels(i)
    PROVE  m \in Models
BY TierTypes DEF TierModels, Models

\* candidates
LEMMA CandidatesAreRight ==
    ASSUME NEW index \in 1..Len(Tiers), NEW cap
    PROVE  LET c == Candidates(index, cap) IN
           /\ c \in Seq(STRING) /\ \A k, l \in DOMAIN c : c[k] = c[l] => k = l
           /\ \A m \in ToSet(c) : m \in Models /\ WithinTop(m, CapIndex(cap))
<1> DEFINE top == CapIndex(cap)
           c == Candidates(index, cap)
<1>1. top \in 1..Len(Tiers)
  BY CapIndexType
<1> HIDE DEF top
<1>2. c = Failover(index, top)
  BY <1>1, TierTypes DEF Candidates, FailoverTable, top
<1> HIDE DEF c
<1>3. /\ c \in Seq(STRING) /\ \A k, l \in DOMAIN c : c[k] = c[l] => k = l
      /\ \A m \in ToSet(c) : /\ WithinTop(m, top)
                             /\ m = FallbackModel \/ \E i \in 1..top : m \in TierModels(i)
  BY <1>1, <1>2, FailoverIsRight
<1>4. \A i \in 1..top : i \in 1..Len(Tiers)
  BY <1>1, TierTypes
<1>5. \A m \in ToSet(c) : m \in Models
  BY <1>3, <1>4, TierModelIsKnown DEF Models
<1> QED BY <1>3, <1>5 DEF c, top

\* A decision for a model in the table, with the candidates of a tier.
LEMMA DecisionIsRight ==
    ASSUME NEW model \in Models, NEW score \in Scores \cup {NoScore}, NEW effort \in Efforts,
           NEW fallback \in BOOLEAN, NEW index \in 1..Len(Tiers), NEW cap, NEW top, top = CapIndex(cap)
    PROVE  LET d == Decision(model, score, effort, Candidates(index, cap), fallback) IN
           /\ d.model = model /\ d.score = score /\ d.effort = effort /\ d.fallback = fallback
           /\ d.candidates \in Seq(Models)
           /\ WithinTop(model, top) => Right(d, top)
<1> DEFINE c == Candidates(index, cap)
           d == Decision(model, score, effort, c, fallback)
<1>1. /\ c \in Seq(STRING) /\ \A k, l \in DOMAIN c : c[k] = c[l] => k = l
      /\ \A m \in ToSet(c) : m \in Models /\ WithinTop(m, top)
  BY CandidatesAreRight
<1> HIDE DEF c
<1>2. /\ d.model = model /\ d.score = score /\ d.effort = effort /\ d.fallback = fallback
      /\ d.candidates \in Seq(STRING) /\ ToSet(d.candidates) = ToSet(c) \ {model}
  BY <1>1, DecisionCandidates
<1> HIDE DEF d
<1>3. d.candidates \in Seq(Models)
  <2>1. \A k \in 1..Len(d.candidates) : d.candidates[k] \in ToSet(c)
    <3> DEFINE q == d.candidates
    <3>1. q \in Seq(STRING) /\ ToSet(q) \subseteq ToSet(c)
      BY <1>2
    <3> HIDE DEF q
    <3>2. \A k \in 1..Len(q) : q[k] \in ToSet(q)
      BY <3>1 DEF ToSet
    <3> QED BY <3>1, <3>2 DEF q
  <2>2. \A k \in 1..Len(d.candidates) : d.candidates[k] \in Models
    BY <1>1, <2>1
  <2> DEFINE q == d.candidates
  <2>3. q \in Seq(STRING) /\ \A k \in 1..Len(q) : q[k] \in Models
    BY <1>2, <2>2
  <2> HIDE DEF q
  <2>4. q \in Seq(Models)
    BY <2>3
  <2> QED BY <2>4 DEF q
<1>4. WithinTop(model, top) => Right(d, top)
  BY <1>1, <1>2, <1>3 DEF Right
<1> QED BY <1>2, <1>3, <1>4 DEF d, c

\* effort_for
LEMMA EffortIsKnown ==
    ASSUME NEW i \in 1..Len(Tiers), NEW score \in Scores
    PROVE  EffortFor(i, score) \in Efforts
<1> DEFINE efforts == Tiers[i].efforts
           low == Tiers[i].low
           span == Tiers[i].high - low + 1
           n == Len(efforts)
           place == Clamp(((score - low) * n) \div span, 0, n - 1)
<1>1. efforts \in Seq(STRING) /\ low \in Int /\ Tiers[i].high \in Int /\ low <= Tiers[i].high
  BY TierTypes
<1>2. n \in Nat /\ span \in Nat \ {0} /\ score - low \in Int
  BY <1>1 DEF Scores, MIN_SCORE, MAX_SCORE
<1>3. CASE efforts = <<>>
  BY <1>3 DEF EffortFor, Efforts
<1>4. CASE efforts # <<>>
  <2>1. n >= 1
    BY <1>1, <1>4
  <2>2. EffortFor(i, score) = efforts[1 + place]
    BY <1>4 DEF EffortFor
  <2> HIDE DEF n, span, low, efforts
  <2>3. (score - low) * n \in Int
    BY <1>2
  <2> DEFINE product == (score - low) * n
  <2> HIDE DEF product
  <2>4. product \div span \in Int
    BY <1>2, <2>3 DEF product
  <2> DEFINE quotient == product \div span
  <2> HIDE DEF quotient
  <2>5. Clamp(quotient, 0, n - 1) \in 0..(n - 1)
    BY <1>2, <2>1, <2>4 DEF Clamp, Max2, Min2, quotient
  <2>6. place \in 0..(n - 1)
    BY <2>5 DEF quotient, product
  <2> HIDE DEF place
  <2>7. 1 + place \in DOMAIN efforts
    BY <1>1, <1>2, <2>1, <2>6 DEF n
  <2>8. efforts[1 + place] \in ToSet(efforts)
    BY <2>7 DEF ToSet
  <2>9. ToSet(efforts) \subseteq ToSet(EFFORT_ORDER)
    BY TierTypes, CheckTiers DEF efforts
  <2> QED BY <2>2, <2>8, <2>9 DEF Efforts
<1> QED BY <1>3, <1>4

\* select_model
LEMMA SelectModelIsRight ==
    ASSUME NEW score \in Scores \cup {NoScore}, NEW shift \in Int, NEW cap
    PROVE  LET d == SelectModel(score, shift, cap) IN
           /\ Right(d, CapIndex(cap)) /\ d.score = score
           /\ d.fallback => d.model = FallbackModel
<1> DEFINE d == SelectModel(score, shift, cap)
           top == CapIndex(cap)
<1>1. top \in 1..Len(Tiers)
  BY CapIndexType
<1>2. CASE score = NoScore
  <2> DEFINE index == TierIndex(FallbackModel)
  <2>1. FallbackModel \in Models /\ NoEffort \in Efforts /\ WithinTop(FallbackModel, top)
    BY DEF Models, Efforts, WithinTop
  <2>2. CASE index = 0
    <3> DEFINE none == << >>
    <3>1. none \in Seq(STRING) /\ \A k, l \in DOMAIN none : none[k] = none[l] => k = l
      OBVIOUS
    <3>2. ToSet(none) = {}
      BY DEF ToSet
    <3> DEFINE yes == TRUE
    <3>3. d = Decision(FallbackModel, NoScore, NoEffort, none, yes) /\ yes \in BOOLEAN
      BY <1>2, <2>2 DEF SelectModel
    <3> HIDE DEF none, d, yes
    <3>4. /\ d.model = FallbackModel /\ d.score = NoScore /\ d.effort = NoEffort /\ d.fallback = yes
          /\ d.candidates \in Seq(STRING) /\ ToSet(d.candidates) = ToSet(none) \ {FallbackModel}
      BY <3>1, <3>3, DecisionCandidates
    <3>5. d.candidates = <<>>
      <4> DEFINE q == d.candidates
      <4>1. q \in Seq(STRING) /\ ToSet(q) = {}
        BY <3>2, <3>4
      <4> HIDE DEF q
      <4>2. Len(q) = 0
        <5> SUFFICES ASSUME Len(q) # 0 PROVE FALSE
          OBVIOUS
        <5>1. 1 \in DOMAIN q
          BY <4>1
        <5>2. q[1] \in ToSet(q)
          BY <5>1 DEF ToSet
        <5> QED BY <4>1, <5>2
      <4>3. q = <<>>
        BY <4>1, <4>2
      <4> QED BY <4>3 DEF q
    <3>6. d.candidates \in Seq(Models)
      BY <3>5
    <3>7. Right(d, top)
      BY <2>1, <3>2, <3>3, <3>4, <3>6 DEF Right
    <3> QED BY <1>2, <3>4, <3>7 DEF d
  <2>3. CASE index # 0
    <3>1. index \in 1..Len(Tiers)
      BY <2>3, TierIndexIsFirst, TierTypes
    <3> DEFINE yes == TRUE
    <3>2. d = Decision(FallbackModel, NoScore, NoEffort, Candidates(index, cap), yes) /\ yes \in BOOLEAN
      BY <1>2, <2>3 DEF SelectModel
    <3>4. top = CapIndex(cap) /\ NoScore \in Scores \cup {NoScore}
      OBVIOUS
    <3> HIDE DEF d, index, top, yes
    <3>3. /\ d.model = FallbackModel /\ d.score = NoScore
          /\ WithinTop(FallbackModel, top) => Right(d, top)
      BY <2>1, <3>1, <3>2, <3>4, DecisionIsRight
    <3> QED BY <1>2, <2>1, <3>3 DEF d, top
  <2> QED BY <2>2, <2>3
<1>3. CASE score # NoScore
  <2> DEFINE e == Effective(score, shift, cap)
             i == TierForScore(e)
             m == Tiers[i].model
  <2>1. score \in Scores
    BY <1>3
  <2>2. e \in Scores /\ i <= top
    BY <2>1, EffectiveWithinCap
  <2> HIDE DEF e
  <2>3. i \in 1..Len(Tiers)
    BY <2>2, TierCovers
  <2> DEFINE no == FALSE
  <2>4. d = Decision(m, score, EffortFor(i, e), Candidates(i, cap), no) /\ no \in BOOLEAN /\ ~no
    BY <1>3 DEF SelectModel, e
  <2>9. top = CapIndex(cap)
    OBVIOUS
  <2> HIDE DEF d, i
  <2>5. m \in Models
    BY <2>3, TierModelIsKnown DEF TierModels
  <2>6. WithinTop(m, top)
    <3>1. TierIndex(m) <= i /\ TierIndex(m) \in Nat
      BY <2>3, TierIndexIsFirst, TierTypes
    <3> QED BY <1>1, <2>2, <2>3, <3>1, TierTypes DEF WithinTop
  <2>7. EffortFor(i, e) \in Efforts
    BY <2>2, <2>3, EffortIsKnown
  <2> HIDE DEF m, top, no
  <2>8. /\ d.score = score /\ d.fallback = no
        /\ WithinTop(m, top) => Right(d, top)
    BY <2>3, <2>4, <2>5, <2>7, <2>9, DecisionIsRight
  <2> QED BY <2>4, <2>6, <2>8 DEF d, top
<1> QED BY <1>2, <1>3

\* _pinned
LEMMA PinnedIsRight ==
    ASSUME NEW session \in Session
    PROVE  LET d == Pinned(session) IN
           /\ d.model = session.model /\ d.score = session.score /\ d.effort = session.effort
           /\ d.candidates \in Seq(Models)
<1> DEFINE i == TierIndex(session.model)
           index == IF i = 0 THEN TierForScore(session.score) ELSE i
           d == Pinned(session)
<1>1. session.model \in Models /\ session.score \in Scores /\ session.effort \in Efforts
  BY DEF Session
<1>2. index \in 1..Len(Tiers)
  BY <1>1, TierCovers, TierIndexIsFirst, TierTypes
<1> DEFINE no == FALSE
           top == CapIndex(NoModel)
<1>3. /\ d = Decision(session.model, session.score, session.effort, Candidates(index, NoModel), no)
      /\ no \in BOOLEAN /\ top = CapIndex(NoModel) /\ session.score \in Scores \cup {NoScore}
  BY <1>1 DEF Pinned
<1> HIDE DEF index, d, no, top
<1>4. /\ d.model = session.model /\ d.score = session.score /\ d.effort = session.effort
      /\ d.candidates \in Seq(Models)
  BY <1>1, <1>2, <1>3, DecisionIsRight
<1> QED BY <1>4 DEF d

\* _cache_aware: the score stays, so does the cap; and on the same Claude model
\* the effort does not drop.
LEMMA CacheAwareIsRight ==
    ASSUME NEW cap, cap = maxModel, NEW decision, Right(decision, CapIndex(cap)), NEW session \in Session, NEW stay \in BOOLEAN,
           decision.fallback => decision.model = FallbackModel,
           decision \in [model : Models, score : Scores \cup {NoScore}, effort : Efforts,
                         candidates : Seq(Models), fallback : BOOLEAN]
    PROVE  LET d == CacheAware(decision, session, stay) IN
           /\ Right(d, CapIndex(cap)) /\ d.score = decision.score
           /\ d.model = session.model /\ d.model \in Claude /\ FallbackModel \notin Claude =>
                 EffortRank(d.effort) >= EffortRank(session.effort)
<1> DEFINE new == TierIndex(decision.model)
           old == TierIndex(session.model)
           low == Tiers[old].low
           top == CapIndex(cap)
           aim == Clamp(IF decision.score = NoScore THEN low ELSE decision.score, low, Tiers[old].high)
           kept == IF session.model \in Claude THEN session.effort ELSE EffortFor(old, aim)
           same == ~decision.fallback /\ decision.model = session.model /\ session.model \in Claude
           taken == \/ decision.fallback \/ decision.model = session.model
                    \/ new = 0 \/ old = 0 \/ new >= old \/ old > top \/ ~stay
           d == CacheAware(decision, session, stay)
<1>1. session.model \in Models /\ session.score \in Scores /\ session.effort \in Efforts
  BY DEF Session
<1>2. d = IF same THEN [decision EXCEPT !.effort = MaxEffort(@, session.effort)]
          ELSE IF taken THEN decision
          ELSE Decision(session.model, decision.score, kept, Candidates(old, cap), FALSE)
  BY DEF CacheAware
<1> HIDE DEF d
<1>3. CASE same
  <2> DEFINE e == MaxEffort(decision.effort, session.effort)
  <2>1. e \in Efforts /\ EffortRank(e) >= EffortRank(session.effort)
    BY <1>1, MaxEffortIsMore DEF Right
  <2>2. d = [decision EXCEPT !.effort = e]
    BY <1>2, <1>3
  <2> HIDE DEF e
  <2>3. /\ d.model = decision.model /\ d.score = decision.score /\ d.effort = e
        /\ d.fallback = decision.fallback /\ d.candidates = decision.candidates
    BY <2>2
  <2>4. Right(d, top)
    BY <2>1, <2>3 DEF Right
  <2> QED BY <2>1, <2>3, <2>4 DEF d
<1>4. CASE ~same /\ taken
  <2>1. d = decision
    BY <1>2, <1>4
  <2>2. ~(d.model = session.model /\ d.model \in Claude /\ FallbackModel \notin Claude)
    BY <1>4, <2>1
  <2> QED BY <2>1, <2>2 DEF d
<1>5. CASE ~same /\ ~taken
  <2> DEFINE no == FALSE
  <2>1. d = Decision(session.model, decision.score, kept, Candidates(old, cap), no) /\ no \in BOOLEAN
    BY <1>2, <1>5
  <2>9. top = CapIndex(cap)
    OBVIOUS
  <2>2. old \in 1..Len(Tiers) /\ top \in 1..Len(Tiers) /\ old <= top
    BY <1>5, TierIndexIsFirst, CapIndexType, TierTypes
  <2>3. WithinTop(session.model, top)
    BY <2>2 DEF WithinTop
  <2>4. kept \in Efforts
    <3>1. CASE session.model \in Claude
      BY <1>1, <3>1
    <3>2. CASE session.model \notin Claude
      <4>1. low \in 1..20 /\ Tiers[old].high \in 1..20 /\ low <= Tiers[old].high
        BY <2>2, TierRanges
      <4>2. aim \in Scores
        BY <4>1 DEF Right, Clamp, Max2, Min2, Scores, MIN_SCORE, MAX_SCORE
      <4> HIDE DEF aim, old
      <4>3. EffortFor(old, aim) \in Efforts
        BY <2>2, <4>2, EffortIsKnown
      <4> QED BY <3>2, <4>3
    <3> QED BY <3>1, <3>2
  <2>5. decision.score \in Scores \cup {NoScore}
    BY DEF Right
  <2>6. session.model \in Claude => kept = session.effort
    OBVIOUS
  <2> HIDE DEF kept, old, top, no
  <2>7. /\ d.model = session.model /\ d.score = decision.score /\ d.effort = kept
        /\ WithinTop(session.model, top) => Right(d, top)
    <3> DEFINE m == session.model
               r == decision.score
    <3>1. m \in Models /\ r \in Scores \cup {NoScore} /\ d = Decision(m, r, kept, Candidates(old, cap), no)
      BY <1>1, <2>1, <2>5
    <3> HIDE DEF m, r
    <3> DEFINE e == Decision(m, r, kept, Candidates(old, cap), no)
    <3>2. kept \in Efforts /\ no \in BOOLEAN /\ old \in 1..Len(Tiers) /\ top = CapIndex(cap)
      BY <2>1, <2>2, <2>4, <2>9
    <3>3. /\ e.model = m /\ e.score = r /\ e.effort = kept
          /\ WithinTop(m, top) => Right(e, top)
      BY ONLY <3>1, <3>2, DecisionIsRight
    <3>4. e = d
      BY <3>1
    <3> HIDE DEF e
    <3>5. /\ d.model = m /\ d.score = r /\ d.effort = kept
          /\ WithinTop(m, top) => Right(d, top)
      BY <3>3, <3>4
    <3> QED BY <3>5 DEF m, r
  <2>8. session.model \in Claude => EffortRank(d.effort) >= EffortRank(session.effort)
    BY <2>6, <2>7, RankTypes
  <2> QED BY <2>3, <2>7, <2>8 DEF d, top
<1> QED BY <1>3, <1>4, <1>5

-----------------------------------------------------------------------------
(* Floors. *)

\* What a score may have fallen to after some turns.
Fallen(score, since) == score - MAX_DROP * since

LEMMA FallenOrder ==
    /\ \A s \in Int, n \in Nat : Fallen(s, n) \in Int /\ Fallen(s, n) <= s
    /\ \A s \in Int : Fallen(s, 0) = s
    /\ \A s, t \in Int, n \in Nat : s <= t => Fallen(s, n) <= Fallen(t, n)
    /\ \A s \in Int, m, n \in Nat : Fallen(Fallen(s, m), n) = Fallen(s, m + n)
<1>1. MAX_DROP \in Nat
  BY RoutingAssumption
<1>2. \A n \in Nat : MAX_DROP * n \in Nat
  BY <1>1
<1>3. MAX_DROP * 0 = 0
  BY <1>1
<1>4. \A m, n \in Nat : MAX_DROP * (m + n) = MAX_DROP * m + MAX_DROP * n
  BY <1>1
<1>5. \A s \in Int, m, n \in Nat : Fallen(Fallen(s, m), n) = Fallen(s, m + n)
  <2> SUFFICES ASSUME NEW s \in Int, NEW m \in Nat, NEW n \in Nat
               PROVE  (s - MAX_DROP * m) - MAX_DROP * n = s - MAX_DROP * (m + n)
    BY DEF Fallen
  <2>1. MAX_DROP * m \in Nat /\ MAX_DROP * n \in Nat /\ MAX_DROP * (m + n) = MAX_DROP * m + MAX_DROP * n
    BY <1>2, <1>4
  <2> DEFINE a == MAX_DROP * m
             b == MAX_DROP * n
             c == MAX_DROP * (m + n)
  <2>2. a \in Nat /\ b \in Nat /\ c = a + b
    BY <2>1
  <2> HIDE DEF a, b, c
  <2>3. (s - a) - b = s - c
    BY <2>2
  <2> QED BY <2>3 DEF a, b, c
<1>6. \A s \in Int, n \in Nat : Fallen(s, n) \in Int /\ Fallen(s, n) <= s
  BY <1>2 DEF Fallen
<1>7. \A s \in Int : Fallen(s, 0) = s
  BY <1>3 DEF Fallen
<1>8. \A s, t \in Int, n \in Nat : s <= t => Fallen(s, n) <= Fallen(t, n)
  <2> SUFFICES ASSUME NEW s \in Int, NEW t \in Int, NEW n \in Nat, s <= t
               PROVE  s - MAX_DROP * n <= t - MAX_DROP * n
    BY DEF Fallen
  <2> DEFINE a == MAX_DROP * n
  <2>1. a \in Nat
    BY <1>2
  <2> HIDE DEF a
  <2>2. s - a <= t - a
    BY <2>1
  <2> QED BY <2>2 DEF a
<1> QED BY <1>5, <1>6, <1>7, <1>8

\* A sticky floor is what the score may have fallen to, if that is a score.
LEMMA StickyHolds ==
    ASSUME NEW score \in Scores, NEW since \in Nat
    PROVE  /\ Sticky(score, since) \in Scores \cup {0}
           /\ Sticky(score, since) # 0 => Sticky(score, since) = Fallen(score, since)
           /\ Sticky(score, since) = 0 => Fallen(score, since) <= 0
<1>1. Max2(0, since) = since
  BY DEF Max2
<1>2. Fallen(score, since) \in Int /\ Fallen(score, since) <= score
  BY FallenOrder DEF Scores, MIN_SCORE, MAX_SCORE
<1>3. Sticky(score, since) = IF Fallen(score, since) >= MIN_SCORE THEN Fallen(score, since) ELSE 0
  BY <1>1 DEF Sticky, Fallen
<1> QED BY <1>2, <1>3 DEF Scores, MIN_SCORE, MAX_SCORE

\* The floors of a conversation only raise, to a score.
LEMMA RaisedHolds ==
    ASSUME NEW score \in Scores \cup {NoScore}, NEW other \in Nat, NEW floor \in Scores \cup {0}
    PROVE  LET raised == Raised(score, Max2(other, floor)) IN
           raised \in Scores \cup {NoScore} /\ raised >= floor
BY DEF Raised, Max2, Min2, Clamp, Scores, NoScore, MIN_SCORE, MAX_SCORE

-----------------------------------------------------------------------------
(* The inductive invariant. *)

Stored == [key : {"ours", "theirs"}, value : Session, at : Nat]
Work   == [pc : {"idle", "scoring", "serving"}, tool : BOOLEAN, session : SUBSET Session, pinned : BOOLEAN,
           model : Models \cup {NoModel}, score : Scores \cup {NoScore}, effort : Efforts,
           served : Models \cup {NoModel}, rest : Seq(Models)]

\* The route a request has, at a turn.
RouteOf(w, turns) == [model |-> w.served, score |-> w.score, effort |-> w.effort, turns |-> turns]

\* A remembered route is of a past or this turn, and is not far below an earlier route line.
Follows(r, line, turns) ==
    /\ r.turns <= turns
    /\ line.score # NoScore =>
          line.turns <= r.turns /\ r.score >= Fallen(line.score, r.turns - line.turns)

\* What is remembered of the chat, in the store, is its last route.
Remembers(store, last) ==
    /\ store \in Seq(Stored) /\ OnePerKey(store) /\ Len(store) <= SESSION_ITEMS
    /\ \A e \in Entries(store) : e.key = "ours" => last = {e.value}

\* The last route is one at most, and the route line is not ahead of it.
History(last, c) ==
    /\ last \subseteq Session /\ \A r, q \in last : r = q
    /\ c \in Chat /\ c.line.turns <= c.turns
    /\ \A r \in last : Follows(r, c.line, c.turns)
    /\ c.loop => c.turns >= 1

\* A request that waits for its score has what was remembered when it came; one
\* that is served is the last route, and within its cap if it was routed on its score.
Serviced(w, last, c, cap) ==
    /\ w \in Work
    /\ w.pc # "idle" => c.turns >= 1
    /\ w.pc = "scoring" => w.session \subseteq last /\ (w.tool => w.session = {}) /\ ~w.pinned
    /\ w.pc = "serving" =>
          /\ w.model \in Models /\ w.served \in Models
          /\ w.score # NoScore => last = {RouteOf(w, c.turns)}
          /\ ~w.pinned => \A m \in {w.model, w.served} \cup ToSet(w.rest) : WithinTop(m, CapIndex(cap))

RoutingInv ==
    /\ time \in 0..LastTime /\ maxModel \in CapsSent \cup {NoModel}
    /\ Remembers(sessions, route)
    /\ History(route, chat)
    /\ Serviced(work, route, chat, maxModel)

LEMMA RouteOfFields ==
    ASSUME NEW w, NEW turns
    PROVE  LET r == RouteOf(w, turns) IN
           /\ r.model = w.served /\ r.score = w.score /\ r.effort = w.effort /\ r.turns = turns
           /\ /\ w.served \in Models /\ w.score \in Scores /\ w.effort \in Efforts /\ turns \in 1..MaxTurns
              => r \in Session
BY DEF RouteOf, Session

LEMMA SessionFields ==
    ASSUME NEW s \in Session
    PROVE  /\ s.model \in Models /\ s.score \in Scores /\ s.score \in Int /\ s.effort \in Efforts
           /\ s.turns \in 1..MaxTurns /\ s.turns \in Nat
BY RoutingAssumption DEF Session, Scores, MIN_SCORE, MAX_SCORE

LEMMA ChatFields ==
    ASSUME NEW c \in Chat
    PROVE  /\ c.turns \in 0..MaxTurns /\ c.turns \in Nat /\ c.steps \in 0..MaxSteps /\ c.loop \in BOOLEAN
           /\ c.line.score \in Scores \cup {NoScore} /\ c.line.score \in Int
           /\ c.line.turns \in 0..MaxTurns /\ c.line.turns \in Nat
BY RoutingAssumption DEF Chat, Scores, MIN_SCORE, MAX_SCORE, NoScore

\* What follows the line now follows it from any later turn.
LEMMA FallenLater ==
    ASSUME NEW s \in Int, NEW t \in Int, NEW a \in Nat, NEW b \in Nat, NEW n \in Nat, a <= b, b <= n,
           s >= Fallen(t, b - a)
    PROVE  /\ Fallen(s, n - b) \in Int /\ Fallen(t, n - a) \in Int
           /\ Fallen(s, n - b) >= Fallen(t, n - a)
<1> DEFINE x == b - a
           y == n - b
<1>1. x \in Nat /\ y \in Nat /\ n - a = x + y
  OBVIOUS
<1> HIDE DEF x, y
<1>2. Fallen(t, x) \in Int /\ Fallen(Fallen(t, x), y) = Fallen(t, x + y) /\ Fallen(Fallen(t, x), y) \in Int
  BY <1>1, FallenOrder
<1>3. Fallen(t, x) <= s
  BY <1>2 DEF x
<1>4. Fallen(Fallen(t, x), y) <= Fallen(s, y) /\ Fallen(s, y) \in Int
  BY <1>1, <1>2, <1>3, FallenOrder
<1>5. Fallen(t, n - a) = Fallen(t, x + y)
  BY <1>1
<1> QED BY <1>2, <1>4, <1>5 DEF y

\* The floor of the conversation keeps the score from falling faster, whether it is
\* from the session, from the route line, or too low to be one.
LEMMA StickyFloorHolds ==
    ASSUME NEW last, History(last, chat), work.session \subseteq last
    PROVE  /\ StickyFloor \in Scores \cup {0}
           /\ \A s \in work.session : StickyFloor >= Fallen(s.score, chat.turns - s.turns)
           /\ chat.line.score # NoScore =>
                 StickyFloor >= Fallen(chat.line.score, chat.turns - chat.line.turns)
<1> DEFINE all == {Sticky(s.score, chat.turns - s.turns) : s \in work.session} \ {0}
           line == chat.line
           turns == chat.turns
           byline == IF line.score = NoScore THEN 0 ELSE Sticky(line.score, turns - line.turns)
<1>1. /\ turns \in Nat /\ line.turns \in Nat /\ line.turns <= turns
      /\ line.score \in Scores \cup {NoScore} /\ line.score \in Int
  BY ChatFields DEF History
<1>2. \A s \in work.session : /\ s.score \in Scores /\ s.score \in Int /\ s.turns \in Nat /\ s.turns <= turns
                              /\ line.score # NoScore =>
                                    /\ line.turns <= s.turns
                                    /\ s.score >= Fallen(line.score, s.turns - line.turns)
  BY SessionFields DEF History, Follows
<1>3. StickyFloor = IF all # {} THEN CHOOSE f \in all : TRUE ELSE byline
  BY DEF StickyFloor
<1>4. byline \in Scores \cup {0} /\ (line.score # NoScore => byline >= Fallen(line.score, turns - line.turns))
  <2>1. CASE line.score = NoScore
    BY <2>1
  <2>2. CASE line.score # NoScore
    <3> DEFINE since == turns - line.turns
    <3>1. since \in Nat /\ line.score \in Scores
      BY <1>1, <2>2
    <3> HIDE DEF since
    <3>2. /\ Sticky(line.score, since) \in Scores \cup {0}
          /\ Sticky(line.score, since) # 0 => Sticky(line.score, since) = Fallen(line.score, since)
          /\ Sticky(line.score, since) = 0 => Fallen(line.score, since) <= 0
      BY <3>1, StickyHolds
    <3>3. Fallen(line.score, since) \in Int
      BY <1>1, <3>1, FallenOrder
    <3>4. byline = Sticky(line.score, since)
      BY <2>2 DEF since
    <3> HIDE DEF byline
    <3>5. byline \in Scores \cup {0} /\ byline >= Fallen(line.score, since)
      BY <3>2, <3>3, <3>4 DEF Scores, MIN_SCORE, MAX_SCORE
    <3> QED BY <3>5 DEF since
  <2> QED BY <2>1, <2>2
<1>5. \A s \in work.session :
        LET f == Sticky(s.score, turns - s.turns) IN
        /\ f \in Scores \cup {0}
        /\ f # 0 => f = Fallen(s.score, turns - s.turns)
        /\ f = 0 => Fallen(s.score, turns - s.turns) <= 0
        /\ Fallen(s.score, turns - s.turns) \in Int
        /\ line.score # NoScore =>
              /\ Fallen(line.score, turns - line.turns) \in Int
              /\ Fallen(s.score, turns - s.turns) >= Fallen(line.score, turns - line.turns)
  <2> SUFFICES ASSUME NEW s \in work.session
               PROVE LET f == Sticky(s.score, turns - s.turns) IN
                     /\ f \in Scores \cup {0}
                     /\ f # 0 => f = Fallen(s.score, turns - s.turns)
                     /\ f = 0 => Fallen(s.score, turns - s.turns) <= 0
                     /\ Fallen(s.score, turns - s.turns) \in Int
                     /\ line.score # NoScore =>
                           /\ Fallen(line.score, turns - line.turns) \in Int
                           /\ Fallen(s.score, turns - s.turns) >= Fallen(line.score, turns - line.turns)
    OBVIOUS
  <2>1. PICK n, a, b, r, t : n = turns /\ a = line.turns /\ b = s.turns /\ r = s.score /\ t = line.score
    OBVIOUS
  <2>2. /\ n \in Nat /\ a \in Nat /\ a <= n /\ t \in Int /\ r \in Scores /\ r \in Int /\ b \in Nat /\ b <= n
        /\ t # NoScore => a <= b /\ r >= Fallen(t, b - a)
    BY <1>1, <1>2, <2>1
  <2> HIDE <2>1
  <2>3. n - b \in Nat
    BY <2>2
  <2>4. /\ Sticky(r, n - b) \in Scores \cup {0}
        /\ Sticky(r, n - b) # 0 => Sticky(r, n - b) = Fallen(r, n - b)
        /\ Sticky(r, n - b) = 0 => Fallen(r, n - b) <= 0
    BY <2>2, <2>3, StickyHolds
  <2>5. Fallen(r, n - b) \in Int
    BY <2>2, <2>3, FallenOrder
  <2>6. t # NoScore => Fallen(t, n - a) \in Int /\ Fallen(r, n - b) >= Fallen(t, n - a)
    BY <2>2, FallenLater
  <2> QED BY <2>1, <2>4, <2>5, <2>6
<1> HIDE DEF byline
<1>6. CASE all = {}
  <2>1. StickyFloor = byline
    BY <1>3, <1>6
  <2>2. \A s \in work.session : Sticky(s.score, turns - s.turns) = 0
    BY <1>6
  <2>3. \A s \in work.session : byline >= Fallen(s.score, turns - s.turns)
    BY <1>4, <1>5, <2>2 DEF Scores, MIN_SCORE, MAX_SCORE
  <2> QED BY <1>4, <2>1, <2>3
<1>7. CASE all # {}
  <2>1. StickyFloor \in all
    BY <1>3, <1>7
  <2>2. PICK s \in work.session : StickyFloor = Sticky(s.score, turns - s.turns) /\ StickyFloor # 0
    BY <2>1
  <2>3. \A q \in work.session : q = s
    BY <2>2 DEF History
  <2>4. /\ StickyFloor \in Scores \cup {0} /\ StickyFloor = Fallen(s.score, turns - s.turns)
        /\ line.score # NoScore =>
              /\ Fallen(line.score, turns - line.turns) \in Int
              /\ Fallen(s.score, turns - s.turns) >= Fallen(line.score, turns - line.turns)
    BY <1>5, <2>2
  <2>5. Fallen(s.score, turns - s.turns) \in Int
    BY <1>5, <2>2
  <2> QED BY <2>3, <2>4, <2>5
<1> QED BY <1>6, <1>7

-----------------------------------------------------------------------------
(* Steps. *)

\* _first_servable
LEMMA ServableHolds ==
    ASSUME NEW S, NEW chain \in Seq(S), NEW down, Servable(chain, down) > 0
    PROVE  LET i == Servable(chain, down) IN
           /\ i \in 1..Len(chain) /\ chain[i] \in S /\ chain[i] \in ToSet(chain)
           /\ SubSeq(chain, i + 1, Len(chain)) \in Seq(S)
           /\ ToSet(SubSeq(chain, i + 1, Len(chain))) \subseteq ToSet(chain)
<1> DEFINE I == {k \in 1..Len(chain) : chain[k] \notin down}
           first == CHOOSE x \in I : \A y \in I : x <= y
           i == Servable(chain, down)
           n == Len(chain)
<1>1. Servable(chain, down) = IF I # {} THEN first ELSE 0
  BY DEF Servable, SelectInSeq, Min
<1>2. I \in SUBSET Nat /\ I \subseteq 1..n /\ n \in Nat /\ DOMAIN chain = 1..n
  OBVIOUS
<1>3. I # {} /\ i = first
  BY <1>1, SMTT(30)
<1> HIDE DEF I, i
<1>4. \E x \in I : \A y \in I : x <= y
  BY <1>2, <1>3, LeastIsThere
<1>5. i \in 1..n
  BY <1>2, <1>3, <1>4
<1>6. chain[i] \in S /\ chain[i] \in ToSet(chain)
  BY <1>2, <1>5 DEF ToSet
<1> DEFINE m == i + 1
           q == SubSeq(chain, m, n)
<1>7. /\ q \in Seq(S) /\ Len(q) = IF m <= n THEN n - m + 1 ELSE 0
      /\ \A k \in 1..(n - m + 1) : q[k] = chain[m + k - 1]
  <2>1. m \in Int /\ n \in Int /\ m \in 1..(n + 1)
    BY <1>2, <1>5
  <2> HIDE DEF m, n
  <2>2. \A k \in m..n : chain[k] \in S
    BY <1>2, <2>1 DEF n
  <2> QED BY <2>1, <2>2, SubSeqProperties
<1> HIDE DEF q
<1>8. ToSet(q) \subseteq ToSet(chain)
  <2> SUFFICES ASSUME NEW k \in 1..Len(q) PROVE q[k] \in ToSet(chain)
    BY <1>7 DEF ToSet
  <2>1. k \in 1..(n - m + 1) /\ m + k - 1 \in 1..n
    <3>1. i \in Nat /\ i >= 1 /\ i <= n /\ m = i + 1 /\ n \in Nat /\ k \in Int /\ k >= 1
      BY <1>2, <1>5
    <3> HIDE DEF m, n
    <3>2. Len(q) \in Nat /\ k <= Len(q)
      BY <1>7, <3>1
    <3>3. m <= n /\ k <= n - m + 1
      BY <1>7, <3>1, <3>2
    <3> QED BY <3>1, <3>3
  <2> QED BY <1>2, <1>7, <2>1 DEF ToSet
<1> QED BY <1>5, <1>6, <1>7, <1>8 DEF i, q

\* The chain of a decision.
LEMMA ChainHolds ==
    ASSUME NEW model \in Models, NEW candidates \in Seq(Models)
    PROVE  /\ <<model>> \o candidates \in Seq(Models)
           /\ ToSet(<<model>> \o candidates) = {model} \cup ToSet(candidates)
<1> DEFINE n == Len(candidates)
           chain == <<model>> \o candidates
<1>1. n \in Nat /\ DOMAIN candidates = 1..n /\ <<model>> \in Seq(Models) /\ Len(<<model>>) = 1 /\ <<model>>[1] = model
  BY OneElement
<1>2. chain \in Seq(Models) /\ Len(chain) = n + 1
  BY <1>1
<1>3. chain[1] = model /\ \A k \in 1..n : chain[k + 1] = candidates[k]
  BY <1>1
<1> HIDE DEF chain, n
<1>4. ASSUME NEW m \in ToSet(chain) PROVE m \in {model} \cup ToSet(candidates)
  <2>1. PICK k \in 1..(n + 1) : m = chain[k]
    BY <1>2, <1>4 DEF ToSet
  <2>2. CASE k = 1
    BY <1>3, <2>1, <2>2
  <2>3. CASE k # 1
    <3>1. k - 1 \in 1..n /\ (k - 1) + 1 = k
      BY <1>1, <2>3
    <3>2. m = candidates[k - 1]
      BY <1>3, <2>1, <3>1
    <3> QED BY <1>1, <3>1, <3>2 DEF ToSet
  <2> QED BY <2>2, <2>3
<1>5. ASSUME NEW m \in {model} \cup ToSet(candidates) PROVE m \in ToSet(chain)
  <2>1. CASE m = model
    <3>1. 1 \in DOMAIN chain
      BY <1>1, <1>2
    <3> QED BY <1>3, <2>1, <3>1 DEF ToSet
  <2>2. CASE m \in ToSet(candidates)
    <3>1. PICK k \in 1..n : m = candidates[k]
      BY <1>1, <2>2 DEF ToSet
    <3>2. k + 1 \in DOMAIN chain
      BY <1>1, <1>2
    <3> QED BY <1>3, <3>1, <3>2 DEF ToSet
  <2> QED BY <1>5, <2>1, <2>2
<1> QED BY <1>2, <1>4, <1>5 DEF chain

\* The turns of a chat go on; its route line stays.
LEMMA HistoryAdvances ==
    ASSUME NEW last, NEW c, History(last, c), NEW d \in Chat, d.line = c.line, c.turns <= d.turns,
           d.loop => d.turns >= 1
    PROVE  History(last, d)
<1>1. c.turns \in Nat /\ d.turns \in Nat /\ c.line.turns \in Nat /\ \A r \in last : r.turns \in Nat
  BY ChatFields, SessionFields DEF History
<1>2. \A r \in last : Follows(r, d.line, d.turns)
  BY <1>1 DEF History, Follows
<1> QED BY <1>1, <1>2 DEF History

\* save_route: the last route is the new one, which is what is remembered.
LEMMA SavedKeeps ==
    ASSUME NEW store, NEW last, Remembers(store, last), NEW c, History(last, c), c.turns >= 1,
           NEW w \in Work, w.served \in Models,
           w.score # NoScore /\ c.line.score # NoScore =>
               w.score >= Fallen(c.line.score, c.turns - c.line.turns),
           NEW now \in Nat, NEW newStore, NEW newLast,
           w.score = NoScore => newStore = store /\ newLast = last,
           w.score # NoScore => /\ newStore = AfterPut(store, "ours", RouteOf(w, c.turns), now, SESSION_ITEMS)
                                /\ newLast = {RouteOf(w, c.turns)}
    PROVE  /\ Remembers(newStore, newLast) /\ History(newLast, c)
           /\ w.score # NoScore => newLast = {RouteOf(w, c.turns)}
<1>1. CASE w.score = NoScore
  BY <1>1
<1>2. CASE w.score # NoScore
  <2> DEFINE r == RouteOf(w, c.turns)
             entry == Entry("ours", r, now)
  <2>1. /\ c \in Chat /\ c.turns \in 1..MaxTurns /\ c.turns \in Nat /\ c.line.turns \in Nat /\ c.line.turns <= c.turns
        /\ c.loop => c.turns >= 1
    BY ChatFields, RoutingAssumption DEF History
  <2>2. w.score \in Scores /\ w.effort \in Efforts
    BY <1>2 DEF Work
  <2>3. /\ r.model = w.served /\ r.score = w.score /\ r.effort = w.effort /\ r.turns = c.turns
        /\ r \in Session
    BY <2>1, <2>2, RouteOfFields
  <2> HIDE DEF r
  <2>4. entry \in Stored /\ entry.key = "ours" /\ entry.value = r
    BY <2>3 DEF Entry, Stored
  <2>5. SESSION_ITEMS \in Nat \ {0}
    BY RoutingAssumption
  <2>6. newStore = AfterPut(store, "ours", r, now, SESSION_ITEMS) /\ newLast = {r}
    BY <1>2 DEF r
  <2>7. store \in Seq(Stored) /\ OnePerKey(store) /\ Len(store) <= SESSION_ITEMS
    BY DEF Remembers
  <2> DEFINE key == "ours"
             new == AfterPut(store, key, r, now, SESSION_ITEMS)
  <2>8. Entry(key, r, now) \in Stored
    BY <2>4
  <2> HIDE DEF key, new
  <2>9. /\ new \in Seq(Stored) /\ OnePerKey(new) /\ Len(new) <= SESSION_ITEMS
        /\ \A e \in Entries(new) : \/ e = Entry(key, r, now)
                                   \/ e \in Entries(store) /\ e.key # key
    BY <2>5, <2>7, <2>8, PutEntries DEF new
  <2>10. Remembers(newStore, newLast)
    <3>1. newStore = new
      BY <2>6 DEF new, key
    <3>2. \A e \in Entries(new) : e.key = "ours" => e.value = r
      BY <2>4, <2>9 DEF key
    <3> HIDE DEF new
    <3> QED BY <2>6, <2>9, <3>1, <3>2 DEF Remembers
  <2>11. Follows(r, c.line, c.turns)
    BY <1>2, <2>1, <2>3 DEF Follows
  <2>12. History(newLast, c)
    BY <2>1, <2>3, <2>6, <2>11 DEF History
  <2> QED BY <2>6, <2>10, <2>12 DEF r
<1> QED BY <1>1, <1>2

\* A request that gets its route.
LEMMA ServeKeeps ==
    ASSUME NEW store, Remembers(store, route), NEW request \in Work, NEW decision, Serve(store, request, decision),
           decision.model \in Models, decision.score \in Scores \cup {NoScore}, decision.effort \in Efforts,
           decision.candidates \in Seq(Models),
           time \in Nat, NEW c, c = chat', History(route, c), c.turns >= 1,
           decision.score # NoScore /\ c.line.score # NoScore =>
               decision.score >= Fallen(c.line.score, c.turns - c.line.turns),
           NEW cap,
           ~request.pinned =>
               \A m \in {decision.model} \cup ToSet(decision.candidates) : WithinTop(m, CapIndex(cap))
    PROVE  /\ Remembers(sessions', route') /\ History(route', c) /\ Serviced(work', route', c, cap)
           /\ work'.pc = "serving" /\ work'.model = decision.model
           /\ work'.score = decision.score /\ work'.effort = decision.effort
           /\ work'.tool = request.tool /\ work'.session = request.session /\ work'.pinned = request.pinned
<1> DEFINE chain == <<decision.model>> \o decision.candidates
<1>1. PICK down \in SUBSET Down :
         /\ Servable(chain, down) > 0
         /\ work' = [request EXCEPT !.pc = "serving", !.model = decision.model, !.score = decision.score,
                        !.effort = decision.effort, !.served = chain[Servable(chain, down)],
                        !.rest = SubSeq(chain, Servable(chain, down) + 1, Len(chain))]
         /\ Saved(store, chain[Servable(chain, down)], decision.score, decision.effort)
  BY Zenon DEF Serve
<1>2. chain \in Seq(Models) /\ ToSet(chain) = {decision.model} \cup ToSet(decision.candidates)
  BY ChainHolds
<1> DEFINE i == Servable(chain, down)
           served == chain[i]
           rest == SubSeq(chain, i + 1, Len(chain))
<1> HIDE DEF chain
<1>3. /\ served \in Models /\ served \in ToSet(chain)
      /\ rest \in Seq(Models) /\ ToSet(rest) \subseteq ToSet(chain)
  BY <1>1, <1>2, ServableHolds
<1>4. /\ work' = [request EXCEPT !.pc = "serving", !.model = decision.model, !.score = decision.score,
                     !.effort = decision.effort, !.served = served, !.rest = rest]
      /\ Saved(store, served, decision.score, decision.effort)
  BY <1>1
<1> HIDE DEF i, served, rest
<1>5. PICK w : w = work'
  OBVIOUS
<1>6. PICK model, score, effort : model = decision.model /\ score = decision.score /\ effort = decision.effort
  OBVIOUS
<1>7. /\ w \in Work /\ w.pc = "serving" /\ w.model = model /\ w.score = score /\ w.effort = effort
      /\ w.served = served /\ w.rest = rest
      /\ w.tool = request.tool /\ w.session = request.session /\ w.pinned = request.pinned
  <2>1. w = [request EXCEPT !.pc = "serving", !.model = model, !.score = score,
                !.effort = effort, !.served = served, !.rest = rest]
    BY <1>4, <1>5, <1>6
  <2>2. model \in Models /\ score \in Scores \cup {NoScore} /\ effort \in Efforts
    BY <1>6
  <2>3. served \in Models /\ rest \in Seq(Models) /\ request \in Work
    BY <1>3
  <2>4. /\ w.pc = "serving" /\ w.model = model /\ w.score = score /\ w.effort = effort
        /\ w.served = served /\ w.rest = rest
        /\ w.tool = request.tool /\ w.session = request.session /\ w.pinned = request.pinned
    BY ONLY <2>1, <2>3 DEF Work
  <2>5. w \in Work
    BY ONLY <2>1, <2>2, <2>3 DEF Work
  <2> QED BY <2>4, <2>5
<1>8. PICK newStore, newLast, last, now : /\ newStore = sessions' /\ newLast = route' /\ last = route /\ now = time
  OBVIOUS
<1>9. /\ w.score = NoScore => newStore = store /\ newLast = last
      /\ w.score # NoScore => /\ newStore = AfterPut(store, "ours", RouteOf(w, c.turns), now, SESSION_ITEMS)
                              /\ newLast = {RouteOf(w, c.turns)}
  BY <1>4, <1>6, <1>7, <1>8 DEF Saved, RouteOf
<1>10. /\ w.score # NoScore /\ c.line.score # NoScore =>
             w.score >= Fallen(c.line.score, c.turns - c.line.turns)
       /\ w.served \in Models /\ now \in Nat /\ Remembers(store, last) /\ History(last, c)
  BY <1>3, <1>6, <1>7, <1>8
<1>11. /\ Remembers(newStore, newLast) /\ History(newLast, c)
       /\ w.score # NoScore => newLast = {RouteOf(w, c.turns)}
  BY ONLY <1>7, <1>9, <1>10, SavedKeeps, c.turns >= 1
<1>12. ~w.pinned => \A m \in {w.model, w.served} \cup ToSet(w.rest) : WithinTop(m, CapIndex(cap))
  BY <1>2, <1>3, <1>6, <1>7
<1>13. Serviced(w, newLast, c, cap)
  BY <1>3, <1>6, <1>7, <1>11, <1>12 DEF Serviced
<1> QED BY <1>5, <1>6, <1>7, <1>8, <1>11, <1>13

-----------------------------------------------------------------------------
(* The actions. *)

\* What a step that gives a request its route keeps of the last one.
RouteKept  == Remembered /\ work'.tool =>
                  \A last \in route : work'.model = last.model /\ work'.effort = last.effort
ScoreHeld  == /\ Routed /\ chat.line.score # NoScore =>
                     work'.score >= Fallen(chat.line.score, chat'.turns - chat.line.turns)
              /\ Remembered =>
                     \A last \in route : work'.score >= Fallen(last.score, chat'.turns - last.turns)
EffortHeld == FallbackModel \notin Claude =>
                  (Remembered =>
                      \A last \in route :
                          last.model \in Claude /\ work'.model = last.model =>
                              EffortRank(work'.effort) >= EffortRank(last.effort))
StepHeld   == RouteKept /\ ScoreHeld /\ EffortHeld

LEMMA OnlyRoutingMatters ==
    ASSUME ~Routed
    PROVE  StepHeld
BY DEF StepHeld, RouteKept, ScoreHeld, EffortHeld, Remembered

\* What a score was last follows the line at any later turn.
LEMMA LastFollowsLine ==
    ASSUME NEW last, NEW c, History(last, c), NEW r \in last, NEW n \in Nat, c.turns <= n
    PROVE  /\ r.score \in Scores /\ n - r.turns \in Nat
           /\ r.score >= Fallen(r.score, n - r.turns)
           /\ c.line.score # NoScore => r.score >= Fallen(c.line.score, n - c.line.turns)
<1>1. PICK a, b, t, s : a = c.line.turns /\ b = r.turns /\ t = c.line.score /\ s = r.score
  OBVIOUS
<1>2. a \in Nat /\ t \in Int /\ b \in Nat /\ s \in Scores /\ s \in Int /\ b <= n
  BY <1>1, ChatFields, SessionFields DEF History, Follows
<1>3. t # NoScore => a <= b /\ s >= Fallen(t, b - a)
  BY <1>1 DEF History, Follows
<1>4. n - b \in Nat
  BY <1>2
<1>5. Fallen(s, n - b) \in Int /\ Fallen(s, n - b) <= s
  BY <1>2, <1>4, FallenOrder
<1>6. t # NoScore => /\ Fallen(t, n - a) \in Int
                     /\ Fallen(s, n - b) >= Fallen(t, n - a)
  BY <1>2, <1>3, FallenLater
<1>7. s >= Fallen(s, n - b) /\ (t # NoScore => s >= Fallen(t, n - a))
  BY <1>2, <1>5, <1>6
<1> QED BY <1>1, <1>2, <1>4, <1>7

LEMMA ArriveKeeps ==
    ASSUME RoutingInv, NEW tool \in BOOLEAN, Arrive(tool)
    PROVE  RoutingInv' /\ StepHeld
<1> DEFINE found == Lookup(sessions, "ours", time, SESSION_TTL)
           store == AfterGet(sessions, "ours", time, SESSION_TTL)
           pinned == tool /\ found # {}
           request == [NoWork EXCEPT !.pc = "scoring", !.tool = tool, !.session = found, !.pinned = pinned]
<1>1. /\ work.pc = "idle"
      /\ IF tool THEN chat.loop ELSE chat.turns < MaxTurns
      /\ chat.steps < MaxSteps
      /\ chat' = [chat EXCEPT !.steps = @ + 1, !.turns = IF tool THEN @ ELSE @ + 1]
      /\ maxModel' \in CapsSent /\ time' = time
      /\ IF pinned
         THEN Serve(store, request, Pinned(CHOOSE s \in found : TRUE))
         ELSE work' = request /\ sessions' = store /\ route' = route
  BY DEF Arrive
<1>2. /\ time \in 0..LastTime /\ Remembers(sessions, route) /\ History(route, chat)
  BY DEF RoutingInv
<1>3. PICK c, d : c = chat' /\ d = chat
  OBVIOUS
<1>4. /\ d \in Chat /\ d.turns \in Nat /\ d.turns \in 0..MaxTurns /\ d.loop \in BOOLEAN
      /\ d.loop => d.turns >= 1
  BY <1>2, <1>3, ChatFields DEF History
<1>5. /\ c.line = d.line /\ c.loop = d.loop /\ c.turns = (IF tool THEN d.turns ELSE d.turns + 1)
      /\ c.steps = d.steps + 1
  BY <1>1, <1>3, <1>4 DEF Chat
<1>6. c.turns \in Nat /\ d.turns <= c.turns /\ c.turns >= 1 /\ c.turns <= MaxTurns
  BY <1>1, <1>3, <1>4, <1>5, RoutingAssumption
<1>7. c \in Chat
  <2>1. d.steps + 1 \in 0..MaxSteps /\ c.turns \in 0..MaxTurns
    <3>1. MaxSteps \in Nat /\ MaxTurns \in Nat
      BY RoutingAssumption
    <3>2. d.steps \in 0..MaxSteps
      BY <1>4, ChatFields
    <3> QED BY <1>1, <1>3, <1>6, <3>1, <3>2
  <2>2. PICK x, y : x = d.steps + 1 /\ y = c.turns
    OBVIOUS
  <2>3. c = [d EXCEPT !.steps = x, !.turns = y]
    BY <1>1, <1>3, <1>5, <2>2
  <2>4. x \in 0..MaxSteps /\ y \in 0..MaxTurns
    BY <2>1, <2>2
  <2> QED BY ONLY <1>4, <2>3, <2>4 DEF Chat
<1>8. History(route, c)
  BY <1>2, <1>3, <1>4, <1>5, <1>6, <1>7, HistoryAdvances
<1>9. found \subseteq route
  <2> SUFFICES ASSUME NEW s \in found PROVE s \in route
    OBVIOUS
  <2>1. \E e \in Entries(sessions) : e.key = "ours" /\ e.value = s
    BY LookupEntries
  <2> QED BY <1>2, <2>1 DEF Remembers
<1>10. Remembers(store, route)
  <2>1. sessions \in Seq(Stored) /\ OnePerKey(sessions) /\ Len(sessions) <= SESSION_ITEMS /\ SESSION_ITEMS \in Nat
    BY <1>2, RoutingAssumption DEF Remembers
  <2>2. /\ store \in Seq(Stored) /\ OnePerKey(store) /\ Len(store) <= Len(sessions)
        /\ Entries(store) \subseteq Entries(sessions)
    BY <2>1, GetEntries
  <2> HIDE DEF store
  <2>3. Len(store) <= SESSION_ITEMS
    BY <2>1, <2>2
  <2> QED BY <1>2, <2>2, <2>3 DEF Remembers
<1>11. /\ request.pc = "scoring" /\ request.tool = tool /\ request.session = found /\ request.pinned = pinned
       /\ request \in Work
  <2>1. found \subseteq Session
    BY <1>2, <1>9 DEF History
  <2> HIDE DEF found
  <2>2. /\ request.pc = "scoring" /\ request.tool = tool /\ request.session = found /\ request.pinned = pinned
        /\ request.model = NoModel /\ request.score = NoScore /\ request.effort = NoEffort
        /\ request.served = NoModel /\ request.rest = <<>>
    BY DEF NoWork
  <2>3. pinned \in BOOLEAN /\ NoEffort \in Efforts /\ <<>> \in Seq(Models)
    BY DEF Efforts
  <2>4. request \in Work
    BY <2>1, <2>3 DEF Work, NoWork
  <2> QED BY <2>2, <2>4
<1> HIDE DEF found, store, request
<1>12. PICK cap : cap = maxModel'
  OBVIOUS
<1>13. CASE pinned
  <2> DEFINE session == CHOOSE s \in found : TRUE
             decision == Pinned(session)
  <2>1. session \in found /\ session \in route /\ session \in Session /\ tool
    BY <1>2, <1>9, <1>13 DEF History
  <2>2. PICK s, q, m : s = session /\ q = decision /\ m = store
    OBVIOUS
  <2>3. /\ q.model = s.model /\ q.score = s.score /\ q.effort = s.effort /\ q.candidates \in Seq(Models)
        /\ s.model \in Models /\ s.score \in Scores /\ s.effort \in Efforts /\ s.turns \in Nat
    <3>1. s \in Session
      BY <2>1, <2>2
    <3>2. q = Pinned(s)
      BY <2>2
    <3> QED BY <3>1, <3>2, PinnedIsRight, SessionFields
  <2>4. Serve(m, request, q)
    BY <1>1, <1>13, <2>2
  <2>5. /\ s.score >= Fallen(s.score, c.turns - s.turns)
        /\ c.line.score # NoScore => s.score >= Fallen(c.line.score, c.turns - c.line.turns)
    BY <1>6, <1>8, <2>1, <2>2, LastFollowsLine
  <2> HIDE DEF session
  <2>6. time \in Nat /\ Remembers(m, route) /\ request.pinned
    <3>1. LastTime \in Nat
      BY RoutingAssumption
    <3>2. time \in Nat
      BY <1>2, <3>1
    <3>3. Remembers(m, route)
      BY <1>10, <2>2
    <3>4. request.pinned
      BY <1>11, <1>13
    <3> QED BY <3>2, <3>3, <3>4
  <2>7. /\ Remembers(sessions', route') /\ History(route', c) /\ Serviced(work', route', c, cap)
        /\ work'.pc = "serving" /\ work'.model = q.model /\ work'.score = q.score /\ work'.effort = q.effort
        /\ work'.tool = request.tool /\ work'.session = request.session /\ work'.pinned = request.pinned
    BY <1>3, <1>6, <1>8, <1>11, <2>3, <2>4, <2>5, <2>6, ServeKeeps
  <2>8. RoutingInv'
    BY <1>1, <1>2, <1>3, <1>12, <2>7 DEF RoutingInv
  <2>9. \A last \in route : last = s
    BY <1>2, <2>1, <2>2 DEF History
  <2>10. StepHeld
    <3>1. RouteKept
      BY <2>3, <2>7, <2>9 DEF RouteKept
    <3>2. ScoreHeld
      BY <1>3, <1>5, <2>3, <2>5, <2>7, <2>9 DEF ScoreHeld
    <3>3. EffortHeld
      BY <2>3, <2>7, <2>9, RankTypes DEF EffortHeld
    <3> QED BY <3>1, <3>2, <3>3 DEF StepHeld
  <2> QED BY <2>8, <2>10
<1>14. CASE ~pinned
  <2>1. work' = request /\ sessions' = store /\ route' = route
    BY <1>1, <1>14
  <2>2. tool => found = {}
    BY <1>14
  <2>3. Serviced(work', route', c, cap)
    BY <1>6, <1>9, <1>11, <1>14, <2>1, <2>2 DEF Serviced
  <2>4. RoutingInv'
    BY <1>1, <1>2, <1>3, <1>8, <1>10, <1>12, <2>1, <2>3 DEF RoutingInv
  <2>5. ~Routed
    BY <1>11, <2>1 DEF Routed
  <2> QED BY <2>4, <2>5, OnlyRoutingMatters
<1> QED BY <1>13, <1>14

LEMMA DecideKeeps ==
    ASSUME RoutingInv, Decide
    PROVE  RoutingInv' /\ StepHeld
<1>1. work.pc = "scoring" /\ chat' = chat /\ time' = time /\ maxModel' = maxModel
  BY DEF Decide
<1>2. PICK said \in Verdicts, other \in OtherFloors, shift \in ShiftsSent, stay \in BOOLEAN :
         LET score == Raised(said, Max2(other, StickyFloor))
             decision == SelectModel(score, shift, maxModel)
         IN Serve(sessions, work, IF work.session = {} THEN decision
                                  ELSE CacheAware(decision, CHOOSE s \in work.session : TRUE, stay))
  BY Zenon DEF Decide
<1>3. PICK c, last, request, cap : c = chat /\ last = route /\ request = work /\ cap = maxModel
  OBVIOUS
<1>4. /\ time \in 0..LastTime /\ cap \in CapsSent \cup {NoModel}
      /\ Remembers(sessions, route) /\ History(last, c) /\ Serviced(request, last, c, cap)
      /\ request \in Work /\ request.session \subseteq last /\ (request.tool => request.session = {})
      /\ ~request.pinned /\ c.turns >= 1
  BY <1>1, <1>3 DEF RoutingInv, Serviced
<1>5. PICK floor : floor = StickyFloor
  OBVIOUS
<1>6. /\ floor \in Scores \cup {0}
      /\ \A s \in request.session : floor >= Fallen(s.score, c.turns - s.turns)
      /\ c.line.score # NoScore => floor >= Fallen(c.line.score, c.turns - c.line.turns)
  BY <1>3, <1>4, <1>5, StickyFloorHolds
<1>7. PICK score : score = Raised(said, Max2(other, floor))
  OBVIOUS
<1>8. score \in Scores \cup {NoScore} /\ score >= floor
  <2>1. said \in Scores \cup {NoScore} /\ other \in Nat
    BY RoutingAssumption
  <2> QED BY <1>6, <1>7, <2>1, RaisedHolds
<1>9. \A r \in last : /\ r \in Session /\ r.score \in Int /\ r.turns \in Nat /\ r.turns <= c.turns
  BY <1>4, SessionFields DEF History, Follows
<1>10. /\ c \in Chat /\ c.turns \in Nat /\ c.line.score \in Int /\ c.line.turns \in Nat /\ c.line.turns <= c.turns
  BY <1>4, ChatFields DEF History
<1>11. /\ \A s \in request.session : score >= Fallen(s.score, c.turns - s.turns)
       /\ c.line.score # NoScore => score >= Fallen(c.line.score, c.turns - c.line.turns)
  <2>1. floor \in Int /\ score \in Int
    BY <1>6, <1>8 DEF Scores, NoScore, MIN_SCORE, MAX_SCORE
  <2>2. \A s \in request.session : Fallen(s.score, c.turns - s.turns) \in Int
    <3> SUFFICES ASSUME NEW s \in request.session PROVE Fallen(s.score, c.turns - s.turns) \in Int
      OBVIOUS
    <3>1. c.turns - s.turns \in Nat /\ s.score \in Int
      BY <1>4, <1>9, <1>10
    <3> QED BY <3>1, FallenOrder
  <2>3. Fallen(c.line.score, c.turns - c.line.turns) \in Int
    <3>1. c.turns - c.line.turns \in Nat
      BY <1>10
    <3> QED BY <1>10, <3>1, FallenOrder
  <2> QED BY <1>6, <1>8, <2>1, <2>2, <2>3
<1>12. PICK choice : choice = SelectModel(score, shift, cap)
  OBVIOUS
<1>13. Right(choice, CapIndex(cap)) /\ choice.score = score /\ (choice.fallback => choice.model = FallbackModel)
  <2>1. shift \in Int
    BY RoutingAssumption
  <2> QED BY <1>8, <1>12, <2>1, SelectModelIsRight
<1>14. PICK session : session = CHOOSE s \in request.session : TRUE
  OBVIOUS
<1>15. PICK decision : decision = IF request.session = {} THEN choice ELSE CacheAware(choice, session, stay)
  OBVIOUS
<1>16. Serve(sessions, request, decision)
  BY <1>2, <1>3, <1>5, <1>7, <1>12, <1>14, <1>15
<1>17. request.session # {} => session \in request.session /\ session \in last /\ session \in Session
  BY <1>4, <1>9, <1>14
<1>18. choice \in [model : Models, score : Scores \cup {NoScore}, effort : Efforts,
                   candidates : Seq(Models), fallback : BOOLEAN]
  <2>1. \E m, e, s, f : choice = Decision(m, score, e, s, f)
    BY <1>12 DEF SelectModel
  <2>2. PICK m, e, q, f : choice = [model |-> m, score |-> score, effort |-> e, candidates |-> q, fallback |-> f]
    BY <2>1 DEF Decision
  <2> QED BY <1>13, <2>2 DEF Right
<1>19. /\ Right(decision, CapIndex(cap)) /\ decision.score = score
       /\ request.session # {} =>
             (decision.model = session.model /\ decision.model \in Claude /\ FallbackModel \notin Claude =>
                 EffortRank(decision.effort) >= EffortRank(session.effort))
  <2>1. CASE request.session = {}
    BY <1>13, <1>15, <2>1
  <2>2. CASE request.session # {}
    <3>1. cap = maxModel /\ session \in Session
      BY <1>3, <1>17, <2>2
    <3>2. decision = CacheAware(choice, session, stay)
      BY <1>15, <2>2
    <3> DEFINE d == CacheAware(choice, session, stay)
    <3>3. /\ Right(d, CapIndex(cap)) /\ d.score = choice.score
          /\ d.model = session.model /\ d.model \in Claude /\ FallbackModel \notin Claude =>
                EffortRank(d.effort) >= EffortRank(session.effort)
      BY ONLY <1>13, <1>18, <3>1, CacheAwareIsRight, stay \in BOOLEAN
    <3> QED BY <1>13, <3>2, <3>3
  <2> QED BY <2>1, <2>2
<1>20. /\ decision.model \in Models /\ decision.score \in Scores \cup {NoScore} /\ decision.effort \in Efforts
       /\ decision.candidates \in Seq(Models)
       /\ \A m \in {decision.model} \cup ToSet(decision.candidates) : WithinTop(m, CapIndex(cap))
  BY <1>19 DEF Right
<1>21. time \in Nat
  <2>1. LastTime \in Nat
    BY RoutingAssumption
  <2> QED BY <1>4, <2>1
<1>22. c = chat' /\ History(route, c)
  BY <1>1, <1>3, <1>4
<1>23. /\ Remembers(sessions', route') /\ History(route', c) /\ Serviced(work', route', c, cap)
       /\ work'.pc = "serving" /\ work'.model = decision.model
       /\ work'.score = decision.score /\ work'.effort = decision.effort
       /\ work'.tool = request.tool /\ work'.session = request.session /\ work'.pinned = request.pinned
  BY <1>4, <1>11, <1>16, <1>19, <1>20, <1>21, <1>22, ServeKeeps
<1>24. RoutingInv'
  BY <1>1, <1>3, <1>4, <1>22, <1>23 DEF RoutingInv
<1>25. Remembered => request.session # {} /\ ~work'.tool /\ \A r \in last : r = session /\ r \in request.session
  BY <1>4, <1>17, <1>23 DEF Remembered, History
<1>26. StepHeld
  <2>1. RouteKept
    BY <1>25 DEF RouteKept
  <2>2. ScoreHeld
    BY <1>1, <1>3, <1>11, <1>19, <1>23, <1>25 DEF ScoreHeld
  <2>3. EffortHeld
    BY <1>3, <1>19, <1>23, <1>25 DEF EffortHeld
  <2> QED BY <2>1, <2>2, <2>3 DEF StepHeld
<1> QED BY <1>24, <1>26

LEMMA FailOverKeeps ==
    ASSUME RoutingInv, FailOver
    PROVE  RoutingInv' /\ StepHeld
<1>1. /\ work.pc = "serving" /\ chat' = chat /\ time' = time /\ maxModel' = maxModel
  BY DEF FailOver
<1>2. PICK down \in SUBSET Down :
         /\ Servable(work.rest, down) > 0
         /\ work' = [work EXCEPT !.served = work.rest[Servable(work.rest, down)],
                        !.rest = SubSeq(@, Servable(work.rest, down) + 1, Len(@))]
         /\ Moved(work.rest[Servable(work.rest, down)])
  BY Zenon DEF FailOver
<1>3. PICK c, last, old, cap, w : c = chat /\ last = route /\ old = work /\ cap = maxModel /\ w = work'
  OBVIOUS
<1>4. /\ time \in 0..LastTime /\ cap \in CapsSent \cup {NoModel}
      /\ Remembers(sessions, last) /\ History(last, c) /\ Serviced(old, last, c, cap)
      /\ old \in Work /\ old.pc = "serving" /\ c.turns >= 1
      /\ old.model \in Models /\ old.served \in Models
      /\ old.score # NoScore => last = {RouteOf(old, c.turns)}
      /\ ~old.pinned => \A m \in {old.model, old.served} \cup ToSet(old.rest) : WithinTop(m, CapIndex(cap))
  BY <1>1, <1>3 DEF RoutingInv, Serviced
<1>5. PICK chain : chain = old.rest
  OBVIOUS
<1>6. chain \in Seq(Models)
  BY <1>4, <1>5 DEF Work
<1> DEFINE i == Servable(chain, down)
           served == chain[i]
           rest == SubSeq(chain, i + 1, Len(chain))
<1>7. /\ served \in Models /\ served \in ToSet(chain)
      /\ rest \in Seq(Models) /\ ToSet(rest) \subseteq ToSet(chain)
  BY <1>2, <1>3, <1>5, <1>6, ServableHolds
<1>8. w = [old EXCEPT !.served = served, !.rest = rest] /\ Moved(served)
  BY <1>2, <1>3, <1>5
<1> HIDE DEF i, served, rest
<1>9. /\ w.pc = old.pc /\ w.model = old.model /\ w.score = old.score /\ w.effort = old.effort
      /\ w.tool = old.tool /\ w.session = old.session /\ w.pinned = old.pinned
      /\ w.served = served /\ w.rest = rest
  BY ONLY <1>4, <1>8 DEF Work
<1>10. w \in Work
  BY ONLY <1>4, <1>7, <1>8 DEF Work
<1>11. PICK newStore, newLast, now, store : newStore = sessions' /\ newLast = route' /\ now = time /\ store = sessions
  OBVIOUS
<1>12. /\ w.score = NoScore => newStore = store /\ newLast = last
       /\ w.score # NoScore => /\ newStore = AfterPut(store, "ours", RouteOf(w, c.turns), now, SESSION_ITEMS)
                               /\ newLast = {RouteOf(w, c.turns)}
  BY <1>1, <1>3, <1>8, <1>9, <1>11 DEF Moved, Saved, RouteOf
<1>13. now \in Nat
  <2>1. LastTime \in Nat
    BY RoutingAssumption
  <2> QED BY <1>4, <1>11, <2>1
<1>14. w.score # NoScore /\ c.line.score # NoScore => w.score >= Fallen(c.line.score, c.turns - c.line.turns)
  <2> SUFFICES ASSUME w.score # NoScore, c.line.score # NoScore
               PROVE  w.score >= Fallen(c.line.score, c.turns - c.line.turns)
    OBVIOUS
  <2>1. last = {RouteOf(old, c.turns)}
    BY <1>4, <1>9
  <2> DEFINE r == RouteOf(old, c.turns)
  <2>2. r.score = w.score /\ r \in last
    BY <1>9, <2>1, RouteOfFields
  <2>3. c.turns \in Nat /\ c.turns <= c.turns
    BY <1>4, ChatFields DEF History
  <2> HIDE DEF r
  <2> QED BY <1>4, <2>2, <2>3, LastFollowsLine
<1>15. Remembers(store, last) /\ w.served \in Models
  BY <1>4, <1>7, <1>9, <1>11
<1>16. /\ Remembers(newStore, newLast) /\ History(newLast, c)
       /\ w.score # NoScore => newLast = {RouteOf(w, c.turns)}
  BY ONLY <1>4, <1>10, <1>12, <1>13, <1>14, <1>15, SavedKeeps
<1>17. Serviced(w, newLast, c, cap)
  BY <1>4, <1>5, <1>7, <1>9, <1>10, <1>16 DEF Serviced
<1>18. RoutingInv'
  BY <1>1, <1>3, <1>4, <1>11, <1>16, <1>17 DEF RoutingInv
<1>19. ~Routed
  BY <1>1 DEF Routed
<1> QED BY <1>18, <1>19, OnlyRoutingMatters

LEMMA NoWorkFields ==
    /\ NoWork \in Work /\ NoWork.pc = "idle"
    /\ \A last, c, cap : Serviced(NoWork, last, c, cap)
<1>1. NoWork.pc = "idle"
  BY DEF NoWork
<1>2. NoEffort \in Efforts /\ <<>> \in Seq(Models)
  BY DEF Efforts
<1>3. NoWork \in Work
  BY <1>2 DEF NoWork, Work
<1> QED BY <1>1, <1>3 DEF Serviced

LEMMA ReplyKeeps ==
    ASSUME RoutingInv, Reply
    PROVE  RoutingInv' /\ StepHeld
<1>1. /\ work.pc = "serving" /\ time' = time /\ sessions' = sessions /\ maxModel' = maxModel /\ work' = NoWork
      /\ route' = IF work.score = NoScore THEN route
                  ELSE {[model |-> work.served, score |-> work.score, effort |-> work.effort, turns |-> chat.turns]}
  BY DEF Reply
<1>2. PICK loop \in BOOLEAN :
         chat' = [chat EXCEPT !.loop = loop,
                    !.line = IF work.tool \/ work.score = NoScore THEN @
                             ELSE [score |-> work.score, turns |-> chat.turns]]
  BY Zenon DEF Reply
<1>3. PICK c, d, last, w : c = chat /\ d = chat' /\ last = route /\ w = work
  OBVIOUS
<1>4. /\ Remembers(sessions, last) /\ History(last, c)
      /\ w \in Work /\ c.turns >= 1 /\ w.served \in Models
      /\ w.score # NoScore => last = {RouteOf(w, c.turns)}
  BY <1>1, <1>3 DEF RoutingInv, Serviced
<1>5. route' = last
  BY <1>1, <1>3, <1>4 DEF RouteOf
<1>6. PICK line : line = IF w.tool \/ w.score = NoScore THEN c.line ELSE [score |-> w.score, turns |-> c.turns]
  OBVIOUS
<1>7. d = [c EXCEPT !.loop = loop, !.line = line]
  BY <1>2, <1>3, <1>6
<1>8. /\ c \in Chat /\ c.turns \in Nat /\ c.turns \in 0..MaxTurns
      /\ c.line \in [score : Scores \cup {NoScore}, turns : 0..MaxTurns]
      /\ c.line.turns \in Nat /\ c.line.turns <= c.turns
  BY <1>4, ChatFields DEF History, Chat
<1>9. /\ line \in [score : Scores \cup {NoScore}, turns : 0..MaxTurns]
      /\ line = c.line \/ (w.score # NoScore /\ line.score = w.score /\ line.turns = c.turns)
  <2>1. w.score \in Scores \cup {NoScore}
    BY <1>4 DEF Work
  <2> QED BY <1>6, <1>8, <2>1
<1>10. d \in Chat /\ d.turns = c.turns /\ d.line = line
  BY ONLY <1>7, <1>8, <1>9 DEF Chat
<1>11. \A r \in last : Follows(r, d.line, d.turns)
  <2>1. CASE line = c.line
    BY <1>4, <1>10, <2>1 DEF History
  <2>2. CASE line # c.line
    <3> DEFINE r == RouteOf(w, c.turns)
    <3>1. last = {r} /\ r.score = w.score /\ r.turns = c.turns /\ line.score = w.score /\ line.turns = c.turns
      BY <1>4, <1>9, <2>2, RouteOfFields
    <3>2. w.score \in Int
      BY <1>4 DEF Work, Scores, NoScore, MIN_SCORE, MAX_SCORE
    <3> HIDE DEF r
    <3>3. c.turns - c.turns = 0
      BY <1>8
    <3>5. Fallen(w.score, 0) = w.score
      BY <3>2, FallenOrder
    <3>4. Follows(r, line, c.turns)
      BY <1>8, <3>1, <3>2, <3>3, <3>5 DEF Follows
    <3> QED BY <1>10, <3>1, <3>4
  <2> QED BY <2>1, <2>2
<1>12. History(last, d)
  BY <1>4, <1>8, <1>9, <1>10, <1>11 DEF History
<1>13. RoutingInv'
  BY <1>1, <1>3, <1>4, <1>5, <1>12, NoWorkFields DEF RoutingInv
<1>14. ~Routed
  BY <1>1 DEF Routed
<1> QED BY <1>13, <1>14, OnlyRoutingMatters

LEMMA FailKeeps ==
    ASSUME RoutingInv, Fail
    PROVE  RoutingInv' /\ StepHeld
<1>1. /\ work.pc = "serving" /\ time' = time /\ sessions' = sessions /\ maxModel' = maxModel
      /\ route' = route /\ work' = NoWork /\ chat' = [chat EXCEPT !.loop = FALSE]
  BY DEF Fail
<1>2. PICK c, d, last : c = chat /\ d = chat' /\ last = route
  OBVIOUS
<1>3. History(last, c) /\ c \in Chat
  BY <1>2 DEF RoutingInv, History
<1>4. d = [c EXCEPT !.loop = FALSE]
  BY <1>1, <1>2
<1>5. d \in Chat /\ d.turns = c.turns /\ d.line = c.line /\ ~d.loop
  BY ONLY <1>3, <1>4 DEF Chat
<1>6. c.turns <= d.turns
  BY <1>3, <1>5, ChatFields
<1>7. History(last, d)
  BY <1>3, <1>5, <1>6, HistoryAdvances
<1>8. RoutingInv'
  BY <1>1, <1>2, <1>7, NoWorkFields DEF RoutingInv
<1>9. ~Routed
  BY <1>1 DEF Routed
<1> QED BY <1>8, <1>9, OnlyRoutingMatters

LEMMA ElsewhereKeeps ==
    ASSUME RoutingInv, Elsewhere
    PROVE  RoutingInv' /\ StepHeld
<1>1. UNCHANGED <<time, maxModel, chat, work, route>>
  BY DEF Elsewhere
<1>2. PICK model \in Down : sessions' = AfterPut(sessions, "theirs",
            [model |-> model, score |-> MAX_SCORE, effort |-> NoEffort, turns |-> 1], time, SESSION_ITEMS)
  BY Zenon DEF Elsewhere
<1>3. PICK s, now, key, store, new : /\ s = [model |-> model, score |-> MAX_SCORE, effort |-> NoEffort, turns |-> 1]
                                     /\ now = time /\ key = "theirs" /\ store = sessions /\ new = sessions'
  OBVIOUS
<1>4. LastTime \in Nat /\ SESSION_ITEMS \in Nat \ {0} /\ MaxTurns \in Nat \ {0} /\ model \in Models
  BY RoutingAssumption
<1>5. s \in Session
  <2>1. MAX_SCORE \in Scores /\ NoEffort \in Efforts /\ 1 \in 1..MaxTurns
    BY <1>4 DEF Scores, MIN_SCORE, MAX_SCORE, Efforts
  <2> QED BY <1>3, <1>4, <2>1 DEF Session
<1>6. now \in Nat /\ Remembers(store, route)
  BY <1>3, <1>4 DEF RoutingInv
<1>7. Entry(key, s, now) \in Stored /\ Entry(key, s, now).key = key /\ key # "ours"
  BY <1>3, <1>5, <1>6 DEF Entry, Stored
<1>8. store \in Seq(Stored) /\ OnePerKey(store) /\ Len(store) <= SESSION_ITEMS
  BY <1>6 DEF Remembers
<1> DEFINE put == AfterPut(store, key, s, now, SESSION_ITEMS)
<1>9. /\ put \in Seq(Stored) /\ OnePerKey(put) /\ Len(put) <= SESSION_ITEMS
      /\ \A e \in Entries(put) : \/ e = Entry(key, s, now)
                                 \/ e \in Entries(store) /\ e.key # key
  BY <1>4, <1>7, <1>8, PutEntries
<1>10. new = put
  BY <1>2, <1>3
<1> HIDE DEF put
<1>11. Remembers(new, route)
  BY <1>6, <1>7, <1>9, <1>10 DEF Remembers
<1>12. RoutingInv'
  BY <1>1, <1>3, <1>11 DEF RoutingInv
<1>13. ~Routed
  BY <1>1 DEF Routed
<1> QED BY <1>12, <1>13, OnlyRoutingMatters

LEMMA TickKeeps ==
    ASSUME RoutingInv, Tick
    PROVE  RoutingInv' /\ StepHeld
<1>1. UNCHANGED <<sessions, maxModel, chat, work, route>> /\ time' = time + 1 /\ time < LastTime
  BY DEF Tick
<1>2. time' \in 0..LastTime
  <2>1. LastTime \in Nat
    BY RoutingAssumption
  <2> QED BY <1>1, <2>1 DEF RoutingInv
<1>3. RoutingInv'
  BY <1>1, <1>2 DEF RoutingInv
<1>4. ~Routed
  BY <1>1 DEF Routed
<1> QED BY <1>3, <1>4, OnlyRoutingMatters

LEMMA RoutingInitInv ==
    ASSUME RoutingInit
    PROVE  RoutingInv
<1>1. /\ time = 0 /\ sessions = <<>> /\ maxModel = NoModel /\ work = NoWork /\ route = {}
      /\ chat = [turns |-> 0, steps |-> 0, loop |-> FALSE, line |-> [score |-> NoScore, turns |-> 0]]
  BY DEF RoutingInit
<1>2. LastTime \in Nat /\ SESSION_ITEMS \in Nat /\ MaxTurns \in Nat /\ MaxSteps \in Nat
  BY RoutingAssumption
<1>3. Remembers(sessions, route)
  <2>1. sessions \in Seq(Stored) /\ Len(sessions) = 0 /\ DOMAIN sessions = {}
    BY <1>1
  <2>2. Entries(sessions) = {} /\ OnePerKey(sessions)
    BY <2>1 DEF Entries, OnePerKey
  <2> QED BY <1>2, <2>1, <2>2 DEF Remembers
<1>4. History(route, chat)
  <2>1. chat \in Chat
    BY <1>1, <1>2 DEF Chat
  <2> QED BY <1>1, <2>1 DEF History
<1> QED BY <1>1, <1>2, <1>3, <1>4, NoWorkFields DEF RoutingInv

LEMMA RoutingStepKeeps ==
    ASSUME RoutingInv, [RoutingNext]_routingVars
    PROVE  RoutingInv' /\ [StepHeld]_routingVars
<1>1. CASE \E tool \in BOOLEAN : Arrive(tool)
  BY <1>1, ArriveKeeps
<1>2. CASE Decide
  BY <1>2, DecideKeeps
<1>3. CASE FailOver
  BY <1>3, FailOverKeeps
<1>4. CASE Reply
  BY <1>4, ReplyKeeps
<1>5. CASE Fail
  BY <1>5, FailKeeps
<1>6. CASE Elsewhere
  BY <1>6, ElsewhereKeeps
<1>7. CASE Tick
  BY <1>7, TickKeeps
<1>8. CASE UNCHANGED routingVars
  <2>1. UNCHANGED <<time, sessions, maxModel, chat, work, route>>
    BY <1>8 DEF routingVars
  <2> QED BY <1>8, <2>1 DEF RoutingInv
<1> QED BY <1>1, <1>2, <1>3, <1>4, <1>5, <1>6, <1>7, <1>8 DEF RoutingNext

LEMMA RoutingInvariance == RoutingSpec => []RoutingInv
<1>1. RoutingInit => RoutingInv
  BY RoutingInitInv
<1>2. RoutingInv /\ [RoutingNext]_routingVars => RoutingInv'
  BY RoutingStepKeeps
<1> QED BY <1>1, <1>2, PTL DEF RoutingSpec

\* The types of what the invariant says of the conversation.
LEMMA RoutingTypes == RoutingInv => RoutingTypeOK
<1> SUFFICES ASSUME RoutingInv PROVE RoutingTypeOK
  OBVIOUS
<1>1. /\ time \in 0..LastTime /\ maxModel \in CapsSent \cup {NoModel} /\ Remembers(sessions, route)
      /\ chat \in Chat /\ route \subseteq Session /\ work \in Work
  BY DEF RoutingInv, History, Serviced
<1>2. StoreOK(sessions, SESSION_ITEMS)
  BY <1>1 DEF Remembers, StoreOK, OnePerKey
<1>3. \A i \in DOMAIN sessions : sessions[i].value \in Session
  <2>1. sessions \in Seq(Stored)
    BY <1>1 DEF Remembers
  <2>2. \A i \in DOMAIN sessions : sessions[i] \in Stored
    BY <2>1
  <2> QED BY <2>2 DEF Stored
<1>4. /\ work.pc \in {"idle", "scoring", "serving"}
      /\ work.score \in Scores \cup {NoScore} /\ work.effort \in Efforts
  BY <1>1 DEF Work
<1>5. ToSet(work.rest) \subseteq Models
  <2>1. work.rest \in Seq(Models)
    BY <1>1 DEF Work
  <2> QED BY <2>1 DEF ToSet
<1> QED BY <1>1, <1>2, <1>3, <1>4, <1>5 DEF RoutingTypeOK

\* The types of the conversation, and of the store: it is never over its limit and
\* has one entry for a key at most, whatever other chats do to it.
THEOREM RoutingTypesKept == RoutingSpec => []RoutingTypeOK
BY RoutingTypes, RoutingInvariance, PTL

\* select_model, _cache_aware, next_auto_access: a request that is routed on its score
\* is never offered to, served by or failed over to a model above its cap, for any
\* table of tiers and any cap that changes from one request to the next.
THEOREM ScoredAlwaysWithinCap == RoutingSpec => []ScoredWithinCap
<1>1. RoutingInv => ScoredWithinCap
  BY DEF RoutingInv, Serviced, ScoredWithinCap, Within, WithinTop
<1> QED BY <1>1, RoutingInvariance, PTL

\* _pinned, save_route: a step of a tool loop that finds its chat remembered is offered
\* to the model that served the last scored request, at its effort, also after a
\* failover and after any evictions and expiries of the store.
THEOREM LoopAlwaysStaysPut == RoutingSpec => LoopStaysPut
<1>1. RoutingInv /\ [RoutingNext]_routingVars =>
        [Remembered /\ work'.tool =>
            \A last \in route : work'.model = last.model /\ work'.effort = last.effort]_routingVars
  BY RoutingStepKeeps DEF StepHeld, RouteKept
<1> QED BY <1>1, RoutingInvariance, PTL DEF RoutingSpec, LoopStaysPut

\* context_floors, _sticky_floor: from one turn to the next the score falls by
\* max_drop_per_turn at most, from the session or from the route line, for any verdicts
\* of the scorer (none too), other floors, lifetimes and failovers.
THEOREM ScoreAlwaysFallsSlowly == RoutingSpec => ScoreFallsSlowly
<1>1. RoutingInv /\ [RoutingNext]_routingVars =>
        [LET allowed(from) == from.score - MAX_DROP * (chat'.turns - from.turns) IN
         /\ Routed /\ chat.line.score # NoScore => work'.score >= allowed(chat.line)
         /\ Remembered => \A last \in route : work'.score >= allowed(last)]_routingVars
  BY RoutingStepKeeps DEF StepHeld, ScoreHeld, Fallen
<1> QED BY <1>1, RoutingInvariance, PTL DEF RoutingSpec, ScoreFallsSlowly

\* _cache_aware, max_effort: on the same Claude model the effort of a remembered chat
\* never drops. A request whose score cannot be used gets the fallback model without an
\* effort, so that one must not be a Claude model; in config.yaml it is not.
THEOREM ClaudeEffortAlwaysKept ==
    ASSUME FallbackModel \notin Claude
    PROVE  RoutingSpec => ClaudeEffortKept
<1>1. RoutingInv /\ [RoutingNext]_routingVars =>
        [Remembered =>
            \A last \in route :
                last.model \in Claude /\ work'.model = last.model =>
                    EffortRank(work'.effort) >= EffortRank(last.effort)]_routingVars
  BY RoutingStepKeeps DEF StepHeld, EffortHeld
<1> QED BY <1>1, RoutingInvariance, PTL DEF RoutingSpec, ClaudeEffortKept

-----------------------------------------------------------------------------
(* Types. *)

\* MCRouting: the types of all four parts, of which one runs and the others rest.
THEOREM AutoTypesKept == MCSpec => []AutoTypeOK
<1> DEFINE J == ScorerInv /\ VerifierInv /\ PreferencesInv /\ RoutingInv
<1>1. MCInit => J
  BY ScorerStarts, VerifierStarts, InitEstablishes, RoutingInitInv DEF MCInit
<1>2. J /\ [MCNext]_allVars => J'
  <2> SUFFICES ASSUME J, [MCNext]_allVars PROVE J'
    OBVIOUS
  <2>1. /\ [ScorerNext]_scorerVars /\ [VerifierNext]_verifierVars
        /\ [PreferencesNext]_preferenceVars /\ [RoutingNext]_routingVars
    BY DEF MCNext, allVars
  <2>2. ScorerInv'
    BY <2>1, ScorerStepKeeps
  <2>3. VerifierInv'
    BY <2>1, VerifierStepKeeps
  <2>4. PreferencesInv'
    BY <2>1, StepKeeps
  <2>5. RoutingInv'
    BY <2>1, RoutingStepKeeps
  <2> QED BY <2>2, <2>3, <2>4, <2>5
<1>3. J => AutoTypeOK
  <2>1. ScorerInv => ScorerTypeOK
    BY DEF ScorerInv, ScorerTypeOK
  <2>2. VerifierInv => VerifierTypeOK
    BY DEF VerifierInv, VerdictsBacked, OnePerKey, StoreOK, ScoreCheck, Answer, VerifierTypeOK
  <2>3. PreferencesInv => PreferencesTypeOK
    BY DEF PreferencesInv
  <2> QED BY <2>1, <2>2, <2>3, RoutingTypes DEF AutoTypeOK
<1> QED BY <1>1, <1>2, <1>3, PTL DEF MCSpec
=============================================================================
