---------------------------- MODULE ProvidersProofs ----------------------------
(***************************************************************************)
(* What a call of a provider needs and what becomes of it: the rate it is  *)
(* priced at, our key for it, the request and its retries.                 *)
(*                                                                         *)
(* RateCache: PricedFresh, for any number of turns, any lifetimes and any  *)
(* uptime at which the process may start.  As long as no fetch has failed, *)
(* the two times of the cache say the same, and the rate is not older than *)
(* they say (CacheInStep): a turn that answers from the cache may look at  *)
(* either of them.                                                         *)
(*                                                                         *)
(* Access: OurKeyInOrder, for any providers, models, chain of candidates,  *)
(* requests and lifetime of a cached secret.  A replaced key lives on in   *)
(* two places: the cache, until its entry expires (CacheInOrder), and a    *)
(* request that has it in hand while its score is found, or was answered   *)
(* with it (HandInOrder).  Both bounds are on when the key was got; a      *)
(* later replacement cannot break them.                                    *)
(*                                                                         *)
(* Transport: RepeatedOnlyIfSafe, and that a call with its retries and its *)
(* two endpoints implements ProviderCall, for any number of retries,       *)
(* answers of any length and all ways to fail.  What is given to the       *)
(* caller is of the answer that is under way (OneAnswer), since a call     *)
(* that has given something is not repeated; and of the failures that were *)
(* followed by another request each was safe (SafeSoFar).                  *)
(*                                                                         *)
(* ProviderRequest: PrefixIsStable and NothingRefusedIsSent, for chats of  *)
(* any length and any answers of the stash.  The turns of a chat are a     *)
(* recursive function of what is read of its messages, so that first this  *)
(* function is shown to exist and to depend only on the messages it has    *)
(* seen (StepsExist, StepsAgree).  Then a message leaves all turns but the *)
(* last one alone, which keeps its role and its calls (JoinedKeeps), and   *)
(* so do all that follow it (BeginningKept); neighbouring turns have       *)
(* different roles (Alternates), which is why dropping one bare reply at   *)
(* the end is enough (PrefillGoes).                                        *)
(*                                                                         *)
(* The types of all that MCProviders puts together follow from the         *)
(* invariants of its parts, those of Claude in ClaudeProofs among them     *)
(* (ProvidersTypesKept).                                                   *)
(***************************************************************************)
EXTENDS MCProviders, ClaudeProofs

-----------------------------------------------------------------------------
(* The exchange rate. *)

\* No call began in the future.
BeganBefore == \A t \in Turns : call[t].began <= uptime

\* Both times stem from the same fetch, and the quote is no older than it; or
\* there has not been any.
CacheInStep ==
    ~fetchFailed =>
        IF cached = NoQuote THEN fetchedAt = 0 /\ nextAttempt = 0
        ELSE nextAttempt = fetchedAt + TTL /\ fetchedAt <= cached

RateInv == RateTypeOK /\ BeganBefore /\ CacheInStep /\ PricedFresh

-----------------------------------------------------------------------------
LEMMA RateBegins == RateInit => RateInv
<1> SUFFICES ASSUME RateInit PROVE RateInv
  OBVIOUS
<1> USE RateCacheAssumption DEF RateInit
<1>1. uptime \in 0..RateHorizon
  OBVIOUS
<1>2. \A t \in Turns : call[t] = [pc |-> "idle", began |-> 0, provider |-> 1, rate |-> NoQuote]
  OBVIOUS
<1>3. [pc |-> "idle", began |-> 0, provider |-> 1, rate |-> NoQuote] \in CallState
  BY <1>1 DEF CallState
<1>4. RateTypeOK
  <2>1. call \in [Turns -> CallState]
    BY <1>3, Zenon
  <2>2. cached \in {NoQuote} \cup (0..uptime) /\ fetchFailed \in BOOLEAN
    OBVIOUS
  <2>3. fetchedAt \in 0..uptime /\ nextAttempt \in 0..(uptime + TTL)
    BY <1>1
  <2> QED BY <1>1, <2>1, <2>2, <2>3 DEF RateTypeOK
<1>5. BeganBefore /\ PricedFresh
  BY <1>1, <1>2 DEF BeganBefore, PricedFresh
<1>6. CacheInStep
  BY DEF CacheInStep
<1> QED BY <1>4, <1>5, <1>6 DEF RateInv

\* A call that answers from the cache gets a rate that is fresh.
LEMMA CacheIsFresh ==
    ASSUME RateInv, ~fetchFailed, Fresh
    PROVE  IF cached = NoQuote THEN uptime < TTL ELSE uptime - cached < TTL
BY RateCacheAssumption DEF RateInv, RateTypeOK, CacheInStep, Fresh, NoQuote

LEMMA AskKeeps ==
    ASSUME RateInv, NEW t \in Turns, AskRate(t)
    PROVE  RateInv'
<1> USE RateCacheAssumption
<1>1. /\ call'[t].began = uptime /\ call'[t].rate = cached
      /\ call' \in [Turns -> CallState]
      /\ \A u \in Turns \ {t} : call'[u] = call[u]
  <2> DEFINE new == [call[t] EXCEPT !.pc = IF Fresh THEN "done" ELSE "fetching",
                                    !.began = uptime, !.rate = cached]
  <2>1. call' = [call EXCEPT ![t] = new]
    BY DEF AskRate
  <2>2. call[t] \in CallState /\ uptime \in 0..RateHorizon
        /\ cached \in {NoQuote} \cup (0..RateHorizon)
    BY DEF RateInv, RateTypeOK
  <2>3. new \in CallState /\ new.began = uptime /\ new.rate = cached
    BY <2>2 DEF CallState
  <2> HIDE DEF new
  <2> QED BY <2>1, <2>3 DEF RateInv, RateTypeOK
<1>2. call'[t].pc = "done" => Fresh
  BY DEF RateInv, RateTypeOK, AskRate, CallState
<1>3. RateTypeOK'
  BY <1>1 DEF RateInv, RateTypeOK, AskRate
<1>4. BeganBefore' /\ CacheInStep'
  BY <1>1 DEF RateInv, RateTypeOK, BeganBefore, CacheInStep, AskRate
<1>5. PricedFresh'
  <2> SUFFICES ASSUME NEW u \in Turns, call'[u].pc = "done", ~fetchFailed'
               PROVE  IF call'[u].rate = NoQuote THEN call'[u].began < TTL
                      ELSE call'[u].began - call'[u].rate < TTL
    BY DEF PricedFresh
  <2>1. CASE u = t
    BY <2>1, <1>1, <1>2, CacheIsFresh DEF AskRate
  <2>2. CASE u # t
    BY <2>2, <1>1 DEF RateInv, PricedFresh, AskRate
  <2> QED BY <2>1, <2>2
<1> QED BY <1>3, <1>4, <1>5 DEF RateInv

LEMMA EndKeeps ==
    ASSUME RateInv, NEW t \in Turns, call[t].pc = "fetching",
           NEW ok \in BOOLEAN, NEW quote, EndFetch(t, ok, quote),
           ok => quote \in call[t].began..uptime
    PROVE  RateInv'
<1> USE RateCacheAssumption
<1>1. /\ uptime \in 0..RateHorizon /\ call[t] \in CallState /\ call[t].began <= uptime
      /\ cached \in {NoQuote} \cup (0..uptime)
  BY DEF RateInv, RateTypeOK, BeganBefore
<1>2. cached' \in {NoQuote} \cup (0..uptime)
  BY <1>1 DEF EndFetch, CallState
<1>3. /\ call' \in [Turns -> CallState]
      /\ call'[t].pc = "done" /\ call'[t].rate = cached' /\ call'[t].began = call[t].began
      /\ \A u \in Turns \ {t} : call'[u] = call[u]
  <2> DEFINE new == [call[t] EXCEPT !.pc = "done", !.rate = cached']
  <2>1. call' = [call EXCEPT ![t] = new]
    BY DEF EndFetch
  <2>2. cached' \in {NoQuote} \cup (0..RateHorizon)
    BY <1>1, <1>2
  <2>3. new \in CallState /\ new.pc = "done" /\ new.rate = cached' /\ new.began = call[t].began
    BY <1>1, <2>2 DEF CallState
  <2> HIDE DEF new
  <2> QED BY <2>1, <2>3 DEF RateInv, RateTypeOK
<1>4. RateTypeOK'
  BY <1>1, <1>2, <1>3 DEF RateInv, RateTypeOK, EndFetch, CallState
<1>5. BeganBefore'
  BY <1>1, <1>3 DEF RateInv, BeganBefore, EndFetch
<1>6. ASSUME ~fetchFailed'
      PROVE  /\ ok /\ ~fetchFailed /\ cached' = quote /\ quote # NoQuote
             /\ fetchedAt' = call[t].began /\ nextAttempt' = call[t].began + TTL
             /\ quote \in Int /\ call[t].began \in Int /\ call[t].began <= quote
  <2>1. ok /\ ~fetchFailed
    BY <1>6, Zenon DEF EndFetch
  <2>2. cached' = quote /\ fetchedAt' = call[t].began /\ nextAttempt' = call[t].began + TTL
    BY <2>1 DEF EndFetch
  <2>3. call[t].began \in Nat /\ quote \in Int /\ call[t].began <= quote
    BY <1>1, <2>1 DEF CallState
  <2> QED BY <2>1, <2>2, <2>3 DEF NoQuote
<1>7. CacheInStep'
  BY <1>6 DEF CacheInStep
<1>8. PricedFresh'
  <2> SUFFICES ASSUME NEW u \in Turns, call'[u].pc = "done", ~fetchFailed'
               PROVE  IF call'[u].rate = NoQuote THEN call'[u].began < TTL
                      ELSE call'[u].began - call'[u].rate < TTL
    BY DEF PricedFresh
  <2>1. CASE u = t
    BY <2>1, <1>3, <1>6
  <2>2. CASE u # t
    BY <2>2, <1>3, <1>6 DEF RateInv, PricedFresh
  <2> QED BY <2>1, <2>2
<1> QED BY <1>4, <1>5, <1>7, <1>8 DEF RateInv

LEMMA NextProviderKeeps ==
    ASSUME RateInv, NEW t \in Turns, call[t].pc = "fetching", call[t].provider < Providers,
           call' = [call EXCEPT ![t].provider = @ + 1],
           UNCHANGED <<uptime, cached, fetchedAt, nextAttempt, fetchFailed>>
    PROVE  RateInv'
<1> USE RateCacheAssumption
<1>1. /\ call' \in [Turns -> CallState]
      /\ \A u \in Turns : /\ call'[u].pc = call[u].pc /\ call'[u].began = call[u].began
                          /\ call'[u].rate = call[u].rate
  BY DEF RateInv, RateTypeOK, CallState
<1> QED BY <1>1 DEF RateInv, RateTypeOK, BeganBefore, CacheInStep, PricedFresh

LEMMA RateTickKeeps == RateInv /\ RateTick => RateInv'
BY RateCacheAssumption
   DEF RateInv, RateTypeOK, BeganBefore, CacheInStep, PricedFresh, RateTick, CallState, NoQuote

LEMMA RateKeeps == RateInv /\ [RateNext]_rateVars => RateInv'
<1> SUFFICES ASSUME RateInv, [RateNext]_rateVars PROVE RateInv'
  OBVIOUS
<1>1. ASSUME NEW t \in Turns, AskRate(t) PROVE RateInv'
  BY <1>1, AskKeeps
<1>2. ASSUME NEW t \in Turns, Quoted(t) PROVE RateInv'
  <2> PICK quote \in call[t].began..uptime : EndFetch(t, TRUE, quote)
    BY <1>2 DEF Quoted
  <2> QED BY <1>2, EndKeeps DEF Quoted
<1>3. ASSUME NEW t \in Turns, Unquoted(t) PROVE RateInv'
  <2>1. CASE EndFetch(t, FALSE, NoQuote)
    BY <2>1, <1>3, EndKeeps DEF Unquoted
  <2>2. CASE ~EndFetch(t, FALSE, NoQuote)
    BY <2>2, <1>3, NextProviderKeeps DEF Unquoted
  <2> QED BY <2>1, <2>2
<1>4. CASE RateTick
  BY <1>4, RateTickKeeps
<1>5. CASE UNCHANGED rateVars
  BY <1>5 DEF rateVars, RateInv, RateTypeOK, BeganBefore, CacheInStep, PricedFresh
<1> QED BY <1>1, <1>2, <1>3, <1>4, <1>5 DEF RateNext

LEMMA RateInvariance == RateSpec => []RateInv
BY RateBegins, RateKeeps, PTL DEF RateSpec

\* get_inr_rate: until a fetch fails, no turn is priced at an old quote, nor at
\* the fallback rate once the machine has been up for the lifetime of a rate,
\* however many turns fetch at once and in whatever order they end.
THEOREM AlwaysPricedFresh == RateSpec => []PricedFresh
<1>1. RateInv => PricedFresh
  BY DEF RateInv
<1> QED BY <1>1, RateInvariance, PTL

\* The types of the cache: no time is in the future, save that of the next attempt.
THEOREM RateTypesKept == RateSpec => []RateTypeOK
<1>1. RateInv => RateTypeOK
  BY DEF RateInv
<1> QED BY <1>1, RateInvariance, PTL

-----------------------------------------------------------------------------
(* Our secrets. *)

\* A secret that is cached as the old one expires at most SECRET_TTL after it was
\* read, and so at most SECRET_TTL after it was replaced.
CacheInOrder ==
    \A p \in Provider :
        /\ replaced[p] # Never => replaced[p] <= clock
        /\ secrets[p].key = "old" =>
              /\ secrets[p].expires <= clock + SECRET_TTL
              /\ secrets[p].expires <= replaced[p] + SECRET_TTL

\* A key of ours that is got now for p is not one that was replaced too long ago.
Usable(key, p, at) == key = "old" => at < replaced[p] + SECRET_TTL

\* What a request may have in hand, by where it is.
InOrder(h) ==
    /\ h.at <= clock
    /\ h.status = 200 => h.pc = "done"
    /\ h.pc = "verifying" => h.key = "misterpilot" /\ h.model \in AutoNames \cup (Priced \cap Models)
    /\ h.pc = "scoring" =>
          /\ h.key = "misterpilot" /\ h.verdict = "valid"
          /\ h.upstream \in Ours /\ Usable(h.upstream, DeepSeek, h.at)
    /\ h.status = 200 /\ h.upstream \in Ours =>
          /\ h.key = "misterpilot" /\ h.verdict = "valid"
          /\ h.served \in Priced \cap Models /\ Usable(h.upstream, Catalogue[h.served], h.at)

HandInOrder == \A r \in Requests : InOrder(req[r])

AccessInv == AccessTypeOK /\ CacheInOrder /\ HandInOrder

-----------------------------------------------------------------------------
LEMMA AccessBegins == AccessInit => AccessInv
<1> SUFFICES ASSUME AccessInit PROVE AccessInv
  OBVIOUS
<1> USE AccessAssumption
<1>1. PICK key \in [Requests -> Key], model \in [Requests -> Models \cup AutoNames \cup Unsupported] :
         req = [r \in Requests |->
                  [pc |-> "new", key |-> key[r], model |-> model[r], served |-> "none",
                   upstream |-> "none", at |-> 0, status |-> 0, verdict |-> "none"]]
  BY Zenon DEF AccessInit
<1>2. clock = 0 /\ \A p \in Provider : replaced[p] = Never /\ secrets[p] = [key |-> "none", expires |-> 0]
  BY DEF AccessInit
<1>3. ASSUME NEW r \in Requests
      PROVE  req[r] \in Handler /\ InOrder(req[r])
  <2> DEFINE h == [pc |-> "new", key |-> key[r], model |-> model[r], served |-> "none",
                   upstream |-> "none", at |-> 0, status |-> 0, verdict |-> "none"]
  <2>1. req[r] = h
    BY <1>1
  <2>2. h \in Handler
    <3>1. key[r] \in Key /\ model[r] \in Models \cup AutoNames \cup Unsupported /\ 0 \in 0..Horizon
      BY <1>1
    <3> QED BY <3>1 DEF Handler, Status
  <2>3. InOrder(h)
    BY <1>2 DEF InOrder, Ours
  <2> QED BY <2>1, <2>2, <2>3
<1>4. AccessTypeOK
  <2>1. req \in [Requests -> Handler]
    BY <1>1, <1>3
  <2>2. secrets \in [Provider -> [key : Ours \cup {"none"}, expires : 0..(Horizon + SECRET_TTL)]]
    BY DEF AccessInit
  <2>3. replaced \in [Provider -> 0..Never] /\ clock \in 0..Horizon
    BY DEF AccessInit, Never
  <2> QED BY <2>1, <2>2, <2>3 DEF AccessTypeOK
<1>5. CacheInOrder
  BY <1>2 DEF CacheInOrder
<1> QED BY <1>3, <1>4, <1>5 DEF AccessInv, HandInOrder

-----------------------------------------------------------------------------
(* Keys.                                                                   *)

\* get_server_key hands out no key that was replaced SECRET_TTL ago.
LEMMA ServerKeyUsable ==
    ASSUME AccessInv, NEW p \in Provider, NEW aws \in [Provider -> Aws]
    PROVE  /\ ServerKey(p, aws) \in Ours \cup {"none", "raised"}
           /\ Usable(ServerKey(p, aws), p, clock)
<1> USE AccessAssumption
<1>1. /\ clock \in 0..Horizon /\ replaced[p] \in 0..Never
      /\ secrets[p] \in [key : Ours \cup {"none"}, expires : 0..(Horizon + SECRET_TTL)]
      /\ secrets[p].key = "old" => secrets[p].expires <= replaced[p] + SECRET_TTL
  BY DEF AccessInv, AccessTypeOK, CacheInOrder
<1>2. CASE Cached(p)
  BY <1>1, <1>2 DEF Cached, ServerKey, Usable
<1>3. CASE ~Cached(p)
  <2>1. aws[p] \in {"answers", "errs", "unreachable"}
    BY DEF Aws
  <2>2. CASE aws[p] = "answers"
    BY <1>1, <1>3, <2>2 DEF ServerKey, CurrentKey, Usable, Ours, Never
  <2>3. CASE aws[p] = "errs"
    BY <1>3, <2>3 DEF ServerKey, Usable
  <2>4. CASE aws[p] = "unreachable"
    BY <1>3, <2>4 DEF ServerKey, Usable
  <2> QED BY <2>1, <2>2, <2>3, <2>4
<1> QED BY <1>2, <1>3

\* The cache stays in order whichever keys were got.
LEMMA FilledKeeps ==
    ASSUME AccessInv, NEW asked, NEW aws, secrets' = Filled(asked, aws), UNCHANGED <<clock, replaced>>
    PROVE  /\ secrets' \in [Provider -> [key : Ours \cup {"none"}, expires : 0..(Horizon + SECRET_TTL)]]
           /\ CacheInOrder'
<1> USE AccessAssumption
<1>1. ASSUME NEW p \in Provider
      PROVE  /\ secrets'[p] \in [key : Ours \cup {"none"}, expires : 0..(Horizon + SECRET_TTL)]
             /\ secrets'[p].key = "old" =>
                  /\ secrets'[p].expires <= clock + SECRET_TTL
                  /\ secrets'[p].expires <= replaced[p] + SECRET_TTL
  <2>1. /\ clock \in 0..Horizon /\ replaced[p] \in 0..Never
        /\ secrets[p] \in [key : Ours \cup {"none"}, expires : 0..(Horizon + SECRET_TTL)]
    BY DEF AccessInv, AccessTypeOK
  <2>2. CASE secrets'[p] = secrets[p]
    BY <2>1, <2>2 DEF AccessInv, CacheInOrder
  <2>3. CASE secrets'[p] = [key |-> CurrentKey(p), expires |-> clock + SECRET_TTL]
    BY <2>1, <2>3 DEF CurrentKey, Ours, Never
  <2> QED BY <2>2, <2>3 DEF Filled
<1>2. secrets' \in [Provider -> [key : Ours \cup {"none"}, expires : 0..(Horizon + SECRET_TTL)]]
  BY <1>1 DEF Filled
<1>3. CacheInOrder'
  BY <1>1 DEF AccessInv, CacheInOrder
<1> QED BY <1>2, <1>3

-----------------------------------------------------------------------------
(* Requests.                                                               *)

\* A step of one request only has to answer for that request.
LEMMA OneRequest ==
    ASSUME AccessInv, NEW r \in Requests, NEW h, req' = [req EXCEPT ![r] = h],
           h \in Handler, InOrder(h), UNCHANGED <<clock, replaced>>,
           \/ UNCHANGED secrets
           \/ \E asked, aws : secrets' = Filled(asked, aws)
    PROVE  AccessInv'
<1>1. /\ secrets' \in [Provider -> [key : Ours \cup {"none"}, expires : 0..(Horizon + SECRET_TTL)]]
      /\ CacheInOrder'
  <2>1. CASE UNCHANGED secrets
    BY <2>1 DEF AccessInv, AccessTypeOK, CacheInOrder
  <2>2. CASE \E asked, aws : secrets' = Filled(asked, aws)
    BY <2>2, FilledKeeps
  <2> QED BY <2>1, <2>2
<1>2. req \in [Requests -> Handler]
  BY DEF AccessInv, AccessTypeOK
<1>3. req' \in [Requests -> Handler] /\ \A q \in Requests : req'[q] = IF q = r THEN h ELSE req[q]
  BY <1>2
<1>4. \A q \in Requests : InOrder(req'[q])
  BY <1>3 DEF AccessInv, HandInOrder
<1>5. HandInOrder'
  BY <1>4 DEF HandInOrder, InOrder, Usable
<1> QED BY <1>1, <1>3, <1>5 DEF AccessInv, AccessTypeOK

LEMMA AnsweredFields ==
    ASSUME NEW h \in Handler, NEW status \in Status
    PROVE  LET g == Answered(h, status) IN
           /\ g \in Handler /\ g.pc = "done" /\ g.status = status
           /\ g.key = h.key /\ g.verdict = h.verdict /\ g.at = h.at /\ g.upstream = h.upstream
<1> DEFINE g == Answered(h, status)
<1>1. g \in Handler
  BY DEF Answered, Handler
<1>2. g.pc = "done" /\ g.status = status /\ g.key = h.key /\ g.verdict = h.verdict
  BY DEF Answered, Handler
<1>3. g.at = h.at /\ g.upstream = h.upstream
  BY DEF Answered, Handler
<1> QED BY <1>1, <1>2, <1>3

\* An error leaves a request that was in order in order.
LEMMA Refused ==
    ASSUME NEW h \in Handler, InOrder(h), NEW status \in Status \ {200}
    PROVE  Answered(h, status) \in Handler /\ InOrder(Answered(h, status))
<1> DEFINE g == Answered(h, status)
<1>1. g \in Handler /\ g.pc = "done" /\ g.status = status /\ g.at = h.at
  BY AnsweredFields
<1> HIDE DEF g
<1>2. InOrder(g)
  BY <1>1 DEF InOrder
<1> QED BY <1>1, <1>2 DEF g

\* A request that is given a key which is in order for it is in order.
LEMMA GivenInOrder ==
    ASSUME NEW m, NEW key, NEW at,
           at <= clock, m \in Models, key \in Ours \cup {"own"},
           NEW g \in Handler, g.pc = "done", g.at = at, g.upstream = key, g.served = m,
           key \in Ours => /\ g.key = "misterpilot" /\ g.verdict = "valid"
                           /\ m \in Priced /\ Usable(key, Catalogue[m], at)
    PROVE  InOrder(g)
BY DEF InOrder

\* A key that a request has or got at this time.
LEMMA OpenedFields ==
    ASSUME NEW h \in Handler, NEW m \in Models, NEW key \in Ours \cup {"own"}
    PROVE  LET g == Opened(h, m, key) IN
           /\ g \in Handler /\ g.pc = "done" /\ g.key = h.key /\ g.verdict = h.verdict
           /\ g.at = h.at /\ g.upstream = key /\ g.served = m
<1> DEFINE f == Answered(h, 200)
<1>1. f \in Handler /\ f.pc = "done" /\ f.key = h.key /\ f.verdict = h.verdict /\ f.at = h.at
  BY AnsweredFields DEF Status
<1>2. Opened(h, m, key) = [f EXCEPT !.served = m, !.upstream = key]
  BY DEF Opened
<1> HIDE DEF f
<1> DEFINE g == [f EXCEPT !.served = m, !.upstream = key]
<1>3. g \in Handler
  BY <1>1 DEF Handler
<1>4. g.pc = f.pc /\ g.key = f.key /\ g.verdict = f.verdict
  BY <1>1 DEF Handler
<1>5. g.at = f.at /\ g.upstream = key /\ g.served = m
  BY <1>1 DEF Handler
<1> QED BY <1>1, <1>2, <1>3, <1>4, <1>5

LEMMA ArriveKeeps == ASSUME AccessInv, NEW r \in Requests, Arrive(r) PROVE AccessInv'
<1> USE AccessAssumption
<1> DEFINE h == req[r]
           refusal == Refusal(h.key, h.model)
           refused == Answered(h, refusal)
           own == Opened(h, h.model, "own")
           asking == [h EXCEPT !.pc = "verifying"]
<1>1. h \in Handler /\ InOrder(h) /\ h.pc = "new" /\ UNCHANGED <<clock, replaced, secrets>>
  BY DEF AccessInv, AccessTypeOK, HandInOrder, Arrive
<1>2. req' = [req EXCEPT ![r] = IF refusal # 0 THEN refused ELSE IF h.key = "byok" THEN own ELSE asking]
  BY DEF Arrive
<1>3. refusal \in {0, 400, 401, 403}
  BY DEF Refusal
<1> HIDE DEF refusal
<1>4. CASE refusal # 0
  <2>1. refused \in Handler /\ InOrder(refused)
    BY <1>1, <1>3, <1>4, Refused DEF Status
  <2> QED BY <1>1, <1>2, <1>4, <2>1, OneRequest
<1>5. CASE refusal = 0 /\ h.key = "byok"
  <2>1. h.model \in Models
    BY <1>1, <1>5 DEF refusal, Refusal, Handler
  <2>4. /\ own \in Handler /\ own.pc = "done" /\ own.at = h.at /\ own.upstream = "own"
        /\ own.served = h.model
    BY <1>1, <2>1, OpenedFields
  <2> HIDE DEF own
  <2>5. h.at <= clock
    BY <1>1 DEF InOrder
  <2>6. InOrder(own)
    BY <2>1, <2>4, <2>5, GivenInOrder DEF Ours
  <2> QED BY <1>1, <1>2, <1>5, <2>4, <2>6, OneRequest
<1>6. CASE refusal = 0 /\ h.key # "byok"
  <2>1. h.key = "misterpilot" /\ h.model \in AutoNames \cup (Priced \cap Models)
    BY <1>1, <1>6 DEF refusal, Refusal, Handler, Key
  <2>2. asking \in Handler /\ InOrder(asking)
    BY <1>1, <2>1 DEF Handler, InOrder
  <2> QED BY <1>1, <1>2, <1>6, <2>2, OneRequest
<1> QED BY <1>4, <1>5, <1>6

LEMMA NotVerifiedKeeps == ASSUME AccessInv, NEW r \in Requests, NotVerified(r) PROVE AccessInv'
<1>1. PICK status \in {401, 500, 503} : req' = [req EXCEPT ![r] = Answered(req[r], status)]
  BY DEF NotVerified
<1>2. req[r] \in Handler /\ InOrder(req[r]) /\ UNCHANGED <<clock, replaced, secrets>>
  BY DEF AccessInv, AccessTypeOK, HandInOrder, NotVerified
<1> DEFINE g == Answered(req[r], status)
<1>3. g \in Handler /\ InOrder(g) /\ req' = [req EXCEPT ![r] = g]
  BY <1>1, <1>2, Refused DEF Status
<1> HIDE DEF g
<1> UNCHANGED <<clock, replaced>> /\ UNCHANGED secrets
  BY <1>2
<1> QED BY <1>3, OneRequest

LEMMA VerifiedKeeps == ASSUME AccessInv, NEW r \in Requests, Verified(r) PROVE AccessInv'
<1> DEFINE h == [req[r] EXCEPT !.verdict = "valid", !.at = clock]
           p == IF h.model \in AutoNames THEN DeepSeek ELSE Catalogue[h.model]
<1>1. PICK aws \in [Provider -> Aws] :
         /\ secrets' = Filled({p}, aws)
         /\ req' = [req EXCEPT ![r] =
              CASE ServerKey(p, aws) = "none"   -> Answered(h, 503)
                [] ServerKey(p, aws) = "raised" -> Answered(h, 500)
                [] OTHER -> IF h.model \in AutoNames
                            THEN [h EXCEPT !.pc = "scoring", !.upstream = ServerKey(p, aws)]
                            ELSE Opened(h, h.model, ServerKey(p, aws))]
  BY DEF Verified
<1>2. /\ req[r] \in Handler /\ InOrder(req[r]) /\ req[r].pc = "verifying" /\ clock \in 0..Horizon
      /\ UNCHANGED <<clock, replaced>>
  BY DEF AccessInv, AccessTypeOK, HandInOrder, Verified
<1>3. /\ h \in Handler /\ h.at = clock /\ h.verdict = "valid" /\ h.key = "misterpilot"
      /\ h.pc = "verifying" /\ h.model \in AutoNames \cup (Priced \cap Models)
      /\ h.status = req[r].status
  BY <1>2 DEF Handler, InOrder
<1>4. h.status # 200 /\ InOrder(h)
  BY <1>2, <1>3 DEF InOrder, Handler
<1>5. p \in Provider
  BY <1>3, AccessAssumption
<1>6. /\ ServerKey(p, aws) \in Ours \cup {"none", "raised"}
      /\ Usable(ServerKey(p, aws), p, clock)
  BY <1>5, ServerKeyUsable
<1> DEFINE key == ServerKey(p, aws)
           scoring == [h EXCEPT !.pc = "scoring", !.upstream = key]
           opened == Opened(h, h.model, key)
<1>7. /\ key \in Ours \cup {"none", "raised"} /\ Usable(key, p, clock)
      /\ req' = [req EXCEPT ![r] = CASE key = "none"   -> Answered(h, 503)
                                      [] key = "raised" -> Answered(h, 500)
                                      [] OTHER -> IF h.model \in AutoNames THEN scoring ELSE opened]
  BY <1>1, <1>6
<1>11. UNCHANGED <<clock, replaced>> /\ \E asked, answers : secrets' = Filled(asked, answers)
  BY <1>1, <1>2
<1> HIDE DEF key, h
<1>8. CASE key \in {"none", "raised"}
  <2> DEFINE missing == Answered(h, 503)
             broken == Answered(h, 500)
  <2>1. missing \in Handler /\ InOrder(missing) /\ broken \in Handler /\ InOrder(broken)
    BY <1>3, <1>4, Refused DEF Status
  <2>2. CASE key = "none"
    <3>1. req' = [req EXCEPT ![r] = missing]
      BY <1>7, <2>2
    <3> HIDE DEF missing
    <3> QED BY <1>11, <2>1, <3>1, OneRequest
  <2>3. CASE key = "raised"
    <3>1. req' = [req EXCEPT ![r] = broken]
      BY <1>7, <2>3
    <3> HIDE DEF broken
    <3> QED BY <1>11, <2>1, <3>1, OneRequest
  <2> QED BY <1>8, <2>2, <2>3
<1>9. CASE key \in Ours /\ h.model \in AutoNames
  <2>1. p = DeepSeek
    BY <1>9
  <2>2. scoring \in Handler
    BY <1>3, <1>9 DEF Handler
  <2>3. InOrder(scoring)
    BY <1>2, <1>3, <1>4, <1>7, <1>9, <2>1 DEF Handler, InOrder
  <2>4. req' = [req EXCEPT ![r] = scoring]
    BY <1>7, <1>9 DEF Ours
  <2> QED BY <1>11, <2>2, <2>3, <2>4, OneRequest
<1>10. CASE key \in Ours /\ h.model \notin AutoNames
  <2>1. p = Catalogue[h.model] /\ h.model \in Priced \cap Models
    BY <1>3, <1>10
  <2>4. /\ opened \in Handler /\ opened.pc = "done" /\ opened.at = clock /\ opened.upstream = key
        /\ opened.served = h.model /\ opened.key = "misterpilot" /\ opened.verdict = "valid"
    BY <1>3, <1>10, <2>1, OpenedFields
  <2> HIDE DEF opened
  <2>6. clock <= clock
    BY <1>2
  <2>7. InOrder(opened)
    BY <1>7, <1>10, <2>1, <2>4, <2>6, GivenInOrder
  <2>5. req' = [req EXCEPT ![r] = opened]
    BY <1>7, <1>10 DEF Ours
  <2> QED BY <1>11, <2>4, <2>5, <2>7, OneRequest
<1> QED BY <1>7, <1>8, <1>9, <1>10

\* There is a first candidate if there is one.
LEMMA FirstIsOne ==
    ASSUME NEW S \in SUBSET Nat, S # {}
    PROVE  First(S) \in S
<1> DEFINE R == OpToRel(<, Nat)
<1>1. IsWellFoundedOn(R, Nat)
  BY NatLessThanWellFounded
<1>2. \A x, y \in Nat : y < x => <<y, x>> \in R
  BY DEF OpToRel
<1> HIDE DEF R
<1>3. PICK i \in S : \A j \in S : <<j, i>> \notin R
  BY <1>1, WFMin
<1>4. \A j \in S : ~(j < i)
  BY <1>2, <1>3, Zenon
<1>5. \A j \in S : i <= j
  BY <1>4
<1> QED BY <1>5 DEF First

\* _servable: a candidate's key is in order when it is got.
LEMMA KeyForUsable ==
    ASSUME AccessInv, NEW m \in Models, NEW aws \in [Provider -> Aws], NEW upstream \in Ours,
           NEW at, Usable(upstream, DeepSeek, at),
           NEW key, key = KeyFor(m, upstream, aws), key # "none"
    PROVE  /\ m \in Priced /\ key \in Ours \cup {"raised"}
           /\ Catalogue[m] \in Provider
           /\ Usable(key, Catalogue[m], IF Catalogue[m] = DeepSeek THEN at ELSE clock)
<1>1. Catalogue[m] \in Provider
  BY AccessAssumption
<1>2. m \in Priced
  BY DEF KeyFor
<1>3. CASE Catalogue[m] = DeepSeek
  BY <1>1, <1>2, <1>3 DEF KeyFor
<1>4. CASE Catalogue[m] # DeepSeek
  <2>1. key = ServerKey(Catalogue[m], aws)
    BY <1>2, <1>4 DEF KeyFor
  <2> QED BY <1>1, <1>2, <1>4, <2>1, ServerKeyUsable
<1> QED BY <1>3, <1>4

LEMMA OpenAutoKeeps == ASSUME AccessInv, NEW r \in Requests, OpenAuto(r) PROVE AccessInv'
<1> DEFINE h == req[r]
           keys(aws)  == [i \in 1..Len(Chain) |-> KeyFor(Chain[i], h.upstream, aws)]
           stops(aws) == {i \in 1..Len(Chain) : keys(aws)[i] # "none"}
           last(aws)  == IF stops(aws) = {} THEN Len(Chain) ELSE First(stops(aws))
           opened(aws) == Opened(h, Chain[last(aws)], keys(aws)[last(aws)])
<1>1. PICK aws \in [Provider -> Aws] :
         /\ secrets' = Filled({Catalogue[Chain[i]] : i \in {j \in 1..last(aws) :
                              Chain[j] \in Priced /\ Catalogue[Chain[j]] # DeepSeek}}, aws)
         /\ req' = [req EXCEPT ![r] =
              IF stops(aws) = {} THEN Answered(h, 503)
              ELSE IF keys(aws)[last(aws)] = "raised" THEN Answered(h, 500)
              ELSE [opened(aws) EXCEPT !.at = IF Catalogue[Chain[last(aws)]] = DeepSeek THEN @ ELSE clock]]
  BY DEF OpenAuto
<1>2. /\ h \in Handler /\ InOrder(h) /\ h.pc = "scoring" /\ clock \in 0..Horizon
      /\ UNCHANGED <<clock, replaced>> /\ \E asked, answers : secrets' = Filled(asked, answers)
  BY <1>1 DEF AccessInv, AccessTypeOK, HandInOrder, OpenAuto
<1>3. /\ h.key = "misterpilot" /\ h.verdict = "valid" /\ h.upstream \in Ours
      /\ Usable(h.upstream, DeepSeek, h.at) /\ h.at \in 0..Horizon /\ h.at <= clock
  BY <1>2 DEF InOrder, Handler
<1> DEFINE refused == Answered(h, 503)
           broken == Answered(h, 500)
<1>4. refused \in Handler /\ InOrder(refused) /\ broken \in Handler /\ InOrder(broken)
  BY <1>2, Refused DEF Status
<1>5. CASE stops(aws) = {}
  <2>1. req' = [req EXCEPT ![r] = refused]
    BY <1>1, <1>5
  <2> HIDE DEF refused
  <2> QED BY <1>2, <1>4, <2>1, OneRequest
<1>6. CASE stops(aws) # {} /\ keys(aws)[last(aws)] = "raised"
  <2>1. req' = [req EXCEPT ![r] = broken]
    BY <1>1, <1>6
  <2> HIDE DEF broken
  <2> QED BY <1>2, <1>4, <2>1, OneRequest
<1>7. CASE stops(aws) # {} /\ keys(aws)[last(aws)] # "raised"
  <2>1. last(aws) \in 1..Len(Chain) /\ keys(aws)[last(aws)] # "none"
    <3>1. stops(aws) \in SUBSET Nat
      BY AccessAssumption
    <3>2. First(stops(aws)) \in stops(aws)
      <4> HIDE DEF stops
      <4> QED BY <1>7, <3>1, FirstIsOne
    <3> QED BY <1>7, <3>2
  <2> DEFINE m == Chain[last(aws)]
             key == keys(aws)[last(aws)]
             at == IF Catalogue[m] = DeepSeek THEN h.at ELSE clock
             g == opened(aws)
             final == [g EXCEPT !.at = at]
  <2>2. m \in Models /\ key = KeyFor(m, h.upstream, aws) /\ key # "none" /\ key # "raised"
    <3> HIDE DEF last
    <3> QED BY <1>7, <2>1, AccessAssumption
  <2>3. m \in Priced /\ key \in Ours /\ Usable(key, Catalogue[m], at)
    <3> HIDE DEF m, key
    <3> QED BY <1>3, <2>2, KeyForUsable DEF at
  <2>4. g = Opened(h, m, key)
    OBVIOUS
  <2>5. at \in 0..Horizon /\ at <= clock
    <3> HIDE DEF m
    <3> QED BY <1>2, <1>3
  <2> HIDE DEF m, key, at, g
  <2>6. /\ g \in Handler /\ g.pc = "done" /\ g.key = "misterpilot" /\ g.verdict = "valid"
        /\ g.at = h.at /\ g.upstream = key /\ g.served = m
    BY <1>2, <1>3, <2>2, <2>3, <2>4, OpenedFields
  <2>7. final \in Handler
    BY <2>5, <2>6 DEF Handler
  <2>8. /\ final.pc = "done" /\ final.key = "misterpilot" /\ final.verdict = "valid"
        /\ final.at = at /\ final.upstream = key /\ final.served = m
    BY <2>6 DEF Handler
  <2>9. req' = [req EXCEPT ![r] = final]
    BY <1>1, <1>7, <2>6 DEF m, key, at, g
  <2> HIDE DEF final
  <2>10. InOrder(final)
    BY <2>2, <2>3, <2>5, <2>7, <2>8, GivenInOrder
  <2> QED BY <1>2, <2>7, <2>9, <2>10, OneRequest
<1> QED BY <1>5, <1>6, <1>7

-----------------------------------------------------------------------------
(* The environment.                                                        *)

LEMMA ReplaceKeeps == ASSUME AccessInv, NEW p \in Provider, Replace(p) PROVE AccessInv'
<1> USE AccessAssumption
<1>1. /\ replaced' \in [Provider -> 0..Never] /\ UNCHANGED <<clock, secrets, req>>
      /\ clock \in 0..Horizon /\ replaced'[p] = clock /\ replaced[p] = Never
      /\ \A q \in Provider : replaced[q] \in 0..Never /\ replaced'[q] = IF q = p THEN clock ELSE replaced[q]
  BY DEF AccessInv, AccessTypeOK, Replace, Never
<1>2. AccessTypeOK'
  BY <1>1 DEF AccessInv, AccessTypeOK
<1>3. CacheInOrder'
  BY <1>1, SMTT(30) DEF AccessInv, CacheInOrder, Never
<1>4. ASSUME NEW h \in Handler, InOrder(h) PROVE InOrder(h)'
  <2>1. ASSUME NEW key, NEW q \in Provider, NEW at \in 0..clock, Usable(key, q, at) PROVE Usable(key, q, at)'
    BY <1>1, <2>1 DEF Usable
  <2>2. h.at \in 0..clock
    BY <1>1, <1>4 DEF Handler, InOrder
  <2>3. h.served \in Models => Catalogue[h.served] \in Provider
    OBVIOUS
  <2> QED BY <1>1, <1>4, <2>1, <2>2, <2>3 DEF InOrder
<1>5. HandInOrder'
  BY <1>1, <1>4 DEF AccessInv, AccessTypeOK, HandInOrder
<1> QED BY <1>2, <1>3, <1>5 DEF AccessInv

LEMMA AccessTickKeeps == ASSUME AccessInv, ClockTick PROVE AccessInv'
<1> USE AccessAssumption
<1>1. UNCHANGED <<replaced, secrets, req>> /\ clock \in 0..Horizon /\ clock < Horizon /\ clock' = clock + 1
  BY DEF AccessInv, AccessTypeOK, ClockTick
<1>2. AccessTypeOK'
  BY <1>1 DEF AccessInv, AccessTypeOK
<1>3. CacheInOrder'
  <2> SUFFICES ASSUME NEW p \in Provider
               PROVE  /\ replaced[p] # Never => replaced[p] <= clock'
                      /\ secrets[p].key = "old" =>
                            /\ secrets[p].expires <= clock' + SECRET_TTL
                            /\ secrets[p].expires <= replaced[p] + SECRET_TTL
    BY <1>1 DEF CacheInOrder
  <2>1. replaced[p] \in 0..Never /\ secrets[p].expires \in 0..(Horizon + SECRET_TTL)
    BY DEF AccessInv, AccessTypeOK
  <2> QED BY <1>1, <2>1 DEF AccessInv, CacheInOrder, Never
<1>4. ASSUME NEW h \in Handler, InOrder(h) PROVE InOrder(h)'
  BY <1>1, <1>4 DEF InOrder, Usable, Handler
<1>5. HandInOrder'
  BY <1>1, <1>4 DEF AccessInv, AccessTypeOK, HandInOrder
<1> QED BY <1>2, <1>3, <1>5 DEF AccessInv

LEMMA AccessKeeps == AccessInv /\ [AccessNext]_accessVars => AccessInv'
<1> SUFFICES ASSUME AccessInv, [AccessNext]_accessVars PROVE AccessInv'
  OBVIOUS
<1>1. ASSUME NEW r \in Requests, Handle(r) PROVE AccessInv'
  BY <1>1, ArriveKeeps, NotVerifiedKeeps, VerifiedKeeps, OpenAutoKeeps DEF Handle
<1>2. ASSUME NEW p \in Provider, Replace(p) PROVE AccessInv'
  BY <1>2, ReplaceKeeps
<1>3. CASE ClockTick
  BY <1>3, AccessTickKeeps
<1>4. CASE UNCHANGED accessVars
  BY <1>4 DEF accessVars, AccessInv, AccessTypeOK, CacheInOrder, HandInOrder, InOrder, Usable
<1> QED BY <1>1, <1>2, <1>3, <1>4 DEF AccessNext

LEMMA AccessInvariance == AccessSpec => []AccessInv
BY AccessBegins, AccessKeeps, PTL DEF AccessSpec

\* open_model_access: a key of ours goes to a model that has a price, for a
\* customer whose key the wallet service accepted for this request, and never
\* longer than the cache keeps it after it was replaced, for any number of
\* requests and providers, whenever AWS cannot be read.
THEOREM OurKeyAlwaysInOrder == AccessSpec => []OurKeyInOrder
<1>1. AccessInv => OurKeyInOrder
  BY DEF AccessInv, HandInOrder, InOrder, Usable, OurKeyInOrder
<1> QED BY <1>1, AccessInvariance, PTL

\* The types of the requests and of the cache of secrets.
THEOREM AccessTypesKept == AccessSpec => []AccessTypeOK
<1>1. AccessInv => AccessTypeOK
  BY DEF AccessInv
<1> QED BY <1>1, AccessInvariance, PTL

-----------------------------------------------------------------------------
(* The call. *)

\* Nothing has been given as long as the current answer was not heard; while it
\* is streamed, all that was given is of it.
OneAnswer ==
    /\ step \in {"calling", "backoff"} /\ ~heard => given = <<>>
    /\ step = "calling" => \A i \in DOMAIN given : given[i] = Calls
    /\ step = "backoff" => ~heard
    /\ \A i, j \in DOMAIN given : given[i] = given[j]
    /\ heard => stream /\ given # <<>>
    /\ step = "failed" /\ ~heard => given = <<>>
    /\ step # "failed" => raised = "none"

\* What makes a repetition safe.
Safe(f) ==
    /\ f.exc \notin {401, 403, Bug}
    /\ f.via = "compat" => Transient(f.exc)
    /\ f.via = "native" => ~Transient(f.exc) /\ via = "compat"
    /\ ~f.heard

\* Every failure was safe to repeat after, but the one that ended the call.
SafeSoFar ==
    \A i \in 1..Len(failed) : step # "failed" \/ i < Len(failed) => Safe(failed[i])

TransportInv == TransportTypeOK /\ OneAnswer /\ SafeSoFar

-----------------------------------------------------------------------------
LEMMA TransportBegins == TransportInit => TransportInv
<1> SUFFICES ASSUME TransportInit PROVE TransportInv
  OBVIOUS
<1>1. TransportTypeOK
  <2>1. given \in Seq(Nat) /\ failed \in Seq([exc : Exception, via : {"native", "compat"}, heard : BOOLEAN])
    BY DEF TransportInit
  <2>2. native \in BOOLEAN /\ stream \in BOOLEAN /\ heard = FALSE
    BY Zenon DEF TransportInit
  <2>3. attempt = 0 /\ raised = "none" /\ step = "calling" /\ via \in {"native", "compat"}
    BY DEF TransportInit
  <2> QED BY <2>1, <2>2, <2>3 DEF TransportTypeOK
<1>2. OneAnswer
  BY DEF TransportInit, OneAnswer
<1>3. SafeSoFar
  BY DEF TransportInit, SafeSoFar
<1> QED BY <1>1, <1>2, <1>3 DEF TransportInv

LEMMA PartKeeps == TransportInv /\ Part => TransportInv'
<1> SUFFICES ASSUME TransportInv, Part PROVE TransportInv'
  OBVIOUS
<1>1. given \in Seq(Nat) /\ failed \in Seq([exc : Exception, via : {"native", "compat"}, heard : BOOLEAN])
  BY DEF TransportInv, TransportTypeOK
<1>2. Calls \in Nat /\ Calls' = Calls
  BY <1>1 DEF Calls, Part
<1>3. TransportTypeOK'
  BY <1>1, <1>2 DEF TransportInv, TransportTypeOK, Part
<1>4. \A i \in DOMAIN given' : given'[i] = Calls
  BY <1>1, <1>2 DEF TransportInv, OneAnswer, Part
<1>5. OneAnswer'
  BY <1>1, <1>2, <1>4 DEF TransportInv, OneAnswer, Part
<1>6. SafeSoFar'
  BY DEF TransportInv, SafeSoFar, Safe, Part
<1> QED BY <1>3, <1>5, <1>6 DEF TransportInv

LEMMA FinishedKeeps == TransportInv /\ Finished => TransportInv'
<1> SUFFICES ASSUME TransportInv, Finished PROVE TransportInv'
  OBVIOUS
<1>1. given \in Seq(Nat) /\ Calls \in Nat
  BY DEF TransportInv, TransportTypeOK, Calls
<1>2. TransportTypeOK'
  BY <1>1 DEF TransportInv, TransportTypeOK, Finished
<1>3. OneAnswer'
  BY <1>1 DEF TransportInv, OneAnswer, Finished
<1>4. SafeSoFar'
  BY DEF TransportInv, SafeSoFar, Safe, Finished
<1> QED BY <1>2, <1>3, <1>4 DEF TransportInv

\* A failure is noted; the rest is what is done about it.
LEMMA NoteKeeps ==
    ASSUME TransportInv, NEW e \in Exception, step = "calling", Note(e)
    PROVE  /\ failed' \in Seq([exc : Exception, via : {"native", "compat"}, heard : BOOLEAN])
           /\ Len(failed') = Len(failed) + 1
           /\ failed'[Len(failed) + 1] = [exc |-> e, via |-> via, heard |-> heard]
           /\ \A i \in 1..Len(failed) : failed'[i] = failed[i] /\ Safe(failed[i])
BY DEF TransportInv, TransportTypeOK, SafeSoFar, Note

\* What was safe stays so; what has just failed has to be, unless the call ends.
LEMMA SafeAfter ==
    ASSUME TransportInv, NEW e \in Exception, step = "calling", Note(e),
           via' = via \/ via' = "compat",
           \/ step' = "failed"
           \/ /\ e \notin {401, 403, Bug} /\ ~heard
              /\ via = "compat" => Transient(e)
              /\ via = "native" => ~Transient(e) /\ via' = "compat"
    PROVE  SafeSoFar'
<1>1. /\ Len(failed) \in Nat /\ Len(failed') = Len(failed) + 1
      /\ failed'[Len(failed) + 1] = [exc |-> e, via |-> via, heard |-> heard]
      /\ \A i \in 1..Len(failed) : failed'[i] = failed[i] /\ Safe(failed[i])
  BY NoteKeeps DEF TransportInv, TransportTypeOK
<1>2. via \in {"native", "compat"} /\ heard \in BOOLEAN
  BY DEF TransportInv, TransportTypeOK
<1> SUFFICES ASSUME NEW i \in 1..(Len(failed) + 1), step' # "failed" \/ i < Len(failed) + 1
             PROVE  Safe(failed[i])'
  BY <1>1 DEF SafeSoFar
<1>3. CASE i \in 1..Len(failed)
  <2>1. failed'[i] = failed[i] /\ Safe(failed[i])
    BY <1>1, <1>3
  <2> QED BY <2>1 DEF Safe
<1>4. CASE i = Len(failed) + 1
  <2>1. failed'[i] = [exc |-> e, via |-> via, heard |-> heard] /\ step' # "failed"
    BY <1>1, <1>4
  <2>2. failed'[i].exc = e /\ failed'[i].via = via /\ failed'[i].heard = heard
    BY <2>1
  <2>3. heard = FALSE
    BY <2>1, <1>2
  <2>4. e \notin {401, 403, Bug} /\ (via = "compat" => Transient(e)) /\ (via = "native" => ~Transient(e) /\ via' = "compat")
    BY <2>1
  <2> QED BY <2>2, <2>3, <2>4 DEF Safe
<1> QED BY <1>1, <1>3, <1>4

LEMMA CompatFailsKeeps ==
    ASSUME TransportInv, NEW e \in Failures, CompatFails(e)
    PROVE  TransportInv'
<1>1. e \in Exception /\ step = "calling" /\ via = "compat" /\ Note(e)
  BY TransportAssumption DEF CompatFails
<1>2. CASE MayRetry(e) /\ RetriesLeft
  <2>1. step' = "backoff" /\ attempt' = attempt + 1 /\ ~heard /\ Transient(e)
        /\ UNCHANGED <<native, stream, heard, given, via, raised>>
    BY <1>1, <1>2 DEF CompatFails, MayRetry
  <2>2. TransportTypeOK'
    <3>1. attempt' \in Nat /\ attempt' < MaxRetries
      BY <1>2, <2>1, TransportAssumption DEF TransportInv, TransportTypeOK, RetriesLeft
    <3> QED BY <1>1, <2>1, <3>1, NoteKeeps DEF TransportInv, TransportTypeOK
  <2>3. OneAnswer'
    BY <1>1, <2>1 DEF TransportInv, OneAnswer
  <2>4. e \notin {401, 403, Bug}
    BY <2>1 DEF Transient, Connection, Bug
  <2>5. SafeSoFar'
    BY <1>1, <2>1, <2>4, SafeAfter
  <2> QED BY <2>2, <2>3, <2>5 DEF TransportInv
<1>3. CASE ~(MayRetry(e) /\ RetriesLeft)
  <2>1. step' = "failed" /\ raised' = CompatError(e) /\ UNCHANGED <<native, stream, heard, given, via, attempt>>
    BY <1>1, <1>3 DEF CompatFails, Raise
  <2>2. TransportTypeOK'
    <3>1. raised' \in {"none", "LLMAuthError", "LLMUnavailableError", "LLMRequestError", "other"}
      BY <2>1 DEF CompatError
    <3>2. failed' \in Seq([exc : Exception, via : {"native", "compat"}, heard : BOOLEAN])
      BY <1>1, NoteKeeps DEF TransportInv
    <3> QED BY <2>1, <3>1, <3>2, Zenon DEF TransportInv, TransportTypeOK
  <2>3. OneAnswer'
    BY <1>1, <2>1 DEF TransportInv, OneAnswer
  <2>4. SafeSoFar'
    BY <1>1, <2>1, SafeAfter
  <2> QED BY <2>2, <2>3, <2>4 DEF TransportInv
<1> QED BY <1>2, <1>3

LEMMA NativeFailsKeeps ==
    ASSUME TransportInv, NEW e \in Failures, NativeFails(e)
    PROVE  TransportInv'
<1>1. e \in Exception /\ step = "calling" /\ via = "native" /\ Note(e)
  BY TransportAssumption DEF NativeFails
<1>2. CASE MayFallBack(e)
  <2>1. via' = "compat" /\ ~heard /\ NativeError(e) = "LLMRequestError"
        /\ UNCHANGED <<native, stream, heard, given, step, attempt, raised>>
    BY <1>1, <1>2 DEF NativeFails, MayFallBack
  <2>2. TransportTypeOK'
    BY <1>1, <2>1, NoteKeeps DEF TransportInv, TransportTypeOK
  <2>3. OneAnswer'
    BY <1>1, <2>1 DEF TransportInv, OneAnswer
  <2>4. e \notin {401, 403, Bug} /\ ~Transient(e)
    BY <2>1 DEF NativeError, Transient
  <2>5. SafeSoFar'
    BY <1>1, <2>1, <2>4, SafeAfter
  <2> QED BY <2>2, <2>3, <2>5 DEF TransportInv
<1>3. CASE ~MayFallBack(e)
  <2>1. step' = "failed" /\ raised' = NativeError(e) /\ UNCHANGED <<native, stream, heard, given, via, attempt>>
    BY <1>1, <1>3 DEF NativeFails, Raise
  <2>2. TransportTypeOK'
    <3>1. raised' \in {"none", "LLMAuthError", "LLMUnavailableError", "LLMRequestError", "other"}
      BY <2>1 DEF NativeError
    <3>2. failed' \in Seq([exc : Exception, via : {"native", "compat"}, heard : BOOLEAN])
      BY <1>1, NoteKeeps DEF TransportInv
    <3> QED BY <2>1, <3>1, <3>2, Zenon DEF TransportInv, TransportTypeOK
  <2>3. OneAnswer'
    BY <1>1, <2>1 DEF TransportInv, OneAnswer
  <2>4. SafeSoFar'
    BY <1>1, <2>1, SafeAfter
  <2> QED BY <2>2, <2>3, <2>4 DEF TransportInv
<1> QED BY <1>2, <1>3

LEMMA RetryKeeps == TransportInv /\ Retry => TransportInv'
<1> SUFFICES ASSUME TransportInv, Retry PROVE TransportInv'
  OBVIOUS
<1>1. TransportTypeOK'
  BY DEF TransportInv, TransportTypeOK, Retry
<1>2. OneAnswer'
  BY DEF TransportInv, OneAnswer, Retry
<1>3. SafeSoFar'
  BY DEF TransportInv, SafeSoFar, Safe, Retry
<1> QED BY <1>1, <1>2, <1>3 DEF TransportInv

LEMMA TransportKeeps == TransportInv /\ [TransportNext]_transportVars => TransportInv'
<1> SUFFICES ASSUME TransportInv, [TransportNext]_transportVars PROVE TransportInv'
  OBVIOUS
<1>1. CASE UNCHANGED transportVars
  BY <1>1 DEF transportVars, TransportInv, TransportTypeOK, OneAnswer, SafeSoFar, Safe, Calls
<1> QED BY <1>1, PartKeeps, FinishedKeeps, CompatFailsKeeps, NativeFailsKeeps, RetryKeeps DEF TransportNext

LEMMA TransportInvariance == TransportSpec => []TransportInv
BY TransportBegins, TransportKeeps, PTL DEF TransportSpec

\* ProviderClient, LLMClient: whatever fails and however often, a request is made
\* again only where that cannot double work or output.
THEOREM AlwaysRepeatedOnlyIfSafe == TransportSpec => []RepeatedOnlyIfSafe
<1>1. TransportInv => RepeatedOnlyIfSafe
  <2> SUFFICES ASSUME TransportInv PROVE RepeatedOnlyIfSafe
    OBVIOUS
  <2>1. \A i, j \in DOMAIN given : given[i] = given[j]
    BY DEF TransportInv, OneAnswer
  <2>2. Len(failed) \in Nat
    BY DEF TransportInv, TransportTypeOK
  <2>3. ASSUME NEW i \in 1..(Calls - 1), step \in {"calling", "done"} \/ i < Len(failed)
        PROVE  Safe(failed[i])
    BY <2>2, <2>3 DEF TransportInv, SafeSoFar, Calls
  <2> QED BY <2>1, <2>3 DEF RepeatedOnlyIfSafe, Safe
<1> QED BY <1>1, TransportInvariance, PTL

\* The types of a call; no attempt is beyond max_retries.
THEOREM TransportTypesKept == TransportSpec => []TransportTypeOK
<1>1. TransportInv => TransportTypeOK
  BY DEF TransportInv
<1> QED BY <1>1, TransportInvariance, PTL

-----------------------------------------------------------------------------
(* The refinement.                                                         *)

LEMMA InitImplements == TransportInit => Abstract!Init
BY DEF TransportInit, Abstract!Init, told, phase

LEMMA StepImplements ==
    TransportInv /\ [TransportNext]_transportVars => Abstract!Next \/ UNCHANGED Abstract!callVars
<1> SUFFICES ASSUME TransportInv, [TransportNext]_transportVars
             PROVE  Abstract!Next \/ UNCHANGED Abstract!callVars
  OBVIOUS
<1>1. given \in Seq(Nat) /\ Calls \in Nat /\ (given = <<>> <=> Len(given) = 0)
  BY DEF TransportInv, TransportTypeOK, Calls
<1>2. CASE Part
  <2>1. told' = told + 1 /\ told \in Nat
    BY <1>1, <1>2 DEF Part, told
  <2>2. phase \in {"calling", "streaming"} /\ phase' = "streaming" /\ UNCHANGED raised
    BY <1>2, <2>1 DEF Part, phase
  <2> QED BY <2>1, <2>2 DEF Abstract!Next, Abstract!Chunk
<1>3. CASE Finished
  <2>1. told' = told
    BY <1>3 DEF Finished, told
  <2>2. phase \in {"calling", "streaming"} /\ phase' = "done" /\ UNCHANGED raised
    BY <1>3 DEF Finished, phase
  <2> QED BY <2>1, <2>2 DEF Abstract!Next, Abstract!End
<1>4. ASSUME step = "calling", step' \in {"calling", "backoff"}, ~heard, UNCHANGED <<given, stream, raised>>
      PROVE  UNCHANGED Abstract!callVars
  BY <1>1, <1>4 DEF TransportInv, OneAnswer, Abstract!callVars, told, phase
<1>5. ASSUME step = "calling", step' = "failed", UNCHANGED <<given, stream>>,
             raised' \in {"LLMAuthError", "LLMUnavailableError", "LLMRequestError", "other"}
      PROVE  Abstract!Fail
  <2>1. told' = told
    BY <1>5 DEF told
  <2>2. phase \in {"calling", "streaming"} /\ phase' = IF told = 0 THEN "failed" ELSE "broken"
    BY <1>5, <2>1 DEF phase
  <2> QED BY <1>5, <2>1, <2>2 DEF Abstract!Fail, Abstract!Raised
<1>6. ASSUME NEW e \in Failures, CompatFails(e) PROVE Abstract!Fail \/ UNCHANGED Abstract!callVars
  <2>1. CASE MayRetry(e) /\ RetriesLeft
    BY <1>4, <1>6, <2>1 DEF CompatFails, MayRetry
  <2>2. CASE ~(MayRetry(e) /\ RetriesLeft)
    BY <1>5, <1>6, <2>2 DEF CompatFails, Raise, CompatError
  <2> QED BY <2>1, <2>2
<1>7. ASSUME NEW e \in Failures, NativeFails(e) PROVE Abstract!Fail \/ UNCHANGED Abstract!callVars
  <2>1. CASE MayFallBack(e)
    BY <1>4, <1>7, <2>1 DEF NativeFails, MayFallBack
  <2>2. CASE ~MayFallBack(e)
    BY <1>5, <1>7, <2>2 DEF NativeFails, Raise, NativeError
  <2> QED BY <2>1, <2>2
<1>8. CASE Retry
  BY <1>1, <1>8 DEF TransportInv, OneAnswer, Retry, Abstract!callVars, told, phase
<1>9. CASE UNCHANGED transportVars
  BY <1>9 DEF transportVars, Abstract!callVars, told, phase
<1> QED BY <1>2, <1>3, <1>6, <1>7, <1>8, <1>9 DEF TransportNext, Abstract!Next

\* For its caller a call with its retries is one call: chunks, then the end or one
\* error (complete and stream_chat_raw of LLMClient).
THEOREM CallRefinement == TransportSpec => ImplementsProviderCall
<1>1. TransportInv /\ [TransportNext]_transportVars => [Abstract!Next]_(Abstract!callVars)
  BY StepImplements
<1> QED BY <1>1, InitImplements, TransportInvariance, PTL
           DEF TransportSpec, ImplementsProviderCall, Abstract!Spec

-----------------------------------------------------------------------------
RequestOK == history \in Seq(Message) /\ found \in FromStash(history)

Side == {"user", "assistant"}
HistoryBlock == [kind : Message, of : Nat, layout : Layouts \cup {"none"}, id : Nat]
Merges == Seq([role : Side, blocks : Seq(HistoryBlock)])

\* What _merge keeps: the roles take turns.
Alternates(turns) == \A i \in 1..(Len(turns) - 1) : turns[i].role # turns[i + 1].role

Steps(messages, N) ==
    CHOOSE f : f = [n \in 0..N |-> IF n = 0 THEN <<>>
                                  ELSE Joined(f[n - 1], Role(messages[n].kind), Blocks(n, messages[n]))]

-----------------------------------------------------------------------------
\* The recursive function of Merged is defined for every chat.
LEMMA StepsExist ==
    ASSUME NEW messages, NEW N \in Nat
    PROVE  \E f : f = [n \in 0..N |-> IF n = 0 THEN <<>>
                                     ELSE Joined(f[n - 1], Role(messages[n].kind), Blocks(n, messages[n]))]
<1> DEFINE J(b, n) == Joined(b, Role(messages[n].kind), Blocks(n, messages[n]))
           P(k) == \E f : f = [n \in 0..k |-> IF n = 0 THEN <<>> ELSE J(f[n - 1], n)]
           Bad == {k \in Nat : ~P(k)}
<1> HIDE DEF J
<1>1. P(0)
  <2> DEFINE f == [n \in 0..0 |-> <<>>]
  <2>1. f = [n \in 0..0 |-> IF n = 0 THEN <<>> ELSE J(f[n - 1], n)]
    OBVIOUS
  <2> QED BY <2>1
<1>2. ASSUME NEW k \in Nat, P(k) PROVE P(k + 1)
  <2>1. PICK f : f = [n \in 0..k |-> IF n = 0 THEN <<>> ELSE J(f[n - 1], n)]
    BY <1>2
  <2> DEFINE new == J(f[k], k + 1)
             g == [n \in 0..(k + 1) |-> IF n = k + 1 THEN new ELSE f[n]]
  <2>2. ASSUME NEW n \in 0..(k + 1) PROVE g[n] = IF n = 0 THEN <<>> ELSE J(g[n - 1], n)
    <3>1. CASE n = k + 1
      <4>1. g[n] = new /\ n # 0
        BY <3>1
      <4>2. n - 1 = k /\ k \in 0..(k + 1) /\ k # k + 1 /\ g[n - 1] = f[k]
        BY <3>1
      <4> QED BY <3>1, <4>1, <4>2
    <3>2. CASE n # k + 1
      <4>1. n \in 0..k
        BY <3>2
      <4>2. f[n] = IF n = 0 THEN <<>> ELSE J(f[n - 1], n)
        BY <2>1, <4>1, Zenon
      <4>3. g[n] = f[n]
        BY <3>2
      <4>4. n # 0 => n - 1 \in 0..(k + 1) /\ n - 1 # k + 1 /\ g[n - 1] = f[n - 1]
        BY <3>2
      <4> QED BY <4>2, <4>3, <4>4
    <3> QED BY <3>1, <3>2
  <2>3. g = [n \in 0..(k + 1) |-> g[n]]
    OBVIOUS
  <2> HIDE DEF g
  <2>4. g = [n \in 0..(k + 1) |-> IF n = 0 THEN <<>> ELSE J(g[n - 1], n)]
    BY <2>2, <2>3
  <2> QED BY <2>4
<1> HIDE DEF P
<1>3. Bad = {}
  <2> SUFFICES ASSUME Bad # {} PROVE FALSE
    OBVIOUS
  <2>1. PICK n \in Bad : \A m \in Bad : n <= m
    BY LeastIsThere
  <2>2. n # 0
    BY <1>1
  <2>3. n - 1 \in Nat /\ ~(n <= n - 1)
    BY <2>2
  <2>4. P(n - 1)
    BY <2>1, <2>3
  <2>5. P((n - 1) + 1)
    BY <1>2, <2>3, <2>4
  <2>6. (n - 1) + 1 = n
    OBVIOUS
  <2> QED BY <2>5, <2>6
<1> QED BY <1>3 DEF P, J

LEMMA StepsUnfold ==
    ASSUME NEW messages, NEW N \in Nat
    PROVE  /\ Steps(messages, N)[0] = <<>>
           /\ \A n \in 1..N : Steps(messages, N)[n]
                 = Joined(Steps(messages, N)[n - 1], Role(messages[n].kind), Blocks(n, messages[n]))
<1> DEFINE s == Steps(messages, N)
           J(b, n) == Joined(b, Role(messages[n].kind), Blocks(n, messages[n]))
<1>1. s = [n \in 0..N |-> IF n = 0 THEN <<>> ELSE J(s[n - 1], n)]
  BY StepsExist DEF Steps
<1> HIDE DEF s, J
<1>2. \A n \in 0..N : s[n] = IF n = 0 THEN <<>> ELSE J(s[n - 1], n)
  BY <1>1, Zenon
<1>3. s[0] = <<>> /\ \A n \in 1..N : s[n] = J(s[n - 1], n)
  BY <1>2
<1> QED BY <1>3 DEF s, J

\* The turns of the first messages do not depend on the others.
LEMMA StepsAgree ==
    ASSUME NEW a, NEW b, NEW M \in Nat, NEW N \in Nat, NEW k \in Nat, k <= M, k <= N,
           \A n \in 1..k : a[n] = b[n]
    PROVE  Steps(a, M)[k] = Steps(b, N)[k]
<1> DEFINE s == Steps(a, M)
           t == Steps(b, N)
           J(x, m, n) == Joined(x, Role(m.kind), Blocks(n, m))
           Bad == {n \in Nat : n <= k /\ s[n] # t[n]}
<1>1. /\ s[0] = <<>> /\ \A n \in 1..M : s[n] = J(s[n - 1], a[n], n)
      /\ t[0] = <<>> /\ \A n \in 1..N : t[n] = J(t[n - 1], b[n], n)
  BY StepsUnfold
<1> HIDE DEF s, t, J
<1>2. Bad = {}
  <2> SUFFICES ASSUME Bad # {} PROVE FALSE
    OBVIOUS
  <2>1. PICK n \in Bad : \A m \in Bad : n <= m
    BY LeastIsThere
  <2>2. n # 0 /\ n \in 0..k
    BY <1>1
  <2>3. n - 1 \in 0..k /\ ~(n <= n - 1) /\ n \in 1..k /\ n \in 1..M /\ n \in 1..N
    BY <2>2
  <2>4. s[n - 1] = t[n - 1]
    BY <2>1, <2>3
  <2>5. s[n] = t[n]
    BY <1>1, <2>3, <2>4
  <2> QED BY <2>5
<1>3. k \in 0..k
  OBVIOUS
<1>4. s[k] = t[k]
  BY <1>2, <1>3
<1> QED BY <1>4 DEF s, t

LEMMA MergedIsSteps ==
    ASSUME NEW messages \in Seq(Reading)
    PROVE  Merged(messages) = Steps(messages, Len(messages))[Len(messages)]
BY DEF Merged, Steps

LEMMA FrontKeeps ==
    ASSUME NEW S, NEW s \in Seq(S), s # <<>>
    PROVE  /\ Front(s) \in Seq(S) /\ Len(Front(s)) = Len(s) - 1
           /\ \A i \in 1..(Len(s) - 1) : Front(s)[i] = s[i]
           /\ Last(s) \in S /\ Len(s) \in Nat \ {0}
<1> DEFINE last == Len(s) - 1
           f == SubSeq(s, 1, last)
<1>1. Len(s) \in Nat \ {0} /\ last \in Nat /\ last \in Int /\ 1 \in Int /\ 1..last \subseteq 1..Len(s)
  OBVIOUS
<1>2. \A i \in 1..last : s[i] \in S
  BY <1>1
<1> HIDE DEF last
<1>3. /\ f \in Seq(S) /\ Len(f) = IF 1 <= last THEN last - 1 + 1 ELSE 0
      /\ \A i \in 1..(last - 1 + 1) : f[i] = s[1 + i - 1]
  BY <1>1, <1>2, SubSeqProperties
<1> HIDE DEF f
<1>4. last - 1 + 1 = last /\ (~(1 <= last) => last = 0) /\ \A i \in 1..last : 1 + i - 1 = i
  BY <1>1
<1>5. Len(f) = last /\ \A i \in 1..last : f[i] = s[i]
  BY <1>3, <1>4
<1>6. Front(s) = f
  BY DEF Front, f, last
<1> QED BY <1>1, <1>3, <1>5, <1>6 DEF Last, last

\* The last message joins the turns of those before it.
LEMMA MergedGrows ==
    ASSUME NEW h \in Seq(Reading), h # <<>>
    PROVE  /\ Front(h) \in Seq(Reading) /\ Len(Front(h)) = Len(h) - 1 /\ Last(h) \in Reading
           /\ Merged(h) = Joined(Merged(Front(h)), Role(Last(h).kind), Blocks(Len(h), Last(h)))
<1> DEFINE N == Len(h)
           f == Front(h)
<1>1. N \in Nat \ {0} /\ h[N] \in Reading
  OBVIOUS
<1>2. f \in Seq(Reading) /\ Len(f) = N - 1 /\ \A n \in 1..(N - 1) : f[n] = h[n]
  BY FrontKeeps
<1> HIDE DEF f
<1>3. Merged(f) = Steps(f, N - 1)[N - 1]
  BY <1>2, MergedIsSteps
<1>4. Merged(h) = Steps(h, N)[N]
  BY MergedIsSteps
<1> HIDE DEF N
<1>5. N - 1 \in Nat /\ N \in Nat /\ N - 1 <= N /\ N - 1 <= N - 1 /\ N \in 1..N
  BY <1>1
<1>6. Steps(f, N - 1)[N - 1] = Steps(h, N)[N - 1]
  BY <1>2, <1>5, StepsAgree
<1>7. Steps(h, N)[N] = Joined(Steps(h, N)[N - 1], Role(h[N].kind), Blocks(N, h[N]))
  BY <1>5, StepsUnfold
<1> QED BY <1>1, <1>2, <1>3, <1>4, <1>6, <1>7 DEF f, Last, N

LEMMA RoleIs ==
    ASSUME NEW m \in Message
    PROVE  /\ m \in {"system", "blank system"} => Role(m) = "system"
           /\ m \in {"text", "call", "silent", "unnamed call"} => Role(m) = "assistant"
           /\ m \in {"user", "blank user", "result", "unnamed result"} => Role(m) = "user"
BY DEF Role, Message, Kept

LEMMA BlocksType ==
    ASSUME NEW m \in Reading, NEW n \in Nat
    PROVE  Blocks(n, m) \in Seq(HistoryBlock)
<1> DEFINE b == [kind |-> m.kind, of |-> n, layout |-> m.layout, id |-> m.id]
<1>1. b \in HistoryBlock
  BY DEF HistoryBlock, Reading
<1> HIDE DEF b
<1>2. <<b>> \in Seq(HistoryBlock)
  BY <1>1
<1>3. <<>> \in Seq(HistoryBlock)
  OBVIOUS
<1>4. Blocks(n, m) = <<>> \/ Blocks(n, m) = <<b>>
  BY DEF Blocks, b
<1> QED BY <1>2, <1>3, <1>4

\* What a message does to the turns before it: all but the last stay as they are,
\* and the last keeps its role and its calls.
LEMMA JoinedKeeps ==
    ASSUME NEW turns \in Merges, Alternates(turns), NEW role \in Side \cup {"system"}, NEW pieces \in Seq(HistoryBlock)
    PROVE  LET new == Joined(turns, role, pieces) IN
           /\ new \in Merges /\ Alternates(new) /\ Len(new) >= Len(turns)
           /\ \A i \in 1..(Len(turns) - 1) : new[i] = turns[i]
           /\ turns # <<>> => /\ new[Len(turns)].role = turns[Len(turns)].role
                              /\ HasCall(turns[Len(turns)]) => HasCall(new[Len(turns)])
<1> DEFINE T == [role : Side, blocks : Seq(HistoryBlock)]
           N == Len(turns)
           new == Joined(turns, role, pieces)
<1>1. turns \in Seq(T) /\ N \in Nat /\ \A i \in 1..N : turns[i] \in T
  <2> HIDE DEF T
  <2>1. turns \in Seq(T)
    BY DEF Merges, T
  <2>2. N \in Nat /\ \A i \in 1..N : turns[i] \in T
    BY <2>1
  <2> QED BY <2>1, <2>2
<1>2. CASE role = "system" \/ pieces = <<>>
  <2>1. new = turns
    BY <1>2 DEF Joined
  <2> QED BY <1>1, <2>1
<1>3. CASE ~(role = "system" \/ pieces = <<>>) /\ turns # <<>> /\ Last(turns).role = role
  <2> DEFINE last == turns[N]
             more == [last EXCEPT !.blocks = last.blocks \o pieces]
  <2>1. new = [turns EXCEPT ![N] = more]
    BY <1>3 DEF Joined
  <2>2. N \in 1..N /\ last \in T /\ last.blocks \in Seq(HistoryBlock)
    BY <1>1, <1>3
  <2>3. more \in T /\ more.role = last.role /\ more.blocks = last.blocks \o pieces
    <3> DEFINE all == last.blocks \o pieces
    <3>1. all \in Seq(HistoryBlock)
      BY <2>2, ConcatProperties
    <3> HIDE DEF all, last
    <3>2. [last EXCEPT !.blocks = all] \in T /\ [last EXCEPT !.blocks = all].role = last.role
          /\ [last EXCEPT !.blocks = all].blocks = all
      BY <2>2, <3>1
    <3> QED BY <3>2 DEF all
  <2>4. HasCall(last) => HasCall(more)
    <3> SUFFICES ASSUME HasCall(last) PROVE HasCall(more)
      OBVIOUS
    <3> DEFINE a == last.blocks
    <3>1. PICK i \in DOMAIN a : a[i].kind \in {"call", "unnamed call"}
      BY DEF HasCall
    <3> HIDE DEF last, more
    <3>2. i \in 1..Len(a) /\ i \in DOMAIN (a \o pieces) /\ (a \o pieces)[i] = a[i]
      BY <2>2
    <3> QED BY <2>3, <3>1, <3>2 DEF HasCall
  <2> HIDE DEF last, more
  <2>5. new \in Seq(T) /\ Len(new) = N /\ new[N] = more /\ \A i \in 1..N : i # N => new[i] = turns[i]
    BY <1>1, <2>1, <2>2, <2>3
  <2>6. last = turns[N]
    BY DEF last
  <2> HIDE DEF new, N, T
  <2>7. \A i \in 1..N : new[i].role = turns[i].role
    BY <2>3, <2>5, <2>6
  <2>8. Alternates(new)
    BY <1>1, <2>5, <2>7 DEF Alternates, N
  <2>9. \A i \in 1..(N - 1) : new[i] = turns[i]
    BY <1>1, <2>5
  <2> QED BY <1>1, <2>3, <2>4, <2>5, <2>6, <2>8, <2>9 DEF Merges, N, T, new
<1>4. CASE ~(role = "system" \/ pieces = <<>>) /\ ~(turns # <<>> /\ Last(turns).role = role)
  <2> DEFINE turn == Turn(role, pieces)
  <2>1. new = Append(turns, turn)
    BY <1>4 DEF Joined
  <2>2. turn \in T /\ turn.role = role
    BY <1>4 DEF Turn
  <2> HIDE DEF turn, T
  <2>3. new \in Seq(T) /\ Len(new) = N + 1 /\ new[N + 1] = turn /\ \A i \in 1..N : new[i] = turns[i]
    <3> HIDE DEF new
    <3> QED BY <1>1, <2>1, <2>2, AppendProperties
  <2>4. N > 0 => turns[N].role # role
    BY <1>1, <1>4 DEF Last
  <2> HIDE DEF new, N
  <2>5. ASSUME NEW i \in 1..N PROVE new[i].role # new[i + 1].role
    <3>1. CASE i = N
      BY <1>1, <2>2, <2>3, <2>4, <3>1
    <3>2. CASE i # N
      <4>1. i \in 1..(N - 1) /\ i + 1 \in 1..N
        BY <1>1, <3>2
      <4>2. turns[i].role # turns[i + 1].role
        BY <4>1 DEF Alternates, N
      <4> QED BY <2>3, <4>1, <4>2
    <3> QED BY <3>1, <3>2
  <2>6. N + 1 - 1 = N /\ N + 1 >= N /\ (N # 0 => N \in 1..N) /\ \A i \in 1..(N - 1) : i \in 1..N
    BY <1>1
  <2>7. Alternates(new)
    BY <2>3, <2>5, <2>6 DEF Alternates
  <2>8. turns # <<>> => N # 0
    BY DEF N
  <2>9. turns # <<>> => new[N] = turns[N]
    BY <2>3, <2>6, <2>8
  <2> QED BY <2>3, <2>6, <2>7, <2>9 DEF Merges, N, T, new
<1> QED BY <1>2, <1>3, <1>4

LEMMA MergedTypes ==
    ASSUME NEW h \in Seq(Reading)
    PROVE  Merged(h) \in Merges /\ Alternates(Merged(h))
<1> DEFINE P(s) == Merged(s) \in Merges /\ Alternates(Merged(s))
           Bad == {n \in Nat : \E s \in Seq(Reading) : Len(s) = n /\ ~P(s)}
<1>1. ASSUME NEW s \in Seq(Reading), Len(s) = 0 PROVE P(s)
  <2>1. Merged(s) = Steps(s, 0)[0]
    BY <1>1, MergedIsSteps
  <2>2. Merged(s) = <<>>
    BY <2>1, StepsUnfold
  <2> QED BY <2>2 DEF Merges, Alternates
<1>2. ASSUME NEW s \in Seq(Reading), s # <<>>, P(Front(s)) PROVE P(s)
  <2> DEFINE m == Last(s)
  <2>1. m \in Reading /\ Len(s) \in Nat
    BY <1>2, MergedGrows
  <2>2. Merged(s) = Joined(Merged(Front(s)), Role(m.kind), Blocks(Len(s), m))
    BY <1>2, MergedGrows
  <2> HIDE DEF m
  <2>3. Role(m.kind) \in Side \cup {"system"}
    BY <2>1, RoleIs DEF Message, Side, Reading
  <2>4. Blocks(Len(s), m) \in Seq(HistoryBlock)
    BY <2>1, BlocksType
  <2> QED BY <1>2, <2>2, <2>3, <2>4, JoinedKeeps
<1> HIDE DEF P
<1>3. Bad = {}
  <2> SUFFICES ASSUME Bad # {} PROVE FALSE
    OBVIOUS
  <2>1. PICK n \in Bad : \A k \in Bad : n <= k
    BY LeastIsThere
  <2>2. PICK s \in Seq(Reading) : Len(s) = n /\ ~P(s)
    OBVIOUS
  <2>3. s # <<>>
    BY <1>1, <2>2
  <2>4. Front(s) \in Seq(Reading) /\ Len(Front(s)) = n - 1 /\ n - 1 \in Nat /\ ~(n <= n - 1)
    <3>1. Front(s) \in Seq(Reading) /\ Len(Front(s)) = Len(s) - 1 /\ Len(s) \in Nat \ {0}
      BY <2>2, <2>3, FrontKeeps, Zenon
    <3> QED BY <2>2, <3>1
  <2>5. P(Front(s))
    BY <2>1, <2>4
  <2> QED BY <1>2, <2>2, <2>3, <2>5
<1>4. Len(h) \in Nat
  OBVIOUS
<1> QED BY <1>3, <1>4 DEF P

\* The last turn is a bare reply: the provider would go on writing it.
Prefill(turns) == Last(turns).role = "assistant" /\ ~HasCall(Last(turns))

\* One turn at most is dropped, and what is left does not end in a bare reply.
LEMMA PrefillGoes ==
    ASSUME NEW turns \in Merges, Alternates(turns)
    PROVE  LET w == WithoutPrefill(turns) IN
           /\ w \in Merges /\ Len(w) <= Len(turns) /\ Len(w) >= Len(turns) - 1
           /\ \A i \in 1..Len(w) : w[i] = turns[i]
           /\ w # <<>> => ~Prefill(w)
           /\ turns # <<>> /\ w = <<>> => Len(turns) = 1 /\ Prefill(turns)
           /\ turns # <<>> => Len(w) = IF Prefill(turns) THEN Len(turns) - 1 ELSE Len(turns)
<1> DEFINE T == [role : Side, blocks : Seq(HistoryBlock)]
           w == WithoutPrefill(turns)
           N == Len(turns)
<1> HIDE DEF T
<1>1. turns \in Seq(T) /\ N \in Nat
  <2>1. turns \in Seq(T)
    BY DEF Merges, T
  <2> QED BY <2>1
<1>2. CASE turns # <<>> /\ Prefill(turns)
  <2>1. w = Front(turns)
    BY <1>2 DEF WithoutPrefill, Prefill
  <2>2. w \in Seq(T) /\ Len(w) = N - 1 /\ \A i \in 1..(N - 1) : w[i] = turns[i]
    BY <1>1, <1>2, <2>1, FrontKeeps
  <2>3. N \in Nat \ {0} /\ turns[N].role = "assistant"
    BY <1>1, <1>2 DEF Prefill, Last
  <2> HIDE DEF w, N
  <2>4. w # <<>> => ~Prefill(w)
    <3> SUFFICES ASSUME w # <<>> PROVE Last(w).role # "assistant"
      BY DEF Prefill
    <3>1. N - 1 \in 1..(N - 1) /\ N - 1 + 1 = N
      BY <2>2, <2>3
    <3>2. turns[N - 1].role # turns[N].role
      BY <3>1 DEF Alternates, N
    <3> QED BY <2>2, <2>3, <3>1, <3>2 DEF Last
  <2>5. w = <<>> => N = 1
    BY <2>2, <2>3
  <2>6. N - 1 <= N /\ N - 1 >= N - 1
    BY <2>3
  <2> QED BY <1>2, <2>2, <2>4, <2>5, <2>6 DEF w, N, Merges, T
<1>3. CASE ~(turns # <<>> /\ Prefill(turns))
  <2>1. w = turns
    BY <1>3 DEF WithoutPrefill, Prefill
  <2> QED BY <1>1, <1>3, <2>1
<1> QED BY <1>2, <1>3

\* Whether a turn of the user is put in front.
Lead(turns) == IF turns = <<>> \/ turns[1].role # "user" THEN 1 ELSE 0

LEMMA FromUserIs ==
    ASSUME NEW turns \in Merges
    PROVE  LET f == FromUser(turns) IN
           /\ DOMAIN f = 1..Len(f) /\ Len(f) \in Nat /\ Len(f) = Len(turns) + Lead(turns)
           /\ Lead(turns) = 1 => f[1] = Placeholder
           /\ \A i \in 1..Len(turns) : f[i + Lead(turns)] = turns[i]
<1> DEFINE T == [role : Side, blocks : Seq(HistoryBlock)]
           f == FromUser(turns)
<1> HIDE DEF T
<1>1. turns \in Seq(T)
  BY DEF Merges, T
<1>2. CASE Lead(turns) = 1
  <2> DEFINE U == T \cup {Placeholder}
             p == <<Placeholder>>
             N == Len(turns)
  <2> HIDE DEF U
  <2>1. T \subseteq U /\ Placeholder \in U
    BY DEF U
  <2>2. turns \in Seq(U)
    BY <1>1, <2>1, SeqMonotonic
  <2>3. p \in Seq(U) /\ Len(p) = 1 /\ p[1] = Placeholder
    BY <2>1
  <2>4. f = p \o turns
    BY <1>2 DEF FromUser, Lead
  <2> HIDE DEF p, f
  <2>5. /\ f \in Seq(U) /\ Len(f) = 1 + Len(turns)
        /\ \A i \in 1..(1 + Len(turns)) : f[i] = IF i <= 1 THEN p[i] ELSE turns[i - 1]
    <3>1. /\ f \in Seq(U) /\ Len(f) = Len(p) + Len(turns)
          /\ \A i \in 1..(Len(p) + Len(turns)) : f[i] = IF i <= Len(p) THEN p[i] ELSE turns[i - Len(p)]
      BY ONLY <2>2, <2>3, <2>4, ConcatProperties
    <3> QED BY ONLY <2>3, <3>1
  <2>6. N \in Nat /\ Len(turns) = N
    BY <1>1
  <2> HIDE DEF N
  <2>7. 1 \in 1..(1 + N) /\ 1 + N = N + 1 /\ \A i \in 1..N : i + 1 \in 1..(1 + N) /\ ~(i + 1 <= 1) /\ i + 1 - 1 = i
    BY <2>6
  <2>8. f[1] = Placeholder /\ \A i \in 1..N : f[i + 1] = turns[i]
    BY <2>3, <2>5, <2>6, <2>7
  <2>9. DOMAIN f = 1..Len(f) /\ Len(f) \in Nat
    BY <2>5
  <2> QED BY <1>2, <2>5, <2>6, <2>7, <2>8, <2>9 DEF f
<1>3. CASE Lead(turns) = 0
  <2>1. f = turns
    BY <1>3 DEF FromUser, Lead
  <2> QED BY <1>1, <1>3, <2>1
<1> QED BY <1>2, <1>3 DEF Lead

Rendered(turn) == IF turn.role = "user" THEN ResultsFirst(turn) ELSE turn

LEMMA RenderIs ==
    ASSUME NEW h \in Seq(Reading)
    PROVE  LET w == WithoutPrefill(Merged(h)) IN
           /\ Len(Render(h).turns) = Len(w) + Lead(w) /\ Len(Render(h).turns) \in Nat
           /\ Lead(w) = 1 => Render(h).turns[1] = Rendered(Placeholder)
           /\ \A i \in 1..Len(w) : Render(h).turns[i + Lead(w)] = Rendered(w[i])
<1> DEFINE w == WithoutPrefill(Merged(h))
           f == FromUser(w)
           r == Render(h).turns
<1>1. w \in Merges
  BY MergedTypes, PrefillGoes
<1> HIDE DEF w
<1>2. /\ DOMAIN f = 1..Len(f) /\ Len(f) \in Nat /\ Len(f) = Len(w) + Lead(w)
      /\ Lead(w) = 1 => f[1] = Placeholder
      /\ \A i \in 1..Len(w) : f[i + Lead(w)] = w[i]
  BY <1>1, FromUserIs
<1>3. Len(w) \in Nat
  BY <1>1 DEF Merges
<1>4. r = [i \in DOMAIN f |-> Rendered(f[i])]
  BY DEF Render, Rendered, w
<1> HIDE DEF f, r
<1>5. Len(r) = Len(f) /\ \A i \in 1..Len(f) : r[i] = Rendered(f[i])
  BY <1>2, <1>4
<1>6. Lead(w) \in {0, 1}
  BY DEF Lead
<1>7. (Lead(w) = 1 => 1 \in 1..Len(f)) /\ \A i \in 1..Len(w) : i + Lead(w) \in 1..Len(f)
  BY <1>2, <1>3, <1>6
<1> QED BY <1>2, <1>5, <1>7 DEF w, r

-----------------------------------------------------------------------------
\* A message changes nothing of the turns but the last, and makes them no fewer.
LEMMA PrefixKept ==
    ASSUME NEW s \in Seq(Reading), s # <<>>
    PROVE  LET before == Render(Front(s)).turns
               after  == Render(s).turns
           IN /\ Len(before) \in Nat /\ Len(after) \in Nat /\ Len(after) >= Len(before)
              /\ \A t \in 1..(Len(before) - 1) : after[t] = before[t]
<1> DEFINE h == Front(s)
           m == Merged(h)
           n == Merged(s)
           v == WithoutPrefill(m)
           w == WithoutPrefill(n)
<1>1. h \in Seq(Reading)
  BY MergedGrows
<1>2. m \in Merges /\ Alternates(m) /\ n \in Merges /\ Alternates(n)
  BY <1>1, MergedTypes
<1>3. /\ Len(m) \in Nat /\ Len(n) \in Nat /\ Len(n) >= Len(m)
      /\ \A i \in 1..(Len(m) - 1) : n[i] = m[i]
      /\ m # <<>> => /\ n[Len(m)].role = m[Len(m)].role
                     /\ HasCall(m[Len(m)]) => HasCall(n[Len(m)])
  <2> DEFINE role == Role(Last(s).kind)
             pieces == Blocks(Len(s), Last(s))
  <2>1. Last(s) \in Reading /\ Len(s) \in Nat /\ n = Joined(m, role, pieces)
    BY MergedGrows
  <2>2. role \in Side \cup {"system"} /\ pieces \in Seq(HistoryBlock)
    BY <2>1, RoleIs, BlocksType DEF Message, Side, Reading
  <2> HIDE DEF role, pieces, m, n
  <2>3. Len(m) \in Nat /\ Len(n) \in Nat
    BY <1>2 DEF Merges
  <2> QED BY <1>2, <2>1, <2>2, <2>3, JoinedKeeps
<1>4. /\ v \in Merges /\ Len(v) <= Len(m) /\ Len(v) >= Len(m) - 1
      /\ \A i \in 1..Len(v) : v[i] = m[i]
      /\ v # <<>> => ~Prefill(v)
      /\ m # <<>> /\ v = <<>> => Len(m) = 1 /\ Prefill(m)
      /\ m # <<>> => Len(v) = IF Prefill(m) THEN Len(m) - 1 ELSE Len(m)
  <2> HIDE DEF m, n
  <2> QED BY <1>2, PrefillGoes
<1>5. /\ w \in Merges /\ Len(w) <= Len(n) /\ Len(w) >= Len(n) - 1
      /\ \A i \in 1..Len(w) : w[i] = n[i]
      /\ n # <<>> /\ w = <<>> => Len(n) = 1 /\ Prefill(n)
      /\ n # <<>> => Len(w) = IF Prefill(n) THEN Len(n) - 1 ELSE Len(n)
  <2> HIDE DEF m, n
  <2> QED BY <1>2, PrefillGoes
<1>6. /\ Len(Render(h).turns) = Len(v) + Lead(v)
      /\ Lead(v) = 1 => Render(h).turns[1] = Rendered(Placeholder)
      /\ \A i \in 1..Len(v) : Render(h).turns[i + Lead(v)] = Rendered(v[i])
  BY <1>1, RenderIs
<1>7. /\ Len(Render(s).turns) = Len(w) + Lead(w)
      /\ Lead(w) = 1 => Render(s).turns[1] = Rendered(Placeholder)
      /\ \A i \in 1..Len(w) : Render(s).turns[i + Lead(w)] = Rendered(w[i])
  BY RenderIs
<1> HIDE DEF v, w, m, n, h
<1>8. Len(v) \in Nat /\ Len(w) \in Nat /\ (v = <<>> <=> Len(v) = 0) /\ (w = <<>> <=> Len(w) = 0)
      /\ (m = <<>> <=> Len(m) = 0) /\ (n = <<>> <=> Len(n) = 0)
  BY <1>2, <1>4, <1>5, SMTT(30) DEF Merges
<1>9. Lead(v) \in {0, 1} /\ Lead(w) \in {0, 1} /\ (v = <<>> => Lead(v) = 1) /\ (w = <<>> => Lead(w) = 1)
  BY DEF Lead
<1>10. CASE v = <<>>
  <2>1. Len(Render(h).turns) = 1 /\ Len(Render(s).turns) \in Nat \ {0}
    BY <1>6, <1>7, <1>8, <1>9, <1>10
  <2> DEFINE a == Len(Render(h).turns)
             c == Len(Render(s).turns)
  <2>2. a = 1 /\ c \in Nat \ {0}
    BY <2>1
  <2> HIDE DEF a, c
  <2>3. a \in Nat /\ c \in Nat /\ c >= a /\ \A t \in 1..(a - 1) : FALSE
    BY <2>2
  <2> QED BY <2>3, Zenon DEF a, c, h
<1> SUFFICES ASSUME v # <<>>
             PROVE  /\ Len(Render(h).turns) \in Nat /\ Len(Render(s).turns) \in Nat
                    /\ Len(Render(s).turns) >= Len(Render(h).turns)
                    /\ \A t \in 1..(Len(Render(h).turns) - 1) : Render(s).turns[t] = Render(h).turns[t]
  BY <1>10 DEF h
<1>11. v # <<>>
  OBVIOUS
<1>12. m # <<>> /\ Len(m) \in Nat \ {0} /\ Len(n) >= Len(m) /\ Len(v) <= Len(m) /\ Len(v) \in Nat \ {0}
  <2>1. Len(v) <= Len(m) /\ Len(m) \in Nat /\ Len(n) >= Len(m)
    BY <1>3, <1>4
  <2>2. Len(v) \in Nat /\ Len(v) # 0
    BY <1>8, <1>11
  <2>3. Len(m) # 0
    BY <2>1, <2>2
  <2> QED BY <1>8, <2>1, <2>2, <2>3
\* The two requests begin alike.
<1>13. n[1].role = m[1].role
  <2>1. CASE Len(m) = 1
    BY <1>3, <1>12, <2>1
  <2>2. CASE Len(m) # 1
    <3>1. 1 \in 1..(Len(m) - 1)
      <4> DEFINE k == Len(m)
      <4>1. k \in Nat \ {0} /\ k # 1
        BY <1>12, <2>2
      <4> HIDE DEF k
      <4>2. 1 \in 1..(k - 1)
        BY <4>1
      <4> QED BY <4>2 DEF k
    <3> QED BY <1>3, <3>1
  <2> QED BY <2>1, <2>2
<1>14. w # <<>>
  <2> SUFFICES ASSUME w = <<>> PROVE FALSE
    OBVIOUS
  <2>1. Len(n) = 1 /\ Prefill(n)
    BY <1>3, <1>5, <1>8, <1>12
  <2>2. Len(m) = 1 /\ Len(v) = 1
    <3> DEFINE a == Len(m)
               b == Len(v)
               c == Len(n)
    <3>1. a \in Nat \ {0} /\ b \in Nat \ {0} /\ c >= a /\ b <= a /\ c = 1
      BY <1>12, <2>1
    <3> HIDE DEF a, b, c
    <3>2. a = 1 /\ b = 1
      BY <3>1
    <3> QED BY <3>2 DEF a, b
  <2>3. ~Prefill(v) /\ v[1] = m[1]
    BY <1>4, <1>11, <2>2
  <2>4. Last(v) = m[1] /\ Last(n) = n[1]
    BY <2>1, <2>2, <2>3 DEF Last
  <2>5. HasCall(m[1]) => HasCall(n[1])
    BY <1>3, <1>12, <2>2
  <2> QED BY <1>13, <2>1, <2>3, <2>4, <2>5 DEF Prefill
<1>15. Lead(w) = Lead(v) /\ Lead(v) \in {0, 1}
  <2>1. 1 \in 1..Len(v) /\ 1 \in 1..Len(w)
    BY <1>8, <1>11, <1>14
  <2>2. v[1] = m[1] /\ w[1] = n[1]
    BY <1>4, <1>5, <2>1
  <2> QED BY <1>11, <1>13, <1>14, <2>2 DEF Lead
<1>16. Len(w) >= Len(v)
  <2>1. CASE Len(n) = Len(m)
    <3>1. Prefill(n) => Prefill(m)
      BY <1>3, <1>12, <2>1 DEF Prefill, Last
    <3>2. n # <<>>
      BY <1>8, <1>12, <2>1
    <3>3. Len(w) = (IF Prefill(n) THEN Len(n) - 1 ELSE Len(n)) /\ Len(v) = (IF Prefill(m) THEN Len(m) - 1 ELSE Len(m))
      BY <1>4, <1>5, <1>12, <3>2
    <3> QED BY <1>8, <1>12, <2>1, <3>1, <3>3
  <2>2. CASE Len(n) # Len(m)
    <3> DEFINE c == Len(n)
               d == Len(m)
               e == Len(v)
               f == Len(w)
    <3>1. c \in Nat /\ d \in Nat /\ e \in Nat /\ f \in Nat /\ c >= d /\ c # d /\ e <= d /\ f >= c - 1
      BY <1>3, <1>4, <1>5, <1>8, <2>2
    <3> HIDE DEF c, d, e, f
    <3>2. f >= e
      BY <3>1
    <3> QED BY <3>2 DEF e, f
  <2> QED BY <2>1, <2>2
<1>17. /\ Len(Render(h).turns) \in Nat /\ Len(Render(s).turns) \in Nat
       /\ Len(Render(s).turns) >= Len(Render(h).turns)
  <2> DEFINE a == Len(Render(h).turns)
             c == Len(Render(s).turns)
  <2>1. a = Len(v) + Lead(v) /\ c = Len(w) + Lead(v)
    BY <1>6, <1>7, <1>15
  <2> HIDE DEF a, c
  <2>2. a \in Nat /\ c \in Nat /\ c >= a
    BY <2>1, <1>8, <1>15, <1>16
  <2> QED BY <2>2 DEF a, c
<1>18. ASSUME NEW t \in 1..(Len(Render(h).turns) - 1)
       PROVE  Render(s).turns[t] = Render(h).turns[t]
  <2>1. t \in 1..(Len(v) + Lead(v) - 1)
    <3> DEFINE a == Len(Render(h).turns)
    <3>1. a = Len(v) + Lead(v)
      BY <1>6
    <3>2. t \in 1..(a - 1)
      BY <1>18
    <3> HIDE DEF a
    <3> QED BY <3>1, <3>2, <1>8, <1>15
  <2>2. CASE Lead(v) = 1 /\ t = 1
    BY <1>6, <1>7, <1>15, <2>2
  <2>3. CASE ~(Lead(v) = 1 /\ t = 1)
    <3> DEFINE i == t - Lead(v)
               l == Lead(v)
    <3> HIDE DEF l
    <3>1. l \in {0, 1} /\ t \in 1..(Len(v) + l - 1) /\ ~(l = 1 /\ t = 1) /\ i = t - l
      BY <1>15, <2>1, <2>3 DEF l
    <3> HIDE DEF i
    <3>2. i \in 1..(Len(v) - 1) /\ t = i + l
      BY <1>8, <3>1
    <3>3. i \in 1..Len(v) /\ i \in 1..(Len(m) - 1) /\ i \in 1..Len(w)
      BY <1>3, <1>4, <1>8, <1>16, <3>2
    <3>4. v[i] = m[i] /\ w[i] = n[i] /\ n[i] = m[i]
      BY <1>3, <1>4, <1>5, <3>3
    <3>5. Render(h).turns[i + l] = Rendered(v[i]) /\ Render(s).turns[i + l] = Rendered(w[i])
      BY <1>6, <1>7, <1>15, <3>3 DEF l
    <3> QED BY <3>2, <3>4, <3>5
  <2> QED BY <2>2, <2>3
<1> QED BY <1>17, <1>18

\* So the turns of any beginning of a chat stay, but for the last.
LEMMA BeginningKept ==
    ASSUME NEW s \in Seq(Reading), NEW k \in Nat, k <= Len(s)
    PROVE  LET common == Render(SubSeq(s, 1, k)).turns
           IN \A t \in 1..(Len(common) - 1) : Render(s).turns[t] = common[t]
<1> DEFINE C(x) == Render(SubSeq(x, 1, k)).turns
           R(x) == Render(x).turns
           P(x) == /\ Len(C(x)) \in Nat /\ Len(R(x)) \in Nat /\ Len(R(x)) >= Len(C(x))
                   /\ \A t \in 1..(Len(C(x)) - 1) : R(x)[t] = C(x)[t]
           Bad == {n \in Nat : \E x \in Seq(Reading) : Len(x) = n /\ n >= k /\ ~P(x)}
<1>1. ASSUME NEW x \in Seq(Reading), Len(x) = k PROVE P(x)
  <2>1. SubSeq(x, 1, k) = x
    BY <1>1
  <2>2. Len(R(x)) \in Nat /\ C(x) = R(x)
    BY <2>1, RenderIs
  <2> HIDE DEF C, R
  <2> QED BY <2>2
<1>2. ASSUME NEW x \in Seq(Reading), Len(x) > k, P(Front(x)) PROVE P(x)
  <2>1. x # <<>> /\ Front(x) \in Seq(Reading)
    <3>1. x # <<>>
      BY <1>2
    <3> QED BY <3>1, FrontKeeps, Zenon
  <2>2. SubSeq(Front(x), 1, k) = SubSeq(x, 1, k)
    BY <1>2 DEF Front
  <2>3. C(Front(x)) = C(x)
    BY <2>2
  <2> DEFINE f == Front(x)
  <2>4. /\ Len(R(f)) \in Nat /\ Len(R(x)) \in Nat /\ Len(R(x)) >= Len(R(f))
        /\ \A t \in 1..(Len(R(f)) - 1) : R(x)[t] = R(f)[t]
    BY <2>1, PrefixKept
  <2>5. /\ Len(C(x)) \in Nat /\ Len(R(f)) >= Len(C(x))
        /\ \A t \in 1..(Len(C(x)) - 1) : R(f)[t] = C(x)[t]
    BY <1>2, <2>3
  <2> HIDE DEF C, R, f
  <2> QED BY <2>4, <2>5
<1> HIDE DEF P
<1>3. Bad = {}
  <2> SUFFICES ASSUME Bad # {} PROVE FALSE
    OBVIOUS
  <2>1. PICK n \in Bad : \A j \in Bad : n <= j
    BY LeastIsThere
  <2>2. PICK x \in Seq(Reading) : Len(x) = n /\ n >= k /\ ~P(x)
    OBVIOUS
  <2>3. n > k
    BY <1>1, <2>2
  <2>4. x # <<>>
    BY <2>2, <2>3
  <2>5. Front(x) \in Seq(Reading) /\ Len(Front(x)) = n - 1 /\ n - 1 \in Nat /\ ~(n <= n - 1) /\ n - 1 >= k
    <3>1. Front(x) \in Seq(Reading) /\ Len(Front(x)) = Len(x) - 1 /\ Len(x) \in Nat \ {0}
      BY <2>2, <2>4, FrontKeeps, Zenon
    <3> QED BY <2>2, <2>3, <3>1
  <2>6. P(Front(x))
    BY <2>1, <2>5
  <2> QED BY <1>2, <2>2, <2>3, <2>6
<1>4. Len(s) \in Nat /\ Len(s) >= k
  OBVIOUS
<1>5. P(s)
  BY <1>3, <1>4
<1> QED BY <1>5 DEF P

LEMMA LastIsNoPrefill ==
    ASSUME NEW s \in Seq(Reading)
    PROVE  LET end == Last(Render(s).turns) IN ~(end.role = "assistant" /\ ~HasCall(end))
<1> DEFINE n == Merged(s)
           w == WithoutPrefill(n)
           r == Render(s).turns
<1>1. n \in Merges /\ Alternates(n)
  BY MergedTypes
<1>2. w \in Merges /\ (w # <<>> => ~Prefill(w))
  <2> HIDE DEF n
  <2> QED BY <1>1, PrefillGoes
<1>3. /\ Len(r) = Len(w) + Lead(w)
      /\ Lead(w) = 1 => r[1] = Rendered(Placeholder)
      /\ \A i \in 1..Len(w) : r[i + Lead(w)] = Rendered(w[i])
  BY RenderIs
<1> HIDE DEF n, w, r
<1>4. Len(w) \in Nat /\ (w = <<>> <=> Len(w) = 0) /\ Lead(w) \in {0, 1}
  BY <1>2 DEF Merges, Lead
<1>5. CASE w = <<>>
  <2>1. Lead(w) = 1 /\ Len(r) = 1
    BY <1>3, <1>4, <1>5 DEF Lead
  <2>2. Last(r) = Rendered(Placeholder)
    BY <1>3, <2>1 DEF Last
  <2>3. Placeholder.role = "user"
    BY DEF Placeholder, Turn
  <2>4. Rendered(Placeholder).role = "user"
    BY <2>3 DEF Rendered, ResultsFirst, Placeholder, Turn
  <2> QED BY <2>2, <2>4 DEF r
<1>6. CASE w # <<>>
  <2> DEFINE e == w[Len(w)]
  <2>1. Len(w) \in 1..Len(w)
    BY <1>4, <1>6
  <2>2. Last(r) = Rendered(e)
    BY <1>3, <2>1 DEF Last
  <2>3. ~(e.role = "assistant" /\ ~HasCall(e))
    BY <1>2, <1>6 DEF Prefill, Last
  <2>4. e \in [role : Side, blocks : Seq(HistoryBlock)]
    <3> DEFINE T == [role : Side, blocks : Seq(HistoryBlock)]
    <3> HIDE DEF T
    <3>1. w \in Seq(T)
      BY <1>2 DEF Merges, T
    <3>2. e \in T
      BY <2>1, <3>1
    <3> QED BY <3>2 DEF T
  <2> HIDE DEF e
  <2>5. e.role = "user" => Rendered(e).role = "user"
    BY <2>4 DEF Rendered, ResultsFirst
  <2>6. e.role # "user" => Rendered(e) = e
    BY DEF Rendered
  <2> QED BY <2>2, <2>3, <2>5, <2>6 DEF r
<1> QED BY <1>5, <1>6

\* What is rendered for a request.
LEMMA ReadingsType ==
    ASSUME RequestOK
    PROVE  Readings \in Seq(Reading) /\ Len(Readings) = Len(history)
<1>1. /\ history \in Seq(Message) /\ DOMAIN history = 1..Len(history) /\ Len(history) \in Nat
      /\ found \in [1..Len(history) -> Layouts \cup {"none"}]
  BY DEF RequestOK, FromStash
<1>2. ASSUME NEW n \in 1..Len(history) PROVE Readings[n] \in Reading
  BY <1>1 DEF Readings, Reading
<1>3. Readings \in [1..Len(history) -> Reading]
  BY <1>2 DEF Readings
<1> QED BY <1>1, <1>3

LEMMA NothingRefused ==
    ASSUME RequestOK
    PROVE  NothingRefusedIsSent
<1> DEFINE twoReplies == Len(history) > 1 /\ {Last(history), history[Len(history) - 1]} \subseteq {"text", "silent"}
<1>1. history \in Seq(Message) /\ Readings \in Seq(Reading)
  BY ReadingsType DEF RequestOK
<1>2. ~NativePrefill
  BY <1>1, LastIsNoPrefill DEF NativePrefill
<1>3. ASSUME NEW target \in Target, target.model \in Thinking, ~target.native, CompatPrefill(target)
      PROVE  twoReplies
  <2> DEFINE bare(m) == m \in {"text", "silent"}
             kept == IF history # <<>> /\ bare(Last(history)) THEN Front(history) ELSE history
  <2>1. kept # <<>> /\ bare(Last(kept))
    BY <1>3 DEF CompatPrefill
  <2>2. history # <<>> /\ bare(Last(history)) /\ kept = Front(history)
    BY <2>1
  <2>3. /\ Len(kept) = Len(history) - 1 /\ kept \in Seq(Message) /\ Len(history) \in Nat \ {0}
        /\ \A i \in 1..(Len(history) - 1) : kept[i] = history[i]
    BY <1>1, <2>2, FrontKeeps
  <2> HIDE DEF kept
  <2>4. Len(kept) \in Nat \ {0}
    BY <2>1, <2>3
  <2>5. Len(history) > 1 /\ Len(history) - 1 \in 1..(Len(history) - 1)
    BY <2>3, <2>4
  <2>6. Last(kept) = history[Len(history) - 1]
    BY <2>3, <2>5 DEF Last
  <2> QED BY <2>1, <2>2, <2>5, <2>6
<1> SUFFICES ASSUME NEW target \in Target, NEW ask \in Asks
             PROVE  LET p == Params(target, ask)
                    IN /\ target.model \in Thinking => ~p.temperature
                       /\ target.model = "opus" \/ (target.native /\ target.model = "sonnet") =>
                            p.choice \notin {"required", "named"}
                       /\ target.model = "gpt" =>
                            /\ ~p.temperature /\ p.limit = "max_completion_tokens"
                            /\ p.tools => p.effort = "absent"
  BY <1>2, <1>3 DEF NothingRefusedIsSent
<1>4. target \in Target /\ ask \in Ask
  BY RequestAssumption
<1>5. ASSUME target.model \in Thinking PROVE ~Params(target, ask).temperature
  <2>1. CASE target.native
    BY <1>5, <2>1 DEF Params, NativeParams
  <2>2. CASE ~target.native
    BY <1>5, <2>2 DEF Params, CompatParams, Thinking
  <2> QED BY <2>1, <2>2
<1>6. ASSUME target.model = "opus" \/ (target.native /\ target.model = "sonnet")
      PROVE  Params(target, ask).choice \notin {"required", "named"}
  <2>1. CASE target.native
    <3>1. Params(target, ask).choice = IF ask.tools THEN NativeChoice(target, ask) ELSE "absent"
      BY <2>1 DEF Params, NativeParams
    <3>2. NativeChoice(target, ask) \notin {"required", "named"}
      BY <1>4, <1>6 DEF NativeChoice, Thinking, Ask
    <3> QED BY <3>1, <3>2
  <2>2. CASE ~target.native
    <3>1. target.model = "opus"
      BY <1>6, <2>2
    <3>2. Params(target, ask).choice = IF ask.choice \in {"required", "named"} THEN "auto" ELSE ask.choice
      BY <2>2, <3>1 DEF Params, CompatParams
    <3> QED BY <3>2
  <2> QED BY <2>1, <2>2
<1>7. ASSUME target.model = "gpt"
      PROVE  /\ ~Params(target, ask).temperature /\ Params(target, ask).limit = "max_completion_tokens"
             /\ Params(target, ask).tools => Params(target, ask).effort = "absent"
  <2>1. ~target.native
    BY <1>4, <1>7 DEF Target
  <2>2. Params(target, ask) = CompatParams(target, ask)
    BY <2>1 DEF Params
  <2>3. ~CompatParams(target, ask).temperature
    BY <1>7 DEF CompatParams
  <2>4. CompatParams(target, ask).limit = "max_completion_tokens"
    BY <1>7 DEF CompatParams
  <2>5. CompatParams(target, ask).tools => CompatParams(target, ask).effort = "absent"
    BY DEF CompatParams
  <2> QED BY <2>2, <2>3, <2>4, <2>5
<1> QED BY <1>5, <1>6, <1>7

\* The type invariant of ProviderRequest: all of it that its properties need.
LEMMA RequestTypesKept == RequestSpec => []RequestOK
<1>1. RequestInit => RequestOK
  BY DEF RequestInit, RequestOK, FromStash
<1>2. RequestOK /\ [RequestNext]_requestVars => RequestOK'
  BY DEF RequestOK, RequestNext, Grow, requestVars, FromStash
<1> QED BY <1>1, <1>2, PTL DEF RequestSpec

\* Whatever is said in a chat, however long it is, and whatever the stash has
\* forgotten since: the turns that its first messages make, all but the last of
\* these, are sent again as they were, if the stash answers the same for these
\* messages and none lacks an id; and the list of system texts only grows.
THEOREM PrefixAlwaysStable == RequestSpec => PrefixIsStable
<1> DEFINE before == Render(Readings)
           after  == Render(Readings')
           Begins ==
             /\ after.system = before.system
                  \cup {n \in DOMAIN history' \ DOMAIN history : history'[n] = "system"}
             /\ \A k \in 1..Len(history) :
                  (\A n \in 1..k : found'[n] = found[n] /\ history[n] \notin Unnamed) =>
                      LET common == Render(SubSeq(Readings, 1, k)).turns
                      IN \A t \in 1..(Len(common) - 1) :
                              before.turns[t] = common[t] /\ after.turns[t] = common[t]
<1>1. ASSUME RequestOK, RequestOK', NEW m \in Message, Grow(m) PROVE Begins
  <2>1. /\ history' = Append(history, m) /\ history \in Seq(Message) /\ Len(history) \in Nat
        /\ Len(history') = Len(history) + 1 /\ history'[Len(history) + 1] = m
        /\ \A n \in 1..Len(history) : history'[n] = history[n]
    BY <1>1 DEF Grow, RequestOK
  <2>2. /\ Readings \in Seq(Reading) /\ Len(Readings) = Len(history)
        /\ Readings' \in Seq(Reading) /\ Len(Readings') = Len(history) + 1
    <3>1. Readings \in Seq(Reading) /\ Len(Readings) = Len(history)
      BY <1>1, ReadingsType
    <3>2. (Readings \in Seq(Reading) /\ Len(Readings) = Len(history))'
      BY <1>1, ReadingsType, PTL
    <3> QED BY <2>1, <3>1, <3>2
  <2>3. after.system = before.system \cup {n \in DOMAIN history' \ DOMAIN history : history'[n] = "system"}
    <3>1. /\ before.system = {n \in 1..Len(history) : history[n] = "system"}
          /\ after.system = {n \in 1..(Len(history) + 1) : history'[n] = "system"}
      BY <2>1, <2>2 DEF Render, Readings
    <3>2. DOMAIN history = 1..Len(history) /\ DOMAIN history' = 1..(Len(history) + 1)
      BY <1>1, <2>1 DEF RequestOK
    <3> QED BY <2>1, <3>1, <3>2
  <2>4. ASSUME NEW k \in 1..Len(history),
               \A n \in 1..k : found'[n] = found[n] /\ history[n] \notin Unnamed
        PROVE  LET common == Render(SubSeq(Readings, 1, k)).turns
               IN \A t \in 1..(Len(common) - 1) :
                       before.turns[t] = common[t] /\ after.turns[t] = common[t]
    <3>1. \A n \in 1..k : Readings[n] = Readings'[n]
      BY <2>1, <2>4 DEF Readings
    <3>2. SubSeq(Readings, 1, k) = SubSeq(Readings', 1, k)
      <4> DEFINE a == Readings
                 b == Readings'
      <4> HIDE DEF a, b
      <4>1. a \in Seq(Reading) /\ b \in Seq(Reading) /\ k <= Len(a) /\ k <= Len(b) /\ k \in Nat
        BY <2>1, <2>2 DEF a, b
      <4>2. \A n \in 1..k : a[n] = b[n]
        BY <3>1 DEF a, b
      <4>3. SubSeq(a, 1, k) = [n \in 1..k |-> a[n]] /\ SubSeq(b, 1, k) = [n \in 1..k |-> b[n]]
        BY <4>1
      <4> QED BY <4>2, <4>3 DEF a, b
    <3>3. k \in Nat /\ k <= Len(Readings) /\ k <= Len(Readings')
      BY <2>1, <2>2
    <3> QED BY <2>2, <3>2, <3>3, BeginningKept
  <2> QED BY <2>3, <2>4
<1>2. RequestOK /\ RequestOK' /\ [RequestNext]_requestVars => [Begins]_requestVars
  BY <1>1 DEF RequestNext
<1> QED BY <1>2, RequestTypesKept, PTL DEF RequestSpec, PrefixIsStable

\* No model is ever sent a parameter, a forced tool or a prefill that it refuses,
\* whatever the client asks for and however the chat ends.
THEOREM NothingRefusedIsEverSent == RequestSpec => []NothingRefusedIsSent
<1>1. RequestOK => NothingRefusedIsSent
  BY NothingRefused
<1> QED BY <1>1, RequestTypesKept, PTL

-----------------------------------------------------------------------------
(* Types. *)

\* MCProviders: the types of the parts, of which one runs and the others rest.
THEOREM ProvidersTypesKept == MCSpec => []ProvidersTypeOK
<1> DEFINE J == RateInv /\ AccessInv /\ TransportInv /\ StreamInv /\ SendInv /\ ToolsAreTools
<1>1. MCInit => J
  BY RateBegins, AccessBegins, TransportBegins, StreamBegins, SendBegins, ToolsBegin DEF MCInit
<1>2. J /\ [MCNext]_allVars => J'
  <2> SUFFICES ASSUME J, [MCNext]_allVars PROVE J'
    OBVIOUS
  <2>1. /\ [RateNext]_rateVars /\ [AccessNext]_accessVars
        /\ [TransportNext]_transportVars /\ [ClaudeNext]_claudeVars
    BY DEF MCNext, allVars
  <2>2. RateInv'
    BY <2>1, RateKeeps
  <2>3. AccessInv'
    BY <2>1, AccessKeeps
  <2>4. TransportInv'
    BY <2>1, TransportKeeps
  <2>5. StreamInv' /\ SendInv' /\ ToolsAreTools'
    BY <2>1, StreamKeeps, SendKeeps, ToolsStayTools
  <2> QED BY <2>2, <2>3, <2>4, <2>5
<1>3. J => ProvidersTypeOK
  BY ClaudeTypes DEF RateInv, AccessInv, TransportInv, ProvidersTypeOK
<1> QED BY <1>1, <1>2, <1>3, PTL DEF MCSpec
=============================================================================
