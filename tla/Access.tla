------------------------------- MODULE Access -------------------------------
(***************************************************************************)
(* Which key may call which model: open_model_access of                    *)
(* services/model_access.py over services/key_service.py, which asks       *)
(* the wallet service whether a MisterPilot key is valid and swaps it for  *)
(* our own key, kept for a while after it was read from AWS Secrets        *)
(* Manager.  A model name stands for all its spellings, a customer's key   *)
(* for its kind.  For an Auto request Chain is the order in which the      *)
(* router wants its candidates tried; their breakers are in Serving.       *)
(***************************************************************************)
EXTENDS Integers, Sequences, FiniteSets

CONSTANTS
    Requests,       \* concurrent requests, one key and one model each
    Provider,       \* the providers
    DeepSeek,       \* the provider whose key Auto needs first
    Catalogue,      \* llm.MODELS: a function from the models to their provider
    Priced,         \* the models with a price of their own
    AutoNames,      \* the names of MisterPilot Auto
    Unsupported,    \* other names a client may ask for
    Chain,          \* the candidates of an Auto request
    SECRET_TTL,     \* _SECRET_TTL_SECONDS
    Horizon         \* bound: the last instant of the model

Models == DOMAIN Catalogue

ASSUME AccessAssumption ==
    /\ DeepSeek \in Provider
    /\ \A m \in Models : Catalogue[m] \in Provider
    /\ Priced \subseteq Models
    /\ AutoNames \cap Models = {} /\ Unsupported \cap (AutoNames \cup Models) = {}
    /\ Chain \in Seq(Models) /\ Chain # <<>>
    /\ SECRET_TTL \in Nat \ {0} /\ Horizon \in Nat

VARIABLES
    clock,          \* time.monotonic()
    replaced,       \* when the key of a provider was replaced in AWS, or Never
    secrets,        \* _secret_cache: what is cached for each provider
    req             \* what each request holds

accessVars == <<clock, replaced, secrets, req>>

Never == Horizon + 1
Key   == {"none", "byok", "misterpilot"}
Ours  == {"old", "new"}                      \* our key, before and after replacement
Status == {0, 200, 400, 401, 403, 500, 503}  \* 0: not answered yet

Handler == [pc : {"new", "verifying", "scoring", "done"}, key : Key,
            model : Models \cup AutoNames \cup Unsupported, served : Models \cup {"none"},
            upstream : Ours \cup {"none", "own"}, at : 0..Horizon, status : Status,
            verdict : {"none", "valid"}]

AccessInit ==
    /\ clock = 0
    /\ replaced = [p \in Provider |-> Never]
    /\ secrets = [p \in Provider |-> [key |-> "none", expires |-> 0]]
    /\ \E key \in [Requests -> Key], model \in [Requests -> Models \cup AutoNames \cup Unsupported] :
          req = [r \in Requests |->
                  [pc |-> "new", key |-> key[r], model |-> model[r], served |-> "none",
                   upstream |-> "none", at |-> 0, status |-> 0, verdict |-> "none"]]

-----------------------------------------------------------------------------
\* The policy.

\* What open_model_access refuses before it asks anybody, 0 if nothing.
Refusal(key, model) ==
    IF key = "none" THEN 401
    ELSE IF model \in AutoNames /\ key = "byok" THEN 403
    ELSE IF model \in Unsupported THEN 400
    ELSE IF model \in Models \ Priced /\ key = "misterpilot" THEN 403
    ELSE 0

-----------------------------------------------------------------------------
\* Keys.

\* What AWS Secrets Manager does when it is asked: it answers, it reports an
\* error (or the secret has no key in it), or it cannot be reached at all.
Aws == {"answers", "errs", "unreachable"}

CurrentKey(p) == IF replaced[p] = Never THEN "old" ELSE "new"

\* Mutation: a cached secret never expires.
CachedForever(p) == secrets[p].key # "none"

Cached(p) == secrets[p].key # "none" /\ clock < secrets[p].expires

\* get_server_key with AWS as aws: our key, "none" when RuntimeError is raised,
\* "raised" when something else is: only ClientError, KeyError and bad JSON are
\* caught, and a host that cannot be reached is a BotoCoreError.
ServerKey(p, aws) ==
    IF Cached(p) THEN secrets[p].key
    ELSE CASE aws[p] = "answers"     -> CurrentKey(p)
           [] aws[p] = "errs"        -> "none"
           [] aws[p] = "unreachable" -> "raised"

\* The cache after the keys of the providers in asked were got.
Filled(asked, aws) ==
    [p \in Provider |->
        IF p \in asked /\ ~Cached(p) /\ aws[p] = "answers"
        THEN [key |-> CurrentKey(p), expires |-> clock + SECRET_TTL]
        ELSE secrets[p]]

Answered(h, status) == [h EXCEPT !.pc = "done", !.status = status]

\* The client for a model, with the key it calls it with.
Opened(h, model, key) == [Answered(h, 200) EXCEPT !.served = model, !.upstream = key]

\* open_model_access up to its first await.
Arrive(r) ==
    LET h == req[r]
        refusal == Refusal(h.key, h.model)
    IN /\ h.pc = "new"
       /\ req' = [req EXCEPT ![r] =
            IF refusal # 0 THEN Answered(h, refusal)
            ELSE IF h.key = "byok"
                 THEN Opened(h, h.model, "own")
                 ELSE [h EXCEPT !.pc = "verifying"]]
       /\ UNCHANGED <<clock, replaced, secrets>>

\* The wallet service says that the key is not valid (401), or does not say
\* (503), or the service's address is not configured (500).
NotVerified(r) ==
    /\ req[r].pc = "verifying"
    /\ \E status \in {401, 500, 503} : req' = [req EXCEPT ![r] = Answered(req[r], status)]
    /\ UNCHANGED <<clock, replaced, secrets>>

\* The key is valid: it is swapped for ours, for the model's provider or, for
\* Auto, for DeepSeek; then Auto goes on to score the request.
Verified(r) ==
    LET h == [req[r] EXCEPT !.verdict = "valid", !.at = clock]
        p == IF h.model \in AutoNames THEN DeepSeek ELSE Catalogue[h.model]
    IN /\ req[r].pc = "verifying"
       /\ \E aws \in [Provider -> Aws] :
            LET key == ServerKey(p, aws) IN
            /\ secrets' = Filled({p}, aws)
            /\ req' = [req EXCEPT ![r] =
                 CASE key = "none"   -> Answered(h, 503)
                   [] key = "raised" -> Answered(h, 500)
                   [] OTHER -> IF h.model \in AutoNames
                               THEN [h EXCEPT !.pc = "scoring", !.upstream = key]
                               ELSE Opened(h, h.model, key)]
       /\ UNCHANGED <<clock, replaced>>

\* _servable: the key a candidate would be called with.
KeyFor(m, deepseekKey, aws) ==
    IF m \notin Priced THEN "none"
    ELSE IF Catalogue[m] = DeepSeek THEN deepseekKey
    ELSE ServerKey(Catalogue[m], aws)

First(places) == CHOOSE i \in places : \A j \in places : i <= j

\* The end of _open_auto: the first candidate that has a price and a key; an
\* exception on the way is nobody's to catch.
OpenAuto(r) ==
    /\ req[r].pc = "scoring"
    /\ \E aws \in [Provider -> Aws] :
         LET keys  == [i \in 1..Len(Chain) |-> KeyFor(Chain[i], req[r].upstream, aws)]
             stops == {i \in 1..Len(Chain) : keys[i] # "none"}
             last  == IF stops = {} THEN Len(Chain) ELSE First(stops)
         IN /\ secrets' = Filled({Catalogue[Chain[i]] :
                                    i \in {j \in 1..last : /\ Chain[j] \in Priced
                                                           /\ Catalogue[Chain[j]] # DeepSeek}}, aws)
            /\ req' = [req EXCEPT ![r] =
                 IF stops = {} THEN Answered(req[r], 503)
                 ELSE IF keys[last] = "raised" THEN Answered(req[r], 500)
                 ELSE [Opened(req[r], Chain[last], keys[last]) EXCEPT
                         !.at = IF Catalogue[Chain[last]] = DeepSeek THEN @ ELSE clock]]
    /\ UNCHANGED <<clock, replaced>>

\* Somebody replaces our key for a provider, once.
Replace(p) ==
    /\ replaced[p] = Never
    /\ replaced' = [replaced EXCEPT ![p] = clock]
    /\ UNCHANGED <<clock, secrets, req>>

ClockTick ==
    /\ clock < Horizon
    /\ clock' = clock + 1
    /\ UNCHANGED <<replaced, secrets, req>>

Handle(r) == Arrive(r) \/ NotVerified(r) \/ Verified(r) \/ OpenAuto(r)

AccessNext ==
    \/ \E r \in Requests : Handle(r)
    \/ \E p \in Provider : Replace(p)
    \/ ClockTick

AccessSpec == AccessInit /\ [][AccessNext]_accessVars

(***************************************************************************)
(* Properties.                                                             *)
(***************************************************************************)

\* Types of the state.
AccessTypeOK ==
    /\ clock \in 0..Horizon
    /\ replaced \in [Provider -> 0..Never]
    /\ secrets \in [Provider -> [key : Ours \cup {"none"}, expires : 0..(Horizon + SECRET_TTL)]]
    /\ req \in [Requests -> Handler]

\* What is called with a key of ours has a price and is for a customer whose key
\* the wallet service accepted for this very request; and a key that was replaced
\* is handed out for no longer than the cache keeps it, even while AWS cannot be
\* read and whichever of its two ways a request has got the key (open_model_access,
\* _servable, _fetch_key_from_aws).
OurKeyInOrder ==
    \A r \in Requests :
        req[r].status = 200 /\ req[r].upstream \in Ours =>
            /\ req[r].key = "misterpilot"
            /\ req[r].verdict = "valid"
            /\ req[r].served \in Priced
            /\ req[r].upstream = "old" =>
                  req[r].at < replaced[Catalogue[req[r].served]] + SECRET_TTL
=============================================================================
