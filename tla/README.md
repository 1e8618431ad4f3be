# The MisterPilot proxy in TLA+

The MisterPilot proxy (`src/backend`, Python, FastAPI on asyncio) is an OpenAI-compatible
endpoint in front of several providers of language models. It replaces personal data in
prompts by placeholders, picks a model for requests to `misterpilot-auto`, forwards the
request, fails over when a provider does not answer, meters what was produced and charges
the customer's wallet.

This directory holds TLA+ modules for its parts, TLC configurations that check them
on small instances, and proofs checked by TLAPS. `PROJECT.json` lists the runs, the source
lines behind every definition, one mutation per checked property, the hazards of the code and
where the code and its documentation disagree.

    tlc -workers 2 -config MCBilling_delivery.cfg MCBilling      a run
    tlapm BillingProofs.tla                                      the proofs of a module

Paths below are relative to `src/backend`.

## Inventory

| component | source | state | operations | interacts with |
|---|---|---|---|---|
| Wallet billing | `services/cost_service.py`, `_bill` in `api/routes/model.py`, `lifespan` in `main.py` | the set `_background` of tasks, the dead-letter file | `calc_cost`, `spawn`, `_fire_charge`, `_dead_letter`, `drain` | started by the handlers, posts to the wallet, drained at shutdown |
| Exchange rate | `services/cost_service.py` | cached rate, time of the last fetch, time of the next attempt | `get_inr_rate`, `cached_inr_rate` | awaited by billing |
| Pricing | `services/cost_service.py` | none | `price_usd`, `estimate_turn_usd` | billing, model access |
| Request handlers | `api/routes/model.py` | per request: access, meter, whether output has started | `model_chat`, `_stream_chunks`, `_failover`, `_schedule_stream_billing` | everything else |
| Circuit breaker | `services/provider_health.py` | per model: consecutive failures, `open_until` | `is_available`, `record_success`, `record_failure` | written by the handlers, read by model access |
| Model access | `services/model_access.py` | none; reads sessions, breakers, spend | `open_model_access`, `next_auto_access`, `_pinned`, `_cache_aware`, `_auto_score` | router, scorer, verifier, sessions, keys |
| Auto router | `services/auto_router.py` | none | `select_model`, `candidates` | model access |
| Context floors | `services/auto_context.py` | none | lower bounds on a score | model access |
| Auto sessions | `services/auto_session.py` | an LRU map with expiry, the spend of a day per key | `get_session`, `save_route`, `record_spend`, `spent_today_usd` | model access, handlers |
| Key service | `services/key_service.py` | cached secrets with an expiry | `verify`, `resolve_api_key` | model access |
| Complexity scorer | `services/complexity_scorer.py` | none | `score_request` | model access |
| Complexity verifier | `services/complexity_verifier.py` | cached verdicts | `verify_score`, `reconcile` | scorer, a small model |
| LLM transport | `llm/llm_client.py` | HTTP clients | `complete`, `stream_chat_raw`, retries, fallback to another endpoint | handlers, providers |
| Anthropic client | `llm/anthropic_client.py` | a stash of the blocks of past turns | translation of requests, replies and stream events | transport |
| PII pipeline | `pii/pipeline.py`, `pii/patterns.py` | none | `redact`, `restore` | handlers, pseudonymizer |
| Pseudonymizer | `pii/pseudonymizer.py` | none of its own | `pseudonymize`, `restore` | mapping store |
| Mapping stores | `pii/store.py` | placeholder to original and back; a file, Redis or a table | `get_by_*`, `put`, `_flush`, `close`, `_load` | pseudonymizer, a flush thread |
| Configuration, metrics, debug, logging | `config.py`, `pii/config.py`, `pii/metrics.py`, `debug.py`, `logging_config.py` | read at start; counters | | |

What is hard, and what makes each part correct:

- **Billing.** Two tasks per turn, a wallet without idempotency keys, retries, timeouts,
  cancellation at any await, tasks that appear while a shutdown is waiting for others. Correct:
  at most one charge per turn; a record for every charge that is not known to have been
  applied; a record that says the wallet was never reached is right; everything ends.
- **Exchange rate.** Three globals that concurrent turns read before an await and write after it,
  and a clock that starts with the machine. Correct: until a fetch fails, nothing is
  priced at a rate that has outlived the cache.
- **Serving.** Output is sent while the call may still fail; clients leave at any await; the
  breaker is shared by concurrent requests. Correct: exactly one bill, for the model whose output
  was sent; no answer from two models; failover tries what it can and ends.
- **Keys.** A cache that outlives what it caches, two ways to a key, a service that may refuse, be
  silent or be out of reach. Correct: our key goes only with a request that was verified, a model
  that has a price, and for a bounded time after it was replaced.
- **Transport.** Retries of the endpoint, of the SDK and of the fallback, around a stream that may
  have begun. Correct: nothing is asked twice once a part of the answer is out.
- **Translation.** A later message can change how an earlier one is rendered; a stash may
  have forgotten a reply, or know another with its text. Correct: what is sent is
  accepted, and begins as the last request did where the stash and the ids allow; what comes back is whole but for inputs that
  were cut short; stream and complete reply agree.
- **Auto.** Scores clamp and round through five layers; a chat is remembered by a store that
  evicts, by a line in its own text and by the client; caps change under way; spend is
  checked early and recorded late. Correct: within the cap, slow to fall, still in a tool loop,
  monotone in difficulty, a budget overrun, but for tool loops, by no more than is under way.
- **Redaction.** Any stretches may match and overlap. Correct: the redacted text stands for the original,
  which is restored unless a placeholder is glued to its neighbours, and a value stays readable only where a stronger match took its place.
- **Mapping stores.** A thread flushes outside the lock; the process dies at any point; writes
  fail. Correct: the file is whole, nothing saved is lost, what is put is saved.
- **Pseudonymizer.** Suffixes collide by design, and the store may be shared. Correct:
  placeholders are reversible and stable, and the search for one ends.

`hazards` in `PROJECT.json` lists them line by line, with the properties that would notice.

## Modules

| module | models | extends / instantiates |
|---|---|---|
| `ChargeLedger` | abstract: what delivery promises of one charge at a time | |
| `Billing` | billing tasks, wallet, shutdown | instantiates `ChargeLedger` |
| `RateCache` | the exchange rate's cache under concurrent fetches | |
| `Breaker` | the circuit breaker | |
| `Serving` | handlers, failover, metering, over a shared breaker | `Breaker` |
| `Access` | who may call what, with which key | |
| `ProviderCall` | abstract: what one call to a provider promises the handlers | |
| `Transport` | one call with its retries and its change of endpoint | instantiates `ProviderCall` |
| `ProviderRequest` | messages and parameters as each provider gets them | |
| `TTLStore` | the bounded map with expiry that three parts share | |
| `Claude` | stream events to chunks, the stash, replies rebuilt from it | `TTLStore` |
| `AutoRouter` | tiers, efforts, candidates, `select_model` | |
| `Preferences` | modes, caps, the daily budget | `AutoRouter` |
| `Routing` | a chat on Auto: floors, sessions, pinning, warm models, failover | `AutoRouter`, `TTLStore` |
| `ComplexityScorer` | the computed score | |
| `ComplexityVerifier` | its check by a model, and the verdicts kept | `AutoRouter`, `TTLStore` |
| `Overlaps` | overlapping matches and the text that replaces them | |
| `Pseudonymizer` | `pseudonymize` over the mapping stores | |
| `FileStore` | the file-backed store and its flushes | |
| `BasicProofs` | what the other proofs share: least counterexamples, recursive functions, the entries of a `TTLStore` | `TTLStore`, `TLAPS` |
| `BillingProofs`, `ServingProofs`, `ClaudeProofs` | proofs | the module of that name |
| `ProvidersProofs` | proofs about rates, keys, calls and requests | `MCProviders`, `ClaudeProofs` |
| `RouterProofs` | proofs about tiers, the budget and the score | `Preferences`, `ComplexityScorer` |
| `RoutingProofs` | proofs about a chat and about the verifier | `MCRouting`, `RouterProofs` |
| `RedactionProofs` | proofs about matches, placeholders and the file | `MCRedaction` |
| `MCBilling`, `MCServing`, `MCPseudonymizer` | instances for TLC | the module of that name |
| `MCProviders` | one run for what lies between a request and an answer | `Access`, `RateCache`, `Transport`, `ProviderRequest`, `Claude` |
| `MCRouting` | one run for Auto | `ComplexityScorer`, `ComplexityVerifier`, `Preferences`, `Routing` |
| `MCRedaction` | one run for redaction | `MCPseudonymizer`, `Overlaps`, `FileStore` |

Definitions under a comment that begins with "Mutation" are not part of the model: each is a
mistake the code could have made in the definition after it, and the property named in
`PROJECT.json` is violated when it takes that definition's place.

### Billing and ChargeLedger

The process is one event loop, so an action is the code from one await to the next. A turn that
ends starts a `_bill` task (`bill`), which waits for the exchange rate and starts a
`_fire_charge` task (`fire`, with its loop variable `attempt`). `wire` says what became of the
one request that a delivery can post, `applied` how often the wallet has applied the charge:
both are external, and a request that timed out may still be applied later. `dead` holds the
dead-letter records with their reason; the medium is the file, or the log when the file cannot
be written. `phase`, `awaited` and `cancelled` are the shutdown: `drain()` takes a snapshot of
the live tasks, waits, cancels what is left and gathers it; then the loop closes and cancels
whatever is live by then. A cancellation becomes a `CancelledError` at the task's next step,
which is why it is a set and not an action that ends the task. Amounts are left out.

`ChargeLedger` has four steps: apply, acknowledge, write off (never if the charge was applied),
doubt. `ImplementsLedger` says that `Billing` implements it; the refinement mapping is in
`Billing`. Written off is what was recorded as `no_url` or `unreachable`. "wallet refused: HTTP ..." is a doubt:
it is recorded for any answer that is not 2xx, and behind a gateway that answers 502 or 504 the wallet may have
applied the charge or may do so later. So `SafeReplay` says which dead letters can be replayed, and those are not among them.

### RateCache

`get_inr_rate` as any number of turns run it: the test of the cache is one step, the answer of a
provider (or the failure of each in turn) another, and between them other turns may fetch, return
and overwrite the globals with the instant at which *they* began. A rate is the instant at
which it was quoted, and uptime starts at any of several values, because `_rate_fetched_at` is
0.0 at the start and `time.monotonic()` may be small.

### Breaker and Serving

`Breaker` has the count of consecutive failures and the time until which a model is passed
over, as a countdown `cooling` with a flag `opened`, because only whether the time is over
matters. `Serving` has slots for requests. A slot that is over is used again, so overlapping
and consecutive requests are both covered. `req` is what a handler holds (the model called, what
is left to fail over to, the meter, the billing tasks it has started); `hist` and `streak` are
history for the properties. `priced` are the models with a price: configuration, constant in a
behaviour as in a process. The key of a model is not: every search for a candidate may ask AWS,
which may refuse at any time and hand the key out in the second pass, or raise something that
`get_server_key` does not catch (`Call`, `NothingFound`). So a passing failure of AWS drops a candidate for good,
`keyless` in the history, and a raised one ends the request with candidates left, `raised`; `FailoverIsExhaustive`
allows for these two and no other. (DeepSeek's key is in hand when an Auto request opens, and a cached key
cannot be refused; the model lets every lookup fail.) The
router's candidates are any list of different models (`Chains`), which `RoutedAsAsked` checks of
`AutoRouter`. A failure is of the request (a 4xx that another model might accept, which the
breaker does not count) or of the provider, which is what `Transport` raises. One call here stands for all
that the transport and the SDK do in it: work that a provider did, and billed, for an attempt that was
then repeated is in no count.

### Access

`open_model_access` up to the call: what is refused before anybody is asked, the verification by
the wallet service, and our key from the cache or from AWS, in the order of the awaits.
AWS answers, reports an error, or cannot be reached; the last is not caught where the second
is. Somebody replaces a key once. An Auto request gets DeepSeek's key first and then looks for
the first candidate with a price and a key.

### Transport and ProviderCall

One call: native endpoint (Claude) or compatible one, streamed or complete, each failure of a
kind that is transient, the caller's fault, of the key, or none of these. `given` counts the
chunks handed on by the attempt they come from. `ProviderCall` promises chunks of one answer and
then an end or one error; `ImplementsProviderCall` is the refinement, and `Serving` is written
against that promise (`CallFails` before output, `StreamBreaks` after).

### ProviderRequest

A chat grows by one message at a time: text, silent replies, tool calls, results, images, system
messages in the middle, calls and results without an id. `CompatParams` and `NativeParams` are the two
`_params`, for every model and everything a client may ask for; `CompatPrefill` and `NativePrefill` say whether
the messages end as a prefill does. `Render` is `to_anthropic_messages`: the list of system texts, which the provider
reads first, and the turns; a set of message numbers stands for the list, which is in their order. What else a
rendering depends on is in `Readings`: `found` is what the stash answers for each reply, chosen anew for every
request (`_assistant_blocks`; how the stash comes to an answer is in `Claude`), and `id` is the one that `_tool_id`
draws at random where a message has none, another in each request. `PrefixIsStable` compares the request for a
chat with the next one, and claims no more than what the code does: the turns of a beginning of the chat, all but
the last of them, are the same in both where the stash answers the same for that beginning and no id is
missing in it; so a reply that the stash has forgotten costs no turn before it. The system texts change only by a new one,
which is rendered before all turns. Cache breakpoints are marks on the blocks and are left out.

### TTLStore and Claude

`TTLStore` is the sequence of entries, least recently used first. `Claude` produces a reply event
by event (blocks of thinking, text and tool input in any order, character by character up to
`MaxText`), hands on chunks, stores the layout of a reply that has thinking, and then sends any of
the replies back, exactly or trimmed, with the stash as full and as old as it may be by then.
White space is significant: the route line that Auto puts in front of a reply ends in two line
breaks and is stripped again by `api/routes/model.py`. The input of a tool call comes in parts and parses once
the part that closes it is there (`Parses`); a stream may end before (`max_tokens`). `ToolInput` is `_tool_input`,
which turns an input that does not parse into `{}`, here the empty sequence: `SentBackWhole` says that a call goes
back with its input if that is whole, and that only these inputs are lost.

### AutoRouter, Preferences, Routing

`AutoRouter` is operators only; `DEFAULT_TIERS` is the table in the source. `Preferences` is one
customer: the requests of a day, what they cost, midnight between a request and its bill.
`Routing` is one chat, a request at a time, in the steps of `_open_auto`: the session is read
(`_sessions`), then the score comes back after an await, and is raised by the floors, then routed, pinned or kept
warm; the route is saved before the answer and again when a failover has moved it. `Elsewhere` is another chat, which
matters only for eviction. Steps of a tool loop skip scoring when their chat is remembered. `work.pinned`
is the branch of `_open_auto` that pins; `route` is history.

### ComplexityScorer and ComplexityVerifier

The scorer's text is the set of phrases in it that some pattern matches: one or more phrases stand
for each rule, with their task, scope, components and so on as tables. From there on every rule
is there: which tasks close others, widening by files, depth, the seven dimensions, rounding,
confidence. It was compared with the Python on some 47,000 inputs of the model: scores are equal, confidence
may differ by 0.01 where Python rounds an exact half to even. The verifier is when a second
model is asked, how its verdict is bounded by the guard band (closer for text that tries to
influence it), what is remembered, and concurrent requests for the same text.

### Overlaps

Characters are positions and matches are any stretches with any of a few patterns (a priority,
and whether a group inside is the value). The sweep is the loop of `redact`: sorted, a winner
per overlap, pieces of output in order. `Restored` is `restore()` on the redacted text: its regular
expression asks for a word boundary on both sides, so a placeholder that is `Glued` to a word character
or to another placeholder is not found, or taken for another (`EMAIL_B921` before `_1`).
`RestoredExactly` therefore promises the text back only where none is glued, whichever characters of
the text are word characters, and says of every output that it stands for the text, piece by piece.
A text that spells a placeholder of the store before it is redacted is not modelled: `restore()` would replace that too.

### FileStore

A thread in `_flush` is before the `open`, the write or the `os.replace`. All flushes share one
temporary file, and a thread goes on writing to the file it has opened when another thread
renames it: `fd` says which of the files that is. An `OSError` can come at each step. `Restart`
stands for a crash at any point and the `_load` that follows. `Overlap` says whether `close()` may
be called while the flush thread is at work. A flush that fails leaves the flag clear and is not
tried again, so `EventuallySaved` ends at a failure. In the code the only caller of
`close()` is `RedactionPipeline.close()`, which the server itself does not call; calls
of it are about a user of the library.

### Pseudonymizer

One action per call to the store. `original` and `existing` are the two directions of the
store; `table` makes it a database, which ignores a second row for a placeholder and may return
any of the placeholders of a value. `Suffix` is an arbitrary function, so that collisions (of
truncated hashes, or of the local parts of e-mail addresses) are choices of the instance. The
text of a placeholder is a record: no type's name followed by "_" is a prefix of another's, so
`startswith` compares types. `Crash` leaves the store as it is: true of Redis and SQLite, and of `FileStore` for what it
has saved. With the default backend, memory, a process begins again with an empty store, so `Reversible`
and `Stable` then say something for one life of the process only; what `FileStore` loses is `FileStore`'s business.

## Runs

| run | shows |
|---|---|
| `billing_delivery` | two turns: at most one charge, honest dead letters, nothing dropped by delivery; every turn settles, every shutdown ends; the ledger is implemented |
| `serving_two` | two overlapping requests, two models: billing, one model per answer, failover, breaker |
| `serving_three` | three models: every request ends |
| `providers` | keys in order; fresh rates; a call repeated only if safe, implementing `ProviderCall`; nothing refused is sent, the beginning of a request stays while stash and ids allow; streams agree with complete replies and replies go back whole, but for inputs cut short |
| `routing` | a request that asks for more never scores less; opinions stay in their band; the budget's overrun is bounded; routes as asked; tool loops stay, scores fall slowly, Claude's effort is kept, caps hold for scored requests |
| `redaction` | restored exactly, a match loses only to a stronger one; placeholders reversible and stable in one process, every search ends; what is saved stays, what is put is saved |
| `billing_shutdown` (violation) | `drain()` loses the charge of a pricing task it cancels |
| `serving_dropped` (violation) | a model passed over for its breaker is not tried when the others fail |
| `filestore_corrupt` (violation) | two flushes at once tear the file |
| `pseudonym_shared` (violation) | two processes give one placeholder to two values |
| `claude_twins` (violation) | two replies with one text share a place in the stash |
| `routing_cap` (violation) | a step of a tool loop fails over to a model above the cap |

`providers`, `routing` and `redaction` each check several parts that share no variables. The
variable `unit` says which part runs in a behaviour, while the others stay in one state, so the
state space is the sum of the parts', not their product.

**Bounds.** Two turns are enough for every interaction in `Billing`: turns share nothing but the
shutdown, and one that is being priced while another is delivered is the interesting pair. Two
retries have a first, a middle and a last attempt; the
proofs cover any number. Two requests suffice to race for a breaker and three models to fail
over twice, with a threshold of two failures. `RateCache` has three turns, so that a
fetch is overtaken by one that is itself overtaken, two providers, and starts below and
above the lifetime. `Access` has two requests with every pair of keys and models, two providers, and
time enough for a secret to expire once. `Transport` has the three attempts of the default configuration and
a status of each class. `ProviderRequest` has four messages: enough for a system message between
a call and its result, with a reply before; two layouts tell a layout found before from one found now. `Claude` has two replies of three blocks and a stash of one entry,
so that one evicts the other, and inputs of two parts, so that one is cut short with something in it. `Routing` uses the source's tiers, the verdicts at the ends
and middle of the scale, two user turns in four requests, two models that may be down; `Preferences`
two requests at once over two days; the verifier two concurrent requests; the scorer all sets of three
out of twenty phrases with two counts of files. In `Overlaps` three matches over four characters
give every order of nesting, touching and crossing. In
`FileStore` two threads are all there are in a process, and two mappings tell an old snapshot
from a new one. Three values with one suffix reach the counter's
second value, so that a candidate is taken, the next one taken too, and the third free. Every
bound is a constant of its module (`MaxFetch`, `RateHorizon`, `Horizon`, `MaxTime`, `MaxReplies`,
`MaxBlocks`, `MaxText`, `MaxMessages`, `MaxChunks`, `MaxTurns`, `MaxSteps`, `LastTime`, `MaxAsks`,
`VerifierHorizon`, `MaxSpend`, `Days`, `MaxPhrases`, `MaxMatches`). `MaxFetch` is not only a bound: it is the
sum of the fetch's timeouts.

Symmetry is used only in `serving_two`, on the slots, which its properties treat alike. Deadlock is
checked except where the system stops: `Billing` after the loop has closed, a call that is over in
`providers`, and the bounded chats, requests and days of `providers` and `routing`.

**Fairness.** `Billing`: the event loop runs what is ready, every network operation has a
timeout (`_CHARGE_TIMEOUT`, the rate fetch's five seconds, `drain`'s twenty), and nothing is
assumed of the wallet. `Serving`: a call to a provider ends, since the transport has timeouts
and few retries and an answer has a bounded number of tokens; no fairness for clients or for the
choice between success and failure. `redaction`: the operating system runs threads and file
operations return, the flush thread wakes up again, and a call of `pseudonymize` goes on until it
returns; none for `put`, `close()` and crashes. The other runs have no liveness property and assume none.

## Proofs

Each module of proofs is about its components for every value of the constants that their
`ASSUME`s allow. None of the invariants below is inductive by itself. What is assumed beyond the
`ASSUME`s is a hypothesis in the theorem's statement, and is named here.

### Billing and serving

`BillingProofs`, for every set of turns and every number of retries: type correctness,
`NoDoubleCharge`, `SafeReplay`, `NothingDropped`, and the refinement of `ChargeLedger`.
`NoDoubleCharge` counts what
the wallet has applied; that the count stays at one needs that a second request is never posted,
and this needs `Unsent`: a delivery that may still post has nothing on the wire and nothing on
record. `RetryLeft` keeps the attempts in range, `AppliedOnce` ties the count to the wire, and
`DefiniteRecords` says that a definite reason is recorded only where nothing was sent. `IInv` is their conjunction. The refinement uses it step by step.

`ServingProofs`, for any models, lists of distinct candidates, slots and settings of the breaker (a threshold
below one included): types, `BilledForWhatWasServed`, `NoModelTriedTwice`, `FailoverIsExhaustive`,
`OpenOnlyAfterFailures`, `OneModelPerAnswer`. A request is `Good` if its meter follows what was
sent (`Metered`), if what is left has no duplicates and was not tried (`Untried`), and if each
candidate with a price was tried, passed over, refused a key or is left (`Exhausted`). Each step makes a good request of a
good one; the search for a candidate, which all failovers share, is two lemmas: what it finds (`CallIsGood`) and
what it has covered if it finds nothing (`NothingFoundCovers`).

### Between a request and an answer

`ProvidersProofs` has four parts, and at the end the types of all that `MCProviders` puts together
(`ProvidersTypesKept`).

- The exchange rate, for any turns, providers, lifetimes and uptimes: `PricedFresh`. As long as no fetch has
  failed, the two times of the cache stem from the same fetch and the rate is no older than they say
  (`CacheInStep`), although a fetch that ends late may set all three back, and no
  call began in the future (`BeganBefore`); so a cache hit is a rate of age below the lifetime.
- Keys, for any customers, models, providers and lifetimes: `OurKeyInOrder`. A replaced key that
  is still cached was fetched before the replacement, so its entry ends within the lifetime
  (`CacheInOrder`), and what a request has in hand was usable when it got it and was given only after
  what had to come before it (`HandInOrder`).
- The transport, for any number of retries and any failures: `RepeatedOnlyIfSafe` and the refinement
  of `ProviderCall`. Every answer given so far comes from one attempt (`OneAnswer`), and each earlier
  failure was one that may be repeated (`SafeSoFar`).
- The request, for chats of any length and anything a client may ask for: `PrefixIsStable` and
  `NothingRefusedIsSent`. Both hold because of what rendering is. Merging
  is a recursion over the messages as they are read, so two requests that read the first `k` messages alike
  have the turns of these, up to the one in which the next message lands (`StepsAgree`, `MergedGrows`,
  `PrefixKept`, and `BeginningKept` for any number of messages after them); joining never leaves two turns
  of one role side by side (`JoinedKeeps`, `Alternates`), which is why the removal of one trailing reply
  removes every prefill (`PrefillGoes`).

### Auto

`RouterProofs`, for every table of tiers that passes `_check_tiers`. `FailoverIsRight` says what the
candidates of a decision are: each allowed tier's row, nearest first, nothing above the
cap but the fallback, none twice. `OverrunBounded`, for any concurrent requests, costs and days,
from `PartOfSpend` (the day's spend is what was billed of the three kinds of requests: those that found the budget
not reached, those that got its cap, pinned steps), `NoBudget` (without a budget there is only the first kind) and `BudgetHeld`
(what the first kind has spent, with the most that each open request of it may add, is within the bound); they are
needed because a request is admitted on one day and billed on another. `RoutedAsAsked` says that a
harder task never gets less, and this is false of some tables that `_check_tiers` accepts: the
theorem is about tables whose primary models differ and whose efforts ascend
(`TiersInOrder`), and `DefaultTiersInOrder` proves that the table in the source is one.

Its last section is the scorer, for any vocabulary and any numbers of files: `MoreIsNeverLess`. Each dimension
grows with the text and with the scope (`DependenciesGrow`, `DepthPointsGrow`, `SecurityPointsGrow`,
`DependencyPointsGrow`, `TaskPointsGrow`; their folds are maxima over finite sets, of which there is
always one), rounding and clamping keep the order (`RoundingGrows`), so a text
that has grown scores no lower for the same task at the same scope or a wider one (`ScoreGrows`). The
property relates one verdict to the next, and the edit lies in a step between them. So the invariant
(`ScorerInv`) is that the last score is no more than what the request would get now for the
same task, at the same scope or at any wider one.

`RoutingProofs`, first the verifier: `OpinionIsBounded`, for any texts, verdicts and lifetimes. A stored
verdict is backed by the score that was computed for its text (`VerdictsBacked`) and so is what a request
waits with (`RequestBacked`), whichever request has put it there.

Then a chat: types, `ScoredWithinCap`, `LoopStaysPut`, `ScoreFallsSlowly` and `ClaudeEffortKept`, for
any floors, caps, lifetimes and sizes of the store. What other chats do to the store of sessions can
only make it forget: an entry of this chat is its last route (`Remembers`), the route line
is never ahead of that route (`History`), and a request under way holds what was remembered when it
came and serves within the cap it came under (`Serviced`). The three last properties are about steps and follow
from the invariant for each way in which a score comes about (`StickyHolds`, `RaisedHolds`,
`CacheAwareIsRight`). `ClaudeEffortKept` has one hypothesis: the fallback model is not one of Claude. In
`config.yaml` it is not; were it one, a request without a usable score would fall back to it with no effort.
`AutoTypesKept` are the types of all four parts of Auto, side by side as `MCRouting` has them.

### Replies and redaction

`ClaudeProofs`, for replies of any number of blocks and any length. First `StreamAgreesWithComplete`. What has
reached the client is, event by event, the route line followed by what a complete reply would have of
the blocks so far (`ChatInStep`), and a delta of a tool call's input goes to that call of the reply
(`ToolsInStep`), although blocks of text and thinking lie between calls. Parts of a reply are gathered by
concatenation (`ListGrows`). `LineStripped` is the last step: stripping the route line removes it and
nothing more. The `ASSUME` that no text of a model has a route line of its own is needed here.

Then `SentBackWhole`, for any number of replies, sent back trimmed or not, and a stash of any size
and lifetime. All that it speaks of (a reply's text, its calls, the thinking, the white space left
out) is gathered from the elements of a list, each giving its part, so one lemma about such gathering
serves them all: two lists put together give the parts of both, and to gather from what was gathered is to
gather once. About the operators: `strip` takes white space and nothing else; nothing is
stripped through the route line; `_tool_input` leaves a reply its text, its calls and its layout
(`UsableList`, `UsableCalls`); a text that comes back unchanged is cut into the very pieces it came from,
and one that was changed is written once, in the place of the first (`FilledInKeeps`). The invariant
(`SendInv`) says what these meet in the stash: an entry is the layout of an earlier reply, under the key of
that layout, and a tool call names the reply it is of. So a layout found under the key of
a reply with calls is that reply's own, and one found for a reply without calls has the same text, the white space around it
apart: this is enough for the text, the calls and their order, and not enough for the thinking, which is what the run
`claude_twins` shows.

`RedactionProofs` has three parts.

- Matches, for a text of any length, any patterns and whatever they match: `RestoredExactly` and
  `LosesOnlyToStronger`. There is one order in which the matches are taken up
  (`SortedIs`); after each step the accepted ones are apart and every other one lost to a stronger
  accepted one (`ResolvedIs`); the pieces of output join end to end (`Chain`), no piece in clear has a
  character of an accepted value (`Discreet`), and each accepted value is hidden by a piece of its own
  (`Hides`); a chain from the first character to the last stands for the text (`ChainRestores`), which is
  what `restore()` gives back if it finds every placeholder.
- Placeholders, for any values, types, suffixes and either kind of store, for a process
  that has its store for itself (`OneProcess`, false in the run `pseudonym_shared`): `Reversible`
  and `Stable`. The invariant says that every placeholder stored, under check or
  handed out is *canonical* for its value: all candidates before it are taken by other values. What
  is taken stays taken by the same value, because a process alone saves only what it found free.
  So a value has one canonical placeholder that stands for it, whichever way it was found.
- The file, for any mappings and threads, if flushes do not overlap (`~Overlap`, false in the run
  `filestore_corrupt`): `FileIsReadable` and `SavedForGood`. One thread at most is in a flush (`Apart`),
  what it renames is its own snapshot, whole (`WrittenWhole`), and a snapshot has all that the
  file has (`NothingForgotten`), also after a restart.

The types of the three, side by side as `MCRedaction` has them (`RedactionTypesKept`), need neither
hypothesis: they hold for processes that share a store and for flushes that overlap.

### How induction is done, and what is not proved

Sequences, tables and recursive functions call for induction over data. Where a
property of every length is needed, its least counterexample is taken (`LeastIsThere`), and it is
shown that there is a smaller one. What a recursive function computes follows from its equation, and that
it satisfies its equation from `RecursionDefines`.

Every invariant and every action property of the passing runs is proved. Only model-checked:

- all liveness (`EveryTurnSettles`, `ShutdownCompletes`, `EveryRequestEnds`, `EveryCallReturns`,
  `EventuallySaved`), which is beyond the proof system, as is `ENABLED`, and with it the absence of deadlock;
- the runs that expect a violation, each of which is a counterexample to a claim and needs no proof.
  Two of them mark the hypotheses of theorems: `OneProcess` and `~Overlap`.

What the theorems say of the code is bounded by the models: the places where a run tries some of many
inputs (the scorer's vocabulary and payloads, the floors of `Routing`) are constants of which the proofs ask
only what the `ASSUME`s say; a table that is written in the scorer's source is a definition, and the proofs
are about that table.

## Where code and documentation disagree

The six runs marked as violations; `findings` in `PROJECT.json` quotes the lines. Beside these, without a run:

- `_fire_charge` catches `httpx.HTTPError` only: a `USAGE_CHARGE_URL` that does not parse ends the
  delivery without a record, though `_dead_letter` says "never dropped"
  (`services/cost_service.py`).
- The comment on charge delivery sets "outright refusals (non-2xx)" apart from the requests whose outcome is not
  known, and the dead letter says "wallet refused"; the answer may be a gateway's (502, 504) and the charge applied
  (`services/cost_service.py`).
- All requests that wait for the end of a cooldown probe the model, where the header of
  `services/provider_health.py` speaks of one request.
- "close() forces an immediate flush" (`pii/store.py`): during a flush of the thread it finds the
  flag clear and returns with nothing saved yet.
- When AWS cannot be reached at all, `botocore` raises something other than the `ClientError` that
  `_fetch_key_from_aws` catches, and the client gets a status 500, not 503. During a failover this ends a request
  that has candidates left, though `_servable` "returns `problem` instead of raising, so the caller can fall back
  rather than fail the user's request".
- `skip_verification` skips a check that "cannot change the route" because the score is a margin of
  one inside its tier; the guard band is six, so it can.
- The docstring of the scorer's `_confidence` says that it is low for near-ties between tasks; with
  the other evidence in place it can still reach the value from which the verifier is not asked.
- `restore()` says "Replace all known placeholders in text"; one that stands right next to a word character
  or to another placeholder is not replaced (`pii/pseudonymizer.py`), and nothing in `_apply` keeps them apart.
- "past the budget, Auto is capped at budget_cap_model" (`config.py`): a step of a tool loop is pinned to the model
  that began the loop, above the cap or not, and goes on spending. `OverrunBounded` counts these steps apart and
  sets no bound on them.
- "the same history always renders the same request" (`llm/anthropic_client.py`): the rendering also depends on the
  stash, and a tool call or a result without an id gets a random one each time. `_TurnStash` says that "a miss only
  costs the reasoning and cache of that one turn"; a reply that is rendered otherwise ends the cached prefix for
  all turns after it, and so does a system text said later, which goes before all of them. `PrefixIsStable`
  has these as its conditions.
- When a reply returns "it is rebuilt exactly as Claude produced it" (`llm/anthropic_client.py`): a tool call that
  `max_tokens` cut short goes back with the input `{}` (`_tool_input`).
- After a request whose score could not be used nothing is saved, so a step of its tool loop goes
  to the model of an older request, if that is remembered.

## Not modelled

- `Pricing`: sums of floating-point rates. Where something depends on them it is a choice: whether a model has a
  price, whether staying on a warm model is cheaper, what a turn costs.
- The text of prompts, answers, placeholders and logs; regular expressions, word lists and entropy
  filters of the scorer and of the patterns; the injection detector's rules and the parsing of the
  verifier's reply, which are choices.
- The second, deobfuscating pass of redaction, which works on characters.
- The history and long-context floors read the text of earlier messages; `Routing` takes any floor of a
  set for them, and one set per run.
- Two concurrent requests of one chat, chats that are edited or regenerated in the middle, two
  chats that begin with the same message and therefore share a session,
  and a turn that fails over late over a newer one.
- The tokens of usage, images' contents, `available_models`, the side jobs of chat clients (titles,
  summaries).
- An exchange rate that moves within a day of `Preferences`; a cap that names no tier, beyond that it is ignored.
- SIGKILL and a second interrupt of uvicorn during shutdown (both may lose a charge, and no
  comment says otherwise); the amounts of charges.
- Configuration, metrics, debug output, CORS and routes: declarations or wording.

## What could come next

Model, rather than proof: what is listed above as not modelled, of which a chat with two requests at once,
or one that is edited in the middle, would say most. It takes sessions that are read by one request and written
by another, and floors that are computed from the messages instead of chosen.
