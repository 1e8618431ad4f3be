------------------------------ MODULE RateCache ------------------------------
(***************************************************************************)
(* The cached exchange rate of services/cost_service.py: get_inr_rate() as *)
(* the billing tasks of concurrent turns run it.  The three module globals *)
(* are read before the providers are asked and written after they answer,  *)
(* with nothing that keeps two turns from asking at once.  A rate is       *)
(* identified by the time at which a provider quoted it.  Monotonic time   *)
(* starts with the machine, not with the process: Boot is the uptime at    *)
(* which the module is imported.  USD_INR_RATE is not set.                 *)
(***************************************************************************)
EXTENDS Integers, FiniteSets

CONSTANTS
    Turns,          \* the billing tasks that ask for the rate, once each
    Providers,      \* how many providers are tried in order
    TTL,            \* _RATE_TTL_SECONDS
    RETRY,          \* _RATE_RETRY_SECONDS
    MaxFetch,       \* the longest time all providers take to answer
    Boot,           \* the uptimes at which the process may start
    RateHorizon     \* bound: the last instant of the model

ASSUME RateCacheAssumption ==
    /\ Providers \in Nat \ {0}
    /\ MaxFetch \in Nat /\ RETRY \in Nat /\ TTL \in Nat /\ RateHorizon \in Nat
    /\ MaxFetch < RETRY /\ RETRY < TTL
    /\ Boot \subseteq 0..RateHorizon

VARIABLES
    uptime,         \* time.monotonic()
    cached,         \* _cached_inr_rate
    fetchedAt,      \* _rate_fetched_at
    nextAttempt,    \* _rate_next_attempt
    call,           \* call[t]: where turn t is in get_inr_rate()
    fetchFailed     \* history: whether a fetch has failed

rateVars == <<uptime, cached, fetchedAt, nextAttempt, call, fetchFailed>>

NoQuote == -1       \* _FALLBACK_INR_RATE, which nobody quoted

CallState == [pc : {"idle", "fetching", "done"}, began : 0..RateHorizon,
              provider : 1..Providers, rate : {NoQuote} \cup (0..RateHorizon)]

RateInit ==
    /\ uptime \in Boot
    /\ cached = NoQuote
    /\ fetchedAt = 0
    /\ nextAttempt = 0
    /\ call = [t \in Turns |-> [pc |-> "idle", began |-> 0, provider |-> 1, rate |-> NoQuote]]
    /\ fetchFailed = FALSE

Fresh == uptime < nextAttempt \/ uptime - fetchedAt < TTL

\* The call answers from the cache, or reads the clock and goes to the providers.
AskRate(t) ==
    /\ call[t].pc = "idle"
    /\ call' = [call EXCEPT ![t].pc = IF Fresh THEN "done" ELSE "fetching",
                            ![t].began = uptime, ![t].rate = cached]
    /\ UNCHANGED <<uptime, cached, fetchedAt, nextAttempt, fetchFailed>>

\* Mutation: the lifetime of a rate begins when the fetch ends.
EndFetchFromEnd(t, ok, quote) ==
    /\ cached' = IF ok THEN quote ELSE cached
    /\ fetchedAt' = IF ok THEN uptime ELSE fetchedAt
    /\ nextAttempt' = uptime + (IF ok THEN TTL ELSE RETRY)
    /\ call' = [call EXCEPT ![t].pc = "done", ![t].rate = cached']
    /\ fetchFailed' = (fetchFailed \/ ~ok)
    /\ UNCHANGED uptime

\* A fetch ends; success stamps the cache with the time at which the fetch began.
EndFetch(t, ok, quote) ==
    /\ cached' = IF ok THEN quote ELSE cached
    /\ fetchedAt' = IF ok THEN call[t].began ELSE fetchedAt
    /\ nextAttempt' = call[t].began + (IF ok THEN TTL ELSE RETRY)
    /\ call' = [call EXCEPT ![t].pc = "done", ![t].rate = cached']
    /\ fetchFailed' = (fetchFailed \/ ~ok)
    /\ UNCHANGED uptime

\* A provider returns a rate that it quoted at some moment since the call began.
Quoted(t) ==
    /\ call[t].pc = "fetching"
    /\ \E quote \in call[t].began..uptime : EndFetch(t, TRUE, quote)

\* A provider fails, or its answer holds no rate; the next one is tried.
Unquoted(t) ==
    /\ call[t].pc = "fetching"
    /\ \/ /\ call[t].provider < Providers
          /\ call' = [call EXCEPT ![t].provider = @ + 1]
          /\ UNCHANGED <<uptime, cached, fetchedAt, nextAttempt, fetchFailed>>
       \/ /\ call[t].provider = Providers
          /\ EndFetch(t, FALSE, NoQuote)

\* Time passes, but no fetch outlives its timeouts.
RateTick ==
    /\ uptime < RateHorizon
    /\ \A t \in Turns : call[t].pc = "fetching" => uptime - call[t].began < MaxFetch
    /\ uptime' = uptime + 1
    /\ UNCHANGED <<cached, fetchedAt, nextAttempt, call, fetchFailed>>

RateNext ==
    \/ \E t \in Turns : AskRate(t) \/ Quoted(t) \/ Unquoted(t)
    \/ RateTick

RateSpec == RateInit /\ [][RateNext]_rateVars

(***************************************************************************)
(* Properties.                                                             *)
(***************************************************************************)

\* Types of the state.
RateTypeOK ==
    /\ uptime \in 0..RateHorizon
    /\ cached \in {NoQuote} \cup (0..uptime)
    /\ fetchedAt \in 0..uptime
    /\ nextAttempt \in 0..(uptime + TTL)
    /\ call \in [Turns -> CallState]
    /\ fetchFailed \in BOOLEAN

\* However concurrent fetches overtake each other: until a fetch fails, no turn is
\* priced at a quote as old as the lifetime of a rate, and none at the fallback
\* rate, save on a machine whose uptime is below the lifetime, where the initial
\* 0.0 of _rate_fetched_at passes for a fetch (get_inr_rate).
PricedFresh ==
    \A t \in Turns :
        call[t].pc = "done" /\ ~fetchFailed =>
            IF call[t].rate = NoQuote THEN call[t].began < TTL
            ELSE call[t].began - call[t].rate < TTL
=============================================================================
