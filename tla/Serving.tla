------------------------------- MODULE Serving -------------------------------
(***************************************************************************)
(* Serving chat requests: the handlers model_chat and _stream_chunks of    *)
(* backend/api/routes/model.py, the choice of the model that serves an     *)
(* Auto request and of the next one when it fails (_first_servable and     *)
(* next_auto_access in backend/services/model_access.py), the breaker that *)
(* both use, and the metering and billing of what was produced.            *)
(*                                                                         *)
(* A request is a slot that is used again and again, so any number of      *)
(* requests follow each other and as many overlap as there are slots.      *)
(* Handlers run on one event loop: an action is the code between two       *)
(* awaits or yields. Providers and clients are external.                   *)
(***************************************************************************)
EXTENDS Breaker, Sequences

CONSTANTS
    Request,    \* slots for concurrent requests
    Chains,     \* the lists of candidates the router produces, best first
    NoModel

ASSUME ServingAssumption ==
    /\ NoModel \notin Model
    /\ \A c \in Chains : /\ c \in Seq(Model) /\ c # <<>>
                         /\ \A i, j \in 1..Len(c) : c[i] = c[j] => i = j

VARIABLES
    priced,  \* the models that are supported and have a price: configuration
    req,     \* the handler of each request and what it holds
    hist,    \* what happened to each request: history, for the properties only
    streak   \* history: failures of each model since its last success, up to Limit

vars == <<breakerVars, priced, req, hist, streak>>

Waiting == {"calling", "streaming"}              \* for the provider
Over    == {"idle", "done", "gone", "rejected"}
Answer  == Model \cup {NoModel}

Handler == [
    pc     : Waiting \cup {"erroring", "finishing"} \cup Over,
    auto   : BOOLEAN,                        \* access.is_auto
    stream : BOOLEAN,                        \* body.stream
    model  : Answer,                         \* access.upstream_model
    rest   : Seq(Model),                     \* access.fallback_models
    meter  : {"empty", "chunks", "usage"},   \* _StreamMeter
    bills  : Seq(Model),                     \* the model of each _bill task it spawned
    failed : BOOLEAN]                        \* it sent an error

History == [
    chain   : Chains \cup {<<>>},            \* the candidates, for an Auto request
    source  : Answer,                        \* the model whose output was sent
    tried   : Seq(Model),                    \* the models called, in order
    skipped : SUBSET Model,                  \* passed over for an open breaker
    keyless : SUBSET Model,                  \* its service key could not be fetched
    raised  : BOOLEAN]                       \* an exception ended the search for a model

TypeOK ==
    /\ BreakerTypeOK
    /\ priced \in SUBSET Model
    /\ req \in [Request -> Handler]
    /\ hist \in [Request -> History]
    /\ streak \in [Model -> 0..Limit]

Fresh == [pc |-> "idle", auto |-> FALSE, stream |-> FALSE, model |-> NoModel, rest |-> <<>>,
          meter |-> "empty", bills |-> <<>>, failed |-> FALSE]
NoHistory == [chain |-> <<>>, source |-> NoModel, tried |-> <<>>, skipped |-> {},
              keyless |-> {}, raised |-> FALSE]

Init ==
    /\ BreakerInit
    /\ priced \in SUBSET Model
    /\ req = [r \in Request |-> Fresh]
    /\ hist = [r \in Request |-> NoHistory]
    /\ streak = [m \in Model |-> 0]

-----------------------------------------------------------------------------
(* Choosing a model.                                                       *)

(* The places of a list whose service key one pass of _first_servable asks *)
(* for, as long as it finds none.                                          *)
Asked(list, respectBreaker) ==
    {i \in 1..Len(list) : list[i] \in priced /\ (respectBreaker => Available(list[i]))}

(* Mutation: the list is passed on with the chosen model still in it.      *)
RemainingWithChosen(list, i) == SubSeq(list, i, Len(list))

(* What is left to fail over to. Lists have no duplicates, so the code's   *)
(* "if m != model" removes nothing more.                                   *)
Remaining(list, i) == SubSeq(list, i + 1, Len(list))

(* The handler h, with the history g, goes on to a model of a list: the    *)
(* first whose key is handed out. Each lookup may ask AWS, which may fail  *)
(* any time, and the second pass asks again without regard to breakers;    *)
(* so either pass may stop at any place it asks for. Whatever is in front  *)
(* of that place is dropped, an unlucky lookup included.                   *)
Call(r, h, g, list) ==
    \E respectBreaker \in BOOLEAN : \E i \in Asked(list, respectBreaker) :
        LET refused == Asked(list, respectBreaker) \cap 1..(i - 1)
            passed  == {j \in 1..(i - 1) : respectBreaker /\ ~Available(list[j])}
        IN /\ req' = [req EXCEPT ![r] =
                [h EXCEPT !.pc = "calling", !.model = list[i], !.rest = Remaining(list, i)]]
           /\ hist' = [hist EXCEPT ![r] =
                [g EXCEPT !.tried = Append(@, list[i]),
                          !.skipped = @ \cup {list[j] : j \in passed},
                          !.keyless = @ \cup {list[j] : j \in refused}]]

(* How a search for a model goes that finds none: every key it asks for is *)
(* refused, or an exception that get_server_key does not catch ends it.    *)
NothingFound(g, list) ==
    {[g EXCEPT !.keyless = @ \cup {list[i] : i \in Asked(list, FALSE)}]}
        \cup {[g EXCEPT !.raised = TRUE] : i \in Asked(list, FALSE)}

-----------------------------------------------------------------------------
(* A request arrives.                                                      *)

(* _open_auto, from the end of its last await: the router's candidates, a  *)
(* servable one of them, or 503 (500 if the search raised).                *)
OpenAuto(r) ==
    /\ req[r].pc \in Over
    /\ \E list \in Chains, stream \in BOOLEAN :
          LET h == [Fresh EXCEPT !.auto = TRUE, !.stream = stream]
              g == [NoHistory EXCEPT !.chain = list]
          IN \/ Call(r, h, g, list)
             \/ /\ req' = [req EXCEPT ![r] = [h EXCEPT !.pc = "rejected"]]
                /\ \E n \in NothingFound(g, list) : hist' = [hist EXCEPT ![r] = n]
    /\ UNCHANGED <<breakerVars, priced, streak>>

(* A request for a given model: no candidates, and no breaker.             *)
OpenExplicit(r) ==
    /\ req[r].pc \in Over
    /\ \E m \in Model, stream \in BOOLEAN :
          /\ req' = [req EXCEPT ![r] =
                       [Fresh EXCEPT !.pc = "calling", !.stream = stream, !.model = m]]
          /\ hist' = [hist EXCEPT ![r] = [NoHistory EXCEPT !.tried = <<m>>]]
    /\ UNCHANGED <<breakerVars, priced, streak>>

-----------------------------------------------------------------------------
(* Billing and the breaker, as the handlers use them.                      *)

(* _schedule_stream_billing: reported usage, else an estimate if anything  *)
(* was produced, else nothing.                                             *)
BilledStream(h) ==
    IF h.meter = "empty" THEN h ELSE [h EXCEPT !.bills = Append(@, h.model)]

NoteSuccess(h) ==
    IF h.auto
      THEN RecordSuccess(h.model) /\ streak' = [streak EXCEPT ![h.model] = 0]
      ELSE UNCHANGED <<breakerVars, streak>>

(* _failover: what the provider rejects does not count against it.         *)
NoteFailure(h, error) ==
    IF h.auto /\ error # "request"
      THEN /\ RecordFailure(h.model)
           /\ streak' = [streak EXCEPT ![h.model] = IF @ = Limit THEN @ ELSE @ + 1]
      ELSE UNCHANGED <<breakerVars, streak>>

(* Mutation: a request that one provider rejects is not tried elsewhere.   *)
MayFailOverUnlessRejected(h, error) == h.auto /\ error # "request"

(* next_auto_access looks for a next model, whatever the failure was.      *)
MayFailOver(h, error) == h.auto

-----------------------------------------------------------------------------
(* The provider answers.                                                   *)

(* model_chat without streaming: the whole answer. It is billed whether    *)
(* the provider reported usage or not.                                     *)
Completed(r) ==
    /\ req[r].pc = "calling" /\ ~req[r].stream
    /\ req' = [req EXCEPT ![r].pc = "done", ![r].bills = Append(@, req[r].model)]
    /\ hist' = [hist EXCEPT ![r].source = req[r].model]
    /\ NoteSuccess(req[r])
    /\ UNCHANGED priced

(* A chunk of a stream: the meter observes it, and it goes to the client.  *)
(* Reported usage is kept, whatever the chunks after it say.               *)
Chunk(r) ==
    /\ req[r].pc \in Waiting /\ req[r].stream
    /\ \E usage \in BOOLEAN :
          req' = [req EXCEPT ![r].pc = "streaming",
                             ![r].meter = IF usage \/ @ = "usage" THEN "usage" ELSE "chunks"]
    /\ hist' = [hist EXCEPT ![r].source = req[r].model]
    /\ UNCHANGED <<breakerVars, priced, streak>>

(* The stream ends, perhaps without a single chunk: billing is scheduled   *)
(* in the finally block.                                                   *)
StreamEnds(r) ==
    /\ req[r].pc \in Waiting /\ req[r].stream
    /\ req' = [req EXCEPT ![r] = [BilledStream(req[r]) EXCEPT !.pc = "finishing"]]
    /\ NoteSuccess(req[r])
    /\ UNCHANGED <<priced, hist>>

(* The call fails before any output. An Auto request goes on to its next   *)
(* candidate if one is found; otherwise a stream sends an error chunk, and *)
(* a request without streaming ends with an error status. An exception of  *)
(* the search ends both in the same way, after the failure was recorded.   *)
CallFails(r, error) ==
    /\ req[r].pc = "calling"
    /\ NoteFailure(req[r], error)
    /\ \/ MayFailOver(req[r], error) /\ Call(r, req[r], hist[r], req[r].rest)
       \/ /\ req' = [req EXCEPT ![r].pc = IF req[r].stream THEN "erroring" ELSE "done",
                                 ![r].failed = TRUE]
          /\ \E n \in IF MayFailOver(req[r], error)
                       THEN NothingFound(hist[r], req[r].rest) ELSE {hist[r]} :
                hist' = [hist EXCEPT ![r] = n]
    /\ UNCHANGED priced

(* Mutation: "started" is not consulted, and a broken stream fails over.   *)
StreamBreaksAndFailsOver(r) ==
    /\ req[r].pc = "streaming"
    /\ MayFailOver(req[r], "provider") /\ Call(r, req[r], hist[r], req[r].rest)
    /\ UNCHANGED <<breakerVars, priced, streak>>

(* Mutation: a broken stream is started again, without a limit.            *)
StreamBreaksAndRestarts(r) ==
    /\ req[r].pc = "streaming"
    /\ req' = [req EXCEPT ![r].pc = "calling"]
    /\ UNCHANGED <<breakerVars, priced, hist, streak>>

(* The stream breaks after some output: no failover, an error chunk.       *)
StreamBreaks(r) ==
    /\ req[r].pc = "streaming"
    /\ req' = [req EXCEPT ![r].pc = "erroring", ![r].failed = TRUE]
    /\ UNCHANGED <<breakerVars, priced, hist, streak>>

-----------------------------------------------------------------------------
(* The end of a stream.                                                    *)

(* The error chunk has been taken: the finally block schedules billing.    *)
Finally(r) ==
    /\ req[r].pc = "erroring"
    /\ req' = [req EXCEPT ![r] = [BilledStream(req[r]) EXCEPT !.pc = "finishing"]]
    /\ UNCHANGED <<breakerVars, priced, hist, streak>>

(* "[DONE]" has been taken.                                                *)
Finish(r) ==
    /\ req[r].pc = "finishing"
    /\ req' = [req EXCEPT ![r].pc = "done"]
    /\ UNCHANGED <<breakerVars, priced, hist, streak>>

(* Mutation: billing is awaited, and dies with the cancelled generator.    *)
DisconnectUnbilled(r) ==
    /\ req[r].stream /\ req[r].pc \notin Over
    /\ req' = [req EXCEPT ![r].pc = "gone"]
    /\ UNCHANGED <<breakerVars, priced, hist, streak>>

(* The client of a stream leaves: the generator is cancelled at the await  *)
(* or the yield where it is. Its finally block runs, unless it already has.*)
Disconnect(r) ==
    /\ req[r].stream /\ req[r].pc \notin Over
    /\ req' = [req EXCEPT ![r] =
                 [(IF req[r].pc = "finishing" THEN req[r] ELSE BilledStream(req[r]))
                    EXCEPT !.pc = "gone"]]
    /\ UNCHANGED <<breakerVars, priced, hist, streak>>

Clock == Tick /\ UNCHANGED <<priced, req, hist, streak>>

-----------------------------------------------------------------------------
Error == {"request", "provider"}

FirstAnswer(r) == Completed(r) \/ StreamEnds(r) \/ (\E e \in Error : CallFails(r, e))
LastAnswer(r)  == StreamEnds(r) \/ StreamBreaks(r)

Next ==
    \/ \E r \in Request : \/ OpenAuto(r) \/ OpenExplicit(r)
                          \/ FirstAnswer(r) \/ Chunk(r) \/ StreamBreaks(r)
                          \/ Finally(r) \/ Finish(r) \/ Disconnect(r)
    \/ Clock

(* A call to a provider ends: its transport has timeouts and a bounded     *)
(* number of retries, and an answer has a bounded number of tokens. The    *)
(* server's writes to a client end too, or the client counts as gone.      *)
Fairness ==
    \A r \in Request :
        /\ WF_vars(req[r].pc = "calling" /\ (FirstAnswer(r) \/ Chunk(r)))
        /\ WF_vars(req[r].pc = "streaming" /\ LastAnswer(r))
        /\ WF_vars(Finally(r))
        /\ WF_vars(Finish(r))

Spec == Init /\ [][Next]_vars
FairSpec == Spec /\ Fairness

-----------------------------------------------------------------------------
(* Properties.                                                             *)

(* A request that is over has been billed exactly once, at the price of    *)
(* the model whose output the client got, if there was any output; and not *)
(* at all otherwise. Failover, errors and a client that leaves at any      *)
(* point make no difference.                                               *)
BilledForWhatWasServed ==
    \A r \in Request : req[r].pc \in Over =>
        req[r].bills = IF hist[r].source = NoModel THEN <<>> ELSE <<hist[r].source>>

(* Once a model's output has reached the client, no other model's does:    *)
(* the answer is never spliced together from two models.                   *)
OneModelPerAnswer ==
    [][\A r \in Request :
          hist[r].source # NoModel /\ req[r].pc \notin Over
              => hist'[r].source = hist[r].source /\ req'[r].model = req[r].model]_vars

(* A request never calls the same model twice.                             *)
NoModelTriedTwice ==
    \A r \in Request : \A i, j \in 1..Len(hist[r].tried) :
        hist[r].tried[i] = hist[r].tried[j] => i = j

(* An Auto request that fails without output has tried every candidate     *)
(* with a price, but for those it passed over because their breaker was    *)
(* open and those whose service key it could not get when it came to them. *)
(* The exception is a search for a model that itself ends by raising.      *)
FailoverIsExhaustive ==
    \A r \in Request :
        req[r].auto /\ req[r].failed /\ hist[r].source = NoModel /\ ~hist[r].raised =>
            \A i \in 1..Len(hist[r].chain) :
                LET m == hist[r].chain[i]
                IN m \in priced => m \in hist[r].skipped \cup hist[r].keyless
                                   \/ \E j \in 1..Len(hist[r].tried) : hist[r].tried[j] = m

(* A breaker is open only on a model that failed Limit times without a     *)
(* success in between, counting only failures of the provider.             *)
OpenOnlyAfterFailures ==
    \A m \in Model : cooling[m] > 0 => streak[m] = Limit

(* Every request ends, however many of its candidates fail.                *)
EveryRequestEnds ==
    \A r \in Request : req[r].pc = "calling" ~> req[r].pc \in Over

(* What the docstring of _first_servable claims: models with an open       *)
(* breaker are tried rather than failing the request. Those in front of    *)
(* the chosen one are dropped from the failover list.                      *)
TriedRatherThanFailing ==
    \A r \in Request :
        req[r].auto /\ req[r].failed /\ hist[r].source = NoModel /\ ~hist[r].raised =>
            \A i \in 1..Len(hist[r].chain) :
                LET m == hist[r].chain[i]
                IN m \in priced => m \in hist[r].keyless
                                   \/ \E j \in 1..Len(hist[r].tried) : hist[r].tried[j] = m
=============================================================================
