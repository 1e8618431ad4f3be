------------------------------ MODULE Transport ------------------------------
(***************************************************************************)
(* One call of LLMClient (llm/llm_client.py): ProviderClient, which        *)
(* retries what is transient, and for Claude the native client in front of *)
(* it (llm/anthropic_client.py), whose SDK retries by itself.  A provider  *)
(* that fails does so with an HTTP status, with no connection, with an     *)
(* error event in a stream it had accepted, or in a way of its own.        *)
(***************************************************************************)
EXTENDS Integers, Sequences

CONSTANTS
    MaxRetries,     \* ProviderConfig.max_retries
    MaxChunks,      \* bound: the length of an answer
    Failures        \* the ways to fail that are tried: see Exception

\* What the SDKs raise: a status, or one of these.
Connection == 0         \* APIConnectionError, APITimeoutError
InStream   == 200       \* an error event after the stream was accepted
Bug        == 1         \* any other exception
Exception  == {Connection, InStream, Bug} \cup (400..599)

ASSUME TransportAssumption ==
    MaxRetries \in Nat /\ MaxChunks \in Nat /\ Failures \subseteq Exception

VARIABLES
    native,     \* the backend of this client is AnthropicClient
    stream,     \* stream_chat_raw, else complete
    step,       \* where the call is
    via,        \* the transport that is being called
    attempt,    \* the attempt of ProviderClient's loop
    heard,      \* started: a chunk of the current answer has gone to the caller
    given,      \* the answers that the chunks given to the caller belong to
    raised,     \* the exception the caller got
    failed      \* history: the failures so far

transportVars == <<native, stream, step, via, attempt, heard, given, raised, failed>>

-----------------------------------------------------------------------------
\* Classes of failures.

\* _retryable_status, ProviderClient._transient
Transient(e) == e = Connection \/ e \in {408, 409, 429} \/ e >= 500

\* ProviderClient._safe_error, and no error of ours for what it does not catch:
\* the SDK's exception for an error event is not an APIStatusError.
CompatError(e) ==
    CASE e \in {401, 403}     -> "LLMAuthError"
      [] Transient(e)         -> "LLMUnavailableError"
      [] e \in {InStream, Bug} -> "other"
      [] OTHER                -> "LLMRequestError"

\* anthropic_client._safe_error: here an error event is an APIStatusError.
NativeError(e) ==
    CASE e \in {401, 403}                                     -> "LLMAuthError"
      [] e = Connection \/ e >= 500 \/ e \in {408, 409, 429}  -> "LLMUnavailableError"
      [] e = Bug                                              -> "other"
      [] OTHER                                                -> "LLMRequestError"

-----------------------------------------------------------------------------
\* The call.

TransportInit ==
    /\ native \in BOOLEAN
    /\ stream \in BOOLEAN
    /\ step = "calling"
    /\ via = IF native THEN "native" ELSE "compat"
    /\ attempt = 0
    /\ heard = FALSE
    /\ given = <<>>
    /\ raised = "none"
    /\ failed = <<>>

Calls == Len(failed) + 1       \* requests made to the provider, the current one included

\* The provider sends a part of its answer, and a streaming caller gets it at
\* once; complete keeps what it reads to itself.
Part ==
    /\ step = "calling" /\ stream
    /\ Len(given) < MaxChunks
    /\ given' = Append(given, Calls)
    /\ heard' = TRUE
    /\ UNCHANGED <<native, stream, step, via, attempt, raised, failed>>

\* The answer is complete; without streaming the caller gets it now.
Finished ==
    /\ step = "calling"
    /\ step' = "done"
    /\ given' = IF stream THEN given ELSE <<Calls>>
    /\ UNCHANGED <<native, stream, via, attempt, heard, raised, failed>>

\* Mutation: an error that ends the call looks like its end.
RaiseNothing(error) == step' = "done" /\ raised' = error /\ UNCHANGED <<via, attempt>>

Raise(error) == step' = "failed" /\ raised' = error /\ UNCHANGED <<via, attempt>>

Note(e) == failed' = Append(failed, [exc |-> e, via |-> via, heard |-> heard])

\* ProviderClient: the loop goes on after a transient failure with no output.
MayRetry(e) == Transient(e) /\ ~heard

\* Mutation: max_retries counts the repetitions only.
OneMoreRetry == attempt < MaxRetries

\* range(max(1, max_retries)) has another attempt.
RetriesLeft == attempt + 1 < MaxRetries

CompatFails(e) ==
    /\ step = "calling" /\ via = "compat"
    /\ e = InStream => stream
    /\ Note(e)
    /\ IF MayRetry(e) /\ RetriesLeft
       THEN /\ step' = "backoff"
            /\ attempt' = attempt + 1
            /\ UNCHANGED <<via, raised>>
       ELSE Raise(CompatError(e))
    /\ UNCHANGED <<native, stream, heard, given>>

\* The end of the sleep before the next attempt.
Retry ==
    /\ step = "backoff"
    /\ step' = "calling"
    /\ UNCHANGED <<native, stream, via, attempt, heard, given, raised, failed>>

\* Mutation: any error of the native endpoint but a bad key is tried again.
MayFallBackOnAny(e) == NativeError(e) # "LLMAuthError" /\ ~heard

\* LLMClient goes on with the compatible endpoint when the native one rejects
\* the request; a streaming caller must not have got anything.
MayFallBack(e) == NativeError(e) = "LLMRequestError" /\ ~heard

\* The native client, after the retries of its SDK.
NativeFails(e) ==
    /\ step = "calling" /\ via = "native"
    /\ Note(e)
    /\ IF MayFallBack(e)
       THEN via' = "compat" /\ UNCHANGED <<step, attempt, raised>>
       ELSE Raise(NativeError(e))
    /\ UNCHANGED <<native, stream, heard, given>>

TransportNext ==
    \/ Part
    \/ Finished
    \/ \E e \in Failures : CompatFails(e) \/ NativeFails(e)
    \/ Retry

TransportSpec == TransportInit /\ [][TransportNext]_transportVars

(***************************************************************************)
(* Properties.                                                             *)
(***************************************************************************)

\* Types of the state.
TransportTypeOK ==
    /\ native \in BOOLEAN /\ stream \in BOOLEAN /\ heard \in BOOLEAN
    /\ step \in {"calling", "backoff", "done", "failed"}
    /\ via \in {"native", "compat"}
    /\ attempt \in Nat /\ (attempt = 0 \/ attempt < MaxRetries)
    /\ heard => stream
    /\ given \in Seq(Nat)
    /\ raised \in {"none", "LLMAuthError", "LLMUnavailableError", "LLMRequestError", "other"}
    /\ failed \in Seq([exc : Exception, via : {"native", "compat"}, heard : BOOLEAN])

\* A request is made again only after a failure that was transient and came
\* before any output, or that the native endpoint called the request's fault; so
\* what the caller has got is of one answer ("send the client a second copy of
\* text it already has" is what stream_chat_raw's docstring rules out).
RepeatedOnlyIfSafe ==
    /\ \A i, j \in DOMAIN given : given[i] = given[j]
    /\ \A i \in 1..(Calls - 1) :
          step \in {"calling", "done"} \/ i < Len(failed) =>
              LET f == failed[i] IN
              /\ f.exc \notin {401, 403, Bug}
              /\ f.via = "compat" => Transient(f.exc)
              /\ f.via = "native" => ~Transient(f.exc) /\ via = "compat"
              /\ ~f.heard

\* What the handler sees: the number of chunks it was given, and the phase.
told  == IF stream THEN Len(given) ELSE 0
phase == CASE step = "failed" -> (IF told = 0 THEN "failed" ELSE "broken")
           [] step = "done" -> "done"
           [] OTHER -> (IF told = 0 THEN "calling" ELSE "streaming")

\* With its retries and its two endpoints a call is, for the handler, one call:
\* chunks, then its end or one error.
Abstract == INSTANCE ProviderCall WITH chunks <- told, error <- raised
ImplementsProviderCall == Abstract!Spec
=============================================================================
