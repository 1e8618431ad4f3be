---------------------------- MODULE ProviderCall ----------------------------
(***************************************************************************)
(* What one call to a provider promises those who make it, the handlers of *)
(* api/routes/model.py: the chunks of one answer, then its end or one      *)
(* error; whether anything was sent before the error is what failover      *)
(* depends on.  Serving calls the two kinds of error CallFails and         *)
(* StreamBreaks.                                                           *)
(***************************************************************************)
EXTENDS Naturals

VARIABLES
    phase,      \* where the call is
    chunks,     \* how many chunks the caller has got
    error       \* the class of the exception it got, or "none"

callVars == <<phase, chunks, error>>

Raised == {"LLMAuthError", "LLMUnavailableError", "LLMRequestError", "other"}

Init == phase = "calling" /\ chunks = 0 /\ error = "none"

Chunk ==
    /\ phase \in {"calling", "streaming"}
    /\ phase' = "streaming"
    /\ chunks' = chunks + 1
    /\ UNCHANGED error

End ==
    /\ phase \in {"calling", "streaming"}
    /\ phase' = "done"
    /\ UNCHANGED <<chunks, error>>

\* Before any output, another model may be called; after it, none.
Fail ==
    /\ phase \in {"calling", "streaming"}
    /\ phase' = IF chunks = 0 THEN "failed" ELSE "broken"
    /\ error' \in Raised
    /\ UNCHANGED chunks

Next == Chunk \/ End \/ Fail

Spec == Init /\ [][Next]_callVars
=============================================================================
