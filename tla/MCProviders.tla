----------------------------- MODULE MCProviders -----------------------------
(* Model-checking definitions for what lies between a request and the answer
   of a provider. The parts share no state: in a behaviour one of them runs,
   and the others stay in one state they can begin in. *)
EXTENDS Access, RateCache, Transport, ProviderRequest, Claude

CONSTANTS Units             \* the parts that run
VARIABLE unit

allVars == <<accessVars, rateVars, transportVars, requestVars, claudeVars, unit>>

Idle ==
    /\ unit # "access" =>
         /\ clock = 0 /\ replaced = [p \in Provider |-> Never]
         /\ secrets = [p \in Provider |-> [key |-> "none", expires |-> 0]]
         /\ req = [r \in Requests |->
                    [pc |-> "new", key |-> "none", model |-> CHOOSE m \in AutoNames : TRUE, served |-> "none",
                     upstream |-> "none", at |-> 0, status |-> 0, verdict |-> "none"]]
    /\ unit # "rate" => uptime = 0
    /\ unit # "transport" => native = FALSE /\ stream = FALSE

MCInit ==
    /\ unit \in Units
    /\ AccessInit /\ RateInit /\ TransportInit /\ RequestInit /\ ClaudeInit
    /\ Idle

MCNext ==
    \/ /\ unit = "access" /\ AccessNext
       /\ UNCHANGED <<rateVars, transportVars, requestVars, claudeVars, unit>>
    \/ /\ unit = "rate" /\ RateNext
       /\ UNCHANGED <<accessVars, transportVars, requestVars, claudeVars, unit>>
    \/ /\ unit = "transport" /\ TransportNext
       /\ UNCHANGED <<accessVars, rateVars, requestVars, claudeVars, unit>>
    \/ /\ unit = "request" /\ RequestNext
       /\ UNCHANGED <<accessVars, rateVars, transportVars, claudeVars, unit>>
    \/ /\ unit = "claude" /\ ClaudeNext
       /\ UNCHANGED <<accessVars, rateVars, transportVars, requestVars, unit>>

MCSpec == MCInit /\ [][MCNext]_allVars

\* Types of the state, part by part.
ProvidersTypeOK == AccessTypeOK /\ RateTypeOK /\ TransportTypeOK /\ ClaudeTypeOK

-----------------------------------------------------------------------------
\* The instance.

MCCatalogue == [m \in {"flash", "mini", "newm"} |-> IF m = "flash" THEN "ds" ELSE "oa"]
MCChain     == <<"newm", "mini", "flash">>

MCAsks ==
    {[tools |-> t, choice |-> c, effort |-> "max"] : t \in BOOLEAN, c \in {"absent", "required"}}
=============================================================================
