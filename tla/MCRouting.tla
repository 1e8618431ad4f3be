------------------------------ MODULE MCRouting ------------------------------
(* Model-checking definitions for MisterPilot Auto. The scorer, the check of
   its score, the customer's preferences and the routing of a chat share no
   state: in a behaviour one of them runs, and the others stay in one state
   they can begin in. *)
EXTENDS ComplexityScorer, ComplexityVerifier, Preferences, Routing

CONSTANTS Units             \* the parts that run
VARIABLE unit

allVars == <<scorerVars, verifierVars, preferenceVars, routingVars, unit>>

Idle ==
    /\ unit # "scorer" => origin = CHOOSE o \in Origins : TRUE
    /\ unit # "preferences" => asked = [budget |-> 0, cap |-> NoModel]

MCInit ==
    /\ unit \in Units
    /\ ScorerInit /\ VerifierInit /\ PreferencesInit /\ RoutingInit
    /\ Idle

MCNext ==
    \/ /\ unit = "scorer" /\ ScorerNext
       /\ UNCHANGED <<verifierVars, preferenceVars, routingVars, unit>>
    \/ /\ unit = "verifier" /\ VerifierNext
       /\ UNCHANGED <<scorerVars, preferenceVars, routingVars, unit>>
    \/ /\ unit = "preferences" /\ PreferencesNext
       /\ UNCHANGED <<scorerVars, verifierVars, routingVars, unit>>
    \/ /\ unit = "routing" /\ RoutingNext
       /\ UNCHANGED <<scorerVars, verifierVars, preferenceVars, unit>>

MCSpec == MCInit /\ [][MCNext]_allVars

\* Types of the state, part by part.
AutoTypeOK == ScorerTypeOK /\ VerifierTypeOK /\ PreferencesTypeOK /\ RoutingTypeOK

-----------------------------------------------------------------------------
\* The instance.

\* Messages with and without an earlier request, a question, a tag, a field.
MCOrigins ==
    {[field |-> "none", turns |-> t, tag |-> TRUE, question |-> q, length |-> "many"] :
        t \in {<<"request">>, <<"request", "followup">>}, q \in BOOLEAN}
    \cup {[field |-> "none", turns |-> <<"request">>, tag |-> FALSE, question |-> FALSE, length |-> "one"],
          [field |-> "none", turns |-> <<"followup">>, tag |-> FALSE, question |-> FALSE, length |-> "few"],
          [field |-> "request", turns |-> <<>>, tag |-> FALSE, question |-> TRUE, length |-> "few"],
          [field |-> "blank", turns |-> <<>>, tag |-> FALSE, question |-> FALSE, length |-> "one"]}

MCShifts == {0, -2}
=============================================================================
