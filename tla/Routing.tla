------------------------------- MODULE Routing -------------------------------
(***************************************************************************)
(* MisterPilot Auto over a chat: the score of a request is raised by what  *)
(* the conversation remembers, the route is remembered in turn, and a step *)
(* of a tool loop stays where its turn began.  This is _open_auto and      *)
(* next_auto_access of services/model_access.py with their helpers,        *)
(* services/auto_context.py and the sessions of services/auto_session.py.  *)
(* The chat sends one request at a time, streamed, with auto.show_route    *)
(* on and a cap that may change with every request, as the daily budget    *)
(* or the customer changes it.  Which models can be called is in Access    *)
(* and Serving: here those in Down sometimes cannot, or fail.  Other       *)
(* chats are seen by what they do to the store.                            *)
(***************************************************************************)
EXTENDS AutoRouter, TTLStore, FiniteSets

CONSTANTS
    Claude,         \* the models that provider_for gives to Claude
    Down,           \* the models that may be unavailable or fail
    Verdicts,       \* what the scorer may say, NoScore included
    OtherFloors,    \* the history and long-context floors, 0 for none
    CapsSent,       \* the caps that a request may be under
    ShiftsSent,     \* the shifts of the modes
    MAX_DROP,       \* max_drop_per_turn
    SESSION_ITEMS,  \* _sessions: max_items
    SESSION_TTL,    \* session_ttl_seconds
    MaxTurns,       \* bound: user messages of a chat
    MaxSteps,       \* bound: requests of a chat
    LastTime        \* bound: the last instant of the model

Models  == {FallbackModel} \cup UNION {{Tiers[i].model} \cup ToSet(Tiers[i].alternates) : i \in DOMAIN Tiers}
Efforts == ToSet(EFFORT_ORDER) \cup {NoEffort}

ASSUME RoutingAssumption ==
    /\ Down \subseteq Models
    /\ Verdicts \subseteq Scores \cup {NoScore} /\ OtherFloors \subseteq Nat /\ ShiftsSent \subseteq Int
    /\ MAX_DROP \in Nat /\ SESSION_ITEMS \in Nat \ {0} /\ SESSION_TTL \in Nat
    /\ MaxTurns \in Nat \ {0} /\ MaxSteps \in Nat /\ LastTime \in Nat

VARIABLES
    time,           \* time.monotonic()
    sessions,       \* _sessions
    maxModel,       \* prefs.max_model of the last request
    chat,           \* what the client has: see Chat
    work,           \* the request that is being served
    route           \* history: the last route with a score, in a set: as saved, then as served

routingVars == <<time, sessions, maxModel, chat, work, route>>

\* AutoSession
Session == [model : Models, score : Scores, effort : Efforts, turns : 1..MaxTurns]

\* The user messages and the requests sent, the last reply whose route line names
\* a score (NoScore if none), and whether the last reply called a tool.
Chat == [turns : 0..MaxTurns, steps : 0..MaxSteps, loop : BOOLEAN,
         line : [score : Scores \cup {NoScore}, turns : 0..MaxTurns]]

NoWork == [pc |-> "idle", tool |-> FALSE, session |-> {}, pinned |-> FALSE, model |-> NoModel,
           score |-> NoScore, effort |-> NoEffort, served |-> NoModel, rest |-> <<>>]

RoutingInit ==
    /\ time = 0
    /\ sessions = <<>>
    /\ maxModel = NoModel
    /\ chat = [turns |-> 0, steps |-> 0, loop |-> FALSE, line |-> [score |-> NoScore, turns |-> 0]]
    /\ work = NoWork
    /\ route = {}

-----------------------------------------------------------------------------
\* Floors, 0 when they say nothing.

\* _sticky_floor, session_sticky_floor
Sticky(score, since) ==
    LET floor == score - MAX_DROP * Max2(0, since) IN IF floor >= MIN_SCORE THEN floor ELSE 0

\* Mutation: the route line is not read when there is no session.
SessionFloor ==
    LET remembered == {Sticky(s.score, chat.turns - s.turns) : s \in work.session}
    IN IF remembered # {} THEN CHOOSE f \in remembered : TRUE ELSE 0

\* context_floors: from the session, else from the route line.
StickyFloor ==
    LET remembered == {Sticky(s.score, chat.turns - s.turns) : s \in work.session} \ {0}
    IN IF remembered # {} THEN CHOOSE f \in remembered : TRUE
       ELSE IF chat.line.score = NoScore THEN 0
       ELSE Sticky(chat.line.score, chat.turns - chat.line.turns)

\* ContextFloors.apply: floors only raise.
Raised(score, floor) ==
    IF floor = 0 \/ score >= floor THEN score ELSE Clamp(floor, MIN_SCORE, MAX_SCORE)

-----------------------------------------------------------------------------
\* The decision.

\* _pinned
Pinned(session) ==
    LET i == TierIndex(session.model)
    IN Decision(session.model, session.score, session.effort,
                Candidates(IF i = 0 THEN TierForScore(session.score) ELSE i, NoModel), FALSE)

\* Mutation: a warm model is kept without a look at the cap, and whichever tier it is of.
CacheAwareAlways(decision, session, stayIsCheaper) ==
    IF decision.fallback \/ TierIndex(session.model) = 0 \/ ~stayIsCheaper THEN decision
    ELSE Decision(session.model, decision.score, session.effort, Candidates(TierIndex(session.model), maxModel), FALSE)

\* Mutation: on the same model the effort is the new one.
CacheAwareNewEffort(decision, session, stayIsCheaper) == decision

\* _cache_aware: a step down is taken if estimate_turn_usd says it pays.
CacheAware(decision, session, stayIsCheaper) ==
    LET new == TierIndex(decision.model)
        old == TierIndex(session.model)
        low == Tiers[old].low
        kept == IF session.model \in Claude THEN session.effort
                ELSE EffortFor(old, Clamp(IF decision.score = NoScore THEN low ELSE decision.score,
                                          low, Tiers[old].high))
    IN IF ~decision.fallback /\ decision.model = session.model /\ session.model \in Claude
       THEN [decision EXCEPT !.effort = MaxEffort(@, session.effort)]
       ELSE IF \/ decision.fallback \/ decision.model = session.model
               \/ new = 0 \/ old = 0 \/ new >= old \/ old > CapIndex(maxModel) \/ ~stayIsCheaper
       THEN decision
       ELSE Decision(session.model, decision.score, kept, Candidates(old, maxModel), FALSE)

-----------------------------------------------------------------------------
\* Requests.

\* save_route, in a store
Saved(store, model, score, effort) ==
    LET session == [model |-> model, score |-> score, effort |-> effort, turns |-> chat'.turns]
    IN IF score = NoScore THEN sessions' = store /\ UNCHANGED route
       ELSE /\ sessions' = AfterPut(store, "ours", session, time, SESSION_ITEMS)
            /\ route' = {session}

\* _first_servable: the place of the first of a chain that can serve.
Servable(chain, down) == SelectInSeq(chain, LAMBDA m : m \notin down)

\* The first candidate that can serve gets the request. (That none can is in Access.)
Serve(store, request, decision) ==
    \E down \in SUBSET Down :
        LET chain == <<decision.model>> \o decision.candidates
            i == Servable(chain, down)
        IN /\ i > 0
           /\ work' = [request EXCEPT !.pc = "serving", !.model = decision.model, !.score = decision.score,
                          !.effort = decision.effort, !.served = chain[i],
                          !.rest = SubSeq(chain, i + 1, Len(chain))]
           /\ Saved(store, chain[i], decision.score, decision.effort)

\* A request arrives: a user message, or a step of a tool loop. A step of a chat
\* that is remembered is routed at once; any other request waits for its score.
Arrive(tool) ==
    LET found == Lookup(sessions, "ours", time, SESSION_TTL)
        store == AfterGet(sessions, "ours", time, SESSION_TTL)
        pinned == tool /\ found # {}
        request == [NoWork EXCEPT !.pc = "scoring", !.tool = tool, !.session = found, !.pinned = pinned]
    IN /\ work.pc = "idle" /\ chat.steps < MaxSteps
       /\ IF tool THEN chat.loop ELSE chat.turns < MaxTurns
       /\ chat' = [chat EXCEPT !.steps = @ + 1, !.turns = IF tool THEN @ ELSE @ + 1]
       /\ IF pinned
          THEN Serve(store, request, Pinned(CHOOSE s \in found : TRUE))
          ELSE work' = request /\ sessions' = store /\ UNCHANGED route
       /\ maxModel' \in CapsSent
       /\ UNCHANGED time

\* The scorer answers; the conversation raises the score; the router decides.
Decide ==
    /\ work.pc = "scoring"
    /\ chat' = chat
    /\ \E verdict \in Verdicts, other \in OtherFloors, shift \in ShiftsSent, stayIsCheaper \in BOOLEAN :
         LET score == Raised(verdict, Max2(other, StickyFloor))
             decision == SelectModel(score, shift, maxModel)
         IN Serve(sessions, work, IF work.session = {} THEN decision
                                  ELSE CacheAware(decision, CHOOSE s \in work.session : TRUE, stayIsCheaper))
    /\ UNCHANGED <<time, maxModel>>

\* Mutation: a failover does not move the session.
NotMoved(model) == UNCHANGED <<sessions, route>>

\* next_auto_access: the session moves to the new model.
Moved(model) == Saved(sessions, model, work.score, work.effort)

\* The model fails before any output: the next candidate that can serve, if any.
FailOver ==
    /\ work.pc = "serving" /\ work.served \in Down
    /\ chat' = chat
    /\ \E down \in SUBSET Down :
         LET i == Servable(work.rest, down) IN
         /\ i > 0
         /\ work' = [work EXCEPT !.served = work.rest[i], !.rest = SubSeq(@, i + 1, Len(@))]
         /\ Moved(work.rest[i])
    /\ UNCHANGED <<time, maxModel>>

\* The reply; on a new turn it begins with the route line.
Reply ==
    /\ work.pc = "serving"
    /\ \E loop \in BOOLEAN :
         chat' = [chat EXCEPT !.loop = loop,
                    !.line = IF work.tool \/ work.score = NoScore THEN @
                             ELSE [score |-> work.score, turns |-> chat.turns]]
    /\ route' = IF work.score = NoScore THEN route
                ELSE {[model |-> work.served, score |-> work.score, effort |-> work.effort, turns |-> chat.turns]}
    /\ work' = NoWork
    /\ UNCHANGED <<time, sessions, maxModel>>

\* The request fails, and the client has no reply.
Fail ==
    /\ work.pc = "serving" /\ work.served \in Down
    /\ chat' = [chat EXCEPT !.loop = FALSE]
    /\ work' = NoWork
    /\ UNCHANGED <<time, sessions, maxModel, route>>

\* A route is saved for another chat.
Elsewhere ==
    /\ \E model \in Down : sessions' = AfterPut(sessions, "theirs",
            [model |-> model, score |-> MAX_SCORE, effort |-> NoEffort, turns |-> 1], time, SESSION_ITEMS)
    /\ UNCHANGED <<time, maxModel, chat, work, route>>

Tick ==
    /\ time < LastTime
    /\ time' = time + 1
    /\ UNCHANGED <<sessions, maxModel, chat, work, route>>

RoutingNext ==
    \/ \E tool \in BOOLEAN : Arrive(tool)
    \/ Decide \/ FailOver \/ Reply \/ Fail
    \/ Elsewhere \/ Tick

RoutingSpec == RoutingInit /\ [][RoutingNext]_routingVars

(***************************************************************************)
(* Properties.                                                             *)
(***************************************************************************)

\* Types of the state.
RoutingTypeOK ==
    /\ time \in 0..LastTime
    /\ StoreOK(sessions, SESSION_ITEMS)
    /\ \A i \in DOMAIN sessions : sessions[i].value \in Session
    /\ maxModel \in CapsSent \cup {NoModel}
    /\ chat \in Chat
    /\ work.pc \in {"idle", "scoring", "serving"}
    /\ work.score \in Scores \cup {NoScore} /\ work.effort \in Efforts
    /\ ToSet(work.rest) \subseteq Models
    /\ route \subseteq Session

\* The request gets its route in this step, from a server that remembers the chat.
Routed == work.pc # "serving" /\ work'.pc = "serving"
Remembered == Routed /\ work'.session # {}

\* A tool loop stays where it is: a step whose chat is remembered is offered to
\* the model that served the chat's last scored request, at its effort, also after
\* that request failed over and whatever other chats have done to the store.
LoopStaysPut ==
    [][Remembered /\ work'.tool =>
          \A last \in route : work'.model = last.model /\ work'.effort = last.effort]_routingVars

\* From one user turn to the next the score falls by max_drop_per_turn at most,
\* and within a turn not at all, also when the session is gone and only the route
\* line is left, and when the scorer fails.
ScoreFallsSlowly ==
    [][LET allowed(from) == from.score - MAX_DROP * (chat'.turns - from.turns) IN
       /\ Routed /\ chat.line.score # NoScore => work'.score >= allowed(chat.line)
       /\ Remembered => \A last \in route : work'.score >= allowed(last)]_routingVars

\* "On Claude, effort never drops within a chat on the same model", while the
\* chat is remembered and the model that is chosen can serve.
ClaudeEffortKept ==
    [][Remembered =>
          \A last \in route :
              last.model \in Claude /\ work'.model = last.model =>
                  EffortRank(work'.effort) >= EffortRank(last.effort)]_routingVars

Within(model) == TierIndex(model) <= CapIndex(maxModel) \/ model = FallbackModel

\* A request that is routed on its score stays within the cap it is under, whether
\* the warm model is kept, the first choice cannot serve, or it fails.
ScoredWithinCap ==
    work.pc = "serving" /\ ~work.pinned =>
        \A m \in {work.model, work.served} \cup ToSet(work.rest) : Within(m)

\* "Tiers above a max_model cap are never candidates."
CapHolds == work.pc = "serving" => Within(work.served)
=============================================================================
