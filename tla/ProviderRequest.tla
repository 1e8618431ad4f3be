--------------------------- MODULE ProviderRequest ---------------------------
(***************************************************************************)
(* The request that goes to a provider: ProviderClient._params of          *)
(* llm/llm_client.py, and to_anthropic_messages and AnthropicClient._params *)
(* of llm/anthropic_client.py, as a chat grows message by message.  A      *)
(* message is its role and what there is in it; a block of the request is  *)
(* its kind, the number of the message it comes from, and what else its    *)
(* content depends on.  The stash of replies is in Claude: here is only    *)
(* what it answers, which may change from one request to the next.         *)
(***************************************************************************)
EXTENDS Integers, Sequences

CONSTANTS
    Asks,           \* what clients ask for beside the messages: see Ask
    Layouts,        \* the layouts that the stash may have for a reply
    MaxMessages     \* bound: the length of a chat

VARIABLES
    history,        \* the messages of the client's request
    found           \* what the stash answers for each of them, as they are rendered

requestVars == <<history, found>>

\* The models by the way they are treated: Claude Opus and Sonnet think and
\* refuse sampling, and Opus refuses forced tools; Haiku does neither.
Target == {[model |-> m, native |-> FALSE] : m \in {"gpt", "deepseek", "haiku", "sonnet", "opus"}}
          \cup {[model |-> m, native |-> TRUE] : m \in {"haiku", "sonnet", "opus"}}
Thinking == {"sonnet", "opus"}              \* _CLAUDE_NO_SAMPLING, _ADAPTIVE_THINKING

Effort == <<"low", "medium", "high", "xhigh", "max">>
Ask == [tools : BOOLEAN, choice : {"absent", "auto", "none", "required", "named"},
        effort : {"absent"} \cup {Effort[i] : i \in DOMAIN Effort}]

ASSUME RequestAssumption == Asks \subseteq Ask /\ MaxMessages \in Nat /\ "none" \notin Layouts

\* Calls and results without an id are Unnamed.
Message == {"system", "blank system", "user", "blank user", "text", "call", "silent", "result",
            "unnamed call", "unnamed result"}
Kept    == {"text", "call", "silent"}       \* replies that the stash may know
Unnamed == {"unnamed call", "unnamed result"}
Role(m) == CASE m \in {"system", "blank system"}    -> "system"
             [] m \in Kept \cup {"unnamed call"}     -> "assistant"
             [] OTHER                               -> "user"

\* _TurnStash.get: for a reply it may have a layout, or not any more, or again
\* (the next request reaches an instance that has it).
FromStash(messages) ==
    {s \in [DOMAIN messages -> Layouts \cup {"none"}] :
        \A n \in DOMAIN messages : messages[n] \notin Kept => s[n] = "none"}

RequestInit == history = <<>> /\ found = <<>>

\* The next request of a chat: its messages, all of them rendered again.
Grow(m) ==
    /\ Len(history) < MaxMessages
    /\ history' = Append(history, m)
    /\ found' \in FromStash(history')

RequestNext == \E m \in Message : Grow(m)

RequestSpec == RequestInit /\ [][RequestNext]_requestVars

Last(s) == s[Len(s)]
Front(s) == SubSeq(s, 1, Len(s) - 1)

-----------------------------------------------------------------------------
\* to_anthropic_messages

\* A message as a request renders it: its kind, the layout that was found for it,
\* and the id that _tool_id draws if it has none, which no other request draws.
Reading == [kind : Message, layout : Layouts \cup {"none"}, id : Nat]
Readings ==
    [n \in 1..Len(history) |->
        [kind |-> history[n], layout |-> found[n],
         id |-> IF history[n] \in Unnamed THEN Len(history) ELSE 0]]

\* The blocks of reading n, in one. A blank message has none, an empty result has,
\* and so has a reply without text and calls whose thinking is in the stash.
Blocks(n, e) ==
    IF e.kind \in {"blank system", "blank user"} \/ (e.kind = "silent" /\ e.layout = "none")
    THEN <<>> ELSE <<[kind |-> e.kind, of |-> n, layout |-> e.layout, id |-> e.id]>>

Turn(role, blocks) == [role |-> role, blocks |-> blocks]
Placeholder == Turn("user", <<[kind |-> "placeholder", of |-> 0, layout |-> "none", id |-> 0]>>)

\* A message's blocks join the turn before it if the role is the same; system
\* messages go elsewhere.
Joined(turns, role, blocks) ==
    IF role = "system" \/ blocks = <<>> THEN turns
    ELSE IF turns # <<>> /\ Last(turns).role = role
         THEN [turns EXCEPT ![Len(turns)].blocks = @ \o blocks]
         ELSE Append(turns, Turn(role, blocks))

Merged(readings) ==
    LET upTo[n \in 0..Len(readings)] ==
          IF n = 0 THEN <<>>
          ELSE LET before == upTo[n - 1]
               IN Joined(before, Role(readings[n].kind), Blocks(n, readings[n]))
    IN upTo[Len(readings)]

HasCall(turn) == \E i \in DOMAIN turn.blocks : turn.blocks[i].kind \in {"call", "unnamed call"}

\* A reply at the end that calls no tool is a prefill. Once it is dropped the
\* last turn is the user's, so the code's loop runs once.
WithoutPrefill(turns) ==
    IF turns # <<>> /\ Last(turns).role = "assistant" /\ ~HasCall(Last(turns)) THEN Front(turns) ELSE turns

FromUser(turns) ==
    IF turns = <<>> \/ turns[1].role # "user" THEN <<Placeholder>> \o turns ELSE turns

IsResult(b) == b.kind \in {"result", "unnamed result"}

\* sorted() is stable.
ResultsFirst(turn) ==
    [turn EXCEPT !.blocks = SelectSeq(@, IsResult) \o SelectSeq(@, LAMBDA b : ~IsResult(b))]

\* Mutation: system messages go in front of the first turn.
RenderWithSystem(readings) ==
    LET turns == FromUser(WithoutPrefill(Merged(readings)))
        system == SelectSeq([n \in DOMAIN readings |-> [kind |-> readings[n].kind, of |-> n]],
                            LAMBDA b : b.kind = "system")
    IN [system |-> {},
        turns |-> [i \in DOMAIN turns |->
          IF turns[i].role = "user"
          THEN ResultsFirst([turns[i] EXCEPT !.blocks = (IF i = 1 THEN system ELSE <<>>) \o @])
          ELSE turns[i]]]

\* The list of system texts, which are in the order of their messages, and the
\* turns. The provider reads, and caches, the one before the other.
Render(readings) ==
    LET turns == FromUser(WithoutPrefill(Merged(readings)))
    IN [system |-> {n \in DOMAIN readings : readings[n].kind = "system"},
        turns  |-> [i \in DOMAIN turns |->
                      IF turns[i].role = "user" THEN ResultsFirst(turns[i]) ELSE turns[i]]]

-----------------------------------------------------------------------------
\* Parameters.

Rank(e) == CHOOSE i \in DOMAIN Effort : Effort[i] = e

\* _openai_effort
OpenAIEffort(e) == IF e = "absent" \/ Rank(e) <= Rank("high") THEN e ELSE "high"

\* ProviderClient._params: which parameters are sent beside the messages.
CompatParams(target, ask) ==
    [temperature |-> target.model \in {"deepseek", "haiku"},
     limit  |-> IF target.model = "gpt" THEN "max_completion_tokens" ELSE "max_tokens",
     tools  |-> ask.tools,
     choice |-> IF target.model = "opus" /\ ask.choice \in {"required", "named"} THEN "auto" ELSE ask.choice,
     effort |-> IF target.model = "gpt" /\ ~ask.tools THEN OpenAIEffort(ask.effort) ELSE "absent"]

\* Mutation: the choice is passed on to every model.
NativeChoiceAsAsked(target, ask) == IF ask.choice \in {"absent", "auto"} THEN "absent" ELSE ask.choice

\* _to_anthropic_tool_choice
NativeChoice(target, ask) ==
    IF ask.choice \in {"absent", "auto"} THEN "absent"
    ELSE IF ask.choice # "none" /\ target.model \in Thinking THEN "auto"
    ELSE ask.choice

\* AnthropicClient._params
NativeParams(target, ask) ==
    [temperature |-> target.model \notin Thinking,
     limit  |-> "max_tokens",
     tools  |-> ask.tools,
     choice |-> IF ask.tools THEN NativeChoice(target, ask) ELSE "absent",
     effort |-> IF target.model \in Thinking THEN ask.effort ELSE "absent"]

Params(target, ask) ==
    IF target.native THEN NativeParams(target, ask) ELSE CompatParams(target, ask)

\* The messages end with a reply without a tool call, on either endpoint.
NativePrefill ==
    LET end == Last(Render(Readings).turns) IN end.role = "assistant" /\ ~HasCall(end)

CompatPrefill(target) ==
    LET kept == IF target.model \in Thinking /\ history # <<>> /\ Last(history) \in {"text", "silent"}
                THEN Front(history) ELSE history
    IN kept # <<>> /\ Last(kept) \in {"text", "silent"}

(***************************************************************************)
(* Properties.                                                             *)
(***************************************************************************)

\* Nothing is sent that the comments of the two modules say the model refuses:
\* sampling and prefills on the thinking models of Claude (a client that sends
\* two replies in a row at the end is not covered on the compatible endpoint),
\* forced tools where the model cannot be forced, effort together with tools
\* or a bare max_tokens on GPT.
NothingRefusedIsSent ==
    LET twoReplies == /\ Len(history) > 1
                      /\ {Last(history), history[Len(history) - 1]} \subseteq {"text", "silent"}
    IN /\ ~NativePrefill
       /\ \A target \in Target :
            target.model \in Thinking /\ ~target.native /\ CompatPrefill(target) => twoReplies
       /\ \A target \in Target, ask \in Asks :
            LET p == Params(target, ask)
            IN /\ target.model \in Thinking => ~p.temperature
               /\ target.model = "opus" \/ (target.native /\ target.model = "sonnet") =>
                    p.choice \notin {"required", "named"}
               /\ target.model = "gpt" =>
                    /\ ~p.temperature /\ p.limit = "max_completion_tokens"
                    /\ p.tools => p.effort = "absent"

\* When the chat grows, the request begins as the last one did: with the turns
\* that its first k messages make, all but the last of these, provided that the
\* stash answers the same for them and that none of them lacks an id.  So what
\* the stash has forgotten about one reply costs no turn before that reply.
\* The list of system texts in front changes only by a new one, at its end.
PrefixIsStable ==
    [][ LET before == Render(Readings)
            after  == Render(Readings')
        IN /\ after.system = before.system
                 \cup {n \in DOMAIN history' \ DOMAIN history : history'[n] = "system"}
           /\ \A k \in 1..Len(history) :
                (\A n \in 1..k : found'[n] = found[n] /\ history[n] \notin Unnamed) =>
                    LET common == Render(SubSeq(Readings, 1, k)).turns
                    IN \A t \in 1..(Len(common) - 1) :
                            before.turns[t] = common[t] /\ after.turns[t] = common[t]
      ]_requestVars
=============================================================================
