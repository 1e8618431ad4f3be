------------------------------- MODULE Claude -------------------------------
(***************************************************************************)
(* Claude behind the OpenAI protocol: llm/anthropic_client.py translates   *)
(* the event stream of a reply to chunks, remembers the layout of a reply  *)
(* that carries thinking, and rebuilds the reply when the client sends it  *)
(* back; api/routes/model.py puts the route line of Auto in front of the   *)
(* reply and strips it again.  All replies are for one tenant.  A text is  *)
(* a sequence of characters: a letter or white space; the route line is    *)
(* one character and the white space that ends it.  The input of a tool    *)
(* call comes in parts, and parses once its last part is there.            *)
(***************************************************************************)
EXTENDS TTLStore, FiniteSets

CONSTANTS
    Letters,        \* what texts are made of, white space apart
    MaxReplies,     \* bound: replies
    MaxBlocks,      \* bound: content blocks of all replies together
    MaxText,        \* bound: characters of a text block, or parts of a tool's input
    STASH_ITEMS,    \* _TurnStash: max_items
    STASH_TTL,      \* _TurnStash: ttl_seconds
    MaxTime         \* bound: the last instant of the model

White == {"space", "newline"}
Line  == "line"                     \* "_MisterPilot Auto · ..._"
Close == "}"                        \* the part that completes the input of a tool call
Char  == Letters \cup {"space", Close}

\* No text of a model has a route line of its own in front.
ASSUME ClaudeAssumption ==
    /\ Letters \cap (White \cup {Line, Close}) = {}
    /\ {MaxReplies, MaxBlocks, MaxText, STASH_ITEMS, STASH_TTL, MaxTime} \subseteq Nat

VARIABLES
    now,        \* time.monotonic()
    pc,         \* the current reply: "none", "open", "stopped" or "over"
    mode,       \* "stream" or "complete"
    shown,      \* the route line goes in front of this reply
    blocks,     \* _Translator.blocks, in the order of their index
    toolIndex,  \* _Translator.tool_index: the blocks that are tool calls, in order of start
    chat,       \* what the client has made of the reply
    stash,      \* _stash
    replies,    \* history: the finished replies, as Claude produced them
    sent        \* the reply that was sent back since the last one, and what went upstream for it

claudeVars == <<now, pc, mode, shown, blocks, toolIndex, chat, stash, replies, sent>>

Block(kind, id, data) == [kind |-> kind, id |-> id, data |-> data]

Whole == <<0, 0>>           \* where a block that Claude did not produce has its identifier

NoChat == [text |-> <<>>, calls |-> <<>>, finished |-> 0, usage |-> 0]
NotSent == [reply |-> 0, how |-> "exact", blocks |-> <<>>, hit |-> FALSE]

ClaudeInit ==
    /\ now = 0
    /\ pc = "none" /\ mode = "stream" /\ shown = FALSE
    /\ blocks = <<>> /\ toolIndex = <<>>
    /\ chat = NoChat
    /\ stash = <<>>
    /\ replies = <<>>
    /\ sent = NotSent

-----------------------------------------------------------------------------
\* Texts.

Concat(texts) ==
    LET upTo[n \in 0..Len(texts)] == IF n = 0 THEN <<>> ELSE upTo[n - 1] \o texts[n]
    IN upTo[Len(texts)]

Ink(text) == {i \in DOMAIN text : text[i] \notin White}

\* str.strip()
Strip(text) ==
    IF Ink(text) = {} THEN <<>>
    ELSE SubSeq(text, CHOOSE i \in Ink(text) : \A j \in Ink(text) : i <= j,
                      CHOOSE i \in Ink(text) : \A j \in Ink(text) : i >= j)

TextOf(list)  == Concat([i \in DOMAIN list |-> IF list[i].kind = "text" THEN list[i].data ELSE <<>>])
IdsOf(list)   == Concat([i \in DOMAIN list |-> IF list[i].kind = "tool" THEN <<list[i].id>> ELSE <<>>])
CallsOf(list) == Concat([i \in DOMAIN list |-> IF list[i].kind = "tool"
                                               THEN <<[id |-> list[i].id, input |-> list[i].data]>> ELSE <<>>])

-----------------------------------------------------------------------------
\* The reply, event by event.

\* A request is answered: message_start, whose chunk gets the route line.
MessageStart ==
    /\ pc \in {"none", "over"} /\ Len(replies) < MaxReplies
    /\ pc' = "open"
    /\ mode' \in {"stream", "complete"}
    /\ shown' \in (IF mode' = "stream" THEN BOOLEAN ELSE {FALSE})
    /\ blocks' = <<>> /\ toolIndex' = <<>>
    /\ chat' = [NoChat EXCEPT !.text = IF shown' THEN <<Line, "newline">> ELSE <<>>]
    /\ sent' = NotSent
    /\ UNCHANGED <<now, stash, replies>>

\* The content blocks of all replies so far.
Produced == Len(blocks) + Len(Concat([n \in 1..(Len(replies) - (IF pc = "over" THEN 1 ELSE 0)) |->
                                        replies[n].blocks]))

\* The input of a tool call is whole: it has its last part, or it has none and is
\* the empty one.
Parses(input) == \A i \in DOMAIN input : i = Len(input) => input[i] = Close

\* A block starts, once those before it are whole. Identifiers of thinking and of
\* tool calls are unique.
BlockStart(kind) ==
    LET id == <<Len(replies) + 1, Len(blocks) + 1>> IN
    /\ pc = "open" /\ Produced < MaxBlocks
    /\ \A i \in DOMAIN blocks : blocks[i].kind = "tool" => Parses(blocks[i].data)
    /\ blocks' = Append(blocks, Block(kind, id, <<>>))
    /\ toolIndex' = IF kind = "tool" THEN Append(toolIndex, Len(blocks) + 1) ELSE toolIndex
    /\ chat' = IF mode = "stream" /\ kind = "tool"
               THEN [chat EXCEPT !.calls = Append(@, [id |-> id, input |-> <<>>])]
               ELSE chat
    /\ UNCHANGED <<now, pc, mode, shown, stash, replies, sent>>

\* Mutation: a reply has one tool call.
ToolIndexFirst(i) == 1

\* The index under which the client is told of the tool call in block i.
ToolIndex(i) == CHOOSE n \in DOMAIN toolIndex : toolIndex[n] = i

\* A delta of the last block: text, or a part of a tool's input, goes to the
\* client; thinking and its signature are kept. Nothing says that more comes: a
\* reply that reaches max_tokens ends within the input of a tool call.
Delta(c) ==
    LET i == Len(blocks) IN
    /\ pc = "open" /\ i > 0
    /\ blocks[i].kind # "thinking" /\ Len(blocks[i].data) < MaxText
    /\ c \in Letters \cup {IF blocks[i].kind = "tool" THEN Close ELSE "space"}
    /\ \A j \in DOMAIN blocks[i].data : blocks[i].data[j] # Close
    /\ blocks' = [blocks EXCEPT ![i].data = Append(@, c)]
    /\ chat' = IF mode = "complete" THEN chat
               ELSE IF blocks[i].kind = "text" THEN [chat EXCEPT !.text = Append(@, c)]
               ELSE [chat EXCEPT !.calls[ToolIndex(i)].input = Append(@, c)]
    /\ UNCHANGED <<now, pc, mode, shown, toolIndex, stash, replies, sent>>

\* message_stop: the finish chunk.
MessageStop ==
    /\ pc = "open"
    /\ pc' = "stopped"
    /\ chat' = IF mode = "stream" THEN [chat EXCEPT !.finished = @ + 1] ELSE chat
    /\ UNCHANGED <<now, mode, shown, blocks, toolIndex, stash, replies, sent>>

\* _turn_key
TurnKey(text, ids) == IF ids # <<>> THEN <<"tool", ids[1]>> ELSE <<"text", Strip(text)>>

\* What stash() remembers of a block: thinking as it is, where a text goes and
\* how long it is, which tool call.
Slot(b) == [kind |-> b.kind, id |-> b.id, length |-> IF b.kind = "text" THEN Len(b.data) ELSE 0]

Layout(list) == [slots |-> [i \in DOMAIN list |-> Slot(list[i])],
                 ids |-> IdsOf(list), text |-> TextOf(list)]

Stashed ==
    IF \A i \in DOMAIN blocks : blocks[i].kind # "thinking" THEN stash
    ELSE AfterPut(stash, TurnKey(TextOf(blocks), IdsOf(blocks)), Layout(blocks), now, STASH_ITEMS)

\* The event stream ends: the layout is remembered, a streaming client gets the
\* usage, any other the whole message. A stream may end without message_stop.
StreamEnd ==
    /\ pc \in {"open", "stopped"}
    /\ pc' = "over"
    /\ stash' = IF mode = "complete" \/ pc = "stopped" THEN Stashed ELSE stash
    /\ chat' = IF mode = "stream" THEN [chat EXCEPT !.usage = @ + 1]
               ELSE [text |-> TextOf(blocks), calls |-> CallsOf(blocks), finished |-> 1, usage |-> 1]
    /\ replies' = Append(replies, [blocks |-> blocks, text |-> chat'.text, calls |-> chat'.calls])
    /\ UNCHANGED <<now, mode, shown, blocks, toolIndex, sent>>

\* The stream breaks: the client gets an error instead.
Break ==
    /\ pc = "open"
    /\ pc' = "over"
    /\ UNCHANGED <<now, mode, shown, blocks, toolIndex, chat, stash, replies, sent>>

-----------------------------------------------------------------------------
\* The reply, sent back in the history.

\* _sanitize_messages strips the route line, if the blank line after it is there.
Sanitized(text) ==
    IF Len(text) >= 2 /\ text[1] = Line /\ text[2] = "newline" THEN SubSeq(text, 3, Len(text)) ELSE text

\* The client sends the text as it got it, or without the white space around it.
Echoed(text, how) == IF how = "exact" THEN text ELSE Strip(text)

\* Mutation: a trimmed text goes into every slot.
PieceEverywhere(slots, i, text, exact) ==
    LET end[j \in 0..i] == IF j = 0 THEN 0 ELSE end[j - 1] + slots[j].length
    IN IF exact THEN SubSeq(text, end[i - 1] + 1, end[i]) ELSE Strip(text)

\* The text that fills slot i of a layout: its share, or all of it in the first.
Piece(slots, i, text, exact) ==
    LET end[j \in 0..i] == IF j = 0 THEN 0 ELSE end[j - 1] + slots[j].length
    IN IF exact THEN SubSeq(text, end[i - 1] + 1, end[i])
       ELSE IF \E j \in 1..(i - 1) : slots[j].kind = "text" THEN <<>> ELSE Strip(text)

\* Without the text blocks that have nothing but white space.
Visible(list) == Concat([i \in DOMAIN list |-> IF list[i].kind = "text" /\ Ink(list[i].data) = {}
                                               THEN <<>> ELSE <<list[i]>>])

Call(calls, id) == CHOOSE c \in {calls[i] : i \in DOMAIN calls} : c.id = id

\* _tool_input: what does not parse becomes the empty input.
ToolInput(input) == IF Parses(input) THEN input ELSE <<>>

\* _assistant_blocks: the calls as they are put into the request.
ToolUses(calls) == [i \in DOMAIN calls |-> [calls[i] EXCEPT !.input = ToolInput(@)]]

\* _rebuild: the client's text and tool calls in the stored layout, in the set;
\* nothing if the client changed the text.
Rebuilt(layout, text, calls) ==
    LET exact == layout.text = text
        filled == [i \in DOMAIN layout.slots |->
            LET slot == layout.slots[i] IN
            Block(slot.kind, slot.id,
                  CASE slot.kind = "thinking" -> <<>>
                    [] slot.kind = "tool"     -> Call(calls, slot.id).input
                    [] slot.kind = "text"     -> Piece(layout.slots, i, text, exact))]
    IN IF exact \/ Strip(layout.text) = Strip(text)
       THEN {Visible(filled)}
       ELSE {}

\* _assistant_blocks without the stash: the text, then the tool calls.
Plain(text, calls) ==
    (IF Ink(text) = {} THEN <<>> ELSE <<Block("text", Whole, text)>>)
        \o [i \in DOMAIN calls |-> Block("tool", calls[i].id, calls[i].input)]

\* The client sends reply n back; _assistant_blocks puts it into the request.
SendBack(n, how) ==
    LET text == Sanitized(Echoed(replies[n].text, how))
        calls == ToolUses(replies[n].calls)
        ids == [i \in DOMAIN calls |-> calls[i].id]
        found == {l \in Lookup(stash, TurnKey(text, ids), now, STASH_TTL) : l.ids = ids}
        rebuilt == UNION {Rebuilt(l, text, calls) : l \in found}
    IN /\ pc = "over"
       /\ stash' = AfterGet(stash, TurnKey(text, ids), now, STASH_TTL)
       /\ sent' = [reply |-> n, how |-> how, hit |-> rebuilt # {},
                   blocks |-> IF rebuilt = {} THEN Plain(text, calls) ELSE CHOOSE b \in rebuilt : TRUE]
       /\ UNCHANGED <<now, pc, mode, shown, blocks, toolIndex, chat, replies>>

ClaudeTick ==
    /\ now < MaxTime /\ pc = "over"
    /\ now' = now + 1
    /\ UNCHANGED <<pc, mode, shown, blocks, toolIndex, chat, stash, replies, sent>>

ClaudeNext ==
    \/ MessageStart
    \/ \E kind \in {"thinking", "text", "tool"} : BlockStart(kind)
    \/ \E c \in Char : Delta(c)
    \/ MessageStop \/ StreamEnd \/ Break
    \/ \E n \in DOMAIN replies, how \in {"exact", "trimmed"} : SendBack(n, how)
    \/ ClaudeTick

ClaudeSpec == ClaudeInit /\ [][ClaudeNext]_claudeVars

(***************************************************************************)
(* Properties.                                                             *)
(***************************************************************************)

\* Types of the state.
ClaudeTypeOK ==
    /\ now \in 0..MaxTime
    /\ pc \in {"none", "open", "stopped", "over"}
    /\ \A i \in DOMAIN blocks : blocks[i].kind \in {"thinking", "text", "tool"}
    /\ \A i \in DOMAIN toolIndex : blocks[toolIndex[i]].kind = "tool"
    /\ StoreOK(stash, STASH_ITEMS)
    /\ sent.reply \in 0..Len(replies)

\* From the chunks of a stream a client puts together the very message that a
\* request without streaming returns: every character once and in order, every
\* part of a tool's input at the tool call it belongs to.
StreamAgreesWithComplete ==
    \A n \in DOMAIN replies :
        /\ Sanitized(replies[n].text) = TextOf(replies[n].blocks)
        /\ replies[n].calls = CallsOf(replies[n].blocks)

Remembered(n) == \E i \in DOMAIN stash : stash[i].value = Layout(replies[n].blocks)

Unwritten(list) == Concat([i \in DOMAIN list |-> IF list[i].kind = "text" THEN <<>> ELSE <<list[i]>>])
BareLine(n) == Ink(replies[n].text) = {1} /\ replies[n].text[1] = Line

Written(text) == Concat([i \in DOMAIN text |-> IF text[i] \in White THEN <<>> ELSE <<text[i]>>])

\* What Claude produced, as far as it can be sent back: an input that was cut
\* short is gone.
Sendable(list) == [i \in DOMAIN list |->
    IF list[i].kind = "tool" /\ ~Parses(list[i].data) THEN [list[i] EXCEPT !.data = <<>>] ELSE list[i]]

\* Whatever the stash holds, has evicted or has let expire, no character and no tool
\* call that the client sends back is lost, doubled or reordered on the way to
\* Claude, and a tool call keeps its input if that is whole (one that was cut short
\* goes back with the empty input, _tool_input). A reply that is still remembered
\* goes back, such inputs apart, as Claude produced it: thinking, text and tool
\* calls in their places, or, when the client trimmed it, with its text in one
\* piece. A reply without text whose route line was trimmed is the exception: the
\* line is not recognised (_assistant_blocks, _rebuild).
SentBackWhole ==
    LET n == sent.reply IN
    n # 0 =>
        /\ Written(TextOf(sent.blocks)) = Written(Sanitized(Echoed(replies[n].text, sent.how)))
        /\ CallsOf(sent.blocks) = [i \in DOMAIN replies[n].calls |->
                                     IF Parses(replies[n].calls[i].input) THEN replies[n].calls[i]
                                     ELSE [replies[n].calls[i] EXCEPT !.input = <<>>]]
        /\ Remembered(n) /\ ~(sent.how = "trimmed" /\ BareLine(n)) =>
              /\ sent.hit
              /\ Unwritten(sent.blocks) = Unwritten(Sendable(replies[n].blocks))
              /\ sent.how = "exact" => sent.blocks = Visible(Sendable(replies[n].blocks))

\* The thinking that goes back with a reply is that reply's: "it is rebuilt
\* exactly as Claude produced it".
OwnThinking ==
    \A i \in DOMAIN sent.blocks :
        sent.blocks[i].kind = "thinking" => sent.blocks[i].id[1] = sent.reply
=============================================================================
