------------------------------ MODULE Overlaps ------------------------------
(***************************************************************************)
(* The sweep of RedactionPipeline.redact (backend/pii/pipeline.py) over a  *)
(* text: which of the matches of all patterns are replaced when they       *)
(* overlap, and what the text becomes.  A character is its position, and a *)
(* placeholder is the stretch of text that it stands for: that the store   *)
(* answers with this stretch is in Pseudonymizer; which placeholders of a  *)
(* text restore() (pseudonymizer.py) finds is here.  What the patterns     *)
(* match is their business; here any stretch may match, with its sensitive *)
(* value in it.                                                            *)
(***************************************************************************)
EXTENDS Integers, FiniteSets, Sequences, SequencesExt

CONSTANTS
    Length,         \* bound: of the text
    Patterns,       \* PATTERN_REGISTRY: the priority of each, and whether it has a value group
    MaxMatches      \* bound: matches in a text

ASSUME OverlapsAssumption ==
    /\ Length \in Nat /\ MaxMatches \in Nat
    /\ Patterns \in Seq([priority : Nat, group : BOOLEAN])

VARIABLES
    matches,    \* what _collect found
    accepted,   \* what _resolve_overlaps left of it
    output      \* what _apply made of the text, <<>> before

overlapVars == <<matches, accepted, output>>

Text == 1..Length

\* _Match: from start up to end, the value from val_start up to val_end.
Match == {m \in [start : Text, end : Text \cup {Length + 1}, valStart : Text,
                 valEnd : Text \cup {Length + 1}, pattern : DOMAIN Patterns] :
            /\ m.start <= m.valStart /\ m.valStart < m.valEnd /\ m.valEnd <= m.end
            /\ ~Patterns[m.pattern].group => m.valStart = m.start /\ m.valEnd = m.end}

Size(m) == m.end - m.start
Priority(m) == Patterns[m.pattern].priority

\* The pieces of an output: characters, and placeholders for a stretch of text.
Plain(from, to) == [i \in 1..(to - from) |-> [from |-> from + i - 1, to |-> from + i, hidden |-> FALSE]]
Hidden(from, to) == <<[from |-> from, to |-> to, hidden |-> TRUE]>>

OverlapsInit == matches = {} /\ accepted = {} /\ output = <<>>

-----------------------------------------------------------------------------
Intersects(m, n) == m.start < n.end /\ m.end > n.start

\* Mutation: the longest match wins, whatever its priority.
StrongerByLength(m, n) ==
    \/ Size(m) > Size(n)
    \/ Size(m) = Size(n) /\ <<m.start, m.pattern>> # <<n.start, n.pattern>>
       /\ (m.start < n.start \/ (m.start = n.start /\ m.pattern < n.pattern))

\* The order in which matches are considered: by priority, length, start, and
\* last by the order of the registry, since sorted() is stable.
Stronger(m, n) ==
    \/ Priority(m) > Priority(n)
    \/ /\ Priority(m) = Priority(n)
       /\ \/ Size(m) > Size(n)
          \/ /\ Size(m) = Size(n)
             /\ m.start < n.start \/ (m.start = n.start /\ m.pattern < n.pattern)

\* sorted: the elements of a set, in the order that a set of pairs gives.
Sorted(S, before) ==
    CHOOSE s \in [1..Cardinality(S) -> S] : \A i, j \in DOMAIN s : i < j => <<s[i], s[j]>> \in before

\* _resolve_overlaps: what is accepted after the first n matches.
Resolved ==
    LET order == Sorted(matches, {p \in matches \X matches : Stronger(p[1], p[2])})
        taken[n \in 0..Cardinality(matches)] ==
            IF n = 0 THEN {}
            ELSE IF \E a \in taken[n - 1] : Intersects(a, order[n]) THEN taken[n - 1]
            ELSE taken[n - 1] \cup {order[n]}
    IN taken[Cardinality(matches)]

\* Mutation: the last character of the value is taken for what follows it.
ReplacementKeepsLast(m) ==
    Plain(m.start, m.valStart) \o Hidden(m.valStart, m.valEnd) \o Plain(m.valEnd - 1, m.end)

\* The match with a placeholder in the place of its value.
Replacement(m) ==
    Plain(m.start, m.valStart) \o Hidden(m.valStart, m.valEnd) \o Plain(m.valEnd, m.end)

\* _apply: the cursor and the parts after the first n of the accepted matches.
Applied(chosen) ==
    LET order == Sorted(chosen, {p \in chosen \X chosen : p[1].start < p[2].start})
        done[n \in 0..Cardinality(chosen)] ==
            IF n = 0 THEN [cursor |-> 1, pieces |-> <<>>]
            ELSE [cursor |-> order[n].end,
                  pieces |-> done[n - 1].pieces \o Plain(done[n - 1].cursor, order[n].start) \o Replacement(order[n])]
        all == done[Cardinality(chosen)]
    IN all.pieces \o Plain(all.cursor, Length + 1)

\* _PLACEHOLDER_RE takes a placeholder only between word boundaries: not one with
\* a word character or another placeholder right before or after it.
Glued(pieces, i, words) ==
    \E j \in {i - 1, i + 1} \cap DOMAIN pieces : pieces[j].hidden \/ pieces[j].from \in words

\* restore, of a text in which these are the word characters: a placeholder that is
\* found becomes its stretch. One that is glued to its neighbour is left as it is (or,
\* where the two read as another placeholder, taken for that one).
Restored(pieces, words) ==
    FlattenSeq([i \in DOMAIN pieces |->
        IF pieces[i].hidden /\ Glued(pieces, i, words) THEN <<pieces[i]>>
        ELSE Plain(pieces[i].from, pieces[i].to)])

-----------------------------------------------------------------------------
\* A pattern matches; its own matches do not overlap.
Collect(m) ==
    /\ output = <<>> /\ Cardinality(matches) < MaxMatches
    /\ \A n \in matches : n.pattern = m.pattern => ~(m.start < n.end /\ m.end > n.start)
    /\ matches' = matches \cup {m}
    /\ UNCHANGED <<accepted, output>>

Redact ==
    /\ output = <<>>
    /\ accepted' = Resolved
    /\ output' = Applied(Resolved)
    /\ UNCHANGED matches

\* The pipeline goes on to the next string of the request.
NextText == output # <<>> /\ matches' = {} /\ accepted' = {} /\ output' = <<>>

OverlapsNext == (\E m \in Match : Collect(m)) \/ Redact \/ NextText

OverlapsSpec == OverlapsInit /\ [][OverlapsNext]_overlapVars

(***************************************************************************)
(* Properties.                                                             *)
(***************************************************************************)

\* Types of the state; what is accepted does not overlap.
OverlapsTypeOK ==
    /\ matches \subseteq Match /\ accepted \subseteq matches
    /\ \A m, n \in accepted : m # n => m.end <= n.start \/ n.end <= m.start
    /\ output \in Seq([from : Text, to : 2..(Length + 1), hidden : BOOLEAN])

\* The redacted text stands for the text that came in, whatever matches overlap or
\* touch: nothing is lost, doubled or moved. So restore() gives back that text, if no
\* placeholder is glued to a word character or to another one (those it does not find).
\* And of a value that was accepted no character is left in the redacted text: one
\* placeholder stands for all of it.
RestoredExactly ==
    output # <<>> =>
        /\ FlattenSeq([i \in DOMAIN output |-> Plain(output[i].from, output[i].to)]) = Plain(1, Length + 1)
        /\ \A words \in SUBSET Text :
              (\A i \in DOMAIN output : output[i].hidden => ~Glued(output, i, words))
                 => Restored(output, words) = Plain(1, Length + 1)
        /\ \A m \in accepted :
              /\ \A i \in DOMAIN output : ~output[i].hidden => output[i].from \notin m.valStart..(m.valEnd - 1)
              /\ \E i \in DOMAIN output : output[i] = Hidden(m.valStart, m.valEnd)[1]

\* A match is passed over only for an accepted one that it overlaps and that is as
\* strong at least: of a higher priority, or of the same and not shorter.
LosesOnlyToStronger ==
    output # <<>> => \A m \in matches \ accepted :
        \E a \in accepted :
            /\ m.start < a.end /\ m.end > a.start
            /\ \/ Priority(a) > Priority(m)
               \/ Priority(a) = Priority(m) /\ Size(a) >= Size(m)
=============================================================================
