---------------------------- MODULE ClaudeProofs ----------------------------
(***************************************************************************)
(* The replies of Claude, of any number of blocks of any length, in any    *)
(* order, any number of them.                                              *)
(*                                                                         *)
(* StreamAgreesWithComplete.  What the client has so far is the text and   *)
(* the tool calls of the blocks so far (ChatInStep), since a delta is      *)
(* always one of the last block, and the last tool call that started is    *)
(* where it goes (ToolsInStep).  The texts of the blocks are put together  *)
(* by Concat; ListGrows says what becomes of a list of blocks when one     *)
(* more block, or a longer last one, is put at its end.                    *)
(*                                                                         *)
(* SentBackWhole.  Everything the property speaks of is gathered from the  *)
(* elements of a list, each giving its part (Total); two lists put         *)
(* together give the parts of both, and to gather from what was gathered   *)
(* is to gather once.  Around this: strip takes white space only, nothing  *)
(* is stripped through the route line, an unchanged text is cut into the   *)
(* pieces it came from, and a changed one is written once (FilledInKeeps). *)
(* The invariant (SendInv) says that an entry of the stash is the layout   *)
(* of a reply, under that layout's key, and that the tool calls of a reply *)
(* name it: a layout that is found for a reply is the reply's own, or one  *)
(* of a reply without tool calls and with the same text.  What _tool_input *)
(* makes of the calls is what is left of the reply without the inputs that *)
(* were cut short (UsableCalls), whose layout is the same (UsableList).    *)
(***************************************************************************)
EXTENDS Claude, BasicProofs

-----------------------------------------------------------------------------
(* Sequences put together. *)

\* What Concat has after each of its parts.
Sums(u, s) == u[0] = <<>> /\ \A n \in 1..Len(s) : u[n] = u[n - 1] \o s[n]

\* Concat goes through its parts one by one.
LEMMA ConcatSteps ==
    ASSUME NEW S, NEW s \in Seq(Seq(S))
    PROVE  \E u \in [0..Len(s) -> Seq(S)] : Sums(u, s) /\ Concat(s) = u[Len(s)]
<1> DEFINE N == Len(s)
           V == Seq(S)
           base == <<>>
           add(t, n) == t \o s[n]
           next == [n \in 1..N |-> [t \in V |-> add(t, n)]]
           u == CHOOSE f : f = [n \in 0..N |-> IF n = 0 THEN base ELSE add(f[n - 1], n)]
<1>1. N \in Nat /\ \A n \in 1..N : s[n] \in Seq(S)
  OBVIOUS
<1>2. Concat(s) = u[N]
  BY DEF Concat
<1> HIDE DEF N
<1>3. base \in V
  OBVIOUS
<1>4. \A n \in 1..N : \A t \in V : add(t, n) \in V
  <2> SUFFICES ASSUME NEW n \in 1..N, NEW t \in V PROVE add(t, n) \in V
    OBVIOUS
  <2>1. s[n] \in Seq(S) /\ t \in Seq(S)
    BY <1>1
  <2> QED BY <2>1, ConcatProperties
<1>5. next \in [1..N -> [V -> V]]
  <2> HIDE DEF V, add
  <2> QED BY <1>4
<1>6. \A n \in 1..N : \A t \in V : next[n][t] = add(t, n)
  <2> HIDE DEF V, add
  <2> QED OBVIOUS
<1> HIDE DEF V, base, next, add
<1>7. PICK f : Defined(f, N, V, base, next)
  BY <1>1, <1>3, <1>5, RecursionDefines
<1>8. f \in [0..N -> V] /\ f[0] = base /\ \A n \in 1..N : f[n] = add(f[n - 1], n)
  <2>1. f \in [0..N -> V] /\ f[0] = base /\ \A n \in 1..N : f[n] = next[n][f[n - 1]]
    BY <1>7 DEF Defined
  <2>2. \A n \in 1..N : f[n - 1] \in V
    <3>1. \A n \in 1..N : n - 1 \in 0..N
      BY <1>1
    <3> QED BY <2>1, <3>1
  <2> QED BY <1>6, <2>1, <2>2
<1>9. f = [n \in 0..N |-> IF n = 0 THEN base ELSE add(f[n - 1], n)]
  <2>1. \A n \in 0..N : n # 0 => n \in 1..N
    BY <1>1
  <2>2. \A n \in 0..N : f[n] = IF n = 0 THEN base ELSE add(f[n - 1], n)
    BY <1>8, <2>1
  <2>3. f = [n \in 0..N |-> f[n]]
    BY <1>8
  <2> QED BY <2>2, <2>3
<1>10. u = [n \in 0..N |-> IF n = 0 THEN base ELSE add(u[n - 1], n)]
  BY <1>9
<1> HIDE DEF u
<1>11. \A n \in 0..N : u[n] = IF n = 0 THEN base ELSE add(u[n - 1], n)
  BY <1>10, Zenon
<1>12. 0 \in 0..N /\ \A n \in 1..N : n \in 0..N /\ n # 0
  BY <1>1
<1>13. u[0] = base /\ \A n \in 1..N : u[n] = add(u[n - 1], n)
  BY <1>11, <1>12
<1> DEFINE Bad == {n \in Nat : n <= N /\ u[n] \notin V}
<1>14. Bad = {}
  <2> SUFFICES ASSUME Bad # {} PROVE FALSE
    OBVIOUS
  <2>1. PICK n \in Bad : \A m \in Bad : n <= m
    BY LeastIsThere
  <2>2. n # 0 /\ n \in Nat /\ n <= N
    BY <1>3, <1>13
  <2>3. n - 1 \in Nat /\ n - 1 <= N /\ ~(n <= n - 1) /\ n \in 1..N
    BY <1>1, <2>2
  <2>4. u[n - 1] \in V
    BY <2>1, <2>3
  <2> QED BY <1>4, <1>13, <2>3, <2>4
<1>15. \A n \in 0..N : u[n] \in V
  BY <1>1, <1>14
<1>16. u \in [0..N -> V]
  BY <1>10, <1>15
<1> QED BY <1>2, <1>13, <1>16 DEF Sums, N, V, base, add

\* Of no parts Concat makes nothing.
LEMMA ConcatEmpty == Concat(<<>>) = <<>>
<1>1. <<>> \in Seq(Seq({})) /\ Len(<<>>) = 0
  OBVIOUS
<1>2. PICK u \in [0..Len(<<>>) -> Seq({})] : Sums(u, <<>>) /\ Concat(<<>>) = u[Len(<<>>)]
  BY <1>1, ConcatSteps
<1> QED BY <1>1, <1>2 DEF Sums

\* What is added to the parts is added to the whole.
LEMMA ConcatGrows ==
    ASSUME NEW S, NEW s \in Seq(Seq(S)), NEW x \in Seq(S)
    PROVE  Concat(s) \in Seq(S) /\ Concat(Append(s, x)) = Concat(s) \o x
<1> DEFINE t == Append(s, x)
           N == Len(s)
<1>1. N \in Nat /\ t \in Seq(Seq(S)) /\ Len(t) = N + 1 /\ t[N + 1] = x /\ \A n \in 1..N : t[n] = s[n]
  <2>1. x \in Seq(S) /\ s \in Seq(Seq(S))
    OBVIOUS
  <2> DEFINE V == Seq(S)
  <2> HIDE DEF V
  <2>2. x \in V /\ s \in Seq(V)
    BY <2>1 DEF V
  <2>3. Append(s, x) \in Seq(V) /\ Len(Append(s, x)) = Len(s) + 1 /\ Append(s, x)[Len(s) + 1] = x
        /\ \A n \in 1..Len(s) : Append(s, x)[n] = s[n]
    BY <2>2, AppendProperties
  <2> QED BY <2>2, <2>3 DEF V
<1>2. PICK u \in [0..N -> Seq(S)] : Sums(u, s) /\ Concat(s) = u[N]
  BY ConcatSteps
<1>3. PICK v \in [0..(N + 1) -> Seq(S)] : Sums(v, t) /\ Concat(t) = v[N + 1]
  <2>1. \E v \in [0..Len(t) -> Seq(S)] : Sums(v, t) /\ Concat(t) = v[Len(t)]
    BY <1>1, ConcatSteps
  <2> QED BY <1>1, <2>1
<1>4. /\ u[0] = <<>> /\ \A n \in 1..N : u[n] = u[n - 1] \o s[n]
      /\ v[0] = <<>> /\ \A n \in 1..(N + 1) : v[n] = v[n - 1] \o t[n]
  BY <1>1, <1>2, <1>3 DEF Sums
<1> HIDE DEF N, t
<1> DEFINE Bad == {n \in Nat : n <= N /\ u[n] # v[n]}
<1>5. Bad = {}
  <2> SUFFICES ASSUME Bad # {} PROVE FALSE
    OBVIOUS
  <2>1. PICK n \in Bad : \A m \in Bad : n <= m
    BY LeastIsThere
  <2>2. n # 0 /\ n \in Nat /\ n <= N
    BY <1>4
  <2>3. n - 1 \in Nat /\ n - 1 <= N /\ ~(n <= n - 1) /\ n \in 1..N /\ n \in 1..(N + 1)
    BY <1>1, <2>2
  <2>4. u[n - 1] = v[n - 1]
    BY <2>1, <2>3
  <2>5. u[n] = v[n]
    BY <1>1, <1>4, <2>3, <2>4
  <2> QED BY <2>5
<1>6. u[N] = v[N] /\ N \in 0..N /\ N + 1 \in 1..(N + 1) /\ (N + 1) - 1 = N
  BY <1>1, <1>5
<1>7. Concat(t) = u[N] \o x
  BY <1>1, <1>3, <1>4, <1>6
<1> QED BY <1>2, <1>6, <1>7 DEF t

-----------------------------------------------------------------------------
(* What is gathered from the elements of a list. *)

\* The parts that f takes from the elements of a list, put together.
Total(f, list) == Concat([i \in DOMAIN list |-> f[list[i]]])

\* From an element of B f takes a list over S.
Gathers(f, B, S) == f \in [B -> Seq(S)]

\* A part is a list.
LEMMA GathersPart == ASSUME NEW B, NEW S, NEW f, Gathers(f, B, S), NEW b \in B PROVE f[b] \in Seq(S)
BY DEF Gathers

\* Nothing is gathered from an empty list.
LEMMA TotalEmpty == ASSUME NEW f PROVE Total(f, <<>>) = <<>>
<1>1. [i \in DOMAIN <<>> |-> f[<<>>[i]]] = <<>>
  OBVIOUS
<1> QED BY <1>1, ConcatEmpty DEF Total

\* What is gathered is a list.
LEMMA TotalType ==
    ASSUME NEW B, NEW S, NEW f, Gathers(f, B, S), NEW list \in Seq(B)
    PROVE  Total(f, list) \in Seq(S)
<1> DEFINE p == [i \in DOMAIN list |-> f[list[i]]]
           V == Seq(S)
           N == Len(list)
<1>1. N \in Nat /\ DOMAIN list = 1..N /\ \A i \in 1..N : list[i] \in B
  OBVIOUS
<1>2. \A i \in 1..N : f[list[i]] \in V
  BY <1>1, GathersPart
<1> HIDE DEF N, V
<1>3. p \in Seq(V)
  <2>1. p = [i \in 1..N |-> f[list[i]]]
    BY <1>1
  <2> QED BY <1>1, <1>2, <2>1, IsASeq
<1> HIDE DEF p
<1>4. p \in Seq(Seq(S))
  BY <1>3 DEF V
<1>5. PICK u \in [0..Len(p) -> Seq(S)] : Sums(u, p) /\ Concat(p) = u[Len(p)]
  BY <1>4, ConcatSteps
<1>6. Len(p) \in 0..Len(p)
  BY <1>4
<1> QED BY <1>5, <1>6 DEF Total, p

\* One more element adds its own part at the end.
LEMMA TotalGrows ==
    ASSUME NEW B, NEW S, NEW f, Gathers(f, B, S), NEW list \in Seq(B), NEW b \in B
    PROVE  Total(f, Append(list, b)) = Total(f, list) \o f[b]
<1> DEFINE N == Len(list)
           more == Append(list, b)
           p == [i \in DOMAIN list |-> f[list[i]]]
           q == [i \in DOMAIN more |-> f[more[i]]]
<1>1. /\ N \in Nat /\ DOMAIN list = 1..N /\ DOMAIN more = 1..(N + 1)
      /\ \A i \in 1..N : more[i] = list[i] /\ list[i] \in B
      /\ more[N + 1] = b
  BY AppendProperties
<1> DEFINE V == Seq(S)
<1>2. f[b] \in V /\ \A i \in 1..N : f[list[i]] \in V
  BY <1>1, GathersPart
<1> HIDE DEF N, more, V
<1>3. p \in Seq(V) /\ Len(p) = N /\ \A i \in 1..N : p[i] = f[list[i]]
  <2>1. p = [i \in 1..N |-> f[list[i]]]
    BY <1>1
  <2> QED BY <1>1, <1>2, <2>1, IsASeq
<1>4. q = [i \in 1..(N + 1) |-> f[more[i]]]
  BY <1>1
<1> HIDE DEF p, q
<1> DEFINE r == Append(p, f[b])
<1>5. r \in Seq(V) /\ Len(r) = N + 1 /\ r[N + 1] = f[b] /\ \A i \in 1..N : r[i] = p[i]
  BY <1>2, <1>3, AppendProperties
<1> HIDE DEF r
<1>6. \A i \in 1..(N + 1) : i = N + 1 \/ i \in 1..N
  BY <1>1
<1>7. r = [i \in 1..(N + 1) |-> r[i]]
  BY <1>5
<1>8. \A i \in 1..(N + 1) : r[i] = f[more[i]]
  BY <1>1, <1>3, <1>5, <1>6
<1>9. q = r
  BY <1>4, <1>7, <1>8
<1>10. Concat(p) \in Seq(S) /\ Concat(Append(p, f[b])) = Concat(p) \o f[b]
  <2>1. p \in Seq(Seq(S)) /\ f[b] \in Seq(S)
    BY <1>2, <1>3 DEF V
  <2> QED BY <2>1, ConcatGrows
<1> QED BY <1>9, <1>10 DEF Total, p, q, r, more

-----------------------------------------------------------------------------
(* Blocks. *)

\* What blocks and tool calls are.
Id == Nat \X Nat
Kinds == {"thinking", "text", "tool"}
Content == [kind : Kinds, id : Id, data : Seq(Char)]
Made == [id : Id, input : Seq(Char)]

\* What a block adds to the text, to the identifiers and to the calls of a reply.
TextPart == [b \in Content |-> IF b.kind = "text" THEN b.data ELSE <<>>]
IdPart   == [b \in Content |-> IF b.kind = "tool" THEN <<b.id>> ELSE <<>>]
CallPart == [b \in Content |-> IF b.kind = "tool" THEN <<[id |-> b.id, input |-> b.data]>> ELSE <<>>]

\* The types of the parts.
LEMMA PartTypes ==
    /\ Gathers(TextPart, Content, Char) /\ Gathers(IdPart, Content, Id)
    /\ Gathers(CallPart, Content, Made)
<1> SUFFICES ASSUME NEW b \in Content
             PROVE  /\ (IF b.kind = "text" THEN b.data ELSE <<>>) \in Seq(Char)
                    /\ (IF b.kind = "tool" THEN <<b.id>> ELSE <<>>) \in Seq(Id)
                    /\ (IF b.kind = "tool" THEN <<[id |-> b.id, input |-> b.data]>> ELSE <<>>) \in Seq(Made)
  BY DEF TextPart, IdPart, CallPart, Gathers
<1>1. b.id \in Id /\ b.data \in Seq(Char)
  BY DEF Content
<1>2. [id |-> b.id, input |-> b.data] \in Made
  BY <1>1 DEF Made
<1> HIDE DEF Id, Made
<1> QED BY <1>1, <1>2

\* TextOf, IdsOf and CallsOf gather these parts.
LEMMA ListParts ==
    ASSUME NEW list \in Seq(Content)
    PROVE  /\ TextOf(list) = Total(TextPart, list) /\ IdsOf(list) = Total(IdPart, list)
           /\ CallsOf(list) = Total(CallPart, list)
<1>1. \A i \in DOMAIN list : list[i] \in Content
  <2> HIDE DEF Content
  <2> QED OBVIOUS
<1>2. \A i \in DOMAIN list : TextPart[list[i]] = IF list[i].kind = "text" THEN list[i].data ELSE <<>>
  BY <1>1 DEF TextPart
<1>3. \A i \in DOMAIN list : IdPart[list[i]] = IF list[i].kind = "tool" THEN <<list[i].id>> ELSE <<>>
  BY <1>1 DEF IdPart
<1>4. \A i \in DOMAIN list : CallPart[list[i]] = IF list[i].kind = "tool"
                                                 THEN <<[id |-> list[i].id, input |-> list[i].data]>> ELSE <<>>
  BY <1>1 DEF CallPart
<1>5. TextOf(list) = Total(TextPart, list)
  BY <1>2 DEF TextOf, Total
<1>6. IdsOf(list) = Total(IdPart, list)
  BY <1>3 DEF IdsOf, Total
<1>7. CallsOf(list) = Total(CallPart, list)
  BY <1>4 DEF CallsOf, Total
<1> QED BY <1>5, <1>6, <1>7

\* A reply without blocks has no text and no tool calls.
LEMMA ListEmpty == TextOf(<<>>) = <<>> /\ IdsOf(<<>>) = <<>> /\ CallsOf(<<>>) = <<>>
<1>1. <<>> \in Seq(Content)
  OBVIOUS
<1> QED BY <1>1, ListParts, TotalEmpty

\* What one more block adds to a reply.
LEMMA ListGrows ==
    ASSUME NEW list \in Seq(Content), NEW b \in Content
    PROVE  /\ TextOf(list) \in Seq(Char) /\ IdsOf(list) \in Seq(Id) /\ CallsOf(list) \in Seq(Made)
           /\ TextOf(Append(list, b)) = TextOf(list) \o (IF b.kind = "text" THEN b.data ELSE <<>>)
           /\ IdsOf(Append(list, b)) = IdsOf(list) \o (IF b.kind = "tool" THEN <<b.id>> ELSE <<>>)
           /\ CallsOf(Append(list, b)) = CallsOf(list)
                  \o (IF b.kind = "tool" THEN <<[id |-> b.id, input |-> b.data]>> ELSE <<>>)
<1>1. Append(list, b) \in Seq(Content)
  <2> HIDE DEF Content
  <2> QED BY AppendProperties
<1>2. /\ Total(TextPart, list) \in Seq(Char)
      /\ Total(TextPart, Append(list, b)) = Total(TextPart, list) \o TextPart[b]
  <2> DEFINE f == TextPart
             B == Content
             S == Char
  <2>1. Gathers(f, B, S) /\ list \in Seq(B) /\ b \in B
    BY PartTypes
  <2> HIDE DEF f, B, S
  <2>2. Total(f, list) \in Seq(S) /\ Total(f, Append(list, b)) = Total(f, list) \o f[b]
    BY <2>1, TotalType, TotalGrows
  <2> QED BY <2>2 DEF f, S
<1>3. /\ Total(IdPart, list) \in Seq(Id)
      /\ Total(IdPart, Append(list, b)) = Total(IdPart, list) \o IdPart[b]
  <2> DEFINE f == IdPart
             B == Content
             S == Id
  <2>1. Gathers(f, B, S) /\ list \in Seq(B) /\ b \in B
    BY PartTypes
  <2> HIDE DEF f, B, S
  <2>2. Total(f, list) \in Seq(S) /\ Total(f, Append(list, b)) = Total(f, list) \o f[b]
    BY <2>1, TotalType, TotalGrows
  <2> QED BY <2>2 DEF f, S
<1>4. /\ Total(CallPart, list) \in Seq(Made)
      /\ Total(CallPart, Append(list, b)) = Total(CallPart, list) \o CallPart[b]
  <2> DEFINE f == CallPart
             B == Content
             S == Made
  <2>1. Gathers(f, B, S) /\ list \in Seq(B) /\ b \in B
    BY PartTypes
  <2> HIDE DEF f, B, S
  <2>2. Total(f, list) \in Seq(S) /\ Total(f, Append(list, b)) = Total(f, list) \o f[b]
    BY <2>1, TotalType, TotalGrows
  <2> QED BY <2>2 DEF f, S
<1>5. /\ TextPart[b] = IF b.kind = "text" THEN b.data ELSE <<>>
      /\ IdPart[b] = IF b.kind = "tool" THEN <<b.id>> ELSE <<>>
      /\ CallPart[b] = IF b.kind = "tool" THEN <<[id |-> b.id, input |-> b.data]>> ELSE <<>>
  BY DEF TextPart, IdPart, CallPart
<1> QED BY <1>1, <1>2, <1>3, <1>4, <1>5, ListParts

-----------------------------------------------------------------------------
(* The stream. *)

\* What a client may be shown, and what it puts together.
Shown == Char \cup {Line, "newline"}
Assembled == [text : Seq(Shown), calls : Seq(Made), finished : Nat, usage : Nat]
Reply == [blocks : Seq(Content), text : Seq(Shown), calls : Seq(Made)]

\* The types of what the stream is made of.
StreamTypes ==
    /\ mode \in {"stream", "complete"} /\ shown \in BOOLEAN
    /\ blocks \in Seq(Content) /\ toolIndex \in Seq(Nat)
    /\ chat \in Assembled /\ replies \in Seq(Reply)

\* The tool calls that have started, in order; the last one is where a delta of
\* the last block goes.
ToolsInStep ==
    /\ Len(toolIndex) = Len(CallsOf(blocks))
    /\ \A n \in 1..Len(toolIndex) : toolIndex[n] \in 1..Len(blocks)
    /\ \A m, n \in 1..Len(toolIndex) : toolIndex[m] = toolIndex[n] => m = n
    /\ blocks # <<>> /\ blocks[Len(blocks)].kind = "tool" =>
          toolIndex # <<>> /\ toolIndex[Len(toolIndex)] = Len(blocks)

\* What the client was shown before the reply.
LineShown == IF shown THEN <<Line, "newline">> ELSE <<>>

\* What the client has put together is what Claude has produced.
ChatInStep ==
    pc \in {"open", "stopped"} /\ mode = "stream" =>
        chat.text = LineShown \o TextOf(blocks) /\ chat.calls = CallsOf(blocks)

\* The inductive invariant.
StreamInv == StreamTypes /\ ToolsInStep /\ ChatInStep /\ StreamAgreesWithComplete

\* To change the last element is to append another one to the rest.
LEMMA ReplaceLast ==
    ASSUME NEW S, NEW front \in Seq(S), NEW e \in S, NEW x \in S
    PROVE  [Append(front, e) EXCEPT ![Len(front) + 1] = x] = Append(front, x)
<1> DEFINE N == Len(front)
           s == Append(front, e)
           t == [s EXCEPT ![N + 1] = x]
           u == Append(front, x)
<1>1. N \in Nat /\ s \in Seq(S) /\ Len(s) = N + 1 /\ \A i \in 1..N : s[i] = front[i]
  BY AppendProperties
<1>2. t \in Seq(S) /\ Len(t) = N + 1 /\ \A j \in 1..(N + 1) : t[j] = IF j = N + 1 THEN x ELSE s[j]
  <2>1. N + 1 \in 1..Len(s)
    BY <1>1
  <2>2. /\ [s EXCEPT ![N + 1] = x] \in Seq(S) /\ Len([s EXCEPT ![N + 1] = x]) = Len(s)
        /\ \A j \in 1..Len(s) : [s EXCEPT ![N + 1] = x][j] = IF j = N + 1 THEN x ELSE s[j]
    <3> DEFINE k == N + 1
    <3> HIDE DEF s, k
    <3> QED BY <1>1, <2>1, ExceptSeq DEF k
  <2> QED BY <1>1, <2>2
<1>3. u \in Seq(S) /\ Len(u) = N + 1 /\ u[N + 1] = x /\ \A i \in 1..N : u[i] = front[i]
  BY AppendProperties
<1> HIDE DEF N, s, t, u
<1>4. \A j \in 1..(N + 1) : j = N + 1 \/ j \in 1..N
  BY <1>1
<1>5. \A j \in 1..(N + 1) : t[j] = u[j]
  BY <1>1, <1>2, <1>3, <1>4
<1>6. t = u
  BY <1>2, <1>3, <1>5, SeqEqual
<1> QED BY <1>6 DEF s, t, u, N

\* A sequence that is not empty is the rest of it and its last element.
LEMMA HasLast ==
    ASSUME NEW S, NEW s \in Seq(S), s # <<>>
    PROVE  /\ Len(s) \in 1..Len(s) /\ s[Len(s)] \in S
           /\ \E front \in Seq(S) : s = Append(front, s[Len(s)]) /\ Len(s) = Len(front) + 1
<1>1. PICK front \in Seq(S), e \in S : s = Append(front, e)
  BY SequenceEmptyOrAppend
<1> DEFINE N == Len(front)
<1>2. N \in Nat /\ Len(s) = N + 1 /\ s[N + 1] = e
  BY <1>1, AppendProperties
<1> HIDE DEF N
<1>3. N + 1 \in 1..(N + 1)
  BY <1>2
<1> QED BY <1>1, <1>2, <1>3 DEF N

\* No text of a model begins like a route line, and the line is stripped whole.
LEMMA LineStripped ==
    ASSUME NEW t \in Seq(Char)
    PROVE  Sanitized(t) = t /\ Sanitized(<<Line, "newline">> \o t) = t
<1> DEFINE line == <<Line, "newline">>
           u == line \o t
           N == Len(t)
<1>1. Line \notin Char
  BY ClaudeAssumption DEF Char, Line, Close
<1>2. N \in Nat /\ (N >= 1 => t[1] \in Char)
  <2> HIDE DEF N
  <2>1. N \in Nat
    BY DEF N
  <2>2. N >= 1 => 1 \in 1..N
    BY <2>1
  <2> QED BY <2>1, <2>2 DEF N
<1>3. Sanitized(t) = t
  BY <1>1, <1>2 DEF Sanitized
<1>4. /\ u \in Seq(Shown) /\ Len(u) = 2 + N /\ u[1] = Line /\ u[2] = "newline"
      /\ \A i \in 1..N : u[i + 2] = t[i]
  <2>1. line \in Seq(Shown) /\ Len(line) = 2 /\ line[1] = Line /\ line[2] = "newline"
    BY DEF Shown
  <2>2. t \in Seq(Shown)
    BY DEF Shown
  <2> HIDE DEF line
  <2>3. /\ u \in Seq(Shown) /\ Len(u) = Len(line) + Len(t)
        /\ \A i \in 1..(Len(line) + Len(t)) : u[i] = IF i <= Len(line) THEN line[i] ELSE t[i - Len(line)]
    BY <2>1, <2>2, ConcatProperties
  <2>4. \A i \in 1..(2 + N) : u[i] = IF i <= 2 THEN line[i] ELSE t[i - 2]
    BY <2>1, <2>3
  <2>5. 1 \in 1..(2 + N) /\ 2 \in 1..(2 + N) /\ \A i \in 1..N : i + 2 \in 1..(2 + N) /\ ~(i + 2 <= 2) /\ (i + 2) - 2 = i
    BY <1>2
  <2> HIDE DEF u, N
  <2>6. \A i \in 1..N : u[i + 2] = t[i]
    BY <2>4, <2>5
  <2>7. u[1] = Line /\ u[2] = "newline"
    BY <2>1, <2>4, <2>5
  <2>8. Len(u) = 2 + N
    BY <2>1, <2>3 DEF N
  <2> QED BY <2>3, <2>6, <2>7, <2>8
<1> HIDE DEF u
<1>5. Sanitized(u) = SubSeq(u, 3, 2 + N)
  BY <1>2, <1>4 DEF Sanitized
<1>6. SubSeq(u, 3, 2 + N) = t
  <2> DEFINE v == SubSeq(u, 3, 2 + N)
  <2>1. \A i \in 3..(2 + N) : i \in 1..Len(u)
    BY <1>2, <1>4
  <2>2. \A i \in 3..(2 + N) : u[i] \in Shown
    BY <1>4, <2>1
  <2>3. /\ v \in Seq(Shown) /\ Len(v) = IF 3 <= 2 + N THEN (2 + N) - 3 + 1 ELSE 0
        /\ \A i \in 1..((2 + N) - 3 + 1) : v[i] = u[3 + i - 1]
    <3> DEFINE top == 2 + N
    <3>1. top \in Int /\ 3 \in Int /\ \A i \in 3..top : u[i] \in Shown
      BY <1>2, <2>2
    <3> HIDE DEF top
    <3>2. /\ SubSeq(u, 3, top) \in Seq(Shown) /\ Len(SubSeq(u, 3, top)) = IF 3 <= top THEN top - 3 + 1 ELSE 0
          /\ \A i \in 1..(top - 3 + 1) : SubSeq(u, 3, top)[i] = u[3 + i - 1]
      BY <3>1, SubSeqProperties
    <3> QED BY <3>2 DEF top
  <2> HIDE DEF v
  <2>4. Len(v) = N /\ \A i \in 1..N : i \in 1..((2 + N) - 3 + 1) /\ 3 + i - 1 = i + 2
    BY <1>2, <2>3
  <2>5. \A i \in 1..N : v[i] = t[i]
    <3> SUFFICES ASSUME NEW i \in 1..N PROVE v[i] = t[i]
      OBVIOUS
    <3>1. v[i] = u[3 + i - 1] /\ 3 + i - 1 = i + 2
      BY <2>3, <2>4
    <3>2. u[i + 2] = t[i]
      BY <1>4
    <3> QED BY <3>1, <3>2
  <2>6. t \in Seq(Shown) /\ Len(t) = N
    BY DEF Shown
  <2> HIDE DEF N
  <2>7. v = t
    BY <2>3, <2>4, <2>5, <2>6, SeqEqual
  <2> QED BY <2>7 DEF v
<1> QED BY <1>3, <1>5, <1>6 DEF u

-----------------------------------------------------------------------------
(* Every step keeps the stream in step. *)

\* A reply begins with the route line, or with nothing.
LEMMA StartKeeps == StreamInv /\ MessageStart => StreamInv'
<1> SUFFICES ASSUME StreamInv, MessageStart PROVE StreamInv'
  OBVIOUS
<1>1. /\ mode' \in {"stream", "complete"} /\ shown' \in BOOLEAN
      /\ blocks' = <<>> /\ toolIndex' = <<>> /\ replies' = replies
  BY DEF MessageStart
<1> DEFINE line == IF shown' THEN <<Line, "newline">> ELSE <<>>
<1>2. chat' = [text |-> line, calls |-> <<>>, finished |-> 0, usage |-> 0]
  BY DEF MessageStart, NoChat
<1>3. line \in Seq(Shown)
  <2>1. <<Line, "newline">> \in Seq(Shown) /\ <<>> \in Seq(Shown)
    BY DEF Shown
  <2> QED BY <2>1
<1>4. line = LineShown'
  BY DEF LineShown
<1> HIDE DEF line
<1>5. chat' \in Assembled /\ chat'.text = line /\ chat'.calls = <<>>
  BY <1>2, <1>3 DEF Assembled
<1>6. StreamTypes'
  BY <1>1, <1>5 DEF StreamInv, StreamTypes
<1>7. TextOf(blocks') = <<>> /\ CallsOf(blocks') = <<>>
  BY <1>1, ListEmpty
<1>8. ToolsInStep'
  BY <1>1, <1>7 DEF ToolsInStep
<1>9. ChatInStep'
  <2>1. line \o <<>> = line
    BY <1>3, ConcatEmptySeq
  <2> QED BY <1>4, <1>5, <1>7, <2>1 DEF ChatInStep
<1>10. StreamAgreesWithComplete'
  BY <1>1 DEF StreamInv, StreamAgreesWithComplete
<1> QED BY <1>6, <1>8, <1>9, <1>10 DEF StreamInv

\* A tool call is announced under the next index.
LEMMA BlockStartKeeps == ASSUME NEW kind \in Kinds, StreamInv, BlockStart(kind) PROVE StreamInv'
<1> DEFINE id == <<Len(replies) + 1, Len(blocks) + 1>>
           b == Block(kind, id, <<>>)
           N == Len(blocks)
<1>1. /\ pc = "open" /\ pc' = "open" /\ mode' = mode /\ shown' = shown /\ replies' = replies
      /\ blocks' = Append(blocks, b)
      /\ toolIndex' = IF kind = "tool" THEN Append(toolIndex, N + 1) ELSE toolIndex
      /\ chat' = IF mode = "stream" /\ kind = "tool"
                 THEN [chat EXCEPT !.calls = Append(@, [id |-> id, input |-> <<>>])]
                 ELSE chat
  BY DEF BlockStart
<1>2. blocks \in Seq(Content) /\ toolIndex \in Seq(Nat) /\ chat \in Assembled /\ N \in Nat /\ replies \in Seq(Reply)
  BY DEF StreamInv, StreamTypes
<1>3. id \in Id
  <2>1. Len(replies) + 1 \in Nat /\ N + 1 \in Nat
    BY <1>2
  <2> QED BY <2>1 DEF Id
<1> HIDE DEF id
<1>4. <<>> \in Seq(Char)
  OBVIOUS
<1>5. b \in Content /\ b.kind = kind /\ b.id = id /\ b.data = <<>>
  BY <1>3, <1>4 DEF Content, Block
<1> HIDE DEF b, N
<1> DEFINE call == [id |-> id, input |-> <<>>]
<1>6. call \in Made
  BY <1>3, <1>4 DEF Made
<1>7. /\ TextOf(blocks) \in Seq(Char) /\ CallsOf(blocks) \in Seq(Made)
      /\ TextOf(blocks') = TextOf(blocks)
      /\ CallsOf(blocks') = IF kind = "tool" THEN Append(CallsOf(blocks), call) ELSE CallsOf(blocks)
  <2>1. /\ TextOf(blocks) \in Seq(Char) /\ CallsOf(blocks) \in Seq(Made)
        /\ TextOf(blocks') = TextOf(blocks) \o (IF kind = "text" THEN <<>> ELSE <<>>)
        /\ CallsOf(blocks') = CallsOf(blocks) \o (IF kind = "tool" THEN <<[id |-> id, input |-> <<>>]>> ELSE <<>>)
    BY <1>1, <1>2, <1>5, ListGrows
  <2> DEFINE t == TextOf(blocks)
             c == CallsOf(blocks)
  <2> HIDE DEF t, c, call
  <2>2. t \in Seq(Char) /\ c \in Seq(Made)
    BY <2>1 DEF t, c
  <2>3. t \o <<>> = t /\ c \o <<>> = c /\ c \o <<call>> = Append(c, call)
    BY <1>6, <2>2, ConcatEmptySeq, AppendIsConcat
  <2> QED BY <2>1, <2>3 DEF t, c, call
<1> HIDE DEF call
<1>8. blocks' \in Seq(Content) /\ Len(blocks') = N + 1 /\ blocks'[N + 1] = b
  <2> HIDE DEF Content
  <2> QED BY <1>1, <1>2, <1>5, AppendProperties DEF N
<1>9. CASE kind = "tool"
  <2> DEFINE k == Len(toolIndex)
  <2>1. toolIndex' = Append(toolIndex, N + 1) /\ N + 1 \in Nat
    BY <1>1, <1>2, <1>9 DEF N
  <2>2. /\ k \in Nat /\ toolIndex' \in Seq(Nat) /\ Len(toolIndex') = k + 1 /\ toolIndex'[k + 1] = N + 1
        /\ \A n \in 1..k : toolIndex'[n] = toolIndex[n]
    BY <1>2, <2>1, AppendProperties
  <2>3. \A n \in 1..(k + 1) : n = k + 1 \/ n \in 1..k
    BY <2>2
  <2>4. N \in Nat /\ \A n \in 1..k : toolIndex[n] \in 1..N
    BY <1>2 DEF StreamInv, ToolsInStep, N
  <2>5. \A m, n \in 1..k : toolIndex[m] = toolIndex[n] => m = n
    BY DEF StreamInv, ToolsInStep
  <2>6. Len(CallsOf(blocks')) = k + 1
    <3>1. Len(CallsOf(blocks)) = k
      BY DEF StreamInv, ToolsInStep
    <3>2. Len(Append(CallsOf(blocks), call)) = Len(CallsOf(blocks)) + 1
      BY <1>6, <1>7, AppendProperties
    <3> QED BY <1>7, <1>9, <3>1, <3>2
  <2> HIDE DEF k
  <2>7. \A n \in 1..(k + 1) : toolIndex'[n] \in 1..(N + 1)
    <3> SUFFICES ASSUME NEW n \in 1..(k + 1) PROVE toolIndex'[n] \in 1..(N + 1)
      OBVIOUS
    <3>1. N + 1 \in 1..(N + 1) /\ 1..N \subseteq 1..(N + 1)
      BY <2>4
    <3>2. CASE n = k + 1
      BY <2>2, <3>1, <3>2
    <3>3. CASE n \in 1..k
      <4>1. toolIndex'[n] = toolIndex[n] /\ toolIndex[n] \in 1..N
        BY <2>2, <2>4, <3>3
      <4> QED BY <3>1, <4>1
    <3> QED BY <2>3, <3>2, <3>3
  <2>8. \A m, n \in 1..(k + 1) : toolIndex'[m] = toolIndex'[n] => m = n
    BY <2>2, <2>3, <2>4, <2>5
  <2>9. toolIndex' # <<>>
    BY <2>2
  <2>10. ToolsInStep'
    BY <1>8, <2>2, <2>6, <2>7, <2>8, <2>9 DEF ToolsInStep
  <2>11. chat' \in Assembled /\ chat'.text = chat.text
         /\ chat'.calls = IF mode = "stream" THEN Append(chat.calls, call) ELSE chat.calls
    <3> DEFINE calls == Append(chat.calls, call)
    <3>1. chat.calls \in Seq(Made)
      BY <1>2 DEF Assembled
    <3>2. calls \in Seq(Made)
      BY <1>6, <3>1, AppendProperties
    <3>3. chat' = IF mode = "stream" THEN [chat EXCEPT !.calls = calls] ELSE chat
      BY <1>1, <1>9 DEF call
    <3> HIDE DEF calls
    <3>4. [chat EXCEPT !.calls = calls] \in Assembled /\ [chat EXCEPT !.calls = calls].calls = calls
          /\ [chat EXCEPT !.calls = calls].text = chat.text
      BY <1>2, <3>2 DEF Assembled
    <3> QED BY <1>2, <3>3, <3>4 DEF calls
  <2>12. ChatInStep'
    BY <1>1, <1>7, <1>9, <2>11 DEF StreamInv, ChatInStep, LineShown
  <2>13. StreamTypes' /\ StreamAgreesWithComplete'
    BY <1>1, <1>8, <2>2, <2>11 DEF StreamInv, StreamTypes, StreamAgreesWithComplete
  <2> QED BY <2>10, <2>12, <2>13 DEF StreamInv
<1>10. CASE kind # "tool"
  <2>1. toolIndex' = toolIndex /\ chat' = chat /\ CallsOf(blocks') = CallsOf(blocks)
    BY <1>1, <1>7, <1>10
  <2>2. N \in Nat /\ \A n \in 1..N : n \in 1..(N + 1)
    BY <1>2 DEF N
  <2>3. ToolsInStep'
    BY <1>5, <1>8, <1>10, <2>1, <2>2 DEF StreamInv, ToolsInStep, N
  <2>4. ChatInStep'
    BY <1>1, <1>7, <2>1 DEF StreamInv, ChatInStep, LineShown
  <2>5. StreamTypes' /\ StreamAgreesWithComplete'
    BY <1>1, <1>8, <2>1 DEF StreamInv, StreamTypes, StreamAgreesWithComplete
  <2> QED BY <2>3, <2>4, <2>5 DEF StreamInv
<1> QED BY <1>9, <1>10

\* A delta goes to the end of the last block, and of what the client has.
LEMMA DeltaKeeps == ASSUME NEW c \in Char, StreamInv, Delta(c) PROVE StreamInv'
<1> DEFINE N == Len(blocks)
           b == blocks[N]
           data == Append(b.data, c)
           b2 == [kind |-> b.kind, id |-> b.id, data |-> data]
<1>1. /\ pc = "open" /\ pc' = "open" /\ mode' = mode /\ shown' = shown /\ replies' = replies
      /\ toolIndex' = toolIndex /\ N > 0 /\ b.kind # "thinking"
  BY DEF Delta
<1>2. blocks \in Seq(Content) /\ toolIndex \in Seq(Nat) /\ chat \in Assembled /\ N \in Nat
  BY DEF StreamInv, StreamTypes
<1>3. PICK front \in Seq(Content) : blocks = Append(front, b) /\ N = Len(front) + 1
  <2> HIDE DEF Content
  <2>1. blocks # <<>>
    BY <1>1, <1>2
  <2> QED BY <1>2, <2>1, HasLast
<1>4. b \in Content /\ N \in 1..N
  <2> HIDE DEF Content
  <2>1. blocks # <<>>
    BY <1>1, <1>2
  <2> QED BY <1>2, <2>1, HasLast
<1>5. b.kind \in Kinds /\ b.id \in Id /\ b.data \in Seq(Char)
  BY <1>4 DEF Content
<1>6. data \in Seq(Char) /\ data = b.data \o <<c>>
  BY <1>5, AppendProperties, AppendIsConcat
<1>7. blocks' = Append(front, b2) /\ b2 \in Content /\ b2.kind = b.kind /\ b2.id = b.id /\ b2.data = data
  <2>1. blocks' = [blocks EXCEPT ![N] = [b EXCEPT !.data = data]]
    BY DEF Delta
  <2>2. [b EXCEPT !.data = data] = b2
    <3> HIDE DEF data, N
    <3> QED BY <1>4 DEF Content
  <2>3. b2 \in Content /\ b2.kind = b.kind /\ b2.id = b.id /\ b2.data = data
    <3> HIDE DEF data
    <3> QED BY <1>5, <1>6 DEF Content
  <2> HIDE DEF b, b2, data, N
  <2>4. [blocks EXCEPT ![N] = b2] = Append(front, b2)
    <3>1. [Append(front, b) EXCEPT ![Len(front) + 1] = b2] = Append(front, b2)
      BY <1>4, <2>3, ReplaceLast
    <3> QED BY <1>3, <3>1
  <2> QED BY <2>1, <2>2, <2>3, <2>4
<1> DEFINE old == [id |-> b.id, input |-> b.data]
           new == [id |-> b.id, input |-> data]
<1>8. old \in Made /\ new \in Made /\ new = [old EXCEPT !.input = data]
  <2> HIDE DEF data, b
  <2>1. old \in Made /\ new \in Made
    BY <1>5, <1>6 DEF Made
  <2>2. old.id = b.id
    OBVIOUS
  <2> HIDE DEF old
  <2>3. [old EXCEPT !.input = data] = [id |-> old.id, input |-> data]
    BY <2>1 DEF Made
  <2> QED BY <2>1, <2>2, <2>3
<1>9. blocks' \in Seq(Content) /\ Len(blocks') = N /\ blocks'[N] = b2
  <2> HIDE DEF b2, b, N
  <2> QED BY <1>3, <1>7, AppendProperties
<1> HIDE DEF b, b2
<1>10. /\ TextOf(blocks) = TextOf(front) \o (IF b.kind = "text" THEN b.data ELSE <<>>)
       /\ TextOf(blocks') = TextOf(front) \o (IF b.kind = "text" THEN data ELSE <<>>)
       /\ CallsOf(blocks) = CallsOf(front) \o (IF b.kind = "tool" THEN <<old>> ELSE <<>>)
       /\ CallsOf(blocks') = CallsOf(front) \o (IF b.kind = "tool" THEN <<new>> ELSE <<>>)
       /\ TextOf(front) \in Seq(Char) /\ CallsOf(front) \in Seq(Made)
  <2>1. /\ TextOf(blocks) = TextOf(front) \o (IF b.kind = "text" THEN b.data ELSE <<>>)
        /\ CallsOf(blocks) = CallsOf(front) \o (IF b.kind = "tool" THEN <<old>> ELSE <<>>)
        /\ TextOf(front) \in Seq(Char) /\ CallsOf(front) \in Seq(Made)
    BY <1>3, <1>4, ListGrows
  <2>2. /\ TextOf(blocks') = TextOf(front) \o (IF b2.kind = "text" THEN b2.data ELSE <<>>)
        /\ CallsOf(blocks') = CallsOf(front) \o (IF b2.kind = "tool" THEN <<[id |-> b2.id, input |-> b2.data]>> ELSE <<>>)
    BY <1>7, ListGrows
  <2> QED BY <1>7, <2>1, <2>2
<1> DEFINE t == TextOf(front)
           calls == CallsOf(front)
<1> HIDE DEF data, old, new, t, calls, N
<1>11. CASE b.kind = "text"
  <2>1. TextOf(blocks') = TextOf(blocks) \o <<c>> /\ CallsOf(blocks') = CallsOf(blocks)
    <3>1. t \o (b.data \o <<c>>) = (t \o b.data) \o <<c>>
      <4> DEFINE S == Char
                 d == b.data
                 e == <<c>>
      <4>1. e \in Seq(S) /\ t \in Seq(S) /\ d \in Seq(S)
        BY <1>5, <1>10 DEF t
      <4> HIDE DEF S, d, e
      <4>2. t \o (d \o e) = (t \o d) \o e
        BY <4>1, ConcatAssociative, SMTT(30)
      <4> QED BY <4>2 DEF d, e
    <3> QED BY <1>6, <1>10, <1>11, <3>1 DEF t
  <2>2. TextOf(blocks) \in Seq(Char)
    BY <1>2, <1>4, ListGrows
  <2>3. ToolsInStep'
    BY <1>1, <1>7, <1>9, <1>11, <2>1 DEF StreamInv, ToolsInStep, N
  <2>4. chat' = IF mode = "complete" THEN chat ELSE [chat EXCEPT !.text = Append(chat.text, c)]
    BY <1>11 DEF Delta, b, N
  <2>5. chat' \in Assembled /\ chat'.calls = chat.calls
        /\ chat'.text = IF mode = "complete" THEN chat.text ELSE Append(chat.text, c)
    <3> DEFINE more == Append(chat.text, c)
    <3>1. chat.text \in Seq(Shown) /\ c \in Shown
      BY <1>2 DEF Assembled, Shown
    <3>2. more \in Seq(Shown)
      BY <3>1, AppendProperties
    <3> HIDE DEF more
    <3>3. [chat EXCEPT !.text = more] \in Assembled /\ [chat EXCEPT !.text = more].text = more
          /\ [chat EXCEPT !.text = more].calls = chat.calls
      BY <1>2, <3>2 DEF Assembled
    <3>4. chat' = IF mode = "complete" THEN chat ELSE [chat EXCEPT !.text = more]
      BY <2>4 DEF more
    <3>5. chat'.text = IF mode = "complete" THEN chat.text ELSE more
      BY <3>3, <3>4
    <3> QED BY <1>2, <3>3, <3>4, <3>5 DEF more
  <2>6. ChatInStep'
    <3>1. CASE mode = "stream"
      <4> DEFINE line == LineShown
                 all == TextOf(blocks)
      <4>1. line \in Seq(Shown) /\ all \in Seq(Shown) /\ c \in Shown /\ <<c>> \in Seq(Shown)
        <5>1. <<Line, "newline">> \in Seq(Shown) /\ <<>> \in Seq(Shown)
          BY DEF Shown
        <5>2. line \in Seq(Shown)
          BY <5>1 DEF LineShown
        <5>3. Char \subseteq Shown
          BY DEF Shown
        <5>4. all \in Seq(Shown)
          BY <2>2, <5>3
        <5>5. c \in Shown /\ <<c>> \in Seq(Shown)
          BY <5>3
        <5> QED BY <5>2, <5>4, <5>5
      <4> HIDE DEF line, all
      <4>2. Append(line \o all, c) = line \o (all \o <<c>>)
        <5>1. line \o all \in Seq(Shown)
          BY <4>1, ConcatProperties
        <5>2. Append(line \o all, c) = (line \o all) \o <<c>>
          BY <4>1, <5>1, AppendIsConcat
        <5> QED BY <4>1, <5>2, ConcatAssociative
      <4>3. LineShown' = LineShown
        BY <1>1 DEF LineShown
      <4> QED BY <1>1, <2>1, <2>5, <3>1, <4>2, <4>3 DEF StreamInv, ChatInStep, line, all
    <3>2. CASE mode # "stream"
      BY <1>1, <3>2 DEF ChatInStep
    <3> QED BY <3>1, <3>2
  <2>7. StreamTypes' /\ StreamAgreesWithComplete'
    BY <1>1, <1>9, <2>5 DEF StreamInv, StreamTypes, StreamAgreesWithComplete
  <2> QED BY <2>3, <2>6, <2>7 DEF StreamInv
<1>12. CASE b.kind = "tool"
  <2>1. /\ CallsOf(blocks) = Append(calls, old) /\ CallsOf(blocks') = Append(calls, new)
        /\ calls \in Seq(Made)
    <3>1. calls \in Seq(Made)
      BY <1>10 DEF calls
    <3>2. calls \o <<old>> = Append(calls, old) /\ calls \o <<new>> = Append(calls, new)
      BY <1>8, <3>1, AppendIsConcat
    <3> QED BY <1>10, <1>12, <3>1, <3>2 DEF calls
  <2>2. TextOf(blocks') = TextOf(blocks)
    BY <1>10, <1>12
  <2>3. Len(Append(calls, old)) = Len(calls) + 1 /\ Len(Append(calls, new)) = Len(calls) + 1
    BY <1>8, <2>1, AppendProperties
  <2>4. ToolsInStep'
    <3>1. Len(CallsOf(blocks')) = Len(CallsOf(blocks))
      BY <2>1, <2>3
    <3>2. blocks # <<>> /\ blocks[Len(blocks)].kind = "tool"
      BY <1>1, <1>2, <1>12 DEF b, N
    <3> QED BY <1>1, <1>9, <3>1, <3>2 DEF StreamInv, ToolsInStep, N
  <2> DEFINE k == Len(calls) + 1
  <2>5. ToolIndex(N) = k /\ k \in 1..k
    <3>1. toolIndex # <<>> /\ toolIndex[Len(toolIndex)] = N /\ Len(toolIndex) = k
      <4>1. blocks # <<>> /\ blocks[Len(blocks)].kind = "tool"
        BY <1>1, <1>2, <1>12 DEF b, N
      <4>2. Len(toolIndex) = k
        BY <2>1, <2>3 DEF StreamInv, ToolsInStep
      <4> QED BY <4>1, <4>2 DEF StreamInv, ToolsInStep, N
    <3>2. \A m, n \in 1..Len(toolIndex) : toolIndex[m] = toolIndex[n] => m = n
      BY DEF StreamInv, ToolsInStep
    <3>3. k \in 1..k /\ DOMAIN toolIndex = 1..k
      <4>1. Len(calls) \in Nat
        BY <2>1
      <4> QED BY <1>2, <3>1, <4>1
    <3> HIDE DEF k
    <3> QED BY <3>1, <3>2, <3>3 DEF ToolIndex
  <2>6. chat' = IF mode = "complete" THEN chat
                ELSE [chat EXCEPT !.calls[ToolIndex(N)].input = Append(@, c)]
    BY <1>12 DEF Delta, b, N
  <2> DEFINE changed == [chat.calls EXCEPT ![k] = [chat.calls[k] EXCEPT !.input = Append(chat.calls[k].input, c)]]
  <2>7. chat' = IF mode = "complete" THEN chat ELSE [chat EXCEPT !.calls = changed]
    <3> HIDE DEF k
    <3> QED BY <2>5, <2>6
  <2>8. CASE mode = "stream"
    <3>1. chat.calls = Append(calls, old) /\ chat.text = LineShown \o TextOf(blocks)
      BY <1>1, <2>1, <2>8 DEF StreamInv, ChatInStep
    <3>2. chat.calls[k] = old
      BY <1>8, <2>1, <3>1, AppendProperties
    <3>3. old.input = b.data
      BY DEF old
    <3>4. changed = [Append(calls, old) EXCEPT ![k] = new]
      <4> HIDE DEF k
      <4> QED BY <1>8, <3>1, <3>2, <3>3 DEF data
    <3>5. changed = Append(calls, new)
      <4> DEFINE S == Made
      <4>1. old \in S /\ new \in S /\ calls \in Seq(S)
        BY <1>8, <2>1
      <4> HIDE DEF S, changed
      <4>2. [Append(calls, old) EXCEPT ![Len(calls) + 1] = new] = Append(calls, new)
        BY <4>1, ReplaceLast
      <4> QED BY <3>4, <4>2
    <3>6. changed \in Seq(Made)
      <4> DEFINE S == Made
      <4>1. new \in S /\ calls \in Seq(S)
        BY <1>8, <2>1
      <4> HIDE DEF S, changed
      <4>2. Append(calls, new) \in Seq(S)
        BY <4>1, AppendProperties
      <4> QED BY <3>5, <4>2 DEF S
    <3> HIDE DEF changed, k
    <3>7. [chat EXCEPT !.calls = changed] \in Assembled /\ [chat EXCEPT !.calls = changed].calls = changed
          /\ [chat EXCEPT !.calls = changed].text = chat.text
      BY <1>2, <3>6 DEF Assembled
    <3>8. chat' \in Assembled /\ chat'.calls = changed /\ chat'.text = chat.text
      BY <2>7, <2>8, <3>7
    <3>9. ChatInStep'
      BY <1>1, <2>1, <2>2, <3>1, <3>5, <3>8 DEF ChatInStep, LineShown
    <3>10. StreamTypes' /\ StreamAgreesWithComplete'
      BY <1>1, <1>9, <3>8 DEF StreamInv, StreamTypes, StreamAgreesWithComplete
    <3> QED BY <2>4, <3>9, <3>10 DEF StreamInv
  <2>9. CASE mode = "complete"
    <3>1. chat' = chat
      BY <2>7, <2>9
    <3>2. ChatInStep'
      BY <1>1, <2>9 DEF ChatInStep
    <3>3. StreamTypes' /\ StreamAgreesWithComplete'
      BY <1>1, <1>9, <3>1 DEF StreamInv, StreamTypes, StreamAgreesWithComplete
    <3> QED BY <2>4, <3>2, <3>3 DEF StreamInv
  <2> QED BY <2>8, <2>9 DEF StreamInv, StreamTypes
<1> QED BY <1>1, <1>5, <1>11, <1>12 DEF Kinds

\* The finish chunk changes neither the text nor the calls.
LEMMA StopKeeps == StreamInv /\ MessageStop => StreamInv'
<1> SUFFICES ASSUME StreamInv, MessageStop PROVE StreamInv'
  OBVIOUS
<1>1. /\ pc = "open" /\ mode' = mode /\ shown' = shown /\ blocks' = blocks /\ toolIndex' = toolIndex
      /\ replies' = replies
      /\ chat' = IF mode = "stream" THEN [chat EXCEPT !.finished = @ + 1] ELSE chat
  BY DEF MessageStop
<1>2. chat' \in Assembled /\ chat'.text = chat.text /\ chat'.calls = chat.calls
  <2>1. chat \in Assembled
    BY DEF StreamInv, StreamTypes
  <2> QED BY <1>1, <2>1 DEF Assembled
<1>3. StreamTypes'
  BY <1>1, <1>2 DEF StreamInv, StreamTypes
<1>4. ToolsInStep' /\ StreamAgreesWithComplete'
  BY <1>1 DEF StreamInv, ToolsInStep, StreamAgreesWithComplete
<1>5. ChatInStep'
  BY <1>1, <1>2 DEF StreamInv, ChatInStep, LineShown
<1> QED BY <1>3, <1>4, <1>5 DEF StreamInv

\* The reply is what the client has put together, or the whole message.
LEMMA StreamEndKeeps == StreamInv /\ StreamEnd => StreamInv'
<1> SUFFICES ASSUME StreamInv, StreamEnd PROVE StreamInv'
  OBVIOUS
<1> DEFINE t == TextOf(blocks)
           k == CallsOf(blocks)
           whole == [text |-> t, calls |-> k, finished |-> 1, usage |-> 1]
           reply == [blocks |-> blocks, text |-> chat'.text, calls |-> chat'.calls]
           N == Len(replies)
<1>1. /\ pc \in {"open", "stopped"} /\ pc' = "over"
      /\ mode' = mode /\ shown' = shown /\ blocks' = blocks /\ toolIndex' = toolIndex
      /\ replies' = Append(replies, reply)
      /\ chat' = IF mode = "stream" THEN [chat EXCEPT !.usage = @ + 1] ELSE whole
  BY DEF StreamEnd
<1>2. blocks \in Seq(Content) /\ chat \in Assembled /\ replies \in Seq(Reply) /\ N \in Nat
  BY DEF StreamInv, StreamTypes
<1>3. t \in Seq(Char) /\ k \in Seq(Made)
  <2>1. PICK b \in Content : TRUE
    <3>1. [kind |-> "text", id |-> <<0, 0>>, data |-> <<>>] \in Content
      <4>1. <<0, 0>> \in Id /\ <<>> \in Seq(Char) /\ "text" \in Kinds
        BY DEF Id, Kinds
      <4> QED BY <4>1 DEF Content
    <3> QED BY <3>1
  <2> QED BY <1>2, ListGrows
<1>4. t \in Seq(Shown)
  <2>1. Char \subseteq Shown
    BY DEF Shown
  <2> QED BY <1>3, <2>1
<1> HIDE DEF t, k
<1>5. chat' \in Assembled
  <2>1. [chat EXCEPT !.usage = @ + 1] \in Assembled
    BY <1>2, SMTT(30) DEF Assembled
  <2>2. whole \in Assembled
    BY <1>3, <1>4 DEF Assembled
  <2> QED BY <1>1, <2>1, <2>2
<1>6. mode = "stream" => chat'.text = LineShown \o t /\ chat'.calls = k
  <2>1. [chat EXCEPT !.usage = @ + 1].text = chat.text /\ [chat EXCEPT !.usage = @ + 1].calls = chat.calls
    BY <1>2 DEF Assembled
  <2> QED BY <1>1, <2>1 DEF StreamInv, ChatInStep, t, k
<1>7. mode # "stream" => chat'.text = t /\ chat'.calls = k
  BY <1>1
<1>8. Sanitized(chat'.text) = t /\ chat'.calls = k
  <2>1. <<>> \o t = t
    BY <1>3, ConcatEmptySeq
  <2>2. Sanitized(t) = t /\ Sanitized(<<Line, "newline">> \o t) = t
    BY <1>3, LineStripped
  <2> QED BY <1>6, <1>7, <2>1, <2>2 DEF LineShown
<1>9. reply \in Reply /\ reply.blocks = blocks /\ reply.text = chat'.text /\ reply.calls = chat'.calls
  <2>1. chat'.text \in Seq(Shown) /\ chat'.calls \in Seq(Made)
    BY <1>5 DEF Assembled
  <2> QED BY <1>2, <2>1 DEF Reply
<1> HIDE DEF reply, N
<1>10. /\ replies' \in Seq(Reply) /\ DOMAIN replies' = 1..(N + 1) /\ replies'[N + 1] = reply
       /\ DOMAIN replies = 1..N /\ \A n \in 1..N : replies'[n] = replies[n]
  <2>1. /\ replies' \in Seq(Reply) /\ Len(replies') = N + 1 /\ replies'[N + 1] = reply
        /\ \A n \in 1..N : replies'[n] = replies[n]
    <3> HIDE DEF N, reply
    <3> DEFINE R == Reply
    <3>1. replies \in Seq(R) /\ reply \in R
      BY <1>2, <1>9
    <3> HIDE DEF R
    <3>2. /\ Append(replies, reply) \in Seq(R) /\ Len(Append(replies, reply)) = Len(replies) + 1
          /\ Append(replies, reply)[Len(replies) + 1] = reply
          /\ \A n \in 1..Len(replies) : Append(replies, reply)[n] = replies[n]
      BY <3>1, AppendProperties
    <3> QED BY <1>1, <3>2 DEF N, R
  <2>2. DOMAIN replies' = 1..Len(replies') /\ DOMAIN replies = 1..N
    BY <1>2, <2>1 DEF N
  <2> QED BY <2>1, <2>2
<1>11. StreamAgreesWithComplete'
  <2> SUFFICES ASSUME NEW n \in 1..(N + 1)
               PROVE  /\ Sanitized(replies'[n].text) = TextOf(replies'[n].blocks)
                      /\ replies'[n].calls = CallsOf(replies'[n].blocks)
    BY <1>10 DEF StreamAgreesWithComplete
  <2>1. CASE n = N + 1
    BY <1>8, <1>9, <1>10, <2>1 DEF t, k
  <2>2. CASE n # N + 1
    <3>1. n \in 1..N
      BY <1>2, <2>2
    <3> QED BY <1>10, <3>1 DEF StreamInv, StreamAgreesWithComplete
  <2> QED BY <2>1, <2>2
<1>12. StreamTypes'
  BY <1>1, <1>2, <1>5, <1>10 DEF StreamInv, StreamTypes
<1>13. ToolsInStep' /\ ChatInStep'
  BY <1>1 DEF StreamInv, ToolsInStep, ChatInStep
<1> QED BY <1>11, <1>12, <1>13 DEF StreamInv

\* Nothing has come at first.
LEMMA StreamBegins == ClaudeInit => StreamInv
<1> SUFFICES ASSUME ClaudeInit PROVE StreamInv
  OBVIOUS
<1>1. /\ mode = "stream" /\ shown = FALSE /\ blocks = <<>> /\ toolIndex = <<>> /\ replies = <<>>
      /\ chat = [text |-> <<>>, calls |-> <<>>, finished |-> 0, usage |-> 0] /\ pc = "none"
  BY DEF ClaudeInit, NoChat
<1>2. chat \in Assembled
  BY <1>1 DEF Assembled
<1>3. CallsOf(blocks) = <<>>
  BY <1>1, ListEmpty
<1>4. StreamTypes
  <2>1. <<>> \in Seq(Content) /\ <<>> \in Seq(Nat) /\ <<>> \in Seq(Reply)
    OBVIOUS
  <2> QED BY <1>1, <1>2, <2>1 DEF StreamTypes
<1>5. ToolsInStep
  BY <1>1, <1>3 DEF ToolsInStep
<1>6. ChatInStep /\ StreamAgreesWithComplete
  BY <1>1 DEF ChatInStep, StreamAgreesWithComplete
<1> QED BY <1>4, <1>5, <1>6 DEF StreamInv

\* Every step keeps the invariant.
LEMMA StreamKeeps == StreamInv /\ [ClaudeNext]_claudeVars => StreamInv'
<1> SUFFICES ASSUME StreamInv, [ClaudeNext]_claudeVars PROVE StreamInv'
  OBVIOUS
<1>1. ASSUME /\ mode' = mode /\ shown' = shown /\ blocks' = blocks /\ toolIndex' = toolIndex
             /\ chat' = chat /\ replies' = replies /\ (pc' = pc \/ pc' = "over")
      PROVE  StreamInv'
  BY <1>1 DEF StreamInv, StreamTypes, ToolsInStep, ChatInStep, LineShown, StreamAgreesWithComplete
<1>2. CASE MessageStart
  BY <1>2, StartKeeps
<1>3. CASE \E kind \in {"thinking", "text", "tool"} : BlockStart(kind)
  BY <1>3, BlockStartKeeps DEF Kinds
<1>4. CASE \E c \in Char : Delta(c)
  BY <1>4, DeltaKeeps
<1>5. CASE MessageStop
  BY <1>5, StopKeeps
<1>6. CASE StreamEnd
  BY <1>6, StreamEndKeeps
<1>7. CASE Break
  BY <1>1, <1>7 DEF Break
<1>8. CASE \E n \in DOMAIN replies, how \in {"exact", "trimmed"} : SendBack(n, how)
  BY <1>1, <1>8 DEF SendBack
<1>9. CASE ClaudeTick
  BY <1>1, <1>9 DEF ClaudeTick
<1>10. CASE UNCHANGED claudeVars
  BY <1>1, <1>10 DEF claudeVars
<1> QED BY <1>2, <1>3, <1>4, <1>5, <1>6, <1>7, <1>8, <1>9, <1>10 DEF ClaudeNext

\* The invariant holds in every state.
LEMMA StreamInvHolds == ClaudeSpec => []StreamInv
BY StreamBegins, StreamKeeps, PTL DEF ClaudeSpec

\* What a client puts together from the chunks of a stream, the route line stripped,
\* is the message that a complete reply would be: for replies of any number of
\* blocks of any length, in any order.
THEOREM StreamAlwaysAgrees == ClaudeSpec => []StreamAgreesWithComplete
<1>1. StreamInv => StreamAgreesWithComplete
  BY DEF StreamInv
<1> QED BY <1>1, StreamInvHolds, PTL

-----------------------------------------------------------------------------
(* Lists put together. *)

\* Induction over lists: a set of lists that has the empty one, and with a list
\* every list that is longer by an element, has them all.
LEMMA AllLists ==
    ASSUME NEW S, NEW Good \in SUBSET Seq(S), <<>> \in Good,
           \A s \in Good : \A x \in S : Append(s, x) \in Good
    PROVE  \A s \in Seq(S) : s \in Good
<1> DEFINE Bad == {n \in Nat : \E s \in Seq(S) : Len(s) = n /\ s \notin Good}
<1> SUFFICES ASSUME NEW s \in Seq(S), s \notin Good PROVE FALSE
  OBVIOUS
<1>1. Len(s) \in Bad /\ Bad \in SUBSET Nat
  OBVIOUS
<1>2. PICK n \in Bad : \A m \in Bad : n <= m
  <2> HIDE DEF Bad
  <2> QED BY <1>1, LeastIsThere
<1>3. PICK t \in Seq(S) : Len(t) = n /\ t \notin Good
  BY <1>2
<1>4. t # <<>>
  BY <1>3
<1>5. PICK front \in Seq(S), e \in S : t = Append(front, e)
  BY <1>3, <1>4, SequenceEmptyOrAppend
<1>6. Len(front) \in Nat /\ Len(front) + 1 = n
  BY <1>3, <1>5, AppendProperties
<1>7. Len(front) \notin Bad
  <2> HIDE DEF Bad
  <2> QED BY <1>1, <1>2, <1>6
<1>8. front \in Good
  BY <1>6, <1>7
<1> QED BY <1>3, <1>5, <1>8

\* One element gives its own part.
LEMMA TotalOne ==
    ASSUME NEW B, NEW S, NEW f, Gathers(f, B, S), NEW b \in B
    PROVE  Total(f, <<b>>) = f[b]
<1>1. <<>> \in Seq(B) /\ Append(<<>>, b) = <<b>>
  OBVIOUS
<1>2. Total(f, Append(<<>>, b)) = Total(f, <<>>) \o f[b]
  BY <1>1, TotalGrows
<1>3. <<>> \o f[b] = f[b]
  <2> DEFINE p == f[b]
  <2>1. p \in Seq(S)
    BY GathersPart
  <2> HIDE DEF p
  <2>2. <<>> \o p = p
    BY <2>1, ConcatEmptySeq
  <2> QED BY <2>2 DEF p
<1> QED BY <1>1, <1>2, <1>3, TotalEmpty

\* One more element at the end of two lists that are put together.
LEMMA AppendJoins ==
    ASSUME NEW S, NEW s \in Seq(S), NEW t \in Seq(S), NEW x \in S
    PROVE  s \o Append(t, x) = Append(s \o t, x)
<1> DEFINE e == <<x>>
           p == s \o t
<1>1. t \in Seq(S) /\ e \in Seq(S) /\ p \in Seq(S)
  BY ConcatProperties
<1>2. Append(t, x) = t \o e /\ Append(p, x) = p \o e
  BY <1>1, AppendIsConcat
<1>3. s \o (t \o e) = (s \o t) \o e
  <2> HIDE DEF e
  <2> QED BY <1>1, ConcatAssociative
<1> QED BY <1>2, <1>3

\* What two lists give is put together like the lists.
LEMMA TotalJoins ==
    ASSUME NEW B, NEW S, NEW f, Gathers(f, B, S), NEW s \in Seq(B), NEW t \in Seq(B)
    PROVE  Total(f, s \o t) = Total(f, s) \o Total(f, t)
<1> DEFINE Good == {r \in Seq(B) : Total(f, s \o r) = Total(f, s) \o Total(f, r)}
<1>1. <<>> \in Good
  <2>1. s \o <<>> = s
    BY ConcatEmptySeq
  <2> DEFINE a == Total(f, s)
  <2>2. a \in Seq(S)
    BY TotalType
  <2> HIDE DEF a
  <2>3. a \o <<>> = a
    BY <2>2, ConcatEmptySeq
  <2>4. Total(f, s \o <<>>) = a /\ Total(f, <<>>) = <<>>
    BY <2>1, TotalEmpty DEF a
  <2>5. Total(f, s \o <<>>) = Total(f, s) \o Total(f, <<>>)
    BY <2>3, <2>4 DEF a
  <2> QED BY <2>5
<1>2. ASSUME NEW r \in Good, NEW b \in B PROVE Append(r, b) \in Good
  <2> DEFINE a == Total(f, s)
             c == Total(f, r)
             p == f[b]
  <2>1. r \in Seq(B) /\ Total(f, s \o r) = a \o c /\ Append(r, b) \in Seq(B)
    BY AppendProperties
  <2>2. a \in Seq(S) /\ c \in Seq(S) /\ p \in Seq(S)
    <3>1. r \in Seq(B)
      OBVIOUS
    <3> HIDE DEF Good
    <3>2. a \in Seq(S)
      BY TotalType
    <3>3. c \in Seq(S)
      BY <3>1, TotalType
    <3>4. p \in Seq(S)
      BY GathersPart
    <3> QED BY <3>2, <3>3, <3>4
  <2>3. Total(f, Append(r, b)) = c \o p
    BY <2>1, TotalGrows
  <2>4. s \o Append(r, b) = Append(s \o r, b) /\ s \o r \in Seq(B)
    <3> HIDE DEF Good
    <3> QED BY <2>1, AppendJoins, ConcatProperties
  <2>5. Total(f, Append(s \o r, b)) = (a \o c) \o p
    <3>1. s \o r \in Seq(B)
      BY <2>4
    <3>2. Total(f, Append(s \o r, b)) = Total(f, s \o r) \o p
      <4> HIDE DEF Good
      <4> QED BY <3>1, TotalGrows, ZenonT(30)
    <3> QED BY <2>1, <3>2
  <2> HIDE DEF a, c, p
  <2>6. a \o (c \o p) = (a \o c) \o p
    <3> HIDE DEF Good
    <3> QED BY <2>2, ConcatAssociative, SMTT(30)
  <2> QED BY <2>1, <2>3, <2>4, <2>5, <2>6 DEF a
<1>3. t \in Good
  <2> HIDE DEF Good
  <2>1. Good \in SUBSET Seq(B)
    BY DEF Good
  <2> QED BY <1>1, <1>2, <2>1, AllLists
<1> QED BY <1>3

\* On every element h has what f has on the parts of g.
Through(A, f, g, h) == \A a \in A : h[a] = Total(f, g[a])

\* To gather from what was gathered is to gather once.
LEMMA TotalThrough ==
    ASSUME NEW A, NEW B, NEW S, NEW g, Gathers(g, A, B), NEW f, Gathers(f, B, S),
           NEW h, Gathers(h, A, S), Through(A, f, g, h), NEW list \in Seq(A)
    PROVE  Total(f, Total(g, list)) = Total(h, list)
<1> DEFINE Good == {r \in Seq(A) : Total(f, Total(g, r)) = Total(h, r)}
<1>1. <<>> \in Good
  BY TotalEmpty
<1>2. ASSUME NEW r \in Good, NEW a \in A PROVE Append(r, a) \in Good
  <2>1. r \in Seq(A) /\ Total(f, Total(g, r)) = Total(h, r) /\ Append(r, a) \in Seq(A)
    BY AppendProperties
  <2>2. Total(g, Append(r, a)) = Total(g, r) \o g[a] /\ Total(h, Append(r, a)) = Total(h, r) \o h[a]
    BY <2>1, TotalGrows
  <2> DEFINE p == Total(g, r)
             q == g[a]
  <2>3. p \in Seq(B) /\ q \in Seq(B)
    <3>1. p \in Seq(B)
      <4>1. r \in Seq(A)
        OBVIOUS
      <4> HIDE DEF Good
      <4> QED BY <4>1, TotalType
    <3>2. q \in Seq(B)
      BY GathersPart
    <3> QED BY <3>1, <3>2
  <2> HIDE DEF p, q
  <2>4. Total(f, p \o q) = Total(f, p) \o Total(f, q)
    <3> HIDE DEF Good
    <3> QED BY <2>3, TotalJoins
  <2>5. h[a] = Total(f, g[a])
    BY DEF Through
  <2> QED BY <2>1, <2>2, <2>4, <2>5 DEF p, q
<1>3. list \in Good
  <2> HIDE DEF Good
  <2>1. Good \in SUBSET Seq(A)
    BY DEF Good
  <2> QED BY <1>1, <1>2, <2>1, AllLists
<1> QED BY <1>3

\* Where every part is one element, these are the list.
LEMMA ConcatSingles ==
    ASSUME NEW S, NEW w \in Seq(S)
    PROVE  Concat([i \in DOMAIN w |-> <<w[i]>>]) = w
<1> DEFINE single == [x \in S |-> <<x>>]
           Good == {r \in Seq(S) : Total(single, r) = r}
<1>1. Gathers(single, S, S) /\ \A x \in S : single[x] = <<x>>
  BY DEF Gathers
<1> HIDE DEF single
<1>2. <<>> \in Good
  BY TotalEmpty
<1>3. ASSUME NEW r \in Good, NEW x \in S PROVE Append(r, x) \in Good
  <2>1. r \in Seq(S) /\ Total(single, r) = r /\ Append(r, x) \in Seq(S)
    BY AppendProperties
  <2>2. Total(single, Append(r, x)) = r \o <<x>>
    <3>1. r \in Seq(S) /\ Gathers(single, S, S)
      BY <1>1
    <3> HIDE DEF Good
    <3>2. Total(single, Append(r, x)) = Total(single, r) \o single[x]
      BY <3>1, TotalGrows
    <3> QED BY <1>1, <2>1, <3>2
  <2>3. r \o <<x>> = Append(r, x)
    BY <2>1, AppendIsConcat
  <2> QED BY <2>1, <2>2, <2>3
<1>4. w \in Good
  <2> HIDE DEF Good
  <2>1. Good \in SUBSET Seq(S)
    BY DEF Good
  <2> QED BY <1>2, <1>3, <2>1, AllLists
<1>5. [i \in DOMAIN w |-> single[w[i]]] = [i \in DOMAIN w |-> <<w[i]>>]
  BY <1>1
<1> QED BY <1>4, <1>5 DEF Total

\* What is in a list.
Elements(s) == {s[i] : i \in DOMAIN s}

\* Two lists that are put together have the elements of both.
LEMMA JoinElements ==
    ASSUME NEW S, NEW a \in Seq(S), NEW p \in Seq(S)
    PROVE  Elements(a \o p) = Elements(a) \cup Elements(p)
<1> DEFINE k == Len(a)
           l == Len(p)
           c == a \o p
<1>1. /\ k \in Nat /\ l \in Nat /\ DOMAIN a = 1..k /\ DOMAIN p = 1..l /\ c \in Seq(S) /\ Len(c) = k + l
      /\ \A i \in 1..(k + l) : c[i] = IF i <= k THEN a[i] ELSE p[i - k]
  BY ConcatProperties
<1>2. DOMAIN c = 1..(k + l)
  BY <1>1
<1> HIDE DEF k, l, c
<1>3. \A i \in 1..k : i \in 1..(k + l) /\ i <= k
  BY <1>1
<1>4. \A i \in 1..l : i + k \in 1..(k + l) /\ ~(i + k <= k) /\ (i + k) - k = i
  BY <1>1
<1>5. \A i \in 1..(k + l) : (i <= k => i \in 1..k) /\ (~(i <= k) => i - k \in 1..l)
  BY <1>1
<1>6. \A i \in 1..k : c[i] = a[i]
  BY <1>1, <1>3
<1>7. \A i \in 1..l : c[i + k] = p[i]
  BY <1>1, <1>4
<1>8. \A i \in 1..k : a[i] \in Elements(c)
  <2> SUFFICES ASSUME NEW i \in 1..k PROVE a[i] \in Elements(c)
    OBVIOUS
  <2>1. i \in DOMAIN c /\ c[i] = a[i]
    BY <1>2, <1>3, <1>6
  <2> QED BY <2>1 DEF Elements
<1>9. \A i \in 1..l : p[i] \in Elements(c)
  <2> SUFFICES ASSUME NEW i \in 1..l PROVE p[i] \in Elements(c)
    OBVIOUS
  <2>1. i + k \in DOMAIN c /\ c[i + k] = p[i]
    BY <1>2, <1>4, <1>7
  <2> QED BY <2>1 DEF Elements
<1>10. \A i \in 1..(k + l) : c[i] \in Elements(a) \cup Elements(p)
  BY <1>1, <1>5 DEF Elements
<1>11. /\ Elements(a) = {a[i] : i \in 1..k} /\ Elements(p) = {p[i] : i \in 1..l}
       /\ Elements(c) = {c[i] : i \in 1..(k + l)}
  BY <1>1, <1>2 DEF Elements
<1>12. Elements(c) = Elements(a) \cup Elements(p)
  BY <1>8, <1>9, <1>10, <1>11
<1> QED BY <1>12 DEF c

\* The elements of what is gathered are those of the parts.
LEMMA TotalElements ==
    ASSUME NEW B, NEW S, NEW f, Gathers(f, B, S), NEW list \in Seq(B)
    PROVE  Elements(Total(f, list)) = UNION {Elements(f[list[i]]) : i \in DOMAIN list}
<1> DEFINE parts(r) == UNION {Elements(f[r[i]]) : i \in DOMAIN r}
           Good == {r \in Seq(B) : Elements(Total(f, r)) = parts(r)}
<1>1. <<>> \in Good
  BY TotalEmpty DEF Elements
<1>2. ASSUME NEW r \in Good, NEW b \in B PROVE Append(r, b) \in Good
  <2> DEFINE n == Len(r)
             s == Append(r, b)
             p == f[b]
             a == Total(f, r)
  <2>1. r \in Seq(B) /\ Elements(a) = parts(r) /\ s \in Seq(B)
    BY AppendProperties
  <2>2. /\ n \in Nat /\ DOMAIN r = 1..n /\ DOMAIN s = 1..(n + 1)
        /\ s[n + 1] = b /\ \A i \in 1..n : s[i] = r[i]
    BY <2>1, AppendProperties
  <2>3. Total(f, s) = a \o p /\ a \in Seq(S) /\ p \in Seq(S)
    <3>1. r \in Seq(B)
      OBVIOUS
    <3> HIDE DEF Good, parts
    <3>2. Total(f, s) = a \o p
      BY <3>1, TotalGrows
    <3>3. a \in Seq(S)
      BY <3>1, TotalType
    <3>4. p \in Seq(S)
      BY GathersPart
    <3> QED BY <3>2, <3>3, <3>4
  <2>4. Elements(a \o p) = Elements(a) \cup Elements(p)
    <3> HIDE DEF a, p, Good
    <3> QED BY <2>3, JoinElements
  <2> HIDE DEF s, n, a
  <2>5. parts(s) = parts(r) \cup Elements(p)
    <3>1. ASSUME NEW x \in parts(s) PROVE x \in parts(r) \cup Elements(p)
      <4>1. PICK i \in DOMAIN s : x \in Elements(f[s[i]])
        BY <3>1
      <4>2. i = n + 1 \/ i \in 1..n
        BY <2>2
      <4>3. CASE i = n + 1
        BY <2>2, <4>1, <4>3
      <4>4. CASE i \in 1..n
        BY <2>2, <4>1, <4>4
      <4> QED BY <4>2, <4>3, <4>4
    <3>2. n + 1 \in DOMAIN s /\ \A i \in DOMAIN r : i \in DOMAIN s /\ s[i] = r[i]
      BY <2>2
    <3>3. Elements(p) \subseteq parts(s)
      <4>1. p = f[s[n + 1]]
        BY <2>2
      <4> HIDE DEF p
      <4> QED BY <3>2, <4>1
    <3>4. parts(r) \subseteq parts(s)
      BY <3>2
    <3> HIDE DEF parts
    <3> QED BY <3>1, <3>3, <3>4
  <2>6. Elements(Total(f, s)) = parts(s)
    BY <2>1, <2>3, <2>4, <2>5
  <2> QED BY <2>1, <2>6 DEF s
<1>3. list \in Good
  <2> HIDE DEF Good
  <2>1. Good \in SUBSET Seq(B)
    BY DEF Good
  <2> QED BY <1>1, <1>2, <2>1, AllLists
<1> QED BY <1>3

-----------------------------------------------------------------------------
(* What is written in a text, and what strip leaves of it. *)

\* Where no element has a part, nothing is gathered.
LEMMA TotalNone ==
    ASSUME NEW B, NEW S, NEW f, Gathers(f, B, S), NEW list \in Seq(B),
           \A i \in DOMAIN list : f[list[i]] = <<>>
    PROVE  Total(f, list) = <<>>
<1> DEFINE none(r) == \A i \in DOMAIN r : f[r[i]] = <<>>
           Good == {r \in Seq(B) : none(r) => Total(f, r) = <<>>}
<1>1. <<>> \in Good
  BY TotalEmpty
<1>2. ASSUME NEW r \in Good, NEW b \in B PROVE Append(r, b) \in Good
  <2> DEFINE s == Append(r, b)
  <2>1. r \in Seq(B) /\ (none(r) => Total(f, r) = <<>>)
    OBVIOUS
  <2>5. s \in Seq(B)
    <3>1. r \in Seq(B)
      OBVIOUS
    <3> HIDE DEF none, Good
    <3> QED BY <3>1, AppendProperties
  <2>2. /\ Len(r) + 1 \in DOMAIN s /\ s[Len(r) + 1] = b
        /\ \A i \in DOMAIN r : i \in DOMAIN s /\ s[i] = r[i]
    BY <2>1, AppendProperties
  <2>3. Total(f, s) = Total(f, r) \o f[b]
    <3>1. r \in Seq(B)
      OBVIOUS
    <3> HIDE DEF Good, none
    <3> QED BY <3>1, TotalGrows
  <2> HIDE DEF s
  <2>4. ASSUME none(s) PROVE Total(f, s) = <<>>
    <3>1. none(r) /\ f[b] = <<>>
      BY <2>2, <2>4
    <3>2. Total(f, s) = <<>> \o <<>>
      BY <2>1, <2>3, <3>1
    <3> QED BY <3>2
  <2> HIDE DEF none
  <2>6. s \in Good
    BY <2>4, <2>5
  <2> QED BY <2>6 DEF s
<1>3. list \in Good
  <2> HIDE DEF Good
  <2>1. Good \in SUBSET Seq(B)
    BY DEF Good
  <2> QED BY <1>1, <1>2, <2>1, AllLists
<1> QED BY <1>3

-----------------------------------------------------------------------------
(* Texts. *)

\* What a character adds to what is written.
Inked == [c \in Shown |-> IF c \in White THEN <<>> ELSE <<c>>]

\* The characters of a text that are not white space, in order.
LEMMA WrittenIs ==
    /\ Gathers(Inked, Shown, Shown)
    /\ \A text \in Seq(Shown) : Written(text) = Total(Inked, text) /\ Written(text) \in Seq(Shown)
<1>1. Gathers(Inked, Shown, Shown)
  <2> SUFFICES ASSUME NEW c \in Shown PROVE (IF c \in White THEN <<>> ELSE <<c>>) \in Seq(Shown)
    BY DEF Inked, Gathers
  <2> HIDE DEF Shown
  <2>1. <<>> \in Seq(Shown) /\ <<c>> \in Seq(Shown)
    OBVIOUS
  <2> QED BY <2>1
<1>2. ASSUME NEW text \in Seq(Shown) PROVE Written(text) = Total(Inked, text) /\ Written(text) \in Seq(Shown)
  <2>1. \A i \in DOMAIN text : text[i] \in Shown
    <3> HIDE DEF Shown
    <3> QED OBVIOUS
  <2>2. \A i \in DOMAIN text : Inked[text[i]] = IF text[i] \in White THEN <<>> ELSE <<text[i]>>
    BY <2>1 DEF Inked
  <2>3. [i \in DOMAIN text |-> Inked[text[i]]] = [i \in DOMAIN text |-> IF text[i] \in White THEN <<>> ELSE <<text[i]>>]
    BY <2>2
  <2>4. Written(text) = Total(Inked, text)
    BY <2>3 DEF Written, Total
  <2> DEFINE S == Shown
             f == Inked
  <2>5. Gathers(f, S, S) /\ text \in Seq(S)
    BY <1>1
  <2> HIDE DEF S, f
  <2>6. Total(f, text) \in Seq(S)
    BY <2>5, TotalType
  <2> QED BY <2>4, <2>6 DEF S, f
<1> QED BY <1>1, <1>2

\* What two texts write is put together like the texts.
LEMMA WrittenJoins ==
    ASSUME NEW s \in Seq(Shown), NEW t \in Seq(Shown)
    PROVE  Written(s \o t) = Written(s) \o Written(t)
<1> DEFINE S == Shown
           f == Inked
<1>1. Gathers(f, S, S) /\ s \in Seq(S) /\ t \in Seq(S)
  BY WrittenIs
<1>2. \A x \in Seq(S) : Written(x) = Total(f, x)
  BY WrittenIs
<1> HIDE DEF S, f
<1>3. s \o t \in Seq(S)
  BY <1>1, ConcatProperties
<1>4. Total(f, s \o t) = Total(f, s) \o Total(f, t)
  BY <1>1, TotalJoins
<1> QED BY <1>1, <1>2, <1>3, <1>4

\* White space writes nothing.
LEMMA WrittenBlank ==
    ASSUME NEW t \in Seq(Shown), Ink(t) = {}
    PROVE  Written(t) = <<>>
<1>1. \A i \in DOMAIN t : t[i] \in White
  BY DEF Ink
<1>2. \A i \in DOMAIN t : t[i] \in Shown
  <2> HIDE DEF Shown
  <2> QED OBVIOUS
<1>3. \A i \in DOMAIN t : Inked[t[i]] = <<>>
  BY <1>1, <1>2 DEF Inked
<1> DEFINE S == Shown
           f == Inked
<1>4. Gathers(f, S, S) /\ t \in Seq(S) /\ \A i \in DOMAIN t : f[t[i]] = <<>>
  BY <1>3, WrittenIs
<1> HIDE DEF S, f
<1>5. Total(f, t) = <<>>
  BY <1>4, TotalNone
<1> QED BY <1>5, WrittenIs DEF f

\* A text that begins and ends with something that is not white space.
Tight(m) == m # <<>> /\ m[1] \notin White /\ m[Len(m)] \notin White

\* strip leaves what white space is around.
LEMMA StripLeaves ==
    ASSUME NEW S, NEW v \in Seq(S), NEW m \in Seq(S), NEW w \in Seq(S),
           Ink(v) = {}, Ink(w) = {}, Tight(m)
    PROVE  Ink((v \o m) \o w) # {} /\ Strip((v \o m) \o w) = m
<1> DEFINE a == Len(v)
           k == Len(m)
           b == Len(w)
           t == (v \o m) \o w
<1>1. /\ a \in Nat /\ k \in Nat /\ b \in Nat /\ k >= 1
      /\ DOMAIN v = 1..a /\ DOMAIN m = 1..k /\ DOMAIN w = 1..b
  BY DEF Tight
<1>2. /\ v \o m \in Seq(S) /\ Len(v \o m) = a + k
      /\ \A i \in 1..(a + k) : (v \o m)[i] = IF i <= a THEN v[i] ELSE m[i - a]
  BY ConcatProperties
<1>3. /\ t \in Seq(S) /\ Len(t) = (a + k) + b
      /\ \A i \in 1..((a + k) + b) : t[i] = IF i <= a + k THEN (v \o m)[i] ELSE w[i - (a + k)]
  <2> DEFINE p == v \o m
             l == a + k
  <2>1. p \in Seq(S) /\ Len(p) = l
    BY <1>2
  <2> HIDE DEF p, l
  <2>2. /\ p \o w \in Seq(S) /\ Len(p \o w) = l + b
        /\ \A i \in 1..(l + b) : (p \o w)[i] = IF i <= l THEN p[i] ELSE w[i - l]
    BY <2>1, ConcatProperties
  <2> QED BY <2>2 DEF p, l
<1> DEFINE p == v \o m
<1>4. DOMAIN t = 1..((a + k) + b)
  BY <1>3
<1> HIDE DEF a, k, b, t, p
<1>5. \A i \in 1..((a + k) + b) : i <= a => t[i] = v[i] /\ i \in 1..a
  <2> SUFFICES ASSUME NEW i \in 1..((a + k) + b), i <= a PROVE t[i] = v[i] /\ i \in 1..a
    OBVIOUS
  <2>1. i \in 1..a /\ i <= a + k /\ i \in 1..(a + k)
    BY <1>1
  <2> QED BY <1>2, <1>3, <2>1 DEF p
<1>6. \A i \in 1..k : i + a \in 1..((a + k) + b) /\ t[i + a] = m[i]
  <2> SUFFICES ASSUME NEW i \in 1..k PROVE i + a \in 1..((a + k) + b) /\ t[i + a] = m[i]
    OBVIOUS
  <2>1. i + a \in 1..((a + k) + b) /\ i + a <= a + k /\ i + a \in 1..(a + k) /\ ~(i + a <= a) /\ (i + a) - a = i
    BY <1>1
  <2> QED BY <1>2, <1>3, <2>1 DEF p
<1>7. \A i \in 1..((a + k) + b) : i > a + k => t[i] = w[i - (a + k)] /\ i - (a + k) \in 1..b
  <2> SUFFICES ASSUME NEW i \in 1..((a + k) + b), i > a + k
               PROVE  t[i] = w[i - (a + k)] /\ i - (a + k) \in 1..b
    OBVIOUS
  <2>1. ~(i <= a + k) /\ i - (a + k) \in 1..b
    BY <1>1
  <2> QED BY <1>3, <2>1
<1>8. \A i \in Ink(t) : a + 1 <= i /\ i <= a + k
  <2> SUFFICES ASSUME NEW i \in Ink(t) PROVE a + 1 <= i /\ i <= a + k
    OBVIOUS
  <2>1. i \in 1..((a + k) + b) /\ t[i] \notin White
    BY <1>4 DEF Ink
  <2>2. ~(i <= a)
    BY <1>1, <1>5, <2>1 DEF Ink
  <2>3. ~(i > a + k)
    BY <1>1, <1>7, <2>1 DEF Ink
  <2> QED BY <1>1, <2>1, <2>2, <2>3
<1>9. a + 1 \in Ink(t) /\ a + k \in Ink(t)
  <2>1. 1 \in 1..k /\ k \in 1..k /\ 1 + a = a + 1 /\ k + a = a + k
    BY <1>1
  <2>2. t[a + 1] = m[1] /\ t[a + k] = m[k] /\ a + 1 \in DOMAIN t /\ a + k \in DOMAIN t
    BY <1>4, <1>6, <2>1
  <2> QED BY <2>2 DEF Ink, Tight, k
<1>10. a + 1 \in Int /\ a + k \in Int /\ Ink(t) \subseteq Int
  BY <1>1, <1>4 DEF Ink
<1>11. (CHOOSE i \in Ink(t) : \A j \in Ink(t) : i <= j) = a + 1
  <2>1. \A j \in Ink(t) : a + 1 <= j
    BY <1>8
  <2>2. \A i \in Ink(t) : (\A j \in Ink(t) : i <= j) => i = a + 1
    <3> SUFFICES ASSUME NEW i \in Ink(t), \A j \in Ink(t) : i <= j PROVE i = a + 1
      OBVIOUS
    <3>1. i <= a + 1 /\ a + 1 <= i /\ i \in Int
      BY <1>8, <1>9, <1>10
    <3> QED BY <1>10, <3>1
  <2> QED BY <1>9, <2>1, <2>2
<1>12. (CHOOSE i \in Ink(t) : \A j \in Ink(t) : i >= j) = a + k
  <2>1. \A j \in Ink(t) : a + k >= j
    BY <1>8, <1>10
  <2>2. \A i \in Ink(t) : (\A j \in Ink(t) : i >= j) => i = a + k
    <3> SUFFICES ASSUME NEW i \in Ink(t), \A j \in Ink(t) : i >= j PROVE i = a + k
      OBVIOUS
    <3>1. i >= a + k /\ i <= a + k /\ i \in Int
      BY <1>8, <1>9, <1>10
    <3> QED BY <1>10, <3>1
  <2> QED BY <1>9, <2>1, <2>2
<1>13. Strip(t) = SubSeq(t, a + 1, a + k)
  BY <1>9, <1>11, <1>12 DEF Strip
<1>14. SubSeq(t, a + 1, a + k) = m
  <2> DEFINE from == a + 1
             to == a + k
             u == SubSeq(t, from, to)
  <2>1. from \in Int /\ to \in Int /\ from <= to /\ to - from + 1 = k /\ \A i \in from..to : i \in 1..((a + k) + b)
    BY <1>1
  <2>2. \A i \in from..to : t[i] \in S
    BY <1>3, <1>4, <2>1
  <2> HIDE DEF from, to, u
  <2>3. /\ SubSeq(t, from, to) \in Seq(S) /\ Len(SubSeq(t, from, to)) = IF from <= to THEN to - from + 1 ELSE 0
        /\ \A i \in 1..(to - from + 1) : SubSeq(t, from, to)[i] = t[from + i - 1]
    BY <2>1, <2>2, SubSeqProperties
  <2>4. u \in Seq(S) /\ Len(u) = k /\ \A i \in 1..k : u[i] = t[from + i - 1]
    BY <2>1, <2>3 DEF u
  <2>5. \A i \in 1..k : from + i - 1 = i + a
    BY <1>1 DEF from
  <2>6. \A i \in 1..k : u[i] = m[i]
    <3> SUFFICES ASSUME NEW i \in 1..k PROVE u[i] = m[i]
      OBVIOUS
    <3>1. u[i] = t[from + i - 1] /\ from + i - 1 = i + a
      BY <2>4, <2>5
    <3> QED BY <1>6, <3>1
  <2>7. Len(m) = k
    BY DEF k
  <2>8. u = m
    BY <2>4, <2>6, <2>7, SeqEqual
  <2> QED BY <2>8 DEF u, from, to
<1> QED BY <1>9, <1>13, <1>14 DEF t

\* strip takes the white space before a text and after it away, and nothing else.
LEMMA Trimmed ==
    ASSUME NEW S, NEW t \in Seq(S), Ink(t) # {}
    PROVE  \E v, m, w \in Seq(S) : /\ t = (v \o m) \o w /\ Ink(v) = {} /\ Ink(w) = {}
                                   /\ Tight(m) /\ Strip(t) = m
<1> DEFINE N == Len(t)
<1>1. N \in Nat /\ DOMAIN t = 1..N /\ \A i \in 1..N : t[i] \in S
  OBVIOUS
<1>2. Ink(t) \in SUBSET (1..N)
  BY <1>1 DEF Ink
<1>3. PICK a \in Ink(t) : \A j \in Ink(t) : a <= j
  <2>1. Ink(t) \in SUBSET Nat
    BY <1>2
  <2> QED BY <2>1, LeastIsThere
<1>4. PICK b \in Ink(t) : \A j \in Ink(t) : b >= j
  <2> DEFINE Mirror == {n \in Nat : \E j \in Ink(t) : n = N - j}
  <2>1. PICK i \in Ink(t) : TRUE
    OBVIOUS
  <2>2. i \in 1..N
    BY <1>2, <2>1
  <2>3. N - i \in Mirror
    <3> HIDE DEF N
    <3>1. N - i \in Nat
      BY <1>1, <2>2
    <3> QED BY <2>1, <3>1
  <2>4. Mirror \in SUBSET Nat
    OBVIOUS
  <2>5. PICK n \in Mirror : \A k \in Mirror : n <= k
    <3> HIDE DEF Mirror
    <3> QED BY <2>3, <2>4, LeastIsThere
  <2>6. PICK b \in Ink(t) : n = N - b
    BY <2>5
  <2>7. \A j \in Ink(t) : b >= j
    <3> SUFFICES ASSUME NEW j \in Ink(t) PROVE b >= j
      OBVIOUS
    <3>1. j \in 1..N /\ b \in 1..N
      BY <1>2
    <3> HIDE DEF N
    <3>2. N - j \in Mirror
      <4>1. N - j \in Nat
        BY <1>1, <3>1
      <4> QED BY <4>1
    <3> HIDE DEF Mirror
    <3>3. N - b <= N - j
      BY <2>5, <2>6, <3>2
    <3> QED BY <1>1, <3>1, <3>3
  <2> QED BY <2>7
<1>5. /\ a \in 1..N /\ b \in 1..N /\ a <= b /\ t[a] \notin White /\ t[b] \notin White
      /\ \A i \in 1..N : t[i] \notin White => a <= i /\ i <= b
  <2>1. \A i \in 1..N : t[i] \notin White => i \in Ink(t)
    BY <1>1 DEF Ink
  <2>2. \A i \in Ink(t) : t[i] \notin White
    BY DEF Ink
  <2> QED BY <1>2, <1>3, <1>4, <2>1, <2>2
<1>6. Strip(t) = SubSeq(t, a, b)
  <2>1. \A i \in Ink(t) : i \in Int
    BY <1>2
  <2>2. \A i \in Ink(t) : (\A j \in Ink(t) : i <= j) => i = a
    BY <1>3, <2>1
  <2>3. \A i \in Ink(t) : (\A j \in Ink(t) : i >= j) => i = b
    BY <1>4, <2>1
  <2>4. (CHOOSE i \in Ink(t) : \A j \in Ink(t) : i <= j) = a
    BY <1>3, <2>2
  <2>5. (CHOOSE i \in Ink(t) : \A j \in Ink(t) : i >= j) = b
    BY <1>4, <2>3
  <2> QED BY <2>4, <2>5 DEF Strip
<1> DEFINE k == a - 1
           l == b - a + 1
           r == N - b
<1> HIDE DEF N
<1>7. /\ k \in Nat /\ l \in Nat /\ r \in Nat /\ l >= 1 /\ k + l = b /\ (k + l) + r = N /\ b + r = N
      /\ a = k + 1 /\ a + l - 1 = b
      /\ \A i \in 1..k : i \in 1..N /\ i < a
      /\ \A i \in 1..l : k + i \in 1..N /\ a + i - 1 = k + i
      /\ \A i \in 1..r : b + i \in 1..N /\ b + i > b
  BY <1>1, <1>5
<1> HIDE DEF k, l, r
<1> DEFINE v == [i \in 1..k |-> t[i]]
           m == [i \in 1..l |-> t[k + i]]
           w == [i \in 1..r |-> t[b + i]]
<1>8. v \in Seq(S) /\ Len(v) = k /\ \A i \in 1..k : v[i] = t[i]
  <2>1. \A i \in 1..k : t[i] \in S
    BY <1>1, <1>7
  <2> QED BY <1>7, <2>1, IsASeq
<1>9. m \in Seq(S) /\ Len(m) = l /\ \A i \in 1..l : m[i] = t[k + i]
  <2>1. \A i \in 1..l : t[k + i] \in S
    BY <1>1, <1>7
  <2> QED BY <1>7, <2>1, IsASeq
<1>10. w \in Seq(S) /\ Len(w) = r /\ \A i \in 1..r : w[i] = t[b + i]
  <2>1. \A i \in 1..r : t[b + i] \in S
    BY <1>1, <1>7
  <2> QED BY <1>7, <2>1, IsASeq
<1> HIDE DEF v, m, w
<1>11. SubSeq(t, a, b) = m
  <2> DEFINE u == SubSeq(t, a, b)
  <2>1. \A i \in a..b : t[i] \in S
    BY <1>1, <1>5
  <2>2. u \in Seq(S) /\ Len(u) = b - a + 1 /\ \A i \in 1..(b - a + 1) : u[i] = t[a + i - 1]
    BY <1>5, <2>1, SubSeqProperties
  <2>3. b - a + 1 = l
    BY DEF l
  <2> HIDE DEF u
  <2>4. u \in Seq(S) /\ Len(u) = l /\ \A i \in 1..l : u[i] = m[i]
    BY <1>7, <1>9, <2>2, <2>3, ZenonT(30)
  <2>5. u = m
    BY <1>9, <2>4, SeqEqual
  <2> QED BY <2>5 DEF u
<1>12. t = (v \o m) \o w
  <2> DEFINE p == v \o m
             q == p \o w
  <2>1. /\ p \in Seq(S) /\ Len(p) = k + l
        /\ \A i \in 1..(k + l) : p[i] = IF i <= k THEN v[i] ELSE m[i - k]
    BY <1>8, <1>9, ConcatProperties, ZenonT(30)
  <2>3. p \in Seq(S) /\ Len(p) = b /\ \A i \in 1..b : p[i] = IF i <= k THEN v[i] ELSE m[i - k]
    BY <1>7, <2>1
  <2> HIDE DEF p
  <2>4. /\ q \in Seq(S) /\ Len(q) = b + r
        /\ \A i \in 1..(b + r) : q[i] = IF i <= b THEN p[i] ELSE w[i - b]
    BY <1>10, <2>3, ConcatProperties, ZenonT(30)
  <2> HIDE DEF q
  <2>5. q \in Seq(S) /\ Len(q) = N /\ \A i \in 1..N : q[i] = IF i <= b THEN p[i] ELSE w[i - b]
    BY <1>7, <2>4
  <2>6. \A i \in 1..N : q[i] = t[i]
    <3> SUFFICES ASSUME NEW i \in 1..N PROVE q[i] = t[i]
      OBVIOUS
    <3>1. CASE i <= k
      <4>1. i <= b /\ i \in 1..b /\ i \in 1..k
        BY <1>7, <3>1
      <4> QED BY <1>8, <2>3, <2>5, <3>1, <4>1
    <3>2. CASE ~(i <= k) /\ i <= b
      <4>1. i \in 1..b /\ i - k \in 1..l /\ k + (i - k) = i
        BY <1>7, <3>2
      <4>2. m[i - k] = t[k + (i - k)]
        BY <1>9, <4>1
      <4> QED BY <2>3, <2>5, <3>2, <4>1, <4>2
    <3>3. CASE ~(i <= b)
      <4>1. i - b \in 1..r /\ b + (i - b) = i
        BY <1>5, <1>7, <3>3
      <4>2. w[i - b] = t[b + (i - b)]
        BY <1>10, <4>1
      <4> QED BY <2>5, <3>3, <4>1, <4>2
    <3> QED BY <3>1, <3>2, <3>3
  <2>7. Len(t) = N
    BY DEF N
  <2>8. q = t
    BY <2>5, <2>6, <2>7, SeqEqual
  <2> QED BY <2>8 DEF q, p
<1>13. Ink(v) = {}
  <2>1. DOMAIN v = 1..k
    BY <1>8
  <2>2. \A i \in 1..k : t[i] \in White
    <3> SUFFICES ASSUME NEW i \in 1..k, t[i] \notin White PROVE FALSE
      OBVIOUS
    <3>1. i \in 1..N /\ i < a /\ a <= i
      BY <1>5, <1>7
    <3> QED BY <1>5, <3>1
  <2> QED BY <1>8, <2>1, <2>2 DEF Ink
<1>14. Ink(w) = {}
  <2>1. DOMAIN w = 1..r
    BY <1>10
  <2>2. \A i \in 1..r : t[b + i] \in White
    <3> SUFFICES ASSUME NEW i \in 1..r, t[b + i] \notin White PROVE FALSE
      OBVIOUS
    <3>1. b + i \in 1..N /\ b + i > b /\ b + i <= b
      BY <1>5, <1>7
    <3> QED BY <1>5, <3>1
  <2> QED BY <1>10, <2>1, <2>2 DEF Ink
<1>15. Tight(m)
  <2>1. 1 \in 1..l /\ l \in 1..l /\ k + 1 = a /\ k + l = b
    BY <1>7
  <2>2. m[1] = t[a] /\ m[l] = t[b] /\ m # <<>>
    BY <1>9, <2>1
  <2> QED BY <1>5, <1>9, <2>2 DEF Tight
<1>16. Strip(t) = m
  BY <1>6, <1>11
<1> QED BY <1>8, <1>9, <1>10, <1>12, <1>13, <1>14, <1>15, <1>16

\* strip once is enough, and leaves nothing only of white space.
LEMMA StripFacts ==
    ASSUME NEW S, NEW t \in Seq(S)
    PROVE  /\ Strip(t) \in Seq(S) /\ Strip(Strip(t)) = Strip(t)
           /\ Strip(t) = <<>> => Ink(t) = {}
<1>1. CASE Ink(t) = {}
  <2>1. Strip(t) = <<>> /\ <<>> \in Seq(S)
    BY <1>1 DEF Strip
  <2>2. Ink(<<>>) = {}
    BY DEF Ink
  <2> QED BY <1>1, <2>1, <2>2 DEF Strip
<1>2. CASE Ink(t) # {}
  <2>1. PICK v, m, w \in Seq(S) : /\ t = (v \o m) \o w /\ Ink(v) = {} /\ Ink(w) = {}
                                  /\ Tight(m) /\ Strip(t) = m
    BY <1>2, Trimmed
  <2> DEFINE e == <<>>
  <2>2. e \in Seq(S) /\ Ink(e) = {}
    BY DEF Ink
  <2>3. e \o m = m /\ m \o e = m
    BY ConcatEmptySeq
  <2> HIDE DEF e
  <2>4. Strip((e \o m) \o e) = m
    BY <2>1, <2>2, StripLeaves
  <2>5. m # <<>>
    BY <2>1 DEF Tight
  <2> QED BY <2>1, <2>3, <2>4, <2>5
<1> QED BY <1>1, <1>2

\* Only white space is stripped.
LEMMA WrittenStrip ==
    ASSUME NEW t \in Seq(Shown)
    PROVE  Written(Strip(t)) = Written(t)
<1> DEFINE S == Shown
<1>1. t \in Seq(S)
  OBVIOUS
<1>2. \A x, y \in Seq(S) : Written(x \o y) = Written(x) \o Written(y)
  BY WrittenJoins
<1>3. \A x \in Seq(S) : Written(x) \in Seq(S) /\ (Ink(x) = {} => Written(x) = <<>>)
  BY WrittenIs, WrittenBlank
<1> HIDE DEF S
<1>4. CASE Ink(t) = {}
  <2>1. <<>> \in Seq(S) /\ Ink(<<>>) = {}
    BY DEF Ink
  <2>2. Strip(t) = <<>>
    BY <1>4 DEF Strip
  <2>3. Written(<<>>) = <<>> /\ Written(t) = <<>>
    BY <1>1, <1>3, <1>4, <2>1
  <2> QED BY <2>2, <2>3
<1>5. CASE Ink(t) # {}
  <2>1. PICK v, m, w \in Seq(S) : /\ t = (v \o m) \o w /\ Ink(v) = {} /\ Ink(w) = {}
                                  /\ Tight(m) /\ Strip(t) = m
    BY <1>1, <1>5, Trimmed
  <2>2. v \o m \in Seq(S)
    BY ConcatProperties
  <2>3. Written(t) = Written(v \o m) \o Written(w) /\ Written(v \o m) = Written(v) \o Written(m)
    BY <1>2, <2>1, <2>2
  <2>4. Written(v) = <<>> /\ Written(w) = <<>>
    BY <1>3, <2>1
  <2> DEFINE x == Written(m)
  <2>5. x \in Seq(S)
    BY <1>3
  <2> HIDE DEF x
  <2>6. <<>> \o x = x /\ x \o <<>> = x
    BY <2>5, ConcatEmptySeq
  <2>7. Written(t) = x
    BY <2>3, <2>4, <2>6 DEF x
  <2> QED BY <2>1, <2>7 DEF x
<1> QED BY <1>4, <1>5

\* What is left of a text without its route line is a text.
LEMMA SanitizedType ==
    ASSUME NEW S, NEW t \in Seq(S) PROVE Sanitized(t) \in Seq(S)
<1> DEFINE N == Len(t)
<1>1. N \in Nat /\ \A i \in 1..N : t[i] \in S
  OBVIOUS
<1> HIDE DEF N
<1>2. ASSUME N >= 2 PROVE SubSeq(t, 3, N) \in Seq(S)
  <2>1. 3 \in Int /\ N \in Int /\ \A i \in 3..N : t[i] \in S
    BY <1>1
  <2> QED BY <2>1, SubSeqProperties
<1> QED BY <1>2 DEF Sanitized, N

\* The route line and its white space.
LineText == <<Line, "newline">>

\* strip does not reach through the route line: what is before the line's own white space.
LEMMA LineTrimmed ==
    ASSUME NEW t \in Seq(Char)
    PROVE  /\ Ink(t) # {} => Strip(Sanitized(Strip(LineText \o t))) = Strip(t)
           /\ Ink(t) = {} => Ink(LineText \o t) = {1} /\ (LineText \o t)[1] = Line
<1> DEFINE S == Shown
           C == Char
           line == LineText
<1>1. line \in Seq(S) /\ Len(line) = 2 /\ line[1] = Line /\ line[2] = "newline"
  BY DEF LineText, Shown
<1>2. Line \notin White /\ "newline" \in White
  BY DEF Line, White
<1>3. t \in Seq(C) /\ C \subseteq S
  BY DEF Shown
<1>4. \A x \in Seq(C) : Sanitized(line \o x) = x
  BY LineStripped DEF LineText
<1> HIDE DEF S, C, line
<1>5. \A x \in Seq(C) : x \in Seq(S)
  BY <1>3
<1>6. ASSUME Ink(t) # {} PROVE Strip(Sanitized(Strip(line \o t))) = Strip(t)
  <2>1. PICK v, m, w \in Seq(C) : /\ t = (v \o m) \o w /\ Ink(v) = {} /\ Ink(w) = {}
                                  /\ Tight(m) /\ Strip(t) = m
    BY <1>3, <1>6, Trimmed
  <2> DEFINE p == v \o m
             q == line \o p
             e == <<>>
  <2>2. e \in Seq(S) /\ e \in Seq(C) /\ Ink(e) = {}
    BY DEF Ink
  <2>3. p \in Seq(C)
    BY ConcatProperties
  <2>4. p \in Seq(S) /\ w \in Seq(S) /\ m \in Seq(S)
    BY <1>5, <2>3
  <2>5. /\ Len(m) \in Nat /\ Len(m) >= 1 /\ Len(p) = Len(v) + Len(m) /\ Len(v) \in Nat
        /\ p[Len(v) + Len(m)] = m[Len(m)]
    <3>1. Len(m) \in Nat /\ Len(v) \in Nat /\ Len(m) >= 1
      BY <2>1 DEF Tight
    <3>2. \A i \in 1..(Len(v) + Len(m)) : p[i] = IF i <= Len(v) THEN v[i] ELSE m[i - Len(v)]
      BY ConcatProperties
    <3>3. Len(p) = Len(v) + Len(m)
      BY ConcatProperties
    <3> HIDE DEF p
    <3>4. /\ Len(v) + Len(m) \in 1..(Len(v) + Len(m)) /\ ~(Len(v) + Len(m) <= Len(v))
          /\ (Len(v) + Len(m)) - Len(v) = Len(m)
      BY <3>1
    <3> QED BY <3>1, <3>2, <3>3, <3>4
  <2> HIDE DEF p, e
  <2>6. /\ q \in Seq(S) /\ Len(q) = 2 + Len(p)
        /\ \A i \in 1..(2 + Len(p)) : q[i] = IF i <= 2 THEN line[i] ELSE p[i - 2]
    <3>1. /\ q \in Seq(S) /\ Len(q) = Len(line) + Len(p)
          /\ \A i \in 1..(Len(line) + Len(p)) : q[i] = IF i <= Len(line) THEN line[i] ELSE p[i - Len(line)]
      BY <1>1, <2>4, ConcatProperties
    <3> QED BY <1>1, <3>1
  <2>7. Tight(q)
    <3> HIDE DEF q
    <3> DEFINE N == Len(p)
    <3>1. N \in Nat /\ N >= 1 /\ p[N] = m[Len(m)]
      BY <2>5
    <3>2. q[1] = line[1] /\ Len(q) = 2 + N /\ q[2 + N] = p[N] /\ q # <<>>
      <4> HIDE DEF N
      <4>1. 1 \in 1..(2 + N) /\ 2 + N \in 1..(2 + N) /\ ~(2 + N <= 2) /\ (2 + N) - 2 = N
        BY <3>1
      <4>2. q[1] = line[1] /\ Len(q) = 2 + N /\ q[2 + N] = p[N]
        BY <2>6, <4>1 DEF N
      <4>3. q # <<>>
        BY <3>1, <4>2
      <4> QED BY <4>2, <4>3
    <3> HIDE DEF N
    <3>3. m[Len(m)] \notin White
      BY <2>1 DEF Tight
    <3> QED BY <1>1, <1>2, <3>1, <3>2, <3>3 DEF Tight
  <2>8. line \o t = q \o w
    <3>1. t = p \o w
      BY <2>1 DEF p
    <3>2. line \o (p \o w) = (line \o p) \o w
      <4>1. line \in Seq(S)
        BY <1>1
      <4>2. p \in Seq(S)
        BY <2>4
      <4>3. w \in Seq(S)
        BY <2>4
      <4> QED BY <4>1, <4>2, <4>3, ConcatAssociative, SMTT(30)
    <3> QED BY <3>1, <3>2
  <2>9. Strip(line \o t) = q
    <3>1. q \in Seq(S)
      BY <2>6
    <3> HIDE DEF q
    <3>2. Strip((e \o q) \o w) = q
      BY <2>1, <2>2, <2>4, <2>7, <3>1, StripLeaves
    <3>3. e \o q = q
      BY <3>1, ConcatEmptySeq DEF e
    <3> QED BY <2>8, <3>2, <3>3
  <2>10. Sanitized(q) = p
    BY <1>4, <2>3
  <2>11. Strip(p) = m
    <3>1. Strip((v \o m) \o e) = m
      <4>1. v \in Seq(S)
        BY <1>5
      <4>2. m \in Seq(S)
        BY <1>5
      <4>3. e \in Seq(S)
        BY <2>2
      <4>4. Ink(v) = {}
        BY <2>1
      <4>5. Tight(m)
        BY <2>1
      <4>7. Ink(e) = {}
        BY <2>2
      <4>6. Ink((v \o m) \o e) # {} /\ Strip((v \o m) \o e) = m
        BY <4>1, <4>2, <4>3, <4>4, <4>5, <4>7, StripLeaves
      <4> QED BY <4>6
    <3>2. p \o e = p
      BY <2>3, ConcatEmptySeq DEF e
    <3> QED BY <3>1, <3>2 DEF p
  <2> QED BY <2>1, <2>9, <2>10, <2>11
<1>7. ASSUME Ink(t) = {} PROVE Ink(line \o t) = {1} /\ (line \o t)[1] = Line
  <2> DEFINE u == line \o t
             N == Len(t)
  <2>1. N \in Nat /\ DOMAIN t = 1..N /\ t \in Seq(S)
    BY <1>3, <1>5
  <2>2. /\ u \in Seq(S) /\ Len(u) = 2 + N
        /\ \A i \in 1..(2 + N) : u[i] = IF i <= 2 THEN line[i] ELSE t[i - 2]
    <3>1. /\ u \in Seq(S) /\ Len(u) = Len(line) + Len(t)
          /\ \A i \in 1..(Len(line) + Len(t)) : u[i] = IF i <= Len(line) THEN line[i] ELSE t[i - Len(line)]
      BY <1>1, <2>1, ConcatProperties
    <3> QED BY <1>1, <3>1
  <2>3. DOMAIN u = 1..(2 + N)
    BY <2>1, <2>2
  <2> HIDE DEF u, N
  <2>4. \A i \in 1..N : t[i] \in White
    BY <1>7, <2>1 DEF Ink
  <2>5. 1 \in 1..(2 + N) /\ 2 \in 1..(2 + N)
    BY <2>1
  <2>6. u[1] = Line /\ u[2] = "newline"
    BY <1>1, <2>2, <2>5
  <2>7. ASSUME NEW i \in 1..(2 + N), i # 1 PROVE u[i] \in White
    <3>1. CASE i = 2
      BY <1>2, <2>6, <3>1
    <3>2. CASE i # 2
      <4>1. ~(i <= 2) /\ i - 2 \in 1..N
        BY <2>1, <2>7, <3>2
      <4> QED BY <2>2, <2>4, <4>1
    <3> QED BY <3>1, <3>2
  <2>8. Ink(u) = {1}
    BY <1>2, <2>3, <2>5, <2>6, <2>7 DEF Ink
  <2> QED BY <2>6, <2>8 DEF u
<1> QED BY <1>6, <1>7 DEF line

\* Which text of a reply reaches the request when a client sends the reply back.
LEMMA TextComesBack ==
    ASSUME NEW t \in Seq(Char), NEW told \in {t, LineText \o t}, NEW how \in {"exact", "trimmed"}
    PROVE  LET text == Sanitized(Echoed(told, how)) IN
           /\ text \in Seq(Shown)
           /\ how = "exact" => text = t
           /\ ~(how = "trimmed" /\ Ink(told) = {1} /\ told[1] = Line) => Strip(text) = Strip(t)
<1>1. t \in Seq(Shown) /\ LineText \in Seq(Shown)
  BY DEF Shown, LineText
<1>2. Sanitized(t) = t /\ Sanitized(LineText \o t) = t
  BY LineStripped DEF LineText
<1>3. Strip(t) \in Seq(Char) /\ Strip(Strip(t)) = Strip(t)
  <2> DEFINE C == Char
  <2>1. t \in Seq(C)
    OBVIOUS
  <2> HIDE DEF C
  <2>2. Strip(t) \in Seq(C) /\ Strip(Strip(t)) = Strip(t)
    BY <2>1, StripFacts
  <2> QED BY <2>2 DEF C
<1>4. Sanitized(Strip(t)) = Strip(t)
  BY <1>3, LineStripped
<1>5. told \in Seq(Shown)
  <2> DEFINE S == Shown
             line == LineText
  <2>1. t \in Seq(S) /\ line \in Seq(S) /\ told \in {t, line \o t}
    BY <1>1
  <2> HIDE DEF S, line
  <2>2. line \o t \in Seq(S)
    BY <2>1, ConcatProperties
  <2>3. told \in Seq(S)
    BY <2>1, <2>2
  <2> QED BY <2>3 DEF S
<1>6. Sanitized(Echoed(told, how)) \in Seq(Shown)
  <2> DEFINE S == Shown
  <2>1. told \in Seq(S)
    BY <1>5
  <2> HIDE DEF S
  <2>2. Strip(told) \in Seq(S)
    BY <2>1, StripFacts
  <2>3. Echoed(told, how) \in Seq(S)
    BY <2>1, <2>2 DEF Echoed
  <2>4. Sanitized(Echoed(told, how)) \in Seq(S)
    BY <2>3, SanitizedType
  <2> QED BY <2>4 DEF S
<1>7. CASE how = "exact"
  BY <1>2, <1>6, <1>7 DEF Echoed
<1>8. CASE how = "trimmed" /\ told = t
  BY <1>3, <1>4, <1>6, <1>8 DEF Echoed
<1>9. CASE how = "trimmed" /\ told = LineText \o t
  <2>1. Ink(t) = {} => Ink(told) = {1} /\ told[1] = Line
    BY <1>9, LineTrimmed
  <2>2. Ink(t) # {} => Strip(Sanitized(Strip(told))) = Strip(t)
    BY <1>9, LineTrimmed
  <2> QED BY <1>6, <1>9, <2>1, <2>2 DEF Echoed
<1> QED BY <1>7, <1>8, <1>9

-----------------------------------------------------------------------------
(* Blocks as a client may send them back. *)

\* Blocks that may hold a text of the client, and its calls.
Wide == [kind : Kinds, id : Id, data : Seq(Shown)]
WideMade == [id : Id, input : Seq(Shown)]

\* What such a block adds to the text, to the calls, to what is written, to the
\* visible blocks and to those that are not text.
WideText == [b \in Wide |-> IF b.kind = "text" THEN b.data ELSE <<>>]
WideCall == [b \in Wide |-> IF b.kind = "tool" THEN <<[id |-> b.id, input |-> b.data]>> ELSE <<>>]
WideInk  == [b \in Wide |-> IF b.kind = "text" THEN Written(b.data) ELSE <<>>]
Shows    == [b \in Wide |-> IF b.kind = "text" /\ Ink(b.data) = {} THEN <<>> ELSE <<b>>]
Bare     == [b \in Wide |-> IF b.kind = "text" THEN <<>> ELSE <<b>>]

\* What Claude produced is of that kind.
LEMMA ContentIsWide == Content \subseteq Wide /\ \A list \in Seq(Content) : list \in Seq(Wide)
<1>1. ASSUME NEW b \in Content PROVE b \in Wide
  <2>1. b.data \in Seq(Char)
    BY DEF Content
  <2>2. b.data \in Seq(Shown)
    <3> DEFINE d == b.data
               C == Char
               S == Shown
    <3>1. d \in Seq(C) /\ C \subseteq S
      BY <2>1 DEF Shown
    <3> HIDE DEF d, C, S
    <3>2. d \in Seq(S)
      BY <3>1
    <3> QED BY <3>2 DEF d, S
  <2>3. b = [kind |-> b.kind, id |-> b.id, data |-> b.data] /\ b.kind \in Kinds /\ b.id \in Id
    BY DEF Content
  <2> HIDE DEF Shown, Kinds, Id
  <2> QED BY <2>2, <2>3 DEF Wide
<1>2. Content \subseteq Wide
  BY <1>1
<1> DEFINE C == Content
           W == Wide
<1>3. C \subseteq W
  BY <1>2
<1> HIDE DEF C, W
<1>4. \A list \in Seq(C) : list \in Seq(W)
  BY <1>3
<1> QED BY <1>2, <1>4 DEF C, W

\* The types of these parts.
LEMMA WidePartTypes ==
    /\ Gathers(WideText, Wide, Shown) /\ Gathers(WideCall, Wide, WideMade)
    /\ Gathers(WideInk, Wide, Shown) /\ Gathers(Shows, Wide, Wide) /\ Gathers(Bare, Wide, Wide)
<1> SUFFICES ASSUME NEW b \in Wide
             PROVE  /\ (IF b.kind = "text" THEN b.data ELSE <<>>) \in Seq(Shown)
                    /\ (IF b.kind = "tool" THEN <<[id |-> b.id, input |-> b.data]>> ELSE <<>>) \in Seq(WideMade)
                    /\ (IF b.kind = "text" THEN Written(b.data) ELSE <<>>) \in Seq(Shown)
                    /\ (IF b.kind = "text" /\ Ink(b.data) = {} THEN <<>> ELSE <<b>>) \in Seq(Wide)
                    /\ (IF b.kind = "text" THEN <<>> ELSE <<b>>) \in Seq(Wide)
  BY DEF WideText, WideCall, WideInk, Shows, Bare, Gathers
<1>1. b.id \in Id /\ b.data \in Seq(Shown)
  BY DEF Wide
<1>2. [id |-> b.id, input |-> b.data] \in WideMade
  BY <1>1 DEF WideMade
<1>3. Written(b.data) \in Seq(Shown)
  BY <1>1, WrittenIs
<1> HIDE DEF Id, WideMade, Wide, Shown
<1>4. <<>> \in Seq(Shown) /\ <<>> \in Seq(WideMade) /\ <<>> \in Seq(Wide)
  OBVIOUS
<1>5. <<[id |-> b.id, input |-> b.data]>> \in Seq(WideMade) /\ <<b>> \in Seq(Wide)
  BY <1>2
<1> QED BY <1>1, <1>3, <1>4, <1>5

\* These, too, are gathered from the blocks.
LEMMA WideParts ==
    ASSUME NEW list \in Seq(Wide)
    PROVE  /\ TextOf(list) = Total(WideText, list) /\ CallsOf(list) = Total(WideCall, list)
           /\ Visible(list) = Total(Shows, list) /\ Unwritten(list) = Total(Bare, list)
<1>1. \A i \in DOMAIN list : list[i] \in Wide
  <2> HIDE DEF Wide
  <2> QED OBVIOUS
<1>2. \A i \in DOMAIN list : WideText[list[i]] = IF list[i].kind = "text" THEN list[i].data ELSE <<>>
  BY <1>1 DEF WideText
<1>3. \A i \in DOMAIN list : WideCall[list[i]] = IF list[i].kind = "tool"
                                                 THEN <<[id |-> list[i].id, input |-> list[i].data]>> ELSE <<>>
  BY <1>1 DEF WideCall
<1>4. \A i \in DOMAIN list : Shows[list[i]] = IF list[i].kind = "text" /\ Ink(list[i].data) = {}
                                              THEN <<>> ELSE <<list[i]>>
  BY <1>1 DEF Shows
<1>5. \A i \in DOMAIN list : Bare[list[i]] = IF list[i].kind = "text" THEN <<>> ELSE <<list[i]>>
  BY <1>1 DEF Bare
<1>6. TextOf(list) = Total(WideText, list)
  BY <1>2 DEF TextOf, Total
<1>7. CallsOf(list) = Total(WideCall, list)
  BY <1>3 DEF CallsOf, Total
<1>8. Visible(list) = Total(Shows, list)
  BY <1>4 DEF Visible, Total
<1>9. Unwritten(list) = Total(Bare, list)
  BY <1>5 DEF Unwritten, Total
<1> QED BY <1>6, <1>7, <1>8, <1>9

\* What a block of white space has no part in is gathered from the visible blocks.
LEMMA VisibleEnough ==
    ASSUME NEW S, NEW f, Gathers(f, Wide, S), NEW list \in Seq(Wide),
           \A b \in Wide : b.kind = "text" /\ Ink(b.data) = {} => f[b] = <<>>
    PROVE  Visible(list) \in Seq(Wide) /\ Total(f, Visible(list)) = Total(f, list)
<1> DEFINE W == Wide
           g == Shows
<1>1. Gathers(g, W, W) /\ Gathers(f, W, S) /\ list \in Seq(W) /\ Visible(list) = Total(g, list)
  BY WidePartTypes, WideParts
<1>2. ASSUME NEW b \in W PROVE f[b] = Total(f, g[b])
  <2>1. CASE b.kind = "text" /\ Ink(b.data) = {}
    <3>1. g[b] = <<>> /\ f[b] = <<>>
      BY <2>1 DEF Shows
    <3> QED BY <3>1, TotalEmpty
  <2>2. CASE ~(b.kind = "text" /\ Ink(b.data) = {})
    <3>1. g[b] = <<b>>
      BY <2>2 DEF Shows
    <3> HIDE DEF W, g
    <3>2. Total(f, <<b>>) = f[b]
      BY <1>1, TotalOne
    <3> QED BY <3>1, <3>2
  <2> QED BY <2>1, <2>2
<1> HIDE DEF W, g
<1>3. Total(g, list) \in Seq(W)
  BY <1>1, TotalType
<1>4. Total(f, Total(g, list)) = Total(f, list)
  <2>1. Through(W, f, g, f)
    BY <1>2 DEF Through
  <2>2. Gathers(g, W, W)
    BY <1>1
  <2>3. Gathers(f, W, S)
    BY <1>1
  <2>4. list \in Seq(W)
    BY <1>1
  <2> QED BY <2>1, <2>2, <2>3, <2>4, TotalThrough
<1> QED BY <1>1, <1>3, <1>4 DEF W

\* What becomes of blocks of white space changes nothing that the properties tell apart.
LEMMA VisibleSame ==
    ASSUME NEW list \in Seq(Wide)
    PROVE  /\ Visible(list) \in Seq(Wide) /\ CallsOf(Visible(list)) = CallsOf(list)
           /\ Unwritten(Visible(list)) = Unwritten(list)
           /\ Written(TextOf(Visible(list))) = Written(TextOf(list))
<1> DEFINE W == Wide
           v == Visible(list)
<1>1. ASSUME NEW l \in Seq(W) PROVE Written(TextOf(l)) = Total(WideInk, l)
  <2> DEFINE S == Shown
             g == WideText
             f == Inked
             h == WideInk
  <2>1. l \in Seq(W)
    OBVIOUS
  <2>2. Gathers(g, W, S)
    BY WidePartTypes
  <2>3. Gathers(f, S, S)
    BY WrittenIs
  <2>4. Gathers(h, W, S)
    BY WidePartTypes
  <2>5. ASSUME NEW b \in W PROVE h[b] = Total(f, g[b])
    <3>1. CASE b.kind = "text"
      <4>1. b.data \in Seq(Shown)
        BY DEF Wide
      <4>2. g[b] = b.data /\ h[b] = Written(b.data)
        BY <3>1 DEF WideText, WideInk
      <4> QED BY <4>1, <4>2, WrittenIs
    <3>2. CASE b.kind # "text"
      <4>1. g[b] = <<>> /\ h[b] = <<>>
        BY <3>2 DEF WideText, WideInk
      <4> QED BY <4>1, TotalEmpty
    <3> QED BY <3>1, <3>2
  <2>6. TextOf(l) = Total(g, l)
    BY WideParts
  <2>7. \A x \in Seq(S) : Written(x) = Total(f, x)
    BY WrittenIs
  <2> HIDE DEF S, g, f, h, W
  <2>8. Total(f, Total(g, l)) = Total(h, l)
    <3>1. Through(W, f, g, h)
      BY <2>5 DEF Through
    <3> QED BY <2>1, <2>2, <2>3, <2>4, <3>1, TotalThrough
  <2>9. Total(g, l) \in Seq(S)
    BY <2>1, <2>2, TotalType
  <2> QED BY <2>6, <2>7, <2>8, <2>9 DEF h
<1>2. \A b \in Wide : b.kind = "text" /\ Ink(b.data) = {} =>
         WideCall[b] = <<>> /\ Bare[b] = <<>> /\ WideInk[b] = <<>>
  <2> SUFFICES ASSUME NEW b \in Wide, b.kind = "text", Ink(b.data) = {}
               PROVE  WideCall[b] = <<>> /\ Bare[b] = <<>> /\ WideInk[b] = <<>>
    OBVIOUS
  <2>1. b.data \in Seq(Shown)
    BY DEF Wide
  <2>2. Written(b.data) = <<>>
    BY <2>1, WrittenBlank
  <2>3. WideCall[b] = <<>>
    BY DEF WideCall
  <2>4. Bare[b] = <<>>
    BY DEF Bare
  <2>5. WideInk[b] = <<>>
    BY <2>2 DEF WideInk
  <2> QED BY <2>3, <2>4, <2>5
<1>3. v \in Seq(Wide) /\ Total(WideCall, v) = Total(WideCall, list)
  <2> DEFINE f == WideCall
             S == WideMade
  <2>1. Gathers(f, Wide, S) /\ \A b \in Wide : b.kind = "text" /\ Ink(b.data) = {} => f[b] = <<>>
    BY <1>2, WidePartTypes
  <2> HIDE DEF f, S
  <2>2. v \in Seq(Wide) /\ Total(f, v) = Total(f, list)
    BY <2>1, VisibleEnough
  <2> QED BY <2>2 DEF f
<1>4. Total(Bare, v) = Total(Bare, list)
  <2> DEFINE f == Bare
             S == Wide
  <2>1. Gathers(f, Wide, S) /\ \A b \in Wide : b.kind = "text" /\ Ink(b.data) = {} => f[b] = <<>>
    BY <1>2, WidePartTypes
  <2> HIDE DEF f, S
  <2>2. Total(f, v) = Total(f, list)
    BY <2>1, VisibleEnough
  <2> QED BY <2>2 DEF f
<1>5. Total(WideInk, v) = Total(WideInk, list)
  <2> DEFINE f == WideInk
             S == Shown
  <2>1. Gathers(f, Wide, S) /\ \A b \in Wide : b.kind = "text" /\ Ink(b.data) = {} => f[b] = <<>>
    BY <1>2, WidePartTypes
  <2> HIDE DEF f, S
  <2>2. Total(f, v) = Total(f, list)
    BY <2>1, VisibleEnough
  <2> QED BY <2>2 DEF f
<1>6. Written(TextOf(v)) = Written(TextOf(list))
  BY <1>1, <1>3, <1>5
<1>7. CallsOf(v) = CallsOf(list) /\ Unwritten(v) = Unwritten(list)
  <2> HIDE DEF v
  <2> QED BY <1>3, <1>4, WideParts
<1> QED BY <1>3, <1>6, <1>7

-----------------------------------------------------------------------------
(* Pieces of a text. *)

\* Where one element alone has a part, this is what is gathered.
LEMMA TotalOnly ==
    ASSUME NEW B, NEW S, NEW f, Gathers(f, B, S), NEW list \in Seq(B), NEW k \in DOMAIN list,
           \A i \in DOMAIN list : i # k => f[list[i]] = <<>>
    PROVE  Total(f, list) = f[list[k]]
<1> DEFINE alone(r, n) == n \in DOMAIN r /\ \A i \in DOMAIN r : i # n => f[r[i]] = <<>>
           Good == {r \in Seq(B) : \A n \in DOMAIN r : alone(r, n) => Total(f, r) = f[r[n]]}
<1>1. <<>> \in Good
  OBVIOUS
<1>2. ASSUME NEW r \in Good, NEW b \in B PROVE Append(r, b) \in Good
  <2> DEFINE s == Append(r, b)
             m == Len(r)
  <2>1. r \in Seq(B)
    OBVIOUS
  <2>2. /\ m \in Nat /\ DOMAIN r = 1..m /\ DOMAIN s = 1..(m + 1) /\ s \in Seq(B)
        /\ s[m + 1] = b /\ \A i \in 1..m : s[i] = r[i] /\ r[i] \in B
    <3> HIDE DEF Good, alone
    <3> QED BY <2>1, AppendProperties
  <2>3. Total(f, s) = Total(f, r) \o f[b]
    <3> HIDE DEF Good, alone
    <3> QED BY <2>1, TotalGrows
  <2>4. ASSUME NEW n \in DOMAIN s, alone(s, n) PROVE Total(f, s) = f[s[n]]
    <3> DEFINE p == f[b]
    <3>1. p \in Seq(S)
      BY GathersPart
    <3> HIDE DEF s, m
    <3>2. CASE n = m + 1
      <4>1. \A i \in DOMAIN r : f[r[i]] = <<>>
        <5> SUFFICES ASSUME NEW i \in 1..m PROVE f[r[i]] = <<>>
          BY <2>2
        <5>1. i \in DOMAIN s /\ i # n /\ s[i] = r[i]
          BY <2>2, <3>2
        <5> QED BY <2>4, <5>1
      <4>2. Total(f, r) = <<>>
        <5> HIDE DEF Good, alone
        <5> QED BY <2>1, <4>1, TotalNone
      <4> HIDE DEF p
      <4>3. <<>> \o p = p
        BY <3>1, ConcatEmptySeq
      <4>4. s[n] = b
        BY <2>2, <3>2
      <4> QED BY <2>3, <4>2, <4>3, <4>4 DEF p
    <3>3. CASE n # m + 1
      <4>1. n \in DOMAIN r /\ s[n] = r[n] /\ m + 1 \in DOMAIN s
        BY <2>2, <3>3
      <4>2. p = <<>>
        BY <2>2, <2>4, <3>3, <4>1
      <4>3. alone(r, n)
        <5>1. \A i \in DOMAIN r : i \in DOMAIN s /\ s[i] = r[i]
          BY <2>2
        <5> QED BY <2>4, <4>1, <5>1
      <4>4. Total(f, r) = f[r[n]]
        BY <4>1, <4>3
      <4> DEFINE x == f[r[n]]
      <4>5. x \in Seq(S)
        BY <2>2, <4>1, GathersPart
      <4> HIDE DEF x, p, alone, Good
      <4>6. x \o <<>> = x
        BY <4>5, ConcatEmptySeq
      <4> QED BY <2>3, <4>1, <4>2, <4>4, <4>6 DEF x, p
    <3> QED BY <3>2, <3>3
  <2> HIDE DEF s, alone
  <2>5. s \in Good
    BY <2>2, <2>4
  <2> QED BY <2>5 DEF s
<1>3. list \in Good
  <2> HIDE DEF Good
  <2>1. Good \in SUBSET Seq(B)
    BY DEF Good
  <2> QED BY <1>1, <1>2, <2>1, AllLists
<1>4. alone(list, k)
  OBVIOUS
<1> HIDE DEF alone
<1> QED BY <1>3, <1>4

-----------------------------------------------------------------------------
(* Slots. *)

\* A part lies in the whole between the sums before and after it.
LEMMA PartInPlace ==
    ASSUME NEW S, NEW s \in Seq(Seq(S)), NEW u \in [0..Len(s) -> Seq(S)], Sums(u, s), NEW i \in 1..Len(s)
    PROVE  SubSeq(u[Len(s)], Len(u[i - 1]) + 1, Len(u[i])) = s[i]
<1> DEFINE N == Len(s)
           l(n) == Len(u[n])
<1>1. N \in Nat /\ (\A n \in 1..N : s[n] \in Seq(S)) /\ i \in 1..N
  OBVIOUS
<1>2. \A n \in 0..N : u[n] \in Seq(S)
  OBVIOUS
<1>3. u[0] = <<>> /\ \A n \in 1..N : u[n] = u[n - 1] \o s[n]
  BY DEF Sums
<1> HIDE DEF N
<1>4. \A n \in 0..N : l(n) \in Nat
  BY <1>2
<1>5. ASSUME NEW n \in 1..N
      PROVE  /\ n - 1 \in 0..N /\ n \in 0..N /\ l(n) = l(n - 1) + Len(s[n]) /\ Len(s[n]) \in Nat
             /\ \A k \in 1..(l(n - 1) + Len(s[n])) :
                   u[n][k] = IF k <= l(n - 1) THEN u[n - 1][k] ELSE s[n][k - l(n - 1)]
  <2> DEFINE a == u[n - 1]
             b == s[n]
  <2>1. n - 1 \in 0..N /\ n \in 0..N
    BY <1>1
  <2>2. a \in Seq(S) /\ b \in Seq(S) /\ u[n] = a \o b
    BY <1>1, <1>2, <1>3, <2>1
  <2> HIDE DEF a, b
  <2>3. /\ Len(a \o b) = Len(a) + Len(b) /\ Len(b) \in Nat
        /\ \A k \in 1..(Len(a) + Len(b)) : (a \o b)[k] = IF k <= Len(a) THEN a[k] ELSE b[k - Len(a)]
    BY <2>2, ConcatProperties
  <2> QED BY <2>1, <2>2, <2>3 DEF a, b
<1> DEFINE Before(n) == l(i) <= l(n) /\ \A k \in 1..l(i) : u[n][k] = u[i][k]
           Bad == {n \in Nat : i <= n /\ n <= N /\ ~Before(n)}
<1>6. Bad = {}
  <2> SUFFICES ASSUME Bad # {} PROVE FALSE
    OBVIOUS
  <2>1. PICK n \in Bad : \A m \in Bad : n <= m
    <3> HIDE DEF Before
    <3> QED BY LeastIsThere
  <2>2. l(i) \in Nat /\ i \in 0..N /\ i \in 1..N
    BY <1>1, <1>4
  <2>3. n # i
    BY <2>1, <2>2
  <2>4. n \in 1..N /\ n - 1 \in Nat /\ i <= n - 1 /\ n - 1 <= N /\ ~(n <= n - 1) /\ n - 1 \in 0..N /\ n \in 0..N
    BY <1>1, <2>1, <2>3
  <2>5. Before(n - 1)
    <3> HIDE DEF Before
    <3> QED BY <2>1, <2>4
  <2>6. /\ l(n) = l(n - 1) + Len(s[n]) /\ Len(s[n]) \in Nat /\ l(n - 1) \in Nat
        /\ \A k \in 1..(l(n - 1) + Len(s[n])) :
              u[n][k] = IF k <= l(n - 1) THEN u[n - 1][k] ELSE s[n][k - l(n - 1)]
    BY <1>4, <1>5, <2>4
  <2>7. Before(n)
    <3> DEFINE x == l(n - 1)
               y == Len(s[n])
               z == l(i)
               old == u[n - 1]
    <3>1. z <= x /\ \A k \in 1..z : old[k] = u[i][k]
      BY <2>5
    <3>2. l(n) = x + y /\ y \in Nat /\ x \in Nat /\ \A k \in 1..(x + y) : k <= x => u[n][k] = old[k]
      BY <2>6
    <3> HIDE DEF x, y, old, z
    <3>3. z \in Nat
      BY <2>2 DEF z
    <3>4. \A k \in 1..z : k \in 1..(x + y) /\ k <= x
      BY <3>1, <3>2, <3>3
    <3>5. z <= l(n) /\ \A k \in 1..z : u[n][k] = u[i][k]
      BY <3>1, <3>2, <3>3, <3>4
    <3> QED BY <3>5 DEF z
  <2> QED BY <2>1, <2>7
<1>7. Before(N)
  <2>1. N \in Nat /\ i <= N /\ N <= N
    BY <1>1
  <2>2. N \notin Bad
    BY <1>6
  <2> HIDE DEF Before
  <2> QED BY <2>1, <2>2
<1> DEFINE whole == u[N]
           from == l(i - 1)
           part == s[i]
           to == l(i)
<1>8. /\ from \in Nat /\ to = from + Len(part) /\ Len(part) \in Nat /\ part \in Seq(S) /\ whole \in Seq(S)
      /\ \A k \in 1..(from + Len(part)) : u[i][k] = IF k <= from THEN u[i - 1][k] ELSE part[k - from]
  <2>1. i \in 1..N /\ i - 1 \in 0..N /\ N \in 0..N
    BY <1>1
  <2> QED BY <1>1, <1>2, <1>4, <1>5, <2>1
<1>9. to <= Len(whole) /\ \A k \in 1..to : whole[k] = u[i][k]
  BY <1>7
<1> HIDE DEF whole, from, part, to, Before, Bad, l
<1>10. SubSeq(whole, from + 1, to) = part
  <2> DEFINE f1 == from + 1
             v == SubSeq(whole, f1, to)
             n == Len(part)
  <2>1. n \in Nat /\ to = from + n /\ f1 \in Int /\ to \in Int /\ Len(whole) \in Nat /\ to - f1 + 1 = n
    BY <1>8
  <2>2. \A k \in f1..to : whole[k] \in S
    <3>1. \A k \in f1..to : k \in 1..Len(whole)
      BY <1>8, <1>9, <2>1
    <3> QED BY <1>8, <3>1
  <2> HIDE DEF f1, v, n
  <2>3. /\ SubSeq(whole, f1, to) \in Seq(S) /\ Len(SubSeq(whole, f1, to)) = IF f1 <= to THEN to - f1 + 1 ELSE 0
        /\ \A k \in 1..(to - f1 + 1) : SubSeq(whole, f1, to)[k] = whole[f1 + k - 1]
    BY <2>1, <2>2, SubSeqProperties, SMTT(30)
  <2>4. v \in Seq(S) /\ Len(v) = n /\ \A k \in 1..n : v[k] = whole[f1 + k - 1]
    <3>1. (IF f1 <= to THEN to - f1 + 1 ELSE 0) = n
      BY <1>8, <2>1 DEF f1
    <3> QED BY <2>1, <2>3, <3>1 DEF v
  <2>5. \A k \in 1..n : v[k] = part[k]
    <3> SUFFICES ASSUME NEW k \in 1..n PROVE v[k] = part[k]
      OBVIOUS
    <3>1. /\ f1 + k - 1 = from + k /\ from + k \in 1..to /\ from + k \in 1..(from + n)
          /\ ~(from + k <= from) /\ (from + k) - from = k
      BY <1>8, <2>1 DEF f1
    <3>2. v[k] = whole[from + k]
      BY <2>4, <3>1
    <3>3. u[i][from + k] = part[k]
      BY <1>8, <3>1 DEF n
    <3> QED BY <1>9, <3>1, <3>2, <3>3
  <2>6. Len(part) = n
    BY DEF n
  <2>7. v = part
    BY <1>8, <2>4, <2>5, <2>6, SeqEqual
  <2> QED BY <2>7 DEF v, f1
<1> QED BY <1>10 DEF whole, from, part, to, N, l

\* The slots of a layout.
LEMMA SlotsAre ==
    ASSUME NEW list
    PROVE  /\ Layout(list).slots = [k \in DOMAIN list |-> Slot(list[k])]
           /\ Layout(list).ids = IdsOf(list) /\ Layout(list).text = TextOf(list)
BY DEF Layout

\* An unchanged text is cut into the pieces that it was put together from.
LEMMA PieceExact ==
    ASSUME NEW list \in Seq(Content), NEW i \in DOMAIN list
    PROVE  Piece(Layout(list).slots, i, TextOf(list), TRUE) = TextPart[list[i]]
<1> DEFINE N == Len(list)
           C == Char
           p == [k \in DOMAIN list |-> TextPart[list[k]]]
           slots == Layout(list).slots
<1>1. N \in Nat /\ DOMAIN list = 1..N /\ i \in 1..N /\ \A k \in 1..N : list[k] \in Content
  <2> HIDE DEF Content
  <2> QED OBVIOUS
<1>2. \A k \in 1..N : TextPart[list[k]] \in Seq(C)
  <2> SUFFICES ASSUME NEW k \in 1..N PROVE TextPart[list[k]] \in Seq(C)
    OBVIOUS
  <2> DEFINE f == TextPart
             B == Content
  <2>1. Gathers(f, B, C) /\ list[k] \in B
    BY <1>1, PartTypes
  <2> HIDE DEF f, B, C
  <2>2. f[list[k]] \in Seq(C)
    BY <2>1, GathersPart
  <2> QED BY <2>2 DEF f
<1>3. \A k \in 1..N : slots[k].length = Len(TextPart[list[k]])
  <2> SUFFICES ASSUME NEW k \in 1..N PROVE slots[k].length = Len(TextPart[list[k]])
    OBVIOUS
  <2> DEFINE b == list[k]
  <2>1. b \in Content /\ slots[k] = Slot(b)
    BY <1>1, SlotsAre
  <2> HIDE DEF b
  <2>2. Slot(b).length = IF b.kind = "text" THEN Len(b.data) ELSE 0
    BY DEF Slot
  <2>3. TextPart[b] = IF b.kind = "text" THEN b.data ELSE <<>>
    BY <2>1 DEF TextPart
  <2>4. Slot(b).length = Len(TextPart[b])
    BY <2>2, <2>3
  <2> QED BY <2>1, <2>4 DEF b
<1>4. TextOf(list) = Concat(p)
  BY ListParts DEF Total
<1> HIDE DEF N, slots
<1>5. p \in Seq(Seq(C)) /\ Len(p) = N /\ \A k \in 1..N : p[k] = TextPart[list[k]]
  <2> DEFINE V == Seq(C)
             q(k) == TextPart[list[k]]
  <2>1. p = [k \in 1..N |-> q(k)] /\ \A k \in 1..N : q(k) \in V
    BY <1>1, <1>2
  <2> HIDE DEF V, q, p
  <2>2. p \in Seq(V) /\ Len(p) = N /\ \A k \in 1..N : p[k] = q(k)
    BY <1>1, <2>1, IsASeq
  <2> QED BY <2>2 DEF V, q
<1> HIDE DEF p, C
<1>6. PICK u \in [0..N -> Seq(C)] : Sums(u, p) /\ Concat(p) = u[N]
  <2>1. \E u \in [0..Len(p) -> Seq(C)] : Sums(u, p) /\ Concat(p) = u[Len(p)]
    BY <1>5, ConcatSteps
  <2> QED BY <1>5, <2>1
<1>7. SubSeq(u[N], Len(u[i - 1]) + 1, Len(u[i])) = p[i]
  <2>1. u \in [0..Len(p) -> Seq(C)] /\ i \in 1..Len(p)
    BY <1>1, <1>5, <1>6
  <2>2. Sums(u, p)
    BY <1>6
  <2>3. p \in Seq(Seq(C))
    BY <1>5
  <2>4. SubSeq(u[Len(p)], Len(u[i - 1]) + 1, Len(u[i])) = p[i]
    BY <2>1, <2>2, <2>3, PartInPlace
  <2> QED BY <1>5, <2>4
<1> DEFINE l(k) == Len(u[k])
           step(x, k) == x + slots[k].length
           end == CHOOSE f : f = [k \in 0..i |-> IF k = 0 THEN 0 ELSE step(f[k - 1], k)]
<1>8. l(0) = 0 /\ \A k \in 1..i : l(k) = step(l(k - 1), k) /\ k - 1 \in 0..i
  <2>1. u[0] = <<>> /\ \A k \in 1..N : u[k] = u[k - 1] \o p[k]
    BY <1>5, <1>6 DEF Sums
  <2>2. ASSUME NEW k \in 1..i PROVE l(k) = step(l(k - 1), k) /\ k - 1 \in 0..i
    <3>1. k \in 1..N /\ k - 1 \in 0..N /\ k - 1 \in 0..i
      BY <1>1
    <3> DEFINE a == u[k - 1]
               b == p[k]
    <3>2. a \in Seq(C) /\ b \in Seq(C) /\ u[k] = a \o b /\ slots[k].length = Len(b)
      BY <1>2, <1>3, <1>5, <2>1, <3>1
    <3> HIDE DEF a, b
    <3>3. Len(a \o b) = Len(a) + Len(b)
      BY <3>2, ConcatProperties
    <3> QED BY <3>1, <3>2, <3>3 DEF a, b
  <2> QED BY <2>1, <2>2
<1> HIDE DEF l, step
<1>9. [k \in 0..i |-> l(k)] = [k \in 0..i |-> IF k = 0 THEN 0 ELSE step(l(k - 1), k)]
  <2>1. \A k \in 0..i : k = 0 \/ k \in 1..i
    BY <1>1
  <2>2. \A k \in 0..i : l(k) = IF k = 0 THEN 0 ELSE step(l(k - 1), k)
    BY <1>8, <2>1
  <2> QED BY <2>2
<1>10. end = [k \in 0..i |-> IF k = 0 THEN 0 ELSE step(end[k - 1], k)]
  <2> DEFINE f == [k \in 0..i |-> l(k)]
  <2>1. \A k \in 0..i : f[k] = l(k)
    OBVIOUS
  <2>2. f = [k \in 0..i |-> f[k]]
    OBVIOUS
  <2> HIDE DEF f
  <2>3. \A k \in 0..i : f[k] = IF k = 0 THEN 0 ELSE step(f[k - 1], k)
    <3> SUFFICES ASSUME NEW k \in 0..i PROVE f[k] = IF k = 0 THEN 0 ELSE step(f[k - 1], k)
      OBVIOUS
    <3>1. k = 0 \/ k \in 1..i
      BY <1>1
    <3>2. k # 0 => f[k - 1] = l(k - 1)
      BY <1>8, <2>1, <3>1
    <3>3. f[k] = l(k)
      BY <2>1
    <3> QED BY <1>8, <3>1, <3>2, <3>3
  <2>4. f = [k \in 0..i |-> IF k = 0 THEN 0 ELSE step(f[k - 1], k)]
    BY <2>2, <2>3
  <2> QED BY <2>4
<1> HIDE DEF end
<1>11. \A k \in 0..i : end[k] = IF k = 0 THEN 0 ELSE step(end[k - 1], k)
  BY <1>10, Zenon
<1> DEFINE Bad == {k \in Nat : k <= i /\ end[k] # l(k)}
<1>12. Bad = {}
  <2> SUFFICES ASSUME Bad # {} PROVE FALSE
    OBVIOUS
  <2>1. PICK k \in Bad : \A m \in Bad : k <= m
    BY LeastIsThere
  <2>2. 0 \in 0..i /\ end[0] = 0
    <3>1. 0 \in 0..i
      BY <1>1
    <3> QED BY <1>11, <3>1
  <2>3. k # 0
    BY <1>8, <2>1, <2>2
  <2>4. k \in 1..i /\ k \in 0..i /\ k - 1 \in Nat /\ k - 1 <= i /\ ~(k <= k - 1)
    BY <1>1, <2>1, <2>3
  <2>5. end[k - 1] = l(k - 1)
    BY <2>1, <2>4
  <2>6. end[k] = step(end[k - 1], k)
    BY <1>11, <2>3, <2>4
  <2>7. end[k] = l(k)
    BY <1>8, <2>4, <2>5, <2>6
  <2> QED BY <2>1, <2>7
<1>13. end[i - 1] = Len(u[i - 1]) /\ end[i] = Len(u[i])
  <2>1. i - 1 \in Nat /\ i - 1 <= i /\ i \in Nat /\ i <= i
    BY <1>1
  <2>2. end[i - 1] = l(i - 1) /\ end[i] = l(i)
    BY <1>12, <2>1
  <2> QED BY <2>2 DEF l
<1>14. Piece(slots, i, TextOf(list), TRUE) = SubSeq(TextOf(list), end[i - 1] + 1, end[i])
  BY DEF Piece, end, step
<1>15. Piece(slots, i, TextOf(list), TRUE) = TextPart[list[i]]
  BY <1>1, <1>4, <1>5, <1>6, <1>7, <1>13, <1>14
<1> QED BY <1>15 DEF slots

-----------------------------------------------------------------------------
(* A layout, filled again. *)

\* A layout with its slots filled.
FilledIn(layout, text, calls) ==
    [i \in DOMAIN layout.slots |->
        Block(layout.slots[i].kind, layout.slots[i].id,
              CASE layout.slots[i].kind = "thinking" -> <<>>
                [] layout.slots[i].kind = "tool"     -> Call(calls, layout.slots[i].id).input
                [] layout.slots[i].kind = "text"     -> Piece(layout.slots, i, text, layout.text = text))]

\* Thinking is kept as one: its block has no text of its own.
Sealed(list) == \A i \in DOMAIN list : list[i].kind = "thinking" => list[i].data = <<>>

\* The calls have what the tool blocks of the list have.
Answers(calls, list) == \A i \in DOMAIN list : list[i].kind = "tool" => Call(calls, list[i].id).input = list[i].data

\* A layout is filled if the text is still the layout's, white space around it apart.
LEMMA RebuiltIs ==
    ASSUME NEW layout, NEW text, NEW calls
    PROVE  Rebuilt(layout, text, calls) =
              IF layout.text = text \/ Strip(layout.text) = Strip(text)
              THEN {Visible(FilledIn(layout, text, calls))} ELSE {}
BY DEF Rebuilt, FilledIn

\* Slot by slot.
LEMMA FilledIs ==
    ASSUME NEW list \in Seq(Content), Sealed(list), NEW calls, Answers(calls, list), NEW text \in Seq(Shown),
           NEW i \in DOMAIN list
    PROVE  LET F == FilledIn(Layout(list), text, calls) IN
           /\ DOMAIN F = DOMAIN list /\ F[i] \in Wide
           /\ F[i].kind = list[i].kind
           /\ list[i].kind # "text" => F[i] = list[i]
           /\ list[i].kind = "text" => F[i].data = Piece(Layout(list).slots, i, text, TextOf(list) = text)
           /\ TextOf(list) = text => F[i] = list[i]
<1> DEFINE F == FilledIn(Layout(list), text, calls)
           b == list[i]
           slots == Layout(list).slots
           piece == Piece(slots, i, text, TextOf(list) = text)
           data == CASE b.kind = "thinking" -> <<>>
                     [] b.kind = "tool"     -> Call(calls, b.id).input
                     [] b.kind = "text"     -> piece
<1>1. b \in Content /\ b \in Wide
  <2>1. b \in Content
    <3> HIDE DEF Content
    <3> QED OBVIOUS
  <2> QED BY <2>1, ContentIsWide
<1>2. b.kind \in Kinds /\ b = [kind |-> b.kind, id |-> b.id, data |-> b.data] /\ b.id \in Id
  BY <1>1 DEF Content
<1>3. slots = [k \in DOMAIN list |-> Slot(list[k])] /\ Layout(list).text = TextOf(list)
  BY SlotsAre
<1>4. slots[i].kind = b.kind /\ slots[i].id = b.id /\ DOMAIN slots = DOMAIN list
  BY <1>3 DEF Slot
<1>5. DOMAIN F = DOMAIN list /\ F[i] = Block(b.kind, b.id, data)
  <2>1. DOMAIN F = DOMAIN slots
    BY DEF FilledIn
  <2>2. F[i] = Block(slots[i].kind, slots[i].id,
                     CASE slots[i].kind = "thinking" -> <<>>
                       [] slots[i].kind = "tool"     -> Call(calls, slots[i].id).input
                       [] slots[i].kind = "text"     -> Piece(slots, i, text, Layout(list).text = text))
    BY <1>4 DEF FilledIn
  <2> QED BY <1>3, <1>4, <2>1, <2>2
<1> HIDE DEF F, slots, piece, b
<1>6. b.kind # "text" => data = b.data
  <2>1. CASE b.kind = "thinking"
    BY <2>1 DEF Sealed, b
  <2>2. CASE b.kind = "tool"
    BY <2>2 DEF Answers, b
  <2> QED BY <1>2, <2>1, <2>2 DEF Kinds
<1>7. b.kind = "text" => data = piece
  OBVIOUS
<1>8. b.kind = "text" /\ TextOf(list) = text => piece = b.data
  <2> SUFFICES ASSUME b.kind = "text", TextOf(list) = text PROVE piece = b.data
    OBVIOUS
  <2>1. (TextOf(list) = text) = TRUE
    OBVIOUS
  <2>2. piece = Piece(slots, i, TextOf(list), TRUE)
    BY <2>1 DEF piece
  <2>3. piece = TextPart[b]
    BY <2>2, PieceExact DEF slots, b
  <2> QED BY <1>1, <2>3 DEF TextPart
<1>9. data \in Seq(Shown)
  <2>1. CASE b.kind # "text"
    BY <1>1, <1>6, <2>1 DEF Wide
  <2>2. CASE b.kind = "text" /\ TextOf(list) = text
    BY <1>1, <1>7, <1>8, <2>2 DEF Wide
  <2>3. CASE b.kind = "text" /\ TextOf(list) # text
    <3>1. (TextOf(list) = text) = FALSE
      BY <2>3
    <3>2. piece = IF \E j \in 1..(i - 1) : slots[j].kind = "text" THEN <<>> ELSE Strip(text)
      BY <3>1 DEF piece, Piece
    <3> DEFINE S == Shown
    <3>3. text \in Seq(S)
      OBVIOUS
    <3> HIDE DEF S
    <3>4. Strip(text) \in Seq(S) /\ <<>> \in Seq(S)
      BY <3>3, StripFacts
    <3>5. piece \in Seq(S)
      BY <3>2, <3>4
    <3> QED BY <1>7, <2>3, <3>5 DEF S
  <2> QED BY <2>1, <2>2, <2>3
<1> HIDE DEF data
<1>10. F[i].kind = b.kind /\ F[i].data = data /\ F[i] = [kind |-> b.kind, id |-> b.id, data |-> data]
  BY <1>5 DEF Block
<1>11. F[i] \in Wide
  <2> HIDE DEF Kinds, Id, Shown
  <2> QED BY <1>2, <1>9, <1>10 DEF Wide
<1>12. b.kind # "text" => F[i] = b
  BY <1>2, <1>6, <1>10
<1>13. TextOf(list) = text => F[i] = b
  BY <1>2, <1>7, <1>8, <1>10, <1>12
<1>14. b.kind = "text" => F[i].data = piece
  BY <1>7, <1>10
<1> QED BY <1>5, <1>10, <1>11, <1>12, <1>13, <1>14 DEF F, b, piece, slots

\* With the text and the calls that the layout belongs to, nothing is lost, doubled or reordered.
LEMMA FilledInKeeps ==
    ASSUME NEW list \in Seq(Content), Sealed(list), NEW calls, Answers(calls, list), NEW text \in Seq(Shown),
           TextOf(list) = text \/ Strip(TextOf(list)) = Strip(text)
    PROVE  LET F == FilledIn(Layout(list), text, calls) IN
           /\ F \in Seq(Wide) /\ CallsOf(F) = CallsOf(list) /\ Unwritten(F) = Unwritten(list)
           /\ Written(TextOf(F)) = Written(text)
           /\ TextOf(list) = text => F = list
<1> DEFINE F == FilledIn(Layout(list), text, calls)
           N == Len(list)
<1>1. N \in Nat /\ DOMAIN list = 1..N /\ list \in Seq(Wide)
  BY ContentIsWide
<1> HIDE DEF N
<1>2. DOMAIN F = 1..N /\ F = [i \in 1..N |-> F[i]]
  <2>0. DOMAIN F = DOMAIN Layout(list).slots
    BY DEF FilledIn
  <2>1. F = [i \in DOMAIN F |-> F[i]]
    <3> DEFINE g(i) == Block(Layout(list).slots[i].kind, Layout(list).slots[i].id,
              CASE Layout(list).slots[i].kind = "thinking" -> <<>>
                [] Layout(list).slots[i].kind = "tool"     -> Call(calls, Layout(list).slots[i].id).input
                [] Layout(list).slots[i].kind = "text"     ->
                      Piece(Layout(list).slots, i, text, Layout(list).text = text))
               D == DOMAIN Layout(list).slots
    <3>1. F = [i \in D |-> g(i)]
      BY DEF FilledIn
    <3> HIDE DEF F, g, D
    <3> QED BY <3>1
  <2> HIDE DEF F
  <2>2. DOMAIN Layout(list).slots = DOMAIN list
    BY SlotsAre
  <2> QED BY <1>1, <2>0, <2>1, <2>2
<1>3. \A i \in 1..N : /\ F[i] \in Wide
                      /\ F[i].kind = list[i].kind
                      /\ list[i].kind # "text" => F[i] = list[i]
                      /\ list[i].kind = "text" =>
                            F[i].data = Piece(Layout(list).slots, i, text, TextOf(list) = text)
                      /\ TextOf(list) = text => F[i] = list[i]
  BY <1>1, FilledIs
<1> HIDE DEF F
<1>4. F \in Seq(Wide) /\ Len(F) = N
  <2> DEFINE W == Wide
  <2>1. \A i \in 1..N : F[i] \in W
    BY <1>3
  <2> HIDE DEF W
  <2>2. F \in Seq(W) /\ Len(F) = N
    BY <1>1, <1>2, <2>1, IsASeq
  <2> QED BY <2>2 DEF W
<1>5. CallsOf(F) = CallsOf(list) /\ Unwritten(F) = Unwritten(list)
  <2>1. \A i \in 1..N : WideCall[F[i]] = WideCall[list[i]] /\ Bare[F[i]] = Bare[list[i]]
    <3> SUFFICES ASSUME NEW i \in 1..N PROVE WideCall[F[i]] = WideCall[list[i]] /\ Bare[F[i]] = Bare[list[i]]
      OBVIOUS
    <3>1. F[i] \in Wide /\ list[i] \in Wide
      <4> DEFINE W == Wide
      <4>1. list \in Seq(W)
        BY <1>1
      <4> HIDE DEF W
      <4>2. list[i] \in W
        BY <1>1, <4>1
      <4> QED BY <1>3, <4>2 DEF W
    <3>2. CASE list[i].kind = "text"
      <4>1. F[i].kind = "text"
        BY <1>3, <3>2
      <4>2. WideCall[F[i]] = <<>> /\ WideCall[list[i]] = <<>>
        BY <3>1, <3>2, <4>1 DEF WideCall
      <4>3. Bare[F[i]] = <<>> /\ Bare[list[i]] = <<>>
        BY <3>1, <3>2, <4>1 DEF Bare
      <4> QED BY <4>2, <4>3
    <3>3. CASE list[i].kind # "text"
      BY <1>3, <3>3
    <3> QED BY <3>2, <3>3
  <2>2. [i \in DOMAIN F |-> WideCall[F[i]]] = [i \in DOMAIN list |-> WideCall[list[i]]]
    BY <1>1, <1>2, <2>1
  <2>3. [i \in DOMAIN F |-> Bare[F[i]]] = [i \in DOMAIN list |-> Bare[list[i]]]
    BY <1>1, <1>2, <2>1
  <2>4. Total(WideCall, F) = Total(WideCall, list) /\ Total(Bare, F) = Total(Bare, list)
    BY <2>2, <2>3 DEF Total
  <2> QED BY <1>1, <1>4, <2>4, WideParts
<1>6. TextOf(list) = text => F = list
  <2> SUFFICES ASSUME TextOf(list) = text PROVE F = list
    OBVIOUS
  <2>1. \A i \in 1..N : F[i] = list[i]
    BY <1>3
  <2>2. Len(list) = N
    BY DEF N
  <2>3. list = [i \in 1..N |-> list[i]]
    BY <1>1
  <2> QED BY <1>2, <2>1, <2>3
<1>7. Written(TextOf(F)) = Written(text)
  <2>1. CASE TextOf(list) = text
    BY <1>6, <2>1
  <2>2. CASE TextOf(list) # text
    <3> DEFINE f == WideText
               W == Wide
               S == Shown
               Some == {i \in Nat : i \in 1..N /\ list[i].kind = "text"}
    <3>1. Gathers(f, W, S) /\ F \in Seq(W) /\ list \in Seq(W) /\ TextOf(F) = Total(f, F) /\ TextOf(list) = Total(f, list)
      BY <1>1, <1>4, WidePartTypes, WideParts
    <3>2. \A i \in 1..N : F[i] \in Wide /\ list[i] \in Wide
      <4>1. \A i \in 1..N : list[i] \in W
        <5> HIDE DEF W
        <5> QED BY <1>1, <3>1
      <4> QED BY <1>3, <4>1
    <3>3. \A i \in 1..N : /\ list[i].kind # "text" => f[list[i]] = <<>> /\ f[F[i]] = <<>>
                          /\ list[i].kind = "text" => f[F[i]] = F[i].data
      BY <1>3, <3>2 DEF WideText
    <3>4. \A i \in 1..N : list[i].kind = "text" =>
             F[i].data = IF \E j \in 1..(i - 1) : list[j].kind = "text" THEN <<>> ELSE Strip(text)
      <4> SUFFICES ASSUME NEW i \in 1..N, list[i].kind = "text"
                   PROVE  F[i].data = IF \E j \in 1..(i - 1) : list[j].kind = "text" THEN <<>> ELSE Strip(text)
        OBVIOUS
      <4>1. (TextOf(list) = text) = FALSE
        BY <2>2
      <4>2. F[i].data = Piece(Layout(list).slots, i, text, FALSE)
        BY <1>3, <4>1
      <4> DEFINE slots == Layout(list).slots
      <4>3. \A j \in 1..(i - 1) : slots[j].kind = list[j].kind
        <5>1. \A j \in 1..(i - 1) : j \in DOMAIN list
          BY <1>1
        <5>2. \A j \in DOMAIN list : slots[j] = Slot(list[j])
          BY SlotsAre, ZenonT(30)
        <5> HIDE DEF slots
        <5>3. \A j \in DOMAIN list : Slot(list[j]).kind = list[j].kind
          BY DEF Slot
        <5>4. \A j \in DOMAIN list : slots[j].kind = list[j].kind
          <6> SUFFICES ASSUME NEW j \in DOMAIN list PROVE slots[j].kind = list[j].kind
            OBVIOUS
          <6>1. slots[j] = Slot(list[j])
            BY <5>2
          <6>2. Slot(list[j]).kind = list[j].kind
            BY <5>3
          <6> QED BY <6>1, <6>2
        <5> QED BY <5>1, <5>4
      <4> HIDE DEF slots
      <4>4. Piece(slots, i, text, FALSE) = IF \E j \in 1..(i - 1) : slots[j].kind = "text" THEN <<>> ELSE Strip(text)
        BY DEF Piece
      <4>5. Piece(slots, i, text, FALSE) = IF \E j \in 1..(i - 1) : list[j].kind = "text" THEN <<>> ELSE Strip(text)
        BY <4>3, <4>4
      <4> QED BY <4>2, <4>5 DEF slots
    <3> HIDE DEF f, W, S
    <3>5. CASE Some = {}
      <4>1. \A i \in 1..N : list[i].kind # "text"
        BY <1>1, <3>5
      <4>2. \A i \in DOMAIN list : f[list[i]] = <<>>
        BY <1>1, <3>3, <4>1
      <4>3. \A i \in DOMAIN F : f[F[i]] = <<>>
        BY <1>2, <3>3, <4>1
      <4> HIDE DEF Some
      <4>4. Total(f, list) = <<>>
        BY <3>1, <4>2, TotalNone
      <4>5. Total(f, F) = <<>>
        BY <3>1, <4>3, TotalNone
      <4>6. Strip(text) = <<>>
        <5>1. Ink(<<>>) = {}
          BY DEF Ink
        <5>2. Strip(<<>>) = <<>>
          BY <5>1 DEF Strip
        <5> QED BY <2>2, <3>1, <4>4, <5>2
      <4>7. Ink(text) = {}
        <5> DEFINE T == Shown
        <5>1. text \in Seq(T)
          OBVIOUS
        <5> HIDE DEF T
        <5> QED BY <4>6, <5>1, StripFacts
      <4>8. Written(text) = <<>>
        BY <4>7, WrittenBlank
      <4>9. Written(<<>>) = <<>>
        <5>1. <<>> \in Seq(Shown) /\ Ink(<<>>) = {}
          BY DEF Ink
        <5> QED BY <5>1, WrittenBlank
      <4> QED BY <3>1, <4>5, <4>8, <4>9
    <3>6. CASE Some # {}
      <4>1. Some \in SUBSET Nat
        OBVIOUS
      <4>2. PICK k \in Some : \A j \in Some : k <= j
        <5> HIDE DEF Some
        <5> QED BY <3>6, <4>1, LeastIsThere
      <4>3. k \in 1..N /\ list[k].kind = "text"
        BY <4>2
      <4>4. ~\E j \in 1..(k - 1) : list[j].kind = "text"
        <5> SUFFICES ASSUME NEW j \in 1..(k - 1), list[j].kind = "text" PROVE FALSE
          OBVIOUS
        <5>1. j \in Some /\ ~(k <= j)
          BY <1>1, <4>3
        <5> QED BY <4>2, <5>1
      <4>5. F[k].data = Strip(text)
        BY <3>4, <4>3, <4>4
      <4>6. \A i \in DOMAIN F : i # k => f[F[i]] = <<>>
        <5> SUFFICES ASSUME NEW i \in 1..N, i # k PROVE f[F[i]] = <<>>
          BY <1>2
        <5>1. CASE list[i].kind # "text"
          BY <3>3, <5>1
        <5>2. CASE list[i].kind = "text"
          <6>1. i \in Some
            BY <1>1, <5>2
          <6>2. k <= i
            BY <4>2, <6>1
          <6>3. k \in 1..(i - 1)
            BY <4>3, <6>2
          <6>4. F[i].data = <<>>
            BY <3>4, <4>3, <5>2, <6>3
          <6> QED BY <3>3, <5>2, <6>4
        <5> QED BY <5>1, <5>2
      <4>7. Total(f, F) = f[F[k]]
        <5>1. k \in DOMAIN F
          BY <1>2, <4>3
        <5>2. Gathers(f, W, S)
          BY <3>1
        <5>3. F \in Seq(W)
          BY <3>1
        <5> HIDE DEF Some
        <5> QED BY <4>6, <5>1, <5>2, <5>3, TotalOnly
      <4>8. TextOf(F) = Strip(text)
        BY <3>1, <3>3, <4>3, <4>5, <4>7
      <4> QED BY <4>8, WrittenStrip
    <3> QED BY <3>5, <3>6
  <2> QED BY <2>1, <2>2
<1> QED BY <1>4, <1>5, <1>6, <1>7 DEF F

-----------------------------------------------------------------------------
(* The calls of a reply. *)

\* The blocks of reply m: their identifiers, and thinking kept as one.
OfReply(m, list) ==
    /\ list \in Seq(Content) /\ Sealed(list)
    /\ \A i \in DOMAIN list : list[i].id = <<m, i>>

\* The identifier of a call.
IdAlone == [c \in Made |-> <<c.id>>]

\* The identifiers of the calls are those of the tool blocks.
LEMMA CallIds ==
    ASSUME NEW list \in Seq(Content)
    PROVE  /\ CallsOf(list) \in Seq(Made) /\ IdsOf(list) \in Seq(Id) /\ TextOf(list) \in Seq(Char)
           /\ [i \in DOMAIN CallsOf(list) |-> CallsOf(list)[i].id] = IdsOf(list)
<1> DEFINE A == Content
           B == Made
           S == Id
           f == IdAlone
           g == CallPart
           h == IdPart
           calls == CallsOf(list)
           w == [i \in DOMAIN calls |-> calls[i].id]
<1>1. Gathers(g, A, B)
  BY PartTypes
<1>2. Gathers(h, A, S)
  BY PartTypes
<1>3. \A c \in Made : c.id \in S /\ IdAlone[c] = <<c.id>>
  BY DEF Made, IdAlone
<1>4. Gathers(f, B, S)
  <2>1. \A c \in Made : c.id \in S
    BY <1>3
  <2> HIDE DEF S, B
  <2>2. \A c \in Made : <<c.id>> \in Seq(S)
    BY <2>1
  <2> QED BY <2>2 DEF Gathers, IdAlone, B
<1>5. calls = Total(g, list) /\ IdsOf(list) = Total(h, list) /\ TextOf(list) = Total(TextPart, list)
  BY ListParts
<1>6. \A b \in A : h[b] = Total(f, g[b])
  <2> SUFFICES ASSUME NEW b \in Content PROVE h[b] = Total(f, g[b])
    OBVIOUS
  <2>1. CASE b.kind = "tool"
    <3> DEFINE c == [id |-> b.id, input |-> b.data]
    <3>1. c \in B
      BY DEF Content, Made
    <3>2. g[b] = <<c>> /\ h[b] = <<b.id>>
      BY <2>1 DEF CallPart, IdPart
    <3>3. f[c] = <<b.id>>
      BY <3>1, <1>3
    <3> HIDE DEF B, S, f, g, h, c
    <3>4. Total(f, <<c>>) = f[c]
      BY <1>4, <3>1, TotalOne
    <3> QED BY <3>2, <3>3, <3>4
  <2>2. CASE b.kind # "tool"
    <3>1. g[b] = <<>> /\ h[b] = <<>>
      BY <2>2 DEF CallPart, IdPart
    <3>2. Total(f, <<>>) = <<>>
      BY TotalEmpty
    <3> QED BY <3>1, <3>2
  <2> QED BY <2>1, <2>2
<1>7. Through(A, f, g, h)
  BY <1>6 DEF Through
<1>8. list \in Seq(A)
  OBVIOUS
<1>9. TextOf(list) \in Seq(Char)
  <2>1. Gathers(TextPart, Content, Char)
    BY PartTypes
  <2> DEFINE C == Char
             k == TextPart
  <2>2. Gathers(k, A, C)
    BY <2>1
  <2> HIDE DEF A, C, k
  <2>3. Total(k, list) \in Seq(C)
    BY <1>8, <2>2, TotalType
  <2> QED BY <1>5, <2>3 DEF C, k
<1> HIDE DEF A, B, S, f, g, h
<1>10. calls \in Seq(B) /\ IdsOf(list) \in Seq(S)
  <2>1. Total(g, list) \in Seq(B)
    BY <1>1, <1>8, TotalType
  <2>2. Total(h, list) \in Seq(S)
    BY <1>2, <1>8, TotalType
  <2> QED BY <1>5, <2>1, <2>2
<1>11. Total(f, calls) = IdsOf(list)
  <2>1. Total(f, Total(g, list)) = Total(h, list)
    BY <1>1, <1>2, <1>4, <1>7, <1>8, TotalThrough
  <2> QED BY <1>5, <2>1
<1> HIDE DEF calls
<1>12. \A i \in DOMAIN calls : calls[i] \in B
  BY <1>10
<1>13. w \in Seq(S)
  <2>1. \A i \in DOMAIN calls : calls[i].id \in S
    BY <1>3, <1>12 DEF B
  <2>2. DOMAIN calls = 1..Len(calls) /\ Len(calls) \in Nat
    BY <1>10
  <2> QED BY <2>1, <2>2, IsASeq
<1>14. DOMAIN w = DOMAIN calls /\ \A i \in DOMAIN calls : w[i] = calls[i].id
  OBVIOUS
<1> HIDE DEF w
<1>15. [i \in DOMAIN w |-> <<w[i]>>] = [i \in DOMAIN calls |-> f[calls[i]]]
  <2>1. \A i \in DOMAIN calls : f[calls[i]] = <<calls[i].id>>
    BY <1>3, <1>12 DEF B, f
  <2>2. \A i \in DOMAIN calls : f[calls[i]] = <<w[i]>>
    BY <1>14, <2>1
  <2> QED BY <1>14, <2>2
<1>16. Concat([i \in DOMAIN w |-> <<w[i]>>]) = w
  BY <1>13, ConcatSingles
<1>17. w = IdsOf(list)
  BY <1>11, <1>15, <1>16 DEF Total
<1> QED BY <1>9, <1>10, <1>17 DEF w, calls, B, S

\* The identifiers say whose reply it is.
LEMMA WhoseIds ==
    ASSUME NEW m, NEW list, OfReply(m, list)
    PROVE  /\ IdsOf(list) # <<>> => \E i \in DOMAIN list : IdsOf(list)[1] = <<m, i>>
           /\ IdsOf(list) = <<>> => CallsOf(list) = <<>> /\ \A i \in DOMAIN list : list[i].kind # "tool"
<1>1. list \in Seq(Content) /\ \A i \in DOMAIN list : list[i].id = <<m, i>>
  BY DEF OfReply
<1>2. \A i \in DOMAIN list : list[i] \in Content
  <2> HIDE DEF Content
  <2> QED BY <1>1
<1>3. \A i \in DOMAIN list : IdPart[list[i]] = IF list[i].kind = "tool" THEN <<list[i].id>> ELSE <<>>
  BY <1>2 DEF IdPart
<1>4. Elements(IdsOf(list)) = UNION {Elements(IdPart[list[i]]) : i \in DOMAIN list}
  <2> DEFINE f == IdPart
             B == Content
             S == Id
  <2>1. Gathers(f, B, S) /\ list \in Seq(B)
    BY <1>1, PartTypes
  <2>2. IdsOf(list) = Total(f, list)
    BY <1>1, ListParts
  <2> HIDE DEF f, B, S
  <2>3. Elements(Total(f, list)) = UNION {Elements(f[list[i]]) : i \in DOMAIN list}
    BY <2>1, TotalElements
  <2> QED BY <2>2, <2>3 DEF f
<1>5. IdsOf(list) \in Seq(Id) /\ CallsOf(list) \in Seq(Made)
      /\ [i \in DOMAIN CallsOf(list) |-> CallsOf(list)[i].id] = IdsOf(list)
  BY <1>1, CallIds
<1>6. Elements(<<>>) = {}
  BY DEF Elements
<1>7. ASSUME IdsOf(list) # <<>> PROVE \E i \in DOMAIN list : IdsOf(list)[1] = <<m, i>>
  <2> DEFINE s == IdsOf(list)
  <2>1. 1 \in DOMAIN s
    <3> DEFINE S == Id
    <3>1. s \in Seq(S) /\ s # <<>>
      BY <1>5, <1>7
    <3> HIDE DEF s, S
    <3> QED BY <3>1
  <2>2. s[1] \in Elements(s)
    BY <2>1 DEF Elements
  <2>3. PICK i \in DOMAIN list : s[1] \in Elements(IdPart[list[i]])
    BY <1>4, <2>2
  <2>4. list[i].kind = "tool" /\ IdPart[list[i]] = <<list[i].id>>
    BY <1>3, <1>6, <2>3
  <2>5. Elements(<<list[i].id>>) = {list[i].id}
    BY DEF Elements
  <2> QED BY <1>1, <2>3, <2>4, <2>5
<1>8. ASSUME IdsOf(list) = <<>>
      PROVE  CallsOf(list) = <<>> /\ \A i \in DOMAIN list : list[i].kind # "tool"
  <2>1. ASSUME NEW i \in DOMAIN list, list[i].kind = "tool" PROVE FALSE
    <3>1. IdPart[list[i]] = <<list[i].id>>
      BY <1>3, <2>1
    <3>2. list[i].id \in Elements(IdPart[list[i]])
      BY <3>1 DEF Elements
    <3> QED BY <1>4, <1>6, <1>8, <3>2
  <2>2. CallsOf(list) = <<>>
    <3> DEFINE calls == CallsOf(list)
               B == Made
    <3>1. calls \in Seq(B) /\ [i \in DOMAIN calls |-> calls[i].id] = <<>>
      BY <1>5, <1>8
    <3> HIDE DEF calls, B
    <3>2. DOMAIN calls = {}
      BY <3>1
    <3>3. calls = <<>>
      BY <3>1, <3>2
    <3> QED BY <3>3 DEF calls
  <2> QED BY <2>1, <2>2
<1> QED BY <1>7, <1>8

\* The calls of a reply answer its own tool blocks.
LEMMA CallIs ==
    ASSUME NEW m, NEW list, OfReply(m, list)
    PROVE  Answers(CallsOf(list), list)
<1>1. list \in Seq(Content) /\ \A i \in DOMAIN list : list[i].id = <<m, i>>
  BY DEF OfReply
<1>2. \A i \in DOMAIN list : list[i] \in Content
  <2> HIDE DEF Content
  <2> QED BY <1>1
<1>3. \A i \in DOMAIN list : CallPart[list[i]] = IF list[i].kind = "tool"
                                                 THEN <<[id |-> list[i].id, input |-> list[i].data]>> ELSE <<>>
  BY <1>2 DEF CallPart
<1> DEFINE calls == CallsOf(list)
<1>4. Elements(calls) = UNION {Elements(CallPart[list[i]]) : i \in DOMAIN list}
  <2> DEFINE f == CallPart
             B == Content
             S == Made
  <2>1. Gathers(f, B, S) /\ list \in Seq(B)
    BY <1>1, PartTypes
  <2>2. calls = Total(f, list)
    BY <1>1, ListParts
  <2> HIDE DEF f, B, S
  <2>3. Elements(Total(f, list)) = UNION {Elements(f[list[i]]) : i \in DOMAIN list}
    BY <2>1, TotalElements
  <2> QED BY <2>2, <2>3 DEF f
<1>5. SUFFICES ASSUME NEW i \in DOMAIN list, list[i].kind = "tool"
               PROVE  Call(calls, list[i].id).input = list[i].data
  BY DEF Answers
<1> DEFINE own == [id |-> list[i].id, input |-> list[i].data]
<1>6. own \in Elements(calls)
  <2>1. own \in Elements(CallPart[list[i]])
    <3>1. CallPart[list[i]] = <<own>>
      BY <1>3, <1>5
    <3> HIDE DEF own
    <3>2. own \in Elements(<<own>>)
      BY DEF Elements
    <3> QED BY <3>1, <3>2
  <2> QED BY <1>4, <2>1
<1>7. \A c \in Elements(calls) : c.id = list[i].id => c = own
  <2> SUFFICES ASSUME NEW c \in Elements(calls), c.id = list[i].id PROVE c = own
    OBVIOUS
  <2>1. PICK j \in DOMAIN list : c \in Elements(CallPart[list[j]])
    BY <1>4
  <2>2. Elements(<<>>) = {}
    BY DEF Elements
  <2>3. CallPart[list[j]] = <<[id |-> list[j].id, input |-> list[j].data]>>
    BY <1>3, <2>1, <2>2
  <2>4. Elements(<<[id |-> list[j].id, input |-> list[j].data]>>) = {[id |-> list[j].id, input |-> list[j].data]}
    BY DEF Elements
  <2>5. c = [id |-> list[j].id, input |-> list[j].data]
    BY <2>1, <2>3, <2>4
  <2>6. c.id = list[j].id
    BY <2>5
  <2>7. <<m, j>> = <<m, i>>
    BY <1>1, <2>6
  <2>8. j = i
    BY <2>7
  <2> QED BY <2>5, <2>8
<1>8. Call(calls, list[i].id) = CHOOSE c \in Elements(calls) : c.id = list[i].id
  BY DEF Call, Elements
<1>9. own.id = list[i].id /\ own.input = list[i].data
  OBVIOUS
<1> HIDE DEF own, calls
<1>10. Call(calls, list[i].id) = own
  BY <1>6, <1>7, <1>8, <1>9
<1> QED BY <1>9, <1>10

-----------------------------------------------------------------------------
(* The inputs that can be sent back. *)

\* A block and a call without an input that was cut short.
UsableBlock(b) == IF b.kind = "tool" /\ ~Parses(b.data) THEN [b EXCEPT !.data = <<>>] ELSE b
UsableCall(c) == [c EXCEPT !.input = ToolInput(@)]

\* They are blocks and calls as before.
LEMMA UsableTypes ==
    /\ \A b \in Content : /\ UsableBlock(b) \in Content
                          /\ UsableBlock(b).kind = b.kind /\ UsableBlock(b).id = b.id
                          /\ b.kind # "tool" => UsableBlock(b) = b
                          /\ b.kind = "tool" => UsableBlock(b).data = ToolInput(b.data)
    /\ \A c \in Made : UsableCall(c) = [id |-> c.id, input |-> ToolInput(c.input)] /\ UsableCall(c) \in Made
<1>1. <<>> \in Seq(Char)
  OBVIOUS
<1>2. ASSUME NEW b \in Content
      PROVE  /\ UsableBlock(b) \in Content
             /\ UsableBlock(b).kind = b.kind /\ UsableBlock(b).id = b.id
             /\ b.kind # "tool" => UsableBlock(b) = b
             /\ b.kind = "tool" => UsableBlock(b).data = ToolInput(b.data)
  <2> DEFINE C == Seq(Char)
             P == Parses(b.data)
  <2>1. b \in [kind : Kinds, id : Id, data : C] /\ <<>> \in C
    BY <1>1 DEF Content
  <2>2. /\ UsableBlock(b) = IF b.kind = "tool" /\ ~P THEN [b EXCEPT !.data = <<>>] ELSE b
        /\ ToolInput(b.data) = IF P THEN b.data ELSE <<>>
    BY DEF UsableBlock, ToolInput
  <2> HIDE DEF C, P, Id, Kinds
  <2>3. /\ UsableBlock(b) \in [kind : Kinds, id : Id, data : C]
        /\ UsableBlock(b).kind = b.kind /\ UsableBlock(b).id = b.id
        /\ b.kind # "tool" => UsableBlock(b) = b
        /\ b.kind = "tool" => UsableBlock(b).data = ToolInput(b.data)
    BY <2>1, <2>2
  <2> QED BY <2>3 DEF Content, C
<1>3. ASSUME NEW c \in Made
      PROVE  UsableCall(c) = [id |-> c.id, input |-> ToolInput(c.input)] /\ UsableCall(c) \in Made
  <2> DEFINE C == Seq(Char)
             i == ToolInput(c.input)
  <2>1. c \in [id : Id, input : C] /\ i \in C
    BY <1>1 DEF Made, ToolInput
  <2>2. UsableCall(c) = [c EXCEPT !.input = i]
    BY DEF UsableCall
  <2> HIDE DEF C, i, Id
  <2>3. UsableCall(c) = [id |-> c.id, input |-> i] /\ UsableCall(c) \in [id : Id, input : C]
    BY <2>1, <2>2
  <2> QED BY <2>3 DEF i, C, Made
<1> QED BY <1>2, <1>3

\* A call that is whole stays as it is, and one that is not loses its input.
LEMMA UsableAsInput ==
    \A c \in Made : UsableCall(c) = IF Parses(c.input) THEN c ELSE [c EXCEPT !.input = <<>>]
<1> SUFFICES ASSUME NEW c \in Made
             PROVE  UsableCall(c) = IF Parses(c.input) THEN c ELSE [c EXCEPT !.input = <<>>]
  OBVIOUS
<1> DEFINE C == Seq(Char)
           P == Parses(c.input)
<1>1. c \in [id : Id, input : C]
  BY DEF Made
<1>2. UsableCall(c) = [c EXCEPT !.input = IF P THEN c.input ELSE <<>>]
  BY DEF UsableCall, ToolInput
<1> HIDE DEF C, P, Id
<1>3. UsableCall(c) = IF P THEN c ELSE [c EXCEPT !.input = <<>>]
  BY <1>1, <1>2
<1> QED BY <1>3 DEF P

\* What can be sent back of a reply has its text, its tool calls and its layout.
LEMMA UsableList ==
    ASSUME NEW m, NEW list, OfReply(m, list)
    PROVE  /\ OfReply(m, Sendable(list))
           /\ TextOf(Sendable(list)) = TextOf(list) /\ IdsOf(Sendable(list)) = IdsOf(list)
           /\ Layout(Sendable(list)) = Layout(list)
<1> DEFINE u == Sendable(list)
<1>1. list \in Seq(Content) /\ Sealed(list) /\ \A i \in DOMAIN list : list[i].id = <<m, i>>
  BY DEF OfReply
<1>2. \A i \in DOMAIN list : list[i] \in Content
  <2> HIDE DEF Content
  <2> QED BY <1>1
<1>3. u = [i \in DOMAIN list |-> UsableBlock(list[i])]
  BY DEF Sendable, UsableBlock
<1> HIDE DEF u
<1>4. /\ DOMAIN u = DOMAIN list
      /\ \A i \in DOMAIN list :
            /\ u[i] \in Content /\ u[i].kind = list[i].kind /\ u[i].id = list[i].id
            /\ list[i].kind # "tool" => u[i] = list[i]
  BY <1>2, <1>3, UsableTypes
<1>5. u \in Seq(Content)
  <2> DEFINE B == Content
  <2>1. list \in Seq(B) /\ DOMAIN u = DOMAIN list /\ \A i \in DOMAIN list : u[i] \in B
    BY <1>1, <1>4
  <2>2. u = [i \in 1..Len(list) |-> UsableBlock(list[i])]
    BY <1>1, <1>3
  <2> HIDE DEF B
  <2>3. Len(list) \in Nat /\ DOMAIN list = 1..Len(list)
    BY <2>1
  <2>4. u \in Seq(B)
    BY <2>1, <2>2, <2>3, IsASeq
  <2> QED BY <2>4 DEF B
<1>6. OfReply(m, u)
  BY <1>1, <1>4, <1>5 DEF OfReply, Sealed
<1>7. TextOf(u) = TextOf(list)
  <2>1. [i \in DOMAIN u |-> IF u[i].kind = "text" THEN u[i].data ELSE <<>>]
           = [i \in DOMAIN list |-> IF list[i].kind = "text" THEN list[i].data ELSE <<>>]
    BY <1>4
  <2> QED BY <2>1 DEF TextOf
<1>8. IdsOf(u) = IdsOf(list)
  <2>1. [i \in DOMAIN u |-> IF u[i].kind = "tool" THEN <<u[i].id>> ELSE <<>>]
           = [i \in DOMAIN list |-> IF list[i].kind = "tool" THEN <<list[i].id>> ELSE <<>>]
    BY <1>4
  <2> QED BY <2>1 DEF IdsOf
<1>9. [i \in DOMAIN u |-> Slot(u[i])] = [i \in DOMAIN list |-> Slot(list[i])]
  <2>1. \A i \in DOMAIN list : Slot(u[i]) = Slot(list[i])
    BY <1>4 DEF Slot
  <2> QED BY <1>4, <2>1
<1>10. Layout(u) = Layout(list)
  BY <1>7, <1>8, <1>9 DEF Layout
<1> QED BY <1>6, <1>7, <1>8, <1>10 DEF u

\* A sequence with one more element, as a function.
LEMMA OneMore ==
    ASSUME NEW S, NEW t \in Seq(S), NEW d
    PROVE  t \o <<d>> = [i \in 1..(Len(t) + 1) |-> IF i <= Len(t) THEN t[i] ELSE d]
  OBVIOUS

\* The calls of the reply are converted one by one.
LEMMA UsableCalls ==
    ASSUME NEW list \in Seq(Content)
    PROVE  CallsOf(Sendable(list)) = ToolUses(CallsOf(list))
<1> DEFINE Good == {s \in Seq(Content) : Sendable(s) \in Seq(Content) /\ CallsOf(Sendable(s)) = ToolUses(CallsOf(s))}
<1>1. <<>> \in Good
  <2>1. Sendable(<<>>) = <<>> /\ ToolUses(<<>>) = <<>> /\ <<>> \in Seq(Content)
    BY DEF Sendable, ToolUses
  <2> QED BY <2>1, ListEmpty
<1>2. ASSUME NEW s \in Good, NEW b \in Content PROVE Append(s, b) \in Good
  <2> DEFINE u == UsableBlock(b)
             calls == CallsOf(s)
             c == [id |-> b.id, input |-> b.data]
             M == Made
             B == Content
  <2>1. s \in Seq(B) /\ Sendable(s) \in Seq(B) /\ CallsOf(Sendable(s)) = ToolUses(calls) /\ b \in B /\ u \in B
    BY UsableTypes
  <2>2. Sendable(Append(s, b)) = Append(Sendable(s), u)
    <3> HIDE DEF B
    <3>1. Sendable(s) = [i \in DOMAIN s |-> UsableBlock(s[i])]
          /\ Sendable(Append(s, b)) = [i \in DOMAIN Append(s, b) |-> UsableBlock(Append(s, b)[i])]
      BY DEF Sendable, UsableBlock
    <3> HIDE DEF u
    <3> DEFINE F(x) == UsableBlock(x)
    <3>2. u = F(b)
      BY DEF u
    <3> HIDE DEF F
    <3>3. Sendable(s) = [i \in 1..Len(s) |-> F(s[i])] /\ Len(s) \in Nat
      BY <2>1, <3>1 DEF F
    <3>4. Sendable(Append(s, b)) = [i \in 1..(Len(s) + 1) |-> F(Append(s, b)[i])]
      BY <2>1, <3>1 DEF F
    <3>5. Append(Sendable(s), u) = [i \in 1..(Len(s) + 1) |-> IF i <= Len(s) THEN F(s[i]) ELSE u]
      BY <3>3
    <3>6. \A i \in 1..(Len(s) + 1) : Append(s, b)[i] = IF i <= Len(s) THEN s[i] ELSE b
      BY <2>1
    <3> QED BY <3>2, <3>4, <3>5, <3>6
  <2>3. Append(s, b) \in Seq(B) /\ Sendable(Append(s, b)) \in Seq(B)
    <3> HIDE DEF B, u
    <3> QED BY <2>1, <2>2, AppendProperties
  <2>4. /\ calls \in Seq(M)
        /\ CallsOf(Append(s, b)) = calls \o (IF b.kind = "tool" THEN <<c>> ELSE <<>>)
        /\ CallsOf(Append(Sendable(s), u)) =
              ToolUses(calls) \o (IF u.kind = "tool" THEN <<[id |-> u.id, input |-> u.data]>> ELSE <<>>)
    BY <2>1, ListGrows
  <2>5. /\ ToolUses(calls) = [i \in DOMAIN calls |-> UsableCall(calls[i])]
        /\ DOMAIN ToolUses(calls) = DOMAIN calls
    BY DEF ToolUses, UsableCall
  <2>6. ToolUses(calls) \in Seq(M)
    <3>1. \A i \in DOMAIN calls : calls[i] \in M
      <4> HIDE DEF M, calls
      <4> QED BY <2>4
    <3>2. \A i \in DOMAIN calls : UsableCall(calls[i]) \in M
      BY <3>1, UsableTypes
    <3> HIDE DEF M, calls
    <3>3. Len(calls) \in Nat /\ DOMAIN calls = 1..Len(calls)
      BY <2>4
    <3> QED BY <2>5, <3>2, <3>3, IsASeq
  <2>7. ASSUME b.kind = "tool" PROVE CallsOf(Sendable(Append(s, b))) = ToolUses(CallsOf(Append(s, b)))
    <3>1. c \in M /\ UsableCall(c) = [id |-> u.id, input |-> u.data] /\ u.kind = "tool"
      <4>1. c \in M
        BY DEF Content, Made
      <4>2. u.kind = "tool" /\ u.id = b.id /\ u.data = ToolInput(b.data)
        BY <2>7, UsableTypes
      <4>3. UsableCall(c) = [id |-> c.id, input |-> ToolInput(c.input)]
        BY <4>1, UsableTypes
      <4> HIDE DEF u
      <4> QED BY <4>1, <4>2, <4>3
    <3> DEFINE F(x) == UsableCall(x)
               d == [id |-> u.id, input |-> u.data]
    <3> HIDE DEF c, M, calls, u, F, d
    <3>2. CallsOf(Append(s, b)) = calls \o <<c>> /\ CallsOf(Append(Sendable(s), u)) = ToolUses(calls) \o <<d>>
      BY <2>4, <2>7, <3>1 DEF d
    <3>3. d = F(c)
      BY <3>1 DEF d, F
    <3>4. ToolUses(calls \o <<c>>) = [i \in DOMAIN (calls \o <<c>>) |-> F((calls \o <<c>>)[i])]
      BY DEF ToolUses, F, UsableCall
    <3>5. ToolUses(calls) = [i \in DOMAIN calls |-> F(calls[i])]
      BY <2>5 DEF F
    <3>6. ToolUses(calls \o <<c>>) = ToolUses(calls) \o <<d>>
      <4>1. calls \in Seq(M) /\ c \in M /\ Len(calls) \in Nat
        BY <2>4, <3>1
      <4>2. calls \o <<c>> = [i \in 1..(Len(calls) + 1) |-> IF i <= Len(calls) THEN calls[i] ELSE c]
        BY <4>1
      <4>3. ToolUses(calls \o <<c>>) = [i \in 1..(Len(calls) + 1) |-> IF i <= Len(calls) THEN F(calls[i]) ELSE F(c)]
        BY <3>4, <4>1, <4>2
      <4>4. Len(ToolUses(calls)) = Len(calls) /\ \A i \in 1..Len(calls) : ToolUses(calls)[i] = F(calls[i])
        BY <2>6, <3>5, <4>1
      <4>5. ToolUses(calls) \o <<d>> = [i \in 1..(Len(calls) + 1) |-> IF i <= Len(calls) THEN F(calls[i]) ELSE d]
        <5> DEFINE t == ToolUses(calls)
                   n == Len(calls)
        <5>1. t \in Seq(M) /\ Len(t) = n /\ n \in Nat /\ \A i \in 1..n : t[i] = F(calls[i])
          BY <2>6, <4>1, <4>4
        <5> HIDE DEF t, n
        <5>2. t \o <<d>> = [i \in 1..(n + 1) |-> IF i <= n THEN t[i] ELSE d]
          BY <5>1, OneMore
        <5>3. \A i \in 1..(n + 1) : i <= n => t[i] = F(calls[i])
          BY <5>1
        <5>4. t \o <<d>> = [i \in 1..(n + 1) |-> IF i <= n THEN F(calls[i]) ELSE d]
          BY <5>2, <5>3
        <5> QED BY <5>4 DEF t, n
      <4> QED BY <3>3, <4>3, <4>5
    <3> QED BY <2>2, <3>2, <3>6
  <2>8. ASSUME b.kind # "tool" PROVE CallsOf(Sendable(Append(s, b))) = ToolUses(CallsOf(Append(s, b)))
    <3>1. u.kind # "tool"
      BY <2>8, UsableTypes
    <3> HIDE DEF c, M, calls, u
    <3>2. CallsOf(Append(s, b)) = calls /\ CallsOf(Append(Sendable(s), u)) = ToolUses(calls)
      BY <2>4, <2>6, <2>8, <3>1
    <3> QED BY <2>2, <3>2
  <2>9. CallsOf(Sendable(Append(s, b))) = ToolUses(CallsOf(Append(s, b)))
    BY <2>7, <2>8
  <2> QED BY <2>3, <2>9
<1> DEFINE B == Content
<1>3. Good \in SUBSET Seq(B) /\ (\A s \in Good : \A b \in B : Append(s, b) \in Good) /\ list \in Seq(B)
  BY <1>2
<1> HIDE DEF Good, B
<1>4. list \in Good
  BY <1>1, <1>3, AllLists
<1> QED BY <1>4 DEF Good

\* What Claude made is what a client may send back.
LEMMA MadeIsWide == \A calls \in Seq(Made) : calls \in Seq(WideMade)
<1>1. Seq(Char) \subseteq Seq(Shown)
  <2>1. Char \subseteq Shown
    BY DEF Shown
  <2> HIDE DEF Shown, Char
  <2> QED BY <2>1
<1>2. Made \subseteq WideMade
  BY <1>1 DEF Made, WideMade
<1> HIDE DEF Made, WideMade
<1> QED BY <1>2

\* Without the stash the text and the calls go back as the client has them.
LEMMA PlainKeeps ==
    ASSUME NEW text \in Seq(Shown), NEW calls \in Seq(WideMade)
    PROVE  /\ Written(TextOf(Plain(text, calls))) = Written(text)
           /\ CallsOf(Plain(text, calls)) = calls
<1> DEFINE W == Wide
           block(i) == Block("tool", calls[i].id, calls[i].input)
           p == IF Ink(text) = {} THEN <<>> ELSE <<Block("text", Whole, text)>>
           q == [i \in DOMAIN calls |-> block(i)]
           one == Block("text", Whole, text)
<1>1. one \in Wide /\ one.kind = "text" /\ one.data = text
  <2>1. one = [kind |-> "text", id |-> Whole, data |-> text]
    BY DEF Block
  <2>2. Whole \in Id /\ "text" \in Kinds
    BY DEF Whole, Id, Kinds
  <2> HIDE DEF one, Whole, Id, Kinds, Shown
  <2> QED BY <2>1, <2>2 DEF Wide
<1>2. \A i \in DOMAIN calls : calls[i] \in WideMade
  <2> HIDE DEF WideMade
  <2> QED OBVIOUS
<1>3. \A i \in DOMAIN calls : block(i) \in Wide /\ block(i).kind = "tool"
                              /\ [id |-> block(i).id, input |-> block(i).data] = calls[i]
  <2> SUFFICES ASSUME NEW i \in DOMAIN calls
               PROVE  block(i) \in Wide /\ block(i).kind = "tool"
                      /\ [id |-> block(i).id, input |-> block(i).data] = calls[i]
    OBVIOUS
  <2> DEFINE c == calls[i]
  <2>1. c \in WideMade
    BY <1>2
  <2>2. block(i) = [kind |-> "tool", id |-> c.id, data |-> c.input]
    BY DEF Block
  <2> HIDE DEF c
  <2>3. c.id \in Id /\ c.input \in Seq(Shown) /\ c = [id |-> c.id, input |-> c.input]
    BY <2>1 DEF WideMade
  <2>4. "tool" \in Kinds
    BY DEF Kinds
  <2> HIDE DEF Id, Kinds, Shown, block
  <2>5. block(i) \in Wide
    BY <2>2, <2>3, <2>4 DEF Wide
  <2> QED BY <2>2, <2>3, <2>5 DEF c
<1>4. DOMAIN calls = 1..Len(calls) /\ Len(calls) \in Nat
  <2> HIDE DEF WideMade
  <2> QED OBVIOUS
<1>5. p \in Seq(W)
  <2> HIDE DEF W, one
  <2>1. one \in W
    BY <1>1 DEF W
  <2>2. <<>> \in Seq(W)
    OBVIOUS
  <2>3. <<one>> \in Seq(W)
    BY <2>1
  <2> QED BY <2>2, <2>3 DEF one
<1>6. q \in Seq(W)
  <2>1. \A i \in DOMAIN calls : block(i) \in W
    BY <1>3
  <2> HIDE DEF W, block
  <2> QED BY <1>4, <2>1, IsASeq
<1>7. DOMAIN q = DOMAIN calls /\ \A i \in DOMAIN calls : q[i] = block(i)
  OBVIOUS
<1>8. Plain(text, calls) = p \o q
  BY DEF Plain
<1>9. p \o q \in Seq(W)
  <2> HIDE DEF W, p, q
  <2> QED BY <1>5, <1>6, ConcatProperties
<1>10. \A b \in Wide : /\ b.kind = "text" => WideCall[b] = <<>> /\ WideText[b] = b.data
                       /\ b.kind = "tool" => WideCall[b] = <<[id |-> b.id, input |-> b.data]>> /\ WideText[b] = <<>>
  BY DEF WideCall, WideText
<1>11. CallsOf(p \o q) = Total(WideCall, p \o q) /\ TextOf(p \o q) = Total(WideText, p \o q)
  BY <1>9, WideParts
<1> DEFINE f == WideCall
           g == WideText
           C == WideMade
           S == Shown
<1>12. Gathers(f, W, C)
  BY WidePartTypes
<1>13. Gathers(g, W, S)
  BY WidePartTypes
<1>14. p = <<>> \/ p = <<one>>
  OBVIOUS
<1>15. Ink(text) = {} => p = <<>>
  OBVIOUS
<1>16. Ink(text) # {} => p = <<one>>
  OBVIOUS
<1>17. one \in W /\ f[one] = <<>> /\ g[one] = text
  BY <1>1, <1>10
<1>18. \A i \in DOMAIN q : g[q[i]] = <<>> /\ f[q[i]] = <<calls[i]>>
  BY <1>3, <1>7, <1>10
<1>19. calls \in Seq(C)
  OBVIOUS
<1>20. text \in Seq(S)
  OBVIOUS
<1> HIDE DEF f, g, C, S, W, p, q, one, block
<1>21. Total(f, p \o q) = Total(f, p) \o Total(f, q)
  BY <1>5, <1>6, <1>12, TotalJoins
<1>22. Total(g, p \o q) = Total(g, p) \o Total(g, q)
  BY <1>5, <1>6, <1>13, TotalJoins
<1>23. Total(f, p) = <<>>
  <2>1. CASE p = <<>>
    BY <2>1, TotalEmpty
  <2>2. CASE p = <<one>>
    <3>1. Total(f, <<one>>) = f[one]
      BY <1>12, <1>17, TotalOne
    <3> QED BY <1>17, <2>2, <3>1
  <2> QED BY <1>14, <2>1, <2>2
<1>24. Total(f, q) = calls
  <2>1. [i \in DOMAIN q |-> f[q[i]]] = [i \in DOMAIN calls |-> <<calls[i]>>]
    BY <1>7, <1>18
  <2>2. Concat([i \in DOMAIN calls |-> <<calls[i]>>]) = calls
    BY <1>19, ConcatSingles
  <2> QED BY <2>1, <2>2 DEF Total
<1>25. Total(g, q) = <<>>
  <2>1. \A i \in DOMAIN q : g[q[i]] = <<>>
    BY <1>18
  <2> QED BY <1>6, <1>13, <2>1, TotalNone
<1>26. CallsOf(p \o q) = calls
  <2>1. <<>> \o calls = calls
    BY <1>19
  <2> QED BY <1>11, <1>21, <1>23, <1>24, <2>1 DEF f
<1>27. Written(TextOf(p \o q)) = Written(text)
  <2>1. CASE Ink(text) = {}
    <3>1. Total(g, p) = <<>>
      BY <1>15, <2>1, TotalEmpty
    <3>2. TextOf(p \o q) = <<>>
      <4>1. <<>> \o <<>> = <<>>
        OBVIOUS
      <4> QED BY <1>11, <1>22, <1>25, <3>1, <4>1 DEF g
    <3>3. Written(<<>>) = <<>>
      <4>1. Ink(<<>>) = {}
        BY DEF Ink
      <4>2. <<>> \in Seq(Shown)
        OBVIOUS
      <4> QED BY <4>1, <4>2, WrittenBlank
    <3>4. Written(text) = <<>>
      BY <2>1, WrittenBlank
    <3> QED BY <3>2, <3>3, <3>4
  <2>2. CASE Ink(text) # {}
    <3>1. Total(g, <<one>>) = g[one]
      BY <1>13, <1>17, TotalOne
    <3>2. Total(g, p) = text
      BY <1>16, <1>17, <2>2, <3>1
    <3>3. text \o <<>> = text
      BY <1>20
    <3>4. TextOf(p \o q) = text
      BY <1>11, <1>22, <1>25, <3>2, <3>3 DEF g
    <3> QED BY <3>4
  <2> QED BY <2>1, <2>2
<1> QED BY <1>8, <1>26, <1>27

-----------------------------------------------------------------------------
(* What the stash remembers. *)

\* What the stash may hold: the layout of a list of blocks, under its key.
Memories == {Entry(TurnKey(TextOf(list), IdsOf(list)), Layout(list), at) : list \in Seq(Content), at \in Nat}

\* The reply of a layout, and that the reply has thinking.
Of(value, m) ==
    /\ m \in DOMAIN replies /\ value = Layout(replies[m].blocks)
    /\ \E i \in DOMAIN replies[m].blocks : replies[m].blocks[i].kind = "thinking"

\* The replies: their blocks are their own, and their text is that of the blocks.
RepliesInStep ==
    \A m \in DOMAIN replies :
        /\ OfReply(m, replies[m].blocks)
        /\ replies[m].text \in {TextOf(replies[m].blocks), LineText \o TextOf(replies[m].blocks)}

\* The stash: an entry is the layout of a reply.
StashInv ==
    /\ stash \in Seq(Memories) /\ OnePerKey(stash) /\ Len(stash) <= STASH_ITEMS
    /\ \A e \in Entries(stash) : \E m \in DOMAIN replies : Of(e.value, m)

SentTypes == sent.reply \in 0..Len(replies) /\ sent.how \in {"exact", "trimmed"}

\* The inductive invariant.
SendInv ==
    /\ now \in Nat
    /\ RepliesInStep
    /\ pc \in {"open", "stopped"} => OfReply(Len(replies) + 1, blocks)
    /\ StashInv /\ SentTypes /\ SentBackWhole

\* The key of an entry is that of its layout.
LEMMA KeyOfMemory ==
    ASSUME NEW e \in Memories
    PROVE  e.key = TurnKey(e.value.text, e.value.ids)
<1>1. PICK list \in Seq(Content), at \in Nat : e = Entry(TurnKey(TextOf(list), IdsOf(list)), Layout(list), at)
  BY DEF Memories
<1> DEFINE k == TurnKey(TextOf(list), IdsOf(list))
           l == Layout(list)
<1>2. l.text = TextOf(list) /\ l.ids = IdsOf(list)
  BY SlotsAre
<1> HIDE DEF k, l
<1>3. e.key = k /\ e.value = l
  BY <1>1 DEF Entry, k, l
<1> QED BY <1>2, <1>3 DEF k

\* Two replies whose layouts have the same calls, of which there are some, are one.
LEMMA SameReply ==
    ASSUME NEW m, NEW n, NEW a, NEW b, OfReply(m, a), OfReply(n, b), IdsOf(a) = IdsOf(b)
    PROVE  m = n \/ IdsOf(b) = <<>>
<1>1. CASE IdsOf(b) # <<>>
  <2>1. PICK i \in DOMAIN a : IdsOf(a)[1] = <<m, i>>
    BY <1>1, WhoseIds
  <2>2. PICK j \in DOMAIN b : IdsOf(b)[1] = <<n, j>>
    BY <1>1, WhoseIds
  <2>3. <<m, i>> = <<n, j>>
    BY <2>1, <2>2
  <2> QED BY <2>3
<1> QED BY <1>1

\* Two lists of blocks whose layouts are the same are of one reply.
LEMMA SameLayout ==
    ASSUME NEW m, NEW n, NEW a, NEW b, OfReply(m, a), OfReply(n, b), Layout(a) = Layout(b), NEW i \in DOMAIN a
    PROVE  m = n
<1>1. /\ Layout(a).slots = [k \in DOMAIN a |-> Slot(a[k])] /\ Layout(b).slots = [k \in DOMAIN b |-> Slot(b[k])]
  BY SlotsAre
<1>2. DOMAIN a = DOMAIN b /\ Slot(a[i]) = Slot(b[i])
  <2> DEFINE s == [k \in DOMAIN a |-> Slot(a[k])]
             t == [k \in DOMAIN b |-> Slot(b[k])]
  <2>1. s = t
    BY <1>1
  <2>2. DOMAIN s = DOMAIN a /\ DOMAIN t = DOMAIN b
    OBVIOUS
  <2>3. s[i] = Slot(a[i])
    OBVIOUS
  <2>4. i \in DOMAIN b
    BY <2>1, <2>2
  <2>5. t[i] = Slot(b[i])
    BY <2>4
  <2> HIDE DEF s, t
  <2> QED BY <2>1, <2>2, <2>3, <2>5
<1>3. a[i].id = <<m, i>> /\ b[i].id = <<n, i>>
  BY <1>2 DEF OfReply
<1>4. Slot(a[i]).id = a[i].id /\ Slot(b[i]).id = b[i].id
  BY DEF Slot
<1>5. <<m, i>> = <<n, i>>
  BY <1>2, <1>3, <1>4
<1> QED BY <1>5

\* What a layout makes of the text and the calls of a reply.
LEMMA RebuiltKeeps ==
    ASSUME NEW m, NEW list, OfReply(m, list), NEW text \in Seq(Shown), NEW calls,
           Answers(calls, list), CallsOf(list) = calls,
           NEW b \in Rebuilt(Layout(list), text, calls)
    PROVE  /\ Written(TextOf(b)) = Written(text) /\ CallsOf(b) = calls
           /\ Unwritten(b) = Unwritten(list)
           /\ TextOf(list) = text => b = Visible(list)
<1> DEFINE F == FilledIn(Layout(list), text, calls)
<1>1. list \in Seq(Content) /\ Sealed(list)
  BY DEF OfReply
<1>2. Layout(list).text = TextOf(list)
  BY SlotsAre
<1>3. (TextOf(list) = text \/ Strip(TextOf(list)) = Strip(text)) /\ b = Visible(F)
  BY <1>2, RebuiltIs
<1>4. /\ F \in Seq(Wide) /\ CallsOf(F) = CallsOf(list) /\ Unwritten(F) = Unwritten(list)
      /\ Written(TextOf(F)) = Written(text)
      /\ TextOf(list) = text => F = list
  BY <1>1, <1>3, FilledInKeeps
<1> HIDE DEF F
<1>5. /\ CallsOf(Visible(F)) = CallsOf(F)
      /\ Unwritten(Visible(F)) = Unwritten(F)
      /\ Written(TextOf(Visible(F))) = Written(TextOf(F))
  BY <1>4, VisibleSame
<1> QED BY <1>3, <1>4, <1>5

\* A layout that is found for a reply gives that reply back, or another without
\* tool calls and with the same text.
LEMMA FoundKeeps ==
    ASSUME NEW m, NEW n, NEW a, NEW list, OfReply(m, a), OfReply(n, list), IdsOf(a) = IdsOf(list),
           m = n => a = list,
           NEW text \in Seq(Shown),
           NEW b \in Rebuilt(Layout(a), text, CallsOf(list))
    PROVE  /\ Written(TextOf(b)) = Written(text) /\ CallsOf(b) = CallsOf(list)
           /\ Unwritten(b) = Unwritten(a)
           /\ TextOf(a) = text => b = Visible(a)
<1>1. CallsOf(a) = CallsOf(list)
  <2>1. CASE m = n
    BY <2>1
  <2>2. CASE m # n
    <3>1. IdsOf(list) = <<>>
      BY <2>2, SameReply
    <3>2. CallsOf(a) = <<>> /\ CallsOf(list) = <<>>
      BY <3>1, WhoseIds
    <3> QED BY <3>2
  <2> QED BY <2>1, <2>2
<1>2. Answers(CallsOf(list), a)
  BY <1>1, CallIs
<1> QED BY <1>1, <1>2, RebuiltKeeps

\* A key that nobody else has is looked up, and the entry is there.
LEMMA LookupFinds ==
    ASSUME NEW E, NEW store \in Seq(E), OnePerKey(store), NEW key, NEW t, NEW ttl,
           NEW e \in Entries(AfterGet(store, key, t, ttl)), e.key = key
    PROVE  Lookup(store, key, t, ttl) = {e.value}
<1>1. e \in Entries(store)
  BY GetEntries
<1>2. Live(store, key, t, ttl) # {}
  <2> SUFFICES ASSUME Live(store, key, t, ttl) = {} PROVE FALSE
    OBVIOUS
  <2>1. AfterGet(store, key, t, ttl) = Without(store, key)
    BY DEF AfterGet
  <2>2. Entries(Without(store, key)) = {f \in Entries(store) : f.key # key}
    BY WithoutEntries
  <2> QED BY <2>1, <2>2
<1>3. PICK k \in DOMAIN store : e = store[k]
  BY <1>1 DEF Entries
<1>4. \A i \in Live(store, key, t, ttl) : i = k
  BY <1>3 DEF Live, Places, OnePerKey
<1> QED BY <1>2, <1>3, <1>4 DEF Lookup

\* A reply that is sent back arrives whole.
LEMMA SendBackWhole ==
    ASSUME StreamInv, SendInv, NEW n \in DOMAIN replies, NEW how \in {"exact", "trimmed"}, SendBack(n, how)
    PROVE  SentBackWhole'
<1> DEFINE list == Sendable(replies[n].blocks)
           told == replies[n].text
           T == TextOf(list)
           text == Sanitized(Echoed(told, how))
           calls == ToolUses(replies[n].calls)
           ids == [i \in DOMAIN calls |-> calls[i].id]
           key == TurnKey(text, ids)
           looked == Lookup(stash, key, now, STASH_TTL)
           found == {l \in looked : l.ids = ids}
           rebuilt == UNION {Rebuilt(l, text, calls) : l \in found}
           out == IF rebuilt = {} THEN Plain(text, calls) ELSE CHOOSE b \in rebuilt : TRUE
           after == AfterGet(stash, key, now, STASH_TTL)
           kept == ~(how = "trimmed" /\ BareLine(n))
<1>1. /\ stash' = after /\ replies' = replies
      /\ sent' = [reply |-> n, how |-> how, hit |-> rebuilt # {}, blocks |-> out]
  BY DEF SendBack
<1>2. OfReply(n, list) /\ told \in {T, LineText \o T} /\ Layout(list) = Layout(replies[n].blocks)
  <2>1. /\ OfReply(n, replies[n].blocks)
        /\ told \in {TextOf(replies[n].blocks), LineText \o TextOf(replies[n].blocks)}
    BY DEF SendInv, RepliesInStep
  <2> QED BY <2>1, UsableList
<1>3. calls = CallsOf(list)
  <2>1. replies[n].calls = CallsOf(replies[n].blocks)
    BY DEF StreamInv, StreamAgreesWithComplete
  <2>2. replies[n].blocks \in Seq(Content)
    BY DEF SendInv, RepliesInStep, OfReply
  <2> QED BY <2>1, <2>2, UsableCalls
<1>4. list \in Seq(Content)
  BY <1>2 DEF OfReply
<1>5. CallsOf(list) \in Seq(Made) /\ T \in Seq(Char)
      /\ [i \in DOMAIN CallsOf(list) |-> CallsOf(list)[i].id] = IdsOf(list)
  BY <1>4, CallIds
<1>6. ids = IdsOf(list)
  BY <1>3, <1>5
<1>7. /\ text \in Seq(Shown)
      /\ how = "exact" => text = T
      /\ kept => Strip(text) = Strip(T)
  <2>1. /\ Sanitized(Echoed(told, how)) \in Seq(Shown)
        /\ how = "exact" => Sanitized(Echoed(told, how)) = T
        /\ ~(how = "trimmed" /\ Ink(told) = {1} /\ told[1] = Line) =>
              Strip(Sanitized(Echoed(told, how))) = Strip(T)
    <3> DEFINE t == T
               s == told
    <3>1. t \in Seq(Char)
      BY <1>5
    <3>2. s \in {t, LineText \o t}
      BY <1>2
    <3> HIDE DEF t, s
    <3>3. LET x == Sanitized(Echoed(s, how)) IN
          /\ x \in Seq(Shown)
          /\ how = "exact" => x = t
          /\ ~(how = "trimmed" /\ Ink(s) = {1} /\ s[1] = Line) => Strip(x) = Strip(t)
      BY <3>1, <3>2, TextComesBack
    <3> QED BY <3>3 DEF t, s
  <2> QED BY <2>1 DEF BareLine
<1>8. stash \in Seq(Memories) /\ OnePerKey(stash)
      /\ \A e \in Entries(stash) : \E m \in DOMAIN replies : Of(e.value, m)
  BY DEF SendInv, StashInv
<1>9. \A l \in found : \E m \in DOMAIN replies :
         LET a == Sendable(replies[m].blocks) IN l = Layout(a) /\ OfReply(m, a) /\ IdsOf(a) = ids
  <2> SUFFICES ASSUME NEW l \in found
               PROVE  \E m \in DOMAIN replies :
                        LET a == Sendable(replies[m].blocks) IN l = Layout(a) /\ OfReply(m, a) /\ IdsOf(a) = ids
    OBVIOUS
  <2>1. l \in looked /\ l.ids = ids
    OBVIOUS
  <2> HIDE DEF key, ids
  <2>2. PICK e \in Entries(stash) : e.key = key /\ e.value = l
    BY <2>1, LookupEntries
  <2>3. PICK m \in DOMAIN replies : Of(l, m)
    BY <1>8, <2>2
  <2>4. l = Layout(replies[m].blocks) /\ OfReply(m, replies[m].blocks)
    BY <2>3 DEF Of, SendInv, RepliesInStep
  <2>5. Layout(replies[m].blocks).ids = IdsOf(replies[m].blocks)
    BY SlotsAre
  <2> QED BY <2>1, <2>4, <2>5, UsableList
<1> HIDE DEF list, told, text, calls, looked, T
<1>10. \A b \in rebuilt : Written(TextOf(b)) = Written(text) /\ CallsOf(b) = calls
  <2> SUFFICES ASSUME NEW l \in found, NEW b \in Rebuilt(l, text, calls)
               PROVE  Written(TextOf(b)) = Written(text) /\ CallsOf(b) = calls
    OBVIOUS
  <2>1. PICK m \in DOMAIN replies :
          LET a == Sendable(replies[m].blocks) IN l = Layout(a) /\ OfReply(m, a) /\ IdsOf(a) = ids
    BY <1>9
  <2> DEFINE a == Sendable(replies[m].blocks)
  <2>2. m = n => a = list
    BY DEF list
  <2>3. OfReply(m, a) /\ IdsOf(a) = IdsOf(list) /\ b \in Rebuilt(Layout(a), text, CallsOf(list))
    BY <1>3, <1>6, <2>1
  <2> HIDE DEF a
  <2> QED BY <1>2, <1>3, <1>7, <2>2, <2>3, FoundKeeps
<1>11. Written(TextOf(out)) = Written(text) /\ CallsOf(out) = calls
  <2>1. CASE rebuilt = {}
    <3>1. calls \in Seq(WideMade)
      BY <1>3, <1>5, MadeIsWide
    <3>2. Written(TextOf(Plain(text, calls))) = Written(text) /\ CallsOf(Plain(text, calls)) = calls
      BY <1>7, <3>1, PlainKeeps
    <3> HIDE DEF rebuilt
    <3> QED BY <2>1, <3>2
  <2>2. CASE rebuilt # {}
    <3> HIDE DEF rebuilt
    <3>1. out \in rebuilt
      BY <2>2
    <3> QED BY <1>10, <3>1
  <2> QED BY <2>1, <2>2
<1>12. ASSUME kept, NEW i \in DOMAIN after, after[i].value = Layout(list)
       PROVE  /\ rebuilt # {} /\ Unwritten(out) = Unwritten(list)
              /\ how = "exact" => out = Visible(list)
  <2> DEFINE e == after[i]
  <2>1. e \in Entries(after)
    BY DEF Entries
  <2> HIDE DEF key
  <2>2. Entries(after) \subseteq Entries(stash)
    BY <1>8, GetEntries
  <2>3. e \in Memories
    <3> DEFINE M == Memories
    <3>1. stash \in Seq(M)
      BY <1>8
    <3> HIDE DEF M, after, e
    <3>2. PICK k \in DOMAIN stash : e = stash[k]
      BY <2>1, <2>2 DEF Entries
    <3>3. e \in M
      BY <3>1, <3>2
    <3> QED BY <3>3 DEF M
  <2>4. e.key = TurnKey(e.value.text, e.value.ids)
    BY <2>3, KeyOfMemory
  <2>5. Layout(list).text = T /\ Layout(list).ids = IdsOf(list)
    BY SlotsAre DEF T
  <2>6. e.key = TurnKey(T, ids)
    BY <1>6, <1>12, <2>4, <2>5
  <2>7. Strip(text) = Strip(T)
    BY <1>7, <1>12
  <2>8. e.key = key
    BY <2>6, <2>7 DEF TurnKey, key
  <2>9. looked = {Layout(list)}
    <3> DEFINE E == Memories
    <3>1. stash \in Seq(E)
      BY <1>8
    <3> HIDE DEF E, e
    <3>2. Lookup(stash, key, now, STASH_TTL) = {e.value}
      BY <1>8, <2>1, <2>8, <3>1, LookupFinds
    <3> QED BY <1>12, <3>2 DEF e, looked
  <2>10. found = {Layout(list)}
    <3> HIDE DEF ids
    <3> QED BY <1>6, <2>5, <2>9
  <2>11. rebuilt = Rebuilt(Layout(list), text, calls)
    <3> HIDE DEF found
    <3> QED BY <2>10
  <2>12. Rebuilt(Layout(list), text, calls) = {Visible(FilledIn(Layout(list), text, calls))}
    BY <2>5, <2>7, RebuiltIs
  <2>13. rebuilt # {} /\ out \in Rebuilt(Layout(list), text, calls)
    <3> HIDE DEF rebuilt
    <3> QED BY <2>11, <2>12
  <2> HIDE DEF out, rebuilt
  <2>14. out \in Rebuilt(Layout(list), text, CallsOf(list))
    BY <1>3, <2>13
  <2>15. Unwritten(out) = Unwritten(list) /\ (TextOf(list) = text => out = Visible(list))
    BY <1>2, <1>7, <2>14, FoundKeeps
  <2>16. how = "exact" => TextOf(list) = text
    BY <1>7 DEF T
  <2> QED BY <2>13, <2>15, <2>16
<1> HIDE DEF rebuilt, out, after
<1>13. sent'.reply = n /\ sent'.how = how /\ sent'.hit = (rebuilt # {}) /\ sent'.blocks = out
  BY <1>1
<1>14. Remembered(n)' => \E i \in DOMAIN after : after[i].value = Layout(list)
  BY <1>1, <1>2 DEF Remembered
<1>15. BareLine(n)' = BareLine(n)
  BY <1>1 DEF BareLine
<1>16. replies'[n] = replies[n] /\ text = Sanitized(Echoed(replies[n].text, how))
       /\ calls = ToolUses(replies[n].calls) /\ list = Sendable(replies[n].blocks)
  BY <1>1 DEF text, told, calls, list
<1>17. (Remembered(n)' /\ ~(how = "trimmed" /\ BareLine(n)')) =>
          /\ rebuilt # {} /\ Unwritten(out) = Unwritten(list)
          /\ how = "exact" => out = Visible(list)
  BY <1>12, <1>14, <1>15
<1>18. calls = [i \in DOMAIN replies[n].calls |->
                   IF Parses(replies[n].calls[i].input) THEN replies[n].calls[i]
                   ELSE [replies[n].calls[i] EXCEPT !.input = <<>>]]
  <2>1. replies[n].calls \in Seq(Made)
    <3> DEFINE R == Reply
    <3>1. replies \in Seq(R)
      BY DEF StreamInv, StreamTypes
    <3> HIDE DEF R
    <3>2. replies[n] \in R
      BY <3>1
    <3> QED BY <3>2 DEF R, Reply
  <2>2. \A i \in DOMAIN replies[n].calls : replies[n].calls[i] \in Made
    <3> DEFINE M == Made
               c == replies[n].calls
    <3>1. c \in Seq(M)
      BY <2>1
    <3> HIDE DEF M, c
    <3>2. \A i \in DOMAIN c : c[i] \in M
      BY <3>1
    <3> QED BY <3>2 DEF M, c
  <2> QED BY <1>16, <2>2, UsableAsInput DEF ToolUses, UsableCall
<1> HIDE DEF kept
<1> QED BY <1>11, <1>13, <1>16, <1>17, <1>18 DEF SentBackWhole

\* What a stash of any size, none included, has after a layout is put into it.
LEMMA PutKeeps ==
    ASSUME NEW E, NEW store \in Seq(E), OnePerKey(store), NEW max \in Nat, Len(store) <= max,
           NEW key, NEW value, NEW t, Entry(key, value, t) \in E
    PROVE  LET new == AfterPut(store, key, value, t, max) IN
           /\ new \in Seq(E) /\ OnePerKey(new) /\ Len(new) <= max
           /\ \A e \in Entries(new) : e = Entry(key, value, t) \/ e \in Entries(store)
<1>1. CASE max # 0
  <2>1. max \in Nat \ {0}
    BY <1>1
  <2> QED BY <2>1, PutEntries
<1>2. CASE max = 0
  <2> DEFINE new == AfterPut(store, key, value, t, max)
             full == Append(Without(store, key), Entry(key, value, t))
  <2>1. store = <<>>
    BY <1>2
  <2>2. Without(store, key) = <<>>
    BY <2>1 DEF Without, Places
  <2>3. Len(full) = 1 /\ Tail(full) = <<>>
    BY <2>2
  <2>4. new = <<>>
    <3>1. new = IF Len(full) > max THEN Tail(full) ELSE full
      BY DEF AfterPut
    <3> HIDE DEF new, full
    <3> QED BY <1>2, <2>3, <3>1
  <2> HIDE DEF new
  <2>5. new \in Seq(E) /\ Len(new) = 0 /\ DOMAIN new = {}
    BY <2>4
  <2> QED BY <1>2, <2>5 DEF OnePerKey, Entries, new
<1> QED BY <1>1, <1>2

\* Where the reply that was sent back and the stash stay, what holds of them stays.
LEMMA SentStays ==
    ASSUME SentBackWhole, SentTypes, sent' = sent, replies \in Seq(Reply),
           \A m \in DOMAIN replies : replies'[m] = replies[m],
           \A m \in DOMAIN replies : Remembered(m)' => Remembered(m)
    PROVE  SentBackWhole'
<1> SUFFICES ASSUME sent.reply # 0
             PROVE  LET n == sent.reply IN
                    /\ Written(TextOf(sent.blocks)) = Written(Sanitized(Echoed(replies'[n].text, sent.how)))
                    /\ CallsOf(sent.blocks) = [i \in DOMAIN replies'[n].calls |->
                                                 IF Parses(replies'[n].calls[i].input) THEN replies'[n].calls[i]
                                                 ELSE [replies'[n].calls[i] EXCEPT !.input = <<>>]]
                    /\ Remembered(n)' /\ ~(sent.how = "trimmed" /\ BareLine(n)') =>
                          /\ sent.hit
                          /\ Unwritten(sent.blocks) = Unwritten(Sendable(replies'[n].blocks))
                          /\ sent.how = "exact" => sent.blocks = Visible(Sendable(replies'[n].blocks))
  BY DEF SentBackWhole
<1> DEFINE n == sent.reply
           R == Reply
<1>1. n \in DOMAIN replies
  <2>1. replies \in Seq(R) /\ n \in 0..Len(replies) /\ n # 0
    BY DEF SentTypes
  <2> HIDE DEF R, n
  <2> QED BY <2>1
<1>2. replies'[n] = replies[n] /\ (Remembered(n)' => Remembered(n))
  BY <1>1
<1>3. BareLine(n)' = BareLine(n)
  BY <1>2 DEF BareLine
<1> QED BY <1>2, <1>3 DEF SentBackWhole

\* A step that leaves replies and stash alone, and what was sent, if it does not forget it.
LEMMA RestStays ==
    ASSUME StreamInv, SendInv, now' \in Nat, replies' = replies, stash' = stash, sent' \in {sent, NotSent},
           pc' \in {"open", "stopped"} => OfReply(Len(replies) + 1, blocks')
    PROVE  SendInv'
<1>1. replies \in Seq(Reply) /\ SentBackWhole /\ SentTypes
  BY DEF StreamInv, StreamTypes, SendInv
<1>2. \A m \in DOMAIN replies : Remembered(m)' => Remembered(m)
  BY DEF Remembered
<1>3. SentBackWhole' /\ SentTypes'
  <2>1. CASE sent' = sent
    <3>1. SentTypes'
      BY <1>1, <2>1 DEF SentTypes
    <3> HIDE DEF Reply
    <3> QED BY <1>1, <1>2, <2>1, <3>1, SentStays
  <2>2. CASE sent' = NotSent
    <3>1. sent'.reply = 0 /\ sent'.how = "exact"
      BY <2>2 DEF NotSent
    <3>2. Len(replies) \in Nat
      <4> DEFINE R == Reply
      <4>1. replies \in Seq(R)
        BY <1>1
      <4> HIDE DEF R
      <4> QED BY <4>1
    <3> QED BY <3>1, <3>2 DEF SentBackWhole, SentTypes
  <2> QED BY <2>1, <2>2
<1>4. RepliesInStep' /\ StashInv'
  BY DEF SendInv, RepliesInStep, StashInv, Of
<1>5. pc' \in {"open", "stopped"} => OfReply(Len(replies') + 1, blocks')
  OBVIOUS
<1> QED BY <1>3, <1>4, <1>5 DEF SendInv

\* A reply begins.
LEMMA StartSends == StreamInv /\ SendInv /\ MessageStart => SendInv'
<1> SUFFICES ASSUME StreamInv, SendInv, MessageStart PROVE SendInv'
  OBVIOUS
<1>1. now' = now /\ blocks' = <<>> /\ replies' = replies /\ stash' = stash /\ sent' = NotSent
  BY DEF MessageStart
<1>2. OfReply(Len(replies) + 1, <<>>)
  <2>1. <<>> \in Seq(Content) /\ DOMAIN <<>> = {}
    OBVIOUS
  <2> QED BY <2>1 DEF OfReply, Sealed
<1>3. now \in Nat
  BY DEF SendInv
<1> QED BY <1>1, <1>2, <1>3, RestStays

\* A block begins: it has the next identifier.
LEMMA BlockStartSends ==
    ASSUME NEW kind \in Kinds, StreamInv, SendInv, BlockStart(kind) PROVE SendInv'
<1> DEFINE m == Len(replies) + 1
           N == Len(blocks)
           b == Block(kind, <<m, N + 1>>, <<>>)
<1>1. /\ now' = now /\ pc = "open" /\ blocks' = Append(blocks, b)
      /\ replies' = replies /\ stash' = stash /\ sent' = sent
  BY DEF BlockStart
<1>2. blocks \in Seq(Content) /\ Sealed(blocks) /\ \A i \in DOMAIN blocks : blocks[i].id = <<m, i>>
  BY <1>1 DEF SendInv, OfReply
<1>3. b = [kind |-> kind, id |-> <<m, N + 1>>, data |-> <<>>]
  BY DEF Block
<1>4. N \in Nat /\ DOMAIN blocks = 1..N
  <2> HIDE DEF Content
  <2> QED BY <1>2
<1>5. m \in Nat
  <2> DEFINE R == Reply
  <2>1. replies \in Seq(R)
    BY DEF StreamInv, StreamTypes
  <2> HIDE DEF R
  <2> QED BY <2>1
<1> HIDE DEF b, m, N
<1>6. b \in Content /\ b.id = <<m, N + 1>> /\ b.data = <<>>
  <2>1. <<m, N + 1>> \in Id
    BY <1>4, <1>5 DEF Id
  <2>2. <<>> \in Seq(Char)
    OBVIOUS
  <2> HIDE DEF Kinds, Id, Char
  <2> QED BY <1>3, <2>1, <2>2 DEF Content
<1> DEFINE more == Append(blocks, b)
<1>7. /\ more \in Seq(Content) /\ DOMAIN more = 1..(N + 1)
      /\ \A i \in 1..N : more[i] = blocks[i]
      /\ more[N + 1] = b
  <2> DEFINE C == Content
  <2>1. blocks \in Seq(C) /\ b \in C
    BY <1>2, <1>6
  <2> HIDE DEF C
  <2>2. more \in Seq(C) /\ DOMAIN more = 1..(Len(blocks) + 1) /\ more[Len(blocks) + 1] = b
        /\ \A i \in 1..Len(blocks) : more[i] = blocks[i]
    BY <2>1, AppendProperties
  <2> QED BY <2>2 DEF C, N
<1> HIDE DEF more
<1>8. \A i \in 1..(N + 1) : i \in 1..N \/ i = N + 1
  BY <1>4
<1>9. OfReply(m, more)
  BY <1>2, <1>4, <1>6, <1>7, <1>8 DEF OfReply, Sealed
<1>10. now \in Nat
  BY DEF SendInv
<1> QED BY <1>1, <1>9, <1>10, RestStays DEF m, more

\* A delta is not for thinking, and its block stays the block it is.
LEMMA DeltaSends ==
    ASSUME NEW c \in Char, StreamInv, SendInv, Delta(c) PROVE SendInv'
<1> DEFINE k == Len(blocks)
           m == Len(replies) + 1
           list == blocks'
<1>1. /\ now' = now /\ pc = "open" /\ k > 0 /\ blocks[k].kind # "thinking"
      /\ list = [blocks EXCEPT ![k].data = Append(@, c)]
      /\ replies' = replies /\ stash' = stash /\ sent' = sent
  BY DEF Delta
<1>2. blocks \in Seq(Content) /\ Sealed(blocks) /\ \A i \in DOMAIN blocks : blocks[i].id = <<m, i>>
  BY <1>1 DEF SendInv, OfReply
<1>3. StreamInv'
  BY DeltaKeeps
<1>4. list \in Seq(Content)
  BY <1>3 DEF StreamInv, StreamTypes
<1>5. /\ DOMAIN list = DOMAIN blocks
      /\ \A i \in DOMAIN blocks : i # k => list[i] = blocks[i]
      /\ list[k] = [blocks[k] EXCEPT !.data = Append(@, c)]
  <2>1. k \in DOMAIN blocks
    <3> HIDE DEF Content
    <3> QED BY <1>1, <1>2
  <2> HIDE DEF k
  <2> QED BY <1>1, <2>1
<1>6. k \in DOMAIN blocks => list[k].id = blocks[k].id /\ list[k].kind = blocks[k].kind
  <2> DEFINE b == blocks[k]
             a == Append(b.data, c)
  <2> SUFFICES ASSUME k \in DOMAIN blocks PROVE list[k].id = b.id /\ list[k].kind = b.kind
    OBVIOUS
  <2>1. b \in Content
    <3> HIDE DEF Content, k
    <3> QED BY <1>2
  <2>2. list[k] = [b EXCEPT !.data = a]
    BY <1>5
  <2> HIDE DEF a, b
  <2>3. [b EXCEPT !.data = a].id = b.id /\ [b EXCEPT !.data = a].kind = b.kind
    BY <2>1 DEF Content
  <2> QED BY <2>2, <2>3
<1> HIDE DEF k, list, m
<1>7. OfReply(m, list)
  BY <1>1, <1>2, <1>4, <1>5, <1>6 DEF OfReply, Sealed
<1>8. now \in Nat
  BY DEF SendInv
<1> QED BY <1>1, <1>7, <1>8, RestStays DEF m, list

\* The stream ends: the new layout is that of the new reply and of no other.
LEMMA EndSends == StreamInv /\ SendInv /\ StreamEnd => SendInv'
<1> SUFFICES ASSUME StreamInv, SendInv, StreamEnd PROVE SendInv'
  OBVIOUS
<1> DEFINE N == Len(replies)
           r == [blocks |-> blocks, text |-> chat'.text, calls |-> chat'.calls]
           T == TextOf(blocks)
           value == Layout(blocks)
           key == TurnKey(T, IdsOf(blocks))
           new == Entry(key, value, now)
           thinks == \E i \in DOMAIN blocks : blocks[i].kind = "thinking"
<1>1. /\ pc \in {"open", "stopped"} /\ pc' = "over" /\ now' = now /\ sent' = sent
      /\ stash' = stash \/ stash' = Stashed
      /\ replies' = Append(replies, r)
      /\ chat' = IF mode = "stream" THEN [chat EXCEPT !.usage = @ + 1]
                 ELSE [text |-> T, calls |-> CallsOf(blocks), finished |-> 1, usage |-> 1]
  BY DEF StreamEnd
<1>2. OfReply(N + 1, blocks) /\ now \in Nat /\ SentBackWhole
  BY <1>1 DEF SendInv
<1>3. blocks \in Seq(Content) /\ T \in Seq(Char)
  <2>1. blocks \in Seq(Content)
    BY <1>2 DEF OfReply
  <2> QED BY <2>1, CallIds
<1>4. replies \in Seq(Reply) /\ StreamInv' /\ chat \in Assembled
  BY StreamEndKeeps DEF StreamInv, StreamTypes
<1>5. chat'.text \in {T, LineText \o T}
  <2>1. CASE mode = "stream"
    <3>1. chat.text = LineShown \o T
      BY <1>1, <2>1 DEF StreamInv, ChatInStep
    <3>2. LineShown = LineText \/ LineShown = <<>>
      BY DEF LineShown, LineText
    <3>3. <<>> \o T = T
      <4> HIDE DEF T, Char
      <4> QED BY <1>3
    <3>4. chat'.text = chat.text
      <4> DEFINE u == chat.usage + 1
      <4>1. chat' = [chat EXCEPT !.usage = u]
        BY <1>1, <2>1
      <4> HIDE DEF u
      <4>2. [chat EXCEPT !.usage = u].text = chat.text
        BY <1>4 DEF Assembled
      <4> QED BY <4>1, <4>2
    <3> QED BY <3>1, <3>2, <3>3, <3>4
  <2>2. CASE mode # "stream"
    <3>1. chat' = [text |-> T, calls |-> CallsOf(blocks), finished |-> 1, usage |-> 1]
      BY <1>1, <2>2
    <3> HIDE DEF T
    <3> QED BY <3>1
  <2> QED BY <2>1, <2>2
<1>6. /\ N \in Nat /\ Len(replies') = N + 1 /\ DOMAIN replies = 1..N /\ DOMAIN replies' = 1..(N + 1)
      /\ \A m \in 1..N : replies'[m] = replies[m]
      /\ replies'[N + 1] = r
  <2> DEFINE R == Reply
  <2>1. replies \in Seq(R)
    BY <1>4
  <2> HIDE DEF R, r
  <2> QED BY <1>1, <2>1
<1>7. r.blocks = blocks /\ r.text = chat'.text
  OBVIOUS
<1>8. stash \in Seq(Memories) /\ OnePerKey(stash) /\ Len(stash) <= STASH_ITEMS
      /\ \A e \in Entries(stash) : \E m \in DOMAIN replies : Of(e.value, m)
  BY DEF SendInv, StashInv
<1>9. new \in Memories
  BY <1>2, <1>3 DEF Memories
<1>10. /\ stash' \in Seq(Memories) /\ OnePerKey(stash') /\ Len(stash') <= STASH_ITEMS
       /\ \A e \in Entries(stash') : e \in Entries(stash) \/ (e = new /\ thinks)
  <2>1. CASE stash' = stash
    BY <1>8, <2>1
  <2>2. CASE stash' = AfterPut(stash, key, value, now, STASH_ITEMS) /\ thinks
    <3> DEFINE M == Memories
    <3>1. stash \in Seq(M) /\ new \in M /\ STASH_ITEMS \in Nat
      BY <1>8, <1>9, ClaudeAssumption
    <3> HIDE DEF M, key, value, thinks
    <3>2. LET s == AfterPut(stash, key, value, now, STASH_ITEMS) IN
          /\ s \in Seq(M) /\ OnePerKey(s) /\ Len(s) <= STASH_ITEMS
          /\ \A e \in Entries(s) : e = Entry(key, value, now) \/ e \in Entries(stash)
      BY <1>8, <3>1, PutKeeps
    <3> QED BY <2>2, <3>2 DEF M
  <2>3. stash' = stash \/ (stash' = AfterPut(stash, key, value, now, STASH_ITEMS) /\ thinks)
    BY <1>1 DEF Stashed
  <2> QED BY <2>1, <2>2, <2>3
<1> HIDE DEF r, new, thinks, N
<1>11. \A m \in DOMAIN replies : \A l : Of(l, m) => Of(l, m)'
  BY <1>6 DEF Of
<1>12. \A l, m : thinks /\ l = value /\ m = N + 1 => Of(l, m)'
  BY <1>6, <1>7 DEF Of, thinks
<1> HIDE DEF value
<1>13. new.value = value
  <2> HIDE DEF key
  <2> QED BY DEF new, Entry
<1>14. StashInv'
  <2> SUFFICES ASSUME NEW e \in Entries(stash') PROVE \E m \in DOMAIN replies' : Of(e.value, m)'
    BY <1>10 DEF StashInv
  <2>1. CASE e \in Entries(stash)
    <3>1. PICK m \in DOMAIN replies : Of(e.value, m)
      BY <1>8, <2>1
    <3>2. Of(e.value, m)' /\ m \in DOMAIN replies'
      BY <1>6, <1>11, <3>1
    <3> QED BY <3>2
  <2>2. CASE e = new /\ thinks
    <3>1. PICK m : m = N + 1
      OBVIOUS
    <3>2. Of(e.value, m)' /\ m \in DOMAIN replies'
      BY <1>6, <1>12, <1>13, <2>2, <3>1
    <3> QED BY <3>2
  <2> QED BY <1>10, <2>1, <2>2
<1>15. RepliesInStep'
  <2> SUFFICES ASSUME NEW m \in 1..(N + 1)
               PROVE  /\ OfReply(m, replies'[m].blocks)
                      /\ replies'[m].text \in {TextOf(replies'[m].blocks), LineText \o TextOf(replies'[m].blocks)}
    BY <1>6 DEF RepliesInStep
  <2>1. CASE m \in 1..N
    BY <1>6, <2>1 DEF SendInv, RepliesInStep
  <2>2. CASE m = N + 1
    BY <1>2, <1>5, <1>6, <1>7, <2>2
  <2> QED BY <1>6, <2>1, <2>2
<1>16. SentTypes'
  BY <1>1, <1>6 DEF SendInv, SentTypes, N
<1>17. \A m \in DOMAIN replies : Remembered(m)' => Remembered(m)
  <2> SUFFICES ASSUME NEW m \in DOMAIN replies, NEW i \in DOMAIN stash', stash'[i].value = Layout(replies'[m].blocks)
               PROVE  Remembered(m)
    BY DEF Remembered
  <2>1. stash'[i] \in Entries(stash') /\ replies'[m] = replies[m]
    BY <1>6 DEF Entries
  <2>2. CASE stash'[i] \in Entries(stash)
    <3>1. PICK j \in DOMAIN stash : stash[j] = stash'[i]
      BY <2>2 DEF Entries
    <3> QED BY <2>1, <3>1 DEF Remembered
  <2>3. CASE stash'[i] = new /\ thinks
    <3>1. Layout(blocks) = Layout(replies[m].blocks)
      BY <1>13, <2>1, <2>3 DEF value
    <3>2. PICK j \in DOMAIN blocks : TRUE
      BY <2>3 DEF thinks
    <3>3. OfReply(m, replies[m].blocks)
      BY DEF SendInv, RepliesInStep
    <3>4. N + 1 = m
      BY <1>2, <3>1, <3>2, <3>3, SameLayout
    <3> QED BY <1>6, <3>4
  <2> QED BY <1>10, <2>1, <2>2, <2>3
<1>18. SentBackWhole'
  <2>1. SentTypes /\ SentBackWhole
    BY DEF SendInv
  <2>2. \A m \in DOMAIN replies : replies'[m] = replies[m]
    BY <1>6
  <2> HIDE DEF Reply
  <2> QED BY <1>1, <1>4, <1>17, <2>1, <2>2, SentStays
<1> QED BY <1>1, <1>2, <1>14, <1>15, <1>16, <1>18 DEF SendInv

\* A reply is sent back: the stash loses an entry at most.
LEMMA SendBackSends ==
    ASSUME StreamInv, SendInv, NEW n \in DOMAIN replies, NEW how \in {"exact", "trimmed"}, SendBack(n, how)
    PROVE  SendInv'
<1>1. SentBackWhole'
  BY SendBackWhole
<1> DEFINE calls == ToolUses(replies[n].calls)
           key == TurnKey(Sanitized(Echoed(replies[n].text, how)), [i \in DOMAIN calls |-> calls[i].id])
<1>2. /\ now' = now /\ pc = "over" /\ pc' = pc /\ blocks' = blocks /\ replies' = replies
      /\ stash' = AfterGet(stash, key, now, STASH_TTL)
      /\ sent'.reply = n /\ sent'.how = how
  BY DEF SendBack
<1> HIDE DEF key
<1>3. stash' \in Seq(Memories) /\ OnePerKey(stash') /\ Len(stash') <= Len(stash)
      /\ Entries(stash') \subseteq Entries(stash)
  <2> DEFINE M == Memories
  <2>1. stash \in Seq(M) /\ OnePerKey(stash)
    BY DEF SendInv, StashInv
  <2> HIDE DEF M
  <2>2. LET s == AfterGet(stash, key, now, STASH_TTL) IN
        /\ s \in Seq(M) /\ OnePerKey(s) /\ Len(s) <= Len(stash) /\ Entries(s) \subseteq Entries(stash)
    BY <2>1, GetEntries
  <2> QED BY <1>2, <2>2 DEF M
<1>4. Len(stash') <= STASH_ITEMS
  <2> DEFINE M == Memories
  <2>1. stash \in Seq(M) /\ Len(stash) <= STASH_ITEMS /\ STASH_ITEMS \in Nat /\ stash' \in Seq(M)
    BY <1>3, ClaudeAssumption DEF SendInv, StashInv
  <2> HIDE DEF M
  <2>2. Len(stash) \in Nat /\ Len(stash') \in Nat
    BY <2>1
  <2> QED BY <1>3, <2>1, <2>2
<1>5. StashInv'
  <2>1. \A e \in Entries(stash') : \E m \in DOMAIN replies : Of(e.value, m)
    BY <1>3 DEF SendInv, StashInv
  <2>2. \A e \in Entries(stash') : \E m \in DOMAIN replies' : Of(e.value, m)'
    BY <1>2, <2>1 DEF Of
  <2> QED BY <1>3, <1>4, <2>2 DEF StashInv
<1>6. RepliesInStep'
  BY <1>2 DEF SendInv, RepliesInStep
<1>7. SentTypes'
  <2> DEFINE R == Reply
  <2>1. replies \in Seq(R)
    BY DEF StreamInv, StreamTypes
  <2> HIDE DEF R
  <2>2. n \in 0..Len(replies)
    BY <2>1
  <2> QED BY <1>2, <2>2 DEF SentTypes
<1>8. now \in Nat
  BY DEF SendInv
<1> QED BY <1>1, <1>2, <1>5, <1>6, <1>7, <1>8 DEF SendInv

\* Nothing has been sent back at first.
LEMMA SendBegins == ClaudeInit => SendInv
<1> SUFFICES ASSUME ClaudeInit PROVE SendInv
  OBVIOUS
<1>1. /\ now = 0 /\ pc = "none" /\ stash = <<>> /\ replies = <<>>
      /\ sent = [reply |-> 0, how |-> "exact", blocks |-> <<>>, hit |-> FALSE]
  BY DEF ClaudeInit, NotSent
<1>2. DOMAIN replies = {} /\ DOMAIN stash = {} /\ Len(replies) = 0 /\ Len(stash) = 0
  BY <1>1
<1>3. stash \in Seq(Memories) /\ STASH_ITEMS \in Nat
  BY <1>1, ClaudeAssumption
<1>4. RepliesInStep /\ StashInv
  BY <1>2, <1>3 DEF RepliesInStep, StashInv, OnePerKey, Entries
<1>5. SentTypes /\ SentBackWhole
  BY <1>1, <1>2 DEF SentTypes, SentBackWhole
<1> QED BY <1>1, <1>4, <1>5 DEF SendInv

\* Every step keeps the invariant.
LEMMA SendKeeps == StreamInv /\ SendInv /\ [ClaudeNext]_claudeVars => SendInv'
<1> SUFFICES ASSUME StreamInv, SendInv, [ClaudeNext]_claudeVars PROVE SendInv'
  OBVIOUS
<1>1. now \in Nat /\ (pc \in {"open", "stopped"} => OfReply(Len(replies) + 1, blocks))
  BY DEF SendInv
<1>2. CASE MessageStart
  BY <1>2, StartSends
<1>3. CASE \E kind \in {"thinking", "text", "tool"} : BlockStart(kind)
  BY <1>3, BlockStartSends DEF Kinds
<1>4. CASE \E c \in Char : Delta(c)
  BY <1>4, DeltaSends
<1>5. CASE MessageStop
  <2>1. /\ now' = now /\ pc = "open" /\ blocks' = blocks
        /\ replies' = replies /\ stash' = stash /\ sent' = sent
    BY <1>5 DEF MessageStop
  <2> QED BY <1>1, <2>1, RestStays
<1>6. CASE StreamEnd
  BY <1>6, EndSends
<1>7. CASE Break
  <2>1. now' = now /\ pc' = "over" /\ replies' = replies /\ stash' = stash /\ sent' = sent
    BY <1>7 DEF Break
  <2> QED BY <1>1, <2>1, RestStays
<1>8. CASE \E n \in DOMAIN replies, how \in {"exact", "trimmed"} : SendBack(n, how)
  BY <1>8, SendBackSends
<1>9. CASE ClaudeTick
  <2>1. now' = now + 1 /\ pc' = pc /\ blocks' = blocks /\ replies' = replies /\ stash' = stash /\ sent' = sent
    BY <1>9 DEF ClaudeTick
  <2>2. now' \in Nat
    BY <1>1, <2>1
  <2> QED BY <1>1, <2>1, <2>2, RestStays
<1>10. CASE UNCHANGED claudeVars
  <2>1. now' = now /\ pc' = pc /\ blocks' = blocks /\ replies' = replies /\ stash' = stash /\ sent' = sent
    BY <1>10 DEF claudeVars
  <2> QED BY <1>1, <2>1, RestStays
<1> QED BY <1>2, <1>3, <1>4, <1>5, <1>6, <1>7, <1>8, <1>9, <1>10 DEF ClaudeNext

\* The invariant holds in every state.
LEMMA SendInvHolds == ClaudeSpec => [](StreamInv /\ SendInv)
BY SendBegins, SendKeeps, StreamInvHolds, PTL DEF ClaudeSpec

\* Whatever the stash holds, has evicted or has let expire, a reply that the client
\* sends back reaches Claude with every character and every tool call, and these with
\* every input that is whole; and one that is still remembered goes back as Claude
\* produced it, but for inputs that were cut short: for any replies, any texts, a
\* stash of any size.
THEOREM SentBackAlwaysWhole == ClaudeSpec => []SentBackWhole
<1>1. SendInv => SentBackWhole
  BY DEF SendInv
<1> QED BY <1>1, SendInvHolds, PTL

-----------------------------------------------------------------------------
(* Types. *)

\* What the other invariants do not say of the types.
ToolsAreTools ==
    /\ now \in 0..MaxTime
    /\ pc \in {"none", "open", "stopped", "over"}
    /\ \A i \in DOMAIN toolIndex : blocks[toolIndex[i]].kind = "tool"

\* Every step keeps them.
LEMMA ToolsStayTools == StreamInv /\ ToolsAreTools /\ [ClaudeNext]_claudeVars => ToolsAreTools'
<1> SUFFICES ASSUME StreamInv, ToolsAreTools, [ClaudeNext]_claudeVars PROVE ToolsAreTools'
  OBVIOUS
<1>1. /\ toolIndex \in Seq(Nat) /\ blocks \in Seq(Content) /\ DOMAIN toolIndex = 1..Len(toolIndex)
      /\ Len(toolIndex) \in Nat /\ Len(blocks) \in Nat /\ DOMAIN blocks = 1..Len(blocks)
      /\ \A i \in DOMAIN toolIndex : toolIndex[i] \in 1..Len(blocks)
  <2>1. toolIndex \in Seq(Nat) /\ blocks \in Seq(Content)
        /\ \A i \in 1..Len(toolIndex) : toolIndex[i] \in 1..Len(blocks)
    BY DEF StreamInv, StreamTypes, ToolsInStep
  <2> HIDE DEF Content
  <2> QED BY <2>1
<1>2. now' \in 0..MaxTime
  <2>1. now' = now \/ (now < MaxTime /\ now' = now + 1)
    BY DEF ClaudeNext, claudeVars, MessageStart, BlockStart, Delta, MessageStop, StreamEnd, Break, SendBack, ClaudeTick
  <2> QED BY <2>1, ClaudeAssumption DEF ToolsAreTools
<1>3. pc' \in {"none", "open", "stopped", "over"}
  BY DEF ToolsAreTools, ClaudeNext, claudeVars, MessageStart, BlockStart, Delta, MessageStop, StreamEnd, Break,
         SendBack, ClaudeTick
<1> DEFINE Tools == \A i \in DOMAIN toolIndex : blocks[toolIndex[i]].kind = "tool"
<1>4. Tools
  BY DEF ToolsAreTools
<1>5. Tools'
  <2>1. CASE blocks' = blocks /\ toolIndex' = toolIndex
    BY <1>4, <2>1
  <2>2. CASE MessageStart
    BY <2>2 DEF MessageStart
  <2>3. ASSUME NEW kind \in Kinds, BlockStart(kind) PROVE Tools'
    <3> DEFINE n == Len(blocks)
               k == Len(toolIndex)
               b == Block(kind, <<Len(replies) + 1, n + 1>>, <<>>)
               C == Content
    <3>1. /\ blocks' = Append(blocks, b)
          /\ toolIndex' = IF kind = "tool" THEN Append(toolIndex, n + 1) ELSE toolIndex
      BY <2>3 DEF BlockStart
    <3>2. b.kind = kind
      BY DEF Block
    <3> HIDE DEF b, C
    <3>3. \A i \in 1..n : blocks'[i] = blocks[i]
      BY <1>1, <3>1
    <3>4. blocks'[n + 1] = b
      BY <1>1, <3>1
    <3>5. \A i \in 1..k : blocks'[toolIndex[i]].kind = "tool"
      BY <1>1, <1>4, <3>3
    <3> HIDE DEF Content
    <3>6. CASE kind # "tool"
      BY <1>1, <3>1, <3>5, <3>6
    <3>7. CASE kind = "tool"
      <4>1. toolIndex' = Append(toolIndex, n + 1)
        BY <3>1, <3>7
      <4>2. /\ DOMAIN toolIndex' = 1..(k + 1)
            /\ toolIndex'[k + 1] = n + 1
            /\ \A i \in 1..k : toolIndex'[i] = toolIndex[i]
        BY <1>1, <4>1
      <4>3. \A i \in 1..(k + 1) : i \in 1..k \/ i = k + 1
        BY <1>1
      <4> HIDE DEF k, n
      <4> QED BY <3>2, <3>4, <3>5, <3>7, <4>2, <4>3
    <3> QED BY <3>6, <3>7
  <2>4. ASSUME NEW c \in Char, Delta(c) PROVE Tools'
    <3> DEFINE k == Len(blocks)
               a == Append(blocks[k].data, c)
    <3>1. k > 0 /\ blocks' = [blocks EXCEPT ![k].data = a] /\ toolIndex' = toolIndex
      BY <2>4 DEF Delta
    <3>2. k \in DOMAIN blocks
      BY <1>1, <3>1
    <3> HIDE DEF a, k
    <3>3. \A i \in DOMAIN blocks : blocks'[i].kind = blocks[i].kind
      <4> SUFFICES ASSUME NEW i \in DOMAIN blocks PROVE blocks'[i].kind = blocks[i].kind
        OBVIOUS
      <4>1. CASE i # k
        BY <3>1, <3>2, <4>1
      <4>2. CASE i = k
        <5> DEFINE b == blocks[k]
        <5>1. b \in Content
          <6> HIDE DEF Content
          <6> QED BY <1>1, <3>2
        <5>2. blocks'[k] = [b EXCEPT !.data = a]
          BY <3>1, <3>2
        <5> HIDE DEF b
        <5>3. [b EXCEPT !.data = a].kind = b.kind
          BY <5>1 DEF Content
        <5> QED BY <4>2, <5>2, <5>3 DEF b
      <4> QED BY <4>1, <4>2
    <3> QED BY <1>1, <1>4, <3>1, <3>3
  <2> QED BY <2>1, <2>2, <2>3, <2>4
          DEF ClaudeNext, claudeVars, Kinds, MessageStop, StreamEnd, Break, SendBack, ClaudeTick
<1> QED BY <1>2, <1>3, <1>5 DEF ToolsAreTools

\* There are no tool calls at first.
LEMMA ToolsBegin == ClaudeInit => ToolsAreTools
BY ClaudeAssumption DEF ClaudeInit, ToolsAreTools

\* The types, from the three invariants.
LEMMA ClaudeTypes == StreamInv /\ SendInv /\ ToolsAreTools => ClaudeTypeOK
<1> SUFFICES ASSUME StreamInv, SendInv, ToolsAreTools PROVE ClaudeTypeOK
  OBVIOUS
<1>1. \A i \in DOMAIN blocks : blocks[i].kind \in {"thinking", "text", "tool"}
  <2> DEFINE C == Content
  <2>1. blocks \in Seq(C)
    BY DEF StreamInv, StreamTypes
  <2>2. \A b \in C : b.kind \in {"thinking", "text", "tool"}
    BY DEF Content, Kinds
  <2> HIDE DEF C
  <2> QED BY <2>1, <2>2
<1>2. StoreOK(stash, STASH_ITEMS)
  BY DEF SendInv, StashInv, StoreOK, OnePerKey
<1>3. sent.reply \in 0..Len(replies)
  BY DEF SendInv, SentTypes
<1> QED BY <1>1, <1>2, <1>3 DEF ClaudeTypeOK, ToolsAreTools

\* The state keeps its types: an index of a tool call is that of a tool block, the
\* stash has STASH_ITEMS entries at most, one for a key.
THEOREM ClaudeTypesKept == ClaudeSpec => []ClaudeTypeOK
BY ToolsBegin, ClaudeTypes, StreamInvHolds, SendInvHolds, ToolsStayTools, PTL DEF ClaudeSpec
=============================================================================
