---------------------------- MODULE ServingProofs ----------------------------
(***************************************************************************)
(* Proofs about Serving, for any models, lists of candidates, slots and    *)
(* breaker settings.                                                       *)
(*                                                                         *)
(* The argument: a request is good if its meter follows what was sent      *)
(* (Metered), if what is left to fail over to has no duplicates and was    *)
(* not tried (Untried), and if every candidate with a price was tried,     *)
(* passed over, refused a key or is left (Covered). A step changes one     *)
(* request, and only a search for the next candidate changes the last two; *)
(* so the proof is about that search, and each step is shown to make a     *)
(* good request of a good one. The breaker is apart: its count of failures *)
(* stays below the streak, which a success resets too.                     *)
(***************************************************************************)
EXTENDS Serving, TLAPS, WellFoundedInduction

(* A sequence without duplicates.                                          *)
Distinct(s) == \A i, j \in 1..Len(s) : s[i] = s[j] => i = j

Has(s, m) == \E i \in 1..Len(s) : s[i] = m

(* Until the bill is due there is none, and the meter is empty as long as  *)
(* nothing was sent; then there is one exactly if something was.           *)
Metered(h, g) ==
    /\ h.pc \in Waiting \cup {"erroring"} =>
         /\ h.bills = <<>>
         /\ h.model \in Model
         /\ g.source \in {NoModel, h.model}
         /\ h.meter = "empty" <=> g.source = NoModel
    /\ h.pc = "calling" => g.source = NoModel
    /\ h.pc = "streaming" => g.source = h.model
    /\ h.pc \in Over \cup {"finishing"} =>
         h.bills = IF g.source = NoModel THEN <<>> ELSE <<g.source>>

Untried(rest, tried) ==
    Distinct(rest) /\ Distinct(tried) /\ \A m \in Model : Has(rest, m) => ~Has(tried, m)

Covered(rest, g) ==
    \A m \in priced :
        Has(g.chain, m) => m \in g.skipped \cup g.keyless \/ Has(g.tried, m) \/ Has(rest, m)

(* What is left plays no part once a request has failed.                   *)
Exhausted(h, g) ==
    /\ h.pc \in Waiting => ~h.failed
    /\ h.pc = "calling" => Covered(h.rest, g)
    /\ h.auto /\ h.failed /\ g.source = NoModel /\ ~g.raised => Covered(<<>>, g)

Good(h, g) ==
    h \in Handler /\ g \in History /\ Metered(h, g) /\ Untried(h.rest, g.tried) /\ Exhausted(h, g)

(* A breaker counts no more failures than there were without a success in  *)
(* between.                                                                *)
Counted ==
    \A m \in Model : failures[m] <= streak[m] /\ (cooling[m] > 0 => streak[m] = Limit)

ServingInv ==
    /\ TypeOK
    /\ \A r \in Request : Good(req[r], hist[r])
    /\ Counted

-----------------------------------------------------------------------------
(* Sequences.                                                              *)

LEMMA AppendDistinct ==
    ASSUME NEW s \in Seq(Model), NEW x \in Model, Distinct(s), ~Has(s, x)
    PROVE  /\ Append(s, x) \in Seq(Model) /\ Distinct(Append(s, x))
           /\ \A m : Has(Append(s, x), m) <=> (Has(s, m) \/ m = x)
<1> DEFINE t == Append(s, x)
           n == Len(s)
<1>1. /\ t \in Seq(Model) /\ n \in Nat /\ Len(t) = n + 1 /\ t[n + 1] = x
      /\ \A k \in 1..n : t[k] = s[k]
  OBVIOUS
<1>2. /\ \A j, k \in 1..n : s[j] = s[k] => j = k
      /\ \A k \in 1..n : s[k] # x
  BY DEF Distinct, Has
<1> HIDE DEF t
<1>3. \A k : k \in 1..(n + 1) <=> (k \in 1..n \/ k = n + 1)
  BY <1>1
<1> HIDE DEF n
<1>4. ASSUME NEW m PROVE (\E k \in 1..(n + 1) : t[k] = m) <=> ((\E k \in 1..n : s[k] = m) \/ m = x)
  BY <1>1, <1>3, Zenon
<1>5. ASSUME NEW j \in 1..(n + 1), NEW k \in 1..(n + 1), t[j] = t[k] PROVE j = k
  BY <1>1, <1>2, <1>3, <1>5
<1> QED BY <1>1, <1>4, <1>5 DEF Distinct, Has, t, n

LEMMA RemainingDistinct ==
    ASSUME NEW s \in Seq(Model), NEW i \in 1..Len(s), Distinct(s)
    PROVE  /\ Remaining(s, i) \in Seq(Model) /\ Distinct(Remaining(s, i))
           /\ \A m : Has(Remaining(s, i), m) => Has(s, m) /\ m # s[i]
           /\ \A k \in 1..Len(s) : k > i => Has(Remaining(s, i), s[k])
<1> DEFINE t == Remaining(s, i)
           n == Len(s)
<1>1. /\ t \in Seq(Model) /\ n \in Nat /\ Len(t) = n - i
      /\ \A k \in 1..(n - i) : t[k] = s[k + i]
  BY DEF Remaining
<1>2. \A j, k \in 1..n : s[j] = s[k] => j = k
  BY DEF Distinct
<1> HIDE DEF t
<1>3. ASSUME NEW j \in 1..(n - i), NEW k \in 1..(n - i), t[j] = t[k] PROVE j = k
  <2>1. j + i \in 1..n /\ k + i \in 1..n /\ s[j + i] = s[k + i]
    BY <1>1, <1>3
  <2>2. j + i = k + i
    BY <1>2, <2>1
  <2> QED BY <1>1, <2>2
<1>4. ASSUME NEW k \in 1..(n - i) PROVE Has(s, t[k]) /\ t[k] # s[i]
  <2>1. k + i \in 1..n /\ k + i # i /\ t[k] = s[k + i]
    BY <1>1
  <2> QED BY <1>2, <2>1 DEF Has
<1>5. ASSUME NEW k \in 1..n, k > i PROVE Has(t, s[k])
  <2>1. k - i \in 1..(n - i) /\ t[k - i] = s[(k - i) + i] /\ (k - i) + i = k
    BY <1>1, <1>5
  <2>2. k - i \in 1..Len(t) /\ t[k - i] = s[k]
    BY <1>1, <2>1
  <2> QED BY <2>2 DEF Has
<1>6. \A j \in 1..Len(t) : j \in 1..(n - i)
  BY <1>1
<1>7. Distinct(t)
  BY <1>3, <1>6 DEF Distinct
<1>8. ASSUME NEW m, Has(t, m) PROVE Has(s, m) /\ m # s[i]
  <2>1. PICK k \in 1..Len(t) : t[k] = m
    BY <1>8 DEF Has
  <2> QED BY <1>4, <1>6, <2>1
<1> HIDE DEF n
<1> QED BY <1>1, <1>5, <1>7, <1>8, Zenon DEF t, n

-----------------------------------------------------------------------------
(* The choice of a candidate.                                              *)

(* A candidate of a list is in front of the chosen place, is there or is   *)
(* left; in front of it, it was passed over or its key was refused.        *)
LEMMA SearchCovers ==
    ASSUME NEW list \in Seq(Model), Distinct(list), NEW rb \in BOOLEAN,
           NEW i \in Asked(list, rb), NEW m \in priced, Has(list, m),
           NEW passed, passed = {j \in 1..(i - 1) : rb /\ ~Available(list[j])},
           NEW refused, refused = Asked(list, rb) \cap 1..(i - 1)
    PROVE  \/ m \in {list[j] : j \in passed} \cup {list[j] : j \in refused}
           \/ m = list[i] \/ Has(Remaining(list, i), m)
<1>1. i \in 1..Len(list)
  BY DEF Asked
<1>2. PICK k \in 1..Len(list) : list[k] = m
  BY DEF Has
<1>3. CASE k < i
  <2>1. k \in 1..(i - 1)
    BY <1>1, <1>3
  <2>2. k \in passed \/ k \in refused
    BY <1>2, <2>1 DEF Asked
  <2> QED BY <1>2, <2>2
<1>4. CASE k = i
  BY <1>2, <1>4
<1>5. CASE k > i
  BY <1>1, <1>2, <1>5, RemainingDistinct
<1> QED BY <1>1, <1>3, <1>4, <1>5

(* A search that finds nothing covers the whole list, or it raised.        *)
LEMMA NothingFoundCovers ==
    ASSUME NEW g \in History, NEW list \in Seq(Model), Covered(list, g),
           NEW n \in NothingFound(g, list)
    PROVE  /\ n \in History /\ n.tried = g.tried /\ n.source = g.source /\ n.chain = g.chain
           /\ ~n.raised => Covered(<<>>, n)
<1>1. CASE n = [g EXCEPT !.raised = TRUE]
  BY <1>1 DEF History
<1>2. CASE n = [g EXCEPT !.keyless = @ \cup {list[i] : i \in Asked(list, FALSE)}]
  <2> DEFINE S == {list[i] : i \in Asked(list, FALSE)}
  <2>1. S \subseteq Model
    BY DEF Asked
  <2>2. \A m \in priced : Has(list, m) => m \in S
    BY DEF Asked, Has
  <2> HIDE DEF S
  <2>3. /\ n \in History /\ n.tried = g.tried /\ n.source = g.source /\ n.chain = g.chain
        /\ n.skipped = g.skipped /\ n.keyless = g.keyless \cup S
    BY <1>2, <2>1 DEF History, S
  <2>4. Covered(<<>>, n)
    BY <2>2, <2>3 DEF Covered
  <2> QED BY <2>3, <2>4
<1> QED BY <1>1, <1>2 DEF NothingFound

(* The steps of one request.                                               *)
LEMMA OneRequest ==
    ASSUME req \in [Request -> Handler], hist \in [Request -> History], priced' = priced,
           \A q \in Request : Good(req[q], hist[q]),
           NEW r \in Request, NEW h, NEW g, Good(h, g),
           req' = [req EXCEPT ![r] = h], hist' = [hist EXCEPT ![r] = g]
    PROVE  /\ req' \in [Request -> Handler] /\ hist' \in [Request -> History]
           /\ \A q \in Request : Good(req[q], hist[q])'
<1>1. \A q \in Request : req'[q] = (IF q = r THEN h ELSE req[q])
                      /\ hist'[q] = (IF q = r THEN g ELSE hist[q])
  OBVIOUS
<1>2. req' \in [Request -> Handler] /\ hist' \in [Request -> History]
  BY DEF Good
<1>3. ASSUME NEW q \in Request PROVE Good(req'[q], hist'[q])
  BY <1>1
<1>4. ASSUME NEW q \in Request PROVE Good(req[q], hist[q])'
  BY <1>3, priced' = priced DEF Good, Exhausted, Covered, Metered, Untried
<1> QED BY <1>2, <1>4

(* Going on to the next candidate makes a good request, when what it       *)
(* chooses from is distinct, was not tried and covers what is left.        *)
LEMMA CallIsGood ==
    ASSUME priced \in SUBSET Model,
           NEW h \in Handler, NEW g \in History, NEW list \in Seq(Model),
           Untried(list, g.tried), Covered(list, g),
           h.bills = <<>>, h.meter = "empty", g.source = NoModel, ~h.failed,
           NEW r \in Request, Call(r, h, g, list)
    PROVE  \E nh, ng : /\ Good(nh, ng)
                       /\ req' = [req EXCEPT ![r] = nh] /\ hist' = [hist EXCEPT ![r] = ng]
<1>1. PICK rb \in BOOLEAN : \E i \in Asked(list, rb) :
        /\ req' = [req EXCEPT ![r] =
             [h EXCEPT !.pc = "calling", !.model = list[i], !.rest = Remaining(list, i)]]
        /\ hist' = [hist EXCEPT ![r] =
             [g EXCEPT !.tried = Append(@, list[i]),
                       !.skipped = @ \cup {list[j] : j \in {k \in 1..(i - 1) :
                                                          rb /\ ~Available(list[k])}},
                       !.keyless = @ \cup {list[j] : j \in Asked(list, rb) \cap 1..(i - 1)}]]
  BY Zenon DEF Call
<1>2. PICK i \in Asked(list, rb) :
        /\ req' = [req EXCEPT ![r] =
             [h EXCEPT !.pc = "calling", !.model = list[i], !.rest = Remaining(list, i)]]
        /\ hist' = [hist EXCEPT ![r] =
             [g EXCEPT !.tried = Append(@, list[i]),
                       !.skipped = @ \cup {list[j] : j \in {k \in 1..(i - 1) :
                                                          rb /\ ~Available(list[k])}},
                       !.keyless = @ \cup {list[j] : j \in Asked(list, rb) \cap 1..(i - 1)}]]
  BY <1>1, Zenon
<1> DEFINE passed  == {k \in 1..(i - 1) : rb /\ ~Available(list[k])}
           refused == Asked(list, rb) \cap 1..(i - 1)
           P == {list[j] : j \in passed}
           R == {list[j] : j \in refused}
           nh == [h EXCEPT !.pc = "calling", !.model = list[i], !.rest = Remaining(list, i)]
           ng == [g EXCEPT !.tried = Append(@, list[i]), !.skipped = @ \cup P,
                           !.keyless = @ \cup R]
<1>3. req' = [req EXCEPT ![r] = nh] /\ hist' = [hist EXCEPT ![r] = ng]
  BY <1>2
<1>4. i \in 1..Len(list) /\ list[i] \in priced /\ P \subseteq Model /\ R \subseteq Model
  BY DEF Asked
<1>5. \A m \in priced : Has(list, m) =>
         m \in P \cup R \/ m = list[i] \/ Has(Remaining(list, i), m)
  BY SearchCovers DEF Untried
<1> HIDE DEF P, R, passed, refused
<1>6. list[i] \in Model /\ Distinct(list) /\ Distinct(g.tried) /\ g.tried \in Seq(Model)
      /\ ~Has(g.tried, list[i])
  BY <1>4 DEF Untried, History, Has
<1>7. /\ Append(g.tried, list[i]) \in Seq(Model) /\ Distinct(Append(g.tried, list[i]))
      /\ \A m : Has(Append(g.tried, list[i]), m) <=> (Has(g.tried, m) \/ m = list[i])
      /\ Remaining(list, i) \in Seq(Model) /\ Distinct(Remaining(list, i))
      /\ \A m : Has(Remaining(list, i), m) => Has(list, m) /\ m # list[i]
      /\ \A k \in 1..Len(list) : k > i => Has(Remaining(list, i), list[k])
  BY <1>4, <1>6, AppendDistinct, RemainingDistinct
<1>8. nh \in Handler
  BY <1>6, <1>7 DEF Handler, Waiting, Over, Answer
<1>9. ng \in History
  BY <1>7, <1>4 DEF History
<1>10. Metered(nh, ng)
  BY <1>6 DEF Metered, Waiting, Over, Handler, History
<1>11. Untried(Remaining(list, i), Append(g.tried, list[i]))
  BY <1>7 DEF Untried
<1>12. Exhausted(nh, ng)
  <2>2. /\ ng.chain = g.chain /\ ng.tried = Append(g.tried, list[i])
        /\ ng.skipped = g.skipped \cup P /\ ng.keyless = g.keyless \cup R
    BY DEF History
  <2>3. Covered(Remaining(list, i), ng)
    BY <1>7, <1>5, <2>2 DEF Covered
  <2>4. nh.rest = Remaining(list, i) /\ nh.failed = h.failed
    BY DEF Handler
  <2> QED BY <2>3, <2>4 DEF Exhausted
<1>13. Good(nh, ng)
  <2>1. nh.rest = Remaining(list, i) /\ ng.tried = Append(g.tried, list[i])
    BY DEF Handler, History
  <2> QED BY <1>8, <1>9, <1>10, <1>11, <1>12, <2>1 DEF Good
<1> QED BY <1>3, <1>13

-----------------------------------------------------------------------------
(* The breaker.                                                            *)

BreakerInv == BreakerTypeOK /\ streak \in [Model -> 0..Limit] /\ Counted

LEMMA LimitType == Limit \in Nat \ {0}
BY BreakerAssumption DEF Limit

LEMMA SuccessCounted ==
    ASSUME BreakerInv, NEW h \in Handler, h.auto => h.model \in Model, NoteSuccess(h)
    PROVE  BreakerInv'
<1>1. CASE UNCHANGED <<breakerVars, streak>>
  BY <1>1 DEF BreakerInv, BreakerTypeOK, Counted, breakerVars
<1>2. CASE h.auto
  <2>1. /\ failures' = [failures EXCEPT ![h.model] = 0]
        /\ opened' = [opened EXCEPT ![h.model] = FALSE]
        /\ cooling' = [cooling EXCEPT ![h.model] = 0]
        /\ streak' = [streak EXCEPT ![h.model] = 0]
    BY <1>2 DEF NoteSuccess, RecordSuccess
  <2>2. BreakerTypeOK'
    BY <1>2, <2>1, LimitType, BreakerAssumption DEF BreakerInv, BreakerTypeOK
  <2>3. streak' \in [Model -> 0..Limit]
    BY <1>2, <2>1, LimitType DEF BreakerInv
  <2>4. Counted'
    BY <1>2, <2>1, LimitType, BreakerAssumption DEF BreakerInv, BreakerTypeOK, Counted
  <2> QED BY <2>2, <2>3, <2>4 DEF BreakerInv
<1> QED BY <1>1, <1>2 DEF NoteSuccess

LEMMA FailureCounted ==
    ASSUME BreakerInv, NEW h \in Handler, h.auto => h.model \in Model, NEW e \in Error,
           NoteFailure(h, e)
    PROVE  BreakerInv'
<1>1. CASE UNCHANGED <<breakerVars, streak>>
  BY <1>1 DEF BreakerInv, BreakerTypeOK, Counted, breakerVars
<1>2. CASE h.auto /\ e # "request"
  <2> DEFINE m == h.model
             s == IF streak[m] = Limit THEN streak[m] ELSE streak[m] + 1
  <2>1. m \in Model /\ RecordFailure(m) /\ streak' = [streak EXCEPT ![m] = s]
    BY <1>2 DEF NoteFailure
  <2> HIDE DEF m
  <2>2. streak' \in [Model -> 0..Limit]
    BY <2>1, LimitType DEF BreakerInv
  <2>3. CASE failures[m] + 1 >= Limit
    <3>1. /\ failures' = [failures EXCEPT ![m] = Limit - 1]
          /\ opened' = [opened EXCEPT ![m] = TRUE]
          /\ cooling' = [cooling EXCEPT ![m] = Cooldown]
      BY <2>1, <2>3 DEF RecordFailure
    <3>2. BreakerTypeOK'
      BY <2>1, <3>1, LimitType, BreakerAssumption DEF BreakerInv, BreakerTypeOK
    <3>3. s = Limit
      BY <2>1, <2>3, LimitType DEF BreakerInv, BreakerTypeOK, Counted
    <3>4. Counted'
      BY <2>1, <3>1, <3>3, LimitType, BreakerAssumption DEF BreakerInv, BreakerTypeOK, Counted
    <3> QED BY <2>2, <3>2, <3>4 DEF BreakerInv
  <2>4. CASE ~(failures[m] + 1 >= Limit)
    <3>1. failures' = [failures EXCEPT ![m] = @ + 1] /\ UNCHANGED <<opened, cooling>>
      BY <2>1, <2>4 DEF RecordFailure
    <3>2. BreakerTypeOK'
      BY <2>1, <2>4, <3>1, LimitType, BreakerAssumption DEF BreakerInv, BreakerTypeOK
    <3>3. Counted'
      BY <2>1, <2>4, <3>1, LimitType, BreakerAssumption DEF BreakerInv, BreakerTypeOK, Counted
    <3> QED BY <2>2, <3>2, <3>3 DEF BreakerInv
  <2> QED BY <2>3, <2>4
<1> QED BY <1>1, <1>2 DEF NoteFailure

LEMMA ClockCounted == BreakerInv /\ Clock => BreakerInv'
<1> SUFFICES ASSUME BreakerInv, Clock PROVE BreakerInv'
  OBVIOUS
<1>1. /\ cooling' = [m \in Model |-> IF cooling[m] = 0 THEN 0 ELSE cooling[m] - 1]
      /\ UNCHANGED <<failures, opened, streak>>
  BY DEF Clock, Tick
<1>2. cooling \in [Model -> 0..Cooldown]
  BY DEF BreakerInv, BreakerTypeOK
<1>3. BreakerTypeOK'
  BY <1>1, BreakerAssumption DEF BreakerInv, BreakerTypeOK
<1>4. Counted'
  BY <1>1, <1>2, BreakerAssumption DEF BreakerInv, Counted
<1> QED BY <1>1, <1>3, <1>4 DEF BreakerInv

-----------------------------------------------------------------------------
(* Each step of a request makes a good request of a good one.              *)

Becomes(r, h, g) == req' = [req EXCEPT ![r] = h] /\ hist' = [hist EXCEPT ![r] = g]

Typed == priced \in SUBSET Model /\ req \in [Request -> Handler] /\ hist \in [Request -> History]

LEMMA FreshType == Fresh \in Handler /\ NoHistory \in History
<1>1. <<>> \in Seq(Model)
  OBVIOUS
<1>2. Fresh \in Handler
  BY <1>1 DEF Fresh, Handler, Waiting, Over, Answer
<1>3. NoHistory \in History
  BY <1>1 DEF NoHistory, History, Answer
<1> QED BY <1>2, <1>3

LEMMA OpenAutoGood ==
    ASSUME Typed, NEW r \in Request, OpenAuto(r)
    PROVE  \E h, g : Good(h, g) /\ Becomes(r, h, g)
<1>1. PICK list \in Chains, stream \in BOOLEAN :
        LET h == [Fresh EXCEPT !.auto = TRUE, !.stream = stream]
            g == [NoHistory EXCEPT !.chain = list]
        IN \/ Call(r, h, g, list)
           \/ /\ req' = [req EXCEPT ![r] = [h EXCEPT !.pc = "rejected"]]
              /\ \E n \in NothingFound(g, list) : hist' = [hist EXCEPT ![r] = n]
  BY DEF OpenAuto
<1> DEFINE h == [Fresh EXCEPT !.auto = TRUE, !.stream = stream]
           g == [NoHistory EXCEPT !.chain = list]
<1>2. list \in Seq(Model) /\ Distinct(list)
  BY ServingAssumption DEF Distinct
<1>3. h \in Handler /\ g \in History
  BY FreshType DEF Handler, History
<1>4. Untried(list, <<>>) /\ Covered(list, g)
  BY <1>2 DEF Untried, Covered, Distinct, Has, NoHistory
<1>5. ASSUME NEW k \in NothingFound(g, list), hist' = [hist EXCEPT ![r] = k],
             req' = [req EXCEPT ![r] = [h EXCEPT !.pc = "rejected"]]
      PROVE  \E nh, ng : Good(nh, ng) /\ Becomes(r, nh, ng)
  <2> DEFINE n == [h EXCEPT !.pc = "rejected"]
  <2>1. Becomes(r, n, k)
    BY <1>5 DEF Becomes
  <2>2. k \in History /\ k.tried = <<>> /\ k.source = NoModel
    <3>1. g.tried = <<>> /\ g.source = NoModel
      BY DEF NoHistory
    <3> HIDE DEF g
    <3> QED BY <1>2, <1>3, <1>4, <1>5, <3>1, NothingFoundCovers
  <2>3. n \in Handler
    BY <1>3 DEF Fresh, Handler, Waiting, Over, Answer
  <2>4. Metered(n, k)
    BY <2>2 DEF Metered, Fresh, Waiting, Over
  <2>5. Untried(n.rest, k.tried)
    BY <2>2 DEF Untried, Distinct, Has, Fresh
  <2>6. Exhausted(n, k)
    BY DEF Exhausted, Fresh, Waiting
  <2> HIDE DEF n
  <2> QED BY <2>1, <2>2, <2>3, <2>4, <2>5, <2>6 DEF Good
<1>6. CASE Call(r, h, g, list)
  <2>2. h.bills = <<>> /\ h.meter = "empty" /\ g.source = NoModel /\ ~h.failed /\ g.tried = <<>>
    BY DEF Fresh, NoHistory
  <2> HIDE DEF h, g
  <2> QED BY <1>2, <1>3, <1>4, <1>6, <2>2, CallIsGood DEF Becomes, Typed
<1> QED BY <1>1, <1>5, <1>6

LEMMA OpenExplicitGood ==
    ASSUME NEW r \in Request, OpenExplicit(r)
    PROVE  \E h, g : Good(h, g) /\ Becomes(r, h, g)
<1>1. PICK m \in Model, stream \in BOOLEAN :
        Becomes(r, [Fresh EXCEPT !.pc = "calling", !.stream = stream, !.model = m],
                   [NoHistory EXCEPT !.tried = <<m>>])
  BY DEF OpenExplicit, Becomes
<1> DEFINE h == [Fresh EXCEPT !.pc = "calling", !.stream = stream, !.model = m]
           g == [NoHistory EXCEPT !.tried = <<m>>]
<1>2. h \in Handler /\ g \in History
  <2>1. <<m>> \in Seq(Model)
    OBVIOUS
  <2>2. h \in Handler
    BY FreshType DEF Handler, Waiting, Answer
  <2>3. g \in History
    BY <2>1, FreshType DEF History
  <2> QED BY <2>2, <2>3
<1>3. Metered(h, g)
  BY ServingAssumption DEF Metered, Fresh, NoHistory, Waiting, Over
<1>4. Untried(h.rest, g.tried)
  BY DEF Untried, Distinct, Has, Fresh, NoHistory
<1>5. Exhausted(h, g)
  BY DEF Exhausted, Covered, Has, Fresh, NoHistory
<1> QED BY <1>1, <1>2, <1>3, <1>4, <1>5 DEF Good

LEMMA CompletedGood ==
    ASSUME Typed, NEW r \in Request, Good(req[r], hist[r]), Completed(r)
    PROVE  \E h, g : Good(h, g) /\ Becomes(r, h, g)
<1> DEFINE h == [req[r] EXCEPT !.pc = "done", !.bills = Append(@, req[r].model)]
           g == [hist[r] EXCEPT !.source = req[r].model]
<1>1. Becomes(r, h, g)
  BY DEF Completed, Becomes, Typed
<1>2. req[r] \in Handler /\ hist[r] \in History /\ req[r].pc = "calling" /\ req[r].bills = <<>>
      /\ req[r].model \in Model
  BY DEF Completed, Typed, Good, Metered, Waiting
<1>3. Append(req[r].bills, req[r].model) = <<req[r].model>> /\ <<req[r].model>> \in Seq(Model)
  BY <1>2
<1>4. h \in Handler
  BY <1>2, <1>3 DEF Handler, Over
<1>5. g \in History
  BY <1>2 DEF History, Answer
<1>6. Metered(h, g)
  BY <1>2, <1>3, ServingAssumption DEF Metered, Waiting, Over, Handler, History
<1>7. Untried(h.rest, g.tried) /\ Exhausted(h, g)
  <2>1. h.rest = req[r].rest /\ g.tried = hist[r].tried /\ h.pc = "done" /\ g.source \in Model
    BY <1>2 DEF Handler, History
  <2> QED BY <2>1, ServingAssumption DEF Good, Exhausted, Waiting
<1> QED BY <1>1, <1>4, <1>5, <1>6, <1>7 DEF Good

LEMMA ChunkGood ==
    ASSUME Typed, NEW r \in Request, Good(req[r], hist[r]), Chunk(r)
    PROVE  \E h, g : Good(h, g) /\ Becomes(r, h, g)
<1>1. PICK usage \in BOOLEAN :
        req' = [req EXCEPT ![r].pc = "streaming",
                           ![r].meter = IF usage \/ @ = "usage" THEN "usage" ELSE "chunks"]
  BY DEF Chunk
<1> DEFINE n == IF usage \/ req[r].meter = "usage" THEN "usage" ELSE "chunks"
           h == [req[r] EXCEPT !.pc = "streaming", !.meter = n]
           g == [hist[r] EXCEPT !.source = req[r].model]
<1>2. Becomes(r, h, g)
  BY <1>1 DEF Chunk, Becomes, Typed
<1>3. /\ req[r] \in Handler /\ hist[r] \in History
      /\ req[r].pc \in Waiting /\ n \in {"chunks", "usage"}
  BY DEF Chunk, Typed
<1> HIDE DEF n
<1>4. req[r].bills = <<>> /\ req[r].model \in Model
  BY <1>3 DEF Good, Metered
<1>5. h \in Handler /\ g \in History
  BY <1>3, <1>4 DEF Handler, Waiting, History, Answer
<1>6. Metered(h, g)
  BY <1>3, <1>4, ServingAssumption DEF Metered, Waiting, Over, Handler, History
<1>7. Untried(h.rest, g.tried) /\ Exhausted(h, g)
  <2>1. h.rest = req[r].rest /\ g.tried = hist[r].tried /\ h.pc = "streaming" /\ g.source \in Model
        /\ h.failed = req[r].failed
    BY <1>3, <1>4 DEF Handler, History
  <2> QED BY <2>1, <1>3, ServingAssumption DEF Good, Exhausted, Waiting
<1> QED BY <1>2, <1>5, <1>6, <1>7 DEF Good

(* A request that has failed without another candidate; n is its history   *)
(* after the search for one.                                               *)
LEMMA FailedGood ==
    ASSUME NEW h \in Handler, NEW g \in History, Good(h, g), h.pc \in Waiting,
           NEW pc \in {"erroring", "done"}, pc = "done" => h.pc = "calling",
           NEW n \in History, n.tried = g.tried, n.source = g.source,
           h.auto /\ n.source = NoModel /\ ~n.raised => Covered(<<>>, n)
    PROVE  Good([h EXCEPT !.pc = pc, !.failed = TRUE], n)
<1> DEFINE f == [h EXCEPT !.pc = pc, !.failed = TRUE]
<1>1. f \in Handler
  BY DEF Handler, Over
<1>2. Metered(f, n)
  BY DEF Good, Metered, Waiting, Over, Handler
<1>3. Untried(f.rest, n.tried) /\ Exhausted(f, n)
  BY DEF Good, Exhausted, Handler, Waiting, Over
<1> QED BY <1>1, <1>2, <1>3 DEF Good

LEMMA CallFailsGood ==
    ASSUME Typed, NEW r \in Request, NEW e \in Error, Good(req[r], hist[r]), CallFails(r, e)
    PROVE  \E h, g : Good(h, g) /\ Becomes(r, h, g)
<1> DEFINE h == req[r]
           g == hist[r]
<1>1. /\ h \in Handler /\ g \in History /\ h.pc = "calling" /\ h.rest \in Seq(Model)
      /\ h.bills = <<>> /\ h.meter = "empty" /\ g.source = NoModel
      /\ Untried(h.rest, g.tried) /\ Covered(h.rest, g) /\ ~h.failed
  BY DEF CallFails, Typed, Good, Metered, Exhausted, Waiting, Handler
<1>2. CASE Call(r, h, g, h.rest)
  <2> HIDE DEF h, g
  <2> QED BY <1>1, <1>2, CallIsGood DEF Typed, Becomes
<1>3. ASSUME NEW n \in IF MayFailOver(h, e) THEN NothingFound(g, h.rest) ELSE {g},
             NEW pc \in {"erroring", "done"},
             Becomes(r, [h EXCEPT !.pc = pc, !.failed = TRUE], n)
      PROVE  \E nh, ng : Good(nh, ng) /\ Becomes(r, nh, ng)
  <2>1. /\ n \in History /\ n.tried = g.tried /\ n.source = g.source
        /\ h.auto /\ ~n.raised => Covered(<<>>, n)
    <3>1. CASE MayFailOver(h, e)
      <4> HIDE DEF h, g
      <4> QED BY <1>1, <1>3, <3>1, NothingFoundCovers
    <3>2. CASE ~MayFailOver(h, e)
      BY <1>1, <1>3, <3>2 DEF MayFailOver
    <3> QED BY <3>1, <3>2
  <2>2. Good(h, g)
    OBVIOUS
  <2> HIDE DEF h, g
  <2>3. Good([h EXCEPT !.pc = pc, !.failed = TRUE], n)
    BY <1>1, <2>1, <2>2, FailedGood DEF Waiting
  <2> QED BY <1>3, <2>3
<1>4. \/ Call(r, h, g, h.rest)
      \/ \E n \in IF MayFailOver(h, e) THEN NothingFound(g, h.rest) ELSE {g} :
            Becomes(r, [h EXCEPT !.pc = IF h.stream THEN "erroring" ELSE "done",
                                 !.failed = TRUE], n)
  BY DEF CallFails, Becomes, Typed
<1>5. (IF h.stream THEN "erroring" ELSE "done") \in {"erroring", "done"}
  OBVIOUS
<1> HIDE DEF h, g
<1> QED BY <1>2, <1>3, <1>4, <1>5

LEMMA StreamBreaksGood ==
    ASSUME Typed, NEW r \in Request, Good(req[r], hist[r]), StreamBreaks(r)
    PROVE  \E h, g : Good(h, g) /\ Becomes(r, h, g)
<1>1. Becomes(r, [req[r] EXCEPT !.pc = "erroring", !.failed = TRUE], hist[r])
  BY DEF StreamBreaks, Becomes, Typed
<1>2. req[r].pc \in Waiting /\ hist[r].source # NoModel
  BY ServingAssumption DEF StreamBreaks, Good, Metered, Waiting
<1>3. Good([req[r] EXCEPT !.pc = "erroring", !.failed = TRUE], hist[r])
  <2>1. req[r] \in Handler /\ hist[r] \in History /\ "erroring" \in {"erroring", "done"}
    BY DEF Typed
  <2> QED BY <1>2, <2>1, FailedGood
<1> QED BY <1>1, <1>3

(* What the finally block bills.                                           *)
LEMMA BilledType ==
    ASSUME NEW h \in Handler, NEW g \in History, Good(h, g),
           h.pc \in Waiting \cup {"erroring"}
    PROVE  /\ BilledStream(h) \in Handler
           /\ BilledStream(h).rest = h.rest /\ BilledStream(h).model = h.model
           /\ BilledStream(h).auto = h.auto /\ BilledStream(h).failed = h.failed
           /\ BilledStream(h).bills = IF g.source = NoModel THEN <<>> ELSE <<g.source>>
<1> DEFINE b == BilledStream(h)
<1>1. /\ h.bills = <<>> /\ h.model \in Model /\ (h.meter = "empty" <=> g.source = NoModel)
      /\ g.source \in {NoModel, h.model}
  BY DEF Good, Metered
<1>2. Append(h.bills, h.model) = <<h.model>> /\ <<h.model>> \in Seq(Model)
  BY <1>1
<1>3. CASE h.meter = "empty"
  BY <1>1, <1>3 DEF BilledStream
<1>4. CASE h.meter # "empty"
  <2>1. b = [h EXCEPT !.bills = <<h.model>>]
    BY <1>2, <1>4 DEF BilledStream
  <2> HIDE DEF b
  <2>2. /\ b \in Handler /\ b.rest = h.rest /\ b.model = h.model
        /\ b.auto = h.auto /\ b.failed = h.failed /\ b.bills = <<h.model>>
    BY <1>2, <2>1 DEF Handler
  <2> QED BY <1>1, <1>4, <2>2 DEF b
<1> QED BY <1>3, <1>4

(* It makes a good request of a good one, whatever that is doing then.     *)
LEMMA BilledGood ==
    ASSUME NEW h \in Handler, NEW g \in History, Good(h, g), h.pc \in Waiting \cup {"erroring"},
           NEW pc \in {"finishing", "gone"}
    PROVE  Good([BilledStream(h) EXCEPT !.pc = pc], g)
<1> DEFINE b == BilledStream(h)
           n == [b EXCEPT !.pc = pc]
<1>1. /\ b \in Handler /\ b.rest = h.rest /\ b.auto = h.auto /\ b.failed = h.failed
      /\ b.bills = IF g.source = NoModel THEN <<>> ELSE <<g.source>>
  BY BilledType DEF Waiting
<1> HIDE DEF b
<1>2. n \in Handler
  BY <1>1 DEF Handler, Over
<1>3. Metered(n, g)
  BY <1>1 DEF Metered, Waiting, Over, Handler
<1>4. Untried(n.rest, g.tried) /\ Exhausted(n, g)
  BY <1>1 DEF Good, Exhausted, Handler, Waiting, Over
<1> QED BY <1>2, <1>3, <1>4 DEF Good, b

LEMMA StreamEndsGood ==
    ASSUME Typed, NEW r \in Request, Good(req[r], hist[r]), StreamEnds(r) \/ Finally(r)
    PROVE  \E h, g : Good(h, g) /\ Becomes(r, h, g)
<1>1. Becomes(r, [BilledStream(req[r]) EXCEPT !.pc = "finishing"], hist[r])
  BY DEF StreamEnds, Finally, Becomes, Typed
<1>2. req[r].pc \in Waiting \cup {"erroring"}
  BY DEF StreamEnds, Finally
<1> QED BY <1>1, <1>2, BilledGood DEF Typed

(* Nothing but the place changes after the finally block.                  *)
LEMMA OverGood ==
    ASSUME NEW h \in Handler, NEW g \in History, Good(h, g), h.pc = "finishing",
           NEW pc \in {"done", "gone"}
    PROVE  Good([h EXCEPT !.pc = pc], g)
<1> DEFINE n == [h EXCEPT !.pc = pc]
<1>1. n \in Handler /\ n.pc \in Over
  BY DEF Handler, Over
<1>2. Metered(n, g)
  BY DEF Good, Metered, Waiting, Over, Handler
<1>3. Untried(n.rest, g.tried) /\ Exhausted(n, g)
  BY DEF Good, Exhausted, Handler, Waiting, Over
<1> QED BY <1>1, <1>2, <1>3 DEF Good

LEMMA FinishGood ==
    ASSUME Typed, NEW r \in Request, Good(req[r], hist[r]), Finish(r)
    PROVE  \E h, g : Good(h, g) /\ Becomes(r, h, g)
<1>1. Becomes(r, [req[r] EXCEPT !.pc = "done"], hist[r])
  BY DEF Finish, Becomes, Typed
<1> QED BY <1>1, OverGood DEF Typed, Finish

LEMMA DisconnectGood ==
    ASSUME Typed, NEW r \in Request, Good(req[r], hist[r]), Disconnect(r)
    PROVE  \E h, g : Good(h, g) /\ Becomes(r, h, g)
<1>1. CASE req[r].pc = "finishing"
  <2>1. Becomes(r, [req[r] EXCEPT !.pc = "gone"], hist[r])
    BY <1>1 DEF Disconnect, Becomes, Typed
  <2> QED BY <1>1, <2>1, OverGood DEF Typed
<1>2. CASE req[r].pc # "finishing"
  <2>1. Becomes(r, [BilledStream(req[r]) EXCEPT !.pc = "gone"], hist[r])
    BY <1>2 DEF Disconnect, Becomes, Typed
  <2>2. req[r].pc \in Waiting \cup {"erroring"}
    BY <1>2 DEF Disconnect, Typed, Handler
  <2> QED BY <2>1, <2>2, BilledGood DEF Typed
<1> QED BY <1>1, <1>2

(* The steps of a request together.                                        *)
Step(r) ==
    \/ OpenAuto(r) \/ OpenExplicit(r) \/ FirstAnswer(r) \/ Chunk(r) \/ StreamBreaks(r)
    \/ Finally(r) \/ Finish(r) \/ Disconnect(r)

LEMMA EachStepGood ==
    ASSUME ServingInv, NEW r \in Request, Step(r)
    PROVE  \E h, g : Good(h, g) /\ Becomes(r, h, g)
<1>1. Typed /\ Good(req[r], hist[r])
  BY DEF ServingInv, TypeOK, Typed
<1> QED BY <1>1, OpenAutoGood, OpenExplicitGood, CompletedGood, StreamEndsGood, CallFailsGood,
           ChunkGood, StreamBreaksGood, FinishGood, DisconnectGood DEF Step, FirstAnswer

-----------------------------------------------------------------------------
(* The invariant.                                                          *)

LEMMA InitEstablishes == Init => ServingInv
<1> SUFFICES ASSUME Init PROVE ServingInv
  OBVIOUS
<1>1. TypeOK /\ Counted
  <2>1. BreakerTypeOK /\ streak \in [Model -> 0..Limit] /\ Counted
    BY LimitType, BreakerAssumption DEF Init, BreakerInit, BreakerTypeOK, Counted
  <2> QED BY <2>1, FreshType DEF Init, TypeOK
<1>2. Good(Fresh, NoHistory)
  <2>1. Metered(Fresh, NoHistory)
    BY DEF Metered, Fresh, NoHistory, Waiting, Over
  <2>2. Untried(Fresh.rest, NoHistory.tried) /\ Exhausted(Fresh, NoHistory)
    BY DEF Untried, Distinct, Has, Exhausted, Fresh, NoHistory, Waiting
  <2> QED BY <2>1, <2>2, FreshType DEF Good
<1> QED BY <1>1, <1>2 DEF Init, ServingInv

LEMMA RequestStep ==
    ASSUME ServingInv, priced' = priced, BreakerInv', NEW r \in Request,
           \E h, g : Good(h, g) /\ Becomes(r, h, g)
    PROVE  ServingInv'
BY OneRequest DEF ServingInv, TypeOK, BreakerInv, Becomes

LEMMA BreakerStays ==
    ASSUME BreakerInv, UNCHANGED <<breakerVars, streak>>
    PROVE  BreakerInv'
BY DEF BreakerInv, BreakerTypeOK, Counted, breakerVars

LEMMA StepKeeps == ServingInv /\ [Next]_vars => ServingInv'
<1> SUFFICES ASSUME ServingInv, [Next]_vars PROVE ServingInv'
  OBVIOUS
<1>1. Typed /\ BreakerInv /\ \A r \in Request : Good(req[r], hist[r])
  BY DEF ServingInv, TypeOK, Typed, BreakerInv
<1>2. ASSUME NEW r \in Request, Step(r) PROVE ServingInv'
  <2>1. CASE Completed(r) \/ StreamEnds(r)
    <3>1. req[r] \in Handler /\ req[r].model \in Model /\ NoteSuccess(req[r])
      BY <1>1, <2>1 DEF Completed, StreamEnds, Good, Metered, Waiting
    <3>2. BreakerInv' /\ priced' = priced
      BY <1>1, <2>1, <3>1, SuccessCounted DEF Completed, StreamEnds
    <3> QED BY <1>2, <3>2, EachStepGood, RequestStep
  <2>2. ASSUME NEW e \in Error, CallFails(r, e) PROVE ServingInv'
    <3>1. req[r] \in Handler /\ req[r].model \in Model /\ NoteFailure(req[r], e)
      BY <1>1, <2>2 DEF CallFails, Good, Metered, Waiting
    <3>2. BreakerInv' /\ priced' = priced
      BY <1>1, <2>2, <3>1, FailureCounted DEF CallFails
    <3> QED BY <1>2, <3>2, EachStepGood, RequestStep
  <2>3. CASE \/ OpenAuto(r) \/ OpenExplicit(r) \/ Chunk(r) \/ StreamBreaks(r)
             \/ Finally(r) \/ Finish(r) \/ Disconnect(r)
    <3>1. BreakerInv' /\ priced' = priced
      BY <1>1, <2>3, BreakerStays
         DEF OpenAuto, OpenExplicit, Chunk, StreamBreaks, Finally, Finish, Disconnect
    <3> QED BY <1>2, <3>1, EachStepGood, RequestStep
  <2> QED BY <1>2, <2>1, <2>2, <2>3 DEF Step, FirstAnswer
<1>3. CASE Clock \/ UNCHANGED vars
  <2>1. BreakerInv' /\ UNCHANGED <<priced, req, hist>>
    BY <1>1, <1>3, ClockCounted, BreakerStays DEF Clock, vars, breakerVars
  <2>2. \A r \in Request : Good(req[r], hist[r])'
    BY <1>1, <2>1 DEF Good, Metered, Untried, Exhausted, Covered
  <2> QED BY <2>1, <2>2, <1>1 DEF ServingInv, TypeOK, BreakerInv, Typed
<1> QED BY <1>2, <1>3 DEF Next, Step

LEMMA ServingInvariance == Spec => []ServingInv
BY InitEstablishes, StepKeeps, PTL DEF Spec

(* model_chat, _stream_chunks, _schedule_stream_billing: a request that is *)
(* over has been billed exactly once, for the model whose output was sent. *)
THEOREM AlwaysBilledForWhatWasServed == Spec => []BilledForWhatWasServed
<1>1. ServingInv => BilledForWhatWasServed
  BY DEF ServingInv, Good, Metered, BilledForWhatWasServed
<1> QED BY <1>1, ServingInvariance, PTL

(* _failover, next_auto_access: no request calls a model twice.            *)
THEOREM NeverTriedTwice == Spec => []NoModelTriedTwice
<1>1. ServingInv => NoModelTriedTwice
  BY DEF ServingInv, Good, Untried, Distinct, NoModelTriedTwice
<1> QED BY <1>1, ServingInvariance, PTL

(* _first_servable: a request that fails without output has tried every    *)
(* candidate with a price, but for those with an open breaker or without a *)
(* key when it came to them; or the search for one raised.                 *)
THEOREM AlwaysExhaustive == Spec => []FailoverIsExhaustive
<1>1. ASSUME ServingInv PROVE FailoverIsExhaustive
  <2>1. SUFFICES ASSUME NEW r \in Request, req[r].auto, req[r].failed,
                        hist[r].source = NoModel, ~hist[r].raised,
                        NEW i \in 1..Len(hist[r].chain), hist[r].chain[i] \in priced
                 PROVE  \/ hist[r].chain[i] \in hist[r].skipped \cup hist[r].keyless
                        \/ Has(hist[r].tried, hist[r].chain[i])
    BY DEF FailoverIsExhaustive, Has
  <2>2. Covered(<<>>, hist[r]) /\ Has(hist[r].chain, hist[r].chain[i])
    BY <1>1, <2>1 DEF ServingInv, Good, Exhausted, Has
  <2>3. ~Has(<<>>, hist[r].chain[i])
    BY DEF Has
  <2> QED BY <2>1, <2>2, <2>3 DEF Covered
<1> QED BY <1>1, ServingInvariance, PTL

(* record_failure: a breaker is open only after Limit failures of its      *)
(* model without a success in between.                                     *)
THEOREM AlwaysOpenOnlyAfterFailures == Spec => []OpenOnlyAfterFailures
<1>1. ServingInv => OpenOnlyAfterFailures
  BY DEF ServingInv, Counted, OpenOnlyAfterFailures
<1> QED BY <1>1, ServingInvariance, PTL

(* The types of the state, with the bounds of the breaker's counts.        *)
THEOREM ServingTypesKept == Spec => []TypeOK
<1>1. ServingInv => TypeOK
  BY DEF ServingInv
<1> QED BY <1>1, ServingInvariance, PTL

(* _stream_chunks: only until something has reached the client can Auto    *)
(* switch models; after it the answer stays that model's.                  *)
THEOREM AlwaysOneModelPerAnswer == Spec => OneModelPerAnswer
<1> DEFINE Same(r) == hist[r].source # NoModel /\ req[r].pc \notin Over
                         => hist'[r].source = hist[r].source /\ req'[r].model = req[r].model
<1>1. ASSUME ServingInv, Next PROVE \A r \in Request : Same(r)
  <2>1. SUFFICES ASSUME NEW r \in Request, hist[r].source # NoModel, req[r].pc \notin Over
                 PROVE  hist'[r].source = hist[r].source /\ req'[r].model = req[r].model
    OBVIOUS
  <2>2. /\ req \in [Request -> Handler] /\ hist \in [Request -> History] /\ req[r].pc # "calling"
        /\ req[r].pc = "streaming" => hist[r].source = req[r].model
    BY <1>1, <2>1 DEF ServingInv, TypeOK, Good, Metered
  <2>3. ASSUME NEW q \in Request, q # r, Step(q) PROVE hist'[r] = hist[r] /\ req'[r] = req[r]
    <3>1. PICK h, g : Becomes(q, h, g)
      BY <1>1, <2>3, EachStepGood
    <3> QED BY <2>2, <2>3, <3>1 DEF Becomes
  <2>4. CASE OpenAuto(r) \/ OpenExplicit(r)
    BY <2>1, <2>4 DEF OpenAuto, OpenExplicit
  <2>5. CASE Chunk(r) \/ StreamBreaks(r) \/ Finish(r)
    <3>1. CASE Chunk(r)
      <4>1. /\ hist' = [hist EXCEPT ![r].source = req[r].model] /\ req[r].pc = "streaming"
            /\ \E u : req' = [req EXCEPT ![r].pc = "streaming", ![r].meter = u]
        BY <2>2, <3>1 DEF Chunk, Waiting
      <4> QED BY <2>2, <4>1 DEF Handler, History
    <3>2. CASE StreamBreaks(r) \/ Finish(r)
      BY <2>2, <3>2 DEF StreamBreaks, Finish, Handler
    <3> QED BY <2>5, <3>1, <3>2
  <2>6. CASE StreamEnds(r) \/ Finally(r) \/ Disconnect(r)
    <3> DEFINE b == IF req[r].pc = "finishing" THEN req[r] ELSE BilledStream(req[r])
    <3>1. PICK pc \in {"finishing", "gone"} :
            hist' = hist /\ req'[r] = [b EXCEPT !.pc = pc]
      BY <2>2, <2>6 DEF StreamEnds, Finally, Disconnect, Waiting
    <3>2. b \in Handler /\ b.model = req[r].model
      <4>1. CASE req[r].pc = "finishing"
        BY <2>2, <4>1
      <4>2. CASE req[r].pc # "finishing"
        <5>1. req[r].pc \in Waiting \cup {"erroring"}
          BY <2>1, <2>2, <4>2 DEF Handler
        <5> QED BY <1>1, <2>2, <4>2, <5>1, BilledType DEF ServingInv
      <4> QED BY <4>1, <4>2
    <3> HIDE DEF b
    <3> QED BY <3>1, <3>2 DEF Handler
  <2>7. CASE Completed(r) \/ \E e \in Error : CallFails(r, e)
    BY <2>2, <2>7 DEF Completed, CallFails
  <2>8. CASE Clock
    BY <2>8 DEF Clock
  <2> QED BY <1>1, <2>3, <2>4, <2>5, <2>6, <2>7, <2>8 DEF Next, Step, FirstAnswer
<1>2. ASSUME ServingInv, UNCHANGED vars PROVE \A r \in Request : Same(r)
  BY <1>2 DEF vars
<1>3. ServingInv /\ [Next]_vars => [\A r \in Request : Same(r)]_vars
  BY <1>1, <1>2
<1> QED BY <1>3, ServingInvariance, PTL DEF Spec, OneModelPerAnswer
=============================================================================
