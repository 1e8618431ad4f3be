---------------------------- MODULE RouterProofs ----------------------------
(***************************************************************************)
(* The routing table and the daily budget, for any tiers, fallback model,  *)
(* budgets, caps and costs, and the score that a request is routed by.     *)
(*                                                                         *)
(* First what At, FlattenSeq and the lookups return; then what candidates  *)
(* offers: every model once, none above the cap but the fallback model,    *)
(* and each tier's own model below it (FailoverIsRight).  These do not     *)
(* change from state to state, and RoutingProofs uses them too.            *)
(*                                                                         *)
(* The budget: a request reads the spend when it arrives and is billed     *)
(* when it ends, so several can be let in on one reading.  What has been   *)
(* billed of requests that found the budget not reached, and what is still *)
(* to be billed of them, stay together below the bound (BudgetHeld): these *)
(* are let in only while the spend is below the budget, and no more can be *)
(* under way than there are slots.  RoutedAsAsked needs besides that a     *)
(* request keeps what it was let in with (Strict).                         *)
(*                                                                         *)
(* The score: each dimension grows with the text and the scope, so that a  *)
(* text that has grown scores no lower (ScoreGrows).  Between two verdicts *)
(* lies the edit, a phrase or a path more; what holds throughout is that   *)
(* the last score is no more than the request would get now, for the same  *)
(* task at the same scope or a wider one (ScorerInv).                      *)
(***************************************************************************)
EXTENDS ComplexityScorer, Preferences, BasicProofs

-----------------------------------------------------------------------------
(* Helpers. *)

Rank(places, i) == Cardinality({j \in places : j <= i})
PlaceOf(places, k) == CHOOSE i \in places : Rank(places, i) = k

LEMMA RankCounts ==
    ASSUME NEW n \in Nat, NEW places \in SUBSET (1..n)
    PROVE  /\ IsFiniteSet(places) /\ Cardinality(places) \in Nat
           /\ \A i \in places : Rank(places, i) \in 1..Cardinality(places)
           /\ \A i, j \in places : i < j => Rank(places, i) < Rank(places, j)
<1> DEFINE upto(i) == {j \in places : j <= i}
<1>1. IsFiniteSet(places) /\ Cardinality(places) \in Nat
  <2>1. IsFiniteSet(1..n)
    BY FS_Interval
  <2>2. IsFiniteSet(places)
    BY <2>1, FS_Subset
  <2> QED BY <2>2, FS_CardinalityType
<1>2. \A i \in places : /\ IsFiniteSet(upto(i)) /\ Cardinality(upto(i)) \in Nat
                        /\ Cardinality(upto(i)) <= Cardinality(places)
                        /\ i \in upto(i) /\ Cardinality(upto(i)) # 0
  <2> SUFFICES ASSUME NEW i \in places
               PROVE  /\ IsFiniteSet(upto(i)) /\ Cardinality(upto(i)) \in Nat
                      /\ Cardinality(upto(i)) <= Cardinality(places)
                      /\ i \in upto(i) /\ Cardinality(upto(i)) # 0
    OBVIOUS
  <2>1. upto(i) \in SUBSET places /\ i \in upto(i)
    OBVIOUS
  <2> HIDE DEF upto
  <2> QED BY <1>1, <2>1, FS_Subset, FS_CardinalityType, FS_EmptySet
<1>3. ASSUME NEW i \in places, NEW j \in places, i < j
      PROVE  Cardinality(upto(i)) < Cardinality(upto(j))
  <2>1. upto(i) \in SUBSET upto(j) /\ upto(i) # upto(j)
    <3>1. j \in upto(j) /\ j \notin upto(i)
      BY <1>3
    <3>2. ASSUME NEW k \in places, k <= i PROVE k <= j
      BY <1>3, <3>2
    <3> QED BY <3>1, <3>2
  <2>2. IsFiniteSet(upto(j)) /\ Cardinality(upto(i)) \in Nat /\ Cardinality(upto(j)) \in Nat
    BY <1>2
  <2> HIDE DEF upto
  <2>3. Cardinality(upto(i)) <= Cardinality(upto(j)) /\ Cardinality(upto(i)) # Cardinality(upto(j))
    BY <2>1, <2>2, FS_Subset
  <2> QED BY <2>2, <2>3
<1>4. \A i \in places : Rank(places, i) = Cardinality(upto(i))
  BY DEF Rank
<1> HIDE DEF upto
<1>5. \A i \in places : Rank(places, i) \in 1..Cardinality(places)
  BY <1>1, <1>2, <1>4
<1> QED BY <1>1, <1>3, <1>4, <1>5

\* Every rank is taken by one place.
LEMMA PlacesInOrder ==
    ASSUME NEW n \in Nat, NEW places \in SUBSET (1..n)
    PROVE  /\ \A k \in 1..Cardinality(places) : PlaceOf(places, k) \in places /\ Rank(places, PlaceOf(places, k)) = k
           /\ \A i \in places : PlaceOf(places, Rank(places, i)) = i
<1> DEFINE c == Cardinality(places)
           r == [i \in places |-> Rank(places, i)]
<1>1. /\ IsFiniteSet(places) /\ c \in Nat
      /\ \A i \in places : Rank(places, i) \in 1..c
      /\ \A i, j \in places : i < j => Rank(places, i) < Rank(places, j)
  BY RankCounts
<1> HIDE DEF c
<1>2. \A i, j \in places : Rank(places, i) = Rank(places, j) => i = j
  <2> SUFFICES ASSUME NEW i \in places, NEW j \in places, Rank(places, i) = Rank(places, j), i # j
               PROVE  FALSE
    OBVIOUS
  <2>1. i < j \/ j < i
    OBVIOUS
  <2> QED BY <1>1, <2>1
<1>3. r \in Injection(places, 1..c)
  BY <1>1, <1>2 DEF Injection, IsInjective
<1>4. IsFiniteSet(1..c) /\ Cardinality(1..c) = c
  BY <1>1, FS_Interval
<1>5. r \in Surjection(places, 1..c)
  BY <1>3, <1>4, FS_Injection DEF c
<1>6. \A k \in 1..c : \E i \in places : Rank(places, i) = k
  BY <1>5 DEF Surjection
<1>7. \A k \in 1..c : PlaceOf(places, k) \in places /\ Rank(places, PlaceOf(places, k)) = k
  BY <1>6 DEF PlaceOf
<1>8. \A i \in places : PlaceOf(places, Rank(places, i)) = i
  BY <1>1, <1>2, <1>7
<1> QED BY <1>7, <1>8 DEF c

\* At: the elements at the places, each once.
LEMMA AtPlaces ==
    ASSUME NEW s, NEW n \in Nat, NEW places \in SUBSET (1..n)
    PROVE  /\ Cardinality(places) \in Nat /\ DOMAIN At(s, places) = 1..Cardinality(places)
           /\ Len(At(s, places)) = Cardinality(places)
           /\ \A k \in DOMAIN At(s, places) :
                 PlaceOf(places, k) \in places /\ At(s, places)[k] = s[PlaceOf(places, k)]
           /\ \A i \in places : \E k \in DOMAIN At(s, places) : At(s, places)[k] = s[i]
           /\ \A k, l \in DOMAIN At(s, places) : PlaceOf(places, k) = PlaceOf(places, l) => k = l
<1> DEFINE t == At(s, places)
           c == Cardinality(places)
<1>1. c \in Nat /\ \A i \in places : Rank(places, i) \in 1..c
  BY RankCounts
<1>2. /\ \A k \in 1..c : PlaceOf(places, k) \in places /\ Rank(places, PlaceOf(places, k)) = k
      /\ \A i \in places : PlaceOf(places, Rank(places, i)) = i
  BY PlacesInOrder
<1>3. t = [k \in 1..c |-> s[PlaceOf(places, k)]]
  BY DEF At, PlaceOf, Rank
<1> HIDE DEF t, c
<1>4. DOMAIN t = 1..c /\ Len(t) = c /\ \A k \in 1..c : t[k] = s[PlaceOf(places, k)]
  BY <1>1, <1>3
<1>5. \A i \in places : \E k \in DOMAIN t : t[k] = s[i]
  BY <1>1, <1>2, <1>4
<1>6. \A k, l \in DOMAIN t : PlaceOf(places, k) = PlaceOf(places, l) => k = l
  BY <1>2, <1>4
<1> QED BY <1>1, <1>2, <1>4, <1>5, <1>6 DEF t, c

LEMMA AtElements ==
    ASSUME NEW s, NEW n \in Nat, NEW places \in SUBSET (1..n), NEW S, \A i \in places : s[i] \in S
    PROVE  At(s, places) \in Seq(S) /\ ToSet(At(s, places)) = {s[i] : i \in places}
<1> DEFINE t == At(s, places)
           c == Cardinality(places)
<1>1. /\ c \in Nat /\ \A i \in places : Rank(places, i) \in 1..c /\ PlaceOf(places, Rank(places, i)) = i
      /\ \A k \in 1..c : PlaceOf(places, k) \in places
  BY RankCounts, PlacesInOrder
<1>2. t = [k \in 1..c |-> s[PlaceOf(places, k)]]
  BY DEF At, PlaceOf, Rank
<1> HIDE DEF t, c
<1>3. t \in Seq(S)
  <2>1. \A k \in 1..c : s[PlaceOf(places, k)] \in S
    BY <1>1
  <2>2. t \in [1..c -> S]
    BY <1>2, <2>1
  <2> QED BY <1>1, <2>2, SeqDef
<1>4. ToSet(t) = {s[i] : i \in places}
  <2>1. ASSUME NEW x \in ToSet(t) PROVE x \in {s[i] : i \in places}
    <3>1. PICK k \in 1..c : x = t[k]
      BY <1>2 DEF ToSet
    <3> QED BY <1>1, <1>2, <3>1
  <2>2. ASSUME NEW i \in places PROVE s[i] \in ToSet(t)
    <3>1. Rank(places, i) \in DOMAIN t /\ t[Rank(places, i)] = s[i]
      BY <1>1, <1>2
    <3> QED BY <3>1 DEF ToSet
  <2> QED BY <2>1, <2>2
<1> QED BY <1>3, <1>4 DEF t

LEMMA FlattenEquation ==
    ASSUME NEW N \in Nat \ {0}, NEW s
    PROVE  \E f : f = [i \in 1..N |-> IF i = 1 THEN s[i] ELSE f[i - 1] \o s[i]]
<1> DEFINE P(n) == \E f : f = [i \in 1..n |-> IF i = 1 THEN s[i] ELSE f[i - 1] \o s[i]]
           Bad == {n \in Nat : ~P(n)}
<1>1. P(0)
  <2>1. [i \in 1..0 |-> 0] = [i \in 1..0 |-> IF i = 1 THEN s[i] ELSE [j \in 1..0 |-> 0][i - 1] \o s[i]]
    OBVIOUS
  <2> QED BY <2>1
<1>2. ASSUME NEW n \in Nat, P(n) PROVE P(n + 1)
  <2>1. PICK f : f = [i \in 1..n |-> IF i = 1 THEN s[i] ELSE f[i - 1] \o s[i]]
    BY <1>2
  <2> DEFINE new == IF n = 0 THEN s[1] ELSE f[n] \o s[n + 1]
             g == [i \in 1..(n + 1) |-> IF i = n + 1 THEN new ELSE f[i]]
  <2>2. ASSUME NEW i \in 1..(n + 1)
        PROVE  g[i] = IF i = 1 THEN s[i] ELSE g[i - 1] \o s[i]
    <3>1. CASE i = n + 1
      <4>1. g[i] = new
        BY <3>1
      <4>2. n # 0 => i - 1 = n /\ n \in 1..(n + 1) /\ n # n + 1 /\ g[i - 1] = f[n]
        BY <3>1
      <4> QED BY <3>1, <4>1, <4>2
    <3>2. CASE i # n + 1
      <4>1. i \in 1..n /\ g[i] = f[i] /\ f[i] = IF i = 1 THEN s[i] ELSE f[i - 1] \o s[i]
        <5>1. i \in 1..n
          BY <3>2
        <5>2. f[i] = IF i = 1 THEN s[i] ELSE f[i - 1] \o s[i]
          BY <2>1, <5>1, Zenon
        <5>3. g[i] = f[i]
          BY <3>2
        <5> QED BY <5>1, <5>2, <5>3
      <4>2. i # 1 => i - 1 \in 1..(n + 1) /\ i - 1 # n + 1 /\ g[i - 1] = f[i - 1]
        BY <3>2
      <4> QED BY <4>1, <4>2
    <3> QED BY <3>1, <3>2
  <2>3. g = [i \in 1..(n + 1) |-> g[i]]
    OBVIOUS
  <2> HIDE DEF g
  <2>4. g = [i \in 1..(n + 1) |-> IF i = 1 THEN s[i] ELSE g[i - 1] \o s[i]]
    BY <2>2, <2>3
  <2> QED BY <2>4
<1> HIDE DEF P
<1>3. Bad = {}
  <2> SUFFICES ASSUME Bad # {} PROVE FALSE
    OBVIOUS
  <2>1. PICK n \in Bad : \A m \in Bad : n <= m
    BY LeastIsThere
  <2>2. n # 0
    BY <1>1
  <2>3. n - 1 \in Nat /\ ~(n <= n - 1)
    BY <2>2
  <2>4. P(n - 1)
    BY <2>1, <2>3
  <2>5. P((n - 1) + 1)
    BY <1>2, <2>3, <2>4
  <2>6. (n - 1) + 1 = n
    OBVIOUS
  <2> QED BY <2>5, <2>6
<1> QED BY <1>3 DEF P

\* FlattenSeq has the elements of its sequences, and no others.
LEMMA FlattenElements ==
    ASSUME NEW S, NEW s \in Seq(Seq(S))
    PROVE  /\ FlattenSeq(s) \in Seq(S)
           /\ ToSet(FlattenSeq(s)) = UNION {ToSet(s[n]) : n \in DOMAIN s}
<1> DEFINE N == Len(s)
           flatten == CHOOSE f : f = [i \in 1..N |-> IF i = 1 THEN s[i] ELSE f[i - 1] \o s[i]]
<1>1. CASE N = 0
  BY <1>1 DEF FlattenSeq, ToSet
<1>2. CASE N # 0
  <2>1. N \in Nat \ {0} /\ DOMAIN s = 1..N /\ \A i \in 1..N : s[i] \in Seq(S)
    BY <1>2
  <2>2. FlattenSeq(s) = flatten[N]
    BY <1>2 DEF FlattenSeq
  <2>3. flatten = [i \in 1..N |-> IF i = 1 THEN s[i] ELSE flatten[i - 1] \o s[i]]
    <3>1. \E f : f = [i \in 1..N |-> IF i = 1 THEN s[i] ELSE f[i - 1] \o s[i]]
      BY <2>1, FlattenEquation
    <3> QED BY <3>1
  <2> HIDE DEF flatten, N
  <2> DEFINE Q(n) == flatten[n] \in Seq(S) /\ ToSet(flatten[n]) = UNION {ToSet(s[m]) : m \in 1..n}
             Bad == {n \in 1..N : ~Q(n)}
  <2>4. Q(1)
    <3>1. flatten[1] = s[1] /\ s[1] \in Seq(S)
      BY <2>1, <2>3
    <3>2. UNION {ToSet(s[m]) : m \in 1..1} = ToSet(s[1])
      OBVIOUS
    <3> QED BY <3>1, <3>2
  <2>5. ASSUME NEW n \in 1..N, n # 1, Q(n - 1) PROVE Q(n)
    <3> DEFINE a == flatten[n - 1]
               b == s[n]
    <3>1. flatten[n] = a \o b /\ a \in Seq(S) /\ b \in Seq(S)
      BY <2>1, <2>3, <2>5
    <3>2. ToSet(a) = UNION {ToSet(s[m]) : m \in 1..(n - 1)}
      BY <2>5
    <3>3. UNION {ToSet(s[m]) : m \in 1..n} = (UNION {ToSet(s[m]) : m \in 1..(n - 1)}) \cup ToSet(b)
      <4>1. 1..n = 1..(n - 1) \cup {n}
        OBVIOUS
      <4> QED BY <4>1
    <3> HIDE DEF a, b
    <3>4. a \o b \in Seq(S) /\ ToSet(a \o b) = ToSet(a) \cup ToSet(b)
      <4>1. /\ a \o b \in Seq(S) /\ Len(a \o b) = Len(a) + Len(b)
            /\ \A i \in 1..(Len(a) + Len(b)) : (a \o b)[i] = IF i <= Len(a) THEN a[i] ELSE b[i - Len(a)]
        BY <3>1, ConcatProperties
      <4> DEFINE ab == a \o b
                 la == Len(a)
                 lb == Len(b)
      <4>2. /\ la \in Nat /\ lb \in Nat /\ DOMAIN a = 1..la /\ DOMAIN b = 1..lb
            /\ DOMAIN ab = 1..(la + lb)
        BY <3>1, <4>1
      <4>3. \A i \in 1..(la + lb) : ab[i] = IF i <= la THEN a[i] ELSE b[i - la]
        BY <4>1
      <4> HIDE DEF ab, la, lb
      <4>4. \A i \in 1..la : i \in 1..(la + lb) /\ ab[i] = a[i]
        BY <4>2, <4>3
      <4>5. \A i \in 1..lb : i + la \in 1..(la + lb) /\ ab[i + la] = b[i]
        <5> SUFFICES ASSUME NEW i \in 1..lb PROVE i + la \in 1..(la + lb) /\ ab[i + la] = b[i]
          OBVIOUS
        <5>1. i + la \in 1..(la + lb) /\ ~(i + la <= la) /\ (i + la) - la = i
          BY <4>2
        <5> QED BY <4>3, <5>1
      <4>6. \A i \in 1..(la + lb) : i <= la \/ i - la \in 1..lb
        BY <4>2
      <4>7. ToSet(ab) \subseteq ToSet(a) \cup ToSet(b)
        <5> SUFFICES ASSUME NEW i \in 1..(la + lb) PROVE ab[i] \in ToSet(a) \cup ToSet(b)
          BY <4>2 DEF ToSet
        <5>1. CASE i <= la
          <6>1. ab[i] = a[i] /\ i \in 1..la
            BY <4>2, <4>3, <5>1
          <6> QED BY <4>2, <6>1 DEF ToSet
        <5>2. CASE ~(i <= la)
          <6>1. ab[i] = b[i - la] /\ i - la \in 1..lb
            BY <4>3, <4>6, <5>2
          <6> QED BY <4>2, <6>1 DEF ToSet
        <5> QED BY <5>1, <5>2
      <4>8. ToSet(a) \cup ToSet(b) \subseteq ToSet(ab)
        BY <4>2, <4>4, <4>5 DEF ToSet
      <4> QED BY <4>1, <4>7, <4>8 DEF ab
    <3> QED BY <3>1, <3>2, <3>3, <3>4 DEF b
  <2> HIDE DEF Q
  <2>6. Bad = {}
    <3> SUFFICES ASSUME Bad # {} PROVE FALSE
      OBVIOUS
    <3> HIDE DEF Bad
    <3>1. PICK n \in Bad : \A m \in Bad : n <= m
      <4>1. Bad \in SUBSET Nat
        BY <2>1 DEF Bad
      <4> QED BY <4>1, LeastIsThere
    <3> USE DEF Bad
    <3>2. n # 1 /\ n \in 1..N
      BY <2>4
    <3>3. n - 1 \in 1..N /\ ~(n <= n - 1)
      BY <2>1, <3>2
    <3>4. Q(n - 1)
      BY <3>1, <3>3
    <3> QED BY <2>5, <3>2, <3>4
  <2>7. Q(N)
    BY <2>1, <2>6
  <2> QED BY <2>1, <2>2, <2>7 DEF Q
<1> QED BY <1>1, <1>2

-----------------------------------------------------------------------------
(* The table of the tiers. *)

TierRecord == [low : Int, high : Int, model : STRING, alternates : Seq(STRING), efforts : Seq(STRING)]

LEMMA TierTypes ==
    /\ Tiers \in Seq(TierRecord) /\ Len(Tiers) \in Nat \ {0} /\ DOMAIN Tiers = 1..Len(Tiers)
    /\ \A i \in 1..Len(Tiers) : /\ Tiers[i].low \in Int /\ Tiers[i].high \in Int /\ Tiers[i].low <= Tiers[i].high
                                /\ Tiers[i].model \in STRING /\ Tiers[i].alternates \in Seq(STRING)
                                /\ Tiers[i].efforts \in Seq(STRING)
    /\ Tiers[1].low = 1 /\ Tiers[Len(Tiers)].high = 20
    /\ \A i \in 1..Len(Tiers) : i > 1 => Tiers[i].low = Tiers[i - 1].high + 1
<1>1. Tiers \in Seq(TierRecord) /\ Tiers # <<>>
  BY CheckTiers DEF TierRecord
<1>2. Len(Tiers) \in Nat \ {0} /\ DOMAIN Tiers = 1..Len(Tiers)
  BY <1>1
<1>3. \A i \in 1..Len(Tiers) : Tiers[i] \in TierRecord
  BY <1>1, <1>2
<1> QED BY <1>1, <1>2, <1>3, CheckTiers DEF TierRecord, MIN_SCORE, MAX_SCORE

LEMMA TierIndexIsFirst ==
    ASSUME NEW model
    PROVE  /\ TierIndex(model) \in 0..Len(Tiers)
           /\ TierIndex(model) # 0 => Tiers[TierIndex(model)].model = model
           /\ \A i \in 1..Len(Tiers) : Tiers[i].model = model => TierIndex(model) # 0 /\ TierIndex(model) <= i
<1> DEFINE I == {i \in 1..Len(Tiers) : Tiers[i].model = model}
           first == CHOOSE x \in I : \A y \in I : x <= y
<1>1. TierIndex(model) = IF I # {} THEN first ELSE 0
  BY DEF TierIndex, SelectInSeq, Min
<1>2. CASE I = {}
  <2>1. TierIndex(model) = 0
    BY <1>1, <1>2
  <2>2. \A i \in 1..Len(Tiers) : Tiers[i].model # model
    BY <1>2
  <2> QED BY <2>1, <2>2, TierTypes
<1>3. CASE I # {}
  <2>1. I \in SUBSET Nat
    BY TierTypes
  <2>2. \E x \in I : \A y \in I : x <= y
    <3> HIDE DEF I
    <3> QED BY <1>3, <2>1, LeastIsThere
  <2>3. first \in I /\ \A y \in I : first <= y
    BY <2>2
  <2> HIDE DEF first
  <2> QED BY <1>1, <1>3, <2>3, TierTypes
<1> QED BY <1>2, <1>3

LEMMA RankTypes ==
    ASSUME NEW effort
    PROVE  EffortRank(effort) \in Nat
<1> DEFINE I == {i \in 1..Len(EFFORT_ORDER) : EFFORT_ORDER[i] = effort}
           first == CHOOSE x \in I : \A y \in I : x <= y
<1>1. EffortRank(effort) = IF I # {} THEN first ELSE 0
  BY DEF EffortRank, SelectInSeq, Min
<1>2. I \in SUBSET Nat
  BY DEF EFFORT_ORDER
<1> HIDE DEF I
<1>3. I # {} => \E x \in I : \A y \in I : x <= y
  BY <1>2, LeastIsThere
<1>4. I # {} => first \in I
  BY <1>3
<1> HIDE DEF first
<1>5. CASE I = {}
  <2>1. EffortRank(effort) = 0
    BY <1>1, <1>5
  <2> QED BY <2>1
<1>6. CASE I # {}
  <2>1. EffortRank(effort) = first /\ first \in Nat
    BY <1>1, <1>2, <1>4, <1>6
  <2> QED BY <2>1
<1> QED BY <1>5, <1>6

\* max_effort
LEMMA MaxEffortIsMore ==
    ASSUME NEW a, NEW b
    PROVE  EffortRank(MaxEffort(a, b)) >= EffortRank(b) /\ MaxEffort(a, b) \in {a, b}
BY RankTypes DEF MaxEffort

LEMMA CapIndexType ==
    ASSUME NEW cap
    PROVE  CapIndex(cap) \in 1..Len(Tiers)
BY TierIndexIsFirst, TierTypes DEF CapIndex

\* Later tiers are for higher scores.
LEMMA TiersAscend ==
    ASSUME NEW i \in 1..Len(Tiers), NEW j \in 1..Len(Tiers), i < j
    PROVE  Tiers[i].high < Tiers[j].low
<1> DEFINE Bad == {k \in 1..Len(Tiers) : i < k /\ ~(Tiers[i].high < Tiers[k].low)}
<1> SUFFICES ASSUME Bad # {} PROVE FALSE
  OBVIOUS
<1>1. Bad \in SUBSET Nat
  BY TierTypes
<1>2. PICK k \in Bad : \A m \in Bad : k <= m
  <2> HIDE DEF Bad
  <2> QED BY <1>1, LeastIsThere
<1>3. k \in 1..Len(Tiers) /\ i < k /\ i \in Nat /\ k \in Nat /\ Len(Tiers) \in Nat
  BY TierTypes
<1>4. k - 1 \in 1..Len(Tiers) /\ Tiers[k].low = Tiers[k - 1].high + 1 /\ k - 1 \notin Bad
  <2>1. k # 1 /\ k > 1 /\ k - 1 \in 1..Len(Tiers) /\ ~(k <= k - 1)
    BY <1>3
  <2>2. Tiers[k].low = Tiers[k - 1].high + 1
    BY <1>3, <2>1, TierTypes
  <2>3. k - 1 \notin Bad
    <3> HIDE DEF Bad
    <3> QED BY <1>2, <2>1
  <2> QED BY <2>1, <2>2, <2>3
<1>5. /\ Tiers[k - 1].high \in Int /\ Tiers[k - 1].low \in Int /\ Tiers[k - 1].low <= Tiers[k - 1].high
      /\ Tiers[i].high \in Int
  BY <1>4, TierTypes
<1>6. CASE k - 1 = i
  BY <1>4, <1>5, <1>6
<1>7. CASE k - 1 # i
  <2>1. i < k - 1
    BY <1>3, <1>7
  <2>2. Tiers[i].high < Tiers[k - 1].low
    BY <1>4, <2>1
  <2> QED BY <1>4, <1>5, <2>2
<1> QED BY <1>6, <1>7

\* Every score has its tier.
LEMMA TierCovers ==
    ASSUME NEW score \in Scores
    PROVE  /\ TierForScore(score) \in 1..Len(Tiers)
           /\ Tiers[TierForScore(score)].low <= score /\ score <= Tiers[TierForScore(score)].high
<1> DEFINE High == {i \in 1..Len(Tiers) : score <= Tiers[i].high}
<1>1. score \in 1..20
  BY DEF Scores, MIN_SCORE, MAX_SCORE
<1>2. High \in SUBSET Nat /\ Len(Tiers) \in High
  BY <1>1, TierTypes, SMTT(30)
<1>3. PICK i \in High : \A j \in High : i <= j
  <2> HIDE DEF High
  <2> QED BY <1>2, LeastIsThere
<1>4. i \in 1..Len(Tiers) /\ score <= Tiers[i].high /\ Tiers[i].low \in Int /\ Tiers[i].high \in Int /\ i \in Nat
  BY TierTypes
<1>5. Tiers[i].low <= score
  <2>1. CASE i = 1
    <3>1. Tiers[i].low = 1
      BY <2>1, TierTypes
    <3> QED BY ONLY <1>1, <3>1
  <2>2. CASE i # 1
    <3>1. i - 1 \in 1..Len(Tiers) /\ ~(i <= i - 1) /\ i > 1
      BY <1>4, <2>2, TierTypes
    <3>2. i - 1 \notin High
      <4> HIDE DEF High
      <4> QED BY <1>3, <3>1
    <3>3. ~(score <= Tiers[i - 1].high)
      BY <3>1, <3>2
    <3>4. Tiers[i - 1].high \in Int
      BY <3>1, TierTypes
    <3>5. Tiers[i].low = Tiers[i - 1].high + 1
      BY <1>4, <3>1, TierTypes
    <3>6. PICK low, high : low = Tiers[i].low /\ high = Tiers[i - 1].high
      OBVIOUS
    <3>7. ~(score <= high) /\ high \in Int /\ low = high + 1
      BY <3>3, <3>4, <3>5, <3>6
    <3>8. low <= score
      BY ONLY <1>1, <3>7
    <3> QED BY <3>6, <3>8
  <2> QED BY <2>1, <2>2
<1>6. score \in Tiers[i].low..Tiers[i].high
  BY <1>1, <1>4, <1>5
<1> DEFINE found == CHOOSE k \in 1..Len(Tiers) : score \in Tiers[k].low..Tiers[k].high
<1>7. found \in 1..Len(Tiers) /\ score \in Tiers[found].low..Tiers[found].high
  BY <1>4, <1>6
<1>8. TierForScore(score) = found
  BY TierTypes DEF TierForScore
<1> HIDE DEF found
<1>9. Tiers[found].low <= score /\ score <= Tiers[found].high
  BY <1>1, <1>7, TierTypes
<1> QED BY <1>7, <1>8, <1>9

\* A higher score has no lower tier.
LEMMA TierGrows ==
    ASSUME NEW a \in Scores, NEW b \in Scores, a <= b
    PROVE  TierForScore(a) <= TierForScore(b)
<1> DEFINE i == TierForScore(a)
           j == TierForScore(b)
<1>1. i \in 1..Len(Tiers) /\ j \in 1..Len(Tiers) /\ Tiers[i].low <= a /\ b <= Tiers[j].high
  BY TierCovers
<1> HIDE DEF i, j
<1> SUFFICES ASSUME ~(i <= j) PROVE FALSE
  BY DEF i, j
<1>2. j < i
  BY <1>1, TierTypes
<1>3. Tiers[j].high < Tiers[i].low
  BY <1>1, <1>2, TiersAscend
<1> QED BY <1>1, <1>3, TierTypes, SMTT(30) DEF Scores, MIN_SCORE, MAX_SCORE

\* Every tier lies within the scores.
LEMMA TierRanges ==
    ASSUME NEW i \in 1..Len(Tiers)
    PROVE  Tiers[i].low \in 1..20 /\ Tiers[i].high \in 1..20 /\ Tiers[i].low <= Tiers[i].high
<1> DEFINE n == Len(Tiers)
<1>1. n \in Nat \ {0} /\ 1 \in 1..n /\ n \in 1..n
  BY TierTypes
<1>2. Tiers[i].low \in Int /\ Tiers[i].high \in Int /\ Tiers[i].low <= Tiers[i].high
  BY TierTypes
<1>3. Tiers[i].low >= 1
  <2>1. CASE i = 1
    BY <2>1, TierTypes
  <2>2. CASE i # 1
    <3>1. 1 < i
      BY <1>1, <2>2
    <3>2. Tiers[1].high < Tiers[i].low
      BY <1>1, <3>1, TiersAscend
    <3> QED BY <1>1, <1>2, <3>2, TierTypes
  <2> QED BY <2>1, <2>2
<1>4. Tiers[i].high <= 20
  <2>1. CASE i = n
    BY <1>2, <2>1, TierTypes
  <2>2. CASE i # n
    <3>1. i < n
      BY <1>1, <2>2
    <3>2. Tiers[i].high < Tiers[n].low
      BY <1>1, <3>1, TiersAscend
    <3>3. Tiers[n].low <= 20 /\ Tiers[n].low \in Int
      BY <1>1, TierTypes
    <3> QED BY <1>2, <3>2, <3>3
  <2> QED BY <2>1, <2>2
<1>5. \A a, b \in Int : a >= 1 /\ b <= 20 /\ a <= b => a \in 1..20 /\ b \in 1..20
  OBVIOUS
<1> QED BY <1>2, <1>3, <1>4, <1>5

\* The score that the cap leaves has a tier within the cap.
LEMMA EffectiveWithinCap ==
    ASSUME NEW score \in Scores, NEW shift \in Int, NEW cap
    PROVE  /\ Effective(score, shift, cap) \in Scores
           /\ TierForScore(Effective(score, shift, cap)) <= CapIndex(cap)
<1> DEFINE top == CapIndex(cap)
           e == Effective(score, shift, cap)
<1>1. top \in 1..Len(Tiers)
  BY CapIndexType
<1>2. Tiers[top].high \in Int /\ Tiers[top].high >= 1
  BY <1>1, TierRanges, SMTT(30)
<1>4. e = Min2(Clamp(score + shift, MIN_SCORE, MAX_SCORE), Tiers[top].high)
  BY DEF Effective
<1> HIDE DEF top, e
<1>5. e \in Scores /\ e <= Tiers[top].high
  BY <1>2, <1>4 DEF Min2, Max2, Clamp, Scores, MIN_SCORE, MAX_SCORE
<1> DEFINE i == TierForScore(e)
<1>6. i \in 1..Len(Tiers) /\ Tiers[i].low <= e
  BY <1>5, TierCovers
<1> HIDE DEF i
<1>7. ~(top < i)
  <2> SUFFICES ASSUME top < i PROVE FALSE
    OBVIOUS
  <2>1. Tiers[top].high < Tiers[i].low
    BY <1>1, <1>6, TiersAscend
  <2> QED BY <1>2, <1>5, <1>6, <2>1, TierTypes DEF Scores, MIN_SCORE, MAX_SCORE
<1>8. i <= top
  BY <1>1, <1>6, <1>7, TierTypes
<1> QED BY <1>5, <1>8 DEF e, i, top

-----------------------------------------------------------------------------
(* The failover order. *)

LEMMA OneElement ==
    ASSUME NEW S, NEW m \in S
    PROVE  <<m>> \in Seq(S) /\ Len(<<m>>) = 1 /\ <<m>>[1] = m
OBVIOUS

LEMMA NearestElements ==
    ASSUME NEW top \in 1..Len(Tiers), NEW i \in 1..top
    PROVE  Nearest(i, top) \in Seq(1..top) /\ ToSet(Nearest(i, top)) = 1..top
<1> DEFINE n == 2 * Len(Tiers) - 1
           near == [k \in 1..n |-> IF k % 2 = 0 THEN i + k \div 2 ELSE i - k \div 2]
           places == {k \in 1..n : near[k] \in 1..top}
<1>1. n \in Nat /\ top \in Nat /\ i \in Nat /\ i <= top /\ 1 <= i /\ top <= Len(Tiers) /\ Len(Tiers) \in Nat
  BY TierTypes
<1>2. DOMAIN near = 1..n /\ places \in SUBSET (1..n)
  OBVIOUS
<1>3. Nearest(i, top) = At(near, places)
  BY <1>2 DEF Nearest
<1>4. \A j \in 1..top : \E k \in places : near[k] = j
  <2> SUFFICES ASSUME NEW j \in 1..top PROVE \E k \in 1..n : near[k] = j
    OBVIOUS
  <2>1. CASE j > i
    <3> DEFINE k == 2 * (j - i)
    <3>1. k \in 1..n /\ k % 2 = 0 /\ k \div 2 = j - i
      BY <1>1, <2>1
    <3> HIDE DEF k
    <3>2. near[k] = i + (j - i)
      BY <3>1
    <3> QED BY <1>1, <3>1, <3>2
  <2>2. CASE ~(j > i)
    <3> DEFINE k == 2 * (i - j) + 1
    <3>1. k \in 1..n /\ k % 2 = 1 /\ k \div 2 = i - j
      BY <1>1, <2>2
    <3> HIDE DEF k
    <3>2. near[k] = i - (i - j)
      BY <3>1
    <3> QED BY <1>1, <3>1, <3>2
  <2> QED BY <2>1, <2>2
<1> HIDE DEF near, n
<1>5. places \in SUBSET (1..n) /\ \A k \in places : near[k] \in 1..top
  OBVIOUS
<1>6. {near[k] : k \in places} = 1..top
  BY <1>4
<1> HIDE DEF places
<1>7. ToSet(At(near, places)) = {near[k] : k \in places} /\ At(near, places) \in Seq(1..top)
  BY <1>1, <1>5, AtElements
<1> QED BY <1>3, <1>6, <1>7

LEMMA RowElements ==
    ASSUME NEW i \in 1..Len(Tiers)
    PROVE  /\ Row(i) \in Seq(STRING) /\ ToSet(Row(i)) = {Tiers[i].model} \cup ToSet(Tiers[i].alternates)
<1> DEFINE a == Tiers[i].alternates
           m == Tiers[i].model
<1>1. a \in Seq(STRING) /\ m \in STRING
  BY TierTypes
<1> HIDE DEF a, m
<1> DEFINE one == <<m>>
<1>2. one \in Seq(STRING) /\ Len(one) = 1 /\ one[1] = m
  BY <1>1, OneElement
<1> HIDE DEF one
<1> DEFINE r == one \o a
<1>3. /\ r \in Seq(STRING) /\ Len(r) = Len(a) + 1 /\ Len(a) \in Nat /\ DOMAIN a = 1..Len(a)
      /\ \A k \in 1..(Len(a) + 1) : r[k] = IF k <= 1 THEN m ELSE a[k - 1]
  <2>1. /\ r \in Seq(STRING) /\ Len(r) = Len(one) + Len(a)
        /\ \A k \in 1..(Len(one) + Len(a)) : r[k] = IF k <= Len(one) THEN one[k] ELSE a[k - Len(one)]
    BY <1>1, <1>2, ConcatProperties
  <2>2. Len(a) \in Nat /\ DOMAIN a = 1..Len(a) /\ Len(one) + Len(a) = Len(a) + 1
    BY <1>1, <1>2
  <2>3. \A k \in 1..(Len(a) + 1) : r[k] = IF k <= 1 THEN m ELSE a[k - 1]
    <3> SUFFICES ASSUME NEW k \in 1..(Len(a) + 1) PROVE r[k] = IF k <= 1 THEN m ELSE a[k - 1]
      OBVIOUS
    <3>1. r[k] = IF k <= 1 THEN one[k] ELSE a[k - 1]
      BY <1>2, <2>1, <2>2
    <3>2. k <= 1 => k = 1
      BY <2>2
    <3> QED BY <1>2, <3>1, <3>2
  <2> QED BY <2>1, <2>2, <2>3
<1>4. Row(i) = r
  BY DEF Row, a, m, one
<1> HIDE DEF r
<1>5. DOMAIN r = 1..(Len(a) + 1)
  BY <1>3
<1>6. ToSet(r) \subseteq {m} \cup ToSet(a)
  BY <1>3, <1>5 DEF ToSet
<1>7. m \in ToSet(r)
  <2>1. 1 \in DOMAIN r /\ r[1] = m
    BY <1>3, <1>5
  <2> QED BY <2>1 DEF ToSet
<1>8. ToSet(a) \subseteq ToSet(r)
  <2> SUFFICES ASSUME NEW k \in 1..Len(a) PROVE a[k] \in ToSet(r)
    BY <1>3 DEF ToSet
  <2>1. k + 1 \in DOMAIN r /\ r[k + 1] = a[k]
    BY <1>3, <1>5
  <2> QED BY <2>1 DEF ToSet
<1> QED BY <1>3, <1>4, <1>6, <1>7, <1>8 DEF a, m

WithinTop(m, top) == TierIndex(m) <= top \/ m = FallbackModel
TierModels(i)     == {Tiers[i].model} \cup ToSet(Tiers[i].alternates)

\* An order without repetitions of allowed models, with every primary that is allowed.
LEMMA FailoverIsRight ==
    ASSUME NEW index \in 1..Len(Tiers), NEW top \in 1..Len(Tiers)
    PROVE  LET c == Failover(index, top) IN
           /\ c \in Seq(STRING) /\ \A k, l \in DOMAIN c : c[k] = c[l] => k = l
           /\ \A m \in ToSet(c) : /\ WithinTop(m, top)
                                  /\ m = FallbackModel \/ \E i \in 1..top : m \in TierModels(i)
           /\ FallbackModel \in ToSet(c)
           /\ \A i \in 1..top : Tiers[i].model \in ToSet(c)
<1> DEFINE order   == Nearest(Min2(index, top), top)
           rows    == [n \in DOMAIN order |-> Row(order[n])]
           flat    == FlattenSeq(rows)
           names   == flat \o <<FallbackModel>>
           allowed == {k \in DOMAIN names : TierIndex(names[k]) <= top \/ k = Len(names)}
           places  == {k \in allowed : \A j \in allowed : j < k => names[j] # names[k]}
           c       == At(names, places)
<1>1. Failover(index, top) = c
  BY DEF Failover
<1>2. order \in Seq(1..top) /\ ToSet(order) = 1..top
  <2>1. Min2(index, top) \in 1..top
    BY TierTypes DEF Min2
  <2> QED BY <2>1, NearestElements
<1> HIDE DEF order
<1>3. rows \in Seq(Seq(STRING)) /\ DOMAIN rows = DOMAIN order /\ \A n \in DOMAIN rows : rows[n] = Row(order[n])
  <2>1. \A k \in DOMAIN order : order[k] \in 1..Len(Tiers)
    <3>1. \A k \in DOMAIN order : order[k] \in 1..top
      BY <1>2
    <3>2. \A i \in 1..top : i \in 1..Len(Tiers)
      BY TierTypes
    <3> QED BY <3>1, <3>2
  <2>2. \A n \in DOMAIN order : Row(order[n]) \in Seq(STRING)
    BY <2>1, RowElements
  <2>3. DOMAIN order = 1..Len(order) /\ Len(order) \in Nat
    BY <1>2
  <2> QED BY <2>2, <2>3
<1>4. flat \in Seq(STRING) /\ ToSet(flat) = UNION {ToSet(rows[n]) : n \in DOMAIN rows}
  <2> HIDE DEF rows
  <2> QED BY <1>3, FlattenElements
<1>5. ToSet(flat) = UNION {TierModels(i) : i \in 1..top}
  <2>1. \A k \in DOMAIN order : order[k] \in 1..top /\ order[k] \in 1..Len(Tiers)
    <3>1. \A k \in DOMAIN order : order[k] \in 1..top
      BY <1>2
    <3>2. \A i \in 1..top : i \in 1..Len(Tiers)
      BY TierTypes
    <3> QED BY <3>1, <3>2
  <2>2. \A k \in DOMAIN order : ToSet(rows[k]) = TierModels(order[k])
    BY <1>3, <2>1, RowElements DEF TierModels
  <2>3. \A i \in 1..top : \E k \in DOMAIN order : order[k] = i
    BY <1>2 DEF ToSet
  <2> HIDE DEF rows, flat
  <2>4. ASSUME NEW x \in ToSet(flat) PROVE x \in UNION {TierModels(i) : i \in 1..top}
    <3>1. PICK k \in DOMAIN order : x \in ToSet(rows[k])
      BY <1>3, <1>4
    <3> QED BY <2>1, <2>2, <3>1
  <2>5. ASSUME NEW i \in 1..top, NEW x \in TierModels(i) PROVE x \in ToSet(flat)
    <3>1. PICK k \in DOMAIN order : order[k] = i
      BY <2>3
    <3>2. x \in ToSet(rows[k]) /\ k \in DOMAIN rows
      BY <1>3, <2>2, <3>1
    <3> QED BY <1>4, <3>2
  <2> QED BY <2>4, <2>5
<1> DEFINE n == Len(names)
<1> DEFINE last == <<FallbackModel>>
<1>6. /\ names \in Seq(STRING) /\ n = Len(flat) + 1 /\ Len(flat) \in Nat /\ DOMAIN names = 1..n
      /\ names[n] = FallbackModel /\ \A k \in 1..Len(flat) : names[k] = flat[k]
      /\ DOMAIN flat = 1..Len(flat)
  <2>1. last \in Seq(STRING) /\ Len(last) = 1 /\ last[1] = FallbackModel
    BY CheckTiers
  <2>2. names = flat \o last
    OBVIOUS
  <2> HIDE DEF flat, names, last
  <2>3. /\ names \in Seq(STRING) /\ Len(names) = Len(flat) + Len(last)
        /\ \A k \in 1..(Len(flat) + Len(last)) : names[k] = IF k <= Len(flat) THEN flat[k] ELSE last[k - Len(flat)]
    BY <1>4, <2>1, <2>2, ConcatProperties
  <2>4. Len(flat) \in Nat /\ DOMAIN flat = 1..Len(flat) /\ n = Len(flat) + 1 /\ DOMAIN names = 1..n
    BY <1>4, <2>1, <2>3
  <2>5. names[n] = FallbackModel
    <3>1. n \in 1..(Len(flat) + Len(last)) /\ ~(n <= Len(flat)) /\ n - Len(flat) = 1
      BY <2>1, <2>4
    <3> QED BY <2>1, <2>3, <3>1
  <2>6. \A k \in 1..Len(flat) : names[k] = flat[k]
    BY <2>1, <2>3, <2>4
  <2> QED BY <2>3, <2>4, <2>5, <2>6
<1>7. places \in SUBSET (1..n) /\ n \in Nat /\ \A i \in places : names[i] \in STRING
  BY <1>6
<1> HIDE DEF names, flat, n
<1>8. /\ DOMAIN c = 1..Cardinality(places) /\ ToSet(c) = {names[i] : i \in places} /\ c \in Seq(STRING)
      /\ \A k \in DOMAIN c : PlaceOf(places, k) \in places /\ c[k] = names[PlaceOf(places, k)]
      /\ \A k, l \in DOMAIN c : PlaceOf(places, k) = PlaceOf(places, l) => k = l
  <2> HIDE DEF places, allowed
  <2>1. Cardinality(places) \in Nat /\ DOMAIN c = 1..Cardinality(places)
    BY <1>7, AtPlaces
  <2>2. /\ \A k \in DOMAIN c : PlaceOf(places, k) \in places /\ c[k] = names[PlaceOf(places, k)]
        /\ \A k, l \in DOMAIN c : PlaceOf(places, k) = PlaceOf(places, l) => k = l
    BY <1>7, AtPlaces
  <2>3. c \in Seq(STRING) /\ ToSet(c) = {names[i] : i \in places}
    BY <1>7, AtElements
  <2> QED BY <2>1, <2>2, <2>3
<1>9. \A i, j \in places : names[i] = names[j] => i = j
  <2> SUFFICES ASSUME NEW i \in places, NEW j \in places, names[i] = names[j], i # j PROVE FALSE
    OBVIOUS
  <2>1. i < j \/ j < i
    BY <1>7
  <2> QED BY <2>1
<1>10. \A k \in allowed : \E i \in places : names[i] = names[k]
  <2> SUFFICES ASSUME NEW k \in allowed PROVE \E i \in places : names[i] = names[k]
    OBVIOUS
  <2> DEFINE Same == {j \in allowed : names[j] = names[k]}
  <2>1. Same \in SUBSET Nat /\ k \in Same
    BY <1>6
  <2>2. PICK i \in Same : \A j \in Same : i <= j
    <3> HIDE DEF Same
    <3> QED BY <2>1, LeastIsThere
  <2>3. \A j \in allowed : j < i => names[j] # names[i]
    BY <1>6, <2>2
  <2> QED BY <2>3
<1>11. \A k, l \in DOMAIN c : c[k] = c[l] => k = l
  <2> HIDE DEF places, c
  <2> QED BY <1>8, <1>9
<1>12. n \in allowed
  BY <1>6 DEF n
<1>13. FallbackModel \in ToSet(c)
  <2> HIDE DEF places, c, allowed
  <2> QED BY <1>6, <1>8, <1>10, <1>12
<1>14. ASSUME NEW m \in ToSet(c)
       PROVE  /\ WithinTop(m, top)
              /\ m = FallbackModel \/ \E i \in 1..top : m \in TierModels(i)
  <2>1. PICK k \in places : m = names[k]
    BY <1>8
  <2>2. k \in 1..n /\ (TierIndex(names[k]) <= top \/ k = n)
    BY <1>6 DEF n
  <2>3. CASE k = n
    BY <1>6, <2>1, <2>3 DEF WithinTop
  <2>4. CASE k # n
    <3>1. k \in 1..Len(flat) /\ m = flat[k]
      BY <1>6, <2>1, <2>2, <2>4
    <3>2. m \in ToSet(flat)
      BY <1>6, <3>1 DEF ToSet
    <3> QED BY <1>5, <2>1, <2>2, <2>4, <3>2 DEF WithinTop
  <2> QED BY <2>3, <2>4
<1>15. ASSUME NEW i \in 1..top PROVE Tiers[i].model \in ToSet(c)
  <2>1. Tiers[i].model \in ToSet(flat)
    BY <1>5 DEF TierModels
  <2>2. PICK k \in 1..Len(flat) : flat[k] = Tiers[i].model
    BY <1>6, <2>1 DEF ToSet
  <2>3. k \in 1..n /\ names[k] = Tiers[i].model
    BY <1>6, <2>2
  <2>4. TierIndex(Tiers[i].model) <= top
    <3>1. i \in 1..Len(Tiers) /\ i <= top /\ i \in Nat /\ top \in Nat
      BY TierTypes
    <3>2. TierIndex(Tiers[i].model) <= i /\ TierIndex(Tiers[i].model) \in Nat
      BY <3>1, TierIndexIsFirst, TierTypes, SMTT(30)
    <3> QED BY <3>1, <3>2
  <2>5. k \in allowed
    BY <1>6, <2>3, <2>4
  <2>6. PICK j \in places : names[j] = names[k]
    <3> HIDE DEF places, allowed
    <3> QED BY <1>10, <2>5
  <2> HIDE DEF places, c
  <2> QED BY <1>8, <2>3, <2>6
<1> HIDE DEF c
<1> QED BY <1>1, <1>8, <1>11, <1>13, <1>14, <1>15

\* The candidates of a decision are those of the router, less the model chosen.
LEMMA DecisionCandidates ==
    ASSUME NEW s \in Seq(STRING), NEW model, NEW score, NEW effort, NEW fallback,
           \A k, l \in DOMAIN s : s[k] = s[l] => k = l
    PROVE  LET d == Decision(model, score, effort, s, fallback) IN
           /\ d.model = model /\ d.score = score /\ d.effort = effort /\ d.fallback = fallback
           /\ d.candidates \in Seq(STRING) /\ ToSet(d.candidates) = ToSet(s) \ {model}
           /\ \A k, l \in DOMAIN d.candidates : d.candidates[k] = d.candidates[l] => k = l
<1> DEFINE n == Len(s)
           places == {k \in DOMAIN s : s[k] # model}
           c == At(s, places)
<1>1. n \in Nat /\ DOMAIN s = 1..n /\ \A k \in 1..n : s[k] \in STRING
  OBVIOUS
<1>2. places \in SUBSET (1..n)
  BY <1>1
<1>3. Decision(model, score, effort, s, fallback) =
        [model |-> model, score |-> score, effort |-> effort, candidates |-> c, fallback |-> fallback]
  BY DEF Decision
<1> HIDE DEF n
<1>4. /\ DOMAIN c = 1..Cardinality(places) /\ ToSet(c) = {s[i] : i \in places} /\ c \in Seq(STRING)
      /\ \A k \in DOMAIN c : PlaceOf(places, k) \in places /\ c[k] = s[PlaceOf(places, k)]
      /\ \A k, l \in DOMAIN c : PlaceOf(places, k) = PlaceOf(places, l) => k = l
  <2>1. \A i \in places : s[i] \in STRING
    BY <1>1
  <2> HIDE DEF places
  <2>2. c \in Seq(STRING) /\ ToSet(c) = {s[i] : i \in places}
    BY <1>1, <1>2, <2>1, AtElements
  <2>3. /\ DOMAIN c = 1..Cardinality(places)
        /\ \A k \in DOMAIN c : PlaceOf(places, k) \in places /\ c[k] = s[PlaceOf(places, k)]
        /\ \A k, l \in DOMAIN c : PlaceOf(places, k) = PlaceOf(places, l) => k = l
    BY <1>1, <1>2, AtPlaces
  <2> QED BY <2>2, <2>3
<1>5. ToSet(c) = ToSet(s) \ {model}
  <2>1. {s[i] : i \in places} = {s[i] : i \in DOMAIN s} \ {model}
    OBVIOUS
  <2> HIDE DEF c, places
  <2> QED BY <1>4, <2>1 DEF ToSet
<1> HIDE DEF c
<1>6. \A k, l \in DOMAIN c : c[k] = c[l] => k = l
  <2> SUFFICES ASSUME NEW k \in DOMAIN c, NEW l \in DOMAIN c, c[k] = c[l] PROVE k = l
    OBVIOUS
  <2>1. PlaceOf(places, k) \in DOMAIN s /\ PlaceOf(places, l) \in DOMAIN s
    BY <1>4
  <2>2. s[PlaceOf(places, k)] = s[PlaceOf(places, l)]
    BY <1>4
  <2> QED BY <1>4, <2>1, <2>2
<1> QED BY <1>3, <1>4, <1>5, <1>6

-----------------------------------------------------------------------------
(* The daily budget. *)

Open  == {s \in Slots : slot[s].pc = "open"}
Loose == {s \in Open : slot[s].prefs.note # "reached"}

Bills == [before : Nat, capped : Nat, loops : Nat]
Request == [pc : {"free", "open"}, pinned : BOOLEAN, prefs : Prefs]

\* What was billed for the three kinds of requests is what was spent today, and
\* nothing was spent in the future.
PartOfSpend == spend.day <= day /\ SpentToday = billed.before + billed.capped + billed.loops

\* Without a budget none is reached.
NoBudget == asked.budget = 0 => billed.capped = 0 /\ billed.loops = 0 /\ Loose = Open

\* What is billed and what is to come, for requests that did not find the budget
\* reached and for all.
BudgetHeld ==
    /\ asked.budget > 0 =>
          billed.before + Cardinality(Loose) * MaxCost <= asked.budget - 1 + Cardinality(Slots) * MaxCost
    /\ SpentToday + Cardinality(Open) * MaxCost <= MaxSpend + Cardinality(Slots) * MaxCost

PreferencesInv == PreferencesTypeOK /\ PartOfSpend /\ NoBudget /\ BudgetHeld

-----------------------------------------------------------------------------
LEMMA MaxCostIsMost == MaxCost \in Nat /\ MaxCost \in Costs /\ \A c \in Costs : c \in Nat /\ c <= MaxCost
BY PreferencesAssumption DEF MaxCost

\* Some of the slots are at most all of them.
LEMMA SlotCounts ==
    ASSUME NEW S \in SUBSET Slots
    PROVE  /\ IsFiniteSet(S) /\ Cardinality(S) \in Nat /\ Cardinality(Slots) \in Nat
           /\ Cardinality(S) * MaxCost \in Nat /\ Cardinality(Slots) * MaxCost \in Nat
           /\ Cardinality(S) * MaxCost <= Cardinality(Slots) * MaxCost
<1>1. /\ IsFiniteSet(S) /\ Cardinality(S) \in Nat /\ Cardinality(Slots) \in Nat
      /\ Cardinality(S) <= Cardinality(Slots)
  BY PreferencesAssumption, FS_Subset, FS_CardinalityType
<1>2. \A m, n, c \in Nat : m * c \in Nat /\ (m <= n => m * c <= n * c)
  OBVIOUS
<1> QED BY <1>1, <1>2, MaxCostIsMost

\* A slot that is freed.
LEMMA OneLess ==
    ASSUME NEW S \in SUBSET Slots, NEW s \in S, NEW c \in Nat, c <= MaxCost
    PROVE  Cardinality(S \ {s}) * MaxCost + c <= Cardinality(S) * MaxCost
<1>1. Cardinality(S \ {s}) = Cardinality(S) - 1 /\ Cardinality(S \ {s}) \in Nat
  BY SlotCounts, FS_RemoveElement
<1>2. \A m, d \in Nat : (m + 1) * d = m * d + d
  OBVIOUS
<1>3. Cardinality(S) = Cardinality(S \ {s}) + 1
  BY <1>1, SlotCounts
<1>4. Cardinality(S) * MaxCost = Cardinality(S \ {s}) * MaxCost + MaxCost
  BY <1>1, <1>2, <1>3, MaxCostIsMost
<1>5. Cardinality(S \ {s}) * MaxCost \in Nat
  BY SlotCounts
<1> QED BY <1>4, <1>5, MaxCostIsMost

\* The types of the single variables.
LEMMA Types ==
    ASSUME PreferencesInv
    PROVE  /\ slot \in [Slots -> Request]
           /\ asked.budget \in Nat /\ asked.cap \in CapNames \cup {NoModel}
           /\ day \in 1..Days /\ begun \in BOOLEAN
           /\ billed \in Bills /\ billed.before \in Nat
           /\ spend \in [day : 0..Days, total : 0..(MaxSpend + Cardinality(Slots) * MaxCost)]
           /\ spend.day <= day /\ SpentToday \in Nat /\ billed.before <= SpentToday
<1>1. PreferencesTypeOK /\ PartOfSpend
  BY DEF PreferencesInv
<1>2. asked.budget \in Nat /\ asked.cap \in CapNames \cup {NoModel}
  BY <1>1, PreferencesAssumption DEF PreferencesTypeOK
<1>3. SpentToday \in Nat
  <2>1. spend.total \in Nat
    BY <1>1, SlotCounts, PreferencesAssumption DEF PreferencesTypeOK
  <2> QED BY <2>1 DEF SpentToday
<1>4. billed \in Bills /\ billed.before \in Nat /\ billed.before <= SpentToday
  <2>1. billed \in Bills
    BY <1>1 DEF PreferencesTypeOK, Bills
  <2>2. billed.before \in Nat /\ billed.capped \in Nat /\ billed.loops \in Nat
    BY <2>1 DEF Bills
  <2> QED BY <1>1, <2>1, <2>2 DEF PartOfSpend
<1> QED BY <1>1, <1>2, <1>3, <1>4 DEF PreferencesTypeOK, PartOfSpend, Request

\* auto_preferences gives out preferences of the right type.
LEMMA PrefsType ==
    ASSUME NEW mode, asked.cap \in CapNames \cup {NoModel}
    PROVE  PrefsFor(mode) \in Prefs
<1> USE PreferencesAssumption
<1>1. Shift(mode) \in {-MODE_SHIFT, MODE_SHIFT, 0}
  BY DEF Shift
<1>2. ASSUME NEW k \in {0, BUDGET_SHIFT} PROVE Shift(mode) - k \in Shifts
  BY <1>1, <1>2 DEF Shifts
<1>3. ASSUME NEW a \in CapModels \cup {NoModel} PROVE LowerCap(a, BUDGET_CAP) \in Caps
  BY DEF LowerCap, Caps
<1>4. PrefsFor(mode).note \in {"none", "warned", "reached"}
  BY DEF PrefsFor
<1> QED BY <1>2, <1>3, <1>4 DEF PrefsFor, Prefs, Caps

LEMMA InitEstablishes == PreferencesInit => PreferencesInv
<1> SUFFICES ASSUME PreferencesInit PROVE PreferencesInv
  OBVIOUS
<1> USE PreferencesAssumption
<1>1. Free \in Request
  BY DEF Free, Request, Prefs, Shifts, Caps
<1>2. PreferencesTypeOK
  <2>1. slot \in [Slots -> Request]
    BY <1>1 DEF PreferencesInit
  <2>2. spend \in [day : 0..Days, total : 0..(MaxSpend + Cardinality(Slots) * MaxCost)]
    BY SlotCounts DEF PreferencesInit
  <2>3. billed \in [before : Nat, capped : Nat, loops : Nat]
    BY DEF PreferencesInit, NoBills
  <2>4. slot \in [Slots -> [pc : {"free", "open"}, pinned : BOOLEAN, prefs : Prefs]]
    BY <2>1 DEF Request
  <2>5. begun \in BOOLEAN /\ asked \in [budget : Budgets, cap : CapNames \cup {NoModel}]
    BY Zenon DEF PreferencesInit
  <2>6. day \in 1..Days
    BY DEF PreferencesInit
  <2> QED BY <2>2, <2>3, <2>4, <2>5, <2>6 DEF PreferencesTypeOK
<1>3. SpentToday = 0 /\ billed.before = 0 /\ billed.capped = 0 /\ billed.loops = 0
  BY DEF PreferencesInit, SpentToday, NoBills
<1>5. spend.day <= day
  BY DEF PreferencesInit
<1>4. BudgetHeld
  <2>1. Open \in SUBSET Slots /\ Loose \in SUBSET Slots
    BY DEF Open, Loose
  <2>2. asked.budget \in Nat
    BY DEF PreferencesInit
  <2> QED BY <1>3, <2>1, <2>2, SlotCounts DEF BudgetHeld
<1>6. NoBudget
  <2>1. Open = {} /\ Loose = {}
    BY DEF PreferencesInit, Free, Open, Loose
  <2> QED BY <1>3, <2>1 DEF NoBudget
<1> QED BY <1>2, <1>3, <1>4, <1>5, <1>6 DEF PreferencesInv, PartOfSpend

LEMMA OpenedKeeps == ASSUME PreferencesInv, NEW s \in Slots, Opened(s) PROVE PreferencesInv'
<1> USE PreferencesAssumption
<1>1. PICK mode \in Modes, pinned \in {FALSE, begun} :
        slot' = [slot EXCEPT ![s] = [pc |-> "open", pinned |-> pinned, prefs |-> PrefsFor(mode)]]
  BY DEF Opened
<1>2. /\ UNCHANGED <<day, spend, asked, billed>> /\ begun \in BOOLEAN /\ begun' \in BOOLEAN /\ SpentToday < MaxSpend
      /\ slot \in [Slots -> Request] /\ slot[s].pc = "free"
      /\ asked.budget \in Nat /\ billed.before \in Nat /\ billed.before <= SpentToday /\ SpentToday \in Nat
      /\ asked.cap \in CapNames \cup {NoModel}
  BY Types DEF Opened
<1>3. PrefsFor(mode) \in Prefs
  BY <1>2, PrefsType
<1>4. slot'[s].pc = "open" /\ slot'[s].prefs = PrefsFor(mode) /\ \A t \in Slots \ {s} : slot'[t] = slot[t]
  BY <1>1, <1>2
<1>5. PreferencesTypeOK'
  <2>1. [pc |-> "open", pinned |-> pinned, prefs |-> PrefsFor(mode)] \in Request
    BY <1>2, <1>3 DEF Request
  <2>2. slot' \in [Slots -> Request]
    BY <1>1, <1>2, <2>1
  <2> QED BY <1>2, <2>2 DEF PreferencesInv, PreferencesTypeOK, Request
<1>6. PartOfSpend' /\ SpentToday' = SpentToday
  <2>1. SpentToday' = SpentToday
    BY <1>2 DEF SpentToday
  <2>2. PartOfSpend
    BY DEF PreferencesInv
  <2> QED BY <1>2, <2>1, <2>2 DEF PartOfSpend
<1>7. Open' \in SUBSET Slots /\ Loose' \in SUBSET Slots
  BY DEF Open, Loose
<1>8. SpentToday + Cardinality(Open') * MaxCost <= MaxSpend + Cardinality(Slots) * MaxCost
  BY <1>2, <1>7, SlotCounts
<1>9. asked.budget > 0 =>
        billed.before + Cardinality(Loose') * MaxCost <= asked.budget - 1 + Cardinality(Slots) * MaxCost
  <2> SUFFICES ASSUME asked.budget > 0
               PROVE  billed.before + Cardinality(Loose') * MaxCost <= asked.budget - 1 + Cardinality(Slots) * MaxCost
    OBVIOUS
  <2>1. CASE SpentToday < asked.budget
    BY <1>2, <1>7, <2>1, SlotCounts
  <2>2. CASE ~(SpentToday < asked.budget)
    <3>1. PrefsFor(mode).note = "reached"
      <4>1. asked.budget > 0 /\ SpentToday >= asked.budget
        BY <1>2, <2>2
      <4> QED BY <4>1 DEF PrefsFor
    <3>2. Loose' = Loose
      BY <1>2, <1>4, <3>1 DEF Loose, Open
    <3> QED BY <3>2 DEF PreferencesInv, BudgetHeld
  <2> QED BY <2>1, <2>2
<1>10. NoBudget'
  <2> SUFFICES ASSUME asked.budget = 0
               PROVE  billed.capped = 0 /\ billed.loops = 0 /\ Loose' = Open'
    BY <1>2 DEF NoBudget
  <2>1. billed.capped = 0 /\ billed.loops = 0 /\ Loose = Open
    BY DEF PreferencesInv, NoBudget
  <2>2. PrefsFor(mode).note # "reached"
    BY DEF PrefsFor
  <2>3. \A t \in Slots : slot[t].pc = "open" => slot[t].prefs.note # "reached"
    BY <2>1 DEF Loose, Open
  <2>4. \A t \in Slots : slot'[t].pc = "open" => slot'[t].prefs.note # "reached"
    BY <1>4, <2>2, <2>3
  <2> QED BY <2>1, <2>4 DEF Loose, Open
<1> QED BY <1>2, <1>5, <1>6, <1>8, <1>9, <1>10 DEF PreferencesInv, BudgetHeld

\* A bill is of one kind.
LEMMA KindOf ==
    ASSUME NEW request
    PROVE  /\ Kind(request) \in {"before", "capped", "loops"}
           /\ Kind(request) = "before" <=> request.prefs.note # "reached"
BY DEF Kind

LEMMA BilledKeeps == ASSUME PreferencesInv, NEW s \in Slots, Billed(s) PROVE PreferencesInv'
<1> USE PreferencesAssumption
<1>1. /\ slot' = [slot EXCEPT ![s] = Free] /\ UNCHANGED <<day, asked>> /\ slot[s].pc = "open"
      /\ slot \in [Slots -> Request] /\ billed \in Bills /\ begun \in BOOLEAN /\ begun' = begun
      /\ asked.budget \in Nat /\ billed.before \in Nat /\ billed.before <= SpentToday /\ SpentToday \in Nat
      /\ day \in 1..Days /\ spend \in [day : 0..Days, total : 0..(MaxSpend + Cardinality(Slots) * MaxCost)]
      /\ spend.day <= day
  BY Types DEF Billed
<1>2. Free \in Request /\ Free.pc = "free"
  BY DEF Free, Request, Prefs, Shifts, Caps
<1>3. slot' \in [Slots -> Request]
  BY <1>1, <1>2
<1>4. Open' = Open \ {s} /\ Loose' = Loose \ {s} /\ s \in Open
  BY <1>1, <1>2 DEF Open, Loose
<1>5. Open \in SUBSET Slots /\ Loose \in SUBSET Slots
  BY DEF Open, Loose
<1>6. PICK cost \in Nat : /\ cost <= MaxCost /\ SpentToday' = SpentToday + cost
                          /\ \/ UNCHANGED spend
                             \/ spend' = [day |-> day, total |-> SpentToday + cost]
                          /\ billed' = [billed EXCEPT ![Kind(slot[s])] = @ + cost]
  <2>1. CASE \E cost \in Costs : RecordSpend(cost) /\ billed' = [billed EXCEPT ![Kind(slot[s])] = @ + cost]
    <3> PICK cost \in Costs : RecordSpend(cost) /\ billed' = [billed EXCEPT ![Kind(slot[s])] = @ + cost]
      BY <2>1
    <3>1. cost \in Nat /\ cost <= MaxCost
      BY MaxCostIsMost
    <3>2. spend' = [day |-> day, total |-> SpentToday + cost] /\ SpentToday' = SpentToday + cost
      BY <1>1 DEF RecordSpend, SpentToday
    <3> QED BY <3>1, <3>2
  <2>2. CASE UNCHANGED <<spend, billed>>
    <3>1. SpentToday' = SpentToday + 0 /\ 0 <= MaxCost
      BY <1>1, <2>2, MaxCostIsMost DEF SpentToday
    <3>2. billed = [billed EXCEPT ![Kind(slot[s])] = @ + 0]
      BY <1>1, KindOf DEF Bills
    <3> QED BY <2>2, <3>1, <3>2
  <2> QED BY <2>1, <2>2 DEF Billed
<1>11. /\ billed' \in Bills /\ billed'.before + billed'.capped + billed'.loops = SpentToday'
       /\ \/ s \in Loose /\ billed'.before = billed.before + cost
             /\ billed'.capped = billed.capped /\ billed'.loops = billed.loops
          \/ s \notin Loose /\ billed'.before = billed.before
  <2>1. s \in Loose <=> Kind(slot[s]) = "before"
    BY <1>4, KindOf DEF Loose
  <2>2. SpentToday = billed.before + billed.capped + billed.loops
    BY DEF PreferencesInv, PartOfSpend
  <2>3. billed.before \in Nat /\ billed.capped \in Nat /\ billed.loops \in Nat
    BY <1>1 DEF Bills
  <2>4. PICK k : k = Kind(slot[s])
    OBVIOUS
  <2>5. k \in {"before", "capped", "loops"} /\ billed' = [billed EXCEPT ![k] = @ + cost]
    BY <1>6, <2>4, KindOf
  <2>6. CASE k = "before"
    BY <1>1, <1>6, <2>1, <2>2, <2>3, <2>4, <2>5, <2>6 DEF Bills
  <2>7. CASE k = "capped"
    BY <1>1, <1>6, <2>1, <2>2, <2>3, <2>4, <2>5, <2>7 DEF Bills
  <2>8. CASE k = "loops"
    BY <1>1, <1>6, <2>1, <2>2, <2>3, <2>4, <2>5, <2>8 DEF Bills
  <2> QED BY <2>5, <2>6, <2>7, <2>8
<1>7. billed'.before \in Nat /\ billed'.before <= SpentToday' /\ spend'.day <= day
  <2>1. billed'.before \in Nat /\ billed'.capped \in Nat /\ billed'.loops \in Nat
    BY <1>11 DEF Bills
  <2> QED BY <1>1, <1>6, <1>11, <2>1
<1>8. SpentToday' + Cardinality(Open') * MaxCost <= MaxSpend + Cardinality(Slots) * MaxCost
  <2>1. SpentToday + Cardinality(Open) * MaxCost <= MaxSpend + Cardinality(Slots) * MaxCost
    BY DEF PreferencesInv, BudgetHeld
  <2>2. Cardinality(Open') * MaxCost + cost <= Cardinality(Open) * MaxCost
    BY <1>4, <1>5, <1>6, OneLess
  <2>3. /\ Cardinality(Open') * MaxCost \in Nat /\ Cardinality(Open) * MaxCost \in Nat
        /\ Cardinality(Slots) * MaxCost \in Nat
    BY <1>4, <1>5, SlotCounts
  <2> QED BY <1>1, <1>6, <2>1, <2>2, <2>3
<1>9. asked.budget > 0 =>
        billed'.before + Cardinality(Loose') * MaxCost <= asked.budget - 1 + Cardinality(Slots) * MaxCost
  <2>1. asked.budget > 0 => billed.before + Cardinality(Loose) * MaxCost <= asked.budget - 1 + Cardinality(Slots) * MaxCost
    BY DEF PreferencesInv, BudgetHeld
  <2>2. /\ Cardinality(Loose') * MaxCost \in Nat /\ Cardinality(Loose) * MaxCost \in Nat
        /\ Cardinality(Slots) * MaxCost \in Nat
    BY <1>4, <1>5, SlotCounts
  <2>3. CASE s \in Loose
    <3>1. Cardinality(Loose') * MaxCost + cost <= Cardinality(Loose) * MaxCost
      BY <1>4, <1>5, <1>6, <2>3, OneLess
    <3>2. billed'.before <= billed.before + cost
      BY <1>1, <1>6, <1>11
    <3> QED BY <1>1, <1>6, <1>7, <2>1, <2>2, <3>1, <3>2
  <2>4. CASE s \notin Loose
    <3>1. Loose' = Loose /\ billed'.before = billed.before
      BY <1>4, <1>11, <2>4
    <3> QED BY <2>1, <3>1
  <2> QED BY <2>3, <2>4
<1>10. PreferencesTypeOK'
  <2>1. spend' \in [day : 0..Days, total : 0..(MaxSpend + Cardinality(Slots) * MaxCost)]
    <3>1. CASE UNCHANGED spend
      BY <1>1, <3>1
    <3>2. CASE spend' = [day |-> day, total |-> SpentToday + cost]
      <4>1. Cardinality(Open') * MaxCost \in Nat /\ Cardinality(Slots) * MaxCost \in Nat
        BY <1>4, <1>5, SlotCounts
      <4>2. SpentToday + cost \in 0..(MaxSpend + Cardinality(Slots) * MaxCost)
        BY <1>1, <1>6, <1>8, <4>1
      <4> QED BY <1>1, <3>2, <4>2
    <3> QED BY <1>6, <3>1, <3>2
  <2> QED BY <1>1, <1>3, <1>11, <2>1 DEF PreferencesInv, PreferencesTypeOK, Request, Bills
<1>12. NoBudget'
  <2> SUFFICES ASSUME asked.budget = 0
               PROVE  billed'.capped = 0 /\ billed'.loops = 0 /\ Loose' = Open'
    BY <1>1 DEF NoBudget
  <2>1. billed.capped = 0 /\ billed.loops = 0 /\ Loose = Open
    BY DEF PreferencesInv, NoBudget
  <2> QED BY <1>4, <1>11, <2>1
<1> QED BY <1>1, <1>7, <1>8, <1>9, <1>10, <1>11, <1>12 DEF PreferencesInv, PartOfSpend, BudgetHeld

LEMMA MidnightKeeps == ASSUME PreferencesInv, Midnight PROVE PreferencesInv'
<1> USE PreferencesAssumption
<1>1. /\ day \in 1..Days /\ day < Days /\ day' = day + 1 /\ billed' = NoBills /\ UNCHANGED <<spend, asked, slot, begun>>
      /\ asked.budget \in Nat /\ spend.day <= day /\ spend.day \in Nat
  BY Types DEF Midnight
<1>2. Open' = Open /\ Loose' = Loose /\ Open \in SUBSET Slots /\ Loose \in SUBSET Slots
  BY <1>1 DEF Open, Loose
<1>3. /\ SpentToday' = 0 /\ billed' \in Bills
      /\ billed'.before = 0 /\ billed'.capped = 0 /\ billed'.loops = 0
  <2>1. spend.day # day'
    BY <1>1
  <2> QED BY <1>1, <2>1 DEF SpentToday, NoBills, Bills
<1>4. PreferencesTypeOK'
  BY <1>1, <1>3 DEF PreferencesInv, PreferencesTypeOK, Bills
<1>5. NoBudget'
  BY <1>1, <1>2, <1>3 DEF PreferencesInv, NoBudget
<1> QED BY <1>1, <1>2, <1>3, <1>4, <1>5, SlotCounts DEF PreferencesInv, PartOfSpend, BudgetHeld

LEMMA StepKeeps == PreferencesInv /\ [PreferencesNext]_preferenceVars => PreferencesInv'
<1> SUFFICES ASSUME PreferencesInv, [PreferencesNext]_preferenceVars PROVE PreferencesInv'
  OBVIOUS
<1>1. CASE UNCHANGED preferenceVars
  BY <1>1 DEF preferenceVars, PreferencesInv, PreferencesTypeOK, PartOfSpend, NoBudget, BudgetHeld, SpentToday, Open, Loose
<1> QED BY <1>1, OpenedKeeps, BilledKeeps, MidnightKeeps DEF PreferencesNext

LEMMA PreferencesInvariance == PreferencesSpec => []PreferencesInv
BY InitEstablishes, StepKeeps, PTL DEF PreferencesSpec

\* auto_preferences, record_spend: however many requests read the spend before any
\* of them is billed, and whatever day it is, they overrun a budget by no more than
\* what those cost that were under way when it was reached; the rest of the day's
\* spend is that of requests which got the budget's cap, and of pinned steps.
THEOREM OverrunAlwaysBounded == PreferencesSpec => []OverrunBounded
<1>1. PreferencesInv => OverrunBounded
  <2> SUFFICES ASSUME PreferencesInv PROVE OverrunBounded
    OBVIOUS
  <2>1. Loose \in SUBSET Slots
    BY DEF Loose, Open
  <2> QED BY <2>1, SlotCounts, Types DEF PreferencesInv, PartOfSpend, NoBudget, BudgetHeld, OverrunBounded
<1> QED BY <1>1, PreferencesInvariance, PTL

\* The types of the day, the spend and the requests: a day's spend stays bounded,
\* and every shift and cap that is given out is a known one.
THEOREM PreferenceTypesKept == PreferencesSpec => []PreferencesTypeOK
<1>1. PreferencesInv => PreferencesTypeOK
  BY DEF PreferencesInv
<1> QED BY <1>1, PreferencesInvariance, PTL

-----------------------------------------------------------------------------
(* Routes. *)

\* What DEFAULT_TIERS are: no model is the primary of two tiers, and the efforts of
\* a tier are "by position in the range, lowest first".
TiersInOrder ==
    /\ \A i, j \in DOMAIN Tiers : Tiers[i].model = Tiers[j].model => i = j
    /\ \A i \in DOMAIN Tiers : \A k, l \in DOMAIN Tiers[i].efforts :
          k <= l => EffortRank(Tiers[i].efforts[k]) <= EffortRank(Tiers[i].efforts[l])

LEMMA DivisionGrows ==
    ASSUME NEW p \in Int, NEW q \in Int, p <= q, NEW n \in Nat \ {0}
    PROVE  p \div n \in Int /\ q \div n \in Int /\ p \div n <= q \div n
<1> DEFINE x == p \div n
           y == q \div n
<1>1. /\ x \in Int /\ n * x <= p /\ p < n * x + n
      /\ y \in Int /\ n * y <= q /\ q < n * y + n
  OBVIOUS
<1> HIDE DEF x, y
<1>2. SUFFICES ASSUME x > y PROVE FALSE
  BY <1>1 DEF x, y
<1>3. x >= y + 1 /\ x - (y + 1) \in Nat
  BY <1>1, <1>2
<1>4. \A a \in Nat : n * a \in Nat
  OBVIOUS
<1>5. n * x = n * y + n + n * (x - (y + 1))
  BY <1>1
<1>6. n * (x - (y + 1)) \in Nat
  BY <1>3, <1>4
<1>7. n * x \in Int /\ n * y \in Int
  BY <1>1
<1> DEFINE nx == n * x
           ny == n * y
           nd == n * (x - (y + 1))
<1>8. nx \in Int /\ ny \in Int /\ nd \in Nat /\ nx = ny + n + nd /\ nx <= p /\ q < ny + n
  BY <1>1, <1>5, <1>6, <1>7
<1> HIDE DEF nx, ny, nd
<1> QED BY <1>8

\* In a tier a higher score gets no lower effort.
LEMMA EffortGrows ==
    ASSUME TiersInOrder, NEW i \in 1..Len(Tiers), NEW a \in Scores, NEW b \in Scores, a <= b
    PROVE  EffortRank(EffortFor(i, a)) <= EffortRank(EffortFor(i, b))
<1> DEFINE efforts == Tiers[i].efforts
           low == Tiers[i].low
           span == Tiers[i].high - low + 1
           n == Len(efforts)
           place(score) == Clamp(((score - low) * n) \div span, 0, n - 1)
<1>1. efforts \in Seq(STRING) /\ low \in Int /\ Tiers[i].high \in Int /\ low <= Tiers[i].high
  BY TierTypes
<1>2. n \in Nat /\ span \in Nat \ {0} /\ a - low \in Int /\ b - low \in Int /\ a - low <= b - low
  BY <1>1 DEF Scores, MIN_SCORE, MAX_SCORE
<1>3. CASE efforts = <<>>
  <2>1. EffortFor(i, a) = EffortFor(i, b)
    BY <1>3 DEF EffortFor
  <2> QED BY <2>1, RankTypes
<1>4. CASE efforts # <<>>
  <2>1. n >= 1 /\ DOMAIN efforts = 1..n
    BY <1>1, <1>4
  <2>2. EffortFor(i, a) = efforts[1 + place(a)] /\ EffortFor(i, b) = efforts[1 + place(b)]
    BY <1>4 DEF EffortFor
  <2> DEFINE p == (a - low) * n
             q == (b - low) * n
  <2>3. p \in Int /\ q \in Int /\ p <= q
    <3> DEFINE d == b - a
               x == a - low
    <3>1. d \in Nat /\ b - low = x + d /\ x \in Int
      <4>1. a \in Int /\ b \in Int /\ low \in Int
        BY <1>1 DEF Scores, MIN_SCORE, MAX_SCORE
      <4> HIDE DEF low
      <4> QED BY <4>1
    <3> HIDE DEF d, n, x
    <3>2. d * n \in Nat /\ (x + d) * n = x * n + d * n /\ x * n \in Int
      BY <1>2, <3>1
    <3>3. p = x * n /\ q = (x + d) * n
      BY <3>1 DEF x
    <3> DEFINE xn == x * n
               dn == d * n
    <3>4. p = xn /\ q = xn + dn /\ xn \in Int /\ dn \in Nat
      BY <3>2, <3>3
    <3> HIDE DEF xn, dn, p, q
    <3> QED BY <3>4
  <2> HIDE DEF p, q, span, n
  <2>4. p \div span \in Int /\ q \div span \in Int /\ p \div span <= q \div span
    BY <1>2, <2>3, DivisionGrows
  <2> DEFINE pp == p \div span
             qq == q \div span
  <2> HIDE DEF pp, qq
  <2>5. /\ Clamp(pp, 0, n - 1) \in 0..(n - 1) /\ Clamp(qq, 0, n - 1) \in 0..(n - 1)
        /\ Clamp(pp, 0, n - 1) <= Clamp(qq, 0, n - 1)
    BY <1>2, <2>1, <2>4 DEF Clamp, Max2, Min2, pp, qq
  <2>6. place(a) \in 0..(n - 1) /\ place(b) \in 0..(n - 1) /\ place(a) <= place(b)
    BY <2>5 DEF pp, qq, p, q
  <2> HIDE DEF place
  <2>7. /\ 1 + place(a) \in DOMAIN efforts /\ 1 + place(b) \in DOMAIN efforts
        /\ 1 + place(a) <= 1 + place(b)
    BY <1>2, <2>1, <2>6
  <2>8. i \in DOMAIN Tiers
    BY TierTypes
  <2>9. EffortRank(efforts[1 + place(a)]) <= EffortRank(efforts[1 + place(b)])
    BY <2>7, <2>8 DEF TiersInOrder
  <2> QED BY <2>2, <2>9
<1> QED BY <1>3, <1>4

\* The effective score grows with the score.
LEMMA EffectiveGrows ==
    ASSUME NEW a \in Scores, NEW b \in Scores, a <= b, NEW shift \in Int, NEW cap
    PROVE  Effective(a, shift, cap) <= Effective(b, shift, cap)
<1> DEFINE high == Tiers[CapIndex(cap)].high
<1>1. high \in Int
  BY CapIndexType, TierTypes
<1> HIDE DEF high
<1>2. a \in Int /\ b \in Int
  BY DEF Scores, MIN_SCORE, MAX_SCORE
<1>3. /\ Effective(a, shift, cap) = Min2(Clamp(a + shift, MIN_SCORE, MAX_SCORE), high)
      /\ Effective(b, shift, cap) = Min2(Clamp(b + shift, MIN_SCORE, MAX_SCORE), high)
  BY DEF Effective, high
<1> QED BY <1>1, <1>2, <1>3 DEF Min2, Max2, Clamp, MIN_SCORE, MAX_SCORE

\* A sequence without repetitions has as many elements as places.
LEMMA NoneTwice ==
    ASSUME NEW S, NEW s \in Seq(S), \A k, l \in DOMAIN s : s[k] = s[l] => k = l
    PROVE  Cardinality(ToSet(s)) = Len(s)
<1> DEFINE n == Len(s)
           T == ToSet(s)
<1>1. n \in Nat /\ DOMAIN s = 1..n
  OBVIOUS
<1>2. T = {s[k] : k \in 1..n}
  BY <1>1 DEF ToSet
<1> HIDE DEF T, n
<1>3. [k \in 1..n |-> s[k]] \in [1..n -> T]
  BY <1>2
<1>4. [k \in 1..n |-> s[k]] \in Bijection(1..n, T)
  BY <1>1, <1>2, <1>3 DEF Bijection, Injection, Surjection, IsInjective
<1>5. ExistsBijection(1..n, T)
  BY <1>4 DEF ExistsBijection
<1>6. IsFiniteSet(1..n) /\ Cardinality(1..n) = n
  BY <1>1, FS_Interval
<1> QED BY <1>5, <1>6, FS_Bijection DEF T, n

\* The route for a score: its model first, each model once, all within the cap.
LEMMA RouteHolds ==
    ASSUME NEW score \in Scores, NEW shift \in Int, NEW cap
    PROVE  LET route == RouteFor(score, shift, cap)
               e == Effective(score, shift, cap)
               i == TierForScore(e)
           IN /\ route.chain[1] = Tiers[i].model /\ route.effort = EffortFor(i, e)
              /\ Cardinality(ToSet(route.chain)) = Len(route.chain)
              /\ \A m \in ToSet(route.chain) : WithinTop(m, CapIndex(cap))
              /\ \A k \in 1..CapIndex(cap) : Tiers[k].model \in ToSet(route.chain)
<1> DEFINE e == Effective(score, shift, cap)
           i == TierForScore(e)
           top == CapIndex(cap)
           m == Tiers[i].model
           c == Candidates(i, cap)
           d == SelectModel(score, shift, cap)
           chain == RouteFor(score, shift, cap).chain
<1>1. e \in Scores /\ i <= top /\ i \in 1..Len(Tiers) /\ top \in 1..Len(Tiers)
  <2>1. e \in Scores /\ i <= top
    BY EffectiveWithinCap
  <2> HIDE DEF e
  <2>2. i \in 1..Len(Tiers)
    BY <2>1, TierCovers
  <2> QED BY <2>1, <2>2, CapIndexType
<1>2. d = Decision(m, score, EffortFor(i, e), c, FALSE)
  <2>1. score # NoScore
    BY DEF Scores, NoScore, MIN_SCORE
  <2> HIDE DEF c
  <2> QED BY <2>1 DEF SelectModel, c
<1>3. RouteFor(score, shift, cap).effort = d.effort /\ chain = <<d.model>> \o d.candidates
  BY DEF RouteFor
<1> HIDE DEF e, i, top, d, chain
<1>4. c = Failover(i, top)
  BY <1>1, TierTypes DEF Candidates, FailoverTable, top
<1> HIDE DEF c
<1>5. /\ c \in Seq(STRING) /\ \A k, l \in DOMAIN c : c[k] = c[l] => k = l
      /\ \A x \in ToSet(c) : WithinTop(x, top)
      /\ \A k \in 1..top : Tiers[k].model \in ToSet(c)
  BY <1>1, <1>4, FailoverIsRight
<1>6. m \in STRING /\ WithinTop(m, top)
  <2>1. TierIndex(m) <= i /\ TierIndex(m) \in Nat /\ m \in STRING
    BY <1>1, TierIndexIsFirst, TierTypes
  <2>2. TierIndex(m) <= top
    BY <1>1, <2>1
  <2> QED BY <2>1, <2>2 DEF WithinTop
<1> DEFINE effort == EffortFor(i, e)
           no == FALSE
<1> HIDE DEF m, effort, no
<1>7. d = Decision(m, score, effort, c, no)
  BY <1>2 DEF effort, no
<1>8. /\ d.model = m /\ d.effort = effort
      /\ d.candidates \in Seq(STRING) /\ ToSet(d.candidates) = ToSet(c) \ {m}
      /\ \A k, l \in DOMAIN d.candidates : d.candidates[k] = d.candidates[l] => k = l
  BY <1>5, <1>7, DecisionCandidates
<1> DEFINE q == d.candidates
           n == Len(q)
<1>9. /\ q \in Seq(STRING) /\ \A k, l \in DOMAIN q : q[k] = q[l] => k = l
      /\ ToSet(q) = ToSet(c) \ {m} /\ chain = <<m>> \o q
  BY <1>3, <1>8
<1> HIDE DEF q
<1>10. /\ chain \in Seq(STRING) /\ Len(chain) = n + 1 /\ n \in Nat /\ DOMAIN q = 1..n /\ DOMAIN chain = 1..(n + 1)
       /\ chain[1] = m /\ \A k \in 1..n : chain[k + 1] = q[k]
  <2>1. <<m>> \in Seq(STRING) /\ Len(<<m>>) = 1 /\ <<m>>[1] = m
    BY <1>6, OneElement
  <2> QED BY <1>9, <2>1
<1>11. \A k \in 1..n : q[k] \in ToSet(c) /\ q[k] # m
  <2>1. \A k \in 1..n : q[k] \in ToSet(q)
    BY <1>10 DEF ToSet
  <2> QED BY <1>9, <2>1
<1> HIDE DEF n
<1>12. \A k \in 2..(n + 1) : k - 1 \in 1..n /\ chain[k] = q[k - 1]
  <2> SUFFICES ASSUME NEW k \in 2..(n + 1) PROVE k - 1 \in 1..n /\ chain[k] = q[k - 1]
    OBVIOUS
  <2>1. k - 1 \in 1..n /\ (k - 1) + 1 = k
    BY <1>10
  <2> QED BY <1>10, <2>1
<1>13. \A k, l \in DOMAIN chain : chain[k] = chain[l] => k = l
  <2> SUFFICES ASSUME NEW k \in 1..(n + 1), NEW l \in 1..(n + 1), chain[k] = chain[l] PROVE k = l
    BY <1>10
  <2>1. CASE k = 1 /\ l = 1
    BY <2>1
  <2>2. CASE k = 1 /\ l # 1
    <3>1. l \in 2..(n + 1)
      BY <1>10, <2>2
    <3> QED BY <1>10, <1>11, <1>12, <2>2, <3>1
  <2>3. CASE k # 1 /\ l = 1
    <3>1. k \in 2..(n + 1)
      BY <1>10, <2>3
    <3> QED BY <1>10, <1>11, <1>12, <2>3, <3>1
  <2>4. CASE k # 1 /\ l # 1
    <3>1. k \in 2..(n + 1) /\ l \in 2..(n + 1)
      BY <1>10, <2>4
    <3>2. q[k - 1] = q[l - 1] /\ k - 1 \in DOMAIN q /\ l - 1 \in DOMAIN q
      BY <1>10, <1>12, <3>1
    <3>3. k - 1 = l - 1
      BY <1>9, <3>2
    <3> QED BY <3>3
  <2> QED BY <2>1, <2>2, <2>3, <2>4
<1>14. Cardinality(ToSet(chain)) = Len(chain)
  BY <1>10, <1>13, NoneTwice
<1>15. \A x \in ToSet(chain) : WithinTop(x, top)
  <2> SUFFICES ASSUME NEW k \in 1..(n + 1) PROVE WithinTop(chain[k], top)
    BY <1>10 DEF ToSet
  <2>1. CASE k = 1
    BY <1>6, <1>10, <2>1
  <2>2. CASE k # 1
    <3>1. k \in 2..(n + 1)
      BY <1>10, <2>2
    <3> QED BY <1>5, <1>11, <1>12, <3>1
  <2> QED BY <2>1, <2>2
<1>16. \A k \in 1..top : Tiers[k].model \in ToSet(chain)
  <2> SUFFICES ASSUME NEW k \in 1..top PROVE Tiers[k].model \in ToSet(chain)
    OBVIOUS
  <2> DEFINE x == Tiers[k].model
  <2>1. x \in ToSet(c)
    BY <1>5
  <2> HIDE DEF x
  <2>2. CASE x = m
    <3>1. 1 \in DOMAIN chain
      BY <1>10
    <3> QED BY <1>10, <2>2, <3>1 DEF ToSet, x
  <2>3. CASE x # m
    <3>1. x \in ToSet(q)
      BY <1>9, <2>1, <2>3
    <3>2. PICK l \in 1..n : x = q[l]
      BY <1>10, <3>1 DEF ToSet
    <3>3. l + 1 \in DOMAIN chain /\ chain[l + 1] = x
      BY <1>10, <3>2
    <3> QED BY <3>3 DEF ToSet, x
  <2> QED BY <2>2, <2>3
<1> QED BY <1>3, <1>8, <1>10, <1>14, <1>15, <1>16 DEF chain, top, m, effort, i, e

\* _lower_cap: the stricter of two caps.
LEMMA LowerCapIsLower ==
    ASSUME NEW a, NEW b
    PROVE  CapIndex(LowerCap(a, b)) <= CapIndex(a) /\ CapIndex(LowerCap(a, b)) <= CapIndex(b)
<1>1. TierIndex(NoModel) = 0
  <2> DEFINE i == TierIndex(NoModel)
  <2>1. i \in 0..Len(Tiers) /\ (i # 0 => Tiers[i].model = NoModel)
    BY TierIndexIsFirst
  <2>2. \A k \in 1..Len(Tiers) : Tiers[k].model # NoModel
    BY CheckTiers, TierTypes
  <2> HIDE DEF i
  <2>3. i = 0
    BY <2>1, <2>2, TierTypes
  <2> QED BY <2>3 DEF i
<1>2. TierIndex(a) \in 0..Len(Tiers) /\ TierIndex(b) \in 0..Len(Tiers) /\ Len(Tiers) \in Nat \ {0}
  BY TierIndexIsFirst, TierTypes
<1> QED BY <1>1, <1>2 DEF LowerCap, CapIndex

\* What a request is let in with is within what was asked and, when the budget is
\* reached, within its cap.
Strict(prefs) ==
    /\ asked.cap \in CapModels => CapIndex(prefs.cap) <= CapIndex(asked.cap)
    /\ prefs.note = "reached" => CapIndex(prefs.cap) <= CapIndex(BUDGET_CAP)

StrictInv == PreferencesInv /\ \A s \in Slots : slot[s].pc = "open" => Strict(slot[s].prefs)

LEMMA PrefsAreStrict ==
    ASSUME NEW mode
    PROVE  Strict(PrefsFor(mode))
<1> DEFINE cap == IF asked.cap \in CapModels THEN asked.cap ELSE NoModel
           p == PrefsFor(mode)
<1>1. p.cap = (IF p.note = "reached" THEN LowerCap(cap, BUDGET_CAP) ELSE cap)
  BY DEF PrefsFor
<1> HIDE DEF p
<1>2. PICK a, b : a = cap /\ b = BUDGET_CAP
  OBVIOUS
<1>3. CapIndex(LowerCap(a, b)) <= CapIndex(a) /\ CapIndex(LowerCap(a, b)) <= CapIndex(b)
  BY LowerCapIsLower
<1>4. CapIndex(a) <= CapIndex(a)
  BY CapIndexType, TierTypes
<1>5. asked.cap \in CapModels => a = asked.cap
  BY <1>2
<1>6. p.cap = (IF p.note = "reached" THEN LowerCap(a, b) ELSE a)
  BY <1>1, <1>2
<1> HIDE DEF cap
<1>7. Strict(p)
  BY <1>2, <1>3, <1>4, <1>5, <1>6 DEF Strict
<1> QED BY <1>7 DEF p

LEMMA StrictInvariance == PreferencesSpec => []StrictInv
<1>1. PreferencesInit => \A s \in Slots : slot[s].pc = "open" => Strict(slot[s].prefs)
  BY DEF PreferencesInit, Free
<1>2. ASSUME StrictInv, PreferencesInv', [PreferencesNext]_preferenceVars
      PROVE  StrictInv'
  <2>1. slot \in [Slots -> Request]
    BY <1>2, Types DEF StrictInv
  <2>2. ASSUME NEW s \in Slots, Opened(s) PROVE StrictInv'
    <3>1. PICK mode \in Modes, pinned \in {FALSE, begun} :
            slot' = [slot EXCEPT ![s] = [pc |-> "open", pinned |-> pinned, prefs |-> PrefsFor(mode)]]
      BY <2>2 DEF Opened
    <3>2. asked' = asked /\ Strict(PrefsFor(mode))
      BY <2>2, PrefsAreStrict DEF Opened
    <3>3. slot'[s].prefs = PrefsFor(mode) /\ \A t \in Slots \ {s} : slot'[t] = slot[t]
      BY <2>1, <3>1
    <3> QED BY <1>2, <3>2, <3>3 DEF StrictInv, Strict
  <2>3. ASSUME NEW s \in Slots, Billed(s) PROVE StrictInv'
    <3>1. asked' = asked /\ slot' = [slot EXCEPT ![s] = Free]
      BY <2>3 DEF Billed
    <3>2. slot'[s].pc = "free" /\ \A t \in Slots \ {s} : slot'[t] = slot[t]
      BY <2>1, <3>1 DEF Free
    <3> QED BY <1>2, <3>1, <3>2 DEF StrictInv, Strict
  <2>4. CASE UNCHANGED <<asked, slot>>
    BY <1>2, <2>4 DEF StrictInv, Strict
  <2>5. Midnight \/ UNCHANGED preferenceVars => UNCHANGED <<asked, slot>>
    BY DEF Midnight, preferenceVars
  <2> QED BY <1>2, <2>2, <2>3, <2>4, <2>5 DEF PreferencesNext
<1>3. PreferencesInit => StrictInv
  BY <1>1, InitEstablishes DEF StrictInv
<1>4. StrictInv /\ PreferencesInv' /\ [PreferencesNext]_preferenceVars => StrictInv'
  BY <1>2
<1> QED BY <1>3, <1>4, PreferencesInvariance, PTL DEF PreferencesSpec

\* auto_preferences, select_model, candidates: whatever is spent and when, the route of
\* a request is within the cap that was asked and the budget's, names a model once,
\* has every model of an allowed tier, and is monotone in the score. This is so for any
\* tables of tiers that are in order, as DEFAULT_TIERS is (DefaultTiersInOrder).
THEOREM AlwaysRoutedAsAsked ==
    ASSUME TiersInOrder
    PROVE  PreferencesSpec => []RoutedAsAsked
<1>1. StrictInv => RoutedAsAsked
  <2> SUFFICES ASSUME StrictInv, NEW s \in Slots, NEW score \in Scores, slot[s].pc = "open", ~slot[s].pinned
               PROVE  LET prefs == slot[s].prefs
                          routed(n) == Routes[n][prefs.shift][prefs.cap]
                          chain == routed(score).chain
                          top == CapIndex(prefs.cap)
                      IN /\ \A m \in ToSet(chain) :
                               /\ asked.cap \in CapModels => WithinCap(m, asked.cap)
                               /\ prefs.note = "reached" => WithinCap(m, BUDGET_CAP)
                         /\ Cardinality(ToSet(chain)) = Len(chain)
                         /\ \A i \in 1..top : Tiers[i].model \in ToSet(chain)
                         /\ score > MIN_SCORE =>
                             LET easier == routed(score - 1) IN
                             /\ TierIndex(easier.chain[1]) <= TierIndex(chain[1])
                             /\ easier.chain[1] = chain[1] =>
                                   EffortRank(easier.effort) <= EffortRank(routed(score).effort)
    BY DEF RoutedAsAsked
  <2>1. PICK prefs, shift, cap : prefs = slot[s].prefs /\ shift = prefs.shift /\ cap = prefs.cap
    OBVIOUS
  <2>2. /\ prefs \in Prefs /\ Strict(prefs) /\ shift \in Shifts /\ cap \in Caps
    BY <2>1, Types DEF StrictInv, Request, Prefs
  <2>3. shift \in Int
    BY <2>2, PreferencesAssumption DEF Shifts
  <2>4. \A n \in Scores : Routes[n][shift][cap] = RouteFor(n, shift, cap)
    BY <2>2 DEF Routes
  <2> DEFINE r == RouteFor(score, shift, cap)
             e == Effective(score, shift, cap)
             i == TierForScore(e)
             top == CapIndex(cap)
             chain == r.chain
  <2>5. /\ chain[1] = Tiers[i].model /\ r.effort = EffortFor(i, e)
        /\ Cardinality(ToSet(chain)) = Len(chain)
        /\ \A m \in ToSet(chain) : WithinTop(m, top)
        /\ \A k \in 1..top : Tiers[k].model \in ToSet(chain)
    BY <2>3, RouteHolds
  <2>6. top \in Nat /\ \A x : CapIndex(x) \in Nat
    BY CapIndexType, TierTypes
  <2>7. \A m : TierIndex(m) \in Nat
    BY TierIndexIsFirst, TierTypes
  <2>8. \A m \in ToSet(chain) : /\ asked.cap \in CapModels => WithinCap(m, asked.cap)
                                /\ prefs.note = "reached" => WithinCap(m, BUDGET_CAP)
    BY <2>1, <2>2, <2>5, <2>6, <2>7 DEF Strict, WithinTop, WithinCap
  <2>9. ASSUME score > MIN_SCORE
        PROVE  LET easier == RouteFor(score - 1, shift, cap) IN
               /\ TierIndex(easier.chain[1]) <= TierIndex(chain[1])
               /\ easier.chain[1] = chain[1] => EffortRank(easier.effort) <= EffortRank(r.effort)
    <3> DEFINE n == score - 1
               q == RouteFor(n, shift, cap)
               f == Effective(n, shift, cap)
               j == TierForScore(f)
    <3>1. n \in Scores /\ n <= score
      BY <2>9 DEF Scores, MIN_SCORE, MAX_SCORE
    <3> HIDE DEF n
    <3>2. q.chain[1] = Tiers[j].model /\ q.effort = EffortFor(j, f)
      BY <2>3, <3>1, RouteHolds
    <3>3. f \in Scores /\ e \in Scores /\ f <= e
      BY <2>3, <3>1, EffectiveGrows, EffectiveWithinCap
    <3> HIDE DEF e, f, r, q
    <3>4. i \in 1..Len(Tiers) /\ j \in 1..Len(Tiers) /\ j <= i
      BY <3>3, TierCovers, TierGrows
    <3> HIDE DEF i, j
    <3>5. TierIndex(Tiers[i].model) = i /\ TierIndex(Tiers[j].model) = j
      <4>1. \A k \in 1..Len(Tiers) : TierIndex(Tiers[k].model) = k
        <5> SUFFICES ASSUME NEW k \in 1..Len(Tiers) PROVE TierIndex(Tiers[k].model) = k
          OBVIOUS
        <5> DEFINE t == TierIndex(Tiers[k].model)
        <5>1. t \in 1..Len(Tiers) /\ Tiers[t].model = Tiers[k].model
          BY TierIndexIsFirst, TierTypes
        <5> HIDE DEF t
        <5>2. t = k
          BY <5>1, TierTypes DEF TiersInOrder
        <5> QED BY <5>2 DEF t
      <4> QED BY <3>4, <4>1
    <3>6. TierIndex(q.chain[1]) <= TierIndex(r.chain[1])
      BY <2>5, <3>2, <3>4, <3>5
    <3>7. ASSUME q.chain[1] = r.chain[1] PROVE EffortRank(q.effort) <= EffortRank(r.effort)
      <4>1. i = j
        BY <2>5, <3>2, <3>5, <3>7
      <4>2. EffortRank(EffortFor(i, f)) <= EffortRank(EffortFor(i, e))
        BY <3>3, <3>4, EffortGrows
      <4> QED BY <2>5, <3>2, <4>1, <4>2
    <3> QED BY <3>6, <3>7 DEF q, n
  <2> HIDE DEF r, top, chain
  <2>10. score > MIN_SCORE => score - 1 \in Scores
    BY DEF Scores, MIN_SCORE, MAX_SCORE
  <2>11. /\ Routes[score][shift][cap] = r
         /\ score > MIN_SCORE => Routes[score - 1][shift][cap] = RouteFor(score - 1, shift, cap)
    BY <2>4, <2>10 DEF r
  <2> QED BY <2>1, <2>5, <2>8, <2>9, <2>11 DEF chain, top
<1> QED BY <1>1, StrictInvariance, PTL

LEMMA EffortsRanked ==
    ASSUME NEW k \in 1..5
    PROVE  EffortRank(EFFORT_ORDER[k]) = k
<1> DEFINE I == {i \in 1..5 : EFFORT_ORDER[i] = EFFORT_ORDER[k]}
           first == CHOOSE x \in I : \A y \in I : x <= y
<1>1. EffortRank(EFFORT_ORDER[k]) = IF I # {} THEN first ELSE 0
  <2>1. Len(EFFORT_ORDER) = 5
    BY DEF EFFORT_ORDER
  <2> QED BY <2>1 DEF EffortRank, SelectInSeq, Min
<1>2. \A i \in 1..5 : EFFORT_ORDER[i] = EFFORT_ORDER[k] => i = k
  BY DEF EFFORT_ORDER
<1>3. I = {k}
  BY <1>2
<1> HIDE DEF I
<1>4. first = k
  BY <1>3
<1> QED BY <1>1, <1>3, <1>4

\* The table of the code is in order.
LEMMA DefaultTiersInOrder == Tiers = DEFAULT_TIERS => TiersInOrder
<1> SUFFICES ASSUME Tiers = DEFAULT_TIERS PROVE TiersInOrder
  OBVIOUS
<1>1. DOMAIN Tiers = 1..6
  BY DEF DEFAULT_TIERS
<1>2. /\ Tiers[1].model = "deepseek-flash" /\ Tiers[2].model = "deepseek-v4-pro" /\ Tiers[3].model = "gpt-5.4-mini"
      /\ Tiers[4].model = "claude-sonnet-5" /\ Tiers[5].model = "gpt-5.5" /\ Tiers[6].model = "claude-opus-5-5"
  BY DEF DEFAULT_TIERS, Tier
<1>3. /\ Tiers[1].efforts = <<>> /\ Tiers[2].efforts = <<>> /\ Tiers[3].efforts = <<"low", "medium">>
      /\ Tiers[4].efforts = <<"medium", "high">> /\ Tiers[5].efforts = <<"medium", "high">>
      /\ Tiers[6].efforts = <<"high", "high", "xhigh">>
  BY DEF DEFAULT_TIERS, Tier
<1>4. EffortRank("low") = 1 /\ EffortRank("medium") = 2 /\ EffortRank("high") = 3 /\ EffortRank("xhigh") = 4
  <2>1. /\ EFFORT_ORDER[1] = "low" /\ EFFORT_ORDER[2] = "medium" /\ EFFORT_ORDER[3] = "high"
        /\ EFFORT_ORDER[4] = "xhigh"
    BY DEF EFFORT_ORDER
  <2>2. /\ EffortRank(EFFORT_ORDER[1]) = 1 /\ EffortRank(EFFORT_ORDER[2]) = 2
        /\ EffortRank(EFFORT_ORDER[3]) = 3 /\ EffortRank(EFFORT_ORDER[4]) = 4
    BY EffortsRanked
  <2> QED BY <2>1, <2>2
<1>5. \A i, j \in 1..6 : Tiers[i].model = Tiers[j].model => i = j
  BY <1>2
<1>6. \A i \in 1..6 : \A k, l \in DOMAIN Tiers[i].efforts :
         k <= l => EffortRank(Tiers[i].efforts[k]) <= EffortRank(Tiers[i].efforts[l])
  <2> SUFFICES ASSUME NEW i \in 1..6
               PROVE  \A k, l \in DOMAIN Tiers[i].efforts :
                         k <= l => EffortRank(Tiers[i].efforts[k]) <= EffortRank(Tiers[i].efforts[l])
    OBVIOUS
  <2>1. PICK q : q = Tiers[i].efforts
    OBVIOUS
  <2>2. \/ q = <<>> \/ q = <<"low", "medium">> \/ q = <<"medium", "high">>
        \/ q = <<"high", "high", "xhigh">>
    <3>1. i = 1 \/ i = 2 \/ i = 3 \/ i = 4 \/ i = 5 \/ i = 6
      OBVIOUS
    <3> QED BY <1>3, <2>1, <3>1, Zenon
  <2>3. CASE q = <<>>
    BY <2>1, <2>3
  <2>4. CASE q = <<"low", "medium">>
    BY <1>4, <2>1, <2>4
  <2>5. CASE q = <<"medium", "high">>
    BY <1>4, <2>1, <2>5
  <2>6. CASE q = <<"high", "high", "xhigh">>
    BY <1>4, <2>1, <2>6
  <2> QED BY <2>2, <2>3, <2>4, <2>5, <2>6
<1> QED BY <1>1, <1>5, <1>6 DEF TiersInOrder

-----------------------------------------------------------------------------
(* The score of a request. *)

\* Max and Min of two numbers.
LEMMA MaxOfTwo ==
    ASSUME NEW a \in Int, NEW b \in Int
    PROVE  Max({a, b}) = IF a >= b THEN a ELSE b
<1>1. CASE a >= b
  <2>1. \E x \in {a, b} : \A y \in {a, b} : x >= y
    BY <1>1
  <2> QED BY <1>1, <2>1 DEF Max
<1>2. CASE ~(a >= b)
  <2>1. \E x \in {a, b} : \A y \in {a, b} : x >= y
    BY <1>2
  <2> QED BY <1>2, <2>1 DEF Max
<1> QED BY <1>1, <1>2

LEMMA MinOfTwo ==
    ASSUME NEW a \in Int, NEW b \in Int
    PROVE  Min({a, b}) = IF a <= b THEN a ELSE b
<1>1. CASE a <= b
  <2>1. \E x \in {a, b} : \A y \in {a, b} : x <= y
    BY <1>1
  <2> QED BY <1>1, <2>1 DEF Min
<1>2. CASE ~(a <= b)
  <2>1. \E x \in {a, b} : \A y \in {a, b} : x <= y
    BY <1>2
  <2> QED BY <1>2, <2>1 DEF Min
<1> QED BY <1>1, <1>2

\* A set of numbers that is bounded has a greatest one,
LEMMA MaxIsThere ==
    ASSUME NEW S \in SUBSET Nat, S # {}, NEW n \in Nat, \A k \in S : k <= n
    PROVE  Max(S) \in S /\ \A k \in S : k <= Max(S)
<1> DEFINE T == {j \in Nat : \E k \in S : j = n - k}
<1>1. T \in SUBSET Nat /\ T # {}
  <2>1. PICK k \in S : TRUE
    OBVIOUS
  <2>2. n - k \in T
    BY <2>1
  <2> QED BY <2>2
<1>2. PICK i \in T : \A j \in T : i <= j
  BY <1>1, LeastIsThere
<1>3. PICK top \in S : i = n - top
  BY <1>2
<1>4. \A k \in S : n - k \in T
  OBVIOUS
<1>5. \A k \in S : top >= k
  BY <1>2, <1>3, <1>4
<1>6. \E x \in S : \A y \in S : x >= y
  BY <1>5
<1>7. Max(S) \in S /\ \A k \in S : Max(S) >= k
  BY <1>6 DEF Max
<1> QED BY <1>7

\* and any set of numbers a least one.
LEMMA MinIsThere ==
    ASSUME NEW S \in SUBSET Nat, S # {}
    PROVE  Min(S) \in S
<1>1. \E i \in S : \A j \in S : i <= j
  BY LeastIsThere
<1> QED BY <1>1 DEF Min

\* Max of three numbers.
LEMMA MaxOfThree ==
    ASSUME NEW a \in Nat, NEW b \in Nat, NEW c \in Nat
    PROVE  /\ Max({a, b, c}) \in Nat
           /\ \A x \in {a, b, c} : x <= Max({a, b, c})
           /\ Max({a, b, c}) \in {a, b, c}
<1>1. \A k \in {a, b, c} : k <= a + b + c
  OBVIOUS
<1> DEFINE S == {a, b, c}
<1>2. S \in SUBSET Nat /\ S # {} /\ a + b + c \in Nat
  OBVIOUS
<1>3. \A k \in S : k <= a + b + c
  BY <1>1
<1> HIDE DEF S
<1>4. Max(S) \in S /\ \A k \in S : k <= Max(S)
  BY <1>2, <1>3, MaxIsThere
<1>5. Max(S) \in Nat
  BY <1>2, <1>4
<1> QED BY <1>4, <1>5 DEF S

TaskNames == {"explanation", "edit", "bugfix", "debugging", "optimization", "refactor", "feature",
              "security", "architecture", "system_design", "unknown"}
Widths == 1..7

\* The points, as functions of the numbers that the text gives.
PositionAt(task, scope, verbs, big, broad, code) ==
    Min({100, ScopePosition[scope] + 15 * Min({3, Max({0, verbs - 1})})
        + (IF big THEN 30 ELSE 0) + (IF broad THEN 15 ELSE 0)
        + (IF task = "explanation" /\ code THEN 50 ELSE 0)})
DependenciesAt(task, components) ==
    Max({1, components, IF task \in {"architecture", "system_design"} THEN 3 ELSE 1})
DepthAt(task, hard) ==
    IF task \in {"architecture", "system_design", "security"} \/ hard > 0 THEN "high"
    ELSE IF task \in {"bugfix", "feature", "refactor", "debugging", "optimization"} THEN "medium"
    ELSE "low"
DepthPointsAt(depth, hard, complicators) ==
    CASE depth = "high"   -> 100 * (2 + Min({3, Max({0, hard - 1})}))
      [] depth = "medium" -> 100 * Min({2, complicators})
      [] depth = "low"    -> 0

\* A wider scope, more verbs and one of the other signs more place a request higher,
LEMMA PositionGrows ==
    ASSUME NEW task, NEW scope \in Widths, NEW wider \in Widths, scope <= wider,
           NEW m \in Nat, NEW n \in Nat, m <= n,
           NEW big \in BOOLEAN, NEW bigger \in BOOLEAN, big => bigger,
           NEW broad \in BOOLEAN, NEW broader \in BOOLEAN, broad => broader,
           NEW code \in BOOLEAN, NEW coded \in BOOLEAN, code => coded
    PROVE  /\ PositionAt(task, scope, m, big, broad, code) \in 0..100
           /\ PositionAt(task, wider, n, bigger, broader, coded) \in 0..100
           /\ PositionAt(task, scope, m, big, broad, code)
                <= PositionAt(task, wider, n, bigger, broader, coded)
<1> DEFINE steps(k) == Min({3, Max({0, k - 1})})
           code1 == IF task = "explanation" /\ code THEN 50 ELSE 0
           code2 == IF task = "explanation" /\ coded THEN 50 ELSE 0
           sum1 == ScopePosition[scope] + 15 * steps(m) + (IF big THEN 30 ELSE 0) + (IF broad THEN 15 ELSE 0) + code1
           sum2 == ScopePosition[wider] + 15 * steps(n) + (IF bigger THEN 30 ELSE 0) + (IF broader THEN 15 ELSE 0) + code2
<1>1. ASSUME NEW k \in Nat
      PROVE  steps(k) = IF k <= 1 THEN 0 ELSE IF k <= 4 THEN k - 1 ELSE 3
  <2>1. Max({0, k - 1}) = IF 0 >= k - 1 THEN 0 ELSE k - 1
    BY MaxOfTwo, k - 1 \in Int, 0 \in Int
  <2>2. Max({0, k - 1}) \in Int
    BY <2>1
  <2>3. Min({3, Max({0, k - 1})}) = IF 3 <= Max({0, k - 1}) THEN 3 ELSE Max({0, k - 1})
    BY <2>2, MinOfTwo, 3 \in Int
  <2> QED BY <2>1, <2>3
<1>2. steps(m) \in 0..3 /\ steps(n) \in 0..3 /\ steps(m) <= steps(n)
  <2> HIDE DEF steps
  <2>1. /\ steps(m) = IF m <= 1 THEN 0 ELSE IF m <= 4 THEN m - 1 ELSE 3
        /\ steps(n) = IF n <= 1 THEN 0 ELSE IF n <= 4 THEN n - 1 ELSE 3
    BY <1>1
  <2> QED BY <2>1
<1>3. /\ ScopePosition[scope] \in 0..100 /\ ScopePosition[wider] \in 0..100
      /\ ScopePosition[scope] <= ScopePosition[wider]
  <2>1. scope \in {1, 2, 3, 4, 5, 6, 7} /\ wider \in {1, 2, 3, 4, 5, 6, 7}
    BY DEF Widths
  <2> QED BY <2>1 DEF ScopePosition
<1>4. code1 \in 0..50 /\ code2 \in 0..50 /\ code1 <= code2
  OBVIOUS
<1>5. sum1 \in Nat /\ sum2 \in Nat /\ sum1 <= sum2
  <2> DEFINE p1 == ScopePosition[scope]
             p2 == ScopePosition[wider]
             scale1 == IF big THEN 30 ELSE 0
             scale2 == IF bigger THEN 30 ELSE 0
             wide1 == IF broad THEN 15 ELSE 0
             wide2 == IF broader THEN 15 ELSE 0
  <2>1. /\ p1 \in 0..100 /\ p2 \in 0..100 /\ p1 <= p2
        /\ scale1 \in 0..30 /\ scale2 \in 0..30 /\ scale1 <= scale2
        /\ wide1 \in 0..15 /\ wide2 \in 0..15 /\ wide1 <= wide2
    BY <1>3
  <2>2. /\ sum1 = p1 + 15 * steps(m) + scale1 + wide1 + code1
        /\ sum2 = p2 + 15 * steps(n) + scale2 + wide2 + code2
    OBVIOUS
  <2> HIDE DEF steps, code1, code2, p1, p2, scale1, scale2, wide1, wide2, sum1, sum2
  <2> DEFINE s1 == steps(m)
             s2 == steps(n)
  <2>3. s1 \in 0..3 /\ s2 \in 0..3 /\ s1 <= s2
    BY <1>2
  <2>4. sum1 = p1 + 15 * s1 + scale1 + wide1 + code1 /\ sum2 = p2 + 15 * s2 + scale2 + wide2 + code2
    BY <2>2
  <2> HIDE DEF s1, s2
  <2> QED BY <2>1, <2>3, <2>4, <1>4
<1>6. PositionAt(task, scope, m, big, broad, code) = Min({100, sum1})
  BY DEF PositionAt
<1>7. PositionAt(task, wider, n, bigger, broader, coded) = Min({100, sum2})
  BY DEF PositionAt
<1> HIDE DEF sum1, sum2
<1>8. Min({100, sum1}) = (IF 100 <= sum1 THEN 100 ELSE sum1)
  BY <1>5, MinOfTwo, 100 \in Int
<1>9. Min({100, sum2}) = (IF 100 <= sum2 THEN 100 ELSE sum2)
  BY <1>5, MinOfTwo, 100 \in Int
<1> QED BY <1>5, <1>6, <1>7, <1>8, <1>9

\* more components are more dependencies,
LEMMA DependenciesGrow ==
    ASSUME NEW task, NEW m \in Nat, NEW n \in Nat, m <= n
    PROVE  /\ DependenciesAt(task, m) \in Nat /\ DependenciesAt(task, n) \in Nat
           /\ 1 <= DependenciesAt(task, m)
           /\ DependenciesAt(task, m) <= DependenciesAt(task, n)
<1> DEFINE least == IF task \in {"architecture", "system_design"} THEN 3 ELSE 1
<1>1. least \in Nat /\ 1 \in Nat
  OBVIOUS
<1>2. DependenciesAt(task, m) = Max({1, m, least}) /\ DependenciesAt(task, n) = Max({1, n, least})
  BY DEF DependenciesAt
<1> HIDE DEF least
<1>3. /\ Max({1, m, least}) \in Nat /\ Max({1, m, least}) \in {1, m, least}
      /\ \A x \in {1, m, least} : x <= Max({1, m, least})
  BY <1>1, MaxOfThree
<1>4. /\ Max({1, n, least}) \in Nat
      /\ \A x \in {1, n, least} : x <= Max({1, n, least})
  BY <1>1, MaxOfThree
<1> QED BY <1>1, <1>2, <1>3, <1>4

\* and more hard concepts or complications more depth: a request whose depth is
\* medium and becomes high has two points at most before and two at least after.
LEMMA DepthPointsGrow ==
    ASSUME NEW task, NEW hard \in Nat, NEW harder \in Nat, hard <= harder,
           NEW m \in Nat, NEW n \in Nat, m <= n
    PROVE  /\ DepthPointsAt(DepthAt(task, hard), hard, m) \in Nat
           /\ DepthPointsAt(DepthAt(task, harder), harder, n) \in Nat
           /\ DepthPointsAt(DepthAt(task, hard), hard, m) <= DepthPointsAt(DepthAt(task, harder), harder, n)
<1>1. ASSUME NEW k \in Nat
      PROVE  Min({3, Max({0, k - 1})}) = IF k <= 1 THEN 0 ELSE IF k <= 4 THEN k - 1 ELSE 3
  <2>1. Max({0, k - 1}) = IF 0 >= k - 1 THEN 0 ELSE k - 1
    BY MaxOfTwo, k - 1 \in Int, 0 \in Int
  <2>2. Max({0, k - 1}) \in Int
    BY <2>1
  <2>3. Min({3, Max({0, k - 1})}) = IF 3 <= Max({0, k - 1}) THEN 3 ELSE Max({0, k - 1})
    BY <2>2, MinOfTwo, 3 \in Int
  <2> QED BY <2>1, <2>3
<1>2. ASSUME NEW k \in Nat
      PROVE  Min({2, k}) = IF k <= 2 THEN k ELSE 2
  <2>1. Min({2, k}) = IF 2 <= k THEN 2 ELSE k
    BY MinOfTwo, 2 \in Int
  <2> QED BY <2>1
<1> DEFINE above(k) == IF k <= 1 THEN 0 ELSE IF k <= 4 THEN k - 1 ELSE 3
           some(k) == IF k <= 2 THEN k ELSE 2
<1>3. ASSUME NEW k \in Nat, NEW l \in Nat
      PROVE  /\ DepthPointsAt("high", k, l) = 100 * (2 + above(k))
             /\ DepthPointsAt("medium", k, l) = 100 * some(l)
             /\ DepthPointsAt("low", k, l) = 0
  BY <1>1, <1>2 DEF DepthPointsAt
<1>4. ASSUME NEW k \in Nat
      PROVE  DepthAt(task, k) = IF task \in {"architecture", "system_design", "security"} \/ k > 0 THEN "high"
                                ELSE DepthAt(task, 0)
  BY DEF DepthAt
<1>5. DepthAt(task, 0) \in {"high", "medium", "low"}
  BY DEF DepthAt
<1>6. /\ above(hard) \in 0..3 /\ above(harder) \in 0..3 /\ above(hard) <= above(harder)
      /\ some(m) \in 0..2 /\ some(n) \in 0..2 /\ some(m) <= some(n)
  OBVIOUS
<1> HIDE DEF above, some
<1>7. CASE DepthAt(task, harder) = "high"
  <2>1. DepthPointsAt(DepthAt(task, harder), harder, n) = 100 * (2 + above(harder))
    BY <1>3, <1>7
  <2>2. DepthAt(task, hard) \in {"high", "medium", "low"}
    BY <1>4, <1>5
  <2>3. \/ DepthPointsAt(DepthAt(task, hard), hard, m) = 100 * (2 + above(hard))
        \/ DepthPointsAt(DepthAt(task, hard), hard, m) = 100 * some(m)
        \/ DepthPointsAt(DepthAt(task, hard), hard, m) = 0
    BY <2>2, <1>3
  <2> QED BY <2>1, <2>3, <1>6
<1>8. CASE DepthAt(task, harder) # "high"
  <2>1. DepthAt(task, harder) = DepthAt(task, hard) /\ DepthAt(task, harder) \in {"medium", "low"}
    BY <1>4, <1>5, <1>8
  <2>2. \/ /\ DepthPointsAt(DepthAt(task, hard), hard, m) = 100 * some(m)
           /\ DepthPointsAt(DepthAt(task, harder), harder, n) = 100 * some(n)
        \/ /\ DepthPointsAt(DepthAt(task, hard), hard, m) = 0
           /\ DepthPointsAt(DepthAt(task, harder), harder, n) = 0
    BY <2>1, <1>3
  <2> QED BY <2>2, <1>6
<1> QED BY <1>7, <1>8

HardAt(families, secure, hard) == families + (IF secure THEN 1 ELSE 0) + (IF hard THEN 1 ELSE 0)
SecurityPointsAt(task, none, families) ==
    IF none \/ task = "security" THEN 0 ELSE 100 * Min({6, 2 + families})
TaskPointsAt(task, position) ==
    LET range == TASK_POINTS[task] IN 100 * range[1] + (range[2] - range[1]) * position
Rounded(parts) == Max({1, Min({20, (100 + parts + 50) \div 100})})

\* Likewise the points for security,
LEMMA SecurityPointsGrow ==
    ASSUME NEW task, NEW m \in Nat, NEW n \in Nat, m <= n,
           NEW none \in BOOLEAN, NEW still \in BOOLEAN, still => none
    PROVE  /\ SecurityPointsAt(task, none, m) \in Nat
           /\ SecurityPointsAt(task, still, n) \in Nat
           /\ SecurityPointsAt(task, none, m) <= SecurityPointsAt(task, still, n)
<1>1. ASSUME NEW k \in Nat PROVE Min({6, 2 + k}) = IF k <= 4 THEN 2 + k ELSE 6
  <2>1. 2 + k \in Int /\ 6 \in Int
    OBVIOUS
  <2>2. Min({6, 2 + k}) = IF 6 <= 2 + k THEN 6 ELSE 2 + k
    BY <2>1, MinOfTwo
  <2> QED BY <2>2
<1>2. /\ Min({6, 2 + m}) \in 2..6 /\ Min({6, 2 + n}) \in 2..6 /\ Min({6, 2 + m}) <= Min({6, 2 + n})
  <2>1. /\ Min({6, 2 + m}) = IF m <= 4 THEN 2 + m ELSE 6
        /\ Min({6, 2 + n}) = IF n <= 4 THEN 2 + n ELSE 6
    BY <1>1
  <2> QED BY <2>1
<1> DEFINE a == Min({6, 2 + m})
           b == Min({6, 2 + n})
<1>3. /\ SecurityPointsAt(task, none, m) = IF none \/ task = "security" THEN 0 ELSE 100 * a
      /\ SecurityPointsAt(task, still, n) = IF still \/ task = "security" THEN 0 ELSE 100 * b
  BY DEF SecurityPointsAt
<1>4. a \in 2..6 /\ b \in 2..6 /\ a <= b
  BY <1>2
<1> HIDE DEF a, b
<1> QED BY <1>3, <1>4

\* for dependencies,
LEMMA DependencyPointsGrow ==
    ASSUME NEW task, NEW m \in Nat, NEW n \in Nat, m <= n
    PROVE  /\ 100 * Min({5, DependenciesAt(task, m) - 1}) \in Nat
           /\ 100 * Min({5, DependenciesAt(task, n) - 1}) \in Nat
           /\ 100 * Min({5, DependenciesAt(task, m) - 1}) <= 100 * Min({5, DependenciesAt(task, n) - 1})
<1> DEFINE a == DependenciesAt(task, m) - 1
           b == DependenciesAt(task, n) - 1
<1>1. a \in Nat /\ b \in Nat /\ a <= b
  BY DependenciesGrow
<1> HIDE DEF a, b
<1>2. Min({5, a}) = (IF 5 <= a THEN 5 ELSE a) /\ Min({5, b}) = (IF 5 <= b THEN 5 ELSE b)
  <2>1. a \in Int /\ b \in Int /\ 5 \in Int
    BY <1>1
  <2> QED BY <2>1, MinOfTwo
<1>3. /\ 100 * Min({5, a}) \in Nat /\ 100 * Min({5, b}) \in Nat /\ 100 * Min({5, a}) <= 100 * Min({5, b})
  BY <1>1, <1>2
<1> QED BY <1>3 DEF a, b

\* for the task, whose range has its ends in order,
LEMMA TaskPointsGrow ==
    ASSUME NEW task \in TaskNames, NEW p \in Nat, NEW q \in Nat, p <= q
    PROVE  /\ TaskPointsAt(task, p) \in Nat /\ TaskPointsAt(task, q) \in Nat
           /\ TaskPointsAt(task, p) <= TaskPointsAt(task, q)
<1> DEFINE low == TASK_POINTS[task][1]
           span == TASK_POINTS[task][2] - TASK_POINTS[task][1]
<1>1. low \in Nat /\ span \in {0, 2, 3, 4}
  BY DEF TaskNames, TASK_POINTS
<1>2. TaskPointsAt(task, p) = 100 * low + span * p /\ TaskPointsAt(task, q) = 100 * low + span * q
  BY DEF TaskPointsAt
<1> HIDE DEF low, span
<1>3. CASE span = 0
  BY <1>1, <1>2, <1>3
<1>4. CASE span = 2
  BY <1>1, <1>2, <1>4
<1>5. CASE span = 3
  BY <1>1, <1>2, <1>5
<1>6. CASE span = 4
  BY <1>1, <1>2, <1>6
<1> QED BY <1>1, <1>3, <1>4, <1>5, <1>6

\* and the sum of them, rounded and kept within 1 and 20.
LEMMA RoundingGrows ==
    ASSUME NEW m \in Nat, NEW n \in Nat, m <= n
    PROVE  Rounded(m) \in 1..20 /\ Rounded(n) \in 1..20 /\ Rounded(m) <= Rounded(n)
<1> DEFINE whole(k) == (100 + k + 50) \div 100
<1>1. /\ whole(m) \in Nat /\ whole(n) \in Nat /\ whole(m) <= whole(n)
  OBVIOUS
<1>2. ASSUME NEW k \in Nat, whole(k) \in Nat
      PROVE  Rounded(k) = IF whole(k) <= 1 THEN 1 ELSE IF whole(k) <= 20 THEN whole(k) ELSE 20
  <2> DEFINE w == whole(k)
  <2>1. w \in Int /\ 20 \in Int /\ 1 \in Int
    BY <1>2
  <2>2. Rounded(k) = Max({1, Min({20, w})})
    BY DEF Rounded
  <2> HIDE DEF w
  <2>3. Min({20, w}) = IF 20 <= w THEN 20 ELSE w
    BY <2>1, MinOfTwo
  <2> DEFINE v == Min({20, w})
  <2>4. v \in Int
    BY <2>1, <2>3
  <2>5. Max({1, v}) = IF 1 >= v THEN 1 ELSE v
    <3> HIDE DEF v
    <3> QED BY <2>1, <2>4, MaxOfTwo
  <2>6. Rounded(k) = IF w <= 1 THEN 1 ELSE IF w <= 20 THEN w ELSE 20
    BY <2>1, <2>2, <2>3, <2>5
  <2> QED BY <2>6 DEF w
<1>3. /\ Rounded(m) = IF whole(m) <= 1 THEN 1 ELSE IF whole(m) <= 20 THEN whole(m) ELSE 20
      /\ Rounded(n) = IF whole(n) <= 1 THEN 1 ELSE IF whole(n) <= 20 THEN whole(n) ELSE 20
  BY <1>1, <1>2
<1> HIDE DEF whole
<1> QED BY <1>1, <1>3

\* The families of components are finitely many.
LEMMA ComponentsAreFinite == IsFiniteSet(UNION {ComponentsOf[p] : p \in DOMAIN ComponentsOf})
<1> DEFINE names == <<"auth", "external_service", "cache", "queue", "database">>
           S == {names[i] : i \in 1..5}
<1>1. IsFiniteSet(1..5)
  BY FS_Interval, 1 \in Int, 5 \in Int
<1>2. [i \in 1..5 |-> names[i]] \in Surjection(1..5, S)
  BY DEF Surjection
<1>3. IsFiniteSet(S)
  BY <1>1, <1>2, FS_Surjection
<1>4. S = {"auth", "external_service", "cache", "queue", "database"}
  <2>1. 1..5 = {1, 2, 3, 4, 5}
    OBVIOUS
  <2>2. /\ names[1] = "auth" /\ names[2] = "external_service" /\ names[3] = "cache"
        /\ names[4] = "queue" /\ names[5] = "database"
    OBVIOUS
  <2> HIDE DEF names
  <2> QED BY <2>1, <2>2
<1>5. \A p \in DOMAIN ComponentsOf : ComponentsOf[p] \subseteq S
  BY <1>4 DEF ComponentsOf
<1> HIDE DEF S
<1>6. UNION {ComponentsOf[p] : p \in DOMAIN ComponentsOf} \in SUBSET S
  BY <1>5
<1> QED BY <1>3, <1>6, FS_Subset

\* A text that has grown scores no lower for the same task and a scope that is no
\* narrower.
LEMMA ScoreGrows ==
    ASSUME NEW task \in TaskNames, NEW scope \in Widths, NEW wider \in Widths, scope <= wider,
           IsFiniteSet(text), IsFiniteSet(text'), text \subseteq text'
    PROVE  /\ Position(task, scope) \in 0..100 /\ Score(task, scope) \in 1..20
           /\ Score(task, scope) <= Score(task, wider)' /\ Score(task, wider)' \in 1..20
<1>1. ASSUME NEW words
      PROVE  /\ Cardinality(text \cap words) \in Nat /\ Cardinality(text' \cap words) \in Nat
             /\ Cardinality(text \cap words) <= Cardinality(text' \cap words)
  <2>1. IsFiniteSet(text \cap words) /\ IsFiniteSet(text' \cap words) /\ text \cap words \in SUBSET (text' \cap words)
    BY FS_Subset
  <2> QED BY <2>1, FS_Subset, FS_CardinalityType
<1>2. ASSUME NEW table
      PROVE  /\ IsFiniteSet(Found(table)) /\ IsFiniteSet(Found(table)')
             /\ Found(table) \subseteq Found(table)'
             /\ Cardinality(Found(table)) \in Nat /\ Cardinality(Found(table)') \in Nat
             /\ Cardinality(Found(table)) <= Cardinality(Found(table)')
  <2> DEFINE S == text' \cap DOMAIN table
             f == [p \in S |-> table[p]]
  <2>1. IsFiniteSet(S)
    BY FS_Subset
  <2>2. f \in Surjection(S, Found(table)')
    BY DEF Surjection, Found
  <2>3. IsFiniteSet(Found(table)')
    BY <2>1, <2>2, FS_Surjection
  <2>4. Found(table) \in SUBSET (Found(table)')
    BY DEF Found
  <2>5. IsFiniteSet(Found(table)) /\ Cardinality(Found(table)) <= Cardinality(Found(table)')
    BY <2>3, <2>4, FS_Subset
  <2> QED BY <2>3, <2>4, <2>5, FS_CardinalityType
<1> DEFINE pos1 == Position(task, scope)
           pos2 == Position(task, wider)'
           sec1 == SecurityPoints(task)
           sec2 == SecurityPoints(task)'
           dep1 == DependencyPoints(task)
           dep2 == DependencyPoints(task)'
           deep1 == DepthPoints(Depth(task))
           deep2 == DepthPoints(Depth(task))'
<1>3. pos1 \in 0..100 /\ pos2 \in 0..100 /\ pos1 <= pos2
  <2> DEFINE m == Cardinality(text \cap ActionVerbs)
             n == Cardinality(text' \cap ActionVerbs)
             big == text \cap ScaleWords # {}
             bigger == text' \cap ScaleWords # {}
             broad == text \cap BreadthWords # {}
             broader == text' \cap BreadthWords # {}
             code == text \cap CodeReference # {}
             coded == text' \cap CodeReference # {}
  <2>1. m \in Nat /\ n \in Nat /\ m <= n
    BY <1>1
  <2>2. /\ big \in BOOLEAN /\ bigger \in BOOLEAN /\ (big => bigger)
        /\ broad \in BOOLEAN /\ broader \in BOOLEAN /\ (broad => broader)
        /\ code \in BOOLEAN /\ coded \in BOOLEAN /\ (code => coded)
    OBVIOUS
  <2>3. pos1 = PositionAt(task, scope, m, big, broad, code)
    BY DEF Position, PositionAt
  <2>4. pos2 = PositionAt(task, wider, n, bigger, broader, coded)
    BY DEF Position, PositionAt, ActionVerbs, ScaleWords, BreadthWords, CodeReference, ScopePosition
  <2> HIDE DEF m, n, big, bigger, broad, broader, code, coded, pos1, pos2
  <2> QED BY <2>1, <2>2, <2>3, <2>4, PositionGrows
<1>4. sec1 \in Nat /\ sec2 \in Nat /\ sec1 <= sec2
  <2> DEFINE m == Cardinality(Security)
             n == Cardinality(Security')
             none == Security = {}
             still == Security' = {}
  <2>1. m \in Nat /\ n \in Nat /\ m <= n
    BY <1>2 DEF Security
  <2>2. none \in BOOLEAN /\ still \in BOOLEAN /\ (still => none)
    BY <1>2 DEF Security
  <2>3. sec1 = SecurityPointsAt(task, none, m)
    BY DEF SecurityPoints, SecurityPointsAt
  <2>4. sec2 = SecurityPointsAt(task, still, n)
    BY DEF SecurityPoints, SecurityPointsAt
  <2> HIDE DEF m, n, none, still, sec1, sec2
  <2> QED BY <2>1, <2>2, <2>3, <2>4, SecurityPointsGrow
<1>5. dep1 \in Nat /\ dep2 \in Nat /\ dep1 <= dep2
  <2> DEFINE m == Cardinality(UNION Found(ComponentsOf))
             n == Cardinality(UNION (Found(ComponentsOf)'))
  <2>1. m \in Nat /\ n \in Nat /\ m <= n
    <3>1. IsFiniteSet(UNION (Found(ComponentsOf)'))
      <4>1. Found(ComponentsOf)' \subseteq {ComponentsOf[p] : p \in DOMAIN ComponentsOf}
        BY DEF Found, ComponentsOf
      <4> QED BY <4>1, ComponentsAreFinite, FS_Subset
    <3>2. UNION Found(ComponentsOf) \in SUBSET UNION (Found(ComponentsOf)')
      BY <1>2
    <3> QED BY <3>1, <3>2, FS_Subset, FS_CardinalityType
  <2>2. dep1 = 100 * Min({5, DependenciesAt(task, m) - 1})
    BY DEF DependencyPoints, Dependencies, DependenciesAt
  <2>3. dep2 = 100 * Min({5, DependenciesAt(task, n) - 1})
    BY DEF DependencyPoints, Dependencies, DependenciesAt
  <2> HIDE DEF m, n, dep1, dep2
  <2> QED BY <2>1, <2>2, <2>3, DependencyPointsGrow
<1>6. deep1 \in Nat /\ deep2 \in Nat /\ deep1 <= deep2
  <2> DEFINE f1 == Cardinality(Architecture)
             f2 == Cardinality(Architecture')
             secure1 == Security # {}
             secure2 == Security' # {}
             tough1 == text \cap HardDebug # {}
             tough2 == text' \cap HardDebug # {}
             k1 == HardConcepts
             k2 == HardConcepts'
             m == Cardinality(text \cap Complicators)
             n == Cardinality(text' \cap Complicators)
  <2>1. m \in Nat /\ n \in Nat /\ m <= n
    BY <1>1
  <2>2. f1 \in Nat /\ f2 \in Nat /\ f1 <= f2
    BY <1>2 DEF Architecture
  <2>3. (secure1 => secure2) /\ (tough1 => tough2)
    BY <1>2 DEF Security
  <2>4. k1 = HardAt(f1, secure1, tough1) /\ k2 = HardAt(f2, secure2, tough2)
    BY DEF HardConcepts, HardAt
  <2>5. k1 \in Nat /\ k2 \in Nat /\ k1 <= k2
    <3> HIDE DEF f1, f2, secure1, secure2, tough1, tough2, k1, k2
    <3> QED BY <2>2, <2>3, <2>4 DEF HardAt
  <2>6. deep1 = DepthPointsAt(DepthAt(task, k1), k1, m)
    BY DEF DepthPoints, Depth, DepthPointsAt, DepthAt
  <2>7. deep2 = DepthPointsAt(DepthAt(task, k2), k2, n)
    BY DEF DepthPoints, Depth, DepthPointsAt, DepthAt
  <2> HIDE DEF k1, k2, m, n, deep1, deep2
  <2> QED BY <2>1, <2>5, <2>6, <2>7, DepthPointsGrow
<1> DEFINE task1 == TaskPoints(task, scope)
           task2 == TaskPoints(task, wider)'
<1>7. task1 \in Nat /\ task2 \in Nat /\ task1 <= task2
  <2>1. task1 = TaskPointsAt(task, pos1)
    BY DEF TaskPoints, TaskPointsAt
  <2>2. task2 = TaskPointsAt(task, pos2)
    BY DEF TaskPoints, TaskPointsAt
  <2> HIDE DEF pos1, pos2, task1, task2
  <2> QED BY <1>3, <2>1, <2>2, TaskPointsGrow
<1>8. Score(task, scope) = IF task = "unknown" THEN 1 ELSE Rounded(task1 + sec1 + dep1 + deep1)
  BY DEF Score, Rounded
<1>9. Score(task, wider)' = IF task = "unknown" THEN 1 ELSE Rounded(task2 + sec2 + dep2 + deep2)
  BY DEF Score, Rounded
<1>10. /\ task1 + sec1 + dep1 + deep1 \in Nat /\ task2 + sec2 + dep2 + deep2 \in Nat
       /\ task1 + sec1 + dep1 + deep1 <= task2 + sec2 + dep2 + deep2
  <2> HIDE DEF sec1, sec2, dep1, dep2, deep1, deep2, task1, task2
  <2> QED BY <1>4, <1>5, <1>6, <1>7
<1> DEFINE sum1 == task1 + sec1 + dep1 + deep1
           sum2 == task2 + sec2 + dep2 + deep2
<1>11. /\ Rounded(sum1) \in 1..20 /\ Rounded(sum2) \in 1..20 /\ Rounded(sum1) <= Rounded(sum2)
  <2>1. sum1 \in Nat /\ sum2 \in Nat /\ sum1 <= sum2
    BY <1>10
  <2> HIDE DEF sum1, sum2
  <2> QED BY <2>1, RoundingGrows
<1>12. Position(task, scope) \in 0..100
  BY <1>3
<1> DEFINE r1 == Rounded(sum1)
           r2 == Rounded(sum2)
<1>13. Score(task, scope) = (IF task = "unknown" THEN 1 ELSE r1) /\ Score(task, wider)' = (IF task = "unknown" THEN 1 ELSE r2)
  BY <1>8, <1>9
<1>14. /\ Score(task, scope) \in 1..20 /\ Score(task, wider)' \in 1..20
       /\ Score(task, scope) <= Score(task, wider)'
  <2>1. r1 \in 1..20 /\ r2 \in 1..20 /\ r1 <= r2
    BY <1>11
  <2> HIDE DEF r1, r2
  <2> QED BY <1>13, <2>1
<1> QED BY <1>12, <1>14

ScopeNames == {"function", "class", "module", "multi_module", "service", "repository", "cross_repository"}

\* _wider: every name of a scope has a width.
LEMMA WidthInRange ==
    ASSUME NEW scope \in ScopeNames
    PROVE  Width(scope) \in Widths
<1> DEFINE I == {i \in 1..Len(Scopes) : Scopes[i] = scope}
<1>1. Len(Scopes) = 7
  BY DEF Scopes
<1>2. I \in SUBSET Nat /\ I \subseteq 1..7
  BY <1>1
<1>3. I # {}
  <2>1. \E i \in 1..7 : Scopes[i] = scope
    BY DEF Scopes, ScopeNames
  <2> QED BY <2>1, <1>1
<1>4. Width(scope) = Min(I)
  BY <1>3 DEF Width, SelectInSeq
<1> HIDE DEF I
<1>5. Min(I) \in I
  BY <1>2, <1>3, MinIsThere
<1> QED BY <1>2, <1>4, <1>5 DEF Widths

\* detect_scope
LEMMA ScopeInRange ==
    ASSUME NEW task
    PROVE  Scope(task, Stated) \in Widths
<1>1. ASSUME NEW n PROVE FilesToScope(n) \subseteq Widths
  <2>1. Width("repository") \in Widths /\ Width("multi_module") \in Widths /\ Width("module") \in Widths
    BY WidthInRange DEF ScopeNames
  <2> QED BY <2>1 DEF FilesToScope
<1>2. Found(ScopeOf) \subseteq ScopeNames
  BY DEF Found, ScopeOf, ScopeNames
<1>3. {Width(s) : s \in Found(ScopeOf)} \subseteq Widths
  BY <1>2, WidthInRange
<1>4. Stated \subseteq Widths
  BY <1>1, <1>3 DEF Stated
<1> DEFINE found == IF Stated = {} THEN Width(DefaultScope(task)) ELSE Max(Stated)
           least == Width(MinScope(task))
<1>5. found \in Widths
  <2>1. CASE Stated = {}
    <3>1. DefaultScope(task) \in ScopeNames
      BY DEF DefaultScope, ScopeNames
    <3> QED BY <2>1, <3>1, WidthInRange
  <2>2. CASE Stated # {}
    <3>1. Stated \in SUBSET Nat /\ \A k \in Stated : k <= 7
      BY <1>4 DEF Widths
    <3>2. Max(Stated) \in Stated
      BY <2>2, <3>1, MaxIsThere, 7 \in Nat
    <3> QED BY <1>4, <2>2, <3>2
  <2> QED BY <2>1, <2>2
<1>6. least \in Widths
  <2>1. MinScope(task) \in ScopeNames
    BY DEF MinScope, ScopeNames
  <2> QED BY <2>1, WidthInRange
<1>7. Scope(task, Stated) = Max({found, least})
  BY DEF Scope
<1> HIDE DEF found, least
<1>8. found \in Int /\ least \in Int
  BY <1>5, <1>6 DEF Widths
<1> QED BY <1>5, <1>6, <1>7, <1>8, MaxOfTwo

Spoken == TaskNames \ {"unknown"}

\* The tally of a task is positive if a phrase speaks for it,
LEMMA TallyInRange ==
    ASSUME IsFiniteSet(text), NEW task \in Spoken
    PROVE  /\ Tally(task) \in Nat /\ Tally(task) <= 30 * Cardinality(text)
           /\ task \in Found(TaskOf) => Tally(task) > 0
<1> DEFINE k == Cardinality(PhrasesFor(task))
           all == Cardinality(text)
<1>1. PhrasesFor(task) \in SUBSET text
  BY DEF PhrasesFor
<1>2. k \in Nat /\ all \in Nat /\ k <= all
  BY <1>1, FS_Subset, FS_CardinalityType
<1>3. task \in Found(TaskOf) => k > 0
  <2>1. task \in Found(TaskOf) => PhrasesFor(task) # {}
    BY DEF Found, PhrasesFor
  <2>2. IsFiniteSet(PhrasesFor(task))
    BY <1>1, FS_Subset
  <2> QED BY <1>2, <2>1, <2>2, FS_EmptySet
<1> DEFINE w == Weight[task]
<1>4. w \in {10, 12, 14, 15, 16, 17, 18, 20, 22, 30}
  BY DEF Spoken, TaskNames, Weight
<1>5. Tally(task) = w * k
  BY DEF Tally
<1> HIDE DEF w, k, all
<1>6. w * k \in Nat /\ w * k <= 30 * all /\ (k > 0 => w * k > 0)
  BY <1>2, <1>4
<1> QED BY <1>3, <1>5, <1>6 DEF all

\* which is so for every task in the running;
LEMMA ContendersAreFound == Contenders \subseteq Found(TaskOf) /\ Found(TaskOf) \subseteq Spoken
<1>1. Contenders \subseteq Found(TaskOf)
  BY DEF Contenders
<1>2. Found(TaskOf) \subseteq Spoken
  BY DEF Found, TaskOf, Spoken, TaskNames
<1> QED BY <1>1, <1>2

\* so one of them has the highest tally, and stands in _TASK_PRECEDENCE,
LEMMA TaskIsFound ==
    ASSUME IsFiniteSet(text)
    PROVE  /\ TaskType(Contenders) \in TaskNames
           /\ ~Prompt.empty /\ Contenders # {} => TaskType(Contenders) \in Contenders
<1>1. CASE Prompt.empty \/ Contenders = {}
  BY <1>1 DEF TaskType, TaskNames
<1>2. CASE ~Prompt.empty /\ Contenders # {}
  <2> DEFINE tallies == {Tally(t) : t \in Contenders}
             best == Max(tallies)
             I == {i \in 1..Len(Tasks) : Tasks[i] \in Contenders /\ Tally(Tasks[i]) = best}
  <2>1. tallies \in SUBSET Nat /\ tallies # {} /\ 30 * Cardinality(text) \in Nat
    BY <1>2, TallyInRange, ContendersAreFound, FS_CardinalityType
  <2>2. \A k \in tallies : k <= 30 * Cardinality(text)
    BY TallyInRange, ContendersAreFound
  <2>3. best \in tallies
    <3> HIDE DEF tallies
    <3> QED BY <2>1, <2>2, MaxIsThere
  <2>4. PICK t \in Contenders : Tally(t) = best
    BY <2>3
  <2>5. Len(Tasks) = 10 /\ \E i \in 1..10 : Tasks[i] = t
    <3>1. t \in Spoken
      BY <2>4, ContendersAreFound
    <3> QED BY <3>1 DEF Tasks, Spoken, TaskNames
  <2> HIDE DEF best
  <2>6. I # {} /\ I \in SUBSET Nat
    BY <2>4, <2>5
  <2>7. TaskType(Contenders) = Tasks[Min(I)]
    BY <1>2, <2>6 DEF TaskType, SelectInSeq, best
  <2> DEFINE first == Min(I)
  <2>8. first \in I
    BY <2>6, MinIsThere
  <2>9. Tasks[first] \in Contenders
    BY <2>8
  <2>10. Contenders \subseteq TaskNames
    BY ContendersAreFound DEF Spoken
  <2> QED BY <2>7, <2>9, <2>10
<1> QED BY <1>1, <1>2

\* and how far it is ahead is a number.
LEMMA StrengthIsNumber ==
    ASSUME IsFiniteSet(text), NEW task, Contenders # {} => task \in Contenders
    PROVE  Strength(task, Contenders) \in Int
<1>1. CASE Contenders = {}
  BY <1>1 DEF Strength
<1>2. CASE Contenders # {}
  <2> DEFINE rest == {Tally(t) : t \in Contenders \ {task}}
             second == IF rest = {} THEN 0 ELSE Max(rest)
             mine == Tally(task)
  <2>1. mine \in Nat /\ mine > 0
    BY <1>2, TallyInRange, ContendersAreFound
  <2>2. second \in Int
    <3>1. rest \in SUBSET Nat /\ 30 * Cardinality(text) \in Nat
      BY TallyInRange, ContendersAreFound, FS_CardinalityType
    <3>2. \A k \in rest : k <= 30 * Cardinality(text)
      BY TallyInRange, ContendersAreFound
    <3>3. CASE rest # {}
      <4> DEFINE most == Max(rest)
      <4>1. most \in rest
        <5> HIDE DEF rest
        <5> QED BY <3>1, <3>2, <3>3, MaxIsThere
      <4>2. most \in Nat
        BY <3>1, <4>1
      <4> QED BY <3>3, <4>2
    <3>4. CASE rest = {}
      BY <3>4
    <3> QED BY <3>3, <3>4
  <2>3. Strength(task, Contenders) = 5500 + (4500 * (mine - second)) \div mine
    BY <1>2 DEF Strength
  <2> HIDE DEF mine, second
  <2>4. 4500 * (mine - second) \in Int
    BY <2>1, <2>2
  <2> DEFINE part == 4500 * (mine - second)
  <2>5. part \in Int
    BY <2>4
  <2>6. part \div mine \in Int
    <3> HIDE DEF part
    <3> QED BY <2>1, <2>5
  <2> QED BY <2>3, <2>6
<1> QED BY <1>1, <1>2

\* _confidence is kept within 0.05 and 0.99.
LEMMA ConfidenceInRange ==
    ASSUME NEW strength, ~Prompt.empty => strength \in Int, NEW stated \in BOOLEAN
    PROVE  Confidence(strength, stated) \in 5..99
<1>1. CASE Prompt.empty
  BY <1>1 DEF Confidence
<1>2. CASE ~Prompt.empty
  <2> DEFINE said == IF stated THEN 150000 ELSE 60000
             long == CASE origin.length = "many" -> 100000 [] origin.length = "few" -> 0 [] OTHER -> -150000
             source == IF Prompt.source \in {"field", "messages:userRequest"} THEN 50000 ELSE 0
             follow == IF Prompt.followup THEN 200000 ELSE 0
             sum == 350000 + 35 * strength + said + long + source - follow
             x == (sum + 5000) \div 10000
  <2>1. said \in Int /\ long \in Int /\ source \in Int /\ follow \in Int
    OBVIOUS
  <2>2. Confidence(strength, stated) = Max({5, Min({99, x})})
    BY <1>2 DEF Confidence
  <2> HIDE DEF said, long, source, follow
  <2>3. sum \in Int
    BY <1>2, <2>1
  <2>4. x \in Int
    BY <2>3
  <2> HIDE DEF x
  <2>5. Min({99, x}) = IF 99 <= x THEN 99 ELSE x
    BY <2>4, MinOfTwo, 99 \in Int
  <2> DEFINE capped == Min({99, x})
  <2>6. capped \in Int /\ capped <= 99
    BY <2>4, <2>5
  <2> HIDE DEF capped
  <2>7. Max({5, capped}) = IF 5 >= capped THEN 5 ELSE capped
    BY <2>6, MaxOfTwo, 5 \in Int
  <2>8. Max({5, capped}) \in 5..99
    BY <2>6, <2>7
  <2> QED BY <2>2, <2>8 DEF capped
<1> QED BY <1>1, <1>2

\* The score that was given is no more than the same task would get now, at any
\* wider scope: the request has only grown since.
ScorerInv ==
    /\ text \subseteq Vocabulary /\ IsFiniteSet(text)
    /\ origin \in Origin
    /\ edited \in BOOLEAN
    /\ verdict.position \in 0..100 /\ verdict.score \in 1..20 /\ verdict.confidence \in 5..99
    /\ verdict.given =>
          /\ verdict.task \in TaskNames /\ verdict.scope \in Widths
          /\ \A wider \in Widths : verdict.scope <= wider => verdict.score <= Score(verdict.task, wider)

\* Nothing has been scored at first.
LEMMA ScorerStarts == ScorerInit => ScorerInv
<1> SUFFICES ASSUME ScorerInit PROVE ScorerInv
  OBVIOUS
<1>1. text \subseteq Vocabulary /\ IsFiniteSet(text)
  BY FS_EmptySet DEF ScorerInit
<1>2. origin \in Origin
  BY ScorerAssumption DEF ScorerInit
<1>3. edited \in BOOLEAN /\ verdict = NoVerdict
  BY DEF ScorerInit
<1> QED BY <1>1, <1>2, <1>3 DEF NoVerdict, ScorerInv

\* The text grows and the verdict stays.
LEMMA TextGrows ==
    ASSUME ScorerInv, text \subseteq text', text' \subseteq Vocabulary, IsFiniteSet(text'),
           origin' = origin, edited' \in BOOLEAN, verdict' = verdict
    PROVE  ScorerInv'
<1>1. ASSUME verdict.given, NEW wider \in Widths, verdict.scope <= wider
      PROVE  verdict.score <= Score(verdict.task, wider)'
  <2> DEFINE task == verdict.task
             score == verdict.score
  <2>1. task \in TaskNames /\ IsFiniteSet(text) /\ score <= Score(task, wider) /\ score \in 1..20
    BY <1>1 DEF ScorerInv
  <2>2. PICK t \in TaskNames : t = task
    BY <2>1
  <2>3. Score(t, wider) \in 1..20 /\ Score(t, wider) <= Score(t, wider)'
    <3>1. wider <= wider
      BY DEF Widths
    <3> QED BY <2>1, <3>1, ScoreGrows
  <2>4. verdict' = verdict
    OBVIOUS
  <2>5. Score(verdict.task, wider)' = Score(t, wider)'
    BY <2>2, <2>4
  <2>6. Score(t, wider)' \in 1..20
    BY <2>1, ScoreGrows, wider <= wider DEF Widths
  <2> QED BY <2>1, <2>2, <2>3, <2>5, <2>6
<1>2. verdict'.given => /\ verdict'.task \in TaskNames /\ verdict'.scope \in Widths
                        /\ \A wider \in Widths : verdict'.scope <= wider => verdict'.score <= Score(verdict.task, wider)'
  BY <1>1 DEF ScorerInv
<1>3. /\ verdict'.position \in 0..100 /\ verdict'.score \in 1..20 /\ verdict'.confidence \in 5..99
      /\ origin' \in Origin
  BY DEF ScorerInv
<1> QED BY <1>2, <1>3 DEF ScorerInv

\* A new verdict is the score of the text as it is now.
LEMMA ScoringKeeps == ASSUME ScorerInv, ScoreRequest PROVE ScorerInv'
<1> DEFINE task == TaskType(Contenders)
           stated == Stated
           scope == Scope(task, stated)
           points == Score(task, scope)
           place == Position(task, scope)
           strength == Strength(task, Contenders)
           said == stated # {}
           sure == Confidence(strength, said)
<1>1. IsFiniteSet(text) /\ text' = text
  BY DEF ScorerInv, ScoreRequest
<1>2. task \in TaskNames /\ (~Prompt.empty /\ Contenders # {} => task \in Contenders)
  BY <1>1, TaskIsFound
<1>3. scope \in Widths
  BY ScopeInRange
<1>4. sure \in 5..99
  <2>1. ~Prompt.empty => strength \in Int
    <3> HIDE DEF task
    <3> QED BY <1>1, <1>2, StrengthIsNumber
  <2>2. said \in BOOLEAN
    OBVIOUS
  <2> HIDE DEF strength, said
  <2> QED BY <2>1, <2>2, ConfidenceInRange
<1>5. PICK t \in TaskNames : t = task
  BY <1>2
<1>6. PICK s \in Widths : s = scope
  BY <1>3
<1>7. verdict' = [given |-> TRUE, task |-> t, scope |-> s, position |-> place, score |-> points, confidence |-> sure]
  BY <1>5, <1>6 DEF ScoreRequest, Verdict
<1>8. ASSUME NEW wider \in Widths, s <= wider
      PROVE  Score(t, s) \in 1..20 /\ Position(t, s) \in 0..100 /\ Score(t, s) <= Score(t, wider)'
  BY <1>1, <1>8, ScoreGrows
<1>9. points \in 1..20 /\ place \in 0..100
  <2>1. s <= s
    BY DEF Widths
  <2> QED BY <2>1, <1>5, <1>6, <1>8
<1>10. \A wider \in Widths : s <= wider => points <= Score(t, wider)'
  BY <1>5, <1>6, <1>8
<1> HIDE DEF points, place, sure, task, scope
<1>11. /\ verdict'.task = t /\ verdict'.scope = s /\ verdict'.position = place
       /\ verdict'.score = points /\ verdict'.confidence = sure
  BY <1>7
<1>12. ASSUME NEW wider \in Widths PROVE Score(verdict.task, wider)' = Score(t, wider)'
  BY <1>11
<1>13. \A wider \in Widths : verdict'.scope <= wider => verdict'.score <= Score(verdict.task, wider)'
  BY <1>10, <1>11, <1>12
<1>14. text' \subseteq Vocabulary /\ IsFiniteSet(text') /\ origin' \in Origin /\ edited' \in BOOLEAN
  BY DEF ScorerInv, ScoreRequest
<1> QED BY <1>4, <1>9, <1>11, <1>13, <1>14 DEF ScorerInv

\* Every operation keeps it.
LEMMA ScorerStepKeeps == ScorerInv /\ [ScorerNext]_scorerVars => ScorerInv'
<1> SUFFICES ASSUME ScorerInv, [ScorerNext]_scorerVars PROVE ScorerInv'
  OBVIOUS
<1>1. text \subseteq Vocabulary /\ IsFiniteSet(text) /\ edited \in BOOLEAN
  BY DEF ScorerInv
<1>2. CASE ScoreRequest
  BY <1>2, ScoringKeeps
<1>3. ASSUME NEW phrase \in Vocabulary, Say(phrase) PROVE ScorerInv'
  <2>1. /\ text' = text \cup {phrase} /\ edited' = TRUE
        /\ origin' = origin /\ verdict' = verdict
    BY <1>3 DEF Say
  <2>2. text \subseteq text' /\ text' \subseteq Vocabulary /\ IsFiniteSet(text')
    BY <1>1, <2>1, FS_AddElement
  <2>3. edited' \in BOOLEAN
    BY <2>1
  <2> QED BY <2>1, <2>2, <2>3, TextGrows
<1>4. ASSUME NEW kind, NEW n, AddFiles(kind, n) PROVE ScorerInv'
  <2>1. /\ text' = text /\ edited' \in BOOLEAN
        /\ origin' = origin /\ verdict' = verdict
    BY <1>4 DEF AddFiles
  <2>2. text \subseteq text' /\ text' \subseteq Vocabulary /\ IsFiniteSet(text')
    BY <1>1, <2>1
  <2> QED BY <2>1, <2>2, TextGrows
<1>5. CASE UNCHANGED scorerVars
  <2>1. text' = text /\ edited' \in BOOLEAN /\ origin' = origin /\ verdict' = verdict
    BY <1>1, <1>5 DEF scorerVars
  <2>2. text \subseteq text' /\ text' \subseteq Vocabulary /\ IsFiniteSet(text')
    BY <1>1, <2>1
  <2> QED BY <2>1, <2>2, TextGrows
<1> QED BY <1>2, <1>3, <1>4, <1>5 DEF ScorerNext

LEMMA ScorerInvariance == ScorerSpec => []ScorerInv
<1> QED BY ScorerStarts, ScorerStepKeeps, PTL DEF ScorerSpec

\* A verdict for the same task at no narrower scope is no lower than the last one.
LEMMA ScoringHeld ==
    ASSUME ScorerInv, ScoreRequest, verdict.given, verdict'.task = verdict.task, verdict'.scope >= verdict.scope
    PROVE  verdict'.score >= verdict.score
<1> DEFINE task == TaskType(Contenders)
           scope == Scope(task, Stated)
           old == verdict.score
<1>1. IsFiniteSet(text) /\ text' = text
  BY DEF ScorerInv, ScoreRequest
<1>2. task \in TaskNames /\ scope \in Widths
  BY <1>1, TaskIsFound, ScopeInRange
<1>3. PICK t \in TaskNames : t = task
  BY <1>2
<1>4. PICK s \in Widths : s = scope
  BY <1>2
<1> DEFINE place == Position(task, scope)
           points == Score(task, scope)
           sure == Confidence(Strength(task, Contenders), Stated # {})
<1>5. verdict' = [given |-> TRUE, task |-> t, scope |-> s, position |-> place, score |-> points, confidence |-> sure]
  BY <1>3, <1>4 DEF ScoreRequest, Verdict
<1>6. points = Score(t, s)
  BY <1>3, <1>4
<1> HIDE DEF place, points, sure, task, scope
<1>7. verdict'.task = t /\ verdict'.scope = s /\ verdict'.score = points
  BY <1>5
<1>8. verdict.task = t /\ verdict.scope <= s
  <2>1. verdict.scope \in Widths
    BY DEF ScorerInv
  <2> QED BY <2>1, <1>7 DEF Widths
<1>9. \A wider \in Widths : verdict.scope <= wider => old <= Score(verdict.task, wider)
  BY DEF ScorerInv
<1>10. old <= Score(t, s)
  BY <1>8, <1>9
<1>11. old \in Int /\ Score(t, s) \in Int
  <2>1. Score(t, s) \in 1..20
    <3>1. s <= s
      BY DEF Widths
    <3> QED BY <1>1, <3>1, ScoreGrows
  <2>2. old \in 1..20
    BY DEF ScorerInv
  <2> QED BY <2>1, <2>2
<1> QED BY <1>6, <1>7, <1>10, <1>11

\* score_request: of a request that remains the same task and is stated no narrower a
\* phrase or a path more never lowers the score ("a wider scope never places a task
\* lower"), whatever the vocabulary and the files.
THEOREM MoreIsAlwaysNeverLess == ScorerSpec => MoreIsNeverLess
<1>1. ScorerInv /\ [ScorerNext]_scorerVars =>
        [verdict.given /\ verdict'.task = verdict.task /\ verdict'.scope >= verdict.scope
            => verdict'.score >= verdict.score]_scorerVars
  <2> SUFFICES ASSUME ScorerInv, [ScorerNext]_scorerVars, verdict.given,
                      verdict'.task = verdict.task, verdict'.scope >= verdict.scope
               PROVE  verdict'.score >= verdict.score
    OBVIOUS
  <2>1. CASE ScoreRequest
    BY <2>1, ScoringHeld
  <2>2. CASE verdict' = verdict
    BY <2>2 DEF ScorerInv
  <2>3. ScoreRequest \/ verdict' = verdict
    BY DEF ScorerNext, Say, AddFiles, scorerVars
  <2> QED BY <2>1, <2>2, <2>3
<1> QED BY <1>1, ScorerInvariance, PTL DEF ScorerSpec, MoreIsNeverLess

\* score_request: points within the range of their task, a score from 1 to 20 and a
\* confidence from 0.05 to 0.99 for every request.
THEOREM ScorerTypesKept == ScorerSpec => []ScorerTypeOK
<1>1. ScorerInv => ScorerTypeOK
  BY DEF ScorerInv, ScorerTypeOK
<1> QED BY <1>1, ScorerInvariance, PTL
=============================================================================
