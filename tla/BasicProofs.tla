----------------------------- MODULE BasicProofs -----------------------------
(***************************************************************************)
(* What the proofs about several components rest on.                       *)
(*                                                                         *)
(* Induction over numbers is done with the least number for which a claim  *)
(* fails (LeastIsThere).  A recursive function is a CHOOSE of a function   *)
(* that satisfies its equation: RecursionDefines says that there is one.   *)
(*                                                                         *)
(* TTLStore, where entries expire, are evicted and are refreshed: what a   *)
(* get or a put leaves in it.                                              *)
(***************************************************************************)
EXTENDS TTLStore, TLAPS, SequenceTheorems, FiniteSetTheorems, WellFoundedInduction

\* A set of numbers has a least element: induction is done with the least
\* number for which a claim fails.
LEMMA LeastIsThere ==
    ASSUME NEW S \in SUBSET Nat, S # {}
    PROVE  \E i \in S : \A j \in S : i <= j
<1> DEFINE R == OpToRel(<, Nat)
<1>1. IsWellFoundedOn(R, Nat)
  BY NatLessThanWellFounded
<1>2. \A x, y \in Nat : y < x => <<y, x>> \in R
  BY DEF OpToRel
<1> HIDE DEF R
<1>3. PICK i \in S : \A j \in S : <<j, i>> \notin R
  BY <1>1, WFMin
<1>4. \A j \in S : ~(j < i)
  BY <1>2, <1>3, Zenon
<1>5. \A j \in S : i <= j
  BY <1>4
<1> QED BY <1>5

\* The function f begins with base and goes on with next.
Defined(f, N, V, base, next) ==
    /\ f \in [0..N -> V] /\ f[0] = base
    /\ \A n \in 1..N : f[n] = next[n][f[n - 1]]

\* A recursive definition over the numbers up to N defines a function.
LEMMA RecursionDefines ==
    ASSUME NEW N \in Nat, NEW V, NEW base \in V, NEW next \in [1..N -> [V -> V]]
    PROVE  \E f : Defined(f, N, V, base, next)
<1> DEFINE P(k) == \E f \in [0..k -> V] : f[0] = base /\ \A n \in 1..k : f[n] = next[n][f[n - 1]]
           Bad == {k \in Nat : k <= N /\ ~P(k)}
<1>1. P(0)
  <2> DEFINE f == [n \in 0..0 |-> base]
  <2>1. f \in [0..0 -> V] /\ f[0] = base /\ 1..0 = {}
    OBVIOUS
  <2> HIDE DEF f
  <2> QED BY <2>1
<1>2. ASSUME NEW k \in Nat, k + 1 <= N, P(k) PROVE P(k + 1)
  <2>1. PICK f \in [0..k -> V] : f[0] = base /\ \A n \in 1..k : f[n] = next[n][f[n - 1]]
    BY <1>2
  <2>2. k + 1 \in 1..N /\ k \in 0..k /\ k + 1 - 1 = k /\ k # k + 1 /\ 0 # k + 1
    BY <1>2
  <2> DEFINE new == next[k + 1][f[k]]
             g == [n \in 0..(k + 1) |-> IF n = k + 1 THEN new ELSE f[n]]
  <2>3. new \in V
    BY <2>2
  <2> HIDE DEF new
  <2>4. \A n \in 0..(k + 1) : n = k + 1 \/ n \in 0..k
    OBVIOUS
  <2>5. g \in [0..(k + 1) -> V]
    BY <2>3, <2>4
  <2>6. g[k + 1] = new /\ \A n \in 0..k : g[n] = f[n]
    OBVIOUS
  <2> HIDE DEF g
  <2>7. \A n \in 1..(k + 1) : g[n] = next[n][g[n - 1]]
    <3> SUFFICES ASSUME NEW n \in 1..(k + 1) PROVE g[n] = next[n][g[n - 1]]
      OBVIOUS
    <3>1. CASE n = k + 1
      <4>1. n - 1 = k /\ g[n - 1] = f[k]
        BY <2>2, <2>6, <3>1
      <4> QED BY <2>6, <3>1, <4>1 DEF new
    <3>2. CASE n # k + 1
      <4>1. n \in 1..k /\ n \in 0..k /\ n - 1 \in 0..k
        BY <3>2
      <4> QED BY <2>1, <2>6, <4>1
    <3> QED BY <3>1, <3>2
  <2>8. g[0] = base
    BY <2>1, <2>6
  <2> QED BY <2>5, <2>7, <2>8
<1> HIDE DEF P
<1>3. Bad = {}
  <2> SUFFICES ASSUME Bad # {} PROVE FALSE
    OBVIOUS
  <2>1. PICK n \in Bad : \A m \in Bad : n <= m
    BY LeastIsThere
  <2>2. n # 0
    BY <1>1
  <2>3. n - 1 \in Nat /\ n - 1 <= N /\ ~(n <= n - 1) /\ (n - 1) + 1 = n
    BY <2>2
  <2>4. P(n - 1)
    BY <2>1, <2>3
  <2>5. P((n - 1) + 1)
    BY <1>2, <2>3, <2>4
  <2> QED BY <2>3, <2>5
<1>4. N <= N /\ P(N)
  BY <1>3
<1> QED BY <1>4 DEF P, Defined

-----------------------------------------------------------------------------
(* TTLStore: the entries after an operation are old ones, or the new one,  *)
(* and a key never has two.                                                *)

Entries(store) == {store[i] : i \in DOMAIN store}

OnePerKey(store) == \A i, j \in DOMAIN store : store[i].key = store[j].key => i = j

LEMMA WithoutEntries ==
    ASSUME NEW E, NEW store \in Seq(E), OnePerKey(store), NEW key
    PROVE  /\ Without(store, key) \in Seq(E) /\ OnePerKey(Without(store, key))
           /\ Entries(Without(store, key)) = {e \in Entries(store) : e.key # key}
           /\ Len(Without(store, key)) <= Len(store)
           /\ Places(store, key) # {} => Len(Without(store, key)) = Len(store) - 1
<1>1. CASE Places(store, key) = {}
  BY <1>1 DEF Without, Entries, Places
<1>2. CASE Places(store, key) # {}
  <2> DEFINE p == CHOOSE i \in Places(store, key) : TRUE
             n == Len(store)
             w == SubSeq(store, 1, p - 1) \o SubSeq(store, p + 1, n)
  <2>1. p \in 1..n /\ store[p].key = key /\ n \in Nat /\ DOMAIN store = 1..n
    BY <1>2 DEF Places
  <2>2. Without(store, key) = w
    BY <1>2 DEF Without
  <2> HIDE DEF p
  <2>3. /\ SubSeq(store, 1, p - 1) \in Seq(E) /\ Len(SubSeq(store, 1, p - 1)) = p - 1
        /\ \A i \in 1..(p - 1) : SubSeq(store, 1, p - 1)[i] = store[i]
    <3>1. 1 \in Int /\ p - 1 \in Int /\ \A i \in 1..(p - 1) : store[i] \in E
      BY <2>1
    <3>2. /\ SubSeq(store, 1, p - 1) \in Seq(E)
          /\ Len(SubSeq(store, 1, p - 1)) = IF 1 <= p - 1 THEN (p - 1) - 1 + 1 ELSE 0
          /\ \A i \in 1..((p - 1) - 1 + 1) : SubSeq(store, 1, p - 1)[i] = store[1 + i - 1]
      BY <3>1, SubSeqProperties
    <3> QED BY <2>1, <3>2
  <2>4. /\ SubSeq(store, p + 1, n) \in Seq(E) /\ Len(SubSeq(store, p + 1, n)) = n - p
        /\ \A i \in 1..(n - p) : SubSeq(store, p + 1, n)[i] = store[i + p]
    <3>1. p + 1 \in Int /\ n \in Int /\ \A i \in (p + 1)..n : store[i] \in E
      BY <2>1
    <3>2. /\ SubSeq(store, p + 1, n) \in Seq(E)
          /\ Len(SubSeq(store, p + 1, n)) = IF p + 1 <= n THEN n - (p + 1) + 1 ELSE 0
          /\ \A i \in 1..(n - (p + 1) + 1) : SubSeq(store, p + 1, n)[i] = store[(p + 1) + i - 1]
      BY <3>1, SubSeqProperties
    <3>3. /\ n - (p + 1) + 1 = n - p /\ (IF p + 1 <= n THEN n - (p + 1) + 1 ELSE 0) = n - p
          /\ \A i \in 1..(n - p) : (p + 1) + i - 1 = i + p
      <4>1. p \in Nat /\ p <= n /\ n \in Nat
        BY <2>1
      <4>2. n - (p + 1) + 1 = n - p
        BY <4>1
      <4>3. CASE p + 1 <= n
        BY <4>1, <4>2, <4>3
      <4>4. CASE p = n
        <5>1. ~(p + 1 <= n) /\ n - p = 0
          BY <4>1, <4>4
        <5>2. (IF p + 1 <= n THEN n - (p + 1) + 1 ELSE 0) = n - p
          BY <5>1
        <5>3. \A i \in 1..(n - p) : (p + 1) + i - 1 = i + p
          BY <4>1
        <5> QED BY <4>2, <5>2, <5>3
      <4>5. p + 1 <= n \/ p = n
        BY <4>1
      <4> QED BY <4>3, <4>4, <4>5
    <3> DEFINE b == SubSeq(store, p + 1, n)
    <3>4. b \in Seq(E) /\ Len(b) = n - p
      BY <3>2, <3>3
    <3>5. \A i \in 1..(n - p) : b[i] = store[(p + 1) + i - 1]
      BY <3>2, <3>3
    <3> HIDE DEF b
    <3>6. \A i \in 1..(n - p) : b[i] = store[i + p]
      BY <3>3, <3>5
    <3> QED BY <3>4, <3>6 DEF b
  <2>5. /\ w \in Seq(E) /\ Len(w) = n - 1 /\ DOMAIN w = 1..(n - 1)
        /\ \A i \in 1..(n - 1) : w[i] = IF i < p THEN store[i] ELSE store[i + 1]
    <3> DEFINE a == SubSeq(store, 1, p - 1)
               b == SubSeq(store, p + 1, n)
    <3> HIDE DEF a, b
    <3>1. /\ a \in Seq(E) /\ Len(a) = p - 1 /\ \A i \in 1..(p - 1) : a[i] = store[i]
          /\ b \in Seq(E) /\ Len(b) = n - p /\ \A i \in 1..(n - p) : b[i] = store[i + p]
      BY <2>3, <2>4 DEF a, b
    <3>2. /\ a \o b \in Seq(E) /\ Len(a \o b) = Len(a) + Len(b)
          /\ \A i \in 1..(Len(a) + Len(b)) : (a \o b)[i] = IF i <= Len(a) THEN a[i] ELSE b[i - Len(a)]
      BY <3>1, ConcatProperties
    <3>3. Len(a) + Len(b) = n - 1
      BY <2>1, <3>1
    <3>4. \A i \in 1..(n - 1) : (a \o b)[i] = IF i < p THEN store[i] ELSE store[i + 1]
      <4> SUFFICES ASSUME NEW i \in 1..(n - 1)
                   PROVE  (a \o b)[i] = IF i < p THEN store[i] ELSE store[i + 1]
        OBVIOUS
      <4>1. CASE i < p
        BY <2>1, <3>1, <3>2, <3>3, <4>1
      <4>2. CASE ~(i < p)
        <5>1. i - (p - 1) \in 1..(n - p) /\ (i - (p - 1)) + p = i + 1
          BY <2>1, <4>2
        <5> QED BY <2>1, <3>1, <3>2, <3>3, <4>2, <5>1
      <4> QED BY <4>1, <4>2
    <3>5. w = a \o b
      BY DEF a, b
    <3> DEFINE c == a \o b
    <3>6. c \in Seq(E) /\ Len(c) = n - 1 /\ w = c
      BY <3>2, <3>3, <3>5
    <3> HIDE DEF c, w
    <3>7. DOMAIN c = 1..(n - 1)
      BY <3>6
    <3> QED BY <3>4, <3>6, <3>7 DEF c
  <2> HIDE DEF w
  <2> DEFINE from(i) == IF i < p THEN i ELSE i + 1
  <2>6. \A i \in 1..(n - 1) : from(i) \in 1..n /\ from(i) # p /\ w[i] = store[from(i)]
    BY <2>1, <2>5
  <2>7. \A j \in 1..n : j # p => \E i \in 1..(n - 1) : from(i) = j
    <3> SUFFICES ASSUME NEW j \in 1..n, j # p PROVE \E i \in 1..(n - 1) : from(i) = j
      OBVIOUS
    <3>1. CASE j < p
      BY <2>1, <3>1
    <3>2. CASE j > p
      <4>1. j - 1 \in 1..(n - 1) /\ from(j - 1) = j
        BY <2>1, <3>2
      <4> QED BY <4>1
    <3> QED BY <2>1, <3>1, <3>2
  <2>8. \A i, j \in 1..(n - 1) : from(i) = from(j) => i = j
    BY <2>1
  <2> HIDE DEF from
  <2>9. OnePerKey(w)
    <3> SUFFICES ASSUME NEW i \in 1..(n - 1), NEW j \in 1..(n - 1), w[i].key = w[j].key
                 PROVE  i = j
      BY <2>5 DEF OnePerKey
    <3>1. from(i) \in 1..n /\ from(j) \in 1..n /\ store[from(i)].key = store[from(j)].key
      BY <2>6
    <3>2. from(i) = from(j)
      BY <2>1, <3>1 DEF OnePerKey
    <3> QED BY <2>8, <3>2
  <2>10. \A i \in 1..n : i # p => store[i].key # key
    BY <2>1 DEF OnePerKey
  <2>11. Entries(w) = {e \in Entries(store) : e.key # key}
    <3>1. ASSUME NEW e \in Entries(w) PROVE e \in Entries(store) /\ e.key # key
      <4>1. PICK i \in 1..(n - 1) : e = w[i]
        BY <2>5 DEF Entries
      <4>2. from(i) \in 1..n /\ from(i) # p /\ e = store[from(i)]
        BY <2>6, <4>1
      <4> QED BY <2>1, <2>10, <4>2 DEF Entries
    <3>2. ASSUME NEW e \in Entries(store), e.key # key PROVE e \in Entries(w)
      <4>1. PICK j \in 1..n : e = store[j]
        BY <2>1 DEF Entries
      <4>2. j # p
        BY <2>1, <3>2, <4>1
      <4>3. PICK i \in 1..(n - 1) : from(i) = j
        BY <2>7, <4>2
      <4>4. e = w[i]
        BY <2>6, <4>1, <4>3
      <4> QED BY <2>5, <4>4 DEF Entries
    <3> QED BY <3>1, <3>2
  <2> QED BY <2>1, <2>2, <2>5, <2>9, <2>11
<1> QED BY <1>1, <1>2

\* An entry goes to the end of a store that has none for its key.
LEMMA AppendEntries ==
    ASSUME NEW E, NEW store \in Seq(E), OnePerKey(store), NEW e \in E,
           \A f \in Entries(store) : f.key # e.key
    PROVE  /\ Append(store, e) \in Seq(E) /\ OnePerKey(Append(store, e))
           /\ Entries(Append(store, e)) = Entries(store) \cup {e}
           /\ Len(Append(store, e)) = Len(store) + 1
<1> DEFINE t == Append(store, e)
           n == Len(store)
<1>1. /\ t \in Seq(E) /\ n \in Nat /\ Len(t) = n + 1 /\ t[n + 1] = e
      /\ DOMAIN t = 1..(n + 1) /\ DOMAIN store = 1..n
      /\ \A k \in 1..n : t[k] = store[k]
  OBVIOUS
<1>2. \A k \in 1..n : store[k].key # e.key
  BY <1>1 DEF Entries
<1> HIDE DEF t
<1>3. OnePerKey(t)
  BY <1>1, <1>2 DEF OnePerKey
<1>4. Entries(t) = Entries(store) \cup {e}
  BY <1>1 DEF Entries
<1> QED BY <1>1, <1>3, <1>4 DEF t

LEMMA TailEntries ==
    ASSUME NEW E, NEW store \in Seq(E), OnePerKey(store), Len(store) > 0
    PROVE  /\ Tail(store) \in Seq(E) /\ OnePerKey(Tail(store))
           /\ Entries(Tail(store)) \subseteq Entries(store)
           /\ Len(Tail(store)) = Len(store) - 1
           /\ Len(store) > 1 => store[Len(store)] \in Entries(Tail(store))
<1> DEFINE t == Tail(store)
           n == Len(store)
<1>1. /\ t \in Seq(E) /\ n \in Nat /\ Len(t) = n - 1
      /\ DOMAIN t = 1..(n - 1) /\ DOMAIN store = 1..n
      /\ \A k \in 1..(n - 1) : t[k] = store[k + 1] /\ k + 1 \in 1..n
  OBVIOUS
<1> HIDE DEF t
<1>2. OnePerKey(t)
  <2> SUFFICES ASSUME NEW i \in 1..(n - 1), NEW j \in 1..(n - 1), t[i].key = t[j].key
               PROVE  i = j
    BY <1>1 DEF OnePerKey
  <2>1. i + 1 \in 1..n /\ j + 1 \in 1..n /\ store[i + 1].key = store[j + 1].key
    BY <1>1
  <2>2. i + 1 = j + 1
    BY <1>1, <2>1 DEF OnePerKey
  <2> QED BY <1>1, <2>2
<1>3. Entries(t) \subseteq Entries(store)
  BY <1>1 DEF Entries
<1>4. n > 1 => store[n] \in Entries(t)
  <2> SUFFICES ASSUME n > 1 PROVE store[n] \in Entries(t)
    OBVIOUS
  <2>1. n - 1 \in 1..(n - 1) /\ t[n - 1] = store[(n - 1) + 1]
    BY <1>1
  <2> QED BY <1>1, <2>1 DEF Entries
<1> QED BY <1>1, <1>2, <1>3, <1>4 DEF t

\* put
LEMMA PutEntries ==
    ASSUME NEW E, NEW store \in Seq(E), OnePerKey(store), NEW max \in Nat \ {0}, Len(store) <= max,
           NEW key, NEW value, NEW now, Entry(key, value, now) \in E
    PROVE  LET new == AfterPut(store, key, value, now, max) IN
           /\ new \in Seq(E) /\ OnePerKey(new) /\ Len(new) <= max
           /\ Entry(key, value, now) \in Entries(new)
           /\ \A e \in Entries(new) : \/ e = Entry(key, value, now)
                                      \/ e \in Entries(store) /\ e.key # key
<1> DEFINE w == Without(store, key)
           e == Entry(key, value, now)
           full == Append(w, e)
<1>1. e.key = key
  BY DEF Entry
<1>2. w \in Seq(E) /\ OnePerKey(w) /\ Len(w) <= Len(store) /\ Entries(w) = {f \in Entries(store) : f.key # key}
  BY WithoutEntries
<1> HIDE DEF w, e
<1>3. /\ full \in Seq(E) /\ OnePerKey(full) /\ Entries(full) = Entries(w) \cup {e} /\ Len(full) = Len(w) + 1
  BY <1>1, <1>2, AppendEntries DEF e
<1>4. full[Len(full)] = e /\ Len(w) \in Nat /\ Len(store) \in Nat
  BY <1>2, <1>3
<1>5. AfterPut(store, key, value, now, max) = IF Len(full) > max THEN Tail(full) ELSE full
  BY DEF AfterPut, w, e
<1> HIDE DEF full
<1>6. CASE Len(full) > max
  <2>1. /\ Tail(full) \in Seq(E) /\ OnePerKey(Tail(full)) /\ Entries(Tail(full)) \subseteq Entries(full)
        /\ Len(Tail(full)) = Len(full) - 1 /\ e \in Entries(Tail(full))
    BY <1>3, <1>4, <1>6, TailEntries
  <2> QED BY <1>2, <1>3, <1>4, <1>5, <1>6, <2>1 DEF e
<1>7. CASE ~(Len(full) > max)
  BY <1>2, <1>3, <1>4, <1>5, <1>7 DEF e
<1> QED BY <1>6, <1>7

\* get
LEMMA GetEntries ==
    ASSUME NEW E, NEW store \in Seq(E), OnePerKey(store), NEW key, NEW now, NEW ttl
    PROVE  LET new == AfterGet(store, key, now, ttl) IN
           /\ new \in Seq(E) /\ OnePerKey(new) /\ Len(new) <= Len(store)
           /\ Entries(new) \subseteq Entries(store)
<1> DEFINE w == Without(store, key)
           e == store[CHOOSE i \in Live(store, key, now, ttl) : TRUE]
<1>1. /\ w \in Seq(E) /\ OnePerKey(w) /\ Len(w) <= Len(store) /\ Entries(w) = {f \in Entries(store) : f.key # key}
      /\ Places(store, key) # {} => Len(w) = Len(store) - 1
  BY WithoutEntries
<1>2. CASE Live(store, key, now, ttl) = {}
  BY <1>1, <1>2 DEF AfterGet
<1>3. CASE Live(store, key, now, ttl) # {}
  <2> DEFINE place == CHOOSE i \in Live(store, key, now, ttl) : TRUE
  <2>1. e \in E /\ e.key = key /\ Places(store, key) # {} /\ e \in Entries(store)
    <3>1. place \in Live(store, key, now, ttl) /\ e = store[place]
      BY <1>3
    <3> HIDE DEF place, e
    <3>2. place \in DOMAIN store /\ store[place].key = key /\ place \in Places(store, key)
      BY <3>1 DEF Live, Places
    <3> QED BY <3>1, <3>2 DEF Entries
  <2>2. AfterGet(store, key, now, ttl) = Append(w, e)
    BY <1>3 DEF AfterGet
  <2> HIDE DEF w, e
  <2>3. /\ Append(w, e) \in Seq(E) /\ OnePerKey(Append(w, e)) /\ Entries(Append(w, e)) = Entries(w) \cup {e}
        /\ Len(Append(w, e)) = Len(w) + 1
    BY <1>1, <2>1, AppendEntries
  <2>4. Len(store) \in Nat
    OBVIOUS
  <2> QED BY <1>1, <2>1, <2>2, <2>3, <2>4
<1> QED BY <1>2, <1>3

LEMMA LookupEntries ==
    ASSUME NEW store, NEW key, NEW now, NEW ttl, NEW value \in Lookup(store, key, now, ttl)
    PROVE  \E e \in Entries(store) : e.key = key /\ e.value = value
BY DEF Lookup, Live, Places, Entries
=============================================================================
