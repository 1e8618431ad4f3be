--------------------------- MODULE RedactionProofs ---------------------------
(***************************************************************************)
(* Proofs about the placeholders, about the sweep that puts them into a    *)
(* text, and about the file that keeps them.                               *)
(*                                                                         *)
(* Pseudonymizer, for any values, types and suffixes, and for both kinds   *)
(* of store: a process that has a store for itself hands out placeholders  *)
(* that are reversible and stable.  A candidate is Canonical for a value   *)
(* when every candidate before it is taken by another value. All           *)
(* placeholders that are stored, under check or handed out are canonical,  *)
(* and remain so because what is taken stays taken by the same value       *)
(* (PutKeeps): a process that is alone saves only what it has just found   *)
(* free. A value has only one canonical placeholder that stands for it,    *)
(* which is why it is stable.                                              *)
(*                                                                         *)
(* Overlaps, for a text of any length, any registry of patterns and        *)
(* whatever they match: the redacted text is restored to the text that     *)
(* came in and shows nothing of the values that were accepted, and a match *)
(* loses only to a stronger one.  Sorted lists every match once            *)
(* (InOrderHasAll), what is accepted does not overlap and beats what is    *)
(* not (ResolvedIs), and the output is a chain of pieces from the first    *)
(* character to the last (Chain), which shows no character of a value      *)
(* (Discreet) and has the placeholder of each (Hides).                     *)
(*                                                                         *)
(* FileStore, while flushes do not overlap, for any mappings, any number   *)
(* of threads and whatever fails or dies: the file can always be parsed    *)
(* and never loses what it has.  The reason is that of the threads one at  *)
(* most is in a flush (Apart), that what it renames is its own snapshot    *)
(* (WrittenWhole), and that a snapshot has all that the file has           *)
(* (NothingForgotten).                                                     *)
(*                                                                         *)
(* Last, the types of the three side by side (MCRedaction), which hold for *)
(* any number of processes and whether flushes overlap or not.             *)
(***************************************************************************)
EXTENDS MCRedaction, BasicProofs

OneProcess == \A p, q \in Process : p = q

(* The candidates before this one are taken by other values.               *)
Canonical(ph, v) ==
    /\ ph.suffix = Suffix[ph.type][v]
    /\ \A k \in Nat : k < ph.n => Original([ph EXCEPT !.n = k]) \notin {Nothing, v}

Mapped ==
    \A v \in Value : \A ph \in existing[v] : Original(ph) = v /\ Canonical(ph, v)

Jobs ==
    \A p \in Process : job[p].pc # "idle" =>
        /\ job[p].ph.type = job[p].type
        /\ Canonical(job[p].ph, job[p].value)
        /\ job[p].pc = "putting" => Free(job[p].ph, job[p].value)

Issues ==
    \A i \in issued :
        /\ i.ph.type = i.type
        /\ Canonical(i.ph, i.value)
        /\ Original(i.ph) = i.value

IInv == TypeOK /\ Mapped /\ Jobs /\ Issues

-----------------------------------------------------------------------------
(* Lemmas.                                                                 *)

(* A placeholder without a counter is canonical.                           *)
LEMMA BaseCanonical ==
    ASSUME NEW t \in Type, NEW v \in Value
    PROVE  Base(t, v) \in Placeholder /\ Base(t, v).type = t /\ Canonical(Base(t, v), v)
<1>1. Base(t, v) \in Placeholder /\ Base(t, v).type = t /\ Base(t, v).suffix = Suffix[t][v]
      /\ Base(t, v).n = 0
  BY PseudonymizerAssumption DEF Base, Placeholder
<1> QED
  BY <1>1 DEF Canonical

(* A value that is stored under a placeholder is a value.                  *)
LEMMA OriginalType ==
    ASSUME TypeOK, NEW ph
    PROVE  Original(ph) \in Value \cup {Nothing}
BY DEF TypeOK, Original

(* The next candidate is canonical, if this one is and is taken.           *)
LEMMA NextCanonical ==
    ASSUME NEW ph \in Placeholder, NEW v \in Value, Canonical(ph, v), ~Free(ph, v)
    PROVE  /\ NextCandidate(ph) \in Placeholder
           /\ NextCandidate(ph).type = ph.type
           /\ Canonical(NextCandidate(ph), v)
<1> DEFINE next == NextCandidate(ph)
<1>1. next \in Placeholder /\ next.type = ph.type /\ next.suffix = ph.suffix /\ next.n = ph.n + 1
  BY DEF NextCandidate, Placeholder
<1>2. ASSUME NEW k \in Nat, k < next.n
      PROVE  Original([next EXCEPT !.n = k]) \notin {Nothing, v}
  <2>1. [next EXCEPT !.n = k] = [ph EXCEPT !.n = k]
    BY DEF NextCandidate, Placeholder
  <2>2. CASE k = ph.n
    <3>1. [ph EXCEPT !.n = k] = ph
      BY <2>2 DEF Placeholder
    <3> QED
      BY <2>1, <3>1 DEF Free
  <2>3. CASE k < ph.n
    BY <2>1, <2>3 DEF Canonical
  <2> QED
    BY <1>1, <1>2, <2>2, <2>3 DEF Placeholder
<1> QED
  BY <1>1, <1>2 DEF Canonical

(* A put of a placeholder that is free for the value leaves every taken    *)
(* placeholder with the value it stands for.                               *)
LEMMA PutKeeps ==
    ASSUME TypeOK, NEW ph \in Placeholder, NEW v \in Value, Free(ph, v), Put(ph, v)
    PROVE  /\ Original(ph)' = v
           /\ \A x : Original(x) # Nothing => Original(x)' = Original(x)
<1>1. CASE table /\ ph \in DOMAIN original
  <2>1. UNCHANGED original
    BY <1>1 DEF Put
  <2>2. Original(ph) = v
    BY <1>1, PseudonymizerAssumption DEF TypeOK, Free, Original
  <2> QED
    BY <2>1, <2>2 DEF Original
<1>2. CASE ~(table /\ ph \in DOMAIN original)
  <2>1. original' = [x \in DOMAIN original \cup {ph} |-> IF x = ph THEN v ELSE original[x]]
    BY <1>2 DEF Put
  <2>2. \A x : Original(x)' = IF x = ph THEN v ELSE Original(x)
    BY <2>1 DEF Original
  <2> QED
    BY <2>2 DEF Free
<1> QED
  BY <1>1, <1>2

(* What is taken stays taken, so what is canonical stays canonical.        *)
LEMMA CanonicalKept ==
    ASSUME NEW ph, NEW v, Canonical(ph, v),
           \A x : Original(x) # Nothing => Original(x)' = Original(x)
    PROVE  Canonical(ph, v)'
BY DEF Canonical

(* Only a put changes what the store says.                                 *)
LEMMA StoreSame ==
    ASSUME UNCHANGED original
    PROVE  /\ \A x : Original(x)' = Original(x)
           /\ \A x, v : Canonical(x, v) => Canonical(x, v)'
           /\ \A x, v : Free(x, v) => Free(x, v)'
<1>1. \A x : Original(x)' = Original(x)
  BY DEF Original
<1>2. \A x, v : Canonical(x, v) => Canonical(x, v)'
  BY <1>1, CanonicalKept
<1>3. \A x, v : Free(x, v) => Free(x, v)'
  BY <1>1 DEF Free
<1> QED
  BY <1>1, <1>2, <1>3

-----------------------------------------------------------------------------
(* The inductive invariant.                                                *)

LEMMA InitIInv == Init => IInv
BY DEF Init, IInv, TypeOK, Mapped, Jobs, Issues, Idle

LEMMA NextIInv == OneProcess /\ IInv /\ [Next]_vars => IInv'
<1> SUFFICES ASSUME OneProcess, IInv, [Next]_vars PROVE IInv'
  OBVIOUS
<1> USE DEF IInv
<1>1. CASE UNCHANGED vars
  BY <1>1, StoreSame DEF vars, TypeOK, Mapped, Jobs, Issues
<1>2. ASSUME NEW p \in Process, NEW t \in Type, NEW v \in Value, Begin(p, t, v)
      PROVE  IInv'
  <2> DEFINE new == [pc |-> "looking", type |-> t, value |-> v, ph |-> Base(t, v)]
  <2>1. job' = [job EXCEPT ![p] = new] /\ UNCHANGED <<table, original, existing, issued>>
    BY <1>2 DEF Begin
  <2>2. new \in Call
    BY BaseCanonical DEF Call
  <2>3. TypeOK'
    BY <2>1, <2>2 DEF TypeOK
  <2>4. Jobs'
    BY <2>1, BaseCanonical, StoreSame DEF TypeOK, Jobs
  <2>5. Mapped' /\ Issues'
    BY <2>1, StoreSame DEF Mapped, Issues
  <2> QED
    BY <2>3, <2>4, <2>5
<1>3. ASSUME NEW p \in Process, Look(p)
      PROVE  IInv'
  <2>1. job[p] \in Call /\ job[p].pc = "looking" /\ UNCHANGED <<table, original, existing>>
    BY <1>3 DEF Look, TypeOK, Idle, Call
  <2>2. CASE job' = [job EXCEPT ![p].pc = "checking"] /\ UNCHANGED issued
    <3>1. [job[p] EXCEPT !.pc = "checking"] \in Call
      BY <2>1 DEF Call
    <3>2. job' = [job EXCEPT ![p] = [job[p] EXCEPT !.pc = "checking"]]
      BY <2>2
    <3>3. TypeOK'
      BY <2>1, <2>2, <3>1, <3>2 DEF TypeOK
    <3>4. Jobs'
      BY <2>1, <3>2, StoreSame DEF TypeOK, Jobs, Call
    <3>5. Mapped' /\ Issues'
      BY <2>1, <2>2, StoreSame DEF Mapped, Issues
    <3> QED
      BY <3>3, <3>4, <3>5
  <2>3. ASSUME NEW ph \in existing[job[p].value], ph.type = job[p].type, Return(p, ph)
        PROVE  IInv'
    <3> DEFINE i == [type |-> job[p].type, value |-> job[p].value, ph |-> ph]
    <3>1. job' = [job EXCEPT ![p] = Idle] /\ issued' = issued \cup {i}
      BY <2>3 DEF Return
    <3>2. job[p].value \in Value /\ job[p].type \in Type /\ ph \in Placeholder
      BY <2>1 DEF TypeOK, Call
    <3>3. TypeOK'
      BY <2>1, <3>1, <3>2 DEF TypeOK
    <3>4. Mapped' /\ Jobs'
      BY <2>1, <3>1, StoreSame DEF TypeOK, Mapped, Jobs, Idle
    <3>5. Original(ph) = i.value /\ Canonical(ph, i.value)
      BY <3>2 DEF Mapped
    <3>6. Issues'
      BY <2>1, <2>3, <3>1, <3>5, StoreSame DEF Issues
    <3> QED
      BY <3>3, <3>4, <3>6
  <2> QED
    BY <1>3, <2>2, <2>3 DEF Look, Reusable
<1>4. ASSUME NEW p \in Process, Check(p)
      PROVE  IInv'
  <2>1. job[p] \in Call /\ job[p].pc = "checking" /\ UNCHANGED <<table, original, existing, issued>>
    BY <1>4 DEF Check, TypeOK, Idle, Call
  <2>2. /\ job[p].ph \in Placeholder /\ job[p].value \in Value
        /\ job[p].ph.type = job[p].type /\ Canonical(job[p].ph, job[p].value)
    BY <2>1 DEF Jobs, Call
  <2>3. PICK new \in Call :
          /\ job' = [job EXCEPT ![p] = new]
          /\ new.type = job[p].type /\ new.value = job[p].value
          /\ new.ph.type = new.type /\ Canonical(new.ph, new.value)
          /\ new.pc = "putting" => Free(new.ph, new.value)
    <3>1. CASE Free(job[p].ph, job[p].value)
      <4> DEFINE new == [job[p] EXCEPT !.pc = "putting"]
      <4>1. new \in Call /\ job' = [job EXCEPT ![p] = new]
        BY <1>4, <2>1, <3>1 DEF Check, Call
      <4>2. new.ph = job[p].ph /\ new.value = job[p].value /\ new.type = job[p].type
        BY <2>1 DEF Call
      <4> QED
        BY <4>1, <4>2, <2>2, <3>1
    <3>2. CASE ~Free(job[p].ph, job[p].value)
      <4> DEFINE next == NextCandidate(job[p].ph)
                 new  == [job[p] EXCEPT !.ph = next]
      <4>1. next \in Placeholder /\ next.type = job[p].type /\ Canonical(next, job[p].value)
        BY <2>2, <3>2, NextCanonical
      <4>2. /\ new \in Call /\ job' = [job EXCEPT ![p] = new] /\ new.pc = "checking"
            /\ new.ph = next /\ new.value = job[p].value /\ new.type = job[p].type
        BY <1>4, <2>1, <3>2, <4>1 DEF Check, Call
      <4> QED
        BY <4>1, <4>2
    <3> QED
      BY <3>1, <3>2
  <2>4. TypeOK'
    BY <2>1, <2>3 DEF TypeOK
  <2>5. Jobs'
    BY <2>1, <2>3, StoreSame DEF TypeOK, Jobs
  <2>6. Mapped' /\ Issues'
    BY <2>1, StoreSame DEF Mapped, Issues
  <2> QED
    BY <2>4, <2>5, <2>6
<1>5. ASSUME NEW p \in Process, Save(p)
      PROVE  IInv'
  <2>0. job[p] \in Call /\ job[p].pc = "putting"
    BY <1>5 DEF Save, TypeOK, Idle, Call
  <2> PICK ph \in Placeholder, v \in Value, t \in Type :
         ph = job[p].ph /\ v = job[p].value /\ t = job[p].type
    BY <2>0 DEF Call
  <2> DEFINE i == [type |-> t, value |-> v, ph |-> ph]
  <2>1. /\ Put(ph, v) /\ table' = table /\ job' = [job EXCEPT ![p] = Idle] /\ issued' = issued \cup {i}
    BY <1>5 DEF Save, Return
  <2>2. ph.type = t /\ Canonical(ph, v) /\ Free(ph, v)
    BY <2>0 DEF Jobs
  <2>3. Original(ph)' = v /\ \A x : Original(x) # Nothing => Original(x)' = Original(x)
    BY <2>1, <2>2, PutKeeps
  <2>4. \A x, w : Canonical(x, w) => Canonical(x, w)'
    BY <2>3, CanonicalKept
  <2>5. TypeOK'
    BY <2>1, <2>2 DEF TypeOK, Put
  <2>6. Mapped'
    <3>1. \A w \in Value : existing'[w] \subseteq existing[w] \cup (IF w = v THEN {ph} ELSE {})
      BY <2>1, <2>2 DEF TypeOK, Put
    <3>2. ASSUME NEW w \in Value, NEW x \in existing[w]
          PROVE  Original(x)' = w /\ Canonical(x, w)'
      <4>1. Original(x) = w /\ Canonical(x, w)
        BY DEF Mapped
      <4> QED
        BY <4>1, <2>3, <2>4, PseudonymizerAssumption
    <3>3. Original(ph)' = v /\ Canonical(ph, v)'
      BY <2>2, <2>3, <2>4
    <3> QED
      BY <3>1, <3>2, <3>3 DEF Mapped
  <2>7. Jobs'
    <3>1. \A q \in Process : job'[q].pc = "idle"
      BY <2>1 DEF OneProcess, TypeOK, Idle
    <3> QED
      BY <3>1 DEF Jobs
  <2>8. Issues'
    <3>1. ASSUME NEW j \in issued
          PROVE  j.ph.type = j.type /\ Canonical(j.ph, j.value)' /\ Original(j.ph)' = j.value
      <4>1. j.value # Nothing
        BY PseudonymizerAssumption DEF TypeOK
      <4>2. j.ph.type = j.type /\ Canonical(j.ph, j.value) /\ Original(j.ph) = j.value
        BY DEF Issues
      <4> QED
        BY <4>1, <4>2, <2>3, <2>4
    <3>2. i.ph.type = i.type /\ Canonical(i.ph, i.value)' /\ Original(i.ph)' = i.value
      BY <2>2, <2>3, <2>4
    <3> QED
      BY <2>1, <3>1, <3>2 DEF Issues
  <2> QED
    BY <2>5, <2>6, <2>7, <2>8
<1>6. ASSUME NEW p \in Process, Crash(p)
      PROVE  IInv'
  <2>1. job' = [job EXCEPT ![p] = Idle] /\ UNCHANGED <<table, original, existing, issued>>
    BY <1>6 DEF Crash
  <2>2. TypeOK'
    BY <2>1 DEF TypeOK
  <2>3. Mapped' /\ Jobs' /\ Issues'
    BY <2>1, StoreSame DEF TypeOK, Mapped, Jobs, Issues, Idle
  <2> QED
    BY <2>2, <2>3
<1> QED
  BY <1>1, <1>2, <1>3, <1>4, <1>5, <1>6 DEF Next, Step

(* The inductive invariant holds throughout.                               *)
LEMMA Invariance == ASSUME OneProcess PROVE Spec => []IInv
<1>1. OneProcess
  OBVIOUS
<1> QED
  BY <1>1, InitIInv, NextIInv, PTL DEF Spec

-----------------------------------------------------------------------------
(* The theorems.                                                           *)

(* A process that has its store for itself hands out placeholders that are *)
(* restored to the values they were handed out for, whatever collides.     *)
THEOREM AlwaysReversible == ASSUME OneProcess PROVE Spec => []Reversible
<1>1. IInv => Reversible
  BY DEF IInv, Issues, Reversible
<1> QED
  BY <1>1, Invariance, PTL

(* ... and gives a value the same placeholder every time, per type.        *)
THEOREM AlwaysStable == ASSUME OneProcess PROVE Spec => []Stable
<1>1. IInv => Stable
  <2> SUFFICES ASSUME IInv, NEW i \in issued, NEW j \in issued,
                      i.type = j.type, i.value = j.value
               PROVE  i.ph = j.ph
    BY DEF Stable
  <2>1. /\ i.ph \in Placeholder /\ j.ph \in Placeholder
        /\ i.ph.type = j.ph.type /\ i.ph.suffix = j.ph.suffix
    BY DEF IInv, TypeOK, Issues, Canonical
  <2>2. ~(i.ph.n < j.ph.n)
    <3> SUFFICES ASSUME i.ph.n < j.ph.n PROVE FALSE
      OBVIOUS
    <3>1. [j.ph EXCEPT !.n = i.ph.n] = i.ph
      BY <2>1 DEF Placeholder
    <3> QED
      BY <2>1, <3>1 DEF IInv, Issues, Canonical, Placeholder
  <2>3. ~(j.ph.n < i.ph.n)
    <3> SUFFICES ASSUME j.ph.n < i.ph.n PROVE FALSE
      OBVIOUS
    <3>1. [i.ph EXCEPT !.n = j.ph.n] = j.ph
      BY <2>1 DEF Placeholder
    <3> QED
      BY <2>1, <3>1 DEF IInv, Issues, Canonical, Placeholder
  <2> QED
    BY <2>1, <2>2, <2>3 DEF Placeholder
<1> QED
  BY <1>1, Invariance, PTL

-----------------------------------------------------------------------------
(* What a sort and a recursive definition give. *)

\* A strict order of all elements of a set.
Orders(R, S) ==
    /\ \A x \in S : <<x, x>> \notin R
    /\ \A x, y \in S : x # y => <<x, y>> \in R \/ <<y, x>> \in R
    /\ \A x, y, z \in S : <<x, y>> \in R /\ <<y, z>> \in R => <<x, z>> \in R

\* The first n elements of s are in the order R.
InOrder(s, R, n) == \A i, j \in 1..n : i < j => <<s[i], s[j]>> \in R

\* A list in order that is as long as the set leaves no element out.
LEMMA InOrderHasAll ==
    ASSUME NEW S, IsFiniteSet(S), NEW R, Orders(R, S),
           NEW s \in [1..Cardinality(S) -> S], InOrder(s, R, Cardinality(S))
    PROVE  \A x \in S : \E i \in 1..Cardinality(S) : s[i] = x
<1> DEFINE n == Cardinality(S)
<1>1. n \in Nat
  BY FS_CardinalityType
<1>2. \A i, j \in 1..n : s[i] = s[j] => i = j
  <2> SUFFICES ASSUME NEW i \in 1..n, NEW j \in 1..n, s[i] = s[j], i # j PROVE FALSE
    OBVIOUS
  <2>1. <<s[i], s[j]>> \in R \/ <<s[j], s[i]>> \in R
    BY <1>1 DEF InOrder
  <2>2. s[i] \in S /\ s[j] \in S
    OBVIOUS
  <2> QED BY <2>1, <2>2 DEF Orders
<1>3. s \in Injection(1..n, S)
  BY <1>2 DEF Injection, IsInjective
<1>4. Cardinality(1..n) = n
  BY <1>1, FS_Interval
<1>5. s \in Surjection(1..n, S)
  BY <1>3, <1>4, FS_Injection
<1> QED BY <1>5 DEF Surjection

\* A finite set has such a list: by induction on its size, with the last
\* element taken off.
LEMMA OrderExists ==
    ASSUME NEW S, IsFiniteSet(S), NEW R, Orders(R, S)
    PROVE  \E s \in [1..Cardinality(S) -> S] : InOrder(s, R, Cardinality(S))
<1> DEFINE P(n) == \A T \in SUBSET S : Cardinality(T) = n => \E s \in [1..n -> T] : InOrder(s, R, n)
           Bad == {n \in Nat : ~P(n)}
<1>1. \A T \in SUBSET S : IsFiniteSet(T) /\ Cardinality(T) \in Nat /\ Orders(R, T)
  <2> SUFFICES ASSUME NEW T \in SUBSET S PROVE IsFiniteSet(T) /\ Cardinality(T) \in Nat /\ Orders(R, T)
    OBVIOUS
  <2>1. IsFiniteSet(T) /\ Cardinality(T) \in Nat
    BY FS_Subset, FS_CardinalityType
  <2>2. Orders(R, T)
    BY DEF Orders
  <2> QED BY <2>1, <2>2
<1>2. P(0)
  <2> SUFFICES ASSUME NEW T \in SUBSET S, Cardinality(T) = 0
               PROVE  \E s \in [1..0 -> T] : InOrder(s, R, 0)
    OBVIOUS
  <2>1. [i \in 1..0 |-> 0] \in [1..0 -> T] /\ InOrder([i \in 1..0 |-> 0], R, 0)
    BY DEF InOrder
  <2> QED BY <2>1
<1>3. ASSUME NEW n \in Nat, P(n) PROVE P(n + 1)
  <2> SUFFICES ASSUME NEW T \in SUBSET S, Cardinality(T) = n + 1
               PROVE  \E s \in [1..(n + 1) -> T] : InOrder(s, R, n + 1)
    OBVIOUS
  <2>1. \A x \in T : T \ {x} \in SUBSET S /\ Cardinality(T \ {x}) = n
    <3>1. \A x \in T : T \ {x} \in SUBSET S /\ Cardinality(T \ {x}) = Cardinality(T) - 1
      BY <1>1, FS_RemoveElement
    <3>2. n + 1 - 1 = n
      OBVIOUS
    <3> QED BY <3>1, <3>2
  \* The last element.
  <2>2. PICK z \in T : \A y \in T : y # z => <<y, z>> \in R
    <3>1. PICK x \in T : TRUE
      <4>1. T # {}
        BY FS_EmptySet
      <4> QED BY <4>1
    <3> DEFINE U == T \ {x}
    <3>2. U \in SUBSET S /\ Cardinality(U) = n
      BY <2>1
    <3> HIDE DEF U
    <3>3. PICK s \in [1..n -> U] : InOrder(s, R, n)
      BY <1>3, <3>2
    <3>4. \A y \in U : \E i \in 1..n : s[i] = y
      BY <1>1, <3>2, <3>3, InOrderHasAll
    <3>5. CASE n = 0
      <4>1. U = {}
        BY <1>1, <3>2, <3>5, FS_EmptySet
      <4> QED BY <4>1 DEF U
    <3>6. CASE n # 0
      <4> DEFINE y == s[n]
      <4>1. y \in U /\ \A w \in U : w # y => <<w, y>> \in R
        <5>1. n \in 1..n
          BY <3>6
        <5>2. ASSUME NEW w \in U, w # y PROVE <<w, y>> \in R
          <6>1. PICK i \in 1..n : s[i] = w
            BY <3>4
          <6>2. i < n
            BY <5>2, <6>1
          <6> QED BY <3>3, <5>1, <6>1, <6>2 DEF InOrder
        <5> QED BY <5>1, <5>2
      <4> HIDE DEF y
      <4>2. y \in T /\ x # y /\ \A w \in T : w # x => w \in U
        BY <4>1 DEF U
      <4>3. CASE <<x, y>> \in R
        BY <4>1, <4>2, <4>3
      <4>4. CASE <<y, x>> \in R
        <5>1. ASSUME NEW w \in T, w # x PROVE <<w, x>> \in R
          BY <1>1, <4>1, <4>2, <4>4, <5>1 DEF Orders
        <5> QED BY <5>1
      <4> QED BY <1>1, <4>2, <4>3, <4>4 DEF Orders
    <3> QED BY <3>5, <3>6
  <2>3. PICK s \in [1..n -> T \ {z}] : InOrder(s, R, n)
    BY <1>3, <2>1
  <2> DEFINE t == [i \in 1..(n + 1) |-> IF i = n + 1 THEN z ELSE s[i]]
  <2>4. \A i \in 1..n : i \in 1..(n + 1) /\ i # n + 1 /\ s[i] \in T /\ s[i] # z
    OBVIOUS
  <2>5. \A i \in 1..(n + 1) : i = n + 1 \/ i \in 1..n
    OBVIOUS
  <2>6. t \in [1..(n + 1) -> T]
    BY <2>4, <2>5
  <2>7. InOrder(t, R, n + 1)
    <3> SUFFICES ASSUME NEW i \in 1..(n + 1), NEW j \in 1..(n + 1), i < j
                 PROVE  <<t[i], t[j]>> \in R
      BY DEF InOrder
    <3>1. i \in 1..n /\ t[i] = s[i]
      OBVIOUS
    <3>2. CASE j = n + 1
      BY <2>2, <2>4, <3>1, <3>2
    <3>3. CASE j # n + 1
      <4>1. j \in 1..n /\ t[j] = s[j]
        BY <3>3
      <4> QED BY <2>3, <3>1, <4>1 DEF InOrder
    <3> QED BY <3>2, <3>3
  <2> QED BY <2>6, <2>7
<1> HIDE DEF P
<1>4. Bad = {}
  <2> SUFFICES ASSUME Bad # {} PROVE FALSE
    OBVIOUS
  <2>1. PICK n \in Bad : \A m \in Bad : n <= m
    BY LeastIsThere
  <2>2. n # 0
    BY <1>2
  <2>3. n - 1 \in Nat /\ ~(n <= n - 1)
    BY <2>2
  <2>4. P(n - 1)
    BY <2>1, <2>3
  <2>5. P((n - 1) + 1)
    BY <1>3, <2>3, <2>4
  <2>6. (n - 1) + 1 = n
    OBVIOUS
  <2> QED BY <2>5, <2>6
<1>5. Cardinality(S) \in Nat /\ P(Cardinality(S))
  BY <1>1, <1>4
<1> QED BY <1>5 DEF P

\* Sorted lists every element, in order.
LEMMA SortedIs ==
    ASSUME NEW S, IsFiniteSet(S), NEW R, Orders(R, S)
    PROVE  LET s == Sorted(S, R) IN
           /\ Cardinality(S) \in Nat
           /\ s \in [1..Cardinality(S) -> S]
           /\ \A i, j \in 1..Cardinality(S) : i < j => <<s[i], s[j]>> \in R
           /\ \A x \in S : \E i \in 1..Cardinality(S) : s[i] = x
<1> DEFINE s == Sorted(S, R)
           n == Cardinality(S)
<1>1. n \in Nat
  BY FS_CardinalityType
<1>2. \E t \in [1..n -> S] : \A i, j \in DOMAIN t : i < j => <<t[i], t[j]>> \in R
  <2>1. PICK t \in [1..n -> S] : InOrder(t, R, n)
    BY OrderExists
  <2>2. DOMAIN t = 1..n
    OBVIOUS
  <2> QED BY <2>1, <2>2 DEF InOrder
<1>3. s \in [1..n -> S] /\ \A i, j \in DOMAIN s : i < j => <<s[i], s[j]>> \in R
  BY <1>2 DEF Sorted
<1> HIDE DEF s
<1>4. InOrder(s, R, n)
  BY <1>3 DEF InOrder
<1>5. \A x \in S : \E i \in 1..n : s[i] = x
  BY <1>3, <1>4, InOrderHasAll
<1> QED BY <1>1, <1>3, <1>5 DEF s

-----------------------------------------------------------------------------
\* The matches of one pattern do not overlap.
Found ==
    /\ matches \subseteq Match /\ IsFiniteSet(matches)
    /\ \A m, n \in matches : m # n /\ m.pattern = n.pattern => ~Intersects(m, n)

\* The order in which _resolve_overlaps considers the matches.
Strength == {p \in matches \X matches : Stronger(p[1], p[2])}

\* Where the parts of a match are.
LEMMA MatchTypes ==
    ASSUME NEW m \in Match
    PROVE  /\ m.start \in Nat \ {0} /\ m.end \in Nat /\ m.valStart \in Nat /\ m.valEnd \in Nat
           /\ m.start <= m.valStart /\ m.valStart < m.valEnd /\ m.valEnd <= m.end /\ m.end <= Length + 1
           /\ m.pattern \in Nat /\ Priority(m) \in Nat /\ Size(m) \in Nat \ {0}
<1>1. m.pattern \in DOMAIN Patterns /\ DOMAIN Patterns \subseteq Nat /\ \A i \in DOMAIN Patterns : Patterns[i].priority \in Nat
  <2>1. m.pattern \in DOMAIN Patterns
    BY DEF Match
  <2> DEFINE D == [priority : Nat, group : BOOLEAN]
  <2>2. Patterns \in Seq(D) /\ \A d \in D : d.priority \in Nat
    BY OverlapsAssumption
  <2> HIDE DEF D
  <2>3. DOMAIN Patterns \subseteq Nat /\ \A i \in DOMAIN Patterns : Patterns[i] \in D
    BY <2>2
  <2> QED BY <2>1, <2>2, <2>3
<1>2. Length \in Nat
  BY OverlapsAssumption
<1>3. /\ m.start \in Nat \ {0} /\ m.end \in Nat /\ m.valStart \in Nat /\ m.valEnd \in Nat
      /\ m.start <= m.valStart /\ m.valStart < m.valEnd /\ m.valEnd <= m.end /\ m.end <= Length + 1
  BY <1>2 DEF Match, Text
<1> QED BY <1>1, <1>3 DEF Priority, Size

\* It puts any two matches in order, since those of a pattern do not overlap.
LEMMA StrengthOrders ==
    ASSUME Found
    PROVE  Orders(Strength, matches)
<1>1. \A x, y \in matches : <<x, y>> \in Strength <=> Stronger(x, y)
  BY DEF Strength
<1>2. \A x \in matches : ~Stronger(x, x)
  BY MatchTypes DEF Found, Stronger
<1>3. \A x, y, z \in matches : Stronger(x, y) /\ Stronger(y, z) => Stronger(x, z)
  <2> SUFFICES ASSUME NEW x \in matches, NEW y \in matches, NEW z \in matches, Stronger(x, y), Stronger(y, z)
               PROVE  Stronger(x, z)
    OBVIOUS
  <2>1. x \in Match /\ y \in Match /\ z \in Match
    BY DEF Found
  <2> QED BY <2>1, MatchTypes DEF Stronger
<1>4. \A x, y \in matches : x # y => Stronger(x, y) \/ Stronger(y, x)
  <2> SUFFICES ASSUME NEW x \in matches, NEW y \in matches, x # y, ~Stronger(x, y), ~Stronger(y, x)
               PROVE  FALSE
    OBVIOUS
  <2>1. x \in Match /\ y \in Match
    BY DEF Found
  <2>2. x.start = y.start /\ Size(x) = Size(y) /\ x.pattern = y.pattern
    BY <2>1, MatchTypes DEF Stronger
  <2>3. Intersects(x, y)
    BY <2>1, <2>2, MatchTypes DEF Intersects, Size
  <2> QED BY <2>2, <2>3 DEF Found
<1> QED BY <1>1, <1>2, <1>3, <1>4 DEF Orders

-----------------------------------------------------------------------------
(* _resolve_overlaps *)

\* No two of the matches overlap.
Separate(S) == \A a, b \in S : a # b => ~Intersects(a, b)

\* What is accepted after each match: the recursion of Resolved, unfolded.
LEMMA ResolvedSteps ==
    ASSUME Found
    PROVE  \E taken \in [0..Cardinality(matches) -> SUBSET matches] :
             LET order == Sorted(matches, Strength) IN
             /\ taken[0] = {}
             /\ \A n \in 1..Cardinality(matches) :
                   taken[n] = IF \E a \in taken[n - 1] : Intersects(a, order[n]) THEN taken[n - 1]
                              ELSE taken[n - 1] \cup {order[n]}
             /\ Resolved = taken[Cardinality(matches)]
<1> DEFINE N == Cardinality(matches)
           order == Sorted(matches, Strength)
           add(S, n) == IF \E a \in S : Intersects(a, order[n]) THEN S ELSE S \cup {order[n]}
           next == [n \in 1..N |-> [S \in SUBSET matches |-> add(S, n)]]
           taken == CHOOSE f : f = [n \in 0..N |-> IF n = 0 THEN {} ELSE add(f[n - 1], n)]
<1>1. N \in Nat /\ order \in [1..N -> matches]
  BY StrengthOrders, SortedIs DEF Found
<1>2. Resolved = taken[N]
  BY DEF Resolved, Strength
<1> HIDE DEF N, order
<1>3. next \in [1..N -> [SUBSET matches -> SUBSET matches]]
  <2> SUFFICES ASSUME NEW n \in 1..N, NEW S \in SUBSET matches PROVE add(S, n) \in SUBSET matches
    OBVIOUS
  <2> QED BY <1>1
<1>4. \A n \in 1..N : \A S \in SUBSET matches : next[n][S] = add(S, n)
  OBVIOUS
<1> HIDE DEF next, add
<1>5. PICK f \in [0..N -> SUBSET matches] : f[0] = {} /\ \A n \in 1..N : f[n] = next[n][f[n - 1]]
  <2> DEFINE V == SUBSET matches
             base == {}
  <2>1. N \in Nat /\ base \in V /\ next \in [1..N -> [V -> V]]
    BY <1>1, <1>3
  <2> HIDE DEF V, base
  <2>2. \E f : Defined(f, N, V, base, next)
    BY <2>1, RecursionDefines
  <2> QED BY <2>2 DEF Defined, V, base
<1>6. f = [n \in 0..N |-> IF n = 0 THEN {} ELSE add(f[n - 1], n)]
  <2>2. \A n \in 0..N : n # 0 => n \in 1..N /\ n - 1 \in 0..N
    BY <1>1
  <2>3. \A n \in 0..N : f[n] = IF n = 0 THEN {} ELSE add(f[n - 1], n)
    <3> SUFFICES ASSUME NEW n \in 0..N PROVE f[n] = IF n = 0 THEN {} ELSE add(f[n - 1], n)
      OBVIOUS
    <3>1. CASE n = 0
      BY <1>5, <3>1
    <3>2. CASE n # 0
      <4>1. n \in 1..N /\ f[n - 1] \in SUBSET matches
        BY <2>2, <3>2
      <4> QED BY <1>4, <1>5, <3>2, <4>1
    <3> QED BY <3>1, <3>2
  <2>4. f = [n \in 0..N |-> f[n]]
    OBVIOUS
  <2> QED BY <2>3, <2>4
<1>7. taken = [n \in 0..N |-> IF n = 0 THEN {} ELSE add(taken[n - 1], n)]
  BY <1>6
<1> HIDE DEF taken
<1>8. \A n \in 0..N : taken[n] = IF n = 0 THEN {} ELSE add(taken[n - 1], n)
  BY <1>7, Zenon
<1>9. \A n \in 1..N : n \in 0..N /\ n # 0
  BY <1>1
<1>10. taken[0] = {} /\ \A n \in 1..N : taken[n] = add(taken[n - 1], n)
  BY <1>1, <1>8, <1>9
<1>11. taken \in [0..N -> SUBSET matches]
  <2> DEFINE Bad == {n \in Nat : n <= N /\ taken[n] \notin SUBSET matches}
  <2>1. Bad = {}
    <3> SUFFICES ASSUME Bad # {} PROVE FALSE
      OBVIOUS
    <3>1. PICK n \in Bad : \A m \in Bad : n <= m
      BY LeastIsThere
    <3>2. n # 0 /\ n \in Nat /\ n <= N
      BY <1>10
    <3>3. n - 1 \in Nat /\ n - 1 <= N /\ ~(n <= n - 1) /\ n \in 1..N
      BY <1>1, <3>2
    <3>4. taken[n - 1] \in SUBSET matches
      BY <3>1, <3>3
    <3>5. next[n][taken[n - 1]] \in SUBSET matches
      BY <1>3, <3>3, <3>4
    <3>6. taken[n] \in SUBSET matches
      BY <1>4, <1>10, <3>3, <3>4, <3>5
    <3> QED BY <3>6
  <2>2. \A n \in 0..N : taken[n] \in SUBSET matches
    BY <1>1, <2>1
  <2>3. taken = [n \in 0..N |-> taken[n]]
    BY <1>7, <1>8
  <2> QED BY <2>2, <2>3
<1> QED BY <1>2, <1>10, <1>11 DEF N, order, add

\* What is accepted does not overlap, and what is not accepted overlaps a
\* stronger one: that one was accepted before.
LEMMA ResolvedIs ==
    ASSUME Found
    PROVE  /\ Resolved \subseteq matches /\ Separate(Resolved)
           /\ \A m \in matches \ Resolved : \E a \in Resolved : Intersects(a, m) /\ Stronger(a, m)
<1> DEFINE N == Cardinality(matches)
           order == Sorted(matches, Strength)
<1>1. /\ N \in Nat /\ order \in [1..N -> matches]
      /\ \A i, j \in 1..N : i < j => <<order[i], order[j]>> \in Strength
      /\ \A m \in matches : \E i \in 1..N : order[i] = m
  BY StrengthOrders, SortedIs DEF Found
<1>2. PICK taken \in [0..N -> SUBSET matches] :
             /\ taken[0] = {}
             /\ \A n \in 1..N : taken[n] = IF \E a \in taken[n - 1] : Intersects(a, order[n]) THEN taken[n - 1]
                                           ELSE taken[n - 1] \cup {order[n]}
             /\ Resolved = taken[N]
  BY ResolvedSteps
<1> HIDE DEF N, order
<1> DEFINE Q(n) == /\ Separate(taken[n])
                   /\ \A a \in taken[n] : \E i \in 1..n : a = order[i]
                   /\ \A k \in 0..n : taken[k] \subseteq taken[n]
           Bad == {n \in Nat : n <= N /\ ~Q(n)}
<1>3. Q(0)
  <2>1. \A k \in 0..0 : k = 0
    OBVIOUS
  <2> QED BY <1>2, <2>1 DEF Separate
<1>4. ASSUME NEW n \in 1..N, Q(n - 1) PROVE Q(n)
  <2> DEFINE new == order[n]
             old == taken[n - 1]
  <2>1. n \in Nat \ {0} /\ n - 1 \in 0..N /\ old \in SUBSET matches /\ new \in matches
    BY <1>1, <1>2
  <2>2. /\ Separate(old) /\ \A a \in old : \E i \in 1..(n - 1) : a = order[i]
        /\ \A k \in 0..(n - 1) : taken[k] \subseteq old
    BY <1>4
  <2>3. taken[n] = IF \E a \in old : Intersects(a, new) THEN old ELSE old \cup {new}
    BY <1>2
  <2> HIDE DEF old
  <2>4. \A a, b \in matches : Intersects(a, b) => Intersects(b, a)
    BY MatchTypes DEF Intersects, Found
  <2>5. Separate(taken[n])
    BY <2>1, <2>2, <2>3, <2>4 DEF Separate
  <2>6. \A a \in taken[n] : \E i \in 1..n : a = order[i]
    <3>1. \A i \in 1..(n - 1) : i \in 1..n
      BY <2>1
    <3>2. n \in 1..n
      BY <2>1
    <3> QED BY <2>2, <2>3, <3>1, <3>2
  <2>7. \A k \in 0..n : taken[k] \subseteq taken[n]
    <3>1. \A k \in 0..n : k = n \/ k \in 0..(n - 1)
      BY <2>1
    <3>2. old \subseteq taken[n]
      BY <2>3
    <3> QED BY <2>2, <3>1, <3>2
  <2> QED BY <2>5, <2>6, <2>7
<1> HIDE DEF Q
<1>5. Bad = {}
  <2> SUFFICES ASSUME Bad # {} PROVE FALSE
    OBVIOUS
  <2>1. PICK n \in Bad : \A m \in Bad : n <= m
    BY LeastIsThere
  <2>2. n # 0 /\ n \in Nat /\ n <= N
    BY <1>3
  <2>3. n - 1 \in Nat /\ n - 1 <= N /\ ~(n <= n - 1) /\ n \in 1..N
    BY <1>1, <2>2
  <2>4. Q(n - 1)
    BY <2>1, <2>3
  <2> QED BY <1>4, <2>3, <2>4
<1>6. \A n \in 0..N : Q(n)
  BY <1>1, <1>5
<1>7. Resolved \subseteq matches /\ Separate(Resolved)
  BY <1>1, <1>2, <1>6 DEF Q
<1>8. ASSUME NEW m \in matches, m \notin Resolved
      PROVE  \E a \in Resolved : Intersects(a, m) /\ Stronger(a, m)
  <2>1. PICK n \in 1..N : order[n] = m
    BY <1>1
  <2>2. n \in 0..N /\ n - 1 \in 0..N /\ N \in 0..N /\ n \in 0..n
    BY <1>1
  <2>3. m \notin taken[n] /\ taken[n - 1] \subseteq Resolved
    <3>1. taken[n] \subseteq Resolved /\ taken[n - 1] \subseteq Resolved
      BY <1>2, <1>6, <2>2 DEF Q
    <3> QED BY <1>8, <3>1
  <2>4. PICK a \in taken[n - 1] : Intersects(a, m)
    BY <1>2, <2>1, <2>3
  <2>5. PICK i \in 1..(n - 1) : a = order[i]
    BY <1>6, <2>2 DEF Q
  <2>6. i \in 1..N /\ i < n
    BY <1>1
  <2>7. <<a, m>> \in Strength
    BY <1>1, <2>1, <2>5, <2>6
  <2> QED BY <2>3, <2>4, <2>7 DEF Strength
<1> QED BY <1>7, <1>8

\* Hence nothing loses to a weaker one.
LEMMA ResolvedLoses ==
    ASSUME Found, accepted = Resolved
    PROVE  LosesOnlyToStronger
<1> SUFFICES ASSUME NEW m \in matches \ accepted
             PROVE  \E a \in accepted :
                      /\ m.start < a.end /\ m.end > a.start
                      /\ \/ Priority(a) > Priority(m)
                         \/ Priority(a) = Priority(m) /\ Size(a) >= Size(m)
  BY DEF LosesOnlyToStronger
<1>1. PICK a \in accepted : Intersects(a, m) /\ Stronger(a, m)
  BY ResolvedIs
<1>2. a \in Match /\ m \in Match
  BY ResolvedIs DEF Found
<1> QED BY <1>1, <1>2, MatchTypes DEF Intersects, Stronger

-----------------------------------------------------------------------------
(* _apply *)

Piece == [from : Nat, to : Nat, hidden : BOOLEAN]

\* Pieces that follow one another from a to b, and of the values in C show nothing.
Chain(p, a, b) ==
    /\ p \in Seq(Piece) /\ a \in Nat /\ b \in Nat
    /\ p = <<>> => a = b
    /\ p # <<>> => p[1].from = a /\ p[Len(p)].to = b
    /\ \A i \in 1..Len(p) : p[i].from < p[i].to
    /\ \A i \in 1..(Len(p) - 1) : p[i].to = p[i + 1].from

\* The character is part of a value; a text shows none of them; it has the
\* placeholder of a match.
Shows(c, C) == \E m \in C : c \in m.valStart..(m.valEnd - 1)
Discreet(p, C) == \A i \in 1..Len(p) : ~p[i].hidden => ~Shows(p[i].from, C)
Hides(p, m) == \E i \in 1..Len(p) : p[i] = Hidden(m.valStart, m.valEnd)[1]

\* Plain text is a piece for each character.
LEMMA PlainType ==
    ASSUME NEW a \in Nat, NEW b \in Nat
    PROVE  /\ Plain(a, b) \in Seq(Piece)
           /\ Len(Plain(a, b)) = IF a <= b THEN b - a ELSE 0
           /\ \A i \in 1..(b - a) : Plain(a, b)[i] = [from |-> a + i - 1, to |-> a + i, hidden |-> FALSE]
<1> DEFINE n == IF a <= b THEN b - a ELSE 0
           piece(i) == [from |-> a + i - 1, to |-> a + i, hidden |-> FALSE]
           s == [i \in 1..n |-> piece(i)]
<1>1. n \in Nat /\ 1..n = 1..(b - a)
  OBVIOUS
<1>2. \A i \in 1..n : piece(i) \in Piece
  <2> SUFFICES ASSUME NEW i \in 1..n PROVE piece(i) \in Piece
    OBVIOUS
  <2>1. a + i - 1 \in Nat /\ a + i \in Nat
    BY <1>1
  <2> QED BY <2>1 DEF Piece
<1>3. Plain(a, b) = s
  BY <1>1 DEF Plain
<1> HIDE DEF n
<1>4. s \in Seq(Piece)
  <2> HIDE DEF piece
  <2> QED BY <1>1, <1>2, IsASeq
<1>5. Len(s) = n /\ \A i \in 1..n : s[i] = piece(i)
  BY <1>1
<1> QED BY <1>1, <1>3, <1>4, <1>5 DEF n

\* The text between two places leads from one to the other.
LEMMA PlainChain ==
    ASSUME NEW a \in Nat, NEW b \in Nat, a <= b, NEW C, \A c \in a..(b - 1) : ~Shows(c, C)
    PROVE  Chain(Plain(a, b), a, b) /\ Discreet(Plain(a, b), C)
<1> DEFINE p == Plain(a, b)
           n == b - a
<1>1. /\ p \in Seq(Piece) /\ n \in Nat /\ Len(p) = n
      /\ \A i \in 1..n : p[i].from = a + i - 1 /\ p[i].to = a + i /\ p[i].hidden = FALSE
  <2>1. p \in Seq(Piece) /\ n \in Nat /\ Len(p) = n
    <3>1. Plain(a, b) \in Seq(Piece) /\ Len(Plain(a, b)) = IF a <= b THEN b - a ELSE 0
      BY PlainType
    <3>2. b - a \in Nat
      OBVIOUS
    <3> QED BY <3>1, <3>2
  <2>2. \A i \in 1..n : p[i] = [from |-> a + i - 1, to |-> a + i, hidden |-> FALSE]
    BY PlainType
  <2> HIDE DEF p, n
  <2>3. \A i \in 1..n : p[i].from = a + i - 1 /\ p[i].to = a + i /\ p[i].hidden = FALSE
    <3> SUFFICES ASSUME NEW i \in 1..n PROVE p[i].from = a + i - 1 /\ p[i].to = a + i /\ p[i].hidden = FALSE
      OBVIOUS
    <3>1. p[i] = [from |-> a + i - 1, to |-> a + i, hidden |-> FALSE]
      BY <2>2
    <3> DEFINE f == a + i - 1
               u == a + i
               no == FALSE
    <3>2. p[i] = [from |-> f, to |-> u, hidden |-> no]
      BY <3>1
    <3> HIDE DEF f, u, no
    <3>3. p[i].from = f /\ p[i].to = u /\ p[i].hidden = no
      BY <3>2
    <3> QED BY <3>3 DEF f, u, no
  <2> QED BY <2>1, <2>3
<1>2. (p = <<>> <=> n = 0) /\ b = a + n
  BY <1>1
<1> HIDE DEF p, n
<1>3. \A i \in 1..n : a + i - 1 < a + i /\ a + i - 1 \in a..(b - 1)
  BY <1>1, <1>2
<1>4. n # 0 => 1 \in 1..n /\ n \in 1..n /\ a + 1 - 1 = a
  BY <1>1
<1>5. \A i \in 1..(n - 1) : i \in 1..n /\ i + 1 \in 1..n /\ a + (i + 1) - 1 = a + i
  BY <1>1
<1>6. Chain(p, a, b)
  BY <1>1, <1>2, <1>3, <1>4, <1>5 DEF Chain
<1>7. Discreet(p, C)
  BY <1>1, <1>3 DEF Discreet
<1> QED BY <1>6, <1>7 DEF p

\* So does a placeholder.
LEMMA HiddenChain ==
    ASSUME NEW a \in Nat, NEW b \in Nat, a < b, NEW C
    PROVE  Chain(Hidden(a, b), a, b) /\ Discreet(Hidden(a, b), C)
<1> DEFINE x == [from |-> a, to |-> b, hidden |-> TRUE]
<1>1. x \in Piece /\ x.from = a /\ x.to = b /\ x.hidden = TRUE
  BY DEF Piece
<1>2. Hidden(a, b) = <<x>>
  BY DEF Hidden
<1> HIDE DEF x
<1> DEFINE p == <<x>>
<1>3. p \in Seq(Piece) /\ Len(p) = 1 /\ p[1] = x /\ p # <<>>
  BY <1>1
<1>4. 1..Len(p) = {1} /\ 1..(Len(p) - 1) = {}
  BY <1>3
<1> HIDE DEF p
<1>5. Chain(p, a, b)
  BY <1>1, <1>3, <1>4 DEF Chain
<1>6. Discreet(p, C)
  BY <1>1, <1>3, <1>4 DEF Discreet
<1> QED BY <1>2, <1>5, <1>6 DEF p

\* One after the other, they lead from the first place to the last, show
\* nothing if neither does, and hide what either hides.
LEMMA ChainsJoin ==
    ASSUME NEW p, NEW q, NEW a, NEW b, NEW c, Chain(p, a, b), Chain(q, b, c)
    PROVE  /\ Chain(p \o q, a, c)
           /\ \A C : Discreet(p, C) /\ Discreet(q, C) => Discreet(p \o q, C)
           /\ \A m : Hides(p, m) \/ Hides(q, m) => Hides(p \o q, m)
<1> DEFINE k == Len(p)
           l == Len(q)
           r == p \o q
<1>1. p \in Seq(Piece) /\ q \in Seq(Piece) /\ k \in Nat /\ l \in Nat
  BY DEF Chain
<1>2. r \in Seq(Piece) /\ Len(r) = k + l /\ \A i \in 1..(k + l) : r[i] = IF i <= k THEN p[i] ELSE q[i - k]
  BY <1>1, ConcatProperties
<1>3. (p = <<>> <=> k = 0) /\ (q = <<>> <=> l = 0) /\ (r = <<>> <=> k + l = 0)
  BY <1>1, <1>2
<1>4. /\ a \in Nat /\ b \in Nat /\ c \in Nat
      /\ k = 0 => a = b
      /\ k # 0 => p[1].from = a /\ p[k].to = b
      /\ \A i \in 1..k : p[i].from < p[i].to
      /\ \A i \in 1..(k - 1) : p[i].to = p[i + 1].from
      /\ l = 0 => b = c
      /\ l # 0 => q[1].from = b /\ q[l].to = c
      /\ \A i \in 1..l : q[i].from < q[i].to
      /\ \A i \in 1..(l - 1) : q[i].to = q[i + 1].from
  BY <1>3 DEF Chain
<1> HIDE DEF k, l, r
<1>5. \A i \in 1..k : i \in 1..(k + l) /\ r[i] = p[i]
  BY <1>1, <1>2
<1>6. \A j \in 1..l : j + k \in 1..(k + l) /\ r[j + k] = q[j]
  <2> SUFFICES ASSUME NEW j \in 1..l PROVE j + k \in 1..(k + l) /\ r[j + k] = q[j]
    OBVIOUS
  <2>1. j + k \in 1..(k + l) /\ ~(j + k <= k) /\ (j + k) - k = j
    BY <1>1
  <2> QED BY <1>2, <2>1
<1>7. \A i \in 1..(k + l) : i \in 1..k \/ \E j \in 1..l : i = j + k
  <2> SUFFICES ASSUME NEW i \in 1..(k + l), i \notin 1..k PROVE \E j \in 1..l : i = j + k
    OBVIOUS
  <2>1. i - k \in 1..l /\ i = (i - k) + k
    BY <1>1
  <2> QED BY <2>1
<1>8. k + l # 0 => r[1].from = a /\ r[k + l].to = c
  <2>1. CASE k = 0
    <3>1. l # 0 /\ k + l # 0 => 1 \in 1..l /\ l \in 1..l /\ 1 + k = 1 /\ l + k = k + l
      BY <1>1, <2>1
    <3>2. k + l # 0 => l # 0
      BY <1>1, <2>1
    <3> QED BY <1>4, <1>6, <2>1, <3>1, <3>2
  <2>2. CASE k # 0
    <3>1. r[1] = p[1] /\ r[k] = p[k]
      <4>1. 1 \in 1..k /\ k \in 1..k
        BY <1>1, <2>2
      <4> QED BY <1>5, <4>1
    <3>2. CASE l = 0
      <4>1. k + l = k
        BY <1>1, <3>2
      <4> QED BY <1>4, <2>2, <3>1, <3>2, <4>1
    <3>3. CASE l # 0
      <4>1. l \in 1..l /\ l + k = k + l
        BY <1>1, <3>3
      <4>2. r[k + l] = q[l]
        BY <1>6, <4>1
      <4> QED BY <1>4, <2>2, <3>1, <3>3, <4>2
    <3> QED BY <3>2, <3>3
  <2> QED BY <2>1, <2>2
<1>9. \A i \in 1..(k + l) : r[i].from < r[i].to
  <2> SUFFICES ASSUME NEW i \in 1..(k + l) PROVE r[i].from < r[i].to
    OBVIOUS
  <2>1. CASE i \in 1..k
    BY <1>4, <1>5, <2>1
  <2>2. CASE \E j \in 1..l : i = j + k
    BY <1>4, <1>6, <2>2
  <2> QED BY <1>7, <2>1, <2>2
<1>10. \A i \in 1..(k + l - 1) : r[i].to = r[i + 1].from
  <2> SUFFICES ASSUME NEW i \in 1..(k + l - 1) PROVE r[i].to = r[i + 1].from
    OBVIOUS
  <2>1. CASE i < k
    <3>1. i \in 1..(k - 1) /\ i \in 1..k /\ i + 1 \in 1..k
      BY <1>1, <2>1
    <3> QED BY <1>4, <1>5, <3>1
  <2>2. CASE i = k
    <3>1. k # 0 /\ l # 0 /\ k \in 1..k /\ 1 \in 1..l /\ 1 + k = i + 1
      BY <1>1, <2>2
    <3>2. r[i] = p[k] /\ r[i + 1] = q[1]
      BY <1>5, <1>6, <2>2, <3>1
    <3> QED BY <1>4, <3>1, <3>2
  <2>3. CASE i > k
    <3> DEFINE j == i - k
    <3>1. j \in 1..(l - 1) /\ j \in 1..l /\ j + 1 \in 1..l /\ j + k = i /\ (j + 1) + k = i + 1
      BY <1>1, <2>3
    <3> HIDE DEF j
    <3>2. r[i] = q[j] /\ r[i + 1] = q[j + 1]
      BY <1>6, <3>1
    <3> QED BY <1>4, <3>1, <3>2
  <2> QED BY <1>1, <2>1, <2>2, <2>3
<1>11. k + l = 0 => a = c
  <2>1. k + l = 0 => k = 0 /\ l = 0
    BY <1>1
  <2> QED BY <1>4, <2>1
<1>12. Chain(r, a, c)
  <2> DEFINE n == k + l
  <2>1. /\ r \in Seq(Piece) /\ a \in Nat /\ c \in Nat /\ Len(r) = n
        /\ r = <<>> => a = c
        /\ r # <<>> => r[1].from = a /\ r[n].to = c
    BY <1>2, <1>3, <1>4, <1>8, <1>11
  <2>2. \A i \in 1..n : r[i].from < r[i].to
    BY <1>9
  <2>3. \A i \in 1..(n - 1) : r[i].to = r[i + 1].from
    BY <1>1, <1>10
  <2> HIDE DEF n
  <2> QED BY <2>1, <2>2, <2>3 DEF Chain
<1>13. ASSUME NEW C, Discreet(p, C), Discreet(q, C) PROVE Discreet(r, C)
  <2> SUFFICES ASSUME NEW i \in 1..(k + l), ~r[i].hidden PROVE ~Shows(r[i].from, C)
    BY <1>2 DEF Discreet
  <2>1. CASE i \in 1..k
    BY <1>5, <1>13, <2>1 DEF Discreet, k
  <2>2. CASE \E j \in 1..l : i = j + k
    BY <1>6, <1>13, <2>2 DEF Discreet, l
  <2> QED BY <1>7, <2>1, <2>2
<1>14. ASSUME NEW m, Hides(p, m) \/ Hides(q, m) PROVE Hides(r, m)
  <2> DEFINE x == Hidden(m.valStart, m.valEnd)[1]
  <2>1. (\E i \in 1..k : p[i] = x) \/ (\E j \in 1..l : q[j] = x)
    BY <1>14 DEF Hides, k, l
  <2> HIDE DEF x
  <2>2. \E i \in 1..(k + l) : r[i] = x
    BY <1>5, <1>6, <2>1
  <2> QED BY <1>2, <2>2 DEF Hides, x
<1> QED BY <1>12, <1>13, <1>14 DEF r

-----------------------------------------------------------------------------
\* Matches to replace: they do not overlap.
Chosen(C) == C \subseteq Match /\ IsFiniteSet(C) /\ Separate(C)

\* A match with its placeholder leads from its start to its end.
LEMMA ReplacementChain ==
    ASSUME NEW C, Chosen(C), NEW m \in C
    PROVE  /\ Chain(Replacement(m), m.start, m.end)
           /\ Discreet(Replacement(m), C) /\ Hides(Replacement(m), m)
<1> DEFINE s == m.start
           e == m.end
           v == m.valStart
           w == m.valEnd
           before == Plain(s, v)
           value == Hidden(v, w)
           after == Plain(w, e)
<1>1. /\ s \in Nat /\ e \in Nat /\ v \in Nat /\ w \in Nat
      /\ s <= v /\ v < w /\ w <= e
  BY MatchTypes DEF Chosen
<1>2. ASSUME NEW c \in Nat, s <= c, c < e, ~(v <= c /\ c < w)
      PROVE  ~Shows(c, C)
  <2> SUFFICES ASSUME NEW o \in C, c \in o.valStart..(o.valEnd - 1) PROVE FALSE
    BY DEF Shows
  <2>1. /\ o.start \in Nat /\ o.end \in Nat /\ o.valStart \in Nat /\ o.valEnd \in Nat
        /\ o.start <= o.valStart /\ o.valEnd <= o.end
    BY MatchTypes DEF Chosen
  <2>2. o.valStart <= c /\ c < o.valEnd
    BY <2>1
  <2>3. o # m
    BY <1>2, <2>2
  <2>4. Intersects(o, m)
    BY <1>1, <1>2, <2>1, <2>2 DEF Intersects
  <2> QED BY <2>3, <2>4 DEF Chosen, Separate
<1> HIDE DEF s, e, v, w
<1>3. Chain(before, s, v) /\ Discreet(before, C)
  <2>1. \A c \in s..(v - 1) : ~Shows(c, C)
    BY <1>1, <1>2
  <2> QED BY <1>1, <2>1, PlainChain
<1>4. Chain(value, v, w) /\ Discreet(value, C) /\ Hides(value, m)
  <2>1. Hides(value, m)
    <3> DEFINE x == [from |-> v, to |-> w, hidden |-> TRUE]
    <3>1. value = <<x>>
      BY DEF Hidden
    <3> HIDE DEF x, value
    <3>2. 1 \in 1..Len(value)
      BY <3>1
    <3>3. value = Hidden(m.valStart, m.valEnd)
      BY DEF value, v, w
    <3> QED BY <3>2, <3>3 DEF Hides
  <2> QED BY <1>1, <2>1, HiddenChain
<1>5. Chain(after, w, e) /\ Discreet(after, C)
  <2>1. \A c \in w..(e - 1) : ~Shows(c, C)
    BY <1>1, <1>2
  <2> QED BY <1>1, <2>1, PlainChain
<1>6. Replacement(m) = before \o value \o after
  BY DEF Replacement, s, e, v, w
<1> HIDE DEF before, value, after
<1>7. Chain(before \o value, s, w) /\ Discreet(before \o value, C) /\ Hides(before \o value, m)
  BY <1>3, <1>4, ChainsJoin
<1>8. Chain(before \o value \o after, s, e) /\ Discreet(before \o value \o after, C)
      /\ Hides(before \o value \o after, m)
  BY <1>5, <1>7, ChainsJoin
<1> QED BY <1>6, <1>8 DEF s, e

\* The order in which _apply replaces the matches.
Starts(C) == {p \in C \X C : p[1].start < p[2].start}

\* In the order of their starts, a match ends before the next one starts.
LEMMA StartsOrder ==
    ASSUME NEW C, Chosen(C)
    PROVE  LET order == Sorted(C, Starts(C)) IN
           /\ Cardinality(C) \in Nat /\ order \in [1..Cardinality(C) -> C]
           /\ \A m \in C : \E i \in 1..Cardinality(C) : order[i] = m
           /\ \A i, j \in 1..Cardinality(C) : i < j => order[i].end <= order[j].start
<1> DEFINE N == Cardinality(C)
           order == Sorted(C, Starts(C))
<1>1. \A x, y \in C : <<x, y>> \in Starts(C) <=> x.start < y.start
  BY DEF Starts
<1>2. \A x \in C : x.start \in Nat /\ x.end \in Nat /\ x.start < x.end
  <2> SUFFICES ASSUME NEW x \in C PROVE x.start \in Nat /\ x.end \in Nat /\ x.start < x.end
    OBVIOUS
  <2>1. x \in Match
    BY DEF Chosen
  <2> QED BY <2>1, MatchTypes
<1>3. \A x, y \in C : x # y => x.end <= y.start \/ y.end <= x.start
  <2> SUFFICES ASSUME NEW x \in C, NEW y \in C, x # y PROVE x.end <= y.start \/ y.end <= x.start
    OBVIOUS
  <2>1. ~Intersects(x, y)
    BY DEF Chosen, Separate
  <2> QED BY <1>2, <2>1 DEF Intersects
<1>4. Orders(Starts(C), C)
  BY <1>1, <1>2, <1>3 DEF Orders
<1>5. /\ N \in Nat /\ order \in [1..N -> C]
      /\ \A i, j \in 1..N : i < j => <<order[i], order[j]>> \in Starts(C)
      /\ \A m \in C : \E i \in 1..N : order[i] = m
  <2>1. IsFiniteSet(C)
    BY DEF Chosen
  <2> QED BY <1>4, <2>1, SortedIs
<1> HIDE DEF N, order
<1>6. \A i, j \in 1..N : i < j => order[i].end <= order[j].start
  <2> SUFFICES ASSUME NEW i \in 1..N, NEW j \in 1..N, i < j PROVE order[i].end <= order[j].start
    OBVIOUS
  <2>1. order[i] \in C /\ order[j] \in C /\ order[i].start < order[j].start
    BY <1>1, <1>5
  <2>2. order[i] # order[j]
    BY <1>2, <2>1
  <2> QED BY <1>2, <1>3, <2>1, <2>2
<1> QED BY <1>5, <1>6 DEF N, order

\* The cursor and the parts after each match: the recursion of Applied, unfolded.
LEMMA AppliedSteps ==
    ASSUME NEW C, Chosen(C)
    PROVE  \E done : LET order == Sorted(C, Starts(C)) IN
             /\ done[0] = [cursor |-> 1, pieces |-> <<>>]
             /\ \A n \in 1..Cardinality(C) :
                   done[n] = [cursor |-> order[n].end,
                              pieces |-> done[n - 1].pieces \o Plain(done[n - 1].cursor, order[n].start)
                                            \o Replacement(order[n])]
             /\ Applied(C) = done[Cardinality(C)].pieces \o Plain(done[Cardinality(C)].cursor, Length + 1)
<1> DEFINE N == Cardinality(C)
           order == Sorted(C, Starts(C))
           V == [cursor : Nat, pieces : Seq(Piece)]
           base == [cursor |-> 1, pieces |-> <<>>]
           add(d, n) == [cursor |-> order[n].end,
                         pieces |-> d.pieces \o Plain(d.cursor, order[n].start) \o Replacement(order[n])]
           next == [n \in 1..N |-> [d \in V |-> add(d, n)]]
           done == CHOOSE f : f = [n \in 0..N |-> IF n = 0 THEN base ELSE add(f[n - 1], n)]
<1>1. N \in Nat /\ order \in [1..N -> C]
  BY StartsOrder
<1>2. Applied(C) = done[N].pieces \o Plain(done[N].cursor, Length + 1)
  BY DEF Applied, Starts
<1> HIDE DEF N, order
<1>3. base \in V
  OBVIOUS
<1>4. \A n \in 1..N : \A d \in V : add(d, n) \in V
  <2> SUFFICES ASSUME NEW n \in 1..N, NEW d \in V PROVE add(d, n) \in V
    OBVIOUS
  <2> DEFINE m == order[n]
             a == d.pieces
             b == Plain(d.cursor, m.start)
             c == Replacement(m)
  <2>1. m \in C /\ m \in Match
    BY <1>1 DEF Chosen
  <2>2. m.start \in Nat /\ m.end \in Nat
    BY <2>1, MatchTypes
  <2>3. a \in Seq(Piece) /\ d.cursor \in Nat
    OBVIOUS
  <2>4. b \in Seq(Piece)
    BY <2>2, <2>3, PlainType
  <2>5. c \in Seq(Piece)
    BY <2>1, ReplacementChain DEF Chain
  <2> HIDE DEF a, b, c, m
  <2>6. a \o b \o c \in Seq(Piece)
    <3>1. a \o b \in Seq(Piece)
      BY <2>3, <2>4, ConcatProperties
    <3> QED BY <2>5, <3>1, ConcatProperties
  <2> DEFINE new == a \o b \o c
             stop == m.end
  <2>7. add(d, n) = [cursor |-> stop, pieces |-> new]
    BY DEF a, b, c, m
  <2>8. new \in Seq(Piece) /\ stop \in Nat
    BY <2>2, <2>6
  <2> HIDE DEF new, stop, add
  <2> QED BY <2>7, <2>8
<1>5. next \in [1..N -> [V -> V]]
  <2> HIDE DEF V, add
  <2> QED BY <1>4
<1>6. \A n \in 1..N : \A d \in V : next[n][d] = add(d, n)
  <2> HIDE DEF V, add
  <2> QED OBVIOUS
<1> HIDE DEF V, base, next, add
<1>7. PICK f : Defined(f, N, V, base, next)
  BY <1>1, <1>3, <1>5, RecursionDefines
<1>8. f = [n \in 0..N |-> IF n = 0 THEN base ELSE add(f[n - 1], n)]
  <2>1. f \in [0..N -> V] /\ f[0] = base /\ \A n \in 1..N : f[n] = next[n][f[n - 1]]
    BY <1>7 DEF Defined
  <2>2. \A n \in 0..N : n # 0 => n \in 1..N /\ n - 1 \in 0..N
    BY <1>1
  <2>3. \A n \in 0..N : f[n] = IF n = 0 THEN base ELSE add(f[n - 1], n)
    <3> SUFFICES ASSUME NEW n \in 0..N PROVE f[n] = IF n = 0 THEN base ELSE add(f[n - 1], n)
      OBVIOUS
    <3>1. CASE n = 0
      BY <2>1, <3>1
    <3>2. CASE n # 0
      <4>1. n \in 1..N /\ f[n - 1] \in V
        BY <2>1, <2>2, <3>2
      <4> QED BY <1>6, <2>1, <3>2, <4>1
    <3> QED BY <3>1, <3>2
  <2>4. f = [n \in 0..N |-> f[n]]
    BY <2>1
  <2> QED BY <2>3, <2>4
<1>9. done = [n \in 0..N |-> IF n = 0 THEN base ELSE add(done[n - 1], n)]
  BY <1>8
<1> HIDE DEF done
<1>10. \A n \in 0..N : done[n] = IF n = 0 THEN base ELSE add(done[n - 1], n)
  BY <1>9, Zenon
<1>11. 0 \in 0..N /\ \A n \in 1..N : n \in 0..N /\ n # 0
  BY <1>1
<1>12. done[0] = base /\ \A n \in 1..N : done[n] = add(done[n - 1], n)
  BY <1>10, <1>11
<1>13. /\ done[0] = [cursor |-> 1, pieces |-> <<>>]
       /\ \A n \in 1..N : done[n] = [cursor |-> order[n].end,
                                     pieces |-> done[n - 1].pieces \o Plain(done[n - 1].cursor, order[n].start)
                                                   \o Replacement(order[n])]
  BY <1>12 DEF base, add
<1> QED BY <1>2, <1>13 DEF N, order

\* The text with placeholders in the place of the values that were chosen.
LEMMA AppliedIs ==
    ASSUME NEW C, Chosen(C)
    PROVE  /\ Chain(Applied(C), 1, Length + 1) /\ Discreet(Applied(C), C)
           /\ \A m \in C : Hides(Applied(C), m)
<1> DEFINE N == Cardinality(C)
           order == Sorted(C, Starts(C))
           T == Length + 1
           cursor(n) == IF n = 0 THEN 1 ELSE order[n].end
           next(n) == IF n = N THEN T ELSE order[n + 1].start
<1>1. /\ N \in Nat /\ order \in [1..N -> C]
      /\ \A m \in C : \E i \in 1..N : order[i] = m
      /\ \A i, j \in 1..N : i < j => order[i].end <= order[j].start
  BY StartsOrder
<1>2. PICK done :
        /\ done[0] = [cursor |-> 1, pieces |-> <<>>]
        /\ \A n \in 1..N : done[n] = [cursor |-> order[n].end,
                                      pieces |-> done[n - 1].pieces \o Plain(done[n - 1].cursor, order[n].start)
                                                    \o Replacement(order[n])]
        /\ Applied(C) = done[N].pieces \o Plain(done[N].cursor, T)
  BY AppliedSteps
<1>3. T \in Nat /\ T >= 1
  BY OverlapsAssumption
<1> HIDE DEF N, order, T
<1>4. \A m \in C : /\ m.start \in Nat /\ m.end \in Nat /\ m.valStart \in Nat /\ m.valEnd \in Nat
                   /\ 1 <= m.start /\ m.start <= m.valStart /\ m.valStart < m.valEnd /\ m.valEnd <= m.end /\ m.end <= T
  <2> SUFFICES ASSUME NEW m \in C
               PROVE  /\ m.start \in Nat /\ m.end \in Nat /\ m.valStart \in Nat /\ m.valEnd \in Nat
                      /\ 1 <= m.start /\ m.start <= m.valStart /\ m.valStart < m.valEnd /\ m.valEnd <= m.end /\ m.end <= T
    OBVIOUS
  <2>1. m \in Match
    BY DEF Chosen
  <2> QED BY <2>1, MatchTypes DEF T
<1>5. \A i \in 1..N : order[i] \in C
  BY <1>1
\* Between two matches nothing is hidden.
<1>6. \A n \in 0..N : /\ cursor(n) \in Nat /\ next(n) \in Nat /\ cursor(n) <= next(n)
                      /\ \A c \in cursor(n)..(next(n) - 1) : ~Shows(c, C)
  <2> SUFFICES ASSUME NEW n \in 0..N
               PROVE  /\ cursor(n) \in Nat /\ next(n) \in Nat /\ cursor(n) <= next(n)
                      /\ \A c \in cursor(n)..(next(n) - 1) : ~Shows(c, C)
    OBVIOUS
  <2>1. n # 0 => n \in 1..N /\ order[n] \in C
    BY <1>1, <1>5
  <2>2. n # N => n + 1 \in 1..N /\ order[n + 1] \in C
    BY <1>1, <1>5
  <2>3. cursor(n) \in Nat
    BY <1>4, <2>1
  <2>4. next(n) \in Nat
    BY <1>3, <1>4, <2>2
  <2>5. cursor(n) <= next(n)
    <3>1. CASE n = 0 /\ n = N
      BY <1>3, <3>1
    <3>2. CASE n = 0 /\ n # N
      BY <1>4, <2>2, <3>2
    <3>3. CASE n # 0 /\ n = N
      BY <1>4, <2>1, <3>3
    <3>4. CASE n # 0 /\ n # N
      <4>1. n < n + 1
        OBVIOUS
      <4>2. order[n].end <= order[n + 1].start
        BY <1>1, <2>1, <2>2, <3>4, <4>1
      <4> QED BY <3>4, <4>2
    <3> QED BY <3>1, <3>2, <3>3, <3>4
  <2>6. ASSUME NEW c \in cursor(n)..(next(n) - 1), NEW m \in C, c \in m.valStart..(m.valEnd - 1)
        PROVE  FALSE
    <3>1. c \in Nat /\ cursor(n) <= c /\ c < next(n)
      BY <2>3, <2>4
    <3>2. m.start <= c /\ c < m.end /\ m.start \in Nat /\ m.end \in Nat
      BY <1>4, <2>6, <3>1
    <3>3. PICK k \in 1..N : order[k] = m
      BY <1>1
    <3>4. CASE k <= n
      <4>1. n # 0 /\ cursor(n) = order[n].end /\ order[n] \in C /\ n \in 1..N
        BY <2>1, <3>4
      <4>2. CASE k = n
        BY <3>1, <3>2, <3>3, <4>1, <4>2
      <4>3. CASE k # n
        <5>1. k < n
          BY <3>4, <4>3
        <5>2. m.end <= order[n].start
          BY <1>1, <3>3, <4>1, <5>1
        <5>3. order[n].start \in Nat /\ order[n].end \in Nat /\ order[n].start < order[n].end
          BY <1>4, <4>1
        <5> QED BY <3>1, <3>2, <4>1, <5>2, <5>3
      <4> QED BY <4>2, <4>3
    <3>5. CASE k > n
      <4>1. n # N /\ next(n) = order[n + 1].start /\ n + 1 \in 1..N /\ order[n + 1] \in C
        BY <1>1, <2>2, <3>5
      <4>2. CASE k = n + 1
        BY <3>1, <3>2, <3>3, <4>1, <4>2
      <4>3. CASE k # n + 1
        <5>1. n + 1 < k
          BY <3>5, <4>3
        <5>2. order[n + 1].end <= m.start
          BY <1>1, <3>3, <4>1, <5>1
        <5>3. order[n + 1].start \in Nat /\ order[n + 1].end \in Nat /\ order[n + 1].start < order[n + 1].end
          BY <1>4, <4>1
        <5> QED BY <3>1, <3>2, <4>1, <5>2, <5>3
      <4> QED BY <4>2, <4>3
    <3> QED BY <3>4, <3>5
  <2> QED BY <2>3, <2>4, <2>5, <2>6 DEF Shows
<1> DEFINE Q(n) == /\ done[n].cursor = cursor(n)
                   /\ Chain(done[n].pieces, 1, cursor(n)) /\ Discreet(done[n].pieces, C)
                   /\ \A i \in 1..n : Hides(done[n].pieces, order[i])
           Bad == {n \in Nat : n <= N /\ ~Q(n)}
<1>7. Q(0)
  <2> DEFINE p == done[0].pieces
  <2>1. done[0].cursor = 1 /\ p = <<>>
    BY <1>2
  <2>2. p \in Seq(Piece) /\ Len(p) = 0 /\ 1..0 = {} /\ 1..(0 - 1) = {}
    BY <2>1
  <2> HIDE DEF p
  <2>3. Chain(p, 1, 1)
    BY <2>1, <2>2 DEF Chain
  <2>4. Discreet(p, C)
    BY <2>1, <2>2 DEF Discreet
  <2> QED BY <2>1, <2>2, <2>3, <2>4 DEF p
<1>8. ASSUME NEW n \in 1..N, Q(n - 1) PROVE Q(n)
  <2> DEFINE m == order[n]
             p == done[n - 1].pieces
             x == cursor(n - 1)
             gap == Plain(x, m.start)
             new == Replacement(m)
  <2>1. n \in Nat \ {0} /\ n - 1 \in 0..N /\ n - 1 # N /\ (n - 1) + 1 = n /\ m \in C
    BY <1>1
  <2>2. m.start \in Nat /\ next(n - 1) = m.start
    BY <1>4, <2>1
  <2>3. Chain(gap, x, m.start) /\ Discreet(gap, C)
    <3> HIDE DEF next, cursor, m
    <3> QED BY <1>6, <2>1, <2>2, PlainChain
  <2>4. Chain(new, m.start, m.end) /\ Discreet(new, C) /\ Hides(new, m)
    BY <2>1, ReplacementChain
  <2>5. Chain(p, 1, x) /\ Discreet(p, C) /\ \A i \in 1..(n - 1) : Hides(p, order[i])
    BY <1>8
  <2>6. done[n].cursor = m.end /\ done[n].pieces = p \o gap \o new
    <3> DEFINE from == done[n - 1].cursor
               stop == m.end
               all == p \o Plain(from, m.start) \o new
    <3>1. from = x
      BY <1>8
    <3>2. done[n] = [cursor |-> stop, pieces |-> all]
      BY <1>2, Zenon
    <3>3. all = p \o gap \o new
      BY <3>1
    <3> HIDE DEF all, stop
    <3>4. done[n].cursor = stop /\ done[n].pieces = all
      BY <3>2
    <3> HIDE DEF p, gap, new
    <3> QED BY <3>3, <3>4 DEF stop
  <2> DEFINE a == m.start
             b == m.end
  <2> HIDE DEF p, gap, new, x, a, b
  <2>7. Chain(p \o gap, 1, a) /\ Discreet(p \o gap, C) /\ \A i \in 1..(n - 1) : Hides(p \o gap, order[i])
    BY <2>3, <2>5, ChainsJoin DEF a
  <2>8. /\ Chain(p \o gap \o new, 1, b) /\ Discreet(p \o gap \o new, C)
        /\ \A i \in 1..(n - 1) : Hides(p \o gap \o new, order[i])
        /\ Hides(p \o gap \o new, m)
    BY <2>4, <2>7, ChainsJoin DEF a, b
  <2>9. cursor(n) = b /\ \A i \in 1..n : i = n \/ i \in 1..(n - 1)
    BY <2>1 DEF b
  <2> QED BY <2>6, <2>8, <2>9 DEF b
<1> HIDE DEF Q, cursor, next
<1>9. Bad = {}
  <2> SUFFICES ASSUME Bad # {} PROVE FALSE
    OBVIOUS
  <2>1. PICK n \in Bad : \A k \in Bad : n <= k
    BY LeastIsThere
  <2>2. n # 0 /\ n \in Nat /\ n <= N
    BY <1>7
  <2>3. n - 1 \in Nat /\ n - 1 <= N /\ ~(n <= n - 1) /\ n \in 1..N
    BY <1>1, <2>2
  <2>4. Q(n - 1)
    BY <2>1, <2>3
  <2> QED BY <1>8, <2>3, <2>4
<1>10. Q(N)
  BY <1>1, <1>9
<1> DEFINE p == done[N].pieces
           x == cursor(N)
           rest == Plain(x, T)
<1>11. Chain(p, 1, x) /\ Discreet(p, C) /\ (\A i \in 1..N : Hides(p, order[i])) /\ Applied(C) = p \o rest
  BY <1>2, <1>10 DEF Q
<1>12. Chain(rest, x, T) /\ Discreet(rest, C)
  <2>1. N \in 0..N /\ next(N) = T
    BY <1>1 DEF next
  <2> QED BY <1>6, <2>1, PlainChain
<1> HIDE DEF p, x, rest
<1>13. Chain(p \o rest, 1, T) /\ Discreet(p \o rest, C) /\ \A i \in 1..N : Hides(p \o rest, order[i])
  BY <1>11, <1>12, ChainsJoin
<1> QED BY <1>1, <1>11, <1>13 DEF T
-----------------------------------------------------------------------------
(* restore *)

\* The recursive definition in FlattenSeq defines a function.
LEMMA FlattenEquation ==
    ASSUME NEW N \in Nat \ {0}, NEW s
    PROVE  \E f : f = [i \in 1..N |-> IF i = 1 THEN s[i] ELSE f[i - 1] \o s[i]]
<1> DEFINE P(n) == \E f : f = [i \in 1..n |-> IF i = 1 THEN s[i] ELSE f[i - 1] \o s[i]]
           Bad == {n \in Nat : ~P(n)}
<1>1. P(0)
  <2>1. [i \in 1..0 |-> 0] = [i \in 1..0 |-> IF i = 1 THEN s[i] ELSE [j \in 1..0 |-> 0][i - 1] \o s[i]]
    OBVIOUS
  <2> QED BY <2>1
<1>2. ASSUME NEW n \in Nat, P(n) PROVE P(n + 1)
  <2>1. PICK f : f = [i \in 1..n |-> IF i = 1 THEN s[i] ELSE f[i - 1] \o s[i]]
    BY <1>2
  <2> DEFINE new == IF n = 0 THEN s[1] ELSE f[n] \o s[n + 1]
             g == [i \in 1..(n + 1) |-> IF i = n + 1 THEN new ELSE f[i]]
  <2>2. ASSUME NEW i \in 1..(n + 1)
        PROVE  g[i] = IF i = 1 THEN s[i] ELSE g[i - 1] \o s[i]
    <3>1. CASE i = n + 1
      <4>1. g[i] = new
        BY <3>1
      <4>2. n # 0 => i - 1 = n /\ n \in 1..(n + 1) /\ n # n + 1 /\ g[i - 1] = f[n]
        BY <3>1
      <4> QED BY <3>1, <4>1, <4>2
    <3>2. CASE i # n + 1
      <4>1. i \in 1..n /\ g[i] = f[i] /\ f[i] = IF i = 1 THEN s[i] ELSE f[i - 1] \o s[i]
        <5>1. i \in 1..n
          BY <3>2
        <5>2. f[i] = IF i = 1 THEN s[i] ELSE f[i - 1] \o s[i]
          BY <2>1, <5>1, Zenon
        <5>3. g[i] = f[i]
          BY <3>2
        <5> QED BY <5>1, <5>2, <5>3
      <4>2. i # 1 => i - 1 \in 1..(n + 1) /\ i - 1 # n + 1 /\ g[i - 1] = f[i - 1]
        BY <3>2
      <4> QED BY <4>1, <4>2
    <3> QED BY <3>1, <3>2
  <2>3. g = [i \in 1..(n + 1) |-> g[i]]
    OBVIOUS
  <2> HIDE DEF g
  <2>4. g = [i \in 1..(n + 1) |-> IF i = 1 THEN s[i] ELSE g[i - 1] \o s[i]]
    BY <2>2, <2>3
  <2> QED BY <2>4
<1> HIDE DEF P
<1>3. Bad = {}
  <2> SUFFICES ASSUME Bad # {} PROVE FALSE
    OBVIOUS
  <2>1. PICK n \in Bad : \A m \in Bad : n <= m
    BY LeastIsThere
  <2>2. n # 0
    BY <1>1
  <2>3. n - 1 \in Nat /\ ~(n <= n - 1)
    BY <2>2
  <2>4. P(n - 1)
    BY <2>1, <2>3
  <2>5. P((n - 1) + 1)
    BY <1>2, <2>3, <2>4
  <2>6. (n - 1) + 1 = n
    OBVIOUS
  <2> QED BY <2>5, <2>6
<1> QED BY <1>3 DEF P

\* The text goes on where it stopped.
LEMMA PlainOn ==
    ASSUME NEW a \in Nat \ {0}, NEW b \in Nat, a < b
    PROVE  Plain(1, a) \o Plain(a, b) = Plain(1, b)
<1> DEFINE l == a - 1
           m == b - a
           p == Plain(1, a)
           q == Plain(a, b)
           r == p \o q
           t == Plain(1, b)
           at(k) == [from |-> k, to |-> k + 1, hidden |-> FALSE]
<1>1. l \in Nat /\ m \in Nat /\ l + m = b - 1 /\ a = l + 1 /\ 1 <= a /\ 1 <= b
  OBVIOUS
<1>2. p \in Seq(Piece) /\ Len(p) = l /\ \A k \in 1..l : p[k] = at(k)
  <2>1. /\ p \in Seq(Piece) /\ Len(p) = a - 1
        /\ \A k \in 1..(a - 1) : p[k] = [from |-> 1 + k - 1, to |-> 1 + k, hidden |-> FALSE]
    BY <1>1, PlainType
  <2>2. \A k \in 1..(a - 1) : 1 + k - 1 = k /\ 1 + k = k + 1
    OBVIOUS
  <2> HIDE DEF p
  <2> QED BY <2>1, <2>2
<1>3. t \in Seq(Piece) /\ Len(t) = l + m /\ \A k \in 1..(l + m) : t[k] = at(k)
  <2>1. /\ t \in Seq(Piece) /\ Len(t) = b - 1
        /\ \A k \in 1..(b - 1) : t[k] = [from |-> 1 + k - 1, to |-> 1 + k, hidden |-> FALSE]
    BY <1>1, PlainType
  <2>2. \A k \in 1..(b - 1) : 1 + k - 1 = k /\ 1 + k = k + 1
    OBVIOUS
  <2> HIDE DEF t
  <2> QED BY <1>1, <2>1, <2>2
<1>4. /\ q \in Seq(Piece) /\ Len(q) = m
      /\ \A k \in 1..m : q[k] = [from |-> a + k - 1, to |-> a + k, hidden |-> FALSE]
  BY PlainType
<1> HIDE DEF l, m, p, q, r, t
<1>5. r \in Seq(Piece) /\ Len(r) = l + m /\ \A k \in 1..(l + m) : r[k] = IF k <= l THEN p[k] ELSE q[k - l]
  BY <1>2, <1>4, ConcatProperties DEF r
<1>6. \A k \in 1..(l + m) : r[k] = at(k)
  <2> SUFFICES ASSUME NEW k \in 1..(l + m) PROVE r[k] = at(k)
    OBVIOUS
  <2>1. CASE k <= l
    <3>1. k \in 1..l
      BY <1>1, <2>1
    <3>2. r[k] = p[k]
      BY <1>5, <2>1
    <3> QED BY <1>2, <3>1, <3>2
  <2>2. CASE ~(k <= l)
    <3>1. k - l \in 1..m /\ a + (k - l) - 1 = k /\ a + (k - l) = k + 1
      BY <1>1, <2>2
    <3>2. r[k] = q[k - l]
      BY <1>5, <2>2
    <3>3. q[k - l] = [from |-> a + (k - l) - 1, to |-> a + (k - l), hidden |-> FALSE]
      BY <1>4, <3>1
    <3> DEFINE f == a + (k - l) - 1
               u == a + (k - l)
               v == k + 1
    <3>4. f = k /\ u = v
      BY <3>1
    <3>5. r[k] = [from |-> f, to |-> u, hidden |-> FALSE]
      BY <3>2, <3>3
    <3> HIDE DEF f, u, v
    <3>6. r[k] = [from |-> k, to |-> v, hidden |-> FALSE]
      BY <3>4, <3>5, Zenon
    <3> QED BY <3>6 DEF v
  <2> QED BY <2>1, <2>2
<1> HIDE DEF at
<1>7. r = t
  BY <1>1, <1>3, <1>5, <1>6
<1> QED BY <1>7 DEF p, q, r, t

\* The characters that a piece stands for.
Stretch(x) == Plain(x.from, x.to)

\* Pieces that follow one another from the first character restore the text.
LEMMA ChainRestores ==
    ASSUME NEW p, NEW T, Chain(p, 1, T), p # <<>>
    PROVE  FlattenSeq([i \in DOMAIN p |-> Stretch(p[i])]) = Plain(1, T)
<1> DEFINE N == Len(p)
           s == [i \in 1..N |-> Stretch(p[i])]
           flatten == CHOOSE f : f = [i \in 1..N |-> IF i = 1 THEN s[i] ELSE f[i - 1] \o s[i]]
<1>1. /\ p \in Seq(Piece) /\ N \in Nat \ {0} /\ DOMAIN p = 1..N
      /\ p[1].from = 1 /\ p[N].to = T
      /\ \A i \in 1..N : p[i] \in Piece /\ p[i].from \in Nat /\ p[i].to \in Nat /\ p[i].from < p[i].to
      /\ \A i \in 1..(N - 1) : p[i].to = p[i + 1].from
  <2>1. p \in Seq(Piece) /\ N \in Nat \ {0} /\ DOMAIN p = 1..N
    BY DEF Chain
  <2>2. \A i \in 1..N : p[i] \in Piece
    BY <2>1
  <2>3. \A x \in Piece : x.from \in Nat /\ x.to \in Nat
    BY DEF Piece
  <2> QED BY <2>1, <2>2, <2>3 DEF Chain
<1>2. FlattenSeq(s) = flatten[N]
  <2>1. Len(s) = N
    BY <1>1
  <2> QED BY <1>1, <2>1 DEF FlattenSeq
<1>3. [i \in DOMAIN p |-> Stretch(p[i])] = s
  BY <1>1
<1>4. \A i \in 1..N : s[i] = Stretch(p[i])
  OBVIOUS
<1> HIDE DEF N, s
<1>5. flatten = [i \in 1..N |-> IF i = 1 THEN s[i] ELSE flatten[i - 1] \o s[i]]
  <2>1. \E f : f = [i \in 1..N |-> IF i = 1 THEN s[i] ELSE f[i - 1] \o s[i]]
    BY <1>1, FlattenEquation
  <2> QED BY <2>1
<1> HIDE DEF flatten
<1>6. \A i \in 1..N : flatten[i] = IF i = 1 THEN s[i] ELSE flatten[i - 1] \o s[i]
  BY <1>5, Zenon
<1> DEFINE Q(n) == p[n].from # 0 /\ flatten[n] = Plain(1, p[n].to)
           Bad == {n \in Nat : n \in 1..N /\ ~Q(n)}
<1>7. 1 \in 1..N /\ Q(1)
  <2>1. 1 \in 1..N
    BY <1>1
  <2>2. flatten[1] = Stretch(p[1])
    BY <1>4, <1>6, <2>1
  <2>3. Stretch(p[1]) = Plain(1, p[1].to)
    BY <1>1 DEF Stretch
  <2> QED BY <1>1, <2>1, <2>2, <2>3
<1>8. ASSUME NEW n \in 1..N, n # 1, Q(n - 1) PROVE Q(n)
  <2> DEFINE a == p[n].from
             b == p[n].to
  <2>1. n - 1 \in 1..N /\ n - 1 \in 1..(N - 1) /\ (n - 1) + 1 = n
    BY <1>1, <1>8
  <2>2. p[n - 1].to = a /\ a # 0 /\ a \in Nat /\ b \in Nat /\ a < b
    <3>1. p[n - 1].to = a
      BY <1>1, <2>1
    <3>2. p[n - 1].from \in Nat /\ p[n - 1].from < p[n - 1].to
      BY <1>1, <2>1
    <3>3. a \in Nat /\ b \in Nat /\ a < b
      BY <1>1
    <3> QED BY <3>1, <3>2, <3>3
  <2>3. flatten[n] = Plain(1, a) \o Plain(a, b)
    <3>1. flatten[n] = flatten[n - 1] \o s[n]
      BY <1>6, <1>8
    <3>2. s[n] = Plain(a, b)
      BY <1>4 DEF Stretch
    <3> QED BY <1>8, <2>2, <3>1, <3>2
  <2> QED BY <2>2, <2>3, PlainOn
<1> HIDE DEF Q
<1>9. Bad = {}
  <2> SUFFICES ASSUME Bad # {} PROVE FALSE
    OBVIOUS
  <2>1. PICK n \in Bad : \A m \in Bad : n <= m
    BY LeastIsThere
  <2>2. n \in 1..N /\ n # 1
    BY <1>7
  <2>3. n - 1 \in 1..N /\ n - 1 \in Nat /\ ~(n <= n - 1)
    BY <1>1, <2>2
  <2>4. Q(n - 1)
    BY <2>1, <2>3
  <2> QED BY <1>8, <2>2, <2>4
<1>10. Q(N)
  <2>1. N \in 1..N /\ N \in Nat
    BY <1>1
  <2> QED BY <1>9, <2>1
<1> QED BY <1>1, <1>2, <1>3, <1>10 DEF Q

\* What the sweep makes of a text is restored to the text, and hides the values.
LEMMA AppliedRestores ==
    ASSUME accepted = Resolved, Found, output = Applied(Resolved)
    PROVE  RestoredExactly
<1>1. Chosen(Resolved)
  <2>1. Resolved \subseteq matches /\ Separate(Resolved)
    BY ResolvedIs
  <2>2. Resolved \subseteq Match /\ IsFiniteSet(Resolved)
    BY <2>1, FS_Subset DEF Found
  <2> QED BY <2>1, <2>2 DEF Chosen
<1>2. /\ Chain(output, 1, Length + 1) /\ Discreet(output, accepted)
      /\ \A m \in accepted : Hides(output, m)
  BY <1>1, AppliedIs
<1>3. DOMAIN output = 1..Len(output)
  BY <1>2 DEF Chain
<1>4. ASSUME output # <<>>
      PROVE  FlattenSeq([i \in DOMAIN output |-> Stretch(output[i])]) = Plain(1, Length + 1)
  BY <1>2, <1>4, ChainRestores
<1>7. ASSUME NEW words, \A i \in DOMAIN output : output[i].hidden => ~Glued(output, i, words)
      PROVE  Restored(output, words) = FlattenSeq([i \in DOMAIN output |-> Stretch(output[i])])
  <2>1. [i \in DOMAIN output |-> IF output[i].hidden /\ Glued(output, i, words) THEN <<output[i]>>
                                 ELSE Plain(output[i].from, output[i].to)]
           = [i \in DOMAIN output |-> Stretch(output[i])]
    BY <1>7 DEF Stretch
  <2> QED BY <2>1, Zenon DEF Restored
<1>5. ASSUME NEW m \in accepted, NEW i \in DOMAIN output, ~output[i].hidden
      PROVE  output[i].from \notin m.valStart..(m.valEnd - 1)
  BY <1>2, <1>3, <1>5 DEF Discreet, Shows
<1>6. ASSUME NEW m \in accepted
      PROVE  \E i \in DOMAIN output : output[i] = Hidden(m.valStart, m.valEnd)[1]
  BY <1>2, <1>3 DEF Hides
<1> QED BY <1>4, <1>5, <1>6, <1>7 DEF RestoredExactly, Stretch

-----------------------------------------------------------------------------
\* There is no output yet, or it is what the sweep makes of the matches.
OverlapsInv ==
    /\ Found
    /\ \/ accepted = {} /\ output = <<>>
       \/ accepted = Resolved /\ output = Applied(Resolved)

\* Every step keeps it: no match is added to a text that has been redacted,
\* whose output is empty only if the text is.
LEMMA OverlapsInvSteps ==
    ASSUME OverlapsInv, [OverlapsNext]_overlapVars
    PROVE  OverlapsInv'
<1>1. ASSUME NEW m \in Match, Collect(m) PROVE OverlapsInv'
  <2>1. accepted = {} /\ output = <<>>
    <3>1. CASE accepted = Resolved /\ output = Applied(Resolved)
      <4>1. Chosen(Resolved)
        <5>1. Resolved \subseteq matches /\ Separate(Resolved)
          BY ResolvedIs DEF OverlapsInv
        <5>2. Resolved \subseteq Match /\ IsFiniteSet(Resolved)
          BY <5>1, FS_Subset DEF Found, OverlapsInv
        <5> QED BY <5>1, <5>2 DEF Chosen
      <4>2. Chain(output, 1, Length + 1)
        BY <3>1, <4>1, AppliedIs
      <4>3. Length = 0
        BY <1>1, <4>2, OverlapsAssumption DEF Chain, Collect
      <4>4. m.start \in 1..0
        BY <4>3 DEF Match, Text
      <4> QED BY <4>4
    <3> QED BY <3>1 DEF OverlapsInv
  <2>2. matches' = matches \cup {m} /\ accepted' = {} /\ output' = <<>>
    BY <1>1, <2>1 DEF Collect
  <2>3. \A n \in matches : n.pattern = m.pattern => ~Intersects(m, n)
    BY <1>1 DEF Collect, Intersects
  <2>4. \A n \in matches : n \in Match /\ (Intersects(n, m) => Intersects(m, n))
    BY MatchTypes DEF OverlapsInv, Found, Intersects
  <2>5. IsFiniteSet(matches')
    BY <2>2, FS_AddElement DEF OverlapsInv, Found
  <2>6. Found'
    BY <2>2, <2>3, <2>4, <2>5 DEF OverlapsInv, Found
  <2> QED BY <2>2, <2>6 DEF OverlapsInv
<1>2. CASE Redact
  <2>1. matches' = matches /\ accepted' = Resolved /\ output' = Applied(Resolved)
    BY <1>2 DEF Redact
  <2>2. Found'
    BY <2>1 DEF OverlapsInv, Found
  <2>3. Resolved' = Resolved
    BY <2>1 DEF Resolved, Sorted
  <2>4. Applied(Resolved)' = Applied(Resolved)
    BY <2>3 DEF Applied
  <2> QED BY <2>1, <2>2, <2>3, <2>4 DEF OverlapsInv
<1>3. CASE NextText
  <2>1. matches' = {} /\ accepted' = {} /\ output' = <<>>
    BY <1>3 DEF NextText
  <2> QED BY <2>1, FS_EmptySet DEF OverlapsInv, Found
<1>4. CASE UNCHANGED overlapVars
  <2>1. matches' = matches /\ accepted' = accepted /\ output' = output
    BY <1>4 DEF overlapVars
  <2>2. Found' /\ Resolved' = Resolved
    BY <2>1 DEF OverlapsInv, Found, Resolved, Sorted
  <2>3. Applied(Resolved)' = Applied(Resolved)
    BY <2>2 DEF Applied
  <2> QED BY <2>1, <2>2, <2>3 DEF OverlapsInv
<1> QED BY <1>1, <1>2, <1>3, <1>4 DEF OverlapsNext

\* It holds in every state.
LEMMA OverlapsInvHolds == OverlapsSpec => []OverlapsInv
<1>1. OverlapsInit => OverlapsInv
  BY FS_EmptySet DEF OverlapsInit, OverlapsInv, Found
<1>2. OverlapsInv /\ [OverlapsNext]_overlapVars => OverlapsInv'
  BY OverlapsInvSteps
<1> QED BY <1>1, <1>2, PTL DEF OverlapsSpec

\* What restore() gives back of the redacted text is the text that came in, and of
\* a value that was accepted nothing is left in it (_apply): for every length of a
\* text, every registry of patterns and whatever they match.
THEOREM AlwaysRestoredExactly == OverlapsSpec => []RestoredExactly
<1>1. OverlapsInv => RestoredExactly
  <2> SUFFICES ASSUME OverlapsInv PROVE RestoredExactly
    OBVIOUS
  <2>1. CASE output = <<>>
    BY <2>1 DEF RestoredExactly
  <2>2. CASE output # <<>>
    BY <2>2, AppliedRestores DEF OverlapsInv
  <2> QED BY <2>1, <2>2
<1> QED BY <1>1, OverlapsInvHolds, PTL

\* A match is passed over only for an accepted one that overlaps it and is as
\* strong at least (_resolve_overlaps): for every set of matches.
THEOREM AlwaysLosesOnlyToStronger == OverlapsSpec => []LosesOnlyToStronger
<1>1. OverlapsInv => LosesOnlyToStronger
  <2> SUFFICES ASSUME OverlapsInv PROVE LosesOnlyToStronger
    OBVIOUS
  <2>1. CASE output = <<>>
    BY <2>1 DEF LosesOnlyToStronger
  <2>2. CASE output # <<>>
    BY <2>2, ResolvedLoses DEF OverlapsInv
  <2> QED BY <2>1, <2>2
<1> QED BY <1>1, OverlapsInvHolds, PTL

-----------------------------------------------------------------------------
\* One flush at a time.
Apart ==
    \A t, u \in Thread : pc[t] # "idle" /\ pc[u] # "idle" => t = u

\* A thread writes to the temporary file, and what it has written is its snapshot.
WrittenWhole ==
    \A t \in Thread :
        /\ fd[t] # "none" => pc[t] = "writing" /\ fd[t] = "tmp"
        /\ pc[t] = "writing" => fd[t] = "tmp" /\ tmp = Torn
        /\ pc[t] = "replacing" => tmp = Valid(snap[t])

\* What is in the file is in memory, and in every snapshot under way.
NothingForgotten ==
    /\ path.data \subseteq mem
    /\ \A t \in Thread : pc[t] # "idle" => path.data \subseteq snap[t] /\ snap[t] \subseteq mem

FileInv == FileTypeOK /\ Apart /\ WrittenWhole /\ NothingForgotten /\ FileIsReadable

-----------------------------------------------------------------------------
LEMMA InitEstablishes == FileInit => FileInv
<1> SUFFICES ASSUME FileInit PROVE FileInv
  OBVIOUS
<1>1. path = Absent /\ tmp = Absent /\ Absent \in File
  BY DEF FileInit, File
<1>2. FileTypeOK
  BY <1>1 DEF FileInit, FileTypeOK
<1>3. Apart /\ WrittenWhole /\ NothingForgotten /\ FileIsReadable
  BY <1>1 DEF FileInit, Apart, WrittenWhole, NothingForgotten, FileIsReadable, Absent
<1> QED BY <1>2, <1>3 DEF FileInv

LEMMA MappingKeeps ==
    ASSUME FileInv, NEW m \in Mapping, PutMapping(m)
    PROVE  FileInv' /\ path.data \subseteq path'.data
BY DEF FileInv, FileTypeOK, Apart, WrittenWhole, NothingForgotten, FileIsReadable, PutMapping

\* A flush begins, by the daemon or by close().
LEMMA SnapshotKeeps ==
    ASSUME ~Overlap, FileInv, NEW t \in Thread, Snapshot(t), UNCHANGED <<mem, fd, path, tmp>>,
           closed' \in [Closer -> {"no", "running", "returned"}], failed' = failed
    PROVE  FileInv'
<1>1. /\ \A u \in Thread : pc[u] = "idle"
      /\ pc' = [pc EXCEPT ![t] = "opening"] /\ snap' = [snap EXCEPT ![t] = mem] /\ dirty' = FALSE
  BY DEF Snapshot, MayBegin
<1>2. FileTypeOK'
  BY <1>1 DEF FileInv, FileTypeOK
<1>3. Apart' /\ WrittenWhole' /\ NothingForgotten' /\ FileIsReadable'
  BY <1>1 DEF FileInv, FileTypeOK, Apart, WrittenWhole, NothingForgotten, FileIsReadable
<1> QED BY <1>2, <1>3 DEF FileInv

LEMMA CloseKeeps ==
    ASSUME ~Overlap, FileInv, NEW t \in Closer, Close(t)
    PROVE  FileInv' /\ path' = path
<1>1. closed' \in [Closer -> {"no", "running", "returned"}]
  BY DEF FileInv, FileTypeOK, Close
<1>2. CASE Snapshot(t)
  BY <1>1, <1>2, SnapshotKeeps DEF Close, Thread
<1>3. CASE UNCHANGED <<dirty, snap, pc>>
  BY <1>1, <1>3 DEF Close, FileInv, FileTypeOK, Apart, WrittenWhole, NothingForgotten, FileIsReadable
<1> QED BY <1>2, <1>3 DEF Close

LEMMA OpenKeeps ==
    ASSUME FileInv, NEW t \in Thread, Open(t)
    PROVE  FileInv' /\ path' = path
<1>1. FileTypeOK'
  BY DEF FileInv, FileTypeOK, Open, File
<1>2. Apart' /\ WrittenWhole' /\ NothingForgotten' /\ FileIsReadable' /\ path' = path
  BY DEF FileInv, FileTypeOK, Apart, WrittenWhole, NothingForgotten, FileIsReadable, Open
<1> QED BY <1>1, <1>2 DEF FileInv

LEMMA WriteKeeps ==
    ASSUME FileInv, NEW t \in Thread, Write(t)
    PROVE  FileInv' /\ path' = path
<1>1. path' = path /\ tmp' = Valid(snap[t])
  BY DEF FileInv, WrittenWhole, Write, Overwrite, Torn
<1>2. FileTypeOK'
  BY <1>1 DEF FileInv, FileTypeOK, Write, File
<1>3. Apart' /\ WrittenWhole' /\ NothingForgotten' /\ FileIsReadable'
  BY <1>1 DEF FileInv, FileTypeOK, Apart, WrittenWhole, NothingForgotten, FileIsReadable, Write
<1> QED BY <1>1, <1>2, <1>3 DEF FileInv

LEMMA EndFlushTypes ==
    ASSUME FileInv, NEW t \in Thread, EndFlush(t)
    PROVE  /\ pc' = [pc EXCEPT ![t] = "idle"]
           /\ pc' \in [Thread -> {"idle", "opening", "writing", "replacing"}]
           /\ closed' \in [Closer -> {"no", "running", "returned"}]
BY DEF FileInv, FileTypeOK, EndFlush

LEMMA ReplaceKeeps ==
    ASSUME FileInv, NEW t \in Thread, Replace(t)
    PROVE  FileInv' /\ path.data \subseteq path'.data
<1>1. /\ pc[t] = "replacing" /\ tmp = Valid(snap[t]) /\ path.data \subseteq snap[t] /\ snap[t] \subseteq mem
      /\ tmp \in File
  BY DEF FileInv, FileTypeOK, WrittenWhole, NothingForgotten, Replace
<1>2. path' = tmp /\ tmp' = Absent /\ failed' = FALSE /\ EndFlush(t) /\ UNCHANGED <<mem, dirty, snap>>
  BY <1>1 DEF Replace, Rename, Valid
<1>3. \A u \in Thread : fd[u] = "none"
  BY <1>1 DEF FileInv, Apart, WrittenWhole
<1>4. fd' = [u \in Thread |-> fd[u]]
  BY <1>1, <1>3 DEF Replace, Rename, Valid
<1>5. FileTypeOK'
  BY <1>1, <1>2, <1>3, <1>4, EndFlushTypes DEF FileInv, FileTypeOK, File
<1>6. Apart' /\ WrittenWhole'
  BY <1>1, <1>2, <1>3, <1>4, EndFlushTypes DEF FileInv, FileTypeOK, Apart, WrittenWhole
<1>7. NothingForgotten' /\ FileIsReadable' /\ path.data \subseteq path'.data
  BY <1>1, <1>2, EndFlushTypes DEF FileInv, FileTypeOK, Apart, NothingForgotten, FileIsReadable, Valid
<1> QED BY <1>5, <1>6, <1>7 DEF FileInv

LEMMA FailKeeps ==
    ASSUME FileInv, NEW t \in Thread, Fail(t)
    PROVE  FileInv' /\ path' = path
<1>1. /\ fd' = [fd EXCEPT ![t] = "none"] /\ EndFlush(t) /\ failed' = TRUE
      /\ UNCHANGED <<mem, dirty, snap, path, tmp>>
  BY DEF Fail
<1>2. FileTypeOK'
  BY <1>1, EndFlushTypes DEF FileInv, FileTypeOK
<1>3. Apart' /\ WrittenWhole' /\ NothingForgotten' /\ FileIsReadable'
  BY <1>1, EndFlushTypes
     DEF FileInv, FileTypeOK, Apart, WrittenWhole, NothingForgotten, FileIsReadable
<1> QED BY <1>1, <1>2, <1>3 DEF FileInv

LEMMA RestartKeeps == FileInv /\ Restart => FileInv' /\ path' = path
<1> SUFFICES ASSUME FileInv, Restart PROVE FileInv' /\ path' = path
  OBVIOUS
<1>1. path.data \in SUBSET Mapping
  BY DEF FileInv, FileTypeOK, File, Valid, Torn, Absent
<1>2. FileTypeOK'
  BY <1>1 DEF FileInv, FileTypeOK, Restart
<1>3. Apart' /\ WrittenWhole' /\ NothingForgotten' /\ FileIsReadable' /\ path' = path
  BY DEF FileInv, Apart, WrittenWhole, NothingForgotten, FileIsReadable, Restart
<1> QED BY <1>2, <1>3 DEF FileInv

LEMMA StepKeeps ==
    ASSUME ~Overlap, FileInv, [FileNext]_fileVars
    PROVE  FileInv' /\ path.data \subseteq path'.data
<1>1. ASSUME NEW t \in Daemon, Flush(t) PROVE FileInv' /\ path' = path
  <2>1. closed' \in [Closer -> {"no", "running", "returned"}]
    BY <1>1 DEF FileInv, FileTypeOK, Flush
  <2> QED BY <1>1, <2>1, SnapshotKeeps DEF Flush, Thread
<1>2. ASSUME NEW t \in Thread, FlushStep(t) PROVE FileInv' /\ path.data \subseteq path'.data
  BY <1>2, OpenKeeps, WriteKeeps, ReplaceKeeps, FailKeeps DEF FlushStep
<1>3. CASE UNCHANGED fileVars
  BY <1>3 DEF fileVars, FileInv, FileTypeOK, Apart, WrittenWhole, NothingForgotten, FileIsReadable
<1> QED BY <1>1, <1>2, <1>3, MappingKeeps, CloseKeeps, RestartKeeps DEF FileNext

LEMMA FileInvariance == ASSUME ~Overlap PROVE FileSpec => []FileInv
BY InitEstablishes, StepKeeps, PTL DEF FileSpec

\* _flush: flushes that do not overlap leave a file that can be parsed, at every
\* moment at which the process may die.
THEOREM AlwaysReadable == ASSUME ~Overlap PROVE FileSpec => []FileIsReadable
<1>1. FileInv => FileIsReadable
  BY DEF FileInv
<1> QED BY <1>1, FileInvariance, PTL

\* _flush, _load: and what is in it stays in it, across failed writes and restarts.
THEOREM NothingSavedIsLost == ASSUME ~Overlap PROVE FileSpec => SavedForGood
<1>1. FileInv /\ [FileNext]_fileVars => [path.data \subseteq path'.data]_fileVars
  BY StepKeeps
<1> QED BY <1>1, FileInvariance, PTL DEF FileSpec, SavedForGood

-----------------------------------------------------------------------------
(* Types. *)

(* The types of the placeholders, of their maps and of the calls hold for  *)
(* any number of processes.                                                *)
LEMMA NextTypeOK == TypeOK /\ [Next]_vars => TypeOK'
<1> SUFFICES ASSUME TypeOK, [Next]_vars PROVE TypeOK'
  OBVIOUS
<1>1. CASE UNCHANGED vars
  BY <1>1 DEF vars, TypeOK
<1>2. ASSUME NEW p \in Process, NEW t \in Type, NEW v \in Value, Begin(p, t, v)
      PROVE  TypeOK'
  <2> DEFINE new == [pc |-> "looking", type |-> t, value |-> v, ph |-> Base(t, v)]
  <2>1. job' = [job EXCEPT ![p] = new] /\ UNCHANGED <<table, original, existing, issued>>
    BY <1>2 DEF Begin
  <2>2. new \in Call
    BY BaseCanonical DEF Call
  <2> HIDE DEF new
  <2> QED
    BY <2>1, <2>2 DEF TypeOK
<1>3. ASSUME NEW p \in Process, Look(p)
      PROVE  TypeOK'
  <2>1. job[p] \in Call /\ job[p].pc = "looking" /\ UNCHANGED <<table, original, existing>>
    BY <1>3 DEF Look, TypeOK, Idle, Call
  <2>2. CASE job' = [job EXCEPT ![p].pc = "checking"] /\ UNCHANGED issued
    <3>1. [job[p] EXCEPT !.pc = "checking"] \in Call
      BY <2>1 DEF Call
    <3>2. job' = [job EXCEPT ![p] = [job[p] EXCEPT !.pc = "checking"]]
      BY <2>2
    <3> QED
      BY <2>1, <2>2, <3>1, <3>2 DEF TypeOK
  <2>3. ASSUME NEW ph \in existing[job[p].value], Return(p, ph)
        PROVE  TypeOK'
    <3> DEFINE i == [type |-> job[p].type, value |-> job[p].value, ph |-> ph]
    <3>1. job' = [job EXCEPT ![p] = Idle] /\ issued' = issued \cup {i}
      BY <2>3 DEF Return
    <3>2. job[p].value \in Value /\ job[p].type \in Type /\ ph \in Placeholder
      BY <2>1 DEF TypeOK, Call
    <3> QED
      BY <2>1, <3>1, <3>2 DEF TypeOK
  <2> QED
    BY <1>3, <2>2, <2>3 DEF Look
<1>4. ASSUME NEW p \in Process, Check(p)
      PROVE  TypeOK'
  <2>1. job[p] \in Call /\ UNCHANGED <<table, original, existing, issued>>
    BY <1>4 DEF Check, TypeOK, Idle, Call
  <2>2. PICK new \in Call : job' = [job EXCEPT ![p] = new]
    <3>1. [job[p] EXCEPT !.pc = "putting"] \in Call
      BY <2>1 DEF Call
    <3>2. NextCandidate(job[p].ph) \in Placeholder
      BY <2>1 DEF Call, NextCandidate, Placeholder
    <3>3. [job[p] EXCEPT !.ph = NextCandidate(job[p].ph)] \in Call
      BY <2>1, <3>2 DEF Call
    <3> QED
      BY <1>4, <3>1, <3>3 DEF Check
  <2> QED
    BY <2>1, <2>2 DEF TypeOK
<1>5. ASSUME NEW p \in Process, Save(p)
      PROVE  TypeOK'
  <2>1. job[p] \in Call
    BY <1>5 DEF Save, TypeOK, Idle, Call
  <2> PICK ph \in Placeholder, v \in Value, t \in Type :
         ph = job[p].ph /\ v = job[p].value /\ t = job[p].type
    BY <2>1 DEF Call
  <2> DEFINE i == [type |-> t, value |-> v, ph |-> ph]
  <2>2. /\ Put(ph, v) /\ table' = table /\ job' = [job EXCEPT ![p] = Idle] /\ issued' = issued \cup {i}
    BY <1>5 DEF Save, Return
  <2> QED
    BY <2>2 DEF TypeOK, Put
<1>6. ASSUME NEW p \in Process, Crash(p)
      PROVE  TypeOK'
  BY <1>6 DEF Crash, TypeOK
<1> QED
  BY <1>1, <1>2, <1>3, <1>4, <1>5, <1>6 DEF Next, Step

\* Pieces that follow one another stay between the first place and the last.
LEMMA ChainInside ==
    ASSUME NEW p, NEW a, NEW b, Chain(p, a, b), NEW i \in 1..Len(p)
    PROVE  a <= p[i].from /\ p[i].to <= b
<1> DEFINE N == Len(p)
           Early == {n \in Nat : n <= N /\ n # 0 /\ ~(a <= p[n].from)}
           Late == {n \in Nat : n <= N /\ n # N /\ ~(p[N - n].to <= b)}
<1>1. /\ p \in Seq(Piece) /\ N \in Nat /\ a \in Nat /\ b \in Nat /\ p # <<>>
      /\ \A n \in 1..N : p[n] \in Piece
  <2>1. p \in Seq(Piece) /\ a \in Nat /\ b \in Nat
    BY DEF Chain
  <2> HIDE DEF Piece
  <2> QED BY <2>1
<1>2. \A n \in 1..N : p[n].from \in Nat /\ p[n].to \in Nat /\ p[n].from < p[n].to
  BY <1>1 DEF Chain, Piece
<1>3. p[1].from = a /\ p[N].to = b /\ \A n \in 1..(N - 1) : p[n].to = p[n + 1].from
  BY <1>1 DEF Chain
<1> HIDE DEF N
<1>4. Early = {}
  <2> SUFFICES ASSUME Early # {} PROVE FALSE
    OBVIOUS
  <2>1. PICK n \in Early : \A m \in Early : n <= m
    BY LeastIsThere
  <2>2. n \in 1..N /\ n # 1 /\ ~(a <= p[n].from)
    BY <1>1, <1>3, <2>1
  <2>3. n - 1 \in 1..(N - 1) /\ n - 1 \in 1..N /\ (n - 1) + 1 = n /\ n - 1 \in Nat /\ ~(n <= n - 1)
    BY <1>1, <2>2
  <2>4. p[n - 1].to = p[n].from /\ p[n - 1].from < p[n - 1].to /\ p[n - 1].from \in Nat /\ p[n].from \in Nat
    <3> DEFINE k == n - 1
    <3>1. k \in 1..(N - 1) /\ k \in 1..N /\ k + 1 = n
      BY <2>3
    <3> HIDE DEF k
    <3>2. p[k].to = p[n].from /\ p[k].from < p[k].to /\ p[k].from \in Nat /\ p[n].from \in Nat
      BY <1>2, <1>3, <2>2, <3>1
    <3> QED BY <3>2 DEF k
  <2>5. a <= p[n - 1].from
    BY <2>1, <2>3
  <2> QED BY <1>1, <2>2, <2>4, <2>5
<1>5. Late = {}
  <2> SUFFICES ASSUME Late # {} PROVE FALSE
    OBVIOUS
  <2>1. PICK n \in Late : \A m \in Late : n <= m
    BY LeastIsThere
  <2>2. n \in Nat /\ n # 0 /\ n < N /\ ~(p[N - n].to <= b)
    BY <1>1, <1>3, <2>1
  <2>3. n - 1 \in Nat /\ ~(n <= n - 1) /\ n - 1 <= N /\ n - 1 # N
    BY <1>1, <2>2
  <2>4. p[N - (n - 1)].to <= b
    BY <2>1, <2>3
  <2> DEFINE k == N - n
  <2>5. k \in 1..(N - 1) /\ k \in 1..N /\ k + 1 \in 1..N /\ N - (n - 1) = k + 1
    BY <1>1, <2>2
  <2>6. p[k + 1].to <= b /\ ~(p[k].to <= b)
    BY <2>2, <2>4, <2>5
  <2> HIDE DEF k
  <2>7. p[k].to = p[k + 1].from /\ p[k + 1].from < p[k + 1].to /\ p[k + 1].from \in Nat /\ p[k + 1].to \in Nat
    BY <1>2, <1>3, <2>5
  <2> QED BY <1>1, <2>6, <2>7
<1>6. i \in 1..N
  BY DEF N
<1>7. i \notin Early
  BY <1>4
<1>8. N - i \notin Late
  BY <1>5
<1>9. N - (N - i) = i /\ N - i \in Nat /\ N - i <= N /\ N - i # N
  BY <1>1, <1>6
<1> QED BY <1>1, <1>6, <1>7, <1>8, <1>9

\* The types of the sweep: what is accepted does not overlap, and a piece of the
\* output lies in the text.
LEMMA OverlapsTypes == OverlapsInv => OverlapsTypeOK
<1> SUFFICES ASSUME OverlapsInv PROVE OverlapsTypeOK
  OBVIOUS
<1>1. matches \subseteq Match
  BY DEF OverlapsInv, Found
<1>2. CASE accepted = {} /\ output = <<>>
  <2>1. output \in Seq([from : Text, to : 2..(Length + 1), hidden : BOOLEAN])
    BY <1>2
  <2> QED BY <1>1, <1>2, <2>1 DEF OverlapsTypeOK
<1>3. CASE accepted = Resolved /\ output = Applied(Resolved)
  <2>1. accepted \subseteq matches /\ Separate(accepted)
    BY <1>3, ResolvedIs DEF OverlapsInv
  <2>2. Chosen(accepted)
    <3>1. accepted \subseteq Match /\ IsFiniteSet(accepted)
      BY <2>1, FS_Subset DEF OverlapsInv, Found
    <3> QED BY <2>1, <3>1 DEF Chosen
  <2>3. Chain(output, 1, Length + 1)
    BY <1>3, <2>2, AppliedIs
  <2>4. \A m, n \in accepted : m # n => m.end <= n.start \/ n.end <= m.start
    <3> SUFFICES ASSUME NEW m \in accepted, NEW n \in accepted, m # n PROVE m.end <= n.start \/ n.end <= m.start
      OBVIOUS
    <3>1. m \in Match /\ n \in Match /\ ~Intersects(m, n)
      BY <1>1, <2>1 DEF Separate
    <3> QED BY <3>1, MatchTypes DEF Intersects
  <2> DEFINE Inside == [from : Text, to : 2..(Length + 1), hidden : BOOLEAN]
  <2>5. \A i \in 1..Len(output) : output[i] \in Inside
    <3> SUFFICES ASSUME NEW i \in 1..Len(output) PROVE output[i] \in Inside
      OBVIOUS
    <3> DEFINE x == output[i]
    <3>1. x \in Piece
      <4>1. output \in Seq(Piece)
        BY <2>3 DEF Chain
      <4> HIDE DEF Piece
      <4> QED BY <4>1
    <3>2. 1 <= x.from /\ x.to <= Length + 1
      BY <2>3, ChainInside
    <3>3. x.from < x.to
      BY <2>3 DEF Chain
    <3> HIDE DEF x
    <3>4. x.from \in Nat /\ x.to \in Nat /\ x.hidden \in BOOLEAN
          /\ x = [from |-> x.from, to |-> x.to, hidden |-> x.hidden]
      BY <3>1 DEF Piece
    <3>5. x.from \in Text /\ x.to \in 2..(Length + 1)
      BY <3>2, <3>3, <3>4, OverlapsAssumption DEF Text
    <3>6. x \in Inside
      <4> DEFINE A == Text
                 B == 2..(Length + 1)
      <4>1. x.from \in A /\ x.to \in B
        BY <3>5
      <4> HIDE DEF A, B
      <4>2. x \in [from : A, to : B, hidden : BOOLEAN]
        BY <3>4, <4>1
      <4> QED BY <4>2 DEF A, B
    <3> QED BY <3>6 DEF x
  <2>6. output \in Seq(Inside)
    <3>1. Len(output) \in Nat /\ output = [i \in 1..Len(output) |-> output[i]]
      <4>1. output \in Seq(Piece)
        BY <2>3 DEF Chain
      <4> HIDE DEF Piece
      <4> QED BY <4>1
    <3> HIDE DEF Inside
    <3>2. [i \in 1..Len(output) |-> output[i]] \in Seq(Inside)
      BY <2>5, <3>1, IsASeq
    <3> QED BY <3>1, <3>2
  <2> QED BY <1>1, <2>1, <2>4, <2>6 DEF OverlapsTypeOK
<1> QED BY <1>2, <1>3 DEF OverlapsInv

\* The types of the file store, whatever flushes overlap.
LEMMA FileTypes == FileTypeOK /\ [FileNext]_fileVars => FileTypeOK'
<1> SUFFICES ASSUME FileTypeOK, [FileNext]_fileVars PROVE FileTypeOK'
  OBVIOUS
<1> DEFINE Stages == {"idle", "opening", "writing", "replacing"}
           Closed == {"no", "running", "returned"}
           Handles == {"none", "tmp", "path", "unlinked"}
<1>1. Torn \in File /\ Absent \in File /\ \A S \in SUBSET Mapping : Valid(S) \in File
  BY DEF File
<1>2. ASSUME NEW t \in Thread, Snapshot(t), UNCHANGED <<mem, fd, path, tmp>>,
             closed' \in [Closer -> Closed], failed' = failed
      PROVE  FileTypeOK'
  <2>1. pc' = [pc EXCEPT ![t] = "opening"] /\ snap' = [snap EXCEPT ![t] = mem] /\ dirty' = FALSE
    BY <1>2 DEF Snapshot
  <2> QED BY <1>2, <2>1 DEF FileTypeOK
<1>3. CASE \E m \in Mapping : PutMapping(m)
  BY <1>3 DEF FileTypeOK, PutMapping
<1>4. CASE \E t \in Daemon : Flush(t)
  <2>1. PICK t \in Daemon : Flush(t)
    BY <1>4
  <2>2. closed' \in [Closer -> Closed]
    BY <2>1 DEF Flush, FileTypeOK
  <2> QED BY <1>2, <2>1, <2>2 DEF Flush, Thread
<1>5. CASE \E t \in Closer : Close(t)
  <2>1. PICK t \in Closer : Close(t)
    BY <1>5
  <2>2. closed' \in [Closer -> Closed]
    BY <2>1 DEF Close, FileTypeOK
  <2>3. CASE Snapshot(t)
    BY <1>2, <2>1, <2>2, <2>3 DEF Close, Thread
  <2>4. CASE UNCHANGED <<dirty, snap, pc>>
    BY <2>1, <2>2, <2>4 DEF Close, FileTypeOK
  <2> QED BY <2>1, <2>3, <2>4 DEF Close
<1>6. ASSUME NEW t \in Thread, FlushStep(t) PROVE FileTypeOK'
  <2>1. CASE Open(t)
    BY <1>1, <2>1 DEF Open, FileTypeOK
  <2>2. CASE Write(t)
    <3>1. \A f \in File : Overwrite(f, snap[t]) \in File
      BY <1>1 DEF Overwrite, FileTypeOK
    <3>2. tmp' \in File /\ path' \in File
      BY <2>2, <3>1 DEF Write, FileTypeOK
    <3>3. /\ fd' = [fd EXCEPT ![t] = "none"] /\ pc' = [pc EXCEPT ![t] = "replacing"]
          /\ UNCHANGED <<mem, dirty, snap, closed, failed>>
      BY <2>2 DEF Write
    <3> QED BY <3>2, <3>3 DEF FileTypeOK
  <2>3. ASSUME EndFlush(t)
        PROVE  pc' \in [Thread -> Stages] /\ closed' \in [Closer -> Closed]
    BY <2>3 DEF EndFlush, FileTypeOK
  <2>4. CASE Replace(t)
    <3>1. pc' \in [Thread -> Stages] /\ closed' \in [Closer -> Closed] /\ UNCHANGED <<mem, dirty, snap>>
      BY <2>3, <2>4 DEF Replace
    <3>2. CASE failed' = TRUE /\ UNCHANGED <<fd, path, tmp>>
      BY <3>1, <3>2 DEF FileTypeOK
    <3>3. CASE Rename
      <4>1. fd' \in [Thread -> Handles]
        <5>1. \A u \in Thread : fd[u] \in Handles
          BY DEF FileTypeOK
        <5> QED BY <3>3, <5>1 DEF Rename
      <4>2. path' = tmp /\ tmp' = Absent /\ failed' = FALSE
        BY <3>3 DEF Rename
      <4> QED BY <1>1, <3>1, <4>1, <4>2 DEF FileTypeOK
    <3> QED BY <2>4, <3>2, <3>3 DEF Replace
  <2>5. CASE Fail(t)
    <3>1. pc' \in [Thread -> Stages] /\ closed' \in [Closer -> Closed]
      BY <2>3, <2>5 DEF Fail
    <3> QED BY <2>5, <3>1 DEF Fail, FileTypeOK
  <2> QED BY <1>6, <2>1, <2>2, <2>4, <2>5 DEF FlushStep
<1>7. CASE Restart
  <2>1. path.data \in SUBSET Mapping
    BY DEF FileTypeOK, File, Valid, Torn, Absent
  <2> QED BY <1>7, <2>1 DEF Restart, FileTypeOK
<1>8. CASE UNCHANGED fileVars
  BY <1>8 DEF fileVars, FileTypeOK
<1> QED BY <1>3, <1>4, <1>5, <1>6, <1>7, <1>8 DEF FileNext

\* The parts side by side: of each the types hold, for any number of processes and
\* of threads, whether flushes overlap or not.
THEOREM RedactionTypesKept == MCFairSpec => []RedactionTypeOK
<1> DEFINE J == TypeOK /\ OverlapsInv /\ FileTypeOK
<1>1. MCInit => J
  <2> SUFFICES ASSUME MCInit PROVE J
    OBVIOUS
  <2>1. Init /\ OverlapsInit /\ FileInit
    BY DEF MCInit
  <2>2. TypeOK
    BY <2>1, InitIInv DEF IInv
  <2>3. OverlapsInv
    BY <2>1, FS_EmptySet DEF OverlapsInit, OverlapsInv, Found
  <2>4. FileTypeOK
    BY <2>1, InitEstablishes DEF FileInv
  <2> QED BY <2>2, <2>3, <2>4
<1>2. J /\ [MCNext]_allVars => J'
  <2> SUFFICES ASSUME J, [MCNext]_allVars PROVE J'
    OBVIOUS
  <2>1. /\ Next \/ UNCHANGED vars
        /\ OverlapsNext \/ UNCHANGED overlapVars
        /\ FileNext \/ UNCHANGED fileVars
    BY DEF MCNext, Pseudonymize, Sweep, Keep, allVars
  <2>2. TypeOK'
    BY <2>1, NextTypeOK
  <2>3. OverlapsInv'
    BY <2>1, OverlapsInvSteps
  <2>4. FileTypeOK'
    BY <2>1, FileTypes
  <2> QED BY <2>2, <2>3, <2>4
<1>3. J => RedactionTypeOK
  BY OverlapsTypes DEF RedactionTypeOK
<1> QED BY <1>1, <1>2, <1>3, PTL DEF MCFairSpec
=============================================================================
