---------------------------- MODULE Pseudonymizer ----------------------------
(***************************************************************************)
(* Placeholders for personal data (Pseudonymizer in                        *)
(* backend/pii/pseudonymizer.py) over the mapping stores of                *)
(* backend/pii/store.py. A value gets the placeholder TYPE_SUFFIX, where   *)
(* the suffix is a truncated HMAC of the value (for an e-mail address, of  *)
(* its local part), or TYPE_SUFFIX_n if another value has taken it.        *)
(*                                                                         *)
(* pseudonymize() makes up to three kinds of calls to the store, and each  *)
(* call is atomic: a lock, a Redis transaction or an SQL statement. Within *)
(* a process nothing runs between them, since the handler calls it on the  *)
(* event loop without an await. Processes that share a store (Redis, a     *)
(* database) interleave at every call.                                     *)
(***************************************************************************)
EXTENDS Naturals

CONSTANTS
    Process,   \* the processes that share the store
    Type,      \* EntityType
    Value,     \* the personal data
    Digits,    \* suffix_length hexadecimal digits
    Suffix,    \* _hmac_suffix(_normalize_for_hmac(type, value))
    Nothing

ASSUME PseudonymizerAssumption ==
    /\ Suffix \in [Type -> [Value -> Digits]]
    /\ Nothing \notin Value

Placeholder == [type : Type, suffix : Digits, n : Nat]

VARIABLES
    table,      \* the store is a DatabaseStore (constant), or else a pair of maps
    original,   \* placeholder -> value, for the placeholders in the store
    existing,   \* value -> the placeholders get_by_original may return for it
    job,        \* the call of pseudonymize() that each process is in
    issued      \* history: what calls have returned

vars == <<table, original, existing, job, issued>>

Base(t, v) == [type |-> t, suffix |-> Suffix[t][v], n |-> 0]

Idle == [pc |-> "idle"]
Call == [pc : {"looking", "checking", "putting"}, type : Type, value : Value, ph : Placeholder]

TypeOK ==
    /\ table \in BOOLEAN
    /\ DOMAIN original \subseteq Placeholder
    /\ \A ph \in DOMAIN original : original[ph] \in Value
    /\ existing \in [Value -> SUBSET DOMAIN original]
    /\ job \in [Process -> Call \cup {Idle}]
    /\ issued \subseteq [type : Type, value : Value, ph : Placeholder]

Init ==
    /\ table \in BOOLEAN
    /\ original = [ph \in {} |-> Nothing]
    /\ existing = [v \in Value |-> {}]
    /\ job = [p \in Process |-> Idle]
    /\ issued = {}

-----------------------------------------------------------------------------
(* The mapping stores.                                                     *)

(* get_by_placeholder                                                      *)
Original(ph) == IF ph \in DOMAIN original THEN original[ph] ELSE Nothing

(* Mutation: the pair is written in one direction only.                    *)
PutOneWay(ph, v) ==
    /\ existing' = [existing EXCEPT ![v] = {ph}]
    /\ UNCHANGED original

(* put. The maps take the new pair, and forget an earlier placeholder of   *)
(* the value; a table keeps the row it has (INSERT OR IGNORE).             *)
Put(ph, v) ==
    IF table /\ ph \in DOMAIN original
      THEN UNCHANGED <<original, existing>>
      ELSE /\ original' = [x \in DOMAIN original \cup {ph} |->
                              IF x = ph THEN v ELSE original[x]]
           /\ existing' = [existing EXCEPT ![v] = IF table THEN @ \cup {ph} ELSE {ph}]

-----------------------------------------------------------------------------
(* pseudonymize().                                                         *)

Begin(p, t, v) ==
    /\ job[p].pc = "idle"
    /\ job' = [job EXCEPT ![p] = [pc |-> "looking", type |-> t, value |-> v,
                                  ph |-> Base(t, v)]]
    /\ UNCHANGED <<table, original, existing, issued>>

Return(p, ph) ==
    /\ job' = [job EXCEPT ![p] = Idle]
    /\ issued' = issued \cup {[type |-> job[p].type, value |-> job[p].value, ph |-> ph]}

(* A placeholder of the value is reused if its type is the one asked for.  *)
Reusable(t, ph) == ph.type = t

Look(p) ==
    /\ job[p].pc = "looking"
    /\ \/ \E ph \in existing[job[p].value] :
             IF Reusable(job[p].type, ph)
               THEN Return(p, ph)
               ELSE job' = [job EXCEPT ![p].pc = "checking"] /\ UNCHANGED issued
       \/ /\ existing[job[p].value] = {}
          /\ job' = [job EXCEPT ![p].pc = "checking"]
          /\ UNCHANGED issued
    /\ UNCHANGED <<table, original, existing>>

(* Mutation: the placeholder itself is checked, but not those with a       *)
(* counter.                                                                *)
FreeWithCounter(ph, v) == ph.n > 0 \/ Original(ph) \in {Nothing, v}

(* Mutation: a value does not recognise the placeholder it already has.    *)
FreeUnlessTaken(ph, v) == Original(ph) = Nothing

(* A candidate is taken if it stands for another value.                    *)
Free(ph, v) == Original(ph) \in {Nothing, v}

(* Mutation: the counter is not counted up.                                *)
NextIsSame(ph) == [ph EXCEPT !.n = 1]

NextCandidate(ph) == [ph EXCEPT !.n = @ + 1]

(* The check of the placeholder without a counter, then the loop of        *)
(* _resolve_collision.                                                     *)
Check(p) ==
    /\ job[p].pc = "checking"
    /\ job' = IF Free(job[p].ph, job[p].value)
                THEN [job EXCEPT ![p].pc = "putting"]
                ELSE [job EXCEPT ![p].ph = NextCandidate(@)]
    /\ UNCHANGED <<table, original, existing, issued>>

Save(p) ==
    /\ job[p].pc = "putting"
    /\ Put(job[p].ph, job[p].value)
    /\ Return(p, job[p].ph)
    /\ UNCHANGED table

(* A process dies and starts again; the store it shares is still there, as *)
(* Redis and SQLite are. (The default, a store in memory, would begin      *)
(* empty, as in Init, and a FileStore without what it had not flushed.)    *)
Crash(p) ==
    /\ job[p].pc # "idle"
    /\ job' = [job EXCEPT ![p] = Idle]
    /\ UNCHANGED <<table, original, existing, issued>>

-----------------------------------------------------------------------------
Step(p) == Look(p) \/ Check(p) \/ Save(p)

Next == \E p \in Process : \/ \E t \in Type, v \in Value : Begin(p, t, v)
                           \/ Step(p)
                           \/ Crash(p)

Spec == Init /\ [][Next]_vars

(* A call goes on until it returns: it waits for nothing but the store.    *)
FairSpec == Spec /\ \A p \in Process : WF_vars(Step(p))

-----------------------------------------------------------------------------
(* Properties.                                                             *)

(* Every placeholder that was handed out is restored to the value it was   *)
(* handed out for: no two values share one, and none is reassigned.        *)
Reversible == \A i \in issued : Original(i.ph) = i.value

(* A value has one placeholder per type, however its uses under several    *)
(* types alternate and whatever other values collide with it.              *)
Stable ==
    \A i, j \in issued : i.type = j.type /\ i.value = j.value => i.ph = j.ph

(* The search for a free placeholder ends.                                 *)
EveryCallReturns == \A p \in Process : job[p].pc = "checking" ~> job[p].pc = "idle"
=============================================================================
