------------------------------ MODULE TTLStore ------------------------------
(***************************************************************************)
(* The bounded map whose entries expire: TTLStore of                       *)
(* services/auto_session.py, and _TurnStash of llm/anthropic_client.py,    *)
(* which is the same code.  A store is the sequence of its entries, least  *)
(* recently used first.  Its methods hold a lock, so each is one step.     *)
(***************************************************************************)
EXTENDS Integers, Sequences

Entry(key, value, at) == [key |-> key, value |-> value, at |-> at]

Places(store, key) == {i \in DOMAIN store : store[i].key = key}

\* The entries of every other key, in their order: a key has one at most.
Without(store, key) ==
    LET place == CHOOSE i \in Places(store, key) : TRUE
    IN IF Places(store, key) = {} THEN store
       ELSE SubSeq(store, 1, place - 1) \o SubSeq(store, place + 1, Len(store))

Expired(entry, now, ttl) == now - entry.at > ttl

\* The places of a key's entry, if it has one that is not expired.
Live(store, key, now, ttl) == {i \in Places(store, key) : ~Expired(store[i], now, ttl)}

\* get: the set that holds the value, or the empty set.
Lookup(store, key, now, ttl) == {store[i].value : i \in Live(store, key, now, ttl)}

\* get: an expired entry is deleted, any other becomes the most recent one,
\* without a new lease.
AfterGet(store, key, now, ttl) ==
    IF Live(store, key, now, ttl) = {} THEN Without(store, key)
    ELSE Append(Without(store, key), store[CHOOSE i \in Live(store, key, now, ttl) : TRUE])

\* Mutation: nothing is evicted.
AfterPutUnbounded(store, key, value, now, max) ==
    Append(Without(store, key), Entry(key, value, now))

\* put: the oldest entries go when there are too many.
AfterPut(store, key, value, now, max) ==
    LET full == Append(Without(store, key), Entry(key, value, now))
    IN IF Len(full) > max THEN Tail(full) ELSE full

StoreOK(store, max) ==
    /\ Len(store) <= max
    /\ \A i, j \in DOMAIN store : store[i].key = store[j].key => i = j
=============================================================================
