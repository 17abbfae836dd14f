----------------------------- MODULE RHashTable -----------------------------
(***************************************************************************)
(* The resizable hash table of util/rhashtable.rs: chains that are pushed  *)
(* at the head, a search that gives up after RHT_ELASTICITY steps, and a   *)
(* deferred worker that doubles or halves the table under a new seed.      *)
(* Every call holds the gate, so a call is one step; between two calls the *)
(* work queue may run the worker.                                          *)
(*                                                                         *)
(* A table is [size, seed, chains, nelems, work]: `seed' stands for the    *)
(* hash function hash_rnd selects, `work' for the pending bit of run_work. *)
(* `val' gives the key of every element.                                   *)
(***************************************************************************)
EXTENDS Integers, FiniteSets, SequencesExt

CONSTANTS
    Elasticity,  \* RHT_ELASTICITY
    MinSize,     \* HASH_MIN_SIZE
    Seeds        \* the hash functions a seed may select

NoElement == 0

bucket_table_alloc(size, seed) ==
    [size |-> size, seed |-> seed, chains |-> [i \in 0..size - 1 |-> <<>>],
     nelems |-> 0, work |-> FALSE]

rht_key_hashfn(t, k) == t.seed[k] % t.size

Chain(t, k) == t.chains[rht_key_hashfn(t, k)]

(* The elements a search of the chain compares.                              *)
Searched(t, k) == SubSeq(Chain(t, k), 1, Min({Elasticity, Len(Chain(t, k))}))

rhashtable_lookup_fast(t, val, k) ==
    LET found == {i \in 1..Len(Searched(t, k)) : val[Chain(t, k)[i]] = k}
    IN  IF found = {} THEN NoElement ELSE Chain(t, k)[Min(found)]

Schedule(t, when) == [t EXCEPT !.work = @ \/ when]

TooFull(t) == t.nelems > (t.size * 3) \div 4

TooEmpty(t) == t.size > MinSize /\ t.nelems < (t.size * 3) \div 10

(* Mutant: a chain that is too long takes the element all the same.          *)
InsertAnyway(t, val, e) ==
    LET k == val[e]
        u == [t EXCEPT !.chains[rht_key_hashfn(t, k)] = <<e>> \o @,
                       !.nelems = @ + 1]
    IN  IF rhashtable_lookup_fast(t, val, k) # NoElement THEN [t |-> t, ret |-> -17]
        ELSE [t |-> Schedule(u, TooFull(u)), ret |-> 0]

(* -17 for a key the search finds, -7 when the search ends before the chain. *)
rhashtable_lookup_insert_fast(t, val, e) ==
    LET k == val[e]
        u == [t EXCEPT !.chains[rht_key_hashfn(t, k)] = <<e>> \o @,
                       !.nelems = @ + 1]
    IN  IF rhashtable_lookup_fast(t, val, k) # NoElement THEN [t |-> t, ret |-> -17]
        ELSE IF Len(Chain(t, k)) > Elasticity
        THEN [t |-> Schedule(t, TRUE), ret |-> -7]
        ELSE [t |-> Schedule(u, TooFull(u)), ret |-> 0]

(* The whole chain is searched for the element itself.                       *)
rhashtable_remove_fast(t, val, e) ==
    LET k == val[e]
        u == [t EXCEPT !.chains[rht_key_hashfn(t, k)] = Remove(@, e),
                       !.nelems = @ - 1]
    IN  IF \E i \in DOMAIN Chain(t, k) : Chain(t, k)[i] = e
        THEN [t |-> Schedule(u, TooEmpty(u)), ret |-> 0]
        ELSE [t |-> t, ret |-> -2]

(* The chains are moved in the order of the old buckets, each element to the *)
(* head of its new chain.                                                    *)
rehash_locked(t, val, size, seed) ==
    LET moved == FlattenSeq([i \in 1..t.size |-> t.chains[i - 1]])
    IN  [t EXCEPT !.size = size, !.seed = seed,
                  !.chains = [i \in 0..size - 1 |->
                     Reverse(SelectSeq(moved, LAMBDA e : seed[val[e]] % size = i))]]

(* The tables the worker may leave; the work queue clears the pending bit    *)
(* before it runs it.                                                        *)
rht_deferred_worker(t, val) ==
    LET u == [t EXCEPT !.work = FALSE]
    IN  IF TooFull(t) THEN {rehash_locked(u, val, 2 * t.size, s) : s \in Seeds}
        ELSE IF TooEmpty(t)
        THEN {rehash_locked(u, val, t.size \div 2, s) : s \in Seeds}
        ELSE {u}

-----------------------------------------------------------------------------
Elements(t) == UNION {ToSet(t.chains[i]) : i \in DOMAIN t.chains}

(* An element is in one chain, the one its key selects, and is counted.      *)
TableOk(t, val) ==
    /\ DOMAIN t.chains = 0..t.size - 1
    /\ \A i \in DOMAIN t.chains :
         /\ IsInjective(t.chains[i])
         /\ \A e \in ToSet(t.chains[i]) : rht_key_hashfn(t, val[e]) = i
    /\ t.nelems = Cardinality(Elements(t))
=============================================================================
