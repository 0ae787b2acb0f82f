----------------------------- MODULE ScopeCache -----------------------------
(***************************************************************************)
(* The bounded cache of per-Scope write gates (internal/runtime/           *)
(* scope_cache.go and the semaphore of lifecycle.go).                      *)
(*                                                                         *)
(* An entry is a heap object: an immutable Scope key, a semaphore holding  *)
(* one token and a count of leases.  The cache maps a Scope to its current *)
(* entry and keeps the entries in order of use.  A goroutine leases the    *)
(* entry of a Scope, may take its token, returns the token and releases    *)
(* the lease.  A full cache evicts the least recently used entries nobody  *)
(* leases; a later lease of the same Scope then allocates a new entry,     *)
(* with a new token.  Every method of the cache runs under scopeCache.mu   *)
(* and is one action; the semaphore operations are actions of their own.   *)
(***************************************************************************)
EXTENDS Naturals, FiniteSets

CONSTANTS
    Holders,    \* the goroutines that lease Scopes
    Scopes,     \* exact Scope identifiers
    Addresses,  \* what tells two entries with the same key apart
    Capacity,   \* scopeCache.capacity
    None        \* the nil pointer

\* A scopeEntry pointer: the key never changes, so it is part of the identity.
Entry == Scopes \X Addresses

Key(e) == e[1]

ASSUME CacheAssumption ==
    /\ Capacity \in Nat \ {0}
    /\ IsFiniteSet(Holders)
    /\ IsFiniteSet(Scopes)
    /\ None \notin Entry
    /\ None \notin Holders

VARIABLES
    entries,    \* entries[s]: the current entry of Scope s, or None
    older,      \* the recency list: <<a, b>> when a is nearer its front than b
    leases,     \* leases[e]: scopeEntry.leases
    token,      \* token[e]: the semaphore channel of e holds its token
    lease,      \* lease[h]: the entry h has leased, or None
    locked      \* locked[h]: h took the token of the entry it leases

cacheVars == <<entries, older, leases, token, lease, locked>>

Cached == {s \in Scopes : entries[s] # None}

CacheTypeOK ==
    /\ entries \in [Scopes -> Entry \cup {None}]
    /\ older \subseteq Scopes \X Scopes
    /\ leases \in [Entry -> Nat]
    /\ token \in [Entry -> BOOLEAN]
    /\ lease \in [Holders -> Entry \cup {None}]
    /\ locked \in [Holders -> BOOLEAN]

CacheInit ==
    /\ entries = [s \in Scopes |-> None]
    /\ older = {}
    /\ leases = [e \in Entry |-> 0]
    /\ token = [e \in Entry |-> TRUE]
    /\ lease = [h \in Holders |-> None]
    /\ locked = [h \in Holders |-> FALSE]
-----------------------------------------------------------------------------
\* No pointer to e is left: it is unallocated, or garbage.
Unreachable(e) ==
    /\ \A s \in Scopes : entries[s] # e
    /\ \A h \in Holders : lease[h] # e

\* The list order ord with s taken out (Remove), and put at the back (MoveToBack).
Without(ord, gone) == {p \in ord : p[1] \notin gone /\ p[2] \notin gone}

ToBack(ord, s) == Without(ord, {s}) \cup ((Cached \ {s}) \X {s})

\* Mutant: the search for a victim does not look at leases.
MutantInactive(cnt) == Cached

Inactive(cnt) == {s \in Cached : cnt[entries[s]] = 0}

\* Mutant: makeRoomLocked runs while len > capacity.
MutantExcess(room) ==
    IF Cardinality(Cached) > Capacity THEN Cardinality(Cached) - Capacity ELSE 0

\* How many entries the eviction loops have to remove to leave `room` free
\* places: makeRoomLocked runs while len >= capacity, trimLocked while
\* len > capacity.
Excess(room) ==
    IF Cardinality(Cached) + room > Capacity
    THEN Cardinality(Cached) + room - Capacity
    ELSE 0

\* The keys the loop evicts: inactive ones, oldest first, as many as needed or
\* as there are.
Evicts(gone, ord, cnt, room) ==
    LET idle == Inactive(cnt) IN
    /\ gone \subseteq idle
    /\ Cardinality(gone) = IF Cardinality(idle) < Excess(room)
                           THEN Cardinality(idle) ELSE Excess(room)
    /\ \A a \in gone, b \in idle \ gone : <<a, b>> \in ord

\* scopeCache.lease on a Scope that is cached.
LeaseHit(h, s) ==
    /\ lease[h] = None
    /\ entries[s] # None
    /\ leases' = [leases EXCEPT ![entries[s]] = @ + 1]
    /\ older' = ToBack(older, s)
    /\ lease' = [lease EXCEPT ![h] = entries[s]]
    /\ UNCHANGED <<entries, token, locked>>

\* scopeCache.lease on a Scope that is not: make room, then allocate.
LeaseMiss(h, s) ==
    /\ lease[h] = None
    /\ entries[s] = None
    /\ \E gone \in SUBSET Cached, a \in Addresses :
        /\ Evicts(gone, older, leases, 1)
        /\ Unreachable(<<s, a>>)
        /\ entries' = [x \in Scopes |-> IF x = s THEN <<s, a>>
                                        ELSE IF x \in gone THEN None
                                        ELSE entries[x]]
        /\ older' = Without(older, gone) \cup ((Cached \ gone) \X {s})
        /\ leases' = [leases EXCEPT ![<<s, a>>] = 1]
        /\ token' = [token EXCEPT ![<<s, a>>] = TRUE]
        /\ lease' = [lease EXCEPT ![h] = <<s, a>>]
    /\ UNCHANGED locked

Lease(h, s) == LeaseHit(h, s) \/ LeaseMiss(h, s)

\* semaphore.acquire, when the token is there.
Acquire(h) ==
    /\ lease[h] # None
    /\ ~locked[h]
    /\ token[lease[h]]
    /\ token' = [token EXCEPT ![lease[h]] = FALSE]
    /\ locked' = [locked EXCEPT ![h] = TRUE]
    /\ UNCHANGED <<entries, older, leases, lease>>

\* The release function semaphore.acquire returned: send the token back.  The
\* channel holds one token, so the send would block on a full channel.
ReleaseToken(h) ==
    /\ locked[h]
    /\ ~token[lease[h]]
    /\ token' = [token EXCEPT ![lease[h]] = TRUE]
    /\ locked' = [locked EXCEPT ![h] = FALSE]
    /\ UNCHANGED <<entries, older, leases, lease>>

\* The condition on which scopeCache.release panics.
ReleasePanics(h) ==
    \/ entries[Key(lease[h])] # lease[h]
    \/ leases[lease[h]] < 1

\* scopeCache.release: drop the lease, move to the back, trim.
ReleaseLease(h) ==
    /\ lease[h] # None
    /\ ~locked[h]
    /\ ~ReleasePanics(h)
    /\ LET e == lease[h]
           cnt == [leases EXCEPT ![e] = @ - 1]
           ord == ToBack(older, Key(e))
       IN \E gone \in SUBSET Cached :
            /\ Evicts(gone, ord, cnt, 0)
            /\ leases' = cnt
            /\ older' = Without(ord, gone)
            /\ entries' = [x \in Scopes |-> IF x \in gone THEN None ELSE entries[x]]
    /\ lease' = [lease EXCEPT ![h] = None]
    /\ UNCHANGED <<token, locked>>

\* scopeCache.clear refuses when an entry is leased.
ClearRefused == \E s \in Cached : leases[entries[s]] > 0

Clear ==
    /\ ~ClearRefused
    /\ entries' = [s \in Scopes |-> None]
    /\ older' = {}
    /\ UNCHANGED <<leases, token, lease, locked>>

CacheNext ==
    \/ \E h \in Holders, s \in Scopes : Lease(h, s)
    \/ \E h \in Holders : Acquire(h) \/ ReleaseToken(h) \/ ReleaseLease(h)
    \/ Clear

CacheSpec == CacheInit /\ [][CacheNext]_cacheVars
-----------------------------------------------------------------------------
\* Writes to one exact Scope are serialized, whatever was evicted meanwhile:
\* two goroutines never hold tokens of entries with the same key.
WriteExclusion ==
    \A g, h \in Holders :
        g # h /\ locked[g] /\ locked[h] => Key(lease[g]) # Key(lease[h])

\* The panic "scope cache lease invariant violated" in scopeCache.release is
\* unreachable: a leased entry stays the current entry of its Scope.
LeasePinsEntry ==
    \A h \in Holders : lease[h] # None => ~ReleasePanics(h)

\* The lease count of an entry is the number of goroutines that point to it,
\* and a token is out exactly while one of them holds it.
CountsAreExact ==
    \A e \in Entry :
        /\ leases[e] = Cardinality({h \in Holders : lease[h] = e})
        /\ ~token[e] <=> \E h \in Holders : lease[h] = e /\ locked[h]

\* The cache grows past its capacity only while every entry in it is leased, so
\* the last release brings it back under the bound.
OverCapacityOnlyPinned ==
    Cardinality(Cached) > Capacity => Inactive(leases) = {}

\* The goroutine inside the write section of a Scope.
Owner ==
    [s \in Scopes |->
        IF \E h \in Holders : locked[h] /\ Key(lease[h]) = s
        THEN CHOOSE h \in Holders : locked[h] /\ Key(lease[h]) = s
        ELSE None]

Mutex == INSTANCE ScopeMutex WITH owner <- Owner

\* The cache of gates implements one mutex per exact Scope (ScopedWrite's
\* promise), through evictions and reallocations of the gates.
ImplementsMutex == Mutex!Spec
=============================================================================
