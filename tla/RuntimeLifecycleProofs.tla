----------------------- MODULE RuntimeLifecycleProofs -----------------------
(***************************************************************************)
(* For every number of goroutines and Scopes and every capacity: an entry  *)
(* that is leased stays the current entry of its Scope, so all writers of  *)
(* a Scope meet at one token, and the cache implements ScopeMutex.         *)
(* For every number of callers, closers, Scopes and resources: the Runtime *)
(* drives the cache of gates only through its operations, so what is       *)
(* proved of the cache holds in it; the drain of Close counts exactly; the *)
(* tear-down meets no operation and no lease; and a closed Runtime has     *)
(* released everything.                                                    *)
(***************************************************************************)
EXTENDS RuntimeLifecycle, FiniteSetTheorems, TLAPS

-----------------------------------------------------------------------------
(* The cache of write gates *)

Holding(e) == {h \in Holders : lease[h] = e}

\* Entries sit under their own key, and a leased entry is the current one.
Pinned ==
    /\ \A s \in Scopes : entries[s] # None => Key(entries[s]) = s
    /\ \A h \in Holders : lease[h] # None => entries[Key(lease[h])] = lease[h]

Counted == \A e \in Entry : leases[e] = Cardinality(Holding(e))

\* The token of an entry is out exactly while one lease holder has it.
OneToken ==
    /\ \A h \in Holders : locked[h] => lease[h] # None
    /\ \A e \in Entry : ~token[e] <=> \E h \in Holders : lease[h] = e /\ locked[h]
    /\ \A g, h \in Holders : locked[g] /\ locked[h] /\ lease[g] = lease[h] => g = h

CacheInv == CacheTypeOK /\ Pinned /\ Counted /\ OneToken

\* Type correctness of the cache and its leases (scope_cache.go), also used by
\* every later step.
THEOREM CacheTypeCorrect == CacheSpec => []CacheTypeOK
<1>1. CacheInit => CacheTypeOK
  BY DEF CacheInit, CacheTypeOK
<1>2. CacheTypeOK /\ [CacheNext]_cacheVars => CacheTypeOK'
  <2> SUFFICES ASSUME CacheTypeOK, [CacheNext]_cacheVars PROVE CacheTypeOK'
    OBVIOUS
  <2> USE DEF CacheTypeOK
  <2>1. ASSUME NEW h \in Holders, NEW s \in Scopes, LeaseHit(h, s) PROVE CacheTypeOK'
    BY <2>1 DEF LeaseHit, ToBack, Without, Cached
  <2>2. ASSUME NEW h \in Holders, NEW s \in Scopes, LeaseMiss(h, s) PROVE CacheTypeOK'
    BY <2>2 DEF LeaseMiss, Without, Cached, Entry
  <2>3. ASSUME NEW h \in Holders, Acquire(h) PROVE CacheTypeOK'
    BY <2>3 DEF Acquire
  <2>4. ASSUME NEW h \in Holders, ReleaseToken(h) PROVE CacheTypeOK'
    BY <2>4 DEF ReleaseToken
  <2>5. ASSUME NEW h \in Holders, ReleaseLease(h) PROVE CacheTypeOK'
    <3> DEFINE e == lease[h]
    <3>1. PICK gone \in SUBSET Cached :
            /\ older' = Without(ToBack(older, Key(e)), gone)
            /\ entries' = [x \in Scopes |-> IF x \in gone THEN None ELSE entries[x]]
      BY <2>5 DEF ReleaseLease
    <3>2. e \in Entry /\ Key(e) \in Scopes
      BY <2>5 DEF ReleaseLease, Entry, Key
    <3>3. leases' \in [Entry -> Nat]
      BY <2>5, <3>2 DEF ReleaseLease, ReleasePanics
    <3>4. older' \subseteq Scopes \X Scopes
      BY <3>1, <3>2 DEF ToBack, Without, Cached
    <3>5. entries' \in [Scopes -> Entry \cup {None}]
      BY <3>1
    <3> QED
      BY <2>5, <3>3, <3>4, <3>5 DEF ReleaseLease
  <2>6. CASE Clear
    BY <2>6 DEF Clear
  <2>7. CASE UNCHANGED cacheVars
    BY <2>7 DEF cacheVars
  <2> QED
    BY <2>1, <2>2, <2>3, <2>4, <2>5, <2>6, <2>7 DEF CacheNext, Lease
<1> QED
  BY <1>1, <1>2, PTL DEF CacheSpec

\* What is counted is finite, so an entry nobody counts is leased by nobody.
LEMMA HoldingFacts ==
    ASSUME CacheTypeOK, Counted
    PROVE  /\ \A e : IsFiniteSet(Holding(e))
           /\ \A e \in Entry, h \in Holders : lease[h] = e => leases[e] >= 1
<1>1. \A e : IsFiniteSet(Holding(e))
  <2> TAKE e
  <2>1. Holding(e) \subseteq Holders
    BY DEF Holding
  <2> QED
    BY <2>1, CacheAssumption, FS_Subset
<1>2. ASSUME NEW e \in Entry, NEW h \in Holders, lease[h] = e
      PROVE  leases[e] >= 1
  <2>1. Holding(e) # {}
    BY <1>2 DEF Holding
  <2>2. Cardinality(Holding(e)) # 0 /\ Cardinality(Holding(e)) \in Nat
    BY <1>1, <2>1, FS_EmptySet, FS_CardinalityType
  <2> QED
    BY <2>2 DEF Counted
<1> QED
  BY <1>1, <1>2

\* The keys a loop evicts are leased by nobody.
LEMMA EvictedAreIdle ==
    ASSUME CacheInv, NEW cnt \in [Entry -> Nat], NEW ord, NEW room, NEW gone,
           Evicts(gone, ord, cnt, room)
    PROVE  /\ gone \subseteq Cached
           /\ \A x \in gone : x \in Scopes /\ entries[x] \in Entry /\ cnt[entries[x]] = 0
BY DEF Evicts, Inactive, Cached, CacheInv, CacheTypeOK

\* The inductive step, one lemma per operation that changes entries or leases.
LEMMA LeaseHitInv ==
    ASSUME CacheInv, CacheTypeOK', NEW h \in Holders, NEW s \in Scopes, LeaseHit(h, s)
    PROVE  CacheInv'
<1> DEFINE e == entries[s]
<1> USE DEF CacheInv, CacheTypeOK
<1>1. e \in Entry /\ lease[h] = None /\ None \notin Entry
  BY CacheAssumption DEF LeaseHit
<1>2. /\ entries' = entries /\ token' = token /\ locked' = locked
      /\ lease' = [lease EXCEPT ![h] = e]
      /\ leases' = [leases EXCEPT ![e] = @ + 1]
  BY DEF LeaseHit
<1>3. Pinned'
  BY <1>1, <1>2 DEF Pinned
<1>4. Counted'
  <2> SUFFICES ASSUME NEW f \in Entry PROVE leases'[f] = Cardinality(Holding(f)')
    BY DEF Counted
  <2>1. CASE f = e
    <3>1. Holding(f)' = Holding(f) \cup {h} /\ h \notin Holding(f)
      BY <1>1, <1>2, <2>1 DEF Holding
    <3>2. Cardinality(Holding(f) \cup {h}) = Cardinality(Holding(f)) + 1
      BY <3>1, HoldingFacts, FS_AddElement
    <3> QED
      BY <1>2, <2>1, <3>1, <3>2 DEF Counted
  <2>2. CASE f # e
    <3>1. Holding(f)' = Holding(f)
      BY <1>1, <1>2, <2>2 DEF Holding
    <3> QED
      BY <1>2, <2>2, <3>1 DEF Counted
  <2> QED
    BY <2>1, <2>2
<1>5. OneToken'
  <2>1. ~locked[h]
    BY <1>1 DEF OneToken
  <2> QED
    BY <1>1, <1>2, <2>1 DEF OneToken
<1> QED
  BY <1>3, <1>4, <1>5

LEMMA LeaseMissInv ==
    ASSUME CacheInv, CacheTypeOK', NEW h \in Holders, NEW s \in Scopes, LeaseMiss(h, s)
    PROVE  CacheInv'
<1> USE DEF CacheInv, CacheTypeOK
<1>1. PICK gone \in SUBSET Cached, a \in Addresses :
        /\ Evicts(gone, older, leases, 1)
        /\ Unreachable(<<s, a>>)
        /\ entries' = [x \in Scopes |-> IF x = s THEN <<s, a>>
                                        ELSE IF x \in gone THEN None
                                        ELSE entries[x]]
        /\ leases' = [leases EXCEPT ![<<s, a>>] = 1]
        /\ token' = [token EXCEPT ![<<s, a>>] = TRUE]
        /\ lease' = [lease EXCEPT ![h] = <<s, a>>]
  BY DEF LeaseMiss
<1> DEFINE e == <<s, a>>
<1>2. /\ e \in Entry /\ Key(e) = s /\ None \notin Entry
      /\ lease[h] = None /\ entries[s] = None /\ locked' = locked
      /\ \A x \in Scopes : entries[x] # e
      /\ \A g \in Holders : lease[g] # e
  BY <1>1, CacheAssumption DEF LeaseMiss, Entry, Key, Unreachable
<1>3. \A x \in gone : x \in Scopes /\ entries[x] \in Entry /\ leases[entries[x]] = 0
  BY <1>1, EvictedAreIdle
<1>4. \A g \in Holders : lease[g] # None => Key(lease[g]) \notin gone /\ Key(lease[g]) # s
  <2> SUFFICES ASSUME NEW g \in Holders, lease[g] # None
               PROVE  Key(lease[g]) \notin gone /\ Key(lease[g]) # s
    OBVIOUS
  <2>1. entries[Key(lease[g])] = lease[g] /\ lease[g] \in Entry
    BY DEF Pinned
  <2>2. leases[lease[g]] >= 1
    BY <2>1, HoldingFacts
  <2> QED
    BY <1>2, <1>3, <2>1, <2>2
<1>5. Pinned'
  <2>1. \A g \in Holders : lease[g] # None => Key(lease[g]) \in Scopes
    BY DEF Entry, Key
  <2> QED
    BY <1>1, <1>2, <1>4, <2>1 DEF Pinned
<1>6. Counted'
  <2> SUFFICES ASSUME NEW f \in Entry PROVE leases'[f] = Cardinality(Holding(f)')
    BY DEF Counted
  <2>1. CASE f = e
    <3>1. Holding(f)' = {h}
      BY <1>1, <1>2, <2>1 DEF Holding
    <3> QED
      BY <1>1, <1>2, <2>1, <3>1, FS_Singleton
  <2>2. CASE f # e
    <3>1. Holding(f)' = Holding(f)
      BY <1>1, <1>2, <2>2 DEF Holding
    <3> QED
      BY <1>1, <2>2, <3>1 DEF Counted
  <2> QED
    BY <2>1, <2>2
<1>7. OneToken'
  <2>1. ~locked[h]
    BY <1>2 DEF OneToken
  <2> QED
    BY <1>1, <1>2, <2>1 DEF OneToken
<1> QED
  BY <1>5, <1>6, <1>7

LEMMA ReleaseLeaseInv ==
    ASSUME CacheInv, CacheTypeOK', NEW h \in Holders, ReleaseLease(h)
    PROVE  CacheInv'
<1> USE DEF CacheInv, CacheTypeOK
<1> DEFINE e == lease[h]
           cnt == [leases EXCEPT ![e] = @ - 1]
<1>1. PICK gone \in SUBSET Cached :
        /\ Evicts(gone, ToBack(older, Key(e)), cnt, 0)
        /\ leases' = cnt
        /\ entries' = [x \in Scopes |-> IF x \in gone THEN None ELSE entries[x]]
  BY DEF ReleaseLease
<1>2. /\ e \in Entry /\ None \notin Entry /\ ~locked[h] /\ locked' = locked /\ token' = token
      /\ lease' = [lease EXCEPT ![h] = None]
  BY CacheAssumption DEF ReleaseLease
<1>3. Counted'
  <2> SUFFICES ASSUME NEW f \in Entry PROVE leases'[f] = Cardinality(Holding(f)')
    BY DEF Counted
  <2>1. CASE f = e
    <3>1. Holding(f)' = Holding(f) \ {h} /\ h \in Holding(f)
      BY <1>2, <2>1 DEF Holding
    <3>2. Cardinality(Holding(f) \ {h}) = Cardinality(Holding(f)) - 1
      <4>1. IsFiniteSet(Holding(f))
        BY HoldingFacts
      <4> QED
        BY <3>1, <4>1, FS_RemoveElement
    <3> QED
      BY <1>1, <2>1, <3>1, <3>2 DEF Counted
  <2>2. CASE f # e
    <3>1. Holding(f)' = Holding(f)
      BY <1>2, <2>2 DEF Holding
    <3> QED
      BY <1>1, <2>2, <3>1 DEF Counted
  <2> QED
    BY <2>1, <2>2
<1>4. \A x \in gone : x \in Scopes /\ entries[x] \in Entry /\ leases'[entries[x]] = 0
  <2>1. cnt \in [Entry -> Nat] /\ CacheInv
    BY <1>1
  <2>2. \A x \in gone : x \in Scopes /\ entries[x] \in Entry /\ cnt[entries[x]] = 0
    <3> HIDE DEF CacheInv, CacheTypeOK, cnt
    <3> QED
      BY <1>1, <2>1, EvictedAreIdle
  <2> QED
    BY <1>1, <2>2
<1>5. \A g \in Holders : lease'[g] # None => lease'[g] = lease[g] /\ Key(lease[g]) \notin gone
  <2> SUFFICES ASSUME NEW g \in Holders, lease'[g] # None
               PROVE  lease'[g] = lease[g] /\ Key(lease[g]) \notin gone
    OBVIOUS
  <2>1. g # h /\ lease'[g] = lease[g] /\ lease[g] \in Entry
    BY <1>2
  <2>2. entries[Key(lease[g])] = lease[g]
    BY <2>1, <1>2 DEF Pinned
  <2>3. leases'[lease[g]] >= 1
    <3>1. (\A f \in Entry, k \in Holders : lease[k] = f => leases[f] >= 1)'
      <4>1. (\A f : IsFiniteSet(Holding(f)))'
        <5> SUFFICES ASSUME NEW f PROVE IsFiniteSet(Holding(f)')
          OBVIOUS
        <5>1. Holding(f)' \subseteq Holders
          BY DEF Holding
        <5> QED
          BY <5>1, CacheAssumption, FS_Subset
      <4> SUFFICES ASSUME NEW f \in Entry, NEW k \in Holders, lease'[k] = f
                   PROVE  leases'[f] >= 1
        OBVIOUS
      <4>2. Holding(f)' # {}
        BY DEF Holding
      <4>3. Cardinality(Holding(f)') # 0 /\ Cardinality(Holding(f)') \in Nat
        BY <4>1, <4>2, FS_EmptySet, FS_CardinalityType
      <4> QED
        BY <1>3, <4>3 DEF Counted
    <3> QED
      BY <2>1, <3>1
  <2> QED
    BY <1>4, <2>1, <2>2, <2>3
<1>6. Pinned'
  <2>1. \A g \in Holders : lease[g] # None => Key(lease[g]) \in Scopes
    BY DEF Entry, Key
  <2> QED
    BY <1>1, <1>5, <2>1 DEF Pinned
<1>7. OneToken'
  BY <1>2 DEF OneToken
<1> QED
  BY <1>3, <1>6, <1>7

\* The inductive invariant of the cache: keys, leases, counts and tokens agree.
THEOREM CacheInvariant == CacheSpec => []CacheInv
<1>1. CacheInit => CacheInv
  <2> SUFFICES ASSUME CacheInit PROVE CacheInv
    OBVIOUS
  <2>1. CacheTypeOK
    BY DEF CacheInit, CacheTypeOK
  <2>2. \A e \in Entry : Holding(e) = {}
    BY CacheAssumption DEF CacheInit, Holding
  <2>3. Counted
    BY <2>2, FS_EmptySet DEF CacheInit, Counted
  <2> QED
    BY <2>1, <2>3, CacheAssumption DEF CacheInit, CacheInv, Pinned, OneToken
<1>2. CacheInv /\ CacheTypeOK' /\ [CacheNext]_cacheVars => CacheInv'
  <2> SUFFICES ASSUME CacheInv, CacheTypeOK', [CacheNext]_cacheVars PROVE CacheInv'
    OBVIOUS
  <2> USE DEF CacheInv
  <2>1. ASSUME NEW h \in Holders, NEW s \in Scopes, Lease(h, s) PROVE CacheInv'
    BY <2>1, LeaseHitInv, LeaseMissInv DEF Lease
  <2>2. ASSUME NEW h \in Holders, Acquire(h) PROVE CacheInv'
    <3>1. Pinned' /\ Counted'
      BY <2>2 DEF Acquire, Pinned, Counted, Holding
    <3>2. OneToken'
      BY <2>2 DEF Acquire, OneToken, CacheTypeOK
    <3> QED
      BY <3>1, <3>2
  <2>3. ASSUME NEW h \in Holders, ReleaseToken(h) PROVE CacheInv'
    <3>1. Pinned' /\ Counted'
      BY <2>3 DEF ReleaseToken, Pinned, Counted, Holding
    <3>2. OneToken'
      BY <2>3 DEF ReleaseToken, OneToken, CacheTypeOK
    <3> QED
      BY <3>1, <3>2
  <2>4. ASSUME NEW h \in Holders, ReleaseLease(h) PROVE CacheInv'
    BY <2>4, ReleaseLeaseInv
  <2>5. CASE Clear
    <3>1. \A h \in Holders : lease[h] = None
      <4> SUFFICES ASSUME NEW h \in Holders, lease[h] # None PROVE FALSE
        OBVIOUS
      <4>1. lease[h] \in Entry /\ Key(lease[h]) \in Scopes /\ entries[Key(lease[h])] = lease[h]
        BY DEF CacheTypeOK, Pinned, Entry, Key
      <4>2. leases[lease[h]] >= 1
        BY <4>1, HoldingFacts
      <4>3. leases[lease[h]] \in Nat
        BY <4>1 DEF CacheTypeOK
      <4> QED
        BY <2>5, <4>1, <4>2, <4>3 DEF Clear, ClearRefused, Cached
    <3>2. UNCHANGED <<leases, token, lease, locked>>
      BY <2>5 DEF Clear
    <3>3. Counted'
      BY <3>2 DEF Counted, Holding
    <3>4. OneToken'
      BY <3>2 DEF OneToken
    <3> QED
      BY <2>5, <3>1, <3>3, <3>4 DEF Clear, Pinned
  <2>6. CASE UNCHANGED cacheVars
    BY <2>6 DEF cacheVars, CacheTypeOK, Pinned, Counted, OneToken, Holding
  <2> QED
    BY <2>1, <2>2, <2>3, <2>4, <2>5, <2>6 DEF CacheNext
<1> QED
  BY <1>1, <1>2, CacheTypeCorrect, PTL DEF CacheSpec

\* ScopedWrite's promise: writers of one exact Scope exclude each other, although
\* entries come and go.  Both leases are pinned to the current entry of the
\* Scope, so both writers would hold the same token.
THEOREM WritersExclude == CacheSpec => []WriteExclusion
<1>1. CacheInv => WriteExclusion
  BY DEF CacheInv, WriteExclusion, Pinned, OneToken
<1> QED
  BY <1>1, CacheInvariant, PTL

\* The panic of scopeCache.release is unreachable.
THEOREM ReleaseNeverPanics == CacheSpec => []LeasePinsEntry
<1>1. CacheInv => LeasePinsEntry
  <2> SUFFICES ASSUME CacheInv, NEW h \in Holders, lease[h] # None PROVE ~ReleasePanics(h)
    BY DEF LeasePinsEntry
  <2>1. lease[h] \in Entry /\ leases[lease[h]] \in Nat
    BY DEF CacheInv, CacheTypeOK
  <2>2. leases[lease[h]] >= 1
    BY <2>1, HoldingFacts DEF CacheInv
  <2> QED
    BY <2>1, <2>2 DEF CacheInv, Pinned, ReleasePanics
<1> QED
  BY <1>1, CacheInvariant, PTL

\* Lease counts and tokens are exact (scopeEntry.leases, semaphore.token).
THEOREM ExactCounts == CacheSpec => []CountsAreExact
<1>1. CacheInv => CountsAreExact
  BY DEF CacheInv, CountsAreExact, Counted, OneToken, Holding
<1> QED
  BY <1>1, CacheInvariant, PTL

\* An eviction loop stops with enough room or with no idle entry left.
LEMMA EvictionMakesRoom ==
    ASSUME NEW cnt, NEW ord, NEW room \in Nat, NEW gone, Evicts(gone, ord, cnt, room)
    PROVE  /\ IsFiniteSet(Cached \ gone)
           /\ Cardinality(Cached \ gone) \in Nat
           /\ Cardinality(Cached \ gone) + room <= Capacity \/ gone = Inactive(cnt)
<1> DEFINE idle == Inactive(cnt)
<1>1. IsFiniteSet(Cached) /\ idle \subseteq Cached /\ gone \subseteq idle
  <2>1. Cached \subseteq Scopes
    BY DEF Cached
  <2> QED
    BY <2>1, CacheAssumption, FS_Subset DEF Evicts, Inactive
<1>2. IsFiniteSet(idle) /\ IsFiniteSet(gone) /\ gone \subseteq Cached
  BY <1>1, FS_Subset
<1>3. /\ Cardinality(Cached) \in Nat /\ Cardinality(idle) \in Nat
      /\ Cardinality(gone) \in Nat /\ Capacity \in Nat
  BY <1>1, <1>2, FS_CardinalityType, CacheAssumption
<1>4. Cardinality(gone) = Cardinality(idle) => gone = idle
  BY <1>1, <1>2, FS_Subset
<1>5. /\ IsFiniteSet(Cached \ gone)
      /\ Cardinality(Cached \ gone) = Cardinality(Cached) - Cardinality(gone)
  <2>1. Cached \cap gone = gone
    BY <1>2
  <2> QED
    BY <1>1, <2>1, FS_Difference
<1>6. Cardinality(Cached \ gone) \in Nat
  BY <1>5, FS_CardinalityType
<1>7. Cardinality(gone) = IF Cardinality(idle) < Excess(room)
                          THEN Cardinality(idle) ELSE Excess(room)
  BY DEF Evicts
<1>8. Excess(room) = IF Cardinality(Cached) + room > Capacity
                     THEN Cardinality(Cached) + room - Capacity ELSE 0
  BY DEF Excess
<1> HIDE DEF idle
<1>9. Cardinality(Cached \ gone) + room <= Capacity \/ gone = idle
  BY <1>3, <1>4, <1>5, <1>7, <1>8
<1> QED
  BY <1>5, <1>6, <1>9 DEF idle

\* The cache exceeds its capacity only by entries that are leased: a lease evicts
\* whatever it may before it adds an entry, and a release trims (makeRoomLocked,
\* trimLocked).
THEOREM BoundYieldsToLeases == CacheSpec => []OverCapacityOnlyPinned
<1>1. CacheInit => OverCapacityOnlyPinned
  <2> SUFFICES ASSUME CacheInit PROVE Cached = {}
    BY FS_EmptySet, CacheAssumption DEF OverCapacityOnlyPinned
  <2> QED
    BY DEF CacheInit, Cached
<1>2. ASSUME CacheInv, CacheInv', OverCapacityOnlyPinned, [CacheNext]_cacheVars PROVE OverCapacityOnlyPinned'
  <2> USE <1>2
  <2>1. entries \in [Scopes -> Entry \cup {None}] /\ leases \in [Entry -> Nat]
    BY DEF CacheInv, CacheTypeOK
  <2>2. ASSUME NEW h \in Holders, NEW s \in Scopes, LeaseHit(h, s)
        PROVE  OverCapacityOnlyPinned'
    <3>1. entries[s] \in Entry /\ leases' = [leases EXCEPT ![entries[s]] = @ + 1]
          /\ entries' = entries
      BY <2>1, <2>2 DEF LeaseHit
    <3>2. Cached' = Cached
      BY <3>1 DEF Cached
    <3>3. ASSUME NEW x \in Cached, leases'[entries[x]] = 0 PROVE leases[entries[x]] = 0
      <4>1. x \in Scopes /\ entries[x] \in Entry
        BY <2>1 DEF Cached
      <4> QED
        BY <2>1, <3>1, <3>3, <4>1
    <3>4. Inactive(leases)' \subseteq Inactive(leases)
      BY <3>1, <3>2, <3>3 DEF Inactive
    <3> QED
      BY <3>2, <3>4 DEF OverCapacityOnlyPinned
  <2>3. ASSUME NEW h \in Holders, NEW s \in Scopes, LeaseMiss(h, s)
        PROVE  OverCapacityOnlyPinned'
    <3>1. PICK gone \in SUBSET Cached, a \in Addresses :
            /\ Evicts(gone, older, leases, 1)
            /\ entries' = [x \in Scopes |-> IF x = s THEN <<s, a>>
                                            ELSE IF x \in gone THEN None
                                            ELSE entries[x]]
            /\ leases' = [leases EXCEPT ![<<s, a>>] = 1]
      BY <2>3 DEF LeaseMiss
    <3>2. <<s, a>> \in Entry /\ <<s, a>> # None /\ s \notin Cached
      <4>1. <<s, a>> \in Entry
        BY DEF Entry
      <4>2. s \notin Cached
        BY <2>3 DEF LeaseMiss, Cached
      <4> QED
        BY <4>1, <4>2, CacheAssumption
    <3>3. Cached' = (Cached \ gone) \cup {s}
      BY <3>1, <3>2 DEF Cached
    <3>4. /\ IsFiniteSet(Cached \ gone)
          /\ Cardinality(Cached \ gone) \in Nat
          /\ Cardinality(Cached \ gone) + 1 <= Capacity \/ gone = Inactive(leases)
      BY <3>1, EvictionMakesRoom
    <3>5. Cardinality(Cached') = Cardinality(Cached \ gone) + 1
      BY <3>2, <3>3, <3>4, FS_AddElement
    <3>6. ASSUME gone = Inactive(leases), NEW x \in Cached' PROVE leases'[entries'[x]] # 0
      <4>1. CASE x = s
        BY <2>1, <3>1, <3>2, <4>1
      <4>2. CASE x # s
        <5>1. x \in Cached /\ x \notin gone /\ x \in Scopes /\ entries'[x] = entries[x]
          BY <3>1, <3>3, <4>2 DEF Cached
        <5>2. entries[x] \in Entry /\ leases[entries[x]] # 0
          BY <2>1, <3>6, <5>1 DEF Cached, Inactive
        <5> QED
          BY <2>1, <3>1, <3>2, <5>1, <5>2
      <4> QED
        BY <4>1, <4>2
    <3>7. gone = Inactive(leases) => Inactive(leases)' = {}
      BY <3>6 DEF Inactive
    <3> QED
      BY <3>4, <3>5, <3>7, CacheAssumption DEF OverCapacityOnlyPinned
  <2>4. ASSUME NEW h \in Holders, ReleaseLease(h) PROVE OverCapacityOnlyPinned'
    <3>1. PICK gone \in SUBSET Cached :
            /\ Evicts(gone, ToBack(older, Key(lease[h])), leases', 0)
            /\ entries' = [x \in Scopes |-> IF x \in gone THEN None ELSE entries[x]]
      BY <2>4 DEF ReleaseLease
    <3>2. Cached' = Cached \ gone
      BY <3>1 DEF Cached
    <3>3. /\ Cardinality(Cached \ gone) \in Nat
          /\ Cardinality(Cached \ gone) + 0 <= Capacity \/ gone = Inactive(leases')
      BY <3>1, EvictionMakesRoom
    <3>4. gone = Inactive(leases') => Inactive(leases)' = {}
      BY <3>1, <3>2 DEF Inactive, Cached
    <3> QED
      BY <3>2, <3>3, <3>4, CacheAssumption DEF OverCapacityOnlyPinned
  <2>5. CASE Clear
    <3>1. Cached' = {}
      BY <2>5 DEF Clear, Cached
    <3> QED
      BY <3>1, FS_EmptySet, CacheAssumption DEF OverCapacityOnlyPinned
  <2>6. ASSUME entries' = entries, leases' = leases PROVE OverCapacityOnlyPinned'
    BY <2>6 DEF OverCapacityOnlyPinned, Cached, Inactive
  <2>7. ASSUME NEW h \in Holders, Acquire(h) \/ ReleaseToken(h) PROVE OverCapacityOnlyPinned'
    BY <2>6, <2>7 DEF Acquire, ReleaseToken
  <2>8. CASE UNCHANGED cacheVars
    BY <2>6, <2>8 DEF cacheVars
  <2> QED
    BY <2>2, <2>3, <2>4, <2>5, <2>7, <2>8 DEF CacheNext, Lease
<1> QED
  BY <1>1, <1>2, CacheInvariant, PTL DEF CacheSpec

\* Where nothing is leased, clear finds no reason to refuse and no token is out.
LEMMA UnleasedClears ==
    ASSUME CacheInv, \A h \in Holders : lease[h] = None
    PROVE  ~ClearRefused /\ \A h \in Holders : ~locked[h]
<1>1. ASSUME NEW s \in Cached PROVE leases[entries[s]] = 0
  <2>1. entries[s] \in Entry
    BY DEF CacheInv, CacheTypeOK, Cached
  <2>2. Holding(entries[s]) = {}
    BY <2>1, CacheAssumption DEF Holding
  <2> QED
    BY <2>1, <2>2, FS_EmptySet DEF CacheInv, Counted
<1> QED
  BY <1>1 DEF ClearRefused, CacheInv, OneToken

\* The goroutine Owner names is the one that holds the token.
LEMMA OwnerFacts ==
    ASSUME CacheInv, NEW s \in Scopes
    PROVE  /\ \A h \in Holders : locked[h] /\ Key(lease[h]) = s => Owner[s] = h
           /\ (\A h \in Holders : ~(locked[h] /\ Key(lease[h]) = s)) => Owner[s] = None
<1>1. \A g, h \in Holders :
        locked[g] /\ locked[h] /\ Key(lease[g]) = Key(lease[h]) => g = h
  BY DEF CacheInv, Pinned, OneToken
<1> QED
  BY <1>1 DEF Owner

\* The cache of gates implements one mutex per exact Scope: taking a token is
\* Enter, returning it is Leave, and every other operation is a stutter.
THEOREM MutexRefinement == CacheSpec => ImplementsMutex
<1>1. CacheInit => Mutex!Init
  BY DEF CacheInit, Mutex!Init, Owner
<1>2. CacheInv /\ CacheInv' /\ [CacheNext]_cacheVars => [Mutex!Next]_Owner
  <2> SUFFICES ASSUME CacheInv, CacheInv', [CacheNext]_cacheVars PROVE [Mutex!Next]_Owner
    OBVIOUS
  <2> USE DEF CacheInv, CacheTypeOK
  <2>1. \A s \in Scopes :
          /\ \A h \in Holders : locked'[h] /\ Key(lease'[h]) = s => Owner'[s] = h
          /\ (\A h \in Holders : ~(locked'[h] /\ Key(lease'[h]) = s)) => Owner'[s] = None
    <3>1. \A g, h \in Holders :
            locked'[g] /\ locked'[h] /\ Key(lease'[g]) = Key(lease'[h]) => g = h
      BY DEF Pinned, OneToken
    <3> QED
      BY <3>1 DEF Owner
  <2>2. \A h \in Holders : locked[h] => Key(lease[h]) \in Scopes
    BY DEF OneToken, Entry, Key
  <2>3. Owner \in [Scopes -> Holders \cup {None}] /\ Owner' \in [Scopes -> Holders \cup {None}]
    BY DEF Owner
  <2>4. ASSUME locked' = locked,
               \A h \in Holders : locked[h] => lease'[h] = lease[h]
        PROVE  Owner' = Owner
    <3>1. ASSUME NEW x \in Scopes PROVE Owner'[x] = Owner[x]
      <4>1. \A g \in Holders : (locked'[g] /\ Key(lease'[g]) = x) <=> (locked[g] /\ Key(lease[g]) = x)
        BY <2>4
      <4> QED
        BY <4>1, <2>1, OwnerFacts
    <3> QED
      BY <2>3, <3>1
  <2>5. ASSUME NEW h \in Holders, Acquire(h) PROVE Mutex!Next
    <3> DEFINE s == Key(lease[h])
    <3>1. s \in Scopes /\ ~locked[h] /\ lease' = lease /\ locked' = [locked EXCEPT ![h] = TRUE]
      BY <2>5 DEF Acquire, Entry, Key
    <3>2. \A g \in Holders : ~(locked[g] /\ Key(lease[g]) = s)
      <4> SUFFICES ASSUME NEW g \in Holders, locked[g], Key(lease[g]) = s PROVE FALSE
        OBVIOUS
      <4>1. lease[h] # None /\ lease[h] \in Entry /\ token[lease[h]]
        BY <2>5 DEF Acquire
      <4>2. lease[g] = lease[h]
        BY <4>1 DEF Pinned, OneToken
      <4> QED
        BY <4>1, <4>2 DEF OneToken
    <3>3. Owner[s] = None
      BY <3>1, <3>2, OwnerFacts
    <3>4. \A x \in Scopes : Owner[x] # h
      BY <3>1, CacheAssumption DEF Owner
    <3>5. Owner' = [Owner EXCEPT ![s] = h]
      <4>1. Owner'[s] = h
        BY <2>1, <3>1
      <4>2. ASSUME NEW x \in Scopes, x # s PROVE Owner'[x] = Owner[x]
        <5>1. \A g \in Holders : (locked'[g] /\ Key(lease'[g]) = x) <=> (locked[g] /\ Key(lease[g]) = x)
          BY <3>1, <4>2
        <5> QED
          BY <5>1, <2>1, OwnerFacts
      <4> QED
        BY <2>3, <3>1, <4>1, <4>2
    <3>6. Mutex!Enter(h, s)
      BY <3>3, <3>4, <3>5 DEF Mutex!Enter
    <3> QED
      BY <3>1, <3>6 DEF Mutex!Next
  <2>6. ASSUME NEW h \in Holders, ReleaseToken(h) PROVE Mutex!Next
    <3> DEFINE s == Key(lease[h])
    <3>1. s \in Scopes /\ locked[h] /\ lease' = lease /\ locked' = [locked EXCEPT ![h] = FALSE]
      BY <2>6, <2>2 DEF ReleaseToken
    <3>2. Owner[s] = h
      BY <3>1, OwnerFacts
    <3>3. Owner' = [Owner EXCEPT ![s] = None]
      <4>1. Owner'[s] = None
        <5>1. \A g \in Holders : ~(locked'[g] /\ Key(lease'[g]) = s)
          <6> SUFFICES ASSUME NEW g \in Holders, locked'[g], Key(lease'[g]) = s PROVE FALSE
            OBVIOUS
          <6>1. locked[g] /\ g # h /\ Key(lease[g]) = s
            BY <3>1
          <6>2. lease[g] # None /\ lease[h] # None
            BY <3>1, <6>1 DEF OneToken
          <6>3. lease[g] = entries[s] /\ lease[h] = entries[s]
            BY <6>1, <6>2 DEF Pinned
          <6> QED
            BY <3>1, <6>1, <6>3 DEF OneToken
        <5> QED
          BY <5>1, <3>1, <2>1
      <4>2. ASSUME NEW x \in Scopes, x # s PROVE Owner'[x] = Owner[x]
        <5>1. \A g \in Holders : (locked'[g] /\ Key(lease'[g]) = x) <=> (locked[g] /\ Key(lease[g]) = x)
          BY <3>1, <4>2
        <5> QED
          BY <5>1, <2>1, OwnerFacts
      <4> QED
        BY <2>3, <3>1, <4>1, <4>2
    <3>4. Mutex!Leave(h, s)
      BY <3>2, <3>3 DEF Mutex!Leave
    <3> QED
      BY <3>1, <3>4 DEF Mutex!Next
  <2>7. ASSUME NEW h \in Holders, NEW s \in Scopes, Lease(h, s) PROVE Owner' = Owner
    <3>1. lease[h] = None /\ locked' = locked
          /\ \A g \in Holders : g # h => lease'[g] = lease[g]
      BY <2>7 DEF Lease, LeaseHit, LeaseMiss
    <3> QED
      BY <2>4, <3>1 DEF OneToken
  <2>8. ASSUME NEW h \in Holders, ReleaseLease(h) PROVE Owner' = Owner
    BY <2>4, <2>8 DEF ReleaseLease
  <2>9. ASSUME Clear \/ UNCHANGED cacheVars PROVE Owner' = Owner
    <3>1. lease' = lease /\ locked' = locked
      BY <2>9 DEF Clear, cacheVars
    <3> QED
      BY <2>4, <3>1
  <2> QED
    BY <2>5, <2>6, <2>7, <2>8, <2>9 DEF CacheNext
<1> QED
  BY <1>1, <1>2, CacheInvariant, PTL DEF CacheSpec, ImplementsMutex, Mutex!Spec
-----------------------------------------------------------------------------
LEMMA ThreadsAreFinite == IsFiniteSet(Threads)
BY CacheAssumption DEF Threads

-----------------------------------------------------------------------------
(* The Runtime drives the cache only through its operations *)

\* The types of the Runtime's own state; active is typed by the count below.
Shape ==
    /\ closing \in BOOLEAN /\ closed \in BOOLEAN
    /\ drained \in {"nil", "open", "closed"}
    /\ background \in BOOLEAN
    /\ pc \in [Threads -> Phases]
    /\ kind \in [Threads -> Kinds]
    /\ scope \in [Threads -> Scopes \cup {None}]
    /\ todo \subseteq Scopes
    /\ loop \in {"absent", "running", "paused", "closed"}
    /\ attached \in BOOLEAN
    /\ resource \in [Resources -> {"open", "closed"}]
    /\ closeMu \in Closers \cup {None}
    /\ closer \in [Closers -> CloserPhases]
    /\ ctxDone \in [Closers -> BOOLEAN]
    /\ index \in 0..NumResources

\* An admitted call that is not the job names its Scope.
Asked ==
    \A t \in Threads : pc[t] = "admitted" /\ kind[t] # "background" => scope[t] \in Scopes

LEMMA ShapeInvariant == Spec => [](Shape /\ Asked)
<1> USE DEF Shape, Asked, Phases, Kinds, CloserPhases
<1>0. Processor \in Threads /\ Callers \subseteq Threads /\ 0 \in 0..NumResources
  BY RuntimeAssumption DEF Threads, Callers
<1>1. Init => Shape /\ Asked
  <2> SUFFICES ASSUME Init PROVE Shape /\ Asked
    OBVIOUS
  <2>1. /\ closing \in BOOLEAN /\ closed \in BOOLEAN /\ background \in BOOLEAN /\ attached \in BOOLEAN
        /\ drained = "nil" /\ loop = "absent" /\ todo = {} /\ index = 0 /\ closeMu = None
    BY DEF Init
  <2>2. pc \in [Threads -> Phases] /\ kind \in [Threads -> Kinds] /\ scope \in [Threads -> Scopes \cup {None}]
    BY DEF Init
  <2>3. /\ resource \in [Resources -> {"open", "closed"}] /\ closer \in [Closers -> CloserPhases]
        /\ ctxDone \in [Closers -> BOOLEAN]
    BY DEF Init
  <2>4. Asked
    BY DEF Init
  <2> QED
    BY <1>0, <2>1, <2>2, <2>3, <2>4
<1>2. Shape /\ Asked /\ [Next]_vars => Shape' /\ Asked'
  <2> SUFFICES ASSUME Shape, Asked, [Next]_vars PROVE Shape' /\ Asked'
    OBVIOUS
  <2> USE <1>0 DEF Goto, CloserGoto, admit, release, Return, gateVars, threadVars, closeVars
  <2>1. ASSUME NEW t \in Callers, Request(t) PROVE Shape' /\ Asked'
    <3>1. PICK k \in {"operation", "read", "write"}, s \in Scopes : Begin(t, k, s)
      BY <2>1 DEF Request
    <3>2. /\ pc' \in [Threads -> Phases] /\ kind' \in [Threads -> Kinds]
          /\ scope' \in [Threads -> Scopes \cup {None}] /\ scope'[t] \in Scopes
          /\ \A u \in Threads \ {t} : pc'[u] = pc[u] /\ kind'[u] = kind[u] /\ scope'[u] = scope[u]
      BY <3>1 DEF Begin
    <3>3. UNCHANGED <<closing, closed, drained, todo, background, loop, attached, closeVars>>
      BY <3>1 DEF Begin
    <3>4. Asked'
      BY <3>2
    <3> QED
      BY <3>2, <3>3, <3>4
  <2>2. ASSUME NEW t \in Threads, Proceed(t) PROVE Shape' /\ Asked'
    <3>1. CASE ResolveFails(t)
      BY <3>1 DEF ResolveFails
    <3>2. CASE EnterScope(t)
      BY <3>2 DEF EnterScope
    <3>3. CASE LockScope(t)
      BY <3>3 DEF LockScope
    <3>4. CASE AbandonLock(t)
      BY <3>4 DEF AbandonLock
    <3>5. CASE UnlockScope(t)
      BY <3>5 DEF UnlockScope
    <3>6. CASE LeaveScope(t)
      <4>1. \E q \in {"leaving", "visiting", "finishing"} : pc' = [pc EXCEPT ![t] = q]
        BY <3>6 DEF LeaveScope
      <4>2. UNCHANGED <<gateVars, kind, scope, todo, background, loop, attached, closeVars>>
        BY <3>6 DEF LeaveScope
      <4> QED
        BY <4>1, <4>2
    <3>7. CASE Leave(t)
      BY <3>7 DEF Leave
    <3> QED
      BY <2>2, <3>1, <3>2, <3>3, <3>4, <3>5, <3>6, <3>7 DEF Proceed
  <2>3. CASE Dispatch
    BY <2>3 DEF Dispatch
  <2>4. CASE Process
    <3>1. CASE DispatchRefused
      BY <3>1 DEF DispatchRefused
    <3>2. CASE DispatchAdmitted
      BY <3>2 DEF DispatchAdmitted
    <3>3. CASE AcquireBackground
      BY <3>3 DEF AcquireBackground
    <3>4. CASE ListScopes
      <4>1. \E q \in {"visiting", "finishing"} : pc' = [pc EXCEPT ![Processor] = q]
        BY <3>4 DEF ListScopes
      <4>2. todo' \subseteq Scopes
        BY <3>4 DEF ListScopes
      <4>3. UNCHANGED <<gateVars, kind, scope, background, loop, attached, closeVars>>
        BY <3>4 DEF ListScopes
      <4>4. pc' \in [Threads -> Phases]
        BY <4>1
      <4>5. Asked'
        BY <4>1, <4>3
      <4> QED
        BY <4>2, <4>3, <4>4, <4>5
    <3>5. CASE VisitScope
      <4>1. PICK s \in todo :
               /\ todo' = todo \ {s}
               /\ \/ UNCHANGED <<pc, scope>>
                  \/ /\ scope' = [scope EXCEPT ![Processor] = s]
                     /\ pc' = [pc EXCEPT ![Processor] = "waiting"]
        BY <3>5 DEF VisitScope
      <4>2. UNCHANGED <<gateVars, kind, background, loop, attached, closeVars>>
        BY <3>5 DEF VisitScope
      <4>3. todo' \subseteq Scopes /\ s \in Scopes
        BY <4>1
      <4>4. pc' \in [Threads -> Phases] /\ scope' \in [Threads -> Scopes \cup {None}]
        BY <4>1, <4>3
      <4>5. Asked'
        BY <4>1, <4>2
      <4> QED
        BY <4>2, <4>3, <4>4, <4>5
    <3>6. CASE StopVisiting
      BY <3>6 DEF StopVisiting
    <3>7. CASE ReleaseBackground
      BY <3>7 DEF ReleaseBackground
    <3> QED
      BY <2>4, <3>1, <3>2, <3>3, <3>4, <3>5, <3>6, <3>7 DEF Process
  <2>5. CASE OpenScheduler \/ AttachScheduler
    BY <2>5 DEF OpenScheduler, AttachScheduler
  <2>6. ASSUME NEW c \in Closers, CloseBegin(c) \/ CloseContextDone(c) PROVE Shape' /\ Asked'
    <3>1. CASE CloseBegin(c)
      BY <3>1 DEF CloseBegin
    <3>2. CASE CloseContextDone(c)
      BY <3>2 DEF CloseContextDone
    <3> QED
      BY <2>6, <3>1, <3>2
  <2>7. ASSUME NEW c \in Closers, Close(c) PROVE Shape' /\ Asked'
    <3>1. CASE CloseDrained(c)
      BY <3>1 DEF CloseDrained
    <3>2. CASE CloseCancelled(c)
      BY <3>2 DEF CloseCancelled
    <3>3. CASE PauseScheduler(c)
      BY <3>3 DEF PauseScheduler
    <3>4. CASE CloseScheduler(c)
      BY <3>4 DEF CloseScheduler
    <3>5. CASE CloseSchedulerFails(c)
      BY <3>5 DEF CloseSchedulerFails
    <3>6. CASE ClearScopes(c)
      <4>1. index' \in 0..NumResources
        <5>1. index' = NumResources
          BY <3>6 DEF ClearScopes
        <5> QED
          BY <5>1, RuntimeAssumption
      <4>2. closer' \in [Closers -> CloserPhases]
        BY <3>6 DEF ClearScopes
      <4>3. UNCHANGED <<gateVars, threadVars, loop, attached, resource, closeMu, ctxDone>>
        BY <3>6 DEF ClearScopes
      <4> QED
        BY <4>1, <4>2, <4>3
    <3>7. CASE CloseResource(c)
      <4>1. index' \in 0..NumResources
        <5>1. index' = index - 1 /\ index > 0 /\ index \in 0..NumResources
          BY <3>7 DEF CloseResource
        <5> QED
          BY <5>1, RuntimeAssumption
      <4>2. resource' \in [Resources -> {"open", "closed"}]
        BY <3>7 DEF CloseResource
      <4> QED
        BY <3>7, <4>1, <4>2 DEF CloseResource
    <3>8. CASE CloseResourceFails(c)
      BY <3>8 DEF CloseResourceFails
    <3>9. CASE CloseEnd(c)
      BY <3>9 DEF CloseEnd
    <3> QED
      BY <2>7, <3>1, <3>2, <3>3, <3>4, <3>5, <3>6, <3>7, <3>8, <3>9 DEF Close
  <2>8. CASE Refused \/ UNCHANGED vars
    <3>1. UNCHANGED <<gateVars, threadVars, loop, attached, closeVars>>
      BY <2>8 DEF Refused, vars
    <3> QED
      BY <3>1
  <2> QED
    BY <2>1, <2>2, <2>3, <2>4, <2>5, <2>6, <2>7, <2>8 DEF Next
<1> QED
  BY <1>1, <1>2, PTL DEF Spec

\* The Runtime implements the cache: calls, jobs and Close change the gates only
\* by the operations of scopeCache and its semaphores, in every interleaving.
THEOREM CacheRefinement == Spec => CacheSpec
<1>1. Init => CacheInit
  BY DEF Init
<1>2. Shape /\ Asked /\ [Next]_vars => [CacheNext]_cacheVars
  <2> SUFFICES ASSUME Shape, Asked, [Next]_vars PROVE [CacheNext]_cacheVars
    OBVIOUS
  <2>0. Processor \in Threads
    BY RuntimeAssumption DEF Threads, Callers
  <2>2. ASSUME NEW t \in Threads, Proceed(t) PROVE CacheNext \/ UNCHANGED cacheVars
    <3>1. CASE EnterScope(t)
      BY <3>1 DEF EnterScope, CacheNext, Asked, Threads
    <3>2. CASE LockScope(t) \/ UnlockScope(t) \/ LeaveScope(t)
      BY <3>2 DEF LockScope, UnlockScope, LeaveScope, CacheNext, Threads
    <3>3. CASE ResolveFails(t) \/ AbandonLock(t) \/ Leave(t)
      BY <3>3 DEF ResolveFails, AbandonLock, Leave
    <3> QED
      BY <2>2, <3>1, <3>2, <3>3 DEF Proceed
  <2>3. CASE Process
    <3>1. ASSUME VisitScope PROVE CacheNext \/ UNCHANGED cacheVars
      <4>1. PICK s \in todo : UNCHANGED cacheVars \/ Lease(Processor, s)
        BY <3>1 DEF VisitScope
      <4>2. s \in Scopes
        BY DEF Shape
      <4> QED
        BY <2>0, <4>1, <4>2 DEF CacheNext, Threads
    <3> QED
      BY <2>3, <3>1 DEF Process, DispatchRefused, DispatchAdmitted, AcquireBackground,
           ListScopes, StopVisiting, ReleaseBackground
  <2>4. ASSUME NEW c \in Closers, Close(c) PROVE CacheNext \/ UNCHANGED cacheVars
    BY <2>4 DEF Close, CloseDrained, CloseCancelled, PauseScheduler, CloseScheduler, CloseSchedulerFails,
         ClearScopes, CloseResource, CloseResourceFails, CloseEnd, CacheNext
  <2>5. CASE \/ \E t \in Callers : Request(t)
             \/ Dispatch \/ OpenScheduler \/ AttachScheduler
             \/ \E c \in Closers : CloseBegin(c) \/ CloseContextDone(c)
             \/ Refused \/ UNCHANGED vars
    <3>1. UNCHANGED cacheVars
      BY <2>5 DEF Request, Begin, Dispatch, OpenScheduler, AttachScheduler, CloseBegin, CloseContextDone,
           Refused, vars
    <3> QED
      BY <3>1
  <2> QED
    BY <2>2, <2>3, <2>4, <2>5 DEF Next
<1> QED
  BY <1>1, <1>2, ShapeInvariant, PTL DEF Spec, CacheSpec
-----------------------------------------------------------------------------
(* The drain *)

\* What a step does to the admitted threads and to the gate.
Works(t) ==
    /\ t \in Admitted /\ Admitted' = Admitted
    /\ UNCHANGED <<gateVars, loop, attached, closeVars>>

Enters(t) ==
    /\ t \notin Admitted /\ Admitted' = Admitted \cup {t}
    /\ admit
    /\ UNCHANGED <<cacheVars, loop, attached, closeVars>>

Leaves(t) ==
    /\ t \in Admitted /\ Admitted' = Admitted \ {t}
    /\ release
    /\ UNCHANGED <<cacheVars, loop, attached, closeVars>>

Idles ==
    /\ Admitted' = Admitted
    /\ UNCHANGED <<cacheVars, gateVars, loop, attached, closeVars>>

\* A step of a thread is one of these.
LEMMA ThreadSteps ==
    ASSUME Shape
    PROVE  /\ \A t \in Callers : Request(t) => Enters(t)
           /\ \A t \in Threads : Proceed(t) => Works(t) \/ Leaves(t)
           /\ Dispatch => Idles
           /\ Process => Works(Processor) \/ Enters(Processor) \/ Idles
<1> USE DEF Admitted, Shape, Phases, Goto
<1>0. Processor \in Threads /\ Callers \subseteq Threads
  BY RuntimeAssumption DEF Threads, Callers
<1>1. ASSUME NEW t \in Callers, Request(t) PROVE Enters(t)
  <2>1. PICK k \in {"operation", "read", "write"}, s \in Scopes : Begin(t, k, s)
    BY <1>1 DEF Request
  <2>2. /\ pc[t] = "idle" /\ t \in Threads
        /\ pc' = [pc EXCEPT ![t] = IF k = "operation" THEN "running" ELSE "admitted"]
    BY <1>0, <2>1 DEF Begin
  <2>3. admit /\ UNCHANGED <<cacheVars, loop, attached, closeVars>>
    BY <2>1 DEF Begin
  <2>4. t \notin Admitted /\ Admitted' = Admitted \cup {t}
    BY <2>2
  <2> QED
    BY <2>3, <2>4 DEF Enters
<1>2. ASSUME NEW t \in Threads, Proceed(t) PROVE Works(t) \/ Leaves(t)
  <2>1. CASE ResolveFails(t)
    BY <2>1 DEF ResolveFails, Works
  <2>2. CASE EnterScope(t)
    BY <2>2 DEF EnterScope, Works
  <2>3. CASE LockScope(t)
    BY <2>3 DEF LockScope, Works
  <2>4. CASE AbandonLock(t)
    BY <2>4 DEF AbandonLock, Works
  <2>5. CASE UnlockScope(t)
    BY <2>5 DEF UnlockScope, Works
  <2>6. CASE LeaveScope(t)
    BY <2>6 DEF LeaveScope, Works
  <2>7. CASE Leave(t)
    BY <2>7 DEF Leave, Leaves
  <2> QED
    BY <1>2, <2>1, <2>2, <2>3, <2>4, <2>5, <2>6, <2>7 DEF Proceed
<1>3. ASSUME Dispatch PROVE Idles
  BY <1>0, <1>3 DEF Dispatch, Idles
<1>4. ASSUME Process PROVE Works(Processor) \/ Enters(Processor) \/ Idles
  <2>1. CASE DispatchRefused
    BY <1>0, <2>1 DEF DispatchRefused, Idles
  <2>2. CASE DispatchAdmitted
    BY <1>0, <2>2 DEF DispatchAdmitted, Enters
  <2>3. CASE AcquireBackground
    BY <1>0, <2>3 DEF AcquireBackground, Works
  <2>4. CASE ListScopes
    BY <1>0, <2>4 DEF ListScopes, Works
  <2>5. CASE VisitScope
    BY <1>0, <2>5 DEF VisitScope, Works
  <2>6. CASE StopVisiting
    BY <1>0, <2>6 DEF StopVisiting, Works
  <2>7. CASE ReleaseBackground
    BY <1>0, <2>7 DEF ReleaseBackground, Works
  <2> QED
    BY <1>4, <2>1, <2>2, <2>3, <2>4, <2>5, <2>6, <2>7 DEF Process
<1> QED
  BY <1>1, <1>2, <1>3, <1>4

LEMMA AdmittedFacts ==
    /\ IsFiniteSet(Admitted) /\ Cardinality(Admitted) \in Nat
    /\ Cardinality(Admitted) = 0 <=> Admitted = {}
<1>1. Admitted \subseteq Threads
  BY DEF Admitted
<1>2. IsFiniteSet(Admitted)
  BY <1>1, ThreadsAreFinite, FS_Subset
<1> QED
  BY <1>2, FS_CardinalityType, FS_EmptySet

\* The drain is exact: Runtime.active counts the admitted operations, and the
\* channel Close waits on is closed by the last of them, once, and never while
\* one is left or can still start.
THEOREM DrainExact == Spec => []DrainIsExact
<1>1. Init => DrainIsExact
  <2> SUFFICES ASSUME Init PROVE DrainIsExact
    OBVIOUS
  <2>1. Admitted = {} /\ active = 0 /\ drained = "nil"
    BY DEF Init, Admitted
  <2> QED
    BY <2>1, FS_EmptySet DEF DrainIsExact
<1>2. Shape /\ DrainIsExact /\ [Next]_vars => DrainIsExact'
  <2> SUFFICES ASSUME Shape, DrainIsExact, [Next]_vars PROVE DrainIsExact'
    OBVIOUS
  <2>0. /\ active = Cardinality(Admitted) /\ active \in Nat
        /\ drained = "closed" => closing /\ active = 0
        /\ drained = "open" => closing /\ active > 0
    BY AdmittedFacts DEF DrainIsExact
  <2>1. ASSUME Admitted' = Admitted, UNCHANGED gateVars PROVE DrainIsExact'
    BY <2>0, <2>1 DEF DrainIsExact, gateVars
  <2>2. ASSUME NEW t, Enters(t) PROVE DrainIsExact'
    <3>1. active' = active + 1 /\ Admitted' = Admitted \cup {t} /\ t \notin Admitted
          /\ ~closing /\ closing' = closing /\ drained' = drained
      BY <2>2 DEF Enters, admit, Refusing
    <3>2. Cardinality(Admitted') = Cardinality(Admitted) + 1
      BY <3>1, AdmittedFacts, FS_AddElement
    <3>3. drained' # "closed" /\ drained' # "open"
      BY <2>0, <3>1
    <3> QED
      BY <2>0, <3>1, <3>2, <3>3 DEF DrainIsExact
  <2>3. ASSUME NEW t, Leaves(t) PROVE DrainIsExact'
    <3>1. /\ active' = active - 1 /\ Admitted' = Admitted \ {t} /\ t \in Admitted
          /\ closing' = closing
          /\ drained' = IF active = 1 /\ closing /\ drained # "nil" THEN "closed" ELSE drained
      BY <2>3 DEF Leaves, release
    <3>2. Cardinality(Admitted') = Cardinality(Admitted) - 1 /\ active > 0
      BY <2>0, <3>1, AdmittedFacts, FS_RemoveElement
    <3>3. drained' = "closed" => closing' /\ active' = 0
      BY <2>0, <3>1, <3>2
    <3>4. drained' = "open" => closing' /\ active' > 0
      BY <2>0, <3>1, <3>2
    <3> QED
      BY <2>0, <3>1, <3>2, <3>3, <3>4 DEF DrainIsExact
  <2>4. ASSUME NEW c \in Closers, CloseBegin(c) PROVE DrainIsExact'
    <3>1. Admitted' = Admitted /\ active' = active /\ closing' = TRUE
      BY <2>4 DEF CloseBegin, Admitted, threadVars
    <3>2. drained' = IF closing THEN drained ELSE IF active = 0 THEN "closed" ELSE "open"
      BY <2>4 DEF CloseBegin
    <3>3. /\ drained' = "closed" => active = 0
          /\ drained' = "open" => active > 0
      BY <2>0, <3>2
    <3> QED
      BY <2>0, <3>1, <3>3 DEF DrainIsExact
  <2>5. ASSUME NEW c \in Closers, CloseCancelled(c) \/ CloseEnd(c) PROVE DrainIsExact'
    <3>1. Admitted' = Admitted /\ active' = active /\ drained' = "nil"
      BY <2>5 DEF CloseCancelled, CloseEnd, Admitted, threadVars
    <3> QED
      BY <2>0, <3>1 DEF DrainIsExact
  <2>6. ASSUME NEW c \in Closers, CloseContextDone(c) \/ Close(c), ~CloseCancelled(c), ~CloseEnd(c)
        PROVE  Admitted' = Admitted /\ UNCHANGED gateVars
    BY <2>6 DEF CloseContextDone, Close, CloseDrained, PauseScheduler, CloseScheduler, CloseSchedulerFails,
         ClearScopes, CloseResource, CloseResourceFails, Admitted, threadVars
  <2>7. CASE OpenScheduler \/ AttachScheduler \/ Refused \/ UNCHANGED vars
    <3>1. Admitted' = Admitted /\ UNCHANGED gateVars
      BY <2>7 DEF OpenScheduler, AttachScheduler, Refused, vars, Admitted, threadVars
    <3> QED
      BY <2>1, <3>1
  <2>8. ASSUME NEW t, Works(t) \/ Idles PROVE DrainIsExact'
    BY <2>1, <2>8 DEF Works, Idles
  <2> QED
    BY <2>1, <2>2, <2>3, <2>4, <2>5, <2>6, <2>7, <2>8, ThreadSteps DEF Next
<1> QED
  BY <1>1, <1>2, ShapeInvariant, PTL DEF Spec

-----------------------------------------------------------------------------
(* Shutdown *)

\* A lease is held from EnterScope or VisitScope to LeaveScope, and never by a
\* call of Operation.
LeasedBy(t) ==
    /\ lease[t] # None => pc[t] \in {"waiting", "running", "unleasing", "abandoning"}
    /\ lease[t] # None \/ pc[t] \in {"admitted", "listing", "visiting"} => kind[t] # "operation"

Leased == DOMAIN lease = Threads /\ \A t \in Threads : LeasedBy(t)

LEMMA LeasesFollowCalls == Spec => []Leased
<1>0. Processor \in Threads /\ Callers \subseteq Threads
  BY RuntimeAssumption DEF Threads, Callers
<1>1. Init => Leased
  BY DEF Init, CacheInit, Leased, LeasedBy, Threads
<1>2. Shape /\ Leased /\ [Next]_vars => Leased'
  <2> SUFFICES ASSUME Shape, Leased, [Next]_vars PROVE Leased'
    OBVIOUS
  <2>0. /\ pc \in [Threads -> Phases] /\ kind \in [Threads -> Kinds] /\ DOMAIN lease = Threads
        /\ \A t \in Threads : LeasedBy(t)
    BY DEF Shape, Leased
  <2> USE DEF LeasedBy
  <2>1. ASSUME NEW t \in Threads, LeasedBy(t)',
               \A u \in Threads \ {t} : pc'[u] = pc[u] /\ kind'[u] = kind[u] /\ lease'[u] = lease[u],
               DOMAIN lease' = DOMAIN lease
        PROVE  Leased'
    BY <2>0, <2>1 DEF Leased
  <2>2. ASSUME pc' = pc, kind' = kind, lease' = lease PROVE Leased'
    BY <2>0, <2>2 DEF Leased
  <2>3. ASSUME NEW t \in Threads, NEW s, Lease(t, s)
        PROVE  DOMAIN lease' = DOMAIN lease /\ \A u \in Threads \ {t} : lease'[u] = lease[u]
    BY <2>0, <2>3 DEF Lease, LeaseHit, LeaseMiss
  <2>4. ASSUME NEW t \in Callers, Request(t) PROVE Leased'
    <3>1. PICK k \in {"operation", "read", "write"}, s \in Scopes : Begin(t, k, s)
      BY <2>4 DEF Request
    <3>2. /\ pc[t] = "idle" /\ lease' = lease
          /\ pc' = [pc EXCEPT ![t] = IF k = "operation" THEN "running" ELSE "admitted"]
          /\ kind' = [kind EXCEPT ![t] = k]
      BY <3>1 DEF Begin, Goto, cacheVars
    <3> QED
      BY <1>0, <2>0, <2>1, <3>2
  <2>5. ASSUME NEW t \in Threads, Proceed(t) PROVE Leased'
    <3>1. CASE ResolveFails(t)
      <4>1. pc[t] = "admitted" /\ pc' = [pc EXCEPT ![t] = "leaving"] /\ kind' = kind /\ lease' = lease
        BY <3>1 DEF ResolveFails, Goto, cacheVars
      <4> QED
        BY <2>0, <2>1, <4>1
    <3>2. CASE EnterScope(t)
      <4>1. /\ pc[t] = "admitted" /\ kind' = kind
            /\ pc' = [pc EXCEPT ![t] = IF kind[t] = "read" THEN "running" ELSE "waiting"]
            /\ Lease(t, scope[t])
        BY <3>2 DEF EnterScope, Goto
      <4>2. LeasedBy(t)'
        BY <2>0, <4>1
      <4>3. \A u \in Threads \ {t} : pc'[u] = pc[u] /\ kind'[u] = kind[u]
        BY <2>0, <4>1
      <4>4. DOMAIN lease' = DOMAIN lease /\ \A u \in Threads \ {t} : lease'[u] = lease[u]
        BY <2>3, <4>1
      <4> QED
        BY <2>1, <4>2, <4>3, <4>4
    <3>3. CASE LockScope(t)
      <4>1. pc[t] = "waiting" /\ pc' = [pc EXCEPT ![t] = "running"] /\ kind' = kind /\ lease' = lease
        BY <3>3 DEF LockScope, Goto, Acquire
      <4>2. lease[t] # None
        BY <3>3 DEF LockScope, Acquire
      <4> QED
        BY <2>0, <2>1, <4>1, <4>2
    <3>4. CASE AbandonLock(t)
      <4>1. pc[t] = "waiting" /\ pc' = [pc EXCEPT ![t] = "abandoning"] /\ kind' = kind /\ lease' = lease
        BY <3>4 DEF AbandonLock, Goto, cacheVars
      <4> QED
        BY <2>0, <2>1, <4>1
    <3>5. CASE UnlockScope(t)
      <4>1. pc[t] = "running" /\ pc' = [pc EXCEPT ![t] = "unleasing"] /\ kind' = kind /\ lease' = lease
        BY <3>5 DEF UnlockScope, Goto, ReleaseToken
      <4> QED
        BY <2>0, <2>1, <4>1
    <3>6. CASE LeaveScope(t)
      <4>1. kind' = kind /\ lease' = [lease EXCEPT ![t] = None] /\ lease[t] # None
        BY <3>6 DEF LeaveScope, ReleaseLease
      <4>2. PICK phase \in Phases : pc' = [pc EXCEPT ![t] = phase]
        BY <3>6 DEF LeaveScope, Goto, Phases
      <4> QED
        BY <2>0, <2>1, <4>1, <4>2
    <3>7. CASE Leave(t)
      <4>1. /\ pc[t] = "leaving" \/ kind[t] = "operation"
            /\ pc' = [pc EXCEPT ![t] = "idle"] /\ kind' = [kind EXCEPT ![t] = "none"] /\ lease' = lease
        BY <3>7 DEF Leave, Goto, cacheVars
      <4> QED
        BY <2>0, <2>1, <4>1
    <3> QED
      BY <2>5, <3>1, <3>2, <3>3, <3>4, <3>5, <3>6, <3>7 DEF Proceed
  <2>6. CASE Dispatch \/ DispatchRefused
    <3>1. PICK phase \in {"idle", "dispatched"} : pc' = [pc EXCEPT ![Processor] = phase]
      BY <2>6 DEF Dispatch, DispatchRefused, Goto
    <3>2. pc[Processor] \in {"idle", "dispatched"} /\ kind' = kind /\ lease' = lease
      BY <2>6 DEF Dispatch, DispatchRefused, cacheVars
    <3> QED
      BY <1>0, <2>0, <2>1, <3>1, <3>2
  <2>7. CASE DispatchAdmitted
    <3>1. /\ pc[Processor] = "dispatched" /\ pc' = [pc EXCEPT ![Processor] = "admitted"]
          /\ kind' = [kind EXCEPT ![Processor] = "background"] /\ lease' = lease
      BY <2>7 DEF DispatchAdmitted, Goto, cacheVars
    <3> QED
      BY <1>0, <2>0, <2>1, <3>1
  <2>8. CASE AcquireBackground \/ ListScopes \/ StopVisiting \/ ReleaseBackground
    <3>1. PICK phase \in {"listing", "visiting", "finishing", "leaving"} :
            /\ pc' = [pc EXCEPT ![Processor] = phase]
            /\ phase \in {"listing", "visiting"} => pc[Processor] \in {"admitted", "listing"}
      BY <2>8 DEF AcquireBackground, ListScopes, StopVisiting, ReleaseBackground, Goto
    <3>2. /\ pc[Processor] \in {"admitted", "listing", "visiting", "finishing"}
          /\ kind' = kind /\ lease' = lease
      BY <2>8 DEF AcquireBackground, ListScopes, StopVisiting, ReleaseBackground, cacheVars
    <3> QED
      BY <1>0, <2>0, <2>1, <3>1, <3>2
  <2>9. CASE VisitScope
    <3>1. PICK s \in todo : \/ UNCHANGED <<cacheVars, pc, scope>>
                            \/ Lease(Processor, s) /\ pc' = [pc EXCEPT ![Processor] = "waiting"]
      BY <2>9 DEF VisitScope, Goto
    <3>2. pc[Processor] = "visiting" /\ kind' = kind
      BY <2>9 DEF VisitScope
    <3>3. CASE Lease(Processor, s) /\ pc' = [pc EXCEPT ![Processor] = "waiting"]
      <4>1. LeasedBy(Processor)'
        BY <1>0, <2>0, <3>2, <3>3
      <4>2. \A u \in Threads \ {Processor} : pc'[u] = pc[u] /\ kind'[u] = kind[u]
        BY <2>0, <3>2, <3>3
      <4>3. DOMAIN lease' = DOMAIN lease /\ \A u \in Threads \ {Processor} : lease'[u] = lease[u]
        BY <1>0, <2>3, <3>3
      <4> QED
        BY <1>0, <2>1, <4>1, <4>2, <4>3
    <3>4. CASE UNCHANGED <<cacheVars, pc, scope>>
      BY <2>2, <3>2, <3>4 DEF cacheVars
    <3> QED
      BY <3>1, <3>3, <3>4
  <2>10. CASE OpenScheduler \/ AttachScheduler \/ Refused \/ UNCHANGED vars
    BY <2>2, <2>10 DEF OpenScheduler, AttachScheduler, Refused, vars, threadVars, cacheVars
  <2>11. ASSUME NEW c \in Closers, CloseBegin(c) \/ CloseContextDone(c) \/ Close(c)
         PROVE  pc' = pc /\ kind' = kind /\ lease' = lease
    BY <2>11 DEF CloseBegin, CloseContextDone, Close, CloseDrained, CloseCancelled, PauseScheduler,
         CloseScheduler, CloseSchedulerFails, ClearScopes, CloseResource, CloseResourceFails, CloseEnd,
         Clear, threadVars, cacheVars
  <2> QED
    BY <2>2, <2>4, <2>5, <2>6, <2>7, <2>8, <2>9, <2>10, <2>11 DEF Next, Process
<1> QED
  BY <1>1, <1>2, ShapeInvariant, PTL DEF Spec

\* What a Close that is past its admission relies on at each of its steps.
CloserKnows(c) ==
    /\ closer[c] # "idle" => closeMu = c /\ closing /\ ~closed
    /\ closer[c] \in {"pausing", "stopping", "clearing", "resources"} => drained = "closed"
    /\ closer[c] \in {"clearing", "resources"} => (attached => loop = "closed")
    /\ closer[c] = "resources" => /\ Cached = {}
                                  /\ \A r \in Resources : r > index => resource[r] = "closed"

Shutdown == ClosedIsFinal /\ \A c \in Closers : CloserKnows(c)

\* A thread that is admitted rules out a tear-down and a closed Runtime.
LEMMA AdmittedExcludes ==
    ASSUME DrainIsExact, Shutdown, Admitted # {}
    PROVE  /\ ~closed /\ drained # "closed"
           /\ \A c \in Closers : closer[c] \notin {"pausing", "stopping", "clearing", "resources"}
<1>1. drained # "closed"
  BY AdmittedFacts DEF DrainIsExact
<1> QED
  BY <1>1 DEF Shutdown, ClosedIsFinal, CloserKnows

LEMMA ThreadsKeepShutdown ==
    ASSUME Shape, DrainIsExact, Shutdown, NEW t \in Threads, Works(t) \/ Enters(t) \/ Leaves(t)
    PROVE  Shutdown'
<1>1. closer' = closer /\ closeMu' = closeMu /\ closing' = closing /\ closed' = closed
  BY DEF Works, Enters, Leaves, admit, release, gateVars, closeVars
<1>2. ~closed
  BY AdmittedExcludes DEF Works, Enters, Leaves, admit, Refusing
<1>3. ASSUME NEW c \in Closers PROVE closer[c] \notin {"pausing", "stopping", "clearing", "resources"}
  <2>1. CASE Enters(t)
    BY <2>1 DEF Enters, admit, Refusing, Shutdown, CloserKnows
  <2> QED
    BY <2>1, AdmittedExcludes DEF Works, Leaves
<1>4. ClosedIsFinal'
  BY <1>1, <1>2 DEF ClosedIsFinal
<1>5. ASSUME NEW c \in Closers PROVE CloserKnows(c)'
  BY <1>1, <1>3 DEF Shutdown, CloserKnows
<1> QED
  BY <1>4, <1>5 DEF Shutdown

LEMMA SchedulerKeepsShutdown ==
    ASSUME Shape, Shutdown, OpenScheduler \/ AttachScheduler
    PROVE  Shutdown'
<1>1. /\ Cached' = Cached /\ Admitted' = Admitted
      /\ closing' = closing /\ closed' = closed /\ drained' = drained
      /\ closer' = closer /\ closeMu' = closeMu /\ index' = index /\ resource' = resource
  BY DEF OpenScheduler, AttachScheduler, cacheVars, gateVars, threadVars, closeVars, Cached, Admitted
<1>2. ASSUME closing \/ closed PROVE attached' = attached /\ (attached /\ loop = "closed" => loop' = "closed")
  BY <1>2 DEF OpenScheduler, AttachScheduler, Refusing
<1>3. ClosedIsFinal'
  BY <1>1, <1>2 DEF Shutdown, ClosedIsFinal
<1>4. ASSUME NEW c \in Closers PROVE CloserKnows(c)'
  <2>1. CloserKnows(c)
    BY DEF Shutdown
  <2>2. closer[c] # "idle" => closing
    BY <2>1 DEF CloserKnows
  <2> QED
    BY <1>1, <1>2, <2>1, <2>2 DEF CloserKnows
<1> QED
  BY <1>3, <1>4 DEF Shutdown

\* Close runs alone under closeMu, so its step is judged by its own knowledge.
LEMMA CloserAlone ==
    ASSUME Shape, Shutdown, NEW c \in Closers,
           closer[c] # "idle" \/ closeMu = None,
           \A d \in Closers \ {c} : closer'[d] = closer[d],
           CloserKnows(c)', ClosedIsFinal'
    PROVE  Shutdown'
<1>1. ASSUME NEW d \in Closers, d # c PROVE closer[d] = "idle"
  BY <1>1, RuntimeAssumption DEF Shutdown, CloserKnows
<1>2. ASSUME NEW d \in Closers, d # c PROVE CloserKnows(d)'
  BY <1>1, <1>2 DEF CloserKnows
<1> QED
  BY <1>2 DEF Shutdown

\* One step of Close keeps what Close knows.
LEMMA CloseKeepsShutdown ==
    ASSUME Shape, DrainIsExact, Shutdown, NEW c \in Closers,
           CloseBegin(c) \/ CloseContextDone(c) \/ Close(c)
    PROVE  Shutdown'
<1>0. CloserKnows(c) /\ ClosedIsFinal /\ closer \in [Closers -> CloserPhases]
  BY DEF Shutdown, Shape
<1>1. CASE CloseBegin(c)
  <2>1. closer[c] = "idle" /\ closeMu = None /\ ~closed
    BY <1>1 DEF CloseBegin
  <2>2. closer' = [closer EXCEPT ![c] = "draining"] /\ closeMu' = c /\ closing' = TRUE /\ closed' = closed
    BY <1>1 DEF CloseBegin, CloserGoto
  <2>3. CloserKnows(c)' /\ ClosedIsFinal'
    BY <1>0, <2>1, <2>2 DEF CloserKnows, ClosedIsFinal
  <2> QED
    BY <1>0, <2>1, <2>2, <2>3, CloserAlone
<1>2. CASE CloseContextDone(c)
  <2>1. /\ Cached' = Cached /\ Admitted' = Admitted /\ closing' = closing /\ closed' = closed
        /\ drained' = drained /\ closer' = closer /\ closeMu' = closeMu /\ index' = index
        /\ resource' = resource /\ loop' = loop /\ attached' = attached
    BY <1>2 DEF CloseContextDone, cacheVars, gateVars, threadVars, Cached, Admitted
  <2>2. ClosedIsFinal'
    BY <1>0, <2>1 DEF ClosedIsFinal
  <2>3. ASSUME NEW d \in Closers PROVE CloserKnows(d)'
    BY <2>1 DEF Shutdown, CloserKnows
  <2> QED
    BY <2>2, <2>3 DEF Shutdown
<1>3. CASE CloseDrained(c)
  <2>1. /\ closer[c] = "draining" /\ drained = "closed" /\ closer' = [closer EXCEPT ![c] = "pausing"]
        /\ closing' = closing /\ closed' = closed /\ drained' = drained /\ closeMu' = closeMu
    BY <1>3 DEF CloseDrained, CloserGoto, gateVars
  <2>2. CloserKnows(c)' /\ ClosedIsFinal'
    BY <1>0, <2>1 DEF CloserKnows, ClosedIsFinal
  <2> QED
    BY <1>0, <2>1, <2>2, CloserAlone
<1>4. CASE CloseCancelled(c) \/ CloseSchedulerFails(c) \/ CloseResourceFails(c)
  <2>1. /\ closer[c] # "idle" /\ closer' = [closer EXCEPT ![c] = "idle"]
        /\ closed' = closed
    BY <1>4 DEF CloseCancelled, CloseSchedulerFails, CloseResourceFails, Return, CloserGoto, gateVars
  <2>2. CloserKnows(c)' /\ ClosedIsFinal'
    BY <1>0, <2>1 DEF CloserKnows, ClosedIsFinal
  <2> QED
    BY <1>0, <2>1, <2>2, CloserAlone
<1>5. CASE PauseScheduler(c)
  <2>1. /\ closer[c] = "pausing"
        /\ closer' = [closer EXCEPT ![c] = IF attached THEN "stopping" ELSE "clearing"]
        /\ closing' = closing /\ closed' = closed /\ drained' = drained /\ closeMu' = closeMu
        /\ attached' = attached
    BY <1>5 DEF PauseScheduler, CloserGoto, gateVars
  <2>2. closer'[c] = "stopping" \/ (closer'[c] = "clearing" /\ ~attached)
    BY <1>0, <2>1
  <2>3. CloserKnows(c)' /\ ClosedIsFinal'
    BY <1>0, <2>1, <2>2 DEF CloserKnows, ClosedIsFinal
  <2> QED
    BY <1>0, <2>1, <2>3, CloserAlone
<1>6. CASE CloseScheduler(c)
  <2>1. /\ closer[c] = "stopping" /\ closer' = [closer EXCEPT ![c] = "clearing"] /\ loop' = "closed"
        /\ closing' = closing /\ closed' = closed /\ drained' = drained /\ closeMu' = closeMu
    BY <1>6 DEF CloseScheduler, CloserGoto, gateVars
  <2>2. CloserKnows(c)' /\ ClosedIsFinal'
    BY <1>0, <2>1 DEF CloserKnows, ClosedIsFinal
  <2> QED
    BY <1>0, <2>1, <2>2, CloserAlone
<1>7. CASE ClearScopes(c)
  <2>1. /\ closer[c] = "clearing" /\ closer' = [closer EXCEPT ![c] = "resources"]
        /\ closing' = closing /\ closed' = closed /\ drained' = drained /\ closeMu' = closeMu
        /\ attached' = attached /\ loop' = loop /\ index' = NumResources
    BY <1>7 DEF ClearScopes, CloserGoto, gateVars
  <2>2. Cached' = {}
    BY <1>7 DEF ClearScopes, Clear, Cached
  <2>3. \A r \in Resources : ~(r > index')
    BY <2>1, RuntimeAssumption DEF Resources
  <2>4. CloserKnows(c)' /\ ClosedIsFinal'
    BY <1>0, <2>1, <2>2, <2>3 DEF CloserKnows, ClosedIsFinal
  <2> QED
    BY <1>0, <2>1, <2>4, CloserAlone
<1>8. CASE CloseResource(c)
  <2>1. /\ closer[c] = "resources" /\ closer' = closer /\ index' = index - 1
        /\ closing' = closing /\ closed' = closed /\ drained' = drained /\ closeMu' = closeMu
        /\ attached' = attached /\ loop' = loop /\ resource' = [resource EXCEPT ![index] = "closed"]
        /\ Cached' = Cached
    BY <1>8 DEF CloseResource, gateVars, cacheVars, Cached
  <2>2. \A r \in Resources : r > index' => resource'[r] = "closed"
    <3>1. index \in 0..NumResources /\ DOMAIN resource = Resources
      BY DEF Shape
    <3>2. \A r \in Resources : r > index => resource[r] = "closed"
      BY <1>0, <2>1 DEF CloserKnows
    <3>3. ASSUME NEW r \in Resources, r > index - 1 PROVE r > index \/ r = index
      BY <3>1, <3>3, RuntimeAssumption DEF Resources
    <3> QED
      BY <2>1, <3>1, <3>2, <3>3
  <2>3. CloserKnows(c)' /\ ClosedIsFinal'
    BY <1>0, <2>1, <2>2 DEF CloserKnows, ClosedIsFinal
  <2> QED
    BY <1>0, <2>1, <2>3, CloserAlone
<1>9. CASE CloseEnd(c)
  <2>1. /\ closer[c] = "resources" /\ index = 0 /\ closer' = [closer EXCEPT ![c] = "idle"]
        /\ closing' = FALSE /\ closeMu' = None
        /\ attached' = attached /\ loop' = loop /\ resource' = resource
        /\ Cached' = Cached /\ Admitted' = Admitted
    BY <1>9 DEF CloseEnd, Return, CloserGoto, threadVars, cacheVars, Cached, Admitted
  <2>2. Admitted = {}
    BY <1>0, <2>1, AdmittedExcludes
  <2>3. \A r \in Resources : resource[r] = "closed"
    <3>1. \A r \in Resources : r > 0
      BY RuntimeAssumption DEF Resources
    <3> QED
      BY <1>0, <2>1, <3>1 DEF CloserKnows
  <2>4. (attached => loop = "closed") /\ Cached = {}
    BY <1>0, <2>1 DEF CloserKnows
  <2>5. ClosedIsFinal'
    BY <2>1, <2>2, <2>3, <2>4 DEF ClosedIsFinal
  <2>6. CloserKnows(c)'
    BY <1>0, <2>1 DEF CloserKnows
  <2> QED
    BY <1>0, <2>1, <2>5, <2>6, CloserAlone
<1> QED
  BY <1>1, <1>2, <1>3, <1>4, <1>5, <1>6, <1>7, <1>8, <1>9 DEF Close

LEMMA ShutdownInvariant == Spec => []Shutdown
<1>1. Init => Shutdown
  BY DEF Init, Shutdown, ClosedIsFinal, CloserKnows
<1>2. Shape /\ DrainIsExact /\ Shutdown /\ [Next]_vars => Shutdown'
  <2> SUFFICES ASSUME Shape, DrainIsExact, Shutdown, [Next]_vars PROVE Shutdown'
    OBVIOUS
  <2>1. ASSUME Idles \/ Refused \/ UNCHANGED vars PROVE Shutdown'
    <3>1. /\ Cached' = Cached /\ Admitted' = Admitted /\ closing' = closing /\ closed' = closed
          /\ drained' = drained /\ closer' = closer /\ closeMu' = closeMu /\ index' = index
          /\ resource' = resource /\ loop' = loop /\ attached' = attached
      BY <2>1 DEF Idles, Refused, vars, cacheVars, gateVars, closeVars, threadVars, Cached, Admitted
    <3>2. ClosedIsFinal'
      BY <3>1 DEF Shutdown, ClosedIsFinal
    <3>3. ASSUME NEW d \in Closers PROVE CloserKnows(d)'
      BY <3>1 DEF Shutdown, CloserKnows
    <3> QED
      BY <3>2, <3>3 DEF Shutdown
  <2>2. Processor \in Threads /\ Callers \subseteq Threads
    BY RuntimeAssumption DEF Threads, Callers
  <2> QED
    BY <2>1, <2>2, ThreadSteps, ThreadsKeepShutdown, SchedulerKeepsShutdown, CloseKeepsShutdown DEF Next
<1> QED
  BY <1>1, <1>2, ShapeInvariant, DrainExact, PTL DEF Spec

\* A Runtime that is closed stays closed and idle, with its scheduler, its gates
\* and its resources released, whatever failed and was retried before.
THEOREM ClosedStaysFinal == Spec => []ClosedIsFinal
BY ShutdownInvariant, PTL DEF Shutdown
-----------------------------------------------------------------------------
(* What is proved of the cache, inside the Runtime *)

\* Writes to one exact Scope exclude each other inside the Runtime: ScopedWrite
\* and the job never hold the gates of one Scope together.
THEOREM ScopedWritesExclude == Spec => []WriteExclusion
BY CacheRefinement, WritersExclude, PTL

\* The tear-down is quiet: from the drain to the last resource no operation is
\* admitted and no Scope is leased, so scopeCache.clear never refuses.
THEOREM TeardownQuiet == Spec => []TeardownIsQuiet
<1>1. DrainIsExact /\ Shutdown /\ Leased /\ CacheInv => TeardownIsQuiet
  <2> SUFFICES ASSUME DrainIsExact, Shutdown, Leased, CacheInv, NEW c \in Closers,
                      closer[c] \in {"pausing", "stopping", "clearing", "resources"}
               PROVE  /\ closing /\ Admitted = {}
                      /\ ~ClearRefused
                      /\ \A t \in Threads : lease[t] = None /\ ~locked[t]
    BY DEF TeardownIsQuiet
  <2>1. Admitted = {}
    BY AdmittedExcludes
  <2>2. closing
    BY DEF Shutdown, CloserKnows
  <2>3. \A t \in Threads : lease[t] = None
    BY <2>1 DEF Leased, LeasedBy, Admitted
  <2>4. ~ClearRefused /\ \A t \in Threads : ~locked[t]
    BY <2>3, UnleasedClears DEF Threads
  <2> QED
    BY <2>1, <2>2, <2>3, <2>4
<1> QED
  BY <1>1, DrainExact, ShutdownInvariant, LeasesFollowCalls, CacheRefinement, CacheInvariant, PTL

\* Type correctness of the whole Runtime; that active stays a natural number
\* rests on the exact count.
THEOREM TypeCorrect == Spec => []TypeOK
<1>1. CacheInv => CacheTypeOK
  BY DEF CacheInv
<1>2. DrainIsExact => active \in Nat
  BY AdmittedFacts DEF DrainIsExact
<1>3. Shape /\ CacheTypeOK /\ active \in Nat => TypeOK
  BY DEF Shape, TypeOK
<1> QED
  BY <1>1, <1>2, <1>3, ShapeInvariant, DrainExact, CacheRefinement, CacheInvariant, PTL
=============================================================================
