------------------------- MODULE MemoryStoreProofs -------------------------
(***************************************************************************)
(* For every number of processes, readers, inputs, entries and revisions:  *)
(* the projections describe the head, whoever committed it; a search       *)
(* answers for exactly the revision it names, and reports a conflict only  *)
(* when the head moved under each attempt; every revision is its           *)
(* predecessor with the recorded changes applied, and the versions of an   *)
(* entry form one chain.                                                   *)
(*                                                                         *)
(* The first half holds for any manifest that Plan admits. The second is   *)
(* about what a plan makes of its base, by induction over the inputs; that *)
(* no update is lost then rests on the compare-and-swap of the head.       *)
(***************************************************************************)
EXTENDS MemoryStore, FiniteSetTheorems, TLAPS

RowsOf(manifest, n) == {[version |-> v, revision |-> n] : v \in Active(manifest)}

\* The revisions are a sequence whose manifests list entries of the Memory, and
\* so does the manifest of every planned commit.
Listed ==
    /\ \E S : revisions \in Seq(S)
    /\ \A n \in 1..Latest : DOMAIN revisions[n].manifest \subseteq Entries
    /\ DOMAIN writer = Processes
    /\ \A p \in Processes :
          writer[p].phase = "planned" => DOMAIN writer[p].manifest \subseteq Entries

StoreInv == Listed /\ ProjectionsFollowHead

-----------------------------------------------------------------------------
(* The writers *)

\* What a step of planning does: the tables stay, and what it plans is listed.
Plans(p) ==
    /\ UNCHANGED <<store, search>>
    /\ \E w : /\ writer' = [writer EXCEPT ![p] = w]
              /\ w.phase = "planned" => DOMAIN w.manifest \subseteq Entries

LEMMA PlanPlans ==
    ASSUME NEW p \in Processes, NEW plan, Plan(p, plan)
    PROVE  Plans(p)
<1>1. CASE plan.changes = {}
  BY <1>1 DEF Plan, Plans, Idle
<1>2. CASE plan.changes # {}
  <2> DEFINE w(available) ==
               [phase |-> "planned", base |-> writer[p].base,
                manifest |-> plan.manifest, changes |-> plan.changes,
                added |-> plan.added,
                embedded |-> prepareProjections(p, writer[p].base, plan.manifest, available)]
  <2>1. PICK available \in BOOLEAN : writer' = [writer EXCEPT ![p] = w(available)]
    BY <1>2 DEF Plan
  <2>2. w(available).manifest = plan.manifest
    OBVIOUS
  <2>3. DOMAIN plan.manifest \subseteq Entries /\ UNCHANGED <<store, search>>
    BY DEF Plan
  <2> HIDE DEF w
  <2> QED
    BY <2>1, <2>2, <2>3, Zenon DEF Plans
<1> QED
  BY <1>1, <1>2

LEMMA WritersPlan ==
    ASSUME NEW p \in Processes, Write(p)
    PROVE  Plans(p) \/ Commit(p) \/ Initialize(p)
<1>1. CASE ReadHead(p) \/ canonicalBase(p) \/ Fail(p)
  BY <1>1, Zenon DEF ReadHead, canonicalBase, Fail, Plans, Idle
<1>2. CASE Remember(p) \/ Revise(p) \/ Retire(p) \/ Reactivate(p) \/ Organize(p) \/ Extract(p)
  <2>1. \E plan : Plan(p, plan)
    BY <1>2, Zenon DEF Remember, Revise, Retire, Reactivate, Organize, Extract
  <2> QED
    BY <2>1, PlanPlans
<1> QED
  BY <1>1, <1>2 DEF Write

\* A commit appends one revision and leaves those before it.
LEMMA CommitAppends ==
    ASSUME Listed, NEW p \in Processes, Commit(p)
    PROVE  /\ \E S : revisions' \in Seq(S)
           /\ Latest \in Nat /\ Latest' = Latest + 1
           /\ \A n \in 1..Latest : revisions'[n] = revisions[n]
           /\ Manifest(Latest)' = writer[p].manifest
           /\ revisions'[Latest + 1].manifest = writer[p].manifest
           /\ revisions'[Latest + 1].changes = writer[p].changes
<1> DEFINE x == [manifest |-> writer[p].manifest, changes |-> writer[p].changes]
<1>1. PICK S : revisions \in Seq(S)
  BY DEF Listed
<1>2. revisions' = Append(revisions, x)
  BY DEF Commit
<1>3. x.manifest = writer[p].manifest /\ x.changes = writer[p].changes
  OBVIOUS
<1> HIDE DEF x
<1>4. revisions \in Seq(S \cup {x}) /\ revisions' \in Seq(S \cup {x})
  BY <1>1, <1>2
<1>5. Len(revisions) \in Nat /\ Len(revisions') = Len(revisions) + 1
  BY <1>1, <1>2, <1>4
<1>6. revisions'[Len(revisions) + 1] = x /\ \A n \in 1..Len(revisions) : revisions'[n] = revisions[n]
  BY <1>2, <1>4
<1>7. Manifest(Latest)' = writer[p].manifest
  BY <1>3, <1>5, <1>6 DEF Manifest, Latest
<1> QED
  BY <1>3, <1>4, <1>5, <1>6, <1>7 DEF Latest

LEMMA StoreInvariant == Spec => []StoreInv
<1>1. Init => StoreInv
  <2> SUFFICES ASSUME Init PROVE StoreInv
    OBVIOUS
  <2>1. revisions \in Seq({}) /\ Latest = 0
    BY DEF Init, Latest
  <2>2. Listed
    BY <2>1 DEF Init, Listed, Idle
  <2>3. Manifest(Latest) = <<>> /\ Active(<<>>) = {}
    BY <2>1 DEF Manifest, Active, ActiveIds
  <2> QED
    BY <2>2, <2>3 DEF StoreInv, ProjectionsFollowHead, Init
<1>2. StoreInv /\ [Next]_vars => StoreInv'
  <2> SUFFICES ASSUME StoreInv, [Next]_vars PROVE StoreInv'
    OBVIOUS
  <2>0. Listed /\ ProjectionsFollowHead
    BY DEF StoreInv
  <2>1. ASSUME UNCHANGED store PROVE ProjectionsFollowHead'
    BY <2>0, <2>1 DEF store, ProjectionsFollowHead, Latest, Manifest, Active, ActiveIds
  <2>2. ASSUME UNCHANGED <<store, writer>> PROVE StoreInv'
    BY <2>0, <2>1, <2>2 DEF StoreInv, Listed, store, Latest
  <2>3. ASSUME NEW p \in Processes, Plans(p) PROVE StoreInv'
    <3>1. UNCHANGED store
      BY <2>3 DEF Plans
    <3>2. Listed'
      BY <2>0, <2>3, <3>1 DEF Plans, Listed, store, Latest
    <3> QED
      BY <2>1, <3>1, <3>2 DEF StoreInv
  <2>4. ASSUME NEW p \in Processes, Commit(p) PROVE StoreInv'
    <3> DEFINE m == writer[p].manifest
               rows == RowsOf(m, Latest + 1)
    <3>1. /\ Latest \in Nat /\ Latest' = Latest + 1
          /\ \A n \in 1..Latest : revisions'[n] = revisions[n]
          /\ Manifest(Latest)' = m /\ revisions'[Latest + 1].manifest = m
          /\ \E S : revisions' \in Seq(S)
      BY <2>0, <2>4, CommitAppends
    <3>2. writer' = [writer EXCEPT ![p] = Idle] /\ DOMAIN m \subseteq Entries
      BY <2>0, <2>4 DEF Commit, Listed
    <3>3. Listed'
      <4>1. \A n \in 1..Latest' : DOMAIN revisions'[n].manifest \subseteq Entries
        BY <2>0, <3>1, <3>2 DEF Listed
      <4>2. DOMAIN writer' = Processes /\ \A q \in Processes :
               writer'[q].phase = "planned" => DOMAIN writer'[q].manifest \subseteq Entries
        BY <2>0, <3>2 DEF Listed, Idle
      <4> QED
        BY <3>1, <4>1, <4>2 DEF Listed
    <3>4. /\ heads' = rows /\ fts' = rows
          /\ \E e \in SUBSET rows : ReplaceVectors(p, e)
      BY <2>4 DEF Commit, ReplaceHeads, ReplaceFTS, RowsOf
    <3>5. metadata' \subseteq heads' /\ metadata' \subseteq vec'
      BY <3>4 DEF ReplaceVectors
    <3>6. rows = {[version |-> v, revision |-> Latest] : v \in Active(Manifest(Latest))}'
      BY <3>1 DEF RowsOf, Active, ActiveIds
    <3> QED
      BY <3>3, <3>4, <3>5, <3>6 DEF StoreInv, ProjectionsFollowHead
  <2>5. ASSUME NEW p \in Processes, Initialize(p) PROVE StoreInv'
    <3>1. /\ revisions' = revisions /\ heads' = heads /\ metadata' = metadata
          /\ fts' = heads /\ vec' \in {vec \cap metadata, vec}
          /\ writer' = [writer EXCEPT ![p] = Idle]
      BY <2>5 DEF Initialize, InitializeFTS, InitializeVectors
    <3>2. Listed'
      BY <2>0, <3>1 DEF Listed, Latest, Idle
    <3>3. ProjectionsFollowHead'
      BY <2>0, <3>1 DEF ProjectionsFollowHead, Latest, Manifest, Active, ActiveIds
    <3> QED
      BY <3>2, <3>3 DEF StoreInv
  <2>6. ASSUME NEW r \in Readers, Read(r) PROVE UNCHANGED <<store, writer>>
    BY <2>6, Zenon DEF Read, Search, validateSearchHeads, SelectMode, SearchIndexes, Stale, Again, SearchEnds
  <2> QED
    BY <2>2, <2>3, <2>4, <2>5, <2>6, WritersPlan DEF Next, vars
<1> QED
  BY <1>1, <1>2, PTL DEF Spec

\* The projections follow the head: after every commit, by a process with a
\* vector index or without, head rows and full-text rows are the active entries
\* of the latest revision, and every vector belongs to one (commit, replaceHeads).
THEOREM ProjectionsInStep == Spec => []ProjectionsFollowHead
BY StoreInvariant, PTL DEF StoreInv
-----------------------------------------------------------------------------
(* The vector rows *)

\* With a vector index in every process, every vec0 row has its metadata.
Tracked == Embedding = Processes => VectorRowsAreTracked

LEMMA TrackedInvariant == Spec => []Tracked
<1>1. Init => Tracked
  BY DEF Init, Tracked, VectorRowsAreTracked
<1>2. Tracked /\ [Next]_vars => Tracked'
  <2> SUFFICES ASSUME Embedding = Processes, vec \subseteq metadata, [Next]_vars
               PROVE  vec' \subseteq metadata'
    BY DEF Tracked, VectorRowsAreTracked
  <2>1. ASSUME NEW p \in Processes, Commit(p) PROVE vec' \subseteq metadata'
    BY <2>1 DEF Commit, ReplaceVectors
  <2>2. ASSUME NEW p \in Processes, Initialize(p) PROVE vec' \subseteq metadata'
    BY <2>2 DEF Initialize, InitializeVectors
  <2>3. ASSUME NEW p \in Processes, Plans(p) PROVE UNCHANGED <<vec, metadata>>
    BY <2>3 DEF Plans, store
  <2>4. ASSUME NEW r \in Readers, Read(r) PROVE UNCHANGED <<vec, metadata>>
    BY <2>4, Zenon DEF Read, Search, validateSearchHeads, SelectMode, SearchIndexes, Stale, Again, SearchEnds, store
  <2>5. CASE UNCHANGED vars
    BY <2>5 DEF vars, store
  <2> QED
    BY <2>1, <2>2, <2>3, <2>4, <2>5, WritersPlan DEF Next
<1> QED
  BY <1>1, <1>2, PTL DEF Spec

\* No vec0 row is left without the metadata row by which the index deletes it,
\* provided that every process has a vector index (SQLiteMemoryVectorIndex
\* clears its rows before the heads are replaced).
THEOREM VectorsAreTracked ==
    ASSUME Embedding = Processes
    PROVE  Spec => []VectorRowsAreTracked
BY TrackedInvariant, PTL DEF Tracked
-----------------------------------------------------------------------------
(* The searches *)

Underway == {"head", "valid", "selected", "stale", "again"}

Running ==
    [phase : Underway, process : Processes, request : Requests, query : Texts,
     mode : {"none", "fts", "vector", "hybrid"}, attempt : 1..SearchAttempts,
     ref : Nat, since : Nat]

\* The head has moved once for each attempt before this one; a search that is
\* about to try again has seen it move once more.
Tried(s) ==
    /\ s.since + s.attempt <= Latest + 1
    /\ s.phase # "again" => s.since + s.attempt <= s.ref + 1 /\ s.ref <= Latest

\* The active entries a search should find.
Matching(s) == {v \in Active(Manifest(s.ref)) : v.text = s.query}

\* Vectors were complete when the mode was chosen, and are still if the head has
\* not moved; what was found is right for its revision.
Sound(s) ==
    /\ s.phase \in Underway \cup {"idle", "done", "conflict"}
    /\ s.phase \in Underway => s \in Running /\ Tried(s)
    /\ s.phase = "selected" => s.mode # "none"
    /\ s.phase = "selected" /\ s.mode # "fts" /\ s.ref = Latest => heads \subseteq metadata
    /\ s.phase = "done" => /\ s.ref \in 0..Latest
                           /\ s.hits \subseteq Matching(s)
                           /\ Embedding = Processes => s.hits = Matching(s)
    /\ s.phase = "conflict" => s.current >= s.since + SearchAttempts

Searches == DOMAIN search = Readers /\ \A r \in Readers : Sound(search[r])

\* Revisions are only appended, and the rows of a head change only with it.
LEMMA HistoryStands ==
    ASSUME StoreInv, [Next]_vars
    PROVE  /\ Latest \in Nat /\ Latest' \in Nat /\ Latest <= Latest'
           /\ \A n \in 0..Latest : Manifest(n)' = Manifest(n)
           /\ Latest' = Latest => heads' = heads /\ metadata' = metadata
<1>0. Listed /\ \E S : revisions \in Seq(S)
  BY DEF StoreInv, Listed
<1>1. Latest \in Nat
  BY <1>0 DEF Latest
<1>2. CASE UNCHANGED <<revisions, heads, metadata>>
  BY <1>1, <1>2 DEF Latest, Manifest
<1>3. ASSUME NEW p \in Processes, Commit(p)
      PROVE  Latest' = Latest + 1 /\ \A n \in 0..Latest : Manifest(n)' = Manifest(n)
  <2>1. Latest' = Latest + 1 /\ \A n \in 1..Latest : revisions'[n] = revisions[n]
    BY <1>0, <1>3, CommitAppends
  <2>2. ASSUME NEW n \in 0..Latest PROVE Manifest(n)' = Manifest(n)
    BY <1>1, <2>1 DEF Manifest
  <2> QED
    BY <2>1, <2>2
<1>4. ASSUME NEW p \in Processes, Plans(p) \/ Initialize(p) PROVE UNCHANGED <<revisions, heads, metadata>>
  BY <1>4 DEF Plans, Initialize, store
<1>5. ASSUME NEW r \in Readers, Read(r) PROVE UNCHANGED <<revisions, heads, metadata>>
  BY <1>5, Zenon DEF Read, Search, validateSearchHeads, SelectMode, SearchIndexes, Stale, Again, SearchEnds, store
<1>6. CASE UNCHANGED vars
  BY <1>2, <1>6 DEF vars, store
<1>7. CASE \E p \in Processes : Commit(p)
  BY <1>1, <1>3, <1>7
<1> QED
  BY <1>2, <1>4, <1>5, <1>6, <1>7, WritersPlan DEF Next

\* What is known of a search outlives the steps of the others.
LEMMA SoundStands ==
    ASSUME StoreInv, [Next]_vars, NEW s, Sound(s)
    PROVE  Sound(s)'
<1>1. /\ Latest \in Nat /\ Latest' \in Nat /\ Latest <= Latest'
      /\ \A n \in 0..Latest : Manifest(n)' = Manifest(n)
      /\ Latest' = Latest => heads' = heads /\ metadata' = metadata
  BY HistoryStands
<1>2. ASSUME s.phase \in Underway PROVE s \in Running /\ Tried(s)'
  <2>1. s \in Running /\ Tried(s)
    BY <1>2 DEF Sound
  <2>2. s.since \in Nat /\ s.attempt \in Nat /\ s.ref \in Nat
    BY <2>1, MemoryAssumption DEF Running
  <2> QED
    BY <1>1, <2>1, <2>2 DEF Tried
<1>3. ASSUME s.phase = "selected", s.mode # "fts", s.ref = Latest' PROVE heads' \subseteq metadata'
  <2>1. s \in Running /\ Tried(s)
    BY <1>3 DEF Sound, Underway
  <2>2. s.ref \in Nat /\ s.ref <= Latest
    BY <1>3, <2>1 DEF Running, Tried
  <2>3. s.ref = Latest /\ Latest' = Latest
    BY <1>1, <1>3, <2>2
  <2> QED
    BY <1>1, <1>3, <2>3 DEF Sound
<1>4. ASSUME s.phase = "done"
      PROVE  s.ref \in 0..Latest' /\ s.hits \subseteq Matching(s)' /\ (Embedding = Processes => s.hits = Matching(s)')
  <2>1. s.ref \in 0..Latest
    BY <1>4 DEF Sound
  <2>2. Matching(s)' = Matching(s)
    BY <1>1, <2>1 DEF Matching, Active, ActiveIds
  <2> QED
    BY <1>1, <1>4, <2>1, <2>2 DEF Sound
<1>5. /\ s.phase \in Underway \cup {"idle", "done", "conflict"}
      /\ s.phase = "selected" => s.mode # "none"
      /\ s.phase = "conflict" => s.current >= s.since + SearchAttempts
  BY DEF Sound
<1> QED
  BY <1>2, <1>3, <1>4, <1>5 DEF Sound

\* The head rows are finitely many, as the entries of the Memory are.
LEMMA HeadsAreFinite ==
    ASSUME StoreInv
    PROVE  IsFiniteSet(heads)
<1>1. PICK S : revisions \in Seq(S)
  BY DEF StoreInv, Listed
<1>2. DOMAIN Manifest(Latest) \subseteq Entries
  <2>1. Latest \in Nat
    BY <1>1 DEF Latest
  <2>2. CASE Latest = 0
    BY <2>2 DEF Manifest
  <2>3. CASE Latest # 0
    BY <2>1, <2>3 DEF Manifest, StoreInv, Listed
  <2> QED
    BY <2>2, <2>3
<1>3. IsFiniteSet(Entries)
  BY FS_Interval, MemoryAssumption DEF Entries
<1>4. IsFiniteSet(ActiveIds(Manifest(Latest)))
  BY <1>2, <1>3, FS_Subset DEF ActiveIds
<1> DEFINE row(e) == [version |-> Manifest(Latest)[e].version, revision |-> Latest]
           f == [e \in ActiveIds(Manifest(Latest)) |-> row(e)]
<1>5. heads = {row(e) : e \in ActiveIds(Manifest(Latest))}
  BY DEF StoreInv, ProjectionsFollowHead, Active
<1> HIDE DEF row
<1>6. f \in Surjection(ActiveIds(Manifest(Latest)), heads)
  BY <1>5 DEF Surjection
<1> QED
  BY <1>4, <1>6, FS_Surjection

\* What the indexes hold for the head is what the head lists.
LEMMA HitsAreMatching ==
    ASSUME StoreInv, Tracked, NEW s \in Running, Sound(s), s.phase = "selected", s.ref = Latest,
           NEW vector \in VectorHits(s)
    PROVE  /\ FuseRankings(FTSHits(s), vector) \subseteq Matching(s)
           /\ Embedding = Processes => FuseRankings(FTSHits(s), vector) = Matching(s)
<1> DEFINE found == {row \in heads : row.version.text = s.query}
<1>1. /\ fts = heads /\ metadata \subseteq heads /\ metadata \subseteq vec
      /\ heads = {[version |-> v, revision |-> Latest] : v \in Active(Manifest(Latest))}
  BY DEF StoreInv, ProjectionsFollowHead
<1>2. \A row \in heads : row.revision = s.ref
  BY <1>1
<1>3. Matching(s) = {row.version : row \in found}
  <2> DEFINE M == Active(Manifest(Latest))
             row(v) == [version |-> v, revision |-> Latest]
  <2>1. heads = {row(v) : v \in M} /\ \A v : row(v).version = v
    BY <1>1
  <2>2. Matching(s) = {v \in M : v.text = s.query}
    BY DEF Matching
  <2> HIDE DEF M, row
  <2>3. ASSUME NEW v \in Matching(s) PROVE v \in {x.version : x \in found}
    <3>1. row(v) \in heads /\ row(v).version = v /\ v.text = s.query
      BY <2>1, <2>2
    <3>2. row(v) \in found
      BY <3>1
    <3> QED
      BY <3>1, <3>2
  <2>4. ASSUME NEW x \in found PROVE x.version \in Matching(s)
    <3>1. x \in heads /\ x.version.text = s.query
      OBVIOUS
    <3>2. PICK v \in M : x = row(v)
      BY <2>1, <3>1
    <3> QED
      BY <2>1, <2>2, <3>1, <3>2
  <2> QED
    BY <2>3, <2>4
<1>4. FTSHits(s) = IF s.mode = "vector" THEN {} ELSE found
  BY <1>1, <1>2, Zenon DEF FTSHits, Matches
<1>5. vector \subseteq found
  <2>1. CASE s.mode = "fts"
    BY <2>1 DEF VectorHits
  <2>2. CASE s.mode # "fts"
    BY <1>1, <2>2 DEF VectorHits, Matches
  <2> QED
    BY <2>1, <2>2
<1>6. ASSUME Embedding = Processes, s.mode = "vector" PROVE vector = found
  <2>1. heads = metadata /\ vec = metadata
    BY <1>1, <1>6 DEF Sound, Tracked, VectorRowsAreTracked
  <2>2. PICK N \in SUBSET vec :
           /\ Cardinality(N) = IF Cardinality(metadata) < Cardinality(vec)
                               THEN Cardinality(metadata) ELSE Cardinality(vec)
           /\ vector = {row \in N \cap metadata : row.revision = s.ref /\ Matches(row, s.query)}
    BY <1>6 DEF VectorHits
  <2>3. IsFiniteSet(vec) /\ Cardinality(N) = Cardinality(vec)
    BY <2>1, <2>2, HeadsAreFinite
  <2>4. N = vec
    BY <2>3, FS_Subset
  <2> QED
    BY <1>2, <2>1, <2>2, <2>4 DEF Matches
<1> HIDE DEF found
<1>7. FTSHits(s) \cup vector \subseteq found
  BY <1>4, <1>5
<1>8. Embedding = Processes => FTSHits(s) \cup vector = found
  BY <1>4, <1>5, <1>6
<1> QED
  BY <1>3, <1>7, <1>8 DEF FuseRankings

LEMMA FieldsOfRunning ==
    ASSUME NEW s \in Running
    PROVE  /\ s.ref \in Nat /\ s.since \in Nat /\ s.attempt \in 1..SearchAttempts
           /\ s.phase \in Underway /\ s.query \in Texts /\ s.request \in Requests
           /\ SearchAttempts \in Nat
BY MemoryAssumption DEF Running

\* Each step of a search leads to one of which as much is known.
LEMMA ReadKeeps ==
    ASSUME StoreInv, Tracked, Searches, NEW r \in Readers, Read(r)
    PROVE  \E s : search' = [search EXCEPT ![r] = s] /\ Sound(s)
<1> DEFINE t == search[r]
<1>0. Latest \in Nat /\ Sound(t) /\ DOMAIN search = Readers
  BY DEF StoreInv, Listed, Searches, Latest
<1>1. Sound(Idle)
  BY DEF Sound, Idle, Underway
<1>2. CASE Search(r)
  <2>1. PICK p \in Processes, request \in Requests, query \in Texts :
           search' = [search EXCEPT ![r] =
             [phase |-> "head", process |-> p, request |-> request, query |-> query,
              mode |-> "none", attempt |-> 1, ref |-> Latest, since |-> Latest]]
    BY <1>2, Zenon DEF Search
  <2> DEFINE s == [phase |-> "head", process |-> p, request |-> request, query |-> query,
                   mode |-> "none", attempt |-> 1, ref |-> Latest, since |-> Latest]
  <2>2. s \in Running /\ s.phase = "head" /\ s.attempt = 1 /\ s.ref = Latest /\ s.since = Latest
    BY <1>0, MemoryAssumption DEF Running, Underway
  <2> HIDE DEF s
  <2>3. Sound(s)
    BY <1>0, <2>2 DEF Sound, Tried, Underway
  <2> QED
    BY <2>1, <2>3, Zenon DEF s
<1>3. ASSUME NEW phase \in {"valid", "stale"}, t \in Running, t.phase # "again",
             search' = [search EXCEPT ![r].phase = phase]
      PROVE  \E s : search' = [search EXCEPT ![r] = s] /\ Sound(s)
  <2> DEFINE s == [t EXCEPT !.phase = phase]
  <2>1. /\ s \in Running /\ s.phase = phase
        /\ s.since = t.since /\ s.attempt = t.attempt /\ s.ref = t.ref
    BY <1>3 DEF Running, Underway
  <2>2. search' = [search EXCEPT ![r] = s]
    BY <1>0, <1>3
  <2>3. Tried(t)
    BY <1>0, <1>3, FieldsOfRunning DEF Sound
  <2> HIDE DEF s
  <2>4. Sound(s)
    BY <1>3, <2>1, <2>3 DEF Sound, Tried, Underway
  <2> QED
    BY <2>2, <2>4, Zenon
<1>4. CASE validateSearchHeads(r)
  <2>1. t.phase = "head" /\ \E phase \in {"valid", "stale"} : search' = [search EXCEPT ![r].phase = phase]
    BY <1>4, Zenon DEF validateSearchHeads
  <2>2. t \in Running
    BY <1>0, <2>1 DEF Sound, Underway
  <2> QED
    BY <1>3, <2>1, <2>2, Zenon
<1>5. CASE SelectMode(r)
  <2>1. PICK mode \in selectSearchMode(t) :
           search' = [search EXCEPT ![r] =
             IF mode = "failed" THEN Idle ELSE [t EXCEPT !.phase = "selected", !.mode = mode]]
    BY <1>0, <1>5, Zenon DEF SelectMode
  <2>2. CASE mode = "failed"
    BY <1>1, <2>1, <2>2, Zenon
  <2>3. CASE mode # "failed"
    <3> DEFINE s == [t EXCEPT !.phase = "selected", !.mode = mode]
    <3>1. t \in Running /\ Tried(t) /\ t.phase = "valid"
      BY <1>0, <1>5 DEF SelectMode, Sound, Underway
    <3>2. mode \in {"fts", "vector", "hybrid"} /\ (mode # "fts" => VectorComplete(t.ref))
      BY <2>3, <3>1, FieldsOfRunning DEF selectSearchMode, Requests
    <3>3. /\ s \in Running /\ s.phase = "selected" /\ s.mode = mode
          /\ s.since = t.since /\ s.attempt = t.attempt /\ s.ref = t.ref
      BY <3>1, <3>2, Zenon DEF Running, Underway
    <3>4. search' = [search EXCEPT ![r] = s]
      BY <2>1, <2>3
    <3> HIDE DEF s
    <3>5. ASSUME s.mode # "fts", s.ref = Latest PROVE heads \subseteq metadata
      <4>1. {row \in heads : row.revision = Latest} \subseteq metadata
        BY <3>2, <3>3, <3>5 DEF VectorComplete
      <4>2. \A row \in heads : row.revision = Latest
        BY DEF StoreInv, ProjectionsFollowHead
      <4> QED
        BY <4>1, <4>2
    <3>6. Tried(s)
      BY <3>1, <3>3 DEF Tried
    <3> QED
      BY <3>2, <3>3, <3>4, <3>5, <3>6, Zenon DEF Sound, Underway
  <2> QED
    BY <2>2, <2>3
<1>6. CASE SearchIndexes(r)
  <2>1. t \in Running /\ t.phase = "selected" /\ Tried(t)
    BY <1>0, <1>6 DEF SearchIndexes, Sound, Underway
  <2>2. CASE ~StillHead(t.ref)
    <3>1. search' = [search EXCEPT ![r].phase = "stale"]
      BY <1>6, <2>2 DEF SearchIndexes
    <3> QED
      BY <1>3, <2>1, <3>1, Zenon
  <2>3. CASE StillHead(t.ref)
    <3>1. PICK vector \in VectorHits(t) :
             search' = [search EXCEPT ![r] =
               [phase |-> "done", query |-> t.query, ref |-> t.ref,
                hits |-> FuseRankings(FTSHits(t), vector)]]
      BY <1>6, <2>3 DEF SearchIndexes
    <3> DEFINE found == FuseRankings(FTSHits(t), vector)
               s == [phase |-> "done", query |-> t.query, ref |-> t.ref, hits |-> found]
    <3>2. t.ref = Latest
      BY <2>3 DEF StillHead
    <3>3. found \subseteq Matching(t) /\ (Embedding = Processes => found = Matching(t))
      BY <1>0, <2>1, <3>2, HitsAreMatching
    <3> HIDE DEF found
    <3>4. s.phase = "done" /\ s.ref = t.ref /\ s.query = t.query /\ s.hits = found
      OBVIOUS
    <3>5. search' = [search EXCEPT ![r] = s]
      BY <3>1 DEF found
    <3> HIDE DEF s
    <3>6. Matching(s) = Matching(t)
      BY <3>4 DEF Matching
    <3>7. Sound(s)
      BY <1>0, <3>2, <3>3, <3>4, <3>6 DEF Sound, Underway
    <3> QED
      BY <3>5, <3>7, Zenon
  <2> QED
    BY <2>2, <2>3
<1>7. CASE Stale(r)
  <2>1. t \in Running /\ t.phase = "stale" /\ Tried(t) /\ t.ref # Latest
    BY <1>0, <1>7 DEF Stale, Sound, Underway
  <2>2. t.ref \in Nat /\ t.since \in Nat /\ t.attempt \in 1..SearchAttempts /\ SearchAttempts \in Nat
    BY <2>1, FieldsOfRunning
  <2>3. t.since + t.attempt <= Latest
    BY <1>0, <2>1, <2>2 DEF Tried
  <2>4. CASE LastAttempt(t.attempt)
    <3> DEFINE s == [phase |-> "conflict", since |-> t.since, current |-> Latest]
    <3>1. search' = [search EXCEPT ![r] = s]
      BY <1>7, <2>4 DEF Stale
    <3>2. s.phase = "conflict" /\ s.current >= s.since + SearchAttempts
      BY <1>0, <2>2, <2>3, <2>4 DEF LastAttempt
    <3> HIDE DEF s
    <3> QED
      BY <3>1, <3>2, Zenon DEF Sound, Underway
  <2>5. CASE ~LastAttempt(t.attempt)
    <3> DEFINE s == [t EXCEPT !.phase = "again", !.attempt = @ + 1]
    <3>1. search' = [search EXCEPT ![r] = s]
      BY <1>7, <2>5 DEF Stale
    <3>2. t.attempt + 1 \in 1..SearchAttempts
      BY <2>2, <2>5 DEF LastAttempt
    <3>3. s \in Running /\ s.phase = "again" /\ s.since = t.since /\ s.attempt = t.attempt + 1
      BY <2>1, <3>2, Zenon DEF Running, Underway
    <3> HIDE DEF s
    <3>4. Tried(s)
      BY <1>0, <2>2, <2>3, <3>3 DEF Tried
    <3> QED
      BY <3>1, <3>3, <3>4, Zenon DEF Sound, Underway
  <2> QED
    BY <2>4, <2>5
<1>8. CASE Again(r)
  <2>1. t \in Running /\ t.phase = "again" /\ Tried(t)
    BY <1>0, <1>8 DEF Again, Sound, Underway
  <2> DEFINE s == [t EXCEPT !.phase = "head", !.ref = Latest]
  <2>2. search' = [search EXCEPT ![r] = s]
    BY <1>0, <1>8, Zenon DEF Again
  <2>3. /\ s \in Running /\ s.phase = "head" /\ s.ref = Latest
        /\ s.since = t.since /\ s.attempt = t.attempt
    BY <1>0, <2>1, Zenon DEF Running, Underway
  <2> HIDE DEF s
  <2>4. Tried(s)
    BY <1>0, <2>1, <2>3 DEF Tried
  <2> QED
    BY <2>2, <2>3, <2>4, Zenon DEF Sound, Underway
<1>9. CASE SearchEnds(r)
  BY <1>1, <1>9, Zenon DEF SearchEnds
<1> QED
  BY <1>2, <1>4, <1>5, <1>6, <1>7, <1>8, <1>9 DEF Read

LEMMA SearchInvariant == Spec => []Searches
<1>1. Init => Searches
  BY DEF Init, Searches, Sound, Idle, Underway
<1>2. StoreInv /\ Tracked /\ Searches /\ [Next]_vars => Searches'
  <2> SUFFICES ASSUME StoreInv, Tracked, Searches, [Next]_vars PROVE Searches'
    OBVIOUS
  <2>1. CASE UNCHANGED search
    <3>1. ASSUME NEW r \in Readers PROVE Sound(search[r])'
      <4>1. PICK s : s = search[r]
        OBVIOUS
      <4>2. Sound(s)'
        BY <4>1, SoundStands DEF Searches
      <4> QED
        BY <2>1, <4>1, <4>2
    <3> QED
      BY <2>1, <3>1 DEF Searches
  <2>2. ASSUME NEW r \in Readers, Read(r) PROVE Searches'
    <3>1. PICK s : search' = [search EXCEPT ![r] = s] /\ Sound(s)
      BY <2>2, ReadKeeps
    <3>2. ASSUME NEW q \in Readers PROVE Sound(search[q])'
      <4>1. PICK x : x = search'[q] /\ Sound(x)
        BY <3>1 DEF Searches
      <4>2. Sound(x)'
        BY <4>1, SoundStands
      <4> QED
        BY <4>1, <4>2
    <3> QED
      BY <3>1, <3>2 DEF Searches
  <2>3. ASSUME NEW p \in Processes, Write(p) PROVE UNCHANGED search
    BY <2>3, WritersPlan, Zenon DEF Plans, Commit, Initialize
  <2> QED
    BY <2>1, <2>2, <2>3 DEF Next, vars
<1> QED
  BY <1>1, <1>2, StoreInvariant, TrackedInvariant, PTL DEF Spec

\* What a search returns is active in the revision it names and matches, with
\* whatever vector indexes the processes are configured.
FoundIsActive ==
    \A r \in Readers : search[r].phase = "done" =>
      search[r].hits \subseteq {v \in Active(Manifest(search[r].ref)) : v.text = search[r].query}

\* No retired, replaced or later entry is ever found, although writers commit
\* between the transactions of a search and vec0 may hold rows of old heads.
THEOREM NothingStaleIsFound == Spec => []FoundIsActive
<1>1. Searches => FoundIsActive
  BY DEF Searches, Sound, FoundIsActive, Matching
<1> QED
  BY <1>1, SearchInvariant, PTL

\* A search that succeeds found every matching active entry of its revision and
\* no other, provided that every process has a vector index: the vectors that a
\* process without one leaves behind take the place of current ones among the
\* nearest.
THEOREM SearchesAreExact ==
    ASSUME Embedding = Processes
    PROVE  Spec => []SearchIsExact
<1>1. Searches => SearchIsExact
  BY DEF Searches, Sound, SearchIsExact, Matching
<1> QED
  BY <1>1, SearchInvariant, PTL

\* A conflict is reported only after the head moved under every attempt of the
\* search (memorySearchAttempts).
THEOREM ConflictsAreReal == Spec => []ConflictMeansMoved
<1>1. Searches => ConflictMeansMoved
  BY DEF Searches, Sound, ConflictMeansMoved
<1> QED
  BY <1>1, SearchInvariant, PTL

-----------------------------------------------------------------------------
(* Induction over the inputs of a plan *)

LEMMA LeastElement ==
    ASSUME NEW S, S \subseteq Nat, S # {}
    PROVE  \E n \in S : \A m \in S : n <= m
<1>1. PICK n \in S : \A m \in S : ~(<<m, n>> \in OpToRel(<, Nat))
  BY WFMin, NatLessThanWellFounded, Zenon
<1>2. \A m \in S : <<m, n>> \in Nat \X Nat
  OBVIOUS
<1>3. \A m \in S : ~(m < n)
  BY <1>1, <1>2, Zenon DEF OpToRel
<1> QED
  BY <1>3

\* Induction for a property given as the set of numbers that have it.
LEMMA SetInduction ==
    ASSUME NEW S, 0 \in S, \A n \in S \cap Nat : n + 1 \in S
    PROVE  Nat \subseteq S
<1> SUFFICES ASSUME Nat \ S # {} PROVE FALSE
  OBVIOUS
<1>1. PICK n \in Nat \ S : \A m \in Nat \ S : n <= m
  BY LeastElement, Zenon
<1>2. n # 0 /\ n - 1 \in Nat /\ n - 1 \in S
  BY <1>1
<1> QED
  BY <1>2

\* The plans that prepareCommit makes, one input after the other.
Planned(base, inputs, N, f) ==
    f = [i \in 0..N |-> IF i = 0 THEN NoPlan(Manifest(base))
                        ELSE PlanInput(f[i - 1], inputs[i], base + 1)]

LEMMA PlansExist ==
    ASSUME NEW base, NEW inputs, NEW N \in Nat
    PROVE  \E f : Planned(base, inputs, N, f)
<1> DEFINE S == {n \in Nat : \E f : Planned(base, inputs, n, f)}
           Step(plan, i) == PlanInput(plan, inputs[i], base + 1)
           none == NoPlan(Manifest(base))
<1>1. 0 \in S
  <2> DEFINE f == [i \in 0..0 |-> none]
  <2> HIDE DEF none
  <2>1. f = [i \in 0..0 |-> IF i = 0 THEN none ELSE Step(f[i - 1], i)]
    OBVIOUS
  <2> HIDE DEF f
  <2> QED
    BY <2>1 DEF Planned, none
<1>2. ASSUME NEW n \in S \cap Nat PROVE n + 1 \in S
  <2> HIDE DEF none, Step
  <2>1. PICK g : g = [i \in 0..n |-> IF i = 0 THEN none ELSE Step(g[i - 1], i)]
    BY <1>2 DEF Planned, none, Step
  <2> DEFINE f == [i \in 0..(n + 1) |-> IF i = n + 1 THEN Step(g[n], n + 1) ELSE g[i]]
  <2>2. ASSUME NEW i \in 0..(n + 1)
        PROVE  f[i] = IF i = 0 THEN none ELSE Step(f[i - 1], i)
    <3>1. CASE i = n + 1
      BY <3>1
    <3>2. CASE i \in 1..n
      <4>1. g[i] = Step(g[i - 1], i)
        BY <2>1, <3>2
      <4> QED
        BY <3>2, <4>1
    <3>3. CASE i = 0
      <4>1. g[0] = none
        BY <2>1
      <4> QED
        BY <3>3, <4>1
    <3> QED
      BY <3>1, <3>2, <3>3
  <2>3. f = [i \in 0..(n + 1) |-> IF i = 0 THEN none ELSE Step(f[i - 1], i)]
    <3> DEFINE h == [i \in 0..(n + 1) |-> IF i = 0 THEN none ELSE Step(f[i - 1], i)]
    <3>1. \A i \in 0..(n + 1) : f[i] = h[i]
      BY <2>2
    <3> QED
      BY <3>1
  <2> HIDE DEF f
  <2>4. Planned(base, inputs, n + 1, f)
    BY <2>3 DEF Planned, none, Step
  <2> QED
    BY <2>4
<1> HIDE DEF S
<1>3. N \in S
  BY <1>1, <1>2, SetInduction
<1> QED
  BY <1>3 DEF S

LEMMA PrepareCommitDef ==
    ASSUME NEW base, NEW inputs, Len(inputs) \in Nat
    PROVE  \E f : Planned(base, inputs, Len(inputs), f) /\ prepareCommit(base, inputs) = f[Len(inputs)]
<1> DEFINE f == CHOOSE f : f = [i \in 0..Len(inputs) |->
                  IF i = 0 THEN NoPlan(Manifest(base)) ELSE PlanInput(f[i - 1], inputs[i], base + 1)]
<1>1. Planned(base, inputs, Len(inputs), f)
  BY PlansExist, Zenon DEF Planned
<1>2. prepareCommit(base, inputs) = f[Len(inputs)]
  BY Zenon DEF prepareCommit
<1> HIDE DEF f
<1> QED
  BY <1>1, <1>2

-----------------------------------------------------------------------------
(* What a plan makes of a revision *)

\* Versions and manifests without the bounds of the model, which a plan is held
\* to only when it is complete.
VersionShape ==
    [entry : Nat, revision : Nat, number : Nat, previous : Nat, text : Texts,
     sources : SUBSET Evidence]

Items == [version : VersionShape, active : BOOLEAN]

Dated(v, n) == /\ 1 <= v.number /\ v.number <= v.revision /\ v.revision <= n
               /\ v.previous < v.revision

\* A manifest of revision n: it lists the entries 1 to k, each with a version of
\* its own that is no younger than the revision.
IsManifest(m, n) ==
    /\ \E k \in Nat : m \in [1..k -> Items]
    /\ \A e \in DOMAIN m : m[e].version.entry = e /\ Dated(m[e].version, n)

Touched(changes) == {c.entry : c \in changes}

\* Version v replaces w (newEntryVersion, and the test for equal content).
Continues(v, w) ==
    /\ v.number = w.number + 1
    /\ v.previous = w.revision
    /\ w.sources \subseteq v.sources
    /\ Material(w) # Material(v)

\* Each change tells what became of its entry, in revision n after the manifest M.
Told(c, M, n, m, added) ==
    /\ c \in [op : {"add", "revise", "deactivate", "reactivate"}, entry : Nat,
              from : 0..n, to : 0..n]
    /\ m[c.entry].active = (c.op # "deactivate")
    /\ c.op \in {"add", "revise"} => c.to = n /\ m[c.entry].version \in added
    /\ c.op \notin {"add", "revise"} =>
          c.entry \in DOMAIN M /\ m[c.entry].version = M[c.entry].version

\* Each version that revision n adds is the entry's current one and continues the
\* one of M, or is the first of a new entry.
Grown(v, M, n, m) ==
    /\ v \in VersionShape /\ v.revision = n
    /\ v.entry \in DOMAIN m /\ m[v.entry].version = v
    /\ v.entry \in DOMAIN M => Continues(v, M[v.entry].version)
    /\ v.entry \notin DOMAIN M => v.number = 1 /\ v.previous = 0

\* Manifest m of revision n is M with the changes, of which each entry has one.
Follows(M, n, m, changes, added) ==
    /\ IsManifest(m, n)
    /\ DOMAIN m = DOMAIN M \cup Touched(changes)
    /\ \A c, d \in changes : c.entry = d.entry => c = d
    /\ \A e \in DOMAIN M \ Touched(changes) : m[e] = M[e]
    /\ \A c \in changes : Told(c, M, n, m, added)
    /\ \A v \in added : v.entry \in Touched(changes) /\ Grown(v, M, n, m)

\* What is known of a plan after each input: an entry of the base is changed at
\* most once, when it is targeted.
PlanFollows(plan, M, n) ==
    /\ DOMAIN plan = {"manifest", "changes", "added", "targeted", "newContent", "valid"}
    /\ Follows(M, n, plan.manifest, plan.changes, plan.added)
    /\ Touched(plan.changes) \cap DOMAIN M \subseteq plan.targeted

LEMMA NoPlanFollows ==
    ASSUME NEW M, NEW n \in Nat \ {0}, IsManifest(M, n - 1)
    PROVE  PlanFollows(NoPlan(M), M, n)
<1> DEFINE plan == NoPlan(M)
<1>1. /\ plan.manifest = M /\ plan.changes = {} /\ plan.added = {}
      /\ DOMAIN plan = {"manifest", "changes", "added", "targeted", "newContent", "valid"}
  BY DEF NoPlan
<1>2. IsManifest(M, n)
  <2>1. \A e \in DOMAIN M : M[e].version.entry = e /\ M[e].version.revision \in Nat /\ Dated(M[e].version, n - 1)
    BY DEF IsManifest, Items, VersionShape
  <2>2. \A e \in DOMAIN M : Dated(M[e].version, n)
    BY <2>1 DEF Dated
  <2> QED
    BY <2>1, <2>2 DEF IsManifest
<1> HIDE DEF plan
<1> QED
  BY <1>1, <1>2 DEF PlanFollows, Follows, Touched, plan

\* Manifest r is m with a new item for an entry that had no change, and c tells so.
Edits(M, n, m, changes, e, item, c, r) ==
    /\ e \in Nat \ Touched(changes)
    /\ item \in Items /\ item.active
    /\ item.version.entry = e /\ Dated(item.version, n)
    /\ c \in [op : {"add", "revise"}, entry : {e}, from : 0..n, to : {n}]
    /\ r = [f \in DOMAIN m \cup {e} |-> IF f = e THEN item ELSE m[f]]
    /\ \E k \in Nat : DOMAIN r = 1..k
    /\ Grown(item.version, M, n, r)

LEMMA EditFollows ==
    ASSUME NEW M, NEW n \in Nat \ {0}, NEW m, NEW changes, NEW added, NEW e, NEW item, NEW c, NEW r,
           Follows(M, n, m, changes, added),
           Edits(M, n, m, changes, e, item, c, r)
    PROVE  Follows(M, n, r, changes \cup {c}, added \cup {item.version})
<1>0. PICK k \in Nat : DOMAIN r = 1..k
  BY DEF Edits
<1> USE DEF Edits
<1>1. /\ IsManifest(m, n)
      /\ DOMAIN m = DOMAIN M \cup Touched(changes)
      /\ \A d \in changes : Told(d, M, n, m, added)
      /\ \A v \in added : v.entry \in Touched(changes) /\ Grown(v, M, n, m)
  BY DEF Follows
<1>2. c.entry = e /\ c.op \in {"add", "revise"} /\ c.to = n /\ c.from \in 0..n
  OBVIOUS
<1>3. Touched(changes \cup {c}) = Touched(changes) \cup {e}
  BY <1>2 DEF Touched
<1>4. r[e] = item /\ \A f \in DOMAIN m : f # e => r[f] = m[f]
  OBVIOUS
<1>5. DOMAIN r = DOMAIN m \cup {e}
  OBVIOUS
<1>6. IsManifest(r, n)
  <2>1. \A f \in DOMAIN m : m[f] \in Items
    BY <1>1, Zenon DEF IsManifest
  <2>2. r \in [1..k -> Items]
    BY <1>0, <2>1
  <2>3. \A f \in DOMAIN r : r[f].version.entry = f /\ Dated(r[f].version, n)
    BY <1>1, <1>4, <1>5 DEF IsManifest
  <2> QED
    BY <2>2, <2>3 DEF IsManifest
<1>7. DOMAIN r = DOMAIN M \cup Touched(changes \cup {c})
  BY <1>1, <1>3, <1>5, SMTT(20)
<1>8. ASSUME NEW a \in changes \cup {c}, NEW b \in changes \cup {c}, a.entry = b.entry PROVE a = b
  BY <1>2, <1>8 DEF Follows, Touched
<1>9. ASSUME NEW f \in DOMAIN M \ Touched(changes \cup {c}) PROVE r[f] = M[f]
  <2>1. f \in DOMAIN m /\ f # e /\ m[f] = M[f]
    BY <1>1, <1>3, Zenon DEF Follows
  <2> QED
    BY <1>4, <2>1
<1>10. ASSUME NEW d \in changes \cup {c} PROVE Told(d, M, n, r, added \cup {item.version})
  <2>1. CASE d = c
    <3>1. c \in [op : {"add", "revise", "deactivate", "reactivate"}, entry : Nat, from : 0..n, to : 0..n]
      OBVIOUS
    <3>2. r[c.entry].active = (c.op # "deactivate")
      BY <1>2, <1>4 DEF Items
    <3> QED
      BY <1>2, <1>4, <2>1, <3>1, <3>2 DEF Told
  <2>2. CASE d \in changes
    <3>1. d.entry \in DOMAIN m /\ d.entry # e
      BY <1>1, <2>2 DEF Touched
    <3> QED
      BY <1>1, <1>4, <2>2, <3>1 DEF Told
  <2> QED
    BY <2>1, <2>2
<1>11. ASSUME NEW v \in added PROVE Grown(v, M, n, r)
  <2>1. v.entry \in DOMAIN m /\ v.entry # e /\ Grown(v, M, n, m)
    BY <1>1 DEF Grown
  <2> QED
    BY <1>4, <1>5, <2>1 DEF Grown
<1>12. ASSUME NEW v \in added \cup {item.version} PROVE v.entry \in Touched(changes \cup {c})
  BY <1>1, <1>3, Zenon
<1> QED
  BY <1>6, <1>7, <1>8, <1>9, <1>10, <1>11, <1>12, Zenon DEF Follows

LEMMA AddFollows ==
    ASSUME NEW M, NEW n \in Nat \ {0}, NEW plan, PlanFollows(plan, M, n),
           NEW input, input.text \in Texts, input.sources \in SUBSET Evidence
    PROVE  PlanFollows(AddEntry(plan, input, n), M, n)
<1> DEFINE m == plan.manifest
           e == Cardinality(DOMAIN m) + 1
           v == newEntryVersion(e, NoVersion, input, n)
           item == [version |-> v, active |-> TRUE]
           c == [op |-> "add", entry |-> e, from |-> 0, to |-> n]
           r == [f \in DOMAIN m \cup {e} |-> IF f = e THEN item ELSE m[f]]
           more == [plan EXCEPT !.manifest = r, !.changes = @ \cup {c},
                                !.added = @ \cup {v},
                                !.newContent = @ \cup {Material(v)}]
<1>1. AddEntry(plan, input, n) \in {plan, more}
  BY DEF AddEntry
<1>2. PICK k \in Nat : m \in [1..k -> Items]
  BY DEF PlanFollows, Follows, IsManifest
<1>3. e = k + 1
  <2>1. DOMAIN m = 1..k
    BY <1>2
  <2>2. Cardinality(1..k) = k
    BY FS_Interval
  <2> QED
    BY <2>1, <2>2
<1>4. Follows(M, n, m, plan.changes, plan.added) /\ DOMAIN m = DOMAIN M \cup Touched(plan.changes)
  BY DEF PlanFollows, Follows
<1>5. e \notin DOMAIN M /\ e \notin Touched(plan.changes)
  BY <1>2, <1>3, <1>4
<1>6. /\ v \in VersionShape /\ v.entry = e /\ v.revision = n
      /\ v.number = 1 /\ v.previous = 0
  <2> HIDE DEF e
  <2>1. e \in Nat
    BY <1>3
  <2> QED
    BY <2>1 DEF newEntryVersion, NoVersion, VersionShape
<1>7. Dated(v, n)
  BY <1>6 DEF Dated
<1> HIDE DEF e, v
<1>8. DOMAIN r = 1..(k + 1) /\ r[e] = item
  BY <1>2, <1>3
<1>9. Grown(v, M, n, r)
  BY <1>5, <1>6, <1>8 DEF Grown
<1>10. item \in Items /\ item.version = v /\ item.active
  BY <1>6 DEF Items
<1>11. c \in [op : {"add", "revise"}, entry : {e}, from : 0..n, to : {n}] /\ e \in Nat
  BY <1>3
<1> HIDE DEF m, item, c, r
<1>12. Follows(M, n, r, plan.changes \cup {c}, plan.added \cup {v})
  <2>1. r = [f \in DOMAIN m \cup {e} |-> IF f = e THEN item ELSE m[f]]
    BY DEF r
  <2>2. k + 1 \in Nat
    OBVIOUS
  <2>3. Edits(M, n, m, plan.changes, e, item, c, r)
    BY <1>5, <1>6, <1>7, <1>8, <1>9, <1>10, <1>11, <2>1, <2>2 DEF Edits
  <2>4. Follows(M, n, r, plan.changes \cup {c}, plan.added \cup {item.version})
    BY <1>4, <2>3, EditFollows
  <2> QED
    BY <1>10, <2>4
<1>13. DOMAIN more = {"manifest", "changes", "added", "targeted", "newContent", "valid"}
  BY DEF PlanFollows
<1>14. /\ more.manifest = r /\ more.changes = plan.changes \cup {c}
       /\ more.added = plan.added \cup {v} /\ more.targeted = plan.targeted
  BY DEF PlanFollows
<1>15. Touched(plan.changes \cup {c}) \cap DOMAIN M = Touched(plan.changes) \cap DOMAIN M
  BY <1>5 DEF Touched, c
<1> HIDE DEF more
<1>16. PlanFollows(more, M, n)
  BY <1>12, <1>13, <1>14, <1>15 DEF PlanFollows
<1> QED
  BY <1>1, <1>16

LEMMA ReviseFollows ==
    ASSUME NEW M, NEW n \in Nat \ {0}, IsManifest(M, n - 1),
           NEW plan, PlanFollows(plan, M, n),
           NEW input, input.text \in Texts, input.sources \in SUBSET Evidence,
           input.entry \in DOMAIN M
    PROVE  PlanFollows(ReviseEntry(plan, input, n), M, n)
<1> DEFINE m == plan.manifest
           e == input.entry
           old == m[e].version
           v == newEntryVersion(e, old, input, n)
           c == [op |-> "revise", entry |-> e, from |-> old.revision, to |-> n]
           item == [m[e] EXCEPT !.version = v]
           r == [m EXCEPT ![e] = item]
           refused == [plan EXCEPT !.valid = FALSE]
           passed == [plan EXCEPT !.targeted = @ \cup {e}]
           more == [plan EXCEPT !.targeted = @ \cup {e}, !.manifest = r,
                                !.changes = @ \cup {c}, !.added = @ \cup {v}]
<1>0. DOMAIN plan = {"manifest", "changes", "added", "targeted", "newContent", "valid"}
  BY DEF PlanFollows
<1>1. \/ ReviseEntry(plan, input, n) \in {refused, passed}
      \/ /\ ReviseEntry(plan, input, n) = more
         /\ e \notin plan.targeted /\ m[e].active /\ Material(v) # Material(old)
  BY <1>0 DEF ReviseEntry
<1>2. PlanFollows(refused, M, n)
  <2>1. /\ refused.manifest = plan.manifest /\ refused.changes = plan.changes
        /\ refused.added = plan.added /\ refused.targeted = plan.targeted
        /\ DOMAIN refused = DOMAIN plan
    BY <1>0
  <2> HIDE DEF refused
  <2> QED
    BY <2>1 DEF PlanFollows
<1>3. PlanFollows(passed, M, n)
  <2>1. /\ passed.manifest = plan.manifest /\ passed.changes = plan.changes
        /\ passed.added = plan.added /\ passed.targeted = plan.targeted \cup {e}
        /\ DOMAIN passed = DOMAIN plan
    BY <1>0
  <2> HIDE DEF passed
  <2> QED
    BY <2>1 DEF PlanFollows
<1>4. ASSUME e \notin plan.targeted, m[e].active, Material(v) # Material(old)
      PROVE  PlanFollows(more, M, n)
  <2>1. PICK k \in Nat : m \in [1..k -> Items]
    BY DEF PlanFollows, Follows, IsManifest
  <2>2. Follows(M, n, m, plan.changes, plan.added) /\ DOMAIN m = DOMAIN M \cup Touched(plan.changes)
    BY DEF PlanFollows, Follows
  <2>3. e \notin Touched(plan.changes) /\ e \in DOMAIN m /\ e \in 1..k
    BY <1>4, <2>1, <2>2 DEF PlanFollows
  <2>4. m[e] = M[e] /\ m[e] \in Items
    BY <2>1, <2>2, <2>3 DEF Follows
  <2>5. old \in VersionShape /\ old.entry = e /\ Dated(old, n - 1)
    BY <2>4 DEF IsManifest, Items
  <2>6. /\ v \in VersionShape /\ v.entry = e /\ v.revision = n
        /\ v.number = old.number + 1 /\ v.previous = old.revision
        /\ old.sources \subseteq v.sources
    <3> HIDE DEF old, e
    <3>1. e \in Nat
      BY <2>3
    <3>2. old.number \in Nat /\ old.revision \in Nat /\ old.sources \in SUBSET Evidence
      BY <2>5 DEF VersionShape
    <3> QED
      BY <3>1, <3>2 DEF newEntryVersion, VersionShape
  <2>7. Dated(v, n)
    <3> HIDE DEF v, old
    <3>1. old.number \in Nat /\ old.revision \in Nat
      BY <2>5, SMTT(20) DEF VersionShape
    <3> QED
      BY <2>5, <2>6, <3>1 DEF Dated
  <2>8. Continues(v, M[e].version)
    BY <1>4, <2>4, <2>6 DEF Continues
  <2>9. old.revision \in 0..n
    <3> HIDE DEF old
    <3>1. old.revision \in Nat
      BY <2>5 DEF VersionShape
    <3> QED
      BY <2>5, <3>1 DEF Dated
  <2> HIDE DEF v, old
  <2>10. item \in Items /\ item.version = v /\ item.active
    BY <1>4, <2>4, <2>6 DEF Items
  <2>11. c \in [op : {"add", "revise"}, entry : {e}, from : 0..n, to : {n}]
    BY <2>9
  <2> HIDE DEF item, c
  <2>12. r = [f \in DOMAIN m \cup {e} |-> IF f = e THEN item ELSE m[f]] /\ DOMAIN r = 1..k /\ r[e] = item
    BY <2>1, <2>3
  <2> HIDE DEF r
  <2>13. Grown(v, M, n, r)
    BY <2>3, <2>6, <2>8, <2>10, <2>12, SMTT(20) DEF Grown
  <2>14. Follows(M, n, r, plan.changes \cup {c}, plan.added \cup {v})
    <3> HIDE DEF m, e
    <3>1. e \in Nat
      BY <2>3
    <3> QED
      <4>1. Edits(M, n, m, plan.changes, e, item, c, r)
        BY <2>3, <2>6, <2>7, <2>10, <2>11, <2>12, <2>13, <3>1, SMTT(20) DEF Edits
      <4>2. Follows(M, n, r, plan.changes \cup {c}, plan.added \cup {item.version})
        BY <2>2, <4>1, EditFollows
      <4> QED
        BY <2>10, <4>2, SMTT(20)
  <2>15. /\ more.manifest = r /\ more.changes = plan.changes \cup {c}
         /\ more.added = plan.added \cup {v} /\ more.targeted = plan.targeted \cup {e}
         /\ DOMAIN more = DOMAIN plan
    BY <1>0
  <2>16. Touched(plan.changes \cup {c}) = Touched(plan.changes) \cup {e}
    <3>1. c.entry = e
      BY DEF c
    <3> QED
      BY <3>1 DEF Touched
  <2> HIDE DEF more
  <2> QED
    BY <1>0, <2>14, <2>15, <2>16, Zenon DEF PlanFollows
<1> HIDE DEF refused, passed, more
<1> QED
  BY <1>1, <1>2, <1>3, <1>4

\* By induction over the inputs: whatever a flush extracts, the plan follows its base.
LEMMA PrepareCommitFollows ==
    ASSUME NEW base \in Nat, IsManifest(Manifest(base), base),
           NEW inputs, Len(inputs) \in Nat,
           \A i \in 1..Len(inputs) :
              /\ inputs[i].entry \in {0} \cup DOMAIN Manifest(base)
              /\ inputs[i].text \in Texts /\ inputs[i].sources \in SUBSET Evidence
    PROVE  PlanFollows(prepareCommit(base, inputs), Manifest(base), base + 1)
<1> DEFINE N == Len(inputs)
           M == Manifest(base)
<1>1. PICK f : Planned(base, inputs, N, f) /\ prepareCommit(base, inputs) = f[N]
  BY PrepareCommitDef
<1>2. f[0] = NoPlan(M)
  BY <1>1 DEF Planned
<1>3. \A i \in 1..N : f[i] = PlanInput(f[i - 1], inputs[i], base + 1)
  BY <1>1 DEF Planned
<1> DEFINE S == {i \in Nat : i <= N => PlanFollows(f[i], M, base + 1)}
<1> HIDE DEF M
<1>4. 0 \in S
  BY <1>2, NoPlanFollows DEF M
<1>5. ASSUME NEW i \in S \cap Nat PROVE i + 1 \in S
  <2> SUFFICES ASSUME i + 1 <= N PROVE PlanFollows(f[i + 1], M, base + 1)
    OBVIOUS
  <2>1. PlanFollows(f[i], M, base + 1) /\ i + 1 \in 1..N
    BY <1>5
  <2>2. f[i + 1] = PlanInput(f[i], inputs[i + 1], base + 1)
    BY <1>3, <2>1
  <2>3. CASE inputs[i + 1].entry = 0
    <3>1. f[i + 1] = AddEntry(f[i], inputs[i + 1], base + 1)
      BY <2>2, <2>3 DEF PlanInput
    <3> QED
      BY <2>1, <3>1, AddFollows
  <2>4. CASE inputs[i + 1].entry # 0
    <3>1. f[i + 1] = ReviseEntry(f[i], inputs[i + 1], base + 1)
      BY <2>2, <2>4 DEF PlanInput
    <3>2. inputs[i + 1].entry \in DOMAIN M
      BY <2>1, <2>4 DEF M
    <3>3. IsManifest(M, (base + 1) - 1)
      BY DEF M
    <3> QED
      BY <2>1, <3>1, <3>2, <3>3, ReviseFollows, SMTT(20)
  <2> QED
    BY <2>3, <2>4
<1> HIDE DEF S
<1>6. N \in S
  BY <1>4, <1>5, SetInduction
<1> QED
  BY <1>1, <1>6 DEF S, M

LEMMA SetStateFollows ==
    ASSUME NEW base \in Nat, IsManifest(Manifest(base), base),
           NEW entries \in SUBSET DOMAIN Manifest(base), NEW active \in BOOLEAN
    PROVE  LET plan == setEntryState(base, entries, active) IN
           Follows(Manifest(base), base + 1, plan.manifest, plan.changes, plan.added)
<1> DEFINE M == Manifest(base)
           n == base + 1
           plan == setEntryState(base, entries, active)
           moved == {e \in entries : M[e].active # active}
           m == [e \in DOMAIN M |-> IF e \in moved THEN [M[e] EXCEPT !.active = active] ELSE M[e]]
           change(e) == [op |-> IF active THEN "reactivate" ELSE "deactivate", entry |-> e,
                         from |-> IF active THEN 0 ELSE M[e].version.revision,
                         to |-> IF active THEN M[e].version.revision ELSE 0]
<1>1. /\ plan.manifest = m /\ plan.changes = {change(e) : e \in moved}
      /\ plan.added = {}
  BY DEF setEntryState, NoPlan
<1> HIDE DEF plan, M
<1>2. PICK k \in Nat : M \in [1..k -> Items]
  BY DEF IsManifest, M
<1>3. \A e \in DOMAIN M : /\ M[e] \in Items /\ M[e].version \in VersionShape
                          /\ M[e].version.entry = e /\ Dated(M[e].version, base)
                          /\ M[e].version.revision \in 0..n /\ e \in Nat
  <2>1. ASSUME NEW e \in DOMAIN M
        PROVE  M[e] \in Items /\ M[e].version \in VersionShape /\ M[e].version.revision \in Nat /\ e \in Nat
    BY <1>2 DEF Items, VersionShape
  <2> QED
    BY <2>1 DEF IsManifest, M, Dated
<1>4. ASSUME NEW e \in moved PROVE change(e).entry = e /\ e \in DOMAIN M
  BY DEF M
<1>5. Touched(plan.changes) = moved
  <2> HIDE DEF change, moved
  <2> QED
    BY <1>1, <1>4 DEF Touched
<1>6. ASSUME NEW e \in DOMAIN M
      PROVE  /\ m[e] \in Items /\ m[e].version = M[e].version
             /\ e \in moved => m[e].active = active
             /\ e \notin moved => m[e] = M[e]
  BY <1>3 DEF Items
<1>7. ASSUME NEW e \in moved
      PROVE  /\ change(e) \in [op : {"add", "revise", "deactivate", "reactivate"}, entry : Nat,
                               from : 0..n, to : 0..n]
             /\ change(e).op \notin {"add", "revise"}
             /\ active = (change(e).op # "deactivate")
  BY <1>3, <1>4
<1>8. DOMAIN m = DOMAIN M
  OBVIOUS
<1> HIDE DEF m, moved, change
<1>9. IsManifest(m, n)
  <2>1. m \in [1..k -> Items]
    BY <1>2, <1>6, <1>8 DEF m
  <2>2. ASSUME NEW e \in DOMAIN M PROVE Dated(M[e].version, n)
    BY <1>3, <2>2 DEF Dated
  <2> QED
    BY <1>3, <1>6, <1>8, <2>1, <2>2 DEF IsManifest
<1>10. \A c, d \in plan.changes : c.entry = d.entry => c = d
  BY <1>1, <1>4
<1>11. ASSUME NEW c \in plan.changes PROVE Told(c, M, n, m, {})
  <2>1. PICK e \in moved : c = change(e)
    BY <1>1
  <2> QED
    BY <1>4, <1>6, <1>7, <2>1 DEF Told
<1>12. moved \subseteq DOMAIN M
  BY <1>4
<1>13. Follows(M, n, m, plan.changes, {})
  BY <1>5, <1>6, <1>8, <1>9, <1>10, <1>11, <1>12, ZenonT(30) DEF Follows
<1> QED
  BY <1>1, <1>13 DEF M, plan

-----------------------------------------------------------------------------
(* The history of a Memory *)

\* A write knows the revision it builds on; once planned, what it will commit
\* follows that revision, wherever the head is by then.
Prepared(w) ==
    /\ w.phase \in {"idle", "read", "based", "planned"}
    /\ w.base \in 0..Latest
    /\ w.phase # "idle" => w.base < MaxRevisions
    /\ w.phase = "planned" =>
          Follows(Manifest(w.base), w.base + 1, w.manifest, w.changes, w.added)

\* The versions of every entry form one chain.
Chained(V) ==
    /\ \A v, w \in V : v.entry = w.entry /\ v.number = w.number => v = w
    /\ \A v \in V : v.number > 1 =>
         \E w \in V : /\ w.entry = v.entry /\ w.revision < v.revision
                      /\ Continues(v, w)

\* Manifest M of revision n has the newest version of every entry there is.
Newest(V, M, n) ==
    /\ \A e \in DOMAIN M : M[e].version \in V
    /\ \A v \in V : /\ v \in VersionShape /\ Dated(v, n)
                    /\ v.entry \in DOMAIN M
                    /\ v.number <= M[v.entry].version.number

VersionsOf(V, n) == {v \in V : v.revision = n}

\* Every revision follows the one before it by the changes it records and the
\* versions of its own, and names stored versions.
History ==
    /\ Latest \in 0..MaxRevisions
    /\ \A n \in 0..Latest : IsManifest(Manifest(n), n)
    /\ \A n \in 1..Latest :
          /\ Follows(Manifest(n - 1), n, Manifest(n), revisions[n].changes, VersionsOf(versions, n))
          /\ \A e \in DOMAIN Manifest(n) : Manifest(n)[e].version \in versions
    /\ Chained(versions)
    /\ Newest(versions, Manifest(Latest), Latest)

HistoryInv == History /\ \A p \in Processes : Prepared(writer[p])

\* The plans of all operations follow the base of the write.
LEMMA PlansFollow ==
    ASSUME NEW p \in Processes, NEW base \in Nat, base = writer[p].base,
           IsManifest(Manifest(base), base),
           \/ Remember(p) \/ Revise(p) \/ Retire(p)
           \/ Reactivate(p) \/ Organize(p) \/ Extract(p)
    PROVE  \E plan : /\ Plan(p, plan)
                     /\ Follows(Manifest(base), base + 1, plan.manifest, plan.changes, plan.added)
<1> DEFINE M == Manifest(base)
           Good(plan) == Follows(M, base + 1, plan.manifest, plan.changes, plan.added)
<1>1. ASSUME NEW S, NEW N \in Nat, NEW inputs \in [1..N -> S],
             \A i \in S : /\ i.entry \in {0} \cup DOMAIN M
                          /\ i.text \in Texts /\ i.sources \in SUBSET Evidence
      PROVE  Good(prepareCommit(base, inputs))
  <2>1. Len(inputs) = N /\ \A i \in 1..N : inputs[i] \in S
    BY SMTT(20)
  <2> QED
    BY <1>1, <2>1, PrepareCommitFollows, Zenon DEF PlanFollows
<1>2. CASE Remember(p)
  <2>1. PICK text \in Texts :
           Plan(p, prepareCommit(base, <<[entry |-> 0, text |-> text, sources |-> {}]>>))
    BY <1>2, Zenon DEF Remember
  <2> DEFINE i == [entry |-> 0, text |-> text, sources |-> {}]
  <2>2. i.entry = 0 /\ i.text \in Texts /\ i.sources \in SUBSET Evidence
    BY Zenon
  <2> HIDE DEF i
  <2>3. <<i>> \in [1..1 -> {i}]
    OBVIOUS
  <2>4. \A j \in {i} : /\ j.entry \in {0} \cup DOMAIN M
                      /\ j.text \in Texts /\ j.sources \in SUBSET Evidence
    BY <2>2
  <2> HIDE DEF Good
  <2>5. Good(prepareCommit(base, <<i>>))
    BY <1>1, <2>3, <2>4, Zenon
  <2> QED
    BY <2>1, <2>5 DEF i, Good
<1>3. CASE Revise(p)
  <2>1. PICK e \in DOMAIN M, text \in Texts :
           Plan(p, prepareCommit(base, <<[entry |-> e, text |-> text, sources |-> {}]>>))
    BY <1>3, Zenon DEF Revise
  <2> DEFINE i == [entry |-> e, text |-> text, sources |-> {}]
  <2>2. i.entry \in DOMAIN M /\ i.text \in Texts /\ i.sources \in SUBSET Evidence
    OBVIOUS
  <2> HIDE DEF i
  <2>3. <<i>> \in [1..1 -> {i}]
    OBVIOUS
  <2>4. \A j \in {i} : /\ j.entry \in {0} \cup DOMAIN M
                      /\ j.text \in Texts /\ j.sources \in SUBSET Evidence
    BY <2>2
  <2> HIDE DEF Good
  <2>5. Good(prepareCommit(base, <<i>>))
    BY <1>1, <2>3, <2>4, ZenonT(30)
  <2> QED
    BY <2>1, <2>5, Zenon DEF i, Good
<1>4. CASE Retire(p) \/ Reactivate(p) \/ Organize(p)
  <2>1. PICK entries \in SUBSET DOMAIN M, active \in BOOLEAN : Plan(p, setEntryState(base, entries, active))
    BY <1>4, Zenon DEF Retire, Reactivate, Organize, Duplicates, ActiveIds
  <2>2. Good(setEntryState(base, entries, active))
    BY SetStateFollows, Zenon
  <2> QED
    BY <2>1, <2>2
<1>5. CASE Extract(p)
  <2> DEFINE S == {i \in Inputs : i.entry \in {0} \cup ActiveIds(M)}
  <2>1. PICK N \in 0..MaxInputs : \E inputs \in [1..N -> S] : Plan(p, prepareCommit(base, inputs))
    BY <1>5 DEF Extract
  <2>2. PICK inputs \in [1..N -> S] : Plan(p, prepareCommit(base, inputs))
    BY <2>1
  <2>3. \A i \in S : /\ i.entry \in {0} \cup DOMAIN M
                     /\ i.text \in Texts /\ i.sources \in SUBSET Evidence
    BY DEF Inputs, ActiveIds
  <2>4. N \in Nat
    BY MemoryAssumption
  <2> HIDE DEF S
  <2> QED
    BY <1>1, <2>2, <2>3, <2>4, ZenonT(30)
<1> QED
  BY <1>2, <1>3, <1>4, <1>5

\* A revision that follows M continues its chains.
LEMMA ChainsGrow ==
    ASSUME NEW M, NEW n \in Nat, NEW m, NEW changes, NEW added, NEW V,
           IsManifest(M, n), Follows(M, n + 1, m, changes, added),
           Chained(V), Newest(V, M, n)
    PROVE  /\ Chained(V \cup added)
           /\ Newest(V \cup added, m, n + 1)
           /\ VersionsOf(V \cup added, n + 1) = added
<1>1. /\ DOMAIN m = DOMAIN M \cup Touched(changes)
      /\ \A e \in DOMAIN M \ Touched(changes) : m[e] = M[e]
      /\ \A c \in changes : Told(c, M, n + 1, m, added)
      /\ \A v \in added : Grown(v, M, n + 1, m)
      /\ IsManifest(m, n + 1)
  BY DEF Follows
<1>2. \A v \in V : /\ v.number \in Nat /\ v.revision \in Nat /\ v.revision <= n
                   /\ v.entry \in DOMAIN M /\ v.number <= M[v.entry].version.number
  BY SMTT(20) DEF Newest, Dated, VersionShape
<1>3. \A v \in added : /\ v \in VersionShape /\ v.number \in Nat /\ v.revision = n + 1
                       /\ v.entry \in DOMAIN m /\ m[v.entry].version = v
  BY <1>1 DEF Grown, VersionShape
<1>4. \A e \in DOMAIN M : /\ M[e].version \in V /\ M[e].version.entry = e
                          /\ M[e].version.number \in Nat /\ M[e].version.revision <= n
                          /\ M[e].version.revision \in Nat
  BY <1>2 DEF Newest, IsManifest, Dated
<1>5. ASSUME NEW v \in added, v.entry \in DOMAIN M
      PROVE  Continues(v, M[v.entry].version) /\ v.number = M[v.entry].version.number + 1
  BY <1>1, <1>5, Zenon DEF Grown, Continues
<1>6. ASSUME NEW e \in DOMAIN m
      PROVE  m[e].version \in added \/ (e \in DOMAIN M /\ m[e].version = M[e].version)
  <2>1. CASE e \in Touched(changes)
    <3>1. PICK c \in changes : e = c.entry
      BY <2>1 DEF Touched
    <3> QED
      BY <1>1, <3>1 DEF Told
  <2>2. CASE e \notin Touched(changes)
    BY <1>1, <2>2
  <2> QED
    BY <2>1, <2>2
<1>7. Chained(V \cup added)
  <2>1. ASSUME NEW v \in V \cup added, NEW w \in V \cup added, v.entry = w.entry, v.number = w.number
        PROVE  v = w
    <3>1. CASE v \in V /\ w \in V
      BY <2>1, <3>1 DEF Chained
    <3>2. CASE v \in added /\ w \in added
      BY <1>3, <2>1, <3>2
    <3>3. ASSUME NEW x \in V, NEW y \in added, x.entry = y.entry PROVE x.number # y.number
      <4>1. x.entry \in DOMAIN M /\ x.number <= M[x.entry].version.number /\ x.number \in Nat
        BY <1>2
      <4>2. y.number = M[x.entry].version.number + 1 /\ M[x.entry].version.number \in Nat
        BY <1>4, <1>5, <3>3, <4>1
      <4> QED
        BY <4>1, <4>2
    <3> QED
      BY <2>1, <3>1, <3>2, <3>3
  <2>2. ASSUME NEW v \in V \cup added, v.number > 1
        PROVE  \E w \in V \cup added : /\ w.entry = v.entry /\ w.revision < v.revision
                                       /\ Continues(v, w)
    <3>1. CASE v \in V
      BY <2>2, <3>1 DEF Chained
    <3>2. CASE v \in added
      <4>1. v.entry \in DOMAIN M
        BY <1>1, <2>2, <3>2, SMTT(20) DEF Grown
      <4> QED
        BY <1>3, <1>4, <1>5, <3>2, <4>1, SMTT(20)
    <3> QED
      BY <3>1, <3>2
  <2> QED
    BY <2>1, <2>2 DEF Chained
<1>8. Newest(V \cup added, m, n + 1)
  <2>1. \A e \in DOMAIN m : m[e].version \in V \cup added
    BY <1>4, <1>6, SMTT(20)
  <2>2. ASSUME NEW v \in added
        PROVE  /\ v \in VersionShape /\ Dated(v, n + 1) /\ v.entry \in DOMAIN m
               /\ v.number <= m[v.entry].version.number
    BY <1>1, <1>3, SMTT(20) DEF IsManifest
  <2>3. ASSUME NEW v \in V
        PROVE  /\ v \in VersionShape /\ Dated(v, n + 1) /\ v.entry \in DOMAIN m
               /\ v.number <= m[v.entry].version.number
    <3>1. v \in VersionShape /\ Dated(v, n)
      BY DEF Newest
    <3>2. Dated(v, n + 1)
      BY <1>2, <3>1, SMTT(20) DEF Dated
    <3>3. v.entry \in DOMAIN M /\ v.entry \in DOMAIN m
      BY <1>1, <1>2, SMTT(20)
    <3>4. \/ m[v.entry].version = M[v.entry].version
          \/ m[v.entry].version.number = M[v.entry].version.number + 1
      <4>1. CASE m[v.entry].version \in added
        <5>1. m[v.entry].version.entry = v.entry
          BY <1>1, <3>3, SMTT(20) DEF IsManifest
        <5> QED
          BY <1>5, <3>3, <4>1, <5>1, SMTT(20)
      <4> QED
        BY <1>6, <3>3, <4>1, SMTT(20)
    <3> QED
      BY <1>2, <1>4, <3>1, <3>2, <3>3, <3>4, SMTT(20)
  <2> QED
    BY <2>1, <2>2, <2>3 DEF Newest
<1>9. VersionsOf(V \cup added, n + 1) = added
  BY <1>2, <1>3 DEF VersionsOf
<1> QED
  BY <1>7, <1>8, <1>9, SMTT(20)

LEMMA ChainsAreChained ==
    ASSUME \A v \in versions : v \in VersionShape
    PROVE  VersionsFormChains <=> /\ Chained(versions)
                                  /\ \A n \in 1..Latest : \A e \in DOMAIN Manifest(n) :
                                        Manifest(n)[e].version \in versions
<1>1. \A v, w \in versions : v.number = w.number + 1 <=> w.number + 1 = v.number
  OBVIOUS
<1> QED
  BY <1>1 DEF VersionsFormChains, Chained, Continues

LEMMA PreparedStands ==
    ASSUME StoreInv, [Next]_vars, NEW w, Prepared(w)
    PROVE  Prepared(w)'
<1>1. /\ Latest \in Nat /\ Latest' \in Nat /\ Latest <= Latest'
      /\ \A n \in 0..Latest : Manifest(n)' = Manifest(n)
  BY HistoryStands
<1>2. Manifest(w.base)' = Manifest(w.base) /\ w.base \in 0..Latest'
  BY <1>1 DEF Prepared
<1> QED
  BY <1>2 DEF Prepared

\* Every step of a write but its commit leaves it prepared.
LEMMA WritersPrepare ==
    ASSUME HistoryInv, NEW p \in Processes, Write(p)
    PROVE  \/ Commit(p) \/ Initialize(p)
           \/ /\ UNCHANGED <<store, search>>
              /\ \E w : writer' = [writer EXCEPT ![p] = w] /\ Prepared(w)
<1>1. Latest \in Nat /\ Prepared(writer[p]) /\ writer[p].base \in 0..Latest
  BY DEF HistoryInv, History, Prepared
<1>2. Prepared(Idle)
  <2>1. Idle.phase = "idle" /\ Idle.base = 0
    BY SMTT(20) DEF Idle
  <2>2. Idle.base \in 0..Latest
    BY <1>1, <2>1
  <2> QED
    BY <2>1, <2>2 DEF Prepared
<1>3. CASE ReadHead(p)
  <2> DEFINE w == [phase |-> "read", base |-> Latest]
  <2>1. writer' = [writer EXCEPT ![p] = w] /\ Latest < MaxRevisions
    BY <1>3 DEF ReadHead
  <2>2. Prepared(w)
    BY <1>1, <2>1 DEF Prepared
  <2> HIDE DEF w
  <2> QED
    BY <1>3, <2>1, <2>2, Zenon DEF ReadHead
<1>4. CASE canonicalBase(p)
  <2> DEFINE w == [phase |-> "based", base |-> writer[p].base]
  <2>1. writer' = [writer EXCEPT ![p] = w] /\ writer[p].phase = "read"
    BY <1>4 DEF canonicalBase
  <2>2. Prepared(w)
    BY <1>1, <2>1 DEF Prepared
  <2> HIDE DEF w
  <2> QED
    BY <1>4, <2>1, <2>2, Zenon DEF canonicalBase
<1>5. CASE Fail(p)
  BY <1>2, <1>5, Zenon DEF Fail
<1>6. CASE \/ Remember(p) \/ Revise(p) \/ Retire(p)
           \/ Reactivate(p) \/ Organize(p) \/ Extract(p)
  <2>1. PICK base \in Nat : base = writer[p].base
    BY <1>1
  <2>2. IsManifest(Manifest(base), base)
    BY <1>1, <2>1 DEF HistoryInv, History
  <2>3. PICK plan : /\ Plan(p, plan)
                    /\ Follows(Manifest(base), base + 1, plan.manifest, plan.changes, plan.added)
    BY <1>6, <2>1, <2>2, PlansFollow, Zenon
  <2>4. UNCHANGED <<store, search>> /\ writer[p].phase = "based"
    BY <2>3 DEF Plan
  <2>5. CASE plan.changes = {}
    BY <1>2, <2>3, <2>4, <2>5 DEF Plan
  <2>6. CASE plan.changes # {}
    <3> DEFINE w(available) ==
                 [phase |-> "planned", base |-> base,
                  manifest |-> plan.manifest, changes |-> plan.changes,
                  added |-> plan.added,
                  embedded |-> prepareProjections(p, base, plan.manifest, available)]
    <3>1. PICK available \in BOOLEAN : writer' = [writer EXCEPT ![p] = w(available)]
      BY <2>1, <2>3, <2>6 DEF Plan
    <3>2. /\ w(available).manifest = plan.manifest /\ w(available).changes = plan.changes
          /\ w(available).added = plan.added /\ w(available).base = base
          /\ w(available).phase = "planned"
      OBVIOUS
    <3> HIDE DEF w
    <3>3. Prepared(w(available))
      BY <1>1, <2>1, <2>3, <2>4, <3>2, Zenon DEF Prepared
    <3> QED
      BY <2>4, <3>1, <3>3, Zenon
  <2> QED
    BY <2>5, <2>6
<1> QED
  BY <1>3, <1>4, <1>5, <1>6, SMTT(20) DEF Write

LEMMA CommitKeepsHistory ==
    ASSUME StoreInv, HistoryInv, NEW p \in Processes, Commit(p)
    PROVE  History'
<1>0. PICK L \in Nat : L = Latest
  BY DEF HistoryInv, History
<1>1. PICK M, V : L = Latest /\ M = Manifest(L) /\ V = versions
  BY <1>0
<1>2. PICK m, changes, added :
         m = writer[p].manifest /\ changes = writer[p].changes /\ added = writer[p].added
  BY SMTT(20)
<1>3. writer[p].phase = "planned" /\ writer[p].base = L /\ versions' = V \cup added
  BY <1>1, <1>2, Zenon DEF Commit, HeadCAS
<1>4. Follows(M, L + 1, m, changes, added) /\ L < MaxRevisions
  BY <1>1, <1>2, <1>3 DEF HistoryInv, Prepared
<1>5. /\ Latest' = L + 1
      /\ \A n \in 1..L : revisions'[n] = revisions[n]
      /\ revisions'[L + 1].manifest = m /\ revisions'[L + 1].changes = changes
  BY <1>1, <1>2, CommitAppends DEF StoreInv
<1>6. /\ \A n \in 0..L : Manifest(n)' = Manifest(n)
      /\ \A n \in {L + 1} : Manifest(n)' = m
      /\ Manifest(Latest)' = m
  BY <1>5 DEF Manifest
<1>7. /\ IsManifest(M, L) /\ Chained(V) /\ Newest(V, M, L)
      /\ \A n \in 0..L : IsManifest(Manifest(n), n)
      /\ \A n \in 1..L :
          /\ Follows(Manifest(n - 1), n, Manifest(n), revisions[n].changes, VersionsOf(V, n))
          /\ \A e \in DOMAIN Manifest(n) : Manifest(n)[e].version \in V
  BY <1>1, SMTT(20) DEF HistoryInv, History
<1>8. /\ Chained(V \cup added) /\ Newest(V \cup added, m, L + 1)
      /\ VersionsOf(V \cup added, L + 1) = added
  BY <1>4, <1>7, ChainsGrow
<1>9. ASSUME NEW n \in 0..(L + 1) PROVE IsManifest(Manifest(n)', n)
  <2>1. IsManifest(m, L + 1)
    BY <1>4 DEF Follows
  <2>2. CASE n \in 0..L
    BY <1>6, <1>7, <2>2
  <2>3. CASE n = L + 1
    BY <1>6, <2>1, <2>3
  <2> QED
    BY <2>2, <2>3, SMTT(20)
<1>10. ASSUME NEW n \in 1..(L + 1)
       PROVE  /\ Follows(Manifest(n - 1)', n, Manifest(n)', revisions'[n].changes,
                         VersionsOf(V \cup added, n))
              /\ \A e \in DOMAIN Manifest(n)' : Manifest(n)'[e].version \in V \cup added
  <2>1. CASE n \in 1..L
    <3>1. VersionsOf(V \cup added, n) = VersionsOf(V, n)
      <4>1. \A v \in added : v.revision = L + 1
        BY <1>8 DEF VersionsOf
      <4> QED
        BY <2>1, <4>1 DEF VersionsOf
    <3>2. Manifest(n - 1)' = Manifest(n - 1) /\ Manifest(n)' = Manifest(n) /\ revisions'[n] = revisions[n]
      BY <1>5, <1>6, <2>1
    <3> QED
      BY <1>7, <2>1, <3>1, <3>2
  <2>2. CASE n = L + 1
    <3>1. Manifest(n - 1)' = M
      <4>1. n - 1 = L /\ n - 1 \in 0..L
        BY <2>2
      <4> QED
        BY <1>1, <1>6, <4>1
    <3>2. Manifest(n)' = m /\ revisions'[n].changes = changes
      BY <1>5, <1>6, <2>2
    <3>3. \A e \in DOMAIN m : m[e].version \in V \cup added
      BY <1>8 DEF Newest
    <3> QED
      BY <1>4, <1>8, <2>2, <3>1, <3>2, <3>3
  <2> QED
    BY <2>1, <2>2, SMTT(20)
<1>11. Latest' \in 0..MaxRevisions
  BY <1>4, <1>5, MemoryAssumption, SMTT(20)
<1>12. Chained(versions)' /\ Newest(versions, Manifest(Latest), Latest)'
  BY <1>3, <1>5, <1>6, <1>8 DEF Chained, Newest
<1> QED
  BY <1>3, <1>5, <1>9, <1>10, <1>11, <1>12, Zenon DEF History

LEMMA HistoryInvariant == Spec => []HistoryInv
<1>1. Init => HistoryInv
  <2> SUFFICES ASSUME Init PROVE HistoryInv
    OBVIOUS
  <2>1. Latest = 0 /\ versions = {}
    BY DEF Init, Latest
  <2>2. Manifest(0) = <<>> /\ DOMAIN <<>> = {} /\ <<>> \in [1..0 -> Items]
    BY DEF Manifest
  <2>3. IsManifest(Manifest(0), 0)
    BY <2>2, Zenon DEF IsManifest
  <2>4. Chained({}) /\ Newest({}, Manifest(0), 0)
    BY <2>2 DEF Chained, Newest
  <2>5. History
    BY <2>1, <2>3, <2>4, MemoryAssumption DEF History
  <2>6. \A p \in Processes : Prepared(writer[p])
    BY <2>1 DEF Init, Idle, Prepared
  <2> QED
    BY <2>5, <2>6 DEF HistoryInv
<1>2. StoreInv /\ HistoryInv /\ [Next]_vars => HistoryInv'
  <2> SUFFICES ASSUME StoreInv, HistoryInv, [Next]_vars PROVE HistoryInv'
    OBVIOUS
  <2>0. DOMAIN writer = Processes
    BY DEF StoreInv, Listed
  <2>1. ASSUME UNCHANGED <<revisions, versions>> PROVE History'
    <3>1. Latest' = Latest /\ \A n : Manifest(n)' = Manifest(n)
      BY <2>1 DEF Latest, Manifest
    <3> QED
      BY <2>1, <3>1 DEF HistoryInv, History
  <2>2. ASSUME NEW p \in Processes, NEW w, writer' = [writer EXCEPT ![p] = w], Prepared(w)'
        PROVE  \A q \in Processes : Prepared(writer[q])'
    <3> SUFFICES ASSUME NEW q \in Processes PROVE Prepared(writer[q])'
      OBVIOUS
    <3>1. PICK x : x = writer'[q]
      OBVIOUS
    <3>2. x = w \/ x = writer[q]
      BY <2>0, <2>2, <3>1
    <3>3. Prepared(x)'
      BY <2>2, <3>2, PreparedStands DEF HistoryInv
    <3> QED
      BY <3>1, <3>3 DEF Prepared
  <2>3. ASSUME UNCHANGED writer PROVE \A q \in Processes : Prepared(writer[q])'
    <3> SUFFICES ASSUME NEW q \in Processes PROVE Prepared(writer[q])'
      OBVIOUS
    <3>1. PICK x : x = writer[q]
      OBVIOUS
    <3>2. Prepared(x)'
      BY <3>1, PreparedStands DEF HistoryInv
    <3> QED
      BY <2>3, <3>1, <3>2 DEF Prepared
  <2>4. Prepared(Idle)'
    <3>1. Latest' \in Nat
      BY HistoryStands
    <3> QED
      BY <3>1 DEF Prepared, Idle
  <2>5. ASSUME NEW p \in Processes, Commit(p) PROVE HistoryInv'
    <3>1. writer' = [writer EXCEPT ![p] = Idle]
      BY <2>5 DEF Commit
    <3> QED
      BY <2>2, <2>4, <2>5, <3>1, CommitKeepsHistory, ZenonT(30) DEF HistoryInv, Idle
  <2>6. ASSUME NEW p \in Processes, Initialize(p) PROVE HistoryInv'
    BY <2>1, <2>2, <2>4, <2>6, Zenon DEF Initialize, HistoryInv, Idle
  <2>7. ASSUME NEW p \in Processes, UNCHANGED <<store, search>>,
               \E w : writer' = [writer EXCEPT ![p] = w] /\ Prepared(w)
        PROVE  HistoryInv'
    <3>1. PICK w : writer' = [writer EXCEPT ![p] = w] /\ Prepared(w)
      BY <2>7, Zenon
    <3>2. Prepared(w)'
      BY <3>1, PreparedStands
    <3> QED
      BY <2>1, <2>2, <2>7, <3>1, <3>2, Zenon DEF store, HistoryInv
  <2>8. ASSUME NEW r \in Readers, Read(r) PROVE UNCHANGED <<store, writer>>
    BY <2>8, Zenon DEF Read, Search, validateSearchHeads, SelectMode, SearchIndexes, Stale, Again, SearchEnds
  <2>9. ASSUME UNCHANGED <<store, writer>> PROVE HistoryInv'
    BY <2>1, <2>3, <2>9 DEF store, HistoryInv
  <2> QED
    BY <2>5, <2>6, <2>7, <2>8, <2>9, WritersPrepare DEF Next, vars
<1> QED
  BY <1>1, <1>2, StoreInvariant, PTL DEF Spec

\* No update is lost: for any number of processes and any inputs of a plan, the
\* changes a revision records, applied to the revision before it, give its
\* manifest (prepareCommit, setEntryState and the head CAS of commit).
THEOREM NoUpdateIsLost == Spec => []RevisionsReplay
<1>1. HistoryInv => RevisionsReplay
  <2> SUFFICES ASSUME HistoryInv, NEW n \in 1..Latest
               PROVE  revisions[n].manifest = Replay(Manifest(n - 1), revisions[n].changes)
    BY DEF RevisionsReplay
  <2> DEFINE M == Manifest(n - 1)
             m == Manifest(n)
             changes == revisions[n].changes
             added == VersionsOf(versions, n)
             own(e) == {c \in changes : c.entry = e}
             version(e, c) == IF c.op \in {"add", "revise"}
                              THEN CHOOSE v \in versions : v.entry = e /\ v.revision = c.to
                              ELSE M[e].version
             item(e) == IF own(e) = {} THEN M[e]
                        ELSE LET c == CHOOSE c \in own(e) : TRUE IN
                             [version |-> version(e, c), active |-> c.op # "deactivate"]
  <2>1. Follows(M, n, m, changes, added) /\ Latest \in Nat
    BY DEF HistoryInv, History
  <2>2. revisions[n].manifest = m
    BY <2>1 DEF Manifest
  <2>3. Replay(M, changes) = [e \in DOMAIN M \cup Touched(changes) |-> item(e)]
    BY DEF Replay, Touched
  <2>4. ASSUME NEW e \in DOMAIN M \cup Touched(changes) PROVE m[e] = item(e)
    <3> HIDE DEF M, m, changes
    <3>1. CASE own(e) = {}
      <4>1. e \notin Touched(changes)
        BY <3>1 DEF Touched
      <4> QED
        BY <2>1, <3>1, <4>1, Zenon DEF Follows
    <3>2. CASE own(e) # {}
      <4> DEFINE c == CHOOSE c \in own(e) : TRUE
      <4>1. c \in changes /\ c.entry = e
        BY <3>2, SMTT(20)
      <4> HIDE DEF c
      <4>2. e \in DOMAIN m /\ Told(c, M, n, m, added)
        BY <2>1, <4>1, SMTT(20) DEF Follows, Touched
      <4>3. m[e] \in Items /\ m[e].version.entry = e
        BY <2>1, <4>2, SMTT(20) DEF Follows, IsManifest
      <4>4. m[e].version = version(e, c)
        <5>1. CASE c.op \in {"add", "revise"}
          <6>1. c.to = n /\ m[e].version \in added
            BY <4>1, <4>2, <5>1 DEF Told
          <6>2. \A v \in added : v.entry = e => v = m[e].version
            BY <2>1 DEF Follows, Grown
          <6> QED
            BY <4>3, <5>1, <6>1, <6>2 DEF VersionsOf
        <5>2. CASE c.op \notin {"add", "revise"}
          BY <4>1, <4>2, <5>2 DEF Told
        <5> QED
          BY <5>1, <5>2
      <4>5. m[e].active = (c.op # "deactivate")
        BY <4>1, <4>2, SMTT(20) DEF Told
      <4>6. m[e] = [version |-> version(e, c), active |-> c.op # "deactivate"]
        <5> HIDE DEF version
        <5> QED
          BY <4>3, <4>4, <4>5 DEF Items
      <4>7. item(e) = [version |-> version(e, c), active |-> c.op # "deactivate"]
        <5> HIDE DEF version, own
        <5> QED
          BY <3>2 DEF c
      <4> QED
        BY <4>6, <4>7
    <3> QED
      BY <3>1, <3>2
  <2>5. m \in [DOMAIN M \cup Touched(changes) -> Items]
    BY <2>1, Zenon DEF Follows, IsManifest
  <2> HIDE DEF M, m, changes, item
  <2>6. m = [e \in DOMAIN M \cup Touched(changes) |-> item(e)]
    BY <2>4, <2>5
  <2> QED
    BY <2>2, <2>3, <2>6 DEF M, changes
<1> QED
  BY <1>1, HistoryInvariant, PTL

\* The versions of an entry form one chain, and every version a manifest names is
\* stored, for any number of processes that revise it (newEntryVersion, commit).
THEOREM OneChainPerEntry == Spec => []VersionsFormChains
<1>1. HistoryInv => VersionsFormChains
  BY ChainsAreChained DEF HistoryInv, History, Newest
<1> QED
  BY <1>1, HistoryInvariant, PTL

LEMMA StoredVersionsTyped ==
    ASSUME StoreInv, HistoryInv
    PROVE  /\ versions \subseteq Versions
           /\ heads \subseteq Rows
<1>1. /\ Latest \in 0..MaxRevisions /\ Newest(versions, Manifest(Latest), Latest)
      /\ \A n \in 1..Latest : \A e \in DOMAIN Manifest(n) : Manifest(n)[e].version \in versions
  BY DEF HistoryInv, History
<1>2. DOMAIN Manifest(Latest) \subseteq Entries
  BY <1>1 DEF StoreInv, Listed, Manifest, Entries
<1>3. ASSUME NEW v \in versions PROVE v \in Versions
  <2>1. /\ v \in VersionShape /\ Dated(v, Latest) /\ v.entry \in Entries
    BY <1>1, <1>2 DEF Newest
  <2>2. v.number \in Nat /\ v.revision \in Nat /\ v.previous \in Nat
    BY <2>1 DEF VersionShape
  <2>3. v.revision \in 1..MaxRevisions /\ v.number \in 1..MaxRevisions /\ v.previous \in 0..MaxRevisions
    BY <1>1, <2>1, <2>2, MemoryAssumption DEF Dated
  <2> QED
    BY <2>1, <2>3 DEF VersionShape, Versions
<1>4. ASSUME NEW row \in heads PROVE row \in Rows
  <2>1. PICK v \in Active(Manifest(Latest)) : row = [version |-> v, revision |-> Latest]
    BY DEF StoreInv, ProjectionsFollowHead
  <2>2. v \in versions
    BY <1>1 DEF Newest, Active, ActiveIds
  <2>3. Latest # 0
    BY <2>1 DEF Active, ActiveIds, Manifest
  <2> QED
    BY <1>1, <1>3, <2>1, <2>2, <2>3, SMTT(20) DEF Rows
<1> QED
  BY <1>3, <1>4

\* Rows that commits without a vector index leave behind were rows of a head once.
LEMMA VectorRowsTyped == Spec => [](vec \subseteq Rows)
<1>1. Init => vec \subseteq Rows
  BY DEF Init
<1>2. vec \subseteq Rows /\ (StoreInv /\ HistoryInv)' /\ [Next]_vars => (vec \subseteq Rows)'
  <2> SUFFICES ASSUME vec \subseteq Rows, (heads \subseteq Rows)', [Next]_vars PROVE vec' \subseteq Rows
    <3>1. StoreInv /\ HistoryInv => heads \subseteq Rows
      BY StoredVersionsTyped
    <3>2. (StoreInv /\ HistoryInv)' => (heads \subseteq Rows)'
      BY <3>1, PTL
    <3> QED
      BY <3>2 DEF Rows, Versions, Entries
  <2>0. heads' \subseteq Rows
    BY DEF Rows, Versions, Entries
  <2>1. ASSUME NEW p \in Processes, Commit(p) PROVE vec' \subseteq Rows
    <3>1. \E e \in SUBSET heads' : ReplaceVectors(p, e)
      BY <2>1 DEF Commit, ReplaceHeads
    <3> QED
      BY <2>0, <3>1, SMTT(20) DEF ReplaceVectors
  <2>2. ASSUME NEW p \in Processes, Initialize(p) PROVE vec' \subseteq vec
    BY <2>2 DEF Initialize, InitializeVectors
  <2>3. ASSUME NEW p \in Processes, Plans(p) PROVE vec' = vec
    BY <2>3 DEF Plans, store
  <2>4. ASSUME NEW r \in Readers, Read(r) PROVE vec' = vec
    BY <2>4, Zenon DEF Read, Search, validateSearchHeads, SelectMode, SearchIndexes, Stale, Again, SearchEnds, store
  <2>5. CASE UNCHANGED vars
    BY <2>5 DEF vars, store
  <2> QED
    BY <2>1, <2>2, <2>3, <2>4, <2>5, WritersPlan DEF Next
<1> QED
  BY <1>1, <1>2, StoreInvariant, HistoryInvariant, PTL DEF Spec

\* Every row of the Memory's tables keeps its shape, whatever the plans; versions
\* and revisions stay within the bounds of the model.
THEOREM TypeCorrect == Spec => []TypeOK
<1>1. StoreInv /\ HistoryInv /\ Searches /\ vec \subseteq Rows => TypeOK
  <2> SUFFICES ASSUME StoreInv, HistoryInv, Searches, vec \subseteq Rows PROVE TypeOK
    OBVIOUS
  <2>1. versions \subseteq Versions /\ heads \subseteq Rows
    BY StoredVersionsTyped
  <2>2. Latest \in 0..MaxRevisions
    BY DEF HistoryInv, History
  <2>3. \A rows \in {heads, fts, metadata, vec} : rows \subseteq Rows
    BY <2>1 DEF StoreInv, ProjectionsFollowHead
  <2>4. ASSUME NEW n \in 1..Latest
        PROVE  /\ n <= MaxRevisions
               /\ DOMAIN revisions[n].manifest \subseteq Entries
               /\ \A e \in DOMAIN revisions[n].manifest :
                    revisions[n].manifest[e] \in [version : Versions, active : BOOLEAN]
               /\ revisions[n].changes \subseteq Changes
    <3> DEFINE m == revisions[n].manifest
    <3>1. m = Manifest(n) /\ n <= MaxRevisions
      BY <2>2, MemoryAssumption DEF Manifest
    <3>2. DOMAIN m \subseteq Entries
      BY DEF StoreInv, Listed
    <3>3. /\ Follows(Manifest(n - 1), n, m, revisions[n].changes, VersionsOf(versions, n))
          /\ \A e \in DOMAIN m : m[e].version \in versions
      BY <3>1 DEF HistoryInv, History
    <3> HIDE DEF m
    <3>4. ASSUME NEW e \in DOMAIN m PROVE m[e] \in [version : Versions, active : BOOLEAN]
      <4>1. m[e] \in Items
        BY <3>3, Zenon DEF Follows, IsManifest
      <4>2. m[e].version \in Versions
        BY <2>1, <3>3
      <4> QED
        BY <4>1, <4>2 DEF Items
    <3>5. ASSUME NEW c \in revisions[n].changes PROVE c \in Changes
      <4>1. Told(c, Manifest(n - 1), n, m, VersionsOf(versions, n)) /\ c.entry \in DOMAIN m
        BY <3>3 DEF Follows, Touched
      <4>2. c \in [op : {"add", "revise", "deactivate", "reactivate"}, entry : Nat, from : 0..n, to : 0..n]
        BY <4>1 DEF Told
      <4>3. c.from \in 0..MaxRevisions /\ c.to \in 0..MaxRevisions /\ c.entry \in Entries
        BY <3>1, <3>2, <4>1, <4>2, MemoryAssumption
      <4> QED
        BY <4>2, <4>3, SMTT(20) DEF Changes
    <3> QED
      BY <3>1, <3>2, <3>4, <3>5 DEF m
  <2>5. \A p \in Processes : writer[p].phase \in {"idle", "read", "based", "planned"}
    BY DEF HistoryInv, Prepared
  <2>6. ASSUME NEW r \in Readers
        PROVE  /\ search[r].phase \in {"idle", "head", "valid", "selected", "stale",
                                       "again", "done", "conflict"}
               /\ search[r].phase \in {"head", "valid", "selected", "stale", "again"} =>
                    search[r].attempt \in 1..SearchAttempts
    <3>1. Sound(search[r])
      BY DEF Searches
    <3> QED
      BY <3>1 DEF Sound, Underway, Running
  <2> QED
    BY <2>1, <2>3, <2>4, <2>5, <2>6 DEF TypeOK
<1> QED
  BY <1>1, StoreInvariant, HistoryInvariant, SearchInvariant, VectorRowsTyped, PTL

=============================================================================
