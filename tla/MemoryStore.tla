---------------------------- MODULE MemoryStore ----------------------------
(***************************************************************************)
(* The Memory Artifact of one Scope: its revisions, the entry versions and *)
(* active-head rows behind them, the full-text and vector projections, the *)
(* writers that plan a revision on a base they have read, and the searches *)
(* that answer from the projections                                        *)
(* (src/artifact/memory/service*.go, src/internal/sqlstore/memory*.go and  *)
(* sqlite_memory_*.go, src/internal/runtime/memory_{commands,queries}.go). *)
(*                                                                         *)
(* Each database transaction is one action.  Within a process ScopedWrite  *)
(* lets one write of the Scope run at a time, so a writer is a process;    *)
(* the processes share the database.  Reads are not serialised.            *)
(*                                                                         *)
(* A text stands for the kind and the text of an entry, and matches the    *)
(* query equal to it: relevance, ranking, the result limit and the         *)
(* reranker's choice are left out.  An entry version is identified, as by  *)
(* its UUID, by its entry and the revision that created it.                *)
(***************************************************************************)
EXTENDS Naturals, FiniteSets, Sequences

CONSTANTS
    Processes,       \* the processes that write to the database
    Embedding,       \* those configured with an embedding model
    Readers,         \* searches
    Texts,           \* what an entry says, and what a search asks for
    Evidence,        \* the Sources an extraction may cite
    SearchAttempts,  \* memorySearchAttempts
    MaxInputs,       \* bound: entries one extraction proposes
    MaxEntries,      \* bound: logical entries
    MaxRevisions     \* bound: revisions of the Memory

ASSUME MemoryAssumption ==
    /\ Embedding \subseteq Processes
    /\ SearchAttempts \in Nat \ {0}
    /\ {MaxInputs, MaxEntries, MaxRevisions} \subseteq Nat

VARIABLES
    revisions,  \* pc_artifacts and its head: the contents of each revision
    versions,   \* pc_memory_entry_versions
    heads,      \* pc_memory_entry_heads
    fts,        \* pc_memory_entry_fts
    metadata,   \* pc_memory_vector_entries
    vec,        \* pc_memory_entry_vec
    writer,     \* the write each process has in progress
    search      \* the search each reader has in progress

store == <<revisions, versions, heads, fts, metadata, vec>>

vars == <<store, writer, search>>

Entries == 1..MaxEntries

(* An EntryVersion; `previous' is the revision that created the version it *)
(* replaces, 0 for a first version.                                        *)
Versions ==
    [entry : Entries, revision : 1..MaxRevisions, number : 1..MaxRevisions,
     previous : 0..MaxRevisions, text : Texts, sources : SUBSET Evidence]

(* A projected head row. *)
Rows == [version : Versions, revision : 1..MaxRevisions]

(* The ops carry the versions they leave and reach, 0 for none. *)
Changes ==
    [op : {"add", "revise", "deactivate", "reactivate"}, entry : Entries,
     from : 0..MaxRevisions, to : 0..MaxRevisions]

(* An EntryInput; `entry' is 0 for a new entry. *)
Inputs == [entry : 0..MaxEntries, text : Texts, sources : SUBSET Evidence]

Latest == Len(revisions)

Manifest(n) == IF n = 0 THEN <<>> ELSE revisions[n].manifest

Material(v) == <<v.text, v.sources>>

ActiveIds(manifest) == {e \in DOMAIN manifest : manifest[e].active}

Active(manifest) == {manifest[e].version : e \in ActiveIds(manifest)}

---------------------------------------------------------------------------
(* Planning a revision                                                     *)

NoPlan(manifest) ==
    [manifest |-> manifest, changes |-> {}, added |-> {}, targeted |-> {},
     newContent |-> {Material(v) : v \in Active(manifest)}, valid |-> TRUE]

(* What a first version replaces. *)
NoVersion == [revision |-> 0, number |-> 0, sources |-> {}]

MutantProvenance(e, previous, input, n) ==
    [entry |-> e, revision |-> n, number |-> previous.number + 1,
     previous |-> previous.revision, text |-> input.text,
     sources |-> input.sources]

(* The version revision n gives entry e keeps the sources of the one it    *)
(* replaces.                                                               *)
newEntryVersion(e, previous, input, n) ==
    [entry |-> e, revision |-> n, number |-> previous.number + 1,
     previous |-> previous.revision, text |-> input.text,
     sources |-> previous.sources \cup input.sources]

AddEntry(plan, input, n) ==
    LET e == Cardinality(DOMAIN plan.manifest) + 1
        v == newEntryVersion(e, NoVersion, input, n)
    IN  IF Material(v) \in plan.newContent THEN plan
        ELSE [plan EXCEPT
                !.manifest = [f \in DOMAIN @ \cup {e} |->
                   IF f = e THEN [version |-> v, active |-> TRUE] ELSE @[f]],
                !.changes = @ \cup {[op |-> "add", entry |-> e, from |-> 0, to |-> n]},
                !.added = @ \cup {v},
                !.newContent = @ \cup {Material(v)}]

(* A target cited twice, unknown or retired fails the whole plan; the same *)
(* content is passed over.                                                 *)
ReviseEntry(plan, input, n) ==
    LET e == input.entry
        old == plan.manifest[e].version
        v == newEntryVersion(e, old, input, n)
    IN  IF e \in plan.targeted \/ ~plan.manifest[e].active
        THEN [plan EXCEPT !.valid = FALSE]
        ELSE IF Material(v) = Material(old)
        THEN [plan EXCEPT !.targeted = @ \cup {e}]
        ELSE [plan EXCEPT
                !.targeted = @ \cup {e},
                !.manifest[e].version = v,
                !.changes = @ \cup {[op |-> "revise", entry |-> e,
                                     from |-> old.revision, to |-> n]},
                !.added = @ \cup {v}]

PlanInput(plan, input, n) ==
    IF input.entry = 0 THEN AddEntry(plan, input, n) ELSE ReviseEntry(plan, input, n)

prepareCommit(base, inputs) ==
    LET planned[i \in 0..Len(inputs)] ==
          IF i = 0 THEN NoPlan(Manifest(base))
          ELSE PlanInput(planned[i - 1], inputs[i], base + 1)
    IN  planned[Len(inputs)]

(* Forget and Reactivate; entries already in the state are passed over. *)
setEntryState(base, entries, active) ==
    LET manifest == Manifest(base)
        moved == {e \in entries : manifest[e].active # active}
    IN  [NoPlan(manifest) EXCEPT
           !.manifest = [e \in DOMAIN manifest |->
              IF e \in moved THEN [manifest[e] EXCEPT !.active = active]
              ELSE manifest[e]],
           !.changes = {[op |-> IF active THEN "reactivate" ELSE "deactivate",
                         entry |-> e,
                         from |-> IF active THEN 0 ELSE manifest[e].version.revision,
                         to |-> IF active THEN manifest[e].version.revision ELSE 0]
                        : e \in moved}]

(* The entries deduplicateManifest retires: all but one of each group of   *)
(* equal content.  Which one stays is the order of random identifiers.     *)
Duplicates(manifest) ==
    {D \in SUBSET ActiveIds(manifest) :
       \A e \in ActiveIds(manifest) :
         Cardinality({f \in ActiveIds(manifest) \ D :
           Material(manifest[f].version) = Material(manifest[e].version)}) = 1}

---------------------------------------------------------------------------
Idle == [phase |-> "idle", base |-> 0]

Init ==
    /\ revisions = <<>>
    /\ versions = {}
    /\ heads = {}
    /\ fts = {}
    /\ metadata = {}
    /\ vec = {}
    /\ writer = [p \in Processes |-> Idle]
    /\ search = [r \in Readers |-> Idle]

---------------------------------------------------------------------------
(* Writing                                                                 *)

(* A write reads the head it will build on.  A request whose expected      *)
(* revision or citation is not of that head ends here, without effect.     *)
ReadHead(p) ==
    /\ writer[p].phase = "idle"
    /\ Latest < MaxRevisions
    /\ writer' = [writer EXCEPT ![p] = [phase |-> "read", base |-> Latest]]
    /\ UNCHANGED <<store, search>>

(* The service reads base and head again and goes on if they are equal.    *)
canonicalBase(p) ==
    /\ writer[p].phase = "read"
    /\ writer[p].base \in {0, Latest}
    /\ writer' = [writer EXCEPT ![p] = [phase |-> "based", base |-> writer[p].base]]
    /\ UNCHANGED <<store, search>>

(* The rows of the base revision must be its active entries: they are gone *)
(* when another process has committed since.                               *)
ProjectionsOf(base) == {row.version : row \in {h \in heads : h.revision = base}}

(* The vector rows that Hydrate finds for the projections of the base.     *)
Hydrated(p) ==
    IF p \in Embedding THEN {row.version : row \in metadata \cap vec} ELSE {}

(* The active versions that will have a vector: a projection of the base   *)
(* is reused as it is, with or without one; the others are embedded unless *)
(* the model is unavailable.                                               *)
prepareProjections(p, base, manifest, available) ==
    {v \in Active(manifest) :
       IF v \in ProjectionsOf(base) THEN v \in Hydrated(p)
       ELSE p \in Embedding /\ available}

(* Without changes the call returns the base and commits nothing.          *)
Plan(p, plan) ==
    LET base == writer[p].base IN
    /\ writer[p].phase = "based"
    /\ plan.valid
    /\ DOMAIN plan.manifest \subseteq Entries
    /\ IF plan.changes = {} THEN writer' = [writer EXCEPT ![p] = Idle]
       ELSE /\ base = 0 \/ ProjectionsOf(base) = Active(Manifest(base))
            /\ \E available \in BOOLEAN :
                 writer' = [writer EXCEPT ![p] =
                   [phase |-> "planned", base |-> base,
                    manifest |-> plan.manifest, changes |-> plan.changes,
                    added |-> plan.added,
                    embedded |-> prepareProjections(p, base, plan.manifest, available)]]
    /\ UNCHANGED <<store, search>>

Remember(p) ==
    \E text \in Texts :
      Plan(p, prepareCommit(writer[p].base,
                            <<[entry |-> 0, text |-> text, sources |-> {}]>>))

Revise(p) ==
    \E e \in DOMAIN Manifest(writer[p].base), text \in Texts :
      Plan(p, prepareCommit(writer[p].base,
                            <<[entry |-> e, text |-> text, sources |-> {}]>>))

Retire(p) ==
    \E entries \in SUBSET DOMAIN Manifest(writer[p].base) :
      Plan(p, setEntryState(writer[p].base, entries, FALSE))

Reactivate(p) ==
    \E entries \in SUBSET DOMAIN Manifest(writer[p].base) :
      Plan(p, setEntryState(writer[p].base, entries, TRUE))

(* Stored versions are canonical, so normalisation finds nothing to do.    *)
Organize(p) ==
    \E D \in Duplicates(Manifest(writer[p].base)) :
      Plan(p, setEntryState(writer[p].base, D, FALSE))

(* What a flush extracts from its Source window: additions and revisions   *)
(* of active entries.                                                      *)
Extract(p) ==
    \E n \in 0..MaxInputs :
    \E inputs \in [1..n -> {i \in Inputs :
                             i.entry \in {0} \cup ActiveIds(Manifest(writer[p].base))}] :
      Plan(p, prepareCommit(writer[p].base, inputs))

(* The write fails: the head has moved, the plan is refused, a model or    *)
(* the flush's cursor fails, or the context ends.                          *)
Fail(p) ==
    /\ writer[p].phase # "idle"
    /\ writer' = [writer EXCEPT ![p] = Idle]
    /\ UNCHANGED <<store, search>>

MutantHeadCAS(base) == TRUE

(* The Artifact head CAS of Create and Revise. *)
HeadCAS(base) == base = Latest

MutantReplace(rows) == heads' = heads \cup rows

ReplaceHeads(rows) == heads' = rows

ReplaceFTS(rows) == fts' = rows

(* Mutant: the vector rows are not cleared before the heads are replaced.   *)
MutantReplaceVectors(p, embedded) ==
    /\ metadata' = IF p \in Embedding THEN embedded ELSE {}
    /\ vec' = IF p \in Embedding THEN vec \cup embedded ELSE vec

(* Deleting the heads cascades to the vector metadata; only a process with *)
(* a vector index also deletes and writes vec0 rows.                       *)
ReplaceVectors(p, embedded) ==
    /\ metadata' = IF p \in Embedding THEN embedded ELSE {}
    /\ vec' = IF p \in Embedding THEN (vec \ metadata) \cup embedded ELSE vec

(* One transaction: the revision, its versions, the head rows and both     *)
(* projections.                                                            *)
Commit(p) ==
    LET w == writer[p]
        n == Latest + 1
        rows == {[version |-> v, revision |-> n] : v \in Active(w.manifest)}
        embedded == {row \in rows : row.version \in w.embedded}
    IN
    /\ w.phase = "planned"
    /\ HeadCAS(w.base)
    /\ revisions' = Append(revisions, [manifest |-> w.manifest, changes |-> w.changes])
    /\ versions' = versions \cup w.added
    /\ ReplaceHeads(rows)
    /\ ReplaceFTS(rows)
    /\ ReplaceVectors(p, embedded)
    /\ writer' = [writer EXCEPT ![p] = Idle]
    /\ UNCHANGED search

InitializeFTS == fts' = heads

InitializeVectors(p) == vec' = IF p \in Embedding THEN vec \cap metadata ELSE vec

(* A process starts again: its write is lost, the full-text projection is  *)
(* rebuilt from the heads and vec0 rows without metadata are dropped.      *)
Initialize(p) ==
    /\ writer' = [writer EXCEPT ![p] = Idle]
    /\ InitializeFTS
    /\ InitializeVectors(p)
    /\ UNCHANGED <<revisions, versions, heads, metadata, search>>

---------------------------------------------------------------------------
(* Searching                                                               *)

Requests == {"fts", "vector", "hybrid", "auto"}

(* A search reads the head first; while there is none it returns nothing.  *)
Search(r) ==
    /\ search[r].phase = "idle"
    /\ Latest > 0
    /\ \E p \in Processes, request \in Requests, query \in Texts :
         search' = [search EXCEPT ![r] =
           [phase |-> "head", process |-> p, request |-> request, query |-> query,
            mode |-> "none", attempt |-> 1, ref |-> Latest, since |-> Latest]]
    /\ UNCHANGED <<store, writer>>

validateSearchHeads(r) ==
    /\ search[r].phase = "head"
    /\ search' = [search EXCEPT ![r].phase =
                    IF search[r].ref = Latest THEN "valid" ELSE "stale"]
    /\ UNCHANGED <<store, writer>>

(* The vectors of a revision are the ones of its head rows. *)
VectorComplete(ref) ==
    /\ {row \in heads : row.revision = ref} = {row \in metadata : row.revision = ref}
    /\ {row \in metadata : row.revision = ref} \subseteq vec

(* The modes a search may run in.  When the model cannot embed the query   *)
(* auto falls back to full text, and vector and hybrid fail as they do     *)
(* without complete vectors.                                               *)
selectSearchMode(s) ==
    LET available == s.process \in Embedding /\ VectorComplete(s.ref)
    IN  CASE s.request = "fts" -> {"fts"}
          [] s.request = "auto" -> {"fts"} \cup (IF available THEN {"hybrid"} ELSE {})
          [] OTHER -> {"failed"} \cup (IF available THEN {s.request} ELSE {})

SelectMode(r) ==
    /\ search[r].phase = "valid"
    /\ \E mode \in selectSearchMode(search[r]) :
         search' = [search EXCEPT ![r] =
           IF mode = "failed" THEN Idle ELSE [@ EXCEPT !.phase = "selected", !.mode = mode]]
    /\ UNCHANGED <<store, writer>>

Matches(row, query) == row.version.text = query

FTSHits(s) ==
    IF s.mode = "vector" THEN {}
    ELSE {row \in fts : row.revision = s.ref /\ Matches(row, s.query)}

(* vec0 returns the k nearest of all its rows, k being the number of       *)
(* metadata rows; the join then drops the rows that have no metadata.      *)
VectorHits(s) ==
    IF s.mode = "fts" THEN {{}}
    ELSE {{row \in nearest \cap metadata : row.revision = s.ref /\ Matches(row, s.query)}
          : nearest \in {N \in SUBSET vec :
              /\ Cardinality(N) = IF Cardinality(metadata) < Cardinality(vec)
                                  THEN Cardinality(metadata) ELSE Cardinality(vec)
              /\ (\E row \in vec \ N : Matches(row, s.query))
                    => \A row \in N : Matches(row, s.query)}}

(* Each entry found counts once, whichever channels found it. *)
FuseRankings(ftsHits, vectorHits) == {row.version : row \in ftsHits \cup vectorHits}

MutantStillHead(ref) == TRUE

(* The search transaction checks the head around the index reads. *)
StillHead(ref) == ref = Latest

SearchIndexes(r) ==
    LET s == search[r] IN
    /\ s.phase = "selected"
    /\ \/ /\ StillHead(s.ref)
          /\ \E vector \in VectorHits(s) :
               search' = [search EXCEPT ![r] =
                 [phase |-> "done", query |-> s.query, ref |-> s.ref,
                  hits |-> FuseRankings(FTSHits(s), vector)]]
       \/ /\ ~StillHead(s.ref)
          /\ search' = [search EXCEPT ![r].phase = "stale"]
    /\ UNCHANGED <<store, writer>>

MutantLastAttempt(attempt) == attempt + 1 = SearchAttempts

LastAttempt(attempt) == attempt = SearchAttempts

(* A stale search reads the head again: it has moved, and the search is    *)
(* tried again or reports a conflict.                                      *)
Stale(r) ==
    LET s == search[r] IN
    /\ s.phase = "stale"
    /\ s.ref # Latest
    /\ search' = [search EXCEPT ![r] =
         IF LastAttempt(s.attempt)
         THEN [phase |-> "conflict", since |-> s.since, current |-> Latest]
         ELSE [s EXCEPT !.phase = "again", !.attempt = @ + 1]]
    /\ UNCHANGED <<store, writer>>

Again(r) ==
    /\ search[r].phase = "again"
    /\ search' = [search EXCEPT ![r].phase = "head", ![r].ref = Latest]
    /\ UNCHANGED <<store, writer>>

SearchEnds(r) ==
    /\ search[r].phase \in {"done", "conflict"}
    /\ search' = [search EXCEPT ![r] = Idle]
    /\ UNCHANGED <<store, writer>>

---------------------------------------------------------------------------
Write(p) ==
    \/ ReadHead(p) \/ canonicalBase(p)
    \/ Remember(p) \/ Revise(p) \/ Retire(p) \/ Reactivate(p) \/ Organize(p)
    \/ Extract(p) \/ Fail(p) \/ Commit(p) \/ Initialize(p)

Read(r) ==
    \/ Search(r) \/ validateSearchHeads(r) \/ SelectMode(r)
    \/ SearchIndexes(r) \/ Stale(r) \/ Again(r) \/ SearchEnds(r)

Next == (\E p \in Processes : Write(p)) \/ (\E r \in Readers : Read(r))

Spec == Init /\ [][Next]_vars

---------------------------------------------------------------------------
(* Properties                                                              *)

(* Every row has the shape its table and the Go types give it: versions    *)
(* and revisions count from 1 and the search attempts stay within their    *)
(* limit.                                                                  *)
TypeOK ==
    /\ \A n \in 1..Latest :
         /\ n <= MaxRevisions
         /\ DOMAIN revisions[n].manifest \subseteq Entries
         /\ \A e \in DOMAIN revisions[n].manifest :
              revisions[n].manifest[e] \in [version : Versions, active : BOOLEAN]
         /\ revisions[n].changes \subseteq Changes
    /\ versions \subseteq Versions
    /\ \A rows \in {heads, fts, metadata, vec} : rows \subseteq Rows
    /\ \A p \in Processes :
         writer[p].phase \in {"idle", "read", "based", "planned"}
    /\ \A r \in Readers :
         /\ search[r].phase \in {"idle", "head", "valid", "selected", "stale",
                                 "again", "done", "conflict"}
         /\ search[r].phase \in {"head", "valid", "selected", "stale", "again"} =>
              search[r].attempt \in 1..SearchAttempts

(* What a commit publishes: the head rows and the full-text projection are *)
(* exactly the active entries of the latest revision, and every vector is  *)
(* of one of them, whichever process committed and with whatever indexes.  *)
ProjectionsFollowHead ==
    /\ heads = {[version |-> v, revision |-> Latest] : v \in Active(Manifest(Latest))}
    /\ fts = heads
    /\ metadata \subseteq heads \cap vec

(* What a reader of Changes makes of a revision from the one before it. *)
Replay(manifest, changes) ==
    [e \in DOMAIN manifest \cup {c.entry : c \in changes} |->
       LET own == {c \in changes : c.entry = e} IN
       IF own = {} THEN manifest[e]
       ELSE LET c == CHOOSE c \in own : TRUE IN
            [version |-> IF c.op \in {"add", "revise"}
               THEN CHOOSE v \in versions : v.entry = e /\ v.revision = c.to
               ELSE manifest[e].version,
             active |-> c.op # "deactivate"]]

(* No update is lost: the changes a revision records, applied to the       *)
(* revision stored before it, give its manifest, so that no writer has     *)
(* built on a head another process had already replaced (the head CAS of   *)
(* commit) and Changes is enough to follow the Memory.                     *)
RevisionsReplay ==
    \A n \in 1..Latest :
      revisions[n].manifest = Replay(Manifest(n - 1), revisions[n].changes)

(* The versions of an entry form one chain: each continues the stored      *)
(* version before it, keeps its provenance and differs from it; whatever a *)
(* manifest, and so a citation of any revision, names is stored.           *)
VersionsFormChains ==
    /\ \A n \in 1..Latest : \A e \in DOMAIN Manifest(n) :
         Manifest(n)[e].version \in versions
    /\ \A v, w \in versions :
         v.entry = w.entry /\ v.number = w.number => v = w
    /\ \A v \in versions : v.number > 1 =>
         \E w \in versions :
           /\ w.entry = v.entry /\ w.number + 1 = v.number
           /\ w.revision = v.previous /\ w.revision < v.revision
           /\ w.sources \subseteq v.sources
           /\ Material(w) # Material(v)

(* A search that succeeds returns every active entry of the revision it    *)
(* names that matches, and no other, although writers commit and retire    *)
(* entries between its transactions and vectors may be missing.            *)
SearchIsExact ==
    \A r \in Readers : search[r].phase = "done" =>
      search[r].hits = {v \in Active(Manifest(search[r].ref)) : v.text = search[r].query}

(* A search reports a conflict only after the head has moved under each of *)
(* its attempts.                                                           *)
ConflictMeansMoved ==
    \A r \in Readers : search[r].phase = "conflict" =>
      search[r].current >= search[r].since + SearchAttempts

(* Vector rows are never hidden from the index that must delete them: each *)
(* vec0 row still has its metadata row (commit clears the index before it  *)
(* replaces the heads).  This needs a vector index in every process: the   *)
(* cascade of a commit without one leaves vec0 rows behind.                *)
VectorRowsAreTracked == vec \subseteq metadata

=============================================================================
