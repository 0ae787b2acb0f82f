# Verification of PowerContext Go

TLA+ models of the concurrent and transactional core of PowerContext Go, the TLC
configurations that check them on small instances, and TLAPS proofs for every
value of the constants. Paths below are relative to `src/`.

1. [The system](#1-the-system)
2. [Modules](#2-modules)
3. [Runs](#3-runs)
4. [Bounds](#4-bounds)
5. [Fairness](#5-fairness)
6. [Proofs](#6-proofs)
7. [Where code and text disagree](#7-where-code-and-text-disagree)
8. [What is not modelled](#8-what-is-not-modelled)
9. [Plan](#9-plan)

## 1. The system

PowerContext Go is a server that keeps, per *Scope*, a journal of *Sources*, the
*Artifacts* derived from them (one Memory, Experiences, Skills, Handoffs) and the
*Candidates* under review. The authority is a SQLite database that several
processes may open; a second database holds the scheduler's Jobs. A command line
installs the server as a personal service of the operating system.

| Part | State | Operations | What makes it hard |
| --- | --- | --- | --- |
| Scope gate cache (`internal/runtime/scope_cache.go`) | LRU map from Scope to a gate with a lease count | lease, acquire, release, clear | an evicted gate is replaced by a new one while goroutines come and go |
| Runtime (`internal/runtime/lifecycle.go`, `scheduled_processor.go`) | `active`, `closing`, `closed`, `drained`, resources, scheduler | Operation, ScopedRead, ScopedWrite, BackgroundOperation, Close | admission races the drain; Close is cancelled, fails and is retried |
| Source journal (`internal/sqlstore/sources.go`) | rows with positions, position head, Definition manifests | capture, register, submit | position allocation, idempotent repeats, two-transaction submissions |
| Source windows (`internal/sqlstore/memory_flush.go`, `experience_incubation.go`, `cursors.go`) | a cursor with generation per consumer | observe, plan, apply | a model call between two transactions |
| Scheduler (`internal/scheduler`) | stored Jobs, in-memory copy per process | open, run due, pause, close | processes share the Jobs, crash between claim and handler |
| Review (`internal/review`, `internal/sqlstore/review.go`, `candidates.go`) | Candidates with versions, Artifact heads, Experience index | propose, generate, revise, reject, approve | decisions on what was read earlier; competing targets |
| Connector runs (`source/connector_lifecycle.go`, `internal/runtime/connector_*.go`) | session, checkpoint row | load, submit, refuse, drain, save, remote get and commit | goroutines of a Connector outlive its Run; runs and workers share the row |
| Memory (`artifact/memory`, `internal/sqlstore/memory*.go`, `sqlite_memory_*.go`) | revisions, entry versions, head rows, FTS rows, vector rows | remember, extract, revise, retire, reactivate, organise, search | plans on a base that moves; four projections; searches over several transactions |
| Database gate (`internal/sqlstore/database.go`) | `active`, `closing`, `closed`, `drained`, the pool | Transaction, Ping, Close | Close is cancelled in its drain, or the pool fails to close, and admission comes back |
| Local embedding transport (`internal/modelprovider/sentence_transformers_ort.go`) | a lazily created native session, a wait group, a token | Embed, Close | callers give up on native calls that go on and need not return |
| Readiness checks (`internal/runtime/readiness.go`, `server/application.go`) | cached outcome, channel of the refresh under way | getReadiness, CachedProbe.Probe | callers wait for each other's refresh while dependencies are closed |
| Personal service (`internal/personalsvc/controller.go`, `internal/personalsvchost/windows`) | artifact file, task, instance | install with its rollback, uninstall | commands compete for one lock; each step may fail, be killed half-way, or be the last before a crash |

How they interact: a request or the scheduler's loop enters through the runtime's
admission. Writes of a Scope take its gate, which serializes them *within one
process*. Between processes only the database decides, so every write that is
planned on something read earlier ends in a compare-and-swap: of the cursor's
generation, the Artifact's head revision, the Candidate's version, the
checkpoint's value or a Job's next run. A flush or an incubation reads the
journal that captures and Connector runs append to, and its result is a Memory
revision or a Candidate.

The correctness properties follow from that: one writer per Scope; nothing is
torn down under admitted work, be it the resources of the runtime, the database's
pool or a native session; the journal stays decodable; a Source is consumed exactly once by each consumer, and eventually; a slot runs at most once
and the scheduler does not die out; a Candidate is decided once and on what was
read; no checkpoint passes an item that is not stored; no Memory update is lost
and searches answer for one revision; a readiness call returns, and not with
"ready" from a closed server; a failed installation leaves what it found, and a
registered task can always be removed.

`PROJECT.json` lists each hazard at its line with the properties that would catch
it.

## 2. Modules

A SQLite transaction that writes is one action: such transactions are serial, and
one that fails rolls back and leaves no trace. What interleaves is everything
between transactions, and, in the runtime and the cache, every critical section
and channel operation. Payloads, names and texts are model values.

**ScopeCache** (`scope_cache.go`, the semaphore of `lifecycle.go`). An entry is a
pair of its Scope and an address, so that an evicted entry and its successor are
different objects with a token each. The recency list is the relation `older`,
which makes the module provable without sequences. **ScopeMutex** is what the cache
promises, one mutex per Scope; `ImplementsMutex` is the refinement, with `Owner`
mapping a Scope to the goroutine that holds the token of its entry.

**RuntimeLifecycle** extends the cache with admission, drain, the scheduled
processor and Close. Its threads are the cache's `Holders`, and every step that
leases, locks, releases or clears is the cache's action conjoined with the
runtime's own. Each step of
Close is an action and each may fail: the drain is cancelled, the scheduler's
Close times out, a resource's Close returns an error. `CloseCancelled` is enabled
whenever the context is done, also when `drained` is closed, as `select` chooses
among ready cases at random.

**SourceJournal** holds the rows of one Scope, the position head and the registry
of Definitions. A submission is `SubmitFind` or `SubmitAcceptedFind` followed by
`SubmitAdd`, with other processes in between. **SourceWindow** extends it with
the two consumers: `Observe`, for the flush `ReadHead`, then `PlanFlush` or
`PlanIncubation`, then `ApplyFlush` or `ApplyIncubation`, where the result and
the cursor CAS commit together. **JournalConsumer** is the abstract consumer: a
journal that grows and a cursor that moves forward over exactly the Sources it
hands on; `ImplementsConsumer` instantiates it once for each consumer.

**Scheduler** models every process that opens one scheduler database: `Open` with
`reconcile`, the loop with its stale in-memory copy and stale `now`, `Claim` (the
UPDATE with its CAS, then the handler), `ClaimFails` (the CAS loser cancels
itself), database failures, Pause, Close, crash and restart with another
interval. Opening the file twice in one process is refused (`claimOwner`), so one
scheduler per process is enough.

**Review** holds Candidates and their versions, Artifact revisions and heads, the
Experience index, packages, and what each user has read and not used yet. `Get`
and `ReadEvidence` record such reads; `Revise`, `Reject`, `Approve` and
`ProposeGenerated` use them later. Rebuilding the index at start is not an
action, being a no-op wherever `IndexFollowsHeads` holds. Fresh UUIDs do not
collide.

**ConnectorRun** has one binding whose items are numbered; checkpoint `n` says
that items `1..n` need not be fetched again. An item goes through claim, sink,
outcome and settlement, each its own step under the session's lock.
`AwaitsRefusals` says whether the Connector waits for its own Reject and Fail
calls before Run returns. `CommitLoads` and `CommitSaves` are the two transactions
of a remote worker's commit, which sees an absent row as JSON null.

**MemoryStore** has the revisions with manifest and changes, the entry versions
and the four projections (head rows, FTS rows, vector metadata, vec0 rows) with
the cascade from head rows to metadata (`foreign_keys` is on by default). A writer
reads a head, plans on it and commits; a process in `Embedding` has an embedding
model, which may be down, and a vector index, the others have neither. A search
is `Search`, `validateSearchHeads`, `SelectMode`, `SearchIndexes`, each its own
transaction, with `Stale` and `Again` for the retry. Relevance is equality of
texts; result limits, ranking and reranking are left out. `Organize` and
`Reactivate` are public methods of the service without a caller in the server;
they are modelled because callers of the package may use them. An entry whose
embedding failed has no vector until it is revised or reactivated; vector search
then is unavailable and automatic mode falls back to FTS. Normalisation of
manifests is a no-op on rows this code wrote.

**DatabaseGate** is the admission, drain and shutdown of `sqlstore.Database`: one
action per critical section of `stateMu` or call of the pool. A failed
`sql.DB.Close` closes the pool nevertheless and gives admission back, so
transactions may be admitted over a pool that is closed; they fail in BeginTx.
**LocalEmbedding** has the goroutines that `Embed` starts as *workers*. A worker is
an orphan once nobody waits for its result; it still counts in the wait group.
**CachedProbe** is the outcome that expires and the collapse of concurrent
refreshes; its two lifetimes are one step, `Expire`.

**Readiness** composes the three (by EXTENDS) into getReadiness: a Ping and the
cached embedding probe run concurrently and are joined, while Runtime.Close shuts
the transport and then the database down, gives up at the first error and is
called again. That the runtime drains its operations first is left out on purpose:
calls come at any time, so the gates are shown to hold by themselves.

**PersonalService** models the install and uninstall commands of several processes
on Windows over one artifact file, one scheduled task and its instance. Each
native step of the controller and of the adapter's rollback is an action; a
definition (a registration) is a model value. A `schtasks` command that is killed
by its context may have taken effect or not; file writes are by rename and fail
without effect; inspections may fail. A crash releases the lock between any two
steps. Taken from outside the repository, as assumptions: creating a task over a
running one keeps its instance (the fake of the repository's tests resets it), and a task's
instance may end or start answering at any time. Sign-in, which starts an enabled
task, happens while no command runs.

Each `MC...` module extends its component and defines symmetry sets and constants
that a `.cfg` cannot express, where it needs any. The theorems are in
**RuntimeLifecycleProofs** (with the cache's), **SourceWindowProofs** (with the
journal's), **SchedulerProofs**, **ReviewProofs**, **ConnectorRunProofs**,
**MemoryStoreProofs**, **ReadinessProofs** (with those of its three parts) and
**PersonalServiceProofs**. The `Mutant...` operators are plausible faults of the definitions that
follow them; each property has one that breaks it, listed in `PROJECT.json`. The `TypeOK` of a module documents its
state and is the base of its proofs; the runs spend their invariants on behaviour.

## 3. Runs

`tlc -workers 2 -config X.cfg M`, with `X` and `M` from the table.

| Run | Config, module | What it shows |
| --- | --- | --- |
| scope_cache | MCScopeCache, MCScopeCache | through evictions and new entries leases pin entries, the cache exceeds its capacity only by pinned entries, and it implements ScopeMutex: one goroutine at a time has a Scope's gate |
| runtime | MCRuntimeLifecycle, MCRuntimeLifecycle | the drain is exact, tear-down meets no admitted work and no lease, a closed runtime stays closed; admitted calls and Close return although no context is ever cancelled |
| source_window | MCSourceWindow, MCSourceWindow | stored Sources stay decodable; two processes hand each Source over once, with exactly the Sources of the window's range; both consumers implement JournalConsumer; incubation gets past every Source, silent windows included, and the flush past every Source while the journal holds only evidence |
| scheduler | MCScheduler, MCScheduler | through pauses, crashes, restarts and database failures no slot is handed out twice and stored Jobs reopen; while nothing is stopped and nothing fails one scheduler survives and due slots are claimed |
| review | MCReview, MCReview | each revision is one approval and stores what its reviewer read; competing Candidates never overwrite an uncited revision; the index follows the heads |
| connector | MCConnectorRun, MCConnectorRun | with a remote worker on the same row the checkpoint only advances, and passes no item that is not stored, refused ones included; runs end |
| memory_store | MCMemoryStore, MCMemoryStore | revisions replay from their changes (no lost update), versions form chains, projections describe the head |
| memory_search | MCMemorySearch, MCMemoryStore | an answer is exact for the revision it names; a conflict means the head moved in every attempt; no vector row loses its metadata |
| readiness | MCReadiness, MCReadiness | no pool is closed under a transaction and no session under a native call, however often Close is cancelled or fails; the drain neither ends early nor is slept through; a closed server is not ready; readiness calls return although native calls may not |
| personal_service | MCPersonalService, MCPersonalService | through failures, kills and crashes no task is without its artifact; a rollback that ends restores artifact and task; success means both are as asked; no task is deleted over an instance nobody told to end |

Two more runs, runtime_retry (MCRuntimeRetry) and flush_silent (MCFlushSilent), end
in a counterexample; section 7 describes them.

The cfg of the scheduler says `CHECK_DEADLOCK FALSE`: a paused or cancelled
scheduler stops for good and the clock is bounded. Everywhere else deadlock is
checked.

## 4. Bounds

* ScopeCache: three goroutines, three Scopes, room for two entries, two addresses.
  Three Scopes are needed to evict, two addresses to tell an entry from its
  successor; an address is reused only when nothing refers to the old entry. In
  the runtime one address suffices, as the cache on its own has been checked.
* RuntimeLifecycle: two callers, the processor, one closer that may call Close
  again and again, one Scope they compete for (the cache on its own is checked
  with three), two resources (one may fail after the other has closed).
* SourceJournal and SourceWindow: two processes, one of them scheduled and the other
  free to stop for good at any point; a content Source and a worker's observation
  with or without text, so that a window of two can be full, partial, mixed or
  free of evidence. One other Memory write (`MaxWrites`) and one abandoned window
  (`MaxFailures`) compete with them.
* Scheduler: two processes with equal intervals 2 and 3, both Jobs, a clock up to
  `MaxTime` 6, so that several slots pass, some of them missed or due together,
  one pause or crash (`MaxStops`) and one database failure. The clock is assumed
  not to step back. Restarts with other intervals are left to the theorems, which
  hold for every set of intervals.
* Review: two users and three versions in all (`MaxVersions`): of one Candidate
  that is revised, or of up to three Candidates. Three are the fewest that let two
  compete for the Artifact a third one created. Two references per version let a
  Skill cite its target and a Source.
* ConnectorRun: three items, a run and a worker.
* MemoryStore: two texts. Two processes of which one embeds make four revisions of
  two entries; for search one process makes two revisions with two inputs per
  plan and three entries, and one reader has two attempts, so that the head can
  move under each of them (`SearchAttempts` is three in the code).

* Readiness: two callers, so that one refreshes and the other waits, and two
  workers, so that one is queued behind a native call that does not return. No
  counter is bounded; Close may be called without end.
* PersonalService: three processes (one working, one waiting with a stale probe,
  one that crashed) and three definitions, as the artifact, the task and what is
  wanted may all differ after a crash. Nothing else is unbounded.

Symmetry is used only for sets whose members the module treats alike, and never
in a run that checks a liveness property.

## 5. Fairness

* `runtime`: callbacks return and goroutines are scheduled (weak
  fairness); the Go channel behind a gate serves its waiters first come first
  served, so a waiter is not overtaken for ever (strong fairness of `LockScope`).
  No context is assumed to be done.
* `source_window`, `flush_silent`: the scheduled processor of a process in
  `Scheduled` calls both consumers of every Scope again and again, and the gate
  may be held by the other consumer each time it asks (strong fairness of
  `Observe`); an admitted operation runs to its end (weak fairness). Of any other
  process nothing is assumed.
* `scheduler`: the loop's goroutine is scheduled and handlers return.
* `readiness`: the goroutines of a call are scheduled and the timeouts of its
  probes fire (weak fairness of `Ping`, `Embed` and `Return`). Native calls need
  not return, and Close need not be called or succeed. `ReadinessReturns` also
  supposes that from some point on no client goes away and no outcome expires:
  without it a waiter may starve (section 7).
* `connector`: the sink's calls return and a run takes its own steps.

## 6. Proofs

`tlapm M.tla` checks the proofs of a module `M` named `...Proofs`.

**RuntimeLifecycleProofs** begins with the cache alone (`CacheSpec`) and assumes
for it `CacheAssumption`: a positive capacity and finite sets of goroutines and
Scopes. `WriteExclusion` is not inductive, because it does not
say that a leased entry is still in the cache. The invariant `CacheInv` adds:

* `Pinned`: an entry sits under its own key, and a leased entry is the current
  entry of its Scope;
* `Counted`: an entry's lease count is the number of goroutines leasing it, which
  is why eviction of entries with count zero keeps `Pinned`;
* `OneToken`: the token of an entry is out exactly while one of its lease holders
  has it.

From `CacheInvariant` follow `WritersExclude`, `ReleaseNeverPanics`, `ExactCounts`
and `MutexRefinement`: every step of the cache is a step or a stutter of
ScopeMutex. `BoundYieldsToLeases` proves `OverCapacityOnlyPinned`. It rests on
`EvictionMakesRoom`: what eviction leaves is within the capacity, or without an
entry that could be evicted, as it removes exactly as many as are over.

For the runtime it adds `RuntimeAssumption`: the processor is one of the threads
and there are finitely many resources. `CacheRefinement` says that every step of
the runtime is a step or a stutter of the cache, so that `ScopedWritesExclude` and
the lemmas below use the theorems about the cache instead of proving them again. `DrainExact` is inductive once
the types are known: each thread's step enters or leaves `Admitted` together with
the counter. `TeardownQuiet` needs two more facts: a thread has a lease only in
the phases between `EnterScope` and `LeaveScope` (`Leased`), so no admitted
operation means no lease; and a closer past the drain holds `closeMu`, found
`drained` closed, and at its resources has stopped an attached scheduler, emptied
the cache and closed the resources above its index (`Shutdown`).
`ClosedStaysFinal` follows from the same invariant: a failing resource makes the
next Close begin again, and nothing that was closed opens.

**SourceWindowProofs** assumes `JournalAssumption` and `WindowAssumption`. For the
journal, `JInv` adds to `JournalDecodes` that stored positions lie within the
head and that a row marked as accepted holds an observation; rows and registered
Definitions never change, so a row that decodes goes on to (`RowsDecode`).
Every step of the composition is a step or a stutter of the journal, which gives
`RowsDecodeForConsumers`. For the consumers, `WInv` says what a window held by a
process is worth after others have moved on (`Follows`): its values are still
exactly what the journal holds in its range, because rows are immutable and new
ones get positions beyond the head; and that everything recorded in a Memory revision or a Candidate lies
behind its cursor. A window commits only against the generation it observed, so
its range begins at the cursor, and what it records lies beyond everything
recorded before. `RecordedOnce`, `CursorsFollowWindows` and `ConsumerRefinement`
follow.

**SchedulerProofs** assumes `SchedulerAssumption`: intervals are natural numbers,
bounds too. `WithNextFacts` says what the next slot of a Job is and `ReconcileFacts`
what Open makes of stored Jobs. `SlotInv` adds to the types that Jobs lie on their
grid, at most an interval ahead (`JobsAreSane`), and that claimed slots lie before
the stored next run. It gives `SlotsStayPassed`, `StoredJobsStaySane` and
`EachSlotRunsOnce` for any number of processes and any intervals.
`SchedulerSurvives` needs more: a process with an outdated copy is behind on the
very Job it tries next, so its CAS fails before it can move any other Job, and
the process that won has an exact copy (`LoopInv`, `RaceInv`). It holds when all
processes are configured alike and nothing is stopped or fails.

**ReviewProofs** assumes `ReviewAssumption` and `NoneAssumption`: plain contents
are no packages, and `None` is no value of a table. The invariant adds to the
properties that a Candidate has as many versions as its version number says, that
its target is evidence of its current version and of its own family, that an
approved one has its approved content as last version (`Sound`), and that what a
reviewer holds is a version as it was written (`Reads`). Versions are only
appended; so a decision that passes the comparison of versions is made on the
current content, and one on an Artifact's head cites the revision it replaces.
`ApprovedOnce`, `StoredAsRead`, `NoLostRevision` and `IndexInStep` follow for any
number of users, Candidates and versions.

**ConnectorRunProofs** assumes `ConnectorAssumption`. The checkpoint of a run is
proposed while submissions are in flight and saved later; what makes that safe is
the drain. `Sound` says that the session's counter is the cardinality of the set
of its submissions in flight, that a drained session has none, that a failed item
has set the failure flag and a run that decides has none, and that what the run
proposes was claimed by it. `SessionsAreSound` gives `CheckpointAdvances`, with
`Honest`: a worker commits to what it loaded. `NoItemIsLost` adds that workers
and the row are covered by stored Sources; its hypothesis `AwaitsRefusals` is the
value the run checks, and section 7 tells why it is needed.

**ReadinessProofs** begins with the database gate, and assumes a finite set of
clients (`ClientsAssumption`). `CloseDrains` compares the channel with the *set* of transactions inside, the code
compares a counter with zero; the invariant adds that the counter is the
cardinality of that set. It gives `PoolIsDrained` and `CloseIsExact`.
`TransportIsSafe` and `RefreshesCollapse` are of the other two parts alone. The
first needs that a closed transport has no worker at all: a queued one
would create a new session. `ReadinessImplementsParts` says that every step of the
composition is a step or a stutter of each part, for which a caller that waits for
a worker must be the one that refreshes; what the parts promise then holds of the
composition (`DependenciesOutliveWork`). It assumes `ReadinessAssumption`: each
caller is a client of the database, and `None` is neither caller nor worker.
`ClosedServerIsNotReady` needs that a call which began after the database was
closed has not pinged with success (`LateInvariant`): closed is final, and the
Ping of such a call is refused.

**MemoryStoreProofs** assumes `MemoryAssumption`. Its first half uses nothing of a
plan but that its manifest lists entries of the Memory (`Listed`). With that,
`ProjectionsInStep` is inductive: a commit replaces the
head rows by those of the revision it appends, in one transaction, and vectors
refer to head rows. `VectorsAreTracked` has the hypothesis `Embedding = Processes`,
without which it fails (section 7).

A search reads the head, chooses its mode and looks into the indexes in different
transactions. `Sound` says what it still knows then: the head moved once for every
attempt it has spent (`Tried`), and vectors that were complete when the mode was
chosen are complete as long as the head is the one it read. `HistoryStands` is why
this outlives the steps of others: revisions are only appended, and head rows and
vector metadata change only with the head. `SearchesAreExact` then needs that the
k nearest rows of vec0 are all of them, k being the number of metadata rows. That
follows from `VectorsAreTracked`, so it has the same hypothesis. Without it
`NothingStaleIsFound` still holds: what is found is active in the revision named
and matches. `ConflictsAreReal` follows from `Tried`.

The second half is about what a plan makes of its base, for plans of any length.
`prepareCommit` is a recursive function over its inputs. An induction theorem that
takes a predicate cannot be used here, but one that takes a set can:
`SetInduction` follows from the least element of a set of numbers, and shows first
that the recursion defines a function (`PlansExist`, `PrepareCommitDef`) and then
that its result follows the base (`PrepareCommitFollows`). `Follows` says that
manifest, changes and new versions tell the same story: an entry is changed at most
once, each change tells what the manifest now lists for it, and a new version
continues the one the base lists. The induction needs the stronger `PlanFollows`:
the claimed targets cover the revised entries, so that a second input for an entry
is refused, and an added entry gets the number after the last one.

`HistoryInv` says of the store that every revision follows the one before
(`History`), that the versions form chains (`Chained`) and that no stored version is
newer than the one the head lists (`Newest`); and of each writer that its plan
follows the revision it was based on (`Prepared`). Others may commit in between:
revisions stand, so `Prepared` outlives their steps, but only a plan whose base is
still the head can be appended. That is the compare-and-swap of the head (`HeadCAS`),
and without it TLC finds `RevisionsReplay` violated. `NoUpdateIsLost` and `OneChainPerEntry`
follow, without a hypothesis on the vector indexes, and so does `TypeCorrect`.

**PersonalServiceProofs** assumes `ServiceAssumption`, that `None` is neither a
process nor a definition. The properties are not inductive: a command relies at
each step on what it has done so far, which nobody undoes because it holds the
lock. `Knows(p)` says what that is at each step, and that the snapshot a rollback
goes back to was itself sound (a task in it comes with an artifact); without that,
the last step of Restore could remove the artifact of a restored task. From
`CommandsKnow` follow `TasksKeepArtifacts`, `RollbackIsExact` and `SuccessIsWhole`.
`NoTaskDeletedRunning` has an invariant of its own, `Ended`: the holder of the
lock that is about to delete the task has seen its instance down or told it to
end, and nothing but a command starts one while the lock is held.

Every invariant and action property of the passing runs is proved; those of section
7 that rest on the value of a constant have it as a hypothesis. Only model-checked
are:

* liveness, which is outside the prover's reach, as is ENABLED: `CallsReturn`,
  `CloseReturns`, `IncubationConsumes`, `EvidenceIsFlushed`, `DueSlotsRun`,
  `RunsEnd`, `ReadinessReturns`;
* the counterexamples of section 7.

No module with a theorem uses a RECURSIVE operator.

## 7. Where code and text disagree

* `runtime_retry`: a Close that drained, closed a resource and failed leaves
  `closing` set and `drained` closed. A second Close with a done context may take
  `ctx.Done` and reset `closing`, so operations are admitted over closed
  resources (`internal/runtime/lifecycle.go:292`).
* `flush_silent`: a window that holds only observations without text evidence is
  said to be consumed (`internal/sqlstore/memory_flush.go:108`), but planning
  refuses it before the cursor is saved.

  The same property fails for another reason when the window holds a native Source
  that is no evidence: `ObserveWindow` filters only worker observations
  (`internal/sqlstore/memory_flush.go:111`), so Skill usage or a package upload is
  handed to `PlanRemember`, which refuses it (`internal/sourceevidence/gate.go:26`),
  in this flush and in every later one. MCFlushSilent.cfg without worker refs
  (`WorkerRefs = {}`) shows it.

Three passing properties rest on the value of a constant, and fail for another one the
code admits:

* `CheckpointIsCovered` with `AwaitsRefusals = FALSE`: `recordUnsafe` claims its
  item without tracking settlement (`source/connector_lifecycle.go:492`), so a
  Connector that leaves a Reject or Fail running when Run returns gets its
  checkpoint saved past the item, where `internal/runtime/connector_lifecycle.go:61`
  says "a checkpoint advances only after a complete run with no rejected or failed
  item".
* `VectorRowsAreTracked` with a process outside `Embedding`: its commit has no
  vector index to clear, the DELETE of the head rows cascades to the vector
  metadata (`internal/sqlstore/memory.go:213`), and the vec0 rows stay behind until
  a process with a vector index initialises. `SearchIsExact` rests on the same
  value. A vector search asks vec0 for as many rows as there are metadata rows
  (`internal/sqlstore/sqlite_memory_vector.go:292`) and joins them afterwards
  (`:316`), so a row left behind can take the place of a current one, and a match
  is missed.

Three behaviours that no property forbids, but a reader should know of:

* Install probes the liveness endpoint before it asks for the lock
  (`internal/personalsvc/controller.go:56`), and when the probe answered it neither
  starts the service nor probes again (`:247`). An uninstall in between may have
  stopped the instance, so that install succeeds with nothing running, where
  `docs/release/INSTALL.md:182` says that installation must reach the "loopback
  liveness endpoint before reporting success". The model has these behaviours;
  `OutcomeIsWhole` therefore speaks of artifact and task only.
* The uninstall command looks for the artifact without the lock and does nothing
  when there is none (`internal/cli/server_personal_service_windows.go:130`). A
  rollback in another process deletes the file before it writes the old one
  again; an uninstall that looks in between reports that nothing is installed.
* A caller of CachedProbe that waited looks again and may find that the outcome has
  expired or that another caller, whose client then goes away too, refreshes
  (`internal/runtime/readiness.go:284`). It has no timeout of its own, so only the
  end of such a series lets it return.

## 8. What is not modelled

`PROJECT.json` lists every part with its reason. Left out as stateless, generated
or outside the server: transports, client, CLI, API types, tools, model providers
(their answers are nondeterministic where they are used), statistics, canonical
JSON, the Pickle codec of stored Jobs. Left out so far although stateful: Scopes,
remote Skill targets and external Skills, Handoff reports, Work continuity. Of the
personal service, Status, the launchd and systemd adapters, the text of the
documents and artifacts or tasks of other owners are left out. Much of
the code that no module covers is generated (`api/`), tooling or transport, without
the shared state these models are about.

SQLite itself, its locking and its durability are assumed; a transaction that
cannot upgrade its snapshot fails as a whole, which the models include as the
failing step of each operation.

## 9. Plan

The order is by what goes wrong most expensively.

1. Done: ScopeCache, RuntimeLifecycle, SourceJournal, SourceWindow, Scheduler,
   Review, ConnectorRun, MemoryStore, DatabaseGate, LocalEmbedding, CachedProbe and
   their composition Readiness, PersonalService; eight modules of proofs.
2. Next modules: Scope registration, remote Skill targets and external Skills,
   Handoffs and Handoff reports (trigger and catalog), Work continuity.
3. Compositions: the scheduler's handlers driving SourceWindow through the
   runtime; Connector runs appending to SourceJournal; RuntimeLifecycle over the
   gates of Readiness.
4. Abstract specifications: an append-only log for SourceJournal, a linear history
   of revisions for MemoryStore and Review.
5. Theorems: the refinements of these abstract specifications.
