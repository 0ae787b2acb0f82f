---------------------------- MODULE SourceWindow ----------------------------
(***************************************************************************)
(* The two consumers of a Scope's Source journal: the Memory flush         *)
(* (MemoryApplication.flushWindow over MemoryFlushStore) and Experience    *)
(* incubation (incubateWindow over ExperienceIncubationStore).             *)
(*                                                                         *)
(* Each observes a window in one transaction, runs inference outside any   *)
(* transaction, and applies the result in a second transaction together    *)
(* with a compare-and-swap of its cursor's generation.  ScopedWrite admits *)
(* one operation of a process at a time; other processes on the same       *)
(* database run at any point in between.                                   *)
(***************************************************************************)
EXTENDS SourceJournal

CONSTANTS
    EvidenceRefs,       \* native refs of content and Skill snapshots
    TextFingerprints,   \* manifests with the text-evidence projection
    Limit,              \* the window limit
    Scheduled,          \* the processes whose scheduler is enabled
    MaxWrites,          \* bound on Memory writes other than flushes
    MaxFailures         \* bound on failures of the environment

Bindings == {"memory", "incubation"}

ASSUME WindowAssumption ==
    /\ EvidenceRefs \subseteq NativeRefs
    /\ TextFingerprints \subseteq Fingerprints
    /\ Limit \in Nat \ {0}
    /\ Scheduled \subseteq Processes
    /\ MaxWrites \in Nat
    /\ MaxFailures \in Nat

VARIABLES
    cursor,     \* cursor[b]: sequence and generation, generation 0 when absent
    memory,     \* memory[n]: the Source lineage of revision n of the Memory head
    candidates, \* the pending Candidates: cited Sources, and the window's end
    window,     \* window[p]: the window p works on, or None
    writes, failures

windowVars == <<cursor, memory, candidates, window, writes, failures>>
vars == <<journalVars, windowVars>>

Window ==
    [binding : Bindings, previous : Nat, next : Nat, generation : Nat,
     values : SUBSET Refs, stage : {"observed", "based", "planned"},
     base : Nat, plan : SUBSET Refs, commit : BOOLEAN]

TypeOK ==
    /\ JournalTypeOK
    /\ cursor \in [Bindings -> [sequence : Nat, generation : Nat]]
    /\ \A n \in DOMAIN memory : memory[n] \subseteq Refs
    /\ \A c \in candidates : c.sources \subseteq Refs /\ c.through \in Nat
    /\ window \in [Processes -> Window \cup {None}]
    /\ writes \in Nat
    /\ failures \in Nat

Init ==
    /\ JournalInit
    /\ cursor = [b \in Bindings |-> [sequence |-> 0, generation |-> 0]]
    /\ memory = [n \in {} |-> {}]
    /\ candidates = {}
    /\ window = [p \in Processes |-> None]
    /\ writes = 0
    /\ failures = 0
-----------------------------------------------------------------------------
Head == Cardinality(DOMAIN memory)

\* The accepted observation in row r has the standard text projection.
HasText(r) == rows[r].accepted /\ rows[r].value.fingerprint \in TextFingerprints

\* sourceevidence.Require: the Sources that may become evidence.
Evidence(r) == r \in EvidenceRefs \/ HasText(r)

\* The rows an ObserveWindow hands to its pipeline.  The Memory flush drops raw
\* observations and accepted ones without text; incubation drops whatever the
\* evidence gate refuses.
Keeps(b, r) ==
    IF b = "memory" THEN r \in NativeRefs \/ HasText(r) ELSE Evidence(r)

InWindow(r, after, through) ==
    r \in Stored /\ after < rows[r].position /\ rows[r].position <= through

Values(b, after, through) ==
    {r \in Refs : InWindow(r, after, through) /\ Keeps(b, r)}

\* SourceWindowPolicy.Activate above the cursor.
Through(after) == IF head < after + Limit THEN head ELSE after + Limit

\* Scope operations of one process exclude each other.
Idle(p) == pending[p] = None /\ window[p] = None

\* ObserveWindow, when the policy yields a window; otherwise the operation
\* returns without an effect.
Observe(p, b) ==
    /\ Idle(p)
    /\ head > cursor[b].sequence
    /\ LET after == cursor[b].sequence IN
       window' = [window EXCEPT ![p] =
           [binding |-> b, previous |-> after, next |-> Through(after),
            generation |-> cursor[b].generation,
            values |-> Values(b, after, Through(after)),
            stage |-> "observed", base |-> 0, plan |-> {}, commit |-> FALSE]]
    /\ UNCHANGED <<journalVars, cursor, memory, candidates, writes, failures>>

At(p, b, stage) ==
    /\ window[p] # None
    /\ window[p].binding = b
    /\ window[p].stage = stage

Forget(p) == window' = [window EXCEPT ![p] = None]

\* flushWindow: read the Memory head before planning.
ReadHead(p) ==
    /\ At(p, "memory", "observed")
    /\ window' = [window EXCEPT ![p].stage = "based", ![p].base = Head]
    /\ UNCHANGED <<journalVars, cursor, memory, candidates, writes, failures>>

\* PlanRemember succeeds: evidence present (selectRememberMode), all of it
\* admissible (canonicalOperationEvidence), the base still the latest revision
\* (canonicalBase).  The model may propose changes or none.
Plannable(p) ==
    /\ window[p].values # {}
    /\ \A r \in window[p].values : Evidence(r)
    /\ window[p].base = Head

PlanFlush(p, commit) ==
    /\ At(p, "memory", "based")
    /\ Plannable(p)
    /\ window' = [window EXCEPT ![p].stage = "planned", ![p].commit = commit]
    /\ UNCHANGED <<journalVars, cursor, memory, candidates, writes, failures>>

PlanRefused(p) ==
    /\ At(p, "memory", "based")
    /\ ~Plannable(p)
    /\ Forget(p)
    /\ UNCHANGED <<journalVars, cursor, memory, candidates, writes, failures>>

\* Mutant: incubation, like the flush, gives up on a window without evidence.
MutantPlanIncubation(p, plan) ==
    /\ At(p, "incubation", "observed")
    /\ plan \subseteq window[p].values
    /\ IF window[p].values = {} THEN Forget(p)
       ELSE window' = [window EXCEPT ![p].stage = "planned", ![p].plan = plan,
                                     ![p].commit = plan # {}]
    /\ UNCHANGED <<journalVars, cursor, memory, candidates, writes, failures>>

\* incubateWindow: no plans for a window without evidence, otherwise what the
\* pipeline proposes, citing Sources of the window (validateIncubationSources
\* refuses any other).  The union of the cited Sources stands for the plans.
PlanIncubation(p, plan) ==
    /\ At(p, "incubation", "observed")
    /\ plan \subseteq window[p].values
    /\ window' = [window EXCEPT ![p].stage = "planned", ![p].plan = plan,
                                ![p].commit = plan # {}]
    /\ UNCHANGED <<journalVars, cursor, memory, candidates, writes, failures>>

\* SourceCursorRepository.Save matches the generation that was observed; the
\* INSERT of a first cursor loses to an existing row in the same way.
Matches(w) == cursor[w.binding].generation = w.generation

Save(w) ==
    cursor' = [cursor EXCEPT ![w.binding] =
                   [sequence |-> w.next, generation |-> w.generation + 1]]

\* Mutant: the cursor is saved without comparing its generation.
MutantApplyFlush(p) ==
    /\ At(p, "memory", "planned")
    /\ LET w == window[p] IN
        /\ w.commit => w.base = Head
        /\ memory' = IF w.commit
                     THEN [n \in 1..(Head + 1) |-> IF n <= Head THEN memory[n] ELSE w.values]
                     ELSE memory
        /\ Save(w)
    /\ Forget(p)
    /\ UNCHANGED <<journalVars, candidates, writes, failures>>

\* Mutant: a plan that changes nothing returns before the cursor is saved.
MutantApplyNothing(p) ==
    /\ At(p, "memory", "planned")
    /\ LET w == window[p] IN
        /\ w.commit => w.base = Head
        /\ Matches(w)
        /\ memory' = IF w.commit
                     THEN [n \in 1..(Head + 1) |-> IF n <= Head THEN memory[n] ELSE w.values]
                     ELSE memory
        /\ IF w.commit THEN Save(w) ELSE cursor' = cursor
    /\ Forget(p)
    /\ UNCHANGED <<journalVars, candidates, writes, failures>>

\* MemoryFlushStore.ApplyWindow: the planned revision under the head CAS, and
\* the cursor under the generation CAS, in one transaction.
ApplyFlush(p) ==
    /\ At(p, "memory", "planned")
    /\ LET w == window[p] IN
        /\ w.commit => w.base = Head
        /\ Matches(w)
        /\ memory' = IF w.commit
                     THEN [n \in 1..(Head + 1) |-> IF n <= Head THEN memory[n] ELSE w.values]
                     ELSE memory
        /\ Save(w)
    /\ Forget(p)
    /\ UNCHANGED <<journalVars, candidates, writes, failures>>

\* Mutant: the cursor is saved without comparing its generation.
MutantApplyIncubation(p) ==
    /\ At(p, "incubation", "planned")
    /\ LET w == window[p] IN
        /\ candidates' = IF w.commit
                         THEN candidates \cup {[sources |-> w.plan, through |-> w.next]}
                         ELSE candidates
        /\ Save(w)
    /\ Forget(p)
    /\ UNCHANGED <<journalVars, memory, writes, failures>>

\* ExperienceIncubationStore.ApplyWindow: every cited Source is read and passed
\* through the evidence gate again, then Candidates and cursor commit together.
ApplyIncubation(p) ==
    /\ At(p, "incubation", "planned")
    /\ LET w == window[p] IN
        /\ \A r \in w.plan : r \in Stored /\ Evidence(r)
        /\ Matches(w)
        /\ candidates' = IF w.commit
                         THEN candidates \cup {[sources |-> w.plan, through |-> w.next]}
                         ELSE candidates
        /\ Save(w)
    /\ Forget(p)
    /\ UNCHANGED <<journalVars, memory, writes, failures>>

\* Either transaction rolls back on a lost compare-and-swap.
ApplyConflicts(p) ==
    /\ window[p] # None
    /\ window[p].stage = "planned"
    /\ \/ ~Matches(window[p])
       \/ window[p].binding = "memory" /\ window[p].commit /\ window[p].base # Head
    /\ Forget(p)
    /\ UNCHANGED <<journalVars, cursor, memory, candidates, writes, failures>>

\* The window is abandoned at any point: the model failed or timed out, the
\* request was cancelled, the process stopped.
Abandon(p) ==
    /\ failures < MaxFailures
    /\ window[p] # None
    /\ Forget(p)
    /\ failures' = failures + 1
    /\ UNCHANGED <<journalVars, cursor, memory, candidates, writes>>

\* Remember, Revise or Retire by an idle process: one more Memory revision, of
\* no extracted evidence (MemoryStore has the details).
WriteMemory(p) ==
    /\ Idle(p)
    /\ writes < MaxWrites
    /\ memory' = [n \in 1..(Head + 1) |-> IF n <= Head THEN memory[n] ELSE {}]
    /\ writes' = writes + 1
    /\ UNCHANGED <<journalVars, cursor, candidates, window, failures>>

Journal ==
    /\ \/ \E p \in Processes, r \in NativeRefs, x \in Payloads :
             Idle(p) /\ Capture(p, r, x)
       \/ \E v \in Versions, f \in Fingerprints : Register(v, f)
       \/ \E p \in Processes, r \in WorkerRefs, o \in Observation :
             Idle(p) /\ (SubmitFind(p, r, o) \/ SubmitAcceptedFind(p, r, o))
       \/ \E p \in Processes : SubmitAdd(p) \/ SubmitFails(p)
    /\ UNCHANGED windowVars

\* A step of the operation p is in, or the start of one.
Step(p, b) ==
    \/ Observe(p, b)
    \/ b = "memory" /\ (ReadHead(p) \/ PlanRefused(p) \/ ApplyFlush(p))
    \/ b = "memory" /\ \E commit \in BOOLEAN : PlanFlush(p, commit)
    \/ b = "incubation" /\ ApplyIncubation(p)
    \/ b = "incubation" /\ \E plan \in SUBSET Refs : PlanIncubation(p, plan)
    \/ At(p, b, "planned") /\ ApplyConflicts(p)

Next ==
    \/ Journal
    \/ \E p \in Processes : WriteMemory(p) \/ Abandon(p)
    \/ \E p \in Processes, b \in Bindings : Step(p, b)

Spec == Init /\ [][Next]_vars

\* The scheduled processor calls both consumers of every Scope again and again,
\* and an admitted operation runs to its end.  Nothing is assumed of a process
\* whose scheduler is disabled: it competes for the cursors at its own pace.
FairSpec ==
    /\ Spec
    /\ \A p \in Scheduled :
        /\ WF_vars((SubmitAdd(p) \/ SubmitFails(p)) /\ UNCHANGED windowVars)
        /\ \A b \in Bindings : SF_vars(Observe(p, b)) /\ WF_vars(Step(p, b))
-----------------------------------------------------------------------------
\* A cursor moves only over the window observed at the position it stands on,
\* and what was handed to the pipeline is exactly what the journal holds there
\* now: nothing captured since then is skipped, nothing is handed over twice.
CursorMovesOverItsWindow ==
    [][\A b \in Bindings : cursor'[b] # cursor[b] =>
        \E p \in Processes :
            /\ window[p] # None
            /\ window[p].binding = b
            /\ window[p].previous = cursor[b].sequence
            /\ window[p].values =
                 Values(b, cursor[b].sequence, cursor'[b].sequence)]_vars

\* No Source is the extraction evidence of two Memory revisions, and none is
\* beyond the Memory cursor: revision and cursor commit together or not at all.
FlushedOnce ==
    \A m, n \in DOMAIN memory :
        /\ m # n => memory[m] \cap memory[n] = {}
        /\ \A r \in memory[m] : rows[r].position <= cursor["memory"].sequence

\* Candidates that cite a common Source come from one window, and that window
\* is behind the incubation cursor.
IncubatedOnce ==
    \A c, d \in candidates :
        /\ c.sources \cap d.sources # {} => c.through = d.through
        /\ c.through <= cursor["incubation"].sequence

\* Each consumer hands a Source to its pipeline once and records it together with
\* the cursor: extraction in FlushedOnce, incubation in IncubatedOnce.
HandedOverOnce == FlushedOnce /\ IncubatedOnce

MemoryConsumer ==
    INSTANCE JournalConsumer WITH done <- cursor["memory"].sequence

IncubationConsumer ==
    INSTANCE JournalConsumer WITH done <- cursor["incubation"].sequence

\* Both cursors implement an in-order, gapless, bounded consumer of the journal,
\* whatever processes compete for them.
ImplementsConsumer == MemoryConsumer!Spec /\ IncubationConsumer!Spec

\* The cursor reaches the head of the journal again and again, so every position
\* is consumed in the end.
Consumes(b) == []<>(cursor[b].sequence = head)

\* incubateWindow consumes windows that hold no evidence ("Consume that cursor
\* range without invoking an arbitrary candidate pipeline"), so incubation gets
\* past every Source, whatever its kind.
IncubationConsumes == Consumes("incubation")

\* The Memory flush gets past every Source ("Flush advances the stable Memory
\* Source window").
FlushConsumes == Consumes("memory")

\* While the journal holds nothing but evidence, the flush gets past every
\* Source, although processes compete for its cursor and for the Memory head.
EvidenceIsFlushed ==
    []<>(cursor["memory"].sequence = head \/ \E r \in Stored : ~Evidence(r))
=============================================================================
