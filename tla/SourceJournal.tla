---------------------------- MODULE SourceJournal ----------------------------
(***************************************************************************)
(* The Source journal of one Scope and the registry of Source Definitions  *)
(* (internal/sqlstore/sources.go, definition_manifests.go, the ingestion   *)
(* applications of internal/runtime).                                      *)
(*                                                                         *)
(* Native Sources (captured content, Skill snapshots, Skill usage, package *)
(* uploads) are added in one transaction.  A worker's observation is first *)
(* matched with its Definition in a read transaction (Find) and added in a *)
(* second one (AddAccepted), which admits it again.  A SQLite transaction  *)
(* that writes is serial, so each is one action; other processes that      *)
(* share the database run between the two.                                 *)
(***************************************************************************)
EXTENDS Naturals, FiniteSets

CONSTANTS
    Processes,      \* server processes that share the database file
    NativeRefs,     \* refs whose type has a concrete codec
    WorkerRefs,     \* refs of a type declared by a remote Definition
    Payloads,       \* what a Source says
    Versions,       \* versions of the remote Definition
    Fingerprints,   \* manifests: a fingerprint determines schema and projections
    Conforming,     \* the pairs <<fingerprint, payload>> the schema accepts
    None

Refs == NativeRefs \cup WorkerRefs

\* SourceObservation: the fields AdmitObservation compares.
Observation == [version : Versions, fingerprint : Fingerprints, payload : Payloads]

\* A row of pc_sources joined with pc_source_observation_acceptances.
Row == [value : Payloads \cup Observation, accepted : BOOLEAN, position : Nat]

ASSUME JournalAssumption ==
    /\ NativeRefs \cap WorkerRefs = {}
    /\ Payloads \cap Observation = {}
    /\ Conforming \subseteq Fingerprints \X Payloads
    /\ None \notin Row \cup Fingerprints \cup (WorkerRefs \X Observation)

VARIABLES
    rows,           \* rows[r]: the stored row of ref r, or None
    head,           \* pc_source_journal_heads.position, 0 when there is no row
    definitions,    \* definitions[v]: the fingerprint registered for version v
    pending         \* pending[p]: the observation p is about to add, or None

journalVars == <<rows, head, definitions, pending>>

Stored == {r \in Refs : rows[r] # None}

JournalTypeOK ==
    /\ rows \in [Refs -> Row \cup {None}]
    /\ head \in Nat
    /\ definitions \in [Versions -> Fingerprints \cup {None}]
    /\ pending \in [Processes -> (WorkerRefs \X Observation) \cup {None}]

\* Databases written before acceptance was recorded hold raw observations; no
\* operation adds one any more (SourceRepository.encode refuses them).
LegacyRow(n) == [value : Observation, accepted : {FALSE}, position : {n}]

JournalInit ==
    /\ \E legacy \in {{}} \cup {{r} : r \in WorkerRefs}, row \in LegacyRow(1) :
        /\ rows = [r \in Refs |-> IF r \in legacy THEN row ELSE None]
        /\ head = Cardinality(legacy)
    /\ definitions = [v \in Versions |-> None]
    /\ pending = [p \in Processes |-> None]
-----------------------------------------------------------------------------
\* AdmitObservation against the manifest stored for the observation's version.
Admits(defs, o) ==
    /\ defs[o.version] = o.fingerprint
    /\ <<o.fingerprint, o.payload>> \in Conforming

\* lockJournalHead, nextJournalPosition and the INSERT.
Insert(r, value, accepted) ==
    /\ rows' = [rows EXCEPT ![r] =
                    [value |-> value, accepted |-> accepted, position |-> head + 1]]
    /\ head' = head + 1

\* Add / AddAccepted after admission: an equal row is answered again, a
\* different one is a conflict, and neither touches the journal.
Add(r, value, accepted) ==
    \/ rows[r] = None /\ Insert(r, value, accepted)
    \/ rows[r] # None /\ UNCHANGED <<rows, head>>

\* SourceApplication.CaptureContent, SkillUsageApplication.Record and the other
\* native captures: ScopedWrite, so not while p is in the middle of a Submit.
Capture(p, r, payload) ==
    /\ pending[p] = None
    /\ Add(r, payload, FALSE)
    /\ UNCHANGED <<definitions, pending>>

\* RemoteIngestionApplication.Register: the first manifest of a version stays.
Register(v, f) ==
    /\ definitions[v] = None
    /\ definitions' = [definitions EXCEPT ![v] = f]
    /\ UNCHANGED <<rows, head, pending>>

\* Submit up to backend.Find and AdmitObservation, in a read transaction.
SubmitFind(p, r, o) ==
    /\ pending[p] = None
    /\ Admits(definitions, o)
    /\ pending' = [pending EXCEPT ![p] = <<r, o>>]
    /\ UNCHANGED <<rows, head, definitions>>

\* SubmitAccepted: the Connector admitted the observation against the manifest
\* it holds in memory; here only the existence of the Definition is checked.
SubmitAcceptedFind(p, r, o) ==
    /\ pending[p] = None
    /\ definitions[o.version] # None
    /\ <<o.fingerprint, o.payload>> \in Conforming
    /\ pending' = [pending EXCEPT ![p] = <<r, o>>]
    /\ UNCHANGED <<rows, head, definitions>>

\* Mutant: AddAccepted trusts the admission done before the transaction.
MutantSubmitAdd(p) ==
    /\ pending[p] # None
    /\ Add(pending[p][1], pending[p][2], TRUE)
    /\ pending' = [pending EXCEPT ![p] = None]
    /\ UNCHANGED definitions

\* backend.Add: AddAccepted with admitPersistedObservation, in one transaction.
SubmitAdd(p) ==
    /\ pending[p] # None
    /\ Admits(definitions, pending[p][2])
    /\ Add(pending[p][1], pending[p][2], TRUE)
    /\ pending' = [pending EXCEPT ![p] = None]
    /\ UNCHANGED definitions

\* The submission ends without a write: refused in the transaction, busy
\* database, cancelled request, or the process stopped.
SubmitFails(p) ==
    /\ pending[p] # None
    /\ pending' = [pending EXCEPT ![p] = None]
    /\ UNCHANGED <<rows, head, definitions>>

JournalNext ==
    \/ \E p \in Processes, r \in NativeRefs, x \in Payloads : Capture(p, r, x)
    \/ \E v \in Versions, f \in Fingerprints : Register(v, f)
    \/ \E p \in Processes, r \in WorkerRefs, o \in Observation :
          SubmitFind(p, r, o) \/ SubmitAcceptedFind(p, r, o)
    \/ \E p \in Processes : SubmitAdd(p) \/ SubmitFails(p)

JournalSpec == JournalInit /\ [][JournalNext]_journalVars
-----------------------------------------------------------------------------
\* SourceRepository.decode of the row of ref r succeeds.
Decodes(r) ==
    IF rows[r].accepted THEN r \in WorkerRefs /\ Admits(definitions, rows[r].value)
    ELSE (r \in NativeRefs) <=> (rows[r].value \in Payloads)

\* A row that cannot be decoded fails every List over it and so every window
\* that reaches it.  No interleaving of registrations and submissions makes
\* one: an accepted row conforms to the Definition stored for it, for ever.
JournalDecodes == \A r \in Stored : Decodes(r)
=============================================================================
