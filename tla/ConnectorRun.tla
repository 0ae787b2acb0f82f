---------------------------- MODULE ConnectorRun ----------------------------
(***************************************************************************)
(* Connector runs over one binding and the checkpoint they share           *)
(* (src/source/connector_lifecycle.go,                                     *)
(* src/internal/runtime/connector_lifecycle.go and                         *)
(* connector_checkpoint_application.go,                                    *)
(* src/internal/sqlstore/connector_checkpoints.go).                        *)
(*                                                                         *)
(* The provider's items are numbered and a checkpoint value n says that    *)
(* the items 1..n need not be fetched again; 0 is the JSON null.  A run    *)
(* loads the checkpoint, lets the Connector submit or refuse items from    *)
(* any of its goroutines, drains the session and saves the checkpoint the  *)
(* Connector proposed.  A remote worker does the same through the          *)
(* checkpoint and ingestion endpoints, one request at a time.              *)
(***************************************************************************)
EXTENDS Integers, FiniteSets

CONSTANTS
    Runs,           \* concurrent runs of the lifecycle, in any process
    Workers,        \* remote workers
    Items,          \* bound: items of the provider, numbered from 1
    AwaitsRefusals, \* whether the Connector awaits its Reject and Fail calls
    Absent          \* no checkpoint row

ASSUME ConnectorAssumption ==
    /\ Items \in Nat
    /\ AwaitsRefusals \in BOOLEAN
    /\ Absent \notin Nat

VARIABLES
    checkpoint,  \* pc_connector_checkpoints: the row of the binding
    sources,     \* the items whose Source is durably stored
    phase,       \* where ConnectorLifecycleApplication.Run stands
    previous,    \* the checkpoint the run loaded
    proposed,    \* the checkpoint the Connector proposes, Absent before
    complete,    \* the run status the Connector reported
    item,        \* the state of each item of the session
    failure,     \* session.failure is set
    inFlight,    \* session.inFlight
    drained,     \* session.drained is closed
    worker       \* what each remote worker knows

session == <<phase, previous, proposed, complete, item, failure, inFlight, drained>>

vars == <<checkpoint, sources, session, worker>>

Ids == 1..Items

Checkpoints == {Absent} \cup 0..Items

(* Transports show an absent row as the JSON null. *)
Wire(value) == IF value = Absent THEN 0 ELSE value

(***************************************************************************)
(* What an item of a session goes through.  A submission is claimed, then  *)
(* stored or not by the sink, then recorded and settled; a refusal         *)
(* (Reject, Fail) is claimed and then recorded.                            *)
(***************************************************************************)
ItemStates == {"new", "submitting", "stored", "refused by sink", "accepted",
               "refusing", "unsafe", "failed"}

Claimed(r) == {i \in Ids : item[r][i] # "new"}

Open(r) == phase[r] = "running"

Fresh == [i \in Ids |-> "new"]

Idle == [at |-> "idle", expected |-> 0, actual |-> Absent, next |-> 0]

Init ==
    /\ checkpoint = Absent
    /\ sources = {}
    /\ phase = [r \in Runs |-> "idle"]
    /\ previous = [r \in Runs |-> Absent]
    /\ proposed = [r \in Runs |-> Absent]
    /\ complete = [r \in Runs |-> FALSE]
    /\ item = [r \in Runs |-> Fresh]
    /\ failure = [r \in Runs |-> FALSE]
    /\ inFlight = [r \in Runs |-> 0]
    /\ drained = [r \in Runs |-> FALSE]
    /\ worker = [w \in Workers |-> Idle]

-----------------------------------------------------------------------------
(* Run loads the checkpoint and opens a session over it. *)
Load(r) ==
    /\ phase[r] = "idle"
    /\ phase' = [phase EXCEPT ![r] = "running"]
    /\ previous' = [previous EXCEPT ![r] = checkpoint]
    /\ UNCHANGED <<checkpoint, sources, proposed, complete, item, failure,
                   inFlight, drained, worker>>

(***************************************************************************)
(* claim: one item, once, while the session is open; only a submission     *)
(* counts as in flight.  A Connector asks for items after its checkpoint.  *)
(***************************************************************************)
Claim(r, i, state, tracked) ==
    /\ Open(r)
    /\ item[r][i] = "new"
    /\ i > Wire(previous[r])
    /\ item' = [item EXCEPT ![r][i] = state]
    /\ inFlight' = [inFlight EXCEPT ![r] = @ + tracked]
    /\ UNCHANGED <<checkpoint, sources, phase, previous, proposed, complete,
                   failure, drained, worker>>

Submit(r, i) == Claim(r, i, "submitting", 1)

Refuse(r, i) == Claim(r, i, "refusing", 0)

(* A claim of an item already claimed is a failure of the session. *)
ClaimFails(r, i) ==
    /\ Open(r)
    /\ item[r][i] # "new"
    /\ ~failure[r]
    /\ failure' = [failure EXCEPT ![r] = TRUE]
    /\ UNCHANGED <<checkpoint, sources, phase, previous, proposed, complete,
                   item, inFlight, drained, worker>>

(* The sink stores the Source in a transaction of its own, *)
SinkStores(r, i) ==
    /\ item[r][i] = "submitting"
    /\ sources' = sources \cup {i}
    /\ item' = [item EXCEPT ![r][i] = "stored"]
    /\ UNCHANGED <<checkpoint, phase, previous, proposed, complete, failure,
                   inFlight, drained, worker>>

(* or reports the observation as rejected. *)
SinkRejects(r, i) ==
    /\ item[r][i] = "submitting"
    /\ item' = [item EXCEPT ![r][i] = "refused by sink"]
    /\ UNCHANGED <<checkpoint, sources, phase, previous, proposed, complete,
                   failure, inFlight, drained, worker>>

(* Mutant: the last submission to settle wakes nobody. *)
MutantFinishDrain(r, closed, count) ==
    closed /\ count = 0 /\ Claimed(r) = {}

(* finishDrainLocked: the drained channel is closed with the last settlement. *)
FinishDrain(r, closed, count) == closed /\ count = 0

(* settleSubmission, deferred by Submit. *)
Settle(r) ==
    /\ inFlight' = [inFlight EXCEPT ![r] = @ - 1]
    /\ drained' = [drained EXCEPT ![r] =
          @ \/ FinishDrain(r, ~Open(r), inFlight[r] - 1)]

(* Submit records the outcome and settles. *)
Record(r, i) ==
    /\ item[r][i] \in {"stored", "refused by sink"}
    /\ item' = [item EXCEPT ![r][i] =
          IF @ = "stored" THEN "accepted" ELSE "unsafe"]
    /\ Settle(r)
    /\ UNCHANGED <<checkpoint, sources, phase, previous, proposed, complete,
                   failure, worker>>

(* Any other error of the sink is the session's failure; the item settles. *)
SinkFails(r, i) ==
    /\ item[r][i] = "submitting"
    /\ item' = [item EXCEPT ![r][i] = "failed"]
    /\ failure' = [failure EXCEPT ![r] = TRUE]
    /\ Settle(r)
    /\ UNCHANGED <<checkpoint, sources, phase, previous, proposed, complete,
                   worker>>

(* recordUnsafe records the outcome of a Reject or a Fail. *)
RecordRefusal(r, i) ==
    /\ item[r][i] = "refusing"
    /\ item' = [item EXCEPT ![r][i] = "unsafe"]
    /\ UNCHANGED <<checkpoint, sources, phase, previous, proposed, complete,
                   failure, inFlight, drained, worker>>

-----------------------------------------------------------------------------
(***************************************************************************)
(* Connector.Run returns and Finalize closes the session.  The Connector   *)
(* proposes to have passed items it has claimed; submissions may still be  *)
(* in flight.                                                              *)
(***************************************************************************)
Return(r, status, value) ==
    /\ Open(r)
    /\ value >= Wire(previous[r])
    /\ (Wire(previous[r]) + 1)..value \subseteq Claimed(r)
    /\ AwaitsRefusals => \A i \in Ids : item[r][i] # "refusing"
    /\ phase' = [phase EXCEPT ![r] = "draining"]
    /\ proposed' = [proposed EXCEPT ![r] = value]
    /\ complete' = [complete EXCEPT ![r] = status]
    /\ drained' = [drained EXCEPT ![r] = FinishDrain(r, TRUE, inFlight[r])]
    /\ UNCHANGED <<checkpoint, sources, previous, item, failure, inFlight, worker>>

(* Run returns: its local values are gone, the session lives on. *)
Ends(r) ==
    /\ phase' = [phase EXCEPT ![r] = "ended"]
    /\ previous' = [previous EXCEPT ![r] = Absent]
    /\ proposed' = [proposed EXCEPT ![r] = Absent]
    /\ complete' = [complete EXCEPT ![r] = FALSE]

Goes(r, to) ==
    /\ phase' = [phase EXCEPT ![r] = to]
    /\ UNCHANGED <<previous, proposed, complete>>

(* Run ends without a result: the Connector failed or the Context is done. *)
Abort(r) ==
    /\ phase[r] \in {"running", "draining", "drained", "deciding", "saving"}
    /\ Ends(r)
    /\ drained' = [drained EXCEPT ![r] =
          @ \/ FinishDrain(r, TRUE, inFlight[r])]
    /\ UNCHANGED <<checkpoint, sources, item, failure, inFlight, worker>>

Keeps == UNCHANGED <<checkpoint, sources, item, failure, inFlight, drained, worker>>

(* Finalize returns once the session is drained, *)
Drain(r) ==
    /\ phase[r] = "draining"
    /\ drained[r]
    /\ Goes(r, "drained")
    /\ Keeps

(* then the first failure is read, *)
CheckFailure(r) ==
    /\ phase[r] = "drained"
    /\ IF failure[r] THEN Ends(r) ELSE Goes(r, "deciding")
    /\ Keeps

(* Mutant: an unsafe item only degrades the reported status. *)
MutantAdvances(r) == complete[r] /\ previous[r] # proposed[r]

(* then the outcomes: no item is unsafe, the run is complete, the value new. *)
Advances(r) ==
    /\ \A i \in Ids : item[r][i] # "unsafe"
    /\ complete[r]
    /\ previous[r] # proposed[r]

Decide(r) ==
    /\ phase[r] = "deciding"
    /\ IF Advances(r) THEN Goes(r, "saving") ELSE Ends(r)
    /\ Keeps

(* Mutant: the row is replaced whatever it holds. *)
MutantSave(value, expected) ==
    checkpoint' = value

(***************************************************************************)
(* ConnectorCheckpointRepository.Save: the insert of a new row or the      *)
(* update of a row that still holds the expected value; otherwise a        *)
(* conflict.                                                               *)
(***************************************************************************)
Save(value, expected) ==
    checkpoint' = IF checkpoint = expected THEN value ELSE checkpoint

SaveRun(r) ==
    /\ phase[r] = "saving"
    /\ Save(proposed[r], previous[r])
    /\ Ends(r)
    /\ UNCHANGED <<sources, item, failure, inFlight, drained, worker>>

(* The next run starts when the calls of the last one are over. *)
Again(r) ==
    /\ phase[r] = "ended"
    /\ inFlight[r] = 0
    /\ \A i \in Ids : item[r][i] # "refusing"
    /\ phase' = [phase EXCEPT ![r] = "idle"]
    /\ item' = [item EXCEPT ![r] = Fresh]
    /\ failure' = [failure EXCEPT ![r] = FALSE]
    /\ drained' = [drained EXCEPT ![r] = FALSE]
    /\ UNCHANGED <<checkpoint, sources, previous, proposed, complete, inFlight,
                   worker>>

-----------------------------------------------------------------------------
(* ConnectorCheckpointApplication.Get, seen by a remote worker. *)
WorkerGets(w) ==
    /\ worker[w].at = "idle"
    /\ worker' = [worker EXCEPT ![w].at = "working",
                                ![w].expected = Wire(checkpoint),
                                ![w].next = Wire(checkpoint)]
    /\ UNCHANGED <<checkpoint, sources, session>>

(* The worker submits the next item and has its receipt. *)
WorkerSubmits(w) ==
    /\ worker[w].at = "working"
    /\ worker[w].next < Items
    /\ sources' = sources \cup {worker[w].next + 1}
    /\ worker' = [worker EXCEPT ![w].next = @ + 1]
    /\ UNCHANGED <<checkpoint, session>>

(***************************************************************************)
(* ConnectorCheckpointApplication.Commit: under the Scope's write lock,    *)
(* which runs and other processes do not take, the row is loaded and       *)
(* compared with what the worker expects,                                  *)
(***************************************************************************)
CommitLoads(w) ==
    /\ worker[w].at = "working"
    /\ worker' = [worker EXCEPT ![w] =
                     IF Wire(checkpoint) = worker[w].expected
                       THEN [@ EXCEPT !.at = "committing", !.actual = checkpoint]
                       ELSE Idle]
    /\ UNCHANGED <<checkpoint, sources, session>>

(* and the loaded row is the expectation of the save. *)
CommitSaves(w) ==
    /\ worker[w].at = "committing"
    /\ Save(worker[w].next, worker[w].actual)
    /\ worker' = [worker EXCEPT ![w] = Idle]
    /\ UNCHANGED <<sources, session>>

-----------------------------------------------------------------------------
Step(r) ==
    \/ \E i \in Ids : SinkStores(r, i) \/ SinkRejects(r, i) \/ SinkFails(r, i)
    \/ \E i \in Ids : Record(r, i) \/ RecordRefusal(r, i)
    \/ Drain(r)
    \/ CheckFailure(r)
    \/ Decide(r)
    \/ SaveRun(r)

Next ==
    \/ \E r \in Runs :
          \/ Load(r)
          \/ \E i \in Ids : Submit(r, i) \/ Refuse(r, i) \/ ClaimFails(r, i)
          \/ \E status \in BOOLEAN, value \in 0..Items : Return(r, status, value)
          \/ Step(r)
          \/ Abort(r)
          \/ Again(r)
    \/ \E w \in Workers :
          \/ WorkerGets(w)
          \/ WorkerSubmits(w)
          \/ CommitLoads(w)
          \/ CommitSaves(w)

Spec == Init /\ [][Next]_vars

(* A sink call returns, and the run takes its own steps. *)
FairSpec == Spec /\ \A r \in Runs : WF_vars(Step(r))

-----------------------------------------------------------------------------
(* Sessions, rows and workers have the types of the code. *)
TypeOK ==
    /\ checkpoint \in Checkpoints
    /\ sources \subseteq Ids
    /\ phase \in [Runs -> {"idle", "running", "draining", "drained",
                           "deciding", "saving", "ended"}]
    /\ previous \in [Runs -> Checkpoints]
    /\ proposed \in [Runs -> Checkpoints]
    /\ complete \in [Runs -> BOOLEAN]
    /\ item \in [Runs -> [Ids -> ItemStates]]
    /\ failure \in [Runs -> BOOLEAN]
    /\ inFlight \in [Runs -> Nat]
    /\ drained \in [Runs -> BOOLEAN]
    /\ worker \in [Workers -> [at : {"idle", "working", "committing"},
                               expected : 0..Items, actual : Checkpoints,
                               next : 0..Items]]

(***************************************************************************)
(* No item is lost: every item a checkpoint has passed is durably stored,  *)
(* whatever was rejected, failed, aborted or still in flight when its run  *)
(* returned, and whichever runs and workers raced for the row, provided    *)
(* the Connector awaits its own Reject and Fail calls (AwaitsRefusals).    *)
(***************************************************************************)
CheckpointIsCovered ==
    1..Wire(checkpoint) \subseteq sources

(***************************************************************************)
(* Save never undoes a later checkpoint: the row only moves forward and    *)
(* never disappears, although runs and workers save what they computed     *)
(* from rows they loaded long before.                                      *)
(***************************************************************************)
CheckpointOnlyAdvances ==
    [][checkpoint' # checkpoint =>
          checkpoint' # Absent /\ Wire(checkpoint) <= checkpoint']_vars

(***************************************************************************)
(* Finalize returns after the last submission has settled: a run that      *)
(* waits for its session to drain ends.                                    *)
(***************************************************************************)
RunsEnd ==
    \A r \in Runs : phase[r] = "draining" ~> phase[r] = "ended"

=============================================================================
