--------------------------- MODULE ReadinessProofs ---------------------------
(***************************************************************************)
(* The parts of Readiness keep their promises for any callers and workers: *)
(* first the database gate, the embedding transport and the cached probe   *)
(* by themselves, then the composition, every step of which is a step or a *)
(* stutter of each part.                                                   *)
(***************************************************************************)
EXTENDS Readiness, FiniteSetTheorems, TLAPS

\* Database.active counts the transactions between admit and release.
ActiveCounts == active = Cardinality(Inside)

\* CloseDrains compares the channel with the set of transactions, the code
\* with a counter: the count is what makes the invariant inductive.
GateInvariant ==
    /\ GateTypeOK
    /\ ActiveCounts
    /\ CloseDrains
    /\ PoolOutlivesWork

\* The transactions inside are finitely many, and none means a count of zero.
LEMMA InsideIsFinite ==
    ASSUME GateTypeOK
    PROVE  /\ IsFiniteSet(Inside)
           /\ Cardinality(Inside) \in Nat
           /\ Cardinality(Inside) = 0 <=> Inside = {}
<1>1. Inside \subseteq Clients
  BY DEF Inside
<1>2. IsFiniteSet(Inside)
  BY <1>1, ClientsAssumption, FS_Subset
<1> QED
  BY <1>2, FS_CardinalityType, FS_EmptySet

LEMMA InitEstablishes == GateInit => GateInvariant
<1> SUFFICES ASSUME GateInit PROVE GateInvariant
  OBVIOUS
<1>1. GateTypeOK
  BY DEF GateInit, GateTypeOK
<1>2. Inside = {}
  BY DEF GateInit, Inside
<1>3. ActiveCounts
  BY <1>2, FS_EmptySet DEF GateInit, ActiveCounts
<1> QED
  BY <1>1, <1>3 DEF GateInit, GateInvariant, CloseDrains, PoolOutlivesWork

\* admit: one more is inside and counted, and no Close is under way.
LEMMA AdmitPreserves ==
    ASSUME GateInvariant, NEW c \in Clients, Admit(c)
    PROVE  GateInvariant'
<1> USE DEF GateInvariant
<1>1. GateTypeOK'
  BY DEF GateTypeOK, Admit
<1>2. Inside' = Inside \cup {c} /\ c \notin Inside
  BY DEF Inside, Admit, GateTypeOK
<1>3. ActiveCounts'
  BY <1>2, InsideIsFinite, FS_AddElement DEF ActiveCounts, Admit
<1>4. CloseDrains'
  BY DEF CloseDrains, Admit, Admits
<1>5. PoolOutlivesWork'
  BY DEF PoolOutlivesWork, Admit, GateTypeOK
<1> QED
  BY <1>1, <1>3, <1>4, <1>5

\* release: one less is inside and counted, and the last one closes the channel
\* of a Close that waits.
LEMMA ReleasePreserves ==
    ASSUME GateInvariant, NEW c \in Clients, tx[c] # "out", Release(c)
    PROVE  GateInvariant'
<1> USE DEF GateInvariant
<1>1. Inside' = Inside \ {c} /\ c \in Inside
  BY DEF Inside, Release, GateTypeOK
<1>2. /\ IsFiniteSet(Inside')
      /\ Cardinality(Inside') = Cardinality(Inside) - 1
      /\ Cardinality(Inside') \in Nat
      /\ Cardinality(Inside') = 0 <=> Inside' = {}
  BY <1>1, InsideIsFinite, FS_RemoveElement, FS_CardinalityType, FS_EmptySet
<1>3. active' = Cardinality(Inside')
  BY <1>2 DEF ActiveCounts, Release
<1>4. GateTypeOK'
  BY <1>2, <1>3 DEF GateTypeOK, Release
<1>5. CloseDrains'
  BY <1>1, <1>2, <1>3 DEF CloseDrains, Release
<1>6. PoolOutlivesWork'
  BY DEF PoolOutlivesWork, Release, GateTypeOK
<1> QED
  BY <1>3, <1>4, <1>5, <1>6 DEF ActiveCounts

\* Every step of a client or a closer keeps the invariant.
LEMMA StepPreserves == GateInvariant /\ [GateNext]_gateVars => GateInvariant'
<1> SUFFICES ASSUME GateInvariant, [GateNext]_gateVars PROVE GateInvariant'
  OBVIOUS
<1> USE DEF GateInvariant
<1>1. CASE UNCHANGED gateVars
  BY <1>1 DEF gateVars, GateTypeOK, ActiveCounts, CloseDrains, PoolOutlivesWork, Inside
<1>2. ASSUME NEW c \in Clients, Transaction(c) PROVE GateInvariant'
  <2>1. CASE Admit(c)
    BY <2>1, AdmitPreserves
  <2>2. CASE BeginTx(c)
    <3>1. Inside' = Inside
      BY <2>2 DEF BeginTx, Inside, GateTypeOK
    <3>2. GateTypeOK'
      BY <2>2 DEF BeginTx, GateTypeOK
    <3>3. ActiveCounts' /\ CloseDrains'
      BY <2>2, <3>1 DEF BeginTx, ActiveCounts, CloseDrains
    <3>4. PoolOutlivesWork'
      BY <2>2 DEF BeginTx, PoolOutlivesWork
    <3> QED
      BY <3>2, <3>3, <3>4
  <2>3. CASE BeginFails(c)
    BY <2>3, ReleasePreserves DEF BeginFails
  <2>4. CASE Finish(c)
    BY <2>4, ReleasePreserves DEF Finish
  <2> QED
    BY <1>2, <2>1, <2>2, <2>3, <2>4 DEF Transaction
<1>3. CASE CloseBegin
  <2>1. Inside' = Inside
    BY <1>3 DEF CloseBegin, Inside
  <2>2. GateTypeOK' /\ ActiveCounts' /\ PoolOutlivesWork'
    BY <1>3, <2>1 DEF CloseBegin, GateTypeOK, ActiveCounts, PoolOutlivesWork
  <2>3. active = 0 <=> Inside = {}
    BY InsideIsFinite DEF ActiveCounts
  <2>4. CloseDrains'
    BY <1>3, <2>1, <2>3 DEF CloseBegin, CloseDrains
  <2> QED
    BY <2>2, <2>4
<1>4. CASE CloseCancelled \/ ClosePool \/ ClosePoolFails
  <2>1. Inside' = Inside
    BY <1>4 DEF CloseCancelled, ClosePool, ClosePoolFails, Inside
  <2>2. GateTypeOK' /\ ActiveCounts' /\ CloseDrains'
    BY <1>4, <2>1 DEF CloseCancelled, ClosePool, ClosePoolFails, Reopen, GateTypeOK,
                      ActiveCounts, CloseDrains
  <2>3. PoolOutlivesWork'
    BY <1>4 DEF CloseCancelled, ClosePool, ClosePoolFails, PoolOutlivesWork,
                CloseDrains, Inside
  <2> QED
    BY <2>2, <2>3
<1> QED
  BY <1>1, <1>2, <1>3, <1>4 DEF GateNext, Close

\* The inductive invariant holds in every state of the gate.
THEOREM GateIsInvariant == GateSpec => []GateInvariant
<1> QED
  BY InitEstablishes, StepPreserves, PTL DEF GateSpec

\* However transactions, cancelled, failed and repeated Closes interleave, the
\* pool is never closed under a transaction that has begun.
THEOREM PoolIsDrained == GateSpec => []PoolOutlivesWork
<1>1. GateInvariant => PoolOutlivesWork
  BY DEF GateInvariant
<1> QED
  BY <1>1, GateIsInvariant, PTL

\* Close waits exactly as long as a transaction is inside, and leaves no trace
\* in the admission state when it does not succeed.
THEOREM CloseIsExact == GateSpec => []CloseDrains
<1>1. GateInvariant => CloseDrains
  BY DEF GateInvariant
<1> QED
  BY <1>1, GateIsInvariant, PTL
-----------------------------------------------------------------------------
\* A closed transport has no workers at all, queued ones included: one of them
\* would initialise a new session.
EmbeddingInvariant ==
    /\ work \in [Workers -> {"free", "queued", "initialising", "running"}]
    /\ \A w \in Workers : work[w] = "running" => session = "live"
    /\ destroyed => session # "live" /\ \A w \in Workers : work[w] = "free"

LEMMA EmbeddingInductive ==
    /\ EmbeddingInit => EmbeddingInvariant
    /\ EmbeddingInvariant /\ [EmbeddingNext]_embeddingVars => EmbeddingInvariant'
<1>1. EmbeddingInit => EmbeddingInvariant
  BY DEF EmbeddingInit, EmbeddingInvariant
<1>2. ASSUME EmbeddingInvariant, [EmbeddingNext]_embeddingVars
      PROVE  EmbeddingInvariant'
  <2> USE <1>2 DEF EmbeddingInvariant
  <2>1. CASE UNCHANGED embeddingVars
    BY <2>1 DEF embeddingVars
  <2>2. CASE EmbeddingCloseBegin
    BY <2>2 DEF EmbeddingCloseBegin
  <2>3. CASE Destroy
    BY <2>3 DEF Destroy
  <2>4. ASSUME NEW w \in Workers, Work(w) PROVE EmbeddingInvariant'
    <3>1. CASE Submit(w)
      BY <3>1 DEF Submit, EmbedAdmits
    <3>2. CASE Enter(w)
      BY <3>2 DEF Enter
    <3>3. CASE Initialised(w)
      BY <3>3 DEF Initialised
    <3>4. CASE NativeReturns(w) \/ QueueLeft(w)
      BY <3>4 DEF NativeReturns, QueueLeft, Leave
    <3>5. CASE Abandon(w)
      BY <3>5 DEF Abandon
    <3> QED
      BY <2>4, <3>1, <3>2, <3>3, <3>4, <3>5 DEF Work
  <2> QED
    BY <2>1, <2>2, <2>3, <2>4 DEF EmbeddingNext
<1> QED
  BY <1>1, <1>2

\* The transport alone: no native call without its session, whatever callers
\* give up and however often Close is called.
THEOREM TransportIsSafe == EmbeddingSpec => []SessionOutlivesCalls
<1>1. EmbeddingInvariant => SessionOutlivesCalls
  BY DEF EmbeddingInvariant, SessionOutlivesCalls, InNative
<1> QED
  BY <1>1, EmbeddingInductive, PTL DEF EmbeddingSpec
-----------------------------------------------------------------------------
LEMMA ProbeInductive ==
    /\ ProbeInit => ProbeTypeOK /\ OneRefresh
    /\ ProbeTypeOK /\ OneRefresh /\ [ProbeNext]_probeVars => ProbeTypeOK' /\ OneRefresh'
<1>1. ProbeInit => ProbeTypeOK /\ OneRefresh
  BY ReadinessAssumption DEF ProbeInit, ProbeTypeOK, OneRefresh
<1>2. ASSUME ProbeTypeOK, OneRefresh, [ProbeNext]_probeVars
      PROVE  ProbeTypeOK' /\ OneRefresh'
  <2> USE <1>2, ReadinessAssumption DEF ProbeTypeOK, OneRefresh
  <2>1. CASE UNCHANGED probeVars
    BY <2>1 DEF probeVars
  <2>2. CASE Expire
    BY <2>2 DEF Expire
  <2>3. ASSUME NEW c \in Callers, Probe(c) PROVE ProbeTypeOK' /\ OneRefresh'
    <3>1. CASE ProbeBegin(c) \/ Hit(c) \/ StopWaiting(c)
      BY <3>1 DEF ProbeBegin, Hit, StopWaiting
    <3>2. CASE Join(c)
      BY <3>2 DEF Join
    <3>3. CASE Refresh(c)
      BY <3>3 DEF Refresh
    <3>4. ASSUME NEW outcome \in {"ready", "failed", "error"}, Refreshed(c, outcome)
          PROVE  ProbeTypeOK' /\ OneRefresh'
      BY <3>4 DEF Refreshed
    <3> QED
      BY <2>3, <3>1, <3>2, <3>3, <3>4 DEF Probe
  <2> QED
    BY <2>1, <2>2, <2>3 DEF ProbeNext
<1> QED
  BY <1>1, <1>2

\* The cached probe alone: refreshes are collapsed into one, and nobody waits
\* for a refresh that is over.
THEOREM RefreshesCollapse == ProbeSpec => []OneRefresh
<1> QED
  BY ProbeInductive, PTL DEF ProbeSpec
-----------------------------------------------------------------------------
\* A call waits for the result of a worker, or for none.
AskedOK == asked \in [Callers -> Workers \cup {None}]

LEMMA AskedInductive ==
    /\ Init => AskedOK
    /\ AskedOK /\ [Next]_vars => AskedOK'
<1> USE DEF AskedOK, callVars
<1>1. Init => AskedOK
  BY DEF Init
<1>2. ASSUME AskedOK, [Next]_vars PROVE AskedOK'
  <2> USE <1>2
  <2>1. CASE UNCHANGED vars
    BY <2>1 DEF vars
  <2>2. ASSUME NEW c \in Callers, Embed(c) PROVE AskedOK'
    <3>1. CASE ProbeLooks(c) \/ WaitCancelled(c)
      BY <3>1 DEF ProbeLooks, WaitCancelled
    <3>2. CASE EmbedSubmits(c)
      BY <3>2 DEF EmbedSubmits
    <3>3. CASE EmbedRefused(c) \/ EmbedGivesUp(c) \/ WorkerAnswers(c)
      BY <3>3 DEF EmbedRefused, EmbedGivesUp, WorkerAnswers, ProbeEnds
    <3> QED
      BY <2>2, <3>1, <3>2, <3>3 DEF Embed
  <2>3. ASSUME NEW c \in Callers, Begin(c) \/ Cancel(c) \/ Ping(c) \/ Return(c)
        PROVE  AskedOK'
    BY <2>3 DEF Begin, Cancel, Ping, PingMoves, PingEnds, Return
  <2>4. ASSUME NEW w \in Workers, WorkerMoves(w) \/ OrphanEnds(w) PROVE AskedOK'
    BY <2>4 DEF WorkerMoves, OrphanEnds
  <2>5. CASE OutcomeExpires \/ ShutdownBegins \/ EmbeddingCloses
             \/ EmbeddingCloseCancelled \/ DatabaseCloses
    BY <2>5 DEF OutcomeExpires, ShutdownBegins, EmbeddingCloses,
                EmbeddingCloseCancelled, DatabaseCloses
  <2> QED
    BY <2>1, <2>2, <2>3, <2>4, <2>5 DEF Next
<1> QED
  BY <1>1, <1>2

\* Every step of the composition is a step or a stutter of each part.
LEMMA StepsProject ==
    ASSUME AskedOK, [Next]_vars
    PROVE  /\ [GateNext]_gateVars
           /\ [EmbeddingNext]_embeddingVars
           /\ [ProbeNext]_probeVars
<1> DEFINE Parts == /\ GateNext \/ UNCHANGED gateVars
                    /\ EmbeddingNext \/ UNCHANGED embeddingVars
                    /\ ProbeNext \/ UNCHANGED probeVars
<1>1. CASE UNCHANGED vars
  BY <1>1 DEF vars
<1>2. ASSUME NEW c \in Callers, Ping(c) PROVE Parts
  <2>1. (\E d \in Clients : Transaction(d)) \/ UNCHANGED gateVars
    BY <1>2, ReadinessAssumption DEF Ping, PingMoves, PingEnds, Transaction
  <2>2. UNCHANGED embeddingVars /\ UNCHANGED probeVars
    BY <1>2 DEF Ping, PingMoves, PingEnds
  <2> QED
    BY <2>1, <2>2 DEF GateNext
<1>3. ASSUME NEW c \in Callers, Embed(c) PROVE Parts
  <2>1. UNCHANGED gateVars
    BY <1>3 DEF Embed, ProbeLooks, WaitCancelled, EmbedSubmits, EmbedRefused,
                EmbedGivesUp, WorkerAnswers, ProbeEnds
  <2>2. (\E w \in Workers : Work(w)) \/ UNCHANGED embeddingVars
    <3>1. asked[c] # None => asked[c] \in Workers
      BY DEF AskedOK
    <3> QED
      BY <1>3, <3>1 DEF Embed, ProbeLooks, WaitCancelled, EmbedSubmits, EmbedRefused,
                        EmbedGivesUp, WorkerAnswers, Work
  <2>3. Probe(c) \/ UNCHANGED probeVars
    <3>1. \A r \in Outcomes : Outcome(c, r) \in {"ready", "failed", "error"}
      BY DEF Outcomes, Outcome
    <3>2. ASSUME NEW r \in Outcomes, ProbeEnds(c, r) PROVE Probe(c)
      BY <3>1, <3>2 DEF ProbeEnds, Probe
    <3>3. CASE EmbedRefused(c) \/ EmbedGivesUp(c) \/ WorkerAnswers(c)
      BY <3>2, <3>3 DEF EmbedRefused, EmbedGivesUp, WorkerAnswers, Outcomes
    <3>4. CASE ProbeLooks(c) \/ WaitCancelled(c) \/ EmbedSubmits(c)
      BY <3>4 DEF ProbeLooks, WaitCancelled, EmbedSubmits, Probe
    <3> QED
      BY <1>3, <3>3, <3>4 DEF Embed
  <2> QED
    BY <2>1, <2>2, <2>3 DEF EmbeddingNext, ProbeNext
<1>4. ASSUME NEW c \in Callers, Begin(c) \/ Cancel(c) \/ Return(c) PROVE Parts
  <2>1. UNCHANGED gateVars /\ UNCHANGED embeddingVars
    BY <1>4 DEF Begin, Cancel, Return
  <2>2. Probe(c) \/ UNCHANGED probeVars
    BY <1>4 DEF Begin, Cancel, Return, Probe
  <2> QED
    BY <2>1, <2>2 DEF ProbeNext
<1>5. ASSUME NEW w \in Workers, WorkerMoves(w) \/ OrphanEnds(w) PROVE Parts
  <2>1. UNCHANGED gateVars /\ UNCHANGED probeVars
    BY <1>5 DEF WorkerMoves, OrphanEnds
  <2>2. Work(w)
    BY <1>5 DEF WorkerMoves, OrphanEnds, Work
  <2> QED
    BY <2>1, <2>2 DEF EmbeddingNext
<1>6. CASE OutcomeExpires
  BY <1>6 DEF OutcomeExpires, ProbeNext
<1>7. CASE ShutdownBegins \/ EmbeddingCloses \/ EmbeddingCloseCancelled \/ DatabaseCloses
  BY <1>7 DEF ShutdownBegins, EmbeddingCloses, EmbeddingCloseCancelled, DatabaseCloses,
              GateNext, Close, EmbeddingNext
<1> QED
  BY <1>1, <1>2, <1>3, <1>4, <1>5, <1>6, <1>7 DEF Next

\* Readiness implements its parts: whatever they promise by themselves holds
\* for readiness calls that race with the shutdown of the Server.
THEOREM ReadinessImplementsParts == Spec => GateSpec /\ EmbeddingSpec /\ ProbeSpec
<1>1. Init => GateInit /\ EmbeddingInit /\ ProbeInit
  BY DEF Init
<1> QED
  BY <1>1, AskedInductive, StepsProject, PTL DEF Spec, GateSpec, EmbeddingSpec, ProbeSpec

\* No pool is closed under a Ping and no session under a native call.
THEOREM DependenciesOutliveWork == Spec => [](PoolOutlivesWork /\ SessionOutlivesCalls)
<1> QED
  BY ReadinessImplementsParts, PoolIsDrained, TransportIsSafe, PTL

-----------------------------------------------------------------------------
\* A call that began on a closed database finds it closed, and its Ping cannot
\* have succeeded: the drain left no transaction inside, and none is admitted.
LateInvariant ==
    /\ late \in [Callers -> BOOLEAN] /\ running \in [Callers -> BOOLEAN]
    /\ ping \in [Callers -> Outcomes \cup {"none"}]
    /\ closed => \A c \in Callers : tx[c] = "out"
    /\ \A c \in Callers : ~running[c] => ping[c] = "none"
    /\ \A c \in Callers : late[c] => closed /\ ping[c] # "ready"

LEMMA LateInductive ==
    /\ Init => LateInvariant
    /\ GateInvariant /\ LateInvariant /\ [Next]_vars => LateInvariant'
<1>1. Init => LateInvariant
  BY DEF Init, GateInit, LateInvariant
<1>2. ASSUME GateInvariant, LateInvariant, [Next]_vars PROVE LateInvariant'
  <2> USE <1>2 DEF LateInvariant
  <2>1. CASE UNCHANGED <<closed, tx, late, running, ping>>
    BY <2>1
  <2>2. ASSUME NEW c \in Callers, Begin(c) PROVE LateInvariant'
    <3>1. /\ running' = [running EXCEPT ![c] = TRUE] /\ late' = [late EXCEPT ![c] = closed]
          /\ UNCHANGED <<closed, tx, ping>> /\ ping[c] = "none" /\ closed \in BOOLEAN
      BY <2>2 DEF Begin, gateVars, GateInvariant, GateTypeOK
    <3> QED
      BY <3>1
  <2>3. ASSUME NEW c \in Callers, Return(c) PROVE LateInvariant'
    <3>1. /\ running' = [running EXCEPT ![c] = FALSE] /\ late' = [late EXCEPT ![c] = FALSE]
          /\ ping' = [ping EXCEPT ![c] = "none"] /\ UNCHANGED <<closed, tx>>
      BY <2>3 DEF Return, gateVars
    <3> QED
      BY <3>1
  <2>4. ASSUME NEW c \in Callers, PingMoves(c) PROVE LateInvariant'
    <3>1. Admit(c) \/ BeginTx(c)
      BY <2>4 DEF PingMoves
    <3>2. ~closed /\ UNCHANGED <<closed, late, running, ping>>
      BY <2>4, <3>1 DEF PingMoves, Admit, Admits, BeginTx, callVars
    <3> QED
      BY <3>2
  <2>5. ASSUME NEW c \in Callers, PingEnds(c) PROVE LateInvariant'
    <3>1. running[c] /\ UNCHANGED <<late, running>>
      BY <2>5 DEF PingEnds
    <3>2. CASE tx[c] = "out"
      <4>1. ping' = [ping EXCEPT ![c] = "failed"] /\ UNCHANGED <<closed, tx>>
        BY <2>5, <3>2 DEF PingEnds, BeginFails, Finish, gateVars
      <4> QED
        BY <3>1, <4>1 DEF Outcomes
    <3>3. CASE tx[c] # "out"
      <4>1. ~closed /\ UNCHANGED closed
        BY <2>5, <3>3 DEF PingEnds, BeginFails, Finish, Release
      <4>2. \E r \in Outcomes : ping' = [ping EXCEPT ![c] = r]
        BY <2>5 DEF PingEnds, Outcomes
      <4> QED
        BY <3>1, <4>1, <4>2
    <3> QED
      BY <3>2, <3>3
  <2>6. CASE DatabaseCloses
    <3>1. UNCHANGED <<tx, late, running, ping>> /\ (closed => closed')
      BY <2>6 DEF DatabaseCloses, CloseCancelled, ClosePool, ClosePoolFails, callVars
    <3>2. closed' # closed => drained = "closed" /\ closer = "draining"
      BY <2>6 DEF DatabaseCloses, CloseCancelled, ClosePool, ClosePoolFails
    <3>3. drained = "closed" /\ closer = "draining" => \A c \in Callers : tx[c] = "out"
      BY ReadinessAssumption DEF GateInvariant, CloseDrains, Inside
    <3>4. closed \in BOOLEAN /\ closed' \in BOOLEAN
      BY <2>6 DEF DatabaseCloses, CloseCancelled, ClosePool, ClosePoolFails, GateInvariant, GateTypeOK
    <3> QED
      BY <3>1, <3>2, <3>3, <3>4
  <2>7. ASSUME NEW c \in Callers, Cancel(c) \/ Embed(c)
        PROVE  UNCHANGED <<closed, tx, late, running, ping>>
    BY <2>7 DEF Cancel, Embed, ProbeLooks, WaitCancelled, EmbedSubmits, EmbedRefused,
                EmbedGivesUp, WorkerAnswers, ProbeEnds, gateVars
  <2>8. ASSUME NEW w \in Workers, WorkerMoves(w) \/ OrphanEnds(w)
        PROVE  UNCHANGED <<closed, tx, late, running, ping>>
    BY <2>8 DEF WorkerMoves, OrphanEnds, gateVars, callVars
  <2>9. CASE OutcomeExpires \/ ShutdownBegins \/ EmbeddingCloses \/ EmbeddingCloseCancelled
    BY <2>1, <2>9 DEF OutcomeExpires, ShutdownBegins, EmbeddingCloses, EmbeddingCloseCancelled,
                CloseBegin, gateVars, callVars
  <2>10. CASE UNCHANGED vars
    BY <2>1, <2>10 DEF vars, gateVars, callVars
  <2> QED
    BY <2>1, <2>2, <2>3, <2>4, <2>5, <2>6, <2>7, <2>8, <2>9, <2>10 DEF Next, Ping
<1> QED
  BY <1>1, <1>2

\* getReadiness never calls a closed Server ready or degraded: the verdict of a
\* call that began after the database was closed is an error or "not ready".
THEOREM ClosedServerIsNotReady == Spec => ClosedIsNotReady
<1>1. Spec => []GateInvariant
  BY ReadinessImplementsParts, GateIsInvariant, PTL
<1>2. Spec => []LateInvariant
  BY <1>1, LateInductive, PTL DEF Spec
<1>3. LateInvariant => \A c \in Callers : late[c] => Verdict(c) \in {"error", "not ready"}
  BY DEF LateInvariant, Verdict
<1>4. LateInvariant => [\A c \in Callers : Return(c) /\ late[c] =>
                            Verdict(c) \in {"error", "not ready"}]_vars
  BY <1>3
<1> QED
  BY <1>2, <1>4, PTL DEF ClosedIsNotReady
=============================================================================
