------------------------------ MODULE Readiness ------------------------------
(***************************************************************************)
(* The readiness checks of the Server over the dependencies they probe:    *)
(* getReadiness runs a Ping of the database and the cached probe of the    *)
(* local embedding model concurrently and joins them, while the Server     *)
(* shuts both dependencies down.                                           *)
(*                                                                         *)
(* Runtime.Close closes its resources in reverse order, the embedding      *)
(* transport before the database, and gives up at the first error; a later *)
(* call starts over.  The Runtime also drains its operations first (module *)
(* RuntimeLifecycle).  That is left out here: calls may come at any time,  *)
(* so the gates of the dependencies are shown to hold by themselves.       *)
(***************************************************************************)
EXTENDS DatabaseGate, LocalEmbedding, CachedProbe

ASSUME ReadinessAssumption ==
    /\ Callers = Clients    \* a readiness call runs one transaction, its Ping
    /\ None \notin Callers \cup Workers

VARIABLES
    running,    \* running[c]: getReadiness of c has not returned
    cancelled,  \* cancelled[c]: the context of the request is done
    late,       \* late[c]: the database was closed when the call began
    ping,       \* ping[c]: "none", or the outcome of the database check
    embed,      \* embed[c]: the same for the embedding check
    asked,      \* asked[c]: the worker whose result Embed waits for, or None
    shutdown    \* Runtime.Close: "out", or the resource it closes

callVars == <<running, cancelled, late, ping, embed, asked>>
vars == <<gateVars, embeddingVars, probeVars, callVars, shutdown>>

Outcomes == {"ready", "failed"}

TypeOK ==
    /\ GateTypeOK
    /\ EmbeddingTypeOK
    /\ ProbeTypeOK
    /\ running \in [Callers -> BOOLEAN]
    /\ cancelled \in [Callers -> BOOLEAN]
    /\ late \in [Callers -> BOOLEAN]
    /\ ping \in [Callers -> Outcomes \cup {"none"}]
    /\ embed \in [Callers -> Outcomes \cup {"none", "error"}]
    /\ asked \in [Callers -> Workers \cup {None}]
    /\ shutdown \in {"out", "embedding", "database"}

Init ==
    /\ GateInit
    /\ EmbeddingInit
    /\ ProbeInit
    /\ running = [c \in Callers |-> FALSE]
    /\ cancelled = [c \in Callers |-> FALSE]
    /\ late = [c \in Callers |-> FALSE]
    /\ ping = [c \in Callers |-> "none"]
    /\ embed = [c \in Callers |-> "none"]
    /\ asked = [c \in Callers |-> None]
    /\ shutdown = "out"
-----------------------------------------------------------------------------
\* getReadiness, up to the start of the probes.
Begin(c) ==
    /\ ~running[c]
    /\ running' = [running EXCEPT ![c] = TRUE]
    /\ late' = [late EXCEPT ![c] = closed]
    /\ ProbeBegin(c)
    /\ UNCHANGED <<gateVars, embeddingVars, cancelled, ping, embed, asked, shutdown>>

\* The client goes away.
Cancel(c) ==
    /\ running[c]
    /\ ~cancelled[c]
    /\ cancelled' = [cancelled EXCEPT ![c] = TRUE]
    /\ UNCHANGED <<gateVars, embeddingVars, probeVars, running, late, ping, embed,
                   asked, shutdown>>

\* Mutant: a check that fails degrades, whether it is blocking or not.
MutantVerdict(c) ==
    IF cancelled[c] THEN "error"
    ELSE IF ping[c] # "ready" \/ embed[c] # "ready" THEN "degraded" ELSE "ready"

\* The status Run computes: the database check is blocking, the other is not.
Verdict(c) ==
    IF cancelled[c] THEN "error"
    ELSE IF ping[c] # "ready" THEN "not ready"
    ELSE IF embed[c] # "ready" THEN "degraded" ELSE "ready"

\* Both probes are joined.
Return(c) ==
    /\ ping[c] # "none"
    /\ embed[c] # "none"
    /\ running' = [running EXCEPT ![c] = FALSE]
    /\ cancelled' = [cancelled EXCEPT ![c] = FALSE]
    /\ late' = [late EXCEPT ![c] = FALSE]
    /\ ping' = [ping EXCEPT ![c] = "none"]
    /\ embed' = [embed EXCEPT ![c] = "none"]
    /\ UNCHANGED <<gateVars, embeddingVars, probeVars, asked, shutdown>>
-----------------------------------------------------------------------------
\* The database check: Ping within its own timeout.
PingMoves(c) ==
    /\ running[c]
    /\ ping[c] = "none"
    /\ Admit(c) \/ BeginTx(c)
    /\ UNCHANGED <<embeddingVars, probeVars, callVars, shutdown>>

PingEnds(c) ==
    /\ running[c]
    /\ ping[c] = "none"
    /\ \/ /\ tx[c] = "out" /\ ~Admits
          /\ ping' = [ping EXCEPT ![c] = "failed"]
          /\ UNCHANGED gateVars
       \/ BeginFails(c) /\ ping' = [ping EXCEPT ![c] = "failed"]
       \/ Finish(c) /\ \E r \in Outcomes : ping' = [ping EXCEPT ![c] = r]
    /\ UNCHANGED <<embeddingVars, probeVars, running, cancelled, late, embed, asked,
                   shutdown>>
-----------------------------------------------------------------------------
\* The embedding check looks at the cache.
ProbeLooks(c) ==
    /\ \/ Hit(c) /\ embed' = [embed EXCEPT ![c] = cached]
       \/ (Join(c) \/ Refresh(c)) /\ UNCHANGED embed
    /\ UNCHANGED <<gateVars, embeddingVars, running, cancelled, late, ping, asked,
                   shutdown>>

WaitCancelled(c) ==
    /\ cancelled[c]
    /\ StopWaiting(c)
    /\ embed' = [embed EXCEPT ![c] = "error"]
    /\ UNCHANGED <<gateVars, embeddingVars, running, cancelled, late, ping, asked,
                   shutdown>>

\* DependencyProbe: what Embed's result means to the cache.
Outcome(c, r) == IF r = "ready" THEN r ELSE IF cancelled[c] THEN "error" ELSE r

\* The probe of c ends with result r of Embed.
ProbeEnds(c, r) ==
    /\ Refreshed(c, Outcome(c, r))
    /\ embed' = [embed EXCEPT ![c] = Outcome(c, r)]
    /\ asked' = [asked EXCEPT ![c] = None]
    /\ UNCHANGED <<gateVars, running, cancelled, late, ping, shutdown>>

\* Embed is admitted and starts a worker.
EmbedSubmits(c) ==
    /\ seat[c] = "probing"
    /\ asked[c] = None
    /\ \E w \in Workers : Submit(w) /\ asked' = [asked EXCEPT ![c] = w]
    /\ UNCHANGED <<gateVars, probeVars, running, cancelled, late, ping, embed, shutdown>>

\* Embed fails before it starts a worker: not admitted, or no time is left.
EmbedRefused(c) ==
    /\ seat[c] = "probing"
    /\ asked[c] = None
    /\ ProbeEnds(c, "failed")
    /\ UNCHANGED embeddingVars

\* Embed stops waiting: the probe's timeout, or the client is gone.
EmbedGivesUp(c) ==
    /\ asked[c] # None
    /\ Abandon(asked[c])
    /\ ProbeEnds(c, "failed")

\* A worker takes the token or gets its session.
WorkerMoves(w) ==
    /\ Enter(w) \/ Initialised(w)
    /\ UNCHANGED <<gateVars, probeVars, callVars, shutdown>>

\* A worker ends with nobody waiting for it.
OrphanEnds(w) ==
    /\ orphan[w]
    /\ NativeReturns(w) \/ QueueLeft(w)
    /\ UNCHANGED <<gateVars, probeVars, callVars, shutdown>>

\* A worker hands its result to the call that waits for it.
WorkerAnswers(c) ==
    /\ asked[c] # None
    /\ NativeReturns(asked[c])
    /\ \E r \in Outcomes :
        /\ work[asked[c]] = "initialising" => r = "failed"
        /\ ProbeEnds(c, r)

OutcomeExpires ==
    /\ Expire
    /\ UNCHANGED <<gateVars, embeddingVars, callVars, shutdown>>
-----------------------------------------------------------------------------
\* Runtime.Close reaches the embedding transport.
ShutdownBegins ==
    /\ shutdown = "out"
    /\ ~closed
    /\ \/ EmbeddingCloseBegin /\ shutdown' = "embedding" /\ UNCHANGED gateVars
       \/ destroyed /\ CloseBegin /\ shutdown' = "database" /\ UNCHANGED embeddingVars
    /\ UNCHANGED <<probeVars, callVars>>

\* The transport is closed; an error of it ends this call of Runtime.Close.
EmbeddingCloses ==
    /\ shutdown = "embedding"
    /\ Destroy
    /\ \/ CloseBegin /\ shutdown' = "database"
       \/ shutdown' = "out" /\ UNCHANGED gateVars
    /\ UNCHANGED <<probeVars, callVars>>

\* The context of Runtime.Close is done while workers are alive.
EmbeddingCloseCancelled ==
    /\ shutdown = "embedding"
    /\ shutdown' = "out"
    /\ UNCHANGED <<gateVars, embeddingVars, probeVars, callVars>>

DatabaseCloses ==
    /\ shutdown = "database"
    /\ CloseCancelled \/ ClosePool \/ ClosePoolFails
    /\ shutdown' = "out"
    /\ UNCHANGED <<embeddingVars, probeVars, callVars>>

Ping(c) == PingMoves(c) \/ PingEnds(c)

Embed(c) ==
    \/ ProbeLooks(c) \/ WaitCancelled(c) \/ EmbedSubmits(c) \/ EmbedRefused(c)
    \/ EmbedGivesUp(c) \/ WorkerAnswers(c)

Next ==
    \/ \E c \in Callers : Begin(c) \/ Cancel(c) \/ Ping(c) \/ Embed(c) \/ Return(c)
    \/ \E w \in Workers : WorkerMoves(w) \/ OrphanEnds(w)
    \/ OutcomeExpires
    \/ ShutdownBegins \/ EmbeddingCloses \/ EmbeddingCloseCancelled \/ DatabaseCloses

Spec == Init /\ [][Next]_vars

\* The goroutines of a call are scheduled and the timeouts of its probes fire.
\* Nothing is assumed of native calls: they need not return.
FairSpec ==
    /\ Spec
    /\ \A c \in Callers : WF_vars(Ping(c)) /\ WF_vars(Embed(c)) /\ WF_vars(Return(c))
-----------------------------------------------------------------------------
\* A call that begins after the database was closed never reports more than
\* "not ready", although outcomes of the embedding check are served from the
\* cache long after its transport is gone.
ClosedIsNotReady ==
    [][\A c \in Callers : Return(c) /\ late[c] =>
        Verdict(c) \in {"error", "not ready"}]_vars

\* Every readiness call returns, although a native call may hold the transport
\* for ever and callers wait for the refresh of another one without a timeout
\* of their own, provided that clients do not go away and outcomes do not
\* expire again and again while a caller is about to look.
ReadinessReturns ==
    <>[][~OutcomeExpires /\ \A c \in Callers : ~Cancel(c)]_vars =>
        \A c \in Callers : []<>~running[c]
=============================================================================
