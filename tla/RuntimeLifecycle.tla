-------------------------- MODULE RuntimeLifecycle --------------------------
(***************************************************************************)
(* Admission, per-Scope serialization, scheduled processing and shutdown   *)
(* of the Runtime (internal/runtime/lifecycle.go and                       *)
(* scheduled_processor.go) over the cache of write gates (ScopeCache).     *)
(*                                                                         *)
(* A caller runs Operation, ScopedRead or ScopedWrite.  The processor is   *)
(* the scheduler's loop goroutine, which runs the persisted jobs through   *)
(* BackgroundOperation one after the other.  A closer calls Close, which   *)
(* may fail or be cancelled at any of its steps and be called again.       *)
(* Every action is one critical section, one channel operation or one call *)
(* of the code; deferred releases are steps of their own.                  *)
(***************************************************************************)
EXTENDS ScopeCache

CONSTANTS
    Processor,      \* the goroutine of the scheduler loop
    Closers,        \* goroutines that call Close
    NumResources    \* len(Runtime.resources)

\* The goroutines that enter Scopes: the others serve the transports.
Threads == Holders
Callers == Holders \ {Processor}

Resources == 1..NumResources

ASSUME RuntimeAssumption ==
    /\ Processor \in Holders
    /\ None \notin Closers
    /\ NumResources \in Nat

VARIABLES
    closing, closed,    \* Runtime.closing, Runtime.closed
    active,             \* Runtime.active
    drained,            \* Runtime.drained: "nil", "open" or "closed"
    background,         \* the background semaphore holds its token
    pc,                 \* pc[t]: where thread t is
    kind, scope,        \* what t was asked to do, and on which Scope
    todo,               \* the Scopes the running job still has to visit
    loop,               \* the scheduler: "absent", "running", "paused", "closed"
    attached,           \* Runtime.scheduler # nil
    resource,           \* resource[r]: "open" or "closed"
    closeMu,            \* the closer that holds Runtime.closeMu, or None
    closer,             \* closer[c]: where Close is
    ctxDone,            \* ctxDone[c]: the context given to Close is done
    index               \* the resource Close handles next

gateVars == <<closing, closed, active, drained>>
threadVars == <<pc, kind, scope, todo, background>>
closeVars == <<resource, closeMu, closer, ctxDone, index>>
vars == <<cacheVars, gateVars, threadVars, loop, attached, closeVars>>

Kinds == {"none", "operation", "read", "write", "background"}
Phases == {"idle", "dispatched", "admitted", "listing", "visiting", "waiting",
           "running", "unleasing", "abandoning", "finishing", "leaving"}
CloserPhases == {"idle", "draining", "pausing", "stopping", "clearing", "resources"}

TypeOK ==
    /\ CacheTypeOK
    /\ closing \in BOOLEAN /\ closed \in BOOLEAN
    /\ active \in Nat
    /\ drained \in {"nil", "open", "closed"}
    /\ background \in BOOLEAN
    /\ pc \in [Threads -> Phases]
    /\ kind \in [Threads -> Kinds]
    /\ scope \in [Threads -> Scopes \cup {None}]
    /\ todo \subseteq Scopes
    /\ loop \in {"absent", "running", "paused", "closed"}
    /\ attached \in BOOLEAN
    /\ resource \in [Resources -> {"open", "closed"}]
    /\ closeMu \in Closers \cup {None}
    /\ closer \in [Closers -> CloserPhases]
    /\ ctxDone \in [Closers -> BOOLEAN]
    /\ index \in 0..NumResources

Init ==
    /\ CacheInit
    /\ closing = FALSE /\ closed = FALSE /\ active = 0 /\ drained = "nil"
    /\ background = TRUE
    /\ pc = [t \in Threads |-> "idle"]
    /\ kind = [t \in Threads |-> "none"]
    /\ scope = [t \in Threads |-> None]
    /\ todo = {}
    /\ loop = "absent" /\ attached = FALSE
    /\ resource = [r \in Resources |-> "open"]
    /\ closeMu = None
    /\ closer = [c \in Closers |-> "idle"]
    /\ ctxDone = [c \in Closers |-> FALSE]
    /\ index = 0
-----------------------------------------------------------------------------
(* Admission *)

Goto(t, phase) == pc' = [pc EXCEPT ![t] = phase]

\* isClosing, and the test of admit under stateMu.
Refusing == closing \/ closed

\* Mutant: admission looks at closed only.
MutantAdmit == ~closed /\ active' = active + 1 /\ UNCHANGED <<closing, closed, drained>>

admit == ~Refusing /\ active' = active + 1 /\ UNCHANGED <<closing, closed, drained>>

\* release closes the channel Close waits on when the last operation leaves.
release ==
    /\ active' = active - 1
    /\ drained' = IF active = 1 /\ closing /\ drained # "nil" THEN "closed" ELSE drained
    /\ UNCHANGED <<closing, closed>>

\* Operation, ScopedRead and ScopedWrite up to the admission.  A refused call
\* changes nothing.
Begin(t, k, s) ==
    /\ pc[t] = "idle"
    /\ admit
    /\ Goto(t, IF k = "operation" THEN "running" ELSE "admitted")
    /\ kind' = [kind EXCEPT ![t] = k]
    /\ scope' = [scope EXCEPT ![t] = s]
    /\ UNCHANGED <<cacheVars, todo, background, loop, attached, closeVars>>

\* resolveScope fails: the Scope is not registered, or the context is done.
ResolveFails(t) ==
    /\ pc[t] = "admitted"
    /\ kind[t] # "background"
    /\ Goto(t, "leaving")
    /\ UNCHANGED <<cacheVars, gateVars, kind, scope, todo, background, loop, attached, closeVars>>

EnterScope(t) ==
    /\ pc[t] = "admitted"
    /\ kind[t] # "background"
    /\ Lease(t, scope[t])
    /\ Goto(t, IF kind[t] = "read" THEN "running" ELSE "waiting")
    /\ UNCHANGED <<gateVars, kind, scope, todo, background, loop, attached, closeVars>>

\* scopeLease.acquire takes the token ...
LockScope(t) ==
    /\ pc[t] = "waiting"
    /\ Acquire(t)
    /\ Goto(t, "running")
    /\ UNCHANGED <<gateVars, kind, scope, todo, background, loop, attached, closeVars>>

\* ... or sees its context done: a caller's at any time, the processor's once
\* the scheduler is paused.
AbandonLock(t) ==
    /\ pc[t] = "waiting"
    /\ t = Processor => loop # "running"
    /\ Goto(t, "abandoning")
    /\ UNCHANGED <<cacheVars, gateVars, kind, scope, todo, background, loop, attached, closeVars>>

\* The callback has returned and the deferred releases run.
UnlockScope(t) ==
    /\ pc[t] = "running"
    /\ kind[t] \in {"write", "background"}
    /\ ReleaseToken(t)
    /\ Goto(t, "unleasing")
    /\ UNCHANGED <<gateVars, kind, scope, todo, background, loop, attached, closeVars>>

\* A job goes on to its next Scope unless the lock or the outcome was cancelled.
LeaveScope(t) ==
    /\ pc[t] \in {"unleasing", "abandoning"} \/ (pc[t] = "running" /\ kind[t] = "read")
    /\ ReleaseLease(t)
    /\ \/ kind[t] # "background" /\ Goto(t, "leaving")
       \/ kind[t] = "background" /\ pc[t] = "unleasing" /\ Goto(t, "visiting")
       \/ kind[t] = "background" /\ Goto(t, "finishing")
    /\ UNCHANGED <<gateVars, kind, scope, todo, background, loop, attached, closeVars>>

Leave(t) ==
    /\ pc[t] = "leaving" \/ (pc[t] = "running" /\ kind[t] = "operation")
    /\ release
    /\ Goto(t, "idle")
    /\ kind' = [kind EXCEPT ![t] = "none"]
    /\ scope' = [scope EXCEPT ![t] = None]
    /\ UNCHANGED <<cacheVars, todo, background, loop, attached, closeVars>>
-----------------------------------------------------------------------------
(* Scheduled processing: the handler of a due job, run by the loop goroutine *)

\* The loop found a due job; its context is not done yet.
Dispatch ==
    /\ pc[Processor] = "idle"
    /\ loop = "running"
    /\ Goto(Processor, "dispatched")
    /\ UNCHANGED <<cacheVars, gateVars, kind, scope, todo, background, loop, attached, closeVars>>

\* BackgroundOperation is refused during shutdown and the dispatch is over ...
DispatchRefused ==
    /\ pc[Processor] = "dispatched"
    /\ Refusing
    /\ Goto(Processor, "idle")
    /\ UNCHANGED <<cacheVars, gateVars, kind, scope, todo, background, loop, attached, closeVars>>

\* ... or admitted.
DispatchAdmitted ==
    /\ pc[Processor] = "dispatched"
    /\ admit
    /\ Goto(Processor, "admitted")
    /\ kind' = [kind EXCEPT ![Processor] = "background"]
    /\ UNCHANGED <<cacheVars, scope, todo, background, loop, attached, closeVars>>

\* Background serializes the processors across all Scopes.
AcquireBackground ==
    /\ pc[Processor] = "admitted"
    /\ background
    /\ background' = FALSE
    /\ Goto(Processor, "listing")
    /\ UNCHANGED <<cacheVars, gateVars, kind, scope, todo, loop, attached, closeVars>>

\* ScopeIDs: the Scopes with a journal, or an error.
ListScopes ==
    /\ pc[Processor] = "listing"
    /\ \/ loop = "running" /\ todo' \in SUBSET Scopes /\ Goto(Processor, "visiting")
       \/ UNCHANGED todo /\ Goto(Processor, "finishing")
    /\ UNCHANGED <<cacheVars, gateVars, kind, scope, background, loop, attached, closeVars>>

\* Mutant: the job does not move on from the Scope it has visited.
MutantVisitScope ==
    /\ pc[Processor] = "visiting"
    /\ ~Refusing
    /\ \E s \in todo :
        /\ Lease(Processor, s)
        /\ scope' = [scope EXCEPT ![Processor] = s]
        /\ Goto(Processor, "waiting")
    /\ UNCHANGED <<gateVars, kind, todo, background, loop, attached, closeVars>>

\* One round of the loop of ScheduledProcessor.process: an unresolvable Scope is
\* skipped, any other is leased.
VisitScope ==
    /\ pc[Processor] = "visiting"
    /\ ~Refusing
    /\ \E s \in todo :
        /\ todo' = todo \ {s}
        /\ \/ UNCHANGED <<cacheVars, pc, scope>>
           \/ /\ Lease(Processor, s)
              /\ scope' = [scope EXCEPT ![Processor] = s]
              /\ Goto(Processor, "waiting")
    /\ UNCHANGED <<gateVars, kind, background, loop, attached, closeVars>>

StopVisiting ==
    /\ pc[Processor] = "visiting"
    /\ todo = {} \/ Refusing
    /\ Goto(Processor, "finishing")
    /\ UNCHANGED <<cacheVars, gateVars, kind, scope, todo, background, loop, attached, closeVars>>

ReleaseBackground ==
    /\ pc[Processor] = "finishing"
    /\ background' = TRUE
    /\ todo' = {}
    /\ Goto(Processor, "leaving")
    /\ UNCHANGED <<cacheVars, gateVars, kind, scope, loop, attached, closeVars>>

\* The application opens the scheduler and hands it to the Runtime.
OpenScheduler ==
    /\ loop = "absent"
    /\ loop' = "running"
    /\ UNCHANGED <<cacheVars, gateVars, threadVars, attached, closeVars>>

\* A Runtime that is closing refuses it and the application closes it again.
AttachScheduler ==
    /\ loop = "running"
    /\ ~attached
    /\ IF Refusing THEN loop' = "paused" /\ UNCHANGED attached
                   ELSE attached' = TRUE /\ UNCHANGED loop
    /\ UNCHANGED <<cacheVars, gateVars, threadVars, closeVars>>
-----------------------------------------------------------------------------
(* Close *)

CloserGoto(c, phase) == closer' = [closer EXCEPT ![c] = phase]

\* Close returns, with closeMu.
Return(c) ==
    /\ CloserGoto(c, "idle")
    /\ closeMu' = None
    /\ ctxDone' = [ctxDone EXCEPT ![c] = FALSE]
    /\ index' = 0

\* Mutant: an idle Runtime does not close the channel it waits on.
MutantCloseBegin(c) ==
    /\ closer[c] = "idle"
    /\ closeMu = None
    /\ ~closed
    /\ closeMu' = c
    /\ closing' = TRUE
    /\ drained' = IF closing THEN drained ELSE "open"
    /\ CloserGoto(c, "draining")
    /\ UNCHANGED <<cacheVars, closed, active, threadVars, loop, attached, resource, ctxDone, index>>

\* Close up to its select.  A Runtime that is closed returns at once; one that
\* is still closing from a failed Close keeps its drained channel.
CloseBegin(c) ==
    /\ closer[c] = "idle"
    /\ closeMu = None
    /\ ~closed
    /\ closeMu' = c
    /\ closing' = TRUE
    /\ drained' = IF closing THEN drained ELSE IF active = 0 THEN "closed" ELSE "open"
    /\ CloserGoto(c, "draining")
    /\ UNCHANGED <<cacheVars, closed, active, threadVars, loop, attached, resource, ctxDone, index>>

\* The deadline of the context passes, or its owner cancels it.
CloseContextDone(c) ==
    /\ closer[c] # "idle"
    /\ ~ctxDone[c]
    /\ ctxDone' = [ctxDone EXCEPT ![c] = TRUE]
    /\ UNCHANGED <<cacheVars, gateVars, threadVars, loop, attached, resource, closeMu, closer, index>>

\* Mutant: Close goes on with the tear-down without waiting for the drain.
MutantCloseDrained(c) ==
    /\ closer[c] = "draining"
    /\ CloserGoto(c, "pausing")
    /\ UNCHANGED <<cacheVars, gateVars, threadVars, loop, attached, resource, closeMu, ctxDone, index>>

\* The two cases of the select; when both are ready Go picks either.
CloseDrained(c) ==
    /\ closer[c] = "draining"
    /\ drained = "closed"
    /\ CloserGoto(c, "pausing")
    /\ UNCHANGED <<cacheVars, gateVars, threadVars, loop, attached, resource, closeMu, ctxDone, index>>

CloseCancelled(c) ==
    /\ closer[c] = "draining"
    /\ ctxDone[c]
    /\ closing' = FALSE
    /\ drained' = "nil"
    /\ Return(c)
    /\ UNCHANGED <<cacheVars, closed, active, threadVars, loop, attached, resource>>

\* Mutant: the scheduler is paused and never closed.
MutantPauseScheduler(c) ==
    /\ closer[c] = "pausing"
    /\ loop' = IF attached /\ loop = "running" THEN "paused" ELSE loop
    /\ CloserGoto(c, "clearing")
    /\ UNCHANGED <<cacheVars, gateVars, threadVars, attached, resource, closeMu, ctxDone, index>>

PauseScheduler(c) ==
    /\ closer[c] = "pausing"
    /\ loop' = IF attached /\ loop = "running" THEN "paused" ELSE loop
    /\ CloserGoto(c, IF attached THEN "stopping" ELSE "clearing")
    /\ UNCHANGED <<cacheVars, gateVars, threadVars, attached, resource, closeMu, ctxDone, index>>

\* Scheduler.Close waits for its loop goroutine.
CloseScheduler(c) ==
    /\ closer[c] = "stopping"
    /\ pc[Processor] = "idle"
    /\ loop' = "closed"
    /\ CloserGoto(c, "clearing")
    /\ UNCHANGED <<cacheVars, gateVars, threadVars, attached, resource, closeMu, ctxDone, index>>

\* Scheduler.Close gives up waiting, or cannot close its database.  The Runtime
\* stays closing.
CloseSchedulerFails(c) ==
    /\ closer[c] = "stopping"
    /\ loop # "closed"
    /\ ctxDone[c] \/ pc[Processor] = "idle"
    /\ Return(c)
    /\ UNCHANGED <<cacheVars, gateVars, threadVars, loop, attached, resource>>

ClearScopes(c) ==
    /\ closer[c] = "clearing"
    /\ Clear
    /\ CloserGoto(c, "resources")
    /\ index' = NumResources
    /\ UNCHANGED <<gateVars, threadVars, loop, attached, resource, closeMu, ctxDone>>

\* The resources are closed in reverse order; closing one again does nothing.
CloseResource(c) ==
    /\ closer[c] = "resources"
    /\ index > 0
    /\ resource' = [resource EXCEPT ![index] = "closed"]
    /\ index' = index - 1
    /\ UNCHANGED <<cacheVars, gateVars, threadVars, loop, attached, closeMu, closer, ctxDone>>

\* A resource that is open may fail to close.  The Runtime stays closing.
CloseResourceFails(c) ==
    /\ closer[c] = "resources"
    /\ index > 0
    /\ resource[index] = "open"
    /\ Return(c)
    /\ UNCHANGED <<cacheVars, gateVars, threadVars, loop, attached, resource>>

CloseEnd(c) ==
    /\ closer[c] = "resources"
    /\ index = 0
    /\ closed' = TRUE
    /\ closing' = FALSE
    /\ drained' = "nil"
    /\ Return(c)
    /\ UNCHANGED <<cacheVars, active, threadVars, loop, attached, resource>>
-----------------------------------------------------------------------------
Request(t) == \E k \in {"operation", "read", "write"}, s \in Scopes : Begin(t, k, s)

\* The steps of a call that was admitted.
Proceed(t) ==
    \/ ResolveFails(t) \/ EnterScope(t)
    \/ LockScope(t) \/ AbandonLock(t)
    \/ UnlockScope(t) \/ LeaveScope(t) \/ Leave(t)

Process ==
    \/ DispatchRefused \/ DispatchAdmitted \/ AcquireBackground
    \/ ListScopes \/ VisitScope \/ StopVisiting \/ ReleaseBackground

Close(c) ==
    \/ CloseDrained(c) \/ CloseCancelled(c)
    \/ PauseScheduler(c) \/ CloseScheduler(c) \/ CloseSchedulerFails(c)
    \/ ClearScopes(c) \/ CloseResource(c) \/ CloseResourceFails(c) \/ CloseEnd(c)

\* A closed Runtime refuses every call.
Refused == closed /\ pc[Processor] = "idle" /\ UNCHANGED vars

Next ==
    \/ \E t \in Callers : Request(t)
    \/ \E t \in Threads : Proceed(t)
    \/ Dispatch \/ Process
    \/ OpenScheduler \/ AttachScheduler
    \/ \E c \in Closers : CloseBegin(c) \/ CloseContextDone(c) \/ Close(c)
    \/ Refused

Spec == Init /\ [][Next]_vars

\* Callbacks return, goroutines are scheduled, and the channel behind a write
\* gate serves its waiters in order, so a waiter is not overtaken forever.
\* Nothing is assumed of contexts: they need never be done.
Fairness ==
    /\ \A t \in Threads :
        /\ WF_vars(EnterScope(t) \/ UnlockScope(t) \/ LeaveScope(t) \/ Leave(t))
        /\ SF_vars(LockScope(t))
    /\ WF_vars(Process)
    /\ \A c \in Closers : WF_vars(Close(c))

FairSpec == Spec /\ Fairness
-----------------------------------------------------------------------------
\* Threads between an admission and its release.
Admitted == {t \in Threads : pc[t] \notin {"idle", "dispatched"}}

\* The drain is exact: the channel Close waits on is closed only when no
\* admitted operation is left and none can start, so it is never closed twice.
DrainIsExact ==
    /\ active = Cardinality(Admitted)
    /\ drained = "closed" => closing /\ active = 0
    /\ drained = "open" => closing /\ active > 0

\* Tear-down follows the drain: while Close pauses the scheduler, clears the
\* gates and closes resources, no operation is admitted and no Scope is leased,
\* so scopeCache.clear cannot refuse.
TeardownIsQuiet ==
    \A c \in Closers :
        closer[c] \in {"pausing", "stopping", "clearing", "resources"} =>
            /\ closing /\ Admitted = {}
            /\ ~ClearRefused
            /\ \A t \in Threads : lease[t] = None /\ ~locked[t]

\* Once closed, the Runtime stays closed and idle, with everything it owned
\* released: scheduler, gates and resources.
ClosedIsFinal ==
    closed =>
        /\ Admitted = {} /\ ~closing /\ closeMu = None
        /\ attached => loop = "closed"
        /\ Cached = {}
        /\ \A r \in Resources : resource[r] = "closed"

\* Every admitted call leaves, also one that waits for a contended Scope and is
\* never cancelled.
CallsReturn == \A t \in Threads : t \in Admitted ~> t \notin Admitted

\* Close returns without help from its context: no admitted call, lock waiter or
\* dispatching scheduler can wait for Close while Close waits for it.
CloseReturns == \A c \in Closers : closer[c] # "idle" ~> closer[c] = "idle"

\* "Resource is an explicitly owned Runtime dependency closed after scheduled
\* work and admitted operations have drained": an admitted operation finds
\* every resource open.
AdmittedWorkHasResources ==
    Admitted # {} => \A r \in Resources : resource[r] = "open"
=============================================================================
