------------------------------ MODULE Scheduler ------------------------------
(***************************************************************************)
(* The persisted interval scheduler (internal/scheduler) of the processes  *)
(* that open one scheduler database.                                       *)
(*                                                                         *)
(* Each process reconciles its configuration with the stored Jobs when it  *)
(* opens, keeps a copy of them in memory, and claims a due Job by moving   *)
(* its stored next_run_time with a compare-and-swap before it calls the    *)
(* handler.  liveOwners admits one scheduler per process and file; nothing *)
(* but the compare-and-swap stands between two processes.                  *)
(***************************************************************************)
EXTENDS Integers

CONSTANTS
    Processes,
    Configs,        \* the configured intervals; 0 where a Job is disabled
    MaxTime,        \* bound on the clock, in microseconds
    MaxStops,       \* bound on pauses and crashes
    MaxFailures,    \* bound on failures of the scheduler database
    None

\* The stable Job ids, as numbers in their textual order.
ExperienceIncubation == 1
SourceWindow == 2
Kinds == {ExperienceIncubation, SourceWindow}

ASSUME SchedulerAssumption ==
    /\ Configs \subseteq [Kinds -> Nat]
    /\ MaxTime \in Nat
    /\ MaxStops \in Nat
    /\ MaxFailures \in Nat
    /\ None \notin [interval : Nat \ {0}, start : Nat, next : Nat]

Job == [interval : Nat \ {0}, start : Nat, next : Nat]

VARIABLES
    clock,
    jobs,       \* powercontext_scheduler_jobs: jobs[k] is a Job or None
    mem,        \* mem[p]: Scheduler.jobs of process p
    phase,      \* where the loop of p is
    cancelled,  \* cancelled[p]: Scheduler.ctx of p is done
    now,        \* now[p]: the argument of the current runDue
    todo,       \* todo[p]: the Jobs of its snapshot not yet visited
    claims,     \* claims[k]: history, the slots whose handler was called
    stops, failures

vars == <<clock, jobs, mem, phase, cancelled, now, todo, claims, stops, failures>>
loopVars == <<mem, phase, cancelled, now, todo>>

TypeOK ==
    /\ clock \in Nat
    /\ jobs \in [Kinds -> Job \cup {None}]
    /\ mem \in [Processes -> [Kinds -> Job \cup {None}]]
    /\ phase \in [Processes -> {"off", "waiting", "due", "handling", "exited"}]
    /\ cancelled \in [Processes -> BOOLEAN]
    /\ now \in [Processes -> Nat]
    /\ todo \in [Processes -> SUBSET Kinds]
    /\ claims \in [Kinds -> SUBSET Nat]
    /\ stops \in Nat
    /\ failures \in Nat

NoJobs == [k \in Kinds |-> None]

Init ==
    /\ clock = 0
    /\ jobs = NoJobs
    /\ mem = [p \in Processes |-> NoJobs]
    /\ phase = [p \in Processes |-> "off"]
    /\ cancelled = [p \in Processes |-> FALSE]
    /\ now = [p \in Processes |-> 0]
    /\ todo = [p \in Processes |-> {}]
    /\ claims = [k \in Kinds |-> {}]
    /\ stops = 0
    /\ failures = 0
-----------------------------------------------------------------------------
\* Mutant: the next slot is counted from now instead of from the start.
MutantWithNext(j, t) == [j EXCEPT !.next = t + j.interval]

\* Job.withNext: the first slot after t; slots in between are skipped.
withNext(j, t) ==
    [j EXCEPT !.next = j.start + ((t - j.start) \div j.interval + 1) * j.interval]

\* reconcile: disabled Jobs are deleted, a Job whose interval is unchanged
\* keeps its slots, any other starts one interval from now.
reconcile(config) ==
    [k \in Kinds |->
        IF config[k] = 0 THEN None
        ELSE IF jobs[k] # None /\ jobs[k].interval = config[k] THEN jobs[k]
        ELSE [interval |-> config[k], start |-> clock + config[k],
              next |-> clock + config[k]]]

\* Open; validateConfig asks for at least one interval, claimOwner for no live
\* scheduler of this process.
Open(p, config) ==
    /\ phase[p] = "off"
    /\ \E k \in Kinds : config[k] > 0
    /\ jobs' = reconcile(config)
    /\ mem' = [mem EXCEPT ![p] = reconcile(config)]
    /\ phase' = [phase EXCEPT ![p] = "waiting"]
    /\ UNCHANGED <<clock, cancelled, now, todo, claims, stops, failures>>

\* The Jobs among ks that p has in memory, and the first of them in the order
\* of snapshot: by next run time, then by id.
Known(p, ks) == {k \in ks : mem[p][k] # None}

Precedes(p, k, other) ==
    \/ mem[p][k].next < mem[p][other].next
    \/ mem[p][k].next = mem[p][other].next /\ k <= other

\* Mutant: the snapshot is sorted by id alone.
MutantFirst(p, ks) ==
    CHOOSE k \in Known(p, ks) : \A other \in Known(p, ks) : k <= other

First(p, ks) ==
    CHOOSE k \in Known(p, ks) : \A other \in Known(p, ks) : Precedes(p, k, other)

\* loop: the timer of the first Job fires.  select may prefer it to a context
\* that is done as well.
WakeUp(p) ==
    /\ phase[p] = "waiting"
    /\ mem[p][First(p, Kinds)].next <= clock
    /\ phase' = [phase EXCEPT ![p] = "due"]
    /\ now' = [now EXCEPT ![p] = clock]
    /\ todo' = [todo EXCEPT ![p] = Known(p, Kinds)]
    /\ UNCHANGED <<clock, jobs, mem, cancelled, claims, stops, failures>>

\* loop: ctx.Done.
Exit(p) ==
    /\ phase[p] = "waiting"
    /\ cancelled[p]
    /\ phase' = [phase EXCEPT ![p] = "exited"]
    /\ UNCHANGED <<clock, jobs, mem, cancelled, now, todo, claims, stops, failures>>

\* runDue has another Job of its snapshot that is due.
HasDue(p) ==
    /\ phase[p] = "due"
    /\ Known(p, todo[p]) # {}
    /\ mem[p][First(p, todo[p])].next <= now[p]

\* runDue returns to the loop.
LeaveDue(p) ==
    /\ phase' = [phase EXCEPT ![p] = "waiting"]
    /\ now' = [now EXCEPT ![p] = 0]
    /\ todo' = [todo EXCEPT ![p] = {}]

RunDueEnds(p) ==
    /\ phase[p] = "due"
    /\ ~HasDue(p)
    /\ LeaveDue(p)
    /\ UNCHANGED <<clock, jobs, mem, cancelled, claims, stops, failures>>

\* UPDATE ... WHERE id = ? AND next_run_time = ?
Wins(p, k) == jobs[k] # None /\ jobs[k].next = mem[p][k].next

\* Mutant: the handler is called before the next run time is stored.
MutantClaim(p) ==
    /\ HasDue(p)
    /\ ~cancelled[p]
    /\ LET k == First(p, todo[p])
           next == withNext(mem[p][k], now[p]) IN
        /\ mem' = [mem EXCEPT ![p][k] = next]
        /\ claims' = [claims EXCEPT ![k] = @ \cup {mem[p][k].next}]
        /\ todo' = [todo EXCEPT ![p] = @ \ {k}]
    /\ phase' = [phase EXCEPT ![p] = "handling"]
    /\ UNCHANGED <<clock, jobs, cancelled, now, stops, failures>>

\* runDue: the slot is stored as passed, then the handler is called.
Claim(p) ==
    /\ HasDue(p)
    /\ ~cancelled[p]
    /\ LET k == First(p, todo[p])
           next == withNext(mem[p][k], now[p]) IN
        /\ Wins(p, k)
        /\ jobs' = [jobs EXCEPT ![k] = next]
        /\ mem' = [mem EXCEPT ![p][k] = next]
        /\ claims' = [claims EXCEPT ![k] = @ \cup {mem[p][k].next}]
        /\ todo' = [todo EXCEPT ![p] = @ \ {k}]
    /\ phase' = [phase EXCEPT ![p] = "handling"]
    /\ UNCHANGED <<clock, cancelled, now, stops, failures>>

\* runDue: the compare-and-swap lost, or the context is done.  The scheduler
\* cancels itself and does not come back.
ClaimFails(p) ==
    /\ HasDue(p)
    /\ cancelled[p] \/ ~Wins(p, First(p, todo[p]))
    /\ cancelled' = [cancelled EXCEPT ![p] = TRUE]
    /\ LeaveDue(p)
    /\ UNCHANGED <<clock, jobs, mem, claims, stops, failures>>

\* The database refuses the UPDATE, or reports an error after applying it.
DatabaseFails(p) ==
    /\ failures < MaxFailures
    /\ HasDue(p)
    /\ ~cancelled[p]
    /\ LET k == First(p, todo[p]) IN
       \/ jobs' = jobs
       \/ Wins(p, k) /\ jobs' = [jobs EXCEPT ![k] = withNext(mem[p][k], now[p])]
    /\ cancelled' = [cancelled EXCEPT ![p] = TRUE]
    /\ LeaveDue(p)
    /\ failures' = failures + 1
    /\ UNCHANGED <<clock, mem, claims, stops>>

\* Mutant: a panic of the handler is recovered outside the loop.
MutantHandlerReturns(p) ==
    /\ phase[p] = "handling"
    /\ \E next \in {"due", "exited"} : phase' = [phase EXCEPT ![p] = next]
    /\ UNCHANGED <<clock, jobs, mem, cancelled, now, todo, claims, stops, failures>>

\* safeHandle returns: success, error and panic look the same to the loop.
HandlerReturns(p) ==
    /\ phase[p] = "handling"
    /\ phase' = [phase EXCEPT ![p] = "due"]
    /\ UNCHANGED <<clock, jobs, mem, cancelled, now, todo, claims, stops, failures>>

\* Pause, and the first step of Close.
Pause(p) ==
    /\ stops < MaxStops
    /\ phase[p] # "off"
    /\ ~cancelled[p]
    /\ cancelled' = [cancelled EXCEPT ![p] = TRUE]
    /\ stops' = stops + 1
    /\ UNCHANGED <<clock, jobs, mem, phase, now, todo, claims, failures>>

\* Close once the loop has exited: the owner is released and p may open again.
\* A Close whose context ends first changes nothing more than Pause does.
Close(p) ==
    /\ phase[p] = "exited"
    /\ phase' = [phase EXCEPT ![p] = "off"]
    /\ mem' = [mem EXCEPT ![p] = NoJobs]
    /\ cancelled' = [cancelled EXCEPT ![p] = FALSE]
    /\ UNCHANGED <<clock, jobs, now, todo, claims, stops, failures>>

\* The process dies, between any two steps.
Crash(p) ==
    /\ stops < MaxStops
    /\ phase[p] # "off"
    /\ phase' = [phase EXCEPT ![p] = "off"]
    /\ mem' = [mem EXCEPT ![p] = NoJobs]
    /\ cancelled' = [cancelled EXCEPT ![p] = FALSE]
    /\ now' = [now EXCEPT ![p] = 0]
    /\ todo' = [todo EXCEPT ![p] = {}]
    /\ stops' = stops + 1
    /\ UNCHANGED <<clock, jobs, claims, failures>>

Tick ==
    /\ clock < MaxTime
    /\ clock' = clock + 1
    /\ UNCHANGED <<jobs, loopVars, claims, stops, failures>>

Loop(p) ==
    \/ WakeUp(p) \/ Exit(p) \/ RunDueEnds(p) \/ Claim(p) \/ ClaimFails(p)
    \/ DatabaseFails(p) \/ HandlerReturns(p)

Next ==
    \/ Tick
    \/ \E p \in Processes : Loop(p) \/ Pause(p) \/ Close(p) \/ Crash(p)
    \/ \E p \in Processes, config \in Configs : Open(p, config)

Spec == Init /\ [][Next]_vars

\* The loop goroutine is scheduled, and handlers return.
FairSpec == Spec /\ \A p \in Processes : WF_vars(Loop(p))
-----------------------------------------------------------------------------
\* A slot that was handed to a handler is behind the stored next run time, so
\* neither a restart nor another process hands it out again.
ClaimedSlotsPassed ==
    \A k \in Kinds : \A slot \in claims[k] :
        /\ slot <= clock
        /\ jobs[k] # None => slot < jobs[k].next

\* No slot is handed to a handler twice, whatever processes share the database,
\* stop between storing and handling, or restart with other intervals.
SlotsRunOnce ==
    [][\A p \in Processes : Claim(p) =>
        LET k == First(p, todo[p]) IN mem[p][k].next \notin claims[k]]_vars

\* What is stored can be opened again: decodeJobState accepts only a next run
\* time on the grid of start and interval, and no Job waits longer than one
\* interval from now.
StoredJobsReopen ==
    \A k \in Kinds : jobs[k] # None =>
        /\ jobs[k].next >= jobs[k].start
        /\ (jobs[k].next - jobs[k].start) % jobs[k].interval = 0
        /\ jobs[k].next <= clock + jobs[k].interval

Alive(p) == phase[p] # "off" /\ ~cancelled[p]

\* A scheduler that loses a compare-and-swap stops for good.  As long as all
\* processes are configured alike and none is stopped from outside, they do not
\* stop each other: one is left whose view is what the database holds.
OneSchedulerSurvives ==
    (stops = 0 /\ failures = 0 /\ \E p \in Processes : phase[p] # "off") =>
        \E p \in Processes : Alive(p) /\ mem[p] = jobs

\* Under the same conditions the schedulers catch up with the clock again and
\* again: every slot that comes due is claimed, or skipped by a later one.
DueSlotsRun ==
    []<>(\/ \A k \in Kinds : jobs[k] # None => jobs[k].next > clock
         \/ stops > 0 \/ failures > 0)
=============================================================================
