--------------------------- MODULE SchedulerProofs ---------------------------
(***************************************************************************)
(* Proofs about Scheduler for every set of processes, every set of         *)
(* configurations and every bound.                                         *)
(***************************************************************************)
EXTENDS Scheduler, TLAPS

\* The first slot after t is after t, at most one interval away.
LEMMA NextSlot ==
    ASSUME NEW i \in Nat \ {0}, NEW n \in Nat
    PROVE  /\ (n \div i + 1) * i \in Nat
           /\ (n \div i + 1) * i > n
           /\ (n \div i + 1) * i <= n + i
           /\ ((n \div i + 1) * i) % i = 0
  <1>1. n = i * (n \div i) + (n % i) /\ n % i >= 0 /\ n % i < i /\ n \div i \in Nat
    BY Z3
  <1>. DEFINE q == n \div i
  <1>2. (q + 1) * i = i * q + i
    BY <1>1
  <1>3. i * q \in Nat
    BY <1>1
  <1>4. ((q + 1) * i) % i = 0
    BY <1>1, Z3
  <1>. QED
    BY <1>1, <1>2, <1>3, <1>4

\* A Job whose slots are on its grid; withNext needs start <= next <= t.
OnGrid(j) == j.next >= j.start /\ (j.next - j.start) % j.interval = 0

LEMMA WithNextFacts ==
    ASSUME NEW j \in Job, NEW t \in Nat, j.start <= j.next, j.next <= t
    PROVE  /\ withNext(j, t) \in Job
           /\ withNext(j, t).start = j.start
           /\ withNext(j, t).interval = j.interval
           /\ withNext(j, t).next > t
           /\ withNext(j, t).next <= t + j.interval
           /\ OnGrid(withNext(j, t))
  <1>. DEFINE i == j.interval
              n == t - j.start
              d == (n \div i + 1) * i
  <1>1. i \in Nat \ {0} /\ n \in Nat /\ j.start \in Nat
    BY DEF Job
  <1>2. d \in Nat /\ d > n /\ d <= n + i /\ d % i = 0
    BY <1>1, NextSlot
  <1>3. withNext(j, t) = [interval |-> i, start |-> j.start, next |-> j.start + d]
    BY DEF withNext, Job
  <1>. HIDE DEF i, n, d
  <1>4. (j.start + d) - j.start = d
    BY <1>1, <1>2
  <1>5. t = n + j.start
    BY <1>1 DEF n, Job
  <1>6. j.interval = i
    BY DEF i
  <1>. QED
    BY <1>1, <1>2, <1>3, <1>4, <1>5, <1>6 DEF OnGrid, Job

LEMMA NoneIsNoJob == None \notin Job
  BY SchedulerAssumption DEF Job

\* First picks a Job of the set that precedes all others.
LEMMA FirstFacts ==
    ASSUME TypeOK, NEW p \in Processes, NEW ks \in SUBSET Kinds, Known(p, ks) # {}
    PROVE  /\ First(p, ks) \in Known(p, ks)
           /\ \A other \in Known(p, ks) : Precedes(p, First(p, ks), other)
  <1>1. \A k \in Known(p, ks) : mem[p][k].next \in Nat
    BY DEF TypeOK, Known, Job
  <1>2. \E k \in Known(p, ks) : \A other \in Known(p, ks) : Precedes(p, k, other)
    <2>1. Known(p, ks) \subseteq {1, 2}
      BY DEF Known, Kinds, ExperienceIncubation, SourceWindow
    <2>2. CASE 1 \in Known(p, ks) /\ 2 \in Known(p, ks)
      BY <1>1, <2>1, <2>2 DEF Precedes
    <2>3. CASE ~(1 \in Known(p, ks) /\ 2 \in Known(p, ks))
      <3>1. PICK k \in Known(p, ks) : TRUE
        OBVIOUS
      <3>2. \A other \in Known(p, ks) : other = k
        BY <2>1, <2>3, <3>1
      <3>3. Precedes(p, k, k)
        BY <1>1, <2>1, <3>1 DEF Precedes
      <3>. QED
        BY <3>1, <3>2, <3>3
    <2>. QED
      BY <2>2, <2>3
  <1>. QED
    BY <1>2 DEF First

\* A due Job of runDue is a Job p knows, not later than its argument.
LEMMA DueFacts ==
    ASSUME TypeOK, NEW p \in Processes, HasDue(p)
    PROVE  /\ First(p, todo[p]) \in Kinds
           /\ First(p, todo[p]) \in todo[p]
           /\ mem[p][First(p, todo[p])] \in Job
           /\ mem[p][First(p, todo[p])].next <= now[p]
  <1>1. todo[p] \in SUBSET Kinds /\ Known(p, todo[p]) # {}
    BY DEF TypeOK, HasDue
  <1>2. First(p, todo[p]) \in Known(p, todo[p])
    BY <1>1, FirstFacts
  <1>. QED
    BY <1>1, <1>2 DEF Known, TypeOK, HasDue
-----------------------------------------------------------------------------
\* Every Job that is stored or held in memory is on its grid and not more than
\* an interval ahead; runDue's argument is not in the future.
JobsAreSane ==
    /\ \A k \in Kinds : jobs[k] # None =>
          OnGrid(jobs[k]) /\ jobs[k].next <= clock + jobs[k].interval
    /\ \A p \in Processes, k \in Kinds : mem[p][k] # None =>
          OnGrid(mem[p][k]) /\ mem[p][k].next <= clock + mem[p][k].interval
    /\ \A p \in Processes : now[p] <= clock

SlotInv == TypeOK /\ JobsAreSane /\ ClaimedSlotsPassed

LEMMA ReconcileFacts ==
    ASSUME SlotInv, NEW config \in Configs, NEW k \in Kinds
    PROVE  /\ reconcile(config)[k] \in Job \cup {None}
           /\ reconcile(config)[k] # None =>
                /\ OnGrid(reconcile(config)[k])
                /\ reconcile(config)[k].next <= clock + reconcile(config)[k].interval
                /\ \A slot \in claims[k] : slot < reconcile(config)[k].next
  <1>. DEFINE c == config[k]
              fresh == [interval |-> c, start |-> clock + c, next |-> clock + c]
  <1>1. c \in Nat /\ clock \in Nat /\ claims[k] \subseteq Nat
    BY SchedulerAssumption DEF SlotInv, TypeOK
  <1>2. CASE c = 0
    BY <1>2 DEF reconcile
  <1>3. CASE c # 0 /\ jobs[k] # None /\ jobs[k].interval = c
    <2>1. reconcile(config)[k] = jobs[k]
      BY <1>3 DEF reconcile
    <2>. QED
      BY <1>3, <2>1 DEF SlotInv, TypeOK, JobsAreSane, ClaimedSlotsPassed
  <1>4. CASE c # 0 /\ ~(jobs[k] # None /\ jobs[k].interval = c)
    <2>1. reconcile(config)[k] = fresh
      BY <1>4 DEF reconcile
    <2>2. fresh \in Job
      BY <1>1, <1>4 DEF Job
    <2>3. (fresh.next - fresh.start) = 0 /\ 0 % c = 0
      BY <1>1, <1>4
    <2>4. OnGrid(fresh)
      BY <1>1, <2>3 DEF OnGrid
    <2>5. \A slot \in claims[k] : slot < fresh.next
      BY <1>1, <1>4 DEF SlotInv, ClaimedSlotsPassed
    <2>. QED
      BY <1>1, <2>1, <2>2, <2>4, <2>5
  <1>. QED
    BY <1>2, <1>3, <1>4

LEMMA SlotInit == Init => SlotInv
  BY DEF Init, NoJobs, SlotInv, TypeOK, JobsAreSane, ClaimedSlotsPassed

\* Storing the next run time of the due Job keeps what the invariant says of it.
LEMMA AdvanceFacts ==
    ASSUME SlotInv, NEW p \in Processes, HasDue(p), NEW k, k = First(p, todo[p]),
           Wins(p, k)
    PROVE  /\ k \in Kinds
           /\ mem[p][k] \in Job
           /\ mem[p][k].next <= clock
           /\ withNext(mem[p][k], now[p]) \in Job
           /\ OnGrid(withNext(mem[p][k], now[p]))
           /\ withNext(mem[p][k], now[p]).next <=
                clock + withNext(mem[p][k], now[p]).interval
           /\ withNext(mem[p][k], now[p]).next > mem[p][k].next
           /\ \A slot \in claims[k] : slot < mem[p][k].next
  <1>. DEFINE j == mem[p][k]
  <1>1. k \in Kinds /\ j \in Job /\ j.next <= now[p]
    BY DueFacts DEF SlotInv
  <1>2. j.next \in Nat /\ j.interval \in Nat /\ clock \in Nat /\ now[p] \in Nat
    BY <1>1 DEF SlotInv, TypeOK, Job
  <1>3. now[p] <= clock /\ j.start <= j.next
    BY <1>1, NoneIsNoJob DEF SlotInv, JobsAreSane, OnGrid, Job
  <1>. DEFINE w == withNext(j, now[p])
  <1>4. /\ w \in Job /\ w.interval = j.interval /\ OnGrid(w)
        /\ w.next > now[p] /\ w.next <= now[p] + j.interval
    BY <1>1, <1>2, <1>3, WithNextFacts
  <1>5. w.next \in Nat
    BY <1>4 DEF Job
  <1>6. jobs[k] # None /\ jobs[k].next = j.next
    BY DEF Wins
  <1>7. \A slot \in claims[k] : slot < j.next
    BY <1>1, <1>6 DEF SlotInv, ClaimedSlotsPassed
  <1>. HIDE DEF w
  <1>8. w.next > j.next /\ w.next <= clock + w.interval
    BY <1>1, <1>2, <1>3, <1>4, <1>5
  <1>. QED
    BY <1>1, <1>2, <1>3, <1>4, <1>7, <1>8 DEF w

LEMMA SlotStep == SlotInv /\ [Next]_vars => SlotInv'
  <1>. SUFFICES ASSUME SlotInv, [Next]_vars PROVE SlotInv'
    OBVIOUS
  <1>. USE NoneIsNoJob
  <1>a. /\ TypeOK /\ JobsAreSane /\ ClaimedSlotsPassed
    BY DEF SlotInv
  <1>1. CASE UNCHANGED vars
    BY <1>a, <1>1 DEF vars, SlotInv, TypeOK, JobsAreSane, ClaimedSlotsPassed
  <1>2. CASE Tick
    <2>1. TypeOK'
      BY <1>a, <1>2 DEF Tick, loopVars, TypeOK
    <2>2. JobsAreSane'
      BY <1>a, <1>2 DEF Tick, loopVars, TypeOK, JobsAreSane, Job
    <2>3. ClaimedSlotsPassed'
      BY <1>a, <1>2 DEF Tick, loopVars, TypeOK, ClaimedSlotsPassed
    <2>. QED
      BY <2>1, <2>2, <2>3 DEF SlotInv
  <1>3. ASSUME NEW p \in Processes, NEW config \in Configs, Open(p, config)
        PROVE SlotInv'
    <2>1. \A k \in Kinds :
            /\ jobs'[k] \in Job \cup {None}
            /\ jobs'[k] # None =>
                 /\ OnGrid(jobs'[k])
                 /\ jobs'[k].next <= clock + jobs'[k].interval
                 /\ \A slot \in claims[k] : slot < jobs'[k].next
      BY <1>3, ReconcileFacts DEF Open
    <2>2. /\ jobs' \in [Kinds -> Job \cup {None}]
          /\ mem' = [mem EXCEPT ![p] = jobs']
      BY <1>3, <2>1 DEF Open, reconcile
    <2>3. TypeOK'
      BY <1>a, <1>3, <2>2 DEF Open, TypeOK
    <2>4. JobsAreSane'
      BY <1>a, <1>3, <2>1, <2>2 DEF Open, TypeOK, JobsAreSane
    <2>5. ClaimedSlotsPassed'
      BY <1>a, <1>3, <2>1 DEF Open, ClaimedSlotsPassed
    <2>. QED
      BY <2>3, <2>4, <2>5 DEF SlotInv
  <1>4. ASSUME NEW p \in Processes, WakeUp(p) PROVE SlotInv'
    <2>1. TypeOK'
      BY <1>a, <1>4 DEF WakeUp, TypeOK, Known
    <2>2. JobsAreSane' /\ ClaimedSlotsPassed'
      BY <1>a, <1>4 DEF WakeUp, TypeOK, JobsAreSane, ClaimedSlotsPassed
    <2>. QED
      BY <2>1, <2>2 DEF SlotInv
  <1>c. ASSUME NEW p \in Processes, NEW b \in BOOLEAN,
               cancelled' = cancelled \/ cancelled' = [cancelled EXCEPT ![p] = b]
        PROVE  cancelled' \in [Processes -> BOOLEAN]
    BY <1>a, <1>c, Zenon DEF TypeOK
  <1>5. ASSUME NEW p \in Processes, Exit(p) \/ HandlerReturns(p) \/ Pause(p)
        PROVE SlotInv'
    <2>1. /\ cancelled' = cancelled \/ cancelled' = [cancelled EXCEPT ![p] = TRUE]
          /\ phase' = phase \/ \E x \in {"due", "exited"} : phase' = [phase EXCEPT ![p] = x]
          /\ stops' = stops \/ stops' = stops + 1
          /\ UNCHANGED <<clock, jobs, mem, now, todo, claims, failures>>
      BY <1>5, Zenon DEF Exit, HandlerReturns, Pause
    <2>2. cancelled' \in [Processes -> BOOLEAN]
      BY <1>c, <2>1, Zenon
    <2>3. phase' \in [Processes -> {"off", "waiting", "due", "handling", "exited"}]
      BY <1>a, <2>1 DEF TypeOK
    <2>4. TypeOK'
      BY <1>a, <2>1, <2>2, <2>3 DEF TypeOK
    <2>5. JobsAreSane' /\ ClaimedSlotsPassed'
      BY <1>a, <2>1 DEF JobsAreSane, ClaimedSlotsPassed
    <2>. QED
      BY <2>4, <2>5 DEF SlotInv
  <1>6. ASSUME NEW p \in Processes, RunDueEnds(p) \/ ClaimFails(p) PROVE SlotInv'
    <2>1. /\ cancelled' = cancelled \/ cancelled' = [cancelled EXCEPT ![p] = TRUE]
          /\ LeaveDue(p)
          /\ UNCHANGED <<clock, jobs, mem, claims, stops, failures>>
      BY <1>6, Zenon DEF RunDueEnds, ClaimFails
    <2>2. cancelled' \in [Processes -> BOOLEAN]
      BY <1>c, <2>1, Zenon
    <2>3. TypeOK'
      BY <1>a, <2>1, <2>2 DEF LeaveDue, TypeOK
    <2>4. JobsAreSane' /\ ClaimedSlotsPassed'
      BY <1>a, <2>1 DEF LeaveDue, TypeOK, JobsAreSane, ClaimedSlotsPassed
    <2>. QED
      BY <2>3, <2>4 DEF SlotInv
  <1>7. ASSUME NEW p \in Processes, Claim(p) PROVE SlotInv'
    <2>. DEFINE k == First(p, todo[p])
                j == mem[p][k]
                w == withNext(j, now[p])
    <2>1. /\ HasDue(p) /\ Wins(p, k)
          /\ jobs' = [jobs EXCEPT ![k] = w]
          /\ mem' = [mem EXCEPT ![p][k] = w]
          /\ claims' = [claims EXCEPT ![k] = @ \cup {j.next}]
          /\ todo' = [todo EXCEPT ![p] = @ \ {k}]
          /\ phase' = [phase EXCEPT ![p] = "handling"]
          /\ UNCHANGED <<clock, cancelled, now, stops, failures>>
      BY <1>7 DEF Claim
    <2>2. /\ k \in Kinds /\ j \in Job /\ j.next <= clock
          /\ w \in Job /\ OnGrid(w) /\ w.next <= clock + w.interval
          /\ w.next > j.next /\ \A slot \in claims[k] : slot < j.next
      BY <2>1, AdvanceFacts
    <2>. HIDE DEF k, j, w
    <2>3. TypeOK'
      BY <1>a, <2>1, <2>2 DEF TypeOK, Job
    <2>4. JobsAreSane'
      BY <1>a, <2>1, <2>2 DEF JobsAreSane, TypeOK
    <2>5. ClaimedSlotsPassed'
      BY <1>a, <2>1, <2>2 DEF ClaimedSlotsPassed, TypeOK, Job
    <2>. QED
      BY <2>3, <2>4, <2>5 DEF SlotInv
  <1>8. ASSUME NEW p \in Processes, DatabaseFails(p) PROVE SlotInv'
    <2>. DEFINE k == First(p, todo[p])
                j == mem[p][k]
                w == withNext(j, now[p])
    <2>1. /\ HasDue(p)
          /\ jobs' = jobs \/ (Wins(p, k) /\ jobs' = [jobs EXCEPT ![k] = w])
          /\ cancelled' = [cancelled EXCEPT ![p] = TRUE]
          /\ LeaveDue(p)
          /\ failures' = failures + 1
          /\ UNCHANGED <<clock, mem, claims, stops>>
      BY <1>8, Zenon DEF DatabaseFails
    <2>2. jobs' = jobs \/
            /\ jobs' = [jobs EXCEPT ![k] = w]
            /\ k \in Kinds /\ j \in Job
            /\ w \in Job /\ OnGrid(w) /\ w.next <= clock + w.interval
            /\ w.next > j.next /\ \A slot \in claims[k] : slot < j.next
      BY <2>1, AdvanceFacts
    <2>. HIDE DEF k, j, w
    <2>6. cancelled' \in [Processes -> BOOLEAN]
      BY <1>c, <2>1, Zenon
    <2>3. TypeOK'
      BY <1>a, <2>1, <2>2, <2>6 DEF TypeOK, LeaveDue
    <2>4. JobsAreSane'
      BY <1>a, <2>1, <2>2 DEF JobsAreSane, TypeOK, LeaveDue
    <2>5. ClaimedSlotsPassed'
      BY <1>a, <2>1, <2>2 DEF ClaimedSlotsPassed, TypeOK, Job
    <2>. QED
      BY <2>3, <2>4, <2>5 DEF SlotInv
  <1>9. ASSUME NEW p \in Processes, Close(p) \/ Crash(p) PROVE SlotInv'
    <2>1. cancelled' = [cancelled EXCEPT ![p] = FALSE]
      BY <1>9, Zenon DEF Close, Crash
    <2>2. cancelled' \in [Processes -> BOOLEAN]
      BY <1>c, <2>1, Zenon
    <2>3. /\ phase' = [phase EXCEPT ![p] = "off"]
          /\ mem' = [mem EXCEPT ![p] = NoJobs]
          /\ now' = now \/ now' = [now EXCEPT ![p] = 0]
          /\ todo' = todo \/ todo' = [todo EXCEPT ![p] = {}]
          /\ stops' = stops \/ stops' = stops + 1
          /\ UNCHANGED <<clock, jobs, claims, failures>>
      BY <1>9, Zenon DEF Close, Crash
    <2>4. NoJobs \in [Kinds -> Job \cup {None}]
      BY DEF NoJobs
    <2>7. now' \in [Processes -> Nat] /\ \A q \in Processes : now'[q] <= now[q]
      <3>1. now \in [Processes -> Nat]
        BY <1>a DEF TypeOK
      <3>2. now' = now \/ now' = [now EXCEPT ![p] = 0]
        BY <2>3
      <3>. QED
        BY <3>1, <3>2
    <2>8. todo' \in [Processes -> SUBSET Kinds]
      BY <1>a, <2>3, Zenon DEF TypeOK
    <2>9. mem' \in [Processes -> [Kinds -> Job \cup {None}]]
      BY <1>a, <2>3, <2>4, Zenon DEF TypeOK
    <2>10. \A q \in Processes, k \in Kinds : mem'[q][k] # None => mem'[q][k] = mem[q][k]
      BY <1>a, <2>3 DEF NoJobs, TypeOK
    <2>5. TypeOK'
      <3>1. phase' \in [Processes -> {"off", "waiting", "due", "handling", "exited"}]
        BY <1>a, <2>3 DEF TypeOK
      <3>2. stops' \in Nat
        BY <1>a, <2>3 DEF TypeOK
      <3>. QED
        BY <1>a, <2>2, <2>3, <2>7, <2>8, <2>9, <3>1, <3>2 DEF TypeOK
    <2>11. UNCHANGED <<clock, jobs, claims>>
      BY <2>3
    <2>6. JobsAreSane' /\ ClaimedSlotsPassed'
      BY <1>a, <2>7, <2>10, <2>11 DEF TypeOK, JobsAreSane, ClaimedSlotsPassed
    <2>. QED
      BY <2>5, <2>6 DEF SlotInv
  <1>. QED
    BY <1>1, <1>2, <1>3, <1>4, <1>5, <1>6, <1>7, <1>8, <1>9 DEF Next, Loop

LEMMA SlotInvariant == Spec => []SlotInv
  BY SlotInit, SlotStep, PTL DEF Spec

\* The variables of the scheduler keep their types.
THEOREM TypeCorrect == Spec => []TypeOK
  <1>1. SlotInv => TypeOK
    BY DEF SlotInv
  <1>. QED
    BY <1>1, SlotInvariant, PTL

\* The claimed slots stay behind the stored next run time, across crashes,
\* restarts and changes of the configuration.
THEOREM SlotsStayPassed == Spec => []ClaimedSlotsPassed
  <1>1. SlotInv => ClaimedSlotsPassed
    BY DEF SlotInv
  <1>. QED
    BY <1>1, SlotInvariant, PTL

\* What reconcile and runDue store is always accepted by the next Open.
THEOREM StoredJobsStaySane == Spec => []StoredJobsReopen
  <1>1. SlotInv => StoredJobsReopen
    BY DEF SlotInv, JobsAreSane, OnGrid, StoredJobsReopen
  <1>. QED
    BY <1>1, SlotInvariant, PTL

\* No slot is handed to a handler twice.
THEOREM EachSlotRunsOnce == Spec => SlotsRunOnce
  <1>1. SlotInv /\ [Next]_vars =>
          [\A p \in Processes : Claim(p) =>
             LET k == First(p, todo[p]) IN mem[p][k].next \notin claims[k]]_vars
    <2>. SUFFICES ASSUME SlotInv, NEW p \in Processes, Claim(p)
                  PROVE  mem[p][First(p, todo[p])].next
                           \notin claims[First(p, todo[p])]
      OBVIOUS
    <2>. DEFINE k == First(p, todo[p])
    <2>1. HasDue(p) /\ Wins(p, k)
      BY DEF Claim
    <2>2. mem[p][k] \in Job /\ \A slot \in claims[k] : slot < mem[p][k].next
      BY <2>1, AdvanceFacts
    <2>. QED
      BY <2>2 DEF Job
  <1>. QED
    BY <1>1, SlotInvariant, PTL DEF Spec, SlotsRunOnce
-----------------------------------------------------------------------------
(***************************************************************************)
(* Processes that are configured alike do not stop each other.  A process  *)
(* whose copy is out of date is behind on the very Job it will try next,   *)
(* so its next attempt fails before it can move any other Job: only a      *)
(* process with an exact copy ever moves one.                              *)
(***************************************************************************)
Stopped == {q \in Processes : cancelled[q]}

\* k is the Job that snapshot puts first among the Jobs m.
Leads(m, k) ==
    \A other \in Kinds : m[other] # None =>
        \/ m[k].next < m[other].next
        \/ m[k].next = m[other].next /\ k <= other

\* The first Job of p has been moved by another process.
Behind(p) ==
    \E k \in Kinds :
        /\ mem[p][k] # None
        /\ jobs[k] # None
        /\ mem[p][k].next < jobs[k].next
        /\ Leads(mem[p], k)

\* The stored Jobs are those of the configuration.
Settled(config) ==
    \A k \in Kinds :
        IF config[k] = 0 THEN jobs[k] = None
        ELSE jobs[k] # None /\ jobs[k].interval = config[k]

LoopInv ==
    \A p \in Processes :
        /\ phase[p] = "off" => p \notin Stopped
        /\ phase[p] = "exited" => p \in Stopped
        /\ phase[p] \in {"due", "handling"} =>
             \A k \in Kinds \ todo[p] : mem[p][k] # None => mem[p][k].next > now[p]

RaceInv ==
    (stops = 0 /\ failures = 0) =>
        /\ (\E p \in Processes : phase[p] # "off") =>
             /\ \A config \in Configs : Settled(config)
             /\ \E p \in Processes :
                   phase[p] # "off" /\ p \notin Stopped /\ mem[p] = jobs
        /\ \A p \in Processes : phase[p] # "off" =>
             /\ \A k \in Kinds : (mem[p][k] = None) <=> (jobs[k] = None)
             /\ p \in Stopped \/ mem[p] = jobs \/ Behind(p)

CompeteInv == SlotInv /\ LoopInv /\ RaceInv

LEMMA StoppedStep ==
    ASSUME TypeOK, NEW p \in Processes
    PROVE  /\ cancelled' = cancelled => Stopped' = Stopped
           /\ cancelled' = [cancelled EXCEPT ![p] = TRUE] => Stopped' = Stopped \cup {p}
           /\ cancelled' = [cancelled EXCEPT ![p] = FALSE] => Stopped' = Stopped \ {p}
  BY Zenon DEF TypeOK, Stopped

\* The Job that runDue tries is the first of all Jobs p knows.
LEMMA DueLeads ==
    ASSUME SlotInv, LoopInv, NEW p \in Processes, HasDue(p)
    PROVE  Leads(mem[p], First(p, todo[p]))
  <1>. DEFINE f == First(p, todo[p])
  <1>1. TypeOK /\ phase[p] = "due" /\ todo[p] \in SUBSET Kinds /\ Known(p, todo[p]) # {}
    BY DEF SlotInv, HasDue, TypeOK
  <1>2. f \in Known(p, todo[p]) /\ \A other \in Known(p, todo[p]) : Precedes(p, f, other)
    BY <1>1, FirstFacts
  <1>3. f \in Kinds /\ mem[p][f] \in Job /\ mem[p][f].next <= now[p]
    BY <1>1, DueFacts
  <1>4. \A other \in Kinds : mem[p][other] # None => mem[p][other] \in Job
    BY <1>1 DEF TypeOK
  <1>. HIDE DEF f
  <1>5. SUFFICES ASSUME NEW other \in Kinds, mem[p][other] # None
                 PROVE  \/ mem[p][f].next < mem[p][other].next
                        \/ mem[p][f].next = mem[p][other].next /\ f <= other
    BY DEF Leads, f
  <1>6. CASE other \in todo[p]
    BY <1>2, <1>5, <1>6 DEF Known, Precedes
  <1>7. CASE other \notin todo[p]
    <2>1. mem[p][other].next > now[p]
      BY <1>1, <1>5, <1>7 DEF LoopInv
    <2>2. now[p] \in Nat /\ mem[p][other].next \in Nat /\ mem[p][f].next \in Nat
      BY <1>1, <1>3, <1>4, <1>5 DEF TypeOK, Job
    <2>. QED
      BY <1>3, <2>1, <2>2
  <1>. QED
    BY <1>6, <1>7

\* A process that wins its compare-and-swap has an exact copy of the Jobs.
LEMMA WinnerIsExact ==
    ASSUME CompeteInv, stops = 0, failures = 0, NEW p \in Processes, HasDue(p),
           p \notin Stopped, Wins(p, First(p, todo[p]))
    PROVE  mem[p] = jobs
  <1>. DEFINE f == First(p, todo[p])
  <1>1. SlotInv /\ LoopInv /\ RaceInv /\ TypeOK /\ phase[p] = "due"
    BY DEF CompeteInv, SlotInv, HasDue
  <1>2. f \in Kinds /\ mem[p][f] \in Job /\ Leads(mem[p], f)
    BY <1>1, DueFacts, DueLeads
  <1>3. jobs[f].next = mem[p][f].next
    BY DEF Wins
  <1>. HIDE DEF f
  <1>4. ASSUME NEW k \in Kinds, mem[p][k] # None, jobs[k] # None,
               mem[p][k].next < jobs[k].next, Leads(mem[p], k)
        PROVE FALSE
    <2>1. mem[p][k] \in Job /\ jobs[k] \in Job
      BY <1>1, <1>4 DEF TypeOK
    <2>2. /\ mem[p][k].next \in Nat /\ mem[p][f].next \in Nat
          /\ jobs[k].next \in Nat /\ k \in Nat /\ f \in Nat
      BY <1>2, <2>1 DEF Job, Kinds, ExperienceIncubation, SourceWindow
    <2>3. k = f
      BY <1>2, <1>4, <2>2, NoneIsNoJob DEF Leads
    <2>. QED
      BY <1>3, <1>4, <2>2, <2>3
  <1>. QED
    BY <1>1, <1>4 DEF RaceInv, Behind

LEMMA CompeteInit == Init => CompeteInv
  <1>. SUFFICES ASSUME Init PROVE CompeteInv
    OBVIOUS
  <1>1. SlotInv
    BY SlotInit
  <1>2. Stopped = {}
    BY Zenon DEF Init, Stopped
  <1>3. \A p \in Processes : phase[p] = "off"
    BY DEF Init
  <1>. QED
    BY <1>1, <1>2, <1>3 DEF CompeteInv, LoopInv, RaceInv

\* Each loop stays consistent with its own snapshot.
LEMMA LoopStep ==
    ASSUME SlotInv, LoopInv, Next
    PROVE  LoopInv'
  <1>. USE NoneIsNoJob
  <1>a. TypeOK
    BY DEF SlotInv
  <1>1. CASE Tick
    <2>1. UNCHANGED <<phase, mem, todo, now, cancelled>>
      BY <1>1 DEF Tick, loopVars
    <2>2. Stopped' = Stopped
      BY <2>1, Zenon DEF Stopped
    <2>. QED
      BY <2>1, <2>2 DEF LoopInv
  <1>2. ASSUME NEW p \in Processes, NEW config \in Configs, Open(p, config)
        PROVE LoopInv'
    <2>1. Stopped' = Stopped
      BY <1>2, <1>a, StoppedStep DEF Open
    <2>2. /\ phase' = [phase EXCEPT ![p] = "waiting"]
          /\ \A q \in Processes : q # p => mem'[q] = mem[q]
          /\ UNCHANGED <<now, todo>>
      BY <1>2, <1>a DEF Open, TypeOK
    <2>. QED
      BY <1>a, <2>1, <2>2 DEF LoopInv, TypeOK
  <1>3. ASSUME NEW p \in Processes, WakeUp(p) PROVE LoopInv'
    <2>1. Stopped' = Stopped
      BY <1>3, <1>a, StoppedStep DEF WakeUp
    <2>. QED
      BY <1>3, <1>a, <2>1 DEF WakeUp, Known, LoopInv, TypeOK
  <1>4. ASSUME NEW p \in Processes, Exit(p) PROVE LoopInv'
    <2>1. Stopped' = Stopped /\ p \in Stopped
      <3>1. Stopped' = Stopped
        BY <1>4, <1>a, StoppedStep DEF Exit
      <3>2. p \in Stopped
        BY <1>4, Zenon DEF Exit, Stopped
      <3>. QED
        BY <3>1, <3>2
    <2>2. phase' = [phase EXCEPT ![p] = "exited"] /\ UNCHANGED <<mem, now, todo>>
      BY <1>4, Zenon DEF Exit
    <2>. QED
      BY <1>a, <2>1, <2>2 DEF LoopInv, TypeOK
  <1>5. ASSUME NEW p \in Processes, RunDueEnds(p) \/ ClaimFails(p) \/ DatabaseFails(p)
        PROVE LoopInv'
    <2>1. /\ phase[p] = "due" /\ LeaveDue(p) /\ mem' = mem
          /\ cancelled' = cancelled \/ cancelled' = [cancelled EXCEPT ![p] = TRUE]
      BY <1>5, Zenon DEF RunDueEnds, ClaimFails, DatabaseFails, HasDue
    <2>2. Stopped' = Stopped \/ Stopped' = Stopped \cup {p}
      BY <1>a, <2>1, StoppedStep, Zenon
    <2>3. phase[p] = "due" /\ LeaveDue(p) /\ mem' = mem
      BY <2>1, Zenon
    <2>. QED
      BY <1>a, <2>2, <2>3 DEF LoopInv, LeaveDue, TypeOK
  <1>6. ASSUME NEW p \in Processes, Claim(p) PROVE LoopInv'
    <2>. DEFINE k == First(p, todo[p])
                w == withNext(mem[p][k], now[p])
    <2>1. Stopped' = Stopped
      BY <1>6, <1>a, StoppedStep DEF Claim
    <2>2. /\ HasDue(p) /\ phase[p] = "due"
          /\ mem' = [mem EXCEPT ![p][k] = w]
          /\ todo' = [todo EXCEPT ![p] = @ \ {k}]
          /\ phase' = [phase EXCEPT ![p] = "handling"]
          /\ now' = now
      BY <1>6 DEF Claim, HasDue
    <2>3. k \in Kinds /\ mem[p][k] \in Job /\ mem[p][k].next <= now[p]
      BY <1>a, <2>2, DueFacts
    <2>4. w.next > now[p]
      <3>1. mem[p][k].start <= mem[p][k].next /\ now[p] \in Nat
        BY <1>a, <2>3 DEF SlotInv, JobsAreSane, OnGrid, TypeOK, Job
      <3>. QED
        BY <2>3, <3>1, WithNextFacts
    <2>. HIDE DEF k, w
    <2>. QED
      BY <1>a, <2>1, <2>2, <2>3, <2>4 DEF LoopInv, TypeOK
  <1>7. ASSUME NEW p \in Processes, HandlerReturns(p) PROVE LoopInv'
    <2>1. Stopped' = Stopped
      BY <1>7, <1>a, StoppedStep DEF HandlerReturns
    <2>. QED
      BY <1>7, <1>a, <2>1 DEF HandlerReturns, LoopInv, TypeOK
  <1>8. ASSUME NEW p \in Processes, Pause(p) PROVE LoopInv'
    <2>1. cancelled' = [cancelled EXCEPT ![p] = TRUE]
      BY <1>8, Zenon DEF Pause
    <2>2. Stopped' = Stopped \cup {p}
      BY <1>a, <2>1, StoppedStep, Zenon
    <2>3. phase[p] # "off" /\ UNCHANGED <<mem, phase, now, todo>>
      BY <1>8, Zenon DEF Pause
    <2>. QED
      BY <2>2, <2>3 DEF LoopInv
  <1>9. ASSUME NEW p \in Processes, Close(p) \/ Crash(p) PROVE LoopInv'
    <2>1. cancelled' = [cancelled EXCEPT ![p] = FALSE]
      BY <1>9, Zenon DEF Close, Crash
    <2>2. Stopped' = Stopped \ {p}
      BY <1>a, <2>1, StoppedStep, Zenon
    <2>3. /\ phase' = [phase EXCEPT ![p] = "off"]
          /\ mem' = [mem EXCEPT ![p] = NoJobs]
          /\ now' = now \/ now' = [now EXCEPT ![p] = 0]
          /\ todo' = todo \/ todo' = [todo EXCEPT ![p] = {}]
      BY <1>9, Zenon DEF Close, Crash
    <2>4. /\ phase' = [phase EXCEPT ![p] = "off"]
          /\ \A q \in Processes : q # p =>
               mem'[q] = mem[q] /\ now'[q] = now[q] /\ todo'[q] = todo[q]
      BY <1>a, <2>3 DEF TypeOK
    <2>. QED
      BY <1>a, <2>2, <2>4 DEF LoopInv, TypeOK
  <1>. QED
    BY <1>1, <1>2, <1>3, <1>4, <1>5, <1>6, <1>7, <1>8, <1>9 DEF Next, Loop

\* A step that changes neither the stored Jobs nor any copy keeps the race as
\* it is, as long as no process with an exact copy leaves it.
LEMMA QuietStep ==
    ASSUME RaceInv, stops = 0, failures = 0, NEW p \in Processes,
           jobs' = jobs, mem' = mem, Stopped \subseteq Stopped',
           Stopped' \subseteq Stopped \cup {p},
           p \in Stopped' \ Stopped => mem[p] # jobs,
           \A q \in Processes : phase'[q] = "off" <=> phase[q] = "off"
    PROVE  RaceInv'
  <1>1. \A config \in Configs : Settled(config) => Settled(config)'
    BY DEF Settled
  <1>2. \A q \in Processes : Behind(q) => Behind(q)'
    BY DEF Behind, Leads
  <1>. QED
    BY <1>1, <1>2 DEF RaceInv

LEMMA RaceStep ==
    ASSUME CompeteInv, Next, \A c, d \in Configs : c = d
    PROVE  RaceInv'
  <1>. SUFFICES ASSUME stops' = 0, failures' = 0 PROVE RaceInv'
    BY DEF RaceInv
  <1>. USE NoneIsNoJob
  <1>a. TypeOK /\ SlotInv /\ LoopInv /\ RaceInv
    BY DEF CompeteInv, SlotInv
  <1>b. stops \in Nat /\ failures \in Nat
    BY <1>a DEF TypeOK
  <1>1. CASE Tick
    <2>1. UNCHANGED <<phase, mem, jobs, cancelled, stops, failures>>
      BY <1>1 DEF Tick, loopVars
    <2>2. Stopped' = Stopped
      BY <2>1, Zenon DEF Stopped
    <2>3. \A config \in Configs : Settled(config) => Settled(config)'
      BY <2>1 DEF Settled
    <2>4. \A q \in Processes : Behind(q) => Behind(q)'
      BY <2>1 DEF Behind, Leads
    <2>. QED
      BY <1>a, <2>1, <2>2, <2>3, <2>4 DEF RaceInv
  <1>2. ASSUME NEW p \in Processes, NEW config \in Configs, Open(p, config)
        PROVE RaceInv'
    <2>1. Stopped' = Stopped /\ p \notin Stopped /\ phase[p] = "off"
      BY <1>2, <1>a, StoppedStep DEF Open, LoopInv
    <2>2. /\ phase' = [phase EXCEPT ![p] = "waiting"]
          /\ jobs' = reconcile(config)
          /\ mem' = [mem EXCEPT ![p] = jobs']
          /\ stops = 0 /\ failures = 0
      BY <1>2 DEF Open
    <2>3. mem'[p] = jobs' /\ phase'[p] = "waiting"
      BY <1>a, <2>2 DEF TypeOK
    <2>4. \A c \in Configs : Settled(c)'
      <3>1. config \in [Kinds -> Nat] /\ clock \in Nat
        BY <1>a, SchedulerAssumption DEF TypeOK
      <3>2. \A k \in Kinds : config[k] # 0 =>
              reconcile(config)[k] # None /\ reconcile(config)[k].interval = config[k]
        <4>. SUFFICES ASSUME NEW k \in Kinds, config[k] # 0
                      PROVE  /\ reconcile(config)[k] # None
                             /\ reconcile(config)[k].interval = config[k]
          OBVIOUS
        <4>1. [interval |-> config[k], start |-> clock + config[k],
               next |-> clock + config[k]] \in Job
          BY <3>1 DEF Job
        <4>. QED
          BY <4>1 DEF reconcile
      <3>3. \A k \in Kinds : config[k] = 0 => reconcile(config)[k] = None
        BY DEF reconcile
      <3>4. Settled(config)'
        BY <2>2, <3>2, <3>3 DEF Settled
      <3>. QED
        BY <3>4
    <2>5. CASE \E q \in Processes : phase[q] # "off"
      <3>1. Settled(config)
        BY <1>a, <2>2, <2>5 DEF RaceInv
      <3>2. jobs' = jobs
        <4>1. \A k \in Kinds : reconcile(config)[k] = jobs[k]
          BY <3>1 DEF Settled, reconcile
        <4>. QED
          BY <1>a, <2>2, <4>1 DEF TypeOK, reconcile
      <3>3. \A q \in Processes : q # p => mem'[q] = mem[q] /\ phase'[q] = phase[q]
        BY <1>a, <2>2 DEF TypeOK
      <3>4. \A q \in Processes : q # p => (Behind(q) => Behind(q)')
        BY <3>2, <3>3 DEF Behind, Leads
      <3>. QED
        BY <1>a, <2>1, <2>2, <2>3, <2>4, <3>2, <3>3, <3>4 DEF RaceInv
    <2>6. CASE \A q \in Processes : phase[q] = "off"
      <3>1. \A q \in Processes : q # p => phase'[q] = "off"
        BY <1>a, <2>2, <2>6 DEF TypeOK
      <3>. QED
        BY <2>1, <2>3, <2>4, <3>1 DEF RaceInv
    <2>. QED
      BY <2>5, <2>6
  <1>3. ASSUME NEW p \in Processes,
               WakeUp(p) \/ Exit(p) \/ RunDueEnds(p) \/ HandlerReturns(p)
        PROVE RaceInv'
    <2>1. /\ UNCHANGED <<jobs, mem, cancelled, stops, failures>>
          /\ phase[p] \in {"waiting", "due", "handling"}
          /\ \E x \in {"waiting", "due", "exited"} : phase' = [phase EXCEPT ![p] = x]
      BY <1>3, Zenon DEF WakeUp, Exit, RunDueEnds, LeaveDue, HandlerReturns
    <2>2. Stopped' = Stopped
      BY <1>a, <2>1, StoppedStep
    <2>3. \A q \in Processes : phase'[q] = "off" <=> phase[q] = "off"
      BY <1>a, <2>1 DEF TypeOK
    <2>. QED
      BY <1>a, <2>1, <2>2, <2>3, QuietStep
  <1>4. ASSUME NEW p \in Processes, ClaimFails(p) PROVE RaceInv'
    <2>1. /\ HasDue(p) /\ LeaveDue(p)
          /\ cancelled' = [cancelled EXCEPT ![p] = TRUE]
          /\ UNCHANGED <<jobs, mem, stops, failures>>
          /\ p \in Stopped \/ ~Wins(p, First(p, todo[p]))
      BY <1>4, Zenon DEF ClaimFails, Stopped
    <2>2. Stopped' = Stopped \cup {p}
      BY <1>a, <2>1, StoppedStep, Zenon
    <2>3. HasDue(p) /\ LeaveDue(p) /\ UNCHANGED <<jobs, mem, stops, failures>>
      BY <2>1, Zenon
    <2>4. p \in Stopped \/ mem[p] # jobs
      <3>1. First(p, todo[p]) \in Kinds /\ mem[p][First(p, todo[p])] \in Job
        BY <1>a, <2>3, DueFacts
      <3>2. mem[p] = jobs => Wins(p, First(p, todo[p]))
        BY <3>1 DEF Wins
      <3>. QED
        BY <2>1, <3>2, Zenon
    <2>5. \A q \in Processes : phase'[q] = "off" <=> phase[q] = "off"
      BY <1>a, <2>3 DEF TypeOK, HasDue, LeaveDue
    <2>. QED
      BY <1>a, <2>2, <2>3, <2>4, <2>5, QuietStep
  <1>5. ASSUME NEW p \in Processes, Claim(p) PROVE RaceInv'
    <2>. DEFINE f == First(p, todo[p])
                w == withNext(mem[p][f], now[p])
    <2>1. /\ HasDue(p) /\ Wins(p, f) /\ phase[p] = "due"
          /\ jobs' = [jobs EXCEPT ![f] = w]
          /\ mem' = [mem EXCEPT ![p][f] = w]
          /\ phase' = [phase EXCEPT ![p] = "handling"]
          /\ stops = 0 /\ failures = 0
      BY <1>5 DEF Claim, HasDue
    <2>2. Stopped' = Stopped /\ p \notin Stopped
      <3>1. Stopped' = Stopped
        BY <1>5, <1>a, StoppedStep DEF Claim
      <3>2. p \notin Stopped
        BY <1>5, Zenon DEF Claim, Stopped
      <3>. QED
        BY <3>1, <3>2
    <2>3. mem[p] = jobs
      BY <2>1, <2>2, WinnerIsExact
    <2>4. /\ f \in Kinds /\ mem[p][f] \in Job /\ w \in Job
          /\ w.next > mem[p][f].next
      BY <1>a, <2>1, AdvanceFacts
    <2>5. Leads(mem[p], f)
      BY <1>a, <2>1, DueLeads
    <2>6. w.interval = mem[p][f].interval
      BY <2>4 DEF withNext, Job
    <2>. HIDE DEF f, w
    <2>7. mem'[p] = jobs' /\ \A q \in Processes : q # p => mem'[q] = mem[q]
      BY <1>a, <2>1, <2>3, <2>4 DEF TypeOK
    <2>8. \A q \in Processes : (phase'[q] = "off") <=> (phase[q] = "off")
      BY <1>a, <2>1 DEF TypeOK
    <2>9. \A c \in Configs : Settled(c)'
      <3>1. \A c \in Configs : Settled(c)
        BY <1>a, <2>1 DEF RaceInv
      <3>. QED
        BY <1>a, <2>1, <2>3, <2>4, <2>6, <3>1 DEF Settled, TypeOK
    <2>10. \A k \in Kinds : (jobs'[k] = None) <=> (jobs[k] = None)
      BY <1>a, <2>1, <2>3, <2>4 DEF TypeOK
    <2>11. ASSUME NEW q \in Processes, q # p, phase[q] # "off", q \notin Stopped
           PROVE Behind(q)'
      <3>1. CASE mem[q] = jobs
        <4>1. mem'[q] = mem[p] /\ mem'[q][f].next < jobs'[f].next
          BY <1>a, <2>1, <2>3, <2>4, <2>7, <2>11, <3>1 DEF TypeOK, Job
        <4>. QED
          BY <1>a, <2>1, <2>4, <2>5, <4>1 DEF Behind, Leads, TypeOK
      <3>2. CASE mem[q] # jobs
        <4>1. Behind(q)
          BY <1>a, <2>1, <2>11, <3>2 DEF RaceInv
        <4>2. PICK k \in Kinds : /\ mem[q][k] # None /\ jobs[k] # None
                                 /\ mem[q][k].next < jobs[k].next
                                 /\ Leads(mem[q], k)
          BY <4>1 DEF Behind
        <4>3. mem[q][k].next \in Nat /\ jobs[k].next \in Nat
          BY <1>a, <4>2 DEF TypeOK, Job
        <4>4. jobs'[k] # None /\ mem[q][k].next < jobs'[k].next
          BY <1>a, <2>1, <2>3, <2>4, <4>2, <4>3 DEF TypeOK, Job
        <4>. QED
          BY <2>7, <2>11, <4>2, <4>4 DEF Behind, Leads
      <3>. QED
        BY <3>1, <3>2
    <2>12. \A q \in Processes : phase[q] # "off" =>
             \A k \in Kinds : (mem'[q][k] = None) <=> (jobs'[k] = None)
      <3>. SUFFICES ASSUME NEW q \in Processes, phase[q] # "off", NEW k \in Kinds
                    PROVE  (mem'[q][k] = None) <=> (jobs'[k] = None)
        OBVIOUS
      <3>1. (mem[q][k] = None) <=> (jobs[k] = None)
        BY <1>a, <2>1 DEF RaceInv
      <3>2. CASE q = p
        BY <2>7, <3>2
      <3>3. CASE q # p
        BY <2>7, <2>10, <3>1, <3>3
      <3>. QED
        BY <3>2, <3>3
    <2>. QED
      BY <2>1, <2>2, <2>7, <2>8, <2>9, <2>11, <2>12 DEF RaceInv
  <1>6. ASSUME NEW p \in Processes, DatabaseFails(p) \/ Pause(p) \/ Crash(p)
        PROVE RaceInv'
    <2>1. stops' = stops + 1 \/ failures' = failures + 1
      BY <1>6, Zenon DEF DatabaseFails, Pause, Crash
    <2>. QED
      BY <1>b, <2>1
  <1>7. ASSUME NEW p \in Processes, Close(p) PROVE RaceInv'
    <2>1. /\ phase[p] = "exited" /\ phase' = [phase EXCEPT ![p] = "off"]
          /\ mem' = [mem EXCEPT ![p] = NoJobs]
          /\ cancelled' = [cancelled EXCEPT ![p] = FALSE]
          /\ UNCHANGED <<jobs, stops, failures>>
      BY <1>7, Zenon DEF Close
    <2>2. Stopped' = Stopped \ {p}
      BY <1>a, <2>1, StoppedStep, Zenon
    <2>3. /\ phase[p] = "exited" /\ phase' = [phase EXCEPT ![p] = "off"]
          /\ mem' = [mem EXCEPT ![p] = NoJobs]
          /\ UNCHANGED <<jobs, stops, failures>>
      BY <2>1, Zenon
    <2>4. p \in Stopped /\ phase'[p] = "off"
      BY <1>a, <2>3 DEF LoopInv, TypeOK
    <2>5. \A q \in Processes : q # p => mem'[q] = mem[q] /\ phase'[q] = phase[q]
      BY <1>a, <2>3 DEF TypeOK
    <2>6. \A q \in Processes : q # p => (Behind(q) => Behind(q)')
      BY <2>3, <2>5 DEF Behind, Leads
    <2>7. \A config \in Configs : Settled(config) => Settled(config)'
      BY <2>3 DEF Settled
    <2>. QED
      BY <1>a, <2>2, <2>3, <2>4, <2>5, <2>6, <2>7 DEF RaceInv
  <1>. QED
    BY <1>1, <1>2, <1>3, <1>4, <1>5, <1>6, <1>7 DEF Next, Loop

\* Processes with equal intervals never stop each other's last scheduler: as
\* long as none is stopped from outside, one with an exact copy is running.
THEOREM SchedulerSurvives ==
    ASSUME \A c, d \in Configs : c = d
    PROVE  Spec => []OneSchedulerSurvives
  <1>1. Init => CompeteInv
    BY CompeteInit
  <1>2. CompeteInv /\ [Next]_vars => CompeteInv'
    <2>1. CASE Next
      BY <2>1, SlotStep, LoopStep, RaceStep DEF CompeteInv
    <2>2. CASE UNCHANGED vars
      <3>1. ASSUME CompeteInv, UNCHANGED vars PROVE CompeteInv'
        <4>1. SlotInv'
          BY <3>1, SlotStep DEF CompeteInv
        <4>2. UNCHANGED <<jobs, mem, phase, cancelled, now, todo, stops, failures>>
          BY <3>1 DEF vars
        <4>3. Stopped' = Stopped
          BY <4>2, Zenon DEF Stopped
        <4>4. LoopInv'
          BY <3>1, <4>2, <4>3 DEF LoopInv, CompeteInv
        <4>5. \A config \in Configs : Settled(config) => Settled(config)'
          BY <4>2 DEF Settled
        <4>6. \A q \in Processes : Behind(q) => Behind(q)'
          BY <4>2 DEF Behind, Leads
        <4>7. RaceInv'
          BY <3>1, <4>2, <4>3, <4>5, <4>6 DEF RaceInv, CompeteInv
        <4>. QED
          BY <4>1, <4>4, <4>7 DEF CompeteInv
      <3>. QED
        BY <2>2, <3>1
    <2>. QED
      BY <2>1, <2>2
  <1>3. CompeteInv => OneSchedulerSurvives
    <2>. SUFFICES ASSUME RaceInv, stops = 0, failures = 0,
                         \E p \in Processes : phase[p] # "off"
                  PROVE  \E p \in Processes : Alive(p) /\ mem[p] = jobs
      BY DEF CompeteInv, OneSchedulerSurvives
    <2>1. PICK p \in Processes : phase[p] # "off" /\ p \notin Stopped /\ mem[p] = jobs
      BY DEF RaceInv
    <2>2. Alive(p)
      BY <2>1, Zenon DEF Alive, Stopped
    <2>. QED
      BY <2>1, <2>2
  <1>. QED
    BY <1>1, <1>2, <1>3, PTL DEF Spec
=============================================================================
