------------------------ MODULE PersonalServiceProofs ------------------------
(***************************************************************************)
(* Proofs about PersonalService, for any invocations and any definitions.  *)
(*                                                                         *)
(* A command relies at each step on what it has done so far, which nobody  *)
(* undoes because it holds the lock.  The invariant says what that is, and *)
(* that the snapshots a rollback goes back to were themselves sound: only  *)
(* then does the last step of Restore, which may remove the artifact,      *)
(* leave no task behind.                                                   *)
(***************************************************************************)
EXTENDS PersonalService, TLAPS

Installing == {"write", "create", "enable", "recreate", "reenable", "start", "installed"}
Waiting == {"idle", "install", "uninstall"}

Types ==
    /\ artifact \in Registrations \cup {None}
    /\ task \in Registrations \cup {None}
    /\ lock \in Processes \cup {None}
    /\ pc \in [Processes -> Steps]
    /\ want \in [Processes -> Registrations \cup {None}]
    /\ before \in [Processes -> [artifact : Registrations \cup {None},
                                 task : Registrations \cup {None}]]

\* What a command at a step knows of the artifact, the task, whether it is
\* enabled, the registration it wants and its snapshots.
KnowsAt(step, a, t, e, w, b) ==
    /\ step \in Installing \cup {"install"} => w # None
    /\ step \in Installing \ {"write"} => a = w
    /\ step \in {"enable", "reenable", "start", "installed"} => t = w
    /\ step \in {"start", "installed"} => e
    /\ b.task # None => b.artifact # None
    /\ step \in {"remove file", "write task", "restore task", "remove", "uninstalled"} =>
         t = None
    /\ step \in {"write task", "restore task"} => b.task # None
    /\ step \in {"restore task", "restore enabled"} => a = b.task
    /\ step \in {"restore enabled", "write artifact", "restored"} => t = b.task
    /\ step = "restored" => a = b.artifact
    /\ step = "uninstalled" => a = None

Knows(p) ==
    /\ pc[p] \notin Waiting => lock = p
    /\ KnowsAt(pc[p], artifact, task, enabled, want[p], before[p])

IInv == Types /\ TaskHasArtifact /\ \A p \in Processes : Knows(p)

\* A step of the process inside the boundary concerns nobody else, because the
\* others wait for the lock: it keeps IInv if it knows enough where it goes.
LEMMA HolderMoves ==
    ASSUME IInv, NEW p \in Processes, NEW next \in Steps,
           pc[p] \notin Waiting, Goto(p, next), UNCHANGED <<lock, want, before>>,
           artifact' \in Registrations \cup {None}, task' \in Registrations \cup {None},
           TaskHasArtifact', KnowsAt(next, artifact', task', enabled', want[p], before[p])
    PROVE  IInv'
<1>1. pc' = [pc EXCEPT ![p] = next] /\ pc \in [Processes -> Steps]
  BY DEF Goto, IInv, Types
<1>2. Types'
  BY <1>1 DEF IInv, Types
<1>3. lock = p /\ p # None
  BY ServiceAssumption DEF IInv, Knows
<1>4. Knows(p)'
  BY <1>1, <1>3 DEF Knows
<1>5. ASSUME NEW q \in Processes, q # p PROVE Knows(q)'
  <2>1. pc[q] \in Waiting /\ pc'[q] = pc[q] /\ Knows(q)
    BY <1>1, <1>3, <1>5 DEF IInv, Knows
  <2> QED
    BY <2>1 DEF Knows, KnowsAt, Waiting, Installing
<1> QED
  BY <1>2, <1>4, <1>5 DEF IInv

\* What the process inside the boundary knows.
LEMMA HolderKnows ==
    ASSUME IInv, NEW p \in Processes
    PROVE  /\ artifact \in Registrations \cup {None}
           /\ task \in Registrations \cup {None}
           /\ want[p] \in Registrations \cup {None}
           /\ before[p].artifact \in Registrations \cup {None}
           /\ before[p].task \in Registrations \cup {None}
           /\ task # None => artifact # None
           /\ KnowsAt(pc[p], artifact, task, enabled, want[p], before[p])
BY DEF IInv, Types, TaskHasArtifact, Knows

LEMMA InitEstablishes == Init => IInv
BY DEF Init, IInv, Types, TaskHasArtifact, Knows, KnowsAt, Nothing, Steps, Waiting, Installing

\* commit and its shorter form without a change: what each step does to artifact
\* and task, and what is known where it goes.
LEMMA InstallPreserves ==
    ASSUME IInv, NEW p \in Processes,
           Write(p) \/ Create(p) \/ Enable(p) \/ Recreate(p) \/ Reenable(p) \/ Start(p)
    PROVE  IInv'
<1> USE HolderKnows, HolderMoves DEF KnowsAt, TaskHasArtifact, Installing, Waiting, Steps
<1>1. CASE Write(p)
  <2>1. /\ pc[p] = "write" /\ UNCHANGED <<lock, want, before>>
        /\ \/ artifact' = want[p] /\ UNCHANGED <<task, enabled>> /\ Goto(p, "create")
           \/ UNCHANGED <<artifact, task, enabled>> /\ Goto(p, "end")
    BY <1>1 DEF Write, At, File, SetArtifact, nativeVars, localVars
  <2> QED
    BY <2>1
<1>2. CASE Create(p)
  <2>1. /\ pc[p] = "create" /\ UNCHANGED <<lock, want, before>>
        /\ \/ task' = artifact /\ enabled' = TRUE /\ UNCHANGED artifact /\ Goto(p, "enable")
           \/ task' \in {task, artifact} /\ UNCHANGED artifact /\ Goto(p, "end")
    BY <1>2 DEF Create, At, Command, CreateTask, nativeVars, localVars
  <2> QED
    BY <2>1
<1>3. CASE Enable(p)
  <2>1. /\ pc[p] = "enable" /\ UNCHANGED <<lock, want, before>>
        /\ \/ enabled' = TRUE /\ UNCHANGED <<artifact, task>> /\ Goto(p, "start")
           \/ UNCHANGED <<artifact, task>> /\ Goto(p, "end")
    BY <1>3 DEF Enable, At, Command, EnableTask, nativeVars, localVars
  <2> QED
    BY <2>1
<1>4. CASE Recreate(p)
  <2>1. /\ pc[p] = "recreate" /\ UNCHANGED <<lock, want, before>>
        /\ \/ task' = artifact /\ enabled' = TRUE /\ UNCHANGED artifact /\ Goto(p, "reenable")
           \/ task' \in {task, artifact} /\ UNCHANGED artifact /\ Goto(p, "failed")
    BY <1>4 DEF Recreate, At, Command, CreateTask, nativeVars, localVars
  <2> QED
    BY <2>1
<1>5. CASE Reenable(p)
  <2>1. /\ pc[p] = "reenable" /\ UNCHANGED <<lock, want, before>>
        /\ \/ enabled' = TRUE /\ UNCHANGED <<artifact, task>> /\ Goto(p, "start")
           \/ UNCHANGED <<artifact, task>> /\ Goto(p, "failed")
    BY <1>5 DEF Reenable, At, Command, EnableTask, nativeVars, localVars
  <2> QED
    BY <2>1
<1>6. CASE Start(p)
  <2>1. /\ pc[p] = "start" /\ UNCHANGED <<lock, want, before>>
        /\ UNCHANGED <<artifact, task>>
        /\ Goto(p, "installed") \/ Goto(p, "failed")
    BY <1>6 DEF Start, At, Command, RunTask, nativeVars, localVars
  <2>2. enabled => enabled'
    BY <1>6 DEF Start, At, Command, RunTask, nativeVars
  <2> QED
    BY <2>1, <2>2
<1> QED
  BY <1>1, <1>2, <1>3, <1>4, <1>5, <1>6

\* The rollback.
LEMMA RestorePreserves ==
    ASSUME IInv, NEW p \in Processes,
           RestoreEnd(p) \/ RestoreDisable(p) \/ RestoreDelete(p) \/ RestoreRemove(p)
           \/ RestoreWrite(p) \/ RestoreCreate(p) \/ RestoreEnable(p) \/ RestoreArtifact(p)
    PROVE  IInv'
<1> USE HolderKnows, HolderMoves DEF KnowsAt, TaskHasArtifact, Installing, Waiting, Steps
<1>1. CASE RestoreEnd(p)
  <2>1. /\ pc[p] = "end" /\ UNCHANGED <<lock, want, before>>
        /\ \/ UNCHANGED <<artifact, task>> /\ Goto(p, "disable task")
           \/ task = None /\ UNCHANGED <<artifact, task>> /\ Goto(p, "remove file")
           \/ UNCHANGED <<artifact, task>> /\ Goto(p, "failed")
    BY <1>1 DEF RestoreEnd, At, Command, Look, EndTask, nativeVars, localVars
  <2> QED
    BY <2>1
<1>2. CASE RestoreDisable(p)
  <2>1. /\ pc[p] = "disable task" /\ UNCHANGED <<lock, want, before>>
        /\ \/ UNCHANGED <<artifact, task>> /\ Goto(p, "delete task")
           \/ UNCHANGED <<artifact, task>> /\ Goto(p, "failed")
    BY <1>2 DEF RestoreDisable, At, Command, DisableTask, nativeVars, localVars
  <2> QED
    BY <2>1
<1>3. CASE RestoreDelete(p)
  <2>1. /\ pc[p] = "delete task" /\ UNCHANGED <<lock, want, before>>
        /\ \/ task' = None /\ UNCHANGED artifact /\ Goto(p, "remove file")
           \/ task' \in {task, None} /\ UNCHANGED artifact /\ Goto(p, "failed")
    BY <1>3 DEF RestoreDelete, At, Command, DeleteTask, nativeVars, localVars
  <2> QED
    BY <2>1
<1>4. CASE RestoreRemove(p)
  <2>1. /\ pc[p] = "remove file" /\ UNCHANGED <<lock, want, before>>
        /\ \/ before[p].task # None /\ artifact' = None /\ UNCHANGED task /\ Goto(p, "write task")
           \/ before[p].task = None /\ artifact' = None /\ UNCHANGED task /\ Goto(p, "write artifact")
           \/ UNCHANGED <<artifact, task>> /\ Goto(p, "failed")
    BY <1>4 DEF RestoreRemove, At, File, SetArtifact, nativeVars, localVars
  <2> QED
    BY <2>1
<1>5. CASE RestoreWrite(p)
  <2>1. /\ pc[p] = "write task" /\ UNCHANGED <<lock, want, before>>
        /\ \/ artifact' = before[p].task /\ UNCHANGED task /\ Goto(p, "restore task")
           \/ UNCHANGED <<artifact, task>> /\ Goto(p, "failed")
    BY <1>5 DEF RestoreWrite, At, File, SetArtifact, nativeVars, localVars
  <2> QED
    BY <2>1
<1>6. CASE RestoreCreate(p)
  <2>1. /\ pc[p] = "restore task" /\ UNCHANGED <<lock, want, before>>
        /\ \/ task' = artifact /\ UNCHANGED artifact /\ Goto(p, "restore enabled")
           \/ task' \in {task, artifact} /\ UNCHANGED artifact /\ Goto(p, "failed")
    BY <1>6 DEF RestoreCreate, At, Command, CreateTask, nativeVars, localVars
  <2> QED
    BY <2>1
<1>7. CASE RestoreEnable(p)
  <2>1. /\ pc[p] = "restore enabled" /\ UNCHANGED <<lock, want, before>>
        /\ \/ UNCHANGED <<artifact, task>> /\ Goto(p, "write artifact")
           \/ UNCHANGED <<artifact, task>> /\ Goto(p, "failed")
    BY <1>7 DEF RestoreEnable, At, Command, EnableTask, nativeVars, localVars
  <2> QED
    BY <2>1
<1>8. CASE RestoreArtifact(p)
  <2>1. /\ pc[p] = "write artifact" /\ UNCHANGED <<lock, want, before>>
        /\ \/ artifact' = before[p].artifact /\ UNCHANGED task /\ Goto(p, "restored")
           \/ UNCHANGED <<artifact, task>> /\ Goto(p, "failed")
    BY <1>8 DEF RestoreArtifact, At, File, SetArtifact, nativeVars, localVars
  <2> QED
    BY <2>1
<1> QED
  BY <1>1, <1>2, <1>3, <1>4, <1>5, <1>6, <1>7, <1>8

\* uninstallLocked after its inspection.
LEMMA UninstallPreserves ==
    ASSUME IInv, NEW p \in Processes,
           Stop(p) \/ WaitForStopped(p) \/ Disable(p) \/ Delete(p) \/ Remove(p)
    PROVE  IInv'
<1> USE HolderKnows, HolderMoves DEF KnowsAt, TaskHasArtifact, Installing, Waiting, Steps
<1>1. CASE Stop(p)
  <2>1. /\ pc[p] = "stop" /\ UNCHANGED <<lock, want, before>>
        /\ \/ UNCHANGED <<artifact, task>> /\ Goto(p, "wait")
           \/ UNCHANGED <<artifact, task>> /\ Goto(p, "disable")
           \/ UNCHANGED <<artifact, task>> /\ Goto(p, "failed")
    BY <1>1 DEF Stop, At, Command, Look, EndTask, nativeVars, localVars
  <2> QED
    BY <2>1
<1>2. CASE WaitForStopped(p)
  <2>1. /\ pc[p] = "wait" /\ UNCHANGED <<lock, want, before>>
        /\ \/ UNCHANGED <<artifact, task>> /\ Goto(p, "disable")
           \/ UNCHANGED <<artifact, task>> /\ Goto(p, "failed")
    BY <1>2 DEF WaitForStopped, At, Look, nativeVars, localVars
  <2> QED
    BY <2>1
<1>3. CASE Disable(p)
  <2>1. /\ pc[p] = "disable" /\ UNCHANGED <<lock, want, before>>
        /\ \/ artifact = None /\ UNCHANGED <<artifact, task>> /\ Goto(p, "uninstalled")
           \/ UNCHANGED <<artifact, task>> /\ Goto(p, "delete")
           \/ UNCHANGED <<artifact, task>> /\ Goto(p, "failed")
    BY <1>3 DEF Disable, At, Command, Look, DisableTask, nativeVars, localVars
  <2> QED
    BY <2>1
<1>4. CASE Delete(p)
  <2>1. /\ pc[p] = "delete" /\ UNCHANGED <<lock, want, before>>
        /\ \/ task' = None /\ UNCHANGED artifact /\ Goto(p, "remove")
           \/ task' \in {task, None} /\ UNCHANGED artifact /\ Goto(p, "failed")
    BY <1>4 DEF Delete, At, Command, Look, DeleteTask, nativeVars, localVars
  <2> QED
    BY <2>1
<1>5. CASE Remove(p)
  <2>1. /\ pc[p] = "remove" /\ UNCHANGED <<lock, want, before>>
        /\ \/ artifact' = None /\ UNCHANGED task /\ Goto(p, "uninstalled")
           \/ UNCHANGED <<artifact, task>> /\ Goto(p, "failed")
    BY <1>5 DEF Remove, At, File, SetArtifact, nativeVars, localVars
  <2> QED
    BY <2>1
<1> QED
  BY <1>1, <1>2, <1>3, <1>4, <1>5

\* The two steps that enter the boundary: nobody was inside.
LEMMA InspectionPreserves ==
    ASSUME IInv, NEW p \in Processes, InspectInstall(p) \/ InspectUninstall(p)
    PROVE  IInv'
<1>1. lock = None /\ lock' = p /\ p # None
  BY ServiceAssumption DEF InspectInstall, InspectUninstall
<1>2. UNCHANGED <<artifact, task, enabled, want>>
  BY DEF InspectInstall, InspectUninstall, nativeVars, localVars
<1>3. /\ \E step \in Steps : pc' = [pc EXCEPT ![p] = step]
      /\ \/ before' = [before EXCEPT ![p] = [artifact |-> artifact, task |-> task]]
         \/ before' = before
  BY DEF InspectInstall, InspectUninstall, Goto, Steps, localVars
<1>4. Types'
  BY <1>1, <1>2, <1>3 DEF IInv, Types
<1>5. ASSUME NEW q \in Processes, q # p PROVE Knows(q)'
  <2>1. pc[q] \in Waiting /\ Knows(q)
    BY <1>1, ServiceAssumption DEF IInv, Knows
  <2>2. pc'[q] = pc[q] /\ before'[q] = before[q]
    BY <1>3, <1>5 DEF IInv, Types
  <2> QED
    BY <1>2, <2>1, <2>2 DEF Knows, KnowsAt, Waiting, Installing
<1>6. KnowsAt(pc[p], artifact, task, enabled, want[p], before[p]) /\ TaskHasArtifact
  BY DEF IInv, Knows
<1>7. ASSUME InspectInstall(p) PROVE Knows(p)'
  <2>1. /\ pc[p] = "install"
        /\ \/ pc'[p] = "recreate" /\ artifact = want[p]
           \/ pc'[p] \in {"write", "failed"}
        /\ before'[p] = [artifact |-> artifact, task |-> task]
    BY <1>7 DEF InspectInstall, Goto, IInv, Types
  <2>2. want[p] # None /\ (before'[p].task # None => before'[p].artifact # None)
    BY <1>6, <2>1 DEF KnowsAt, TaskHasArtifact
  <2> QED
    BY <1>1, <1>2, <2>1, <2>2 DEF Knows, KnowsAt, Waiting, Installing
<1>8. ASSUME InspectUninstall(p) PROVE Knows(p)'
  <2>1. /\ \/ pc'[p] = "uninstalled" /\ artifact = None /\ task = None
           \/ pc'[p] \in {"stop", "failed"}
        /\ before'[p] = before[p]
    BY <1>8 DEF InspectUninstall, Goto, IInv, Types, localVars
  <2> QED
    BY <1>1, <1>2, <1>6, <2>1 DEF Knows, KnowsAt, Waiting, Installing
<1>9. Knows(p)'
  BY <1>7, <1>8
<1> QED
  BY <1>2, <1>4, <1>5, <1>9 DEF IInv, TaskHasArtifact

\* The steps outside the boundary, and those that leave it.
LEMMA OutsidePreserves ==
    ASSUME IInv, NEW p \in Processes,
           \/ \E r \in Registrations : BeginInstall(p, r)
           \/ BeginUninstall(p) \/ Return(p) \/ Crash(p)
    PROVE  IInv'
<1> USE DEF IInv, Types, TaskHasArtifact, Goto, nativeVars, localVars
<1>1. UNCHANGED <<artifact, task, enabled>>
  BY DEF BeginInstall, BeginUninstall, Return, Crash
<1>2. ASSUME NEW r \in Registrations, BeginInstall(p, r) PROVE IInv'
  <2>1. /\ pc[p] = "idle" /\ pc' = [pc EXCEPT ![p] = "install"]
        /\ want' = [want EXCEPT ![p] = r]
        /\ UNCHANGED <<lock, before>>
    BY <1>2 DEF BeginInstall
  <2>2. Types'
    BY <1>1, <2>1 DEF Steps
  <2>3. ASSUME NEW q \in Processes PROVE Knows(q)'
    BY <1>1, <2>1, ServiceAssumption DEF Knows, KnowsAt, Waiting, Installing
  <2> QED
    BY <1>1, <2>2, <2>3
<1>3. CASE BeginUninstall(p)
  <2>1. /\ pc[p] = "idle" /\ pc' = [pc EXCEPT ![p] = "uninstall"]
        /\ UNCHANGED <<lock, want, before>>
    BY <1>3 DEF BeginUninstall
  <2>2. Types'
    BY <1>1, <2>1 DEF Steps
  <2>3. ASSUME NEW q \in Processes PROVE Knows(q)'
    BY <1>1, <2>1 DEF Knows, KnowsAt, Waiting, Installing
  <2> QED
    BY <1>1, <2>2, <2>3
<1>4. CASE Return(p) \/ Crash(p)
  <2>1. /\ pc' = [pc EXCEPT ![p] = "idle"]
        /\ want' = [want EXCEPT ![p] = None]
        /\ before' = [before EXCEPT ![p] = Nothing]
        /\ lock' \in {lock, None}
        /\ lock' # lock => lock = p
    BY <1>4 DEF Return, Crash, Knows, KnowsAt, Waiting
  <2>2. Types'
    BY <1>1, <2>1 DEF Nothing, Steps
  <2>3. Knows(p)'
    BY <1>1, <2>1 DEF Knows, KnowsAt, Nothing, Waiting, Installing
  <2>4. ASSUME NEW q \in Processes, q # p PROVE Knows(q)'
    BY <1>1, <2>1, <2>4 DEF Knows, KnowsAt
  <2> QED
    BY <1>1, <2>2, <2>3, <2>4
<1> QED
  BY <1>2, <1>3, <1>4

LEMMA StepPreserves == IInv /\ [Next]_vars => IInv'
<1> SUFFICES ASSUME IInv, [Next]_vars PROVE IInv'
  OBVIOUS
<1>1. ASSUME NEW p \in Processes, Install(p) \/ Restore(p) \/ Uninstall(p) PROVE IInv'
  BY <1>1, InstallPreserves, RestorePreserves, UninstallPreserves, InspectionPreserves
  DEF Install, Restore, Uninstall
<1>2. CASE ServiceMoves \/ SignIn \/ UNCHANGED vars
  <2>1. UNCHANGED <<artifact, task, enabled, lock, pc, want, before>>
    BY <1>2 DEF ServiceMoves, SignIn, vars, nativeVars, localVars
  <2> QED
    BY <2>1 DEF IInv, Types, TaskHasArtifact, Knows, KnowsAt
<1> QED
  BY <1>1, <1>2, OutsidePreserves DEF Next

\* The invariant holds of every history of failures, kills and crashes.
THEOREM CommandsKnow == Spec => []IInv
BY InitEstablishes, StepPreserves, PTL DEF Spec

\* The Task Scheduler never holds a task whose artifact is gone, so the uninstall
\* command, which looks for the artifact, always finds what it has to remove.
THEOREM TasksKeepArtifacts == Spec => []TaskHasArtifact
<1>1. IInv => TaskHasArtifact
  BY DEF IInv
<1> QED
  BY <1>1, CommandsKnow, PTL

\* A rollback that ran to its end restored the artifact and the task exactly.
THEOREM RollbackIsExact == Spec => []RestoreIsExact
<1>1. IInv => RestoreIsExact
  BY DEF IInv, RestoreIsExact, Knows, KnowsAt, Types
<1> QED
  BY <1>1, CommandsKnow, PTL

\* A command that succeeds has left both sides as it promises.
THEOREM SuccessIsWhole == Spec => []OutcomeIsWhole
<1>1. IInv => OutcomeIsWhole
  BY DEF IInv, OutcomeIsWhole, Knows, KnowsAt, Installing
<1> QED
  BY <1>1, CommandsKnow, PTL

-----------------------------------------------------------------------------
\* What a command that is about to delete the task has made of its instance:
\* Uninstall has seen it gone, Restore has told it to end.  While the command
\* is inside the boundary nobody starts it again.
EndedAt(step, t, s) ==
    /\ step \in {"disable", "delete"} => t = None \/ s = "down"
    /\ step \in {"disable task", "delete task"} => t = None \/ s \in {"down", "stopping"}

Ended == \A p \in Processes : EndedAt(pc[p], task, service)

LEMMA HolderEnds ==
    ASSUME IInv, NEW p \in Processes, NEW next, pc[p] \notin Waiting, Goto(p, next),
           EndedAt(next, task', service')
    PROVE  Ended'
<1>1. pc' = [pc EXCEPT ![p] = next] /\ pc \in [Processes -> Steps]
  BY DEF Goto, IInv, Types
<1>2. ASSUME NEW q \in Processes, q # p PROVE EndedAt(pc'[q], task', service')
  <2>1. pc[q] \in Waiting /\ pc'[q] = pc[q]
    BY <1>1, <1>2 DEF IInv, Knows
  <2> QED
    BY <2>1 DEF EndedAt, Waiting
<1>3. EndedAt(pc'[p], task', service')
  BY <1>1
<1> QED
  BY <1>2, <1>3 DEF Ended

LEMMA HolderStepsEnd ==
    ASSUME IInv, Ended, NEW p \in Processes, Install(p) \/ Restore(p) \/ Uninstall(p)
    PROVE  Ended'
<1> DEFINE Others == Steps \ {"disable", "delete", "disable task", "delete task"}
<1>1. ASSUME NEW next \in Others, pc[p] \notin Waiting, Goto(p, next) PROVE Ended'
  <2>1. EndedAt(next, task', service')
    BY DEF EndedAt
  <2> QED
    BY <1>1, <2>1, HolderEnds
<1>2. EndedAt(pc[p], task, service)
  BY DEF Ended
<1>3. CASE InspectInstall(p) \/ InspectUninstall(p)
  <2>1. \E next \in Others : pc' = [pc EXCEPT ![p] = next]
    BY <1>3 DEF InspectInstall, InspectUninstall, Goto, Steps
  <2>2. UNCHANGED <<task, service>> /\ pc \in [Processes -> Steps]
    BY <1>3 DEF InspectInstall, InspectUninstall, nativeVars, IInv, Types
  <2> QED
    BY <2>1, <2>2 DEF Ended, EndedAt
<1>4. CASE Write(p) \/ Create(p) \/ Enable(p) \/ Recreate(p) \/ Reenable(p) \/ Start(p)
  <2>1. pc[p] \notin Waiting /\ \E next \in Others : Goto(p, next)
    BY <1>4 DEF Write, Create, Enable, Recreate, Reenable, Start, At, Command, File, Waiting, Steps
  <2> QED
    BY <1>1, <2>1
<1>5. CASE RestoreEnd(p)
  <2>1. pc[p] \notin Waiting
    BY <1>5 DEF RestoreEnd, At, Waiting
  <2>2. \/ (\E next \in Others : Goto(p, next))
        \/ Goto(p, "disable task") /\ service' \in {"down", "stopping"}
    BY <1>5 DEF RestoreEnd, At, Command, Look, EndTask, nativeVars, Steps
  <2>3. EndedAt("disable task", task', service') \/ service' \notin {"down", "stopping"}
    BY DEF EndedAt
  <2> QED
    BY <1>1, <2>1, <2>2, <2>3, HolderEnds
<1>6. CASE RestoreDisable(p)
  <2>1. pc[p] = "disable task" /\ UNCHANGED <<task, service>>
        /\ (Goto(p, "delete task") \/ Goto(p, "failed"))
    BY <1>6 DEF RestoreDisable, At, Command, DisableTask, nativeVars
  <2>2. EndedAt("delete task", task', service') /\ EndedAt("failed", task', service')
    BY <1>2, <2>1 DEF EndedAt
  <2>3. pc[p] \notin Waiting
    BY <2>1 DEF Waiting
  <2> QED
    BY <2>1, <2>2, <2>3, HolderEnds
<1>7. CASE RestoreDelete(p) \/ RestoreRemove(p) \/ RestoreWrite(p) \/ RestoreCreate(p)
           \/ RestoreEnable(p) \/ RestoreArtifact(p)
  <2>1. pc[p] \notin Waiting /\ \E next \in Others : Goto(p, next)
    BY <1>7 DEF RestoreDelete, RestoreRemove, RestoreWrite, RestoreCreate, RestoreEnable,
                RestoreArtifact, At, Command, File, Waiting, Steps
  <2> QED
    BY <1>1, <2>1
<1>8. CASE Stop(p) \/ WaitForStopped(p)
  <2>1. pc[p] \notin Waiting
    BY <1>8 DEF Stop, WaitForStopped, At, Waiting
  <2>2. \/ (\E next \in Others : Goto(p, next))
        \/ Goto(p, "disable") /\ (task' = None \/ service' = "down")
    BY <1>8 DEF Stop, WaitForStopped, At, Command, Look, EndTask, nativeVars, Steps
  <2>3. task' = None \/ service' = "down" => EndedAt("disable", task', service')
    BY DEF EndedAt
  <2> QED
    BY <1>1, <2>1, <2>2, <2>3, HolderEnds
<1>9. CASE Disable(p)
  <2>1. /\ pc[p] = "disable" /\ UNCHANGED <<task, service>>
        /\ Goto(p, "delete") \/ Goto(p, "uninstalled") \/ Goto(p, "failed")
    BY <1>9 DEF Disable, At, Command, Look, DisableTask, nativeVars
  <2>2. /\ EndedAt("delete", task', service') /\ EndedAt("uninstalled", task', service')
        /\ EndedAt("failed", task', service')
    BY <1>2, <2>1 DEF EndedAt
  <2>3. pc[p] \notin Waiting
    BY <2>1 DEF Waiting
  <2> QED
    BY <2>1, <2>2, <2>3, HolderEnds
<1>10. CASE Delete(p) \/ Remove(p)
  <2>1. pc[p] \notin Waiting /\ \E next \in Others : Goto(p, next)
    BY <1>10 DEF Delete, Remove, At, Command, File, Look, Waiting, Steps
  <2> QED
    BY <1>1, <2>1
<1> QED
  BY <1>3, <1>4, <1>5, <1>6, <1>7, <1>8, <1>9, <1>10 DEF Install, Restore, Uninstall

LEMMA StepEnds == IInv /\ Ended /\ [Next]_vars => Ended'
<1> SUFFICES ASSUME IInv, Ended, [Next]_vars PROVE Ended'
  OBVIOUS
<1>1. ASSUME NEW p \in Processes, Install(p) \/ Restore(p) \/ Uninstall(p) PROVE Ended'
  BY <1>1, HolderStepsEnd
<1>2. ASSUME NEW p \in Processes,
             \/ \E r \in Registrations : BeginInstall(p, r)
             \/ BeginUninstall(p) \/ Return(p) \/ Crash(p)
      PROVE  Ended'
  <2>1. UNCHANGED <<task, service>> /\ pc \in [Processes -> Steps]
        /\ \E next \in {"install", "uninstall", "idle"} : pc' = [pc EXCEPT ![p] = next]
    BY <1>2 DEF BeginInstall, BeginUninstall, Return, Crash, Goto, nativeVars, IInv, Types
  <2> QED
    BY <2>1 DEF Ended, EndedAt
<1>3. CASE ServiceMoves
  <2>1. UNCHANGED <<task, pc>> /\ (service = "starting" \/ service' = "down")
    BY <1>3 DEF ServiceMoves
  <2> QED
    BY <2>1 DEF Ended, EndedAt
<1>4. CASE SignIn
  <2>1. lock = None /\ UNCHANGED pc
    BY <1>4 DEF SignIn
  <2>2. \A p \in Processes : pc[p] \in Waiting
    BY <2>1, ServiceAssumption DEF IInv, Knows
  <2> QED
    BY <2>1, <2>2 DEF Ended, EndedAt, Waiting
<1>5. CASE UNCHANGED vars
  BY <1>5 DEF vars, nativeVars, Ended
<1> QED
  BY <1>1, <1>2, <1>3, <1>4, <1>5 DEF Next

\* The step that deletes a task.
LEMMA DeletesEnded ==
    ASSUME IInv, Ended, [Next]_vars, task # None, task' = None
    PROVE  \/ service = "down"
           \/ service = "stopping" /\ pc[lock] = "delete task"
<1>1. PICK p \in Processes : Install(p) \/ Restore(p) \/ Uninstall(p)
  BY DEF Next, BeginInstall, BeginUninstall, Return, Crash, ServiceMoves, SignIn, vars, nativeVars
<1>2. CASE Delete(p) \/ RestoreDelete(p)
  <2>1. pc[p] \in {"delete", "delete task"} /\ EndedAt(pc[p], task, service)
    BY <1>2 DEF Delete, RestoreDelete, At, Ended
  <2>2. lock = p
    BY <2>1 DEF IInv, Knows, Waiting
  <2> QED
    BY <2>1, <2>2 DEF EndedAt
<1>3. CASE InspectInstall(p) \/ Write(p) \/ Enable(p) \/ Reenable(p) \/ Start(p)
  BY <1>3 DEF InspectInstall, Write, Enable, Reenable, Start, At, Command, File, SetArtifact,
              EnableTask, RunTask, nativeVars
<1>4. CASE Create(p) \/ Recreate(p)
  BY <1>4 DEF Create, Recreate, Command, CreateTask, nativeVars
<1>5. CASE RestoreCreate(p)
  <2>1. pc[p] = "restore task" /\ KnowsAt(pc[p], artifact, task, enabled, want[p], before[p])
    BY <1>5 DEF RestoreCreate, At, IInv, Knows
  <2>2. artifact # None
    BY <2>1 DEF KnowsAt
  <2> QED
    BY <1>5, <2>2 DEF RestoreCreate, Command, CreateTask, nativeVars
<1>6. CASE RestoreEnd(p) \/ RestoreDisable(p) \/ RestoreRemove(p) \/ RestoreWrite(p)
           \/ RestoreEnable(p) \/ RestoreArtifact(p)
  BY <1>6 DEF RestoreEnd, RestoreDisable, RestoreRemove, RestoreWrite, RestoreEnable, RestoreArtifact,
              At, Command, File, Look, SetArtifact, EndTask, DisableTask, EnableTask, nativeVars
<1>7. CASE InspectUninstall(p) \/ Stop(p) \/ WaitForStopped(p) \/ Disable(p) \/ Remove(p)
  BY <1>7 DEF InspectUninstall, Stop, WaitForStopped, Disable, Remove, At, Command, File, Look,
              SetArtifact, EndTask, DisableTask, nativeVars
<1> QED
  BY <1>1, <1>2, <1>3, <1>4, <1>5, <1>6, <1>7 DEF Install, Restore, Uninstall

\* Neither Uninstall nor Restore deletes a task over an instance that nobody
\* told to end; Uninstall deletes it only when the instance is gone.
THEOREM NoTaskDeletedRunning == Spec => DeletedTasksAreEnded
<1>1. Init => Ended
  BY DEF Init, Ended, EndedAt
<1>2. Spec => []Ended
  BY <1>1, CommandsKnow, StepEnds, PTL DEF Spec
<1>3. IInv /\ Ended /\ [Next]_vars =>
         [task # None /\ task' = None =>
             \/ service = "down"
             \/ service = "stopping" /\ pc[lock] = "delete task"]_vars
  BY DeletesEnded
<1> QED
  BY <1>2, <1>3, CommandsKnow, PTL DEF Spec, DeletedTasksAreEnded
=============================================================================
