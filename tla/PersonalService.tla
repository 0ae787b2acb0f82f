--------------------------- MODULE PersonalService ---------------------------
(***************************************************************************)
(* Install and Uninstall of the personal Server (internal/personalsvc)     *)
(* through the Windows Task Scheduler adapter (internal/personalsvchost).  *)
(*                                                                         *)
(* A command inspects and changes two things that no transaction spans:    *)
(* the artifact, an XML file replaced by rename, and the task schtasks     *)
(* creates from it.  The operation boundary admits one command at a time.  *)
(* Any native step may fail; a schtasks command that is killed because the *)
(* context is done fails although it may have taken effect.  A process may *)
(* die between any two steps, and the system then releases its lock.       *)
(***************************************************************************)
CONSTANTS
    Processes,      \* invocations of the command line
    Registrations,  \* the definitions they may want to install
    None

ASSUME ServiceAssumption == None \notin Registrations \cup Processes

VARIABLES
    artifact,   \* the registration in the file, or None
    task,       \* the registration the Task Scheduler holds, or None
    enabled,    \* the task is enabled
    service,    \* its instance: "down", "starting", "up" or "stopping"
    lock,       \* the process inside OperationBoundary.Run, or None
    pc,         \* pc[p]: the next step of p
    want,       \* want[p]: the registration p installs, or None
    live,       \* live[p]: the endpoint answered before p asked for the lock
    before      \* before[p]: the snapshots Restore goes back to

nativeVars == <<artifact, task, enabled, service>>
localVars == <<want, live, before>>
vars == <<nativeVars, lock, pc, localVars>>

Steps ==
    {"idle", "install", "write", "create", "enable", "recreate", "reenable", "start",
     "end", "disable task", "delete task", "remove file", "write task", "restore task",
     "restore enabled", "write artifact",
     "uninstall", "stop", "wait", "disable", "delete", "remove",
     "installed", "restored", "uninstalled", "failed"}

TypeOK ==
    /\ artifact \in Registrations \cup {None}
    /\ task \in Registrations \cup {None}
    /\ enabled \in BOOLEAN
    /\ service \in {"down", "starting", "up", "stopping"}
    /\ lock \in Processes \cup {None}
    /\ pc \in [Processes -> Steps]
    /\ want \in [Processes -> Registrations \cup {None}]
    /\ live \in [Processes -> BOOLEAN]
    /\ before \in [Processes -> [artifact : Registrations \cup {None},
                                 task : Registrations \cup {None}]]

Nothing == [artifact |-> None, task |-> None]

Init ==
    /\ artifact = None
    /\ task = None
    /\ enabled = FALSE
    /\ service = "down"
    /\ lock = None
    /\ pc = [p \in Processes |-> "idle"]
    /\ want = [p \in Processes |-> None]
    /\ live = [p \in Processes |-> FALSE]
    /\ before = [p \in Processes |-> Nothing]
-----------------------------------------------------------------------------
\* What the native steps do.  Create replaces the task by what the file holds,
\* and the document enables it; an instance of the task it replaces stays its
\* instance.  A second instance of a task is not started.
SetArtifact(r) == artifact' = r /\ UNCHANGED <<task, enabled, service>>
CreateTask == task' = artifact /\ enabled' = TRUE /\ UNCHANGED <<artifact, service>>
EnableTask == enabled' = TRUE /\ UNCHANGED <<artifact, task, service>>
DisableTask == enabled' = FALSE /\ UNCHANGED <<artifact, task, service>>

DeleteTask ==
    /\ task' = None
    /\ enabled' = FALSE
    /\ service' = "down"
    /\ UNCHANGED artifact

RunTask ==
    /\ service' = IF service = "down" THEN "starting" ELSE service
    /\ UNCHANGED <<artifact, task, enabled>>

EndTask ==
    /\ service' = IF service = "down" THEN "down" ELSE "stopping"
    /\ UNCHANGED <<artifact, task, enabled>>

Goto(p, step) == pc' = [pc EXCEPT ![p] = step]

At(p, step) == pc[p] = step /\ UNCHANGED <<lock, localVars>>

\* A schtasks command: it succeeds, or it fails with or without its effect.
Command(p, Effect, next, recover) ==
    \/ Effect /\ Goto(p, next)
    \/ (Effect \/ UNCHANGED nativeVars) /\ Goto(p, recover)

\* A change of the file: it succeeds, or it fails and leaves the file.
File(p, r, next, recover) ==
    \/ SetArtifact(r) /\ Goto(p, next)
    \/ UNCHANGED nativeVars /\ Goto(p, recover)

\* A step that only inspects: it finds nothing to do, or the inspection fails.
Look(p, next) == UNCHANGED nativeVars /\ (Goto(p, next) \/ Goto(p, "failed"))
-----------------------------------------------------------------------------
\* Install probes the endpoint before it asks for the lock.  A Server started
\* by hand may answer as well.
BeginInstall(p, r) ==
    /\ pc[p] = "idle"
    /\ Goto(p, "install")
    /\ want' = [want EXCEPT ![p] = r]
    /\ \E answer \in BOOLEAN :
        /\ service = "up" => answer
        /\ live' = [live EXCEPT ![p] = answer]
    /\ UNCHANGED <<nativeVars, lock, before>>

\* The uninstall command looks for the artifact before it asks for the lock,
\* and does nothing without one.
BeginUninstall(p) ==
    /\ pc[p] = "idle"
    /\ artifact # None
    /\ Goto(p, "uninstall")
    /\ UNCHANGED <<nativeVars, lock, localVars>>

\* installLocked: inspect both sides and decide whether anything changes.
InspectInstall(p) ==
    /\ pc[p] = "install"
    /\ lock = None
    /\ lock' = p
    /\ before' = [before EXCEPT ![p] = [artifact |-> artifact, task |-> task]]
    /\ \/ artifact = want[p] /\ task \in {want[p], None} /\ Goto(p, "recreate")
       \/ ~(artifact = want[p] /\ task \in {want[p], None}) /\ Goto(p, "write")
       \/ Goto(p, "failed")
    /\ UNCHANGED <<nativeVars, want, live>>

\* commit: Write, then Enable, which creates and enables the task.
Write(p) == At(p, "write") /\ File(p, want[p], "create", "end")

Create(p) ==
    /\ At(p, "create")
    /\ artifact # None
    /\ Command(p, CreateTask, "enable", "end")

Enable(p) == At(p, "enable") /\ Command(p, EnableTask, "start", "end")

\* installLocked without a change: Enable alone, and no Restore when it fails.
Recreate(p) ==
    /\ At(p, "recreate")
    /\ artifact # None
    /\ Command(p, CreateTask, "reenable", "failed")

Reenable(p) == At(p, "reenable") /\ Command(p, EnableTask, "start", "failed")

\* Start, unless the endpoint answered; a failure is reported after the commit.
Start(p) ==
    /\ At(p, "start")
    /\ \/ live[p] /\ UNCHANGED nativeVars /\ Goto(p, "installed")
       \/ ~live[p] /\ Command(p, RunTask, "installed", "failed")
-----------------------------------------------------------------------------
\* Restore, with a context of its own.  It gives up at the first failure.
RestoreEnd(p) ==
    /\ At(p, "end")
    /\ \/ task # None /\ service # "down" /\ Command(p, EndTask, "disable task", "failed")
       \/ task # None /\ service = "down" /\ Look(p, "disable task")
       \/ task = None /\ Look(p, "remove file")

RestoreDisable(p) ==
    At(p, "disable task") /\ Command(p, DisableTask, "delete task", "failed")

RestoreDelete(p) ==
    At(p, "delete task") /\ Command(p, DeleteTask, "remove file", "failed")

RestoreRemove(p) ==
    /\ At(p, "remove file")
    /\ File(p, None, IF before[p].task # None THEN "write task"
                     ELSE "write artifact", "failed")

\* Mutant: the previous task is inferred from the previous artifact.
MutantRestoreWrite(p) ==
    At(p, "write task") /\ File(p, before[p].artifact, "restore task", "failed")

\* The previous task is created from a file written for that purpose.
RestoreWrite(p) ==
    At(p, "write task") /\ File(p, before[p].task, "restore task", "failed")

RestoreCreate(p) ==
    At(p, "restore task") /\ Command(p, CreateTask, "restore enabled", "failed")

RestoreEnable(p) ==
    At(p, "restore enabled") /\ Command(p, EnableTask, "write artifact", "failed")

\* The previous artifact, or none.
RestoreArtifact(p) ==
    At(p, "write artifact") /\ File(p, before[p].artifact, "restored", "failed")
-----------------------------------------------------------------------------
\* uninstallLocked: inspect, Stop, Disable, Remove.
InspectUninstall(p) ==
    /\ pc[p] = "uninstall"
    /\ lock = None
    /\ lock' = p
    /\ \/ artifact = None /\ task = None /\ Goto(p, "uninstalled")
       \/ ~(artifact = None /\ task = None) /\ Goto(p, "stop")
       \/ Goto(p, "failed")
    /\ UNCHANGED <<nativeVars, localVars>>

Stop(p) ==
    /\ At(p, "stop")
    /\ \/ task # None /\ service # "down" /\ Command(p, EndTask, "wait", "failed")
       \/ (task = None \/ service = "down") /\ Look(p, "disable")

\* Mutant: an instance that was told to end counts as stopped.
MutantWaitForStopped(p) == At(p, "wait") /\ Look(p, "disable")

\* waitForStopped: the instance is gone, or the timeout passes first.
WaitForStopped(p) ==
    /\ At(p, "wait")
    /\ \/ service = "down" /\ Look(p, "disable")
       \/ service # "down" /\ UNCHANGED nativeVars /\ Goto(p, "failed")

\* Disable; Remove follows only where there is an artifact.
Disable(p) ==
    /\ At(p, "disable")
    /\ LET next == IF artifact = None THEN "uninstalled" ELSE "delete"
       IN  \/ task # None /\ Command(p, DisableTask, next, "failed")
           \/ task = None /\ Look(p, next)

\* Mutant: Remove removes the artifact before the task.
MutantDelete(p) == At(p, "delete") /\ File(p, None, "remove", "failed")

\* Remove: the task first, then the artifact.
Delete(p) ==
    /\ At(p, "delete")
    /\ \/ task # None /\ Command(p, DeleteTask, "remove", "failed")
       \/ task = None /\ Look(p, "remove")

Remove(p) == At(p, "remove") /\ File(p, None, "uninstalled", "failed")
-----------------------------------------------------------------------------
\* The command returns and the boundary is left.
Return(p) ==
    /\ pc[p] \in {"installed", "restored", "uninstalled", "failed"}
    /\ lock' = None
    /\ Goto(p, "idle")
    /\ want' = [want EXCEPT ![p] = None]
    /\ live' = [live EXCEPT ![p] = FALSE]
    /\ before' = [before EXCEPT ![p] = Nothing]
    /\ UNCHANGED nativeVars

\* The process dies, or its context is done while it waits for the lock.
Crash(p) ==
    /\ pc[p] # "idle"
    /\ lock' = IF lock = p THEN None ELSE lock
    /\ Goto(p, "idle")
    /\ want' = [want EXCEPT ![p] = None]
    /\ live' = [live EXCEPT ![p] = FALSE]
    /\ before' = [before EXCEPT ![p] = Nothing]
    /\ UNCHANGED nativeVars

\* The instance begins to answer, or ends, by itself or because it was told to.
ServiceMoves ==
    /\ \/ service = "starting" /\ service' = "up"
       \/ service # "down" /\ service' = "down"
    /\ UNCHANGED <<artifact, task, enabled, lock, pc, localVars>>

\* The user signs in: no command of theirs is running.
SignIn ==
    /\ enabled
    /\ service = "down"
    /\ lock = None
    /\ service' = "starting"
    /\ UNCHANGED <<artifact, task, enabled, lock, pc, localVars>>

Install(p) ==
    \/ InspectInstall(p) \/ Write(p) \/ Create(p) \/ Enable(p)
    \/ Recreate(p) \/ Reenable(p) \/ Start(p)

Restore(p) ==
    \/ RestoreEnd(p) \/ RestoreDisable(p) \/ RestoreDelete(p) \/ RestoreRemove(p)
    \/ RestoreWrite(p) \/ RestoreCreate(p) \/ RestoreEnable(p) \/ RestoreArtifact(p)

Uninstall(p) ==
    \/ InspectUninstall(p) \/ Stop(p) \/ WaitForStopped(p) \/ Disable(p)
    \/ Delete(p) \/ Remove(p)

Next ==
    \/ \E p \in Processes, r \in Registrations : BeginInstall(p, r)
    \/ \E p \in Processes : BeginUninstall(p)
    \/ \E p \in Processes : Install(p) \/ Restore(p) \/ Uninstall(p)
    \/ \E p \in Processes : Return(p) \/ Crash(p)
    \/ ServiceMoves
    \/ SignIn

Spec == Init /\ [][Next]_vars
-----------------------------------------------------------------------------
\* A task never exists without an artifact, whatever failed, was killed or
\* died.  The uninstall command does nothing without an artifact, and Remove
\* refuses, so a task alone could never be removed again.
TaskHasArtifact == task # None => artifact # None

\* An install that failed before its commit and was rolled back to the end
\* leaves the artifact and the task as it found them, each by itself: they may
\* have differed, or one may have been absent, after an earlier crash.
RestoreIsExact ==
    \A p \in Processes : pc[p] = "restored" =>
        before[p] = [artifact |-> artifact, task |-> task]

\* What a command has done when it succeeds: Install leaves artifact and task as
\* wanted and enabled, Uninstall leaves neither.
OutcomeIsWhole ==
    \A p \in Processes :
        /\ pc[p] = "installed" => artifact = want[p] /\ task = want[p] /\ enabled
        /\ pc[p] = "uninstalled" => artifact = None /\ task = None

\* No task is deleted over an instance that nobody told to end: it would go on
\* serving without anything left to stop it by.  Uninstall deletes it only once
\* the instance has ended; Restore does not wait that long.
DeletedTasksAreEnded ==
    [][task # None /\ task' = None =>
        \/ service = "down"
        \/ service = "stopping" /\ pc[lock] = "delete task"]_vars
=============================================================================
