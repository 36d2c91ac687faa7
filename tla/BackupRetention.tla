--------------------------- MODULE BackupRetention ---------------------------
(***************************************************************************)
(* The life of the configuration backups: releases and restores add them,  *)
(* restores and open attention cases need them, and retention runs delete  *)
(* them, under one production lease and across crashes of both processes.  *)
(*                                                                         *)
(* The index (config_backups, config_retention_*, config_attention_cases,  *)
(* config_production_lease) is in the UI's database and survives; body is  *)
(* what the Agent has on disk.  A task of the UI is lost when the UI dies; *)
(* a removal the Agent has begun goes on when its caller is gone.          *)
(*                                                                         *)
(* Which backups a plan names is RetentionPlan's matter: here it may name  *)
(* any that it may ever name.  Items a plan keeps have no state of their   *)
(* own: to mark one kept changes nothing else.                             *)
(***************************************************************************)
EXTENDS Naturals, FiniteSets, FiniteSetsExt

CONSTANTS
  Existing, MaxBackups,  \* backups, in the order of their creation: those there are, and the bound
  Runs,                  \* the retention runs that may be planned
  MinimumComplete,       \* RetentionPolicy.MinimumComplete
  Faults,                \* what may fail: "store" (a write of the index), "agent" (a call)
  MaxCrashes             \* bound on the deaths of a process

ASSUME RetentionAssumption ==
  /\ Runs \intersect {"none", "operation"} = {}
  /\ MinimumComplete \in Nat \ {0}
  /\ Existing \in Nat /\ MaxBackups \in Nat /\ Existing <= MaxBackups
  /\ Faults \subseteq {"store", "agent"}
  /\ MaxCrashes \in Nat

None    == "none"
Backups == 1 .. MaxBackups

VARIABLES
  index,    \* config_backups.state; "none" before it is created
  body,     \* what the Agent has of it: none, whole, partial, gone
  manual,   \* manually_protected
  cases,    \* the backups open attention cases name
  run,      \* config_retention_runs.state
  item,     \* config_retention_items.state of the backups a run is to delete
  lease,    \* the owner of the production lease: None, "operation" or a run
  operation,\* the release or restore that is active, and the backups it refers to
  ui,       \* down, starting, serving
  task,     \* RunRetention
  agent,    \* the DeleteBackup the Agent is at
  crashes   \* deaths so far

vars == <<index, body, manual, cases, run, item, lease, operation, ui, task, agent, crashes>>

Terminal == {"succeeded", "failed", "needs_attention"}

NoOperation == [kind |-> None, target |-> 0, backup |-> 0]
NoTask      == [at |-> None, end |-> None]
Idle        == [at |-> None, backup |-> 0]

Complete == {b \in Backups : index[b] = "complete"}

\* backup_id of the active release; target_backup_id and safety_backup_id of the active restore
InUse == {operation.target, operation.backup} \ {0}

TypeOK ==
  /\ index \in [Backups -> {"none", "complete", "deleting", "deleted"}]
  /\ body \in [Backups -> {"none", "whole", "partial", "gone"}]
  /\ manual \subseteq Backups /\ cases \subseteq Backups
  /\ run \in [Runs -> {None, "planned", "executing", "expired"} \union Terminal]
  /\ item \in [Runs -> [Backups -> {None, "planned", "deleting", "deleted", "skipped_protected",
                                    "failed", "needs_attention"}]]
  /\ lease \in {None, "operation"} \union Runs
  /\ operation \in [kind : {None, "release", "restore"}, target : {0} \union Backups,
                   backup : {0} \union Backups]
  /\ ui \in {"down", "starting", "serving"}
  /\ task \in [at : {None, "next", "verified", "delete", "asked", "refused", "removed", "finish"},
               end : {None} \union Terminal]
  /\ agent \in [at : {None, "verifying", "removing"}, backup : {0} \union Backups]
  /\ crashes \in 0 .. MaxCrashes

Init ==
  /\ index = [b \in Backups |-> IF b <= Existing THEN "complete" ELSE "none"]
  /\ body = [b \in Backups |-> IF b <= Existing THEN "whole" ELSE "none"]
  /\ manual = {} /\ cases = {}
  /\ run = [r \in Runs |-> None]
  /\ item = [r \in Runs |-> [b \in Backups |-> None]]
  /\ lease = None /\ operation = NoOperation
  /\ ui = "serving" /\ task = NoTask /\ agent = Idle /\ crashes = 0
-----------------------------------------------------------------------------
(* Protection.                                                             *)

EnoughNewer(b) == Cardinality({n \in Complete : n > b}) >= MinimumComplete

\* (Mutant: what the plan saw protected is not looked at again.)
IsAmongNewest(b) == ~EnoughNewer(b)

\* retentionBackupProtected: what BeginRetentionDeletion finds in the index as it is
IsProtected(b) ==
  \/ b \in manual \union cases \union InUse
  \/ ~EnoughNewer(b)

Protect ==
  /\ ui = "serving"
  /\ \E b \in Complete :
       manual' = IF b \in manual THEN manual \ {b} ELSE manual \union {b}
  /\ UNCHANGED <<index, body, cases, run, item, lease, operation, ui, task, agent, crashes>>

\* An attention case is resolved; b is no longer named by one.
ResolveCase ==
  /\ ui = "serving"
  /\ \E b \in cases : cases' = cases \ {b}
  /\ UNCHANGED <<index, body, manual, run, item, lease, operation, ui, task, agent, crashes>>
-----------------------------------------------------------------------------
(* The other owners of the lease.                                          *)

\* A release needs the lease and that no attention case is open.
QueueRelease ==
  /\ ui = "serving" /\ lease = None /\ cases = {}
  /\ lease' = "operation"
  /\ operation' = [NoOperation EXCEPT !.kind = "release"]
  /\ UNCHANGED <<index, body, manual, cases, run, item, ui, task, agent, crashes>>

\* A restore needs the lease and a target that is complete; an open case is no obstacle.
QueueRestore ==
  /\ ui = "serving" /\ lease = None
  /\ lease' = "operation"
  /\ \E b \in Complete : operation' = [NoOperation EXCEPT !.kind = "restore", !.target = b]
  /\ UNCHANGED <<index, body, manual, cases, run, item, ui, task, agent, crashes>>

\* The backup a release makes of production, or a restore for its own rollback.
NewBackup ==
  /\ ui # "down" /\ operation.kind # None /\ operation.backup = 0
  /\ \E b \in Backups :
       /\ index[b] = "none" /\ \A older \in 1 .. b - 1 : index[older] # "none"
       /\ index' = [index EXCEPT ![b] = "complete"]
       /\ body' = [body EXCEPT ![b] = "whole"]
       /\ operation' = [operation EXCEPT !.backup = b]
  /\ UNCHANGED <<manual, cases, run, item, lease, ui, task, agent, crashes>>

\* The operation ends, at its own end or at a startup that settles it.  A restore that
\* needs attention opens a case that names its target.  A release that does opens none:
\* TransitionRelease writes no row of config_attention_cases.
EndOperation ==
  /\ ui # "down" /\ operation.kind # None
  /\ lease' = None /\ operation' = NoOperation
  /\ \/ UNCHANGED cases
     \/ operation.kind = "restore" /\ cases' = cases \union {operation.target}
  /\ UNCHANGED <<index, body, manual, run, item, ui, task, agent, crashes>>
-----------------------------------------------------------------------------
(* A retention run, from the plan to the task that executes it.            *)

\* PlanRetention and CreateRetentionRun.
Plan ==
  /\ ui = "serving"
  /\ \E r \in Runs :
       /\ run[r] = None
       /\ run' = [run EXCEPT ![r] = "planned"]
       /\ \E delete \in SUBSET {b \in Complete : b \notin manual \union cases /\ EnoughNewer(b)} :
            item' = [item EXCEPT ![r] = [b \in Backups |-> IF b \in delete THEN "planned" ELSE None]]
  /\ UNCHANGED <<index, body, manual, cases, lease, operation, ui, task, agent, crashes>>

\* QueueRetentionExecution: a plan may have expired; one that has not needs the lease.
QueueRetention ==
  /\ ui = "serving"
  /\ \E r \in Runs :
       /\ run[r] = "planned"
       /\ \/ /\ run' = [run EXCEPT ![r] = "expired"]
             /\ UNCHANGED <<lease, task>>
          \/ /\ lease = None
             /\ run' = [run EXCEPT ![r] = "executing"]
             /\ lease' = r
             /\ task' = [at |-> "next", end |-> None]
  /\ UNCHANGED <<index, body, manual, cases, item, operation, ui, agent, crashes>>

Working(point) == ui # "down" /\ task.at = point

Goto(point) == task' = [task EXCEPT !.at = point]

\* finishRetentionWithError is the next thing the task does
End(state) == task' = [at |-> "finish", end |-> state]

\* The items of the run that RunRetention does not pass over, and the first of them.
Unsettled == {b \in Backups : item[lease][b] \notin {None, "deleted", "skipped_protected"}}
Current   == Min(Unsettled)

SetItem(state) == item' = [item EXCEPT ![lease][Current] = state]

StoreFails == "store" \in Faults

\* What VerifyBackup may answer.  Of a tree that is half removed it reports the first of
\* five paths that is wrong, in no fixed order: one that is missing (which the protocol
\* hands on as fs.ErrNotExist) or one whose mode has changed.
Verified ==
  (CASE body[Current] = "whole"   -> {"match"}
     [] body[Current] = "partial" -> {"missing", "error"}
     [] body[Current] = "gone"    -> {"missing"})
  \union (IF "agent" \in Faults THEN {"error"} ELSE {})

AtItem(state) == Working("next") /\ Unsettled # {} /\ item[lease][Current] = state

\* The end of the list.
NoItemLeft ==
  /\ Working("next") /\ Unsettled = {}
  /\ End("succeeded")
  /\ UNCHANGED <<index, body, manual, cases, run, item, lease, operation, ui, agent, crashes>>

\* An earlier life of the UI left the run after an item that ended it.
ItemEndedTheRun ==
  /\ AtItem("failed") \/ AtItem("needs_attention")
  /\ End("needs_attention")
  /\ UNCHANGED <<index, body, manual, cases, run, item, lease, operation, ui, agent, crashes>>

\* The backup is as the plan saw it, in the index and on disk; or the run fails.
CheckItem ==
  /\ AtItem("planned")
  /\ \/ /\ index[Current] = "complete" /\ "match" \in Verified
        /\ Goto("verified")
        /\ UNCHANGED item
     \/ /\ index[Current] # "complete" \/ Verified # {"match"}
        /\ SetItem("failed") \/ (StoreFails /\ UNCHANGED item)
        /\ End("failed")
  /\ UNCHANGED <<index, body, manual, cases, run, lease, operation, ui, agent, crashes>>

\* BeginRetentionDeletion: the intent is recorded if the index still allows it.
BeginDeletion ==
  /\ Working("verified")
  /\ \/ /\ index[Current] = "complete" /\ ~IsProtected(Current)
        /\ index' = [index EXCEPT ![Current] = "deleting"]
        /\ SetItem("deleting")
        /\ Goto("delete")
     \/ /\ index[Current] = "complete" /\ IsProtected(Current)
        /\ SetItem("skipped_protected") /\ Goto("next")
        /\ UNCHANGED index
     \/ /\ StoreFails /\ IsProtected(Current)
        /\ End("needs_attention")
        /\ UNCHANGED <<index, item>>
     \/ /\ StoreFails
        /\ SetItem("failed") \/ UNCHANGED item
        /\ End("failed")
        /\ UNCHANGED index
  /\ UNCHANGED <<body, manual, cases, run, lease, operation, ui, agent, crashes>>

\* CompleteRetentionDeletion: the tombstone, or a write that fails.
Tombstone ==
  \/ /\ index' = [index EXCEPT ![Current] = "deleted"]
     /\ SetItem("deleted")
     /\ Goto("next")
  \/ /\ StoreFails
     /\ End("needs_attention")
     /\ UNCHANGED <<index, item>>

\* (Mutant: the item gets the state of its run.)
UncertainRun ==
  /\ SetItem("executing")
  /\ End("needs_attention")
  /\ UNCHANGED index

\* MarkRetentionDeletionUncertain: the intent is kept, for a person to look at.
Uncertain ==
  /\ SetItem("needs_attention") \/ (StoreFails /\ UNCHANGED item)
  /\ End("needs_attention")
  /\ UNCHANGED index

\* AbortRetentionDeletion: the backup is intact.
Abort ==
  /\ \/ /\ index' = [index EXCEPT ![Current] = "complete"]
        /\ SetItem("failed")
     \/ /\ StoreFails
        /\ UNCHANGED <<index, item>>
  /\ End("failed")

\* resumeRetentionDeletion, of an item an earlier life had begun to delete.
ResumeDeletion ==
  /\ AtItem("deleting")
  /\ \/ "missing" \in Verified /\ Tombstone
     \/ "error" \in Verified /\ Uncertain
     \/ "match" \in Verified /\ Goto("delete") /\ UNCHANGED <<index, item>>
  /\ UNCHANGED <<body, manual, cases, run, lease, operation, ui, agent, crashes>>

\* DeleteBackup is called.  It holds the Agent's one operation lock.
AskDeletion ==
  /\ Working("delete")
  /\ \/ /\ agent.at # None
        /\ Goto("refused")
        /\ UNCHANGED agent
     \/ /\ agent.at = None
        /\ Goto("asked")
        /\ agent' = [at |-> "verifying", backup |-> Current]
  /\ UNCHANGED <<index, body, manual, cases, run, item, lease, operation, ui, crashes>>

\* reconcileFailedRetentionDeletion, after any error DeleteBackup returned
ReconcileDeletion ==
  /\ Working("refused")
  /\ \/ "match" \in Verified /\ Abort
     \/ "missing" \in Verified /\ Tombstone
     \/ "error" \in Verified /\ Uncertain
  /\ UNCHANGED <<body, manual, cases, run, lease, operation, ui, agent, crashes>>

CompleteDeletion ==
  /\ Working("removed")
  /\ Tombstone
  /\ UNCHANGED <<body, manual, cases, run, lease, operation, ui, agent, crashes>>

\* (Mutant: the lease is given back in a second transaction.)
FinishThenRelease ==
  /\ Working("finish")
  /\ task' = NoTask
  /\ run' = [run EXCEPT ![lease] = task.end]
  /\ ui' = IF ui = "starting" /\ task.end # "succeeded" THEN "down" ELSE ui
  /\ UNCHANGED <<index, body, manual, cases, item, lease, operation, agent, crashes>>

\* finishRetentionWithError: the run ends and gives the lease back in one transaction.
\* At a startup anything but success ends the process (Reconcile).
Finish ==
  /\ Working("finish")
  /\ task' = NoTask
  /\ \/ /\ run' = [run EXCEPT ![lease] = task.end]
        /\ lease' = None
        /\ ui' = IF ui = "starting" /\ task.end # "succeeded" THEN "down" ELSE ui
     \/ /\ StoreFails
        /\ ui' = IF ui = "starting" THEN "down" ELSE ui
        /\ UNCHANGED <<run, lease>>
  /\ UNCHANGED <<index, body, manual, cases, item, operation, agent, crashes>>
-----------------------------------------------------------------------------
(* The Agent at DeleteBackup.                                              *)

\* The answer reaches the task if it still waits for it.
Answer(point) == task' = IF task.at = "asked" THEN [task EXCEPT !.at = point] ELSE task

\* The body is verified once more, and its removal begins: the modes first.
BeginRemoval ==
  /\ agent.at = "verifying" /\ body[agent.backup] = "whole"
  /\ body' = [body EXCEPT ![agent.backup] = "partial"]
  /\ agent' = [agent EXCEPT !.at = "removing"]
  /\ UNCHANGED <<index, manual, cases, run, item, lease, operation, ui, task, crashes>>

EndRemoval ==
  /\ agent.at = "removing"
  /\ body' = [body EXCEPT ![agent.backup] = "gone"]
  /\ agent' = Idle
  /\ Answer("removed")
  /\ UNCHANGED <<index, manual, cases, run, item, lease, operation, ui, crashes>>

\* The verification or the removal fails half way.
RemovalFails ==
  /\ "agent" \in Faults /\ agent.at # None
  /\ agent' = Idle
  /\ Answer("refused")
  /\ UNCHANGED <<index, body, manual, cases, run, item, lease, operation, ui, crashes>>

\* The call ends without an answer.  The Agent gives up what it has not begun.
GivesUp == agent' = IF agent.at = "verifying" THEN Idle ELSE agent

CallFails ==
  /\ "agent" \in Faults /\ Working("asked")
  /\ Goto("refused")
  /\ GivesUp
  /\ UNCHANGED <<index, body, manual, cases, run, item, lease, operation, ui, crashes>>
-----------------------------------------------------------------------------
(* Deaths and startups.                                                    *)

UIDies ==
  /\ ui # "down" /\ crashes < MaxCrashes
  /\ crashes' = crashes + 1
  /\ ui' = "down" /\ task' = NoTask
  /\ GivesUp
  /\ UNCHANGED <<index, body, manual, cases, run, item, lease, operation>>

AgentDies ==
  /\ crashes < MaxCrashes
  /\ crashes' = crashes + 1
  /\ agent' = Idle
  /\ Answer("refused")
  /\ UNCHANGED <<index, body, manual, cases, run, item, lease, operation, ui>>

\* (Mutant: nothing is reconciled.)
UIStartsAtOnce ==
  /\ ui = "down"
  /\ ui' = "serving"
  /\ UNCHANGED <<index, body, manual, cases, run, item, lease, operation, task, agent, crashes>>

\* Reconcile: the owner of the lease is settled before anything is served.
UIStarts ==
  /\ ui = "down"
  /\ ui' = "starting"
  /\ task' = IF lease \in Runs THEN [at |-> "next", end |-> None] ELSE NoTask
  /\ UNCHANGED <<index, body, manual, cases, run, item, lease, operation, agent, crashes>>

UIServes ==
  /\ ui = "starting" /\ lease = None
  /\ ui' = "serving"
  /\ UNCHANGED <<index, body, manual, cases, run, item, lease, operation, task, agent, crashes>>
-----------------------------------------------------------------------------
Administrator == Protect \/ ResolveCase \/ QueueRelease \/ QueueRestore \/ Plan \/ QueueRetention
Operation     == NewBackup \/ EndOperation
Execution     == \/ NoItemLeft \/ ItemEndedTheRun \/ CheckItem \/ BeginDeletion \/ ResumeDeletion
                 \/ AskDeletion \/ ReconcileDeletion \/ CompleteDeletion \/ Finish
Removal       == BeginRemoval \/ EndRemoval
Failure       == RemovalFails \/ CallFails \/ UIDies \/ AgentDies
Startup       == UIStarts \/ UIServes

Next == Administrator \/ Operation \/ Execution \/ Removal \/ Failure \/ Startup

Spec == Init /\ [][Next]_vars

-----------------------------------------------------------------------------
\* The newest recovery points survive every sequence of plans, executions, aborted
\* deletions and crashes: whatever is deleted has MinimumComplete complete backups that
\* are newer (retentionBackupProtected, against the index of the moment).
NewestSurvive ==
  \A b \in Backups : index[b] \in {"deleting", "deleted"} =>
    Cardinality({newer \in Complete : newer > b}) >= MinimumComplete

\* "retention 计划后保护事实变化 ... 不删除保护项": no backup that is protected, named by an
\* open case or in use by a release or restore is given up (BeginRetentionDeletion).
ProtectedSurvive == manual \union cases \union InUse \subseteq Complete

\* What the index offers as a recovery point is on disk, whole, also after a deletion
\* that failed, was refused, or was cut off by either process dying.
CompleteIsWhole == \A b \in Complete : body[b] = "whole"

\* The lease is a run's exactly while it executes, and an operation's exactly while one
\* is active: no crash between the two leaves a run without it or it without a run.
LeaseIsTheOwners ==
  /\ \A r \in Runs : lease = r <=> run[r] = "executing"
  /\ lease = "operation" <=> operation.kind # None

\* A run reported as succeeded has deleted, or skipped as protected, all it was to delete.
SuccessIsComplete ==
  \A r \in Runs : run[r] = "succeeded" =>
    \A b \in Backups : item[r][b] \in {None, "deleted", "skipped_protected"}

\* Retention is safe: the newest recovery points and those that are protected or in use survive, what
\* the index offers is on disk, and a success did all its work (RunRetention, Reconcile, DeleteBackup).
RetentionIsSafe == NewestSurvive /\ ProtectedSurvive /\ CompleteIsWhole /\ SuccessIsComplete

\* A run that executes comes to an end, through deaths of the UI and of the Agent.
ExecutionEnds == \A r \in Runs : run[r] = "executing" ~> run[r] \in Terminal

\* The UI comes back to serve, whatever the run it left behind has become.
UIComesBack == ui # "serving" ~> ui = "serving"
=============================================================================
