---------------------- MODULE BackupRetentionInvariant ----------------------
(***************************************************************************)
(* The inductive invariant of BackupRetention: its safety properties, and  *)
(* what they rest on at each point of an execution.                        *)
(***************************************************************************)
EXTENDS BackupRetention

\* A task works for the run that holds the lease, and knows how it will end once it does.
TaskOwnsLease ==
  /\ task.at # None => lease \in Runs /\ ui # "down"
  /\ task.at = "finish" => task.end \in Terminal
  /\ task.at = "finish" /\ task.end = "succeeded" => Unsettled = {}

\* The item a task is at is still planned before its intent is recorded, and being
\* deleted from then until the tombstone.
TaskAtItem ==
  /\ task.at = "verified" =>
       Unsettled # {} /\ item[lease][Current] = "planned"
  /\ task.at \in {"delete", "asked", "refused", "removed"} =>
       Unsettled # {} /\ item[lease][Current] = "deleting"

\* An intent to delete is in the index too, and belongs to one run.
OneIntent ==
  \A r \in Runs, b \in Backups : item[r][b] = "deleting" =>
    /\ index[b] = "deleting"
    /\ \A other \in Runs : item[other][b] = "deleting" => other = r

\* The Agent verifies only what a task waits for, and removes only what is no longer whole.
AgentAtBody ==
  /\ agent.at # None => agent.backup \in Backups
  /\ agent.at = "verifying" => task.at = "asked" /\ agent.backup = Current
  /\ agent.at = "removing" => body[agent.backup] = "partial"

\* Exactly the backups that were ever created have left something, if only their absence.
BodyOfCreated == \A b \in Backups : index[b] = "none" <=> body[b] = "none"

RestoreHasTarget == operation.kind = "restore" => operation.target \in Backups

IInv ==
  /\ TypeOK
  /\ LeaseIsTheOwners /\ SuccessIsComplete
  /\ NewestSurvive /\ ProtectedSurvive /\ CompleteIsWhole
  /\ TaskOwnsLease /\ TaskAtItem /\ OneIntent
  /\ AgentAtBody /\ BodyOfCreated /\ RestoreHasTarget
=============================================================================
