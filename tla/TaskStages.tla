------------------------------ MODULE TaskStages ------------------------------
(***************************************************************************)
(* The coarser stages in which RecoveryCoordinator tells the log of a      *)
(* restore or a restart: "first" (target_verifying and what follows up to  *)
(* the safety backup, or production_validating and runtime_sampling),      *)
(* "saved" (safety_backup_verified), "write" (files_restoring and after;   *)
(* restart_requested and after), "undo" (rollback_applying and after), and *)
(* the verdict.  "queued" stands before the first.  RestoreAgent and       *)
(* RestartAgent log the stages themselves.                                 *)
(***************************************************************************)
EXTENDS Naturals, Sequences

Verdicts == {"succeeded", "rolled_back", "failed", "needs_attention"}

CallNames == {"prepare", "execute", "restart", "recover"}

\* The stages that may follow in a call.  A recovery finds the target in place, or nothing
\* written, or puts the safety backup back; a rollback that cannot be logged is left for
\* doubt, as is the confirmation of what was recovered.
Following(kind, call, last) ==
  CASE last = "queued" -> {"first"}
    [] last = "first"  -> {"failed"} \cup (IF call = "prepare" THEN {"saved"} ELSE {})
                            \cup (IF call = "restart" THEN {"write"} ELSE {})
    [] last = "saved"  -> {"failed", "write"}
                            \cup (IF call = "recover" THEN {"succeeded", "undo", "needs_attention"} ELSE {})
    [] last = "write"  -> {"succeeded", "failed", "needs_attention"}
                            \cup (IF kind = "restore" THEN {"undo"} ELSE {})
    [] last = "undo"   -> {"rolled_back", "needs_attention"}
    [] OTHER           -> {}

\* One stage may come after another in the log of such a task.
Succeeds(kind, last, next) ==
  (next = last /\ last \notin Verdicts) \/ \E call \in CallNames : next \in Following(kind, call, last)
=============================================================================
