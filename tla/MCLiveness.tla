------------------------------ MODULE MCLiveness ------------------------------
(***************************************************************************)
(* What must come to an end, on small instances: retention runs, restores  *)
(* and restarts, the start of the process that finds one of them, or a     *)
(* workspace, as a dead process left it, and the restart calls the Agent   *)
(* works on.  The four share no state, so each behaviour picks one and     *)
(* leaves the others where they begin.  The restart calls, which           *)
(* AgentTaskProofs is about, keep the names of RestartAgent.               *)
(***************************************************************************)
EXTENDS RestartAgent

CONSTANT Runs

VARIABLES
  which,
  b_index, b_body, b_manual, b_cases, b_run, b_item, b_lease, b_operation, b_ui, b_task,
  b_agent, b_crashes,
  w_row, w_deletedBy, w_dir, w_tombOp, w_draft, w_manifest, w_baseManifest, w_prepared,
  w_control, w_journal, w_recovery, w_up, w_task, w_deleter, w_getter, w_changed, w_seen,
  w_disturbed, w_edits, w_left,
  q_rows, q_history, q_lease, q_cases, q_closedBy, q_indexed, q_ui, q_task, q_sent,
  q_busy, q_log, q_answer, q_left

Retention == INSTANCE BackupRetention WITH
  Existing <- 3, MaxBackups <- 3, MinimumComplete <- 1, Faults <- {"agent"}, MaxCrashes <- 2,
  index <- b_index, body <- b_body, manual <- b_manual, cases <- b_cases, run <- b_run,
  item <- b_item, lease <- b_lease, operation <- b_operation, ui <- b_ui, task <- b_task,
  agent <- b_agent, crashes <- b_crashes

AllKinds == {"create", "replace", "copy", "rename", "delete", "replace_batch"}

Workspace == INSTANCE WorkspaceDraft WITH
  Clients <- {"client"}, Asked <- AllKinds, Entry <- "nginx.conf", Other <- "site.conf",
  Faults <- {"disk", "store", "death", "loss"}, MaxEdits <- 1, Budget <- 2,
  row <- w_row, deletedBy <- w_deletedBy, dir <- w_dir, tombOp <- w_tombOp, draft <- w_draft,
  manifest <- w_manifest, baseManifest <- w_baseManifest, prepared <- w_prepared,
  control <- w_control, journal <- w_journal, recovery <- w_recovery, up <- w_up,
  task <- w_task, deleter <- w_deleter, getter <- w_getter, changed <- w_changed,
  seen <- w_seen, disturbed <- w_disturbed, edits <- w_edits, left <- w_left

\* Work after work: the second may be there to settle the case of the first.
Recovery == INSTANCE RecoveryCoordinator WITH
  Clocks <- {"ui"}, Faults <- {"store", "call", "request", "death"}, Budget <- 2, MaxWork <- 2,
  rows <- q_rows, history <- q_history, lease <- q_lease, cases <- q_cases,
  closedBy <- q_closedBy, indexed <- q_indexed, ui <- q_ui, task <- q_task, sent <- q_sent,
  busy <- q_busy, log <- q_log, answer <- q_answer, left <- q_left

b_vars == <<b_index, b_body, b_manual, b_cases, b_run, b_item, b_lease, b_operation,
            b_ui, b_task, b_agent, b_crashes>>
w_vars == <<w_row, w_deletedBy, w_dir, w_tombOp, w_draft, w_manifest, w_baseManifest,
            w_prepared, w_control, w_journal, w_recovery, w_up, w_task, w_deleter, w_getter,
            w_changed, w_seen, w_disturbed, w_edits, w_left>>
q_vars == <<q_rows, q_history, q_lease, q_cases, q_closedBy, q_indexed, q_ui, q_task,
            q_sent, q_busy, q_log, q_answer, q_left>>
all == <<which, vars, b_vars, w_vars, q_vars>>

AllInit ==
  /\ which \in {"restart", "retention", "workspace", "recovery"}
  /\ Init /\ Retention!Init /\ Workspace!Init /\ Recovery!Init

Restarts(A)   == which = "restart" /\ A /\ UNCHANGED <<which, b_vars, w_vars, q_vars>>
Retain(A)     == which = "retention" /\ A /\ UNCHANGED <<which, vars, w_vars, q_vars>>
Workspaces(A) == which = "workspace" /\ A /\ UNCHANGED <<which, vars, b_vars, q_vars>>
Recoveries(A) == which = "recovery" /\ A /\ UNCHANGED <<which, vars, b_vars, w_vars>>

AllNext ==
  Restarts(Next) \/ Retain(Retention!Next) \/ Workspaces(Workspace!Next) \/ Recoveries(Recovery!Next)

\* The fairness of all four; a behaviour is of one of them, so it can be stated together.
FairAll ==
  /\ AllInit /\ [][AllNext]_all
  /\ WF_all(Restarts(RestartStep) \/ Retain(Retention!Execution) \/ Workspaces(Workspace!StartUp)
            \/ Recoveries(Recovery!Reconcile))
  /\ WF_all(Retain(Retention!Startup) \/ Workspaces(Workspace!Starts) \/ Recoveries(Recovery!UIStarts))
  /\ WF_all(Retain(Retention!Removal) \/ Recoveries(Recovery!TaskStep(1)))
  /\ WF_all(Retain(Retention!EndOperation) \/ Recoveries(Recovery!TaskStep(2)))
  /\ WF_all(Recoveries(Recovery!AgentRuns))

\* A retention run that executes, a restore and a restart come to an end, whatever the Agent does and
\* whichever process dies, and a restart call of the Agent returns (RunRetention, RunRestore, RunRestart
\* and the reconciliations of each; ExecuteRestart, RecoverRestart).
TasksEnd == Retention!ExecutionEnds /\ Recovery!TaskEnds /\ CallEnds

\* The UI comes back to serve, whatever retention run, deletion or edit it left behind (runUI, the
\* reconciliations of config).
ServesAgain == Retention!UIComesBack /\ Workspace!ComesBack
=============================================================================
