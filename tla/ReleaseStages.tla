---------------------------- MODULE ReleaseStages ----------------------------
(***************************************************************************)
(* The vocabulary that the UI process and the Agent process share about    *)
(* one release: the stage names written to the Agent's journal and to the  *)
(* database, their order, and the release state each of them stands for.   *)
(* Both processes hold their own copy of these tables (releaseStageOrder   *)
(* in the Agent, agentReleaseStageOrder in the UI); the copies agree.      *)
(***************************************************************************)
EXTENDS Naturals, Sequences

\* The stages before the files of production are touched.
BeforeWriteStages ==
  {"queued", "rechecking", "backup_creating", "backup_verified", "candidate_validated"}

ForwardStages ==
  BeforeWriteStages \cup
  {"files_applying", "files_applied", "production_validated", "reload_requested",
   "runtime_confirmed", "committed"}

RollbackStages ==
  {"rollback_applying", "rollback_files_restored", "rollback_validated",
   "rollback_reload_requested", "rolled_back"}

Stages == ForwardStages \cup RollbackStages \cup {"failed", "needs_attention"}

\* The stages after which the transaction takes no further step by itself.
TerminalStages == {"committed", "rolled_back", "failed", "needs_attention"}

\* The order every evidence reader insists on: events never step backwards.
StageOrder(stage) ==
  CASE stage = "queued"                    -> 0
    [] stage = "rechecking"                -> 1
    [] stage = "backup_creating"           -> 2
    [] stage = "backup_verified"           -> 3
    [] stage = "candidate_validated"       -> 4
    [] stage = "files_applying"            -> 5
    [] stage = "files_applied"             -> 6
    [] stage = "production_validated"      -> 7
    [] stage = "reload_requested"          -> 8
    [] stage = "runtime_confirmed"         -> 9
    [] stage = "committed"                 -> 10
    [] stage = "rollback_applying"         -> 20
    [] stage = "rollback_files_restored"   -> 21
    [] stage = "rollback_validated"        -> 22
    [] stage = "rollback_reload_requested" -> 23
    [] stage = "rolled_back"               -> 24
    [] stage = "failed"                    -> 30
    [] stage = "needs_attention"           -> 31

ReleaseStates ==
  {"queued", "running", "rolling_back", "succeeded", "failed", "rolled_back",
   "needs_attention"}

TerminalStates == {"succeeded", "failed", "rolled_back", "needs_attention"}

\* The release state a stage stands for.
StateOfStage(stage) ==
  CASE stage = "queued" -> "queued"
    [] stage = "committed" -> "succeeded"
    [] stage \in {"rolled_back", "failed", "needs_attention"} -> stage
    [] stage \in RollbackStages \ {"rolled_back"} -> "rolling_back"
    [] OTHER -> "running"

\* A sequence of events a reader accepts: stages in order, a terminal one last.
InOrder(events) ==
  \A i, j \in DOMAIN events : i < j => StageOrder(events[i]) <= StageOrder(events[j])

LastStage(events) == events[Len(events)]
=============================================================================
