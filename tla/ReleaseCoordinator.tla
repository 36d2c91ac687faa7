-------------------------- MODULE ReleaseCoordinator --------------------------
(***************************************************************************)
(* The UI process around one release: ReleaseService queues it under the   *)
(* production lease, runs it by one call of the Agent, copies the Agent's  *)
(* stages into the database while the call lasts and its verdict when it   *)
(* ends, and gives the workspace its outcome.  The UI process may die at   *)
(* any point; the next one reconciles the release and then the workspace   *)
(* before it serves anything.                                              *)
(*                                                                         *)
(* The lifecycle of a workspace is kept twice, in its database row and in  *)
(* its control file, written one after the other.  Draft edits and the     *)
(* outcome of a release do so under the workspace lock; listing workspaces *)
(* does not take it.                                                       *)
(*                                                                         *)
(* Any database statement and any file write may fail, which also covers   *)
(* a cancelled context; a call of the Agent may be lost at any time (its   *)
(* client waits five minutes, its server cuts the answer after 65 s).      *)
(***************************************************************************)
EXTENDS AgentService

CONSTANTS
  Edits,   \* bound: how often the draft is edited
  Readers, \* bound: whether workspaces are listed while the release runs
  Ticks,   \* bound: whether the Agent's log is read while its call runs
  Faults   \* bound: what may fail: "store" (statements and writes), "call", "log" (the Agent's), or "death" of a process

ASSUME BoundsAssumption ==
  /\ Edits \in Nat /\ Readers \in BOOLEAN /\ Ticks \in BOOLEAN
  /\ Faults \subseteq {"store", "call", "log", "death"}

VARIABLES
  \* the database
  check,     \* config_publish_checks: the draft and the revision last found valid
  release,   \* config_releases: state, stage and draft of the release
  history,   \* config_release_stages
  lease,     \* config_production_lease is owned by the release
  indexed,   \* config_backups has the backup of the release
  row,       \* config_workspaces: state, revision and draft
  \* the workspace directory
  control,   \* control/state.json: state and revision
  \* the UI process
  ui,        \* "down", "releases" or "workspaces" (startup), "serving"
  task,      \* where Run or Reconcile is with the release, "none" if nowhere
  mirrored,  \* mirroredAgentStages
  failing,   \* persistenceErr is set
  result,    \* the answer being mirrored
  read,      \* the row as applyWorkspaceReleaseOutcome read it
  lister     \* refreshReady: what it is about to do, and to which revision

databaseVars  == <<check, release, history, lease, indexed, row>>
workspaceVars == <<row, control>>
taskVars      == <<task, mirrored, failing, result, read>>
vars == <<serviceVars, check, release, history, lease, indexed, row, control, ui,
          taskVars, lister>>

ActiveStates == {"queued", "running", "rolling_back"}
WorkspaceStates == {"ready", "stale", "published", "needs_attention"}
TaskPoints ==
  {"none", "start", "call", "waiting", "recover", "recovering",
   "index", "mirror", "uncertain", "outcome", "lock", "row"}

Idle == [at |-> "idle", revision |-> 0]
Unread == [state |-> "ready", revision |-> 0, draft |-> 0]

TypeOK ==
  /\ ServiceTypeOK
  /\ check \in [draft : 0..Edits, revision : Nat]
  /\ release \in [state : ReleaseStates \cup {"none"}, stage : Stages \cup {"none"}, draft : 0..Edits]
  /\ history \in Seq(Stages) /\ lease \in BOOLEAN /\ indexed \in BOOLEAN
  /\ row \in [state : WorkspaceStates, revision : Nat, draft : 0..Edits]
  /\ read \in [state : WorkspaceStates, revision : Nat, draft : 0..Edits]
  /\ control \in [state : WorkspaceStates, revision : Nat]
  /\ ui \in {"down", "releases", "workspaces", "serving"} /\ task \in TaskPoints
  /\ mirrored \in Nat /\ failing \in BOOLEAN
  /\ result \in [state : ReleaseStates \cup {"none"}, stages : Seq(Stages), backup : BOOLEAN]
  /\ lister \in [at : {"idle", "mark", "write"}, revision : Nat]

Init ==
  /\ ServiceInit
  /\ check = [draft |-> 0, revision |-> 0]
  /\ release = [state |-> "none", stage |-> "none", draft |-> 0]
  /\ history = <<>> /\ lease = FALSE /\ indexed = FALSE
  /\ row = [state |-> "ready", revision |-> 1, draft |-> 0] /\ read = Unread
  /\ control = [state |-> "ready", revision |-> 1]
  /\ ui = "serving" /\ task = "none"
  /\ mirrored = 0 /\ failing = FALSE /\ result = NoAnswer /\ lister = Idle

-------------------------------------------------------------------------------
(* Shared by the handlers. *)

\* (Mutant: the state is stored as the stage.)
RecordSwapped(stages, state) ==
  /\ history' = history \o stages
  /\ release' = [release EXCEPT !.state = state, !.stage = state]
  /\ lease' = (lease /\ state \notin TerminalStates)
  /\ UNCHANGED <<check, indexed, row>>

\* TransitionRelease, for one stage after the other: the compare-and-set on state and
\* stage succeeds because only the task moves the release.  A verdict frees the lease.
Record(stages, state) ==
  /\ history' = history \o stages
  /\ release' = [release EXCEPT !.state = state, !.stage = LastStage(history')]
  /\ lease' = (lease /\ state \notin TerminalStates)
  /\ UNCHANGED <<check, indexed, row>>

\* openReviewWorkspace: row and control file agree.
ControlOf(r) == [state |-> r.state, revision |-> r.revision]
Opens == control = ControlOf(row)

\* UpdateWorkspace: compare-and-set on the revision.
UpdateRow(revision, state) ==
  /\ row.revision = revision
  /\ row' = [row EXCEPT !.state = state, !.revision = revision + 1]
  /\ UNCHANGED <<check, release, history, lease, indexed>>

\* The task is over.  A startup goes on only if the release was reconciled without error.
EndTask(next) ==
  /\ task' = "none" /\ mirrored' = 0 /\ failing' = FALSE /\ result' = NoAnswer
  /\ read' = Unread
  /\ ui' = IF ui = "releases" THEN next ELSE ui

\* (Mutant: an error of Reconcile does not stop the startup.)
FailQuietly == EndTask("workspaces")

Succeed == EndTask("workspaces")
Fail == EndTask("down")

GotoTask(point) == task' = point /\ UNCHANGED <<mirrored, failing, result, read, ui>>

StoreFails == "store" \in Faults
CallFails  == "call" \in Faults
MayDie     == "death" \in Faults
LogFails   == "log" \in Faults

-------------------------------------------------------------------------------
(* Check and Queue. *)

\* The whole candidate is validated; the evidence is bound to draft and revision.
Check ==
  /\ ui = "serving" /\ release.state = "none"
  /\ row.state = "ready" /\ Opens /\ content = "production"
  /\ check' = [draft |-> row.draft, revision |-> row.revision]
  /\ UNCHANGED <<serviceVars, release, history, lease, indexed, workspaceVars, ui, taskVars, lister>>

\* The confirmed release is stored with the lease; the task owner then starts Run,
\* unless it is stopping.
Queue ==
  /\ ui = "serving" /\ release.state = "none" /\ ~lease
  /\ row.state = "ready" /\ Opens /\ content = "production"
  /\ check = [draft |-> row.draft, revision |-> row.revision]
  /\ release' = [state |-> "queued", stage |-> "queued", draft |-> check.draft]
  /\ history' = <<"queued">> /\ lease' = TRUE
  /\ GotoTask("start") \/ (MayDie /\ GotoTask("none"))
  /\ UNCHANGED <<serviceVars, check, indexed, workspaceVars, lister>>

-------------------------------------------------------------------------------
(* Run. *)

\* The release is running before the Agent hears of it.
StartRun ==
  /\ task = "start"
  /\ \/ Record(<<"rechecking">>, "running") /\ GotoTask("call")
     \/ StoreFails /\ Fail /\ UNCHANGED databaseVars
  /\ UNCHANGED <<serviceVars, control, lister>>

Execute ==
  /\ task = "call"
  /\ \/ CallBegins
     \/ CallFails /\ UNCHANGED serviceVars
  /\ task' = "waiting" /\ mirrored' = 1
  /\ UNCHANGED <<databaseVars, control, ui, failing, result, read, lister>>

NonTerminalCount(stages) ==
  IF stages # <<>> /\ LastStage(stages) \in TerminalStages THEN Len(stages) - 1 ELSE Len(stages)

\* validAgentReleaseProgress, with n stages mirrored so far: one verdict at most, at the end.
ValidProgress(stages, n) ==
  /\ Len(stages) >= n /\ n >= 1
  /\ stages[1] = "rechecking" /\ InOrder(stages)
  /\ \A i \in DOMAIN stages : stages[i] \in TerminalStages => i = Len(stages)
  /\ n > 1 => stages[n] = release.stage

\* One tick: the stages the Agent has logged by now are copied one by one.  The first
\* that cannot be stored ends the polling, while mirroredAgentStages stays behind.
Poll ==
  /\ Ticks /\ task = "waiting" /\ ~failing /\ ~spoiled
  /\ LET available == NonTerminalCount(log) IN
     /\ ValidProgress(log, mirrored) /\ available > mirrored
     /\ \E k \in IF StoreFails THEN mirrored..available ELSE {available} :
          /\ IF k = mirrored THEN UNCHANGED databaseVars
             ELSE Record(SubSeq(log, mirrored + 1, k), StateOfStage(log[k]))
          /\ IF k = available THEN mirrored' = k /\ UNCHANGED failing
             ELSE failing' = TRUE /\ UNCHANGED mirrored
  /\ UNCHANGED <<serviceVars, control, ui, task, result, read, lister>>

\* releaseResultRequiresBackup
RequiresBackup(a) ==
  \/ a.state \in {"succeeded", "rolled_back", "needs_attention"}
  \/ \E i \in DOMAIN a.stages : a.stages[i] = "backup_verified"

\* validAgentReleaseResult, with n stages mirrored so far.
ValidResult(a, n) ==
  /\ ValidProgress(a.stages, n)
  /\ LastStage(a.stages) \in TerminalStages /\ a.state = StateOfStage(LastStage(a.stages))
  /\ RequiresBackup(a) => a.backup

\* (Mutant: the call has no deadline.)
ReceiveAnswer(a) ==
  /\ a # NoAnswer /\ a = answer /\ ~busy
  /\ answer' = NoAnswer /\ UNCHANGED <<evidenceVars, busy, reading, content, edited>>

\* What comes back from the Agent: its answer, if there is one, or an error instead.
Receive(a) ==
  /\ CallFails \/ (a = answer /\ ~busy)
  /\ answer' = NoAnswer /\ UNCHANGED <<evidenceVars, busy, reading, content, edited>>

Completed ==
  /\ task = "waiting"
  /\ \E a \in {answer, NoAnswer} :
       /\ Receive(a)
       /\ IF ~ValidResult(a, mirrored) THEN
            GotoTask("uncertain") /\ UNCHANGED indexed
          ELSE IF failing THEN
            GotoTask("uncertain") /\ indexed' \in {indexed, indexed \/ a.backup}
          ELSE
            /\ task' = "index" /\ result' = a
            /\ UNCHANGED <<mirrored, failing, read, ui, indexed>>
  /\ UNCHANGED <<check, release, history, lease, row, control, lister>>

-------------------------------------------------------------------------------
(* mirrorReleaseResult. *)

\* The backup is indexed before the verdict is recorded.
Index ==
  /\ task = "index"
  /\ \/ indexed' = (indexed \/ result.backup) /\ GotoTask("mirror")
     \/ StoreFails /\ result.backup /\ GotoTask("uncertain") /\ UNCHANGED indexed
  /\ UNCHANGED <<serviceVars, check, release, history, lease, row, control, lister>>

\* The remaining stages are copied one by one; the last one carries the verdict.
Mirror ==
  /\ task = "mirror"
  /\ \E k \in IF StoreFails THEN mirrored..Len(result.stages) ELSE {Len(result.stages)} :
       /\ IF k = mirrored THEN UNCHANGED databaseVars
          ELSE Record(SubSeq(result.stages, mirrored + 1, k), StateOfStage(result.stages[k]))
       /\ IF k = Len(result.stages) THEN GotoTask("outcome") ELSE Fail
  /\ UNCHANGED <<serviceVars, control, lister>>

\* (Mutant: an answer that cannot be used counts as a failed release.)
MarkFailed ==
  /\ task = "uncertain"
  /\ Record(<<"needs_attention">>, "failed") /\ GotoTask("outcome")
  /\ UNCHANGED <<serviceVars, control, lister>>

\* markReleaseUncertain
MarkUncertain ==
  /\ task = "uncertain"
  /\ \/ Record(<<"needs_attention">>, "needs_attention") /\ GotoTask("outcome")
     \/ StoreFails /\ Fail /\ UNCHANGED databaseVars
  /\ UNCHANGED <<serviceVars, control, lister>>

-------------------------------------------------------------------------------
(* applyWorkspaceReleaseOutcome. *)

OutcomeState == IF release.state = "succeeded" THEN "published" ELSE "needs_attention"

\* The error that made a release uncertain also ends a startup.
EndOutcome == Succeed \/ (release.state = "needs_attention" /\ Fail)

\* Only success and doubt concern the workspace; its row is read before the lock is taken.
ReadRow ==
  /\ task = "outcome"
  /\ IF release.state \in {"failed", "rolled_back"} \/ row.state = OutcomeState
     THEN EndOutcome
     ELSE \/ task' = "lock" /\ read' = row /\ UNCHANGED <<mirrored, failing, result, ui>>
          \/ StoreFails /\ Fail
  /\ UNCHANGED <<serviceVars, databaseVars, control, lister>>

\* (Mutant: the draft digest is not compared.)
WriteControlOfAnyDraft ==
  /\ task = "lock"
  /\ IF read.state = "ready"
     THEN /\ control' = [state |-> OutcomeState, revision |-> read.revision + 1]
          /\ GotoTask("row")
     ELSE Fail /\ UNCHANGED control
  /\ UNCHANGED <<serviceVars, databaseVars, lister>>

\* Under the lock: the row as it was read decides, and the control file goes first.
WriteControl ==
  /\ task = "lock"
  /\ IF read.state = "ready" /\ read.draft = release.draft
     THEN \/ /\ control' = [state |-> OutcomeState, revision |-> read.revision + 1]
             /\ GotoTask("row")
          \/ StoreFails /\ Fail /\ UNCHANGED control
     ELSE Fail /\ UNCHANGED control
  /\ UNCHANGED <<serviceVars, databaseVars, lister>>

\* The row follows, or the control file is put back as the row was when it was read.
WriteRow ==
  /\ task = "row"
  /\ \/ UpdateRow(read.revision, OutcomeState) /\ EndOutcome /\ UNCHANGED control
     \/ /\ StoreFails \/ row.revision # read.revision
        /\ control' = ControlOf(read) \/ (StoreFails /\ UNCHANGED control)
        /\ Fail /\ UNCHANGED databaseVars
  /\ UNCHANGED <<serviceVars, lister>>

-------------------------------------------------------------------------------
(* Reconcile, when the UI process starts: first the release, then the workspace. *)

\* A release that no Agent was asked for has failed, one that ran is recovered.
Reconcile ==
  /\ ui = "releases" /\ task = "none"
  /\ \/ release.state \notin ActiveStates /\ Succeed /\ UNCHANGED databaseVars
     \/ release.state = "queued" /\ Record(<<"failed">>, "failed") /\ Succeed
     \/ release.state \in {"running", "rolling_back"} /\ GotoTask("recover") /\ UNCHANGED databaseVars
     \/ StoreFails /\ Fail /\ UNCHANGED databaseVars
  /\ UNCHANGED <<serviceVars, control, lister>>

\* The Agent takes up the call once it is through with any other.
Recover ==
  /\ task = "recover"
  /\ \/ CallBegins /\ GotoTask("recovering")
     \/ CallFails /\ UNCHANGED serviceVars /\ GotoTask("uncertain")
  /\ UNCHANGED <<databaseVars, control, lister>>

\* The stages stored so far must be the Agent's first stages.
Recovered ==
  /\ task = "recovering"
  /\ \E a \in {answer, NoAnswer} :
       /\ Receive(a)
       /\ LET n == Len(history) - 1
              extends == /\ Len(a.stages) >= n /\ Len(a.stages) >= 1
                         /\ \A i \in 1..n : history[i + 1] = a.stages[i]
          IN IF extends /\ ValidResult(a, n)
             THEN /\ task' = "index" /\ mirrored' = n /\ result' = a
                  /\ UNCHANGED <<failing, read, ui>>
             ELSE GotoTask("uncertain")
  /\ UNCHANGED <<databaseVars, control, lister>>

\* Only the control file of a ready workspace is compared: one that is behind is
\* rewritten; if that fails, and on any other difference, the administrator is asked.
ReconcileWorkspace ==
  /\ ui = "workspaces"
  /\ \/ row.state # "ready" /\ ui' = "serving" /\ UNCHANGED <<databaseVars, control>>
     \/ /\ row.state = "ready" /\ control.state = "ready" /\ control.revision <= row.revision
        /\ control' = ControlOf(row) /\ ui' = "serving" /\ UNCHANGED databaseVars
     \/ /\ row.state = "ready"
        /\ \/ control.state # "ready" \/ control.revision > row.revision
           \/ StoreFails /\ control.revision < row.revision
        /\ UpdateRow(row.revision, "needs_attention")
        /\ control' \in {control, ControlOf(row')}
        /\ ui' = "serving"
     \/ StoreFails /\ ui' = "down" /\ UNCHANGED <<databaseVars, control>>
  /\ UNCHANGED <<serviceVars, taskVars, lister>>

-------------------------------------------------------------------------------
(* What else happens in the UI process meanwhile. *)

\* List and Get: the row of a ready workspace whose production has changed.
ListSees ==
  /\ Readers /\ ui = "serving" /\ lister.at = "idle"
  /\ row.state = "ready" /\ content # "production"
  /\ lister' = [at |-> "mark", revision |-> row.revision]
  /\ UNCHANGED <<serviceVars, databaseVars, control, ui, taskVars>>

ListMarks ==
  /\ lister.at = "mark"
  /\ \/ UpdateRow(lister.revision, "stale") /\ lister' = [lister EXCEPT !.at = "write"]
     \/ /\ StoreFails \/ row.revision # lister.revision
        /\ lister' = Idle /\ UNCHANGED databaseVars
  /\ UNCHANGED <<serviceVars, control, ui, taskVars>>

ListWrites ==
  /\ lister.at = "write"
  /\ \/ control' = [state |-> "stale", revision |-> lister.revision + 1]
     \/ StoreFails /\ UNCHANGED control
  /\ lister' = Idle
  /\ UNCHANGED <<serviceVars, databaseVars, ui, taskVars>>

\* A draft edit, under the workspace lock; it is refused, and the workspace stale, if
\* production has changed.  A running release does not stop it.
EditDraft ==
  /\ ui = "serving" /\ task # "row"
  /\ row.state = "ready" /\ Opens /\ row.draft < Edits
  /\ \/ /\ content = "production"
        /\ row' = [row EXCEPT !.revision = @ + 1, !.draft = @ + 1]
        /\ control' = ControlOf(row')
        /\ UNCHANGED <<check, release, history, lease, indexed>>
     \/ /\ content # "production"
        /\ UpdateRow(row.revision, "stale")
        /\ control' = ControlOf(row') \/ (StoreFails /\ UNCHANGED control)
  /\ UNCHANGED <<serviceVars, ui, taskVars, lister>>

\* The UI process dies, or stops and gives up waiting; the Agent is not told.
UIDies ==
  /\ MayDie /\ ui # "down"
  /\ ui' = "down" /\ task' = "none" /\ mirrored' = 0 /\ failing' = FALSE
  /\ result' = NoAnswer /\ read' = Unread /\ lister' = Idle /\ answer' = NoAnswer
  /\ UNCHANGED <<evidenceVars, busy, reading, content, edited, databaseVars, control>>

UIStarts ==
  /\ ui = "down" /\ ui' = "releases"
  /\ UNCHANGED <<serviceVars, databaseVars, control, taskVars, lister>>

\* The Agent's own steps; an answer reaches only a task that waits for it.  Nobody else
\* edits production.
Agent ==
  /\ Work \/ CallEnds \/ (MayDie /\ AgentDies)
  /\ LogFails \/ (known' = log' /\ ~spoiled')
  /\ task \notin {"waiting", "recovering"} => answer' = NoAnswer
  /\ UNCHANGED <<databaseVars, control, ui, taskVars, lister>>

-------------------------------------------------------------------------------
TaskStep ==
  StartRun \/ Execute \/ Poll \/ Completed \/ Index \/ Mirror \/ MarkUncertain
  \/ ReadRow \/ WriteControl \/ WriteRow \/ Recover \/ Recovered

UIStep == Check \/ Queue \/ EditDraft \/ ListSees \/ ListMarks \/ ListWrites

Next == TaskStep \/ Reconcile \/ ReconcileWorkspace \/ UIStep \/ UIDies \/ UIStarts \/ Agent

\* Every call and every database statement of the task has a deadline, so the task goes
\* on; s6 restarts the UI process.
Spec == Init /\ [][Next]_vars /\ WF_vars(TaskStep) /\ WF_vars(Reconcile) /\ WF_vars(UIStarts)

-------------------------------------------------------------------------------
(* Properties. *)

\* The history that copies the first stages of a log, and after them at most the UI's doubt.
Copies(logged) ==
  LET n == Len(history) - 1 IN
  \/ n <= Len(logged) /\ Tail(history) = SubSeq(logged, 1, n)
  \/ n - 1 <= Len(logged) /\ Tail(history) = Append(SubSeq(logged, 1, n - 1), "needs_attention")

\* The stages in the database are the first stages the Agent logged, or knew of when it answered,
\* never any it did not.  The first stage is the UI's to record, and so is the failure of a
\* release that never ran.
HistoryIsEvidence ==
  release.state # "none" /\ history \notin {<<"queued">>, <<"queued", "failed">>} =>
    \E logged \in {log, known} : Copies(IF logged = <<>> THEN <<"rechecking">> ELSE logged)

\* Whatever was lost, delayed or restarted on the way, a verdict the user reads agrees
\* with production: success means the draft, failure and rollback what was there before.
VerdictIsTrue == Agrees(release.state)

\* A release that succeeded or was rolled back can be restored from: PutBackup comes
\* before the verdict.
RestorePointIsIndexed == release.state \in {"succeeded", "rolled_back"} => indexed

\* What the database says of a release is true: its stages are the Agent's, its verdict agrees with
\* production, and a verdict that has a restore point has it indexed (Run, Reconcile, mirrorResult).
RecordsAreTrue == HistoryIsEvidence /\ VerdictIsTrue /\ RestorePointIsIndexed

\* The UI serves nothing while a release of an earlier life is unsettled: what is
\* active then belongs to a task, or to one that failed since.  And the lease is held
\* exactly while a release is active.
StartupSettles ==
  /\ ui = "workspaces" => release.state \notin ActiveStates
  /\ lease <=> release.state \in ActiveStates

\* A workspace called published was published, with the draft it still has.
PublishedIsProduction ==
  row.state = "published" =>
    release.state = "succeeded" /\ content = "draft" /\ row.draft = release.draft

\* Neither a failed nor a rolled back release locks the draft away: only doubt, or a
\* success that a crash cut off, makes a workspace need attention.
AttentionHasCause ==
  row.state = "needs_attention" => release.state \in {"needs_attention", "succeeded"}

\* A workspace follows its release, whatever edits and listings run beside it: it is published only
\* with the draft that was, and locked only in doubt (applyWorkspaceReleaseOutcome, refreshReady).
WorkspaceFollowsRelease == PublishedIsProduction /\ AttentionHasCause

\* Run and Reconcile come to an end, whatever the Agent does.
TaskEnds == task # "none" ~> task = "none"

Quiet == ui = "serving" /\ task = "none" /\ lister = Idle

\* "After upgrades, restarts and recovery, configuration, database, backups, history and
\* audit agree": a release recorded as succeeded has published its workspace.
SucceededIsPublished == Quiet /\ release.state = "succeeded" => row.state = "published"
=============================================================================
