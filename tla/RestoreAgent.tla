---------------------------- MODULE RestoreAgent ----------------------------
(***************************************************************************)
(* The restore transaction of the privileged Agent: PrepareRestore, which  *)
(* checks the target and saves production in a backup of its own,          *)
(* ExecuteRestore, which writes the target over production,                *)
(* rollbackRestore, which puts the saved state back, and RecoverRestore,   *)
(* which takes over from what a crash left.                                *)
(*                                                                         *)
(* The publish transaction (ReleaseAgent) was written first and this one   *)
(* follows its stages, but it writes whole backup trees.  The digest both  *)
(* decide by covers the contents of managed text only: of every other file *)
(* (a key, a page) it sees the name, mode and size.  So two trees may have *)
(* the same digest, and SeenByDigest is all that Digest tells of a tree.   *)
(*                                                                         *)
(* As there, a call is a control point and its memory, a crash forgets     *)
(* both, and any check, command, write or probe may fail.  Edits of        *)
(* production by others are left to ReleaseAgent.                          *)
(***************************************************************************)
EXTENDS TaskStages

CONSTANTS
  Paths,    \* every file name under the production root
  Trees,    \* the whole configurations there can be, functions on Paths
  Source,   \* the tree in production when the restore is asked for
  Targets,  \* the trees a backup to restore may hold
  Managed,  \* the paths whose contents the digest covers
  Valid,    \* the trees "nginx -t" accepts
  MaxEvents \* bound: a recovery is asked for while the log is no longer than this

VARIABLES
  target,     \* the tree of the backup to restore
  files,      \* the production root
  running,    \* the tree the workers serve
  replaced,   \* no worker recorded in the journal is still there
  hup,        \* a reload signal nginx has not acted on
  master,     \* "known": the master the journal records; "other"; "down"
  dir,        \* the directory of the restore exists
  journal,    \* state.json: last stage, safety backup recorded, files written
  events,     \* events.ndjson
  torn,       \* the event log no longer parses
  safety,     \* the tree of the safety backup, or NoTree
  pc,         \* the control point of the call, "idle" or "down"
  stages,     \* result.Stages
  left,       \* the files the current loop has not reached
  reload,     \* reloadPossiblyRequested
  durable,    \* journal.DurableOperation in memory
  reply       \* the state the last call returned

NoTree == <<>>

nginxVars == <<running, replaced, hup, master>>
logVars   == <<journal, events, torn, stages>>
vars == <<target, files, running, replaced, hup, master, dir, journal, events, torn,
          safety, pc, stages, left, reload, durable, reply>>

Stages ==
  <<"target_verifying", "target_validated", "safety_backup_creating", "safety_backup_verified",
    "files_restoring", "files_restored", "production_validated", "reload_requested",
    "runtime_confirmed", "succeeded",
    "rollback_applying", "rollback_files_restored", "rollback_validated",
    "rollback_reload_requested", "rolled_back", "failed", "needs_attention">>

\* restoreStageOrder, but for the gaps between its numbers.
StageOrder(stage) == CHOOSE i \in DOMAIN Stages : Stages[i] = stage

StageNames == {Stages[i] : i \in DOMAIN Stages}
TerminalStages == {"succeeded", "rolled_back", "failed", "needs_attention"}

\* The stages before there is a safety backup, those of the write, and those of a rollback.
Early == {"target_verifying", "target_validated", "safety_backup_creating"}
Write == {"files_restoring", "files_restored", "production_validated", "reload_requested", "runtime_confirmed"}
Undo  == {"rollback_applying", "rollback_files_restored", "rollback_validated", "rollback_reload_requested"}

ControlPoints ==
  {"idle", "down", "verify", "target", "source", "save", "unsaved",
   "check", "apply", "written", "test", "send", "sent", "confirm", "succeed",
   "rollback", "restore", "rollback_test", "rollback_send", "rollback_sent",
   "rollback_confirm", "attention",
   "read", "decide", "resume_send", "resume_confirm", "resume_done", "unresumed"}

\* What the digest of a tree tells of it.
SeenByDigest(tree) == [p \in Managed |-> tree[p]]
SameDigest(a, b) == SeenByDigest(a) = SeenByDigest(b)

TypeOK ==
  /\ target \in Targets
  /\ files \in Trees /\ running \in Trees /\ safety \in Trees \cup {NoTree}
  /\ replaced \in BOOLEAN /\ hup \in BOOLEAN /\ master \in {"known", "other", "down"}
  /\ dir \in BOOLEAN /\ torn \in BOOLEAN
  /\ journal \in [stage : StageNames \cup {"none"}, saved : BOOLEAN, durable : BOOLEAN]
  /\ events \in Seq(StageNames) /\ stages \in Seq(StageNames)
  /\ pc \in ControlPoints /\ left \subseteq Paths
  /\ reload \in BOOLEAN /\ durable \in BOOLEAN
  /\ reply \in {"none", "running", "prepared"} \cup TerminalStages

Init ==
  /\ target \in Targets
  /\ files = Source /\ running = Source
  /\ replaced = FALSE /\ hup = FALSE /\ master = "known"
  /\ dir = FALSE /\ torn = FALSE /\ safety = NoTree
  /\ journal = [stage |-> "none", saved |-> FALSE, durable |-> FALSE]
  /\ events = <<>> /\ stages = <<>>
  /\ pc = "idle" /\ left = {} /\ reload = FALSE /\ durable = FALSE /\ reply = "none"

-------------------------------------------------------------------------------
(* The evidence on disk. *)

\* The journal a stage is written with.
Record(stage) ==
  [stage |-> stage,
   saved |-> journal.saved \/ stage = "safety_backup_verified" \/ pc = "unsaved",
   durable |-> durable]

\* appendStage: journal, event, memory.  An event that follows one the memory does not
\* know of repeats its sequence number and spoils the log.
Log(stage) ==
  /\ journal' = Record(stage)
  /\ events' = Append(events, stage)
  /\ stages' = Append(stages, stage)
  /\ torn' = (torn \/ events # stages)

\* appendStage failed: before or after the journal was replaced, or after some or all
\* of the event was written.
LogError(stage) ==
  /\ \/ UNCHANGED <<journal, events, torn>>
     \/ /\ journal' = Record(stage)
        /\ \/ UNCHANGED <<events, torn>>
           \/ torn' = TRUE /\ UNCHANGED events
           \/ events' = Append(events, stage) /\ torn' = (torn \/ events # stages)
  /\ UNCHANGED stages

\* fail and restoreNeedsAttention: the verdict stands whether it could be logged or not.
TryLog(stage) == Log(stage) \/ LogError(stage)

\* readRestoreEvidence: the journal names this restore and its safety backup, and the
\* events are in order and end with the stage of the journal.
Readable ==
  /\ journal.stage # "none" /\ journal.saved /\ ~torn
  /\ events # <<>> /\ events[Len(events)] = journal.stage
  /\ \A i \in 1..(Len(events) - 1) : StageOrder(events[i]) <= StageOrder(events[i + 1])

Reached(stage) == stages # <<>> /\ StageOrder(stages[Len(stages)]) >= StageOrder(stage)

Return(state) == pc' = "idle" /\ reply' = state
Goto(point) == pc' = point /\ UNCHANGED reply
Begin(point) == pc' = point /\ reply' = "none"

-------------------------------------------------------------------------------
(* PrepareRestore. *)

\* The directory must be new, so a restore is prepared once.
Prepare ==
  /\ pc = "idle" /\ ~dir
  /\ dir' = TRUE
  /\ stages' = <<>> /\ durable' = FALSE
  /\ Begin("verify") \/ UNCHANGED <<pc, reply>>
  /\ UNCHANGED <<target, files, nginxVars, journal, events, torn, safety, left, reload>>

\* One stage of the preparation: it is logged, or an error of the log leaves the call
\* without a verdict, or what it checks fails and the restore with it.
PrepareStage(point, check, stage, next) ==
  /\ pc = point
  /\ \/ check /\ Log(stage) /\ Goto(next)
     \/ check /\ LogError(stage) /\ Return("running")
     \/ point # "verify" /\ TryLog("failed") /\ Return("failed")
  /\ UNCHANGED <<target, files, nginxVars, dir, safety, left, reload, durable>>

StartPreparation == PrepareStage("verify", TRUE, "target_verifying", "target")

\* The backup is verified and "nginx -t" accepts a copy of it.
ValidateTarget == PrepareStage("target", target \in Valid, "target_validated", "source")

\* Production still has the source digest and nginx is up; its PIDs are the baseline.
InspectSource ==
  /\ pc = "source"
  /\ \/ /\ SameDigest(files, Source) /\ master # "down"
        /\ master' = "known" /\ replaced' = FALSE
        /\ \/ Log("safety_backup_creating") /\ Goto("save")
           \/ LogError("safety_backup_creating") /\ Return("running")
     \/ TryLog("failed") /\ Return("failed") /\ UNCHANGED <<master, replaced>>
  /\ UNCHANGED <<target, files, running, hup, dir, safety, left, reload, durable>>

\* CreateRestoreBackup copies production; a failure to log it fails the restore.
SaveSource ==
  /\ pc = "save"
  /\ \/ /\ SameDigest(files, Source)
        /\ safety' = files
        /\ \/ Log("safety_backup_verified") /\ Return("prepared")
           \/ LogError("safety_backup_verified") /\ Goto("unsaved")
     \/ /\ TryLog("failed") /\ Return("failed")
        /\ safety' \in {safety, files}
  /\ UNCHANGED <<target, files, nginxVars, dir, left, reload, durable>>

FailUnsaved ==
  /\ pc = "unsaved"
  /\ TryLog("failed") /\ Return("failed")
  /\ UNCHANGED <<target, files, nginxVars, dir, safety, left, reload, durable>>

-------------------------------------------------------------------------------
(* ExecuteRestore. *)

Uncertain == Return("needs_attention")

\* Only a restore whose evidence ends with the safety backup is executed.  The UI asks
\* for it once, on the answer that the restore is prepared (RunRestore).
Execute ==
  /\ pc = "idle" /\ reply = "prepared"
  /\ \/ Uncertain /\ UNCHANGED <<stages, durable>>
     \/ /\ Readable /\ journal.stage = "safety_backup_verified"
        /\ stages' = events /\ durable' = journal.durable /\ Begin("check")
  /\ left' = {} /\ reload' = FALSE
  /\ UNCHANGED <<target, files, nginxVars, dir, journal, events, torn, safety>>

\* Target, safety backup and production are checked again before the first write.
CheckAgain ==
  /\ pc = "check"
  /\ \/ /\ safety # NoTree /\ SameDigest(files, Source)
        /\ \/ Log("files_restoring") /\ left' = Paths /\ Goto("apply")
           \/ LogError("files_restoring") /\ Return("running") /\ UNCHANGED left
     \/ TryLog("failed") /\ Return("failed") /\ UNCHANGED left
  /\ UNCHANGED <<target, files, nginxVars, dir, safety, reload, durable>>

StartRollback(reloadPossiblyRequested) ==
  reload' = reloadPossiblyRequested /\ Goto("rollback")

\* applyVerifiedBackup writes one file after the other.
ApplyFile(point, tree, failed) ==
  /\ pc = point
  /\ \/ \E p \in left :
          files' = [files EXCEPT ![p] = tree[p]] /\ left' = left \ {p} /\ UNCHANGED <<pc, reply, reload>>
     \/ left # {} /\ failed /\ UNCHANGED <<files, left>>
  /\ UNCHANGED <<target, nginxVars, dir, logVars, safety, durable>>

WriteTarget == ApplyFile("apply", target, StartRollback(FALSE))

\* The tree in place is compared with the backup, and only then counted as written.
TargetWritten ==
  /\ pc = "apply" /\ left = {}
  /\ \/ files = target /\ durable' = TRUE /\ Goto("written") /\ UNCHANGED reload
     \/ StartRollback(FALSE) /\ UNCHANGED durable
  /\ UNCHANGED <<target, files, nginxVars, dir, logVars, safety, left>>

\* A stage of the execution: logged, or rolled back for a failure of check or log.
ExecuteStage(point, check, stage, next, reloaded) ==
  /\ pc = point
  /\ \/ check /\ Log(stage) /\ Goto(next) /\ UNCHANGED reload
     \/ check /\ LogError(stage) /\ StartRollback(reloaded)
     \/ StartRollback(reloaded) /\ UNCHANGED logVars
  /\ UNCHANGED <<target, files, nginxVars, dir, safety, left, durable>>

LogWritten == ExecuteStage("written", TRUE, "files_restored", "test", FALSE)

TestTarget ==
  ExecuteStage("test", SameDigest(files, target) /\ files \in Valid,
               "production_validated", "send", FALSE)

\* "nginx -s reload": a failed command may still have sent the signal.
SendReload(point, sent, failed) ==
  /\ pc = point
  /\ \/ master # "down" /\ files \in Valid /\ hup' = TRUE /\ Goto(sent) /\ UNCHANGED <<logVars, reload>>
     \/ hup' \in {hup, master # "down"} /\ failed
  /\ UNCHANGED <<target, files, running, replaced, master, dir, safety, left, durable>>

ReloadTarget ==
  SendReload("send", "sent", TryLog("reload_requested") /\ StartRollback(TRUE))

LogReload ==
  /\ pc = "sent"
  /\ \/ Log("reload_requested") /\ Goto("confirm") /\ UNCHANGED reload
     \/ LogError("reload_requested") /\ StartRollback(TRUE)
  /\ UNCHANGED <<target, files, nginxVars, dir, safety, left, durable>>

\* confirmRestoreRuntime: the recorded master, and new workers if a reload needs proof.
Confirmed(replacement) == master = "known" /\ (replacement => replaced)

Confirm == ExecuteStage("confirm", Confirmed(TRUE), "runtime_confirmed", "succeed", TRUE)

Succeed ==
  /\ pc = "succeed"
  /\ \/ Log("succeeded") /\ Return("succeeded") /\ UNCHANGED reload
     \/ LogError("succeeded") /\ StartRollback(TRUE)
  /\ UNCHANGED <<target, files, nginxVars, dir, safety, left, durable>>

-------------------------------------------------------------------------------
(* rollbackRestore.  A stage the evidence has is not done again. *)

NeedsAttention == Goto("attention")

Rollback ==
  /\ pc = "rollback"
  /\ \/ /\ \/ Reached("rollback_applying") /\ UNCHANGED logVars
           \/ ~Reached("rollback_applying") /\ Log("rollback_applying")
        /\ \/ safety = NoTree /\ NeedsAttention /\ UNCHANGED left
           \/ safety # NoTree /\ Reached("rollback_files_restored") /\ Goto("rollback_test") /\ UNCHANGED left
           \/ safety # NoTree /\ ~Reached("rollback_files_restored") /\ left' = Paths /\ Goto("restore")
           \/ NeedsAttention /\ UNCHANGED left
     \/ ~Reached("rollback_applying") /\ LogError("rollback_applying") /\ NeedsAttention /\ UNCHANGED left
  /\ UNCHANGED <<target, files, nginxVars, dir, safety, reload, durable>>

WriteSafety == ApplyFile("restore", safety, NeedsAttention /\ UNCHANGED reload)

\* One stage of the rollback, skipped if the evidence has it already.
RollbackStage(point, check, stage, next) ==
  /\ pc = point
  /\ \/ check /\ Reached(stage) /\ Goto(next) /\ UNCHANGED logVars
     \/ check /\ ~Reached(stage) /\ Log(stage) /\ Goto(next)
     \/ check /\ ~Reached(stage) /\ LogError(stage) /\ NeedsAttention
     \/ NeedsAttention /\ UNCHANGED logVars
  /\ UNCHANGED <<target, files, nginxVars, dir, safety, left, reload, durable>>

SafetyWritten ==
  left = {} /\ RollbackStage("restore", files = safety, "rollback_files_restored", "rollback_test")

TestSafety ==
  RollbackStage("rollback_test", SameDigest(files, Source) /\ files \in Valid,
                "rollback_validated", "rollback_send")

ReloadSafety ==
  \/ /\ reload /\ ~Reached("rollback_reload_requested")
     /\ SendReload("rollback_send", "rollback_sent", NeedsAttention /\ UNCHANGED <<logVars, reload>>)
  \/ /\ ~(reload /\ ~Reached("rollback_reload_requested"))
     /\ pc = "rollback_send" /\ Goto("rollback_confirm")
     /\ UNCHANGED <<target, files, nginxVars, dir, logVars, safety, left, reload, durable>>

LogRollbackReload ==
  /\ pc = "rollback_sent"
  /\ \/ Log("rollback_reload_requested") /\ Goto("rollback_confirm")
     \/ LogError("rollback_reload_requested") /\ NeedsAttention
  /\ UNCHANGED <<target, files, nginxVars, dir, safety, left, reload, durable>>

RollbackConfirm ==
  /\ pc = "rollback_confirm"
  /\ \/ Confirmed(reload) /\ Log("rolled_back") /\ Return("rolled_back")
     \/ Confirmed(reload) /\ LogError("rolled_back") /\ NeedsAttention
     \/ NeedsAttention /\ UNCHANGED logVars
  /\ UNCHANGED <<target, files, nginxVars, dir, safety, left, reload, durable>>

Attend ==
  /\ pc = "attention"
  /\ TryLog("needs_attention") /\ Return("needs_attention")
  /\ UNCHANGED <<target, files, nginxVars, dir, safety, left, reload, durable>>

-------------------------------------------------------------------------------
(* RecoverRestore. *)

\* The call waits for releaseLock, so it starts only when no other call runs.
Recover ==
  /\ pc = "idle" /\ Len(events) <= MaxEvents
  /\ stages' = <<>> /\ left' = {} /\ reload' = FALSE /\ durable' = FALSE
  /\ Begin("read")
  /\ UNCHANGED <<target, files, nginxVars, dir, journal, events, torn, safety>>

\* (Mutant: a verdict in the evidence is looked into again.)
ReadEvidenceAnew ==
  /\ pc = "read"
  /\ \/ Uncertain /\ UNCHANGED <<stages, durable>>
     \/ Readable /\ stages' = events /\ durable' = journal.durable /\ Goto("decide")
  /\ UNCHANGED <<target, files, nginxVars, dir, journal, events, torn, safety, left, reload>>

\* (Mutant: the last stage of the evidence is returned whatever it is.)
ReadEvidenceAsVerdict ==
  /\ pc = "read"
  /\ Readable /\ stages' = events /\ durable' = journal.durable /\ Return(journal.stage)
  /\ UNCHANGED <<target, files, nginxVars, dir, journal, events, torn, safety, left, reload>>

\* A verdict in the evidence is returned as it stands.
ReadEvidence ==
  /\ pc = "read"
  /\ \/ Uncertain /\ UNCHANGED <<stages, durable>>
     \/ /\ Readable /\ stages' = events /\ durable' = journal.durable
        /\ IF journal.stage \in TerminalStages THEN Return(journal.stage) ELSE Goto("decide")
  /\ UNCHANGED <<target, files, nginxVars, dir, journal, events, torn, safety, left, reload>>

RollbackStarted == Reached("rollback_applying")

\* Production has the digest of the target: the restore may still succeed.
Decide ==
  /\ pc = "decide"
  /\ \/ /\ ~RollbackStarted /\ SameDigest(files, target)
        /\ \/ files \in Valid /\ Goto("resume_send") /\ UNCHANGED reload
           \/ Goto("unresumed") /\ UNCHANGED reload
     \/ (RollbackStarted \/ ~SameDigest(files, target)) /\ Goto("unresumed") /\ UNCHANGED reload
     \/ StartRollback(TRUE)
  /\ UNCHANGED <<target, files, nginxVars, dir, logVars, safety, left, durable>>

ResumeReload == SendReload("resume_send", "resume_confirm", Goto("unresumed") /\ UNCHANGED <<logVars, reload>>)

\* The error of the first of the two stages is ignored.
ResumeConfirm ==
  /\ pc = "resume_confirm"
  /\ \/ Confirmed(TRUE) /\ TryLog("runtime_confirmed") /\ Goto("resume_done")
     \/ Goto("unresumed") /\ UNCHANGED logVars
  /\ UNCHANGED <<target, files, nginxVars, dir, safety, left, reload, durable>>

ResumeDone ==
  /\ pc = "resume_done"
  /\ \/ Log("succeeded") /\ Return("succeeded")
     \/ LogError("succeeded") /\ Goto("unresumed")
  /\ UNCHANGED <<target, files, nginxVars, dir, safety, left, reload, durable>>

\* (Mutant: the journal alone tells that nothing was written.)
UnresumedByJournal ==
  /\ pc = "unresumed"
  /\ IF ~RollbackStarted /\ ~durable
     THEN TryLog("failed") /\ Return("failed") /\ UNCHANGED reload
     ELSE StartRollback(TRUE) /\ UNCHANGED logVars
  /\ UNCHANGED <<target, files, nginxVars, dir, safety, left, durable>>

\* The digest of the source and no completed write: nothing was written.  Anything else
\* is rolled back, with a reload.
Unresumed ==
  /\ pc = "unresumed"
  /\ IF ~RollbackStarted /\ SameDigest(files, Source) /\ ~durable
     THEN TryLog("failed") /\ Return("failed") /\ UNCHANGED reload
     ELSE StartRollback(TRUE) /\ UNCHANGED logVars
  /\ UNCHANGED <<target, files, nginxVars, dir, safety, left, durable>>

-------------------------------------------------------------------------------
(* What happens around the call. *)

Crash ==
  /\ pc # "down"
  /\ pc' = "down" /\ reply' = "none"
  /\ stages' = <<>> /\ left' = {} /\ reload' = FALSE /\ durable' = FALSE
  /\ UNCHANGED <<target, files, nginxVars, dir, journal, events, torn, safety>>

Restart ==
  /\ pc = "down" /\ Goto("idle")
  /\ UNCHANGED <<target, files, nginxVars, dir, logVars, safety, left, reload, durable>>

\* The nginx master acts on the signal: new workers on the files it finds, or the old
\* ones if nginx cannot load those.
NginxReload ==
  /\ hup /\ master # "down"
  /\ hup' = FALSE
  /\ IF files \in Valid THEN running' = files /\ replaced' = TRUE ELSE UNCHANGED <<running, replaced>>
  /\ UNCHANGED <<target, files, master, dir, logVars, safety, pc, left, reload, durable, reply>>

NginxExit ==
  /\ master # "down" /\ master' = "down" /\ hup' = FALSE
  /\ UNCHANGED <<target, files, running, replaced, dir, logVars, safety, pc, left, reload, durable, reply>>

NginxStart ==
  /\ master = "down" /\ files \in Valid
  /\ master' = "other" /\ running' = files /\ replaced' = TRUE
  /\ UNCHANGED <<target, files, hup, dir, logVars, safety, pc, left, reload, durable, reply>>

-------------------------------------------------------------------------------
PrepareStep == StartPreparation \/ ValidateTarget \/ InspectSource \/ SaveSource \/ FailUnsaved

ExecuteStep ==
  CheckAgain \/ WriteTarget \/ TargetWritten \/ LogWritten \/ TestTarget \/ ReloadTarget \/ LogReload
  \/ Confirm \/ Succeed

RollbackStep ==
  Rollback \/ WriteSafety \/ SafetyWritten \/ TestSafety \/ ReloadSafety
  \/ LogRollbackReload \/ RollbackConfirm \/ Attend

RecoverStep == ReadEvidence \/ Decide \/ ResumeReload \/ ResumeConfirm \/ ResumeDone \/ Unresumed

RestoreStep == PrepareStep \/ ExecuteStep \/ RollbackStep \/ RecoverStep

Next ==
  \/ Prepare \/ Execute \/ Recover \/ RestoreStep
  \/ Crash \/ Restart \/ NginxReload \/ NginxExit \/ NginxStart

Spec == Init /\ [][Next]_vars

-------------------------------------------------------------------------------
(* Properties. *)

\* Write-ahead rule: while production is not the tree the restore found, that tree is
\* in the safety backup and the journal says so, at every crash point of both write
\* loops.
SafetyBeforeWrite ==
  files # Source => safety = Source /\ journal.saved

\* A success, also one that a recovery gave, has every managed file of the target in
\* production and nothing else of managed text in the workers.
SucceededServesTarget ==
  reply = "succeeded" \/ (Readable /\ journal.stage = "succeeded") =>
    SameDigest(files, target) /\ (SameDigest(running, target) \/ master = "down")

\* A restore that rolled back has put back the whole tree it found, key files too, and
\* once nginx has acted on every signal it serves that tree.
RolledBackServesSource ==
  journal.stage = "rolled_back" =>
    files = Source /\ (running = Source \/ hup \/ master # "known")

\* A restore that failed has left every managed file as it was.
FailedLeavesManagedText ==
  journal.stage = "failed" \/ reply = "failed" => SameDigest(files, Source)

\* The stage as RecoveryCoordinator tells it.
Coarse(stage) ==
  CASE stage = "none" -> "queued"
    [] stage \in Early -> "first"
    [] stage = "safety_backup_verified" -> "saved"
    [] stage \in Write -> "write"
    [] stage \in Undo -> "undo"
    [] OTHER -> stage

\* A log that still parses is one the UI reckons with, whatever call was cut off: each stage is one
\* that may follow the stage before.
LogIsKnown ==
  ~torn => \A i \in 1..Len(events) :
             Succeeds("restore", Coarse(IF i = 1 THEN "none" ELSE events[i - 1]), Coarse(events[i]))

\* A verdict that can be read once no call is working is final: no later call writes
\* production or evidence, whichever call it is and whatever dies in between.
Settled == pc \in {"idle", "down", "read"} /\ Readable /\ journal.stage \in TerminalStages

VerdictIsFinal ==
  [][Settled => Settled' /\ UNCHANGED <<files, journal, events>>]_vars

\* What a call answered about production can be read again after any crash.
AnswerIsDurable ==
  reply \in {"succeeded", "rolled_back"} => journal.stage = reply /\ (Readable \/ torn)
=============================================================================
