----------------------------- MODULE ReleaseAgent -----------------------------
(***************************************************************************)
(* The publish transaction of the privileged Agent: ExecuteRelease, the    *)
(* rollback it falls back to, and RecoverRelease, which takes over from    *)
(* whatever a crash left on disk.                                          *)
(*                                                                         *)
(* One release is followed from its first call to its last recovery.  The  *)
(* Agent serves it under releaseLock, so at most one call works on it; a   *)
(* call is a control point pc plus the values it keeps in memory; no later *)
(* call uses them.  What survives is on disk: production, the release      *)
(* journal state.json, the event log events.ndjson and the backup.  Nginx  *)
(* is a process of its own: a reload only signals it, and it loads the     *)
(* files it finds when it gets round to the signal.                        *)
(*                                                                         *)
(* A configuration is a function from paths to contents and a digest is    *)
(* the configuration it was computed from.  The order in which paths are   *)
(* written is left open (the code sorts them).  Any check, command, disk   *)
(* write or probe may fail, which also covers a cancelled context: the     *)
(* Agent runs a call under the context of the HTTP request.                *)
(***************************************************************************)
EXTENDS ReleaseStages, FiniteSets

CONSTANTS
  Paths,        \* every file name under the production root
  Contents,     \* what a file can hold
  Absent,       \* no file of that name
  Production,   \* the configuration the request calls the production digest
  Draft,        \* the configuration the request calls the draft digest
  Valid,        \* the configurations "nginx -t" accepts
  EditPoints,   \* where in a call something else may edit the production root
  NginxRefuses  \* whether nginx may refuse to load what "nginx -t" accepted

Configurations == [Paths -> Contents \cup {Absent}]

ASSUME ConfigurationAssumption ==
  /\ Production \in Configurations
  /\ Draft \in Configurations
  /\ Production # Draft
  /\ Valid \subseteq Configurations

VARIABLES
  \* production and the nginx process
  files,      \* the production root
  running,    \* the configuration the workers serve
  replaced,   \* no worker recorded in the journal is still there
  hup,        \* a reload signal nginx has not acted on
  master,     \* "known": the master the journal records; "other"; "down"
  edited,     \* somebody else edited the production root
  \* what the Agent keeps on disk about the release
  dir,        \* the release directory exists
  journal,    \* state.json: last stage, any file durably written, PIDs known
  events,     \* events.ndjson, as far as a reader gets
  torn,       \* then an event is half-written or repeats a number: no reader accepts the log
  backup,     \* a complete backup of the production digest exists
  applied,    \* the files this release has put in place
  \* the call in progress
  pc,         \* the control point of the call, "idle" or "down"
  stages,     \* result.Stages, of the last call until the next one has its own
  left,       \* the files the current loop has not reached
  mayReload,  \* reloadPossiblyRequested
  evidence,   \* result.Backup is filled in
  reply       \* what the last call returned

nginxVars == <<running, replaced, hup, master>>
logVars   == <<journal, events, torn>>
diskVars  == <<dir, journal, events, torn, backup, applied>>
callVars  == <<stages, left, mayReload, evidence>>
vars == <<files, running, replaced, hup, master, edited, dir, journal, events, torn,
          backup, applied, pc, stages, left, mayReload, evidence, reply>>

ControlPoints ==
  {"idle", "down",
   "recheck", "inspect", "backup", "validate", "begin", "precheck", "apply", "test",
   "reload", "reloaded", "reload_failed", "confirm", "commit",
   "rollback", "verify", "restore", "retest", "rollback_reload", "rollback_reloaded",
   "rollback_reload_failed", "rollback_confirm", "attention",
   "read", "dispatch", "decide", "resume", "finish"}

ASSUME EnvironmentAssumption == EditPoints \subseteq ControlPoints /\ NginxRefuses \in BOOLEAN

NoReply == [state |-> "none", stages |-> <<>>, backup |-> FALSE]

TypeOK ==
  /\ files \in Configurations /\ running \in Configurations
  /\ replaced \in BOOLEAN /\ hup \in BOOLEAN /\ edited \in BOOLEAN
  /\ master \in {"known", "other", "down"}
  /\ dir \in BOOLEAN /\ torn \in BOOLEAN /\ backup \in BOOLEAN
  /\ journal \in [stage : Stages \cup {"none"}, durable : BOOLEAN, pids : BOOLEAN]
  /\ events \in Seq(Stages) /\ stages \in Seq(Stages)
  /\ applied \subseteq Paths /\ left \subseteq Paths
  /\ pc \in ControlPoints
  /\ mayReload \in BOOLEAN /\ evidence \in BOOLEAN
  /\ reply \in [state : ReleaseStates \cup {"none"}, stages : Seq(Stages), backup : BOOLEAN]

Init ==
  /\ files = Production /\ running = Production
  /\ replaced = FALSE /\ hup = FALSE /\ master = "known" /\ edited = FALSE
  /\ dir = FALSE /\ torn = FALSE /\ backup = FALSE /\ applied = {}
  /\ journal = [stage |-> "none", durable |-> FALSE, pids |-> FALSE]
  /\ events = <<>> /\ stages = <<>> /\ left = {}
  /\ pc = "idle" /\ mayReload = FALSE /\ evidence = FALSE /\ reply = NoReply

-------------------------------------------------------------------------------
(* The evidence on disk. *)

\* An event is appended, numbered by the copy in memory: after one the call does not know of, its
\* number is taken, and decodeReleaseEvents refuses the log from there on.
AppendEvent(stage) ==
  IF torn \/ events # stages
  THEN torn' = TRUE /\ UNCHANGED events
  ELSE events' = Append(events, stage) /\ UNCHANGED torn

\* appendStage: the journal first, then the event, then the copy in memory.
LogWith(record, stage) ==
  /\ journal' = record
  /\ AppendEvent(stage)
  /\ stages' = Append(stages, stage)

Log(stage) == LogWith([journal EXCEPT !.stage = stage], stage)

\* appendStage returned an error: neither write happened, or only the journal's, or the
\* journal's and half an event, or both in full (the event could not be synced or the
\* file not closed).  The call does not count the stage in any case.
LogErrorWith(record, stage) ==
  /\ \/ UNCHANGED logVars
     \/ journal' = record /\ torn' \in {torn, TRUE} /\ UNCHANGED events
     \/ journal' = record /\ AppendEvent(stage)
  /\ UNCHANGED stages

LogError(stage) == LogErrorWith([journal EXCEPT !.stage = stage], stage)

\* readReleaseEvidence succeeds.
RuntimeIdentityValid == journal.pids \/ journal.stage \in {"rechecking", "failed"}
Readable ==
  /\ journal.stage # "none"
  /\ RuntimeIdentityValid
  /\ ~torn
  /\ IF events = <<>>
     THEN journal.stage = "rechecking"
     ELSE InOrder(events) /\ StageOrder(LastStage(events)) <= StageOrder(journal.stage)

\* recoveryMayNeedReload: what the event log says about earlier reloads.
RecoveryMayNeedReload(log) ==
  \E i \in DOMAIN log : log[i] \in {"reload_requested", "rollback_reload_requested"}

StageMayHaveReloaded(stage) == StageOrder(stage) >= StageOrder("reload_requested")

\* RecoverRelease takes the attempt for one that never wrote to production.
ProvenUnwritten ==
  /\ ~journal.durable
  /\ files = Production
  /\ journal.stage \in BeforeWriteStages \cup {"files_applying"}

\* How far a rollback had come, by result.Stage.
Reached(stage) == stages # <<>> /\ StageOrder(LastStage(stages)) >= StageOrder(stage)

\* confirmReleaseRuntime: the recorded master, and new workers if a reload needs proof.
Confirmed(replacement) ==
  master = "known" /\ journal.pids /\ (replacement => replaced)

\* The files the publication writes or removes.
ManagedPaths == {p \in Paths : Production[p] # Absent \/ Draft[p] # Absent}

Return(state, log, withBackup) ==
  /\ pc' = "idle"
  /\ reply' = [state |-> state, stages |-> log, backup |-> withBackup]

\* The call goes on at another control point.
Goto(point) == pc' = point /\ UNCHANGED reply

-------------------------------------------------------------------------------
(* ExecuteRelease, up to the first write to production. *)

\* (Mutant: the release directory may already exist.)
ExecuteAgain ==
  /\ pc = "idle"
  /\ dir' = TRUE
  /\ stages' = <<>> /\ left' = {} /\ mayReload' = FALSE /\ evidence' = FALSE
  /\ Goto("recheck")
  /\ UNCHANGED <<files, nginxVars, edited, logVars, backup, applied>>

\* The call takes releaseLock and creates the release directory, once only; it may
\* fail to create the control directory inside and then never touches it again.
Execute ==
  /\ pc = "idle" /\ ~dir
  /\ dir' = TRUE
  /\ stages' = <<>> /\ left' = {} /\ mayReload' = FALSE /\ evidence' = FALSE
  /\ Goto("recheck") \/ UNCHANGED <<pc, reply>>
  /\ UNCHANGED <<files, nginxVars, edited, logVars, backup, applied>>

\* The call gives up before production was touched: it returns what it has, still
\* "running", and leaves the verdict to a recovery.
Abandon == Return("running", stages, evidence)

\* failBeforeWrite: whether or not the stage could be logged.
FailBeforeWrite(record) ==
  /\ LogWith(record, "failed") \/ LogErrorWith(record, "failed")
  /\ Return("failed", stages', evidence)

FailedRecord == [journal EXCEPT !.stage = "failed"]

\* The journal once the PIDs of the master and the workers are known.
WithBaseline(stage) == [journal EXCEPT !.pids = TRUE, !.stage = stage]

Recheck ==
  /\ pc = "recheck"
  /\ \/ Log("rechecking") /\ Goto("inspect")
     \/ LogError("rechecking") /\ Abandon
  /\ UNCHANGED <<files, nginxVars, edited, dir, backup, applied, left, mayReload, evidence>>

\* Nginx must be up and healthy and production unchanged; the master and worker
\* PIDs found here are the baseline every later confirmation compares with.
Inspect ==
  /\ pc = "inspect"
  /\ \/ /\ FailBeforeWrite(FailedRecord)
        /\ UNCHANGED <<master, replaced>>
     \/ /\ master # "down"
        /\ master' = "known" /\ replaced' = FALSE
        /\ \/ FailBeforeWrite(WithBaseline("failed"))
           \/ /\ files = Production
              /\ LogWith(WithBaseline("backup_creating"), "backup_creating") /\ Goto("backup")
           \/ /\ files = Production
              /\ LogErrorWith(WithBaseline("backup_creating"), "backup_creating") /\ Abandon
  /\ UNCHANGED <<files, running, hup, edited, dir, backup, applied, left, mayReload, evidence>>

\* CreateBackup copies production and keeps the copy only if it still has the
\* digest of the request; otherwise it removes what it made, if it can.
Backup ==
  /\ pc = "backup"
  /\ \/ /\ FailBeforeWrite(FailedRecord)
        /\ backup' \in {backup, files = Production} /\ UNCHANGED evidence
     \/ /\ files = Production
        /\ backup' = TRUE /\ evidence' = TRUE
        /\ \/ Log("backup_verified") /\ Goto("validate")
           \/ LogError("backup_verified") /\ Return("running", stages, TRUE)
  /\ UNCHANGED <<files, nginxVars, edited, dir, applied, left, mayReload>>

\* ValidateCandidate rebuilds the candidate from production and the draft.
Validate ==
  /\ pc = "validate"
  /\ \/ FailBeforeWrite(FailedRecord)
     \/ /\ files = Production /\ Draft \in Valid
        /\ \/ Log("candidate_validated") /\ Goto("begin")
           \/ LogError("candidate_validated") /\ Abandon
  /\ UNCHANGED <<files, nginxVars, edited, dir, backup, applied, left, mayReload, evidence>>

Begin ==
  /\ pc = "begin"
  /\ \/ Log("files_applying") /\ Goto("precheck")
     \/ LogError("files_applying") /\ Abandon
  /\ UNCHANGED <<files, nginxVars, edited, dir, backup, applied, left, mayReload, evidence>>

-------------------------------------------------------------------------------
(* ExecuteRelease, from the first write to the verdict. *)

\* rollbackRelease takes over; it must know whether nginx may have been signalled.
StartRollback(reloadPossiblyRequested) ==
  mayReload' = reloadPossiblyRequested /\ Goto("rollback")

\* applyReleaseFiles first compares production and the draft with the request.
PreCheck ==
  /\ pc = "precheck"
  /\ \/ /\ files = Production
        /\ left' = ManagedPaths /\ Goto("apply") /\ UNCHANGED mayReload
     \/ StartRollback(FALSE) /\ UNCHANGED left
  /\ UNCHANGED <<files, nginxVars, edited, diskVars, stages, evidence>>

\* One path is replaced, created or removed, then the journal counts it.
ApplyFile ==
  /\ pc = "apply"
  /\ \E p \in left :
       \/ /\ files' = [files EXCEPT ![p] = Draft[p]]
          /\ applied' = applied \cup {p}
          /\ \/ /\ journal' = [journal EXCEPT !.durable = TRUE]
                /\ left' = left \ {p} /\ UNCHANGED <<pc, reply, mayReload>>
             \/ /\ journal' \in {journal, [journal EXCEPT !.durable = TRUE]}
                /\ StartRollback(FALSE) /\ UNCHANGED left
       \/ StartRollback(FALSE) /\ UNCHANGED <<files, applied, journal, left>>
  /\ UNCHANGED <<nginxVars, edited, dir, events, torn, backup, stages, evidence>>

ApplyDone ==
  /\ pc = "apply" /\ left = {}
  /\ \/ files = Draft /\ Log("files_applied") /\ Goto("test") /\ UNCHANGED mayReload
     \/ files = Draft /\ LogError("files_applied") /\ StartRollback(FALSE)
     \/ StartRollback(FALSE) /\ UNCHANGED <<logVars, stages>>
  /\ UNCHANGED <<files, nginxVars, edited, dir, backup, applied, left, evidence>>

\* "nginx -t" on the files now in production.
Test ==
  /\ pc = "test"
  /\ \/ files \in Valid /\ Log("production_validated") /\ Goto("reload") /\ UNCHANGED mayReload
     \/ files \in Valid /\ LogError("production_validated") /\ StartRollback(FALSE)
     \/ StartRollback(FALSE) /\ UNCHANGED <<logVars, stages>>
  /\ UNCHANGED <<files, nginxVars, edited, dir, backup, applied, left, evidence>>

\* "nginx -s reload": a failed command may still have sent the signal.
SendReload(sent, failed) ==
  \/ master # "down" /\ files \in Valid /\ hup' = TRUE /\ Goto(sent)
  \/ hup' \in {hup, master # "down"} /\ Goto(failed)

Reload ==
  /\ pc = "reload"
  /\ SendReload("reloaded", "reload_failed")
  /\ UNCHANGED <<files, running, replaced, master, edited, diskVars, callVars>>

\* The reload is journalled only after the command returned.
LogReload ==
  /\ pc = "reloaded"
  /\ \/ Log("reload_requested") /\ Goto("confirm") /\ UNCHANGED mayReload
     \/ LogError("reload_requested") /\ StartRollback(TRUE)
  /\ UNCHANGED <<files, nginxVars, edited, dir, backup, applied, left, evidence>>

LogReloadFailure ==
  /\ pc = "reload_failed"
  /\ Log("reload_requested") \/ LogError("reload_requested")
  /\ StartRollback(TRUE)
  /\ UNCHANGED <<files, nginxVars, edited, dir, backup, applied, left, evidence>>

\* (Mutant: the confirmation waits without a deadline.)
ConfirmForever ==
  /\ pc = "confirm"
  /\ \/ Confirmed(TRUE) /\ Log("runtime_confirmed") /\ Goto("commit") /\ UNCHANGED mayReload
     \/ Confirmed(TRUE) /\ LogError("runtime_confirmed") /\ StartRollback(TRUE)
  /\ UNCHANGED <<files, nginxVars, edited, dir, backup, applied, left, evidence>>

Confirm ==
  /\ pc = "confirm"
  /\ \/ Confirmed(TRUE) /\ Log("runtime_confirmed") /\ Goto("commit") /\ UNCHANGED mayReload
     \/ Confirmed(TRUE) /\ LogError("runtime_confirmed") /\ StartRollback(TRUE)
     \/ StartRollback(TRUE) /\ UNCHANGED <<logVars, stages>>
  /\ UNCHANGED <<files, nginxVars, edited, dir, backup, applied, left, evidence>>

\* (Mutant: the error of appendStage is ignored.)
CommitUnlogged ==
  /\ pc = "commit"
  /\ Log("committed") \/ LogError("committed")
  /\ Return("succeeded", stages', evidence)
  /\ UNCHANGED <<files, nginxVars, edited, dir, backup, applied, left, mayReload, evidence>>

Commit ==
  /\ pc = "commit"
  /\ \/ Log("committed") /\ Return("succeeded", stages', evidence) /\ UNCHANGED mayReload
     \/ LogError("committed") /\ StartRollback(TRUE)
  /\ UNCHANGED <<files, nginxVars, edited, dir, backup, applied, left, evidence>>

-------------------------------------------------------------------------------
(* rollbackRelease: entered from a failed publication or from a recovery.  A    *)
(* stage the evidence already has is not logged again.                          *)

NeedsAttention == Goto("attention")

\* (Mutant: a rollback found in the evidence is taken for one that restored.)
RollbackSkipsRestore ==
  /\ pc = "rollback"
  /\ \/ Reached("rollback_applying") /\ Goto("rollback_confirm") /\ UNCHANGED <<logVars, stages>>
     \/ ~Reached("rollback_applying") /\ Log("rollback_applying") /\ Goto("verify")
  /\ UNCHANGED <<files, nginxVars, edited, dir, backup, applied, left, mayReload, evidence>>

\* (Mutant: a resumed rollback logs its first stage again.)
RollbackLogsAgain ==
  /\ pc = "rollback"
  /\ Log("rollback_applying") /\ Goto("verify")
  /\ UNCHANGED <<files, nginxVars, edited, dir, backup, applied, left, mayReload, evidence>>

Rollback ==
  /\ pc = "rollback"
  /\ \/ Reached("rollback_applying") /\ Goto("verify") /\ UNCHANGED <<logVars, stages>>
     \/ ~Reached("rollback_applying") /\ Log("rollback_applying") /\ Goto("verify")
     \/ ~Reached("rollback_applying") /\ LogError("rollback_applying") /\ NeedsAttention
  /\ UNCHANGED <<files, nginxVars, edited, dir, backup, applied, left, mayReload, evidence>>

\* restoreBackup verifies the backup before it touches production.
Verify ==
  /\ pc = "verify"
  /\ \/ backup /\ left' = Paths /\ Goto("restore")
     \/ NeedsAttention /\ UNCHANGED left
  /\ UNCHANGED <<files, nginxVars, edited, diskVars, stages, mayReload, evidence>>

\* Files the backup does not have are removed first, then the rest is rewritten.
RestoreFile ==
  /\ pc = "restore"
  /\ \/ \E p \in left :
          /\ (\E q \in left : Production[q] = Absent) => Production[p] = Absent
          /\ files' = [files EXCEPT ![p] = Production[p]]
          /\ left' = left \ {p} /\ UNCHANGED <<pc, reply>>
     \/ left # {} /\ NeedsAttention /\ UNCHANGED <<files, left>>
  /\ UNCHANGED <<nginxVars, edited, diskVars, stages, mayReload, evidence>>

RestoreDone ==
  /\ pc = "restore" /\ left = {}
  /\ LET done == Reached("rollback_files_restored") IN
     \/ files = Production /\ done /\ Goto("retest") /\ UNCHANGED <<logVars, stages>>
     \/ files = Production /\ ~done /\ Log("rollback_files_restored") /\ Goto("retest")
     \/ files = Production /\ ~done /\ LogError("rollback_files_restored") /\ NeedsAttention
     \/ NeedsAttention /\ UNCHANGED <<logVars, stages>>
  /\ UNCHANGED <<files, nginxVars, edited, dir, backup, applied, left, mayReload, evidence>>

\* The digest of production and "nginx -t" again.
Retest ==
  /\ pc = "retest"
  /\ LET done == Reached("rollback_validated")
         fit  == files = Production /\ files \in Valid IN
     \/ fit /\ done /\ Goto("rollback_reload") /\ UNCHANGED <<logVars, stages>>
     \/ fit /\ ~done /\ Log("rollback_validated") /\ Goto("rollback_reload")
     \/ fit /\ ~done /\ LogError("rollback_validated") /\ NeedsAttention
     \/ NeedsAttention /\ UNCHANGED <<logVars, stages>>
  /\ UNCHANGED <<files, nginxVars, edited, dir, backup, applied, left, mayReload, evidence>>

\* Nginx is told to load the restored files only if it may have loaded others, and
\* only if the evidence does not show that it was told already.
RollbackReload ==
  /\ pc = "rollback_reload"
  /\ IF mayReload /\ ~Reached("rollback_reload_requested")
     THEN SendReload("rollback_reloaded", "rollback_reload_failed")
     ELSE Goto("rollback_confirm") /\ UNCHANGED hup
  /\ UNCHANGED <<files, running, replaced, master, edited, diskVars, callVars>>

LogRollbackReload ==
  /\ pc = "rollback_reloaded"
  /\ \/ Log("rollback_reload_requested") /\ Goto("rollback_confirm")
     \/ LogError("rollback_reload_requested") /\ NeedsAttention
  /\ UNCHANGED <<files, nginxVars, edited, dir, backup, applied, left, mayReload, evidence>>

LogRollbackReloadFailure ==
  /\ pc = "rollback_reload_failed"
  /\ Log("rollback_reload_requested") \/ LogError("rollback_reload_requested")
  /\ NeedsAttention
  /\ UNCHANGED <<files, nginxVars, edited, dir, backup, applied, left, mayReload, evidence>>

RollbackConfirm ==
  /\ pc = "rollback_confirm"
  /\ \/ Confirmed(mayReload) /\ Log("rolled_back") /\ Return("rolled_back", stages', evidence)
     \/ Confirmed(mayReload) /\ LogError("rolled_back") /\ NeedsAttention
     \/ NeedsAttention /\ UNCHANGED <<logVars, stages>>
  /\ UNCHANGED <<files, nginxVars, edited, dir, backup, applied, left, mayReload, evidence>>

\* needsAttention: the verdict stands whether or not it could be logged.
Attend ==
  /\ pc = "attention"
  /\ Log("needs_attention") \/ LogError("needs_attention")
  /\ Return("needs_attention", stages', evidence)
  /\ UNCHANGED <<files, nginxVars, edited, dir, backup, applied, left, mayReload, evidence>>

-------------------------------------------------------------------------------
(* RecoverRelease. *)

\* The call waits for releaseLock, so it starts only when no other call runs.
Recover ==
  /\ pc = "idle"
  /\ left' = {} /\ mayReload' = FALSE /\ evidence' = FALSE
  /\ Goto("read")
  /\ UNCHANGED <<files, nginxVars, edited, diskVars, stages>>

\* uncertainRecoveryResult: one made-up stage and nothing else.
Uncertain == Return("needs_attention", <<"needs_attention">>, FALSE)

\* The evidence is read; a journal ahead of the event log is caught up first.
LogIsCurrent == events # <<>> /\ LastStage(events) = journal.stage

ReadEvidence ==
  /\ pc = "read"
  /\ \/ Uncertain /\ UNCHANGED <<logVars, stages>>
     \/ /\ Readable /\ LogIsCurrent
        /\ stages' = events /\ Goto("dispatch") /\ UNCHANGED logVars
     \/ /\ Readable /\ ~LogIsCurrent
        /\ events' = Append(events, journal.stage) /\ stages' = events'
        /\ Goto("dispatch") /\ UNCHANGED <<journal, torn>>
     \/ /\ Readable /\ ~LogIsCurrent
        /\ \/ torn' \in {torn, TRUE} /\ UNCHANGED events
           \/ events' = Append(events, journal.stage) /\ UNCHANGED torn
        /\ stages' = events /\ Uncertain /\ UNCHANGED journal
  /\ UNCHANGED <<files, nginxVars, edited, dir, backup, applied, left, mayReload, evidence>>

\* (Mutant: every verdict in the journal is returned as it stands.)
DispatchTrustsJournal ==
  /\ pc = "dispatch"
  /\ \/ journal.stage \in TerminalStages /\ Return(journal.stage, stages, FALSE)
     \/ journal.stage \notin TerminalStages /\ Goto("decide")
  /\ UNCHANGED <<files, nginxVars, edited, diskVars, callVars>>

\* A verdict in the journal is checked again, never taken on trust, unless it
\* claims nothing about the present.
Dispatch ==
  /\ pc = "dispatch"
  /\ \/ /\ journal.stage = "committed"
        /\ \/ files = Draft /\ backup /\ Return("succeeded", stages, TRUE)
           \/ NeedsAttention
     \/ /\ journal.stage = "rolled_back"
        /\ \/ /\ backup /\ files = Production /\ files \in Valid
              /\ Confirmed(RecoveryMayNeedReload(stages))
              /\ Return("rolled_back", stages, TRUE)
           \/ NeedsAttention
     \/ journal.stage \in {"failed", "needs_attention"} /\ Return(journal.stage, stages, FALSE)
     \/ journal.stage \notin TerminalStages /\ Goto("decide")
  /\ UNCHANGED <<files, nginxVars, edited, diskVars, callVars>>

\* What to do with an unfinished attempt, by journal and production digest.
Decide ==
  /\ pc = "decide"
  /\ \/ NeedsAttention /\ UNCHANGED <<logVars, stages, mayReload, evidence>>
     \/ /\ ProvenUnwritten
        /\ \/ Log("failed") /\ Return("failed", stages', FALSE)
           \/ LogError("failed") /\ NeedsAttention
        /\ UNCHANGED <<mayReload, evidence>>
     \/ /\ ~ProvenUnwritten /\ files \in {Production, Draft} /\ backup
        /\ evidence' = TRUE
        /\ \/ /\ journal.stage \in RollbackStages
              /\ StartRollback(RecoveryMayNeedReload(stages))
           \/ /\ journal.stage \in {"reload_requested", "runtime_confirmed"} /\ files = Draft
              /\ Goto("resume") /\ UNCHANGED mayReload
           \/ /\ journal.stage \notin RollbackStages
              /\ ~(journal.stage \in {"reload_requested", "runtime_confirmed"} /\ files = Draft)
              /\ StartRollback(StageMayHaveReloaded(journal.stage))
        /\ UNCHANGED <<logVars, stages>>
  /\ UNCHANGED <<files, nginxVars, edited, dir, backup, applied, left>>

\* Everything was in place when the call was interrupted: confirm it now.
Resume ==
  /\ pc = "resume"
  /\ LET logged == journal.stage = "runtime_confirmed" IN
     \/ Confirmed(TRUE) /\ logged /\ Goto("finish") /\ UNCHANGED <<logVars, stages, mayReload>>
     \/ Confirmed(TRUE) /\ ~logged /\ Log("runtime_confirmed") /\ Goto("finish") /\ UNCHANGED mayReload
     \/ Confirmed(TRUE) /\ ~logged /\ LogError("runtime_confirmed") /\ NeedsAttention /\ UNCHANGED mayReload
     \/ StartRollback(StageMayHaveReloaded(journal.stage)) /\ UNCHANGED <<logVars, stages>>
  /\ UNCHANGED <<files, nginxVars, edited, dir, backup, applied, left, evidence>>

Finish ==
  /\ pc = "finish"
  /\ \/ Log("committed") /\ Return("succeeded", stages', evidence)
     \/ LogError("committed") /\ NeedsAttention
  /\ UNCHANGED <<files, nginxVars, edited, dir, backup, applied, left, mayReload, evidence>>

-------------------------------------------------------------------------------
(* What happens around the call. *)

\* The Agent dies: the call is gone, the disk and nginx stay as they are.
Crash ==
  /\ pc # "down"
  /\ pc' = "down"
  /\ left' = {} /\ mayReload' = FALSE /\ evidence' = FALSE
  /\ reply' = NoReply
  /\ UNCHANGED <<files, nginxVars, edited, diskVars, stages>>

Restart ==
  /\ pc = "down"
  /\ Goto("idle")
  /\ UNCHANGED <<files, nginxVars, edited, diskVars, callVars>>

\* The nginx master acts on the signal: it starts workers on the files it finds, or
\* keeps the old ones if it cannot.
NginxReload ==
  /\ hup /\ master # "down"
  /\ hup' = FALSE
  /\ \/ files \in Valid /\ running' = files /\ replaced' = TRUE
     \/ (files \notin Valid \/ NginxRefuses) /\ UNCHANGED <<running, replaced>>
  /\ UNCHANGED <<files, master, edited, diskVars, pc, callVars, reply>>

NginxExit ==
  /\ master # "down"
  /\ master' = "down" /\ hup' = FALSE
  /\ UNCHANGED <<files, running, replaced, edited, diskVars, pc, callVars, reply>>

\* The supervisor starts nginx again, under a new PID.
NginxStart ==
  /\ master = "down" /\ files \in Valid
  /\ master' = "other" /\ running' = files /\ replaced' = TRUE
  /\ UNCHANGED <<files, hup, edited, diskVars, pc, callVars, reply>>

Edit ==
  /\ pc \in EditPoints
  /\ \E p \in Paths, c \in Contents \cup {Absent} :
       files[p] # c /\ files' = [files EXCEPT ![p] = c]
  /\ edited' = TRUE
  /\ UNCHANGED <<nginxVars, diskVars, pc, callVars, reply>>

-------------------------------------------------------------------------------
PublishStep ==
  Recheck \/ Inspect \/ Backup \/ Validate \/ Begin \/ PreCheck \/ ApplyFile \/ ApplyDone
  \/ Test \/ Reload \/ LogReload \/ LogReloadFailure \/ Confirm \/ Commit

RollbackStep ==
  Rollback \/ Verify \/ RestoreFile \/ RestoreDone \/ Retest \/ RollbackReload
  \/ LogRollbackReload \/ LogRollbackReloadFailure \/ RollbackConfirm \/ Attend

RecoverStep == ReadEvidence \/ Dispatch \/ Decide \/ Resume \/ Finish

AgentStep == PublishStep \/ RollbackStep \/ RecoverStep

EnvironmentStep == Crash \/ Restart \/ NginxReload \/ NginxExit \/ NginxStart \/ Edit

Next == Execute \/ Recover \/ AgentStep \/ EnvironmentStep

\* A call in progress keeps running: every step of it is bounded by a timeout.
Spec == Init /\ [][Next]_vars /\ WF_vars(AgentStep)

-------------------------------------------------------------------------------
(* Properties. *)

\* A release that the journal calls committed left the whole draft in production
\* and the workers serve it, whatever crashes and recoveries led there: the commit
\* of ExecuteRelease and the two of RecoverRelease all confirm replaced workers.
CommittedServesDraft ==
  journal.stage = "committed" /\ ~edited =>
    files = Draft /\ (running = Draft \/ master = "down")

\* A release that failed before writing, or that a recovery found unwritten, left
\* production and the running configuration as they were.
FailedLeavesProduction ==
  (journal.stage = "failed" \/ reply.state = "failed") /\ ~edited =>
    files = Production /\ (running = Production \/ master = "down")

\* A release that the journal calls rolled back has every file of the backup in
\* place, also when the rollback was interrupted and resumed.
RolledBackRestoresFiles ==
  journal.stage = "rolled_back" /\ ~edited => files = Production

\* Write-ahead rule: before the first file changes there is a verified backup, and
\* the journal already says that files are being applied.
WriteAheadEvidence ==
  applied # {} =>
    backup /\ StageOrder(journal.stage) >= StageOrder("files_applying")

\* A publication is safe at every crash point: its evidence comes before its first write, and each of
\* its verdicts is true of production (ExecuteRelease, RecoverRelease).
PublishIsSafe ==
  /\ WriteAheadEvidence
  /\ CommittedServesDraft /\ FailedLeavesProduction /\ RolledBackRestoresFiles

\* An answer that asserts something about production is on disk before it is given,
\* so that asking again after a crash can confirm it; a success is also readable.
AnswerIsDurable ==
  pc = "idle" =>
    /\ reply.state = "succeeded" => Readable /\ LastStage(events) = "committed"
    /\ reply.state = "rolled_back" => journal.stage = "rolled_back"

\* The Agent's reader accepts what the Agent's writers left at any crash, unless
\* the event log was torn or the journal records doubt without a runtime identity.
EvidenceStaysReadable ==
  pc \in {"idle", "down"} /\ journal.stage \notin {"none", "needs_attention"} /\ ~torn => Readable

\* What the Agent has answered can be asked for again after any crash, and what it has logged can be
\* read again (ReadRelease, the order of appendStage and the answers).
EvidenceEndures == AnswerIsDurable /\ EvidenceStaysReadable

\* Every call of ExecuteRelease and RecoverRelease returns unless the Agent dies.
CallsReturn == pc \notin {"idle", "down"} ~> pc \in {"idle", "down"}

\* "rolled_back" is documented as: the original state is restored and its health
\* confirmed.  Once nginx has acted on every signal, it serves that state.
RolledBackServesProduction ==
  journal.stage = "rolled_back" /\ reply.state = "rolled_back" /\ ~edited /\ ~hup /\ master = "known"
    => running = Production

\* What an observer of PublishOutcome sees of the release.  A verdict stands once the
\* call that gave it is over, and while a later call does not go beyond reading it.
Content ==
  CASE files = Production -> "production"
    [] files = Draft -> "draft"
    [] OTHER -> "other"

VerdictGiven ==
  journal.stage \in TerminalStages /\ pc \in {"idle", "down", "attention", "read", "dispatch"}

Verdict == IF VerdictGiven THEN journal.stage ELSE "open"

\* The Agent keeps the promise PublishOutcome makes.
Outcome == INSTANCE PublishOutcome WITH content <- Content, verdict <- Verdict

KeepsPromise == Outcome!OutcomeSpec

\* The Agent is the service that the UI process relies on: its event log grows by known
\* steps only, also by those a failing call does not know of, production is written only
\* by a call that knows of a log that says so, and an answer tells what its call logged.
Service == INSTANCE AgentService WITH
  log <- events, known <- stages, spoiled <- torn,
  busy <- pc \notin {"idle", "down"}, reading <- pc = "read",
  answer <- IF pc = "idle" THEN reply ELSE NoReply, content <- Content

ServesUI == Service!ServiceSpec
=============================================================================
