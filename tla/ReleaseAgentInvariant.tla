------------------------ MODULE ReleaseAgentInvariant ------------------------
(***************************************************************************)
(* Why the safety properties of ReleaseAgent hold: the inductive invariant *)
(* they follow from, as named parts.  Production is only ever touched at   *)
(* two control points, and what the journal says there is enough to know   *)
(* which configuration the files and the workers can have afterwards,      *)
(* whatever call, crash or recovery comes next.                            *)
(***************************************************************************)
EXTENDS ReleaseAgent

\* The stages up to the first write; "none" stands for a missing journal.
EarlyStages == BeforeWriteStages \cup {"none", "files_applying"}

\* The journal vouches for the draft from here on, and stops when rollback begins.
DraftStages ==
  {"files_applied", "production_validated", "reload_requested", "runtime_confirmed", "committed"}

UnfinishedRollback == RollbackStages \ {"rolled_back"}

FilesAre(configuration) == edited \/ files = configuration
Serves(configuration) == edited \/ master = "down" \/ running = configuration

\* What the journal can say at each control point that relies on it.
JournalAtPc ==
  /\ journal.stage # "queued"
  /\ pc = "recheck" => journal.stage = "none"
  /\ pc = "inspect" => journal.stage = "rechecking"
  /\ pc = "backup" => journal.stage = "backup_creating"
  /\ pc = "validate" => journal.stage = "backup_verified"
  /\ pc = "begin" => journal.stage = "candidate_validated"
  /\ pc \in {"precheck", "apply"} => journal.stage = "files_applying"
  /\ pc = "test" => journal.stage = "files_applied"
  /\ pc \in {"reload", "reloaded", "reload_failed"} => journal.stage = "production_validated"
  /\ pc = "confirm" => journal.stage = "reload_requested"
  /\ pc \in {"commit", "finish"} => journal.stage = "runtime_confirmed"
  /\ pc = "rollback" =>
       /\ journal.stage \in (ForwardStages \ {"queued"}) \cup UnfinishedRollback
       /\ journal.stage \in BeforeWriteStages => edited
  /\ pc \in {"verify", "restore", "retest", "rollback_reload", "rollback_reloaded",
             "rollback_reload_failed", "rollback_confirm"} => journal.stage \in UnfinishedRollback
  /\ pc = "decide" => journal.stage \in Stages \ (TerminalStages \cup {"queued"})
  /\ pc = "dispatch" => journal.stage \in Stages
  /\ pc = "resume" => journal.stage \in {"reload_requested", "runtime_confirmed"}

\* A call that believes a rollback has begun reads it off the journal.
ExecutePoints ==
  {"recheck", "inspect", "backup", "validate", "begin", "precheck", "apply", "test",
   "reload", "reloaded", "reload_failed", "confirm", "commit"}

StagesInMemory ==
  /\ pc \in ExecutePoints => stages = <<>> \/ LastStage(stages) \in ForwardStages
  /\ pc \in {"dispatch", "decide", "resume"} => stages # <<>> /\ LastStage(stages) = journal.stage
  /\ pc = "rollback" =>
       stages = <<>> \/ LastStage(stages) \in ForwardStages \/ LastStage(stages) = journal.stage

\* Before the first call there is nothing, and before the first write nothing changed.
Untouched ==
  /\ ~dir => /\ journal.stage = "none" /\ applied = {} /\ reply.state # "failed"
             /\ pc \in {"idle", "down", "read"}
  /\ applied = {} => FilesAre(Production)
  /\ pc \in {"recheck", "inspect", "backup", "validate", "begin"} => reply.state # "failed"
  /\ pc \in {"recheck", "inspect", "backup", "validate", "begin", "precheck"} => applied = {}
  /\ journal.durable => applied # {}
  /\ pc \in {"validate", "begin", "precheck", "apply"} => backup
  /\ applied # {} => backup /\ journal.stage \notin BeforeWriteStages \cup {"none"}

\* While files are applied, production is the draft on the applied paths.
PartlyApplied ==
  pc = "apply" =>
    edited \/ \A p \in Paths : files[p] = IF p \in applied THEN Draft[p] ELSE Production[p]

\* What the journal's stage says about the files.
StageAndFiles ==
  /\ journal.stage \in DraftStages => FilesAre(Draft)
  /\ journal.stage \in {"rolled_back", "failed"} => FilesAre(Production)
  /\ pc \in {"retest", "rollback_reload", "rollback_reloaded", "rollback_reload_failed",
             "rollback_confirm"} => FilesAre(Production)

\* What the journal's stage says about the workers: a signal is only on its way once
\* production was validated, so workers that replace the recorded ones under the
\* recorded master serve the draft until a rollback begins.
StageAndWorkers ==
  /\ hup => journal.stage \notin EarlyStages \cup {"files_applied"}
  /\ journal.stage \in {"none", "rechecking"} => ~journal.pids
  /\ journal.stage \in ForwardStages /\ journal.pids /\ replaced /\ master = "known" =>
       edited \/ running = Draft
  /\ journal.stage \in {"runtime_confirmed", "committed"} => Serves(Draft)
  /\ journal.stage = "failed" => Serves(Production)
  /\ journal.stage \in EarlyStages /\ files = Production => Serves(Production)

\* An answer "failed" rests on a failed journal or on one that never got to a write.
FailedAnswer ==
  reply.state = "failed" =>
    \/ edited
    \/ journal.stage = "failed"
    \/ applied = {} /\ journal.stage \in BeforeWriteStages \cup {"none"}

\* The inductive invariant.
IInv ==
  /\ TypeOK /\ JournalAtPc /\ StagesInMemory /\ Untouched /\ PartlyApplied
  /\ StageAndFiles /\ StageAndWorkers /\ FailedAnswer

-------------------------------------------------------------------------------
(* Why what was answered can be asked for again: what the event log says, and  *)
(* how far the journal may be ahead of it.                                     *)

\* The control points of a recovery that go by the log, and those of a rollback.
ResumePoints == {"dispatch", "decide", "resume", "finish"}
RestorePoints ==
  {"verify", "restore", "retest", "rollback_reload", "rollback_reloaded", "rollback_reload_failed",
   "rollback_confirm"}

\* A call that goes forward knows the stage of the journal as its last; a rollback may have lost an
\* entry, but knows the stage it logged last.
LogAtPc ==
  /\ ~dir => events = <<>> /\ stages = <<>> /\ ~torn
  /\ pc = "recheck" => stages = <<>>
  /\ pc \in (ExecutePoints \ {"recheck"}) \cup ResumePoints =>
       stages # <<>> /\ LastStage(stages) = journal.stage
  /\ pc \in {"rollback", "attention"} \cup RestorePoints =>
       stages # <<>> /\ LastStage(stages) \notin {"failed", "needs_attention"}
  /\ pc = "rollback" =>
       /\ LastStage(stages) \in (ForwardStages \ {"queued", "committed"}) \cup UnfinishedRollback
       /\ LastStage(stages) \in BeforeWriteStages => edited
  /\ pc \in {"verify", "restore"} => LastStage(stages) \in UnfinishedRollback
  /\ pc = "retest" => LastStage(stages) \in UnfinishedRollback \ {"rollback_applying"}
  /\ pc \in {"rollback_reload", "rollback_confirm"} =>
       LastStage(stages) \in {"rollback_validated", "rollback_reload_requested"}
  /\ pc \in {"rollback_reloaded", "rollback_reload_failed"} =>
       LastStage(stages) = "rollback_validated"

\* The log has a stage that the call was told it has not.
OneUnseen == \E s \in Service!Successors(stages, edited) : events = Append(stages, s)

\* A log that can be read never steps backwards, the journal is ahead of it by one known step at
\* most, and so is the log of what the call knows.
EvidenceAgrees ==
  ~torn =>
    /\ InOrder(events)
    /\ events = <<>> => journal.stage \in {"none", "rechecking"}
    /\ events # <<>> => journal.stage \in {LastStage(events)} \cup Service!Successors(events, edited)
    /\ stages = events \/ OneUnseen

\* A call that goes forward has lost nothing.  Once it has failed to log a stage, it restores no
\* file before the log says so, or can no longer be read.
MemoryIsLog ==
  /\ pc \in ExecutePoints \cup ResumePoints => ~torn /\ stages = events
  /\ pc \in RestorePoints => torn \/ stages = events
  /\ pc = "rollback" /\ ~torn =>
       \/ stages = events
       \/ LastStage(stages) \in ForwardStages /\ events # <<>>
          /\ LastStage(events) \in Service!WriteStages \cup {"committed"}
  /\ pc = "attention" /\ ~torn => events # <<>> /\ LastStage(events) # "needs_attention"

\* A journal that has come further than the first check knows the master and the workers.
IdentityRecorded ==
  /\ journal.stage \notin {"none", "rechecking", "failed", "needs_attention"} => journal.pids
  /\ backup \/ pc = "rollback" => journal.pids

\* An answer is durable, and a crash forgets it.
AnswerStands == (pc = "down" => reply = NoReply) /\ AnswerIsDurable

\* From the backup on, answers mention it.
BackupInAnswer ==
  pc \in (ExecutePoints \ {"recheck", "inspect", "backup"}) \cup {"rollback", "resume", "finish"}
         \cup RestorePoints => evidence

\* The evidence, as every step leaves it.
EvidenceInv ==
  /\ LogAtPc /\ EvidenceAgrees /\ MemoryIsLog /\ IdentityRecorded /\ AnswerStands
  /\ BackupInAnswer
=============================================================================
