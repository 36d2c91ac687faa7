------------------------- MODULE ReleaseAgentProofs -------------------------
(***************************************************************************)
(* The safety properties of ReleaseAgent hold for every set of paths,      *)
(* every pair of configurations, every notion of validity and every moment *)
(* at which others edit production; ReleaseAgent implements                *)
(* PublishOutcome and AgentService.                                        *)
(***************************************************************************)
EXTENDS ReleaseAgentInvariant, TLAPS

USE ConfigurationAssumption, EnvironmentAssumption DEF ConfigurationAssumption, EnvironmentAssumption

JournalRecord == [stage : Stages \cup {"none"}, durable : BOOLEAN, pids : BOOLEAN]
Answer == [state : ReleaseStates \cup {"none"}, stages : Seq(Stages), backup : BOOLEAN]

\* The type of what a logging step changes.
LogTypeOK ==
  journal \in JournalRecord /\ events \in Seq(Stages) /\ torn \in BOOLEAN /\ stages \in Seq(Stages)

\* An event that is appended keeps the log well typed.
LEMMA EventTyped ==
  ASSUME LogTypeOK, NEW stage \in Stages, AppendEvent(stage)
  PROVE  events' \in Seq(Stages) /\ torn' \in BOOLEAN
<1>1. CASE torn \/ events # stages
  BY <1>1 DEF LogTypeOK, AppendEvent
<1>2. CASE ~(torn \/ events # stages)
  BY <1>2 DEF LogTypeOK, AppendEvent
<1>3. QED
  BY <1>1, <1>2

\* appendStage, when both writes succeed, keeps the evidence well typed.
LEMMA LogTyped ==
  ASSUME LogTypeOK, NEW record \in JournalRecord, NEW stage \in Stages, LogWith(record, stage)
  PROVE  LogTypeOK'
BY EventTyped DEF LogTypeOK, LogWith

\* appendStage, when it returns an error, keeps the evidence well typed.
LEMMA LogErrorTyped ==
  ASSUME LogTypeOK, NEW record \in JournalRecord, NEW stage \in Stages, LogErrorWith(record, stage)
  PROVE  LogTypeOK'
BY EventTyped DEF LogTypeOK, LogErrorWith, logVars

\* Every stage name the actions write is a stage.
LEMMA StageNames ==
  {"rechecking", "backup_creating", "backup_verified", "candidate_validated", "files_applying",
   "files_applied", "production_validated", "reload_requested", "runtime_confirmed", "committed",
   "rollback_applying", "rollback_files_restored", "rollback_validated",
   "rollback_reload_requested", "rolled_back", "failed", "needs_attention"} \subseteq Stages
BY DEF Stages, ForwardStages, BeforeWriteStages, RollbackStages

\* appendStage, with or without an error, keeps the type of the evidence.
LEMMA StageLogged ==
  ASSUME LogTypeOK, NEW stage \in Stages, Log(stage) \/ LogError(stage)
  PROVE  LogTypeOK'
<1>1. [journal EXCEPT !.stage = stage] \in JournalRecord
  BY DEF LogTypeOK, JournalRecord
<1>2. QED
  BY <1>1, LogTyped, LogErrorTyped DEF Log, LogError

\* A step that logs nothing keeps the type of the evidence.
LEMMA LogKept ==
  ASSUME LogTypeOK, UNCHANGED <<logVars, stages>>
  PROVE  LogTypeOK'
BY DEF LogTypeOK, logVars

\* What the actions read from the evidence has the type they need.
LEMMA StagesTyped ==
  /\ LogTypeOK => journal \in JournalRecord /\ stages \in Seq(Stages)
  /\ LogTypeOK' => stages' \in Seq(Stages)
BY DEF LogTypeOK

\* Every release state a call returns is a release state.
LEMMA StateNames ==
  {"running", "succeeded", "failed", "rolled_back", "needs_attention"} \subseteq ReleaseStates
BY DEF ReleaseStates

\* Every answer is typed if the stages it carries are.
LEMMA ReturnTyped ==
  ASSUME NEW state \in ReleaseStates, NEW log \in Seq(Stages), NEW withBackup \in BOOLEAN,
         Return(state, log, withBackup)
  PROVE  pc' = "idle" /\ pc' \in ControlPoints /\ reply' \in Answer
BY DEF Return, Answer, ControlPoints

\* The records the steps before the first write put into the journal.
LEMMA RecordsTyped ==
  ASSUME LogTypeOK
  PROVE  /\ FailedRecord \in JournalRecord /\ FailedRecord.stage = "failed"
         /\ FailedRecord.durable = journal.durable
         /\ \A stage \in Stages :
              /\ WithBaseline(stage) \in JournalRecord
              /\ WithBaseline(stage).stage = stage /\ WithBaseline(stage).pids
              /\ WithBaseline(stage).durable = journal.durable
BY StageNames DEF LogTypeOK, JournalRecord, FailedRecord, WithBaseline

\* failBeforeWrite answers with a well-typed result, logged or not.
LEMMA FailBeforeWriteTyped ==
  ASSUME LogTypeOK, evidence \in BOOLEAN, NEW record \in JournalRecord, FailBeforeWrite(record)
  PROVE  LogTypeOK' /\ pc' \in ControlPoints /\ reply' \in Answer
<1>1. LogTypeOK'
  BY LogTyped, LogErrorTyped, StageNames DEF FailBeforeWrite
<1>2. Return("failed", stages', evidence)
  BY DEF FailBeforeWrite
<1>3. stages' \in Seq(Stages) /\ "failed" \in ReleaseStates
  BY <1>1 DEF LogTypeOK, ReleaseStates
<1>4. QED
  BY <1>1, <1>2, <1>3, ReturnTyped

\* An Agent that has not seen the release is well typed.
LEMMA InitTyped == Init => TypeOK
<1> SUFFICES ASSUME Init PROVE TypeOK
    OBVIOUS
<1>1. journal \in JournalRecord
  BY DEF Init, JournalRecord
<1>2. reply \in Answer
  BY DEF Init, NoReply, Answer
<1>3. files \in Configurations /\ running \in Configurations
  BY DEF Init
<1>4. pc \in ControlPoints
  BY DEF Init, ControlPoints
<1>5. events \in Seq(Stages) /\ stages \in Seq(Stages)
  BY DEF Init
<1>6. applied \subseteq Paths /\ left \subseteq Paths
  BY DEF Init
<1>7. QED
  BY <1>1, <1>2, <1>3, <1>4, <1>5, <1>6 DEF Init, TypeOK, JournalRecord, Answer

\* TypeOK in the parts the steps change.
EnvironmentTypeOK ==
  /\ files \in Configurations /\ running \in Configurations
  /\ replaced \in BOOLEAN /\ hup \in BOOLEAN /\ edited \in BOOLEAN
  /\ master \in {"known", "other", "down"}

CallTypeOK ==
  /\ dir \in BOOLEAN /\ backup \in BOOLEAN /\ applied \subseteq Paths /\ left \subseteq Paths
  /\ mayReload \in BOOLEAN /\ evidence \in BOOLEAN

ControlTypeOK == pc \in ControlPoints /\ reply \in Answer

\* TypeOK falls into the parts that the actions disturb one at a time.
LEMMA TypeParts ==
  /\ TypeOK <=> EnvironmentTypeOK /\ CallTypeOK /\ ControlTypeOK /\ LogTypeOK
  /\ TypeOK' <=> EnvironmentTypeOK' /\ CallTypeOK' /\ ControlTypeOK' /\ LogTypeOK'
BY DEF TypeOK, EnvironmentTypeOK, CallTypeOK, ControlTypeOK, LogTypeOK, JournalRecord, Answer

\* Configurations stay configurations when one path is rewritten.
LEMMA ConfigurationUpdate ==
  ASSUME NEW c \in Configurations, NEW d \in Configurations, NEW p \in Paths
  PROVE  [c EXCEPT ![p] = d[p]] \in Configurations
BY DEF Configurations

\* Both guesses about an earlier reload, from the event log and from the stage in the
\* journal, are yes or no.
LEMMA ReloadFlags ==
  /\ \A log : RecoveryMayNeedReload(log) \in BOOLEAN
  /\ \A stage : StageMayHaveReloaded(stage) \in BOOLEAN
BY DEF RecoveryMayNeedReload, StageMayHaveReloaded

\* Every step of a publication, a rollback, a recovery or their environment keeps TypeOK.
LEMMA TypeStep == TypeOK /\ [Next]_vars => TypeOK'
<1> SUFFICES ASSUME EnvironmentTypeOK, CallTypeOK, ControlTypeOK, LogTypeOK, [Next]_vars
             PROVE  EnvironmentTypeOK' /\ CallTypeOK' /\ ControlTypeOK' /\ LogTypeOK'
  BY TypeParts
<1> USE DEF EnvironmentTypeOK, CallTypeOK, ControlTypeOK, nginxVars, diskVars, callVars
<1>1. CASE Execute
  <2>1. LogTypeOK'
    BY <1>1 DEF Execute, LogTypeOK, logVars
  <2>2. pc' \in ControlPoints /\ reply' \in Answer
    BY <1>1, <2>1
    DEF Execute, Goto, ControlPoints
  <2>3. QED
    BY <1>1, <2>1, <2>2 DEF Execute
<1>2. CASE Recover
  <2>1. LogTypeOK'
    BY <1>2 DEF Recover, LogTypeOK, logVars
  <2>2. pc' \in ControlPoints /\ reply' \in Answer
    BY <1>2, <2>1
    DEF Recover, Goto, ControlPoints
  <2>3. QED
    BY <1>2, <2>1, <2>2 DEF Recover
<1>3. CASE Recheck
  <2>1. LogTypeOK'
    BY <1>3, StageLogged, LogKept, StageNames DEF Recheck, logVars
  <2>2. pc' \in ControlPoints /\ reply' \in Answer
    BY <1>3, <2>1, ReturnTyped, StagesTyped, StateNames
    DEF Recheck, Goto, Abandon, ControlPoints
  <2>3. QED
    BY <1>3, <2>1, <2>2 DEF Recheck
<1>4. CASE Inspect
  <2>1. LogTypeOK'
    BY <1>4, LogTyped, LogErrorTyped, FailBeforeWriteTyped, RecordsTyped, StageNames DEF Inspect
  <2>2. pc' \in ControlPoints /\ reply' \in Answer
    BY <1>4, <2>1, ReturnTyped, FailBeforeWriteTyped, RecordsTyped, StagesTyped, StateNames, StageNames
    DEF Inspect, Goto, Abandon, ControlPoints
  <2>3. QED
    BY <1>4, <2>1, <2>2 DEF Inspect
<1>5. CASE Backup
  <2>1. LogTypeOK'
    BY <1>5, StageLogged, LogKept, StageNames, StagesTyped, FailBeforeWriteTyped, RecordsTyped DEF Backup, logVars
  <2>2. pc' \in ControlPoints /\ reply' \in Answer
    BY <1>5, <2>1, ReturnTyped, StagesTyped, StateNames, FailBeforeWriteTyped, RecordsTyped
    DEF Backup, Goto, ControlPoints
  <2>3. QED
    BY <1>5, <2>1, <2>2 DEF Backup
<1>6. CASE Validate
  <2>1. LogTypeOK'
    BY <1>6, StageLogged, LogKept, StageNames, StagesTyped, FailBeforeWriteTyped, RecordsTyped DEF Validate, logVars
  <2>2. pc' \in ControlPoints /\ reply' \in Answer
    BY <1>6, <2>1, ReturnTyped, StagesTyped, StateNames, FailBeforeWriteTyped, RecordsTyped
    DEF Validate, Goto, Abandon, ControlPoints
  <2>3. QED
    BY <1>6, <2>1, <2>2 DEF Validate
<1>7. CASE Begin
  <2>1. LogTypeOK'
    BY <1>7, StageLogged, LogKept, StageNames DEF Begin, logVars
  <2>2. pc' \in ControlPoints /\ reply' \in Answer
    BY <1>7, <2>1, ReturnTyped, StagesTyped, StateNames
    DEF Begin, Goto, Abandon, ControlPoints
  <2>3. QED
    BY <1>7, <2>1, <2>2 DEF Begin
<1>8. CASE PreCheck
  <2>1. LogTypeOK'
    BY <1>8, LogKept DEF PreCheck, logVars
  <2>2. pc' \in ControlPoints /\ reply' \in Answer
    BY <1>8, <2>1
    DEF PreCheck, Goto, StartRollback, ControlPoints
  <2>3. QED
    BY <1>8, <2>1, <2>2 DEF PreCheck, StartRollback, ManagedPaths
<1>9. CASE ApplyFile
  <2>1. LogTypeOK'
    BY <1>9 DEF ApplyFile, LogTypeOK, JournalRecord
  <2>2. pc' \in ControlPoints /\ reply' \in Answer
    BY <1>9, <2>1
    DEF ApplyFile, StartRollback, Goto, ControlPoints
  <2>3. QED
    BY <1>9, <2>1, <2>2, ConfigurationUpdate, ZenonT(60) DEF ApplyFile, StartRollback
<1>10. CASE ApplyDone
  <2>1. LogTypeOK'
    BY <1>10, StageLogged, LogKept, StageNames DEF ApplyDone, logVars
  <2>2. pc' \in ControlPoints /\ reply' \in Answer
    BY <1>10, <2>1
    DEF ApplyDone, Goto, StartRollback, ControlPoints
  <2>3. QED
    BY <1>10, <2>1, <2>2 DEF ApplyDone, StartRollback
<1>11. CASE Test
  <2>1. LogTypeOK'
    BY <1>11, StageLogged, LogKept, StageNames DEF Test, logVars
  <2>2. pc' \in ControlPoints /\ reply' \in Answer
    BY <1>11, <2>1
    DEF Test, Goto, StartRollback, ControlPoints
  <2>3. QED
    BY <1>11, <2>1, <2>2 DEF Test, StartRollback
<1>12. CASE Reload
  <2>1. LogTypeOK'
    BY <1>12, LogKept DEF Reload, logVars
  <2>2. pc' \in ControlPoints /\ reply' \in Answer
    BY <1>12 DEF Reload, SendReload, Goto, ControlPoints
  <2>3. QED
    BY <1>12, <2>1, <2>2 DEF Reload, SendReload
<1>13. CASE LogReload
  <2>1. LogTypeOK'
    BY <1>13, StageLogged, LogKept, StageNames DEF LogReload, logVars
  <2>2. pc' \in ControlPoints /\ reply' \in Answer
    BY <1>13, <2>1
    DEF LogReload, Goto, StartRollback, ControlPoints
  <2>3. QED
    BY <1>13, <2>1, <2>2 DEF LogReload, StartRollback
<1>14. CASE LogReloadFailure
  <2>1. LogTypeOK'
    BY <1>14, StageLogged, LogKept, StageNames DEF LogReloadFailure, logVars
  <2>2. pc' \in ControlPoints /\ reply' \in Answer
    BY <1>14, <2>1
    DEF LogReloadFailure, StartRollback, Goto, ControlPoints
  <2>3. QED
    BY <1>14, <2>1, <2>2 DEF LogReloadFailure, StartRollback
<1>15. CASE Confirm
  <2>1. LogTypeOK'
    BY <1>15, StageLogged, LogKept, StageNames DEF Confirm, logVars
  <2>2. pc' \in ControlPoints /\ reply' \in Answer
    BY <1>15, <2>1
    DEF Confirm, Goto, StartRollback, ControlPoints
  <2>3. QED
    BY <1>15, <2>1, <2>2 DEF Confirm, StartRollback
<1>16. CASE Commit
  <2>1. LogTypeOK'
    BY <1>16, StageLogged, LogKept, StageNames DEF Commit, logVars
  <2>2. pc' \in ControlPoints /\ reply' \in Answer
    BY <1>16, <2>1, ReturnTyped, StagesTyped, StateNames
    DEF Commit, StartRollback, Goto, ControlPoints
  <2>3. QED
    BY <1>16, <2>1, <2>2 DEF Commit, StartRollback
<1>17. CASE Rollback
  <2>1. LogTypeOK'
    BY <1>17, StageLogged, LogKept, StageNames DEF Rollback, logVars
  <2>2. pc' \in ControlPoints /\ reply' \in Answer
    BY <1>17, <2>1
    DEF Rollback, Goto, NeedsAttention, ControlPoints
  <2>3. QED
    BY <1>17, <2>1, <2>2 DEF Rollback
<1>18. CASE Verify
  <2>1. LogTypeOK'
    BY <1>18, LogKept DEF Verify, logVars
  <2>2. pc' \in ControlPoints /\ reply' \in Answer
    BY <1>18, <2>1
    DEF Verify, Goto, NeedsAttention, ControlPoints
  <2>3. QED
    BY <1>18, <2>1, <2>2 DEF Verify
<1>19. CASE RestoreFile
  <2>1. LogTypeOK'
    BY <1>19, LogKept DEF RestoreFile, logVars
  <2>2. pc' \in ControlPoints /\ reply' \in Answer
    BY <1>19, <2>1
    DEF RestoreFile, NeedsAttention, Goto, ControlPoints
  <2>3. QED
    BY <1>19, <2>1, <2>2, ConfigurationUpdate DEF RestoreFile
<1>20. CASE RestoreDone
  <2>1. LogTypeOK'
    BY <1>20, StageLogged, LogKept, StageNames DEF RestoreDone, logVars
  <2>2. pc' \in ControlPoints /\ reply' \in Answer
    BY <1>20, <2>1
    DEF RestoreDone, Goto, NeedsAttention, ControlPoints
  <2>3. QED
    BY <1>20, <2>1, <2>2 DEF RestoreDone
<1>21. CASE Retest
  <2>1. LogTypeOK'
    BY <1>21, StageLogged, LogKept, StageNames DEF Retest, logVars
  <2>2. pc' \in ControlPoints /\ reply' \in Answer
    BY <1>21, <2>1
    DEF Retest, Goto, NeedsAttention, ControlPoints
  <2>3. QED
    BY <1>21, <2>1, <2>2 DEF Retest
<1>22. CASE RollbackReload
  <2>1. LogTypeOK'
    BY <1>22, LogKept DEF RollbackReload, logVars
  <2>2. pc' \in ControlPoints /\ reply' \in Answer
    BY <1>22 DEF RollbackReload, SendReload, Goto, ControlPoints
  <2>3. QED
    BY <1>22, <2>1, <2>2 DEF RollbackReload, SendReload
<1>23. CASE LogRollbackReload
  <2>1. LogTypeOK'
    BY <1>23, StageLogged, LogKept, StageNames DEF LogRollbackReload, logVars
  <2>2. pc' \in ControlPoints /\ reply' \in Answer
    BY <1>23, <2>1
    DEF LogRollbackReload, Goto, NeedsAttention, ControlPoints
  <2>3. QED
    BY <1>23, <2>1, <2>2 DEF LogRollbackReload
<1>24. CASE LogRollbackReloadFailure
  <2>1. LogTypeOK'
    BY <1>24, StageLogged, LogKept, StageNames DEF LogRollbackReloadFailure, logVars
  <2>2. pc' \in ControlPoints /\ reply' \in Answer
    BY <1>24, <2>1
    DEF LogRollbackReloadFailure, NeedsAttention, Goto, ControlPoints
  <2>3. QED
    BY <1>24, <2>1, <2>2 DEF LogRollbackReloadFailure
<1>25. CASE RollbackConfirm
  <2>1. LogTypeOK'
    BY <1>25, StageLogged, LogKept, StageNames DEF RollbackConfirm, logVars
  <2>2. pc' \in ControlPoints /\ reply' \in Answer
    BY <1>25, <2>1, ReturnTyped, StagesTyped, StateNames
    DEF RollbackConfirm, NeedsAttention, Goto, ControlPoints
  <2>3. QED
    BY <1>25, <2>1, <2>2 DEF RollbackConfirm
<1>26. CASE Attend
  <2>1. LogTypeOK'
    BY <1>26, StageLogged, LogKept, StageNames DEF Attend, logVars
  <2>2. pc' \in ControlPoints /\ reply' \in Answer
    BY <1>26, <2>1, ReturnTyped, StagesTyped, StateNames
    DEF Attend, ControlPoints
  <2>3. QED
    BY <1>26, <2>1, <2>2 DEF Attend
<1>27. CASE ReadEvidence
  <2>1. LogTypeOK'
    <3>1. CASE UNCHANGED <<logVars, stages>>
      BY <3>1, LogKept
    <3>2. CASE Readable /\ stages' = events /\ UNCHANGED <<journal, events>> /\ torn' \in BOOLEAN
      BY <3>2 DEF LogTypeOK
    <3>3. CASE /\ Readable /\ UNCHANGED <<journal, torn>>
               /\ events' = Append(events, journal.stage) /\ stages' = events'
      <4>1. journal.stage \in Stages
        BY <3>3 DEF Readable, LogTypeOK, JournalRecord
      <4>2. QED
        BY <3>3, <4>1 DEF LogTypeOK
    <3>4. CASE /\ Readable /\ UNCHANGED <<journal, torn>>
               /\ events' = Append(events, journal.stage) /\ stages' = events
      <4>1. journal.stage \in Stages
        BY <3>4 DEF Readable, LogTypeOK, JournalRecord
      <4>2. QED
        BY <3>4, <4>1 DEF LogTypeOK
    <3>5. QED
      BY <1>27, <3>1, <3>2, <3>3, <3>4 DEF ReadEvidence, LogTypeOK, logVars
  <2>2. pc' \in ControlPoints /\ reply' \in Answer
    <3>1. <<"needs_attention">> \in Seq(Stages)
      BY StageNames
    <3>2. CASE Uncertain
      BY <3>1, <3>2, ReturnTyped, StateNames DEF Uncertain
    <3>3. CASE Goto("dispatch")
      BY <3>3 DEF Goto, ControlPoints
    <3>4. QED
      BY <1>27, <3>2, <3>3 DEF ReadEvidence
  <2>3. QED
    BY <1>27, <2>1, <2>2 DEF ReadEvidence
<1>28. CASE Dispatch
  <2>1. LogTypeOK'
    BY <1>28, LogKept DEF Dispatch, logVars
  <2>2. pc' \in ControlPoints /\ reply' \in Answer
    BY <1>28, <2>1, ReturnTyped, StagesTyped, StateNames
    DEF Dispatch, Goto, NeedsAttention, ControlPoints
  <2>3. QED
    BY <1>28, <2>1, <2>2 DEF Dispatch
<1>29. CASE Decide
  <2>1. LogTypeOK'
    BY <1>29, StageLogged, LogKept, StageNames DEF Decide, logVars
  <2>2. pc' \in ControlPoints /\ reply' \in Answer
    BY <1>29, <2>1, ReturnTyped, StagesTyped, StateNames
    DEF Decide, Goto, StartRollback, NeedsAttention, ControlPoints
  <2>3. QED
    BY <1>29, <2>1, <2>2, ReloadFlags DEF Decide, StartRollback
<1>30. CASE Resume
  <2>1. LogTypeOK'
    BY <1>30, StageLogged, LogKept, StageNames DEF Resume, logVars
  <2>2. pc' \in ControlPoints /\ reply' \in Answer
    BY <1>30, <2>1
    DEF Resume, Goto, StartRollback, NeedsAttention, ControlPoints
  <2>3. QED
    BY <1>30, <2>1, <2>2, ReloadFlags DEF Resume, StartRollback
<1>31. CASE Finish
  <2>1. LogTypeOK'
    BY <1>31, StageLogged, LogKept, StageNames DEF Finish, logVars
  <2>2. pc' \in ControlPoints /\ reply' \in Answer
    BY <1>31, <2>1, ReturnTyped, StagesTyped, StateNames
    DEF Finish, NeedsAttention, Goto, ControlPoints
  <2>3. QED
    BY <1>31, <2>1, <2>2 DEF Finish
<1>32. CASE Crash
  <2>1. LogTypeOK'
    BY <1>32 DEF Crash, LogTypeOK, logVars
  <2>2. pc' \in ControlPoints /\ reply' \in Answer
    BY <1>32 DEF Crash, NoReply, Answer, ControlPoints
  <2>3. QED
    BY <1>32, <2>1, <2>2 DEF Crash
<1>33. CASE Restart
  <2>1. LogTypeOK'
    BY <1>33, LogKept DEF Restart, logVars
  <2>2. pc' \in ControlPoints /\ reply' \in Answer
    BY <1>33, <2>1
    DEF Restart, Goto, ControlPoints
  <2>3. QED
    BY <1>33, <2>1, <2>2 DEF Restart
<1>34. CASE NginxReload
  <2>1. LogTypeOK'
    BY <1>34, LogKept DEF NginxReload, logVars
  <2>2. pc' \in ControlPoints /\ reply' \in Answer
    BY <1>34, <2>1
    DEF NginxReload, ControlPoints
  <2>3. QED
    BY <1>34, <2>1, <2>2 DEF NginxReload
<1>35. CASE NginxExit
  <2>1. LogTypeOK'
    BY <1>35, LogKept DEF NginxExit, logVars
  <2>2. pc' \in ControlPoints /\ reply' \in Answer
    BY <1>35, <2>1
    DEF NginxExit, ControlPoints
  <2>3. QED
    BY <1>35, <2>1, <2>2 DEF NginxExit
<1>36. CASE NginxStart
  <2>1. LogTypeOK'
    BY <1>36, LogKept DEF NginxStart, logVars
  <2>2. pc' \in ControlPoints /\ reply' \in Answer
    BY <1>36, <2>1
    DEF NginxStart, ControlPoints
  <2>3. QED
    BY <1>36, <2>1, <2>2 DEF NginxStart
<1>37. CASE Edit
  <2>1. LogTypeOK'
    BY <1>37, LogKept DEF Edit, logVars
  <2>2. pc' \in ControlPoints /\ reply' \in Answer
    BY <1>37, <2>1
    DEF Edit, ControlPoints
  <2>3. QED
    <3>1. files' \in Configurations
      BY <1>37 DEF Edit, Configurations
    <3>2. QED
      BY <1>37, <2>1, <2>2, <3>1 DEF Edit
<1>38. CASE UNCHANGED vars
  BY <1>38 DEF vars, LogTypeOK
<1>39. QED
  BY <1>1, <1>2, <1>3, <1>4, <1>5, <1>6, <1>7, <1>8, <1>9, <1>10, <1>11, <1>12, <1>13, <1>14, <1>15, <1>16, <1>17, <1>18, <1>19, <1>20, <1>21, <1>22, <1>23, <1>24, <1>25, <1>26, <1>27, <1>28, <1>29, <1>30, <1>31, <1>32, <1>33, <1>34, <1>35, <1>36, <1>37, <1>38
  DEF Next, AgentStep, PublishStep, RollbackStep, RecoverStep, EnvironmentStep

\* The journal, the event log, the call in progress and the answer stay within their
\* types through every publication, rollback, recovery and crash.
THEOREM TypeCorrect == Spec => []TypeOK
BY InitTyped, TypeStep, PTL DEF Spec

-------------------------------------------------------------------------------
(* What a logging step does to the stage, the only part of the evidence the       *)
(* invariant looks at besides the two flags of the journal.                       *)

\* The stage logged last is the last stage of the log.
LEMMA LastOfAppend ==
  ASSUME NEW log \in Seq(Stages), NEW stage \in Stages
  PROVE  Append(log, stage) # <<>> /\ LastStage(Append(log, stage)) = stage
BY DEF LastStage

\* After appendStage the journal and the copy in memory both end in the stage, and the
\* journal keeps its counter and its runtime identity.
LEMMA LogEffect ==
  ASSUME TypeOK, NEW stage \in Stages, Log(stage)
  PROVE  /\ journal'.stage = stage
         /\ journal'.durable = journal.durable /\ journal'.pids = journal.pids
         /\ stages' # <<>> /\ LastStage(stages') = stage
BY LastOfAppend DEF TypeOK, Log, LogWith

\* A failed appendStage may have moved the journal, never the copy in memory.
LEMMA LogErrorEffect ==
  ASSUME TypeOK, NEW stage \in Stages, LogError(stage)
  PROVE  /\ journal'.stage \in {journal.stage, stage}
         /\ journal'.durable = journal.durable /\ journal'.pids = journal.pids
         /\ stages' = stages
BY DEF TypeOK, LogError, LogErrorWith, logVars

\* failBeforeWrite answers "failed" and leaves the durable counter alone.
LEMMA FailBeforeWriteEffect ==
  ASSUME NEW record \in JournalRecord, record.stage = "failed", record.durable = journal.durable,
         FailBeforeWrite(record)
  PROVE  /\ journal' = journal \/ journal'.stage = "failed"
         /\ journal'.durable = journal.durable
         /\ pc' = "idle" /\ reply'.state = "failed"
BY DEF JournalRecord, FailBeforeWrite, LogWith, LogErrorWith, logVars, Return

\* The step that records the PIDs may move the journal to "backup_creating" at most.
LEMMA BaselineEffect ==
  ASSUME TypeOK
  PROVE  /\ LogWith(WithBaseline("backup_creating"), "backup_creating") =>
              /\ journal'.stage = "backup_creating" /\ journal'.durable = journal.durable
              /\ stages' # <<>> /\ LastStage(stages') = "backup_creating"
         /\ LogErrorWith(WithBaseline("backup_creating"), "backup_creating") =>
              /\ \/ journal' = journal
                 \/ journal'.stage = "backup_creating" /\ journal'.durable = journal.durable
              /\ stages' = stages
<1>1. LogTypeOK
  BY TypeParts
<1>2. /\ WithBaseline("backup_creating").stage = "backup_creating"
      /\ WithBaseline("backup_creating").durable = journal.durable
  BY <1>1, RecordsTyped, StageNames
<1>3. stages \in Seq(Stages) /\ "backup_creating" \in Stages
  BY <1>1, StageNames DEF LogTypeOK
<1>4. QED
  BY <1>2, <1>3, LastOfAppend DEF LogWith, LogErrorWith, logVars

\* Counting a written file moves neither the stage nor the runtime identity.
LEMMA CountedEffect ==
  ASSUME TypeOK, journal' \in {journal, [journal EXCEPT !.durable = TRUE]}
  PROVE  journal'.stage = journal.stage /\ journal'.pids = journal.pids
BY DEF TypeOK

\* Writing to a file what it holds changes nothing.
LEMMA RewriteSame ==
  ASSUME NEW c \in Configurations, NEW p \in Paths
  PROVE  [c EXCEPT ![p] = c[p]] = c
BY DEF Configurations

\* A rollback is believed to have begun exactly if the last stage is one of its own
\* or a later one.
LEMMA ForwardIsBeforeRollback ==
  \A stage \in ForwardStages : ~(StageOrder(stage) >= StageOrder("rollback_applying"))
BY DEF ForwardStages, BeforeWriteStages, StageOrder

\* The stages before the first write come before "files_applying" in releaseStageOrder.
LEMMA BeforeWriteIsEarly ==
  \A stage \in Stages \ BeforeWriteStages : StageOrder(stage) >= StageOrder("files_applying")
BY DEF Stages, ForwardStages, RollbackStages, BeforeWriteStages, StageOrder

---------------------------------------------------------------------------
(* IInv is inductive, and the safety properties of ReleaseAgent follow.    *)
(* The step has one case per action and under it one per part of IInv.     *)

\* IInv is preserved by every step of a call, of nginx and of whoever edits production.
LEMMA InvariantStep == IInv /\ [Next]_vars => IInv'
<1> SUFFICES ASSUME IInv, TypeOK', [Next]_vars
             PROVE  JournalAtPc' /\ StagesInMemory' /\ Untouched' /\ PartlyApplied' /\ StageAndFiles' /\ StageAndWorkers' /\ FailedAnswer'
  BY TypeStep DEF IInv
<1> USE DEF IInv
<1>0. LogTypeOK /\ TypeOK
  BY TypeParts
<1>1. CASE Execute
  <2>1. JournalAtPc'
    BY <1>1, StageNames
    DEF Execute, Goto, nginxVars, logVars, JournalAtPc, StagesInMemory, Untouched, UnfinishedRollback, Stages, ForwardStages, BeforeWriteStages, RollbackStages, TerminalStages
  <2>2. StagesInMemory'
    BY <1>1, StageNames
    DEF Execute, Goto, nginxVars, logVars, JournalAtPc, StagesInMemory, ExecutePoints, Stages, ForwardStages, BeforeWriteStages, RollbackStages, TerminalStages
  <2>3. Untouched'
    BY <1>1, StageNames
    DEF Execute, Goto, nginxVars, logVars, JournalAtPc, Untouched, FilesAre, Stages, ForwardStages, BeforeWriteStages, RollbackStages, TerminalStages
  <2>4. PartlyApplied'
    BY <1>1, StageNames
    DEF Execute, Goto, nginxVars, logVars, PartlyApplied, Untouched, Stages, ForwardStages, BeforeWriteStages, RollbackStages, TerminalStages
  <2>5. StageAndFiles'
    BY <1>1, StageNames
    DEF Execute, Goto, nginxVars, logVars, JournalAtPc, StageAndFiles, Untouched, DraftStages, FilesAre, UnfinishedRollback, Stages, ForwardStages, BeforeWriteStages, RollbackStages, TerminalStages
  <2>6. StageAndWorkers'
    BY <1>1, StageNames
    DEF Execute, Goto, nginxVars, logVars, JournalAtPc, StageAndFiles, StageAndWorkers, Untouched, PartlyApplied, DraftStages, EarlyStages, FilesAre, Serves, Stages, ForwardStages, BeforeWriteStages, RollbackStages, TerminalStages
  <2>7. FailedAnswer'
    BY <1>1, StageNames
    DEF Execute, Goto, nginxVars, logVars, JournalAtPc, FailedAnswer, Untouched, FilesAre, UnfinishedRollback, Stages, ForwardStages, BeforeWriteStages, RollbackStages, TerminalStages
  <2>8. QED
    BY <2>1, <2>2, <2>3, <2>4, <2>5, <2>6, <2>7
<1>2. CASE Recover
  <2>1. JournalAtPc'
    BY <1>2, StageNames
    DEF Recover, Goto, nginxVars, diskVars, JournalAtPc, StagesInMemory, Untouched, UnfinishedRollback, Stages, ForwardStages, BeforeWriteStages, RollbackStages, TerminalStages
  <2>2. StagesInMemory'
    BY <1>2, StageNames
    DEF Recover, Goto, nginxVars, diskVars, JournalAtPc, StagesInMemory, ExecutePoints, Stages, ForwardStages, BeforeWriteStages, RollbackStages, TerminalStages
  <2>3. Untouched'
    BY <1>2, StageNames
    DEF Recover, Goto, nginxVars, diskVars, JournalAtPc, Untouched, FilesAre, Stages, ForwardStages, BeforeWriteStages, RollbackStages, TerminalStages
  <2>4. PartlyApplied'
    BY <1>2, StageNames
    DEF Recover, Goto, nginxVars, diskVars, PartlyApplied, Untouched, Stages, ForwardStages, BeforeWriteStages, RollbackStages, TerminalStages
  <2>5. StageAndFiles'
    BY <1>2, StageNames
    DEF Recover, Goto, nginxVars, diskVars, JournalAtPc, StageAndFiles, Untouched, DraftStages, FilesAre, UnfinishedRollback, Stages, ForwardStages, BeforeWriteStages, RollbackStages, TerminalStages
  <2>6. StageAndWorkers'
    BY <1>2, StageNames
    DEF Recover, Goto, nginxVars, diskVars, JournalAtPc, StageAndFiles, StageAndWorkers, Untouched, PartlyApplied, DraftStages, EarlyStages, FilesAre, Serves, Stages, ForwardStages, BeforeWriteStages, RollbackStages, TerminalStages
  <2>7. FailedAnswer'
    BY <1>2, StageNames
    DEF Recover, Goto, nginxVars, diskVars, JournalAtPc, FailedAnswer, Untouched, FilesAre, UnfinishedRollback, Stages, ForwardStages, BeforeWriteStages, RollbackStages, TerminalStages
  <2>8. QED
    BY <2>1, <2>2, <2>3, <2>4, <2>5, <2>6, <2>7
<1>3. CASE Recheck
  <2>1. JournalAtPc'
    BY <1>3, StageNames, LogEffect, LogErrorEffect
    DEF Recheck, Goto, Abandon, nginxVars, Return, JournalAtPc, StagesInMemory, Untouched, UnfinishedRollback, Stages, ForwardStages, BeforeWriteStages, RollbackStages, TerminalStages
  <2>2. StagesInMemory'
    BY <1>3, StageNames, LogEffect, LogErrorEffect
    DEF Recheck, Goto, Abandon, nginxVars, Return, JournalAtPc, StagesInMemory, ExecutePoints, Stages, ForwardStages, BeforeWriteStages, RollbackStages, TerminalStages
  <2>3. Untouched'
    BY <1>3, StageNames, LogEffect, LogErrorEffect
    DEF Recheck, Goto, Abandon, nginxVars, Return, JournalAtPc, Untouched, FilesAre, Stages, ForwardStages, BeforeWriteStages, RollbackStages, TerminalStages
  <2>4. PartlyApplied'
    BY <1>3, StageNames, LogEffect, LogErrorEffect
    DEF Recheck, Goto, Abandon, nginxVars, Return, PartlyApplied, Untouched, Stages, ForwardStages, BeforeWriteStages, RollbackStages, TerminalStages
  <2>5. StageAndFiles'
    BY <1>3, StageNames, LogEffect, LogErrorEffect
    DEF Recheck, Goto, Abandon, nginxVars, Return, JournalAtPc, StageAndFiles, Untouched, DraftStages, FilesAre, UnfinishedRollback, Stages, ForwardStages, BeforeWriteStages, RollbackStages, TerminalStages
  <2>6. StageAndWorkers'
    BY <1>3, StageNames, LogEffect, LogErrorEffect
    DEF Recheck, Goto, Abandon, nginxVars, Return, JournalAtPc, StageAndFiles, StageAndWorkers, Untouched, PartlyApplied, DraftStages, EarlyStages, FilesAre, Serves, Stages, ForwardStages, BeforeWriteStages, RollbackStages, TerminalStages
  <2>7. FailedAnswer'
    BY <1>3, StageNames, LogEffect, LogErrorEffect
    DEF Recheck, Goto, Abandon, nginxVars, Return, JournalAtPc, FailedAnswer, Untouched, FilesAre, UnfinishedRollback, Stages, ForwardStages, BeforeWriteStages, RollbackStages, TerminalStages
  <2>8. QED
    BY <2>1, <2>2, <2>3, <2>4, <2>5, <2>6, <2>7
<1>4. CASE Inspect
  <2>1. JournalAtPc'
    BY <1>4, StageNames, <1>0, FailBeforeWriteEffect, RecordsTyped, BaselineEffect
    DEF Inspect, Goto, Abandon, Return, JournalAtPc, StagesInMemory, Untouched, UnfinishedRollback, Stages, ForwardStages, BeforeWriteStages, RollbackStages, TerminalStages
  <2>2. StagesInMemory'
    BY <1>4, StageNames, <1>0, FailBeforeWriteEffect, RecordsTyped, BaselineEffect
    DEF Inspect, Goto, Abandon, Return, JournalAtPc, StagesInMemory, ExecutePoints, Stages, ForwardStages, BeforeWriteStages, RollbackStages, TerminalStages
  <2>3. Untouched'
    BY <1>4, StageNames, <1>0, FailBeforeWriteEffect, RecordsTyped, BaselineEffect
    DEF Inspect, Goto, Abandon, Return, JournalAtPc, Untouched, FilesAre, Stages, ForwardStages, BeforeWriteStages, RollbackStages, TerminalStages
  <2>4. PartlyApplied'
    BY <1>4, StageNames, <1>0, FailBeforeWriteEffect, RecordsTyped, BaselineEffect
    DEF Inspect, Goto, Abandon, Return, PartlyApplied, Untouched, Stages, ForwardStages, BeforeWriteStages, RollbackStages, TerminalStages
  <2>5. StageAndFiles'
    BY <1>4, StageNames, <1>0, FailBeforeWriteEffect, RecordsTyped, BaselineEffect
    DEF Inspect, Goto, Abandon, Return, JournalAtPc, StageAndFiles, Untouched, DraftStages, FilesAre, UnfinishedRollback, Stages, ForwardStages, BeforeWriteStages, RollbackStages, TerminalStages
  <2>6. StageAndWorkers'
    BY <1>4, StageNames, <1>0, FailBeforeWriteEffect, RecordsTyped, BaselineEffect
    DEF Inspect, Goto, Abandon, Return, JournalAtPc, StageAndFiles, StageAndWorkers, Untouched, PartlyApplied, DraftStages, EarlyStages, FilesAre, Serves, Stages, ForwardStages, BeforeWriteStages, RollbackStages, TerminalStages
  <2>7. FailedAnswer'
    BY <1>4, StageNames, <1>0, FailBeforeWriteEffect, RecordsTyped, BaselineEffect
    DEF Inspect, Goto, Abandon, Return, JournalAtPc, FailedAnswer, Untouched, FilesAre, UnfinishedRollback, Stages, ForwardStages, BeforeWriteStages, RollbackStages, TerminalStages
  <2>8. QED
    BY <2>1, <2>2, <2>3, <2>4, <2>5, <2>6, <2>7
<1>5. CASE Backup
  <2>1. JournalAtPc'
    BY <1>5, StageNames, LogEffect, LogErrorEffect, <1>0, FailBeforeWriteEffect, RecordsTyped
    DEF Backup, Goto, Return, nginxVars, JournalAtPc, StagesInMemory, Untouched, UnfinishedRollback, Stages, ForwardStages, BeforeWriteStages, RollbackStages, TerminalStages
  <2>2. StagesInMemory'
    BY <1>5, StageNames, LogEffect, LogErrorEffect, <1>0, FailBeforeWriteEffect, RecordsTyped
    DEF Backup, Goto, Return, nginxVars, JournalAtPc, StagesInMemory, ExecutePoints, Stages, ForwardStages, BeforeWriteStages, RollbackStages, TerminalStages
  <2>3. Untouched'
    BY <1>5, StageNames, LogEffect, LogErrorEffect, <1>0, FailBeforeWriteEffect, RecordsTyped
    DEF Backup, Goto, Return, nginxVars, JournalAtPc, Untouched, FilesAre, Stages, ForwardStages, BeforeWriteStages, RollbackStages, TerminalStages
  <2>4. PartlyApplied'
    BY <1>5, StageNames, LogEffect, LogErrorEffect, <1>0, FailBeforeWriteEffect, RecordsTyped
    DEF Backup, Goto, Return, nginxVars, PartlyApplied, Untouched, Stages, ForwardStages, BeforeWriteStages, RollbackStages, TerminalStages
  <2>5. StageAndFiles'
    BY <1>5, StageNames, LogEffect, LogErrorEffect, <1>0, FailBeforeWriteEffect, RecordsTyped
    DEF Backup, Goto, Return, nginxVars, JournalAtPc, StageAndFiles, Untouched, DraftStages, FilesAre, UnfinishedRollback, Stages, ForwardStages, BeforeWriteStages, RollbackStages, TerminalStages
  <2>6. StageAndWorkers'
    BY <1>5, StageNames, LogEffect, LogErrorEffect, <1>0, FailBeforeWriteEffect, RecordsTyped
    DEF Backup, Goto, Return, nginxVars, JournalAtPc, StageAndFiles, StageAndWorkers, Untouched, PartlyApplied, DraftStages, EarlyStages, FilesAre, Serves, Stages, ForwardStages, BeforeWriteStages, RollbackStages, TerminalStages
  <2>7. FailedAnswer'
    BY <1>5, StageNames, LogEffect, LogErrorEffect, <1>0, FailBeforeWriteEffect, RecordsTyped
    DEF Backup, Goto, Return, nginxVars, JournalAtPc, FailedAnswer, Untouched, FilesAre, UnfinishedRollback, Stages, ForwardStages, BeforeWriteStages, RollbackStages, TerminalStages
  <2>8. QED
    BY <2>1, <2>2, <2>3, <2>4, <2>5, <2>6, <2>7
<1>6. CASE Validate
  <2>1. JournalAtPc'
    BY <1>6, StageNames, LogEffect, LogErrorEffect, <1>0, FailBeforeWriteEffect, RecordsTyped
    DEF Validate, Goto, Abandon, nginxVars, Return, JournalAtPc, StagesInMemory, Untouched, UnfinishedRollback, Stages, ForwardStages, BeforeWriteStages, RollbackStages, TerminalStages
  <2>2. StagesInMemory'
    BY <1>6, StageNames, LogEffect, LogErrorEffect, <1>0, FailBeforeWriteEffect, RecordsTyped
    DEF Validate, Goto, Abandon, nginxVars, Return, JournalAtPc, StagesInMemory, ExecutePoints, Stages, ForwardStages, BeforeWriteStages, RollbackStages, TerminalStages
  <2>3. Untouched'
    BY <1>6, StageNames, LogEffect, LogErrorEffect, <1>0, FailBeforeWriteEffect, RecordsTyped
    DEF Validate, Goto, Abandon, nginxVars, Return, JournalAtPc, Untouched, FilesAre, Stages, ForwardStages, BeforeWriteStages, RollbackStages, TerminalStages
  <2>4. PartlyApplied'
    BY <1>6, StageNames, LogEffect, LogErrorEffect, <1>0, FailBeforeWriteEffect, RecordsTyped
    DEF Validate, Goto, Abandon, nginxVars, Return, PartlyApplied, Untouched, Stages, ForwardStages, BeforeWriteStages, RollbackStages, TerminalStages
  <2>5. StageAndFiles'
    BY <1>6, StageNames, LogEffect, LogErrorEffect, <1>0, FailBeforeWriteEffect, RecordsTyped
    DEF Validate, Goto, Abandon, nginxVars, Return, JournalAtPc, StageAndFiles, Untouched, DraftStages, FilesAre, UnfinishedRollback, Stages, ForwardStages, BeforeWriteStages, RollbackStages, TerminalStages
  <2>6. StageAndWorkers'
    BY <1>6, StageNames, LogEffect, LogErrorEffect, <1>0, FailBeforeWriteEffect, RecordsTyped
    DEF Validate, Goto, Abandon, nginxVars, Return, JournalAtPc, StageAndFiles, StageAndWorkers, Untouched, PartlyApplied, DraftStages, EarlyStages, FilesAre, Serves, Stages, ForwardStages, BeforeWriteStages, RollbackStages, TerminalStages
  <2>7. FailedAnswer'
    BY <1>6, StageNames, LogEffect, LogErrorEffect, <1>0, FailBeforeWriteEffect, RecordsTyped
    DEF Validate, Goto, Abandon, nginxVars, Return, JournalAtPc, FailedAnswer, Untouched, FilesAre, UnfinishedRollback, Stages, ForwardStages, BeforeWriteStages, RollbackStages, TerminalStages
  <2>8. QED
    BY <2>1, <2>2, <2>3, <2>4, <2>5, <2>6, <2>7
<1>7. CASE Begin
  <2>1. JournalAtPc'
    BY <1>7, StageNames, LogEffect, LogErrorEffect
    DEF Begin, Goto, Abandon, nginxVars, Return, JournalAtPc, StagesInMemory, Untouched, UnfinishedRollback, Stages, ForwardStages, BeforeWriteStages, RollbackStages, TerminalStages
  <2>2. StagesInMemory'
    BY <1>7, StageNames, LogEffect, LogErrorEffect
    DEF Begin, Goto, Abandon, nginxVars, Return, JournalAtPc, StagesInMemory, ExecutePoints, Stages, ForwardStages, BeforeWriteStages, RollbackStages, TerminalStages
  <2>3. Untouched'
    BY <1>7, StageNames, LogEffect, LogErrorEffect
    DEF Begin, Goto, Abandon, nginxVars, Return, JournalAtPc, Untouched, FilesAre, Stages, ForwardStages, BeforeWriteStages, RollbackStages, TerminalStages
  <2>4. PartlyApplied'
    BY <1>7, StageNames, LogEffect, LogErrorEffect
    DEF Begin, Goto, Abandon, nginxVars, Return, PartlyApplied, Untouched, Stages, ForwardStages, BeforeWriteStages, RollbackStages, TerminalStages
  <2>5. StageAndFiles'
    BY <1>7, StageNames, LogEffect, LogErrorEffect
    DEF Begin, Goto, Abandon, nginxVars, Return, JournalAtPc, StageAndFiles, Untouched, DraftStages, FilesAre, UnfinishedRollback, Stages, ForwardStages, BeforeWriteStages, RollbackStages, TerminalStages
  <2>6. StageAndWorkers'
    BY <1>7, StageNames, LogEffect, LogErrorEffect
    DEF Begin, Goto, Abandon, nginxVars, Return, JournalAtPc, StageAndFiles, StageAndWorkers, Untouched, PartlyApplied, DraftStages, EarlyStages, FilesAre, Serves, Stages, ForwardStages, BeforeWriteStages, RollbackStages, TerminalStages
  <2>7. FailedAnswer'
    BY <1>7, StageNames, LogEffect, LogErrorEffect
    DEF Begin, Goto, Abandon, nginxVars, Return, JournalAtPc, FailedAnswer, Untouched, FilesAre, UnfinishedRollback, Stages, ForwardStages, BeforeWriteStages, RollbackStages, TerminalStages
  <2>8. QED
    BY <2>1, <2>2, <2>3, <2>4, <2>5, <2>6, <2>7
<1>8. CASE PreCheck
  <2>1. JournalAtPc'
    BY <1>8, StageNames
    DEF PreCheck, Goto, StartRollback, nginxVars, diskVars, JournalAtPc, StagesInMemory, Untouched, UnfinishedRollback, Stages, ForwardStages, BeforeWriteStages, RollbackStages, TerminalStages
  <2>2. StagesInMemory'
    BY <1>8, StageNames
    DEF PreCheck, Goto, StartRollback, nginxVars, diskVars, JournalAtPc, StagesInMemory, ExecutePoints, Stages, ForwardStages, BeforeWriteStages, RollbackStages, TerminalStages
  <2>3. Untouched'
    BY <1>8, StageNames
    DEF PreCheck, Goto, StartRollback, nginxVars, diskVars, JournalAtPc, Untouched, FilesAre, Stages, ForwardStages, BeforeWriteStages, RollbackStages, TerminalStages
  <2>4. PartlyApplied'
    BY <1>8, StageNames
    DEF PreCheck, Goto, StartRollback, nginxVars, diskVars, PartlyApplied, Untouched, Stages, ForwardStages, BeforeWriteStages, RollbackStages, TerminalStages
  <2>5. StageAndFiles'
    BY <1>8, StageNames
    DEF PreCheck, Goto, StartRollback, nginxVars, diskVars, JournalAtPc, StageAndFiles, Untouched, DraftStages, FilesAre, UnfinishedRollback, Stages, ForwardStages, BeforeWriteStages, RollbackStages, TerminalStages
  <2>6. StageAndWorkers'
    BY <1>8, StageNames
    DEF PreCheck, Goto, StartRollback, nginxVars, diskVars, JournalAtPc, StageAndFiles, StageAndWorkers, Untouched, PartlyApplied, DraftStages, EarlyStages, FilesAre, Serves, Stages, ForwardStages, BeforeWriteStages, RollbackStages, TerminalStages
  <2>7. FailedAnswer'
    BY <1>8, StageNames
    DEF PreCheck, Goto, StartRollback, nginxVars, diskVars, JournalAtPc, FailedAnswer, Untouched, FilesAre, UnfinishedRollback, Stages, ForwardStages, BeforeWriteStages, RollbackStages, TerminalStages
  <2>8. QED
    BY <2>1, <2>2, <2>3, <2>4, <2>5, <2>6, <2>7
<1>9. CASE ApplyFile
  <2>1. JournalAtPc'
    BY <1>9, StageNames, CountedEffect, <1>0
    DEF ApplyFile, StartRollback, nginxVars, Goto, JournalAtPc, StagesInMemory, Untouched, UnfinishedRollback, Stages, ForwardStages, BeforeWriteStages, RollbackStages, TerminalStages
  <2>2. StagesInMemory'
    BY <1>9, StageNames, CountedEffect, <1>0
    DEF ApplyFile, StartRollback, nginxVars, Goto, JournalAtPc, StagesInMemory, ExecutePoints, Stages, ForwardStages, BeforeWriteStages, RollbackStages, TerminalStages
  <2>3. Untouched'
    BY <1>9, StageNames, CountedEffect, <1>0
    DEF ApplyFile, StartRollback, nginxVars, Goto, JournalAtPc, Untouched, FilesAre, Stages, ForwardStages, BeforeWriteStages, RollbackStages, TerminalStages
  <2>4. PartlyApplied'
    <3>1. files \in Configurations /\ left \subseteq Paths
      BY <1>0 DEF TypeOK
    <3>2. QED
      BY <1>9, <3>1 DEF ApplyFile, StartRollback, Goto, PartlyApplied, Configurations
  <2>5. StageAndFiles'
    BY <1>9, StageNames, CountedEffect, <1>0
    DEF ApplyFile, StartRollback, nginxVars, Goto, JournalAtPc, StageAndFiles, Untouched, DraftStages, FilesAre, UnfinishedRollback, Stages, ForwardStages, BeforeWriteStages, RollbackStages, TerminalStages
  <2>6. StageAndWorkers'
    <3>1. files' = Production => edited \/ files = Production
      <4>1. files \in Configurations /\ left \subseteq Paths
        BY <1>0 DEF TypeOK
      <4>2. PICK p \in left : files' \in {files, [files EXCEPT ![p] = Draft[p]]}
        BY <1>9 DEF ApplyFile
      <4>3. SUFFICES ASSUME files' = Production, ~edited, NEW q \in Paths
                     PROVE  files[q] = Production[q]
        BY <4>1, ConfigurationAssumption DEF Configurations
      <4>4. files[q] = IF q \in applied THEN Draft[q] ELSE Production[q]
        BY <1>9, <4>3 DEF ApplyFile, PartlyApplied
      <4>5. q \in applied /\ q # p => files'[q] = Draft[q]
        BY <4>1, <4>2, <4>4 DEF Configurations
      <4>6. q \in applied /\ q = p => files'[q] = Draft[q]
        BY <4>1, <4>2, <4>4 DEF Configurations
      <4>7. QED
        BY <4>3, <4>4, <4>5, <4>6
    <3>2. QED
      BY <1>9, <1>0, <3>1, CountedEffect
      DEF ApplyFile, StartRollback, Goto, nginxVars, JournalAtPc, StageAndWorkers, EarlyStages,
          DraftStages, Serves, Stages, ForwardStages, BeforeWriteStages, RollbackStages
  <2>7. FailedAnswer'
    BY <1>9, StageNames, CountedEffect, <1>0
    DEF ApplyFile, StartRollback, nginxVars, Goto, JournalAtPc, FailedAnswer, Untouched, FilesAre, UnfinishedRollback, Stages, ForwardStages, BeforeWriteStages, RollbackStages, TerminalStages
  <2>8. QED
    BY <2>1, <2>2, <2>3, <2>4, <2>5, <2>6, <2>7
<1>10. CASE ApplyDone
  <2>1. JournalAtPc'
    BY <1>10, StageNames, LogEffect, LogErrorEffect
    DEF ApplyDone, Goto, StartRollback, nginxVars, logVars, JournalAtPc, StagesInMemory, Untouched, UnfinishedRollback, Stages, ForwardStages, BeforeWriteStages, RollbackStages, TerminalStages
  <2>2. StagesInMemory'
    BY <1>10, StageNames, LogEffect, LogErrorEffect
    DEF ApplyDone, Goto, StartRollback, nginxVars, logVars, JournalAtPc, StagesInMemory, ExecutePoints, Stages, ForwardStages, BeforeWriteStages, RollbackStages, TerminalStages
  <2>3. Untouched'
    BY <1>10, StageNames, LogEffect, LogErrorEffect
    DEF ApplyDone, Goto, StartRollback, nginxVars, logVars, JournalAtPc, Untouched, FilesAre, Stages, ForwardStages, BeforeWriteStages, RollbackStages, TerminalStages
  <2>4. PartlyApplied'
    BY <1>10, StageNames, LogEffect, LogErrorEffect
    DEF ApplyDone, Goto, StartRollback, nginxVars, logVars, PartlyApplied, Untouched, Stages, ForwardStages, BeforeWriteStages, RollbackStages, TerminalStages
  <2>5. StageAndFiles'
    BY <1>10, StageNames, LogEffect, LogErrorEffect
    DEF ApplyDone, Goto, StartRollback, nginxVars, logVars, JournalAtPc, StageAndFiles, Untouched, DraftStages, FilesAre, UnfinishedRollback, Stages, ForwardStages, BeforeWriteStages, RollbackStages, TerminalStages
  <2>6. StageAndWorkers'
    BY <1>10, StageNames, LogEffect, LogErrorEffect
    DEF ApplyDone, Goto, StartRollback, nginxVars, logVars, JournalAtPc, StageAndFiles, StageAndWorkers, Untouched, PartlyApplied, DraftStages, EarlyStages, FilesAre, Serves, Stages, ForwardStages, BeforeWriteStages, RollbackStages, TerminalStages
  <2>7. FailedAnswer'
    BY <1>10, StageNames, LogEffect, LogErrorEffect
    DEF ApplyDone, Goto, StartRollback, nginxVars, logVars, JournalAtPc, FailedAnswer, Untouched, FilesAre, UnfinishedRollback, Stages, ForwardStages, BeforeWriteStages, RollbackStages, TerminalStages
  <2>8. QED
    BY <2>1, <2>2, <2>3, <2>4, <2>5, <2>6, <2>7
<1>11. CASE Test
  <2>1. JournalAtPc'
    BY <1>11, StageNames, LogEffect, LogErrorEffect
    DEF Test, Goto, StartRollback, nginxVars, logVars, JournalAtPc, StagesInMemory, Untouched, UnfinishedRollback, Stages, ForwardStages, BeforeWriteStages, RollbackStages, TerminalStages
  <2>2. StagesInMemory'
    BY <1>11, StageNames, LogEffect, LogErrorEffect
    DEF Test, Goto, StartRollback, nginxVars, logVars, JournalAtPc, StagesInMemory, ExecutePoints, Stages, ForwardStages, BeforeWriteStages, RollbackStages, TerminalStages
  <2>3. Untouched'
    BY <1>11, StageNames, LogEffect, LogErrorEffect
    DEF Test, Goto, StartRollback, nginxVars, logVars, JournalAtPc, Untouched, FilesAre, Stages, ForwardStages, BeforeWriteStages, RollbackStages, TerminalStages
  <2>4. PartlyApplied'
    BY <1>11, StageNames, LogEffect, LogErrorEffect
    DEF Test, Goto, StartRollback, nginxVars, logVars, PartlyApplied, Untouched, Stages, ForwardStages, BeforeWriteStages, RollbackStages, TerminalStages
  <2>5. StageAndFiles'
    BY <1>11, StageNames, LogEffect, LogErrorEffect
    DEF Test, Goto, StartRollback, nginxVars, logVars, JournalAtPc, StageAndFiles, Untouched, DraftStages, FilesAre, UnfinishedRollback, Stages, ForwardStages, BeforeWriteStages, RollbackStages, TerminalStages
  <2>6. StageAndWorkers'
    BY <1>11, StageNames, LogEffect, LogErrorEffect
    DEF Test, Goto, StartRollback, nginxVars, logVars, JournalAtPc, StageAndFiles, StageAndWorkers, Untouched, PartlyApplied, DraftStages, EarlyStages, FilesAre, Serves, Stages, ForwardStages, BeforeWriteStages, RollbackStages, TerminalStages
  <2>7. FailedAnswer'
    BY <1>11, StageNames, LogEffect, LogErrorEffect
    DEF Test, Goto, StartRollback, nginxVars, logVars, JournalAtPc, FailedAnswer, Untouched, FilesAre, UnfinishedRollback, Stages, ForwardStages, BeforeWriteStages, RollbackStages, TerminalStages
  <2>8. QED
    BY <2>1, <2>2, <2>3, <2>4, <2>5, <2>6, <2>7
<1>12. CASE Reload
  <2>1. JournalAtPc'
    BY <1>12, StageNames
    DEF Reload, diskVars, callVars, Goto, JournalAtPc, StagesInMemory, Untouched, UnfinishedRollback, SendReload, Stages, ForwardStages, BeforeWriteStages, RollbackStages, TerminalStages
  <2>2. StagesInMemory'
    BY <1>12, StageNames
    DEF Reload, diskVars, callVars, Goto, JournalAtPc, StagesInMemory, ExecutePoints, SendReload, Stages, ForwardStages, BeforeWriteStages, RollbackStages, TerminalStages
  <2>3. Untouched'
    BY <1>12, StageNames
    DEF Reload, diskVars, callVars, Goto, JournalAtPc, Untouched, FilesAre, SendReload, Stages, ForwardStages, BeforeWriteStages, RollbackStages, TerminalStages
  <2>4. PartlyApplied'
    BY <1>12, StageNames
    DEF Reload, diskVars, callVars, Goto, PartlyApplied, Untouched, SendReload, Stages, ForwardStages, BeforeWriteStages, RollbackStages, TerminalStages
  <2>5. StageAndFiles'
    BY <1>12, StageNames
    DEF Reload, diskVars, callVars, Goto, JournalAtPc, StageAndFiles, Untouched, DraftStages, FilesAre, UnfinishedRollback, SendReload, Stages, ForwardStages, BeforeWriteStages, RollbackStages, TerminalStages
  <2>6. StageAndWorkers'
    BY <1>12, StageNames
    DEF Reload, diskVars, callVars, Goto, JournalAtPc, StageAndFiles, StageAndWorkers, Untouched, PartlyApplied, DraftStages, EarlyStages, FilesAre, Serves, SendReload, Stages, ForwardStages, BeforeWriteStages, RollbackStages, TerminalStages
  <2>7. FailedAnswer'
    BY <1>12, StageNames
    DEF Reload, diskVars, callVars, Goto, JournalAtPc, FailedAnswer, Untouched, FilesAre, UnfinishedRollback, SendReload, Stages, ForwardStages, BeforeWriteStages, RollbackStages, TerminalStages
  <2>8. QED
    BY <2>1, <2>2, <2>3, <2>4, <2>5, <2>6, <2>7
<1>13. CASE LogReload
  <2>1. JournalAtPc'
    BY <1>13, StageNames, LogEffect, LogErrorEffect
    DEF LogReload, Goto, StartRollback, nginxVars, JournalAtPc, StagesInMemory, Untouched, UnfinishedRollback, Stages, ForwardStages, BeforeWriteStages, RollbackStages, TerminalStages
  <2>2. StagesInMemory'
    BY <1>13, StageNames, LogEffect, LogErrorEffect
    DEF LogReload, Goto, StartRollback, nginxVars, JournalAtPc, StagesInMemory, ExecutePoints, Stages, ForwardStages, BeforeWriteStages, RollbackStages, TerminalStages
  <2>3. Untouched'
    BY <1>13, StageNames, LogEffect, LogErrorEffect
    DEF LogReload, Goto, StartRollback, nginxVars, JournalAtPc, Untouched, FilesAre, Stages, ForwardStages, BeforeWriteStages, RollbackStages, TerminalStages
  <2>4. PartlyApplied'
    BY <1>13, StageNames, LogEffect, LogErrorEffect
    DEF LogReload, Goto, StartRollback, nginxVars, PartlyApplied, Untouched, Stages, ForwardStages, BeforeWriteStages, RollbackStages, TerminalStages
  <2>5. StageAndFiles'
    BY <1>13, StageNames, LogEffect, LogErrorEffect
    DEF LogReload, Goto, StartRollback, nginxVars, JournalAtPc, StageAndFiles, Untouched, DraftStages, FilesAre, UnfinishedRollback, Stages, ForwardStages, BeforeWriteStages, RollbackStages, TerminalStages
  <2>6. StageAndWorkers'
    BY <1>13, StageNames, LogEffect, LogErrorEffect
    DEF LogReload, Goto, StartRollback, nginxVars, JournalAtPc, StageAndFiles, StageAndWorkers, Untouched, PartlyApplied, DraftStages, EarlyStages, FilesAre, Serves, Stages, ForwardStages, BeforeWriteStages, RollbackStages, TerminalStages
  <2>7. FailedAnswer'
    BY <1>13, StageNames, LogEffect, LogErrorEffect
    DEF LogReload, Goto, StartRollback, nginxVars, JournalAtPc, FailedAnswer, Untouched, FilesAre, UnfinishedRollback, Stages, ForwardStages, BeforeWriteStages, RollbackStages, TerminalStages
  <2>8. QED
    BY <2>1, <2>2, <2>3, <2>4, <2>5, <2>6, <2>7
<1>14. CASE LogReloadFailure
  <2>1. JournalAtPc'
    BY <1>14, StageNames, LogEffect, LogErrorEffect
    DEF LogReloadFailure, StartRollback, nginxVars, Goto, JournalAtPc, StagesInMemory, Untouched, UnfinishedRollback, Stages, ForwardStages, BeforeWriteStages, RollbackStages, TerminalStages
  <2>2. StagesInMemory'
    BY <1>14, StageNames, LogEffect, LogErrorEffect
    DEF LogReloadFailure, StartRollback, nginxVars, Goto, JournalAtPc, StagesInMemory, ExecutePoints, Stages, ForwardStages, BeforeWriteStages, RollbackStages, TerminalStages
  <2>3. Untouched'
    BY <1>14, StageNames, LogEffect, LogErrorEffect
    DEF LogReloadFailure, StartRollback, nginxVars, Goto, JournalAtPc, Untouched, FilesAre, Stages, ForwardStages, BeforeWriteStages, RollbackStages, TerminalStages
  <2>4. PartlyApplied'
    BY <1>14, StageNames, LogEffect, LogErrorEffect
    DEF LogReloadFailure, StartRollback, nginxVars, Goto, PartlyApplied, Untouched, Stages, ForwardStages, BeforeWriteStages, RollbackStages, TerminalStages
  <2>5. StageAndFiles'
    BY <1>14, StageNames, LogEffect, LogErrorEffect
    DEF LogReloadFailure, StartRollback, nginxVars, Goto, JournalAtPc, StageAndFiles, Untouched, DraftStages, FilesAre, UnfinishedRollback, Stages, ForwardStages, BeforeWriteStages, RollbackStages, TerminalStages
  <2>6. StageAndWorkers'
    BY <1>14, StageNames, LogEffect, LogErrorEffect
    DEF LogReloadFailure, StartRollback, nginxVars, Goto, JournalAtPc, StageAndFiles, StageAndWorkers, Untouched, PartlyApplied, DraftStages, EarlyStages, FilesAre, Serves, Stages, ForwardStages, BeforeWriteStages, RollbackStages, TerminalStages
  <2>7. FailedAnswer'
    BY <1>14, StageNames, LogEffect, LogErrorEffect
    DEF LogReloadFailure, StartRollback, nginxVars, Goto, JournalAtPc, FailedAnswer, Untouched, FilesAre, UnfinishedRollback, Stages, ForwardStages, BeforeWriteStages, RollbackStages, TerminalStages
  <2>8. QED
    BY <2>1, <2>2, <2>3, <2>4, <2>5, <2>6, <2>7
<1>15. CASE Confirm
  <2>1. JournalAtPc'
    BY <1>15, StageNames, LogEffect, LogErrorEffect
    DEF Confirm, Goto, StartRollback, nginxVars, logVars, JournalAtPc, StagesInMemory, Untouched, UnfinishedRollback, Confirmed, Stages, ForwardStages, BeforeWriteStages, RollbackStages, TerminalStages
  <2>2. StagesInMemory'
    BY <1>15, StageNames, LogEffect, LogErrorEffect
    DEF Confirm, Goto, StartRollback, nginxVars, logVars, JournalAtPc, StagesInMemory, ExecutePoints, Confirmed, Stages, ForwardStages, BeforeWriteStages, RollbackStages, TerminalStages
  <2>3. Untouched'
    BY <1>15, StageNames, LogEffect, LogErrorEffect
    DEF Confirm, Goto, StartRollback, nginxVars, logVars, JournalAtPc, Untouched, FilesAre, Confirmed, Stages, ForwardStages, BeforeWriteStages, RollbackStages, TerminalStages
  <2>4. PartlyApplied'
    BY <1>15, StageNames, LogEffect, LogErrorEffect
    DEF Confirm, Goto, StartRollback, nginxVars, logVars, PartlyApplied, Untouched, Confirmed, Stages, ForwardStages, BeforeWriteStages, RollbackStages, TerminalStages
  <2>5. StageAndFiles'
    BY <1>15, StageNames, LogEffect, LogErrorEffect
    DEF Confirm, Goto, StartRollback, nginxVars, logVars, JournalAtPc, StageAndFiles, Untouched, DraftStages, FilesAre, UnfinishedRollback, Confirmed, Stages, ForwardStages, BeforeWriteStages, RollbackStages, TerminalStages
  <2>6. StageAndWorkers'
    BY <1>15, StageNames, LogEffect, LogErrorEffect
    DEF Confirm, Goto, StartRollback, nginxVars, logVars, JournalAtPc, StageAndFiles, StageAndWorkers, Untouched, PartlyApplied, DraftStages, EarlyStages, FilesAre, Serves, Confirmed, Stages, ForwardStages, BeforeWriteStages, RollbackStages, TerminalStages
  <2>7. FailedAnswer'
    BY <1>15, StageNames, LogEffect, LogErrorEffect
    DEF Confirm, Goto, StartRollback, nginxVars, logVars, JournalAtPc, FailedAnswer, Untouched, FilesAre, UnfinishedRollback, Confirmed, Stages, ForwardStages, BeforeWriteStages, RollbackStages, TerminalStages
  <2>8. QED
    BY <2>1, <2>2, <2>3, <2>4, <2>5, <2>6, <2>7
<1>16. CASE Commit
  <2>1. JournalAtPc'
    BY <1>16, StageNames, LogEffect, LogErrorEffect
    DEF Commit, StartRollback, Return, nginxVars, Goto, JournalAtPc, StagesInMemory, Untouched, UnfinishedRollback, Stages, ForwardStages, BeforeWriteStages, RollbackStages, TerminalStages
  <2>2. StagesInMemory'
    BY <1>16, StageNames, LogEffect, LogErrorEffect
    DEF Commit, StartRollback, Return, nginxVars, Goto, JournalAtPc, StagesInMemory, ExecutePoints, Stages, ForwardStages, BeforeWriteStages, RollbackStages, TerminalStages
  <2>3. Untouched'
    BY <1>16, StageNames, LogEffect, LogErrorEffect
    DEF Commit, StartRollback, Return, nginxVars, Goto, JournalAtPc, Untouched, FilesAre, Stages, ForwardStages, BeforeWriteStages, RollbackStages, TerminalStages
  <2>4. PartlyApplied'
    BY <1>16, StageNames, LogEffect, LogErrorEffect
    DEF Commit, StartRollback, Return, nginxVars, Goto, PartlyApplied, Untouched, Stages, ForwardStages, BeforeWriteStages, RollbackStages, TerminalStages
  <2>5. StageAndFiles'
    BY <1>16, StageNames, LogEffect, LogErrorEffect
    DEF Commit, StartRollback, Return, nginxVars, Goto, JournalAtPc, StageAndFiles, Untouched, DraftStages, FilesAre, UnfinishedRollback, Stages, ForwardStages, BeforeWriteStages, RollbackStages, TerminalStages
  <2>6. StageAndWorkers'
    BY <1>16, StageNames, LogEffect, LogErrorEffect
    DEF Commit, StartRollback, Return, nginxVars, Goto, JournalAtPc, StageAndFiles, StageAndWorkers, Untouched, PartlyApplied, DraftStages, EarlyStages, FilesAre, Serves, Stages, ForwardStages, BeforeWriteStages, RollbackStages, TerminalStages
  <2>7. FailedAnswer'
    BY <1>16, StageNames, LogEffect, LogErrorEffect
    DEF Commit, StartRollback, Return, nginxVars, Goto, JournalAtPc, FailedAnswer, Untouched, FilesAre, UnfinishedRollback, Stages, ForwardStages, BeforeWriteStages, RollbackStages, TerminalStages
  <2>8. QED
    BY <2>1, <2>2, <2>3, <2>4, <2>5, <2>6, <2>7
<1>17. CASE Rollback
  <2>1. JournalAtPc'
    BY <1>17, StageNames, LogEffect, LogErrorEffect, ForwardIsBeforeRollback
    DEF Rollback, Goto, NeedsAttention, nginxVars, logVars, JournalAtPc, StagesInMemory, Untouched, UnfinishedRollback, Reached, Stages, ForwardStages, BeforeWriteStages, RollbackStages, TerminalStages
  <2>2. StagesInMemory'
    BY <1>17, StageNames, LogEffect, LogErrorEffect
    DEF Rollback, Goto, NeedsAttention, nginxVars, logVars, JournalAtPc, StagesInMemory, ExecutePoints, Stages, ForwardStages, BeforeWriteStages, RollbackStages, TerminalStages
  <2>3. Untouched'
    BY <1>17, StageNames, LogEffect, LogErrorEffect
    DEF Rollback, Goto, NeedsAttention, nginxVars, logVars, JournalAtPc, Untouched, FilesAre, Stages, ForwardStages, BeforeWriteStages, RollbackStages, TerminalStages
  <2>4. PartlyApplied'
    BY <1>17, StageNames, LogEffect, LogErrorEffect
    DEF Rollback, Goto, NeedsAttention, nginxVars, logVars, PartlyApplied, Untouched, Stages, ForwardStages, BeforeWriteStages, RollbackStages, TerminalStages
  <2>5. StageAndFiles'
    BY <1>17, StageNames, LogEffect, LogErrorEffect
    DEF Rollback, Goto, NeedsAttention, nginxVars, logVars, JournalAtPc, StageAndFiles, Untouched, DraftStages, FilesAre, UnfinishedRollback, Stages, ForwardStages, BeforeWriteStages, RollbackStages, TerminalStages
  <2>6. StageAndWorkers'
    BY <1>17, StageNames, LogEffect, LogErrorEffect
    DEF Rollback, Goto, NeedsAttention, nginxVars, logVars, JournalAtPc, StageAndFiles, StageAndWorkers, Untouched, PartlyApplied, DraftStages, EarlyStages, FilesAre, Serves, Stages, ForwardStages, BeforeWriteStages, RollbackStages, TerminalStages
  <2>7. FailedAnswer'
    BY <1>17, StageNames, LogEffect, LogErrorEffect
    DEF Rollback, Goto, NeedsAttention, nginxVars, logVars, JournalAtPc, FailedAnswer, Untouched, FilesAre, UnfinishedRollback, Stages, ForwardStages, BeforeWriteStages, RollbackStages, TerminalStages
  <2>8. QED
    BY <2>1, <2>2, <2>3, <2>4, <2>5, <2>6, <2>7
<1>18. CASE Verify
  <2>1. JournalAtPc'
    BY <1>18, StageNames
    DEF Verify, Goto, NeedsAttention, nginxVars, diskVars, JournalAtPc, StagesInMemory, Untouched, UnfinishedRollback, Stages, ForwardStages, BeforeWriteStages, RollbackStages, TerminalStages
  <2>2. StagesInMemory'
    BY <1>18, StageNames
    DEF Verify, Goto, NeedsAttention, nginxVars, diskVars, JournalAtPc, StagesInMemory, ExecutePoints, Stages, ForwardStages, BeforeWriteStages, RollbackStages, TerminalStages
  <2>3. Untouched'
    BY <1>18, StageNames
    DEF Verify, Goto, NeedsAttention, nginxVars, diskVars, JournalAtPc, Untouched, FilesAre, Stages, ForwardStages, BeforeWriteStages, RollbackStages, TerminalStages
  <2>4. PartlyApplied'
    BY <1>18, StageNames
    DEF Verify, Goto, NeedsAttention, nginxVars, diskVars, PartlyApplied, Untouched, Stages, ForwardStages, BeforeWriteStages, RollbackStages, TerminalStages
  <2>5. StageAndFiles'
    BY <1>18, StageNames
    DEF Verify, Goto, NeedsAttention, nginxVars, diskVars, JournalAtPc, StageAndFiles, Untouched, DraftStages, FilesAre, UnfinishedRollback, Stages, ForwardStages, BeforeWriteStages, RollbackStages, TerminalStages
  <2>6. StageAndWorkers'
    BY <1>18, StageNames
    DEF Verify, Goto, NeedsAttention, nginxVars, diskVars, JournalAtPc, StageAndFiles, StageAndWorkers, Untouched, PartlyApplied, DraftStages, EarlyStages, FilesAre, Serves, Stages, ForwardStages, BeforeWriteStages, RollbackStages, TerminalStages
  <2>7. FailedAnswer'
    BY <1>18, StageNames
    DEF Verify, Goto, NeedsAttention, nginxVars, diskVars, JournalAtPc, FailedAnswer, Untouched, FilesAre, UnfinishedRollback, Stages, ForwardStages, BeforeWriteStages, RollbackStages, TerminalStages
  <2>8. QED
    BY <2>1, <2>2, <2>3, <2>4, <2>5, <2>6, <2>7
<1>19. CASE RestoreFile
  <2>1. JournalAtPc'
    BY <1>19, StageNames
    DEF RestoreFile, NeedsAttention, nginxVars, diskVars, Goto, JournalAtPc, StagesInMemory, Untouched, UnfinishedRollback, Stages, ForwardStages, BeforeWriteStages, RollbackStages, TerminalStages
  <2>2. StagesInMemory'
    BY <1>19, StageNames
    DEF RestoreFile, NeedsAttention, nginxVars, diskVars, Goto, JournalAtPc, StagesInMemory, ExecutePoints, Stages, ForwardStages, BeforeWriteStages, RollbackStages, TerminalStages
  <2>3. Untouched'
    <3>1. files \in Configurations /\ left \subseteq Paths
      BY <1>0 DEF TypeOK
    <3>2. applied = {} => FilesAre(Production)'
      BY <1>19, <3>1, RewriteSame DEF RestoreFile, Untouched, FilesAre
    <3>3. QED
      BY <1>19, <3>2 DEF RestoreFile, Goto, NeedsAttention, Untouched, nginxVars, diskVars
  <2>4. PartlyApplied'
    BY <1>19, StageNames
    DEF RestoreFile, NeedsAttention, nginxVars, diskVars, Goto, PartlyApplied, Untouched, Stages, ForwardStages, BeforeWriteStages, RollbackStages, TerminalStages
  <2>5. StageAndFiles'
    BY <1>19, StageNames
    DEF RestoreFile, NeedsAttention, nginxVars, diskVars, Goto, JournalAtPc, StageAndFiles, Untouched, DraftStages, FilesAre, UnfinishedRollback, Stages, ForwardStages, BeforeWriteStages, RollbackStages, TerminalStages
  <2>6. StageAndWorkers'
    BY <1>19, StageNames
    DEF RestoreFile, NeedsAttention, nginxVars, diskVars, Goto, JournalAtPc, StageAndFiles, StageAndWorkers, Untouched, PartlyApplied, DraftStages, EarlyStages, FilesAre, Serves, UnfinishedRollback, Stages, ForwardStages, BeforeWriteStages, RollbackStages, TerminalStages
  <2>7. FailedAnswer'
    BY <1>19, StageNames
    DEF RestoreFile, NeedsAttention, nginxVars, diskVars, Goto, JournalAtPc, FailedAnswer, Untouched, FilesAre, UnfinishedRollback, Stages, ForwardStages, BeforeWriteStages, RollbackStages, TerminalStages
  <2>8. QED
    BY <2>1, <2>2, <2>3, <2>4, <2>5, <2>6, <2>7
<1>20. CASE RestoreDone
  <2>1. JournalAtPc'
    BY <1>20, StageNames, LogEffect, LogErrorEffect
    DEF RestoreDone, Goto, NeedsAttention, nginxVars, logVars, JournalAtPc, StagesInMemory, Untouched, UnfinishedRollback, Stages, ForwardStages, BeforeWriteStages, RollbackStages, TerminalStages
  <2>2. StagesInMemory'
    BY <1>20, StageNames, LogEffect, LogErrorEffect
    DEF RestoreDone, Goto, NeedsAttention, nginxVars, logVars, JournalAtPc, StagesInMemory, ExecutePoints, Stages, ForwardStages, BeforeWriteStages, RollbackStages, TerminalStages
  <2>3. Untouched'
    BY <1>20, StageNames, LogEffect, LogErrorEffect
    DEF RestoreDone, Goto, NeedsAttention, nginxVars, logVars, JournalAtPc, Untouched, FilesAre, Stages, ForwardStages, BeforeWriteStages, RollbackStages, TerminalStages
  <2>4. PartlyApplied'
    BY <1>20, StageNames, LogEffect, LogErrorEffect
    DEF RestoreDone, Goto, NeedsAttention, nginxVars, logVars, PartlyApplied, Untouched, Stages, ForwardStages, BeforeWriteStages, RollbackStages, TerminalStages
  <2>5. StageAndFiles'
    BY <1>20, StageNames, LogEffect, LogErrorEffect
    DEF RestoreDone, Goto, NeedsAttention, nginxVars, logVars, JournalAtPc, StageAndFiles, Untouched, DraftStages, FilesAre, UnfinishedRollback, Stages, ForwardStages, BeforeWriteStages, RollbackStages, TerminalStages
  <2>6. StageAndWorkers'
    BY <1>20, StageNames, LogEffect, LogErrorEffect
    DEF RestoreDone, Goto, NeedsAttention, nginxVars, logVars, JournalAtPc, StageAndFiles, StageAndWorkers, Untouched, PartlyApplied, DraftStages, EarlyStages, FilesAre, Serves, Stages, ForwardStages, BeforeWriteStages, RollbackStages, TerminalStages
  <2>7. FailedAnswer'
    BY <1>20, StageNames, LogEffect, LogErrorEffect
    DEF RestoreDone, Goto, NeedsAttention, nginxVars, logVars, JournalAtPc, FailedAnswer, Untouched, FilesAre, UnfinishedRollback, Stages, ForwardStages, BeforeWriteStages, RollbackStages, TerminalStages
  <2>8. QED
    BY <2>1, <2>2, <2>3, <2>4, <2>5, <2>6, <2>7
<1>21. CASE Retest
  <2>1. JournalAtPc'
    BY <1>21, StageNames, LogEffect, LogErrorEffect
    DEF Retest, Goto, NeedsAttention, nginxVars, logVars, JournalAtPc, StagesInMemory, Untouched, UnfinishedRollback, Stages, ForwardStages, BeforeWriteStages, RollbackStages, TerminalStages
  <2>2. StagesInMemory'
    BY <1>21, StageNames, LogEffect, LogErrorEffect
    DEF Retest, Goto, NeedsAttention, nginxVars, logVars, JournalAtPc, StagesInMemory, ExecutePoints, Stages, ForwardStages, BeforeWriteStages, RollbackStages, TerminalStages
  <2>3. Untouched'
    BY <1>21, StageNames, LogEffect, LogErrorEffect
    DEF Retest, Goto, NeedsAttention, nginxVars, logVars, JournalAtPc, Untouched, FilesAre, Stages, ForwardStages, BeforeWriteStages, RollbackStages, TerminalStages
  <2>4. PartlyApplied'
    BY <1>21, StageNames, LogEffect, LogErrorEffect
    DEF Retest, Goto, NeedsAttention, nginxVars, logVars, PartlyApplied, Untouched, Stages, ForwardStages, BeforeWriteStages, RollbackStages, TerminalStages
  <2>5. StageAndFiles'
    BY <1>21, StageNames, LogEffect, LogErrorEffect
    DEF Retest, Goto, NeedsAttention, nginxVars, logVars, JournalAtPc, StageAndFiles, Untouched, DraftStages, FilesAre, UnfinishedRollback, Stages, ForwardStages, BeforeWriteStages, RollbackStages, TerminalStages
  <2>6. StageAndWorkers'
    BY <1>21, StageNames, LogEffect, LogErrorEffect
    DEF Retest, Goto, NeedsAttention, nginxVars, logVars, JournalAtPc, StageAndFiles, StageAndWorkers, Untouched, PartlyApplied, DraftStages, EarlyStages, FilesAre, Serves, Stages, ForwardStages, BeforeWriteStages, RollbackStages, TerminalStages
  <2>7. FailedAnswer'
    BY <1>21, StageNames, LogEffect, LogErrorEffect
    DEF Retest, Goto, NeedsAttention, nginxVars, logVars, JournalAtPc, FailedAnswer, Untouched, FilesAre, UnfinishedRollback, Stages, ForwardStages, BeforeWriteStages, RollbackStages, TerminalStages
  <2>8. QED
    BY <2>1, <2>2, <2>3, <2>4, <2>5, <2>6, <2>7
<1>22. CASE RollbackReload
  <2>1. JournalAtPc'
    BY <1>22, StageNames
    DEF RollbackReload, Goto, diskVars, callVars, JournalAtPc, StagesInMemory, Untouched, UnfinishedRollback, SendReload, Stages, ForwardStages, BeforeWriteStages, RollbackStages, TerminalStages
  <2>2. StagesInMemory'
    BY <1>22, StageNames
    DEF RollbackReload, Goto, diskVars, callVars, JournalAtPc, StagesInMemory, ExecutePoints, SendReload, Stages, ForwardStages, BeforeWriteStages, RollbackStages, TerminalStages
  <2>3. Untouched'
    BY <1>22, StageNames
    DEF RollbackReload, Goto, diskVars, callVars, JournalAtPc, Untouched, FilesAre, SendReload, Stages, ForwardStages, BeforeWriteStages, RollbackStages, TerminalStages
  <2>4. PartlyApplied'
    BY <1>22, StageNames
    DEF RollbackReload, Goto, diskVars, callVars, PartlyApplied, Untouched, SendReload, Stages, ForwardStages, BeforeWriteStages, RollbackStages, TerminalStages
  <2>5. StageAndFiles'
    BY <1>22, StageNames
    DEF RollbackReload, Goto, diskVars, callVars, JournalAtPc, StageAndFiles, Untouched, DraftStages, FilesAre, UnfinishedRollback, SendReload, Stages, ForwardStages, BeforeWriteStages, RollbackStages, TerminalStages
  <2>6. StageAndWorkers'
    BY <1>22, StageNames
    DEF RollbackReload, Goto, diskVars, callVars, JournalAtPc, StageAndFiles, StageAndWorkers, Untouched, PartlyApplied, DraftStages, EarlyStages, FilesAre, Serves, SendReload, UnfinishedRollback, Stages, ForwardStages, BeforeWriteStages, RollbackStages, TerminalStages
  <2>7. FailedAnswer'
    BY <1>22, StageNames
    DEF RollbackReload, Goto, diskVars, callVars, JournalAtPc, FailedAnswer, Untouched, FilesAre, UnfinishedRollback, SendReload, Stages, ForwardStages, BeforeWriteStages, RollbackStages, TerminalStages
  <2>8. QED
    BY <2>1, <2>2, <2>3, <2>4, <2>5, <2>6, <2>7
<1>23. CASE LogRollbackReload
  <2>1. JournalAtPc'
    BY <1>23, StageNames, LogEffect, LogErrorEffect
    DEF LogRollbackReload, Goto, NeedsAttention, nginxVars, JournalAtPc, StagesInMemory, Untouched, UnfinishedRollback, Stages, ForwardStages, BeforeWriteStages, RollbackStages, TerminalStages
  <2>2. StagesInMemory'
    BY <1>23, StageNames, LogEffect, LogErrorEffect
    DEF LogRollbackReload, Goto, NeedsAttention, nginxVars, JournalAtPc, StagesInMemory, ExecutePoints, Stages, ForwardStages, BeforeWriteStages, RollbackStages, TerminalStages
  <2>3. Untouched'
    BY <1>23, StageNames, LogEffect, LogErrorEffect
    DEF LogRollbackReload, Goto, NeedsAttention, nginxVars, JournalAtPc, Untouched, FilesAre, Stages, ForwardStages, BeforeWriteStages, RollbackStages, TerminalStages
  <2>4. PartlyApplied'
    BY <1>23, StageNames, LogEffect, LogErrorEffect
    DEF LogRollbackReload, Goto, NeedsAttention, nginxVars, PartlyApplied, Untouched, Stages, ForwardStages, BeforeWriteStages, RollbackStages, TerminalStages
  <2>5. StageAndFiles'
    BY <1>23, StageNames, LogEffect, LogErrorEffect
    DEF LogRollbackReload, Goto, NeedsAttention, nginxVars, JournalAtPc, StageAndFiles, Untouched, DraftStages, FilesAre, UnfinishedRollback, Stages, ForwardStages, BeforeWriteStages, RollbackStages, TerminalStages
  <2>6. StageAndWorkers'
    BY <1>23, StageNames, LogEffect, LogErrorEffect
    DEF LogRollbackReload, Goto, NeedsAttention, nginxVars, JournalAtPc, StageAndFiles, StageAndWorkers, Untouched, PartlyApplied, DraftStages, EarlyStages, FilesAre, Serves, Stages, ForwardStages, BeforeWriteStages, RollbackStages, TerminalStages
  <2>7. FailedAnswer'
    BY <1>23, StageNames, LogEffect, LogErrorEffect
    DEF LogRollbackReload, Goto, NeedsAttention, nginxVars, JournalAtPc, FailedAnswer, Untouched, FilesAre, UnfinishedRollback, Stages, ForwardStages, BeforeWriteStages, RollbackStages, TerminalStages
  <2>8. QED
    BY <2>1, <2>2, <2>3, <2>4, <2>5, <2>6, <2>7
<1>24. CASE LogRollbackReloadFailure
  <2>1. JournalAtPc'
    BY <1>24, StageNames, LogEffect, LogErrorEffect
    DEF LogRollbackReloadFailure, NeedsAttention, nginxVars, Goto, JournalAtPc, StagesInMemory, Untouched, UnfinishedRollback, Stages, ForwardStages, BeforeWriteStages, RollbackStages, TerminalStages
  <2>2. StagesInMemory'
    BY <1>24, StageNames, LogEffect, LogErrorEffect
    DEF LogRollbackReloadFailure, NeedsAttention, nginxVars, Goto, JournalAtPc, StagesInMemory, ExecutePoints, Stages, ForwardStages, BeforeWriteStages, RollbackStages, TerminalStages
  <2>3. Untouched'
    BY <1>24, StageNames, LogEffect, LogErrorEffect
    DEF LogRollbackReloadFailure, NeedsAttention, nginxVars, Goto, JournalAtPc, Untouched, FilesAre, Stages, ForwardStages, BeforeWriteStages, RollbackStages, TerminalStages
  <2>4. PartlyApplied'
    BY <1>24, StageNames, LogEffect, LogErrorEffect
    DEF LogRollbackReloadFailure, NeedsAttention, nginxVars, Goto, PartlyApplied, Untouched, Stages, ForwardStages, BeforeWriteStages, RollbackStages, TerminalStages
  <2>5. StageAndFiles'
    BY <1>24, StageNames, LogEffect, LogErrorEffect
    DEF LogRollbackReloadFailure, NeedsAttention, nginxVars, Goto, JournalAtPc, StageAndFiles, Untouched, DraftStages, FilesAre, UnfinishedRollback, Stages, ForwardStages, BeforeWriteStages, RollbackStages, TerminalStages
  <2>6. StageAndWorkers'
    BY <1>24, StageNames, LogEffect, LogErrorEffect
    DEF LogRollbackReloadFailure, NeedsAttention, nginxVars, Goto, JournalAtPc, StageAndFiles, StageAndWorkers, Untouched, PartlyApplied, DraftStages, EarlyStages, FilesAre, Serves, Stages, ForwardStages, BeforeWriteStages, RollbackStages, TerminalStages
  <2>7. FailedAnswer'
    BY <1>24, StageNames, LogEffect, LogErrorEffect
    DEF LogRollbackReloadFailure, NeedsAttention, nginxVars, Goto, JournalAtPc, FailedAnswer, Untouched, FilesAre, UnfinishedRollback, Stages, ForwardStages, BeforeWriteStages, RollbackStages, TerminalStages
  <2>8. QED
    BY <2>1, <2>2, <2>3, <2>4, <2>5, <2>6, <2>7
<1>25. CASE RollbackConfirm
  <2>1. JournalAtPc'
    BY <1>25, StageNames, LogEffect, LogErrorEffect
    DEF RollbackConfirm, NeedsAttention, Return, nginxVars, logVars, Goto, JournalAtPc, StagesInMemory, Untouched, UnfinishedRollback, Stages, ForwardStages, BeforeWriteStages, RollbackStages, TerminalStages
  <2>2. StagesInMemory'
    BY <1>25, StageNames, LogEffect, LogErrorEffect
    DEF RollbackConfirm, NeedsAttention, Return, nginxVars, logVars, Goto, JournalAtPc, StagesInMemory, ExecutePoints, Stages, ForwardStages, BeforeWriteStages, RollbackStages, TerminalStages
  <2>3. Untouched'
    BY <1>25, StageNames, LogEffect, LogErrorEffect
    DEF RollbackConfirm, NeedsAttention, Return, nginxVars, logVars, Goto, JournalAtPc, Untouched, FilesAre, Stages, ForwardStages, BeforeWriteStages, RollbackStages, TerminalStages
  <2>4. PartlyApplied'
    BY <1>25, StageNames, LogEffect, LogErrorEffect
    DEF RollbackConfirm, NeedsAttention, Return, nginxVars, logVars, Goto, PartlyApplied, Untouched, Stages, ForwardStages, BeforeWriteStages, RollbackStages, TerminalStages
  <2>5. StageAndFiles'
    BY <1>25, StageNames, LogEffect, LogErrorEffect
    DEF RollbackConfirm, NeedsAttention, Return, nginxVars, logVars, Goto, JournalAtPc, StageAndFiles, Untouched, DraftStages, FilesAre, UnfinishedRollback, Stages, ForwardStages, BeforeWriteStages, RollbackStages, TerminalStages
  <2>6. StageAndWorkers'
    BY <1>25, StageNames, LogEffect, LogErrorEffect
    DEF RollbackConfirm, NeedsAttention, Return, nginxVars, logVars, Goto, JournalAtPc, StageAndFiles, StageAndWorkers, Untouched, PartlyApplied, DraftStages, EarlyStages, FilesAre, Serves, Stages, ForwardStages, BeforeWriteStages, RollbackStages, TerminalStages
  <2>7. FailedAnswer'
    BY <1>25, StageNames, LogEffect, LogErrorEffect
    DEF RollbackConfirm, NeedsAttention, Return, nginxVars, logVars, Goto, JournalAtPc, FailedAnswer, Untouched, FilesAre, UnfinishedRollback, Stages, ForwardStages, BeforeWriteStages, RollbackStages, TerminalStages
  <2>8. QED
    BY <2>1, <2>2, <2>3, <2>4, <2>5, <2>6, <2>7
<1>26. CASE Attend
  <2>1. JournalAtPc'
    BY <1>26, StageNames, LogEffect, LogErrorEffect
    DEF Attend, Return, nginxVars, JournalAtPc, StagesInMemory, Untouched, UnfinishedRollback, Stages, ForwardStages, BeforeWriteStages, RollbackStages, TerminalStages
  <2>2. StagesInMemory'
    BY <1>26, StageNames, LogEffect, LogErrorEffect
    DEF Attend, Return, nginxVars, JournalAtPc, StagesInMemory, ExecutePoints, Stages, ForwardStages, BeforeWriteStages, RollbackStages, TerminalStages
  <2>3. Untouched'
    BY <1>26, StageNames, LogEffect, LogErrorEffect
    DEF Attend, Return, nginxVars, JournalAtPc, Untouched, FilesAre, Stages, ForwardStages, BeforeWriteStages, RollbackStages, TerminalStages
  <2>4. PartlyApplied'
    BY <1>26, StageNames, LogEffect, LogErrorEffect
    DEF Attend, Return, nginxVars, PartlyApplied, Untouched, Stages, ForwardStages, BeforeWriteStages, RollbackStages, TerminalStages
  <2>5. StageAndFiles'
    BY <1>26, StageNames, LogEffect, LogErrorEffect
    DEF Attend, Return, nginxVars, JournalAtPc, StageAndFiles, Untouched, DraftStages, FilesAre, UnfinishedRollback, Stages, ForwardStages, BeforeWriteStages, RollbackStages, TerminalStages
  <2>6. StageAndWorkers'
    BY <1>26, StageNames, LogEffect, LogErrorEffect
    DEF Attend, Return, nginxVars, JournalAtPc, StageAndFiles, StageAndWorkers, Untouched, PartlyApplied, DraftStages, EarlyStages, FilesAre, Serves, Stages, ForwardStages, BeforeWriteStages, RollbackStages, TerminalStages
  <2>7. FailedAnswer'
    BY <1>26, StageNames, LogEffect, LogErrorEffect
    DEF Attend, Return, nginxVars, JournalAtPc, FailedAnswer, Untouched, FilesAre, UnfinishedRollback, Stages, ForwardStages, BeforeWriteStages, RollbackStages, TerminalStages
  <2>8. QED
    BY <2>1, <2>2, <2>3, <2>4, <2>5, <2>6, <2>7
<1>27. CASE ReadEvidence
  <2>1. JournalAtPc'
    <3>1. /\ journal' = journal
          /\ \/ pc' = "idle" /\ reply'.state = "needs_attention"
             \/ pc' = "dispatch" /\ reply' = reply /\ journal.stage # "none"
      <4>1. journal' = journal
        BY <1>27 DEF ReadEvidence, logVars
      <4>2. Uncertain \/ (Readable /\ Goto("dispatch"))
        BY <1>27 DEF ReadEvidence
      <4>3. CASE Uncertain
        BY <4>1, <4>3 DEF Uncertain, Return
      <4>4. CASE Readable /\ Goto("dispatch")
        BY <4>1, <4>4 DEF Readable, Goto
      <4>5. QED
        BY <4>2, <4>3, <4>4
    <3>2. journal.stage \in Stages \cup {"none"}
      BY <1>0 DEF LogTypeOK, JournalRecord
    <3>3. QED
      BY <3>1, <3>2 DEF JournalAtPc
  <2>2. StagesInMemory'
    <3>1. CASE pc' = "idle"
      BY <3>1 DEF StagesInMemory, ExecutePoints
    <3>2. CASE pc' = "dispatch" /\ LogIsCurrent /\ stages' = events /\ journal' = journal
      BY <3>2 DEF StagesInMemory, ExecutePoints, LogIsCurrent
    <3>3. CASE pc' = "dispatch" /\ Readable /\ stages' = Append(events, journal.stage)
               /\ journal' = journal
      <4>1. events \in Seq(Stages) /\ journal.stage \in Stages
        BY <1>0, <3>3 DEF LogTypeOK, JournalRecord, Readable
      <4>2. stages' # <<>> /\ LastStage(stages') = journal.stage
        BY <3>3, <4>1, LastOfAppend
      <4>3. QED
        BY <3>3, <4>2 DEF StagesInMemory, ExecutePoints
    <3>4. QED
      BY <1>27, <3>1, <3>2, <3>3 DEF ReadEvidence, Goto, Uncertain, Return, logVars
  <2>3. Untouched'
    <3>1. /\ journal' = journal
          /\ \/ pc' = "idle" /\ reply'.state = "needs_attention"
             \/ pc' = "dispatch" /\ reply' = reply /\ journal.stage # "none"
      <4>1. journal' = journal
        BY <1>27 DEF ReadEvidence, logVars
      <4>2. Uncertain \/ (Readable /\ Goto("dispatch"))
        BY <1>27 DEF ReadEvidence
      <4>3. CASE Uncertain
        BY <4>1, <4>3 DEF Uncertain, Return
      <4>4. CASE Readable /\ Goto("dispatch")
        BY <4>1, <4>4 DEF Readable, Goto
      <4>5. QED
        BY <4>2, <4>3, <4>4
    <3>2. UNCHANGED <<dir, applied, backup, files, edited>>
      BY <1>27 DEF ReadEvidence
    <3>3. QED
      BY <1>27, <3>1, <3>2 DEF ReadEvidence, Untouched, FilesAre
  <2>4. PartlyApplied'
    BY <1>27, StageNames, <1>0, LastOfAppend
    DEF ReadEvidence, Goto, Uncertain, nginxVars, logVars, Return, PartlyApplied, Untouched, Stages, ForwardStages, BeforeWriteStages, RollbackStages, TerminalStages
  <2>5. StageAndFiles'
    BY <1>27, StageNames, <1>0, LastOfAppend
    DEF ReadEvidence, Goto, Uncertain, nginxVars, logVars, Return, JournalAtPc, StageAndFiles, Untouched, DraftStages, FilesAre, UnfinishedRollback, Stages, ForwardStages, BeforeWriteStages, RollbackStages, TerminalStages
  <2>6. StageAndWorkers'
    BY <1>27, StageNames, <1>0, LastOfAppend
    DEF ReadEvidence, Goto, Uncertain, nginxVars, logVars, Return, JournalAtPc, StageAndFiles, StageAndWorkers, Untouched, PartlyApplied, DraftStages, EarlyStages, FilesAre, Serves, Stages, ForwardStages, BeforeWriteStages, RollbackStages, TerminalStages
  <2>7. FailedAnswer'
    <3>1. /\ journal' = journal
          /\ \/ pc' = "idle" /\ reply'.state = "needs_attention"
             \/ pc' = "dispatch" /\ reply' = reply /\ journal.stage # "none"
      <4>1. journal' = journal
        BY <1>27 DEF ReadEvidence, logVars
      <4>2. Uncertain \/ (Readable /\ Goto("dispatch"))
        BY <1>27 DEF ReadEvidence
      <4>3. CASE Uncertain
        BY <4>1, <4>3 DEF Uncertain, Return
      <4>4. CASE Readable /\ Goto("dispatch")
        BY <4>1, <4>4 DEF Readable, Goto
      <4>5. QED
        BY <4>2, <4>3, <4>4
    <3>2. QED
      BY <1>27, <3>1 DEF ReadEvidence, FailedAnswer
  <2>8. QED
    BY <2>1, <2>2, <2>3, <2>4, <2>5, <2>6, <2>7
<1>28. CASE Dispatch
  <2>1. JournalAtPc'
    BY <1>28, StageNames
    DEF Dispatch, Goto, NeedsAttention, Return, nginxVars, diskVars, callVars, JournalAtPc, StagesInMemory, Untouched, UnfinishedRollback, Stages, ForwardStages, BeforeWriteStages, RollbackStages, TerminalStages
  <2>2. StagesInMemory'
    BY <1>28, StageNames
    DEF Dispatch, Goto, NeedsAttention, Return, nginxVars, diskVars, callVars, JournalAtPc, StagesInMemory, ExecutePoints, Stages, ForwardStages, BeforeWriteStages, RollbackStages, TerminalStages
  <2>3. Untouched'
    BY <1>28, StageNames
    DEF Dispatch, Goto, NeedsAttention, Return, nginxVars, diskVars, callVars, JournalAtPc, Untouched, FilesAre, Stages, ForwardStages, BeforeWriteStages, RollbackStages, TerminalStages
  <2>4. PartlyApplied'
    BY <1>28, StageNames
    DEF Dispatch, Goto, NeedsAttention, Return, nginxVars, diskVars, callVars, PartlyApplied, Untouched, Stages, ForwardStages, BeforeWriteStages, RollbackStages, TerminalStages
  <2>5. StageAndFiles'
    BY <1>28, StageNames
    DEF Dispatch, Goto, NeedsAttention, Return, nginxVars, diskVars, callVars, JournalAtPc, StageAndFiles, Untouched, DraftStages, FilesAre, UnfinishedRollback, Stages, ForwardStages, BeforeWriteStages, RollbackStages, TerminalStages
  <2>6. StageAndWorkers'
    BY <1>28, StageNames
    DEF Dispatch, Goto, NeedsAttention, Return, nginxVars, diskVars, callVars, JournalAtPc, StageAndFiles, StageAndWorkers, Untouched, PartlyApplied, DraftStages, EarlyStages, FilesAre, Serves, Stages, ForwardStages, BeforeWriteStages, RollbackStages, TerminalStages
  <2>7. FailedAnswer'
    BY <1>28, StageNames
    DEF Dispatch, Goto, NeedsAttention, Return, nginxVars, diskVars, callVars, JournalAtPc, FailedAnswer, Untouched, FilesAre, UnfinishedRollback, Stages, ForwardStages, BeforeWriteStages, RollbackStages, TerminalStages
  <2>8. QED
    BY <2>1, <2>2, <2>3, <2>4, <2>5, <2>6, <2>7
<1>29. CASE Decide
  <2>1. JournalAtPc'
    BY <1>29, StageNames, LogEffect, LogErrorEffect
    DEF Decide, Goto, StartRollback, NeedsAttention, Return, nginxVars, logVars, JournalAtPc, StagesInMemory, Untouched, UnfinishedRollback, ProvenUnwritten, FilesAre, Stages, ForwardStages, BeforeWriteStages, RollbackStages, TerminalStages
  <2>2. StagesInMemory'
    BY <1>29, StageNames, LogEffect, LogErrorEffect
    DEF Decide, Goto, StartRollback, NeedsAttention, Return, nginxVars, logVars, JournalAtPc, StagesInMemory, ExecutePoints, Stages, ForwardStages, BeforeWriteStages, RollbackStages, TerminalStages
  <2>3. Untouched'
    BY <1>29, StageNames, LogEffect, LogErrorEffect
    DEF Decide, Goto, StartRollback, NeedsAttention, Return, nginxVars, logVars, JournalAtPc, Untouched, FilesAre, Stages, ForwardStages, BeforeWriteStages, RollbackStages, TerminalStages
  <2>4. PartlyApplied'
    BY <1>29, StageNames, LogEffect, LogErrorEffect
    DEF Decide, Goto, StartRollback, NeedsAttention, Return, nginxVars, logVars, PartlyApplied, Untouched, Stages, ForwardStages, BeforeWriteStages, RollbackStages, TerminalStages
  <2>5. StageAndFiles'
    BY <1>29, StageNames, LogEffect, LogErrorEffect
    DEF Decide, Goto, StartRollback, NeedsAttention, Return, nginxVars, logVars, JournalAtPc, StageAndFiles, Untouched, DraftStages, FilesAre, UnfinishedRollback, ProvenUnwritten, Stages, ForwardStages, BeforeWriteStages, RollbackStages, TerminalStages
  <2>6. StageAndWorkers'
    BY <1>29, StageNames, LogEffect, LogErrorEffect
    DEF Decide, Goto, StartRollback, NeedsAttention, Return, nginxVars, logVars, JournalAtPc, StageAndFiles, StageAndWorkers, Untouched, PartlyApplied, DraftStages, EarlyStages, FilesAre, Serves, ProvenUnwritten, Stages, ForwardStages, BeforeWriteStages, RollbackStages, TerminalStages
  <2>7. FailedAnswer'
    BY <1>29, StageNames, LogEffect, LogErrorEffect
    DEF Decide, Goto, StartRollback, NeedsAttention, Return, nginxVars, logVars, JournalAtPc, FailedAnswer, Untouched, FilesAre, UnfinishedRollback, ProvenUnwritten, Stages, ForwardStages, BeforeWriteStages, RollbackStages, TerminalStages
  <2>8. QED
    BY <2>1, <2>2, <2>3, <2>4, <2>5, <2>6, <2>7
<1>30. CASE Resume
  <2>1. JournalAtPc'
    BY <1>30, StageNames, LogEffect, LogErrorEffect
    DEF Resume, Goto, StartRollback, NeedsAttention, nginxVars, logVars, JournalAtPc, StagesInMemory, Untouched, UnfinishedRollback, Confirmed, Stages, ForwardStages, BeforeWriteStages, RollbackStages, TerminalStages
  <2>2. StagesInMemory'
    BY <1>30, StageNames, LogEffect, LogErrorEffect
    DEF Resume, Goto, StartRollback, NeedsAttention, nginxVars, logVars, JournalAtPc, StagesInMemory, ExecutePoints, Confirmed, Stages, ForwardStages, BeforeWriteStages, RollbackStages, TerminalStages
  <2>3. Untouched'
    BY <1>30, StageNames, LogEffect, LogErrorEffect
    DEF Resume, Goto, StartRollback, NeedsAttention, nginxVars, logVars, JournalAtPc, Untouched, FilesAre, Confirmed, Stages, ForwardStages, BeforeWriteStages, RollbackStages, TerminalStages
  <2>4. PartlyApplied'
    BY <1>30, StageNames, LogEffect, LogErrorEffect
    DEF Resume, Goto, StartRollback, NeedsAttention, nginxVars, logVars, PartlyApplied, Untouched, Confirmed, Stages, ForwardStages, BeforeWriteStages, RollbackStages, TerminalStages
  <2>5. StageAndFiles'
    BY <1>30, StageNames, LogEffect, LogErrorEffect
    DEF Resume, Goto, StartRollback, NeedsAttention, nginxVars, logVars, JournalAtPc, StageAndFiles, Untouched, DraftStages, FilesAre, UnfinishedRollback, Confirmed, Stages, ForwardStages, BeforeWriteStages, RollbackStages, TerminalStages
  <2>6. StageAndWorkers'
    BY <1>30, StageNames, LogEffect, LogErrorEffect
    DEF Resume, Goto, StartRollback, NeedsAttention, nginxVars, logVars, JournalAtPc, StageAndFiles, StageAndWorkers, Untouched, PartlyApplied, DraftStages, EarlyStages, FilesAre, Serves, Confirmed, Stages, ForwardStages, BeforeWriteStages, RollbackStages, TerminalStages
  <2>7. FailedAnswer'
    BY <1>30, StageNames, LogEffect, LogErrorEffect
    DEF Resume, Goto, StartRollback, NeedsAttention, nginxVars, logVars, JournalAtPc, FailedAnswer, Untouched, FilesAre, UnfinishedRollback, Confirmed, Stages, ForwardStages, BeforeWriteStages, RollbackStages, TerminalStages
  <2>8. QED
    BY <2>1, <2>2, <2>3, <2>4, <2>5, <2>6, <2>7
<1>31. CASE Finish
  <2>1. JournalAtPc'
    BY <1>31, StageNames, LogEffect, LogErrorEffect
    DEF Finish, NeedsAttention, Return, nginxVars, Goto, JournalAtPc, StagesInMemory, Untouched, UnfinishedRollback, Stages, ForwardStages, BeforeWriteStages, RollbackStages, TerminalStages
  <2>2. StagesInMemory'
    BY <1>31, StageNames, LogEffect, LogErrorEffect
    DEF Finish, NeedsAttention, Return, nginxVars, Goto, JournalAtPc, StagesInMemory, ExecutePoints, Stages, ForwardStages, BeforeWriteStages, RollbackStages, TerminalStages
  <2>3. Untouched'
    BY <1>31, StageNames, LogEffect, LogErrorEffect
    DEF Finish, NeedsAttention, Return, nginxVars, Goto, JournalAtPc, Untouched, FilesAre, Stages, ForwardStages, BeforeWriteStages, RollbackStages, TerminalStages
  <2>4. PartlyApplied'
    BY <1>31, StageNames, LogEffect, LogErrorEffect
    DEF Finish, NeedsAttention, Return, nginxVars, Goto, PartlyApplied, Untouched, Stages, ForwardStages, BeforeWriteStages, RollbackStages, TerminalStages
  <2>5. StageAndFiles'
    BY <1>31, StageNames, LogEffect, LogErrorEffect
    DEF Finish, NeedsAttention, Return, nginxVars, Goto, JournalAtPc, StageAndFiles, Untouched, DraftStages, FilesAre, UnfinishedRollback, Stages, ForwardStages, BeforeWriteStages, RollbackStages, TerminalStages
  <2>6. StageAndWorkers'
    BY <1>31, StageNames, LogEffect, LogErrorEffect
    DEF Finish, NeedsAttention, Return, nginxVars, Goto, JournalAtPc, StageAndFiles, StageAndWorkers, Untouched, PartlyApplied, DraftStages, EarlyStages, FilesAre, Serves, Stages, ForwardStages, BeforeWriteStages, RollbackStages, TerminalStages
  <2>7. FailedAnswer'
    BY <1>31, StageNames, LogEffect, LogErrorEffect
    DEF Finish, NeedsAttention, Return, nginxVars, Goto, JournalAtPc, FailedAnswer, Untouched, FilesAre, UnfinishedRollback, Stages, ForwardStages, BeforeWriteStages, RollbackStages, TerminalStages
  <2>8. QED
    BY <2>1, <2>2, <2>3, <2>4, <2>5, <2>6, <2>7
<1>32. CASE Crash
  <2>1. JournalAtPc'
    BY <1>32, StageNames
    DEF Crash, NoReply, nginxVars, diskVars, JournalAtPc, StagesInMemory, Untouched, UnfinishedRollback, Stages, ForwardStages, BeforeWriteStages, RollbackStages, TerminalStages
  <2>2. StagesInMemory'
    BY <1>32, StageNames
    DEF Crash, NoReply, nginxVars, diskVars, JournalAtPc, StagesInMemory, ExecutePoints, Stages, ForwardStages, BeforeWriteStages, RollbackStages, TerminalStages
  <2>3. Untouched'
    BY <1>32, StageNames
    DEF Crash, NoReply, nginxVars, diskVars, JournalAtPc, Untouched, FilesAre, Stages, ForwardStages, BeforeWriteStages, RollbackStages, TerminalStages
  <2>4. PartlyApplied'
    BY <1>32, StageNames
    DEF Crash, NoReply, nginxVars, diskVars, PartlyApplied, Untouched, Stages, ForwardStages, BeforeWriteStages, RollbackStages, TerminalStages
  <2>5. StageAndFiles'
    BY <1>32, StageNames
    DEF Crash, NoReply, nginxVars, diskVars, JournalAtPc, StageAndFiles, Untouched, DraftStages, FilesAre, UnfinishedRollback, Stages, ForwardStages, BeforeWriteStages, RollbackStages, TerminalStages
  <2>6. StageAndWorkers'
    BY <1>32, StageNames
    DEF Crash, NoReply, nginxVars, diskVars, JournalAtPc, StageAndFiles, StageAndWorkers, Untouched, PartlyApplied, DraftStages, EarlyStages, FilesAre, Serves, Stages, ForwardStages, BeforeWriteStages, RollbackStages, TerminalStages
  <2>7. FailedAnswer'
    BY <1>32, StageNames
    DEF Crash, NoReply, nginxVars, diskVars, JournalAtPc, FailedAnswer, Untouched, FilesAre, UnfinishedRollback, Stages, ForwardStages, BeforeWriteStages, RollbackStages, TerminalStages
  <2>8. QED
    BY <2>1, <2>2, <2>3, <2>4, <2>5, <2>6, <2>7
<1>33. CASE Restart
  <2>1. JournalAtPc'
    BY <1>33, StageNames
    DEF Restart, Goto, nginxVars, diskVars, callVars, JournalAtPc, StagesInMemory, Untouched, UnfinishedRollback, Stages, ForwardStages, BeforeWriteStages, RollbackStages, TerminalStages
  <2>2. StagesInMemory'
    BY <1>33, StageNames
    DEF Restart, Goto, nginxVars, diskVars, callVars, JournalAtPc, StagesInMemory, ExecutePoints, Stages, ForwardStages, BeforeWriteStages, RollbackStages, TerminalStages
  <2>3. Untouched'
    BY <1>33, StageNames
    DEF Restart, Goto, nginxVars, diskVars, callVars, JournalAtPc, Untouched, FilesAre, Stages, ForwardStages, BeforeWriteStages, RollbackStages, TerminalStages
  <2>4. PartlyApplied'
    BY <1>33, StageNames
    DEF Restart, Goto, nginxVars, diskVars, callVars, PartlyApplied, Untouched, Stages, ForwardStages, BeforeWriteStages, RollbackStages, TerminalStages
  <2>5. StageAndFiles'
    BY <1>33, StageNames
    DEF Restart, Goto, nginxVars, diskVars, callVars, JournalAtPc, StageAndFiles, Untouched, DraftStages, FilesAre, UnfinishedRollback, Stages, ForwardStages, BeforeWriteStages, RollbackStages, TerminalStages
  <2>6. StageAndWorkers'
    BY <1>33, StageNames
    DEF Restart, Goto, nginxVars, diskVars, callVars, JournalAtPc, StageAndFiles, StageAndWorkers, Untouched, PartlyApplied, DraftStages, EarlyStages, FilesAre, Serves, Stages, ForwardStages, BeforeWriteStages, RollbackStages, TerminalStages
  <2>7. FailedAnswer'
    BY <1>33, StageNames
    DEF Restart, Goto, nginxVars, diskVars, callVars, JournalAtPc, FailedAnswer, Untouched, FilesAre, UnfinishedRollback, Stages, ForwardStages, BeforeWriteStages, RollbackStages, TerminalStages
  <2>8. QED
    BY <2>1, <2>2, <2>3, <2>4, <2>5, <2>6, <2>7
<1>34. CASE NginxReload
  <2>1. JournalAtPc'
    BY <1>34, StageNames
    DEF NginxReload, diskVars, callVars, JournalAtPc, StagesInMemory, Untouched, UnfinishedRollback, Stages, ForwardStages, BeforeWriteStages, RollbackStages, TerminalStages
  <2>2. StagesInMemory'
    BY <1>34, StageNames
    DEF NginxReload, diskVars, callVars, JournalAtPc, StagesInMemory, ExecutePoints, Stages, ForwardStages, BeforeWriteStages, RollbackStages, TerminalStages
  <2>3. Untouched'
    BY <1>34, StageNames
    DEF NginxReload, diskVars, callVars, JournalAtPc, Untouched, FilesAre, Stages, ForwardStages, BeforeWriteStages, RollbackStages, TerminalStages
  <2>4. PartlyApplied'
    BY <1>34, StageNames
    DEF NginxReload, diskVars, callVars, PartlyApplied, Untouched, Stages, ForwardStages, BeforeWriteStages, RollbackStages, TerminalStages
  <2>5. StageAndFiles'
    BY <1>34, StageNames
    DEF NginxReload, diskVars, callVars, JournalAtPc, StageAndFiles, Untouched, DraftStages, FilesAre, UnfinishedRollback, Stages, ForwardStages, BeforeWriteStages, RollbackStages, TerminalStages
  <2>6. StageAndWorkers'
    BY <1>34, StageNames
    DEF NginxReload, diskVars, callVars, JournalAtPc, StageAndFiles, StageAndWorkers, Untouched, PartlyApplied, DraftStages, EarlyStages, FilesAre, Serves, Stages, ForwardStages, BeforeWriteStages, RollbackStages, TerminalStages
  <2>7. FailedAnswer'
    BY <1>34, StageNames
    DEF NginxReload, diskVars, callVars, JournalAtPc, FailedAnswer, Untouched, FilesAre, UnfinishedRollback, Stages, ForwardStages, BeforeWriteStages, RollbackStages, TerminalStages
  <2>8. QED
    BY <2>1, <2>2, <2>3, <2>4, <2>5, <2>6, <2>7
<1>35. CASE NginxExit
  <2>1. JournalAtPc'
    BY <1>35, StageNames
    DEF NginxExit, diskVars, callVars, JournalAtPc, StagesInMemory, Untouched, UnfinishedRollback, Stages, ForwardStages, BeforeWriteStages, RollbackStages, TerminalStages
  <2>2. StagesInMemory'
    BY <1>35, StageNames
    DEF NginxExit, diskVars, callVars, JournalAtPc, StagesInMemory, ExecutePoints, Stages, ForwardStages, BeforeWriteStages, RollbackStages, TerminalStages
  <2>3. Untouched'
    BY <1>35, StageNames
    DEF NginxExit, diskVars, callVars, JournalAtPc, Untouched, FilesAre, Stages, ForwardStages, BeforeWriteStages, RollbackStages, TerminalStages
  <2>4. PartlyApplied'
    BY <1>35, StageNames
    DEF NginxExit, diskVars, callVars, PartlyApplied, Untouched, Stages, ForwardStages, BeforeWriteStages, RollbackStages, TerminalStages
  <2>5. StageAndFiles'
    BY <1>35, StageNames
    DEF NginxExit, diskVars, callVars, JournalAtPc, StageAndFiles, Untouched, DraftStages, FilesAre, UnfinishedRollback, Stages, ForwardStages, BeforeWriteStages, RollbackStages, TerminalStages
  <2>6. StageAndWorkers'
    BY <1>35, StageNames
    DEF NginxExit, diskVars, callVars, JournalAtPc, StageAndFiles, StageAndWorkers, Untouched, PartlyApplied, DraftStages, EarlyStages, FilesAre, Serves, Stages, ForwardStages, BeforeWriteStages, RollbackStages, TerminalStages
  <2>7. FailedAnswer'
    BY <1>35, StageNames
    DEF NginxExit, diskVars, callVars, JournalAtPc, FailedAnswer, Untouched, FilesAre, UnfinishedRollback, Stages, ForwardStages, BeforeWriteStages, RollbackStages, TerminalStages
  <2>8. QED
    BY <2>1, <2>2, <2>3, <2>4, <2>5, <2>6, <2>7
<1>36. CASE NginxStart
  <2>1. JournalAtPc'
    BY <1>36, StageNames
    DEF NginxStart, diskVars, callVars, JournalAtPc, StagesInMemory, Untouched, UnfinishedRollback, Stages, ForwardStages, BeforeWriteStages, RollbackStages, TerminalStages
  <2>2. StagesInMemory'
    BY <1>36, StageNames
    DEF NginxStart, diskVars, callVars, JournalAtPc, StagesInMemory, ExecutePoints, Stages, ForwardStages, BeforeWriteStages, RollbackStages, TerminalStages
  <2>3. Untouched'
    BY <1>36, StageNames
    DEF NginxStart, diskVars, callVars, JournalAtPc, Untouched, FilesAre, Stages, ForwardStages, BeforeWriteStages, RollbackStages, TerminalStages
  <2>4. PartlyApplied'
    BY <1>36, StageNames
    DEF NginxStart, diskVars, callVars, PartlyApplied, Untouched, Stages, ForwardStages, BeforeWriteStages, RollbackStages, TerminalStages
  <2>5. StageAndFiles'
    BY <1>36, StageNames
    DEF NginxStart, diskVars, callVars, JournalAtPc, StageAndFiles, Untouched, DraftStages, FilesAre, UnfinishedRollback, Stages, ForwardStages, BeforeWriteStages, RollbackStages, TerminalStages
  <2>6. StageAndWorkers'
    BY <1>36, StageNames
    DEF NginxStart, diskVars, callVars, JournalAtPc, StageAndFiles, StageAndWorkers, Untouched, PartlyApplied, DraftStages, EarlyStages, FilesAre, Serves, Stages, ForwardStages, BeforeWriteStages, RollbackStages, TerminalStages
  <2>7. FailedAnswer'
    BY <1>36, StageNames
    DEF NginxStart, diskVars, callVars, JournalAtPc, FailedAnswer, Untouched, FilesAre, UnfinishedRollback, Stages, ForwardStages, BeforeWriteStages, RollbackStages, TerminalStages
  <2>8. QED
    BY <2>1, <2>2, <2>3, <2>4, <2>5, <2>6, <2>7
<1>37. CASE Edit
  <2>1. JournalAtPc'
    BY <1>37, StageNames
    DEF Edit, nginxVars, diskVars, callVars, JournalAtPc, StagesInMemory, Untouched, UnfinishedRollback, Stages, ForwardStages, BeforeWriteStages, RollbackStages, TerminalStages
  <2>2. StagesInMemory'
    BY <1>37, StageNames
    DEF Edit, nginxVars, diskVars, callVars, JournalAtPc, StagesInMemory, ExecutePoints, Stages, ForwardStages, BeforeWriteStages, RollbackStages, TerminalStages
  <2>3. Untouched'
    BY <1>37, StageNames
    DEF Edit, nginxVars, diskVars, callVars, JournalAtPc, Untouched, FilesAre, Stages, ForwardStages, BeforeWriteStages, RollbackStages, TerminalStages
  <2>4. PartlyApplied'
    BY <1>37, StageNames
    DEF Edit, nginxVars, diskVars, callVars, PartlyApplied, Untouched, Stages, ForwardStages, BeforeWriteStages, RollbackStages, TerminalStages
  <2>5. StageAndFiles'
    BY <1>37, StageNames
    DEF Edit, nginxVars, diskVars, callVars, JournalAtPc, StageAndFiles, Untouched, DraftStages, FilesAre, UnfinishedRollback, Stages, ForwardStages, BeforeWriteStages, RollbackStages, TerminalStages
  <2>6. StageAndWorkers'
    BY <1>37, StageNames
    DEF Edit, nginxVars, diskVars, callVars, JournalAtPc, StageAndFiles, StageAndWorkers, Untouched, PartlyApplied, DraftStages, EarlyStages, FilesAre, Serves, Stages, ForwardStages, BeforeWriteStages, RollbackStages, TerminalStages
  <2>7. FailedAnswer'
    BY <1>37, StageNames
    DEF Edit, nginxVars, diskVars, callVars, JournalAtPc, FailedAnswer, Untouched, FilesAre, UnfinishedRollback, Stages, ForwardStages, BeforeWriteStages, RollbackStages, TerminalStages
  <2>8. QED
    BY <2>1, <2>2, <2>3, <2>4, <2>5, <2>6, <2>7
<1>38. CASE UNCHANGED vars
  BY <1>38 DEF vars, JournalAtPc, StagesInMemory, Untouched, PartlyApplied, StageAndFiles, StageAndWorkers, FailedAnswer, FilesAre, Serves
<1>39. QED
  BY <1>1, <1>2, <1>3, <1>4, <1>5, <1>6, <1>7, <1>8, <1>9, <1>10, <1>11, <1>12, <1>13, <1>14, <1>15, <1>16, <1>17, <1>18, <1>19, <1>20, <1>21, <1>22, <1>23, <1>24, <1>25, <1>26, <1>27, <1>28, <1>29, <1>30, <1>31, <1>32, <1>33, <1>34, <1>35, <1>36, <1>37, <1>38
  DEF Next, AgentStep, PublishStep, RollbackStep, RecoverStep, EnvironmentStep

\* IInv holds before the Agent has seen the release.
LEMMA InvariantInit == Init => IInv
<1> SUFFICES ASSUME Init PROVE IInv
  OBVIOUS
<1>1. TypeOK
  BY InitTyped
<1>2. JournalAtPc /\ StagesInMemory /\ Untouched
  BY DEF Init, NoReply, JournalAtPc, StagesInMemory, Untouched, ExecutePoints, FilesAre
<1>3. PartlyApplied /\ StageAndFiles
  BY DEF Init, PartlyApplied, StageAndFiles, DraftStages
<1>4. StageAndWorkers /\ FailedAnswer
  BY DEF Init, NoReply, StageAndWorkers, FailedAnswer, Serves, DraftStages, EarlyStages,
         ForwardStages, BeforeWriteStages
<1>5. QED
  BY <1>1, <1>2, <1>3, <1>4 DEF IInv

\* At every control point of ExecuteRelease, rollbackRelease and RecoverRelease, and after
\* every crash between two of their writes, the journal, the stages in memory, production
\* and the workers stand to each other as IInv says.
THEOREM Invariance == Spec => []IInv
BY InvariantInit, InvariantStep, PTL DEF Spec

-------------------------------------------------------------------------------
\* Whatever crashes and recoveries a release went through, a journal that says
\* "committed" vouches for the files and for the workers.
THEOREM CommittedIsServed == Spec => []CommittedServesDraft
<1>1. IInv => CommittedServesDraft
  BY DEF IInv, StageAndFiles, StageAndWorkers, CommittedServesDraft, DraftStages, FilesAre, Serves
<1>2. QED
  BY <1>1, Invariance, PTL

\* A release that failed before writing, in its own words or in a recovery's, left
\* production and the workers alone.
THEOREM FailedIsHarmless == Spec => []FailedLeavesProduction
<1>1. IInv => FailedLeavesProduction
  <2> SUFFICES ASSUME IInv, journal.stage = "failed" \/ reply.state = "failed", ~edited
               PROVE  files = Production /\ (running = Production \/ master = "down")
    BY DEF FailedLeavesProduction
  <2>1. CASE journal.stage = "failed"
    BY <2>1 DEF IInv, StageAndFiles, StageAndWorkers, FilesAre, Serves
  <2>2. CASE applied = {} /\ journal.stage \in BeforeWriteStages \cup {"none"}
    BY <2>2 DEF IInv, Untouched, StageAndWorkers, EarlyStages, FilesAre, Serves
  <2>3. QED
    BY <2>1, <2>2 DEF IInv, FailedAnswer
<1>2. QED
  BY <1>1, Invariance, PTL

\* An interrupted and resumed rollback ends with every file of the backup in place.
THEOREM RolledBackIsRestored == Spec => []RolledBackRestoresFiles
<1>1. IInv => RolledBackRestoresFiles
  BY DEF IInv, StageAndFiles, RolledBackRestoresFiles, FilesAre
<1>2. QED
  BY <1>1, Invariance, PTL

\* No file changes before there is a verified backup and a journal that says so.
THEOREM EvidenceComesFirst == Spec => []WriteAheadEvidence
<1>1. IInv => WriteAheadEvidence
  <2> SUFFICES ASSUME IInv, applied # {}
               PROVE  backup /\ StageOrder(journal.stage) >= StageOrder("files_applying")
    BY DEF WriteAheadEvidence
  <2>1. backup /\ journal.stage \notin BeforeWriteStages \cup {"none"}
    BY DEF IInv, Untouched
  <2>2. journal.stage \in Stages
    BY <2>1 DEF IInv, TypeOK
  <2>3. QED
    BY <2>1, <2>2, BeforeWriteIsEarly
<1>2. QED
  BY <1>1, Invariance, PTL

\* A publication is safe at every crash point: evidence before the first write, and
\* verdicts that are true of production (ExecuteRelease, RecoverRelease).
THEOREM PublicationIsSafe == Spec => []PublishIsSafe
<1>1. WriteAheadEvidence /\ CommittedServesDraft /\ FailedLeavesProduction /\ RolledBackRestoresFiles
        => PublishIsSafe
  BY DEF PublishIsSafe
<1>2. QED
  BY <1>1, EvidenceComesFirst, CommittedIsServed, FailedIsHarmless, RolledBackIsRestored, PTL
-------------------------------------------------------------------------------
(* The refinement: ReleaseAgent implements PublishOutcome, its evidence endures, and *)
(* it implements AgentService as long as nobody else edits production.               *)

\* What no step does, an edit by somebody else apart: write production anywhere but in
\* the two loops, or take a verdict back other than by doubting it.
VerdictStays ==
  /\ UNCHANGED edited
  /\ files' # files =>
       /\ pc \in {"apply", "restore"} /\ pc' \in {"apply", "restore", "rollback"}
       /\ UNCHANGED <<events, torn, stages>>
  /\ VerdictGiven => VerdictGiven' /\ journal'.stage \in {journal.stage, "needs_attention"}

\* Every step other than an edit by others leaves "edited" alone, writes production only
\* in the two loops, and takes no verdict back other than by doubting it.
LEMMA OnlyEditsDiffer ==
  ASSUME IInv, [Next]_vars, ~Edit
  PROVE  VerdictStays
<1>0. TypeOK /\ LogTypeOK /\ JournalAtPc /\ Untouched
  BY TypeParts DEF IInv
<1> USE DEF VerdictStays, VerdictGiven, TerminalStages
<1>1. CASE Execute
  BY <1>1, <1>0 DEF Execute, Goto, nginxVars, logVars, Untouched
<1>2. CASE Recover
  BY <1>2 DEF Recover, Goto, nginxVars, diskVars
<1>3. CASE Recheck
  BY <1>3 DEF Recheck, Goto, Abandon, nginxVars, Return
<1>4. CASE Inspect
  BY <1>4 DEF Inspect, Goto, Abandon, Return
<1>5. CASE Backup
  BY <1>5 DEF Backup, Goto, Return, nginxVars
<1>6. CASE Validate
  BY <1>6 DEF Validate, Goto, Abandon, nginxVars, Return
<1>7. CASE Begin
  BY <1>7 DEF Begin, Goto, Abandon, nginxVars, Return
<1>8. CASE PreCheck
  BY <1>8 DEF PreCheck, Goto, StartRollback, nginxVars, diskVars
<1>9. CASE ApplyFile
  BY <1>9 DEF ApplyFile, StartRollback, nginxVars, Goto
<1>10. CASE ApplyDone
  BY <1>10 DEF ApplyDone, Goto, StartRollback, nginxVars, logVars
<1>11. CASE Test
  BY <1>11 DEF Test, Goto, StartRollback, nginxVars, logVars
<1>12. CASE Reload
  BY <1>12 DEF Reload, SendReload, diskVars, callVars, Goto
<1>13. CASE LogReload
  BY <1>13 DEF LogReload, Goto, StartRollback, nginxVars
<1>14. CASE LogReloadFailure
  BY <1>14 DEF LogReloadFailure, StartRollback, nginxVars, Goto
<1>15. CASE Confirm
  BY <1>15 DEF Confirm, Goto, StartRollback, nginxVars, logVars
<1>16. CASE Commit
  BY <1>16 DEF Commit, StartRollback, Return, nginxVars, Goto
<1>17. CASE Rollback
  BY <1>17 DEF Rollback, Goto, NeedsAttention, nginxVars, logVars
<1>18. CASE Verify
  BY <1>18 DEF Verify, Goto, NeedsAttention, nginxVars, diskVars
<1>19. CASE RestoreFile
  BY <1>19 DEF RestoreFile, NeedsAttention, nginxVars, diskVars, Goto
<1>20. CASE RestoreDone
  BY <1>20 DEF RestoreDone, Goto, NeedsAttention, nginxVars, logVars
<1>21. CASE Retest
  BY <1>21 DEF Retest, Goto, NeedsAttention, nginxVars, logVars
<1>22. CASE RollbackReload
  BY <1>22 DEF RollbackReload, Goto, SendReload, diskVars, callVars
<1>23. CASE LogRollbackReload
  BY <1>23 DEF LogRollbackReload, Goto, NeedsAttention, nginxVars
<1>24. CASE LogRollbackReloadFailure
  BY <1>24 DEF LogRollbackReloadFailure, NeedsAttention, nginxVars, Goto
<1>25. CASE RollbackConfirm
  BY <1>25 DEF RollbackConfirm, NeedsAttention, Return, nginxVars, logVars, Goto
<1>26. CASE Attend
  BY <1>26, <1>0, LogEffect, LogErrorEffect, StageNames DEF Attend, Return, nginxVars
<1>27. CASE ReadEvidence
  BY <1>27 DEF ReadEvidence, Goto, nginxVars, logVars, Uncertain, Return
<1>28. CASE Dispatch
  BY <1>28 DEF Dispatch, Goto, NeedsAttention, Return, nginxVars, diskVars, callVars
<1>29. CASE Decide
  BY <1>29 DEF Decide, Goto, StartRollback, NeedsAttention, Return, nginxVars, logVars
<1>30. CASE Resume
  BY <1>30 DEF Resume, Goto, StartRollback, NeedsAttention, nginxVars, logVars
<1>31. CASE Finish
  BY <1>31 DEF Finish, NeedsAttention, Return, nginxVars, Goto
<1>32. CASE Crash
  BY <1>32 DEF Crash, nginxVars, diskVars
<1>33. CASE Restart
  BY <1>33 DEF Restart, Goto, nginxVars, diskVars, callVars
<1>34. CASE NginxReload
  BY <1>34 DEF NginxReload, diskVars, callVars
<1>35. CASE NginxExit
  BY <1>35 DEF NginxExit, diskVars, callVars
<1>36. CASE NginxStart
  BY <1>36 DEF NginxStart, diskVars, callVars
<1>37. CASE UNCHANGED vars
  BY <1>37 DEF vars
<1>38. QED
  BY <1>1, <1>2, <1>3, <1>4, <1>5, <1>6, <1>7, <1>8, <1>9, <1>10, <1>11, <1>12, <1>13, <1>14, <1>15, <1>16, <1>17, <1>18, <1>19, <1>20, <1>21, <1>22, <1>23, <1>24, <1>25, <1>26, <1>27, <1>28, <1>29, <1>30, <1>31, <1>32, <1>33, <1>34, <1>35, <1>36, <1>37
  DEF Next, AgentStep, PublishStep, RollbackStep, RecoverStep, EnvironmentStep

\* A step of the Agent is a step of the promise or leaves what it sees as it is.
LEMMA OutcomeStep ==
  ASSUME IInv, IInv', [Next]_vars
  PROVE  [Outcome!OutcomeNext]_<<Content, Verdict, edited>>
<1>1. Content' \in {"production", "draft", "other"}
  BY DEF Content
<1>2. CASE Edit
  <2>1. edited' = TRUE /\ Verdict' = Verdict
    BY <1>2 DEF Edit, Verdict, VerdictGiven, diskVars
  <2>2. QED
    BY <1>1, <2>1 DEF Outcome!OutcomeNext, Outcome!EditByOthers
<1>3. CASE ~Edit
  <2>1. VerdictStays
    BY <1>3, OnlyEditsDiffer
  <2>2. CASE VerdictGiven
    <3>1. files' = files /\ Content' = Content
      BY <2>1, <2>2 DEF VerdictStays, VerdictGiven, Content
    <3>2. Verdict' \in {Verdict, "needs_attention"}
      BY <2>1, <2>2 DEF VerdictStays, Verdict
    <3>3. QED
      BY <2>1, <3>1, <3>2 DEF VerdictStays, Outcome!OutcomeNext, Outcome!Doubt
  <2>3. CASE ~VerdictGiven /\ ~VerdictGiven'
    BY <1>1, <2>1, <2>3 DEF VerdictStays, Verdict, Outcome!OutcomeNext, Outcome!Work
  <2>4. CASE ~VerdictGiven /\ VerdictGiven'
    <3>1. files' = files /\ Content' = Content
      BY <2>1, <2>4 DEF VerdictStays, VerdictGiven, Content
    <3>2. CASE journal'.stage = "needs_attention"
      BY <2>1, <2>4, <3>1, <3>2 DEF VerdictStays, Verdict, Outcome!OutcomeNext, Outcome!Doubt
    <3>3. CASE journal'.stage = "committed"
      <4>1. edited \/ files = Draft
        BY <2>1, <3>1, <3>3 DEF IInv, StageAndFiles, DraftStages, FilesAre, VerdictStays
      <4>2. edited \/ Content = "draft"
        BY <4>1, ConfigurationAssumption DEF Content
      <4>3. QED
        BY <2>1, <2>4, <3>1, <3>3, <4>2
        DEF VerdictStays, Verdict, Outcome!OutcomeNext, Outcome!Settle, Outcome!VouchesFor
    <3>4. CASE journal'.stage \in {"rolled_back", "failed"}
      <4>1. edited \/ files = Production
        BY <2>1, <3>1, <3>4 DEF IInv, StageAndFiles, FilesAre, VerdictStays
      <4>2. edited \/ Content = "production"
        BY <4>1, ConfigurationAssumption DEF Content
      <4>3. QED
        BY <2>1, <2>4, <3>1, <3>4, <4>2
        DEF VerdictStays, Verdict, Outcome!OutcomeNext, Outcome!Settle, Outcome!VouchesFor
    <3>5. QED
      BY <2>4, <3>2, <3>3, <3>4 DEF VerdictGiven, TerminalStages
  <2>5. QED
    BY <2>2, <2>3, <2>4
<1>4. QED
  BY <1>2, <1>3

\* The Agent keeps its promise about every release, however it was interrupted.
THEOREM PromiseKept == Spec => KeepsPromise
<1>1. Init => Outcome!OutcomeInit
  BY ConfigurationAssumption DEF Init, Outcome!OutcomeInit, Content, Verdict, VerdictGiven, TerminalStages
<1>2. IInv /\ IInv' /\ [Next]_vars => [Outcome!OutcomeNext]_(Outcome!outcomeVars)
  BY OutcomeStep DEF Outcome!outcomeVars
<1>3. QED
  BY <1>1, <1>2, Invariance, PTL DEF Spec, KeepsPromise, Outcome!OutcomeSpec

-------------------------------------------------------------------------------
(* What the Agent has on disk about a release stays in order: EvidenceInv is   *)
(* preserved by every step, so what was answered can be asked for again.       *)

\* releaseStageOrder of every stage that the proofs below compare.
LEMMA OrderFacts ==
  /\ StageOrder("rechecking") = 1 /\ StageOrder("backup_creating") = 2
  /\ StageOrder("backup_verified") = 3 /\ StageOrder("candidate_validated") = 4
  /\ StageOrder("files_applying") = 5 /\ StageOrder("files_applied") = 6
  /\ StageOrder("production_validated") = 7 /\ StageOrder("reload_requested") = 8
  /\ StageOrder("runtime_confirmed") = 9 /\ StageOrder("committed") = 10
  /\ StageOrder("rollback_applying") = 20 /\ StageOrder("rollback_files_restored") = 21
  /\ StageOrder("rollback_validated") = 22 /\ StageOrder("rollback_reload_requested") = 23
  /\ StageOrder("rolled_back") = 24 /\ StageOrder("failed") = 30
  /\ StageOrder("needs_attention") = 31
BY DEF StageOrder

\* Every stage has a place in the order, and the forward stages come first.
LEMMA OrderBounds ==
  /\ \A stage \in Stages : StageOrder(stage) \in Nat /\ StageOrder(stage) <= 31
  /\ \A stage \in ForwardStages : StageOrder(stage) <= 10
BY DEF StageOrder, Stages, ForwardStages, BeforeWriteStages, RollbackStages

\* The stage that AgentService expects after each stage of a publication.
LEMMA Steps ==
  /\ "backup_creating" \in Service!NextStages("rechecking")
  /\ "backup_verified" \in Service!NextStages("backup_creating")
  /\ "candidate_validated" \in Service!NextStages("backup_verified")
  /\ "files_applying" \in Service!NextStages("candidate_validated")
  /\ "files_applied" \in Service!NextStages("files_applying")
  /\ "production_validated" \in Service!NextStages("files_applied")
  /\ "reload_requested" \in Service!NextStages("production_validated")
  /\ "runtime_confirmed" \in Service!NextStages("reload_requested")
  /\ "committed" \in Service!NextStages("runtime_confirmed")
BY DEF Service!NextStages, Service!StageOrder, Service!ForwardStages, Service!BeforeWriteStages

\* The stage that AgentService expects after each stage of a rollback.
LEMMA RollbackSteps ==
  /\ "rollback_files_restored" \in Service!NextStages("rollback_applying")
  /\ "rollback_validated" \in Service!NextStages("rollback_files_restored")
  /\ "rollback_reload_requested" \in Service!NextStages("rollback_validated")
  /\ "rolled_back" \in Service!NextStages("rollback_validated")
  /\ "rolled_back" \in Service!NextStages("rollback_reload_requested")
BY DEF Service!NextStages, Service!StageOrder, Service!RollbackStages

\* When AgentService accepts a rollback, a failure or doubt.
LEMMA OtherSteps ==
  ASSUME NEW stage \in Stages
  PROVE  /\ stage \in Service!WriteStages \cup {"committed"} =>
              "rollback_applying" \in Service!NextStages(stage)
         /\ stage \in BeforeWriteStages \cup {"files_applying"} => "failed" \in Service!NextStages(stage)
         /\ stage # "needs_attention" => "needs_attention" \in Service!NextStages(stage)
BY DEF Service!NextStages, Service!BeforeWriteStages, BeforeWriteStages

\* The instance's copies of the shared vocabulary are the Agent's.
LEMMA SharedWords ==
  /\ Service!BeforeWriteStages = BeforeWriteStages /\ Service!ForwardStages = ForwardStages
  /\ Service!RollbackStages = RollbackStages /\ Service!Stages = Stages
  /\ Service!ReleaseStates = ReleaseStates
  /\ \A log : Service!LastStage(log) = LastStage(log)
  /\ \A stage : Service!StageOrder(stage) = StageOrder(stage)
BY DEF Service!BeforeWriteStages, BeforeWriteStages, Service!ForwardStages, ForwardStages,
       Service!RollbackStages, RollbackStages, Service!Stages, Stages, Service!ReleaseStates,
       ReleaseStates, Service!LastStage, LastStage, Service!StageOrder, StageOrder

\* The stage logged next is a later one.
LEMMA NextIsLater ==
  ASSUME NEW stage \in Stages, NEW next \in Service!NextStages(stage)
  PROVE  next \in Stages /\ StageOrder(stage) <= StageOrder(next)
<1>1. StageOrder(stage) \in Nat /\ StageOrder(stage) <= 31
  BY OrderBounds
<1>2. CASE next = "needs_attention"
  BY <1>1, <1>2, OrderFacts, StageNames
<1>3. CASE next = "failed" /\ stage \in BeforeWriteStages \cup {"files_applying"}
  BY <1>1, <1>3, OrderFacts, OrderBounds, StageNames DEF ForwardStages
<1>4. CASE next = "rollback_applying" /\ stage \in Service!WriteStages \cup {"committed"}
  BY <1>4, OrderFacts, StageNames DEF Service!WriteStages
<1>5. CASE next = "rolled_back" /\ stage = "rollback_validated"
  BY <1>5, OrderFacts, StageNames
<1>6. CASE next \in ForwardStages \cup RollbackStages /\ StageOrder(next) = StageOrder(stage) + 1
  BY <1>1, <1>6 DEF Stages
<1>7. QED
  BY <1>2, <1>3, <1>4, <1>5, <1>6, SharedWords DEF Service!NextStages

\* So is every successor of a log.
LEMMA SuccessorIsLater ==
  ASSUME NEW log \in Seq(Stages), NEW disturbed, NEW next \in Service!Successors(log, disturbed)
  PROVE  /\ next \in Stages
         /\ log = <<>> => next = "rechecking"
         /\ log # <<>> => StageOrder(LastStage(log)) <= StageOrder(next)
<1>1. CASE log = <<>>
  BY <1>1, StageNames DEF Service!Successors
<1>2. CASE log # <<>>
  <2>1. LastStage(log) \in Stages
    BY <1>2 DEF LastStage
  <2>2. CASE next \in Service!NextStages(LastStage(log))
    BY <1>2, <2>1, <2>2, NextIsLater
  <2>3. CASE next = "rollback_applying" /\ LastStage(log) \in BeforeWriteStages
    <3>1. StageOrder(LastStage(log)) \in Nat /\ StageOrder(LastStage(log)) <= 10
      BY <2>1, <2>3, OrderBounds DEF ForwardStages
    <3>2. QED
      BY <1>2, <2>3, <3>1, OrderFacts, StageNames
  <2>4. QED
    BY <1>2, <2>2, <2>3, SharedWords DEF Service!Successors
<1>3. QED
  BY <1>1, <1>2

\* Edits by others take no successor away.
LEMMA SuccessorsGrow ==
  ASSUME NEW log, NEW before, NEW after, before => after
  PROVE  Service!Successors(log, before) \subseteq Service!Successors(log, after)
BY DEF Service!Successors

\* A log in order stays so when a stage is added that does not step back.
LEMMA InOrderAppend ==
  ASSUME NEW log \in Seq(Stages), NEW stage \in Stages, InOrder(log),
         log # <<>> => StageOrder(LastStage(log)) <= StageOrder(stage)
  PROVE  InOrder(Append(log, stage))
<1> DEFINE longer == Append(log, stage)
<1>1. Len(log) \in Nat /\ DOMAIN log = 1..Len(log) /\ DOMAIN longer = 1..(Len(log) + 1)
  OBVIOUS
<1>2. \A i \in 1..Len(log) : longer[i] = log[i] /\ log[i] \in Stages
  OBVIOUS
<1>3. longer[Len(log) + 1] = stage
  OBVIOUS
<1> HIDE DEF longer
<1> SUFFICES ASSUME NEW i \in DOMAIN longer, NEW j \in DOMAIN longer, i < j
             PROVE  StageOrder(longer[i]) <= StageOrder(longer[j])
  BY DEF InOrder, longer
<1>4. i \in 1..Len(log)
  BY <1>1
<1>5. CASE j \in 1..Len(log)
  BY <1>1, <1>2, <1>4, <1>5 DEF InOrder
<1>6. CASE j = Len(log) + 1
  <2>1. log # <<>> /\ Len(log) \in 1..Len(log)
    BY <1>1, <1>4
  <2>2. StageOrder(log[i]) <= StageOrder(log[Len(log)])
    <3>1. CASE i = Len(log)
      <4>1. log[i] \in Stages
        BY <1>2, <1>4
      <4>2. StageOrder(log[i]) \in Nat
        BY <4>1, OrderBounds
      <4>3. QED
        BY <3>1, <4>2
    <3>2. CASE i < Len(log)
      BY <1>1, <1>4, <2>1, <3>2 DEF InOrder
    <3>3. QED
      BY <1>1, <1>4, <3>1, <3>2
  <2>3. StageOrder(log[Len(log)]) <= StageOrder(stage)
    BY <2>1 DEF LastStage
  <2>4. /\ StageOrder(log[i]) \in Nat /\ StageOrder(log[Len(log)]) \in Nat /\ StageOrder(stage) \in Nat
    <3>1. log[i] \in Stages /\ log[Len(log)] \in Stages
      BY <1>2, <1>4, <2>1
    <3>2. QED
      BY <3>1, OrderBounds
  <2>5. StageOrder(log[i]) <= StageOrder(stage)
    BY <2>2, <2>3, <2>4
  <2>6. QED
    BY <1>2, <1>3, <1>4, <1>6, <2>5
<1>7. QED
  BY <1>1, <1>5, <1>6

\* A stage the call may log now: it follows what the call knows, and what the log says as far as that
\* can be read; the call goes forward only if the two are the same.
MayLog(stage) ==
  /\ stage \in Service!Successors(stages, edited)
  /\ ~torn => stage \in Service!Successors(events, edited)
  /\ torn \/ stages # events => stage \notin ForwardStages

\* The log grows by a stage that may be logged.
LEMMA GrownInOrder ==
  ASSUME LogTypeOK, InOrder(events), NEW stage \in Service!Successors(events, edited)
  PROVE  /\ InOrder(Append(events, stage)) /\ Append(events, stage) # <<>>
         /\ LastStage(Append(events, stage)) = stage /\ stage \in Stages
BY SuccessorIsLater, InOrderAppend, LastOfAppend DEF LogTypeOK

\* appendStage, when both writes succeed, keeps log, journal and memory in step, or makes a log that
\* already was ahead unreadable.
LEMMA RecordIsLogged ==
  ASSUME LogTypeOK, EvidenceAgrees, NEW record \in JournalRecord, NEW stage \in Stages,
         record.stage = stage, MayLog(stage), LogWith(record, stage), UNCHANGED edited
  PROVE  /\ EvidenceAgrees' /\ journal' = record
         /\ stages' # <<>> /\ LastStage(stages') = stage
         /\ torn' \/ stages' = events'
         /\ ~torn /\ stages = events => ~torn'
<1>1. /\ stages' = Append(stages, stage) /\ journal' = record
      /\ stages' # <<>> /\ LastStage(stages') = stage
  BY LastOfAppend DEF LogTypeOK, LogWith
<1>2. CASE torn \/ events # stages
  BY <1>1, <1>2 DEF LogWith, AppendEvent, EvidenceAgrees
<1>3. CASE ~torn /\ events = stages
  <2>1. events' = Append(events, stage) /\ torn' = torn
    BY <1>3 DEF LogWith, AppendEvent
  <2>2. InOrder(events') /\ events' # <<>> /\ LastStage(events') = stage
    BY <1>3, <2>1, GrownInOrder DEF MayLog, EvidenceAgrees
  <2>3. QED
    BY <1>1, <1>3, <2>1, <2>2 DEF EvidenceAgrees
<1>4. QED
  BY <1>2, <1>3

\* appendStage, when it returns an error, leaves the journal one step ahead of the log at most, and the
\* log one stage ahead of what the call knows.
LEMMA RecordIsLost ==
  ASSUME LogTypeOK, EvidenceAgrees, NEW record \in JournalRecord, NEW stage \in Stages,
         record.stage = stage, MayLog(stage), LogErrorWith(record, stage), UNCHANGED edited
  PROVE  /\ EvidenceAgrees' /\ stages' = stages /\ journal' \in {journal, record}
         /\ torn => torn'
         /\ \/ torn' \/ events' = events
            \/ stages = events /\ events' # <<>> /\ LastStage(events') = stage
<1>1. stages' = stages /\ journal' \in {journal, record}
  BY DEF LogErrorWith, logVars
<1>2. CASE UNCHANGED logVars
  BY <1>1, <1>2 DEF EvidenceAgrees, OneUnseen, logVars
<1>3. CASE journal' = record /\ torn' \in {torn, TRUE} /\ UNCHANGED events
  <2>1. torn' = torn => EvidenceAgrees'
    BY <1>1, <1>3, SuccessorIsLater DEF EvidenceAgrees, OneUnseen, MayLog, LogTypeOK
  <2>2. QED
    BY <1>1, <1>3, <2>1 DEF EvidenceAgrees, LogTypeOK
<1>4. CASE journal' = record /\ AppendEvent(stage)
  <2>1. CASE torn \/ events # stages
    BY <1>1, <1>4, <2>1 DEF AppendEvent, EvidenceAgrees
  <2>2. CASE ~torn /\ events = stages
    <3>1. events' = Append(events, stage) /\ torn' = torn
      BY <1>4, <2>2 DEF AppendEvent
    <3>2. InOrder(events') /\ events' # <<>> /\ LastStage(events') = stage
      BY <2>2, <3>1, GrownInOrder DEF MayLog, EvidenceAgrees
    <3>3. OneUnseen'
      BY <1>1, <2>2, <3>1 DEF OneUnseen, MayLog
    <3>4. QED
      BY <1>1, <1>4, <2>2, <3>1, <3>2, <3>3 DEF EvidenceAgrees
  <2>3. QED
    BY <2>1, <2>2
<1>5. QED
  BY <1>2, <1>3, <1>4 DEF LogErrorWith

\* The record that appendStage writes differs in its stage only.
LEMMA Recorded ==
  ASSUME LogTypeOK, NEW stage \in Stages
  PROVE  LET record == [journal EXCEPT !.stage = stage] IN
         /\ record \in JournalRecord /\ record.stage = stage
         /\ record.pids = journal.pids /\ record.durable = journal.durable
BY DEF LogTypeOK, JournalRecord

\* What a step relies on after a stage was logged.
LEMMA StageIsLogged ==
  ASSUME LogTypeOK, EvidenceAgrees, NEW stage \in Stages, MayLog(stage), Log(stage), UNCHANGED edited
  PROVE  /\ EvidenceAgrees' /\ journal'.stage = stage /\ journal'.pids = journal.pids
         /\ stages' # <<>> /\ LastStage(stages') = stage
         /\ torn' \/ stages' = events'
         /\ ~torn /\ stages = events => ~torn'
BY Recorded, RecordIsLogged DEF Log

\* What a step relies on after a stage could not be logged.
LEMMA StageIsLost ==
  ASSUME LogTypeOK, EvidenceAgrees, NEW stage \in Stages, MayLog(stage), LogError(stage), UNCHANGED edited
  PROVE  /\ EvidenceAgrees' /\ stages' = stages
         /\ journal'.stage \in {journal.stage, stage} /\ journal'.pids = journal.pids
         /\ torn => torn'
         /\ \/ torn' \/ events' = events
            \/ stages = events /\ events' # <<>> /\ LastStage(events') = stage
BY Recorded, RecordIsLost DEF LogError

\* The evidence agrees when neither the log nor the stage in the journal changes.
LEMMA EvidenceFrame ==
  ASSUME EvidenceAgrees, UNCHANGED <<events, torn, stages, edited>>, journal'.stage = journal.stage
  PROVE  EvidenceAgrees'
BY DEF EvidenceAgrees, OneUnseen

\* A first call starts with what the log says.
LEMMA EvidenceAtStart ==
  ASSUME EvidenceAgrees, events = <<>>, stages' = <<>>, UNCHANGED <<events, torn, edited, journal>>
  PROVE  EvidenceAgrees'
BY DEF EvidenceAgrees

\* What follows a log is not earlier than what it ends with, and the journal has that at most.
LEMMA JournalIsLater ==
  ASSUME LogTypeOK, EvidenceAgrees, ~torn, events # <<>>
  PROVE  StageOrder(LastStage(events)) <= StageOrder(journal.stage) /\ journal.stage \in Stages
<1>1. LastStage(events) \in Stages
  BY DEF LogTypeOK, LastStage
<1>2. CASE journal.stage = LastStage(events)
  BY <1>1, <1>2, OrderBounds
<1>3. CASE journal.stage \in Service!Successors(events, edited)
  BY <1>3, SuccessorIsLater DEF LogTypeOK
<1>4. QED
  BY <1>2, <1>3 DEF EvidenceAgrees

\* The Agent's reader accepts evidence that agrees, before and after a step.
LEMMA WhenReadable ==
  /\ /\ LogTypeOK /\ EvidenceAgrees /\ IdentityRecorded
     /\ ~torn /\ journal.stage \notin {"none", "needs_attention"}
     => Readable
  /\ /\ LogTypeOK' /\ EvidenceAgrees' /\ IdentityRecorded'
     /\ ~torn' /\ journal'.stage \notin {"none", "needs_attention"}
     => Readable'
<1>1. /\ LogTypeOK /\ EvidenceAgrees /\ IdentityRecorded
      /\ ~torn /\ journal.stage \notin {"none", "needs_attention"}
      => Readable
  BY JournalIsLater DEF EvidenceAgrees, IdentityRecorded, Readable, RuntimeIdentityValid
<1>2. (/\ LogTypeOK /\ EvidenceAgrees /\ IdentityRecorded
       /\ ~torn /\ journal.stage \notin {"none", "needs_attention"}
       => Readable)'
  BY <1>1, PTL
<1>3. QED
  BY <1>1, <1>2

\* A failed attempt keeps what it knows about the PIDs.
LEMMA RecordedIdentity ==
  ASSUME LogTypeOK
  PROVE  FailedRecord.pids = journal.pids
BY DEF LogTypeOK, JournalRecord, FailedRecord

\* failBeforeWrite keeps the evidence in agreement, whether or not it could log.
LEMMA FailureIsLogged ==
  ASSUME LogTypeOK, EvidenceAgrees, NEW record \in JournalRecord, record.stage = "failed",
         MayLog("failed"), FailBeforeWrite(record), UNCHANGED edited
  PROVE  /\ EvidenceAgrees' /\ journal' \in {journal, record}
         /\ stages' = stages \/ (stages' # <<>> /\ LastStage(stages') = "failed")
         /\ journal'.stage \in {journal.stage, "failed"}
         /\ journal'.pids \in {journal.pids, record.pids}
         /\ pc' = "idle" /\ reply'.state = "failed"
<1>1. pc' = "idle" /\ reply'.state = "failed"
  BY DEF FailBeforeWrite, Return
<1>2. CASE LogWith(record, "failed")
  BY <1>1, <1>2, RecordIsLogged, StageNames
<1>3. CASE LogErrorWith(record, "failed")
  BY <1>1, <1>3, RecordIsLost, StageNames
<1>4. QED
  BY <1>2, <1>3 DEF FailBeforeWrite

\* The step that records the PIDs keeps the evidence in agreement, and the PIDs are known if it moves on.
LEMMA BaselineIsLogged ==
  ASSUME LogTypeOK, EvidenceAgrees, MayLog("backup_creating"), UNCHANGED edited
  PROVE  LET record == WithBaseline("backup_creating") IN
         /\ LogWith(record, "backup_creating") =>
              /\ EvidenceAgrees' /\ stages' # <<>> /\ LastStage(stages') = "backup_creating"
              /\ journal'.stage = "backup_creating" /\ journal'.pids
              /\ torn' \/ stages' = events'
              /\ ~torn /\ stages = events => ~torn'
         /\ LogErrorWith(record, "backup_creating") =>
              /\ EvidenceAgrees' /\ stages' = stages
              /\ journal' = journal \/ (journal'.stage = "backup_creating" /\ journal'.pids)
<1> DEFINE record == WithBaseline("backup_creating")
<1>1. record \in JournalRecord /\ record.stage = "backup_creating" /\ record.pids
  BY RecordsTyped, StageNames
<1> HIDE DEF record
<1>2. LogWith(record, "backup_creating") =>
        /\ EvidenceAgrees' /\ stages' # <<>> /\ LastStage(stages') = "backup_creating"
        /\ journal'.stage = "backup_creating" /\ journal'.pids
        /\ torn' \/ stages' = events'
        /\ ~torn /\ stages = events => ~torn'
  BY <1>1, RecordIsLogged, StageNames
<1>3. LogErrorWith(record, "backup_creating") =>
        /\ EvidenceAgrees' /\ stages' = stages
        /\ journal' = journal \/ (journal'.stage = "backup_creating" /\ journal'.pids)
  BY <1>1, RecordIsLost, StageNames
<1>4. QED
  BY <1>2, <1>3 DEF record

\* A journal ahead of a log that can be read is ahead by one known step.
LEMMA AheadByOne ==
  ASSUME LogTypeOK, EvidenceAgrees, Readable, ~LogIsCurrent
  PROVE  journal.stage \in Service!Successors(events, edited) /\ journal.stage \in Stages
<1>1. journal.stage \in Service!Successors(events, edited)
  BY DEF Readable, LogIsCurrent, EvidenceAgrees, Service!Successors
<1>2. QED
  BY <1>1, SuccessorIsLater DEF LogTypeOK

\* A recovery that catches the log up with the journal keeps them in agreement, whether or not it is
\* told that it did.
LEMMA CatchUp ==
  ASSUME LogTypeOK, EvidenceAgrees, Readable, ~LogIsCurrent, events' = Append(events, journal.stage),
         stages' \in {events, events'}, UNCHANGED <<journal, torn, edited>>
  PROVE  EvidenceAgrees' /\ events' # <<>> /\ LastStage(events') = journal.stage
<1>1. journal.stage \in Service!Successors(events, edited) /\ journal.stage \in Stages
  BY AheadByOne
<1>2. InOrder(events') /\ events' # <<>> /\ LastStage(events') = journal.stage
  BY <1>1, GrownInOrder DEF EvidenceAgrees, Readable
<1>3. stages' = events => OneUnseen'
  BY <1>1 DEF OneUnseen
<1>4. QED
  BY <1>2, <1>3 DEF EvidenceAgrees

\* A recovery that has read the log knows what it says.
LEMMA ReadBack ==
  ASSUME EvidenceAgrees, torn' \in {torn, TRUE}, stages' = events, UNCHANGED <<journal, events, edited>>,
         torn \in BOOLEAN
  PROVE  EvidenceAgrees'
BY DEF EvidenceAgrees

\* What nginx and others do is no business of the evidence, but for their edits.
LEMMA EvidenceUnchanged ==
  ASSUME EvidenceInv, UNCHANGED <<dir, journal, events, torn, backup, pc, stages, evidence, reply>>,
         edited => edited'
  PROVE  EvidenceInv'
<1>1. EvidenceAgrees'
  <2>1. \A log : Service!Successors(log, edited) \subseteq Service!Successors(log, edited')
    BY SuccessorsGrow
  <2>2. QED
    BY <2>1 DEF EvidenceInv, EvidenceAgrees, OneUnseen
<1>2. QED
  BY <1>1
  DEF EvidenceInv, LogAtPc, MemoryIsLog, IdentityRecorded, AnswerStands, AnswerIsDurable, Readable,
      RuntimeIdentityValid, BackupInAnswer

\* What may be logged is known at each control point.
LEMMA NextMayBeLogged ==
  ASSUME stages # <<>>, NEW stage \in Service!NextStages(LastStage(stages)),
         torn \/ stages = events, torn => stage \notin ForwardStages
  PROVE  MayLog(stage)
BY SharedWords DEF MayLog, Service!Successors

\* The stages that a publication, and a recovery that takes it up, log next.
LEMMA PublishMayLog ==
  ASSUME IInv, EvidenceInv
  PROVE  /\ pc = "recheck" => MayLog("rechecking")
         /\ pc = "inspect" => MayLog("backup_creating")
         /\ pc = "backup" => MayLog("backup_verified")
         /\ pc = "validate" => MayLog("candidate_validated")
         /\ pc \in {"inspect", "backup", "validate"} => MayLog("failed")
         /\ pc = "begin" => MayLog("files_applying")
         /\ pc = "apply" => MayLog("files_applied")
         /\ pc = "test" => MayLog("production_validated")
         /\ pc \in {"reloaded", "reload_failed"} => MayLog("reload_requested")
         /\ pc = "confirm" => MayLog("runtime_confirmed")
         /\ pc \in {"commit", "finish"} => MayLog("committed")
         /\ pc = "decide" /\ ProvenUnwritten => MayLog("failed")
         /\ pc = "resume" /\ journal.stage # "runtime_confirmed" => MayLog("runtime_confirmed")
<1>1. pc = "recheck" => MayLog("rechecking")
  BY DEF EvidenceInv, LogAtPc, MemoryIsLog, ExecutePoints, MayLog, Service!Successors
<1>2. pc \in (ExecutePoints \ {"recheck"}) \cup ResumePoints =>
        \A stage \in Service!NextStages(journal.stage) : MayLog(stage)
  BY NextMayBeLogged DEF EvidenceInv, LogAtPc, MemoryIsLog
<1>3. "failed" \in Service!NextStages("rechecking") /\ "failed" \in Service!NextStages("backup_creating")
      /\ "failed" \in Service!NextStages("backup_verified")
  BY OtherSteps, StageNames DEF BeforeWriteStages
<1>4. pc = "decide" /\ ProvenUnwritten => "failed" \in Service!NextStages(journal.stage)
  BY OtherSteps DEF ProvenUnwritten, IInv, JournalAtPc
<1>5. JournalAtPc
  BY DEF IInv
<1>6. QED
  BY <1>1, <1>2, <1>3, <1>4, <1>5, Steps DEF ExecutePoints, ResumePoints, JournalAtPc

\* The stages that a rollback logs next, and doubt.
LEMMA RollbackMayLog ==
  ASSUME IInv, EvidenceInv
  PROVE  /\ pc = "rollback" /\ ~Reached("rollback_applying") => MayLog("rollback_applying")
         /\ pc = "restore" /\ ~Reached("rollback_files_restored") => MayLog("rollback_files_restored")
         /\ pc = "retest" /\ ~Reached("rollback_validated") => MayLog("rollback_validated")
         /\ pc \in {"rollback_reloaded", "rollback_reload_failed"} => MayLog("rollback_reload_requested")
         /\ pc = "rollback_confirm" => MayLog("rolled_back")
         /\ pc = "attention" => MayLog("needs_attention")
<1>0. LogAtPc /\ MemoryIsLog /\ LogTypeOK
  BY TypeParts DEF EvidenceInv, IInv
<1>1. /\ events # <<>> => LastStage(events) \in Stages
      /\ stages # <<>> => LastStage(stages) \in Stages
  BY <1>0 DEF LogTypeOK, LastStage
<1>2. pc \in RestorePoints =>
        \A stage \in Service!NextStages(LastStage(stages)) : stage \notin ForwardStages => MayLog(stage)
  BY <1>0, NextMayBeLogged DEF LogAtPc, MemoryIsLog
<1>3. {"rollback_applying", "rollback_files_restored", "rollback_validated", "rollback_reload_requested",
       "rolled_back", "needs_attention"} \cap ForwardStages = {}
  BY DEF ForwardStages, BeforeWriteStages
<1>4. ASSUME pc = "rollback", ~Reached("rollback_applying") PROVE MayLog("rollback_applying")
  <2>1. stages # <<>> /\ LastStage(stages) \in ForwardStages \ {"queued", "committed"}
    BY <1>0, <1>4, OrderFacts DEF LogAtPc, Reached, UnfinishedRollback, RollbackStages
  <2>2. \/ LastStage(stages) \in Service!WriteStages
        \/ LastStage(stages) \in BeforeWriteStages /\ edited
    BY <1>0, <1>4, <2>1 DEF LogAtPc, ForwardStages, Service!WriteStages
  <2>3. "rollback_applying" \in Service!Successors(stages, edited)
    BY <1>1, <2>1, <2>2, OtherSteps, SharedWords DEF Service!Successors
  <2>4. ~torn => "rollback_applying" \in Service!Successors(events, edited)
    <3>1. CASE stages = events
      BY <2>3, <3>1
    <3>2. CASE events # <<>> /\ LastStage(events) \in Service!WriteStages \cup {"committed"}
      BY <1>1, <3>2, OtherSteps, SharedWords DEF Service!Successors
    <3>3. QED
      BY <1>0, <1>4, <3>1, <3>2 DEF MemoryIsLog
  <2>5. QED
    BY <1>3, <2>3, <2>4 DEF MayLog
<1>5. ASSUME pc = "restore", ~Reached("rollback_files_restored") PROVE MayLog("rollback_files_restored")
  <2>1. LastStage(stages) = "rollback_applying"
    BY <1>0, <1>5, OrderFacts DEF LogAtPc, Reached, RestorePoints, UnfinishedRollback, RollbackStages
  <2>2. QED
    BY <1>2, <1>3, <1>5, <2>1, RollbackSteps DEF RestorePoints
<1>6. ASSUME pc = "retest", ~Reached("rollback_validated") PROVE MayLog("rollback_validated")
  <2>1. LastStage(stages) = "rollback_files_restored"
    BY <1>0, <1>6, OrderFacts DEF LogAtPc, Reached, RestorePoints, UnfinishedRollback, RollbackStages
  <2>2. QED
    BY <1>2, <1>3, <1>6, <2>1, RollbackSteps DEF RestorePoints
<1>7. pc \in {"rollback_reloaded", "rollback_reload_failed"} => MayLog("rollback_reload_requested")
  BY <1>0, <1>2, <1>3, RollbackSteps DEF LogAtPc, RestorePoints
<1>8. pc = "rollback_confirm" => MayLog("rolled_back")
  BY <1>0, <1>2, <1>3, RollbackSteps DEF LogAtPc, RestorePoints
<1>9. ASSUME pc = "attention" PROVE MayLog("needs_attention")
  <2>1. stages # <<>> /\ LastStage(stages) # "needs_attention"
    BY <1>0, <1>9 DEF LogAtPc
  <2>2. ~torn => events # <<>> /\ LastStage(events) # "needs_attention"
    BY <1>0, <1>9 DEF MemoryIsLog
  <2>3. QED
    BY <1>1, <1>3, <2>1, <2>2, OtherSteps, SharedWords DEF MayLog, Service!Successors
<1>10. QED
  BY <1>4, <1>5, <1>6, <1>7, <1>8, <1>9

\* A call that knows of no rollback has not reached its first stage.
LEMMA NotReached ==
  ASSUME LastStage(stages) \in ForwardStages
  PROVE  ~Reached("rollback_applying")
<1>1. StageOrder(LastStage(stages)) \in Nat /\ StageOrder(LastStage(stages)) <= 10
  BY OrderBounds DEF Stages
<1>2. QED
  BY <1>1, OrderFacts DEF Reached

\* The evidence is left as EvidenceInv says by every step.
LEMMA EvidenceStep == IInv /\ IInv' /\ EvidenceInv /\ [Next]_vars => EvidenceInv'
<1> SUFFICES ASSUME IInv, IInv', EvidenceInv, [Next]_vars
             PROVE  EvidenceInv'
  OBVIOUS
<1>0. /\ TypeOK /\ LogTypeOK /\ LogTypeOK' /\ JournalAtPc /\ JournalAtPc' /\ torn \in BOOLEAN
      /\ LogAtPc /\ MemoryIsLog /\ EvidenceAgrees /\ IdentityRecorded /\ AnswerStands
      /\ BackupInAnswer
      /\ pc \notin {"idle", "down", "read"} => dir
      /\ ~dir => journal.stage = "none"
  BY TypeParts DEF IInv, EvidenceInv, Untouched, LogTypeOK
<1>1. CASE Execute
  <2>1. EvidenceAgrees'
    BY <1>1, <1>0, EvidenceAtStart DEF Execute, Goto, logVars, LogAtPc
  <2>2. LogAtPc'
    BY <1>1, <1>0
    DEF Execute, Goto, nginxVars, logVars, JournalAtPc, LogAtPc, ExecutePoints, ResumePoints,
        RestorePoints, Stages, ForwardStages, BeforeWriteStages, RollbackStages, UnfinishedRollback,
        TerminalStages
  <2>3. MemoryIsLog'
    BY <1>1, <1>0
    DEF Execute, Goto, nginxVars, logVars, MemoryIsLog, LogAtPc, JournalAtPc, Service!WriteStages,
        ExecutePoints, ResumePoints, RestorePoints, Stages, ForwardStages, BeforeWriteStages,
        RollbackStages, UnfinishedRollback, TerminalStages
  <2>4. IdentityRecorded'
    BY <1>1, <1>0
    DEF Execute, Goto, nginxVars, logVars, IdentityRecorded, JournalAtPc, LogAtPc, ExecutePoints,
        ResumePoints, RestorePoints
  <2>5. AnswerStands'
    BY <1>1, <1>0
    DEF Execute, Goto, nginxVars, logVars, AnswerStands, AnswerIsDurable, Readable, RuntimeIdentityValid
  <2>6. BackupInAnswer'
    BY <1>1, <1>0
    DEF Execute, Goto, nginxVars, logVars, BackupInAnswer, ExecutePoints, ResumePoints,
        RestorePoints
  <2>7. QED
    BY <2>1, <2>2, <2>3, <2>4, <2>5, <2>6 DEF EvidenceInv
<1>2. CASE Recover
  <2>1. EvidenceAgrees'
    BY <1>2, <1>0, EvidenceFrame DEF Recover, Goto, nginxVars, diskVars
  <2>2. LogAtPc'
    BY <1>2, <1>0
    DEF Recover, Goto, nginxVars, diskVars, JournalAtPc, LogAtPc, ExecutePoints, ResumePoints,
        RestorePoints, Stages, ForwardStages, BeforeWriteStages, RollbackStages, UnfinishedRollback,
        TerminalStages
  <2>3. MemoryIsLog'
    BY <1>2, <1>0
    DEF Recover, Goto, nginxVars, diskVars, MemoryIsLog, LogAtPc, JournalAtPc, Service!WriteStages,
        ExecutePoints, ResumePoints, RestorePoints, Stages, ForwardStages, BeforeWriteStages,
        RollbackStages, UnfinishedRollback, TerminalStages
  <2>4. IdentityRecorded'
    BY <1>2, <1>0
    DEF Recover, Goto, nginxVars, diskVars, IdentityRecorded, JournalAtPc, LogAtPc, ExecutePoints,
        ResumePoints, RestorePoints
  <2>5. AnswerStands'
    BY <1>2, <1>0, <2>1, <2>4, WhenReadable
    DEF Recover, Goto, nginxVars, diskVars, AnswerStands, AnswerIsDurable, NoReply, LogAtPc,
        MemoryIsLog, ExecutePoints, ResumePoints, RestorePoints
  <2>6. BackupInAnswer'
    BY <1>2, <1>0
    DEF Recover, Goto, nginxVars, diskVars, BackupInAnswer, ExecutePoints, ResumePoints,
        RestorePoints
  <2>7. QED
    BY <2>1, <2>2, <2>3, <2>4, <2>5, <2>6 DEF EvidenceInv
<1>3. CASE Recheck
  <2>1. EvidenceAgrees'
    BY <1>3, <1>0, PublishMayLog, StageNames, StageIsLogged, StageIsLost
    DEF Recheck, Goto, Abandon, nginxVars, Return
  <2>2. LogAtPc'
    BY <1>3, <1>0, PublishMayLog, StageNames, StageIsLogged, StageIsLost
    DEF Recheck, Goto, Abandon, nginxVars, Return, JournalAtPc, LogAtPc, ExecutePoints,
        ResumePoints, RestorePoints, Stages, ForwardStages, BeforeWriteStages, RollbackStages,
        UnfinishedRollback, TerminalStages
  <2>3. MemoryIsLog'
    BY <1>3, <1>0, PublishMayLog, StageNames, StageIsLogged, StageIsLost
    DEF Recheck, Goto, Abandon, nginxVars, Return, MemoryIsLog, LogAtPc, JournalAtPc,
        Service!WriteStages, ExecutePoints, ResumePoints, RestorePoints, Stages, ForwardStages,
        BeforeWriteStages, RollbackStages, UnfinishedRollback, TerminalStages
  <2>4. IdentityRecorded'
    BY <1>3, <1>0, PublishMayLog, StageNames, StageIsLogged, StageIsLost
    DEF Recheck, Goto, Abandon, nginxVars, Return, IdentityRecorded, JournalAtPc, LogAtPc,
        ExecutePoints, ResumePoints, RestorePoints
  <2>5. AnswerStands'
    BY <1>3, <1>0, PublishMayLog, StageNames, StageIsLogged, StageIsLost, <2>1, <2>4, WhenReadable
    DEF Recheck, Goto, Abandon, nginxVars, Return, AnswerStands, AnswerIsDurable, NoReply, LogAtPc,
        MemoryIsLog, ExecutePoints, ResumePoints, RestorePoints
  <2>6. BackupInAnswer'
    BY <1>3, <1>0
    DEF Recheck, Goto, Abandon, nginxVars, Return, BackupInAnswer, ExecutePoints, ResumePoints,
        RestorePoints
  <2>7. QED
    BY <2>1, <2>2, <2>3, <2>4, <2>5, <2>6 DEF EvidenceInv
<1>4. CASE Inspect
  <2>1. EvidenceAgrees'
    BY <1>4, <1>0, PublishMayLog, StageNames, StageIsLogged, StageIsLost, FailureIsLogged,
       RecordsTyped, RecordedIdentity, BaselineIsLogged
    DEF Inspect, Goto, Abandon, Return
  <2>2. LogAtPc'
    BY <1>4, <1>0, PublishMayLog, StageNames, StageIsLogged, StageIsLost, FailureIsLogged,
       RecordsTyped, RecordedIdentity, BaselineIsLogged
    DEF Inspect, Goto, Abandon, Return, JournalAtPc, LogAtPc, ExecutePoints, ResumePoints,
        RestorePoints, Stages, ForwardStages, BeforeWriteStages, RollbackStages, UnfinishedRollback,
        TerminalStages
  <2>3. MemoryIsLog'
    BY <1>4, <1>0, PublishMayLog, StageNames, StageIsLogged, StageIsLost, FailureIsLogged,
       RecordsTyped, RecordedIdentity, BaselineIsLogged
    DEF Inspect, Goto, Abandon, Return, MemoryIsLog, LogAtPc, JournalAtPc, Service!WriteStages,
        ExecutePoints, ResumePoints, RestorePoints, Stages, ForwardStages, BeforeWriteStages,
        RollbackStages, UnfinishedRollback, TerminalStages
  <2>4. IdentityRecorded'
    BY <1>4, <1>0, PublishMayLog, StageNames, StageIsLogged, StageIsLost, FailureIsLogged,
       RecordsTyped, RecordedIdentity, BaselineIsLogged
    DEF Inspect, Goto, Abandon, Return, IdentityRecorded, JournalAtPc, LogAtPc, ExecutePoints,
        ResumePoints, RestorePoints
  <2>5. AnswerStands'
    BY <1>4, <1>0, PublishMayLog, StageNames, StageIsLogged, StageIsLost, FailureIsLogged,
       RecordsTyped, RecordedIdentity, BaselineIsLogged, <2>1, <2>4, WhenReadable
    DEF Inspect, Goto, Abandon, Return, AnswerStands, AnswerIsDurable, NoReply, LogAtPc,
        MemoryIsLog, ExecutePoints, ResumePoints, RestorePoints
  <2>6. BackupInAnswer'
    BY <1>4, <1>0
    DEF Inspect, Goto, Abandon, Return, FailBeforeWrite, BackupInAnswer, ExecutePoints,
        ResumePoints, RestorePoints
  <2>7. QED
    BY <2>1, <2>2, <2>3, <2>4, <2>5, <2>6 DEF EvidenceInv
<1>5. CASE Backup
  <2>1. EvidenceAgrees'
    BY <1>5, <1>0, PublishMayLog, StageNames, StageIsLogged, StageIsLost, FailureIsLogged,
       RecordsTyped, RecordedIdentity
    DEF Backup, Goto, Return, nginxVars
  <2>2. LogAtPc'
    BY <1>5, <1>0, PublishMayLog, StageNames, StageIsLogged, StageIsLost, FailureIsLogged,
       RecordsTyped, RecordedIdentity
    DEF Backup, Goto, Return, nginxVars, JournalAtPc, LogAtPc, ExecutePoints, ResumePoints,
        RestorePoints, Stages, ForwardStages, BeforeWriteStages, RollbackStages, UnfinishedRollback,
        TerminalStages
  <2>3. MemoryIsLog'
    BY <1>5, <1>0, PublishMayLog, StageNames, StageIsLogged, StageIsLost, FailureIsLogged,
       RecordsTyped, RecordedIdentity
    DEF Backup, Goto, Return, nginxVars, MemoryIsLog, LogAtPc, JournalAtPc, Service!WriteStages,
        ExecutePoints, ResumePoints, RestorePoints, Stages, ForwardStages, BeforeWriteStages,
        RollbackStages, UnfinishedRollback, TerminalStages
  <2>4. IdentityRecorded'
    BY <1>5, <1>0, PublishMayLog, StageNames, StageIsLogged, StageIsLost, FailureIsLogged,
       RecordsTyped, RecordedIdentity
    DEF Backup, Goto, Return, nginxVars, IdentityRecorded, JournalAtPc, LogAtPc, ExecutePoints,
        ResumePoints, RestorePoints
  <2>5. AnswerStands'
    BY <1>5, <1>0, PublishMayLog, StageNames, StageIsLogged, StageIsLost, FailureIsLogged,
       RecordsTyped, RecordedIdentity, <2>1, <2>4, WhenReadable
    DEF Backup, Goto, Return, nginxVars, AnswerStands, AnswerIsDurable, NoReply, LogAtPc,
        MemoryIsLog, ExecutePoints, ResumePoints, RestorePoints
  <2>6. BackupInAnswer'
    BY <1>5, <1>0
    DEF Backup, Goto, Return, nginxVars, FailBeforeWrite, BackupInAnswer, ExecutePoints,
        ResumePoints, RestorePoints
  <2>7. QED
    BY <2>1, <2>2, <2>3, <2>4, <2>5, <2>6 DEF EvidenceInv
<1>6. CASE Validate
  <2>1. EvidenceAgrees'
    BY <1>6, <1>0, PublishMayLog, StageNames, StageIsLogged, StageIsLost, FailureIsLogged,
       RecordsTyped, RecordedIdentity
    DEF Validate, Goto, Abandon, nginxVars, Return
  <2>2. LogAtPc'
    BY <1>6, <1>0, PublishMayLog, StageNames, StageIsLogged, StageIsLost, FailureIsLogged,
       RecordsTyped, RecordedIdentity
    DEF Validate, Goto, Abandon, nginxVars, Return, JournalAtPc, LogAtPc, ExecutePoints,
        ResumePoints, RestorePoints, Stages, ForwardStages, BeforeWriteStages, RollbackStages,
        UnfinishedRollback, TerminalStages
  <2>3. MemoryIsLog'
    BY <1>6, <1>0, PublishMayLog, StageNames, StageIsLogged, StageIsLost, FailureIsLogged,
       RecordsTyped, RecordedIdentity
    DEF Validate, Goto, Abandon, nginxVars, Return, MemoryIsLog, LogAtPc, JournalAtPc,
        Service!WriteStages, ExecutePoints, ResumePoints, RestorePoints, Stages, ForwardStages,
        BeforeWriteStages, RollbackStages, UnfinishedRollback, TerminalStages
  <2>4. IdentityRecorded'
    BY <1>6, <1>0, PublishMayLog, StageNames, StageIsLogged, StageIsLost, FailureIsLogged,
       RecordsTyped, RecordedIdentity
    DEF Validate, Goto, Abandon, nginxVars, Return, IdentityRecorded, JournalAtPc, LogAtPc,
        ExecutePoints, ResumePoints, RestorePoints
  <2>5. AnswerStands'
    BY <1>6, <1>0, PublishMayLog, StageNames, StageIsLogged, StageIsLost, FailureIsLogged,
       RecordsTyped, RecordedIdentity, <2>1, <2>4, WhenReadable
    DEF Validate, Goto, Abandon, nginxVars, Return, AnswerStands, AnswerIsDurable, NoReply, LogAtPc,
        MemoryIsLog, ExecutePoints, ResumePoints, RestorePoints
  <2>6. BackupInAnswer'
    BY <1>6, <1>0
    DEF Validate, Goto, Abandon, nginxVars, Return, FailBeforeWrite, BackupInAnswer, ExecutePoints,
        ResumePoints, RestorePoints
  <2>7. QED
    BY <2>1, <2>2, <2>3, <2>4, <2>5, <2>6 DEF EvidenceInv
<1>7. CASE Begin
  <2>1. EvidenceAgrees'
    BY <1>7, <1>0, PublishMayLog, StageNames, StageIsLogged, StageIsLost
    DEF Begin, Goto, Abandon, nginxVars, Return
  <2>2. LogAtPc'
    BY <1>7, <1>0, PublishMayLog, StageNames, StageIsLogged, StageIsLost
    DEF Begin, Goto, Abandon, nginxVars, Return, JournalAtPc, LogAtPc, ExecutePoints, ResumePoints,
        RestorePoints, Stages, ForwardStages, BeforeWriteStages, RollbackStages, UnfinishedRollback,
        TerminalStages
  <2>3. MemoryIsLog'
    BY <1>7, <1>0, PublishMayLog, StageNames, StageIsLogged, StageIsLost
    DEF Begin, Goto, Abandon, nginxVars, Return, MemoryIsLog, LogAtPc, JournalAtPc,
        Service!WriteStages, ExecutePoints, ResumePoints, RestorePoints, Stages, ForwardStages,
        BeforeWriteStages, RollbackStages, UnfinishedRollback, TerminalStages
  <2>4. IdentityRecorded'
    BY <1>7, <1>0, PublishMayLog, StageNames, StageIsLogged, StageIsLost
    DEF Begin, Goto, Abandon, nginxVars, Return, IdentityRecorded, JournalAtPc, LogAtPc,
        ExecutePoints, ResumePoints, RestorePoints
  <2>5. AnswerStands'
    BY <1>7, <1>0, PublishMayLog, StageNames, StageIsLogged, StageIsLost, <2>1, <2>4, WhenReadable
    DEF Begin, Goto, Abandon, nginxVars, Return, AnswerStands, AnswerIsDurable, NoReply, LogAtPc,
        MemoryIsLog, ExecutePoints, ResumePoints, RestorePoints
  <2>6. BackupInAnswer'
    BY <1>7, <1>0
    DEF Begin, Goto, Abandon, nginxVars, Return, BackupInAnswer, ExecutePoints, ResumePoints,
        RestorePoints
  <2>7. QED
    BY <2>1, <2>2, <2>3, <2>4, <2>5, <2>6 DEF EvidenceInv
<1>8. CASE PreCheck
  <2>1. EvidenceAgrees'
    BY <1>8, <1>0, EvidenceFrame DEF PreCheck, Goto, StartRollback, nginxVars, diskVars
  <2>2. LogAtPc'
    BY <1>8, <1>0
    DEF PreCheck, Goto, StartRollback, nginxVars, diskVars, JournalAtPc, LogAtPc, ExecutePoints,
        ResumePoints, RestorePoints, Stages, ForwardStages, BeforeWriteStages, RollbackStages,
        UnfinishedRollback, TerminalStages
  <2>3. MemoryIsLog'
    BY <1>8, <1>0
    DEF PreCheck, Goto, StartRollback, nginxVars, diskVars, MemoryIsLog, LogAtPc, JournalAtPc,
        Service!WriteStages, ExecutePoints, ResumePoints, RestorePoints, Stages, ForwardStages,
        BeforeWriteStages, RollbackStages, UnfinishedRollback, TerminalStages
  <2>4. IdentityRecorded'
    BY <1>8, <1>0
    DEF PreCheck, Goto, StartRollback, nginxVars, diskVars, IdentityRecorded, JournalAtPc, LogAtPc,
        ExecutePoints, ResumePoints, RestorePoints
  <2>5. AnswerStands'
    BY <1>8, <1>0, <2>1, <2>4, WhenReadable
    DEF PreCheck, Goto, StartRollback, nginxVars, diskVars, AnswerStands, AnswerIsDurable, NoReply,
        LogAtPc, MemoryIsLog, ExecutePoints, ResumePoints, RestorePoints
  <2>6. BackupInAnswer'
    BY <1>8, <1>0
    DEF PreCheck, Goto, StartRollback, nginxVars, diskVars, BackupInAnswer, ExecutePoints,
        ResumePoints, RestorePoints
  <2>7. QED
    BY <2>1, <2>2, <2>3, <2>4, <2>5, <2>6 DEF EvidenceInv
<1>9. CASE ApplyFile
  <2>1. EvidenceAgrees'
    BY <1>9, <1>0, CountedEffect, EvidenceFrame DEF ApplyFile, Goto, StartRollback, nginxVars
  <2>2. LogAtPc'
    BY <1>9, <1>0, CountedEffect
    DEF ApplyFile, Goto, StartRollback, nginxVars, JournalAtPc, LogAtPc, ExecutePoints,
        ResumePoints, RestorePoints, Stages, ForwardStages, BeforeWriteStages, RollbackStages,
        UnfinishedRollback, TerminalStages
  <2>3. MemoryIsLog'
    BY <1>9, <1>0, CountedEffect
    DEF ApplyFile, Goto, StartRollback, nginxVars, MemoryIsLog, LogAtPc, JournalAtPc,
        Service!WriteStages, ExecutePoints, ResumePoints, RestorePoints, Stages, ForwardStages,
        BeforeWriteStages, RollbackStages, UnfinishedRollback, TerminalStages
  <2>4. IdentityRecorded'
    BY <1>9, <1>0, CountedEffect
    DEF ApplyFile, Goto, StartRollback, nginxVars, IdentityRecorded, JournalAtPc, LogAtPc,
        ExecutePoints, ResumePoints, RestorePoints
  <2>5. AnswerStands'
    BY <1>9, <1>0, CountedEffect, <2>1, <2>4, WhenReadable
    DEF ApplyFile, Goto, StartRollback, nginxVars, AnswerStands, AnswerIsDurable, NoReply, LogAtPc,
        MemoryIsLog, ExecutePoints, ResumePoints, RestorePoints
  <2>6. BackupInAnswer'
    BY <1>9, <1>0
    DEF ApplyFile, Goto, StartRollback, nginxVars, BackupInAnswer, ExecutePoints, ResumePoints,
        RestorePoints
  <2>7. QED
    BY <2>1, <2>2, <2>3, <2>4, <2>5, <2>6 DEF EvidenceInv
<1>10. CASE ApplyDone
  <2>1. EvidenceAgrees'
    BY <1>10, <1>0, PublishMayLog, StageNames, StageIsLogged, StageIsLost, EvidenceFrame
    DEF ApplyDone, Goto, StartRollback, nginxVars, logVars
  <2>2. LogAtPc'
    BY <1>10, <1>0, PublishMayLog, StageNames, StageIsLogged, StageIsLost
    DEF ApplyDone, Goto, StartRollback, nginxVars, logVars, JournalAtPc, LogAtPc, ExecutePoints,
        ResumePoints, RestorePoints, Stages, ForwardStages, BeforeWriteStages, RollbackStages,
        UnfinishedRollback, TerminalStages
  <2>3. MemoryIsLog'
    BY <1>10, <1>0, PublishMayLog, StageNames, StageIsLogged, StageIsLost
    DEF ApplyDone, Goto, StartRollback, nginxVars, logVars, MemoryIsLog, LogAtPc, JournalAtPc,
        Service!WriteStages, ExecutePoints, ResumePoints, RestorePoints, Stages, ForwardStages,
        BeforeWriteStages, RollbackStages, UnfinishedRollback, TerminalStages
  <2>4. IdentityRecorded'
    BY <1>10, <1>0, PublishMayLog, StageNames, StageIsLogged, StageIsLost
    DEF ApplyDone, Goto, StartRollback, nginxVars, logVars, IdentityRecorded, JournalAtPc, LogAtPc,
        ExecutePoints, ResumePoints, RestorePoints
  <2>5. AnswerStands'
    BY <1>10, <1>0, PublishMayLog, StageNames, StageIsLogged, StageIsLost, <2>1, <2>4, WhenReadable
    DEF ApplyDone, Goto, StartRollback, nginxVars, logVars, AnswerStands, AnswerIsDurable, NoReply,
        LogAtPc, MemoryIsLog, ExecutePoints, ResumePoints, RestorePoints
  <2>6. BackupInAnswer'
    BY <1>10, <1>0
    DEF ApplyDone, Goto, StartRollback, nginxVars, logVars, BackupInAnswer, ExecutePoints,
        ResumePoints, RestorePoints
  <2>7. QED
    BY <2>1, <2>2, <2>3, <2>4, <2>5, <2>6 DEF EvidenceInv
<1>11. CASE Test
  <2>1. EvidenceAgrees'
    BY <1>11, <1>0, PublishMayLog, StageNames, StageIsLogged, StageIsLost, EvidenceFrame
    DEF Test, Goto, StartRollback, nginxVars, logVars
  <2>2. LogAtPc'
    BY <1>11, <1>0, PublishMayLog, StageNames, StageIsLogged, StageIsLost
    DEF Test, Goto, StartRollback, nginxVars, logVars, JournalAtPc, LogAtPc, ExecutePoints,
        ResumePoints, RestorePoints, Stages, ForwardStages, BeforeWriteStages, RollbackStages,
        UnfinishedRollback, TerminalStages
  <2>3. MemoryIsLog'
    BY <1>11, <1>0, PublishMayLog, StageNames, StageIsLogged, StageIsLost
    DEF Test, Goto, StartRollback, nginxVars, logVars, MemoryIsLog, LogAtPc, JournalAtPc,
        Service!WriteStages, ExecutePoints, ResumePoints, RestorePoints, Stages, ForwardStages,
        BeforeWriteStages, RollbackStages, UnfinishedRollback, TerminalStages
  <2>4. IdentityRecorded'
    BY <1>11, <1>0, PublishMayLog, StageNames, StageIsLogged, StageIsLost
    DEF Test, Goto, StartRollback, nginxVars, logVars, IdentityRecorded, JournalAtPc, LogAtPc,
        ExecutePoints, ResumePoints, RestorePoints
  <2>5. AnswerStands'
    BY <1>11, <1>0, PublishMayLog, StageNames, StageIsLogged, StageIsLost, <2>1, <2>4, WhenReadable
    DEF Test, Goto, StartRollback, nginxVars, logVars, AnswerStands, AnswerIsDurable, NoReply,
        LogAtPc, MemoryIsLog, ExecutePoints, ResumePoints, RestorePoints
  <2>6. BackupInAnswer'
    BY <1>11, <1>0
    DEF Test, Goto, StartRollback, nginxVars, logVars, BackupInAnswer, ExecutePoints, ResumePoints,
        RestorePoints
  <2>7. QED
    BY <2>1, <2>2, <2>3, <2>4, <2>5, <2>6 DEF EvidenceInv
<1>12. CASE Reload
  <2>1. EvidenceAgrees'
    BY <1>12, <1>0, EvidenceFrame DEF Reload, Goto, SendReload, diskVars, callVars
  <2>2. LogAtPc'
    BY <1>12, <1>0
    DEF Reload, Goto, SendReload, diskVars, callVars, JournalAtPc, LogAtPc, ExecutePoints,
        ResumePoints, RestorePoints, Stages, ForwardStages, BeforeWriteStages, RollbackStages,
        UnfinishedRollback, TerminalStages
  <2>3. MemoryIsLog'
    BY <1>12, <1>0
    DEF Reload, Goto, SendReload, diskVars, callVars, MemoryIsLog, LogAtPc, JournalAtPc,
        Service!WriteStages, ExecutePoints, ResumePoints, RestorePoints, Stages, ForwardStages,
        BeforeWriteStages, RollbackStages, UnfinishedRollback, TerminalStages
  <2>4. IdentityRecorded'
    BY <1>12, <1>0
    DEF Reload, Goto, SendReload, diskVars, callVars, IdentityRecorded, JournalAtPc, LogAtPc,
        ExecutePoints, ResumePoints, RestorePoints
  <2>5. AnswerStands'
    BY <1>12, <1>0, <2>1, <2>4, WhenReadable
    DEF Reload, Goto, SendReload, diskVars, callVars, AnswerStands, AnswerIsDurable, NoReply,
        LogAtPc, MemoryIsLog, ExecutePoints, ResumePoints, RestorePoints
  <2>6. BackupInAnswer'
    BY <1>12, <1>0
    DEF Reload, Goto, SendReload, diskVars, callVars, BackupInAnswer, ExecutePoints, ResumePoints,
        RestorePoints
  <2>7. QED
    BY <2>1, <2>2, <2>3, <2>4, <2>5, <2>6 DEF EvidenceInv
<1>13. CASE LogReload
  <2>1. EvidenceAgrees'
    BY <1>13, <1>0, PublishMayLog, StageNames, StageIsLogged, StageIsLost
    DEF LogReload, Goto, StartRollback, nginxVars
  <2>2. LogAtPc'
    BY <1>13, <1>0, PublishMayLog, StageNames, StageIsLogged, StageIsLost
    DEF LogReload, Goto, StartRollback, nginxVars, JournalAtPc, LogAtPc, ExecutePoints,
        ResumePoints, RestorePoints, Stages, ForwardStages, BeforeWriteStages, RollbackStages,
        UnfinishedRollback, TerminalStages
  <2>3. MemoryIsLog'
    BY <1>13, <1>0, PublishMayLog, StageNames, StageIsLogged, StageIsLost
    DEF LogReload, Goto, StartRollback, nginxVars, MemoryIsLog, LogAtPc, JournalAtPc,
        Service!WriteStages, ExecutePoints, ResumePoints, RestorePoints, Stages, ForwardStages,
        BeforeWriteStages, RollbackStages, UnfinishedRollback, TerminalStages
  <2>4. IdentityRecorded'
    BY <1>13, <1>0, PublishMayLog, StageNames, StageIsLogged, StageIsLost
    DEF LogReload, Goto, StartRollback, nginxVars, IdentityRecorded, JournalAtPc, LogAtPc,
        ExecutePoints, ResumePoints, RestorePoints
  <2>5. AnswerStands'
    BY <1>13, <1>0, PublishMayLog, StageNames, StageIsLogged, StageIsLost, <2>1, <2>4, WhenReadable
    DEF LogReload, Goto, StartRollback, nginxVars, AnswerStands, AnswerIsDurable, NoReply, LogAtPc,
        MemoryIsLog, ExecutePoints, ResumePoints, RestorePoints
  <2>6. BackupInAnswer'
    BY <1>13, <1>0
    DEF LogReload, Goto, StartRollback, nginxVars, BackupInAnswer, ExecutePoints, ResumePoints,
        RestorePoints
  <2>7. QED
    BY <2>1, <2>2, <2>3, <2>4, <2>5, <2>6 DEF EvidenceInv
<1>14. CASE LogReloadFailure
  <2>1. EvidenceAgrees'
    BY <1>14, <1>0, PublishMayLog, StageNames, StageIsLogged, StageIsLost
    DEF LogReloadFailure, Goto, StartRollback, nginxVars
  <2>2. LogAtPc'
    BY <1>14, <1>0, PublishMayLog, StageNames, StageIsLogged, StageIsLost
    DEF LogReloadFailure, Goto, StartRollback, nginxVars, JournalAtPc, LogAtPc, ExecutePoints,
        ResumePoints, RestorePoints, Stages, ForwardStages, BeforeWriteStages, RollbackStages,
        UnfinishedRollback, TerminalStages
  <2>3. MemoryIsLog'
    BY <1>14, <1>0, PublishMayLog, StageNames, StageIsLogged, StageIsLost
    DEF LogReloadFailure, Goto, StartRollback, nginxVars, MemoryIsLog, LogAtPc, JournalAtPc,
        Service!WriteStages, ExecutePoints, ResumePoints, RestorePoints, Stages, ForwardStages,
        BeforeWriteStages, RollbackStages, UnfinishedRollback, TerminalStages
  <2>4. IdentityRecorded'
    BY <1>14, <1>0, PublishMayLog, StageNames, StageIsLogged, StageIsLost
    DEF LogReloadFailure, Goto, StartRollback, nginxVars, IdentityRecorded, JournalAtPc, LogAtPc,
        ExecutePoints, ResumePoints, RestorePoints
  <2>5. AnswerStands'
    BY <1>14, <1>0, PublishMayLog, StageNames, StageIsLogged, StageIsLost, <2>1, <2>4, WhenReadable
    DEF LogReloadFailure, Goto, StartRollback, nginxVars, AnswerStands, AnswerIsDurable, NoReply,
        LogAtPc, MemoryIsLog, ExecutePoints, ResumePoints, RestorePoints
  <2>6. BackupInAnswer'
    BY <1>14, <1>0
    DEF LogReloadFailure, Goto, StartRollback, nginxVars, BackupInAnswer, ExecutePoints,
        ResumePoints, RestorePoints
  <2>7. QED
    BY <2>1, <2>2, <2>3, <2>4, <2>5, <2>6 DEF EvidenceInv
<1>15. CASE Confirm
  <2>1. EvidenceAgrees'
    BY <1>15, <1>0, PublishMayLog, StageNames, StageIsLogged, StageIsLost, EvidenceFrame
    DEF Confirm, Goto, StartRollback, nginxVars, logVars
  <2>2. LogAtPc'
    BY <1>15, <1>0, PublishMayLog, StageNames, StageIsLogged, StageIsLost
    DEF Confirm, Goto, StartRollback, nginxVars, logVars, JournalAtPc, LogAtPc, ExecutePoints,
        ResumePoints, RestorePoints, Stages, ForwardStages, BeforeWriteStages, RollbackStages,
        UnfinishedRollback, TerminalStages
  <2>3. MemoryIsLog'
    BY <1>15, <1>0, PublishMayLog, StageNames, StageIsLogged, StageIsLost
    DEF Confirm, Goto, StartRollback, nginxVars, logVars, MemoryIsLog, LogAtPc, JournalAtPc,
        Service!WriteStages, ExecutePoints, ResumePoints, RestorePoints, Stages, ForwardStages,
        BeforeWriteStages, RollbackStages, UnfinishedRollback, TerminalStages
  <2>4. IdentityRecorded'
    BY <1>15, <1>0, PublishMayLog, StageNames, StageIsLogged, StageIsLost
    DEF Confirm, Goto, StartRollback, nginxVars, logVars, IdentityRecorded, JournalAtPc, LogAtPc,
        ExecutePoints, ResumePoints, RestorePoints
  <2>5. AnswerStands'
    BY <1>15, <1>0, PublishMayLog, StageNames, StageIsLogged, StageIsLost, <2>1, <2>4, WhenReadable
    DEF Confirm, Goto, StartRollback, nginxVars, logVars, AnswerStands, AnswerIsDurable, NoReply,
        LogAtPc, MemoryIsLog, ExecutePoints, ResumePoints, RestorePoints
  <2>6. BackupInAnswer'
    BY <1>15, <1>0
    DEF Confirm, Goto, StartRollback, nginxVars, logVars, BackupInAnswer, ExecutePoints,
        ResumePoints, RestorePoints
  <2>7. QED
    BY <2>1, <2>2, <2>3, <2>4, <2>5, <2>6 DEF EvidenceInv
<1>16. CASE Commit
  <2>1. EvidenceAgrees'
    BY <1>16, <1>0, PublishMayLog, StageNames, StageIsLogged, StageIsLost
    DEF Commit, Goto, StartRollback, Return, nginxVars
  <2>2. LogAtPc'
    BY <1>16, <1>0, PublishMayLog, StageNames, StageIsLogged, StageIsLost
    DEF Commit, Goto, StartRollback, Return, nginxVars, JournalAtPc, LogAtPc, ExecutePoints,
        ResumePoints, RestorePoints, Stages, ForwardStages, BeforeWriteStages, RollbackStages,
        UnfinishedRollback, TerminalStages
  <2>3. MemoryIsLog'
    BY <1>16, <1>0, PublishMayLog, StageNames, StageIsLogged, StageIsLost
    DEF Commit, Goto, StartRollback, Return, nginxVars, MemoryIsLog, LogAtPc, JournalAtPc,
        Service!WriteStages, ExecutePoints, ResumePoints, RestorePoints, Stages, ForwardStages,
        BeforeWriteStages, RollbackStages, UnfinishedRollback, TerminalStages
  <2>4. IdentityRecorded'
    BY <1>16, <1>0, PublishMayLog, StageNames, StageIsLogged, StageIsLost
    DEF Commit, Goto, StartRollback, Return, nginxVars, IdentityRecorded, JournalAtPc, LogAtPc,
        ExecutePoints, ResumePoints, RestorePoints
  <2>5. AnswerStands'
    BY <1>16, <1>0, PublishMayLog, StageNames, StageIsLogged, StageIsLost, <2>1, <2>4, WhenReadable
    DEF Commit, Goto, StartRollback, Return, nginxVars, AnswerStands, AnswerIsDurable, NoReply,
        LogAtPc, MemoryIsLog, ExecutePoints, ResumePoints, RestorePoints
  <2>6. BackupInAnswer'
    BY <1>16, <1>0
    DEF Commit, Goto, StartRollback, Return, nginxVars, BackupInAnswer, ExecutePoints, ResumePoints,
        RestorePoints
  <2>7. QED
    BY <2>1, <2>2, <2>3, <2>4, <2>5, <2>6 DEF EvidenceInv
<1>17. CASE Rollback
  <2>1. EvidenceAgrees'
    BY <1>17, <1>0, RollbackMayLog, StageNames, StageIsLogged, StageIsLost, EvidenceFrame
    DEF Rollback, Goto, NeedsAttention, nginxVars, logVars
  <2>2. LogAtPc'
    <3>1. LastStage(stages) \in ForwardStages => ~Reached("rollback_applying")
      BY NotReached
    <3>2. pc' \in {"verify", "attention"}
      BY <1>17 DEF Rollback, Goto, NeedsAttention
    <3>3. pc' = "verify" => stages' # <<>> /\ LastStage(stages') \in UnfinishedRollback
      BY <1>17, <1>0, <3>1, RollbackMayLog, StageNames, StageIsLogged
      DEF Rollback, Goto, NeedsAttention, logVars, LogAtPc, UnfinishedRollback, RollbackStages
    <3>4. pc' = "attention" => stages' = stages
      BY <1>17, <1>0, RollbackMayLog, StageNames, StageIsLost DEF Rollback, Goto, NeedsAttention
    <3>5. dir' = dir /\ dir
      BY <1>17, <1>0 DEF Rollback
    <3>6. QED
      BY <1>17, <1>0, <3>2, <3>3, <3>4, <3>5
      DEF Rollback, LogAtPc, ExecutePoints, ResumePoints, RestorePoints, UnfinishedRollback,
          RollbackStages
  <2>3. MemoryIsLog'
    <3>1. LastStage(stages) \in ForwardStages => ~Reached("rollback_applying")
      BY NotReached
    <3>2. pc' \in {"verify", "attention"}
      BY <1>17 DEF Rollback, Goto, NeedsAttention
    <3>3. pc' = "verify" => torn' \/ stages' = events'
      BY <1>17, <1>0, <3>1, RollbackMayLog, StageNames, StageIsLogged
      DEF Rollback, Goto, NeedsAttention, logVars, MemoryIsLog
    <3>4. ~torn => events # <<>> /\ LastStage(events) # "needs_attention"
      BY <1>17, <1>0 DEF Rollback, LogAtPc, MemoryIsLog, Service!WriteStages
    <3>5. pc' = "attention" /\ ~torn' => events' # <<>> /\ LastStage(events') # "needs_attention"
      BY <1>17, <1>0, <3>4, RollbackMayLog, StageNames, StageIsLost DEF Rollback, Goto, NeedsAttention
    <3>6. QED
      BY <3>2, <3>3, <3>5 DEF MemoryIsLog, ExecutePoints, ResumePoints, RestorePoints
  <2>4. IdentityRecorded'
    BY <1>17, <1>0, RollbackMayLog, StageNames, StageIsLogged, StageIsLost
    DEF Rollback, Goto, NeedsAttention, nginxVars, logVars, IdentityRecorded, JournalAtPc, LogAtPc,
        ExecutePoints, ResumePoints, RestorePoints, Stages, ForwardStages, BeforeWriteStages,
        RollbackStages, UnfinishedRollback, TerminalStages
  <2>5. AnswerStands'
    BY <1>17, <1>0, RollbackMayLog, StageNames, StageIsLogged, StageIsLost, <2>1, <2>4, WhenReadable
    DEF Rollback, Goto, NeedsAttention, nginxVars, logVars, AnswerStands, AnswerIsDurable, NoReply,
        LogAtPc, MemoryIsLog, ExecutePoints, ResumePoints, RestorePoints
  <2>6. BackupInAnswer'
    BY <1>17, <1>0
    DEF Rollback, Goto, NeedsAttention, nginxVars, logVars, BackupInAnswer, ExecutePoints,
        ResumePoints, RestorePoints
  <2>7. QED
    BY <2>1, <2>2, <2>3, <2>4, <2>5, <2>6 DEF EvidenceInv
<1>18. CASE Verify
  <2>1. EvidenceAgrees'
    BY <1>18, <1>0, EvidenceFrame DEF Verify, Goto, NeedsAttention, nginxVars, diskVars
  <2>2. LogAtPc'
    BY <1>18, <1>0
    DEF Verify, Goto, NeedsAttention, nginxVars, diskVars, JournalAtPc, LogAtPc, ExecutePoints,
        ResumePoints, RestorePoints, Stages, ForwardStages, BeforeWriteStages, RollbackStages,
        UnfinishedRollback, TerminalStages
  <2>3. MemoryIsLog'
    BY <1>18, <1>0
    DEF Verify, Goto, NeedsAttention, nginxVars, diskVars, MemoryIsLog, LogAtPc, JournalAtPc,
        Service!WriteStages, ExecutePoints, ResumePoints, RestorePoints, Stages, ForwardStages,
        BeforeWriteStages, RollbackStages, UnfinishedRollback, TerminalStages
  <2>4. IdentityRecorded'
    BY <1>18, <1>0
    DEF Verify, Goto, NeedsAttention, nginxVars, diskVars, IdentityRecorded, JournalAtPc, LogAtPc,
        ExecutePoints, ResumePoints, RestorePoints
  <2>5. AnswerStands'
    BY <1>18, <1>0, <2>1, <2>4, WhenReadable
    DEF Verify, Goto, NeedsAttention, nginxVars, diskVars, AnswerStands, AnswerIsDurable, NoReply,
        LogAtPc, MemoryIsLog, ExecutePoints, ResumePoints, RestorePoints
  <2>6. BackupInAnswer'
    BY <1>18, <1>0
    DEF Verify, Goto, NeedsAttention, nginxVars, diskVars, BackupInAnswer, ExecutePoints,
        ResumePoints, RestorePoints
  <2>7. QED
    BY <2>1, <2>2, <2>3, <2>4, <2>5, <2>6 DEF EvidenceInv
<1>19. CASE RestoreFile
  <2>1. EvidenceAgrees'
    BY <1>19, <1>0, EvidenceFrame DEF RestoreFile, Goto, NeedsAttention, nginxVars, diskVars
  <2>2. LogAtPc'
    BY <1>19, <1>0
    DEF RestoreFile, Goto, NeedsAttention, nginxVars, diskVars, JournalAtPc, LogAtPc, ExecutePoints,
        ResumePoints, RestorePoints, Stages, ForwardStages, BeforeWriteStages, RollbackStages,
        UnfinishedRollback, TerminalStages
  <2>3. MemoryIsLog'
    BY <1>19, <1>0
    DEF RestoreFile, Goto, NeedsAttention, nginxVars, diskVars, MemoryIsLog, LogAtPc, JournalAtPc,
        Service!WriteStages, ExecutePoints, ResumePoints, RestorePoints, Stages, ForwardStages,
        BeforeWriteStages, RollbackStages, UnfinishedRollback, TerminalStages
  <2>4. IdentityRecorded'
    BY <1>19, <1>0
    DEF RestoreFile, Goto, NeedsAttention, nginxVars, diskVars, IdentityRecorded, JournalAtPc,
        LogAtPc, ExecutePoints, ResumePoints, RestorePoints
  <2>5. AnswerStands'
    BY <1>19, <1>0, <2>1, <2>4, WhenReadable
    DEF RestoreFile, Goto, NeedsAttention, nginxVars, diskVars, AnswerStands, AnswerIsDurable,
        NoReply, LogAtPc, MemoryIsLog, ExecutePoints, ResumePoints, RestorePoints
  <2>6. BackupInAnswer'
    BY <1>19, <1>0
    DEF RestoreFile, Goto, NeedsAttention, nginxVars, diskVars, BackupInAnswer, ExecutePoints,
        ResumePoints, RestorePoints
  <2>7. QED
    BY <2>1, <2>2, <2>3, <2>4, <2>5, <2>6 DEF EvidenceInv
<1>20. CASE RestoreDone
  <2>1. EvidenceAgrees'
    BY <1>20, <1>0, RollbackMayLog, StageNames, StageIsLogged, StageIsLost, OrderFacts,
       EvidenceFrame
    DEF RestoreDone, Goto, NeedsAttention, nginxVars, logVars
  <2>2. LogAtPc'
    BY <1>20, <1>0, RollbackMayLog, StageNames, StageIsLogged, StageIsLost, OrderFacts
    DEF RestoreDone, Goto, NeedsAttention, nginxVars, logVars, Reached, JournalAtPc, LogAtPc,
        ExecutePoints, ResumePoints, RestorePoints, Stages, ForwardStages, BeforeWriteStages,
        RollbackStages, UnfinishedRollback, TerminalStages
  <2>3. MemoryIsLog'
    BY <1>20, <1>0, RollbackMayLog, StageNames, StageIsLogged, StageIsLost, OrderFacts
    DEF RestoreDone, Goto, NeedsAttention, nginxVars, logVars, MemoryIsLog, LogAtPc, JournalAtPc,
        Service!WriteStages, ExecutePoints, ResumePoints, RestorePoints, Stages, ForwardStages,
        BeforeWriteStages, RollbackStages, UnfinishedRollback, TerminalStages
  <2>4. IdentityRecorded'
    BY <1>20, <1>0, RollbackMayLog, StageNames, StageIsLogged, StageIsLost, OrderFacts
    DEF RestoreDone, Goto, NeedsAttention, nginxVars, logVars, IdentityRecorded, JournalAtPc,
        LogAtPc, ExecutePoints, ResumePoints, RestorePoints, Stages, ForwardStages,
        BeforeWriteStages, RollbackStages, UnfinishedRollback, TerminalStages
  <2>5. AnswerStands'
    BY <1>20, <1>0, RollbackMayLog, StageNames, StageIsLogged, StageIsLost, OrderFacts, <2>1, <2>4,
       WhenReadable
    DEF RestoreDone, Goto, NeedsAttention, nginxVars, logVars, AnswerStands, AnswerIsDurable,
        NoReply, LogAtPc, MemoryIsLog, ExecutePoints, ResumePoints, RestorePoints
  <2>6. BackupInAnswer'
    BY <1>20, <1>0
    DEF RestoreDone, Goto, NeedsAttention, nginxVars, logVars, BackupInAnswer, ExecutePoints,
        ResumePoints, RestorePoints
  <2>7. QED
    BY <2>1, <2>2, <2>3, <2>4, <2>5, <2>6 DEF EvidenceInv
<1>21. CASE Retest
  <2>1. EvidenceAgrees'
    BY <1>21, <1>0, RollbackMayLog, StageNames, StageIsLogged, StageIsLost, OrderFacts,
       EvidenceFrame
    DEF Retest, Goto, NeedsAttention, nginxVars, logVars
  <2>2. LogAtPc'
    BY <1>21, <1>0, RollbackMayLog, StageNames, StageIsLogged, StageIsLost, OrderFacts
    DEF Retest, Goto, NeedsAttention, nginxVars, logVars, Reached, JournalAtPc, LogAtPc,
        ExecutePoints, ResumePoints, RestorePoints, Stages, ForwardStages, BeforeWriteStages,
        RollbackStages, UnfinishedRollback, TerminalStages
  <2>3. MemoryIsLog'
    BY <1>21, <1>0, RollbackMayLog, StageNames, StageIsLogged, StageIsLost, OrderFacts
    DEF Retest, Goto, NeedsAttention, nginxVars, logVars, MemoryIsLog, LogAtPc, JournalAtPc,
        Service!WriteStages, ExecutePoints, ResumePoints, RestorePoints, Stages, ForwardStages,
        BeforeWriteStages, RollbackStages, UnfinishedRollback, TerminalStages
  <2>4. IdentityRecorded'
    BY <1>21, <1>0, RollbackMayLog, StageNames, StageIsLogged, StageIsLost, OrderFacts
    DEF Retest, Goto, NeedsAttention, nginxVars, logVars, IdentityRecorded, JournalAtPc, LogAtPc,
        ExecutePoints, ResumePoints, RestorePoints, Stages, ForwardStages, BeforeWriteStages,
        RollbackStages, UnfinishedRollback, TerminalStages
  <2>5. AnswerStands'
    BY <1>21, <1>0, RollbackMayLog, StageNames, StageIsLogged, StageIsLost, OrderFacts, <2>1, <2>4,
       WhenReadable
    DEF Retest, Goto, NeedsAttention, nginxVars, logVars, AnswerStands, AnswerIsDurable, NoReply,
        LogAtPc, MemoryIsLog, ExecutePoints, ResumePoints, RestorePoints
  <2>6. BackupInAnswer'
    BY <1>21, <1>0
    DEF Retest, Goto, NeedsAttention, nginxVars, logVars, BackupInAnswer, ExecutePoints,
        ResumePoints, RestorePoints
  <2>7. QED
    BY <2>1, <2>2, <2>3, <2>4, <2>5, <2>6 DEF EvidenceInv
<1>22. CASE RollbackReload
  <2>1. EvidenceAgrees'
    BY <1>22, <1>0, OrderFacts, EvidenceFrame
    DEF RollbackReload, Goto, SendReload, diskVars, callVars
  <2>2. LogAtPc'
    BY <1>22, <1>0, OrderFacts
    DEF RollbackReload, Goto, SendReload, diskVars, callVars, Reached, JournalAtPc, LogAtPc,
        ExecutePoints, ResumePoints, RestorePoints, Stages, ForwardStages, BeforeWriteStages,
        RollbackStages, UnfinishedRollback, TerminalStages
  <2>3. MemoryIsLog'
    BY <1>22, <1>0, OrderFacts
    DEF RollbackReload, Goto, SendReload, diskVars, callVars, MemoryIsLog, LogAtPc, JournalAtPc,
        Service!WriteStages, ExecutePoints, ResumePoints, RestorePoints, Stages, ForwardStages,
        BeforeWriteStages, RollbackStages, UnfinishedRollback, TerminalStages
  <2>4. IdentityRecorded'
    BY <1>22, <1>0, OrderFacts
    DEF RollbackReload, Goto, SendReload, diskVars, callVars, IdentityRecorded, JournalAtPc,
        LogAtPc, ExecutePoints, ResumePoints, RestorePoints
  <2>5. AnswerStands'
    BY <1>22, <1>0, OrderFacts, <2>1, <2>4, WhenReadable
    DEF RollbackReload, Goto, SendReload, diskVars, callVars, AnswerStands, AnswerIsDurable,
        NoReply, LogAtPc, MemoryIsLog, ExecutePoints, ResumePoints, RestorePoints
  <2>6. BackupInAnswer'
    BY <1>22, <1>0
    DEF RollbackReload, Goto, SendReload, diskVars, callVars, BackupInAnswer, ExecutePoints,
        ResumePoints, RestorePoints
  <2>7. QED
    BY <2>1, <2>2, <2>3, <2>4, <2>5, <2>6 DEF EvidenceInv
<1>23. CASE LogRollbackReload
  <2>1. EvidenceAgrees'
    BY <1>23, <1>0, RollbackMayLog, StageNames, StageIsLogged, StageIsLost
    DEF LogRollbackReload, Goto, NeedsAttention, nginxVars
  <2>2. LogAtPc'
    BY <1>23, <1>0, RollbackMayLog, StageNames, StageIsLogged, StageIsLost
    DEF LogRollbackReload, Goto, NeedsAttention, nginxVars, JournalAtPc, LogAtPc, ExecutePoints,
        ResumePoints, RestorePoints, Stages, ForwardStages, BeforeWriteStages, RollbackStages,
        UnfinishedRollback, TerminalStages
  <2>3. MemoryIsLog'
    BY <1>23, <1>0, RollbackMayLog, StageNames, StageIsLogged, StageIsLost
    DEF LogRollbackReload, Goto, NeedsAttention, nginxVars, MemoryIsLog, LogAtPc, JournalAtPc,
        Service!WriteStages, ExecutePoints, ResumePoints, RestorePoints, Stages, ForwardStages,
        BeforeWriteStages, RollbackStages, UnfinishedRollback, TerminalStages
  <2>4. IdentityRecorded'
    BY <1>23, <1>0, RollbackMayLog, StageNames, StageIsLogged, StageIsLost
    DEF LogRollbackReload, Goto, NeedsAttention, nginxVars, IdentityRecorded, JournalAtPc, LogAtPc,
        ExecutePoints, ResumePoints, RestorePoints, Stages, ForwardStages, BeforeWriteStages,
        RollbackStages, UnfinishedRollback, TerminalStages
  <2>5. AnswerStands'
    BY <1>23, <1>0, RollbackMayLog, StageNames, StageIsLogged, StageIsLost, <2>1, <2>4, WhenReadable
    DEF LogRollbackReload, Goto, NeedsAttention, nginxVars, AnswerStands, AnswerIsDurable, NoReply,
        LogAtPc, MemoryIsLog, ExecutePoints, ResumePoints, RestorePoints
  <2>6. BackupInAnswer'
    BY <1>23, <1>0
    DEF LogRollbackReload, Goto, NeedsAttention, nginxVars, BackupInAnswer, ExecutePoints,
        ResumePoints, RestorePoints
  <2>7. QED
    BY <2>1, <2>2, <2>3, <2>4, <2>5, <2>6 DEF EvidenceInv
<1>24. CASE LogRollbackReloadFailure
  <2>1. EvidenceAgrees'
    BY <1>24, <1>0, RollbackMayLog, StageNames, StageIsLogged, StageIsLost
    DEF LogRollbackReloadFailure, Goto, NeedsAttention, nginxVars
  <2>2. LogAtPc'
    BY <1>24, <1>0, RollbackMayLog, StageNames, StageIsLogged, StageIsLost
    DEF LogRollbackReloadFailure, Goto, NeedsAttention, nginxVars, JournalAtPc, LogAtPc,
        ExecutePoints, ResumePoints, RestorePoints, Stages, ForwardStages, BeforeWriteStages,
        RollbackStages, UnfinishedRollback, TerminalStages
  <2>3. MemoryIsLog'
    BY <1>24, <1>0, RollbackMayLog, StageNames, StageIsLogged, StageIsLost
    DEF LogRollbackReloadFailure, Goto, NeedsAttention, nginxVars, MemoryIsLog, LogAtPc,
        JournalAtPc, Service!WriteStages, ExecutePoints, ResumePoints, RestorePoints, Stages,
        ForwardStages, BeforeWriteStages, RollbackStages, UnfinishedRollback, TerminalStages
  <2>4. IdentityRecorded'
    BY <1>24, <1>0, RollbackMayLog, StageNames, StageIsLogged, StageIsLost
    DEF LogRollbackReloadFailure, Goto, NeedsAttention, nginxVars, IdentityRecorded, JournalAtPc,
        LogAtPc, ExecutePoints, ResumePoints, RestorePoints, Stages, ForwardStages,
        BeforeWriteStages, RollbackStages, UnfinishedRollback, TerminalStages
  <2>5. AnswerStands'
    BY <1>24, <1>0, RollbackMayLog, StageNames, StageIsLogged, StageIsLost, <2>1, <2>4, WhenReadable
    DEF LogRollbackReloadFailure, Goto, NeedsAttention, nginxVars, AnswerStands, AnswerIsDurable,
        NoReply, LogAtPc, MemoryIsLog, ExecutePoints, ResumePoints, RestorePoints
  <2>6. BackupInAnswer'
    BY <1>24, <1>0
    DEF LogRollbackReloadFailure, Goto, NeedsAttention, nginxVars, BackupInAnswer, ExecutePoints,
        ResumePoints, RestorePoints
  <2>7. QED
    BY <2>1, <2>2, <2>3, <2>4, <2>5, <2>6 DEF EvidenceInv
<1>25. CASE RollbackConfirm
  <2>1. EvidenceAgrees'
    BY <1>25, <1>0, RollbackMayLog, StageNames, StageIsLogged, StageIsLost, EvidenceFrame
    DEF RollbackConfirm, Goto, NeedsAttention, Return, nginxVars, logVars
  <2>2. LogAtPc'
    BY <1>25, <1>0, RollbackMayLog, StageNames, StageIsLogged, StageIsLost
    DEF RollbackConfirm, Goto, NeedsAttention, Return, nginxVars, logVars, JournalAtPc, LogAtPc,
        ExecutePoints, ResumePoints, RestorePoints, Stages, ForwardStages, BeforeWriteStages,
        RollbackStages, UnfinishedRollback, TerminalStages
  <2>3. MemoryIsLog'
    BY <1>25, <1>0, RollbackMayLog, StageNames, StageIsLogged, StageIsLost
    DEF RollbackConfirm, Goto, NeedsAttention, Return, nginxVars, logVars, MemoryIsLog, LogAtPc,
        JournalAtPc, Service!WriteStages, ExecutePoints, ResumePoints, RestorePoints, Stages,
        ForwardStages, BeforeWriteStages, RollbackStages, UnfinishedRollback, TerminalStages
  <2>4. IdentityRecorded'
    BY <1>25, <1>0, RollbackMayLog, StageNames, StageIsLogged, StageIsLost
    DEF RollbackConfirm, Goto, NeedsAttention, Return, nginxVars, logVars, IdentityRecorded,
        JournalAtPc, LogAtPc, ExecutePoints, ResumePoints, RestorePoints, Stages, ForwardStages,
        BeforeWriteStages, RollbackStages, UnfinishedRollback, TerminalStages
  <2>5. AnswerStands'
    BY <1>25, <1>0, RollbackMayLog, StageNames, StageIsLogged, StageIsLost, <2>1, <2>4, WhenReadable
    DEF RollbackConfirm, Goto, NeedsAttention, Return, nginxVars, logVars, AnswerStands,
        AnswerIsDurable, NoReply, LogAtPc, MemoryIsLog, ExecutePoints, ResumePoints, RestorePoints
  <2>6. BackupInAnswer'
    BY <1>25, <1>0
    DEF RollbackConfirm, Goto, NeedsAttention, Return, nginxVars, logVars, BackupInAnswer,
        ExecutePoints, ResumePoints, RestorePoints
  <2>7. QED
    BY <2>1, <2>2, <2>3, <2>4, <2>5, <2>6 DEF EvidenceInv
<1>26. CASE Attend
  <2>1. EvidenceAgrees'
    BY <1>26, <1>0, RollbackMayLog, StageNames, StageIsLogged, StageIsLost
    DEF Attend, Return, nginxVars
  <2>2. LogAtPc'
    BY <1>26, <1>0, RollbackMayLog, StageNames, StageIsLogged, StageIsLost
    DEF Attend, Return, nginxVars, JournalAtPc, LogAtPc, ExecutePoints, ResumePoints, RestorePoints,
        Stages, ForwardStages, BeforeWriteStages, RollbackStages, UnfinishedRollback, TerminalStages
  <2>3. MemoryIsLog'
    BY <1>26, <1>0, RollbackMayLog, StageNames, StageIsLogged, StageIsLost
    DEF Attend, Return, nginxVars, MemoryIsLog, LogAtPc, JournalAtPc, Service!WriteStages,
        ExecutePoints, ResumePoints, RestorePoints, Stages, ForwardStages, BeforeWriteStages,
        RollbackStages, UnfinishedRollback, TerminalStages
  <2>4. IdentityRecorded'
    BY <1>26, <1>0, RollbackMayLog, StageNames, StageIsLogged, StageIsLost
    DEF Attend, Return, nginxVars, IdentityRecorded, JournalAtPc, LogAtPc, ExecutePoints,
        ResumePoints, RestorePoints, Stages, ForwardStages, BeforeWriteStages, RollbackStages,
        UnfinishedRollback, TerminalStages
  <2>5. AnswerStands'
    BY <1>26, <1>0, RollbackMayLog, StageNames, StageIsLogged, StageIsLost, <2>1, <2>4, WhenReadable
    DEF Attend, Return, nginxVars, AnswerStands, AnswerIsDurable, NoReply, LogAtPc, MemoryIsLog,
        ExecutePoints, ResumePoints, RestorePoints
  <2>6. BackupInAnswer'
    BY <1>26, <1>0
    DEF Attend, Return, nginxVars, BackupInAnswer, ExecutePoints, ResumePoints, RestorePoints
  <2>7. QED
    BY <2>1, <2>2, <2>3, <2>4, <2>5, <2>6 DEF EvidenceInv
<1>27. CASE ReadEvidence
  <2>1. EvidenceAgrees'
    <3>1. CASE UNCHANGED <<events, torn, stages>>
      BY <1>27, <1>0, <3>1, EvidenceFrame DEF ReadEvidence, logVars
    <3>2. CASE stages' = events /\ UNCHANGED events
      BY <1>27, <1>0, <3>2, ReadBack DEF ReadEvidence, logVars
    <3>3. CASE /\ Readable /\ ~LogIsCurrent /\ events' = Append(events, journal.stage)
               /\ stages' \in {events, events'} /\ UNCHANGED torn
      BY <1>27, <1>0, <3>3, CatchUp DEF ReadEvidence, logVars
    <3>4. QED
      BY <1>27, <3>1, <3>2, <3>3 DEF ReadEvidence, logVars
  <2>2. LogAtPc'
    <3>1. pc' = "idle" \/ (pc' = "dispatch" /\ stages' # <<>> /\ LastStage(stages') = journal.stage)
      <4>1. CASE Uncertain
        BY <4>1 DEF Uncertain, Return
      <4>2. CASE Goto("dispatch") /\ Readable /\ LogIsCurrent /\ stages' = events
        BY <4>2 DEF Goto, LogIsCurrent
      <4>3. CASE /\ Goto("dispatch") /\ Readable /\ ~LogIsCurrent
                 /\ events' = Append(events, journal.stage) /\ stages' = events'
        BY <1>0, <4>3, AheadByOne, LastOfAppend DEF Goto, LogTypeOK
      <4>4. QED
        BY <1>27, <4>1, <4>2, <4>3, Zenon DEF ReadEvidence
    <3>2. ~dir' => events' = events /\ stages' = stages /\ torn' = torn
      BY <1>27, <1>0 DEF ReadEvidence, Readable, logVars
    <3>3. journal' = journal /\ dir' = dir
      BY <1>27 DEF ReadEvidence, logVars
    <3>4. QED
      BY <1>0, <3>1, <3>2, <3>3 DEF LogAtPc, ExecutePoints, ResumePoints, RestorePoints
  <2>3. MemoryIsLog'
    <3>1. pc' = "idle" \/ (pc' = "dispatch" /\ ~torn' /\ stages' = events')
      <4>1. CASE Uncertain
        BY <4>1 DEF Uncertain, Return
      <4>2. CASE Goto("dispatch") /\ Readable /\ stages' = events' /\ UNCHANGED torn
        BY <4>2 DEF Goto, Readable
      <4>3. QED
        BY <1>27, <4>1, <4>2, Zenon DEF ReadEvidence, logVars
    <3>2. QED
      BY <3>1 DEF MemoryIsLog, ExecutePoints, ResumePoints, RestorePoints
  <2>4. IdentityRecorded'
    BY <1>27, <1>0
    DEF ReadEvidence, Goto, nginxVars, logVars, Uncertain, Return, IdentityRecorded, JournalAtPc,
        LogAtPc, ExecutePoints, ResumePoints, RestorePoints
  <2>5. AnswerStands'
    <3>1. pc' = "dispatch" \/ (pc' = "idle" /\ reply'.state = "needs_attention")
      <4>1. Uncertain \/ Goto("dispatch")
        BY <1>27, Zenon DEF ReadEvidence
      <4>2. Uncertain => pc' = "idle" /\ reply'.state = "needs_attention"
        BY DEF Uncertain, Return
      <4>3. QED
        BY <4>1, <4>2 DEF Goto
    <3>2. QED
      BY <3>1 DEF AnswerStands, AnswerIsDurable
  <2>6. BackupInAnswer'
    BY <1>27, <1>0
    DEF ReadEvidence, Goto, nginxVars, logVars, Uncertain, Return, BackupInAnswer, ExecutePoints,
        ResumePoints, RestorePoints
  <2>7. QED
    BY <2>1, <2>2, <2>3, <2>4, <2>5, <2>6 DEF EvidenceInv
<1>28. CASE Dispatch
  <2>1. EvidenceAgrees'
    BY <1>28, <1>0, EvidenceFrame
    DEF Dispatch, Goto, NeedsAttention, Return, nginxVars, diskVars, callVars
  <2>2. LogAtPc'
    BY <1>28, <1>0
    DEF Dispatch, Goto, NeedsAttention, Return, nginxVars, diskVars, callVars, JournalAtPc, LogAtPc,
        ExecutePoints, ResumePoints, RestorePoints, Stages, ForwardStages, BeforeWriteStages,
        RollbackStages, UnfinishedRollback, TerminalStages
  <2>3. MemoryIsLog'
    BY <1>28, <1>0
    DEF Dispatch, Goto, NeedsAttention, Return, nginxVars, diskVars, callVars, MemoryIsLog, LogAtPc,
        JournalAtPc, Service!WriteStages, ExecutePoints, ResumePoints, RestorePoints, Stages,
        ForwardStages, BeforeWriteStages, RollbackStages, UnfinishedRollback, TerminalStages
  <2>4. IdentityRecorded'
    BY <1>28, <1>0
    DEF Dispatch, Goto, NeedsAttention, Return, nginxVars, diskVars, callVars, IdentityRecorded,
        JournalAtPc, LogAtPc, ExecutePoints, ResumePoints, RestorePoints
  <2>5. AnswerStands'
    BY <1>28, <1>0, <2>1, <2>4, WhenReadable
    DEF Dispatch, Goto, NeedsAttention, Return, nginxVars, diskVars, callVars, AnswerStands,
        AnswerIsDurable, NoReply, LogAtPc, MemoryIsLog, ExecutePoints, ResumePoints, RestorePoints
  <2>6. BackupInAnswer'
    BY <1>28, <1>0
    DEF Dispatch, Goto, NeedsAttention, Return, nginxVars, diskVars, callVars, BackupInAnswer,
        ExecutePoints, ResumePoints, RestorePoints
  <2>7. QED
    BY <2>1, <2>2, <2>3, <2>4, <2>5, <2>6 DEF EvidenceInv
<1>29. CASE Decide
  <2>1. EvidenceAgrees'
    BY <1>29, <1>0, PublishMayLog, StageNames, StageIsLogged, StageIsLost, EvidenceFrame
    DEF Decide, Goto, StartRollback, NeedsAttention, Return, nginxVars, logVars
  <2>2. LogAtPc'
    BY <1>29, <1>0, PublishMayLog, StageNames, StageIsLogged, StageIsLost
    DEF Decide, Goto, StartRollback, NeedsAttention, Return, nginxVars, logVars, JournalAtPc,
        LogAtPc, ExecutePoints, ResumePoints, RestorePoints, Stages, ForwardStages,
        BeforeWriteStages, RollbackStages, UnfinishedRollback, TerminalStages
  <2>3. MemoryIsLog'
    BY <1>29, <1>0, PublishMayLog, StageNames, StageIsLogged, StageIsLost
    DEF Decide, Goto, StartRollback, NeedsAttention, Return, nginxVars, logVars, MemoryIsLog,
        LogAtPc, JournalAtPc, Service!WriteStages, ExecutePoints, ResumePoints, RestorePoints,
        Stages, ForwardStages, BeforeWriteStages, RollbackStages, UnfinishedRollback, TerminalStages
  <2>4. IdentityRecorded'
    BY <1>29, <1>0, PublishMayLog, StageNames, StageIsLogged, StageIsLost
    DEF Decide, Goto, StartRollback, NeedsAttention, Return, nginxVars, logVars, IdentityRecorded,
        JournalAtPc, LogAtPc, ExecutePoints, ResumePoints, RestorePoints
  <2>5. AnswerStands'
    BY <1>29, <1>0, PublishMayLog, StageNames, StageIsLogged, StageIsLost, <2>1, <2>4, WhenReadable
    DEF Decide, Goto, StartRollback, NeedsAttention, Return, nginxVars, logVars, AnswerStands,
        AnswerIsDurable, NoReply, LogAtPc, MemoryIsLog, ExecutePoints, ResumePoints, RestorePoints
  <2>6. BackupInAnswer'
    BY <1>29, <1>0
    DEF Decide, Goto, StartRollback, NeedsAttention, Return, nginxVars, logVars, BackupInAnswer,
        ExecutePoints, ResumePoints, RestorePoints
  <2>7. QED
    BY <2>1, <2>2, <2>3, <2>4, <2>5, <2>6 DEF EvidenceInv
<1>30. CASE Resume
  <2>1. EvidenceAgrees'
    BY <1>30, <1>0, PublishMayLog, StageNames, StageIsLogged, StageIsLost, EvidenceFrame
    DEF Resume, Goto, StartRollback, NeedsAttention, nginxVars, logVars
  <2>2. LogAtPc'
    BY <1>30, <1>0, PublishMayLog, StageNames, StageIsLogged, StageIsLost
    DEF Resume, Goto, StartRollback, NeedsAttention, nginxVars, logVars, JournalAtPc, LogAtPc,
        ExecutePoints, ResumePoints, RestorePoints, Stages, ForwardStages, BeforeWriteStages,
        RollbackStages, UnfinishedRollback, TerminalStages
  <2>3. MemoryIsLog'
    <3>1. events # <<>> /\ LastStage(events) # "needs_attention" /\ ~torn /\ stages = events
      BY <1>30, <1>0 DEF Resume, JournalAtPc, LogAtPc, MemoryIsLog, ResumePoints
    <3>2. pc' \in {"finish", "rollback", "attention"}
      BY <1>30 DEF Resume, Goto, StartRollback, NeedsAttention
    <3>3. pc' \in {"finish", "rollback"} => ~torn' /\ stages' = events'
      BY <1>30, <1>0, <3>1, PublishMayLog, StageNames, StageIsLogged
      DEF Resume, Goto, StartRollback, NeedsAttention, logVars
    <3>4. pc' = "attention" /\ ~torn' => events' # <<>> /\ LastStage(events') # "needs_attention"
      BY <1>30, <1>0, <3>1, PublishMayLog, StageNames, StageIsLost
      DEF Resume, Goto, StartRollback, NeedsAttention
    <3>5. QED
      BY <3>2, <3>3, <3>4 DEF MemoryIsLog, ExecutePoints, ResumePoints, RestorePoints
  <2>4. IdentityRecorded'
    BY <1>30, <1>0, PublishMayLog, StageNames, StageIsLogged, StageIsLost
    DEF Resume, Goto, StartRollback, NeedsAttention, nginxVars, logVars, IdentityRecorded,
        JournalAtPc, LogAtPc, ExecutePoints, ResumePoints, RestorePoints
  <2>5. AnswerStands'
    BY <1>30, <1>0, PublishMayLog, StageNames, StageIsLogged, StageIsLost, <2>1, <2>4, WhenReadable
    DEF Resume, Goto, StartRollback, NeedsAttention, nginxVars, logVars, AnswerStands,
        AnswerIsDurable, NoReply, LogAtPc, MemoryIsLog, ExecutePoints, ResumePoints, RestorePoints
  <2>6. BackupInAnswer'
    BY <1>30, <1>0
    DEF Resume, Goto, StartRollback, NeedsAttention, nginxVars, logVars, BackupInAnswer,
        ExecutePoints, ResumePoints, RestorePoints
  <2>7. QED
    BY <2>1, <2>2, <2>3, <2>4, <2>5, <2>6 DEF EvidenceInv
<1>31. CASE Finish
  <2>1. EvidenceAgrees'
    BY <1>31, <1>0, PublishMayLog, StageNames, StageIsLogged, StageIsLost
    DEF Finish, Goto, NeedsAttention, Return, nginxVars
  <2>2. LogAtPc'
    BY <1>31, <1>0, PublishMayLog, StageNames, StageIsLogged, StageIsLost
    DEF Finish, Goto, NeedsAttention, Return, nginxVars, JournalAtPc, LogAtPc, ExecutePoints,
        ResumePoints, RestorePoints, Stages, ForwardStages, BeforeWriteStages, RollbackStages,
        UnfinishedRollback, TerminalStages
  <2>3. MemoryIsLog'
    BY <1>31, <1>0, PublishMayLog, StageNames, StageIsLogged, StageIsLost
    DEF Finish, Goto, NeedsAttention, Return, nginxVars, MemoryIsLog, LogAtPc, JournalAtPc,
        Service!WriteStages, ExecutePoints, ResumePoints, RestorePoints, Stages, ForwardStages,
        BeforeWriteStages, RollbackStages, UnfinishedRollback, TerminalStages
  <2>4. IdentityRecorded'
    BY <1>31, <1>0, PublishMayLog, StageNames, StageIsLogged, StageIsLost
    DEF Finish, Goto, NeedsAttention, Return, nginxVars, IdentityRecorded, JournalAtPc, LogAtPc,
        ExecutePoints, ResumePoints, RestorePoints
  <2>5. AnswerStands'
    BY <1>31, <1>0, PublishMayLog, StageNames, StageIsLogged, StageIsLost, <2>1, <2>4, WhenReadable
    DEF Finish, Goto, NeedsAttention, Return, nginxVars, AnswerStands, AnswerIsDurable, NoReply,
        LogAtPc, MemoryIsLog, ExecutePoints, ResumePoints, RestorePoints
  <2>6. BackupInAnswer'
    BY <1>31, <1>0
    DEF Finish, Goto, NeedsAttention, Return, nginxVars, BackupInAnswer, ExecutePoints,
        ResumePoints, RestorePoints
  <2>7. QED
    BY <2>1, <2>2, <2>3, <2>4, <2>5, <2>6 DEF EvidenceInv
<1>32. CASE Crash
  <2>1. EvidenceAgrees'
    BY <1>32, <1>0, EvidenceFrame DEF Crash, nginxVars, diskVars
  <2>2. LogAtPc'
    BY <1>32, <1>0
    DEF Crash, nginxVars, diskVars, JournalAtPc, LogAtPc, ExecutePoints, ResumePoints,
        RestorePoints, Stages, ForwardStages, BeforeWriteStages, RollbackStages, UnfinishedRollback,
        TerminalStages
  <2>3. MemoryIsLog'
    BY <1>32, <1>0
    DEF Crash, nginxVars, diskVars, MemoryIsLog, LogAtPc, JournalAtPc, Service!WriteStages,
        ExecutePoints, ResumePoints, RestorePoints, Stages, ForwardStages, BeforeWriteStages,
        RollbackStages, UnfinishedRollback, TerminalStages
  <2>4. IdentityRecorded'
    BY <1>32, <1>0
    DEF Crash, nginxVars, diskVars, IdentityRecorded, JournalAtPc, LogAtPc, ExecutePoints,
        ResumePoints, RestorePoints
  <2>5. AnswerStands'
    BY <1>32, <1>0, <2>1, <2>4, WhenReadable
    DEF Crash, nginxVars, diskVars, AnswerStands, AnswerIsDurable, NoReply, LogAtPc, MemoryIsLog,
        ExecutePoints, ResumePoints, RestorePoints
  <2>6. BackupInAnswer'
    BY <1>32, <1>0
    DEF Crash, nginxVars, diskVars, BackupInAnswer, ExecutePoints, ResumePoints, RestorePoints
  <2>7. QED
    BY <2>1, <2>2, <2>3, <2>4, <2>5, <2>6 DEF EvidenceInv
<1>33. CASE Restart
  <2>1. EvidenceAgrees'
    BY <1>33, <1>0, EvidenceFrame DEF Restart, Goto, nginxVars, diskVars, callVars
  <2>2. LogAtPc'
    BY <1>33, <1>0
    DEF Restart, Goto, nginxVars, diskVars, callVars, JournalAtPc, LogAtPc, ExecutePoints,
        ResumePoints, RestorePoints, Stages, ForwardStages, BeforeWriteStages, RollbackStages,
        UnfinishedRollback, TerminalStages
  <2>3. MemoryIsLog'
    BY <1>33, <1>0
    DEF Restart, Goto, nginxVars, diskVars, callVars, MemoryIsLog, LogAtPc, JournalAtPc,
        Service!WriteStages, ExecutePoints, ResumePoints, RestorePoints, Stages, ForwardStages,
        BeforeWriteStages, RollbackStages, UnfinishedRollback, TerminalStages
  <2>4. IdentityRecorded'
    BY <1>33, <1>0
    DEF Restart, Goto, nginxVars, diskVars, callVars, IdentityRecorded, JournalAtPc, LogAtPc,
        ExecutePoints, ResumePoints, RestorePoints
  <2>5. AnswerStands'
    BY <1>33, <1>0, <2>1, <2>4, WhenReadable
    DEF Restart, Goto, nginxVars, diskVars, callVars, AnswerStands, AnswerIsDurable, NoReply,
        LogAtPc, MemoryIsLog, ExecutePoints, ResumePoints, RestorePoints
  <2>6. BackupInAnswer'
    BY <1>33, <1>0
    DEF Restart, Goto, nginxVars, diskVars, callVars, BackupInAnswer, ExecutePoints, ResumePoints,
        RestorePoints
  <2>7. QED
    BY <2>1, <2>2, <2>3, <2>4, <2>5, <2>6 DEF EvidenceInv
<1>34. CASE NginxReload
  BY <1>34, EvidenceUnchanged DEF NginxReload, diskVars, callVars
<1>35. CASE NginxExit
  BY <1>35, EvidenceUnchanged DEF NginxExit, diskVars, callVars
<1>36. CASE NginxStart
  BY <1>36, EvidenceUnchanged DEF NginxStart, diskVars, callVars
<1>37. CASE Edit
  BY <1>37, EvidenceUnchanged DEF Edit, nginxVars, diskVars, callVars
<1>38. CASE UNCHANGED vars
  BY <1>38, EvidenceUnchanged DEF vars
<1>39. QED
  BY <1>1, <1>2, <1>3, <1>4, <1>5, <1>6, <1>7, <1>8, <1>9, <1>10, <1>11, <1>12, <1>13, <1>14, <1>15,
     <1>16, <1>17, <1>18, <1>19, <1>20, <1>21, <1>22, <1>23, <1>24, <1>25, <1>26, <1>27, <1>28,
     <1>29, <1>30, <1>31, <1>32, <1>33, <1>34, <1>35, <1>36, <1>37, <1>38
  DEF Next, AgentStep, PublishStep, RollbackStep, RecoverStep, EnvironmentStep

\* The evidence before the first call.
LEMMA EvidenceInit == Init => EvidenceInv
<1> SUFFICES ASSUME Init PROVE EvidenceInv
  OBVIOUS
<1>1. events = <<>> /\ stages = <<>> /\ journal.stage = "none" /\ ~torn /\ ~backup /\ pc = "idle" /\ reply = NoReply
  BY DEF Init
<1>2. InOrder(<<>>)
  BY DEF InOrder
<1>3. QED
  BY <1>1, <1>2
  DEF EvidenceInv, LogAtPc, MemoryIsLog, EvidenceAgrees, IdentityRecorded, AnswerStands, NoReply,
      AnswerIsDurable, BackupInAnswer, ExecutePoints, ResumePoints, RestorePoints

\* The log, the journal and what the running call knows agree as EvidenceInv says, whatever calls,
\* crashes and recoveries come, and wherever a write or its completion fails.
THEOREM EvidenceInvariance == Spec => []EvidenceInv
BY EvidenceInit, EvidenceStep, Invariance, PTL DEF Spec

\* What the Agent has answered can be asked for again after any crash, and what it has logged can be
\* read again unless the log was torn (appendStage, readReleaseEvidence).
THEOREM EvidenceLasts == Spec => []EvidenceEndures
<1>1. LogTypeOK /\ EvidenceInv => EvidenceEndures
  BY WhenReadable DEF EvidenceInv, EvidenceEndures, AnswerStands, EvidenceStaysReadable
<1>2. IInv => LogTypeOK
  BY TypeParts DEF IInv
<1>3. QED
  BY <1>1, <1>2, EvidenceInvariance, Invariance, PTL

-------------------------------------------------------------------------------
(* ReleaseAgent implements AgentService.                                       *)

\* What AgentService can see of a step that logs: the log grows, or is torn, or stays.
Moved ==
  \/ Service!Grows
  \/ Service!Tears /\ UNCHANGED stages
  \/ UNCHANGED <<events, torn, stages>>

\* The verdict that the journal or the answer ends with agrees with production.
LEMMA VerdictAgrees ==
  /\ IInv /\ ~edited =>
       /\ journal.stage # "succeeded"
       /\ journal.stage = "committed" => Content = "draft"
       /\ journal.stage \in {"rolled_back", "failed"} \/ reply.state = "failed" => Content = "production"
  /\ (IInv /\ ~edited =>
       /\ journal.stage # "succeeded"
       /\ journal.stage = "committed" => Content = "draft"
       /\ journal.stage \in {"rolled_back", "failed"} \/ reply.state = "failed" => Content = "production")'
<1>1. IInv /\ ~edited =>
        /\ journal.stage # "succeeded"
        /\ journal.stage = "committed" => files = Draft
        /\ journal.stage \in {"rolled_back", "failed"} \/ reply.state = "failed" => files = Production
  BY DEF IInv, StageAndFiles, DraftStages, FilesAre, FailedAnswer, Untouched, TypeOK,
         Stages, ForwardStages, BeforeWriteStages, RollbackStages
<1>2. (IInv /\ ~edited =>
        /\ journal.stage # "succeeded"
        /\ journal.stage = "committed" => files = Draft
        /\ journal.stage \in {"rolled_back", "failed"} \/ reply.state = "failed" => files = Production)'
  BY DEF IInv, StageAndFiles, DraftStages, FilesAre, FailedAnswer, Untouched, TypeOK,
         Stages, ForwardStages, BeforeWriteStages, RollbackStages
<1>3. /\ files = Draft => Content = "draft"
      /\ files = Production => Content = "production"
      /\ (files = Draft => Content = "draft")' /\ (files = Production => Content = "production")'
  BY ConfigurationAssumption DEF Content
<1>4. QED
  BY <1>1, <1>2, <1>3

\* A stage in the journal agrees with production, before a step and after one that does not write.
LEMMA JournalAgrees ==
  /\ IInv => Service!Agrees(journal.stage)
  /\ \A stage : IInv' /\ UNCHANGED <<files, edited>> /\ journal'.stage = stage => Service!Agrees(stage)
<1>1. IInv => Service!Agrees(journal.stage)
  BY VerdictAgrees DEF Service!Agrees
<1>2. ASSUME NEW stage, IInv', UNCHANGED <<files, edited>>, journal'.stage = stage
      PROVE  Service!Agrees(stage)
  <2>1. Content' = Content
    BY <1>2 DEF Content
  <2>2. QED
    BY <1>2, <2>1, VerdictAgrees DEF Service!Agrees
<1>3. QED
  BY <1>1, <1>2

\* appendStage, with or without an error, does to the log what AgentService allows.
LEMMA RecordMoves ==
  ASSUME IInv', UNCHANGED <<files, edited>>, NEW record \in JournalRecord, NEW stage \in Stages,
         record.stage = stage, MayLog(stage), LogWith(record, stage) \/ LogErrorWith(record, stage)
  PROVE  Moved
<1>1. journal' = record => Service!Agrees(stage)
  BY JournalAgrees
<1>2. CASE LogWith(record, stage)
  <2>1. stages' = Append(stages, stage) /\ Service!Agrees(stage)
    BY <1>1, <1>2 DEF LogWith
  <2>2. Service!Grows
    <3>1. CASE torn \/ events # stages
      BY <1>2, <2>1, <3>1, SharedWords DEF LogWith, AppendEvent, MayLog, Service!Grows
    <3>2. CASE ~(torn \/ events # stages)
      BY <1>2, <2>1, <3>2, SharedWords DEF LogWith, AppendEvent, MayLog, Service!Grows
    <3>3. QED
      BY <3>1, <3>2
  <2>3. QED
    BY <2>2 DEF Moved
<1>3. CASE LogErrorWith(record, stage)
  <2>1. CASE UNCHANGED <<events, torn>>
    BY <1>3, <2>1 DEF LogErrorWith, Moved
  <2>2. CASE torn' = TRUE /\ UNCHANGED events
    BY <1>3, <2>2 DEF LogErrorWith, Moved, Service!Tears
  <2>3. CASE /\ journal' = record /\ events' = Append(events, stage) /\ UNCHANGED torn
             /\ ~(torn \/ events # stages)
    <3>1. Service!Grows
      BY <1>1, <1>3, <2>3, SharedWords DEF LogErrorWith, MayLog, Service!Grows
    <3>2. QED
      BY <3>1 DEF Moved
  <2>4. QED
    BY <1>3, <2>1, <2>2, <2>3 DEF LogErrorWith, AppendEvent, logVars
<1>4. QED
  BY <1>2, <1>3

\* So do the logging steps of the actions.
LEMMA StageMoves ==
  ASSUME LogTypeOK, IInv', UNCHANGED <<files, edited>>
  PROVE  /\ \A stage \in Stages : MayLog(stage) /\ (Log(stage) \/ LogError(stage)) => Moved
         /\ MayLog("failed") /\ FailBeforeWrite(FailedRecord) => Moved
         /\ MayLog("failed") /\ FailBeforeWrite(WithBaseline("failed")) => Moved
         /\ /\ MayLog("backup_creating")
            /\ \/ LogWith(WithBaseline("backup_creating"), "backup_creating")
               \/ LogErrorWith(WithBaseline("backup_creating"), "backup_creating")
            => Moved
         /\ UNCHANGED <<events, torn, stages>> => Moved
<1>1. ASSUME NEW stage \in Stages, MayLog(stage), Log(stage) \/ LogError(stage) PROVE Moved
  BY <1>1, Recorded, RecordMoves DEF Log, LogError
<1>2. /\ FailedRecord \in JournalRecord /\ FailedRecord.stage = "failed"
      /\ WithBaseline("failed") \in JournalRecord /\ WithBaseline("failed").stage = "failed"
      /\ WithBaseline("backup_creating") \in JournalRecord
      /\ WithBaseline("backup_creating").stage = "backup_creating"
  BY RecordsTyped, StageNames
<1>3. \A record \in JournalRecord :
        record.stage = "failed" /\ MayLog("failed") /\ FailBeforeWrite(record) => Moved
  BY RecordMoves, StageNames DEF FailBeforeWrite
<1>4. /\ MayLog("backup_creating")
      /\ \/ LogWith(WithBaseline("backup_creating"), "backup_creating")
         \/ LogErrorWith(WithBaseline("backup_creating"), "backup_creating")
      => Moved
  BY <1>2, RecordMoves, StageNames
<1>5. UNCHANGED <<events, torn, stages>> => Moved
  BY DEF Moved
<1>6. QED
  BY <1>1, <1>2, <1>3, <1>4, <1>5

\* Every step of a call that has read the log does.
LEMMA LogStep ==
  ASSUME IInv, IInv', EvidenceInv, AgentStep, ~ReadEvidence, UNCHANGED <<files, edited>>
  PROVE  Moved
<1>0. LogTypeOK
  BY TypeParts DEF IInv
<1>1. CASE Recheck
  BY <1>1, <1>0, StageMoves, PublishMayLog, StageNames DEF Recheck
<1>2. CASE Inspect
  BY <1>2, <1>0, StageMoves, PublishMayLog, StageNames DEF Inspect
<1>3. CASE Backup
  BY <1>3, <1>0, StageMoves, PublishMayLog, StageNames DEF Backup
<1>4. CASE Validate
  BY <1>4, <1>0, StageMoves, PublishMayLog, StageNames DEF Validate
<1>5. CASE Begin
  BY <1>5, <1>0, StageMoves, PublishMayLog, StageNames DEF Begin
<1>6. CASE PreCheck
  BY <1>6, <1>0, StageMoves DEF PreCheck, diskVars
<1>7. CASE ApplyFile
  BY <1>7, <1>0, StageMoves DEF ApplyFile
<1>8. CASE ApplyDone
  BY <1>8, <1>0, StageMoves, PublishMayLog, StageNames DEF ApplyDone, logVars
<1>9. CASE Test
  BY <1>9, <1>0, StageMoves, PublishMayLog, StageNames DEF Test, logVars
<1>10. CASE Reload
  BY <1>10, <1>0, StageMoves DEF Reload, diskVars, callVars
<1>11. CASE LogReload
  BY <1>11, <1>0, StageMoves, PublishMayLog, StageNames DEF LogReload
<1>12. CASE LogReloadFailure
  BY <1>12, <1>0, StageMoves, PublishMayLog, StageNames DEF LogReloadFailure
<1>13. CASE Confirm
  BY <1>13, <1>0, StageMoves, PublishMayLog, StageNames DEF Confirm, logVars
<1>14. CASE Commit
  BY <1>14, <1>0, StageMoves, PublishMayLog, StageNames DEF Commit
<1>15. CASE Rollback
  BY <1>15, <1>0, StageMoves, RollbackMayLog, StageNames DEF Rollback, logVars
<1>16. CASE Verify
  BY <1>16, <1>0, StageMoves DEF Verify, diskVars
<1>17. CASE RestoreFile
  BY <1>17, <1>0, StageMoves DEF RestoreFile, diskVars
<1>18. CASE RestoreDone
  BY <1>18, <1>0, StageMoves, RollbackMayLog, StageNames DEF RestoreDone, logVars
<1>19. CASE Retest
  BY <1>19, <1>0, StageMoves, RollbackMayLog, StageNames DEF Retest, logVars
<1>20. CASE RollbackReload
  BY <1>20, <1>0, StageMoves DEF RollbackReload, diskVars, callVars
<1>21. CASE LogRollbackReload
  BY <1>21, <1>0, StageMoves, RollbackMayLog, StageNames DEF LogRollbackReload
<1>22. CASE LogRollbackReloadFailure
  BY <1>22, <1>0, StageMoves, RollbackMayLog, StageNames DEF LogRollbackReloadFailure
<1>23. CASE RollbackConfirm
  BY <1>23, <1>0, StageMoves, RollbackMayLog, StageNames DEF RollbackConfirm, logVars
<1>24. CASE Attend
  BY <1>24, <1>0, StageMoves, RollbackMayLog, StageNames DEF Attend
<1>25. CASE Dispatch
  BY <1>25, <1>0, StageMoves DEF Dispatch, diskVars, callVars
<1>26. CASE Decide
  BY <1>26, <1>0, StageMoves, PublishMayLog, StageNames DEF Decide, logVars
<1>27. CASE Resume
  BY <1>27, <1>0, StageMoves, PublishMayLog, StageNames DEF Resume, logVars
<1>28. CASE Finish
  BY <1>28, <1>0, StageMoves, PublishMayLog, StageNames DEF Finish
<1>29. QED
  BY <1>1, <1>2, <1>3, <1>4, <1>5, <1>6, <1>7, <1>8, <1>9, <1>10, <1>11, <1>12, <1>13, <1>14, <1>15,
     <1>16, <1>17, <1>18, <1>19, <1>20, <1>21, <1>22, <1>23, <1>24, <1>25, <1>26, <1>27, <1>28
  DEF AgentStep, PublishStep, RollbackStep, RecoverStep

\* What a call returns with the log it knows of, as AgentService allows it.
Told ==
  /\ Service!Returnable(reply', stages') /\ reply'.stages = stages'
  /\ reply'.state \in {"running", "failed", "succeeded", "rolled_back", "needs_attention"}
  /\ reply'.state = "succeeded" => journal'.stage = "committed"

\* A logging step tells which stage is the last the call knows of.
LEMMA MemoryKept ==
  ASSUME LogTypeOK
  PROVE  /\ \A stage \in Stages : Log(stage) =>
              stages' # <<>> /\ LastStage(stages') = stage /\ journal'.stage = stage
         /\ \A stage \in Stages : LogError(stage) => stages' = stages
         /\ \A record, stage : LogErrorWith(record, stage) => stages' = stages
         /\ \A record \in JournalRecord : FailBeforeWrite(record) =>
              stages' = stages \/ (stages' # <<>> /\ LastStage(stages') = "failed")
BY LastOfAppend, StageNames, Recorded
DEF LogTypeOK, Log, LogError, LogWith, LogErrorWith, FailBeforeWrite

\* A call that returns tells what it knows of the log.
LEMMA CallTells ==
  ASSUME IInv, EvidenceInv, AgentStep, ~ReadEvidence, pc' = "idle"
  PROVE  Told
<1>0. LogTypeOK /\ JournalAtPc /\ LogAtPc /\ BackupInAnswer
  BY TypeParts DEF IInv, EvidenceInv
<1> USE SharedWords DEF Told, Service!Returnable
<1>1. CASE Recheck
  <2>1. stages = <<>>
    BY <1>1, <1>0 DEF Recheck, LogAtPc
  <2>2. LogError("rechecking") /\ Abandon
    BY <1>1 DEF Recheck, Goto
  <2>3. QED
    BY <1>0, <2>1, <2>2, MemoryKept, StageNames DEF Return, Abandon, BeforeWriteStages
<1>2. CASE Inspect
  <2>1. stages # <<>> /\ LastStage(stages) \in BeforeWriteStages
    BY <1>2, <1>0 DEF Inspect, LogAtPc, JournalAtPc, ExecutePoints, BeforeWriteStages
  <2>2. \/ FailBeforeWrite(FailedRecord)
        \/ FailBeforeWrite(WithBaseline("failed"))
        \/ LogErrorWith(WithBaseline("backup_creating"), "backup_creating") /\ Abandon
    BY <1>2 DEF Inspect, Goto
  <2>3. /\ \/ stages' = stages
           \/ stages' # <<>> /\ LastStage(stages') = "failed" /\ reply'.state = "failed"
        /\ reply'.stages = stages' /\ reply'.state \in {"failed", "running"}
    BY <1>0, <2>1, <2>2, MemoryKept, RecordsTyped, StageNames DEF FailBeforeWrite, Return, Abandon
  <2>4. QED
    BY <2>1, <2>3
<1>3. CASE Backup
  <2>1. stages # <<>> /\ LastStage(stages) \in BeforeWriteStages
    BY <1>3, <1>0 DEF Backup, LogAtPc, JournalAtPc, ExecutePoints, BeforeWriteStages
  <2>2. \/ FailBeforeWrite(FailedRecord)
        \/ LogError("backup_verified") /\ Return("running", stages, TRUE)
    BY <1>3 DEF Backup, Goto
  <2>3. /\ \/ stages' = stages
           \/ stages' # <<>> /\ LastStage(stages') = "failed" /\ reply'.state = "failed"
        /\ reply'.stages = stages' /\ reply'.state \in {"failed", "running"}
    BY <1>0, <2>1, <2>2, MemoryKept, RecordsTyped, StageNames DEF FailBeforeWrite, Return, Abandon
  <2>4. QED
    BY <2>1, <2>3
<1>4. CASE Validate
  <2>1. stages # <<>> /\ LastStage(stages) \in BeforeWriteStages
    BY <1>4, <1>0 DEF Validate, LogAtPc, JournalAtPc, ExecutePoints, BeforeWriteStages
  <2>2. \/ FailBeforeWrite(FailedRecord)
        \/ LogError("candidate_validated") /\ Abandon
    BY <1>4 DEF Validate, Goto
  <2>3. /\ \/ stages' = stages
           \/ stages' # <<>> /\ LastStage(stages') = "failed" /\ reply'.state = "failed"
        /\ reply'.stages = stages' /\ reply'.state \in {"failed", "running"}
    BY <1>0, <2>1, <2>2, MemoryKept, RecordsTyped, StageNames DEF FailBeforeWrite, Return, Abandon
  <2>4. QED
    BY <2>1, <2>3
<1>5. CASE Begin
  <2>1. stages # <<>> /\ LastStage(stages) \in BeforeWriteStages
    BY <1>5, <1>0 DEF Begin, LogAtPc, JournalAtPc, ExecutePoints, BeforeWriteStages
  <2>2. LogError("files_applying") /\ Abandon
    BY <1>5 DEF Begin, Goto
  <2>3. /\ \/ stages' = stages
           \/ stages' # <<>> /\ LastStage(stages') = "failed" /\ reply'.state = "failed"
        /\ reply'.stages = stages' /\ reply'.state \in {"failed", "running"}
    BY <1>0, <2>1, <2>2, MemoryKept, RecordsTyped, StageNames DEF FailBeforeWrite, Return, Abandon
  <2>4. QED
    BY <2>1, <2>3
<1>6. CASE PreCheck
  BY <1>6 DEF PreCheck, Goto, StartRollback
<1>7. CASE ApplyFile
  BY <1>7 DEF ApplyFile, Goto, StartRollback
<1>8. CASE ApplyDone
  BY <1>8 DEF ApplyDone, Goto, StartRollback
<1>9. CASE Test
  BY <1>9 DEF Test, Goto, StartRollback
<1>10. CASE Reload
  BY <1>10 DEF Reload, Goto, SendReload
<1>11. CASE LogReload
  BY <1>11 DEF LogReload, Goto, StartRollback
<1>12. CASE LogReloadFailure
  BY <1>12 DEF LogReloadFailure, Goto, StartRollback
<1>13. CASE Confirm
  BY <1>13 DEF Confirm, Goto, StartRollback
<1>14. CASE Commit
  <2>1. Log("committed") /\ Return("succeeded", stages', evidence)
    BY <1>14 DEF Commit, Goto, StartRollback, NeedsAttention
  <2>2. evidence
    BY <1>14, <1>0 DEF Commit, BackupInAnswer, ExecutePoints, ResumePoints, RestorePoints
  <2>3. QED
    BY <1>0, <2>1, <2>2, MemoryKept, StageNames DEF Return
<1>15. CASE Rollback
  BY <1>15 DEF Rollback, Goto, NeedsAttention
<1>16. CASE Verify
  BY <1>16 DEF Verify, Goto, NeedsAttention
<1>17. CASE RestoreFile
  BY <1>17 DEF RestoreFile, Goto, NeedsAttention
<1>18. CASE RestoreDone
  BY <1>18 DEF RestoreDone, Goto, NeedsAttention
<1>19. CASE Retest
  BY <1>19 DEF Retest, Goto, NeedsAttention
<1>20. CASE RollbackReload
  BY <1>20 DEF RollbackReload, Goto, SendReload
<1>21. CASE LogRollbackReload
  BY <1>21 DEF LogRollbackReload, Goto, NeedsAttention
<1>22. CASE LogRollbackReloadFailure
  BY <1>22 DEF LogRollbackReloadFailure, Goto, NeedsAttention
<1>23. CASE RollbackConfirm
  <2>1. Log("rolled_back") /\ Return("rolled_back", stages', evidence)
    BY <1>23 DEF RollbackConfirm, Goto, StartRollback, NeedsAttention
  <2>2. evidence
    BY <1>23, <1>0 DEF RollbackConfirm, BackupInAnswer, ExecutePoints, ResumePoints, RestorePoints
  <2>3. QED
    BY <1>0, <2>1, <2>2, MemoryKept, StageNames DEF Return
<1>24. CASE Attend
  <2>1. (Log("needs_attention") \/ LogError("needs_attention")) /\ Return("needs_attention", stages', evidence)
    BY <1>24 DEF Attend
  <2>2. QED
    BY <2>1 DEF Return
<1>25. CASE Dispatch
  <2>1. /\ stages' = stages /\ journal' = journal
        /\ stages # <<>> /\ LastStage(stages) = journal.stage
    BY <1>25, <1>0 DEF Dispatch, diskVars, callVars, LogAtPc, ResumePoints
  <2>2. \/ journal.stage = "committed" /\ Return("succeeded", stages, TRUE)
        \/ journal.stage = "rolled_back" /\ Return("rolled_back", stages, TRUE)
        \/ journal.stage \in {"failed", "needs_attention"} /\ Return(journal.stage, stages, FALSE)
    BY <1>25 DEF Dispatch, Goto, NeedsAttention
  <2>3. QED
    BY <2>1, <2>2 DEF Return
<1>26. CASE Decide
  <2>1. Log("failed") /\ Return("failed", stages', FALSE)
    BY <1>26 DEF Decide, Goto, StartRollback, NeedsAttention
  <2>2. QED
    BY <1>0, <2>1, MemoryKept, StageNames DEF Return
<1>27. CASE Resume
  BY <1>27 DEF Resume, Goto, StartRollback, NeedsAttention
<1>28. CASE Finish
  <2>1. Log("committed") /\ Return("succeeded", stages', evidence)
    BY <1>28 DEF Finish, Goto, StartRollback, NeedsAttention
  <2>2. evidence
    BY <1>28, <1>0 DEF Finish, BackupInAnswer, ExecutePoints, ResumePoints, RestorePoints
  <2>3. QED
    BY <1>0, <2>1, <2>2, MemoryKept, StageNames DEF Return
<1>29. QED
  BY <1>1, <1>2, <1>3, <1>4, <1>5, <1>6, <1>7, <1>8, <1>9, <1>10, <1>11, <1>12, <1>13, <1>14, <1>15,
     <1>16, <1>17, <1>18, <1>19, <1>20, <1>21, <1>22, <1>23, <1>24, <1>25, <1>26, <1>27, <1>28
  DEF AgentStep, PublishStep, RollbackStep, RecoverStep

\* A step of the Agent belongs to a call in progress.
LEMMA AgentStepsAreCalls ==
  ASSUME AgentStep
  PROVE  /\ pc \notin {"idle", "down"} /\ pc' \notin {"down", "read"}
         /\ pc = "read" => ReadEvidence
<1>1. CASE Recheck
  BY <1>1 DEF Recheck, Goto, Abandon, nginxVars, Return
<1>2. CASE Inspect
  BY <1>2 DEF Inspect, Goto, Abandon, Return, FailBeforeWrite
<1>3. CASE Backup
  BY <1>3 DEF Backup, Goto, Return, nginxVars, FailBeforeWrite
<1>4. CASE Validate
  BY <1>4 DEF Validate, Goto, Abandon, nginxVars, Return, FailBeforeWrite
<1>5. CASE Begin
  BY <1>5 DEF Begin, Goto, Abandon, nginxVars, Return
<1>6. CASE PreCheck
  BY <1>6 DEF PreCheck, Goto, StartRollback, nginxVars, diskVars
<1>7. CASE ApplyFile
  BY <1>7 DEF ApplyFile, Goto, StartRollback, nginxVars
<1>8. CASE ApplyDone
  BY <1>8 DEF ApplyDone, Goto, StartRollback, nginxVars, logVars
<1>9. CASE Test
  BY <1>9 DEF Test, Goto, StartRollback, nginxVars, logVars
<1>10. CASE Reload
  BY <1>10 DEF Reload, Goto, SendReload, diskVars, callVars
<1>11. CASE LogReload
  BY <1>11 DEF LogReload, Goto, StartRollback, nginxVars
<1>12. CASE LogReloadFailure
  BY <1>12 DEF LogReloadFailure, Goto, StartRollback, nginxVars
<1>13. CASE Confirm
  BY <1>13 DEF Confirm, Goto, StartRollback, nginxVars, logVars
<1>14. CASE Commit
  BY <1>14 DEF Commit, Goto, StartRollback, Return, nginxVars
<1>15. CASE Rollback
  BY <1>15 DEF Rollback, Goto, NeedsAttention, nginxVars, logVars
<1>16. CASE Verify
  BY <1>16 DEF Verify, Goto, NeedsAttention, nginxVars, diskVars
<1>17. CASE RestoreFile
  BY <1>17 DEF RestoreFile, Goto, NeedsAttention, nginxVars, diskVars
<1>18. CASE RestoreDone
  BY <1>18 DEF RestoreDone, Goto, NeedsAttention, nginxVars, logVars
<1>19. CASE Retest
  BY <1>19 DEF Retest, Goto, NeedsAttention, nginxVars, logVars
<1>20. CASE RollbackReload
  BY <1>20 DEF RollbackReload, Goto, SendReload, diskVars, callVars
<1>21. CASE LogRollbackReload
  BY <1>21 DEF LogRollbackReload, Goto, NeedsAttention, nginxVars
<1>22. CASE LogRollbackReloadFailure
  BY <1>22 DEF LogRollbackReloadFailure, Goto, NeedsAttention, nginxVars
<1>23. CASE RollbackConfirm
  BY <1>23 DEF RollbackConfirm, Goto, NeedsAttention, Return, nginxVars, logVars
<1>24. CASE Attend
  BY <1>24 DEF Attend, Return, nginxVars
<1>25. CASE ReadEvidence
  <2>1. pc = "read" /\ (Uncertain \/ Goto("dispatch"))
    BY <1>25, Zenon DEF ReadEvidence
  <2>2. QED
    BY <1>25, <2>1 DEF Uncertain, Return, Goto
<1>26. CASE Dispatch
  BY <1>26 DEF Dispatch, Goto, NeedsAttention, Return, nginxVars, diskVars, callVars
<1>27. CASE Decide
  BY <1>27 DEF Decide, Goto, StartRollback, NeedsAttention, Return, nginxVars, logVars
<1>28. CASE Resume
  BY <1>28 DEF Resume, Goto, StartRollback, NeedsAttention, nginxVars, logVars
<1>29. CASE Finish
  BY <1>29 DEF Finish, Goto, NeedsAttention, Return, nginxVars
<1>30. QED
  BY <1>1, <1>2, <1>3, <1>4, <1>5, <1>6, <1>7, <1>8, <1>9, <1>10, <1>11, <1>12, <1>13, <1>14, <1>15,
     <1>16, <1>17, <1>18, <1>19, <1>20, <1>21, <1>22, <1>23, <1>24, <1>25, <1>26, <1>27, <1>28, <1>29
  DEF AgentStep, PublishStep, RollbackStep, RecoverStep

\* Production is written in the two loops only, while the log says so.
LEMMA WritesAreLogged ==
  ASSUME IInv, EvidenceInv, [Next]_vars, ~Edit, files' # files
  PROVE  /\ Service!MayWrite /\ UNCHANGED <<events, torn, stages, edited>>
         /\ {pc, pc'} \cap {"idle", "down", "read"} = {}
<1>1. VerdictStays
  BY OnlyEditsDiffer
<1>2. pc \in {"apply", "restore"} /\ pc' \in {"apply", "restore", "rollback"}
  BY <1>1 DEF VerdictStays
<1>3. Service!MayWrite
  <2>1. stages # <<>> /\ LastStage(stages) \in {"files_applying"} \cup UnfinishedRollback
    BY <1>2 DEF IInv, JournalAtPc, EvidenceInv, LogAtPc, ExecutePoints, RestorePoints
  <2>2. torn \/ stages = events
    BY <1>2 DEF EvidenceInv, MemoryIsLog, ExecutePoints, RestorePoints
  <2>3. QED
    BY <2>1, <2>2, SharedWords
    DEF Service!MayWrite, Service!WriteStages, Service!TerminalStages, UnfinishedRollback,
        RollbackStages
<1>4. QED
  BY <1>1, <1>2, <1>3 DEF VerdictStays

\* What AgentService shows of a call.
Busy == pc \notin {"idle", "down"}
LastAnswer == IF pc = "idle" THEN reply ELSE NoReply

\* Outside a call nothing is logged, and an answer stays until the next call or a crash.
LEMMA OutsideCalls ==
  ASSUME EvidenceInv, [Next]_vars, ~AgentStep, ~Edit
  PROVE  /\ events' = events /\ torn' = torn /\ edited' = edited /\ files' = files
         /\ \/ pc' = pc /\ UNCHANGED <<reply, stages>>
            \/ pc' = "down" /\ UNCHANGED stages
            \/ pc = "down" /\ pc' = "idle" /\ reply' = NoReply /\ UNCHANGED stages
            \/ pc = "idle" /\ pc' = "read" /\ UNCHANGED stages
            \/ pc = "idle" /\ pc' = "recheck" /\ stages = <<>> /\ stages' = <<>> /\ events = <<>> /\ ~torn
<1>1. CASE Execute
  BY <1>1 DEF Execute, Goto, logVars, EvidenceInv, LogAtPc
<1>2. CASE Recover
  BY <1>2 DEF Recover, Goto, diskVars
<1>3. CASE Crash
  BY <1>3 DEF Crash, diskVars
<1>4. CASE Restart
  BY <1>4 DEF Restart, Goto, diskVars, callVars, EvidenceInv, AnswerStands
<1>5. CASE NginxReload \/ NginxExit \/ NginxStart
  BY <1>5 DEF NginxReload, NginxExit, NginxStart, diskVars, callVars
<1>6. CASE UNCHANGED vars
  BY <1>6 DEF vars
<1>7. QED
  BY <1>1, <1>2, <1>3, <1>4, <1>5, <1>6 DEF Next, EnvironmentStep

\* Reading the log, and catching it up with the journal, is what AgentService allows of it.
LEMMA ReadIsRead ==
  ASSUME IInv, EvidenceInv, ReadEvidence
  PROVE  /\ pc = "read" /\ UNCHANGED <<files, edited>>
         /\ \/ /\ pc' = "dispatch"
               /\ ~torn /\ (Service!CatchesUp \/ UNCHANGED <<events, torn>>) /\ stages' = events'
            \/ /\ pc' = "idle" /\ reply' = Service!Uncertain
               /\ \/ UNCHANGED <<events, stages, torn>>
                  \/ /\ ~torn /\ stages' = events
                     /\ Service!CatchesUp \/ Service!Tears \/ UNCHANGED <<events, torn>>
<1>0. LogTypeOK /\ EvidenceAgrees
  BY TypeParts DEF IInv, EvidenceInv
<1>1. Uncertain => pc' = "idle" /\ reply' = Service!Uncertain
  BY DEF Uncertain, Return, Service!Uncertain
<1>2. Goto("dispatch") => pc' = "dispatch"
  BY DEF Goto
<1>3. Readable /\ ~LogIsCurrent /\ events' = Append(events, journal.stage) /\ UNCHANGED torn
        => Service!CatchesUp
  BY <1>0, AheadByOne, JournalAgrees DEF Service!CatchesUp
<1>4. Readable => ~torn
  BY DEF Readable
<1>5. torn' \in {torn, TRUE} /\ UNCHANGED events => Service!Tears \/ UNCHANGED <<events, torn>>
  BY <1>0 DEF Service!Tears, LogTypeOK
<1>6. \/ Uncertain /\ UNCHANGED <<events, stages, torn>>
      \/ Readable /\ stages' = events /\ Goto("dispatch") /\ UNCHANGED <<events, torn>>
      \/ /\ Readable /\ ~LogIsCurrent /\ events' = Append(events, journal.stage) /\ stages' = events'
         /\ Goto("dispatch") /\ UNCHANGED torn
      \/ /\ Readable /\ ~LogIsCurrent /\ stages' = events /\ Uncertain
         /\ \/ torn' \in {torn, TRUE} /\ UNCHANGED events
            \/ events' = Append(events, journal.stage) /\ UNCHANGED torn
  BY Zenon DEF ReadEvidence, logVars
<1>7. pc = "read" /\ UNCHANGED <<files, edited>>
  BY DEF ReadEvidence
<1>8. QED
  BY <1>1, <1>2, <1>3, <1>4, <1>5, <1>6, <1>7

\* An answer that says more than doubt agrees with production when it is given.
LEMMA AnswerAgrees ==
  ASSUME IInv', EvidenceInv', Told, pc' = "idle", UNCHANGED <<files, edited>>
  PROVE  Service!Agrees(reply'.state)
<1>1. Content' = Content
  BY DEF Content
<1>2. reply'.state = "rolled_back" => journal'.stage = "rolled_back"
  BY DEF EvidenceInv, AnswerStands, AnswerIsDurable
<1>3. QED
  BY <1>1, <1>2, VerdictAgrees DEF Told, Service!Agrees

\* A step of the Agent is a step of the service or leaves what the UI sees as it is.
LEMMA ServiceStep ==
  ASSUME IInv, IInv', EvidenceInv, EvidenceInv', [Next]_vars
  PROVE  [Service!ServiceNext]_<<events, stages, torn, Busy, pc = "read", LastAnswer, Content, edited>>
<1> USE DEF Busy, LastAnswer, Service!evidenceVars
<1>0. NoReply = Service!NoAnswer /\ LogTypeOK' /\ reply' \in Answer
  BY TypeParts DEF NoReply, Service!NoAnswer, IInv, ControlTypeOK
<1>1. Content \in Service!ProductionContents /\ Content' \in Service!ProductionContents
  BY DEF Content, Service!ProductionContents
<1>2. CASE Edit
  <2>1. UNCHANGED <<events, stages, torn, pc, reply>> /\ edited' = TRUE
    BY <1>2 DEF Edit, diskVars, callVars
  <2>2. Service!EditByOthers
    BY <1>1, <2>1 DEF Service!EditByOthers
  <2>3. QED
    BY <2>2 DEF Service!ServiceNext
<1>3. CASE ~Edit /\ files' # files
  <2>1. /\ Service!MayWrite /\ UNCHANGED <<events, torn, stages, edited>>
        /\ {pc, pc'} \cap {"idle", "down", "read"} = {}
    BY <1>3, WritesAreLogged
  <2>2. Service!Work
    BY <1>1, <2>1 DEF Service!Work
  <2>3. QED
    BY <2>2 DEF Service!ServiceNext
<1>4. CASE ~Edit /\ ~AgentStep
  <2>1. /\ events' = events /\ torn' = torn /\ edited' = edited /\ files' = files
        /\ \/ pc' = pc /\ UNCHANGED <<reply, stages>>
           \/ pc' = "down" /\ UNCHANGED stages
           \/ pc = "down" /\ pc' = "idle" /\ reply' = NoReply /\ UNCHANGED stages
           \/ pc = "idle" /\ pc' = "read" /\ UNCHANGED stages
           \/ pc = "idle" /\ pc' = "recheck" /\ stages = <<>> /\ stages' = <<>> /\ events = <<>> /\ ~torn
    BY <1>4, OutsideCalls
  <2>2. Content' = Content
    BY <2>1 DEF Content
  <2>3. CASE pc' = pc /\ UNCHANGED <<reply, stages>>
    BY <2>1, <2>2, <2>3
  <2>4. CASE pc' = "down" /\ UNCHANGED stages
    BY <1>0, <2>1, <2>2, <2>4 DEF Service!ServiceNext, Service!AgentDies
  <2>5. CASE pc = "down" /\ pc' = "idle" /\ reply' = NoReply /\ UNCHANGED stages
    BY <2>1, <2>2, <2>5
  <2>6. CASE pc = "idle" /\ pc' = "read" /\ UNCHANGED stages
    BY <1>0, <2>1, <2>2, <2>6 DEF Service!ServiceNext, Service!CallBegins
  <2>7. CASE /\ pc = "idle" /\ pc' = "recheck"
             /\ stages = <<>> /\ stages' = <<>> /\ events = <<>> /\ ~torn
    BY <1>0, <2>1, <2>2, <2>7 DEF Service!ServiceNext, Service!CallBegins
  <2>8. QED
    BY <2>1, <2>3, <2>4, <2>5, <2>6, <2>7
<1>5. CASE ~Edit /\ ReadEvidence
  <2>1. /\ pc = "read" /\ UNCHANGED <<files, edited>>
        /\ \/ /\ pc' = "dispatch"
              /\ ~torn /\ (Service!CatchesUp \/ UNCHANGED <<events, torn>>) /\ stages' = events'
           \/ /\ pc' = "idle" /\ reply' = Service!Uncertain
              /\ \/ UNCHANGED <<events, stages, torn>>
                 \/ /\ ~torn /\ stages' = events
                    /\ Service!CatchesUp \/ Service!Tears \/ UNCHANGED <<events, torn>>
    BY <1>5, ReadIsRead
  <2>2. Content' = Content
    BY <2>1 DEF Content
  <2>3. CASE pc' = "dispatch"
    <3>1. Service!Reads
      BY <2>1, <2>3 DEF Service!Reads
    <3>2. Service!Work
      BY <2>1, <2>2, <2>3, <3>1 DEF Service!Work
    <3>3. QED
      BY <3>2 DEF Service!ServiceNext
  <2>4. CASE pc' = "idle"
    <3>1. Service!CallEnds
      BY <2>1, <2>2, <2>4 DEF Service!CallEnds
    <3>2. QED
      BY <3>1 DEF Service!ServiceNext
  <2>5. QED
    BY <2>1, <2>3, <2>4
<1>6. CASE ~Edit /\ files' = files /\ AgentStep /\ ~ReadEvidence
  <2>1. Content' = Content
    BY <1>6 DEF Content
  <2>2. pc \notin {"idle", "down", "read"} /\ pc' \notin {"down", "read"}
    BY <1>6, AgentStepsAreCalls
  <2>3. edited' = edited
    BY <1>6, OnlyEditsDiffer DEF VerdictStays
  <2>4. Moved
    BY <1>6, <2>3, LogStep
  <2>5. CASE pc' = "idle"
    <3>1. Told
      BY <1>6, <2>5, CallTells
    <3>2. Service!Agrees(reply'.state)
      BY <1>6, <2>3, <2>5, <3>1, AnswerAgrees
    <3>3. reply' \in Service!Answers(stages')
      <4>1. /\ reply'.state \in {"running", "failed", "succeeded", "rolled_back", "needs_attention"}
            /\ reply'.stages = stages' /\ reply'.backup \in BOOLEAN
            /\ reply' = [state |-> reply'.state, stages |-> reply'.stages, backup |-> reply'.backup]
        BY <1>0, <3>1 DEF Told, Answer
      <4>2. QED
        BY <3>1, <4>1 DEF Told, Service!Answers
    <3>4. Service!CallEnds
      BY <2>1, <2>2, <2>3, <2>4, <2>5, <3>2, <3>3 DEF Service!CallEnds, Moved
    <3>5. QED
      BY <3>4 DEF Service!ServiceNext
  <2>6. CASE pc' # "idle"
    <3>1. Service!Logs \/ UNCHANGED <<events, torn, stages>>
      BY <2>2, <2>4, <2>6 DEF Moved, Service!Logs
    <3>2. CASE Service!Logs
      <4>1. Service!Work
        BY <2>1, <2>2, <2>3, <2>6, <3>2 DEF Service!Work
      <4>2. QED
        BY <4>1 DEF Service!ServiceNext
    <3>3. CASE UNCHANGED <<events, torn, stages>>
      BY <2>1, <2>2, <2>3, <2>6, <3>3
    <3>4. QED
      BY <3>1, <3>2, <3>3
  <2>7. QED
    BY <2>5, <2>6
<1>7. QED
  BY <1>2, <1>3, <1>4, <1>5, <1>6

\* The Agent is the service that the UI process relies on: its log grows by known steps only, also by
\* those whose writer was told that they failed, production is written only by a call that knows of a
\* log that says so, and an answer tells what its call logged (appendStage, ExecuteRelease,
\* RecoverRelease).
THEOREM UIIsServed == Spec => ServesUI
<1>1. Init => Service!ServiceInit
  BY ConfigurationAssumption
  DEF Init, Service!ServiceInit, Service!NoAnswer, Content, NoReply
<1>2. IInv /\ IInv' /\ EvidenceInv /\ EvidenceInv' /\ [Next]_vars
        => [Service!ServiceNext]_(Service!serviceVars)
  BY ServiceStep DEF Service!serviceVars, Busy, LastAnswer
<1>3. QED
  BY <1>1, <1>2, Invariance, EvidenceInvariance, PTL DEF Spec, ServesUI, Service!ServiceSpec

=============================================================================
