----------------------------- MODULE AgentService -----------------------------
(***************************************************************************)
(* The Agent as the UI process sees it while one release is worked on: a   *)
(* log of stages that only grows, one call at a time, and an answer that   *)
(* tells what the call knows of the log when it ends.  A stage may reach   *)
(* the log although the call that wrote it was told otherwise; if that     *)
(* call goes on, no reader accepts the log any more.  How the stages come  *)
(* about is the business of ReleaseAgent, which implements this module.    *)
(***************************************************************************)
EXTENDS ReleaseStages

VARIABLES
  log,      \* events.ndjson of the release
  known,    \* the stages the call in progress knows of, or the last one did
  spoiled,  \* no reader accepts the log any more
  busy,     \* a call of ExecuteRelease or RecoverRelease is running
  reading,  \* it has not read the log yet
  answer,   \* what the last call returned, until it is received or the Agent dies
  content,  \* production: "production" or "draft" as the release knows them, or "other"
  edited    \* somebody else edited production

evidenceVars == <<log, known, spoiled>>
serviceVars == <<log, known, spoiled, busy, reading, answer, content, edited>>

NoAnswer == [state |-> "none", stages |-> <<>>, backup |-> FALSE]

ProductionContents == {"production", "draft", "other"}

ServiceTypeOK ==
  /\ log \in Seq(Stages) /\ known \in Seq(Stages) /\ spoiled \in BOOLEAN
  /\ busy \in BOOLEAN /\ reading \in BOOLEAN
  /\ content \in ProductionContents /\ edited \in BOOLEAN
  /\ answer \in [state : ReleaseStates \cup {"none"}, stages : Seq(Stages), backup : BOOLEAN]

ServiceInit ==
  /\ log = <<>> /\ known = <<>> /\ spoiled = FALSE
  /\ busy = FALSE /\ reading = FALSE /\ answer = NoAnswer
  /\ content = "production" /\ edited = FALSE

WriteStages ==
  {"files_applying", "files_applied", "production_validated", "reload_requested",
   "runtime_confirmed"}

\* The stage logged next after a given one, in one call or over several.
NextStages(stage) ==
  {s \in ForwardStages : stage \in ForwardStages /\ StageOrder(s) = StageOrder(stage) + 1}
  \cup {s \in RollbackStages : stage \in RollbackStages /\ StageOrder(s) = StageOrder(stage) + 1}
  \cup (IF stage = "rollback_validated" THEN {"rolled_back"} ELSE {})
  \cup (IF stage \in WriteStages \cup {"committed"} THEN {"rollback_applying"} ELSE {})
  \cup (IF stage \in BeforeWriteStages \cup {"files_applying"} THEN {"failed"} ELSE {})
  \cup (IF stage = "needs_attention" THEN {} ELSE {"needs_attention"})

\* The stages that can follow some others.  Edits by others can make a recovery take an attempt
\* that never wrote for one that did.
Successors(stages, disturbed) ==
  IF stages = <<>>
  THEN {"rechecking"}
  ELSE NextStages(LastStage(stages))
       \cup (IF disturbed /\ LastStage(stages) \in BeforeWriteStages THEN {"rollback_applying"} ELSE {})

\* Production is written only by a call that knows of a log that says so, and of all of it.
MayWrite ==
  /\ known # <<>> /\ LastStage(known) \in (WriteStages \cup RollbackStages) \ TerminalStages
  /\ log = known \/ spoiled

\* A verdict other than doubt agrees with production when it is given.
Agrees(verdict) ==
  \/ edited
  \/ /\ verdict \in {"succeeded", "committed"} => content = "draft"
     /\ verdict \in {"rolled_back", "failed"} => content = "production"

\* What a call may return with what it knows of the log.  A verdict that matters is logged,
\* "failed" may have missed the log.
Returnable(a, logged) ==
  LET last == IF logged = <<>> THEN "queued" ELSE LastStage(logged) IN
  \/ a.state = "running" /\ last \in BeforeWriteStages
  \/ a.state = "failed" /\ last \in BeforeWriteStages \cup {"failed"}
  \/ a.state = "succeeded" /\ last = "committed" /\ a.backup
  \/ a.state = "rolled_back" /\ last = "rolled_back" /\ a.backup
  \/ a.state = "needs_attention"

Answers(logged) ==
  {a \in [state : {"running", "failed", "succeeded", "rolled_back", "needs_attention"},
          stages : {logged}, backup : BOOLEAN] : Returnable(a, logged)}

\* A log that could not be read is answered by one made-up stage.
Uncertain == [state |-> "needs_attention", stages |-> <<"needs_attention">>, backup |-> FALSE]

\* The first call begins the log, any later one reads it first.
CallBegins ==
  /\ ~busy
  /\ busy' = TRUE /\ answer' = NoAnswer
  /\ reading' \in BOOLEAN /\ (~reading' => log = <<>> /\ known = <<>> /\ ~spoiled)
  /\ UNCHANGED <<evidenceVars, content, edited>>

\* The call adds the stage that the journal is ahead of the log.
CatchesUp == \E s \in Successors(log, edited) : Agrees(s) /\ log' = Append(log, s) /\ UNCHANGED spoiled

Reads ==
  /\ reading /\ ~spoiled
  /\ CatchesUp \/ UNCHANGED <<log, spoiled>>
  /\ known' = log' /\ reading' = FALSE

\* Half a stage goes into the log.
Tears == spoiled' = TRUE /\ UNCHANGED log

\* A stage goes into the log, unless that is past reading, and into what the call knows unless it
\* is told that it failed; then it does not go forward.
Grows ==
  \E s \in Successors(known, edited) :
    /\ Agrees(s) /\ (spoiled \/ log # known => s \notin ForwardStages)
    /\ IF spoiled \/ log # known
       THEN known' = Append(known, s) /\ spoiled' = TRUE /\ UNCHANGED log
       ELSE log' = Append(log, s) /\ known' \in {known, log'} /\ UNCHANGED spoiled

Logs == ~reading /\ (Grows \/ (Tears /\ UNCHANGED known)) /\ UNCHANGED reading

Work ==
  /\ busy
  /\ \/ ~reading /\ MayWrite /\ content' \in ProductionContents /\ UNCHANGED <<evidenceVars, reading>>
     \/ (Reads \/ Logs) /\ UNCHANGED content
  /\ UNCHANGED <<busy, answer, edited>>

\* The answer is lost if nobody waits for it any more.
CallEnds ==
  /\ busy /\ busy' = FALSE /\ reading' = FALSE
  /\ \/ /\ reading /\ answer' \in {Uncertain, NoAnswer}
        /\ \/ UNCHANGED evidenceVars
           \/ ~spoiled /\ (CatchesUp \/ Tears \/ UNCHANGED <<log, spoiled>>) /\ known' = log
     \/ /\ ~reading /\ (Grows \/ (Tears /\ UNCHANGED known) \/ UNCHANGED evidenceVars)
        /\ answer' \in Answers(known') \cup {NoAnswer} /\ Agrees(answer'.state)
  /\ UNCHANGED <<content, edited>>

AgentDies ==
  /\ busy' = FALSE /\ reading' = FALSE /\ answer' = NoAnswer
  /\ UNCHANGED <<evidenceVars, content, edited>>

EditByOthers ==
  /\ content' \in ProductionContents /\ edited' = TRUE
  /\ UNCHANGED <<evidenceVars, busy, reading, answer>>

ServiceNext == CallBegins \/ Work \/ CallEnds \/ AgentDies \/ EditByOthers

ServiceSpec == ServiceInit /\ [][ServiceNext]_serviceVars
=============================================================================
