------------------------- MODULE RecoveryCoordinator -------------------------
(***************************************************************************)
(* The UI process around restores and restarts: RecoveryService queues a   *)
(* piece of work under the production lease, runs it by calls of the Agent *)
(* whose stages it copies into the database, and closes the attention case *)
(* the work was meant to settle; work that ends in doubt opens a case of   *)
(* its own.  The UI process may die at any point; the next one reconciles  *)
(* the owner of the lease before it serves anything.                       *)
(*                                                                         *)
(* Several pieces of work follow one another, because they share what is   *)
(* hard here: the lease, the cases, and an Agent that may still be busy    *)
(* with work the UI has given up.  A call is a message: it may be taken up *)
(* after its sender has died, or be lost with the Agent.  Any statement,   *)
(* call or process may fail.                                               *)
(*                                                                         *)
(* What the Agent does is told by RestoreAgent and RestartAgent; here it   *)
(* is a log of the coarser stages of TaskStages.  A stage has the time of  *)
(* the process that recorded it, of which only equality matters.           *)
(***************************************************************************)
EXTENDS TaskStages

CONSTANTS
  Clocks,    \* whose time the first stage bears; "agent" if both clocks agree
  Faults,    \* what may fail: "store", "call", "request", "death"
  MaxWork,   \* bound: how many restores and restarts there are
  Budget     \* bound: a restore takes two of it, a restart or a failure one

ASSUME CoordinatorAssumption == Clocks \subseteq {"ui", "agent"} /\ MaxWork \in Nat /\ Budget \in Nat

VARIABLES
  \* the database
  rows,      \* config_restores and config_restarts
  history,   \* config_restore_stages and config_restart_stages
  lease,     \* the owner in config_production_lease, 0 if none
  cases,     \* config_attention_cases; 0 is the case of an earlier release
  closedBy,  \* what resolved a case: a piece of work, or Verified
  indexed,   \* the work whose safety backup is in config_backups
  \* the UI process
  ui,        \* "down", "recovery" (Reconcile), "serving"
  task,      \* where the run of each piece of work is
  \* the Agent
  sent,      \* calls that it has not taken up
  busy,      \* the call it works on
  log,       \* events.ndjson of each piece of work
  answer,    \* what the last call returned
  left       \* what is left of the budget

databaseVars == <<rows, history, lease, cases, closedBy, indexed>>
agentVars == <<sent, busy, log, answer>>
vars == <<databaseVars, ui, task, agentVars, left>>

Work == 1..MaxWork
Cases == 0..MaxWork
Verified == MaxWork + 1
NoCase == MaxWork + 1

ActiveStates == {"queued", "running", "rolling_back"}
StageNames == {"queued", "first", "saved", "write", "undo"} \cup Verdicts

\* restoreStateForRecoveryStage, restartStateForRecoveryStage.
StateOf(name) ==
  IF name \in Verdicts \cup {"queued"} THEN name ELSE IF name = "undo" THEN "rolling_back" ELSE "running"

Stage(name, at) == [name |-> name, at |-> at]
Logged(names) == [i \in DOMAIN names |-> Stage(names[i], "agent")]
Last(s) == s[Len(s)]
NoCall == [name |-> "none", work |-> 0]
NoResult == [state |-> "none", stages |-> <<>>]
NoAnswer == [call |-> NoCall, result |-> NoResult]
Idle == [at |-> "none", mirrored |-> 0, failing |-> FALSE, result |-> NoResult]

TaskPoints ==
  {"none", "check", "start", "call", "waiting", "index", "prepared", "executing",
   "uncertain", "mirror", "resolve", "reconcile", "verify", "recover", "recovering"}
Calls == [name : CallNames, work : Work] \cup {NoCall}
Results == [state : ActiveStates \cup Verdicts \cup {"none"}, stages : Seq(StageNames)]

TypeOK ==
  /\ rows \in [Work -> [kind : {"none", "restore", "restart"},
                        state : ActiveStates \cup Verdicts \cup {"none"}, case : Cases \cup {NoCase}]]
  /\ history \in [Work -> Seq([name : StageNames, at : {"ui", "agent"}])]
  /\ lease \in 0..MaxWork
  /\ cases \in [Cases -> {"none", "open", "resolved"}] /\ closedBy \in [Cases -> 0..Verified]
  /\ indexed \subseteq Work
  /\ ui \in {"down", "recovery", "serving"}
  /\ task \in [Work -> [at : TaskPoints, mirrored : Nat, failing : BOOLEAN, result : Results]]
  /\ sent \subseteq Calls /\ busy \in Calls
  /\ log \in [Work -> Seq(StageNames)]
  /\ answer \in [call : Calls, result : Results] /\ left \in 0..Budget

Init ==
  /\ rows = [w \in Work |-> [kind |-> "none", state |-> "none", case |-> NoCase]]
  /\ history = [w \in Work |-> <<>>] /\ lease = 0
  /\ cases = [c \in Cases |-> IF c = 0 THEN "open" ELSE "none"]
  /\ closedBy = [c \in Cases |-> 0] /\ indexed = {}
  /\ ui = "serving" /\ task = [w \in Work |-> Idle]
  /\ sent = {} /\ busy = NoCall /\ log = [w \in Work |-> <<>>] /\ answer = NoAnswer /\ left = Budget

-------------------------------------------------------------------------------
(* Shared by the handlers. *)

Fails(what) == left > 0 /\ what \in Faults /\ left' = left - 1
Works == UNCHANGED left

\* (Mutant: doubt about work that was to settle a case opens no case of its own.)
TransitionOpensOnce(w, stages, state) ==
  /\ rows' = [rows EXCEPT ![w].state = state]
  /\ history' = [history EXCEPT ![w] = @ \o stages]
  /\ lease' = IF state \in Verdicts THEN 0 ELSE lease
  /\ cases' = IF state = "needs_attention" /\ rows[w].case = NoCase THEN [cases EXCEPT ![w] = "open"] ELSE cases
  /\ UNCHANGED <<closedBy, indexed>>

\* releaseProductionLeaseTx: only its owner frees the lease.
FreeLease(w) == lease = w /\ lease' = 0

\* insertTaskAttentionCase.
OpenCase(w) == cases' = [cases EXCEPT ![w] = "open"]

\* TransitionRestore and TransitionRestart, for one stage after the other: the
\* compare-and-set succeeds because only the task moves its row.  Doubt opens the case
\* of the work itself, and a verdict frees the lease, in the same transaction.
Transition(w, stages, state) ==
  /\ rows' = [rows EXCEPT ![w].state = state]
  /\ history' = [history EXCEPT ![w] = @ \o stages]
  /\ IF state \in Verdicts THEN FreeLease(w) ELSE UNCHANGED lease
  /\ IF state = "needs_attention" THEN OpenCase(w) ELSE UNCHANGED cases
  /\ UNCHANGED <<closedBy, indexed>>

\* The run of w is over; without error a startup goes on.
EndTask(w, next) ==
  /\ task' = [task EXCEPT ![w] = Idle]
  /\ ui' = IF ui = "recovery" THEN next ELSE ui

Succeed(w) == EndTask(w, "serving")
Fail(w) == EndTask(w, "down")
Goto(w, point) == task' = [task EXCEPT ![w].at = point] /\ UNCHANGED ui

\* An answer that ends the run with an error leaves the startup where it was.
End(w) == Succeed(w) \/ (ui = "recovery" /\ Fail(w))

-------------------------------------------------------------------------------
(* QueueRestore, QueueRestart. *)

Cost(kind) == IF kind = "restore" THEN 2 ELSE 1

\* requireOpenAttention: the case, if one is given, is open.
OpenIfGiven(c) == c # NoCase => cases[c] = "open"

\* CreateRestore, CreateRestart: the lease, if it is free, is acquired with the row.
Creatable == {w \in Work : lease = 0 /\ rows[w].kind = "none" /\ \A v \in Work : v < w => rows[v].kind # "none"}
Create(w, kind, c) ==
  /\ lease' = w
  /\ rows' = [rows EXCEPT ![w] = [kind |-> kind, state |-> "queued", case |-> c]]
  /\ history' = [history EXCEPT ![w] = <<Stage("queued", "ui")>>]
  /\ left >= Cost(kind) /\ left' = left - Cost(kind)
  /\ UNCHANGED <<cases, closedBy, indexed>>

QueueRestore ==
  /\ ui = "serving"
  /\ \E w \in Creatable, c \in Cases \cup {NoCase} :
       OpenIfGiven(c) /\ Create(w, "restore", c) /\ Goto(w, "check")
  /\ UNCHANGED agentVars

QueueRestart ==
  /\ ui = "serving"
  /\ \E w \in Creatable, c \in Cases \cup {NoCase} :
       OpenIfGiven(c) /\ Create(w, "restart", c) /\ Goto(w, "start")
  /\ UNCHANGED agentVars

FailQueued(w) ==
  \/ Works /\ Transition(w, <<Stage("failed", "ui")>>, "failed") /\ Succeed(w)
  \/ Fails("store") /\ Fail(w) /\ UNCHANGED databaseVars

\* Target, production and case are looked at again before the task owner starts the run.
\* A request that is cancelled now leaves the row and its lease to the next startup.
CheckTwice(w) ==
  /\ task[w].at = "check"
  /\ \/ /\ OpenIfGiven(rows[w].case)
        /\ Works /\ Goto(w, "start") /\ UNCHANGED databaseVars
     \/ FailQueued(w)
     \/ Fails("request") /\ Succeed(w) /\ UNCHANGED databaseVars
  /\ UNCHANGED agentVars

-------------------------------------------------------------------------------
(* RunRestore, RunRestart. *)

\* The work is running, with its first stage, before the Agent hears of it.
Start(w) ==
  /\ task[w].at = "start"
  /\ \/ Works /\ \E clock \in Clocks : Transition(w, <<Stage("first", clock)>>, "running") /\ Goto(w, "call")
     \/ Fails("store") /\ Fail(w) /\ UNCHANGED databaseVars
  /\ UNCHANGED agentVars

\* The target has left the index meanwhile.
TargetGone(w) ==
  /\ task[w].at = "start" /\ rows[w].kind = "restore"
  /\ FailQueued(w)
  /\ UNCHANGED agentVars

Send(w, name) == sent' = sent \cup {[name |-> name, work |-> w]}

CallAgent(w, name) ==
  /\ task[w].at = "call" /\ Works /\ Send(w, name)
  /\ task' = [task EXCEPT ![w].at = "waiting", ![w].mirrored = 1]
  /\ UNCHANGED <<databaseVars, ui, busy, log, answer>>

PrepareRestore(w) == rows[w].kind = "restore" /\ CallAgent(w, "prepare")
ExecuteRestart(w) == rows[w].kind = "restart" /\ CallAgent(w, "restart")

Lost(call) == call \notin sent /\ busy # call /\ answer.call # call

\* What comes back: the answer to the call, or an error instead of it; an error is sure
\* once the call is lost.
Answered(w, name, result) ==
  \/ /\ answer.call = [name |-> name, work |-> w]
     /\ result = answer.result /\ answer' = NoAnswer
     /\ Works /\ UNCHANGED <<sent, busy, log>>
  \/ /\ Fails("call") \/ (Works /\ Lost([name |-> name, work |-> w]))
     /\ result = NoResult /\ UNCHANGED agentVars

\* validRestorePreparation: a verdict, or the evidence of the safety backup.
ValidPreparation(result) ==
  /\ result.stages # <<>> /\ result.stages[1] = "first"
  /\ result.state = StateOf(Last(result.stages))
  /\ result.state \in Verdicts \/ Last(result.stages) = "saved"

Prepared(w) ==
  /\ task[w].at = "waiting" /\ rows[w].kind = "restore"
  /\ \E result \in {answer.result, NoResult} :
       /\ Answered(w, "prepare", result)
       /\ IF ValidPreparation(result)
          THEN task' = [task EXCEPT ![w].at = "index", ![w].result = result]
          ELSE task' = [task EXCEPT ![w].at = "uncertain"]
  /\ UNCHANGED <<databaseVars, ui>>

HasSaved(stages) == \E i \in DOMAIN stages : stages[i] = "saved"

\* persistRestoreSafetyBackup, before anything of the answer is mirrored.
Index(w) ==
  /\ task[w].at = "index"
  /\ \/ Works /\ ~HasSaved(task[w].result.stages) /\ Goto(w, "prepared") /\ UNCHANGED indexed
     \/ Works /\ HasSaved(task[w].result.stages) /\ indexed' = indexed \cup {w} /\ Goto(w, "prepared")
     \/ Fails("store") /\ HasSaved(task[w].result.stages) /\ Goto(w, "uncertain") /\ UNCHANGED indexed
  /\ UNCHANGED <<rows, history, lease, cases, closedBy, agentVars>>

\* mirrorRestoreStages, mirrorRestartStages: stages m + 1 to n of a log, as far as the
\* store lets it.
MirrorUpTo(w, stages, m, k) ==
  IF k = m THEN UNCHANGED databaseVars
  ELSE Transition(w, Logged(SubSeq(stages, m + 1, k)), StateOf(stages[k]))

StoredAll(k, n) == IF k < n THEN Fails("store") ELSE Works

\* The preparation is mirrored; unless it failed the restore is executed.
MirrorPreparation(w) ==
  /\ task[w].at = "prepared"
  /\ LET stages == task[w].result.stages  n == Len(stages) IN
     \E k \in 1..n :
       /\ StoredAll(k, n)
       /\ MirrorUpTo(w, stages, 1, k)
       /\ IF k < n THEN Fail(w) /\ UNCHANGED sent
          ELSE IF Last(stages) \in Verdicts THEN Succeed(w) /\ UNCHANGED sent
          ELSE /\ Send(w, "execute")
               /\ task' = [task EXCEPT ![w].at = "executing", ![w].mirrored = n]
               /\ UNCHANGED ui
  /\ UNCHANGED <<busy, log, answer>>

Executing(w) == task[w].at = "executing" \/ (task[w].at = "waiting" /\ rows[w].kind = "restart")

NonTerminalCount(stages) ==
  IF stages # <<>> /\ Last(stages) \in Verdicts THEN Len(stages) - 1 ELSE Len(stages)

\* One tick: what the Agent has logged by now is mirrored.  The first stage that cannot
\* be stored ends the polling, while the count stays behind.
Poll(w) ==
  /\ Executing(w) /\ ~task[w].failing
  /\ LET m == task[w].mirrored  available == NonTerminalCount(log[w]) IN
     /\ available > m
     /\ \E k \in m..available :
          /\ StoredAll(k, available)
          /\ MirrorUpTo(w, log[w], m, k)
          /\ task' = IF k = available THEN [task EXCEPT ![w].mirrored = k]
                     ELSE [task EXCEPT ![w].failing = TRUE]
  /\ UNCHANGED <<ui, agentVars>>

\* validRestoreExecutionResult, validRestartExecutionResult: one verdict, at the end,
\* and more than what is mirrored.
ValidResult(result, m) ==
  /\ Len(result.stages) > m /\ Len(result.stages) > 1
  /\ result.stages[1] = "first"
  /\ result.state \in Verdicts /\ result.state = Last(result.stages)

Completed(w) ==
  /\ Executing(w)
  /\ \E result \in {answer.result, NoResult} :
       /\ Answered(w, IF rows[w].kind = "restore" THEN "execute" ELSE "restart", result)
       /\ IF ValidResult(result, task[w].mirrored) /\ ~task[w].failing
          THEN task' = [task EXCEPT ![w].at = "mirror", ![w].result = result]
          ELSE task' = [task EXCEPT ![w].at = "uncertain"]
  /\ UNCHANGED <<databaseVars, ui>>

\* The rest is mirrored; the last stage carries the verdict.
Mirror(w) ==
  /\ task[w].at = "mirror"
  /\ LET m == task[w].mirrored  stages == task[w].result.stages  n == Len(stages) IN
     \E k \in m..n :
       /\ StoredAll(k, n)
       /\ MirrorUpTo(w, stages, m, k)
       /\ IF k < n THEN Fail(w)
          ELSE IF Last(stages) = "succeeded" /\ rows[w].case # NoCase THEN Goto(w, "resolve")
          ELSE End(w)
  /\ UNCHANGED agentVars

\* markRestoreUncertain, markRestartUncertain.
MarkUncertain(w) ==
  /\ task[w].at = "uncertain"
  /\ \/ Works /\ Transition(w, <<Stage("needs_attention", "ui")>>, "needs_attention") /\ End(w)
     \/ Fails("store") /\ Fail(w) /\ UNCHANGED databaseVars
  /\ UNCHANGED agentVars

-------------------------------------------------------------------------------
(* Attention cases. *)

\* ResolveAttentionCase closes an open case, and only by evidence that succeeded.
Resolve(c, evidence, succeeded) ==
  /\ succeeded /\ cases[c] = "open"
  /\ cases' = [cases EXCEPT ![c] = "resolved"]
  /\ closedBy' = [closedBy EXCEPT ![c] = evidence]
  /\ UNCHANGED <<rows, history, lease, indexed>>

\* The lease is free by now.  If this fails, the case stays open and nobody tries again.
ResolveCase(w) ==
  /\ task[w].at = "resolve"
  /\ \/ Works /\ Resolve(rows[w].case, w, rows[w].state = "succeeded") /\ End(w)
     \/ /\ Fails("store") \/ (Works /\ cases[rows[w].case] # "open")
        /\ Fail(w) /\ UNCHANGED databaseVars
  /\ UNCHANGED agentVars

\* VerifyAttentionCase takes no lease: it asks the Agent for a health proof and closes the
\* case if it is still open; what it reads before that changes nothing.
Verify ==
  /\ ui = "serving" /\ Works
  /\ \E c \in Cases : Resolve(c, Verified, TRUE)
  /\ UNCHANGED <<ui, task, agentVars>>

-------------------------------------------------------------------------------
(* Reconcile, when the UI process starts. *)

Reconcile ==
  /\ ui = "recovery" /\ \A w \in Work : task[w].at = "none"
  /\ \/ Works /\ lease = 0 /\ (\A w \in Work : rows[w].state \notin ActiveStates) /\ ui' = "serving" /\ UNCHANGED task
     \/ Works /\ lease = 0 /\ (\E w \in Work : rows[w].state \in ActiveStates) /\ ui' = "down" /\ UNCHANGED task
     \/ Works /\ lease # 0 /\ Goto(lease, "reconcile")
     \/ Fails("store") /\ ui' = "down" /\ UNCHANGED task
  /\ UNCHANGED <<databaseVars, agentVars>>

\* Work that was only queued has failed, and the Agent is asked about the rest.
ReconcileWork(w) ==
  /\ task[w].at = "reconcile"
  /\ \/ rows[w].state = "queued" /\ FailQueued(w)
     \/ Works /\ rows[w].state # "queued" /\ UNCHANGED databaseVars
        /\ Goto(w, IF rows[w].kind = "restore" THEN "verify" ELSE "recover")
     \/ Fails("store") /\ Fail(w) /\ UNCHANGED databaseVars
  /\ UNCHANGED agentVars

\* Before a restore is recovered its safety backup, which may exist before the Agent has
\* logged it, is verified and indexed; doubt is all that is left without it.
VerifySafety(w) ==
  /\ task[w].at = "verify"
  /\ \/ /\ Works /\ log[w] # <<>> /\ indexed' = indexed \cup {w} /\ Goto(w, "recover")
        /\ UNCHANGED <<rows, history, lease, cases, closedBy>>
     \/ /\ Fails("call") \/ Fails("store") \/ (Works /\ ~HasSaved(log[w]))
        /\ Goto(w, "uncertain") /\ UNCHANGED databaseVars
  /\ UNCHANGED agentVars

Recover(w) ==
  /\ task[w].at = "recover"
  /\ Works /\ Send(w, "recover") /\ Goto(w, "recovering")
  /\ UNCHANGED <<databaseVars, busy, log, answer>>

\* validRecoveredRestoreResult, sameRestartStagePrefix: the stored stages, times
\* included, are the first of the Agent's.
Extends(result, w) ==
  LET stored == Tail(history[w]) IN
  Len(stored) <= Len(result.stages) /\ stored = SubSeq(Logged(result.stages), 1, Len(stored))

Recovered(w) ==
  /\ task[w].at = "recovering"
  /\ \E result \in {answer.result, NoResult} :
       /\ Answered(w, "recover", result)
       /\ IF ValidResult(result, Len(history[w]) - 1) /\ Extends(result, w)
          THEN task' = [task EXCEPT ![w].at = "mirror", ![w].mirrored = Len(history[w]) - 1, ![w].result = result]
          ELSE task' = [task EXCEPT ![w].at = "uncertain"]
  /\ UNCHANGED <<databaseVars, ui>>

\* The UI process dies; nobody waits any more for what it asked.
UIDies ==
  /\ Fails("death") /\ ui # "down"
  /\ ui' = "down" /\ task' = [w \in Work |-> Idle] /\ answer' = NoAnswer
  /\ UNCHANGED <<databaseVars, sent, busy, log>>

UIStarts ==
  /\ ui = "down" /\ ui' = "recovery" /\ Works
  /\ UNCHANGED <<databaseVars, task, agentVars>>

-------------------------------------------------------------------------------
(* The Agent. *)

Awaited(c) == LET at == task[c.work].at IN
  \/ c.name \in {"prepare", "restart"} /\ at = "waiting"
  \/ c.name = "execute" /\ at = "executing"
  \/ c.name = "recover" /\ at = "recovering"

Reply(c, result) ==
  answer' = IF Awaited(c) THEN [call |-> c, result |-> result] ELSE NoAnswer

\* readRestoreEvidence, readRestartEvidence: a restore is told by its safety backup.
NoEvidence(w) == log[w] = <<>> \/ (rows[w].kind = "restore" /\ Last(log[w]) = "first")

\* A call for which the evidence is not what it expects; only a recovery waits for its turn.
Refuses(c) ==
  \/ c.name # "recover" /\ busy # NoCall
  \/ c.name \in {"prepare", "restart"} /\ log[c.work] # <<>>
  \/ c.name = "execute" /\ (log[c.work] = <<>> \/ Last(log[c.work]) # "saved")
  \/ c.name = "recover" /\ busy = NoCall /\ NoEvidence(c.work)

TakeUp ==
  \E c \in sent :
    /\ sent' = sent \ {c}
    /\ \/ ~Refuses(c) /\ busy = NoCall /\ busy' = c /\ UNCHANGED answer
       \/ Refuses(c) /\ Reply(c, NoResult) /\ UNCHANGED busy
    /\ Works /\ UNCHANGED <<databaseVars, ui, task, log>>

NextStages(c) ==
  LET w == c.work IN Following(rows[w].kind, c.name, IF log[w] = <<>> THEN "queued" ELSE Last(log[w]))

AgentLogs ==
  /\ busy # NoCall
  /\ busy.name = "prepare" /\ log[busy.work] # <<>> => Last(log[busy.work]) # "saved"
  /\ \E name \in NextStages(busy) : log' = [log EXCEPT ![busy.work] = Append(@, name)]
  /\ Works /\ UNCHANGED <<databaseVars, ui, task, sent, busy, answer>>

\* A call ends with a verdict or a prepared restore, or anywhere with an error.
AgentAnswers ==
  /\ busy # NoCall
  /\ LET stages == log[busy.work] IN
     \/ /\ stages # <<>> /\ (Last(stages) \in Verdicts \/ (busy.name = "prepare" /\ Last(stages) = "saved"))
        /\ Works /\ Reply(busy, [state |-> StateOf(Last(stages)), stages |-> stages])
     \/ Fails("call") /\ Reply(busy, NoResult)
  /\ busy' = NoCall
  /\ UNCHANGED <<databaseVars, ui, task, sent, log>>

AgentDies ==
  /\ Fails("death")
  /\ sent' = {} /\ busy' = NoCall /\ answer' = NoAnswer
  /\ UNCHANGED <<databaseVars, ui, task, log>>

-------------------------------------------------------------------------------
\* A run that is over takes no step.
TaskStep(w) ==
  /\ task[w].at # "none"
  /\ \/ CheckTwice(w) \/ Start(w) \/ TargetGone(w) \/ PrepareRestore(w) \/ ExecuteRestart(w) \/ Prepared(w) \/ Index(w) \/ MirrorPreparation(w)
     \/ Poll(w) \/ Completed(w) \/ Mirror(w) \/ MarkUncertain(w) \/ ResolveCase(w)
     \/ ReconcileWork(w) \/ VerifySafety(w) \/ Recover(w) \/ Recovered(w)

AgentRuns == TakeUp \/ AgentLogs \/ AgentAnswers
Agent == AgentRuns \/ AgentDies

Next ==
  QueueRestore \/ QueueRestart \/ (\E w \in Work : TaskStep(w)) \/ Verify \/ Reconcile \/ UIDies \/ UIStarts \/ Agent

\* A run goes on while it can; s6 restarts the UI process; the Agent serves its calls,
\* each of which has a deadline.
Spec ==
  /\ Init /\ [][Next]_vars
  /\ \A w \in Work : WF_vars(TaskStep(w))
  /\ WF_vars(Reconcile) /\ WF_vars(UIStarts)
  /\ WF_vars(AgentRuns)

-------------------------------------------------------------------------------
(* Properties. *)

\* The lease belongs to the one piece of work that is active, in the database and not in
\* anybody's memory: otherwise Reconcile could never serve again, or would miss the work.
LeaseIsTheWorks ==
  \A w \in Work : rows[w].state \in ActiveStates <=> lease = w

\* The stored stages are the Agent's first ones, in its order and none twice, whatever
\* failed or was polled, and after them at most the UI's own verdict.
HistoryIsEvidence ==
  \A w \in Work :
    LET names == [i \in 1..Len(history[w]) |-> history[w][i].name]
        own == names # <<>> /\ Last(history[w]).at = "ui"
        n == IF own THEN Len(names) - 1 ELSE Len(names)
        stored == SubSeq(names, 2, n)
    IN n >= 2 => IF log[w] = <<>> THEN stored = <<"first">>
                 ELSE n - 1 <= Len(log[w]) /\ stored = SubSeq(log[w], 1, n - 1)

\* A certain verdict in the database is the Agent's, or that of work the Agent has
\* never heard of and never will, also not from a call that was under way.
VerdictIsTrue ==
  \A w \in Work :
    /\ rows[w].state \in {"succeeded", "rolled_back"} => log[w] # <<>> /\ Last(log[w]) = rows[w].state
    /\ rows[w].state = "failed" =>
         \/ log[w] # <<>> /\ Last(log[w]) = "failed"
         \/ log[w] = <<>> /\ busy.work # w /\ \A c \in sent : c.work # w

\* The safety backup of a restore is in the index before the restore writes production,
\* be it the target or what it puts back.
SafetyIsIndexed ==
  \A w \in Work :
    rows[w].kind = "restore" /\ (\E i \in DOMAIN log[w] : log[w][i] \in {"write", "undo"}) => w \in indexed

\* Every doubt has a case that is open until evidence closes it, and every case that
\* work has closed was given to that work, which succeeded.
CasesAreSettled ==
  /\ \A w \in Work : rows[w].state = "needs_attention" <=> cases[w] # "none"
  /\ \A c \in Cases : cases[c] = "resolved" =>
       closedBy[c] = Verified \/ (rows[closedBy[c]].state = "succeeded" /\ rows[closedBy[c]].case = c)

\* The database tells what the Agent did: the lease is the active work's, the stages are
\* the Agent's first ones, a certain verdict is the Agent's, no restore writes before its
\* safety backup is indexed, and every doubt has a case that evidence closes.
RecoveryIsTold ==
  /\ LeaseIsTheWorks /\ HistoryIsEvidence /\ VerdictIsTrue
  /\ SafetyIsIndexed /\ CasesAreSettled

\* A case that was resolved is never opened again.
CaseStaysResolved ==
  [][\A c \in Cases : cases[c] = "resolved" => cases'[c] = "resolved"]_vars

\* A run or a reconciliation comes to an end, whatever the Agent does.
TaskEnds == \A w \in Work : task[w].at # "none" ~> task[w].at = "none"
=============================================================================
