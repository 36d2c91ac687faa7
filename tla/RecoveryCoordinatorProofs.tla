----------------------- MODULE RecoveryCoordinatorProofs -----------------------
(***************************************************************************)
(* The database tells what the Agent did, for every number of restores and *)
(* restarts, whichever clocks agree and whatever fails; and a case that    *)
(* evidence has closed stays closed.                                       *)
(*                                                                         *)
(* None of this is inductive by itself.  What has to be known beside the   *)
(* database is where the calls are: that a run waits for the one call it   *)
(* has sent (FirstAt), that an answer with stages tells a log which cannot *)
(* grow any more (AnswerOK), and that a call to execute stands for a       *)
(* safety backup in the index (CallsOK).  What is said of one piece of     *)
(* work is a conjunction of its own (DataAt, RunAt), so that a step about  *)
(* w has to be looked at for w alone (Assembled).                          *)
(***************************************************************************)
EXTENDS RecoveryCoordinator, SequenceTheorems, TLAPS

USE CoordinatorAssumption DEF CoordinatorAssumption

Started == {"running", "rolling_back"}

\* The Agent has nothing to do for w, now or later.
Quiet(w) == busy.work # w /\ \A c \in sent : c.work # w

\* Work that nobody has asked for has left no trace; work that is only queued is not
\* known to the Agent.
UnbornAt(w) ==
  /\ rows[w].kind = "none" <=> rows[w].state = "none"
  /\ rows[w].state = "none" => history[w] = <<>> /\ log[w] = <<>> /\ Quiet(w)
  /\ rows[w].state = "queued" => Len(history[w]) = 1 /\ log[w] = <<>> /\ Quiet(w)
  /\ rows[w].state \in Started => Len(history[w]) >= 2

LeaseAt(w) == rows[w].state \in ActiveStates <=> lease = w

\* The stages the database has: after "queued" the Agent's, of which the first bears any
\* time, and at the end the verdict the UI gave itself.
HistoryAt(w) ==
  \A i \in 2..Len(history[w]) :
    \/ i = 2 /\ history[w][i].name = "first"
    \/ i > 2 /\ i - 1 <= Len(log[w]) /\ history[w][i] = Stage(log[w][i - 1], "agent")
    \/ i = Len(history[w]) /\ history[w][i].at = "ui" /\ rows[w].state \notin ActiveStates

\* A log begins with its first stage and ends with its verdict.
LogAt(w) ==
  /\ log[w] # <<>> => log[w][1] = "first"
  /\ \A i \in 1..Len(log[w]) : log[w][i] # "queued" /\ (i < Len(log[w]) => log[w][i] \notin Verdicts)

VerdictAt(w) ==
  /\ rows[w].state \in {"succeeded", "rolled_back"} => log[w] # <<>> /\ Last(log[w]) = rows[w].state
  /\ rows[w].state = "failed" =>
       \/ log[w] # <<>> /\ Last(log[w]) = "failed"
       \/ log[w] = <<>> /\ Quiet(w)

\* A call is made for the kind of work it belongs to, and a restore is executed or
\* recovered only after its safety backup was indexed.
CallOK(c) ==
  /\ c.name \in {"prepare", "execute"} => rows[c.work].kind = "restore"
  /\ c.name = "restart" => rows[c.work].kind = "restart"
  /\ c.name = "execute" \/ (c.name = "recover" /\ rows[c.work].kind = "restore") => c.work \in indexed

CallsOK == (busy # NoCall => CallOK(busy)) /\ \A c \in sent : c # NoCall /\ CallOK(c)

SafetyAt(w) ==
  rows[w].kind = "restore" /\ (\E i \in DOMAIN log[w] : log[w][i] \in {"write", "undo"}) => w \in indexed

\* What the run of a piece of work knows, by where it is.
FirstCall(w) == [name |-> IF rows[w].kind = "restore" THEN "prepare" ELSE "restart", work |-> w]

FirstPoints == {"check", "start", "call", "waiting", "index", "prepared", "executing"}

TaskAt(w) ==
  LET t == task[w] IN
  /\ t.at \notin {"none", "resolve"} => rows[w].state \in ActiveStates
  /\ t.at \in FirstPoints => ui = "serving"
  /\ t.at \in {"check", "start"} => rows[w].state = "queued"
  /\ t.at \notin {"none", "resolve", "check", "start", "reconcile"} => rows[w].state \in Started
  /\ t.at \in {"check", "index", "prepared", "executing", "verify"} => rows[w].kind = "restore"
  /\ t.at = "resolve" => rows[w].state = "succeeded" /\ rows[w].case # NoCase

\* How far the run has mirrored the log.
MirroredAt(w) ==
  LET t == task[w] IN
  /\ t.at \in {"call", "index", "prepared"} \/ (t.at = "waiting" /\ rows[w].kind = "restore") => Len(history[w]) = 2
  /\ t.at \in {"waiting", "executing"} /\ ~t.failing => t.mirrored = Len(history[w]) - 1
  /\ t.at = "mirror" => t.mirrored = Len(history[w]) - 1 /\ t.mirrored < Len(log[w])

\* What the run has been answered is the log, which has not grown since.
ResultAt(w) ==
  LET t == task[w] IN
  /\ t.at \in {"index", "prepared"} =>
       /\ t.result.stages = log[w] /\ Len(log[w]) >= 2
       /\ Last(log[w]) \in Verdicts \/ (Last(log[w]) = "saved" /\ Quiet(w))
  /\ t.at = "prepared" /\ HasSaved(log[w]) => w \in indexed
  /\ t.at = "recover" /\ rows[w].kind = "restore" => w \in indexed
  /\ t.at = "mirror" => t.result.stages = log[w] /\ Last(log[w]) \in Verdicts

\* The first call of a run is in one place.
FirstAt(w) ==
  /\ task[w].at = "call" => log[w] = <<>> /\ Quiet(w)
  /\ task[w].at = "waiting" =>
       /\ \A c \in sent : c.work = w => c = FirstCall(w)
       /\ busy.work = w => busy = FirstCall(w) /\ busy \notin sent

\* An answer with stages tells the log, which is final, or that of a prepared restore,
\* for which nothing else is under way.
AnswerOK ==
  answer.result.stages # <<>> =>
    LET c == answer.call  w == c.work IN
    /\ c # NoCall /\ answer.result.stages = log[w]
    /\ \/ Last(log[w]) \in Verdicts
       \/ /\ c.name = "prepare" /\ Last(log[w]) = "saved"
          /\ Quiet(w) /\ ui = "serving" /\ task[w].at \in {"waiting", "uncertain", "none"}

\* Doubt has a case, and a case is closed by evidence.
CaseAt(w) == rows[w].state = "needs_attention" <=> cases[w] # "none"

ClosedAt(c) ==
  cases[c] = "resolved" =>
    \/ closedBy[c] = Verified
    \/ closedBy[c] \in Work /\ rows[closedBy[c]].state = "succeeded" /\ rows[closedBy[c]].case = c

DataAt(w) ==
  UnbornAt(w) /\ LeaseAt(w) /\ HistoryAt(w) /\ LogAt(w) /\ VerdictAt(w) /\ SafetyAt(w) /\ CaseAt(w)
RunAt(w) == TaskAt(w) /\ MirroredAt(w) /\ ResultAt(w) /\ FirstAt(w)

IInv ==
  /\ TypeOK /\ CallsOK /\ AnswerOK
  /\ \A w \in Work : DataAt(w) /\ RunAt(w)
  /\ \A c \in Cases : ClosedAt(c)

-------------------------------------------------------------------------------
(* Types and frames. *)

StageRecord == [name : StageNames, at : {"ui", "agent"}]
Rows == [kind : {"none", "restore", "restart"}, state : ActiveStates \cup Verdicts \cup {"none"},
         case : Cases \cup {NoCase}]
Tasks == [at : TaskPoints, mirrored : Nat, failing : BOOLEAN, result : Results]

\* What has its type in a piece of work.
LEMMA TypesAt ==
  ASSUME TypeOK, NEW w \in Work
  PROVE  /\ rows[w] \in Rows /\ rows[w].kind \in {"none", "restore", "restart"}
         /\ rows[w].state \in ActiveStates \cup Verdicts \cup {"none"}
         /\ rows[w].case \in Cases \cup {NoCase}
         /\ history[w] \in Seq(StageRecord) /\ log[w] \in Seq(StageNames)
         /\ Len(history[w]) \in Nat /\ Len(log[w]) \in Nat
         /\ task[w] \in Tasks /\ task[w].at \in TaskPoints /\ task[w].mirrored \in Nat
         /\ task[w].result.stages \in Seq(StageNames) /\ task[w].result \in Results
         /\ task[w].failing \in BOOLEAN
<1>1. rows[w] \in Rows /\ task[w] \in Tasks
  BY DEF TypeOK, Rows, Tasks
<1>2. history[w] \in Seq(StageRecord) /\ log[w] \in Seq(StageNames)
  BY DEF TypeOK, StageRecord
<1>3. Len(history[w]) \in Nat /\ Len(log[w]) \in Nat
  BY <1>2
<1>4. task[w].result \in Results
  BY <1>1 DEF Tasks
<1>5. task[w].result.stages \in Seq(StageNames)
  BY <1>4 DEF Results
<1>6. QED BY <1>1, <1>2, <1>3, <1>4, <1>5 DEF Rows, Tasks

\* Work has a number.
LEMMA WorkIsNat == ASSUME NEW w \in Work PROVE w \in Nat /\ w # 0 /\ w \in Cases /\ w <= MaxWork
BY DEF Work, Cases

\* A call other than none is of some work.
LEMMA CallIsOfWork ==
  ASSUME NEW c \in Calls, c # NoCall
  PROVE  c.work \in Work /\ c.name \in CallNames /\ c = [name |-> c.name, work |-> c.work]
BY DEF Calls

\* The step gives the Agent no new call of v.
NoNewCall(v) ==
  /\ \A c \in sent' : c.work = v => c \in sent
  /\ busy'.work = v => busy' = busy \/ (busy' \in sent /\ busy' \notin sent')

\* Without a new call, what was quiet stays so.
LEMMA QuietKept ==
  ASSUME NEW v, NoNewCall(v), Quiet(v)
  PROVE  Quiet(v)'
BY DEF NoNewCall, Quiet

\* A step that changes nothing of v in the database keeps what is said of it.
LEMMA DataKept ==
  ASSUME NEW v \in Work, DataAt(v), rows'[v] = rows[v], history'[v] = history[v], log'[v] = log[v],
         lease' = v <=> lease = v, cases'[v] = "none" <=> cases[v] = "none",
         indexed \subseteq indexed', Quiet(v) => Quiet(v)'
  PROVE  DataAt(v)'
<1> USE DEF DataAt
<1>1. UnbornAt(v)' BY DEF UnbornAt
<1>2. LeaseAt(v)' BY DEF LeaseAt
<1>3. HistoryAt(v)' BY DEF HistoryAt
<1>4. LogAt(v)' BY DEF LogAt
<1>5. VerdictAt(v)' BY DEF VerdictAt
<1>6. SafetyAt(v)' BY DEF SafetyAt
<1>7. CaseAt(v)' BY DEF CaseAt
<1>8. QED BY <1>1, <1>2, <1>3, <1>4, <1>5, <1>6, <1>7

\* Nor does a step that leaves its run alone disturb what the run knows.
LEMMA RunKept ==
  ASSUME NEW v \in Work, RunAt(v), rows'[v] = rows[v], history'[v] = history[v], log'[v] = log[v],
         task'[v] = task[v], ui' = ui \/ ui # "serving", indexed \subseteq indexed', NoNewCall(v)
  PROVE  RunAt(v)'
<1> USE DEF RunAt
<1>0. Quiet(v) => Quiet(v)'
  BY QuietKept
<1>1. TaskAt(v)' BY DEF TaskAt
<1>2. MirroredAt(v)' BY DEF MirroredAt
<1>3. ResultAt(v)' BY <1>0 DEF ResultAt
<1>4. FirstAt(v)' BY <1>0 DEF FirstAt, NoNewCall, FirstCall
<1>5. QED BY <1>1, <1>2, <1>3, <1>4

\* A run that is over knows nothing.
LEMMA RunIdle ==
  ASSUME NEW v \in Work, task'[v].at = "none"
  PROVE  RunAt(v)'
BY DEF RunAt, TaskAt, MirroredAt, ResultAt, FirstAt, FirstPoints

\* What a step that is about w leaves alone.
Beside(w) ==
  /\ indexed \subseteq indexed' /\ (ui' = ui \/ ui # "serving")
  /\ \A v \in Work \ {w} :
       /\ rows'[v] = rows[v] /\ history'[v] = history[v] /\ log'[v] = log[v] /\ task'[v] = task[v]
       /\ (lease' = v <=> lease = v) /\ (cases'[v] = "none" <=> cases[v] = "none") /\ NoNewCall(v)

\* The invariant after a step that is about one piece of work.
LEMMA Assembled ==
  ASSUME IInv, NEW w \in Work, Beside(w), TypeOK', CallsOK', AnswerOK', DataAt(w)', RunAt(w)',
         \A c \in Cases : ClosedAt(c)'
  PROVE  IInv'
<1>1. ASSUME NEW v \in Work PROVE DataAt(v)' /\ RunAt(v)'
  <2>1. CASE v = w
    BY <2>1
  <2>2. CASE v # w
    <3>1. DataAt(v) /\ RunAt(v)
      BY DEF IInv
    <3>2. /\ rows'[v] = rows[v] /\ history'[v] = history[v] /\ log'[v] = log[v] /\ task'[v] = task[v]
          /\ (lease' = v <=> lease = v) /\ (cases'[v] = "none" <=> cases[v] = "none") /\ NoNewCall(v)
          /\ indexed \subseteq indexed' /\ (ui' = ui \/ ui # "serving")
      BY <2>2 DEF Beside
    <3>3. Quiet(v) => Quiet(v)'
      BY <3>2, QuietKept
    <3>4. DataAt(v)'
      BY <3>1, <3>2, <3>3, DataKept
    <3>5. RunAt(v)'
      BY <3>1, <3>2, RunKept
    <3>6. QED BY <3>4, <3>5
  <2>3. QED BY <2>1, <2>2
<1>2. QED BY <1>1 DEF IInv

-------------------------------------------------------------------------------
(* Steps of a run that leave the database and the log alone. *)

\* A fault or none: the budget keeps its type.
LEMMA LeftTyped ==
  ASSUME TypeOK, Works \/ (\E what \in Faults : Fails(what))
  PROVE  left' \in 0..Budget
BY DEF TypeOK, Works, Fails

\* Goto moves the run of w and nothing else.
LEMMA GotoDoes ==
  ASSUME TypeOK, NEW w \in Work, NEW point \in TaskPoints, Goto(w, point)
  PROVE  /\ task' \in [Work -> Tasks] /\ ui' = ui
         /\ task'[w].at = point /\ task'[w].mirrored = task[w].mirrored
         /\ task'[w].failing = task[w].failing /\ task'[w].result = task[w].result
         /\ \A v \in Work \ {w} : task'[v] = task[v]
<1>1. task \in [Work -> Tasks] /\ task' = [task EXCEPT ![w].at = point] /\ ui' = ui
  BY DEF TypeOK, Tasks, Goto
<1>2. task[w] \in Tasks
  BY <1>1
<1>3. [task[w] EXCEPT !.at = point] \in Tasks
  BY <1>2 DEF Tasks
<1>4. task'[w] = [task[w] EXCEPT !.at = point]
  BY <1>1
<1>5. QED BY <1>1, <1>2, <1>3, <1>4 DEF Tasks

\* Idle is where a run is not.
LEMMA IdleTyped == Idle \in Tasks /\ Idle.at = "none" /\ NoResult \in Results
<1>1. NoResult \in Results
  BY DEF NoResult, Results
<1>2. QED BY <1>1 DEF Idle, Tasks, TaskPoints

\* A run that is over leaves the others alone, and the process that serves goes on serving.
LEMMA EndTaskDoes ==
  ASSUME TypeOK, NEW w \in Work, Succeed(w) \/ Fail(w) \/ End(w)
  PROVE  /\ task' \in [Work -> Tasks] /\ task'[w] = Idle /\ task'[w].at = "none"
         /\ ui' \in {"down", "recovery", "serving"} /\ (ui' = ui \/ ui # "serving")
         /\ \A v \in Work \ {w} : task'[v] = task[v]
<1>1. task \in [Work -> Tasks] /\ task' = [task EXCEPT ![w] = Idle]
  BY DEF TypeOK, Tasks, Succeed, Fail, End, EndTask
<1>2. ui' \in {"down", "recovery", "serving"} /\ (ui' = ui \/ ui # "serving")
  BY DEF TypeOK, Succeed, Fail, End, EndTask
<1>3. QED BY <1>1, <1>2, IdleTyped

\* Where a run may be while a prepared restore waits to be read.
SavedPoints == {"waiting", "uncertain", "none"}

\* The answer stays true in a step about w.
LEMMA AnswerKept ==
  ASSUME IInv, NEW w \in Work, answer' = answer, log' = log, ui' = ui \/ ui # "serving",
         \A v \in Work \ {w} : task'[v] = task[v] /\ NoNewCall(v),
         log[w] # <<>> /\ ui = "serving" /\ task[w].at \in SavedPoints =>
           NoNewCall(w) /\ task'[w].at \in SavedPoints
  PROVE  AnswerOK'
<1>0. TypeOK /\ AnswerOK
  BY DEF IInv
<1> SUFFICES ASSUME answer.result.stages # <<>>
             PROVE  AnswerOK'
  BY DEF AnswerOK
<1> DEFINE v == answer.call.work
<1>1. answer.call # NoCall /\ answer.call \in Calls
  BY <1>0 DEF TypeOK, AnswerOK
<1>2. v \in Work
  BY <1>1, CallIsOfWork
<1>3. CASE Last(log[v]) \in Verdicts
  BY <1>0, <1>3 DEF AnswerOK
<1>4. CASE Last(log[v]) \notin Verdicts
  <2>1. /\ answer.call.name = "prepare" /\ Last(log[v]) = "saved" /\ log[v] # <<>>
        /\ Quiet(v) /\ ui = "serving" /\ task[v].at \in SavedPoints
    BY <1>0, <1>4 DEF AnswerOK, SavedPoints
  <2>2. NoNewCall(v) /\ task'[v].at \in SavedPoints
    BY <2>1, <1>2
  <2>3. Quiet(v)'
    BY <2>1, <2>2, QuietKept
  <2>4. QED BY <1>0, <1>1, <2>1, <2>2, <2>3 DEF AnswerOK, SavedPoints
<1>5. QED BY <1>3, <1>4

\* No answer says nothing.
LEMMA NoAnswerOK == ASSUME answer' = NoAnswer PROVE AnswerOK'
BY DEF AnswerOK, NoAnswer, NoResult

\* No answer has its type.
LEMMA NoAnswerTyped == NoAnswer \in [call : Calls, result : Results]
BY IdleTyped DEF NoAnswer, Calls

\* The calls that are under way stay of their kind.
LEMMA CallsKept ==
  ASSUME IInv, \A v \in Work : rows'[v].kind = rows[v].kind, indexed \subseteq indexed',
         \A c \in sent' : c \in sent \/ (c \in Calls /\ c # NoCall /\ CallOK(c)'),
         busy' \in {busy, NoCall} \/ busy' \in sent
  PROVE  CallsOK'
<1>0. TypeOK /\ CallsOK
  BY DEF IInv
<1>1. ASSUME NEW c \in Calls, c # NoCall, CallOK(c) PROVE CallOK(c)'
  <2>1. c.work \in Work
    BY <1>1, CallIsOfWork
  <2>2. QED BY <1>1, <2>1 DEF CallOK
<1>2. ASSUME NEW c \in sent' PROVE c # NoCall /\ CallOK(c)'
  BY <1>0, <1>1, <1>2 DEF CallsOK, TypeOK
<1>3. busy' # NoCall => CallOK(busy)'
  <2>1. CASE busy' = busy
    BY <1>0, <1>1, <2>1 DEF CallsOK, TypeOK, CallOK
  <2>2. CASE busy' \in sent
    <3>1. busy' \in Calls /\ busy' # NoCall /\ CallOK(busy')
      BY <1>0, <2>2 DEF CallsOK, TypeOK
    <3>2. busy'.work \in Work
      BY <3>1, CallIsOfWork
    <3>3. QED BY <3>1, <3>2 DEF CallOK
  <2>3. QED BY <2>1, <2>2
<1>4. QED BY <1>2, <1>3 DEF CallsOK

\* A step of the run of w that leaves the database, the log and the calls alone, but for
\* the index of the backups and an answer it reads.
LEMMA RunOnly ==
  ASSUME IInv, NEW w \in Work, UNCHANGED <<rows, history, lease, cases, closedBy, log, busy, sent>>,
         indexed \subseteq indexed', indexed' \subseteq Work,
         task' \in [Work -> Tasks], \A v \in Work \ {w} : task'[v] = task[v],
         ui' \in {"down", "recovery", "serving"}, ui' = ui \/ ui # "serving",
         left' \in 0..Budget, RunAt(w)',
         \/ answer' = NoAnswer
         \/ answer' = answer /\ (ui = "serving" /\ task[w].at \in SavedPoints => task'[w].at \in SavedPoints)
  PROVE  IInv'
<1>0. TypeOK /\ DataAt(w) /\ \A c \in Cases : ClosedAt(c)
  BY DEF IInv
<1>1. \A v \in Work : NoNewCall(v)
  BY DEF NoNewCall
<1>2. Beside(w)
  BY <1>1 DEF Beside
<1>3. TypeOK'
  BY <1>0, NoAnswerTyped DEF TypeOK, Tasks
<1>4. CallsOK'
  BY CallsKept
<1>5. AnswerOK'
  BY <1>1, AnswerKept, NoAnswerOK
<1>6. DataAt(w)'
  BY <1>0, <1>1, QuietKept, DataKept
<1>7. \A c \in Cases : ClosedAt(c)'
  BY <1>0 DEF ClosedAt
<1>8. QED BY <1>2, <1>3, <1>4, <1>5, <1>6, <1>7, Assembled

-------------------------------------------------------------------------------
(* Transitions of a row. *)

\* Mirrored stages bear the time of the Agent.
LEMMA LoggedDoes ==
  ASSUME NEW s \in Seq(StageNames)
  PROVE  /\ Logged(s) \in Seq(StageRecord) /\ Len(Logged(s)) = Len(s)
         /\ \A i \in 1..Len(s) : Logged(s)[i] = Stage(s[i], "agent")
<1>1. Len(s) \in Nat /\ DOMAIN s = 1..Len(s) /\ \A i \in 1..Len(s) : s[i] \in StageNames
  BY LenProperties, ElementOfSeq
<1>2. \A i \in 1..Len(s) : Stage(s[i], "agent") \in StageRecord
  BY <1>1 DEF Stage, StageRecord
<1>3. Logged(s) = [i \in 1..Len(s) |-> Stage(s[i], "agent")]
  BY <1>1 DEF Logged
<1>4. Logged(s) \in [1..Len(s) -> StageRecord]
  BY <1>2, <1>3
<1>5. Logged(s) \in Seq(StageRecord)
  BY <1>1, <1>4, SeqDef
<1>6. Len(Logged(s)) = Len(s)
  BY <1>1, <1>4
<1>7. QED BY <1>3, <1>5, <1>6

\* A stage the UI records itself, or the first one.
LEMMA OneStage ==
  ASSUME NEW name \in StageNames, NEW at \in {"ui", "agent"}
  PROVE  /\ <<Stage(name, at)>> \in Seq(StageRecord) /\ Len(<<Stage(name, at)>>) = 1
         /\ <<Stage(name, at)>>[1] = Stage(name, at)
BY DEF Stage, StageRecord

\* One more stage after others.
LEMMA OneMore ==
  ASSUME NEW S, NEW s \in Seq(S), NEW t \in Seq(S), Len(t) = 1
  PROVE  /\ s \o t \in Seq(S) /\ Len(s \o t) = Len(s) + 1 /\ (s \o t)[Len(s) + 1] = t[1]
         /\ \A j \in 1..Len(s) : (s \o t)[j] = s[j]
<1>1. Len(s) \in Nat
  OBVIOUS
<1>2. QED BY <1>1, ConcatProperties

\* The states of a row are those of its last stage.
LEMMA StateOfStage ==
  ASSUME NEW name \in StageNames, name # "queued"
  PROVE  /\ StateOf(name) \in Started \cup Verdicts
         /\ name \in Verdicts => StateOf(name) = name
         /\ name \notin Verdicts => StateOf(name) \in Started
BY DEF StateOf, StageNames, Started, Verdicts

\* What a transition does in the database.
LEMMA TransitionDoes ==
  ASSUME IInv, NEW w \in Work, NEW stages \in Seq(StageRecord), NEW state \in ActiveStates \cup Verdicts,
         Transition(w, stages, state), rows[w].state \in ActiveStates
  PROVE  /\ rows' \in [Work -> Rows] /\ history' \in [Work -> Seq(StageRecord)]
         /\ lease' \in 0..MaxWork /\ cases' \in [Cases -> {"none", "open", "resolved"}]
         /\ closedBy' = closedBy /\ indexed' = indexed
         /\ rows'[w].state = state /\ rows'[w].kind = rows[w].kind /\ rows'[w].case = rows[w].case
         /\ history'[w] = history[w] \o stages /\ Len(history'[w]) = Len(history[w]) + Len(stages)
         /\ LeaseAt(w)' /\ CaseAt(w)'
         /\ \A v \in Work \ {w} :
              /\ rows'[v] = rows[v] /\ history'[v] = history[v]
              /\ (lease' = v <=> lease = v) /\ (cases'[v] = "none" <=> cases[v] = "none")
<1>0. TypeOK /\ LeaseAt(w) /\ CaseAt(w) /\ rows[w] \in Rows /\ history[w] \in Seq(StageRecord)
  BY TypesAt DEF IInv, DataAt
<1>1. rows \in [Work -> Rows] /\ history \in [Work -> Seq(StageRecord)] /\ lease \in 0..MaxWork
      /\ cases \in [Cases -> {"none", "open", "resolved"}]
  BY <1>0 DEF TypeOK, Rows, StageRecord
<1>2. lease = w /\ w \in Cases
  BY <1>0, WorkIsNat DEF LeaseAt
<1>3. [rows[w] EXCEPT !.state = state] \in Rows /\ [rows[w] EXCEPT !.state = state].state = state
      /\ [rows[w] EXCEPT !.state = state].kind = rows[w].kind /\ [rows[w] EXCEPT !.state = state].case = rows[w].case
  BY <1>0 DEF Rows
<1>4. rows' = [rows EXCEPT ![w] = [rows[w] EXCEPT !.state = state]]
  BY DEF Transition
<1>5. rows' \in [Work -> Rows] /\ rows'[w] = [rows[w] EXCEPT !.state = state] /\ \A v \in Work \ {w} : rows'[v] = rows[v]
  BY <1>1, <1>3, <1>4
<1>6. history' = [history EXCEPT ![w] = history[w] \o stages]
  BY DEF Transition
<1>7. history[w] \o stages \in Seq(StageRecord) /\ Len(history[w] \o stages) = Len(history[w]) + Len(stages)
  BY <1>0, ConcatProperties
<1>8. /\ history' \in [Work -> Seq(StageRecord)] /\ history'[w] = history[w] \o stages
      /\ \A v \in Work \ {w} : history'[v] = history[v]
  BY <1>1, <1>6, <1>7
<1>9. /\ lease' \in 0..MaxWork /\ (state \in Verdicts => lease' = 0) /\ (state \notin Verdicts => lease' = w)
  BY <1>1, <1>2 DEF Transition, FreeLease
<1>10. \A v \in Work \ {w} : lease' = v <=> lease = v
  BY <1>2, <1>9, WorkIsNat
<1>11. state \in ActiveStates <=> state \notin Verdicts
  BY DEF ActiveStates, Verdicts
<1>12. LeaseAt(w)'
  BY <1>3, <1>5, <1>9, <1>11, WorkIsNat DEF LeaseAt
<1>13. cases[w] = "none"
  BY <1>0 DEF CaseAt, ActiveStates
<1>14. /\ cases' \in [Cases -> {"none", "open", "resolved"}]
       /\ \A v \in Work \ {w} : cases'[v] = "none" <=> cases[v] = "none"
       /\ cases'[w] = IF state = "needs_attention" THEN "open" ELSE cases[w]
  BY <1>1, <1>2, WorkIsNat DEF Transition, OpenCase
<1>15. CaseAt(w)'
  BY <1>3, <1>5, <1>13, <1>14 DEF CaseAt
<1>16. QED BY <1>3, <1>5, <1>7, <1>8, <1>9, <1>10, <1>12, <1>14, <1>15 DEF Transition

\* A case that is closed stays closed by the same evidence: a row that moves has not succeeded.
LEMMA TransitionKeepsClosed ==
  ASSUME IInv, NEW w \in Work, NEW stages \in Seq(StageRecord), NEW state \in ActiveStates \cup Verdicts,
         Transition(w, stages, state), rows[w].state \in ActiveStates
  PROVE  \A c \in Cases : ClosedAt(c)' /\ (cases[c] = "resolved" => cases'[c] = "resolved")
<1>1. closedBy' = closedBy /\ \A v \in Work \ {w} : rows'[v] = rows[v]
  BY TransitionDoes
<1>2. cases \in [Cases -> {"none", "open", "resolved"}] /\ w \in Cases /\ cases[w] = "none"
  BY WorkIsNat DEF IInv, TypeOK, DataAt, CaseAt, ActiveStates
<1>3. \A c \in Cases : cases'[c] = cases[c] \/ (c = w /\ cases'[c] = "open")
  BY <1>2 DEF Transition, OpenCase
<1>4. ASSUME NEW c \in Cases PROVE ClosedAt(c)' /\ (cases[c] = "resolved" => cases'[c] = "resolved")
  <2>1. ClosedAt(c)
    BY DEF IInv
  <2>2. cases[c] = "resolved" => cases'[c] = "resolved"
    BY <1>2, <1>3
  <2>3. cases'[c] = "resolved" => cases[c] = "resolved"
    BY <1>3
  <2>4. closedBy[c] = w => rows[closedBy[c]].state # "succeeded"
    BY DEF ActiveStates
  <2>5. ClosedAt(c)'
    BY <2>1, <2>3, <2>4, <1>1 DEF ClosedAt
  <2>6. QED BY <2>2, <2>5
<1>5. QED BY <1>4

\* The invariant after a transition, possibly with a call.
LEMMA Transitioned ==
  ASSUME IInv, NEW w \in Work, NEW stages \in Seq(StageRecord), NEW state \in ActiveStates \cup Verdicts,
         Transition(w, stages, state), rows[w].state \in ActiveStates,
         UNCHANGED <<log, busy, answer>>,
         task' \in [Work -> Tasks], \A v \in Work \ {w} : task'[v] = task[v],
         ui' \in {"down", "recovery", "serving"}, ui' = ui \/ ui # "serving", left' \in 0..Budget,
         \A c \in sent' : c \in sent \/ (c \in Calls /\ c # NoCall /\ c.work = w /\ CallOK(c)'),
         task[w].at \in SavedPoints => sent' = sent /\ task'[w].at \in SavedPoints,
         UnbornAt(w)', HistoryAt(w)', VerdictAt(w)', RunAt(w)'
  PROVE  IInv'
<1>0. TypeOK /\ DataAt(w) /\ rows[w] \in Rows
  BY TypesAt DEF IInv
<1>1. /\ rows' \in [Work -> Rows] /\ history' \in [Work -> Seq(StageRecord)]
      /\ lease' \in 0..MaxWork /\ cases' \in [Cases -> {"none", "open", "resolved"}]
      /\ closedBy' = closedBy /\ indexed' = indexed
  BY TransitionDoes
<1>2. rows'[w].kind = rows[w].kind /\ LeaseAt(w)' /\ CaseAt(w)'
  BY TransitionDoes
<1>3. \A v \in Work \ {w} :
        /\ rows'[v] = rows[v] /\ history'[v] = history[v]
        /\ (lease' = v <=> lease = v) /\ (cases'[v] = "none" <=> cases[v] = "none")
  BY TransitionDoes
<1>4. \A v \in Work \ {w} : NoNewCall(v)
  BY DEF NoNewCall
<1>5. Beside(w)
  BY <1>1, <1>3, <1>4 DEF Beside
<1>6. sent' \subseteq Calls
  BY <1>0 DEF TypeOK
<1>7. TypeOK'
  BY <1>0, <1>1, <1>6 DEF TypeOK, Tasks, Rows, StageRecord
<1>8. CallsOK'
  BY <1>1, <1>2, <1>3, CallsKept
<1>9. AnswerOK'
  <2>1. task[w].at \in SavedPoints => NoNewCall(w) /\ task'[w].at \in SavedPoints
    BY DEF NoNewCall
  <2>2. QED BY <1>4, <2>1, AnswerKept
<1>10. LogAt(w)' /\ SafetyAt(w)'
  BY <1>0, <1>1, <1>2 DEF DataAt, LogAt, SafetyAt
<1>11. DataAt(w)'
  BY <1>2, <1>10 DEF DataAt
<1>12. \A c \in Cases : ClosedAt(c)'
  BY TransitionKeepsClosed
<1>13. QED BY <1>5, <1>7, <1>8, <1>9, <1>11, <1>12, Assembled

\* What a transition does to its own row and history.
LEMMA TransitionAt ==
  ASSUME IInv, NEW w \in Work, NEW stages \in Seq(StageRecord), NEW state \in ActiveStates \cup Verdicts,
         Transition(w, stages, state), rows[w].state \in ActiveStates
  PROVE  /\ rows'[w].state = state /\ rows'[w].kind = rows[w].kind /\ rows'[w].case = rows[w].case
         /\ history'[w] = history[w] \o stages /\ Len(history'[w]) = Len(history[w]) + Len(stages)
BY TransitionDoes

\* Mirroring stages m + 1 to k of the log keeps what is said of the database, and the row
\* has a verdict once it has the last stage of a log that has one.
LEMMA MirrorDoes ==
  ASSUME IInv, NEW w \in Work, NEW m \in Nat, NEW k \in Nat, 1 <= m, m < k, k <= Len(log[w]),
         Len(history[w]) = m + 1, rows[w].state \in ActiveStates, log' = log,
         Transition(w, Logged(SubSeq(log[w], m + 1, k)), StateOf(log[w][k]))
  PROVE  /\ Logged(SubSeq(log[w], m + 1, k)) \in Seq(StageRecord)
         /\ StateOf(log[w][k]) \in Started \cup Verdicts /\ StateOf(log[w][k]) \in ActiveStates \cup Verdicts
         /\ UnbornAt(w)' /\ HistoryAt(w)' /\ VerdictAt(w)'
         /\ Len(history'[w]) = k + 1 /\ rows'[w].kind = rows[w].kind /\ rows'[w].case = rows[w].case
         /\ rows'[w].state = StateOf(log[w][k])
         /\ k < Len(log[w]) \/ log[w][k] \notin Verdicts => rows'[w].state \in Started
<1>0. TypeOK /\ DataAt(w) /\ rows[w] \in Rows /\ log[w] \in Seq(StageNames) /\ Len(log[w]) \in Nat
      /\ history[w] \in Seq(StageRecord)
  BY TypesAt DEF IInv
<1> DEFINE new == SubSeq(log[w], m + 1, k)
<1>1. new \in Seq(StageNames) /\ Len(new) = k - m /\ \A j \in 1..(k - m) : new[j] = log[w][m + j]
  <2>1. \A j \in (m + 1)..k : log[w][j] \in StageNames
    BY <1>0, ElementOfSeq
  <2>2. QED BY <2>1, SubSeqProperties, SMTT(30)
<1>6. Transition(w, Logged(new), StateOf(log[w][k]))
  OBVIOUS
<1> HIDE DEF new
<1>2. Logged(new) \in Seq(StageRecord) /\ Len(Logged(new)) = k - m
      /\ \A j \in 1..(k - m) : Logged(new)[j] = Stage(log[w][m + j], "agent")
  BY <1>1, LoggedDoes
<1>3. log[w][k] \in StageNames /\ log[w][k] # "queued" /\ (k < Len(log[w]) => log[w][k] \notin Verdicts)
  BY <1>0, ElementOfSeq DEF DataAt, LogAt
<1>4. /\ StateOf(log[w][k]) \in Started \cup Verdicts
      /\ log[w][k] \in Verdicts => StateOf(log[w][k]) = log[w][k]
      /\ log[w][k] \notin Verdicts => StateOf(log[w][k]) \in Started
  BY <1>3, StateOfStage
<1>5. StateOf(log[w][k]) \in ActiveStates \cup Verdicts
  BY <1>4 DEF Started, ActiveStates
<1>7. /\ rows'[w].state = StateOf(log[w][k]) /\ rows'[w].kind = rows[w].kind /\ rows'[w].case = rows[w].case
      /\ history'[w] = history[w] \o Logged(new) /\ Len(history'[w]) = k + 1
  <2> DEFINE stages == Logged(new)
  <2> DEFINE state == StateOf(log[w][k])
  <2>1. Transition(w, stages, state) /\ stages \in Seq(StageRecord) /\ state \in ActiveStates \cup Verdicts
    BY <1>2, <1>5, <1>6
  <2>2. Len(stages) = k - m
    BY <1>2
  <2> HIDE DEF stages, state
  <2>3. /\ rows'[w].state = state /\ rows'[w].kind = rows[w].kind /\ rows'[w].case = rows[w].case
        /\ history'[w] = history[w] \o stages /\ Len(history'[w]) = Len(history[w]) + Len(stages)
    BY <2>1, TransitionAt
  <2>4. Len(history'[w]) = k + 1
    BY <2>2, <2>3
  <2>5. QED BY <2>3, <2>4 DEF stages, state
<1>8. HistoryAt(w)'
  <2> SUFFICES ASSUME NEW i \in 2..(k + 1)
               PROVE  \/ i = 2 /\ history'[w][i].name = "first"
                      \/ i > 2 /\ i - 1 <= Len(log[w]) /\ history'[w][i] = Stage(log[w][i - 1], "agent")
    BY <1>7 DEF HistoryAt
  <2>1. \A j \in 1..(k + 1) : history'[w][j] = IF j <= m + 1 THEN history[w][j] ELSE Logged(new)[j - (m + 1)]
    BY <1>0, <1>2, <1>7, ConcatProperties, SMTT(30)
  <2>2. CASE i <= m + 1
    <3>1. history'[w][i] = history[w][i]
      BY <2>1, <2>2
    <3>2. QED BY <1>0, <2>2, <3>1 DEF DataAt, HistoryAt
  <2>3. CASE i > m + 1
    <3>1. history'[w][i] = Logged(new)[i - (m + 1)] /\ i - (m + 1) \in 1..(k - m) /\ m + (i - (m + 1)) = i - 1
      BY <2>1, <2>3
    <3>2. history'[w][i] = Stage(log[w][i - 1], "agent")
      BY <1>2, <3>1
    <3>3. QED BY <2>3, <3>2
  <2>4. QED BY <2>2, <2>3
<1>9. UnbornAt(w)'
  BY <1>0, <1>4, <1>7 DEF DataAt, UnbornAt, Started, Verdicts, ActiveStates
<1>10. VerdictAt(w)'
  <2>1. CASE log[w][k] \in Verdicts
    <3>1. k = Len(log[w]) /\ log[w] # <<>>
      BY <1>0, <1>3, <2>1
    <3>2. QED BY <1>4, <1>7, <2>1, <3>1 DEF VerdictAt, Last
  <2>2. CASE log[w][k] \notin Verdicts
    BY <1>4, <1>7, <2>2 DEF VerdictAt, Started
  <2>3. QED BY <2>1, <2>2
<1>11. QED BY <1>2, <1>3, <1>4, <1>5, <1>7, <1>8, <1>9, <1>10 DEF new

-------------------------------------------------------------------------------
(* The steps of a run. *)

\* A run ends without having changed anything.
LEMMA RunEnds ==
  ASSUME IInv, NEW w \in Work, UNCHANGED <<databaseVars, agentVars>>,
         Succeed(w) \/ Fail(w) \/ End(w), left' \in 0..Budget
  PROVE  IInv'
<1>0. TypeOK
  BY DEF IInv
<1>1. UNCHANGED <<rows, history, lease, cases, closedBy, log, busy, sent, indexed, answer>>
  BY DEF databaseVars, agentVars
<1>2. /\ task' \in [Work -> Tasks] /\ task'[w].at = "none" /\ \A v \in Work \ {w} : task'[v] = task[v]
      /\ ui' \in {"down", "recovery", "serving"} /\ (ui' = ui \/ ui # "serving")
  BY <1>0, EndTaskDoes
<1>3. RunAt(w)'
  BY <1>2, RunIdle
<1>4. indexed' \subseteq Work /\ task'[w].at \in SavedPoints
  BY <1>0, <1>1, <1>2 DEF TypeOK, SavedPoints
<1>5. QED BY <1>1, <1>2, <1>3, <1>4, RunOnly

\* A run goes on without having changed anything.
LEMMA RunGoes ==
  ASSUME IInv, NEW w \in Work, NEW point \in TaskPoints, UNCHANGED <<databaseVars, agentVars>>,
         Goto(w, point), left' \in 0..Budget, RunAt(w)',
         ui = "serving" /\ task[w].at \in SavedPoints => point \in SavedPoints
  PROVE  IInv'
<1>0. TypeOK
  BY DEF IInv
<1>1. UNCHANGED <<rows, history, lease, cases, closedBy, log, busy, sent, indexed, answer>>
  BY DEF databaseVars, agentVars
<1>2. task' \in [Work -> Tasks] /\ task'[w].at = point /\ ui' = ui /\ \A v \in Work \ {w} : task'[v] = task[v]
  BY <1>0, GotoDoes
<1>3. indexed' \subseteq Work /\ ui' \in {"down", "recovery", "serving"}
  BY <1>0, <1>1, <1>2 DEF TypeOK
<1>4. QED BY <1>1, <1>2, <1>3, RunOnly

\* The UI gives a verdict itself: work that was only queued has failed, other work is in doubt.
LEMMA OwnVerdict ==
  ASSUME IInv, NEW w \in Work, NEW verdict \in {"failed", "needs_attention"}, rows[w].state \in ActiveStates,
         verdict = "failed" => rows[w].state = "queued",
         Transition(w, <<Stage(verdict, "ui")>>, verdict), UNCHANGED agentVars,
         Succeed(w) \/ Fail(w) \/ End(w), left' \in 0..Budget
  PROVE  IInv'
<1>0. TypeOK /\ DataAt(w) /\ history[w] \in Seq(StageRecord) /\ Len(history[w]) \in Nat
  BY TypesAt DEF IInv
<1>1. UNCHANGED <<log, busy, answer, sent>>
  BY DEF agentVars
<1>2. /\ task' \in [Work -> Tasks] /\ task'[w].at = "none" /\ \A v \in Work \ {w} : task'[v] = task[v]
      /\ ui' \in {"down", "recovery", "serving"} /\ (ui' = ui \/ ui # "serving")
  BY <1>0, EndTaskDoes
<1>3. RunAt(w)'
  BY <1>2, RunIdle
<1> DEFINE own == <<Stage(verdict, "ui")>>
<1>4. own \in Seq(StageRecord) /\ Len(own) = 1 /\ own[1] = Stage(verdict, "ui")
  BY OneStage DEF StageNames, Verdicts
<1>5. verdict \in ActiveStates \cup Verdicts /\ verdict \in Verdicts
  BY DEF Verdicts
<1>6. Transition(w, own, verdict)
  OBVIOUS
<1> HIDE DEF own
<1>7. rows'[w].state = verdict /\ history'[w] = history[w] \o own /\ rows'[w].kind = rows[w].kind
  BY <1>4, <1>5, <1>6, TransitionAt, ZenonT(60)
<1>8. /\ Len(history'[w]) = Len(history[w]) + 1 /\ history'[w][Len(history[w]) + 1] = Stage(verdict, "ui")
      /\ \A j \in 1..Len(history[w]) : history'[w][j] = history[w][j]
  BY <1>0, <1>4, <1>7, OneMore
<1>9. HistoryAt(w)'
  <2> SUFFICES ASSUME NEW i \in 2..(Len(history[w]) + 1)
               PROVE  \/ i = 2 /\ history'[w][i].name = "first"
                      \/ i > 2 /\ i - 1 <= Len(log[w]) /\ history'[w][i] = Stage(log[w][i - 1], "agent")
                      \/ i = Len(history'[w]) /\ history'[w][i].at = "ui" /\ rows'[w].state \notin ActiveStates
    BY <1>1, <1>8 DEF HistoryAt
  <2>1. CASE i <= Len(history[w])
    <3>1. history'[w][i] = history[w][i]
      BY <1>8, <2>1
    <3>2. QED BY <1>0, <2>1, <3>1 DEF DataAt, HistoryAt
  <2>2. CASE i = Len(history[w]) + 1
    <3>1. rows'[w].state \notin ActiveStates
      BY <1>7 DEF ActiveStates
    <3>2. QED BY <1>8, <2>2, <3>1 DEF Stage
  <2>3. Len(history[w]) \in Nat
    BY <1>0
  <2>4. QED BY <2>1, <2>2, <2>3
<1>10. UnbornAt(w)'
  BY <1>0, <1>7 DEF DataAt, UnbornAt, Started, ActiveStates
<1>11. VerdictAt(w)'
  BY <1>0, <1>1, <1>7 DEF DataAt, VerdictAt, UnbornAt, Quiet
<1>12. QED
  BY <1>1, <1>2, <1>3, <1>4, <1>5, <1>6, <1>9, <1>10, <1>11, Transitioned DEF SavedPoints

\* FailQueued.
LEMMA QueuedFails ==
  ASSUME IInv, NEW w \in Work, rows[w].state = "queued", FailQueued(w), UNCHANGED agentVars
  PROVE  IInv'
<1>1. left' \in 0..Budget
  BY LeftTyped DEF IInv, FailQueued, Fails, Works, TypeOK
<1>2. CASE Transition(w, <<Stage("failed", "ui")>>, "failed") /\ Succeed(w)
  BY <1>1, <1>2, OwnVerdict DEF ActiveStates
<1>3. CASE Fail(w) /\ UNCHANGED databaseVars
  BY <1>1, <1>3, RunEnds
<1>4. QED BY <1>2, <1>3 DEF FailQueued

\* Work that is looked at again stays queued or has failed.
LEMMA KeepsCheckTwice ==
  ASSUME IInv, NEW w \in Work, CheckTwice(w)
  PROVE  IInv'
<1>0. TypeOK /\ RunAt(w) /\ task[w].at = "check" /\ UNCHANGED agentVars
  BY DEF IInv, CheckTwice
<1>1. rows[w].state = "queued" /\ ui = "serving"
  BY <1>0 DEF RunAt, TaskAt, FirstPoints
<1>2. CASE Works /\ Goto(w, "start") /\ UNCHANGED databaseVars
  <2>1. task'[w].at = "start" /\ ui' = ui /\ "start" \in TaskPoints
    BY <1>0, <1>2, GotoDoes DEF TaskPoints
  <2>2. left' \in 0..Budget
    BY <1>0, <1>2, LeftTyped
  <2>3. rows' = rows
    BY <1>2 DEF databaseVars
  <2>4. RunAt(w)'
    BY <1>1, <2>1, <2>3 DEF RunAt, TaskAt, MirroredAt, ResultAt, FirstAt, FirstPoints, ActiveStates
  <2>5. QED BY <1>0, <1>2, <2>1, <2>2, <2>4, RunGoes DEF SavedPoints
<1>3. CASE FailQueued(w)
  BY <1>0, <1>1, <1>3, QueuedFails
<1>4. CASE Fails("request") /\ Succeed(w) /\ UNCHANGED databaseVars
  <2>1. left' \in 0..Budget
    BY <1>0, <1>4 DEF Fails, TypeOK
  <2>2. QED BY <1>0, <1>4, <2>1, RunEnds
<1>5. QED BY <1>2, <1>3, <1>4 DEF CheckTwice

\* A run that is in doubt knows only that the work is under way.
LEMMA UncertainRun ==
  ASSUME NEW w \in Work, task'[w].at = "uncertain", rows'[w].state \in Started
  PROVE  RunAt(w)'
BY DEF RunAt, TaskAt, MirroredAt, ResultAt, FirstAt, FirstPoints, Started, ActiveStates

\* The first stage is recorded before the Agent is called.
LEMMA KeepsStart ==
  ASSUME IInv, NEW w \in Work, Start(w)
  PROVE  IInv'
<1>0. TypeOK /\ DataAt(w) /\ RunAt(w) /\ task[w].at = "start" /\ UNCHANGED agentVars
      /\ history[w] \in Seq(StageRecord) /\ Len(history[w]) \in Nat
  BY TypesAt DEF IInv, Start
<1>1. rows[w].state = "queued" /\ ui = "serving" /\ Len(history[w]) = 1 /\ log[w] = <<>> /\ Quiet(w)
  BY <1>0 DEF RunAt, TaskAt, FirstPoints, DataAt, UnbornAt
<1>2. CASE Fails("store") /\ Fail(w) /\ UNCHANGED databaseVars
  <2>1. left' \in 0..Budget
    BY <1>0, <1>2 DEF Fails, TypeOK
  <2>2. QED BY <1>0, <1>2, <2>1, RunEnds
<1>3. ASSUME NEW clock \in Clocks, Works, Transition(w, <<Stage("first", clock)>>, "running"), Goto(w, "call")
      PROVE  IInv'
  <2>1. left' \in 0..Budget
    BY <1>0, <1>3, LeftTyped
  <2>2. /\ task' \in [Work -> Tasks] /\ task'[w].at = "call" /\ ui' = ui
        /\ \A v \in Work \ {w} : task'[v] = task[v]
    BY <1>0, <1>3, GotoDoes DEF TaskPoints
  <2> DEFINE first == <<Stage("first", clock)>>
  <2>3. first \in Seq(StageRecord) /\ Len(first) = 1 /\ first[1] = Stage("first", clock)
    BY OneStage DEF StageNames
  <2>4. Transition(w, first, "running") /\ "running" \in ActiveStates \cup Verdicts /\ rows[w].state \in ActiveStates
    BY <1>1, <1>3 DEF ActiveStates
  <2> HIDE DEF first
  <2>5. rows'[w].state = "running" /\ rows'[w].kind = rows[w].kind /\ history'[w] = history[w] \o first
    BY <2>3, <2>4, TransitionAt, SMTT(30)
  <2>6. Len(history'[w]) = 2 /\ history'[w][2] = Stage("first", clock)
    BY <1>0, <1>1, <2>3, <2>5, OneMore
  <2>7. UNCHANGED <<log, busy, answer, sent>>
    BY <1>0 DEF agentVars
  <2>8. HistoryAt(w)'
    BY <2>6 DEF HistoryAt, Stage
  <2>9. UnbornAt(w)' /\ VerdictAt(w)'
    BY <1>0, <1>1, <2>5, <2>6 DEF DataAt, UnbornAt, VerdictAt, Started
  <2>10. RunAt(w)'
    <3>1. TaskAt(w)'
      BY <1>1, <2>2, <2>5 DEF TaskAt, FirstPoints, ActiveStates, Started
    <3>2. MirroredAt(w)'
      BY <2>2, <2>6 DEF MirroredAt
    <3>3. ResultAt(w)' /\ FirstAt(w)'
      BY <1>1, <2>2, <2>7 DEF ResultAt, FirstAt, Quiet
    <3>4. QED BY <3>1, <3>2, <3>3 DEF RunAt
  <2>11. task[w].at \notin SavedPoints /\ ui' \in {"down", "recovery", "serving"}
    BY <1>0, <1>1, <2>2 DEF SavedPoints
  <2>12. QED
    BY <2>1, <2>2, <2>3, <2>4, <2>7, <2>8, <2>9, <2>10, <2>11, Transitioned
<1>4. QED BY <1>2, <1>3 DEF Start

\* A restore without target has failed.
LEMMA KeepsTargetGone ==
  ASSUME IInv, NEW w \in Work, TargetGone(w)
  PROVE  IInv'
<1>1. RunAt(w) /\ task[w].at = "start" /\ FailQueued(w) /\ UNCHANGED agentVars
  BY DEF IInv, TargetGone
<1>2. rows[w].state = "queued"
  BY <1>1 DEF RunAt, TaskAt
<1>3. QED BY <1>1, <1>2, QueuedFails

\* A call keeps its kind.
LEMMA SentCall ==
  ASSUME NEW w \in Work, NEW name \in CallNames, Send(w, name)
  PROVE  /\ [name |-> name, work |-> w] \in Calls /\ [name |-> name, work |-> w] # NoCall
         /\ sent' = sent \cup {[name |-> name, work |-> w]}
BY WorkIsNat DEF Calls, NoCall, Send

\* A call of work that has started changes nothing but what the Agent has to do for it.
LEMMA SendOnly ==
  ASSUME IInv, NEW w \in Work, NEW name \in CallNames, Send(w, name),
         UNCHANGED <<databaseVars, ui, busy, log, answer>>, CallOK([name |-> name, work |-> w]),
         task' \in [Work -> Tasks], \A v \in Work \ {w} : task'[v] = task[v], left' \in 0..Budget,
         rows[w].state \in Started, ui = "serving" => task[w].at \notin SavedPoints, RunAt(w)'
  PROVE  IInv'
<1> USE DEF databaseVars
<1> DEFINE call == [name |-> name, work |-> w]
<1>0. TypeOK /\ DataAt(w) /\ \A c \in Cases : ClosedAt(c)
  BY DEF IInv
<1>1. call \in Calls /\ call # NoCall /\ sent' = sent \cup {call} /\ call.work = w
  BY SentCall
<1>2. CallOK(call)'
  BY DEF CallOK
<1> HIDE DEF call
<1>3. \A v \in Work \ {w} : NoNewCall(v)
  BY <1>1 DEF NoNewCall
<1>4. Beside(w)
  BY <1>3 DEF Beside
<1>5. TypeOK'
  BY <1>0, <1>1 DEF TypeOK, Tasks
<1>6. CallsOK'
  BY <1>1, <1>2, CallsKept
<1>7. AnswerOK'
  BY <1>3, AnswerKept
<1>8. DataAt(w)'
  <2>1. UnbornAt(w)' /\ VerdictAt(w)'
    BY <1>0 DEF DataAt, UnbornAt, VerdictAt, Started
  <2>2. LeaseAt(w)' /\ HistoryAt(w)' /\ LogAt(w)' /\ SafetyAt(w)' /\ CaseAt(w)'
    BY <1>0 DEF DataAt, LeaseAt, HistoryAt, LogAt, SafetyAt, CaseAt
  <2>3. QED BY <2>1, <2>2 DEF DataAt
<1>9. \A c \in Cases : ClosedAt(c)'
  BY <1>0 DEF ClosedAt
<1>10. QED BY <1>4, <1>5, <1>6, <1>7, <1>8, <1>9, Assembled

\* The first call of a run is the only one.
LEMMA KeepsCallAgent ==
  ASSUME IInv, NEW w \in Work, PrepareRestore(w) \/ ExecuteRestart(w)
  PROVE  IInv'
<1>1. PICK name \in CallNames :
        CallAgent(w, name) /\ name = IF rows[w].kind = "restore" THEN "prepare" ELSE "restart"
  BY DEF PrepareRestore, ExecuteRestart, CallNames
<1>2. rows[w].kind = IF name = "prepare" THEN "restore" ELSE "restart"
  BY <1>1 DEF PrepareRestore, ExecuteRestart, CallAgent
<1>3. TypeOK /\ DataAt(w) /\ RunAt(w) /\ task[w].at = "call" /\ task \in [Work -> Tasks] /\ task[w] \in Tasks
  BY <1>1, TypesAt DEF IInv, CallAgent, TypeOK, Tasks
<1>4. /\ ui = "serving" /\ rows[w].state \in Started /\ Len(history[w]) = 2
      /\ log[w] = <<>> /\ Quiet(w)
  BY <1>3 DEF RunAt, TaskAt, MirroredAt, FirstAt, FirstPoints
<1>5. Send(w, name) /\ UNCHANGED <<databaseVars, ui, busy, log, answer>> /\ Works
  BY <1>1 DEF CallAgent
<1>6. task' = [task EXCEPT ![w].at = "waiting", ![w].mirrored = 1]
  BY <1>1 DEF CallAgent
<1>7. task' = [task EXCEPT ![w] = [task[w] EXCEPT !.at = "waiting", !.mirrored = 1]]
  BY <1>3, <1>6
<1>8. [task[w] EXCEPT !.at = "waiting", !.mirrored = 1] \in Tasks
  BY <1>3 DEF Tasks, TaskPoints
<1>9. /\ task' \in [Work -> Tasks] /\ task'[w].at = "waiting" /\ task'[w].mirrored = 1
      /\ \A v \in Work \ {w} : task'[v] = task[v]
  BY <1>3, <1>7, <1>8 DEF Tasks
<1>10. left' \in 0..Budget
  BY <1>3, <1>5, LeftTyped
<1>11. CallOK([name |-> name, work |-> w])
  BY <1>1, <1>2 DEF CallOK
<1>12. rows' = rows /\ history' = history /\ ui' = ui /\ log' = log /\ busy' = busy
  BY <1>5 DEF databaseVars
<1>13. RunAt(w)'
  <2>1. TaskAt(w)'
    BY <1>4, <1>9, <1>12 DEF TaskAt, FirstPoints, ActiveStates, Started
  <2>2. MirroredAt(w)'
    BY <1>4, <1>9, <1>12 DEF MirroredAt
  <2>3. ResultAt(w)'
    BY <1>9 DEF ResultAt
  <2>4. FirstAt(w)'
    <3>1. sent' = sent \cup {[name |-> name, work |-> w]}
      BY <1>5 DEF Send
    <3>2. FirstCall(w)' = [name |-> name, work |-> w]
      BY <1>1, <1>12 DEF FirstCall
    <3>3. QED BY <1>4, <1>9, <1>12, <3>1, <3>2 DEF FirstAt, Quiet
  <2>5. QED BY <2>1, <2>2, <2>3, <2>4 DEF RunAt
<1>14. QED
  BY <1>3, <1>4, <1>5, <1>9, <1>10, <1>11, <1>13, SendOnly DEF SavedPoints

\* What an answer tells the run that waits for it: the log, or nothing.
LEMMA AnswerTells ==
  ASSUME IInv, NEW w \in Work, NEW name \in CallNames, NEW result \in {answer.result, NoResult},
         Answered(w, name, result)
  PROVE  /\ UNCHANGED <<log, busy, sent>> /\ left' \in 0..Budget /\ result \in Results
         /\ \/ answer' = NoAnswer
            \/ answer' = answer /\ result = NoResult
         /\ result.stages # <<>> =>
              /\ answer' = NoAnswer /\ result.stages = log[w]
              /\ Last(log[w]) \in Verdicts \/ (name = "prepare" /\ Last(log[w]) = "saved" /\ Quiet(w))
<1>0. TypeOK /\ AnswerOK
  BY DEF IInv
<1>1. left' \in 0..Budget
  BY <1>0 DEF TypeOK, Answered, Works, Fails
<1>2. UNCHANGED <<log, busy, sent>>
  BY DEF Answered, agentVars
<1>3. result \in Results
  BY <1>0, IdleTyped DEF TypeOK
<1>4. CASE answer.call = [name |-> name, work |-> w] /\ result = answer.result /\ answer' = NoAnswer
  <2>1. answer.call.name = name /\ answer.call.work = w
    BY <1>4
  <2>2. QED BY <1>0, <1>1, <1>2, <1>3, <1>4, <2>1 DEF AnswerOK
<1>5. CASE result = NoResult /\ UNCHANGED agentVars
  BY <1>1, <1>2, <1>3, <1>5 DEF NoResult, agentVars
<1>6. QED BY <1>4, <1>5 DEF Answered

\* A preparation that is accepted is a log that ended, or one that may be executed.
LEMMA KeepsPrepared ==
  ASSUME IInv, NEW w \in Work, Prepared(w)
  PROVE  IInv'
<1>0. TypeOK /\ RunAt(w) /\ task[w].at = "waiting" /\ rows[w].kind = "restore" /\ task \in [Work -> Tasks]
      /\ task[w] \in Tasks /\ log[w] \in Seq(StageNames) /\ Len(log[w]) \in Nat
  BY TypesAt DEF IInv, Prepared, TypeOK, Tasks
<1>1. ui = "serving" /\ rows[w].state \in Started /\ Len(history[w]) = 2
  BY <1>0 DEF RunAt, TaskAt, MirroredAt, FirstPoints
<1>2. PICK result \in {answer.result, NoResult} :
        /\ Answered(w, "prepare", result)
        /\ IF ValidPreparation(result)
           THEN task' = [task EXCEPT ![w].at = "index", ![w].result = result]
           ELSE task' = [task EXCEPT ![w].at = "uncertain"]
  BY DEF Prepared
<1>3. /\ UNCHANGED <<log, busy, sent>> /\ left' \in 0..Budget /\ result \in Results
      /\ \/ answer' = NoAnswer
         \/ answer' = answer /\ result = NoResult
      /\ result.stages # <<>> =>
           /\ answer' = NoAnswer /\ result.stages = log[w]
           /\ Last(log[w]) \in Verdicts \/ (Last(log[w]) = "saved" /\ Quiet(w))
  BY <1>2, AnswerTells DEF CallNames
<1>4. UNCHANGED <<rows, history, lease, cases, closedBy, indexed, ui>> /\ indexed' \subseteq Work
      /\ ui' \in {"down", "recovery", "serving"}
  BY <1>0 DEF Prepared, databaseVars, TypeOK
<1>5. CASE ValidPreparation(result)
  <2>1. task' = [task EXCEPT ![w] = [task[w] EXCEPT !.at = "index", !.result = result]]
    BY <1>0, <1>2, <1>5
  <2>2. [task[w] EXCEPT !.at = "index", !.result = result] \in Tasks
    BY <1>0, <1>3 DEF Tasks, TaskPoints
  <2>3. /\ task' \in [Work -> Tasks] /\ task'[w].at = "index" /\ task'[w].result = result
        /\ \A v \in Work \ {w} : task'[v] = task[v]
    BY <1>0, <2>1, <2>2 DEF Tasks
  <2>4. /\ answer' = NoAnswer /\ result.stages = log[w] /\ log[w] # <<>> /\ log[w][1] = "first"
        /\ Last(log[w]) \in Verdicts \/ (Last(log[w]) = "saved" /\ Quiet(w))
    BY <1>3, <1>5 DEF ValidPreparation
  <2>5. Len(log[w]) >= 2
    <3>1. Len(log[w]) # 0
      BY <1>0, <2>4
    <3>2. Len(log[w]) # 1
      BY <2>4 DEF Last, Verdicts
    <3>3. Len(log[w]) \in Nat
      BY <1>0
    <3>4. \A x \in Nat : x # 0 /\ x # 1 => x >= 2
      OBVIOUS
    <3>5. QED BY <3>1, <3>2, <3>3, <3>4
  <2>6. RunAt(w)'
    <3>1. TaskAt(w)'
      BY <1>0, <1>1, <1>4, <2>3 DEF TaskAt, FirstPoints, Started, ActiveStates
    <3>2. MirroredAt(w)' /\ FirstAt(w)'
      BY <1>1, <1>4, <2>3 DEF MirroredAt, FirstAt
    <3>3. ResultAt(w)'
      BY <1>3, <2>3, <2>4, <2>5 DEF ResultAt, Quiet
    <3>4. QED BY <3>1, <3>2, <3>3 DEF RunAt
  <2>7. QED BY <1>3, <1>4, <2>3, <2>4, <2>6, RunOnly
<1>6. CASE ~ValidPreparation(result)
  <2>1. task' = [task EXCEPT ![w] = [task[w] EXCEPT !.at = "uncertain"]]
    BY <1>0, <1>2, <1>6
  <2>2. [task[w] EXCEPT !.at = "uncertain"] \in Tasks
    BY <1>0 DEF Tasks, TaskPoints
  <2>3. task' \in [Work -> Tasks] /\ task'[w].at = "uncertain" /\ \A v \in Work \ {w} : task'[v] = task[v]
    BY <1>0, <2>1, <2>2 DEF Tasks
  <2>4. RunAt(w)'
    BY <1>1, <1>4, <2>3, UncertainRun
  <2>5. task'[w].at \in SavedPoints
    BY <2>3 DEF SavedPoints
  <2>6. QED BY <1>3, <1>4, <2>3, <2>4, <2>5, RunOnly
<1>7. QED BY <1>5, <1>6

\* The safety backup is in the index before the preparation is mirrored.
LEMMA KeepsIndex ==
  ASSUME IInv, NEW w \in Work, Index(w)
  PROVE  IInv'
<1>0. TypeOK /\ RunAt(w) /\ task[w].at = "index"
  BY DEF IInv, Index
<1>1. /\ ui = "serving" /\ rows[w].state \in Started /\ Len(history[w]) = 2 /\ rows[w].kind = "restore"
      /\ task[w].result.stages = log[w] /\ Len(log[w]) >= 2
      /\ Last(log[w]) \in Verdicts \/ (Last(log[w]) = "saved" /\ Quiet(w))
  BY <1>0 DEF RunAt, TaskAt, MirroredAt, ResultAt, FirstPoints
<1>2. /\ UNCHANGED <<rows, history, lease, cases, closedBy, log, busy, sent, answer>>
      /\ left' \in 0..Budget
  BY <1>0 DEF Index, agentVars, Works, Fails, TypeOK
<1>3. indexed \subseteq indexed' /\ indexed' \subseteq Work
  BY <1>0 DEF Index, TypeOK
<1>4. CASE Goto(w, "prepared") /\ (HasSaved(log[w]) => w \in indexed')
  <2>1. /\ task' \in [Work -> Tasks] /\ task'[w].at = "prepared" /\ ui' = ui
        /\ task'[w].result = task[w].result /\ \A v \in Work \ {w} : task'[v] = task[v]
    BY <1>0, <1>4, GotoDoes DEF TaskPoints
  <2>2. RunAt(w)'
    <3>1. TaskAt(w)'
      BY <1>1, <1>2, <2>1 DEF TaskAt, FirstPoints, Started, ActiveStates
    <3>2. MirroredAt(w)' /\ FirstAt(w)'
      BY <1>1, <1>2, <2>1 DEF MirroredAt, FirstAt
    <3>3. ResultAt(w)'
      BY <1>1, <1>2, <1>4, <2>1 DEF ResultAt, Quiet
    <3>4. QED BY <3>1, <3>2, <3>3 DEF RunAt
  <2>3. task[w].at \notin SavedPoints /\ ui' \in {"down", "recovery", "serving"}
    BY <1>0, <1>1, <2>1 DEF SavedPoints
  <2>4. QED BY <1>2, <1>3, <2>1, <2>2, <2>3, RunOnly
<1>5. CASE Goto(w, "uncertain")
  <2>1. /\ task' \in [Work -> Tasks] /\ task'[w].at = "uncertain" /\ ui' = ui
        /\ \A v \in Work \ {w} : task'[v] = task[v]
    BY <1>0, <1>5, GotoDoes DEF TaskPoints
  <2>2. RunAt(w)'
    BY <1>1, <1>2, <2>1, UncertainRun
  <2>3. task[w].at \notin SavedPoints /\ ui' \in {"down", "recovery", "serving"}
    BY <1>0, <1>1, <2>1 DEF SavedPoints
  <2>4. QED BY <1>2, <1>3, <2>1, <2>2, <2>3, RunOnly
<1>6. QED BY <1>1, <1>4, <1>5 DEF Index

\* Where a run is that has mirrored the log and is over.
LEMMA MirroredAndOver ==
  ASSUME IInv, NEW w \in Work, NEW m \in Nat, NEW k \in Nat, 1 <= m, m < k, k <= Len(log[w]),
         Len(history[w]) = m + 1, rows[w].state \in ActiveStates,
         Transition(w, Logged(SubSeq(log[w], m + 1, k)), StateOf(log[w][k])),
         UNCHANGED <<log, busy, answer, sent>>, Succeed(w) \/ Fail(w) \/ End(w), left' \in 0..Budget
  PROVE  IInv'
<1>0. TypeOK
  BY DEF IInv
<1>1. /\ Logged(SubSeq(log[w], m + 1, k)) \in Seq(StageRecord)
      /\ StateOf(log[w][k]) \in ActiveStates \cup Verdicts
      /\ UnbornAt(w)' /\ HistoryAt(w)' /\ VerdictAt(w)'
  BY MirrorDoes
<1>2. /\ task' \in [Work -> Tasks] /\ task'[w].at = "none" /\ \A v \in Work \ {w} : task'[v] = task[v]
      /\ ui' \in {"down", "recovery", "serving"} /\ (ui' = ui \/ ui # "serving")
  BY <1>0, EndTaskDoes
<1>3. RunAt(w)'
  BY <1>2, RunIdle
<1>4. task'[w].at \in SavedPoints
  BY <1>2 DEF SavedPoints
<1>5. QED BY <1>1, <1>2, <1>3, <1>4, Transitioned

\* The preparation is mirrored, and executed if it is one.
LEMMA KeepsMirrorPreparation ==
  ASSUME IInv, NEW w \in Work, MirrorPreparation(w)
  PROVE  IInv'
<1>0. /\ TypeOK /\ RunAt(w) /\ task[w].at = "prepared" /\ task \in [Work -> Tasks] /\ task[w] \in Tasks
      /\ log[w] \in Seq(StageNames) /\ Len(log[w]) \in Nat
  BY TypesAt DEF IInv, MirrorPreparation, TypeOK, Tasks
<1>1. /\ ui = "serving" /\ rows[w].state \in Started /\ Len(history[w]) = 2 /\ rows[w].kind = "restore"
      /\ task[w].result.stages = log[w] /\ Len(log[w]) >= 2
      /\ Last(log[w]) \in Verdicts \/ (Last(log[w]) = "saved" /\ Quiet(w))
      /\ (HasSaved(log[w]) => w \in indexed)
  BY <1>0 DEF RunAt, TaskAt, MirroredAt, ResultAt, FirstPoints
<1>2. rows[w].state \in ActiveStates
  BY <1>1 DEF Started, ActiveStates
<1> DEFINE n == Len(log[w])
<1>3. PICK m \in Nat : m = 1
  OBVIOUS
<1>4. PICK k \in 1..n :
        /\ StoredAll(k, n)
        /\ MirrorUpTo(w, log[w], m, k)
        /\ IF k < n THEN Fail(w) /\ UNCHANGED sent
           ELSE IF Last(log[w]) \in Verdicts THEN Succeed(w) /\ UNCHANGED sent
           ELSE /\ Send(w, "execute")
                /\ task' = [task EXCEPT ![w].at = "executing", ![w].mirrored = n]
                /\ UNCHANGED ui
  BY <1>1, <1>3 DEF MirrorPreparation
<1>5. UNCHANGED <<busy, log, answer>>
  BY DEF MirrorPreparation
<1>6. left' \in 0..Budget
  BY <1>0, <1>4 DEF StoredAll, Fails, Works, TypeOK
<1>7. 1 <= m /\ k \in Nat /\ 1 <= k /\ k <= Len(log[w])
  BY <1>0, <1>3, <1>4
<1>8. CASE k = 1
  <2>1. UNCHANGED databaseVars /\ Fail(w) /\ UNCHANGED sent
    BY <1>0, <1>1, <1>3, <1>4, <1>8 DEF MirrorUpTo
  <2>2. UNCHANGED agentVars
    BY <1>5, <2>1 DEF agentVars
  <2>3. QED BY <1>6, <2>1, <2>2, RunEnds
<1>9. CASE k # 1 /\ (k < n \/ Last(log[w]) \in Verdicts)
  <2>1. Transition(w, Logged(SubSeq(log[w], m + 1, k)), StateOf(log[w][k]))
    BY <1>4, <1>9, <1>3 DEF MirrorUpTo
  <2>2. (Succeed(w) \/ Fail(w)) /\ UNCHANGED sent
    BY <1>4, <1>9
  <2>3. m < k /\ Len(history[w]) = m + 1
    BY <1>1, <1>7, <1>9, <1>3
  <2>4. QED BY <1>2, <1>5, <1>6, <1>7, <2>1, <2>2, <2>3, MirroredAndOver
<1>10. CASE k = n /\ Last(log[w]) \notin Verdicts
  <2>1. /\ Transition(w, Logged(SubSeq(log[w], m + 1, k)), StateOf(log[w][k]))
        /\ m < k /\ Len(history[w]) = m + 1
    BY <1>1, <1>4, <1>10, <1>3 DEF MirrorUpTo
  <2>2. /\ Send(w, "execute") /\ UNCHANGED ui
        /\ task' = [task EXCEPT ![w].at = "executing", ![w].mirrored = n]
    BY <1>4, <1>10
  <2>3. log[w][k] = "saved" /\ Quiet(w)
    BY <1>1, <1>10 DEF Last
  <2>4. w \in indexed
    BY <1>0, <1>1, <1>4, <2>3 DEF HasSaved
  <2>5. /\ Logged(SubSeq(log[w], m + 1, k)) \in Seq(StageRecord)
        /\ StateOf(log[w][k]) \in ActiveStates \cup Verdicts
        /\ UnbornAt(w)' /\ HistoryAt(w)' /\ VerdictAt(w)'
        /\ Len(history'[w]) = k + 1 /\ rows'[w].kind = rows[w].kind
        /\ rows'[w].state = StateOf(log[w][k])
    BY <1>2, <1>5, <1>7, <2>1, MirrorDoes
  <2>6. rows'[w].state = "running"
    BY <2>3, <2>5 DEF StateOf, Verdicts
  <2>7. task' = [task EXCEPT ![w] = [task[w] EXCEPT !.at = "executing", !.mirrored = n]]
    BY <1>0, <2>2
  <2>8. [task[w] EXCEPT !.at = "executing", !.mirrored = n] \in Tasks
    BY <1>0 DEF Tasks, TaskPoints
  <2>9. /\ task' \in [Work -> Tasks] /\ task'[w].at = "executing" /\ task'[w].mirrored = n
        /\ \A v \in Work \ {w} : task'[v] = task[v]
    BY <1>0, <2>7, <2>8 DEF Tasks
  <2>10. indexed' = indexed
    BY <2>1 DEF Transition
  <2>11. \A c \in sent' : c \in sent \/ (c \in Calls /\ c # NoCall /\ c.work = w /\ CallOK(c)')
    <3>1. /\ [name |-> "execute", work |-> w] \in Calls /\ [name |-> "execute", work |-> w] # NoCall
          /\ sent' = sent \cup {[name |-> "execute", work |-> w]}
      BY <2>2, SentCall DEF CallNames
    <3>2. CallOK([name |-> "execute", work |-> w])'
      BY <1>1, <2>4, <2>5, <2>10 DEF CallOK
    <3>3. QED BY <3>1, <3>2
  <2>12. RunAt(w)'
    <3>1. TaskAt(w)'
      BY <1>1, <2>2, <2>5, <2>6, <2>9 DEF TaskAt, FirstPoints, Started, ActiveStates
    <3>2. MirroredAt(w)'
      BY <1>0, <1>10, <2>5, <2>9 DEF MirroredAt
    <3>3. ResultAt(w)' /\ FirstAt(w)'
      BY <2>9 DEF ResultAt, FirstAt
    <3>4. QED BY <3>1, <3>2, <3>3 DEF RunAt
  <2>13. task[w].at \notin SavedPoints /\ ui' = ui /\ ui' \in {"down", "recovery", "serving"}
    BY <1>0, <1>1, <2>2 DEF SavedPoints
  <2>14. QED
    BY <1>2, <1>5, <1>6, <2>1, <2>5, <2>9, <2>11, <2>12, <2>13, Transitioned
<1>11. QED BY <1>4, <1>8, <1>9, <1>10

\* What is polled has no verdict.
LEMMA PolledStages ==
  ASSUME IInv, NEW w \in Work
  PROVE  /\ NonTerminalCount(log[w]) \in Int /\ NonTerminalCount(log[w]) <= Len(log[w])
         /\ \A k \in 1..NonTerminalCount(log[w]) : log[w][k] \notin Verdicts
<1>1. log[w] \in Seq(StageNames) /\ Len(log[w]) \in Nat /\ LogAt(w)
  BY TypesAt DEF IInv, DataAt
<1>2. CASE log[w] # <<>> /\ Last(log[w]) \in Verdicts
  BY <1>1, <1>2 DEF NonTerminalCount, LogAt
<1>3. CASE ~(log[w] # <<>> /\ Last(log[w]) \in Verdicts)
  <2>1. NonTerminalCount(log[w]) = Len(log[w])
    BY <1>3 DEF NonTerminalCount
  <2>2. Len(log[w]) >= 1 => log[w] # <<>> /\ log[w][Len(log[w])] \notin Verdicts
    BY <1>1, <1>3 DEF Last
  <2>3. \A k \in 1..Len(log[w]) : log[w][k] \notin Verdicts
    BY <1>1, <2>2 DEF LogAt
  <2>4. QED BY <1>1, <2>1, <2>3
<1>4. QED BY <1>2, <1>3

\* A tick of the poll mirrors as much as the store takes.
LEMMA KeepsPoll ==
  ASSUME IInv, NEW w \in Work, Poll(w)
  PROVE  IInv'
<1>0. /\ TypeOK /\ RunAt(w) /\ DataAt(w) /\ Executing(w) /\ ~task[w].failing /\ task \in [Work -> Tasks]
      /\ task[w] \in Tasks /\ Len(log[w]) \in Nat /\ Len(history[w]) \in Nat
  BY TypesAt DEF IInv, Poll, TypeOK, Tasks
<1>1. task[w].at = "executing" \/ (task[w].at = "waiting" /\ rows[w].kind = "restart")
  BY <1>0 DEF Executing
<1>2. /\ ui = "serving" /\ rows[w].state \in Started /\ rows[w].state \in ActiveStates
      /\ task[w].mirrored = Len(history[w]) - 1
  BY <1>0, <1>1 DEF RunAt, TaskAt, MirroredAt, FirstPoints, Started, ActiveStates
<1>3. Len(history[w]) >= 2
  BY <1>0, <1>2 DEF DataAt, UnbornAt
<1>4. PICK m \in Nat : m = task[w].mirrored
  BY <1>0 DEF Tasks
<1>5. PICK available \in Int : available = NonTerminalCount(log[w])
  BY PolledStages
<1>6. available <= Len(log[w]) /\ \A k \in 1..available : log[w][k] \notin Verdicts
  BY <1>5, PolledStages
<1>7. PICK k \in m..available :
        /\ StoredAll(k, available)
        /\ MirrorUpTo(w, log[w], m, k)
        /\ task' = IF k = available THEN [task EXCEPT ![w].mirrored = k] ELSE [task EXCEPT ![w].failing = TRUE]
  BY <1>4, <1>5 DEF Poll
<1>8. available > m /\ UNCHANGED <<ui, sent, busy, log, answer>>
  BY <1>4, <1>5 DEF Poll, agentVars
<1>9. left' \in 0..Budget
  BY <1>0, <1>7 DEF StoredAll, Fails, Works, TypeOK
<1>10. /\ k \in Nat /\ 1 <= m /\ m <= k /\ k <= Len(log[w]) /\ Len(history[w]) = m + 1 /\ k \in 1..available
  BY <1>0, <1>2, <1>3, <1>4, <1>5, <1>6, <1>7
<1>11. PICK new \in Tasks :
         /\ task' = [task EXCEPT ![w] = new] /\ new.at = task[w].at /\ new.result = task[w].result
         /\ (k = available => new.mirrored = k) /\ (k # available => new.failing = TRUE)
  <2>1. CASE k = available
    <3>1. [task[w] EXCEPT !.mirrored = k] \in Tasks /\ task' = [task EXCEPT ![w] = [task[w] EXCEPT !.mirrored = k]]
      BY <1>0, <1>7, <1>10, <2>1 DEF Tasks
    <3>2. QED BY <1>0, <2>1, <3>1 DEF Tasks
  <2>2. CASE k # available
    <3>1. [task[w] EXCEPT !.failing = TRUE] \in Tasks /\ task' = [task EXCEPT ![w] = [task[w] EXCEPT !.failing = TRUE]]
      BY <1>0, <1>7, <2>2 DEF Tasks
    <3>2. QED BY <1>0, <2>2, <3>1 DEF Tasks
  <2>3. QED BY <2>1, <2>2
<1>12. /\ task' \in [Work -> Tasks] /\ task'[w] = new /\ \A v \in Work \ {w} : task'[v] = task[v]
  BY <1>0, <1>11
<1>13. ASSUME rows'[w].kind = rows[w].kind, rows'[w].state \in Started, k = available => Len(history'[w]) = k + 1
       PROVE  RunAt(w)'
  <2>1. TaskAt(w)'
    BY <1>0, <1>1, <1>2, <1>8, <1>11, <1>12, <1>13 DEF RunAt, TaskAt, FirstPoints, Started, ActiveStates
  <2>2. MirroredAt(w)'
    BY <1>1, <1>10, <1>11, <1>12, <1>13 DEF MirroredAt
  <2>3. ResultAt(w)'
    BY <1>1, <1>11, <1>12 DEF ResultAt
  <2>4. FirstAt(w)'
    BY <1>0, <1>1, <1>8, <1>11, <1>12, <1>13 DEF RunAt, FirstAt, FirstCall
  <2>5. QED BY <2>1, <2>2, <2>3, <2>4 DEF RunAt
<1>14. task[w].at \in SavedPoints => task'[w].at \in SavedPoints
  BY <1>11, <1>12
<1>15. ui' = ui /\ ui' \in {"down", "recovery", "serving"}
  BY <1>0, <1>8 DEF TypeOK
<1>16. CASE k = m
  <2>1. UNCHANGED databaseVars
    BY <1>7, <1>16 DEF MirrorUpTo
  <2>2. UNCHANGED <<rows, history, lease, cases, closedBy, indexed>> /\ indexed' \subseteq Work
    BY <1>0, <2>1 DEF databaseVars, TypeOK
  <2>3. k # available
    BY <1>8, <1>16
  <2>4. RunAt(w)'
    BY <1>2, <1>13, <2>2, <2>3
  <2>5. QED BY <1>8, <1>9, <1>12, <1>14, <1>15, <2>2, <2>4, RunOnly
<1>17. CASE k # m
  <2>1. Transition(w, Logged(SubSeq(log[w], m + 1, k)), StateOf(log[w][k])) /\ m < k
    BY <1>7, <1>10, <1>17 DEF MirrorUpTo
  <2>2. /\ Logged(SubSeq(log[w], m + 1, k)) \in Seq(StageRecord)
        /\ StateOf(log[w][k]) \in ActiveStates \cup Verdicts
        /\ UnbornAt(w)' /\ HistoryAt(w)' /\ VerdictAt(w)'
        /\ Len(history'[w]) = k + 1 /\ rows'[w].kind = rows[w].kind
        /\ (log[w][k] \notin Verdicts => rows'[w].state \in Started)
    BY <1>2, <1>8, <1>10, <2>1, MirrorDoes
  <2>3. RunAt(w)'
    BY <1>6, <1>10, <1>13, <2>2
  <2>4. QED BY <1>2, <1>8, <1>9, <1>12, <1>14, <1>15, <2>1, <2>2, <2>3, Transitioned
<1>18. QED BY <1>16, <1>17

\* A run that has an accepted answer mirrors it.
LEMMA MirrorRun ==
  ASSUME NEW w \in Work, task'[w].at = "mirror", rows'[w].state \in Started,
         task'[w].mirrored = Len(history'[w]) - 1, task'[w].mirrored < Len(log'[w]),
         task'[w].result.stages = log'[w], Last(log'[w]) \in Verdicts
  PROVE  RunAt(w)'
<1>1. TaskAt(w)'
  BY DEF TaskAt, FirstPoints, Started, ActiveStates
<1>2. MirroredAt(w)'
  BY DEF MirroredAt
<1>3. ResultAt(w)'
  BY DEF ResultAt
<1>4. FirstAt(w)'
  BY DEF FirstAt
<1>5. QED BY <1>1, <1>2, <1>3, <1>4 DEF RunAt

\* An accepted answer, to a call or to a recovery, is the log with its verdict, and more than
\* what is mirrored; any other answer leaves doubt.
LEMMA AnswerRead ==
  ASSUME IInv, NEW w \in Work, NEW name \in CallNames \ {"prepare"}, NEW result \in {answer.result, NoResult},
         Answered(w, name, result), UNCHANGED <<databaseVars, ui>>, rows[w].state \in Started,
         NEW new \in Tasks, task' = [task EXCEPT ![w] = new],
         \/ /\ ValidResult(result, new.mirrored) /\ new.at = "mirror"
            /\ new.mirrored = Len(history[w]) - 1 /\ new.result = result
         \/ new.at = "uncertain"
  PROVE  IInv'
<1>0. TypeOK /\ task \in [Work -> Tasks]
  BY DEF IInv, TypeOK, Tasks
<1>1. /\ UNCHANGED <<log, busy, sent>> /\ left' \in 0..Budget
      /\ \/ answer' = NoAnswer
         \/ answer' = answer /\ result = NoResult
      /\ result.stages # <<>> =>
           answer' = NoAnswer /\ result.stages = log[w] /\ Last(log[w]) \in Verdicts
  BY AnswerTells
<1>2. UNCHANGED <<rows, history, lease, cases, closedBy, indexed, ui>> /\ indexed' \subseteq Work
      /\ ui' \in {"down", "recovery", "serving"}
  BY <1>0 DEF databaseVars, TypeOK
<1>3. task' \in [Work -> Tasks] /\ task'[w] = new /\ \A v \in Work \ {w} : task'[v] = task[v]
  BY <1>0
<1>4. CASE /\ ValidResult(result, new.mirrored) /\ new.at = "mirror"
           /\ new.mirrored = Len(history[w]) - 1 /\ new.result = result
  <2>1. new.mirrored < Len(result.stages) /\ result.stages[1] = "first" /\ result.stages # <<>>
    <3>1. Len(result.stages) > new.mirrored /\ Len(result.stages) > 1 /\ result.stages[1] = "first"
      BY <1>4 DEF ValidResult
    <3>2. result.stages # <<>>
      BY <3>1
    <3>3. Len(history[w]) - 1 \in Int /\ Len(result.stages) \in Int
      <4>1. result.stages \in Seq(StageNames)
        BY <1>0, IdleTyped DEF TypeOK, Results
      <4>2. QED BY <1>0, <4>1, TypesAt
    <3>4. QED BY <1>4, <3>1, <3>2, <3>3
  <2>2. answer' = NoAnswer /\ result.stages = log[w] /\ Last(log[w]) \in Verdicts
    BY <1>1, <2>1
  <2>3. RunAt(w)'
    BY <1>1, <1>2, <1>3, <1>4, <2>1, <2>2, MirrorRun
  <2>4. QED BY <1>1, <1>2, <1>3, <2>2, <2>3, RunOnly
<1>5. CASE new.at = "uncertain"
  <2>1. RunAt(w)'
    BY <1>2, <1>3, <1>5, UncertainRun
  <2>2. task'[w].at \in SavedPoints
    BY <1>3, <1>5 DEF SavedPoints
  <2>3. QED BY <1>1, <1>2, <1>3, <2>1, <2>2, RunOnly
<1>6. QED BY <1>4, <1>5

\* The answer to the last call of a run.
LEMMA KeepsCompleted ==
  ASSUME IInv, NEW w \in Work, Completed(w)
  PROVE  IInv'
<1>0. /\ TypeOK /\ RunAt(w) /\ Executing(w) /\ task \in [Work -> Tasks] /\ task[w] \in Tasks
      /\ UNCHANGED <<databaseVars, ui>>
  BY TypesAt DEF IInv, Completed, TypeOK, Tasks
<1>1. \/ task[w].at = "executing" /\ rows[w].kind = "restore"
      \/ task[w].at = "waiting" /\ rows[w].kind = "restart"
  BY <1>0 DEF Executing, RunAt, TaskAt
<1>2. rows[w].state \in Started /\ (~task[w].failing => task[w].mirrored = Len(history[w]) - 1)
  BY <1>0, <1>1 DEF RunAt, TaskAt, MirroredAt
<1>3. PICK name \in CallNames \ {"prepare"} : name = IF rows[w].kind = "restore" THEN "execute" ELSE "restart"
  BY DEF CallNames
<1>4. PICK result \in {answer.result, NoResult} :
        /\ Answered(w, name, result)
        /\ IF ValidResult(result, task[w].mirrored) /\ ~task[w].failing
           THEN task' = [task EXCEPT ![w].at = "mirror", ![w].result = result]
           ELSE task' = [task EXCEPT ![w].at = "uncertain"]
  BY <1>3 DEF Completed
<1>5. CASE ValidResult(result, task[w].mirrored) /\ ~task[w].failing
  <2>1. result \in Results
    BY <1>0, IdleTyped DEF TypeOK
  <2>2. PICK new \in Tasks : new = [task[w] EXCEPT !.at = "mirror", !.result = result]
    BY <1>0, <2>1 DEF Tasks, TaskPoints
  <2>3. /\ task' = [task EXCEPT ![w] = new] /\ new.at = "mirror" /\ new.result = result
        /\ new.mirrored = task[w].mirrored
    BY <1>0, <1>4, <1>5, <2>2 DEF Tasks
  <2>4. ValidResult(result, new.mirrored) /\ new.mirrored = Len(history[w]) - 1
    BY <1>2, <1>5, <2>3
  <2>5. QED BY <1>0, <1>2, <1>4, <2>3, <2>4, AnswerRead, ZenonT(60)
<1>6. CASE ~(ValidResult(result, task[w].mirrored) /\ ~task[w].failing)
  <2>1. PICK new \in Tasks : new = [task[w] EXCEPT !.at = "uncertain"]
    BY <1>0 DEF Tasks, TaskPoints
  <2>2. task' = [task EXCEPT ![w] = new] /\ new.at = "uncertain"
    BY <1>0, <1>4, <1>6, <2>1 DEF Tasks
  <2>3. Answered(w, name, result) /\ rows[w].state \in Started
    BY <1>2, <1>4
  <2>4. QED BY <1>0, <2>2, <2>3, AnswerRead
<1>7. QED BY <1>5, <1>6

\* The answer to a recovery.
LEMMA KeepsRecovered ==
  ASSUME IInv, NEW w \in Work, Recovered(w)
  PROVE  IInv'
<1>0. /\ TypeOK /\ RunAt(w) /\ DataAt(w) /\ task[w].at = "recovering" /\ task \in [Work -> Tasks]
      /\ task[w] \in Tasks /\ UNCHANGED <<databaseVars, ui>> /\ Len(history[w]) \in Nat
  BY TypesAt DEF IInv, Recovered, TypeOK, Tasks
<1>1. rows[w].state \in Started
  BY <1>0 DEF RunAt, TaskAt
<1>2. Len(history[w]) - 1 \in Nat
  <2>1. Len(history[w]) >= 2 /\ Len(history[w]) \in Nat
    BY <1>0, <1>1 DEF DataAt, UnbornAt
  <2>2. QED BY <2>1
<1>3. "recover" \in CallNames \ {"prepare"}
  BY DEF CallNames
<1>4. PICK result \in {answer.result, NoResult} :
        /\ Answered(w, "recover", result)
        /\ IF ValidResult(result, Len(history[w]) - 1) /\ Extends(result, w)
           THEN task' = [task EXCEPT ![w].at = "mirror", ![w].mirrored = Len(history[w]) - 1, ![w].result = result]
           ELSE task' = [task EXCEPT ![w].at = "uncertain"]
  BY DEF Recovered
<1>5. CASE ValidResult(result, Len(history[w]) - 1) /\ Extends(result, w)
  <2>1. result \in Results
    BY <1>0, IdleTyped DEF TypeOK
  <2>2. PICK new \in Tasks :
          new = [task[w] EXCEPT !.at = "mirror", !.mirrored = Len(history[w]) - 1, !.result = result]
    BY <1>0, <1>2, <2>1 DEF Tasks, TaskPoints
  <2>3. /\ task' = [task EXCEPT ![w] = new] /\ new.at = "mirror" /\ new.result = result
        /\ new.mirrored = Len(history[w]) - 1
    BY <1>0, <1>4, <1>5, <2>2 DEF Tasks
  <2>4. ValidResult(result, new.mirrored)
    BY <1>5, <2>3
  <2>5. QED BY <1>0, <1>1, <1>3, <1>4, <2>3, <2>4, AnswerRead, ZenonT(60)
<1>6. CASE ~(ValidResult(result, Len(history[w]) - 1) /\ Extends(result, w))
  <2>1. PICK new \in Tasks : new = [task[w] EXCEPT !.at = "uncertain"]
    BY <1>0 DEF Tasks, TaskPoints
  <2>2. task' = [task EXCEPT ![w] = new] /\ new.at = "uncertain"
    BY <1>0, <1>4, <1>6, <2>1 DEF Tasks
  <2>3. QED BY <1>0, <1>1, <1>3, <1>4, <2>2, AnswerRead
<1>7. QED BY <1>5, <1>6

\* The rest of the log is mirrored; work that was to settle a case goes on to it.
LEMMA KeepsMirror ==
  ASSUME IInv, NEW w \in Work, Mirror(w)
  PROVE  IInv'
<1>0. /\ TypeOK /\ RunAt(w) /\ DataAt(w) /\ task[w].at = "mirror" /\ UNCHANGED agentVars
      /\ Len(log[w]) \in Nat /\ Len(history[w]) \in Nat /\ task[w].mirrored \in Nat
  BY TypesAt DEF IInv, Mirror
<1>1. /\ rows[w].state \in Started /\ rows[w].state \in ActiveStates
      /\ task[w].mirrored = Len(history[w]) - 1 /\ task[w].mirrored < Len(log[w])
      /\ task[w].result.stages = log[w] /\ Last(log[w]) \in Verdicts
  BY <1>0 DEF RunAt, TaskAt, MirroredAt, ResultAt, Started, ActiveStates
<1>2. Len(history[w]) >= 2
  BY <1>0, <1>1 DEF DataAt, UnbornAt
<1>3. PICK m \in Nat : m = task[w].mirrored
  BY <1>0
<1>4. PICK n \in Nat : n = Len(log[w])
  BY <1>0
<1>5. PICK k \in m..n :
        /\ StoredAll(k, n)
        /\ MirrorUpTo(w, log[w], m, k)
        /\ IF k < n THEN Fail(w)
           ELSE IF Last(log[w]) = "succeeded" /\ rows[w].case # NoCase THEN Goto(w, "resolve")
           ELSE End(w)
  BY <1>1, <1>3, <1>4 DEF Mirror
<1>6. k \in Nat /\ 1 <= m /\ m <= k /\ k <= n /\ m < n /\ Len(history[w]) = m + 1
  BY <1>0, <1>1, <1>2, <1>3, <1>4, <1>5
<1>7. left' \in 0..Budget
  BY <1>0, <1>5 DEF StoredAll, Fails, Works, TypeOK
<1>8. UNCHANGED <<log, busy, answer, sent>>
  BY <1>0 DEF agentVars
<1>9. CASE k = m
  <2>1. UNCHANGED databaseVars /\ Fail(w)
    BY <1>5, <1>6, <1>9 DEF MirrorUpTo
  <2>2. QED BY <1>0, <1>7, <2>1, RunEnds
<1>10. CASE k # m
  <2>1. Transition(w, Logged(SubSeq(log[w], m + 1, k)), StateOf(log[w][k])) /\ m < k /\ k <= Len(log[w])
    BY <1>4, <1>5, <1>6, <1>10 DEF MirrorUpTo
  <2>2. CASE Fail(w) \/ End(w)
    BY <1>1, <1>6, <1>7, <1>8, <2>1, <2>2, MirroredAndOver
  <2>3. CASE k = n /\ Last(log[w]) = "succeeded" /\ rows[w].case # NoCase /\ Goto(w, "resolve")
    <3>1. /\ Logged(SubSeq(log[w], m + 1, k)) \in Seq(StageRecord)
          /\ StateOf(log[w][k]) \in ActiveStates \cup Verdicts
          /\ UnbornAt(w)' /\ HistoryAt(w)' /\ VerdictAt(w)'
          /\ rows'[w].case = rows[w].case /\ rows'[w].state = StateOf(log[w][k])
      BY <1>1, <1>6, <1>8, <2>1, MirrorDoes
    <3>2. rows'[w].state = "succeeded"
      BY <1>4, <2>3, <3>1 DEF StateOf, Verdicts, Last
    <3>3. /\ task' \in [Work -> Tasks] /\ task'[w].at = "resolve" /\ ui' = ui
          /\ \A v \in Work \ {w} : task'[v] = task[v]
      BY <1>0, <2>3, GotoDoes DEF TaskPoints
    <3>4. RunAt(w)'
      BY <2>3, <3>1, <3>2, <3>3 DEF RunAt, TaskAt, MirroredAt, ResultAt, FirstAt, FirstPoints
    <3>5. task[w].at \notin SavedPoints /\ ui' \in {"down", "recovery", "serving"}
      BY <1>0, <3>3 DEF SavedPoints, TypeOK
    <3>6. QED
      BY <1>1, <1>7, <1>8, <2>1, <3>1, <3>3, <3>4, <3>5, Transitioned
  <2>4. QED BY <1>5, <1>6, <2>2, <2>3
<1>11. QED BY <1>9, <1>10

\* Doubt is recorded, or left to the next startup.
LEMMA KeepsMarkUncertain ==
  ASSUME IInv, NEW w \in Work, MarkUncertain(w)
  PROVE  IInv'
<1>0. TypeOK /\ RunAt(w) /\ task[w].at = "uncertain" /\ UNCHANGED agentVars
  BY DEF IInv, MarkUncertain
<1>1. rows[w].state \in ActiveStates
  BY <1>0 DEF RunAt, TaskAt
<1>2. left' \in 0..Budget
  BY <1>0 DEF MarkUncertain, Works, Fails, TypeOK
<1>3. CASE Transition(w, <<Stage("needs_attention", "ui")>>, "needs_attention") /\ End(w)
  BY <1>0, <1>1, <1>2, <1>3, OwnVerdict
<1>4. CASE Fail(w) /\ UNCHANGED databaseVars
  BY <1>0, <1>2, <1>4, RunEnds
<1>5. QED BY <1>3, <1>4 DEF MarkUncertain

-------------------------------------------------------------------------------
(* Cases. *)

\* A case that is closed by evidence for it keeps the database true.
LEMMA CaseCloses ==
  ASSUME IInv, NEW c \in Cases, NEW evidence \in 0..Verified, Resolve(c, evidence, TRUE),
         \/ evidence = Verified
         \/ evidence \in Work /\ rows[evidence].state = "succeeded" /\ rows[evidence].case = c
  PROVE  /\ UNCHANGED <<rows, history, lease, indexed>>
         /\ cases' \in [Cases -> {"none", "open", "resolved"}] /\ closedBy' \in [Cases -> 0..Verified]
         /\ \A v \in Work : cases'[v] = "none" <=> cases[v] = "none"
         /\ \A d \in Cases : ClosedAt(d)' /\ (cases[d] = "resolved" => cases'[d] = "resolved")
<1>0. /\ cases \in [Cases -> {"none", "open", "resolved"}] /\ closedBy \in [Cases -> 0..Verified]
      /\ \A d \in Cases : ClosedAt(d)
  BY DEF IInv, TypeOK
<1>1. /\ cases[c] = "open" /\ cases' = [cases EXCEPT ![c] = "resolved"]
      /\ closedBy' = [closedBy EXCEPT ![c] = evidence] /\ UNCHANGED <<rows, history, lease, indexed>>
  BY DEF Resolve
<1>2. /\ cases' \in [Cases -> {"none", "open", "resolved"}] /\ closedBy' \in [Cases -> 0..Verified]
      /\ cases'[c] = "resolved" /\ closedBy'[c] = evidence
      /\ \A d \in Cases \ {c} : cases'[d] = cases[d] /\ closedBy'[d] = closedBy[d]
  BY <1>0, <1>1
<1>3. \A v \in Work : cases'[v] = "none" <=> cases[v] = "none"
  BY <1>1, <1>2, WorkIsNat
<1>4. \A d \in Cases : cases[d] = "resolved" => cases'[d] = "resolved"
  BY <1>2
<1>5. ASSUME NEW d \in Cases PROVE ClosedAt(d)'
  <2>1. CASE d = c
    BY <1>1, <1>2, <2>1 DEF ClosedAt, Verified
  <2>2. CASE d # c
    <3>1. cases'[d] = cases[d] /\ closedBy'[d] = closedBy[d] /\ ClosedAt(d) /\ rows' = rows
      BY <1>0, <1>1, <1>2, <2>2
    <3>2. QED BY <3>1 DEF ClosedAt, Verified
  <2>3. QED BY <2>1, <2>2
<1>6. QED BY <1>1, <1>2, <1>3, <1>4, <1>5

\* A step that closes cases, and at most ends a run that has its verdict.
LEMMA CasesOnly ==
  ASSUME IInv, UNCHANGED <<rows, history, lease, indexed, agentVars>>, left' \in 0..Budget,
         cases' \in [Cases -> {"none", "open", "resolved"}], closedBy' \in [Cases -> 0..Verified],
         \A v \in Work : cases'[v] = "none" <=> cases[v] = "none",
         \A d \in Cases : ClosedAt(d)',
         task' \in [Work -> Tasks], ui' \in {"down", "recovery", "serving"}, ui' = ui \/ ui # "serving",
         \A v \in Work : task'[v] = task[v] \/ (task[v].at = "resolve" /\ task'[v].at = "none")
  PROVE  IInv'
<1>0. TypeOK /\ CallsOK /\ AnswerOK /\ \A v \in Work : DataAt(v) /\ RunAt(v)
  BY DEF IInv
<1>1. UNCHANGED <<sent, busy, log, answer>> /\ \A v \in Work : NoNewCall(v)
  BY DEF agentVars, NoNewCall
<1>2. TypeOK'
  BY <1>0, <1>1 DEF TypeOK, Tasks
<1>3. CallsOK'
  BY <1>1, CallsKept
<1>4. ASSUME NEW v \in Work PROVE DataAt(v)' /\ RunAt(v)'
  <2>1. DataAt(v)'
    BY <1>0, <1>1, QuietKept, DataKept
  <2>2. RunAt(v)'
    BY <1>0, <1>1, RunKept, RunIdle
  <2>3. QED BY <2>1, <2>2
<1>5. AnswerOK'
  <2> SUFFICES ASSUME answer.result.stages # <<>>
               PROVE  AnswerOK'
    BY <1>1 DEF AnswerOK
  <2> DEFINE v == answer.call.work
  <2>1. answer.call # NoCall /\ answer.call \in Calls /\ v \in Work
    BY <1>0, CallIsOfWork DEF TypeOK, AnswerOK
  <2>2. task[v].at \in SavedPoints => task'[v].at \in SavedPoints
    BY <2>1 DEF SavedPoints
  <2>3. QED BY <1>0, <1>1, <2>1, <2>2 DEF AnswerOK, Quiet, SavedPoints
<1>6. QED BY <1>2, <1>3, <1>4, <1>5 DEF IInv

\* The case is closed by the work that was to settle it, or stays open.
LEMMA KeepsResolveCase ==
  ASSUME IInv, NEW w \in Work, ResolveCase(w)
  PROVE  IInv'
<1>0. TypeOK /\ RunAt(w) /\ task[w].at = "resolve" /\ UNCHANGED agentVars
  BY DEF IInv, ResolveCase
<1>1. rows[w].state = "succeeded" /\ rows[w].case \in Cases /\ w \in 0..Verified
  BY <1>0, TypesAt, WorkIsNat DEF RunAt, TaskAt, Verified
<1>2. left' \in 0..Budget
  BY <1>0 DEF ResolveCase, Works, Fails, TypeOK
<1>3. CASE Resolve(rows[w].case, w, rows[w].state = "succeeded") /\ End(w)
  <2>1. PICK c \in Cases : c = rows[w].case
    BY <1>1
  <2>2. Resolve(c, w, TRUE)
    BY <1>1, <1>3, <2>1 DEF Resolve
  <2>3. /\ UNCHANGED <<rows, history, lease, indexed>>
        /\ cases' \in [Cases -> {"none", "open", "resolved"}] /\ closedBy' \in [Cases -> 0..Verified]
        /\ \A v \in Work : cases'[v] = "none" <=> cases[v] = "none"
        /\ \A d \in Cases : ClosedAt(d)'
    BY <1>1, <2>1, <2>2, CaseCloses
  <2>4. /\ task' \in [Work -> Tasks] /\ task'[w].at = "none" /\ \A v \in Work \ {w} : task'[v] = task[v]
        /\ ui' \in {"down", "recovery", "serving"} /\ (ui' = ui \/ ui # "serving")
    BY <1>0, <1>3, EndTaskDoes
  <2>5. \A v \in Work : task'[v] = task[v] \/ (task[v].at = "resolve" /\ task'[v].at = "none")
    BY <1>0, <2>4
  <2>6. QED BY <1>0, <1>2, <2>3, <2>4, <2>5, CasesOnly
<1>4. CASE Fail(w) /\ UNCHANGED databaseVars
  BY <1>0, <1>2, <1>4, RunEnds
<1>5. QED BY <1>3, <1>4 DEF ResolveCase

\* A case is closed by a health proof.
LEMMA KeepsVerify ==
  ASSUME IInv, Verify
  PROVE  IInv'
<1>0. TypeOK /\ UNCHANGED <<ui, task, agentVars>>
  BY DEF IInv, Verify
<1>1. PICK c \in Cases : Resolve(c, Verified, TRUE)
  BY DEF Verify
<1>2. left' \in 0..Budget
  BY <1>0 DEF Verify, Works, TypeOK
<1>3. Verified \in 0..Verified
  BY DEF Verified
<1>4. /\ UNCHANGED <<rows, history, lease, indexed>>
      /\ cases' \in [Cases -> {"none", "open", "resolved"}] /\ closedBy' \in [Cases -> 0..Verified]
      /\ \A v \in Work : cases'[v] = "none" <=> cases[v] = "none"
      /\ \A d \in Cases : ClosedAt(d)'
  BY <1>1, <1>3, CaseCloses
<1>5. task' \in [Work -> Tasks] /\ ui' \in {"down", "recovery", "serving"}
  BY <1>0 DEF TypeOK, Tasks
<1>6. QED BY <1>0, <1>2, <1>4, <1>5, CasesOnly

-------------------------------------------------------------------------------
(* Reconciliation. *)

\* A run that recovers knows only that the work is under way.
LEMMA RecoveryRun ==
  ASSUME NEW w \in Work, task'[w].at \in {"verify", "recover", "recovering"}, rows'[w].state \in Started,
         task'[w].at = "verify" => rows'[w].kind = "restore",
         task'[w].at = "recover" /\ rows'[w].kind = "restore" => w \in indexed'
  PROVE  RunAt(w)'
BY DEF RunAt, TaskAt, MirroredAt, ResultAt, FirstAt, FirstPoints, Started, ActiveStates

\* Work that was only queued has failed, other work is recovered.
LEMMA KeepsReconcileWork ==
  ASSUME IInv, NEW w \in Work, ReconcileWork(w)
  PROVE  IInv'
<1>0. TypeOK /\ RunAt(w) /\ DataAt(w) /\ task[w].at = "reconcile" /\ UNCHANGED agentVars
  BY DEF IInv, ReconcileWork
<1>1. rows[w].state \in ActiveStates /\ rows[w].kind \in {"restore", "restart"}
  <2>1. rows[w].state \in ActiveStates
    BY <1>0 DEF RunAt, TaskAt
  <2>2. rows[w].kind # "none"
    BY <1>0, <2>1 DEF DataAt, UnbornAt, ActiveStates
  <2>3. QED BY <1>0, <2>1, <2>2, TypesAt
<1>2. CASE rows[w].state = "queued" /\ FailQueued(w)
  BY <1>0, <1>2, QueuedFails
<1>3. CASE /\ Works /\ rows[w].state # "queued" /\ UNCHANGED databaseVars
           /\ Goto(w, IF rows[w].kind = "restore" THEN "verify" ELSE "recover")
  <2>1. PICK point \in {"verify", "recover"} : point = IF rows[w].kind = "restore" THEN "verify" ELSE "recover"
    OBVIOUS
  <2>2. point \in TaskPoints /\ Goto(w, point)
    BY <1>3, <2>1 DEF TaskPoints
  <2>3. task'[w].at = point /\ rows' = rows /\ rows[w].state \in Started
    BY <1>0, <1>1, <1>3, <2>2, GotoDoes DEF databaseVars, Started, ActiveStates
  <2>4. RunAt(w)'
    BY <2>1, <2>3, RecoveryRun
  <2>5. left' \in 0..Budget /\ task[w].at \notin SavedPoints
    BY <1>0, <1>3, LeftTyped DEF SavedPoints
  <2>6. QED BY <1>0, <1>3, <2>2, <2>4, <2>5, RunGoes
<1>4. CASE Fails("store") /\ Fail(w) /\ UNCHANGED databaseVars
  <2>1. left' \in 0..Budget
    BY <1>0, <1>4 DEF Fails, TypeOK
  <2>2. QED BY <1>0, <1>4, <2>1, RunEnds
<1>5. QED BY <1>2, <1>3, <1>4 DEF ReconcileWork

\* The safety backup is in the index before the restore is recovered.
LEMMA KeepsVerifySafety ==
  ASSUME IInv, NEW w \in Work, VerifySafety(w)
  PROVE  IInv'
<1>0. TypeOK /\ RunAt(w) /\ task[w].at = "verify" /\ rows[w].state \in Started
  BY DEF IInv, VerifySafety, RunAt, TaskAt
<1>1. /\ UNCHANGED <<rows, history, lease, cases, closedBy, log, busy, sent, answer>>
      /\ left' \in 0..Budget /\ indexed \subseteq indexed' /\ indexed' \subseteq Work
  BY <1>0 DEF VerifySafety, agentVars, databaseVars, Works, Fails, TypeOK
<1>2. PICK point \in {"recover", "uncertain"} : Goto(w, point) /\ (point = "recover" => w \in indexed')
  BY DEF VerifySafety
<1>3. /\ task' \in [Work -> Tasks] /\ task'[w].at = point /\ ui' = ui
      /\ \A v \in Work \ {w} : task'[v] = task[v]
  BY <1>0, <1>2, GotoDoes DEF TaskPoints
<1>4. RunAt(w)'
  <2>1. CASE point = "uncertain"
    BY <1>0, <1>1, <1>3, <2>1, UncertainRun
  <2>2. CASE point = "recover"
    <3>1. task'[w].at = "recover" /\ w \in indexed'
      BY <1>2, <1>3, <2>2
    <3>2. QED BY <1>0, <1>1, <3>1, RecoveryRun
  <2>3. QED BY <2>1, <2>2
<1>5. task[w].at \notin SavedPoints /\ ui' \in {"down", "recovery", "serving"}
  BY <1>0, <1>3 DEF SavedPoints, TypeOK
<1>6. QED BY <1>1, <1>3, <1>4, <1>5, RunOnly

\* The Agent is asked to recover the work.
LEMMA KeepsRecover ==
  ASSUME IInv, NEW w \in Work, Recover(w)
  PROVE  IInv'
<1>0. TypeOK /\ RunAt(w) /\ task[w].at = "recover" /\ rows[w].state \in Started
  BY DEF IInv, Recover, RunAt, TaskAt
<1>1. Send(w, "recover") /\ Goto(w, "recovering") /\ Works /\ UNCHANGED <<databaseVars, busy, log, answer>>
  BY DEF Recover
<1>2. /\ task' \in [Work -> Tasks] /\ task'[w].at = "recovering" /\ ui' = ui
      /\ \A v \in Work \ {w} : task'[v] = task[v]
  BY <1>0, <1>1, GotoDoes DEF TaskPoints
<1>3. RunAt(w)'
  BY <1>0, <1>1, <1>2, RecoveryRun DEF databaseVars
<1>4. left' \in 0..Budget /\ "recover" \in CallNames
  BY <1>0, <1>1, LeftTyped DEF CallNames
<1>5. CallOK([name |-> "recover", work |-> w]) /\ task[w].at \notin SavedPoints
  BY <1>0 DEF CallOK, SavedPoints, RunAt, ResultAt
<1>6. QED BY <1>0, <1>1, <1>2, <1>3, <1>4, <1>5, SendOnly

\* A step of the process that changes no data, and nothing of a run but its end.
LEMMA ProcessOnly ==
  ASSUME IInv, UNCHANGED <<databaseVars, sent, busy, log>>, left' \in 0..Budget,
         task' \in [Work -> Tasks], ui' \in {"down", "recovery", "serving"},
         \/ answer' = NoAnswer /\ \A v \in Work : task'[v].at = "none"
         \/ answer' = answer /\ task' = task /\ ui # "serving"
  PROVE  IInv'
<1>0. TypeOK /\ CallsOK /\ AnswerOK /\ (\A v \in Work : DataAt(v) /\ RunAt(v)) /\ \A d \in Cases : ClosedAt(d)
  BY DEF IInv
<1>1. UNCHANGED <<rows, history, lease, cases, closedBy, indexed, sent, busy, log>> /\ \A v \in Work : NoNewCall(v)
  BY DEF databaseVars, NoNewCall
<1>2. TypeOK'
  BY <1>0, <1>1, NoAnswerTyped DEF TypeOK, Tasks
<1>3. CallsOK'
  BY <1>1, CallsKept
<1>4. ASSUME NEW v \in Work PROVE DataAt(v)' /\ RunAt(v)'
  <2>1. DataAt(v)'
    BY <1>0, <1>1, QuietKept, DataKept
  <2>2. RunAt(v)'
    BY <1>0, <1>1, RunKept, RunIdle
  <2>3. QED BY <2>1, <2>2
<1>5. AnswerOK'
  BY <1>0, <1>1, NoAnswerOK DEF AnswerOK
<1>6. \A d \in Cases : ClosedAt(d)'
  BY <1>0, <1>1 DEF ClosedAt
<1>7. QED BY <1>2, <1>3, <1>4, <1>5, <1>6 DEF IInv

\* The owner of the lease is the work to reconcile.
LEMMA KeepsReconcile ==
  ASSUME IInv, Reconcile
  PROVE  IInv'
<1>0. TypeOK /\ ui = "recovery" /\ UNCHANGED <<databaseVars, agentVars>>
  BY DEF IInv, Reconcile
<1>1. left' \in 0..Budget
  BY <1>0 DEF Reconcile, Works, Fails, TypeOK
<1>2. CASE ui' \in {"down", "serving"} /\ task' = task
  <2>1. task' \in [Work -> Tasks] /\ answer' = answer /\ UNCHANGED <<databaseVars, sent, busy, log>>
    BY <1>0, <1>2 DEF TypeOK, Tasks, agentVars
  <2>2. QED BY <1>0, <1>1, <1>2, <2>1, ProcessOnly
<1>3. CASE lease # 0 /\ Goto(lease, "reconcile")
  <2>1. PICK w \in Work : w = lease
    BY <1>0, <1>3 DEF TypeOK, Work
  <2>2. LeaseAt(w) /\ rows' = rows
    BY <1>0 DEF IInv, DataAt, databaseVars
  <2>3. rows[w].state \in ActiveStates /\ Goto(w, "reconcile") /\ "reconcile" \in TaskPoints
    BY <1>3, <2>1, <2>2 DEF LeaseAt, TaskPoints
  <2>4. task'[w].at = "reconcile"
    BY <1>0, <2>3, GotoDoes
  <2>5. RunAt(w)'
    BY <2>2, <2>3, <2>4 DEF RunAt, TaskAt, MirroredAt, ResultAt, FirstAt, FirstPoints
  <2>6. QED BY <1>0, <1>1, <2>3, <2>5, RunGoes
<1>4. QED BY <1>2, <1>3 DEF Reconcile

\* The process dies, and the next one starts.
LEMMA KeepsUIDies ==
  ASSUME IInv, UIDies
  PROVE  IInv'
<1>1. TypeOK /\ UNCHANGED <<databaseVars, sent, busy, log>> /\ ui' = "down"
      /\ task' = [v \in Work |-> Idle] /\ answer' = NoAnswer
  BY DEF IInv, UIDies
<1>2. left' \in 0..Budget
  BY <1>1 DEF UIDies, Fails, TypeOK
<1>3. task' \in [Work -> Tasks] /\ \A v \in Work : task'[v].at = "none"
  BY <1>1, IdleTyped
<1>4. QED BY <1>1, <1>2, <1>3, ProcessOnly

\* A starting process has forgotten nothing that counts.
LEMMA KeepsUIStarts ==
  ASSUME IInv, UIStarts
  PROVE  IInv'
<1>1. TypeOK /\ UNCHANGED <<databaseVars, task, sent, busy, log, answer>> /\ ui = "down" /\ ui' = "recovery"
  BY DEF IInv, UIStarts, agentVars
<1>2. left' \in 0..Budget /\ task' \in [Work -> Tasks]
  BY <1>1 DEF UIStarts, Works, TypeOK, Tasks
<1>3. QED BY <1>1, <1>2, ProcessOnly

-------------------------------------------------------------------------------
(* Work that is asked for. *)

\* New work has a row, a lease and a history of one stage.
LEMMA KeepsCreate ==
  ASSUME IInv, NEW w \in Creatable, NEW kind \in {"restore", "restart"}, NEW c \in Cases \cup {NoCase},
         Create(w, kind, c), Goto(w, IF kind = "restore" THEN "check" ELSE "start"),
         ui = "serving", UNCHANGED agentVars
  PROVE  IInv'
<1>0. TypeOK /\ CallsOK /\ w \in Work /\ lease = 0 /\ rows[w].kind = "none" /\ DataAt(w)
      /\ \A d \in Cases : ClosedAt(d)
  BY DEF IInv, Creatable
<1>1. rows[w].state = "none" /\ log[w] = <<>> /\ Quiet(w)
  BY <1>0 DEF DataAt, UnbornAt
<1> DEFINE new == [kind |-> kind, state |-> "queued", case |-> c]
<1> DEFINE queued == <<Stage("queued", "ui")>>
<1>2. new \in Rows /\ new.kind = kind /\ new.state = "queued"
  BY DEF Rows, ActiveStates
<1>3. queued \in Seq(StageRecord) /\ Len(queued) = 1
  BY OneStage DEF StageNames
<1>4. /\ lease' = w /\ rows' = [rows EXCEPT ![w] = new] /\ history' = [history EXCEPT ![w] = queued]
      /\ UNCHANGED <<cases, closedBy, indexed>> /\ UNCHANGED <<sent, busy, log, answer>>
  BY DEF Create, agentVars
<1> HIDE DEF new, queued
<1>5. rows \in [Work -> Rows] /\ history \in [Work -> Seq(StageRecord)]
  BY <1>0 DEF TypeOK, Rows, StageRecord
<1>6. /\ rows' \in [Work -> Rows] /\ rows'[w] = new /\ history' \in [Work -> Seq(StageRecord)] /\ history'[w] = queued
      /\ \A v \in Work \ {w} : rows'[v] = rows[v] /\ history'[v] = history[v]
  BY <1>0, <1>2, <1>3, <1>4, <1>5
<1>7. left' \in 0..Budget
  <2>1. PICK cost \in {1, 2} : left >= cost /\ left' = left - cost
    BY DEF Create, Cost
  <2>2. left \in 0..Budget
    BY <1>0 DEF TypeOK
  <2>3. QED BY <2>1, <2>2
<1>8. PICK point \in {"check", "start"} : point = IF kind = "restore" THEN "check" ELSE "start"
  OBVIOUS
<1>9. /\ task' \in [Work -> Tasks] /\ task'[w].at = point /\ ui' = ui
      /\ \A v \in Work \ {w} : task'[v] = task[v]
  BY <1>0, <1>8, GotoDoes DEF TaskPoints
<1>10. \A v \in Work : NoNewCall(v)
  BY <1>4 DEF NoNewCall
<1>11. w # 0 /\ w \in 0..MaxWork /\ \A v \in Work : v # 0
  BY <1>0, WorkIsNat DEF Work
<1>12. Beside(w)
  BY <1>0, <1>4, <1>6, <1>9, <1>10, <1>11 DEF Beside
<1>13. TypeOK'
  BY <1>0, <1>4, <1>6, <1>7, <1>9, <1>11 DEF TypeOK, Tasks, Rows, StageRecord
<1>14. CallsOK'
  <2>1. ASSUME NEW d \in Calls, d # NoCall, d.work # w, CallOK(d) PROVE CallOK(d)'
    <3>1. d.work \in Work
      BY <2>1, CallIsOfWork
    <3>2. QED BY <1>4, <1>6, <2>1, <3>1 DEF CallOK
  <2>2. sent \subseteq Calls /\ busy \in Calls
    BY <1>0 DEF TypeOK
  <2>3. \A d \in sent' : d # NoCall /\ CallOK(d)'
    BY <1>0, <1>1, <1>4, <2>1, <2>2 DEF CallsOK, Quiet
  <2>4. busy' # NoCall => CallOK(busy)'
    BY <1>0, <1>1, <1>4, <2>1, <2>2 DEF CallsOK, Quiet
  <2>5. QED BY <2>3, <2>4 DEF CallsOK
<1>15. AnswerOK'
  BY <1>0, <1>1, <1>4, <1>9, <1>10, AnswerKept
<1>16. DataAt(w)'
  <2>1. UnbornAt(w)'
    BY <1>1, <1>2, <1>3, <1>4, <1>6 DEF UnbornAt, Quiet, Started
  <2>2. LeaseAt(w)'
    BY <1>2, <1>4, <1>6 DEF LeaseAt, ActiveStates
  <2>3. HistoryAt(w)'
    <3>1. Len(history'[w]) = 1
      BY <1>3, <1>6
    <3>2. \A i \in 2..1 : FALSE
      OBVIOUS
    <3>3. QED BY <3>1, <3>2 DEF HistoryAt
  <2>4. LogAt(w)' /\ SafetyAt(w)'
    BY <1>0, <1>1, <1>4 DEF DataAt, LogAt, SafetyAt
  <2>5. VerdictAt(w)'
    BY <1>2, <1>6 DEF VerdictAt
  <2>6. CaseAt(w)'
    BY <1>0, <1>1, <1>2, <1>4, <1>6 DEF DataAt, CaseAt
  <2>7. QED BY <2>1, <2>2, <2>3, <2>4, <2>5, <2>6 DEF DataAt
<1>17. RunAt(w)'
  BY <1>2, <1>6, <1>8, <1>9
     DEF RunAt, TaskAt, MirroredAt, ResultAt, FirstAt, FirstPoints, ActiveStates
<1>18. ASSUME NEW d \in Cases PROVE ClosedAt(d)'
  <2>1. ClosedAt(d) /\ cases' = cases /\ closedBy' = closedBy
    BY <1>0, <1>4
  <2>2. closedBy[d] = w => rows[closedBy[d]].state # "succeeded"
    BY <1>1
  <2>3. QED BY <1>6, <2>1, <2>2 DEF ClosedAt
<1>19. QED BY <1>0, <1>12, <1>13, <1>14, <1>15, <1>16, <1>17, <1>18, Assembled

\* QueueRestore and QueueRestart.
LEMMA KeepsQueue ==
  ASSUME IInv, QueueRestore \/ QueueRestart
  PROVE  IInv'
<1>1. CASE QueueRestore
  <2>1. PICK w \in Creatable, c \in Cases \cup {NoCase} : Create(w, "restore", c) /\ Goto(w, "check")
    BY <1>1 DEF QueueRestore
  <2>2. QED BY <1>1, <2>1, KeepsCreate DEF QueueRestore
<1>2. CASE QueueRestart
  <2>1. PICK w \in Creatable, c \in Cases \cup {NoCase} : Create(w, "restart", c) /\ Goto(w, "start")
    BY <1>2 DEF QueueRestart
  <2>2. QED BY <1>2, <2>1, KeepsCreate DEF QueueRestart
<1>3. QED BY <1>1, <1>2

-------------------------------------------------------------------------------
(* The Agent. *)

\* A step of the Agent that logs nothing and takes up at most a call that was sent.
LEMMA AgentOnly ==
  ASSUME IInv, UNCHANGED <<databaseVars, ui, task, log>>, left' \in 0..Budget, sent' \subseteq sent,
         busy' \in {busy, NoCall} \/ (busy' \in sent /\ busy' \notin sent'),
         \/ answer' = answer
         \/ AnswerOK' /\ answer' \in [call : Calls, result : Results]
  PROVE  IInv'
<1>0. TypeOK /\ AnswerOK /\ (\A v \in Work : DataAt(v) /\ RunAt(v)) /\ \A d \in Cases : ClosedAt(d)
  BY DEF IInv
<1>1. UNCHANGED <<rows, history, lease, cases, closedBy, indexed, ui, task, log>>
  BY DEF databaseVars
<1>2. NoCall \in Calls /\ \A v \in Work : NoCall.work # v
  BY WorkIsNat DEF Calls, NoCall
<1>3. \A v \in Work : NoNewCall(v)
  BY <1>2 DEF NoNewCall
<1>4. TypeOK'
  BY <1>0, <1>1, <1>2 DEF TypeOK
<1>5. CallsOK'
  BY <1>1, CallsKept
<1>6. ASSUME NEW v \in Work PROVE DataAt(v)' /\ RunAt(v)'
  <2>1. DataAt(v)'
    BY <1>0, <1>1, <1>3, QuietKept, DataKept
  <2>2. RunAt(v)'
    BY <1>0, <1>1, <1>3, RunKept
  <2>3. QED BY <2>1, <2>2
<1>7. AnswerOK'
  <2> SUFFICES ASSUME answer' = answer, answer.result.stages # <<>>
               PROVE  AnswerOK'
    BY DEF AnswerOK
  <2> DEFINE v == answer.call.work
  <2>1. answer.call # NoCall /\ answer.call \in Calls /\ v \in Work
    BY <1>0, CallIsOfWork DEF TypeOK, AnswerOK
  <2>2. Quiet(v) => Quiet(v)'
    BY <1>3, <2>1, QuietKept
  <2>3. QED BY <1>0, <1>1, <2>1, <2>2 DEF AnswerOK
<1>8. \A d \in Cases : ClosedAt(d)'
  BY <1>0, <1>1 DEF ClosedAt
<1>9. QED BY <1>4, <1>5, <1>6, <1>7, <1>8 DEF IInv

\* A reply without stages tells nothing.
LEMMA ErrorReplied ==
  ASSUME NEW c \in Calls, Reply(c, NoResult)
  PROVE  AnswerOK' /\ answer' \in [call : Calls, result : Results]
<1>1. CASE answer' = NoAnswer
  BY <1>1, NoAnswerOK, NoAnswerTyped
<1>2. CASE answer' = [call |-> c, result |-> NoResult]
  <2>1. answer'.result.stages = <<>>
    BY <1>2 DEF NoResult
  <2>2. QED BY <1>2, <2>1, IdleTyped DEF AnswerOK
<1>3. QED BY <1>1, <1>2 DEF Reply

\* A call is taken up or refused.
LEMMA KeepsTakeUp ==
  ASSUME IInv, TakeUp
  PROVE  IInv'
<1>0. TypeOK /\ UNCHANGED <<databaseVars, ui, task, log>>
  BY DEF IInv, TakeUp
<1>1. PICK c \in sent :
        /\ sent' = sent \ {c}
        /\ \/ ~Refuses(c) /\ busy = NoCall /\ busy' = c /\ UNCHANGED answer
           \/ Refuses(c) /\ Reply(c, NoResult) /\ UNCHANGED busy
  BY DEF TakeUp
<1>2. left' \in 0..Budget /\ c \in Calls
  BY <1>0 DEF TakeUp, Works, TypeOK
<1>3. CASE busy' = c /\ UNCHANGED answer
  BY <1>0, <1>1, <1>2, <1>3, AgentOnly
<1>4. CASE Reply(c, NoResult) /\ UNCHANGED busy
  BY <1>0, <1>1, <1>2, <1>4, AgentOnly, ErrorReplied
<1>5. QED BY <1>1, <1>3, <1>4

\* The Agent that dies takes its calls and its answers with it.
LEMMA KeepsAgentDies ==
  ASSUME IInv, AgentDies
  PROVE  IInv'
<1>1. TypeOK /\ UNCHANGED <<databaseVars, ui, task, log>> /\ sent' = {} /\ busy' = NoCall /\ answer' = NoAnswer
  BY DEF IInv, AgentDies
<1>2. left' \in 0..Budget
  BY <1>1 DEF AgentDies, Fails, TypeOK
<1>3. AnswerOK' /\ answer' \in [call : Calls, result : Results]
  BY <1>1, NoAnswerOK, NoAnswerTyped
<1>4. QED BY <1>1, <1>2, <1>3, AgentOnly

\* The Agent tells its log when it is final, or when it has prepared a restore that somebody
\* waits for.
LEMMA KeepsAgentAnswers ==
  ASSUME IInv, AgentAnswers
  PROVE  IInv'
<1>0. TypeOK /\ UNCHANGED <<databaseVars, ui, task, sent, log>> /\ busy' = NoCall /\ busy # NoCall /\ busy \in Calls
  BY DEF IInv, AgentAnswers, TypeOK
<1>1. left' \in 0..Budget
  BY <1>0 DEF AgentAnswers, Works, Fails, TypeOK
<1>2. PICK w \in Work : w = busy.work
  BY <1>0, CallIsOfWork
<1>3. CASE Reply(busy, NoResult)
  BY <1>0, <1>1, <1>3, AgentOnly, ErrorReplied
<1>4. CASE /\ log[w] # <<>> /\ (Last(log[w]) \in Verdicts \/ (busy.name = "prepare" /\ Last(log[w]) = "saved"))
           /\ Reply(busy, [state |-> StateOf(Last(log[w])), stages |-> log[w]])
  <2>1. CASE answer' = NoAnswer
    BY <1>0, <1>1, <2>1, AgentOnly, NoAnswerOK, NoAnswerTyped
  <2>2. CASE Awaited(busy) /\ answer' = [call |-> busy, result |-> [state |-> StateOf(Last(log[w])), stages |-> log[w]]]
    <3>1. log[w] \in Seq(StageNames) /\ RunAt(w)
      BY <1>0, TypesAt DEF IInv
    <3>2. StateOf(Last(log[w])) \in ActiveStates \cup Verdicts \cup {"none"}
      BY <1>4 DEF StateOf, ActiveStates, Verdicts
    <3>3. answer' \in [call : Calls, result : Results]
      BY <1>0, <2>2, <3>1, <3>2 DEF Results
    <3>4. busy.name = "prepare" => Quiet(w)' /\ ui = "serving" /\ task[w].at = "waiting"
      <4> SUFFICES ASSUME busy.name = "prepare"
                   PROVE  Quiet(w)' /\ ui = "serving" /\ task[w].at = "waiting"
        OBVIOUS
      <4>1. task[w].at = "waiting"
        BY <1>2, <2>2 DEF Awaited
      <4>2. ui = "serving"
        BY <3>1, <4>1 DEF RunAt, TaskAt, FirstPoints
      <4>3. \A c \in sent : c.work # w
        BY <1>2, <3>1, <4>1 DEF RunAt, FirstAt
      <4>4. NoCall.work # w
        BY WorkIsNat DEF NoCall
      <4>5. QED BY <1>0, <4>1, <4>2, <4>3, <4>4 DEF Quiet
    <3>5. answer'.call = busy /\ answer'.result.stages = log[w]
      BY <2>2
    <3>6. AnswerOK'
      BY <1>0, <1>2, <1>4, <3>4, <3>5 DEF AnswerOK
    <3>7. QED BY <1>0, <1>1, <3>3, <3>6, AgentOnly
  <2>3. QED BY <1>4, <2>1, <2>2 DEF Reply
<1>5. QED BY <1>2, <1>3, <1>4 DEF AgentAnswers

\* What may follow in a log: nothing after a verdict, and a restore writes only after its
\* safety backup.
LEMMA WhatFollows ==
  ASSUME NEW c \in Calls, NEW w \in Work, c.work = w, log[w] \in Seq(StageNames), NEW name \in NextStages(c)
  PROVE  /\ name \in StageNames \ {"queued"}
         /\ log[w] = <<>> => name = "first"
         /\ log[w] # <<>> => Last(log[w]) \notin Verdicts
         /\ name \in {"write", "undo"} =>
              c.name = "restart" \/ (log[w] # <<>> /\ Last(log[w]) \in {"saved", "write"})
<1> DEFINE last == IF log[w] = <<>> THEN "queued" ELSE Last(log[w])
<1>1. last \in {"queued", "first", "saved", "write", "undo"}
  <2>1. CASE last \notin {"queued", "first", "saved", "write", "undo"}
    BY <2>1 DEF NextStages, Following
  <2>2. QED BY <2>1
<1>2. CASE last = "queued"
  <2>1. name = "first"
    BY <1>2 DEF NextStages, Following
  <2>2. QED BY <1>2, <2>1 DEF StageNames, Verdicts
<1>3. CASE last # "queued"
  <2>1. log[w] # <<>> /\ Last(log[w]) = last
    BY <1>3
  <2>2. name \in {"failed", "saved", "write", "succeeded", "undo", "needs_attention", "rolled_back"}
    BY <1>1, <1>3 DEF NextStages, Following
  <2>3. name \in {"write", "undo"} => c.name = "restart" \/ last \in {"saved", "write"}
    BY <1>1, <1>3 DEF NextStages, Following
  <2>4. QED BY <1>1, <2>1, <2>2, <2>3 DEF StageNames, Verdicts
<1>4. QED BY <1>2, <1>3

\* The Agent logs a stage: nobody has been told of the log yet who counts on its end.
LEMMA KeepsAgentLogs ==
  ASSUME IInv, AgentLogs
  PROVE  IInv'
<1>0. /\ TypeOK /\ CallsOK /\ AnswerOK /\ \A v \in Work : DataAt(v) /\ RunAt(v)
      /\ \A d \in Cases : ClosedAt(d)
  BY DEF IInv
<1>1. /\ busy # NoCall /\ busy \in Calls /\ Works
      /\ UNCHANGED <<rows, history, lease, cases, closedBy, indexed, ui, task, sent, busy, answer>>
  BY <1>0 DEF AgentLogs, TypeOK, databaseVars
<1>2. PICK w \in Work : w = busy.work
  BY <1>1, CallIsOfWork
<1>3. PICK name \in NextStages(busy) : log' = [log EXCEPT ![w] = Append(log[w], name)]
  BY <1>2 DEF AgentLogs
<1>4. log[w] \in Seq(StageNames) /\ Len(log[w]) \in Nat /\ log \in [Work -> Seq(StageNames)]
  BY <1>0, TypesAt DEF TypeOK
<1>5. /\ name \in StageNames \ {"queued"}
      /\ log[w] = <<>> => name = "first"
      /\ log[w] # <<>> => Last(log[w]) \notin Verdicts
      /\ name \in {"write", "undo"} =>
           busy.name = "restart" \/ (log[w] # <<>> /\ Last(log[w]) \in {"saved", "write"})
  BY <1>1, <1>2, <1>4, WhatFollows
<1>6. /\ Append(log[w], name) \in Seq(StageNames) /\ Len(Append(log[w], name)) = Len(log[w]) + 1
      /\ Append(log[w], name)[Len(log[w]) + 1] = name
      /\ \A i \in 1..Len(log[w]) : Append(log[w], name)[i] = log[w][i]
  BY <1>4, <1>5, AppendProperties
<1>7. /\ log' \in [Work -> Seq(StageNames)] /\ log'[w] = Append(log[w], name)
      /\ \A v \in Work \ {w} : log'[v] = log[v]
  BY <1>3, <1>4, <1>6
<1>8. /\ Len(log'[w]) = Len(log[w]) + 1 /\ log'[w][Len(log[w]) + 1] = name
      /\ \A i \in 1..Len(log[w]) : log'[w][i] = log[w][i]
  BY <1>6, <1>7
<1>9. ~Quiet(w) /\ \A v \in Work : Quiet(v)' <=> Quiet(v)
  BY <1>1, <1>2 DEF Quiet
<1>10. DataAt(w) /\ RunAt(w)
  BY <1>0
<1>11. TypeOK'
  <2>1. left' \in 0..Budget
    BY <1>0, <1>1, LeftTyped
  <2>2. QED BY <1>0, <1>1, <1>7, <2>1 DEF TypeOK
<1>12. CallsOK'
  BY <1>0, <1>1 DEF CallsOK, CallOK
<1>13. AnswerOK'
  <2> SUFFICES ASSUME answer.result.stages # <<>>
               PROVE  AnswerOK'
    BY <1>1 DEF AnswerOK
  <2>1. answer.call # NoCall /\ answer.call \in Calls /\ answer.call.work \in Work
    BY <1>0, CallIsOfWork DEF TypeOK, AnswerOK
  <2>2. answer.call.work # w
    BY <1>0, <1>5, <1>9 DEF AnswerOK
  <2>3. log'[answer.call.work] = log[answer.call.work]
    BY <1>7, <2>1, <2>2
  <2>4. QED BY <1>0, <1>1, <1>9, <2>1, <2>3 DEF AnswerOK
<1>14. DataAt(w)'
  <2>1. UnbornAt(w)'
    BY <1>1, <1>9, <1>10 DEF DataAt, UnbornAt
  <2>2. LeaseAt(w)' /\ CaseAt(w)'
    BY <1>1, <1>10 DEF DataAt, LeaseAt, CaseAt
  <2>3. HistoryAt(w)'
    <3> SUFFICES ASSUME NEW i \in 2..Len(history[w])
                 PROVE  \/ i = 2 /\ history[w][i].name = "first"
                        \/ i > 2 /\ i - 1 <= Len(log'[w]) /\ history[w][i] = Stage(log'[w][i - 1], "agent")
                        \/ i = Len(history[w]) /\ history[w][i].at = "ui" /\ rows[w].state \notin ActiveStates
      BY <1>1 DEF HistoryAt
    <3>1. CASE i > 2 /\ i - 1 <= Len(log[w]) /\ history[w][i] = Stage(log[w][i - 1], "agent")
      <4>1. i - 1 \in 1..Len(log[w]) /\ i - 1 <= Len(log'[w])
        BY <1>4, <1>8, <3>1
      <4>2. log'[w][i - 1] = log[w][i - 1]
        BY <1>8, <4>1
      <4>3. QED BY <3>1, <4>1, <4>2
    <3>2. QED BY <1>10, <3>1 DEF DataAt, HistoryAt
  <2>4. LogAt(w)'
    <3>1. log'[w][1] = "first"
      <4>1. CASE log[w] = <<>>
        BY <1>5, <1>8, <4>1
      <4>2. CASE log[w] # <<>>
        <5>1. 1 \in 1..Len(log[w])
          BY <1>4, <4>2
        <5>2. QED BY <1>8, <1>10, <4>2, <5>1 DEF DataAt, LogAt
      <4>3. QED BY <4>1, <4>2
    <3>2. ASSUME NEW i \in 1..(Len(log[w]) + 1)
          PROVE  log'[w][i] # "queued" /\ (i < Len(log[w]) + 1 => log'[w][i] \notin Verdicts)
      <4>1. CASE i = Len(log[w]) + 1
        BY <1>4, <1>5, <1>8, <4>1
      <4>2. CASE i \in 1..Len(log[w])
        <5>1. log'[w][i] = log[w][i] /\ log[w][i] # "queued" /\ (i < Len(log[w]) => log[w][i] \notin Verdicts)
          BY <1>8, <1>10, <4>2 DEF DataAt, LogAt
        <5>2. i = Len(log[w]) => log[w][i] \notin Verdicts
          BY <1>5, <4>2 DEF Last
        <5>3. QED BY <1>4, <4>2, <5>1, <5>2
      <4>3. QED BY <1>4, <4>1, <4>2
    <3>3. QED BY <1>8, <3>1, <3>2 DEF LogAt
  <2>5. VerdictAt(w)'
    BY <1>1, <1>5, <1>9, <1>10 DEF DataAt, VerdictAt, Verdicts
  <2>6. SafetyAt(w)'
    <3> SUFFICES ASSUME rows[w].kind = "restore", NEW i \in 1..(Len(log[w]) + 1), log'[w][i] \in {"write", "undo"}
                 PROVE  w \in indexed
      BY <1>1, <1>6, <1>7 DEF SafetyAt
    <3>1. CASE i \in 1..Len(log[w])
      BY <1>4, <1>8, <1>10, <3>1 DEF DataAt, SafetyAt
    <3>2. CASE i = Len(log[w]) + 1
      <4>1. name \in {"write", "undo"}
        BY <1>8, <3>2
      <4>2. busy.name \in {"prepare", "execute", "recover"} /\ CallOK(busy)
        BY <1>0, <1>1, <1>2, CallIsOfWork DEF CallsOK, CallOK, CallNames
      <4>3. log[w] # <<>> /\ Last(log[w]) \in {"saved", "write"}
        BY <1>5, <4>1, <4>2
      <4>4. CASE Last(log[w]) = "saved"
        <5>1. busy.name # "prepare"
          BY <1>2, <4>3, <4>4 DEF AgentLogs
        <5>2. QED BY <1>2, <4>2, <5>1 DEF CallOK
      <4>5. CASE Last(log[w]) = "write"
        <5>1. Len(log[w]) \in DOMAIN log[w] /\ log[w][Len(log[w])] = "write"
          BY <1>4, <4>3, <4>5 DEF Last
        <5>2. QED BY <1>10, <5>1 DEF DataAt, SafetyAt
      <4>6. QED BY <4>3, <4>4, <4>5
    <3>3. QED BY <1>4, <3>1, <3>2
  <2>7. QED BY <2>1, <2>2, <2>3, <2>4, <2>5, <2>6 DEF DataAt
<1>15. RunAt(w)'
  <2>1. TaskAt(w)'
    BY <1>1, <1>10 DEF RunAt, TaskAt
  <2>2. task[w].at \notin {"index", "prepared", "mirror", "call"}
    <3>1. task[w].at \notin {"index", "prepared"}
      <4> SUFFICES ASSUME task[w].at \in {"index", "prepared"}
                   PROVE  FALSE
        OBVIOUS
      <4>1. Len(log[w]) >= 2 /\ Last(log[w]) \in Verdicts
        BY <1>9, <1>10 DEF RunAt, ResultAt
      <4>2. QED BY <1>5, <4>1
    <3>2. task[w].at # "mirror"
      <4> SUFFICES ASSUME task[w].at = "mirror"
                   PROVE  FALSE
        OBVIOUS
      <4>1. Last(log[w]) \in Verdicts /\ task[w].mirrored < Len(log[w]) /\ task[w].mirrored \in Nat
        BY <1>0, <1>10, TypesAt DEF RunAt, ResultAt, MirroredAt
      <4>2. log[w] # <<>>
        BY <4>1
      <4>3. QED BY <1>5, <4>1, <4>2
    <3>3. task[w].at # "call"
      BY <1>9, <1>10 DEF RunAt, FirstAt
    <3>4. QED BY <3>1, <3>2, <3>3
  <2>3. MirroredAt(w)'
    BY <1>1, <1>10, <2>2 DEF RunAt, MirroredAt
  <2>4. ResultAt(w)' /\ FirstAt(w)'
    BY <1>1, <1>10, <2>2 DEF RunAt, ResultAt, FirstAt, FirstCall
  <2>5. QED BY <2>1, <2>3, <2>4 DEF RunAt
<1>16. Beside(w)
  BY <1>1, <1>7 DEF Beside, NoNewCall
<1>17. \A d \in Cases : ClosedAt(d)'
  BY <1>0, <1>1 DEF ClosedAt
<1>18. QED BY <1>11, <1>12, <1>13, <1>14, <1>15, <1>16, <1>17, Assembled

-------------------------------------------------------------------------------
(* The theorems. *)

\* At the start nothing has been asked for.
LEMMA InitIInv == Init => IInv
<1> SUFFICES ASSUME Init
             PROVE  IInv
  OBVIOUS
<1> USE DEF Init
<1>1. TypeOK
  <2>1. NoCase \in Cases \cup {NoCase} /\ 0 \in Cases /\ 0 \in 0..Verified /\ 0 \in 0..MaxWork /\ Budget \in 0..Budget
    BY DEF Cases, Verified
  <2>2. rows \in [Work -> Rows] /\ task \in [Work -> Tasks]
    BY <2>1, IdleTyped DEF Rows
  <2>3. cases \in [Cases -> {"none", "open", "resolved"}] /\ closedBy \in [Cases -> 0..Verified]
    BY <2>1
  <2>4. history \in [Work -> Seq(StageRecord)] /\ log \in [Work -> Seq(StageNames)]
    OBVIOUS
  <2>5. busy \in Calls /\ answer \in [call : Calls, result : Results]
    BY NoAnswerTyped DEF Calls
  <2>6. QED BY <2>1, <2>2, <2>3, <2>4, <2>5 DEF TypeOK, Rows, Tasks, StageRecord
<1>2. CallsOK /\ AnswerOK
  BY DEF CallsOK, AnswerOK, NoAnswer, NoResult
<1>3. ASSUME NEW w \in Work PROVE DataAt(w) /\ RunAt(w)
  <2>1. rows[w].state = "none" /\ rows[w].kind = "none" /\ history[w] = <<>> /\ log[w] = <<>> /\ task[w].at = "none"
    BY DEF Idle
  <2>2. Quiet(w)
    BY WorkIsNat DEF Quiet, NoCall
  <2>3. cases[w] = "none"
    BY WorkIsNat
  <2>4. HistoryAt(w) /\ LogAt(w) /\ SafetyAt(w)
    <3>1. (\A i \in 2..0 : FALSE) /\ (\A i \in 1..0 : FALSE) /\ Len(<<>>) = 0 /\ DOMAIN <<>> = {}
      OBVIOUS
    <3>2. QED BY <2>1, <3>1 DEF HistoryAt, LogAt, SafetyAt
  <2>5. UnbornAt(w) /\ LeaseAt(w) /\ VerdictAt(w) /\ CaseAt(w)
    BY <2>1, <2>2, <2>3, WorkIsNat DEF UnbornAt, LeaseAt, VerdictAt, CaseAt, ActiveStates, Started
  <2>6. RunAt(w)
    BY <2>1 DEF RunAt, TaskAt, MirroredAt, ResultAt, FirstAt, FirstPoints
  <2>7. QED BY <2>4, <2>5, <2>6 DEF DataAt
<1>4. \A c \in Cases : ClosedAt(c)
  BY DEF ClosedAt
<1>5. QED BY <1>1, <1>2, <1>3, <1>4 DEF IInv

\* A step of a run keeps the invariant.
LEMMA KeepsTaskStep ==
  ASSUME IInv, NEW w \in Work, TaskStep(w)
  PROVE  IInv'
<1>1. CASE CheckTwice(w) \/ Start(w) \/ TargetGone(w) \/ PrepareRestore(w) \/ ExecuteRestart(w)
  BY <1>1, KeepsCheckTwice, KeepsStart, KeepsTargetGone, KeepsCallAgent
<1>2. CASE Prepared(w) \/ Index(w) \/ MirrorPreparation(w)
  BY <1>2, KeepsPrepared, KeepsIndex, KeepsMirrorPreparation
<1>3. CASE Poll(w) \/ Completed(w) \/ Mirror(w) \/ MarkUncertain(w) \/ ResolveCase(w)
  BY <1>3, KeepsPoll, KeepsCompleted, KeepsMirror, KeepsMarkUncertain, KeepsResolveCase
<1>4. CASE ReconcileWork(w) \/ VerifySafety(w) \/ Recover(w) \/ Recovered(w)
  BY <1>4, KeepsReconcileWork, KeepsVerifySafety, KeepsRecover, KeepsRecovered
<1>5. QED BY <1>1, <1>2, <1>3, <1>4 DEF TaskStep

\* So does every other step.
LEMMA NextIInv == IInv /\ [Next]_vars => IInv'
<1> SUFFICES ASSUME IInv, [Next]_vars
             PROVE  IInv'
  OBVIOUS
<1>1. CASE QueueRestore \/ QueueRestart
  BY <1>1, KeepsQueue
<1>2. CASE \E w \in Work : TaskStep(w)
  BY <1>2, KeepsTaskStep
<1>3. CASE Verify
  BY <1>3, KeepsVerify
<1>4. CASE Reconcile
  BY <1>4, KeepsReconcile
<1>5. CASE UIDies \/ UIStarts
  BY <1>5, KeepsUIDies, KeepsUIStarts
<1>6. CASE Agent
  BY <1>6, KeepsTakeUp, KeepsAgentLogs, KeepsAgentAnswers, KeepsAgentDies DEF Agent, AgentRuns
<1>7. CASE UNCHANGED vars
  <2>1. UNCHANGED <<databaseVars, ui, task, log, left, sent, busy, answer>>
    BY <1>7 DEF vars, agentVars
  <2>2. left' \in 0..Budget
    BY <2>1 DEF IInv, TypeOK
  <2>3. QED BY <2>1, <2>2, AgentOnly
<1>8. QED BY <1>1, <1>2, <1>3, <1>4, <1>5, <1>6, <1>7 DEF Next

\* In every reachable state the database, the calls and what the runs know of them agree,
\* however many restores and restarts there are and whatever fails.
THEOREM RecoveryIsConsistent == Spec => []IInv
<1>1. Init => IInv
  BY InitIInv
<1>2. IInv /\ [Next]_vars => IInv'
  BY NextIInv
<1>3. QED BY <1>1, <1>2, PTL DEF Spec

\* The same part of two sequences that agree, one of them a place behind.
LEMMA SameStages ==
  ASSUME NEW S, NEW s \in Seq(S), NEW t \in Seq(S), NEW n \in Nat, n >= 2, n <= Len(s), n - 1 <= Len(t),
         \A i \in 2..n : s[i] = t[i - 1]
  PROVE  SubSeq(s, 2, n) = SubSeq(t, 1, n - 1)
<1>1. Len(s) \in Nat /\ Len(t) \in Nat
  OBVIOUS
<1>2. (\A i \in 2..n : s[i] \in S) /\ (\A i \in 1..(n - 1) : t[i] \in S)
  BY <1>1, ElementOfSeq
<1>3. /\ SubSeq(s, 2, n) \in Seq(S) /\ Len(SubSeq(s, 2, n)) = n - 1
      /\ \A i \in 1..(n - 1) : SubSeq(s, 2, n)[i] = s[i + 1]
  BY <1>2, SubSeqProperties
<1>4. /\ SubSeq(t, 1, n - 1) \in Seq(S) /\ Len(SubSeq(t, 1, n - 1)) = n - 1
      /\ \A i \in 1..(n - 1) : SubSeq(t, 1, n - 1)[i] = t[i]
  BY <1>2, SubSeqProperties
<1>5. \A i \in 1..(n - 1) : s[i + 1] = t[i]
  <2> SUFFICES ASSUME NEW i \in 1..(n - 1)
               PROVE  s[i + 1] = t[i]
    OBVIOUS
  <2>1. i + 1 \in 2..n /\ (i + 1) - 1 = i
    OBVIOUS
  <2>2. QED BY <2>1
<1>6. QED BY <1>3, <1>4, <1>5, SeqEqual

\* The stored stages are the Agent's first ones.
LEMMA EvidenceIsStored == IInv => HistoryIsEvidence
<1> SUFFICES ASSUME IInv, NEW w \in Work
             PROVE  LET names == [i \in 1..Len(history[w]) |-> history[w][i].name]
                        own == names # <<>> /\ Last(history[w]).at = "ui"
                        n == IF own THEN Len(names) - 1 ELSE Len(names)
                        stored == SubSeq(names, 2, n)
                    IN n >= 2 => IF log[w] = <<>> THEN stored = <<"first">>
                                 ELSE n - 1 <= Len(log[w]) /\ stored = SubSeq(log[w], 1, n - 1)
  BY DEF HistoryIsEvidence
<1> DEFINE names == [i \in 1..Len(history[w]) |-> history[w][i].name]
           own == names # <<>> /\ Last(history[w]).at = "ui"
           n == IF own THEN Len(names) - 1 ELSE Len(names)
<1>1. /\ history[w] \in Seq(StageRecord) /\ Len(history[w]) \in Nat /\ HistoryAt(w) /\ LogAt(w)
      /\ log[w] \in Seq(StageNames) /\ Len(log[w]) \in Nat
  BY TypesAt DEF IInv, DataAt
<1>2. names \in Seq(StageNames) /\ Len(names) = Len(history[w])
  <2>1. \A i \in 1..Len(history[w]) : history[w][i] \in StageRecord
    BY <1>1, ElementOfSeq
  <2>2. \A i \in 1..Len(history[w]) : history[w][i].name \in StageNames
    BY <2>1 DEF StageRecord
  <2>3. names \in [1..Len(history[w]) -> StageNames]
    BY <2>2
  <2>4. QED BY <1>1, <2>3, SeqDef
<1>3. n \in Int /\ n <= Len(names) /\ (own => n < Len(history[w])) /\ (~own => n = Len(history[w]))
  BY <1>1, <1>2
<1>4. ASSUME n >= 2, NEW i \in 2..n
      PROVE  \/ i = 2 /\ names[i] = "first"
             \/ i > 2 /\ i - 1 <= Len(log[w]) /\ names[i] = log[w][i - 1]
  <2>1. i \in 2..Len(history[w]) /\ names[i] = history[w][i].name
    BY <1>1, <1>2, <1>3
  <2>2. ~(i = Len(history[w]) /\ history[w][i].at = "ui")
    <3>1. CASE own
      BY <1>1, <1>3, <3>1
    <3>2. CASE ~own
      <4>1. names # <<>>
        BY <1>1, <1>2, <2>1
      <4>2. QED BY <3>2, <4>1 DEF Last
    <3>3. QED BY <3>1, <3>2
  <2>3. \/ i = 2 /\ history[w][i].name = "first"
        \/ i > 2 /\ i - 1 <= Len(log[w]) /\ history[w][i] = Stage(log[w][i - 1], "agent")
    BY <1>1, <2>1, <2>2 DEF HistoryAt
  <2>4. QED BY <2>1, <2>3 DEF Stage
<1> HIDE DEF names, n, own
<1>5. ASSUME n >= 2, log[w] = <<>> PROVE SubSeq(names, 2, n) = <<"first">>
  <2>1. n = 2
    <3>1. CASE n >= 3
      <4>1. 3 \in 2..n /\ Len(log[w]) = 0
        BY <1>3, <1>5, <3>1
      <4>2. QED BY <1>4, <1>5, <4>1
    <3>2. QED BY <1>3, <1>5, <3>1
  <2>2. names[2] = "first" /\ 2 <= Len(names)
    BY <1>3, <1>4, <1>5, <2>1
  <2>3. SubSeq(names, 2, 2) = SubSeq(<<"first">>, 1, 1)
    <3>1. <<"first">> \in Seq(StageNames) /\ Len(<<"first">>) = 1 /\ <<"first">>[1] = "first"
      BY DEF StageNames
    <3>2. \A i \in 2..2 : names[i] = <<"first">>[i - 1]
      BY <2>2, <3>1
    <3>3. QED BY <1>2, <2>2, <3>1, <3>2, SameStages
  <2>4. SubSeq(<<"first">>, 1, 1) = <<"first">>
    <3>1. <<"first">> \in Seq({"first"}) /\ Len(<<"first">>) = 1 /\ \A i \in 1..1 : <<"first">>[i] = "first"
      OBVIOUS
    <3>2. SubSeq(<<"first">>, 1, 1) \in Seq({"first"}) /\ Len(SubSeq(<<"first">>, 1, 1)) = 1
      BY <3>1, SubSeqProperties
    <3>3. \A i \in 1..1 : SubSeq(<<"first">>, 1, 1)[i] = <<"first">>[i]
      BY <3>1, <3>2, ElementOfSeq
    <3>4. QED BY <3>1, <3>2, <3>3, SeqEqual
  <2>5. QED BY <2>1, <2>3, <2>4
<1>6. ASSUME n >= 2, log[w] # <<>>
      PROVE  n - 1 <= Len(log[w]) /\ SubSeq(names, 2, n) = SubSeq(log[w], 1, n - 1)
  <2>1. log[w][1] = "first" /\ Len(log[w]) >= 1
    BY <1>1, <1>6 DEF LogAt
  <2>2. n \in Nat /\ n <= Len(names)
    BY <1>3, <1>6
  <2>3. n - 1 <= Len(log[w])
    <3>1. n \in 2..n
      BY <1>6, <2>2
    <3>2. n = 2 \/ n - 1 <= Len(log[w])
      BY <1>4, <1>6, <3>1
    <3>3. QED BY <1>1, <2>1, <2>2, <3>2
  <2>4. \A i \in 2..n : names[i] = log[w][i - 1]
    BY <1>4, <1>6, <2>1
  <2>5. QED BY <1>1, <1>2, <1>6, <2>2, <2>3, <2>4, SameStages
<1>7. QED BY <1>5, <1>6 DEF names, n, own

\* The database tells what the Agent did: the lease is the active work's, the stages are the
\* Agent's first ones, a certain verdict is the Agent's, no restore writes before its safety
\* backup is indexed, and every doubt has a case that only evidence closes.
THEOREM RecoveryTellsTheTruth == Spec => []RecoveryIsTold
<1>1. IInv => RecoveryIsTold
  <2> SUFFICES ASSUME IInv
               PROVE  RecoveryIsTold
    OBVIOUS
  <2>1. /\ \A w \in Work : LeaseAt(w) /\ VerdictAt(w) /\ SafetyAt(w) /\ CaseAt(w)
        /\ \A c \in Cases : ClosedAt(c)
    BY DEF IInv, DataAt
  <2>2. LeaseIsTheWorks /\ SafetyIsIndexed
    BY <2>1 DEF LeaseIsTheWorks, LeaseAt, SafetyIsIndexed, SafetyAt
  <2>3. VerdictIsTrue
    BY <2>1 DEF VerdictIsTrue, VerdictAt, Quiet
  <2>4. CasesAreSettled
    BY <2>1 DEF CasesAreSettled, CaseAt, ClosedAt
  <2>5. QED BY <2>2, <2>3, <2>4, EvidenceIsStored DEF RecoveryIsTold
<1>2. QED BY <1>1, RecoveryIsConsistent, PTL

\* A step of a run opens at most the case of its own work, and closes at most the one that
\* was given to it.
LEMMA RunMovesCases ==
  ASSUME NEW w \in Work, TaskStep(w)
  PROVE  \/ cases' = cases
         \/ task[w].at # "resolve" /\ cases' = [cases EXCEPT ![w] = "open"]
         \/ task[w].at = "resolve" /\ cases' = [cases EXCEPT ![rows[w].case] = "resolved"]
<1> DEFINE Moves == cases' = cases \/ cases' = [cases EXCEPT ![w] = "open"]
<1>1. ASSUME NEW stages, NEW state, Transition(w, stages, state) PROVE Moves
  BY <1>1 DEF Transition, OpenCase
<1>2. UNCHANGED databaseVars => Moves
  BY DEF databaseVars
<1>3. FailQueued(w) => Moves
  BY <1>1, <1>2 DEF FailQueued
<1>4. ASSUME NEW stages, NEW m, NEW k, MirrorUpTo(w, stages, m, k) PROVE Moves
  BY <1>1, <1>2, <1>4 DEF MirrorUpTo
<1> HIDE DEF Moves
<1>5. CASE CheckTwice(w) \/ TargetGone(w)
  <2>1. Moves /\ task[w].at # "resolve"
    BY <1>2, <1>3, <1>5 DEF CheckTwice, TargetGone
  <2>2. QED BY <2>1 DEF Moves
<1>6. CASE Start(w) \/ MarkUncertain(w)
  <2>1. Moves /\ task[w].at # "resolve"
    BY <1>1, <1>2, <1>6 DEF Start, MarkUncertain
  <2>2. QED BY <2>1 DEF Moves
<1>7. CASE PrepareRestore(w) \/ ExecuteRestart(w) \/ Prepared(w) \/ Index(w) \/ Completed(w) \/ Recover(w) \/ Recovered(w)
  BY <1>7 DEF PrepareRestore, ExecuteRestart, CallAgent, Prepared, Index, Completed, Recover, Recovered,
     databaseVars
<1>8. CASE MirrorPreparation(w) \/ Poll(w) \/ Mirror(w)
  <2>1. task[w].at # "resolve"
    BY <1>8 DEF MirrorPreparation, Poll, Executing, Mirror
  <2>2. Moves
    BY <1>4, <1>8 DEF MirrorPreparation, Poll, Mirror
  <2>3. QED BY <2>1, <2>2 DEF Moves
<1>9. CASE ReconcileWork(w) \/ VerifySafety(w)
  <2>1. Moves /\ task[w].at # "resolve"
    BY <1>2, <1>3, <1>9 DEF ReconcileWork, VerifySafety, Moves
  <2>2. QED BY <2>1 DEF Moves
<1>10. CASE ResolveCase(w)
  BY <1>10 DEF ResolveCase, Resolve, databaseVars
<1>11. QED BY <1>5, <1>6, <1>7, <1>8, <1>9, <1>10 DEF TaskStep

\* A case that evidence has closed is never opened again: only a row that still moves opens
\* its case, and such a row has none yet.
THEOREM ResolvedForever == Spec => CaseStaysResolved
<1>1. ASSUME IInv, [Next]_vars PROVE \A c \in Cases : cases[c] = "resolved" => cases'[c] = "resolved"
  <2>1. cases \in [Cases -> {"none", "open", "resolved"}]
    BY <1>1 DEF IInv, TypeOK
  <2>2. CASE \E w \in Work : TaskStep(w)
    <3>1. PICK w \in Work : TaskStep(w)
      BY <2>2
    <3>2. \/ cases' = cases
          \/ task[w].at # "resolve" /\ cases' = [cases EXCEPT ![w] = "open"]
          \/ task[w].at = "resolve" /\ cases' = [cases EXCEPT ![rows[w].case] = "resolved"]
      BY <3>1, RunMovesCases
    <3>3. task[w].at # "resolve" => cases[w] = "none"
      <4>1. task[w].at # "none" /\ RunAt(w) /\ DataAt(w)
        BY <1>1, <3>1 DEF TaskStep, IInv
      <4>2. QED BY <4>1 DEF RunAt, TaskAt, DataAt, CaseAt, ActiveStates
    <3>4. QED BY <2>1, <3>2, <3>3
  <2>3. CASE Verify
    <3>1. PICK c \in Cases : cases' = [cases EXCEPT ![c] = "resolved"]
      BY <2>3 DEF Verify, Resolve
    <3>2. QED BY <2>1, <3>1
  <2>4. CASE QueueRestore \/ QueueRestart
    BY <2>4 DEF QueueRestore, QueueRestart, Create
  <2>5. CASE Reconcile \/ UIDies \/ UIStarts
    BY <2>5 DEF Reconcile, UIDies, UIStarts, databaseVars
  <2>6. CASE Agent
    BY <2>6 DEF Agent, AgentRuns, TakeUp, AgentLogs, AgentAnswers, AgentDies, databaseVars
  <2>7. CASE UNCHANGED vars
    BY <2>7 DEF vars, databaseVars
  <2>8. QED BY <1>1, <2>2, <2>3, <2>4, <2>5, <2>6, <2>7 DEF Next
<1>2. IInv /\ [Next]_vars => [\A c \in Cases : cases[c] = "resolved" => cases'[c] = "resolved"]_vars
  BY <1>1
<1>3. QED BY <1>2, RecoveryIsConsistent, PTL DEF Spec, CaseStaysResolved
================================================================================
