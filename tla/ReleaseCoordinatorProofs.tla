----------------------- MODULE ReleaseCoordinatorProofs -----------------------
(***************************************************************************)
(* What the database says of a release is true, a start settles what an    *)
(* earlier life left, and the workspace follows its release: for every     *)
(* number of edits, with and without readers, and whatever may fail.       *)
(*                                                                         *)
(* The invariant follows a release through its task.  It is inductive      *)
(* because the Agent's log and what a call knows of it only grow and       *)
(* differ in the last stage at most until the log is past reading, because *)
(* an answer that can be used goes on with what was read along, and        *)
(* because production is not written between two calls; and because a row  *)
(* only ever moves on, so that a revision tells whether what was read of   *)
(* it is still so.                                                         *)
(***************************************************************************)
EXTENDS ReleaseCoordinator, SequenceTheorems, TLAPS

USE BoundsAssumption DEF BoundsAssumption

\* One sequence of stages begins with another.
Extends(long, short) == Len(short) <= Len(long) /\ \A i \in 1..Len(short) : long[i] = short[i]

\* The log and what is known of it begin as every release does.  At most the last stage of the log
\* is not known, and unless the log is past reading nothing else is.
Evidence(l, k, torn) ==
  /\ \A stages \in {l, k} : stages # <<>> => stages[1] = "rechecking"
  /\ ~torn => Extends(l, k)
  /\ Len(l) <= Len(k) + 1 /\ \A i \in 1..(Len(l) - 1) : k[i] = l[i]

\* Production is not written before the first stage is known, and an answer that waits tells what is
\* known still.
ServiceIsTrue ==
  /\ edited = FALSE /\ (known = <<>> => content = "production")
  /\ Evidence(log, known, spoiled)
  /\ busy => answer = NoAnswer
  /\ answer \notin {NoAnswer, Uncertain} => answer.stages = known
  /\ Agrees(answer.state)

\* The stages of a log, of which the first is the UI's to record.
Known(l) == IF l = <<>> THEN <<"rechecking">> ELSE l

\* The first n entries of a history are those of a log.
AgreesUpTo(h, l, n) ==
  /\ 1 <= n /\ n <= Len(h) /\ n - 1 <= Len(Known(l))
  /\ \A i \in 2..n : h[i] = Known(l)[i - 1]

\* They are what the Agent logged, or what it knew of.
OfTheAgent(n) == \E l \in {log, known} : AgreesUpTo(history, l, n)

\* A release that no Agent was asked for: not created, queued, or failed for that reason.
NeverRan == release.state \in {"none", "queued"} \/ history = <<"queued", "failed">>

\* The history is the Agent's, with at most a doubt of the UI behind it.
HistoryIsTheAgents ==
  /\ release.state = "none" <=> history = <<>>
  /\ release.state = "queued" => history = <<"queued">>
  /\ release.state # "none" =>
       /\ release.stage = LastStage(history) /\ release.state = StateOfStage(release.stage)
       /\ \/ OfTheAgent(Len(history))
          \/ release.state = "needs_attention" /\ OfTheAgent(Len(history) - 1)
          \/ history = <<"queued", "failed">>
  /\ release.state = "running" => Len(history) >= 2

\* The Agent works for an active release only; a verdict leaves it idle.
AgentIsAsked ==
  /\ NeverRan => log = <<>> /\ known = <<>> /\ ~busy
  /\ release.state \in {"succeeded", "failed", "rolled_back"} => ~busy
  /\ task \in {"index", "mirror"} => ~busy

\* Where a task is tells what the release is, and how much of the log was copied.
TaskAtRelease ==
  /\ task = "start" => release.state = "queued"
  /\ task \in {"call", "waiting", "recover", "recovering", "index", "mirror", "uncertain"} =>
       release.state \in {"running", "rolling_back"}
  /\ task \in {"outcome", "lock", "row"} => release.state \in TerminalStates
  /\ task \in {"lock", "row"} => release.state \in {"succeeded", "needs_attention"}
  /\ task = "call" => Len(history) = 2
  /\ task \in {"waiting", "index", "mirror"} /\ ~failing => mirrored = Len(history) - 1
  /\ failing => task \in {"waiting", "uncertain", "outcome", "lock", "row"}

\* An answer that is mirrored is what is known of the log and what the history goes on with, and
\* its backup is indexed before its verdict.
ResultIsTheLog ==
  /\ task \in {"index", "mirror"} =>
       /\ ValidResult(result, mirrored) /\ result.stages = known /\ Agrees(result.state)
       /\ AgreesUpTo(history, known, Len(history))
  /\ task = "mirror" /\ RequiresBackup(result) => indexed

\* Who is serving what.
StartInOrder ==
  /\ ui \in {"down", "workspaces"} => task = "none"
  /\ ui = "workspaces" => release.state \notin ActiveStates
  /\ lease <=> release.state \in ActiveStates
  /\ release.state \in {"succeeded", "rolled_back"} => indexed

\* What was read of the row is still so as long as the revision is.
ReadIsRow ==
  /\ task \in {"lock", "row"} =>
       read.revision <= row.revision /\ (read.revision = row.revision => read = row)
  /\ task = "row" => read.state = "ready" /\ read.draft = release.draft
  /\ lister.at = "mark" =>
       lister.revision <= row.revision /\ (lister.revision = row.revision => row.state = "ready")
  /\ lister.at = "write" => row.state # "ready"

\* Only the outcome of a release takes row and control file of a ready workspace apart.
ApartByOutcome ==
  row.state = "ready" /\ ~Opens => release.state \in {"succeeded", "needs_attention"}

IInv ==
  /\ TypeOK
  /\ ServiceIsTrue /\ HistoryIsTheAgents /\ AgentIsAsked /\ TaskAtRelease /\ ResultIsTheLog
  /\ VerdictIsTrue /\ StartInOrder /\ ReadIsRow /\ ApartByOutcome /\ WorkspaceFollowsRelease
-------------------------------------------------------------------------------
(* The vocabulary. *)

\* What StateOfStage makes of a stage.
LEMMA StateFacts ==
  ASSUME NEW s \in Stages
  PROVE  /\ StateOfStage(s) \in ReleaseStates
         /\ StateOfStage(s) = "queued" <=> s = "queued"
         /\ StateOfStage(s) \in TerminalStates <=> s \in TerminalStages
         /\ StateOfStage(s) = "succeeded" <=> s = "committed"
         /\ s \in {"failed", "rolled_back", "needs_attention"} => StateOfStage(s) = s
         /\ StateOfStage(s) = "needs_attention" => s = "needs_attention"
  BY DEF StateOfStage, Stages, ForwardStages, BeforeWriteStages, RollbackStages, ReleaseStates,
         TerminalStates, TerminalStages

\* The stages the proofs name are stages.
LEMMA StageNames ==
  /\ "queued" \in Stages /\ "rechecking" \in Stages /\ "failed" \in Stages
  /\ "needs_attention" \in Stages /\ "rolled_back" \in Stages /\ "rollback_applying" \in Stages
  /\ BeforeWriteStages \subseteq Stages /\ WriteStages \subseteq Stages /\ RollbackStages \subseteq Stages
  /\ ForwardStages \subseteq Stages /\ TerminalStages \subseteq Stages
  BY DEF Stages, ForwardStages, BeforeWriteStages, RollbackStages, WriteStages, TerminalStages

\* What is logged next is a stage.
LEMMA NextStageIsStage ==
  ASSUME NEW s \in Stages, NEW t \in NextStages(s)
  PROVE  t \in Stages
  BY StageNames DEF NextStages

\* What follows some stages is a stage, and the first is that of every release.
LEMMA SuccessorIsStage ==
  ASSUME NEW l \in Seq(Stages), NEW disturbed \in BOOLEAN, NEW s \in Successors(l, disturbed)
  PROVE  s \in Stages /\ (l = <<>> => s = "rechecking")
  <1>1. CASE l = <<>>
    BY <1>1, StageNames DEF Successors
  <1>2. CASE l # <<>>
    <2>1. LastStage(l) \in Stages
      BY <1>2 DEF LastStage
    <2>2. s \in NextStages(LastStage(l)) \/ s = "rollback_applying"
      BY <1>2 DEF Successors
    <2>3. QED
      BY <1>2, <2>1, <2>2, NextStageIsStage, StageNames
  <1>3. QED
    BY <1>1, <1>2

\* A log that grows begins with what it was.
LEMMA Longer ==
  ASSUME NEW l \in Seq(Stages), NEW s \in Stages
  PROVE  LET m == Append(l, s) IN
         /\ m \in Seq(Stages) /\ m # <<>> /\ Len(m) = Len(l) + 1 /\ Len(l) \in Nat
         /\ \A i \in 1..Len(l) : m[i] = l[i]
         /\ Extends(m, l) /\ Extends(l, l) /\ Extends(m, m)
         /\ m[1] = (IF l = <<>> THEN s ELSE l[1])
  <1> DEFINE m == Append(l, s)
  <1>1. /\ m \in Seq(Stages) /\ Len(m) = Len(l) + 1 /\ Len(l) \in Nat
        /\ \A i \in 1..Len(l) : m[i] = l[i]
        /\ m[Len(l) + 1] = s
    OBVIOUS
  <1> HIDE DEF m
  <1>2. m # <<>> /\ Extends(m, l) /\ Extends(l, l) /\ Extends(m, m)
    BY <1>1 DEF Extends
  <1>3. m[1] = (IF l = <<>> THEN s ELSE l[1])
    <2>1. CASE l = <<>>
      BY <1>1, <2>1
    <2>2. CASE l # <<>>
      BY <1>1, <2>2
    <2>3. QED
      BY <2>1, <2>2
  <1>4. QED
    BY <1>1, <1>2, <1>3 DEF m

\* The log is one stage ahead of what is known, or is known.
LEMMA EvidenceGrows ==
  ASSUME NEW l \in Seq(Stages), l # <<>> => l[1] = "rechecking", NEW disturbed \in BOOLEAN,
         NEW s \in Successors(l, disturbed), NEW torn \in BOOLEAN
  PROVE  Evidence(Append(l, s), l, torn) /\ Evidence(Append(l, s), Append(l, s), torn)
  <1>1. s \in Stages /\ (l = <<>> => s = "rechecking")
    BY SuccessorIsStage
  <1> DEFINE m == Append(l, s)
  <1>2. /\ m \in Seq(Stages) /\ m # <<>> /\ Len(m) = Len(l) + 1 /\ Len(l) \in Nat
        /\ \A i \in 1..Len(l) : m[i] = l[i]
        /\ Extends(m, l) /\ Extends(m, m) /\ m[1] = "rechecking"
    BY <1>1, Longer
  <1> HIDE DEF m
  <1>3. Evidence(m, l, torn) /\ Evidence(m, m, torn)
    BY <1>2 DEF Evidence
  <1>4. QED
    BY <1>3 DEF m

\* The log is read.
LEMMA EvidenceIsRead ==
  ASSUME NEW l \in Seq(Stages), l # <<>> => l[1] = "rechecking", NEW torn \in BOOLEAN
  PROVE  Evidence(l, l, torn)
  BY DEF Evidence, Extends

\* The log stays as it is, past reading, while the call goes on.
LEMMA EvidenceGoesOn ==
  ASSUME NEW l \in Seq(Stages), NEW k \in Seq(Stages), NEW torn \in BOOLEAN, Evidence(l, k, torn),
         NEW disturbed \in BOOLEAN, NEW s \in Successors(k, disturbed)
  PROVE  Evidence(l, Append(k, s), TRUE)
  <1>1. s \in Stages /\ (k = <<>> => s = "rechecking")
    BY SuccessorIsStage
  <1>2. Append(k, s) # <<>> => Append(k, s)[1] = "rechecking"
    BY <1>1, Longer DEF Evidence
  <1>3. Len(l) \in Nat /\ Len(k) \in Nat /\ Len(Append(k, s)) = Len(k) + 1
    BY <1>1, Longer
  <1>4. \A i \in 1..(Len(l) - 1) : Append(k, s)[i] = l[i]
    <2>1. \A i \in 1..(Len(l) - 1) : i \in 1..Len(k) /\ k[i] = l[i]
      BY <1>3 DEF Evidence
    <2>2. QED
      BY <1>1, <2>1, Longer
  <1>5. QED
    BY <1>2, <1>3, <1>4 DEF Evidence

\* A part of a log appended to a history.
LEMMA Appended ==
  ASSUME NEW h \in Seq(Stages), NEW l \in Seq(Stages),
         NEW m \in Nat, NEW k \in Nat, m <= k, k <= Len(l)
  PROVE  LET e == h \o SubSeq(l, m + 1, k) IN
         /\ SubSeq(l, m + 1, k) \in Seq(Stages)
         /\ e \in Seq(Stages) /\ Len(e) = Len(h) + k - m
         /\ \A i \in 1..Len(h) : e[i] = h[i]
         /\ \A i \in (Len(h) + 1)..Len(e) : e[i] = l[i - Len(h) + m]
  <1>1. SubSeq(l, m + 1, k) \in Seq(Stages) /\ Len(SubSeq(l, m + 1, k)) = k - m
    OBVIOUS
  <1>2. \A i \in 1..(k - m) : SubSeq(l, m + 1, k)[i] = l[m + i]
    OBVIOUS
  <1> DEFINE t == SubSeq(l, m + 1, k)
  <1> HIDE DEF t
  <1>3. /\ h \o t \in Seq(Stages) /\ Len(h \o t) = Len(h) + k - m
        /\ \A i \in 1..Len(h) : (h \o t)[i] = h[i]
        /\ \A i \in (Len(h) + 1)..Len(h \o t) : (h \o t)[i] = t[i - Len(h)]
    BY <1>1 DEF t
  <1>4. ASSUME NEW i \in (Len(h) + 1)..Len(h \o t)
        PROVE  (h \o t)[i] = l[i - Len(h) + m]
    BY <1>1, <1>2, <1>3 DEF t
  <1>5. QED
    BY <1>1, <1>3, <1>4 DEF t

-------------------------------------------------------------------------------
(* Types, by who keeps the state. *)

AnswerRecords  == [state : ReleaseStates \cup {"none"}, stages : Seq(Stages), backup : BOOLEAN]
ReleaseRecords == [state : ReleaseStates \cup {"none"}, stage : Stages \cup {"none"}, draft : 0..Edits]
RowRecords     == [state : WorkspaceStates, revision : Nat, draft : 0..Edits]
ControlRecords == [state : WorkspaceStates, revision : Nat]

ReleaseTypeOK ==
  release \in ReleaseRecords /\ history \in Seq(Stages) /\ lease \in BOOLEAN /\ indexed \in BOOLEAN

WorkspaceTypeOK ==
  row \in RowRecords /\ control \in ControlRecords /\ check \in [draft : 0..Edits, revision : Nat]

TaskTypeOK ==
  /\ ui \in {"down", "releases", "workspaces", "serving"} /\ task \in TaskPoints
  /\ mirrored \in Nat /\ failing \in BOOLEAN
  /\ result \in AnswerRecords /\ read \in RowRecords

ListerTypeOK == lister \in [at : {"idle", "mark", "write"}, revision : Nat]

\* The type invariant is that of each owner of state.
LEMMA TypeParts ==
  /\ TypeOK <=> ServiceTypeOK /\ ReleaseTypeOK /\ WorkspaceTypeOK /\ TaskTypeOK /\ ListerTypeOK
  /\ TypeOK' <=> ServiceTypeOK' /\ ReleaseTypeOK' /\ WorkspaceTypeOK' /\ TaskTypeOK' /\ ListerTypeOK'
  BY DEF TypeOK, ReleaseTypeOK, WorkspaceTypeOK, TaskTypeOK, ListerTypeOK, AnswerRecords,
         ReleaseRecords, RowRecords, ControlRecords

\* No answer is an answer, as far as types go.
LEMMA NoAnswerTyped == NoAnswer \in AnswerRecords
  BY DEF NoAnswer, AnswerRecords

\* What happens to the evidence: it is read, a stage goes into the log, or one that does not.
LEMMA EvidenceMoves ==
  ASSUME ServiceTypeOK, Work \/ CallEnds \/ AgentDies \/ CallBegins
  PROVE  /\ edited' = edited
         /\ \/ /\ log' = log /\ spoiled' \in {spoiled, TRUE}
               /\ known' = known \/ (known' = log /\ ~spoiled)
            \/ /\ ~spoiled /\ ~spoiled' /\ known' \in {log, log'}
               /\ \E s \in Successors(log, edited) : log' = Append(log, s)
            \/ /\ log' = log /\ spoiled' = TRUE
               /\ \E s \in Successors(known, edited) : known' = Append(known, s)
  <1> DEFINE Stays == /\ log' = log /\ spoiled' \in {spoiled, TRUE}
                      /\ known' = known \/ (known' = log /\ ~spoiled)
             Grown == /\ ~spoiled /\ ~spoiled' /\ known' \in {log, log'}
                        /\ \E s \in Successors(log, edited) : log' = Append(log, s)
             Beyond == /\ log' = log /\ spoiled' = TRUE
                       /\ \E s \in Successors(known, edited) : known' = Append(known, s)
  <1>1. ASSUME Grows PROVE Grown \/ Beyond
    <2>1. PICK s \in Successors(known, edited) :
             IF spoiled \/ log # known
             THEN known' = Append(known, s) /\ spoiled' = TRUE /\ log' = log
             ELSE log' = Append(log, s) /\ known' \in {known, log'} /\ spoiled' = spoiled
      BY <1>1 DEF Grows
    <2>2. CASE spoiled \/ log # known
      BY <2>1, <2>2
    <2>3. CASE ~(spoiled \/ log # known)
      BY <2>1, <2>3
    <2>4. QED
      BY <2>2, <2>3
  <1>2. ASSUME ~spoiled, CatchesUp \/ Tears \/ UNCHANGED <<log, spoiled>>, known' \in {log, log'}
        PROVE  Stays \/ Grown
    BY <1>2 DEF CatchesUp, Tears
  <1>3. ASSUME UNCHANGED evidenceVars PROVE Stays
    BY <1>3 DEF evidenceVars
  <1>4. ASSUME Tears, UNCHANGED known PROVE Stays
    BY <1>4 DEF Tears
  <1> HIDE DEF Stays, Grown, Beyond
  <1> SUFFICES edited' = edited /\ (Stays \/ Grown \/ Beyond)
    BY DEF Stays, Grown, Beyond
  <1>5. CASE Work
    <2>1. edited' = edited
      BY <1>5 DEF Work
    <2>2. UNCHANGED evidenceVars \/ Reads \/ Grows \/ (Tears /\ UNCHANGED known)
      BY <1>5 DEF Work, Logs
    <2>3. CASE Reads
      BY <1>2, <2>1, <2>3 DEF Reads
    <2>4. QED
      BY <1>1, <1>3, <1>4, <2>1, <2>2, <2>3
  <1>6. CASE CallEnds
    <2>1. edited' = edited
      BY <1>6 DEF CallEnds
    <2>2. \/ UNCHANGED evidenceVars \/ Grows \/ (Tears /\ UNCHANGED known)
          \/ ~spoiled /\ (CatchesUp \/ Tears \/ UNCHANGED <<log, spoiled>>) /\ known' = log
      BY <1>6 DEF CallEnds
    <2>3. QED
      BY <1>1, <1>2, <1>3, <1>4, <2>1, <2>2
  <1>7. CASE AgentDies \/ CallBegins
    <2>1. edited' = edited /\ UNCHANGED evidenceVars
      BY <1>7 DEF AgentDies, CallBegins
    <2>2. QED
      BY <1>3, <2>1
  <1>8. QED
    BY <1>5, <1>6, <1>7

\* A log is past reading or not.
LEMMA SpoiledTyped ==
  ASSUME ServiceTypeOK, Work \/ CallEnds \/ AgentDies \/ CallBegins
  PROVE  spoiled' \in BOOLEAN
  <1>1. spoiled' \in {spoiled, TRUE}
    <2>1. Tears \/ Grows \/ CatchesUp => spoiled' \in {spoiled, TRUE}
      BY DEF Tears, Grows, CatchesUp
    <2>2. QED
      BY <2>1 DEF Work, Reads, Logs, CallEnds, AgentDies, CallBegins, evidenceVars
  <1>2. QED
    BY <1>1 DEF ServiceTypeOK

\* The evidence keeps its types.
LEMMA EvidenceTyped ==
  ASSUME ServiceTypeOK, Work \/ CallEnds \/ AgentDies \/ CallBegins
  PROVE  log' \in Seq(Stages) /\ known' \in Seq(Stages) /\ spoiled' \in BOOLEAN /\ edited' \in BOOLEAN
  <1>1. log \in Seq(Stages) /\ known \in Seq(Stages) /\ spoiled \in BOOLEAN /\ edited \in BOOLEAN
    BY DEF ServiceTypeOK
  <1>2. \A s \in Successors(log, edited) : Append(log, s) \in Seq(Stages)
    BY <1>1, SuccessorIsStage
  <1>3. \A s \in Successors(known, edited) : Append(known, s) \in Seq(Stages)
    BY <1>1, SuccessorIsStage
  <1>4. spoiled' \in BOOLEAN
    BY <1>1, SpoiledTyped
  <1>5. QED
    BY <1>1, <1>2, <1>3, <1>4, EvidenceMoves

\* The steps of the Agent preserve its types.
LEMMA ServiceTyped ==
  ASSUME ServiceTypeOK, Work \/ CallEnds \/ AgentDies \/ CallBegins
  PROVE  ServiceTypeOK'
  <1>0. log' \in Seq(Stages) /\ known' \in Seq(Stages) /\ spoiled' \in BOOLEAN /\ edited' \in BOOLEAN
    BY EvidenceTyped
  <1>1. CASE Work
    BY <1>0, <1>1 DEF Work, Reads, Logs, ServiceTypeOK
  <1>2. CASE CallEnds
    <2>1. \A a \in Answers(known') : a \in AnswerRecords
      BY <1>0 DEF Answers, ReleaseStates, AnswerRecords
    <2>2. Uncertain \in AnswerRecords
      <3>1. <<"needs_attention">> \in Seq(Stages)
        BY StageNames
      <3>2. QED
        BY <3>1 DEF Uncertain, ReleaseStates, AnswerRecords
    <2>3. answer' \in AnswerRecords
      BY <1>2, <2>1, <2>2, NoAnswerTyped DEF CallEnds
    <2>4. QED
      BY <1>0, <1>2, <2>3 DEF CallEnds, ServiceTypeOK, AnswerRecords
  <1>3. CASE AgentDies
    BY <1>0, <1>3, NoAnswerTyped DEF AgentDies, ServiceTypeOK, AnswerRecords
  <1>4. CASE CallBegins
    BY <1>0, <1>4, NoAnswerTyped DEF CallBegins, ServiceTypeOK, AnswerRecords
  <1>5. QED
    BY <1>1, <1>2, <1>3, <1>4

\* A task that moves on or ends, and a startup that goes on or does not.
LEMMA TaskMoves ==
  ASSUME TaskTypeOK, Succeed \/ Fail \/ EndOutcome \/ \E point \in TaskPoints : GotoTask(point)
  PROVE  TaskTypeOK'
  <1>1. Unread \in RowRecords
    BY DEF Unread, RowRecords, WorkspaceStates
  <1>2. CASE Succeed \/ Fail \/ EndOutcome
    <2>1. /\ task' = "none" /\ mirrored' = 0 /\ failing' = FALSE /\ result' = NoAnswer /\ read' = Unread
          /\ ui' \in {"workspaces", "down", ui}
      BY <1>2 DEF EndOutcome, Succeed, Fail, EndTask
    <2>2. QED
      BY <1>1, <2>1, NoAnswerTyped DEF TaskTypeOK, TaskPoints
  <1>3. CASE \E point \in TaskPoints : GotoTask(point)
    BY <1>3 DEF GotoTask, TaskTypeOK
  <1>4. QED
    BY <1>2, <1>3

\* A row that is updated is the next row, in the given state.
LEMMA UpdateTyped ==
  ASSUME WorkspaceTypeOK, NEW revision, NEW state \in WorkspaceStates, UpdateRow(revision, state)
  PROVE  /\ row' \in RowRecords /\ ControlOf(row') \in ControlRecords
         /\ row'.state = state /\ row'.revision = row.revision + 1 /\ row'.draft = row.draft
         /\ row.revision = revision
         /\ UNCHANGED <<check, release, history, lease, indexed>>
  <1>1. row \in RowRecords /\ row.revision = revision /\ revision \in Nat
    BY DEF UpdateRow, WorkspaceTypeOK, RowRecords
  <1>2. row' = [row EXCEPT !.state = state, !.revision = revision + 1]
    BY DEF UpdateRow
  <1>3. row' \in RowRecords /\ row'.state = state /\ row'.revision = revision + 1 /\ row'.draft = row.draft
    <2>1. row.state \in WorkspaceStates /\ row.draft \in 0..Edits /\ revision + 1 \in Nat
      BY <1>1 DEF RowRecords
    <2>2. row'.state = state /\ row'.revision = revision + 1 /\ row'.draft = row.draft
      BY <1>1, <1>2 DEF RowRecords
    <2>3. row' = [state |-> state, revision |-> revision + 1, draft |-> row.draft]
      BY <1>1, <1>2 DEF RowRecords
    <2>4. QED
      BY <2>1, <2>2, <2>3 DEF RowRecords
  <1>4. ControlOf(row') \in ControlRecords
    BY <1>3 DEF RowRecords, ControlRecords, ControlOf
  <1>5. QED
    BY <1>1, <1>3, <1>4 DEF UpdateRow

\* The control file of a row has its type.
LEMMA ControlTyped == ASSUME NEW r \in RowRecords PROVE ControlOf(r) \in ControlRecords
  BY DEF RowRecords, ControlRecords, ControlOf

\* Recorded stages end in the stage of the release.
LEMMA RecordTyped ==
  ASSUME ReleaseTypeOK, NEW s \in Seq(Stages), s # <<>>, NEW state \in ReleaseStates, Record(s, state)
  PROVE  /\ ReleaseTypeOK'
         /\ release'.state = state /\ release'.stage = s[Len(s)] /\ release'.stage = LastStage(history')
         /\ release'.draft = release.draft
         /\ UNCHANGED <<check, indexed, row>>
  <1>1. history' \in Seq(Stages) /\ history'[Len(history')] = s[Len(s)] /\ s[Len(s)] \in Stages
    BY DEF Record, ReleaseTypeOK
  <1>2. QED
    BY <1>1 DEF Record, ReleaseTypeOK, ReleaseRecords, LastStage

\* The stages that are recorded alone.
LEMMA RecordOne ==
  ASSUME ReleaseTypeOK, NEW s \in {"rechecking", "needs_attention", "failed"},
         NEW state \in {"running", "needs_attention", "failed"}, Record(<<s>>, state)
  PROVE  /\ ReleaseTypeOK' /\ history' = Append(history, s)
         /\ release'.state = state /\ release'.stage = s /\ release'.draft = release.draft
         /\ UNCHANGED <<check, indexed, row>>
  <1>1. s \in Stages /\ state \in ReleaseStates
    BY StageNames DEF ReleaseStates
  <1>2. <<s>> \in Seq(Stages) /\ <<s>> # <<>> /\ Len(<<s>>) = 1 /\ <<s>>[1] = s
    BY <1>1
  <1>3. history' = Append(history, s)
    BY <1>1 DEF Record, ReleaseTypeOK
  <1>4. QED
    BY <1>1, <1>2, <1>3, RecordTyped

\* What Poll and Mirror copy: the stages m + 1 to k of a log.
LEMMA CopyTyped ==
  ASSUME ReleaseTypeOK, NEW l \in Seq(Stages), NEW m \in Nat, NEW k \in Nat, m < k, k <= Len(l),
         Record(SubSeq(l, m + 1, k), StateOfStage(l[k]))
  PROVE  /\ ReleaseTypeOK'
         /\ release'.state = StateOfStage(l[k]) /\ release'.stage = l[k] /\ l[k] \in Stages
         /\ release'.stage = LastStage(history') /\ release'.draft = release.draft
         /\ UNCHANGED <<check, indexed, row>>
  <1> DEFINE s == SubSeq(l, m + 1, k)
  <1>1. s \in Seq(Stages) /\ s # <<>> /\ s[Len(s)] = l[k]
    OBVIOUS
  <1>2. l[k] \in Stages /\ StateOfStage(l[k]) \in ReleaseStates
    BY StateFacts
  <1>3. QED
    BY <1>1, <1>2, RecordTyped

\* All of a log but a verdict at its end can be copied while the call lasts.
LEMMA CountBounds ==
  ASSUME NEW l \in Seq(Stages)
  PROVE  /\ NonTerminalCount(l) \in Nat /\ NonTerminalCount(l) <= Len(l)
         /\ \A i \in 1..NonTerminalCount(l) :
              i = NonTerminalCount(l) /\ i = Len(l) => l[i] \notin TerminalStages
  <1>1. Len(l) \in Nat /\ (l # <<>> => Len(l) > 0)
    OBVIOUS
  <1>2. QED
    BY <1>1 DEF NonTerminalCount, LastStage

\* Poll and Mirror, each with the number of stages it gets to.
LEMMA PollCopies ==
  ASSUME TypeOK, Poll
  PROVE  /\ task = "waiting" /\ ~failing /\ ValidProgress(log, mirrored)
         /\ log \in Seq(Stages) /\ mirrored \in Nat
         /\ \E k \in Nat :
              /\ mirrored <= k /\ k <= Len(log) /\ k <= NonTerminalCount(log)
              /\ \/ k = mirrored /\ UNCHANGED databaseVars
                 \/ k > mirrored /\ Record(SubSeq(log, mirrored + 1, k), StateOfStage(log[k]))
              /\ IF k = NonTerminalCount(log) THEN mirrored' = k /\ UNCHANGED failing
                 ELSE failing' = TRUE /\ UNCHANGED mirrored
         /\ UNCHANGED <<serviceVars, control, ui, task, result, read, lister>>
  <1>1. log \in Seq(Stages) /\ mirrored \in Nat
    BY TypeParts DEF ServiceTypeOK, TaskTypeOK
  <1>2. NonTerminalCount(log) \in Nat /\ NonTerminalCount(log) <= Len(log) /\ Len(log) \in Nat
    BY <1>1, CountBounds
  <1>3. mirrored < NonTerminalCount(log)
    BY <1>1, <1>2 DEF Poll
  <1>4. PICK k \in mirrored..NonTerminalCount(log) :
           /\ IF k = mirrored THEN UNCHANGED databaseVars
              ELSE Record(SubSeq(log, mirrored + 1, k), StateOfStage(log[k]))
           /\ IF k = NonTerminalCount(log) THEN mirrored' = k /\ UNCHANGED failing
              ELSE failing' = TRUE /\ UNCHANGED mirrored
    BY <1>1, <1>2, <1>3 DEF Poll
  <1>5. k \in Nat /\ mirrored <= k /\ k <= Len(log) /\ k <= NonTerminalCount(log)
    BY <1>1, <1>2, <1>4
  <1>6. \/ k = mirrored /\ UNCHANGED databaseVars
        \/ k > mirrored /\ Record(SubSeq(log, mirrored + 1, k), StateOfStage(log[k]))
    BY <1>1, <1>4, <1>5
  <1>7. QED
    BY <1>1, <1>4, <1>5, <1>6 DEF Poll

\* The same of an answer that is mirrored.
LEMMA MirrorCopies ==
  ASSUME TypeOK, Len(result.stages) >= mirrored, Mirror
  PROVE  /\ task = "mirror" /\ result.stages \in Seq(Stages) /\ mirrored \in Nat
         /\ \E k \in Nat :
              /\ mirrored <= k /\ k <= Len(result.stages)
              /\ \/ k = mirrored /\ UNCHANGED databaseVars
                 \/ k > mirrored /\ Record(SubSeq(result.stages, mirrored + 1, k), StateOfStage(result.stages[k]))
              /\ \/ k = Len(result.stages) /\ GotoTask("outcome")
                 \/ k # Len(result.stages) /\ Fail
         /\ UNCHANGED <<serviceVars, control, lister>>
  <1>1. result.stages \in Seq(Stages) /\ mirrored \in Nat /\ Len(result.stages) \in Nat
    BY TypeParts DEF TaskTypeOK, AnswerRecords
  <1>2. PICK k \in mirrored..Len(result.stages) \cup {Len(result.stages)} :
           /\ IF k = mirrored THEN UNCHANGED databaseVars
              ELSE Record(SubSeq(result.stages, mirrored + 1, k), StateOfStage(result.stages[k]))
           /\ IF k = Len(result.stages) THEN GotoTask("outcome") ELSE Fail
    BY <1>1 DEF Mirror
  <1>3. k \in Nat /\ k <= Len(result.stages)
    BY <1>1, <1>2
  <1>7. QED
    BY <1>1, <1>2, <1>3 DEF Mirror

-------------------------------------------------------------------------------
(* Parts of the invariant that a step leaves alone. *)

\* What is true of the Agent stays so while it does nothing.
LEMMA ServiceFrame ==
  ASSUME ServiceIsTrue, UNCHANGED serviceVars
  PROVE  ServiceIsTrue'
  BY DEF ServiceIsTrue, serviceVars, Agrees

\* So does what is true of the history while neither it nor what is known of the log changes.
LEMMA HistoryFrame ==
  ASSUME HistoryIsTheAgents, UNCHANGED <<log, known, release, history>>
  PROVE  HistoryIsTheAgents'
  BY DEF HistoryIsTheAgents, OfTheAgent

\* So does what is true of the answer that is mirrored.
LEMMA ResultFrame ==
  ASSUME ResultIsTheLog, UNCHANGED <<known, content, edited, release, history, result, mirrored, indexed, task>>
  PROVE  ResultIsTheLog'
  BY DEF ResultIsTheLog, ValidResult, ValidProgress, RequiresBackup, Agrees

\* The row, the control file and whoever read the row.
WorkspaceIsTrue == ReadIsRow /\ ApartByOutcome /\ WorkspaceFollowsRelease

\* So does what is true of the workspace, whoever stops waiting for its row, as long as the
\* release it follows stays.
LEMMA WorkspaceFrame ==
  ASSUME WorkspaceIsTrue, UNCHANGED <<row, control>>,
         \/ UNCHANGED lister
         \/ lister' = Idle,
         \/ UNCHANGED <<task, read>>
         \/ task' \notin {"lock", "row"},
         release.state \in {"succeeded", "needs_attention"} => UNCHANGED <<release>>,
         task \in {"lock", "row"} => UNCHANGED <<release>>,
         release.state = "succeeded" => UNCHANGED content
  PROVE  WorkspaceIsTrue'
  BY DEF WorkspaceIsTrue, ReadIsRow, ApartByOutcome, WorkspaceFollowsRelease, PublishedIsProduction,
         AttentionHasCause, Opens, ControlOf, Idle

\* The release, the Agent and the task.
ReleaseIsTrue ==
  /\ HistoryIsTheAgents /\ AgentIsAsked /\ TaskAtRelease /\ ResultIsTheLog /\ VerdictIsTrue
  /\ StartInOrder

\* The task is over, for this life of the process or for good, or was never there.
LEMMA EndFrame ==
  ASSUME ReleaseIsTrue, UNCHANGED <<log, known, content, edited, release, history, lease, indexed>>,
         busy' = busy, task' = "none", failing' = FALSE,
         ui' = "workspaces" => release.state \notin ActiveStates
  PROVE  ReleaseIsTrue'
  <1>1. HistoryIsTheAgents'
    BY HistoryFrame DEF ReleaseIsTrue
  <1>2. AgentIsAsked' /\ TaskAtRelease' /\ ResultIsTheLog' /\ VerdictIsTrue' /\ StartInOrder'
    BY DEF ReleaseIsTrue, AgentIsAsked, TaskAtRelease, ResultIsTheLog, VerdictIsTrue, StartInOrder,
           NeverRan, Agrees, TerminalStates
  <1>3. QED
    BY <1>1, <1>2 DEF ReleaseIsTrue

\* The invariant is that of the Agent, of the release and of the workspace.
LEMMA InvariantParts ==
  /\ IInv <=> TypeOK /\ ServiceIsTrue /\ ReleaseIsTrue /\ WorkspaceIsTrue
  /\ IInv' <=> TypeOK' /\ ServiceIsTrue' /\ ReleaseIsTrue' /\ WorkspaceIsTrue'
  BY DEF IInv, ReleaseIsTrue, WorkspaceIsTrue

\* What an invariant state is known to be.
LEMMA Invariants ==
  ASSUME IInv
  PROVE  /\ TypeOK /\ ServiceTypeOK /\ ReleaseTypeOK /\ WorkspaceTypeOK /\ TaskTypeOK /\ ListerTypeOK
         /\ ServiceIsTrue /\ ReleaseIsTrue /\ WorkspaceIsTrue
  BY InvariantParts, TypeParts

\* The task ends, and nothing else happens: with an error, or with a release that is settled.
LEMMA EndStep ==
  ASSUME IInv, Fail \/ (Succeed /\ release.state \notin ActiveStates), ui # "workspaces",
         UNCHANGED <<serviceVars, databaseVars, control, lister>>
  PROVE  IInv'
  <1>1. /\ task' = "none" /\ failing' = FALSE
        /\ ui' = "workspaces" => release.state \notin ActiveStates
        /\ UNCHANGED <<log, known, spoiled, busy, reading, answer, content, edited, check, release, history, lease, indexed, row, control, lister>>
    BY DEF Fail, Succeed, EndTask, serviceVars, databaseVars
  <1>2. TypeOK'
    BY <1>1, Invariants, TaskMoves, TypeParts
    DEF ServiceTypeOK, ReleaseTypeOK, WorkspaceTypeOK, ListerTypeOK
  <1>3. ServiceIsTrue'
    BY Invariants, ServiceFrame
  <1>4. ReleaseIsTrue'
    BY <1>1, Invariants, EndFrame
  <1>5. WorkspaceIsTrue'
    BY <1>1, Invariants, WorkspaceFrame
  <1>6. QED
    BY <1>2, <1>3, <1>4, <1>5, InvariantParts

-------------------------------------------------------------------------------
(* Recording. *)

\* The history of an active release is the Agent's, to its end.
LEMMA ActiveHistory ==
  ASSUME TypeOK, HistoryIsTheAgents, release.state \in {"running", "rolling_back"}
  PROVE  /\ OfTheAgent(Len(history)) /\ Len(history) \in Nat /\ Len(history) >= 1
         /\ release.stage = history[Len(history)] /\ release.stage \in Stages
         /\ release.stage \notin TerminalStages /\ release.stage # "queued"
         /\ ~NeverRan
  <1>1. history \in Seq(Stages) /\ release.stage = LastStage(history) /\ release.state = StateOfStage(release.stage)
    BY TypeParts DEF HistoryIsTheAgents, ReleaseTypeOK
  <1>2. history # <<"queued", "failed">>
    <2>1. LastStage(<<"queued", "failed">>) = "failed"
      BY DEF LastStage
    <2>2. StateOfStage("failed") = "failed"
      BY StageNames, StateFacts
    <2>3. QED
      BY <1>1, <2>1, <2>2
  <1>3. OfTheAgent(Len(history)) /\ Len(history) \in Nat /\ Len(history) >= 1
    BY <1>1, <1>2 DEF HistoryIsTheAgents, OfTheAgent, AgreesUpTo
  <1>4. release.stage = history[Len(history)] /\ release.stage \in Stages
    BY <1>1, <1>3 DEF LastStage
  <1>5. release.stage \notin TerminalStages /\ release.stage # "queued"
    BY <1>1, <1>4, StateFacts DEF TerminalStates
  <1>6. QED
    BY <1>2, <1>3, <1>4, <1>5 DEF NeverRan

\* What agrees with a log agrees with every longer one.
LEMMA StillAgrees ==
  ASSUME NEW h \in Seq(Stages), NEW l \in Seq(Stages), NEW m \in Seq(Stages), NEW n \in Int,
         AgreesUpTo(h, l, n), Extends(m, l), m # <<>> => m[1] = "rechecking"
  PROVE  AgreesUpTo(h, m, n)
  <1>1. Len(l) \in Nat /\ Len(m) \in Nat /\ Len(l) <= Len(m) /\ \A i \in 1..Len(l) : m[i] = l[i]
    BY DEF Extends
  <1>2. CASE l = <<>>
    <2>1. Known(l) = <<"rechecking">> /\ Len(Known(l)) = 1 /\ Known(l)[1] = "rechecking"
      BY <1>2 DEF Known
    <2>2. Len(Known(m)) >= 1 /\ Known(m)[1] = "rechecking"
      <3>1. CASE m = <<>>
        BY <3>1 DEF Known
      <3>2. CASE m # <<>>
        BY <3>2 DEF Known
      <3>3. QED
        BY <3>1, <3>2
    <2>3. Len(Known(m)) \in Nat /\ n <= 2
      <3>1. Known(m) \in Seq(Stages)
        BY StageNames DEF Known
      <3>2. QED
        BY <2>1, <3>1 DEF AgreesUpTo
    <2>4. QED
      BY <2>1, <2>2, <2>3 DEF AgreesUpTo
  <1>3. CASE l # <<>>
    <2>1. m # <<>> /\ Known(l) = l /\ Known(m) = m
      BY <1>1, <1>3 DEF Known
    <2>2. QED
      BY <1>1, <2>1 DEF AgreesUpTo
  <1>4. QED
    BY <1>2, <1>3

\* Stages of a log that follow those in the history are copied behind them.
LEMMA CopyIsEvidence ==
  ASSUME NEW h \in Seq(Stages), NEW l \in Seq(Stages), l # <<>>, AgreesUpTo(h, l, Len(h)),
         NEW m \in Nat, m = Len(h) - 1, NEW k \in Nat, m < k, k <= Len(l)
  PROVE  LET e == h \o SubSeq(l, m + 1, k) IN Len(e) = k + 1 /\ AgreesUpTo(e, l, Len(e))
  <1> DEFINE e == h \o SubSeq(l, m + 1, k)
  <1>1. Known(l) = l
    BY DEF Known
  <1>2. /\ Len(e) = Len(h) + k - m /\ e \in Seq(Stages)
        /\ \A i \in 1..Len(h) : e[i] = h[i]
        /\ \A i \in (Len(h) + 1)..Len(e) : e[i] = l[i - Len(h) + m]
    BY Appended
  <1> HIDE DEF e
  <1>3. /\ Len(e) = k + 1 /\ Len(h) = m + 1
        /\ \A i \in 1..(m + 1) : e[i] = h[i]
        /\ \A i \in (m + 2)..(k + 1) : e[i] = l[i - (m + 1) + m]
    BY <1>2
  <1>4. ASSUME NEW i \in 2..(k + 1)
        PROVE  e[i] = l[i - 1]
    <2>1. CASE i <= m + 1
      BY <1>1, <1>3, <2>1 DEF AgreesUpTo
    <2>2. CASE i > m + 1
      BY <1>3, <2>2
    <2>3. QED
      BY <2>1, <2>2
  <1>5. AgreesUpTo(e, l, Len(e))
    BY <1>1, <1>3, <1>4 DEF AgreesUpTo
  <1>6. QED
    BY <1>3, <1>5 DEF e

\* No stage that is copied is the one a release begins with.
LEMMA CopiedStage ==
  ASSUME NEW l \in Seq(Stages), NEW m \in Nat, ValidProgress(l, m), NEW k \in Nat, m < k, k <= Len(l)
  PROVE  l[k] # "queued" /\ (l[k] \in TerminalStages => k = Len(l))
  <1>1. 1 \in DOMAIN l /\ k \in DOMAIN l /\ 1 < k
    BY DEF ValidProgress
  <1>2. StageOrder(l[1]) <= StageOrder(l[k]) /\ l[1] = "rechecking"
    BY <1>1 DEF ValidProgress, InOrder
  <1>3. StageOrder("rechecking") = 1 /\ StageOrder("queued") = 0
    BY DEF StageOrder
  <1>4. QED
    BY <1>1, <1>2, <1>3 DEF ValidProgress

\* Which states are active.
LEMMA ActiveState ==
  ASSUME NEW s \in Stages, s \notin TerminalStages, s # "queued"
  PROVE  StateOfStage(s) \in {"running", "rolling_back"}
  BY StateFacts DEF TerminalStates, ReleaseStates

\* An answer that can be used tells what is known, of an Agent that is idle.
LEMMA UsableAnswer ==
  ASSUME ServiceIsTrue, NEW a \in {answer, NoAnswer}, NEW n \in Nat, ValidResult(a, n)
  PROVE  a = answer /\ a.stages = known /\ known # <<>> /\ ~busy /\ Agrees(a.state)
  <1>1. a.stages[1] = "rechecking" /\ Len(a.stages) >= n /\ n >= 1
    BY DEF ValidResult, ValidProgress
  <1>2. a # NoAnswer
    <2>1. NoAnswer.stages = <<>> /\ Len(<<>>) = 0
      BY DEF NoAnswer
    <2>2. QED
      BY <1>1, <2>1
  <1>3. a # Uncertain
    BY <1>1 DEF Uncertain
  <1>4. a = answer /\ ~busy /\ a.stages = known /\ Agrees(a.state)
    BY <1>2, <1>3 DEF ServiceIsTrue
  <1>5. known # <<>>
    BY <1>1, <1>4
  <1>6. QED
    BY <1>4, <1>5

\* The history goes on with an answer that can be used, although what was read of the log before
\* need not be what is known: its last stage is that of the release, and no other is in question.
LEMMA AnswerGoesOn ==
  ASSUME TypeOK, ServiceIsTrue, HistoryIsTheAgents, release.state \in {"running", "rolling_back"},
         NEW a, a.stages = known, mirrored = Len(history) - 1, ValidResult(a, mirrored)
  PROVE  AgreesUpTo(history, known, Len(history))
  <1>1. /\ log \in Seq(Stages) /\ known \in Seq(Stages) /\ history \in Seq(Stages)
        /\ Len(history) \in Nat /\ Len(log) \in Nat /\ Len(known) \in Nat
    BY TypeParts DEF ServiceTypeOK, ReleaseTypeOK
  <1>2. OfTheAgent(Len(history)) /\ release.stage = history[Len(history)]
    BY ActiveHistory
  <1>3. /\ known[1] = "rechecking" /\ Len(known) >= mirrored /\ mirrored >= 1 /\ known # <<>>
        /\ mirrored > 1 => known[mirrored] = release.stage
    BY <1>1 DEF ValidResult, ValidProgress
  <1>4. CASE AgreesUpTo(history, log, Len(history))
    <2>1. ASSUME NEW i \in 2..Len(history) PROVE history[i] = known[i - 1]
      <3>1. CASE log = <<>>
        <4>1. Known(log) = <<"rechecking">> /\ Len(Known(log)) = 1 /\ Known(log)[1] = "rechecking"
          BY <3>1 DEF Known
        <4>2. i = 2 /\ history[2] = "rechecking"
          BY <1>1, <1>4, <4>1 DEF AgreesUpTo
        <4>3. QED
          BY <1>3, <4>2
      <3>2. CASE log # <<>>
        <4>1. Known(log) = log /\ history[i] = log[i - 1] /\ i - 1 <= Len(log) /\ i - 1 \in Nat /\ i - 1 >= 1
          BY <1>1, <1>4, <3>2 DEF Known, AgreesUpTo
        <4>2. CASE i - 1 <= Len(log) - 1
          BY <1>1, <4>1, <4>2 DEF ServiceIsTrue, Evidence
        <4>3. CASE i - 1 = Len(log)
          <5>1. i = Len(history) /\ i - 1 = mirrored
            BY <1>1, <1>4, <4>1, <4>3 DEF AgreesUpTo
          <5>2. CASE mirrored > 1
            BY <1>2, <1>3, <5>1, <5>2
          <5>3. CASE mirrored = 1
            <6>1. log[1] = "rechecking" /\ i - 1 = 1
              BY <3>2, <5>1, <5>3 DEF ServiceIsTrue, Evidence
            <6>2. QED
              BY <1>3, <4>1, <6>1
          <5>4. QED
            BY <1>1, <1>3, <5>2, <5>3
        <4>4. QED
          BY <1>1, <4>1, <4>2, <4>3
      <3>3. QED
        BY <3>1, <3>2
    <2>2. Known(known) = known
      BY <1>3 DEF Known
    <2>3. QED
      BY <1>1, <1>3, <2>1, <2>2 DEF AgreesUpTo
  <1>5. CASE AgreesUpTo(history, known, Len(history))
    BY <1>5
  <1>6. QED
    BY <1>2, <1>4, <1>5 DEF OfTheAgent

\* A verdict frees the lease, no other stage does.
LEMMA LeaseFollows ==
  ASSUME ReleaseTypeOK, lease, NEW s, NEW state \in ReleaseStates, Record(s, state)
  PROVE  lease' <=> state \in ActiveStates
  BY DEF Record, ActiveStates, TerminalStates, ReleaseStates

-------------------------------------------------------------------------------
(* Run. *)

\* Run records the first stage before the Agent hears of the release.
LEMMA StartRunStep == ASSUME IInv, StartRun PROVE IInv'
  <1>0. TypeOK /\ ReleaseTypeOK /\ ServiceIsTrue /\ ReleaseIsTrue /\ WorkspaceIsTrue
    BY Invariants
  <1>1. /\ task = "start" /\ release.state = "queued" /\ history = <<"queued">> /\ log = <<>> /\ known = <<>> /\ ~busy
        /\ UNCHANGED <<serviceVars, control, lister>> /\ failing = FALSE /\ lease /\ ui \in {"serving", "releases"}
    BY Invariants DEF StartRun, ReleaseIsTrue, TaskAtRelease, HistoryIsTheAgents, AgentIsAsked, NeverRan,
                StartInOrder, ActiveStates, TaskTypeOK
  <1>2. CASE Record(<<"rechecking">>, "running") /\ GotoTask("call")
    <2>1. /\ ReleaseTypeOK' /\ history' = Append(history, "rechecking")
          /\ release'.state = "running" /\ release'.stage = "rechecking" /\ release'.draft = release.draft
          /\ UNCHANGED <<check, indexed, row>>
      BY <1>0, <1>2, RecordOne
    <2>2. TaskTypeOK'
      BY <1>2, Invariants, TaskMoves DEF TaskPoints
    <2>3. TypeOK'
      BY <1>1, <2>1, <2>2, Invariants, TypeParts DEF serviceVars, ServiceTypeOK, WorkspaceTypeOK, ListerTypeOK
    <2>4. ServiceIsTrue'
      BY <1>0, <1>1, ServiceFrame
    <2>5. Len(history') = 2 /\ history'[2] = "rechecking" /\ history'[1] = "queued"
      BY <1>1, <2>1
    <2>6. HistoryIsTheAgents'
      <3>1. StateOfStage("rechecking") = "running"
        BY DEF StateOfStage, RollbackStages
      <3>2. Known(<<>>) = <<"rechecking">>
        BY DEF Known
      <3>3. OfTheAgent(Len(history))'
        <4>1. AgreesUpTo(history', <<>>, Len(history'))
          BY <2>5, <3>2 DEF AgreesUpTo
        <4>2. log' = <<>>
          BY <1>1 DEF serviceVars
        <4>3. QED
          BY <4>1, <4>2 DEF OfTheAgent
      <3>4. QED
        BY <2>1, <2>5, <3>1, <3>3 DEF HistoryIsTheAgents, LastStage
    <2>7. lease'
      BY <1>1, <1>2, <1>0, LeaseFollows DEF ActiveStates, ReleaseStates
    <2>8. AgentIsAsked' /\ TaskAtRelease' /\ ResultIsTheLog' /\ VerdictIsTrue' /\ StartInOrder'
      BY <1>0, <1>1, <1>2, <2>1, <2>5, <2>7
      DEF AgentIsAsked, NeverRan, TaskAtRelease, ResultIsTheLog, VerdictIsTrue, Agrees, StartInOrder,
          GotoTask, ActiveStates, serviceVars
    <2>9. WorkspaceIsTrue'
      BY <1>0, <1>1, <1>2, <2>1, WorkspaceFrame DEF GotoTask, serviceVars
    <2>10. QED
      BY <2>3, <2>4, <2>6, <2>8, <2>9, InvariantParts DEF ReleaseIsTrue
  <1>3. CASE Fail /\ UNCHANGED databaseVars
    BY <1>1, <1>3, EndStep
  <1>4. QED
    BY <1>2, <1>3 DEF StartRun

\* A call that begins has returned nothing yet.
LEMMA CallIsTrue ==
  ASSUME ServiceIsTrue, CallBegins
  PROVE  ServiceIsTrue' /\ UNCHANGED <<log, known, content, edited>>
  BY DEF ServiceIsTrue, CallBegins, Agrees, NoAnswer, evidenceVars

\* The Agent is called, or the call is lost.
LEMMA ExecuteStep == ASSUME IInv, Execute PROVE IInv'
  <1>1. /\ task = "call" /\ task' = "waiting" /\ mirrored' = 1 /\ failing = FALSE
        /\ release.state \in {"running", "rolling_back"} /\ Len(history) = 2
        /\ ui \in {"serving", "releases"}
        /\ UNCHANGED <<check, release, history, lease, indexed, row, control, ui, failing, result, read, lister>>
    BY Invariants DEF Execute, ReleaseIsTrue, TaskAtRelease, StartInOrder, TaskTypeOK, databaseVars
  <1>2. CallBegins \/ UNCHANGED serviceVars
    BY DEF Execute
  <1>3. ServiceIsTrue' /\ UNCHANGED <<log, known, content, edited>>
    BY <1>2, Invariants, CallIsTrue, ServiceFrame DEF serviceVars
  <1>4. ServiceTypeOK'
    BY <1>2, Invariants, ServiceTyped DEF serviceVars, ServiceTypeOK
  <1>5. TypeOK'
    BY <1>1, <1>4, Invariants, TypeParts DEF ReleaseTypeOK, WorkspaceTypeOK, TaskTypeOK, ListerTypeOK, TaskPoints
  <1>6. ~NeverRan
    BY <1>1, Invariants, ActiveHistory DEF ReleaseIsTrue
  <1>7. HistoryIsTheAgents'
    BY <1>1, <1>3, Invariants, HistoryFrame DEF ReleaseIsTrue
  <1>8. AgentIsAsked' /\ TaskAtRelease' /\ ResultIsTheLog' /\ VerdictIsTrue' /\ StartInOrder'
    BY <1>1, <1>3, <1>6, Invariants
    DEF ReleaseIsTrue, AgentIsAsked, NeverRan, TaskAtRelease, ResultIsTheLog, VerdictIsTrue, Agrees, StartInOrder
  <1>9. WorkspaceIsTrue'
    BY <1>1, <1>3, Invariants, WorkspaceFrame
  <1>10. QED
    BY <1>3, <1>5, <1>7, <1>8, <1>9, InvariantParts DEF ReleaseIsTrue

\* Stages of the log are copied while the call lasts.
LEMMA PollStep == ASSUME IInv, Poll PROVE IInv'
  <1>1. PICK k \in Nat :
          /\ mirrored <= k /\ k <= Len(log) /\ k <= NonTerminalCount(log)
          /\ \/ k = mirrored /\ UNCHANGED databaseVars
             \/ k > mirrored /\ Record(SubSeq(log, mirrored + 1, k), StateOfStage(log[k]))
          /\ IF k = NonTerminalCount(log) THEN mirrored' = k /\ UNCHANGED failing
             ELSE failing' = TRUE /\ UNCHANGED mirrored
    BY Invariants, PollCopies
  <1>2. /\ task = "waiting" /\ ~failing /\ ValidProgress(log, mirrored)
        /\ log \in Seq(Stages) /\ mirrored \in Nat
        /\ UNCHANGED <<log, known, spoiled, busy, reading, answer, content, edited, control, ui, task, result, read, lister>>
    BY Invariants, PollCopies DEF serviceVars
  <1>3. /\ release.state \in {"running", "rolling_back"} /\ mirrored = Len(history) - 1
        /\ ui \in {"serving", "releases"} /\ lease
    BY <1>2, Invariants DEF ReleaseIsTrue, TaskAtRelease, StartInOrder, TaskTypeOK, ActiveStates
  <1>4. TaskTypeOK' /\ (~failing' => mirrored' = k)
    BY <1>1, <1>2, Invariants DEF TaskTypeOK
  <1>5. ServiceIsTrue'
    BY <1>2, Invariants, ServiceFrame DEF serviceVars
  <1>6. OfTheAgent(Len(history)) /\ ~NeverRan
    BY <1>3, Invariants, ActiveHistory DEF ReleaseIsTrue
  <1>7. AgreesUpTo(history, log, Len(history))
    <2>1. /\ known \in Seq(Stages) /\ history \in Seq(Stages) /\ Extends(log, known)
          /\ log # <<>> => log[1] = "rechecking"
      BY Invariants DEF Poll, ServiceTypeOK, ReleaseTypeOK, ServiceIsTrue, Evidence
    <2>2. CASE AgreesUpTo(history, log, Len(history))
      BY <2>2
    <2>3. CASE AgreesUpTo(history, known, Len(history))
      BY <1>2, <2>1, <2>3, StillAgrees
    <2>4. QED
      BY <1>6, <2>2, <2>3 DEF OfTheAgent
  <1>8. CASE k = mirrored /\ UNCHANGED databaseVars
    <2>1. TypeOK'
      BY <1>2, <1>4, <1>8, Invariants, TypeParts
      DEF databaseVars, ServiceTypeOK, ReleaseTypeOK, WorkspaceTypeOK, ListerTypeOK
    <2>2. HistoryIsTheAgents'
      BY <1>2, <1>8, Invariants, HistoryFrame DEF ReleaseIsTrue, databaseVars
    <2>3. AgentIsAsked' /\ TaskAtRelease' /\ ResultIsTheLog' /\ VerdictIsTrue' /\ StartInOrder'
      BY <1>2, <1>3, <1>4, <1>8, Invariants
      DEF ReleaseIsTrue, AgentIsAsked, NeverRan, TaskAtRelease, ResultIsTheLog, VerdictIsTrue, Agrees,
          StartInOrder, databaseVars
    <2>4. WorkspaceIsTrue'
      BY <1>2, <1>8, Invariants, WorkspaceFrame DEF databaseVars
    <2>5. QED
      BY <1>5, <2>1, <2>2, <2>3, <2>4, InvariantParts DEF ReleaseIsTrue
  <1>9. CASE k > mirrored /\ Record(SubSeq(log, mirrored + 1, k), StateOfStage(log[k]))
    <2>1. /\ ReleaseTypeOK' /\ release'.state = StateOfStage(log[k]) /\ release'.stage = log[k]
          /\ log[k] \in Stages /\ release'.stage = LastStage(history') /\ release'.draft = release.draft
          /\ UNCHANGED <<check, indexed, row>>
      BY <1>1, <1>2, <1>9, Invariants, CopyTyped
    <2>2. Len(history') = k + 1 /\ OfTheAgent(Len(history))'
      <3>1. history' = history \o SubSeq(log, mirrored + 1, k)
        BY <1>9 DEF Record
      <3>2. log # <<>> /\ history \in Seq(Stages)
        BY <1>2, Invariants DEF ValidProgress, ReleaseTypeOK
      <3>3. Len(history') = k + 1 /\ AgreesUpTo(history', log, Len(history'))
        BY <1>1, <1>2, <1>3, <1>7, <1>9, <3>1, <3>2, CopyIsEvidence
      <3>4. QED
        BY <1>2, <3>3 DEF OfTheAgent
    <2>3. log[k] # "queued" /\ log[k] \notin TerminalStages
      BY <1>1, <1>2, <1>9, CopiedStage, CountBounds
    <2>4. release'.state \in {"running", "rolling_back"}
      BY <2>1, <2>3, ActiveState
    <2>5. TypeOK'
      BY <1>2, <1>4, <2>1, Invariants, TypeParts DEF ServiceTypeOK, WorkspaceTypeOK, ListerTypeOK
    <2>6. HistoryIsTheAgents'
      <3>1. history' \in Seq(Stages) /\ k >= 1 /\ history' # <<>> /\ Len(history') >= 2
        BY <1>2, <1>9, <2>1, <2>2 DEF ReleaseTypeOK
      <3>2. QED
        BY <2>1, <2>2, <2>4, <3>1 DEF HistoryIsTheAgents
    <2>7. lease' /\ ~NeverRan'
      <3>1. lease'
        BY <1>3, <1>9, <2>1, <2>4, Invariants, LeaseFollows DEF ActiveStates, ReleaseStates
      <3>2. history' # <<"queued", "failed">>
        <4>1. LastStage(<<"queued", "failed">>) = "failed" /\ "failed" \in TerminalStages
          BY DEF LastStage, TerminalStages
        <4>2. QED
          BY <2>1, <2>3, <4>1
      <3>3. QED
        BY <2>4, <3>1, <3>2 DEF NeverRan
    <2>8. AgentIsAsked' /\ TaskAtRelease' /\ ResultIsTheLog' /\ VerdictIsTrue' /\ StartInOrder'
      BY <1>2, <1>3, <1>4, <2>1, <2>2, <2>4, <2>7, Invariants
      DEF ReleaseIsTrue, AgentIsAsked, TaskAtRelease, ResultIsTheLog, VerdictIsTrue, Agrees, StartInOrder,
          ActiveStates
    <2>9. WorkspaceIsTrue'
      BY <1>2, <1>3, <2>1, Invariants, WorkspaceFrame
    <2>10. QED
      BY <1>5, <2>5, <2>6, <2>8, <2>9, InvariantParts DEF ReleaseIsTrue
  <1>10. QED
    BY <1>1, <1>8, <1>9

\* The call returns, and what it returned can be used or not.
LEMMA CompletedStep == ASSUME IInv, Completed PROVE IInv'
  <1>1. PICK a \in {answer, NoAnswer} :
          /\ Receive(a)
          /\ IF ~ValidResult(a, mirrored) THEN
               GotoTask("uncertain") /\ UNCHANGED indexed
             ELSE IF failing THEN
               GotoTask("uncertain") /\ indexed' \in {indexed, indexed \/ a.backup}
             ELSE
               /\ task' = "index" /\ result' = a
               /\ UNCHANGED <<mirrored, failing, read, ui, indexed>>
    BY DEF Completed
  <1>2. /\ task = "waiting" /\ release.state \in {"running", "rolling_back"}
        /\ mirrored \in Nat /\ a \in AnswerRecords
        /\ answer' = NoAnswer
        /\ UNCHANGED <<log, known, spoiled, busy, reading, content, edited, check, release, history, lease, row, control, lister>>
    BY <1>1, Invariants, NoAnswerTyped
    DEF Completed, Receive, evidenceVars, ReleaseIsTrue, TaskAtRelease, TaskTypeOK, ServiceTypeOK, AnswerRecords
  <1>3. ServiceIsTrue' /\ ServiceTypeOK'
    BY <1>2, Invariants, NoAnswerTyped DEF ServiceIsTrue, Agrees, NoAnswer, ServiceTypeOK, AnswerRecords
  <1>4. HistoryIsTheAgents' /\ ~NeverRan /\ ~NeverRan'
    BY <1>2, Invariants, HistoryFrame, ActiveHistory DEF ReleaseIsTrue, NeverRan
  <1>5. CASE GotoTask("uncertain") /\ indexed' \in BOOLEAN /\ (indexed => indexed')
    <2>1. TaskTypeOK'
      BY <1>5, Invariants, TaskMoves DEF TaskPoints
    <2>2. TypeOK'
      BY <1>2, <1>3, <1>5, <2>1, Invariants, TypeParts DEF ReleaseTypeOK, WorkspaceTypeOK, ListerTypeOK
    <2>3. AgentIsAsked' /\ TaskAtRelease' /\ ResultIsTheLog' /\ VerdictIsTrue' /\ StartInOrder'
      BY <1>2, <1>4, <1>5, Invariants
      DEF ReleaseIsTrue, AgentIsAsked, TaskAtRelease, ResultIsTheLog, VerdictIsTrue, Agrees, StartInOrder,
          GotoTask, ActiveStates
    <2>4. WorkspaceIsTrue'
      BY <1>2, <1>5, Invariants, WorkspaceFrame DEF GotoTask
    <2>5. QED
      BY <1>3, <1>4, <2>2, <2>3, <2>4, InvariantParts DEF ReleaseIsTrue
  <1>6. CASE /\ ValidResult(a, mirrored) /\ task' = "index" /\ result' = a /\ ~failing
             /\ UNCHANGED <<mirrored, failing, read, ui, indexed>>
    <2>1. a.stages = known /\ ~busy /\ Agrees(a.state)
      BY <1>2, <1>6, Invariants, UsableAnswer
    <2>7. AgreesUpTo(history, known, Len(history))
      BY <1>2, <1>6, <2>1, Invariants, AnswerGoesOn DEF ReleaseIsTrue, TaskAtRelease
    <2>2. TypeOK'
      BY <1>2, <1>3, <1>6, Invariants, TypeParts
      DEF ReleaseTypeOK, WorkspaceTypeOK, ListerTypeOK, TaskTypeOK, TaskPoints
    <2>3. ValidResult(result, mirrored)' /\ Agrees(result.state)'
      BY <1>2, <1>6, <2>1 DEF ValidResult, ValidProgress, RequiresBackup, Agrees
    <2>4. AgentIsAsked' /\ TaskAtRelease' /\ ResultIsTheLog' /\ VerdictIsTrue' /\ StartInOrder'
      BY <1>2, <1>4, <1>6, <2>1, <2>3, <2>7, Invariants
      DEF ReleaseIsTrue, AgentIsAsked, TaskAtRelease, ResultIsTheLog, VerdictIsTrue, Agrees, StartInOrder,
          ActiveStates
    <2>5. WorkspaceIsTrue'
      BY <1>2, <1>6, Invariants, WorkspaceFrame
    <2>6. QED
      BY <1>3, <1>4, <2>2, <2>4, <2>5, InvariantParts DEF ReleaseIsTrue
  <1>7. QED
    <2>1. indexed \in BOOLEAN /\ a.backup \in BOOLEAN
      BY <1>2, Invariants DEF ReleaseTypeOK, AnswerRecords
    <2>2. CASE ~ValidResult(a, mirrored)
      BY <1>1, <1>5, <2>1, <2>2
    <2>3. CASE ValidResult(a, mirrored) /\ failing
      BY <1>1, <1>5, <2>1, <2>3
    <2>4. CASE ValidResult(a, mirrored) /\ ~failing
      BY <1>1, <1>6, <2>4
    <2>5. QED
      BY <2>2, <2>3, <2>4

-------------------------------------------------------------------------------
(* mirrorReleaseResult. *)

\* The backup is indexed before the verdict is recorded.
LEMMA IndexStep == ASSUME IInv, Index PROVE IInv'
  <1>1. /\ task = "index" /\ release.state \in {"running", "rolling_back"} /\ ~busy
        /\ ValidResult(result, mirrored) /\ result.stages = known /\ Agrees(result.state)
        /\ AgreesUpTo(history, known, Len(history))
        /\ result.backup \in BOOLEAN /\ indexed \in BOOLEAN
        /\ UNCHANGED <<log, known, spoiled, busy, reading, answer, content, edited, check, release, history, lease, row, control, lister>>
    BY Invariants DEF Index, ReleaseIsTrue, TaskAtRelease, AgentIsAsked, ResultIsTheLog, serviceVars,
                      TaskTypeOK, AnswerRecords, ReleaseTypeOK
  <1>2. \/ indexed' = (indexed \/ result.backup) /\ GotoTask("mirror")
        \/ indexed' = indexed /\ GotoTask("uncertain")
    BY DEF Index
  <1>3. TaskTypeOK'
    BY <1>2, Invariants, TaskMoves DEF TaskPoints
  <1>4. TypeOK'
    BY <1>1, <1>2, <1>3, Invariants, TypeParts
    DEF ServiceTypeOK, ReleaseTypeOK, WorkspaceTypeOK, ListerTypeOK
  <1>5. ServiceIsTrue'
    BY <1>1, Invariants, ServiceFrame DEF serviceVars
  <1>6. HistoryIsTheAgents' /\ ~NeverRan /\ ~NeverRan'
    BY <1>1, Invariants, HistoryFrame, ActiveHistory DEF ReleaseIsTrue, NeverRan
  <1>7. /\ ValidResult(result, mirrored)' /\ Agrees(result.state)'
        /\ task' = "mirror" /\ RequiresBackup(result)' => indexed'
    BY <1>1, <1>2 DEF ValidResult, ValidProgress, RequiresBackup, Agrees, GotoTask
  <1>8. AgentIsAsked' /\ TaskAtRelease' /\ ResultIsTheLog' /\ VerdictIsTrue' /\ StartInOrder'
    BY <1>1, <1>2, <1>6, <1>7, Invariants
    DEF ReleaseIsTrue, AgentIsAsked, TaskAtRelease, ResultIsTheLog, VerdictIsTrue, Agrees, StartInOrder,
        GotoTask, ActiveStates
  <1>9. WorkspaceIsTrue'
    BY <1>1, <1>2, Invariants, WorkspaceFrame DEF GotoTask
  <1>10. QED
    BY <1>4, <1>5, <1>6, <1>8, <1>9, InvariantParts DEF ReleaseIsTrue

\* The rest of the stages is copied, the verdict last.
LEMMA MirrorStep == ASSUME IInv, Mirror PROVE IInv'
  <1>1. /\ task = "mirror" /\ release.state \in {"running", "rolling_back"} /\ ~busy
        /\ ValidResult(result, mirrored) /\ result.stages = known /\ Agrees(result.state)
        /\ AgreesUpTo(history, known, Len(history))
        /\ failing = FALSE /\ mirrored = Len(history) - 1
        /\ RequiresBackup(result) => indexed
        /\ ui \in {"serving", "releases"} /\ lease
    BY Invariants DEF Mirror, ReleaseIsTrue, TaskAtRelease, AgentIsAsked, ResultIsTheLog, TaskTypeOK,
                      StartInOrder, ActiveStates
  <1>2. Len(result.stages) >= mirrored
    BY <1>1 DEF ValidResult, ValidProgress
  <1>3. /\ known \in Seq(Stages) /\ mirrored \in Nat
        /\ UNCHANGED <<log, known, spoiled, busy, reading, answer, content, edited, control, lister>>
    BY <1>1, <1>2, Invariants, MirrorCopies DEF serviceVars
  <1>4. PICK k \in Nat :
          /\ mirrored <= k /\ k <= Len(known)
          /\ \/ k = mirrored /\ UNCHANGED databaseVars
             \/ k > mirrored /\ Record(SubSeq(known, mirrored + 1, k), StateOfStage(known[k]))
          /\ \/ k = Len(known) /\ GotoTask("outcome")
             \/ k # Len(known) /\ Fail
    BY <1>1, <1>2, Invariants, MirrorCopies
  <1>5. /\ ~NeverRan /\ Len(history) \in Nat
        /\ release.stage = history[Len(history)] /\ release.stage \notin TerminalStages
    BY <1>1, Invariants, ActiveHistory DEF ReleaseIsTrue
  <1>6. /\ known # <<>> /\ LastStage(known) \in TerminalStages /\ result.state = StateOfStage(LastStage(known))
        /\ mirrored >= 1
    BY <1>1 DEF ValidResult, ValidProgress
  <1>7. ServiceIsTrue'
    BY <1>3, Invariants, ServiceFrame DEF serviceVars
  <1>8. CASE k = mirrored /\ UNCHANGED databaseVars
    <2>1. k # Len(known)
      <3>1. Known(known) = known /\ Len(history) \in 2..Len(history)
        BY <1>1, <1>5, <1>6 DEF Known
      <3>2. history[Len(history)] = known[mirrored]
        BY <1>1, <1>5, <3>1 DEF AgreesUpTo
      <3>3. QED
        BY <1>5, <1>6, <1>8, <3>2 DEF LastStage
    <2>2. QED
      BY <1>1, <1>3, <1>4, <1>8, <2>1, EndStep DEF serviceVars
  <1>9. CASE k > mirrored /\ Record(SubSeq(known, mirrored + 1, k), StateOfStage(known[k]))
    <2>1. /\ ReleaseTypeOK' /\ release'.state = StateOfStage(known[k]) /\ release'.stage = known[k]
          /\ known[k] \in Stages /\ release'.stage = LastStage(history') /\ release'.draft = release.draft
          /\ UNCHANGED <<check, indexed, row>>
      BY <1>3, <1>4, <1>9, Invariants, CopyTyped
    <2>2. Len(history') = k + 1 /\ OfTheAgent(Len(history))'
      <3>1. history' = history \o SubSeq(known, mirrored + 1, k) /\ history \in Seq(Stages)
        BY <1>9, Invariants DEF Record, ReleaseTypeOK
      <3>2. Len(history') = k + 1 /\ AgreesUpTo(history', known, Len(history'))
        BY <1>1, <1>3, <1>4, <1>6, <1>9, <3>1, CopyIsEvidence
      <3>3. QED
        BY <1>3, <3>2 DEF OfTheAgent
    <2>3. known[k] # "queued" /\ (known[k] \in TerminalStages => k = Len(known))
      BY <1>1, <1>3, <1>4, <1>9, CopiedStage DEF ValidResult
    <2>4. release'.state \in ReleaseStates /\ release'.state # "queued"
      BY <2>1, <2>3, StateFacts
    <2>5. (lease' <=> release'.state \in ActiveStates)
      BY <1>1, <1>9, <2>1, <2>4, Invariants, LeaseFollows
    <2>6. TaskTypeOK'
      BY <1>4, Invariants, TaskMoves DEF TaskPoints
    <2>7. TypeOK'
      BY <1>3, <2>1, <2>6, Invariants, TypeParts DEF ServiceTypeOK, WorkspaceTypeOK, ListerTypeOK
    <2>8. history' \in Seq(Stages) /\ Len(history') >= 3 /\ history' # <<>> /\ history' # <<"queued", "failed">>
      <3>1. history' \in Seq(Stages) /\ Len(history') >= 3
        BY <1>3, <1>6, <1>9, <2>1, <2>2 DEF ReleaseTypeOK
      <3>2. history' # <<>>
        BY <3>1
      <3>3. history' # <<"queued", "failed">>
        <4> SUFFICES ASSUME history' = <<"queued", "failed">> PROVE FALSE
          OBVIOUS
        <4>1. Len(history') = 2
          OBVIOUS
        <4>2. QED
          BY <3>1, <4>1
      <3>4. QED
        BY <3>1, <3>2, <3>3
    <2>9. HistoryIsTheAgents'
      BY <2>1, <2>2, <2>4, <2>8 DEF HistoryIsTheAgents, ReleaseStates
    <2>10. ~NeverRan'
      BY <2>4, <2>8 DEF NeverRan, ReleaseStates
    <2>11. CASE k = Len(known) /\ GotoTask("outcome")
      <3>1. release'.state = result.state /\ release'.state \in TerminalStates
        BY <1>6, <2>1, <2>11, StateFacts DEF LastStage
      <3>2. release'.state \in {"succeeded", "rolled_back"} => indexed'
        BY <1>1, <2>1, <3>1 DEF RequiresBackup
      <3>3. Agrees(release.state)'
        BY <1>1, <1>3, <3>1 DEF Agrees
      <3>4. AgentIsAsked' /\ TaskAtRelease' /\ ResultIsTheLog' /\ VerdictIsTrue' /\ StartInOrder'
        BY <1>1, <1>3, <2>5, <2>10, <2>11, <3>1, <3>2, <3>3
        DEF AgentIsAsked, TaskAtRelease, ResultIsTheLog, VerdictIsTrue, StartInOrder, GotoTask
      <3>5. WorkspaceIsTrue'
        BY <1>1, <1>3, <2>1, <2>11, Invariants, WorkspaceFrame DEF GotoTask
      <3>6. QED
        BY <1>7, <2>7, <2>9, <3>4, <3>5, InvariantParts DEF ReleaseIsTrue
    <2>12. CASE k # Len(known) /\ Fail
      <3>1. release'.state \in {"running", "rolling_back"}
        BY <2>1, <2>3, <2>12, ActiveState
      <3>2. task' = "none" /\ failing' = FALSE /\ ui' # "workspaces"
        BY <1>1, <2>12 DEF Fail, EndTask
      <3>3. AgentIsAsked' /\ TaskAtRelease' /\ ResultIsTheLog' /\ VerdictIsTrue' /\ StartInOrder'
        BY <1>1, <1>3, <2>5, <2>10, <3>1, <3>2
        DEF AgentIsAsked, TaskAtRelease, ResultIsTheLog, VerdictIsTrue, Agrees, StartInOrder
      <3>4. WorkspaceIsTrue'
        BY <1>1, <1>3, <2>1, <3>2, Invariants, WorkspaceFrame
      <3>5. QED
        BY <1>7, <2>7, <2>9, <3>3, <3>4, InvariantParts DEF ReleaseIsTrue
    <2>13. QED
      BY <1>4, <2>11, <2>12
  <1>10. QED
    BY <1>4, <1>8, <1>9

\* Doubt is recorded behind what the Agent did.
LEMMA MarkUncertainStep == ASSUME IInv, MarkUncertain PROVE IInv'
  <1>1. /\ task = "uncertain" /\ release.state \in {"running", "rolling_back"}
        /\ ui \in {"serving", "releases"} /\ lease
        /\ UNCHANGED <<log, known, spoiled, busy, reading, answer, content, edited, control, lister>>
    BY Invariants DEF MarkUncertain, ReleaseIsTrue, TaskAtRelease, TaskTypeOK, StartInOrder, ActiveStates,
                      serviceVars
  <1>2. CASE Record(<<"needs_attention">>, "needs_attention") /\ GotoTask("outcome")
    <2>1. /\ ReleaseTypeOK' /\ history' = Append(history, "needs_attention")
          /\ release'.state = "needs_attention" /\ release'.stage = "needs_attention"
          /\ release'.draft = release.draft
          /\ UNCHANGED <<check, indexed, row>>
      BY <1>2, Invariants, RecordOne
    <2>2. TaskTypeOK'
      BY <1>2, Invariants, TaskMoves DEF TaskPoints
    <2>3. TypeOK'
      BY <1>1, <2>1, <2>2, Invariants, TypeParts DEF ServiceTypeOK, WorkspaceTypeOK, ListerTypeOK
    <2>4. ServiceIsTrue'
      BY <1>1, Invariants, ServiceFrame DEF serviceVars
    <2>5. OfTheAgent(Len(history)) /\ Len(history) \in Nat /\ Len(history) >= 1 /\ history \in Seq(Stages)
      BY <1>1, Invariants, ActiveHistory DEF ReleaseIsTrue, ReleaseTypeOK
    <2>6. /\ Len(history') = Len(history) + 1 /\ history'[Len(history) + 1] = "needs_attention"
          /\ \A i \in 1..Len(history) : history'[i] = history[i]
      BY <2>1, <2>5
    <2>7. OfTheAgent(Len(history) - 1)'
      <3>1. PICK l \in {log, known} : AgreesUpTo(history, l, Len(history))
        BY <2>5 DEF OfTheAgent
      <3>2. AgreesUpTo(history', l, Len(history') - 1)
        BY <2>5, <2>6, <3>1 DEF AgreesUpTo
      <3>3. QED
        BY <1>1, <3>2 DEF OfTheAgent
    <2>8. HistoryIsTheAgents'
      <3>1. StateOfStage("needs_attention") = "needs_attention"
        BY StageNames, StateFacts
      <3>2. history' # <<>>
        BY <2>5, <2>6
      <3>3. QED
        BY <2>1, <2>6, <2>7, <3>1, <3>2 DEF HistoryIsTheAgents, LastStage
    <2>9. history' # <<"queued", "failed">>
      <3>1. <<"queued", "failed">>[Len(<<"queued", "failed">>)] = "failed"
        OBVIOUS
      <3>2. QED
        BY <2>6, <3>1
    <2>10. lease' = FALSE
      BY <1>2, <2>1 DEF Record, TerminalStates, ReleaseTypeOK
    <2>11. AgentIsAsked' /\ TaskAtRelease' /\ ResultIsTheLog' /\ VerdictIsTrue' /\ StartInOrder'
      BY <1>1, <1>2, <2>1, <2>9, <2>10, Invariants
      DEF AgentIsAsked, NeverRan, TaskAtRelease, ResultIsTheLog, VerdictIsTrue, Agrees, StartInOrder,
          GotoTask, ActiveStates, TerminalStates
    <2>12. WorkspaceIsTrue'
      BY <1>1, <1>2, <2>1, Invariants, WorkspaceFrame DEF GotoTask
    <2>13. QED
      BY <2>3, <2>4, <2>8, <2>11, <2>12, InvariantParts DEF ReleaseIsTrue
  <1>3. CASE Fail /\ UNCHANGED databaseVars
    BY <1>1, <1>3, EndStep DEF MarkUncertain
  <1>4. QED
    BY <1>2, <1>3 DEF MarkUncertain

-------------------------------------------------------------------------------
(* applyWorkspaceReleaseOutcome. *)

\* A release that reached its outcome stays as it is, whatever the task does next.
LEMMA SettledFrame ==
  ASSUME ReleaseIsTrue, TypeOK, UNCHANGED <<log, known, spoiled, busy, reading, content, edited, release, history, lease, indexed>>,
         release.state \in TerminalStates,
         task' \in {"none", "outcome", "lock", "row"},
         task' \in {"lock", "row"} => release.state \in {"succeeded", "needs_attention"},
         failing' => task' \in {"outcome", "lock", "row"},
         ui' \in {"down", "workspaces"} => task' = "none"
  PROVE  ReleaseIsTrue'
  <1>1. HistoryIsTheAgents'
    BY HistoryFrame DEF ReleaseIsTrue
  <1>2. AgentIsAsked' /\ TaskAtRelease' /\ ResultIsTheLog' /\ VerdictIsTrue' /\ StartInOrder'
    BY DEF ReleaseIsTrue, AgentIsAsked, TaskAtRelease, ResultIsTheLog, VerdictIsTrue, StartInOrder,
           NeverRan, Agrees, TerminalStates, ActiveStates
  <1>3. QED
    BY <1>1, <1>2 DEF ReleaseIsTrue

\* Where the outcome is applied.
LEMMA AtOutcome ==
  ASSUME IInv, task \in {"outcome", "lock", "row"}
  PROVE  /\ release.state \in TerminalStates /\ release.state \notin ActiveStates
         /\ ui \in {"serving", "releases"} /\ failing \in BOOLEAN
         /\ task \in {"lock", "row"} => release.state \in {"succeeded", "needs_attention"}
  BY Invariants DEF ReleaseIsTrue, TaskAtRelease, StartInOrder, TaskTypeOK, TerminalStates, ActiveStates

\* The task ends with its outcome applied, or with nothing to apply.
LEMMA EndOutcomeStep ==
  ASSUME IInv, task \in {"outcome", "lock", "row"}, EndOutcome \/ Fail,
         UNCHANGED <<serviceVars, databaseVars, control, lister>>
  PROVE  IInv'
  BY AtOutcome, EndStep DEF EndOutcome

\* The row is read before the lock is taken.
LEMMA ReadRowStep == ASSUME IInv, ReadRow PROVE IInv'
  <1>1. task = "outcome" /\ UNCHANGED <<serviceVars, databaseVars, control, lister>>
    BY DEF ReadRow
  <1>2. CASE EndOutcome \/ Fail
    BY <1>1, <1>2, EndOutcomeStep
  <1>3. CASE /\ release.state \notin {"failed", "rolled_back"}
             /\ task' = "lock" /\ read' = row /\ UNCHANGED <<mirrored, failing, result, ui>>
    <2>1. /\ release.state \in {"succeeded", "needs_attention"}
          /\ UNCHANGED <<log, known, spoiled, busy, reading, answer, content, edited, check, release, history, lease, indexed, row, control>>
      BY <1>1, <1>3, AtOutcome DEF TerminalStates, serviceVars, databaseVars
    <2>2. TypeOK'
      BY <1>1, <1>3, <2>1, Invariants, TypeParts
      DEF ServiceTypeOK, ReleaseTypeOK, WorkspaceTypeOK, ListerTypeOK, TaskTypeOK, TaskPoints
    <2>3. ServiceIsTrue'
      BY <1>1, Invariants, ServiceFrame
    <2>4. ReleaseIsTrue'
      BY <1>1, <1>3, <2>1, Invariants, AtOutcome, SettledFrame
    <2>5. row.revision \in Nat
      BY Invariants DEF WorkspaceTypeOK, RowRecords
    <2>6. WorkspaceIsTrue'
      BY <1>1, <1>3, <2>1, <2>5, Invariants
      DEF WorkspaceIsTrue, ReadIsRow, ApartByOutcome, WorkspaceFollowsRelease, PublishedIsProduction,
          AttentionHasCause, Opens, ControlOf
    <2>7. QED
      BY <2>2, <2>3, <2>4, <2>6, InvariantParts
  <1>4. QED
    BY <1>2, <1>3 DEF ReadRow

\* The outcome is a state of a workspace.
LEMMA OutcomeStates == OutcomeState \in WorkspaceStates
  BY DEF OutcomeState, WorkspaceStates

\* The control file goes first.
LEMMA WriteControlStep == ASSUME IInv, WriteControl PROVE IInv'
  <1>1. task = "lock" /\ UNCHANGED <<serviceVars, databaseVars, lister>>
    BY DEF WriteControl
  <1>2. CASE Fail /\ UNCHANGED control
    BY <1>1, <1>2, EndOutcomeStep
  <1>3. CASE /\ read.state = "ready" /\ read.draft = release.draft
             /\ control' = [state |-> OutcomeState, revision |-> read.revision + 1] /\ GotoTask("row")
    <2>1. /\ UNCHANGED <<log, known, spoiled, busy, reading, answer, content, edited, check, release, history, lease, indexed, row, lister>>
          /\ release.state \in {"succeeded", "needs_attention"}
      BY <1>1, AtOutcome DEF serviceVars, databaseVars
    <2>2. control' \in ControlRecords
      BY <1>3, Invariants, OutcomeStates DEF TaskTypeOK, RowRecords, ControlRecords
    <2>3. TaskTypeOK'
      BY <1>3, Invariants, TaskMoves DEF TaskPoints
    <2>4. TypeOK'
      BY <2>1, <2>2, <2>3, Invariants, TypeParts
      DEF ServiceTypeOK, ReleaseTypeOK, WorkspaceTypeOK, ListerTypeOK
    <2>5. ServiceIsTrue'
      BY <1>1, Invariants, ServiceFrame
    <2>6. ReleaseIsTrue'
      BY <1>1, <1>3, <2>1, Invariants, AtOutcome, SettledFrame DEF GotoTask
    <2>7. WorkspaceIsTrue'
      BY <1>1, <1>3, <2>1, Invariants
      DEF WorkspaceIsTrue, ReadIsRow, ApartByOutcome, WorkspaceFollowsRelease, PublishedIsProduction,
          AttentionHasCause, GotoTask
    <2>8. QED
      BY <2>4, <2>5, <2>6, <2>7, InvariantParts
  <1>4. QED
    BY <1>2, <1>3 DEF WriteControl

\* The outcome decides what a published and a locked workspace say of the release.
LEMMA WriteRowStep == ASSUME IInv, WriteRow PROVE IInv'
  <1>1. /\ task = "row" /\ UNCHANGED <<log, known, spoiled, busy, reading, answer, content, edited, lister>> /\ UNCHANGED serviceVars
        /\ release.state \in {"succeeded", "needs_attention"} /\ release.state \in TerminalStates
        /\ ui \in {"serving", "releases"}
        /\ read \in RowRecords /\ read.state = "ready" /\ read.draft = release.draft
        /\ read.revision <= row.revision /\ (read.revision = row.revision => read = row)
    BY Invariants, AtOutcome DEF WriteRow, serviceVars, TaskTypeOK, WorkspaceIsTrue, ReadIsRow
  <1>2. ServiceIsTrue'
    BY <1>1, Invariants, ServiceFrame
  <1>3. CASE UpdateRow(read.revision, OutcomeState) /\ EndOutcome /\ UNCHANGED control
    <2>1. /\ row' \in RowRecords /\ row'.state = OutcomeState /\ row'.revision = row.revision + 1
          /\ row'.draft = row.draft /\ row.revision = read.revision
          /\ UNCHANGED <<check, release, history, lease, indexed>>
      BY <1>3, Invariants, OutcomeStates, UpdateTyped
    <2>2. TaskTypeOK' /\ task' = "none" /\ failing' = FALSE
      BY <1>3, Invariants, TaskMoves DEF EndOutcome, Succeed, Fail, EndTask
    <2>3. TypeOK'
      BY <1>1, <1>3, <2>1, <2>2, Invariants, TypeParts
      DEF ServiceTypeOK, ReleaseTypeOK, WorkspaceTypeOK, ListerTypeOK
    <2>4. ReleaseIsTrue'
      BY <1>1, <2>1, <2>2, Invariants, SettledFrame
    <2>5. release.state = "succeeded" => content = "draft"
      BY Invariants DEF ReleaseIsTrue, VerdictIsTrue, Agrees, ServiceIsTrue
    <2>6. row'.revision > row.revision /\ row.revision \in Nat
      BY <2>1, Invariants DEF WorkspaceTypeOK, RowRecords
    <2>7. lister.at = "mark" => lister.revision <= row.revision /\ lister.revision \in Nat
      BY Invariants DEF WorkspaceIsTrue, ReadIsRow, ListerTypeOK
    <2>8. ReadIsRow'
      BY <1>1, <2>1, <2>2, <2>6, <2>7 DEF ReadIsRow, OutcomeState
    <2>9. ApartByOutcome' /\ WorkspaceFollowsRelease'
      BY <1>1, <2>1, <2>5
      DEF ApartByOutcome, WorkspaceFollowsRelease, PublishedIsProduction, AttentionHasCause, OutcomeState
    <2>10. QED
      BY <1>2, <2>3, <2>4, <2>8, <2>9, InvariantParts DEF WorkspaceIsTrue
  <1>4. CASE /\ control' = ControlOf(read) \/ UNCHANGED control
             /\ Fail /\ UNCHANGED databaseVars
    <2>1. UNCHANGED <<check, release, history, lease, indexed, row>>
      BY <1>4 DEF databaseVars
    <2>2. TaskTypeOK' /\ task' = "none" /\ failing' = FALSE
      BY <1>4, Invariants, TaskMoves DEF Fail, EndTask
    <2>3. control' \in ControlRecords
      BY <1>1, <1>4, Invariants, ControlTyped DEF WorkspaceTypeOK
    <2>4. TypeOK'
      BY <1>1, <2>1, <2>2, <2>3, Invariants, TypeParts
      DEF ServiceTypeOK, ReleaseTypeOK, WorkspaceTypeOK, ListerTypeOK
    <2>5. ReleaseIsTrue'
      BY <1>1, <2>1, <2>2, Invariants, SettledFrame
    <2>6. WorkspaceIsTrue'
      BY <1>1, <2>1, <2>2, Invariants
      DEF WorkspaceIsTrue, ReadIsRow, ApartByOutcome, WorkspaceFollowsRelease, PublishedIsProduction,
          AttentionHasCause
    <2>7. QED
      BY <1>2, <2>4, <2>5, <2>6, InvariantParts
  <1>5. QED
    BY <1>3, <1>4 DEF WriteRow

-------------------------------------------------------------------------------
(* Reconcile, when the UI process starts. *)

\* A start settles a release that no task will.
LEMMA ReconcileStep == ASSUME IInv, Reconcile PROVE IInv'
  <1>1. /\ ui = "releases" /\ task = "none" /\ failing = FALSE
        /\ UNCHANGED <<log, known, spoiled, busy, reading, answer, content, edited, control, lister>> /\ UNCHANGED serviceVars
    BY Invariants DEF Reconcile, serviceVars, ReleaseIsTrue, TaskAtRelease, TaskTypeOK
  <1>2. CASE /\ UNCHANGED databaseVars
             /\ (release.state \notin ActiveStates /\ Succeed) \/ Fail
    BY <1>1, <1>2, EndStep
  <1>3. CASE release.state = "queued" /\ Record(<<"failed">>, "failed") /\ Succeed
    <2>1. /\ ReleaseTypeOK' /\ history' = Append(history, "failed")
          /\ release'.state = "failed" /\ release'.stage = "failed" /\ release'.draft = release.draft
          /\ UNCHANGED <<check, indexed, row>>
      BY <1>3, Invariants, RecordOne
    <2>2. history = <<"queued">> /\ log = <<>> /\ known = <<>> /\ ~busy /\ content = "production" /\ lease
      BY <1>3, Invariants DEF ReleaseIsTrue, HistoryIsTheAgents, AgentIsAsked, NeverRan, ServiceIsTrue,
                              StartInOrder, ActiveStates
    <2>3. TaskTypeOK' /\ task' = "none" /\ failing' = FALSE
      BY <1>3, Invariants, TaskMoves DEF Succeed, EndTask
    <2>4. TypeOK'
      BY <1>1, <2>1, <2>3, Invariants, TypeParts DEF ServiceTypeOK, WorkspaceTypeOK, ListerTypeOK
    <2>5. ServiceIsTrue'
      BY <1>1, Invariants, ServiceFrame
    <2>6. history' = <<"queued", "failed">> /\ lease' = FALSE
      <3>1. Append(<<"queued">>, "failed") = <<"queued", "failed">>
        <4> DEFINE long == Append(<<"queued">>, "failed")
                   pair == <<"queued", "failed">>
        <4>1. long \in Seq(Stages) /\ Len(long) = 2 /\ long[1] = "queued" /\ long[2] = "failed"
          BY StageNames
        <4>2. pair \in Seq(Stages) /\ Len(pair) = 2 /\ pair[1] = "queued" /\ pair[2] = "failed"
          BY StageNames
        <4>3. \A i \in 1..Len(long) : long[i] = pair[i]
          BY <4>1, <4>2
        <4> HIDE DEF long, pair
        <4>4. long = pair
          BY <4>1, <4>2, <4>3, SeqEqual
        <4>5. QED
          BY <4>4 DEF long, pair
      <3>2. history' = <<"queued", "failed">>
        BY <2>1, <2>2, <3>1
      <3>3. QED
        BY <1>3, <3>2 DEF Record, TerminalStates
    <2>7. HistoryIsTheAgents'
      <3>1. StateOfStage("failed") = "failed"
        BY StageNames, StateFacts
      <3>2. LastStage(<<"queued", "failed">>) = "failed" /\ <<"queued", "failed">> # <<>>
        BY DEF LastStage
      <3>3. QED
        BY <2>1, <2>6, <3>1, <3>2 DEF HistoryIsTheAgents
    <2>8. AgentIsAsked' /\ TaskAtRelease' /\ ResultIsTheLog' /\ VerdictIsTrue' /\ StartInOrder'
      BY <1>1, <2>1, <2>2, <2>3, <2>6
      DEF AgentIsAsked, NeverRan, TaskAtRelease, ResultIsTheLog, VerdictIsTrue, Agrees, StartInOrder,
          ActiveStates, TerminalStates
    <2>9. WorkspaceIsTrue'
      BY <1>1, <1>3, <2>1, <2>3, Invariants, WorkspaceFrame
    <2>10. QED
      BY <2>4, <2>5, <2>7, <2>8, <2>9, InvariantParts DEF ReleaseIsTrue
  <1>4. CASE /\ release.state \in {"running", "rolling_back"} /\ GotoTask("recover")
             /\ UNCHANGED databaseVars
    <2>1. TaskTypeOK' /\ task' = "recover" /\ UNCHANGED <<mirrored, failing, result, read, ui>>
      BY <1>4, Invariants, TaskMoves DEF GotoTask, TaskPoints
    <2>2. UNCHANGED <<check, release, history, lease, indexed, row>>
      BY <1>4 DEF databaseVars
    <2>3. TypeOK'
      BY <1>1, <2>1, <2>2, Invariants, TypeParts
      DEF ServiceTypeOK, ReleaseTypeOK, WorkspaceTypeOK, ListerTypeOK
    <2>4. ServiceIsTrue'
      BY <1>1, Invariants, ServiceFrame
    <2>5. HistoryIsTheAgents'
      BY <1>1, <2>2, Invariants, HistoryFrame DEF ReleaseIsTrue
    <2>6. AgentIsAsked' /\ TaskAtRelease' /\ ResultIsTheLog' /\ VerdictIsTrue' /\ StartInOrder'
      BY <1>1, <1>4, <2>1, <2>2, Invariants
      DEF ReleaseIsTrue, AgentIsAsked, NeverRan, TaskAtRelease, ResultIsTheLog, VerdictIsTrue, Agrees, StartInOrder
    <2>7. WorkspaceIsTrue'
      BY <1>1, <2>1, <2>2, Invariants, WorkspaceFrame
    <2>8. QED
      BY <2>3, <2>4, <2>5, <2>6, <2>7, InvariantParts DEF ReleaseIsTrue
  <1>5. QED
    BY <1>2, <1>3, <1>4 DEF Reconcile

\* A release that ran is asked for again.
LEMMA RecoverStep == ASSUME IInv, Recover PROVE IInv'
  <1>1. /\ task = "recover" /\ task' \in {"recovering", "uncertain"} /\ UNCHANGED <<mirrored, failing, result, read, ui>>
        /\ release.state \in {"running", "rolling_back"} /\ failing = FALSE
        /\ UNCHANGED <<check, release, history, lease, indexed, row, control, lister>>
        /\ ui \in {"serving", "releases"}
    BY Invariants DEF Recover, GotoTask, ReleaseIsTrue, TaskAtRelease, TaskTypeOK, databaseVars, StartInOrder
  <1>2. CallBegins \/ UNCHANGED serviceVars
    BY DEF Recover
  <1>3. ServiceIsTrue' /\ UNCHANGED <<log, known, content, edited>>
    BY <1>2, Invariants, CallIsTrue, ServiceFrame DEF serviceVars
  <1>4. ServiceTypeOK'
    BY <1>2, Invariants, ServiceTyped DEF serviceVars, ServiceTypeOK
  <1>5. TypeOK'
    BY <1>1, <1>4, Invariants, TypeParts DEF ReleaseTypeOK, WorkspaceTypeOK, TaskTypeOK, ListerTypeOK, TaskPoints
  <1>6. ~NeverRan
    BY <1>1, Invariants, ActiveHistory DEF ReleaseIsTrue
  <1>7. HistoryIsTheAgents'
    BY <1>1, <1>3, Invariants, HistoryFrame DEF ReleaseIsTrue
  <1>8. AgentIsAsked' /\ TaskAtRelease' /\ ResultIsTheLog' /\ VerdictIsTrue' /\ StartInOrder'
    BY <1>1, <1>3, <1>6, Invariants
    DEF ReleaseIsTrue, AgentIsAsked, NeverRan, TaskAtRelease, ResultIsTheLog, VerdictIsTrue, Agrees, StartInOrder
  <1>9. WorkspaceIsTrue'
    BY <1>1, <1>3, Invariants, WorkspaceFrame
  <1>10. QED
    BY <1>3, <1>5, <1>7, <1>8, <1>9, InvariantParts DEF ReleaseIsTrue

\* A recovery answers, and its stages go on from those stored.
LEMMA RecoveredStep == ASSUME IInv, Recovered PROVE IInv'
  <1> DEFINE n == Len(history) - 1
  <1>1. PICK a \in {answer, NoAnswer} :
          /\ Receive(a)
          /\ \/ /\ Len(a.stages) >= n /\ \A i \in 1..n : history[i + 1] = a.stages[i]
                /\ ValidResult(a, n) /\ task' = "index" /\ mirrored' = n /\ result' = a
                /\ UNCHANGED <<failing, read, ui>>
             \/ GotoTask("uncertain")
    BY DEF Recovered
  <1>2. /\ task = "recovering" /\ release.state \in {"running", "rolling_back"} /\ failing = FALSE
        /\ a \in AnswerRecords /\ answer' = NoAnswer /\ ui \in {"serving", "releases"}
        /\ UNCHANGED <<log, known, spoiled, busy, reading, content, edited, check, release, history, lease, indexed, row, control, lister>>
    BY <1>1, Invariants, NoAnswerTyped
    DEF Recovered, Receive, evidenceVars, ReleaseIsTrue, TaskAtRelease, TaskTypeOK, ServiceTypeOK, AnswerRecords,
        databaseVars, StartInOrder
  <1>3. ServiceIsTrue' /\ ServiceTypeOK'
    BY <1>2, Invariants, NoAnswerTyped DEF ServiceIsTrue, Agrees, NoAnswer, ServiceTypeOK, AnswerRecords
  <1>4. HistoryIsTheAgents' /\ ~NeverRan /\ ~NeverRan' /\ n \in Nat
    BY <1>2, Invariants, HistoryFrame, ActiveHistory DEF ReleaseIsTrue, NeverRan
  <1>5. CASE GotoTask("uncertain")
    <2>1. TaskTypeOK'
      BY <1>5, Invariants, TaskMoves DEF TaskPoints
    <2>2. TypeOK'
      BY <1>2, <1>3, <1>5, <2>1, Invariants, TypeParts DEF ReleaseTypeOK, WorkspaceTypeOK, ListerTypeOK
    <2>3. AgentIsAsked' /\ TaskAtRelease' /\ ResultIsTheLog' /\ VerdictIsTrue' /\ StartInOrder'
      BY <1>2, <1>4, <1>5, Invariants
      DEF ReleaseIsTrue, AgentIsAsked, TaskAtRelease, ResultIsTheLog, VerdictIsTrue, Agrees, StartInOrder,
          GotoTask, ActiveStates
    <2>4. WorkspaceIsTrue'
      BY <1>2, <1>5, Invariants, WorkspaceFrame DEF GotoTask
    <2>5. QED
      BY <1>3, <1>4, <2>2, <2>3, <2>4, InvariantParts DEF ReleaseIsTrue
  <1>6. CASE /\ Len(a.stages) >= n /\ \A i \in 1..n : history[i + 1] = a.stages[i]
             /\ ValidResult(a, n) /\ task' = "index" /\ mirrored' = n /\ result' = a
             /\ UNCHANGED <<failing, read, ui>>
    <2>1. a.stages = known /\ known # <<>> /\ ~busy /\ Agrees(a.state)
      BY <1>4, <1>6, Invariants, UsableAnswer
    <2>7. AgreesUpTo(history, known, Len(history))
      <3>1. Known(known) = known /\ Len(known) >= n /\ Len(history) = n + 1 /\ Len(history) >= 1
        BY <1>4, <1>6, <2>1, Invariants DEF Known, ReleaseTypeOK
      <3>2. ASSUME NEW i \in 2..Len(history) PROVE history[i] = known[i - 1]
        <4>1. i - 1 \in 1..n /\ (i - 1) + 1 = i
          BY <1>4, <3>1
        <4>2. QED
          BY <1>6, <2>1, <4>1
      <3>3. Len(known) \in Nat
        BY Invariants DEF ServiceTypeOK
      <3>4. QED
        BY <1>4, <3>1, <3>2, <3>3 DEF AgreesUpTo
    <2>2. TypeOK'
      BY <1>2, <1>3, <1>4, <1>6, Invariants, TypeParts
      DEF ReleaseTypeOK, WorkspaceTypeOK, ListerTypeOK, TaskTypeOK, TaskPoints
    <2>3. ValidResult(result, mirrored)' /\ Agrees(result.state)'
      BY <1>2, <1>6, <2>1 DEF ValidResult, ValidProgress, RequiresBackup, Agrees
    <2>4. AgentIsAsked' /\ TaskAtRelease' /\ ResultIsTheLog' /\ VerdictIsTrue' /\ StartInOrder'
      BY <1>2, <1>4, <1>6, <2>1, <2>3, <2>7, Invariants
      DEF ReleaseIsTrue, AgentIsAsked, TaskAtRelease, ResultIsTheLog, VerdictIsTrue, Agrees, StartInOrder,
          ActiveStates
    <2>5. WorkspaceIsTrue'
      BY <1>2, <1>6, Invariants, WorkspaceFrame
    <2>6. QED
      BY <1>3, <1>4, <2>2, <2>4, <2>5, InvariantParts DEF ReleaseIsTrue
  <1>7. QED
    BY <1>1, <1>5, <1>6

-------------------------------------------------------------------------------
(* The row and the control file, outside of a release. *)

\* The release and the Agent do not see what happens to the workspace.
LEMMA ReleaseFrame ==
  ASSUME ReleaseIsTrue, UNCHANGED <<log, known, spoiled, busy, reading, content, edited, release, history, lease, indexed>>,
         UNCHANGED <<task, mirrored, failing, result>>,
         ui' = ui \/ (task = "none" /\ (ui' = "workspaces" => release.state \notin ActiveStates))
  PROVE  ReleaseIsTrue'
  <1>1. HistoryIsTheAgents' /\ ResultIsTheLog'
    BY HistoryFrame, ResultFrame DEF ReleaseIsTrue
  <1>2. AgentIsAsked' /\ TaskAtRelease' /\ VerdictIsTrue' /\ StartInOrder'
    BY DEF ReleaseIsTrue, AgentIsAsked, TaskAtRelease, VerdictIsTrue, StartInOrder, NeverRan, Agrees
  <1>3. QED
    BY <1>1, <1>2 DEF ReleaseIsTrue

\* The row of a ready workspace moves on to another revision.
LEMMA RowMovesOn ==
  ASSUME ReadIsRow, WorkspaceTypeOK, TaskTypeOK, ListerTypeOK,
         row' \in RowRecords, row'.revision = row.revision + 1,
         task \in {"lock", "row"} => UNCHANGED <<task, read, release>>,
         task' = task, UNCHANGED lister,
         row'.state = "ready" => row.state = "ready"
  PROVE  ReadIsRow'
  <1>1. row.revision \in Nat /\ read.revision \in Nat /\ lister.revision \in Nat
    BY DEF WorkspaceTypeOK, TaskTypeOK, ListerTypeOK, RowRecords
  <1>2. QED
    BY <1>1 DEF ReadIsRow

\* A start compares the two records of the workspace.
LEMMA ReconcileWorkspaceStep == ASSUME IInv, ReconcileWorkspace PROVE IInv'
  <1>1. /\ ui = "workspaces" /\ task = "none" /\ ui' \in {"serving", "down"}
        /\ UNCHANGED <<log, known, spoiled, busy, reading, answer, content, edited, task, mirrored, failing, result, read, lister>>
        /\ UNCHANGED serviceVars
    BY Invariants DEF ReconcileWorkspace, serviceVars, taskVars, ReleaseIsTrue, StartInOrder
  <1>2. ServiceIsTrue'
    BY <1>1, Invariants, ServiceFrame
  <1>3. TaskTypeOK'
    BY <1>1, Invariants DEF TaskTypeOK
  <1>4. CASE UNCHANGED databaseVars /\ (UNCHANGED control \/ control' = ControlOf(row))
    <2>1. UNCHANGED <<check, release, history, lease, indexed, row>>
      BY <1>4 DEF databaseVars
    <2>2. control' \in ControlRecords
      BY <1>4, Invariants, ControlTyped DEF WorkspaceTypeOK
    <2>3. TypeOK'
      BY <1>1, <1>3, <2>1, <2>2, Invariants, TypeParts
      DEF ServiceTypeOK, ReleaseTypeOK, WorkspaceTypeOK, ListerTypeOK
    <2>4. ReleaseIsTrue'
      BY <1>1, <2>1, Invariants, ReleaseFrame
    <2>5. WorkspaceIsTrue'
      BY <1>1, <1>4, <2>1, Invariants
      DEF WorkspaceIsTrue, ReadIsRow, ApartByOutcome, WorkspaceFollowsRelease, PublishedIsProduction,
          AttentionHasCause, Opens, ControlOf
    <2>6. QED
      BY <1>2, <2>3, <2>4, <2>5, InvariantParts
  <1>5. CASE /\ row.state = "ready"
             /\ \/ control.state # "ready" \/ control.revision > row.revision
                \/ StoreFails /\ control.revision < row.revision
             /\ UpdateRow(row.revision, "needs_attention")
             /\ control' \in {control, ControlOf(row')}
    <2>1. /\ row' \in RowRecords /\ ControlOf(row') \in ControlRecords
          /\ row'.state = "needs_attention" /\ row'.revision = row.revision + 1 /\ row'.draft = row.draft
          /\ UNCHANGED <<check, release, history, lease, indexed>>
      BY <1>5, Invariants, UpdateTyped DEF WorkspaceStates
    <2>2. TypeOK'
      BY <1>1, <1>3, <1>5, <2>1, Invariants, TypeParts
      DEF ServiceTypeOK, ReleaseTypeOK, WorkspaceTypeOK, ListerTypeOK
    <2>3. ReleaseIsTrue'
      BY <1>1, <2>1, Invariants, ReleaseFrame
    <2>4. row.revision \in Nat /\ control.revision \in Nat
      BY Invariants DEF WorkspaceTypeOK, RowRecords, ControlRecords
    <2>5. ~Opens
      BY <1>5, <2>4 DEF Opens, ControlOf
    <2>6. release.state \in {"succeeded", "needs_attention"}
      BY <1>5, <2>5, Invariants DEF WorkspaceIsTrue, ApartByOutcome
    <2>7. ReadIsRow'
      BY <1>1, <2>1, Invariants, RowMovesOn DEF WorkspaceIsTrue
    <2>8. ApartByOutcome' /\ WorkspaceFollowsRelease'
      BY <2>1, <2>6 DEF ApartByOutcome, WorkspaceFollowsRelease, PublishedIsProduction, AttentionHasCause
    <2>9. QED
      BY <1>2, <2>2, <2>3, <2>7, <2>8, InvariantParts DEF WorkspaceIsTrue
  <1>6. QED
    <2>1. \/ UNCHANGED <<databaseVars, control>>
          \/ control' = ControlOf(row) /\ UNCHANGED databaseVars
          \/ /\ row.state = "ready"
             /\ \/ control.state # "ready" \/ control.revision > row.revision
                \/ StoreFails /\ control.revision < row.revision
             /\ UpdateRow(row.revision, "needs_attention")
             /\ control' \in {control, ControlOf(row')}
      BY DEF ReconcileWorkspace
    <2>2. CASE UNCHANGED <<databaseVars, control>>
      <3>1. UNCHANGED databaseVars /\ UNCHANGED control
        BY <2>2
      <3>2. QED
        BY <1>4, <3>1
    <2>3. CASE control' = ControlOf(row) /\ UNCHANGED databaseVars
      BY <1>4, <2>3
    <2>4. CASE /\ row.state = "ready"
               /\ \/ control.state # "ready" \/ control.revision > row.revision
                  \/ StoreFails /\ control.revision < row.revision
               /\ UpdateRow(row.revision, "needs_attention")
               /\ control' \in {control, ControlOf(row')}
      BY <1>5, <2>4
    <2>5. QED
      BY <2>1, <2>2, <2>3, <2>4

\* Check keeps nothing but its evidence.
LEMMA CheckStep == ASSUME IInv, Check PROVE IInv'
  <1>1. /\ UNCHANGED <<log, known, spoiled, busy, reading, answer, content, edited, release, history, lease, indexed, row, control, ui,
                       task, mirrored, failing, result, read, lister>>
        /\ check' = [draft |-> row.draft, revision |-> row.revision] /\ UNCHANGED serviceVars
    BY DEF Check, serviceVars, workspaceVars, taskVars
  <1>2. TypeOK'
    BY <1>1, Invariants, TypeParts
    DEF ServiceTypeOK, ReleaseTypeOK, WorkspaceTypeOK, TaskTypeOK, ListerTypeOK, RowRecords
  <1>3. ServiceIsTrue' /\ ReleaseIsTrue' /\ WorkspaceIsTrue'
    BY <1>1, Invariants, ServiceFrame, ReleaseFrame, WorkspaceFrame
  <1>4. QED
    BY <1>2, <1>3, InvariantParts

\* A release is queued with the draft that was checked.
LEMMA QueueStep == ASSUME IInv, Queue PROVE IInv'
  <1>1. /\ ui = "serving" /\ release.state = "none" /\ history = <<>>
        /\ log = <<>> /\ known = <<>> /\ ~busy /\ content = "production"
        /\ release' = [state |-> "queued", stage |-> "queued", draft |-> check.draft]
        /\ history' = <<"queued">> /\ lease' = TRUE
        /\ task' \in {"start", "none"} /\ UNCHANGED <<mirrored, failing, result, read, ui>>
        /\ UNCHANGED <<log, known, spoiled, busy, reading, answer, content, edited, check, indexed, row, control, lister>>
        /\ UNCHANGED serviceVars /\ task \notin {"lock", "row"} /\ failing = FALSE
    BY Invariants
    DEF Queue, GotoTask, serviceVars, workspaceVars, ReleaseIsTrue, HistoryIsTheAgents, AgentIsAsked,
        NeverRan, ServiceIsTrue, TaskAtRelease, TaskTypeOK, TerminalStates
  <1>2. check.draft \in 0..Edits /\ "queued" \in Stages /\ "queued" \in ReleaseStates
    BY Invariants, StageNames DEF WorkspaceTypeOK, ReleaseStates
  <1>3. TypeOK'
    <2>1. ReleaseTypeOK'
      BY <1>1, <1>2, Invariants DEF ReleaseTypeOK, ReleaseRecords
    <2>2. QED
      BY <1>1, <2>1, Invariants, TypeParts
      DEF ServiceTypeOK, WorkspaceTypeOK, ListerTypeOK, TaskTypeOK, TaskPoints
  <1>4. ServiceIsTrue'
    BY <1>1, Invariants, ServiceFrame
  <1>5. HistoryIsTheAgents'
    <2>1. StateOfStage("queued") = "queued"
      BY <1>2, StateFacts
    <2>2. Len(history') = 1 /\ history'[1] = "queued" /\ history' # <<>>
      BY <1>1
    <2>3. AgreesUpTo(history', <<>>, Len(history'))
      BY <2>2 DEF AgreesUpTo, Known
    <2>4. OfTheAgent(Len(history))'
      BY <1>1, <2>3 DEF OfTheAgent
    <2>5. QED
      BY <1>1, <2>1, <2>2, <2>4 DEF HistoryIsTheAgents, LastStage
  <1>6. AgentIsAsked' /\ TaskAtRelease' /\ ResultIsTheLog' /\ VerdictIsTrue' /\ StartInOrder'
    BY <1>1, Invariants
    DEF ReleaseIsTrue, AgentIsAsked, TaskAtRelease, ResultIsTheLog, VerdictIsTrue, Agrees, StartInOrder,
        ActiveStates
  <1>7. WorkspaceIsTrue'
    BY <1>1, Invariants, WorkspaceFrame
  <1>8. QED
    BY <1>3, <1>4, <1>5, <1>6, <1>7, InvariantParts DEF ReleaseIsTrue

\* The draft is edited under the lock, or found stale.
LEMMA EditDraftStep == ASSUME IInv, EditDraft PROVE IInv'
  <1>1. /\ ui = "serving" /\ task # "row" /\ row.state = "ready" /\ Opens /\ row.draft < Edits
        /\ UNCHANGED <<log, known, spoiled, busy, reading, answer, content, edited, ui, task, mirrored, failing, result, read, lister>>
        /\ UNCHANGED serviceVars
    BY DEF EditDraft, serviceVars, taskVars
  <1>2. ServiceIsTrue'
    BY <1>1, Invariants, ServiceFrame
  <1>3. CASE /\ row' = [row EXCEPT !.revision = @ + 1, !.draft = @ + 1]
             /\ control' = ControlOf(row')
             /\ UNCHANGED <<check, release, history, lease, indexed>>
    <2>1. row \in RowRecords
      BY Invariants DEF WorkspaceTypeOK
    <2>2. row' = [state |-> "ready", revision |-> row.revision + 1, draft |-> row.draft + 1]
      BY <1>1, <1>3, <2>1 DEF RowRecords
    <2>3. row.revision + 1 \in Nat /\ row.draft + 1 \in 0..Edits
      BY <1>1, <2>1 DEF RowRecords
    <2>4. row' \in RowRecords /\ row'.state = "ready" /\ row'.revision = row.revision + 1
      BY <2>2, <2>3 DEF RowRecords, WorkspaceStates
    <2>5. control' \in ControlRecords
      BY <1>3, <2>4, ControlTyped
    <2>6. TypeOK'
      BY <1>1, <1>3, <2>4, <2>5, Invariants, TypeParts
      DEF ServiceTypeOK, ReleaseTypeOK, WorkspaceTypeOK, TaskTypeOK, ListerTypeOK
    <2>7. ReleaseIsTrue'
      BY <1>1, <1>3, Invariants, ReleaseFrame
    <2>8. ReadIsRow'
      BY <1>1, <1>3, <2>4, Invariants, RowMovesOn DEF WorkspaceIsTrue
    <2>9. ApartByOutcome' /\ WorkspaceFollowsRelease'
      BY <1>3, <2>4
      DEF ApartByOutcome, Opens, WorkspaceFollowsRelease, PublishedIsProduction, AttentionHasCause, ControlOf
    <2>10. QED
      BY <1>2, <2>6, <2>7, <2>8, <2>9, InvariantParts DEF WorkspaceIsTrue
  <1>4. CASE /\ UpdateRow(row.revision, "stale")
             /\ control' = ControlOf(row') \/ UNCHANGED control
    <2>1. /\ row' \in RowRecords /\ ControlOf(row') \in ControlRecords
          /\ row'.state = "stale" /\ row'.revision = row.revision + 1
          /\ UNCHANGED <<check, release, history, lease, indexed>>
      BY <1>4, Invariants, UpdateTyped DEF WorkspaceStates
    <2>2. TypeOK'
      BY <1>1, <1>4, <2>1, Invariants, TypeParts
      DEF ServiceTypeOK, ReleaseTypeOK, WorkspaceTypeOK, TaskTypeOK, ListerTypeOK
    <2>3. ReleaseIsTrue'
      BY <1>1, <2>1, Invariants, ReleaseFrame
    <2>4. ReadIsRow'
      BY <1>1, <2>1, Invariants, RowMovesOn DEF WorkspaceIsTrue
    <2>5. ApartByOutcome' /\ WorkspaceFollowsRelease'
      BY <2>1 DEF ApartByOutcome, WorkspaceFollowsRelease, PublishedIsProduction, AttentionHasCause
    <2>6. QED
      BY <1>2, <2>2, <2>3, <2>4, <2>5, InvariantParts DEF WorkspaceIsTrue
  <1>5. QED
    BY <1>3, <1>4 DEF EditDraft

\* A listing reads a ready row and a changed production.
LEMMA ListSeesStep == ASSUME IInv, ListSees PROVE IInv'
  <1>1. /\ row.state = "ready" /\ lister' = [at |-> "mark", revision |-> row.revision]
        /\ UNCHANGED <<log, known, spoiled, busy, reading, answer, content, edited, check, release, history, lease, indexed, row, control, ui,
                       task, mirrored, failing, result, read>>
        /\ UNCHANGED serviceVars /\ row.revision \in Nat
    BY Invariants DEF ListSees, serviceVars, databaseVars, taskVars, WorkspaceTypeOK, RowRecords
  <1>2. TypeOK'
    BY <1>1, Invariants, TypeParts DEF ServiceTypeOK, ReleaseTypeOK, WorkspaceTypeOK, TaskTypeOK, ListerTypeOK
  <1>3. ServiceIsTrue' /\ ReleaseIsTrue'
    BY <1>1, Invariants, ServiceFrame, ReleaseFrame
  <1>4. WorkspaceIsTrue'
    BY <1>1, Invariants
    DEF WorkspaceIsTrue, ReadIsRow, ApartByOutcome, WorkspaceFollowsRelease, PublishedIsProduction,
        AttentionHasCause, Opens, ControlOf
  <1>5. QED
    BY <1>2, <1>3, <1>4, InvariantParts

\* A listing marks the row it read, if it is still the same.
LEMMA ListMarksStep == ASSUME IInv, ListMarks PROVE IInv'
  <1>1. /\ lister.at = "mark"
        /\ UNCHANGED <<log, known, spoiled, busy, reading, answer, content, edited, control, ui, task, mirrored, failing, result, read>>
        /\ UNCHANGED serviceVars
    BY DEF ListMarks, serviceVars, taskVars
  <1>2. CASE UpdateRow(lister.revision, "stale") /\ lister' = [lister EXCEPT !.at = "write"]
    <2>1. /\ row' \in RowRecords /\ row'.state = "stale" /\ row'.revision = row.revision + 1
          /\ UNCHANGED <<check, release, history, lease, indexed>>
      BY <1>2, Invariants, UpdateTyped DEF WorkspaceStates
    <2>2. lister' \in [at : {"idle", "mark", "write"}, revision : Nat] /\ lister'.at = "write"
      BY <1>2, Invariants DEF ListerTypeOK
    <2>3. TypeOK'
      BY <1>1, <2>1, <2>2, Invariants, TypeParts
      DEF ServiceTypeOK, ReleaseTypeOK, WorkspaceTypeOK, TaskTypeOK, ListerTypeOK
    <2>4. ServiceIsTrue' /\ ReleaseIsTrue'
      BY <1>1, <2>1, Invariants, ServiceFrame, ReleaseFrame
    <2>5. row.revision \in Nat /\ read.revision \in Nat
      BY Invariants DEF WorkspaceTypeOK, TaskTypeOK, RowRecords
    <2>6. task # "row" \/ read.revision < row'.revision
      BY <2>1, <2>5, Invariants DEF WorkspaceIsTrue, ReadIsRow
    <2>7. WorkspaceIsTrue'
      BY <1>1, <2>1, <2>2, <2>5, Invariants
      DEF WorkspaceIsTrue, ReadIsRow, ApartByOutcome, WorkspaceFollowsRelease, PublishedIsProduction,
          AttentionHasCause
    <2>8. QED
      BY <2>3, <2>4, <2>7, InvariantParts
  <1>3. CASE lister' = Idle /\ UNCHANGED databaseVars
    <2>1. UNCHANGED <<check, release, history, lease, indexed, row>>
      BY <1>3 DEF databaseVars
    <2>2. ListerTypeOK'
      BY <1>3 DEF ListerTypeOK, Idle
    <2>3. TypeOK'
      BY <1>1, <2>1, <2>2, Invariants, TypeParts
      DEF ServiceTypeOK, ReleaseTypeOK, WorkspaceTypeOK, TaskTypeOK
    <2>4. ServiceIsTrue' /\ ReleaseIsTrue' /\ WorkspaceIsTrue'
      BY <1>1, <1>3, <2>1, Invariants, ServiceFrame, ReleaseFrame, WorkspaceFrame
    <2>5. QED
      BY <2>3, <2>4, InvariantParts
  <1>4. QED
    BY <1>2, <1>3 DEF ListMarks

\* A listing writes the control file of a row that is no longer ready.
LEMMA ListWritesStep == ASSUME IInv, ListWrites PROVE IInv'
  <1>1. /\ lister.at = "write" /\ lister' = Idle
        /\ control' = [state |-> "stale", revision |-> lister.revision + 1] \/ UNCHANGED control
        /\ UNCHANGED <<log, known, spoiled, busy, reading, answer, content, edited, check, release, history, lease, indexed, row, ui,
                       task, mirrored, failing, result, read>>
        /\ UNCHANGED serviceVars
    BY DEF ListWrites, serviceVars, databaseVars, taskVars
  <1>2. ListerTypeOK'
    BY <1>1 DEF ListerTypeOK, Idle
  <1>3. control' \in ControlRecords
    BY <1>1, Invariants DEF ListerTypeOK, WorkspaceTypeOK, ControlRecords, WorkspaceStates
  <1>4. TypeOK'
    BY <1>1, <1>2, <1>3, Invariants, TypeParts DEF ServiceTypeOK, ReleaseTypeOK, WorkspaceTypeOK, TaskTypeOK
  <1>5. ServiceIsTrue' /\ ReleaseIsTrue'
    BY <1>1, Invariants, ServiceFrame, ReleaseFrame
  <1>6. WorkspaceIsTrue'
    BY <1>1, Invariants
    DEF WorkspaceIsTrue, ReadIsRow, ApartByOutcome, WorkspaceFollowsRelease, PublishedIsProduction,
        AttentionHasCause, Idle
  <1>7. QED
    BY <1>4, <1>5, <1>6, InvariantParts

-------------------------------------------------------------------------------
(* The processes. *)

\* The UI process dies and forgets what it read.
LEMMA UIDiesStep == ASSUME IInv, UIDies PROVE IInv'
  <1>1. /\ ui' = "down" /\ task' = "none" /\ mirrored' = 0 /\ failing' = FALSE
        /\ result' = NoAnswer /\ read' = Unread /\ lister' = Idle /\ answer' = NoAnswer
        /\ UNCHANGED <<log, known, spoiled, busy, reading, content, edited, check, release, history, lease, indexed, row, control>>
    BY DEF UIDies, evidenceVars, databaseVars
  <1>2. Unread \in RowRecords
    BY DEF Unread, RowRecords, WorkspaceStates
  <1>3. ServiceTypeOK' /\ TaskTypeOK' /\ ListerTypeOK'
    BY <1>1, <1>2, NoAnswerTyped, Invariants
    DEF ServiceTypeOK, TaskTypeOK, ListerTypeOK, TaskPoints, AnswerRecords, Idle
  <1>4. TypeOK'
    BY <1>1, <1>3, Invariants, TypeParts DEF ReleaseTypeOK, WorkspaceTypeOK
  <1>5. ServiceIsTrue'
    BY <1>1, Invariants DEF ServiceIsTrue, Agrees, NoAnswer
  <1>6. ReleaseIsTrue' /\ WorkspaceIsTrue'
    BY <1>1, Invariants, EndFrame, WorkspaceFrame
  <1>7. QED
    BY <1>4, <1>5, <1>6, InvariantParts

\* The UI process starts, before it reconciles anything.
LEMMA UIStartsStep == ASSUME IInv, UIStarts PROVE IInv'
  <1>1. /\ ui = "down" /\ ui' = "releases"
        /\ UNCHANGED <<log, known, spoiled, busy, reading, answer, content, edited, check, release, history, lease, indexed, row, control,
                       task, mirrored, failing, result, read, lister>>
        /\ UNCHANGED serviceVars
    BY DEF UIStarts, serviceVars, databaseVars, taskVars
  <1>2. TypeOK'
    BY <1>1, Invariants, TypeParts DEF ServiceTypeOK, ReleaseTypeOK, WorkspaceTypeOK, TaskTypeOK, ListerTypeOK
  <1>3. task = "none"
    BY <1>1, Invariants DEF ReleaseIsTrue, StartInOrder
  <1>4. ServiceIsTrue' /\ ReleaseIsTrue' /\ WorkspaceIsTrue'
    BY <1>1, <1>3, Invariants, ServiceFrame, ReleaseFrame, WorkspaceFrame
  <1>5. QED
    BY <1>2, <1>4, InvariantParts

\* While an Agent works for a release its log may grow, and production changes only when a stage is
\* known; an answer tells what the call knows when it ends.
LEMMA ServiceStep ==
  ASSUME ServiceTypeOK, ServiceIsTrue, Work \/ CallEnds \/ AgentDies
  PROVE  /\ ServiceIsTrue' /\ ServiceTypeOK'
         /\ ~busy => UNCHANGED <<log, known, busy, content, edited>>
         /\ Extends(log', log) /\ Extends(known', known) /\ edited' = edited
         /\ busy' => busy
  <1>0. ServiceTypeOK'
    BY ServiceTyped
  <1>1. /\ log \in Seq(Stages) /\ known \in Seq(Stages) /\ spoiled \in BOOLEAN /\ edited \in BOOLEAN
        /\ Evidence(log, known, spoiled)
    BY DEF ServiceTypeOK, ServiceIsTrue
  <1>2. /\ Evidence(log', known', spoiled') /\ Extends(log', log) /\ Extends(known', known)
        /\ known' = <<>> => known = <<>>
    <2>1. CASE log' = log /\ spoiled' \in {spoiled, TRUE} /\ known' = known
      <3>1. Evidence(log, known, TRUE) /\ (spoiled' = spoiled \/ spoiled' = TRUE)
        BY <1>1, <2>1 DEF Evidence
      <3>2. Extends(log, log) /\ Extends(known, known)
        BY <1>1 DEF Extends
      <3>3. QED
        BY <1>1, <2>1, <3>1, <3>2
    <2>2. CASE log' = log /\ spoiled' \in {spoiled, TRUE} /\ known' = log /\ ~spoiled
      <3>1. Evidence(log, log, spoiled') /\ Extends(log, known) /\ Extends(log, log)
        BY <1>1, <2>2, EvidenceIsRead DEF Evidence, Extends
      <3>2. log = <<>> => known = <<>>
        BY <1>1, <3>1 DEF Extends
      <3>3. QED
        BY <2>2, <3>1, <3>2
    <2>3. ASSUME NEW s \in Successors(log, edited), log' = Append(log, s),
                 ~spoiled, ~spoiled', known' \in {log, log'}
          PROVE  /\ Evidence(log', known', spoiled') /\ Extends(log', log) /\ Extends(known', known)
                 /\ known' = <<>> => known = <<>>
      <3>1. s \in Stages /\ spoiled' = FALSE
        BY <1>1, <2>3, SuccessorIsStage, EvidenceTyped
      <3>2. Evidence(log', known', spoiled')
        <4>1. Evidence(Append(log, s), log, FALSE) /\ Evidence(Append(log, s), Append(log, s), FALSE)
          <5>1. log # <<>> => log[1] = "rechecking"
            BY <1>1 DEF Evidence
          <5>2. QED
            BY <1>1, <5>1, EvidenceGrows
        <4>2. QED
          BY <2>3, <3>1, <4>1
      <3>3. Extends(log, known) /\ Extends(log', log) /\ Len(log') = Len(log) + 1 /\ log' # <<>>
            /\ \A i \in 1..Len(log) : log'[i] = log[i]
        BY <1>1, <2>3, <3>1, Longer DEF Evidence
      <3>4. Extends(log', known)
        BY <1>1, <3>3 DEF Extends
      <3>5. log = <<>> => known = <<>>
        BY <1>1, <3>3 DEF Extends
      <3>6. QED
        BY <2>3, <3>2, <3>3, <3>4, <3>5
    <2>4. ASSUME NEW s \in Successors(known, edited), known' = Append(known, s), log' = log, spoiled' = TRUE
          PROVE  /\ Evidence(log', known', spoiled') /\ Extends(log', log) /\ Extends(known', known)
                 /\ known' = <<>> => known = <<>>
      <3>1. s \in Stages
        BY <1>1, SuccessorIsStage
      <3>2. Evidence(log', known', spoiled')
        BY <1>1, <2>4, EvidenceGoesOn
      <3>3. Extends(known', known) /\ known' # <<>> /\ Extends(log, log)
        BY <1>1, <2>4, <3>1, Longer DEF Extends
      <3>4. QED
        BY <2>4, <3>2, <3>3
    <2>5. QED
      BY <2>1, <2>2, <2>3, <2>4, EvidenceMoves
  <1>3. edited' = edited /\ edited = FALSE
    BY EvidenceMoves DEF ServiceIsTrue
  <1>4. CASE Work
    <2>1. busy /\ busy' = busy /\ answer' = answer /\ answer = NoAnswer
      BY <1>4 DEF Work, ServiceIsTrue
    <2>2. known' = <<>> => content' = "production"
      <3>1. CASE MayWrite /\ UNCHANGED evidenceVars
        BY <3>1 DEF MayWrite, evidenceVars
      <3>2. CASE UNCHANGED content
        BY <1>2, <3>2 DEF ServiceIsTrue
      <3>3. QED
        BY <1>4, <3>1, <3>2 DEF Work
    <2>3. Agrees(answer.state)'
      BY <2>1 DEF Agrees, NoAnswer
    <2>4. QED
      BY <1>0, <1>2, <1>3, <2>1, <2>2, <2>3 DEF ServiceIsTrue
  <1>5. CASE CallEnds
    <2>1. busy /\ busy' = FALSE /\ content' = content
      BY <1>5 DEF CallEnds
    <2>2. Agrees(answer.state)'
      BY <1>5 DEF CallEnds, Agrees, NoAnswer, Uncertain
    <2>3. answer' \notin {NoAnswer, Uncertain} => answer'.stages = known'
      BY <1>5 DEF CallEnds, Answers
    <2>4. known' = <<>> => content' = "production"
      BY <1>2, <2>1 DEF ServiceIsTrue
    <2>5. QED
      BY <1>0, <1>2, <1>3, <2>1, <2>2, <2>3, <2>4 DEF ServiceIsTrue
  <1>6. CASE AgentDies
    <2>1. busy' = FALSE /\ answer' = NoAnswer /\ UNCHANGED <<log, known, content>>
      BY <1>6 DEF AgentDies, evidenceVars
    <2>2. ServiceIsTrue'
      BY <1>2, <1>3, <2>1 DEF ServiceIsTrue, Agrees, NoAnswer
    <2>3. busy \in BOOLEAN
      BY DEF ServiceTypeOK
    <2>4. QED
      BY <1>0, <1>2, <1>3, <2>1, <2>2, <2>3
  <1>7. QED
    BY <1>4, <1>5, <1>6

\* The history is the Agent's still when the log has grown.
LEMMA GrowingLog ==
  ASSUME log \in Seq(Stages), known \in Seq(Stages), log' \in Seq(Stages), known' \in Seq(Stages),
         history \in Seq(Stages), HistoryIsTheAgents, Extends(log', log), Extends(known', known),
         \A l \in {log', known'} : l # <<>> => l[1] = "rechecking", UNCHANGED <<release, history>>
  PROVE  HistoryIsTheAgents'
  <1>1. ASSUME NEW n \in Int, OfTheAgent(n)
        PROVE  \E l \in {log', known'} : AgreesUpTo(history', l, n)
    <2>1. CASE AgreesUpTo(history, log, n)
      <3>1. AgreesUpTo(history, log', n)
        BY <2>1, StillAgrees
      <3>2. QED
        BY <3>1
    <2>2. CASE AgreesUpTo(history, known, n)
      <3>1. AgreesUpTo(history, known', n)
        BY <2>2, StillAgrees
      <3>2. QED
        BY <3>1
    <2>3. QED
      BY <1>1, <2>1, <2>2 DEF OfTheAgent
  <1>2. Len(history) \in Int /\ Len(history) - 1 \in Int /\ Len(history') = Len(history)
    OBVIOUS
  <1>3. OfTheAgent(Len(history)) => OfTheAgent(Len(history))'
    BY <1>1, <1>2 DEF OfTheAgent
  <1>4. OfTheAgent(Len(history) - 1) => OfTheAgent(Len(history) - 1)'
    BY <1>1, <1>2 DEF OfTheAgent
  <1>5. QED
    BY <1>3, <1>4 DEF HistoryIsTheAgents

\* The first entries of a log.
LEMMA FirstOf ==
  ASSUME NEW l \in Seq(Stages), NEW k \in Nat, k <= Len(l)
  PROVE  /\ SubSeq(l, 1, k) \in Seq(Stages) /\ Len(SubSeq(l, 1, k)) = k
         /\ \A i \in 1..k : SubSeq(l, 1, k)[i] = l[i]
  OBVIOUS

\* The Agent works, answers or dies, for an active release only.
LEMMA AgentStep == ASSUME IInv, Agent PROVE IInv'
  <1>1. /\ Work \/ CallEnds \/ AgentDies
        /\ UNCHANGED <<check, release, history, lease, indexed, row, control, ui, task, mirrored, failing,
                       result, read, lister>>
    BY DEF Agent, databaseVars, taskVars
  <1>2. /\ ServiceIsTrue' /\ ServiceTypeOK'
        /\ ~busy => UNCHANGED <<log, known, busy, content, edited>>
        /\ Extends(log', log) /\ Extends(known', known) /\ edited' = edited
        /\ busy' => busy
    BY <1>1, Invariants, ServiceStep
  <1>3. TypeOK'
    BY <1>1, <1>2, Invariants, TypeParts DEF ReleaseTypeOK, WorkspaceTypeOK, TaskTypeOK, ListerTypeOK
  <1>4. HistoryIsTheAgents'
    BY <1>1, <1>2, Invariants, GrowingLog DEF ReleaseIsTrue, ReleaseTypeOK, ServiceTypeOK, ServiceIsTrue, Evidence
  <1>5. AgentIsAsked' /\ TaskAtRelease' /\ StartInOrder'
    <2>1. AgentIsAsked'
      BY <1>1, <1>2, Invariants DEF ReleaseIsTrue, AgentIsAsked, NeverRan
    <2>2. TaskAtRelease' /\ StartInOrder'
      BY <1>1, Invariants DEF ReleaseIsTrue, TaskAtRelease, StartInOrder
    <2>3. QED
      BY <2>1, <2>2
  <1>6. ResultIsTheLog'
    <2>1. CASE task \in {"index", "mirror"}
      BY <1>1, <1>2, <2>1, Invariants, ResultFrame DEF ReleaseIsTrue, AgentIsAsked
    <2>2. CASE task \notin {"index", "mirror"}
      BY <1>1, <2>2 DEF ResultIsTheLog
    <2>3. QED
      BY <2>1, <2>2
  <1>7. VerdictIsTrue'
    <2>1. VerdictIsTrue /\ AgentIsAsked /\ release' = release /\ release.state # "committed"
      BY <1>1, Invariants DEF ReleaseIsTrue, ReleaseTypeOK, ReleaseRecords, ReleaseStates
    <2>2. CASE busy
      BY <2>1, <2>2 DEF AgentIsAsked, VerdictIsTrue, Agrees
    <2>3. CASE ~busy
      <3>1. content' = content /\ edited' = edited
        BY <1>2, <2>3
      <3>2. QED
        BY <2>1, <3>1 DEF VerdictIsTrue, Agrees
    <2>4. QED
      BY <2>2, <2>3
  <1>8. WorkspaceIsTrue'
    BY <1>1, <1>2, Invariants, WorkspaceFrame DEF ReleaseIsTrue, AgentIsAsked
  <1>9. QED
    BY <1>2, <1>3, <1>4, <1>5, <1>6, <1>7, <1>8, InvariantParts DEF ReleaseIsTrue

-------------------------------------------------------------------------------
(* The invariant, and what it says of a release. *)

\* The invariant holds initially,
LEMMA InvariantStart == Init => IInv
  <1> SUFFICES ASSUME Init PROVE IInv
    OBVIOUS
  <1>1. /\ log = <<>> /\ known = <<>> /\ spoiled = FALSE /\ busy = FALSE /\ reading = FALSE
        /\ edited = FALSE /\ answer = NoAnswer /\ content = "production"
        /\ check = [draft |-> 0, revision |-> 0]
        /\ release = [state |-> "none", stage |-> "none", draft |-> 0]
        /\ history = <<>> /\ lease = FALSE /\ indexed = FALSE
        /\ row = [state |-> "ready", revision |-> 1, draft |-> 0] /\ read = Unread
        /\ control = [state |-> "ready", revision |-> 1]
        /\ ui = "serving" /\ task = "none"
        /\ mirrored = 0 /\ failing = FALSE /\ result = NoAnswer /\ lister = Idle
    BY DEF Init, ServiceInit
  <1>2. TypeOK
    <2>0. <<>> \in Seq(Stages) /\ 0 \in 0..Edits /\ "none" \in ReleaseStates \cup {"none"}
      OBVIOUS
    <2>1. ServiceTypeOK
      <3>1. answer \in AnswerRecords
        BY <1>1, NoAnswerTyped
      <3>2. log \in Seq(Stages) /\ known \in Seq(Stages) /\ busy \in BOOLEAN /\ content \in ProductionContents
        BY <1>1, <2>0 DEF ProductionContents
      <3>3. QED
        BY <1>1, <3>1, <3>2 DEF ServiceTypeOK, AnswerRecords
    <2>2. ReleaseTypeOK
      <3>1. release \in ReleaseRecords
        BY <1>1, <2>0 DEF ReleaseRecords
      <3>2. QED
        BY <1>1, <2>0, <3>1 DEF ReleaseTypeOK
    <2>3. WorkspaceTypeOK
      BY <1>1 DEF WorkspaceTypeOK, RowRecords, ControlRecords, WorkspaceStates
    <2>4. TaskTypeOK
      <3>1. Unread \in RowRecords
        BY <2>0 DEF RowRecords, WorkspaceStates, Unread
      <3>2. result \in AnswerRecords /\ read \in RowRecords
        BY <1>1, <3>1, NoAnswerTyped
      <3>3. QED
        BY <1>1, <3>2 DEF TaskTypeOK, TaskPoints
    <2>5. ListerTypeOK
      BY <1>1 DEF ListerTypeOK, Idle
    <2>6. QED
      BY <2>1, <2>2, <2>3, <2>4, <2>5, TypeParts
  <1>3. ServiceIsTrue
    BY <1>1 DEF ServiceIsTrue, Evidence, Extends, Agrees, NoAnswer
  <1>4. ReleaseIsTrue
    BY <1>1
    DEF ReleaseIsTrue, HistoryIsTheAgents, AgentIsAsked, NeverRan, TaskAtRelease, ResultIsTheLog,
        VerdictIsTrue, Agrees, StartInOrder, ActiveStates
  <1>5. WorkspaceIsTrue
    BY <1>1
    DEF WorkspaceIsTrue, ReadIsRow, ApartByOutcome, WorkspaceFollowsRelease, PublishedIsProduction,
        AttentionHasCause, Opens, ControlOf, Idle
  <1>6. QED
    BY <1>2, <1>3, <1>4, <1>5, InvariantParts

\* and every step preserves it.
LEMMA InvariantStep == IInv /\ [Next]_vars => IInv'
  <1> SUFFICES ASSUME IInv, [Next]_vars PROVE IInv'
    OBVIOUS
  <1>1. CASE TaskStep
    BY <1>1, StartRunStep, ExecuteStep, PollStep, CompletedStep, IndexStep, MirrorStep, MarkUncertainStep,
       ReadRowStep, WriteControlStep, WriteRowStep, RecoverStep, RecoveredStep
    DEF TaskStep
  <1>2. CASE Reconcile \/ ReconcileWorkspace
    BY <1>2, ReconcileStep, ReconcileWorkspaceStep
  <1>3. CASE UIStep
    BY <1>3, CheckStep, QueueStep, EditDraftStep, ListSeesStep, ListMarksStep, ListWritesStep DEF UIStep
  <1>4. CASE UIDies \/ UIStarts \/ Agent
    BY <1>4, UIDiesStep, UIStartsStep, AgentStep
  <1>5. CASE UNCHANGED vars
    <2>1. /\ UNCHANGED <<log, known, spoiled, busy, reading, answer, content, edited, check, release, history, lease, indexed, row, control, ui,
                         task, mirrored, failing, result, read, lister>>
          /\ UNCHANGED serviceVars
      BY <1>5 DEF vars, serviceVars, taskVars
    <2>2. TypeOK'
      BY <2>1, Invariants, TypeParts
      DEF ServiceTypeOK, ReleaseTypeOK, WorkspaceTypeOK, TaskTypeOK, ListerTypeOK
    <2>3. ServiceIsTrue' /\ ReleaseIsTrue' /\ WorkspaceIsTrue'
      BY <2>1, Invariants, ServiceFrame, ReleaseFrame, WorkspaceFrame
    <2>4. QED
      BY <2>2, <2>3, InvariantParts
  <1>6. QED
    BY <1>1, <1>2, <1>3, <1>4, <1>5 DEF Next

\* The elements of the history, as the property reads it.
LEMMA EvidenceIsHistory ==
  ASSUME IInv
  PROVE  HistoryIsEvidence
  <1>1. history \in Seq(Stages) /\ log \in Seq(Stages) /\ known \in Seq(Stages) /\ HistoryIsTheAgents
    BY Invariants DEF ReleaseTypeOK, ServiceTypeOK, ReleaseIsTrue
  <1> SUFFICES ASSUME release.state # "none", history \notin {<<"queued">>, <<"queued", "failed">>}
               PROVE  \E l \in {log, known} : Copies(Known(l))
    BY DEF HistoryIsEvidence, Known
  <1> DEFINE n == Len(history) - 1
  <1>2. /\ Len(history) \in Nat /\ Len(history) >= 1 /\ n \in Nat
        /\ release.stage = LastStage(history) /\ release.state = StateOfStage(release.stage)
        /\ release.stage \in Stages
    BY <1>1 DEF HistoryIsTheAgents, LastStage
  <1>3. /\ Tail(history) \in Seq(Stages) /\ Len(Tail(history)) = n
        /\ \A i \in 1..n : Tail(history)[i] = history[i + 1]
    BY <1>1, <1>2
  <1>4. ASSUME NEW l \in {log, known}, AgreesUpTo(history, l, Len(history))
        PROVE  Copies(Known(l))
    <2>0. Known(l) \in Seq(Stages)
      <3>1. <<"rechecking">> \in Seq(Stages) /\ l \in Seq(Stages)
        BY <1>1, StageNames
      <3>2. QED
        BY <3>1 DEF Known
    <2>1. n <= Len(Known(l))
      BY <1>2, <1>4 DEF AgreesUpTo
    <2>2. SubSeq(Known(l), 1, n) \in Seq(Stages) /\ Len(SubSeq(Known(l), 1, n)) = n
      BY <2>0, <1>2, <2>1, FirstOf
    <2>3. \A i \in 1..n : SubSeq(Known(l), 1, n)[i] = Known(l)[i]
      BY <2>0, <1>2, <2>1, FirstOf
    <2>4. \A i \in 1..n : Tail(history)[i] = SubSeq(Known(l), 1, n)[i]
      <3>1. \A j \in 2..(n + 1) : history[j] = Known(l)[j - 1]
        BY <1>2, <1>4 DEF AgreesUpTo
      <3>2. ASSUME NEW i \in 1..n PROVE history[i + 1] = Known(l)[i]
        <4>1. i + 1 \in 2..(n + 1) /\ (i + 1) - 1 = i
          BY <1>2
        <4>2. QED
          BY <3>1, <4>1
      <3>3. QED
        BY <1>3, <2>3, <3>2
    <2>5. Tail(history) = SubSeq(Known(l), 1, n)
      BY <1>3, <2>2, <2>4, SeqEqual
    <2>6. QED
      BY <2>1, <2>5 DEF Copies
  <1>5. ASSUME NEW l \in {log, known}, release.state = "needs_attention", AgreesUpTo(history, l, Len(history) - 1)
        PROVE  Copies(Known(l))
    <2>0. Known(l) \in Seq(Stages)
      <3>1. <<"rechecking">> \in Seq(Stages) /\ l \in Seq(Stages)
        BY <1>1, StageNames
      <3>2. QED
        BY <3>1 DEF Known
    <2> DEFINE first == SubSeq(Known(l), 1, n - 1)
    <2>1. history[n + 1] = "needs_attention"
      <3>1. release.stage = "needs_attention"
        BY <1>2, <1>5, StateFacts
      <3>2. history[Len(history)] = release.stage /\ n + 1 = Len(history)
        BY <1>2 DEF LastStage
      <3>3. QED
        BY <1>2, <3>1, <3>2
    <2>2. n - 1 <= Len(Known(l)) /\ n >= 1 /\ n - 1 \in Nat
      BY <1>2, <1>5 DEF AgreesUpTo
    <2>3. first \in Seq(Stages) /\ Len(first) = n - 1
      BY <2>0, <2>2, FirstOf
    <2>4. \A i \in 1..(n - 1) : first[i] = Known(l)[i]
      BY <2>0, <2>2, FirstOf
    <2>5. \A i \in 1..(n - 1) : Tail(history)[i] = first[i]
      <3>1. \A j \in 2..n : history[j] = Known(l)[j - 1]
        BY <1>2, <1>5 DEF AgreesUpTo
      <3>2. ASSUME NEW i \in 1..(n - 1) PROVE Tail(history)[i] = history[i + 1] /\ history[i + 1] = Known(l)[i]
        <4>1. i \in 1..n /\ i + 1 \in 2..n /\ (i + 1) - 1 = i
          BY <2>2
        <4>2. QED
          BY <1>3, <3>1, <4>1
      <3>3. QED
        BY <2>4, <3>2
    <2>6. Tail(history)[n] = "needs_attention"
      BY <1>2, <1>3, <2>1, <2>2
    <2> HIDE DEF first
    <2>7. /\ Append(first, "needs_attention") \in Seq(Stages) /\ Len(Append(first, "needs_attention")) = n
          /\ Append(first, "needs_attention")[n] = "needs_attention"
          /\ \A i \in 1..(n - 1) : Append(first, "needs_attention")[i] = first[i]
      BY <1>2, <2>2, <2>3, StageNames
    <2>8. \A i \in 1..n : Tail(history)[i] = Append(first, "needs_attention")[i]
      BY <1>2, <2>2, <2>5, <2>6, <2>7
    <2>9. Tail(history) = Append(first, "needs_attention")
      BY <1>3, <2>7, <2>8, SeqEqual
    <2>10. QED
      BY <2>2, <2>9 DEF Copies, first
  <1>6. QED
    BY <1>1, <1>4, <1>5 DEF HistoryIsTheAgents, OfTheAgent

\* What the invariant says of releases and workspaces.
LEMMA WhatIsTrue == IInv => RecordsAreTrue /\ StartupSettles /\ WorkspaceFollowsRelease /\ TypeOK
  BY Invariants, EvidenceIsHistory
  DEF RecordsAreTrue, RestorePointIsIndexed, StartupSettles, ReleaseIsTrue, StartInOrder, WorkspaceIsTrue

\* In every reachable state the invariant holds.
THEOREM Invariance == Spec => []IInv
  BY InvariantStart, InvariantStep, PTL DEF Spec

\* The variables have their types.
THEOREM TypeCorrect == Spec => []TypeOK
  BY Invariance, WhatIsTrue, PTL

\* The stages in the database are the Agent's, a verdict agrees with production, and one that can be
\* restored from has its backup indexed: whatever is lost, fails or dies (Run, Reconcile,
\* mirrorReleaseResult).
THEOREM RecordsTrue == Spec => []RecordsAreTrue
  BY Invariance, WhatIsTrue, PTL

\* Nothing is served while a release of an earlier life is unsettled, and the lease is held exactly
\* while a release is active (Reconcile, TransitionRelease).
THEOREM StartupIsSettled == Spec => []StartupSettles
  BY Invariance, WhatIsTrue, PTL

\* A workspace is published only with the draft that production has, and locked only in doubt or by a
\* success that a death cut off, however often it is edited and listed meanwhile
\* (applyWorkspaceReleaseOutcome, refreshReady).
THEOREM WorkspaceFollows == Spec => []WorkspaceFollowsRelease
  BY Invariance, WhatIsTrue, PTL
=============================================================================
